------------------------------ MODULE Console ------------------------------
(***************************************************************************)
(* The operator console, apps/web/app/operator/page.tsx: the list of the   *)
(* client institutes, loaded by hand and again after each change.          *)
(*                                                                         *)
(* The page has one operator; its requests overlap as its buttons allow,   *)
(* fail or lose their answers, and the API serves each in one step.        *)
(* Behind it institutes register on the public page, and whoever else      *)
(* holds the platform key changes their status.                            *)
(***************************************************************************)
CONSTANTS Client,               \* institutes
          ConsoleCall, NoRows

VARIABLES
  clients,                      \* institutions.status, ABSENT before it is provisioned
  rows, unlocked, loading,      \* the page
  showProvision,
  request,                      \* the requests under way
  loadsCrossed,                 \* auxiliary: two loads were under way at once
  missed,                       \* auxiliary: the answer of a change was lost
  outside                       \* auxiliary: institutes changed by others since the last list

pageVars == <<rows, unlocked, loading, showProvision>>
consoleAux == <<loadsCrossed, missed, outside>>
consoleVars == <<clients, pageVars, request, consoleAux>>

Listing == [Client -> {"ABSENT", "ACTIVE", "SUSPENDED"}]
NoRequest == [pc |-> "idle"]
Loading == {"list", "listed"}
Change == [pc : {"sent", "served"}, client : Client, status : {"ACTIVE", "SUSPENDED"},
           first : BOOLEAN]

ConsoleTypeOK ==
  /\ clients \in Listing /\ rows \in Listing \cup {NoRows}
  /\ unlocked \in BOOLEAN /\ loading \in BOOLEAN /\ showProvision \in BOOLEAN
  /\ request \in [ConsoleCall -> {NoRequest, [pc |-> "list"]} \cup Change
                                   \cup [pc : {"listed"}, data : Listing]]
  /\ loadsCrossed \in BOOLEAN /\ missed \in BOOLEAN /\ outside \subseteq Client

ConsoleInit ==
  /\ clients \in Listing
  /\ rows = NoRows
  /\ unlocked = FALSE /\ loading = FALSE /\ showProvision = FALSE
  /\ request = [r \in ConsoleCall |-> NoRequest]
  /\ loadsCrossed = FALSE /\ missed = FALSE /\ outside = {}

-----------------------------------------------------------------------------

To(r, state) == request' = [request EXCEPT ![r] = state]
LoadUnderWay == \E r \in ConsoleCall : request[r].pc \in Loading

(* load(): by the page when it finds a saved key, by the unlock form, by   *)
(* Refresh, and at the end of each change.                                 *)
load(r) ==
  /\ To(r, [pc |-> "list"])
  /\ loading' = TRUE
  /\ loadsCrossed' = (loadsCrossed \/ LoadUnderWay)

(* Unlock and Refresh are disabled while a load is under way.              *)
clickLoad(r) ==
  /\ request[r] = NoRequest /\ ~loading
  /\ load(r)
  /\ UNCHANGED <<clients, rows, unlocked, showProvision, missed, outside>>

listInstitutions(r) ==
  /\ request[r].pc = "list"
  /\ To(r, [pc |-> "listed", data |-> clients])
  /\ outside' = {}
  /\ UNCHANGED <<clients, pageVars, loadsCrossed, missed>>

loaded(r) ==
  /\ request[r].pc = "listed"
  /\ rows' = request[r].data
  /\ unlocked' = TRUE /\ loading' = FALSE
  /\ To(r, NoRequest)
  /\ UNCHANGED <<clients, showProvision, consoleAux>>

(* A wrong key, a console that is switched off, or no answer.              *)
loadFails(r) ==
  /\ request[r].pc \in Loading
  /\ unlocked' = FALSE /\ loading' = FALSE
  /\ To(r, NoRequest)
  /\ UNCHANGED <<clients, rows, showProvision, consoleAux>>

-----------------------------------------------------------------------------

Shown == unlocked /\ ~loading /\ rows # NoRows
Toggled(status) == IF status = "ACTIVE" THEN "SUSPENDED" ELSE "ACTIVE"

(* The status asked for is the other one of the row, as the page shows it. *)
toggleStatus(r, i) ==
  /\ request[r] = NoRequest
  /\ Shown /\ rows[i] # "ABSENT"
  /\ To(r, [pc |-> "sent", client |-> i, status |-> Toggled(rows[i]), first |-> FALSE])
  /\ UNCHANGED <<clients, pageVars, consoleAux>>

dialog ==
  /\ unlocked \/ showProvision
  /\ showProvision' = ~showProvision
  /\ UNCHANGED <<clients, rows, unlocked, loading, request, consoleAux>>

(* Provision is disabled while its request is pending; closing and opening *)
(* the dialog again for a second one is left out.                          *)
provision(r, i) ==
  /\ request[r] = NoRequest
  /\ showProvision
  /\ \A other \in ConsoleCall : request[other] \in Change => ~request[other].first
  /\ To(r, [pc |-> "sent", client |-> i, status |-> "ACTIVE", first |-> TRUE])
  /\ UNCHANGED <<clients, pageVars, consoleAux>>

(* A second institute of the same code is refused.                         *)
serveChange(r) ==
  /\ request[r].pc = "sent"
  /\ request[r].first => clients[request[r].client] = "ABSENT"
  /\ clients' = [clients EXCEPT ![request[r].client] = request[r].status]
  /\ To(r, [pc |-> "served", client |-> request[r].client, status |-> request[r].status,
              first |-> request[r].first])
  /\ UNCHANGED <<pageVars, consoleAux>>

(* Mutant: the page trusts that only its row has changed. *)
ChangedRowOnly(r) ==
  /\ request[r].pc = "served"
  /\ To(r, NoRequest)
  /\ rows' = [rows EXCEPT ![request[r].client] = Toggled(@)]
  /\ showProvision' = (showProvision /\ ~request[r].first)
  /\ UNCHANGED <<clients, unlocked, loading, consoleAux>>

changed(r) ==
  /\ request[r].pc = "served"
  /\ load(r)
  /\ showProvision' = (showProvision /\ ~request[r].first)
  /\ UNCHANGED <<clients, rows, unlocked, missed, outside>>

(* Refused, or its answer is lost: a toast, and the rows stay as they are. *)
changeFails(r) ==
  /\ request[r].pc \in {"sent", "served"}
  /\ missed' = (missed \/ request[r].pc = "served")
  /\ To(r, NoRequest)
  /\ UNCHANGED <<clients, pageVars, loadsCrossed, outside>>

(* POST /institutions/register is public and takes no platform key; a      *)
(* second console, or a caller with the key, sets a status.                *)
changedOutside(i, status) ==
  /\ clients[i] # status
  /\ clients[i] = "ABSENT" => status = "ACTIVE"
  /\ clients' = [clients EXCEPT ![i] = status]
  /\ outside' = outside \cup {i}
  /\ UNCHANGED <<pageVars, request, loadsCrossed, missed>>

-----------------------------------------------------------------------------

ConsoleNext ==
  \/ dialog
  \/ \E r \in ConsoleCall :
       \/ clickLoad(r) \/ listInstitutions(r) \/ loaded(r) \/ loadFails(r)
       \/ serveChange(r) \/ changed(r) \/ changeFails(r)
       \/ \E i \in Client : toggleStatus(r, i) \/ provision(r, i)
  \/ \E i \in Client, status \in {"ACTIVE", "SUSPENDED"} : changedOutside(i, status)

ConsoleSpec == ConsoleInit /\ [][ConsoleNext]_consoleVars

-----------------------------------------------------------------------------

(* A console at rest shows every institute with the status it has, so that *)
(* the next toggle does what its label says (page.tsx:92), but for the     *)
(* institutes others changed since the list it shows was read (nothing     *)
(* tells the page of them), and unless two loads were under way at once,   *)
(* whose answers come in either order, or the answer of a change was lost. *)
RowsCurrentUnlessOverlapped ==
  /\ Shown /\ \A r \in ConsoleCall : request[r] = NoRequest
  /\ ~loadsCrossed /\ ~missed
  => \A i \in Client \ outside : rows[i] = clients[i]
=============================================================================
