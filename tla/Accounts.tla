------------------------------ MODULE Accounts ------------------------------
(***************************************************************************)
(* Institutions and how their users begin a session: self-registration     *)
(* (institutions.service.ts), the operator's switch (operator.service.ts)  *)
(* and the two logins of auth.service.ts, SSO and magic link, of           *)
(* apps/api/src/modules.                                                   *)
(*                                                                         *)
(* Data abstraction.  An institution is known by its id and its slug, a    *)
(* user by institution and email, a session by its refresh token; what     *)
(* happens to a session after its first token is in Sessions.  A request   *)
(* runs in several transactions, READ COMMITTED, and other requests take   *)
(* steps between them.                                                     *)
(***************************************************************************)
EXTENDS FiniteSets

CONSTANTS Tenant, Slug, Email, Link, Token, AuthCall, None

(* Rows and requests have identifiers of their own. *)
ASSUME AccountsAssumption == None \notin Link /\ Link \cap AuthCall = {}

VARIABLES
  institution,                  \* institutions: slug and status
  user,                         \* users: ACTIVE, DISABLED or absent
  link,                         \* magic_link_tokens
  inbox,                        \* dev inbox of the stub provider: last link of an email
  session,                      \* sessions: whose they are and how they began
  authCall,                     \* the requests in progress
  denied,                       \* auxiliary: requests and links of a suspended institution
  overlapped                    \* auxiliary: links two requests were verifying at once

accountsAux == <<denied, overlapped>>
accountsVars == <<institution, user, link, inbox, session, authCall, accountsAux>>

NoInstitution == [slug |-> None, status |-> "absent"]
NoLink == [tenant |-> None, email |-> None, state |-> "absent"]
NoSession == [tenant |-> None, email |-> None, from |-> None, late |-> FALSE]
NoCall == [pc |-> "idle", tenant |-> None, email |-> None, link |-> None]

AccountsTypeOK ==
  /\ institution \in [Tenant -> [slug : Slug \cup {None},
                                 status : {"absent", "ACTIVE", "SUSPENDED"}]]
  /\ user \in [Tenant \X Email -> {"absent", "ACTIVE", "DISABLED"}]
  /\ link \in [Link -> [tenant : Tenant \cup {None}, email : Email \cup {None},
                        state : {"absent", "issued", "expired", "consumed"}]]
  /\ inbox \in [Email -> Link \cup {None}]
  /\ session \in [Token -> [tenant : Tenant \cup {None}, email : Email \cup {None},
                            from : Link \cup {None}, late : BOOLEAN]]
  /\ authCall \in [AuthCall ->
       [pc : {"idle", "sso", "identified", "request", "create", "send", "verify", "fresh"},
        tenant : Tenant \cup {None}, email : Email \cup {None}, link : Link \cup {None}]]
  /\ denied \subseteq AuthCall \cup Link
  /\ overlapped \subseteq Link

AccountsInit ==
  /\ institution = [t \in Tenant |-> NoInstitution]
  /\ user = [x \in Tenant \X Email |-> "absent"]
  /\ link = [l \in Link |-> NoLink]
  /\ inbox = [e \in Email |-> None]
  /\ session = [k \in Token |-> NoSession]
  /\ authCall = [c \in AuthCall |-> NoCall]
  /\ denied = {} /\ overlapped = {}

-----------------------------------------------------------------------------
(* Institutions.                                                           *)

(* One transaction inserts the institution and its SUPER_ADMIN; a slug that*)
(* is taken fails the unique index, and nothing is inserted (409).         *)
register(t, slug, e) ==
  /\ institution[t] = NoInstitution
  /\ \A o \in Tenant : institution[o].slug # slug
  /\ institution' = [institution EXCEPT ![t] = [slug |-> slug, status |-> "ACTIVE"]]
  /\ user' = [user EXCEPT ![<<t, e>>] = "ACTIVE"]
  /\ UNCHANGED <<link, inbox, session, authCall, accountsAux>>

(* The operator's switch.  A request or link that began under a suspension *)
(* is no longer held to it once the institution is active again.           *)
setStatus(t, status) ==
  /\ institution[t].status \notin {"absent", status}
  /\ institution' = [institution EXCEPT ![t].status = status]
  /\ denied' = IF status = "SUSPENDED" THEN denied
               ELSE {x \in denied : IF x \in Link THEN link[x].tenant # t
                                    ELSE authCall[x].tenant # t}
  /\ UNCHANGED <<user, link, inbox, session, authCall, overlapped>>

(* The users table outside this code: seeds and administrators.            *)
setUser(t, e, status) ==
  /\ institution[t] # NoInstitution /\ user[<<t, e>>] # status
  /\ user' = [user EXCEPT ![<<t, e>>] = status]
  /\ UNCHANGED <<institution, link, inbox, session, authCall, accountsAux>>

-----------------------------------------------------------------------------
(* The steps all logins share.                                             *)

Call(pc, t, e, l) == [pc |-> pc, tenant |-> t, email |-> e, link |-> l]

arrive(c, pc, t, e) ==
  /\ authCall[c] = NoCall /\ institution[t] # NoInstitution
  /\ authCall' = [authCall EXCEPT ![c] = Call(pc, t, e, None)]
  /\ denied' = IF institution[t].status = "SUSPENDED" THEN denied \cup {c} ELSE denied
  /\ UNCHANGED <<institution, user, link, inbox, session, overlapped>>

Goto(c, pc) == authCall' = [authCall EXCEPT ![c].pc = pc]

End(c) == authCall' = [authCall EXCEPT ![c] = NoCall] /\ denied' = denied \ {c}

requireInstitution(t) == institution[t].status = "ACTIVE"

Active(t, e) == user[<<t, e>>] = "ACTIVE"

begin(k, t, e, l, late) ==
  /\ session[k] = NoSession
  /\ session' = [session EXCEPT ![k] =
                   [tenant |-> t, email |-> e, from |-> l, late |-> late]]

(* Any check that fails, and any error, ends the request; what it has      *)
(* committed stays.                                                        *)
refused(c) ==
  /\ authCall[c] # NoCall
  /\ End(c)
  /\ UNCHANGED <<institution, user, link, inbox, session, overlapped>>

-----------------------------------------------------------------------------
(* ssoCallback: institution, provider and user, then the session in a      *)
(* transaction of its own.                                                 *)

ssoCallback(c) ==
  /\ authCall[c].pc = "sso"
  /\ requireInstitution(authCall[c].tenant)
  /\ Goto(c, "identified")
  /\ UNCHANGED <<institution, user, link, inbox, session, accountsAux>>

issueTokens(c, k) ==
  LET t == authCall[c].tenant  e == authCall[c].email
  IN  /\ authCall[c].pc = "identified"
      /\ Active(t, e)
      /\ begin(k, t, e, None, c \in denied)
      /\ End(c)
      /\ UNCHANGED <<institution, user, link, inbox, overlapped>>

-----------------------------------------------------------------------------
(* requestMagicLink: institution, user, the row, and then the mail.        *)

(* Mutant: the institution is not looked at. *)
RequestOfAnyInstitution(c) ==
  /\ authCall[c].pc = "request"
  /\ Active(authCall[c].tenant, authCall[c].email)
  /\ Goto(c, "create")
  /\ UNCHANGED <<institution, user, link, inbox, session, accountsAux>>

requestMagicLink(c) ==
  /\ authCall[c].pc = "request"
  /\ requireInstitution(authCall[c].tenant)
  /\ Active(authCall[c].tenant, authCall[c].email)
  /\ Goto(c, "create")
  /\ UNCHANGED <<institution, user, link, inbox, session, accountsAux>>

createLink(c, l) ==
  /\ authCall[c].pc = "create" /\ link[l] = NoLink
  /\ link' = [link EXCEPT ![l] = [tenant |-> authCall[c].tenant,
                                  email |-> authCall[c].email, state |-> "issued"]]
  /\ authCall' = [authCall EXCEPT ![c].pc = "send", ![c].link = l]
  /\ denied' = IF c \in denied THEN denied \cup {l} ELSE denied
  /\ UNCHANGED <<institution, user, inbox, session, overlapped>>

sendMagicLink(c) ==
  /\ authCall[c].pc = "send"
  /\ inbox' = [inbox EXCEPT ![authCall[c].email] = authCall[c].link]
  /\ End(c)
  /\ UNCHANGED <<institution, user, link, session, overlapped>>

linkExpires(l) ==
  /\ link[l].state = "issued"
  /\ link' = [link EXCEPT ![l].state = "expired"]
  /\ UNCHANGED <<institution, user, inbox, session, authCall, accountsAux>>

-----------------------------------------------------------------------------
(* verifyMagicLink: the lookup across tenants, then one transaction that   *)
(* reads the row again and marks it consumed by its id.                    *)

Verifying(l) == {c \in AuthCall : authCall[c].pc \in {"verify", "fresh"} /\ authCall[c].link = l}

findMagicLinkTokenByHash(c, l) ==
  /\ authCall[c] = NoCall /\ link[l] # NoLink
  /\ authCall' = [authCall EXCEPT ![c] = Call("verify", link[l].tenant, link[l].email, l)]
  /\ overlapped' = IF Verifying(l) = {} THEN overlapped ELSE overlapped \cup {l}
  /\ UNCHANGED <<institution, user, link, inbox, session, denied>>

(* Mutant: the row found by the lookup is trusted. *)
VerifyReadsNothing(c) ==
  /\ authCall[c].pc = "verify"
  /\ Goto(c, "fresh")
  /\ UNCHANGED <<institution, user, link, inbox, session, accountsAux>>

verifyRead(c) ==
  /\ authCall[c].pc = "verify"
  /\ link[authCall[c].link].state = "issued"
  /\ Goto(c, "fresh")
  /\ UNCHANGED <<institution, user, link, inbox, session, accountsAux>>

(* The update, the user, the session and the commit.                       *)
verifyConsume(c, k) ==
  LET t == authCall[c].tenant  e == authCall[c].email  l == authCall[c].link
  IN  /\ authCall[c].pc = "fresh"
      /\ Active(t, e)
      /\ link' = [link EXCEPT ![l].state = "consumed"]
      /\ begin(k, t, e, l, l \in denied)
      /\ End(c)
      /\ UNCHANGED <<institution, user, inbox, overlapped>>

(* A restart of the API ends its requests and empties the dev inbox.       *)
restart ==
  /\ inbox' = [e \in Email |-> None]
  /\ authCall' = [c \in AuthCall |-> NoCall]
  /\ denied' = denied \cap Link
  /\ UNCHANGED <<institution, user, link, session, overlapped>>

-----------------------------------------------------------------------------

AccountsNext ==
  \/ \E t \in Tenant, e \in Email :
       \/ \E slug \in Slug : register(t, slug, e)
       \/ \E status \in {"ACTIVE", "DISABLED"} : setUser(t, e, status)
       \/ \E c \in AuthCall, pc \in {"sso", "request"} : arrive(c, pc, t, e)
  \/ \E t \in Tenant, status \in {"ACTIVE", "SUSPENDED"} : setStatus(t, status)
  \/ \E c \in AuthCall :
       \/ ssoCallback(c) \/ requestMagicLink(c) \/ sendMagicLink(c)
       \/ verifyRead(c) \/ refused(c)
       \/ \E k \in Token : issueTokens(c, k) \/ verifyConsume(c, k)
       \/ \E l \in Link : createLink(c, l) \/ findMagicLinkTokenByHash(c, l)
  \/ \E l \in Link : linkExpires(l)
  \/ restart

AccountsSpec == AccountsInit /\ [][AccountsNext]_accountsVars

-----------------------------------------------------------------------------

(* "Re-fetch and consume atomically ... to close the race window ... (two  *)
(* concurrent verify calls on the same link)" (auth.service.ts:102-104): a *)
(* magic link begins one session.                                          *)
LinkUsedOnce ==
  \A j, k \in Token :
    j # k /\ session[j].from # None => session[j].from # session[k].from

(* Outside that race a link does begin one session: what lets a second     *)
(* verification through is only that both were in progress at once.        *)
LinkUsedOnceUnlessOverlapped ==
  \A j, k \in Token :
    j # k /\ session[j].from \notin overlapped \cup {None}
      => session[j].from # session[k].from

(* "a suspended client's users can't start new sessions" (auth.service.ts: *)
(* 174-177), as far as the code carries it: neither an SSO login nor a     *)
(* magic link asked for during the suspension begins a session in it.  (A  *)
(* link asked for before does: verifyMagicLink does not look.)             *)
SuspensionHolds == \A k \in Token : ~session[k].late
=============================================================================
