------------------------------ MODULE Sessions ------------------------------
(***************************************************************************)
(* The login sessions of one user: refresh-token rotation in the API       *)
(* (apps/api/src/modules/auth/session.service.ts) and the client that      *)
(* presents the tokens (apps/web/lib/api-client.ts, auth-store.ts,         *)
(* use-logout.ts), with the network between them.                          *)
(*                                                                         *)
(* A session is its refresh token.  Each browser tab keeps its own copy of *)
(* the auth store, filled from localStorage when the tab opens.  The API   *)
(* reads the session in one statement and updates it by id in another      *)
(* (READ COMMITTED), so two rotations of a token can both find it active.  *)
(***************************************************************************)
CONSTANTS Tab, Call, Token, None

ASSUME NoneAssumption == None \notin Token

VARIABLES
  session,                      \* sessions: the state of each refresh token
  store,                        \* auth store of each tab: its refresh token
  stale,                        \* tabs whose access token is refused
  persisted,                    \* localStorage: the refresh token
  call,                         \* the API calls of each tab
  rpc,                          \* the refresh each call has started
  logout,                       \* the logout of each tab
  alarm,                        \* auxiliary: a reuse was detected
  disturbed                     \* auxiliary: a second holder of a token

client == <<store, stale, persisted>>
aux == <<alarm, disturbed>>
vars == <<session, client, call, rpc, logout, aux>>

Rpc(pc, token, seen, got) == [pc |-> pc, token |-> token, seen |-> seen, got |-> got]
NoRpc == Rpc("none", None, None, None)
NoLogout == [pc |-> "none", token |-> None]

SessionState == {"absent", "active", "revoked", "expired"}

OpenRpc == [pc : {"sent", "read", "answer"}, token : Token,
            seen : SessionState \cup {None}, got : Token \cup {None}]

OpenLogout == [pc : {"sent", "served"}, token : Token]

TypeOK ==
  /\ session \in [Token -> SessionState]
  /\ store \in [Tab -> Token \cup {None}]
  /\ stale \subseteq Tab
  /\ persisted \in Token \cup {None}
  /\ call \in [Tab \X Call -> {"idle", "sent", "waiting", "resent"}]
  /\ rpc \in [Tab \X Call -> OpenRpc \cup {NoRpc}]
  /\ logout \in [Tab -> OpenLogout \cup {NoLogout}]
  /\ alarm \in BOOLEAN /\ disturbed \in BOOLEAN

Init ==
  /\ session = [t \in Token |-> "absent"]
  /\ store = [b \in Tab |-> None]
  /\ stale = {}
  /\ persisted = None
  /\ call = [x \in Tab \X Call |-> "idle"]
  /\ rpc = [x \in Tab \X Call |-> NoRpc]
  /\ logout = [b \in Tab |-> NoLogout]
  /\ alarm = FALSE /\ disturbed = FALSE

-----------------------------------------------------------------------------
(* The auth store.                                                         *)

setSession(b, t) ==
  /\ store' = [store EXCEPT ![b] = t]
  /\ persisted' = t
  /\ stale' = stale \ {b}

clear(b) ==
  /\ store' = [store EXCEPT ![b] = None]
  /\ persisted' = None
  /\ stale' = stale \ {b}

(* SSO callback or magic link, as one step: a new session.                 *)
login(b, t) ==
  /\ store[b] = None /\ session[t] = "absent"
  /\ session' = [session EXCEPT ![t] = "active"]
  /\ setSession(b, t)
  /\ UNCHANGED <<call, rpc, logout, aux>>

Refreshing(b) == {c \in Call : rpc[<<b, c>>].pc # "none"}

(* Another tab, or a reload, starts from localStorage.                     *)
openTab(b) ==
  /\ store[b] = None /\ persisted # None /\ Refreshing(b) = {}
  /\ store' = [store EXCEPT ![b] = persisted]
  /\ disturbed' = (disturbed \/ \E o \in Tab : store[o] = persisted)
  /\ UNCHANGED <<session, stale, persisted, call, rpc, logout, alarm>>

(* The memory of a tab goes, localStorage stays.  (A refresh under way is  *)
(* lost first, see refreshLost.)                                           *)
closeTab(b) ==
  /\ store[b] # None /\ Refreshing(b) = {} /\ logout[b] = NoLogout
  /\ store' = [store EXCEPT ![b] = None]
  /\ stale' = stale \ {b}
  /\ call' = [x \in Tab \X Call |-> IF x[1] = b THEN "idle" ELSE call[x]]
  /\ UNCHANGED <<session, persisted, rpc, logout, aux>>

-----------------------------------------------------------------------------
(* apiFetch.                                                               *)

send(b, c) ==
  /\ call[<<b, c>>] = "idle" /\ store[b] # None
  /\ call' = [call EXCEPT ![<<b, c>>] = "sent"]
  /\ UNCHANGED <<session, client, rpc, logout, aux>>

(* The access token has run out by the time the call is answered.          *)
accessExpires(b) ==
  /\ store[b] # None
  /\ stale' = stale \cup {b}
  /\ UNCHANGED <<session, store, persisted, call, rpc, logout, aux>>

answered(b, c) ==
  /\ call[<<b, c>>] \in {"sent", "resent"}
  /\ call' = [call EXCEPT ![<<b, c>>] = "idle"]
  /\ UNCHANGED <<session, client, rpc, logout, aux>>

StartRefresh(b, c) ==
  /\ rpc' = [rpc EXCEPT ![<<b, c>>] = Rpc("sent", store[b], None, None)]
  /\ disturbed' = (disturbed \/ logout[b].pc # "none")

(* Mutant: every call that gets a 401 refreshes for itself. *)
UnauthorizedEach(b, c) ==
  /\ call[<<b, c>>] = "sent" /\ b \in stale /\ store[b] # None
  /\ call' = [call EXCEPT ![<<b, c>>] = "waiting"]
  /\ StartRefresh(b, c)
  /\ UNCHANGED <<session, client, logout, alarm>>

(* A first 401 makes the call wait for the tab's refreshPromise; it starts *)
(* one if there is none.  A second 401 ends the call (answered).           *)
unauthorized(b, c) ==
  /\ call[<<b, c>>] = "sent" /\ b \in stale /\ store[b] # None
  /\ call' = [call EXCEPT ![<<b, c>>] = "waiting"]
  /\ IF Refreshing(b) = {} THEN StartRefresh(b, c) ELSE UNCHANGED <<rpc, disturbed>>
  /\ UNCHANGED <<session, client, logout, alarm>>

-----------------------------------------------------------------------------
(* rotateSession.                                                          *)

rotateRead(b, c) ==
  /\ rpc[<<b, c>>].pc = "sent"
  /\ rpc' = [rpc EXCEPT ![<<b, c>>] = Rpc("read", @.token, session[@.token], None)]
  /\ UNCHANGED <<session, client, call, logout, aux>>

Answer(b, c, t) ==
  rpc' = [rpc EXCEPT ![<<b, c>>] = Rpc("answer", @.token, @.seen, t)]

rotateOk(b, c, t) ==
  /\ rpc[<<b, c>>].pc = "read" /\ rpc[<<b, c>>].seen = "active" /\ session[t] = "absent"
  /\ session' = [session EXCEPT ![rpc[<<b, c>>].token] = "revoked", ![t] = "active"]
  /\ Answer(b, c, t)
  /\ UNCHANGED <<client, call, logout, aux>>

(* Reuse: every session of the user that is not revoked yet is.            *)
rotateReused(b, c) ==
  /\ rpc[<<b, c>>].pc = "read" /\ rpc[<<b, c>>].seen = "revoked"
  /\ session' = [t \in Token |-> IF session[t] = "absent" THEN "absent" ELSE "revoked"]
  /\ alarm' = TRUE
  /\ Answer(b, c, None)
  /\ UNCHANGED <<client, call, logout, disturbed>>

(* An expired token, or a failure before the commit.                       *)
rotateRefused(b, c) ==
  /\ rpc[<<b, c>>].pc = "read"
  /\ Answer(b, c, None)
  /\ UNCHANGED <<session, client, call, logout, aux>>

(* refresh() reads the user in a transaction of its own after the rotation *)
(* has committed: when that fails the new session is nobody's.             *)
lookupFails(b, c) ==
  /\ rpc[<<b, c>>].pc = "answer"
  /\ Answer(b, c, None)
  /\ UNCHANGED <<session, client, call, logout, aux>>

expire(t) ==
  /\ session[t] = "active"
  /\ session' = [session EXCEPT ![t] = "expired"]
  /\ UNCHANGED <<client, call, rpc, logout, aux>>

-----------------------------------------------------------------------------
(* The end of refreshAccessToken.                                          *)

(* Mutant: the waiting calls are not woken. *)
ResumeNone(b, pc) == UNCHANGED call

Resume(b, pc) ==
  call' = [x \in Tab \X Call |->
             IF x[1] = b /\ call[x] = "waiting" THEN pc ELSE call[x]]

(* Mutant: only the access token of the answer is stored. *)
RefreshStoresAccess(b, c) ==
  /\ rpc[<<b, c>>].pc = "answer"
  /\ rpc' = [rpc EXCEPT ![<<b, c>>] = NoRpc]
  /\ \/ /\ rpc[<<b, c>>].got # None /\ Resume(b, "resent")
        /\ stale' = stale \ {b} /\ UNCHANGED <<store, persisted>>
     \/ rpc[<<b, c>>].got = None /\ clear(b) /\ Resume(b, "idle")
  /\ UNCHANGED <<session, logout, aux>>

(* setSession() and the retries, or clear() and the calls fail.            *)
refreshDone(b, c) ==
  /\ rpc[<<b, c>>].pc = "answer"
  /\ rpc' = [rpc EXCEPT ![<<b, c>>] = NoRpc]
  /\ \/ rpc[<<b, c>>].got # None /\ setSession(b, rpc[<<b, c>>].got) /\ Resume(b, "resent")
     \/ rpc[<<b, c>>].got = None /\ clear(b) /\ Resume(b, "idle")
  /\ UNCHANGED <<session, logout, aux>>

(* fetch() rejects: the request or its answer is lost.  The promise is     *)
(* reset, the store stays as it was, the calls fail.                       *)
refreshLost(b, c) ==
  /\ rpc[<<b, c>>].pc \in {"sent", "answer"}
  /\ rpc' = [rpc EXCEPT ![<<b, c>>] = NoRpc]
  /\ Resume(b, "idle")
  /\ disturbed' = (disturbed \/ rpc[<<b, c>>].pc = "answer")
  /\ UNCHANGED <<session, client, logout, alarm>>

-----------------------------------------------------------------------------
(* useLogout.                                                              *)

logoutStart(b) ==
  /\ logout[b].pc = "none" /\ store[b] # None
  /\ logout' = [logout EXCEPT ![b] = [pc |-> "sent", token |-> store[b]]]
  /\ disturbed' = (disturbed \/ Refreshing(b) # {})
  /\ UNCHANGED <<session, client, call, rpc, alarm>>

revokeByRefreshToken(b) ==
  /\ logout[b].pc = "sent"
  /\ session' = [session EXCEPT ![logout[b].token] = "revoked"]
  /\ logout' = [logout EXCEPT ![b] = [pc |-> "served", token |-> @.token]]
  /\ UNCHANGED <<client, call, rpc, aux>>

(* "the session is cleared client-side regardless of whether the revoke    *)
(* call succeeds"                                                          *)
logoutEnd(b) ==
  /\ logout[b].pc # "none"
  /\ logout' = [logout EXCEPT ![b] = NoLogout]
  /\ clear(b)
  /\ UNCHANGED <<session, call, rpc, aux>>

-----------------------------------------------------------------------------

Server(b, c) ==
  \/ rotateRead(b, c) \/ \E t \in Token : rotateOk(b, c, t)
  \/ rotateReused(b, c) \/ rotateRefused(b, c)

Next ==
  \/ \E b \in Tab :
       \/ \E t \in Token : login(b, t)
       \/ openTab(b) \/ closeTab(b) \/ accessExpires(b)
       \/ logoutStart(b) \/ revokeByRefreshToken(b) \/ logoutEnd(b)
       \/ \E c \in Call :
            \/ send(b, c) \/ answered(b, c) \/ unauthorized(b, c)
            \/ Server(b, c) \/ lookupFails(b, c) \/ refreshDone(b, c) \/ refreshLost(b, c)
  \/ \E t \in Token : expire(t)

Spec == Init /\ [][Next]_vars

(* A request that was received is worked on, an answer arrives or fetch()  *)
(* rejects, and a call that was sent is answered.                          *)
Fairness ==
  \A b \in Tab, c \in Call :
    /\ WF_vars(Server(b, c)) /\ WF_vars(refreshDone(b, c) \/ refreshLost(b, c))
    /\ WF_vars(answered(b, c) \/ unauthorized(b, c))

FairSpec == Spec /\ Fairness

-----------------------------------------------------------------------------

(* The user is never taken for a thief of their own token: a reuse is      *)
(* detected (session.service.ts:73-79) only after a second tab took over a *)
(* token that was in use, an answer with a new token was lost, or a logout *)
(* and a refresh of the same tab overlapped.                               *)
NoFalseAlarm == alarm => disturbed

(* The token a tab keeps is good for a refresh, unless a refresh or logout *)
(* of the tab is on its way: the single refreshPromise of api-client.ts    *)
(* and the rotation in the API stay in step.                               *)
StoreIsLive ==
  disturbed \/ \A b \in Tab :
    store[b] # None =>
      \/ session[store[b]] \in {"active", "expired"}
      \/ Refreshing(b) # {} \/ logout[b].pc # "none"

(* No token is rotated twice, though reading and revoking it are separate  *)
(* statements (session.service.ts:67-87): the calls of a tab share one     *)
(* refresh.                                                                *)
RotatesOnce ==
  [][ \A x \in Tab \X Call :
        (rpc[x].pc = "read" /\ rpc'[x].got # None) =>
          session[rpc[x].token] # "revoked" \/ disturbed ]_vars

(* "the session is cleared client-side regardless of whether the revoke    *)
(* call succeeds" (use-logout.ts:12-13): a tab that has no session gets    *)
(* one by a login or from localStorage, not by the answer of a refresh.    *)
LoggedOutStays ==
  [][ \A b \in Tab : (store[b] = None /\ store'[b] # None) => rpc' = rpc ]_vars

(* Every API call ends, whatever its tab's refresh does.                   *)
CallsEnd ==
  \A x \in Tab \X Call : call[x] # "idle" ~> call[x] = "idle"
=============================================================================
