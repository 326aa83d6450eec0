---------------------------- MODULE Sessions_proofs ----------------------------
(***************************************************************************)
(* What the client and the API of Sessions keep for any number of tabs,    *)
(* calls and tokens: no reuse is detected, and no token a tab keeps is     *)
(* revoked, before something disturbs the session (a second holder of a    *)
(* token, a lost answer, a logout across a refresh).                       *)
(*                                                                         *)
(* The invariant says who holds what.  A token has one holder: the store   *)
(* of a tab, the answer of a refresh that is on its way to a store, or     *)
(* localStorage once the tab that wrote it is closed.                      *)
(***************************************************************************)
EXTENDS Sessions, TLAPS

Live(t) == session[t] \in {"active", "expired"}

Open(b, c) == rpc[<<b, c>>].pc # "none"
Got(b, c) == rpc[<<b, c>>].pc = "answer" /\ rpc[<<b, c>>].got # None

(* refreshPromise: a tab has one refresh at a time. *)
SharedRefresh ==
  \A b \in Tab : \A c, d \in Call : Open(b, c) /\ Open(b, d) => c = d

(* Every token that somebody holds was issued. *)
Issued ==
  /\ \A b \in Tab : store[b] # None => session[store[b]] # "absent"
  /\ persisted # None => session[persisted] # "absent"
  /\ \A b \in Tab, c \in Call :
       rpc[<<b, c>>].got # None => session[rpc[<<b, c>>].got] # "absent"

StoresApart ==
  \A b, o \in Tab : b # o /\ store[b] # None => store[b] # store[o]

(* A refresh, or a logout, is of the token its tab keeps, and not both.    *)
RefreshOfStore ==
  \A b \in Tab, c \in Call : Open(b, c) =>
    rpc[<<b, c>>].token = store[b] /\ logout[b].pc = "none"

LogoutOfStore ==
  \A b \in Tab : logout[b].pc # "none" => logout[b].token = store[b]

IdleStoreLive ==
  \A b \in Tab :
    store[b] # None /\ (\A c \in Call : ~Open(b, c)) /\ logout[b].pc = "none" => Live(store[b])

RotatesLive ==
  \A b \in Tab, c \in Call :
    /\ rpc[<<b, c>>].pc \in {"sent", "read"} => Live(store[b])
    /\ rpc[<<b, c>>].pc = "read" => rpc[<<b, c>>].seen \in {"active", "expired"}

AnswerIsFresh ==
  \A b \in Tab, c \in Call : Got(b, c) =>
    /\ Live(rpc[<<b, c>>].got) /\ rpc[<<b, c>>].got # persisted
    /\ \A o \in Tab : store[o] # rpc[<<b, c>>].got

AnswersApart ==
  \A b, o \in Tab, c, d \in Call :
    Got(b, c) /\ Got(o, d) /\ rpc[<<b, c>>].got = rpc[<<o, d>>].got => b = o /\ c = d

ClosedTabLive ==
  persisted # None /\ (\A b \in Tab : store[b] # persisted) => Live(persisted)

Calm ==
  /\ StoresApart /\ RefreshOfStore /\ LogoutOfStore /\ IdleStoreLive
  /\ RotatesLive /\ AnswerIsFresh /\ AnswersApart /\ ClosedTabLive

SessionsInv ==
  /\ TypeOK /\ SharedRefresh /\ Issued /\ NoFalseAlarm
  /\ disturbed \/ Calm

-----------------------------------------------------------------------------
(* Types.                                                                  *)

LEMMA TypeInit == Init => TypeOK
BY DEF Init, TypeOK, SessionState, NoRpc, Rpc, NoLogout

LEMMA Steps ==
  ASSUME Next
  PROVE  \/ \E b \in Tab, t \in Token : login(b, t)
         \/ \E b \in Tab : openTab(b) \/ closeTab(b)
         \/ \E b \in Tab : accessExpires(b)
         \/ \E b \in Tab : logoutStart(b) \/ revokeByRefreshToken(b) \/ logoutEnd(b)
         \/ \E b \in Tab, c \in Call : send(b, c) \/ answered(b, c)
         \/ \E b \in Tab, c \in Call : unauthorized(b, c)
         \/ \E b \in Tab, c \in Call : rotateRead(b, c)
         \/ \E b \in Tab, c \in Call, t \in Token : rotateOk(b, c, t)
         \/ \E b \in Tab, c \in Call : rotateReused(b, c)
         \/ \E b \in Tab, c \in Call : rotateRefused(b, c) \/ lookupFails(b, c)
         \/ \E b \in Tab, c \in Call : refreshDone(b, c)
         \/ \E b \in Tab, c \in Call : refreshLost(b, c)
         \/ \E t \in Token : expire(t)
BY DEF Next, Server

(* What a refresh is while it is open. *)
LEMMA OpenRefresh ==
  ASSUME TypeOK, NEW b \in Tab, NEW c \in Call, rpc[<<b, c>>].pc # "none"
  PROVE  /\ rpc[<<b, c>>] \in OpenRpc
         /\ rpc[<<b, c>>].token \in Token
         /\ rpc[<<b, c>>].got \in Token \cup {None}
         /\ rpc[<<b, c>>].seen \in SessionState \cup {None}
BY DEF TypeOK, OpenRpc, NoRpc, Rpc

LEMMA GotTyped ==
  ASSUME TypeOK, NEW b \in Tab, NEW c \in Call
  PROVE  rpc[<<b, c>>].got \in Token \cup {None}
<1>1. rpc[<<b, c>>] \in OpenRpc \/ rpc[<<b, c>>] = NoRpc
  BY DEF TypeOK
<1> QED  BY <1>1 DEF OpenRpc, NoRpc, Rpc

LEMMA OpenLogoutToken ==
  ASSUME TypeOK, NEW b \in Tab, logout[b].pc # "none"
  PROVE  logout[b] \in OpenLogout /\ logout[b].token \in Token
BY DEF TypeOK, OpenLogout, NoLogout

(* A step of a refresh writes one record of rpc. *)
LEMMA RpcTyped ==
  ASSUME NEW pc \in {"sent", "read", "answer"}, NEW token \in Token,
         NEW seen \in SessionState \cup {None}, NEW got \in Token \cup {None}
  PROVE  Rpc(pc, token, seen, got) \in OpenRpc
BY DEF Rpc, OpenRpc

LEMMA AnswerTyped ==
  ASSUME TypeOK, NEW b \in Tab, NEW c \in Call, NEW t \in Token \cup {None},
         rpc[<<b, c>>].pc # "none", Answer(b, c, t)
  PROVE  rpc' \in [Tab \X Call -> OpenRpc \cup {NoRpc}]
<1> DEFINE r == rpc[<<b, c>>]
<1>1. Rpc("answer", r.token, r.seen, t) \in OpenRpc
  BY OpenRefresh, RpcTyped
<1> QED  BY <1>1 DEF Answer, TypeOK

LEMMA TypeStep ==
  ASSUME TypeOK, [Next]_vars
  PROVE  TypeOK'
<1> USE DEF TypeOK, client, aux
<1>1. ASSUME NEW b \in Tab, NEW t \in Token, login(b, t)
      PROVE  TypeOK'
  BY <1>1 DEF login, setSession, SessionState
<1>2. ASSUME NEW b \in Tab, openTab(b) \/ closeTab(b)
      PROVE  TypeOK'
  BY <1>2 DEF openTab, closeTab
<1>3. ASSUME NEW b \in Tab, accessExpires(b)
      PROVE  TypeOK'
  BY <1>3 DEF accessExpires
<1>4. ASSUME NEW b \in Tab, logoutStart(b) \/ revokeByRefreshToken(b) \/ logoutEnd(b)
      PROVE  TypeOK'
  <2>1. CASE logoutStart(b)
    BY <2>1 DEF logoutStart, OpenLogout
  <2>2. CASE revokeByRefreshToken(b)
    <3>1. logout[b] \in OpenLogout /\ logout[b].token \in Token
      BY <2>2, OpenLogoutToken DEF revokeByRefreshToken
    <3>2. logout' = [logout EXCEPT ![b] = [pc |-> "served", token |-> logout[b].token]]
      BY <2>2 DEF revokeByRefreshToken
    <3> QED  BY <2>2, <3>1, <3>2 DEF revokeByRefreshToken, OpenLogout, SessionState
  <2>3. CASE logoutEnd(b)
    BY <2>3 DEF logoutEnd, clear
  <2> QED  BY <1>4, <2>1, <2>2, <2>3
<1>5. ASSUME NEW b \in Tab, NEW c \in Call, send(b, c) \/ answered(b, c)
      PROVE  TypeOK'
  BY <1>5 DEF send, answered
<1>6. ASSUME NEW b \in Tab, NEW c \in Call, unauthorized(b, c)
      PROVE  TypeOK'
  <2>1. StartRefresh(b, c) => rpc' \in [Tab \X Call -> OpenRpc \cup {NoRpc}] /\ disturbed' \in BOOLEAN
    <3>1. Rpc("sent", store[b], None, None) \in OpenRpc
      BY <1>6, RpcTyped DEF unauthorized
    <3> QED  BY <3>1 DEF StartRefresh
  <2> QED  BY <1>6, <2>1 DEF unauthorized
<1>7. ASSUME NEW b \in Tab, NEW c \in Call, rotateRead(b, c)
      PROVE  TypeOK'
  <2> DEFINE r == rpc[<<b, c>>]
  <2>1. r.token \in Token
    BY <1>7, OpenRefresh DEF rotateRead
  <2>2. Rpc("read", r.token, session[r.token], None) \in OpenRpc
    BY <2>1, RpcTyped
  <2> QED  BY <1>7, <2>2 DEF rotateRead
<1>8. ASSUME NEW b \in Tab, NEW c \in Call, NEW t \in Token, rotateOk(b, c, t)
      PROVE  TypeOK'
  <2>1. Answer(b, c, t) => rpc' \in [Tab \X Call -> OpenRpc \cup {NoRpc}]
    BY <1>8, AnswerTyped DEF rotateOk
  <2>2. session' \in [Token -> SessionState]
    BY <1>8 DEF rotateOk, SessionState
  <2> QED  BY <1>8, <2>1, <2>2 DEF rotateOk
<1>9. ASSUME NEW b \in Tab, NEW c \in Call, rotateReused(b, c)
      PROVE  TypeOK'
  <2>1. Answer(b, c, None) => rpc' \in [Tab \X Call -> OpenRpc \cup {NoRpc}]
    BY <1>9, AnswerTyped DEF rotateReused
  <2>2. session' \in [Token -> SessionState]
    BY <1>9 DEF rotateReused, SessionState
  <2> QED  BY <1>9, <2>1, <2>2 DEF rotateReused
<1>10. ASSUME NEW b \in Tab, NEW c \in Call, rotateRefused(b, c) \/ lookupFails(b, c)
       PROVE  TypeOK'
  <2>1. Answer(b, c, None) => rpc' \in [Tab \X Call -> OpenRpc \cup {NoRpc}]
    BY <1>10, AnswerTyped DEF rotateRefused, lookupFails
  <2> QED  BY <1>10, <2>1 DEF rotateRefused, lookupFails
<1>11. ASSUME NEW b \in Tab, NEW c \in Call, refreshDone(b, c)
       PROVE  TypeOK'
  <2>1. rpc[<<b, c>>].got \in Token \cup {None}
    BY <1>11, OpenRefresh DEF refreshDone
  <2>2. call' \in [Tab \X Call -> {"idle", "sent", "waiting", "resent"}]
    BY <1>11 DEF refreshDone, Resume
  <2> QED  BY <1>11, <2>1, <2>2 DEF refreshDone, setSession, clear
<1>12. ASSUME NEW b \in Tab, NEW c \in Call, refreshLost(b, c)
       PROVE  TypeOK'
  BY <1>12 DEF refreshLost, Resume
<1>13. ASSUME NEW t \in Token, expire(t)
       PROVE  TypeOK'
  BY <1>13 DEF expire, SessionState
<1>14. CASE UNCHANGED vars
  BY <1>14 DEF vars
<1> HIDE DEF TypeOK, client, aux
<1> QED
  BY <1>1, <1>2, <1>3, <1>4, <1>5, <1>6, <1>7, <1>8, <1>9, <1>10, <1>11, <1>12, <1>13, <1>14, Steps

-----------------------------------------------------------------------------
(* Holders.                                                                *)

LEMMA SharedStep ==
  ASSUME TypeOK, SharedRefresh, [Next]_vars
  PROVE  SharedRefresh'
<1> USE DEF SharedRefresh, Open
<1>1. CASE UNCHANGED rpc
  BY <1>1
<1>2. ASSUME NEW b \in Tab, NEW c \in Call, unauthorized(b, c)
      PROVE  SharedRefresh'
  BY <1>2 DEF unauthorized, StartRefresh, Refreshing, Rpc, TypeOK
<1>3. ASSUME NEW b \in Tab, NEW c \in Call,
             \/ rotateRead(b, c) \/ rotateReused(b, c) \/ rotateRefused(b, c) \/ lookupFails(b, c)
             \/ \E t \in Token : rotateOk(b, c, t)
      PROVE  SharedRefresh'
  <2>1. /\ rpc[<<b, c>>].pc # "none"
        /\ \A o \in Tab, d \in Call : <<o, d>> # <<b, c>> => rpc'[<<o, d>>] = rpc[<<o, d>>]
    BY <1>3 DEF Answer, Rpc, rotateRead, rotateReused, rotateRefused, lookupFails, rotateOk, TypeOK
  <2> QED  BY <2>1
<1>4. ASSUME NEW b \in Tab, NEW c \in Call, refreshDone(b, c) \/ refreshLost(b, c)
      PROVE  SharedRefresh'
  BY <1>4 DEF refreshDone, refreshLost, NoRpc, Rpc, TypeOK
<1>5. \/ UNCHANGED rpc
      \/ \E b \in Tab, c \in Call :
           \/ unauthorized(b, c) \/ rotateRead(b, c) \/ rotateReused(b, c) \/ rotateRefused(b, c)
           \/ lookupFails(b, c) \/ refreshDone(b, c) \/ refreshLost(b, c)
           \/ \E t \in Token : rotateOk(b, c, t)
  BY Steps DEF vars, login, openTab, closeTab, accessExpires, logoutStart, revokeByRefreshToken,
     logoutEnd, send, answered, expire
<1> HIDE DEF SharedRefresh, Open
<1> QED  BY <1>1, <1>2, <1>3, <1>4, <1>5

(* The sessions only move on: what was issued is never absent again. *)
LEMMA IssuedStep ==
  ASSUME TypeOK, Issued, [Next]_vars
  PROVE  Issued'
<1> USE NoneAssumption DEF TypeOK, Issued, client, aux
<1>1. ASSUME NEW b \in Tab, NEW t \in Token, login(b, t)
      PROVE  Issued'
  BY <1>1 DEF login, setSession
<1>2. ASSUME NEW b \in Tab,
             \/ openTab(b) \/ closeTab(b) \/ accessExpires(b) \/ logoutStart(b) \/ logoutEnd(b)
      PROVE  Issued'
  BY <1>2 DEF openTab, closeTab, accessExpires, logoutStart, logoutEnd, clear
<1>3. ASSUME NEW b \in Tab, revokeByRefreshToken(b)
      PROVE  Issued'
  BY <1>3 DEF revokeByRefreshToken
<1>4. ASSUME NEW b \in Tab, NEW c \in Call, send(b, c) \/ answered(b, c)
      PROVE  Issued'
  BY <1>4 DEF send, answered
<1>5. ASSUME NEW b \in Tab, NEW c \in Call, unauthorized(b, c)
      PROVE  Issued'
  BY <1>5 DEF unauthorized, StartRefresh, Rpc
<1>6. ASSUME NEW b \in Tab, NEW c \in Call, rotateRead(b, c)
      PROVE  Issued'
  BY <1>6 DEF rotateRead, Rpc
<1>7. ASSUME NEW b \in Tab, NEW c \in Call, NEW t \in Token, rotateOk(b, c, t)
      PROVE  Issued'
  <2>1. \A u \in Token : u = t \/ session[u] # "absent" => session'[u] # "absent"
    BY <1>7 DEF rotateOk
  <2>2. \A o \in Tab, d \in Call :
          rpc'[<<o, d>>].got = rpc[<<o, d>>].got \/ rpc'[<<o, d>>].got = t
    BY <1>7 DEF rotateOk, Answer, Rpc
  <2>3. \A o \in Tab, d \in Call : rpc[<<o, d>>].got \in Token \cup {None}
    BY GotTyped
  <2> QED  BY <1>7, <2>1, <2>2, <2>3 DEF rotateOk
<1>8. ASSUME NEW b \in Tab, NEW c \in Call,
             rotateReused(b, c) \/ rotateRefused(b, c) \/ lookupFails(b, c)
      PROVE  Issued'
  <2>1. \A u \in Token : session[u] # "absent" => session'[u] # "absent"
    BY <1>8 DEF rotateReused, rotateRefused, lookupFails
  <2>2. \A o \in Tab, d \in Call :
          rpc'[<<o, d>>].got = rpc[<<o, d>>].got \/ rpc'[<<o, d>>].got = None
    <3>1. Answer(b, c, None)
      BY <1>8 DEF rotateReused, rotateRefused, lookupFails
    <3> QED  BY <3>1 DEF Answer, Rpc
  <2>3. \A o \in Tab, d \in Call : rpc[<<o, d>>].got \in Token \cup {None}
    BY GotTyped
  <2> QED  BY <1>8, <2>1, <2>2, <2>3 DEF rotateReused, rotateRefused, lookupFails
<1>9. ASSUME NEW b \in Tab, NEW c \in Call, refreshDone(b, c)
      PROVE  Issued'
  BY <1>9, OpenRefresh DEF refreshDone, setSession, clear, NoRpc, Rpc
<1>10. ASSUME NEW b \in Tab, NEW c \in Call, refreshLost(b, c)
       PROVE  Issued'
  BY <1>10 DEF refreshLost, NoRpc, Rpc
<1>11. ASSUME NEW t \in Token, expire(t)
       PROVE  Issued'
  BY <1>11 DEF expire
<1>12. CASE UNCHANGED vars
  BY <1>12 DEF vars
<1> HIDE DEF TypeOK, Issued, client, aux
<1> QED
  BY <1>1, <1>2, <1>3, <1>4, <1>5, <1>6, <1>7, <1>8, <1>9, <1>10, <1>11, <1>12, Steps

-----------------------------------------------------------------------------
(* An undisturbed session stays calm.                                      *)

Held == TypeOK /\ SharedRefresh /\ Issued /\ Calm

(* The stores, rpc and logouts stay, and no session that was live ends.    *)
LEMMA CalmKept ==
  ASSUME Held, UNCHANGED <<store, persisted, rpc, logout>>,
         \A t \in Token : Live(t) => Live(t)'
  PROVE  Calm'
<1> USE NoneAssumption DEF Held, TypeOK, Calm
<1>1. StoresApart' /\ RefreshOfStore' /\ LogoutOfStore' /\ AnswersApart'
  BY DEF StoresApart, RefreshOfStore, LogoutOfStore, AnswersApart, Open, Got
<1>2. IdleStoreLive'
  BY DEF IdleStoreLive, Open
<1>3. RotatesLive'
  <2>1. \A b \in Tab, c \in Call : Open(b, c) => store[b] \in Token
    BY OpenRefresh DEF Open, RefreshOfStore
  <2> QED  BY <2>1 DEF RotatesLive, Open
<1>4. AnswerIsFresh'
  <2>1. \A b \in Tab, c \in Call : Got(b, c) => rpc[<<b, c>>].got \in Token
    BY GotTyped DEF Got
  <2> QED  BY <2>1 DEF AnswerIsFresh, Got
<1>5. ClosedTabLive'
  BY DEF ClosedTabLive
<1> QED  BY <1>1, <1>2, <1>3, <1>4, <1>5

LEMMA CalmLogin ==
  ASSUME Held, NEW b \in Tab, NEW t \in Token, login(b, t)
  PROVE  Calm'
<1>1. /\ store[b] = None /\ session[t] = "absent"
      /\ session' = [session EXCEPT ![t] = "active"]
      /\ store' = [store EXCEPT ![b] = t] /\ persisted' = t
      /\ UNCHANGED <<rpc, logout>>
  BY DEF login, setSession
<1>2. \A o \in Tab : store[o] # t
  BY <1>1, NoneAssumption DEF Held, Issued
<1>3. /\ \A c \in Call : ~Open(b, c)
      /\ logout[b].pc = "none"
  BY <1>1, OpenRefresh, OpenLogoutToken, NoneAssumption
     DEF Held, Calm, RefreshOfStore, LogoutOfStore, Open
<1>4. \A o \in Tab, c \in Call : Got(o, c) => rpc[<<o, c>>].got \in Token \ {t}
  BY <1>1, GotTyped DEF Held, Issued, Got
<1>5. \A u \in Token : Live(u) => Live(u)' /\ Live(t)'
  BY <1>1 DEF Live, Held, TypeOK
<1>6. store \in [Tab -> Token \cup {None}]
  BY DEF Held, TypeOK
<1> USE DEF Held, Calm
<1>7. StoresApart' /\ AnswersApart'
  BY <1>1, <1>2, <1>6 DEF StoresApart, AnswersApart, Got
<1>8. RefreshOfStore' /\ LogoutOfStore'
  BY <1>1, <1>3, <1>6 DEF RefreshOfStore, LogoutOfStore, Open
<1>9. IdleStoreLive'
  BY <1>1, <1>5, <1>6 DEF IdleStoreLive, Open, Live, TypeOK
<1>10. RotatesLive'
  <2>1. \A o \in Tab, c \in Call : Open(o, c) => o # b /\ store[o] \in Token
    BY <1>3, OpenRefresh DEF Open, RefreshOfStore
  <2> QED  BY <1>1, <1>5, <1>6, <2>1 DEF RotatesLive, Open
<1>11. AnswerIsFresh'
  BY <1>1, <1>4, <1>5, <1>6 DEF AnswerIsFresh, Got
<1>12. ClosedTabLive'
  BY <1>1, <1>6 DEF ClosedTabLive
<1> QED  BY <1>7, <1>8, <1>9, <1>10, <1>11, <1>12

LEMMA CalmOpenTab ==
  ASSUME Held, NEW b \in Tab, openTab(b), ~disturbed'
  PROVE  Calm'
<1>1. /\ store[b] = None /\ persisted # None
      /\ store' = [store EXCEPT ![b] = persisted]
      /\ \A o \in Tab : store[o] # persisted
      /\ UNCHANGED <<session, persisted, rpc, logout>>
  BY DEF openTab
<1>2. Live(persisted)
  BY <1>1 DEF Held, Calm, ClosedTabLive
<1>3. /\ \A c \in Call : ~Open(b, c)
      /\ logout[b].pc = "none"
  BY <1>1, OpenRefresh, OpenLogoutToken, NoneAssumption
     DEF Held, Calm, RefreshOfStore, LogoutOfStore, Open
<1>4. store \in [Tab -> Token \cup {None}]
  BY DEF Held, TypeOK
<1> USE DEF Held, Calm
<1>5. StoresApart' /\ AnswersApart'
  BY <1>1, <1>4 DEF StoresApart, AnswersApart, Got
<1>6. RefreshOfStore' /\ LogoutOfStore'
  BY <1>1, <1>3, <1>4 DEF RefreshOfStore, LogoutOfStore, Open
<1>7. IdleStoreLive'
  BY <1>1, <1>2, <1>4 DEF IdleStoreLive, Open, Live
<1>8. RotatesLive'
  BY <1>1, <1>3, <1>4 DEF RotatesLive, Open, Live
<1>9. AnswerIsFresh'
  BY <1>1, <1>4 DEF AnswerIsFresh, Got, Live
<1>10. ClosedTabLive'
  BY <1>1, <1>2 DEF ClosedTabLive, Live
<1> QED  BY <1>5, <1>6, <1>7, <1>8, <1>9, <1>10

(* closeTab: what localStorage still holds is live. *)
LEMMA CalmCloseTab ==
  ASSUME Held, NEW b \in Tab, closeTab(b)
  PROVE  Calm'
<1>1. /\ store[b] # None
      /\ store' = [store EXCEPT ![b] = None]
      /\ UNCHANGED <<session, persisted, rpc, logout>>
  BY DEF closeTab
<1>2. /\ \A c \in Call : ~Open(b, c)
      /\ logout[b].pc = "none"
  BY DEF closeTab, Refreshing, Open, NoLogout
<1>3. store \in [Tab -> Token \cup {None}]
  BY DEF Held, TypeOK
<1> USE NoneAssumption DEF Held, Calm
<1>4. Live(store[b])
  BY <1>1, <1>2 DEF IdleStoreLive
<1>5. StoresApart' /\ RefreshOfStore' /\ LogoutOfStore' /\ AnswersApart'
  BY <1>1, <1>2, <1>3 DEF StoresApart, RefreshOfStore, LogoutOfStore, AnswersApart, Open, Got
<1>6. IdleStoreLive' /\ RotatesLive'
  BY <1>1, <1>2, <1>3 DEF IdleStoreLive, RotatesLive, Open, Live
<1>7. AnswerIsFresh'
  <2>1. \A o \in Tab, c \in Call : Got(o, c) => rpc[<<o, c>>].got # None
    BY DEF Got
  <2> QED  BY <1>1, <1>3, <2>1 DEF AnswerIsFresh, Got, Live
<1>8. ClosedTabLive'
  BY <1>1, <1>3, <1>4 DEF ClosedTabLive, Live
<1> QED  BY <1>5, <1>6, <1>7, <1>8

LEMMA CalmLogout ==
  ASSUME Held, NEW b \in Tab, ~disturbed',
         logoutStart(b) \/ revokeByRefreshToken(b) \/ logoutEnd(b)
  PROVE  Calm'
<1>1. store \in [Tab -> Token \cup {None}] /\ logout \in [Tab -> OpenLogout \cup {NoLogout}]
  BY DEF Held, TypeOK
<1>2. \A o \in Tab, c \in Call : Got(o, c) => rpc[<<o, c>>].got \in Token
  BY GotTyped DEF Held, Got
<1>3. \A o \in Tab, c \in Call : Open(o, c) => store[o] \in Token
  BY OpenRefresh DEF Held, Calm, Open, RefreshOfStore
<1> USE NoneAssumption DEF Held, Calm
<1>4. CASE logoutStart(b)
  <2>1. /\ store[b] # None
        /\ logout' = [logout EXCEPT ![b] = [pc |-> "sent", token |-> store[b]]]
        /\ UNCHANGED <<session, store, persisted, rpc>>
        /\ \A c \in Call : ~Open(b, c)
    BY <1>4 DEF logoutStart, Refreshing, Open, client
  <2>2. StoresApart' /\ RefreshOfStore' /\ LogoutOfStore' /\ AnswersApart'
    BY <2>1, <1>1 DEF StoresApart, RefreshOfStore, LogoutOfStore, AnswersApart, Open, Got
  <2>3. IdleStoreLive' /\ RotatesLive' /\ ClosedTabLive'
    BY <2>1, <1>1 DEF IdleStoreLive, RotatesLive, ClosedTabLive, Open, Live
  <2>4. AnswerIsFresh'
    BY <2>1 DEF AnswerIsFresh, Got, Live
  <2> QED  BY <2>2, <2>3, <2>4
<1>5. CASE revokeByRefreshToken(b)
  <2>1. /\ logout[b].pc = "sent" /\ logout[b].token = store[b] /\ store[b] \in Token
        /\ session' = [session EXCEPT ![store[b]] = "revoked"]
        /\ UNCHANGED <<store, persisted, rpc>>
    BY <1>5, OpenLogoutToken DEF revokeByRefreshToken, client, LogoutOfStore
  <2>2. logout' = [logout EXCEPT ![b] = [pc |-> "served", token |-> store[b]]]
    BY <1>5, <1>1, <2>1 DEF revokeByRefreshToken
  <2>3. \A u \in Token : u # store[b] /\ Live(u) => Live(u)'
    BY <2>1 DEF Live, TypeOK
  <2>4. \A c \in Call : ~Open(b, c)
    BY <2>1 DEF RefreshOfStore
  <2>5. StoresApart' /\ RefreshOfStore' /\ LogoutOfStore' /\ AnswersApart'
    BY <2>1, <2>2, <2>4, <1>1 DEF StoresApart, RefreshOfStore, LogoutOfStore, AnswersApart, Open, Got
  <2>6. IdleStoreLive'
    BY <2>1, <2>2, <2>3, <1>1 DEF IdleStoreLive, Open, StoresApart
  <2>7. RotatesLive'
    <3>1. \A o \in Tab, c \in Call : Open(o, c) => store[o] # store[b]
      BY <2>1, <2>4, <1>3 DEF StoresApart
    <3> QED  BY <2>1, <2>3, <1>3, <3>1 DEF RotatesLive, Open
  <2>8. AnswerIsFresh'
    BY <2>1, <2>3, <1>2 DEF AnswerIsFresh, Got
  <2>9. ClosedTabLive'
    BY <2>1, <2>3 DEF ClosedTabLive, TypeOK
  <2> QED  BY <2>5, <2>6, <2>7, <2>8, <2>9
<1>6. CASE logoutEnd(b)
  <2>1. /\ logout[b].pc # "none"
        /\ logout' = [logout EXCEPT ![b] = NoLogout]
        /\ store' = [store EXCEPT ![b] = None] /\ persisted' = None
        /\ UNCHANGED <<session, rpc>>
    BY <1>6 DEF logoutEnd, clear
  <2>2. \A c \in Call : ~Open(b, c)
    BY <2>1 DEF RefreshOfStore
  <2>3. StoresApart' /\ RefreshOfStore' /\ LogoutOfStore' /\ AnswersApart'
    BY <2>1, <2>2, <1>1 DEF StoresApart, RefreshOfStore, LogoutOfStore, AnswersApart, Open, Got, NoLogout
  <2>4. IdleStoreLive' /\ RotatesLive' /\ ClosedTabLive'
    BY <2>1, <2>2, <1>1 DEF IdleStoreLive, RotatesLive, ClosedTabLive, Open, Live
  <2>5. AnswerIsFresh'
    BY <2>1, <1>1, <1>2 DEF AnswerIsFresh, Got, Live
  <2> QED  BY <2>3, <2>4, <2>5
<1> QED  BY <1>4, <1>5, <1>6

LEMMA CalmUnauthorized ==
  ASSUME Held, NEW b \in Tab, NEW c \in Call, unauthorized(b, c), ~disturbed'
  PROVE  Calm'
<1>1. CASE Refreshing(b) # {}
  BY <1>1, CalmKept DEF unauthorized, client, Live
<1>2. CASE Refreshing(b) = {}
  <2>1. /\ store[b] # None /\ logout[b].pc = "none"
        /\ rpc' = [rpc EXCEPT ![<<b, c>>] = Rpc("sent", store[b], None, None)]
        /\ UNCHANGED <<session, store, persisted, logout>>
    BY <1>2 DEF unauthorized, StartRefresh, client
  <2>2. \A d \in Call : ~Open(b, d)
    BY <1>2 DEF Refreshing, Open
  <2>3. \A o \in Tab, d \in Call : <<o, d>> # <<b, c>> => rpc'[<<o, d>>] = rpc[<<o, d>>]
    BY <2>1 DEF Held, TypeOK
  <2>4. rpc'[<<b, c>>] = Rpc("sent", store[b], None, None)
    BY <2>1 DEF Held, TypeOK
  <2>5. Live(store[b])
    BY <2>1, <2>2 DEF Held, Calm, IdleStoreLive
  <2> USE DEF Held, Calm
  <2>6. StoresApart' /\ LogoutOfStore' /\ ClosedTabLive'
    BY <2>1 DEF StoresApart, LogoutOfStore, ClosedTabLive, Live
  <2>7. RefreshOfStore' /\ IdleStoreLive' /\ RotatesLive'
    BY <2>1, <2>3, <2>4, <2>5 DEF RefreshOfStore, IdleStoreLive, RotatesLive, Open, Rpc, Live
  <2>8. \A o \in Tab, d \in Call : Got(o, d)' => Got(o, d) /\ rpc'[<<o, d>>] = rpc[<<o, d>>]
    BY <2>3, <2>4 DEF Got, Rpc
  <2>9. AnswerIsFresh' /\ AnswersApart'
    BY <2>1, <2>8 DEF AnswerIsFresh, AnswersApart, Live
  <2> QED  BY <2>6, <2>7, <2>9
<1> QED  BY <1>1, <1>2

(* The steps of a refresh that leave the sessions as they are: the read, a *)
(* refusal, a failure after the commit.                                    *)
LEMMA CalmAnswer ==
  ASSUME Held, NEW b \in Tab, NEW c \in Call,
         rotateRead(b, c) \/ rotateRefused(b, c) \/ lookupFails(b, c)
  PROVE  Calm'
<1> DEFINE r == rpc[<<b, c>>]
<1>1. /\ Open(b, c)
      /\ UNCHANGED <<session, store, persisted, logout>>
  BY DEF rotateRead, rotateRefused, lookupFails, client, Open
<1>2. \A o \in Tab, d \in Call : <<o, d>> # <<b, c>> => rpc'[<<o, d>>] = rpc[<<o, d>>]
  BY DEF rotateRead, rotateRefused, lookupFails, Answer, Held, TypeOK
<1>3. \/ rpc'[<<b, c>>] = Rpc("answer", r.token, r.seen, None)
      \/ r.pc = "sent" /\ rpc'[<<b, c>>] = Rpc("read", r.token, session[r.token], None)
  BY DEF rotateRead, rotateRefused, lookupFails, Answer, Held, TypeOK
<1> USE DEF Held, Calm
<1>4. r.token = store[b]
  BY <1>1 DEF RefreshOfStore
<1>5. r.pc = "sent" => Live(store[b])
  BY DEF RotatesLive
<1> HIDE DEF r
<1>6. StoresApart' /\ LogoutOfStore' /\ ClosedTabLive'
  BY <1>1 DEF StoresApart, LogoutOfStore, ClosedTabLive, Live
<1>7. \A o \in Tab, d \in Call : Open(o, d)' <=> Open(o, d)
  <2>1. Open(b, c)'
    BY <1>3 DEF Open, Rpc
  <2>2. \A o \in Tab, d \in Call : <<o, d>> # <<b, c>> => (Open(o, d)' <=> Open(o, d))
    BY <1>2 DEF Open
  <2> QED  BY <1>1, <2>1, <2>2
<1>8. RefreshOfStore' /\ IdleStoreLive'
  BY <1>1, <1>2, <1>3, <1>4, <1>7 DEF RefreshOfStore, IdleStoreLive, Rpc, Live
<1>9. RotatesLive'
  <2>1. ASSUME NEW o \in Tab, NEW d \in Call, <<o, d>> # <<b, c>>
        PROVE  /\ rpc'[<<o, d>>].pc \in {"sent", "read"} => Live(store[o])
               /\ rpc'[<<o, d>>].pc = "read" => rpc'[<<o, d>>].seen \in {"active", "expired"}
    BY <1>2, <2>1 DEF RotatesLive
  <2>2. rpc'[<<b, c>>].pc = "read" =>
          Live(store[b]) /\ rpc'[<<b, c>>].seen \in {"active", "expired"}
    BY <1>3, <1>4, <1>5 DEF Rpc, Live
  <2>3. rpc'[<<b, c>>].pc # "sent"
    BY <1>3 DEF Rpc
  <2> QED  BY <1>1, <2>1, <2>2, <2>3 DEF RotatesLive, Live
<1>10. \A o \in Tab, d \in Call : Got(o, d)' => Got(o, d) /\ rpc'[<<o, d>>] = rpc[<<o, d>>]
  BY <1>2, <1>3 DEF Got, Rpc
<1>11. AnswerIsFresh' /\ AnswersApart'
  BY <1>1, <1>10 DEF AnswerIsFresh, AnswersApart, Live
<1> QED  BY <1>6, <1>8, <1>9, <1>11

LEMMA CalmRotateOk ==
  ASSUME Held, NEW b \in Tab, NEW c \in Call, NEW t \in Token, rotateOk(b, c, t)
  PROVE  Calm'
<1> DEFINE r == rpc[<<b, c>>]
<1>1. /\ r.pc = "read" /\ session[t] = "absent"
      /\ session' = [session EXCEPT ![r.token] = "revoked", ![t] = "active"]
      /\ rpc' = [rpc EXCEPT ![<<b, c>>] = Rpc("answer", r.token, r.seen, t)]
      /\ UNCHANGED <<store, persisted, logout>>
  BY DEF rotateOk, Answer, client
<1>2. Open(b, c) /\ r.token = store[b] /\ store[b] \in Token
  BY <1>1, OpenRefresh DEF Open, Held, Calm, RefreshOfStore
<1>3. \A o \in Tab, d \in Call : <<o, d>> # <<b, c>> => rpc'[<<o, d>>] = rpc[<<o, d>>]
  BY <1>1 DEF Held, TypeOK
<1>4. rpc'[<<b, c>>] = Rpc("answer", r.token, r.seen, t)
  BY <1>1 DEF Held, TypeOK
<1> HIDE DEF r
<1> USE NoneAssumption DEF Held, Calm
<1>5. Live(t)' /\ \A u \in Token : u # store[b] /\ Live(u) => Live(u)'
  BY <1>1, <1>2 DEF Live, TypeOK
<1>6. /\ t # persisted
      /\ \A o \in Tab : store[o] # t
      /\ \A o \in Tab, d \in Call : Got(o, d) => rpc[<<o, d>>].got # t
  BY <1>1 DEF Issued, Got
<1>7. StoresApart' /\ LogoutOfStore'
  BY <1>1 DEF StoresApart, LogoutOfStore
<1>8. \A o \in Tab, d \in Call : Open(o, d)' <=> Open(o, d)
  <2>1. Open(b, c)'
    BY <1>4 DEF Open, Rpc
  <2>2. \A o \in Tab, d \in Call : <<o, d>> # <<b, c>> => (Open(o, d)' <=> Open(o, d))
    BY <1>3 DEF Open
  <2> QED  BY <1>2, <2>1, <2>2
<1>9. RefreshOfStore'
  BY <1>1, <1>2, <1>3, <1>4, <1>8 DEF RefreshOfStore, Rpc
<1>10. IdleStoreLive'
  <2>1. \A o \in Tab : store[o] # None => store[o] \in Token
    BY DEF TypeOK
  <2>2. \A o \in Tab : o # b /\ store[o] # None => store[o] # store[b]
    BY DEF StoresApart
  <2> QED  BY <1>1, <1>2, <1>5, <1>8, <2>1, <2>2 DEF IdleStoreLive
<1>11. RotatesLive'
  <2>1. \A o \in Tab, d \in Call : Open(o, d) /\ <<o, d>> # <<b, c>> =>
          store[o] \in Token /\ store[o] # store[b]
    BY <1>2, OpenRefresh DEF StoresApart, SharedRefresh, Open, RefreshOfStore
  <2>2. rpc'[<<b, c>>].pc = "answer"
    BY <1>4 DEF Rpc
  <2>3. ASSUME NEW o \in Tab, NEW d \in Call, <<o, d>> # <<b, c>>
        PROVE  /\ rpc'[<<o, d>>].pc \in {"sent", "read"} => Live(store[o])'
               /\ rpc'[<<o, d>>].pc = "read" => rpc'[<<o, d>>].seen \in {"active", "expired"}
    BY <1>1, <1>3, <1>5, <2>1, <2>3 DEF RotatesLive, Open
  <2> QED  BY <2>2, <2>3 DEF RotatesLive
<1>12. \A o \in Tab, d \in Call :
         Got(o, d)' => \/ o = b /\ d = c /\ rpc'[<<o, d>>].got = t
                       \/ Got(o, d) /\ rpc'[<<o, d>>] = rpc[<<o, d>>]
  BY <1>3, <1>4 DEF Got, Rpc
<1>13. AnswerIsFresh'
  <2> SUFFICES ASSUME NEW o \in Tab, NEW d \in Call, Got(o, d)'
               PROVE  /\ Live(rpc[<<o, d>>].got)' /\ rpc'[<<o, d>>].got # persisted
                      /\ \A e \in Tab : store[e] # rpc'[<<o, d>>].got
    BY <1>1 DEF AnswerIsFresh
  <2>1. CASE rpc'[<<o, d>>].got = t
    BY <2>1, <1>5, <1>6
  <2>2. CASE Got(o, d) /\ rpc'[<<o, d>>] = rpc[<<o, d>>]
    <3>1. rpc[<<o, d>>].got \in Token
      BY <2>2, GotTyped DEF Got
    <3>2. /\ Live(rpc[<<o, d>>].got) /\ rpc[<<o, d>>].got # persisted
          /\ \A e \in Tab : store[e] # rpc[<<o, d>>].got
      BY <2>2 DEF AnswerIsFresh
    <3> QED  BY <2>2, <3>1, <3>2, <1>5
  <2> QED  BY <1>12, <2>1, <2>2
<1>14. AnswersApart'
  BY <1>6, <1>12 DEF AnswersApart
<1>15. ClosedTabLive'
  BY <1>1, <1>5 DEF ClosedTabLive, TypeOK
<1> QED  BY <1>7, <1>9, <1>10, <1>11, <1>13, <1>14, <1>15

(* A token of an undisturbed session that is read is not revoked. *)
LEMMA NoReuse ==
  ASSUME Held, NEW b \in Tab, NEW c \in Call
  PROVE  ~rotateReused(b, c)
BY DEF Held, Calm, RotatesLive, rotateReused

LEMMA CalmRefreshDone ==
  ASSUME Held, NEW b \in Tab, NEW c \in Call, refreshDone(b, c)
  PROVE  Calm'
<1> DEFINE t == rpc[<<b, c>>].got
<1>1. /\ rpc[<<b, c>>].pc = "answer"
      /\ rpc' = [rpc EXCEPT ![<<b, c>>] = NoRpc]
      /\ store' = [store EXCEPT ![b] = t] /\ persisted' = t
      /\ UNCHANGED <<session, logout>>
  BY DEF refreshDone, setSession, clear
<1>2. t \in Token \cup {None} /\ store \in [Tab -> Token \cup {None}]
  BY GotTyped DEF Held, TypeOK
<1> USE NoneAssumption DEF Held, Calm
<1>3. /\ \A d \in Call : Open(b, d) => d = c
      /\ logout[b].pc = "none"
  BY <1>1 DEF SharedRefresh, RefreshOfStore, Open
<1>4. t # None => Live(t) /\ \A o \in Tab : store[o] # t
  BY <1>1 DEF AnswerIsFresh, Got
<1>5. t # None => \A o \in Tab, d \in Call :
        Got(o, d) /\ <<o, d>> # <<b, c>> => rpc[<<o, d>>].got # t
  BY <1>1 DEF AnswersApart, Got
<1>6. \A o \in Tab, d \in Call : <<o, d>> # <<b, c>> => rpc'[<<o, d>>] = rpc[<<o, d>>]
  BY <1>1 DEF TypeOK
<1>7. rpc'[<<b, c>>] = NoRpc
  BY <1>1 DEF TypeOK
<1> HIDE DEF t
<1>8. StoresApart'
  BY <1>1, <1>2, <1>4 DEF StoresApart
<1>9. RefreshOfStore' /\ LogoutOfStore'
  BY <1>1, <1>2, <1>3, <1>6, <1>7 DEF RefreshOfStore, LogoutOfStore, Open, NoRpc, Rpc
<1>10. IdleStoreLive' /\ RotatesLive'
  BY <1>1, <1>2, <1>3, <1>4, <1>6, <1>7 DEF IdleStoreLive, RotatesLive, Open, Live, NoRpc, Rpc
<1>11. \A o \in Tab, d \in Call :
         Got(o, d)' => <<o, d>> # <<b, c>> /\ Got(o, d) /\ rpc'[<<o, d>>] = rpc[<<o, d>>]
  BY <1>6, <1>7 DEF Got, NoRpc, Rpc
<1>12. AnswerIsFresh'
  <2>1. \A o \in Tab, d \in Call : Got(o, d)' => rpc'[<<o, d>>].got \notin {None, t}
    BY <1>5, <1>11 DEF Got
  <2>2. ASSUME NEW o \in Tab, NEW d \in Call, Got(o, d)'
        PROVE  /\ Live(rpc[<<o, d>>].got) /\ rpc'[<<o, d>>] = rpc[<<o, d>>]
               /\ \A a \in Tab : store[a] # rpc[<<o, d>>].got
    BY <1>11, <2>2 DEF AnswerIsFresh
  <2>3. ASSUME NEW o \in Tab, NEW d \in Call, Got(o, d)'
        PROVE  /\ Live(rpc[<<o, d>>].got)' /\ rpc'[<<o, d>>].got # persisted'
               /\ \A a \in Tab : store'[a] # rpc'[<<o, d>>].got
    <3>1. Live(rpc[<<o, d>>].got)' /\ rpc'[<<o, d>>].got # persisted'
      BY <1>1, <2>1, <2>2, <2>3 DEF Live
    <3>2. \A a \in Tab : store'[a] = t \/ store'[a] = store[a]
      BY <1>1, <1>2
    <3> QED  BY <2>1, <2>2, <2>3, <3>1, <3>2
  <2> QED  BY <2>3 DEF AnswerIsFresh
<1>13. AnswersApart'
  BY <1>11 DEF AnswersApart
<1>14. ClosedTabLive'
  BY <1>1, <1>2 DEF ClosedTabLive
<1> QED  BY <1>8, <1>9, <1>10, <1>12, <1>13, <1>14

LEMMA CalmRefreshLost ==
  ASSUME Held, NEW b \in Tab, NEW c \in Call, refreshLost(b, c), ~disturbed'
  PROVE  Calm'
<1>1. /\ rpc[<<b, c>>].pc = "sent"
      /\ rpc' = [rpc EXCEPT ![<<b, c>>] = NoRpc]
      /\ UNCHANGED <<session, store, persisted, logout>>
  BY DEF refreshLost, client
<1> USE DEF Held, Calm
<1>2. /\ \A d \in Call : Open(b, d) => d = c
      /\ Live(store[b])
  BY <1>1 DEF SharedRefresh, RotatesLive, Open
<1>3. \A o \in Tab, d \in Call : <<o, d>> # <<b, c>> => rpc'[<<o, d>>] = rpc[<<o, d>>]
  BY <1>1 DEF TypeOK
<1>4. rpc'[<<b, c>>] = NoRpc
  BY <1>1 DEF TypeOK
<1>5. StoresApart' /\ LogoutOfStore' /\ ClosedTabLive'
  BY <1>1 DEF StoresApart, LogoutOfStore, ClosedTabLive, Live
<1>6. RefreshOfStore' /\ IdleStoreLive' /\ RotatesLive'
  BY <1>1, <1>2, <1>3, <1>4 DEF RefreshOfStore, IdleStoreLive, RotatesLive, Open, Live, NoRpc, Rpc
<1>7. \A o \in Tab, d \in Call : Got(o, d)' => Got(o, d) /\ rpc'[<<o, d>>] = rpc[<<o, d>>]
  BY <1>3, <1>4 DEF Got, NoRpc, Rpc
<1>8. AnswerIsFresh' /\ AnswersApart'
  BY <1>1, <1>7 DEF AnswerIsFresh, AnswersApart, Live
<1> QED  BY <1>5, <1>6, <1>8

LEMMA CalmStep ==
  ASSUME Held, [Next]_vars, ~disturbed'
  PROVE  Calm'
<1>1. ASSUME NEW b \in Tab, accessExpires(b)
      PROVE  Calm'
  BY <1>1, CalmKept DEF accessExpires, Live
<1>2. ASSUME NEW b \in Tab, NEW c \in Call, send(b, c) \/ answered(b, c)
      PROVE  Calm'
  BY <1>2, CalmKept DEF send, answered, client, Live
<1>3. ASSUME NEW t \in Token, expire(t)
      PROVE  Calm'
  <2>1. \A u \in Token : Live(u) => Live(u)'
    BY <1>3 DEF expire, Live, Held, TypeOK
  <2> QED  BY <1>3, <2>1, CalmKept DEF expire, client
<1>4. CASE UNCHANGED vars
  BY <1>4, CalmKept DEF vars, client, Live
<1> QED
  BY <1>1, <1>2, <1>3, <1>4, CalmLogin, CalmOpenTab, CalmCloseTab, CalmLogout, CalmUnauthorized,
     CalmAnswer, CalmRotateOk, NoReuse, CalmRefreshDone, CalmRefreshLost, Steps

-----------------------------------------------------------------------------

LEMMA DisturbedForGood ==
  ASSUME [Next]_vars, disturbed
  PROVE  disturbed'
<1>1. ASSUME Next
      PROVE  disturbed'
  BY <1>1, Steps DEF login, openTab, closeTab, accessExpires, logoutStart, revokeByRefreshToken,
     logoutEnd, send, answered, unauthorized, StartRefresh, rotateRead, rotateOk, rotateReused,
     rotateRefused, lookupFails, refreshDone, refreshLost, expire, aux
<1> QED  BY <1>1 DEF vars, aux

(* Only rotateReused raises the alarm. *)
LEMMA AlarmByReuse ==
  ASSUME [Next]_vars
  PROVE  alarm' = alarm \/ \E b \in Tab, c \in Call : rotateReused(b, c)
<1>1. ASSUME Next
      PROVE  alarm' = alarm \/ \E b \in Tab, c \in Call : rotateReused(b, c)
  BY <1>1, Steps DEF login, openTab, closeTab, accessExpires, logoutStart, revokeByRefreshToken,
     logoutEnd, send, answered, unauthorized, StartRefresh, rotateRead, rotateOk,
     rotateRefused, lookupFails, refreshDone, refreshLost, expire, aux
<1> QED  BY <1>1 DEF vars, aux

LEMMA SessionsInvInit == Init => SessionsInv
<1> SUFFICES ASSUME Init PROVE SessionsInv
  OBVIOUS
<1>1. /\ TypeOK /\ SharedRefresh /\ Issued /\ NoFalseAlarm
  BY TypeInit DEF Init, SharedRefresh, Issued, NoFalseAlarm, Open, NoRpc, Rpc
<1>2. Calm
  BY DEF Init, Calm, StoresApart, RefreshOfStore, LogoutOfStore, IdleStoreLive, RotatesLive,
     AnswerIsFresh, AnswersApart, ClosedTabLive, Open, Got, NoRpc, Rpc, NoLogout
<1> QED  BY <1>1, <1>2 DEF SessionsInv

LEMMA SessionsInvStep ==
  ASSUME SessionsInv, [Next]_vars
  PROVE  SessionsInv'
<1>1. TypeOK' /\ SharedRefresh' /\ Issued'
  BY TypeStep, SharedStep, IssuedStep DEF SessionsInv
<1>2. disturbed' \/ Calm'
  BY CalmStep, DisturbedForGood DEF SessionsInv, Held
<1>3. NoFalseAlarm'
  <2>1. CASE disturbed
    BY <2>1, DisturbedForGood DEF NoFalseAlarm
  <2>2. CASE ~disturbed
    BY <2>2, AlarmByReuse, NoReuse DEF SessionsInv, Held, NoFalseAlarm
  <2> QED  BY <2>1, <2>2
<1> QED  BY <1>1, <1>2, <1>3 DEF SessionsInv

LEMMA SessionsInvariant == Spec => []SessionsInv
BY SessionsInvInit, SessionsInvStep, PTL DEF Spec

(* Stores, localStorage and the requests on their way are well typed.      *)
THEOREM SessionsTypes == Spec => []TypeOK
BY SessionsInvariant, PTL DEF SessionsInv

(* However many tabs and calls there are, no reuse is detected before a    *)
(* token has a second holder, an answer with a new token is lost, or a     *)
(* logout and a refresh of one tab overlap.                                *)
THEOREM AlarmOnlyDisturbed == Spec => []NoFalseAlarm
BY SessionsInvariant, PTL DEF SessionsInv

(* The token a tab keeps is good for a refresh.                            *)
THEOREM StoredTokensLive == Spec => []StoreIsLive
<1>1. SessionsInv => StoreIsLive
  BY DEF SessionsInv, StoreIsLive, Calm, IdleStoreLive, Live, Open, Refreshing
<1> QED  BY <1>1, SessionsInvariant, PTL

(* Reading and revoking a token are two statements, yet no token is        *)
(* rotated twice.                                                          *)
THEOREM TokensRotateOnce == Spec => RotatesOnce
<1> DEFINE Once == \A x \in Tab \X Call :
              (rpc[x].pc = "read" /\ rpc'[x].got # None) =>
                session[rpc[x].token] # "revoked" \/ disturbed
<1>1. SessionsInv => Once
  <2>1. ASSUME SessionsInv, ~disturbed, NEW b \in Tab, NEW c \in Call, rpc[<<b, c>>].pc = "read"
        PROVE  session[rpc[<<b, c>>].token] # "revoked"
    BY <2>1 DEF SessionsInv, Calm, RotatesLive, RefreshOfStore, Open, Live
  <2>2. \A x \in Tab \X Call : x = <<x[1], x[2]>> /\ x[1] \in Tab /\ x[2] \in Call
    OBVIOUS
  <2> QED  BY <2>1, <2>2
<1>2. SessionsInv /\ [Next]_vars => [Once]_vars
  BY <1>1
<1>3. [][Once]_vars => RotatesOnce
  BY PTL DEF RotatesOnce
<1> QED  BY <1>2, <1>3, SessionsInvariant, PTL DEF Spec
=============================================================================
