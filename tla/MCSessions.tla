----------------------------- MODULE MCSessions -----------------------------
(* One user in two tabs, each with two API calls at a time.                *)
EXTENDS Sessions, TLC

CONSTANTS b1, b2, c1, c2, t1, t2, t3

TwoTabs == {b1, b2}
Calls == {c1, c2}
Tokens == {t1, t2, t3}

(* Both tabs, the second with one call at a time, until disturbed; then    *)
(* only CallsEnd remains to be shown, and it is shown of a single tab.  No *)
(* call has to start, so every fair behaviour of the others is covered.    *)
Bounded ==
  /\ call[<<b2, c2>>] = "idle"
  /\ disturbed =>
       store[b2] = None /\ call[<<b2, c1>>] = "idle" /\ logout[b2] = NoLogout
=============================================================================
