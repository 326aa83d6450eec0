------------------------------ MODULE MCCampus ------------------------------
(* Five parts that share no row: a behaviour is one of any of them, while  *)
(* the others stay as they were.                                           *)
EXTENDS Accounts, Mentorship, Resumes, ResumeStudio, Console, TLC

CONSTANTS i1, i2, uni, e1, l1, l2, k1, k2, c1, c2,
          ana, ben, tpo, m1, h1, b1, b2,
          cv1, cv2, r1, r2, x1, x2, n1, n2, o1, o2

Institutions == {i1, i2}
Slugs == {uni}
Links == {l1, l2}
Tokens == {k1, k2}
AuthCalls == {c1, c2}
Students == {ana, ben}
Threads == {m1}
BoardCalls == {b1, b2}
Contents == {cv1, cv2}
ResumeCalls == {r1, r2}
Texts == {x1, x2}
Clients == {n1, n2}
ConsoleCalls == {o1, o2}

VARIABLE moving                 \* the part this behaviour is of

(* The pages start in several states: one of them, while another part moves. *)
Init ==
  /\ moving \in {"accounts", "mentorship", "resumes", "studio", "console"}
  /\ AccountsInit /\ MentorshipInit /\ ResumesInit /\ StudioInit /\ ConsoleInit
  /\ moving # "studio" => stored = [q \in Query |-> x1] /\ editor = stored
  /\ moving # "console" => clients = [i \in Client |-> "ABSENT"]

Next ==
  /\ UNCHANGED moving
  /\ \/ /\ moving = "accounts" /\ AccountsNext
        /\ UNCHANGED <<mentorshipVars, resumesVars, studioVars, consoleVars>>
     \/ /\ moving = "mentorship" /\ MentorshipNext
        /\ UNCHANGED <<accountsVars, resumesVars, studioVars, consoleVars>>
     \/ /\ moving = "resumes" /\ ResumesNext
        /\ UNCHANGED <<accountsVars, mentorshipVars, studioVars, consoleVars>>
     \/ /\ moving = "studio" /\ StudioNext
        /\ UNCHANGED <<accountsVars, mentorshipVars, resumesVars, consoleVars>>
     \/ /\ moving = "console" /\ ConsoleNext
        /\ UNCHANGED <<accountsVars, mentorshipVars, resumesVars, studioVars>>

Spec ==
  Init /\ [][Next]_<<accountsVars, mentorshipVars, resumesVars, studioVars, consoleVars, moving>>

(* Neither is ever reset and the console promises nothing after either, so *)
(* no further state of its behaviours is looked at.                        *)
ConsoleUndisturbed == ~loadsCrossed /\ ~missed

Symmetry ==
  Permutations(Institutions) \cup Permutations(Links) \cup Permutations(Tokens)
    \cup Permutations(AuthCalls) \cup Permutations(BoardCalls)
=============================================================================
