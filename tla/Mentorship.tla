----------------------------- MODULE Mentorship -----------------------------
(***************************************************************************)
(* The mentorship board of apps/api/src/modules/mentorship: placed students*)
(* offer to mentor, students start threads, anyone on the board replies.   *)
(*                                                                         *)
(* Placement itself belongs to the offers (accept, revoke; Offers.tla); it *)
(* changes here at any time.  A request reads in one statement and writes  *)
(* in a later one of the same transaction, READ COMMITTED.                 *)
(***************************************************************************)
CONSTANTS Student, Staff, Thread, Headline, BoardCall, Unset

VARIABLES
  placed,                       \* students whose placementStatus is PLACED
  mentorOptIn,                  \* students that opted in as mentors
  headline,                     \* mentorHeadline of each student
  thread,                       \* mentor_threads
  replies,                      \* mentor_replies: threads with one, and is it an answer
  boardCall,                    \* the requests in progress
  wasPlaced                     \* auxiliary: students placed at some time

profile == <<mentorOptIn, headline>>
board == <<thread, replies>>
mentorshipVars == <<placed, profile, board, boardCall, wasPlaced>>

User == Student \cup Staff

NoThread == [author |-> Unset, mentor |-> Unset, status |-> "absent"]
NoBoardCall == [pc |-> "idle"]

ProfileCall ==
  [pc : {"profile"}, student : Student, optIn : BOOLEAN, headline : Headline \cup {Unset}]
ThreadCall == [pc : {"thread"}, author : Student, mentor : Student \cup {Unset}]
ReplyCall == [pc : {"reply"}, thread : Thread, answers : BOOLEAN]

MentorshipTypeOK ==
  /\ placed \subseteq Student /\ mentorOptIn \subseteq Student
  /\ headline \in [Student -> Headline \cup {Unset}]
  /\ thread \in [Thread -> [author : Student \cup {Unset}, mentor : Student \cup {Unset},
                            status : {"absent", "OPEN", "ANSWERED"}]]
  /\ replies \subseteq [thread : Thread, answers : BOOLEAN]
  /\ boardCall \in [BoardCall -> {NoBoardCall} \cup ProfileCall \cup ThreadCall \cup ReplyCall]
  /\ wasPlaced \subseteq Student

MentorshipInit ==
  /\ placed = {} /\ mentorOptIn = {}
  /\ headline = [s \in Student |-> Unset]
  /\ thread = [t \in Thread |-> NoThread]
  /\ replies = {}
  /\ boardCall = [c \in BoardCall |-> NoBoardCall]
  /\ wasPlaced = {}

-----------------------------------------------------------------------------

(* An offer is accepted, or the accepted offer is revoked.                 *)
place(s) ==
  /\ s \notin placed
  /\ placed' = placed \cup {s} /\ wasPlaced' = wasPlaced \cup {s}
  /\ UNCHANGED <<profile, board, boardCall>>

unplace(s) ==
  /\ s \in placed
  /\ placed' = placed \ {s}
  /\ UNCHANGED <<profile, board, boardCall, wasPlaced>>

Open(c, call) ==
  boardCall[c] = NoBoardCall /\ boardCall' = [boardCall EXCEPT ![c] = call]

Close(c) == boardCall' = [boardCall EXCEPT ![c] = NoBoardCall]

(* A check fails (403, 404), or the transaction does: nothing is written.  *)
boardRefused(c) ==
  /\ boardCall[c] # NoBoardCall
  /\ Close(c)
  /\ UNCHANGED <<placed, profile, board, wasPlaced>>

-----------------------------------------------------------------------------
(* updateMentorProfile: what is not named is written as it was read.       *)

ProfileUpdate(s, optIn, named) ==
  [pc |-> "profile", student |-> s, optIn |-> optIn,
   headline |-> IF named = Unset THEN headline[s] ELSE named]

readProfile(c, s, optIn, named) ==
  /\ optIn => s \in placed
  /\ Open(c, ProfileUpdate(s, optIn, named))
  /\ UNCHANGED <<placed, profile, board, wasPlaced>>

updateMentorProfile(c) ==
  LET call == boardCall[c]
  IN  /\ call.pc = "profile"
      /\ mentorOptIn' = IF call.optIn THEN mentorOptIn \cup {call.student}
                        ELSE mentorOptIn \ {call.student}
      /\ headline' = [headline EXCEPT ![call.student] = call.headline]
      /\ Close(c)
      /\ UNCHANGED <<placed, board, wasPlaced>>

-----------------------------------------------------------------------------
(* createThread asks of a mentor only that they opted in.                  *)

findMentor(c, s, m) ==
  /\ m # Unset => m \in mentorOptIn
  /\ Open(c, [pc |-> "thread", author |-> s, mentor |-> m])
  /\ UNCHANGED <<placed, profile, board, wasPlaced>>

createThread(c, t) ==
  /\ boardCall[c].pc = "thread" /\ thread[t] = NoThread
  /\ thread' = [thread EXCEPT ![t] =
       [author |-> boardCall[c].author, mentor |-> boardCall[c].mentor, status |-> "OPEN"]]
  /\ Close(c)
  /\ UNCHANGED <<placed, profile, replies, wasPlaced>>

(* addReply: staff and placed students answer a thread.                    *)
readAuthor(c, u, t) ==
  /\ thread[t] # NoThread
  /\ Open(c, [pc |-> "reply", thread |-> t, answers |-> u \in Staff \cup placed])
  /\ UNCHANGED <<placed, profile, board, wasPlaced>>

Reply(c) == [thread |-> boardCall[c].thread, answers |-> boardCall[c].answers]

(* Mutant: a reply that is no answer opens the thread again. *)
ReplyReopens(c) ==
  /\ boardCall[c].pc = "reply"
  /\ replies' = replies \cup {Reply(c)}
  /\ thread' = [thread EXCEPT ![boardCall[c].thread].status =
                  IF boardCall[c].answers THEN "ANSWERED" ELSE "OPEN"]
  /\ Close(c)
  /\ UNCHANGED <<placed, profile, wasPlaced>>

addReply(c) ==
  /\ boardCall[c].pc = "reply"
  /\ replies' = replies \cup {Reply(c)}
  /\ thread' = IF boardCall[c].answers
               THEN [thread EXCEPT ![boardCall[c].thread].status = "ANSWERED"] ELSE thread
  /\ Close(c)
  /\ UNCHANGED <<placed, profile, wasPlaced>>

-----------------------------------------------------------------------------
listMentors == mentorOptIn \cap placed

MentorshipNext ==
  \/ \E s \in Student : place(s) \/ unplace(s)
  \/ \E c \in BoardCall :
       \/ boardRefused(c) \/ updateMentorProfile(c) \/ addReply(c)
       \/ \E s \in Student :
            \/ \E optIn \in BOOLEAN, named \in Headline \cup {Unset} :
                 readProfile(c, s, optIn, named)
            \/ \E m \in Student \cup {Unset} : findMentor(c, s, m)
       \/ \E t \in Thread : createThread(c, t) \/ \E u \in User : readAuthor(c, u, t)

MentorshipSpec == MentorshipInit /\ [][MentorshipNext]_mentorshipVars

-----------------------------------------------------------------------------

(* "only placed students can opt in" (mentorship.service.ts:104-108): a    *)
(* mentor has been placed, though the offer may be revoked between the     *)
(* check and the update and at any time after it.                          *)
MentorsWerePlaced == mentorOptIn \subseteq wasPlaced

(* "A mentor/staff reply moves the thread out of OPEN automatically"       *)
(* (mentorship.service.ts:187): the status of a thread says whether any of *)
(* its replies was an answer, in whatever order replies and placements     *)
(* came.                                                                   *)
AnsweredExplained ==
  \A t \in Thread :
    thread[t].status = "ANSWERED" <=> \E r \in replies : r.thread = t /\ r.answers

(* The board as a whole: who is on it as a mentor, and what its threads    *)
(* say (mentorship.service.ts:104-108, 187).                               *)
BoardConsistent == MentorsWerePlaced /\ AnsweredExplained
=============================================================================
