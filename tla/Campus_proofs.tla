----------------------------- MODULE Campus_proofs -----------------------------
(***************************************************************************)
(* The mentorship board, the resumes, the two pages that keep rows of      *)
(* their own and the accounts, for any number of users and requests.  The  *)
(* five parts share no state; each has a section with its invariant and the*)
(* properties it is for.                                                   *)
(***************************************************************************)
EXTENDS Mentorship, Resumes, ResumeStudio, Console, Accounts, TLAPS

-----------------------------------------------------------------------------
(* Mentorship: the board.                                                  *)

LEMMA BoardCalls ==
  ASSUME MentorshipTypeOK, NEW c \in BoardCall
  PROVE  /\ boardCall[c].pc = "profile" => boardCall[c] \in ProfileCall
         /\ boardCall[c].pc = "thread" => boardCall[c] \in ThreadCall
         /\ boardCall[c].pc = "reply" => boardCall[c] \in ReplyCall
BY DEF MentorshipTypeOK, ProfileCall, ThreadCall, ReplyCall, NoBoardCall

LEMMA MentorshipTypeStep ==
  ASSUME MentorshipTypeOK, [MentorshipNext]_mentorshipVars
  PROVE  MentorshipTypeOK'
<1> USE DEF MentorshipTypeOK, profile, board
<1>1. ASSUME NEW s \in Student, place(s) \/ unplace(s)
      PROVE  MentorshipTypeOK'
  BY <1>1 DEF place, unplace
<1>2. ASSUME NEW c \in BoardCall, boardRefused(c)
      PROVE  MentorshipTypeOK'
  BY <1>2 DEF boardRefused, Close
<1>3. ASSUME NEW c \in BoardCall, NEW s \in Student, NEW optIn \in BOOLEAN,
             NEW named \in Headline \cup {Unset}, readProfile(c, s, optIn, named)
      PROVE  MentorshipTypeOK'
  <2>1. ProfileUpdate(s, optIn, named) \in ProfileCall
    BY DEF ProfileUpdate, ProfileCall
  <2> QED  BY <1>3, <2>1 DEF readProfile, Open
<1>4. ASSUME NEW c \in BoardCall, updateMentorProfile(c)
      PROVE  MentorshipTypeOK'
  <2>1. boardCall[c] \in ProfileCall
    BY <1>4, BoardCalls DEF updateMentorProfile
  <2> QED  BY <1>4, <2>1 DEF updateMentorProfile, Close, ProfileCall
<1>5. ASSUME NEW c \in BoardCall, NEW s \in Student, NEW m \in Student \cup {Unset},
             findMentor(c, s, m)
      PROVE  MentorshipTypeOK'
  <2>1. [pc |-> "thread", author |-> s, mentor |-> m] \in ThreadCall
    BY DEF ThreadCall
  <2> QED  BY <1>5, <2>1 DEF findMentor, Open
<1>6. ASSUME NEW c \in BoardCall, NEW t \in Thread, createThread(c, t)
      PROVE  MentorshipTypeOK'
  <2>1. boardCall[c] \in ThreadCall
    BY <1>6, BoardCalls DEF createThread
  <2> QED  BY <1>6, <2>1 DEF createThread, Close, ThreadCall
<1>7. ASSUME NEW c \in BoardCall, NEW t \in Thread, NEW u \in User, readAuthor(c, u, t)
      PROVE  MentorshipTypeOK'
  <2>1. [pc |-> "reply", thread |-> t, answers |-> u \in Staff \cup placed] \in ReplyCall
    BY DEF ReplyCall
  <2> QED  BY <1>7, <2>1 DEF readAuthor, Open
<1>8. ASSUME NEW c \in BoardCall, addReply(c)
      PROVE  MentorshipTypeOK'
  <2>1. boardCall[c] \in ReplyCall
    BY <1>8, BoardCalls DEF addReply
  <2>2. boardCall[c].thread \in Thread /\ Reply(c) \in [thread : Thread, answers : BOOLEAN]
    BY <2>1 DEF Reply, ReplyCall
  <2> QED  BY <1>8, <2>2 DEF addReply, Close
<1>9. CASE UNCHANGED mentorshipVars
  BY <1>9 DEF mentorshipVars
<1> HIDE DEF MentorshipTypeOK, profile, board
<1> QED
  BY <1>1, <1>2, <1>3, <1>4, <1>5, <1>6, <1>7, <1>8, <1>9 DEF MentorshipNext

(* Who is placed has been placed, and an update that opts a student in was *)
(* checked when the student was.                                           *)
PlacementKnown ==
  /\ placed \subseteq wasPlaced
  /\ \A c \in BoardCall :
       boardCall[c].pc = "profile" /\ boardCall[c].optIn => boardCall[c].student \in wasPlaced

(* A reply, written or on its way, is of a thread that exists; a thread    *)
(* that does not exist has no status.                                      *)
RepliesPlaced ==
  /\ \A t \in Thread : thread[t].status = "absent" <=> thread[t] = NoThread
  /\ \A r \in replies : thread[r.thread] # NoThread
  /\ \A c \in BoardCall : boardCall[c].pc = "reply" => thread[boardCall[c].thread] # NoThread

BoardInv == PlacementKnown /\ RepliesPlaced /\ BoardConsistent

LEMMA BoardStep ==
  ASSUME MentorshipTypeOK, BoardInv, [MentorshipNext]_mentorshipVars
  PROVE  BoardInv'
<1> USE DEF MentorshipTypeOK, BoardInv, PlacementKnown, RepliesPlaced, BoardConsistent,
        MentorsWerePlaced, AnsweredExplained, profile, board
<1>1. ASSUME NEW s \in Student, place(s) \/ unplace(s)
      PROVE  BoardInv'
  BY <1>1 DEF place, unplace
<1>2. ASSUME NEW c \in BoardCall, boardRefused(c)
      PROVE  BoardInv'
  BY <1>2 DEF boardRefused, Close, NoBoardCall
<1>3. ASSUME NEW c \in BoardCall, NEW s \in Student, NEW optIn \in BOOLEAN,
             NEW named \in Headline \cup {Unset}, readProfile(c, s, optIn, named)
      PROVE  BoardInv'
  BY <1>3 DEF readProfile, Open, ProfileUpdate
<1>4. ASSUME NEW c \in BoardCall, updateMentorProfile(c)
      PROVE  BoardInv'
  BY <1>4 DEF updateMentorProfile, Close, NoBoardCall
<1>5. ASSUME NEW c \in BoardCall, NEW s \in Student, NEW m \in Student \cup {Unset},
             findMentor(c, s, m)
      PROVE  BoardInv'
  BY <1>5 DEF findMentor, Open
<1>6. ASSUME NEW c \in BoardCall, NEW t \in Thread, createThread(c, t)
      PROVE  BoardInv'
  <2>1. thread[t] = NoThread /\ thread'[t].status = "OPEN"
    BY <1>6 DEF createThread
  <2>2. \A r \in replies : r.thread # t
    BY <2>1
  <2>3. \A o \in Thread : o # t => thread'[o] = thread[o]
    BY <1>6 DEF createThread
  <2>4. /\ UNCHANGED <<placed, mentorOptIn, replies, wasPlaced>>
        /\ boardCall' = [boardCall EXCEPT ![c] = NoBoardCall]
    BY <1>6 DEF createThread, Close
  <2>5. PlacementKnown' /\ MentorsWerePlaced'
    BY <2>4 DEF NoBoardCall
  <2>6. thread'[t] # NoThread
    BY <2>1 DEF NoThread
  <2>7. \A d \in BoardCall : boardCall'[d].pc = "reply" => boardCall[d].pc = "reply" /\ boardCall'[d] = boardCall[d]
    BY <2>4 DEF NoBoardCall
  <2>8. \A d \in BoardCall : boardCall[d].pc = "reply" => boardCall[d].thread \in Thread
    BY BoardCalls DEF ReplyCall
  <2>9. RepliesPlaced'
    BY <2>1, <2>3, <2>4, <2>6, <2>7, <2>8
  <2>10. AnsweredExplained'
    BY <2>1, <2>2, <2>3, <2>4
  <2> QED  BY <2>5, <2>9, <2>10
<1>7. ASSUME NEW c \in BoardCall, NEW t \in Thread, NEW u \in User, readAuthor(c, u, t)
      PROVE  BoardInv'
  BY <1>7 DEF readAuthor, Open
<1>8. ASSUME NEW c \in BoardCall, addReply(c)
      PROVE  BoardInv'
  <2> DEFINE t == boardCall[c].thread
             answers == boardCall[c].answers
  <2>1. t \in Thread /\ answers \in BOOLEAN /\ thread[t] # NoThread
    BY <1>8, BoardCalls DEF addReply, ReplyCall
  <2>2. /\ replies' = replies \cup {[thread |-> t, answers |-> answers]}
        /\ thread' = IF answers THEN [thread EXCEPT ![t].status = "ANSWERED"] ELSE thread
        /\ boardCall' = [boardCall EXCEPT ![c] = NoBoardCall]
        /\ UNCHANGED <<placed, mentorOptIn, wasPlaced>>
    BY <1>8 DEF addReply, Close, Reply
  <2> HIDE DEF t, answers
  <2>3. \A o \in Thread : thread'[o].status = IF answers /\ o = t THEN "ANSWERED" ELSE thread[o].status
    BY <2>1, <2>2
  <2>4. \A o \in Thread : thread'[o] = NoThread <=> thread[o] = NoThread
    BY <2>1, <2>2, <2>3 DEF NoThread
  <2>5. PlacementKnown' /\ MentorsWerePlaced'
    BY <2>2 DEF NoBoardCall
  <2>6. \A d \in BoardCall : boardCall'[d].pc = "reply" => boardCall[d].pc = "reply" /\ boardCall'[d] = boardCall[d]
    BY <2>2 DEF NoBoardCall
  <2>7. \A d \in BoardCall : boardCall[d].pc = "reply" => boardCall[d].thread \in Thread
    BY BoardCalls DEF ReplyCall
  <2>8. RepliesPlaced'
    BY <2>1, <2>2, <2>3, <2>4, <2>6, <2>7
  <2>9. AnsweredExplained'
    <3>1. CASE answers
      <4> DEFINE new == [thread |-> t, answers |-> answers]
      <4>1. new \in replies' /\ new.thread = t /\ new.answers
        BY <2>2, <3>1
      <4>2. replies \subseteq replies' /\ \A r \in replies' : r \in replies \/ r = new
        BY <2>2
      <4> HIDE DEF new
      <4>3. \A o \in Thread :
              (\E r \in replies' : r.thread = o /\ r.answers)
                <=> o = t \/ \E r \in replies : r.thread = o /\ r.answers
        BY <4>1, <4>2
      <4> QED  BY <2>3, <3>1, <4>3
    <3>2. CASE ~answers
      BY <2>1, <2>2, <2>3, <3>2
    <3> QED  BY <3>1, <3>2
  <2> QED  BY <2>5, <2>8, <2>9
<1>9. CASE UNCHANGED mentorshipVars
  BY <1>9 DEF mentorshipVars
<1> HIDE DEF MentorshipTypeOK, BoardInv, PlacementKnown, RepliesPlaced, BoardConsistent,
        MentorsWerePlaced, AnsweredExplained, profile, board
<1> QED
  BY <1>1, <1>2, <1>3, <1>4, <1>5, <1>6, <1>7, <1>8, <1>9 DEF MentorshipNext

(* A mentor was placed at some time, and a thread is ANSWERED exactly when *)
(* somebody who may answer has replied, whatever placements change between *)
(* the checks and the writes of the board.                                 *)
THEOREM BoardStaysConsistent == MentorshipSpec => []BoardConsistent
<1>1. MentorshipInit => MentorshipTypeOK /\ BoardInv
  BY DEF MentorshipInit, MentorshipTypeOK, BoardInv, PlacementKnown, RepliesPlaced,
     BoardConsistent, MentorsWerePlaced, AnsweredExplained, NoThread, NoBoardCall
<1>2. MentorshipSpec => [](MentorshipTypeOK /\ BoardInv)
  BY <1>1, MentorshipTypeStep, BoardStep, PTL DEF MentorshipSpec
<1> QED  BY <1>2, PTL DEF BoardInv

-----------------------------------------------------------------------------
(* Resumes.                                                                *)

LEMMA ResumeRequests ==
  ASSUME ResumesTypeOK, NEW c \in ResumeCall, resumeCall[c].pc # "idle"
  PROVE  resumeCall[c] \in Request /\ resumeCall[c].owner \in Owner
         /\ resumeCall[c].put \in Content \cup {NoRow}
BY DEF ResumesTypeOK, Request, NoResumeCall

LEMMA ResumesTypeStep ==
  ASSUME ResumesTypeOK, [ResumesNext]_resumesVars
  PROVE  ResumesTypeOK'
<1> USE DEF ResumesTypeOK
<1>1. ASSUME NEW c \in ResumeCall, NEW s \in Owner, NEW put \in Content \cup {NoRow},
             readResume(c, s, put)
      PROVE  ResumesTypeOK'
  <2>1. [pc |-> findResume(s), owner |-> s, put |-> put] \in Request
    BY DEF findResume, Request
  <2> QED  BY <1>1, <2>1 DEF readResume
<1>2. ASSUME NEW c \in ResumeCall, useResume(c) \/ createResume(c)
      PROVE  ResumesTypeOK'
  <2>1. resumeCall[c].owner \in Owner /\ resumeCall[c].put \in Content \cup {NoRow}
    BY <1>2, ResumeRequests DEF useResume, createResume
  <2> QED  BY <1>2, <2>1 DEF useResume, createResume, Save, EndRequest, FirstContent
<1>3. CASE UNCHANGED resumesVars
  BY <1>3 DEF resumesVars, resumesAux
<1> QED  BY <1>1, <1>2, <1>3 DEF ResumesNext

(* Two requests of one owner, or one that has missed the row, are          *)
(* contended.                                                              *)
ContentionSeen ==
  \A c, d \in ResumeCall :
    /\ c # d /\ resumeCall[c].pc # "idle" /\ resumeCall[d].pc # "idle"
    /\ resumeCall[c].owner = resumeCall[d].owner
    => resumeCall[c].owner \in contended

MissedIsContended ==
  \A c \in ResumeCall :
    resumeCall[c].pc = "none" /\ resume[resumeCall[c].owner] # NoRow
      => resumeCall[c].owner \in contended

ResumeInv == ContentionSeen /\ MissedIsContended /\ ResumeKept

LEMMA ResumeStep ==
  ASSUME ResumesTypeOK, ResumeInv, [ResumesNext]_resumesVars
  PROVE  ResumeInv'
<1> USE DEF ResumesTypeOK, ResumeInv, ContentionSeen, MissedIsContended, ResumeKept, LastSaveKept,
        FailsOnlyContended
<1>1. ASSUME NEW c \in ResumeCall, NEW s \in Owner, NEW put \in Content \cup {NoRow},
             readResume(c, s, put)
      PROVE  ResumeInv'
  BY <1>1 DEF readResume, InProgress, NoResumeCall, findResume
<1>2. ASSUME NEW c \in ResumeCall, useResume(c) \/ createResume(c)
      PROVE  ResumeInv'
  <2> DEFINE s == resumeCall[c].owner
             put == resumeCall[c].put
  <2>1. s \in Owner /\ put \in Content \cup {NoRow}
    BY <1>2, ResumeRequests DEF useResume, createResume
  <2>2. /\ resumeCall[c].pc # "idle"
        /\ resumeCall' = [resumeCall EXCEPT ![c] = NoResumeCall]
        /\ contended' = contended
        /\ \A o \in Owner : o # s => resume'[o] = resume[o] /\ lastSave'[o] = lastSave[o]
    BY <1>2, <2>1 DEF useResume, createResume, EndRequest, Save
  <2>3. failed' \subseteq failed \cup {s} /\ (s \in failed' => s \in contended)
    BY <1>2 DEF useResume, createResume
  <2>4. lastSave'[s] # NoRow => resume'[s] = lastSave'[s]
    BY <1>2, <2>1 DEF useResume, createResume, Save, FirstContent
  <2> HIDE DEF s, put
  <2>5. ContentionSeen'
    BY <2>2 DEF NoResumeCall
  <2>6. MissedIsContended'
    BY <2>2, ResumeRequests DEF NoResumeCall, s
  <2>7. ResumeKept'
    BY <2>1, <2>2, <2>3, <2>4
  <2> QED  BY <2>5, <2>6, <2>7
<1>3. CASE UNCHANGED resumesVars
  BY <1>3 DEF resumesVars, resumesAux
<1> QED  BY <1>1, <1>2, <1>3 DEF ResumesNext

(* What a student saved last stays, and a request fails only when another  *)
(* of the same student overlapped it, for any number of requests.          *)
THEOREM ResumeStaysKept == ResumesSpec => []ResumeKept
<1>1. ResumesInit => ResumesTypeOK /\ ResumeInv
  BY DEF ResumesInit, ResumesTypeOK, ResumeInv, ContentionSeen, MissedIsContended, ResumeKept,
     LastSaveKept, FailsOnlyContended, NoResumeCall
<1>2. ResumesSpec => [](ResumesTypeOK /\ ResumeInv)
  BY <1>1, ResumesTypeStep, ResumeStep, PTL DEF ResumesSpec
<1> QED  BY <1>2, PTL DEF ResumeInv

-----------------------------------------------------------------------------
(* Resume Studio.                                                          *)

LEMMA SavingTyped ==
  ASSUME StudioTypeOK, save # NotSaving
  PROVE  save \in Saving
BY DEF StudioTypeOK

LEMMA StudioTypeStep ==
  ASSUME StudioTypeOK, [StudioNext]_studioVars
  PROVE  StudioTypeOK'
<1> USE DEF StudioTypeOK
<1>1. ASSUME NEW q \in Query, serveQuery(q)
      PROVE  StudioTypeOK'
  BY <1>1 DEF serveQuery
<1>2. ASSUME NEW q \in Query, queryAnswered(q)
      PROVE  StudioTypeOK'
  BY <1>2 DEF queryAnswered
<1>3. ASSUME NEW q \in Query, queryFails(q)
      PROVE  StudioTypeOK'
  BY <1>3 DEF queryFails
<1>4. CASE rotateToken
  BY <1>4 DEF rotateToken
<1>5. ASSUME NEW q \in Query, NEW t \in Text, patch(q, t)
      PROVE  StudioTypeOK'
  BY <1>5 DEF patch
<1>6. CASE handleSave
  <2>1. At("resume", FALSE, editor) \in Saving
    BY DEF At, Saving, Query
  <2> QED  BY <1>6, <2>1 DEF handleSave
<1>7. CASE serveSave
  <2>1. save \in Saving
    BY <1>7, SavingTyped DEF serveSave
  <2>2. save.pc \in Query /\ save.payload[save.pc] \in Text /\ At(save.pc, TRUE, save.payload) \in Saving
    BY <2>1 DEF At, Saving
  <2> QED  BY <1>7, <2>2 DEF serveSave
<1>8. CASE contentSaved
  <2>1. save \in Saving
    BY <1>8, SavingTyped DEF contentSaved
  <2>2. At("students", FALSE, save.payload) \in Saving
    BY <2>1 DEF At, Saving, Query
  <2> QED  BY <1>8, <2>2 DEF contentSaved, Invalidated
<1>9. CASE linksSaved
  BY <1>9 DEF linksSaved, Invalidated
<1>10. CASE saveFails
  BY <1>10 DEF saveFails
<1>11. CASE UNCHANGED studioVars
  BY <1>11 DEF studioVars
<1> HIDE DEF StudioTypeOK
<1> QED
  BY <1>1, <1>2, <1>3, <1>4, <1>5, <1>6, <1>7, <1>8, <1>9, <1>10, <1>11 DEF StudioNext

(* A query that is at rest has its answer in the cache. *)
RestIsLoaded == \A q \in Query : fetch[q] = Pc("none") => cache[q] # NoData

(* An answer on its way is what is stored. *)
AnswersCurrent == \A q \in Query, t \in Text : fetch[q] = Answer(t) => stored[q] = t

(* Loaded and clean is stored. *)
CleanIsStored == ~dirty => \A q \in Query : cache[q] # NoData => editor[q] = stored[q]

(* A save carries what the editor shows, half of it stored half-way, and   *)
(* no load crosses a request that is still to be served.                   *)
SaveInStep ==
  save # NotSaving =>
    /\ \A q \in Query : cache[q] # NoData /\ editor[q] = save.payload[q]
    /\ ~isFetching("students")
    /\ save.pc = "resume" => ~isFetching("resume")
    /\ save.pc = "students" \/ save.done => stored["resume"] = save.payload["resume"]
    /\ save.pc = "students" /\ save.done => stored["students"] = save.payload["students"]

StudioInv ==
  /\ RestIsLoaded
  /\ crossed \/ (AnswersCurrent /\ CleanIsStored /\ SaveInStep)

LEMMA FetchStates ==
  /\ \A pc, t : Pc(pc) # Answer(t)
  /\ \A t, u : Answer(t) = Answer(u) => t = u
  /\ Pc("none") # Pc("asked") /\ Pc("none") # Pc("failed")
  /\ \A q \in Query : isFetching(q) <=> fetch[q].pc \in {"asked", "answered"}
BY DEF Pc, Answer, isFetching

LEMMA StudioStep ==
  ASSUME StudioTypeOK, StudioInv, [StudioNext]_studioVars
  PROVE  StudioInv'
<1> USE StudioAssumption DEF StudioTypeOK
<1>1. RestIsLoaded'
  <2> USE FetchStates DEF StudioInv, RestIsLoaded
  <2>1. ASSUME NEW q \in Query, serveQuery(q) \/ queryAnswered(q) \/ queryFails(q)
        PROVE  RestIsLoaded'
    BY <2>1 DEF serveQuery, queryAnswered, queryFails
  <2>2. CASE rotateToken
    BY <2>2 DEF rotateToken
  <2>3. CASE contentSaved \/ linksSaved
    BY <2>3 DEF contentSaved, linksSaved, Invalidated
  <2>4. CASE UNCHANGED <<cache, fetch>>
    BY <2>4
  <2> HIDE DEF StudioInv, RestIsLoaded
  <2> QED
    BY <2>1, <2>2, <2>3, <2>4
       DEF StudioNext, studioVars, patch, handleSave, serveSave, saveFails
<1> SUFFICES ASSUME ~crossed'
             PROVE  (AnswersCurrent /\ CleanIsStored /\ SaveInStep)'
  BY <1>1 DEF StudioInv
<1>2. CASE rotateToken
  BY <1>2, FetchStates DEF rotateToken, AnswersCurrent, CleanIsStored, SaveInStep
<1> SUFFICES ASSUME ~rotateToken
             PROVE  (AnswersCurrent /\ CleanIsStored /\ SaveInStep)'
  BY <1>2
<1>3. ~crossed
  BY DEF StudioNext, studioVars, serveQuery, queryAnswered, queryFails, patch, handleSave,
     serveSave, contentSaved, linksSaved, saveFails
<1>4. AnswersCurrent /\ CleanIsStored /\ SaveInStep
  BY <1>3 DEF StudioInv
<1>5. ASSUME NEW q \in Query, serveQuery(q)
      PROVE  (AnswersCurrent /\ CleanIsStored /\ SaveInStep)'
  <2>1. AnswersCurrent'
    BY <1>4, <1>5, FetchStates DEF serveQuery, AnswersCurrent
  <2>2. CleanIsStored'
    BY <1>4, <1>5 DEF serveQuery, CleanIsStored
  <2>3. SaveInStep'
    BY <1>4, <1>5 DEF serveQuery, SaveInStep, isFetching, Pc, Answer
  <2> QED  BY <2>1, <2>2, <2>3
<1>6. ASSUME NEW q \in Query, queryAnswered(q)
      PROVE  (AnswersCurrent /\ CleanIsStored /\ SaveInStep)'
  <2>1. PICK t \in Text :
          /\ fetch[q] = Answer(t)
          /\ fetch' = [fetch EXCEPT ![q] = Pc("none")]
          /\ cache' = [cache EXCEPT ![q] = t]
          /\ \/ editor' = [editor EXCEPT ![q] = t]
             \/ cache[q] = t /\ editor' = editor
          /\ UNCHANGED <<stored, dirty, save>>
    BY <1>6 DEF queryAnswered
  <2>2. stored[q] = t /\ t # NoData /\ isFetching(q)
    BY <1>4, <2>1 DEF AnswersCurrent, isFetching, Answer
  <2>3. AnswersCurrent'
    BY <1>4, <2>1, FetchStates DEF AnswersCurrent
  <2>4. CleanIsStored'
    BY <1>4, <2>1, <2>2 DEF CleanIsStored
  <2>5. SaveInStep'
    <3>1. CASE save = NotSaving
      BY <2>1, <3>1 DEF SaveInStep
    <3>2. CASE save # NotSaving
      (* Only the content is loaded while the links are saved. *)
      <4>1. q = "resume" /\ save.payload[q] = t
        BY <1>4, <2>2, <3>2, SavingTyped DEF SaveInStep, Query, Saving
      <4>2. \A p \in Query : cache'[p] # NoData /\ editor'[p] = save.payload[p]
        BY <1>4, <2>1, <2>2, <3>2, <4>1 DEF SaveInStep
      <4>3. \A p \in Query : ~isFetching(p) => ~isFetching(p)'
        BY <2>1 DEF isFetching, Pc
      <4> QED  BY <1>4, <2>1, <3>2, <4>2, <4>3 DEF SaveInStep, Query
    <3> QED  BY <3>1, <3>2
  <2> QED  BY <2>3, <2>4, <2>5
<1>7. ASSUME NEW q \in Query, queryFails(q)
      PROVE  (AnswersCurrent /\ CleanIsStored /\ SaveInStep)'
  <2>1. AnswersCurrent'
    BY <1>4, <1>7, FetchStates DEF queryFails, AnswersCurrent
  <2>2. CleanIsStored'
    BY <1>4, <1>7 DEF queryFails, CleanIsStored
  <2>3. SaveInStep'
    BY <1>4, <1>7 DEF queryFails, SaveInStep, isFetching, Pc
  <2> QED  BY <2>1, <2>2, <2>3
<1>8. ASSUME NEW q \in Query, NEW t \in Text, patch(q, t)
      PROVE  (AnswersCurrent /\ CleanIsStored /\ SaveInStep)'
  BY <1>4, <1>8 DEF patch, AnswersCurrent, CleanIsStored, SaveInStep
<1>9. CASE handleSave
  <2>1. \A q \in Query : cache[q] # NoData /\ ~isFetching(q)
    BY <1>9 DEF handleSave
  <2>2. AnswersCurrent' /\ CleanIsStored'
    BY <1>4, <1>9 DEF handleSave, AnswersCurrent, CleanIsStored
  <2>3. SaveInStep'
    BY <1>9, <2>1 DEF handleSave, SaveInStep, At, isFetching, Query
  <2> QED  BY <2>2, <2>3
<1>10. CASE serveSave
  <2>1. save \in Saving /\ save # NotSaving /\ ~save.done
    BY <1>10, SavingTyped DEF serveSave
  <2>2. save.pc \in Query /\ save.payload[save.pc] \in Text
    BY <2>1 DEF Saving
  <2>3. /\ stored' = [stored EXCEPT ![save.pc] = save.payload[save.pc]]
        /\ save' = At(save.pc, TRUE, save.payload)
        /\ UNCHANGED <<cache, fetch, editor, dirty>>
    BY <1>10 DEF serveSave
  <2>4. ~isFetching(save.pc)
    BY <1>4, <2>1, <2>2 DEF SaveInStep, Query
  <2>5. AnswersCurrent'
    BY <1>4, <2>3, <2>4 DEF AnswersCurrent, isFetching, Answer
  <2>6. CleanIsStored'
    BY <1>4, <2>1, <2>2, <2>3 DEF CleanIsStored, SaveInStep
  <2>7. SaveInStep'
    BY <1>4, <2>1, <2>2, <2>3 DEF SaveInStep, At, isFetching, Query
  <2> QED  BY <2>5, <2>6, <2>7
<1>11. CASE contentSaved
  <2>1. save # NotSaving /\ save.pc = "resume" /\ save.done
    BY <1>11 DEF contentSaved
  <2>2. fetch' = [fetch EXCEPT !["resume"] = Pc("asked")]
    BY <1>4, <1>11, <2>1 DEF contentSaved, Invalidated, FirstLoad, SaveInStep, Query
  <2>3. /\ save' = At("students", FALSE, save.payload)
        /\ UNCHANGED <<stored, cache, editor, dirty>>
    BY <1>11 DEF contentSaved
  <2>4. AnswersCurrent'
    BY <1>4, <2>2, <2>3, FetchStates DEF AnswersCurrent
  <2>5. CleanIsStored'
    BY <1>4, <2>3 DEF CleanIsStored
  <2>6. SaveInStep'
    BY <1>4, <2>1, <2>2, <2>3 DEF SaveInStep, At, isFetching, Query
  <2> QED  BY <2>4, <2>5, <2>6
<1>12. CASE linksSaved
  <2>1. /\ save # NotSaving /\ save.pc = "students" /\ save.done
        /\ save' = NotSaving
        /\ UNCHANGED <<stored, cache, editor>>
    BY <1>12 DEF linksSaved
  <2>2. fetch' = [fetch EXCEPT !["students"] = Pc("asked")]
    BY <1>4, <1>12, <2>1 DEF linksSaved, Invalidated, FirstLoad, SaveInStep, Query
  <2>3. AnswersCurrent'
    BY <1>4, <2>1, <2>2, FetchStates DEF AnswersCurrent
  <2>4. CleanIsStored' /\ SaveInStep'
    BY <1>4, <2>1 DEF CleanIsStored, SaveInStep, Query
  <2> QED  BY <2>3, <2>4
<1>13. CASE saveFails
  BY <1>4, <1>13 DEF saveFails, AnswersCurrent, CleanIsStored, SaveInStep
<1>14. CASE UNCHANGED studioVars
  BY <1>4, <1>14 DEF studioVars, AnswersCurrent, CleanIsStored, SaveInStep, isFetching
<1> HIDE DEF StudioTypeOK
<1> QED
  BY <1>5, <1>6, <1>7, <1>8, <1>9, <1>10, <1>11, <1>12, <1>13, <1>14 DEF StudioNext

(* A page at rest without the badge shows what is stored, unless a save    *)
(* was crossed by typing, a rotation or an earlier load.                   *)
THEOREM CleanPageIsStored == StudioSpec => []CleanMeansStored
<1>1. StudioInit => StudioTypeOK /\ StudioInv
  BY FetchStates DEF StudioInit, StudioTypeOK, StudioInv, RestIsLoaded, AnswersCurrent, CleanIsStored,
     SaveInStep
<1>2. StudioTypeOK /\ StudioInv => CleanMeansStored
  BY DEF StudioTypeOK, StudioInv, RestIsLoaded, CleanIsStored, CleanMeansStored
<1>3. StudioSpec => [](StudioTypeOK /\ StudioInv)
  BY <1>1, StudioTypeStep, StudioStep, PTL DEF StudioSpec
<1> QED  BY <1>2, <1>3, PTL

-----------------------------------------------------------------------------
(* The operator console.                                                   *)

LEMMA ConsoleTypeStep ==
  ASSUME ConsoleTypeOK, [ConsoleNext]_consoleVars
  PROVE  ConsoleTypeOK'
<1> USE DEF ConsoleTypeOK, pageVars, consoleAux, To
<1>1. CASE dialog
  BY <1>1 DEF dialog
<1>2. ASSUME NEW r \in ConsoleCall, clickLoad(r) \/ listInstitutions(r) \/ loadFails(r)
      PROVE  ConsoleTypeOK'
  <2>1. CASE clickLoad(r)
    BY <2>1 DEF clickLoad, load
  <2>2. CASE listInstitutions(r)
    <3>1. [pc |-> "listed", data |-> clients] \in [pc : {"listed"}, data : Listing]
      OBVIOUS
    <3> QED  BY <2>2, <3>1 DEF listInstitutions
  <2>3. CASE loadFails(r)
    BY <2>3 DEF loadFails
  <2> QED  BY <1>2, <2>1, <2>2, <2>3
<1>3. ASSUME NEW r \in ConsoleCall, loaded(r)
      PROVE  ConsoleTypeOK'
  <2>1. request[r].data \in Listing
    BY <1>3 DEF loaded, NoRequest, Change
  <2> QED  BY <1>3, <2>1 DEF loaded
<1>4. ASSUME NEW r \in ConsoleCall, serveChange(r)
      PROVE  ConsoleTypeOK'
  <2>1. request[r] \in Change
    BY <1>4 DEF serveChange, NoRequest
  <2>2. /\ request[r].client \in Client /\ request[r].status \in {"ACTIVE", "SUSPENDED"}
        /\ request[r].first \in BOOLEAN
    BY <2>1 DEF Change
  <2>3. [pc |-> "served", client |-> request[r].client, status |-> request[r].status,
         first |-> request[r].first] \in Change
    BY <2>2 DEF Change
  <2> QED  BY <1>4, <2>2, <2>3 DEF serveChange, Listing
<1>5. ASSUME NEW r \in ConsoleCall, changed(r) \/ changeFails(r)
      PROVE  ConsoleTypeOK'
  BY <1>5 DEF changed, load, changeFails
<1>6. ASSUME NEW r \in ConsoleCall, NEW i \in Client, toggleStatus(r, i) \/ provision(r, i)
      PROVE  ConsoleTypeOK'
  <2>1. \A status \in {"ACTIVE", "SUSPENDED"}, first \in BOOLEAN :
          [pc |-> "sent", client |-> i, status |-> status, first |-> first] \in Change
    BY DEF Change
  <2>2. Toggled(rows[i]) \in {"ACTIVE", "SUSPENDED"}
    BY DEF Toggled
  <2> QED  BY <1>6, <2>1, <2>2 DEF toggleStatus, provision
<1>7. ASSUME NEW i \in Client, NEW status \in {"ACTIVE", "SUSPENDED"}, changedOutside(i, status)
      PROVE  ConsoleTypeOK'
  BY <1>7 DEF changedOutside, Listing
<1>8. CASE UNCHANGED consoleVars
  BY <1>8 DEF consoleVars
<1> HIDE DEF ConsoleTypeOK, pageVars, consoleAux, To
<1> QED  BY <1>1, <1>2, <1>3, <1>4, <1>5, <1>6, <1>7, <1>8 DEF ConsoleNext

(* Two loads under way are noticed. *)
LoadsSeen ==
  \A r, s \in ConsoleCall :
    r # s /\ request[r].pc \in Loading /\ request[s].pc \in Loading => loadsCrossed

(* With no change waiting to be followed by a load, an answer on its way   *)
(* is current but for what others changed since, and so are the rows       *)
(* unless a load is under way.                                             *)
Followed ==
  (\A r \in ConsoleCall : request[r].pc # "served") /\ ~loadsCrossed /\ ~missed =>
    /\ \A r \in ConsoleCall : request[r].pc = "listed" =>
         \A i \in Client \ outside : request[r].data[i] = clients[i]
    /\ unlocked => LoadUnderWay \/ \A i \in Client \ outside : rows[i] = clients[i]

ConsoleInv == LoadsSeen /\ Followed

LEMMA ConsoleStep ==
  ASSUME ConsoleTypeOK, ConsoleInv, [ConsoleNext]_consoleVars
  PROVE  ConsoleInv'
<1> USE DEF ConsoleTypeOK, ConsoleInv, LoadsSeen, Followed, LoadUnderWay, Loading, To, pageVars,
        consoleAux
<1>1. CASE dialog
  BY <1>1 DEF dialog
<1>2. ASSUME NEW r \in ConsoleCall, clickLoad(r)
      PROVE  ConsoleInv'
  BY <1>2 DEF clickLoad, load, NoRequest
<1>3. ASSUME NEW r \in ConsoleCall, listInstitutions(r)
      PROVE  ConsoleInv'
  BY <1>3 DEF listInstitutions
<1>4. ASSUME NEW r \in ConsoleCall, loaded(r)
      PROVE  ConsoleInv'
  BY <1>4 DEF loaded, NoRequest
<1>5. ASSUME NEW r \in ConsoleCall, loadFails(r)
      PROVE  ConsoleInv'
  BY <1>5 DEF loadFails, NoRequest
<1>6. ASSUME NEW r \in ConsoleCall, serveChange(r)
      PROVE  ConsoleInv'
  BY <1>6 DEF serveChange
<1>7. ASSUME NEW r \in ConsoleCall, changed(r)
      PROVE  ConsoleInv'
  BY <1>7 DEF changed, load
<1>8. ASSUME NEW r \in ConsoleCall, changeFails(r)
      PROVE  ConsoleInv'
  BY <1>8 DEF changeFails, NoRequest
<1>9. ASSUME NEW r \in ConsoleCall, NEW i \in Client, toggleStatus(r, i) \/ provision(r, i)
      PROVE  ConsoleInv'
  BY <1>9 DEF toggleStatus, provision, NoRequest
<1>10. ASSUME NEW i \in Client, NEW status \in {"ACTIVE", "SUSPENDED"}, changedOutside(i, status)
       PROVE  ConsoleInv'
  BY <1>10 DEF changedOutside, Listing
<1>11. CASE UNCHANGED consoleVars
  BY <1>11 DEF consoleVars
<1> HIDE DEF ConsoleTypeOK, ConsoleInv, LoadsSeen, Followed, LoadUnderWay, Loading, To, pageVars,
        consoleAux
<1> QED
  BY <1>1, <1>2, <1>3, <1>4, <1>5, <1>6, <1>7, <1>8, <1>9, <1>10, <1>11 DEF ConsoleNext

(* A console at rest shows every institute as it is, but for those others  *)
(* changed since the list was read (a registration on the public page, a   *)
(* status set with the key from elsewhere), unless two loads overlapped or *)
(* the answer of a change was lost.                                        *)
THEOREM RowsStayCurrent == ConsoleSpec => []RowsCurrentUnlessOverlapped
<1>1. ConsoleInit => ConsoleTypeOK /\ ConsoleInv
  <2>1. ConsoleInit => ConsoleTypeOK
    BY DEF ConsoleInit, ConsoleTypeOK
  <2>2. ConsoleInit => LoadsSeen /\ Followed
    BY DEF ConsoleInit, LoadsSeen, Followed, Loading, NoRequest
  <2> QED  BY <2>1, <2>2 DEF ConsoleInv
<1>2. ConsoleInv => RowsCurrentUnlessOverlapped
  BY DEF ConsoleInv, Followed, RowsCurrentUnlessOverlapped, Shown, LoadUnderWay, Loading, NoRequest
<1>3. ConsoleSpec => [](ConsoleTypeOK /\ ConsoleInv)
  BY <1>1, ConsoleTypeStep, ConsoleStep, PTL DEF ConsoleSpec
<1> QED  BY <1>2, <1>3, PTL

-----------------------------------------------------------------------------
(* Accounts: types, logins in a suspension, magic links.  The two safety   *)
(* proofs share their shape: a token says nothing of what was checked      *)
(* before it was issued, so each invariant is strengthened by what the     *)
(* requests in progress have already passed.                               *)

(* A request in progress names an institution and an email; one that holds *)
(* a link names a row that exists, of an institution and an email.         *)
CallsNamed ==
  \A c \in AuthCall :
    /\ authCall[c].pc # "idle" => authCall[c].tenant \in Tenant /\ authCall[c].email \in Email
    /\ authCall[c].pc \in {"send", "verify", "fresh"} =>
         authCall[c].link \in Link /\ link[authCall[c].link] # NoLink

LinksNamed ==
  \A l \in Link : link[l] # NoLink => link[l].tenant \in Tenant /\ link[l].email \in Email

Typed == AccountsTypeOK /\ CallsNamed /\ LinksNamed

(* Splits a step into its operations, as every proof below does. *)
LEMMA AccountsSteps ==
  ASSUME AccountsNext
  PROVE  \/ \E t \in Tenant, e \in Email, slug \in Slug : register(t, slug, e)
         \/ \E t \in Tenant, e \in Email, status \in {"ACTIVE", "DISABLED"} : setUser(t, e, status)
         \/ \E t \in Tenant, e \in Email, c \in AuthCall, pc \in {"sso", "request"} :
              arrive(c, pc, t, e)
         \/ \E t \in Tenant, status \in {"ACTIVE", "SUSPENDED"} : setStatus(t, status)
         \/ \E c \in AuthCall : \/ ssoCallback(c) \/ requestMagicLink(c) \/ sendMagicLink(c)
                                \/ verifyRead(c) \/ refused(c)
         \/ \E c \in AuthCall, k \in Token : issueTokens(c, k) \/ verifyConsume(c, k)
         \/ \E c \in AuthCall, l \in Link : createLink(c, l)
         \/ \E c \in AuthCall, l \in Link : findMagicLinkTokenByHash(c, l)
         \/ \E l \in Link : linkExpires(l)
         \/ restart
BY DEF AccountsNext

-----------------------------------------------------------------------------
(* Types.                                                                  *)

LEMMA TypedInit == AccountsInit => Typed
BY DEF AccountsInit, Typed, AccountsTypeOK, CallsNamed, LinksNamed, NoInstitution, NoLink,
       NoSession, NoCall

LEMMA TypedStep ==
  ASSUME Typed, [AccountsNext]_accountsVars
  PROVE  Typed'
<1> USE DEF Typed, AccountsTypeOK, CallsNamed, LinksNamed
<1>1. ASSUME NEW t \in Tenant, NEW e \in Email, NEW slug \in Slug, register(t, slug, e)
      PROVE  Typed'
  BY <1>1 DEF register, accountsAux
<1>2. ASSUME NEW t \in Tenant, NEW e \in Email, NEW status \in {"ACTIVE", "DISABLED"},
             setUser(t, e, status)
      PROVE  Typed'
  BY <1>2 DEF setUser, accountsAux
<1>3. ASSUME NEW t \in Tenant, NEW e \in Email, NEW c \in AuthCall,
             NEW pc \in {"sso", "request"}, arrive(c, pc, t, e)
      PROVE  Typed'
  BY <1>3 DEF arrive, Call
<1>4. ASSUME NEW t \in Tenant, NEW status \in {"ACTIVE", "SUSPENDED"}, setStatus(t, status)
      PROVE  Typed'
  BY <1>4 DEF setStatus
<1>5. ASSUME NEW c \in AuthCall,
             ssoCallback(c) \/ requestMagicLink(c) \/ sendMagicLink(c) \/ verifyRead(c) \/ refused(c)
      PROVE  Typed'
  <2>1. CASE ssoCallback(c)
    BY <2>1 DEF ssoCallback, Goto, accountsAux
  <2>2. CASE requestMagicLink(c)
    BY <2>2 DEF requestMagicLink, Goto, accountsAux
  <2>5. CASE verifyRead(c)
    BY <2>5 DEF verifyRead, Goto, accountsAux
  <2>3. CASE sendMagicLink(c)
    BY <2>3 DEF sendMagicLink, End, NoCall
  <2>4. CASE refused(c)
    BY <2>4 DEF refused, End, NoCall
  <2> QED  BY <1>5, <2>1, <2>2, <2>3, <2>4, <2>5
<1>6. ASSUME NEW c \in AuthCall, NEW k \in Token, issueTokens(c, k) \/ verifyConsume(c, k)
      PROVE  Typed'
  <2>1. CASE issueTokens(c, k)
    BY <2>1 DEF issueTokens, begin, End, NoCall
  <2>2. CASE verifyConsume(c, k)
    <3>1. AccountsTypeOK'
      BY <2>2 DEF verifyConsume, begin, End, NoCall
    <3>2. CallsNamed'
      BY <2>2 DEF verifyConsume, End, NoCall, NoLink
    <3>3. LinksNamed'
      BY <2>2 DEF verifyConsume
    <3> QED  BY <3>1, <3>2, <3>3
  <2> QED  BY <1>6, <2>1, <2>2
<1>7. ASSUME NEW c \in AuthCall, NEW l \in Link, createLink(c, l)
      PROVE  Typed'
  <2>1. authCall' = [authCall EXCEPT ![c] = [authCall[c] EXCEPT !.pc = "send", !.link = l]]
    BY <1>7 DEF createLink
  <2>2. AccountsTypeOK'
    BY <1>7, <2>1 DEF createLink
  <2>3. CallsNamed'
    BY <1>7, <2>1 DEF createLink, NoLink
  <2>4. LinksNamed'
    BY <1>7 DEF createLink
  <2> QED  BY <2>2, <2>3, <2>4
<1>8. ASSUME NEW c \in AuthCall, NEW l \in Link, findMagicLinkTokenByHash(c, l)
      PROVE  Typed'
  BY <1>8 DEF findMagicLinkTokenByHash, Call
<1>9. ASSUME NEW l \in Link, linkExpires(l)
      PROVE  Typed'
  <2>1. /\ link[l].state = "issued" /\ link' = [link EXCEPT ![l].state = "expired"]
        /\ UNCHANGED authCall
    BY <1>9 DEF linkExpires, accountsAux
  <2>2. AccountsTypeOK'
    BY <1>9 DEF linkExpires, accountsAux
  <2>3. \A m \in Link : /\ link'[m].tenant = link[m].tenant
                        /\ link'[m].email = link[m].email
                        /\ link'[m].state = IF m = l THEN "expired" ELSE link[m].state
    BY <2>1
  <2>4. \A m \in Link : (link'[m] = NoLink <=> link[m] = NoLink)
    BY <2>1, <2>3 DEF NoLink
  <2> QED  BY <2>1, <2>2, <2>3, <2>4
<1>10. CASE restart
  BY <1>10 DEF restart, NoCall
<1>11. CASE UNCHANGED accountsVars
  BY <1>11 DEF accountsVars, accountsAux
<1> HIDE DEF Typed, AccountsTypeOK, CallsNamed, LinksNamed
<1> QED
  BY <1>1, <1>2, <1>3, <1>4, <1>5, <1>6, <1>7, <1>8, <1>9, <1>10, <1>11, AccountsSteps

(* Institutions, users, links, requests and sessions keep their types      *)
(* through every login, whatever interleaves.                              *)
THEOREM AccountsTypes == AccountsSpec => []AccountsTypeOK
<1>1. AccountsSpec => []Typed
  BY TypedInit, TypedStep, PTL DEF AccountsSpec
<1> QED  BY <1>1, PTL DEF Typed

-----------------------------------------------------------------------------
(* Suspension.                                                             *)

(* Whatever is held to a suspension is a request that has not passed the   *)
(* check of its institution, and the suspension lasts; so no link is held. *)
Held ==
  \A x \in denied :
    /\ x \in AuthCall \ Link
    /\ authCall[x].pc \in {"sso", "request"}
    /\ institution[authCall[x].tenant].status = "SUSPENDED"

SuspensionInv == Held /\ SuspensionHolds

LEMMA SuspensionStep ==
  ASSUME Typed, SuspensionInv, [AccountsNext]_accountsVars
  PROVE  SuspensionInv'
<1> USE AccountsAssumption DEF Typed, AccountsTypeOK, CallsNamed, LinksNamed, SuspensionInv, Held, SuspensionHolds
<1>1. ASSUME NEW t \in Tenant, NEW e \in Email, NEW slug \in Slug, register(t, slug, e)
      PROVE  SuspensionInv'
  BY <1>1 DEF register, accountsAux, NoInstitution
<1>2. ASSUME NEW t \in Tenant, NEW e \in Email, NEW status \in {"ACTIVE", "DISABLED"},
             setUser(t, e, status)
      PROVE  SuspensionInv'
  BY <1>2 DEF setUser, accountsAux
<1>3. ASSUME NEW t \in Tenant, NEW e \in Email, NEW c \in AuthCall,
             NEW pc \in {"sso", "request"}, arrive(c, pc, t, e)
      PROVE  SuspensionInv'
  <2>1. authCall' = [authCall EXCEPT ![c] = Call(pc, t, e, None)]
        /\ authCall[c] = NoCall /\ UNCHANGED <<institution, session>>
    BY <1>3 DEF arrive
  <2>4. c \notin denied
    BY <2>1 DEF NoCall
  <2>2. CASE institution[t].status = "SUSPENDED"
    <3>1. denied' = denied \cup {c}
      BY <1>3, <2>2 DEF arrive
    <3> QED  BY <2>1, <2>2, <2>4, <3>1 DEF Call
  <2>3. CASE institution[t].status # "SUSPENDED"
    <3>1. denied' = denied
      BY <1>3, <2>3 DEF arrive
    <3> QED  BY <2>1, <2>4, <3>1
  <2> QED  BY <2>2, <2>3
<1>4. ASSUME NEW t \in Tenant, NEW status \in {"ACTIVE", "SUSPENDED"}, setStatus(t, status)
      PROVE  SuspensionInv'
  <2>1. /\ institution' = [institution EXCEPT ![t].status = status]
        /\ UNCHANGED <<session, authCall>>
    BY <1>4 DEF setStatus
  <2>2. \A x \in denied : authCall[x].tenant \in Tenant
    OBVIOUS
  <2>3. CASE status = "SUSPENDED"
    BY <1>4, <2>1, <2>2, <2>3 DEF setStatus
  <2>4. CASE status = "ACTIVE"
    <3>1. denied' = {x \in denied : authCall[x].tenant # t}
      BY <1>4, <2>4 DEF setStatus
    <3> QED  BY <2>1, <2>2, <3>1
  <2> QED  BY <2>3, <2>4
<1>5. ASSUME NEW c \in AuthCall,
             ssoCallback(c) \/ requestMagicLink(c) \/ sendMagicLink(c) \/ verifyRead(c) \/ refused(c)
      PROVE  SuspensionInv'
  <2>1. CASE ssoCallback(c)
    (* The institution is active: the request is not one of those held. *)
    <3>1. c \notin denied
      BY <2>1 DEF ssoCallback, requireInstitution
    <3> QED  BY <2>1, <3>1 DEF ssoCallback, Goto, accountsAux
  <2>2. CASE requestMagicLink(c)
    <3>1. c \notin denied
      BY <2>2 DEF requestMagicLink, requireInstitution
    <3> QED  BY <2>2, <3>1 DEF requestMagicLink, Goto, accountsAux
  <2>3. CASE verifyRead(c)
    <3>1. c \notin denied
      BY <2>3 DEF verifyRead
    <3> QED  BY <2>3, <3>1 DEF verifyRead, Goto, accountsAux
  <2>4. CASE sendMagicLink(c) \/ refused(c)
    BY <2>4 DEF sendMagicLink, refused, End, NoCall
  <2> QED  BY <1>5, <2>1, <2>2, <2>3, <2>4
<1>6. ASSUME NEW c \in AuthCall, NEW k \in Token, issueTokens(c, k) \/ verifyConsume(c, k)
      PROVE  SuspensionInv'
  <2>1. CASE issueTokens(c, k)
    <3>1. c \notin denied
      BY <2>1 DEF issueTokens
    <3> QED  BY <2>1, <3>1 DEF issueTokens, begin, End
  <2>2. CASE verifyConsume(c, k)
    <3>1. authCall[c].link \notin denied
      BY <2>2 DEF verifyConsume
    <3> QED  BY <2>2, <3>1 DEF verifyConsume, begin, End
  <2> QED  BY <1>6, <2>1, <2>2
<1>7. ASSUME NEW c \in AuthCall, NEW l \in Link, createLink(c, l)
      PROVE  SuspensionInv'
  BY <1>7 DEF createLink
<1>8. ASSUME NEW c \in AuthCall, NEW l \in Link, findMagicLinkTokenByHash(c, l)
      PROVE  SuspensionInv'
  BY <1>8 DEF findMagicLinkTokenByHash, Call, NoCall
<1>9. ASSUME NEW l \in Link, linkExpires(l)
      PROVE  SuspensionInv'
  BY <1>9 DEF linkExpires, accountsAux
<1>10. CASE restart
  BY <1>10 DEF restart
<1>11. CASE UNCHANGED accountsVars
  BY <1>11 DEF accountsVars, accountsAux
<1> HIDE DEF Typed, AccountsTypeOK, CallsNamed, LinksNamed, SuspensionInv, Held, SuspensionHolds
<1> QED
  BY <1>1, <1>2, <1>3, <1>4, <1>5, <1>6, <1>7, <1>8, <1>9, <1>10, <1>11, AccountsSteps

(* No session begins during a suspension from a login, or from a link,     *)
(* that was asked for in it.                                               *)
THEOREM NoLoginInSuspension == AccountsSpec => []SuspensionHolds
<1>1. AccountsInit => SuspensionInv
  BY DEF AccountsInit, SuspensionInv, Held, SuspensionHolds, NoSession
<1>2. Typed /\ SuspensionInv /\ [AccountsNext]_accountsVars => SuspensionInv'
  BY SuspensionStep
<1>3. AccountsSpec => [](Typed /\ SuspensionInv)
  BY <1>1, <1>2, TypedInit, TypedStep, PTL DEF AccountsSpec
<1> QED  BY <1>3, PTL DEF SuspensionInv

-----------------------------------------------------------------------------
(* Magic links.                                                            *)

(* A link that began a session is consumed for good. *)
UsedIsConsumed ==
  \A k \in Token : session[k].from # None =>
    session[k].from \in Link /\ link[session[k].from].state = "consumed"

(* Two requests that verify one link mark it as overlapped. *)
OverlapSeen ==
  \A c, d \in AuthCall :
    /\ c # d
    /\ authCall[c].pc \in {"verify", "fresh"} /\ authCall[d].pc \in {"verify", "fresh"}
    /\ authCall[c].link = authCall[d].link
    => authCall[c].link \in overlapped

(* A request that has read its link, alone, still has it to consume. *)
FreshIsOpen ==
  \A c \in AuthCall :
    authCall[c].pc = "fresh" /\ authCall[c].link \notin overlapped
      => link[authCall[c].link].state # "consumed"

LinkInv == UsedIsConsumed /\ OverlapSeen /\ FreshIsOpen /\ LinkUsedOnceUnlessOverlapped

LEMMA LinkStep ==
  ASSUME Typed, LinkInv, [AccountsNext]_accountsVars
  PROVE  LinkInv'
<1> USE AccountsAssumption DEF Typed, AccountsTypeOK, CallsNamed, LinksNamed, LinkInv, UsedIsConsumed, OverlapSeen,
        FreshIsOpen, LinkUsedOnceUnlessOverlapped
<1>1. ASSUME NEW t \in Tenant, NEW e \in Email, NEW slug \in Slug, register(t, slug, e)
      PROVE  LinkInv'
  BY <1>1 DEF register, accountsAux
<1>2. ASSUME NEW t \in Tenant, NEW e \in Email, NEW status \in {"ACTIVE", "DISABLED"},
             setUser(t, e, status)
      PROVE  LinkInv'
  BY <1>2 DEF setUser, accountsAux
<1>3. ASSUME NEW t \in Tenant, NEW e \in Email, NEW c \in AuthCall,
             NEW pc \in {"sso", "request"}, arrive(c, pc, t, e)
      PROVE  LinkInv'
  BY <1>3 DEF arrive, Call
<1>4. ASSUME NEW t \in Tenant, NEW status \in {"ACTIVE", "SUSPENDED"}, setStatus(t, status)
      PROVE  LinkInv'
  BY <1>4 DEF setStatus
<1>5. ASSUME NEW c \in AuthCall,
             ssoCallback(c) \/ requestMagicLink(c) \/ sendMagicLink(c) \/ refused(c)
      PROVE  LinkInv'
  <2>1. /\ UNCHANGED <<link, session, overlapped>>
        /\ \A d \in AuthCall :
             authCall'[d].pc \in {"verify", "fresh"} => authCall'[d] = authCall[d]
    <3>1. CASE ssoCallback(c)
      BY <3>1 DEF ssoCallback, Goto, accountsAux
    <3>2. CASE requestMagicLink(c)
      BY <3>2 DEF requestMagicLink, Goto, accountsAux
    <3>3. CASE sendMagicLink(c) \/ refused(c)
      BY <3>3 DEF sendMagicLink, refused, End, NoCall
    <3> QED  BY <1>5, <3>1, <3>2, <3>3
  <2> QED  BY <2>1
<1>6. ASSUME NEW c \in AuthCall, verifyRead(c)
      PROVE  LinkInv'
  <2>1. /\ authCall' = [authCall EXCEPT ![c].pc = "fresh"]
        /\ authCall[c].pc = "verify"
        /\ link[authCall[c].link].state = "issued"
        /\ UNCHANGED <<link, session, overlapped>>
    BY <1>6 DEF verifyRead, Goto, accountsAux
  <2>2. UsedIsConsumed' /\ LinkUsedOnceUnlessOverlapped'
    BY <2>1
  <2>3. OverlapSeen'
    BY <2>1
  <2>4. FreshIsOpen'
    BY <2>1
  <2> QED  BY <2>2, <2>3, <2>4
<1>7. ASSUME NEW c \in AuthCall, NEW k \in Token, issueTokens(c, k)
      PROVE  LinkInv'
  BY <1>7 DEF issueTokens, begin, End, NoCall
<1>8. ASSUME NEW c \in AuthCall, NEW k \in Token, verifyConsume(c, k)
      PROVE  LinkInv'
  <2> DEFINE l == authCall[c].link
  <2>1. l \in Link /\ authCall[c].pc = "fresh"
    BY <1>8 DEF verifyConsume
  <2>2. /\ link' = [link EXCEPT ![l].state = "consumed"]
        /\ session[k] = NoSession
        /\ session' = [session EXCEPT ![k] =
             [tenant |-> authCall[c].tenant, email |-> authCall[c].email,
              from |-> l, late |-> l \in denied]]
        /\ authCall' = [authCall EXCEPT ![c] = NoCall]
        /\ overlapped' = overlapped
    BY <1>8 DEF verifyConsume, begin, End
  <2> HIDE DEF l
  <2>3. UsedIsConsumed'
    BY <2>1, <2>2
  <2>4. OverlapSeen'
    BY <2>2 DEF NoCall
  <2>5. FreshIsOpen'
    (* Another request that holds this link overlaps this one. *)
    BY <2>1, <2>2 DEF NoCall, l
  <2>6. l \notin overlapped => \A j \in Token : session[j].from # l
    BY <2>1 DEF l
  <2>7. LinkUsedOnceUnlessOverlapped'
    BY <2>1, <2>2, <2>6
  <2> QED  BY <2>3, <2>4, <2>5, <2>7
<1>9. ASSUME NEW c \in AuthCall, NEW l \in Link, createLink(c, l)
      PROVE  LinkInv'
  BY <1>9 DEF createLink, NoLink
<1>10. ASSUME NEW c \in AuthCall, NEW l \in Link, findMagicLinkTokenByHash(c, l)
       PROVE  LinkInv'
  BY <1>10 DEF findMagicLinkTokenByHash, Call, NoCall, Verifying
<1>11. ASSUME NEW l \in Link, linkExpires(l)
       PROVE  LinkInv'
  BY <1>11 DEF linkExpires, accountsAux
<1>12. CASE restart
  BY <1>12 DEF restart, NoCall
<1>13. CASE UNCHANGED accountsVars
  BY <1>13 DEF accountsVars, accountsAux
<1> HIDE DEF Typed, AccountsTypeOK, CallsNamed, LinksNamed, LinkInv, UsedIsConsumed, OverlapSeen, FreshIsOpen, LinkUsedOnceUnlessOverlapped
<1> QED
  BY <1>1, <1>2, <1>3, <1>4, <1>5, <1>6, <1>7, <1>8, <1>9, <1>10, <1>11, <1>12, <1>13,
     AccountsSteps

(* A magic link begins one session, unless two requests were verifying it  *)
(* at the same time.                                                       *)
THEOREM LinksUsedOnce == AccountsSpec => []LinkUsedOnceUnlessOverlapped
<1>1. AccountsInit => LinkInv
  BY DEF AccountsInit, LinkInv, UsedIsConsumed, OverlapSeen, FreshIsOpen,
         LinkUsedOnceUnlessOverlapped, NoSession, NoCall
<1>2. Typed /\ LinkInv /\ [AccountsNext]_accountsVars => LinkInv'
  BY LinkStep
<1>3. AccountsSpec => [](Typed /\ LinkInv)
  BY <1>1, <1>2, TypedInit, TypedStep, PTL DEF AccountsSpec
<1> QED  BY <1>3, PTL DEF LinkInv
=============================================================================
