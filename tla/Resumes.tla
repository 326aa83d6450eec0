------------------------------ MODULE Resumes ------------------------------
(***************************************************************************)
(* The one resume of each student, apps/api/src/modules/resumes: made by   *)
(* its first access, GET or PUT, whichever comes first.                    *)
(*                                                                         *)
(* A request looks for the row in one statement and creates or updates it  *)
(* in the next (READ COMMITTED); the row is unique by student_id.          *)
(***************************************************************************)
CONSTANTS Owner,                \* students, as the owners of resumes
          Content,              \* contents of a resume other than the empty one
          ResumeCall, NoRow

VARIABLES
  resume,                       \* resumes: the content, or NoRow
  resumeCall,                   \* the requests in progress
  failed,                       \* auxiliary: owners one of whose requests failed
  contended,                    \* auxiliary: owners with two requests at once
  lastSave                      \* auxiliary: the content of the last PUT that succeeded

resumesAux == <<failed, contended, lastSave>>
resumesVars == <<resume, resumeCall, resumesAux>>

EMPTY_CONTENT == "empty"
NoResumeCall == [pc |-> "idle"]
Request == [pc : {"found", "none"}, owner : Owner, put : Content \cup {NoRow}]

ResumesTypeOK ==
  /\ resume \in [Owner -> Content \cup {EMPTY_CONTENT, NoRow}]
  /\ resumeCall \in [ResumeCall -> {NoResumeCall} \cup Request]
  /\ failed \subseteq Owner /\ contended \subseteq Owner
  /\ lastSave \in [Owner -> Content \cup {NoRow}]

ResumesInit ==
  /\ resume = [s \in Owner |-> NoRow]
  /\ resumeCall = [c \in ResumeCall |-> NoResumeCall]
  /\ failed = {} /\ contended = {}
  /\ lastSave = [s \in Owner |-> NoRow]

-----------------------------------------------------------------------------

InProgress(s) == \E c \in ResumeCall : resumeCall[c] # NoResumeCall /\ resumeCall[c].owner = s

findResume(s) == IF resume[s] # NoRow THEN "found" ELSE "none"

(* put is the content of a PUT, NoRow for a GET.                            *)
readResume(c, s, put) ==
  /\ resumeCall[c] = NoResumeCall
  /\ resumeCall' = [resumeCall EXCEPT ![c] =
                      [pc |-> findResume(s), owner |-> s, put |-> put]]
  /\ contended' = IF InProgress(s) THEN contended \cup {s} ELSE contended
  /\ UNCHANGED <<resume, failed, lastSave>>

EndRequest(c) == resumeCall' = [resumeCall EXCEPT ![c] = NoResumeCall]

Save(s, put) == lastSave' = IF put = NoRow THEN lastSave ELSE [lastSave EXCEPT ![s] = put]

(* A GET that found the row answers with it, a PUT updates it by its id.   *)
useResume(c) ==
  LET call == resumeCall[c]
  IN  /\ call.pc = "found"
      /\ resume' = IF call.put = NoRow THEN resume
                   ELSE [resume EXCEPT ![call.owner] = call.put]
      /\ Save(call.owner, call.put)
      /\ EndRequest(c)
      /\ UNCHANGED <<failed, contended>>

FirstContent(put) == IF put = NoRow THEN EMPTY_CONTENT ELSE put

(* Mutant: creating replaces a row that came in between. *)
CreateReplaces(c) ==
  LET call == resumeCall[c]
  IN  /\ call.pc = "none"
      /\ resume' = [resume EXCEPT ![call.owner] = FirstContent(call.put)]
      /\ Save(call.owner, call.put)
      /\ EndRequest(c)
      /\ UNCHANGED <<failed, contended>>

(* The unique index refuses a second row: P2002, which nothing catches.    *)
createResume(c) ==
  LET call == resumeCall[c]
  IN  /\ call.pc = "none"
      /\ \/ /\ resume[call.owner] = NoRow
            /\ resume' = [resume EXCEPT ![call.owner] = FirstContent(call.put)]
            /\ Save(call.owner, call.put)
            /\ failed' = failed
         \/ /\ resume[call.owner] # NoRow
            /\ failed' = failed \cup {call.owner}
            /\ UNCHANGED <<resume, lastSave>>
      /\ EndRequest(c)
      /\ UNCHANGED contended

-----------------------------------------------------------------------------

ResumesNext ==
  \E c \in ResumeCall :
    \/ useResume(c) \/ createResume(c)
    \/ \E s \in Owner, put \in Content \cup {NoRow} : readResume(c, s, put)

ResumesSpec == ResumesInit /\ [][ResumesNext]_resumesVars

-----------------------------------------------------------------------------

(* A resume holds what its student saved last: an access that makes the    *)
(* empty resume (resumes.service.ts:22) never wipes out a save it did not  *)
(* see.                                                                    *)
LastSaveKept ==
  \A s \in Owner : lastSave[s] # NoRow => resume[s] = lastSave[s]

(* "creating an empty one on first access so the builder always has a row  *)
(* to PUT against" (resumes.service.ts:12-13): an access fails on the      *)
(* unique index only when two of the student's requests overlapped.        *)
FailsOnlyContended == failed \subseteq contended

(* Both: concurrent first accesses lose a request, but never what was      *)
(* saved (resumes.service.ts:14-51).                                       *)
ResumeKept == LastSaveKept /\ FailsOnlyContended
=============================================================================
