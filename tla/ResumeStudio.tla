---------------------------- MODULE ResumeStudio ----------------------------
(***************************************************************************)
(* The Resume Studio page, apps/web/app/(dashboard)/resume/page.tsx: an    *)
(* editor over two rows, the resume and the student's profile links, that  *)
(* the page loads with two queries and saves with two requests, one after  *)
(* the other.                                                              *)
(*                                                                         *)
(* Every answer to a query replaces its half of the editor, and a rotation *)
(* of the access token, which the query keys hold, empties the cache and   *)
(* asks again: both happen while the student types and saves.              *)
(***************************************************************************)
CONSTANTS Text,                 \* what a half of the editor can hold
          NoData

ASSUME StudioAssumption == NoData \notin Text

VARIABLES
  stored,                       \* the two rows
  cache,                        \* the queries: the data under the current token
  fetch,                        \* the request of each query
  editor,                       \* content and links
  dirty,
  save,                         \* handleSave(): the mutation under way
  crossed                       \* auxiliary: see CleanMeansStored

studioVars == <<stored, cache, fetch, editor, dirty, save, crossed>>

Query == {"resume", "students"}
NotSaving == [pc |-> "idle"]
Saving == [pc : Query, done : BOOLEAN, payload : [Query -> Text]]
At(q, done, payload) == [pc |-> q, done |-> done, payload |-> payload]
Pc(pc) == [pc |-> pc]
Answer(t) == [pc |-> "answered", data |-> t]

StudioTypeOK ==
  /\ stored \in [Query -> Text] /\ editor \in [Query -> Text]
  /\ cache \in [Query -> Text \cup {NoData}]
  /\ fetch \in [Query -> {Pc("none"), Pc("failed"), Pc("asked")} \cup {Answer(t) : t \in Text}]
  /\ dirty \in BOOLEAN /\ crossed \in BOOLEAN
  /\ save \in {NotSaving} \cup Saving

(* The page has just been mounted: the editor is empty and both queries    *)
(* are asked.                                                              *)
StudioInit ==
  /\ stored \in [Query -> Text]
  /\ cache = [q \in Query |-> NoData]
  /\ fetch = [q \in Query |-> Pc("asked")]
  /\ \E empty \in Text : editor = [q \in Query |-> empty]
  /\ dirty = FALSE /\ crossed = FALSE
  /\ save = NotSaving

-----------------------------------------------------------------------------
(* The queries                                                             *)

isFetching(q) == fetch[q].pc \in {"asked", "answered"}
FirstLoad(q) == cache[q] = NoData /\ isFetching(q)
isLoading == \E q \in Query : FirstLoad(q)

serveQuery(q) ==
  /\ fetch[q] = Pc("asked")
  /\ fetch' = [fetch EXCEPT ![q] = Answer(stored[q])]
  /\ UNCHANGED <<stored, cache, editor, dirty, save, crossed>>

(* The answer runs the effect that fills the editor, unless it is the very *)
(* row the page holds (updatedAt, which tells two of them apart, is not    *)
(* kept here).                                                             *)
queryAnswered(q) ==
  \E t \in Text :
    /\ fetch[q] = Answer(t)
    /\ fetch' = [fetch EXCEPT ![q] = Pc("none")]
    /\ cache' = [cache EXCEPT ![q] = t]
    /\ \/ editor' = [editor EXCEPT ![q] = t]
       \/ cache[q] = t /\ editor' = editor
    /\ UNCHANGED <<stored, dirty, save, crossed>>

(* retry: false *)
queryFails(q) ==
  /\ isFetching(q)
  /\ fetch' = [fetch EXCEPT ![q] = Pc("failed")]
  /\ UNCHANGED <<stored, cache, editor, dirty, save, crossed>>

(* The session client stores a new token: the keys change, the answers to  *)
(* the old ones no longer reach the page.                                  *)
rotateToken ==
  /\ cache' = [q \in Query |-> NoData]
  /\ fetch' = [q \in Query |-> Pc("asked")]
  /\ crossed' = (save # NotSaving)
  /\ UNCHANGED <<stored, editor, dirty, save>>

(* invalidateQueries(): a query that holds data starts over; a first load  *)
(* under way is left to finish.                                            *)
Invalidated(q) == IF FirstLoad(q) THEN fetch ELSE [fetch EXCEPT ![q] = Pc("asked")]

-----------------------------------------------------------------------------
(* The editor                                                              *)

patch(q, t) ==
  /\ ~isLoading
  /\ editor' = [editor EXCEPT ![q] = t]
  /\ dirty' = TRUE
  /\ crossed' = (crossed \/ save # NotSaving)
  /\ UNCHANGED <<stored, cache, fetch, save>>

(* Save is enabled before the first answer too.  The handler keeps the     *)
(* content and links of the render it was clicked in.                      *)
handleSave ==
  /\ save = NotSaving
  /\ save' = At("resume", FALSE, editor)
  /\ crossed' = (crossed \/ \E q \in Query : cache[q] = NoData \/ isFetching(q))
  /\ UNCHANGED <<stored, cache, fetch, editor, dirty>>

serveSave ==
  /\ save # NotSaving /\ ~save.done
  /\ stored' = [stored EXCEPT ![save.pc] = save.payload[save.pc]]
  /\ save' = At(save.pc, TRUE, save.payload)
  /\ UNCHANGED <<cache, fetch, editor, dirty, crossed>>

contentSaved ==
  /\ save # NotSaving /\ save.pc = "resume" /\ save.done
  /\ fetch' = Invalidated("resume")
  /\ save' = At("students", FALSE, save.payload)
  /\ UNCHANGED <<stored, cache, editor, dirty, crossed>>

linksSaved ==
  /\ save # NotSaving /\ save.pc = "students" /\ save.done
  /\ fetch' = Invalidated("students")
  /\ dirty' = FALSE
  /\ save' = NotSaving
  /\ UNCHANGED <<stored, cache, editor, crossed>>

(* Mutant: the badge goes out in a finally. *)
CleanInFinally ==
  /\ save # NotSaving
  /\ save' = NotSaving
  /\ dirty' = FALSE
  /\ UNCHANGED <<stored, cache, fetch, editor, crossed>>

(* Refused, or lost on its way there or back: the catch only shows a toast. *)
saveFails ==
  /\ save # NotSaving
  /\ save' = NotSaving
  /\ UNCHANGED <<stored, cache, fetch, editor, dirty, crossed>>

-----------------------------------------------------------------------------

StudioNext ==
  \/ \E q \in Query : serveQuery(q) \/ queryAnswered(q) \/ queryFails(q)
  \/ rotateToken
  \/ \E q \in Query, t \in Text : patch(q, t)
  \/ handleSave \/ serveSave \/ contentSaved \/ linksSaved \/ saveFails

StudioSpec == StudioInit /\ [][StudioNext]_studioVars

-----------------------------------------------------------------------------

(* A page at rest without the "Unsaved changes" badge (page.tsx:181) shows *)
(* what is stored: after a save that failed half-way or whose answer was   *)
(* lost, after a rotation that dropped what was typed, in whatever order   *)
(* the answers to the loads of a save and to its requests come.  Only a    *)
(* save during which the student typed, the token rotated or an earlier    *)
(* load was not over can leave a clean page that differs, until the token  *)
(* rotates again.                                                          *)
CleanMeansStored ==
  /\ ~dirty /\ save = NotSaving /\ ~crossed
  /\ \A q \in Query : fetch[q] = Pc("none")
  => editor = stored
=============================================================================
