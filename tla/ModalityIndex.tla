--------------------------- MODULE ModalityIndex ----------------------------
(***************************************************************************)
(* The vector points of one medium in Qdrant, written by runs of           *)
(* IngestionService.ingest (src/kuvox_ai/modules/ingestion/service.py and  *)
(* qdrant_writer.py) after their graph writes: retries, later ingestions,  *)
(* and runs at once when RabbitMQ redelivers a job that is being worked on.*)
(*                                                                         *)
(* Every modality has its collection, and write_points replaces the points *)
(* of the medium there by a delete and an upsert, two requests that are    *)
(* two actions.  A request that fails, that the run's wait_for gives up or *)
(* that a crash cuts off may have been executed, or may still be executed  *)
(* later.  Point ids are derived from the medium and the shot, so runs     *)
(* overwrite each other's points.                                          *)
(***************************************************************************)
EXTENDS Naturals, Sequences, FiniteSets

CONSTANTS
    Runs,       \* runs of ingest for the medium
    NoRun,
    MaxPoints,  \* bound on the points of one collection: on the shots of a video
    MaxLate     \* bound on the requests that may still be executed

ASSUME IndexAssumption ==
    /\ NoRun \notin Runs
    /\ MaxPoints \in Nat \ {0} /\ MaxLate \in Nat

(* The collections that ingest_video, ingest_audio and ingest_image write, *)
(* in their order.                                                         *)
Plans ==
    [video |-> <<"visual", "transcript", "audio", "ocr">>,
     audio |-> <<"audio", "transcript">>,
     image |-> <<"visual", "ocr">>]

Kinds == DOMAIN Plans
Collections == {"visual", "transcript", "audio", "ocr"}
Ids == 1..MaxPoints

VARIABLES
    kind,       \* the kind of the medium
    pc,         \* what each run does next
    at,         \* the position in Plan of the collection each run writes
    size,       \* the number of points a run has for a collection with content
    points,     \* the run that wrote each point of each collection, or NoRun
    counted,    \* collections for which each run has a positive count
    failed,     \* collections each run gave up and did not clean up
    late,       \* requests nobody waits for that are not executed yet: the upsert
                \* of a run, or with NoRun a delete
    latest,     \* history: the run that began last
    overlapped, \* history: runs that were active together with another one
    spoiled     \* history: collections in which a late request was executed since
                \* a run last deleted the points there

vars == <<kind, pc, at, size, points, counted, failed, late,
          latest, overlapped, spoiled>>

(* "replace": a delete and then an upsert; "clear": only the delete.       *)
Writing == {"encode", "replace", "clear", "upsert", "cleanup"}
Stages == Writing \cup {"idle", "done", "raised"}

Active(r) == pc[r] \in Writing

Requests == [collection : Collections, run : Runs \cup {NoRun}]

Plan == Plans[kind]

(* A shot has a point of its own; other media have one point in all.  A    *)
(* run has a point for every shot in a collection, or none there at all.   *)
Sizes == IF kind = "video" THEN Ids ELSE {1}

TypeOK ==
    /\ kind \in Kinds
    /\ pc \in [Runs -> Stages]
    /\ at \in [Runs -> 1..Len(Plan)]
    /\ size \in [Runs -> Sizes]
    /\ points \in [Collections -> [Ids -> Runs \cup {NoRun}]]
    /\ counted \in [Runs -> SUBSET Collections]
    /\ failed \in [Runs -> SUBSET Collections]
    /\ \A r \in Runs : counted[r] \cap failed[r] = {}
    /\ late \subseteq Requests
    /\ latest \in Runs \cup {NoRun}
    /\ overlapped \subseteq Runs
    /\ spoiled \subseteq Collections

NoPoints == [i \in Ids |-> NoRun]

Init ==
    /\ kind \in Kinds
    /\ pc = [r \in Runs |-> "idle"]
    /\ at = [r \in Runs |-> 1]
    /\ size = [r \in Runs |-> 1]
    /\ points = [c \in Collections |-> NoPoints]
    /\ counted = [r \in Runs |-> {}]
    /\ failed = [r \in Runs |-> {}]
    /\ late = {}
    /\ latest = NoRun
    /\ overlapped = {}
    /\ spoiled = {}

-----------------------------------------------------------------------------
history == <<latest, overlapped, spoiled>>
index == <<points, late>>

Goto(r, stage) == pc' = [pc EXCEPT ![r] = stage]

Collection(r) == Plan[at[r]]

(* Mutant: the filter names a payload field that no point has.             *)
DeleteNothing(c) == UNCHANGED points

(* The requests of QdrantShotEmbeddingWriter.                              *)
DeletePoints(c) == points' = [points EXCEPT ![c] = NoPoints]

UpsertPoints(c, r) ==
    points' = [points EXCEPT ![c] = [i \in Ids |-> IF i <= size[r] THEN r ELSE @[i]]]

Execute(q) ==
    IF q.run = NoRun THEN DeletePoints(q.collection) ELSE UpsertPoints(q.collection, q.run)

(* The request the run awaits fails: it is never executed, or it was, or   *)
(* it still will be.                                                       *)
Abandoned(r) ==
    LET request == [collection |-> Collection(r),
                    run |-> IF pc[r] = "upsert" THEN r ELSE NoRun]
    IN  \/ UNCHANGED index
        \/ /\ pc[r] # "encode"
           /\ \/ Execute(request) /\ UNCHANGED late
              \/ Cardinality(late) < MaxLate /\ late' = late \cup {request} /\ UNCHANGED points

(* Mutant: one collection too many.                                        *)
ProceedPast(r) ==
    IF at[r] <= Len(Plan)
    THEN Goto(r, "encode") /\ at' = [at EXCEPT ![r] = @ + 1]
    ELSE Goto(r, "done") /\ UNCHANGED at

(* The next collection of the plan, or the end.                            *)
Proceed(r) ==
    IF at[r] < Len(Plan)
    THEN Goto(r, "encode") /\ at' = [at EXCEPT ![r] = @ + 1]
    ELSE Goto(r, "done") /\ UNCHANGED at

-----------------------------------------------------------------------------
(* The run has written the graph and comes to the index.                   *)
Begin(r) ==
    /\ pc[r] = "idle"
    /\ Goto(r, "encode")
    /\ \E n \in Sizes : size' = [size EXCEPT ![r] = n]
    /\ latest' = r
    /\ LET others == {a \in Runs : Active(a)}
       IN  overlapped' = IF others = {} THEN overlapped ELSE overlapped \cup others \cup {r}
    /\ UNCHANGED <<kind, index, at, counted, failed, spoiled>>

(* Frames are sampled, audio is transcribed, text is read and encoded; or  *)
(* there is nothing to index: no frames, no audio stream, no text.  The    *)
(* picture of an image and the sound of an audio file are always there.    *)
Encode(r) ==
    /\ pc[r] = "encode"
    /\ \/ Goto(r, "replace")
       \/ <<kind, Collection(r)>> \notin {<<"audio", "audio">>, <<"image", "visual">>}
          /\ Goto(r, "clear")
    /\ UNCHANGED <<kind, index, at, size, counted, failed, history>>

(* Mutant: write_points returns before the delete if there are no points.  *)
DeleteOnlyToReplace(r) ==
    /\ pc[r] \in {"replace", "clear"}
    /\ IF pc[r] = "clear" THEN Proceed(r) /\ UNCHANGED points
       ELSE DeletePoints(Collection(r)) /\ Goto(r, "upsert") /\ UNCHANGED at
    /\ spoiled' = spoiled \ {Collection(r)}
    /\ UNCHANGED <<kind, late, size, counted, failed, latest, overlapped>>

(* write_points: delete_media_points, and the upsert if there are points.  *)
Delete(r) ==
    /\ pc[r] \in {"replace", "clear"}
    /\ DeletePoints(Collection(r))
    /\ IF pc[r] = "clear" THEN Proceed(r) ELSE Goto(r, "upsert") /\ UNCHANGED at
    /\ spoiled' = spoiled \ {Collection(r)}
    /\ UNCHANGED <<kind, late, size, counted, failed, latest, overlapped>>

Upsert(r) ==
    /\ pc[r] = "upsert"
    /\ UpsertPoints(Collection(r), r)
    /\ counted' = [counted EXCEPT ![r] = @ \cup {Collection(r)}]
    /\ Proceed(r)
    /\ UNCHANGED <<kind, late, size, failed, history>>

-----------------------------------------------------------------------------
(* An exception or the timeout of the block the run is in.                 *)
GivesUp(r, given) ==
    /\ failed' = [failed EXCEPT ![r] = @ \cup given]
    /\ counted' = [counted EXCEPT ![r] = @ \ given]

(* _index_visual_best_effort of a video; the audio transcript; image OCR.  *)
BlockFails(r) ==
    /\ pc[r] \in Writing \ {"cleanup"}
    /\ <<kind, Collection(r)>> \in
           {<<"video", "visual">>, <<"audio", "transcript">>, <<"image", "ocr">>}
    /\ Abandoned(r)
    /\ GivesUp(r, {Collection(r)})
    /\ Proceed(r)
    /\ UNCHANGED <<kind, size, history>>

(* _index_optional_best_effort: one try block around three collections.    *)
OptionalFails(r) ==
    /\ pc[r] \in Writing \ {"cleanup"}
    /\ kind = "video" /\ Collection(r) # "visual"
    /\ Abandoned(r)
    /\ GivesUp(r, {"transcript", "audio", "ocr"})
    /\ Goto(r, "done")
    /\ UNCHANGED <<kind, at, size, history>>

(* _index_media_audio_best_effort: write_points(request, []) cleans up.    *)
MediaAudioFails(r) ==
    /\ pc[r] \in Writing \ {"cleanup"}
    /\ kind = "audio" /\ Collection(r) = "audio"
    /\ Abandoned(r)
    /\ Goto(r, "cleanup")
    /\ GivesUp(r, {"audio"})
    /\ UNCHANGED <<kind, at, size, history>>

Cleanup(r) ==
    /\ pc[r] = "cleanup"
    /\ DeletePoints("audio")
    /\ failed' = [failed EXCEPT ![r] = @ \ {"audio"}]
    /\ Proceed(r)
    /\ spoiled' = spoiled \ {"audio"}
    /\ UNCHANGED <<kind, late, size, counted, latest, overlapped>>

CleanupFails(r) ==
    /\ pc[r] = "cleanup"
    /\ Abandoned(r)
    /\ Proceed(r)
    /\ UNCHANGED <<kind, size, counted, failed, history>>

(* _index_media_visual of an image is not best effort, and neither is a    *)
(* crash or the handler's cancellation: ingest does not return, and what   *)
(* the run knew is gone.                                                   *)
Raise(r) ==
    /\ Active(r)
    /\ Abandoned(r)
    /\ Goto(r, "raised")
    /\ at' = [at EXCEPT ![r] = 1]
    /\ counted' = [counted EXCEPT ![r] = {}]
    /\ failed' = [failed EXCEPT ![r] = {}]
    /\ UNCHANGED <<kind, size, history>>

(* Qdrant executes a request that nobody waits for.                        *)
Land(q) ==
    /\ q \in late
    /\ Execute(q)
    /\ late' = late \ {q}
    /\ spoiled' = spoiled \cup {q.collection}
    /\ UNCHANGED <<kind, pc, at, size, counted, failed, latest, overlapped>>

Next ==
    \/ \E r \in Runs :
          \/ Begin(r) \/ Encode(r) \/ Delete(r) \/ Upsert(r)
          \/ BlockFails(r) \/ OptionalFails(r) \/ MediaAudioFails(r)
          \/ Cleanup(r) \/ CleanupFails(r) \/ Raise(r)
    \/ \E q \in late : Land(q)

Spec == Init /\ [][Next]_vars

-----------------------------------------------------------------------------
(* The completed event of a run that was alone tells the truth: wherever   *)
(* the run did not give up, the collection holds exactly the points it     *)
(* counts, none for a zero, unless a late request interfered.              *)
ReportMatchesIndex ==
    \A r \in Runs : r = latest /\ pc[r] = "done" /\ r \notin overlapped =>
        \A c \in Collections \ (failed[r] \cup spoiled) :
            points[c] = [i \in Ids |->
                            IF c \in counted[r] /\ i <= size[r] THEN r ELSE NoRun]

(* The points of a collection are of one run, whatever was retried, gave   *)
(* up or crashed half-way, as long as runs do not overlap and no request   *)
(* is executed late: no point of a shot that a later run no longer has.    *)
OneGeneration ==
    overlapped = {} =>
        \A c \in Collections \ spoiled : \A i, j \in Ids :
            NoRun \in {points[c][i], points[c][j]} \/ points[c][i] = points[c][j]
=============================================================================
