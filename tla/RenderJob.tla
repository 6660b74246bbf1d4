----------------------------- MODULE RenderJob ------------------------------
(***************************************************************************)
(* RenderingService.render (src/kuvox_ai/modules/rendering/service.py) for *)
(* one render job: deliveries that follow a failure or a crash, or run at  *)
(* once when RabbitMQ redelivers a job that is being worked on.            *)
(*                                                                         *)
(* All deliveries work in one directory, named after the job, and upload   *)
(* to one key.  "whole" and "part" are as in MediaOptimization; a video    *)
(* that lacks a layer is a "part", too.                                    *)
(*                                                                         *)
(* While two deliveries run, each removes and overwrites files the other   *)
(* reads or writes: what becomes of such a file is left open.              *)
(***************************************************************************)
EXTENDS Naturals

CONSTANTS Deliveries, None

VARIABLES
    job,        \* the job: whether a manifest can be built of it; None before
    stage,      \* what each delivery does next
    work,       \* the directory: the file of each step, or None
    output,     \* the object at the key of the output
    shared,     \* history: deliveries that ran together with another one
    blind,      \* history: a decoder ended early and its layer was left out, of a
                \* delivery that ran alone
    killed      \* history: a crash ended a delivery and none began since

vars == <<job, stage, work, output, shared, blind, killed>>

Rendering == {"download", "compose", "audio", "mux", "upload", "stat"}

Active(d) == stage[d] \in Rendering

Empty == [source |-> None, silent |-> None, output |-> None]

Init ==
    /\ job = None
    /\ stage = [d \in Deliveries |-> "waiting"]
    /\ work = None
    /\ output = None
    /\ shared = {}
    /\ blind = FALSE
    /\ killed = FALSE

-----------------------------------------------------------------------------
Goto(d, next) == stage' = [stage EXCEPT ![d] = next]

(* The directory after d has written a file of quality q.  If another      *)
(* delivery runs, the file may have been removed or overwritten meanwhile, *)
(* and a download makes the directory anew.                                *)
Written(d, file, q) ==
    LET alone == d \notin shared
        into == {work} \cup IF alone \/ file # "source" THEN {} ELSE {Empty}
    IN  {[w EXCEPT ![file] = x] :
            w \in into \ {None}, x \in {q} \cup IF alone THEN {} ELSE {"part", None}}
        \cup IF alone THEN {} ELSE {work}

Present(file) == work # None /\ work[file] # None

(* An exception leaves render(), and its finally removes the directory.    *)
Raise(d) ==
    /\ Goto(d, "failed")
    /\ work' = None
    /\ UNCHANGED <<job, output, shared, blind, killed>>

(* What a former delivery left is removed first.  build_manifest comes     *)
(* before anything that awaits.                                            *)
Begin(d) ==
    LET others == {e \in Deliveries : Active(e)} IN
    /\ job # None /\ stage[d] = "waiting"
    /\ IF job.accepted
       THEN Goto(d, "download") /\ work' = Empty
       ELSE Goto(d, "failed") /\ work' = None
    /\ shared' = IF others = {} THEN shared ELSE shared \cup others \cup {d}
    /\ killed' = FALSE
    /\ UNCHANGED <<job, output, blind>>

(* _download_sources: media is the object of the job's medium.  The file   *)
(* of a download that fails stays until the directory is removed.          *)
Download(d, media) ==
    /\ stage[d] = "download"
    /\ \/ /\ media # None
          /\ work' \in Written(d, "source", media)
          /\ Goto(d, "compose")
          /\ UNCHANGED <<job, output, shared, blind, killed>>
       \/ Raise(d)

(* _compose_and_encode_video: a decoder that ends early gives None for its *)
(* frames, which is not an error: neither its exit code nor what it writes *)
(* to stderr is looked at.  A source that is not there or not whole shows  *)
(* in the same way.                                                        *)
Compose(d) ==
    /\ stage[d] = "compose"
    /\ \/ \E early \in BOOLEAN :
             LET sound == ~early /\ Present("source") /\ work.source = "whole" IN
             /\ work' \in Written(d, "silent", IF sound THEN "whole" ELSE "part")
             /\ blind' = (blind \/ (early /\ d \notin shared))
             /\ Goto(d, "audio")
             /\ UNCHANGED <<job, output, shared, killed>>
       \/ Raise(d)

(* _render_audio_track, or nothing: a manifest without sound, and sources  *)
(* without an audio stream, have none.  Then the silent video is moved.    *)
Audio(d) ==
    /\ stage[d] = "audio"
    /\ \/ /\ Goto(d, "mux")
          /\ UNCHANGED <<job, work, output, shared, blind, killed>>
       \/ /\ Present("silent")
          /\ work' = [work EXCEPT !.output = work.silent, !.silent = None]
          /\ Goto(d, "upload")
          /\ UNCHANGED <<job, output, shared, blind, killed>>
       \/ Raise(d)

(* Mutant: the exit code of the last command is not looked at. *)
MuxUnchecked(d) ==
    /\ stage[d] = "mux"
    /\ \/ /\ Present("silent")
          /\ work' \in Written(d, "output", work.silent) \cup Written(d, "output", "part")
          /\ Goto(d, "upload")
          /\ UNCHANGED <<job, output, shared, blind, killed>>
       \/ Raise(d)

Mux(d) ==
    /\ stage[d] = "mux"
    /\ \/ /\ Present("silent")
          /\ work' \in Written(d, "output", work.silent)
          /\ Goto(d, "upload")
          /\ UNCHANGED <<job, output, shared, blind, killed>>
       \/ Raise(d)

(* upload_file: one that fails may have been executed.  The other delivery *)
(* may overwrite the file while it is read.                                *)
Upload(d) ==
    /\ stage[d] = "upload"
    /\ \/ /\ Present("output")
          /\ output' \in {work.output} \cup IF d \in shared THEN {"part"} ELSE {}
          /\ Goto(d, "stat")
          /\ UNCHANGED <<job, work, shared, blind, killed>>
       \/ /\ output' \in {output} \cup IF Present("output") THEN {work.output} ELSE {}
          /\ Goto(d, "failed")
          /\ work' = None
          /\ UNCHANGED <<job, shared, blind, killed>>

(* The size is read after the upload: a file that is gone by then fails    *)
(* a job whose output is stored.                                           *)
Stat(d) ==
    /\ stage[d] = "stat"
    /\ Goto(d, IF Present("output") THEN "completed" ELSE "failed")
    /\ work' = None
    /\ UNCHANGED <<job, output, shared, blind, killed>>

(* The process dies; the directory stays.                                  *)
Die ==
    /\ stage' = [d \in Deliveries |-> IF Active(d) THEN "dead" ELSE stage[d]]
    /\ killed' = (killed \/ \E d \in Deliveries : Active(d))
    /\ UNCHANGED <<job, work, output, shared, blind>>

Step(d, media) ==
    \/ Begin(d) \/ Download(d, media) \/ Compose(d) \/ Audio(d)
    \/ Mux(d) \/ Upload(d) \/ Stat(d)
=============================================================================
