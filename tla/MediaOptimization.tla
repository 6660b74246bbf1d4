------------------------- MODULE MediaOptimization --------------------------
(***************************************************************************)
(* MediaOptimizationService.optimize                                       *)
(* (src/kuvox_ai/modules/media_optimization/service.py) for one medium:    *)
(* attempts that follow a failure, a crash or a redelivery, or run at once *)
(* when RabbitMQ redelivers a request that is being worked on.             *)
(*                                                                         *)
(* Every attempt has a directory of its own; the keys it uploads to are    *)
(* those of the medium, so attempts overwrite each other's objects.  A     *)
(* file or an object is "whole" if the command that wrote it ended well,   *)
(* and "part" if it is what a command left that did not.                   *)
(***************************************************************************)
EXTENDS Naturals, Sequences

CONSTANTS Attempts, None

VARIABLES
    kind,     \* the kind of the medium
    pc,       \* what each attempt does next
    at,       \* the position in Variants of what it writes or uploads
    files,    \* the variants in each attempt's directory
    dirs,     \* the attempts whose directory exists
    named,    \* the variants each attempt's report names
    width,    \* whether the report of an attempt has the dimensions
    objects,  \* the variants in the object storage
    died      \* history: attempts that a crash ended

vars == <<kind, pc, at, files, dirs, named, width, objects, died>>

(* What the methods for video, audio and image write, in their order.      *)
Variants ==
    [video |-> <<"canonical", "proxy", "thumbnail">>,
     audio |-> <<"canonical", "thumbnail">>,
     image |-> <<"canonical", "thumbnail">>]

Names == {"canonical", "proxy", "thumbnail"}

Plan == Variants[kind]

(* An image's thumbnail is written and uploaded like its canonical form.   *)
Mandatory(v) == v = "canonical" \/ kind = "image"

Active(a) == pc[a] \in {"write", "upload", "probe"}

NoFiles == [v \in Names |-> None]

Init ==
    /\ kind \in DOMAIN Variants
    /\ pc = [a \in Attempts |-> "waiting"]
    /\ at = [a \in Attempts |-> 1]
    /\ files = [a \in Attempts |-> NoFiles]
    /\ dirs = {}
    /\ named = [a \in Attempts |-> {}]
    /\ width = [a \in Attempts |-> FALSE]
    /\ objects = NoFiles
    /\ died = {}

-----------------------------------------------------------------------------
Goto(a, stage) == pc' = [pc EXCEPT ![a] = stage]

(* The step of attempt a to the next variant, or to stage after the last.  *)
Advance(a, stage) ==
    IF at[a] < Len(Plan)
    THEN at' = [at EXCEPT ![a] = @ + 1] /\ UNCHANGED pc
    ELSE at' = [at EXCEPT ![a] = 1] /\ Goto(a, stage)

(* Mutant: the directory is removed only after a success. *)
KeepDir(a) ==
    IF pc[a] = "probe"
    THEN dirs' = dirs \ {a} /\ files' = [files EXCEPT ![a] = NoFiles]
    ELSE UNCHANGED <<dirs, files>>

(* The finally of temporary_job_dir.                                       *)
RemoveDir(a) ==
    /\ dirs' = dirs \ {a}
    /\ files' = [files EXCEPT ![a] = NoFiles]

(* An exception leaves optimize(): what it would have reported is lost,    *)
(* and the handler retries or reports the failure.                         *)
Abandon(a) ==
    /\ Goto(a, "failed")
    /\ at' = [at EXCEPT ![a] = 1]
    /\ named' = [named EXCEPT ![a] = {}]
    /\ RemoveDir(a)
    /\ UNCHANGED <<kind, width, died>>

Raise(a) == Abandon(a) /\ UNCHANGED objects

(* optimize() makes the directory and downloads the medium.  A crash       *)
(* before the download has ended is one before the first command has.      *)
Start(a) ==
    /\ pc[a] = "waiting"
    /\ \/ /\ Goto(a, "write")
          /\ dirs' = dirs \cup {a}
          /\ UNCHANGED <<kind, at, files, named, width, objects, died>>
       \/ Raise(a)

(* Mutant: run_optional_command for every variant. *)
WriteOptional(a) ==
    /\ pc[a] = "write"
    /\ \E outcome \in {"whole", "part", None} :
          /\ files' = [files EXCEPT ![a][Plan[at[a]]] = outcome]
          /\ Advance(a, "upload")
    /\ UNCHANGED <<kind, dirs, named, width, objects, died>>

(* One command.  A command that fails or times out may have created its    *)
(* output; run_optional_command goes on then.                              *)
Write(a) ==
    LET v == Plan[at[a]] IN
    /\ pc[a] = "write"
    /\ \/ \E outcome \in {"whole", "part", None} :
             /\ outcome = "whole" \/ ~Mandatory(v)
             /\ files' = [files EXCEPT ![a][v] = outcome]
             /\ Advance(a, "upload")
             /\ UNCHANGED <<kind, dirs, named, width, objects, died>>
       \/ Mandatory(v) /\ Raise(a)

(* _upload_optimized and _upload_optional_optimized: a file that is not    *)
(* there is left out if it is optional, and so is one whose upload fails.  *)
(* A failed upload may have been executed.                                 *)
Upload(a) ==
    LET v == Plan[at[a]]
        stored == [objects EXCEPT ![v] = files[a][v]]
    IN
    /\ pc[a] = "upload"
    /\ \/ /\ files[a][v] # None
          /\ objects' = stored
          /\ named' = [named EXCEPT ![a] = @ \cup {v}]
          /\ Advance(a, "probe")
          /\ UNCHANGED <<kind, files, dirs, width, died>>
       \/ /\ ~Mandatory(v)
          /\ objects' \in {objects} \cup IF files[a][v] = None THEN {} ELSE {stored}
          /\ Advance(a, "probe")
          /\ UNCHANGED <<kind, files, dirs, named, width, died>>
       \/ /\ Mandatory(v)
          /\ objects' \in {objects, stored}
          /\ Abandon(a)

(* extract_basic_metadata_safely, or image_metadata: audio has no          *)
(* dimensions; a probe that fails, and a stream without them, leave them   *)
(* out; output of ffprobe that is not JSON is not caught.                  *)
Probe(a) ==
    /\ pc[a] = "probe"
    /\ \/ \E known \in IF kind = "audio" THEN {FALSE} ELSE BOOLEAN :
             /\ width' = [width EXCEPT ![a] = known]
             /\ Goto(a, "reported")
             /\ RemoveDir(a)
             /\ UNCHANGED <<kind, at, named, objects, died>>
       \/ Raise(a)

(* The process dies: the directories of its attempts stay, and nothing     *)
(* reads their files again.                                                *)
Die ==
    LET active == {a \in Attempts : Active(a)} IN
    /\ pc' = [a \in Attempts |-> IF a \in active THEN "dead" ELSE pc[a]]
    /\ at' = [a \in Attempts |-> IF a \in active THEN 1 ELSE at[a]]
    /\ files' = [a \in Attempts |-> NoFiles]
    /\ named' = [a \in Attempts |-> IF a \in active THEN {} ELSE named[a]]
    /\ died' = died \cup active
    /\ UNCHANGED <<kind, dirs, width, objects>>

Step(a) == Start(a) \/ Write(a) \/ Upload(a) \/ Probe(a)
=============================================================================
