------------------------------- MODULE Export -------------------------------
(***************************************************************************)
(* The way of a medium to an exported video: its optimization, and a       *)
(* render job of a document that shows it.  Both services work at once on  *)
(* one object storage: a later attempt of the optimization may overwrite   *)
(* the object a delivery of the render job downloads.                      *)
(*                                                                         *)
(* The API between the two is not part of the repository: it makes a job   *)
(* of the bucket, the key and the dimensions an optimization reported.     *)
(***************************************************************************)
EXTENDS Naturals

CONSTANTS
    Attempts,    \* attempts of the optimization of the medium
    Deliveries,  \* deliveries of the render job
    None

Quality == {"whole", "part", None}

ASSUME NoneAssumption ==
    /\ None \notin {"whole", "part"}
    /\ None \notin [source : Quality, silent : Quality, output : Quality]

VARIABLES kind, pc, at, files, dirs, named, width, objects, died
VARIABLES job, stage, work, output, shared, blind, killed

Optimization == INSTANCE MediaOptimization
Job == INSTANCE RenderJob

optimizationVars == <<kind, pc, at, files, dirs, named, width, objects, died>>
jobVars == <<job, stage, work, output, shared, blind, killed>>

vars == <<optimizationVars, jobVars>>

Init == Optimization!Init /\ Job!Init

(* build_manifest accepts a medium with dimensions, and audio without: its *)
(* document shows a text.                                                  *)
Submit(a) ==
    /\ job = None /\ pc[a] = "reported"
    /\ job' = [accepted |-> width[a] \/ kind = "audio"]
    /\ UNCHANGED <<optimizationVars, stage, work, output, shared, blind, killed>>

(* One process runs both services.                                         *)
Crash ==
    /\ \/ \E a \in Attempts : Optimization!Active(a)
       \/ \E d \in Deliveries : Job!Active(d)
    /\ Optimization!Die
    /\ Job!Die

Next ==
    \/ \E a \in Attempts : Submit(a)
    \/ \E a \in Attempts : Optimization!Step(a) /\ UNCHANGED jobVars
    \/ \E d \in Deliveries : Job!Step(d, objects["canonical"]) /\ UNCHANGED optimizationVars
    \/ Crash

Spec == Init /\ [][Next]_vars

-----------------------------------------------------------------------------
(* A report of the optimization names what is in the storage, and what is  *)
(* mandatory there is the output of a command that ended well, whichever   *)
(* attempts failed, crashed or ran at once.  Optional objects may be what  *)
(* a failed command left (_upload_optional_optimized).                     *)
ReportsAreBacked ==
    /\ \A v \in Optimization!Names :
          Optimization!Mandatory(v) => objects[v] \in {None, "whole"}
    /\ \A a \in Attempts : pc[a] = "reported" =>
          /\ "canonical" \in named[a]
          /\ \A v \in named[a] : objects[v] # None

(* Whichever deliveries of a render job failed or crashed before it, one   *)
(* that runs alone stores the whole video or nothing, and what a delivery  *)
(* reports is there.  A decoder that ends early is excepted, as the code   *)
(* does not notice it, and deliveries that ran at once.                    *)
OutputIsWhole ==
    /\ shared = {} /\ ~blind => output \in {None, "whole"}
    /\ \A d \in Deliveries : stage[d] = "completed" => output # None

(* Nothing is left on the disk: the directory of an attempt outlives it    *)
(* only in a crash, and that of a render job until its next delivery.      *)
NothingLeftBehind ==
    /\ dirs \subseteq died \cup {a \in Attempts : Optimization!Active(a)}
    /\ work # None => killed \/ \E d \in Deliveries : Job!Active(d)
=============================================================================
