----------------------------- MODULE ShotGraph ------------------------------
(***************************************************************************)
(* The graph of one video in Kuzu, written by runs of                      *)
(* IngestionService.ingest_video (src/kuvox_ai/modules/ingestion/          *)
(* service.py and kuzu_writer.py): retries of a failed run, a run after a  *)
(* crash, a later re-ingestion, and two runs at once when RabbitMQ         *)
(* redelivers a message whose handler is still working.                    *)
(*                                                                         *)
(* There is no transaction: each Cypher statement is an action.  A shot is *)
(* its index, from which, with the medium, shot_id_for derives its id, so  *)
(* two runs use the same ids.  A node is the run that created it.          *)
(***************************************************************************)
EXTENDS Naturals

CONSTANTS
    Runs,       \* runs of ingest_video for the medium
    NoRun,
    MaxShots    \* bound on the shots of a video

ASSUME GraphAssumption == NoRun \notin Runs /\ MaxShots \in Nat \ {0}

Shots == 1..MaxShots

VARIABLES
    pc,         \* the statement each run executes next
    shots,      \* the number of shots each run detected
    at,         \* the shot each run writes
    video,      \* the run that last wrote the Video node, or NoRun
    nodes,      \* the run that created each Shot node, or NoRun
    belongs,    \* shots with a BELONGS_TO relationship
    chained,    \* shots with a NEXT relationship to the following one
    latest,     \* history: the run that began last
    overlapped  \* history: runs that were active together with another one

vars == <<pc, shots, at, video, nodes, belongs, chained, latest, overlapped>>

Statements == {"unlink", "unchain", "clear", "video", "create", "belong", "chain"}

Stages == Statements \cup {"idle", "detect", "written", "failed"}

Active(r) == pc[r] \in Statements \cup {"detect"}

TypeOK ==
    /\ pc \in [Runs -> Stages]
    /\ shots \in [Runs -> Shots]
    /\ at \in [Runs -> Shots]
    /\ \A r \in Runs : pc[r] \in {"create", "belong", "chain"} => at[r] <= shots[r]
    /\ \A r \in Runs : pc[r] = "chain" => at[r] > 1
    /\ video \in Runs \cup {NoRun}
    /\ nodes \in [Shots -> Runs \cup {NoRun}]
    /\ belongs \subseteq Shots
    /\ \A i \in belongs : nodes[i] # NoRun
    /\ chained \subseteq 1..(MaxShots - 1)
    /\ \A i \in chained : nodes[i] # NoRun /\ nodes[i + 1] # NoRun
    /\ latest \in Runs \cup {NoRun}
    /\ overlapped \subseteq Runs

Init ==
    /\ pc = [r \in Runs |-> "idle"]
    /\ shots = [r \in Runs |-> 1]
    /\ at = [r \in Runs |-> 1]
    /\ video = NoRun
    /\ nodes = [i \in Shots |-> NoRun]
    /\ belongs = {}
    /\ chained = {}
    /\ latest = NoRun
    /\ overlapped = {}

-----------------------------------------------------------------------------
graph == <<video, nodes, belongs, chained>>
history == <<latest, overlapped>>

Goto(r, stage) == pc' = [pc EXCEPT ![r] = stage]

(* ingest() starts; the runs active together with it overlap.              *)
Begin(r) ==
    /\ pc[r] = "idle"
    /\ Goto(r, "detect")
    /\ latest' = r
    /\ LET others == {a \in Runs : Active(a)}
       IN  overlapped' = IF others = {} THEN overlapped ELSE overlapped \cup others \cup {r}
    /\ UNCHANGED <<graph, shots, at>>

(* Download, probe, and shot detection, which after a timeout falls back   *)
(* to a single shot: the number of shots may differ from run to run.       *)
Detect(r) ==
    /\ pc[r] = "detect"
    /\ \E n \in Shots : shots' = [shots EXCEPT ![r] = n]
    /\ Goto(r, "unlink")
    /\ UNCHANGED <<graph, history, at>>

(* _delete_existing_shots: all BELONGS_TO, all NEXT, all Shot nodes.  Kuzu *)
(* refuses to delete a node that has relationships.                        *)
Unlink(r) ==
    /\ pc[r] = "unlink"
    /\ belongs' = {}
    /\ Goto(r, "unchain")
    /\ UNCHANGED <<video, nodes, chained, history, shots, at>>

(* Mutant: NEXT relationships of shots about to disappear are kept.        *)
UnchainLinked(r) ==
    /\ pc[r] = "unchain"
    /\ chained' = {i \in chained : i >= shots[r]}
    /\ Goto(r, "clear")
    /\ UNCHANGED <<video, nodes, belongs, history, shots, at>>

Unchain(r) ==
    /\ pc[r] = "unchain"
    /\ chained' = {}
    /\ Goto(r, "clear")
    /\ UNCHANGED <<video, nodes, belongs, history, shots, at>>

(* Mutant: only the shots about to be written are deleted.                 *)
ClearRewritten(r) ==
    /\ pc[r] = "clear"
    /\ IF belongs = {} /\ chained = {}
       THEN /\ nodes' = [i \in Shots |-> IF i <= shots[r] THEN NoRun ELSE nodes[i]]
            /\ Goto(r, "video")
       ELSE Goto(r, "failed") /\ UNCHANGED nodes
    /\ UNCHANGED <<video, belongs, chained, history, shots, at>>

Clear(r) ==
    /\ pc[r] = "clear"
    /\ IF belongs = {} /\ chained = {}
       THEN nodes' = [i \in Shots |-> NoRun] /\ Goto(r, "video")
       ELSE Goto(r, "failed") /\ UNCHANGED nodes
    /\ UNCHANGED <<video, belongs, chained, history, shots, at>>

(* _upsert_video: MERGE.                                                   *)
UpsertVideo(r) ==
    /\ pc[r] = "video"
    /\ video' = r
    /\ Goto(r, "create")
    /\ at' = [at EXCEPT ![r] = 1]
    /\ UNCHANGED <<nodes, belongs, chained, history, shots>>

(* For each shot: CREATE the node, which its primary key may refuse; MATCH *)
(* it and the video and CREATE BELONGS_TO; MATCH the previous shot and     *)
(* CREATE NEXT.  A MATCH without a match creates nothing.                  *)
CreateShot(r) ==
    /\ pc[r] = "create"
    /\ IF nodes[at[r]] = NoRun
       THEN nodes' = [nodes EXCEPT ![at[r]] = r] /\ Goto(r, "belong")
       ELSE Goto(r, "failed") /\ UNCHANGED nodes
    /\ UNCHANGED <<video, belongs, chained, history, shots, at>>

(* Mutant: one shot too many.                                              *)
ContinueOnePast(r) ==
    IF at[r] <= shots[r]
    THEN Goto(r, "create") /\ at' = [at EXCEPT ![r] = @ + 1]
    ELSE Goto(r, "written") /\ UNCHANGED at

Continue(r) ==
    IF at[r] < shots[r]
    THEN Goto(r, "create") /\ at' = [at EXCEPT ![r] = @ + 1]
    ELSE Goto(r, "written") /\ UNCHANGED at

Belong(r) ==
    /\ pc[r] = "belong"
    /\ belongs' = IF nodes[at[r]] # NoRun THEN belongs \cup {at[r]} ELSE belongs
    /\ IF at[r] > 1 THEN Goto(r, "chain") /\ UNCHANGED at ELSE Continue(r)
    /\ UNCHANGED <<video, nodes, chained, history, shots>>

Chain(r) ==
    /\ pc[r] = "chain"
    /\ chained' = IF NoRun \notin {nodes[at[r] - 1], nodes[at[r]]}
                  THEN chained \cup {at[r] - 1} ELSE chained
    /\ Continue(r)
    /\ UNCHANGED <<video, nodes, belongs, history, shots>>

(* An exception, or the death of the process, between two statements.      *)
Fail(r) ==
    /\ Active(r)
    /\ Goto(r, "failed")
    /\ UNCHANGED <<graph, history, shots, at>>

Next ==
    \E r \in Runs :
        \/ Begin(r) \/ Detect(r) \/ Unlink(r) \/ Unchain(r) \/ Clear(r)
        \/ UpsertVideo(r) \/ CreateShot(r) \/ Belong(r) \/ Chain(r) \/ Fail(r)

Spec == Init /\ [][Next]_vars

-----------------------------------------------------------------------------
(* A run that is alone and writes the graph to the end leaves exactly its  *)
(* own shots there, all of them linked to the video and chained in order,  *)
(* whatever earlier runs left behind when they failed, crashed or ran      *)
(* together.                                                               *)
GraphIsOfLatest ==
    \A r \in Runs :
        r = latest /\ pc[r] = "written" /\ r \notin overlapped =>
            /\ video = r
            /\ nodes = [i \in Shots |-> IF i <= shots[r] THEN r ELSE NoRun]
            /\ belongs = 1..shots[r]
            /\ chained = 1..(shots[r] - 1)

(* Leftovers never make Kuzu refuse a run that is alone, so a retry can    *)
(* always succeed.                                                         *)
AloneIsNeverRefused ==
    [][\A r \in Runs :
          (Clear(r) \/ CreateShot(r)) /\ r \notin overlapped => pc'[r] # "failed"]_vars
=============================================================================
