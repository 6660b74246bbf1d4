------------------------- MODULE AuthoritativeCall --------------------------
(***************************************************************************)
(* What a single-flight call promises, whatever happens to its lock and to *)
(* Redis ("Advisory single-flight", CACHING.md): sharing work may save     *)
(* computations but never changes what a caller may see.  A call ends with *)
(* a value that some call's authoritative work produced, with the error of *)
(* its OWN work, or by being interrupted, and it ends once.                *)
(***************************************************************************)
CONSTANTS
    Calls,      \* the calls made for one cache key
    NoCall

VARIABLES
    produced,   \* calls whose authoritative work succeeded
    failed,     \* calls whose authoritative work raised
    ending,     \* how each call ended
    answer      \* the call whose work the answer is

avars == <<produced, failed, ending, answer>>

Endings == {"none", "value", "raised", "interrupted"}

AInit ==
    /\ produced = {}
    /\ failed = {}
    /\ ending = [c \in Calls |-> "none"]
    /\ answer = [c \in Calls |-> NoCall]

(* The authoritative work of a call that has not ended comes to an end.    *)
Produce(c) ==
    /\ ending[c] = "none" /\ c \notin produced \cup failed
    /\ produced' = produced \cup {c}
    /\ UNCHANGED <<failed, ending, answer>>

FailWork(c) ==
    /\ ending[c] = "none" /\ c \notin produced \cup failed
    /\ failed' = failed \cup {c}
    /\ UNCHANGED <<produced, ending, answer>>

(* The three ways to end.                                                  *)
Answer(c) ==
    /\ ending[c] = "none"
    /\ \E v \in produced : answer' = [answer EXCEPT ![c] = v]
    /\ ending' = [ending EXCEPT ![c] = "value"]
    /\ UNCHANGED <<produced, failed>>

Raise(c) ==
    /\ ending[c] = "none"
    /\ c \notin produced
    /\ failed' = failed \cup {c}
    /\ ending' = [ending EXCEPT ![c] = "raised"]
    /\ UNCHANGED <<produced, answer>>

Interrupt(c) ==
    /\ ending[c] = "none"
    /\ ending' = [ending EXCEPT ![c] = "interrupted"]
    /\ UNCHANGED <<produced, failed, answer>>

ANext ==
    \E c \in Calls :
        Produce(c) \/ FailWork(c) \/ Answer(c) \/ Raise(c) \/ Interrupt(c)

ASpec == AInit /\ [][ANext]_avars
=============================================================================
