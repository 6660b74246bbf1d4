---------------------------- MODULE SingleFlight ----------------------------
(***************************************************************************)
(* Concurrent calls of SingleFlight.run (src/kuvox_ai/single_flight.py)    *)
(* for one cache key, over the Redis lock of RedisLockStore                *)
(* (src/kuvox_ai/distributed_lock.py) and a cache entry in Redis.  The     *)
(* calls may run in one process or in several.                             *)
(*                                                                         *)
(* Each action is one await of the code: a Redis command takes effect and  *)
(* its reply is processed.  What the caller learned is used by its NEXT    *)
(* action, when it may be stale.  A command that fails, times out or whose *)
(* task is cancelled may nevertheless have been executed by Redis.         *)
(*                                                                         *)
(* Time is abstracted: the lock may expire and a follower's deadline may   *)
(* pass at any moment.  The owner token of a lock is random and fresh; a   *)
(* call stores at most one (it stops acquiring once it holds the lock or   *)
(* fails), so the token is represented by the call that drew it.           *)
(***************************************************************************)
EXTENDS FiniteSets, Naturals

CONSTANTS
    Calls,      \* calls of run() with the same cache key
    NoCall

ASSUME CallsAssumption == NoCall \notin Calls

VARIABLES
    pc,         \* where each call is suspended
    owner,      \* the lock in Redis: the call whose token it holds, or NoCall
    cached,     \* the cache entry: the call that computed it, or NoCall
    leaders,    \* calls inside run()'s try/finally with an ACQUIRED handle: those
                \* SINGLE_FLIGHT_HELD_LOCKS counts
    produced,   \* calls whose authoritative() returned
    failed,     \* calls whose authoritative() raised
    ending,     \* how each call is ending or has ended
    answer,     \* the computation each call returns
    stores,     \* history: calls whose value was written to the cache
    clean,      \* history: no event after which CACHING.md expects duplicate work
    disturbed   \* history: calls whose acquire or release failed or was cut short

vars == <<pc, owner, cached, leaders, produced, failed, ending, answer,
          stores, clean, disturbed>>

Stages == {"idle", "acquire", "recheck", "work", "write", "release",
           "wait", "poll", "check", "done"}

LeaderStages == {"recheck", "work", "write", "release"}

Endings == {"none", "value", "raised", "interrupted"}

TypeOK ==
    /\ pc \in [Calls -> Stages]
    /\ owner \in Calls \cup {NoCall}
    /\ cached \in Calls \cup {NoCall}
    /\ leaders \subseteq {c \in Calls : pc[c] \in LeaderStages}
    /\ produced \subseteq Calls
    /\ failed \subseteq Calls
    /\ ending \in [Calls -> Endings]
    /\ answer \in [Calls -> Calls \cup {NoCall}]
    /\ stores \subseteq Calls
    /\ clean \in BOOLEAN
    /\ disturbed \subseteq Calls

Init ==
    /\ pc = [c \in Calls |-> "idle"]
    /\ owner = NoCall
    /\ cached = NoCall
    /\ leaders = {}
    /\ produced = {}
    /\ failed = {}
    /\ ending = [c \in Calls |-> "none"]
    /\ answer = [c \in Calls |-> NoCall]
    /\ stores = {}
    /\ clean = TRUE
    /\ disturbed = {}

-----------------------------------------------------------------------------
(* Groups of variables, and control.                                       *)

lock == <<owner, disturbed>>
entry == <<cached, stores>>
outcome == <<produced, failed>>
result == <<ending, answer>>

Goto(c, stage) == pc' = [pc EXCEPT ![c] = stage]

(* Mutant: no finally, only a value leads to the release.                   *)
LeaveWithoutFinally(c, e, v) ==
    /\ Goto(c, IF c \in leaders /\ e = "value" THEN "release" ELSE "done")
    /\ ending' = [ending EXCEPT ![c] = e]
    /\ answer' = [answer EXCEPT ![c] = v]

(* The call leaves with ending e and value v; a leader still has the       *)
(* finally block to run.                                                   *)
Leave(c, e, v) ==
    /\ Goto(c, IF c \in leaders THEN "release" ELSE "done")
    /\ ending' = [ending EXCEPT ![c] = e]
    /\ answer' = [answer EXCEPT ![c] = v]

(* The commands of the lock store: SET NX PX with a fresh token, and the   *)
(* compare-and-delete script of release.                                   *)
SetIfAbsent(c) == owner = NoCall /\ owner' = c

(* Mutant: a plain DEL instead of the script.                               *)
DeleteAny(c) == owner' = NoCall

CompareAndDelete(c) == owner' = IF owner = c THEN NoCall ELSE owner

Store(c) == cached' = c /\ stores' = stores \cup {c}

(* The command c awaits was not executed by Redis, or it was but c will    *)
(* not learn it.                                                           *)
PerhapsExecuted(c) ==
    \/ UNCHANGED <<owner, entry>>
    \/ pc[c] = "acquire" /\ SetIfAbsent(c) /\ UNCHANGED entry
    \/ pc[c] = "release" /\ CompareAndDelete(c) /\ UNCHANGED entry
    \/ pc[c] = "write" /\ Store(c) /\ UNCHANGED owner

-----------------------------------------------------------------------------
(* acquire(): ACQUIRED or CONTENDED; ERROR and BYPASS fall back to         *)
(* authoritative work without the lock.                                    *)
Begin(c) ==
    /\ pc[c] = "idle"
    /\ Goto(c, "acquire")
    /\ UNCHANGED <<lock, entry, outcome, result, leaders, clean>>

Acquire(c) ==
    /\ pc[c] = "acquire"
    /\ \/ /\ SetIfAbsent(c)
          /\ leaders' = leaders \cup {c}
          /\ Goto(c, "recheck")
       \/ /\ owner # NoCall
          /\ Goto(c, "wait")
          /\ UNCHANGED <<owner, leaders>>
    /\ UNCHANGED <<entry, outcome, result, clean, disturbed>>

AcquireFails(c) ==
    /\ pc[c] = "acquire"
    /\ PerhapsExecuted(c)
    /\ Goto(c, "work")
    /\ clean' = FALSE
    /\ disturbed' = disturbed \cup {c}
    /\ UNCHANGED <<outcome, result, leaders>>

(* Mutant: the leader computes without looking at the cache.                *)
RecheckSkipped(c) ==
    /\ pc[c] = "recheck"
    /\ Goto(c, "work")
    /\ UNCHANGED <<lock, entry, outcome, result, leaders, clean>>

(* The leader looks at the cache again before it computes.                 *)
Recheck(c) ==
    /\ pc[c] = "recheck"
    /\ IF cached # NoCall
       THEN Leave(c, "value", cached)
       ELSE Goto(c, "work") /\ UNCHANGED result
    /\ UNCHANGED <<lock, entry, outcome, leaders, clean>>

(* The probe of the leader or of a follower reports FAILURE, or is_locked  *)
(* returns None: authoritative work.                                       *)
LookupFails(c) ==
    /\ pc[c] \in {"recheck", "poll", "check"}
    /\ Goto(c, "work")
    /\ clean' = FALSE
    /\ UNCHANGED <<lock, entry, outcome, result, leaders>>

(* Mutant: the outcome of failed work is cached, too.                       *)
ComputeStoresFailure(c) ==
    /\ pc[c] = "work"
    /\ \/ /\ produced' = produced \cup {c}
          /\ Goto(c, "write")
          /\ UNCHANGED <<failed, result, entry>>
       \/ /\ failed' = failed \cup {c}
          /\ Leave(c, "raised", NoCall)
          /\ Store(c)
          /\ UNCHANGED produced
    /\ UNCHANGED <<lock, leaders, clean>>

(* authoritative(): the work itself, and the best-effort cache write that  *)
(* the callers of run() put at its end.                                    *)
Compute(c) ==
    /\ pc[c] = "work"
    /\ \/ /\ produced' = produced \cup {c}
          /\ Goto(c, "write")
          /\ UNCHANGED <<failed, result>>
       \/ /\ failed' = failed \cup {c}
          /\ Leave(c, "raised", NoCall)
          /\ UNCHANGED produced
    /\ UNCHANGED <<lock, entry, leaders, clean>>

Write(c) ==
    /\ pc[c] = "write"
    /\ Store(c)
    /\ Leave(c, "value", c)
    /\ UNCHANGED <<lock, outcome, leaders, clean>>

WriteFails(c) ==
    /\ pc[c] = "write"
    /\ PerhapsExecuted(c)
    /\ Leave(c, "value", c)
    /\ clean' = FALSE
    /\ UNCHANGED <<outcome, leaders, disturbed>>

(* The finally block of the leader; the release is best effort.            *)
Release(c) ==
    /\ pc[c] = "release"
    /\ CompareAndDelete(c)
    /\ leaders' = leaders \ {c}
    /\ Goto(c, "done")
    /\ UNCHANGED <<entry, outcome, result, clean, disturbed>>

(* Mutant: the gauge is not decremented when the release fails.             *)
ReleaseFailsCounted(c) ==
    /\ pc[c] = "release"
    /\ PerhapsExecuted(c)
    /\ Goto(c, "done")
    /\ disturbed' = disturbed \cup {c}
    /\ UNCHANGED <<outcome, result, clean, leaders>>

ReleaseFails(c) ==
    /\ pc[c] = "release"
    /\ PerhapsExecuted(c)
    /\ leaders' = leaders \ {c}
    /\ Goto(c, "done")
    /\ disturbed' = disturbed \cup {c}
    /\ UNCHANGED <<outcome, result, clean>>

-----------------------------------------------------------------------------
(* Mutant: the deadline counts only once the lock is free.                  *)
TimeoutIfFree(c) ==
    /\ pc[c] = "wait"
    /\ owner = NoCall
    /\ Goto(c, "work")
    /\ clean' = FALSE
    /\ UNCHANGED <<lock, entry, outcome, result, leaders>>

(* The follower: sleep, probe the cache, ask whether the lock is still     *)
(* held, until the deadline.                                               *)
(* monotonic() >= deadline: the while loop's else branch.                  *)
Timeout(c) ==
    /\ pc[c] = "wait"
    /\ Goto(c, "work")
    /\ clean' = FALSE
    /\ UNCHANGED <<lock, entry, outcome, result, leaders>>

Sleep(c) ==
    /\ pc[c] = "wait"
    /\ Goto(c, "poll")
    /\ UNCHANGED <<lock, entry, outcome, result, leaders, clean>>

Poll(c) ==
    /\ pc[c] = "poll"
    /\ IF cached # NoCall
       THEN Leave(c, "value", cached)
       ELSE Goto(c, "check") /\ UNCHANGED result
    /\ UNCHANGED <<lock, entry, outcome, leaders, clean>>

Check(c) ==
    /\ pc[c] = "check"
    /\ Goto(c, IF owner = NoCall THEN "acquire" ELSE "wait")
    /\ UNCHANGED <<lock, entry, outcome, result, leaders, clean>>

-----------------------------------------------------------------------------
(* Interruptions.  CancelledError is raised at the await where the call is *)
(* suspended; a leader still runs its finally block, unless that is where  *)
(* it was cancelled.                                                       *)
Cancel(c) ==
    /\ pc[c] \notin {"idle", "done"}
    /\ PerhapsExecuted(c)
    /\ IF pc[c] = "release"
       THEN /\ Goto(c, "done")
            /\ leaders' = leaders \ {c}
            /\ ending' = [ending EXCEPT ![c] = "interrupted"]
            /\ answer' = [answer EXCEPT ![c] = NoCall]
       ELSE Leave(c, "interrupted", NoCall) /\ UNCHANGED leaders
    /\ disturbed' = IF pc[c] \in {"acquire", "release"}
                    THEN disturbed \cup {c} ELSE disturbed
    /\ UNCHANGED <<outcome, clean>>

(* The process of the call dies.                                           *)
Crash(c) ==
    /\ pc[c] \notin {"idle", "done"}
    /\ PerhapsExecuted(c)
    /\ Goto(c, "done")
    /\ leaders' = leaders \ {c}
    /\ ending' = [ending EXCEPT ![c] = "interrupted"]
    /\ answer' = [answer EXCEPT ![c] = NoCall]
    /\ disturbed' = disturbed \cup {c}
    /\ UNCHANGED <<outcome, clean>>

(* The lock's PX time to live elapses.                                     *)
LockExpires ==
    /\ owner # NoCall
    /\ owner' = NoCall
    /\ clean' = FALSE
    /\ UNCHANGED <<pc, entry, outcome, result, leaders, disturbed>>

(* The cache entry expires, or Redis evicts it.                            *)
EntryExpires ==
    /\ cached # NoCall
    /\ cached' = NoCall
    /\ clean' = FALSE
    /\ UNCHANGED <<pc, lock, outcome, result, leaders, stores>>

Proceed(c) ==
    \/ Acquire(c) \/ AcquireFails(c) \/ Recheck(c) \/ LookupFails(c)
    \/ Compute(c) \/ Write(c) \/ WriteFails(c) \/ Release(c) \/ ReleaseFails(c)
    \/ Sleep(c) \/ Timeout(c) \/ Poll(c) \/ Check(c)

Next ==
    \/ \E c \in Calls : Begin(c) \/ Proceed(c) \/ Cancel(c) \/ Crash(c)
    \/ LockExpires
    \/ EntryExpires

(* Awaited operations end (Redis commands and the work itself), and the    *)
(* clock reaches the deadline of a call that keeps returning to its loop.  *)
Fairness == \A c \in Calls : WF_vars(Proceed(c)) /\ SF_vars(Timeout(c))

Spec == Init /\ [][Next]_vars /\ Fairness

-----------------------------------------------------------------------------
(* Sharing works: as long as nothing happened that allows duplicate work   *)
(* (a fallback, an expiry), at most one call ever fills the cache, even    *)
(* when leaders raise, are cancelled or crash and others take over.        *)
StoredOnce == clean => \A c, d \in stores : c = d

(* A lock disappears while its owner is running only by expiry; whatever   *)
(* another call does, including releasing a lock it has lost, it stays.    *)
LockTakenOnlyByOwner ==
    [][\A c \in Calls : owner = c /\ owner' # c =>
          owner' = NoCall /\ (pc[c] = "release" \/ pc' = pc)]_vars

(* Every way out of the leader section releases: a finished call still     *)
(* owns the lock only if its acquire or release was disturbed.             *)
NoOrphanLock == \A c \in Calls : pc[c] = "done" /\ owner = c => c \in disturbed

(* Every call ends, whatever happens to the leader, the lock and Redis.    *)
EveryCallEnds == \A c \in Calls : pc[c] = "acquire" ~> pc[c] = "done"

(* Results are authoritative: run() implements AuthoritativeCall.          *)
Abstract == INSTANCE AuthoritativeCall WITH
    ending <- [c \in Calls |-> IF pc[c] = "done" THEN ending[c] ELSE "none"],
    answer <- [c \in Calls |-> IF pc[c] = "done" THEN answer[c] ELSE NoCall]

ImplementsAuthoritativeCall == Abstract!ASpec
=============================================================================
