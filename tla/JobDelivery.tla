---------------------------- MODULE JobDelivery -----------------------------
(***************************************************************************)
(* How the jobs of one RabbitMQ queue are worked off: the handlers that    *)
(* main.py and the stand-alone workers register                            *)
(* (src/kuvox_ai/workers/*_worker.py, handle_message_body inside           *)
(* message.process(requeue=True)), and the retry and dead-letter queues of *)
(* src/kuvox_ai/infrastructure/rabbitmq_client.py.                         *)
(*                                                                         *)
(* A handler is one prefetch slot of one consumer; the consumers may live  *)
(* in several processes.  A message is told apart by its job and by its    *)
(* x-kuvox-attempt header, so a queue counts copies of such pairs.  A      *)
(* publish that raises may nevertheless have reached the broker.  When a   *)
(* connection drops, the broker redelivers the handler's message while the *)
(* handler, which is not told, goes on.                                    *)
(***************************************************************************)
EXTENDS Naturals, FiniteSets

CONSTANTS
    Jobs,           \* jobs that other services submit to this queue
    Invalid,        \* jobs whose body the request model does not validate
    NoCopy,
    Handlers,
    AnnouncesStart, \* the handler publishes a started event (rendering)
    MaxAttempts,    \* rabbitmq_retry_attempts
    NumDelays,      \* the number of rabbitmq_retry_delays_seconds: retry queues
    MaxFaults       \* bound on the faults of a behaviour

ASSUME DeliveryAssumption ==
    /\ Invalid \subseteq Jobs
    /\ AnnouncesStart \in BOOLEAN
    /\ MaxAttempts \in Nat /\ NumDelays \in Nat /\ MaxFaults \in Nat

Copies == [job : Jobs, attempt : 0..MaxAttempts]

ASSUME NoCopyAssumption == NoCopy \notin Copies

VARIABLES
    submitted,  \* jobs that were submitted
    queue,      \* the main queue: how many copies wait in it
    waiting,    \* the retry queues, together
    dead,       \* the dead-letter queue: which copies are in it
    stage,      \* what each handler does next
    copy,       \* the copy each handler works on
    delivered,  \* handlers whose delivery the broker still counts as unacked
    completed,  \* jobs for which a completed event was published
    failed,     \* jobs for which a failed event was published
    faults,     \* number of faults so far
    disturbed   \* history: jobs that suffered a fault

vars == <<submitted, queue, waiting, dead, stage, copy, delivered,
          completed, failed, faults, disturbed>>

Stages == {"idle", "start", "run", "retry", "failed", "dlq", "completed", "ack"}

Publishing == {"start", "retry", "failed", "dlq", "completed"}

TypeOK ==
    /\ submitted \subseteq Jobs
    /\ queue \in [Copies -> Nat]
    /\ waiting \in [Copies -> Nat]
    /\ dead \subseteq Copies
    /\ stage \in [Handlers -> Stages]
    /\ copy \in [Handlers -> Copies \cup {NoCopy}]
    /\ \A h \in Handlers : stage[h] = "idle" <=> copy[h] = NoCopy
    /\ delivered \subseteq {h \in Handlers : stage[h] # "idle"}
    /\ completed \subseteq Jobs
    /\ failed \subseteq Jobs
    /\ faults \in 0..MaxFaults
    /\ disturbed \subseteq Jobs

Init ==
    /\ submitted = {}
    /\ queue = [c \in Copies |-> 0]
    /\ waiting = [c \in Copies |-> 0]
    /\ dead = {}
    /\ stage = [h \in Handlers |-> "idle"]
    /\ copy = [h \in Handlers |-> NoCopy]
    /\ delivered = {}
    /\ completed = {}
    /\ failed = {}
    /\ faults = 0
    /\ disturbed = {}

-----------------------------------------------------------------------------
(* Groups of variables, and control.                                       *)

broker == <<queue, waiting, dead>>
events == <<completed, failed>>
history == <<submitted, faults, disturbed>>

Goto(h, s) == stage' = [stage EXCEPT ![h] = s]

Put(c) == queue' = [queue EXCEPT ![c] = @ + 1]

Finished(h) ==
    /\ Goto(h, "idle")
    /\ copy' = [copy EXCEPT ![h] = NoCopy]

(* Mutant: the delivery is never settled.                                   *)
SettledKeepsDelivery(h) == Finished(h) /\ UNCHANGED delivered

(* The broker forgets the delivery, or puts the copy back into the queue;  *)
(* it does nothing for a delivery that it has already taken back.          *)
Settled(h) ==
    /\ Finished(h)
    /\ delivered' = delivered \ {h}

(* Mutant: message.process() without requeue.                               *)
RejectedWithoutRequeue(h) == Settled(h) /\ UNCHANGED queue

Rejected(h) ==
    /\ Settled(h)
    /\ IF h \in delivered THEN Put(copy[h]) ELSE UNCHANGED queue

Fault(h) ==
    /\ faults < MaxFaults
    /\ faults' = faults + 1
    /\ disturbed' = disturbed \cup {copy[h].job}
    /\ UNCHANGED submitted

-----------------------------------------------------------------------------
(* Mutant: the attempt is not incremented.                                  *)
NextCopyUncounted(h) == copy[h]

(* What reaches the broker.  A retry goes to the queue <name>.retry.<n>;   *)
(* no queue is bound for n > NumDelays, and the exchange drops it.         *)
NextCopy(h) == [copy[h] EXCEPT !.attempt = @ + 1]

SendRetry(h) ==
    /\ waiting' = IF copy[h].attempt + 1 <= NumDelays
                  THEN [waiting EXCEPT ![NextCopy(h)] = @ + 1] ELSE waiting
    /\ UNCHANGED <<dead, events>>

SendDlq(h) == dead' = dead \cup {copy[h]} /\ UNCHANGED <<waiting, events>>

SendFailed(h) ==
    /\ failed' = failed \cup {copy[h].job}
    /\ UNCHANGED <<waiting, dead, completed>>

SendCompleted(h) ==
    /\ completed' = completed \cup {copy[h].job}
    /\ UNCHANGED <<waiting, dead, failed>>

PerhapsSent(h) ==
    \/ UNCHANGED <<waiting, dead, events>>
    \/ stage[h] = "retry" /\ SendRetry(h)
    \/ stage[h] = "dlq" /\ SendDlq(h)
    \/ stage[h] = "failed" /\ SendFailed(h)
    \/ stage[h] = "completed" /\ SendCompleted(h)

-----------------------------------------------------------------------------
(* Another service submits a job: a message without an attempt header.     *)
Submit(j) ==
    /\ j \notin submitted
    /\ submitted' = submitted \cup {j}
    /\ Put([job |-> j, attempt |-> 0])
    /\ UNCHANGED <<waiting, dead, stage, copy, delivered, events, faults, disturbed>>

(* Mutant: the message stays visible while it is handled.                   *)
DeliverWithoutHolding(h, c) ==
    /\ stage[h] = "idle" /\ queue[c] > 0
    /\ copy' = [copy EXCEPT ![h] = c]
    /\ delivered' = delivered \cup {h}
    /\ Goto(h, IF c.job \in Invalid THEN "dlq"
               ELSE IF AnnouncesStart THEN "start" ELSE "run")
    /\ UNCHANGED <<broker, events, history>>

(* The broker delivers a copy and the handler validates its body.          *)
Deliver(h, c) ==
    /\ stage[h] = "idle" /\ queue[c] > 0
    /\ queue' = [queue EXCEPT ![c] = @ - 1]
    /\ copy' = [copy EXCEPT ![h] = c]
    /\ delivered' = delivered \cup {h}
    /\ Goto(h, IF c.job \in Invalid THEN "dlq"
               ELSE IF AnnouncesStart THEN "start" ELSE "run")
    /\ UNCHANGED <<waiting, dead, events, history>>

PublishStarted(h) ==
    /\ stage[h] = "start"
    /\ Goto(h, "run")
    /\ UNCHANGED <<broker, copy, delivered, events, history>>

(* The service's ingest, optimize or render returns, or raises.            *)
Succeed(h) ==
    /\ stage[h] = "run"
    /\ Goto(h, "completed")
    /\ UNCHANGED <<broker, copy, delivered, events, history>>

(* Mutant: straight to the DLQ, no failed event.                            *)
FailDeadLettersFirst(h) ==
    /\ stage[h] = "run"
    /\ Goto(h, IF copy[h].attempt < MaxAttempts THEN "retry" ELSE "dlq")
    /\ UNCHANGED <<broker, copy, delivered, events, history>>

Fail(h) ==
    /\ stage[h] = "run"
    /\ Goto(h, IF copy[h].attempt < MaxAttempts THEN "retry" ELSE "failed")
    /\ UNCHANGED <<broker, copy, delivered, events, history>>

(* Mutant: the return after the retry is missing.                           *)
PublishRetryFallsThrough(h) ==
    /\ stage[h] = "retry"
    /\ SendRetry(h)
    /\ Goto(h, "failed")
    /\ UNCHANGED <<queue, copy, delivered, history>>

PublishRetry(h) ==
    /\ stage[h] = "retry"
    /\ SendRetry(h)
    /\ Goto(h, "ack")
    /\ UNCHANGED <<queue, copy, delivered, history>>

PublishFailed(h) ==
    /\ stage[h] = "failed"
    /\ SendFailed(h)
    /\ Goto(h, "dlq")
    /\ UNCHANGED <<queue, copy, delivered, history>>

PublishDlq(h) ==
    /\ stage[h] = "dlq"
    /\ SendDlq(h)
    /\ Goto(h, "ack")
    /\ UNCHANGED <<queue, copy, delivered, history>>

PublishCompleted(h) ==
    /\ stage[h] = "completed"
    /\ SendCompleted(h)
    /\ Goto(h, "ack")
    /\ UNCHANGED <<queue, copy, delivered, history>>

(* process() acknowledges when the handler returns.  The acknowledgement   *)
(* of a delivery that was taken back fails, to no effect.                  *)
Ack(h) ==
    /\ stage[h] = "ack"
    /\ Settled(h)
    /\ UNCHANGED <<broker, events, history>>

(* The delay of a retry queue has passed: the copy is dead-lettered to the *)
(* main queue.                                                             *)
RetryExpires(c) ==
    /\ waiting[c] > 0
    /\ waiting' = [waiting EXCEPT ![c] = @ - 1]
    /\ Put(c)
    /\ UNCHANGED <<dead, stage, copy, delivered, events, history>>

-----------------------------------------------------------------------------
(* Faults.  A publish raises: process() rejects the message to the queue.  *)
PublishRaises(h) ==
    /\ stage[h] \in Publishing
    /\ PerhapsSent(h)
    /\ Rejected(h)
    /\ Fault(h)

(* The process of the handler dies, or cancels it at shutdown.             *)
Crash(h) ==
    /\ stage[h] # "idle"
    /\ Rejected(h)
    /\ Fault(h)
    /\ UNCHANGED <<waiting, dead, events>>

(* The connection drops under a handler.                                   *)
Drop(h) ==
    /\ h \in delivered
    /\ delivered' = delivered \ {h}
    /\ Put(copy[h])
    /\ Fault(h)
    /\ UNCHANGED <<waiting, dead, stage, copy, events>>

Work(h) ==
    \/ PublishStarted(h) \/ Succeed(h) \/ Fail(h) \/ PublishRetry(h)
    \/ PublishFailed(h) \/ PublishDlq(h) \/ PublishCompleted(h) \/ Ack(h)

Next ==
    \/ \E j \in Jobs : Submit(j)
    \/ \E h \in Handlers : Work(h) \/ PublishRaises(h) \/ Crash(h) \/ Drop(h)
    \/ \E h \in Handlers, c \in Copies : Deliver(h, c)
    \/ \E c \in Copies : RetryExpires(c)

(* All that a handler does but the work of its service: whether ingest,    *)
(* optimize or render ever returns is not known.                           *)
Proceed(h) == stage[h] # "run" /\ Work(h)

(* Handlers publish and acknowledge, TTLs elapse, and the broker delivers  *)
(* to consumers.  No service needs to return: a render may hang.           *)
Fairness ==
    /\ \A h \in Handlers : WF_vars(Proceed(h))
    /\ \A c \in Copies :
           WF_vars(RetryExpires(c)) /\ WF_vars(\E h \in Handlers : Deliver(h, c))

Spec == Init /\ [][Next]_vars /\ Fairness

-----------------------------------------------------------------------------
InBroker(c) ==
    \/ queue[c] > 0 \/ waiting[c] > 0 \/ c \in dead
    \/ \E h \in delivered : copy[h] = c

(* No job is lost: until its completed event is published, the broker has  *)
(* a message of it, in some queue or unacknowledged.  It holds only when   *)
(* every attempt has a retry queue.                                        *)
NoJobLost ==
    \A j \in submitted : j \in completed \/ \E c \in Copies : c.job = j /\ InBroker(c)

(* A job that was valid is dead-lettered only once its failure is known to *)
(* the other services.                                                     *)
DeadOnlyAfterFailed == \A c \in dead : c.job \in failed \cup Invalid

(* Without faults a job has one outcome, retries notwithstanding.          *)
OneOutcome == completed \cap failed \subseteq disturbed

(* Without faults a job is worked on by one handler at a time, even when   *)
(* the delay of a retry passes before the failed attempt is acknowledged:  *)
(* the per-job work directory of rendering relies on it.                   *)
OneWorker ==
    \A g, h \in Handlers :
        /\ g # h
        /\ stage[g] \notin {"idle", "ack"} /\ stage[h] \notin {"idle", "ack"}
        /\ copy[g].job = copy[h].job
        => copy[g].job \in disturbed

(* A job at rest: it is reported completed or is in the dead-letter queue, *)
(* and nothing works on it any more.                                       *)
AtRest(j) ==
    /\ j \in completed \/ \E c \in dead : c.job = j
    /\ \A c \in Copies : c.job = j => queue[c] = 0 /\ waiting[c] = 0
    /\ \A h \in Handlers : stage[h] # "idle" => copy[h].job # j

WorksOn(h, j) == stage[h] = "run" /\ copy[h].job = j

HangsOn(h, j) == <>[]WorksOn(h, j)

AllHang == \A h \in Handlers : <>[](stage[h] = "run")

(* Every job that was submitted comes to rest for good, over retries,      *)
(* crashes and redeliveries, unless the service never returns from this    *)
(* very job, or has taken every handler for ever: a render that hangs      *)
(* holds up its own job and its prefetch slot, and no other job.           *)
JobsComeToRest ==
    \A j \in Jobs :
        <>(j \in submitted) =>
            <>[]AtRest(j) \/ AllHang \/ \E h \in Handlers : HangsOn(h, j)
=============================================================================
