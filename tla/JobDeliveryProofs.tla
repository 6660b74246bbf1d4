------------------------- MODULE JobDeliveryProofs --------------------------
(***************************************************************************)
(* Proofs about JobDelivery for any jobs, handlers, attempts and faults:   *)
(* its types, that no job is lost when every attempt has a retry queue,    *)
(* and that a dead-lettered job was reported failed.                       *)
(***************************************************************************)
EXTENDS JobDelivery, TLAPS

-----------------------------------------------------------------------------
(* Types, and what the stage of a handler says about its copy.             *)

RetriesAllowed ==
    \A h \in Handlers : stage[h] = "retry" => copy[h].attempt < MaxAttempts

TypeInv == TypeOK /\ RetriesAllowed

LEMMA CopyFacts ==
    ASSUME NEW c \in Copies
    PROVE  c.job \in Jobs /\ c.attempt \in Nat
  BY DeliveryAssumption DEF Copies

LEMMA NextAttempt ==
    ASSUME NEW c \in Copies, c.attempt < MaxAttempts
    PROVE  /\ [c EXCEPT !.attempt = @ + 1] \in Copies
           /\ [c EXCEPT !.attempt = @ + 1].job = c.job
           /\ [c EXCEPT !.attempt = @ + 1].attempt = c.attempt + 1
  BY DeliveryAssumption DEF Copies

LEMMA FirstCopy ==
    ASSUME NEW j \in Jobs
    PROVE  [job |-> j, attempt |-> 0] \in Copies /\ [job |-> j, attempt |-> 0].job = j
  BY DeliveryAssumption DEF Copies

LEMMA TypeInit == Init => TypeInv
  BY DeliveryAssumption, NoCopyAssumption DEF Init, TypeInv, TypeOK, RetriesAllowed, Stages

LEMMA TypeStep == TypeInv /\ [Next]_vars => TypeInv'
  <1> SUFFICES ASSUME TypeInv, [Next]_vars PROVE TypeInv'
    OBVIOUS
  <1> USE DeliveryAssumption, NoCopyAssumption, CopyFacts, FirstCopy
      DEF TypeInv, TypeOK, RetriesAllowed, Stages, Publishing, Goto, Put, Finished, Settled, Rejected, Fault,
          NextCopy, SendRetry, SendDlq, SendFailed, SendCompleted, PerhapsSent, broker, events, history
  <1>1. ASSUME NEW j \in Jobs, Submit(j) PROVE TypeInv'
    BY <1>1 DEF Submit
  <1>2. ASSUME NEW h \in Handlers, PublishStarted(h) PROVE TypeInv'
    BY <1>2 DEF PublishStarted
  <1>3. ASSUME NEW h \in Handlers, Succeed(h) PROVE TypeInv'
    BY <1>3 DEF Succeed
  <1>4. ASSUME NEW h \in Handlers, Fail(h) PROVE TypeInv'
    BY <1>4 DEF Fail
  <1>5. ASSUME NEW h \in Handlers, PublishRetry(h) PROVE TypeInv'
    <2>1. copy[h] \in Copies /\ NextCopy(h) \in Copies
      BY <1>5, NextAttempt DEF PublishRetry
    <2>2. waiting' \in [Copies -> Nat]
      BY <1>5, <2>1 DEF PublishRetry
    <2>3. QED
      BY <1>5, <2>2 DEF PublishRetry
  <1>6. ASSUME NEW h \in Handlers, PublishFailed(h) PROVE TypeInv'
    BY <1>6 DEF PublishFailed
  <1>7. ASSUME NEW h \in Handlers, PublishDlq(h) PROVE TypeInv'
    BY <1>7 DEF PublishDlq
  <1>8. ASSUME NEW h \in Handlers, PublishCompleted(h) PROVE TypeInv'
    BY <1>8 DEF PublishCompleted
  <1>9. ASSUME NEW h \in Handlers, Ack(h) PROVE TypeInv'
    BY <1>9 DEF Ack
  <1>10. ASSUME NEW h \in Handlers, PublishRaises(h) PROVE TypeInv'
    BY <1>10 DEF PublishRaises
  <1>11. ASSUME NEW h \in Handlers, Crash(h) PROVE TypeInv'
    BY <1>11 DEF Crash
  <1>12. ASSUME NEW h \in Handlers, Drop(h) PROVE TypeInv'
    BY <1>12 DEF Drop
  <1>13. ASSUME NEW h \in Handlers, NEW c \in Copies, Deliver(h, c) PROVE TypeInv'
    BY <1>13 DEF Deliver
  <1>14. ASSUME NEW c \in Copies, RetryExpires(c) PROVE TypeInv'
    BY <1>14 DEF RetryExpires
  <1>15. CASE UNCHANGED vars
    BY <1>15 DEF vars
  <1>16. QED
    BY <1>1, <1>2, <1>3, <1>4, <1>5, <1>6, <1>7, <1>8, <1>9, <1>10, <1>11,
       <1>12, <1>13, <1>14, <1>15 DEF Next, Work

(* Queues count, handlers hold what they work on.                          *)
THEOREM TypeCorrect == Spec => []TypeOK
  <1>1. TypeInv => TypeOK
    BY DEF TypeInv
  <1>2. QED
    BY <1>1, TypeInit, TypeStep, PTL DEF Spec

-----------------------------------------------------------------------------
(* The dead-letter queue.                                                  *)

Reported ==
    /\ \A h \in Handlers : stage[h] = "dlq" => copy[h].job \in failed \cup Invalid
    /\ DeadOnlyAfterFailed

LEMMA ReportedStep == TypeInv /\ Reported /\ [Next]_vars => Reported'
  <1> SUFFICES ASSUME TypeInv, Reported, [Next]_vars PROVE Reported'
    OBVIOUS
  <1> USE DeliveryAssumption, NoCopyAssumption
      DEF TypeInv, TypeOK, Reported, DeadOnlyAfterFailed, Goto, Put, Finished, Settled, Rejected, Fault,
          NextCopy, SendRetry, SendDlq, SendFailed, SendCompleted, PerhapsSent, broker, events, history
  <1>1. ASSUME NEW j \in Jobs, Submit(j) PROVE Reported'
    BY <1>1 DEF Submit
  <1>2. ASSUME NEW h \in Handlers, PublishStarted(h) PROVE Reported'
    BY <1>2 DEF PublishStarted
  <1>3. ASSUME NEW h \in Handlers, Succeed(h) PROVE Reported'
    BY <1>3 DEF Succeed
  <1>4. ASSUME NEW h \in Handlers, Fail(h) PROVE Reported'
    BY <1>4 DEF Fail
  <1>5. ASSUME NEW h \in Handlers, PublishRetry(h) PROVE Reported'
    BY <1>5 DEF PublishRetry
  <1>6. ASSUME NEW h \in Handlers, PublishFailed(h) PROVE Reported'
    BY <1>6 DEF PublishFailed
  <1>7. ASSUME NEW h \in Handlers, PublishDlq(h) PROVE Reported'
    BY <1>7 DEF PublishDlq
  <1>8. ASSUME NEW h \in Handlers, PublishCompleted(h) PROVE Reported'
    BY <1>8 DEF PublishCompleted
  <1>9. ASSUME NEW h \in Handlers, Ack(h) PROVE Reported'
    BY <1>9 DEF Ack
  <1>10. ASSUME NEW h \in Handlers, PublishRaises(h) PROVE Reported'
    BY <1>10 DEF PublishRaises
  <1>11. ASSUME NEW h \in Handlers, Crash(h) PROVE Reported'
    BY <1>11 DEF Crash
  <1>12. ASSUME NEW h \in Handlers, Drop(h) PROVE Reported'
    BY <1>12 DEF Drop
  <1>13. ASSUME NEW h \in Handlers, NEW c \in Copies, Deliver(h, c) PROVE Reported'
    BY <1>13 DEF Deliver
  <1>14. ASSUME NEW c \in Copies, RetryExpires(c) PROVE Reported'
    BY <1>14 DEF RetryExpires
  <1>15. CASE UNCHANGED vars
    BY <1>15 DEF vars
  <1>16. QED
    BY <1>1, <1>2, <1>3, <1>4, <1>5, <1>6, <1>7, <1>8, <1>9, <1>10, <1>11,
       <1>12, <1>13, <1>14, <1>15 DEF Next, Work

(* A valid job in the dead-letter queue was reported failed before.        *)
THEOREM DeadWasReported == Spec => []DeadOnlyAfterFailed
  <1>1. Init => Reported
    BY DEF Init, Reported, DeadOnlyAfterFailed
  <1>2. Reported => DeadOnlyAfterFailed
    BY DEF Reported
  <1>3. QED
    BY <1>1, <1>2, ReportedStep, TypeInit, TypeStep, PTL DEF Spec

-----------------------------------------------------------------------------
(* No job is lost.  Only an acknowledgement takes a copy away; so a        *)
(* handler about to acknowledge must have left something behind: a         *)
(* completed event, a copy in the dead-letter queue, or a later attempt.   *)

LEMMA OnlyAckRemoves ==
    ASSUME TypeInv, TypeInv', [Next]_vars, NEW d \in Copies, InBroker(d)
    PROVE  InBroker(d)' \/ \E h \in delivered : Ack(h) /\ copy[h] = d
  <1> DEFINE Goal == InBroker(d)' \/ \E h \in delivered : Ack(h) /\ copy[h] = d
  <1> SUFFICES Goal
    OBVIOUS
  <1> USE NoCopyAssumption DEF TypeInv, TypeOK, InBroker, Goto, Put, Finished, Settled, Rejected, Fault,
          NextCopy, SendRetry, SendDlq, SendFailed, SendCompleted, PerhapsSent, broker, events, history
  <1>1. ASSUME NEW j \in Jobs, Submit(j) PROVE Goal
    BY <1>1 DEF Submit
  <1>2. ASSUME NEW h \in Handlers, PublishStarted(h) PROVE Goal
    BY <1>2 DEF PublishStarted
  <1>3. ASSUME NEW h \in Handlers, Succeed(h) PROVE Goal
    BY <1>3 DEF Succeed
  <1>4. ASSUME NEW h \in Handlers, Fail(h) PROVE Goal
    BY <1>4 DEF Fail
  <1>5. ASSUME NEW h \in Handlers, PublishRetry(h) PROVE Goal
    BY <1>5 DEF PublishRetry
  <1>6. ASSUME NEW h \in Handlers, PublishFailed(h) PROVE Goal
    BY <1>6 DEF PublishFailed
  <1>7. ASSUME NEW h \in Handlers, PublishDlq(h) PROVE Goal
    BY <1>7 DEF PublishDlq
  <1>8. ASSUME NEW h \in Handlers, PublishCompleted(h) PROVE Goal
    BY <1>8 DEF PublishCompleted
  <1>9. ASSUME NEW h \in Handlers, Ack(h) PROVE Goal
    BY <1>9 DEF Ack
  <1>10. ASSUME NEW h \in Handlers, PublishRaises(h) PROVE Goal
    BY <1>10 DEF PublishRaises
  <1>11. ASSUME NEW h \in Handlers, Crash(h) PROVE Goal
    BY <1>11 DEF Crash
  <1>12. ASSUME NEW h \in Handlers, Drop(h) PROVE Goal
    BY <1>12 DEF Drop
  <1>13. ASSUME NEW h \in Handlers, NEW c \in Copies, Deliver(h, c) PROVE Goal
    BY <1>13 DEF Deliver
  <1>14. ASSUME NEW c \in Copies, RetryExpires(c) PROVE Goal
    BY <1>14 DEF RetryExpires
  <1>15. CASE UNCHANGED vars
    BY <1>15 DEF vars
  <1>16. QED
    BY <1>1, <1>2, <1>3, <1>4, <1>5, <1>6, <1>7, <1>8, <1>9, <1>10, <1>11,
       <1>12, <1>13, <1>14, <1>15 DEF Next, Work

LEMMA EventsStay ==
    TypeInv /\ [Next]_vars => completed \subseteq completed' /\ dead \subseteq dead'
  <1> SUFFICES ASSUME TypeInv, [Next]_vars
               PROVE completed \subseteq completed' /\ dead \subseteq dead'
    OBVIOUS
  <1> USE DEF Goto, Put, Finished, Settled, Rejected, Fault,
          NextCopy, SendRetry, SendDlq, SendFailed, SendCompleted, PerhapsSent, broker, events, history
  <1>1. ASSUME NEW j \in Jobs, Submit(j) PROVE completed \subseteq completed' /\ dead \subseteq dead'
    BY <1>1 DEF Submit
  <1>2. ASSUME NEW h \in Handlers, PublishStarted(h) PROVE completed \subseteq completed' /\ dead \subseteq dead'
    BY <1>2 DEF PublishStarted
  <1>3. ASSUME NEW h \in Handlers, Succeed(h) PROVE completed \subseteq completed' /\ dead \subseteq dead'
    BY <1>3 DEF Succeed
  <1>4. ASSUME NEW h \in Handlers, Fail(h) PROVE completed \subseteq completed' /\ dead \subseteq dead'
    BY <1>4 DEF Fail
  <1>5. ASSUME NEW h \in Handlers, PublishRetry(h) PROVE completed \subseteq completed' /\ dead \subseteq dead'
    BY <1>5 DEF PublishRetry
  <1>6. ASSUME NEW h \in Handlers, PublishFailed(h) PROVE completed \subseteq completed' /\ dead \subseteq dead'
    BY <1>6 DEF PublishFailed
  <1>7. ASSUME NEW h \in Handlers, PublishDlq(h) PROVE completed \subseteq completed' /\ dead \subseteq dead'
    BY <1>7 DEF PublishDlq
  <1>8. ASSUME NEW h \in Handlers, PublishCompleted(h) PROVE completed \subseteq completed' /\ dead \subseteq dead'
    BY <1>8 DEF PublishCompleted
  <1>9. ASSUME NEW h \in Handlers, Ack(h) PROVE completed \subseteq completed' /\ dead \subseteq dead'
    BY <1>9 DEF Ack
  <1>10. ASSUME NEW h \in Handlers, PublishRaises(h) PROVE completed \subseteq completed' /\ dead \subseteq dead'
    BY <1>10 DEF PublishRaises
  <1>11. ASSUME NEW h \in Handlers, Crash(h) PROVE completed \subseteq completed' /\ dead \subseteq dead'
    BY <1>11 DEF Crash
  <1>12. ASSUME NEW h \in Handlers, Drop(h) PROVE completed \subseteq completed' /\ dead \subseteq dead'
    BY <1>12 DEF Drop
  <1>13. ASSUME NEW h \in Handlers, NEW c \in Copies, Deliver(h, c) PROVE completed \subseteq completed' /\ dead \subseteq dead'
    BY <1>13 DEF Deliver
  <1>14. ASSUME NEW c \in Copies, RetryExpires(c) PROVE completed \subseteq completed' /\ dead \subseteq dead'
    BY <1>14 DEF RetryExpires
  <1>15. CASE UNCHANGED vars
    BY <1>15 DEF vars
  <1>16. QED
    BY <1>1, <1>2, <1>3, <1>4, <1>5, <1>6, <1>7, <1>8, <1>9, <1>10, <1>11,
       <1>12, <1>13, <1>14, <1>15 DEF Next, Work

Backed(h) ==
    \/ copy[h].job \in completed
    \/ \E d \in Copies :
        /\ d.job = copy[h].job
        /\ d \in dead \/ (InBroker(d) /\ d.attempt > copy[h].attempt)

AllBacked == \A h \in delivered : stage[h] = "ack" => Backed(h)

(* What backs a handler survives a step that the handler does not take.    *)
LEMMA BackingStays ==
    ASSUME TypeInv, TypeInv', [Next]_vars, AllBacked,
           NEW h \in delivered, stage[h] = "ack", copy'[h] = copy[h]
    PROVE  Backed(h)'
  <1>1. copy[h] \in Copies /\ Backed(h)
    BY DEF TypeInv, TypeOK, AllBacked
  <1>2. CASE copy[h].job \in completed
    BY <1>2, EventsStay DEF Backed
  <1>3. CASE \E d \in dead : d \in Copies /\ d.job = copy[h].job
    BY <1>3, EventsStay DEF Backed
  <1>4. ASSUME NEW d \in Copies, d.job = copy[h].job, InBroker(d), d.attempt > copy[h].attempt
        PROVE  Backed(h)'
    <2>1. CASE InBroker(d)'
      BY <1>4, <2>1 DEF Backed
    <2>2. ASSUME NEW g \in delivered, Ack(g), copy[g] = d
          PROVE  Backed(h)'
      <3>1. Backed(g)
        BY <2>2 DEF Ack, AllBacked
      <3>2. CASE d.job \in completed
        BY <3>2, <1>4, EventsStay DEF Backed
      <3>3. CASE \E e \in dead : e \in Copies /\ e.job = d.job
        BY <3>3, <1>4, EventsStay DEF Backed
      <3>4. ASSUME NEW e \in Copies, e.job = d.job, InBroker(e), e.attempt > d.attempt
            PROVE  Backed(h)'
        <4>1. e.attempt > copy[h].attempt /\ e # d
          BY <1>1, <1>4, <3>4, CopyFacts
        <4>2. \A k \in delivered : Ack(k) => k = g
          BY <2>2 DEF Ack, Settled, Finished, Goto, TypeInv, TypeOK
        <4>3. InBroker(e)'
          BY <2>2, <3>4, <4>1, <4>2, OnlyAckRemoves
        <4>4. QED
          BY <1>4, <3>4, <4>1, <4>3 DEF Backed
      <3>5. QED
        BY <2>2, <3>1, <3>2, <3>3, <3>4 DEF Backed
    <2>3. QED
      BY <1>4, <2>1, <2>2, OnlyAckRemoves
  <1>5. QED
    BY <1>1, <1>2, <1>3, <1>4 DEF Backed

LEMMA BackedStep ==
    MaxAttempts <= NumDelays /\ TypeInv /\ TypeInv' /\ AllBacked /\ [Next]_vars => AllBacked'
  <1> SUFFICES ASSUME MaxAttempts <= NumDelays, TypeInv, TypeInv', AllBacked, [Next]_vars,
                      NEW h \in delivered', stage'[h] = "ack"
               PROVE  Backed(h)'
    BY DEF AllBacked
  <1>1. CASE h \in delivered /\ stage[h] = "ack" /\ copy'[h] = copy[h]
    BY <1>1, BackingStays
  <1>2. CASE PublishRetry(h)
    <2>1. copy[h] \in Copies /\ copy[h].attempt < MaxAttempts
      BY <1>2 DEF PublishRetry, TypeInv, TypeOK, RetriesAllowed
    <2>2. /\ NextCopy(h) \in Copies
          /\ NextCopy(h).job = copy[h].job
          /\ NextCopy(h).attempt = copy[h].attempt + 1
      BY <2>1, NextAttempt DEF NextCopy
    <2>3. waiting'[NextCopy(h)] > 0 /\ copy' = copy
      BY <1>2, <2>1, <2>2, CopyFacts, DeliveryAssumption
      DEF PublishRetry, SendRetry, TypeInv, TypeOK
    <2>4. InBroker(NextCopy(h))' <=> \/ queue'[NextCopy(h)'] > 0
                                     \/ waiting'[NextCopy(h)'] > 0
                                     \/ NextCopy(h)' \in dead'
                                     \/ \E k \in delivered' : copy'[k] = NextCopy(h)'
      BY DEF InBroker
    <2>5. NextCopy(h)' = NextCopy(h)
      BY <2>3 DEF NextCopy
    <2>6. NextCopy(h).attempt > copy[h].attempt
      BY <2>1, <2>2, CopyFacts
    <2>7. QED
      BY <2>2, <2>3, <2>4, <2>5, <2>6 DEF Backed
  <1>3. CASE PublishDlq(h)
    BY <1>3 DEF PublishDlq, SendDlq, TypeInv, TypeOK, Backed
  <1>4. CASE PublishCompleted(h)
    BY <1>4 DEF PublishCompleted, SendCompleted, Backed
  <1>5. \/ h \in delivered /\ stage[h] = "ack" /\ copy'[h] = copy[h]
        \/ PublishRetry(h) \/ PublishDlq(h) \/ PublishCompleted(h)
    <2> DEFINE Goal == \/ h \in delivered /\ stage[h] = "ack" /\ copy'[h] = copy[h]
                       \/ PublishRetry(h) \/ PublishDlq(h) \/ PublishCompleted(h)
    <2> USE DEF TypeInv, TypeOK, Goto, Put, Finished, Settled, Rejected, Fault,
          NextCopy, SendRetry, SendDlq, SendFailed, SendCompleted, PerhapsSent, broker, events, history
    <2>1. ASSUME NEW j \in Jobs, Submit(j) PROVE Goal
      BY <2>1 DEF Submit
    <2>2. ASSUME NEW g \in Handlers, PublishStarted(g) PROVE Goal
      BY <2>2 DEF PublishStarted
    <2>3. ASSUME NEW g \in Handlers, Succeed(g) PROVE Goal
      BY <2>3 DEF Succeed
    <2>4. ASSUME NEW g \in Handlers, Fail(g) PROVE Goal
      BY <2>4 DEF Fail
    <2>5. ASSUME NEW g \in Handlers, PublishRetry(g) PROVE Goal
      BY <2>5 DEF PublishRetry
    <2>6. ASSUME NEW g \in Handlers, PublishFailed(g) PROVE Goal
      BY <2>6 DEF PublishFailed
    <2>7. ASSUME NEW g \in Handlers, PublishDlq(g) PROVE Goal
      BY <2>7 DEF PublishDlq
    <2>8. ASSUME NEW g \in Handlers, PublishCompleted(g) PROVE Goal
      BY <2>8 DEF PublishCompleted
    <2>9. ASSUME NEW g \in Handlers, Ack(g) PROVE Goal
      BY <2>9 DEF Ack
    <2>10. ASSUME NEW g \in Handlers, PublishRaises(g) PROVE Goal
      BY <2>10 DEF PublishRaises
    <2>11. ASSUME NEW g \in Handlers, Crash(g) PROVE Goal
      BY <2>11 DEF Crash
    <2>12. ASSUME NEW g \in Handlers, Drop(g) PROVE Goal
      BY <2>12 DEF Drop
    <2>13. ASSUME NEW g \in Handlers, NEW c \in Copies, Deliver(g, c) PROVE Goal
      BY <2>13 DEF Deliver
    <2>14. ASSUME NEW c \in Copies, RetryExpires(c) PROVE Goal
      BY <2>14 DEF RetryExpires
    <2>15. CASE UNCHANGED vars
      BY <2>15 DEF vars
    <2>16. QED
      BY <2>1, <2>2, <2>3, <2>4, <2>5, <2>6, <2>7, <2>8, <2>9, <2>10, <2>11,
         <2>12, <2>13, <2>14, <2>15 DEF Next, Work
  <1>6. QED
    BY <1>1, <1>2, <1>3, <1>4, <1>5

LEMMA KeptStep ==
    TypeInv /\ TypeInv' /\ AllBacked /\ NoJobLost /\ [Next]_vars => NoJobLost'
  <1> SUFFICES ASSUME TypeInv, TypeInv', AllBacked, NoJobLost, [Next]_vars,
                      NEW j \in submitted'
               PROVE  j \in completed' \/ \E c \in Copies : c.job = j /\ InBroker(c)'
    BY DEF NoJobLost
  <1>1. CASE j \notin submitted
    <2>1. j \in Jobs /\ Submit(j)
      BY <1>1 DEF Next, Work, vars, Submit, Deliver, PublishStarted, Succeed, Fail, PublishRetry,
         PublishFailed, PublishDlq, PublishCompleted, Ack, RetryExpires, PublishRaises,
         Crash, Drop, Fault, history
    <2>2. queue'[[job |-> j, attempt |-> 0]] > 0
      BY <2>1, FirstCopy DEF Submit, Put, TypeInv, TypeOK
    <2>3. QED
      BY <2>1, <2>2, FirstCopy DEF InBroker
  <1>2. CASE j \in submitted /\ j \in completed
    BY <1>2, EventsStay
  <1>3. ASSUME NEW c \in Copies, c.job = j, InBroker(c)
        PROVE  j \in completed' \/ \E d \in Copies : d.job = j /\ InBroker(d)'
    <2>1. CASE InBroker(c)'
      BY <1>3, <2>1
    <2>2. ASSUME NEW h \in delivered, Ack(h), copy[h] = c
          PROVE  j \in completed' \/ \E d \in Copies : d.job = j /\ InBroker(d)'
      <3>1. Backed(h)
        BY <2>2 DEF Ack, AllBacked
      <3>2. CASE j \in completed
        BY <3>2, EventsStay
      <3>3. ASSUME NEW d \in Copies, d.job = j, d \in dead
            PROVE  InBroker(d)'
        BY <3>3, EventsStay DEF InBroker
      <3>4. ASSUME NEW d \in Copies, d.job = j, InBroker(d), d.attempt > c.attempt
            PROVE  InBroker(d)'
        <4>1. d # c
          BY <3>4, CopyFacts
        <4>2. \A k \in delivered : Ack(k) => k = h
          BY <2>2 DEF Ack, Settled, Finished, Goto, TypeInv, TypeOK
        <4>3. QED
          BY <2>2, <3>4, <4>1, <4>2, OnlyAckRemoves
      <3>5. QED
        BY <1>3, <2>2, <3>1, <3>2, <3>3, <3>4 DEF Backed
    <2>3. QED
      BY <1>3, <2>1, <2>2, OnlyAckRemoves
  <1>4. QED
    BY <1>1, <1>2, <1>3 DEF NoJobLost

(* A submitted job stays in the broker until it is completed, if there is  *)
(* a retry queue for every attempt.                                        *)
THEOREM NothingLost ==
    ASSUME MaxAttempts <= NumDelays
    PROVE  Spec => []NoJobLost
  <1>1. Init => AllBacked /\ NoJobLost
    BY DEF Init, AllBacked, NoJobLost
  <1>2. TypeInv /\ TypeInv' /\ AllBacked /\ [Next]_vars => AllBacked'
    BY BackedStep
  <1>3. QED
    BY <1>1, <1>2, KeptStep, TypeInit, TypeStep, PTL DEF Spec

-----------------------------------------------------------------------------
(* A job that suffered no fault is in one place: one copy in one queue, or *)
(* with one handler that is not yet done with it, or nowhere once it has   *)
(* an outcome.  A copy that is acknowledged no longer counts.              *)

Busy(h) == stage[h] \notin {"idle", "ack"}

Nowhere(j) == \A c \in Copies : c.job = j => queue[c] = 0 /\ waiting[c] = 0

InOnePlace(j) ==
    /\ \A c \in Copies : c.job = j => queue[c] + waiting[c] \in {0, 1}
    /\ \A c, d \in Copies :
          c.job = j /\ d.job = j /\ queue[c] + waiting[c] = 1 /\ queue[d] + waiting[d] = 1
          => c = d
    /\ \A h \in Handlers : Busy(h) /\ copy[h].job = j => Nowhere(j)
    /\ \A g, h \in Handlers :
          Busy(g) /\ Busy(h) /\ copy[g].job = j /\ copy[h].job = j => g = h

OutcomeIsLast(j) ==
    /\ j \notin submitted => j \notin completed \cup failed /\ Nowhere(j)
    /\ j \in completed \cup failed => Nowhere(j)
    /\ j \notin completed \cap failed
    /\ \A h \in Handlers : Busy(h) /\ copy[h].job = j =>
          /\ j \in submitted /\ j \notin completed
          /\ j \in failed => stage[h] = "dlq"

Undisturbed(j) == InOnePlace(j) /\ OutcomeIsLast(j)

Single == \A j \in Jobs \ disturbed : Undisturbed(j)

(* A step of a fault on another job leaves the copies of j as they are.    *)
LEMMA SingleStep == TypeInv /\ Single /\ [Next]_vars => Single'
  <1> SUFFICES ASSUME TypeInv, Single, [Next]_vars, NEW j \in Jobs, j \notin disturbed'
               PROVE  Undisturbed(j)'
    BY DEF Single
  <1>0. j \notin disturbed /\ Undisturbed(j)
    BY DEF Single, Next, Work, vars, Submit, Deliver, PublishStarted, Succeed, Fail, PublishRetry,
         PublishFailed, PublishDlq, PublishCompleted, Ack, RetryExpires, PublishRaises,
         Crash, Drop, Fault, history
  <1> USE DeliveryAssumption, NoCopyAssumption, CopyFacts, FirstCopy, <1>0
      DEF TypeInv, TypeOK, RetriesAllowed, Stages, Publishing, Goto, Put, Finished, Settled, Rejected, Fault,
          NextCopy, SendRetry, SendDlq, SendFailed, SendCompleted, PerhapsSent, broker, events, history,
          Undisturbed, InOnePlace, OutcomeIsLast, Nowhere, Busy
  <1>1. ASSUME NEW k \in Jobs, Submit(k) PROVE Undisturbed(j)'
    BY <1>1 DEF Submit
  <1>2. ASSUME NEW h \in Handlers, PublishStarted(h) PROVE Undisturbed(j)'
    BY <1>2 DEF PublishStarted
  <1>3. ASSUME NEW h \in Handlers, Succeed(h) PROVE Undisturbed(j)'
    BY <1>3 DEF Succeed
  <1>4. ASSUME NEW h \in Handlers, Fail(h) PROVE Undisturbed(j)'
    BY <1>4 DEF Fail
  <1>5. ASSUME NEW h \in Handlers, PublishRetry(h) PROVE Undisturbed(j)'
    <2>1. /\ copy[h] \in Copies /\ Busy(h)
          /\ NextCopy(h) \in Copies /\ NextCopy(h).job = copy[h].job
      BY <1>5, NextAttempt DEF PublishRetry
    <2>2. /\ UNCHANGED <<submitted, queue, completed, failed, copy>>
          /\ \/ UNCHANGED waiting
             \/ waiting' = [waiting EXCEPT ![NextCopy(h)] = @ + 1]
      BY <1>5 DEF PublishRetry
    <2>3. \A g \in Handlers : Busy(g)' => Busy(g) /\ g # h /\ stage'[g] = stage[g]
      BY <1>5 DEF PublishRetry
    <2> HIDE DEF NextCopy
    <2>4. CASE copy[h].job # j
      BY <2>1, <2>2, <2>3, <2>4
    <2>5. CASE copy[h].job = j
      <3>1. \A c \in Copies : c.job = j => waiting'[c] = 0 \/ c = NextCopy(h)
        BY <2>1, <2>2, <2>5
      <3>2. \A c \in Copies : c.job = j => waiting'[c] \in {0, 1} /\ queue'[c] = 0
        BY <2>1, <2>2, <2>5
      <3>3. ~\E g \in Handlers : Busy(g)' /\ copy'[g].job = j
        BY <2>1, <2>2, <2>3, <2>5
      <3>4. j \notin completed' \cup failed' /\ j \in submitted'
        BY <1>5, <2>1, <2>2, <2>5 DEF PublishRetry
      <3>5. QED
        BY <3>1, <3>2, <3>3, <3>4
    <2>6. QED
      BY <2>4, <2>5
  <1>6. ASSUME NEW h \in Handlers, PublishFailed(h) PROVE Undisturbed(j)'
    BY <1>6 DEF PublishFailed
  <1>7. ASSUME NEW h \in Handlers, PublishDlq(h) PROVE Undisturbed(j)'
    BY <1>7 DEF PublishDlq
  <1>8. ASSUME NEW h \in Handlers, PublishCompleted(h) PROVE Undisturbed(j)'
    BY <1>8 DEF PublishCompleted
  <1>9. ASSUME NEW h \in Handlers, Ack(h) PROVE Undisturbed(j)'
    BY <1>9 DEF Ack
  <1>10. ASSUME NEW h \in Handlers, PublishRaises(h) PROVE Undisturbed(j)'
    <2>1. /\ copy[h] \in Copies /\ copy[h].job # j
          /\ stage[h] = "retry" => NextCopy(h) \in Copies /\ NextCopy(h).job = copy[h].job
      BY <1>10, NextAttempt DEF PublishRaises
    <2>2. /\ UNCHANGED submitted
          /\ UNCHANGED queue \/ queue' = [queue EXCEPT ![copy[h]] = @ + 1]
          /\ \/ UNCHANGED waiting
             \/ stage[h] = "retry" /\ waiting' = [waiting EXCEPT ![NextCopy(h)] = @ + 1]
          /\ completed' = completed \/ completed' = completed \cup {copy[h].job}
          /\ failed' = failed \/ failed' = failed \cup {copy[h].job}
      <3>1. PerhapsSent(h) /\ UNCHANGED submitted
        BY <1>10 DEF PublishRaises
      <3>2. UNCHANGED queue \/ queue' = [queue EXCEPT ![copy[h]] = @ + 1]
        BY <1>10 DEF PublishRaises
      <3>3. \/ UNCHANGED waiting
            \/ stage[h] = "retry" /\ waiting' = [waiting EXCEPT ![NextCopy(h)] = @ + 1]
        BY <3>1
      <3>4. completed' = completed \/ completed' = completed \cup {copy[h].job}
        BY <3>1
      <3>5. failed' = failed \/ failed' = failed \cup {copy[h].job}
        BY <3>1
      <3>6. QED
        BY <3>1, <3>2, <3>3, <3>4, <3>5
    <2>3. \A g \in Handlers : Busy(g)' =>
             Busy(g) /\ g # h /\ stage'[g] = stage[g] /\ copy'[g] = copy[g]
      BY <1>10 DEF PublishRaises
    <2> HIDE DEF NextCopy
    <2>4. \A c \in Copies : c.job = j => queue'[c] = queue[c] /\ waiting'[c] = waiting[c]
      BY <2>1, <2>2
    <2>5. (j \in completed' <=> j \in completed) /\ (j \in failed' <=> j \in failed)
      BY <2>1, <2>2
    <2>6. QED
      BY <2>2, <2>3, <2>4, <2>5
  <1>11. ASSUME NEW h \in Handlers, Crash(h) PROVE Undisturbed(j)'
    BY <1>11 DEF Crash
  <1>12. ASSUME NEW h \in Handlers, Drop(h) PROVE Undisturbed(j)'
    BY <1>12 DEF Drop
  <1>13. ASSUME NEW h \in Handlers, NEW c \in Copies, Deliver(h, c) PROVE Undisturbed(j)'
    <2>1. /\ queue[c] \in Nat \ {0} /\ queue' = [queue EXCEPT ![c] = @ - 1]
          /\ copy' = [copy EXCEPT ![h] = c]
          /\ UNCHANGED <<submitted, waiting, completed, failed>>
      BY <1>13 DEF Deliver
    <2>2. \A g \in Handlers \ {h} : stage'[g] = stage[g] /\ copy'[g] = copy[g]
      BY <1>13, <2>1 DEF Deliver
    <2>3. copy'[h] = c
      BY <2>1
    <2>4. CASE c.job # j
      BY <2>1, <2>2, <2>3, <2>4
    <2>5. CASE c.job = j
      <3>1. queue[c] + waiting[c] = 1 /\ queue[c] = 1
        BY <2>1, <2>5
      <3>2. \A d \in Copies : d.job = j => queue'[d] = 0 /\ waiting'[d] = 0
        BY <2>1, <2>5, <3>1
      <3>3. \A g \in Handlers \ {h} : ~(Busy(g)' /\ copy'[g].job = j)
        BY <2>1, <2>2, <2>5, <3>1
      <3>4. j \notin completed' \cup failed' /\ j \in submitted'
        BY <2>1, <2>5, <3>1
      <3>5. QED
        BY <3>2, <3>3, <3>4
    <2>6. QED
      BY <2>4, <2>5
  <1>14. ASSUME NEW c \in Copies, RetryExpires(c) PROVE Undisturbed(j)'
    BY <1>14 DEF RetryExpires
  <1>15. CASE UNCHANGED vars
    BY <1>15 DEF vars
  <1>16. QED
    BY <1>1, <1>2, <1>3, <1>4, <1>5, <1>6, <1>7, <1>8, <1>9, <1>10, <1>11,
       <1>12, <1>13, <1>14, <1>15 DEF Next, Work

LEMMA SingleInit == Init => Single
  BY DEF Init, Single, Undisturbed, InOnePlace, OutcomeIsLast, Nowhere, Busy

(* Without a fault no job is reported both completed and failed, however   *)
(* often it was retried.                                                   *)
THEOREM OneOutcomeOnly == Spec => []OneOutcome
  <1>1. TypeInv /\ Single => OneOutcome
    BY DEF TypeInv, TypeOK, Single, Undisturbed, OutcomeIsLast, OneOutcome
  <1>2. QED
    BY <1>1, SingleInit, SingleStep, TypeInit, TypeStep, PTL DEF Spec

(* Without a fault no two handlers work on one job, even when a retry is   *)
(* delivered before the failed attempt is acknowledged.                    *)
THEOREM OneWorkerOnly == Spec => []OneWorker
  <1>1. TypeInv /\ Single => OneWorker
    <2> SUFFICES ASSUME TypeInv, Single, NEW g \in Handlers, NEW h \in Handlers,
                        Busy(g), Busy(h), copy[g].job = copy[h].job,
                        copy[g].job \notin disturbed
                 PROVE  g = h
      BY DEF OneWorker, Busy
    <2>1. copy[g] \in Copies
      BY NoCopyAssumption DEF TypeInv, TypeOK, Busy
    <2>2. QED
      BY <2>1, CopyFacts DEF Single, Undisturbed, InOnePlace
  <1>2. QED
    BY <1>1, SingleInit, SingleStep, TypeInit, TypeStep, PTL DEF Spec
=============================================================================
