------------------------- MODULE SingleFlightProofs -------------------------
(***************************************************************************)
(* Proofs about SingleFlight for any number of calls: its types, that a    *)
(* lock is never lost silently, that the cache is filled once while        *)
(* nothing calls for duplicate work, and that it implements                *)
(* AuthoritativeCall; and, at the end, about the CircuitBreaker in front   *)
(* of its Redis.                                                           *)
(***************************************************************************)
EXTENDS SingleFlight, CircuitBreaker, TLAPS

-----------------------------------------------------------------------------
(* Types.                                                                  *)

LEMMA TypeInit == Init => TypeOK
  BY DEF Init, TypeOK, Stages, Endings

LEMMA TypeStep == TypeOK /\ [Next]_vars => TypeOK'
  <1> SUFFICES ASSUME TypeOK, [Next]_vars PROVE TypeOK'
    OBVIOUS
  <1> USE DEF TypeOK, Stages, LeaderStages, Endings, Goto, Leave, SetIfAbsent,
          CompareAndDelete, Store, PerhapsExecuted, lock, entry, outcome, result
  <1>1. ASSUME NEW c \in Calls, Begin(c) PROVE TypeOK'
    BY <1>1 DEF Begin
  <1>2. ASSUME NEW c \in Calls, Acquire(c) PROVE TypeOK'
    BY <1>2 DEF Acquire
  <1>3. ASSUME NEW c \in Calls, AcquireFails(c) PROVE TypeOK'
    BY <1>3 DEF AcquireFails
  <1>4. ASSUME NEW c \in Calls, Recheck(c) PROVE TypeOK'
    BY <1>4 DEF Recheck
  <1>5. ASSUME NEW c \in Calls, LookupFails(c) PROVE TypeOK'
    BY <1>5 DEF LookupFails
  <1>6. ASSUME NEW c \in Calls, Compute(c) PROVE TypeOK'
    BY <1>6 DEF Compute
  <1>7. ASSUME NEW c \in Calls, Write(c) PROVE TypeOK'
    BY <1>7 DEF Write
  <1>8. ASSUME NEW c \in Calls, WriteFails(c) PROVE TypeOK'
    BY <1>8 DEF WriteFails
  <1>9. ASSUME NEW c \in Calls, Release(c) PROVE TypeOK'
    BY <1>9 DEF Release
  <1>10. ASSUME NEW c \in Calls, ReleaseFails(c) PROVE TypeOK'
    BY <1>10 DEF ReleaseFails
  <1>11. ASSUME NEW c \in Calls, Sleep(c) PROVE TypeOK'
    BY <1>11 DEF Sleep
  <1>12. ASSUME NEW c \in Calls, Timeout(c) PROVE TypeOK'
    BY <1>12 DEF Timeout
  <1>13. ASSUME NEW c \in Calls, Poll(c) PROVE TypeOK'
    BY <1>13 DEF Poll
  <1>14. ASSUME NEW c \in Calls, Check(c) PROVE TypeOK'
    BY <1>14 DEF Check
  <1>15. ASSUME NEW c \in Calls, Cancel(c) PROVE TypeOK'
    BY <1>15 DEF Cancel
  <1>16. ASSUME NEW c \in Calls, Crash(c) PROVE TypeOK'
    BY <1>16 DEF Crash
  <1>17. CASE LockExpires
    BY <1>17 DEF LockExpires
  <1>18. CASE EntryExpires
    BY <1>18 DEF EntryExpires
  <1>19. CASE UNCHANGED vars
    BY <1>19 DEF vars
  <1>20. QED
    BY <1>1, <1>2, <1>3, <1>4, <1>5, <1>6, <1>7, <1>8, <1>9, <1>10, <1>11, <1>12,
       <1>13, <1>14, <1>15, <1>16, <1>17, <1>18, <1>19 DEF Next, Proceed

(* The variables keep their types, and only calls inside run()'s           *)
(* try/finally count as holding a lock.                                    *)
THEOREM TypeCorrect == Spec => []TypeOK
  BY TypeInit, TypeStep, PTL DEF Spec

-----------------------------------------------------------------------------
(* Locks.  A token in Redis belongs to a running leader or to a call whose *)
(* acquire or release was disturbed.                                       *)

OwnerAccounted == \A c \in Calls : owner = c => c \in leaders \cup disturbed

LEMMA OwnerAccountedStep == TypeOK /\ TypeOK' /\ OwnerAccounted /\ [Next]_vars => OwnerAccounted'
  <1> SUFFICES ASSUME TypeOK, TypeOK', OwnerAccounted, [Next]_vars PROVE OwnerAccounted'
    OBVIOUS
  <1> USE CallsAssumption DEF TypeOK, Stages, LeaderStages, OwnerAccounted, Goto, Leave, SetIfAbsent,
          CompareAndDelete, Store, PerhapsExecuted, lock, entry, outcome, result
  <1>1. ASSUME NEW c \in Calls, Begin(c) PROVE OwnerAccounted'
    BY <1>1 DEF Begin
  <1>2. ASSUME NEW c \in Calls, Acquire(c) PROVE OwnerAccounted'
    BY <1>2 DEF Acquire
  <1>3. ASSUME NEW c \in Calls, AcquireFails(c) PROVE OwnerAccounted'
    BY <1>3 DEF AcquireFails
  <1>4. ASSUME NEW c \in Calls, Recheck(c) PROVE OwnerAccounted'
    BY <1>4 DEF Recheck
  <1>5. ASSUME NEW c \in Calls, LookupFails(c) PROVE OwnerAccounted'
    BY <1>5 DEF LookupFails
  <1>6. ASSUME NEW c \in Calls, Compute(c) PROVE OwnerAccounted'
    BY <1>6 DEF Compute
  <1>7. ASSUME NEW c \in Calls, Write(c) PROVE OwnerAccounted'
    BY <1>7 DEF Write
  <1>8. ASSUME NEW c \in Calls, WriteFails(c) PROVE OwnerAccounted'
    BY <1>8 DEF WriteFails
  <1>9. ASSUME NEW c \in Calls, Release(c) PROVE OwnerAccounted'
    BY <1>9 DEF Release
  <1>10. ASSUME NEW c \in Calls, ReleaseFails(c) PROVE OwnerAccounted'
    BY <1>10 DEF ReleaseFails
  <1>11. ASSUME NEW c \in Calls, Sleep(c) PROVE OwnerAccounted'
    BY <1>11 DEF Sleep
  <1>12. ASSUME NEW c \in Calls, Timeout(c) PROVE OwnerAccounted'
    BY <1>12 DEF Timeout
  <1>13. ASSUME NEW c \in Calls, Poll(c) PROVE OwnerAccounted'
    BY <1>13 DEF Poll
  <1>14. ASSUME NEW c \in Calls, Check(c) PROVE OwnerAccounted'
    BY <1>14 DEF Check
  <1>15. ASSUME NEW c \in Calls, Cancel(c) PROVE OwnerAccounted'
    BY <1>15 DEF Cancel
  <1>16. ASSUME NEW c \in Calls, Crash(c) PROVE OwnerAccounted'
    BY <1>16 DEF Crash
  <1>17. CASE LockExpires
    BY <1>17 DEF LockExpires
  <1>18. CASE EntryExpires
    BY <1>18 DEF EntryExpires
  <1>19. CASE UNCHANGED vars
    BY <1>19 DEF vars
  <1>20. QED
    BY <1>1, <1>2, <1>3, <1>4, <1>5, <1>6, <1>7, <1>8, <1>9, <1>10, <1>11,
       <1>12, <1>13, <1>14, <1>15, <1>16, <1>17, <1>18, <1>19 DEF Next, Proceed

(* A call that has ended leaves no lock behind unless it was disturbed.    *)
THEOREM NoOrphans == Spec => []NoOrphanLock
  <1>1. Init => OwnerAccounted
    BY CallsAssumption DEF Init, OwnerAccounted
  <1>2. TypeOK /\ OwnerAccounted => NoOrphanLock
    BY DEF TypeOK, LeaderStages, OwnerAccounted, NoOrphanLock
  <1>3. QED
    BY <1>1, <1>2, OwnerAccountedStep, TypeCorrect, PTL DEF Spec

-----------------------------------------------------------------------------
(* While nothing calls for duplicate work, the leader is the owner of the  *)
(* lock, only the leader works, and it works only on an empty cache.       *)

Exclusive ==
    clean =>
        /\ \A c \in leaders : owner = c
        /\ \A c \in Calls : pc[c] \in {"recheck", "work", "write"} => c \in leaders
        /\ \A c \in Calls : pc[c] \in {"work", "write"} => stores = {}
        /\ stores # {} => cached # NoCall
        /\ \A c, d \in stores : c = d

LEMMA ExclusiveStep == TypeOK /\ TypeOK' /\ Exclusive /\ [Next]_vars => Exclusive'
  <1> SUFFICES ASSUME TypeOK, TypeOK', Exclusive, [Next]_vars PROVE Exclusive'
    OBVIOUS
  <1> USE CallsAssumption DEF TypeOK, Stages, LeaderStages, Exclusive, Goto, Leave, SetIfAbsent,
          CompareAndDelete, Store, PerhapsExecuted, lock, entry, outcome, result
  <1>1. ASSUME NEW c \in Calls, Begin(c) PROVE Exclusive'
    BY <1>1 DEF Begin
  <1>2. ASSUME NEW c \in Calls, Acquire(c) PROVE Exclusive'
    BY <1>2 DEF Acquire
  <1>3. ASSUME NEW c \in Calls, AcquireFails(c) PROVE Exclusive'
    BY <1>3 DEF AcquireFails
  <1>4. ASSUME NEW c \in Calls, Recheck(c) PROVE Exclusive'
    BY <1>4 DEF Recheck
  <1>5. ASSUME NEW c \in Calls, LookupFails(c) PROVE Exclusive'
    BY <1>5 DEF LookupFails
  <1>6. ASSUME NEW c \in Calls, Compute(c) PROVE Exclusive'
    BY <1>6 DEF Compute
  <1>7. ASSUME NEW c \in Calls, Write(c) PROVE Exclusive'
    BY <1>7 DEF Write
  <1>8. ASSUME NEW c \in Calls, WriteFails(c) PROVE Exclusive'
    BY <1>8 DEF WriteFails
  <1>9. ASSUME NEW c \in Calls, Release(c) PROVE Exclusive'
    BY <1>9 DEF Release
  <1>10. ASSUME NEW c \in Calls, ReleaseFails(c) PROVE Exclusive'
    BY <1>10 DEF ReleaseFails
  <1>11. ASSUME NEW c \in Calls, Sleep(c) PROVE Exclusive'
    BY <1>11 DEF Sleep
  <1>12. ASSUME NEW c \in Calls, Timeout(c) PROVE Exclusive'
    BY <1>12 DEF Timeout
  <1>13. ASSUME NEW c \in Calls, Poll(c) PROVE Exclusive'
    BY <1>13 DEF Poll
  <1>14. ASSUME NEW c \in Calls, Check(c) PROVE Exclusive'
    BY <1>14 DEF Check
  <1>15. ASSUME NEW c \in Calls, Cancel(c) PROVE Exclusive'
    BY <1>15 DEF Cancel
  <1>16. ASSUME NEW c \in Calls, Crash(c) PROVE Exclusive'
    BY <1>16 DEF Crash
  <1>17. CASE LockExpires
    BY <1>17 DEF LockExpires
  <1>18. CASE EntryExpires
    BY <1>18 DEF EntryExpires
  <1>19. CASE UNCHANGED vars
    BY <1>19 DEF vars
  <1>20. QED
    BY <1>1, <1>2, <1>3, <1>4, <1>5, <1>6, <1>7, <1>8, <1>9, <1>10, <1>11,
       <1>12, <1>13, <1>14, <1>15, <1>16, <1>17, <1>18, <1>19 DEF Next, Proceed

(* The cache is filled at most once.                                       *)
THEOREM FilledOnce == Spec => []StoredOnce
  <1>1. Init => Exclusive
    BY DEF Init, Exclusive
  <1>2. Exclusive => StoredOnce
    BY DEF Exclusive, StoredOnce
  <1>3. QED
    BY <1>1, <1>2, ExclusiveStep, TypeCorrect, PTL DEF Spec

-----------------------------------------------------------------------------
(* The lock in Redis is taken away from a caller by its own release or by  *)
(* its expiry, in any state.                                               *)

LockKept ==
    \A c \in Calls : owner = c /\ owner' # c =>
        owner' = NoCall /\ (pc[c] = "release" \/ pc' = pc)

LEMMA LockKeptStep == TypeOK /\ [Next]_vars => LockKept
  <1> SUFFICES ASSUME TypeOK, [Next]_vars PROVE LockKept
    OBVIOUS
  <1> USE CallsAssumption DEF TypeOK, Stages, LeaderStages, LockKept, Goto, Leave, SetIfAbsent,
          CompareAndDelete, Store, PerhapsExecuted, lock, entry, outcome, result
  <1>1. ASSUME NEW c \in Calls, Begin(c) PROVE LockKept
    BY <1>1 DEF Begin
  <1>2. ASSUME NEW c \in Calls, Acquire(c) PROVE LockKept
    BY <1>2 DEF Acquire
  <1>3. ASSUME NEW c \in Calls, AcquireFails(c) PROVE LockKept
    BY <1>3 DEF AcquireFails
  <1>4. ASSUME NEW c \in Calls, Recheck(c) PROVE LockKept
    BY <1>4 DEF Recheck
  <1>5. ASSUME NEW c \in Calls, LookupFails(c) PROVE LockKept
    BY <1>5 DEF LookupFails
  <1>6. ASSUME NEW c \in Calls, Compute(c) PROVE LockKept
    BY <1>6 DEF Compute
  <1>7. ASSUME NEW c \in Calls, Write(c) PROVE LockKept
    BY <1>7 DEF Write
  <1>8. ASSUME NEW c \in Calls, WriteFails(c) PROVE LockKept
    BY <1>8 DEF WriteFails
  <1>9. ASSUME NEW c \in Calls, Release(c) PROVE LockKept
    BY <1>9 DEF Release
  <1>10. ASSUME NEW c \in Calls, ReleaseFails(c) PROVE LockKept
    BY <1>10 DEF ReleaseFails
  <1>11. ASSUME NEW c \in Calls, Sleep(c) PROVE LockKept
    BY <1>11 DEF Sleep
  <1>12. ASSUME NEW c \in Calls, Timeout(c) PROVE LockKept
    BY <1>12 DEF Timeout
  <1>13. ASSUME NEW c \in Calls, Poll(c) PROVE LockKept
    BY <1>13 DEF Poll
  <1>14. ASSUME NEW c \in Calls, Check(c) PROVE LockKept
    BY <1>14 DEF Check
  <1>15. ASSUME NEW c \in Calls, Cancel(c) PROVE LockKept
    BY <1>15 DEF Cancel
  <1>16. ASSUME NEW c \in Calls, Crash(c) PROVE LockKept
    BY <1>16 DEF Crash
  <1>17. CASE LockExpires
    BY <1>17 DEF LockExpires
  <1>18. CASE EntryExpires
    BY <1>18 DEF EntryExpires
  <1>19. CASE UNCHANGED vars
    BY <1>19 DEF vars
  <1>20. QED
    BY <1>1, <1>2, <1>3, <1>4, <1>5, <1>6, <1>7, <1>8, <1>9, <1>10, <1>11,
       <1>12, <1>13, <1>14, <1>15, <1>16, <1>17, <1>18, <1>19 DEF Next, Proceed

(* No other call ever takes a lock from its owner.                         *)
THEOREM OnlyOwnerReleases == Spec => LockTakenOnlyByOwner
  <1>1. TypeOK /\ [Next]_vars => [LockKept]_vars
    BY LockKeptStep
  <1>2. QED
    BY <1>1, TypeCorrect, PTL DEF Spec, LockTakenOnlyByOwner, LockKept

-----------------------------------------------------------------------------
(* Refinement.  What a call holds in its hands is accounted for by the     *)
(* work that was done.                                                     *)

Accounted ==
    /\ cached \in produced \cup {NoCall}
    /\ \A c \in Calls :
        /\ pc[c] \in Stages \ {"write", "release", "done"} =>
               c \notin produced \cup failed /\ ending[c] = "none"
        /\ pc[c] = "write" => c \in produced /\ ending[c] = "none"
        /\ pc[c] = "release" => ending[c] # "none"
        /\ ending[c] = "value" => answer[c] \in produced
        /\ ending[c] # "value" => answer[c] = NoCall
        /\ ending[c] = "raised" => c \in failed /\ c \notin produced

LEMMA AccountedStep == TypeOK /\ TypeOK' /\ Accounted /\ [Next]_vars => Accounted'
  <1> SUFFICES ASSUME TypeOK, TypeOK', Accounted, [Next]_vars PROVE Accounted'
    OBVIOUS
  <1> USE CallsAssumption DEF TypeOK, Stages, LeaderStages, Endings, Accounted, Goto, Leave, SetIfAbsent,
          CompareAndDelete, Store, PerhapsExecuted, lock, entry, outcome, result
  <1>1. ASSUME NEW c \in Calls, Begin(c) PROVE Accounted'
    BY <1>1 DEF Begin
  <1>2. ASSUME NEW c \in Calls, Acquire(c) PROVE Accounted'
    BY <1>2 DEF Acquire
  <1>3. ASSUME NEW c \in Calls, AcquireFails(c) PROVE Accounted'
    BY <1>3 DEF AcquireFails
  <1>4. ASSUME NEW c \in Calls, Recheck(c) PROVE Accounted'
    BY <1>4 DEF Recheck
  <1>5. ASSUME NEW c \in Calls, LookupFails(c) PROVE Accounted'
    BY <1>5 DEF LookupFails
  <1>6. ASSUME NEW c \in Calls, Compute(c) PROVE Accounted'
    BY <1>6 DEF Compute
  <1>7. ASSUME NEW c \in Calls, Write(c) PROVE Accounted'
    BY <1>7 DEF Write
  <1>8. ASSUME NEW c \in Calls, WriteFails(c) PROVE Accounted'
    BY <1>8 DEF WriteFails
  <1>9. ASSUME NEW c \in Calls, Release(c) PROVE Accounted'
    BY <1>9 DEF Release
  <1>10. ASSUME NEW c \in Calls, ReleaseFails(c) PROVE Accounted'
    BY <1>10 DEF ReleaseFails
  <1>11. ASSUME NEW c \in Calls, Sleep(c) PROVE Accounted'
    BY <1>11 DEF Sleep
  <1>12. ASSUME NEW c \in Calls, Timeout(c) PROVE Accounted'
    BY <1>12 DEF Timeout
  <1>13. ASSUME NEW c \in Calls, Poll(c) PROVE Accounted'
    BY <1>13 DEF Poll
  <1>14. ASSUME NEW c \in Calls, Check(c) PROVE Accounted'
    BY <1>14 DEF Check
  <1>15. ASSUME NEW c \in Calls, Cancel(c) PROVE Accounted'
    BY <1>15 DEF Cancel
  <1>16. ASSUME NEW c \in Calls, Crash(c) PROVE Accounted'
    BY <1>16 DEF Crash
  <1>17. CASE LockExpires
    BY <1>17 DEF LockExpires
  <1>18. CASE EntryExpires
    BY <1>18 DEF EntryExpires
  <1>19. CASE UNCHANGED vars
    BY <1>19 DEF vars
  <1>20. QED
    BY <1>1, <1>2, <1>3, <1>4, <1>5, <1>6, <1>7, <1>8, <1>9, <1>10, <1>11,
       <1>12, <1>13, <1>14, <1>15, <1>16, <1>17, <1>18, <1>19 DEF Next, Proceed

(* What a step of call c does, seen from outside: nothing, the work of c   *)
(* succeeds or fails, or c ends in one of the three ways.                  *)
CallStep(c) ==
    /\ pc[c] # "done"
    /\ \A d \in Calls \ {c} :
           pc'[d] = pc[d] /\ ending'[d] = ending[d] /\ answer'[d] = answer[d]
    /\ \/ pc'[c] # "done" /\ produced' = produced /\ failed' = failed
       \/ /\ pc'[c] # "done" /\ c \notin produced \cup failed
          /\ \/ produced' = produced \cup {c} /\ failed' = failed
             \/ failed' = failed \cup {c} /\ produced' = produced
       \/ /\ pc'[c] = "done" /\ ending'[c] = "value" /\ answer'[c] \in produced
          /\ produced' = produced /\ failed' = failed
       \/ /\ pc'[c] = "done" /\ ending'[c] = "raised" /\ answer'[c] = NoCall
          /\ c \notin produced
          /\ produced' = produced /\ failed' = failed \cup {c}
       \/ /\ pc'[c] = "done" /\ ending'[c] = "interrupted" /\ answer'[c] = NoCall
          /\ produced' = produced /\ failed' = failed

Unseen == UNCHANGED <<pc, produced, failed, ending, answer>>

LEMMA SeenFromOutside ==
    TypeOK /\ Accounted /\ [Next]_vars => Unseen \/ \E c \in Calls : CallStep(c)
  <1> SUFFICES ASSUME TypeOK, Accounted, [Next]_vars
               PROVE Unseen \/ \E c \in Calls : CallStep(c)
    OBVIOUS
  <1> USE CallsAssumption DEF TypeOK, Stages, LeaderStages, Endings, Accounted, Unseen, Goto, Leave, SetIfAbsent,
          CompareAndDelete, Store, PerhapsExecuted, lock, entry, outcome, result
  <1>1. ASSUME NEW c \in Calls, Begin(c) PROVE CallStep(c)
    BY <1>1 DEF CallStep, Begin
  <1>2. ASSUME NEW c \in Calls, Acquire(c) PROVE CallStep(c)
    BY <1>2 DEF CallStep, Acquire
  <1>3. ASSUME NEW c \in Calls, AcquireFails(c) PROVE CallStep(c)
    BY <1>3 DEF CallStep, AcquireFails
  <1>4. ASSUME NEW c \in Calls, Recheck(c) PROVE CallStep(c)
    BY <1>4 DEF CallStep, Recheck
  <1>5. ASSUME NEW c \in Calls, LookupFails(c) PROVE CallStep(c)
    BY <1>5 DEF CallStep, LookupFails
  <1>6. ASSUME NEW c \in Calls, Compute(c) PROVE CallStep(c)
    BY <1>6 DEF CallStep, Compute
  <1>7. ASSUME NEW c \in Calls, Write(c) PROVE CallStep(c)
    BY <1>7 DEF CallStep, Write
  <1>8. ASSUME NEW c \in Calls, WriteFails(c) PROVE CallStep(c)
    BY <1>8 DEF CallStep, WriteFails
  <1>9. ASSUME NEW c \in Calls, Release(c) PROVE CallStep(c)
    BY <1>9 DEF CallStep, Release
  <1>10. ASSUME NEW c \in Calls, ReleaseFails(c) PROVE CallStep(c)
    BY <1>10 DEF CallStep, ReleaseFails
  <1>11. ASSUME NEW c \in Calls, Sleep(c) PROVE CallStep(c)
    BY <1>11 DEF CallStep, Sleep
  <1>12. ASSUME NEW c \in Calls, Timeout(c) PROVE CallStep(c)
    BY <1>12 DEF CallStep, Timeout
  <1>13. ASSUME NEW c \in Calls, Poll(c) PROVE CallStep(c)
    BY <1>13 DEF CallStep, Poll
  <1>14. ASSUME NEW c \in Calls, Check(c) PROVE CallStep(c)
    BY <1>14 DEF CallStep, Check
  <1>15. ASSUME NEW c \in Calls, Cancel(c) PROVE CallStep(c)
    BY <1>15 DEF CallStep, Cancel
  <1>16. ASSUME NEW c \in Calls, Crash(c) PROVE CallStep(c)
    BY <1>16 DEF CallStep, Crash
  <1>17. CASE LockExpires
    BY <1>17 DEF LockExpires
  <1>18. CASE EntryExpires
    BY <1>18 DEF EntryExpires
  <1>19. CASE UNCHANGED vars
    BY <1>19 DEF vars
  <1>20. QED
    BY <1>1, <1>2, <1>3, <1>4, <1>5, <1>6, <1>7, <1>8, <1>9, <1>10, <1>11,
       <1>12, <1>13, <1>14, <1>15, <1>16, <1>17, <1>18, <1>19 DEF Next, Proceed

ShownEnding == [c \in Calls |-> IF pc[c] = "done" THEN ending[c] ELSE "none"]
ShownAnswer == [c \in Calls |-> IF pc[c] = "done" THEN answer[c] ELSE NoCall]

LEMMA RefinementStep ==
    TypeOK /\ TypeOK' /\ Accounted /\ [Next]_vars => [Abstract!ANext]_(Abstract!avars)
  <1> SUFFICES ASSUME TypeOK, TypeOK', Accounted, [Next]_vars
               PROVE Abstract!ANext \/ UNCHANGED Abstract!avars
    OBVIOUS
  <1> USE DEF TypeOK
  <1>1. CASE Unseen
    BY <1>1 DEF Unseen, Abstract!avars
  <1>2. ASSUME NEW c \in Calls, CallStep(c)
        PROVE Abstract!ANext \/ UNCHANGED Abstract!avars
    <2>1. CASE pc'[c] # "done"
      <3>1. ShownEnding[c] = "none" /\ ShownEnding' = ShownEnding /\ ShownAnswer' = ShownAnswer
        BY <1>2, <2>1 DEF CallStep, ShownEnding, ShownAnswer
      <3>2. QED
        BY <1>2, <2>1, <3>1 DEF CallStep, ShownEnding, ShownAnswer, Abstract!ANext,
           Abstract!avars, Abstract!Produce, Abstract!FailWork
    <2>2. CASE pc'[c] = "done"
      <3>1. /\ ShownEnding[c] = "none"
            /\ ShownEnding' = [ShownEnding EXCEPT ![c] = ending'[c]]
        BY <1>2, <2>2 DEF CallStep, ShownEnding
      <3>2. /\ ShownAnswer' = [ShownAnswer EXCEPT ![c] = answer'[c]]
            /\ answer'[c] = NoCall => ShownAnswer' = ShownAnswer
        BY <1>2, <2>2 DEF CallStep, ShownAnswer
      <3>3. CASE ending'[c] = "value"
        <4>1. Abstract!Answer(c)
          BY <1>2, <2>2, <3>1, <3>2, <3>3
          DEF CallStep, ShownEnding, ShownAnswer, Abstract!Answer
        <4>2. QED
          BY <4>1 DEF Abstract!ANext
      <3>4. CASE ending'[c] = "raised"
        <4>1. Abstract!Raise(c)
          BY <1>2, <2>2, <3>1, <3>2, <3>4
          DEF CallStep, ShownEnding, ShownAnswer, Abstract!Raise
        <4>2. QED
          BY <4>1 DEF Abstract!ANext
      <3>5. CASE ending'[c] = "interrupted"
        <4>1. Abstract!Interrupt(c)
          BY <1>2, <2>2, <3>1, <3>2, <3>5
          DEF CallStep, ShownEnding, ShownAnswer, Abstract!Interrupt
        <4>2. QED
          BY <4>1 DEF Abstract!ANext
      <3>6. QED
        BY <1>2, <2>2, <3>3, <3>4, <3>5 DEF CallStep
    <2>3. QED
      BY <2>1, <2>2
  <1>3. QED
    BY <1>1, <1>2, SeenFromOutside

(* The calls implement AuthoritativeCall: a call returns a value that some *)
(* call's work produced, raises only the error of its own work, and ends   *)
(* once, whatever happens to the lock and to Redis.                        *)
THEOREM Refinement == Spec => ImplementsAuthoritativeCall
  <1>1. Init => Abstract!AInit
    BY DEF Init, Abstract!AInit
  <1>2. Init => Accounted
    BY DEF Init, Accounted, Stages
  <1>3. QED
    BY <1>1, <1>2, AccountedStep, RefinementStep, TypeCorrect, PTL
    DEF Spec, ImplementsAuthoritativeCall, Abstract!ASpec

-----------------------------------------------------------------------------
(* The breaker that every command of the lock and the cache goes through   *)
(* (CircuitBreaker), for every number of callers, every threshold and      *)
(* every pair of durations with TimeoutTicks < OpenTicks.                  *)
(*                                                                         *)
(* The heart of the argument is OldCommandsExpire: a command that is still *)
(* running while the circuit is open was started before it opened, so it   *)
(* is at least as old as the open state; hence none is left when the       *)
(* circuit has cooled, and the probe starts alone.                         *)

FlagIsHalfOpen == IF state = "half_open" THEN probing = TRUE ELSE probing = FALSE

OldCommandsExpire ==
    state = "open" => \A c \in Callers : Running(c) => age[c] >= openAge

BreakerInv ==
    /\ BTypeOK
    /\ FlagIsHalfOpen
    /\ OldCommandsExpire
    /\ ProbeAlone
    /\ ClosedBelowThreshold
    /\ ProbeFlagBacked

Booleans == probing \in BOOLEAN /\ redisUp \in BOOLEAN /\ probeLost \in BOOLEAN

LEMMA BreakerInit == BInit => BreakerInv
  <1> SUFFICES ASSUME BInit PROVE BreakerInv
    OBVIOUS
  <1>1. Booleans
    BY DEF BInit, Booleans
  <1>2. BTypeOK
    BY <1>1, BreakerAssumption DEF BInit, BTypeOK, States, Commands, Booleans
  <1>3. QED
    BY <1>2, BreakerAssumption DEF BInit, BreakerInv, FlagIsHalfOpen, OldCommandsExpire,
       ProbeAlone, ClosedBelowThreshold, ProbeFlagBacked, Running

(* A circuit that has cooled has no command left in flight.                *)
LEMMA CooledIsQuiet ==
  ASSUME BreakerInv, state = "open", Cooled
  PROVE  \A c \in Callers : ~Running(c)
  BY BreakerAssumption DEF BreakerInv, BTypeOK, OldCommandsExpire, Cooled

LEMMA BreakerStep == BreakerInv /\ [BNext]_bvars => BreakerInv'
  <1> SUFFICES ASSUME BreakerInv, [BNext]_bvars PROVE BreakerInv'
    OBVIOUS
  <1> USE BreakerAssumption DEF BreakerInv, BTypeOK, States, Commands, FlagIsHalfOpen,
     OldCommandsExpire, ProbeAlone, ClosedBelowThreshold, ProbeFlagBacked, Running
  <1>1. ASSUME NEW c \in Callers, Admit(c) PROVE BreakerInv'
    <2>1. Booleans'
      BY <1>1 DEF Admit, breaker, Booleans
    <2>2. CASE state = "closed"
      BY <1>1, <2>1, <2>2 DEF Admit, breaker, Booleans
    <2>3. CASE state # "closed"
      <3>1. \A d \in Callers : ~Running(d)
        BY <1>1, <2>3, CooledIsQuiet DEF Admit
      <3>2. QED
        BY <1>1, <2>1, <2>3, <3>1 DEF Admit, Booleans
    <2>4. QED
      BY <2>2, <2>3
  <1>2. ASSUME NEW c \in Callers, Refuse(c) PROVE BreakerInv'
    BY <1>2 DEF Refuse
  <1>3. ASSUME NEW c \in Callers, Succeed(c) PROVE BreakerInv'
    <2>1. Booleans'
      BY <1>3 DEF Succeed, RecordSuccess, Booleans
    <2>2. QED
      BY <1>3, <2>1 DEF Succeed, EndCommand, RecordSuccess, Booleans
  <1>4. ASSUME NEW c \in Callers, Fail(c) PROVE BreakerInv'
    <2>1. Booleans'
      BY <1>4 DEF Fail, RecordFailure, Booleans
    <2>2. QED
      BY <1>4, <2>1 DEF Fail, EndCommand, RecordFailure, AtMost, Booleans
  <1>5. ASSUME NEW c \in Callers, CancelCommand(c) PROVE BreakerInv'
    BY <1>5 DEF CancelCommand, EndCommand
  <1>6. CASE Tick
    BY <1>6 DEF Tick, AtMost
  <1>7. CASE RedisChanges
    BY <1>7 DEF RedisChanges
  <1>8. CASE UNCHANGED bvars
    BY <1>8 DEF bvars
  <1>9. QED
    BY <1>1, <1>2, <1>3, <1>4, <1>5, <1>6, <1>7, <1>8 DEF BNext

THEOREM BreakerInvariant == BSpec => []BreakerInv
  BY BreakerInit, BreakerStep, PTL DEF BSpec

(* The variables keep their types: the in-flight age never exceeds the     *)
(* operation timeout.                                                      *)
THEOREM BreakerTypes == BSpec => []BTypeOK
  <1>1. BreakerInv => BTypeOK
    BY DEF BreakerInv
  <1>2. QED
    BY <1>1, BreakerInvariant, PTL

(* Half-open, the probe is alone in flight.                                *)
THEOREM ProbeIsAlone == BSpec => []ProbeAlone
  <1>1. BreakerInv => ProbeAlone
    BY DEF BreakerInv
  <1>2. QED
    BY <1>1, BreakerInvariant, PTL

(* An open circuit is quiet once it is older than the operation timeout.   *)
THEOREM OpenGoesQuiet == BSpec => []QuietWhileOpen
  <1>1. BreakerInv => QuietWhileOpen
    <2> SUFFICES ASSUME BreakerInv, state = "open", openAge > TimeoutTicks, NEW c \in Callers
                 PROVE  ~Running(c)
      BY DEF QuietWhileOpen
    <2>1. /\ age[c] \in 0 .. TimeoutTicks
          /\ openAge \in 0 .. OpenTicks
          /\ Running(c) => age[c] >= openAge
      BY DEF BreakerInv, BTypeOK, OldCommandsExpire
    <2>2. QED
      BY <2>1, BreakerAssumption
  <1>2. QED
    BY <1>1, BreakerInvariant, PTL

(* A closed circuit is below its threshold.                                *)
THEOREM ClosedIsBelowThreshold == BSpec => []ClosedBelowThreshold
  <1>1. BreakerInv => ClosedBelowThreshold
    BY DEF BreakerInv
  <1>2. QED
    BY <1>1, BreakerInvariant, PTL

(* The half-open flag is backed by a running probe, unless one was         *)
(* cancelled.                                                              *)
THEOREM FlagIsBacked == BSpec => []ProbeFlagBacked
  <1>1. BreakerInv => ProbeFlagBacked
    BY DEF BreakerInv
  <1>2. QED
    BY <1>1, BreakerInvariant, PTL

(* A cancelled probe disables the store for the life of the process, under *)
(* every schedule and for all values of the constants.                     *)
THEOREM WedgeIsForever == BSpec => WedgeIsPermanent
  <1>1. Wedged /\ [BNext]_bvars => Wedged'
    <2> SUFFICES ASSUME Wedged, [BNext]_bvars PROVE Wedged'
      OBVIOUS
    <2> USE DEF Wedged, Running
    <2>1. ASSUME NEW c \in Callers, Admit(c) PROVE FALSE
      BY <2>1 DEF Admit
    <2>2. ASSUME NEW c \in Callers, Refuse(c) PROVE Wedged'
      BY <2>2 DEF Refuse
    <2>3. ASSUME NEW c \in Callers, EndCommand(c) PROVE FALSE
      BY <2>3 DEF EndCommand
    <2>4. CASE Tick
      BY <2>4 DEF Tick
    <2>5. CASE RedisChanges
      BY <2>5 DEF RedisChanges
    <2>6. CASE UNCHANGED bvars
      BY <2>6 DEF bvars
    <2>7. QED
      BY <2>1, <2>2, <2>3, <2>4, <2>5, <2>6 DEF BNext, Succeed, Fail, CancelCommand
  <1>2. QED
    BY <1>1, PTL DEF BSpec, WedgeIsPermanent
=============================================================================
