---------------------- MODULE TextEmbeddingBatchProofs ----------------------
(***************************************************************************)
(* Proofs about TextEmbeddingBatch for any batches, texts and inputs: its  *)
(* types, that batches do not hold locks while they wait, that they forget *)
(* no text, and that every text is encoded once while nothing calls for    *)
(* duplicate work.                                                         *)
(***************************************************************************)
EXTENDS TextEmbeddingBatch, TLAPS

-----------------------------------------------------------------------------
(* Types.                                                                  *)

LEMMA TypeInit == Init => TypeOK
  BY BatchAssumption DEF Init, TypeOK, Stages, Guarded, Endings

LEMMA TriedTypes ==
    ASSUME TypeOK, NEW b \in Batches, NEW t \in Texts, NEW stage \in Stages,
           Tried(b, t, stage)
    PROVE  pc' \in [Batches -> Stages] /\ todo' \in [Batches -> SUBSET (Texts \ Blank)]
  BY DEF TypeOK, Tried, NextPart, Goto, Stages, Guarded

LEMMA ExecutedTypes ==
    ASSUME TypeOK, NEW b \in Batches, NEW T \in SUBSET Texts, PerhapsExecuted(b, T)
    PROVE  /\ lock' \in [Texts -> Batches \cup {NoBatch}]
           /\ cached' \subseteq Texts \ Blank
           /\ legacy' \subseteq Texts \ Blank
  BY DEF TypeOK, PerhapsExecuted, CompareAndDelete

LEMMA AcquireFailsTypes ==
    ASSUME TypeOK, NEW b \in Batches, NEW t \in Texts, AcquireFails(b, t)
    PROVE  TypeOK'
  <1>1. pc' \in [Batches -> Stages] /\ todo' \in [Batches -> SUBSET (Texts \ Blank)]
    <2>1. "acquire" \in Stages
      BY DEF Stages
    <2>2. QED
      BY <2>1, TriedTypes DEF AcquireFails
  <1>2. /\ lock' \in [Texts -> Batches \cup {NoBatch}]
        /\ cached' \subseteq Texts \ Blank
        /\ legacy' \subseteq Texts \ Blank
    <2>1. {t} \in SUBSET Texts
      OBVIOUS
    <2>2. QED
      BY <2>1, ExecutedTypes DEF AcquireFails
  <1>3. /\ local' \in [Batches -> SUBSET Texts]
        /\ disturbed' \in [Batches -> SUBSET Texts]
    BY DEF TypeOK, AcquireFails, LosesTrack
  <1>4. /\ written' \in [Batches -> SUBSET (Texts \ Blank)]
        /\ clean' \in BOOLEAN
    BY DEF AcquireFails, Tainted
  <1>5. UNCHANGED <<input, resolved, free, contended, owned, fresh, ending>>
    BY DEF AcquireFails
  <1>6. QED
    BY <1>1, <1>2, <1>3, <1>4, <1>5 DEF TypeOK

LEMMA TakeoverFailsTypes ==
    ASSUME TypeOK, NEW b \in Batches, NEW t \in Texts, TakeoverFails(b, t)
    PROVE  TypeOK'
  <1>1. pc' \in [Batches -> Stages] /\ todo' \in [Batches -> SUBSET (Texts \ Blank)]
    <2>1. "locked" \in Stages
      BY DEF Stages
    <2>2. QED
      BY <2>1, TriedTypes DEF TakeoverFails
  <1>2. /\ lock' \in [Texts -> Batches \cup {NoBatch}]
        /\ cached' \subseteq Texts \ Blank
        /\ legacy' \subseteq Texts \ Blank
        /\ disturbed' \in [Batches -> SUBSET Texts]
    <2>1. CASE UNCHANGED <<redis, disturbed>>
      BY <2>1 DEF TypeOK, redis
    <2>2. CASE PerhapsExecuted(b, {t}) /\ LosesTrack(b, {t})
      <3>1. {t} \in SUBSET Texts
        OBVIOUS
      <3>2. disturbed' \in [Batches -> SUBSET Texts]
        BY <2>2 DEF TypeOK, LosesTrack
      <3>3. QED
        BY <2>2, <3>1, <3>2, ExecutedTypes
    <2>3. QED
      BY <2>1, <2>2 DEF TakeoverFails
  <1>3. /\ local' \in [Batches -> SUBSET Texts]
        /\ free' \in [Batches -> SUBSET (Texts \ Blank)]
        /\ contended' \in [Batches -> SUBSET (Texts \ Blank)]
    BY DEF TypeOK, TakeoverFails
  <1>4. /\ written' \in [Batches -> SUBSET (Texts \ Blank)]
        /\ clean' \in BOOLEAN
    BY DEF TakeoverFails, Tainted
  <1>5. UNCHANGED <<input, resolved, owned, fresh, ending>>
    BY DEF TakeoverFails
  <1>6. QED
    BY <1>1, <1>2, <1>3, <1>4, <1>5 DEF TypeOK

LEMMA TypeStep == TypeOK /\ [Next]_vars => TypeOK'
  <1> SUFFICES ASSUME TypeOK, [Next]_vars PROVE TypeOK'
    OBVIOUS
  <1> USE BatchAssumption
      DEF TypeOK, Stages, Guarded, Endings, redis, work, history, Goto,
          Missing, Unencoded, NextPart, Tried, Finally, Own, CompareAndDelete,
          Subjects, PerhapsExecuted, LosesTrack, Tainted
  <1>1. ASSUME NEW b \in Batches, Begin(b) PROVE TypeOK'
    BY <1>1 DEF Begin
  <1>2. ASSUME NEW b \in Batches, Read(b) PROVE TypeOK'
    BY <1>2 DEF Read
  <1>3. ASSUME NEW b \in Batches, ReadFails(b) PROVE TypeOK'
    BY <1>3 DEF ReadFails
  <1>4. ASSUME NEW b \in Batches, ReadLegacy(b) PROVE TypeOK'
    BY <1>4 DEF ReadLegacy
  <1>5. ASSUME NEW b \in Batches, Promote(b) PROVE TypeOK'
    BY <1>5 DEF Promote, AfterPromotion
  <1>6. ASSUME NEW b \in Batches, PromoteFails(b) PROVE TypeOK'
    BY <1>6 DEF PromoteFails, AfterPromotion
  <1>7. ASSUME NEW b \in Batches, Recheck(b) PROVE TypeOK'
    BY <1>7 DEF Recheck
  <1>8. ASSUME NEW b \in Batches, RecheckFails(b) PROVE TypeOK'
    BY <1>8 DEF RecheckFails
  <1>9. ASSUME NEW b \in Batches, Encode(b) PROVE TypeOK'
    BY <1>9 DEF Encode
  <1>10. ASSUME NEW b \in Batches, EncoderRaises(b) PROVE TypeOK'
    BY <1>10 DEF EncoderRaises
  <1>11. ASSUME NEW b \in Batches, Write(b) PROVE TypeOK'
    BY <1>11 DEF Write
  <1>12. ASSUME NEW b \in Batches, WriteFails(b) PROVE TypeOK'
    BY <1>12 DEF WriteFails
  <1>13. ASSUME NEW b \in Batches, Sleep(b) PROVE TypeOK'
    BY <1>13 DEF Sleep
  <1>14. ASSUME NEW b \in Batches, Poll(b) PROVE TypeOK'
    BY <1>14 DEF Poll
  <1>15. ASSUME NEW b \in Batches, PollFails(b) PROVE TypeOK'
    BY <1>15 DEF PollFails, GiveUpWaiting
  <1>16. ASSUME NEW b \in Batches, Timeout(b) PROVE TypeOK'
    BY <1>16 DEF Timeout, GiveUpWaiting
  <1>17. ASSUME NEW b \in Batches, Cancel(b) PROVE TypeOK'
    BY <1>17 DEF Cancel, Dropped
  <1>18. ASSUME NEW b \in Batches, Crash(b) PROVE TypeOK'
    BY <1>18 DEF Crash, Dropped
  <1>19. ASSUME NEW b \in Batches, NEW t \in Texts, Acquire(b, t) PROVE TypeOK'
    BY <1>19 DEF Acquire
  <1>20. ASSUME NEW b \in Batches, NEW t \in Texts, AcquireFails(b, t) PROVE TypeOK'
    BY <1>20, AcquireFailsTypes
  <1>21. ASSUME NEW b \in Batches, NEW t \in Texts, Release(b, t) PROVE TypeOK'
    BY <1>21 DEF Release
  <1>22. ASSUME NEW b \in Batches, NEW t \in Texts, ReleaseFails(b, t) PROVE TypeOK'
    BY <1>22 DEF ReleaseFails
  <1>23. ASSUME NEW b \in Batches, NEW t \in Texts, IsLocked(b, t) PROVE TypeOK'
    BY <1>23 DEF IsLocked
  <1>24. ASSUME NEW b \in Batches, NEW t \in Texts, Retake(b, t) PROVE TypeOK'
    <2>1. pc' \in [Batches -> Stages] /\ todo' \in [Batches -> SUBSET (Texts \ Blank)]
      BY <1>24, TriedTypes DEF Retake
    <2>2. QED
      BY <1>24, <2>1 DEF Retake
  <1>25. ASSUME NEW b \in Batches, NEW t \in Texts, TakeoverFails(b, t) PROVE TypeOK'
    BY <1>25, TakeoverFailsTypes
  <1>26. ASSUME NEW t \in Texts, LockExpires(t) PROVE TypeOK'
    BY <1>26 DEF LockExpires
  <1>27. ASSUME NEW t \in Texts, EntryExpires(t) PROVE TypeOK'
    BY <1>27 DEF EntryExpires
  <1>28. ASSUME NEW t \in Texts, LegacyExpires(t) PROVE TypeOK'
    BY <1>28 DEF LegacyExpires
  <1>29. CASE UNCHANGED vars
    BY <1>29 DEF vars
  <1>30. QED
    BY <1>1, <1>2, <1>3, <1>4, <1>5, <1>6, <1>7, <1>8, <1>9, <1>10, <1>11,
       <1>12, <1>13, <1>14, <1>15, <1>16, <1>17, <1>18, <1>19, <1>20, <1>21,
       <1>22, <1>23, <1>24, <1>25, <1>26, <1>27, <1>28, <1>29 DEF Next, Proceed

(* Every variable keeps its type; blank texts never meet lock or cache.    *)
THEOREM TypeCorrect == Spec => []TypeOK
  BY TypeInit, TypeStep, PTL DEF Spec

-----------------------------------------------------------------------------
(* No batch waits while it holds a lock.  Every lock belongs to a batch    *)
(* that owns it or lost track of it, and a batch that waits owns nothing.  *)

OwnerKnown == \A b \in Batches, t \in Texts : lock[t] = b => t \in owned[b] \cup disturbed[b]

EmptyHanded ==
    \A b \in Batches :
        pc[b] \in {"idle", "read", "legacy", "promote", "wait", "poll", "done"} => owned[b] = {}

LEMMA ExecutedLocks ==
    ASSUME TypeOK, NEW b \in Batches, NEW T, PerhapsExecuted(b, T), NEW t \in Texts
    PROVE  lock'[t] \in {lock[t], NoBatch} \/ (lock'[t] = b /\ t \in T)
  BY DEF TypeOK, PerhapsExecuted, CompareAndDelete

LEMMA OwnerKnownStep == TypeOK /\ OwnerKnown /\ [Next]_vars => OwnerKnown'
  <1> SUFFICES ASSUME TypeOK, OwnerKnown, [Next]_vars PROVE OwnerKnown'
    OBVIOUS
  <1> USE BatchAssumption
      DEF TypeOK, OwnerKnown, redis, work, history, Own, CompareAndDelete, LosesTrack, Tainted
  <1>1. ASSUME NEW b \in Batches, Begin(b) PROVE OwnerKnown'
    BY <1>1 DEF Begin
  <1>2. ASSUME NEW b \in Batches, Read(b) PROVE OwnerKnown'
    BY <1>2 DEF Read
  <1>3. ASSUME NEW b \in Batches, ReadFails(b) PROVE OwnerKnown'
    BY <1>3 DEF ReadFails
  <1>4. ASSUME NEW b \in Batches, ReadLegacy(b) PROVE OwnerKnown'
    BY <1>4 DEF ReadLegacy
  <1>5. ASSUME NEW b \in Batches, Promote(b) PROVE OwnerKnown'
    BY <1>5 DEF Promote, AfterPromotion
  <1>6. ASSUME NEW b \in Batches, PromoteFails(b) PROVE OwnerKnown'
    BY <1>6, ExecutedLocks DEF PromoteFails, AfterPromotion
  <1>7. ASSUME NEW b \in Batches, Recheck(b) PROVE OwnerKnown'
    BY <1>7 DEF Recheck
  <1>8. ASSUME NEW b \in Batches, RecheckFails(b) PROVE OwnerKnown'
    BY <1>8 DEF RecheckFails
  <1>9. ASSUME NEW b \in Batches, Encode(b) PROVE OwnerKnown'
    BY <1>9 DEF Encode
  <1>10. ASSUME NEW b \in Batches, EncoderRaises(b) PROVE OwnerKnown'
    BY <1>10 DEF EncoderRaises
  <1>11. ASSUME NEW b \in Batches, Write(b) PROVE OwnerKnown'
    BY <1>11 DEF Write
  <1>12. ASSUME NEW b \in Batches, WriteFails(b) PROVE OwnerKnown'
    BY <1>12, ExecutedLocks DEF WriteFails
  <1>13. ASSUME NEW b \in Batches, Sleep(b) PROVE OwnerKnown'
    BY <1>13 DEF Sleep
  <1>14. ASSUME NEW b \in Batches, Poll(b) PROVE OwnerKnown'
    BY <1>14 DEF Poll
  <1>15. ASSUME NEW b \in Batches, PollFails(b) PROVE OwnerKnown'
    BY <1>15 DEF PollFails, GiveUpWaiting
  <1>16. ASSUME NEW b \in Batches, Timeout(b) PROVE OwnerKnown'
    BY <1>16 DEF Timeout, GiveUpWaiting
  <1>17. ASSUME NEW b \in Batches, Cancel(b) PROVE OwnerKnown'
    <2>1. \A t \in Texts : lock'[t] \in {lock[t], NoBatch} \/ (lock'[t] = b /\ t \in Subjects(b))
      BY <1>17, ExecutedLocks DEF Cancel
    <2>2. CASE pc[b] \in Guarded
      <3>1. pc[b] \notin {"acquire", "retake", "release"}
        BY <2>2 DEF Guarded
      <3>2. Subjects(b) = {}
        BY <3>1 DEF Subjects
      <3>3. QED
        BY <1>17, <2>1, <2>2, <3>2 DEF Cancel
    <2>3. CASE pc[b] \notin Guarded
      BY <1>17, <2>1, <2>3 DEF Cancel
    <2>4. QED
      BY <2>2, <2>3
  <1>18. ASSUME NEW b \in Batches, Crash(b) PROVE OwnerKnown'
    BY <1>18, ExecutedLocks DEF Crash, Dropped
  <1>19. ASSUME NEW b \in Batches, NEW t \in Texts, Acquire(b, t) PROVE OwnerKnown'
    BY <1>19 DEF Acquire
  <1>20. ASSUME NEW b \in Batches, NEW t \in Texts, AcquireFails(b, t) PROVE OwnerKnown'
    BY <1>20, ExecutedLocks DEF AcquireFails
  <1>21. ASSUME NEW b \in Batches, NEW t \in Texts, Release(b, t) PROVE OwnerKnown'
    BY <1>21 DEF Release
  <1>22. ASSUME NEW b \in Batches, NEW t \in Texts, ReleaseFails(b, t) PROVE OwnerKnown'
    BY <1>22, ExecutedLocks DEF ReleaseFails
  <1>23. ASSUME NEW b \in Batches, NEW t \in Texts, IsLocked(b, t) PROVE OwnerKnown'
    BY <1>23 DEF IsLocked
  <1>24. ASSUME NEW b \in Batches, NEW t \in Texts, Retake(b, t) PROVE OwnerKnown'
    BY <1>24 DEF Retake
  <1>25. ASSUME NEW b \in Batches, NEW t \in Texts, TakeoverFails(b, t) PROVE OwnerKnown'
    BY <1>25, ExecutedLocks DEF TakeoverFails
  <1>26. ASSUME NEW t \in Texts, LockExpires(t) PROVE OwnerKnown'
    BY <1>26 DEF LockExpires
  <1>27. ASSUME NEW t \in Texts, EntryExpires(t) PROVE OwnerKnown'
    BY <1>27 DEF EntryExpires
  <1>28. ASSUME NEW t \in Texts, LegacyExpires(t) PROVE OwnerKnown'
    BY <1>28 DEF LegacyExpires
  <1>29. CASE UNCHANGED vars
    BY <1>29 DEF vars
  <1>30. QED
    BY <1>1, <1>2, <1>3, <1>4, <1>5, <1>6, <1>7, <1>8, <1>9, <1>10, <1>11,
       <1>12, <1>13, <1>14, <1>15, <1>16, <1>17, <1>18, <1>19, <1>20, <1>21,
       <1>22, <1>23, <1>24, <1>25, <1>26, <1>27, <1>28, <1>29 DEF Next, Proceed

LEMMA EmptyHandedStep == TypeOK /\ EmptyHanded /\ [Next]_vars => EmptyHanded'
  <1> SUFFICES ASSUME TypeOK, EmptyHanded, [Next]_vars PROVE EmptyHanded'
    OBVIOUS
  <1> USE DEF TypeOK, EmptyHanded, Stages, Guarded, work, Goto, NextPart, Tried, Finally, Own
  <1>1. ASSUME NEW b \in Batches, Begin(b) PROVE EmptyHanded'
    BY <1>1 DEF Begin
  <1>2. ASSUME NEW b \in Batches, Read(b) PROVE EmptyHanded'
    BY <1>2 DEF Read
  <1>3. ASSUME NEW b \in Batches, ReadFails(b) PROVE EmptyHanded'
    BY <1>3 DEF ReadFails
  <1>4. ASSUME NEW b \in Batches, ReadLegacy(b) PROVE EmptyHanded'
    BY <1>4 DEF ReadLegacy
  <1>5. ASSUME NEW b \in Batches, Promote(b) PROVE EmptyHanded'
    BY <1>5 DEF Promote, AfterPromotion
  <1>6. ASSUME NEW b \in Batches, PromoteFails(b) PROVE EmptyHanded'
    BY <1>6 DEF PromoteFails, AfterPromotion
  <1>7. ASSUME NEW b \in Batches, Recheck(b) PROVE EmptyHanded'
    BY <1>7 DEF Recheck
  <1>8. ASSUME NEW b \in Batches, RecheckFails(b) PROVE EmptyHanded'
    BY <1>8 DEF RecheckFails
  <1>9. ASSUME NEW b \in Batches, Encode(b) PROVE EmptyHanded'
    BY <1>9 DEF Encode
  <1>10. ASSUME NEW b \in Batches, EncoderRaises(b) PROVE EmptyHanded'
    BY <1>10 DEF EncoderRaises
  <1>11. ASSUME NEW b \in Batches, Write(b) PROVE EmptyHanded'
    BY <1>11 DEF Write
  <1>12. ASSUME NEW b \in Batches, WriteFails(b) PROVE EmptyHanded'
    BY <1>12 DEF WriteFails
  <1>13. ASSUME NEW b \in Batches, Sleep(b) PROVE EmptyHanded'
    BY <1>13 DEF Sleep
  <1>14. ASSUME NEW b \in Batches, Poll(b) PROVE EmptyHanded'
    BY <1>14 DEF Poll
  <1>15. ASSUME NEW b \in Batches, PollFails(b) PROVE EmptyHanded'
    BY <1>15 DEF PollFails, GiveUpWaiting
  <1>16. ASSUME NEW b \in Batches, Timeout(b) PROVE EmptyHanded'
    BY <1>16 DEF Timeout, GiveUpWaiting
  <1>17. ASSUME NEW b \in Batches, Cancel(b) PROVE EmptyHanded'
    BY <1>17 DEF Cancel, Dropped
  <1>18. ASSUME NEW b \in Batches, Crash(b) PROVE EmptyHanded'
    BY <1>18 DEF Crash, Dropped
  <1>19. ASSUME NEW b \in Batches, NEW t \in Texts, Acquire(b, t) PROVE EmptyHanded'
    BY <1>19 DEF Acquire
  <1>20. ASSUME NEW b \in Batches, NEW t \in Texts, AcquireFails(b, t) PROVE EmptyHanded'
    BY <1>20 DEF AcquireFails
  <1>21. ASSUME NEW b \in Batches, NEW t \in Texts, Release(b, t) PROVE EmptyHanded'
    BY <1>21 DEF Release
  <1>22. ASSUME NEW b \in Batches, NEW t \in Texts, ReleaseFails(b, t) PROVE EmptyHanded'
    BY <1>22 DEF ReleaseFails
  <1>23. ASSUME NEW b \in Batches, NEW t \in Texts, IsLocked(b, t) PROVE EmptyHanded'
    BY <1>23 DEF IsLocked
  <1>24. ASSUME NEW b \in Batches, NEW t \in Texts, Retake(b, t) PROVE EmptyHanded'
    BY <1>24 DEF Retake
  <1>25. ASSUME NEW b \in Batches, NEW t \in Texts, TakeoverFails(b, t) PROVE EmptyHanded'
    BY <1>25 DEF TakeoverFails
  <1>26. ASSUME NEW t \in Texts, LockExpires(t) PROVE EmptyHanded'
    BY <1>26 DEF LockExpires
  <1>27. ASSUME NEW t \in Texts, EntryExpires(t) PROVE EmptyHanded'
    BY <1>27 DEF EntryExpires
  <1>28. ASSUME NEW t \in Texts, LegacyExpires(t) PROVE EmptyHanded'
    BY <1>28 DEF LegacyExpires
  <1>29. CASE UNCHANGED vars
    BY <1>29 DEF vars
  <1>30. QED
    BY <1>1, <1>2, <1>3, <1>4, <1>5, <1>6, <1>7, <1>8, <1>9, <1>10, <1>11,
       <1>12, <1>13, <1>14, <1>15, <1>16, <1>17, <1>18, <1>19, <1>20, <1>21,
       <1>22, <1>23, <1>24, <1>25, <1>26, <1>27, <1>28, <1>29 DEF Next, Proceed

(* NoHoldAndWait: a batch that waits for the texts of others, or has ended, *)
(* holds no lock it knows of.                                              *)
THEOREM NoHoldAndWaitCorrect == Spec => []NoHoldAndWait
  <1>1. Init => OwnerKnown /\ EmptyHanded
    BY BatchAssumption DEF Init, OwnerKnown, EmptyHanded
  <1>2. OwnerKnown /\ EmptyHanded => NoHoldAndWait
    BY DEF OwnerKnown, EmptyHanded, NoHoldAndWait
  <1>3. QED
    BY <1>1, <1>2, TypeInit, TypeStep, OwnerKnownStep, EmptyHandedStep, PTL DEF Spec

-----------------------------------------------------------------------------
(* No text is forgotten.  A batch knows only its own texts (Within), and   *)
(* as long as nothing went wrong for it, each of them is somewhere in what *)
(* its stage still has to work through (Covered).                          *)

Known(b) == resolved[b] \cup contended[b] \cup local[b] \cup owned[b]

Within ==
    \A b \in Batches :
        /\ Known(b) \cup todo[b] \cup free[b] \subseteq input[b]
        /\ pc[b] = "idle" => input[b] = {}

CoveredBy(b) ==
    /\ pc[b] \in {"read", "legacy"} => input[b] \cap Blank \subseteq local[b]
    /\ pc[b] \in {"promote", "acquire"} => input[b] \subseteq Known(b) \cup todo[b]
    /\ pc[b] \in {"recheck", "encode", "locked", "retake"} => input[b] \subseteq Known(b)
    /\ pc[b] \in {"write", "release", "wait", "poll"} =>
           input[b] \subseteq resolved[b] \cup contended[b]
    /\ pc[b] = "done" => input[b] \subseteq resolved[b]

Covered == \A b \in Batches : ending[b] = "none" => CoveredBy(b)

LEMMA WithinStep == TypeOK /\ Within /\ [Next]_vars => Within'
  <1> SUFFICES ASSUME TypeOK, Within, [Next]_vars PROVE Within'
    OBVIOUS
  <1> USE DEF TypeOK, Within, Known, Stages, Guarded, work, Goto, Missing, Unencoded,
              NextPart, Tried, Finally, Own
  <1>1. ASSUME NEW b \in Batches, Begin(b) PROVE Within'
    BY <1>1 DEF Begin
  <1>2. ASSUME NEW b \in Batches, Read(b) PROVE Within'
    BY <1>2 DEF Read
  <1>3. ASSUME NEW b \in Batches, ReadFails(b) PROVE Within'
    BY <1>3 DEF ReadFails
  <1>4. ASSUME NEW b \in Batches, ReadLegacy(b) PROVE Within'
    BY <1>4 DEF ReadLegacy
  <1>5. ASSUME NEW b \in Batches, Promote(b) PROVE Within'
    BY <1>5 DEF Promote, AfterPromotion
  <1>6. ASSUME NEW b \in Batches, PromoteFails(b) PROVE Within'
    BY <1>6 DEF PromoteFails, AfterPromotion
  <1>7. ASSUME NEW b \in Batches, Recheck(b) PROVE Within'
    BY <1>7 DEF Recheck
  <1>8. ASSUME NEW b \in Batches, RecheckFails(b) PROVE Within'
    BY <1>8 DEF RecheckFails
  <1>9. ASSUME NEW b \in Batches, Encode(b) PROVE Within'
    BY <1>9 DEF Encode
  <1>10. ASSUME NEW b \in Batches, EncoderRaises(b) PROVE Within'
    BY <1>10 DEF EncoderRaises
  <1>11. ASSUME NEW b \in Batches, Write(b) PROVE Within'
    BY <1>11 DEF Write
  <1>12. ASSUME NEW b \in Batches, WriteFails(b) PROVE Within'
    BY <1>12 DEF WriteFails
  <1>13. ASSUME NEW b \in Batches, Sleep(b) PROVE Within'
    BY <1>13 DEF Sleep
  <1>14. ASSUME NEW b \in Batches, Poll(b) PROVE Within'
    BY <1>14 DEF Poll
  <1>15. ASSUME NEW b \in Batches, PollFails(b) PROVE Within'
    BY <1>15 DEF PollFails, GiveUpWaiting
  <1>16. ASSUME NEW b \in Batches, Timeout(b) PROVE Within'
    BY <1>16 DEF Timeout, GiveUpWaiting
  <1>17. ASSUME NEW b \in Batches, Cancel(b) PROVE Within'
    BY <1>17 DEF Cancel, Dropped
  <1>18. ASSUME NEW b \in Batches, Crash(b) PROVE Within'
    BY <1>18 DEF Crash, Dropped
  <1>19. ASSUME NEW b \in Batches, NEW t \in Texts, Acquire(b, t) PROVE Within'
    BY <1>19 DEF Acquire
  <1>20. ASSUME NEW b \in Batches, NEW t \in Texts, AcquireFails(b, t) PROVE Within'
    BY <1>20 DEF AcquireFails
  <1>21. ASSUME NEW b \in Batches, NEW t \in Texts, Release(b, t) PROVE Within'
    BY <1>21 DEF Release
  <1>22. ASSUME NEW b \in Batches, NEW t \in Texts, ReleaseFails(b, t) PROVE Within'
    BY <1>22 DEF ReleaseFails
  <1>23. ASSUME NEW b \in Batches, NEW t \in Texts, IsLocked(b, t) PROVE Within'
    BY <1>23 DEF IsLocked
  <1>24. ASSUME NEW b \in Batches, NEW t \in Texts, Retake(b, t) PROVE Within'
    BY <1>24 DEF Retake
  <1>25. ASSUME NEW b \in Batches, NEW t \in Texts, TakeoverFails(b, t) PROVE Within'
    BY <1>25 DEF TakeoverFails
  <1>26. ASSUME NEW t \in Texts, LockExpires(t) PROVE Within'
    BY <1>26 DEF LockExpires
  <1>27. ASSUME NEW t \in Texts, EntryExpires(t) PROVE Within'
    BY <1>27 DEF EntryExpires
  <1>28. ASSUME NEW t \in Texts, LegacyExpires(t) PROVE Within'
    BY <1>28 DEF LegacyExpires
  <1>29. CASE UNCHANGED vars
    BY <1>29 DEF vars
  <1>30. QED
    BY <1>1, <1>2, <1>3, <1>4, <1>5, <1>6, <1>7, <1>8, <1>9, <1>10, <1>11,
       <1>12, <1>13, <1>14, <1>15, <1>16, <1>17, <1>18, <1>19, <1>20, <1>21,
       <1>22, <1>23, <1>24, <1>25, <1>26, <1>27, <1>28, <1>29 DEF Next, Proceed

LEMMA CoveredStep == TypeOK /\ Within /\ Covered /\ [Next]_vars => Covered'
  <1> SUFFICES ASSUME TypeOK, Within, Covered, [Next]_vars PROVE Covered'
    OBVIOUS
  <1> USE DEF TypeOK, Within, Covered, CoveredBy, Known, Stages, Guarded, Endings, work, Goto, Missing,
              Unencoded, NextPart, Tried, Finally, Own
  <1>1. ASSUME NEW b \in Batches, Begin(b) PROVE Covered'
    BY <1>1 DEF Begin
  <1>2. ASSUME NEW b \in Batches, Read(b) PROVE Covered'
    BY <1>2 DEF Read
  <1>3. ASSUME NEW b \in Batches, ReadFails(b) PROVE Covered'
    BY <1>3 DEF ReadFails
  <1>4. ASSUME NEW b \in Batches, ReadLegacy(b) PROVE Covered'
    BY <1>4 DEF ReadLegacy
  <1>5. ASSUME NEW b \in Batches, Promote(b) PROVE Covered'
    BY <1>5 DEF Promote, AfterPromotion
  <1>6. ASSUME NEW b \in Batches, PromoteFails(b) PROVE Covered'
    BY <1>6 DEF PromoteFails, AfterPromotion
  <1>7. ASSUME NEW b \in Batches, Recheck(b) PROVE Covered'
    BY <1>7 DEF Recheck
  <1>8. ASSUME NEW b \in Batches, RecheckFails(b) PROVE Covered'
    BY <1>8 DEF RecheckFails
  <1>9. ASSUME NEW b \in Batches, Encode(b) PROVE Covered'
    BY <1>9 DEF Encode
  <1>10. ASSUME NEW b \in Batches, EncoderRaises(b) PROVE Covered'
    BY <1>10 DEF EncoderRaises
  <1>11. ASSUME NEW b \in Batches, Write(b) PROVE Covered'
    BY <1>11 DEF Write
  <1>12. ASSUME NEW b \in Batches, WriteFails(b) PROVE Covered'
    BY <1>12 DEF WriteFails
  <1>13. ASSUME NEW b \in Batches, Sleep(b) PROVE Covered'
    BY <1>13 DEF Sleep
  <1>14. ASSUME NEW b \in Batches, Poll(b) PROVE Covered'
    BY <1>14 DEF Poll
  <1>15. ASSUME NEW b \in Batches, PollFails(b) PROVE Covered'
    BY <1>15 DEF PollFails, GiveUpWaiting
  <1>16. ASSUME NEW b \in Batches, Timeout(b) PROVE Covered'
    BY <1>16 DEF Timeout, GiveUpWaiting
  <1>17. ASSUME NEW b \in Batches, Cancel(b) PROVE Covered'
    BY <1>17 DEF Cancel, Dropped
  <1>18. ASSUME NEW b \in Batches, Crash(b) PROVE Covered'
    BY <1>18 DEF Crash, Dropped
  <1>19. ASSUME NEW b \in Batches, NEW t \in Texts, Acquire(b, t) PROVE Covered'
    BY <1>19 DEF Acquire
  <1>20. ASSUME NEW b \in Batches, NEW t \in Texts, AcquireFails(b, t) PROVE Covered'
    BY <1>20 DEF AcquireFails
  <1>21. ASSUME NEW b \in Batches, NEW t \in Texts, Release(b, t) PROVE Covered'
    BY <1>21 DEF Release
  <1>22. ASSUME NEW b \in Batches, NEW t \in Texts, ReleaseFails(b, t) PROVE Covered'
    BY <1>22 DEF ReleaseFails
  <1>23. ASSUME NEW b \in Batches, NEW t \in Texts, IsLocked(b, t) PROVE Covered'
    BY <1>23 DEF IsLocked
  <1>24. ASSUME NEW b \in Batches, NEW t \in Texts, Retake(b, t) PROVE Covered'
    <2>1. CASE Own(b, t)
      <3>1. Known(b)' = Known(b) \cup {t}
        BY <1>24, <2>1 DEF Retake
      <3>2. CoveredBy(b)' \/ ending[b] # "none"
        BY <1>24, <2>1, <3>1 DEF Retake
      <3>3. QED
        BY <1>24, <2>1, <3>2 DEF Retake
    <2>2. CASE UNCHANGED <<lock, owned, contended>>
      BY <1>24, <2>2 DEF Retake
    <2>3. QED
      BY <1>24, <2>1, <2>2 DEF Retake
  <1>25. ASSUME NEW b \in Batches, NEW t \in Texts, TakeoverFails(b, t) PROVE Covered'
    BY <1>25 DEF TakeoverFails
  <1>26. ASSUME NEW t \in Texts, LockExpires(t) PROVE Covered'
    BY <1>26 DEF LockExpires
  <1>27. ASSUME NEW t \in Texts, EntryExpires(t) PROVE Covered'
    BY <1>27 DEF EntryExpires
  <1>28. ASSUME NEW t \in Texts, LegacyExpires(t) PROVE Covered'
    BY <1>28 DEF LegacyExpires
  <1>29. CASE UNCHANGED vars
    BY <1>29 DEF vars
  <1>30. QED
    BY <1>1, <1>2, <1>3, <1>4, <1>5, <1>6, <1>7, <1>8, <1>9, <1>10, <1>11,
       <1>12, <1>13, <1>14, <1>15, <1>16, <1>17, <1>18, <1>19, <1>20, <1>21,
       <1>22, <1>23, <1>24, <1>25, <1>26, <1>27, <1>28, <1>29 DEF Next, Proceed

(* NothingForgotten: a batch that returns has a vector for each text.      *)
THEOREM NothingForgottenCorrect == Spec => []NothingForgotten
  <1>1. Init => Within /\ Covered
    BY DEF Init, Within, Covered, CoveredBy, Known
  <1>2. TypeOK /\ Within /\ Covered => NothingForgotten
    BY DEF TypeOK, Within, Covered, CoveredBy, Known, NothingForgotten
  <1>3. QED
    BY <1>1, <1>2, TypeInit, TypeStep, WithinStep, CoveredStep, PTL DEF Spec

-----------------------------------------------------------------------------
(* Every text is encoded once.  While nothing calls for duplicate work, a  *)
(* batch has the lock of each text it owns (Held), encodes and writes only *)
(* what it owns (Alone), everything written is in the cache (Stored), and  *)
(* what a batch is about to encode or write was not written before (Apart).*)

Held == clean => \A b \in Batches : \A t \in owned[b] : lock[t] = b

Alone ==
    clean => \A b \in Batches :
                /\ local[b] \subseteq Blank
                /\ pc[b] = "write" => fresh[b] \subseteq owned[b]

Stored == clean => \A b \in Batches : written[b] \subseteq cached

Apart ==
    clean => \A b, d \in Batches :
                /\ pc[b] = "encode" => (owned[b] \ resolved[b]) \cap written[d] = {}
                /\ pc[b] = "write" => fresh[b] \cap written[d] = {}
                /\ b # d => written[b] \cap written[d] = {}

LEMMA ExecutedExactly ==
    ASSUME TypeOK, NEW b \in Batches, NEW T, PerhapsExecuted(b, T)
    PROVE  /\ cached \subseteq cached'
           /\ lock' \in [Texts -> Batches \cup {NoBatch}]
           /\ \A t \in Texts :
                 \/ lock'[t] = lock[t]
                 \/ t \in T /\ lock[t] = NoBatch /\ lock'[t] = b
                 \/ t \in T /\ pc[b] = "release" /\ lock[t] = b
  BY DEF TypeOK, PerhapsExecuted, CompareAndDelete

LEMMA HeldStep == TypeOK /\ Held /\ [Next]_vars => Held'
  <1> SUFFICES ASSUME TypeOK, Held, [Next]_vars PROVE Held'
    OBVIOUS
  <1> USE BatchAssumption
      DEF TypeOK, Held, redis, work, history, Own, CompareAndDelete, Tainted
  <1>1. ASSUME NEW b \in Batches, Begin(b) PROVE Held'
    BY <1>1 DEF Begin
  <1>2. ASSUME NEW b \in Batches, Read(b) PROVE Held'
    BY <1>2 DEF Read
  <1>3. ASSUME NEW b \in Batches, ReadFails(b) PROVE Held'
    BY <1>3 DEF ReadFails
  <1>4. ASSUME NEW b \in Batches, ReadLegacy(b) PROVE Held'
    BY <1>4 DEF ReadLegacy
  <1>5. ASSUME NEW b \in Batches, Promote(b) PROVE Held'
    BY <1>5 DEF Promote, AfterPromotion
  <1>6. ASSUME NEW b \in Batches, PromoteFails(b) PROVE Held'
    BY <1>6, ExecutedExactly DEF PromoteFails, AfterPromotion
  <1>7. ASSUME NEW b \in Batches, Recheck(b) PROVE Held'
    BY <1>7 DEF Recheck
  <1>8. ASSUME NEW b \in Batches, RecheckFails(b) PROVE Held'
    BY <1>8 DEF RecheckFails
  <1>9. ASSUME NEW b \in Batches, Encode(b) PROVE Held'
    BY <1>9 DEF Encode
  <1>10. ASSUME NEW b \in Batches, EncoderRaises(b) PROVE Held'
    BY <1>10 DEF EncoderRaises
  <1>11. ASSUME NEW b \in Batches, Write(b) PROVE Held'
    BY <1>11 DEF Write
  <1>12. ASSUME NEW b \in Batches, WriteFails(b) PROVE Held'
    BY <1>12, ExecutedExactly DEF WriteFails
  <1>13. ASSUME NEW b \in Batches, Sleep(b) PROVE Held'
    BY <1>13 DEF Sleep
  <1>14. ASSUME NEW b \in Batches, Poll(b) PROVE Held'
    BY <1>14 DEF Poll
  <1>15. ASSUME NEW b \in Batches, PollFails(b) PROVE Held'
    BY <1>15 DEF PollFails, GiveUpWaiting
  <1>16. ASSUME NEW b \in Batches, Timeout(b) PROVE Held'
    BY <1>16 DEF Timeout, GiveUpWaiting
  <1>17. ASSUME NEW b \in Batches, Cancel(b) PROVE Held'
    <2>1. CASE pc[b] \in Guarded
      <3>1. pc[b] \notin {"acquire", "retake", "release"}
        BY <2>1 DEF Guarded
      <3>2. Subjects(b) = {}
        BY <3>1 DEF Subjects
      <3>3. PerhapsExecuted(b, {})
        BY <1>17, <3>2 DEF Cancel
      <3>4. lock' = lock /\ cached \subseteq cached'
        BY <3>1, <3>3, ExecutedExactly DEF TypeOK
      <3>5. QED
        BY <1>17, <2>1, <3>4 DEF Cancel, Dropped
    <2>2. CASE pc[b] \notin Guarded
      <3>1. PerhapsExecuted(b, Subjects(b))
        BY <1>17 DEF Cancel
      <3>2. QED
        BY <1>17, <2>2, <3>1, ExecutedExactly DEF Cancel, Dropped
    <2>3. QED
      BY <2>1, <2>2
  <1>18. ASSUME NEW b \in Batches, Crash(b) PROVE Held'
    BY <1>18, ExecutedExactly DEF Crash, Dropped
  <1>19. ASSUME NEW b \in Batches, NEW t \in Texts, Acquire(b, t) PROVE Held'
    BY <1>19 DEF Acquire
  <1>20. ASSUME NEW b \in Batches, NEW t \in Texts, AcquireFails(b, t) PROVE Held'
    BY <1>20, ExecutedExactly DEF AcquireFails
  <1>21. ASSUME NEW b \in Batches, NEW t \in Texts, Release(b, t) PROVE Held'
    BY <1>21 DEF Release
  <1>22. ASSUME NEW b \in Batches, NEW t \in Texts, ReleaseFails(b, t) PROVE Held'
    BY <1>22, ExecutedExactly DEF ReleaseFails
  <1>23. ASSUME NEW b \in Batches, NEW t \in Texts, IsLocked(b, t) PROVE Held'
    BY <1>23 DEF IsLocked
  <1>24. ASSUME NEW b \in Batches, NEW t \in Texts, Retake(b, t) PROVE Held'
    BY <1>24 DEF Retake
  <1>25. ASSUME NEW b \in Batches, NEW t \in Texts, TakeoverFails(b, t) PROVE Held'
    BY <1>25, ExecutedExactly DEF TakeoverFails
  <1>26. ASSUME NEW t \in Texts, LockExpires(t) PROVE Held'
    BY <1>26 DEF LockExpires
  <1>27. ASSUME NEW t \in Texts, EntryExpires(t) PROVE Held'
    BY <1>27 DEF EntryExpires
  <1>28. ASSUME NEW t \in Texts, LegacyExpires(t) PROVE Held'
    BY <1>28 DEF LegacyExpires
  <1>29. CASE UNCHANGED vars
    BY <1>29 DEF vars
  <1>30. QED
    BY <1>1, <1>2, <1>3, <1>4, <1>5, <1>6, <1>7, <1>8, <1>9, <1>10, <1>11,
       <1>12, <1>13, <1>14, <1>15, <1>16, <1>17, <1>18, <1>19, <1>20, <1>21,
       <1>22, <1>23, <1>24, <1>25, <1>26, <1>27, <1>28, <1>29 DEF Next, Proceed

LEMMA AloneStep == TypeOK /\ Alone /\ [Next]_vars => Alone'
  <1> SUFFICES ASSUME TypeOK, Alone, [Next]_vars PROVE Alone'
    OBVIOUS
  <1> USE DEF TypeOK, Alone, Stages, Guarded, work, history, Goto, Unencoded, NextPart,
              Tried, Finally, Own, Tainted
  <1>1. ASSUME NEW b \in Batches, Begin(b) PROVE Alone'
    BY <1>1 DEF Begin
  <1>2. ASSUME NEW b \in Batches, Read(b) PROVE Alone'
    BY <1>2 DEF Read
  <1>3. ASSUME NEW b \in Batches, ReadFails(b) PROVE Alone'
    BY <1>3 DEF ReadFails
  <1>4. ASSUME NEW b \in Batches, ReadLegacy(b) PROVE Alone'
    BY <1>4 DEF ReadLegacy
  <1>5. ASSUME NEW b \in Batches, Promote(b) PROVE Alone'
    BY <1>5 DEF Promote, AfterPromotion
  <1>6. ASSUME NEW b \in Batches, PromoteFails(b) PROVE Alone'
    BY <1>6 DEF PromoteFails, AfterPromotion
  <1>7. ASSUME NEW b \in Batches, Recheck(b) PROVE Alone'
    BY <1>7 DEF Recheck
  <1>8. ASSUME NEW b \in Batches, RecheckFails(b) PROVE Alone'
    BY <1>8 DEF RecheckFails
  <1>9. ASSUME NEW b \in Batches, Encode(b) PROVE Alone'
    BY <1>9 DEF Encode
  <1>10. ASSUME NEW b \in Batches, EncoderRaises(b) PROVE Alone'
    BY <1>10 DEF EncoderRaises
  <1>11. ASSUME NEW b \in Batches, Write(b) PROVE Alone'
    BY <1>11 DEF Write
  <1>12. ASSUME NEW b \in Batches, WriteFails(b) PROVE Alone'
    BY <1>12 DEF WriteFails
  <1>13. ASSUME NEW b \in Batches, Sleep(b) PROVE Alone'
    BY <1>13 DEF Sleep
  <1>14. ASSUME NEW b \in Batches, Poll(b) PROVE Alone'
    BY <1>14 DEF Poll
  <1>15. ASSUME NEW b \in Batches, PollFails(b) PROVE Alone'
    BY <1>15 DEF PollFails, GiveUpWaiting
  <1>16. ASSUME NEW b \in Batches, Timeout(b) PROVE Alone'
    BY <1>16 DEF Timeout, GiveUpWaiting
  <1>17. ASSUME NEW b \in Batches, Cancel(b) PROVE Alone'
    BY <1>17 DEF Cancel, Dropped
  <1>18. ASSUME NEW b \in Batches, Crash(b) PROVE Alone'
    BY <1>18 DEF Crash, Dropped
  <1>19. ASSUME NEW b \in Batches, NEW t \in Texts, Acquire(b, t) PROVE Alone'
    BY <1>19 DEF Acquire
  <1>20. ASSUME NEW b \in Batches, NEW t \in Texts, AcquireFails(b, t) PROVE Alone'
    BY <1>20 DEF AcquireFails
  <1>21. ASSUME NEW b \in Batches, NEW t \in Texts, Release(b, t) PROVE Alone'
    BY <1>21 DEF Release
  <1>22. ASSUME NEW b \in Batches, NEW t \in Texts, ReleaseFails(b, t) PROVE Alone'
    BY <1>22 DEF ReleaseFails
  <1>23. ASSUME NEW b \in Batches, NEW t \in Texts, IsLocked(b, t) PROVE Alone'
    BY <1>23 DEF IsLocked
  <1>24. ASSUME NEW b \in Batches, NEW t \in Texts, Retake(b, t) PROVE Alone'
    BY <1>24 DEF Retake
  <1>25. ASSUME NEW b \in Batches, NEW t \in Texts, TakeoverFails(b, t) PROVE Alone'
    BY <1>25 DEF TakeoverFails
  <1>26. ASSUME NEW t \in Texts, LockExpires(t) PROVE Alone'
    BY <1>26 DEF LockExpires
  <1>27. ASSUME NEW t \in Texts, EntryExpires(t) PROVE Alone'
    BY <1>27 DEF EntryExpires
  <1>28. ASSUME NEW t \in Texts, LegacyExpires(t) PROVE Alone'
    BY <1>28 DEF LegacyExpires
  <1>29. CASE UNCHANGED vars
    BY <1>29 DEF vars
  <1>30. QED
    BY <1>1, <1>2, <1>3, <1>4, <1>5, <1>6, <1>7, <1>8, <1>9, <1>10, <1>11,
       <1>12, <1>13, <1>14, <1>15, <1>16, <1>17, <1>18, <1>19, <1>20, <1>21,
       <1>22, <1>23, <1>24, <1>25, <1>26, <1>27, <1>28, <1>29 DEF Next, Proceed

LEMMA StoredStep == TypeOK /\ Stored /\ [Next]_vars => Stored'
  <1> SUFFICES ASSUME TypeOK, Stored, [Next]_vars PROVE Stored'
    OBVIOUS
  <1> USE DEF TypeOK, Stored, redis, history, Tainted
  <1>1. ASSUME NEW b \in Batches, Begin(b) PROVE Stored'
    BY <1>1 DEF Begin
  <1>2. ASSUME NEW b \in Batches, Read(b) PROVE Stored'
    BY <1>2 DEF Read
  <1>3. ASSUME NEW b \in Batches, ReadFails(b) PROVE Stored'
    BY <1>3 DEF ReadFails
  <1>4. ASSUME NEW b \in Batches, ReadLegacy(b) PROVE Stored'
    BY <1>4 DEF ReadLegacy
  <1>5. ASSUME NEW b \in Batches, Promote(b) PROVE Stored'
    BY <1>5 DEF Promote, AfterPromotion
  <1>6. ASSUME NEW b \in Batches, PromoteFails(b) PROVE Stored'
    BY <1>6, ExecutedExactly DEF PromoteFails, AfterPromotion
  <1>7. ASSUME NEW b \in Batches, Recheck(b) PROVE Stored'
    BY <1>7 DEF Recheck
  <1>8. ASSUME NEW b \in Batches, RecheckFails(b) PROVE Stored'
    BY <1>8 DEF RecheckFails
  <1>9. ASSUME NEW b \in Batches, Encode(b) PROVE Stored'
    BY <1>9 DEF Encode
  <1>10. ASSUME NEW b \in Batches, EncoderRaises(b) PROVE Stored'
    BY <1>10 DEF EncoderRaises
  <1>11. ASSUME NEW b \in Batches, Write(b) PROVE Stored'
    BY <1>11 DEF Write
  <1>12. ASSUME NEW b \in Batches, WriteFails(b) PROVE Stored'
    BY <1>12, ExecutedExactly DEF WriteFails
  <1>13. ASSUME NEW b \in Batches, Sleep(b) PROVE Stored'
    BY <1>13 DEF Sleep
  <1>14. ASSUME NEW b \in Batches, Poll(b) PROVE Stored'
    BY <1>14 DEF Poll
  <1>15. ASSUME NEW b \in Batches, PollFails(b) PROVE Stored'
    BY <1>15 DEF PollFails, GiveUpWaiting
  <1>16. ASSUME NEW b \in Batches, Timeout(b) PROVE Stored'
    BY <1>16 DEF Timeout, GiveUpWaiting
  <1>17. ASSUME NEW b \in Batches, Cancel(b) PROVE Stored'
    BY <1>17, ExecutedExactly DEF Cancel, Dropped
  <1>18. ASSUME NEW b \in Batches, Crash(b) PROVE Stored'
    BY <1>18, ExecutedExactly DEF Crash, Dropped
  <1>19. ASSUME NEW b \in Batches, NEW t \in Texts, Acquire(b, t) PROVE Stored'
    BY <1>19 DEF Acquire
  <1>20. ASSUME NEW b \in Batches, NEW t \in Texts, AcquireFails(b, t) PROVE Stored'
    BY <1>20, ExecutedExactly DEF AcquireFails
  <1>21. ASSUME NEW b \in Batches, NEW t \in Texts, Release(b, t) PROVE Stored'
    BY <1>21 DEF Release
  <1>22. ASSUME NEW b \in Batches, NEW t \in Texts, ReleaseFails(b, t) PROVE Stored'
    BY <1>22, ExecutedExactly DEF ReleaseFails
  <1>23. ASSUME NEW b \in Batches, NEW t \in Texts, IsLocked(b, t) PROVE Stored'
    BY <1>23 DEF IsLocked
  <1>24. ASSUME NEW b \in Batches, NEW t \in Texts, Retake(b, t) PROVE Stored'
    BY <1>24 DEF Retake
  <1>25. ASSUME NEW b \in Batches, NEW t \in Texts, TakeoverFails(b, t) PROVE Stored'
    BY <1>25, ExecutedExactly DEF TakeoverFails
  <1>26. ASSUME NEW t \in Texts, LockExpires(t) PROVE Stored'
    BY <1>26 DEF LockExpires
  <1>27. ASSUME NEW t \in Texts, EntryExpires(t) PROVE Stored'
    BY <1>27 DEF EntryExpires
  <1>28. ASSUME NEW t \in Texts, LegacyExpires(t) PROVE Stored'
    BY <1>28 DEF LegacyExpires
  <1>29. CASE UNCHANGED vars
    BY <1>29 DEF vars
  <1>30. QED
    BY <1>1, <1>2, <1>3, <1>4, <1>5, <1>6, <1>7, <1>8, <1>9, <1>10, <1>11,
       <1>12, <1>13, <1>14, <1>15, <1>16, <1>17, <1>18, <1>19, <1>20, <1>21,
       <1>22, <1>23, <1>24, <1>25, <1>26, <1>27, <1>28, <1>29 DEF Next, Proceed

LEMMA ApartStep ==
    TypeOK /\ EmptyHanded /\ Held /\ Alone /\ Stored /\ Apart /\ [Next]_vars => Apart'
  <1> SUFFICES ASSUME TypeOK, EmptyHanded, Held, Alone, Stored, Apart, [Next]_vars PROVE Apart'
    OBVIOUS
  <1> USE DEF TypeOK, Apart, Stages, Guarded, work, history, Goto, NextPart, Tried, Finally,
              Own, Tainted
  <1>1. ASSUME NEW b \in Batches, Begin(b) PROVE Apart'
    BY <1>1 DEF Begin, EmptyHanded
  <1>2. ASSUME NEW b \in Batches, Read(b) PROVE Apart'
    BY <1>2 DEF Read
  <1>3. ASSUME NEW b \in Batches, ReadFails(b) PROVE Apart'
    BY <1>3 DEF ReadFails
  <1>4. ASSUME NEW b \in Batches, ReadLegacy(b) PROVE Apart'
    BY <1>4 DEF ReadLegacy
  <1>5. ASSUME NEW b \in Batches, Promote(b) PROVE Apart'
    BY <1>5 DEF Promote, AfterPromotion
  <1>6. ASSUME NEW b \in Batches, PromoteFails(b) PROVE Apart'
    BY <1>6 DEF PromoteFails, AfterPromotion
  <1>7. ASSUME NEW b \in Batches, Recheck(b) PROVE Apart'
    BY <1>7 DEF Recheck, Stored, Unencoded
  <1>8. ASSUME NEW b \in Batches, RecheckFails(b) PROVE Apart'
    BY <1>8 DEF RecheckFails
  <1>9. ASSUME NEW b \in Batches, Encode(b) PROVE Apart'
    BY <1>9 DEF Encode, Alone, Unencoded
  <1>10. ASSUME NEW b \in Batches, EncoderRaises(b) PROVE Apart'
    BY <1>10 DEF EncoderRaises
  <1>11. ASSUME NEW b \in Batches, Write(b) PROVE Apart'
    <2> SUFFICES ASSUME clean PROVE Apart'
      BY <1>11 DEF Write
    <2>1. \A d \in Batches : d # b => owned[b] \cap owned[d] = {}
      BY DEF Held
    <2>2. fresh[b] \subseteq owned[b]
      BY <1>11 DEF Alone, Write
    <2>3. \A d \in Batches : pc[d] = "write" => fresh[d] \subseteq owned[d]
      BY DEF Alone
    <2>4. \A d \in Batches : fresh[b] \cap written[d] = {}
      BY <1>11 DEF Write
    <2>5. pc'[b] \notin {"encode", "write"}
      BY <1>11 DEF Write
    <2>6. \A d \in Batches : d # b =>
             pc'[d] = pc[d] /\ written'[d] = written[d] /\ fresh'[d] = fresh[d]
      BY <1>11 DEF Write
    <2>7. written'[b] = written[b] \cup fresh[b]
      BY <1>11 DEF Write
    <2>8. UNCHANGED <<owned, resolved>>
      BY <1>11 DEF Write
    <2> HIDE DEF Finally, Goto
    <2>9. QED
      BY <2>1, <2>2, <2>3, <2>4, <2>5, <2>6, <2>7, <2>8
  <1>12. ASSUME NEW b \in Batches, WriteFails(b) PROVE Apart'
    BY <1>12 DEF WriteFails
  <1>13. ASSUME NEW b \in Batches, Sleep(b) PROVE Apart'
    BY <1>13 DEF Sleep
  <1>14. ASSUME NEW b \in Batches, Poll(b) PROVE Apart'
    BY <1>14 DEF Poll
  <1>15. ASSUME NEW b \in Batches, PollFails(b) PROVE Apart'
    BY <1>15 DEF PollFails, GiveUpWaiting
  <1>16. ASSUME NEW b \in Batches, Timeout(b) PROVE Apart'
    BY <1>16 DEF Timeout, GiveUpWaiting
  <1>17. ASSUME NEW b \in Batches, Cancel(b) PROVE Apart'
    BY <1>17 DEF Cancel, Dropped
  <1>18. ASSUME NEW b \in Batches, Crash(b) PROVE Apart'
    BY <1>18 DEF Crash, Dropped
  <1>19. ASSUME NEW b \in Batches, NEW t \in Texts, Acquire(b, t) PROVE Apart'
    BY <1>19 DEF Acquire
  <1>20. ASSUME NEW b \in Batches, NEW t \in Texts, AcquireFails(b, t) PROVE Apart'
    BY <1>20 DEF AcquireFails
  <1>21. ASSUME NEW b \in Batches, NEW t \in Texts, Release(b, t) PROVE Apart'
    BY <1>21 DEF Release
  <1>22. ASSUME NEW b \in Batches, NEW t \in Texts, ReleaseFails(b, t) PROVE Apart'
    BY <1>22 DEF ReleaseFails
  <1>23. ASSUME NEW b \in Batches, NEW t \in Texts, IsLocked(b, t) PROVE Apart'
    BY <1>23 DEF IsLocked
  <1>24. ASSUME NEW b \in Batches, NEW t \in Texts, Retake(b, t) PROVE Apart'
    BY <1>24 DEF Retake
  <1>25. ASSUME NEW b \in Batches, NEW t \in Texts, TakeoverFails(b, t) PROVE Apart'
    BY <1>25 DEF TakeoverFails
  <1>26. ASSUME NEW t \in Texts, LockExpires(t) PROVE Apart'
    BY <1>26 DEF LockExpires
  <1>27. ASSUME NEW t \in Texts, EntryExpires(t) PROVE Apart'
    BY <1>27 DEF EntryExpires
  <1>28. ASSUME NEW t \in Texts, LegacyExpires(t) PROVE Apart'
    BY <1>28 DEF LegacyExpires
  <1>29. CASE UNCHANGED vars
    BY <1>29 DEF vars
  <1>30. QED
    BY <1>1, <1>2, <1>3, <1>4, <1>5, <1>6, <1>7, <1>8, <1>9, <1>10, <1>11,
       <1>12, <1>13, <1>14, <1>15, <1>16, <1>17, <1>18, <1>19, <1>20, <1>21,
       <1>22, <1>23, <1>24, <1>25, <1>26, <1>27, <1>28, <1>29 DEF Next, Proceed

(* EncodedOnce: no two batches encode and store the same text.             *)
THEOREM EncodedOnceCorrect == Spec => []EncodedOnce
  <1>1. Init => EmptyHanded /\ Held /\ Alone /\ Stored /\ Apart
    BY DEF Init, EmptyHanded, Held, Alone, Stored, Apart
  <1>2. Apart => EncodedOnce
    BY DEF Apart, EncodedOnce
  <1>3. QED
    BY <1>1, <1>2, TypeInit, TypeStep, EmptyHandedStep, HeldStep, AloneStep, StoredStep,
       ApartStep, PTL DEF Spec
=============================================================================
