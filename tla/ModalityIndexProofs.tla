------------------------ MODULE ModalityIndexProofs -------------------------
(***************************************************************************)
(* Proofs about ModalityIndex for any runs, points and late requests: its  *)
(* types, that the counts a run reports are true, and that the points of a *)
(* collection are of one run.                                              *)
(***************************************************************************)
EXTENDS ModalityIndex, TLAPS

LEMMA PlanFacts ==
    ASSUME kind \in Kinds
    PROVE  /\ Len(Plan) \in {2, 4}
           /\ DOMAIN Plan = 1..Len(Plan)
           /\ \A i \in DOMAIN Plan : Plan[i] \in Collections
           /\ \A i, j \in DOMAIN Plan : Plan[i] = Plan[j] => i = j
           /\ kind = "video" => \A i \in DOMAIN Plan :
                 i = 1 \/ Plan[i] \in {"transcript", "audio", "ocr"}
           /\ kind = "video" => Plan[1] = "visual"
  <1> USE DEF Plan, Plans, Kinds, Collections
  <1>1. kind \in {"video", "audio", "image"}
    OBVIOUS
  <1>2. CASE kind = "video"
    BY <1>2
  <1>3. CASE kind = "audio"
    BY <1>3
  <1>4. CASE kind = "image"
    BY <1>4
  <1>5. QED
    BY <1>1, <1>2, <1>3, <1>4

-----------------------------------------------------------------------------
(* Types.                                                                  *)

Types ==
    /\ kind \in Kinds
    /\ pc \in [Runs -> Stages]
    /\ at \in [Runs -> Nat]
    /\ \A r \in Runs : at[r] \in DOMAIN Plan
    /\ size \in [Runs -> Ids]
    /\ \A r \in Runs : size[r] \in Sizes
    /\ points \in [Collections -> [Ids -> Runs \cup {NoRun}]]
    /\ counted \in [Runs -> SUBSET Collections]
    /\ failed \in [Runs -> SUBSET Collections]
    /\ late \subseteq Requests
    /\ latest \in Runs \cup {NoRun}
    /\ overlapped \subseteq Runs
    /\ spoiled \subseteq Collections

LEMMA SizesAreIds == Sizes \subseteq Ids /\ 1 \in Sizes
  BY IndexAssumption DEF Sizes, Ids

LEMMA TypesInit == Init => Types
  <1> SUFFICES ASSUME Init PROVE Types
    OBVIOUS
  <1>1. kind \in Kinds /\ 1 \in DOMAIN Plan
    BY PlanFacts DEF Init
  <1>2. size \in [Runs -> Ids] /\ \A r \in Runs : size[r] \in Sizes
    BY SizesAreIds DEF Init
  <1>3. points \in [Collections -> [Ids -> Runs \cup {NoRun}]]
    BY DEF Init, NoPoints
  <1>4. QED
    BY <1>1, <1>2, <1>3 DEF Init, Types, Stages, Writing

LEMMA PlanIsFixed == UNCHANGED kind => Plan' = Plan /\ Sizes' = Sizes
  BY DEF Plan, Sizes

LEMMA CollectionTypes ==
    ASSUME Types, NEW r \in Runs PROVE Collection(r) \in Collections
  BY PlanFacts DEF Types, Collection

LEMMA ExecuteTypes ==
    ASSUME Types, NEW q \in Requests, Execute(q)
    PROVE  /\ points' \in [Collections -> [Ids -> Runs \cup {NoRun}]]
           /\ \A c \in Collections \ {q.collection} : points'[c] = points[c]
  BY DEF Types, Execute, DeletePoints, UpsertPoints, NoPoints, Requests

LEMMA ProceedFacts ==
    ASSUME Types, NEW r \in Runs, Proceed(r)
    PROVE  /\ pc' \in [Runs -> Stages]
           /\ at' \in [Runs -> Nat]
           /\ \A s \in Runs : at'[s] \in DOMAIN Plan
           /\ \A s \in Runs \ {r} : pc'[s] = pc[s] /\ at'[s] = at[s]
           /\ \/ at[r] < Len(Plan) /\ at'[r] = at[r] + 1 /\ pc'[r] = "encode"
              \/ at[r] = Len(Plan) /\ at'[r] = at[r] /\ pc'[r] = "done"
  <1>1. Len(Plan) \in {2, 4} /\ DOMAIN Plan = 1..Len(Plan)
    BY PlanFacts DEF Types
  <1>2. at[r] \in Nat /\ at[r] \in 1..Len(Plan)
    BY <1>1 DEF Types
  <1>3. CASE at[r] < Len(Plan)
    <2>1. at' = [at EXCEPT ![r] = @ + 1] /\ pc' = [pc EXCEPT ![r] = "encode"]
      BY <1>3 DEF Proceed, Goto
    <2>2. QED
      BY <1>1, <1>2, <1>3, <2>1 DEF Types, Stages, Writing
  <1>4. CASE ~(at[r] < Len(Plan))
    <2>1. at' = at /\ pc' = [pc EXCEPT ![r] = "done"]
      BY <1>4 DEF Proceed, Goto
    <2>2. QED
      BY <1>1, <1>2, <1>4, <2>1 DEF Types, Stages
  <1>5. QED
    BY <1>3, <1>4

-----------------------------------------------------------------------------
(* The invariant.                                                          *)

(* What a run has reported and given up is behind it.                      *)
AheadOf(r) ==
    /\ pc[r] = "idle" => at[r] = 1 /\ counted[r] = {} /\ failed[r] = {}
    /\ pc[r] \in Writing => \A i \in DOMAIN Plan :
          /\ i >= at[r] => Plan[i] \notin counted[r]
          /\ i > at[r] => Plan[i] \notin failed[r]
          /\ i = at[r] /\ pc[r] # "cleanup" => Plan[i] \notin failed[r]
    /\ pc[r] = "cleanup" =>
          kind = "audio" /\ Collection(r) = "audio" /\ "audio" \in failed[r]
    /\ counted[r] \cap failed[r] = {}

Ahead == \A r \in Runs : AheadOf(r)

(* Collections that this kind of media does not have stay empty.           *)
Planned(c) == \E i \in DOMAIN Plan : Plan[i] = c

Unplanned ==
    /\ \A c \in Collections : ~Planned(c) =>
          points[c] = NoPoints /\ \A r \in Runs : c \notin counted[r]
    /\ \A q \in late : Planned(q.collection)

(* The latest run, if it never overlapped, is the only active one.         *)
NobodyElse == \A r \in Runs : Active(r) => r = latest \/ latest \in overlapped

Expected(r, c) ==
    [i \in Ids |-> IF c \in counted[r] /\ i <= size[r] THEN r ELSE NoRun]

(* What it has written so far is what it will report.                      *)
SoFar(r) ==
    \A i \in DOMAIN Plan : Plan[i] \notin failed[r] \cup spoiled =>
        /\ i < at[r] \/ pc[r] = "done" => points[Plan[i]] = Expected(r, Plan[i])
        /\ pc[r] = "upsert" /\ i = at[r] => points[Plan[i]] = NoPoints

Progress ==
    \A r \in Runs :
        r = latest /\ r \notin overlapped /\ pc[r] \in Writing \cup {"done"} => SoFar(r)

OfOneRun(c) ==
    \A i, j \in Ids :
        NoRun \in {points[c][i], points[c][j]} \/ points[c][i] = points[c][j]

Safe == Ahead /\ Unplanned /\ NobodyElse /\ Progress /\ OneGeneration

IInv == Types /\ Safe

LEMMA SafeInit == Init => Safe
  <1> SUFFICES ASSUME Init PROVE Safe
    OBVIOUS
  <1>1. Ahead
    BY DEF Init, Ahead, AheadOf, Writing
  <1>2. Unplanned
    BY DEF Init, Unplanned
  <1>3. NobodyElse
    BY DEF Init, NobodyElse, Active, Writing
  <1>4. Progress
    BY DEF Init, Progress, Writing
  <1>5. OneGeneration
    BY DEF Init, OneGeneration, NoPoints
  <1>6. QED
    BY <1>1, <1>2, <1>3, <1>4, <1>5 DEF Safe

-----------------------------------------------------------------------------
(* What every action of a run that is under way does.                      *)

LEMMA TypesKept ==
    ASSUME Types, UNCHANGED <<kind, size, latest, overlapped>>,
           pc' \in [Runs -> Stages],
           at' \in [Runs -> Nat], \A s \in Runs : at'[s] \in DOMAIN Plan,
           points' \in [Collections -> [Ids -> Runs \cup {NoRun}]],
           counted' \in [Runs -> SUBSET Collections],
           failed' \in [Runs -> SUBSET Collections],
           late' \subseteq Requests, spoiled' \subseteq Collections
    PROVE  Types'
  BY PlanIsFixed DEF Types

LEMMA RunStep ==
    ASSUME Types, Safe, NEW r \in Runs, Active(r),
           UNCHANGED <<kind, size, latest, overlapped>>,
           \A s \in Runs \ {r} : /\ pc'[s] = pc[s] /\ at'[s] = at[s]
                                 /\ counted'[s] = counted[s] /\ failed'[s] = failed[s],
           \A c \in Collections \ {Collection(r)} :
               points'[c] = points[c] /\ (c \in spoiled' <=> c \in spoiled),
           \A q \in late' : q \in late \/ q.collection = Collection(r),
           counted'[r] \subseteq counted[r] \cup {Collection(r)},
           AheadOf(r)',
           r = latest /\ r \notin overlapped /\ pc'[r] \in Writing \cup {"done"}
               => SoFar(r)',
           \A c \in {Collection(r)} : overlapped = {} /\ c \notin spoiled' => OfOneRun(c)'
    PROVE  Safe'
  <1>1. Plan' = Plan
    BY PlanIsFixed
  <1>2. Planned(Collection(r))
    BY DEF Planned, Collection, Types
  <1>3. Ahead'
    <2> SUFFICES ASSUME NEW s \in Runs, s # r PROVE AheadOf(s)'
      BY DEF Ahead
    <2>1. AheadOf(s)
      BY DEF Safe, Ahead
    <2>2. pc'[s] = pc[s] /\ at'[s] = at[s] /\ counted'[s] = counted[s] /\ failed'[s] = failed[s]
      OBVIOUS
    <2>3. QED
      BY <1>1, <2>1, <2>2 DEF AheadOf, Collection
  <1>4. Unplanned'
    <2>1. ASSUME NEW c \in Collections, ~Planned(c)'
          PROVE  points'[c] = NoPoints /\ \A s \in Runs : c \notin counted'[s]
      <3>1. ~Planned(c) /\ c # Collection(r)
        BY <1>1, <1>2, <2>1 DEF Planned
      <3>2. QED
        BY <3>1 DEF Safe, Unplanned
    <2>2. ASSUME NEW q \in late' PROVE Planned(q.collection)'
      BY <1>1, <1>2 DEF Safe, Unplanned, Planned
    <2>3. QED
      BY <2>1, <2>2 DEF Unplanned, NoPoints
  <1>5. NobodyElse'
    BY DEF Safe, NobodyElse, Active
  <1>6. Progress'
    BY DEF Safe, NobodyElse, Progress
  <1>7. OneGeneration'
    <2> SUFFICES ASSUME overlapped = {}, NEW c \in Collections, c \notin spoiled'
                 PROVE  OfOneRun(c)'
      BY DEF OneGeneration, OfOneRun
    <2>1. CASE c = Collection(r)
      BY <2>1 DEF OfOneRun
    <2>2. CASE c # Collection(r)
      BY <2>2 DEF Safe, OneGeneration, OfOneRun
    <2>3. QED
      BY <2>1, <2>2
  <1>8. QED
    BY <1>3, <1>4, <1>5, <1>6, <1>7 DEF Safe

(* The request a run gives up is for the collection the run is at.         *)
LEMMA AbandonedFacts ==
    ASSUME Types, Safe, NEW r \in Runs, Active(r), Abandoned(r)
    PROVE  /\ points' \in [Collections -> [Ids -> Runs \cup {NoRun}]]
           /\ \A c \in Collections \ {Collection(r)} : points'[c] = points[c]
           /\ late' \subseteq Requests
           /\ \A q \in late' : q \in late \/ q.collection = Collection(r)
           /\ \A c \in {Collection(r)} :
                  overlapped = {} /\ c \notin spoiled => OfOneRun(c)'
  <1> DEFINE request == [collection |-> Collection(r),
                         run |-> IF pc[r] = "upsert" THEN r ELSE NoRun]
  <1>1. request \in Requests /\ Collection(r) \in Collections
    BY CollectionTypes DEF Requests
  <1>2. \/ UNCHANGED <<points, late>>
        \/ Execute(request) /\ UNCHANGED late
        \/ late' = late \cup {request} /\ UNCHANGED points
    BY DEF Abandoned, index
  <1>3. request.collection = Collection(r)
    OBVIOUS
  <1>4. request.run = IF pc[r] = "upsert" THEN r ELSE NoRun
    OBVIOUS
  <1> HIDE DEF request
  <1>5. ASSUME UNCHANGED points, overlapped = {}, Collection(r) \notin spoiled
        PROVE  \A c \in {Collection(r)} : OfOneRun(c)'
    BY <1>1, <1>5 DEF Safe, OneGeneration, OfOneRun
  <1>6. ASSUME Execute(request), overlapped = {}, Collection(r) \notin spoiled
        PROVE  \A i, j \in Ids : \/ NoRun \in {points'[Collection(r)][i], points'[Collection(r)][j]}
                                 \/ points'[Collection(r)][i] = points'[Collection(r)][j]
    <2>1. CASE pc[r] = "upsert"
      <3>1. r = latest /\ pc[r] \in Writing
        BY <2>1, <1>6 DEF Safe, NobodyElse, Writing
      <3>2. SoFar(r)
        BY <3>1, <1>6 DEF Safe, Progress
      <3>3. at[r] \in DOMAIN Plan /\ Plan[at[r]] \notin failed[r]
        BY <2>1, <3>1 DEF Types, Safe, Ahead, AheadOf
      <3>4. points[Collection(r)] = NoPoints
        BY <2>1, <3>2, <3>3, <1>6 DEF SoFar, Collection
      <3>5. r # NoRun
        BY IndexAssumption
      <3>6. UpsertPoints(Collection(r), r)
        BY <1>3, <1>4, <1>6, <2>1, <3>5 DEF Execute
      <3>7. points'[Collection(r)] = [i \in Ids |-> IF i <= size[r] THEN r ELSE NoPoints[i]]
        BY <1>1, <3>4, <3>6 DEF UpsertPoints, Types
      <3>8. QED
        BY <3>7 DEF NoPoints
    <2>2. CASE pc[r] # "upsert"
      <3>1. DeletePoints(Collection(r))
        BY <1>3, <1>4, <1>6, <2>2 DEF Execute
      <3>2. points'[Collection(r)] = NoPoints
        BY <1>1, <3>1 DEF DeletePoints, Types
      <3>3. QED
        BY <3>2 DEF NoPoints
    <2>3. QED
      BY <2>1, <2>2
  <1>7. CASE Execute(request) /\ UNCHANGED late
    BY <1>1, <1>3, <1>6, <1>7, ExecuteTypes DEF Types, OfOneRun
  <1>8. CASE UNCHANGED points
    BY <1>1, <1>2, <1>3, <1>5, <1>7, <1>8 DEF Types
  <1>9. QED
    BY <1>2, <1>7, <1>8

(* Going on to the next collection leaves the rest of the plan ahead.      *)
LEMMA ProceedAhead ==
    ASSUME Types, NEW r \in Runs, AheadOf(r), Active(r), Proceed(r), UNCHANGED kind,
           counted'[r] \subseteq counted[r] \cup {Collection(r)},
           failed'[r] \subseteq failed[r] \cup {Collection(r)},
           counted'[r] \cap failed'[r] = {}
    PROVE  AheadOf(r)'
  <1>1. Plan' = Plan /\ at[r] \in DOMAIN Plan /\ DOMAIN Plan = 1..Len(Plan) /\ at[r] \in Nat
    BY PlanIsFixed, PlanFacts DEF Types
  <1>2. \/ at[r] < Len(Plan) /\ at'[r] = at[r] + 1 /\ pc'[r] = "encode"
        \/ at[r] = Len(Plan) /\ at'[r] = at[r] /\ pc'[r] = "done"
    BY ProceedFacts
  <1>3. Len(Plan) \in Nat
    BY PlanFacts DEF Types
  <1>4. ASSUME NEW i \in DOMAIN Plan, i > at[r]
        PROVE  Plan[i] \notin counted'[r] /\ Plan[i] \notin failed'[r]
    <2>1. Plan[i] # Collection(r)
      BY <1>1, <1>4, PlanFacts DEF Types, Collection
    <2>2. Plan[i] \notin counted[r] /\ Plan[i] \notin failed[r]
      BY <1>1, <1>4 DEF AheadOf, Active
    <2>3. QED
      BY <2>1, <2>2
  <1>5. CASE pc'[r] = "done"
    BY <1>5 DEF AheadOf, Writing
  <1>6. CASE at'[r] = at[r] + 1 /\ pc'[r] = "encode"
    <2>1. \A i \in DOMAIN Plan : i >= at'[r] => i > at[r]
      BY <1>1, <1>3, <1>6
    <2>2. \A i \in DOMAIN Plan : i > at'[r] => i >= at'[r]
      BY <1>1, <1>3, <1>6
    <2>3. \A i \in DOMAIN Plan : i = at'[r] => i >= at'[r]
      BY <1>1, <1>3, <1>6
    <2>4. QED
      BY <1>1, <1>4, <1>6, <2>1, <2>2, <2>3 DEF AheadOf, Writing
  <1>7. QED
    BY <1>2, <1>5, <1>6

(* ... and what is behind as the run will report it.                       *)
LEMMA ProceedSoFar ==
    ASSUME Types, NEW r \in Runs, SoFar(r), Proceed(r), UNCHANGED <<kind, size>>,
           \A c \in Collections \ {Collection(r)} :
               /\ points'[c] = points[c]
               /\ c \in spoiled' <=> c \in spoiled
               /\ c \in counted'[r] <=> c \in counted[r]
               /\ c \in failed'[r] <=> c \in failed[r],
           \A c \in {Collection(r)} :
               c \notin failed'[r] \cup spoiled' => points'[c] = Expected(r, c)'
    PROVE  SoFar(r)'
  <1>1. Plan' = Plan /\ at[r] \in DOMAIN Plan /\ DOMAIN Plan = 1..Len(Plan) /\ at[r] \in Nat
    BY PlanIsFixed, PlanFacts DEF Types
  <1>2. \/ at[r] < Len(Plan) /\ at'[r] = at[r] + 1 /\ pc'[r] = "encode"
        \/ at[r] = Len(Plan) /\ at'[r] = at[r] /\ pc'[r] = "done"
    BY ProceedFacts
  <1>3. Len(Plan) \in Nat
    BY PlanFacts DEF Types
  <1> SUFFICES ASSUME NEW i \in DOMAIN Plan, Plan[i] \notin failed'[r] \cup spoiled',
                      i < at'[r] \/ pc'[r] = "done"
               PROVE  points'[Plan[i]] = Expected(r, Plan[i])'
    BY <1>1, <1>2 DEF SoFar
  <1>4. Plan[i] \in Collections
    BY PlanFacts DEF Types
  <1>5. CASE Plan[i] = Collection(r)
    BY <1>1, <1>5 DEF Expected
  <1>6. CASE Plan[i] # Collection(r)
    <2>1. i # at[r]
      BY <1>6 DEF Collection
    <2>2. i < at[r]
      BY <1>1, <1>2, <1>3, <2>1
    <2>3. points[Plan[i]] = Expected(r, Plan[i])
      BY <1>4, <1>6, <2>2 DEF SoFar
    <2>4. Expected(r, Plan[i])' = Expected(r, Plan[i])
      BY <1>1, <1>4, <1>6 DEF Expected
    <2>5. QED
      BY <1>4, <1>6, <2>3, <2>4
  <1>7. QED
    BY <1>5, <1>6

-----------------------------------------------------------------------------
(* The actions.                                                            *)

LEMMA BeginSafe ==
    ASSUME IInv, NEW r \in Runs, Begin(r) PROVE IInv'
  <1> USE DEF IInv
  <1>1. PICK n \in Sizes : size' = [size EXCEPT ![r] = n]
    BY DEF Begin
  <1>2. /\ pc[r] = "idle" /\ pc' = [pc EXCEPT ![r] = "encode"] /\ latest' = r
        /\ UNCHANGED <<kind, points, late, at, counted, failed, spoiled>>
    BY DEF Begin, Goto, index
  <1>3. /\ overlapped \subseteq overlapped' /\ overlapped' \subseteq Runs
        /\ \A s \in Runs : s # r /\ Active(s) => r \in overlapped'
    BY DEF Begin, Types
  <1>4. Plan' = Plan /\ Sizes' = Sizes /\ at[r] = 1 /\ counted[r] = {} /\ failed[r] = {}
    BY <1>2, PlanIsFixed DEF Safe, Ahead, AheadOf
  <1>5. pc'[r] = "encode" /\ \A s \in Runs \ {r} : pc'[s] = pc[s]
    BY <1>2 DEF Types
  <1>6. Types'
    <2>1. pc' \in [Runs -> Stages]
      BY <1>2 DEF Types, Stages, Writing
    <2>2. size' \in [Runs -> Ids] /\ \A s \in Runs : size'[s] \in Sizes
      BY <1>1, SizesAreIds DEF Types
    <2>3. QED
      BY <2>1, <2>2, <1>2, <1>3, <1>4 DEF Types
  <1>7. Ahead'
    <2> SUFFICES ASSUME NEW s \in Runs PROVE AheadOf(s)'
      BY DEF Ahead
    <2>1. CASE s = r
      BY <2>1, <1>2, <1>4, <1>5 DEF AheadOf
    <2>2. CASE s # r
      BY <2>2, <1>2, <1>4, <1>5 DEF Safe, Ahead, AheadOf, Collection
    <2>3. QED
      BY <2>1, <2>2
  <1>8. Unplanned'
    BY <1>2, <1>4 DEF Safe, Unplanned, Planned, NoPoints
  <1>9. NobodyElse'
    BY <1>2, <1>3, <1>5 DEF NobodyElse, Active
  <1>10. Progress'
    <2>1. SoFar(r)'
      BY <1>2, <1>4, <1>5, PlanFacts DEF SoFar, Types
    <2>2. QED
      BY <2>1, <1>2 DEF Progress
  <1>11. OneGeneration'
    BY <1>2, <1>3 DEF Safe, OneGeneration
  <1>12. QED
    BY <1>6, <1>7, <1>8, <1>9, <1>10, <1>11 DEF Safe

LEMMA EncodeSafe ==
    ASSUME IInv, NEW r \in Runs, Encode(r) PROVE IInv'
  <1> USE DEF IInv
  <1>1. /\ pc[r] = "encode"
        /\ UNCHANGED <<kind, points, late, at, size, counted, failed,
                       latest, overlapped, spoiled>>
        /\ pc' = [pc EXCEPT ![r] = "replace"] \/ pc' = [pc EXCEPT ![r] = "clear"]
    BY DEF Encode, Goto, index, history
  <1>2. /\ pc' \in [Runs -> Stages] /\ pc'[r] \in {"replace", "clear"}
        /\ \A s \in Runs \ {r} : pc'[s] = pc[s]
    BY <1>1 DEF Types, Stages, Writing
  <1>3. Plan' = Plan /\ Active(r)
    BY <1>1, PlanIsFixed DEF Active, Writing
  <1>4. AheadOf(r)'
    BY <1>1, <1>2, <1>3 DEF Safe, Ahead, AheadOf, Writing
  <1>5. r = latest /\ r \notin overlapped => SoFar(r)'
    BY <1>1, <1>2, <1>3 DEF Safe, Progress, SoFar, Active, Expected
  <1>6. \A c \in {Collection(r)} : overlapped = {} /\ c \notin spoiled' => OfOneRun(c)'
    BY <1>1, CollectionTypes DEF Safe, OneGeneration, OfOneRun
  <1>7. Types'
    BY <1>1, <1>2, <1>3, TypesKept DEF Types
  <1>8. Safe'
    BY <1>1, <1>2, <1>3, <1>4, <1>5, <1>6, RunStep
  <1>9. QED
    BY <1>7, <1>8

LEMMA DeleteSafe ==
    ASSUME IInv, NEW r \in Runs, Delete(r) PROVE IInv'
  <1> USE DEF IInv
  <1>1. PICK c \in Collections : c = Collection(r)
    BY CollectionTypes
  <1>2. /\ pc[r] \in {"replace", "clear"} /\ spoiled' = spoiled \ {c}
        /\ points' = [points EXCEPT ![c] = NoPoints]
        /\ UNCHANGED <<kind, late, size, counted, failed, latest, overlapped>>
    BY <1>1 DEF Delete, DeletePoints
  <1>3. \/ Proceed(r)
        \/ pc' = [pc EXCEPT ![r] = "upsert"] /\ UNCHANGED at
    BY DEF Delete, Goto
  <1>4. Plan' = Plan /\ Active(r) /\ AheadOf(r)
    BY <1>2, PlanIsFixed DEF Active, Writing, Safe, Ahead
  <1>5. at[r] \in DOMAIN Plan /\ c = Plan[at[r]]
    BY <1>1 DEF Types, Collection
  <1>6. c \notin counted[r]
    BY <1>2, <1>4, <1>5 DEF AheadOf, Writing, Types
  <1>7. r = latest /\ r \notin overlapped => SoFar(r)
    BY <1>4 DEF Safe, Progress, Active
  <1>8. /\ points' \in [Collections -> [Ids -> Runs \cup {NoRun}]]
        /\ points'[c] = NoPoints /\ \A d \in Collections \ {c} : points'[d] = points[d]
    BY <1>2 DEF Types, NoPoints
  <1>9. OfOneRun(c)'
    BY <1>8 DEF OfOneRun, NoPoints
  <1>10. points'[c] = Expected(r, c)'
    BY <1>2, <1>6, <1>8 DEF Expected, NoPoints
  <1>11. /\ pc' \in [Runs -> Stages] /\ at' \in [Runs -> Nat]
         /\ \A s \in Runs : at'[s] \in DOMAIN Plan
         /\ \A s \in Runs \ {r} : pc'[s] = pc[s] /\ at'[s] = at[s]
         /\ AheadOf(r)'
         /\ r = latest /\ r \notin overlapped => SoFar(r)'
    <2>1. CASE Proceed(r)
      <3>1. AheadOf(r)'
        BY <2>1, <1>2, <1>4, ProceedAhead DEF AheadOf
      <3>2. r = latest /\ r \notin overlapped => SoFar(r)'
        BY <2>1, <1>1, <1>2, <1>7, <1>8, <1>10, ProceedSoFar
      <3>3. QED
        BY <2>1, <3>1, <3>2, ProceedFacts
    <2>2. CASE pc' = [pc EXCEPT ![r] = "upsert"] /\ UNCHANGED at
      <3>1. /\ pc' \in [Runs -> Stages] /\ pc'[r] = "upsert"
            /\ \A s \in Runs \ {r} : pc'[s] = pc[s]
        BY <2>2 DEF Types, Stages, Writing
      <3>2. AheadOf(r)'
        BY <2>2, <3>1, <1>2, <1>4 DEF AheadOf, Writing
      <3>3. ASSUME SoFar(r) PROVE SoFar(r)'
        <4>1. \A i \in DOMAIN Plan : i < at[r] => Plan[i] # c /\ Plan[i] \in Collections
          BY <1>5, PlanFacts DEF Types
        <4>2. QED
          BY <4>1, <3>1, <3>3, <2>2, <1>2, <1>4, <1>5, <1>8 DEF SoFar, Expected
      <3>4. QED
        BY <2>2, <3>1, <3>2, <3>3, <1>7 DEF Types
    <2>3. QED
      BY <1>3, <2>1, <2>2
  <1>12. Types'
    BY <1>2, <1>8, <1>11, TypesKept DEF Types
  <1>13. Safe'
    BY <1>1, <1>2, <1>4, <1>8, <1>9, <1>11, RunStep
  <1>14. QED
    BY <1>12, <1>13

LEMMA UpsertSafe ==
    ASSUME IInv, NEW r \in Runs, Upsert(r) PROVE IInv'
  <1> USE DEF IInv
  <1>1. PICK c \in Collections : c = Collection(r)
    BY CollectionTypes
  <1>2. /\ pc[r] = "upsert" /\ Proceed(r)
        /\ points' = [points EXCEPT ![c] = [i \in Ids |-> IF i <= size[r] THEN r ELSE @[i]]]
        /\ counted' = [counted EXCEPT ![r] = @ \cup {c}]
        /\ UNCHANGED <<kind, late, size, failed, latest, overlapped, spoiled>>
    BY <1>1 DEF Upsert, UpsertPoints, history
  <1>3. Active(r) /\ AheadOf(r)
    BY <1>2 DEF Active, Writing, Safe, Ahead
  <1>4. at[r] \in DOMAIN Plan /\ c = Plan[at[r]]
    BY <1>1 DEF Types, Collection
  <1>5. c \notin failed[r] /\ counted[r] \cap failed[r] = {}
    BY <1>2, <1>3, <1>4 DEF AheadOf, Active
  <1>6. r = latest /\ r \notin overlapped => SoFar(r)
    BY <1>3 DEF Safe, Progress, Active
  <1>7. /\ points' \in [Collections -> [Ids -> Runs \cup {NoRun}]]
        /\ points'[c] = [i \in Ids |-> IF i <= size[r] THEN r ELSE points[c][i]]
        /\ \A d \in Collections \ {c} : points'[d] = points[d]
    BY <1>2 DEF Types
  <1>8. counted' \in [Runs -> SUBSET Collections] /\ counted'[r] = counted[r] \cup {c}
        /\ \A s \in Runs \ {r} : counted'[s] = counted[s]
    BY <1>2 DEF Types
  <1>9. r = latest /\ r \notin overlapped /\ c \notin spoiled => points[c] = NoPoints
    BY <1>2, <1>4, <1>5, <1>6 DEF SoFar
  <1>10. r = latest /\ r \notin overlapped /\ c \notin spoiled' => points'[c] = Expected(r, c)'
    BY <1>2, <1>7, <1>8, <1>9 DEF Expected, NoPoints
  <1>11. overlapped = {} /\ c \notin spoiled' => OfOneRun(c)'
    <2>1. overlapped = {} => r = latest
      BY <1>3 DEF Safe, NobodyElse
    <2>2. ASSUME points'[c] = Expected(r, c)' PROVE OfOneRun(c)'
      BY <2>2 DEF OfOneRun, Expected
    <2>3. QED
      BY <2>1, <2>2, <1>10
  <1>12. AheadOf(r)'
    BY <1>1, <1>2, <1>3, <1>5, <1>8, ProceedAhead
  <1>13. r = latest /\ r \notin overlapped => SoFar(r)'
    BY <1>1, <1>2, <1>6, <1>7, <1>8, <1>10, ProceedSoFar
  <1>14. Types'
    BY <1>2, <1>7, <1>8, ProceedFacts, TypesKept DEF Types
  <1>15. Safe'
    BY <1>1, <1>2, <1>3, <1>7, <1>8, <1>11, <1>12, <1>13, ProceedFacts, RunStep
  <1>16. QED
    BY <1>14, <1>15

(* A run gives something up while a request of its may be under way.       *)
LEMMA AbandonSafe ==
    ASSUME IInv, NEW r \in Runs, Active(r), Abandoned(r),
           UNCHANGED <<kind, size, latest, overlapped, spoiled>>,
           pc' \in [Runs -> Stages],
           at' \in [Runs -> Nat], \A s \in Runs : at'[s] \in DOMAIN Plan,
           counted' \in [Runs -> SUBSET Collections],
           failed' \in [Runs -> SUBSET Collections],
           \A s \in Runs \ {r} : /\ pc'[s] = pc[s] /\ at'[s] = at[s]
                                 /\ counted'[s] = counted[s] /\ failed'[s] = failed[s],
           counted'[r] \subseteq counted[r],
           AheadOf(r)',
           r = latest /\ r \notin overlapped /\ pc'[r] \in Writing \cup {"done"}
               => SoFar(r)'
    PROVE  IInv'
  <1> USE DEF IInv
  <1>1. Types'
    BY AbandonedFacts, TypesKept DEF Types
  <1>2. Safe'
    BY AbandonedFacts, RunStep
  <1>3. QED
    BY <1>1, <1>2

(* Where the run stands when one of its blocks fails.                      *)
LEMMA BlockFacts ==
    ASSUME IInv, NEW r \in Runs, pc[r] \in Writing, NEW given \in SUBSET Collections,
           GivesUp(r, given)
    PROVE  /\ Active(r) /\ AheadOf(r) /\ at[r] \in DOMAIN Plan /\ at[r] \in Nat
           /\ r = latest /\ r \notin overlapped => SoFar(r)
           /\ counted' \in [Runs -> SUBSET Collections]
           /\ failed' \in [Runs -> SUBSET Collections]
           /\ \A s \in Runs \ {r} : counted'[s] = counted[s] /\ failed'[s] = failed[s]
           /\ counted'[r] = counted[r] \ given /\ failed'[r] = failed[r] \cup given
           /\ counted'[r] \cap failed'[r] = {}
  <1>1. Active(r) /\ AheadOf(r) /\ at[r] \in DOMAIN Plan /\ at[r] \in Nat
    BY DEF IInv, Types, Active, Safe, Ahead
  <1>2. r = latest /\ r \notin overlapped => SoFar(r)
    BY DEF IInv, Safe, Progress
  <1>3. counted[r] \cap failed[r] = {}
    BY <1>1 DEF AheadOf
  <1>4. /\ counted' = [counted EXCEPT ![r] = @ \ given]
        /\ failed' = [failed EXCEPT ![r] = @ \cup given]
    BY DEF GivesUp
  <1>5. QED
    BY <1>1, <1>2, <1>3, <1>4 DEF IInv, Types

LEMMA BlockFailsSafe ==
    ASSUME IInv, NEW r \in Runs, BlockFails(r) PROVE IInv'
  <1>1. PICK c \in Collections : c = Collection(r)
    BY CollectionTypes DEF IInv
  <1>2. /\ pc[r] \in Writing /\ pc[r] # "cleanup" /\ Abandoned(r)
        /\ GivesUp(r, {c}) /\ Proceed(r)
        /\ UNCHANGED <<kind, size, latest, overlapped, spoiled>>
    BY <1>1 DEF BlockFails, history
  <1>3. /\ Active(r) /\ AheadOf(r)
        /\ r = latest /\ r \notin overlapped => SoFar(r)
        /\ counted' \in [Runs -> SUBSET Collections]
        /\ failed' \in [Runs -> SUBSET Collections]
        /\ \A s \in Runs \ {r} : counted'[s] = counted[s] /\ failed'[s] = failed[s]
        /\ counted'[r] = counted[r] \ {c} /\ failed'[r] = failed[r] \cup {c}
        /\ counted'[r] \cap failed'[r] = {}
    BY <1>2, BlockFacts
  <1>4. AheadOf(r)'
    BY <1>1, <1>2, <1>3, ProceedAhead DEF IInv
  <1>5. \A d \in Collections \ {c} : points'[d] = points[d]
    BY <1>1, <1>2, <1>3, AbandonedFacts DEF IInv
  <1>6. r = latest /\ r \notin overlapped => SoFar(r)'
    BY <1>1, <1>2, <1>3, <1>5, ProceedSoFar DEF IInv
  <1>7. QED
    BY <1>2, <1>3, <1>4, <1>6, ProceedFacts, AbandonSafe DEF IInv

LEMMA OptionalFailsSafe ==
    ASSUME IInv, NEW r \in Runs, OptionalFails(r) PROVE IInv'
  <1> DEFINE given == {"transcript", "audio", "ocr"}
  <1>1. given \in SUBSET Collections
    BY DEF Collections
  <1>2. /\ pc[r] \in Writing /\ Abandoned(r) /\ kind = "video" /\ Collection(r) # "visual"
        /\ GivesUp(r, given) /\ pc' = [pc EXCEPT ![r] = "done"]
        /\ UNCHANGED <<kind, at, size, latest, overlapped, spoiled>>
    BY DEF OptionalFails, history, Goto
  <1>3. /\ Active(r) /\ AheadOf(r) /\ at[r] \in DOMAIN Plan /\ at[r] \in Nat
        /\ r = latest /\ r \notin overlapped => SoFar(r)
        /\ counted' \in [Runs -> SUBSET Collections]
        /\ failed' \in [Runs -> SUBSET Collections]
        /\ \A s \in Runs \ {r} : counted'[s] = counted[s] /\ failed'[s] = failed[s]
        /\ counted'[r] = counted[r] \ given /\ failed'[r] = failed[r] \cup given
        /\ counted'[r] \cap failed'[r] = {}
    BY <1>1, <1>2, BlockFacts
  <1>4. /\ pc' \in [Runs -> Stages] /\ pc'[r] = "done"
        /\ \A s \in Runs \ {r} : pc'[s] = pc[s]
    BY <1>2 DEF IInv, Types, Stages
  <1>5. AheadOf(r)'
    BY <1>3, <1>4 DEF AheadOf, Writing
  <1>6. /\ at[r] # 1 /\ Plan' = Plan
        /\ \A i \in DOMAIN Plan : i = 1 \/ Plan[i] \in given
        /\ \A i \in DOMAIN Plan : Plan[i] \in Collections
        /\ DOMAIN Plan = 1..Len(Plan) /\ Plan[1] = "visual"
    BY <1>2, PlanFacts, PlanIsFixed DEF IInv, Types, Collection
  <1>7. ASSUME SoFar(r) PROVE SoFar(r)'
    <2> SUFFICES ASSUME NEW i \in DOMAIN Plan, Plan[i] \notin failed'[r] \cup spoiled'
                 PROVE  points'[Plan[i]] = Expected(r, Plan[i])'
      BY <1>4, <1>6 DEF SoFar
    <2>1. i = 1 /\ Plan[1] \notin failed[r] \cup spoiled /\ 1 < at[r]
      BY <1>2, <1>3, <1>6
    <2>2. points[Plan[1]] = Expected(r, Plan[1])
      BY <2>1, <1>7 DEF SoFar
    <2>3. points'[Plan[1]] = points[Plan[1]]
      BY <2>1, <1>2, <1>3, <1>6, AbandonedFacts DEF IInv
    <2>4. Expected(r, Plan[1])' = Expected(r, Plan[1])
      BY <1>2, <1>3, <1>6 DEF Expected
    <2>5. QED
      BY <2>1, <2>2, <2>3, <2>4, <1>6
  <1>8. \A s \in Runs : at'[s] \in DOMAIN Plan
    BY <1>2 DEF IInv, Types
  <1>9. QED
    BY <1>2, <1>3, <1>4, <1>5, <1>7, <1>8, AbandonSafe DEF IInv, Types

LEMMA MediaAudioFailsSafe ==
    ASSUME IInv, NEW r \in Runs, MediaAudioFails(r) PROVE IInv'
  <1>1. {"audio"} \in SUBSET Collections
    BY DEF Collections
  <1>2. /\ pc[r] \in Writing /\ Abandoned(r) /\ kind = "audio" /\ Collection(r) = "audio"
        /\ GivesUp(r, {"audio"}) /\ pc' = [pc EXCEPT ![r] = "cleanup"]
        /\ UNCHANGED <<kind, at, size, latest, overlapped, spoiled>>
    BY DEF MediaAudioFails, history, Goto
  <1>3. /\ Active(r) /\ AheadOf(r) /\ at[r] \in DOMAIN Plan /\ at[r] \in Nat
        /\ r = latest /\ r \notin overlapped => SoFar(r)
        /\ counted' \in [Runs -> SUBSET Collections]
        /\ failed' \in [Runs -> SUBSET Collections]
        /\ \A s \in Runs \ {r} : counted'[s] = counted[s] /\ failed'[s] = failed[s]
        /\ counted'[r] = counted[r] \ {"audio"} /\ failed'[r] = failed[r] \cup {"audio"}
        /\ counted'[r] \cap failed'[r] = {}
    BY <1>1, <1>2, BlockFacts
  <1>4. /\ pc' \in [Runs -> Stages] /\ pc'[r] = "cleanup"
        /\ \A s \in Runs \ {r} : pc'[s] = pc[s]
    BY <1>2 DEF IInv, Types, Stages, Writing
  <1>5. /\ Plan' = Plan /\ Plan[at[r]] = "audio" /\ DOMAIN Plan = 1..Len(Plan)
        /\ \A i \in DOMAIN Plan : i # at[r] => Plan[i] # "audio"
        /\ \A i \in DOMAIN Plan : Plan[i] \in Collections
    BY <1>2, <1>3, PlanFacts, PlanIsFixed DEF IInv, Types, Collection
  <1>6. AheadOf(r)'
    <2>1. Collection(r)' = "audio"
      BY <1>2, <1>5 DEF Collection
    <2>2. ASSUME NEW i \in DOMAIN Plan
          PROVE  /\ i >= at[r] => Plan[i] \notin counted'[r]
                 /\ i > at[r] => Plan[i] \notin failed'[r]
      BY <1>2, <1>3, <1>5 DEF AheadOf
    <2>3. QED
      BY <2>1, <2>2, <1>2, <1>3, <1>4, <1>5 DEF AheadOf
  <1>7. ASSUME SoFar(r) PROVE SoFar(r)'
    <2> SUFFICES ASSUME NEW i \in DOMAIN Plan, i < at[r],
                        Plan[i] \notin failed'[r] \cup spoiled'
                 PROVE  points'[Plan[i]] = Expected(r, Plan[i])'
      BY <1>2, <1>4, <1>5 DEF SoFar
    <2>1. Plan[i] # "audio" /\ Plan[i] \in Collections
      BY <1>3, <1>5
    <2>2. points[Plan[i]] = Expected(r, Plan[i])
      BY <2>1, <1>2, <1>3, <1>7 DEF SoFar
    <2>3. points'[Plan[i]] = points[Plan[i]]
      BY <2>1, <1>2, <1>3, AbandonedFacts DEF IInv
    <2>4. Expected(r, Plan[i])' = Expected(r, Plan[i])
      BY <2>1, <1>2, <1>3, <1>5 DEF Expected
    <2>5. QED
      BY <2>2, <2>3, <2>4
  <1>8. \A s \in Runs : at'[s] \in DOMAIN Plan
    BY <1>2 DEF IInv, Types
  <1>9. QED
    BY <1>2, <1>3, <1>4, <1>6, <1>7, <1>8, AbandonSafe DEF IInv, Types

LEMMA CleanupSafe ==
    ASSUME IInv, NEW r \in Runs, Cleanup(r) PROVE IInv'
  <1> USE DEF IInv
  <1>1. /\ pc[r] = "cleanup" /\ Proceed(r) /\ spoiled' = spoiled \ {"audio"}
        /\ points' = [points EXCEPT !["audio"] = NoPoints]
        /\ failed' = [failed EXCEPT ![r] = @ \ {"audio"}]
        /\ UNCHANGED <<kind, late, size, counted, latest, overlapped>>
    BY DEF Cleanup, DeletePoints
  <1>2. Active(r) /\ AheadOf(r) /\ Collection(r) = "audio" /\ "audio" \in failed[r]
    BY <1>1 DEF Active, Writing, Safe, Ahead, AheadOf
  <1>3. "audio" \in Collections /\ counted[r] \cap failed[r] = {}
    BY <1>2 DEF Collections, AheadOf
  <1>4. r = latest /\ r \notin overlapped => SoFar(r)
    BY <1>2 DEF Safe, Progress, Active
  <1>5. /\ points' \in [Collections -> [Ids -> Runs \cup {NoRun}]]
        /\ points'["audio"] = NoPoints
        /\ \A d \in Collections \ {"audio"} : points'[d] = points[d]
    BY <1>1, <1>3 DEF Types, NoPoints
  <1>6. /\ failed' \in [Runs -> SUBSET Collections] /\ failed'[r] = failed[r] \ {"audio"}
        /\ \A s \in Runs \ {r} : failed'[s] = failed[s]
    BY <1>1 DEF Types
  <1>7. OfOneRun("audio")'
    BY <1>5 DEF OfOneRun, NoPoints
  <1>8. points'["audio"] = Expected(r, "audio")'
    BY <1>1, <1>2, <1>3, <1>5 DEF Expected, NoPoints
  <1>9. AheadOf(r)'
    BY <1>1, <1>2, <1>3, <1>6, ProceedAhead
  <1>10. r = latest /\ r \notin overlapped => SoFar(r)'
    BY <1>1, <1>2, <1>4, <1>5, <1>6, <1>8, ProceedSoFar
  <1>11. Types'
    BY <1>1, <1>5, <1>6, ProceedFacts, TypesKept DEF Types
  <1>12. Safe'
    BY <1>1, <1>2, <1>5, <1>6, <1>7, <1>9, <1>10, ProceedFacts, RunStep
  <1>13. QED
    BY <1>11, <1>12

LEMMA CleanupFailsSafe ==
    ASSUME IInv, NEW r \in Runs, CleanupFails(r) PROVE IInv'
  <1> USE DEF IInv
  <1>1. /\ pc[r] = "cleanup" /\ Proceed(r) /\ Abandoned(r)
        /\ UNCHANGED <<kind, size, counted, failed, latest, overlapped, spoiled>>
    BY DEF CleanupFails, history
  <1>2. Active(r) /\ AheadOf(r) /\ Collection(r) = "audio" /\ "audio" \in failed[r]
    BY <1>1 DEF Active, Writing, Safe, Ahead, AheadOf
  <1>3. r = latest /\ r \notin overlapped => SoFar(r)
    BY <1>2 DEF Safe, Progress, Active
  <1>4. \A d \in Collections \ {"audio"} : points'[d] = points[d]
    BY <1>1, <1>2, AbandonedFacts
  <1>5. AheadOf(r)'
    BY <1>1, <1>2, ProceedAhead DEF AheadOf
  <1>6. r = latest /\ r \notin overlapped => SoFar(r)'
    BY <1>1, <1>2, <1>3, <1>4, ProceedSoFar
  <1>7. QED
    BY <1>1, <1>2, <1>5, <1>6, ProceedFacts, AbandonSafe DEF Types

LEMMA RaiseSafe ==
    ASSUME IInv, NEW r \in Runs, Raise(r) PROVE IInv'
  <1> USE DEF IInv
  <1>1. /\ Active(r) /\ Abandoned(r)
        /\ pc' = [pc EXCEPT ![r] = "raised"] /\ at' = [at EXCEPT ![r] = 1]
        /\ counted' = [counted EXCEPT ![r] = {}] /\ failed' = [failed EXCEPT ![r] = {}]
        /\ UNCHANGED <<kind, size, latest, overlapped, spoiled>>
    BY DEF Raise, Goto, history
  <1>2. /\ pc' \in [Runs -> Stages] /\ pc'[r] = "raised" /\ at' \in [Runs -> Nat]
        /\ counted' \in [Runs -> SUBSET Collections]
        /\ failed' \in [Runs -> SUBSET Collections]
        /\ counted'[r] = {} /\ failed'[r] = {}
        /\ \A s \in Runs \ {r} : /\ pc'[s] = pc[s] /\ at'[s] = at[s]
                              /\ counted'[s] = counted[s] /\ failed'[s] = failed[s]
    BY <1>1 DEF Types, Stages
  <1>3. \A s \in Runs : at'[s] \in DOMAIN Plan
    BY <1>1, PlanFacts DEF Types
  <1>4. AheadOf(r)'
    BY <1>2 DEF AheadOf, Writing
  <1>5. pc'[r] \notin Writing \cup {"done"}
    BY <1>2 DEF Writing
  <1>6. QED
    BY <1>1, <1>2, <1>3, <1>4, <1>5, AbandonSafe

LEMMA LandSafe ==
    ASSUME IInv, NEW q \in late, Land(q) PROVE IInv'
  <1> USE DEF IInv
  <1>1. /\ q \in Requests /\ Execute(q) /\ late' = late \ {q}
        /\ spoiled' = spoiled \cup {q.collection}
        /\ UNCHANGED <<kind, pc, at, size, counted, failed, latest, overlapped>>
    BY DEF Land, Types
  <1>2. /\ points' \in [Collections -> [Ids -> Runs \cup {NoRun}]]
        /\ \A c \in Collections \ {q.collection} : points'[c] = points[c]
    BY <1>1, ExecuteTypes
  <1>3. Plan' = Plan /\ q.collection \in Collections /\ Planned(q.collection)
    BY <1>1, PlanIsFixed DEF Requests, Safe, Unplanned
  <1>4. Types'
    BY <1>1, <1>2, <1>3, PlanIsFixed DEF Types
  <1>5. Ahead' /\ NobodyElse'
    BY <1>1, <1>3 DEF Safe, Ahead, AheadOf, Collection, NobodyElse, Active
  <1>6. Unplanned'
    <2>1. ASSUME NEW c \in Collections, ~Planned(c)' PROVE c # q.collection /\ ~Planned(c)
      BY <1>3, <2>1 DEF Planned
    <2>2. ASSUME NEW p \in late' PROVE Planned(p.collection)'
      BY <1>1, <1>3 DEF Safe, Unplanned, Planned
    <2>3. QED
      BY <2>1, <2>2, <1>1, <1>2 DEF Safe, Unplanned, NoPoints
  <1>7. Progress'
    <2> SUFFICES ASSUME NEW r \in Runs, SoFar(r) PROVE SoFar(r)'
      BY <1>1 DEF Safe, Progress
    <2>1. \A i \in DOMAIN Plan : Plan[i] \in Collections
      BY PlanFacts DEF Types
    <2>2. \A i \in DOMAIN Plan : Plan[i] \notin spoiled' =>
             points'[Plan[i]] = points[Plan[i]] /\ Plan[i] \notin spoiled
      BY <2>1, <1>1, <1>2
    <2>3. QED
      BY <2>1, <2>2, <1>1, <1>3 DEF SoFar, Expected, NoPoints
  <1>8. OneGeneration'
    BY <1>1, <1>2 DEF Safe, OneGeneration
  <1>9. QED
    BY <1>4, <1>5, <1>6, <1>7, <1>8 DEF Safe

-----------------------------------------------------------------------------
LEMMA Step == IInv /\ [Next]_vars => IInv'
  <1> SUFFICES ASSUME IInv, [Next]_vars PROVE IInv'
    OBVIOUS
  <1>1. ASSUME NEW r \in Runs,
               \/ Begin(r) \/ Encode(r) \/ Delete(r) \/ Upsert(r)
               \/ BlockFails(r) \/ OptionalFails(r) \/ MediaAudioFails(r)
               \/ Cleanup(r) \/ CleanupFails(r) \/ Raise(r)
        PROVE  IInv'
    BY <1>1, BeginSafe, EncodeSafe, DeleteSafe, UpsertSafe, BlockFailsSafe,
       OptionalFailsSafe, MediaAudioFailsSafe, CleanupSafe, CleanupFailsSafe, RaiseSafe
  <1>2. ASSUME NEW q \in late, Land(q) PROVE IInv'
    BY <1>2, LandSafe
  <1>3. CASE UNCHANGED vars
    <2>1. Plan' = Plan /\ Sizes' = Sizes
      BY <1>3, PlanIsFixed DEF vars
    <2>2. Types'
      BY <1>3, <2>1 DEF vars, IInv, Types
    <2>3. Ahead' /\ Unplanned' /\ NobodyElse'
      BY <1>3, <2>1 DEF vars, IInv, Safe, Ahead, AheadOf, Collection, Unplanned, Planned,
                        NoPoints, NobodyElse, Active
    <2>4. Progress' /\ OneGeneration'
      BY <1>3, <2>1 DEF vars, IInv, Safe, Progress, SoFar, Expected, NoPoints, OneGeneration
    <2>5. QED
      BY <2>2, <2>3, <2>4 DEF IInv, Safe
  <1>4. QED
    BY <1>1, <1>2, <1>3 DEF Next

LEMMA Invariance == Spec => []IInv
  <1>1. Init => IInv
    BY TypesInit, SafeInit DEF IInv
  <1>2. QED
    BY <1>1, Step, PTL DEF Spec

(* Whatever fails, is retried, runs at once or is executed late, no run    *)
(* counts a collection that it gave up, none leaves the plan of the kind   *)
(* of its medium, and every point is of a run.                             *)
THEOREM TypeCorrect == Spec => []TypeOK
  <1>1. IInv => TypeOK
    BY PlanFacts DEF IInv, Types, Safe, Ahead, AheadOf, TypeOK
  <1>2. QED
    BY <1>1, Invariance, PTL

(* The counts in the completed event of a run that was alone are true of   *)
(* every collection it did not give up: it holds the points the run wrote, *)
(* or none for a zero, unless a late request interfered.                   *)
THEOREM ReportIsTrue == Spec => []ReportMatchesIndex
  <1>1. ASSUME IInv PROVE ReportMatchesIndex
    <2> SUFFICES ASSUME NEW r \in Runs, r = latest, pc[r] = "done", r \notin overlapped,
                        NEW c \in Collections, c \notin failed[r] \cup spoiled
                 PROVE  points[c] = Expected(r, c)
      BY DEF ReportMatchesIndex, Expected
    <2>1. CASE Planned(c)
      BY <1>1, <2>1 DEF IInv, Safe, Progress, SoFar, Planned
    <2>2. CASE ~Planned(c)
      BY <1>1, <2>2 DEF IInv, Safe, Unplanned, Expected, NoPoints
    <2>3. QED
      BY <2>1, <2>2
  <1>2. QED
    BY <1>1, Invariance, PTL

(* Retries, failures and crashes half-way never leave the points of two    *)
(* runs in one collection, as long as runs of the medium do not overlap    *)
(* and no abandoned request is executed late.                              *)
THEOREM OneGenerationOnly == Spec => []OneGeneration
  <1>1. IInv => OneGeneration
    BY DEF IInv, Safe
  <1>2. QED
    BY <1>1, Invariance, PTL
=============================================================================
