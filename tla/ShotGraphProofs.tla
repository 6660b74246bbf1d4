-------------------------- MODULE ShotGraphProofs ---------------------------
(***************************************************************************)
(* Proofs about ShotGraph for any number of runs and any MaxShots: its     *)
(* types, and that a run which is alone leaves exactly its own graph.      *)
(***************************************************************************)
EXTENDS ShotGraph, TLAPS

LEMMA TypeInit == Init => TypeOK
  BY GraphAssumption DEF Init, TypeOK, Stages, Statements, Shots

(* What the position of a run may be after Continue.                       *)
Positions ==
    \A a \in Runs : /\ pc[a] \in {"create", "belong", "chain"} => at[a] <= shots[a]
                    /\ pc[a] = "chain" => at[a] > 1

LEMMA ContinueTypes ==
    ASSUME NEW r \in Runs, TypeOK, pc[r] \in {"belong", "chain"}, shots' = shots, Continue(r)
    PROVE  pc' \in [Runs -> Stages] /\ at' \in [Runs -> Shots] /\ Positions'
  <1>1. /\ pc \in [Runs -> Stages] /\ at \in [Runs -> Shots] /\ shots \in [Runs -> Shots]
        /\ Positions /\ at[r] <= shots[r]
    BY DEF TypeOK, Positions
  <1>2. CASE at[r] < shots[r]
    <2>1. at[r] + 1 \in Shots /\ at[r] + 1 <= shots[r]
      BY <1>1, <1>2, GraphAssumption DEF Shots
    <2>2. pc' = [pc EXCEPT ![r] = "create"] /\ at' = [at EXCEPT ![r] = at[r] + 1]
      BY <1>1, <1>2 DEF Continue, Goto
    <2>3. pc' \in [Runs -> Stages] /\ at' \in [Runs -> Shots]
      BY <1>1, <2>1, <2>2 DEF Stages, Statements
    <2>4. \A a \in Runs : pc'[a] = IF a = r THEN "create" ELSE pc[a]
      BY <1>1, <2>2
    <2>5. \A a \in Runs : at'[a] = IF a = r THEN at[r] + 1 ELSE at[a]
      BY <1>1, <2>2
    <2>6. Positions'
      BY <1>1, <2>1, <2>4, <2>5 DEF Positions
    <2>7. QED
      BY <2>3, <2>6
  <1>3. CASE ~(at[r] < shots[r])
    <2>1. pc' = [pc EXCEPT ![r] = "written"] /\ at' = at
      BY <1>3 DEF Continue, Goto
    <2>2. QED
      BY <1>1, <2>1 DEF Positions, Stages, Statements
  <1>4. QED
    BY <1>2, <1>3

LEMMA TypeStep == TypeOK /\ [Next]_vars => TypeOK'
  <1> SUFFICES ASSUME TypeOK, [Next]_vars PROVE TypeOK'
    OBVIOUS
  <1> USE GraphAssumption
      DEF TypeOK, Stages, Statements, Shots, Active, Goto, Continue, graph, history
  <1>1. ASSUME NEW r \in Runs, Begin(r) PROVE TypeOK'
    BY <1>1 DEF Begin
  <1>2. ASSUME NEW r \in Runs, Detect(r) PROVE TypeOK'
    BY <1>2 DEF Detect
  <1>3. ASSUME NEW r \in Runs, Unlink(r) PROVE TypeOK'
    BY <1>3 DEF Unlink
  <1>4. ASSUME NEW r \in Runs, Unchain(r) PROVE TypeOK'
    BY <1>4 DEF Unchain
  <1>5. ASSUME NEW r \in Runs, Clear(r) PROVE TypeOK'
    <2>1. pc' \in [Runs -> Stages] /\ shots' \in [Runs -> Shots] /\ at' \in [Runs -> Shots]
      BY <1>5 DEF Clear
    <2>2. \A a \in Runs : /\ pc'[a] \in {"create", "belong", "chain"} => at'[a] <= shots'[a]
                          /\ pc'[a] = "chain" => at'[a] > 1
      BY <1>5 DEF Clear
    <2>3. /\ video' \in Runs \cup {NoRun} /\ nodes' \in [Shots -> Runs \cup {NoRun}]
          /\ latest' \in Runs \cup {NoRun} /\ overlapped' \subseteq Runs
      BY <1>5 DEF Clear
    <2>4. belongs' \subseteq Shots /\ \A i \in belongs' : nodes'[i] # NoRun
      BY <1>5 DEF Clear
    <2>5. /\ chained' \subseteq 1..(MaxShots - 1)
          /\ \A i \in chained' : nodes'[i] # NoRun /\ nodes'[i + 1] # NoRun
      BY <1>5 DEF Clear
    <2>6. QED
      BY <2>1, <2>2, <2>3, <2>4, <2>5
  <1>6. ASSUME NEW r \in Runs, UpsertVideo(r) PROVE TypeOK'
    BY <1>6 DEF UpsertVideo
  <1>7. ASSUME NEW r \in Runs, CreateShot(r) PROVE TypeOK'
    <2> DEFINE i == at[r]
    <2>1. i \in Shots /\ \A j \in Shots : nodes'[j] # NoRun \/ nodes'[j] = nodes[j]
      BY <1>7 DEF CreateShot
    <2>2. pc' \in [Runs -> Stages] /\ shots' \in [Runs -> Shots] /\ at' \in [Runs -> Shots]
      BY <1>7 DEF CreateShot
    <2>3. \A a \in Runs : /\ pc'[a] \in {"create", "belong", "chain"} => at'[a] <= shots'[a]
                          /\ pc'[a] = "chain" => at'[a] > 1
      BY <1>7 DEF CreateShot
    <2>4. nodes' \in [Shots -> Runs \cup {NoRun}]
      <3>1. nodes' = nodes \/ nodes' = [nodes EXCEPT ![at[r]] = r]
        BY <1>7 DEF CreateShot
      <3>2. nodes \in [Shots -> Runs \cup {NoRun}] /\ r \in Runs \cup {NoRun}
        BY DEF TypeOK
      <3>3. QED
        BY <3>1, <3>2
    <2>5. video' = video /\ latest' = latest /\ overlapped' = overlapped
          /\ belongs' = belongs /\ chained' = chained
      BY <1>7 DEF CreateShot
    <2>6. \A j \in belongs' : nodes'[j] # NoRun
      BY <2>1, <2>5
    <2>7. \A j \in chained' : nodes'[j] # NoRun /\ nodes'[j + 1] # NoRun
      BY <2>1, <2>5
    <2>8. QED
      BY <2>2, <2>3, <2>4, <2>5, <2>6, <2>7
  <1>8. ASSUME NEW r \in Runs, Belong(r) PROVE TypeOK'
    <2>1. pc' \in [Runs -> Stages] /\ at' \in [Runs -> Shots] /\ Positions'
      <3>1. CASE at[r] > 1
        BY <1>8, <3>1 DEF Belong, Positions
      <3>2. CASE ~(at[r] > 1)
        BY <1>8, <3>2, ContinueTypes DEF Belong
      <3>3. QED
        BY <3>1, <3>2
    <2>2. /\ shots' = shots /\ video' = video /\ latest' = latest /\ overlapped' = overlapped
          /\ nodes' = nodes /\ chained' = chained
      BY <1>8 DEF Belong
    <2>3. belongs' \subseteq Shots /\ \A i \in belongs' : nodes'[i] # NoRun
      BY <1>8 DEF Belong
    <2>4. QED
      BY <2>1, <2>2, <2>3 DEF Positions
  <1>9. ASSUME NEW r \in Runs, Chain(r) PROVE TypeOK'
    <2>1. pc' \in [Runs -> Stages] /\ at' \in [Runs -> Shots] /\ Positions'
      BY <1>9, ContinueTypes DEF Chain
    <2>2. /\ shots' = shots /\ video' = video /\ latest' = latest /\ overlapped' = overlapped
          /\ nodes' = nodes /\ belongs' = belongs
      BY <1>9 DEF Chain
    <2>3. at[r] \in Nat /\ at[r] - 1 \in 1..(MaxShots - 1) /\ (at[r] - 1) + 1 = at[r]
      BY <1>9 DEF Chain
    <2>4. chained' = chained
          \/ /\ chained' = chained \cup {at[r] - 1}
             /\ nodes[at[r] - 1] # NoRun /\ nodes[at[r]] # NoRun
      BY <1>9 DEF Chain
    <2>5. \A i \in chained' : /\ i \in 1..(MaxShots - 1)
                              /\ nodes[i] # NoRun /\ nodes[i + 1] # NoRun
      BY <2>3, <2>4
    <2>6. QED
      BY <2>1, <2>2, <2>5 DEF Positions
  <1>10. ASSUME NEW r \in Runs, Fail(r) PROVE TypeOK'
    BY <1>10 DEF Fail
  <1>11. CASE UNCHANGED vars
    BY <1>11 DEF vars
  <1>12. QED
    BY <1>1, <1>2, <1>3, <1>4, <1>5, <1>6, <1>7, <1>8, <1>9, <1>10, <1>11 DEF Next

(* The graph is well formed whatever the runs do: a relationship never     *)
(* outlives its nodes.                                                     *)
THEOREM TypeCorrect == Spec => []TypeOK
  BY TypeInit, TypeStep, PTL DEF Spec

-----------------------------------------------------------------------------
(* A run that is alone: nobody else is active, and the graph is as far as  *)
(* its statements have come.                                               *)

UpTo(r, k) == [i \in Shots |-> IF i <= k THEN r ELSE NoRun]

Alone(r) == r = latest /\ r \notin overlapped

NobodyElse ==
    \A r \in Runs :
        /\ Alone(r) => \A a \in Runs \ {r} : ~Active(a)
        /\ Active(r) /\ r \notin overlapped => r = latest

Reached(r) ==
    /\ pc[r] \in {"unchain", "clear", "video"} => belongs = {}
    /\ pc[r] \in {"clear", "video"} => chained = {}
    /\ pc[r] = "video" => nodes = UpTo(r, 0)
    /\ pc[r] \in {"create", "belong", "chain", "written"} => video = r
    /\ pc[r] = "create" =>
           nodes = UpTo(r, at[r] - 1) /\ belongs = 1..(at[r] - 1) /\ chained = 1..(at[r] - 2)
    /\ pc[r] = "belong" =>
           nodes = UpTo(r, at[r]) /\ belongs = 1..(at[r] - 1) /\ chained = 1..(at[r] - 2)
    /\ pc[r] = "chain" =>
           nodes = UpTo(r, at[r]) /\ belongs = 1..at[r] /\ chained = 1..(at[r] - 2)
    /\ pc[r] = "written" =>
           nodes = UpTo(r, shots[r]) /\ belongs = 1..shots[r] /\ chained = 1..(shots[r] - 1)

Progress == \A r \in Runs : Alone(r) => Reached(r)

LEMMA NobodyElseStep == TypeOK /\ NobodyElse /\ [Next]_vars => NobodyElse'
  <1> SUFFICES ASSUME TypeOK, NobodyElse, [Next]_vars PROVE NobodyElse'
    OBVIOUS
  <1> USE GraphAssumption
      DEF TypeOK, Stages, Statements, NobodyElse, Alone, Active, Goto, Continue, graph, history
  <1>1. ASSUME NEW r \in Runs, Begin(r) PROVE NobodyElse'
    BY <1>1 DEF Begin
  <1>2. ASSUME NEW r \in Runs, Detect(r) PROVE NobodyElse'
    BY <1>2 DEF Detect
  <1>3. ASSUME NEW r \in Runs, Unlink(r) PROVE NobodyElse'
    BY <1>3 DEF Unlink
  <1>4. ASSUME NEW r \in Runs, Unchain(r) PROVE NobodyElse'
    BY <1>4 DEF Unchain
  <1>5. ASSUME NEW r \in Runs, Clear(r) PROVE NobodyElse'
    BY <1>5 DEF Clear
  <1>6. ASSUME NEW r \in Runs, UpsertVideo(r) PROVE NobodyElse'
    BY <1>6 DEF UpsertVideo
  <1>7. ASSUME NEW r \in Runs, CreateShot(r) PROVE NobodyElse'
    BY <1>7 DEF CreateShot
  <1>8. ASSUME NEW r \in Runs, Belong(r) PROVE NobodyElse'
    BY <1>8 DEF Belong
  <1>9. ASSUME NEW r \in Runs, Chain(r) PROVE NobodyElse'
    BY <1>9 DEF Chain
  <1>10. ASSUME NEW r \in Runs, Fail(r) PROVE NobodyElse'
    BY <1>10 DEF Fail
  <1>11. CASE UNCHANGED vars
    BY <1>11 DEF vars
  <1>12. QED
    BY <1>1, <1>2, <1>3, <1>4, <1>5, <1>6, <1>7, <1>8, <1>9, <1>10, <1>11 DEF Next

(* After its last statement for a shot, the run has come to the next shot  *)
(* or to the end.                                                          *)
LEMMA ContinueReached ==
    ASSUME NEW r \in Runs, TypeOK, pc[r] \in {"belong", "chain"}, shots' = shots, Continue(r),
           video' = r, nodes' = UpTo(r, at[r]), belongs' = 1..at[r], chained' = 1..(at[r] - 1)
    PROVE  Reached(r)'
  <1>1. /\ r \in DOMAIN pc /\ r \in DOMAIN at
        /\ at[r] \in Nat /\ shots[r] \in Nat /\ at[r] <= shots[r]
    BY GraphAssumption DEF TypeOK, Shots
  <1>2. CASE at[r] < shots[r]
    <2>1. pc'[r] = "create" /\ at'[r] = at[r] + 1
      BY <1>1, <1>2 DEF Continue, Goto
    <2>2. at'[r] - 1 = at[r] /\ at'[r] - 2 = at[r] - 1
      BY <1>1, <2>1
    <2>3. QED
      BY <2>1, <2>2 DEF Reached, UpTo
  <1>3. CASE ~(at[r] < shots[r])
    <2>1. pc'[r] = "written" /\ at[r] = shots[r]
      BY <1>1, <1>3 DEF Continue, Goto
    <2>2. QED
      BY <2>1 DEF Reached, UpTo
  <1>4. QED
    BY <1>2, <1>3

(* A step of a run that is not the one alone is its beginning.             *)
LEMMA OthersAreStill ==
    ASSUME TypeOK, NobodyElse, NEW r \in Runs, Active(r), UNCHANGED history,
           Alone(r) => Reached(r)'
    PROVE  Progress'
  BY DEF NobodyElse, Progress, Alone, history

LEMMA BelongReached ==
    ASSUME TypeOK, NEW r \in Runs, Belong(r), Reached(r), Alone(r)
    PROVE  Reached(r)'
  <1>1. /\ pc[r] = "belong" /\ at[r] \in Shots /\ r # NoRun /\ at[r] \in Nat /\ at[r] > 0
        /\ r \in DOMAIN pc
    BY GraphAssumption DEF TypeOK, Belong, Shots
  <1>2. /\ video = r /\ nodes = UpTo(r, at[r])
        /\ belongs = 1..(at[r] - 1) /\ chained = 1..(at[r] - 2)
    BY <1>1 DEF Reached
  <1>3. nodes[at[r]] = r
    BY <1>1, <1>2 DEF UpTo
  <1>4. belongs' = 1..at[r]
    <2>1. belongs' = belongs \cup {at[r]}
      BY <1>1, <1>3 DEF Belong
    <2>2. (1..(at[r] - 1)) \cup {at[r]} = 1..at[r]
      BY <1>1
    <2>3. QED
      BY <1>2, <2>1, <2>2
  <1>5. video' = video /\ nodes' = nodes /\ chained' = chained /\ shots' = shots
    BY DEF Belong
  <1>6. CASE at[r] > 1
    <2>1. pc'[r] = "chain" /\ at' = at
      BY <1>1, <1>6 DEF Belong, Goto
    <2>2. QED
      BY <1>2, <1>4, <1>5, <2>1 DEF Reached, UpTo
  <1>7. CASE ~(at[r] > 1)
    <2>1. at[r] = 1
      BY <1>1, <1>7
    <2>2. 1..(at[r] - 2) = 1..(at[r] - 1)
      BY <2>1
    <2>3. Continue(r)
      BY <1>7 DEF Belong
    <2>4. QED
      BY <1>1, <1>2, <1>4, <1>5, <2>2, <2>3, ContinueReached
  <1>8. QED
    BY <1>6, <1>7

LEMMA ChainReached ==
    ASSUME TypeOK, NEW r \in Runs, Chain(r), Reached(r), Alone(r)
    PROVE  Reached(r)'
  <1>1. /\ pc[r] = "chain" /\ at[r] \in Shots /\ r # NoRun /\ at[r] \in Nat /\ at[r] > 1
        /\ at[r] - 1 \in Shots
    BY GraphAssumption DEF TypeOK, Chain, Shots
  <1>2. /\ video = r /\ nodes = UpTo(r, at[r])
        /\ belongs = 1..at[r] /\ chained = 1..(at[r] - 2)
    BY <1>1 DEF Reached
  <1>3. nodes[at[r]] = r /\ nodes[at[r] - 1] = r
    BY <1>1, <1>2 DEF UpTo
  <1>4. chained' = 1..(at[r] - 1)
    <2>1. chained' = chained \cup {at[r] - 1}
      BY <1>1, <1>3 DEF Chain
    <2>2. (1..(at[r] - 2)) \cup {at[r] - 1} = 1..(at[r] - 1)
      BY <1>1
    <2>3. QED
      BY <1>2, <2>1, <2>2
  <1>5. video' = video /\ nodes' = nodes /\ belongs' = belongs /\ shots' = shots /\ Continue(r)
    BY DEF Chain
  <1>6. QED
    BY <1>1, <1>2, <1>4, <1>5, ContinueReached

LEMMA ProgressStep ==
    TypeOK /\ TypeOK' /\ NobodyElse /\ Progress /\ [Next]_vars => Progress'
  <1> SUFFICES ASSUME TypeOK, TypeOK', NobodyElse, Progress, [Next]_vars PROVE Progress'
    OBVIOUS
  <1> USE GraphAssumption
      DEF TypeOK, Stages, Statements, Shots, NobodyElse, Progress, Reached, Alone, Active, UpTo,
          Goto, Continue, graph, history
  <1>1. ASSUME NEW r \in Runs, Begin(r) PROVE Progress'
    BY <1>1 DEF Begin
  <1>2. ASSUME NEW r \in Runs, Detect(r) PROVE Progress'
    BY <1>2 DEF Detect
  <1>3. ASSUME NEW r \in Runs, Unlink(r) PROVE Progress'
    BY <1>3 DEF Unlink
  <1>4. ASSUME NEW r \in Runs, Unchain(r) PROVE Progress'
    BY <1>4 DEF Unchain
  <1>5. ASSUME NEW r \in Runs, Clear(r) PROVE Progress'
    BY <1>5 DEF Clear
  <1>6. ASSUME NEW r \in Runs, UpsertVideo(r) PROVE Progress'
    BY <1>6 DEF UpsertVideo
  <1>7. ASSUME NEW r \in Runs, CreateShot(r) PROVE Progress'
    BY <1>7 DEF CreateShot
  <1>8. ASSUME NEW r \in Runs, Belong(r) PROVE Progress'
    <2>1. Alone(r) => Reached(r)'
      BY <1>8, BelongReached
    <2>2. Active(r) /\ UNCHANGED history
      BY <1>8 DEF Belong
    <2>3. QED
      BY <2>1, <2>2, OthersAreStill
  <1>9. ASSUME NEW r \in Runs, Chain(r) PROVE Progress'
    <2>1. Alone(r) => Reached(r)'
      BY <1>9, ChainReached
    <2>2. Active(r) /\ UNCHANGED history
      BY <1>9 DEF Chain
    <2>3. QED
      BY <2>1, <2>2, OthersAreStill
  <1>10. ASSUME NEW r \in Runs, Fail(r) PROVE Progress'
    BY <1>10 DEF Fail
  <1>11. CASE UNCHANGED vars
    BY <1>11 DEF vars
  <1>12. QED
    BY <1>1, <1>2, <1>3, <1>4, <1>5, <1>6, <1>7, <1>8, <1>9, <1>10, <1>11 DEF Next

LEMMA AloneInit == Init => NobodyElse /\ Progress
  BY GraphAssumption DEF Init, NobodyElse, Progress, Alone, Active, Statements

(* A run that is alone to the end leaves exactly its own graph.            *)
THEOREM LatestGraph == Spec => []GraphIsOfLatest
  <1>1. Progress => GraphIsOfLatest
    BY DEF Progress, Reached, GraphIsOfLatest, Alone, UpTo
  <1>2. QED
    BY <1>1, AloneInit, TypeInit, TypeStep, NobodyElseStep, ProgressStep, PTL DEF Spec

NotRefused ==
    \A r \in Runs : (Clear(r) \/ CreateShot(r)) /\ r \notin overlapped => pc'[r] # "failed"

(* Kuzu never refuses a statement of a run that is alone.                  *)
THEOREM NeverRefused == Spec => AloneIsNeverRefused
  <1>1. TypeOK /\ NobodyElse /\ Progress => [NotRefused]_vars
    <2> SUFFICES ASSUME TypeOK, NobodyElse, Progress, NEW r \in Runs, r \notin overlapped,
                        Clear(r) \/ CreateShot(r)
                 PROVE  pc'[r] # "failed"
      BY DEF NotRefused
    <2>1. Active(r)
      BY DEF Clear, CreateShot, Active, Statements
    <2>2. Alone(r) /\ Reached(r) /\ r \in DOMAIN pc
      BY <2>1 DEF NobodyElse, Progress, Alone, TypeOK
    <2>3. CASE Clear(r)
      BY <2>2, <2>3 DEF Clear, Reached, Goto
    <2>4. CASE CreateShot(r)
      <3>1. at[r] \in Shots /\ at[r] \in Nat
        BY GraphAssumption DEF TypeOK, Shots
      <3>2. nodes[at[r]] = NoRun
        BY <2>2, <2>4, <3>1 DEF CreateShot, Reached, UpTo
      <3>3. QED
        BY <2>2, <2>4, <3>2 DEF CreateShot, Goto
    <2>5. QED
      BY <2>3, <2>4
  <1>2. QED
    BY <1>1, AloneInit, TypeInit, TypeStep, NobodyElseStep, ProgressStep, PTL
    DEF Spec, AloneIsNeverRefused, NotRefused
=============================================================================
