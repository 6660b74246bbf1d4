---------------------------- MODULE ExportProofs ----------------------------
(***************************************************************************)
(* Proofs about Export for any number of attempts and deliveries: what a   *)
(* report names is stored, what a render job stores is whole, and nothing  *)
(* is left on the disk.                                                    *)
(***************************************************************************)
EXTENDS Export, Sequences, TLAPS

-----------------------------------------------------------------------------
(* The optimization.                                                       *)

Plan == Optimization!Plan
Names == Optimization!Names
Mandatory(v) == Optimization!Mandatory(v)

AttemptStages == {"waiting", "write", "upload", "probe", "reported", "failed", "dead"}

OptimizationTypes ==
    /\ kind \in {"video", "audio", "image"}
    /\ pc \in [Attempts -> AttemptStages]
    /\ at \in [Attempts -> Nat]
    /\ \A a \in Attempts : at[a] \in DOMAIN Plan
    /\ files \in [Attempts -> [Names -> Quality]]
    /\ dirs \subseteq Attempts
    /\ named \in [Attempts -> SUBSET Names]
    /\ objects \in [Names -> Quality]
    /\ died \subseteq Attempts

(* The mandatory files of an attempt are whole as soon as they are there,  *)
(* and all are there when it uploads; it begins with the first.            *)
FilesAreWhole ==
    \A a \in Attempts :
        /\ \A v \in Names : Mandatory(v) => files[a][v] \in {None, "whole"}
        /\ \A i \in DOMAIN Plan :
              /\ Mandatory(Plan[i])
              /\ pc[a] = "upload" \/ (pc[a] = "write" /\ i < at[a])
              => files[a][Plan[i]] = "whole"
        /\ pc[a] = "waiting" => at[a] = 1

(* What an attempt has named is stored, and it has named the canonical     *)
(* form once it is past it.                                                *)
NamedIsStored ==
    \A a \in Attempts :
        /\ \A v \in named[a] : objects[v] # None
        /\ pc[a] \in {"probe", "reported"} \/ (pc[a] = "upload" /\ at[a] # 1)
           => "canonical" \in named[a]

ObjectsAreWhole == \A v \in Names : Mandatory(v) => objects[v] \in {None, "whole"}

OptimizationInv ==
    OptimizationTypes /\ FilesAreWhole /\ NamedIsStored /\ ObjectsAreWhole

LEMMA PlanFacts ==
    ASSUME kind \in {"video", "audio", "image"}
    PROVE  /\ Plan[1] = "canonical"
           /\ Len(Plan) \in {2, 3}
           /\ DOMAIN Plan = 1..Len(Plan)
           /\ \A i \in DOMAIN Plan : Plan[i] \in Names
           /\ \A i, j \in DOMAIN Plan : Plan[i] = Plan[j] => i = j
  <1> USE DEF Plan, Names, Optimization!Plan, Optimization!Names, Optimization!Variants
  <1>1. CASE kind = "video"
    BY <1>1
  <1>2. CASE kind = "audio"
    BY <1>2
  <1>3. CASE kind = "image"
    BY <1>3
  <1>4. QED
    BY <1>1, <1>2, <1>3

LEMMA OptimizationInit == Optimization!Init => OptimizationInv
  <1> SUFFICES ASSUME Optimization!Init PROVE OptimizationInv
    OBVIOUS
  <1>1. kind \in {"video", "audio", "image"}
    BY DEF Optimization!Init, Optimization!Variants
  <1>2. 1 \in DOMAIN Plan
    BY <1>1, PlanFacts
  <1>3. OptimizationTypes
    BY <1>1, <1>2
       DEF OptimizationTypes, Optimization!Init, Optimization!NoFiles, Quality, Names, AttemptStages
  <1>4. FilesAreWhole
    BY <1>1, PlanFacts DEF FilesAreWhole, Optimization!Init, Optimization!NoFiles, Names
  <1>5. NamedIsStored
    BY DEF NamedIsStored, Optimization!Init
  <1>6. ObjectsAreWhole
    BY DEF ObjectsAreWhole, Optimization!Init, Optimization!NoFiles, Names
  <1>7. QED
    BY <1>3, <1>4, <1>5, <1>6 DEF OptimizationInv

LEMMA RemoveDirTypes ==
    ASSUME OptimizationTypes, NEW a \in Attempts, Optimization!RemoveDir(a)
    PROVE  /\ dirs' \subseteq Attempts
           /\ files' \in [Attempts -> [Names -> Quality]]
           /\ \A v \in Names : files'[a][v] = None
           /\ \A b \in Attempts \ {a} : files'[b] = files[b]
  BY DEF OptimizationTypes, Optimization!RemoveDir, Optimization!NoFiles, Names, Quality

(* Every step of an attempt changes its own position, files and report,    *)
(* and replaces no object by nothing.                                      *)
LEMMA Local ==
    ASSUME OptimizationInv, OptimizationTypes', NEW a \in Attempts,
           UNCHANGED kind,
           \A b \in Attempts \ {a} :
              pc'[b] = pc[b] /\ at'[b] = at[b] /\ files'[b] = files[b] /\ named'[b] = named[b],
           \A v \in Names :
              /\ objects[v] # None => objects'[v] # None
              /\ Mandatory(v) => objects'[v] \in {None, "whole"}
              /\ Mandatory(v) => files'[a][v] \in {None, "whole"},
           \A i \in DOMAIN Plan :
              /\ Mandatory(Plan[i])
              /\ pc'[a] = "upload" \/ (pc'[a] = "write" /\ i < at'[a])
              => files'[a][Plan[i]] = "whole",
           \A v \in named'[a] : objects'[v] # None,
           pc'[a] # "waiting",
           pc'[a] \in {"probe", "reported"} \/ (pc'[a] = "upload" /\ at'[a] # 1)
              => "canonical" \in named'[a]
    PROVE  OptimizationInv'
  <1>1. Plan' = Plan /\ Names' = Names /\ \A v : Mandatory(v)' = Mandatory(v)
    BY DEF Plan, Names, Mandatory, Optimization!Plan, Optimization!Names, Optimization!Mandatory
  <1>2. FilesAreWhole'
    BY <1>1 DEF OptimizationInv, FilesAreWhole
  <1>3. NamedIsStored'
    <2> SUFFICES ASSUME NEW b \in Attempts
                 PROVE  /\ \A v \in named'[b] : objects'[v] # None
                        /\ \/ pc'[b] \in {"probe", "reported"}
                           \/ pc'[b] = "upload" /\ at'[b] # 1
                           => "canonical" \in named'[b]
      BY DEF NamedIsStored
    <2>1. CASE b = a
      BY <2>1
    <2>2. CASE b # a
      BY <2>2 DEF OptimizationInv, OptimizationTypes, NamedIsStored
    <2>3. QED
      BY <2>1, <2>2
  <1>4. ObjectsAreWhole'
    BY <1>1 DEF ObjectsAreWhole
  <1>5. QED
    BY <1>2, <1>3, <1>4 DEF OptimizationInv

LEMMA AbandonStep ==
    ASSUME OptimizationInv, NEW a \in Attempts, Optimization!Abandon(a),
           objects' \in [Names -> Quality],
           \A v \in Names :
              /\ objects[v] # None => objects'[v] # None
              /\ Mandatory(v) => objects'[v] \in {None, "whole"}
    PROVE  OptimizationInv'
  <1>1. /\ pc' = [pc EXCEPT ![a] = "failed"]
        /\ at' = [at EXCEPT ![a] = 1]
        /\ named' = [named EXCEPT ![a] = {}]
        /\ Optimization!RemoveDir(a)
        /\ UNCHANGED <<kind, died>>
    BY DEF Optimization!Abandon, Optimization!Goto
  <1>2. OptimizationTypes
    BY DEF OptimizationInv
  <1>3. Plan' = Plan /\ Names' = Names /\ 1 \in DOMAIN Plan
    BY <1>1, <1>2, PlanFacts
       DEF OptimizationTypes, Plan, Names, Optimization!Plan, Optimization!Names
  <1>4. /\ pc' \in [Attempts -> AttemptStages]
        /\ at' \in [Attempts -> Nat]
        /\ \A b \in Attempts : at'[b] \in DOMAIN Plan
        /\ named' \in [Attempts -> SUBSET Names]
        /\ dirs' \subseteq Attempts
        /\ files' \in [Attempts -> [Names -> Quality]]
    BY <1>1, <1>2, <1>3, RemoveDirTypes DEF OptimizationTypes, AttemptStages
  <1>5. OptimizationTypes'
    BY <1>1, <1>2, <1>3, <1>4 DEF OptimizationTypes, Quality
  <1>6. /\ \A v \in Names : files'[a][v] = None
        /\ \A b \in Attempts \ {a} : files'[b] = files[b]
    BY <1>1, <1>2, RemoveDirTypes
  <1>7. /\ pc'[a] = "failed" /\ named'[a] = {}
        /\ \A b \in Attempts \ {a} : pc'[b] = pc[b] /\ at'[b] = at[b] /\ named'[b] = named[b]
    BY <1>1, <1>2 DEF OptimizationTypes
  <1>8. QED
    BY <1>1, <1>5, <1>6, <1>7, Local

LEMMA RaiseStep ==
    ASSUME OptimizationInv, NEW a \in Attempts, Optimization!Raise(a)
    PROVE  OptimizationInv'
  BY AbandonStep DEF Optimization!Raise, OptimizationInv, OptimizationTypes, ObjectsAreWhole

LEMMA StartStep ==
    ASSUME OptimizationInv, NEW a \in Attempts, Optimization!Start(a)
    PROVE  OptimizationInv'
  <1>1. CASE Optimization!Raise(a)
    BY <1>1, RaiseStep
  <1>2. CASE ~Optimization!Raise(a)
    <2>1. /\ pc[a] = "waiting" /\ pc' = [pc EXCEPT ![a] = "write"]
          /\ dirs' = dirs \cup {a}
          /\ UNCHANGED <<kind, at, files, named, objects, died>>
      BY <1>2 DEF Optimization!Start, Optimization!Goto
    <2>2. OptimizationTypes /\ Plan' = Plan /\ Names' = Names
      BY <2>1 DEF OptimizationInv, Plan, Names, Optimization!Plan, Optimization!Names
    <2>3. OptimizationTypes'
      BY <2>1, <2>2 DEF OptimizationTypes, AttemptStages, Quality
    <2>4. pc'[a] = "write" /\ \A b \in Attempts \ {a} : pc'[b] = pc[b]
      BY <2>1, <2>2 DEF OptimizationTypes
    <2>5. at[a] = 1
      BY <2>1 DEF OptimizationInv, FilesAreWhole
    <2>6. /\ \A v \in Names : Mandatory(v) => files[a][v] \in {None, "whole"}
          /\ \A v \in Names : Mandatory(v) => objects[v] \in {None, "whole"}
          /\ \A v \in named[a] : objects[v] # None
      BY DEF OptimizationInv, FilesAreWhole, NamedIsStored, ObjectsAreWhole
    <2>7. \A i \in DOMAIN Plan : ~(i < at'[a])
      <3>1. \A i \in DOMAIN Plan : i \in Nat /\ i >= 1
        BY <2>2, PlanFacts DEF OptimizationTypes
      <3>2. QED
        BY <2>1, <2>5, <3>1
    <2>8. QED
      BY <2>1, <2>3, <2>4, <2>6, <2>7, Local
  <1>3. QED
    BY <1>1, <1>2

(* A step to the next variant, or to the next stage after the last one.    *)
LEMMA AdvanceTypes ==
    ASSUME OptimizationTypes, NEW a \in Attempts, NEW stop \in AttemptStages,
           Optimization!Advance(a, stop)
    PROVE  /\ pc' \in [Attempts -> AttemptStages]
           /\ at' \in [Attempts -> Nat]
           /\ \A b \in Attempts : at'[b] \in DOMAIN Plan
           /\ \A b \in Attempts \ {a} : pc'[b] = pc[b] /\ at'[b] = at[b]
           /\ \/ at[a] < Len(Plan) /\ at'[a] = at[a] + 1 /\ pc'[a] = pc[a]
              \/ at[a] = Len(Plan) /\ at'[a] = 1 /\ pc'[a] = stop
  <1>1. Len(Plan) \in {2, 3} /\ DOMAIN Plan = 1..Len(Plan)
    BY PlanFacts DEF OptimizationTypes
  <1>2. at[a] \in Nat /\ at[a] \in 1..Len(Plan)
    BY <1>1 DEF OptimizationTypes
  <1>3. CASE at[a] < Len(Plan)
    <2>1. at' = [at EXCEPT ![a] = @ + 1] /\ UNCHANGED pc
      BY <1>3 DEF Optimization!Advance, Plan
    <2>2. QED
      BY <1>1, <1>2, <1>3, <2>1 DEF OptimizationTypes
  <1>4. CASE ~(at[a] < Len(Plan))
    <2>1. at' = [at EXCEPT ![a] = 1] /\ pc' = [pc EXCEPT ![a] = stop]
      BY <1>4 DEF Optimization!Advance, Optimization!Goto, Plan
    <2>2. QED
      BY <1>1, <1>2, <1>4, <2>1 DEF OptimizationTypes
  <1>5. QED
    BY <1>3, <1>4

LEMMA WriteStep ==
    ASSUME OptimizationInv, NEW a \in Attempts, Optimization!Write(a)
    PROVE  OptimizationInv'
  <1> DEFINE v == Plan[at[a]]
  <1>0. OptimizationTypes
    BY DEF OptimizationInv
  <1>1. /\ Len(Plan) \in {2, 3} /\ DOMAIN Plan = 1..Len(Plan)
        /\ at[a] \in DOMAIN Plan /\ v \in Names
        /\ \A i, j \in DOMAIN Plan : Plan[i] = Plan[j] => i = j
        /\ \A i \in DOMAIN Plan : Plan[i] \in Names
    BY <1>0, PlanFacts DEF OptimizationTypes
  <1>2. CASE Optimization!Raise(a)
    BY <1>2, RaiseStep
  <1>3. CASE ~Optimization!Raise(a)
    <2>1. PICK outcome \in {"whole", "part", None} :
             /\ outcome = "whole" \/ ~Mandatory(v)
             /\ files' = [files EXCEPT ![a][v] = outcome]
             /\ Optimization!Advance(a, "upload")
             /\ UNCHANGED <<kind, dirs, named, width, objects, died>>
      BY <1>3 DEF Optimization!Write, Plan, Mandatory
    <2>2. pc[a] = "write"
      BY DEF Optimization!Write
    <2>3. "upload" \in AttemptStages
      BY DEF AttemptStages
    <2>4. /\ pc' \in [Attempts -> AttemptStages]
          /\ at' \in [Attempts -> Nat]
          /\ \A b \in Attempts : at'[b] \in DOMAIN Plan
          /\ \A b \in Attempts \ {a} : pc'[b] = pc[b] /\ at'[b] = at[b]
          /\ \/ at[a] < Len(Plan) /\ at'[a] = at[a] + 1 /\ pc'[a] = "write"
             \/ at[a] = Len(Plan) /\ at'[a] = 1 /\ pc'[a] = "upload"
      BY <1>0, <2>1, <2>2, <2>3, AdvanceTypes
    <2> HIDE DEF v
    <2>5. /\ files' \in [Attempts -> [Names -> Quality]]
          /\ \A w \in Names : files'[a][w] = IF w = v THEN outcome ELSE files[a][w]
          /\ \A b \in Attempts \ {a} : files'[b] = files[b]
      BY <1>0, <1>1, <2>1 DEF OptimizationTypes, Quality
    <2>6. Plan' = Plan /\ Names' = Names
      BY <2>1 DEF Plan, Names, Optimization!Plan, Optimization!Names
    <2>7. OptimizationTypes'
      BY <1>0, <2>1, <2>4, <2>5, <2>6 DEF OptimizationTypes, Quality
    <2>8. \A w \in Names : Mandatory(w) => files'[a][w] \in {None, "whole"}
      BY <2>1, <2>5 DEF OptimizationInv, FilesAreWhole
    <2>9. ASSUME NEW i \in DOMAIN Plan, Mandatory(Plan[i]),
                 pc'[a] = "upload" \/ (pc'[a] = "write" /\ i < at'[a])
          PROVE  files'[a][Plan[i]] = "whole"
      <3>1. CASE i = at[a]
        BY <1>1, <2>1, <2>5, <2>9, <3>1 DEF v
      <3>2. CASE i # at[a]
        <4>1. i < at[a]
          BY <1>1, <2>4, <2>9, <3>2
        <4>2. files[a][Plan[i]] = "whole"
          BY <2>2, <2>9, <4>1 DEF OptimizationInv, FilesAreWhole
        <4>3. Plan[i] # v
          BY <1>1, <3>2 DEF v
        <4>4. QED
          BY <1>1, <2>5, <4>2, <4>3
      <3>3. QED
        BY <3>1, <3>2
    <2>10. /\ \A w \in Names : Mandatory(w) => objects[w] \in {None, "whole"}
           /\ \A w \in named[a] : objects[w] # None
      BY DEF OptimizationInv, NamedIsStored, ObjectsAreWhole
    <2>11. pc'[a] \notin {"waiting", "probe", "reported"} /\ (pc'[a] = "upload" => at'[a] = 1)
      BY <2>4
    <2>12. QED
      BY <2>1, <2>4, <2>5, <2>7, <2>8, <2>9, <2>10, <2>11, Local
  <1>4. QED
    BY <1>2, <1>3

LEMMA UploadStep ==
    ASSUME OptimizationInv, NEW a \in Attempts, Optimization!Upload(a)
    PROVE  OptimizationInv'
  <1> DEFINE v == Plan[at[a]]
             stored == [objects EXCEPT ![v] = files[a][v]]
  <1>0. OptimizationTypes
    BY DEF OptimizationInv
  <1>1. /\ Len(Plan) \in {2, 3} /\ DOMAIN Plan = 1..Len(Plan)
        /\ at[a] \in DOMAIN Plan /\ v \in Names /\ Plan[1] = "canonical"
    BY <1>0, PlanFacts DEF OptimizationTypes
  <1>2. pc[a] = "upload"
    BY DEF Optimization!Upload
  <1>3. Mandatory(v) => files[a][v] = "whole"
    BY <1>1, <1>2 DEF OptimizationInv, FilesAreWhole
  <1>4. stored \in [Names -> Quality] /\ objects \in [Names -> Quality]
    BY <1>0, <1>1 DEF OptimizationTypes
  <1>5. /\ \A w \in Names : Mandatory(w) => objects[w] \in {None, "whole"}
        /\ \A w \in named[a] : objects[w] # None
        /\ named[a] \subseteq Names
    BY <1>0 DEF OptimizationInv, OptimizationTypes, NamedIsStored, ObjectsAreWhole
  <1>6. \A w \in Names : stored[w] = IF w = v THEN files[a][v] ELSE objects[w]
    BY <1>0, <1>1 DEF OptimizationTypes
  <1> HIDE DEF v, stored
  <1>7. files[a][v] # None =>
           \A w \in Names : /\ objects[w] # None => stored[w] # None
                            /\ Mandatory(w) => stored[w] \in {None, "whole"}
    BY <1>3, <1>5, <1>6
  <1>8. CASE Mandatory(v) /\ objects' \in {objects, stored} /\ Optimization!Abandon(a)
    <2>1. files[a][v] # None
      BY <1>3, <1>8, NoneAssumption
    <2>2. QED
      BY <1>4, <1>5, <1>7, <1>8, <2>1, AbandonStep
  <1>9. ASSUME Optimization!Advance(a, "probe"),
               UNCHANGED <<kind, files, dirs, width, died>>,
               \/ /\ files[a][v] # None /\ objects' = stored
                  /\ named' = [named EXCEPT ![a] = @ \cup {v}]
               \/ /\ ~Mandatory(v)
                  /\ objects' \in {objects} \cup IF files[a][v] = None THEN {} ELSE {stored}
                  /\ UNCHANGED named
        PROVE  OptimizationInv'
    <2>1. "probe" \in AttemptStages
      BY DEF AttemptStages
    <2>2. /\ pc' \in [Attempts -> AttemptStages]
          /\ at' \in [Attempts -> Nat]
          /\ \A b \in Attempts : at'[b] \in DOMAIN Plan
          /\ \A b \in Attempts \ {a} : pc'[b] = pc[b] /\ at'[b] = at[b]
          /\ \/ at[a] < Len(Plan) /\ at'[a] = at[a] + 1 /\ pc'[a] = "upload"
             \/ at[a] = Len(Plan) /\ at'[a] = 1 /\ pc'[a] = "probe"
      BY <1>0, <1>2, <1>9, <2>1, AdvanceTypes
    <2>3. /\ objects' \in [Names -> Quality]
          /\ \A w \in Names : /\ objects[w] # None => objects'[w] # None
                              /\ Mandatory(w) => objects'[w] \in {None, "whole"}
      BY <1>4, <1>5, <1>7, <1>9
    <2>4. /\ named' \in [Attempts -> SUBSET Names]
          /\ named'[a] = named[a] \/ (named'[a] = named[a] \cup {v} /\ objects'[v] # None)
          /\ \A b \in Attempts \ {a} : named'[b] = named[b]
      <3>1. CASE UNCHANGED named
        BY <1>0, <3>1 DEF OptimizationTypes
      <3>2. CASE /\ files[a][v] # None /\ objects' = stored
                 /\ named' = [named EXCEPT ![a] = @ \cup {v}]
        BY <1>0, <1>1, <1>6, <3>2 DEF OptimizationTypes
      <3>3. QED
        BY <1>9, <3>1, <3>2
    <2>5. Plan' = Plan /\ Names' = Names
      BY <1>9 DEF Plan, Names, Optimization!Plan, Optimization!Names
    <2>6. OptimizationTypes'
      BY <1>0, <1>9, <2>2, <2>3, <2>4, <2>5 DEF OptimizationTypes, Quality
    <2>7. ASSUME NEW w \in named'[a] PROVE objects'[w] # None
      <3>1. CASE w \in named[a]
        <4>1. w \in Names
          BY <1>5, <3>1
        <4>2. objects[w] # None
          BY <1>5, <3>1
        <4>3. QED
          BY <2>3, <4>1, <4>2
      <3>2. CASE w \notin named[a]
        BY <2>4, <2>7, <3>2
      <3>3. QED
        BY <3>1, <3>2
    <2>8. "canonical" \in named'[a]
      <3>1. CASE at[a] = 1
        <4>1. v = "canonical" /\ Mandatory(v)
          BY <1>1, <3>1 DEF v, Mandatory, Optimization!Mandatory
        <4>2. QED
          BY <1>0, <1>9, <4>1 DEF OptimizationTypes
      <3>2. CASE at[a] # 1
        BY <1>2, <2>4, <3>2 DEF OptimizationInv, NamedIsStored
      <3>3. QED
        BY <3>1, <3>2
    <2>9. /\ \A w \in Names : Mandatory(w) => files'[a][w] \in {None, "whole"}
          /\ \A i \in DOMAIN Plan : Mandatory(Plan[i]) => files'[a][Plan[i]] = "whole"
          /\ \A b \in Attempts \ {a} : files'[b] = files[b]
      BY <1>2, <1>9 DEF OptimizationInv, FilesAreWhole
    <2>10. kind' = kind /\ pc'[a] # "waiting"
      BY <1>9, <2>2
    <2>11. QED
      BY <2>10, <2>2, <2>3, <2>4, <2>6, <2>7, <2>8, <2>9, Local
  <1>10. QED
    BY <1>8, <1>9 DEF Optimization!Upload, v, stored, Plan, Mandatory

LEMMA ProbeStep ==
    ASSUME OptimizationInv, NEW a \in Attempts, Optimization!Probe(a)
    PROVE  OptimizationInv'
  <1>1. CASE Optimization!Raise(a)
    BY <1>1, RaiseStep
  <1>2. CASE ~Optimization!Raise(a)
    <2>1. /\ pc[a] = "probe" /\ pc' = [pc EXCEPT ![a] = "reported"]
          /\ Optimization!RemoveDir(a)
          /\ UNCHANGED <<kind, at, named, objects, died>>
      BY <1>2 DEF Optimization!Probe, Optimization!Goto
    <2>2. OptimizationTypes /\ Plan' = Plan /\ Names' = Names
      BY <2>1 DEF OptimizationInv, Plan, Names, Optimization!Plan, Optimization!Names
    <2>3. /\ dirs' \subseteq Attempts
          /\ files' \in [Attempts -> [Names -> Quality]]
          /\ \A v \in Names : files'[a][v] = None
          /\ \A b \in Attempts \ {a} : files'[b] = files[b]
      BY <2>1, <2>2, RemoveDirTypes
    <2>4. pc' \in [Attempts -> AttemptStages]
      BY <2>1, <2>2 DEF OptimizationTypes, AttemptStages
    <2>5. OptimizationTypes'
      BY <2>1, <2>2, <2>3, <2>4 DEF OptimizationTypes, Quality
    <2>6. pc'[a] = "reported" /\ \A b \in Attempts \ {a} : pc'[b] = pc[b]
      BY <2>1, <2>2 DEF OptimizationTypes
    <2>7. /\ \A v \in Names : Mandatory(v) => objects[v] \in {None, "whole"}
          /\ \A v \in named[a] : objects[v] # None
          /\ "canonical" \in named[a]
      BY <2>1 DEF OptimizationInv, NamedIsStored, ObjectsAreWhole
    <2>8. QED
      BY <2>1, <2>3, <2>5, <2>6, <2>7, Local
  <1>3. QED
    BY <1>1, <1>2

LEMMA AttemptsDieStep ==
    ASSUME OptimizationInv, Optimization!Die
    PROVE  OptimizationInv'
  <1> DEFINE active == {a \in Attempts : Optimization!Active(a)}
  <1>0. OptimizationTypes
    BY DEF OptimizationInv
  <1>1. /\ pc' = [a \in Attempts |-> IF a \in active THEN "dead" ELSE pc[a]]
        /\ at' = [a \in Attempts |-> IF a \in active THEN 1 ELSE at[a]]
        /\ files' = [a \in Attempts |-> Optimization!NoFiles]
        /\ named' = [a \in Attempts |-> IF a \in active THEN {} ELSE named[a]]
        /\ died' = died \cup active
        /\ UNCHANGED <<kind, dirs, objects>>
    BY DEF Optimization!Die
  <1>2. \A a \in Attempts \ active : pc[a] \notin {"write", "upload", "probe"}
    BY DEF Optimization!Active
  <1>3. active \subseteq Attempts
    OBVIOUS
  <1> HIDE DEF active
  <1>4. Plan' = Plan /\ Names' = Names /\ 1 \in DOMAIN Plan /\ \A v : Mandatory(v)' = Mandatory(v)
    BY <1>0, <1>1, PlanFacts
       DEF OptimizationTypes, Plan, Names, Optimization!Plan, Optimization!Names,
           Mandatory, Optimization!Mandatory
  <1>5. files' \in [Attempts -> [Names -> Quality]] /\ \A a \in Attempts, v \in Names : files'[a][v] = None
    BY <1>1 DEF Optimization!NoFiles, Names, Quality
  <1>6. OptimizationTypes'
    <2>1. pc' \in [Attempts -> AttemptStages] /\ at' \in [Attempts -> Nat]
      BY <1>0, <1>1 DEF OptimizationTypes, AttemptStages
    <2>2. \A a \in Attempts : at'[a] \in DOMAIN Plan
      BY <1>0, <1>1, <1>4 DEF OptimizationTypes
    <2>3. named' \in [Attempts -> SUBSET Names]
      BY <1>0, <1>1 DEF OptimizationTypes
    <2>4. QED
      BY <1>0, <1>1, <1>3, <1>4, <1>5, <2>1, <2>2, <2>3 DEF OptimizationTypes, Quality
  <1>7. \A a \in Attempts : pc'[a] \notin {"write", "upload", "probe"}
    BY <1>1, <1>2
  <1>8. FilesAreWhole'
    <2>1. \A a \in Attempts : pc'[a] = "waiting" => at'[a] = 1
      BY <1>1 DEF OptimizationInv, FilesAreWhole
    <2>2. QED
      BY <1>4, <1>5, <1>7, <2>1 DEF FilesAreWhole
  <1>9. NamedIsStored'
    BY <1>1, <1>7 DEF OptimizationInv, NamedIsStored
  <1>10. ObjectsAreWhole'
    BY <1>1, <1>4 DEF OptimizationInv, ObjectsAreWhole
  <1>11. QED
    BY <1>6, <1>8, <1>9, <1>10 DEF OptimizationInv

-----------------------------------------------------------------------------
(* The render job.                                                         *)

DeliveryStages ==
    {"waiting", "download", "compose", "audio", "mux", "upload", "stat",
     "completed", "failed", "dead"}

Directory == [source : Quality, silent : Quality, output : Quality]

JobTypes ==
    /\ stage \in [Deliveries -> DeliveryStages]
    /\ work \in Directory \cup {None}
    /\ shared \subseteq Deliveries
    /\ blind \in BOOLEAN

(* A delivery that never ran with another one is the only active one.      *)
Alone ==
    shared = {} => \A d, e \in Deliveries : Job!Active(d) /\ Job!Active(e) => d = e

(* What the directory of such a delivery has at each step.                 *)
Progress ==
    shared = {} /\ ~blind => \A d \in Deliveries :
        /\ stage[d] = "compose" => work # None /\ work.source = "whole"
        /\ stage[d] \in {"audio", "mux"} => work # None /\ work.silent = "whole"
        /\ stage[d] \in {"upload", "stat"} => work # None /\ work.output = "whole"

StoredIsWhole == shared = {} /\ ~blind => output \in {None, "whole"}

(* A delivery that has uploaded leaves an object, which nothing removes.   *)
UploadedIsThere ==
    \A d \in Deliveries : stage[d] \in {"stat", "completed"} => output # None

JobInv == JobTypes /\ Alone /\ Progress /\ StoredIsWhole /\ UploadedIsThere

LEMMA JobInit == Job!Init => JobInv
  BY DEF Job!Init, JobInv, JobTypes, Alone, Progress, StoredIsWhole, UploadedIsThere,
         DeliveryStages, Job!Active, Job!Rendering

(* What Written makes of the directory: one with the file as asked, if the *)
(* delivery is alone.                                                      *)
LEMMA WrittenFacts ==
    ASSUME JobTypes, NEW d \in Deliveries, NEW file \in {"source", "silent", "output"},
           NEW q \in Quality, NEW w \in Job!Written(d, file, q)
    PROVE  /\ w \in Directory \cup {None}
           /\ d \notin shared => /\ work # None
                                 /\ w = [work EXCEPT ![file] = q]
  <1> USE DEF JobTypes, Directory, Quality
  <1>1. Job!Empty \in Directory
    BY DEF Job!Empty
  <1>2. CASE d \notin shared
    <2>1. w \in {[x EXCEPT ![file] = y] : x \in {work} \ {None}, y \in {q}}
      BY <1>2 DEF Job!Written
    <2>2. work # None /\ w = [work EXCEPT ![file] = q]
      BY <2>1
    <2>3. QED
      BY <2>2
  <1>3. CASE d \in shared
    <2>1. \/ w = work
          \/ \E x \in {work, Job!Empty} \ {None}, y \in {q, "part", None} :
                w = [x EXCEPT ![file] = y]
      BY <1>3 DEF Job!Written
    <2>2. QED
      BY <1>1, <1>3, <2>1
  <1>4. QED
    BY <1>2, <1>3

(* A delivery that ends removes the directory.                             *)
LEMMA EndStep ==
    ASSUME JobInv, NEW d \in Deliveries, NEW last \in {"completed", "failed"},
           Job!Active(d) \/ shared' # {} \/ ~\E e \in Deliveries : Job!Active(e),
           stage' = [stage EXCEPT ![d] = last],
           work' = None,
           shared \subseteq shared', shared' \subseteq Deliveries, UNCHANGED blind,
           output' = output \/ (output' # None /\ (shared = {} /\ ~blind => output' = "whole")),
           last = "completed" => output' # None
    PROVE  JobInv'
  <1>1. JobTypes'
    BY DEF JobInv, JobTypes, DeliveryStages
  <1>2. \A e \in Deliveries : stage'[e] = IF e = d THEN last ELSE stage[e]
    BY DEF JobInv, JobTypes
  <1>3. ASSUME shared' = {} PROVE \A e \in Deliveries : ~Job!Active(e)'
    <2>1. shared = {}
      BY <1>3
    <2>2. QED
      BY <1>2, <1>3, <2>1 DEF JobInv, Alone, Job!Active, Job!Rendering
  <1>4. Alone'
    BY <1>3 DEF Alone
  <1>5. Progress'
    BY <1>3 DEF Progress, Job!Active, Job!Rendering
  <1>6. StoredIsWhole'
    BY DEF JobInv, StoredIsWhole
  <1>7. UploadedIsThere'
    BY <1>2, NoneAssumption DEF JobInv, UploadedIsThere
  <1>8. QED
    BY <1>1, <1>4, <1>5, <1>6, <1>7 DEF JobInv

(* A delivery that goes on.                                                *)
LEMMA GoOnStep ==
    ASSUME JobInv, NEW d \in Deliveries, Job!Active(d),
           NEW next \in {"compose", "audio", "mux", "upload", "stat"},
           stage' = [stage EXCEPT ![d] = next],
           work' \in Directory \cup {None},
           UNCHANGED shared, blind' \in BOOLEAN, blind => blind',
           output' = output \/ (output' # None /\ (shared = {} /\ ~blind' => output' = "whole")),
           next = "stat" => output' # None,
           shared = {} /\ ~blind' =>
              /\ work' # None
              /\ next = "compose" => work'.source = "whole"
              /\ next \in {"audio", "mux"} => work'.silent = "whole"
              /\ next \in {"upload", "stat"} => work'.output = "whole"
    PROVE  JobInv'
  <1>1. JobTypes'
    BY DEF JobInv, JobTypes, DeliveryStages
  <1>2. \A e \in Deliveries : stage'[e] = IF e = d THEN next ELSE stage[e]
    BY DEF JobInv, JobTypes
  <1>3. \A e \in Deliveries : Job!Active(e)' => Job!Active(e)
    BY <1>2 DEF Job!Active, Job!Rendering
  <1>4. Alone'
    BY <1>3 DEF JobInv, Alone
  <1>5. Progress'
    <2> SUFFICES ASSUME shared = {}, ~blind', NEW e \in Deliveries
                 PROVE  /\ stage'[e] = "compose" => work' # None /\ work'.source = "whole"
                        /\ stage'[e] \in {"audio", "mux"} => work' # None /\ work'.silent = "whole"
                        /\ stage'[e] \in {"upload", "stat"} => work' # None /\ work'.output = "whole"
      BY DEF Progress
    <2>1. CASE e = d
      BY <1>2, <2>1
    <2>2. CASE e # d
      <3>1. ~Job!Active(e)
        BY <2>2 DEF JobInv, Alone
      <3>2. QED
        BY <1>2, <2>2, <3>1 DEF Job!Active, Job!Rendering
    <2>3. QED
      BY <2>1, <2>2
  <1>6. StoredIsWhole'
    BY DEF JobInv, StoredIsWhole
  <1>7. UploadedIsThere'
    BY <1>2 DEF JobInv, UploadedIsThere
  <1>8. QED
    BY <1>1, <1>4, <1>5, <1>6, <1>7 DEF JobInv

LEMMA JobRaiseStep ==
    ASSUME JobInv, NEW d \in Deliveries, Job!Active(d), Job!Raise(d)
    PROVE  JobInv'
  <1>1. /\ stage' = [stage EXCEPT ![d] = "failed"] /\ work' = None
        /\ UNCHANGED <<output, shared, blind>>
    BY DEF Job!Raise, Job!Goto
  <1>2. QED
    BY <1>1, EndStep DEF JobInv, JobTypes

LEMMA BeginStep ==
    ASSUME JobInv, NEW d \in Deliveries, Job!Begin(d)
    PROVE  JobInv'
  <1> DEFINE others == {e \in Deliveries : Job!Active(e)}
  <1>1. /\ stage[d] = "waiting"
        /\ shared' = IF others = {} THEN shared ELSE shared \cup others \cup {d}
        /\ UNCHANGED <<output, blind>>
    BY DEF Job!Begin
  <1>2. shared \subseteq shared' /\ shared' \subseteq Deliveries
    BY <1>1 DEF JobInv, JobTypes
  <1>3. shared' = {} => others = {} /\ shared = {}
    BY <1>1
  <1>4. CASE stage' = [stage EXCEPT ![d] = "failed"] /\ work' = None
    <2>1. shared' # {} \/ ~\E e \in Deliveries : Job!Active(e)
      BY <1>3
    <2>2. QED
      BY <1>1, <1>2, <1>4, <2>1, EndStep
  <1>5. CASE stage' = [stage EXCEPT ![d] = "download"] /\ work' = Job!Empty
    <2>1. \A e \in Deliveries : stage'[e] = IF e = d THEN "download" ELSE stage[e]
      BY <1>5 DEF JobInv, JobTypes
    <2>2. JobTypes'
      BY <1>1, <1>2, <1>5
         DEF JobInv, JobTypes, DeliveryStages, Job!Empty, Directory, Quality
    <2>3. ASSUME shared' = {}, NEW e \in Deliveries, e # d PROVE ~Job!Active(e)'
      BY <1>3, <2>1, <2>3 DEF Job!Active, Job!Rendering
    <2>4. Alone'
      BY <2>3 DEF Alone
    <2>5. Progress'
      BY <2>1, <2>3 DEF Progress, Job!Active, Job!Rendering
    <2>6. StoredIsWhole' /\ UploadedIsThere'
      BY <1>1, <1>3, <2>1 DEF JobInv, StoredIsWhole, UploadedIsThere
    <2>7. QED
      BY <2>2, <2>4, <2>5, <2>6 DEF JobInv
  <1>6. QED
    BY <1>4, <1>5 DEF Job!Begin, Job!Goto

LEMMA DownloadStep ==
    ASSUME JobInv, NEW d \in Deliveries, NEW media \in {None, "whole"}, Job!Download(d, media)
    PROVE  JobInv'
  <1>1. Job!Active(d)
    BY DEF Job!Download, Job!Active, Job!Rendering
  <1>2. CASE Job!Raise(d)
    BY <1>1, <1>2, JobRaiseStep
  <1>3. CASE ~Job!Raise(d)
    <2>1. /\ media = "whole"
          /\ work' \in Job!Written(d, "source", media)
          /\ stage' = [stage EXCEPT ![d] = "compose"]
          /\ UNCHANGED <<output, shared, blind>>
      BY <1>3 DEF Job!Download, Job!Goto
    <2>2. /\ work' \in Directory \cup {None}
          /\ shared = {} => work' # None /\ work'.source = "whole"
      <3>1. "whole" \in Quality
        BY DEF Quality
      <3>2. /\ work' \in Directory \cup {None}
            /\ d \notin shared => work # None /\ work' = [work EXCEPT !["source"] = "whole"]
        BY <2>1, <3>1, WrittenFacts DEF JobInv
      <3>3. work # None => work \in Directory
        BY DEF JobInv, JobTypes
      <3>4. QED
        BY <3>1, <3>2, <3>3, NoneAssumption DEF Directory
    <2>3. QED
      BY <1>1, <2>1, <2>2, GoOnStep DEF JobInv, JobTypes
  <1>4. QED
    BY <1>2, <1>3

LEMMA ComposeStep ==
    ASSUME JobInv, NEW d \in Deliveries, Job!Compose(d)
    PROVE  JobInv'
  <1>1. stage[d] = "compose" /\ Job!Active(d)
    BY DEF Job!Compose, Job!Active, Job!Rendering
  <1>2. CASE Job!Raise(d)
    BY <1>1, <1>2, JobRaiseStep
  <1>3. CASE ~Job!Raise(d)
    <2>1. PICK early \in BOOLEAN :
             /\ work' \in Job!Written(d, "silent",
                    IF ~early /\ Job!Present("source") /\ work.source = "whole"
                    THEN "whole" ELSE "part")
             /\ blind' = (blind \/ (early /\ d \notin shared))
             /\ stage' = [stage EXCEPT ![d] = "audio"]
             /\ UNCHANGED <<output, shared>>
      BY <1>3 DEF Job!Compose, Job!Goto
    <2> DEFINE q == IF ~early /\ Job!Present("source") /\ work.source = "whole"
                    THEN "whole" ELSE "part"
    <2>2. q \in Quality
      BY DEF Quality
    <2>3. work' \in Job!Written(d, "silent", q)
      BY <2>1
    <2>4. shared = {} /\ ~blind' => q = "whole"
      <3>1. ASSUME shared = {}, ~blind' PROVE q = "whole"
        <4>1. ~early /\ ~blind
          BY <2>1, <3>1
        <4>2. work # None /\ work.source = "whole"
          BY <1>1, <3>1, <4>1 DEF JobInv, Progress
        <4>3. work \in Directory
          BY <4>2 DEF JobInv, JobTypes
        <4>4. Job!Present("source")
          BY <4>2, NoneAssumption DEF Job!Present
        <4>5. QED
          BY <4>1, <4>2, <4>4
      <3>2. QED
        BY <3>1
    <2> HIDE DEF q
    <2>5. /\ work' \in Directory \cup {None}
          /\ d \notin shared => work # None /\ work' = [work EXCEPT !["silent"] = q]
      BY <2>2, <2>3, WrittenFacts DEF JobInv
    <2>6. shared = {} /\ ~blind' => work' # None /\ work'.silent = "whole"
      <3>1. ASSUME shared = {}, ~blind' PROVE work' # None /\ work'.silent = "whole"
        <4>1. work # None /\ work \in Directory
          BY <2>5, <3>1 DEF JobInv, JobTypes
        <4>2. ~blind
          BY <2>1, <3>1
        <4>3. work'.silent = "whole"
          BY <2>4, <2>5, <3>1, <4>1 DEF Directory
        <4>4. QED
          BY <2>2, <2>5, <3>1, <4>1, <4>3, NoneAssumption DEF Directory
      <3>2. QED
        BY <3>1
    <2>7. blind' \in BOOLEAN /\ (blind => blind')
      BY <2>1 DEF JobInv, JobTypes
    <2>8. QED
      BY <1>1, <2>1, <2>5, <2>6, <2>7, GoOnStep
  <1>4. QED
    BY <1>2, <1>3

LEMMA AudioStep ==
    ASSUME JobInv, NEW d \in Deliveries, Job!Audio(d)
    PROVE  JobInv'
  <1>1. stage[d] = "audio" /\ Job!Active(d)
    BY DEF Job!Audio, Job!Active, Job!Rendering
  <1>2. shared = {} /\ ~blind => work # None /\ work.silent = "whole"
    BY <1>1 DEF JobInv, Progress
  <1>3. CASE Job!Raise(d)
    BY <1>1, <1>3, JobRaiseStep
  <1>4. CASE /\ stage' = [stage EXCEPT ![d] = "mux"]
             /\ UNCHANGED <<job, work, output, shared, blind, killed>>
    BY <1>1, <1>2, <1>4, GoOnStep DEF JobInv, JobTypes
  <1>5. CASE /\ Job!Present("silent")
             /\ work' = [work EXCEPT !.output = work.silent, !.silent = None]
             /\ stage' = [stage EXCEPT ![d] = "upload"]
             /\ UNCHANGED <<job, output, shared, blind, killed>>
    <2>1. work \in Directory
      BY <1>5 DEF Job!Present, JobInv, JobTypes
    <2>2. work' \in Directory /\ work'.output = work.silent
      BY <1>5, <2>1 DEF Directory, Quality
    <2>3. work' # None
      BY <2>2, NoneAssumption DEF Directory
    <2>4. QED
      BY <1>1, <1>2, <1>5, <2>2, <2>3, GoOnStep DEF JobInv, JobTypes
  <1>6. QED
    BY <1>3, <1>4, <1>5 DEF Job!Audio, Job!Goto

LEMMA MuxStep ==
    ASSUME JobInv, NEW d \in Deliveries, Job!Mux(d)
    PROVE  JobInv'
  <1>1. stage[d] = "mux" /\ Job!Active(d)
    BY DEF Job!Mux, Job!Active, Job!Rendering
  <1>2. CASE Job!Raise(d)
    BY <1>1, <1>2, JobRaiseStep
  <1>3. CASE ~Job!Raise(d)
    <2>1. /\ Job!Present("silent")
          /\ work' \in Job!Written(d, "output", work.silent)
          /\ stage' = [stage EXCEPT ![d] = "upload"]
          /\ UNCHANGED <<output, shared, blind>>
      BY <1>3 DEF Job!Mux, Job!Goto
    <2>2. work \in Directory /\ work.silent \in Quality
      BY <2>1 DEF Job!Present, JobInv, JobTypes, Directory
    <2>3. /\ work' \in Directory \cup {None}
          /\ d \notin shared => work' = [work EXCEPT !["output"] = work.silent]
      BY <2>1, <2>2, WrittenFacts DEF JobInv
    <2>4. shared = {} /\ ~blind => work' # None /\ work'.output = "whole"
      <3>1. shared = {} /\ ~blind => work.silent = "whole"
        BY <1>1 DEF JobInv, Progress
      <3>2. shared = {} => work' \in Directory /\ work'.output = work.silent
        BY <2>2, <2>3 DEF Directory
      <3>3. QED
        BY <3>1, <3>2, NoneAssumption DEF Directory
    <2>5. QED
      BY <1>1, <2>1, <2>3, <2>4, GoOnStep DEF JobInv, JobTypes
  <1>4. QED
    BY <1>2, <1>3

LEMMA JobUploadStep ==
    ASSUME JobInv, NEW d \in Deliveries, Job!Upload(d)
    PROVE  JobInv'
  <1>1. stage[d] = "upload" /\ Job!Active(d)
    BY DEF Job!Upload, Job!Active, Job!Rendering
  <1>2. shared = {} /\ ~blind => work # None /\ work.output = "whole"
    BY <1>1 DEF JobInv, Progress
  <1>3. CASE /\ Job!Present("output")
             /\ output' \in {work.output} \cup IF d \in shared THEN {"part"} ELSE {}
             /\ stage' = [stage EXCEPT ![d] = "stat"]
             /\ UNCHANGED <<job, work, shared, blind, killed>>
    <2>1. output' # None
      BY <1>3, NoneAssumption DEF Job!Present
    <2>2. shared = {} /\ ~blind => output' = "whole"
      BY <1>2, <1>3
    <2>3. QED
      BY <1>1, <1>2, <1>3, <2>1, <2>2, GoOnStep DEF JobInv, JobTypes
  <1>4. CASE /\ output' \in {output} \cup IF Job!Present("output") THEN {work.output} ELSE {}
             /\ stage' = [stage EXCEPT ![d] = "failed"]
             /\ work' = None
             /\ UNCHANGED <<job, shared, blind, killed>>
    <2>1. output' = output \/ (output' # None /\ (shared = {} /\ ~blind => output' = "whole"))
      BY <1>2, <1>4 DEF Job!Present
    <2>2. QED
      BY <1>1, <1>4, <2>1, EndStep DEF JobInv, JobTypes
  <1>5. QED
    BY <1>3, <1>4 DEF Job!Upload, Job!Goto

LEMMA JobStatStep ==
    ASSUME JobInv, NEW d \in Deliveries, Job!Stat(d)
    PROVE  JobInv'
  <1> DEFINE last == IF Job!Present("output") THEN "completed" ELSE "failed"
  <1>1. /\ stage[d] = "stat" /\ stage' = [stage EXCEPT ![d] = last]
        /\ work' = None
        /\ UNCHANGED <<output, shared, blind>>
    BY DEF Job!Stat, Job!Goto
  <1>2. Job!Active(d) /\ output # None
    BY <1>1 DEF JobInv, UploadedIsThere, Job!Active, Job!Rendering
  <1>3. last \in {"completed", "failed"}
    OBVIOUS
  <1> HIDE DEF last
  <1>4. QED
    BY <1>1, <1>2, <1>3, EndStep DEF JobInv, JobTypes

LEMMA DeliveriesDieStep == ASSUME JobInv, Job!Die PROVE JobInv'
  <1>1. /\ stage' = [d \in Deliveries |-> IF Job!Active(d) THEN "dead" ELSE stage[d]]
        /\ UNCHANGED <<work, output, shared, blind>>
    BY DEF Job!Die
  <1>2. \A d \in Deliveries : stage'[d] \notin Job!Rendering
    BY <1>1 DEF Job!Active, Job!Rendering
  <1>3. JobTypes'
    BY <1>1 DEF JobInv, JobTypes, DeliveryStages
  <1>4. Alone' /\ Progress'
    BY <1>2 DEF Alone, Progress, Job!Active, Job!Rendering
  <1>5. StoredIsWhole' /\ UploadedIsThere'
    BY <1>1 DEF JobInv, StoredIsWhole, UploadedIsThere
  <1>6. QED
    BY <1>3, <1>4, <1>5 DEF JobInv

LEMMA JobStep ==
    ASSUME JobInv, NEW d \in Deliveries, NEW media \in {None, "whole"}, Job!Step(d, media)
    PROVE  JobInv'
  BY BeginStep, DownloadStep, ComposeStep, AudioStep, MuxStep, JobUploadStep, JobStatStep
     DEF Job!Step

-----------------------------------------------------------------------------
(* The disk.                                                               *)

LEMMA DiskInit == Init => NothingLeftBehind
  BY DEF Init, NothingLeftBehind, Optimization!Init, Job!Init

LEMMA AttemptDisk ==
    ASSUME OptimizationTypes, NothingLeftBehind, NEW a \in Attempts,
           Optimization!Step(a), UNCHANGED jobVars
    PROVE  NothingLeftBehind'
  <1> DEFINE active == {b \in Attempts : Optimization!Active(b)}
  <1>1. work # None => killed \/ \E d \in Deliveries : Job!Active(d)
    BY DEF NothingLeftBehind
  <1>2. \A d \in Deliveries : Job!Active(d)' <=> Job!Active(d)
    BY DEF jobVars, Job!Active
  <1>3. work' # None => killed' \/ \E d \in Deliveries : Job!Active(d)'
    BY <1>1, <1>2 DEF jobVars
  <1>4. ASSUME \/ Optimization!RemoveDir(a)
               \/ dirs' = dirs \cup {a} /\ Optimization!Active(a)'
               \/ dirs' = dirs /\ Optimization!Active(a) /\ Optimization!Active(a)',
               \A b \in Attempts \ {a} : pc'[b] = pc[b],
               died' = died
        PROVE  NothingLeftBehind'
    <2>1. \A b \in Attempts \ {a} : Optimization!Active(b)' <=> Optimization!Active(b)
      BY <1>4 DEF Optimization!Active
    <2>2. dirs' \subseteq died' \cup {b \in Attempts : Optimization!Active(b)'}
      BY <1>4, <2>1 DEF NothingLeftBehind, Optimization!RemoveDir
    <2>3. QED
      BY <1>3, <2>2 DEF NothingLeftBehind
  <1>5. ASSUME Optimization!Abandon(a) PROVE NothingLeftBehind'
    BY <1>4, <1>5 DEF Optimization!Abandon, Optimization!Goto, OptimizationTypes
  <1>6. ASSUME NEW next \in {"upload", "probe"}, Optimization!Advance(a, next),
               Optimization!Active(a), UNCHANGED <<dirs, died>>
        PROVE  NothingLeftBehind'
    <2>1. next \in AttemptStages
      BY DEF AttemptStages
    <2>2. /\ \A b \in Attempts \ {a} : pc'[b] = pc[b]
          /\ pc'[a] \in {pc[a], next}
      BY <1>6, <2>1, AdvanceTypes
    <2>3. Optimization!Active(a)'
      BY <1>6, <2>2 DEF Optimization!Active
    <2>4. QED
      BY <1>4, <1>6, <2>2, <2>3
  <1>7. CASE Optimization!Start(a)
    <2>1. CASE Optimization!Raise(a)
      BY <1>5, <2>1 DEF Optimization!Raise
    <2>2. CASE ~Optimization!Raise(a)
      <3>1. /\ dirs' = dirs \cup {a} /\ died' = died
            /\ pc' = [pc EXCEPT ![a] = "write"]
        BY <1>7, <2>2 DEF Optimization!Start, Optimization!Goto
      <3>2. Optimization!Active(a)' /\ \A b \in Attempts \ {a} : pc'[b] = pc[b]
        BY <3>1 DEF OptimizationTypes, Optimization!Active
      <3>3. QED
        BY <1>4, <3>1, <3>2
    <2>3. QED
      BY <2>1, <2>2
  <1>8. CASE Optimization!Write(a)
    <2>1. Optimization!Active(a)
      BY <1>8 DEF Optimization!Write, Optimization!Active
    <2>2. QED
      BY <1>5, <1>6, <1>8, <2>1 DEF Optimization!Write, Optimization!Raise
  <1>9. CASE Optimization!Upload(a)
    <2>1. Optimization!Active(a)
      BY <1>9 DEF Optimization!Upload, Optimization!Active
    <2>2. QED
      BY <1>5, <1>6, <1>9, <2>1 DEF Optimization!Upload
  <1>10. CASE Optimization!Probe(a)
    <2>1. CASE Optimization!Raise(a)
      BY <1>5, <2>1 DEF Optimization!Raise
    <2>2. CASE ~Optimization!Raise(a)
      <3>1. /\ Optimization!RemoveDir(a) /\ died' = died
            /\ pc' = [pc EXCEPT ![a] = "reported"]
        BY <1>10, <2>2 DEF Optimization!Probe, Optimization!Goto
      <3>2. QED
        BY <1>4, <3>1 DEF OptimizationTypes
    <2>3. QED
      BY <2>1, <2>2
  <1>11. QED
    BY <1>7, <1>8, <1>9, <1>10 DEF Optimization!Step

LEMMA DeliveryDisk ==
    ASSUME JobTypes, NothingLeftBehind, NEW d \in Deliveries, NEW media,
           Job!Step(d, media), UNCHANGED optimizationVars
    PROVE  NothingLeftBehind'
  <1>1. dirs' \subseteq died' \cup {a \in Attempts : Optimization!Active(a)'}
    BY DEF NothingLeftBehind, optimizationVars, Optimization!Active
  <1>2. work' = None \/ Job!Active(d)'
    <2>1. CASE Job!Raise(d)
      BY <2>1 DEF Job!Raise
    <2>2. CASE ~Job!Raise(d)
      <3>1. CASE Job!Upload(d) \/ Job!Stat(d) \/ Job!Begin(d)
        BY <3>1 DEF Job!Upload, Job!Stat, Job!Begin, Job!Goto, Job!Active, Job!Rendering, JobTypes
      <3>2. CASE Job!Download(d, media) \/ Job!Compose(d) \/ Job!Audio(d) \/ Job!Mux(d)
        <4>1. PICK next \in {"compose", "audio", "mux", "upload"} :
                 stage' = [stage EXCEPT ![d] = next]
          BY <2>2, <3>2 DEF Job!Download, Job!Compose, Job!Audio, Job!Mux, Job!Goto
        <4>2. QED
          BY <4>1 DEF Job!Active, Job!Rendering, JobTypes
      <3>3. QED
        BY <3>1, <3>2 DEF Job!Step
    <2>3. QED
      BY <2>1, <2>2
  <1>3. QED
    BY <1>1, <1>2 DEF NothingLeftBehind

LEMMA CrashDisk == ASSUME NothingLeftBehind, Crash PROVE NothingLeftBehind'
  <1>1. /\ dirs' = dirs
        /\ died' = died \cup {a \in Attempts : Optimization!Active(a)}
    BY DEF Crash, Optimization!Die
  <1>2. work' = work /\ killed' = (killed \/ \E d \in Deliveries : Job!Active(d))
    BY DEF Crash, Job!Die
  <1>3. QED
    BY <1>1, <1>2 DEF NothingLeftBehind

-----------------------------------------------------------------------------
(* Both together: the render job downloads what the optimization stored.   *)

IInv == OptimizationInv /\ JobInv /\ NothingLeftBehind

LEMMA Start == Init => IInv
  BY OptimizationInit, JobInit, DiskInit DEF Init, IInv

LEMMA OptimizationUnchanged ==
    OptimizationInv /\ UNCHANGED optimizationVars => OptimizationInv'
  BY DEF OptimizationInv, OptimizationTypes, FilesAreWhole, NamedIsStored, ObjectsAreWhole,
         optimizationVars, Plan, Names, Mandatory, Optimization!Plan, Optimization!Names,
         Optimization!Mandatory

LEMMA JobUnchanged ==
    JobInv /\ UNCHANGED <<stage, work, output, shared, blind>> => JobInv'
  BY DEF JobInv, JobTypes, Alone, Progress, StoredIsWhole, UploadedIsThere, Job!Active

LEMMA DiskUnchanged ==
    NothingLeftBehind /\ UNCHANGED <<optimizationVars, stage, work, killed>>
    => NothingLeftBehind'
  BY DEF NothingLeftBehind, optimizationVars, Optimization!Active, Job!Active

LEMMA Step == IInv /\ [Next]_vars => IInv'
  <1> SUFFICES ASSUME IInv, [Next]_vars PROVE IInv'
    OBVIOUS
  <1>1. ASSUME NEW a \in Attempts, Submit(a) PROVE IInv'
    <2>1. UNCHANGED optimizationVars /\ UNCHANGED <<stage, work, output, shared, blind, killed>>
      BY <1>1 DEF Submit
    <2>2. QED
      BY <2>1, OptimizationUnchanged, JobUnchanged, DiskUnchanged DEF IInv
  <1>2. ASSUME NEW a \in Attempts, Optimization!Step(a), UNCHANGED jobVars PROVE IInv'
    <2>1. OptimizationInv'
      BY <1>2, StartStep, WriteStep, UploadStep, ProbeStep DEF IInv, Optimization!Step
    <2>2. JobInv'
      BY <1>2, JobUnchanged DEF IInv, jobVars
    <2>3. NothingLeftBehind'
      BY <1>2, AttemptDisk DEF IInv, OptimizationInv
    <2>4. QED
      BY <2>1, <2>2, <2>3 DEF IInv
  <1>3. ASSUME NEW d \in Deliveries, Job!Step(d, objects["canonical"]),
               UNCHANGED optimizationVars
        PROVE  IInv'
    <2>1. objects["canonical"] \in {None, "whole"}
      BY DEF IInv, OptimizationInv, ObjectsAreWhole, Names, Mandatory,
             Optimization!Names, Optimization!Mandatory
    <2>2. JobInv'
      BY <1>3, <2>1, JobStep DEF IInv
    <2>3. NothingLeftBehind'
      BY <1>3, DeliveryDisk DEF IInv, JobInv
    <2>4. QED
      BY <1>3, <2>2, <2>3, OptimizationUnchanged DEF IInv
  <1>4. ASSUME Crash PROVE IInv'
    BY <1>4, AttemptsDieStep, DeliveriesDieStep, CrashDisk DEF IInv, Crash
  <1>5. CASE UNCHANGED vars
    <2>1. UNCHANGED optimizationVars /\ UNCHANGED <<stage, work, output, shared, blind, killed>>
      BY <1>5 DEF vars, jobVars
    <2>2. QED
      BY <2>1, OptimizationUnchanged, JobUnchanged, DiskUnchanged DEF IInv
  <1>6. QED
    BY <1>1, <1>2, <1>3, <1>4, <1>5 DEF Next

LEMMA Invariance == Spec => []IInv
  BY Start, Step, PTL DEF Spec

(* Whatever attempts fail, crash or run at once: what optimize() reports   *)
(* is in the storage, and the mandatory objects there are whole.           *)
THEOREM ReportsBacked == Spec => []ReportsAreBacked
  <1>1. IInv => ReportsAreBacked
    BY DEF IInv, OptimizationInv, OptimizationTypes, NamedIsStored, ObjectsAreWhole,
           ReportsAreBacked, Names, Mandatory
  <1>2. QED
    BY <1>1, Invariance, PTL

(* Whatever happened to earlier deliveries of the job and to the           *)
(* optimization of its medium: render() stores a whole video or nothing if *)
(* it runs alone and no decoder ended early, and never reports an output   *)
(* that is not there.                                                      *)
THEOREM OutputWhole == Spec => []OutputIsWhole
  <1>1. IInv => OutputIsWhole
    BY DEF IInv, JobInv, StoredIsWhole, UploadedIsThere, OutputIsWhole
  <1>2. QED
    BY <1>1, Invariance, PTL

(* Directories outlive what they were made for only in a crash.            *)
THEOREM DiskIsClean == Spec => []NothingLeftBehind
  BY Invariance, PTL DEF IInv
=============================================================================
