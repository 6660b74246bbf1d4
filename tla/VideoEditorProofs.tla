------------------------- MODULE VideoEditorProofs --------------------------
(***************************************************************************)
(* Proofs about the two components that serve the video editor.            *)
(*                                                                         *)
(* Retrieval, for any calls, media, shots, requests, orders and numbers of *)
(* ingestions: fusion lists the best shots first, and an answer is of the  *)
(* revisions it was asked for, wherever it comes from.                     *)
(*                                                                         *)
(* VideoEditing, for any documents, sources, times and speeds and any      *)
(* number of plans: what the planner's plans leave can be rendered, shows  *)
(* nothing beyond the range of a clip, and is drawn in the order of the    *)
(* tracks; sound is heard once; and what is drawn was validated.           *)
(***************************************************************************)
EXTENDS Retrieval, VideoEditing, FiniteSetTheorems, SequenceTheorems, TLAPS

-----------------------------------------------------------------------------

Ordered(S, R) ==
    /\ \A s \in S : <<s, s>> \notin R
    /\ \A s, t \in S : s = t \/ <<s, t>> \in R \/ <<t, s>> \in R
    /\ \A s, t, u \in S : <<s, t>> \in R /\ <<t, u>> \in R => <<s, u>> \in R

(* In an order, places are those from 1 to the number of members, each of  *)
(* one member, and what is before has the lower place.                     *)
LEMMA PlaceFacts ==
    ASSUME NEW S, IsFiniteSet(S), NEW R, Ordered(S, R)
    PROVE  /\ Cardinality(S) \in Nat
           /\ \A s \in S : Place(S, R, s) \in 1..Cardinality(S)
           /\ \A s, t \in S : <<s, t>> \in R <=> Place(S, R, s) < Place(S, R, t)
           /\ \A s, t \in S : Place(S, R, s) = Place(S, R, t) => s = t
           /\ \A k \in 1..Cardinality(S) : \E s \in S : Place(S, R, s) = k
  <1> DEFINE before(s) == {t \in S : <<t, s>> \in R}
             n == Cardinality(S)
             place == [s \in S |-> Place(S, R, s)]
  <1>1. n \in Nat
    BY FS_CardinalityType
  <1>2. ASSUME NEW s \in S
        PROVE  /\ IsFiniteSet(before(s)) /\ Cardinality(before(s)) \in Nat
               /\ Cardinality(before(s)) < n
    <2>1. before(s) \in SUBSET S /\ before(s) # S
      BY DEF Ordered
    <2>2. /\ IsFiniteSet(before(s)) /\ Cardinality(before(s)) <= n
          /\ Cardinality(before(s)) # n
      BY <2>1, FS_Subset
    <2>3. Cardinality(before(s)) \in Nat
      BY <2>2, FS_CardinalityType
    <2>4. QED
      BY <1>1, <2>2, <2>3
  <1>3. \A s \in S : Place(S, R, s) = Cardinality(before(s)) + 1
    BY DEF Place
  <1>4. \A s \in S : Place(S, R, s) \in 1..n
    <2> HIDE DEF before, n
    <2> QED
      BY <1>1, <1>2, <1>3
  <1>5. ASSUME NEW s \in S, NEW t \in S, <<s, t>> \in R
        PROVE  Place(S, R, s) < Place(S, R, t)
    <2>1. before(s) \in SUBSET before(t) /\ s \in before(t) /\ s \notin before(s)
      BY <1>5 DEF Ordered
    <2>2. before(s) # before(t)
      BY <2>1
    <2>3. /\ Cardinality(before(s)) <= Cardinality(before(t))
          /\ Cardinality(before(s)) # Cardinality(before(t))
      <3>1. IsFiniteSet(before(t))
        BY <1>2
      <3> HIDE DEF before
      <3> QED
        BY <2>1, <2>2, <3>1, FS_Subset
    <2> HIDE DEF before
    <2>4. QED
      BY <1>2, <1>3, <2>3
  <1>6. \A s, t \in S : Place(S, R, s) = Place(S, R, t) => s = t
    <2> SUFFICES ASSUME NEW s \in S, NEW t \in S, Place(S, R, s) = Place(S, R, t), s # t
                 PROVE  FALSE
      OBVIOUS
    <2>1. <<s, t>> \in R \/ <<t, s>> \in R
      BY DEF Ordered
    <2>2. Place(S, R, s) < Place(S, R, t) \/ Place(S, R, t) < Place(S, R, s)
      BY <1>5, <2>1
    <2> HIDE DEF n
    <2>3. QED
      BY <1>1, <1>4, <2>2
  <1>7. \A s, t \in S : <<s, t>> \in R <=> Place(S, R, s) < Place(S, R, t)
    <2> SUFFICES ASSUME NEW s \in S, NEW t \in S, Place(S, R, s) < Place(S, R, t),
                        <<s, t>> \notin R
                 PROVE  FALSE
      BY <1>5
    <2>1. s = t \/ <<t, s>> \in R
      BY DEF Ordered
    <2>2. s = t \/ Place(S, R, t) < Place(S, R, s)
      BY <1>5, <2>1
    <2> HIDE DEF n
    <2>3. QED
      BY <1>1, <1>4, <2>2
  <1>8. \A k \in 1..n : \E s \in S : Place(S, R, s) = k
    <2>1. place \in Injection(S, 1..n)
      BY <1>4, <1>6 DEF Injection, IsInjective
    <2>2. IsFiniteSet(1..n) /\ Cardinality(1..n) = n
      <3> HIDE DEF n
      <3> QED
        BY <1>1, FS_Interval
    <2>3. place \in Surjection(S, 1..n)
      <3> HIDE DEF place
      <3> QED
        BY <2>1, <2>2, FS_Injection
    <2>4. QED
      BY <2>3 DEF Surjection
  <1>9. QED
    BY <1>1, <1>4, <1>6, <1>7, <1>8

(* L lists the members of S in order, the first ones first.               *)
Lists(L, S, R, top) ==
    \E n \in 0..Cardinality(S) :
        /\ L \in [1..n -> S] /\ (n = Cardinality(S) \/ n = top)
        /\ \A k \in 1..n : Place(S, R, L[k]) = k
        /\ \A s \in S : Place(S, R, s) <= n => L[Place(S, R, s)] = s

LEMMA SortedFacts ==
    ASSUME NEW S, IsFiniteSet(S), NEW R, Ordered(S, R), NEW top \in Nat
    PROVE  Lists(Sorted(S, R, top), S, R, top)
  <1> DEFINE L == Sorted(S, R, top)
             n == IF top < Cardinality(S) THEN top ELSE Cardinality(S)
  <1>1. n \in 0..Cardinality(S) /\ (n = Cardinality(S) \/ n = top)
    BY PlaceFacts
  <1>2. \A k \in 1..n : k \in 1..Cardinality(S)
    BY <1>1, PlaceFacts
  <1>3. L = [k \in 1..n |-> CHOOSE s \in S : Place(S, R, s) = k]
    BY DEF Sorted
  <1> HIDE DEF n, L
  <1>4. \A k \in 1..n : L[k] \in S /\ Place(S, R, L[k]) = k
    <2> SUFFICES ASSUME NEW k \in 1..n PROVE L[k] \in S /\ Place(S, R, L[k]) = k
      OBVIOUS
    <2>1. \E s \in S : Place(S, R, s) = k
      BY <1>2, PlaceFacts
    <2>2. L[k] = CHOOSE s \in S : Place(S, R, s) = k
      BY <1>3
    <2>3. QED
      BY <2>1, <2>2
  <1>5. ASSUME NEW s \in S, Place(S, R, s) <= n PROVE L[Place(S, R, s)] = s
    <2>1. Place(S, R, s) \in 1..n
      BY <1>1, <1>5, PlaceFacts
    <2>2. QED
      BY <1>4, <2>1, PlaceFacts
  <1>6. QED
    BY <1>1, <1>3, <1>4, <1>5 DEF L, Lists

-----------------------------------------------------------------------------
(* Types.                                                                  *)

Stages == {"idle", "read", "flight", "discard", "search", "search_ocr", "graph", "write", "done"}

(* What a search may return: no shot twice.                                *)
Listings ==
    {found \in UNION {[1..n -> [shot : Shots, generation : Nat]] : n \in 0..Cardinality(Shots)} :
        \A j, k \in DOMAIN found : found[j].shot = found[k].shot => j = k}

IsRequest(r) == r.scope \subseteq Media /\ r.top \in Nat

Types ==
    /\ distance \in Orders
    /\ index \in [Modalities -> [Media -> Nat]]
    /\ begun \in [Media -> Nat] /\ step \in [Media -> 0..5] /\ revision \in [Media -> Nat]
    /\ pc \in [Calls -> Stages]
    /\ DOMAIN request = Calls /\ \A c \in Calls : IsRequest(request[c])
    /\ hits \in [Calls -> [Modalities -> Listings]]
    /\ DOMAIN warned = Calls
    /\ DOMAIN answer = Calls

LEMMA ModalitiesAre == Modalities = {"transcript", "ocr"}
  BY DEF Modalities, Searchable, Range

LEMMA ShotFacts ==
    /\ IsFiniteSet(Shots) /\ Cardinality(Shots) \in Nat
    /\ \A s \in Shots : s = <<s[1], s[2]>> /\ s[1] \in Media /\ s[1] \in Nat /\ s[2] \in Nat
  <1>1. IsFiniteSet(Shots) /\ Media \subseteq Nat /\ \A s \in Shots : s \in Media \X Nat
    BY RetrievalAssumption
  <1>2. Cardinality(Shots) \in Nat
    BY <1>1, FS_CardinalityType
  <1>3. QED
    BY <1>1, <1>2

LEMMA ListingFacts ==
    ASSUME NEW found \in Listings
    PROVE  \E n \in 0..Cardinality(Shots) :
              /\ found \in [1..n -> [shot : Shots, generation : Nat]]
              /\ \A j, k \in 1..n : found[j].shot = found[k].shot => j = k
  BY DEF Listings

LEMMA NothingListed == <<>> \in Listings
  <1>1. <<>> \in [1..0 -> [shot : Shots, generation : Nat]]
    OBVIOUS
  <1>2. 0 \in 0..Cardinality(Shots)
    BY ShotFacts
  <1>3. DOMAIN <<>> = {}
    OBVIOUS
  <1>4. QED
    BY <1>1, <1>2, <1>3 DEF Listings

(* What a search finds: nearest first, all if that many are asked for.     *)
LEMMA FoundFacts ==
    ASSUME Types, NEW m \in Modalities, NEW c \in Calls
    PROVE  LET r == request[c] IN
           /\ Found(m, r) \in Listings
           /\ \A k \in DOMAIN Found(m, r) :
                 /\ Found(m, r)[k].shot[1] \in r.scope
                 /\ Found(m, r)[k].generation = index[m][Found(m, r)[k].shot[1]]
           /\ r.top >= Cardinality(Shots) =>
                 \A s \in Shots : s[1] \in r.scope /\ index[m][s[1]] # 0 => IsIn(Found(m, r), s)
  <1> DEFINE r == request[c]
             S == {s \in Shots : s[1] \in r.scope /\ index[m][s[1]] # 0}
             R == {p \in S \X S : distance[m][p[1]] < distance[m][p[2]]}
             L == Sorted(S, R, r.top)
             F == Found(m, r)
  <1>1. S \subseteq Shots /\ IsFiniteSet(S) /\ Cardinality(S) \in 0..Cardinality(Shots)
    <2>1. S \in SUBSET Shots
      OBVIOUS
    <2> HIDE DEF S
    <2>2. IsFiniteSet(S) /\ Cardinality(S) <= Cardinality(Shots)
      BY <2>1, FS_Subset, ShotFacts
    <2>3. Cardinality(S) \in Nat
      BY <2>2, FS_CardinalityType
    <2>4. QED
      BY <2>1, <2>2, <2>3, ShotFacts
  <1>2. \A s \in S : s \in Shots /\ s[1] \in r.scope /\ index[m][s[1]] # 0
    OBVIOUS
  <1>3. /\ \A s \in Shots : distance[m][s] \in Nat
        /\ \A s, t \in Shots : distance[m][s] = distance[m][t] => s = t
    BY RetrievalAssumption DEF Types
  <1>4. \A s, t \in S : <<s, t>> \in R <=> distance[m][s] < distance[m][t]
    OBVIOUS
  <1>5. F = [k \in DOMAIN L |-> [shot |-> L[k], generation |-> index[m][L[k][1]]]]
    BY DEF Found
  <1>6. r.top \in Nat
    BY DEF Types, IsRequest
  <1>7. \A s \in Shots : s[1] \in r.scope /\ index[m][s[1]] # 0 => s \in S
    OBVIOUS
  <1> HIDE DEF S, R, F
  <1>8. Ordered(S, R)
    BY <1>1, <1>3, <1>4 DEF Ordered
  <1>9. PICK n \in 0..Cardinality(S) :
              /\ L \in [1..n -> S] /\ (n = Cardinality(S) \/ n = r.top)
              /\ \A k \in 1..n : Place(S, R, L[k]) = k
              /\ \A s \in S : Place(S, R, s) <= n => L[Place(S, R, s)] = s
    <2>1. IsFiniteSet(S) /\ Ordered(S, R) /\ r.top \in Nat
      BY <1>1, <1>6, <1>8
    <2>2. Lists(L, S, R, r.top)
      BY <2>1, SortedFacts
    <2> HIDE DEF L, r
    <2>3. QED
      BY <2>2 DEF Lists
  <1>10. \A s \in S : Place(S, R, s) \in 1..Cardinality(S)
    BY <1>1, <1>8, PlaceFacts
  <1> HIDE DEF L
  <1>11. /\ DOMAIN F = 1..n /\ n \in 0..Cardinality(Shots)
         /\ \A k \in 1..n : /\ L[k] \in S
                            /\ F[k] = [shot |-> L[k], generation |-> index[m][L[k][1]]]
    <2>1. DOMAIN L = 1..n /\ \A k \in 1..n : L[k] \in S
      BY <1>9
    <2>2. n \in 0..Cardinality(Shots)
      BY <1>1, ShotFacts
    <2>3. QED
      BY <1>5, <2>1, <2>2
  <1>12. \A k \in 1..n : index[m][L[k][1]] \in Nat
    <2> SUFFICES ASSUME NEW k \in 1..n PROVE index[m][L[k][1]] \in Nat
      OBVIOUS
    <2>1. L[k][1] \in Media
      BY <1>1, <1>11, ShotFacts
    <2>2. QED
      BY <2>1 DEF Types
  <1>13. F \in Listings
    <2>1. F \in [1..n -> [shot : Shots, generation : Nat]]
      <3>1. F = [k \in 1..n |-> [shot |-> L[k], generation |-> index[m][L[k][1]]]]
        BY <1>5, <1>9
      <3>2. QED
        BY <1>1, <1>11, <1>12, <3>1
    <2>2. \A j, k \in 1..n : F[j].shot = F[k].shot => j = k
      <3>1. \A j \in 1..n : F[j].shot = L[j]
        BY <1>11
      <3>2. QED
        BY <1>9, <3>1
    <2>3. QED
      BY <1>11, <2>1, <2>2 DEF Listings
  <1>14. \A k \in DOMAIN F : /\ F[k].shot[1] \in r.scope
                             /\ F[k].generation = index[m][F[k].shot[1]]
    BY <1>2, <1>11
  <1>15. ASSUME r.top >= Cardinality(Shots), NEW s \in S PROVE IsIn(F, s)
    <2>1. Place(S, R, s) \in 1..n
      BY <1>1, <1>6, <1>9, <1>10, <1>15, ShotFacts
    <2>2. F[Place(S, R, s)].shot = s
      BY <1>9, <1>11, <2>1
    <2>3. QED
      BY <1>11, <2>1, <2>2 DEF IsIn
  <1>16. QED
    BY <1>7, <1>13, <1>14, <1>15 DEF F

LEMMA TypesInit == Init => Types
  <1> SUFFICES ASSUME Init PROVE Types
    OBVIOUS
  <1>1. NothingFound \in [Modalities -> Listings]
    BY NothingListed DEF NothingFound
  <1>2. \A c \in Calls : IsRequest(request[c])
    BY DEF Init, NoRequest, IsRequest
  <1>3. QED
    BY <1>1, <1>2 DEF Init, Types, Stages

LEMMA CollectionIs ==
    ASSUME NEW v \in Media, step[v] \in 1..4
    PROVE  Collection(v) \in Modalities
  <1>1. (step[v] + 1) \div 2 \in {1, 2}
    OBVIOUS
  <1>2. QED
    BY <1>1, ModalitiesAre DEF Collection, Searchable

LEMMA TypesStep == Types /\ [Next]_vars => Types'
  <1> SUFFICES ASSUME Types, [Next]_vars PROVE Types'
    OBVIOUS
  <1> USE DEF Types, Stages, Goto, ingestion, calls
  <1>1. ASSUME NEW v \in Media, Ingest(v) PROVE Types'
    <2>1. begun[v] \in Nat /\ begun[v] + 1 \in Nat /\ {0, begun[v]} \subseteq Nat
      OBVIOUS
    <2>2. step[v] \in 1..4 => step[v] + 1 \in 0..5
      OBVIOUS
    <2>3. index' \in [Modalities -> [Media -> Nat]]
      <3>1. CASE step[v] \in 1..4 /\ index' # index
        <4>1. PICK g \in {0, begun[v]} : index' = [index EXCEPT ![Collection(v)][v] = g]
          BY <1>1, <3>1 DEF Ingest
        <4>2. QED
          BY <2>1, <3>1, <4>1, CollectionIs
      <3>2. QED
        BY <1>1, <3>1 DEF Ingest
    <2>4. begun' \in [Media -> Nat] /\ revision' \in [Media -> Nat]
      BY <1>1, <2>1 DEF Ingest
    <2>5. step' \in [Media -> 0..5]
      <3>1. \E k \in {0, 1, step[v] + 1} : /\ step' = [step EXCEPT ![v] = k]
                                           /\ k = step[v] + 1 => step[v] \in 0..4
        BY <1>1 DEF Ingest
      <3>2. QED
        BY <3>1
    <2>6. UNCHANGED <<distance, calls>>
      BY <1>1 DEF Ingest
    <2>7. QED
      BY <2>3, <2>4, <2>5, <2>6
  <1>2. ASSUME NEW c \in Calls, Ask(c) PROVE Types'
    <2>1. PICK asked \in Requests : request' =
              [request EXCEPT ![c] =
                  [scope |-> asked.scope, modalities |-> asked.modalities, top |-> asked.top,
                   revisions |-> IF asked.keyed THEN [v \in asked.scope |-> revision[v]]
                                 ELSE NoRevisions]]
      BY <1>2 DEF Ask
    <2>2. asked.scope \subseteq Media /\ asked.top \in Nat
      BY RetrievalAssumption
    <2>3. DOMAIN request' = Calls /\ \A d \in Calls : IsRequest(request'[d])
      <3>1. DOMAIN request' = Calls /\ \A d \in Calls \ {c} : request'[d] = request[d]
        BY <2>1
      <3>2. IsRequest(request'[c])
        BY <2>1, <2>2 DEF IsRequest
      <3>3. QED
        BY <3>1, <3>2
    <2>4. pc' \in [Calls -> Stages] /\ DOMAIN warned' = Calls
      BY <1>2 DEF Ask
    <2>5. UNCHANGED <<distance, ingestion, hits, answer>>
      BY <1>2 DEF Ask
    <2>6. QED
      BY <2>3, <2>4, <2>5
  <1>3. ASSUME NEW c \in Calls, Read(c) PROVE Types'
    BY <1>3 DEF Read
  <1>4. ASSUME NEW c \in Calls, Discard(c) PROVE Types'
    BY <1>4 DEF Discard
  <1>5. ASSUME NEW c \in Calls, NEW m \in Modalities, NEW next \in Stages, Search(c, m, next)
        PROVE  Types'
    <2>1. Found(m, request[c]) \in Listings
      BY FoundFacts
    <2>2. hits' \in [Calls -> [Modalities -> Listings]]
      <3>1. hits' \in {hits, [hits EXCEPT ![c][m] = Found(m, request[c])]}
        BY <1>5 DEF Search
      <3>2. \A F \in Listings : [hits EXCEPT ![c][m] = F] \in [Calls -> [Modalities -> Listings]]
        OBVIOUS
      <3>3. QED
        BY <2>1, <3>1, <3>2
    <2>3. QED
      BY <1>5, <2>2 DEF Search
  <1>6. ASSUME NEW c \in Calls, Conclude(c) PROVE Types'
    <2>1. NothingFound \in [Modalities -> Listings]
      BY NothingListed DEF NothingFound
    <2>2. hits' \in [Calls -> [Modalities -> Listings]]
      BY <1>6, <2>1 DEF Conclude
    <2>3. DOMAIN answer' = Calls /\ DOMAIN warned' = Calls /\ pc' \in [Calls -> Stages]
      BY <1>6 DEF Conclude
    <2>4. UNCHANGED <<distance, ingestion, request>>
      BY <1>6 DEF Conclude
    <2>5. QED
      BY <2>2, <2>3, <2>4
  <1>7. ASSUME NEW c \in Calls, Write(c) PROVE Types'
    BY <1>7 DEF Write
  <1>8. ASSUME NEW c \in Calls, Leave(c) PROVE Types'
    <2>1. NothingFound \in [Modalities -> Listings]
      BY NothingListed DEF NothingFound
    <2>2. hits' \in [Calls -> [Modalities -> Listings]]
      BY <1>8, <2>1 DEF Leave
    <2>3. DOMAIN request' = Calls /\ \A d \in Calls : request'[d] \in {request[d], NoRequest}
      BY <1>8 DEF Leave
    <2>4. IsRequest(NoRequest)
      BY DEF NoRequest, IsRequest
    <2>5. DOMAIN answer' = Calls /\ DOMAIN warned' = Calls /\ pc' \in [Calls -> Stages]
      BY <1>8 DEF Leave
    <2>6. UNCHANGED <<distance, ingestion>>
      BY <1>8 DEF Leave
    <2>7. QED
      BY <2>2, <2>3, <2>4, <2>5, <2>6
  <1>9. CASE Expire \/ Damage
    BY <1>9 DEF Expire, Damage
  <1>10. CASE UNCHANGED vars
    BY <1>10 DEF vars
  <1>11. QED
    BY <1>1, <1>2, <1>3, <1>4, <1>5, <1>6, <1>7, <1>8, <1>9, <1>10, ModalitiesAre
    DEF Next, Step, SearchTranscript, SearchOcr

(* Calls search the collections as typed above whatever happens meanwhile. *)
LEMMA TypesHold == Spec => []Types
  BY TypesInit, TypesStep, PTL DEF Spec

-----------------------------------------------------------------------------
(* Fusion.                                                                 *)

LEMMA RankFacts ==
    ASSUME NEW found \in Listings, NEW s, IsIn(found, s)
    PROVE  /\ Rank(found, s) \in DOMAIN found /\ Rank(found, s) \in 1..Cardinality(Shots)
           /\ found[Rank(found, s)].shot = s
           /\ \A k \in DOMAIN found : found[k].shot = s => Rank(found, s) = k
  <1>1. PICK n \in 0..Cardinality(Shots) :
              /\ found \in [1..n -> [shot : Shots, generation : Nat]]
              /\ \A j, k \in 1..n : found[j].shot = found[k].shot => j = k
    BY ListingFacts
  <1>2. Rank(found, s) \in DOMAIN found /\ found[Rank(found, s)].shot = s
    BY DEF IsIn, Rank
  <1>3. QED
    BY <1>1, <1>2, ShotFacts

LEMMA ReciprocalFacts ==
    ASSUME NEW j \in 1..Cardinality(Shots), NEW k \in 1..Cardinality(Shots), j < k
    PROVE  Reciprocal[k] < Reciprocal[j]
  <1> DEFINE p == Reciprocal[j]
             q == Reciprocal[k]
             a == 60 + j
             b == 60 + k
  <1>1. /\ p \in Nat \ {0} /\ q \in Nat \ {0} /\ p * a = q * b
        /\ a \in Nat /\ b \in Nat /\ a > 0 /\ a < b
    BY ReciprocalAssumption, ShotFacts
  <1> HIDE DEF p, q, a, b
  <1>2. SUFFICES ASSUME p <= q PROVE FALSE
    BY <1>1 DEF p, q
  <1>3. p * a <= q * a
    BY <1>1, <1>2
  <1>4. q * a < q * b
    BY <1>1
  <1>5. QED
    BY <1>1, <1>3, <1>4

LEMMA WeightFacts ==
    ASSUME NEW found \in Listings
    PROVE  /\ \A s : Weight(found, s) \in Nat /\ (IsIn(found, s) => Weight(found, s) > 0)
           /\ \A s, t : IsIn(found, s) /\ IsIn(found, t) /\ Rank(found, s) < Rank(found, t) =>
                           Weight(found, s) > Weight(found, t)
  <1>1. ASSUME NEW s, IsIn(found, s)
        PROVE  /\ Rank(found, s) \in 1..Cardinality(Shots)
               /\ Weight(found, s) = Reciprocal[Rank(found, s)]
    BY <1>1, RankFacts DEF Weight
  <1>2. ASSUME NEW s
        PROVE  Weight(found, s) \in Nat /\ (IsIn(found, s) => Weight(found, s) > 0)
    <2>1. CASE IsIn(found, s)
      BY <1>1, <2>1, ReciprocalAssumption
    <2>2. CASE ~IsIn(found, s)
      BY <2>2 DEF Weight
    <2>3. QED
      BY <2>1, <2>2
  <1>3. ASSUME NEW s, NEW t, IsIn(found, s), IsIn(found, t), Rank(found, s) < Rank(found, t)
        PROVE  Weight(found, s) > Weight(found, t)
    <2>1. Reciprocal[Rank(found, t)] < Reciprocal[Rank(found, s)]
      BY <1>1, <1>3, ReciprocalFacts
    <2>2. QED
      BY <1>1, <1>2, <1>3, <2>1
  <1>4. QED
    BY <1>2, <1>3

(* The results by score, start and id: the media of a scope and their      *)
(* shots are totally ordered.                                              *)
Merged(found) == {s \in Shots : \E m \in Modalities : IsIn(found[m], s)}

Ranking(found) ==
    {p \in Merged(found) \X Merged(found) : Precedes(found, p[1], p[2])}

LEMMA RankingIsOrder ==
    ASSUME NEW found \in [Modalities -> Listings]
    PROVE  Ordered(Merged(found), Ranking(found))
  <1> DEFINE M == Merged(found)
             R == Ranking(found)
  <1>1. \A s \in Shots : Score(found, s) \in Nat
    BY WeightFacts, ModalitiesAre DEF Score
  <1>2. \A s \in M : s \in Shots
    BY DEF Merged
  <1>3. \A s, t \in M : <<s, t>> \in R <=> Precedes(found, s, t)
    BY DEF Ranking
  <1> HIDE DEF M, R
  <1>4. \A s \in M : ~Precedes(found, s, s)
    BY <1>1, <1>2, ShotFacts DEF Precedes
  <1>5. \A s, t \in M : s = t \/ Precedes(found, s, t) \/ Precedes(found, t, s)
    <2> SUFFICES ASSUME NEW s \in M, NEW t \in M, ~Precedes(found, s, t), ~Precedes(found, t, s)
                 PROVE  s = t
      OBVIOUS
    <2>1. s[1] = t[1] /\ s[2] = t[2]
      BY <1>1, <1>2, ShotFacts DEF Precedes
    <2>2. s = <<s[1], s[2]>> /\ t = <<t[1], t[2]>>
      BY <1>2, ShotFacts
    <2>3. QED
      BY <2>1, <2>2
  <1>6. \A s, t, u \in M : Precedes(found, s, t) /\ Precedes(found, t, u) => Precedes(found, s, u)
    BY <1>1, <1>2, ShotFacts DEF Precedes
  <1>7. QED
    BY <1>3, <1>4, <1>5, <1>6 DEF Ordered, M, R

(* The results are those first in the ranking, and all if that many are    *)
(* asked for.                                                              *)
IsFusion(results, found, top) ==
    /\ \A k \in DOMAIN results :
          /\ results[k].shot \in Merged(found)
          /\ results[k].generations =
                [m \in Modalities |-> Generation(found[m], results[k].shot)]
          /\ \A s \in Merged(found) : Precedes(found, s, results[k].shot) =>
                \E i \in 1..(k - 1) : results[i].shot = s
    /\ top >= Cardinality(Shots) =>
          \A s \in Merged(found) : \E k \in DOMAIN results : results[k].shot = s

LEMMA FusedFacts ==
    ASSUME NEW found \in [Modalities -> Listings], NEW top \in Nat
    PROVE  IsFusion(Fused(found, top), found, top)
  <1> DEFINE M == Merged(found)
             R == Ranking(found)
             L == Sorted(M, R, top)
             results == Fused(found, top)
  <1>1. IsFiniteSet(M) /\ Cardinality(M) \in 0..Cardinality(Shots)
    <2>1. M \in SUBSET Shots
      BY DEF Merged
    <2> HIDE DEF M
    <2>2. IsFiniteSet(M) /\ Cardinality(M) <= Cardinality(Shots)
      BY <2>1, FS_Subset, ShotFacts
    <2>3. Cardinality(M) \in Nat
      BY <2>2, FS_CardinalityType
    <2>4. QED
      BY <2>2, <2>3, ShotFacts
  <1>2. Ordered(M, R)
    BY RankingIsOrder
  <1>3. results = [k \in DOMAIN L |->
                      [shot |-> L[k],
                       generations |-> [m \in Modalities |-> Generation(found[m], L[k])]]]
    BY DEF Fused, Merged, Ranking
  <1>4. \A s, t \in M : <<s, t>> \in R <=> Precedes(found, s, t)
    BY DEF Ranking
  <1> HIDE DEF M, R, results
  <1>5. Lists(L, M, R, top)
    BY <1>1, <1>2, SortedFacts
  <1> HIDE DEF L
  <1>6. PICK n \in 0..Cardinality(M) :
              /\ L \in [1..n -> M] /\ (n = Cardinality(M) \/ n = top)
              /\ \A k \in 1..n : Place(M, R, L[k]) = k
              /\ \A s \in M : Place(M, R, s) <= n => L[Place(M, R, s)] = s
    BY <1>5 DEF Lists
  <1>7. /\ n \in Nat /\ DOMAIN results = 1..n
        /\ \A k \in 1..n :
              /\ L[k] \in M /\ results[k].shot = L[k]
              /\ results[k].generations = [m \in Modalities |-> Generation(found[m], L[k])]
    BY <1>1, <1>3, <1>6
  <1>8. \A s \in M : Place(M, R, s) \in 1..Cardinality(M)
    BY <1>1, <1>2, PlaceFacts
  <1>9. ASSUME NEW k \in 1..n, NEW s \in M, Precedes(found, s, L[k])
        PROVE  \E i \in 1..(k - 1) : results[i].shot = s
    <2>1. Place(M, R, s) < Place(M, R, L[k])
      BY <1>1, <1>2, <1>4, <1>7, <1>9, PlaceFacts
    <2>2. Place(M, R, s) \in 1..(k - 1) /\ Place(M, R, s) \in 1..n
      BY <1>1, <1>6, <1>7, <1>8, <2>1
    <2>3. L[Place(M, R, s)] = s
      BY <1>6, <2>2
    <2>4. results[Place(M, R, s)].shot = L[Place(M, R, s)]
      BY <1>7, <2>2
    <2>5. QED
      BY <2>2, <2>3, <2>4
  <1>10. ASSUME top >= Cardinality(Shots), NEW s \in M
         PROVE  \E k \in DOMAIN results : results[k].shot = s
    <2>1. Place(M, R, s) \in 1..n
      BY <1>1, <1>6, <1>7, <1>8, <1>10, ShotFacts
    <2>2. L[Place(M, R, s)] = s
      BY <1>6, <2>1
    <2>3. results[Place(M, R, s)].shot = L[Place(M, R, s)]
      BY <1>7, <2>1
    <2>4. QED
      BY <1>7, <2>1, <2>2, <2>3
  <1>11. IsFusion(results, found, top)
    <2>1. M = Merged(found)
      BY DEF M
    <2>2. ASSUME NEW k \in DOMAIN results
          PROVE  /\ results[k].shot \in M
                 /\ results[k].generations =
                       [m \in Modalities |-> Generation(found[m], results[k].shot)]
                 /\ \A s \in M : Precedes(found, s, results[k].shot) =>
                       \E i \in 1..(k - 1) : results[i].shot = s
      <3>1. k \in 1..n /\ results[k].shot = L[k]
        BY <1>7
      <3>2. QED
        BY <1>7, <1>9, <3>1
    <2>3. QED
      BY <1>10, <2>1, <2>2 DEF IsFusion
  <1>12. QED
    BY <1>11 DEF results

(* Fusion never puts a shot before one that ranks at least as well in both *)
(* modalities and better in one, for any number of shots and any order of  *)
(* them, and leaves none out for such a one.                               *)
THEOREM BestAreFirst == Spec => []BestFirst
  <1>1. ASSUME Types PROVE BestFirst
    <2> DEFINE better(c, m, s, t) ==
                   /\ IsIn(hits[c][m], s)
                   /\ IsIn(hits[c][m], t) => Rank(hits[c][m], s) < Rank(hits[c][m], t)
    <2>1. SUFFICES ASSUME NEW c \in Calls, pc[c] = "graph",
                          NEW k \in DOMAIN Fused(hits[c], request[c].top), NEW s \in Shots,
                          \E m \in Modalities :
                              better(c, m, s, Fused(hits[c], request[c].top)[k].shot),
                          \A m \in Modalities :
                              ~better(c, m, Fused(hits[c], request[c].top)[k].shot, s)
                   PROVE  \E i \in 1..(k - 1) : Fused(hits[c], request[c].top)[i].shot = s
      BY DEF BestFirst
    <2> DEFINE t == Fused(hits[c], request[c].top)[k].shot
    <2>2. hits[c] \in [Modalities -> Listings] /\ request[c].top \in Nat
      BY <1>1 DEF Types, IsRequest
    <2>3. IsFusion(Fused(hits[c], request[c].top), hits[c], request[c].top)
      BY <2>2, FusedFacts
    <2>4. s \in Merged(hits[c]) /\ t \in Merged(hits[c])
      BY <2>1, <2>3 DEF Merged, IsFusion
    <2>5. ASSUME NEW m \in Modalities
          PROVE  /\ Weight(hits[c][m], s) >= Weight(hits[c][m], t)
                 /\ better(c, m, s, t) => Weight(hits[c][m], s) > Weight(hits[c][m], t)
                 /\ Weight(hits[c][m], s) \in Nat /\ Weight(hits[c][m], t) \in Nat
      <3> DEFINE f == hits[c][m]
      <3>1. f \in Listings
        BY <2>2
      <3>2. ~better(c, m, t, s)
        BY <2>1
      <3> HIDE DEF f, t
      <3>3. /\ ~(IsIn(f, t) /\ (IsIn(f, s) => Rank(f, t) < Rank(f, s)))
            /\ better(c, m, s, t) <=>
                  IsIn(f, s) /\ (IsIn(f, t) => Rank(f, s) < Rank(f, t))
        BY <3>2 DEF f
      <3>4. Weight(f, s) \in Nat /\ Weight(f, t) \in Nat
        BY <3>1, WeightFacts
      <3>5. CASE ~IsIn(f, t)
        <4>1. Weight(f, t) = 0
          BY <3>5 DEF Weight
        <4>2. IsIn(f, s) => Weight(f, s) > 0
          BY <3>1, WeightFacts
        <4>3. QED
          BY <3>3, <3>4, <4>1, <4>2 DEF f
      <3>6. CASE IsIn(f, t)
        <4>1. /\ IsIn(f, s) /\ Rank(f, s) \in Nat /\ Rank(f, t) \in Nat
              /\ Rank(f, s) <= Rank(f, t)
          BY <3>1, <3>3, <3>6, RankFacts, ShotFacts
        <4>2. CASE Rank(f, s) < Rank(f, t)
          BY <3>1, <3>4, <3>6, <4>1, <4>2, WeightFacts DEF f
        <4>3. CASE Rank(f, s) = Rank(f, t)
          <5>1. Weight(f, s) = Weight(f, t)
            BY <3>6, <4>1, <4>3 DEF Weight
          <5>2. QED
            BY <3>3, <3>4, <3>6, <4>1, <4>3, <5>1 DEF f
        <4>4. QED
          BY <4>1, <4>2, <4>3
      <3>7. QED
        BY <3>5, <3>6
    <2>6. Score(hits[c], s) > Score(hits[c], t)
      <3>1. PICK m \in Modalities : better(c, m, s, t)
        BY <2>1
      <3> HIDE DEF t, better
      <3>2. m \in {"transcript", "ocr"}
        BY ModalitiesAre
      <3>3. QED
        BY <2>5, <3>1, <3>2, ModalitiesAre DEF Score
    <2>7. Precedes(hits[c], s, t)
      BY <2>6 DEF Precedes
    <2>8. QED
      BY <2>1, <2>3, <2>7, <2>4 DEF IsFusion
  <1>2. QED
    BY <1>1, TypesHold, PTL

-----------------------------------------------------------------------------
(* Freshness.                                                              *)

(* What is published has begun, and what is published last is finished.    *)
Published ==
    \A v \in Media : revision[v] <= begun[v] /\ (revision[v] = begun[v] => step[v] = 0)

(* The revisions of r were published, when revision is p.                  *)
Known(r, p) ==
    /\ r.scope \subseteq Media
    /\ \A v \in r.scope : r.revisions[v] \in Nat /\ r.revisions[v] <= p[v]

(* What was found in a collection is of the scope, and, of a medium of     *)
(* which nothing began since, what the collection has: all of it, if that  *)
(* many results are asked for.  Here index is i, and begun is b.           *)
Faithful(found, m, r, i, b) ==
    /\ \A k \in DOMAIN found : found[k].shot[1] \in r.scope
    /\ \A v \in r.scope : b[v] = r.revisions[v] =>
          /\ \A k \in DOMAIN found : found[k].shot[1] = v => found[k].generation = i[m][v]
          /\ i[m][v] # 0 /\ r.top >= Cardinality(Shots) =>
                \A s \in Shots : s[1] = v => IsIn(found, s)

(* Exact, when index is i.                                                 *)
Wanted(r, v, i, m) == IF m \in Range(r.modalities) THEN i[m][v] ELSE 0

ExactIn(results, r, v, i) ==
    /\ \A k \in DOMAIN results, m \in Modalities : results[k].shot[1] = v =>
          results[k].generations[m] \in {0, Wanted(r, v, i, m)}
    /\ r.top >= Cardinality(Shots) /\ (\E m \in Modalities : Wanted(r, v, i, m) # 0) =>
          \A s \in Shots : s[1] = v =>
              \E k \in DOMAIN results :
                  /\ results[k].shot = s
                  /\ \A m \in Modalities : results[k].generations[m] = Wanted(r, v, i, m)

Correct(results, r, i, b) ==
    /\ \A k \in DOMAIN results : results[k].shot[1] \in r.scope
    /\ \A v \in r.scope : b[v] = r.revisions[v] => ExactIn(results, r, v, i)

Searched(p) ==
    IF p = "graph" THEN Modalities ELSE IF p = "search_ocr" THEN {"transcript"} ELSE {}

(* A call at p, for request r, that found h and answers a.                 *)
CallFresh(p, r, h, w, a, i, b, q) ==
    /\ p \in {"read", "flight", "discard", "write"} => HasKey(r)
    /\ p = "write" => ~w
    /\ HasKey(r) => Known(r, q)
    /\ p \notin {"search_ocr", "graph"} => h = NothingFound
    /\ \A m \in Modalities \ Range(r.modalities) : h[m] = <<>>
    /\ HasKey(r) /\ ~w =>
          /\ \A m \in Searched(p) \cap Range(r.modalities) : Faithful(h[m], m, r, i, b)
          /\ p = "write" => Correct(a, r, i, b)

CallsFresh ==
    \A c \in Calls :
        CallFresh(pc[c], request[c], hits[c], warned[c], answer[c], index, begun, revision)

EntryFresh(key, value, i, b, q) ==
    Known(key, q) /\ (value # Corrupt => Correct(value, key, i, b))

CacheFresh == \A key \in DOMAIN cache : EntryFresh(key, cache[key], index, begun, revision)

Fresh == Published /\ CallsFresh /\ CacheFresh

LEMMA ExactIsExact ==
    ASSUME NEW results, NEW r, NEW v, ExactIn(results, r, v, index)
    PROVE  Exact(results, r, v)
  BY DEF Exact, ExactIn, Wanted

LEMMA KeyFacts ==
    ASSUME NEW r, NEW i, NEW b, NEW q, NEW a
    PROVE  /\ Known(KeyFor(r), q) <=> Known(r, q)
           /\ Correct(a, KeyFor(r), i, b) <=> Correct(a, r, i, b)
  BY DEF KeyFor, Known, Correct, ExactIn, Wanted

(* What an ingestion does is not seen by what has a published revision.    *)
Steady(r) ==
    /\ Known(r, revision')
    /\ \A v \in r.scope : begun'[v] = r.revisions[v] =>
          begun[v] = r.revisions[v] /\ \A m \in Modalities : index'[m][v] = index[m][v]

LEMMA IngestFacts ==
    ASSUME Types, Published, NEW u \in Media, Ingest(u)
    PROVE  /\ \A v \in Media : v # u => begun'[v] = begun[v] /\ revision'[v] = revision[v]
           /\ \A v \in Media, m \in Modalities :
                 v # u \/ step[u] \notin 1..4 => index'[m][v] = index[m][v]
           /\ begun'[u] \in {begun[u], begun[u] + 1}
           /\ revision'[u] \in {revision[u], begun[u]} /\ revision'[u] <= begun'[u]
           /\ begun'[u] # begun[u] => revision'[u] = revision[u] /\ step'[u] = 1
           /\ revision'[u] = begun'[u] => step'[u] = 0
           /\ \A v \in Media : v # u => step'[v] = step[v]
  <1>1. /\ begun \in [Media -> Nat] /\ revision \in [Media -> Nat] /\ step \in [Media -> 0..5]
        /\ index \in [Modalities -> [Media -> Nat]]
        /\ revision[u] <= begun[u] /\ (revision[u] = begun[u] => step[u] = 0)
    BY DEF Types, Published
  <1>2. \A v \in Media, m \in Modalities :
            v # u \/ step[u] \notin 1..4 => index'[m][v] = index[m][v]
    <2>1. CASE step[u] \in 1..4 /\ index' # index
      <3>1. PICK g \in {0, begun[u]} : index' = [index EXCEPT ![Collection(u)][u] = g]
        BY <1>1, <2>1 DEF Ingest
      <3>2. QED
        BY <1>1, <2>1, <3>1, CollectionIs
    <2>2. QED
      BY <1>1, <2>1 DEF Ingest
  <1>3. QED
    BY <1>1, <1>2 DEF Ingest

LEMMA PublishedStep == Types /\ Published /\ [Next]_vars => Published'
  <1> SUFFICES ASSUME Types, Published, [Next]_vars PROVE Published'
    OBVIOUS
  <1>1. ASSUME NEW u \in Media, Ingest(u) PROVE Published'
    BY <1>1, IngestFacts DEF Published
  <1>2. CASE UNCHANGED ingestion
    BY <1>2 DEF ingestion, Published
  <1>3. QED
    BY <1>1, <1>2 DEF Next, Step, Ask, Read, Discard, SearchTranscript, SearchOcr, Search,
       Conclude, Write, Leave, Expire, Damage, vars, ingestion

LEMMA SteadyStep ==
    ASSUME Types, Published, NEW u \in Media, Ingest(u), NEW r, Known(r, revision)
    PROVE  Steady(r)
  <1>1. \A v \in Media : begun[v] \in Nat /\ revision[v] \in Nat
    BY DEF Types
  <1>2. \A v \in Media : revision[v] <= revision'[v]
    BY <1>1, IngestFacts DEF Published
  <1>3. Known(r, revision')
    <2>1. ASSUME NEW v \in r.scope PROVE r.revisions[v] \in Nat /\ r.revisions[v] <= revision'[v]
      <3>1. v \in Media /\ r.revisions[v] \in Nat /\ r.revisions[v] <= revision[v]
        BY DEF Known
      <3>2. revision'[v] \in Nat
        BY <1>1, <3>1, IngestFacts
      <3>3. QED
        BY <1>1, <1>2, <3>1, <3>2
    <2>2. QED
      BY <2>1 DEF Known
  <1>4. ASSUME NEW v \in r.scope, begun'[v] = r.revisions[v]
        PROVE  /\ begun[v] = r.revisions[v]
               /\ \A m \in Modalities : index'[m][v] = index[m][v]
    <2>1. v \in Media /\ r.revisions[v] \in Nat /\ r.revisions[v] <= revision[v]
      BY DEF Known
    <2>2. revision[v] <= begun[v] /\ (revision[v] = begun[v] => step[v] = 0)
      BY <2>1 DEF Published
    <2>3. begun[v] = r.revisions[v]
      BY <1>1, <1>4, <2>1, <2>2, IngestFacts
    <2>4. v = u => step[u] = 0
      BY <1>1, <2>1, <2>2, <2>3
    <2>5. QED
      BY <2>1, <2>3, <2>4, IngestFacts
  <1>5. QED
    BY <1>3, <1>4 DEF Steady

LEMMA SteadyFacts ==
    ASSUME NEW r, Steady(r)
    PROVE  /\ \A found, m : m \in Modalities /\ Faithful(found, m, r, index, begun) =>
                               Faithful(found, m, r, index', begun')
           /\ \A results : Correct(results, r, index, begun) =>
                               Correct(results, r, index', begun')
  <1>1. ASSUME NEW found, NEW m \in Modalities, Faithful(found, m, r, index, begun)
        PROVE  Faithful(found, m, r, index', begun')
    BY <1>1 DEF Faithful, Steady
  <1>2. ASSUME NEW results, Correct(results, r, index, begun)
        PROVE  Correct(results, r, index', begun')
    <2>1. ASSUME NEW v \in r.scope, begun'[v] = r.revisions[v]
          PROVE  ExactIn(results, r, v, index')
      <3>1. ExactIn(results, r, v, index)
        BY <1>2, <2>1 DEF Correct, Steady
      <3>2. \A m \in Modalities : Wanted(r, v, index', m) = Wanted(r, v, index, m)
        BY <2>1 DEF Steady, Wanted
      <3>3. QED
        BY <3>1, <3>2 DEF ExactIn
    <2>2. QED
      BY <1>2, <2>1 DEF Correct
  <1>3. QED
    BY <1>1, <1>2

LEMMA FreshInit == Init => Fresh
  <1> SUFFICES ASSUME Init PROVE Fresh
    OBVIOUS
  <1>1. Published
    BY DEF Init, Published
  <1>2. ASSUME NEW c \in Calls
        PROVE  CallFresh(pc[c], request[c], hits[c], warned[c], answer[c], index, begun, revision)
    BY DEF Init, CallFresh, NoRequest, NothingFound, HasKey, Searched
  <1>3. CacheFresh
    BY DEF Init, CacheFresh
  <1>4. QED
    BY <1>1, <1>2, <1>3 DEF Fresh, CallsFresh

(* What is fused of faithful searches is correct.                          *)
LEMMA FusedCorrect ==
    ASSUME NEW found \in [Modalities -> Listings], NEW r, r.top \in Nat, NEW i, NEW b,
           \A m \in Modalities \ Range(r.modalities) : found[m] = <<>>,
           \A m \in Modalities \cap Range(r.modalities) : Faithful(found[m], m, r, i, b)
    PROVE  Correct(Fused(found, r.top), r, i, b)
  <1> DEFINE results == Fused(found, r.top)
  <1>1. IsFusion(results, found, r.top)
    BY FusedFacts
  <1> HIDE DEF results
  <1>2. ASSUME NEW m \in Modalities, NEW s, IsIn(found[m], s)
        PROVE  /\ m \in Range(r.modalities)
               /\ Rank(found[m], s) \in DOMAIN found[m]
               /\ found[m][Rank(found[m], s)].shot = s
               /\ Generation(found[m], s) = found[m][Rank(found[m], s)].generation
    <2>1. found[m] # <<>>
      BY <1>2 DEF IsIn
    <2>2. found[m] \in Listings
      OBVIOUS
    <2>3. QED
      BY <1>2, <2>1, <2>2, RankFacts DEF Generation
  <1>3. ASSUME NEW k \in DOMAIN results PROVE results[k].shot[1] \in r.scope
    <2>1. PICK m \in Modalities : IsIn(found[m], results[k].shot)
      BY <1>1 DEF IsFusion, Merged
    <2>2. QED
      BY <1>2, <2>1 DEF Faithful
  <1>4. ASSUME NEW v \in r.scope, b[v] = r.revisions[v] PROVE ExactIn(results, r, v, i)
    <2>1. ASSUME NEW m \in Modalities, NEW s, s[1] = v, IsIn(found[m], s)
          PROVE  Generation(found[m], s) = Wanted(r, v, i, m)
      BY <1>2, <1>4, <2>1 DEF Faithful, Wanted
    <2>2. ASSUME NEW k \in DOMAIN results, NEW m \in Modalities, results[k].shot[1] = v
          PROVE  results[k].generations[m] \in {0, Wanted(r, v, i, m)}
      <3>1. results[k].generations[m] = Generation(found[m], results[k].shot)
        BY <1>1 DEF IsFusion
      <3>2. CASE IsIn(found[m], results[k].shot)
        BY <2>1, <2>2, <3>1, <3>2
      <3>3. CASE ~IsIn(found[m], results[k].shot)
        BY <3>1, <3>3 DEF Generation
      <3>4. QED
        BY <3>2, <3>3
    <2>3. ASSUME r.top >= Cardinality(Shots), NEW n \in Modalities, Wanted(r, v, i, n) # 0,
                 NEW s \in Shots, s[1] = v
          PROVE  \E k \in DOMAIN results :
                    /\ results[k].shot = s
                    /\ \A m \in Modalities : results[k].generations[m] = Wanted(r, v, i, m)
      <3>1. ASSUME NEW m \in Modalities, Wanted(r, v, i, m) # 0 PROVE IsIn(found[m], s)
        BY <1>4, <2>3, <3>1 DEF Faithful, Wanted
      <3>2. s \in Merged(found)
        BY <2>3, <3>1 DEF Merged
      <3>3. PICK k \in DOMAIN results : results[k].shot = s
        BY <1>1, <2>3, <3>2 DEF IsFusion
      <3>4. ASSUME NEW m \in Modalities
            PROVE  results[k].generations[m] = Wanted(r, v, i, m)
        <4>1. results[k].generations[m] = Generation(found[m], s)
          <5>1. results[k].generations =
                   [q \in Modalities |-> Generation(found[q], results[k].shot)]
            BY <1>1 DEF IsFusion
          <5>2. QED
            BY <3>3, <5>1
        <4>2. CASE IsIn(found[m], s)
          BY <2>1, <2>3, <4>1, <4>2
        <4>3. CASE ~IsIn(found[m], s)
          BY <3>1, <4>1, <4>3 DEF Generation
        <4>4. QED
          BY <4>2, <4>3
      <3>5. QED
        BY <3>3, <3>4
    <2>4. QED
      BY <2>2, <2>3 DEF ExactIn
  <1>5. QED
    BY <1>3, <1>4 DEF Correct, results

LEMMA FoundFaithful ==
    ASSUME Types, NEW m \in Modalities, NEW c \in Calls
    PROVE  Faithful(Found(m, request[c]), m, request[c], index, begun)
  <1> DEFINE r == request[c]
             F == Found(m, r)
  <1>1. /\ \A k \in DOMAIN F : /\ F[k].shot[1] \in r.scope
                               /\ F[k].generation = index[m][F[k].shot[1]]
        /\ r.top >= Cardinality(Shots) =>
              \A s \in Shots : s[1] \in r.scope /\ index[m][s[1]] # 0 => IsIn(F, s)
    BY FoundFacts
  <1> HIDE DEF F
  <1>2. Faithful(F, m, r, index, begun)
    BY <1>1 DEF Faithful
  <1>3. QED
    BY <1>2 DEF F

LEMMA CallSteady ==
    ASSUME NEW p, NEW r, NEW h, NEW w, NEW a, HasKey(r) => Steady(r),
           CallFresh(p, r, h, w, a, index, begun, revision)
    PROVE  CallFresh(p, r, h, w, a, index', begun', revision')
  <1>1. CASE ~HasKey(r)
    BY <1>1 DEF CallFresh
  <1>2. CASE HasKey(r)
    <2>1. Known(r, revision')
      BY <1>2 DEF Steady
    <2>2. ASSUME NEW m \in Searched(p) \cap Range(r.modalities), ~w
          PROVE  Faithful(h[m], m, r, index', begun')
      <3>1. m \in Modalities
        BY ModalitiesAre DEF Searched
      <3>2. Faithful(h[m], m, r, index, begun)
        BY <1>2, <2>2 DEF CallFresh
      <3>3. QED
        BY <1>2, <3>1, <3>2, SteadyFacts
    <2>3. ASSUME ~w, p = "write" PROVE Correct(a, r, index', begun')
      BY <1>2, <2>3, SteadyFacts DEF CallFresh
    <2>4. QED
      BY <2>1, <2>2, <2>3 DEF CallFresh
  <1>3. QED
    BY <1>1, <1>2

LEMMA FreshIngest ==
    ASSUME Types, Fresh, NEW u \in Media, Ingest(u) PROVE CallsFresh' /\ CacheFresh'
  <1>1. UNCHANGED cache /\ UNCHANGED calls
    BY DEF Ingest
  <1>2. \A r : Known(r, revision) => Steady(r)
    BY SteadyStep DEF Fresh
  <1>3. ASSUME NEW c \in Calls
        PROVE  CallFresh(pc[c], request[c], hits[c], warned[c], answer[c],
                         index', begun', revision')
    <2>1. CallFresh(pc[c], request[c], hits[c], warned[c], answer[c], index, begun, revision)
      BY DEF Fresh, CallsFresh
    <2>2. HasKey(request[c]) => Steady(request[c])
      BY <1>2, <2>1 DEF CallFresh
    <2>3. QED
      BY <2>1, <2>2, CallSteady
  <1>4. ASSUME NEW key \in DOMAIN cache
        PROVE  EntryFresh(key, cache[key], index', begun', revision')
    <2>1. EntryFresh(key, cache[key], index, begun, revision)
      BY DEF Fresh, CacheFresh
    <2>2. Steady(key)
      BY <1>2, <2>1 DEF EntryFresh
    <2>3. QED
      BY <2>1, <2>2, SteadyFacts DEF EntryFresh, Steady
  <1>5. QED
    BY <1>1, <1>3, <1>4 DEF CallsFresh, CacheFresh, calls

(* A step of call c leaves the other calls and the ingestions alone.       *)
OnlyOf(c) ==
    /\ UNCHANGED ingestion
    /\ \A d \in Calls \ {c} :
          /\ pc'[d] = pc[d] /\ request'[d] = request[d] /\ hits'[d] = hits[d]
          /\ warned'[d] = warned[d] /\ answer'[d] = answer[d]

LEMMA StepIsOf ==
    ASSUME Types, NEW c \in Calls, Step(c)
    PROVE  OnlyOf(c)
  <1> USE DEF OnlyOf, Goto, Types
  <1>1. CASE Ask(c)
    BY <1>1 DEF Ask
  <1>2. CASE Read(c)
    BY <1>2 DEF Read
  <1>3. CASE Discard(c)
    BY <1>3 DEF Discard
  <1>4. ASSUME NEW m, NEW next, Search(c, m, next) PROVE OnlyOf(c)
    BY <1>4 DEF Search
  <1>5. CASE Conclude(c)
    BY <1>5 DEF Conclude
  <1>6. CASE Write(c)
    BY <1>6 DEF Write
  <1>7. CASE Leave(c)
    BY <1>7 DEF Leave
  <1>8. QED
    BY <1>1, <1>2, <1>3, <1>4, <1>5, <1>6, <1>7 DEF Step, SearchTranscript, SearchOcr

LEMMA FreshCall ==
    ASSUME Types, Fresh, NEW c \in Calls, Step(c)
    PROVE  CallFresh(pc'[c], request'[c], hits'[c], warned'[c], answer'[c],
                     index, begun, revision)
  <1> DEFINE r == request[c]
             Goal == CallFresh(pc'[c], request'[c], hits'[c], warned'[c], answer'[c],
                               index, begun, revision)
  <1>1. CallFresh(pc[c], r, hits[c], warned[c], answer[c], index, begun, revision)
    BY DEF Fresh, CallsFresh
  <1>2. /\ DOMAIN pc = Calls /\ DOMAIN request = Calls /\ DOMAIN hits = Calls
        /\ DOMAIN warned = Calls /\ DOMAIN answer = Calls
        /\ hits[c] \in [Modalities -> Listings] /\ r.top \in Nat
        /\ \A v \in Media : revision[v] \in Nat
    BY DEF Types, IsRequest
  <1>3. \A m \in Modalities : NothingFound[m] = <<>>
    BY DEF NothingFound
  <1>4. CASE Ask(c)
    <2>1. PICK asked \in Requests :
              LET q == [scope |-> asked.scope, modalities |-> asked.modalities,
                        top |-> asked.top,
                        revisions |-> IF asked.keyed THEN [v \in asked.scope |-> revision[v]]
                                      ELSE NoRevisions]
              IN  /\ request'[c] = q
                  /\ pc'[c] = IF HasKey(q) THEN "read" ELSE "search"
      BY <1>2, <1>4 DEF Ask, Goto
    <2>2. asked.scope \subseteq Media
      BY RetrievalAssumption
    <2>3. HasKey(request'[c]) => Known(request'[c], revision)
      BY <1>2, <2>1, <2>2 DEF HasKey, Known
    <2>4. hits'[c] = NothingFound
      BY <1>1, <1>4 DEF Ask, CallFresh
    <2>5. QED
      BY <1>3, <2>1, <2>3, <2>4 DEF CallFresh, Searched
  <1>5. CASE Read(c) \/ Discard(c)
    <2>1. /\ pc[c] \in {"read", "flight", "discard"}
          /\ pc'[c] \in {"done", "discard", "flight", "search"}
          /\ request'[c] = r /\ hits'[c] = hits[c] /\ warned'[c] = warned[c]
      BY <1>2, <1>5 DEF Read, Discard, Goto
    <2>2. QED
      BY <1>1, <2>1 DEF CallFresh, Searched
  <1>6. ASSUME NEW m \in Modalities, NEW p, NEW next, pc[c] = p, Search(c, m, next),
               <<p, m, next>> \in {<<"search", "transcript", "search_ocr">>,
                                   <<"search_ocr", "ocr", "graph">>}
        PROVE  Goal
    <2>1. /\ pc'[c] = next /\ request'[c] = r
          /\ \A n \in Modalities \ {m} : hits'[c][n] = hits[c][n]
      BY <1>2, <1>6 DEF Search, Goto
    <2>2. \/ m \notin Range(r.modalities) /\ hits'[c] = hits[c] /\ warned'[c] = warned[c]
          \/ /\ m \in Range(r.modalities) /\ hits'[c][m] = Found(m, r)
             /\ warned'[c] = warned[c]
          \/ m \in Range(r.modalities) /\ hits'[c] = hits[c] /\ warned'[c] = TRUE
      BY <1>2, <1>6 DEF Search
    <2>3. Faithful(Found(m, r), m, r, index, begun)
      BY FoundFaithful
    <2>4. /\ Searched(next) = Searched(p) \cup {m}
          /\ next \in {"search_ocr", "graph"}
      BY <1>6, ModalitiesAre DEF Searched
    <2>5. \A n \in Modalities \ Range(r.modalities) : hits'[c][n] = <<>>
      BY <1>1, <2>1, <2>2 DEF CallFresh
    <2>6. ASSUME HasKey(r), ~warned'[c], NEW n \in Searched(next) \cap Range(r.modalities)
          PROVE  Faithful(hits'[c][n], n, r, index, begun)
      <3>1. ~warned[c]
        BY <2>2, <2>6
      <3>2. CASE n = m
        BY <2>2, <2>3, <2>6, <3>2
      <3>3. CASE n # m
        <4>1. n \in Modalities /\ n \in Searched(p)
          BY <2>4, <2>6, <3>3, ModalitiesAre DEF Searched
        <4>2. QED
          BY <1>1, <1>6, <2>1, <2>6, <3>1, <3>3, <4>1 DEF CallFresh
      <3>4. QED
        BY <3>2, <3>3
    <2>7. QED
      BY <1>1, <2>1, <2>4, <2>5, <2>6 DEF CallFresh
  <1>7. CASE Conclude(c)
    <2>1. /\ pc[c] = "graph" /\ request'[c] = r /\ hits'[c] = NothingFound
          /\ answer'[c] = Fused(hits[c], r.top)
          /\ pc'[c] \in {"write", "done"}
          /\ pc'[c] = "write" => HasKey(r) /\ ~warned'[c]
          /\ warned[c] => warned'[c]
      BY <1>2, <1>7 DEF Conclude, Goto
    <2>2. ASSUME HasKey(r), ~warned'[c]
          PROVE  Correct(answer'[c], r, index, begun)
      <3>1. \A m \in Modalities \cap Range(r.modalities) :
                Faithful(hits[c][m], m, r, index, begun)
        BY <1>1, <2>1, <2>2 DEF CallFresh, Searched
      <3>2. \A m \in Modalities \ Range(r.modalities) : hits[c][m] = <<>>
        BY <1>1 DEF CallFresh
      <3>3. QED
        BY <1>2, <2>1, <3>1, <3>2, FusedCorrect
    <2>3. QED
      BY <1>1, <1>3, <2>1, <2>2 DEF CallFresh, Searched
  <1>8. CASE Write(c)
    <2>1. /\ pc[c] = "write" /\ pc'[c] = "done" /\ request'[c] = r /\ hits'[c] = hits[c]
          /\ warned'[c] = warned[c]
      BY <1>2, <1>8 DEF Write, Goto
    <2>2. QED
      BY <1>1, <2>1 DEF CallFresh, Searched
  <1>9. CASE Leave(c)
    <2>1. pc'[c] = "idle" /\ request'[c] = NoRequest /\ hits'[c] = NothingFound
      BY <1>2, <1>9 DEF Leave, Goto
    <2>2. ~HasKey(NoRequest)
      BY DEF HasKey, NoRequest
    <2>3. QED
      BY <1>3, <2>1, <2>2 DEF CallFresh
  <1>10. QED
    BY <1>4, <1>5, <1>6, <1>7, <1>8, <1>9, ModalitiesAre
    DEF Step, SearchTranscript, SearchOcr

LEMMA FreshCache ==
    ASSUME Types, Fresh, NEW c, (c \in Calls /\ Step(c)) \/ Expire \/ Damage
    PROVE  \A key \in DOMAIN cache' : EntryFresh(key, cache'[key], index, begun, revision)
  <1> DEFINE Good(key, value) == EntryFresh(key, value, index, begun, revision)
             AllGood(f) == \A key \in DOMAIN f : Good(key, f[key])
  <1>1. \A key \in DOMAIN cache : Good(key, cache[key])
    BY DEF Fresh, CacheFresh
  <1>2. ASSUME NEW key PROVE AllGood(WithoutKey(key))
    BY <1>1 DEF WithoutKey
  <1>3. CASE Expire \/ (c \in Calls /\ Discard(c))
    BY <1>1, <1>2, <1>3 DEF Expire, Discard
  <1>4. CASE Damage
    <2>1. \A key \in DOMAIN cache : Good(key, Corrupt)
      BY <1>1 DEF EntryFresh
    <2>2. QED
      BY <1>1, <1>4, <2>1 DEF Damage
  <1>5. CASE c \in Calls /\ Write(c)
    <2> DEFINE new == KeyFor(request[c])
    <2>1. CallFresh(pc[c], request[c], hits[c], warned[c], answer[c], index, begun, revision)
      BY <1>5 DEF Fresh, CallsFresh
    <2>2. Good(new, answer[c])
      <3>1. pc[c] = "write"
        BY <1>5 DEF Write
      <3>2. HasKey(request[c]) /\ Known(request[c], revision)
        BY <2>1, <3>1 DEF CallFresh
      <3>3. Correct(answer[c], request[c], index, begun)
        BY <2>1, <3>1, <3>2 DEF CallFresh
      <3>4. QED
        BY <3>2, <3>3, KeyFacts DEF EntryFresh
    <2>3. \/ cache' = cache
          \/ cache' = [k \in DOMAIN cache \cup {new} |-> IF k = new THEN answer[c] ELSE cache[k]]
      BY <1>5 DEF Write
    <2> HIDE DEF new, Good
    <2>4. QED
      BY <1>1, <2>2, <2>3 DEF Good
  <1>6. CASE UNCHANGED cache
    BY <1>1, <1>6
  <1>7. QED
    BY <1>3, <1>4, <1>5, <1>6
    DEF Step, Ask, Read, SearchTranscript, SearchOcr, Search, Conclude, Leave

LEMMA FreshStep == Types /\ Fresh /\ [Next]_vars => Fresh'
  <1> SUFFICES ASSUME Types, Fresh, [Next]_vars PROVE Fresh'
    OBVIOUS
  <1>1. Published'
    BY PublishedStep DEF Fresh
  <1>2. ASSUME NEW u \in Media, Ingest(u) PROVE CallsFresh' /\ CacheFresh'
    BY <1>2, FreshIngest
  <1>3. ASSUME NEW c \in Calls, Step(c) PROVE CallsFresh' /\ CacheFresh'
    <2>1. OnlyOf(c)
      BY <1>3, StepIsOf
    <2>2. ASSUME NEW d \in Calls
          PROVE  CallFresh(pc'[d], request'[d], hits'[d], warned'[d], answer'[d],
                           index, begun, revision)
      <3>1. CASE d = c
        BY <1>3, <3>1, FreshCall
      <3>2. CASE d # c
        BY <2>1, <3>2 DEF OnlyOf, Fresh, CallsFresh
      <3>3. QED
        BY <3>1, <3>2
    <2>3. \A key \in DOMAIN cache' : EntryFresh(key, cache'[key], index, begun, revision)
      BY <1>3, FreshCache
    <2>4. QED
      BY <2>1, <2>2, <2>3 DEF OnlyOf, ingestion, CallsFresh, CacheFresh
  <1>4. ASSUME UNCHANGED <<ingestion, calls>> PROVE CallsFresh'
    <2>1. UNCHANGED <<index, begun, revision, pc, request, hits, warned, answer>>
      BY <1>4 DEF ingestion, calls
    <2>2. CallsFresh
      BY DEF Fresh
    <2>3. QED
      BY <2>1, <2>2 DEF CallsFresh
  <1>5. CASE Expire \/ Damage
    <2>1. UNCHANGED <<index, begun, revision>> /\ CallsFresh'
      BY <1>4, <1>5 DEF Expire, Damage, ingestion
    <2>2. \A key \in DOMAIN cache' : EntryFresh(key, cache'[key], index, begun, revision)
      BY <1>5, FreshCache
    <2>3. QED
      BY <1>1, <2>1, <2>2 DEF Fresh, CacheFresh
  <1>6. CASE UNCHANGED vars
    <2>1. UNCHANGED <<index, begun, revision, cache>> /\ CallsFresh'
      BY <1>4, <1>6 DEF vars, ingestion
    <2>2. CacheFresh
      BY DEF Fresh
    <2>3. QED
      BY <1>1, <2>1, <2>2 DEF Fresh, CacheFresh
  <1>7. QED
    BY <1>1, <1>2, <1>3, <1>5, <1>6 DEF Next, Fresh

(* What FreshForScope says of one step.                                    *)
FreshAnswers ==
    \A c \in Calls :
        pc'[c] = "done" /\ pc[c] # "done" /\ HasKey(request[c]) /\ ~warned'[c] =>
            /\ \A k \in DOMAIN answer'[c] : answer'[c][k].shot[1] \in request[c].scope
            /\ \A v \in request[c].scope :
                  step[v] = 0 /\ begun[v] = request[c].revisions[v] =>
                      Exact(answer'[c], request[c], v)

(* Whatever calls, ingestions and losses of the cache come between, a call *)
(* that sent the revisions of its scope is answered with media of it only, *)
(* and exactly for those that have not been ingested again since.          *)
THEOREM AnswersAreFresh == Spec => FreshForScope
  <1>1. Types /\ Fresh /\ [Next]_vars => [FreshAnswers]_vars
    <2> SUFFICES ASSUME Types, Fresh, Next, NEW c \in Calls,
                        pc'[c] = "done", pc[c] # "done", HasKey(request[c]), ~warned'[c]
                 PROVE  Correct(answer'[c], request[c], index, begun)
      <3>1. ASSUME NEW c \in Calls, Correct(answer'[c], request[c], index, begun)
            PROVE  /\ \A k \in DOMAIN answer'[c] : answer'[c][k].shot[1] \in request[c].scope
                   /\ \A v \in request[c].scope :
                         step[v] = 0 /\ begun[v] = request[c].revisions[v] =>
                             Exact(answer'[c], request[c], v)
        BY <3>1, ExactIsExact DEF Correct
      <3>2. QED
        BY <3>1 DEF FreshAnswers
    <2> DEFINE r == request[c]
    <2>1. /\ DOMAIN pc = Calls /\ DOMAIN answer = Calls /\ DOMAIN warned = Calls
          /\ hits[c] \in [Modalities -> Listings] /\ r.top \in Nat
      BY DEF Types, IsRequest
    <2>2. CallFresh(pc[c], r, hits[c], warned[c], answer[c], index, begun, revision)
      BY DEF Fresh, CallsFresh
    <2>3. Step(c)
      <3>1. ASSUME NEW d \in Calls \ {c}, Step(d) PROVE FALSE
        BY <3>1, StepIsOf DEF OnlyOf
      <3>2. UNCHANGED pc => FALSE
        OBVIOUS
      <3>3. QED
        BY <3>1, <3>2 DEF Next, Ingest, Expire, Damage, calls
    <2>4. Read(c) \/ Conclude(c) \/ Write(c)
      BY <2>1, <2>3
      DEF Step, Ask, Discard, SearchTranscript, SearchOcr, Search, Leave, Goto
    <2>5. CASE Read(c)
      <3>1. /\ KeyFor(r) \in DOMAIN cache /\ Valid(cache[KeyFor(r)], r)
            /\ answer'[c] = cache[KeyFor(r)]
        BY <2>1, <2>5 DEF Read, Goto
      <3>2. Correct(cache[KeyFor(r)], KeyFor(r), index, begun)
        BY <3>1 DEF Fresh, CacheFresh, EntryFresh, Valid
      <3>3. QED
        BY <3>1, <3>2, KeyFacts
    <2>6. CASE Conclude(c)
      <3>1. pc[c] = "graph" /\ answer'[c] = Fused(hits[c], r.top) /\ ~warned[c]
        BY <2>1, <2>6 DEF Conclude
      <3>2. /\ \A m \in Modalities \cap Range(r.modalities) :
                  Faithful(hits[c][m], m, r, index, begun)
            /\ \A m \in Modalities \ Range(r.modalities) : hits[c][m] = <<>>
        BY <2>2, <3>1 DEF CallFresh, Searched
      <3>3. QED
        BY <2>1, <3>1, <3>2, FusedCorrect
    <2>7. CASE Write(c)
      <3>1. pc[c] = "write" /\ answer'[c] = answer[c] /\ ~warned[c]
        BY <2>7 DEF Write
      <3>2. QED
        BY <2>2, <3>1 DEF CallFresh
    <2>8. QED
      BY <2>4, <2>5, <2>6, <2>7
  <1>2. QED
    BY <1>1, TypesInit, TypesStep, FreshInit, FreshStep, PTL
    DEF Spec, FreshForScope, FreshAnswers

-----------------------------------------------------------------------------
(* Sound.                                                                  *)

(* Whatever is hidden, muted, split or deleted, nothing of a linked pair   *)
(* is heard twice, and a video is silent only when it should be.           *)
THEOREM SoundIsOwnedOnce == EditSpec => []SoundHasOneOwner
  <1> DEFINE groups == ExplicitAudioOwnerGroups(Timeline)
             audio == AudioItems(Timeline)
  <1>1. ASSUME NEW x \in audio
        PROVE  \E p \in Entered(Timeline) :
                  /\ x.id = ItemAt(Timeline, p).id /\ x.group = ItemAt(Timeline, p).group
                  /\ x.owner \in {"audio-item", "embedded-video"}
                  /\ Heard(Timeline, p, x.owner)
    BY DEF AudioItems, AudioItem
  <1>2. ASSUME NEW x \in audio, x.group # None
        PROVE  x.owner = IF x.group \in groups THEN "audio-item" ELSE "embedded-video"
    <2>1. PICK p \in Entered(Timeline) :
              /\ x.group = ItemAt(Timeline, p).group
              /\ x.owner \in {"audio-item", "embedded-video"}
              /\ Heard(Timeline, p, x.owner)
      BY <1>1
    <2>2. CASE x.owner = "audio-item"
      <3>1. ItemAt(Timeline, p).type = "audio" /\ p \in Shown(Timeline)
        BY <2>1, <2>2 DEF Heard, Entered
      <3>2. x.group \in groups
        BY <1>2, <2>1, <3>1 DEF ExplicitAudioOwnerGroups
      <3>3. QED
        BY <2>2, <3>2
    <2>3. CASE x.owner = "embedded-video"
      BY <2>1, <2>3 DEF Heard
    <2>4. QED
      BY <2>1, <2>2, <2>3
  <1>3. ASSUME NEW p \in Entered(Timeline), ItemAt(Timeline, p).type = "video",
               ~Timeline[p[1]].muted
        PROVE  \/ \E x \in audio : x.id = ItemAt(Timeline, p).id
               \/ \E q \in Positions(Timeline) :
                     /\ ~Timeline[q[1]].hidden /\ ItemAt(Timeline, q).type = "audio"
                     /\ ItemAt(Timeline, q).group = ItemAt(Timeline, p).group
    <2>1. CASE ItemAt(Timeline, p).group \in groups
      BY <2>1 DEF ExplicitAudioOwnerGroups, Shown
    <2>2. CASE ItemAt(Timeline, p).group \notin groups
      <3>1. Heard(Timeline, p, "embedded-video")
        BY <1>3, <2>2 DEF Heard
      <3> DEFINE heard == {q \in Entered(Timeline) \X {"audio-item", "embedded-video"} :
                              Heard(Timeline, q[1], q[2])}
                 r == <<p, "embedded-video">>
      <3>2. r \in heard /\ r[1] = p
        BY <3>1
      <3>3. \A q \in heard : AudioItem(ItemAt(Timeline, q[1]), q[2]) \in audio
        BY DEF AudioItems
      <3>4. \A it, owner : AudioItem(it, owner).id = it.id
        BY DEF AudioItem
      <3> HIDE DEF heard, r, audio
      <3>5. QED
        BY <3>2, <3>3, <3>4
    <2>3. QED
      BY <2>1, <2>2
  <1>4. SoundHasOneOwner
    BY <1>2, <1>3 DEF SoundHasOneOwner
  <1>5. QED
    BY <1>4, PTL

-----------------------------------------------------------------------------
(* Numbers.                                                                *)

OnGrid(t) == \E k \in Int : t = k * Grain

LEMMA GridIsModulo == \A t \in Int : t % Grain = 0 <=> OnGrid(t)
  <1>1. Grain \in Nat \ {0}
    BY NumberAssumption
  <1>2. ASSUME NEW t \in Int, t % Grain = 0 PROVE OnGrid(t)
    <2>1. t = Grain * (t \div Grain) /\ t \div Grain \in Int
      BY <1>1, <1>2
    <2>2. QED
      BY <1>1, <2>1 DEF OnGrid
  <1>3. ASSUME NEW k \in Int PROVE (k * Grain) % Grain = 0
    BY <1>1
  <1>4. QED
    BY <1>2, <1>3 DEF OnGrid

LEMMA GridFacts ==
    /\ OnGrid(0) /\ OnGrid(One) /\ OnGrid(Grain)
    /\ \A s, t \in Int : OnGrid(s) /\ OnGrid(t) =>
          /\ OnGrid(s + t) /\ OnGrid(s - t)
          /\ s < t => s + Grain <= t
  <1>1. Grain \in Nat \ {0} /\ One \in Nat /\ One % Grain = 0
    BY NumberAssumption
  <1>2. OnGrid(0) /\ OnGrid(One)
    BY <1>1, GridIsModulo DEF OnGrid
  <1>3. OnGrid(Grain)
    BY <1>1 DEF OnGrid
  <1>4. ASSUME NEW s \in Int, NEW t \in Int, OnGrid(s), OnGrid(t)
        PROVE  OnGrid(s + t) /\ OnGrid(s - t) /\ (s < t => s + Grain <= t)
    <2>1. PICK j \in Int, k \in Int : s = j * Grain /\ t = k * Grain
      BY <1>4 DEF OnGrid
    <2>2. s + t = (j + k) * Grain /\ s - t = (j - k) * Grain
      BY <1>1, <2>1
    <2>3. ASSUME s < t PROVE s + Grain <= t
      <3>1. j + 1 <= k
        <4>1. SUFFICES ASSUME k <= j PROVE FALSE
          OBVIOUS
        <4>2. k * Grain <= j * Grain
          BY <1>1, <4>1
        <4>3. QED
          BY <1>1, <2>1, <2>3, <4>2
      <3>2. (j + 1) * Grain <= k * Grain
        BY <1>1, <3>1
      <3>3. QED
        BY <1>1, <2>1, <3>2
    <2>4. QED
      BY <2>1, <2>2, <2>3 DEF OnGrid
  <1>5. QED
    BY <1>2, <1>3, <1>4

(* Rounding is to the grid, and at most half a step from n / d.            *)
LEMMA RoundRatioFacts ==
    ASSUME NEW n \in Int, NEW d \in Nat \ {0}
    PROVE  /\ RoundRatio(n, d) \in Int /\ OnGrid(RoundRatio(n, d))
           /\ 2 * (d * RoundRatio(n, d)) <= 2 * n + d * Grain
           /\ 2 * n <= 2 * (d * RoundRatio(n, d)) + d * Grain
  <1> DEFINE unit == d * Grain
             low == n \div unit
             r == n % unit
  <1>1. Grain \in Nat \ {0} /\ unit \in Nat \ {0}
    BY NumberAssumption
  <1>2. low \in Int /\ r \in 0..(unit - 1) /\ n = unit * low + r
    BY <1>1
  <1>3. PICK k \in {low, low + 1} :
            /\ RoundRatio(n, d) = Grain * k
            /\ k = low => 2 * r <= unit
            /\ k = low + 1 => 2 * r >= unit
    <2>1. RoundRatio(n, d) =
             Grain * IF 2 * r < unit \/ (2 * r = unit /\ low % 2 = 0) THEN low ELSE low + 1
      BY DEF RoundRatio
    <2> HIDE DEF unit, low, r
    <2>2. 2 * r \in Int /\ unit \in Int
      BY <1>1, <1>2
    <2>3. QED
      BY <1>2, <2>1, <2>2
  <1>4. d * (Grain * k) = unit * k /\ d * Grain = unit
    BY <1>1, <1>2
  <1> HIDE DEF unit, low, r
  <1>5. unit * (low + 1) = unit * low + unit
    BY <1>1, <1>2
  <1>6. /\ 2 * (unit * k) <= 2 * n + unit
        /\ 2 * n <= 2 * (unit * k) + unit
    <2> DEFINE u == unit * low
    <2>1. u \in Int /\ n = u + r /\ unit * (low + 1) = u + unit /\ r \in Int /\ unit \in Int
      BY <1>1, <1>2, <1>5
    <2> HIDE DEF u
    <2>2. CASE k = low
      <3>1. 2 * r <= unit /\ unit * k = u
        BY <1>3, <2>2 DEF u
      <3>2. QED
        BY <1>1, <1>2, <2>1, <3>1
    <2>3. CASE k = low + 1
      <3>1. 2 * r >= unit /\ unit * k = u + unit
        BY <1>3, <2>1, <2>3
      <3>2. QED
        BY <1>1, <1>2, <2>1, <3>1
    <2>4. QED
      BY <2>2, <2>3
  <1>7. RoundRatio(n, d) \in Int /\ OnGrid(RoundRatio(n, d))
    BY <1>1, <1>2, <1>3 DEF OnGrid
  <1>8. QED
    BY <1>3, <1>4, <1>6, <1>7

(* Rounding keeps what is on the grid, and does not cross it.              *)
LEMMA RoundTimeFacts ==
    ASSUME NEW t \in Int
    PROVE  /\ RoundTime(t) \in Int /\ OnGrid(RoundTime(t))
           /\ OnGrid(t) => RoundTime(t) = t
           /\ 2 * RoundTime(t) <= 2 * t + Grain /\ 2 * t <= 2 * RoundTime(t) + Grain
           /\ \A s \in Int : OnGrid(s) =>
                 (s <= t => s <= RoundTime(t)) /\ (t <= s => RoundTime(t) <= s)
  <1> DEFINE u == RoundTime(t)
  <1>1. Grain \in Nat \ {0}
    BY NumberAssumption
  <1>2. /\ u \in Int /\ OnGrid(u)
        /\ 2 * u <= 2 * t + Grain /\ 2 * t <= 2 * u + Grain
    <2>1. RoundTime(t) = RoundRatio(t, 1)
      BY DEF RoundTime
    <2> DEFINE v == RoundRatio(t, 1)
    <2>2. /\ v \in Int /\ OnGrid(v)
          /\ 2 * (1 * v) <= 2 * t + 1 * Grain
          /\ 2 * t <= 2 * (1 * v) + 1 * Grain
      BY RoundRatioFacts
    <2> HIDE DEF v
    <2>3. 1 * v = v /\ 1 * Grain = Grain
      BY <1>1, <2>2
    <2>4. QED
      BY <2>1, <2>2, <2>3 DEF v
  <1> HIDE DEF u
  <1>3. ASSUME NEW s \in Int, OnGrid(s)
        PROVE  (s <= t => s <= u) /\ (t <= s => u <= s)
    <2>1. /\ u < s => u + Grain <= s
          /\ s < u => s + Grain <= u
      BY <1>2, <1>3, GridFacts
    <2>2. QED
      BY <1>1, <1>2, <1>3, <2>1
  <1>4. OnGrid(t) => u = t
    BY <1>2, <1>3
  <1>5. QED
    BY <1>2, <1>3, <1>4 DEF u

LEMMA RoundNatFacts == \A t \in Nat : RoundTime(t) \in Nat
  <1> SUFFICES ASSUME NEW t \in Nat PROVE RoundTime(t) \in Nat
    OBVIOUS
  <1>1. t \in Int /\ 0 <= t /\ 0 \in Int /\ OnGrid(0)
    BY GridFacts
  <1>2. RoundTime(t) \in Int
    BY <1>1, RoundTimeFacts
  <1>3. 0 <= RoundTime(t)
    BY <1>1, RoundTimeFacts
  <1>4. QED
    BY <1>2, <1>3

-----------------------------------------------------------------------------
(* Documents.                                                              *)

LEMMA PositionFacts ==
    ASSUME NEW tracks \in Seq(Track)
    PROVE  /\ \A p \in Positions(tracks) :
                 /\ p = <<p[1], p[2]>>
                 /\ p[1] \in 1..Len(tracks) /\ tracks[p[1]] \in Track
                 /\ p[2] \in 1..Len(tracks[p[1]].items)
                 /\ ItemAt(tracks, p) \in Item
           /\ \A t \in 1..Len(tracks) : \A i \in 1..Len(tracks[t].items) :
                 <<t, i>> \in Positions(tracks)
  <1>1. \A t \in 1..Len(tracks) : tracks[t] \in Track
    OBVIOUS
  <1>2. \A t \in 1..Len(tracks) : tracks[t].items \in Seq(Item)
    BY <1>1 DEF Track
  <1>3. ASSUME NEW p \in Positions(tracks)
        PROVE  /\ p = <<p[1], p[2]>>
               /\ p[1] \in 1..Len(tracks) /\ p[2] \in 1..Len(tracks[p[1]].items)
    <2>1. PICK t \in 1..Len(tracks) : \E i \in DOMAIN tracks[t].items : p = <<t, i>>
      BY DEF Positions
    <2>2. QED
      BY <1>2, <2>1
  <1>4. ASSUME NEW t \in 1..Len(tracks), NEW i \in 1..Len(tracks[t].items)
        PROVE  <<t, i>> \in Positions(tracks)
    BY <1>2 DEF Positions
  <1>5. QED
    BY <1>1, <1>2, <1>3, <1>4 DEF ItemAt

LEMMA PositionsFinite ==
    ASSUME NEW tracks \in Seq(Track)
    PROVE  IsFiniteSet(Positions(tracks))
  <1> DEFINE P(t) == {<<t, i>> : i \in DOMAIN tracks[t].items}
             all == {P(t) : t \in DOMAIN tracks}
  <1>1. ASSUME NEW t \in 1..Len(tracks) PROVE IsFiniteSet(P(t))
    <2> DEFINE n == Len(tracks[t].items)
               f == [i \in 1..n |-> <<t, i>>]
    <2>1. tracks[t] \in Track
      OBVIOUS
    <2>2. tracks[t].items \in Seq(Item)
      BY <2>1 DEF Track
    <2>3. DOMAIN tracks[t].items = 1..n /\ n \in Nat
      BY <2>2
    <2>4. f \in Surjection(1..n, P(t))
      BY <2>3 DEF Surjection
    <2>5. IsFiniteSet(1..n)
      <3> HIDE DEF n
      <3>1. QED
        BY <2>3, FS_Interval
    <2> HIDE DEF f, n, P
    <2>6. QED
      BY <2>4, <2>5, FS_Surjection
  <1>2. IsFiniteSet(all)
    <2> DEFINE n == Len(tracks)
               f == [t \in 1..n |-> P(t)]
    <2>1. DOMAIN tracks = 1..n /\ n \in Nat
      OBVIOUS
    <2>2. f \in Surjection(1..n, all)
      BY <2>1 DEF Surjection
    <2>3. IsFiniteSet(1..n)
      <3> HIDE DEF n
      <3>1. QED
        BY <2>1, FS_Interval
    <2> HIDE DEF f, n, P, all
    <2>4. QED
      BY <2>2, <2>3, FS_Surjection
  <1>3. Positions(tracks) = UNION all
    BY DEF Positions
  <1>4. \A T \in all : IsFiniteSet(T)
    <2> HIDE DEF P
    <2>1. QED
      BY <1>1
  <1> HIDE DEF all
  <1>5. QED
    BY <1>2, <1>3, <1>4, FS_UNION

(* One item in the place of another, and one after it.                     *)
Inserted(new, items, k, a, b) ==
    /\ new \in Seq(Item) /\ Len(new) = Len(items) + 1
    /\ \A i \in 1..Len(new) :
          new[i] = IF i < k THEN items[i]
                   ELSE IF i = k THEN a
                   ELSE IF i = k + 1 THEN b ELSE items[i - 1]

LEMMA InsertFacts ==
    ASSUME NEW items \in Seq(Item), NEW k \in 1..Len(items), NEW a \in Item, NEW b \in Item
    PROVE  Inserted(InsertAt([items EXCEPT ![k] = a], k + 1, b), items, k, a, b)
  <1> DEFINE s == [items EXCEPT ![k] = a]
             n == Len(items)
             new == InsertAt(s, k + 1, b)
  <1>1. /\ s \in Seq(Item) /\ Len(s) = n /\ n \in Nat /\ k \in Nat
        /\ \A i \in 1..n : s[i] = IF i = k THEN a ELSE items[i]
    OBVIOUS
  <1> HIDE DEF s, n
  <1>2. new = (SubSeq(s, 1, k) \o <<b>>) \o SubSeq(s, k + 1, n)
    <2>1. new = SubSeq(s, 1, (k + 1) - 1) \o <<b>> \o SubSeq(s, k + 1, Len(s))
      BY DEF InsertAt
    <2>2. (k + 1) - 1 = k
      BY <1>1
    <2>3. QED
      BY <1>1, <2>1, <2>2
  <1> DEFINE u == SubSeq(s, 1, k)
             v == SubSeq(s, k + 1, n)
  <1> HIDE DEF new
  <1>3. k \in 1..n
    BY DEF n
  <1>4. \A i \in 1..n : s[i] \in Item
    BY <1>1
  <1>5. /\ u \in Seq(Item) /\ Len(u) = k
        /\ \A i \in 1..k : u[i] = s[i]
    <2>1. \A i \in 1..k : s[i] \in Item
      BY <1>1, <1>3, <1>4
    <2>2. /\ SubSeq(s, 1, k) \in Seq(Item)
          /\ Len(SubSeq(s, 1, k)) = IF 1 <= k THEN k - 1 + 1 ELSE 0
          /\ \A i \in 1..(k - 1 + 1) : SubSeq(s, 1, k)[i] = s[1 + i - 1]
      BY <1>1, <2>1, SubSeqProperties
    <2> HIDE DEF u
    <2>3. \A i \in 1..k : 1 + i - 1 = i
      BY <1>1
    <2>4. 1 <= k /\ k - 1 + 1 = k
      BY <1>1, <1>3
    <2>5. QED
      BY <2>2, <2>3, <2>4 DEF u
  <1>6. /\ v \in Seq(Item) /\ Len(v) = n - k
        /\ \A i \in 1..(n - k) : v[i] = s[k + i]
    <2>1. \A i \in (k + 1)..n : s[i] \in Item
      BY <1>1, <1>3, <1>4
    <2>2. /\ SubSeq(s, k + 1, n) \in Seq(Item)
          /\ Len(SubSeq(s, k + 1, n)) = IF k + 1 <= n THEN n - (k + 1) + 1 ELSE 0
          /\ \A i \in 1..(n - (k + 1) + 1) : SubSeq(s, k + 1, n)[i] = s[(k + 1) + i - 1]
      <3>1. k + 1 \in Int /\ n \in Int
        BY <1>1
      <3>2. QED
        BY <2>1, <3>1, SubSeqProperties
    <2> HIDE DEF v
    <2>3. /\ \A i \in 1..(n - k) : (k + 1) + i - 1 = k + i
          /\ n - (k + 1) + 1 = n - k
          /\ (IF k + 1 <= n THEN n - (k + 1) + 1 ELSE 0) = n - k
      BY <1>1, <1>3
    <2>4. QED
      BY <2>2, <2>3 DEF v
  <1>7. new = (u \o <<b>>) \o v
    BY <1>2
  <1> HIDE DEF u, v
  <1> DEFINE w == u \o <<b>>
  <1>8. /\ w \in Seq(Item) /\ Len(w) = k + 1
        /\ \A i \in 1..(k + 1) : w[i] = IF i <= k THEN u[i] ELSE b
    <2>1. <<b>> \in Seq(Item) /\ Len(<<b>>) = 1 /\ <<b>>[1] = b
      OBVIOUS
    <2>2. /\ w \in Seq(Item) /\ Len(w) = k + 1
          /\ \A i \in 1..(k + 1) : w[i] = IF i <= k THEN u[i] ELSE <<b>>[i - k]
      BY <1>5, <2>1, ConcatProperties
    <2> HIDE DEF w
    <2>3. \A i \in 1..(k + 1) : ~(i <= k) => i - k = 1
      BY <1>1
    <2>4. QED
      BY <2>1, <2>2, <2>3
  <1>9. new = w \o v
    BY <1>7
  <1> HIDE DEF w
  <1>10. /\ new \in Seq(Item) /\ Len(new) = n + 1
         /\ \A i \in 1..(n + 1) : new[i] = IF i <= k + 1 THEN w[i] ELSE v[i - (k + 1)]
    <2>1. (k + 1) + (n - k) = n + 1
      BY <1>1
    <2>2. /\ w \o v \in Seq(Item) /\ Len(w \o v) = Len(w) + Len(v)
          /\ \A i \in 1..(Len(w) + Len(v)) :
                (w \o v)[i] = IF i <= Len(w) THEN w[i] ELSE v[i - Len(w)]
      BY <1>6, <1>8, ConcatProperties
    <2>3. Len(w) + Len(v) = n + 1 /\ Len(w) = k + 1
      BY <1>6, <1>8, <2>1
    <2>4. QED
      BY <1>9, <2>2, <2>3
  <1>11. ASSUME NEW i \in 1..(n + 1)
         PROVE  new[i] = IF i < k THEN items[i]
                         ELSE IF i = k THEN a
                         ELSE IF i = k + 1 THEN b ELSE items[i - 1]
    <2>1. i \in Int /\ k \in Int /\ n \in Int /\ 1 <= i /\ i <= n + 1 /\ k <= n
      BY <1>1, <1>3
    <2>2. CASE i <= k
      <3>1. i \in 1..(k + 1) /\ i \in 1..k /\ i \in 1..n /\ i <= k + 1
        BY <2>1, <2>2
      <3>2. new[i] = s[i]
        BY <1>5, <1>8, <1>10, <2>2, <3>1
      <3>3. QED
        BY <1>1, <2>1, <2>2, <3>1, <3>2
    <2>3. CASE i = k + 1
      <3>1. i \in 1..(k + 1) /\ ~(i <= k) /\ i <= k + 1 /\ ~(i < k) /\ i # k
        BY <1>3, <2>1, <2>3
      <3>2. new[i] = b
        BY <1>8, <1>10, <3>1
      <3>3. QED
        BY <2>3, <3>1, <3>2
    <2>4. CASE i > k + 1
      <3>1. i - (k + 1) \in 1..(n - k) /\ ~(i <= k + 1) /\ k + (i - (k + 1)) = i - 1
        BY <2>1, <2>4
      <3>2. new[i] = s[i - 1]
        BY <1>6, <1>10, <3>1
      <3>3. i - 1 \in 1..n /\ i - 1 # k /\ ~(i < k) /\ i # k /\ i # k + 1
        BY <1>3, <2>1, <2>4
      <3>4. QED
        BY <1>1, <3>2, <3>3
    <2>5. QED
      BY <2>1, <2>2, <2>3, <2>4
  <1>12. Inserted(new, items, k, a, b)
    BY <1>10, <1>11 DEF Inserted, n
  <1>13. QED
    BY <1>12 DEF new, s

(* What is left keeps its order: it is where an ordered list of places is. *)
KeptOf(new, items) ==
    /\ new \in Seq(Item)
    /\ \E at \in [1..Len(new) -> 1..Len(items)] :
          /\ \A i \in 1..Len(new) : new[i] = items[at[i]]
          /\ \A i, j \in 1..Len(new) : at[i] = at[j] => i = j

LEMMA WithoutFacts ==
    ASSUME NEW items \in Seq(Item), NEW ids
    PROVE  KeptOf(Without(items, ids), items)
  <1> DEFINE kept == {i \in DOMAIN items : items[i].id \notin ids}
             less == {p \in kept \X kept : p[1] < p[2]}
             order == Sorted(kept, less, Len(items))
             new == Without(items, ids)
  <1>1. new = [k \in DOMAIN order |-> items[order[k]]]
    BY DEF Without
  <1>2. kept \subseteq 1..Len(items) /\ Len(items) \in Nat
    OBVIOUS
  <1>3. IsFiniteSet(kept)
    <2>1. IsFiniteSet(1..Len(items))
      BY <1>2, FS_Interval
    <2> HIDE DEF kept
    <2>2. QED
      BY <1>2, <2>1, FS_Subset
  <1>4. Ordered(kept, less)
    BY DEF Ordered
  <1>5. Lists(order, kept, less, Len(items))
    <2> HIDE DEF kept, less
    <2>1. QED
      BY <1>2, <1>3, <1>4, SortedFacts
  <1> HIDE DEF kept, less, order, new
  <1>6. PICK n \in 0..Cardinality(kept) :
            /\ order \in [1..n -> kept]
            /\ \A k \in 1..n : Place(kept, less, order[k]) = k
    BY <1>5 DEF Lists
  <1>7. n \in Nat
    BY <1>3, <1>6, FS_CardinalityType
  <1>8. /\ new \in Seq(Item) /\ Len(new) = n
        /\ \A i \in 1..n : new[i] = items[order[i]]
    <2>1. new = [k \in 1..n |-> items[order[k]]]
      BY <1>1, <1>6
    <2>2. \A k \in 1..n : order[k] \in 1..Len(items)
      BY <1>2, <1>6
    <2>3. \A k \in 1..Len(items) : items[k] \in Item
      OBVIOUS
    <2>4. \A k \in 1..n : items[order[k]] \in Item
      BY <2>2, <2>3
    <2>5. QED
      BY <1>7, <2>1, <2>4
  <1>9. order \in [1..n -> 1..Len(items)] /\ \A i, j \in 1..n : order[i] = order[j] => i = j
    BY <1>2, <1>6
  <1>10. KeptOf(new, items)
    BY <1>8, <1>9 DEF KeptOf
  <1>11. QED
    BY <1>10 DEF new

Distinct(tracks) ==
    \A p, q \in Positions(tracks) : ItemAt(tracks, p).id = ItemAt(tracks, q).id => p = q

(* What the renderer reads of a media item is there.                       *)
Complete(item) ==
    HasSource(item) =>
        item.in \in Int /\ item.out \in Int /\ (item.type = "video" => item.speed \in Int)

(* A document with ids up to last.                                         *)
Typed(tracks, last) ==
    /\ tracks \in Seq(Track) /\ tracks # <<>>
    /\ Distinct(tracks)
    /\ \A p \in Positions(tracks) :
          LET item == ItemAt(tracks, p) IN
          /\ item.id <= last
          /\ Complete(item)
          /\ item.type = "video" => tracks[p[1]].kind = "video"

(* Only the items of one track are others.                                 *)
Replaced(new, old, t, items) ==
    /\ new \in Seq(Track) /\ Len(new) = Len(old)
    /\ \A u \in 1..Len(old) :
          /\ new[u].kind = old[u].kind
          /\ u # t => new[u] = old[u]
    /\ new[t].items = items

LEMMA ReplaceFacts ==
    ASSUME NEW old \in Seq(Track), NEW t \in 1..Len(old), NEW items \in Seq(Item)
    PROVE  Replaced([old EXCEPT ![t].items = items], old, t, items)
  <1> DEFINE new == [old EXCEPT ![t].items = items]
  <1> DEFINE track == [old[t] EXCEPT !.items = items]
  <1>1. \A u \in 1..Len(old) : old[u] \in Track
    OBVIOUS
  <1>2. ASSUME NEW tr \in Track
        PROVE  LET x == [tr EXCEPT !.items = items]
               IN  x \in Track /\ x.kind = tr.kind /\ x.items = items
    BY DEF Track
  <1>3. track \in Track /\ track.kind = old[t].kind /\ track.items = items
    BY <1>1, <1>2
  <1>4. new = [old EXCEPT ![t] = track]
    OBVIOUS
  <1> HIDE DEF track
  <1>5. /\ new \in Seq(Track) /\ Len(new) = Len(old)
        /\ \A u \in 1..Len(old) : new[u] = IF u = t THEN track ELSE old[u]
    <2>1. /\ [old EXCEPT ![t] = track] \in Seq(Track)
          /\ Len([old EXCEPT ![t] = track]) = Len(old)
          /\ \A u \in 1..Len(old) :
                [old EXCEPT ![t] = track][u] = IF u = t THEN track ELSE old[u]
      BY <1>3, ExceptSeq
    <2>2. QED
      BY <1>4, <2>1
  <1> HIDE DEF new
  <1>6. Replaced(new, old, t, items)
    BY <1>3, <1>5 DEF Replaced
  <1>7. QED
    BY <1>6 DEF new

(* Ids stay distinct if each track keeps its own, and a fresh one comes to *)
(* one track.                                                              *)
KeepsIds(new, old, fresh, at) ==
    /\ \A p \in Positions(old) : ItemAt(old, p).id # fresh
    /\ \A t \in 1..Len(new) : \A i, j \in 1..Len(new[t].items) :
          new[t].items[i].id = new[t].items[j].id => i = j
    /\ \A q \in Positions(new) :
          \/ ItemAt(new, q).id = fresh /\ q[1] = at
          \/ \E p \in Positions(old) :
                p[1] = q[1] /\ ItemAt(old, p).id = ItemAt(new, q).id

LEMMA StaysDistinct ==
    ASSUME NEW old \in Seq(Track), NEW new \in Seq(Track), Distinct(old), NEW fresh, NEW at,
           KeepsIds(new, old, fresh, at)
    PROVE  Distinct(new)
  <1> USE DEF KeepsIds
  <1> SUFFICES ASSUME NEW q \in Positions(new), NEW r \in Positions(new),
                      ItemAt(new, q).id = ItemAt(new, r).id
               PROVE  q = r
    BY DEF Distinct
  <1>1. q[1] = r[1]
    <2>1. CASE ItemAt(new, q).id = fresh
      BY <2>1
    <2>2. CASE ItemAt(new, q).id # fresh
      <3>1. PICK p \in Positions(old) :
                p[1] = q[1] /\ ItemAt(old, p).id = ItemAt(new, q).id
        BY <2>2
      <3>2. PICK s \in Positions(old) :
                s[1] = r[1] /\ ItemAt(old, s).id = ItemAt(new, r).id
        BY <2>2
      <3>3. p = s
        BY <3>1, <3>2 DEF Distinct
      <3>4. QED
        BY <3>1, <3>2, <3>3
    <2>3. QED
      BY <2>1, <2>2
  <1>2. q[2] = r[2]
    <2>1. /\ q[1] \in 1..Len(new)
          /\ q[2] \in 1..Len(new[q[1]].items) /\ r[2] \in 1..Len(new[r[1]].items)
      BY PositionFacts
    <2>2. new[q[1]].items[q[2]].id = new[q[1]].items[r[2]].id
      BY <1>1 DEF ItemAt
    <2>3. QED
      BY <1>1, <2>1, <2>2
  <1>3. q = <<q[1], q[2]>> /\ r = <<r[1], r[2]>>
    BY PositionFacts
  <1>4. QED
    BY <1>1, <1>2, <1>3

(* The new items of the editor are items.                                  *)
LEMMA TextFacts ==
    ASSUME NEW time \in Int, FreshId \in Nat
    PROVE  TextAt(time) \in Item /\ TextAt(time).id = FreshId
  <1>1. One \in Int /\ "text" \in ItemTypes /\ {"text"} \in SUBSET ItemTypes
    BY NumberAssumption DEF ItemTypes
  <1>2. <<>> \in Seq([time : Int, value : Int]) /\ {} \in SUBSET STRING
    OBVIOUS
  <1>3. QED
    BY <1>1, <1>2 DEF TextAt, Item, Maybe

LEMMA ItemFacts ==
    ASSUME NEW item \in Item, NEW time \in Int, FreshId \in Nat
    PROVE  FirstPart(item, time) \in Item /\ SecondPart(item, time) \in Item
  <1>1. /\ SourceAt(item, time - item.start) \in Maybe(Int)
        /\ time - item.start \in Int /\ item.duration - (time - item.start) \in Int
        /\ item.out = None => item.out \in Maybe(Int)
    <2>1. /\ item.start \in Int /\ item.duration \in Int
          /\ item.in \in Maybe(Int) /\ item.speed \in Maybe(Int)
      BY DEF Item
    <2>2. One \in Nat \ {0}
      BY NumberAssumption
    <2>3. QED
      BY <2>1, <2>2 DEF SourceAt, Speed, Default, Maybe
  <1>2. ASSUME NEW d \in Int, NEW x \in Maybe(Int)
        PROVE  /\ [item EXCEPT !.duration = d, !.out = x] \in Item
               /\ [item EXCEPT !.id = FreshId, !.start = time, !.duration = d, !.in = x] \in Item
    BY DEF Item
  <1>3. FirstPart(item, time) \in Item
    <2> DEFINE d == time - item.start
               x == IF item.out = None THEN None ELSE SourceAt(item, time - item.start)
    <2>1. FirstPart(item, time) = [item EXCEPT !.duration = d, !.out = x]
      BY DEF FirstPart
    <2>2. d \in Int /\ x \in Maybe(Int)
      BY <1>1 DEF Maybe
    <2> HIDE DEF d, x
    <2>3. QED
      BY <1>2, <2>1, <2>2
  <1>4. SecondPart(item, time) \in Item
    <2> DEFINE d == item.duration - (time - item.start)
               x == SourceAt(item, time - item.start)
    <2>1. SecondPart(item, time) =
             [item EXCEPT !.id = FreshId, !.start = time, !.duration = d, !.in = x]
      BY DEF SecondPart
    <2>2. d \in Int /\ x \in Maybe(Int)
      BY <1>1
    <2> HIDE DEF d, x
    <2>3. [item EXCEPT !.id = FreshId, !.start = time, !.duration = d, !.in = x] \in Item
      BY <1>2, <2>2
    <2>4. QED
      BY <2>1, <2>3
  <1>5. QED
    BY <1>3, <1>4

-----------------------------------------------------------------------------
(* Plans.                                                                  *)

TargetVerbs == {"trim_from", "trim_to", "split_at", "move", "delete", "speed", "volume"}

(* What a command is made of.                                              *)
WellFormed(command) ==
    /\ command.verb \in TargetVerbs \cup {"add_text_at", "split_here", "add_text"}
    /\ command.verb \in TargetVerbs => command.target \in Targets
    /\ command.verb = "trim_from" =>
          {command.from, command.to} \subseteq Times \cap Numbers(command)
    /\ command.verb \in {"trim_to", "split_at", "move", "add_text_at"} =>
          command.time \in Times \cap Numbers(command)
    /\ command.verb = "speed" => command.rate \in Rates \cap Numbers(command)
    /\ command.verb = "volume" => command.volume \in Rates
    /\ command.verb = "split_here" => FrameTicks \in Numbers(command)

LEMMA CommandFacts == \A command \in Commands : WellFormed(command)
  <1>1. ASSUME NEW t \in Targets, NEW a \in Times, NEW b \in Times
        PROVE  WellFormed([verb |-> "trim_from", target |-> t, from |-> a, to |-> b])
    BY DEF WellFormed, TargetVerbs, Numbers
  <1>2. ASSUME NEW v \in {"trim_to", "split_at", "move"}, NEW t \in Targets, NEW a \in Times
        PROVE  WellFormed([verb |-> v, target |-> t, time |-> a])
    BY DEF WellFormed, TargetVerbs, Numbers
  <1>3. ASSUME NEW t \in Targets
        PROVE  WellFormed([verb |-> "delete", target |-> t])
    BY DEF WellFormed, TargetVerbs, Numbers
  <1>4. ASSUME NEW t \in Targets, NEW r \in Rates
        PROVE  /\ WellFormed([verb |-> "speed", target |-> t, rate |-> r])
               /\ WellFormed([verb |-> "volume", target |-> t, volume |-> r])
    BY DEF WellFormed, TargetVerbs, Numbers
  <1>5. ASSUME NEW a \in Times
        PROVE  WellFormed([verb |-> "add_text_at", time |-> a])
    BY DEF WellFormed, TargetVerbs, Numbers
  <1>6. ASSUME NEW v \in {"split_here", "add_text"}
        PROVE  WellFormed([verb |-> v])
    BY DEF WellFormed, TargetVerbs, Numbers
  <1> SUFFICES ASSUME NEW command \in Commands PROVE WellFormed(command)
    OBVIOUS
  <1>7. \/ \E t \in Targets, a \in Times, b \in Times :
              command = [verb |-> "trim_from", target |-> t, from |-> a, to |-> b]
        \/ \E v \in {"trim_to", "split_at", "move"}, t \in Targets, a \in Times :
              command = [verb |-> v, target |-> t, time |-> a]
        \/ \E t \in Targets : command = [verb |-> "delete", target |-> t]
        \/ \E t \in Targets, r \in Rates : command = [verb |-> "speed", target |-> t, rate |-> r]
        \/ \E t \in Targets, r \in Rates :
              command = [verb |-> "volume", target |-> t, volume |-> r]
        \/ \E a \in Times : command = [verb |-> "add_text_at", time |-> a]
        \/ \E v \in {"split_here", "add_text"} : command = [verb |-> v]
    BY DEF Commands
  <1>8. QED
    BY <1>1, <1>2, <1>3, <1>4, <1>5, <1>6, <1>7

(* A target is an item of the timeline that fits.                          *)
LEMMA TargetFacts ==
    ASSUME NEW asked, asked.timeline = Timeline, NEW target \in Targets, NEW kind,
           SingleTarget(asked, target, kind) # None
    PROVE  \E p \in Positions(Timeline) :
              /\ SingleTarget(asked, target, kind) = ItemAt(Timeline, p)
              /\ IsCompatible(ItemAt(Timeline, p), kind)
  <1> DEFINE matches == IF target.by = "default" THEN DefaultTargets(asked, kind)
                        ELSE TextTargets(asked, target, kind)
  <1>1. PICK p \in matches : matches = {p}
    BY DEF SingleTarget
  <1>2. SingleTarget(asked, target, kind) = ItemAt(Timeline, p)
    <2> DEFINE M == matches
    <2>1. M = {p}
      BY <1>1
    <2>2. SingleTarget(asked, target, kind) =
             IF \E q \in M : M = {q}
             THEN ItemAt(asked.timeline, CHOOSE q \in M : TRUE) ELSE None
      BY DEF SingleTarget
    <2> HIDE DEF M
    <2>3. (CHOOSE q \in M : TRUE) = p
      BY <2>1
    <2>4. QED
      BY <2>1, <2>2, <2>3
  <1>3. p \in Positions(Timeline) /\ IsCompatible(ItemAt(Timeline, p), kind)
    <2>1. CASE target.by = "default"
      BY <1>1, <2>1 DEF DefaultTargets
    <2>2. CASE target.by = "word"
      BY <1>1, <2>2 DEF TextTargets
    <2>3. CASE target.by = "ordinal"
      BY <1>1, <2>3 DEF TextTargets
    <2>4. QED
      BY <2>1, <2>2, <2>3 DEF Targets
  <1>4. QED
    BY <1>2, <1>3

(* The plans for an item, and what is said of their numbers.               *)
IsTrim(a, item, command) ==
    \E s, e \in Int :
        /\ s < e
        /\ \/ s \in Nat /\ {s, e} \subseteq Numbers(command)
           \/ s = item.start /\ e - s \in Numbers(command)
        /\ a.type = "trim" /\ a.start = RoundTime(s) /\ a.duration = RoundTime(e - s)
        /\ IF HasSource(item)
           THEN LET range == MediaRange(item, s, RoundTime(e - s))
                IN  range # None /\ a.in = range.in /\ a.out = range.out
           ELSE a.in = None /\ a.out = None

IsSplit(a, item, command) ==
    \E t \in Nat \cap Numbers(command) :
        /\ a.type = "split" /\ a.time = RoundTime(t)
        /\ 0 < RoundTime(t - item.start) /\ RoundTime(t - item.start) < item.duration

IsMove(a, item, command) ==
    \E t \in Nat \cap Numbers(command) : a.type = "move" /\ a.start = RoundTime(t)

IsVolume(a, item, command) == a.type = "volume" /\ a.volume \in Int

IsSpeed(a, item, command) ==
    \E r \in Nat \cap Numbers(command) :
        /\ item.type = "video"
        /\ a.type = "speed" /\ 0 < r /\ a.speed = RoundTime(r)

IsPlanFor(a, item, command) ==
    /\ a.id = item.id
    /\ \/ IsTrim(a, item, command) \/ IsSplit(a, item, command) \/ IsMove(a, item, command)
       \/ IsVolume(a, item, command) \/ IsSpeed(a, item, command)

IsPlan(a, command) ==
    \/ a.type = "text" /\ \E t \in Nat : a.start = RoundTime(t)
    \/ a.type = "delete"
    \/ \E p \in Positions(Timeline) : IsPlanFor(a, ItemAt(Timeline, p), command)

LEMMA SplitPlanFacts ==
    ASSUME Timeline \in Seq(Track), NEW asked, asked.timeline = Timeline,
           NEW target \in Targets, NEW command, NEW t \in Nat \cap Numbers(command),
           NEW plan, plan = SplitPlan(asked, target, t), plan.ok
    PROVE  IsPlan(plan.action, command)
  <1> DEFINE item == SingleTarget(asked, target, "any")
             offset == RoundTime(t - item.start)
  <1>1. /\ item # None /\ ~(offset <= 0 \/ offset >= item.duration)
        /\ plan.action = [type |-> "split", id |-> item.id, time |-> RoundTime(t)]
    BY DEF SplitPlan, Refused, Planned
  <1>2. PICK p \in Positions(Timeline) : item = ItemAt(Timeline, p)
    BY <1>1, TargetFacts
  <1>3. item \in Item
    BY <1>2, PositionFacts
  <1>4. item.start \in Int /\ item.duration \in Int
    BY <1>3 DEF Item
  <1>5. offset \in Int
    <2>1. t - item.start \in Int
      BY <1>4
    <2>2. QED
      BY <2>1, RoundTimeFacts
  <1> HIDE DEF item
  <1>6. IsSplit(plan.action, item, command) /\ plan.action.id = item.id
    BY <1>1, <1>4, <1>5 DEF IsSplit
  <1>7. IsPlanFor(plan.action, item, command)
    BY <1>6 DEF IsPlanFor
  <1>8. QED
    BY <1>2, <1>7 DEF IsPlan

LEMMA TrimPlanFacts ==
    ASSUME Timeline \in Seq(Track), NEW asked, asked.timeline = Timeline,
           NEW target \in Targets, NEW command, NEW s \in Int, NEW e \in Int,
           LET item == SingleTarget(asked, target, "any")
           IN  \/ s \in Nat /\ {s, e} \subseteq Numbers(command)
               \/ s = item.start /\ e - s \in Numbers(command),
           NEW plan, plan = TrimPlan(asked, target, s, e), plan.ok
    PROVE  IsPlan(plan.action, command)
  <1> DEFINE item == SingleTarget(asked, target, "any")
             duration == RoundTime(e - s)
             range == MediaRange(item, s, duration)
             trim(r) == [type |-> "trim", id |-> item.id, start |-> RoundTime(s),
                         duration |-> duration, in |-> r.in, out |-> r.out]
  <1>1. /\ item # None /\ ~(e <= s)
        /\ IF ~HasSource(item) THEN plan.action = trim([in |-> None, out |-> None])
           ELSE range # None /\ plan.action = trim(range)
    BY DEF TrimPlan, Refused, Planned
  <1>2. PICK p \in Positions(Timeline) : item = ItemAt(Timeline, p)
    BY <1>1, TargetFacts
  <1>3. \/ s \in Nat /\ {s, e} \subseteq Numbers(command)
        \/ s = item.start /\ e - s \in Numbers(command)
    OBVIOUS
  <1> HIDE DEF item
  <1>4. IsTrim(plan.action, item, command) /\ plan.action.id = item.id
    BY <1>1, <1>3 DEF IsTrim
  <1>5. IsPlanFor(plan.action, item, command)
    BY <1>4 DEF IsPlanFor
  <1>6. QED
    BY <1>2, <1>5 DEF IsPlan

LEMMA PlanFacts ==
    ASSUME Timeline \in Seq(Track), NEW command \in Commands, NEW selected,
           NEW plan, plan = PlanVideoEditor(Request(command, selected)), plan.ok
    PROVE  IsPlan(plan.action, command)
  <1> DEFINE asked == Request(command, selected)
  <1>1. WellFormed(command)
    BY CommandFacts
  <1>2. Times \subseteq Nat /\ Rates \subseteq Nat /\ FrameTicks \in Nat /\ None \notin Int
    BY EditingAssumption, FrameAssumption, NumberAssumption
  <1>3. /\ asked.timeline = Timeline /\ asked.command = command
        /\ Playhead(asked) = FrameTicks
    BY DEF Request, Playhead
  <1>4. ~Refused.ok /\ \A a : Planned(a).action = a
    BY DEF Refused, Planned
  <1>5. [by |-> "default"] \in Targets
    BY DEF Targets
  <1> HIDE DEF asked
  <1>6. CASE command.verb = "split_here"
    <2>1. plan = SplitPlan(asked, [by |-> "default"], FrameTicks)
      BY <1>3, <1>6 DEF PlanVideoEditor, asked
    <2>2. FrameTicks \in Nat \cap Numbers(command)
      BY <1>1, <1>2, <1>6 DEF WellFormed
    <2>3. QED
      BY <1>3, <1>5, <2>1, <2>2, SplitPlanFacts
  <1>7. CASE command.verb = "add_text"
    <2>1. plan = Planned([type |-> "text", start |-> RoundTime(FrameTicks)])
      BY <1>3, <1>7 DEF PlanVideoEditor, asked
    <2>2. QED
      BY <1>2, <1>4, <2>1 DEF IsPlan
  <1>8. CASE command.verb = "add_text_at"
    <2>1. plan = Planned([type |-> "text", start |-> RoundTime(command.time)])
          \/ plan = Refused
      BY <1>3, <1>8 DEF PlanVideoEditor, asked
    <2>2. command.time \in Nat
      BY <1>1, <1>2, <1>8 DEF WellFormed
    <2>3. QED
      BY <1>4, <2>1, <2>2 DEF IsPlan
  <1>9. CASE command.verb = "trim_from"
    <2>1. plan = TrimPlan(asked, command.target, command.from, command.to)
          \/ plan = Refused
      BY <1>3, <1>9 DEF PlanVideoEditor, asked
    <2>2. /\ command.target \in Targets /\ command.from \in Nat /\ command.to \in Nat
          /\ {command.from, command.to} \subseteq Numbers(command)
      BY <1>1, <1>2, <1>9 DEF WellFormed, TargetVerbs
    <2>3. QED
      BY <1>3, <1>4, <2>1, <2>2, TrimPlanFacts
  <1>10. CASE command.verb = "trim_to"
    <2> DEFINE item == SingleTarget(asked, command.target, "any")
    <2>1. /\ command.target \in Targets /\ command.time \in Nat
          /\ command.time \in Numbers(command)
      BY <1>1, <1>2, <1>10 DEF WellFormed, TargetVerbs
    <2>2. plan = Refused \/ (item # None /\
             plan = TrimPlan(asked, command.target, item.start, item.start + command.time))
      BY <1>3, <1>10 DEF PlanVideoEditor, asked
    <2>3. item # None => item \in Item
      BY <1>3, <2>1, TargetFacts, PositionFacts
    <2>4. item \in Item => /\ item.start \in Int /\ item.start + command.time \in Int
                           /\ (item.start + command.time) - item.start = command.time
      BY <2>1 DEF Item
    <2>5. QED
      BY <1>3, <1>4, <2>1, <2>2, <2>3, <2>4, TrimPlanFacts
  <1>11. CASE command.verb = "split_at"
    <2>1. plan = SplitPlan(asked, command.target, command.time) \/ plan = Refused
      BY <1>3, <1>11 DEF PlanVideoEditor, asked
    <2>2. command.target \in Targets /\ command.time \in Nat \cap Numbers(command)
      BY <1>1, <1>2, <1>11 DEF WellFormed, TargetVerbs
    <2>3. QED
      BY <1>3, <1>4, <2>1, <2>2, SplitPlanFacts
  <1>12. CASE command.verb = "delete"
    <2>1. plan = DeletePlan(asked, command.target)
      BY <1>3, <1>12 DEF PlanVideoEditor, asked
    <2> DEFINE ids == IF command.target.by = "default" THEN SelectedTargets(asked)
                      ELSE IF SingleTarget(asked, command.target, "any") = None THEN {}
                      ELSE {SingleTarget(asked, command.target, "any").id}
    <2>2. plan = IF ids = {} THEN Refused ELSE Planned([type |-> "delete", ids |-> ids])
      BY <2>1 DEF DeletePlan
    <2> HIDE DEF ids
    <2>3. plan.action.type = "delete"
      BY <1>4, <2>2
    <2>4. QED
      BY <2>3 DEF IsPlan
  <1>13. CASE command.verb = "move"
    <2> DEFINE item == SingleTarget(asked, command.target, "any")
    <2>1. plan = MovePlan(asked, command.target, command.time) \/ plan = Refused
      BY <1>3, <1>13 DEF PlanVideoEditor, asked
    <2>2. command.target \in Targets /\ command.time \in Nat \cap Numbers(command)
      BY <1>1, <1>2, <1>13 DEF WellFormed, TargetVerbs
    <2>3. /\ item # None
          /\ plan.action = [type |-> "move", id |-> item.id, start |-> RoundTime(command.time)]
      BY <1>4, <2>1 DEF MovePlan, Planned
    <2>4. PICK p \in Positions(Timeline) : item = ItemAt(Timeline, p)
      BY <1>3, <2>2, <2>3, TargetFacts
    <2> HIDE DEF item
    <2>5. IsMove(plan.action, item, command) /\ plan.action.id = item.id
      BY <2>2, <2>3 DEF IsMove
    <2>6. QED
      BY <2>4, <2>5 DEF IsPlan, IsPlanFor
  <1>14. CASE command.verb = "volume"
    <2> DEFINE item == SingleTarget(asked, command.target, "audio")
    <2>1. plan = VolumePlan(asked, command.target, command.volume)
      BY <1>3, <1>14 DEF PlanVideoEditor, asked
    <2>2. command.target \in Targets /\ command.volume \in Nat
      BY <1>1, <1>2, <1>14 DEF WellFormed, TargetVerbs
    <2>3. /\ item # None
          /\ plan.action = [type |-> "volume", id |-> item.id,
                            volume |-> RoundTime(command.volume)]
      BY <1>4, <2>1 DEF VolumePlan, Planned
    <2>4. PICK p \in Positions(Timeline) : item = ItemAt(Timeline, p)
      BY <1>3, <2>2, <2>3, TargetFacts
    <2> HIDE DEF item
    <2>5. RoundTime(command.volume) \in Int
      <3>1. command.volume \in Int
        BY <2>2
      <3>2. QED
        BY <3>1, RoundTimeFacts
    <2>6. IsVolume(plan.action, item, command) /\ plan.action.id = item.id
      BY <2>3, <2>5 DEF IsVolume
    <2>7. QED
      BY <2>4, <2>6 DEF IsPlan, IsPlanFor
  <1>15. CASE command.verb = "speed"
    <2> DEFINE item == SingleTarget(asked, command.target, "clip")
    <2>1. plan = SpeedPlan(asked, command.target, command.rate)
      BY <1>3, <1>15 DEF PlanVideoEditor, asked
    <2>2. command.target \in Targets /\ command.rate \in Nat \cap Numbers(command)
      BY <1>1, <1>2, <1>15 DEF WellFormed, TargetVerbs
    <2>3. /\ item # None /\ ~(command.rate <= 0)
          /\ plan.action = [type |-> "speed", id |-> item.id,
                            speed |-> RoundTime(command.rate)]
      BY <1>4, <2>1 DEF SpeedPlan, Planned
    <2>4. PICK p \in Positions(Timeline) :
              item = ItemAt(Timeline, p) /\ IsCompatible(ItemAt(Timeline, p), "clip")
      BY <1>3, <2>2, <2>3, TargetFacts
    <2>5. item.type = "video"
      BY <2>4 DEF IsCompatible, CompatibleTypes
    <2> HIDE DEF item
    <2>6. IsSpeed(plan.action, item, command) /\ plan.action.id = item.id
      BY <2>2, <2>3, <2>5 DEF IsSpeed
    <2>7. QED
      BY <2>4, <2>6 DEF IsPlan, IsPlanFor
  <1>16. QED
    BY <1>1, <1>6, <1>7, <1>8, <1>9, <1>10, <1>11, <1>12, <1>13, <1>14, <1>15
       DEF WellFormed, TargetVerbs

-----------------------------------------------------------------------------
(* Steps of the editor.                                                    *)

(* What an item may become: itself, one of its parts, or a changed item.   *)
From(plan, old, new) ==
    \/ new = old
    \/ /\ plan.id = old.id /\ plan.type = "split"
       /\ new = FirstPart(old, plan.time) \/ new = SecondPart(old, plan.time)
    \/ /\ plan.id = old.id /\ plan.type \in {"trim", "move", "volume", "speed"}
       /\ new = Changed(plan, old)

(* The tracks after a plan: every item is a new text, or comes from an     *)
(* item of its track.                                                      *)
Stepped(plan, new) ==
    /\ new \in Seq(Track) /\ new # <<>> /\ Distinct(new)
    /\ \A q \in Positions(new) :
          \/ plan.type = "text" /\ ItemAt(new, q) = TextAt(plan.start)
          \/ \E p \in Positions(Timeline) :
                /\ new[q[1]].kind = Timeline[p[1]].kind
                /\ From(plan, ItemAt(Timeline, p), ItemAt(new, q))

LEMMA FreshFacts ==
    ASSUME Typed(Timeline, LastId + applied), applied \in Nat
    PROVE  /\ FreshId \in Nat
           /\ \A p \in Positions(Timeline) :
                 ItemAt(Timeline, p).id \in Nat /\ ItemAt(Timeline, p).id < FreshId
  <1>1. LastId \in Nat
    BY EditingAssumption
  <1>2. FreshId \in Nat /\ LastId + applied < FreshId /\ LastId + applied \in Nat
    BY <1>1 DEF FreshId
  <1>3. ASSUME NEW p \in Positions(Timeline)
        PROVE  ItemAt(Timeline, p).id \in Nat /\ ItemAt(Timeline, p).id <= LastId + applied
    <2>1. ItemAt(Timeline, p) \in Item
      BY PositionFacts DEF Typed
    <2>2. ItemAt(Timeline, p).id \in Nat
      BY <2>1 DEF Item
    <2>3. QED
      BY <2>2 DEF Typed
  <1>4. QED
    BY <1>2, <1>3

LEMMA IdFacts ==
    ASSUME NEW plan, NEW old \in Item, NEW time
    PROVE  /\ FirstPart(old, time).id = old.id /\ SecondPart(old, time).id = FreshId
           /\ plan.type \in {"trim", "move", "volume", "speed"} => Changed(plan, old).id = old.id
  <1>1. FirstPart(old, time).id = old.id
    BY DEF FirstPart, Item
  <1>2. SecondPart(old, time).id = FreshId
    BY DEF SecondPart, Item
  <1>3. CASE plan.type = "trim"
    BY <1>1, <1>2, <1>3 DEF Changed, Item
  <1>4. CASE plan.type = "move"
    BY <1>1, <1>2, <1>4 DEF Changed, Item
  <1>5. CASE plan.type = "volume"
    BY <1>1, <1>2, <1>5 DEF Changed, Item
  <1>6. CASE plan.type = "speed"
    BY <1>1, <1>2, <1>6 DEF Changed, Item
  <1>7. QED
    BY <1>1, <1>2, <1>3, <1>4, <1>5, <1>6

LEMMA TrackFacts ==
    ASSUME NEW tracks \in Seq(Track), Distinct(tracks), NEW t \in 1..Len(tracks)
    PROVE  /\ tracks[t].items \in Seq(Item)
           /\ \A i \in 1..Len(tracks[t].items) : tracks[t].items[i] \in Item
           /\ \A i, j \in 1..Len(tracks[t].items) :
                 tracks[t].items[i].id = tracks[t].items[j].id => i = j
  <1>1. tracks[t] \in Track
    OBVIOUS
  <1>2. tracks[t].items \in Seq(Item)
    BY <1>1 DEF Track
  <1>3. ASSUME NEW i \in 1..Len(tracks[t].items), NEW j \in 1..Len(tracks[t].items),
               tracks[t].items[i].id = tracks[t].items[j].id
        PROVE  i = j
    <2>1. <<t, i>> \in Positions(tracks) /\ <<t, j>> \in Positions(tracks)
      BY PositionFacts
    <2>2. ItemAt(tracks, <<t, i>>).id = ItemAt(tracks, <<t, j>>).id
      BY <1>3 DEF ItemAt
    <2>3. <<t, i>> = <<t, j>>
      BY <2>1, <2>2 DEF Distinct
    <2>4. QED
      BY <2>3
  <1>4. QED
    BY <1>2, <1>3

(* A step that changes one track.                                          *)
LEMMA OneTrackStep ==
    ASSUME Typed(Timeline, LastId + applied), applied \in Nat, NEW plan,
           NEW t \in 1..Len(Timeline), NEW items \in Seq(Item),
           NEW new, Replaced(new, Timeline, t, items),
           \A i, j \in 1..Len(items) : items[i].id = items[j].id => i = j,
           \A i \in 1..Len(items) :
               \/ plan.type = "text" /\ items[i] = TextAt(plan.start)
               \/ \E j \in 1..Len(Timeline[t].items) :
                     From(plan, Timeline[t].items[j], items[i])
    PROVE  Stepped(plan, new)
  <1>1. Timeline \in Seq(Track) /\ Timeline # <<>> /\ Distinct(Timeline)
    BY DEF Typed
  <1>2. /\ new \in Seq(Track) /\ Len(new) = Len(Timeline)
        /\ \A u \in 1..Len(Timeline) :
              /\ new[u].kind = Timeline[u].kind
              /\ u # t => new[u] = Timeline[u]
        /\ new[t].items = items
    BY DEF Replaced
  <1>3. \A q \in Positions(new) :
           /\ q[1] \in 1..Len(Timeline) /\ q[2] \in 1..Len(new[q[1]].items)
           /\ q[1] = t => ItemAt(new, q) = items[q[2]] /\ q[2] \in 1..Len(items)
           /\ q[1] # t => q \in Positions(Timeline) /\ ItemAt(new, q) = ItemAt(Timeline, q)
    <2> SUFFICES ASSUME NEW q \in Positions(new)
                 PROVE  /\ q[1] \in 1..Len(Timeline) /\ q[2] \in 1..Len(new[q[1]].items)
                        /\ q[1] = t => ItemAt(new, q) = items[q[2]] /\ q[2] \in 1..Len(items)
                        /\ q[1] # t => /\ q \in Positions(Timeline)
                                       /\ ItemAt(new, q) = ItemAt(Timeline, q)
      OBVIOUS
    <2>1. /\ q = <<q[1], q[2]>> /\ q[1] \in 1..Len(Timeline)
          /\ q[2] \in 1..Len(new[q[1]].items)
      BY <1>2, PositionFacts
    <2>2. ASSUME q[1] # t PROVE q \in Positions(Timeline)
      <3>1. q[2] \in 1..Len(Timeline[q[1]].items)
        BY <1>2, <2>1, <2>2
      <3>2. <<q[1], q[2]>> \in Positions(Timeline)
        BY <1>1, <2>1, <3>1, PositionFacts
      <3>3. QED
        BY <2>1, <3>2
    <2>3. QED
      BY <1>2, <2>1, <2>2 DEF ItemAt
  <1>4. ASSUME NEW q \in Positions(new)
        PROVE  \/ plan.type = "text" /\ ItemAt(new, q) = TextAt(plan.start) /\ q[1] = t
               \/ \E p \in Positions(Timeline) :
                     /\ p[1] = q[1] /\ (From(plan, ItemAt(Timeline, p), ItemAt(new, q)))
                     /\ q[1] # t => ItemAt(new, q) = ItemAt(Timeline, p)
    <2>1. CASE q[1] # t
      BY <1>3, <2>1 DEF From
    <2>2. CASE q[1] = t
      <3>1. ASSUME NEW j \in 1..Len(Timeline[t].items),
                   From(plan, Timeline[t].items[j], items[q[2]])
            PROVE  \E p \in Positions(Timeline) :
                      p[1] = t /\ From(plan, ItemAt(Timeline, p), items[q[2]])
        <4> DEFINE p == <<t, j>>
        <4>1. p \in Positions(Timeline) /\ p[1] = t /\ ItemAt(Timeline, p) = Timeline[t].items[j]
          BY <1>1, PositionFacts DEF ItemAt
        <4> HIDE DEF p
        <4>2. QED
          BY <3>1, <4>1
      <3>2. QED
        BY <1>3, <2>2, <3>1
    <2>3. QED
      BY <2>1, <2>2
  <1>5. ASSUME NEW q \in Positions(new)
        PROVE  \/ ItemAt(new, q).id = FreshId /\ q[1] = t
               \/ \E p \in Positions(Timeline) :
                     p[1] = q[1] /\ ItemAt(Timeline, p).id = ItemAt(new, q).id
    <2>1. \A p \in Positions(Timeline) : ItemAt(Timeline, p) \in Item
      BY <1>1, PositionFacts
    <2>2. ASSUME NEW p \in Positions(Timeline),
                 From(plan, ItemAt(Timeline, p), ItemAt(new, q))
          PROVE  \/ ItemAt(new, q).id = FreshId
                 \/ ItemAt(new, q).id = ItemAt(Timeline, p).id
      <3> DEFINE old == ItemAt(Timeline, p)
      <3>1. FirstPart(old, plan.time).id = old.id /\ SecondPart(old, plan.time).id = FreshId
        BY <2>1, IdFacts
      <3>2. plan.type \in {"trim", "move", "volume", "speed"} => Changed(plan, old).id = old.id
        BY <2>1, IdFacts
      <3> HIDE DEF old
      <3>3. From(plan, old, ItemAt(new, q))
        BY <2>2 DEF old
      <3>4. ItemAt(new, q).id = FreshId \/ ItemAt(new, q).id = old.id
        BY <3>1, <3>2, <3>3 DEF From
      <3>5. QED
        BY <3>4 DEF old
    <2>3. plan.type = "text" /\ ItemAt(new, q) = TextAt(plan.start) =>
             ItemAt(new, q).id = FreshId
      BY DEF TextAt
    <2>4. QED
      BY <1>4, <2>2, <2>3
  <1>6. \A u \in 1..Len(new) : \A i, j \in 1..Len(new[u].items) :
           new[u].items[i].id = new[u].items[j].id => i = j
    <2> SUFFICES ASSUME NEW u \in 1..Len(new)
                 PROVE  \A i, j \in 1..Len(new[u].items) :
                           new[u].items[i].id = new[u].items[j].id => i = j
      OBVIOUS
    <2>1. CASE u = t
      BY <1>2, <2>1
    <2>2. CASE u # t
      <3>1. u \in 1..Len(Timeline) /\ new[u] = Timeline[u]
        BY <1>2, <2>2
      <3>2. QED
        BY <1>1, <3>1, TrackFacts
    <2>3. QED
      BY <2>1, <2>2
  <1>7. Distinct(new)
    <2>1. \A p \in Positions(Timeline) : ItemAt(Timeline, p).id # FreshId
      BY FreshFacts
    <2>2. KeepsIds(new, Timeline, FreshId, t)
      BY <1>5, <1>6, <2>1 DEF KeepsIds
    <2>3. QED
      BY <1>1, <1>2, <2>2, StaysDistinct
  <1>8. new # <<>>
    BY <1>2
  <1>9. \A q \in Positions(new) :
           \/ plan.type = "text" /\ ItemAt(new, q) = TextAt(plan.start)
           \/ \E p \in Positions(Timeline) :
                 /\ new[q[1]].kind = Timeline[p[1]].kind
                 /\ From(plan, ItemAt(Timeline, p), ItemAt(new, q))
    <2> SUFFICES ASSUME NEW q \in Positions(new)
                 PROVE  \/ plan.type = "text" /\ ItemAt(new, q) = TextAt(plan.start)
                        \/ \E p \in Positions(Timeline) :
                              /\ new[q[1]].kind = Timeline[p[1]].kind
                              /\ From(plan, ItemAt(Timeline, p), ItemAt(new, q))
      OBVIOUS
    <2>1. new[q[1]].kind = Timeline[q[1]].kind
      BY <1>2, <1>3
    <2>2. QED
      BY <1>4, <2>1
  <1>10. QED
    BY <1>2, <1>7, <1>8, <1>9 DEF Stepped

LEMMA TextStep ==
    ASSUME Typed(Timeline, LastId + applied), applied \in Nat, NEW plan,
           plan.type = "text", plan.start \in Int
    PROVE  Stepped(plan, Applied(plan))
  <1> DEFINE t == Len(Timeline)
             old == Timeline[t].items
             text == TextAt(plan.start)
             items == Append(old, text)
  <1>1. Timeline \in Seq(Track) /\ Distinct(Timeline) /\ t \in 1..Len(Timeline)
    BY DEF Typed
  <1>2. /\ old \in Seq(Item)
        /\ \A i, j \in 1..Len(old) : old[i].id = old[j].id => i = j
    BY <1>1, TrackFacts
  <1>3. text \in Item /\ text.id = FreshId
    BY FreshFacts, TextFacts
  <1>4. \A i \in 1..Len(old) : old[i].id # FreshId
    <2> SUFFICES ASSUME NEW i \in 1..Len(old) PROVE old[i].id # FreshId
      OBVIOUS
    <2>1. <<t, i>> \in Positions(Timeline) /\ ItemAt(Timeline, <<t, i>>) = old[i]
      BY <1>1, PositionFacts DEF ItemAt
    <2>2. ItemAt(Timeline, <<t, i>>).id \in Nat /\ ItemAt(Timeline, <<t, i>>).id < FreshId
      BY <2>1, FreshFacts
    <2>3. FreshId \in Nat
      BY FreshFacts
    <2>4. QED
      BY <2>1, <2>2, <2>3
  <1>5. Applied(plan) = [Timeline EXCEPT ![t].items = items]
    BY DEF Applied
  <1> HIDE DEF text, old
  <1>6. /\ items \in Seq(Item) /\ Len(items) = Len(old) + 1
        /\ \A i \in 1..Len(old) : items[i] = old[i]
        /\ items[Len(old) + 1] = text
    BY <1>2, <1>3, AppendProperties
  <1> HIDE DEF items, t
  <1>7. Len(old) \in Nat
    BY <1>2
  <1>8. \A i \in 1..Len(items) : i \in 1..Len(old) \/ i = Len(old) + 1
    BY <1>6, <1>7
  <1>9. \A i, j \in 1..Len(items) : items[i].id = items[j].id => i = j
    BY <1>2, <1>3, <1>4, <1>6, <1>8
  <1>10. Replaced(Applied(plan), Timeline, t, items)
    BY <1>1, <1>5, <1>6, ReplaceFacts
  <1>11. ASSUME NEW i \in 1..Len(items)
         PROVE  \/ plan.type = "text" /\ items[i] = TextAt(plan.start)
                \/ \E j \in 1..Len(Timeline[t].items) :
                      From(plan, Timeline[t].items[j], items[i])
    BY <1>6, <1>8 DEF From, old, text
  <1>12. QED
    BY <1>1, <1>6, <1>9, <1>10, <1>11, OneTrackStep

(* The place of the item that a plan names.                                *)
LEMMA NamedFacts ==
    ASSUME Typed(Timeline, LastId + applied), NEW p \in Positions(Timeline)
    PROVE  (CHOOSE q \in Positions(Timeline) :
               ItemAt(Timeline, q).id = ItemAt(Timeline, p).id) = p
  <1>1. \A q \in Positions(Timeline) :
           ItemAt(Timeline, q).id = ItemAt(Timeline, p).id => q = p
    BY DEF Typed, Distinct
  <1>2. QED
    BY <1>1

LEMMA ChangeStep ==
    ASSUME Typed(Timeline, LastId + applied), applied \in Nat, NEW plan,
           plan.type \in {"trim", "move", "volume", "speed"},
           NEW p \in Positions(Timeline), plan.id = ItemAt(Timeline, p).id,
           Changed(plan, ItemAt(Timeline, p)) \in Item
    PROVE  Stepped(plan, Applied(plan))
  <1> DEFINE t == p[1]
             k == p[2]
             old == Timeline[t].items
             item == Changed(plan, ItemAt(Timeline, p))
             items == [old EXCEPT ![k] = item]
  <1>1. /\ Timeline \in Seq(Track) /\ Distinct(Timeline) /\ t \in 1..Len(Timeline)
        /\ k \in 1..Len(old) /\ ItemAt(Timeline, p) = old[k]
    BY PositionFacts DEF Typed, ItemAt
  <1>2. /\ old \in Seq(Item) /\ old[k] \in Item
        /\ \A i, j \in 1..Len(old) : old[i].id = old[j].id => i = j
    BY <1>1, TrackFacts
  <1>3. item.id = old[k].id
    <2>1. Changed(plan, old[k]).id = old[k].id
      BY <1>2, IdFacts
    <2>2. QED
      BY <1>1, <2>1
  <1>4. Applied(plan) = [Timeline EXCEPT ![t].items = items]
    <2>1. (CHOOSE q \in Positions(Timeline) : ItemAt(Timeline, q).id = plan.id) = p
      BY NamedFacts
    <2>2. plan.type # "text" /\ plan.type # "delete" /\ plan.type # "split"
      OBVIOUS
    <2>3. QED
      BY <2>1, <2>2 DEF Applied
  <1> HIDE DEF old, item
  <1>5. /\ items \in Seq(Item) /\ Len(items) = Len(old)
        /\ \A i \in 1..Len(old) : items[i] = IF i = k THEN item ELSE old[i]
    BY <1>1, <1>2, ExceptSeq DEF item
  <1> HIDE DEF items
  <1>6. \A i, j \in 1..Len(items) : items[i].id = items[j].id => i = j
    BY <1>1, <1>2, <1>3, <1>5
  <1>7. Replaced(Applied(plan), Timeline, t, items)
    BY <1>1, <1>4, <1>5, ReplaceFacts
  <1>8. \A i \in 1..Len(items) : From(plan, old[i], items[i])
    BY <1>1, <1>5 DEF From, item
  <1>9. QED
    BY <1>1, <1>5, <1>6, <1>7, <1>8, OneTrackStep DEF old

LEMMA SplitStep ==
    ASSUME Typed(Timeline, LastId + applied), applied \in Nat, NEW plan,
           plan.type = "split", plan.time \in Int,
           NEW p \in Positions(Timeline), plan.id = ItemAt(Timeline, p).id
    PROVE  Stepped(plan, Applied(plan))
  <1> DEFINE t == p[1]
             k == p[2]
             old == Timeline[t].items
             a == FirstPart(ItemAt(Timeline, p), plan.time)
             b == SecondPart(ItemAt(Timeline, p), plan.time)
             items == InsertAt([old EXCEPT ![k] = a], k + 1, b)
  <1>1. /\ Timeline \in Seq(Track) /\ Distinct(Timeline) /\ t \in 1..Len(Timeline)
        /\ k \in 1..Len(old) /\ ItemAt(Timeline, p) = old[k]
    BY PositionFacts DEF Typed, ItemAt
  <1>2. /\ old \in Seq(Item) /\ old[k] \in Item
        /\ \A i, j \in 1..Len(old) : old[i].id = old[j].id => i = j
    BY <1>1, TrackFacts
  <1>3. a \in Item /\ b \in Item /\ a.id = old[k].id /\ b.id = FreshId
    <2>1. ItemAt(Timeline, p) \in Item /\ FreshId \in Nat
      BY <1>1, <1>2, FreshFacts
    <2>2. a \in Item /\ b \in Item
      BY <2>1, ItemFacts
    <2>3. a.id = ItemAt(Timeline, p).id /\ b.id = FreshId
      BY <2>1, IdFacts
    <2>4. QED
      BY <1>1, <2>2, <2>3
  <1>4. \A i \in 1..Len(old) : old[i].id # FreshId
    <2> SUFFICES ASSUME NEW i \in 1..Len(old) PROVE old[i].id # FreshId
      OBVIOUS
    <2>1. <<t, i>> \in Positions(Timeline) /\ ItemAt(Timeline, <<t, i>>) = old[i]
      BY <1>1, PositionFacts DEF ItemAt
    <2>2. ItemAt(Timeline, <<t, i>>).id \in Nat /\ ItemAt(Timeline, <<t, i>>).id < FreshId
      BY <2>1, FreshFacts
    <2>3. FreshId \in Nat
      BY FreshFacts
    <2>4. QED
      BY <2>1, <2>2, <2>3
  <1>5. Applied(plan) = [Timeline EXCEPT ![t].items = items]
    <2>1. (CHOOSE q \in Positions(Timeline) : ItemAt(Timeline, q).id = plan.id) = p
      BY NamedFacts
    <2>2. plan.type # "text" /\ plan.type # "delete"
      OBVIOUS
    <2>3. QED
      BY <2>1, <2>2 DEF Applied
  <1> HIDE DEF old, a, b
  <1>6. /\ items \in Seq(Item) /\ Len(items) = Len(old) + 1
        /\ \A i \in 1..Len(items) :
              items[i] = IF i < k THEN old[i]
                         ELSE IF i = k THEN a
                         ELSE IF i = k + 1 THEN b ELSE old[i - 1]
    <2>1. k \in 1..Len(old)
      BY <1>1
    <2>2. Inserted(items, old, k, a, b)
      BY <1>2, <1>3, <2>1, InsertFacts
    <2> HIDE DEF items
    <2>3. QED
      BY <2>2 DEF Inserted
  <1> HIDE DEF items, t, k
  <1>7. Len(old) \in Nat /\ k \in 1..Len(old) /\ k \in Nat
    BY <1>1, <1>2
  \* Every item but the second part stands for an old one, in order.
  <1> DEFINE at(i) == IF i <= k THEN i ELSE i - 1
  <1>8. \A i \in 1..Len(items) : i = k + 1 \/
           /\ at(i) \in 1..Len(old) /\ items[i].id = old[at(i)].id
           /\ \A j \in 1..Len(items) : j = k + 1 \/ (at(i) = at(j) => i = j)
    <2> SUFFICES ASSUME NEW i \in 1..Len(items), i # k + 1
                 PROVE  /\ at(i) \in 1..Len(old) /\ items[i].id = old[at(i)].id
                        /\ \A j \in 1..Len(items) : j = k + 1 \/ (at(i) = at(j) => i = j)
      OBVIOUS
    <2>1. i \in Int /\ 1 <= i /\ i <= Len(old) + 1
      BY <1>6, <1>7
    <2>2. at(i) \in 1..Len(old)
      BY <1>7, <2>1
    <2>3. items[i].id = old[at(i)].id
      <3>1. CASE i < k
        BY <1>6, <1>7, <2>1, <3>1
      <3>2. CASE i = k
        BY <1>3, <1>6, <1>7, <2>1, <3>2
      <3>3. CASE i > k + 1
        BY <1>6, <1>7, <2>1, <3>3
      <3>4. QED
        BY <1>7, <2>1, <3>1, <3>2, <3>3
    <2>4. ASSUME NEW j \in 1..Len(items), j # k + 1, at(i) = at(j) PROVE i = j
      <3>1. j \in Int
        OBVIOUS
      <3>2. QED
        BY <1>7, <2>1, <2>4, <3>1
    <2>5. QED
      BY <2>2, <2>3, <2>4
  <1>9. items[k + 1] = b /\ k + 1 \in 1..Len(items)
    BY <1>6, <1>7
  <1> HIDE DEF at
  <1>10. \A i, j \in 1..Len(items) : items[i].id = items[j].id => i = j
    <2> SUFFICES ASSUME NEW i \in 1..Len(items), NEW j \in 1..Len(items),
                        items[i].id = items[j].id
                 PROVE  i = j
      OBVIOUS
    <2>1. \A l \in 1..Len(items) : l # k + 1 => items[l].id # FreshId
      BY <1>4, <1>8
    <2>2. items[k + 1].id = FreshId
      BY <1>3, <1>9
    <2>3. CASE i = k + 1 \/ j = k + 1
      BY <2>1, <2>2, <2>3
    <2>4. CASE i # k + 1 /\ j # k + 1
      <3>1. /\ at(i) \in 1..Len(old) /\ items[i].id = old[at(i)].id
            /\ at(i) = at(j) => i = j
        BY <1>8, <2>4
      <3>2. at(j) \in 1..Len(old) /\ items[j].id = old[at(j)].id
        BY <1>8, <2>4
      <3>3. QED
        BY <1>2, <3>1, <3>2
    <2>5. QED
      BY <2>3, <2>4
  <1>11. Replaced(Applied(plan), Timeline, t, items)
    BY <1>1, <1>5, <1>6, ReplaceFacts
  <1>12. \A i \in 1..Len(items) : \E j \in 1..Len(old) : From(plan, old[j], items[i])
    <2> SUFFICES ASSUME NEW i \in 1..Len(items)
                 PROVE  \E j \in 1..Len(old) : From(plan, old[j], items[i])
      OBVIOUS
    <2>1. plan.id = old[k].id
      BY <1>1
    <2>2. a = FirstPart(old[k], plan.time) /\ b = SecondPart(old[k], plan.time)
      BY <1>1 DEF a, b
    <2>3. CASE items[i] = a \/ items[i] = b
      <3>1. From(plan, old[k], items[i])
        BY <2>1, <2>2, <2>3 DEF From
      <3>2. QED
        BY <1>7, <3>1
    <2>4. CASE i < k
      <3>1. items[i] = old[i] /\ i \in 1..Len(old)
        BY <1>6, <1>7, <2>4
      <3>2. QED
        BY <3>1 DEF From
    <2>5. CASE i > k + 1
      <3>1. items[i] = old[i - 1] /\ i - 1 \in 1..Len(old)
        BY <1>6, <1>7, <2>5
      <3>2. QED
        BY <3>1 DEF From
    <2>6. QED
      BY <1>6, <1>7, <2>3, <2>4, <2>5
  <1>13. QED
    BY <1>1, <1>6, <1>10, <1>11, <1>12, OneTrackStep DEF old

LEMMA DeleteStep ==
    ASSUME Typed(Timeline, LastId + applied), applied \in Nat, NEW plan,
           plan.type = "delete"
    PROVE  Stepped(plan, Applied(plan))
  <1> DEFINE new == Applied(plan)
             n == Len(Timeline)
  <1>1. /\ Timeline \in Seq(Track) /\ Timeline # <<>> /\ Distinct(Timeline)
        /\ n \in Nat /\ DOMAIN Timeline = 1..n
        /\ \A t \in 1..n : Timeline[t] \in Track
    BY DEF Typed
  <1>2. new = [t \in 1..n |-> [Timeline[t] EXCEPT !.items = Without(@, plan.ids)]]
    BY <1>1 DEF Applied
  <1> HIDE DEF new
  <1>3. ASSUME NEW t \in 1..n
        PROVE  /\ Without(Timeline[t].items, plan.ids) \in Seq(Item)
               /\ new[t] \in Track /\ new[t].kind = Timeline[t].kind
               /\ new[t].items = Without(Timeline[t].items, plan.ids)
    <2>1. Without(Timeline[t].items, plan.ids) \in Seq(Item)
      <3>1. Timeline[t].items \in Seq(Item)
        BY <1>1, TrackFacts
      <3>2. QED
        BY <3>1, WithoutFacts DEF KeptOf
    <2>2. new[t] = [Timeline[t] EXCEPT !.items = Without(Timeline[t].items, plan.ids)]
      BY <1>2
    <2>3. ASSUME NEW track \in Track, NEW items \in Seq(Item)
          PROVE  LET x == [track EXCEPT !.items = items]
                 IN  x \in Track /\ x.kind = track.kind /\ x.items = items
      BY DEF Track
    <2>4. QED
      BY <1>1, <2>1, <2>2, <2>3
  <1>4. new \in Seq(Track) /\ Len(new) = n /\ DOMAIN new = 1..n
    <2>1. new \in [1..n -> Track]
      BY <1>2, <1>3
    <2>2. QED
      BY <1>1, <2>1
  <1>5. ASSUME NEW t \in 1..n
        PROVE  \E at \in [1..Len(new[t].items) -> 1..Len(Timeline[t].items)] :
                  /\ \A i \in 1..Len(new[t].items) :
                        new[t].items[i] = Timeline[t].items[at[i]]
                  /\ \A i, j \in 1..Len(new[t].items) : at[i] = at[j] => i = j
    <2>1. Timeline[t].items \in Seq(Item)
      BY <1>1, TrackFacts
    <2>2. KeptOf(Without(Timeline[t].items, plan.ids), Timeline[t].items)
      BY <2>1, WithoutFacts
    <2>3. KeptOf(new[t].items, Timeline[t].items)
      BY <1>3, <2>2
    <2>4. QED
      BY <2>3 DEF KeptOf
  <1>6. ASSUME NEW q \in Positions(new)
        PROVE  \E p \in Positions(Timeline) :
                  /\ p[1] = q[1] /\ new[q[1]].kind = Timeline[p[1]].kind
                  /\ ItemAt(new, q) = ItemAt(Timeline, p)
    <2> DEFINE t == q[1]
               i == q[2]
    <2>1. t \in 1..n /\ i \in 1..Len(new[t].items)
      BY <1>4, PositionFacts
    <2>2. PICK j \in 1..Len(Timeline[t].items) : new[t].items[i] = Timeline[t].items[j]
      <3>1. PICK at \in [1..Len(new[t].items) -> 1..Len(Timeline[t].items)] :
                \A x \in 1..Len(new[t].items) : new[t].items[x] = Timeline[t].items[at[x]]
        BY <1>5, <2>1
      <3>2. at[i] \in 1..Len(Timeline[t].items) /\ new[t].items[i] = Timeline[t].items[at[i]]
        BY <2>1, <3>1
      <3>3. QED
        BY <3>2
    <2> DEFINE p == <<t, j>>
    <2>3. p \in Positions(Timeline) /\ p[1] = t /\ ItemAt(Timeline, p) = ItemAt(new, q)
      BY <1>1, <2>1, <2>2, PositionFacts DEF ItemAt
    <2> HIDE DEF p
    <2>4. QED
      BY <1>3, <2>1, <2>3
  <1>7. ASSUME NEW t \in 1..n, NEW i \in 1..Len(new[t].items), NEW j \in 1..Len(new[t].items),
               new[t].items[i].id = new[t].items[j].id
        PROVE  i = j
    <2>1. \A k, l \in 1..Len(Timeline[t].items) :
             Timeline[t].items[k].id = Timeline[t].items[l].id => k = l
      BY <1>1, TrackFacts
    <2>2. PICK at \in [1..Len(new[t].items) -> 1..Len(Timeline[t].items)] :
              /\ \A x \in 1..Len(new[t].items) : new[t].items[x] = Timeline[t].items[at[x]]
              /\ \A x, y \in 1..Len(new[t].items) : at[x] = at[y] => x = y
      BY <1>5
    <2>3. at[i] = at[j]
      <3>1. at[i] \in 1..Len(Timeline[t].items) /\ at[j] \in 1..Len(Timeline[t].items)
        BY <2>2
      <3>2. Timeline[t].items[at[i]].id = Timeline[t].items[at[j]].id
        BY <1>7, <2>2
      <3>3. QED
        BY <2>1, <3>1, <3>2
    <2>4. QED
      BY <2>2, <2>3
  <1>8. Distinct(new)
    <2>1. KeepsIds(new, Timeline, FreshId, 0)
      <3>1. \A p \in Positions(Timeline) : ItemAt(Timeline, p).id # FreshId
        BY FreshFacts
      <3>2. QED
        BY <1>4, <1>6, <1>7, <3>1 DEF KeepsIds
    <2>2. QED
      BY <1>1, <1>4, <2>1, StaysDistinct
  <1>9. new # <<>>
    BY <1>1, <1>4
  <1>10. Stepped(plan, new)
    BY <1>4, <1>6, <1>8, <1>9 DEF Stepped, From
  <1>11. QED
    BY <1>10 DEF new

(* The range of a trim lies in that of the item, and what is shown of it   *)
(* is at most half a step longer.                                          *)
LEMMA MediaRangeFacts ==
    ASSUME NEW item \in Item, HasSource(item), Complete(item), NEW s \in Int, NEW d \in Int,
           MediaRange(item, s, d) # None
    PROVE  LET range == MediaRange(item, s, d)
               speed == IF item.speed \in {None, 0} THEN One ELSE item.speed
           IN  /\ speed \in Int
               /\ range.in \in Int /\ range.out \in Int
               /\ OnGrid(range.out)
               /\ item.in <= range.in /\ range.out <= item.out /\ range.in < range.out
               /\ 2 * (range.in * One + d * speed)
                     <= 2 * (One * range.out) + One * Grain
  <1> DEFINE speed == IF item.speed \in {None, 0} THEN One ELSE item.speed
             m == item.in * One + (s - item.start) * speed
             in == RoundRatio(m, One)
             n == in * One + d * speed
             out == RoundRatio(n, One)
  <1>1. One \in Nat \ {0} /\ Grain \in Nat \ {0}
    BY NumberAssumption
  <1>2. item.start \in Int /\ item.in \in Int /\ item.out \in Int /\ item.speed \in Maybe(Int)
    BY DEF Item, Complete
  <1>3. speed \in Int
    BY <1>1, <1>2 DEF Maybe
  <1>4. MediaRange(item, s, d) = [in |-> in, out |-> out] /\ in >= item.in
        /\ out <= item.out /\ out > in
    BY DEF MediaRange
  <1> HIDE DEF speed
  <1>5. m \in Int
    <2>1. item.in * One \in Int /\ (s - item.start) * speed \in Int
      BY <1>1, <1>2, <1>3
    <2>2. QED
      BY <2>1
  <1>6. in \in Int
    <2> HIDE DEF m
    <2>1. QED
      BY <1>1, <1>5, RoundRatioFacts
  <1> HIDE DEF in, m
  <1>7. n \in Int
    <2>1. in * One \in Int /\ d * speed \in Int
      BY <1>1, <1>3, <1>6
    <2>2. QED
      BY <2>1
  <1>8. out \in Int /\ OnGrid(out) /\ 2 * n <= 2 * (One * out) + One * Grain
    <2> HIDE DEF n
    <2>1. QED
      BY <1>1, <1>7, RoundRatioFacts
  <1> HIDE DEF out
  <1>9. QED
    BY <1>2, <1>3, <1>4, <1>6, <1>8 DEF speed

LEMMA ChangedFacts ==
    ASSUME NEW item \in Item, Complete(item), NEW command, NEW plan,
           \/ IsTrim(plan, item, command) \/ IsMove(plan, item, command)
           \/ IsVolume(plan, item, command) \/ IsSpeed(plan, item, command)
    PROVE  /\ plan.type \in {"trim", "move", "volume", "speed"}
           /\ Changed(plan, item) \in Item /\ Complete(Changed(plan, item))
           /\ Changed(plan, item).type = item.type
  <1> DEFINE new == Changed(plan, item)
  <1>1. None \notin Int
    BY NumberAssumption
  <1>2. CASE IsTrim(plan, item, command)
    <2>1. PICK s \in Int, e \in Int :
              /\ plan.type = "trim" /\ plan.start = RoundTime(s)
              /\ plan.duration = RoundTime(e - s)
              /\ IF HasSource(item)
                 THEN LET range == MediaRange(item, s, RoundTime(e - s))
                      IN  range # None /\ plan.in = range.in /\ plan.out = range.out
                 ELSE plan.in = None /\ plan.out = None
      BY <1>2 DEF IsTrim
    <2>2. plan.start \in Int /\ plan.duration \in Int
      <3>1. e - s \in Int
        OBVIOUS
      <3>2. QED
        BY <2>1, <3>1, RoundTimeFacts
    <2>3. /\ plan.in \in Maybe(Int) /\ plan.out \in Maybe(Int)
          /\ HasSource(item) => plan.in \in Int /\ plan.out \in Int
      <3>1. CASE HasSource(item)
        BY <2>1, <2>2, <3>1, MediaRangeFacts DEF Maybe
      <3>2. CASE ~HasSource(item)
        BY <2>1, <3>2 DEF Maybe
      <3>3. QED
        BY <3>1, <3>2
    <2>4. new = [item EXCEPT !.start = plan.start, !.duration = plan.duration,
                             !.in = plan.in, !.out = plan.out]
      BY <2>1 DEF Changed
    <2>5. /\ new \in Item /\ new.type = item.type /\ new.speed = item.speed
          /\ new.in = plan.in /\ new.out = plan.out
      BY <2>2, <2>3, <2>4 DEF Item
    <2>6. Complete(new)
      BY <2>3, <2>5 DEF Complete, HasSource
    <2>7. QED
      BY <2>1, <2>5, <2>6
  <1>3. CASE IsMove(plan, item, command)
    <2>1. plan.type = "move" /\ plan.start \in Int
      BY <1>3, RoundTimeFacts DEF IsMove
    <2>2. new = [item EXCEPT !.start = plan.start]
      BY <2>1 DEF Changed
    <2>3. new \in Item /\ new.type = item.type /\ new.speed = item.speed
          /\ new.in = item.in /\ new.out = item.out
      BY <2>1, <2>2 DEF Item
    <2>4. QED
      BY <2>1, <2>3 DEF Complete, HasSource
  <1>4. CASE IsVolume(plan, item, command)
    <2>1. plan.type = "volume" /\ plan.volume \in Int
      BY <1>4 DEF IsVolume
    <2>2. new = [item EXCEPT !.volume = plan.volume, !.muted = FALSE]
      BY <2>1 DEF Changed
    <2>3. new \in Item /\ new.type = item.type /\ new.speed = item.speed
          /\ new.in = item.in /\ new.out = item.out
      BY <2>1, <2>2 DEF Item, Maybe
    <2>4. QED
      BY <2>1, <2>3 DEF Complete, HasSource
  <1>5. CASE IsSpeed(plan, item, command)
    <2>1. plan.type = "speed" /\ plan.speed \in Int
      BY <1>5, RoundTimeFacts DEF IsSpeed
    <2>2. new = [item EXCEPT !.speed = plan.speed]
      BY <2>1 DEF Changed
    <2>3. new \in Item /\ new.type = item.type /\ new.speed = plan.speed
          /\ new.in = item.in /\ new.out = item.out
      BY <2>1, <2>2 DEF Item, Maybe
    <2>4. QED
      BY <2>1, <2>3 DEF Complete, HasSource
  <1>6. QED
    BY <1>2, <1>3, <1>4, <1>5

LEMMA StepFacts ==
    ASSUME Typed(Timeline, LastId + applied), applied \in Nat, NEW command, NEW plan,
           IsPlan(plan, command)
    PROVE  Stepped(plan, Applied(plan))
  <1>1. ASSUME NEW p \in Positions(Timeline)
        PROVE  ItemAt(Timeline, p) \in Item /\ Complete(ItemAt(Timeline, p))
    BY PositionFacts DEF Typed
  <1>2. CASE plan.type = "text" /\ \E t \in Nat : plan.start = RoundTime(t)
    <2>1. plan.start \in Int
      BY <1>2, RoundTimeFacts
    <2>2. QED
      BY <1>2, <2>1, TextStep
  <1>3. CASE plan.type = "delete"
    BY <1>3, DeleteStep
  <1>4. ASSUME NEW p \in Positions(Timeline), IsPlanFor(plan, ItemAt(Timeline, p), command)
        PROVE  Stepped(plan, Applied(plan))
    <2> DEFINE item == ItemAt(Timeline, p)
    <2>1. plan.id = item.id
      BY <1>4 DEF IsPlanFor
    <2>2. CASE IsSplit(plan, item, command)
      <3>1. plan.type = "split" /\ plan.time \in Int
        BY <2>2, RoundTimeFacts DEF IsSplit
      <3>2. QED
        BY <2>1, <3>1, SplitStep
    <2>3. CASE ~IsSplit(plan, item, command)
      <3>1. /\ plan.type \in {"trim", "move", "volume", "speed"}
            /\ Changed(plan, item) \in Item
        BY <1>1, <1>4, <2>3, ChangedFacts DEF IsPlanFor
      <3>2. QED
        BY <2>1, <3>1, ChangeStep
    <2>4. QED
      BY <2>2, <2>3
  <1>5. QED
    BY <1>2, <1>3, <1>4 DEF IsPlan

(* What an item becomes, with what is known of the plan.                   *)
Becomes(plan, item, new, command) ==
    \/ new = item
    \/ /\ plan.id = item.id /\ IsSplit(plan, item, command)
       /\ new = FirstPart(item, plan.time) \/ new = SecondPart(item, plan.time)
    \/ /\ plan.id = item.id
       /\ \/ IsTrim(plan, item, command) \/ IsMove(plan, item, command)
          \/ IsVolume(plan, item, command) \/ IsSpeed(plan, item, command)
       /\ new = Changed(plan, item)

LEMMA BecomesFacts ==
    ASSUME Typed(Timeline, LastId + applied), applied \in Nat, NEW command, NEW plan,
           IsPlan(plan, command), NEW q \in Positions(Applied(plan))
    PROVE  \/ /\ plan.type = "text" /\ ItemAt(Applied(plan), q) = TextAt(plan.start)
              /\ \E t \in Nat : plan.start = RoundTime(t)
           \/ \E p \in Positions(Timeline) :
                 /\ Applied(plan)[q[1]].kind = Timeline[p[1]].kind
                 /\ Becomes(plan, ItemAt(Timeline, p), ItemAt(Applied(plan), q), command)
  <1> DEFINE new == ItemAt(Applied(plan), q)
  <1>1. \/ plan.type = "text" /\ new = TextAt(plan.start)
        \/ \E p \in Positions(Timeline) :
              /\ Applied(plan)[q[1]].kind = Timeline[p[1]].kind
              /\ From(plan, ItemAt(Timeline, p), new)
    BY StepFacts DEF Stepped
  <1>2. ASSUME NEW p \in Positions(Timeline), IsPlanFor(plan, ItemAt(Timeline, p), command)
        PROVE  plan.type \in {"trim", "split", "move", "volume", "speed"}
    BY <1>2 DEF IsPlanFor, IsTrim, IsSplit, IsMove, IsVolume, IsSpeed
  <1>3. CASE plan.type = "text"
    <2>1. \E t \in Nat : plan.start = RoundTime(t)
      BY <1>2, <1>3 DEF IsPlan
    <2>2. ASSUME NEW p \in Positions(Timeline), From(plan, ItemAt(Timeline, p), new)
          PROVE  Becomes(plan, ItemAt(Timeline, p), new, command)
      BY <1>3, <2>2 DEF From, Becomes
    <2>3. QED
      BY <1>1, <1>3, <2>1, <2>2
  <1>4. ASSUME plan.type # "text", NEW p \in Positions(Timeline),
               From(plan, ItemAt(Timeline, p), new)
        PROVE  Becomes(plan, ItemAt(Timeline, p), new, command)
    <2> DEFINE item == ItemAt(Timeline, p)
    <2>1. CASE new = item
      BY <2>1 DEF Becomes
    <2>2. CASE new # item
      <3>1. plan.id = item.id /\ plan.type \in {"split", "trim", "move", "volume", "speed"}
        BY <1>4, <2>2 DEF From
      <3>2. PICK r \in Positions(Timeline) : IsPlanFor(plan, ItemAt(Timeline, r), command)
        BY <3>1 DEF IsPlan
      <3>3. r = p
        BY <3>1, <3>2 DEF IsPlanFor, Typed, Distinct
      <3>4. IsPlanFor(plan, item, command)
        BY <3>2, <3>3
      <3> HIDE DEF item, new
      <3>5. CASE plan.type = "split"
        <4>1. IsSplit(plan, item, command)
          BY <3>4, <3>5 DEF IsPlanFor, IsTrim, IsMove, IsVolume, IsSpeed
        <4>2. new = FirstPart(item, plan.time) \/ new = SecondPart(item, plan.time)
          BY <1>4, <2>2, <3>5 DEF From, item
        <4>3. QED
          BY <3>1, <4>1, <4>2 DEF Becomes, item
      <3>6. CASE plan.type # "split"
        <4>1. ~IsSplit(plan, item, command)
          BY <3>6 DEF IsSplit
        <4>2. new = Changed(plan, item)
          BY <1>4, <2>2, <3>6 DEF From, item
        <4>3. QED
          BY <3>1, <3>4, <4>1, <4>2 DEF Becomes, IsPlanFor, item
      <3>7. QED
        BY <3>5, <3>6
    <2>3. QED
      BY <2>1, <2>2
  <1>5. QED
    BY <1>1, <1>3, <1>4

(* The parts of an item.                                                   *)
LEMMA PartFacts ==
    ASSUME NEW item \in Item, NEW time, NEW a, a = FirstPart(item, time),
           NEW b, b = SecondPart(item, time)
    PROVE  /\ a.id = item.id /\ a.type = item.type /\ a.start = item.start
           /\ a.duration = time - item.start /\ a.in = item.in /\ a.speed = item.speed
           /\ a.out = IF item.out = None THEN None ELSE SourceAt(item, time - item.start)
           /\ b.id = FreshId /\ b.type = item.type /\ b.start = time
           /\ b.duration = item.duration - (time - item.start)
           /\ b.in = SourceAt(item, time - item.start)
           /\ b.out = item.out /\ b.speed = item.speed
  <1>1. /\ a.id = item.id /\ a.type = item.type /\ a.start = item.start
        /\ a.duration = time - item.start /\ a.in = item.in /\ a.speed = item.speed
        /\ a.out = IF item.out = None THEN None ELSE SourceAt(item, time - item.start)
    BY DEF FirstPart, Item
  <1>2. /\ b.id = FreshId /\ b.type = item.type /\ b.start = time
        /\ b.duration = item.duration - (time - item.start)
        /\ b.in = SourceAt(item, time - item.start)
        /\ b.out = item.out /\ b.speed = item.speed
    BY DEF SecondPart, Item
  <1>3. QED
    BY <1>1, <1>2

(* Where a split cuts the source of an item.                               *)
LEMMA SourceFacts ==
    ASSUME NEW item \in Item, HasSource(item), Complete(item), NEW offset \in Int
    PROVE  LET cut == SourceAt(item, offset)
           IN  /\ Speed(item) \in Int /\ cut \in Int
               /\ (cut - item.in) * One <= offset * Speed(item)
               /\ offset * Speed(item) < (cut - item.in + 1) * One
               /\ 0 <= offset * Speed(item) => item.in <= cut
  <1> DEFINE m == offset * Speed(item)
             k == m \div One
             r == m % One
  <1>1. One \in Nat \ {0} /\ None \notin Int
    BY NumberAssumption
  <1>2. item.in \in Int /\ item.in # None /\ Speed(item) \in Int
    BY <1>1 DEF Complete, Speed, Default, Item, Maybe
  <1>3. m \in Int
    BY <1>2
  <1>4. SourceAt(item, offset) = item.in + k
    BY <1>2 DEF SourceAt
  <1> HIDE DEF m
  <1>5. k \in Int /\ r \in 0..(One - 1) /\ m = One * k + r
    BY <1>1, <1>3
  <1> HIDE DEF k, r
  <1>6. (item.in + k) - item.in = k /\ k * One = One * k /\ (k + 1) * One = One * k + One
    BY <1>1, <1>2, <1>5
  <1>7. One * k <= m /\ m < One * k + One
    BY <1>1, <1>3, <1>5
  <1>8. 0 <= m => 0 <= k
    <2> SUFFICES ASSUME k <= -1, 0 <= m PROVE FALSE
      BY <1>5
    <2>1. One * k <= One * (-1)
      BY <1>1, <1>5
    <2>2. QED
      BY <1>1, <1>3, <1>5, <1>7, <2>1
  <1>9. QED
    BY <1>2, <1>4, <1>5, <1>6, <1>7, <1>8 DEF m

LEMMA TypedStep ==
    ASSUME Typed(Timeline, LastId + applied), applied \in Nat, NEW command, NEW plan,
           IsPlan(plan, command)
    PROVE  Typed(Applied(plan), LastId + (applied + 1))
  <1> DEFINE new == Applied(plan)
             last == LastId + (applied + 1)
  <1>1. /\ Stepped(plan, new)
        /\ new \in Seq(Track) /\ new # <<>> /\ Distinct(new)
    BY StepFacts DEF Stepped
  <1>2. LastId \in Nat /\ FreshId = last /\ last \in Nat
    BY EditingAssumption DEF FreshId
  <1>3. ASSUME NEW p \in Positions(Timeline)
        PROVE  LET item == ItemAt(Timeline, p)
               IN  /\ item \in Item /\ Complete(item) /\ item.id <= last
                   /\ item.type = "video" => Timeline[p[1]].kind = "video"
    <2>1. ItemAt(Timeline, p) \in Item
      BY PositionFacts DEF Typed
    <2>2. ItemAt(Timeline, p).id < FreshId /\ ItemAt(Timeline, p).id \in Nat
      BY FreshFacts
    <2>3. QED
      BY <1>2, <2>1, <2>2 DEF Typed
  <1>4. ASSUME NEW item \in Item, Complete(item), item.id <= last, NEW x,
               Becomes(plan, item, x, command)
        PROVE  x.id <= last /\ Complete(x) /\ x.type = item.type
    <2>1. CASE x = item
      BY <1>4, <2>1
    <2>2. CASE IsSplit(plan, item, command) /\ x = FirstPart(item, plan.time)
      <3>1. plan.time \in Int /\ item.start \in Int
        BY <2>2, RoundTimeFacts DEF IsSplit, Item
      <3> DEFINE offset == plan.time - item.start
      <3>2. offset \in Int
        BY <3>1
      <3>3. HasSource(item) => SourceAt(item, offset) \in Int /\ item.out # None
        BY <1>4, <3>2, SourceFacts, NumberAssumption DEF Complete
      <3>4. /\ x.id = item.id /\ x.type = item.type /\ x.in = item.in /\ x.speed = item.speed
            /\ x.out = IF item.out = None THEN None ELSE SourceAt(item, offset)
        BY <2>2, PartFacts
      <3>5. QED
        BY <1>4, <3>3, <3>4 DEF Complete, HasSource
    <2>3. CASE IsSplit(plan, item, command) /\ x = SecondPart(item, plan.time)
      <3>1. plan.time \in Int /\ item.start \in Int
        BY <2>3, RoundTimeFacts DEF IsSplit, Item
      <3> DEFINE offset == plan.time - item.start
      <3>2. offset \in Int
        BY <3>1
      <3>3. HasSource(item) => SourceAt(item, offset) \in Int
        BY <1>4, <3>2, SourceFacts
      <3>4. /\ x.id = FreshId /\ x.type = item.type /\ x.out = item.out /\ x.speed = item.speed
            /\ x.in = SourceAt(item, offset)
        BY <2>3, PartFacts
      <3>5. QED
        BY <1>2, <1>4, <3>3, <3>4 DEF Complete, HasSource
    <2>4. CASE /\ \/ IsTrim(plan, item, command) \/ IsMove(plan, item, command)
                  \/ IsVolume(plan, item, command) \/ IsSpeed(plan, item, command)
               /\ x = Changed(plan, item)
      <3>1. /\ plan.type \in {"trim", "move", "volume", "speed"}
            /\ Complete(x) /\ x.type = item.type
        BY <1>4, <2>4, ChangedFacts
      <3>2. x.id = item.id
        BY <2>4, <3>1, IdFacts
      <3>3. QED
        BY <1>4, <3>1, <3>2
    <2>5. QED
      BY <1>4, <2>1, <2>2, <2>3, <2>4 DEF Becomes
  <1>5. ASSUME NEW q \in Positions(new)
        PROVE  LET x == ItemAt(new, q)
               IN  /\ x.id <= last /\ Complete(x)
                   /\ x.type = "video" => new[q[1]].kind = "video"
    <2> DEFINE x == ItemAt(new, q)
    <2>1. CASE x = TextAt(plan.start)
      <3>1. x.id = FreshId /\ x.type = "text"
        BY <2>1 DEF TextAt
      <3>2. QED
        BY <1>2, <3>1 DEF Complete, HasSource
    <2>2. CASE x # TextAt(plan.start)
      <3>1. PICK p \in Positions(Timeline) :
                /\ new[q[1]].kind = Timeline[p[1]].kind
                /\ Becomes(plan, ItemAt(Timeline, p), x, command)
        BY <2>2, BecomesFacts
      <3> HIDE DEF x, new, last
      <3>2. QED
        BY <1>3, <1>4, <3>1 DEF x
    <2>3. QED
      BY <2>1, <2>2
  <1> HIDE DEF new, last
  <1>6. Typed(new, last)
    BY <1>1, <1>5 DEF Typed
  <1>7. QED
    BY <1>6 DEF new, last

(* Times on the grid, and a speed.                                         *)
Numeric(item) ==
    OnGrid(item.start) /\ OnGrid(item.duration) /\ (item.speed # None => OnGrid(item.speed))

LEMMA NumericStep ==
    ASSUME NEW item \in Item, Numeric(item), NEW command, NEW plan, NEW new,
           Becomes(plan, item, new, command)
    PROVE  Numeric(new)
  <1>1. item.start \in Int /\ item.duration \in Int
    BY DEF Item
  <1>2. CASE IsSplit(plan, item, command) /\
                (new = FirstPart(item, plan.time) \/ new = SecondPart(item, plan.time))
    <2>1. plan.time \in Int /\ OnGrid(plan.time)
      BY <1>2, RoundTimeFacts DEF IsSplit
    <2>2. plan.time - item.start \in Int /\ OnGrid(plan.time - item.start)
      <3>1. OnGrid(item.start)
        BY DEF Numeric
      <3>2. plan.time - item.start \in Int
        BY <1>1, <2>1
      <3>3. OnGrid(plan.time - item.start)
        BY <1>1, <2>1, <3>1, GridFacts
      <3>4. QED
        BY <3>2, <3>3
    <2>3. OnGrid(item.duration - (plan.time - item.start))
      BY <1>1, <2>2, GridFacts DEF Numeric
    <2>4. CASE new = FirstPart(item, plan.time)
      <3>1. /\ new.start = item.start /\ new.duration = plan.time - item.start
            /\ new.speed = item.speed
        BY <2>4, PartFacts
      <3>2. QED
        BY <2>2, <3>1 DEF Numeric
    <2>5. CASE new = SecondPart(item, plan.time)
      <3>1. /\ new.start = plan.time /\ new.speed = item.speed
            /\ new.duration = item.duration - (plan.time - item.start)
        BY <2>5, PartFacts
      <3>2. QED
        BY <2>1, <2>3, <3>1 DEF Numeric
    <2>6. QED
      BY <1>2, <2>4, <2>5
  <1>3. CASE IsTrim(plan, item, command) /\ new = Changed(plan, item)
    <2>1. PICK s \in Int, e \in Int :
              /\ plan.type = "trim"
              /\ plan.start = RoundTime(s) /\ plan.duration = RoundTime(e - s)
      BY <1>3 DEF IsTrim
    <2>2. e - s \in Int
      OBVIOUS
    <2>3. OnGrid(plan.start) /\ OnGrid(plan.duration)
      BY <2>1, <2>2, RoundTimeFacts
    <2>4. /\ new.start = plan.start /\ new.duration = plan.duration
          /\ new.speed = item.speed
      BY <1>3, <2>1 DEF Changed, Item
    <2>5. QED
      BY <2>3, <2>4 DEF Numeric
  <1>4. CASE IsMove(plan, item, command) /\ new = Changed(plan, item)
    <2>1. plan.type = "move" /\ OnGrid(plan.start)
      BY <1>4, RoundTimeFacts DEF IsMove
    <2>2. new.start = plan.start /\ new.duration = item.duration /\ new.speed = item.speed
      BY <1>4, <2>1 DEF Changed, Item
    <2>3. QED
      BY <2>1, <2>2 DEF Numeric
  <1>5. CASE IsVolume(plan, item, command) /\ new = Changed(plan, item)
    <2>1. plan.type = "volume"
      BY <1>5 DEF IsVolume
    <2>2. new.start = item.start /\ new.duration = item.duration /\ new.speed = item.speed
      BY <1>5, <2>1 DEF Changed, Item
    <2>3. QED
      BY <2>2 DEF Numeric
  <1>6. CASE IsSpeed(plan, item, command) /\ new = Changed(plan, item)
    <2>1. plan.type = "speed" /\ OnGrid(plan.speed)
      BY <1>6, RoundTimeFacts DEF IsSpeed
    <2>2. new.start = item.start /\ new.duration = item.duration /\ new.speed = plan.speed
      BY <1>6, <2>1 DEF Changed, Item
    <2>3. QED
      BY <2>1, <2>2 DEF Numeric
  <1>7. QED
    BY <1>2, <1>3, <1>4, <1>5, <1>6 DEF Becomes

(* A split on the grid is not before the item or after it.                 *)
LEMMA SplitFacts ==
    ASSUME NEW item \in Item, Numeric(item), NEW command, NEW plan,
           IsSplit(plan, item, command)
    PROVE  /\ plan.time \in Nat
           /\ 0 <= plan.time - item.start /\ plan.time - item.start <= item.duration
           /\ (\A n \in Numbers(command) : n % Grain = 0) =>
                 0 < plan.time - item.start /\ plan.time - item.start < item.duration
  <1>1. PICK t \in Nat \cap Numbers(command) :
            /\ plan.time = RoundTime(t)
            /\ 0 < RoundTime(t - item.start) /\ RoundTime(t - item.start) < item.duration
    BY DEF IsSplit
  <1>2. /\ item.start \in Int /\ item.duration \in Int
        /\ OnGrid(item.start) /\ OnGrid(item.duration)
    BY DEF Item, Numeric
  <1> DEFINE from == item.start
             d == item.duration
             end == from + d
             u == t - from
  <1>3. /\ from \in Int /\ d \in Int /\ end \in Int /\ u \in Int /\ t \in Int
        /\ OnGrid(from) /\ OnGrid(end) /\ OnGrid(d)
    <2>1. OnGrid(item.start + item.duration)
      BY <1>2, GridFacts
    <2>2. QED
      BY <1>1, <1>2, <2>1
  <1>4. /\ 0 < RoundTime(u) /\ RoundTime(u) < d /\ plan.time = RoundTime(t)
        /\ end = from + d /\ u = t - from
    BY <1>1
  <1>5. RoundTime(u) \in Int /\ RoundTime(t) \in Int
    BY <1>3, RoundTimeFacts
  <1> HIDE DEF from, d, end, u
  <1>6. from < t
    <2>1. u <= 0 => RoundTime(u) <= 0
      BY <1>3, RoundTimeFacts, GridFacts
    <2>2. QED
      BY <1>3, <1>4, <1>5, <2>1
  <1>7. t < end
    <2>1. d <= u => d <= RoundTime(u)
      BY <1>3, RoundTimeFacts
    <2>2. QED
      BY <1>3, <1>4, <1>5, <2>1
  <1>8. from <= RoundTime(t) /\ RoundTime(t) <= end /\ 0 <= RoundTime(t)
    <2>1. from <= t => from <= RoundTime(t)
      BY <1>3, RoundTimeFacts
    <2>2. t <= end => RoundTime(t) <= end
      BY <1>3, RoundTimeFacts
    <2>3. 0 <= t => 0 <= RoundTime(t)
      BY <1>3, RoundTimeFacts, GridFacts
    <2>4. QED
      BY <1>1, <1>3, <1>6, <1>7, <2>1, <2>2, <2>3
  <1>9. (\A n \in Numbers(command) : n % Grain = 0) => RoundTime(t) = t
    BY <1>1, <1>3, GridIsModulo, RoundTimeFacts
  <1>10. /\ plan.time \in Nat /\ 0 <= plan.time - from /\ plan.time - from <= d
         /\ (\A n \in Numbers(command) : n % Grain = 0) =>
               0 < plan.time - from /\ plan.time - from < d
    BY <1>3, <1>4, <1>5, <1>6, <1>7, <1>8, <1>9
  <1>11. QED
    BY <1>10 DEF from, d

Renderable(item) == item.duration > 0 /\ ~BadTiming(item)

LEMMA RenderableStep ==
    ASSUME NEW item \in Item, Complete(item), Numeric(item), Renderable(item),
           NEW command, \A n \in Numbers(command) : n % Grain = 0,
           NEW plan, NEW new, Becomes(plan, item, new, command)
    PROVE  Renderable(new)
  <1>1. /\ item.start \in Int /\ item.duration \in Int /\ item.type \in ItemTypes
        /\ item.in \in Maybe(Int) /\ item.out \in Maybe(Int) /\ item.speed \in Maybe(Int)
    BY DEF Item
  <1>2. /\ One \in Nat \ {0} /\ Grain \in Nat \ {0} /\ Grain * Grain >= One /\ None \notin Int
        /\ One % Grain = 0
    BY NumberAssumption
  <1>3. item.start >= 0 /\ item.duration > 0
    BY <1>1 DEF Renderable, BadTiming
  <1>4. HasSource(item) =>
            /\ item.in \in Int /\ item.in >= 0 /\ item.out \in Int /\ item.out > 0
            /\ Speed(item) \in Int /\ Speed(item) > 0 /\ OnGrid(Speed(item))
            /\ item.type = "video" => item.speed \in Int /\ item.speed > 0
    <2>1. OnGrid(Speed(item))
      BY GridFacts DEF Numeric, Speed, Default
    <2>2. QED
      BY <1>1, <1>2, <2>1 DEF Renderable, BadTiming, HasSource, Complete, Speed, Default, Maybe
  <1>5. ASSUME new.type = item.type, new.start \in Int, new.start >= 0,
               new.duration \in Int, new.duration > 0, new.speed = item.speed,
               HasSource(item) => /\ new.in \in Int /\ new.in >= 0
                                  /\ new.out \in Int /\ new.out > 0
        PROVE  Renderable(new)
    BY <1>2, <1>4, <1>5 DEF Renderable, BadTiming, HasSource, Speed
  <1>6. CASE IsSplit(plan, item, command) /\
                (new = FirstPart(item, plan.time) \/ new = SecondPart(item, plan.time))
    <2> DEFINE offset == plan.time - item.start
               cut == SourceAt(item, offset)
    <2>1. /\ plan.time \in Nat /\ 0 < offset /\ offset < item.duration
          /\ offset \in Int
      <3>1. plan.time \in Nat /\ 0 < plan.time - item.start /\ plan.time - item.start < item.duration
        BY <1>6, SplitFacts
      <3>2. QED
        BY <1>1, <3>1
    <2>2. OnGrid(offset)
      <3>1. plan.time \in Int /\ OnGrid(plan.time)
        BY <1>6, RoundTimeFacts DEF IsSplit
      <3>2. OnGrid(item.start)
        BY DEF Numeric
      <3>3. QED
        BY <1>1, <3>1, <3>2, GridFacts
    <2> HIDE DEF offset
    <2>3. HasSource(item) => cut \in Int /\ cut > 0 /\ item.in <= cut
      <3> SUFFICES ASSUME HasSource(item) PROVE cut \in Int /\ cut > 0 /\ item.in <= cut
        OBVIOUS
      <3> DEFINE sp == Speed(item)
                 m == offset * sp
      <3>1. /\ cut \in Int /\ m < (cut - item.in + 1) * One
            /\ 0 <= m => item.in <= cut
        BY <2>1, SourceFacts
      <3>2. sp \in Int /\ sp > 0 /\ OnGrid(sp) /\ item.in \in Int /\ item.in >= 0
        BY <1>4
      <3> HIDE DEF sp, cut
      <3>3. Grain <= offset /\ Grain <= sp
        BY <1>2, <2>1, <2>2, <3>2, GridFacts
      <3>4. Grain * Grain <= m
        <4>1. Grain * Grain <= offset * Grain
          BY <1>2, <2>1, <3>3
        <4>2. offset * Grain <= offset * sp
          BY <1>2, <2>1, <3>2, <3>3
        <4>3. QED
          BY <1>2, <2>1, <3>2, <4>1, <4>2
      <3>5. m \in Int
        BY <2>1, <3>2
      <3> HIDE DEF m
      <3>6. cut > item.in
        <4> DEFINE k == cut - item.in + 1
        <4>1. k \in Int /\ One < k * One
          BY <1>2, <3>1, <3>2, <3>4, <3>5
        <4> HIDE DEF k
        <4>2. k > 1
          <5> SUFFICES ASSUME k <= 1 PROVE FALSE
            BY <4>1
          <5>1. k * One <= 1 * One
            BY <1>2, <4>1
          <5>2. QED
            BY <1>2, <4>1, <5>1
        <4>3. QED
          BY <3>1, <3>2, <4>2 DEF k
      <3>7. QED
        BY <3>1, <3>2, <3>6
    <2>4. CASE new = FirstPart(item, plan.time)
      <3>1. /\ new.type = item.type /\ new.start = item.start
            /\ new.duration = offset /\ new.in = item.in /\ new.speed = item.speed
            /\ new.out = IF item.out = None THEN None ELSE cut
        BY <2>4, PartFacts DEF offset
      <3>2. HasSource(item) => new.out = cut
        BY <1>2, <1>4, <3>1
      <3>3. QED
        BY <1>1, <1>3, <1>4, <1>5, <2>1, <2>3, <3>1, <3>2
    <2>5. CASE new = SecondPart(item, plan.time)
      <3>1. /\ new.type = item.type /\ new.start = plan.time
            /\ new.duration = item.duration - offset
            /\ new.in = cut /\ new.out = item.out /\ new.speed = item.speed
        BY <2>5, PartFacts DEF offset
      <3>2. new.duration \in Int /\ new.duration > 0 /\ new.start \in Int /\ new.start >= 0
        BY <1>1, <2>1, <3>1
      <3>3. HasSource(item) => cut \in Int /\ cut >= 0
        BY <1>4, <2>3
      <3>4. QED
        BY <1>4, <1>5, <3>1, <3>2, <3>3
    <2>6. QED
      BY <1>6, <2>4, <2>5
  <1>7. CASE IsTrim(plan, item, command) /\ new = Changed(plan, item)
    <2>1. PICK s \in Int, e \in Int :
              /\ s < e
              /\ \/ s \in Nat /\ {s, e} \subseteq Numbers(command)
                 \/ s = item.start /\ e - s \in Numbers(command)
              /\ plan.type = "trim" /\ plan.start = RoundTime(s)
              /\ plan.duration = RoundTime(e - s)
              /\ HasSource(item) =>
                    LET range == MediaRange(item, s, RoundTime(e - s))
                    IN  range # None /\ plan.in = range.in /\ plan.out = range.out
      BY <1>7 DEF IsTrim
    <2>2. e - s \in Int /\ e - s > 0 /\ s >= 0
      BY <1>1, <1>3, <2>1
    <2>3. OnGrid(e - s)
      <3>1. CASE {s, e} \subseteq Numbers(command)
        <4>1. OnGrid(s) /\ OnGrid(e)
          BY <3>1, GridIsModulo
        <4>2. QED
          BY <4>1, GridFacts
      <3>2. CASE e - s \in Numbers(command)
        BY <2>2, <3>2, GridIsModulo
      <3>3. QED
        BY <2>1, <3>1, <3>2
    <2>4. plan.duration = e - s
      BY <2>1, <2>2, <2>3, RoundTimeFacts
    <2>5. plan.start \in Int /\ plan.start >= 0
      <3>1. s \in Nat
        BY <2>1, <2>2
      <3>2. RoundTime(s) \in Nat
        BY <3>1, RoundNatFacts
      <3>3. QED
        BY <2>1, <3>2
    <2>6. HasSource(item) => /\ plan.in \in Int /\ plan.in >= 0
                             /\ plan.out \in Int /\ plan.out > 0
      <3> SUFFICES ASSUME HasSource(item)
                   PROVE  /\ plan.in \in Int /\ plan.in >= 0
                          /\ plan.out \in Int /\ plan.out > 0
        OBVIOUS
      <3>1. RoundTime(e - s) \in Int
        BY <2>2, RoundTimeFacts
      <3>2. /\ plan.in \in Int /\ plan.out \in Int
            /\ item.in <= plan.in /\ plan.in < plan.out
        BY <2>1, <3>1, MediaRangeFacts
      <3>3. QED
        BY <1>4, <3>2
    <2>7. /\ new.type = item.type /\ new.start = plan.start /\ new.duration = plan.duration
          /\ new.in = plan.in /\ new.out = plan.out /\ new.speed = item.speed
      BY <1>7, <2>1 DEF Changed, Item
    <2>8. QED
      BY <1>5, <2>2, <2>4, <2>5, <2>6, <2>7
  <1>8. CASE IsMove(plan, item, command) /\ new = Changed(plan, item)
    <2>1. plan.type = "move" /\ plan.start \in Int /\ plan.start >= 0
      <3>1. PICK t \in Nat : plan.type = "move" /\ plan.start = RoundTime(t)
        BY <1>8 DEF IsMove
      <3>2. RoundTime(t) \in Nat
        BY RoundNatFacts
      <3>3. QED
        BY <3>1, <3>2
    <2>2. /\ new.type = item.type /\ new.start = plan.start /\ new.duration = item.duration
          /\ new.in = item.in /\ new.out = item.out /\ new.speed = item.speed
      BY <1>8, <2>1 DEF Changed, Item
    <2>3. QED
      BY <1>1, <1>3, <1>4, <1>5, <2>1, <2>2
  <1>9. CASE IsVolume(plan, item, command) /\ new = Changed(plan, item)
    <2>1. plan.type = "volume"
      BY <1>9 DEF IsVolume
    <2>2. /\ new.type = item.type /\ new.start = item.start /\ new.duration = item.duration
          /\ new.in = item.in /\ new.out = item.out /\ new.speed = item.speed
      BY <1>9, <2>1 DEF Changed, Item
    <2>3. QED
      BY <1>1, <1>3, <1>4, <1>5, <2>2
  <1>10. CASE IsSpeed(plan, item, command) /\ new = Changed(plan, item)
    <2>1. PICK r \in Nat \cap Numbers(command) :
              item.type = "video" /\ plan.type = "speed" /\ 0 < r /\ plan.speed = RoundTime(r)
      BY <1>10 DEF IsSpeed
    <2>2. plan.speed = r
      BY <2>1, GridIsModulo, RoundTimeFacts
    <2>3. /\ new.type = item.type /\ new.start = item.start /\ new.duration = item.duration
          /\ new.in = item.in /\ new.out = item.out /\ new.speed = plan.speed
      BY <1>10, <2>1 DEF Changed, Item
    <2>4. QED
      BY <1>1, <1>2, <1>3, <1>4, <2>1, <2>2, <2>3 DEF Renderable, BadTiming, HasSource
  <1>11. QED
    BY <1>6, <1>7, <1>8, <1>9, <1>10 DEF Becomes

(* What is shown of an item is in a range, beyond a rounding, and its      *)
(* source lasts as long as it is shown, beyond a rounding.                 *)
Within(item, range) ==
    /\ range.in \in Int /\ range.out \in Int /\ OnGrid(range.out)
    /\ Speed(item) > 0
    /\ range.in <= item.in
    /\ 2 * item.out <= 2 * range.out + Grain
    /\ 2 * (item.in * One + item.duration * Speed(item))
          <= (2 * range.out + Grain) * One
    /\ item.duration * Speed(item) <= (item.out - item.in) * One + Grain * One

LEMMA WithinSplit ==
    ASSUME NEW item \in Item, HasSource(item), Complete(item), Numeric(item),
           NEW range, Within(item, range),
           NEW command, NEW plan, IsSplit(plan, item, command)
    PROVE  Within(FirstPart(item, plan.time), range) /\ Within(SecondPart(item, plan.time), range)
  <1> DEFINE offset == plan.time - item.start
             cut == SourceAt(item, offset)
             a == FirstPart(item, plan.time)
             b == SecondPart(item, plan.time)
             sp == Speed(item)
             d == item.duration
             m == offset * sp
             n == d * sp
             in == item.in
             out == item.out
             i == in * One
             o == out * One
             c == cut * One
             g == Grain * One
             r == range.out * One
  <1>1. One \in Nat \ {0} /\ Grain \in Nat \ {0} /\ None \notin Int
    BY NumberAssumption
  <1>2. in \in Int /\ out \in Int /\ d \in Int /\ sp \in Int /\ sp > 0
    BY SourceFacts DEF Item, Complete, Within
  <1>3. range.in \in Int /\ range.out \in Int /\ OnGrid(range.out)
    BY DEF Within
  <1>4. offset \in Int /\ 0 <= offset /\ offset <= d
    <2>1. plan.time \in Nat /\ 0 <= offset /\ offset <= d
      BY SplitFacts
    <2>2. item.start \in Int
      BY DEF Item
    <2>3. QED
      BY <2>1, <2>2
  <1>5. /\ a.in = in /\ a.out = cut /\ a.duration = offset /\ Speed(a) = sp
        /\ b.in = cut /\ b.out = out /\ b.duration = d - offset /\ Speed(b) = sp
    BY <1>1, <1>2, PartFacts DEF Speed
  <1>6. /\ cut \in Int /\ (cut - in) * One <= m /\ m < (cut - in + 1) * One
        /\ 0 <= m => in <= cut
    BY <1>4, SourceFacts
  <1>7. /\ range.in <= in /\ 2 * out <= 2 * range.out + Grain
        /\ 2 * (i + n) <= (2 * range.out + Grain) * One
        /\ n <= (out - in) * One + Grain * One
    BY DEF Within
  <1> HIDE DEF offset, cut, a, b, sp, d, in, out
  <1>8. m \in Int /\ n \in Int /\ 0 <= m /\ m <= n /\ (d - offset) * sp = n - m
    <2>1. 0 * sp <= offset * sp
      BY <1>2, <1>4
    <2>2. offset * sp <= d * sp
      BY <1>2, <1>4
    <2>3. (d - offset) * sp = d * sp - offset * sp
      BY <1>2, <1>4
    <2>4. m \in Int /\ n \in Int /\ 0 * sp = 0
      BY <1>2, <1>4
    <2>5. QED
      BY <2>1, <2>2, <2>3, <2>4
  <1>9. /\ i \in Int /\ o \in Int /\ c \in Int /\ g \in Int /\ r \in Int /\ One <= g
        /\ (cut - in) * One = c - i /\ (cut - in + 1) * One = c - i + One
        /\ (2 * range.out + Grain) * One = 2 * r + g
        /\ (out - in) * One = o - i /\ (out - cut) * One = o - c
    <2>1. i \in Int /\ o \in Int /\ c \in Int /\ g \in Int /\ r \in Int
      BY <1>1, <1>2, <1>3, <1>6
    <2>2. 1 * One <= Grain * One
      BY <1>1
    <2>3. (cut - in) * One = c - i /\ (cut - in + 1) * One = c - i + One
      BY <1>1, <1>2, <1>6
    <2>4. (2 * range.out + Grain) * One = 2 * r + g
      BY <1>1, <1>3
    <2>5. (out - in) * One = o - i /\ (out - cut) * One = o - c
      BY <1>1, <1>2, <1>6
    <2>6. QED
      BY <1>1, <2>1, <2>2, <2>3, <2>4, <2>5
  <1>10. 2 * cut <= 2 * range.out + Grain
    <2> DEFINE x == 2 * cut
               y == 2 * range.out + Grain
    <2>1. x * One = 2 * c /\ y * One = 2 * r + g
      BY <1>1, <1>3, <1>6, <1>9
    <2>2. x \in Int /\ y \in Int
      BY <1>1, <1>3, <1>6
    <2> HIDE DEF x, y, m, n, i, o, c, g, r
    <2>3. x * One <= y * One
      BY <1>1, <1>6, <1>7, <1>8, <1>9, <2>1
    <2>4. x <= y
      <3> SUFFICES ASSUME y + 1 <= x PROVE FALSE
        BY <2>2
      <3>1. (y + 1) * One <= x * One
        BY <1>1, <2>2
      <3>2. (y + 1) * One = y * One + One
        BY <1>1, <2>2
      <3>3. x * One \in Int /\ y * One \in Int
        BY <1>1, <2>2
      <3>4. QED
        BY <1>1, <2>3, <3>1, <3>2, <3>3
    <2>5. QED
      BY <2>4 DEF x, y
  <1>11. Within(a, range)
    <2>1. a.in * One + a.duration * Speed(a) = i + m
      BY <1>5
    <2>2. (a.out - a.in) * One + Grain * One = c - i + g
      BY <1>5, <1>9
    <2> HIDE DEF m, n, i, o, c, g, r
    <2>3. 2 * (i + m) <= (2 * range.out + Grain) * One
      BY <1>7, <1>8, <1>9
    <2>4. m <= c - i + g
      BY <1>1, <1>6, <1>8, <1>9
    <2>5. a.duration * Speed(a) = m
      BY <1>5 DEF m
    <2>6. QED
      BY <1>2, <1>3, <1>5, <1>7, <1>10, <2>1, <2>2, <2>3, <2>4, <2>5 DEF Within
  <1>12. Within(b, range)
    <2>1. b.in * One + b.duration * Speed(b) = c + (n - m)
      BY <1>5, <1>8
    <2>2. (b.out - b.in) * One + Grain * One = o - c + g
      BY <1>5, <1>9
    <2>3. b.duration * Speed(b) = n - m
      BY <1>5, <1>8
    <2> HIDE DEF m, n, i, o, c, g, r
    <2>4. 2 * (c + (n - m)) <= (2 * range.out + Grain) * One
      BY <1>6, <1>7, <1>8, <1>9
    <2>5. n - m <= o - c + g
      BY <1>6, <1>7, <1>8, <1>9 DEF g
    <2>6. range.in <= cut
      BY <1>2, <1>3, <1>6, <1>7, <1>8
    <2>7. QED
      BY <1>2, <1>3, <1>5, <1>7, <2>1, <2>2, <2>3, <2>4, <2>5, <2>6 DEF Within
  <1>13. QED
    BY <1>11, <1>12 DEF a, b

LEMMA WithinTrim ==
    ASSUME NEW item \in Item, HasSource(item), Complete(item),
           NEW range, Within(item, range),
           NEW command, NEW plan, IsTrim(plan, item, command)
    PROVE  Within(Changed(plan, item), range)
  <1> DEFINE new == Changed(plan, item)
             sp == Speed(item)
  <1>1. One \in Nat \ {0} /\ Grain \in Nat \ {0} /\ None \notin Int
    BY NumberAssumption
  <1>2. item.in \in Int /\ item.out \in Int /\ sp \in Int /\ sp > 0
    BY SourceFacts DEF Complete, Within
  <1>3. range.in \in Int /\ range.out \in Int /\ OnGrid(range.out)
    BY DEF Within
  <1>4. PICK s \in Int, e \in Int :
            /\ plan.type = "trim" /\ plan.duration = RoundTime(e - s)
            /\ LET x == MediaRange(item, s, RoundTime(e - s))
               IN  x # None /\ plan.in = x.in /\ plan.out = x.out
    BY DEF IsTrim
  <1>5. plan.duration \in Int
    <2>1. e - s \in Int
      BY <1>4
    <2>2. QED
      BY <1>4, <2>1, RoundTimeFacts
  <1>6. sp = IF item.speed \in {None, 0} THEN One ELSE item.speed
    BY <1>1, <1>2 DEF Speed, Default
  <1> DEFINE in == plan.in
             out == plan.out
             n == plan.duration * sp
             i == in * One
             o == One * out
             g == One * Grain
             r == One * range.out
  <1>7. /\ in \in Int /\ out \in Int /\ OnGrid(out)
        /\ item.in <= in /\ out <= item.out /\ in < out
        /\ 2 * (i + n) <= 2 * o + g
    BY <1>4, <1>5, <1>6, MediaRangeFacts
  <1>8. /\ new.in = in /\ new.out = out /\ new.duration = plan.duration
        /\ Speed(new) = sp
    BY <1>4 DEF Changed, Item, Speed
  <1> HIDE DEF sp, in, out, new
  <1>9. out <= range.out
    <2>1. range.out < out => range.out + Grain <= out
      BY <1>3, <1>7, GridFacts
    <2>2. 2 * out <= 2 * range.out + Grain
      BY <1>2, <1>3, <1>1, <1>7 DEF Within
    <2>3. QED
      BY <1>1, <1>3, <1>7, <2>1, <2>2
  <1>10. /\ n \in Int /\ i \in Int /\ o \in Int /\ g \in Int /\ r \in Int /\ 0 <= g
         /\ o <= r
         /\ (2 * range.out + Grain) * One = 2 * r + g
         /\ (out - in) * One = o - i /\ Grain * One = g
    <2>1. n \in Int /\ i \in Int /\ o \in Int /\ g \in Int /\ r \in Int /\ 0 <= g
      BY <1>1, <1>2, <1>3, <1>5, <1>7
    <2>2. o <= r
      BY <1>1, <1>3, <1>7, <1>9
    <2>3. (2 * range.out + Grain) * One = 2 * r + g
      BY <1>1, <1>3
    <2>4. (out - in) * One = o - i /\ Grain * One = g
      BY <1>1, <1>7
    <2>5. QED
      BY <2>1, <2>2, <2>3, <2>4
  <1>11. /\ new.in * One + new.duration * Speed(new) = i + n
         /\ new.duration * Speed(new) = n
         /\ (new.out - new.in) * One + Grain * One = o - i + g
    BY <1>8, <1>10
  <1> HIDE DEF n, i, o, g, r
  <1>12. 2 * (i + n) <= (2 * range.out + Grain) * One /\ n <= o - i + g
    BY <1>7, <1>10
  <1>13. range.in <= in /\ 2 * out <= 2 * range.out + Grain
    BY <1>1, <1>2, <1>3, <1>7, <1>9 DEF Within
  <1>14. Within(new, range)
    BY <1>2, <1>3, <1>8, <1>11, <1>12, <1>13 DEF Within
  <1>15. QED
    BY <1>14 DEF new

(* An item is within the range that ranges has for its id, unless its      *)
(* speed was changed: fast has the ids of those.                           *)
InReach(item, ranges, fast) ==
    HasSource(item) /\ item.id \notin fast =>
        item.id \in DOMAIN ranges /\ Within(item, ranges[item.id])

ReachAfter(plan) ==
    IF plan.type = "split" /\ plan.id \in DOMAIN reach
    THEN [id \in DOMAIN reach \cup {FreshId} |-> reach[IF id = FreshId THEN plan.id ELSE id]]
    ELSE reach

SpedAfter(plan) ==
    sped \cup (IF plan.type = "speed" THEN {plan.id} ELSE {})
         \cup (IF plan.type = "split" /\ plan.id \in sped THEN {FreshId} ELSE {})

LEMMA InReachStep ==
    ASSUME NEW item \in Item, Complete(item), Numeric(item), item.id # FreshId,
           InReach(item, reach, sped),
           NEW command, NEW plan, NEW new, Becomes(plan, item, new, command)
    PROVE  InReach(new, ReachAfter(plan), SpedAfter(plan))
  <1> SUFFICES ASSUME HasSource(new), new.id \notin SpedAfter(plan)
               PROVE  /\ new.id \in DOMAIN ReachAfter(plan)
                      /\ Within(new, ReachAfter(plan)[new.id])
    BY DEF InReach
  <1>1. ASSUME item.id \in DOMAIN reach
        PROVE  item.id \in DOMAIN ReachAfter(plan) /\ ReachAfter(plan)[item.id] = reach[item.id]
    BY <1>1 DEF ReachAfter
  <1>2. item.id \notin SpedAfter(plan) => item.id \notin sped
    BY DEF SpedAfter
  <1>3. ASSUME new.type = item.type, new.id = item.id, new.in = item.in, new.out = item.out,
               new.duration = item.duration, new.speed = item.speed
        PROVE  /\ new.id \in DOMAIN ReachAfter(plan)
               /\ Within(new, ReachAfter(plan)[new.id])
    <2>1. HasSource(item) /\ item.id \notin sped
      BY <1>2, <1>3 DEF HasSource
    <2>2. item.id \in DOMAIN reach /\ Within(item, reach[item.id])
      BY <2>1 DEF InReach
    <2>3. \A x : Within(item, x) => Within(new, x)
      BY <1>3 DEF Within, Speed
    <2>4. QED
      BY <1>1, <1>3, <2>2, <2>3
  <1>4. CASE new = item
    BY <1>3, <1>4
  <1>5. CASE IsSplit(plan, item, command) /\ plan.id = item.id /\ new = FirstPart(item, plan.time)
    <2>1. new.id = item.id /\ new.type = item.type
      BY <1>5, PartFacts
    <2>2. HasSource(item) /\ item.id \notin sped
      BY <1>2, <2>1 DEF HasSource
    <2>3. item.id \in DOMAIN reach /\ Within(item, reach[item.id])
      BY <2>2 DEF InReach
    <2>4. Within(new, reach[item.id])
      BY <1>5, <2>2, <2>3, WithinSplit
    <2>5. QED
      BY <1>1, <2>1, <2>3, <2>4
  <1>6. CASE IsSplit(plan, item, command) /\ plan.id = item.id /\ new = SecondPart(item, plan.time)
    <2>1. new.id = FreshId /\ new.type = item.type /\ plan.type = "split"
      BY <1>6, PartFacts DEF IsSplit
    <2>2. HasSource(item) /\ item.id \notin sped
      BY <1>6, <2>1 DEF HasSource, SpedAfter
    <2>3. item.id \in DOMAIN reach /\ Within(item, reach[item.id])
      BY <2>2 DEF InReach
    <2>4. Within(new, reach[item.id])
      BY <1>6, <2>2, <2>3, WithinSplit
    <2>5. FreshId \in DOMAIN ReachAfter(plan) /\ ReachAfter(plan)[FreshId] = reach[item.id]
      BY <1>6, <2>1, <2>3 DEF ReachAfter
    <2>6. QED
      BY <2>1, <2>4, <2>5
  <1>7. CASE IsTrim(plan, item, command) /\ new = Changed(plan, item)
    <2>1. new.id = item.id /\ new.type = item.type
      <3>1. plan.type = "trim"
        BY <1>7 DEF IsTrim
      <3>2. QED
        BY <1>7, <3>1 DEF Changed, Item
    <2>2. HasSource(item) /\ item.id \notin sped
      BY <1>2, <2>1 DEF HasSource
    <2>3. item.id \in DOMAIN reach /\ Within(item, reach[item.id])
      BY <2>2 DEF InReach
    <2>4. Within(new, reach[item.id])
      BY <1>7, <2>2, <2>3, WithinTrim
    <2>5. QED
      BY <1>1, <2>1, <2>3, <2>4
  <1>8. CASE IsMove(plan, item, command) /\ new = Changed(plan, item)
    <2>1. plan.type = "move"
      BY <1>8 DEF IsMove
    <2>2. /\ new.type = item.type /\ new.id = item.id /\ new.in = item.in /\ new.out = item.out
          /\ new.duration = item.duration /\ new.speed = item.speed
      BY <1>8, <2>1 DEF Changed, Item
    <2>3. QED
      BY <1>3, <2>2
  <1>9. CASE IsVolume(plan, item, command) /\ new = Changed(plan, item)
    <2>1. plan.type = "volume"
      BY <1>9 DEF IsVolume
    <2>2. /\ new.type = item.type /\ new.id = item.id /\ new.in = item.in /\ new.out = item.out
          /\ new.duration = item.duration /\ new.speed = item.speed
      BY <1>9, <2>1 DEF Changed, Item
    <2>3. QED
      BY <1>3, <2>2
  <1>10. CASE IsSpeed(plan, item, command) /\ plan.id = item.id /\ new = Changed(plan, item)
    <2>1. plan.type = "speed"
      BY <1>10 DEF IsSpeed
    <2>2. new.id = item.id
      BY <1>10, <2>1 DEF Changed, Item
    <2>3. QED
      BY <1>10, <2>1, <2>2 DEF SpedAfter
  <1>11. QED
    BY <1>4, <1>5, <1>6, <1>7, <1>8, <1>9, <1>10 DEF Becomes

-----------------------------------------------------------------------------
(* The invariant of the session.                                           *)

Edited(tracks, n, ranges, ev, ex, fast) ==
    /\ n \in Nat /\ Typed(tracks, LastId + n)
    /\ ex => ev
    /\ \A p \in Positions(tracks) :
          LET item == ItemAt(tracks, p) IN
          /\ ev => Numeric(item) /\ InReach(item, ranges, fast)
          /\ ex => Renderable(item)

EditInv == "tracks" \in DOMAIN document /\ Edited(Timeline, applied, reach, even, exact, sped)

LEMMA EditInitial == EditInit => EditInv
  <1> SUFFICES ASSUME EditInit PROVE EditInv
    OBVIOUS
  <1>1. document \in Documents /\ applied = 0 /\ LastId \in Nat
    BY EditingAssumption DEF EditInit
  <1>2. /\ "tracks" \in DOMAIN document /\ Timeline \in Seq(Track) /\ Timeline # <<>>
        /\ \A p \in Positions(Timeline) :
              LET item == ItemAt(Timeline, p) IN
              /\ item.id <= LastId
              /\ item.duration > 0 /\ ~BadTiming(item)
              /\ HasSource(item) =>
                    2 * (item.in * One + item.duration * Speed(item))
                        <= (2 * item.out + Grain) * One
              /\ item.type = "video" => Timeline[p[1]].kind = "video"
              /\ \A q \in Positions(Timeline) : ItemAt(Timeline, q).id = item.id => q = p
    BY <1>1, DocumentAssumption DEF Timeline
  <1>3. One \in Nat \ {0} /\ Grain \in Nat \ {0} /\ None \notin Int
    BY NumberAssumption
  <1>4. \A p \in Positions(Timeline) : ItemAt(Timeline, p) \in Item
    BY <1>2, PositionFacts
  <1>5. Distinct(Timeline)
    BY <1>2 DEF Distinct
  <1>6. ASSUME NEW p \in Positions(Timeline)
        PROVE  Complete(ItemAt(Timeline, p)) /\ Renderable(ItemAt(Timeline, p))
    <2> DEFINE item == ItemAt(Timeline, p)
    <2>1. item \in Item /\ item.duration > 0 /\ ~BadTiming(item)
      BY <1>2, <1>4
    <2> HIDE DEF item
    <2>2. Complete(item)
      BY <2>1 DEF BadTiming, Complete, HasSource, Item, Maybe
    <2>3. QED
      BY <2>1, <2>2 DEF Renderable, item
  <1>7. Typed(Timeline, LastId + applied)
    BY <1>1, <1>2, <1>5, <1>6 DEF Typed
  <1>8. ASSUME even, NEW p \in Positions(Timeline)
        PROVE  Numeric(ItemAt(Timeline, p))
    <2> DEFINE item == ItemAt(Timeline, p)
    <2>1. \A it \in AllItems :
             \A t \in {it.start, it.duration, it.speed, it.out} \ {None} : t % Grain = 0
      BY <1>8 DEF EditInit
    <2>2. item \in AllItems
      BY DEF AllItems
    <2>3. \A t \in {item.start, item.duration, item.speed, item.out} \ {None} : t % Grain = 0
      BY <2>1, <2>2
    <2>4. item \in Item
      BY <1>4
    <2> HIDE DEF item
    <2>5. item.start \in Int /\ item.duration \in Int /\ item.speed \in Maybe(Int)
      BY <2>4 DEF Item
    <2>6. OnGrid(item.start) /\ OnGrid(item.duration)
      BY <1>3, <2>3, <2>5, GridIsModulo
    <2>7. item.speed # None => OnGrid(item.speed)
      BY <1>3, <2>3, <2>5, GridIsModulo DEF Maybe
    <2>8. QED
      BY <2>6, <2>7 DEF Numeric, item
  <1>9. ASSUME even, NEW p \in Positions(Timeline)
        PROVE  InReach(ItemAt(Timeline, p), reach, sped)
    <2> DEFINE item == ItemAt(Timeline, p)
    <2> SUFFICES ASSUME HasSource(item)
                 PROVE  item.id \in DOMAIN reach /\ Within(item, reach[item.id])
      BY DEF InReach
    <2>1. item \in AllItems /\ \A it \in AllItems : it.id = item.id => it = item
      BY <1>2 DEF AllItems
    <2>2. reach = [id \in {it.id : it \in AllItems} |->
                      LET it == CHOOSE it \in AllItems : it.id = id
                      IN  [in |-> it.in, out |-> it.out]]
      BY DEF EditInit
    <2>3. (CHOOSE it \in AllItems : it.id = item.id) = item
      <3> HIDE DEF item
      <3>1. QED
        BY <2>1
    <2>4. item.id \in DOMAIN reach /\ reach[item.id] = [in |-> item.in, out |-> item.out]
      <3> HIDE DEF item
      <3>1. QED
        BY <2>1, <2>2, <2>3
    <2>5. /\ item \in Item /\ Complete(item) /\ item.duration > 0 /\ ~BadTiming(item)
          /\ 2 * (item.in * One + item.duration * Speed(item))
                <= (2 * item.out + Grain) * One
      BY <1>2, <1>4, <1>6
    <2>6. \A t \in {item.start, item.duration, item.speed, item.out} \ {None} : t % Grain = 0
      BY <1>9, <2>1 DEF EditInit
    <2> HIDE DEF item
    <2>7. item.in \in Int /\ item.out \in Int /\ Speed(item) \in Int /\ item.duration \in Int
      BY <2>5, SourceFacts DEF Complete, Item
    <2>8. Speed(item) > 0
      BY <2>5, <2>7 DEF BadTiming, HasSource, Speed, Default
    <2>9. OnGrid(item.out)
      BY <1>3, <2>6, <2>7, GridIsModulo
    <2>10. item.duration * Speed(item) <= (item.out - item.in) * One + Grain * One
      <3> DEFINE n == item.duration * Speed(item)
                 i == item.in * One
                 o == item.out * One
                 g == Grain * One
      <3>1. n \in Int /\ i \in Int /\ o \in Int /\ g \in Int /\ 0 <= g
        BY <1>3, <2>7
      <3>2. (2 * item.out + Grain) * One = 2 * o + g /\ (item.out - item.in) * One = o - i
        BY <1>3, <2>7
      <3>3. 2 * (i + n) <= (2 * item.out + Grain) * One
        BY <2>5
      <3> HIDE DEF n, i, o, g
      <3>4. n <= o - i + g
        BY <3>1, <3>2, <3>3
      <3>5. QED
        BY <3>2, <3>4 DEF n, g
    <2>11. Within(item, [in |-> item.in, out |-> item.out])
      BY <1>3, <2>5, <2>7, <2>8, <2>9, <2>10 DEF Within
    <2>12. QED
      BY <2>4, <2>11
  <1>10. exact => even
    BY DEF EditInit
  <1>11. QED
    BY <1>1, <1>2, <1>6, <1>7, <1>8, <1>9, <1>10 DEF EditInv, Edited

LEMMA EditStep == EditInv /\ [EditNext]_editing => EditInv'
  <1> SUFFICES ASSUME EditInv, [EditNext]_editing PROVE EditInv'
    OBVIOUS
  <1>1. CASE UNCHANGED editing
    BY <1>1 DEF editing, EditInv, Timeline
  <1>2. CASE EditNext
    <2>1. PICK command \in Commands, selected \in Selections : Edit(command, selected)
      BY <1>2 DEF EditNext
    <2> DEFINE plan == PlanVideoEditor(Request(command, selected))
               action == plan.action
               new == Applied(action)
    <2>2. /\ plan.ok
          /\ document' = [document EXCEPT !.tracks = new]
          /\ reach' = ReachAfter(action) /\ sped' = SpedAfter(action)
          /\ exact' = (exact /\ \A n \in Numbers(command) : n % Grain = 0)
          /\ applied' = applied + 1 /\ even' = even
      BY <2>1 DEF Edit, ReachAfter, SpedAfter
    <2>3. /\ "tracks" \in DOMAIN document /\ applied \in Nat
          /\ Typed(Timeline, LastId + applied) /\ (exact => even)
      BY DEF EditInv, Edited
    <2>4. IsPlan(action, command)
      BY <2>2, <2>3, PlanFacts DEF Typed
    <2> HIDE DEF action, plan
    <2>5. Typed(new, LastId + (applied + 1))
      BY <2>3, <2>4, TypedStep
    <2>6. Timeline' = new /\ "tracks" \in DOMAIN document'
      BY <2>2, <2>3 DEF Timeline
    <2>7. ASSUME NEW q \in Positions(new)
          PROVE  LET x == ItemAt(new, q) IN
                 /\ even' => Numeric(x) /\ InReach(x, reach', sped')
                 /\ exact' => Renderable(x)
      <3> DEFINE x == ItemAt(new, q)
      <3>1. CASE action.type = "text" /\ x = TextAt(action.start)
                   /\ \E t \in Nat : action.start = RoundTime(t)
        <4>1. PICK t \in Nat : action.start = RoundTime(t)
          BY <3>1
        <4>2. action.start \in Nat /\ OnGrid(action.start)
          BY <4>1, RoundNatFacts, RoundTimeFacts
        <4>3. One \in Nat \ {0} /\ OnGrid(One + One)
          BY NumberAssumption, GridFacts
        <4>4. /\ x.type = "text" /\ x.start = action.start /\ x.duration = 2 * One
              /\ x.speed = None
          BY <3>1 DEF TextAt
        <4>5. Numeric(x)
          <5>1. 2 * One = One + One
            BY <4>3
          <5>2. QED
            BY <4>2, <4>3, <4>4, <5>1 DEF Numeric
        <4>6. InReach(x, reach', sped')
          BY <4>4 DEF InReach, HasSource
        <4>7. Renderable(x)
          BY <4>2, <4>3, <4>4 DEF Renderable, BadTiming
        <4>8. QED
          BY <4>5, <4>6, <4>7
      <3>2. ASSUME NEW p \in Positions(Timeline),
                   Becomes(action, ItemAt(Timeline, p), x, command)
            PROVE  /\ even' => Numeric(x) /\ InReach(x, reach', sped')
                   /\ exact' => Renderable(x)
        <4> DEFINE item == ItemAt(Timeline, p)
        <4>1. /\ item \in Item /\ Complete(item)
              /\ even => Numeric(item) /\ InReach(item, reach, sped)
              /\ exact => Renderable(item)
          <5>1. item \in Item
            BY <2>3, PositionFacts DEF Typed
          <5>2. QED
            BY <2>3, <5>1 DEF Typed, EditInv, Edited
        <4>2. item.id # FreshId
          BY <2>3, FreshFacts
        <4> HIDE DEF item, x, new
        <4>3. Becomes(action, item, x, command)
          BY <3>2 DEF item
        <4>4. even => Numeric(x)
          BY <4>1, <4>3, NumericStep
        <4>5. even => InReach(x, ReachAfter(action), SpedAfter(action))
          BY <4>1, <4>2, <4>3, InReachStep
        <4>6. exact /\ (\A n \in Numbers(command) : n % Grain = 0) => Renderable(x)
          BY <2>3, <4>1, <4>3, RenderableStep
        <4>7. QED
          BY <2>2, <4>4, <4>5, <4>6
      <3>3. QED
        BY <2>3, <2>4, <3>1, <3>2, BecomesFacts
    <2> HIDE DEF new
    <2>8. Edited(new, applied + 1, reach', even', exact', sped')
      <3>1. exact' => even'
        BY <2>2, <2>3
      <3>2. applied + 1 \in Nat
        BY <2>3
      <3>3. QED
        BY <2>5, <2>7, <3>1, <3>2 DEF Edited
    <2>9. QED
      BY <2>2, <2>6, <2>8 DEF EditInv
  <1>3. QED
    BY <1>1, <1>2

LEMMA EditInvariant == EditSpec => []EditInv
  BY EditInitial, EditStep, PTL DEF EditSpec

-----------------------------------------------------------------------------
(* The export.                                                             *)

(* Plans with numbers on the grid leave every item with times and a speed  *)
(* the renderer accepts.                                                   *)
THEOREM EditedIsRenderable == EditSpec => []PlansKeepRenderable
  <1>1. EditInv => PlansKeepRenderable
    BY DEF EditInv, Edited, PlansKeepRenderable, AllItems, Renderable
  <1>2. QED
    BY <1>1, EditInvariant, PTL

(* What is drawn and heard are fields of items.                            *)
LEMMA VisualFacts ==
    ASSUME NEW tracks, NEW x \in VisualItems(tracks)
    PROVE  \E p \in EnteredOf(tracks, Pictures) :
              x = VisualItem(tracks, ItemAt(tracks, p))
  BY DEF VisualItems

LEMMA TextOverlayFacts ==
    ASSUME NEW tracks, NEW x \in TextOverlays(tracks)
    PROVE  \E p \in EnteredOf(tracks, {"text"}) :
              x = TextOverlay(tracks, ItemAt(tracks, p))
  BY DEF TextOverlays

LEMMA AudioFacts ==
    ASSUME NEW tracks, NEW x \in AudioItems(tracks)
    PROVE  \E p \in Positions(tracks) :
              /\ HasSource(ItemAt(tracks, p))
              /\ \E owner : x = AudioItem(ItemAt(tracks, p), owner)
  <1>1. PICK r \in Entered(tracks) \X {"audio-item", "embedded-video"} :
            /\ Heard(tracks, r[1], r[2])
            /\ x = AudioItem(ItemAt(tracks, r[1]), r[2])
    BY DEF AudioItems
  <1> DEFINE p == r[1]
             owner == r[2]
  <1>2. p \in Positions(tracks) /\ owner \in {"audio-item", "embedded-video"}
    BY <1>1 DEF Entered, Shown
  <1>3. HasSource(ItemAt(tracks, p))
    BY <1>1, <1>2 DEF Heard, HasSource
  <1>4. QED
    BY <1>1, <1>2, <1>3

(* However clips are trimmed, split and moved, the export shows of each    *)
(* only what was in it at first, and its sound lasts as long.              *)
THEOREM ExportStaysInReach == EditSpec => []ShowsItsRange
  <1> DEFINE manifest == BuildManifest(EditedJob)
  <1>1. manifest.visual = VisualItems(Timeline) /\ manifest.audio = AudioItems(Timeline)
    BY DEF BuildManifest, EditedJob, Timeline
  <1> HIDE DEF manifest
  <1>2. One \in Nat \ {0} /\ Grain \in Nat \ {0} /\ FrameTicks \in Nat \ {0} /\ None \notin Int
    BY NumberAssumption, FrameAssumption
  <1>3. ASSUME EditInv, even, NEW p \in Positions(Timeline)
        PROVE  LET item == ItemAt(Timeline, p) IN
               /\ item \in Item /\ Complete(item)
               /\ InReach(item, reach, sped)
    BY <1>3, PositionFacts DEF EditInv, Edited, Typed
  <1>4. ASSUME EditInv, even, NEW x \in VisualItems(Timeline),
               x.type = "video", x.id \notin sped, NEW f \in Int,
               ActiveAt(x, f * FrameTicks)
        PROVE  /\ SourcePosition(x, f) >= reach[x.id].in * One
               /\ SourcePosition(x, f) < (reach[x.id].out + Grain) * One
    <2>1. PICK p \in EnteredOf(Timeline, Pictures) :
              x = VisualItem(Timeline, ItemAt(Timeline, p))
      BY VisualFacts
    <2> DEFINE item == ItemAt(Timeline, p)
               range == reach[item.id]
    <2>2. /\ x.id = item.id /\ x.type = item.type /\ x.start = item.start
          /\ x.duration = item.duration /\ x.in = item.in /\ x.speed = item.speed
      BY <2>1 DEF VisualItem
    <2>3. p \in Positions(Timeline)
      BY <2>1 DEF EnteredOf, Entered, Shown
    <2>4. HasSource(item)
      BY <1>4, <2>2 DEF HasSource
    <2>5. item \in Item /\ Complete(item) /\ Within(item, range)
      BY <1>3, <1>4, <2>2, <2>3, <2>4 DEF InReach
    <2> HIDE DEF item, range
    <2>6. /\ item.start \in Int /\ item.duration \in Int /\ item.in \in Int
          /\ item.speed \in Int /\ item.speed = Speed(item)
      BY <1>2, <1>4, <2>2, <2>4, <2>5 DEF Complete, Item, Speed, Default
    <2> DEFINE start == item.start
               d == item.duration
               in == item.in
               sp == item.speed
               first == FirstFrame(x)
               u == first * FrameTicks
               v == f * FrameTicks
    <2>7. /\ range.in \in Int /\ range.out \in Int /\ sp > 0 /\ range.in <= in
          /\ 2 * (in * One + d * sp) <= (2 * range.out + Grain) * One
      BY <2>5, <2>6 DEF Within
    <2>8. first \in Int
      BY <1>2, <2>2, <2>6 DEF FirstFrame, Larger, Ceiling
    <2>9. SourcePosition(x, f) =
             in * One + (u - start) * sp + (f - first) * FrameTicks * sp
      BY <2>2 DEF SourcePosition, ItemTime
    <2>10. start <= v /\ v < start + d
      BY <1>4, <2>2 DEF ActiveAt
    <2>11. /\ start \in Int /\ d \in Int /\ in \in Int /\ sp \in Int
      BY <2>6
    <2> HIDE DEF start, d, in, sp, first
    <2>12. u \in Int /\ v \in Int /\ (f - first) * FrameTicks = v - u
      BY <1>2, <2>8
    <2> HIDE DEF u, v
    <2> DEFINE t == v - start
               m == t * sp
               n == d * sp
               i == in * One
    <2>13. (u - start) * sp + (v - u) * sp = m
      BY <2>11, <2>12
    <2>14. SourcePosition(x, f) = i + m
      <3> DEFINE y == (u - start) * sp
                 z == (v - u) * sp
      <3>1. y \in Int /\ z \in Int /\ i \in Int /\ y + z = m
        BY <1>2, <2>11, <2>12, <2>13
      <3>2. SourcePosition(x, f) = i + y + z
        BY <2>9, <2>12
      <3> HIDE DEF y, z, i, m
      <3>3. QED
        BY <3>1, <3>2
    <2>15. t \in Int /\ 0 <= t /\ t < d
      BY <2>10, <2>11, <2>12
    <2> HIDE DEF t
    <2>16. m \in Int /\ n \in Int /\ 0 <= m /\ m < n
      <3>1. 0 * sp <= t * sp
        BY <2>7, <2>11, <2>15
      <3>2. t * sp < d * sp
        <4>1. (t + 1) * sp <= d * sp
          BY <2>7, <2>11, <2>15
        <4>2. (t + 1) * sp = t * sp + sp
          BY <2>11, <2>15
        <4>3. t * sp \in Int /\ d * sp \in Int
          BY <2>11, <2>15
        <4>4. QED
          BY <2>7, <2>11, <4>1, <4>2, <4>3
      <3>3. m \in Int /\ n \in Int /\ 0 * sp = 0
        BY <2>11, <2>15
      <3>4. QED
        BY <3>1, <3>2, <3>3
    <2> DEFINE r == range.out * One
               g == Grain * One
               l == range.in * One
    <2>17. /\ i \in Int /\ r \in Int /\ g \in Int /\ 0 <= g /\ l \in Int /\ l <= i
           /\ (2 * range.out + Grain) * One = 2 * r + g
           /\ (range.out + Grain) * One = r + g
      <3>1. l <= i
        BY <1>2, <2>7, <2>11
      <3>2. QED
        BY <1>2, <2>7, <2>11, <3>1
    <2>18. 2 * (i + n) <= 2 * r + g
      BY <2>7, <2>17
    <2> HIDE DEF m, n, i, r, g, l
    <2>19. i + m >= l /\ i + m < r + g
      BY <2>16, <2>17, <2>18
    <2>20. x.id = item.id /\ reach[x.id] = range
      BY <2>2 DEF range
    <2>21. QED
      BY <2>14, <2>17, <2>19, <2>20 DEF l
  <1>5. ASSUME EditInv, even, NEW x \in AudioItems(Timeline), x.id \notin sped
        PROVE  AudioLength(x) + Grain * One >= x.duration * x.speed
    <2>1. PICK p \in Positions(Timeline) :
              /\ HasSource(ItemAt(Timeline, p))
              /\ \E owner : x = AudioItem(ItemAt(Timeline, p), owner)
      BY AudioFacts
    <2> DEFINE item == ItemAt(Timeline, p)
    <2>2. /\ x.id = item.id /\ x.duration = item.duration
          /\ x.in = item.in /\ x.out = item.out /\ x.speed = Speed(item)
      BY <2>1 DEF AudioItem, Speed
    <2>3. item \in Item /\ Complete(item) /\ Within(item, reach[item.id])
      BY <1>3, <1>5, <2>1, <2>2 DEF InReach
    <2>4. HasSource(item)
      BY <2>1
    <2> HIDE DEF item
    <2>5. item.duration \in Int /\ item.in \in Int /\ item.out \in Int /\ Speed(item) \in Int
      BY <2>3, <2>4, SourceFacts DEF Complete, Item
    <2> DEFINE n == item.duration * Speed(item)
               m == (item.out - item.in) * One
               g == Grain * One
    <2>6. n <= m + g
      BY <2>3 DEF Within
    <2>7. n \in Int /\ m \in Int /\ g \in Int /\ 0 <= g
      BY <1>2, <2>5
    <2>8. AudioLength(x) = IF n <= m THEN n ELSE m
      BY <2>2 DEF AudioLength, Smaller
    <2>9. x.duration * x.speed = n
      BY <2>2
    <2> HIDE DEF n, m, g
    <2>10. AudioLength(x) + g >= n
      BY <2>6, <2>7, <2>8
    <2>11. QED
      BY <2>9, <2>10 DEF g
  <1>6. EditInv => ShowsItsRange
    <2> SUFFICES ASSUME EditInv, even
                 PROVE  ShowsItsRange
      BY DEF ShowsItsRange
    <2>1. \A f \in 0..FrameCount(manifest) : f \in Int
      OBVIOUS
    <2>2. QED
      BY <1>1, <1>4, <1>5, <2>1 DEF ShowsItsRange, manifest
  <1>7. QED
    BY <1>6, EditInvariant, PTL

(* The frames an item that starts on a frame is shown at are among those   *)
(* the validation looked at.                                               *)
THEOREM ExportIsValidated == EditSpec => []RenderedStatesAreValid
  <1> DEFINE manifest == BuildManifest(EditedJob)
             drawn == VisualItems(Timeline) \cup TextOverlays(Timeline)
  <1>1. manifest.visual \cup manifest.texts = drawn
    BY DEF BuildManifest, EditedJob, Timeline
  <1>2. ~Rejected(EditedJob) => \A it \in drawn : ValidFrames(it)
    BY DEF Rejected, EditedJob, Timeline
  <1> HIDE DEF manifest
  <1>3. ASSUME EditInv, NEW x \in drawn
        PROVE  x.start \in Int /\ x.duration \in Int
    <2>1. \E p \in Positions(Timeline) :
             x.start = ItemAt(Timeline, p).start /\ x.duration = ItemAt(Timeline, p).duration
      <3>1. CASE x \in VisualItems(Timeline)
        BY <3>1, VisualFacts DEF VisualItem, EnteredOf, Entered, Shown
      <3>2. CASE x \in TextOverlays(Timeline)
        BY <3>2, TextOverlayFacts DEF TextOverlay, EnteredOf, Entered, Shown
      <3>3. QED
        BY <3>1, <3>2
    <2>2. \A p \in Positions(Timeline) : ItemAt(Timeline, p) \in Item
      BY <1>3, PositionFacts DEF EditInv, Edited, Typed
    <2>3. QED
      BY <2>1, <2>2 DEF Item
  <1>4. ASSUME NEW x, x.start \in Int, x.duration \in Int, ValidFrames(x),
               x.start % FrameTicks = 0, NEW f \in Int, ActiveAt(x, f * FrameTicks)
        PROVE  ValidAt(x, ItemTime(x, f))
    <2> DEFINE d == x.duration
               s == x.start \div FrameTicks
               k == f - s
               e == -d
               c == e \div FrameTicks
               r == e % FrameTicks
    <2>1. FrameTicks \in Nat \ {0}
      BY FrameAssumption
    <2>2. s \in Int /\ x.start = FrameTicks * s
      BY <1>4, <2>1
    <2> HIDE DEF s
    <2>3. k \in Int /\ ItemTime(x, f) = k * FrameTicks
      <3>1. (f - s) * FrameTicks = f * FrameTicks - FrameTicks * s
        BY <2>1, <2>2
      <3>2. QED
        BY <2>2, <3>1 DEF ItemTime
    <2>4. 0 <= k * FrameTicks /\ k * FrameTicks < d
      <3> DEFINE v == f * FrameTicks
      <3>1. v \in Int /\ x.start <= v /\ v < x.start + d /\ k * FrameTicks = v - x.start
        BY <1>4, <2>1, <2>3 DEF ActiveAt, ItemTime
      <3> HIDE DEF v, k
      <3>2. QED
        BY <1>4, <3>1
    <2>5. e \in Int /\ e = -d
      BY <1>4
    <2>6. Ceiling(d, FrameTicks) = -c
      BY DEF Ceiling
    <2> HIDE DEF k, d, e
    <2>7. c \in Int /\ r \in 0..(FrameTicks - 1) /\ -d = FrameTicks * c + r
      BY <2>1, <2>5
    <2> HIDE DEF c, r
    <2>8. 0 <= k
      <3> SUFFICES ASSUME k <= -1 PROVE FALSE
        BY <2>3
      <3>1. k * FrameTicks <= (-1) * FrameTicks
        BY <2>1, <2>3
      <3>2. QED
        BY <2>1, <2>3, <2>4, <3>1
    <2>9. k <= -c
      <3> SUFFICES ASSUME -c + 1 <= k PROVE FALSE
        BY <2>3, <2>7
      <3>1. (-c) * FrameTicks <= k * FrameTicks
        BY <2>1, <2>3, <2>7
      <3>2. (-c) * FrameTicks = -(FrameTicks * c)
        BY <2>1, <2>7
      <3>3. k * FrameTicks \in Int /\ FrameTicks * c \in Int /\ d \in Int
        BY <1>4, <2>1, <2>3, <2>7 DEF d
      <3>4. QED
        BY <2>1, <2>4, <2>7, <3>1, <3>2, <3>3
    <2>10. k \in 0..Larger(1, Ceiling(d, FrameTicks))
      BY <2>3, <2>6, <2>7, <2>8, <2>9 DEF Larger
    <2>11. Smaller(d, k * FrameTicks) = k * FrameTicks
      <3>1. k * FrameTicks \in Int /\ d \in Int
        BY <1>4, <2>1, <2>3 DEF d
      <3>2. QED
        BY <2>4, <3>1 DEF Smaller
    <2>12. Smaller(d, k * FrameTicks) \in ValidatedTimes(x)
      BY <2>10 DEF ValidatedTimes, d
    <2>13. QED
      BY <1>4, <2>3, <2>11, <2>12 DEF ValidFrames
  <1> HIDE DEF drawn
  <1>5. EditInv => RenderedStatesAreValid
    <2> SUFFICES ASSUME EditInv, ~Rejected(EditedJob), NEW x \in drawn, x.start % FrameTicks = 0,
                        NEW f \in 0..FrameCount(manifest), ActiveAt(x, f * FrameTicks)
                 PROVE  ValidAt(x, ItemTime(x, f))
      BY <1>1 DEF RenderedStatesAreValid, manifest
    <2>1. f \in Int
      OBVIOUS
    <2>2. QED
      BY <1>2, <1>3, <1>4, <2>1
  <1>6. QED
    BY <1>5, EditInvariant, PTL

(* The keys of a frame's layers, compared part by part.                    *)
LEMMA BeforeFacts ==
    ASSUME NEW a, NEW b, NEW n \in Nat, a \in [1..n -> Int], b \in [1..n -> Int]
    PROVE  /\ ~Before(a, a)
           /\ n = 5 => (Before(a, b) <=>
                 \/ a[1] < b[1]
                 \/ a[1] = b[1] /\ a[2] < b[2]
                 \/ a[1] = b[1] /\ a[2] = b[2] /\ a[3] < b[3]
                 \/ a[1] = b[1] /\ a[2] = b[2] /\ a[3] = b[3] /\ a[4] < b[4]
                 \/ a[1] = b[1] /\ a[2] = b[2] /\ a[3] = b[3] /\ a[4] = b[4] /\ a[5] < b[5])
           /\ n = 2 => (a[1] < b[1] => Before(a, b))
  <1>1. ~Before(a, a)
    BY DEF Before
  <1>2. ASSUME n = 2, a[1] < b[1] PROVE Before(a, b)
    BY <1>2 DEF Before
  <1>3. CASE n = 5
    <2>1. DOMAIN a = {1, 2, 3, 4, 5}
      BY <1>3
    <2>2. /\ 1..(1 - 1) = {} /\ 1..(2 - 1) = {1} /\ 1..(3 - 1) = {1, 2}
          /\ 1..(4 - 1) = {1, 2, 3} /\ 1..(5 - 1) = {1, 2, 3, 4}
      OBVIOUS
    <2>3. QED
      BY <1>1, <1>2, <1>3, <2>1, <2>2 DEF Before
  <1>4. QED
    BY <1>1, <1>2, <1>3

(* What is drawn, in the order of its keys.                                *)
Drawn == {p \in Shown(Timeline) : ItemAt(Timeline, p).type # "audio"}
Below == {pq \in Drawn \X Drawn : Before(StackKey(Timeline, pq[1]), StackKey(Timeline, pq[2]))}

LEMMA DrawnFacts ==
    ASSUME EditInv
    PROVE  /\ IsFiniteSet(Drawn) /\ Ordered(Drawn, Below)
           /\ \A p, q \in Drawn :
                 /\ Timeline[p[1]].kind = "video" /\ ItemAt(Timeline, p).type = "video"
                 /\ ItemAt(Timeline, q).type \in {"text", "overlay"}
                 => <<p, q>> \in Below
  <1> DEFINE key(p) == StackKey(Timeline, p)
             low(p) == Timeline[p[1]].kind = "video" /\ ItemAt(Timeline, p).type \in {"video", "image"}
  <1>1. Timeline \in Seq(Track) /\ Distinct(Timeline) /\ None \notin Int
    BY NumberAssumption DEF EditInv, Edited, Typed
  <1>2. Drawn \subseteq Positions(Timeline)
    BY DEF Drawn, Shown
  <1>3. IsFiniteSet(Drawn)
    BY <1>1, <1>2, PositionsFinite, FS_Subset
  <1>4. ASSUME NEW p \in Drawn
        PROVE  /\ key(p) \in [1..5 -> Int]
               /\ key(p)[1] = IF low(p) THEN 0 ELSE 1
               /\ key(p)[5] = ItemAt(Timeline, p).id
    <2> DEFINE item == ItemAt(Timeline, p)
               layer == Default(item.layer, 0)
    <2>1. p[1] \in Int /\ p[2] \in Int /\ item \in Item
      BY <1>1, <1>2, PositionFacts
    <2>2. layer \in Int /\ item.id \in Int
      BY <2>1 DEF Item, Maybe, Default
    <2>3. key(p) = IF low(p) THEN <<0, -p[1], layer, p[2], item.id>>
                   ELSE <<1, layer, p[1], p[2], item.id>>
      BY DEF StackKey
    <2> HIDE DEF layer, item, low, key
    <2>4. /\ <<0, -p[1], layer, p[2], item.id>> \in [1..5 -> Int]
          /\ <<1, layer, p[1], p[2], item.id>> \in [1..5 -> Int]
      BY <2>1, <2>2
    <2>5. QED
      BY <2>3, <2>4 DEF item
  <1> HIDE DEF key
  <1>5. ASSUME NEW p \in Drawn, NEW q \in Drawn
        PROVE  /\ <<p, q>> \in Below <=> Before(key(p), key(q))
               /\ ~Before(key(p), key(p))
               /\ Before(key(p), key(q)) <=>
                     LET a == key(p)
                         b == key(q)
                     IN  \/ a[1] < b[1]
                         \/ a[1] = b[1] /\ a[2] < b[2]
                         \/ a[1] = b[1] /\ a[2] = b[2] /\ a[3] < b[3]
                         \/ a[1] = b[1] /\ a[2] = b[2] /\ a[3] = b[3] /\ a[4] < b[4]
                         \/ a[1] = b[1] /\ a[2] = b[2] /\ a[3] = b[3] /\ a[4] = b[4] /\ a[5] < b[5]
    <2>1. <<p, q>> \in Below <=> Before(key(p), key(q))
      BY DEF Below, key
    <2>2. key(p) \in [1..5 -> Int] /\ key(q) \in [1..5 -> Int]
      BY <1>4
    <2>3. QED
      BY <2>1, <2>2, BeforeFacts
  <1>6. ASSUME NEW p \in Drawn, NEW q \in Drawn
        PROVE  p = q \/ <<p, q>> \in Below \/ <<q, p>> \in Below
    <2> SUFFICES ASSUME ~(<<p, q>> \in Below), ~(<<q, p>> \in Below) PROVE p = q
      OBVIOUS
    <2>1. \A k \in 1..5 : key(p)[k] \in Int /\ key(q)[k] \in Int
      BY <1>4
    <2>2. key(p)[5] = key(q)[5]
      BY <1>5, <2>1
    <2>3. ItemAt(Timeline, p).id = ItemAt(Timeline, q).id
      BY <1>4, <2>2
    <2>4. QED
      BY <1>1, <1>2, <2>3 DEF Distinct
  <1>7. ASSUME NEW p \in Drawn, NEW q \in Drawn, NEW r \in Drawn,
               <<p, q>> \in Below, <<q, r>> \in Below
        PROVE  <<p, r>> \in Below
    <2>1. \A k \in 1..5 : key(p)[k] \in Int /\ key(q)[k] \in Int /\ key(r)[k] \in Int
      BY <1>4
    <2>2. QED
      BY <1>5, <1>7, <2>1
  <1>8. Ordered(Drawn, Below)
    BY <1>5, <1>6, <1>7 DEF Ordered
  <1>9. ASSUME NEW p \in Drawn, NEW q \in Drawn,
               Timeline[p[1]].kind = "video", ItemAt(Timeline, p).type = "video",
               ItemAt(Timeline, q).type \in {"text", "overlay"}
        PROVE  <<p, q>> \in Below
    <2>1. key(p)[1] = 0 /\ key(q)[1] = 1
      BY <1>4, <1>9
    <2>2. QED
      BY <1>5, <2>1
  <1>10. QED
    BY <1>3, <1>8, <1>9

(* The number of an item is its place, less one.                           *)
LEMMA StackFacts ==
    ASSUME EditInv, NEW p \in Drawn
    PROVE  StackOrder(Timeline, ItemAt(Timeline, p).id) = Place(Drawn, Below, p) - 1
  <1> DEFINE rank(q) == Cardinality({r \in Drawn :
                            Before(StackKey(Timeline, r), StackKey(Timeline, q))})
             id == ItemAt(Timeline, p).id
             same == {q \in Drawn : ItemAt(Timeline, q).id = id}
             last == CHOOSE q \in same : \A r \in same : rank(q) >= rank(r)
  <1>1. same = {p}
    <2>1. Drawn \subseteq Positions(Timeline) /\ Distinct(Timeline)
      BY DEF Drawn, Shown, EditInv, Edited, Typed
    <2>2. QED
      BY <2>1 DEF Distinct
  <1>2. {r \in Drawn : <<r, p>> \in Below} =
           {r \in Drawn : Before(StackKey(Timeline, r), StackKey(Timeline, p))}
    BY DEF Below
  <1>3. Place(Drawn, Below, p) = rank(p) + 1
    BY <1>2 DEF Place
  <1>4. rank(p) \in Nat
    <2>1. IsFiniteSet(Drawn)
      BY DrawnFacts
    <2>2. {r \in Drawn : Before(StackKey(Timeline, r), StackKey(Timeline, p))} \in SUBSET Drawn
      OBVIOUS
    <2>3. QED
      BY <2>1, <2>2, FS_Subset, FS_CardinalityType
  <1>5. StackOrder(Timeline, id) = rank(last)
    BY DEF StackOrder, Drawn
  <1> HIDE DEF rank, id, same
  <1>6. last = p
    BY <1>1, <1>4
  <1> HIDE DEF last
  <1>7. QED
    BY <1>3, <1>4, <1>5, <1>6 DEF id

(* No two layers of a frame share their place, and every video is below    *)
(* overlays and texts.                                                     *)
THEOREM LayersAreStacked == EditSpec => []LayersAreOrdered
  <1> DEFINE manifest == BuildManifest(EditedJob)
  <1>1. ASSUME NEW f, NEW x \in Layers(manifest, f)
        PROVE  \E p \in Drawn :
                  /\ x.id = ItemAt(Timeline, p).id
                  /\ x.stack = StackOrder(Timeline, ItemAt(Timeline, p).id)
                  /\ x.type = ItemAt(Timeline, p).type
    <2>1. x \in VisualItems(Timeline) \/ x \in TextOverlays(Timeline)
      BY DEF Layers, BuildManifest, EditedJob, Timeline
    <2>2. CASE x \in VisualItems(Timeline)
      <3>1. PICK p \in EnteredOf(Timeline, Pictures) :
                x = VisualItem(Timeline, ItemAt(Timeline, p))
        BY <2>2, VisualFacts
      <3>2. p \in Drawn
        BY DEF EnteredOf, Entered, Drawn, Pictures
      <3>3. QED
        BY <3>1, <3>2 DEF VisualItem
    <2>3. CASE x \in TextOverlays(Timeline)
      <3>1. PICK p \in EnteredOf(Timeline, {"text"}) :
                x = TextOverlay(Timeline, ItemAt(Timeline, p))
        BY <2>3, TextOverlayFacts
      <3>2. p \in Drawn /\ ItemAt(Timeline, p).type = "text"
        BY DEF EnteredOf, Entered, Drawn
      <3>3. QED
        BY <3>1, <3>2 DEF TextOverlay
    <2>4. QED
      BY <2>1, <2>2, <2>3
  <1> HIDE DEF manifest
  <1>2. ASSUME EditInv, NEW f, NEW x \in Layers(manifest, f), NEW y \in Layers(manifest, f)
        PROVE  /\ x.id # y.id => x.stack # y.stack
               /\ x.type = "video" /\ y.type \in {"text", "overlay"} => IsBelow(x, y)
    <2>1. PICK p \in Drawn :
              /\ x.id = ItemAt(Timeline, p).id
              /\ x.stack = StackOrder(Timeline, ItemAt(Timeline, p).id)
              /\ x.type = ItemAt(Timeline, p).type
      BY <1>1
    <2>2. PICK q \in Drawn :
              /\ y.id = ItemAt(Timeline, q).id
              /\ y.stack = StackOrder(Timeline, ItemAt(Timeline, q).id)
              /\ y.type = ItemAt(Timeline, q).type
      BY <1>1
    <2> DEFINE i == Place(Drawn, Below, p)
               j == Place(Drawn, Below, q)
    <2>3. x.stack = i - 1 /\ y.stack = j - 1
      BY <1>2, <2>1, <2>2, StackFacts
    <2>4. IsFiniteSet(Drawn) /\ Ordered(Drawn, Below)
      BY <1>2, DrawnFacts
    <2>5. /\ i \in Int /\ j \in Int
          /\ i = j => p = q
          /\ <<p, q>> \in Below => i < j
      <3>1. \A n : \A k \in 1..n : k \in Int
        OBVIOUS
      <3>2. QED
        BY <2>1, <2>2, <2>4, <3>1, PlaceFacts
    <2> HIDE DEF i, j
    <2>6. ASSUME x.id # y.id PROVE x.stack # y.stack
      BY <2>1, <2>2, <2>3, <2>5, <2>6
    <2>7. ASSUME x.type = "video", y.type \in {"text", "overlay"} PROVE IsBelow(x, y)
      <3>1. p \in Positions(Timeline) /\ q \in Positions(Timeline)
        BY <2>1, <2>2 DEF Drawn, Shown
      <3>2. Timeline[p[1]].kind = "video"
        BY <1>2, <2>1, <2>7, <3>1 DEF EditInv, Edited, Typed
      <3>3. <<p, q>> \in Below
        BY <1>2, <2>1, <2>2, <2>7, <3>2, DrawnFacts
      <3>4. x.stack \in Int /\ y.stack \in Int /\ x.stack < y.stack
        BY <2>3, <2>5, <3>3
      <3>5. x.id \in Int /\ y.id \in Int
        <4>1. ItemAt(Timeline, p) \in Item /\ ItemAt(Timeline, q) \in Item
          BY <1>2, <3>1, PositionFacts DEF EditInv, Edited, Typed
        <4>2. QED
          BY <2>1, <2>2, <4>1 DEF Item
      <3> DEFINE a == <<x.stack, x.id>>
                 b == <<y.stack, y.id>>
      <3>6. a \in [1..2 -> Int] /\ b \in [1..2 -> Int] /\ a[1] < b[1]
        BY <3>4, <3>5
      <3>7. IsBelow(x, y) <=> Before(a, b)
        BY DEF IsBelow
      <3> HIDE DEF a, b
      <3>8. Before(a, b)
        BY <3>6, BeforeFacts
      <3>9. QED
        BY <3>7, <3>8
    <2>8. QED
      BY <2>6, <2>7
  <1>3. EditInv => LayersAreOrdered
    BY <1>2 DEF LayersAreOrdered, manifest
  <1>4. QED
    BY <1>3, EditInvariant, PTL
=============================================================================
