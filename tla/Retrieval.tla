----------------------------- MODULE Retrieval ------------------------------
(***************************************************************************)
(* Video-editor retrieval and its result cache                             *)
(* (src/kuvox_ai/modules/retrieval/service.py and result_cache.py), while  *)
(* ingestions rewrite the index that is searched.                          *)
(*                                                                         *)
(* A call asks for a scope of media, of which the BFF gives it the         *)
(* revisions: a revision of a medium is published when an ingestion of it  *)
(* has completed, and the key of the cache has those of the whole scope.   *)
(* Single flight is what AuthoritativeCall says of it: a call that misses  *)
(* may read the cache again until it computes its answer.                  *)
(*                                                                         *)
(* A shot is a pair of its medium and its position there; what a search    *)
(* returns of it is the generation (the ingestion) that wrote its point.   *)
(* Scores of the encoder, texts, evidence and neighbours in the graph are  *)
(* left out; of the graph there is whether its queries fail.               *)
(***************************************************************************)
EXTENDS Naturals, Sequences, FiniteSets, SequencesExt, Ordering

CONSTANTS
    Calls, Media,
    Shots,          \* pairs of a medium and a position in it
    Orders,         \* how far the shots may be from the query, in each modality
    Requests,       \* what calls ask for, without the revisions
    Generations,    \* bound on the ingestions of each medium
    MaxEntries,     \* bound on the keys that have a value
    Reciprocal,     \* 1 / (60 + rank) of every rank, in a unit that makes them integers
    NoRevisions,    \* of a request without
    Corrupt         \* a value that is not valid

Searchable == <<"transcript", "ocr">>
Modalities == Range(Searchable)

ASSUME RetrievalAssumption ==
    /\ Media \subseteq Nat /\ Shots \subseteq Media \X Nat /\ IsFiniteSet(Shots)
    /\ \A o \in Orders, m \in Modalities :
          o[m] \in [Shots -> Nat] /\ \A s, t \in Shots : o[m][s] = o[m][t] => s = t
    /\ \A r \in Requests :
          /\ r.scope \subseteq Media /\ r.scope # {} /\ r.top \in Nat \ {0}
          /\ r.keyed \in BOOLEAN /\ r.modalities \in Seq({"transcript", "ocr", "visual", "audio"})
    /\ Generations \in [Media -> Nat] /\ MaxEntries \in Nat

VARIABLES
    distance,  \* how far the shots are from the query, in each modality
    index,     \* the generation of each medium's points in each collection, or 0
    begun,     \* the generation that the last ingestion of a medium writes
    step,      \* the step that ingestion does next, or 0
    revision,  \* the generation of which each medium's revision was published
    cache,     \* the values of the keys that have one
    pc, request, hits, warned, answer

ingestion == <<index, begun, step, revision>>
calls == <<pc, request, hits, warned, answer>>
vars == <<distance, ingestion, cache, calls>>

-----------------------------------------------------------------------------
(* Mutant: the revision of the scope is not part of the key. *)
KeyWithoutRevision(r) == [scope |-> r.scope, modalities |-> r.modalities, top |-> r.top]

(* key_for: without a scope revision there is no key.  The media, their    *)
(* revisions and the numbers of the request are all part of it.            *)
KeyFor(r) == [scope |-> r.scope, revisions |-> r.revisions,
              modalities |-> r.modalities, top |-> r.top]

HasKey(r) == r.revisions # NoRevisions

(* Reciprocal rank fusion: the scores are exact.                           *)
ASSUME ReciprocalAssumption ==
    LET ranks == 1..Cardinality(Shots) IN
    /\ Reciprocal \in [ranks -> Nat \ {0}]
    /\ \A j, k \in ranks : Reciprocal[j] * (60 + j) = Reciprocal[k] * (60 + k)

(* Of a shot that is in found, its rank there.                             *)
Rank(found, s) == CHOOSE k \in DOMAIN found : found[k].shot = s

IsIn(found, s) == \E k \in DOMAIN found : found[k].shot = s

(* Mutant: the rank counts from the end. *)
WeightFromEnd(found, s) ==
    IF IsIn(found, s) THEN Reciprocal[Len(found) + 1 - Rank(found, s)] ELSE 0

(* What _merge_hit adds for one hit.                                       *)
Weight(found, s) ==
    IF IsIn(found, s) THEN Reciprocal[Rank(found, s)] ELSE 0

Score(found, s) == Weight(found["transcript"], s) + Weight(found["ocr"], s)

Generation(found, s) == IF IsIn(found, s) THEN found[Rank(found, s)].generation ELSE 0

(* The order of the results: by score, start and id.                       *)
Precedes(found, s, t) ==
    \/ Score(found, s) > Score(found, t)
    \/ /\ Score(found, s) = Score(found, t)
       /\ s[2] < t[2] \/ (s[2] = t[2] /\ s[1] < t[1])

(* The accumulators, sorted and cut.                                       *)
Fused(found, top) ==
    LET merged == {s \in Shots : \E m \in Modalities : IsIn(found[m], s)}
        sorted == Sorted(merged, {p \in merged \X merged : Precedes(found, p[1], p[2])}, top)
    IN  [k \in DOMAIN sorted |->
            [shot |-> sorted[k],
             generations |-> [m \in Modalities |-> Generation(found[m], sorted[k])]]]

(* What _read checks of a value.                                           *)
Valid(value, r) ==
    /\ value # Corrupt
    /\ value # <<>> /\ Len(value) <= r.top
    /\ \A k \in DOMAIN value : value[k].shot[1] \in r.scope

-----------------------------------------------------------------------------
NothingFound == [m \in Modalities |-> <<>>]
NoRequest == [scope |-> {}, revisions |-> NoRevisions, modalities |-> <<>>, top |-> 1]

(* Every medium was ingested once.                                         *)
Init ==
    /\ distance \in Orders
    /\ index = [m \in Modalities |-> [v \in Media |-> 1]]
    /\ begun = [v \in Media |-> 1]
    /\ step = [v \in Media |-> 0]
    /\ revision = [v \in Media |-> 1]
    /\ cache = << >>
    /\ pc = [c \in Calls |-> "idle"]
    /\ request = [c \in Calls |-> NoRequest]
    /\ hits = [c \in Calls |-> NothingFound]
    /\ warned = [c \in Calls |-> FALSE]
    /\ answer = [c \in Calls |-> <<>>]

(* An ingestion deletes and upserts the points of each collection (see     *)
(* ModalityIndex), and may find nothing for one; its completion makes the  *)
(* API publish a revision.  It may fail before any step.                   *)
Collection(v) == Searchable[(step[v] + 1) \div 2]

Ingest(v) ==
    \/ /\ step[v] = 0
       /\ begun[v] < Generations[v]
       /\ begun' = [begun EXCEPT ![v] = @ + 1]
       /\ step' = [step EXCEPT ![v] = 1]
       /\ UNCHANGED <<distance, index, revision, cache, calls>>
    \/ /\ step[v] \in 1..4
       /\ \E g \in IF step[v] % 2 = 1 THEN {0} ELSE {0, begun[v]} :
             index' = [index EXCEPT ![Collection(v)][v] = g]
       /\ step' = [step EXCEPT ![v] = @ + 1]
       /\ UNCHANGED <<distance, begun, revision, cache, calls>>
    \/ /\ step[v] = 5
       /\ revision' = [revision EXCEPT ![v] = begun[v]]
       /\ step' = [step EXCEPT ![v] = 0]
       /\ UNCHANGED <<distance, index, begun, cache, calls>>
    \/ /\ step[v] # 0
       /\ step' = [step EXCEPT ![v] = 0]
       /\ UNCHANGED <<distance, index, begun, revision, cache, calls>>

-----------------------------------------------------------------------------
Goto(c, next) == pc' = [pc EXCEPT ![c] = next]

(* The BFF fetches the revisions and sends the request; one it cannot      *)
(* fetch makes a request without.  "visual" is a modality that cannot be   *)
(* searched.                                                               *)
Ask(c) ==
    /\ pc[c] = "idle"
    /\ \E asked \in Requests :
          LET r == [scope |-> asked.scope, modalities |-> asked.modalities, top |-> asked.top,
                    revisions |-> IF asked.keyed THEN [v \in asked.scope |-> revision[v]]
                                  ELSE NoRevisions]
          IN  /\ request' = [request EXCEPT ![c] = r]
              /\ warned' = [warned EXCEPT ![c] = Range(r.modalities) \ Modalities # {}]
              /\ Goto(c, IF HasKey(r) THEN "read" ELSE "search")
    /\ UNCHANGED <<distance, ingestion, cache, hits, answer>>

(* retrieve_video_editor and the probes of its single flight.  An error of *)
(* the cache is followed by the computation, and so is a miss at last.     *)
Read(c) ==
    LET key == KeyFor(request[c]) IN
    /\ pc[c] \in {"read", "flight"}
    /\ \/ /\ key \in DOMAIN cache /\ Valid(cache[key], request[c])
          /\ answer' = [answer EXCEPT ![c] = cache[key]]
          /\ Goto(c, "done")
       \/ /\ key \in DOMAIN cache /\ ~Valid(cache[key], request[c])
          /\ Goto(c, "discard") /\ UNCHANGED answer
       \/ /\ key \notin DOMAIN cache
          /\ pc[c] = "read"
          /\ Goto(c, "flight") /\ UNCHANGED answer
       \/ Goto(c, "search") /\ UNCHANGED answer
    /\ UNCHANGED <<distance, ingestion, cache, request, hits, warned>>

WithoutKey(key) == [k \in DOMAIN cache \ {key} |-> cache[k]]

(* _discard_corrupt: the delete removes whatever the key has by then, or   *)
(* fails.                                                                  *)
Discard(c) ==
    /\ pc[c] = "discard"
    /\ cache' \in {cache, WithoutKey(KeyFor(request[c]))}
    /\ Goto(c, "flight")
    /\ UNCHANGED <<distance, ingestion, request, hits, warned, answer>>

(* What a search of a collection returns: the points of the media asked    *)
(* for, the nearest first.                                                 *)
Found(m, r) ==
    LET points == {s \in Shots : s[1] \in r.scope /\ index[m][s[1]] # 0}
        nearest == Sorted(points, {p \in points \X points : distance[m][p[1]] < distance[m][p[2]]},
                          r.top)
    IN  [k \in DOMAIN nearest |-> [shot |-> nearest[k], generation |-> index[m][nearest[k][1]]]]

(* The searches, one after the other; an error, and a collection that does *)
(* not exist, give a warning and nothing found.                            *)
Search(c, m, next) ==
    /\ \/ m \notin Range(request[c].modalities) /\ UNCHANGED <<hits, warned>>
       \/ /\ m \in Range(request[c].modalities)
          /\ \/ /\ hits' = [hits EXCEPT ![c][m] = Found(m, request[c])]
                /\ UNCHANGED warned
             \/ /\ warned' = [warned EXCEPT ![c] = TRUE]
                /\ UNCHANGED hits
    /\ Goto(c, next)
    /\ UNCHANGED <<distance, ingestion, cache, request, answer>>

SearchTranscript(c) == pc[c] = "search" /\ Search(c, "transcript", "search_ocr")
SearchOcr(c) == pc[c] = "search_ocr" /\ Search(c, "ocr", "graph")

(* The graph's neighbours, or a warning, and the results.  Only complete   *)
(* ones are stored.                                                        *)
Conclude(c) ==
    LET results == Fused(hits[c], request[c].top) IN
    /\ pc[c] = "graph"
    /\ \E failed \in IF results = <<>> THEN {FALSE} ELSE BOOLEAN :
          LET w == warned[c] \/ failed IN
          /\ warned' = [warned EXCEPT ![c] = w]
          /\ Goto(c, IF HasKey(request[c]) /\ ~w /\ results # <<>> THEN "write" ELSE "done")
    /\ answer' = [answer EXCEPT ![c] = results]
    /\ hits' = [hits EXCEPT ![c] = NothingFound]
    /\ UNCHANGED <<distance, ingestion, cache, request>>

(* _write: errors, and values that are too large, leave the cache.         *)
Write(c) ==
    LET key == KeyFor(request[c]) IN
    /\ pc[c] = "write"
    /\ Cardinality(DOMAIN cache \cup {key}) <= MaxEntries
    /\ cache' \in {cache, [k \in DOMAIN cache \cup {key} |->
                              IF k = key THEN answer[c] ELSE cache[k]]}
    /\ Goto(c, "done")
    /\ UNCHANGED <<distance, ingestion, request, hits, warned, answer>>

(* The call is over, or the encoder of the query raises, or the caller     *)
(* goes away; and another call can begin.                                  *)
Leave(c) ==
    /\ pc[c] # "idle"
    /\ Goto(c, "idle")
    /\ request' = [request EXCEPT ![c] = NoRequest]
    /\ hits' = [hits EXCEPT ![c] = NothingFound]
    /\ warned' = [warned EXCEPT ![c] = FALSE]
    /\ answer' = [answer EXCEPT ![c] = <<>>]
    /\ UNCHANGED <<distance, ingestion, cache>>

(* Entries expire, are evicted, and are damaged: one at most at a time.    *)
Expire ==
    /\ \E key \in DOMAIN cache : cache' = WithoutKey(key)
    /\ UNCHANGED <<distance, ingestion, calls>>

Damage ==
    /\ \A key \in DOMAIN cache : cache[key] # Corrupt
    /\ \E key \in DOMAIN cache : cache' = [cache EXCEPT ![key] = Corrupt]
    /\ UNCHANGED <<distance, ingestion, calls>>

Step(c) ==
    \/ Ask(c) \/ Read(c) \/ Discard(c) \/ SearchTranscript(c) \/ SearchOcr(c)
    \/ Conclude(c) \/ Write(c) \/ Leave(c)

Next ==
    \/ \E v \in Media : Ingest(v)
    \/ \E c \in Calls : Step(c)
    \/ Expire \/ Damage

Spec == Init /\ [][Next]_vars

-----------------------------------------------------------------------------
(* What an answer says of medium v is what its ingestion left.             *)
Exact(results, r, v) ==
    LET listed == {k \in DOMAIN results : results[k].shot[1] = v}
        wanted(m) == IF m \in Range(r.modalities) THEN index[m][v] ELSE 0
    IN  /\ \A k \in listed, m \in Modalities : results[k].generations[m] \in {0, wanted(m)}
        /\ r.top >= Cardinality(Shots) /\ (\E m \in Modalities : wanted(m) # 0) =>
              \A s \in {t \in Shots : t[1] = v} :
                  \E k \in listed : /\ results[k].shot = s
                                    /\ \A m \in Modalities : results[k].generations[m] = wanted(m)

(* A call that sent the revisions of its scope is answered, from the cache *)
(* or not, with media of its scope only, and for every medium no ingestion *)
(* of which has begun since that revision, with exactly what that          *)
(* ingestion left, unless the answer has a warning: never with what the    *)
(* cache has of an older revision, of an index that is being rewritten, or *)
(* of another scope (key_for, and what retrieve_video_editor stores).      *)
FreshForScope ==
    [][\A c \in Calls :
          pc'[c] = "done" /\ pc[c] # "done" /\ HasKey(request[c]) /\ ~warned'[c] =>
              /\ \A k \in DOMAIN answer'[c] : answer'[c][k].shot[1] \in request[c].scope
              /\ \A v \in request[c].scope :
                    step[v] = 0 /\ begun[v] = request[c].revisions[v] =>
                        Exact(answer'[c], request[c], v)]_vars

(* Fusion never puts a shot before one that ranks at least as well in both *)
(* modalities and better in one, and none of those it leaves out does so   *)
(* with one that it lists (_merge_hit and the sort of the results).        *)
BestFirst ==
    \A c \in Calls : pc[c] = "graph" =>
        LET results == Fused(hits[c], request[c].top)
            better(m, s, t) == /\ IsIn(hits[c][m], s)
                               /\ IsIn(hits[c][m], t) => Rank(hits[c][m], s) < Rank(hits[c][m], t)
            beats(s, t) == /\ \E m \in Modalities : better(m, s, t)
                           /\ \A m \in Modalities : ~better(m, t, s)
        IN  \A k \in DOMAIN results : \A s \in Shots :
                beats(s, results[k].shot) => \E i \in 1..(k - 1) : results[i].shot = s
=============================================================================
