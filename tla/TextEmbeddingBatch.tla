------------------------- MODULE TextEmbeddingBatch -------------------------
(***************************************************************************)
(* Batches of texts that are encoded through the shared cache with         *)
(* advisory single-flight (src/kuvox_ai/text_embedding_cache.py,           *)
(* CachedTextEmbeddingEncoder.encode_texts): one lock for every text the   *)
(* batch misses.  Batches over common texts run in one process or several. *)
(*                                                                         *)
(* As in SingleFlight, each action is one await, a command that fails may  *)
(* have been executed, and locks and entries may expire at any moment.  A  *)
(* text stands for its group: the positions at which the batch has it.     *)
(* The groups of a batch are tried in their order, which may be any; the   *)
(* model lets every order happen.                                          *)
(***************************************************************************)
EXTENDS FiniteSets

CONSTANTS
    Batches,    \* calls of encode_texts
    NoBatch,
    Texts,      \* canonical texts
    Blank,      \* texts that are only whitespace: encoded, never cached
    Inputs      \* the sets of texts a batch may consist of

ASSUME BatchAssumption ==
    /\ NoBatch \notin Batches
    /\ Blank \subseteq Texts
    /\ Inputs \subseteq (SUBSET Texts) \ {{}}

VARIABLES
    pc,         \* the await at which each batch is suspended
    input,      \* the texts of each batch
    resolved,   \* texts for which the batch has a vector
    todo,       \* texts whose lock this round of the batch has yet to try
    free,       \* the text, if any, whose lock was just found free
    contended,  \* texts whose lock another batch had
    local,      \* texts to encode without a lock
    owned,      \* texts whose lock was acquired and not yet released
    fresh,      \* vectors on their way to the cache
    ending,     \* "none" while nothing went wrong for the batch
    lock,       \* the locks in Redis: the batch whose token each holds
    cached,     \* texts with an entry in Redis
    legacy,     \* texts with an entry under the key of earlier builds
    written,    \* history: while clean, the texts each batch encoded and wrote
    clean,      \* history: no fallback and no expiry so far
    disturbed   \* history: texts whose lock each batch lost track of

work == <<resolved, todo, free, contended, local, owned, fresh>>
redis == <<lock, cached, legacy>>
history == <<written, clean, disturbed>>
vars == <<pc, input, work, ending, redis, history>>

Guarded == {"recheck", "encode", "write"}   \* inside try ... finally
Stages == Guarded \cup {"idle", "read", "legacy", "promote", "acquire", "release",
                        "wait", "poll", "locked", "retake", "done"}
Endings == {"none", "raised", "interrupted"}

TypeOK ==
    /\ pc \in [Batches -> Stages]
    /\ input \in [Batches -> SUBSET Texts]
    /\ resolved \in [Batches -> SUBSET Texts]
    /\ todo \in [Batches -> SUBSET (Texts \ Blank)]
    /\ free \in [Batches -> SUBSET (Texts \ Blank)]
    /\ contended \in [Batches -> SUBSET (Texts \ Blank)]
    /\ local \in [Batches -> SUBSET Texts]
    /\ owned \in [Batches -> SUBSET (Texts \ Blank)]
    /\ fresh \in [Batches -> SUBSET (Texts \ Blank)]
    /\ ending \in [Batches -> Endings]
    /\ lock \in [Texts -> Batches \cup {NoBatch}]
    /\ cached \subseteq Texts \ Blank
    /\ legacy \subseteq Texts \ Blank
    /\ written \in [Batches -> SUBSET (Texts \ Blank)]
    /\ clean \in BOOLEAN
    /\ disturbed \in [Batches -> SUBSET Texts]

Init ==
    LET nothing == [b \in Batches |-> {}] IN
    /\ pc = [b \in Batches |-> "idle"]
    /\ input = nothing
    /\ resolved = nothing
    /\ todo = nothing
    /\ free = nothing
    /\ contended = nothing
    /\ local = nothing
    /\ owned = nothing
    /\ fresh = nothing
    /\ ending = [b \in Batches |-> "none"]
    /\ lock = [t \in Texts |-> NoBatch]
    /\ cached = {}
    /\ legacy \in SUBSET (Texts \ Blank)
    /\ written = nothing
    /\ clean = TRUE
    /\ disturbed = nothing

-----------------------------------------------------------------------------
(* Control, and the commands of Redis.                                     *)

Goto(b, stage) == pc' = [pc EXCEPT ![b] = stage]

(* Mutant: blank texts are looked up like the others.                      *)
MissingBlank(b) == input[b] \ resolved[b]

(* Texts that can be cached and have no vector yet.                        *)
Missing(b) == input[b] \ (resolved[b] \cup Blank)

(* What _compute_groups is about to encode.                                *)
Unencoded(b) == (local[b] \cup owned[b]) \ resolved[b]

(* Mutant: the batch waits for contended texts before it works on its own. *)
NextPartWaits(b) ==
    IF contended'[b] # {} THEN "wait"
    ELSE IF owned'[b] # {} THEN "recheck"
    ELSE IF local'[b] # {} THEN "encode" ELSE "done"

(* What the batch owns and what it encodes without a lock come before it   *)
(* waits for contended texts; with none of them left it returns.           *)
NextPart(b) ==
    IF owned'[b] # {} THEN "recheck"
    ELSE IF local'[b] # {} THEN "encode"
    ELSE IF contended'[b] # {} THEN "wait" ELSE "done"

(* A text was tried: on to the next, or to what the round has gathered.    *)
Tried(b, t, stage) ==
    /\ todo' = [todo EXCEPT ![b] = @ \ {t}]
    /\ Goto(b, IF todo'[b] # {} THEN stage ELSE NextPart(b))

(* The finally block: release what is owned, then wait for the others or   *)
(* leave.                                                                  *)
Finally(b) ==
    Goto(b, IF owned'[b] # {} THEN "release"
            ELSE IF ending'[b] = "none" /\ contended'[b] # {} THEN "wait" ELSE "done")

Own(b, t) ==
    /\ lock[t] = NoBatch
    /\ lock' = [lock EXCEPT ![t] = b]
    /\ owned' = [owned EXCEPT ![b] = @ \cup {t}]

CompareAndDelete(b, t) ==
    lock' = IF lock[t] = b THEN [lock EXCEPT ![t] = NoBatch] ELSE lock

(* The text the next command on a lock is about.                           *)
Subjects(b) ==
    CASE pc[b] = "acquire" -> todo[b]
      [] pc[b] = "retake" -> free[b]
      [] pc[b] = "release" -> owned[b]
      [] OTHER -> {}

(* The command b awaits fails or is cut short.  Redis may have executed it *)
(* (about one of the texts T), and of a pipeline any part.                 *)
PerhapsExecuted(b, T) ==
    /\ \/ UNCHANGED <<lock, cached>>
       \/ /\ pc[b] \in {"acquire", "retake"}
          /\ \E t \in T : lock[t] = NoBatch /\ lock' = [lock EXCEPT ![t] = b]
          /\ UNCHANGED cached
       \/ /\ pc[b] = "release"
          /\ \E t \in T : CompareAndDelete(b, t)
          /\ UNCHANGED cached
       \/ /\ pc[b] \in {"write", "promote"}
          /\ \E S \in SUBSET fresh[b] : cached' = cached \cup S
          /\ UNCHANGED lock
    /\ UNCHANGED legacy

LosesTrack(b, T) == disturbed' = [disturbed EXCEPT ![b] = @ \cup T]

(* Work may be done twice from now on, and is no longer counted.           *)
Tainted ==
    /\ clean' = FALSE
    /\ written' = [b \in Batches |-> {}]

-----------------------------------------------------------------------------
(* The first look: blank texts go straight to the encoder; the others are  *)
(* looked up, also under the key of earlier builds, whose hits are         *)
(* promoted.  A failed lookup leaves its texts to the encoder, unlocked.   *)
Begin(b) ==
    /\ pc[b] = "idle"
    /\ \E T \in Inputs :
          /\ input' = [input EXCEPT ![b] = T]
          /\ local' = [local EXCEPT ![b] = T \cap Blank]
          /\ Goto(b, IF T \subseteq Blank THEN "encode" ELSE "read")
    /\ UNCHANGED <<resolved, todo, free, contended, owned, fresh, ending, redis, history>>

Read(b) ==
    /\ pc[b] = "read"
    /\ resolved' = [resolved EXCEPT ![b] = input[b] \cap cached]
    /\ UNCHANGED <<input, todo, free, contended, local, owned, fresh, ending, redis, history>>
    /\ Goto(b, IF Missing(b)' # {} THEN "legacy" ELSE NextPart(b))

ReadFails(b) ==
    /\ pc[b] \in {"read", "legacy"}
    /\ local' = [local EXCEPT ![b] = @ \cup Missing(b)]
    /\ Goto(b, "encode")
    /\ Tainted
    /\ UNCHANGED <<input, resolved, todo, free, contended, owned, fresh, ending, redis, disturbed>>

ReadLegacy(b) ==
    /\ pc[b] = "legacy"
    /\ LET hits == Missing(b) \cap legacy
       IN  /\ resolved' = [resolved EXCEPT ![b] = @ \cup hits]
           /\ fresh' = [fresh EXCEPT ![b] = hits]
           /\ todo' = [todo EXCEPT ![b] = Missing(b) \ hits]
           /\ Goto(b, IF hits # {} THEN "promote" ELSE "acquire")
    /\ UNCHANGED <<input, free, contended, local, owned, ending, redis, history>>

AfterPromotion(b) ==
    /\ fresh' = [fresh EXCEPT ![b] = {}]
    /\ UNCHANGED <<input, resolved, todo, free, contended, local, owned, ending, disturbed>>
    /\ Goto(b, IF todo[b] # {} THEN "acquire" ELSE NextPart(b))

Promote(b) ==
    /\ pc[b] = "promote"
    /\ cached' = cached \cup fresh[b]
    /\ AfterPromotion(b)
    /\ UNCHANGED <<lock, legacy, written, clean>>

PromoteFails(b) ==
    /\ pc[b] = "promote"
    /\ PerhapsExecuted(b, {})
    /\ AfterPromotion(b)
    /\ Tainted

-----------------------------------------------------------------------------
(* The locks of the first round.                                           *)
Acquire(b, t) ==
    /\ pc[b] = "acquire" /\ t \in todo[b]
    /\ \/ Own(b, t) /\ UNCHANGED contended
       \/ /\ lock[t] # NoBatch
          /\ contended' = [contended EXCEPT ![b] = @ \cup {t}]
          /\ UNCHANGED <<lock, owned>>
    /\ UNCHANGED local
    /\ Tried(b, t, "acquire")
    /\ UNCHANGED <<input, resolved, free, fresh, ending, cached, legacy, history>>

AcquireFails(b, t) ==
    /\ pc[b] = "acquire" /\ t \in todo[b]
    /\ PerhapsExecuted(b, {t})
    /\ local' = [local EXCEPT ![b] = @ \cup {t}]
    /\ UNCHANGED <<owned, contended>>
    /\ Tried(b, t, "acquire")
    /\ Tainted
    /\ LosesTrack(b, {t})
    /\ UNCHANGED <<input, resolved, free, fresh, ending>>

-----------------------------------------------------------------------------
(* _compute_owned_and_local: another look at the cache for what is owned,  *)
(* the encoder, the write, and the release of every lock.                  *)

(* Mutant: what the leader finds in the cache is not taken.                *)
RecheckUnused(b) ==
    /\ pc[b] = "recheck"
    /\ Goto(b, "encode")
    /\ UNCHANGED <<input, work, ending, redis, history>>

Recheck(b) ==
    /\ pc[b] = "recheck"
    /\ resolved' = [resolved EXCEPT ![b] = @ \cup (owned[b] \cap cached)]
    /\ UNCHANGED <<input, todo, free, contended, local, owned, fresh, ending, redis, history>>
    /\ Goto(b, IF Unencoded(b)' # {} THEN "encode" ELSE "release")

RecheckFails(b) ==
    /\ pc[b] = "recheck"
    /\ Goto(b, "encode")
    /\ Tainted
    /\ UNCHANGED <<input, work, ending, redis, disturbed>>

(* The encoder returns a vector for every text, or it raises.              *)
Encode(b) ==
    /\ pc[b] = "encode"
    /\ resolved' = [resolved EXCEPT ![b] = @ \cup Unencoded(b)]
    /\ fresh' = [fresh EXCEPT ![b] = Unencoded(b) \ Blank]
    /\ local' = [local EXCEPT ![b] = {}]
    /\ UNCHANGED <<input, todo, free, contended, owned, ending, redis, history>>
    /\ IF fresh'[b] # {} THEN Goto(b, "write") ELSE Finally(b)

EncoderRaises(b) ==
    /\ pc[b] = "encode"
    /\ ending' = [ending EXCEPT ![b] = "raised"]
    /\ local' = [local EXCEPT ![b] = {}]
    /\ resolved' = [resolved EXCEPT ![b] = {}]
    /\ UNCHANGED <<input, todo, free, contended, owned, fresh, redis, history>>
    /\ Finally(b)

Write(b) ==
    /\ pc[b] = "write"
    /\ cached' = cached \cup fresh[b]
    /\ written' = IF clean THEN [written EXCEPT ![b] = @ \cup fresh[b]] ELSE written
    /\ fresh' = [fresh EXCEPT ![b] = {}]
    /\ UNCHANGED <<input, resolved, todo, free, contended, local, owned, ending, lock, legacy,
                   clean, disturbed>>
    /\ Finally(b)

WriteFails(b) ==
    /\ pc[b] = "write"
    /\ PerhapsExecuted(b, {})
    /\ fresh' = [fresh EXCEPT ![b] = {}]
    /\ Tainted
    /\ UNCHANGED <<input, resolved, todo, free, contended, local, owned, ending, disturbed>>
    /\ Finally(b)

(* Mutant: the loop over the handles ends with the first one.              *)
ReleaseOne(b, t) ==
    /\ pc[b] = "release" /\ t \in owned[b]
    /\ CompareAndDelete(b, t)
    /\ owned' = [owned EXCEPT ![b] = {}]
    /\ UNCHANGED <<input, resolved, todo, free, contended, local, fresh, ending,
                   cached, legacy, history>>
    /\ Finally(b)

Release(b, t) ==
    /\ pc[b] = "release" /\ t \in owned[b]
    /\ CompareAndDelete(b, t)
    /\ owned' = [owned EXCEPT ![b] = @ \ {t}]
    /\ UNCHANGED <<input, resolved, todo, free, contended, local, fresh, ending,
                   cached, legacy, history>>
    /\ Finally(b)

ReleaseFails(b, t) ==
    /\ pc[b] = "release" /\ t \in owned[b]
    /\ PerhapsExecuted(b, {t})
    /\ owned' = [owned EXCEPT ![b] = @ \ {t}]
    /\ LosesTrack(b, {t})
    /\ UNCHANGED <<input, resolved, todo, free, contended, local, fresh, ending,
                   written, clean>>
    /\ Finally(b)

-----------------------------------------------------------------------------
(* Waiting for contended texts: sleep, look at the cache, and try to take  *)
(* over the locks that are free, until the deadline.                       *)
Sleep(b) ==
    /\ pc[b] = "wait"
    /\ Goto(b, "poll")
    /\ UNCHANGED <<input, work, ending, redis, history>>

(* The deadline, or a failed lookup: all contended texts go to the encoder.*)
GiveUpWaiting(b) ==
    /\ local' = [local EXCEPT ![b] = @ \cup contended[b]]
    /\ contended' = [contended EXCEPT ![b] = {}]
    /\ Goto(b, "encode")
    /\ Tainted
    /\ UNCHANGED <<input, resolved, todo, free, owned, fresh, ending, redis, disturbed>>

Timeout(b) == pc[b] = "wait" /\ GiveUpWaiting(b)

PollFails(b) == pc[b] = "poll" /\ GiveUpWaiting(b)

Poll(b) ==
    /\ pc[b] = "poll"
    /\ resolved' = [resolved EXCEPT ![b] = @ \cup (contended[b] \cap cached)]
    /\ contended' = [contended EXCEPT ![b] = @ \ cached]
    /\ todo' = [todo EXCEPT ![b] = contended[b] \ cached]
    /\ UNCHANGED <<input, free, local, owned, fresh, ending, redis, history>>
    /\ Goto(b, IF todo'[b] # {} THEN "locked" ELSE NextPart(b))

IsLocked(b, t) ==
    /\ pc[b] = "locked" /\ t \in todo[b]
    /\ UNCHANGED <<input, resolved, contended, local, owned, fresh, ending, redis, history>>
    /\ IF lock[t] = NoBatch
       THEN Goto(b, "retake") /\ free' = [free EXCEPT ![b] = {t}] /\ UNCHANGED todo
       ELSE Tried(b, t, "locked") /\ UNCHANGED free

Retake(b, t) ==
    /\ pc[b] = "retake" /\ t \in free[b]
    /\ free' = [free EXCEPT ![b] = {}]
    /\ \/ Own(b, t) /\ contended' = [contended EXCEPT ![b] = @ \ {t}]
       \/ lock[t] # NoBatch /\ UNCHANGED <<lock, owned, contended>>
    /\ UNCHANGED local
    /\ Tried(b, t, "locked")
    /\ UNCHANGED <<input, resolved, fresh, ending, cached, legacy, history>>

(* Mutant: the text is dropped from contended and goes nowhere.            *)
TakeoverFailsForgets(b, t) ==
    /\ \/ pc[b] = "locked" /\ t \in todo[b] /\ UNCHANGED <<redis, disturbed>>
       \/ pc[b] = "retake" /\ t \in free[b] /\ PerhapsExecuted(b, {t}) /\ LosesTrack(b, {t})
    /\ free' = [free EXCEPT ![b] = {}]
    /\ contended' = [contended EXCEPT ![b] = @ \ {t}]
    /\ UNCHANGED <<owned, local>>
    /\ Tried(b, t, "locked")
    /\ Tainted
    /\ UNCHANGED <<input, resolved, fresh, ending>>

(* is_locked returns None, or the acquire fails: the text is encoded.      *)
TakeoverFails(b, t) ==
    /\ \/ pc[b] = "locked" /\ t \in todo[b] /\ UNCHANGED <<redis, disturbed>>
       \/ pc[b] = "retake" /\ t \in free[b] /\ PerhapsExecuted(b, {t}) /\ LosesTrack(b, {t})
    /\ free' = [free EXCEPT ![b] = {}]
    /\ local' = [local EXCEPT ![b] = @ \cup {t}]
    /\ contended' = [contended EXCEPT ![b] = @ \ {t}]
    /\ UNCHANGED owned
    /\ Tried(b, t, "locked")
    /\ Tainted
    /\ UNCHANGED <<input, resolved, fresh, ending>>

-----------------------------------------------------------------------------
(* The variables of the batch are gone, except the handles a finally block *)
(* still has to release.                                                   *)
Dropped(b) ==
    /\ ending' = [ending EXCEPT ![b] = "interrupted"]
    /\ todo' = [todo EXCEPT ![b] = {}]
    /\ free' = [free EXCEPT ![b] = {}]
    /\ contended' = [contended EXCEPT ![b] = {}]
    /\ local' = [local EXCEPT ![b] = {}]
    /\ fresh' = [fresh EXCEPT ![b] = {}]
    /\ resolved' = [resolved EXCEPT ![b] = {}]
    /\ UNCHANGED <<input, written, clean>>

(* CancelledError is raised at the await.  The finally block runs only in  *)
(* _compute_owned_and_local: a batch that is cancelled while it gathers    *)
(* locks, or while it releases them, keeps the locks it has.               *)
Cancel(b) ==
    /\ pc[b] \notin {"idle", "done"}
    /\ PerhapsExecuted(b, Subjects(b))
    /\ Dropped(b)
    /\ IF pc[b] \in Guarded
       THEN UNCHANGED <<owned, disturbed>> /\ Finally(b)
       ELSE /\ LosesTrack(b, owned[b] \cup Subjects(b))
            /\ owned' = [owned EXCEPT ![b] = {}]
            /\ Goto(b, "done")

(* The process of the batch dies.                                          *)
Crash(b) ==
    /\ pc[b] \notin {"idle", "done"}
    /\ PerhapsExecuted(b, Subjects(b))
    /\ Goto(b, "done")
    /\ Dropped(b)
    /\ owned' = [owned EXCEPT ![b] = {}]
    /\ LosesTrack(b, owned[b] \cup Subjects(b))

LockExpires(t) ==
    /\ lock[t] # NoBatch
    /\ lock' = [lock EXCEPT ![t] = NoBatch]
    /\ Tainted
    /\ UNCHANGED <<pc, input, work, ending, cached, legacy, disturbed>>

(* An entry expires, or Redis evicts it.                                   *)
EntryExpires(t) ==
    /\ t \in cached
    /\ cached' = cached \ {t}
    /\ Tainted
    /\ UNCHANGED <<pc, input, work, ending, lock, legacy, disturbed>>

LegacyExpires(t) ==
    /\ t \in legacy
    /\ legacy' = legacy \ {t}
    /\ UNCHANGED <<pc, input, work, ending, lock, cached, history>>

Proceed(b) ==
    \/ Read(b) \/ ReadFails(b) \/ ReadLegacy(b) \/ Promote(b) \/ PromoteFails(b)
    \/ Recheck(b) \/ RecheckFails(b) \/ Encode(b) \/ EncoderRaises(b)
    \/ Write(b) \/ WriteFails(b) \/ Sleep(b) \/ Poll(b) \/ PollFails(b)
    \/ \E t \in Texts :
          \/ Acquire(b, t) \/ AcquireFails(b, t) \/ Release(b, t) \/ ReleaseFails(b, t)
          \/ IsLocked(b, t) \/ Retake(b, t) \/ TakeoverFails(b, t)

Next ==
    \/ \E b \in Batches : Begin(b) \/ Proceed(b) \/ Timeout(b) \/ Cancel(b) \/ Crash(b)
    \/ \E t \in Texts : LockExpires(t) \/ EntryExpires(t) \/ LegacyExpires(t)

(* Awaited operations end.  Nothing is assumed of deadlines and expiry.    *)
Fairness == \A b \in Batches : WF_vars(Proceed(b))

Spec == Init /\ [][Next]_vars /\ Fairness

-----------------------------------------------------------------------------
(* Whatever was found, contended, taken over, given up or encoded alone: a *)
(* batch that returns has a vector for each of its texts.                  *)
NothingForgotten ==
    \A b \in Batches : pc[b] = "done" /\ ending[b] = "none" => resolved[b] = input[b]

(* A batch holds no lock while it waits for those of others, nor after its *)
(* end, except locks it lost track of: crossed batches cannot starve.      *)
NoHoldAndWait ==
    \A b \in Batches, t \in Texts :
        pc[b] \in {"wait", "poll", "done"} /\ lock[t] = b => t \in disturbed[b]

(* Sharing works for every text on its own: without fallbacks and expiries *)
(* no two batches encode and store the same text, even when batches raise  *)
(* or are interrupted and others take over a part of their texts.          *)
EncodedOnce ==
    clean => \A b, d \in Batches : b # d => written[b] \cap written[d] = {}

(* Batches over crossed texts do not need the deadline to come to an end.  *)
EndsUndisturbed ==
    \A b \in Batches :
        pc[b] = "read" ~> pc[b] = "done" \/ ~clean \/ \E d \in Batches : disturbed[d] # {}
=============================================================================
