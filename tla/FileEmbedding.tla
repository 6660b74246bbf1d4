--------------------------- MODULE FileEmbedding ----------------------------
(***************************************************************************)
(* CachedFileEmbeddingEncoder (src/kuvox_ai/file_embedding_cache.py): the  *)
(* decorator that caches the vector of a file under the hash of its bytes. *)
(*                                                                         *)
(* A call fingerprints its files, groups those with equal bytes, reads the *)
(* cache, verifies its hits, encodes one representative of every group     *)
(* that is left, and stores the vectors of groups that did not change      *)
(* meanwhile.  Every await is a place where another call runs or where a   *)
(* file is rewritten or removed.                                           *)
(*                                                                         *)
(* The vector of bytes b is b itself, and so is their hash.                *)
(***************************************************************************)
EXTENDS Naturals, Sequences, FiniteSets, Functions

CONSTANTS
    Paths,
    Contents,         \* the bytes a file can have
    Gone,             \* what a path holds that has no file
    NoVector,
    Calls,            \* calls of encode_items
    HashConcurrency,  \* files of a call that are fingerprinted at once
    MaxChanges        \* bound on the changes of all files together

ASSUME FileAssumption ==
    /\ Gone \notin Contents /\ NoVector \notin Contents
    /\ HashConcurrency \in Nat \ {0} /\ MaxChanges \in Nat

VARIABLES
    enabled,     \* whether the cache is configured
    bytes,       \* what each path holds
    signature,   \* counts the changes of each path: no two versions of a file
                 \* have the same size, inode, device and mtime
    cache,       \* the vector stored under the hash of each content
    pc,          \* what each call does next
    items,       \* the paths of each call, by their first position
    print,       \* the fingerprint each call has of a path, or is taking
    pending,     \* representatives the current loop of each call has yet to visit
    unresolved,  \* representatives each call encodes
    storable,    \* representatives whose group is stable
    vector,      \* the vector each call has for a representative
    had          \* history: what each file held since the call read the cache,
                 \* or began if there is none

file == <<bytes, signature>>
call == <<pc, items, print, pending, unresolved, storable, vector>>
vars == <<enabled, file, cache, call, had>>

Stages == {"idle", "fingerprint", "read", "verify", "encode", "check",
           "write", "returned", "raised"}

(* "stat", "again": the file is being hashed, for the first or the second  *)
(* time; "hashed": it did not change meanwhile; "unstable": it did, twice. *)
Hashing == {"stat", "retry", "again"}
Fingerprinted == {"hashed", "unstable"}

Fingerprint == [state : Hashing \cup Fingerprinted \cup {"none"},
          hash : Contents \cup {Gone},
          sign : Nat]

NoPrint == [state |-> "none", hash |-> Gone, sign |-> 0]

TypeOK ==
    /\ enabled \in BOOLEAN
    /\ bytes \in [Paths -> Contents \cup {Gone}]
    /\ signature \in [Paths -> Nat]
    /\ cache \in [Contents -> Contents \cup {NoVector}]
    /\ pc \in [Calls -> Stages]
    /\ items \in [Calls -> Seq(Paths)]
    /\ print \in [Calls -> [Paths -> Fingerprint]]
    /\ pending \in [Calls -> SUBSET Paths]
    /\ unresolved \in [Calls -> SUBSET Paths]
    /\ storable \in [Calls -> SUBSET Paths]
    /\ vector \in [Calls -> [Paths -> Contents \cup {NoVector}]]
    /\ had \in [Calls -> [Paths -> SUBSET Contents]]

Init ==
    /\ enabled \in BOOLEAN
    /\ bytes \in [Paths -> Contents]
    /\ signature = [p \in Paths |-> 0]
    /\ cache = [b \in Contents |-> NoVector]
    /\ pc = [c \in Calls |-> "idle"]
    /\ items = [c \in Calls |-> <<>>]
    /\ print = [c \in Calls |-> [p \in Paths |-> NoPrint]]
    /\ pending = [c \in Calls |-> {}]
    /\ unresolved = [c \in Calls |-> {}]
    /\ storable = [c \in Calls |-> {}]
    /\ vector = [c \in Calls |-> [p \in Paths |-> NoVector]]
    /\ had = [c \in Calls |-> [p \in Paths |-> {}]]

(* The paths of a batch; later positions of a path share its result.       *)
Batches == {s \in UNION {[1..n -> Paths] : n \in 1..Cardinality(Paths)} : IsInjective(s)}

-----------------------------------------------------------------------------
(* _group_inputs: stable files with equal bytes are one group, whose       *)
(* representative is the item that comes first; an unstable file is alone. *)
Twins(c, p) ==
    IF print[c][p].state = "hashed"
    THEN {q \in Range(items[c]) : /\ print[c][q].state = "hashed"
                                  /\ print[c][q].hash = print[c][p].hash}
    ELSE {p}

Leads(c, p) ==
    \E i \in DOMAIN items[c] :
        /\ items[c][i] = p
        /\ \A j \in 1..(i - 1) : items[c][j] \notin Twins(c, p)

Representative(c, p) == CHOOSE q \in Twins(c, p) : Leads(c, q)

Leaders(c, state) == {p \in Range(items[c]) : Leads(c, p) /\ print[c][p].state = state}

(* The loops visit the unstable groups first, and then by position.        *)
Position(c, p) ==
    (CHOOSE i \in DOMAIN items[c] : items[c][i] = p)
        + IF print[c][p].state = "unstable" THEN 0 ELSE Len(items[c])

IsNext(c, p) ==
    p \in pending[c] /\ \A q \in pending[c] : Position(c, p) <= Position(c, q)

(* _group_is_unchanged: stat raises when a file of the group is gone.      *)
Present(c, p) == \A q \in Twins(c, p) : bytes[q] # Gone

(* Mutant: the signatures are read but not compared.                       *)
StatSucceeds(c, p) == TRUE

Unchanged(c, p) ==
    \A q \in Twins(c, p) : signature[q] = print[c][q].sign

(* A call that raises leaves nothing behind but what it had written.       *)
Raise(c) ==
    /\ pc' = [pc EXCEPT ![c] = "raised"]
    /\ items' = [items EXCEPT ![c] = <<>>]
    /\ print' = [print EXCEPT ![c] = [p \in Paths |-> NoPrint]]
    /\ pending' = [pending EXCEPT ![c] = {}]
    /\ unresolved' = [unresolved EXCEPT ![c] = {}]
    /\ storable' = [storable EXCEPT ![c] = {}]
    /\ vector' = [vector EXCEPT ![c] = [p \in Paths |-> NoVector]]
    /\ had' = [had EXCEPT ![c] = [p \in Paths |-> {}]]
    /\ UNCHANGED <<enabled, file, cache>>

Holds(s) == [p \in Paths |-> IF p \in Range(s) THEN {bytes[p]} \cap Contents ELSE {}]

(* encode_items up to its first await; without a cache it only encodes.    *)
Begin(c) ==
    /\ pc[c] = "idle"
    /\ \E s \in Batches :
          /\ items' = [items EXCEPT ![c] = s]
          /\ unresolved' = [unresolved EXCEPT ![c] = IF enabled THEN {} ELSE Range(s)]
          /\ pending' = [pending EXCEPT ![c] = IF enabled THEN {} ELSE Range(s)]
          /\ had' = [had EXCEPT ![c] = IF enabled THEN @ ELSE Holds(s)]
    /\ pc' = [pc EXCEPT ![c] = IF enabled THEN "fingerprint" ELSE "encode"]
    /\ UNCHANGED <<enabled, file, cache, print, storable, vector>>

(* fingerprint_file: the stat before the hash, under the semaphore.        *)
Stat(c, p) ==
    /\ pc[c] = "fingerprint" /\ p \in Range(items[c])
    /\ \/ /\ print[c][p].state = "none"
          /\ Cardinality({q \in Paths : print[c][q].state \in Hashing}) < HashConcurrency
       \/ print[c][p].state = "retry"
    /\ IF bytes[p] = Gone
       THEN Raise(c)
       ELSE /\ print' = [print EXCEPT ![c][p] =
                   [state |-> IF @.state = "none" THEN "stat" ELSE "again",
                    hash |-> Gone, sign |-> signature[p]]]
            /\ UNCHANGED <<enabled, file, cache, pc, items, pending, unresolved,
                           storable, vector, had>>

(* The bytes are hashed and the signature read again: one action, as a     *)
(* change after the hash is noticed like one before it.  A file that       *)
(* changed is tried once more, and then passed on as unstable.             *)
Hash(c, p) ==
    /\ pc[c] = "fingerprint" /\ print[c][p].state \in {"stat", "again"}
    /\ IF bytes[p] = Gone
       THEN Raise(c)
       ELSE /\ print' = [print EXCEPT ![c][p] =
                   IF signature[p] = @.sign
                   THEN [state |-> "hashed", hash |-> bytes[p], sign |-> @.sign]
                   ELSE [state |-> IF @.state = "stat" THEN "retry" ELSE "unstable",
                         hash |-> Gone, sign |-> signature[p]]]
            /\ pc' = [pc EXCEPT ![c] =
                   IF \A q \in Range(items[c]) : print'[c][q].state \in Fingerprinted
                   THEN "read" ELSE @]
            /\ UNCHANGED <<enabled, file, cache, items, pending, unresolved,
                           storable, vector, had>>

(* After the loop over the groups has left todo to encode.                 *)
EncodeOrReturn(c, todo) ==
    /\ unresolved' = [unresolved EXCEPT ![c] = todo]
    /\ pending' = [pending EXCEPT ![c] = todo]
    /\ pc' = [pc EXCEPT ![c] = IF todo = {} THEN "returned" ELSE "encode"]

(* Unstable groups are left to the encoder, and one request reads the      *)
(* entries of the others: a failed one, like an entry that does not        *)
(* decode, is a miss.                                                      *)
Lookup(c) ==
    /\ pc[c] = "read"
    /\ LET stable == Leaders(c, "hashed")
           unstable == Leaders(c, "unstable")
       IN  /\ storable' = [storable EXCEPT ![c] = stable]
           /\ \E found \in {stable, {}} :
                 vector' = [vector EXCEPT ![c] = [p \in Paths |->
                     IF p \in found THEN cache[print[c][p].hash] ELSE NoVector]]
           /\ IF stable = {}
              THEN EncodeOrReturn(c, unstable)
              ELSE /\ unresolved' = [unresolved EXCEPT ![c] = unstable]
                   /\ pending' = [pending EXCEPT ![c] = stable]
                   /\ pc' = [pc EXCEPT ![c] = "verify"]
    /\ had' = [had EXCEPT ![c] = Holds(items[c])]
    /\ UNCHANGED <<enabled, file, cache, items, print>>

(* Mutant: hits are not verified.                                          *)
HitDecodes(c, p) == vector[c][p] # NoVector

HitStands(c, p) == vector[c][p] # NoVector /\ Unchanged(c, p)

(* The loop over the reads: a hit stands if the files of its group are as  *)
(* they were; otherwise it is encoded like a miss, and not stored.         *)
Verify(c, p) ==
    /\ pc[c] = "verify" /\ IsNext(c, p)
    /\ LET hit == vector[c][p] # NoVector
           stands == HitStands(c, p)
           todo == unresolved[c] \cup IF stands THEN {} ELSE {p}
           left == pending[c] \ {p}
       IN  IF hit /\ ~Present(c, p)
           THEN Raise(c)
           ELSE /\ storable' = [storable EXCEPT ![c] = IF hit /\ ~stands THEN @ \ {p} ELSE @]
                /\ vector' = [vector EXCEPT ![c][p] = IF stands THEN @ ELSE NoVector]
                /\ IF left = {}
                   THEN EncodeOrReturn(c, todo)
                   ELSE /\ pending' = [pending EXCEPT ![c] = left]
                        /\ unresolved' = [unresolved EXCEPT ![c] = todo]
                        /\ UNCHANGED pc
                /\ UNCHANGED <<enabled, file, cache, items, print, had>>

(* Mutant: a missing file is encoded like any other.                       *)
EncodeMissing(c, p) ==
    /\ pc[c] = "encode" /\ IsNext(c, p)
    /\ vector' = [vector EXCEPT ![c][p] = bytes[p]]
    /\ pending' = [pending EXCEPT ![c] = @ \ {p}]
    /\ UNCHANGED <<enabled, file, cache, pc, items, print, unresolved, storable, had>>

(* The encoder reads the representatives one after the other.  It raises   *)
(* when a file is gone, and may always raise or return too few vectors.    *)
Encode(c, p) ==
    /\ pc[c] = "encode" /\ IsNext(c, p)
    /\ LET last == pending[c] = {p}
       IN  \/ /\ bytes[p] # Gone
              /\ vector' = [vector EXCEPT ![c][p] = bytes[p]]
              /\ pending' = [pending EXCEPT ![c] =
                     IF last /\ enabled THEN unresolved[c] ELSE @ \ {p}]
              /\ pc' = [pc EXCEPT ![c] = IF ~last THEN @
                                         ELSE IF enabled THEN "check" ELSE "returned"]
              /\ UNCHANGED <<enabled, file, cache, items, print, unresolved,
                             storable, had>>
           \/ Raise(c)

(* The loop over the computed vectors: only a group that is still as it    *)
(* was fingerprinted is kept for the write.                                *)
Check(c, p) ==
    /\ pc[c] = "check" /\ IsNext(c, p)
    /\ IF p \in storable[c] /\ ~Present(c, p)
       THEN Raise(c)
       ELSE /\ storable' = [storable EXCEPT ![c] = IF Unchanged(c, p) THEN @ ELSE @ \ {p}]
            /\ pending' = [pending EXCEPT ![c] = @ \ {p}]
            /\ pc' = [pc EXCEPT ![c] = IF pending[c] = {p} THEN "write" ELSE @]
            /\ UNCHANGED <<enabled, file, cache, items, print, unresolved, vector, had>>

(* _write_many: the vectors the codec refuses and the writes that fail are *)
(* not stored, which changes nothing else.                                 *)
Write(c) ==
    /\ pc[c] = "write"
    /\ LET writes == storable[c] \cap unresolved[c]
       IN  \E stored \in SUBSET writes :
              cache' = [b \in Contents |->
                  IF \E p \in stored : print[c][p].hash = b
                  THEN vector[c][CHOOSE p \in stored : print[c][p].hash = b]
                  ELSE cache[b]]
    /\ pc' = [pc EXCEPT ![c] = "returned"]
    /\ UNCHANGED <<enabled, file, items, print, pending, unresolved, storable,
                   vector, had>>

-----------------------------------------------------------------------------
(* Somebody rewrites, creates or removes a file.                           *)
Change(p) ==
    /\ FoldFunction(LAMBDA m, n : m + n, 0, signature) < MaxChanges
    /\ \E b \in (Contents \cup {Gone}) \ {bytes[p]} :
          /\ bytes' = [bytes EXCEPT ![p] = b]
          /\ had' = [c \in Calls |->
                 IF pc[c] \in {"verify", "encode"} /\ p \in Range(items[c])
                 THEN [had[c] EXCEPT ![p] = @ \cup ({b} \cap Contents)]
                 ELSE had[c]]
    /\ signature' = [signature EXCEPT ![p] = @ + 1]
    /\ UNCHANGED <<enabled, cache, call>>

(* An entry is evicted, or its time to live is over.                       *)
Expire(b) ==
    /\ cache[b] # NoVector
    /\ cache' = [cache EXCEPT ![b] = NoVector]
    /\ UNCHANGED <<enabled, file, call, had>>

Next ==
    \/ \E c \in Calls :
          \/ Begin(c) \/ Lookup(c) \/ Write(c)
          \/ \E p \in Paths :
                Stat(c, p) \/ Hash(c, p) \/ Verify(c, p) \/ Encode(c, p) \/ Check(c, p)
    \/ \E p \in Paths : Change(p)
    \/ \E b \in Contents : Expire(b)

Spec == Init /\ [][Next]_vars

-----------------------------------------------------------------------------
(* An entry under the hash of some bytes is the vector of these bytes,     *)
(* though the bytes were hashed, encoded and checked at different times    *)
(* and other calls wrote the entry too (_group_is_unchanged before the     *)
(* write).                                                                 *)
EntryIsOfItsBytes == \A b \in Contents : cache[b] \in {b, NoVector}

(* What a call returns for a position is the vector of bytes that this     *)
(* very file had since the call read the cache (encode_items verifies its  *)
(* hits and lets the encoder read the file otherwise).  The exception is a *)
(* file that another file of the call equalled: it is given the vector of  *)
(* that file, and one of the two may change before the encoder reads it.   *)
Answer(c, p) == vector[c][Representative(c, p)]

AnswerIsOfTheFile ==
    \A c \in Calls : pc[c] = "returned" =>
        \A p \in Range(items[c]) :
            \/ Answer(c, p) \in had[c][p]
            \/ /\ Cardinality(Twins(c, p)) > 1 /\ ~Unchanged(c, p)
               /\ Representative(c, p) \in unresolved[c]
               /\ Answer(c, p) \in had[c][Representative(c, p)]

=============================================================================
