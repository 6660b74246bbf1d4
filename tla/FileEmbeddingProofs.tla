------------------------ MODULE FileEmbeddingProofs -------------------------
(***************************************************************************)
(* Proofs about FileEmbedding for any files, contents, calls and changes:  *)
(* its types, that no entry of the cache is ever the vector of other bytes *)
(* than those it is stored under, and that what a call returns for a file  *)
(* is of bytes the file had since the call began.                          *)
(***************************************************************************)
EXTENDS FileEmbedding, FiniteSetTheorems, WellFoundedInduction, TLAPS

-----------------------------------------------------------------------------
(* Types.                                                                  *)

(* A file that has not changed since it was hashed has the bytes that were *)
(* hashed then.                                                            *)
PrintsHold ==
    \A c \in Calls, p \in Paths : print[c][p].state = "hashed" =>
        /\ print[c][p].hash \in Contents
        /\ print[c][p].sign <= signature[p]
        /\ print[c][p].sign = signature[p] => bytes[p] = print[c][p].hash

LEMMA TypeInit == Init => TypeOK
  BY FileAssumption DEF Init, TypeOK, Stages, NoPrint, Fingerprint, Hashing, Fingerprinted

LEMMA BatchTypes ==
    ASSUME NEW s \in Batches
    PROVE  s \in Seq(Paths) /\ Range(s) \subseteq Paths
  <1>1. PICK n \in 1..Cardinality(Paths) : s \in [1..n -> Paths]
    BY DEF Batches
  <1>2. QED
    BY <1>1 DEF Range

LEMMA ItemTypes ==
    ASSUME TypeOK, NEW c \in Calls
    PROVE  Range(items[c]) \subseteq Paths
  <1>1. items[c] \in Seq(Paths)
    BY DEF TypeOK
  <1>2. QED
    BY <1>1 DEF Range

LEMMA HoldsTypes ==
    ASSUME NEW s
    PROVE  Holds(s) \in [Paths -> SUBSET Contents]
  BY DEF Holds

LEMMA RaiseTypes == ASSUME TypeOK, NEW c \in Calls, Raise(c) PROVE TypeOK'
  BY FileAssumption
     DEF TypeOK, Raise, Stages, file, NoPrint, Fingerprint, Hashing, Fingerprinted

LEMMA EncodeOrReturnTypes ==
    ASSUME TypeOK, NEW c \in Calls, NEW todo \in SUBSET Paths, EncodeOrReturn(c, todo)
    PROVE  /\ unresolved' \in [Calls -> SUBSET Paths]
           /\ pending' \in [Calls -> SUBSET Paths]
           /\ pc' \in [Calls -> Stages]
  BY DEF TypeOK, EncodeOrReturn, Stages

LEMMA TypeStep == TypeOK /\ PrintsHold /\ [Next]_vars => TypeOK'
  <1> SUFFICES ASSUME TypeOK, PrintsHold, [Next]_vars PROVE TypeOK'
    OBVIOUS
  <1>1. ASSUME NEW c \in Calls, Begin(c) PROVE TypeOK'
    <2>1. PICK s \in Batches :
             /\ items' = [items EXCEPT ![c] = s]
             /\ unresolved' = [unresolved EXCEPT ![c] = IF enabled THEN {} ELSE Range(s)]
             /\ pending' = [pending EXCEPT ![c] = IF enabled THEN {} ELSE Range(s)]
             /\ had' = [had EXCEPT ![c] = IF enabled THEN @ ELSE Holds(s)]
      BY <1>1 DEF Begin
    <2>2. items' \in [Calls -> Seq(Paths)]
      BY <2>1, BatchTypes DEF TypeOK
    <2>3. /\ unresolved' \in [Calls -> SUBSET Paths]
          /\ pending' \in [Calls -> SUBSET Paths]
      BY <2>1, BatchTypes DEF TypeOK
    <2>4. had' \in [Calls -> [Paths -> SUBSET Contents]]
      BY <2>1, HoldsTypes DEF TypeOK
    <2>5. pc' \in [Calls -> Stages]
      BY <1>1 DEF TypeOK, Begin, Stages
    <2>6. UNCHANGED <<enabled, file, cache, print, storable, vector>>
      BY <1>1 DEF Begin
    <2>7. QED
      BY <2>2, <2>3, <2>4, <2>5, <2>6 DEF TypeOK, file
  <1>2. ASSUME NEW c \in Calls, NEW p \in Paths, Stat(c, p) PROVE TypeOK'
    <2>1. CASE bytes[p] = Gone
      BY <1>2, <2>1, RaiseTypes DEF Stat
    <2>2. CASE bytes[p] # Gone
      <3> DEFINE new == [state |-> IF print[c][p].state = "none" THEN "stat" ELSE "again",
                         hash |-> Gone, sign |-> signature[p]]
      <3>1. new \in Fingerprint
        BY DEF TypeOK, Fingerprint, Hashing
      <3>2. /\ print' = [print EXCEPT ![c][p] = new]
            /\ UNCHANGED <<enabled, file, cache, pc, items, pending, unresolved,
                           storable, vector, had>>
        BY <1>2, <2>2 DEF Stat
      <3>3. print' \in [Calls -> [Paths -> Fingerprint]]
        <4> HIDE DEF new
        <4>1. QED
          BY <3>1, <3>2 DEF TypeOK
      <3>4. QED
        BY <3>2, <3>3 DEF TypeOK, file
    <2>3. QED
      BY <2>1, <2>2
  <1>3. ASSUME NEW c \in Calls, NEW p \in Paths, Hash(c, p) PROVE TypeOK'
    <2>1. CASE bytes[p] = Gone
      BY <1>3, <2>1, RaiseTypes DEF Hash
    <2>2. CASE bytes[p] # Gone
      <3>1. print' \in [Calls -> [Paths -> Fingerprint]]
        <4> DEFINE new == IF signature[p] = print[c][p].sign
                          THEN [state |-> "hashed", hash |-> bytes[p],
                                sign |-> print[c][p].sign]
                          ELSE [state |-> IF print[c][p].state = "stat"
                                          THEN "retry" ELSE "unstable",
                                hash |-> Gone, sign |-> signature[p]]
        <4>1. new \in Fingerprint
          BY DEF TypeOK, Fingerprint, Hashing, Fingerprinted
        <4>2. print' = [print EXCEPT ![c][p] = new]
          BY <1>3, <2>2 DEF Hash
        <4> HIDE DEF new
        <4>3. QED
          BY <4>1, <4>2 DEF TypeOK
      <3>2. pc' \in [Calls -> Stages]
        BY <1>3, <2>2 DEF TypeOK, Hash, Stages
      <3>3. UNCHANGED <<enabled, file, cache, items, pending, unresolved,
                        storable, vector, had>>
        BY <1>3, <2>2 DEF Hash
      <3>4. QED
        BY <3>1, <3>2, <3>3 DEF TypeOK, file
    <2>3. QED
      BY <2>1, <2>2
  <1>4. ASSUME NEW c \in Calls, Lookup(c) PROVE TypeOK'
    <2>1. /\ Leaders(c, "hashed") \in SUBSET Paths
          /\ Leaders(c, "unstable") \in SUBSET Paths
      BY ItemTypes DEF Leaders
    <2>2. /\ unresolved' \in [Calls -> SUBSET Paths]
          /\ pending' \in [Calls -> SUBSET Paths]
          /\ pc' \in [Calls -> Stages]
      <3>1. CASE Leaders(c, "hashed") = {}
        BY <1>4, <2>1, <3>1, EncodeOrReturnTypes DEF Lookup
      <3>2. CASE Leaders(c, "hashed") # {}
        <4>1. /\ unresolved' = [unresolved EXCEPT ![c] = Leaders(c, "unstable")]
              /\ pending' = [pending EXCEPT ![c] = Leaders(c, "hashed")]
              /\ pc' = [pc EXCEPT ![c] = "verify"]
          BY <1>4, <3>2 DEF Lookup
        <4>2. QED
          BY <2>1, <4>1 DEF TypeOK, Stages
      <3>3. QED
        BY <3>1, <3>2
    <2>3. storable' \in [Calls -> SUBSET Paths]
      BY <1>4, <2>1 DEF Lookup, TypeOK
    <2>4. vector' \in [Calls -> [Paths -> Contents \cup {NoVector}]]
      <3>1. PICK found \in {Leaders(c, "hashed"), {}} :
               vector' = [vector EXCEPT ![c] = [p \in Paths |->
                   IF p \in found THEN cache[print[c][p].hash] ELSE NoVector]]
        BY <1>4 DEF Lookup
      <3>2. ASSUME NEW p \in found
            PROVE  cache[print[c][p].hash] \in Contents \cup {NoVector}
        <4>1. p \in Paths /\ print[c][p].state = "hashed"
          BY <2>1, <3>1, <3>2 DEF Leaders
        <4>2. QED
          BY <4>1 DEF TypeOK, PrintsHold
      <3>3. QED
        BY <3>1, <3>2 DEF TypeOK
    <2>5. had' \in [Calls -> [Paths -> SUBSET Contents]]
      BY <1>4, HoldsTypes DEF Lookup, TypeOK
    <2>6. UNCHANGED <<enabled, file, cache, items, print>>
      BY <1>4 DEF Lookup
    <2>7. QED
      BY <2>2, <2>3, <2>4, <2>5, <2>6 DEF TypeOK, file
  <1>5. ASSUME NEW c \in Calls, NEW p \in Paths, Verify(c, p) PROVE TypeOK'
    <2> DEFINE todo == unresolved[c] \cup IF HitStands(c, p) THEN {} ELSE {p}
    <2>1. CASE vector[c][p] # NoVector /\ ~Present(c, p)
      BY <1>5, <2>1, RaiseTypes DEF Verify
    <2>2. CASE ~(vector[c][p] # NoVector /\ ~Present(c, p))
      <3>1. todo \in SUBSET Paths
        BY DEF TypeOK
      <3>2. /\ unresolved' \in [Calls -> SUBSET Paths]
            /\ pending' \in [Calls -> SUBSET Paths]
            /\ pc' \in [Calls -> Stages]
        <4>1. CASE pending[c] \ {p} = {}
          BY <1>5, <2>2, <3>1, <4>1, EncodeOrReturnTypes DEF Verify
        <4>2. CASE pending[c] \ {p} # {}
          <5>1. /\ unresolved' = [unresolved EXCEPT ![c] = todo]
                /\ pending' = [pending EXCEPT ![c] = @ \ {p}]
                /\ UNCHANGED pc
            BY <1>5, <2>2, <4>2 DEF Verify
          <5> HIDE DEF todo
          <5>2. QED
            BY <3>1, <5>1 DEF TypeOK
        <4>3. QED
          BY <4>1, <4>2
      <3>3. storable' \in [Calls -> SUBSET Paths]
        <4>1. storable' = [storable EXCEPT ![c] =
                  IF vector[c][p] # NoVector /\ ~HitStands(c, p) THEN @ \ {p} ELSE @]
          BY <1>5, <2>2 DEF Verify
        <4>2. QED
          BY <4>1 DEF TypeOK
      <3>4. vector' \in [Calls -> [Paths -> Contents \cup {NoVector}]]
        <4>1. vector' = [vector EXCEPT ![c][p] = IF HitStands(c, p) THEN @ ELSE NoVector]
          BY <1>5, <2>2 DEF Verify
        <4>2. QED
          BY <4>1 DEF TypeOK
      <3>5. UNCHANGED <<enabled, file, cache, items, print, had>>
        BY <1>5, <2>2 DEF Verify
      <3>6. QED
        BY <3>2, <3>3, <3>4, <3>5 DEF TypeOK, file
    <2>3. QED
      BY <2>1, <2>2
  <1>6. ASSUME NEW c \in Calls, NEW p \in Paths, Encode(c, p) PROVE TypeOK'
    <2>1. CASE Raise(c)
      BY <2>1, RaiseTypes
    <2>2. CASE ~Raise(c)
      <3>1. /\ bytes[p] # Gone
            /\ vector' = [vector EXCEPT ![c][p] = bytes[p]]
            /\ pending' = [pending EXCEPT ![c] =
                   IF pending[c] = {p} /\ enabled THEN unresolved[c] ELSE @ \ {p}]
            /\ pc' = [pc EXCEPT ![c] = IF pending[c] # {p} THEN @
                                       ELSE IF enabled THEN "check" ELSE "returned"]
            /\ UNCHANGED <<enabled, file, cache, items, print, unresolved, storable, had>>
        BY <1>6, <2>2 DEF Encode
      <3>2. vector' \in [Calls -> [Paths -> Contents \cup {NoVector}]]
        BY <3>1 DEF TypeOK
      <3>3. pending' \in [Calls -> SUBSET Paths]
        BY <3>1 DEF TypeOK
      <3>4. pc' \in [Calls -> Stages]
        BY <3>1 DEF TypeOK, Stages
      <3>5. QED
        BY <3>1, <3>2, <3>3, <3>4 DEF TypeOK, file
    <2>3. QED
      BY <2>1, <2>2
  <1>7. ASSUME NEW c \in Calls, NEW p \in Paths, Check(c, p) PROVE TypeOK'
    <2>1. CASE p \in storable[c] /\ ~Present(c, p)
      BY <1>7, <2>1, RaiseTypes DEF Check
    <2>2. CASE ~(p \in storable[c] /\ ~Present(c, p))
      <3>1. /\ storable' = [storable EXCEPT ![c] = IF Unchanged(c, p) THEN @ ELSE @ \ {p}]
            /\ pending' = [pending EXCEPT ![c] = @ \ {p}]
            /\ pc' = [pc EXCEPT ![c] = IF pending[c] = {p} THEN "write" ELSE @]
            /\ UNCHANGED <<enabled, file, cache, items, print, unresolved, vector, had>>
        BY <1>7, <2>2 DEF Check
      <3>2. /\ storable' \in [Calls -> SUBSET Paths]
            /\ pending' \in [Calls -> SUBSET Paths]
            /\ pc' \in [Calls -> Stages]
        BY <3>1 DEF TypeOK, Stages
      <3>3. QED
        BY <3>1, <3>2 DEF TypeOK, file
    <2>3. QED
      BY <2>1, <2>2
  <1>8. ASSUME NEW c \in Calls, Write(c) PROVE TypeOK'
    <2>1. PICK stored \in SUBSET (storable[c] \cap unresolved[c]) :
             cache' = [b \in Contents |->
                 IF \E p \in stored : print[c][p].hash = b
                 THEN vector[c][CHOOSE p \in stored : print[c][p].hash = b]
                 ELSE cache[b]]
      BY <1>8 DEF Write
    <2>2. ASSUME NEW b \in Contents PROVE cache'[b] \in Contents \cup {NoVector}
      <3>1. CASE \E p \in stored : print[c][p].hash = b
        <4>1. (CHOOSE p \in stored : print[c][p].hash = b) \in Paths
          BY <3>1 DEF TypeOK
        <4>2. QED
          BY <2>1, <3>1, <4>1 DEF TypeOK
      <3>2. CASE ~\E p \in stored : print[c][p].hash = b
        BY <2>1, <3>2 DEF TypeOK
      <3>3. QED
        BY <3>1, <3>2
    <2>3. cache' \in [Contents -> Contents \cup {NoVector}]
      BY <2>1, <2>2
    <2>4. QED
      BY <1>8, <2>3 DEF Write, TypeOK, Stages, file
  <1>9. ASSUME NEW p \in Paths, Change(p) PROVE TypeOK'
    <2>1. PICK b \in (Contents \cup {Gone}) \ {bytes[p]} :
             /\ bytes' = [bytes EXCEPT ![p] = b]
             /\ had' = [c \in Calls |->
                    IF pc[c] \in {"verify", "encode"} /\ p \in Range(items[c])
                    THEN [had[c] EXCEPT ![p] = @ \cup ({b} \cap Contents)]
                    ELSE had[c]]
      BY <1>9 DEF Change
    <2>2. had' \in [Calls -> [Paths -> SUBSET Contents]]
      BY <2>1 DEF TypeOK
    <2>3. /\ bytes' \in [Paths -> Contents \cup {Gone}]
          /\ signature' \in [Paths -> Nat]
          /\ UNCHANGED <<enabled, cache, call>>
      <3>1. /\ signature' = [signature EXCEPT ![p] = @ + 1]
            /\ UNCHANGED <<enabled, cache, call>>
        BY <1>9 DEF Change
      <3>2. QED
        BY <2>1, <3>1 DEF TypeOK
    <2>4. QED
      BY <2>2, <2>3 DEF TypeOK, call
  <1>10. ASSUME NEW b \in Contents, Expire(b) PROVE TypeOK'
    BY <1>10 DEF Expire, TypeOK, file, call
  <1>11. CASE UNCHANGED vars
    BY <1>11 DEF TypeOK, vars, file, call
  <1>12. QED
    BY <1>1, <1>2, <1>3, <1>4, <1>5, <1>6, <1>7, <1>8, <1>9, <1>10, <1>11 DEF Next

-----------------------------------------------------------------------------
(* What is stored was computed from the bytes it is stored under.          *)

(* Only groups that were fingerprinted are stored.                         *)
StorableIsHashed ==
    \A c \in Calls :
        /\ pc[c] = "idle" => storable[c] = {}
        /\ \A p \in storable[c] : p \in Range(items[c]) /\ print[c][p].state = "hashed"

Fits(c, p) == vector[c][p] \in {NoVector, print[c][p].hash}

(* While a representative is as it was fingerprinted, its vector is right: *)
(* what the cache had, or what the encoder made of the bytes that the file *)
(* still has.                                                              *)
Current ==
    \A c \in Calls : \A p \in storable[c] :
        signature[p] = print[c][p].sign => Fits(c, p)

(* After the check the vector is right, whatever becomes of the file.      *)
Checked ==
    \A c \in Calls :
        /\ pc[c] \in {"check", "write"} =>
              \A p \in (storable[c] \cap unresolved[c]) \ pending[c] : Fits(c, p)
        /\ pc[c] = "write" => pending[c] = {}

Safe == PrintsHold /\ StorableIsHashed /\ Current /\ Checked /\ EntryIsOfItsBytes

IInv == TypeOK /\ Safe

LEMMA SafeInit == Init => Safe
  BY DEF Init, Safe, PrintsHold, StorableIsHashed, Current, Checked, EntryIsOfItsBytes, NoPrint

LEMMA RaiseSafe == ASSUME IInv, NEW c \in Calls, Raise(c) PROVE Safe'
  <1>1. /\ pc' = [pc EXCEPT ![c] = "raised"]
        /\ print' = [print EXCEPT ![c] = [p \in Paths |-> NoPrint]]
        /\ storable' = [storable EXCEPT ![c] = {}]
        /\ \A d \in Calls \ {c} :
              /\ items'[d] = items[d] /\ pending'[d] = pending[d]
              /\ unresolved'[d] = unresolved[d] /\ vector'[d] = vector[d]
        /\ UNCHANGED <<bytes, signature, cache>>
    BY DEF IInv, TypeOK, Raise, file
  <1>2. storable'[c] = {} /\ pc'[c] = "raised" /\ \A p \in Paths : print'[c][p] = NoPrint
    BY <1>1 DEF IInv, TypeOK
  <1>3. \A d \in Calls \ {c} :
          pc'[d] = pc[d] /\ print'[d] = print[d] /\ storable'[d] = storable[d]
    BY <1>1 DEF IInv, TypeOK
  <1> USE DEF IInv, Safe
  <1>4. PrintsHold'
    BY <1>1, <1>2, <1>3 DEF PrintsHold, NoPrint
  <1>5. StorableIsHashed'
    BY <1>1, <1>2, <1>3 DEF StorableIsHashed
  <1>6. Current'
    BY <1>1, <1>2, <1>3 DEF Current, Fits
  <1>7. Checked'
    BY <1>1, <1>2, <1>3 DEF Checked, Fits
  <1>8. EntryIsOfItsBytes'
    BY <1>1 DEF EntryIsOfItsBytes
  <1>9. QED
    BY <1>4, <1>5, <1>6, <1>7, <1>8

(* A step of call c that leaves files, cache, fingerprints and the other   *)
(* calls alone is safe if it is for c.                                     *)
LEMMA Local ==
    ASSUME IInv, TypeOK', NEW c \in Calls,
           UNCHANGED <<bytes, signature, cache, print>>,
           \A d \in Calls \ {c} :
              /\ pc'[d] = pc[d] /\ items'[d] = items[d] /\ pending'[d] = pending[d]
              /\ unresolved'[d] = unresolved[d] /\ storable'[d] = storable[d]
              /\ vector'[d] = vector[d],
           pc'[c] # "idle",
           \A p \in storable'[c] :
              /\ p \in Range(items'[c]) /\ print[c][p].state = "hashed"
              /\ signature[p] = print[c][p].sign => Fits(c, p)',
           pc'[c] \in {"check", "write"} =>
              \A p \in (storable'[c] \cap unresolved'[c]) \ pending'[c] : Fits(c, p)',
           pc'[c] = "write" => pending'[c] = {}
    PROVE  Safe'
  <1> USE DEF IInv, Safe
  <1>1. PrintsHold'
    BY DEF PrintsHold
  <1>2. StorableIsHashed'
    BY DEF StorableIsHashed
  <1>3. Current'
    <2> SUFFICES ASSUME NEW d \in Calls, NEW p \in storable'[d],
                        signature[p] = print[d][p].sign
                 PROVE  Fits(d, p)'
      BY DEF Current
    <2>1. CASE d = c
      BY <2>1
    <2>2. CASE d # c
      BY <2>2 DEF Current, Fits
    <2>3. QED
      BY <2>1, <2>2
  <1>4. Checked'
    <2> SUFFICES ASSUME NEW d \in Calls
                 PROVE  /\ pc'[d] \in {"check", "write"} =>
                              \A p \in (storable'[d] \cap unresolved'[d]) \ pending'[d] :
                                  Fits(d, p)'
                        /\ pc'[d] = "write" => pending'[d] = {}
      BY DEF Checked
    <2>1. CASE d = c
      BY <2>1
    <2>2. CASE d # c
      BY <2>2 DEF Checked, Fits
    <2>3. QED
      BY <2>1, <2>2
  <1>5. EntryIsOfItsBytes'
    BY DEF EntryIsOfItsBytes
  <1>6. QED
    BY <1>1, <1>2, <1>3, <1>4, <1>5

LEMMA BeginSafe == ASSUME IInv, TypeOK', NEW c \in Calls, Begin(c) PROVE Safe'
  <1>1. /\ pc[c] = "idle"
        /\ pc' = [pc EXCEPT ![c] = IF enabled THEN "fingerprint" ELSE "encode"]
        /\ UNCHANGED <<bytes, signature, cache, print, storable, vector>>
    BY DEF Begin, file
  <1>2. \A d \in Calls \ {c} :
          items'[d] = items[d] /\ pending'[d] = pending[d] /\ unresolved'[d] = unresolved[d]
    <2>1. PICK s \in Batches :
             /\ items' = [items EXCEPT ![c] = s]
             /\ unresolved' = [unresolved EXCEPT ![c] = IF enabled THEN {} ELSE Range(s)]
             /\ pending' = [pending EXCEPT ![c] = IF enabled THEN {} ELSE Range(s)]
      BY DEF Begin
    <2>2. QED
      BY <2>1 DEF IInv, TypeOK
  <1>3. storable'[c] = {} /\ pc'[c] \in {"fingerprint", "encode"}
    BY <1>1 DEF IInv, Safe, StorableIsHashed, TypeOK
  <1>4. \A d \in Calls \ {c} : pc'[d] = pc[d]
    BY <1>1 DEF IInv, TypeOK
  <1>5. QED
    BY <1>1, <1>2, <1>3, <1>4, Local

(* A fingerprint that is being taken is not one of a storable group.       *)
LEMMA PrintSafe ==
    ASSUME IInv, TypeOK', NEW c \in Calls, NEW p \in Paths, NEW new,
           print' = [print EXCEPT ![c][p] = new],
           print[c][p].state # "hashed",
           new.state = "hashed" =>
              new.hash \in Contents /\ new.sign = signature[p] /\ new.hash = bytes[p],
           UNCHANGED <<bytes, signature, cache, items, pending, unresolved, storable, vector>>,
           pc'[c] \in {"fingerprint", "read"},
           \A d \in Calls \ {c} : pc'[d] = pc[d]
    PROVE  Safe'
  <1> USE DEF IInv, Safe
  <1>1. \A d \in Calls, q \in Paths :
           print'[d][q] = IF d = c /\ q = p THEN new ELSE print[d][q]
    BY DEF TypeOK
  <1>2. p \notin storable[c]
    BY DEF StorableIsHashed
  <1>3. PrintsHold'
    <2> SUFFICES ASSUME NEW d \in Calls, NEW q \in Paths, print'[d][q].state = "hashed"
                 PROVE  /\ print'[d][q].hash \in Contents
                        /\ print'[d][q].sign <= signature[q]
                        /\ print'[d][q].sign = signature[q] => bytes[q] = print'[d][q].hash
      BY DEF PrintsHold
    <2>1. signature[q] \in Nat
      BY DEF TypeOK
    <2>2. CASE d = c /\ q = p
      BY <1>1, <2>1, <2>2
    <2>3. CASE ~(d = c /\ q = p)
      BY <1>1, <2>3 DEF PrintsHold
    <2>4. QED
      BY <2>2, <2>3
  <1>4. \A d \in Calls : \A q \in storable[d] : print'[d][q] = print[d][q]
    BY <1>1, <1>2 DEF TypeOK
  <1>5. StorableIsHashed'
    BY <1>4 DEF StorableIsHashed
  <1>6. Current'
    BY <1>4 DEF Current, Fits
  <1>7. Checked'
    BY <1>4 DEF Checked, Fits
  <1>8. EntryIsOfItsBytes'
    BY DEF EntryIsOfItsBytes
  <1>9. QED
    BY <1>3, <1>5, <1>6, <1>7, <1>8

LEMMA StatSafe ==
    ASSUME IInv, TypeOK', NEW c \in Calls, NEW p \in Paths, Stat(c, p) PROVE Safe'
  <1>1. CASE bytes[p] = Gone
    BY <1>1, RaiseSafe DEF Stat
  <1>2. CASE bytes[p] # Gone
    <2> DEFINE new == [state |-> IF print[c][p].state = "none" THEN "stat" ELSE "again",
                       hash |-> Gone, sign |-> signature[p]]
    <2>1. /\ print' = [print EXCEPT ![c][p] = new]
          /\ UNCHANGED <<bytes, signature, cache, pc, items, pending, unresolved,
                         storable, vector>>
      BY <1>2 DEF Stat, file
    <2>2. pc[c] = "fingerprint" /\ print[c][p].state # "hashed"
      BY DEF Stat
    <2>3. new.state # "hashed"
      OBVIOUS
    <2> HIDE DEF new
    <2>4. QED
      BY <2>1, <2>2, <2>3, PrintSafe
  <1>3. QED
    BY <1>1, <1>2

LEMMA HashSafe ==
    ASSUME IInv, TypeOK', NEW c \in Calls, NEW p \in Paths, Hash(c, p) PROVE Safe'
  <1>1. CASE bytes[p] = Gone
    BY <1>1, RaiseSafe DEF Hash
  <1>2. CASE bytes[p] # Gone
    <2> DEFINE new == IF signature[p] = print[c][p].sign
                      THEN [state |-> "hashed", hash |-> bytes[p], sign |-> print[c][p].sign]
                      ELSE [state |-> IF print[c][p].state = "stat"
                                      THEN "retry" ELSE "unstable",
                            hash |-> Gone, sign |-> signature[p]]
    <2>1. /\ print' = [print EXCEPT ![c][p] = new]
          /\ UNCHANGED <<bytes, signature, cache, items, pending, unresolved,
                         storable, vector>>
      BY <1>2 DEF Hash, file
    <2>2. /\ pc'[c] \in {"fingerprint", "read"}
          /\ \A d \in Calls \ {c} : pc'[d] = pc[d]
      BY <1>2 DEF Hash, IInv, TypeOK
    <2>3. print[c][p].state # "hashed"
      BY DEF Hash
    <2>4. new.state = "hashed" =>
             new.hash \in Contents /\ new.sign = signature[p] /\ new.hash = bytes[p]
      BY <1>2 DEF IInv, TypeOK
    <2> HIDE DEF new
    <2>5. QED
      BY <2>1, <2>2, <2>3, <2>4, PrintSafe
  <1>3. QED
    BY <1>1, <1>2

LEMMA EncodeOrReturnLocal ==
    ASSUME IInv, NEW c \in Calls, NEW todo, EncodeOrReturn(c, todo)
    PROVE  /\ pc'[c] \in {"encode", "returned"}
           /\ \A d \in Calls \ {c} :
                 pc'[d] = pc[d] /\ pending'[d] = pending[d] /\ unresolved'[d] = unresolved[d]
  BY DEF IInv, TypeOK, EncodeOrReturn

LEMMA LookupSafe == ASSUME IInv, TypeOK', NEW c \in Calls, Lookup(c) PROVE Safe'
  <1>1. PICK found \in {Leaders(c, "hashed"), {}} :
           vector' = [vector EXCEPT ![c] = [p \in Paths |->
               IF p \in found THEN cache[print[c][p].hash] ELSE NoVector]]
    BY DEF Lookup
  <1>2. /\ storable' = [storable EXCEPT ![c] = Leaders(c, "hashed")]
        /\ UNCHANGED <<bytes, signature, cache, items, print>>
    BY DEF Lookup, file
  <1>3. /\ pc'[c] \in {"verify", "encode", "returned"}
        /\ \A d \in Calls \ {c} :
              pc'[d] = pc[d] /\ pending'[d] = pending[d] /\ unresolved'[d] = unresolved[d]
    <2>1. CASE Leaders(c, "hashed") = {}
      BY <2>1, EncodeOrReturnLocal DEF Lookup
    <2>2. CASE Leaders(c, "hashed") # {}
      <3>1. /\ unresolved' = [unresolved EXCEPT ![c] = Leaders(c, "unstable")]
            /\ pending' = [pending EXCEPT ![c] = Leaders(c, "hashed")]
            /\ pc' = [pc EXCEPT ![c] = "verify"]
        BY <2>2 DEF Lookup
      <3>2. QED
        BY <3>1 DEF IInv, TypeOK
    <2>3. QED
      BY <2>1, <2>2
  <1>4. \A d \in Calls \ {c} : storable'[d] = storable[d] /\ vector'[d] = vector[d]
    BY <1>1, <1>2 DEF IInv, TypeOK
  <1>5. ASSUME NEW p \in storable'[c]
        PROVE  p \in Range(items[c]) /\ print[c][p].state = "hashed" /\ Fits(c, p)'
    <2>1. p \in Range(items[c]) /\ print[c][p].state = "hashed"
      BY <1>2, <1>5 DEF IInv, TypeOK, Leaders
    <2>2. p \in Paths
      BY <2>1, ItemTypes DEF IInv
    <2>3. cache[print[c][p].hash] \in {NoVector, print[c][p].hash}
      BY <2>1, <2>2 DEF IInv, Safe, PrintsHold, EntryIsOfItsBytes
    <2>4. vector'[c][p] \in {NoVector, cache[print[c][p].hash]}
      BY <1>1, <2>2 DEF IInv, TypeOK
    <2>5. QED
      BY <1>2, <2>1, <2>3, <2>4 DEF Fits
  <1>6. QED
    BY <1>2, <1>3, <1>4, <1>5, Local

LEMMA VerifySafe ==
    ASSUME IInv, TypeOK', NEW c \in Calls, NEW p \in Paths, Verify(c, p) PROVE Safe'
  <1>1. CASE vector[c][p] # NoVector /\ ~Present(c, p)
    BY <1>1, RaiseSafe DEF Verify
  <1>2. CASE ~(vector[c][p] # NoVector /\ ~Present(c, p))
    <2> DEFINE todo == unresolved[c] \cup IF HitStands(c, p) THEN {} ELSE {p}
    <2>1. /\ storable' = [storable EXCEPT ![c] =
                IF vector[c][p] # NoVector /\ ~HitStands(c, p) THEN @ \ {p} ELSE @]
          /\ vector' = [vector EXCEPT ![c][p] = IF HitStands(c, p) THEN @ ELSE NoVector]
          /\ UNCHANGED <<bytes, signature, cache, items, print>>
      BY <1>2 DEF Verify, file
    <2>2. /\ pc'[c] \in {"verify", "encode", "returned"}
          /\ \A d \in Calls \ {c} :
                pc'[d] = pc[d] /\ pending'[d] = pending[d] /\ unresolved'[d] = unresolved[d]
      <3>1. CASE pending[c] \ {p} = {}
        BY <1>2, <3>1, EncodeOrReturnLocal DEF Verify
      <3>2. CASE pending[c] \ {p} # {}
        <4>1. /\ pc[c] = "verify"
              /\ unresolved' = [unresolved EXCEPT ![c] = todo]
              /\ pending' = [pending EXCEPT ![c] = @ \ {p}]
              /\ UNCHANGED pc
          BY <1>2, <3>2 DEF Verify
        <4> HIDE DEF todo
        <4>2. QED
          BY <4>1 DEF IInv, TypeOK
      <3>3. QED
        BY <3>1, <3>2
    <2>3. \A d \in Calls \ {c} : storable'[d] = storable[d] /\ vector'[d] = vector[d]
      BY <2>1 DEF IInv, TypeOK
    <2>4. storable'[c] \subseteq storable[c]
      BY <2>1 DEF IInv, TypeOK
    <2>5. \A q \in Paths : vector'[c][q] \in {vector[c][q], NoVector}
      BY <2>1 DEF IInv, TypeOK
    <2>6. ASSUME NEW q \in storable'[c]
          PROVE  /\ q \in Range(items[c]) /\ print[c][q].state = "hashed"
                 /\ signature[q] = print[c][q].sign => Fits(c, q)'
      <3>1. q \in storable[c] /\ q \in Paths
        BY <2>4, <2>6 DEF IInv, TypeOK
      <3>2. QED
        BY <2>1, <2>5, <3>1 DEF IInv, Safe, StorableIsHashed, Current, Fits
    <2>7. QED
      BY <2>1, <2>2, <2>3, <2>6, Local
  <1>3. QED
    BY <1>1, <1>2

LEMMA EncodeSafe ==
    ASSUME IInv, TypeOK', NEW c \in Calls, NEW p \in Paths, Encode(c, p) PROVE Safe'
  <1>1. CASE Raise(c)
    BY <1>1, RaiseSafe
  <1>2. CASE ~Raise(c)
    <2>1. /\ pc[c] = "encode"
          /\ vector' = [vector EXCEPT ![c][p] = bytes[p]]
          /\ pending' = [pending EXCEPT ![c] =
                 IF pending[c] = {p} /\ enabled THEN unresolved[c] ELSE @ \ {p}]
          /\ pc' = [pc EXCEPT ![c] = IF pending[c] # {p} THEN @
                                     ELSE IF enabled THEN "check" ELSE "returned"]
          /\ UNCHANGED <<bytes, signature, cache, items, print, unresolved, storable>>
      BY <1>2 DEF Encode, file
    <2>2. \A d \in Calls \ {c} :
             pc'[d] = pc[d] /\ pending'[d] = pending[d] /\ vector'[d] = vector[d]
      BY <2>1 DEF IInv, TypeOK
    <2>3. /\ pc'[c] \in {"encode", "check", "returned"}
          /\ pc'[c] = "check" => pending'[c] = unresolved[c]
      BY <2>1 DEF IInv, TypeOK
    <2>4. \A q \in Paths : vector'[c][q] = IF q = p THEN bytes[p] ELSE vector[c][q]
      BY <2>1 DEF IInv, TypeOK
    <2>5. ASSUME NEW q \in storable'[c]
          PROVE  /\ q \in Range(items[c]) /\ print[c][q].state = "hashed"
                 /\ signature[q] = print[c][q].sign => Fits(c, q)'
      <3>1. q \in storable[c] /\ q \in Paths
        BY <2>1, <2>5 DEF IInv, TypeOK
      <3>2. q \in Range(items[c]) /\ print[c][q].state = "hashed"
        BY <3>1 DEF IInv, Safe, StorableIsHashed
      <3>3. signature[q] = print[c][q].sign => bytes[q] = print[c][q].hash
        BY <3>1, <3>2 DEF IInv, Safe, PrintsHold
      <3>4. signature[q] = print[c][q].sign => Fits(c, q)
        BY <3>1 DEF IInv, Safe, Current
      <3>5. QED
        BY <2>1, <2>4, <3>1, <3>2, <3>3, <3>4 DEF Fits
    <2>6. QED
      BY <2>1, <2>2, <2>3, <2>5, Local
  <1>3. QED
    BY <1>1, <1>2

LEMMA CheckSafe ==
    ASSUME IInv, TypeOK', NEW c \in Calls, NEW p \in Paths, Check(c, p) PROVE Safe'
  <1>1. CASE p \in storable[c] /\ ~Present(c, p)
    BY <1>1, RaiseSafe DEF Check
  <1>2. CASE ~(p \in storable[c] /\ ~Present(c, p))
    <2>1. /\ pc[c] = "check"
          /\ storable' = [storable EXCEPT ![c] = IF Unchanged(c, p) THEN @ ELSE @ \ {p}]
          /\ pending' = [pending EXCEPT ![c] = @ \ {p}]
          /\ pc' = [pc EXCEPT ![c] = IF pending[c] = {p} THEN "write" ELSE @]
          /\ UNCHANGED <<bytes, signature, cache, items, print, unresolved, vector>>
      BY <1>2 DEF Check, file
    <2>2. \A d \in Calls \ {c} :
             pc'[d] = pc[d] /\ pending'[d] = pending[d] /\ storable'[d] = storable[d]
      BY <2>1 DEF IInv, TypeOK
    <2>3. /\ pc'[c] \in {"check", "write"}
          /\ pending'[c] = pending[c] \ {p}
          /\ pc'[c] = "write" => pending'[c] = {}
      BY <2>1 DEF IInv, TypeOK
    <2>4. storable'[c] = IF Unchanged(c, p) THEN storable[c] ELSE storable[c] \ {p}
      BY <2>1 DEF IInv, TypeOK
    <2>5. ASSUME NEW q \in storable'[c]
          PROVE  /\ q \in Range(items[c]) /\ print[c][q].state = "hashed"
                 /\ signature[q] = print[c][q].sign => Fits(c, q)'
      BY <2>1, <2>4, <2>5 DEF IInv, Safe, StorableIsHashed, Current, Fits
    <2>6. ASSUME NEW q \in (storable'[c] \cap unresolved'[c]) \ pending'[c]
          PROVE  Fits(c, q)'
      <3>1. CASE q \notin pending[c]
        BY <2>1, <2>4, <2>6, <3>1 DEF IInv, Safe, Checked, Fits
      <3>2. CASE q \in pending[c]
        <4>1. q = p /\ p \in storable[c] /\ Unchanged(c, p)
          BY <2>3, <2>4, <2>6, <3>2
        <4>2. p \in Range(items[c]) /\ print[c][p].state = "hashed"
          BY <4>1 DEF IInv, Safe, StorableIsHashed
        <4>3. p \in Twins(c, p)
          BY <4>2 DEF Twins
        <4>4. signature[p] = print[c][p].sign
          BY <4>1, <4>3 DEF Unchanged
        <4>5. QED
          BY <2>1, <4>1, <4>4 DEF IInv, Safe, Current, Fits
      <3>3. QED
        BY <3>1, <3>2
    <2>7. QED
      BY <2>1, <2>2, <2>3, <2>5, <2>6, Local
  <1>3. QED
    BY <1>1, <1>2

LEMMA WriteSafe == ASSUME IInv, TypeOK', NEW c \in Calls, Write(c) PROVE Safe'
  <1>1. PICK stored \in SUBSET (storable[c] \cap unresolved[c]) :
           cache' = [b \in Contents |->
               IF \E p \in stored : print[c][p].hash = b
               THEN vector[c][CHOOSE p \in stored : print[c][p].hash = b]
               ELSE cache[b]]
    BY DEF Write
  <1>2. /\ pc[c] = "write" /\ pc' = [pc EXCEPT ![c] = "returned"]
        /\ UNCHANGED <<bytes, signature, items, print, pending, unresolved, storable, vector>>
    BY DEF Write, file
  <1>3. ASSUME NEW d \in Calls, pc'[d] \in {"idle", "check", "write"} PROVE pc[d] = pc'[d]
    BY <1>2, <1>3 DEF IInv, TypeOK
  <1>4. EntryIsOfItsBytes'
    <2> SUFFICES ASSUME NEW b \in Contents PROVE cache'[b] \in {b, NoVector}
      BY DEF EntryIsOfItsBytes
    <2>1. CASE \E p \in stored : print[c][p].hash = b
      <3> DEFINE p == CHOOSE q \in stored : print[c][q].hash = b
      <3>1. p \in stored /\ print[c][p].hash = b
        BY <2>1
      <3>2. cache'[b] = vector[c][p]
        BY <1>1, <2>1
      <3> HIDE DEF p
      <3>3. Fits(c, p)
        BY <1>2, <3>1 DEF IInv, Safe, Checked
      <3>4. QED
        BY <3>1, <3>2, <3>3 DEF Fits
    <2>2. CASE ~\E p \in stored : print[c][p].hash = b
      BY <1>1, <2>2 DEF IInv, Safe, EntryIsOfItsBytes
    <2>3. QED
      BY <2>1, <2>2
  <1>5. PrintsHold' /\ StorableIsHashed' /\ Current' /\ Checked'
    BY <1>2, <1>3 DEF IInv, Safe, PrintsHold, StorableIsHashed, Current, Checked, Fits
  <1>6. QED
    BY <1>4, <1>5 DEF Safe

(* After a change the fingerprints of the file are older than it.          *)
LEMMA ChangeSafe == ASSUME IInv, TypeOK', NEW p \in Paths, Change(p) PROVE Safe'
  <1>1. /\ signature' = [signature EXCEPT ![p] = @ + 1]
        /\ UNCHANGED <<cache, pc, items, print, pending, unresolved, storable, vector>>
        /\ \A q \in Paths \ {p} : bytes'[q] = bytes[q]
    BY DEF Change, call, IInv, TypeOK
  <1>2. \A q \in Paths : /\ signature[q] \in Nat
                         /\ signature'[q] = IF q = p THEN signature[q] + 1 ELSE signature[q]
    BY <1>1 DEF IInv, TypeOK
  <1>3. \A c \in Calls, q \in Paths : print[c][q].sign \in Nat
    BY DEF IInv, TypeOK, Fingerprint
  <1>4. PrintsHold'
    BY <1>1, <1>2, <1>3 DEF IInv, Safe, PrintsHold
  <1>5. StorableIsHashed' /\ Checked' /\ EntryIsOfItsBytes'
    BY <1>1 DEF IInv, Safe, StorableIsHashed, Checked, EntryIsOfItsBytes, Fits
  <1>6. Current'
    <2> SUFFICES ASSUME NEW c \in Calls, NEW q \in storable[c],
                        signature'[q] = print[c][q].sign
                 PROVE  Fits(c, q)
      BY <1>1 DEF Current, Fits
    <2>1. q \in Paths /\ print[c][q].sign <= signature[q]
      BY DEF IInv, Safe, TypeOK, StorableIsHashed, PrintsHold
    <2>2. signature[q] = print[c][q].sign
      BY <1>2, <1>3, <2>1
    <2>3. QED
      BY <2>2 DEF IInv, Safe, Current
  <1>7. QED
    BY <1>4, <1>5, <1>6 DEF Safe

LEMMA ExpireSafe == ASSUME IInv, NEW b \in Contents, Expire(b) PROVE Safe'
  BY DEF IInv, TypeOK, Safe, PrintsHold, StorableIsHashed, Current, Checked,
         EntryIsOfItsBytes, Fits, Expire, file, call

LEMMA Step == IInv /\ [Next]_vars => IInv'
  <1> SUFFICES ASSUME IInv, [Next]_vars PROVE IInv'
    OBVIOUS
  <1>1. TypeOK'
    BY TypeStep DEF IInv, Safe
  <1>2. Safe'
    <2>1. CASE UNCHANGED vars
      BY <2>1 DEF IInv, Safe, PrintsHold, StorableIsHashed, Current, Checked,
                  EntryIsOfItsBytes, Fits, vars, file, call
    <2>2. CASE Next
      BY <1>1, <2>2, BeginSafe, StatSafe, HashSafe, LookupSafe, VerifySafe, EncodeSafe,
         CheckSafe, WriteSafe, ChangeSafe, ExpireSafe DEF Next
    <2>3. QED
      BY <2>1, <2>2
  <1>3. QED
    BY <1>1, <1>2 DEF IInv

LEMMA Invariance == Spec => []IInv
  <1>1. Init => IInv
    BY TypeInit, SafeInit DEF IInv
  <1>2. QED
    BY <1>1, Step, PTL DEF Spec

-----------------------------------------------------------------------------
(* Every variable of the cache and its calls keeps its type; the bytes     *)
(* that were hashed are never those of a missing file.                     *)
THEOREM TypeCorrect == Spec => []TypeOK
  BY Invariance, PTL DEF IInv

(* However many calls fingerprint, encode and write at once, and whenever  *)
(* files are rewritten or removed, encode_items never leaves a vector in   *)
(* the cache under the hash of other bytes.                                *)
THEOREM EntriesAreOfTheirBytes == Spec => []EntryIsOfItsBytes
  BY Invariance, PTL DEF IInv, Safe

-----------------------------------------------------------------------------
(* What a call returns.                                                    *)

After == {"verify", "encode", "check", "write", "returned"}

(* From the read of the cache to the encoder, had is kept up to date.      *)
Seen(c) ==
    pc[c] \in {"verify", "encode"} =>
        \A p \in Range(items[c]) : bytes[p] \in had[c][p] \cup {Gone}

(* A file that is as fingerprinted had these bytes since the read, and its *)
(* vector, if it has one, is theirs.                                       *)
Genuine(c) ==
    pc[c] \in After =>
        \A p \in Range(items[c]) :
            print[c][p].state = "hashed" /\ signature[p] = print[c][p].sign =>
                print[c][p].hash \in had[c][p] /\ Fits(c, p)

(* A hit that stands: every file of the group had its bytes.               *)
Verified(c, p) == \A q \in Twins(c, p) : vector[c][p] \in had[c][q]

(* Every group is encoded, or is a hit that stands or is still to be       *)
(* verified.                                                               *)
Settled(c) ==
    pc[c] \in After =>
        /\ \A p \in Range(items[c]) : Leads(c, p) =>
              \/ p \in unresolved[c]
              \/ Verified(c, p)
              \/ pc[c] = "verify" /\ p \in pending[c]
        /\ unresolved[c] \subseteq Range(items[c])

IsEncoded(c, p) ==
    \/ pc[c] = "encode" /\ p \notin pending[c]
    \/ pc[c] \in {"check", "write", "returned"}

(* What the encoder made is the vector of bytes the representative had.    *)
Encoded(c) ==
    /\ pc[c] = "encode" => pending[c] \subseteq unresolved[c]
    /\ pc[c] = "verify" => pending[c] \subseteq Leaders(c, "hashed")
    /\ \A p \in unresolved[c] : IsEncoded(c, p) => vector[c][p] \in had[c][p]

(* Without a cache nothing is fingerprinted, and all files are encoded;    *)
(* with one, all are fingerprinted before the read.                        *)
Prints(c) ==
    /\ pc[c] = "idle" \/ ~enabled => \A p \in Paths : print[c][p].state = "none"
    /\ ~enabled => /\ pc[c] \in {"idle", "encode", "returned", "raised"}
                   /\ unresolved[c] = Range(items[c])
    /\ enabled /\ (pc[c] = "read" \/ pc[c] \in After) =>
          \A p \in Range(items[c]) : print[c][p].state \in Fingerprinted

Traced(c) == Seen(c) /\ Genuine(c) /\ Settled(c) /\ Encoded(c) /\ Prints(c)

(* A nonempty set of natural numbers has a least one.                      *)
LEMMA HasLeast ==
    ASSUME NEW T \in SUBSET Nat, T # {}
    PROVE  \E m \in T : \A k \in T : m <= k
  <1> DEFINE R == {ss \in Nat \X Nat : ss[1] < ss[2]}
  <1>1. IsWellFoundedOn(R, Nat)
    BY NatLessThanWellFounded DEF OpToRel
  <1>2. \A x, y \in Nat : x < y => <<x, y>> \in R
    OBVIOUS
  <1> HIDE DEF R
  <1>3. PICK m \in T : \A k \in T : ~(<<k, m>> \in R)
    BY <1>1, WFMin
  <1>4. \A k \in T : ~(k < m)
    BY <1>2, <1>3, Zenon
  <1>5. QED
    BY <1>4

LEMMA TwinsFacts ==
    ASSUME TypeOK, NEW c \in Calls, NEW p \in Range(items[c])
    PROVE  /\ p \in Twins(c, p)
           /\ Twins(c, p) \subseteq Range(items[c])
           /\ IsFiniteSet(Twins(c, p))
           /\ \A q \in Twins(c, p) : Twins(c, q) = Twins(c, p)
           /\ \A q \in Twins(c, p) :
                 \/ q = p
                 \/ /\ print[c][q].state = "hashed" /\ print[c][p].state = "hashed"
                    /\ print[c][q].hash = print[c][p].hash
  <1>1. p \in Twins(c, p) /\ Twins(c, p) \subseteq Range(items[c])
    BY DEF Twins
  <1>2. ASSUME NEW q \in Twins(c, p)
        PROVE  \/ q = p
               \/ /\ print[c][q].state = "hashed" /\ print[c][p].state = "hashed"
                  /\ print[c][q].hash = print[c][p].hash
    BY DEF Twins
  <1>3. ASSUME NEW q \in Twins(c, p) PROVE Twins(c, q) = Twins(c, p)
    BY <1>2 DEF Twins
  <1>4. IsFiniteSet(Range(items[c]))
    <2>1. items[c] \in [1..Len(items[c]) -> Paths] /\ Len(items[c]) \in Nat
      BY DEF TypeOK
    <2>2. items[c] \in Surjection(1..Len(items[c]), Range(items[c]))
      BY <2>1 DEF Surjection, Range
    <2>3. QED
      BY <2>1, <2>2, FS_NatSurjection DEF ExistsSurjection
  <1>5. IsFiniteSet(Twins(c, p))
    BY <1>1, <1>4, FS_Subset
  <1>6. QED
    BY <1>1, <1>2, <1>3, <1>5

(* Every group has a representative: the item that comes first.            *)
LEMMA RepresentativeFacts ==
    ASSUME TypeOK, NEW c \in Calls, NEW p \in Range(items[c])
    PROVE  /\ Representative(c, p) \in Twins(c, p)
           /\ Leads(c, Representative(c, p))
  <1> DEFINE first(i) == items[c][i] \in Twins(c, p)
             T == {i \in DOMAIN items[c] : first(i)}
  <1>1. items[c] \in [1..Len(items[c]) -> Paths] /\ Len(items[c]) \in Nat
    BY DEF TypeOK
  <1>2. T \in SUBSET Nat /\ T # {}
    BY <1>1, TwinsFacts DEF Range
  <1>3. PICK i \in T : \A k \in T : i <= k
    BY <1>2, HasLeast
  <1>4. \A j \in 1..(i - 1) : ~first(j)
    BY <1>1, <1>3
  <1>5. Twins(c, items[c][i]) = Twins(c, p)
    BY <1>3, TwinsFacts
  <1>6. Leads(c, items[c][i])
    BY <1>3, <1>4, <1>5 DEF Leads
  <1>7. \E q \in Twins(c, p) : Leads(c, q)
    BY <1>3, <1>6
  <1>8. QED
    BY <1>7 DEF Representative

(* Steps of other calls leave what is known of a call alone.               *)
LEMMA Untouched ==
    ASSUME NEW c \in Calls, Traced(c), UNCHANGED <<enabled, bytes, signature>>,
           pc'[c] = pc[c], items'[c] = items[c], print'[c] = print[c],
           pending'[c] = pending[c], unresolved'[c] = unresolved[c],
           vector'[c] = vector[c], had'[c] = had[c]
    PROVE  Traced(c)'
  <1>1. Seen(c)' /\ Genuine(c)' /\ Prints(c)'
    BY DEF Traced, Seen, Genuine, Prints, Fits
  <1>2. Settled(c)'
    <2>1. \A p : Twins(c, p)' = Twins(c, p)
      BY DEF Twins
    <2>2. \A p : Leads(c, p)' <=> Leads(c, p)
      BY <2>1 DEF Leads
    <2>3. \A p : Verified(c, p)' <=> Verified(c, p)
      BY <2>1 DEF Verified
    <2>4. QED
      BY <2>2, <2>3 DEF Traced, Settled
  <1>3. Encoded(c)'
    <2>1. Leaders(c, "hashed")' = Leaders(c, "hashed")
      BY DEF Leaders, Leads, Twins
    <2>2. QED
      BY <2>1 DEF Traced, Encoded, IsEncoded
  <1>4. QED
    BY <1>1, <1>2, <1>3 DEF Traced

LEMMA RaiseTraced == ASSUME IInv, NEW c \in Calls, Raise(c) PROVE Traced(c)'
  <1>1. /\ pc'[c] = "raised" /\ items'[c] = <<>> /\ unresolved'[c] = {}
        /\ \A p \in Paths : print'[c][p] = NoPrint
    BY DEF Raise, IInv, TypeOK
  <1>2. Range(items'[c]) = {}
    BY <1>1 DEF Range
  <1>3. QED
    BY <1>1, <1>2 DEF Traced, Seen, Genuine, Settled, Encoded, IsEncoded, Prints, After, NoPrint

LEMMA BeginTraced ==
    ASSUME IInv, NEW c \in Calls, Traced(c), Begin(c) PROVE Traced(c)'
  <1>1. PICK s \in Batches :
           /\ items' = [items EXCEPT ![c] = s]
           /\ unresolved' = [unresolved EXCEPT ![c] = IF enabled THEN {} ELSE Range(s)]
           /\ pending' = [pending EXCEPT ![c] = IF enabled THEN {} ELSE Range(s)]
           /\ had' = [had EXCEPT ![c] = IF enabled THEN @ ELSE Holds(s)]
    BY DEF Begin
  <1>2. /\ pc[c] = "idle"
        /\ pc' = [pc EXCEPT ![c] = IF enabled THEN "fingerprint" ELSE "encode"]
        /\ UNCHANGED <<enabled, bytes, print>>
    BY DEF Begin, file
  <1>3. \A p \in Paths : print'[c][p].state = "none"
    BY <1>2 DEF Traced, Prints
  <1>4. CASE enabled
    <2>1. pc'[c] = "fingerprint" /\ unresolved'[c] = {}
      BY <1>1, <1>2, <1>4 DEF IInv, TypeOK
    <2>2. QED
      BY <1>2, <1>3, <1>4, <2>1
         DEF Traced, Seen, Genuine, Settled, Encoded, IsEncoded, Prints, After
  <1>5. CASE ~enabled
    <2>1. /\ pc'[c] = "encode" /\ items'[c] = s /\ had'[c] = Holds(s)
          /\ unresolved'[c] = Range(s) /\ pending'[c] = Range(s)
      BY <1>1, <1>2, <1>5 DEF IInv, TypeOK
    <2>2. Range(s) \subseteq Paths
      BY BatchTypes
    <2>3. \A p \in Range(s) : bytes[p] \in Holds(s)[p] \cup {Gone}
      BY <2>2 DEF Holds, IInv, TypeOK
    <2>4. QED
      BY <1>2, <1>3, <1>5, <2>1, <2>2, <2>3
         DEF Traced, Seen, Genuine, Settled, Encoded, IsEncoded, Prints, After
  <1>6. QED
    BY <1>4, <1>5

LEMMA FingerprintTraced ==
    ASSUME IInv, NEW c \in Calls, Traced(c), NEW p \in Paths, Stat(c, p) \/ Hash(c, p)
    PROVE  Traced(c)'
  <1>1. CASE bytes[p] = Gone
    BY <1>1, RaiseTraced DEF Stat, Hash
  <1>2. CASE bytes[p] # Gone
    <2>1. /\ pc[c] = "fingerprint" /\ pc'[c] \in {"fingerprint", "read"}
          /\ UNCHANGED <<enabled, items>>
      BY <1>2 DEF Stat, Hash, IInv, TypeOK
    <2>2. enabled
      BY <2>1 DEF Traced, Prints
    <2>3. pc'[c] = "read" => \A q \in Range(items'[c]) : print'[c][q].state \in Fingerprinted
      BY <1>2, <2>1 DEF Stat, Hash, IInv, TypeOK
    <2>4. unresolved'[c] = unresolved[c]
      BY <1>2 DEF Stat, Hash
    <2>5. QED
      BY <2>1, <2>2, <2>3
         DEF Traced, Seen, Genuine, Settled, Encoded, IsEncoded, Prints, After
  <1>3. QED
    BY <1>1, <1>2

(* What the read makes of the groups, whether or not there are stable ones.*)
LEMMA LookupTraced ==
    ASSUME IInv, NEW c \in Calls, Traced(c), Lookup(c) PROVE Traced(c)'
  <1>1. PICK found \in {Leaders(c, "hashed"), {}} :
           vector' = [vector EXCEPT ![c] = [p \in Paths |->
               IF p \in found THEN cache[print[c][p].hash] ELSE NoVector]]
    BY DEF Lookup
  <1>2. /\ pc[c] = "read" /\ UNCHANGED <<enabled, bytes, signature, items, print>>
        /\ had' = [had EXCEPT ![c] = Holds(items[c])]
    BY DEF Lookup, file
  <1>3. enabled /\ \A p \in Range(items[c]) : print[c][p].state \in Fingerprinted
    BY <1>2 DEF Traced, Prints
  <1>4. Range(items[c]) \subseteq Paths
    BY ItemTypes DEF IInv
  <1>5. \A p \in Range(items[c]) : bytes[p] \in had'[c][p] \cup {Gone}
    BY <1>2, <1>4 DEF Holds, IInv, TypeOK
  <1>6. /\ \/ /\ pc'[c] = "verify" /\ unresolved'[c] = Leaders(c, "unstable")
              /\ pending'[c] = Leaders(c, "hashed")
           \/ /\ pc'[c] \in {"encode", "returned"} /\ Leaders(c, "hashed") = {}
              /\ unresolved'[c] = Leaders(c, "unstable")
              /\ pending'[c] = Leaders(c, "unstable")
              /\ pc'[c] = "returned" => Leaders(c, "unstable") = {}
    BY DEF Lookup, EncodeOrReturn, IInv, TypeOK
  <1>7. Seen(c)'
    BY <1>2, <1>5 DEF Seen
  <1>8. Genuine(c)'
    <2> SUFFICES ASSUME NEW p \in Range(items[c]),
                        print[c][p].state = "hashed", signature[p] = print[c][p].sign
                 PROVE  print[c][p].hash \in had'[c][p] /\ Fits(c, p)'
      BY <1>2 DEF Genuine
    <2>1. print[c][p].hash \in Contents /\ bytes[p] = print[c][p].hash
      BY <1>4 DEF IInv, Safe, PrintsHold
    <2>2. print[c][p].hash \in had'[c][p]
      BY <1>5, <2>1, FileAssumption
    <2>3. vector'[c][p] \in {NoVector, cache[print[c][p].hash]}
      BY <1>1, <1>4 DEF IInv, TypeOK
    <2>4. cache[print[c][p].hash] \in {NoVector, print[c][p].hash}
      BY <2>1 DEF IInv, Safe, EntryIsOfItsBytes
    <2>5. QED
      BY <1>2, <2>2, <2>3, <2>4 DEF Fits
  <1>9. Settled(c)'
    <2>1. \A p : Leads(c, p)' <=> Leads(c, p)
      <3>1. \A p : Twins(c, p)' = Twins(c, p)
        BY <1>2 DEF Twins
      <3>2. QED
        BY <1>2, <3>1 DEF Leads
    <2>2. \A p \in Range(items[c]) : Leads(c, p) =>
             p \in Leaders(c, "hashed") \cup Leaders(c, "unstable")
      BY <1>3 DEF Leaders, Fingerprinted
    <2>3. Leaders(c, "unstable") \subseteq Range(items[c])
      BY DEF Leaders
    <2>4. QED
      BY <1>2, <1>6, <2>1, <2>2, <2>3 DEF Settled
  <1>10. Encoded(c)' /\ Prints(c)'
    <2>1. Leaders(c, "hashed")' = Leaders(c, "hashed")
      <3>1. \A p : Twins(c, p)' = Twins(c, p)
        BY <1>2 DEF Twins
      <3>2. \A p : Leads(c, p)' <=> Leads(c, p)
        BY <1>2, <3>1 DEF Leads
      <3>3. QED
        BY <1>2, <3>2 DEF Leaders
    <2>2. QED
      BY <1>2, <1>3, <1>6, <2>1 DEF Encoded, IsEncoded, Prints
  <1>11. QED
    BY <1>7, <1>8, <1>9, <1>10 DEF Traced

(* A hit that stands is that of all files of its group.                    *)
LEMMA VerifyTraced ==
    ASSUME IInv, NEW c \in Calls, Traced(c), NEW p \in Paths, Verify(c, p)
    PROVE  Traced(c)'
  <1>1. CASE vector[c][p] # NoVector /\ ~Present(c, p)
    BY <1>1, RaiseTraced DEF Verify
  <1>2. CASE ~(vector[c][p] # NoVector /\ ~Present(c, p))
    <2> DEFINE todo == unresolved[c] \cup IF HitStands(c, p) THEN {} ELSE {p}
               left == pending[c] \ {p}
    <2>1. /\ pc[c] = "verify" /\ p \in pending[c]
          /\ vector' = [vector EXCEPT ![c][p] = IF HitStands(c, p) THEN @ ELSE NoVector]
          /\ UNCHANGED <<enabled, bytes, signature, items, print, had>>
      BY <1>2 DEF Verify, IsNext, file
    <2>2. /\ unresolved'[c] = todo
          /\ \/ pc'[c] = "verify" /\ pending'[c] = left
             \/ /\ pc'[c] \in {"encode", "returned"} /\ left = {} /\ pending'[c] = todo
                /\ pc'[c] = "returned" => todo = {}
      <3>1. CASE left = {}
        BY <1>2, <3>1 DEF Verify, EncodeOrReturn, IInv, TypeOK
      <3>2. CASE left # {}
        <4>1. /\ unresolved' = [unresolved EXCEPT ![c] = todo]
              /\ pending' = [pending EXCEPT ![c] = left]
              /\ UNCHANGED pc
          BY <1>2, <3>2 DEF Verify
        <4> HIDE DEF todo, left
        <4>2. QED
          BY <2>1, <4>1 DEF IInv, TypeOK
      <3>3. QED
        BY <3>1, <3>2
    <2>3. p \in Range(items[c]) /\ print[c][p].state = "hashed"
      BY <2>1 DEF Traced, Encoded, Leaders
    <2>4. \A q \in Paths : vector'[c][q] =
             IF q = p /\ ~HitStands(c, p) THEN NoVector ELSE vector[c][q]
      BY <2>1 DEF IInv, TypeOK
    <2>5. \A q : Twins(c, q)' = Twins(c, q)
      BY <2>1 DEF Twins
    <2>6. \A q : Leads(c, q)' <=> Leads(c, q)
      BY <2>1, <2>5 DEF Leads
    <2>7. Range(items[c]) \subseteq Paths
      BY ItemTypes DEF IInv
    <2>8. enabled /\ \A q \in Range(items[c]) : print[c][q].state \in Fingerprinted
      BY <2>1 DEF Traced, Prints, After
    <2>9. HitStands(c, p) => Verified(c, p)
      <3> SUFFICES ASSUME HitStands(c, p), NEW q \in Twins(c, p)
                   PROVE  vector[c][p] \in had[c][q]
        BY DEF Verified
      <3>1. /\ q \in Range(items[c]) /\ print[c][q].state = "hashed"
            /\ print[c][q].hash = print[c][p].hash
        BY <2>3, TwinsFacts DEF IInv
      <3>2. signature[q] = print[c][q].sign /\ signature[p] = print[c][p].sign
        BY <2>3 DEF HitStands, Unchanged, Twins
      <3>3. vector[c][p] = print[c][p].hash
        BY <2>1, <2>3, <3>2 DEF HitStands, Traced, Genuine, After, Fits
      <3>4. QED
        BY <2>1, <3>1, <3>2, <3>3 DEF Traced, Genuine, After
    <2>10. Seen(c)' /\ Prints(c)'
      <3>1. Seen(c)'
        BY <2>1, <2>2 DEF Traced, Seen
      <3>2. QED
        BY <2>1, <2>2, <2>8, <3>1 DEF Traced, Prints
    <2>11. Genuine(c)'
      <3> SUFFICES ASSUME NEW q \in Range(items[c]),
                          print[c][q].state = "hashed", signature[q] = print[c][q].sign
                   PROVE  print[c][q].hash \in had[c][q] /\ Fits(c, q)'
        BY <2>1 DEF Genuine
      <3>1. print[c][q].hash \in had[c][q] /\ Fits(c, q)
        BY <2>1 DEF Traced, Genuine, After
      <3>2. QED
        BY <2>1, <2>4, <2>7, <3>1 DEF Fits
    <2>12. Settled(c)'
      <3>1. ASSUME NEW q \in Range(items[c]), Leads(c, q)
            PROVE  \/ q \in unresolved'[c]
                   \/ Verified(c, q)'
                   \/ pc'[c] = "verify" /\ q \in pending'[c]
        <4>1. Verified(c, q) /\ q \notin unresolved'[c] => Verified(c, q)'
          BY <2>1, <2>2, <2>4, <2>5, <2>7 DEF Verified
        <4>2. CASE q = p
          BY <2>2, <2>9, <4>1, <4>2
        <4>3. CASE q # p
          <5>1. \/ q \in unresolved[c] \/ Verified(c, q) \/ q \in pending[c]
            BY <2>1, <3>1 DEF Traced, Settled, After
          <5>2. QED
            BY <2>2, <4>1, <4>3, <5>1
        <4>4. QED
          BY <4>2, <4>3
      <3>2. unresolved'[c] \subseteq Range(items[c])
        BY <2>1, <2>2, <2>3 DEF Traced, Settled, After
      <3>3. QED
        BY <2>1, <2>6, <3>1, <3>2 DEF Settled
    <2>13. Encoded(c)'
      <3>1. Leaders(c, "hashed")' = Leaders(c, "hashed")
        BY <2>1, <2>6 DEF Leaders
      <3>2. pending[c] \subseteq Leaders(c, "hashed")
        BY <2>1 DEF Traced, Encoded
      <3>3. QED
        BY <2>2, <3>1, <3>2 DEF Encoded, IsEncoded
    <2>14. QED
      BY <2>10, <2>11, <2>12, <2>13 DEF Traced
  <1>3. QED
    BY <1>1, <1>2

(* The encoder reads the bytes that the file has.                          *)
LEMMA EncodeTraced ==
    ASSUME IInv, NEW c \in Calls, Traced(c), NEW p \in Paths, Encode(c, p)
    PROVE  Traced(c)'
  <1>1. CASE Raise(c)
    BY <1>1, RaiseTraced
  <1>2. CASE ~Raise(c)
    <2>1. /\ pc[c] = "encode" /\ p \in pending[c] /\ bytes[p] # Gone
          /\ vector' = [vector EXCEPT ![c][p] = bytes[p]]
          /\ pending' = [pending EXCEPT ![c] =
                 IF pending[c] = {p} /\ enabled THEN unresolved[c] ELSE @ \ {p}]
          /\ pc' = [pc EXCEPT ![c] = IF pending[c] # {p} THEN @
                                     ELSE IF enabled THEN "check" ELSE "returned"]
          /\ UNCHANGED <<enabled, bytes, signature, items, print, unresolved, had>>
      BY <1>2 DEF Encode, IsNext, file
    <2>2. \/ pc'[c] = "encode" /\ pending'[c] = pending[c] \ {p}
          \/ /\ pc'[c] \in {"check", "returned"} /\ pending[c] = {p}
             /\ ~enabled => pc'[c] = "returned"
      BY <2>1 DEF IInv, TypeOK
    <2>3. \A q \in Paths : vector'[c][q] = IF q = p THEN bytes[p] ELSE vector[c][q]
      BY <2>1 DEF IInv, TypeOK
    <2>4. Range(items[c]) \subseteq Paths
      BY ItemTypes DEF IInv
    <2>5. p \in unresolved[c] /\ unresolved[c] \subseteq Range(items[c])
      BY <2>1 DEF Traced, Encoded, Settled, After
    <2>6. bytes[p] \in had[c][p]
      BY <2>1, <2>5 DEF Traced, Seen
    <2>7. \A q : Twins(c, q)' = Twins(c, q)
      BY <2>1 DEF Twins
    <2>8. \A q : Leads(c, q)' <=> Leads(c, q)
      BY <2>1, <2>7 DEF Leads
    <2>9. Seen(c)' /\ Prints(c)'
      BY <2>1, <2>2 DEF Traced, Seen, Prints, After
    <2>10. Genuine(c)'
      <3> SUFFICES ASSUME NEW q \in Range(items[c]),
                          print[c][q].state = "hashed", signature[q] = print[c][q].sign
                   PROVE  print[c][q].hash \in had[c][q] /\ Fits(c, q)'
        BY <2>1 DEF Genuine
      <3>1. print[c][q].hash \in had[c][q] /\ Fits(c, q)
        BY <2>1 DEF Traced, Genuine, After
      <3>2. bytes[q] = print[c][q].hash
        BY <2>4 DEF IInv, Safe, PrintsHold
      <3>3. QED
        BY <2>1, <2>3, <2>4, <3>1, <3>2 DEF Fits
    <2>11. Settled(c)'
      <3>1. ASSUME NEW q \in Range(items[c]), Leads(c, q), q \notin unresolved[c]
            PROVE  Verified(c, q)'
        <4>1. q # p /\ Verified(c, q)
          BY <2>1, <2>5, <3>1 DEF Traced, Settled, After
        <4>2. QED
          BY <2>1, <2>3, <2>4, <2>7, <4>1 DEF Verified
      <3>2. QED
        BY <2>1, <2>5, <2>8, <3>1 DEF Settled
    <2>12. Encoded(c)'
      <3>1. ASSUME NEW q \in unresolved[c], IsEncoded(c, q)' PROVE vector'[c][q] \in had[c][q]
        <4>1. CASE q = p
          BY <2>3, <2>6, <4>1
        <4>2. CASE q # p
          <5>1. IsEncoded(c, q)
            BY <2>1, <2>2, <3>1, <4>2 DEF IsEncoded
          <5>2. vector[c][q] \in had[c][q]
            BY <5>1 DEF Traced, Encoded
          <5>3. QED
            BY <2>3, <2>4, <2>5, <4>2, <5>2
        <4>3. QED
          BY <4>1, <4>2
      <3>2. pc'[c] = "encode" => pending'[c] \subseteq unresolved'[c]
        BY <2>1, <2>2 DEF Traced, Encoded
      <3>3. QED
        BY <2>1, <2>2, <3>1, <3>2 DEF Encoded
    <2>13. QED
      BY <2>9, <2>10, <2>11, <2>12 DEF Traced
  <1>3. QED
    BY <1>1, <1>2

(* The check and the write change no vector that is returned.              *)
LEMMA FinishTraced ==
    ASSUME IInv, NEW c \in Calls, Traced(c),
           pc[c] \in {"check", "write"}, pc'[c] \in {"check", "write", "returned"},
           UNCHANGED <<enabled, bytes, signature, items, print, unresolved, vector, had>>
    PROVE  Traced(c)'
  <1>1. Seen(c)' /\ Prints(c)'
    BY DEF Traced, Seen, Prints, After
  <1>2. Genuine(c)'
    BY DEF Traced, Genuine, After, Fits
  <1>3. Settled(c)'
    <2>1. \A q : Twins(c, q)' = Twins(c, q)
      BY DEF Twins
    <2>2. \A q : Leads(c, q)' <=> Leads(c, q)
      BY <2>1 DEF Leads
    <2>3. \A q : Verified(c, q)' <=> Verified(c, q)
      BY <2>1 DEF Verified
    <2>4. QED
      BY <2>2, <2>3 DEF Traced, Settled, After
  <1>4. Encoded(c)'
    BY DEF Traced, Encoded, IsEncoded
  <1>5. QED
    BY <1>1, <1>2, <1>3, <1>4 DEF Traced

LEMMA CheckTraced ==
    ASSUME IInv, NEW c \in Calls, Traced(c), NEW p \in Paths, Check(c, p)
    PROVE  Traced(c)'
  <1>1. CASE p \in storable[c] /\ ~Present(c, p)
    BY <1>1, RaiseTraced DEF Check
  <1>2. CASE ~(p \in storable[c] /\ ~Present(c, p))
    <2>1. /\ pc[c] = "check" /\ pc'[c] \in {"check", "write"}
          /\ UNCHANGED <<enabled, bytes, signature, items, print, unresolved, vector, had>>
      BY <1>2 DEF Check, file, IInv, TypeOK
    <2>2. QED
      BY <2>1, FinishTraced
  <1>3. QED
    BY <1>1, <1>2

LEMMA WriteTraced ==
    ASSUME IInv, NEW c \in Calls, Traced(c), Write(c) PROVE Traced(c)'
  <1>1. /\ pc[c] = "write" /\ pc'[c] = "returned"
        /\ UNCHANGED <<enabled, bytes, signature, items, print, unresolved, vector, had>>
    BY DEF Write, file, IInv, TypeOK
  <1>2. QED
    BY <1>1, FinishTraced

(* What a file becomes is added to what it had; a file that changed is not *)
(* as fingerprinted any more.                                              *)
LEMMA ChangeTraced ==
    ASSUME IInv, NEW c \in Calls, Traced(c), NEW p \in Paths, Change(p) PROVE Traced(c)'
  <1>1. PICK b \in (Contents \cup {Gone}) \ {bytes[p]} :
           /\ bytes' = [bytes EXCEPT ![p] = b]
           /\ had' = [d \in Calls |->
                  IF pc[d] \in {"verify", "encode"} /\ p \in Range(items[d])
                  THEN [had[d] EXCEPT ![p] = @ \cup ({b} \cap Contents)]
                  ELSE had[d]]
    BY DEF Change
  <1>2. /\ signature' = [signature EXCEPT ![p] = @ + 1]
        /\ UNCHANGED <<enabled, pc, items, print, pending, unresolved, vector>>
    BY DEF Change, call
  <1>3. Range(items[c]) \subseteq Paths
    BY ItemTypes DEF IInv
  <1>4. \A q \in Paths : had[c][q] \subseteq had'[c][q]
    BY <1>1 DEF IInv, TypeOK
  <1>5. \A q : Twins(c, q)' = Twins(c, q)
    BY <1>2 DEF Twins
  <1>6. \A q : Leads(c, q)' <=> Leads(c, q)
    BY <1>2, <1>5 DEF Leads
  <1>7. Seen(c)'
    <2> SUFFICES ASSUME pc[c] \in {"verify", "encode"}, NEW q \in Range(items[c])
                 PROVE  bytes'[q] \in had'[c][q] \cup {Gone}
      BY <1>2 DEF Seen
    <2>1. bytes[q] \in had[c][q] \cup {Gone}
      BY DEF Traced, Seen
    <2>2. CASE q = p
      BY <1>1, <2>2 DEF IInv, TypeOK
    <2>3. CASE q # p
      BY <1>1, <1>3, <1>4, <2>1, <2>3 DEF IInv, TypeOK
    <2>4. QED
      BY <2>2, <2>3
  <1>8. Genuine(c)'
    <2> SUFFICES ASSUME pc[c] \in After, NEW q \in Range(items[c]),
                        print[c][q].state = "hashed", signature'[q] = print[c][q].sign
                 PROVE  print[c][q].hash \in had'[c][q] /\ Fits(c, q)'
      BY <1>2 DEF Genuine
    <2>1. /\ signature[q] \in Nat /\ print[c][q].sign <= signature[q]
          /\ print[c][q].sign \in Nat
      BY <1>3 DEF IInv, Safe, TypeOK, PrintsHold, Fingerprint
    <2>2. signature[q] = print[c][q].sign
      BY <1>2, <1>3, <2>1 DEF IInv, TypeOK
    <2>3. print[c][q].hash \in had[c][q] /\ Fits(c, q)
      BY <2>2 DEF Traced, Genuine
    <2>4. QED
      BY <1>2, <1>3, <1>4, <2>3 DEF Fits
  <1>9. Settled(c)'
    <2>1. ASSUME pc[c] \in After, NEW q \in Range(items[c]), Verified(c, q)
          PROVE  Verified(c, q)'
      <3>1. Twins(c, q) \subseteq Paths
        BY <1>3, TwinsFacts DEF IInv
      <3>2. QED
        BY <1>2, <1>4, <1>5, <2>1, <3>1 DEF Verified
    <2>2. QED
      BY <1>2, <1>6, <2>1 DEF Traced, Settled
  <1>10. Encoded(c)'
    <2>1. Leaders(c, "hashed")' = Leaders(c, "hashed")
      BY <1>2, <1>6 DEF Leaders
    <2>2. \A q \in unresolved[c] : q \in Paths
      BY DEF IInv, TypeOK
    <2>3. QED
      BY <1>2, <1>4, <2>1, <2>2 DEF Traced, Encoded, IsEncoded
  <1>11. Prints(c)'
    BY <1>2 DEF Traced, Prints
  <1>12. QED
    BY <1>7, <1>8, <1>9, <1>10, <1>11 DEF Traced

LEMMA ActingTraced ==
    ASSUME IInv, NEW c \in Calls, Traced(c),
           \/ Begin(c) \/ Lookup(c) \/ Write(c)
           \/ \E p \in Paths :
                 Stat(c, p) \/ Hash(c, p) \/ Verify(c, p) \/ Encode(c, p) \/ Check(c, p)
    PROVE  Traced(c)'
  BY BeginTraced, LookupTraced, WriteTraced, FingerprintTraced, VerifyTraced, EncodeTraced,
     CheckTraced

(* A step of one call leaves files and the other calls alone.              *)
LEMMA OthersUntouched ==
    ASSUME IInv, NEW c \in Calls, NEW d \in Calls \ {c}, Traced(d),
           \/ Begin(c) \/ Lookup(c) \/ Write(c)
           \/ \E p \in Paths :
                 Stat(c, p) \/ Hash(c, p) \/ Verify(c, p) \/ Encode(c, p) \/ Check(c, p)
    PROVE  Traced(d)'
  <1> DEFINE Same == /\ UNCHANGED <<enabled, bytes, signature>>
                     /\ pc'[d] = pc[d] /\ items'[d] = items[d] /\ print'[d] = print[d]
                     /\ pending'[d] = pending[d] /\ unresolved'[d] = unresolved[d]
                     /\ vector'[d] = vector[d] /\ had'[d] = had[d]
  <1> USE DEF file
  <1>1. Raise(c) => Same
    BY DEF Raise, IInv, TypeOK
  <1>2. ASSUME NEW todo, EncodeOrReturn(c, todo)
        PROVE  pc'[d] = pc[d] /\ pending'[d] = pending[d] /\ unresolved'[d] = unresolved[d]
    BY <1>2 DEF EncodeOrReturn, IInv, TypeOK
  <1>3. Begin(c) => Same
    BY DEF Begin, IInv, TypeOK
  <1>4. Lookup(c) => Same
    BY <1>2 DEF Lookup, IInv, TypeOK
  <1>5. Write(c) => Same
    BY DEF Write, IInv, TypeOK
  <1>6. ASSUME NEW p \in Paths, Stat(c, p) PROVE Same
    BY <1>1, <1>6 DEF Stat, IInv, TypeOK
  <1>7. ASSUME NEW p \in Paths, Hash(c, p) PROVE Same
    BY <1>1, <1>7 DEF Hash, IInv, TypeOK
  <1>8. ASSUME NEW p \in Paths, Verify(c, p) PROVE Same
    BY <1>1, <1>2, <1>8 DEF Verify, IInv, TypeOK
  <1>9. ASSUME NEW p \in Paths, Encode(c, p) PROVE Same
    BY <1>1, <1>9 DEF Encode, IInv, TypeOK
  <1>10. ASSUME NEW p \in Paths, Check(c, p) PROVE Same
    BY <1>1, <1>10 DEF Check, IInv, TypeOK
  <1>11. Same
    BY <1>3, <1>4, <1>5, <1>6, <1>7, <1>8, <1>9, <1>10
  <1>12. QED
    BY <1>11, Untouched

LEMMA TracedInit == Init => \A c \in Calls : Traced(c)
  <1> SUFFICES ASSUME Init, NEW c \in Calls PROVE Traced(c)
    OBVIOUS
  <1>1. pc[c] = "idle" /\ items[c] = <<>> /\ unresolved[c] = {}
        /\ \A p \in Paths : print[c][p].state = "none"
    BY DEF Init, NoPrint
  <1>2. Range(items[c]) = {}
    BY <1>1 DEF Range
  <1>3. QED
    BY <1>1, <1>2 DEF Traced, Seen, Genuine, Settled, Encoded, IsEncoded, Prints, After

LEMMA TracedStep ==
    IInv /\ (\A c \in Calls : Traced(c)) /\ [Next]_vars => (\A c \in Calls : Traced(c))'
  <1> SUFFICES ASSUME IInv, \A c \in Calls : Traced(c), [Next]_vars, NEW d \in Calls
               PROVE  Traced(d)'
    OBVIOUS
  <1>1. ASSUME NEW c \in Calls,
               \/ Begin(c) \/ Lookup(c) \/ Write(c)
               \/ \E p \in Paths :
                     Stat(c, p) \/ Hash(c, p) \/ Verify(c, p) \/ Encode(c, p) \/ Check(c, p)
        PROVE  Traced(d)'
    <2>1. CASE d = c
      BY <1>1, <2>1, ActingTraced
    <2>2. CASE d # c
      BY <1>1, <2>2, OthersUntouched
    <2>3. QED
      BY <2>1, <2>2
  <1>2. ASSUME NEW p \in Paths, Change(p) PROVE Traced(d)'
    BY <1>2, ChangeTraced
  <1>3. ASSUME NEW b \in Contents, Expire(b) PROVE Traced(d)'
    BY <1>3, Untouched DEF Expire, file, call
  <1>4. CASE UNCHANGED vars
    BY <1>4, Untouched DEF vars, file, call
  <1>5. QED
    BY <1>1, <1>2, <1>3, <1>4 DEF Next

(* The representative of a file was encoded, or is a hit that stands.  If  *)
(* it was encoded and is another file, the two can differ only if one of   *)
(* the group changed: as long as they are as fingerprinted, the vector is  *)
(* that of the bytes both were hashed with.                                *)
LEMMA AnswerFollows ==
    ASSUME IInv, NEW c \in Calls, Traced(c), pc[c] = "returned", NEW p \in Range(items[c])
    PROVE  \/ Answer(c, p) \in had[c][p]
           \/ /\ Cardinality(Twins(c, p)) > 1 /\ ~Unchanged(c, p)
              /\ Representative(c, p) \in unresolved[c]
              /\ Answer(c, p) \in had[c][Representative(c, p)]
  <1> DEFINE r == Representative(c, p)
  <1>1. /\ r \in Twins(c, p) /\ Leads(c, r) /\ p \in Twins(c, p)
        /\ Twins(c, r) = Twins(c, p) /\ r \in Range(items[c])
    BY RepresentativeFacts, TwinsFacts DEF IInv
  <1> HIDE DEF r
  <1>2. Answer(c, p) = vector[c][r]
    BY DEF Answer, r
  <1>3. CASE r \notin unresolved[c]
    <2>1. Verified(c, r)
      BY <1>1, <1>3 DEF Traced, Settled, After
    <2>2. QED
      BY <1>1, <1>2, <2>1 DEF Verified
  <1>4. CASE r \in unresolved[c]
    <2>1. vector[c][r] \in had[c][r]
      BY <1>4 DEF Traced, Encoded, IsEncoded
    <2>2. CASE r = p
      BY <1>2, <2>1, <2>2
    <2>3. CASE r # p
      <3>1. Cardinality(Twins(c, p)) > 1
        <4>1. IsFiniteSet(Twins(c, p)) /\ {r, p} \subseteq Twins(c, p)
          BY <1>1, TwinsFacts DEF IInv
        <4>2. Cardinality({r, p}) = 2
          <5>1. Cardinality({p}) = 1 /\ IsFiniteSet({p})
            BY FS_Singleton
          <5>2. Cardinality({p} \cup {r}) =
                   IF r \in {p} THEN Cardinality({p}) ELSE Cardinality({p}) + 1
            BY <5>1, FS_AddElement
          <5>3. {r, p} = {p} \cup {r} /\ r \notin {p}
            BY <2>3
          <5>4. QED
            BY <5>1, <5>2, <5>3
        <4>3. /\ Cardinality({r, p}) <= Cardinality(Twins(c, p))
              /\ Cardinality(Twins(c, p)) \in Nat
          BY <4>1, FS_Subset, FS_CardinalityType
        <4>4. QED
          BY <4>2, <4>3
      <3>2. ASSUME Unchanged(c, p) PROVE vector[c][r] \in had[c][p]
        <4>1. /\ print[c][r].state = "hashed" /\ print[c][p].state = "hashed"
              /\ print[c][r].hash = print[c][p].hash
          BY <1>1, <2>3, TwinsFacts DEF IInv
        <4>2. signature[r] = print[c][r].sign /\ signature[p] = print[c][p].sign
          BY <1>1, <3>2 DEF Unchanged
        <4>3. print[c][p].hash \in had[c][p] /\ Fits(c, r)
          BY <1>1, <4>1, <4>2 DEF Traced, Genuine, After
        <4>4. vector[c][r] # NoVector
          <5>1. had[c][r] \subseteq Contents
            BY <1>1, ItemTypes DEF IInv, TypeOK
          <5>2. QED
            BY <2>1, <5>1, FileAssumption
        <4>5. QED
          BY <4>1, <4>3, <4>4 DEF Fits
      <3>3. QED
        BY <1>2, <1>4, <2>1, <3>1, <3>2 DEF r
    <2>4. QED
      BY <2>2, <2>3
  <1>5. QED
    BY <1>3, <1>4

(* However often files are rewritten or removed while encode_items runs,   *)
(* what it returns for a file is the vector of bytes this very file had    *)
(* meanwhile, but for a file whose group changed after it was formed.      *)
THEOREM AnswersAreOfTheirFiles == Spec => []AnswerIsOfTheFile
  <1>1. IInv /\ (\A c \in Calls : Traced(c)) => AnswerIsOfTheFile
    BY AnswerFollows DEF AnswerIsOfTheFile
  <1>2. QED
    BY Invariance, TracedInit, TracedStep, <1>1, PTL DEF Spec
=============================================================================
