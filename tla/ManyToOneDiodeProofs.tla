------------------------ MODULE ManyToOneDiodeProofs ------------------------
(***************************************************************************)
(* What holds of ManyToOneDiode for any number of writers and Set calls    *)
(* and any size of the ring.                                               *)
(***************************************************************************)
EXTENDS ManyToOneDiode, TLAPS

-----------------------------------------------------------------------------
(* Arithmetic of the indices *)

(* Every index has a slot. *)
LEMMA SlotInRing == \A i \in Nat : Slot(i) \in Slots
  BY ManyToOneAssumption DEF Slot, Slots

(* A number within the width is itself, and the one after the last is 0. *)
LEMMA Width ==
    ASSUME NEW x \in Int
    PROVE  /\ x % Modulus \in 0 .. Modulus - 1
           /\ x \in 0 .. Modulus - 1 => x % Modulus = x
           /\ x = Modulus => x % Modulus = 0
  <1>1. Modulus \in Nat \ {0}
    BY ManyToOneAssumption
  <1>. QED
    BY <1>1

-----------------------------------------------------------------------------
(* Types *)

(* The bucket that Set stores. *)
NewBucket(w) == [seq |-> idx[w], writer |-> w, call |-> calls[w]]

(* Buckets are not Nil, and the one that Set stores is one of them. *)
LEMMA Buckets ==
    /\ \A b \in Bucket : b.seq \in Nat /\ b.writer \in Writers /\ b.call \in Nat /\ b # Nil
    /\ TypeOK => \A w \in Writers : NewBucket(w) \in Bucket
  BY ManyToOneAssumption DEF Bucket, TypeOK, NewBucket

(* What a compare-and-swap does. *)
LEMMA CasOutcomes ==
    ASSUME TypeOK, NEW w \in Writers, CasSlot(w)
    PROVE  \/ /\ buffer[Slot(idx[w])] = old[w]
              /\ buffer' = [buffer EXCEPT ![Slot(idx[w])] = NewBucket(w)]
              /\ stored' = {b \in stored : idx[w] >= N \/ Slot(b.seq) # Slot(idx[w])} \cup {NewBucket(w)}
              /\ pc' = [pc EXCEPT ![w] = "idle"]
           \/ /\ UNCHANGED <<buffer, stored>>
              /\ pc' = [pc EXCEPT ![w] = "add"]
  BY DEF CasSlot, NewBucket

(* What a read does: nothing is delivered, or what the slot held is. *)
LEMMA TryNextOutcomes ==
    ASSUME TypeOK, TryNext
    PROVE  /\ Slot(readIndex) \in Slots
           /\ buffer' = [buffer EXCEPT ![Slot(readIndex)] = Nil]
           /\ UNCHANGED <<writeIndex, pc, idx, old, calls, stored>>
           /\ \/ /\ UNCHANGED readerVars
                 /\ \/ buffer[Slot(readIndex)] = Nil
                    \/ buffer[Slot(readIndex)].seq < readIndex
              \/ /\ buffer[Slot(readIndex)] \in Bucket
                 /\ buffer[Slot(readIndex)].seq >= readIndex
                 /\ dropped' = dropped + (buffer[Slot(readIndex)].seq - readIndex)
                 /\ readIndex' = (buffer[Slot(readIndex)].seq + 1) % Modulus
                 /\ delivered' = Append(delivered, buffer[Slot(readIndex)])
  <1>1. Slot(readIndex) \in Slots
    BY SlotInRing DEF TypeOK
  <1>2. buffer[Slot(readIndex)] \in Bucket \cup {Nil}
    BY <1>1 DEF TypeOK
  <1>. QED
    BY <1>1, <1>2 DEF TryNext

(* A step of a writer keeps the types. *)
LEMMA WriterTypes ==
    ASSUME TypeOK, NEW w \in Writers, CallSet(w) \/ InSet(w)
    PROVE  TypeOK'
  <1>1. CASE CallSet(w)
    BY <1>1 DEF TypeOK, CallSet, readerVars
  <1>2. CASE AddIndex(w)
    <2>1. writeIndex' \in 0 .. Modulus - 1 /\ writeIndex' \in Nat
      <3>1. writeIndex' = (writeIndex + 1) % Modulus /\ writeIndex + 1 \in Int
        BY <1>2 DEF TypeOK, AddIndex
      <3>. QED
        BY <3>1, Width
    <2>. QED
      BY <1>2, <2>1 DEF TypeOK, AddIndex, readerVars
  <1>3. CASE LoadSlot(w)
    <2>1. buffer[Slot(idx[w])] \in Bucket \cup {Nil}
      BY SlotInRing DEF TypeOK
    <2>2. old' \in [Writers -> Bucket \cup {Nil}]
      BY <1>3, <2>1 DEF TypeOK, LoadSlot
    <2>3. pc' \in [Writers -> {"idle", "add", "load", "cas"}]
      BY <1>3 DEF TypeOK, LoadSlot
    <2>. QED
      BY <1>3, <2>2, <2>3 DEF TypeOK, LoadSlot, readerVars
  <1>4. CASE CasSlot(w)
    <2>1. NewBucket(w) \in Bucket
      BY Buckets
    <2>2. pc' \in [Writers -> {"idle", "add", "load", "cas"}]
      BY <1>4, CasOutcomes DEF TypeOK
    <2>3. buffer' \in [Slots -> Bucket \cup {Nil}] /\ stored' \subseteq Bucket
      <3>1. \/ /\ buffer' = [buffer EXCEPT ![Slot(idx[w])] = NewBucket(w)]
               /\ stored' \subseteq stored \cup {NewBucket(w)}
            \/ UNCHANGED <<buffer, stored>>
        BY <1>4, CasOutcomes
      <3>. QED
        BY <2>1, <3>1 DEF TypeOK
    <2>4. UNCHANGED <<writeIndex, idx, old, calls, readerVars>>
      BY <1>4 DEF CasSlot
    <2>. QED
      BY <2>2, <2>3, <2>4 DEF TypeOK, readerVars
  <1>. QED
    BY <1>1, <1>2, <1>3, <1>4 DEF InSet

(* A read keeps the types. *)
LEMMA ReaderTypes == TypeOK /\ TryNext => TypeOK'
  <1>. SUFFICES ASSUME TypeOK, TryNext PROVE TypeOK'
    OBVIOUS
  <1>1. buffer' \in [Slots -> Bucket \cup {Nil}] /\ UNCHANGED <<writeIndex, pc, idx, old, calls, stored>>
    BY TryNextOutcomes DEF TypeOK
  <1>2. CASE UNCHANGED readerVars
    BY <1>1, <1>2 DEF TypeOK, readerVars
  <1>3. CASE ~UNCHANGED readerVars
    <2>. DEFINE b == buffer[Slot(readIndex)]
    <2>1. /\ b \in Bucket /\ b.seq >= readIndex
          /\ dropped' = dropped + (b.seq - readIndex)
          /\ readIndex' = (b.seq + 1) % Modulus
          /\ delivered' = Append(delivered, b)
      BY <1>3, TryNextOutcomes
    <2>. HIDE DEF b
    <2>2. dropped' \in Nat /\ delivered' \in Seq(Bucket)
      BY <2>1, Buckets DEF TypeOK
    <2>3. readIndex' \in Nat
      <3>1. b.seq + 1 \in Int
        BY <2>1, Buckets
      <3>. QED
        BY <2>1, <3>1, Width
    <2>. QED
      BY <1>1, <2>2, <2>3 DEF TypeOK
  <1>. QED
    BY <1>2, <1>3

(* TypeOK: the variables keep their types, and no index or count goes negative. *)
THEOREM TypeOKHolds == Spec => []TypeOK
  <1>1. Init => TypeOK
    BY ManyToOneAssumption DEF Init, TypeOK
  <1>2. TypeOK /\ [Next]_vars => TypeOK'
    <2>1. TypeOK /\ UNCHANGED vars => TypeOK'
      BY DEF TypeOK, vars
    <2>. QED
      BY <2>1, WriterTypes, ReaderTypes DEF Next
  <1>. QED
    BY <1>1, <1>2, PTL DEF Spec

-----------------------------------------------------------------------------
(* The collision test *)

(* A writer that is about to store has an index within the width and has      *)
(* loaded a bucket of an earlier lap, or none.                                *)
CasInv ==
    /\ \A w \in Writers : idx[w] \in 0 .. Modulus - 1
    /\ \A w \in Writers : pc[w] = "cas" => ~Collision(old[w], idx[w])

(* Every step keeps what the collision test found. *)
LEMMA CasStep == ASSUME TypeOK, CasInv, [Next]_vars PROVE CasInv'
  <1>1. ASSUME NEW w \in Writers, CallSet(w) PROVE CasInv'
    BY <1>1 DEF TypeOK, CasInv, Collision, CallSet
  <1>2. ASSUME NEW w \in Writers, AddIndex(w) PROVE CasInv'
    <2>1. writeIndex' \in 0 .. Modulus - 1
      BY <1>2, WriterTypes DEF TypeOK, InSet
    <2>. QED
      BY <1>2, <2>1 DEF TypeOK, CasInv, Collision, AddIndex
  <1>3. ASSUME NEW w \in Writers, LoadSlot(w) PROVE CasInv'
    <2>1. UNCHANGED idx
      BY <1>3 DEF LoadSlot
    <2>2. ASSUME NEW v \in Writers, pc'[v] = "cas" PROVE ~Collision(old'[v], idx[v])
      <3>1. CASE v = w
        BY <1>3, <2>2, <3>1 DEF TypeOK, LoadSlot
      <3>2. CASE v # w
        BY <1>3, <2>2, <3>2 DEF TypeOK, LoadSlot, CasInv
      <3>. QED
        BY <3>1, <3>2
    <2>. QED
      BY <2>1, <2>2 DEF CasInv, Collision
  <1>4. ASSUME NEW w \in Writers, CasSlot(w) PROVE CasInv'
    <2>1. UNCHANGED <<idx, old>>
      BY <1>4 DEF CasSlot
    <2>2. \A v \in Writers : pc'[v] = "cas" => pc[v] = "cas"
      BY <1>4, CasOutcomes DEF TypeOK
    <2>. QED
      BY <2>1, <2>2 DEF CasInv, Collision
  <1>5. CASE TryNext \/ UNCHANGED vars
    BY <1>5 DEF CasInv, Collision, TryNext, vars
  <1>. QED
    BY <1>1, <1>2, <1>3, <1>4, <1>5 DEF Next, InSet

(* CasInv: what Set has loaded when it comes to its CompareAndSwap passed *)
(* the collision test for the index it holds.                             *)
THEOREM CasInvHolds == Spec => []CasInv
  <1>1. Init => CasInv
    BY ManyToOneAssumption DEF Init, CasInv
  <1>. QED
    BY <1>1, TypeOKHolds, CasStep, PTL DEF Spec

(* Only the two swaps touch the ring. *)
LEMMA RingSteps ==
    ASSUME [Next]_vars
    PROVE  TryNext \/ (\E w \in Writers : CasSlot(w)) \/ UNCHANGED buffer
  BY DEF Next, InSet, CallSet, AddIndex, LoadSlot, vars

(* What Set replaces is of an earlier lap, unless Set is in the first. *)
LEMMA StoresLater ==
    ASSUME TypeOK, CasInv, NEW w \in Writers, CasSlot(w), old[w] # Nil
    PROVE  old[w].seq \in Nat /\ (idx[w] > old[w].seq \/ idx[w] < N)
  <1>1. idx[w] \in 0 .. Modulus - 1 /\ ~Collision(old[w], idx[w])
    BY DEF CasInv, CasSlot
  <1>2. old[w].seq \in Nat /\ old[w].seq <= (idx[w] - N) % Modulus
    <2>1. old[w] \in Bucket
      BY DEF TypeOK
    <2>2. (idx[w] - N) % Modulus \in Int
      BY <1>1, Width, ManyToOneAssumption
    <2>. QED
      BY <1>1, <2>1, <2>2, Buckets DEF Collision
  <1>3. idx[w] >= N => (idx[w] - N) % Modulus = idx[w] - N
    <2>1. idx[w] - N \in Int /\ (idx[w] >= N => idx[w] - N \in 0 .. Modulus - 1)
      BY <1>1, ManyToOneAssumption
    <2>. QED
      BY <2>1, Width
  <1>. QED
    BY <1>1, <1>2, <1>3, ManyToOneAssumption

(* ReplacesOlderOnly: once the first lap is over, Set replaces a bucket only  *)
(* with one of a later index, although an index is drawn, the slot loaded and *)
(* the bucket stored in three steps.                                          *)
THEOREM ReplacesOlderOnlyHolds == Spec => ReplacesOlderOnly
  <1>. DEFINE Replaces(i) == buffer[i] # Nil /\ buffer'[i] # Nil /\ buffer'[i] # buffer[i]
                  => buffer'[i].seq > buffer[i].seq \/ buffer'[i].seq < N
  <1>1. ASSUME TypeOK, CasInv, [Next]_vars, NEW i \in Slots
        PROVE  Replaces(i)
    <2>1. CASE TryNext
      BY <1>1, <2>1, TryNextOutcomes DEF TypeOK
    <2>2. ASSUME NEW w \in Writers, CasSlot(w), buffer'[i] # buffer[i], buffer[i] # Nil
          PROVE  buffer'[i].seq > buffer[i].seq \/ buffer'[i].seq < N
      <3>1. buffer[i] = old[w] /\ buffer'[i] = NewBucket(w)
        BY <1>1, <2>2, CasOutcomes DEF TypeOK
      <3>. QED
        BY <1>1, <2>2, <3>1, StoresLater DEF NewBucket
    <2>. QED
      BY <1>1, <2>1, <2>2, RingSteps
  <1>2. TypeOK /\ CasInv /\ [Next]_vars => [\A i \in Slots : Replaces(i)]_vars
    BY <1>1
  <1>. QED
    BY <1>2, TypeOKHolds, CasInvHolds, PTL DEF Spec, ReplacesOlderOnly

-----------------------------------------------------------------------------
(* The order of indices and calls *)

(* The index the next AddUint64 returns. *)
NextIndex == (writeIndex + 1) % Modulus

(* The buckets in the ring, and all there ever were in it that got out. *)
InRing(b) == \E i \in Slots : buffer[i] = b
Known(b) == InRing(b) \/ \E j \in 1 .. Len(delivered) : delivered[j] = b

(* Every index in use was drawn. *)
DrawnInv ==
    /\ \A w \in Writers : pc[w] \in {"load", "cas"} => idx[w] < NextIndex
    /\ \A b \in Bucket : Known(b) => b.seq < NextIndex

(* A bucket is not younger than its writer: its index and its call are ones   *)
(* the writer has had, and earlier ones while the writer is at work.          *)
WriterInv ==
    \A b \in Bucket : Known(b) =>
        /\ b.seq <= idx[b.writer]
        /\ pc[b.writer] \in {"load", "cas"} => b.seq < idx[b.writer]
        /\ b.call <= calls[b.writer]
        /\ pc[b.writer] # "idle" => b.call < calls[b.writer]

(* A writer's later indices belong to its later calls. *)
CallInv ==
    \A a, b \in Bucket : Known(a) /\ Known(b) /\ a.writer = b.writer /\ a.seq < b.seq => a.call < b.call

(* Indices come out in order, and the reader is behind the last of them. *)
ReaderInv ==
    /\ \A j \in 1 .. Len(delivered) : delivered[j].seq < readIndex
    /\ \A i, j \in 1 .. Len(delivered) : i < j => delivered[i].seq < delivered[j].seq
OrderInv == DrawnInv /\ WriterInv /\ CallInv /\ ReaderInv /\ Accounting

(* The next index counts up, as long as the width suffices. *)
LEMMA NextIndexStep ==
    ASSUME TypeOK, [Next]_vars, [writeIndex' # Modulus - 1]_writeIndex
    PROVE  /\ NextIndex \in 0 .. Modulus - 1
           /\ \/ UNCHANGED writeIndex /\ NextIndex' = NextIndex
              \/ NextIndex' = NextIndex + 1
           /\ \A w \in Writers : AddIndex(w) => idx'[w] = NextIndex /\ NextIndex' = NextIndex + 1
  <1>1. writeIndex + 1 \in Int /\ NextIndex \in 0 .. Modulus - 1
    <2>1. writeIndex + 1 \in Int
      BY DEF TypeOK
    <2>. QED
      BY <2>1, Width DEF NextIndex
  <1>2. NextIndex # writeIndex
    <2>1. CASE writeIndex = Modulus - 1
      BY <1>1, <2>1, Width, ManyToOneAssumption DEF NextIndex
    <2>2. CASE writeIndex + 1 \in 0 .. Modulus - 1
      BY <1>1, <2>2, Width DEF NextIndex, TypeOK
    <2>. QED
      BY <2>1, <2>2, ManyToOneAssumption DEF TypeOK
  <1>3. ASSUME NEW w \in Writers, AddIndex(w)
        PROVE  idx'[w] = NextIndex /\ NextIndex' = NextIndex + 1
    <2>1. writeIndex' = NextIndex /\ idx'[w] = NextIndex
      BY <1>3 DEF TypeOK, AddIndex, NextIndex
    <2>2. writeIndex' # Modulus - 1
      BY <1>2, <2>1
    <2>3. writeIndex' + 1 \in Int /\ writeIndex' + 1 \in 0 .. Modulus - 1
      BY <1>1, <2>1, <2>2, ManyToOneAssumption
    <2>4. (writeIndex' + 1) % Modulus = writeIndex' + 1
      BY <2>3, Width
    <2>. QED
      BY <2>1, <2>4 DEF NextIndex
  <1>4. (\E w \in Writers : AddIndex(w)) \/ UNCHANGED writeIndex
    BY DEF Next, InSet, CallSet, LoadSlot, CasSlot, TryNext, vars
  <1>. QED
    BY <1>1, <1>3, <1>4 DEF NextIndex

(* A sequence with one more element. *)
LEMMA Appended ==
    ASSUME NEW s \in Seq(Bucket), NEW b \in Bucket
    PROVE  /\ Len(s) \in Nat
           /\ Len(Append(s, b)) = Len(s) + 1
           /\ \A j \in 1 .. Len(Append(s, b)) :
                 \/ j \in 1 .. Len(s) /\ Append(s, b)[j] = s[j]
                 \/ j = Len(s) + 1 /\ Append(s, b)[j] = b
  OBVIOUS

(* No bucket becomes known but one that is stored. *)
LEMMA KnownSteps ==
    ASSUME TypeOK, [Next]_vars, NEW b \in Bucket, Known(b)', ~Known(b)
    PROVE  \E w \in Writers : CasSlot(w) /\ b = NewBucket(w) /\ pc'[w] = "idle"
  <1>1. CASE TryNext
    <2>. DEFINE r == buffer[Slot(readIndex)]
    <2>1. Slot(readIndex) \in Slots /\ buffer' = [buffer EXCEPT ![Slot(readIndex)] = Nil]
      BY <1>1, TryNextOutcomes
    <2>2. InRing(b)' => InRing(b)
      BY <2>1, ManyToOneAssumption DEF InRing, TypeOK
    <2>3. UNCHANGED delivered \/ (delivered' = Append(delivered, r) /\ r \in Bucket)
      BY <1>1, TryNextOutcomes DEF readerVars
    <2>4. InRing(b) \/ b # r
      BY <2>1 DEF InRing
    <2>. HIDE DEF r
    <2>5. \A j \in 1 .. Len(delivered') :
              delivered'[j] = b => InRing(b) \/ \E k \in 1 .. Len(delivered) : delivered[k] = b
      <3>1. CASE UNCHANGED delivered
        BY <3>1
      <3>2. CASE delivered' = Append(delivered, r) /\ r \in Bucket
        BY <2>4, <3>2, Appended DEF TypeOK
      <3>. QED
        BY <2>3, <3>1, <3>2
    <2>. QED
      BY <2>2, <2>5 DEF Known
  <1>2. ASSUME NEW w \in Writers, CasSlot(w)
        PROVE  b = NewBucket(w) /\ pc'[w] = "idle"
    <2>1. UNCHANGED delivered
      BY <1>2 DEF CasSlot, readerVars
    <2>2. InRing(b)' /\ ~InRing(b)
      BY <2>1 DEF Known
    <2>3. UNCHANGED buffer => (InRing(b)' => InRing(b))
      BY DEF InRing
    <2>4. /\ buffer' = [buffer EXCEPT ![Slot(idx[w])] = NewBucket(w)]
          /\ pc' = [pc EXCEPT ![w] = "idle"]
      BY <1>2, <2>2, <2>3, CasOutcomes
    <2>. QED
      BY <2>2, <2>4 DEF TypeOK, InRing
  <1>3. CASE UNCHANGED <<buffer, delivered>>
    BY <1>3 DEF Known, InRing
  <1>4. TryNext \/ (\E w \in Writers : CasSlot(w)) \/ UNCHANGED <<buffer, delivered>>
    BY DEF Next, InSet, CallSet, AddIndex, LoadSlot, vars, readerVars
  <1>. QED
    BY <1>1, <1>2, <1>3, <1>4

(* Every step uses indices only after they were drawn. *)
LEMMA DrawnStep ==
    ASSUME TypeOK, CasInv, DrawnInv, [Next]_vars, [writeIndex' # Modulus - 1]_writeIndex
    PROVE  DrawnInv'
  <1>1. NextIndex \in Int /\ NextIndex' \in Int /\ NextIndex <= NextIndex'
    BY NextIndexStep
  <1>2. ASSUME NEW w \in Writers, pc'[w] \in {"load", "cas"}
        PROVE  idx'[w] < NextIndex'
    <2>1. CASE AddIndex(w)
      BY <1>1, <2>1, NextIndexStep
    <2>2. CASE ~AddIndex(w)
      <3>1. idx'[w] = idx[w] /\ pc[w] \in {"load", "cas"}
        <4>1. ASSUME NEW v \in Writers, CallSet(v) \/ AddIndex(v) \/ LoadSlot(v)
              PROVE  idx'[w] = idx[w] /\ pc[w] \in {"load", "cas"}
          BY <1>2, <2>2, <4>1 DEF TypeOK, CallSet, AddIndex, LoadSlot
        <4>2. ASSUME NEW v \in Writers, CasSlot(v)
              PROVE  idx'[w] = idx[w] /\ pc[w] \in {"load", "cas"}
          <5>1. UNCHANGED idx
            BY <4>2 DEF CasSlot
          <5>. QED
            BY <1>2, <4>2, <5>1, CasOutcomes DEF TypeOK
        <4>3. CASE TryNext \/ UNCHANGED vars
          BY <1>2, <4>3 DEF TryNext, vars
        <4>. QED
          BY <4>1, <4>2, <4>3 DEF Next, InSet
      <3>. QED
        BY <1>1, <3>1 DEF DrawnInv, TypeOK
    <2>. QED
      BY <2>1, <2>2
  <1>3. ASSUME NEW b \in Bucket, Known(b)'
        PROVE  b.seq < NextIndex'
    <2>1. CASE Known(b)
      BY <1>1, <2>1, Buckets DEF DrawnInv
    <2>2. ASSUME NEW w \in Writers, CasSlot(w), b = NewBucket(w)
          PROVE  b.seq < NextIndex'
      BY <1>1, <2>2 DEF DrawnInv, CasSlot, NewBucket, TypeOK
    <2>. QED
      BY <1>3, <2>1, <2>2, KnownSteps
  <1>. QED
    BY <1>2, <1>3 DEF DrawnInv
(* Every step keeps a bucket behind its writer. *)
LEMMA WriterStep ==
    ASSUME TypeOK, CasInv, DrawnInv, WriterInv, [Next]_vars, [writeIndex' # Modulus - 1]_writeIndex
    PROVE  WriterInv'
  <1>. DEFINE Ok(b) == /\ b.seq <= idx[b.writer]
                       /\ pc[b.writer] \in {"load", "cas"} => b.seq < idx[b.writer]
                       /\ b.call <= calls[b.writer]
                       /\ pc[b.writer] # "idle" => b.call < calls[b.writer]
  <1>. USE Buckets
  <1>. SUFFICES ASSUME NEW b \in Bucket, Known(b)' PROVE Ok(b)'
    BY DEF WriterInv
  <1>1. CASE Known(b)
    <2>1. Ok(b) /\ b.seq < NextIndex /\ NextIndex \in Int
      BY <1>1, NextIndexStep DEF WriterInv, DrawnInv
    <2>. DEFINE w == b.writer
    <2>2. ASSUME NEW v \in Writers, v # w, CallSet(v) \/ InSet(v)
          PROVE  idx'[w] = idx[w] /\ pc'[w] = pc[w] /\ calls'[w] = calls[w]
      <3>1. CASE CasSlot(v)
        <4>1. UNCHANGED <<idx, calls>>
          BY <3>1 DEF CasSlot
        <4>. QED
          BY <2>2, <3>1, <4>1, CasOutcomes DEF TypeOK
      <3>2. CASE CallSet(v) \/ AddIndex(v) \/ LoadSlot(v)
        BY <2>2, <3>2 DEF TypeOK, CallSet, AddIndex, LoadSlot
      <3>. QED
        BY <2>2, <3>1, <3>2 DEF InSet
    <2>3. CASE CallSet(w)
      BY <2>1, <2>3 DEF TypeOK, CallSet
    <2>4. CASE AddIndex(w)
      <3>1. idx'[w] = NextIndex /\ pc[w] = "add" /\ UNCHANGED calls
        BY <2>4, NextIndexStep DEF AddIndex
      <3>. QED
        BY <2>1, <3>1 DEF TypeOK
    <2>5. CASE LoadSlot(w)
      <3>1. UNCHANGED <<idx, calls>> /\ pc[w] = "load"
        BY <2>5 DEF LoadSlot
      <3>. QED
        BY <2>1, <3>1
    <2>6. CASE CasSlot(w)
      <3>1. UNCHANGED <<idx, calls>> /\ pc[w] = "cas"
        BY <2>6 DEF CasSlot
      <3>. QED
        BY <2>1, <3>1
    <2>7. CASE TryNext \/ UNCHANGED vars
      BY <2>1, <2>7 DEF TryNext, vars
    <2>8. ASSUME NEW v \in Writers, CallSet(v) \/ InSet(v)
          PROVE  Ok(b)'
      <3>1. CASE v # w
        BY <2>1, <2>2, <2>8, <3>1
      <3>2. CASE v = w
        BY <2>3, <2>4, <2>5, <2>6, <2>8, <3>2 DEF InSet
      <3>. QED
        BY <3>1, <3>2
    <2>. QED
      BY <2>7, <2>8 DEF Next
  <1>2. ASSUME NEW w \in Writers, CasSlot(w), b = NewBucket(w), pc'[w] = "idle"
        PROVE  Ok(b)'
    <2>1. UNCHANGED <<idx, calls>>
      BY <1>2 DEF CasSlot
    <2>. QED
      BY <1>2, <2>1 DEF TypeOK, NewBucket
  <1>. QED
    BY <1>1, <1>2, KnownSteps

(* A bucket that is stored is the latest of its writer, in index and in *)
(* call.                                                                *)
LEMMA CallStep ==
    ASSUME TypeOK, WriterInv, CallInv, [Next]_vars
    PROVE  CallInv'
  <1>. USE Buckets
  <1>. SUFFICES ASSUME NEW a \in Bucket, NEW b \in Bucket, Known(a)', Known(b)',
                       a.writer = b.writer, a.seq < b.seq
                PROVE  a.call < b.call
    BY DEF CallInv
  <1>1. CASE Known(a) /\ Known(b)
    BY <1>1 DEF CallInv
  <1>2. ASSUME NEW w \in Writers, CasSlot(w), b = NewBucket(w), Known(a)
        PROVE  a.call < b.call
    BY <1>2 DEF WriterInv, CasSlot, NewBucket
  <1>3. ASSUME NEW w \in Writers, CasSlot(w), a = NewBucket(w), Known(b)
        PROVE  FALSE
    BY <1>3 DEF WriterInv, CasSlot, NewBucket, TypeOK
  <1>4. ASSUME ~Known(a), ~Known(b)
        PROVE  FALSE
    <2>1. PICK v \in Writers : CasSlot(v) /\ a = NewBucket(v)
      BY <1>4, KnownSteps
    <2>2. PICK w \in Writers : CasSlot(w) /\ b = NewBucket(w)
      BY <1>4, KnownSteps
    <2>3. v = w
      BY <2>1, <2>2 DEF NewBucket
    <2>. QED
      BY <2>1, <2>2, <2>3
  <1>. QED
    BY <1>1, <1>2, <1>3, <1>4, KnownSteps

(* A read that delivers a bucket goes on behind it: no bucket is at the end of *)
(* the width.                                                                  *)
LEMMA ReadIndexStep ==
    ASSUME TypeOK, DrawnInv, TryNext, ~UNCHANGED readerVars, [writeIndex' # Modulus - 1]_writeIndex
    PROVE  readIndex' = buffer[Slot(readIndex)].seq + 1
  <1>. DEFINE b == buffer[Slot(readIndex)]
  <1>1. Slot(readIndex) \in Slots /\ b \in Bucket /\ readIndex' = (b.seq + 1) % Modulus
    BY TryNextOutcomes
  <1>2. Known(b)
    BY <1>1 DEF Known, InRing
  <1>3. NextIndex \in 0 .. Modulus - 1
    BY NextIndexStep DEF Next
  <1>. HIDE DEF b
  <1>4. b.seq \in Nat /\ b.seq < NextIndex
    BY <1>1, <1>2, Buckets DEF DrawnInv
  <1>5. b.seq + 1 \in Int /\ b.seq + 1 \in 0 .. Modulus - 1
    BY <1>3, <1>4, ManyToOneAssumption
  <1>6. readIndex' = b.seq + 1
    BY <1>1, <1>5, Width
  <1>. QED
    BY <1>6 DEF b

(* A read passes an index once: it delivers its envelope or counts it as *)
(* dropped.                                                              *)
LEMMA ReaderStep ==
    ASSUME TypeOK, DrawnInv, ReaderInv, Accounting, [Next]_vars, [writeIndex' # Modulus - 1]_writeIndex
    PROVE  ReaderInv' /\ Accounting'
  <1>1. CASE UNCHANGED readerVars
    BY <1>1 DEF ReaderInv, Accounting, readerVars
  <1>2. CASE ~UNCHANGED readerVars
    <2>. DEFINE b == buffer[Slot(readIndex)]
    <2>1. TryNext
      BY <1>2 DEF Next, InSet, CallSet, AddIndex, LoadSlot, CasSlot, vars, readerVars
    <2>2. /\ b \in Bucket /\ b.seq >= readIndex
          /\ dropped' = dropped + (b.seq - readIndex)
          /\ delivered' = Append(delivered, b)
      BY <1>2, <2>1, TryNextOutcomes
    <2>4. b.seq \in Nat
      BY <2>2, Buckets
    <2>5. readIndex' = b.seq + 1
      BY <1>2, <2>1, ReadIndexStep
    <2>. HIDE DEF b
    <2>6. Accounting'
      <3>1. Len(delivered') = Len(delivered) + 1 /\ Len(delivered) \in Nat
        BY <2>2, Appended DEF TypeOK
      <3>2. dropped' = dropped + (b.seq - readIndex)
        BY <2>2
      <3>3. readIndex \in Nat /\ dropped \in Nat
        BY DEF TypeOK
      <3>4. Len(delivered) + dropped = readIndex
        BY DEF Accounting
      <3>5. b.seq \in Nat
        BY <2>4
      <3>6. Len(delivered') + dropped' = b.seq + 1
        BY <3>1, <3>2, <3>3, <3>4, <3>5
      <3>. QED
        BY <2>5, <3>6 DEF Accounting
    <2>7. \A j \in 1 .. Len(delivered) : delivered[j].seq \in Nat /\ delivered[j].seq < b.seq
      BY <2>2, <2>4, Buckets DEF ReaderInv, TypeOK
    <2>8. \A j \in 1 .. Len(delivered') : delivered'[j].seq < readIndex'
      <3>. SUFFICES ASSUME NEW j \in 1 .. Len(delivered') PROVE delivered'[j].seq < readIndex'
        OBVIOUS
      <3>1. \/ j \in 1 .. Len(delivered) /\ delivered'[j] = delivered[j]
            \/ delivered'[j] = b
        BY <2>2, Appended DEF TypeOK
      <3>. QED
        BY <2>4, <2>5, <2>7, <3>1
    <2>9. ASSUME NEW i \in 1 .. Len(delivered'), NEW j \in 1 .. Len(delivered'), i < j
          PROVE  delivered'[i].seq < delivered'[j].seq
      <3>1. i \in 1 .. Len(delivered) /\ delivered'[i] = delivered[i]
        BY <2>2, <2>9, Appended DEF TypeOK
      <3>2. \/ j \in 1 .. Len(delivered) /\ delivered'[j] = delivered[j]
            \/ delivered'[j] = b
        BY <2>2, Appended DEF TypeOK
      <3>. QED
        BY <2>7, <2>9, <3>1, <3>2 DEF ReaderInv
    <2>. QED
      BY <2>6, <2>8, <2>9 DEF ReaderInv
  <1>. QED
    BY <1>1, <1>2

(* OrderInv: for any number of writers, their indices, their calls and the *)
(* order of delivery agree, as long as the indices are not used up.        *)
THEOREM OrderInvHolds == Spec /\ WidthSuffices => []OrderInv
  <1>1. Init => OrderInv
    <2>. SUFFICES ASSUME Init PROVE OrderInv
      OBVIOUS
    <2>1. \A b \in Bucket : ~Known(b)
      BY Buckets DEF Init, Known, InRing
    <2>2. DrawnInv /\ WriterInv /\ CallInv
      BY <2>1 DEF Init, DrawnInv, WriterInv, CallInv
    <2>3. ReaderInv /\ Accounting
      BY DEF Init, ReaderInv, Accounting
    <2>. QED
      BY <2>2, <2>3 DEF OrderInv
  <1>2. TypeOK /\ CasInv /\ OrderInv /\ [Next]_vars /\ [writeIndex' # Modulus - 1]_writeIndex => OrderInv'
    BY DrawnStep, WriterStep, CallStep, ReaderStep DEF OrderInv
  <1>. QED
    BY <1>1, <1>2, TypeOKHolds, CasInvHolds, PTL DEF Spec, WidthSuffices

(* Accounting: what was delivered and what was reported dropped add up to      *)
(* every index the reader has passed.                                          *)
THEOREM AccountingHolds == Spec /\ WidthSuffices => []Accounting
  BY OrderInvHolds, PTL DEF OrderInv

(* PerWriterOrder: the envelopes of one ingress stream come out in the order   *)
(* they were Set, none twice.                                                  *)
THEOREM PerWriterOrderHolds == Spec /\ WidthSuffices => []PerWriterOrder
  <1>1. TypeOK /\ OrderInv => PerWriterOrder
    <2>. SUFFICES ASSUME TypeOK, OrderInv,
                         NEW i \in 1 .. Len(delivered), NEW j \in 1 .. Len(delivered), i < j,
                         delivered[i].writer = delivered[j].writer
                  PROVE  delivered[i].call < delivered[j].call
      BY DEF PerWriterOrder
    <2>1. delivered[i] \in Bucket /\ delivered[j] \in Bucket
      BY DEF TypeOK
    <2>2. Known(delivered[i]) /\ Known(delivered[j])
      BY DEF Known
    <2>3. delivered[i].seq < delivered[j].seq
      BY DEF OrderInv, ReaderInv
    <2>. QED
      BY <2>1, <2>2, <2>3 DEF OrderInv, CallInv
  <1>. QED
    BY <1>1, TypeOKHolds, OrderInvHolds, PTL

-----------------------------------------------------------------------------
(* What becomes of an envelope *)

(* Neither a Set nor a read makes an envelope disappear. *)
LEMMA LossStep ==
    ASSUME TypeOK, CasInv, DrawnInv, NoSilentLoss, [Next]_vars, [writeIndex' # Modulus - 1]_writeIndex
    PROVE  NoSilentLoss'
  <1>. DEFINE Held(b) == buffer[Slot(b.seq)] # Nil /\ buffer[Slot(b.seq)].seq >= b.seq
  <1>. USE Buckets
  <1>1. \A b \in stored : /\ b \in Bucket /\ b.seq \in Nat /\ Slot(b.seq) \in Slots
                          /\ b.seq < readIndex \/ Held(b)
    BY SlotInRing DEF TypeOK, NoSilentLoss
  <1>2. CASE TryNext
    <2>. DEFINE r == buffer[Slot(readIndex)]
    <2>1. /\ stored' = stored
          /\ buffer' = [buffer EXCEPT ![Slot(readIndex)] = Nil]
          /\ r = Nil \/ (r \in Bucket /\ r.seq \in Nat /\ r.seq < readIndex')
          /\ readIndex \in Nat /\ readIndex' \in Nat /\ readIndex <= readIndex'
      <3>1. /\ stored' = stored /\ buffer' = [buffer EXCEPT ![Slot(readIndex)] = Nil]
            /\ Slot(readIndex) \in Slots
        BY <1>2, TryNextOutcomes
      <3>2. r = Nil \/ (r \in Bucket /\ r.seq \in Nat)
        BY <3>1 DEF TypeOK
      <3>3. readIndex \in Nat
        BY DEF TypeOK
      <3>4. CASE UNCHANGED readerVars
        <4>1. r = Nil \/ r.seq < readIndex
          BY <1>2, <3>2, <3>3, <3>4, TryNextOutcomes, Appended DEF readerVars, TypeOK
        <4>. QED
          BY <3>1, <3>2, <3>3, <3>4, <4>1 DEF readerVars
      <3>5. CASE ~UNCHANGED readerVars
        <4>1. r \in Bucket /\ r.seq \in Nat /\ r.seq >= readIndex
          BY <1>2, <3>5, TryNextOutcomes
        <4>2. readIndex' = r.seq + 1
          BY <1>2, <3>5, ReadIndexStep
        <4>. QED
          BY <3>1, <3>3, <4>1, <4>2
      <3>. QED
        BY <3>4, <3>5
    <2>. SUFFICES ASSUME NEW b \in stored
                  PROVE  b.seq < readIndex' \/ Held(b)'
      BY <2>1 DEF NoSilentLoss
    <2>2. CASE b.seq < readIndex
      BY <1>1, <2>1, <2>2
    <2>3. CASE Held(b) /\ Slot(b.seq) = Slot(readIndex)
      BY <1>1, <2>1, <2>3
    <2>4. CASE Held(b) /\ Slot(b.seq) # Slot(readIndex)
      BY <1>1, <2>1, <2>4 DEF TypeOK
    <2>. QED
      BY <1>1, <2>2, <2>3, <2>4
  <1>3. ASSUME NEW w \in Writers, CasSlot(w)
        PROVE  NoSilentLoss'
    <2>. DEFINE i == Slot(idx[w])
    <2>1. CASE UNCHANGED <<buffer, stored>>
      <3>1. UNCHANGED readIndex
        BY <1>3 DEF CasSlot, readerVars
      <3>. QED
        BY <2>1, <3>1 DEF NoSilentLoss
    <2>2. CASE ~UNCHANGED <<buffer, stored>>
      <3>1. /\ buffer[i] = old[w]
            /\ buffer' = [buffer EXCEPT ![i] = NewBucket(w)]
            /\ stored' = {b \in stored : idx[w] >= N \/ Slot(b.seq) # i} \cup {NewBucket(w)}
        BY <1>3, <2>2, CasOutcomes
      <3>2. readIndex' = readIndex /\ readIndex \in Nat /\ i \in Slots
        BY <1>3, SlotInRing DEF CasSlot, readerVars, TypeOK
      <3>3. NewBucket(w) \in Bucket /\ NewBucket(w).seq = idx[w] /\ idx[w] \in Nat /\ NewBucket(w) # Nil
        BY DEF NewBucket, TypeOK
      <3>4. buffer'[i] = NewBucket(w) /\ \A j \in Slots : j # i => buffer'[j] = buffer[j]
        BY <3>1, <3>2 DEF TypeOK
      <3>. SUFFICES ASSUME NEW b \in stored'
                    PROVE  b.seq < readIndex' \/ Held(b)'
        BY DEF NoSilentLoss
      <3>5. CASE b = NewBucket(w)
        BY <3>3, <3>4, <3>5
      <3>6. CASE b \in stored /\ Slot(b.seq) # i
        BY <1>1, <3>2, <3>4, <3>6
      <3>7. CASE b \in stored /\ Slot(b.seq) = i /\ idx[w] >= N
        <4>1. CASE b.seq < readIndex
          BY <3>2, <4>1
        <4>2. CASE old[w] # Nil /\ old[w].seq >= b.seq
          <5>1. old[w].seq \in Nat /\ idx[w] > old[w].seq
            BY <1>3, <3>3, <3>7, <4>2, StoresLater, ManyToOneAssumption
          <5>. QED
            BY <1>1, <3>3, <3>4, <3>7, <4>2, <5>1
        <4>. QED
          BY <1>1, <3>1, <3>7, <4>1, <4>2
      <3>. QED
        BY <3>1, <3>5, <3>6, <3>7
    <2>. QED
      BY <2>1, <2>2
  <1>4. CASE UNCHANGED <<buffer, stored, readIndex>>
    BY <1>4 DEF NoSilentLoss
  <1>5. TryNext \/ (\E w \in Writers : CasSlot(w)) \/ UNCHANGED <<buffer, stored, readIndex>>
    BY DEF Next, InSet, CallSet, AddIndex, LoadSlot, vars, readerVars
  <1>. QED
    BY <1>2, <1>3, <1>4, <1>5

(* NoSilentLoss: for any number of writers and any ring, every envelope whose  *)
(* Set has returned is delivered, counted as dropped, or in front of the       *)
(* reader, it or a later one in its slot, but for the first lap's late Sets.   *)
THEOREM NoSilentLossHolds == Spec /\ WidthSuffices => []NoSilentLoss
  <1>1. Init => NoSilentLoss
    BY DEF Init, NoSilentLoss
  <1>2. /\ TypeOK /\ CasInv /\ OrderInv /\ NoSilentLoss
        /\ [Next]_vars /\ [writeIndex' # Modulus - 1]_writeIndex
        => NoSilentLoss'
    BY LossStep DEF OrderInv
  <1>. QED
    BY <1>1, <1>2, TypeOKHolds, CasInvHolds, OrderInvHolds, PTL DEF Spec, WidthSuffices
=============================================================================
