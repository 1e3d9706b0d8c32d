------------------------ MODULE OneToOneWaiterProofs ------------------------
(***************************************************************************)
(* What OneToOneWaiter promises, for every ring size N and every number of *)
(* Set calls.                                                              *)
(***************************************************************************)
EXTENDS OneToOneWaiter, TLAPS

-----------------------------------------------------------------------------
(* Arithmetic of the ring *)

(* Every index maps to a slot: idx := index % len(buffer) never runs out of *)
(* the ring.                                                                *)
LEMMA SlotInRing ==
    ASSUME NEW a \in Nat
    PROVE  Slot(a) \in Slots
  BY DiodeAssumption, SMT DEF Slot, Slots

(* An index is a number of whole laps and its slot. *)
LEMMA SlotDivision ==
    ASSUME NEW a \in Nat
    PROVE  \E q \in Nat : a = N * q + Slot(a)
<1>1. /\ a \div N \in Nat
      /\ a = N * (a \div N) + (a % N)
  BY DiodeAssumption, SMT
<1> QED
  BY <1>1 DEF Slot

(* Whole laps and a remainder are unique: two ways to write an index agree. *)
LEMMA LapUnique ==
    ASSUME NEW p \in Nat, NEW q \in Nat, NEW i \in Slots, NEW j \in Slots,
           N * p + i = N * q + j
    PROVE  p = q
<1>1. ASSUME NEW x \in Nat, NEW y \in Nat, x < y
      PROVE  N * x + N <= N * y
  <2>1. PICK d \in Nat : y = x + 1 + d
    <3> y - x - 1 \in Nat /\ y = x + 1 + (y - x - 1)
      BY <1>1
    <3> QED OBVIOUS
  <2>2. N * d \in Nat
    BY DiodeAssumption, SMT
  <2>3. N * (x + 1 + d) = N * x + N + N * d
    BY DiodeAssumption, SMT
  <2> QED
    BY <2>1, <2>2, <2>3, DiodeAssumption, SMT
<1>2. N * p \in Nat /\ N * q \in Nat
  BY DiodeAssumption, SMT
<1>3. CASE p < q
  BY <1>1, <1>2, <1>3, DiodeAssumption DEF Slots
<1>4. CASE q < p
  BY <1>1, <1>2, <1>4, DiodeAssumption DEF Slots
<1> QED
  BY <1>3, <1>4

(* N indices further on, the ring is back at the same slot. *)
LEMMA SlotShift ==
    ASSUME NEW a \in Nat
    PROVE  Slot(a + N) = Slot(a)
<1>1. PICK p \in Nat : a = N * p + Slot(a)
  BY SlotDivision
<1>2. a + N \in Nat
  BY DiodeAssumption
<1>3. PICK q \in Nat : a + N = N * q + Slot(a + N)
  BY <1>2, SlotDivision
<1>4. N * (p + 1) = N * p + N
  BY DiodeAssumption, SMT
<1>5. N * p \in Nat /\ N * q \in Nat
  BY DiodeAssumption, SMT
<1>6. Slot(a) \in Slots /\ Slot(a + N) \in Slots
  BY <1>2, SlotInRing
<1>7. N * (p + 1) + Slot(a) = N * q + Slot(a + N)
  BY <1>1, <1>3, <1>4, <1>5, <1>6, DiodeAssumption DEF Slots
<1>8. p + 1 = q
  BY <1>6, <1>7, LapUnique
<1> QED
  BY <1>4, <1>5, <1>6, <1>7, <1>8, DiodeAssumption DEF Slots

(* Two different indices less than N apart have different slots. *)
LEMMA SlotUnique ==
    ASSUME NEW a \in Nat, NEW b \in Nat, a < b, b < a + N
    PROVE  Slot(a) # Slot(b)
<1> SUFFICES ASSUME Slot(a) = Slot(b)
             PROVE  FALSE
  OBVIOUS
<1>1. PICK p \in Nat : a = N * p + Slot(a)
  BY SlotDivision
<1>2. PICK q \in Nat : b = N * q + Slot(a)
  BY SlotDivision
<1>3. PICK d \in Nat : b = a + d /\ d # 0 /\ d < N
  <2> b - a \in Nat /\ b = a + (b - a) /\ b - a # 0 /\ b - a < N
    BY DiodeAssumption
  <2> QED OBVIOUS
<1>4. N * p \in Nat /\ N * q \in Nat /\ Slot(a) \in Nat
  BY SlotInRing, DiodeAssumption, SMT DEF Slots
<1>5. N * p + d = N * q + 0
  <2> DEFINE s == Slot(a)
  <2>1. a = N * p + s /\ b = N * q + s /\ s \in Nat
    BY <1>1, <1>2, <1>4
  <2> HIDE DEF s
  <2> QED
    BY <2>1, <1>3, <1>4, DiodeAssumption, SMT
<1>6. p = q
  BY <1>3, <1>5, LapUnique, DiodeAssumption DEF Slots
<1> QED
  BY <1>3, <1>4, <1>5, <1>6

-----------------------------------------------------------------------------
(* One step of the diode *)

(* A bucket TryNext accepts is one of the N newest; it is the one expected, *)
(* or the writer has lapped the reader.                                     *)
LEMMA AcceptedBucket ==
    ASSUME IndInv, TryNextOk
    PROVE  LET result == buffer[Slot(readIndex)] IN
           /\ result \in Nat
           /\ readIndex <= result
           /\ result < writeIndex
           /\ writeIndex <= result + N
           /\ result = readIndex \/ writeIndex > readIndex + N
           /\ Slot(result) = Slot(readIndex)
<1> DEFINE result == buffer[Slot(readIndex)]
<1>1. Slot(readIndex) \in Slots
  BY SlotInRing DEF IndInv, TypeOK
<1>2. result \in Nat /\ readIndex <= result
  BY <1>1 DEF IndInv, TypeOK, TryNextOk
<1>3. result < writeIndex /\ writeIndex <= result + N /\ Slot(result) = Slot(readIndex)
  BY <1>1 DEF IndInv, SlotsHoldNewest, TryNextOk
<1>4. ~(readIndex < result /\ result < readIndex + N)
  BY <1>2, <1>3, SlotUnique DEF IndInv, TypeOK
<1>5. result = readIndex \/ writeIndex > readIndex + N
  BY <1>2, <1>3, <1>4, DiodeAssumption DEF IndInv, TypeOK
<1> QED
  BY <1>2, <1>3, <1>5

(* TryNext misses only when everything written has been read or reported. *)
LEMMA MissMeansEmpty ==
    ASSUME IndInv, TryNextMiss
    PROVE  readIndex = writeIndex
<1> DEFINE result == buffer[Slot(readIndex)]
<1> SUFFICES ASSUME readIndex < writeIndex
             PROVE  FALSE
  BY DEF IndInv, TypeOK
<1>1. Slot(readIndex) \in Slots
  BY SlotInRing DEF IndInv, TypeOK
<1>2. readIndex \in readIndex .. writeIndex - 1
  BY DEF IndInv, TypeOK
<1>3. result # Nil
  BY <1>1, <1>2 DEF IndInv, EmptyMeansRead
<1>4. result \in Nat /\ result < readIndex
  BY <1>1, <1>3 DEF IndInv, TypeOK, TryNextMiss
<1>5. writeIndex <= result + N /\ Slot(result) = Slot(readIndex)
  BY <1>1, <1>3 DEF IndInv, SlotsHoldNewest
<1>6. readIndex < result + N
  BY <1>4, <1>5, DiodeAssumption DEF IndInv, TypeOK
<1> QED
  BY <1>4, <1>5, <1>6, SlotUnique DEF IndInv, TypeOK

-----------------------------------------------------------------------------
(* The inductive invariant *)

(* A new diode satisfies the invariant. *)
LEMMA InitIndInv == Init => IndInv
<1> SUFFICES ASSUME Init PROVE IndInv
  OBVIOUS
<1>1. TypeOK
  <2>1. buffer \in [Slots -> Nat \cup {Nil}] /\ delivered \in Seq(Nat)
    BY DEF Init
  <2>2. c \in BOOLEAN /\ done \in BOOLEAN
    BY Zenon DEF Init
  <2> QED
    BY <2>1, <2>2 DEF Init, TypeOK
<1>2. SlotsHoldNewest /\ EmptyMeansRead
  BY DEF Init, SlotsHoldNewest, EmptyMeansRead
<1>3. DeliveredBehindReader /\ Ordered /\ Accounting /\ NoLostWakeup
  BY DEF Init, DeliveredBehindReader, Ordered, Accounting, NoLostWakeup
<1> QED
  BY <1>1, <1>2, <1>3 DEF Init, IndInv

(* Set replaces the bucket N behind it and leaves the others, which are     *)
(* newer than that one.                                                     *)
LEMMA SetPreserves ==
    ASSUME IndInv, Set
    PROVE  IndInv'
<1> DEFINE w == writeIndex
<1>1. Slot(w) \in Slots /\ w \in Nat
  BY SlotInRing DEF IndInv, TypeOK
<1>2. /\ buffer' = [buffer EXCEPT ![Slot(w)] = w]
      /\ writeIndex' = w + 1
      /\ UNCHANGED <<readIndex, c, done, rpc, delivered, dropped>>
      /\ wpc' = "broadcast"
  BY DEF Set
<1>3. TypeOK'
  BY <1>1, <1>2 DEF IndInv, TypeOK
<1>4. (readIndex <= writeIndex)'
  BY <1>2 DEF IndInv, TypeOK
<1>5. SlotsHoldNewest'
  <2> SUFFICES ASSUME NEW i \in Slots, buffer'[i] # Nil
               PROVE  /\ buffer'[i] < w + 1
                      /\ w + 1 <= buffer'[i] + N
                      /\ Slot(buffer'[i]) = i
    BY <1>2 DEF SlotsHoldNewest, Slots, Nil, Slot
  <2>1. CASE i = Slot(w)
    BY <2>1, <1>1, <1>2, DiodeAssumption DEF IndInv, TypeOK
  <2>2. CASE i # Slot(w)
    <3>1. /\ buffer'[i] = buffer[i] /\ buffer[i] \in Nat
          /\ buffer[i] < w /\ w <= buffer[i] + N /\ Slot(buffer[i]) = i
      BY <2>2, <1>1, <1>2 DEF IndInv, TypeOK, SlotsHoldNewest
    <3>2. w # buffer[i] + N
      BY <3>1, <2>2, SlotShift
    <3> QED
      BY <3>1, <3>2, <1>1, DiodeAssumption
  <2> QED
    BY <2>1, <2>2
<1>6. EmptyMeansRead'
  <2> SUFFICES ASSUME NEW i \in Slots, buffer'[i] = Nil,
                      NEW s \in readIndex .. w
               PROVE  Slot(s) # i
    BY <1>1, <1>2 DEF EmptyMeansRead, Slots, Nil, Slot
  <2>1. i # Slot(w)
    BY <1>1, <1>2 DEF IndInv, TypeOK, Nil
  <2>2. buffer[i] = Nil
    BY <2>1, <1>2, <1>1 DEF IndInv, TypeOK
  <2>3. CASE s = w
    BY <2>1, <2>3
  <2>4. CASE s # w
    BY <2>2, <2>4, <1>1 DEF IndInv, TypeOK, EmptyMeansRead
  <2> QED
    BY <2>3, <2>4
<1>7. DeliveredBehindReader' /\ Ordered' /\ Accounting'
  BY <1>2 DEF IndInv, DeliveredBehindReader, Ordered, Accounting
<1>8. NoLostWakeup'
  BY <1>2 DEF NoLostWakeup
<1> QED
  BY <1>3, <1>4, <1>5, <1>6, <1>7, <1>8 DEF IndInv

(* TryNext empties a slot; no unread index may map to it afterwards. *)
LEMMA TryNextMissPreserves ==
    ASSUME IndInv, TryNextMiss
    PROVE  IndInv'
<1>1. Slot(readIndex) \in Slots /\ readIndex = writeIndex
  BY SlotInRing, MissMeansEmpty DEF IndInv, TypeOK
<1>2. /\ buffer' = [buffer EXCEPT ![Slot(readIndex)] = Nil]
      /\ rpc' = "select"
      /\ UNCHANGED <<writeIndex, readIndex, c, done, wpc, delivered, dropped>>
  BY DEF TryNextMiss
<1>3. TypeOK'
  BY <1>1, <1>2 DEF IndInv, TypeOK
<1>4. SlotsHoldNewest'
  BY <1>1, <1>2 DEF IndInv, TypeOK, SlotsHoldNewest, Nil
<1>5. EmptyMeansRead'
  BY <1>1, <1>2 DEF IndInv, TypeOK, EmptyMeansRead
<1> QED
  BY <1>1, <1>2, <1>3, <1>4, <1>5
  DEF IndInv, DeliveredBehindReader, Ordered, Accounting, NoLostWakeup

(* TryNext delivers the bucket it found and moves readIndex behind it: what   *)
(* it jumped over is what it reports.                                         *)
LEMMA TryNextOkPreserves ==
    ASSUME IndInv, TryNextOk
    PROVE  IndInv'
<1> DEFINE result == buffer[Slot(readIndex)]
<1>1. Slot(readIndex) \in Slots
  BY SlotInRing DEF IndInv, TypeOK
<1>2. /\ result \in Nat
      /\ readIndex <= result
      /\ result < writeIndex
      /\ writeIndex <= result + N
      /\ Slot(result) = Slot(readIndex)
  BY AcceptedBucket
<1>3. /\ buffer' = [buffer EXCEPT ![Slot(readIndex)] = Nil]
      /\ dropped' = dropped + (result - readIndex)
      /\ readIndex' = result + 1
      /\ delivered' = Append(delivered, result)
      /\ UNCHANGED <<writeIndex, c, done, wpc, rpc>>
      /\ rpc = "try"
  BY DEF TryNextOk
<1> HIDE DEF result
<1>4. TypeOK'
  BY <1>1, <1>2, <1>3 DEF IndInv, TypeOK
<1>5. (readIndex <= writeIndex)'
  BY <1>2, <1>3 DEF IndInv, TypeOK
<1>6. SlotsHoldNewest'
  BY <1>1, <1>3 DEF IndInv, TypeOK, SlotsHoldNewest, Nil
<1>7. EmptyMeansRead'
  <2> SUFFICES ASSUME NEW i \in Slots, buffer'[i] = Nil,
                      NEW s \in result + 1 .. writeIndex - 1
               PROVE  Slot(s) # i
    BY <1>3 DEF EmptyMeansRead, Slots, Nil, Slot
  <2>1. s \in Nat /\ result < s /\ s < result + N /\ s \in readIndex .. writeIndex - 1
    BY <1>2, DiodeAssumption DEF IndInv, TypeOK
  <2>2. CASE i = Slot(readIndex)
    BY <2>1, <2>2, <1>2, SlotUnique
  <2>3. CASE i # Slot(readIndex)
    BY <2>1, <2>3, <1>1, <1>3 DEF IndInv, TypeOK, EmptyMeansRead
  <2> QED
    BY <2>2, <2>3
<1>8. DeliveredBehindReader' /\ Ordered'
  BY <1>2, <1>3 DEF IndInv, TypeOK, DeliveredBehindReader, Ordered
<1>9. Accounting'
  <2>1. Len(delivered') = Len(delivered) + 1 /\ Len(delivered) \in Nat
    BY <1>2, <1>3 DEF IndInv, TypeOK
  <2>2. Len(delivered) + dropped = readIndex /\ dropped \in Nat /\ readIndex \in Nat
    BY DEF IndInv, TypeOK, Accounting
  <2>3. Len(delivered') + dropped' = readIndex'
    BY <2>1, <2>2, <1>2, <1>3, SMT
  <2> QED
    BY <2>3 DEF Accounting
<1>10. NoLostWakeup'
  BY <1>3 DEF NoLostWakeup
<1> QED
  BY <1>4, <1>5, <1>6, <1>7, <1>8, <1>9, <1>10 DEF IndInv

(* The steps that touch only the signal, the context and the program        *)
(* counters, and stuttering.                                                *)
LEMMA OtherStepsPreserve ==
    ASSUME IndInv, Broadcast \/ Wake \/ ReturnNil \/ Cancel \/ UNCHANGED vars
    PROVE  IndInv'
<1>1. UNCHANGED diodeVars
  BY DEF Broadcast, Wake, ReturnNil, Cancel, vars, diodeVars
<1>2. TypeOK'
  BY <1>1 DEF IndInv, TypeOK, diodeVars, Broadcast, Wake, ReturnNil, Cancel, vars
<1>3. /\ (readIndex <= writeIndex)'
      /\ SlotsHoldNewest' /\ EmptyMeansRead'
      /\ DeliveredBehindReader' /\ Ordered' /\ Accounting'
  BY <1>1 DEF IndInv, diodeVars, SlotsHoldNewest, EmptyMeansRead,
              DeliveredBehindReader, Ordered, Accounting
<1>4. NoLostWakeup'
  BY <1>1 DEF IndInv, NoLostWakeup, diodeVars,
              Broadcast, Wake, ReturnNil, Cancel, vars
<1> QED
  BY <1>2, <1>3, <1>4 DEF IndInv

(* The ring invariant holds in every reachable state. *)
THEOREM Invariance == Spec => []IndInv
<1>1. IndInv /\ [Next]_vars => IndInv'
  BY SetPreserves, TryNextMissPreserves, TryNextOkPreserves, OtherStepsPreserve
  DEF Next, Reader
<1> QED
  BY InitIndInv, <1>1, PTL DEF Spec

(* The variables of the diode and of the Waiter keep their types: in        *)
(* particular an Alert is never called with a negative count.               *)
THEOREM TypeCorrect == Spec => []TypeOK
  BY Invariance, PTL DEF IndInv

(* TryNext's deliveries and its alerts account for every index passed. *)
THEOREM AccountingHolds == Spec => []Accounting
  BY Invariance, PTL DEF IndInv

(* TryNext delivers in the order of the Set calls, nothing twice. *)
THEOREM OrderedHolds == Spec => []Ordered
  BY Invariance, PTL DEF IndInv

(* The Waiter's one-slot channel is enough: a sleeping reader never misses *)
(* a Set.                                                                  *)
THEOREM NoLostWakeupHolds == Spec => []NoLostWakeup
  BY Invariance, PTL DEF IndInv

(* No unread envelope among the N newest is ever lost from the ring. *)
THEOREM NewestKeptHolds == Spec => []NewestKept
<1>1. IndInv => NewestKept
  <2> SUFFICES ASSUME IndInv,
                      NEW s \in readIndex .. writeIndex - 1,
                      writeIndex - s <= N
               PROVE  buffer[Slot(s)] = s
    BY DEF NewestKept
  <2> DEFINE b == buffer[Slot(s)]
  <2>1. s \in Nat /\ Slot(s) \in Slots /\ s < writeIndex /\ writeIndex <= s + N
    BY SlotInRing, DiodeAssumption DEF IndInv, TypeOK
  <2>2. b \in Nat
    BY <2>1 DEF IndInv, TypeOK, EmptyMeansRead
  <2>3. b < writeIndex /\ writeIndex <= b + N /\ Slot(b) = Slot(s)
    BY <2>1, <2>2 DEF IndInv, SlotsHoldNewest, Nil
  <2>4. ~(s < b) /\ ~(b < s)
    BY <2>1, <2>2, <2>3, SlotUnique, DiodeAssumption DEF IndInv, TypeOK
  <2> QED
    BY <2>1, <2>2, <2>4
<1> QED
  BY Invariance, <1>1, PTL

(* The lock-free ring with its Waiter implements LossyFifo: every step is a *)
(* Put, a Get of an allowed envelope, or invisible.                         *)
THEOREM Refinement == Spec => ImplementsLossyFifo
<1>1. Init => Fifo!Init
  BY DEF Init, Fifo!Init
<1>2. IndInv /\ [Next]_vars => [Fifo!Next]_(Fifo!vars)
  <2> SUFFICES ASSUME IndInv, [Next]_vars
               PROVE  [Fifo!Next]_(Fifo!vars)
    OBVIOUS
  <2>1. CASE Set
    BY <2>1 DEF Set, Fifo!Next, Fifo!Put
  <2>2. CASE TryNextOk
    <3> DEFINE result == buffer[Slot(readIndex)]
    <3>1. /\ result \in Nat
          /\ readIndex <= result
          /\ result < writeIndex
          /\ writeIndex <= result + N
          /\ result = readIndex \/ writeIndex > readIndex + N
      BY <2>2, AcceptedBucket
    <3>2. /\ dropped' = dropped + (result - readIndex)
          /\ readIndex' = result + 1
          /\ delivered' = Append(delivered, result)
          /\ UNCHANGED writeIndex
      BY <2>2 DEF TryNextOk
    <3> HIDE DEF result
    <3>3. Fifo!Get(result) /\ result \in readIndex .. writeIndex - 1
      BY <3>1, <3>2, DiodeAssumption DEF IndInv, TypeOK, Fifo!Get
    <3> QED
      BY <3>3 DEF Fifo!Next
  <2>3. CASE TryNextMiss \/ Broadcast \/ Wake \/ ReturnNil \/ Cancel \/ UNCHANGED vars
    BY <2>3 DEF TryNextMiss, Broadcast, Wake, ReturnNil, Cancel, vars, diodeVars, Fifo!vars
  <2> QED
    BY <2>1, <2>2, <2>3 DEF Next, Reader
<1> QED
  BY Invariance, <1>1, <1>2, PTL DEF Spec, ImplementsLossyFifo, Fifo!Spec
=============================================================================
