--------------------------- MODULE ManyToOneDiode ---------------------------
(***************************************************************************)
(* The router's ingress buffers (v1Buf and v2Buf): a ManyToOne diode in a  *)
(* Poller (src/src/diodes/many_to_one_envelope_v2.go).  Every ingress stream *)
(* handler is a writer; one goroutine (MessageRouter or Repeater) reads.   *)
(* Set is a loop of three atomic operations, and each is an action.        *)
(*                                                                         *)
(* The data of a bucket is who wrote it and in which of its Set calls.     *)
(***************************************************************************)
EXTENDS Integers, Sequences, FiniteSets

CONSTANTS
    Writers,    \* the goroutines that call Set
    N,          \* len(buffer)
    Modulus,    \* 2^64 in the code: the width of the indices
    MaxCalls,   \* bound: Set calls per writer
    Nil         \* the nil pointer

Bucket == [seq : Nat, writer : Writers, call : Nat]

ASSUME ManyToOneAssumption ==
    /\ N \in Nat \ {0}
    /\ Modulus \in Nat
    /\ Modulus > N
    /\ MaxCalls \in Nat
    /\ Nil \notin Bucket

VARIABLES
    buffer,     \* the ring: each slot a bucket, or Nil
    writeIndex, \* shared by the writers, updated with AddUint64
    pc,         \* each writer: "idle", or in Set's loop at "add", "load" or "cas"
    idx,        \* each writer's local writeIndex
    old,        \* each writer's local old
    calls,      \* each writer's number of Set calls, the one in progress included
    readIndex,  \* private to the reader
    delivered,  \* history: the buckets TryNext returned, oldest first
    dropped,    \* the sum of the counts the Alerter was called with
    stored      \* history: the buckets of the Sets that returned, but for those whose
                \* slot a late Set of the first lap, whose index is below N, wrote to

vars == <<buffer, writeIndex, pc, idx, old, calls, readIndex, delivered, dropped, stored>>
readerVars == <<readIndex, delivered, dropped>>

Slots == 0 .. N - 1
Slot(i) == i % N

(* writeIndex starts at the value before 0. *)
Init ==
    /\ buffer = [i \in Slots |-> Nil]
    /\ writeIndex = Modulus - 1
    /\ pc = [w \in Writers |-> "idle"]
    /\ idx = [w \in Writers |-> 0]
    /\ old = [w \in Writers |-> Nil]
    /\ calls = [w \in Writers |-> 0]
    /\ readIndex = 0
    /\ delivered = <<>>
    /\ dropped = 0
    /\ stored = {}

-----------------------------------------------------------------------------
(* A writer *)

(* A handler calls Set with its next envelope. *)
CallSet(w) ==
    /\ pc[w] = "idle"
    /\ calls[w] < MaxCalls
    /\ calls' = [calls EXCEPT ![w] = @ + 1]
    /\ pc' = [pc EXCEPT ![w] = "add"]
    /\ UNCHANGED <<buffer, writeIndex, idx, old, readerVars, stored>>

(* writeIndex := atomic.AddUint64(&d.writeIndex, 1) *)
AddIndex(w) ==
    /\ pc[w] = "add"
    /\ writeIndex' = (writeIndex + 1) % Modulus
    /\ idx' = [idx EXCEPT ![w] = writeIndex']
    /\ pc' = [pc EXCEPT ![w] = "load"]
    /\ UNCHANGED <<buffer, old, calls, readerVars, stored>>

(* The slot holds a bucket of a later lap.  The subtraction is on uint64: in *)
(* the first lap it wraps to a number no seq exceeds.                        *)
Collision(b, i) == b # Nil /\ b.seq > (i - N) % Modulus

(* Mutant: no test for a collision. *)
LoadSlot_NoTest(w) ==
    /\ pc[w] = "load"
    /\ old' = [old EXCEPT ![w] = buffer[Slot(idx[w])]]
    /\ pc' = [pc EXCEPT ![w] = "cas"]
    /\ UNCHANGED <<buffer, writeIndex, idx, calls, readerVars, stored>>

(* old := atomic.LoadPointer(...), and the test that may start the loop again. *)
LoadSlot(w) ==
    LET b == buffer[Slot(idx[w])] IN
    /\ pc[w] = "load"
    /\ old' = [old EXCEPT ![w] = b]
    /\ pc' = [pc EXCEPT ![w] = IF Collision(b, idx[w]) THEN "add" ELSE "cas"]
    /\ UNCHANGED <<buffer, writeIndex, idx, calls, readerVars, stored>>

(* Mutant: the bucket is stored whatever the slot holds by then. *)
CasSlot_Store(w) ==
    /\ pc[w] = "cas"
    /\ buffer' = [buffer EXCEPT ![Slot(idx[w])] =
                      [seq |-> idx[w], writer |-> w, call |-> calls[w]]]
    /\ pc' = [pc EXCEPT ![w] = "idle"]
    /\ UNCHANGED <<writeIndex, idx, old, calls, readerVars, stored>>

(* atomic.CompareAndSwapPointer(..., old, newBucket): Set returns if the slot *)
(* is as it was loaded, and starts its loop again if not.                     *)
CasSlot(w) ==
    LET i == Slot(idx[w])
        newBucket == [seq |-> idx[w], writer |-> w, call |-> calls[w]]
    IN
    /\ pc[w] = "cas"
    /\ \/ /\ buffer[i] = old[w]
          /\ buffer' = [buffer EXCEPT ![i] = newBucket]
          /\ stored' = {b \in stored : idx[w] >= N \/ Slot(b.seq) # i} \cup {newBucket}
          /\ pc' = [pc EXCEPT ![w] = "idle"]
       \/ /\ buffer[i] # old[w]
          /\ pc' = [pc EXCEPT ![w] = "add"]
          /\ UNCHANGED <<buffer, stored>>
    /\ UNCHANGED <<writeIndex, idx, old, calls, readerVars>>

-----------------------------------------------------------------------------
(* The reader: Poller.Next calls TryNext until it succeeds. *)

(* Mutant: TryNext without the test for a bucket older than readIndex. *)
TryNext_Stale ==
    LET i == Slot(readIndex)
        result == buffer[i]
    IN
    /\ buffer' = [buffer EXCEPT ![i] = Nil]
    /\ IF result = Nil
       THEN UNCHANGED readerVars
       ELSE /\ dropped' = dropped + (result.seq - readIndex)
            /\ readIndex' = (result.seq + 1) % Modulus
            /\ delivered' = Append(delivered, result)
    /\ UNCHANGED <<writeIndex, pc, idx, old, calls, stored>>

(* Mutant: the count in the alert misses one. *)
TryNext_OffByOne ==
    LET i == Slot(readIndex)
        result == buffer[i]
    IN
    /\ buffer' = [buffer EXCEPT ![i] = Nil]
    /\ IF result = Nil \/ result.seq < readIndex
       THEN UNCHANGED readerVars
       ELSE /\ dropped' = IF result.seq > readIndex
                          THEN dropped + (result.seq - readIndex) - 1
                          ELSE dropped
            /\ readIndex' = (result.seq + 1) % Modulus
            /\ delivered' = Append(delivered, result)
    /\ UNCHANGED <<writeIndex, pc, idx, old, calls, stored>>

(* The slot is swapped with nil; an empty or stale one yields nothing, any     *)
(* other moves readIndex behind its seq and reports the indices it jumped.     *)
TryNext ==
    LET i == Slot(readIndex)
        result == buffer[i]
    IN
    /\ buffer' = [buffer EXCEPT ![i] = Nil]
    /\ \/ /\ result = Nil
          /\ UNCHANGED readerVars
       \/ /\ result # Nil
          /\ result.seq < readIndex
          /\ UNCHANGED readerVars
       \/ /\ result # Nil
          /\ result.seq >= readIndex
          /\ dropped' = dropped + (result.seq - readIndex)
          /\ readIndex' = (result.seq + 1) % Modulus
          /\ delivered' = Append(delivered, result)
    /\ UNCHANGED <<writeIndex, pc, idx, old, calls, stored>>

-----------------------------------------------------------------------------
InSet(w) == AddIndex(w) \/ LoadSlot(w) \/ CasSlot(w)

Next == TryNext \/ \E w \in Writers : CallSet(w) \/ InSet(w)

Spec == Init /\ [][Next]_vars

(* A Set that was called keeps running, and the reader keeps polling. *)
LiveSpec == Spec /\ WF_vars(TryNext) /\ \A w \in Writers : WF_vars(InSet(w))

-----------------------------------------------------------------------------
(* Properties *)

(* The variables keep their types; indices and counts never go negative. *)
TypeOK ==
    /\ buffer \in [Slots -> Bucket \cup {Nil}]
    /\ writeIndex \in 0 .. Modulus - 1
    /\ pc \in [Writers -> {"idle", "add", "load", "cas"}]
    /\ idx \in [Writers -> Nat]
    /\ old \in [Writers -> Bucket \cup {Nil}]
    /\ calls \in [Writers -> Nat]
    /\ readIndex \in Nat
    /\ delivered \in Seq(Bucket)
    /\ dropped \in Nat
    /\ stored \subseteq Bucket

(* What TryNext delivered and what it alerted about add up to every index   *)
(* the reader has passed, although late writers keep putting buckets of     *)
(* passed indices into the ring.                                            *)
Accounting == Len(delivered) + dropped = readIndex

(* What Accounting, PerWriterOrder and NoSilentLoss ask of the width of an      *)
(* index: the writers never draw the last one, from which writeIndex would      *)
(* start again at 0.                                                            *)
WidthSuffices == [][writeIndex' # Modulus - 1]_writeIndex

(* The envelopes of one ingress stream come out in the order they were Set, *)
(* none twice, whatever the collisions and retries between writers.         *)
PerWriterOrder ==
    \A i, j \in 1 .. Len(delivered) :
        i < j /\ delivered[i].writer = delivered[j].writer
            => delivered[i].call < delivered[j].call

(* Set's collision test protects the newer bucket: once the first lap is over, *)
(* a Set replaces a bucket only with one of a later index.  (In the first lap  *)
(* the test cannot fire, and a late Set with an index below N replaces a newer *)
(* bucket.)                                                                    *)
ReplacesOlderOnly ==
    [][\A i \in Slots :
         buffer[i] # Nil /\ buffer'[i] # Nil /\ buffer'[i] # buffer[i]
             => buffer'[i].seq > buffer[i].seq \/ buffer'[i].seq < N]_vars

(* No envelope is lost without a trace: when its Set has returned, its index   *)
(* was passed by the reader, so that it was delivered or counted as dropped    *)
(* (Accounting), or its slot still holds it or a bucket of a later lap, with   *)
(* which the reader will pass it.  Collisions, late writers and stale buckets  *)
(* do not change that; only a late Set of the first lap does (see stored).     *)
NoSilentLoss ==
    \A b \in stored :
        \/ b.seq < readIndex
        \/ LET x == buffer[Slot(b.seq)] IN x # Nil /\ x.seq >= b.seq

-----------------------------------------------------------------------------
(* What a comment of the repository says, and the code does not do. *)

(* "If the diode is empty this method will block until an envelope is        *)
(* available to be read" (Next): an envelope that is in the ring and was not  *)
(* passed over is eventually read or reported dropped.                        *)
AvailableIsRead ==
    \A i \in Slots, s \in 0 .. Cardinality(Writers) * MaxCalls :
        (buffer[i] # Nil /\ buffer[i].seq = s /\ s >= readIndex) ~> readIndex > s
=============================================================================
