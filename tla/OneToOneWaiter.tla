--------------------------- MODULE OneToOneWaiter ---------------------------
(***************************************************************************)
(* The buffer of one v2 subscription: a OneToOne diode wrapped in a Waiter *)
(* (src/src/diodes/one_to_one_envelope_v2.go).  One goroutine, the router's  *)
(* publisher, calls Set; one goroutine of the subscriber's stream calls    *)
(* Next.  They share the ring and the signal channel and hold no lock, so  *)
(* each atomic operation on them is an action.                             *)
(*                                                                         *)
(* The data is abstracted: the writer stores the envelope of its i-th Set  *)
(* with seq i, so a bucket is its seq.                                     *)
(***************************************************************************)
EXTENDS Integers, Sequences

CONSTANTS
    N,          \* len(buffer)
    MaxSets     \* bound: how many times Set is called in a behaviour

ASSUME DiodeAssumption == N \in Nat \ {0} /\ MaxSets \in Nat

VARIABLES
    buffer,     \* the ring: each slot a bucket, or Nil
    writeIndex, \* private to the writer
    readIndex,  \* private to the reader
    c,          \* the Waiter's channel of capacity 1: TRUE when it holds a signal
    done,       \* the Waiter's context is cancelled
    wpc,        \* the writer: "idle", or "broadcast" inside Set after the store
    rpc,        \* the reader: "try", "select" (Next's select), or "returned" nil
    delivered,  \* history: the buckets Next returned, oldest first
    dropped     \* the sum of the counts the Alerter was called with

vars == <<buffer, writeIndex, readIndex, c, done, wpc, rpc, delivered, dropped>>
diodeVars == <<buffer, writeIndex, readIndex, delivered, dropped>>

Nil == -1
Slots == 0 .. N - 1
Slot(i) == i % N

Init ==
    /\ buffer = [i \in Slots |-> Nil]
    /\ writeIndex = 0
    /\ readIndex = 0
    /\ c = FALSE
    /\ done = FALSE
    /\ wpc = "idle"
    /\ rpc = "try"
    /\ delivered = <<>>
    /\ dropped = 0

-----------------------------------------------------------------------------
(* The writer *)

(* Waiter.Set calls OneToOne.Set: build the bucket, advance writeIndex, store. *)
Set ==
    /\ wpc = "idle"
    /\ writeIndex < MaxSets
    /\ buffer' = [buffer EXCEPT ![Slot(writeIndex)] = writeIndex]
    /\ writeIndex' = writeIndex + 1
    /\ wpc' = "broadcast"
    /\ UNCHANGED <<readIndex, c, done, rpc, delivered, dropped>>

(* Mutant: the channel is unbuffered: a signal is lost if the reader does not *)
(* wait for it yet, or no longer.                                             *)
Broadcast_Unbuffered ==
    /\ wpc = "broadcast"
    /\ c' \in {FALSE, rpc = "select"}
    /\ wpc' = "idle"
    /\ UNCHANGED <<diodeVars, done, rpc>>

(* Waiter.broadcast: a send that is skipped when the channel is full. *)
Broadcast ==
    /\ wpc = "broadcast"
    /\ c' = TRUE
    /\ wpc' = "idle"
    /\ UNCHANGED <<diodeVars, done, rpc>>

-----------------------------------------------------------------------------
(* The reader *)

(* OneToOne.TryNext finds no bucket, or one that was already counted as     *)
(* dropped; the swap has emptied the slot.  Next goes on to its select.     *)
TryNextMiss ==
    LET result == buffer[Slot(readIndex)] IN
    /\ rpc = "try"
    /\ result = Nil \/ result < readIndex
    /\ buffer' = [buffer EXCEPT ![Slot(readIndex)] = Nil]
    /\ rpc' = "select"
    /\ UNCHANGED <<writeIndex, readIndex, c, done, wpc, delivered, dropped>>

(* Mutant: TryNext without the test for a bucket older than readIndex. *)
TryNextOk_Stale ==
    LET result == buffer[Slot(readIndex)] IN
    /\ rpc = "try"
    /\ result # Nil
    /\ buffer' = [buffer EXCEPT ![Slot(readIndex)] = Nil]
    /\ dropped' = dropped + (result - readIndex)
    /\ readIndex' = result + 1
    /\ delivered' = Append(delivered, result)
    /\ UNCHANGED <<writeIndex, c, done, wpc, rpc>>

(* Mutant: TryNext increments readIndex before it counts what it jumped. *)
TryNextOk_EarlyIncrement ==
    LET result == buffer[Slot(readIndex)] IN
    /\ rpc = "try"
    /\ result # Nil
    /\ result >= readIndex
    /\ buffer' = [buffer EXCEPT ![Slot(readIndex)] = Nil]
    /\ dropped' = dropped + (result - (readIndex + 1))
    /\ readIndex' = result + 1
    /\ delivered' = Append(delivered, result)
    /\ UNCHANGED <<writeIndex, c, done, wpc, rpc>>

(* OneToOne.TryNext finds a bucket: the indices up to its seq are reported  *)
(* dropped, Next returns its data and the reader calls Next again.          *)
TryNextOk ==
    LET result == buffer[Slot(readIndex)] IN
    /\ rpc = "try"
    /\ result # Nil
    /\ result >= readIndex
    /\ buffer' = [buffer EXCEPT ![Slot(readIndex)] = Nil]
    /\ dropped' = dropped + (result - readIndex)
    /\ readIndex' = result + 1
    /\ delivered' = Append(delivered, result)
    /\ UNCHANGED <<writeIndex, c, done, wpc, rpc>>

(* Next's select receives the signal and tries again. *)
Wake ==
    /\ rpc = "select"
    /\ c
    /\ c' = FALSE
    /\ rpc' = "try"
    /\ UNCHANGED <<diodeVars, done, wpc>>

(* Next's select sees the context done and returns nil. *)
ReturnNil ==
    /\ rpc = "select"
    /\ done
    /\ rpc' = "returned"
    /\ UNCHANGED <<diodeVars, c, done, wpc>>

(* The stream's context is cancelled. *)
Cancel ==
    /\ ~done
    /\ done' = TRUE
    /\ UNCHANGED <<diodeVars, c, wpc, rpc>>

Reader == TryNextMiss \/ TryNextOk \/ Wake \/ ReturnNil

Next == Set \/ Broadcast \/ Reader \/ Cancel

Spec == Init /\ [][Next]_vars

(* A goroutine that can run does run; nothing makes the writer call Set or *)
(* the context end.                                                        *)
LiveSpec == Spec /\ WF_vars(Broadcast) /\ WF_vars(Reader)

-----------------------------------------------------------------------------
(* Properties *)

(* The variables keep their types; indices and counts never go negative. *)
TypeOK ==
    /\ buffer \in [Slots -> Nat \cup {Nil}]
    /\ writeIndex \in Nat
    /\ readIndex \in Nat
    /\ c \in BOOLEAN
    /\ done \in BOOLEAN
    /\ wpc \in {"idle", "broadcast"}
    /\ rpc \in {"try", "select", "returned"}
    /\ delivered \in Seq(Nat)
    /\ dropped \in Nat

(* The dropped metric is exact: what TryNext delivered and what it alerted  *)
(* about add up to every index the reader has passed, whatever the writer   *)
(* overwrote meanwhile.                                                     *)
Accounting == Len(delivered) + dropped = readIndex

(* TryNext never returns a bucket out of order or twice, although a slot    *)
(* may hold a bucket that the reader has already jumped over.               *)
Ordered ==
    \A i, j \in 1 .. Len(delivered) : i < j => delivered[i] < delivered[j]

(* A reader asleep in Next's select, with no signal pending and no Set about *)
(* to broadcast, has nothing to read: no wake-up is lost between the failed  *)
(* TryNext and the select.                                                   *)
NoLostWakeup ==
    rpc = "select" /\ ~c /\ wpc = "idle" => readIndex = writeIndex

(* The unread envelopes among the newest N are all still in the ring: neither *)
(* a reader that swaps slots to nil nor one that discards a stale bucket ever *)
(* loses one of them.                                                         *)
NewestKept ==
    \A s \in readIndex .. writeIndex - 1 :
        writeIndex - s <= N => buffer[Slot(s)] = s

(* The diode implements LossyFifo: it skips only when the writer is more     *)
(* than N ahead, skips to one of the N newest, and reports what it skipped.  *)
Fifo == INSTANCE LossyFifo WITH
            written <- writeIndex, next <- readIndex, lost <- dropped
ImplementsLossyFifo == Fifo!Spec

(* Every envelope that was Set is eventually delivered or reported dropped, *)
(* unless the stream's context ends first.                                  *)
EverySetSettled ==
    \A k \in 0 .. MaxSets - 1 : writeIndex > k ~> (readIndex > k \/ done)

(* The inductive invariant behind the properties above. *)

(* A bucket in the ring is the newest one written to its slot. *)
SlotsHoldNewest ==
    \A i \in Slots : buffer[i] # Nil =>
        /\ buffer[i] < writeIndex
        /\ writeIndex <= buffer[i] + N
        /\ Slot(buffer[i]) = i

(* A slot is empty only if no unread index maps to it. *)
EmptyMeansRead ==
    \A i \in Slots : buffer[i] = Nil =>
        \A s \in readIndex .. writeIndex - 1 : Slot(s) # i

DeliveredBehindReader ==
    \A i \in 1 .. Len(delivered) : delivered[i] < readIndex

IndInv ==
    /\ TypeOK
    /\ readIndex <= writeIndex
    /\ SlotsHoldNewest
    /\ EmptyMeansRead
    /\ DeliveredBehindReader
    /\ Ordered
    /\ Accounting
    /\ NoLostWakeup
=============================================================================
