----------------------------- MODULE LossyFifo -----------------------------
(***************************************************************************)
(* What a subscription's diode promises its two users, without the ring:   *)
(* a writer that is never made to wait, a reader that sees a subsequence   *)
(* of what was written, in order, and a count of exactly what it missed.   *)
(* An envelope is named by the number of the Set call that wrote it.       *)
(***************************************************************************)
EXTENDS Integers, Sequences

CONSTANTS
    N,          \* how far the writer may be ahead before anything is lost
    MaxSets     \* bound: how many envelopes are written in a behaviour

VARIABLES
    written,    \* how many envelopes were written
    next,       \* the first envelope that is neither delivered nor lost
    delivered,  \* the envelopes handed to the reader, oldest first
    lost        \* how many envelopes were reported lost

vars == <<written, next, delivered, lost>>

Init ==
    /\ written = 0
    /\ next = 0
    /\ delivered = <<>>
    /\ lost = 0

Put ==
    /\ written < MaxSets
    /\ written' = written + 1
    /\ UNCHANGED <<next, delivered, lost>>

(* Deliver s.  Skipping to s is allowed only when the reader is more than N *)
(* behind, and then only to one of the N newest envelopes.                  *)
Get(s) ==
    /\ written - s <= N
    /\ s = next \/ written - next > N
    /\ delivered' = Append(delivered, s)
    /\ lost' = lost + (s - next)
    /\ next' = s + 1
    /\ UNCHANGED written

Next == Put \/ \E s \in next .. written - 1 : Get(s)

Spec == Init /\ [][Next]_vars
=============================================================================
