---------------------------- MODULE MetricEmitter ----------------------------
(***************************************************************************)
(* The metric emitter (src/src/metricemitter): a counter and a gauge that  *)
(* the program's goroutines update with atomic operations, and for each of *)
(* them a pulse goroutine that sends it to the agent again and again.      *)
(*                                                                         *)
(* The words have 64 bits, which counts of events do not exhaust, so they  *)
(* are natural numbers here, and so are a gauge's values.  The names, tags *)
(* and timestamps of the envelopes are left out.  The gauge's              *)
(* goroutine keeps nothing between two ticks but its stream, whose failure *)
(* and reopening only delay the next send, so it has no state here.        *)
(***************************************************************************)
EXTENDS Integers

CONSTANT Precision  \* what a gauge's value is multiplied by: 10^2

ASSUME EmitterAssumption == Precision \in Nat \ {0}

VARIABLES
    delta,          \* Counter.delta
    taken,          \* d of WithEnvelope: taken from delta, and not sent or added back yet
    value,          \* Gauge.value
    pulse,          \* where the counter's pulse goroutine is
    sender,         \* whether its senderClient is not nil
    reported,       \* history: the sum of the counter's deltas that Send accepted
    incremented,    \* history: the sum of all arguments of Increment
    gaugeSent       \* history: the value of the last gauge that Send accepted

emitterVars == <<delta, taken, value, pulse, sender, reported, incremented, gaugeSent>>
counterVars == <<delta, taken, reported, incremented>>
gaugeVars == <<value, gaugeSent>>

EmitterInit ==
    /\ delta = 0
    /\ taken = 0
    /\ value = 0
    /\ pulse = "tick"
    /\ sender = FALSE
    /\ reported = 0
    /\ incremented = 0
    /\ gaugeSent = 0

-----------------------------------------------------------------------------
(* What the program's goroutines do with a metric. *)

(* Counter.Increment *)
Increment(c) ==
    /\ delta' = delta + c
    /\ incremented' = incremented + c
    /\ UNCHANGED <<taken, reported, gaugeVars, pulse, sender>>

toUint64(v) == v * Precision
toFloat64(w) == w \div Precision

(* Gauge.Set *)
SetGauge(v) ==
    /\ value' = toUint64(v)
    /\ UNCHANGED <<counterVars, gaugeSent, pulse, sender>>

-----------------------------------------------------------------------------
(* Client.pulse.  At a tick of the ticker the goroutine opens a stream to the  *)
(* agent if it has none, and then calls WithEnvelope.  A failure to open one   *)
(* changes nothing: the goroutine waits for the next tick.                     *)

OpenStream ==
    /\ pulse = "tick"
    /\ ~sender
    /\ sender' = TRUE
    /\ UNCHANGED <<counterVars, gaugeVars, pulse>>

(* Counter.WithEnvelope takes the delta before it calls Send. *)
TakeDelta ==
    /\ pulse = "tick"
    /\ sender
    /\ taken' = delta
    /\ delta' = 0
    /\ pulse' = "send"
    /\ UNCHANGED <<reported, incremented, gaugeVars, sender>>

SendCounter ==
    /\ pulse = "send"
    /\ pulse' = "tick"
    /\ reported' = reported + taken
    /\ taken' = 0
    /\ UNCHANGED <<delta, incremented, gaugeVars, sender>>

SendCounterErr ==
    /\ pulse = "send"
    /\ pulse' = "addback"
    /\ UNCHANGED <<counterVars, gaugeVars, sender>>

(* Mutant: the delta is stored back, over what was added in the meantime. *)
AddBack_Store ==
    /\ pulse = "addback"
    /\ delta' = taken
    /\ taken' = 0
    /\ pulse' = "tick"
    /\ sender' = FALSE
    /\ UNCHANGED <<reported, incremented, gaugeVars>>

(* Counter.WithEnvelope after a failed Send; pulse then closes the stream, and *)
(* the next tick opens another.                                                *)
AddBack ==
    /\ pulse = "addback"
    /\ delta' = delta + taken
    /\ taken' = 0
    /\ pulse' = "tick"
    /\ sender' = FALSE
    /\ UNCHANGED <<reported, incremented, gaugeVars>>

(* Gauge.WithEnvelope reads the value, and toEnvelope reads it once more: the *)
(* second one is sent.                                                        *)
SendGauge ==
    /\ gaugeSent' = toFloat64(value)
    /\ UNCHANGED <<counterVars, value, pulse, sender>>

Pulse == OpenStream \/ TakeDelta \/ SendCounter \/ SendCounterErr \/ AddBack \/ SendGauge

(* The emitter on its own, in a program that does anything with its metrics. *)
EmitterNext ==
    \/ Pulse
    \/ \E n \in Nat : Increment(n) \/ SetGauge(n)

EmitterSpec == EmitterInit /\ [][EmitterNext]_emitterVars

(* The ticker ticks, calls return, and the agent does not fail for ever. *)
EmitterFairness ==
    /\ WF_emitterVars(OpenStream) /\ WF_emitterVars(TakeDelta) /\ WF_emitterVars(AddBack)
    /\ SF_emitterVars(SendCounter) /\ WF_emitterVars(SendCounter \/ SendCounterErr)
    /\ WF_emitterVars(SendGauge)

-----------------------------------------------------------------------------
(* Properties *)

EmitterTypeOK ==
    /\ delta \in Nat
    /\ taken \in Nat
    /\ value \in Nat
    /\ pulse \in {"tick", "send", "addback"}
    /\ sender \in BOOLEAN
    /\ reported \in Nat
    /\ incremented \in Nat
    /\ gaugeSent \in Nat

(* Whatever fails between the swap of the delta and the end of Send, and       *)
(* whatever is added in between: what the agent was told, what is being sent   *)
(* and what is still counted add up to all increments.                         *)
CounterConservation == reported + taken + delta = incremented
=============================================================================
