--------------------------- MODULE RLPEgressProofs ---------------------------
(***************************************************************************)
(* What holds of RLPEgress for every set of streams and every limit: the   *)
(* type invariant, the bound on admitted streams, the exact count of       *)
(* handlers, the conservation of envelopes, and the drained channel of a   *)
(* handler that returned.                                                  *)
(***************************************************************************)
EXTENDS RLPEgress, FiniteSetTheorems, TLAPS

(* A set with one more element is larger by one, and its cardinality is a     *)
(* natural number: how s.subscriptions and the set of handlers grow together. *)
LEMMA AddOne ==
    ASSUME NEW S, IsFiniteSet(S), NEW x, x \notin S
    PROVE  /\ IsFiniteSet(S \cup {x})
           /\ Cardinality(S) \in Nat
           /\ Cardinality(S \cup {x}) = Cardinality(S) + 1
BY FS_AddElement, FS_CardinalityType

(* And a set with one element less is smaller by one. *)
LEMMA RemoveOne ==
    ASSUME NEW S, IsFiniteSet(S), NEW x \in S
    PROVE  /\ Cardinality(S) \in Nat \ {0}
           /\ Cardinality(S \ {x}) = Cardinality(S) - 1
<1>1. IsFiniteSet(S \ {x}) BY FS_RemoveElement
<1>2. Cardinality(S \ {x}) \in Nat BY <1>1, FS_CardinalityType
<1>3. Cardinality(S \ {x}) = Cardinality(S) - 1 BY FS_RemoveElement
<1>4. Cardinality(S) \in Nat BY FS_CardinalityType
<1> QED BY <1>2, <1>3, <1>4

(* The handlers in progress, and those that pass, are finitely many. *)
LEMMA FiniteHandlers == IsFiniteSet(InHandler) /\ IsFiniteSet(Passing)
<1>1. InHandler \subseteq Streams /\ Passing \subseteq Streams BY DEF InHandler, Passing
<1> QED BY <1>1, FS_Subset, RLPEgressAssumption DEF RLPEgressAssumption

(* The initial state, before any client has called, satisfies the invariant. *)
LEMMA InitIndInv == Init => IndInv
<1> SUFFICES ASSUME Init PROVE IndInv OBVIOUS
<1> USE RLPEgressAssumption DEF RLPEgressAssumption
<1>1. 0 \in 0 .. BufferSize /\ 0 \in 0 .. BatchSize OBVIOUS
<1>2. TypeOK
  <2>1. /\ subscriptions \in Nat
        /\ subCount \in [Streams -> Nat]
        /\ buffer \in [Streams -> 0 .. BufferSize]
        /\ batch \in [Streams -> 0 .. BatchSize]
    BY <1>1 DEF Init
  <2>2. /\ received \in [Streams -> Nat]
        /\ dropped \in [Streams -> Nat]
        /\ sent \in [Streams -> Nat]
        /\ failed \in [Streams -> Nat]
    BY DEF Init
  <2>3. /\ serverDone \in BOOLEAN
        /\ ctx \in [Streams -> BOOLEAN]
        /\ closed \in [Streams -> BOOLEAN]
        /\ receiveError \in [Streams -> BOOLEAN]
        /\ senderError \in [Streams -> BOOLEAN]
    BY DEF Init
  <2>4. /\ method \in [Streams -> {"Receiver", "BatchedReceiver"}]
        /\ gpc \in [Streams -> {"none", "rx", "close", "exited"}]
        /\ hpc \in [Streams -> {"idle", "admit", "validate", "subscribe", "loop", "send",
                                "drain", "drainsend", "leave", "done"}]
    BY DEF Init
  <2> QED BY <2>1, <2>2, <2>3, <2>4 DEF TypeOK
<1>3. InHandler = {} /\ Passing = {} /\ Admitted = {}
  BY DEF Init, InHandler, Passing, Admitted
<1>4. AdmissionInv BY <1>3, FS_EmptySet DEF Init, AdmissionInv, SubscriptionsExact
<1>5. Conservation BY DEF Init, Conservation
<1>6. \A s \in Streams : StreamInv(s) BY DEF Init, StreamInv
<1> QED BY <1>2, <1>4, <1>5, <1>6 DEF IndInv

(* A step in which no call begins or returns leaves the counter and the sets  *)
(* of handlers alone, provided that it admits only a call that passes.        *)
LEMMA QuietAdmission ==
    ASSUME AdmissionInv, UNCHANGED admission, InHandler' = InHandler, Admitted' \subseteq Passing
    PROVE  AdmissionInv'
<1>1. Passing' = Passing BY DEF Passing, admission
<1> QED BY <1>1 DEF AdmissionInv, SubscriptionsExact, admission

(* Admit preserves the invariant. *)
LEMMA AdmitPreserves == ASSUME IndInv, NEW s \in Streams, Admit(s) PROVE IndInv'
<1> USE RLPEgressAssumption DEF RLPEgressAssumption, IndInv, Admit,
        Goto, Add, admission, channels, counts
<1>1. TypeOK' BY DEF TypeOK, StreamInv
<1>2. Conservation' BY DEF TypeOK, Conservation
<1>3. \A t \in Streams : StreamInv(t)'
  <2>1. received[s] = 0 /\ sent[s] = 0 /\ dropped[s] = 0 BY DEF StreamInv
  <2> QED BY <2>1 DEF TypeOK, StreamInv
<1>4. InHandler' = InHandler BY DEF TypeOK, InHandler
<1>5. Admitted' \subseteq Passing BY DEF TypeOK, AdmissionInv, Admitted, Passing, InHandler
<1>6. AdmissionInv' BY <1>4, <1>5, QuietAdmission
<1> QED BY <1>1, <1>2, <1>3, <1>6

(* Validate preserves the invariant. *)
LEMMA ValidatePreserves == ASSUME IndInv, NEW s \in Streams, Validate(s) PROVE IndInv'
<1> USE RLPEgressAssumption DEF RLPEgressAssumption, IndInv, Validate,
        Goto, Add, admission, channels, counts
<1>1. TypeOK' BY DEF TypeOK, StreamInv
<1>2. Conservation' BY DEF TypeOK, Conservation
<1>3. \A t \in Streams : StreamInv(t)'
  <2>1. received[s] = 0 /\ sent[s] = 0 /\ dropped[s] = 0 BY DEF StreamInv
  <2>2. PICK label \in {"subscribe", "leave"} : hpc' = [hpc EXCEPT ![s] = label] OBVIOUS
  <2>3. hpc[s] = "validate" OBVIOUS
  <2>4. UNCHANGED <<gpc, channels, batch, counts>> OBVIOUS
  <2> HIDE DEF Validate
  <2> QED BY <2>1, <2>2, <2>3, <2>4 DEF TypeOK, StreamInv
<1>4. InHandler' = InHandler BY DEF TypeOK, InHandler
<1>5. Admitted' \subseteq Passing BY DEF TypeOK, AdmissionInv, Admitted, Passing, InHandler
<1>6. AdmissionInv' BY <1>4, <1>5, QuietAdmission
<1> QED BY <1>1, <1>2, <1>3, <1>6

(* SubscribeErr preserves the invariant. *)
LEMMA SubscribeErrPreserves == ASSUME IndInv, NEW s \in Streams, SubscribeErr(s) PROVE IndInv'
<1> USE RLPEgressAssumption DEF RLPEgressAssumption, IndInv, SubscribeErr,
        Goto, Add, admission, channels, counts
<1>1. TypeOK' BY DEF TypeOK, StreamInv
<1>2. Conservation' BY DEF TypeOK, Conservation
<1>3. \A t \in Streams : StreamInv(t)'
  <2>1. received[s] = 0 /\ sent[s] = 0 /\ dropped[s] = 0 BY DEF StreamInv
  <2> QED BY <2>1 DEF TypeOK, StreamInv
<1>4. InHandler' = InHandler BY DEF TypeOK, InHandler
<1>5. Admitted' \subseteq Passing BY DEF TypeOK, AdmissionInv, Admitted, Passing, InHandler
<1>6. AdmissionInv' BY <1>4, <1>5, QuietAdmission
<1> QED BY <1>1, <1>2, <1>3, <1>6

(* SubscribeOk preserves the invariant. *)
LEMMA SubscribeOkPreserves == ASSUME IndInv, NEW s \in Streams, SubscribeOk(s) PROVE IndInv'
<1> USE RLPEgressAssumption DEF RLPEgressAssumption, IndInv, SubscribeOk,
        Goto, Add, admission, channels, counts
<1>1. TypeOK' BY DEF TypeOK, StreamInv
<1>2. Conservation' BY DEF TypeOK, Conservation
<1>3. \A t \in Streams : StreamInv(t)' BY DEF TypeOK, Conservation, StreamInv
<1>4. InHandler' = InHandler BY DEF TypeOK, InHandler
<1>5. Admitted' \subseteq Passing BY DEF TypeOK, AdmissionInv, Admitted, Passing, InHandler
<1>6. AdmissionInv' BY <1>4, <1>5, QuietAdmission
<1> QED BY <1>1, <1>2, <1>3, <1>6

(* ClientLeaves preserves the invariant. *)
LEMMA ClientLeavesPreserves == ASSUME IndInv, NEW s \in Streams, ClientLeaves(s) PROVE IndInv'
<1> USE RLPEgressAssumption DEF RLPEgressAssumption, IndInv, ClientLeaves,
        Goto, Add, admission, channels, counts
<1>1. TypeOK' BY DEF TypeOK, StreamInv
<1>2. Conservation' BY DEF TypeOK, Conservation
<1>3. \A t \in Streams : StreamInv(t)' BY DEF TypeOK, Conservation, StreamInv
<1>4. InHandler' = InHandler BY DEF TypeOK, InHandler
<1>5. Admitted' \subseteq Passing BY DEF TypeOK, AdmissionInv, Admitted, Passing, InHandler
<1>6. AdmissionInv' BY <1>4, <1>5, QuietAdmission
<1> QED BY <1>1, <1>2, <1>3, <1>6

(* WatchServer preserves the invariant. *)
LEMMA WatchServerPreserves == ASSUME IndInv, NEW s \in Streams, WatchServer(s) PROVE IndInv'
<1> USE RLPEgressAssumption DEF RLPEgressAssumption, IndInv, WatchServer,
        Goto, Add, admission, channels, counts
<1>1. TypeOK' BY DEF TypeOK, StreamInv
<1>2. Conservation' BY DEF TypeOK, Conservation
<1>3. \A t \in Streams : StreamInv(t)' BY DEF TypeOK, Conservation, StreamInv
<1>4. InHandler' = InHandler BY DEF TypeOK, InHandler
<1>5. Admitted' \subseteq Passing BY DEF TypeOK, AdmissionInv, Admitted, Passing, InHandler
<1>6. AdmissionInv' BY <1>4, <1>5, QuietAdmission
<1> QED BY <1>1, <1>2, <1>3, <1>6

(* Forward preserves the invariant. *)
LEMMA ForwardPreserves == ASSUME IndInv, NEW s \in Streams, Forward(s) PROVE IndInv'
<1> USE RLPEgressAssumption DEF RLPEgressAssumption, IndInv, Forward,
        Goto, Add, admission, channels, counts
<1>1. TypeOK' BY DEF TypeOK, StreamInv
<1>2. Conservation' BY DEF TypeOK, Conservation
<1>3. \A t \in Streams : StreamInv(t)' BY DEF TypeOK, Conservation, StreamInv
<1>4. InHandler' = InHandler BY DEF TypeOK, InHandler
<1>5. Admitted' \subseteq Passing BY DEF TypeOK, AdmissionInv, Admitted, Passing, InHandler
<1>6. AdmissionInv' BY <1>4, <1>5, QuietAdmission
<1> QED BY <1>1, <1>2, <1>3, <1>6

(* RxErr preserves the invariant. *)
LEMMA RxErrPreserves == ASSUME IndInv, NEW s \in Streams, RxErr(s) PROVE IndInv'
<1> USE RLPEgressAssumption DEF RLPEgressAssumption, IndInv, RxErr,
        Goto, Add, admission, channels, counts, Batched
<1>1. TypeOK' BY DEF TypeOK, StreamInv
<1>2. Conservation' BY DEF TypeOK, Conservation
<1>3. \A t \in Streams : StreamInv(t)' BY DEF TypeOK, Conservation, StreamInv
<1>4. InHandler' = InHandler BY DEF TypeOK, InHandler
<1>5. Admitted' \subseteq Passing BY DEF TypeOK, AdmissionInv, Admitted, Passing, InHandler
<1>6. AdmissionInv' BY <1>4, <1>5, QuietAdmission
<1> QED BY <1>1, <1>2, <1>3, <1>6

(* CloseBuffer preserves the invariant. *)
LEMMA CloseBufferPreserves == ASSUME IndInv, NEW s \in Streams, CloseBuffer(s) PROVE IndInv'
<1> USE RLPEgressAssumption DEF RLPEgressAssumption, IndInv, CloseBuffer,
        Goto, Add, admission, channels, counts
<1>1. TypeOK' BY DEF TypeOK, StreamInv
<1>2. Conservation' BY DEF TypeOK, Conservation
<1>3. \A t \in Streams : StreamInv(t)' BY DEF TypeOK, Conservation, StreamInv
<1>4. InHandler' = InHandler BY DEF TypeOK, InHandler
<1>5. Admitted' \subseteq Passing BY DEF TypeOK, AdmissionInv, Admitted, Passing, InHandler
<1>6. AdmissionInv' BY <1>4, <1>5, QuietAdmission
<1> QED BY <1>1, <1>2, <1>3, <1>6

(* Take preserves the invariant. *)
LEMMA TakePreserves == ASSUME IndInv, NEW s \in Streams, Take(s) PROVE IndInv'
<1> USE RLPEgressAssumption DEF RLPEgressAssumption, IndInv, Take,
        Goto, Add, admission, channels, counts, Sending, Batched
<1>1. TypeOK' BY DEF TypeOK, StreamInv
<1>2. Conservation'
  <2> SUFFICES ASSUME NEW t \in Streams
               PROVE  received'[t] = sent'[t] + failed'[t] + dropped'[t] + buffer'[t] + batch'[t]
    BY DEF Conservation
  <2>1. received[t] = sent[t] + failed[t] + dropped[t] + buffer[t] + batch[t] BY DEF Conservation
  <2>2. CASE t # s BY <2>1, <2>2 DEF TypeOK
  <2>3. CASE t = s
    <3>1. buffer'[t] = buffer[t] - 1 /\ batch'[t] = batch[t] + 1 BY <2>3 DEF TypeOK
    <3>2. sent[t] + failed[t] + dropped[t] \in Nat BY DEF TypeOK
    <3>3. buffer[t] \in Nat /\ batch[t] \in Nat BY DEF TypeOK
    <3> QED BY <2>1, <3>1, <3>2, <3>3
  <2> QED BY <2>2, <2>3
<1>3. \A t \in Streams : StreamInv(t)' BY DEF TypeOK, Conservation, StreamInv
<1>4. InHandler' = InHandler BY DEF TypeOK, InHandler
<1>5. Admitted' \subseteq Passing BY DEF TypeOK, AdmissionInv, Admitted, Passing, InHandler
<1>6. AdmissionInv' BY <1>4, <1>5, QuietAdmission
<1> QED BY <1>1, <1>2, <1>3, <1>6

(* TimerFlush preserves the invariant. *)
LEMMA TimerFlushPreserves == ASSUME IndInv, NEW s \in Streams, TimerFlush(s) PROVE IndInv'
<1> USE RLPEgressAssumption DEF RLPEgressAssumption, IndInv, TimerFlush,
        Goto, Add, admission, channels, counts, Batched
<1>1. TypeOK' BY DEF TypeOK, StreamInv
<1>2. Conservation' BY DEF TypeOK, Conservation
<1>3. \A t \in Streams : StreamInv(t)' BY DEF TypeOK, Conservation, StreamInv
<1>4. InHandler' = InHandler BY DEF TypeOK, InHandler
<1>5. Admitted' \subseteq Passing BY DEF TypeOK, AdmissionInv, Admitted, Passing, InHandler
<1>6. AdmissionInv' BY <1>4, <1>5, QuietAdmission
<1> QED BY <1>1, <1>2, <1>3, <1>6

(* SeeReceiveError preserves the invariant. *)
LEMMA SeeReceiveErrorPreserves == ASSUME IndInv, NEW s \in Streams, SeeReceiveError(s) PROVE IndInv'
<1> USE RLPEgressAssumption DEF RLPEgressAssumption, IndInv, SeeReceiveError,
        Goto, Add, admission, channels, counts
<1>1. TypeOK' BY DEF TypeOK, StreamInv
<1>2. Conservation' BY DEF TypeOK, Conservation
<1>3. \A t \in Streams : StreamInv(t)' BY DEF TypeOK, Conservation, StreamInv
<1>4. InHandler' = InHandler BY DEF TypeOK, InHandler
<1>5. Admitted' \subseteq Passing BY DEF TypeOK, AdmissionInv, Admitted, Passing, InHandler
<1>6. AdmissionInv' BY <1>4, <1>5, QuietAdmission
<1> QED BY <1>1, <1>2, <1>3, <1>6

(* SeeSenderError preserves the invariant. *)
LEMMA SeeSenderErrorPreserves == ASSUME IndInv, NEW s \in Streams, SeeSenderError(s) PROVE IndInv'
<1> USE RLPEgressAssumption DEF RLPEgressAssumption, IndInv, SeeSenderError,
        Goto, Add, admission, channels, counts
<1>1. TypeOK' BY DEF TypeOK, StreamInv
<1>2. Conservation' BY DEF TypeOK, Conservation
<1>3. \A t \in Streams : StreamInv(t)' BY DEF TypeOK, Conservation, StreamInv
<1>4. InHandler' = InHandler BY DEF TypeOK, InHandler
<1>5. Admitted' \subseteq Passing BY DEF TypeOK, AdmissionInv, Admitted, Passing, InHandler
<1>6. AdmissionInv' BY <1>4, <1>5, QuietAdmission
<1> QED BY <1>1, <1>2, <1>3, <1>6

(* ChannelEnds preserves the invariant. *)
LEMMA ChannelEndsPreserves == ASSUME IndInv, NEW s \in Streams, ChannelEnds(s) PROVE IndInv'
<1> USE RLPEgressAssumption DEF RLPEgressAssumption, IndInv, ChannelEnds,
        Goto, Add, admission, channels, counts, Batched
<1>1. TypeOK' BY DEF TypeOK, StreamInv
<1>2. Conservation' BY DEF TypeOK, Conservation
<1>3. \A t \in Streams : StreamInv(t)' BY DEF TypeOK, Conservation, StreamInv
<1>4. InHandler' = InHandler BY DEF TypeOK, InHandler
<1>5. Admitted' \subseteq Passing BY DEF TypeOK, AdmissionInv, Admitted, Passing, InHandler
<1>6. AdmissionInv' BY <1>4, <1>5, QuietAdmission
<1> QED BY <1>1, <1>2, <1>3, <1>6

(* SendOk preserves the invariant. *)
LEMMA SendOkPreserves == ASSUME IndInv, NEW s \in Streams, SendOk(s) PROVE IndInv'
<1> USE RLPEgressAssumption DEF RLPEgressAssumption, IndInv, SendOk,
        Goto, Add, admission, channels, counts, Resume
<1>1. TypeOK' BY DEF TypeOK, StreamInv
<1>2. Conservation' BY DEF TypeOK, Conservation
<1>3. \A t \in Streams : StreamInv(t)' BY DEF TypeOK, Conservation, StreamInv
<1>4. InHandler' = InHandler BY DEF TypeOK, InHandler
<1>5. Admitted' \subseteq Passing BY DEF TypeOK, AdmissionInv, Admitted, Passing, InHandler
<1>6. AdmissionInv' BY <1>4, <1>5, QuietAdmission
<1> QED BY <1>1, <1>2, <1>3, <1>6

(* SendErr preserves the invariant. *)
LEMMA SendErrPreserves == ASSUME IndInv, NEW s \in Streams, SendErr(s) PROVE IndInv'
<1> USE RLPEgressAssumption DEF RLPEgressAssumption, IndInv, SendErr,
        Goto, Add, admission, channels, counts, Resume, Batched
<1>1. TypeOK' BY DEF TypeOK, StreamInv
<1>2. Conservation' BY DEF TypeOK, Conservation
<1>3. \A t \in Streams : StreamInv(t)' BY DEF TypeOK, Conservation, StreamInv
<1>4. InHandler' = InHandler BY DEF TypeOK, InHandler
<1>5. Admitted' \subseteq Passing BY DEF TypeOK, AdmissionInv, Admitted, Passing, InHandler
<1>6. AdmissionInv' BY <1>4, <1>5, QuietAdmission
<1> QED BY <1>1, <1>2, <1>3, <1>6

(* Stop preserves the invariant. *)
LEMMA StopPreserves == ASSUME IndInv, Stop PROVE IndInv'
<1> USE DEF Stop, admission, channels, counts
<1>1. TypeOK' BY DEF IndInv, TypeOK
<1>2. Conservation' BY DEF IndInv, Conservation
<1>3. \A t \in Streams : StreamInv(t)' BY DEF IndInv, StreamInv
<1>4. InHandler' = InHandler /\ Admitted' = Admitted BY DEF InHandler, Admitted
<1>5. AdmissionInv' BY <1>4, QuietAdmission DEF IndInv, AdmissionInv
<1> QED BY <1>1, <1>2, <1>3, <1>5 DEF IndInv

(* CountStream preserves the invariant.  A call that gets a subCount within   *)
(* the limit finds at most that many handlers in progress, so the passing     *)
(* ones, which are among them, are within the limit too.                      *)
LEMMA CountStreamPreserves == ASSUME IndInv, NEW s \in Streams, CountStream(s) PROVE IndInv'
<1> USE RLPEgressAssumption DEF RLPEgressAssumption, CountStream, Goto, channels, counts
<1>1. TypeOK' BY DEF IndInv, TypeOK
<1>2. Conservation' BY DEF IndInv, Conservation
<1>3. \A t \in Streams : StreamInv(t)' BY DEF IndInv, TypeOK, StreamInv
<1>4. InHandler' = InHandler \cup {s} /\ s \notin InHandler
  BY DEF IndInv, TypeOK, InHandler
<1>5. subscriptions = Cardinality(InHandler)
  BY DEF IndInv, AdmissionInv, SubscriptionsExact
<1>6. Cardinality(InHandler') = subscriptions' /\ IsFiniteSet(InHandler')
  BY <1>4, <1>5, AddOne, FiniteHandlers
<1>7. Cardinality(Passing') <= MaxStreams
  <2>1. CASE subscriptions' <= MaxStreams
    <3>1. Passing' \subseteq InHandler' BY DEF Passing
    <3>2. Cardinality(Passing') <= Cardinality(InHandler') /\ Cardinality(Passing') \in Nat
      BY <1>6, <3>1, FS_Subset, FS_CardinalityType
    <3> QED BY <1>1, <1>6, <2>1, <3>2 DEF TypeOK
  <2>2. CASE ~(subscriptions' <= MaxStreams)
    <3>1. Passing' = Passing BY <1>4, <2>2 DEF IndInv, TypeOK, Passing
    <3> QED BY <3>1 DEF IndInv, AdmissionInv
  <2> QED BY <2>1, <2>2
<1>8. Admitted' \subseteq Passing'
  <2>1. Admitted' = Admitted BY DEF IndInv, TypeOK, Admitted
  <2>2. Admitted \subseteq Passing /\ s \notin Passing BY <1>4 DEF IndInv, AdmissionInv, Passing
  <2>3. Passing \subseteq Passing' BY <1>4, <2>2 DEF IndInv, TypeOK, Passing
  <2> QED BY <2>1, <2>2, <2>3
<1>9. AdmissionInv' BY <1>6, <1>7, <1>8 DEF AdmissionInv, SubscriptionsExact
<1> QED BY <1>1, <1>2, <1>3, <1>9 DEF IndInv

(* Leave preserves the invariant: the counter stays natural because the       *)
(* handler that leaves is counted.                                            *)
LEMMA LeavePreserves == ASSUME IndInv, NEW s \in Streams, Leave(s) PROVE IndInv'
<1> USE RLPEgressAssumption DEF RLPEgressAssumption, Leave, Goto, channels, counts
<1>1. InHandler' = InHandler \ {s} /\ s \in InHandler
  BY DEF IndInv, TypeOK, InHandler
<1>2. subscriptions = Cardinality(InHandler)
  BY DEF IndInv, AdmissionInv, SubscriptionsExact
<1>3. Cardinality(InHandler') = subscriptions' /\ subscriptions' \in Nat
  BY <1>1, <1>2, RemoveOne, FiniteHandlers
<1>4. TypeOK' BY <1>3 DEF IndInv, TypeOK
<1>5. Conservation' BY DEF IndInv, Conservation
<1>6. \A t \in Streams : StreamInv(t)' BY DEF IndInv, TypeOK, StreamInv
<1>7. Passing' \subseteq Passing BY <1>1 DEF Passing
<1>8. Cardinality(Passing') <= MaxStreams
  <2>1. Cardinality(Passing') <= Cardinality(Passing) /\ Cardinality(Passing') \in Nat
    BY <1>7, FiniteHandlers, FS_Subset, FS_CardinalityType
  <2>2. Cardinality(Passing) \in Nat BY FiniteHandlers, FS_CardinalityType
  <2> QED BY <2>1, <2>2 DEF IndInv, AdmissionInv
<1>9. Admitted' \subseteq Passing'
  <2>1. Admitted' = Admitted BY DEF IndInv, TypeOK, Admitted
  <2>2. s \notin Admitted BY DEF Admitted
  <2>3. Passing' = Passing \ {s} BY <1>1 DEF Passing
  <2> QED BY <2>1, <2>2, <2>3 DEF IndInv, AdmissionInv
<1>10. AdmissionInv' BY <1>3, <1>8, <1>9 DEF AdmissionInv, SubscriptionsExact
<1> QED BY <1>4, <1>5, <1>6, <1>10 DEF IndInv

(* A step that changes nothing preserves the invariant. *)
LEMMA StutterPreserves == ASSUME IndInv, UNCHANGED vars PROVE IndInv'
<1> USE DEF vars, admission, channels, counts
<1>1. TypeOK' BY DEF IndInv, TypeOK
<1>2. Conservation' BY DEF IndInv, Conservation
<1>3. \A t \in Streams : StreamInv(t)' BY DEF IndInv, StreamInv
<1>4. InHandler' = InHandler /\ Admitted' = Admitted BY DEF InHandler, Admitted
<1>5. AdmissionInv' BY <1>4, QuietAdmission DEF IndInv, AdmissionInv
<1> QED BY <1>1, <1>2, <1>3, <1>5 DEF IndInv

(* Every behaviour of the server satisfies the inductive invariant. *)
THEOREM Invariance == Spec => []IndInv
<1>1. ASSUME IndInv, [Next]_vars PROVE IndInv'
  <2>1. ASSUME NEW s \in Streams,
               \/ CountStream(s) \/ Handler(s) \/ ClientLeaves(s) \/ WatchServer(s)
               \/ Forward(s) \/ RxErr(s) \/ CloseBuffer(s)
        PROVE  IndInv'
    BY <1>1, <2>1, CountStreamPreserves, LeavePreserves,
       AdmitPreserves, ValidatePreserves, SubscribeErrPreserves, SubscribeOkPreserves,
       ClientLeavesPreserves, WatchServerPreserves, ForwardPreserves, RxErrPreserves,
       CloseBufferPreserves, TakePreserves, TimerFlushPreserves, SeeReceiveErrorPreserves,
       SeeSenderErrorPreserves, ChannelEndsPreserves, SendOkPreserves, SendErrPreserves
       DEF Handler, Opening, Send
  <2> QED BY <1>1, <2>1, StopPreserves, StutterPreserves DEF Next
<1> QED BY <1>1, InitIndInv, PTL DEF Spec

(* The variables of the server keep their types; in particular no batch       *)
(* outgrows batchSize and s.subscriptions is never negative.                  *)
THEOREM TypeCorrect == Spec => []TypeOK
<1>1. IndInv => TypeOK BY DEF IndInv
<1> QED BY <1>1, Invariance, PTL

(* s.subscriptions is the number of handlers in progress. *)
THEOREM SubscriptionsExactHolds == Spec => []SubscriptionsExact
<1>1. IndInv => SubscriptionsExact BY DEF IndInv, AdmissionInv
<1> QED BY <1>1, Invariance, PTL

(* However many clients call at the same time, no more than maxStreams are    *)
(* served.                                                                    *)
THEOREM AdmittedBoundHolds == Spec => []AdmittedBound
<1>1. ASSUME IndInv PROVE AdmittedBound
  <2>1. Cardinality(Admitted) <= Cardinality(Passing)
    BY <1>1, FiniteHandlers, FS_Subset DEF IndInv, AdmissionInv
  <2>2. Cardinality(Passing) \in Nat /\ Cardinality(Admitted) \in Nat
    BY <1>1, FiniteHandlers, FS_Subset, FS_CardinalityType DEF IndInv, AdmissionInv
  <2> QED BY <1>1, <2>1, <2>2, RLPEgressAssumption
          DEF AdmittedBound, IndInv, AdmissionInv, RLPEgressAssumption
<1> QED BY <1>1, Invariance, PTL

(* No envelope of a subscription disappears uncounted. *)
THEOREM ConservationHolds == Spec => []Conservation
<1>1. IndInv => Conservation BY DEF IndInv
<1> QED BY <1>1, Invariance, PTL

(* A handler that returned without a failed Send has sent all that reached    *)
(* its channel.                                                               *)
THEOREM DrainedOnReturnHolds == Spec => []DrainedOnReturn
<1>1. ASSUME IndInv PROVE DrainedOnReturn
  BY <1>1 DEF IndInv, TypeOK, StreamInv, DrainedOnReturn
<1> QED BY <1>1, Invariance, PTL
=============================================================================
