------------------------ MODULE OrderSubmissionProofs ------------------------
(***************************************************************************)
(* Proofs about OrderSubmission, for every set of orders, every quantity   *)
(* and every bound: the two inductive invariants and what follows from     *)
(* them.  Each helper of the specification has a lemma that says what it   *)
(* does to the types; a step of the proof of TypeOK cites those lemmas and *)
(* expands only the action.                                                *)
(***************************************************************************)
EXTENDS OrderSubmission, TLAPS

-----------------------------------------------------------------------------
(* What the helpers do to the types *)

\* A group of variables that a step leaves alone keeps its type.
LEMMA Frame ==
  /\ OrderTyped /\ UNCHANGED order => OrderTyped'
  /\ LedgerTyped /\ UNCHANGED ledger => LedgerTyped'
  /\ OwnersTyped /\ UNCHANGED owners => OwnersTyped'
  /\ CountersTyped /\ UNCHANGED counters => CountersTyped'
  /\ SessionsTyped /\ UNCHANGED sessions => SessionsTyped'
  /\ LoopTyped /\ UNCHANGED loop => LoopTyped'
  /\ CancelTyped /\ UNCHANGED apiCancel => CancelTyped'
  /\ ExchangeTyped /\ UNCHANGED exchange => ExchangeTyped'
  /\ BoundsTyped /\ UNCHANGED bounds => BoundsTyped'
  BY DEF OrderTyped, LedgerTyped, OwnersTyped, CountersTyped, SessionsTyped,
         LoopTyped, CancelTyped, ExchangeTyped, BoundsTyped, order, ledger,
         owners, counters, sessions, loop, exchange, bounds

\* The idle loop is in no call of the broker.
LEMMA IdleType == Idle \in Calls
  BY QtyAssumption DEF Idle, Calls, CallKinds, Stages, VenueState

\* A call that a sweep starts is a call.
LEMMA NewCallType ==
  ASSUME NEW k \in CallKinds, NEW o \in Orders, NEW a \in Stages, NEW n \in Nat
  PROVE  /\ [Idle EXCEPT !.kind = k, !.order = o, !.at = a] \in Calls
         /\ [Idle EXCEPT !.kind = k, !.order = o, !.at = a, !.base = n]
              \in Calls
  BY IdleType DEF Calls

\* The loop leaves a call and stays in its sweep (EndCall).
LEMMA EndCallTyped == LoopTyped /\ EndCall => LoopTyped'
  BY IdleType DEF LoopTyped, EndCall

\* An exception ends the tick (AbortTick).
LEMMA AbortTyped == AbortTick => LoopTyped'
  BY IdleType DEF LoopTyped, AbortTick, Phases

\* The loop moves on inside its call (Advance).
LEMMA AdvanceTyped ==
  ASSUME LoopTyped, NEW a \in Stages, Advance(a)
  PROVE  LoopTyped'
<1>1. [call EXCEPT !.at = a] \in Calls
  BY DEF LoopTyped, Calls
<1>2. QED
  BY <1>1 DEF LoopTyped, Advance

\* An answer of the venue fits the call (ReadVenue).
LEMMA ReadTyped ==
  ASSUME LoopTyped, ExchangeTyped, NEW o \in Orders, NEW a \in Stages,
         ReadVenue(o, a)
  PROVE  LoopTyped'
<1>1. venue[o].filled \in 0 .. Qty /\ venue[o].st \in VenueState
  BY DEF ExchangeTyped, VenueOrder
<1>2. [call EXCEPT !.at = a, !.cum = venue[o].filled, !.vst = venue[o].st]
        \in Calls
  BY <1>1 DEF LoopTyped, Calls
<1>3. QED
  BY <1>2 DEF LoopTyped, ReadVenue

\* A sweep takes the next order of its list, with or without a call (Take).
LEMMA TakeTyped ==
  ASSUME LoopTyped, NEW p, NEW o \in Orders, Take(p, o),
         UNCHANGED <<phase, winding>>, call' = call \/ call' \in Calls
  PROVE  LoopTyped'
  BY DEF LoopTyped, Take

\* transition_order keeps the status in range (TransitionOrder).
LEMMA MoveTyped ==
  ASSUME OrderTyped, NEW o \in Orders, NEW s \in OrderStatus,
         TransitionOrder(o, s), UNCHANGED bid
  PROVE  OrderTyped'
  BY DEF OrderTyped, TransitionOrder

\* The adoption of a broker id keeps the order in range (AdoptBrokerId).
LEMMA AdoptTyped ==
  ASSUME OrderTyped, NEW o \in Orders, AdoptBrokerId(o)
  PROVE  OrderTyped'
  BY DEF OrderTyped, AdoptBrokerId, OrderStatus, OpenStatuses, order

\* The statuses, listed.
LEMMA Names ==
  /\ OrderStatus = {"CREATED", "SUBMITTING", "TIMEOUT_QUARANTINE", "SUBMITTED",
                    "PARTIALLY_FILLED", "CANCEL_PENDING", "FILLED", "CANCELED",
                    "REJECTED"}
  /\ RecoveryStatus = {"none", "unresolved", "needs_review",
                       "resolved_canceled", "operator_reconciled"}
  BY DEF OrderStatus, OpenStatuses, TerminalStatuses, RecoveryStatus,
         RecoveryOpenStatuses

\* A failing write stays within its bound (StoreFails).
LEMMA FaultTyped == BoundsTyped /\ StoreFails => BoundsTyped'
  BY BoundsAssumption DEF BoundsTyped, StoreFails

\* A session command stays within its bound (Command).
LEMMA CommandTyped == BoundsTyped /\ Command => BoundsTyped'
  BY BoundsAssumption DEF BoundsTyped, Command

\* A stop of the process stays within its bound and idles the loop (Stop).
LEMMA StopTyped ==
  BoundsTyped /\ Stop => BoundsTyped' /\ LoopTyped' /\ CancelTyped'
<1> SUFFICES ASSUME BoundsTyped, Stop
             PROVE  BoundsTyped' /\ LoopTyped' /\ CancelTyped'
  OBVIOUS
<1>1. BoundsTyped'
  BY BoundsAssumption DEF BoundsTyped, Stop
<1>2. LoopTyped'
  BY AbortTyped DEF Stop
<1>3. CancelTyped'
  BY DEF Stop, CancelTyped, CancelStages
<1>4. QED
  BY <1>1, <1>2, <1>3

\* A change of the venue's state of an order (SetVenue).
LEMMA VenueTyped ==
  ASSUME ExchangeTyped, NEW o \in Orders, NEW st \in VenueState
  PROVE  [venue EXCEPT ![o].st = st] \in [Orders -> VenueOrder]
  BY DEF ExchangeTyped, VenueOrder

\* A request or a cancel that reaches the venue (Land, LandCancel).
LEMMA LandTyped ==
  ASSUME ExchangeTyped, NEW o \in Orders, Land(o) \/ LandCancel(o)
  PROVE  venue' \in [Orders -> VenueOrder]
<1>1. "live" \in VenueState /\ "cancelling" \in VenueState
  BY DEF VenueState, VenueLive
<1>2. venue \in [Orders -> VenueOrder]
  BY DEF ExchangeTyped
<1>3. QED
  BY <1>1, <1>2, VenueTyped DEF Land, LandCancel

\* An execution at the venue: a live order has shares left (VenueFills).
LEMMA FillTyped ==
  ASSUME ExchangeTyped, VenueSound, NEW o \in Orders, VenueFills(o)
  PROVE  ExchangeTyped'
<1> DEFINE r ==
      [st |-> IF venue[o].filled + 1 = Qty THEN "filled" ELSE venue[o].st,
       filled |-> venue[o].filled + 1]
<1>1. /\ venue[o].filled \in 0 .. Qty
      /\ venue[o].filled # Qty
      /\ venue[o].st \in VenueState
  BY DEF ExchangeTyped, VenueOrder, VenueSound, VenueFills, VenueLive
<1>2. r \in VenueOrder
  BY <1>1, QtyAssumption DEF VenueOrder, VenueState, VenueTerminal
<1>3. venue' = [venue EXCEPT ![o] = r] /\ late' = late
  BY DEF VenueFills
<1>4. QED
  BY <1>2, <1>3 DEF ExchangeTyped

\* A request given up may be added to the late ones (GiveUp).
LEMMA GiveUpTyped ==
  ASSUME ExchangeTyped, NEW o \in Orders, GiveUp(o), UNCHANGED venue
  PROVE  ExchangeTyped'
  BY DEF ExchangeTyped, GiveUp

\* The escalation to a blank-id review record (EscalateStaleSubmitting).
LEMMA EscalateTyped ==
  ASSUME OwnersTyped, BoundsTyped, NEW o \in Orders,
         EscalateStaleSubmitting(o), UNCHANGED <<recovery, seed, uncertain>>
  PROVE  OwnersTyped' /\ BoundsTyped'
<1>1. OwnersTyped'
  BY DEF OwnersTyped, EscalateStaleSubmitting
<1>2. BoundsTyped'
  BY Frame, FaultTyped DEF EscalateStaleSubmitting
<1>3. QED
  BY <1>1, <1>2

\* A sweep lists orders (Listed, NextPhase).
LEMMA EnterTyped ==
  ASSUME TypeOK, EnterPhase
  PROVE  LoopTyped'
<1>1. phase' \in Phases
  BY DEF EnterPhase, NextPhase, Phases, TypeOK, LoopTyped
<1>2. Listed(phase') \subseteq Orders
  BY <1>1 DEF Listed, Phases, TypeOK, OwnersTyped
<1>3. todo' \subseteq Orders /\ winding' \subseteq Orders
  BY <1>2 DEF EnterPhase
<1>4. QED
  BY <1>1, <1>3 DEF EnterPhase, TypeOK, LoopTyped

\* The operator's attested fill (ingest_submit_recovery_fill).
LEMMA IngestTyped ==
  ASSUME LedgerTyped, ExchangeTyped, NEW o \in Orders,
         IngestSubmitRecoveryFill(o)
  PROVE  LedgerTyped'
<1>1. PICK level \in Levels :
       /\ recorded[o] < level
       /\ fills' = [fills EXCEPT ![o][level] = level - recorded[o]]
       /\ recorded' = [recorded EXCEPT ![o] = level]
  BY DEF IngestSubmitRecoveryFill
<1>2. level - recorded[o] \in 0 .. Qty /\ level \in Nat
  BY <1>1, QtyAssumption DEF Levels, LedgerTyped
<1>3. QED
  BY <1>1, <1>2 DEF LedgerTyped

\* The poll's answer (_apply_update).
LEMMA ApplyTyped ==
  ASSUME TypeOK, NEW o \in Orders, ApplyUpdate(o)
  PROVE  TypeOK'
<1>1. PICK priced, conflict : BookFill(o, FillDelta(priced), conflict)
  BY DEF ApplyUpdate
<1> DEFINE delta == FillDelta(priced)
<1>2. /\ call.cum \in 0 .. Qty
      /\ call.base \in Nat
      /\ fills \in [Orders -> [Levels -> 0 .. Qty]]
      /\ recorded \in [Orders -> Nat]
  BY DEF TypeOK, LoopTyped, LedgerTyped, Calls
<1>3. delta \in 0 .. Qty /\ (delta > 0 => call.cum \in Levels)
  BY <1>2, QtyAssumption DEF FillDelta, Levels
<1>4. LedgerTyped'
  <2>1. Booked(o, delta) \in Nat
    BY <1>2, <1>3 DEF Booked
  <2>2. recorded' \in [Orders -> Nat]
    BY <1>1, <1>2, <2>1 DEF BookFill
  <2> DEFINE row == [fills[o] EXCEPT ![call.cum] = delta]
  <2>3. fills' = fills \/ (delta > 0 /\ fills' = [fills EXCEPT ![o] = row])
    BY <1>1 DEF BookFill, AppendsFill
  <2>4. row \in [Levels -> 0 .. Qty]
    BY <1>2, <1>3
  <2>5. fills' \in [Orders -> [Levels -> 0 .. Qty]]
    <3> HIDE DEF delta, row
    <3>1. QED
      BY <1>2, <2>3, <2>4
  <2>6. QED
    BY <2>2, <2>5 DEF LedgerTyped
<1>5. OrderTyped'
  <2>1. \E s \in OrderStatus : TransitionOrder(o, s)
    <3>1. \A n : /\ DivergenceSafeStatus(o, n) \in OrderStatus
                 /\ ReconciledStatus(o, n) \in OrderStatus
      BY Names DEF DivergenceSafeStatus, ReconciledStatus
    <3>2. QED
      BY <1>1, <3>1 DEF BookFill
  <2>2. QED
    BY <2>1, MoveTyped DEF ApplyUpdate, TypeOK
<1>6. OwnersTyped' /\ BoundsTyped'
  <2>1. EscalateFillDivergence(o) \/ UNCHANGED <<recovery, bounds>>
    BY <1>1 DEF BookFill
  <2>2. OwnersTyped'
    BY <2>1, Names DEF ApplyUpdate, EscalateFillDivergence, OwnersTyped, TypeOK
  <2>3. BoundsTyped'
    BY <2>1, Frame, FaultTyped DEF EscalateFillDivergence, TypeOK
  <2>4. QED
    BY <2>2, <2>3
<1>7. QED
  BY <1>4, <1>5, <1>6, Frame, EndCallTyped DEF ApplyUpdate, TypeOK

-----------------------------------------------------------------------------
(* Type correctness *)

\* Every step keeps the types.  The other parts are needed twice: a live order
\* at the venue has shares left to fill, and the order of a call is an order.
LEMMA TypeKept ==
  ASSUME TypeOK, SubmissionParts, [Next]_vars
  PROVE  TypeOK'
<1>1. CASE UNCHANGED vars
  BY <1>1, Frame DEF vars, TypeOK
<1>2. CASE EnterPhase
  BY <1>2, EnterTyped, Frame DEF EnterPhase, TypeOK
<1>3. CASE RepairStep
  <2>1. CASE RepairAbort
    BY <2>1, Frame, AbortTyped, FaultTyped DEF RepairAbort, TypeOK
  <2>2. ASSUME NEW o \in Orders, RepairAdopt(o) PROVE TypeOK'
    BY <2>2, Frame, TakeTyped, AdoptTyped
       DEF RepairAdopt, OrderTyped, OwnersTyped, TypeOK
  <2>3. ASSUME NEW o \in Orders, RepairRecover(o) PROVE TypeOK'
    BY <2>3, Frame, TakeTyped, FaultTyped, Names
       DEF RepairRecover, OwnersTyped, TypeOK
  <2>4. QED
    BY <1>3, <2>1, <2>2, <2>3 DEF RepairStep
<1>4. CASE SubmitStep
  <2>1. ASSUME NEW o \in Orders, ClaimOrderForSubmission(o) PROVE TypeOK'
    <3>1. call' \in Calls
      BY <2>1, NewCallType DEF ClaimOrderForSubmission, CallKinds, Stages
    <3>2. LoopTyped'
      BY <2>1, <3>1, TakeTyped DEF ClaimOrderForSubmission, TypeOK
    <3>3. OrderTyped'
      BY <2>1, Names DEF ClaimOrderForSubmission, TypeOK, OrderTyped
    <3>4. QED
      BY <2>1, <3>2, <3>3, Frame DEF ClaimOrderForSubmission, TypeOK
  <2>2. ASSUME NEW o \in Orders, ClaimSkipped(o) PROVE TypeOK'
    BY <2>2, Frame, TakeTyped DEF ClaimSkipped, TypeOK
  <2>3. ASSUME NEW o \in Orders, SendSubmit(o) PROVE TypeOK'
    BY <2>3, Frame, AdvanceTyped DEF SendSubmit, Stages, TypeOK
  <2>4. ASSUME NEW o \in Orders, ReleaseUnpriceable(o) PROVE TypeOK'
    BY <2>4, Frame, EndCallTyped, MoveTyped, Names
       DEF ReleaseUnpriceable, OrderTyped, TypeOK
  <2>5. ASSUME NEW o \in Orders, PrepareAbort(o) PROVE TypeOK'
    BY <2>5, Frame, AbortTyped, FaultTyped DEF PrepareAbort, TypeOK
  <2>6. ASSUME NEW o \in Orders, SubmitTransient(o) PROVE TypeOK'
    BY <2>6, Frame, EndCallTyped, MoveTyped, Names
       DEF SubmitTransient, OrderTyped, TypeOK
  <2>7. QED
    BY <1>4, <2>1, <2>2, <2>3, <2>4, <2>5, <2>6 DEF SubmitStep
<1>5. CASE OutcomeStep
  <2>1. ASSUME NEW o \in Orders, VenueAccepts(o) PROVE TypeOK'
    BY <2>1, Frame, AdvanceTyped, LandTyped
       DEF VenueAccepts, Stages, ExchangeTyped, TypeOK
  <2>2. ASSUME NEW o \in Orders, SubmitAcked(o) PROVE TypeOK'
    BY <2>2, Frame, AdvanceTyped DEF SubmitAcked, Stages, TypeOK
  <2>3. ASSUME NEW o \in Orders, SubmitTerminal(o) PROVE TypeOK'
    BY <2>3, Frame, EndCallTyped, EscalateTyped
       DEF SubmitTerminal, OwnersTyped, TypeOK
  <2>4. ASSUME NEW o \in Orders, SubmitAmbiguous(o) PROVE TypeOK'
    BY <2>4, Frame, EndCallTyped, MoveTyped, Names, GiveUpTyped
       DEF SubmitAmbiguous, OrderTyped, ExchangeTyped, TypeOK
  <2>5. ASSUME NEW o \in Orders, SubmitAmbiguousOwned(o) PROVE TypeOK'
    BY <2>5, Frame, EndCallTyped, FaultTyped, GiveUpTyped
       DEF SubmitAmbiguousOwned, OwnersTyped, ExchangeTyped, TypeOK
  <2>6. ASSUME NEW o \in Orders, SubmitAmbiguousAbort(o) PROVE TypeOK'
    BY <2>6, Frame, AbortTyped, FaultTyped, GiveUpTyped
       DEF SubmitAmbiguousAbort, ExchangeTyped, TypeOK
  <2>7. ASSUME NEW o \in Orders, FinalizeAcceptedSubmit(o) PROVE TypeOK'
    BY <2>7, Frame, EndCallTyped, AdoptTyped
       DEF FinalizeAcceptedSubmit, OrderTyped, TypeOK
  <2>8. ASSUME NEW o \in Orders, FinalizeRetried(o) PROVE TypeOK'
    BY <2>8, Frame, EndCallTyped, AdoptTyped, FaultTyped
       DEF FinalizeRetried, OrderTyped, OwnersTyped, AuditUnpersisted, TypeOK
  <2>9. ASSUME NEW o \in Orders, HandleUnpersistedSubmit(o) PROVE TypeOK'
    BY <2>9, Frame, EndCallTyped, FaultTyped, Names
       DEF HandleUnpersistedSubmit, OwnersTyped, AuditUnpersisted, TypeOK
  <2>10. ASSUME NEW o \in Orders, RecordAcceptedSubmitUncertainty(o)
         PROVE  TypeOK'
    BY <2>10, Frame, AbortTyped, FaultTyped
       DEF RecordAcceptedSubmitUncertainty, OwnersTyped, TypeOK
  <2>11. ASSUME NEW o \in Orders, FinalizeLost(o) PROVE TypeOK'
    BY <2>11, Frame, AbortTyped, FaultTyped
       DEF FinalizeLost, OwnersTyped, AuditUnpersisted, TypeOK
  <2>12. QED
    BY <1>5, <2>1, <2>2, <2>3, <2>4, <2>5, <2>6, <2>7, <2>8, <2>9, <2>10, <2>11
       DEF OutcomeStep
<1>6. CASE RedriveStep
  <2>1. ASSUME NEW o \in Orders, RedriveSend(o) PROVE TypeOK'
    <3>1. call' \in Calls
      BY <2>1, NewCallType DEF RedriveSend, CallKinds, Stages
    <3>2. LoopTyped'
      BY <2>1, <3>1, TakeTyped DEF RedriveSend, TypeOK
    <3>3. CountersTyped'
      BY <2>1, RedriveAssumption DEF RedriveSend, TypeOK, CountersTyped
    <3>4. QED
      BY <2>1, <3>2, <3>3, Frame DEF RedriveSend, TypeOK
  <2>2. ASSUME NEW o \in Orders, RedriveUnpriceable(o) PROVE TypeOK'
    BY <2>2, Frame, TakeTyped, RedriveAssumption
       DEF RedriveUnpriceable, CountersTyped, TypeOK
  <2>3. ASSUME NEW o \in Orders, RedriveUnreserved(o) PROVE TypeOK'
    BY <2>3, Frame, TakeTyped, FaultTyped DEF RedriveUnreserved, TypeOK
  <2>4. ASSUME NEW o \in Orders, RedriveExhausted(o) PROVE TypeOK'
    BY <2>4, Frame, TakeTyped, EscalateTyped
       DEF RedriveExhausted, OwnersTyped, TypeOK
  <2>5. ASSUME NEW o \in Orders, RedriveTransient(o) PROVE TypeOK'
    BY <2>5, Frame, EndCallTyped DEF RedriveTransient, TypeOK
  <2>6. ASSUME NEW o \in Orders, RedriveAbort(o) PROVE TypeOK'
    BY <2>6, Frame, AbortTyped, FaultTyped DEF RedriveAbort, TypeOK
  <2>7. QED
    BY <1>6, <2>1, <2>2, <2>3, <2>4, <2>5, <2>6 DEF RedriveStep
<1>7. CASE ResolveStep
  <2>1. CASE ResolveDeferred
    BY <2>1, Frame DEF ResolveDeferred, TypeOK, LoopTyped
  <2>2. ASSUME NEW o \in Orders, QuerySend(o) PROVE TypeOK'
    BY <2>2, Frame, TakeTyped, NewCallType
       DEF QuerySend, CallKinds, Stages, TypeOK
  <2>3. ASSUME NEW o \in Orders, QueryFails(o) PROVE TypeOK'
    BY <2>3, Frame, EndCallTyped DEF QueryFails, TypeOK
  <2>4. ASSUME NEW o \in Orders, QueryFinds(o) PROVE TypeOK'
    BY <2>4, Frame, ReadTyped DEF QueryFinds, Stages, TypeOK
  <2>5. ASSUME NEW o \in Orders, QueryMisses(o) PROVE TypeOK'
    BY <2>5, Frame, AdvanceTyped DEF QueryMisses, Stages, TypeOK
  <2>6. ASSUME NEW o \in Orders, ResolveFound(o) PROVE TypeOK'
    BY <2>6, Frame, EndCallTyped, MoveTyped, Names, AdoptTyped
       DEF ResolveFound, OrderTyped, TypeOK
  <2>7. ASSUME NEW o \in Orders, ResolveNotFound(o) PROVE TypeOK'
    <3>1. OrderTyped'
      BY <2>7, MoveTyped, Names DEF ResolveNotFound, TypeOK, OrderTyped
    <3>2. CountersTyped'
      BY <2>7, QueryAssumption DEF ResolveNotFound, TypeOK, CountersTyped
    <3>3. BoundsTyped'
      BY <2>7, Frame, FaultTyped DEF ResolveNotFound, TypeOK
    <3>4. QED
      BY <2>7, <3>1, <3>2, <3>3, Frame, EndCallTyped DEF ResolveNotFound, TypeOK
  <2>8. QED
    BY <1>7, <2>1, <2>2, <2>3, <2>4, <2>5, <2>6, <2>7 DEF ResolveStep
<1>8. CASE PollStep
  <2>1. ASSUME NEW o \in Orders, PollSend(o) PROVE TypeOK'
    <3>1. call' \in Calls
      BY <2>1, NewCallType
         DEF PollSend, CallKinds, Stages, TypeOK, LedgerTyped
    <3>2. LoopTyped'
      BY <2>1, <3>1, TakeTyped DEF PollSend, TypeOK
    <3>3. QED
      BY <2>1, <3>2, Frame DEF PollSend, TypeOK
  <2>2. ASSUME NEW o \in Orders, PollFails(o) PROVE TypeOK'
    BY <2>2, Frame, EndCallTyped DEF PollFails, TypeOK
  <2>3. ASSUME NEW o \in Orders, PollReads(o) PROVE TypeOK'
    BY <2>3, Frame, ReadTyped DEF PollReads, Stages, TypeOK
  <2>4. ASSUME NEW o \in Orders, ApplyUpdate(o) PROVE TypeOK'
    BY <2>4, ApplyTyped
  <2>5. QED
    BY <1>8, <2>1, <2>2, <2>3, <2>4 DEF PollStep
<1>9. CASE RecoverStep
  <2>1. ASSUME NEW o \in Orders, RecoverReads(o) PROVE TypeOK'
    <3>1. venue[o].filled \in 0 .. Qty /\ venue[o].st \in VenueState
      BY DEF TypeOK, ExchangeTyped, VenueOrder
    <3>2. call' \in Calls
      BY <2>1, <3>1, IdleType DEF RecoverReads, Calls, CallKinds, Stages
    <3>3. LoopTyped'
      BY <2>1, <3>2, TakeTyped DEF RecoverReads, TypeOK
    <3>4. QED
      BY <2>1, <3>3, Frame DEF RecoverReads, TypeOK
  <2>2. ASSUME NEW o \in Orders, RecoverFails(o) PROVE TypeOK'
    BY <2>2, Frame, EndCallTyped, TakeTyped DEF RecoverFails, TypeOK
  <2>3. ASSUME NEW o \in Orders, RecoverFilled(o) PROVE TypeOK'
    BY <2>3, Frame, EndCallTyped, Names DEF RecoverFilled, OwnersTyped, TypeOK
  <2>4. ASSUME NEW o \in Orders, ResolveRecoveryTerminal(o) PROVE TypeOK'
    BY <2>4, Frame, EndCallTyped, FaultTyped, Names
       DEF ResolveRecoveryTerminal, OrderTyped, OwnersTyped, TypeOK
  <2>5. ASSUME NEW o \in Orders, RecoverLive(o) PROVE TypeOK'
    BY <2>5, Frame, EndCallTyped, AdvanceTyped DEF RecoverLive, Stages, TypeOK
  <2>6. ASSUME NEW o \in Orders, RecoverCancels(o) PROVE TypeOK'
    BY <2>6, Frame, AdvanceTyped, LandTyped
       DEF RecoverCancels, Stages, ExchangeTyped, TypeOK
  <2>7. ASSUME NEW o \in Orders, RecoverConfirms(o) PROVE TypeOK'
    BY <2>7, Frame, ReadTyped DEF RecoverConfirms, Stages, TypeOK
  <2>8. QED
    BY <1>9, <2>1, <2>2, <2>3, <2>4, <2>5, <2>6, <2>7 DEF RecoverStep
<1>10. CASE CommandStep
  <2>1. CASE SetKillSwitch
    <3>1. SessionsTyped'
      BY <2>1 DEF SetKillSwitch, Toggle, TypeOK, SessionsTyped
    <3>2. QED
      BY <2>1, <3>1, Frame, CommandTyped DEF SetKillSwitch, TypeOK
  <2>2. CASE SetBuysPaused
    <3>1. SessionsTyped'
      BY <2>2 DEF SetBuysPaused, Toggle, TypeOK, SessionsTyped
    <3>2. QED
      BY <2>2, <3>1, Frame, CommandTyped DEF SetBuysPaused, TypeOK
  <2>3. CASE EnsureCurrentSession
    <3>1. SessionsTyped'
      BY <2>3, DaysAssumption
         DEF EnsureCurrentSession, TypeOK, SessionsTyped, Sessions
    <3>2. QED
      BY <2>3, <3>1, Frame DEF EnsureCurrentSession, TypeOK
  <2>4. ASSUME NEW s \in 1 .. today, CloseSession(s) PROVE TypeOK'
    <3>1. OrderTyped'
      BY <2>4, Names DEF CloseSession, TypeOK, OrderTyped
    <3>2. SessionsTyped'
      BY <2>4, DaysAssumption DEF CloseSession, TypeOK, SessionsTyped, Sessions
    <3>3. QED
      BY <2>4, <3>1, <3>2, Frame, CommandTyped DEF CloseSession, TypeOK
  <2>5. ASSUME NEW o \in Orders, CancelLocal(o) PROVE TypeOK'
    BY <2>5, Frame, MoveTyped, Names DEF CancelLocal, OrderTyped, TypeOK
  <2>6. ASSUME NEW o \in Orders, CancelSend(o) PROVE TypeOK'
    BY <2>6, Frame DEF CancelSend, CancelTyped, CancelStages, TypeOK
  <2>7. ASSUME NEW o \in Orders, CancelLands(o) PROVE TypeOK'
    BY <2>7, Frame, LandTyped
       DEF CancelLands, ExchangeTyped, CancelTyped, CancelStages, TypeOK
  <2>8. ASSUME NEW o \in Orders, CancelFinish(o) PROVE TypeOK'
    BY <2>8, Frame, MoveTyped, Names
       DEF CancelFinish, OrderTyped, CancelTyped, CancelStages, TypeOK
  <2>9. ASSUME NEW o \in Orders, CancelFails(o) PROVE TypeOK'
    BY <2>9, Frame DEF CancelFails, CancelTyped, CancelStages, TypeOK
  <2>10. ASSUME NEW o \in Orders, IngestSubmitRecoveryFill(o) PROVE TypeOK'
    BY <2>10, IngestTyped, Frame DEF IngestSubmitRecoveryFill, TypeOK
  <2>11. ASSUME NEW o \in Orders, ReconcileSubmitRecovery(o) PROVE TypeOK'
    BY <2>11, Frame, Names DEF ReconcileSubmitRecovery, OwnersTyped, TypeOK
  <2>12. QED
    BY <1>10, <2>1, <2>2, <2>3, <2>4, <2>5, <2>6, <2>7, <2>8, <2>9, <2>10,
       <2>11
       DEF CommandStep
<1>11. CASE VenueStep
  <2>1. ASSUME NEW o \in Orders, VenueFills(o) PROVE TypeOK'
    BY <2>1, FillTyped, Frame DEF VenueFills, TypeOK, SubmissionParts
  <2>2. ASSUME NEW o \in Orders, VenueCancels(o) PROVE TypeOK'
    BY <2>2, Frame, VenueTyped
       DEF VenueCancels, SetVenue, ExchangeTyped, VenueState, VenueTerminal,
           TypeOK
  <2>3. ASSUME NEW o \in Orders, VenueExpires(o) PROVE TypeOK'
    BY <2>3, Frame, VenueTyped
       DEF VenueExpires, SetVenue, ExchangeTyped, VenueState, VenueTerminal,
           TypeOK
  <2>4. ASSUME NEW o \in Orders, VenueRejects(o) PROVE TypeOK'
    BY <2>4, Frame, VenueTyped
       DEF VenueRejects, SetVenue, ExchangeTyped, VenueState, VenueTerminal,
           TypeOK
  <2>5. ASSUME NEW o \in Orders, LateLands(o) PROVE TypeOK'
    BY <2>5, Frame, LandTyped DEF LateLands, ExchangeTyped, TypeOK
  <2>6. ASSUME NEW o \in Orders, LateLost(o) PROVE TypeOK'
    BY <2>6, Frame DEF LateLost, ExchangeTyped, TypeOK
  <2>7. QED
    BY <1>11, <2>1, <2>2, <2>3, <2>4, <2>5, <2>6 DEF VenueStep
<1>12. CASE StopStep
  <2>1. CASE Crash
    BY <2>1, Frame, StopTyped
       DEF Crash, ExchangeTyped, TypeOK, SubmissionParts, LoopShape
  <2>2. ASSUME NEW o \in Orders, Shutdown(o) PROVE TypeOK'
    BY <2>2, Frame, MoveTyped, Names, StopTyped, GiveUpTyped
       DEF Shutdown, OrderTyped, ExchangeTyped, TypeOK
  <2>3. QED
    BY <1>12, <2>1, <2>2 DEF StopStep
<1>13. QED
  BY <1>1, <1>2, <1>3, <1>4, <1>5, <1>6, <1>7, <1>8, <1>9, <1>10, <1>11, <1>12
     DEF Next, LoopStep

-----------------------------------------------------------------------------
(* The order, its owners and the call in flight *)

\* What the poll's answer may do to its order (_apply_update): a refused or
\* legal move to an open or terminal status, and at most a new review record.
LEMMA ApplyMoves ==
  ASSUME NEW o \in Orders, ApplyUpdate(o)
  PROVE  /\ \E s \in OpenStatuses \cup TerminalStatuses : TransitionOrder(o, s)
         /\ \/ recovery' = recovery
            \/ recovery' = [recovery EXCEPT ![o] = "needs_review"]
<1>1. PICK priced, conflict : BookFill(o, FillDelta(priced), conflict)
  BY DEF ApplyUpdate
<1>2. \A n :
        /\ DivergenceSafeStatus(o, n) \in OpenStatuses \cup TerminalStatuses
        /\ ReconciledStatus(o, n) \in OpenStatuses \cup TerminalStatuses
  BY DEF DivergenceSafeStatus, ReconciledStatus, OpenStatuses, TerminalStatuses
<1>3. QED
  BY <1>1, <1>2 DEF BookFill, EscalateFillDivergence

\* The poll's answer keeps SubmissionInv: its order has a broker id before and
\* after, and the call ends.
LEMMA ApplyKept ==
  ASSUME SubmissionInv, NEW o \in Orders, ApplyUpdate(o)
  PROVE  SubmissionParts'
<1> USE DEF SubmissionInv, SubmissionParts
<1>1. PICK s \in OpenStatuses \cup TerminalStatuses : TransitionOrder(o, s)
  BY ApplyMoves
<1>2. /\ o \in bid /\ phase = "poll" /\ call' = Idle
      /\ UNCHANGED <<phase, todo, winding, venue, late, bid, noIdReview, seed,
                     uncertain, sessions>>
  BY DEF ApplyUpdate, InCall, EndCall, exchange, LoopShape, CallOf, TypeOK,
         LoopTyped, Phases
<1>3. \A q \in Orders :
        q # o => status'[q] = status[q] /\ recovery'[q] = recovery[q]
  BY ApplyMoves, <1>1 DEF TransitionOrder, TypeOK, OrderTyped, OwnersTyped
<1>4. /\ status[o] \in OpenStatuses \cup TerminalStatuses
      /\ status'[o] \in OpenStatuses \cup TerminalStatuses
  BY <1>1, <1>2 DEF TransitionOrder, OpenHasId, TypeOK, OrderTyped
<1>5. VenueSound' /\ OpenHasId'
  BY <1>2, <1>3, <1>4 DEF VenueSound, OpenHasId
<1>6. LoopShape' /\ ClaimShields' /\ UnsentIsClean'
  BY <1>2 DEF LoopShape, CallOf, ClaimShields, UnsentIsClean, Idle
<1>7. CreatedIsClean'
  BY <1>2, <1>3, <1>4 DEF CreatedIsClean, Clean, OpenStatuses, TerminalStatuses
<1>8. NoZombieBuy'
  BY <1>2, <1>3, <1>4, OrdersAssumption
     DEF NoZombieBuy, OpenStatuses, TerminalStatuses, sessions
<1>9. QED
  BY <1>5, <1>6, <1>7, <1>8

\* Closing a session cancels only clean local orders, and all its CREATED buys
\* are such (close_session).
LEMMA CloseKept ==
  ASSUME SubmissionInv, NEW s \in 1 .. today, CloseSession(s)
  PROVE  SubmissionParts'
<1> USE DEF SubmissionInv, SubmissionParts
<1>1. \A q \in Orders :
        \/ status'[q] = status[q]
        \/ status[q] = "CREATED" /\ status'[q] = "CANCELED" /\ q \notin bid
  BY DEF CloseSession, LocalCreatedCancelEligible, CreatedIsClean, Clean
<1>2. UNCHANGED <<bid, owners, loop, exchange>> /\ closed' = closed \cup {s}
  BY DEF CloseSession
<1>3. VenueSound' /\ UnsentIsClean'
  BY <1>2 DEF VenueSound, UnsentIsClean, Clean, owners, loop, exchange
<1>4. LoopShape' /\ ClaimShields'
  BY <1>1, <1>2 DEF LoopShape, ClaimShields, owners, loop, TypeOK, LoopTyped
<1>5. OpenHasId' /\ CreatedIsClean'
  BY <1>1, <1>2
     DEF OpenHasId, CreatedIsClean, Clean, owners, exchange, OpenStatuses,
         TerminalStatuses
<1>6. NoZombieBuy'
  <2> SUFFICES ASSUME NEW q \in Buys, OwnSession \in closed',
                      status'[q] = "CREATED"
               PROVE  FALSE
    BY DEF NoZombieBuy
  <2>1. q \in Orders /\ status[q] = "CREATED"
     BY <1>1, OrdersAssumption
  <2>2. LocalCreatedCancelEligible(q)
     BY <2>1
        DEF LocalCreatedCancelEligible, CreatedIsClean, Clean, RecoveryOpen,
            RecoveryOpenStatuses
  <2>3. s = OwnSession
     BY <1>2, <2>1 DEF NoZombieBuy
  <2>4. QED
    BY <2>1, <2>2, <2>3 DEF CloseSession
<1>7. QED
  BY <1>3, <1>4, <1>5, <1>6

\* An execution concerns an order the venue holds: no clean one.
LEMMA FillKept ==
  ASSUME SubmissionInv, NEW o \in Orders, VenueFills(o)
  PROVE  SubmissionParts'
<1> USE DEF SubmissionInv, SubmissionParts
<1>1. /\ venue[o].st \in VenueLive
      /\ venue[o].filled \in 0 .. Qty /\ venue[o].filled # Qty
  BY DEF VenueFills, VenueSound, VenueLive, TypeOK, ExchangeTyped, VenueOrder
<1>2. /\ venue'[o].filled = venue[o].filled + 1
      /\ venue'[o].st =
           IF venue[o].filled + 1 = Qty THEN "filled" ELSE venue[o].st
      /\ \A q \in Orders : q # o => venue'[q] = venue[q]
  BY DEF VenueFills, TypeOK, ExchangeTyped
<1>3. UNCHANGED <<late, order, owners, sessions, loop>>
  BY DEF VenueFills
<1>4. VenueSound'
  BY <1>1, <1>2 DEF VenueSound, VenueLive
<1>5. CreatedIsClean' /\ UnsentIsClean'
  BY <1>1, <1>2, <1>3
     DEF CreatedIsClean, UnsentIsClean, Clean, VenueLive, order, owners, loop,
         LoopShape
<1>6. LoopShape' /\ OpenHasId' /\ ClaimShields' /\ NoZombieBuy'
  BY <1>3
     DEF LoopShape, OpenHasId, ClaimShields, NoZombieBuy, order, owners, loop,
         sessions
<1>7. QED
  BY <1>4, <1>5, <1>6

\* Every step keeps the other parts of SubmissionInv.
LEMMA PartsKept ==
  ASSUME SubmissionInv, [Next]_vars
  PROVE  SubmissionParts'
<1> USE Names, OrdersAssumption, QtyAssumption
        DEF SubmissionInv, SubmissionParts, TypeOK, OrderTyped, OwnersTyped,
            LoopTyped, ExchangeTyped, Calls, VenueOrder, VenueSound, LoopShape,
            CallOf, CreatedIsClean, UnsentIsClean, Clean, OpenHasId,
            OpenStatuses, TerminalStatuses, ClaimShields, NoZombieBuy,
            ORDER_TRANSITIONS, order, owners, sessions, loop, exchange
<1>1. CASE UNCHANGED vars
  BY <1>1 DEF vars
<1>2. CASE EnterPhase
  BY <1>2 DEF EnterPhase, RecoveryOpen, NextPhase, Listed, Idle
<1>3. CASE RepairStep
  <2>1. CASE RepairAbort
    BY <2>1 DEF RepairAbort, AbortTick, Idle
  <2>2. ASSUME NEW o \in Orders, RepairAdopt(o) PROVE SubmissionParts'
    BY <2>2 DEF RepairAdopt, CanMove, AdoptBrokerId, Take, Idle
  <2>3. ASSUME NEW o \in Orders, RepairRecover(o) PROVE SubmissionParts'
    BY <2>3 DEF RepairRecover, Take, Idle
  <2>4. QED
    BY <1>3, <2>1, <2>2, <2>3 DEF RepairStep
<1>4. CASE SubmitStep
  <2>1. ASSUME NEW o \in Orders, ClaimOrderForSubmission(o)
        PROVE  SubmissionParts'
    BY <2>1
       DEF ClaimOrderForSubmission, Take, ClaimHoldReason, Idle, OwnSession
  <2>2. ASSUME NEW o \in Orders, ClaimSkipped(o) PROVE SubmissionParts'
    BY <2>2 DEF ClaimSkipped, Take, Idle
  <2>3. ASSUME NEW o \in Orders, SendSubmit(o) PROVE SubmissionParts'
    BY <2>3 DEF SendSubmit, InCall, Advance
  <2>4. ASSUME NEW o \in Orders, ReleaseUnpriceable(o) PROVE SubmissionParts'
    BY <2>4
       DEF ReleaseUnpriceable, CanMove, TransitionOrder, EndCall, InCall, Idle
  <2>5. ASSUME NEW o \in Orders, PrepareAbort(o) PROVE SubmissionParts'
    BY <2>5 DEF PrepareAbort, AbortTick, InCall, Idle
  <2>6. ASSUME NEW o \in Orders, SubmitTransient(o) PROVE SubmissionParts'
    BY <2>6
       DEF SubmitTransient, CanMove, TransitionOrder, EndCall, InCall, Idle,
           OwnSession
  <2>7. QED
    BY <1>4, <2>1, <2>2, <2>3, <2>4, <2>5, <2>6 DEF SubmitStep
<1>5. CASE OutcomeStep
  <2>1. ASSUME NEW o \in Orders, VenueAccepts(o) PROVE SubmissionParts'
    BY <2>1 DEF VenueAccepts, InCall, Advance, Land
  <2>2. ASSUME NEW o \in Orders, SubmitAcked(o) PROVE SubmissionParts'
    BY <2>2 DEF SubmitAcked, InCall, Advance
  <2>3. ASSUME NEW o \in Orders, SubmitTerminal(o) PROVE SubmissionParts'
    BY <2>3 DEF SubmitTerminal, EndCall, InCall, EscalateStaleSubmitting, Idle
  <2>4. ASSUME NEW o \in Orders, SubmitAmbiguous(o) PROVE SubmissionParts'
    BY <2>4
       DEF SubmitAmbiguous, CanMove, TransitionOrder, EndCall, InCall, GiveUp,
           Idle
  <2>5. ASSUME NEW o \in Orders, SubmitAmbiguousOwned(o) PROVE SubmissionParts'
    BY <2>5 DEF SubmitAmbiguousOwned, EndCall, InCall, GiveUp, Idle
  <2>6. ASSUME NEW o \in Orders, SubmitAmbiguousAbort(o) PROVE SubmissionParts'
    BY <2>6 DEF SubmitAmbiguousAbort, AbortTick, InCall, GiveUp, Idle
  <2>7. ASSUME NEW o \in Orders, FinalizeAcceptedSubmit(o)
        PROVE  SubmissionParts'
    BY <2>7
       DEF FinalizeAcceptedSubmit, CanMove, AdoptBrokerId, EndCall, InCall,
           Idle
  <2>8. ASSUME NEW o \in Orders, FinalizeRetried(o) PROVE SubmissionParts'
    BY <2>8
       DEF FinalizeRetried, CanMove, AdoptBrokerId, EndCall, InCall,
           AuditUnpersisted, Idle
  <2>9. ASSUME NEW o \in Orders, HandleUnpersistedSubmit(o)
        PROVE  SubmissionParts'
    BY <2>9
       DEF HandleUnpersistedSubmit, CanMove, EndCall, InCall, AuditUnpersisted,
           Idle
  <2>10. ASSUME NEW o \in Orders, RecordAcceptedSubmitUncertainty(o)
         PROVE  SubmissionParts'
    BY <2>10 DEF RecordAcceptedSubmitUncertainty, AbortTick, InCall, Idle
  <2>11. ASSUME NEW o \in Orders, FinalizeLost(o) PROVE SubmissionParts'
    BY <2>11 DEF FinalizeLost, AbortTick, InCall, AuditUnpersisted, Idle
  <2>12. QED
    BY <1>5, <2>1, <2>2, <2>3, <2>4, <2>5, <2>6, <2>7, <2>8, <2>9, <2>10, <2>11
       DEF OutcomeStep
<1>6. CASE RedriveStep
  <2>1. ASSUME NEW o \in Orders, RedriveSend(o) PROVE SubmissionParts'
    BY <2>1 DEF RedriveSend, Take, Idle
  <2>2. ASSUME NEW o \in Orders, RedriveUnpriceable(o) PROVE SubmissionParts'
    BY <2>2 DEF RedriveUnpriceable, Take, Idle
  <2>3. ASSUME NEW o \in Orders, RedriveUnreserved(o) PROVE SubmissionParts'
    BY <2>3 DEF RedriveUnreserved, Take, Idle
  <2>4. ASSUME NEW o \in Orders, RedriveExhausted(o) PROVE SubmissionParts'
    BY <2>4 DEF RedriveExhausted, Take, EscalateStaleSubmitting, Idle
  <2>5. ASSUME NEW o \in Orders, RedriveTransient(o) PROVE SubmissionParts'
    BY <2>5 DEF RedriveTransient, EndCall, InCall, Idle
  <2>6. ASSUME NEW o \in Orders, RedriveAbort(o) PROVE SubmissionParts'
    BY <2>6 DEF RedriveAbort, AbortTick, Idle
  <2>7. QED
    BY <1>6, <2>1, <2>2, <2>3, <2>4, <2>5, <2>6 DEF RedriveStep
<1>7. CASE ResolveStep
  <2>1. CASE ResolveDeferred
    BY <2>1 DEF ResolveDeferred, Idle
  <2>2. ASSUME NEW o \in Orders, QuerySend(o) PROVE SubmissionParts'
    BY <2>2 DEF QuerySend, Take, Idle
  <2>3. ASSUME NEW o \in Orders, QueryFails(o) PROVE SubmissionParts'
    BY <2>3 DEF QueryFails, EndCall, InCall, Idle
  <2>4. ASSUME NEW o \in Orders, QueryFinds(o) PROVE SubmissionParts'
    BY <2>4 DEF QueryFinds, InCall, ReadVenue
  <2>5. ASSUME NEW o \in Orders, QueryMisses(o) PROVE SubmissionParts'
    BY <2>5 DEF QueryMisses, InCall, Advance
  <2>6. ASSUME NEW o \in Orders, ResolveFound(o) PROVE SubmissionParts'
    BY <2>6
       DEF ResolveFound, CanMove, TransitionOrder, AdoptBrokerId, EndCall,
           InCall, Idle
  <2>7. ASSUME NEW o \in Orders, ResolveNotFound(o) PROVE SubmissionParts'
    BY <2>7
       DEF ResolveNotFound, CanMove, TransitionOrder, EndCall, InCall, Idle
  <2>8. QED
    BY <1>7, <2>1, <2>2, <2>3, <2>4, <2>5, <2>6, <2>7 DEF ResolveStep
<1>8. CASE PollStep
  <2>1. ASSUME NEW o \in Orders, PollSend(o) PROVE SubmissionParts'
    BY <2>1 DEF PollSend, Take, Idle
  <2>2. ASSUME NEW o \in Orders, PollFails(o) PROVE SubmissionParts'
    BY <2>2 DEF PollFails, EndCall, InCall, Idle
  <2>3. ASSUME NEW o \in Orders, PollReads(o) PROVE SubmissionParts'
    BY <2>3 DEF PollReads, InCall, ReadVenue
  <2>4. ASSUME NEW o \in Orders, ApplyUpdate(o) PROVE SubmissionParts'
    BY <2>4, ApplyKept
  <2>5. QED
    BY <1>8, <2>1, <2>2, <2>3, <2>4 DEF PollStep
<1>9. CASE RecoverStep
  <2>1. ASSUME NEW o \in Orders, RecoverReads(o) PROVE SubmissionParts'
    BY <2>1 DEF RecoverReads, Take, Idle
  <2>2. ASSUME NEW o \in Orders, RecoverFails(o) PROVE SubmissionParts'
    BY <2>2 DEF RecoverFails, EndCall, Take, InCall, Idle
  <2>3. ASSUME NEW o \in Orders, RecoverFilled(o) PROVE SubmissionParts'
    BY <2>3 DEF RecoverFilled, EndCall, InCall, Idle
  <2>4. ASSUME NEW o \in Orders, ResolveRecoveryTerminal(o)
        PROVE  SubmissionParts'
    BY <2>4 DEF ResolveRecoveryTerminal, EndCall, InCall, Idle
  <2>5. ASSUME NEW o \in Orders, RecoverLive(o) PROVE SubmissionParts'
    BY <2>5 DEF RecoverLive, EndCall, InCall, Advance, Idle
  <2>6. ASSUME NEW o \in Orders, RecoverCancels(o) PROVE SubmissionParts'
    BY <2>6 DEF RecoverCancels, InCall, Advance, LandCancel
  <2>7. ASSUME NEW o \in Orders, RecoverConfirms(o) PROVE SubmissionParts'
    BY <2>7 DEF RecoverConfirms, InCall, ReadVenue
  <2>8. QED
    BY <1>9, <2>1, <2>2, <2>3, <2>4, <2>5, <2>6, <2>7 DEF RecoverStep
<1>10. CASE CommandStep
  <2>1. CASE SetKillSwitch
    BY <2>1 DEF SetKillSwitch, Toggle
  <2>2. CASE SetBuysPaused
    BY <2>2 DEF SetBuysPaused, Toggle
  <2>3. CASE EnsureCurrentSession
    BY <2>3 DEF EnsureCurrentSession
  <2>4. ASSUME NEW s \in 1 .. today, CloseSession(s) PROVE SubmissionParts'
    BY <2>4, CloseKept
  <2>5. ASSUME NEW o \in Orders, CancelLocal(o) PROVE SubmissionParts'
    BY <2>5
       DEF CancelLocal, RecoveryOpen, CanMove, TransitionOrder,
           LocalCreatedCancelEligible
  <2>6. ASSUME NEW o \in Orders, CancelSend(o) PROVE SubmissionParts'
    BY <2>6 DEF CancelSend
  <2>7. ASSUME NEW o \in Orders, CancelLands(o) PROVE SubmissionParts'
    BY <2>7 DEF CancelLands, LandCancel
  <2>8. ASSUME NEW o \in Orders, CancelFinish(o) PROVE SubmissionParts'
    BY <2>8 DEF CancelFinish, CanMove, TransitionOrder
  <2>9. ASSUME NEW o \in Orders, CancelFails(o) PROVE SubmissionParts'
    BY <2>9 DEF CancelFails
  <2>10. ASSUME NEW o \in Orders, IngestSubmitRecoveryFill(o)
         PROVE  SubmissionParts'
    BY <2>10 DEF IngestSubmitRecoveryFill, Polling
  <2>11. ASSUME NEW o \in Orders, ReconcileSubmitRecovery(o)
         PROVE  SubmissionParts'
    BY <2>11 DEF ReconcileSubmitRecovery
  <2>12. QED
    BY <1>10, <2>1, <2>2, <2>3, <2>4, <2>5, <2>6, <2>7, <2>8, <2>9, <2>10,
       <2>11
       DEF CommandStep
<1>11. CASE VenueStep
  <2>1. ASSUME NEW o \in Orders, VenueFills(o) PROVE SubmissionParts'
    BY <2>1, FillKept
  <2>2. ASSUME NEW o \in Orders, VenueCancels(o) PROVE SubmissionParts'
    BY <2>2 DEF VenueCancels, SetVenue
  <2>3. ASSUME NEW o \in Orders, VenueExpires(o) PROVE SubmissionParts'
    BY <2>3 DEF VenueExpires, SetVenue
  <2>4. ASSUME NEW o \in Orders, VenueRejects(o) PROVE SubmissionParts'
    BY <2>4 DEF VenueRejects, SetVenue
  <2>5. ASSUME NEW o \in Orders, LateLands(o) PROVE SubmissionParts'
    BY <2>5 DEF LateLands, Land
  <2>6. ASSUME NEW o \in Orders, LateLost(o) PROVE SubmissionParts'
    BY <2>6 DEF LateLost
  <2>7. QED
    BY <1>11, <2>1, <2>2, <2>3, <2>4, <2>5, <2>6 DEF VenueStep
<1>12. CASE StopStep
  <2>1. CASE Crash
    BY <2>1 DEF Crash, AbortTick, Stop, Idle
  <2>2. ASSUME NEW o \in Orders, Shutdown(o) PROVE SubmissionParts'
    BY <2>2
       DEF Shutdown, CanMove, TransitionOrder, AbortTick, InCall, GiveUp, Stop,
           Idle
  <2>3. QED
    BY <1>12, <2>1, <2>2 DEF StopStep
<1>13. QED
  BY <1>1, <1>2, <1>3, <1>4, <1>5, <1>6, <1>7, <1>8, <1>9, <1>10, <1>11, <1>12
     DEF Next, LoopStep

\* The initial state: every order CREATED, nothing sent, the loop asleep.
LEMMA InitSubmission == Init => SubmissionInv
<1> SUFFICES ASSUME Init PROVE SubmissionInv
  OBVIOUS
<1>1. OrderTyped /\ OwnersTyped
  BY Names DEF Init, OrderTyped, OwnersTyped
<1>2. LedgerTyped /\ CountersTyped
  BY QtyAssumption, RedriveAssumption, QueryAssumption
     DEF Init, LedgerTyped, CountersTyped, Levels
<1>3. SessionsTyped /\ CancelTyped
  BY DaysAssumption
     DEF Init, SessionsTyped, Sessions, OwnSession, CancelTyped, CancelStages
<1>4. LoopTyped
  BY IdleType DEF Init, LoopTyped, Phases
<1>5. ExchangeTyped /\ BoundsTyped
  BY QtyAssumption, BoundsAssumption
     DEF Init, ExchangeTyped, VenueOrder, VenueState, BoundsTyped
<1>6. VenueSound /\ LoopShape /\ UnsentIsClean
  BY QtyAssumption DEF Init, VenueSound, LoopShape, UnsentIsClean, Idle
<1>7. CreatedIsClean /\ OpenHasId /\ ClaimShields /\ NoZombieBuy
  BY DEF Init, CreatedIsClean, Clean, OpenHasId, OpenStatuses, ClaimShields,
         NoZombieBuy, Idle
<1>8. QED
  BY <1>1, <1>2, <1>3, <1>4, <1>5, <1>6, <1>7
     DEF SubmissionInv, SubmissionParts, TypeOK

-----------------------------------------------------------------------------
(* The theorems that hold whatever the operator does *)

\* SubmissionInv is inductive: no interleaving of the tick, the commands, the
\* venue, crashes and failing writes leaves it.
THEOREM SubmissionInvariant == Spec => []SubmissionInv
<1>1. Init => SubmissionInv
  BY InitSubmission
<1>2. SubmissionInv /\ [Next]_vars => SubmissionInv'
  BY TypeKept, PartsKept DEF SubmissionInv
<1>3. QED
  BY <1>1, <1>2, PTL DEF Spec

\* Type correctness: in particular the re-drive and not-found counters stay
\* within the limits of the settings (_redrive_stale_submitting and
\* _resolve_timeout_quarantine).
THEOREM TypeCorrectness == Spec => []TypeOK
<1>1. SubmissionInv => TypeOK
  BY DEF SubmissionInv
<1>2. QED
  BY <1>1, SubmissionInvariant, PTL

\* An order the submission sweep treats as new was never sent: no release path
\* of _submit_pending_orders forgets a request whose outcome is unknown.
THEOREM NeverResubmittedAsNew == Spec => []CreatedNeverSent
<1>1. SubmissionInv => CreatedNeverSent
  BY DEF SubmissionInv, SubmissionParts, CreatedIsClean, Clean,
         CreatedNeverSent
<1>2. QED
  BY <1>1, SubmissionInvariant, PTL

\* The claim shields an order in flight from every command and control
\* (claim_order_for_submission).
THEOREM ClaimIsExclusive == Spec => []ClaimShields
<1>1. SubmissionInv => ClaimShields
  BY DEF SubmissionInv, SubmissionParts
<1>2. QED
  BY <1>1, SubmissionInvariant, PTL

\* A closed session keeps no CREATED buy (close_session and the release of a
\* claim whose session closed meanwhile).
THEOREM CloseLeavesNoZombie == Spec => []NoZombieBuy
<1>1. SubmissionInv => NoZombieBuy
  BY DEF SubmissionInv, SubmissionParts
<1>2. QED
  BY <1>1, SubmissionInvariant, PTL
-----------------------------------------------------------------------------
(***************************************************************************)
(* The recorded fills and the terminal statuses, and that OrderSubmission  *)
(* implements OrderOwnership.  These hold under the operator's discipline  *)
(* (OperatorWaits): a fill attested while the same order is being polled   *)
(* makes the poll's base stale, and the invariant fails.                   *)
(***************************************************************************)

\* What the poll books: either nothing, or exactly up to the broker's
\* cumulative count.
LEMMA Booking ==
  ASSUME LedgerInv, NEW o \in Orders, InCall(o, {"poll"}, {"read"}), NEW priced
  PROVE  /\ Booked(o, FillDelta(priced)) \in {recorded[o], call.cum}
         /\ Booked(o, FillDelta(priced)) >= recorded[o]
         /\ Booked(o, FillDelta(priced)) <= venue[o].filled
<1>1. call.base = recorded[o] /\ call.cum <= venue[o].filled
  BY DEF LedgerInv, LedgerParts, AnswerHolds, InCall
<1>2. /\ call.cum \in Nat /\ recorded[o] \in Nat /\ venue[o].filled \in Nat
      /\ recorded[o] <= venue[o].filled
  BY QtyAssumption
     DEF LedgerInv, SubmissionInv, LedgerParts, NoInventedFill, TypeOK,
         LoopTyped, LedgerTyped, ExchangeTyped, VenueOrder, Calls
<1>3. QED
  BY <1>1, <1>2 DEF Booked, FillDelta, AppendsFill

\* The poll's answer keeps the ledger: a terminal status is taken only when the
\* recorded fills are the venue's (_apply_update, _reconciled_status).
LEMMA ApplyAgrees ==
  ASSUME LedgerInv, NEW o \in Orders, ApplyUpdate(o)
  PROVE  LedgerParts'
<1> USE DEF LedgerInv, LedgerParts, SubmissionInv, SubmissionParts
<1>1. PICK priced, conflict : BookFill(o, FillDelta(priced), conflict)
  BY DEF ApplyUpdate
<1> DEFINE sum == Booked(o, FillDelta(priced))
<1>2. /\ sum \in {recorded[o], call.cum}
      /\ sum >= recorded[o] 
      /\ sum <= venue[o].filled
  BY Booking DEF ApplyUpdate
<1>3. /\ call.cum \in Nat /\ recorded[o] \in Nat /\ sum \in Nat
      /\ venue[o].filled \in 0 .. Qty
  BY <1>2, QtyAssumption
     DEF TypeOK, LoopTyped, LedgerTyped, ExchangeTyped, VenueOrder, Calls
<1>4. /\ recorded'[o] = sum
      /\ \A q \in Orders : q # o => recorded'[q] = recorded[q]
  BY <1>1 DEF BookFill, TypeOK, LedgerTyped
<1>5. /\ call' = Idle
      /\ UNCHANGED <<venue, late>>
      /\ call.kind = "poll" /\ call.order = o
  BY DEF ApplyUpdate, EndCall, exchange, InCall
<1> DEFINE safe == DivergenceSafeStatus(o, Capped(sum))
<1> DEFINE rec == ReconciledStatus(o, Capped(sum))
<1>6. \/ TransitionOrder(o, safe)
      \/ call.cum <= sum /\ TransitionOrder(o, rec)
  BY <1>1, <1>3 DEF BookFill
<1>7. safe \in OpenStatuses /\ (safe = "PARTIALLY_FILLED" => sum > 0)
  BY <1>3, QtyAssumption DEF DivergenceSafeStatus, Capped, OpenStatuses
<1>8. /\ rec = "FILLED" => sum >= Qty
      /\ rec = "CANCELED" => call.vst = "canceled"
      /\ rec = "REJECTED" => call.vst = "rejected"
      /\ rec = "PARTIALLY_FILLED" => sum > 0
  BY <1>3, QtyAssumption DEF ReconciledStatus, DivergenceSafeStatus, Capped
<1>9. \A q \in Orders :
        q # o => status'[q] = status[q] /\ recovery'[q] = recovery[q]
  BY ApplyMoves DEF TransitionOrder, TypeOK, OrderTyped, OwnersTyped
<1>10. recovery'[o] \in {recovery[o], "needs_review"}
  BY ApplyMoves DEF TypeOK, OwnersTyped
<1>11. \/ status'[o] = status[o]
       \/ status'[o] = safe
       \/ call.cum <= sum /\ status'[o] = rec
  BY <1>6 DEF TransitionOrder, TypeOK, OrderTyped
<1> HIDE DEF sum, safe, rec
<1>12. NoInventedFill'
  BY <1>2, <1>4, <1>5 DEF NoInventedFill
<1>13. AnswerHolds'
  BY <1>5 DEF AnswerHolds, Idle
<1>14. PartialHasFill'
  BY <1>2, <1>3, <1>4, <1>7, <1>8, <1>9, <1>11 DEF PartialHasFill
<1>15. ReleasedIsSettled'
  BY <1>2, <1>3, <1>4, <1>5, <1>9, <1>10 DEF ReleasedIsSettled
<1>16. TerminalAgrees'
  <2>1. ASSUME NEW q \in Orders, q # o, status'[q] \in TerminalStatuses
        PROVE  Agrees(q)'
    BY <1>4, <1>5, <1>9, <2>1 DEF TerminalAgrees, Agrees
  <2>2. ASSUME status'[o] \in TerminalStatuses
        PROVE  Agrees(o)'
    <3>1. CASE status'[o] = status[o]
      BY <1>2, <1>3, <1>4, <1>5, <2>2, <3>1 DEF TerminalAgrees, Agrees
    <3>2. CASE call.cum <= sum /\ status'[o] = rec
      <4>1. call.vst \in VenueTerminal =>
              venue[o].st = call.vst /\ call.cum = venue[o].filled
        BY <1>5 DEF AnswerHolds
      <4>2. sum >= Qty => venue[o].st = "filled" /\ sum = venue[o].filled
        BY <1>2, <1>3, QtyAssumption DEF VenueSound
      <4>3. QED
        BY <1>2, <1>3, <1>4, <1>5, <1>8, <2>2, <3>2, <4>1, <4>2
           DEF Agrees, TerminalStatuses, VenueTerminal
    <3>3. QED
      BY <1>7, <1>11, <2>2, <3>1, <3>2 DEF OpenStatuses, TerminalStatuses
  <2>3. QED
    BY <2>1, <2>2 DEF TerminalAgrees
<1>17. QED
  BY <1>12, <1>13, <1>14, <1>15, <1>16

\* An attested fill is one the venue executed and no poll is about to book; its
\* order is not terminal (ingest_submit_recovery_fill).
LEMMA IngestAgrees ==
  ASSUME LedgerInv, OperatorWaits, NEW o \in Orders,
         IngestSubmitRecoveryFill(o)
  PROVE  LedgerParts'
<1> USE DEF LedgerInv, LedgerParts, SubmissionInv, SubmissionParts
<1>1. PICK level \in Levels :
        /\ recorded[o] < level
        /\ level <= venue[o].filled
        /\ recorded' = [recorded EXCEPT ![o] = level]
  BY DEF IngestSubmitRecoveryFill
<1>2. /\ recorded[o] \in Nat /\ level \in Nat /\ venue[o].filled \in Nat
      /\ recorded'[o] = level
      /\ \A q \in Orders : q # o => recorded'[q] = recorded[q]
  BY <1>1, QtyAssumption
     DEF Levels, TypeOK, LedgerTyped, ExchangeTyped, VenueOrder
<1>3. /\ recovery[o] = "needs_review"
      /\ ~Polling(o)
      /\ UNCHANGED <<order, owners, counters, loop, exchange>>
  BY DEF IngestSubmitRecoveryFill
<1>4. status[o] \notin TerminalStatuses
  BY <1>1, <1>2 DEF TerminalAgrees, Agrees
<1>5. NoInventedFill' /\ ReleasedIsSettled'
  BY <1>1, <1>2, <1>3 DEF NoInventedFill, ReleasedIsSettled, owners, exchange
<1>6. TerminalAgrees'
  BY <1>2, <1>3, <1>4 DEF TerminalAgrees, Agrees, order, exchange
<1>7. AnswerHolds'
  BY <1>2, <1>3 DEF AnswerHolds, Polling, LoopShape, counters, loop, exchange
<1>8. PartialHasFill'
  BY <1>1, <1>2, <1>3 DEF PartialHasFill, order
<1>9. QED
  BY <1>5, <1>6, <1>7, <1>8

\* A live answer to the recovery leads to a cancel or to nothing.
LEMMA LiveAgrees ==
  ASSUME LedgerInv, OperatorWaits, NEW o \in Orders, RecoverLive(o)
  PROVE  LedgerParts'
<1> USE DEF LedgerInv, LedgerParts, SubmissionInv, SubmissionParts
<1>1. UNCHANGED <<order, ledger, owners, counters, exchange>>
  BY DEF RecoverLive
<1>2. /\ NoInventedFill' /\ TerminalAgrees'
      /\ PartialHasFill' /\ ReleasedIsSettled'
  BY <1>1
     DEF NoInventedFill, TerminalAgrees, Agrees, PartialHasFill,
         ReleasedIsSettled, order, ledger, owners, exchange
<1>3. AnswerHolds'
  <2>1. call' = Idle \/ call' = [call EXCEPT !.at = "cancel"]
    BY DEF RecoverLive, Advance, EndCall
  <2>2. QED
    BY <1>1, <2>1
       DEF AnswerHolds, Idle, TypeOK, LoopTyped, Calls, ledger, counters,
           exchange, RecoverLive, InCall
<1>4. QED
  BY <1>2, <1>3

\* Every step keeps the parts of LedgerInv that are about fills.
LEMMA LedgerKept ==
  ASSUME LedgerInv, OperatorWaits, [Next]_vars
  PROVE  LedgerParts'
<1> USE Names, OrdersAssumption, QtyAssumption, QueryAssumption
        DEF LedgerInv, SubmissionInv, SubmissionParts, LedgerParts, TypeOK,
            OrderTyped, LedgerTyped, OwnersTyped, CountersTyped, LoopTyped,
            ExchangeTyped, Calls, VenueOrder, VenueSound, VenueState,
            VenueLive, VenueTerminal, LoopShape, CallOf, CreatedIsClean,
            UnsentIsClean, Clean, ClaimShields, OpenHasId, OpenStatuses,
            TerminalStatuses, ORDER_TRANSITIONS, order, ledger, owners,
            counters, loop, exchange, NoInventedFill, TerminalAgrees, Agrees,
            AnswerHolds, PartialHasFill, ReleasedIsSettled
<1>1. CASE UNCHANGED vars
  BY <1>1 DEF vars
<1>2. CASE EnterPhase
  BY <1>2 DEF EnterPhase, RecoveryOpen, NextPhase, Listed, Idle
<1>3. CASE RepairStep
  <2>1. CASE RepairAbort
    BY <2>1 DEF RepairAbort, AbortTick, Idle
  <2>2. ASSUME NEW o \in Orders, RepairAdopt(o) PROVE LedgerParts'
    BY <2>2 DEF RepairAdopt, CanMove, AdoptBrokerId, Take, Idle
  <2>3. ASSUME NEW o \in Orders, RepairRecover(o) PROVE LedgerParts'
    BY <2>3 DEF RepairRecover, Take, Idle
  <2>4. QED
    BY <1>3, <2>1, <2>2, <2>3 DEF RepairStep
<1>4. CASE SubmitStep
  <2>1. ASSUME NEW o \in Orders, ClaimOrderForSubmission(o) PROVE LedgerParts'
    BY <2>1
       DEF ClaimOrderForSubmission, Take, ClaimHoldReason, Idle, OwnSession
  <2>2. ASSUME NEW o \in Orders, ClaimSkipped(o) PROVE LedgerParts'
    BY <2>2 DEF ClaimSkipped, Take, Idle
  <2>3. ASSUME NEW o \in Orders, SendSubmit(o) PROVE LedgerParts'
    BY <2>3 DEF SendSubmit, InCall, Advance
  <2>4. ASSUME NEW o \in Orders, ReleaseUnpriceable(o) PROVE LedgerParts'
    BY <2>4
       DEF ReleaseUnpriceable, CanMove, TransitionOrder, EndCall, InCall, Idle
  <2>5. ASSUME NEW o \in Orders, PrepareAbort(o) PROVE LedgerParts'
    BY <2>5 DEF PrepareAbort, AbortTick, InCall, Idle
  <2>6. ASSUME NEW o \in Orders, SubmitTransient(o) PROVE LedgerParts'
    BY <2>6
       DEF SubmitTransient, CanMove, TransitionOrder, EndCall, InCall, Idle,
           OwnSession
  <2>7. QED
    BY <1>4, <2>1, <2>2, <2>3, <2>4, <2>5, <2>6 DEF SubmitStep
<1>5. CASE OutcomeStep
  <2>1. ASSUME NEW o \in Orders, VenueAccepts(o) PROVE LedgerParts'
    BY <2>1 DEF VenueAccepts, InCall, Advance, Land
  <2>2. ASSUME NEW o \in Orders, SubmitAcked(o) PROVE LedgerParts'
    BY <2>2 DEF SubmitAcked, InCall, Advance
  <2>3. ASSUME NEW o \in Orders, SubmitTerminal(o) PROVE LedgerParts'
    BY <2>3 DEF SubmitTerminal, EndCall, InCall, EscalateStaleSubmitting, Idle
  <2>4. ASSUME NEW o \in Orders, SubmitAmbiguous(o) PROVE LedgerParts'
    BY <2>4
       DEF SubmitAmbiguous, CanMove, TransitionOrder, EndCall, InCall, GiveUp,
           Idle
  <2>5. ASSUME NEW o \in Orders, SubmitAmbiguousOwned(o) PROVE LedgerParts'
    BY <2>5 DEF SubmitAmbiguousOwned, EndCall, InCall, GiveUp, Idle
  <2>6. ASSUME NEW o \in Orders, SubmitAmbiguousAbort(o) PROVE LedgerParts'
    BY <2>6 DEF SubmitAmbiguousAbort, AbortTick, InCall, GiveUp, Idle
  <2>7. ASSUME NEW o \in Orders, FinalizeAcceptedSubmit(o) PROVE LedgerParts'
    BY <2>7
       DEF FinalizeAcceptedSubmit, CanMove, AdoptBrokerId, EndCall, InCall,
           Idle
  <2>8. ASSUME NEW o \in Orders, FinalizeRetried(o) PROVE LedgerParts'
    BY <2>8
       DEF FinalizeRetried, CanMove, AdoptBrokerId, EndCall, InCall,
           AuditUnpersisted, Idle
  <2>9. ASSUME NEW o \in Orders, HandleUnpersistedSubmit(o) PROVE LedgerParts'
    BY <2>9
       DEF HandleUnpersistedSubmit, CanMove, EndCall, InCall, AuditUnpersisted,
           Idle
  <2>10. ASSUME NEW o \in Orders, RecordAcceptedSubmitUncertainty(o)
         PROVE  LedgerParts'
    BY <2>10 DEF RecordAcceptedSubmitUncertainty, AbortTick, InCall, Idle
  <2>11. ASSUME NEW o \in Orders, FinalizeLost(o) PROVE LedgerParts'
    BY <2>11 DEF FinalizeLost, AbortTick, InCall, AuditUnpersisted, Idle
  <2>12. QED
    BY <1>5, <2>1, <2>2, <2>3, <2>4, <2>5, <2>6, <2>7, <2>8, <2>9, <2>10, <2>11
       DEF OutcomeStep
<1>6. CASE RedriveStep
  <2>1. ASSUME NEW o \in Orders, RedriveSend(o) PROVE LedgerParts'
    BY <2>1 DEF RedriveSend, Take, Idle
  <2>2. ASSUME NEW o \in Orders, RedriveUnpriceable(o) PROVE LedgerParts'
    BY <2>2 DEF RedriveUnpriceable, Take, Idle
  <2>3. ASSUME NEW o \in Orders, RedriveUnreserved(o) PROVE LedgerParts'
    BY <2>3 DEF RedriveUnreserved, Take, Idle
  <2>4. ASSUME NEW o \in Orders, RedriveExhausted(o) PROVE LedgerParts'
    BY <2>4 DEF RedriveExhausted, Take, EscalateStaleSubmitting, Idle
  <2>5. ASSUME NEW o \in Orders, RedriveTransient(o) PROVE LedgerParts'
    BY <2>5 DEF RedriveTransient, EndCall, InCall, Idle
  <2>6. ASSUME NEW o \in Orders, RedriveAbort(o) PROVE LedgerParts'
    BY <2>6 DEF RedriveAbort, AbortTick, Idle
  <2>7. QED
    BY <1>6, <2>1, <2>2, <2>3, <2>4, <2>5, <2>6 DEF RedriveStep
<1>7. CASE ResolveStep
  <2>1. CASE ResolveDeferred
    BY <2>1 DEF ResolveDeferred, Idle
  <2>2. ASSUME NEW o \in Orders, QuerySend(o) PROVE LedgerParts'
    BY <2>2 DEF QuerySend, Take, Idle
  <2>3. ASSUME NEW o \in Orders, QueryFails(o) PROVE LedgerParts'
    BY <2>3 DEF QueryFails, EndCall, InCall, Idle
  <2>4. ASSUME NEW o \in Orders, QueryFinds(o) PROVE LedgerParts'
    BY <2>4 DEF QueryFinds, InCall, ReadVenue
  <2>5. ASSUME NEW o \in Orders, QueryMisses(o) PROVE LedgerParts'
    BY <2>5 DEF QueryMisses, InCall, Advance
  <2>6. ASSUME NEW o \in Orders, ResolveFound(o) PROVE LedgerParts'
    BY <2>6
       DEF ResolveFound, CanMove, TransitionOrder, AdoptBrokerId, EndCall,
           InCall, Idle
  <2>7. ASSUME NEW o \in Orders, ResolveNotFound(o) PROVE LedgerParts'
    BY <2>7
       DEF ResolveNotFound, CanMove, TransitionOrder, EndCall, InCall, Idle
  <2>8. QED
    BY <1>7, <2>1, <2>2, <2>3, <2>4, <2>5, <2>6, <2>7 DEF ResolveStep
<1>8. CASE PollStep
  <2>1. ASSUME NEW o \in Orders, PollSend(o) PROVE LedgerParts'
    BY <2>1 DEF PollSend, Take, Idle
  <2>2. ASSUME NEW o \in Orders, PollFails(o) PROVE LedgerParts'
    BY <2>2 DEF PollFails, EndCall, InCall, Idle
  <2>3. ASSUME NEW o \in Orders, PollReads(o) PROVE LedgerParts'
    BY <2>3 DEF PollReads, InCall, ReadVenue
  <2>4. ASSUME NEW o \in Orders, ApplyUpdate(o) PROVE LedgerParts'
    BY <2>4, ApplyAgrees
  <2>5. QED
    BY <1>8, <2>1, <2>2, <2>3, <2>4 DEF PollStep
<1>9. CASE RecoverStep
  <2>1. ASSUME NEW o \in Orders, RecoverReads(o) PROVE LedgerParts'
    BY <2>1 DEF RecoverReads, Take, Idle
  <2>2. ASSUME NEW o \in Orders, RecoverFails(o) PROVE LedgerParts'
    BY <2>2 DEF RecoverFails, EndCall, Take, InCall, Idle
  <2>3. ASSUME NEW o \in Orders, RecoverFilled(o) PROVE LedgerParts'
    BY <2>3 DEF RecoverFilled, EndCall, InCall, Idle
  <2>4. ASSUME NEW o \in Orders, ResolveRecoveryTerminal(o) PROVE LedgerParts'
    BY <2>4 DEF ResolveRecoveryTerminal, EndCall, InCall, Idle
  <2>5. ASSUME NEW o \in Orders, RecoverLive(o) PROVE LedgerParts'
    BY <2>5, LiveAgrees
  <2>6. ASSUME NEW o \in Orders, RecoverCancels(o) PROVE LedgerParts'
    BY <2>6 DEF RecoverCancels, InCall, Advance, LandCancel
  <2>7. ASSUME NEW o \in Orders, RecoverConfirms(o) PROVE LedgerParts'
    BY <2>7 DEF RecoverConfirms, InCall, ReadVenue
  <2>8. QED
    BY <1>9, <2>1, <2>2, <2>3, <2>4, <2>5, <2>6, <2>7 DEF RecoverStep
<1>10. CASE CommandStep
  <2>1. CASE SetKillSwitch
    BY <2>1 DEF SetKillSwitch, Toggle
  <2>2. CASE SetBuysPaused
    BY <2>2 DEF SetBuysPaused, Toggle
  <2>3. CASE EnsureCurrentSession
    BY <2>3 DEF EnsureCurrentSession
  <2>4. ASSUME NEW s \in 1 .. today, CloseSession(s) PROVE LedgerParts'
    BY <2>4
       DEF CloseSession, RecoveryOpen, LocalCreatedCancelEligible, OwnSession
  <2>5. ASSUME NEW o \in Orders, CancelLocal(o) PROVE LedgerParts'
    BY <2>5
       DEF CancelLocal, RecoveryOpen, CanMove, TransitionOrder,
           LocalCreatedCancelEligible
  <2>6. ASSUME NEW o \in Orders, CancelSend(o) PROVE LedgerParts'
    BY <2>6 DEF CancelSend
  <2>7. ASSUME NEW o \in Orders, CancelLands(o) PROVE LedgerParts'
    BY <2>7 DEF CancelLands, LandCancel
  <2>8. ASSUME NEW o \in Orders, CancelFinish(o) PROVE LedgerParts'
    BY <2>8 DEF CancelFinish, CanMove, TransitionOrder
  <2>9. ASSUME NEW o \in Orders, CancelFails(o) PROVE LedgerParts'
    BY <2>9 DEF CancelFails
  <2>10. ASSUME NEW o \in Orders, IngestSubmitRecoveryFill(o)
         PROVE  LedgerParts'
    BY <2>10, IngestAgrees
  <2>11. ASSUME NEW o \in Orders, ReconcileSubmitRecovery(o) PROVE LedgerParts'
    BY <2>11 DEF ReconcileSubmitRecovery
  <2>12. QED
    BY <1>10, <2>1, <2>2, <2>3, <2>4, <2>5, <2>6, <2>7, <2>8, <2>9, <2>10,
       <2>11
       DEF CommandStep
<1>11. CASE VenueStep
  <2>1. ASSUME NEW o \in Orders, VenueFills(o) PROVE LedgerParts'
    BY <2>1 DEF VenueFills
  <2>2. ASSUME NEW o \in Orders, VenueCancels(o) PROVE LedgerParts'
    BY <2>2 DEF VenueCancels, SetVenue
  <2>3. ASSUME NEW o \in Orders, VenueExpires(o) PROVE LedgerParts'
    BY <2>3 DEF VenueExpires, SetVenue
  <2>4. ASSUME NEW o \in Orders, VenueRejects(o) PROVE LedgerParts'
    BY <2>4 DEF VenueRejects, SetVenue
  <2>5. ASSUME NEW o \in Orders, LateLands(o) PROVE LedgerParts'
    BY <2>5 DEF LateLands, Land
  <2>6. ASSUME NEW o \in Orders, LateLost(o) PROVE LedgerParts'
    BY <2>6 DEF LateLost
  <2>7. QED
    BY <1>11, <2>1, <2>2, <2>3, <2>4, <2>5, <2>6 DEF VenueStep
<1>12. CASE StopStep
  <2>1. CASE Crash
    BY <2>1 DEF Crash, AbortTick, Stop, Idle
  <2>2. ASSUME NEW o \in Orders, Shutdown(o) PROVE LedgerParts'
    BY <2>2
       DEF Shutdown, CanMove, TransitionOrder, AbortTick, InCall, GiveUp, Stop,
           Idle
  <2>3. QED
    BY <1>12, <2>1, <2>2 DEF StopStep
<1>13. QED
  BY <1>1, <1>2, <1>3, <1>4, <1>5, <1>6, <1>7, <1>8, <1>9, <1>10, <1>11, <1>12
     DEF Next, LoopStep

\* Every status but a terminal one, or PARTIALLY_FILLED for a rejection, may
\* move to both broker-terminal statuses (ORDER_TRANSITIONS).
LEMMA Table ==
  /\ \A s \in OrderStatus \ TerminalStatuses :
       /\ "CANCELED" \in ORDER_TRANSITIONS[s]
       /\ s # "PARTIALLY_FILLED" => "REJECTED" \in ORDER_TRANSITIONS[s]
  /\ "CANCELED" \in ORDER_TRANSITIONS["CREATED"]
  BY Names DEF ORDER_TRANSITIONS, TerminalStatuses

\* Every step moves every order along the transition table, the claim apart.
\* Only recovery writes past the table (ResolveRecoveryTerminal): its answer
\* agrees with the venue, and the venue with a terminal status.
LEMMA MovesAreLegal ==
  ASSUME LedgerInv, [Next]_vars
  PROVE  LegalStep
<1> USE DEF LegalStep, LegalMove, order
<1>1. CASE UNCHANGED vars
  BY <1>1 DEF vars
<1>2. CASE EnterPhase
  BY <1>2 DEF EnterPhase
<1>3. CASE RepairStep
  <2>1. CASE RepairAbort
    BY <2>1 DEF RepairAbort
  <2>2. ASSUME NEW o \in Orders, RepairAdopt(o) PROVE LegalStep
    BY <2>2
       DEF RepairAdopt, CanMove, AdoptBrokerId, LedgerInv, SubmissionInv,
           TypeOK, OrderTyped
  <2>3. ASSUME NEW o \in Orders,
               RepairRecover(o)
        PROVE  LegalStep
    BY <2>3 DEF RepairRecover
  <2>4. QED
    BY <1>3, <2>1, <2>2, <2>3 DEF RepairStep
<1>4. CASE SubmitStep
  <2>1. ASSUME NEW o \in Orders, ClaimOrderForSubmission(o) PROVE LegalStep
    BY <2>1
       DEF ClaimOrderForSubmission, LedgerInv, SubmissionInv, TypeOK,
           OrderTyped
  <2>2. ASSUME NEW o \in Orders, ReleaseUnpriceable(o) PROVE LegalStep
    BY <2>2
       DEF ReleaseUnpriceable, CanMove, TransitionOrder, LedgerInv,
           SubmissionInv, TypeOK, OrderTyped
  <2>3. ASSUME NEW o \in Orders, SubmitTransient(o) PROVE LegalStep
    BY <2>3
       DEF SubmitTransient, CanMove, TransitionOrder, LedgerInv, SubmissionInv,
           TypeOK, OrderTyped
  <2>4. ASSUME NEW o \in Orders,
               ClaimSkipped(o) \/ SendSubmit(o) \/ PrepareAbort(o)
        PROVE  LegalStep
    BY <2>4 DEF ClaimSkipped, SendSubmit, PrepareAbort
  <2>5. QED
    BY <1>4, <2>1, <2>2, <2>3, <2>4 DEF SubmitStep
<1>5. CASE OutcomeStep
  <2>1. ASSUME NEW o \in Orders, SubmitAmbiguous(o) PROVE LegalStep
    BY <2>1
       DEF SubmitAmbiguous, CanMove, TransitionOrder, LedgerInv, SubmissionInv,
           TypeOK, OrderTyped
  <2>2. ASSUME NEW o \in Orders, FinalizeAcceptedSubmit(o) PROVE LegalStep
    BY <2>2
       DEF FinalizeAcceptedSubmit, CanMove, AdoptBrokerId, LedgerInv,
           SubmissionInv, TypeOK, OrderTyped
  <2>3. ASSUME NEW o \in Orders, FinalizeRetried(o) PROVE LegalStep
    BY <2>3
       DEF FinalizeRetried, CanMove, AdoptBrokerId, LedgerInv, SubmissionInv,
           TypeOK, OrderTyped
  <2>4. ASSUME NEW o \in Orders,
               VenueAccepts(o) \/ SubmitAcked(o) \/ SubmitTerminal(o) \/
                 SubmitAmbiguousOwned(o) \/ SubmitAmbiguousAbort(o) \/
                 HandleUnpersistedSubmit(o) \/
                 RecordAcceptedSubmitUncertainty(o) \/ FinalizeLost(o)
        PROVE  LegalStep
    BY <2>4
       DEF VenueAccepts, SubmitAcked, SubmitTerminal, SubmitAmbiguousOwned,
           SubmitAmbiguousAbort, HandleUnpersistedSubmit,
           RecordAcceptedSubmitUncertainty, FinalizeLost
  <2>5. QED
    BY <1>5, <2>1, <2>2, <2>3, <2>4 DEF OutcomeStep
<1>6. CASE RedriveStep
  <2>1. ASSUME NEW o \in Orders,
               RedriveSend(o) \/ RedriveUnpriceable(o) \/ RedriveUnreserved(o)
                 \/ RedriveAbort(o) \/ RedriveExhausted(o) \/ RedriveTransient(o)
        PROVE  LegalStep
    BY <2>1
       DEF RedriveSend, RedriveUnpriceable, RedriveUnreserved,
           RedriveAbort, RedriveExhausted, RedriveTransient
  <2>2. QED
    BY <1>6, <2>1 DEF RedriveStep
<1>7. CASE ResolveStep
  <2>1. CASE ResolveDeferred
    BY <2>1 DEF ResolveDeferred
  <2>2. ASSUME NEW o \in Orders, ResolveFound(o) PROVE LegalStep
    BY <2>2
       DEF ResolveFound, CanMove, TransitionOrder, AdoptBrokerId, LedgerInv,
           SubmissionInv, TypeOK, OrderTyped
  <2>3. ASSUME NEW o \in Orders, ResolveNotFound(o) PROVE LegalStep
    BY <2>3
       DEF ResolveNotFound, CanMove, TransitionOrder, LedgerInv, SubmissionInv,
           TypeOK, OrderTyped
  <2>4. ASSUME NEW o \in Orders,
               QuerySend(o) \/ QueryFails(o) \/ QueryFinds(o) \/ QueryMisses(o)
        PROVE  LegalStep
    BY <2>4 DEF QuerySend, QueryFails, QueryFinds, QueryMisses
  <2>5. QED
    BY <1>7, <2>1, <2>2, <2>3, <2>4 DEF ResolveStep
<1>8. CASE PollStep
  <2>1. ASSUME NEW o \in Orders, ApplyUpdate(o) PROVE LegalStep
    BY <2>1, ApplyMoves
       DEF TransitionOrder, CanMove, LedgerInv, SubmissionInv, TypeOK, OrderTyped
  <2>2. ASSUME NEW o \in Orders,
               PollSend(o) \/ PollFails(o) \/ PollReads(o)
        PROVE  LegalStep
    BY <2>2 DEF PollSend, PollFails, PollReads
  <2>3. QED
    BY <1>8, <2>1, <2>2 DEF PollStep
<1>9. CASE RecoverStep
  <2>1. ASSUME NEW o \in Orders, ResolveRecoveryTerminal(o) PROVE LegalStep
    <3>1. /\ venue[o].st = call.vst
          /\ call.vst \in {"canceled", "rejected"}
          /\ recorded[o] = 0
      BY <2>1, QtyAssumption
         DEF ResolveRecoveryTerminal, InCall, VenueTerminal, LedgerInv,
             LedgerParts, AnswerHolds, NoInventedFill, SubmissionInv, TypeOK,
             LedgerTyped
    <3>2. /\ status[o] # "FILLED" /\ status[o] # "PARTIALLY_FILLED"
          /\ status[o] = "CANCELED" => call.vst = "canceled"
          /\ status[o] = "REJECTED" => call.vst = "rejected"
      BY <3>1 DEF LedgerInv, LedgerParts, TerminalAgrees, Agrees,
                  TerminalStatuses, PartialHasFill
    <3>3. /\ status[o] \in OrderStatus
          /\ status'[o] \in {status[o], "CANCELED", "REJECTED"}
          /\ status'[o] # status[o] =>
               status'[o] = IF call.vst = "canceled" THEN "CANCELED" ELSE "REJECTED"
          /\ \A q \in Orders : q # o => status'[q] = status[q]
      BY <2>1 DEF ResolveRecoveryTerminal, LedgerInv, SubmissionInv, TypeOK,
                  OrderTyped
    <3>4. QED
      BY <3>1, <3>2, <3>3, Table DEF TerminalStatuses
  <2>2. ASSUME NEW o \in Orders,
               RecoverReads(o) \/ RecoverFails(o) \/ RecoverFilled(o) \/
                 RecoverLive(o) \/ RecoverCancels(o) \/ RecoverConfirms(o)
        PROVE  LegalStep
    BY <2>2
       DEF RecoverReads, RecoverFails, RecoverFilled, RecoverLive,
           RecoverCancels, RecoverConfirms
  <2>3. QED
    BY <1>9, <2>1, <2>2 DEF RecoverStep
<1>10. CASE CommandStep
  <2>1. CASE SetKillSwitch
    BY <2>1 DEF SetKillSwitch
  <2>2. CASE SetBuysPaused
    BY <2>2 DEF SetBuysPaused
  <2>3. CASE EnsureCurrentSession
    BY <2>3 DEF EnsureCurrentSession
  <2>4. ASSUME NEW s \in 1 .. today, CloseSession(s) PROVE LegalStep
    BY <2>4, Table DEF CloseSession, LocalCreatedCancelEligible
  <2>5. ASSUME NEW o \in Orders, CancelLocal(o) PROVE LegalStep
    BY <2>5
       DEF CancelLocal, CanMove, TransitionOrder, LedgerInv, SubmissionInv,
           TypeOK, OrderTyped
  <2>6. ASSUME NEW o \in Orders, CancelFinish(o) PROVE LegalStep
    BY <2>6
       DEF CancelFinish, CanMove, TransitionOrder, LedgerInv, SubmissionInv,
           TypeOK, OrderTyped
  <2>7. ASSUME NEW o \in Orders,
               CancelSend(o) \/ CancelLands(o) \/ CancelFails(o) \/
                 IngestSubmitRecoveryFill(o) \/ ReconcileSubmitRecovery(o)
        PROVE  LegalStep
    BY <2>7
       DEF CancelSend, CancelLands, CancelFails, IngestSubmitRecoveryFill,
           ReconcileSubmitRecovery
  <2>8. QED
    BY <1>10, <2>1, <2>2, <2>3, <2>4, <2>5, <2>6, <2>7 DEF CommandStep
<1>11. CASE VenueStep
  <2>1. ASSUME NEW o \in Orders,
               VenueFills(o) \/ VenueCancels(o) \/ VenueExpires(o) \/
                 VenueRejects(o) \/ LateLands(o) \/ LateLost(o)
        PROVE  LegalStep
    BY <2>1
       DEF VenueFills, VenueCancels, VenueExpires, VenueRejects, LateLands,
           LateLost
  <2>2. QED
    BY <1>11, <2>1 DEF VenueStep
<1>12. CASE StopStep
  <2>1. CASE Crash
    BY <2>1 DEF Crash
  <2>2. ASSUME NEW o \in Orders, Shutdown(o) PROVE LegalStep
    BY <2>2
       DEF Shutdown, CanMove, TransitionOrder, LedgerInv, SubmissionInv,
           TypeOK, OrderTyped
  <2>3. QED
    BY <1>12, <2>1, <2>2 DEF StopStep
<1>13. QED
  BY <1>1, <1>2, <1>3, <1>4, <1>5, <1>6, <1>7, <1>8, <1>9, <1>10, <1>11, <1>12
     DEF Next, LoopStep

-----------------------------------------------------------------------------
(* The theorems *)

\* LedgerInv is inductive under the operator's discipline.
THEOREM LedgerInvariant == OperatorWaits => (Spec => []LedgerInv)
<1> SUFFICES ASSUME OperatorWaits PROVE Spec => []LedgerInv
  OBVIOUS
<1>1. Init => LedgerInv
  <2>1. Init => LedgerParts
    BY QtyAssumption
       DEF Init, LedgerParts, NoInventedFill, TerminalAgrees, TerminalStatuses,
           AnswerHolds, Idle, PartialHasFill, ReleasedIsSettled
  <2>2. QED
    BY <2>1, InitSubmission DEF LedgerInv
<1>2. LedgerInv /\ [Next]_vars => LedgerInv'
  BY TypeKept, PartsKept, LedgerKept DEF LedgerInv, SubmissionInv
<1>3. QED
  BY <1>1, <1>2, PTL DEF Spec

\* No share is counted twice (_get_fills, append_fill and
\* ingest_submit_recovery_fill).
THEOREM NoShareCountedTwice == OperatorWaits => (Spec => []NoInventedFill)
<1>1. LedgerInv => NoInventedFill
  BY DEF LedgerInv, LedgerParts
<1>2. QED
  BY <1>1, LedgerInvariant, PTL

\* An order that the code declares terminal is settled at the venue and fully
\* recorded (_apply_update, _resolve_timeout_quarantine,
\* _recover_unpersisted_submits, close_session and the manual cancel).
THEOREM TerminalMeansSettled == OperatorWaits => (Spec => []TerminalIsSettled)
<1>1. LedgerInv => TerminalIsSettled
  BY Names
     DEF LedgerInv, LedgerParts, TerminalAgrees, Agrees, TerminalIsSettled,
         TerminalStatuses, VenueLive, MayLand
<1>2. QED
  BY <1>1, LedgerInvariant, PTL

\* Nothing is live at the venue, or on its way there, without a local owner: a
\* CREATED order is clean, a terminal one settled, an open one has its id, and
\* the rest are SUBMITTING or quarantined.
THEOREM LiveIsTracked == OperatorWaits => (Spec => []NoUntrackedLiveOrder)
<1>1. LedgerInv => NoUntrackedLiveOrder
  <2> SUFFICES ASSUME LedgerInv, NEW o \in Orders,
                      venue[o].st \in VenueLive \/ MayLand(o)
               PROVE  Tracked(o)
    BY DEF NoUntrackedLiveOrder
  <2>1. status[o] \in OrderStatus
    BY DEF LedgerInv, SubmissionInv, TypeOK, OrderTyped
  <2>2. status[o] # "CREATED"
    BY DEF LedgerInv, SubmissionInv, SubmissionParts, CreatedIsClean, Clean,
           VenueLive, MayLand
  <2>3. status[o] \notin TerminalStatuses
    BY DEF LedgerInv, LedgerParts, TerminalAgrees, Agrees, TerminalStatuses,
           VenueLive, MayLand
  <2>4. status[o] \in OpenStatuses => o \in bid
    BY DEF LedgerInv, SubmissionInv, SubmissionParts, OpenHasId
  <2>5. QED
    BY <2>1, <2>2, <2>3, <2>4 DEF OrderStatus, Tracked
<1>2. QED
  BY <1>1, LedgerInvariant, PTL

\* A released recovery record stays settled (_resolve_recovery_terminal and
\* reconcile_submit_recovery).
THEOREM ReleaseIsFinal == OperatorWaits => (Spec => []ReleasedIsSettled)
<1>1. LedgerInv => ReleasedIsSettled
  BY DEF LedgerInv, LedgerParts
<1>2. QED
  BY <1>1, LedgerInvariant, PTL

\* Every status change follows the transition table, or is the claim, also
\* where _record_recovery_terminal_fact writes past the table.
THEOREM LifecycleIsGuarded == OperatorWaits => (Spec => LifecycleGuarded)
<1> SUFFICES ASSUME OperatorWaits PROVE Spec => LifecycleGuarded
  OBVIOUS
<1>1. Spec => []LedgerInv
  BY LedgerInvariant
<1>2. LedgerInv /\ [Next]_vars => [LegalStep]_vars
  BY MovesAreLegal
<1>3. QED
  BY <1>1, <1>2, PTL DEF Spec, LifecycleGuarded

-----------------------------------------------------------------------------
(* Refinement of OrderOwnership                                             *)

SameExecuted == \A q \in Orders : venue'[q].filled = venue[q].filled

\* A step that concerns one order: it may move its status, and book shares of
\* an order that is not CREATED.
Concerns(o) ==
  /\ SameExecuted
  /\ \A q \in Orders \ {o} : status'[q] = status[q] /\ recorded'[q] = recorded[q]
  /\ recorded'[o] >= recorded[o]
  /\ recorded'[o] # recorded[o] => status[o] # "CREATED"

Unseen == SameExecuted /\ UNCHANGED <<status, recorded>>

\* Landing a request or a cancel executes nothing.
LEMMA LandExecutesNothing ==
  ASSUME TypeOK, NEW o \in Orders, Land(o) \/ LandCancel(o)
  PROVE  SameExecuted
BY DEF SameExecuted, Land, LandCancel, TypeOK, ExchangeTyped, VenueOrder

\* Setting the state of an order at the venue executes nothing.
LEMMA SetVenueExecutesNothing ==
  ASSUME TypeOK, NEW o \in Orders, NEW st, SetVenue(o, st)
  PROVE  SameExecuted
BY DEF SameExecuted, SetVenue, TypeOK, ExchangeTyped, VenueOrder

\* Every step is one of four kinds as far as status, executions and recorded
\* fills go: it touches none of them, it concerns one order, the venue executes
\* a share, or a session closes.
LEMMA Footprint ==
  ASSUME LedgerInv, [Next]_vars
  PROVE  \/ Unseen
         \/ \E o \in Orders : Concerns(o)
         \/ \E o \in Orders : VenueFills(o)
         \/ \E s \in 1 .. today : CloseSession(s)
<1> DEFINE Goal == \/ Unseen
                   \/ \E o \in Orders : Concerns(o)
                   \/ \E o \in Orders : VenueFills(o)
                   \/ \E s \in 1 .. today : CloseSession(s)
<1>t. TypeOK /\ recorded \in [Orders -> Nat] /\ status \in [Orders -> OrderStatus]
  BY DEF LedgerInv, SubmissionInv, TypeOK, LedgerTyped, OrderTyped
<1>m. ASSUME NEW o \in Orders, SameExecuted, UNCHANGED recorded,
             \A q \in Orders \ {o} : status'[q] = status[q]
      PROVE  Concerns(o)
  BY <1>t, <1>m DEF Concerns
<1>s. ASSUME UNCHANGED venue PROVE SameExecuted
  BY <1>s DEF SameExecuted
<1> SUFFICES Goal
  OBVIOUS
<1> USE DEF order, ledger, exchange
<1>1. CASE UNCHANGED vars
  BY <1>1, <1>s DEF vars, Unseen
<1>2. CASE EnterPhase
  BY <1>2, <1>s DEF EnterPhase, Unseen
<1>3. CASE RepairStep
  <2>1. CASE RepairAbort
    BY <2>1, <1>s DEF RepairAbort, Unseen
  <2>2. ASSUME NEW o \in Orders, RepairAdopt(o) PROVE Goal
    BY <2>2, <1>t, <1>m, <1>s DEF RepairAdopt, AdoptBrokerId
  <2>3. ASSUME NEW o \in Orders, RepairRecover(o) PROVE Goal
    BY <2>3, <1>s DEF RepairRecover, Unseen
  <2> QED BY <1>3, <2>1, <2>2, <2>3 DEF RepairStep
<1>4. CASE SubmitStep
  <2>1. ASSUME NEW o \in Orders,
               ClaimOrderForSubmission(o) \/ ReleaseUnpriceable(o) \/ SubmitTransient(o)
        PROVE  Goal
    BY <2>1, <1>t, <1>m, <1>s
       DEF ClaimOrderForSubmission, ReleaseUnpriceable, SubmitTransient, TransitionOrder
  <2>2. ASSUME NEW o \in Orders,
               ClaimSkipped(o) \/ SendSubmit(o) \/ PrepareAbort(o)
        PROVE  Goal
    BY <2>2, <1>s DEF ClaimSkipped, SendSubmit, PrepareAbort, Unseen
  <2> QED BY <1>4, <2>1, <2>2 DEF SubmitStep
<1>5. CASE OutcomeStep
  <2>1. ASSUME NEW o \in Orders,
               SubmitAmbiguous(o) \/ FinalizeAcceptedSubmit(o) \/ FinalizeRetried(o)
        PROVE  Goal
    BY <2>1, <1>t, <1>m, <1>s
       DEF SubmitAmbiguous, FinalizeAcceptedSubmit, FinalizeRetried, TransitionOrder,
           AdoptBrokerId
  <2>2. ASSUME NEW o \in Orders, VenueAccepts(o) PROVE Goal
    BY <2>2, <1>t, LandExecutesNothing DEF VenueAccepts, Unseen
  <2>3. ASSUME NEW o \in Orders,
               SubmitAcked(o) \/ SubmitTerminal(o) \/ SubmitAmbiguousOwned(o) \/
                 SubmitAmbiguousAbort(o) \/ HandleUnpersistedSubmit(o) \/
                 RecordAcceptedSubmitUncertainty(o) \/ FinalizeLost(o)
        PROVE  Goal
    BY <2>3, <1>s
       DEF SubmitAcked, SubmitTerminal, SubmitAmbiguousOwned, SubmitAmbiguousAbort,
           HandleUnpersistedSubmit, RecordAcceptedSubmitUncertainty, FinalizeLost,
           Unseen
  <2> QED BY <1>5, <2>1, <2>2, <2>3 DEF OutcomeStep
<1>6. CASE RedriveStep
  BY <1>6, <1>s
     DEF RedriveStep, RedriveSend, RedriveUnpriceable, RedriveUnreserved,
         RedriveAbort, RedriveExhausted, RedriveTransient, Unseen
<1>7. CASE ResolveStep
  <2>1. CASE ResolveDeferred
    BY <2>1, <1>s DEF ResolveDeferred, Unseen
  <2>2. ASSUME NEW o \in Orders, ResolveFound(o) \/ ResolveNotFound(o) PROVE Goal
    BY <2>2, <1>t, <1>m, <1>s
       DEF ResolveFound, ResolveNotFound, TransitionOrder, AdoptBrokerId
  <2>3. ASSUME NEW o \in Orders,
               QuerySend(o) \/ QueryFails(o) \/ QueryFinds(o) \/ QueryMisses(o)
        PROVE  Goal
    BY <2>3, <1>s DEF QuerySend, QueryFails, QueryFinds, QueryMisses, Unseen
  <2> QED BY <1>7, <2>1, <2>2, <2>3 DEF ResolveStep
<1>8. CASE PollStep
  <2>1. ASSUME NEW o \in Orders, ApplyUpdate(o) PROVE Goal
    <3>1. PICK priced, conflict : BookFill(o, FillDelta(priced), conflict)
      BY <2>1 DEF ApplyUpdate
    <3>2. Booked(o, FillDelta(priced)) >= recorded[o]
      BY <2>1, Booking DEF ApplyUpdate
    <3>3. /\ recorded'[o] = Booked(o, FillDelta(priced))
          /\ \A q \in Orders \ {o} : recorded'[q] = recorded[q]
      BY <3>1, <1>t DEF BookFill
    <3>4. \A q \in Orders \ {o} : status'[q] = status[q]
      BY <2>1, <1>t, ApplyMoves DEF TransitionOrder, LedgerInv
    <3>5. status[o] # "CREATED"
      BY <2>1 DEF ApplyUpdate, InCall, LedgerInv, SubmissionInv, SubmissionParts,
                  LoopShape, CreatedIsClean, Clean
    <3>6. SameExecuted
      BY <2>1, <1>s DEF ApplyUpdate
    <3> QED BY <3>2, <3>3, <3>4, <3>5, <3>6 DEF Concerns
  <2>2. ASSUME NEW o \in Orders, PollSend(o) \/ PollFails(o) \/ PollReads(o)
        PROVE  Goal
    BY <2>2, <1>s DEF PollSend, PollFails, PollReads, Unseen
  <2> QED BY <1>8, <2>1, <2>2 DEF PollStep
<1>9. CASE RecoverStep
  <2>1. ASSUME NEW o \in Orders, ResolveRecoveryTerminal(o) PROVE Goal
    BY <2>1, <1>t, <1>m, <1>s DEF ResolveRecoveryTerminal
  <2>2. ASSUME NEW o \in Orders, RecoverCancels(o) PROVE Goal
    BY <2>2, <1>t, LandExecutesNothing DEF RecoverCancels, Unseen
  <2>3. ASSUME NEW o \in Orders,
               RecoverReads(o) \/ RecoverFails(o) \/ RecoverFilled(o) \/
                 RecoverLive(o) \/ RecoverConfirms(o)
        PROVE  Goal
    BY <2>3, <1>s
       DEF RecoverReads, RecoverFails, RecoverFilled, RecoverLive, RecoverConfirms,
           Unseen
  <2> QED BY <1>9, <2>1, <2>2, <2>3 DEF RecoverStep
<1>10. CASE CommandStep
  <2>1. CASE SetKillSwitch \/ SetBuysPaused \/ EnsureCurrentSession
    BY <2>1, <1>s DEF SetKillSwitch, SetBuysPaused, EnsureCurrentSession, Unseen
  <2>2. ASSUME NEW o \in Orders, CancelLocal(o) \/ CancelFinish(o) PROVE Goal
    BY <2>2, <1>t, <1>m, <1>s DEF CancelLocal, CancelFinish, TransitionOrder
  <2>3. ASSUME NEW o \in Orders, CancelLands(o) PROVE Goal
    BY <2>3, <1>t, LandExecutesNothing DEF CancelLands, Unseen
  <2>4. ASSUME NEW o \in Orders, IngestSubmitRecoveryFill(o) PROVE Goal
    <3>1. PICK level \in Levels : /\ recorded[o] < level
                                  /\ recorded' = [recorded EXCEPT ![o] = level]
      BY <2>4 DEF IngestSubmitRecoveryFill
    <3>2. status[o] # "CREATED"
      BY <2>4 DEF IngestSubmitRecoveryFill, LedgerInv, SubmissionInv, SubmissionParts,
                  CreatedIsClean, Clean
    <3>3. recorded'[o] = level /\ \A q \in Orders \ {o} : recorded'[q] = recorded[q]
      BY <3>1, <1>t
    <3>4. recorded'[o] >= recorded[o]
      BY <3>1, <3>3, <1>t, QtyAssumption DEF Levels
    <3> QED BY <2>4, <3>2, <3>3, <3>4, <1>s DEF IngestSubmitRecoveryFill, Concerns
  <2>5. ASSUME NEW o \in Orders,
               CancelSend(o) \/ CancelFails(o) \/ ReconcileSubmitRecovery(o)
        PROVE  Goal
    BY <2>5, <1>s DEF CancelSend, CancelFails, ReconcileSubmitRecovery, Unseen
  <2> QED BY <1>10, <2>1, <2>2, <2>3, <2>4, <2>5 DEF CommandStep
<1>11. CASE VenueStep
  <2>1. ASSUME NEW o \in Orders,
               VenueCancels(o) \/ VenueExpires(o) \/ VenueRejects(o) \/ LateLands(o)
        PROVE  Goal
    BY <2>1, <1>t, SetVenueExecutesNothing, LandExecutesNothing
       DEF VenueCancels, VenueExpires, VenueRejects, LateLands, Unseen
  <2>2. ASSUME NEW o \in Orders, LateLost(o) PROVE Goal
    BY <2>2, <1>s DEF LateLost, Unseen
  <2> QED BY <1>11, <2>1, <2>2 DEF VenueStep
<1>12. CASE StopStep
  <2>1. CASE Crash
    BY <2>1, <1>s DEF Crash, Unseen
  <2>2. ASSUME NEW o \in Orders, Shutdown(o) PROVE Goal
    BY <2>2, <1>t, <1>m, <1>s DEF Shutdown, TransitionOrder
  <2> QED BY <1>12, <2>1, <2>2 DEF StopStep
<1> QED
  BY <1>1, <1>2, <1>3, <1>4, <1>5, <1>6, <1>7, <1>8, <1>9, <1>10, <1>11, <1>12
     DEF Next, LoopStep

\* What the invariant says of an order at each stage.
StageSound ==
  \A o \in Orders :
    /\ recorded[o] \in Nat /\ venue[o].filled \in Nat
    /\ recorded[o] <= venue[o].filled
    /\ OwnStage(o) = "local" <=> status[o] = "CREATED"
    /\ OwnStage(o) = "settled" <=> status[o] \in TerminalStatuses
    /\ OwnStage(o) \in {"local", "owned", "settled"}
    /\ OwnStage(o) = "local" => venue[o].filled = 0
    /\ OwnStage(o) = "settled" => recorded[o] = venue[o].filled
    /\ OwnStage(o) # "owned" => venue[o].st \notin VenueLive

\* A local order has executed nothing, a settled one executes no more and all
\* of it is recorded (CreatedIsClean, TerminalAgrees).
LEMMA StageFacts == LedgerInv => StageSound
<1> SUFFICES ASSUME LedgerInv, NEW o \in Orders
             PROVE  /\ recorded[o] \in Nat /\ venue[o].filled \in Nat
                    /\ recorded[o] <= venue[o].filled
                    /\ OwnStage(o) = "local" <=> status[o] = "CREATED"
                    /\ OwnStage(o) = "settled" <=> status[o] \in TerminalStatuses
                    /\ OwnStage(o) \in {"local", "owned", "settled"}
                    /\ OwnStage(o) = "local" => venue[o].filled = 0
                    /\ OwnStage(o) = "settled" => recorded[o] = venue[o].filled
                    /\ OwnStage(o) # "owned" => venue[o].st \notin VenueLive
  BY DEF StageSound
<1>1. recorded[o] \in Nat /\ venue[o].filled \in Nat
  BY QtyAssumption DEF LedgerInv, SubmissionInv, TypeOK, LedgerTyped, ExchangeTyped,
     VenueOrder
<1>2. recorded[o] <= venue[o].filled
  BY DEF LedgerInv, LedgerParts, NoInventedFill
<1>3. "CREATED" \notin TerminalStatuses
  BY DEF TerminalStatuses
<1>4. /\ OwnStage(o) = "local" <=> status[o] = "CREATED"
      /\ OwnStage(o) = "settled" <=> status[o] \in TerminalStatuses
      /\ OwnStage(o) \in {"local", "owned", "settled"}
  BY <1>3 DEF OwnStage
<1>5. status[o] = "CREATED" => venue[o].filled = 0 /\ venue[o].st \notin VenueLive
  BY DEF LedgerInv, SubmissionInv, SubmissionParts, CreatedIsClean, Clean, VenueSound,
         VenueLive
<1>6. status[o] \in TerminalStatuses =>
        recorded[o] = venue[o].filled /\ venue[o].st \notin VenueLive
  BY DEF LedgerInv, LedgerParts, TerminalAgrees, Agrees, TerminalStatuses, VenueLive
<1> QED BY <1>1, <1>2, <1>4, <1>5, <1>6

\* The initial state of the order path is one of OrderOwnership.
LEMMA InitOwnership == Init => Ownership!Init
<1> SUFFICES ASSUME Init PROVE Ownership!Init
  OBVIOUS
<1>1. "CREATED" \notin TerminalStatuses
  BY DEF TerminalStatuses
<1>2. ASSUME NEW o \in Orders PROVE OwnStage(o) = "local" /\ venue[o].filled = 0
  <2>1. status[o] = "CREATED" /\ venue[o].filled = 0
    BY DEF Init
  <2> QED BY <2>1, <1>1 DEF OwnStage
<1> QED BY <1>2 DEF Init, Ownership!Init

\* Every step of the order path is a step of OrderOwnership or leaves it alone.
LEMMA StepOwnership ==
  ASSUME LedgerInv, LedgerInv', [Next]_vars
  PROVE  [Ownership!Next]_(Ownership!vars)
<1> DEFINE st == [o \in Orders |-> OwnStage(o)]
           ex == [o \in Orders |-> venue[o].filled]
<1>1. StageSound /\ StageSound'
  BY StageFacts, PTL
<1>2. LegalStep
  BY MovesAreLegal
<1>3. /\ DOMAIN recorded = Orders /\ recorded = [o \in Orders |-> recorded[o]]
      /\ DOMAIN recorded' = Orders /\ recorded' = [o \in Orders |-> recorded'[o]]
  BY DEF LedgerInv, SubmissionInv, TypeOK, LedgerTyped
<1>4. ASSUME NEW o \in Orders, status'[o] = status[o]
      PROVE  OwnStage(o)' = OwnStage(o)
  BY <1>4 DEF OwnStage
<1>5. ASSUME NEW o \in Orders, status[o] \in TerminalStatuses
      PROVE  status'[o] = status[o]
  <2>1. status[o] \in OrderStatus /\ ORDER_TRANSITIONS[status[o]] = {}
    BY <1>5 DEF ORDER_TRANSITIONS, OrderStatus, TerminalStatuses
  <2>2. status[o] # "CREATED"
    BY <1>5 DEF TerminalStatuses
  <2> QED BY <1>2, <2>1, <2>2 DEF LegalStep, LegalMove
<1>6. CASE Unseen
  <2>1. st' = st /\ ex' = ex /\ recorded' = recorded
    BY <1>4, <1>6 DEF Unseen, SameExecuted
  <2> QED BY <2>1 DEF Ownership!vars
<1>7. ASSUME NEW o \in Orders, Concerns(o)
      PROVE  [Ownership!Next]_(Ownership!vars)
  <2>1. ex' = ex /\ venue'[o].filled = venue[o].filled
    BY <1>7 DEF Concerns, SameExecuted
  <2>2. st' = [st EXCEPT ![o] = OwnStage(o)']
    BY <1>4, <1>7 DEF Concerns
  <2>3. recorded' = [recorded EXCEPT ![o] = recorded'[o]]
    BY <1>3, <1>7 DEF Concerns
  <2>4. /\ recorded[o] \in Nat /\ recorded'[o] \in Nat /\ venue[o].filled \in Nat
        /\ recorded'[o] >= recorded[o] /\ recorded'[o] <= venue[o].filled
        /\ OwnStage(o) = "local" => recorded'[o] = recorded[o]
    BY <1>1, <1>7, <2>1 DEF StageSound, Concerns
  <2>5. CASE OwnStage(o) = "settled"
    <3>1. OwnStage(o)' = OwnStage(o) /\ recorded'[o] = recorded[o]
      BY <1>1, <1>4, <1>5, <2>4, <2>5 DEF StageSound
    <3> QED BY <1>3, <2>1, <2>2, <2>3, <3>1 DEF Ownership!vars
  <2>6. CASE OwnStage(o) = "local"
    <3>1. recorded' = recorded
      BY <1>3, <2>3, <2>4, <2>6
    <3>2. CASE OwnStage(o)' = "local"
      BY <2>1, <2>2, <2>6, <3>1, <3>2 DEF Ownership!vars
    <3>3. CASE OwnStage(o)' = "owned"
      <4>1. Ownership!Claim(o)
        BY <2>1, <2>2, <2>6, <3>1, <3>3 DEF Ownership!Claim
      <4> QED BY <4>1 DEF Ownership!Next
    <3>4. CASE OwnStage(o)' = "settled"
      <4>1. Ownership!Withdraw({o})
        BY <2>1, <2>2, <2>6, <3>1, <3>4 DEF Ownership!Withdraw
      <4> QED BY <4>1 DEF Ownership!Next
    <3> QED BY <1>1, <3>2, <3>3, <3>4 DEF StageSound
  <2>7. CASE OwnStage(o) = "owned"
    <3>1. CASE OwnStage(o)' = "local"
      <4>1. venue[o].filled = 0 /\ recorded'[o] = recorded[o]
        BY <1>1, <2>1, <2>4, <3>1 DEF StageSound
      <4>2. Ownership!Release(o)
        BY <1>3, <2>1, <2>2, <2>3, <2>7, <3>1, <4>1 DEF Ownership!Release
      <4> QED BY <4>2 DEF Ownership!Next
    <3>2. CASE OwnStage(o)' = "owned"
      <4>1. recorded'[o] \in recorded[o] .. venue[o].filled
        BY <2>4
      <4>2. st' = st
        BY <2>2, <2>7, <3>2
      <4>3. Ownership!Book(o)
        BY <2>1, <2>3, <2>7, <4>1, <4>2 DEF Ownership!Book
      <4> QED BY <4>3 DEF Ownership!Next
    <3>3. CASE OwnStage(o)' = "settled"
      <4>1. recorded'[o] = venue[o].filled /\ recorded[o] <= venue[o].filled
        BY <1>1, <2>1, <3>3 DEF StageSound
      <4>2. Ownership!Settle(o)
        BY <2>1, <2>2, <2>3, <2>7, <3>3, <4>1 DEF Ownership!Settle
      <4> QED BY <4>2 DEF Ownership!Next
    <3> QED BY <1>1, <3>1, <3>2, <3>3 DEF StageSound
  <2> QED BY <1>1, <2>5, <2>6, <2>7 DEF StageSound
<1>8. ASSUME NEW o \in Orders, VenueFills(o)
      PROVE  [Ownership!Next]_(Ownership!vars)
  <2>1. venue \in [Orders -> VenueOrder]
    BY DEF LedgerInv, SubmissionInv, TypeOK, ExchangeTyped
  <2>2. ex' = [ex EXCEPT ![o] = @ + 1]
    BY <1>8, <2>1 DEF VenueFills, VenueOrder
  <2>3. st' = st /\ recorded' = recorded
    BY <1>4, <1>8 DEF VenueFills, order, ledger
  <2>4. OwnStage(o) = "owned"
    BY <1>1, <1>8 DEF VenueFills, StageSound
  <2>5. Ownership!Execute(o)
    BY <2>2, <2>3, <2>4 DEF Ownership!Execute
  <2> QED BY <2>5 DEF Ownership!Next
<1>9. ASSUME NEW s \in 1 .. today, CloseSession(s)
      PROVE  [Ownership!Next]_(Ownership!vars)
  <2> DEFINE S == {o \in Orders : /\ s = OwnSession /\ o \in Buys
                                  /\ LocalCreatedCancelEligible(o)}
  <2>1. ex' = ex /\ recorded' = recorded
    BY <1>9 DEF CloseSession, exchange, ledger
  <2>2. \A o \in S : OwnStage(o) = "local"
    BY <1>1 DEF LocalCreatedCancelEligible, StageSound
  <2>3. ASSUME NEW o \in Orders
        PROVE  OwnStage(o)' = IF o \in S THEN "settled" ELSE OwnStage(o)
    <3>1. CASE o \in S
      <4>1. status'[o] \in TerminalStatuses
        BY <1>9, <3>1 DEF CloseSession, TerminalStatuses
      <4> QED BY <1>1, <3>1, <4>1 DEF StageSound
    <3>2. CASE o \notin S
      BY <1>4, <1>9, <3>2 DEF CloseSession
    <3> QED BY <3>1, <3>2
  <2>4. Ownership!Withdraw(S)
    BY <2>1, <2>2, <2>3 DEF Ownership!Withdraw
  <2> QED BY <2>4 DEF Ownership!Next
<1> QED BY Footprint, <1>6, <1>7, <1>8, <1>9

\* The order path implements OrderOwnership: whatever loop, commands, venue and
\* crashes do, an order executes only while it is owned, and is settled only
\* with its last execution recorded (every write of status and fills).
THEOREM OrderPathImplementsOwnership == OperatorWaits => (Spec => ImplementsOwnership)
<1> SUFFICES ASSUME OperatorWaits PROVE Spec => Ownership!Spec
  BY DEF ImplementsOwnership
<1>1. Spec => []LedgerInv
  BY LedgerInvariant
<1>2. LedgerInv /\ LedgerInv' /\ [Next]_vars => [Ownership!Next]_(Ownership!vars)
  BY StepOwnership
<1> QED BY <1>1, <1>2, InitOwnership, PTL DEF Spec, Ownership!Spec
=============================================================================
