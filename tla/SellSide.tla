------------------------------- MODULE SellSide -------------------------------
(***************************************************************************)
(* The exits of one symbol: the position derived from recorded fills, the  *)
(* protective exit the loop opens, the operator's flatten and emergency    *)
(* reduce, the buy candidates that compete with them, and the claim rails   *)
(* that keep a buy and a sell of the symbol from meeting at the venue.      *)
(*                                                                         *)
(* An order is used through OrderOwnership: it executes between its claim   *)
(* and its terminal status, and a terminal order is fully recorded.  Store  *)
(* operations are atomic; a task is split where it waits for the broker.    *)
(***************************************************************************)
EXTENDS Integers, FiniteSets, Functions

CONSTANTS
  MaxOrders,    \* bound: orders ever minted
  Held,         \* shares bought before the model starts, by order 1
  BuyQty,       \* size of a candidate
  Cands,        \* candidates
  MaxDays,      \* bound: trading days
  MaxTries,     \* _FLATTEN_MAX_BUY_CANCEL_ATTEMPTS
  MaxCommands,  \* bound: kill-switch toggles and flatten requests
  MaxOver       \* bound: shares the venue executes beyond an order's size

ASSUME SellSideAssumption ==
  /\ MaxOrders \in Nat \ {0} /\ Held \in Nat \ {0} /\ BuyQty \in Nat \ {0}
  /\ IsFiniteSet(Cands) /\ MaxDays \in Nat \ {0} /\ MaxTries \in Nat \ {0}
  /\ MaxCommands \in Nat /\ MaxOver \in Nat

VARIABLES
  ord,       \* the orders, in the order they were minted
  cand,      \* the candidates
  latched,   \* an overfill quarantine event names the symbol
  today,     \* the current session
  halted,    \* sessions with the kill switch engaged
  override,  \* sessions with an unconsumed emergency-reduce grant
  prot,      \* the loop's protection phase
  sending,   \* the order whose submit call the loop waits for, or 0
  flat,      \* the operator's flatten or emergency reduce
  commands, over

vars == <<ord, cand, latched, today, halted, override, prot, sending, flat, commands,
          over>>

-----------------------------------------------------------------------------
Ids == 1 .. MaxOrders
Days == 1 .. MaxDays
Kinds == {"none", "buy", "floor", "flatten"}
MayExecuteStatuses_NoQuarantine == {"SUBMITTING", "SUBMITTED", "CANCEL_PENDING"}
MayExecuteStatuses == {"SUBMITTING", "TIMEOUT_QUARANTINE", "SUBMITTED", "CANCEL_PENDING"}
OpenBuyStatuses == {"CREATED", "SUBMITTED"}
OrderStatus == MayExecuteStatuses \cup {"CREATED", "TERMINAL"}

OrderRecord ==
  [kind : Kinds, qty : Nat, day : Days, status : OrderStatus,
   venue : {"absent", "live", "done"}, executed : Nat, booked : Nat,
   recovery : {"none", "unresolved", "needs_review"}, born : 0 .. MaxOrders]

CandRecord ==
  [st : {"none", "PENDING", "APPROVED", "ORDERED", "REJECTED", "EXPIRED"},
   day : Days, born : 0 .. MaxOrders]

\* prot: idle, or canceling the buys in todo before the exit is opened.
\* flat: idle, about to decide, or canceling the buys in todo before a retry.
TypeOK ==
  /\ ord \in [Ids -> OrderRecord]
  /\ cand \in [Cands -> CandRecord]
  /\ latched \in BOOLEAN
  /\ today \in Days /\ halted \subseteq Days /\ override \subseteq Days
  /\ prot \in [pc : {"idle", "cancel"}, todo : SUBSET Ids, day : Days]
  /\ flat \in [pc : {"idle", "decide", "cancel"}, todo : SUBSET Ids,
               tries : 0 .. MaxTries, emergency : BOOLEAN, day : Days]
  /\ sending \in 0 .. MaxOrders
  /\ commands \in 0 .. MaxCommands /\ over \in 0 .. MaxOver

NewOrder(k, q, d, b) ==
  [kind |-> k, qty |-> q, day |-> d, status |-> "CREATED", venue |-> "absent",
   executed |-> 0, booked |-> 0, recovery |-> "none", born |-> b]

NoOrder == [NewOrder("none", 0, 1, 0) EXCEPT !.status = "TERMINAL", !.venue = "done"]

\* A settled buy of Held shares: the position the exits are about.
HeldOrder ==
  [NewOrder("buy", Held, 1, 0) EXCEPT
     !.status = "TERMINAL", !.venue = "done", !.executed = Held, !.booked = Held]

NoFlatten == [pc |-> "idle", todo |-> {}, tries |-> 0, emergency |-> FALSE, day |-> 1]

Init ==
  /\ ord = [i \in Ids |-> IF i = 1 THEN HeldOrder ELSE NoOrder]
  /\ cand = [c \in Cands |-> [st |-> "none", day |-> 1, born |-> 0]]
  /\ latched = FALSE
  /\ today = 1 /\ halted = {} /\ override = {}
  /\ prot = [pc |-> "idle", todo |-> {}, day |-> 1]
  /\ flat = NoFlatten
  /\ sending = 0
  /\ commands = 0 /\ over = 0

-----------------------------------------------------------------------------
(* What the store derives under its lock.  f is the order table. *)

Minted(f) == Cardinality({i \in Ids : f[i].kind # "none"})
Buys(f) == {i \in Ids : f[i].kind = "buy"}
Sells(f) == {i \in Ids : f[i].kind \in {"floor", "flatten"}}

Signed(r, n) == CASE r.kind = "none" -> 0 [] r.kind = "buy" -> n [] OTHER -> 0 - n

\* project_symbol_position: recorded buys minus recorded sells.
Position(f) == SumFunctionOnSet([i \in Ids |-> Signed(f[i], f[i].booked)], Ids)

RecoveryOpen(r) == r.recovery # "none"

SellMayExecute(r) ==
  r.recovery = "unresolved" \/ (r.recovery = "none" /\ r.status # "TERMINAL")

DirectSells(f) == {i \in Sells(f) : SellMayExecute(f[i])}
DirectSellRecoveries(f) == {i \in Sells(f) : RecoveryOpen(f[i])}

\* The newest exit that single flight counts as active; a needs_review record
\* takes its order out.
ActiveExits(f) == {i \in Sells(f) : f[i].status # "TERMINAL" /\ f[i].recovery # "needs_review"}

ExitMayExecute(f) == \E i \in Sells(f) : f[i].status # "TERMINAL" \/ RecoveryOpen(f[i])

BuyExposure(f, statuses) == {i \in Buys(f) : f[i].status \in statuses \/ RecoveryOpen(f[i])}
OpenBuys == {i \in Buys(ord) : ord[i].status \in OpenBuyStatuses}
BuyMayExecute(f) == BuyExposure(f, MayExecuteStatuses) # {}

LocalCancelEligible(r) == r.status = "CREATED" /\ ~RecoveryOpen(r)

StandDownBuys_Keeps(f) == f

\* _stand_down_symbol_created_buys: cancel every buy that is still local.
StandDownBuys(f) ==
  [i \in Ids |-> IF f[i].kind = "buy" /\ LocalCancelEligible(f[i])
                 THEN [f[i] EXCEPT !.status = "TERMINAL", !.venue = "done"] ELSE f[i]]

\* _stand_down_symbol_buy_candidates: expire every proposal not yet ordered.
StandDownCandidates ==
  [c \in Cands |-> IF cand[c].st \in {"PENDING", "APPROVED"}
                   THEN [cand[c] EXCEPT !.st = "EXPIRED"] ELSE cand[c]]

\* The APPROVED -> ORDERED handoff of a sell intent that was inserted and
\* approved in the same unit: nothing is written unless every rail lets it pass.
MayDispatchExit(f, q, allowHalted) ==
  /\ DirectSells(f) = {} /\ DirectSellRecoveries(f) = {}
  /\ allowHalted \/ today \notin halted
  /\ ~BuyMayExecute(f)
  /\ 0 < q /\ q <= Position(f)

DispatchExit(f, k, q, d) ==
  /\ Minted(f) < MaxOrders
  /\ ord' = [StandDownBuys(f) EXCEPT
               ![Minted(f) + 1] = NewOrder(k, q, d, Minted(f))]
  /\ cand' = StandDownCandidates

-----------------------------------------------------------------------------
(* Protection: the loop's first phase, for a held symbol below its floor *)

UnchangedRest == UNCHANGED <<latched, today, halted, override, sending, commands, over>>

CancelOpenBuy_Never(i) == UNCHANGED ord

\* cancel_open_buys, one order: locally if it is still CREATED and no record
\* says otherwise, at the broker if it is working.
CancelOpenBuy(i) ==
  \/ /\ LocalCancelEligible(ord[i])
     /\ ord' = [ord EXCEPT ![i].status = "TERMINAL", ![i].venue = "done"]
  \/ /\ ord[i].status = "SUBMITTED"
     /\ ord' = [ord EXCEPT ![i].status = "CANCEL_PENDING"]
  \/ ~LocalCancelEligible(ord[i]) /\ UNCHANGED ord  \* moved on, or the call failed

\* _run_protection and the head of _open_protective_exit.
ProtectStart ==
  /\ prot.pc = "idle" /\ sending = 0 /\ Position(ord) > 0
  /\ today \notin halted
  /\ ActiveExits(ord) = {}
  /\ prot' = [pc |-> "cancel", todo |-> OpenBuys, day |-> today]
  /\ UNCHANGED <<ord, cand, flat>> /\ UnchangedRest

ProtectCancelBuy(i) ==
  /\ prot.pc = "cancel" /\ i \in prot.todo
  /\ CancelOpenBuy(i)
  /\ prot' = [prot EXCEPT !.todo = @ \ {i}]
  /\ UNCHANGED <<cand, flat>> /\ UnchangedRest

OpenProtectionExit_StaleHalt ==
  /\ prot.pc = "cancel" /\ prot.todo = {}
  /\ prot' = [prot EXCEPT !.pc = "idle"]
  /\ \/ /\ Position(ord) > 0 /\ ActiveExits(ord) = {}
        /\ MayDispatchExit(ord, Position(ord), TRUE)
        /\ DispatchExit(ord, "floor", Position(ord), prot.day)
     \/ UNCHANGED <<ord, cand>>
  /\ UNCHANGED flat /\ UnchangedRest

\* open_protection_exit: the live position is read again after the cancels; an
\* active exit, unresolved exposure, a stop of trading or a buy that may still
\* execute each leave everything as it was until the next tick.
OpenProtectionExit ==
  /\ prot.pc = "cancel" /\ prot.todo = {}
  /\ prot' = [prot EXCEPT !.pc = "idle"]
  /\ IF ActiveExits(ord) = {} /\ MayDispatchExit(ord, Position(ord), FALSE)
     THEN DispatchExit(ord, "floor", Position(ord), prot.day)
     ELSE UNCHANGED <<ord, cand>>
  /\ UNCHANGED flat /\ UnchangedRest

-----------------------------------------------------------------------------
(* The operator: flatten and emergency reduce *)

Command == commands < MaxCommands /\ commands' = commands + 1

CreateExit ==
  /\ flat.pc = "idle" /\ Command
  /\ flat' = [NoFlatten EXCEPT !.pc = "decide", !.day = today]
  /\ UNCHANGED <<sending, ord, cand, latched, today, halted, override, prot, over>>

\* authorize_emergency_reduce_override; a grant that is still there is reused.
EmergencyReduce ==
  /\ flat.pc = "idle" /\ Command
  /\ today \in halted /\ Position(ord) > 0
  /\ \A i \in Ids : ord[i].status # "TIMEOUT_QUARANTINE"
  /\ override' = override \cup {today}
  /\ flat' = [pc |-> "cancel", todo |-> OpenBuys,
              tries |-> 0, emergency |-> TRUE, day |-> today]
  /\ UNCHANGED <<sending, ord, cand, latched, today, halted, prot, over>>

FlattenCancelBuy(i) ==
  /\ flat.pc = "cancel" /\ i \in flat.todo
  /\ CancelOpenBuy(i)
  /\ flat' = [flat EXCEPT !.todo = @ \ {i}]
  /\ UNCHANGED <<cand, prot>> /\ UnchangedRest

FlattenRetry ==
  /\ flat.pc = "cancel" /\ flat.todo = {}
  /\ flat' = [flat EXCEPT !.pc = "decide"]
  /\ UNCHANGED <<ord, cand, prot>> /\ UnchangedRest

\* flatten_position refuses outright: exposure that cannot be told apart from
\* the exit it would mint, or a grant of another session.
FlattenBlocked ==
  \/ DirectSellRecoveries(ord) # {}
  \/ /\ DirectSells(ord) # {}
     /\ \/ Position(ord) <= 0
        \/ Cardinality(DirectSells(ord)) # 1
        \/ ~(DirectSells(ord) \subseteq ActiveExits(ord))
  \/ flat.emergency /\ (flat.day # today \/ today \notin override)

FlattenOutcome ==
  CASE FlattenBlocked -> "blocked"
    [] Position(ord) <= 0 -> "flat"
    [] today \in halted /\ ~flat.emergency -> "denied"
    [] BuyExposure(ord, MayExecuteStatuses \cup OpenBuyStatuses) # {} -> "buys_open"
    [] \E i \in ActiveExits(ord) : ord[i].kind = "flatten" \/ ord[i].status # "CREATED"
         -> "existing"
    [] OTHER -> "create"

ConsumeGrant == override' = IF flat.emergency THEN override \ {today} ELSE override

\* A protective exit that has not left the store yet gives way to the flatten.
Supersede(f) ==
  [i \in Ids |-> IF i \in ActiveExits(f)
                 THEN [f[i] EXCEPT !.status = "TERMINAL", !.venue = "done"] ELSE f[i]]

\* flatten_position: decision and writes are one unit, the consumption of the
\* grant included.
FlattenCreate ==
  /\ flat.pc = "decide" /\ FlattenOutcome = "create"
  /\ MayDispatchExit(StandDownBuys(Supersede(ord)), Position(ord), flat.emergency)
  /\ DispatchExit(Supersede(ord), "flatten", Position(ord), today)
  /\ ConsumeGrant
  /\ flat' = NoFlatten
  /\ UNCHANGED <<sending, latched, today, halted, prot, commands, over>>

\* Nothing to mint: a refusal keeps the grant, an answered command consumes it.
FlattenNothing ==
  /\ flat.pc = "decide"
  /\ \/ FlattenOutcome \in {"blocked", "denied"} /\ UNCHANGED override
     \/ FlattenOutcome \in {"flat", "existing"} /\ ConsumeGrant
     \/ FlattenOutcome = "buys_open" /\ flat.tries + 1 = MaxTries /\ UNCHANGED override
  /\ flat' = NoFlatten
  /\ UNCHANGED <<sending, ord, cand, latched, today, halted, prot, commands, over>>

\* Open buys are canceled, which only asks for it, and the decision is retried.
FlattenBuysOpen ==
  /\ flat.pc = "decide" /\ FlattenOutcome = "buys_open" /\ flat.tries + 1 < MaxTries
  /\ flat' = [flat EXCEPT !.pc = "cancel", !.tries = @ + 1,
                          !.todo = OpenBuys]
  /\ UNCHANGED <<ord, cand, prot>> /\ UnchangedRest

-----------------------------------------------------------------------------
(* Candidates *)

CreateCandidate(c) ==
  /\ cand[c].st = "none" /\ ~ExitMayExecute(ord)
  /\ \A d \in Cands : ~(cand[d].st \in {"PENDING", "APPROVED"} /\ cand[d].day = today)
  /\ cand' = [cand EXCEPT ![c] = [st |-> "PENDING", day |-> today, born |-> Minted(ord)]]
  /\ UNCHANGED <<ord, prot, flat>> /\ UnchangedRest

\* The gate's approval, its rejection, and the revert after a failed dispatch.
DecideCandidate(c) ==
  /\ \/ cand[c].st = "PENDING" /\ cand' \in
          {[cand EXCEPT ![c].st = "APPROVED"], [cand EXCEPT ![c].st = "REJECTED"]}
     \/ cand[c].st = "APPROVED" /\ cand' = [cand EXCEPT ![c].st = "PENDING"]
  /\ UNCHANGED <<ord, prot, flat>> /\ UnchangedRest

\* create_order_for_candidate: an exit that may execute ends the proposal.
CreateOrderForCandidate(c) ==
  /\ cand[c].st = "APPROVED"
  /\ \/ /\ ExitMayExecute(ord)
        /\ cand' = [cand EXCEPT ![c].st = "EXPIRED"] /\ UNCHANGED ord
     \/ /\ ~ExitMayExecute(ord) /\ cand[c].day \notin halted /\ ~latched
        /\ Minted(ord) < MaxOrders
        /\ ord' = [ord EXCEPT ![Minted(ord) + 1] =
                     NewOrder("buy", BuyQty, cand[c].day, cand[c].born)]
        /\ cand' = [cand EXCEPT ![c].st = "ORDERED"]
  /\ UNCHANGED <<prot, flat>> /\ UnchangedRest

-----------------------------------------------------------------------------
(* The order path, through OrderOwnership *)

Move(i, r) == ord' = [ord EXCEPT ![i] = r] /\ UNCHANGED <<cand, prot, flat>>

CrossSideBlocked(i) ==
  IF ord[i].kind = "buy" THEN ExitMayExecute(ord) ELSE BuyMayExecute(ord)

\* The claim's control gate: a commanded flatten passes, the kill switch of
\* either session holds protection, a quarantined symbol holds every buy.
ClaimHeld(i) ==
  \/ ord[i].kind # "flatten" /\ {ord[i].day, today} \cap halted # {}
  \/ ord[i].kind = "buy" /\ latched

ClaimOrder(i) ==
  /\ prot.pc = "idle" /\ sending = 0
  /\ ord[i].kind # "none" /\ ord[i].status = "CREATED"
  /\ ~ClaimHeld(i) /\ ~CrossSideBlocked(i)
  /\ Move(i, [ord[i] EXCEPT !.status = "SUBMITTING"]) /\ sending' = i
  /\ UNCHANGED <<latched, today, halted, override, commands, over>>

\* The loop's submit call of i, if it is the one in flight, ends here.
LoopWrites(i, r) ==
  /\ prot.pc = "idle" /\ sending \in {0, i}
  /\ Move(i, r) /\ sending' = 0
  /\ UNCHANGED <<latched, today, halted, override, commands, over>>

\* The answer of the broker, or a later query, shows the order working.
Acknowledge(i) ==
  /\ ord[i].status \in {"SUBMITTING", "TIMEOUT_QUARANTINE"} /\ ord[i].venue # "absent"
  /\ LoopWrites(i, [ord[i] EXCEPT !.status = "SUBMITTED"])

\* No answer: the order is quarantined, or an accepted order could not be
\* written and only a recovery record answers for it, later for a human.
LoseTrack(i) ==
  /\ ord[i].status = "SUBMITTING"
  /\ \/ /\ ord[i].recovery = "none"
        /\ \/ LoopWrites(i, [ord[i] EXCEPT !.status = "TIMEOUT_QUARANTINE"])
           \/ LoopWrites(i, [ord[i] EXCEPT !.recovery = "unresolved"])
     \/ /\ ord[i].recovery = "unresolved"
        /\ LoopWrites(i, [ord[i] EXCEPT !.recovery = "needs_review"])

ReleaseClaim_AnyError(i) ==
  /\ sending = i /\ ord[i].status = "SUBMITTING"
  /\ LoopWrites(i, [ord[i] EXCEPT !.status = "CREATED"])

\* The attempt failed before anything left: back to CREATED.
ReleaseClaim(i) ==
  /\ sending = i /\ ord[i].status = "SUBMITTING" /\ ord[i].venue = "absent"
  /\ LoopWrites(i, [ord[i] EXCEPT !.status = "CREATED"])

Overfills_Buys(i, n) == ord[i].kind = "buy" /\ n > ord[i].qty

\* plan_append_fill: broker executions beyond the order, or beyond the book,
\* are recorded and latch the symbol in the same unit.
Overfills(i, n) ==
  \/ n > ord[i].qty
  \/ ord[i].kind # "buy" /\ n - ord[i].booked > Position(ord)

Record(i, n, st) ==
  /\ Move(i, [ord[i] EXCEPT !.booked = n, !.status = st])
  /\ latched' = (latched \/ (n > ord[i].booked /\ Overfills(i, n)))
  /\ sending' = IF st = "TERMINAL" /\ sending = i THEN 0 ELSE sending
  /\ UNCHANGED <<today, halted, override, commands, over>>

\* A poll records executions while the order works; those of an order that has
\* only a recovery record come through the operator.
RecordFill(i) ==
  /\ ord[i].status \in {"SUBMITTED", "CANCEL_PENDING"} \/ RecoveryOpen(ord[i])
  /\ \E n \in ord[i].booked + 1 .. ord[i].executed : Record(i, n, ord[i].status)

Settle_Unrecorded(i) ==
  /\ ord[i].status \in MayExecuteStatuses /\ ord[i].venue = "done"
  /\ Record(i, ord[i].booked, "TERMINAL")

\* The order ends with its last executions recorded.
Settle(i) ==
  /\ ord[i].status \in MayExecuteStatuses /\ ord[i].venue = "done"
  /\ Record(i, ord[i].executed, "TERMINAL")

\* The recovery sweep or the operator closes the record once the broker order
\* has ended and every execution of it is recorded.
ResolveRecovery(i) ==
  /\ RecoveryOpen(ord[i]) /\ ord[i].venue = "done" /\ ord[i].booked = ord[i].executed
  /\ Move(i, [ord[i] EXCEPT !.recovery = "none"]) /\ UnchangedRest

-----------------------------------------------------------------------------
(* The venue *)

VenueTakes(i) ==
  /\ ord[i].venue = "absent" /\ ord[i].status \in {"SUBMITTING", "TIMEOUT_QUARANTINE"}
  /\ \E v \in {"live", "done"} : Move(i, [ord[i] EXCEPT !.venue = v])
  /\ UnchangedRest

VenueExecutes(i) ==
  /\ ord[i].venue = "live"
  /\ \/ ord[i].executed < ord[i].qty /\ UNCHANGED over
     \/ ord[i].executed >= ord[i].qty /\ over < MaxOver /\ over' = over + 1
  /\ Move(i, [ord[i] EXCEPT !.executed = @ + 1])
  /\ UNCHANGED <<sending, latched, today, halted, override, commands>>

VenueEnds(i) ==
  /\ ord[i].venue = "live"
  /\ Move(i, [ord[i] EXCEPT !.venue = "done"]) /\ UnchangedRest

-----------------------------------------------------------------------------
(* Controls *)

SetKillSwitch ==
  /\ Command
  /\ halted' = IF today \in halted THEN halted \ {today} ELSE halted \cup {today}
  /\ UNCHANGED <<sending, ord, cand, latched, today, override, prot, flat, over>>

NextDay ==
  /\ today < MaxDays /\ today' = today + 1
  /\ UNCHANGED <<sending, ord, cand, latched, halted, override, prot, flat, commands, over>>

-----------------------------------------------------------------------------
ProtectStep == ProtectStart \/ OpenProtectionExit \/ \E i \in Ids : ProtectCancelBuy(i)
FlattenStep ==
  \/ FlattenRetry \/ FlattenCreate \/ FlattenNothing \/ FlattenBuysOpen
  \/ \E i \in Ids : FlattenCancelBuy(i)
CandidateStep ==
  \E c \in Cands : CreateCandidate(c) \/ DecideCandidate(c) \/ CreateOrderForCandidate(c)
OrderStep ==
  \E i \in Ids : \/ ClaimOrder(i) \/ Acknowledge(i) \/ LoseTrack(i) \/ ReleaseClaim(i)
                 \/ RecordFill(i) \/ Settle(i) \/ ResolveRecovery(i)
VenueStep == \E i \in Ids : VenueTakes(i) \/ VenueExecutes(i) \/ VenueEnds(i)
CommandStep == CreateExit \/ EmergencyReduce \/ SetKillSwitch \/ NextDay

Next == ProtectStep \/ FlattenStep \/ CandidateStep \/ OrderStep \/ VenueStep \/ CommandStep

Spec == Init /\ [][Next]_vars

\* The loop and the tasks run; a price below its floor stays there; the broker
\* ends what it was asked to cancel; polls, queries and recovery make progress.
Fairness ==
  /\ WF_vars(ProtectStep) /\ SF_vars(ProtectStart) /\ WF_vars(FlattenStep)
  /\ \A i \in Ids :
       /\ SF_vars(Acknowledge(i)) /\ WF_vars(Settle(i)) /\ WF_vars(ResolveRecovery(i))
       /\ WF_vars(VenueTakes(i))
       /\ SF_vars(ProtectCancelBuy(i) /\ ord'[i].status = "CANCEL_PENDING")
       /\ WF_vars(ord[i].status = "CANCEL_PENDING" /\ VenueEnds(i))

FairSpec == Spec /\ Fairness

-----------------------------------------------------------------------------
(* Properties *)

Stage(i) ==
  CASE ord[i].kind = "none" \/ ord[i].status = "CREATED" -> "local"
    [] ord[i].kind # "none" /\ ord[i].status = "TERMINAL" -> "settled"
    [] OTHER -> "owned"

Ownership == INSTANCE OrderOwnership WITH
  Orders <- Ids \ {1},
  stage <- [i \in Ids \ {1} |-> Stage(i)],
  executed <- [i \in Ids \ {1} |-> ord[i].executed],
  booked <- [i \in Ids \ {1} |-> ord[i].booked]

\* The exits treat orders exactly as the order path promises: cancels that
\* stand buys down or supersede an exit only touch orders that never left, and
\* nothing ends an order with executions unrecorded.  About
\* _stand_down_symbol_created_buys, the supersede of flatten_position and
\* cancel_open_buys.
UsesOwnership == Ownership!Spec

\* The venue holds the order or may still receive it.
InMarket(i) ==
  \/ ord[i].venue = "live"
  \/ ord[i].venue = "absent" /\ ord[i].status \in {"SUBMITTING", "TIMEOUT_QUARANTINE"}

\* Section 5.3: a buy and a sell of the symbol are never both able to execute,
\* whichever sweep, candidate or command brought them there.  About the rails of
\* claim_order_for_submission, open_protection_exit and flatten_position.
NoSelfCross ==
  ~ \E b \in Buys(ord), s \in Sells(ord) : InMarket(b) /\ InMarket(s)

\* Long only: what the venue really holds covers everything that is still for
\* sale, except shares it sold beyond an order's size.  Exits are sized from
\* recorded fills, which may lag.  About open_protection_exit,
\* flatten_position, the handoff and the terminal statuses they trust.
VenueHolds(f) == SumFunctionOnSet([i \in Ids |-> Signed(f[i], f[i].executed)], Ids)
Unsold(i) ==
  IF InMarket(i) /\ ord[i].executed < ord[i].qty THEN ord[i].qty - ord[i].executed ELSE 0

NeverShort ==
  VenueHolds(ord) + over >= SumFunctionOnSet([i \in Ids |-> Unsold(i)], Sells(ord))

\* ADR-001: an execution beyond an order's size, or beyond the book, is on
\* record and from then on no buy of the symbol is claimed.  About
\* plan_append_fill and the claim's quarantine gate.
Overfilled == Position(ord) < 0 \/ \E i \in Ids : ord[i].booked > ord[i].qty
NoBuyAfterOverfill ==
  [][\A i \in Buys(ord) :
       ord[i].status = "CREATED" /\ ord'[i].status = "SUBMITTING" => ~Overfilled]_vars

\* An exit ends the proposals it met: no buy that was proposed before an exit
\* was minted is claimed after it, so the closed position does not regrow.
\* About _stand_down_symbol_buy_candidates and the candidate handoff.
ExitPreempts ==
  [][\A i \in Buys(ord) :
       ord[i].status = "CREATED" /\ ord'[i].status = "SUBMITTING"
         => \A s \in Sells(ord) : s <= ord[i].born]_vars

\* ADR-003: while trading is halted an exit is minted only by an emergency
\* reduce granted in this very session, and uses the grant up.  About
\* plan_flatten_position, open_protection_exit and the override events.
HaltedExitIsGranted ==
  [][Sells(ord') # Sells(ord) /\ today \in halted =>
       /\ \A s \in Sells(ord') \ Sells(ord) : ord'[s].kind = "flatten"
       /\ today \in override /\ today \notin override']_vars

\* A held symbol below its floor gets an exit, is flat, or is visibly held up:
\* trading halted, or a recovery record waits for a human.
ProtectionReaches ==
  Position(ord) > 0 ~>
    \/ ExitMayExecute(ord) \/ Position(ord) <= 0 \/ today \in halted
    \/ \E i \in Ids : RecoveryOpen(ord[i])
    \/ Minted(ord) = MaxOrders
=============================================================================
