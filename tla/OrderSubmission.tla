--------------------------- MODULE OrderSubmission ---------------------------
(***************************************************************************)
(* The life of an order between its local minting and its broker-terminal  *)
(* state: the monitoring loop (app/monitoring.py), the store operations it *)
(* calls (app/store), the manual commands of the facade that race it       *)
(* (app/facade/store_backed.py), and the venue as app/broker/alpaca_paper  *)
(* uses it.                                                                *)
(*                                                                         *)
(* Store operations hold one lock and never suspend, so each is atomic.    *)
(* The loop suspends only at a broker call (and at the market-data read    *)
(* before a sell is sent): a handler is split there, and nowhere else.     *)
(* Everything else - commands, session controls, the venue, a crash - may  *)
(* run while a call is in flight.                                          *)
(*                                                                         *)
(* A definition X_Y is a mutant of X: the change a plausible bug would     *)
(* make, kept beside X to show that the properties notice it.  No action   *)
(* of the specification uses one.                                          *)
(***************************************************************************)
EXTENDS Naturals, FiniteSets

CONSTANTS
  Orders,         \* local orders, minted CREATED in session OwnSession
  Buys,           \* the BUY orders (LIMIT); the other orders are MARKET sells
  Floors,         \* sells owned by a PROTECTION_FLOOR intent; the rest of the
                  \* sells are owned by a MANUAL_FLATTEN intent
  NoOrder,        \* the order of no call
  Qty,            \* shares of an order
  Days,           \* calendar days, one session each
  MaxRedrive,     \* settings.stale_submitting_max_redrive_attempts
  MaxQuery,       \* settings.timeout_quarantine_max_query_attempts
  MaxLag,         \* not-found answers the venue may give about a request that
                  \* it holds or may still receive
  OperatorWaits,  \* the operator attests no fill of an order being polled
  MaxCommands,    \* bound: session-control commands
  MaxCrashes,     \* bound: crashes and shutdowns of the process
  MaxFaults       \* bound: store writes that fail

ASSUME OrdersAssumption ==
  /\ NoOrder \notin Orders
  /\ Buys \subseteq Orders
  /\ Floors \subseteq Orders \ Buys
ASSUME QtyAssumption == Qty \in Nat \ {0}
ASSUME DaysAssumption == Days \in Nat \ {0}
ASSUME RedriveAssumption == MaxRedrive \in Nat \ {0}
\* The confirmations the code asks for outlast the venue's lag.
ASSUME QueryAssumption == MaxQuery \in Nat /\ MaxLag \in Nat /\ MaxLag < MaxQuery
ASSUME OperatorAssumption == OperatorWaits \in BOOLEAN
ASSUME BoundsAssumption ==
  MaxCommands \in Nat /\ MaxCrashes \in Nat /\ MaxFaults \in Nat

VARIABLES
  \* --- durable: the store ---
  status,      \* the projected order status (latest lifecycle event wins)
  bid,         \* orders that carry a broker order id
  fills,       \* source fill id <broker id>:<level> -> shares, 0 when absent
  recorded,    \* the sum of an order's recorded fills
  recovery,    \* submit-recovery record under the order's broker id
  noIdReview,  \* orders with a needs_review record under a blank broker id
  seed,        \* accepted-submit audits and fallbacks the repair has not passed
  uncertain,   \* orders with an UNKNOWN_RECONCILE_REQUIRED fallback fact
  redrives,    \* re-drive attempts recorded for an order
  notFound,    \* confirmed not-found answers recorded for an order
  \* --- durable: the sessions ---
  today,       \* the session of the current date
  halted,      \* sessions whose trading state is HALTED (kill switch)
  reducing,    \* sessions that are REDUCING (buys paused, or reconcile driver)
  closed,      \* closed sessions
  \* --- volatile: the monitoring loop and the command handlers ---
  phase,       \* the step of the tick
  todo,        \* the orders the step has listed and not reached
  winding,     \* those listed as CANCEL_PENDING
  call,        \* the broker call the loop is suspended in
  apiCancel,   \* manual cancel of an order: none, sent, landed
  \* --- the venue ---
  venue,       \* the venue's order under this client_order_id
  late,        \* orders with a request no caller waits for, still to land
  \* --- bounds ---
  commands, crashes, faults

order      == <<status, bid>>
ledger     == <<fills, recorded>>
owners     == <<recovery, noIdReview, seed, uncertain>>
counters   == <<redrives, notFound>>
sessions   == <<today, halted, reducing, closed>>
loop       == <<phase, todo, winding, call>>
exchange   == <<venue, late>>
bounds     == <<commands, crashes, faults>>
vars == <<order, ledger, owners, counters, sessions, loop, apiCancel, exchange,
          bounds>>

-----------------------------------------------------------------------------
(* Statuses, records and the transition table *)

OpenStatuses == {"SUBMITTED", "PARTIALLY_FILLED", "CANCEL_PENDING"}
TerminalStatuses == {"FILLED", "CANCELED", "REJECTED"}
OrderStatus ==
  OpenStatuses \cup TerminalStatuses
    \cup {"CREATED", "SUBMITTING", "TIMEOUT_QUARANTINE"}

\* CREATED -> SUBMITTING is absent: only the submission claim takes it.
ORDER_TRANSITIONS ==
  [s \in OrderStatus |->
    CASE s = "CREATED" -> {"CANCELED", "REJECTED"}
      [] s = "SUBMITTING" ->
           {"SUBMITTED", "CREATED", "CANCELED", "REJECTED", "TIMEOUT_QUARANTINE"}
      [] s = "TIMEOUT_QUARANTINE" -> {"SUBMITTED", "REJECTED", "CANCELED"}
      [] s = "SUBMITTED" ->
           {"PARTIALLY_FILLED", "FILLED", "CANCEL_PENDING", "CANCELED", "REJECTED"}
      [] s = "PARTIALLY_FILLED" ->
           {"PARTIALLY_FILLED", "FILLED", "CANCEL_PENDING", "CANCELED"}
      [] s = "CANCEL_PENDING" ->
           {"CANCEL_PENDING", "FILLED", "CANCELED", "REJECTED"}
      [] s \in TerminalStatuses -> {}]

RecoveryOpenStatuses == {"unresolved", "needs_review"}
RecoveryStatus ==
  RecoveryOpenStatuses \cup {"none", "resolved_canceled", "operator_reconciled"}

VenueLive == {"live", "cancelling"}
VenueTerminal == {"filled", "canceled", "rejected"}
VenueState == VenueLive \cup VenueTerminal \cup {"absent"}
Levels == 1 .. Qty
Sessions == 1 .. Days
OwnSession == 1
Phases == {"sleep", "repair", "submit", "redrive", "resolve", "poll", "recover"}

VenueOrder == [st : VenueState, filled : 0 .. Qty]
CancelStages == {"none", "sent", "landed"}
CallKinds == {"none", "submit", "redrive", "query", "poll", "recover"}
Stages == {"none", "prepare", "sent", "landed", "acked", "read", "cancel",
           "confirm", "confirmed"}

\* The broker call in flight: base is the recorded sum read before it, cum and
\* vst are what the venue held when it answered.
Calls ==
  [kind  : CallKinds,
   order : Orders \cup {NoOrder},
   at    : Stages,
   base  : Nat,
   cum   : 0 .. Qty,
   vst   : VenueState]

Idle == [kind |-> "none", order |-> NoOrder, at |-> "none", base |-> 0,
         cum |-> 0, vst |-> "absent"]

OrderTyped == status \in [Orders -> OrderStatus] /\ bid \subseteq Orders
LedgerTyped ==
  fills \in [Orders -> [Levels -> 0 .. Qty]] /\ recorded \in [Orders -> Nat]
OwnersTyped ==
  /\ recovery \in [Orders -> RecoveryStatus]
  /\ noIdReview \subseteq Orders /\ seed \subseteq Orders /\ uncertain \subseteq Orders
CountersTyped ==
  redrives \in [Orders -> 0 .. MaxRedrive] /\ notFound \in [Orders -> 0 .. MaxQuery]
SessionsTyped ==
  /\ today \in Sessions
  /\ halted \subseteq Sessions /\ reducing \subseteq Sessions /\ closed \subseteq Sessions
LoopTyped ==
  /\ phase \in Phases
  /\ todo \subseteq Orders /\ winding \subseteq Orders
  /\ call \in Calls
CancelTyped == apiCancel \in [Orders -> CancelStages]
ExchangeTyped == venue \in [Orders -> VenueOrder] /\ late \subseteq Orders
BoundsTyped ==
  commands \in 0 .. MaxCommands /\ crashes \in 0 .. MaxCrashes /\ faults \in 0 .. MaxFaults

\* Every variable has its type; in particular the re-drive and not-found
\* counters never pass the limits of the settings.
TypeOK ==
  /\ OrderTyped /\ LedgerTyped /\ OwnersTyped /\ CountersTyped /\ SessionsTyped
  /\ LoopTyped /\ CancelTyped /\ ExchangeTyped /\ BoundsTyped

Init ==
  /\ status = [o \in Orders |-> "CREATED"]
  /\ bid = {}
  /\ fills = [o \in Orders |-> [n \in Levels |-> 0]]
  /\ recorded = [o \in Orders |-> 0]
  /\ recovery = [o \in Orders |-> "none"]
  /\ noIdReview = {}
  /\ seed = {}
  /\ uncertain = {}
  /\ redrives = [o \in Orders |-> 0]
  /\ notFound = [o \in Orders |-> 0]
  /\ today = OwnSession
  /\ halted = {}
  /\ reducing = {}
  /\ closed = {}
  /\ phase = "sleep"
  /\ todo = {}
  /\ winding = {}
  /\ call = Idle
  /\ apiCancel = [o \in Orders |-> "none"]
  /\ venue = [o \in Orders |-> [st |-> "absent", filled |-> 0]]
  /\ late = {}
  /\ commands = 0
  /\ crashes = 0
  /\ faults = 0

-----------------------------------------------------------------------------
(* Helpers *)

\* An open recovery record owns the order.
RecoveryOpen(o) == o \in noIdReview \/ recovery[o] \in RecoveryOpenStatuses

\* Mutant: the transition table is not consulted.
CanMove_Unchecked(o, s) == TRUE

CanMove(o, s) == s = status[o] \/ s \in ORDER_TRANSITIONS[status[o]]

\* transition_order, with an illegal move refused and the refusal swallowed.
TransitionOrder(o, s) ==
  status' = IF CanMove(o, s) THEN [status EXCEPT ![o] = s] ELSE status

\* A move into SUBMITTED carries the broker id with it.
AdoptBrokerId(o) ==
  IF CanMove(o, "SUBMITTED")
  THEN status' = [status EXCEPT ![o] = "SUBMITTED"] /\ bid' = bid \cup {o}
  ELSE UNCHANGED order

StoreFails ==
  faults < MaxFaults /\ faults' = faults + 1 /\ UNCHANGED <<commands, crashes>>

\* The loop leaves its current call and stays in the step.
EndCall == call' = Idle /\ UNCHANGED <<phase, todo, winding>>

\* An exception leaves the tick: the loop sleeps and starts over.
AbortTick == phase' = "sleep" /\ todo' = {} /\ winding' = {} /\ call' = Idle

\* The loop takes the next order of the step's list.
Take(p, o) == phase = p /\ call = Idle /\ o \in todo /\ todo' = todo \ {o}

InCall(o, kinds, stages) ==
  call.order = o /\ call.kind \in kinds /\ call.at \in stages

Advance(stage) == call' = [call EXCEPT !.at = stage] /\ UNCHANGED <<phase, todo, winding>>

\* The venue's answer as the adapter reads it.
ReadVenue(o, stage) ==
  /\ call' = [call EXCEPT !.at = stage, !.cum = venue[o].filled, !.vst = venue[o].st]
  /\ UNCHANGED <<phase, todo, winding>>

\* A request reaches the venue: client_order_id makes a second one a duplicate.
Land(o) ==
  venue' = IF venue[o].st = "absent" THEN [venue EXCEPT ![o].st = "live"] ELSE venue

\* A cancel request reaches the venue: already terminal is a no-op success.
LandCancel(o) ==
  venue' = IF venue[o].st = "live" THEN [venue EXCEPT ![o].st = "cancelling"] ELSE venue

-----------------------------------------------------------------------------
(* The tick: six sweeps in order, each over the orders it lists at its start *)

NextPhase ==
  [sleep |-> "repair", repair |-> "submit", submit |-> "redrive",
   redrive |-> "resolve", resolve |-> "poll", poll |-> "recover",
   recover |-> "sleep"]

Listed(p) ==
  CASE p = "sleep"   -> {}
    [] p = "repair"  -> seed
    [] p = "submit"  -> {o \in Orders : status[o] = "CREATED"}
    [] p = "redrive" -> {o \in Orders : /\ status[o] = "SUBMITTING"
                                        /\ o \notin bid
                                        /\ ~RecoveryOpen(o)
                                        /\ o \notin uncertain}
    [] p = "resolve" -> {o \in Orders : status[o] = "TIMEOUT_QUARANTINE"}
    [] p = "poll"    -> {o \in Orders : status[o] \in OpenStatuses /\ o \in bid}
    [] p = "recover" -> {o \in Orders : recovery[o] = "unresolved"}

EnterPhase ==
  /\ call = Idle
  /\ todo = {}
  /\ phase' = NextPhase[phase]
  /\ todo' = Listed(phase')
  /\ winding' = IF phase' = "poll"
                THEN {o \in todo' : status[o] = "CANCEL_PENDING"} ELSE {}
  /\ UNCHANGED <<call, order, ledger, owners, counters, sessions, apiCancel,
                 exchange, bounds>>

-----------------------------------------------------------------------------
(* Repair of accepted submits that were not persisted *)

\* The seed's identity is already represented, or the order can adopt it now.
RepairAdopt(o) ==
  /\ Take("repair", o)
  /\ seed' = seed \ {o}
  /\ \/ /\ recovery[o] # "none" \/ o \in bid
        /\ UNCHANGED order
     \/ /\ recovery[o] = "none"
        /\ o \notin bid
        /\ status[o] = "SUBMITTING"
        /\ AdoptBrokerId(o)
  /\ UNCHANGED <<phase, winding, call, ledger, recovery, noIdReview, uncertain,
                 counters, sessions, apiCancel, exchange, bounds>>

\* The order cannot adopt the identity: a recovery record owns it.
RepairRecover(o) ==
  /\ Take("repair", o)
  /\ recovery[o] = "none"
  /\ o \notin bid
  /\ \/ status[o] # "SUBMITTING" /\ UNCHANGED bounds
     \/ status[o] = "SUBMITTING" /\ StoreFails
  /\ seed' = seed \ {o}
  /\ recovery' = [recovery EXCEPT ![o] = "unresolved"]
  /\ UNCHANGED <<phase, winding, call, order, ledger, noIdReview, uncertain,
                 counters, sessions, apiCancel, exchange>>

\* The recovery record cannot be written either: the seed stays, the tick ends.
RepairAbort ==
  /\ phase = "repair"
  /\ todo # {}
  /\ StoreFails
  /\ AbortTick
  /\ UNCHANGED <<order, ledger, owners, counters, sessions, apiCancel, exchange>>

-----------------------------------------------------------------------------
(* First submission *)

\* Why a CREATED order must not be claimed.  A BUY is held by its own session
\* closing or stopping and by a stop of the live session; a protective sell by
\* the kill switch alone; a manual flatten by neither.
ClaimHoldReason(o) ==
  \/ o \in bid
  \/ o \in uncertain
  \/ /\ o \in Buys
     /\ \/ OwnSession \in closed \cup halted \cup reducing
        \/ today \in halted \cup reducing
  \/ /\ o \in Floors
     /\ OwnSession \in halted \/ today \in halted

ClaimOrderForSubmission(o) ==
  /\ Take("submit", o)
  /\ status[o] = "CREATED"
  /\ ~ClaimHoldReason(o)
  /\ status' = [status EXCEPT ![o] = "SUBMITTING"]
  /\ call' = [Idle EXCEPT !.kind = "submit", !.order = o, !.at = "prepare"]
  /\ UNCHANGED <<phase, winding, bid, ledger, owners, counters, sessions,
                 apiCancel, exchange, bounds>>

\* Held, no longer CREATED, or refused by a claim gate outside this module
\* (risk limits, cross-side rail, overfill quarantine, envelope ownership).
ClaimSkipped(o) ==
  /\ Take("submit", o)
  /\ UNCHANGED <<phase, winding, call, order, ledger, owners, counters, sessions,
                 apiCancel, exchange, bounds>>

\* The exact request is durable; it is handed to the broker.
SendSubmit(o) ==
  /\ InCall(o, {"submit"}, {"prepare"})
  /\ Advance("sent")
  /\ UNCHANGED <<order, ledger, owners, counters, sessions, apiCancel, exchange,
                 bounds>>

\* A sell with no priceable snapshot releases its claim.
ReleaseUnpriceable(o) ==
  /\ InCall(o, {"submit"}, {"prepare"})
  /\ o \notin Buys
  /\ TransitionOrder(o, "CREATED")
  /\ EndCall
  /\ UNCHANGED <<bid, ledger, owners, counters, sessions, apiCancel, exchange,
                 bounds>>

\* The request cannot be made durable: the claim is left to the re-drive.
PrepareAbort(o) ==
  /\ InCall(o, {"submit"}, {"prepare"})
  /\ StoreFails
  /\ AbortTick
  /\ UNCHANGED <<order, ledger, owners, counters, sessions, apiCancel, exchange>>

\* Mutant: the release does not look at the session again.
SubmitTransient_Zombie(o) ==
  /\ InCall(o, {"submit"}, {"sent"})
  /\ TransitionOrder(o, "CREATED")
  /\ EndCall
  /\ UNCHANGED <<bid, ledger, owners, counters, sessions, apiCancel, exchange,
                 bounds>>

\* A definite failure before acceptance (429, preflight refusal).  A BUY whose
\* own session closed meanwhile would be a zombie if it went back to CREATED.
SubmitTransient(o) ==
  /\ InCall(o, {"submit"}, {"sent"})
  /\ TransitionOrder(o, IF o \in Buys /\ OwnSession \in closed
                        THEN "CANCELED" ELSE "CREATED")
  /\ EndCall
  /\ UNCHANGED <<bid, ledger, owners, counters, sessions, apiCancel, exchange,
                 bounds>>

-----------------------------------------------------------------------------
(* Outcomes a first submission and a re-drive share *)

\* A needs_review record under a blank broker id; a failed write is swallowed.
EscalateStaleSubmitting(o) ==
  \/ noIdReview' = noIdReview \cup {o} /\ UNCHANGED bounds
  \/ StoreFails /\ UNCHANGED noIdReview

VenueAccepts(o) ==
  /\ InCall(o, {"submit", "redrive"}, {"sent"})
  /\ Land(o)
  /\ Advance("landed")
  /\ UNCHANGED <<late, order, ledger, owners, counters, sessions, apiCancel, bounds>>

\* The broker id is in hand; the finalizer is a task of its own.
SubmitAcked(o) ==
  /\ InCall(o, {"submit", "redrive"}, {"landed"})
  /\ Advance("acked")
  /\ UNCHANGED <<order, ledger, owners, counters, sessions, apiCancel, exchange,
                 bounds>>

\* A definitive rejection (400, 401, 403, 404, 422).
SubmitTerminal(o) ==
  /\ InCall(o, {"submit", "redrive"}, {"sent"})
  /\ EscalateStaleSubmitting(o)
  /\ EndCall
  /\ UNCHANGED <<order, ledger, recovery, seed, uncertain, counters, sessions,
                 apiCancel, exchange>>

\* The caller gives up; a request still on its way may land later.
GiveUp(o) == late' = IF call.at = "sent" THEN late \cup {o} ELSE late

\* Mutant: an unknown outcome is released like a definite failure.
SubmitAmbiguous_Released(o) ==
  /\ InCall(o, {"submit", "redrive"}, {"sent", "landed"})
  /\ TransitionOrder(o, "CREATED")
  /\ GiveUp(o)
  /\ EndCall
  /\ UNCHANGED <<bid, venue, ledger, owners, counters, sessions, apiCancel, bounds>>

\* Timeout, 5xx, transport failure or malformed ack: the outcome is unknown.
SubmitAmbiguous(o) ==
  /\ InCall(o, {"submit", "redrive"}, {"sent", "landed"})
  /\ CanMove(o, "TIMEOUT_QUARANTINE")
  /\ TransitionOrder(o, "TIMEOUT_QUARANTINE")
  /\ GiveUp(o)
  /\ EndCall
  /\ UNCHANGED <<bid, venue, ledger, owners, counters, sessions, apiCancel, bounds>>

\* The quarantine cannot be written: a review record owns the order instead.
SubmitAmbiguousOwned(o) ==
  /\ InCall(o, {"submit", "redrive"}, {"sent", "landed"})
  /\ StoreFails
  /\ noIdReview' = noIdReview \cup {o}
  /\ GiveUp(o)
  /\ EndCall
  /\ UNCHANGED <<order, venue, ledger, recovery, seed, uncertain, counters,
                 sessions, apiCancel>>

\* Neither can be written: the exception ends the tick.
SubmitAmbiguousAbort(o) ==
  /\ InCall(o, {"submit", "redrive"}, {"sent", "landed"})
  /\ StoreFails
  /\ GiveUp(o)
  /\ AbortTick
  /\ UNCHANGED <<order, venue, ledger, owners, counters, sessions, apiCancel>>

FinalizeAcceptedSubmit(o) ==
  /\ InCall(o, {"submit", "redrive"}, {"acked"})
  /\ CanMove(o, "SUBMITTED")
  /\ AdoptBrokerId(o)
  /\ EndCall
  /\ UNCHANGED <<ledger, owners, counters, sessions, apiCancel, exchange, bounds>>

\* The audit of an unpersisted submit is best effort.
AuditUnpersisted(o) == seed' \in {seed, seed \cup {o}}

\* The first write fails (or its response is lost) and the retry succeeds.
FinalizeRetried(o) ==
  /\ InCall(o, {"submit", "redrive"}, {"acked"})
  /\ CanMove(o, "SUBMITTED")
  /\ StoreFails
  /\ AdoptBrokerId(o)
  /\ AuditUnpersisted(o)
  /\ EndCall
  /\ UNCHANGED <<ledger, recovery, noIdReview, uncertain, counters, sessions,
                 apiCancel, exchange>>

\* The order cannot be marked SUBMITTED: a recovery record owns the broker id.
\* A record that already exists under this id is returned as it is.
HandleUnpersistedSubmit(o) ==
  /\ InCall(o, {"submit", "redrive"}, {"acked"})
  /\ \/ ~CanMove(o, "SUBMITTED") /\ UNCHANGED bounds
     \/ CanMove(o, "SUBMITTED") /\ StoreFails
  /\ recovery' = [recovery EXCEPT ![o] = IF @ = "none" THEN "unresolved" ELSE @]
  /\ AuditUnpersisted(o)
  /\ EndCall
  /\ UNCHANGED <<order, ledger, noIdReview, uncertain, counters, sessions,
                 apiCancel, exchange>>

\* No recovery record either: the fallback fact is the last owner, itself a
\* seed of the repair, and the tick ends.
RecordAcceptedSubmitUncertainty(o) ==
  /\ InCall(o, {"submit", "redrive"}, {"acked"})
  /\ StoreFails
  /\ uncertain' = uncertain \cup {o}
  /\ seed' = seed \cup {o}
  /\ AbortTick
  /\ UNCHANGED <<order, ledger, recovery, noIdReview, counters, sessions,
                 apiCancel, exchange>>

\* Even the fallback fails: SUBMITTING and at most the audit remain.
FinalizeLost(o) ==
  /\ InCall(o, {"submit", "redrive"}, {"acked"})
  /\ StoreFails
  /\ AuditUnpersisted(o)
  /\ AbortTick
  /\ UNCHANGED <<order, ledger, recovery, noIdReview, uncertain, counters,
                 sessions, apiCancel, exchange>>

-----------------------------------------------------------------------------
(* Re-drive of SUBMITTING orders without a broker id *)

\* Mutant: the attempt limit is not checked.
RedriveSend_Unlimited(o) ==
  /\ Take("redrive", o)
  /\ redrives' = [redrives EXCEPT ![o] = @ + 1]
  /\ call' = [Idle EXCEPT !.kind = "redrive", !.order = o, !.at = "sent"]
  /\ UNCHANGED <<phase, winding, order, ledger, owners, notFound, sessions,
                 apiCancel, exchange, bounds>>

\* The attempt is reserved durably before the broker is called.
RedriveSend(o) ==
  /\ Take("redrive", o)
  /\ redrives[o] < MaxRedrive
  /\ redrives' = [redrives EXCEPT ![o] = @ + 1]
  /\ call' = [Idle EXCEPT !.kind = "redrive", !.order = o, !.at = "sent"]
  /\ UNCHANGED <<phase, winding, order, ledger, owners, notFound, sessions,
                 apiCancel, exchange, bounds>>

\* A sell with no priceable snapshot consumes the same budget.
RedriveUnpriceable(o) ==
  /\ Take("redrive", o)
  /\ o \notin Buys
  /\ redrives[o] < MaxRedrive
  /\ redrives' = [redrives EXCEPT ![o] = @ + 1]
  /\ UNCHANGED <<phase, winding, call, order, ledger, owners, notFound, sessions,
                 apiCancel, exchange, bounds>>

\* The reservation of an attempt, or the deferral of an unpriceable sell, cannot
\* be written: the broker is not called and nothing is counted.
RedriveUnreserved(o) ==
  /\ Take("redrive", o)
  /\ redrives[o] < MaxRedrive
  /\ StoreFails
  /\ UNCHANGED <<phase, winding, call, order, ledger, owners, counters, sessions,
                 apiCancel, exchange>>

\* Mutant: an exhausted order is only logged.
RedriveExhausted_Silent(o) ==
  /\ Take("redrive", o)
  /\ redrives[o] >= MaxRedrive
  /\ UNCHANGED <<phase, winding, call, order, ledger, owners, counters, sessions,
                 apiCancel, exchange, bounds>>

RedriveExhausted(o) ==
  /\ Take("redrive", o)
  /\ redrives[o] >= MaxRedrive
  /\ EscalateStaleSubmitting(o)
  /\ UNCHANGED <<phase, winding, call, order, ledger, recovery, seed, uncertain,
                 counters, sessions, apiCancel, exchange>>

\* The exact request cannot be made durable: nothing is sent, the tick ends.
RedriveAbort(o) ==
  /\ phase = "redrive" /\ call = Idle /\ o \in todo
  /\ redrives[o] < MaxRedrive
  /\ StoreFails
  /\ AbortTick
  /\ UNCHANGED <<order, ledger, owners, counters, sessions, apiCancel, exchange>>

\* Transient failure: SUBMITTING stays, the next tick tries again.
RedriveTransient(o) ==
  /\ InCall(o, {"redrive"}, {"sent"})
  /\ EndCall
  /\ UNCHANGED <<order, ledger, owners, counters, sessions, apiCancel, exchange,
                 bounds>>

-----------------------------------------------------------------------------
(* Targeted resolution of TIMEOUT_QUARANTINE, read only *)

QuerySend(o) ==
  /\ Take("resolve", o)
  /\ call' = [Idle EXCEPT !.kind = "query", !.order = o, !.at = "sent"]
  /\ UNCHANGED <<phase, winding, order, ledger, owners, counters, sessions,
                 apiCancel, exchange, bounds>>

\* The query budget is spent: the rest of the list waits for a later tick.
ResolveDeferred ==
  /\ phase = "resolve"
  /\ call = Idle
  /\ todo # {}
  /\ todo' = {}
  /\ UNCHANGED <<phase, winding, call, order, ledger, owners, counters, sessions,
                 apiCancel, exchange, bounds>>

\* A failed query is never read as absent.
QueryFails(o) ==
  /\ InCall(o, {"query"}, {"sent"})
  /\ EndCall
  /\ UNCHANGED <<order, ledger, owners, counters, sessions, apiCancel, exchange,
                 bounds>>

QueryFinds(o) ==
  /\ InCall(o, {"query"}, {"sent"})
  /\ venue[o].st # "absent"
  /\ ReadVenue(o, "read")
  /\ UNCHANGED <<order, ledger, owners, counters, sessions, apiCancel, exchange,
                 bounds>>

\* A 404.  While the request is on its way, or just landed, the venue may say
\* so for at most MaxLag recorded answers.
QueryMisses(o) ==
  /\ InCall(o, {"query"}, {"sent"})
  /\ \/ venue[o].st = "absent" /\ o \notin late
     \/ notFound[o] < MaxLag
  /\ Advance("read")
  /\ UNCHANGED <<order, ledger, owners, counters, sessions, apiCancel, exchange,
                 bounds>>

\* Mutant: the fills of a canceled order are not looked at.
ResolveFound_IgnoresFills(o) ==
  /\ InCall(o, {"query"}, {"read"})
  /\ call.vst # "absent"
  /\ IF call.vst \in {"canceled", "rejected"}
     THEN /\ TransitionOrder(o, IF call.vst = "canceled" THEN "CANCELED" ELSE "REJECTED")
          /\ UNCHANGED bid
     ELSE AdoptBrokerId(o)
  /\ EndCall
  /\ UNCHANGED <<ledger, owners, counters, sessions, apiCancel, exchange, bounds>>

\* Canceled or rejected with no fill resolves the order; anything else adopts
\* the broker id so that the poll ingests the fills.
ResolveFound(o) ==
  /\ InCall(o, {"query"}, {"read"})
  /\ call.vst # "absent"
  /\ IF call.vst \in {"canceled", "rejected"} /\ call.cum = 0
     THEN /\ TransitionOrder(o, IF call.vst = "canceled" THEN "CANCELED" ELSE "REJECTED")
          /\ UNCHANGED bid
     ELSE AdoptBrokerId(o)
  /\ EndCall
  /\ UNCHANGED <<ledger, owners, counters, sessions, apiCancel, exchange, bounds>>

\* Mutant: the first not-found answer is believed.
ResolveNotFound_First(o) ==
  /\ InCall(o, {"query"}, {"read"})
  /\ call.vst = "absent"
  /\ TransitionOrder(o, "REJECTED")
  /\ EndCall
  /\ UNCHANGED <<bid, ledger, owners, counters, sessions, apiCancel, exchange,
                 bounds>>

\* Mutant: the not-found answer is not recorded.
ResolveNotFound_Uncounted(o) ==
  /\ InCall(o, {"query"}, {"read"})
  /\ call.vst = "absent"
  /\ IF notFound[o] + 1 >= MaxQuery THEN TransitionOrder(o, "REJECTED")
     ELSE UNCHANGED status
  /\ EndCall
  /\ UNCHANGED <<bid, ledger, owners, counters, sessions, apiCancel, exchange,
                 bounds>>

\* The last confirmation rejects the order, an earlier one is counted; a count
\* that cannot be written is swallowed.
ResolveNotFound(o) ==
  /\ InCall(o, {"query"}, {"read"})
  /\ call.vst = "absent"
  /\ IF notFound[o] + 1 >= MaxQuery
     THEN TransitionOrder(o, "REJECTED") /\ UNCHANGED <<notFound, bounds>>
     ELSE /\ UNCHANGED status
          /\ \/ notFound' = [notFound EXCEPT ![o] = @ + 1] /\ UNCHANGED bounds
             \/ StoreFails /\ UNCHANGED notFound
  /\ EndCall
  /\ UNCHANGED <<bid, ledger, owners, redrives, sessions, apiCancel, exchange>>

-----------------------------------------------------------------------------
(* The open-order poll *)

\* Mutant: the recorded sum is not passed to the adapter.
PollSend_NoBase(o) ==
  /\ Take("poll", o)
  /\ call' = [Idle EXCEPT !.kind = "poll", !.order = o, !.at = "sent"]
  /\ UNCHANGED <<phase, winding, order, ledger, owners, counters, sessions,
                 apiCancel, exchange, bounds>>

\* The recorded sum is read before the broker is asked.
PollSend(o) ==
  /\ Take("poll", o)
  /\ call' = [Idle EXCEPT !.kind = "poll", !.order = o, !.at = "sent",
                          !.base = recorded[o]]
  /\ UNCHANGED <<phase, winding, order, ledger, owners, counters, sessions,
                 apiCancel, exchange, bounds>>

PollFails(o) ==
  /\ InCall(o, {"poll"}, {"sent"})
  /\ EndCall
  /\ UNCHANGED <<order, ledger, owners, counters, sessions, apiCancel, exchange,
                 bounds>>

PollReads(o) ==
  /\ InCall(o, {"poll"}, {"sent"})
  /\ ReadVenue(o, "read")
  /\ UNCHANGED <<order, ledger, owners, counters, sessions, apiCancel, exchange,
                 bounds>>

\* The increment over the recorded sum the call was given, under the id of the
\* cumulative level; none when nothing is new or no price can be trusted.
FillDelta(priced) ==
  IF priced /\ call.cum > call.base THEN call.cum - call.base ELSE 0

\* A known id is a duplicate, a conflict if its economics differ.
AppendsFill(o, delta) == delta > 0 /\ fills[o][call.cum] = 0

\* A known id with another quantity is a conflict; with another price it is
\* one too, which the attested price of the operator decides.
FillConflicts(o, delta) ==
  IF delta = 0 \/ fills[o][call.cum] = 0 THEN {FALSE}
  ELSE IF fills[o][call.cum] # delta THEN {TRUE} ELSE BOOLEAN

\* Mutant: a held order is partially filled whatever was recorded.
DivergenceSafeStatus_Partial(o, capped) ==
  IF o \in winding THEN "CANCEL_PENDING" ELSE "PARTIALLY_FILLED"

DivergenceSafeStatus(o, capped) ==
  IF o \in winding THEN "CANCEL_PENDING"
  ELSE IF capped > 0 THEN "PARTIALLY_FILLED" ELSE "SUBMITTED"

\* Mutant: a canceled answer leaves a winding order waiting.
ReconciledStatus_Waits(o, capped) ==
  IF capped >= Qty THEN "FILLED"
  ELSE IF call.vst = "rejected" THEN "REJECTED"
  ELSE IF call.vst = "cancelling" THEN "CANCEL_PENDING"
  ELSE DivergenceSafeStatus(o, capped)

ReconciledStatus(o, capped) ==
  IF capped >= Qty THEN "FILLED"
  ELSE IF call.vst = "canceled" THEN "CANCELED"
  ELSE IF call.vst = "rejected" THEN "REJECTED"
  ELSE IF call.vst = "cancelling" THEN "CANCEL_PENDING"
  ELSE DivergenceSafeStatus(o, capped)

\* A divergence gets a needs_review record unless its broker id has a record
\* already; a failed write is swallowed and tried again at the next poll.
EscalateFillDivergence(o) ==
  IF recovery[o] # "none" THEN UNCHANGED <<recovery, bounds>>
  ELSE \/ recovery' = [recovery EXCEPT ![o] = "needs_review"] /\ UNCHANGED bounds
       \/ StoreFails /\ UNCHANGED recovery

\* The recorded sum after the append, and the part of it the order can hold.
Booked(o, delta) == recorded[o] + (IF AppendsFill(o, delta) THEN delta ELSE 0)
Capped(n) == IF n < Qty THEN n ELSE Qty

\* Append what the broker reports, then move the order to the status the
\* recorded fills imply; shares that could not be recorded hold it open.
BookFill(o, delta, conflict) ==
  /\ recorded' = [recorded EXCEPT ![o] = Booked(o, delta)]
  /\ fills' = IF AppendsFill(o, delta)
              THEN [fills EXCEPT ![o][call.cum] = delta] ELSE fills
  /\ IF call.cum > Booked(o, delta) \/ conflict
     THEN /\ EscalateFillDivergence(o)
          /\ TransitionOrder(o, DivergenceSafeStatus(o, Capped(Booked(o, delta))))
     ELSE /\ TransitionOrder(o, ReconciledStatus(o, Capped(Booked(o, delta))))
          /\ UNCHANGED <<recovery, bounds>>

ApplyUpdate(o) ==
  /\ InCall(o, {"poll"}, {"read"})
  /\ \E priced \in (IF o \in Buys THEN {TRUE} ELSE BOOLEAN) :
     \E conflict \in FillConflicts(o, FillDelta(priced)) :
       BookFill(o, FillDelta(priced), conflict)
  /\ EndCall
  /\ UNCHANGED <<bid, noIdReview, seed, uncertain, counters, sessions, apiCancel,
                 exchange>>

-----------------------------------------------------------------------------
(* Recovery of accepted submits the order could not adopt *)

RecoverReads(o) ==
  /\ Take("recover", o)
  /\ call' = [Idle EXCEPT !.kind = "recover", !.order = o, !.at = "read",
                          !.cum = venue[o].filled, !.vst = venue[o].st]
  /\ UNCHANGED <<phase, winding, order, ledger, owners, counters, sessions,
                 apiCancel, exchange, bounds>>

\* A poll or a cancel fails: the record stays unresolved for the next tick.
RecoverFails(o) ==
  /\ \/ Take("recover", o) /\ UNCHANGED <<phase, winding, call>>
     \/ InCall(o, {"recover"}, {"cancel", "confirm"}) /\ EndCall
  /\ UNCHANGED <<order, ledger, owners, counters, sessions, apiCancel, exchange,
                 bounds>>

\* Shares executed that no order tracks: never cancel and drop them.
RecoverFilled(o) ==
  /\ InCall(o, {"recover"}, {"read", "confirmed"})
  /\ call.cum > 0
  /\ recovery' = [recovery EXCEPT ![o] = "needs_review"]
  /\ EndCall
  /\ UNCHANGED <<order, ledger, noIdReview, seed, uncertain, counters, sessions,
                 apiCancel, exchange, bounds>>

\* The venue's terminal fact is appended to the order's log, past the
\* transition table, and then the record is released; either may fail.
ResolveRecoveryTerminal(o) ==
  /\ InCall(o, {"recover"}, {"read", "confirmed"})
  /\ call.cum = 0
  /\ call.vst \in {"canceled", "rejected"}
  /\ LET fact == [status EXCEPT ![o] = IF call.vst = "canceled" THEN "CANCELED"
                                       ELSE "REJECTED"]
     IN  \/ /\ status' = fact
            /\ recovery' = [recovery EXCEPT ![o] = "resolved_canceled"]
            /\ UNCHANGED bounds
         \/ StoreFails /\ status' \in {status, fact} /\ UNCHANGED recovery
  /\ EndCall
  /\ UNCHANGED <<bid, ledger, noIdReview, seed, uncertain, counters, sessions,
                 apiCancel, exchange>>

\* Mutant: a live order is left alone.
RecoverLive_NeverCancels(o) ==
  /\ InCall(o, {"recover"}, {"read", "confirmed"})
  /\ call.cum = 0
  /\ call.vst \in VenueLive
  /\ EndCall
  /\ UNCHANGED <<order, ledger, owners, counters, sessions, apiCancel, exchange,
                 bounds>>

\* Live without a fill: ask for a cancel, or leave it to the next tick when
\* the confirmation still shows it live.
RecoverLive(o) ==
  /\ InCall(o, {"recover"}, {"read", "confirmed"})
  /\ call.cum = 0
  /\ call.vst \in VenueLive
  /\ IF call.at = "read" THEN Advance("cancel") ELSE EndCall
  /\ UNCHANGED <<order, ledger, owners, counters, sessions, apiCancel, exchange,
                 bounds>>

RecoverCancels(o) ==
  /\ InCall(o, {"recover"}, {"cancel"})
  /\ LandCancel(o)
  /\ Advance("confirm")
  /\ UNCHANGED <<late, order, ledger, owners, counters, sessions, apiCancel, bounds>>

RecoverConfirms(o) ==
  /\ InCall(o, {"recover"}, {"confirm"})
  /\ ReadVenue(o, "confirmed")
  /\ UNCHANGED <<order, ledger, owners, counters, sessions, apiCancel, exchange,
                 bounds>>

-----------------------------------------------------------------------------
(* Manual cancel *)

\* Mutant: a claimed order may be canceled locally too.
LocalCreatedCancelEligible_Claimed(o) ==
  /\ status[o] \in {"CREATED", "SUBMITTING"}
  /\ o \notin bid /\ ~RecoveryOpen(o) /\ o \notin uncertain

\* No broker id, no open record, no fallback fact: the order is only local.
LocalCreatedCancelEligible(o) ==
  status[o] = "CREATED" /\ o \notin bid /\ ~RecoveryOpen(o) /\ o \notin uncertain

CancelLocal(o) ==
  /\ LocalCreatedCancelEligible(o)
  /\ TransitionOrder(o, "CANCELED")
  /\ UNCHANGED <<bid, ledger, owners, counters, sessions, loop, apiCancel,
                 exchange, bounds>>

CancelSend(o) ==
  /\ status[o] \in {"SUBMITTED", "PARTIALLY_FILLED"}
  /\ o \in bid
  /\ apiCancel[o] = "none"
  /\ apiCancel' = [apiCancel EXCEPT ![o] = "sent"]
  /\ UNCHANGED <<order, ledger, owners, counters, sessions, loop, exchange, bounds>>

CancelLands(o) ==
  /\ apiCancel[o] = "sent"
  /\ apiCancel' = [apiCancel EXCEPT ![o] = "landed"]
  /\ LandCancel(o)
  /\ UNCHANGED <<late, order, ledger, owners, counters, sessions, loop, bounds>>

\* The broker accepted the request; the poll may have moved the order since.
CancelFinish(o) ==
  /\ apiCancel[o] = "landed"
  /\ TransitionOrder(o, "CANCEL_PENDING")
  /\ apiCancel' = [apiCancel EXCEPT ![o] = "none"]
  /\ UNCHANGED <<bid, ledger, owners, counters, sessions, loop, exchange, bounds>>

\* A broker failure leaves the order unchanged, whether or not it landed.
CancelFails(o) ==
  /\ apiCancel[o] # "none"
  /\ apiCancel' = [apiCancel EXCEPT ![o] = "none"]
  /\ UNCHANGED <<order, ledger, owners, counters, sessions, loop, exchange, bounds>>

-----------------------------------------------------------------------------
(* Session controls *)

Command ==
  commands < MaxCommands /\ commands' = commands + 1 /\ UNCHANGED <<crashes, faults>>

Toggle(S, x) == IF x \in S THEN S \ {x} ELSE S \cup {x}

\* Controls act on the session of today.
SetKillSwitch ==
  /\ Command
  /\ halted' = Toggle(halted, today)
  /\ UNCHANGED <<today, reducing, closed, order, ledger, owners, counters, loop,
                 apiCancel, exchange>>

SetBuysPaused ==
  /\ Command
  /\ reducing' = Toggle(reducing, today)
  /\ UNCHANGED <<today, halted, closed, order, ledger, owners, counters, loop,
                 apiCancel, exchange>>

\* Closing cancels the session's local CREATED buys, once.
CloseSession(s) ==
  /\ Command
  /\ s \notin closed
  /\ closed' = closed \cup {s}
  /\ status' = [o \in Orders |->
                 IF s = OwnSession /\ o \in Buys /\ LocalCreatedCancelEligible(o)
                 THEN "CANCELED" ELSE status[o]]
  /\ UNCHANGED <<today, halted, reducing, bid, ledger, owners, counters, loop,
                 apiCancel, exchange>>

\* The first use of a new date mints a fresh, permissive session.
EnsureCurrentSession ==
  /\ today < Days
  /\ today' = today + 1
  /\ UNCHANGED <<halted, reducing, closed, order, ledger, owners, counters, loop,
                 apiCancel, exchange, bounds>>

-----------------------------------------------------------------------------
(* The operator's review commands.  The operator tells the truth: the facts   *)
(* attested are the venue's.  A record under a blank id has no such command.  *)

Polling(o) == call.kind = "poll" /\ call.order = o

IngestSubmitRecoveryFill(o) ==
  /\ recovery[o] = "needs_review"
  /\ OperatorWaits => ~Polling(o)
  /\ \E level \in Levels :
       /\ recorded[o] < level
       /\ level <= venue[o].filled
       /\ fills[o][level] = 0
       /\ fills' = [fills EXCEPT ![o][level] = level - recorded[o]]
       /\ recorded' = [recorded EXCEPT ![o] = level]
  /\ UNCHANGED <<order, owners, counters, sessions, loop, apiCancel, exchange,
                 bounds>>

\* Mutant: the parity of the recorded fills is not checked.
ReconcileSubmitRecovery_NoParity(o) ==
  /\ recovery[o] = "needs_review"
  /\ venue[o].st \in VenueTerminal
  /\ recovery' = [recovery EXCEPT ![o] = "operator_reconciled"]
  /\ UNCHANGED <<order, ledger, noIdReview, seed, uncertain, counters, sessions,
                 loop, apiCancel, exchange, bounds>>

\* Terminal at the broker and cumulative parity with the recorded fills.
ReconcileSubmitRecovery(o) ==
  /\ recovery[o] = "needs_review"
  /\ venue[o].st \in VenueTerminal
  /\ recorded[o] = venue[o].filled
  /\ recovery' = [recovery EXCEPT ![o] = "operator_reconciled"]
  /\ UNCHANGED <<order, ledger, noIdReview, seed, uncertain, counters, sessions,
                 loop, apiCancel, exchange, bounds>>

-----------------------------------------------------------------------------
(* The venue *)

SetVenue(o, st) == venue' = [venue EXCEPT ![o].st = st]

VenueFills(o) ==
  /\ venue[o].st \in VenueLive
  /\ venue' = [venue EXCEPT ![o] =
                 [st |-> IF @.filled + 1 = Qty THEN "filled" ELSE @.st,
                  filled |-> @.filled + 1]]
  /\ UNCHANGED <<late, order, ledger, owners, counters, sessions, loop, apiCancel,
                 bounds>>

VenueCancels(o) ==
  /\ venue[o].st = "cancelling"
  /\ SetVenue(o, "canceled")
  /\ UNCHANGED <<late, order, ledger, owners, counters, sessions, loop, apiCancel,
                 bounds>>

\* A DAY order expires, which the adapter maps to CANCELED.
VenueExpires(o) ==
  /\ venue[o].st = "live"
  /\ SetVenue(o, "canceled")
  /\ UNCHANGED <<late, order, ledger, owners, counters, sessions, loop, apiCancel,
                 bounds>>

VenueRejects(o) ==
  /\ venue[o].st = "live"
  /\ venue[o].filled = 0
  /\ SetVenue(o, "rejected")
  /\ UNCHANGED <<late, order, ledger, owners, counters, sessions, loop, apiCancel,
                 bounds>>

\* A request nobody waits for lands after all, or is lost.
LateLands(o) ==
  /\ o \in late
  /\ late' = late \ {o}
  /\ Land(o)
  /\ UNCHANGED <<order, ledger, owners, counters, sessions, loop, apiCancel, bounds>>

LateLost(o) ==
  /\ o \in late
  /\ late' = late \ {o}
  /\ UNCHANGED <<venue, order, ledger, owners, counters, sessions, loop, apiCancel,
                 bounds>>

-----------------------------------------------------------------------------
(* The process stops: only the store and the venue survive *)

Stop ==
  /\ crashes < MaxCrashes
  /\ crashes' = crashes + 1
  /\ AbortTick
  /\ apiCancel' = [o \in Orders |-> "none"]
  /\ UNCHANGED <<commands, faults>>

Crash ==
  /\ Stop
  /\ late' = IF call.kind \in {"submit", "redrive"} /\ call.at = "sent"
             THEN late \cup {call.order} ELSE late
  /\ UNCHANGED <<order, venue, ledger, owners, counters, sessions>>

\* An orderly shutdown cancels the loop inside a submit: the unknown send is
\* quarantined before the cancellation propagates.
Shutdown(o) ==
  /\ InCall(o, {"submit", "redrive"}, {"sent", "landed"})
  /\ Stop
  /\ TransitionOrder(o, "TIMEOUT_QUARANTINE")
  /\ GiveUp(o)
  /\ UNCHANGED <<bid, venue, ledger, owners, counters, sessions>>

-----------------------------------------------------------------------------
(* The specification *)

RepairStep == RepairAbort \/ \E o \in Orders : RepairAdopt(o) \/ RepairRecover(o)

SubmitStep ==
  \E o \in Orders :
    \/ ClaimOrderForSubmission(o) \/ ClaimSkipped(o)
    \/ SendSubmit(o) \/ ReleaseUnpriceable(o) \/ PrepareAbort(o)
    \/ SubmitTransient(o)

OutcomeStep ==
  \E o \in Orders :
    \/ VenueAccepts(o) \/ SubmitAcked(o) \/ SubmitTerminal(o)
    \/ SubmitAmbiguous(o) \/ SubmitAmbiguousOwned(o) \/ SubmitAmbiguousAbort(o)
    \/ FinalizeAcceptedSubmit(o) \/ FinalizeRetried(o)
    \/ HandleUnpersistedSubmit(o) \/ RecordAcceptedSubmitUncertainty(o)
    \/ FinalizeLost(o)

RedriveStep ==
  \E o \in Orders :
    \/ RedriveSend(o) \/ RedriveUnpriceable(o) \/ RedriveUnreserved(o)
    \/ RedriveAbort(o) \/ RedriveExhausted(o) \/ RedriveTransient(o)

ResolveStep ==
  \/ ResolveDeferred
  \/ \E o \in Orders :
       \/ QuerySend(o) \/ QueryFails(o) \/ QueryFinds(o) \/ QueryMisses(o)
       \/ ResolveFound(o) \/ ResolveNotFound(o)

PollStep ==
  \E o \in Orders : PollSend(o) \/ PollFails(o) \/ PollReads(o) \/ ApplyUpdate(o)

RecoverStep ==
  \E o \in Orders :
    \/ RecoverReads(o) \/ RecoverFails(o) \/ RecoverFilled(o)
    \/ ResolveRecoveryTerminal(o) \/ RecoverLive(o) \/ RecoverCancels(o)
    \/ RecoverConfirms(o)

LoopStep ==
  \/ EnterPhase \/ RepairStep \/ SubmitStep \/ OutcomeStep \/ RedriveStep
  \/ ResolveStep \/ PollStep \/ RecoverStep

CommandStep ==
  \/ \E o \in Orders :
       \/ CancelLocal(o) \/ CancelSend(o) \/ CancelLands(o) \/ CancelFinish(o)
       \/ CancelFails(o)
       \/ IngestSubmitRecoveryFill(o) \/ ReconcileSubmitRecovery(o)
  \/ SetKillSwitch \/ SetBuysPaused \/ EnsureCurrentSession
  \/ \E s \in 1 .. today : CloseSession(s)

VenueStep ==
  \E o \in Orders :
    \/ VenueFills(o) \/ VenueCancels(o) \/ VenueExpires(o) \/ VenueRejects(o)
    \/ LateLands(o) \/ LateLost(o)

StopStep == Crash \/ \E o \in Orders : Shutdown(o)

Next == LoopStep \/ CommandStep \/ VenueStep \/ StopStep

Spec == Init /\ [][Next]_vars

\* The event loop keeps running the tick; a broker call that is made again and
\* again is answered again and again; the round-robin query budget reaches
\* every quarantined order; the venue finishes cancels and deliveries.
Fairness ==
  /\ WF_vars(LoopStep)
  /\ \A o \in Orders :
       /\ SF_vars(QuerySend(o))
       /\ SF_vars(QueryFinds(o) \/ QueryMisses(o))
       /\ SF_vars(PollReads(o))
       /\ SF_vars(RecoverReads(o))
       /\ SF_vars(RecoverCancels(o))
       /\ SF_vars(RecoverConfirms(o))
       /\ WF_vars(VenueCancels(o))
       /\ WF_vars(LateLands(o) \/ LateLost(o))

FairSpec == Spec /\ Fairness

-----------------------------------------------------------------------------
(* Safety *)

\* A request can still create the order at the venue; once the venue holds the
\* client_order_id a late copy is only a duplicate.
MayLand(o) == o \in late /\ venue[o].st = "absent"

\* INV-022: an order that is live at the venue, or whose request may still
\* land there, has a durable local owner: a row some sweep works on, or an open
\* recovery record.  About _submit_pending_orders, _redrive_stale_submitting,
\* _handle_unpersisted_submit and every path that makes an order terminal.
Tracked(o) ==
  \/ status[o] \in {"SUBMITTING", "TIMEOUT_QUARANTINE"}
  \/ status[o] \in OpenStatuses /\ o \in bid
  \/ RecoveryOpen(o)

NoUntrackedLiveOrder ==
  \A o \in Orders : venue[o].st \in VenueLive \/ MayLand(o) => Tracked(o)

\* INV-024: a terminal order is settled: nothing of it is live or on its way,
\* and every share the venue executed for it is recorded, none more.  About
\* _apply_update, _resolve_timeout_quarantine and _recover_unpersisted_submits.
TerminalIsSettled ==
  \A o \in Orders : status[o] \in TerminalStatuses =>
    /\ venue[o].st \notin VenueLive
    /\ ~MayLand(o)
    /\ recorded[o] = venue[o].filled

\* No share is counted twice: the recorded fills of an order never exceed what
\* the venue executed.  About the delta and the source ids of _get_fills, the
\* poll and the operator's ingestion.
NoInventedFill == \A o \in Orders : recorded[o] <= venue[o].filled

\* A CREATED order, which the next tick submits as new, never reached the
\* venue and has no request on its way (ADR-002: an unknown outcome is never
\* released).  About the release paths of _submit_pending_orders.
CreatedNeverSent ==
  \A o \in Orders : status[o] = "CREATED" =>
    venue[o].st = "absent" /\ o \notin late /\ o \notin bid

\* While a submit or a re-drive is in flight nothing moves its order out of
\* SUBMITTING: neither a manual cancel, nor a close, nor a stop of trading.
ClaimShields ==
  call.kind \in {"submit", "redrive"} =>
    status[call.order] = "SUBMITTING" /\ call.order \notin bid

\* D-013a: no BUY of a closed session is left CREATED, also when the session
\* closes while its submit is in flight.  About close_session and the release.
NoZombieBuy ==
  \A o \in Buys : OwnSession \in closed => status[o] # "CREATED"

\* INV-075: every change of the projected status is a legal transition or the
\* submission claim, also where recovery appends a terminal fact past the
\* table (_record_recovery_terminal_fact).
LegalMove(o) ==
  \/ status'[o] = status[o]
  \/ status'[o] \in ORDER_TRANSITIONS[status[o]]
  \/ status[o] = "CREATED" /\ status'[o] = "SUBMITTING"

LegalStep == \A o \in Orders : LegalMove(o)
LifecycleGuarded == [][LegalStep]_vars

\* A released recovery record is settled for good: its broker order is terminal
\* and the fills recorded are the fills executed, whatever the poll, a repeated
\* submit or a late delivery do afterwards.  About _resolve_recovery_terminal
\* and reconcile_submit_recovery.
ReleasedIsSettled ==
  \A o \in Orders : recovery[o] \in {"resolved_canceled", "operator_reconciled"} =>
    venue[o].st \in VenueTerminal /\ recorded[o] = venue[o].filled

-----------------------------------------------------------------------------
(* The inductive invariants.  SubmissionInv stands on its own; LedgerInv adds *)
(* the recorded fills and needs the operator's discipline.                    *)

\* Nothing of the order exists outside its row.
Clean(o) ==
  /\ venue[o].st = "absent" /\ o \notin late /\ o \notin bid
  /\ recovery[o] = "none" /\ o \notin noIdReview
  /\ o \notin seed /\ o \notin uncertain

VenueSound ==
  \A o \in Orders :
    /\ venue[o].st \in {"absent", "rejected"} => venue[o].filled = 0
    /\ venue[o].filled = Qty <=> venue[o].st = "filled"

\* Which broker call each sweep makes.
CallOf ==
  [sleep |-> "none", repair |-> "none", submit |-> "submit",
   redrive |-> "redrive", resolve |-> "query", poll |-> "poll",
   recover |-> "recover"]

\* A call belongs to the current sweep and its order has left the list; what
\* made a sweep list an order lasts until the sweep reaches it.
LoopShape ==
  /\ call.kind \in {"none", CallOf[phase]}
  /\ call.kind # "none" => call.order \in Orders \ todo
  /\ call.kind = "none" => call = Idle
  /\ phase = "repair" => todo \subseteq seed
  /\ phase = "redrive" => \A o \in todo : status[o] = "SUBMITTING" /\ o \notin bid
  /\ phase = "poll" => todo \subseteq bid
  /\ phase = "recover" => \A o \in todo : recovery[o] # "none"
  /\ call.kind = "poll" => call.order \in bid
  /\ call.kind = "recover" => recovery[call.order] # "none"

CreatedIsClean == \A o \in Orders : status[o] = "CREATED" => Clean(o)

UnsentIsClean ==
  call.kind = "submit" /\ call.at \in {"prepare", "sent"} => Clean(call.order)

OpenHasId ==
  \A o \in Orders :
    /\ status[o] \in OpenStatuses => o \in bid
    /\ o \in bid => status[o] \in OpenStatuses \cup TerminalStatuses

SubmissionParts ==
  /\ VenueSound
  /\ LoopShape
  /\ CreatedIsClean
  /\ UnsentIsClean
  /\ OpenHasId
  /\ ClaimShields
  /\ NoZombieBuy

SubmissionInv == TypeOK /\ SubmissionParts

\* The venue agrees with the terminal status; absent means never to come.
Agrees(o) ==
  /\ status[o] = "FILLED" => venue[o].st = "filled"
  /\ status[o] = "CANCELED" => venue[o].st \in {"absent", "canceled"}
  /\ status[o] = "REJECTED" => venue[o].st \in {"absent", "rejected"}
  /\ venue[o].st = "absent" => o \notin late
  /\ recorded[o] = venue[o].filled

TerminalAgrees ==
  \A o \in Orders : status[o] \in TerminalStatuses => Agrees(o)

\* A broker answer stays true in what the handlers use of it.
AnswerHolds ==
  call.kind # "none" =>
    /\ call.cum <= venue[call.order].filled
    /\ call.vst \in VenueTerminal =>
         venue[call.order].st = call.vst /\ call.cum = venue[call.order].filled
    /\ /\ call.kind = "query" /\ call.at = "read" /\ call.vst = "absent"
       /\ notFound[call.order] + 1 >= MaxQuery
       => venue[call.order].st = "absent" /\ call.order \notin late
    /\ call.kind = "poll" => call.base = recorded[call.order]

PartialHasFill ==
  \A o \in Orders : status[o] = "PARTIALLY_FILLED" => recorded[o] > 0

LedgerParts ==
  /\ NoInventedFill
  /\ TerminalAgrees
  /\ AnswerHolds
  /\ PartialHasFill
  /\ ReleasedIsSettled

LedgerInv == SubmissionInv /\ LedgerParts

-----------------------------------------------------------------------------
(* Liveness *)

\* ADR-002: a quarantined order is resolved.
QuarantineResolves ==
  \A o \in Orders :
    status[o] = "TIMEOUT_QUARANTINE" ~> status[o] # "TIMEOUT_QUARANTINE"

\* INV-023: a SUBMITTING order is not left stranded: it moves on, or an open
\* recovery record shows it to the operator.
SubmittingNotStranded ==
  \A o \in Orders :
    status[o] = "SUBMITTING" ~> status[o] # "SUBMITTING" \/ RecoveryOpen(o)

\* D-017: the recovery loop drives every unresolved record to an end.
RecoveryConverges ==
  \A o \in Orders : recovery[o] = "unresolved" ~> recovery[o] # "unresolved"

\* CHAOS-1: a cancel the broker accepted ends in a terminal order, or in a
\* divergence the operator can see.
CancelSettles ==
  \A o \in Orders :
    status[o] = "CANCEL_PENDING" ~> status[o] \in TerminalStatuses \/ RecoveryOpen(o)
-----------------------------------------------------------------------------
(* Refinement *)

OwnStage(o) ==
  CASE status[o] = "CREATED" -> "local"
    [] status[o] \in TerminalStatuses -> "settled"
    [] OTHER -> "owned"

Ownership == INSTANCE OrderOwnership WITH
  stage <- [o \in Orders |-> OwnStage(o)],
  executed <- [o \in Orders |-> venue[o].filled],
  booked <- recorded

\* The order path keeps the promise of OrderOwnership: an order executes only
\* between its claim and its terminal status, goes back to CREATED only if the
\* attempt left nothing behind, and reaches a terminal status for good and only
\* with its last executions recorded.  About every write of an order's status.
ImplementsOwnership == Ownership!Spec
=============================================================================
