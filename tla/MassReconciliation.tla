------------------------- MODULE MassReconciliation -------------------------
(***************************************************************************)
(* The acting mass-report reconcile of the monitoring loop                 *)
(* (app/monitoring.py, _run_reconciliation) and the gate it drives.        *)
(*                                                                         *)
(* Every tick starts with a pass: the venue's open orders are read, then   *)
(* its positions, then the local rows; the plan compares the three.  An    *)
(* order that is open locally and missing from the report is looked up by  *)
(* its client order id, and only after Retries recorded absences is it     *)
(* ended locally.  The pass leaves the reconcile driver of the current     *)
(* session ACTIVE when nothing differs and REDUCING otherwise; a pass that *)
(* fails leaves it REDUCING and ends the tick.  BUYs are claimed only      *)
(* while the drivers of their own and of the current session are ACTIVE.   *)
(*                                                                         *)
(* The loop is one process.  The operator, the strategy, the venue and the *)
(* calendar move between any two of its steps, the process can die at any  *)
(* of them.  All orders are of one symbol.  The kill switch and the pause  *)
(* of buys only add refusals and are left out; submission, quarantine and  *)
(* polling, modelled in OrderSubmission, are one step each.  Query budget  *)
(* and row age depend on the clock: the budget grants or refuses a call, a *)
(* pass takes any of the rows for recent.                                  *)
(***************************************************************************)
EXTENDS Integers, FiniteSets, FiniteSetsExt

CONSTANTS
    Orders,      \* orders of the symbol
    Sells,       \* those that sell; the others buy
    Qty,         \* shares of an order
    Retries,     \* settings.reconcile_open_check_missing_retries
    MaxLag,      \* lookups a venue may miss an order it has
    MaxDay,      \* sessions
    MaxFaults    \* crashes, failed calls and writes, forgotten orders

ASSUME ReconcileAssumption ==
    /\ Sells \subseteq Orders
    /\ Qty \in Nat \ {0}
    /\ Retries \in Nat \ {0}
    /\ MaxLag \in 0 .. Retries - 1
    /\ MaxDay \in Nat \ {0}
    /\ MaxFaults \in Nat

VARIABLES
    status,   \* order row: status
    filled,   \* order row: sum of the recorded fills
    session,  \* order row: session the order was created in
    streak,   \* not_found deferrals since the last cleared_present marker
    driver,   \* reconcile driver of each session
    today,    \* current session
    venue,    \* venue: whether it has the order, and working
    vfilled,  \* venue: shares executed
    lag,      \* venue: lookups that still miss the order
    pc,       \* step of the loop
    booting,  \* the pass is the one of run_startup_reconcile
    report,   \* list_open_orders of this pass: shares executed by order
    todo,     \* orders to look up, with the status they were read in
    gaps,     \* _has_unresolved_divergence(plan)
    answer,   \* the lookup that was answered
    verdict,  \* history: what the last pass found, and its session
    faults    \* faults so far

store == <<status, filled, session, streak>>
gate == <<driver, today>>
broker == <<venue, vfilled, lag>>
pass == <<report, todo, gaps, answer>>
vars == <<store, gate, broker, pc, booting, pass, verdict, faults>>

Days == 1 .. MaxDay
Open == {"SUBMITTED", "PARTIALLY_FILLED", "CANCEL_PENDING"}
Resolvable == {"SUBMITTED", "PARTIALLY_FILLED"}
Ended == {"FILLED", "CANCELED", "REJECTED"}
Statuses == Open \cup Ended \cup {"NONE", "CREATED", "TIMEOUT_QUARANTINE"}
Nobody == [order |-> "none", status |-> "NONE", present |-> FALSE]

\* The signed position that shares f of the orders add up to.
Position(f) == MapThenSumSet(LAMBDA o : IF o \in Sells THEN -f[o] ELSE f[o], Orders)

TypeOK ==
    /\ status \in [Orders -> Statuses]
    /\ filled \in [Orders -> 0 .. Qty]
    /\ session \in [Orders -> 0 .. MaxDay]
    /\ streak \in [Orders -> 0 .. Retries - 1]
    /\ driver \in [Days -> {"ACTIVE", "REDUCING"}]
    /\ today \in Days
    /\ venue \in [Orders -> {"none", "open", "done"}]
    /\ vfilled \in [Orders -> 0 .. Qty]
    /\ lag \in [Orders -> 0 .. MaxLag]
    /\ pc \in {"down", "idle", "orders", "positions", "resolve", "answered", "tick"}
    /\ booting \in BOOLEAN
    /\ faults \in 0 .. MaxFaults

Init ==
    /\ status = [o \in Orders |-> "NONE"]
    /\ filled = [o \in Orders |-> 0]
    /\ session = [o \in Orders |-> 0]
    /\ streak = [o \in Orders |-> 0]
    /\ driver = [d \in Days |-> "ACTIVE"]
    /\ today = 1
    /\ venue = [o \in Orders |-> "none"]
    /\ vfilled = [o \in Orders |-> 0]
    /\ lag = [o \in Orders |-> 0]
    /\ pc = "down" /\ booting = FALSE
    /\ report = <<>> /\ todo = {} /\ gaps = FALSE
    /\ answer = Nobody
    /\ verdict = [parity |-> FALSE, day |-> 1]
    /\ faults = 0

Fault == faults < MaxFaults /\ faults' = faults + 1

\* What a pass has read does not outlive it.
ForgetPass ==
    /\ report' = <<>> /\ todo' = {} /\ gaps' = FALSE
    /\ answer' = Nobody

\* _safe_set_reconcile_state writes the driver of the current session.
Drive(to) ==
    /\ driver' = [driver EXCEPT ![today] = to]
    /\ UNCHANGED today

----------------------------------------------------------------------------
(* The loop: startup, and the pass at the head of every tick.              *)

\* run_startup_reconcile: reduce-only first, then one pass on a new budget;
\* startup is abandoned while that write cannot be verified.
Boot ==
    /\ pc = "down"
    /\ Drive("REDUCING")
    /\ booting' = TRUE
    /\ pc' = "idle"
    /\ verdict' = [parity |-> FALSE, day |-> today]
    /\ UNCHANGED <<store, broker, pass, faults>>

\* After a pass: the startup pass hands over to the loop with its own budget,
\* the pass of a tick to the rest of the tick.
Hand(next) ==
    /\ pc' = IF booting THEN "idle" ELSE next
    /\ booting' = FALSE

StartPass ==
    /\ pc = "idle"
    /\ pc' = "orders"
    /\ UNCHANGED <<store, gate, broker, booting, pass, verdict, faults>>

\* ReconcileQueryBudget refuses the two mass reports: no pass and no tick.
SkipPass ==
    /\ pc = "idle"
    /\ Drive("REDUCING")
    /\ Hand("idle")
    /\ verdict' = [parity |-> FALSE, day |-> today]
    /\ UNCHANGED <<store, broker, pass, faults>>

\* list_open_orders: the venue's working orders; it may miss one it lags on.
ReadOrders ==
    /\ pc = "orders"
    /\ \E missed \in SUBSET {o \in Orders : venue[o] = "open" /\ lag[o] > 0} :
          report' = [o \in {q \in Orders : venue[q] = "open"} \ missed |-> vfilled[o]]
    /\ pc' = "positions"
    /\ UNCHANGED <<store, gate, broker, booting, todo, gaps, answer, verdict, faults>>

\* plan_reconciliation: open orders to look up, without those whose row changed
\* within the threshold, ...
NeedsTargetedQuery(recent) ==
    {o \in Orders \ recent : /\ status[o] \in Open
                             /\ o \notin DOMAIN report \/ report[o] > filled[o]}

\* ... venue rows that belong to no open order, and the position.
ExternalOrders ==
    \E o \in DOMAIN report : status[o] \notin Open

PositionMismatch == Position(vfilled) # Position(filled)

HasUnresolvedDivergence_OrdersOnly(recent) ==
    NeedsTargetedQuery(recent) # {} \/ ExternalOrders
HasUnresolvedDivergence(recent) ==
    NeedsTargetedQuery(recent) # {} \/ ExternalOrders \/ PositionMismatch

\* History: what the reports show and what the store records are the same.
Agrees(recent) ==
    /\ Position(vfilled) = Position(filled)
    /\ \A o \in DOMAIN report : status[o] \in Open /\ (o \in recent \/ report[o] <= filled[o])
    /\ \A o \in Orders \ recent : status[o] \in Open => o \in DOMAIN report

\* list_positions, the local reads and the plan: what the venue does after its
\* positions were read does not reach the plan.
Plan ==
    /\ pc = "positions"
    /\ \E recent \in SUBSET Orders :
          /\ gaps' = HasUnresolvedDivergence(recent)
          /\ todo' = {<<o, status[o]>> :
                        o \in {q \in NeedsTargetedQuery(recent) : status[q] \in Resolvable}}
          /\ verdict' = [parity |-> Agrees(recent), day |-> today]
    /\ report' = <<>>
    /\ pc' = "resolve"
    /\ UNCHANGED <<store, gate, broker, booting, answer, faults>>

\* The read-only lookup by client order id.  The venue misses an order it has
\* at most MaxLag times, and no more once it showed it.
AskVenue(item) ==
    LET o == item[1] IN
    /\ pc = "resolve"
    /\ item \in todo
    /\ todo' = todo \ {item}
    /\ \E found \in BOOLEAN :
          /\ found => venue[o] # "none"
          /\ ~found => venue[o] = "none" \/ lag[o] > 0
          /\ lag' = [lag EXCEPT ![o] = IF ~found /\ @ > 0 THEN @ - 1 ELSE 0]
          /\ answer' = [order |-> o, status |-> item[2], present |-> found]
    /\ pc' = "answered"
    /\ UNCHANGED <<store, gate, venue, vfilled, booting, report, gaps, verdict, faults>>

\* A failed lookup is recorded under a counter of its own and decides nothing.
AskFails(item) ==
    /\ pc = "resolve"
    /\ item \in todo
    /\ todo' = todo \ {item}
    /\ Fault
    /\ UNCHANGED <<store, gate, broker, pc, booting, report, gaps, answer, verdict>>

\* The budget refuses: the orders not looked up stay as they are.
StopAsking ==
    /\ pc = "resolve"
    /\ todo # {}
    /\ todo' = {}
    /\ UNCHANGED <<store, gate, broker, pc, booting, report, gaps, answer, verdict, faults>>

\* Status of an order once its recorded fills equal the venue's.
Polled(o) ==
    CASE vfilled[o] = Qty                             -> "FILLED"
      [] vfilled[o] < Qty /\ venue[o] = "done"        -> "CANCELED"
      [] venue[o] = "open" /\ vfilled[o] \in 1 .. Qty - 1
           /\ status[o] # "CANCEL_PENDING"            -> "PARTIALLY_FILLED"
      [] OTHER                                        -> status[o]

\* _apply_update of a poll by broker id.
ApplyUpdate(o) ==
    /\ status' = [status EXCEPT ![o] = Polled(o)]
    /\ filled' = [filled EXCEPT ![o] = vfilled[o]]

\* The lookup found the order: the streak ends, as far as its marker can be
\* written, and the order is polled at once if there is budget for it and
\* the poll is answered.
SettlePresent ==
    LET o == answer.order IN
    /\ pc = "answered"
    /\ answer.present
    /\ \/ /\ streak' = [streak EXCEPT ![o] = 0]
          /\ status[o] \in Open /\ venue[o] # "none"
          /\ ApplyUpdate(o)
          /\ UNCHANGED faults
       \/ /\ streak' = [streak EXCEPT ![o] = 0]
          /\ UNCHANGED <<status, filled, faults>>
       \/ /\ Fault
          /\ UNCHANGED <<streak, status, filled>>
    /\ answer' = Nobody
    /\ pc' = "resolve"
    /\ UNCHANGED <<session, gate, broker, booting, report, todo, gaps, verdict>>

\* reconcile_resolve_order: the target follows the status that was read, its
\* legality (ORDER_TRANSITIONS) the status under the lock.
ResolvesTo(was) == IF was = "SUBMITTED" THEN "REJECTED" ELSE "CANCELED"

LegalFrom(to) ==
    IF to = "REJECTED" THEN {"SUBMITTED", "CANCEL_PENDING"} ELSE Open

\* The number of absences that ends an order.
Sustained_OffByOne(n) == n + 1 >= Retries
Sustained(n) == n >= Retries

\* The lookup did not find the order: one more absence is recorded, or the
\* order is ended.  An error of the store leaves it for the next pass.
SettleAbsent ==
    LET o == answer.order
        to == ResolvesTo(answer.status)
    IN
    /\ pc = "answered"
    /\ ~answer.present
    /\ \/ /\ Sustained(streak[o] + 1)
          /\ status[o] \in LegalFrom(to)
          /\ status' = [status EXCEPT ![o] = to]
          /\ UNCHANGED <<streak, faults>>
       \/ /\ Sustained(streak[o] + 1)
          /\ status[o] \notin LegalFrom(to)
          /\ UNCHANGED <<status, streak, faults>>
       \/ /\ ~Sustained(streak[o] + 1)
          /\ streak' = [streak EXCEPT ![o] = @ + 1]
          /\ UNCHANGED <<status, faults>>
       \/ Fault /\ UNCHANGED <<status, streak>>
    /\ answer' = Nobody
    /\ pc' = "resolve"
    /\ UNCHANGED <<filled, session, gate, broker, booting, report, todo, gaps,
                   verdict>>

\* The state the gate takes from the plan, which was made before the lookups.
TargetState == IF gaps THEN "REDUCING" ELSE "ACTIVE"

Finish ==
    /\ pc = "resolve"
    /\ todo = {}
    /\ Drive(TargetState)
    /\ verdict' = [verdict EXCEPT !.day = today]
    /\ Hand("tick")
    /\ ForgetPass
    /\ UNCHANGED <<store, broker, faults>>

\* A report, a local read or a write of the pass fails: reduce-only, and the
\* tick ends here.  When that write fails too the driver stays as it was; at
\* startup it is REDUCING already, or the session is new and startup is
\* abandoned.
FailPass ==
    /\ pc \in {"orders", "positions", "resolve"}
    /\ Fault
    /\ \/ Drive("REDUCING")
       \/ UNCHANGED gate
    /\ verdict' = [parity |-> FALSE, day |-> today]
    /\ IF booting /\ driver'[today] = "ACTIVE"
       THEN pc' = "down" /\ booting' = FALSE
       ELSE Hand("idle")
    /\ ForgetPass
    /\ UNCHANGED <<store, broker>>

Crash ==
    /\ pc # "down"
    /\ Fault
    /\ pc' = "down" /\ booting' = FALSE
    /\ ForgetPass
    /\ UNCHANGED <<store, gate, broker, verdict>>

----------------------------------------------------------------------------
(* The rest of the tick.                                                   *)

\* plan_claim_order_for_submission: a BUY needs both sessions ACTIVE.
MayClaim(o) ==
    /\ status[o] = "CREATED"
    /\ o \notin Sells => driver[session[o]] = "ACTIVE" /\ driver[today] = "ACTIVE"

\* Claim and submit: acknowledged, ambiguous (it arrived or it did not), or
\* refused.
Submit(o) ==
    /\ pc = "tick"
    /\ MayClaim(o)
    /\ \E outcome \in {"SUBMITTED", "TIMEOUT_QUARANTINE", "REJECTED"}, arrives \in BOOLEAN :
          /\ outcome = "SUBMITTED" => arrives
          /\ outcome = "REJECTED" => ~arrives
          /\ status' = [status EXCEPT ![o] = outcome]
          /\ venue' = [venue EXCEPT ![o] = IF arrives THEN "open" ELSE "none"]
          /\ lag' = [lag EXCEPT ![o] = IF arrives THEN MaxLag ELSE 0]
    /\ UNCHANGED <<filled, session, streak, gate, vfilled, pc, booting,
                   pass, verdict, faults>>

\* _resolve_timeout_quarantine, from the same budget.
ResolveQuarantine(o) ==
    /\ pc = "tick"
    /\ status[o] = "TIMEOUT_QUARANTINE"
    /\ status' = [status EXCEPT ![o] = IF venue[o] = "none" THEN "REJECTED" ELSE "SUBMITTED"]
    /\ UNCHANGED <<filled, session, streak, gate, broker, pc, booting, pass, verdict, faults>>

\* _reconcile_open_orders: the poll by broker id; an order the venue no longer
\* knows is an error and changes nothing.
Poll(o) ==
    /\ pc = "tick"
    /\ status[o] \in Open
    /\ venue[o] # "none"
    /\ status[o] # Polled(o) \/ filled[o] # vfilled[o]
    /\ ApplyUpdate(o)
    /\ UNCHANGED <<session, streak, gate, broker, pc, booting, pass, verdict, faults>>

EndTick ==
    /\ pc = "tick"
    /\ pc' = "idle"
    /\ UNCHANGED <<store, gate, broker, booting, pass, verdict, faults>>

----------------------------------------------------------------------------
(* Operator and strategy, calendar and clock, venue.                       *)

CreateOrder(o) ==
    /\ status[o] = "NONE"
    /\ pc # "down"
    /\ status' = [status EXCEPT ![o] = "CREATED"]
    /\ session' = [session EXCEPT ![o] = today]
    /\ UNCHANGED <<filled, streak, gate, broker, pc, booting, pass,
                   verdict, faults>>

\* The cancel command marks the order; the venue ends it later, or does not.
RequestCancel(o) ==
    /\ pc # "down"
    /\ status[o] \in Resolvable
    /\ status' = [status EXCEPT ![o] = "CANCEL_PENDING"]
    /\ UNCHANGED <<filled, session, streak, gate, broker, pc, booting, pass,
                   verdict, faults>>

\* A new session has no driver events and so starts ACTIVE.
Rollover ==
    /\ pc # "down"
    /\ today < MaxDay
    /\ today' = today + 1
    /\ UNCHANGED <<store, driver, broker, pc, booting, pass, verdict, faults>>

VenueFills(o) ==
    /\ venue[o] = "open"
    /\ vfilled' = [vfilled EXCEPT ![o] = @ + 1]
    /\ venue' = [venue EXCEPT ![o] = IF vfilled[o] + 1 = Qty THEN "done" ELSE "open"]
    /\ UNCHANGED <<store, gate, lag, pc, booting, pass, verdict, faults>>

VenueEnds(o) ==
    /\ venue[o] = "open"
    /\ venue' = [venue EXCEPT ![o] = "done"]
    /\ UNCHANGED <<store, gate, vfilled, lag, pc, booting, pass, verdict, faults>>

\* The venue loses a working order; what it executed stays in the position.
VenueForgets(o) ==
    /\ venue[o] = "open"
    /\ Fault
    /\ venue' = [venue EXCEPT ![o] = "none"]
    /\ UNCHANGED <<store, gate, vfilled, lag, pc, booting, pass, verdict>>

Loop ==
    \/ Boot \/ StartPass \/ SkipPass \/ ReadOrders \/ Plan
    \/ \E item \in todo : AskVenue(item) \/ AskFails(item)
    \/ StopAsking \/ SettlePresent \/ SettleAbsent \/ Finish \/ FailPass \/ Crash
    \/ \E o \in Orders : Submit(o) \/ ResolveQuarantine(o) \/ Poll(o)
    \/ EndTick

World ==
    \/ \E o \in Orders : CreateOrder(o) \/ RequestCancel(o)
    \/ \E o \in Orders : VenueFills(o) \/ VenueEnds(o) \/ VenueForgets(o)
    \/ Rollover

Next == Loop \/ World

Spec == Init /\ [][Next]_vars

----------------------------------------------------------------------------

\* An order the venue has is ended locally only when it no longer works there
\* and every share it executed is recorded: no absence from a mass report, no
\* lagging lookup, failed query, late answer or empty budget ends a live order
\* (_resolve_one_not_found), which would free its position for a second sell.
EndedIsSettled ==
    \A o \in Orders :
        status[o] \in Ended /\ venue[o] # "none" =>
            venue[o] = "done" /\ filled[o] = vfilled[o]

\* A BUY is claimed only if the last pass of this process found no difference
\* between venue and store; starting, skipping and failing count as a
\* difference (_run_reconciliation, run_startup_reconcile).  The one exception
\* is a session opened since that pass, whose driver has no events yet.
BuysOnlyAtParity ==
    [][\A o \in Orders \ Sells :
          status[o] = "CREATED" /\ status'[o] # "CREATED" =>
              verdict.parity \/ verdict.day # today]_vars
=============================================================================
