---------------------- MODULE MassReconciliationProofs ----------------------
(***************************************************************************)
(* For any set of orders, any quantity, number of retries, sessions and    *)
(* faults: no order the venue has is ended locally before it is settled,   *)
(* and no BUY is claimed on a gate that the last pass did not open.        *)
(*                                                                         *)
(* The argument for the first is a budget.  The venue misses an order it   *)
(* has at most MaxLag times, each miss uses one of them up, and a recorded *)
(* absence is a miss; so the absences of an order the venue has never      *)
(* reach Retries, however the passes fail, skip, stop half-way or restart. *)
(***************************************************************************)
EXTENDS MassReconciliation, TLAPS

Unsent == {"NONE", "CREATED"}

\* What a pass has read, where a step uses it.
PassTyped ==
  /\ pc = "positions" => /\ DOMAIN report \subseteq Orders
                         /\ \A o \in DOMAIN report : report[o] \in 0 .. Qty
  /\ todo \subseteq Orders \X Resolvable
  /\ gaps \in BOOLEAN
  /\ pc = "answered" => answer \in [order : Orders, status : Resolvable, present : BOOLEAN]
  /\ verdict \in [parity : BOOLEAN, day : Days]

\* The absence of o was answered and is not recorded yet.
Pending(o) == pc = "answered" /\ answer.order = o /\ ~answer.present

\* Absences recorded, the one about to be, and misses the venue has left.
Misses(o) == streak[o] + lag[o] + (IF Pending(o) THEN 1 ELSE 0)

MissBudget == \A o \in Orders : venue[o] # "none" => Misses(o) <= MaxLag

\* An order that was not sent has left no trace, and no pass looks it up.
UnsentIsClean ==
  /\ \A o \in Orders : status[o] \in Unsent => /\ venue[o] = "none"
                                               /\ streak[o] = 0 /\ vfilled[o] = 0
  /\ \A item \in todo : status[item[1]] \notin Unsent
  /\ pc = "answered" => status[answer.order] \notin Unsent

\* The venue stops working an order it has filled.
OpenIsUnfilled == \A o \in Orders : venue[o] = "open" => vfilled[o] < Qty

\* The plan found a difference, or the history says it found none.
PlanIsParity == pc \in {"resolve", "answered"} => gaps \/ verdict.parity

\* During a tick an ACTIVE driver is the work of the last pass.
GateIsVerdict ==
  /\ verdict.day <= today
  /\ pc = "tick" /\ driver[today] = "ACTIVE" => verdict.parity \/ verdict.day # today

IInv ==
  /\ TypeOK
  /\ PassTyped
  /\ MissBudget
  /\ UnsentIsClean
  /\ OpenIsUnfilled
  /\ EndedIsSettled
  /\ PlanIsParity
  /\ GateIsVerdict

----------------------------------------------------------------------------
(* What a poll and the plan establish.                                     *)

\* A poll by broker id leaves a row of the same type (monitoring.py).
LEMMA UpdateTyped ==
  ASSUME TypeOK, NEW o \in Orders, ApplyUpdate(o)
  PROVE  /\ status' \in [Orders -> Statuses]
         /\ filled' \in [Orders -> 0 .. Qty]
<1>1. Polled(o) \in Statuses
  BY DEF Polled, TypeOK, Statuses, Open, Ended
<1> QED BY <1>1 DEF ApplyUpdate, TypeOK

\* A poll ends an order only if the venue ended it, and records every share.
LEMMA UpdateSettles ==
  ASSUME TypeOK, OpenIsUnfilled, EndedIsSettled, NEW o \in Orders,
         status[o] \in Open, venue[o] # "none", ApplyUpdate(o),
         UNCHANGED <<venue, vfilled>>
  PROVE  EndedIsSettled'
<1>1. Polled(o) \in Ended => venue[o] = "done"
  BY DEF Polled, TypeOK, OpenIsUnfilled, Open, Ended
<1>2. status'[o] = Polled(o) /\ filled'[o] = vfilled[o]
  BY DEF ApplyUpdate, TypeOK
<1>3. \A p \in Orders \ {o} : status'[p] = status[p] /\ filled'[p] = filled[p]
  BY DEF ApplyUpdate, TypeOK
<1> QED BY <1>1, <1>2, <1>3 DEF EndedIsSettled

\* A plan without a gap has seen the same orders, shares and position on both
\* sides (plan_reconciliation, _has_unresolved_divergence).
LEMMA NoGapIsParity ==
  ASSUME IInv, pc = "positions", NEW recent \in SUBSET Orders
  PROVE  HasUnresolvedDivergence(recent) \/ Agrees(recent)
<1> SUFFICES ASSUME ~HasUnresolvedDivergence(recent)  PROVE Agrees(recent)
  OBVIOUS
<1>1. NeedsTargetedQuery(recent) = {} /\ ~ExternalOrders /\ ~PositionMismatch
  BY DEF HasUnresolvedDivergence
<1>2. /\ DOMAIN report \subseteq Orders
      /\ \A o \in DOMAIN report : report[o] \in Nat /\ filled[o] \in Nat
  BY DEF IInv, PassTyped, TypeOK
<1>3. \A o \in DOMAIN report : status[o] \in Open
  BY <1>1 DEF ExternalOrders
<1>4. \A o \in Orders \ recent : status[o] \in Open =>
         o \in DOMAIN report /\ ~(report[o] > filled[o])
  BY <1>1 DEF NeedsTargetedQuery
<1>5. Position(vfilled) = Position(filled)
  BY <1>1 DEF PositionMismatch
<1> QED BY <1>2, <1>3, <1>4, <1>5 DEF Agrees

----------------------------------------------------------------------------
(* One lemma per action: the invariant survives it.                        *)

\* run_startup_reconcile closes the gate (monitoring.py).
LEMMA BootKeeps == ASSUME IInv, Boot PROVE IInv'
<1> USE ReconcileAssumption DEF IInv, store, gate, broker, pass
<1>1. TypeOK'
  BY DEF Boot, Drive, TypeOK, Statuses, Open, Ended, Resolvable, Days
<1>2. PassTyped'
  BY DEF Boot, Drive, PassTyped, TypeOK, Resolvable, Days
<1>3. MissBudget'
  BY DEF Boot, Drive, MissBudget, Misses, Pending, TypeOK, PassTyped,
       UnsentIsClean, Unsent
<1>4. UnsentIsClean'
  BY DEF Boot, Drive, UnsentIsClean, Unsent, TypeOK, PassTyped, Resolvable,
       Open
<1>5. PlanIsParity'
  BY DEF Boot, Drive, PlanIsParity, TypeOK
<1>6. GateIsVerdict'
  BY DEF Boot, Drive, GateIsVerdict, TypeOK, PassTyped, Days
<1>7. OpenIsUnfilled' /\ EndedIsSettled'
  BY DEF Boot, OpenIsUnfilled, EndedIsSettled
<1> QED BY <1>1, <1>2, <1>3, <1>4, <1>5, <1>6, <1>7

\* A pass begins.
LEMMA StartPassKeeps == ASSUME IInv, StartPass PROVE IInv'
<1> USE ReconcileAssumption DEF IInv, store, gate, broker, pass
<1>1. TypeOK'
  BY DEF StartPass, TypeOK, Statuses, Open, Ended, Resolvable, Days
<1>2. PassTyped'
  BY DEF StartPass, PassTyped, TypeOK, Resolvable, Days
<1>3. MissBudget'
  BY DEF StartPass, MissBudget, Misses, Pending, TypeOK, PassTyped,
       UnsentIsClean, Unsent
<1>4. UnsentIsClean'
  BY DEF StartPass, UnsentIsClean, Unsent, TypeOK, PassTyped, Resolvable, Open
<1>5. PlanIsParity'
  BY DEF StartPass, PlanIsParity, TypeOK
<1>6. GateIsVerdict'
  BY DEF StartPass, GateIsVerdict, TypeOK, PassTyped, Days
<1>7. OpenIsUnfilled' /\ EndedIsSettled'
  BY DEF StartPass, OpenIsUnfilled, EndedIsSettled
<1> QED BY <1>1, <1>2, <1>3, <1>4, <1>5, <1>6, <1>7

\* A pass without budget closes the gate.
LEMMA SkipPassKeeps == ASSUME IInv, SkipPass PROVE IInv'
<1> USE ReconcileAssumption DEF IInv, store, gate, broker, pass
<1>1. TypeOK'
  BY DEF SkipPass, Drive, Hand, TypeOK, Statuses, Open, Ended, Resolvable,
       Days
<1>2. PassTyped'
  BY DEF SkipPass, Drive, Hand, PassTyped, TypeOK, Resolvable, Days
<1>3. MissBudget'
  BY DEF SkipPass, Drive, Hand, MissBudget, Misses, Pending, TypeOK,
       PassTyped, UnsentIsClean, Unsent
<1>4. UnsentIsClean'
  BY DEF SkipPass, Drive, Hand, UnsentIsClean, Unsent, TypeOK, PassTyped,
       Resolvable, Open
<1>5. PlanIsParity'
  BY DEF SkipPass, Drive, Hand, PlanIsParity, TypeOK
<1>6. GateIsVerdict'
  BY DEF SkipPass, Drive, Hand, GateIsVerdict, TypeOK, PassTyped, Days
<1>7. OpenIsUnfilled' /\ EndedIsSettled'
  BY DEF SkipPass, OpenIsUnfilled, EndedIsSettled
<1> QED BY <1>1, <1>2, <1>3, <1>4, <1>5, <1>6, <1>7

\* The report of the open orders.
LEMMA ReadOrdersKeeps == ASSUME IInv, ReadOrders PROVE IInv'
<1> USE ReconcileAssumption DEF IInv, store, gate, broker, pass
<1>1. TypeOK'
  BY DEF ReadOrders, TypeOK, Statuses, Open, Ended, Resolvable, Days
<1>2. PassTyped'
  BY DEF ReadOrders, PassTyped, TypeOK, Resolvable, Days
<1>3. MissBudget'
  BY DEF ReadOrders, MissBudget, Misses, Pending, TypeOK, PassTyped,
       UnsentIsClean, Unsent
<1>4. UnsentIsClean'
  BY DEF ReadOrders, UnsentIsClean, Unsent, TypeOK, PassTyped, Resolvable,
       Open
<1>5. PlanIsParity'
  BY DEF ReadOrders, PlanIsParity, TypeOK
<1>6. GateIsVerdict'
  BY DEF ReadOrders, GateIsVerdict, TypeOK, PassTyped, Days
<1>7. OpenIsUnfilled' /\ EndedIsSettled'
  BY DEF ReadOrders, OpenIsUnfilled, EndedIsSettled
<1> QED BY <1>1, <1>2, <1>3, <1>4, <1>5, <1>6, <1>7

\* The plan: without a gap, venue and store agree.
LEMMA PlanKeeps == ASSUME IInv, Plan PROVE IInv'
<1> USE ReconcileAssumption DEF IInv, store, gate, broker, pass
<1>1. TypeOK'
  BY DEF Plan, NeedsTargetedQuery, TypeOK, Statuses, Open, Ended, Resolvable,
       Days
<1>2. PassTyped'
  <2>1. PICK recent \in SUBSET Orders :
          /\ gaps' = HasUnresolvedDivergence(recent)
          /\ todo' = {<<p, status[p]>> :
                       p \in {q \in NeedsTargetedQuery(recent) : status[q] \in Resolvable}}
          /\ verdict' = [parity |-> Agrees(recent), day |-> today]
    BY DEF Plan
  <2>2. todo' \subseteq Orders \X Resolvable
    BY <2>1 DEF NeedsTargetedQuery
  <2>3. gaps' \in BOOLEAN
    BY <2>1 DEF HasUnresolvedDivergence
  <2>4. Agrees(recent) \in BOOLEAN
    BY DEF Agrees
  <2>5. verdict' \in [parity : BOOLEAN, day : Days]
    BY <2>1, <2>4 DEF TypeOK
  <2> QED BY <2>2, <2>3, <2>5 DEF Plan, PassTyped
<1>3. MissBudget'
  BY DEF Plan, NeedsTargetedQuery, MissBudget, Misses, Pending, TypeOK,
       PassTyped, UnsentIsClean, Unsent
<1>4. UnsentIsClean'
  BY DEF Plan, NeedsTargetedQuery, UnsentIsClean, Unsent, TypeOK, PassTyped,
       Resolvable, Open
<1>5. PlanIsParity'
  <2>1. PICK recent \in SUBSET Orders :
          /\ gaps' = HasUnresolvedDivergence(recent)
          /\ verdict' = [parity |-> Agrees(recent), day |-> today]
    BY DEF Plan
  <2>2. HasUnresolvedDivergence(recent) \/ Agrees(recent)
    BY NoGapIsParity DEF Plan
  <2> QED BY <2>1, <2>2 DEF PlanIsParity
<1>6. GateIsVerdict'
  BY DEF Plan, NeedsTargetedQuery, GateIsVerdict, TypeOK, PassTyped, Days
<1>7. OpenIsUnfilled' /\ EndedIsSettled'
  BY DEF Plan, OpenIsUnfilled, EndedIsSettled
<1> QED BY <1>1, <1>2, <1>3, <1>4, <1>5, <1>6, <1>7

\* A lookup: a miss is taken from the venue's allowance.
LEMMA AskVenueKeeps == ASSUME IInv, NEW item \in todo, AskVenue(item) PROVE IInv'
<1> USE ReconcileAssumption DEF IInv, store, gate, broker, pass
<1>1. TypeOK'
  BY DEF AskVenue, TypeOK, Statuses, Open, Ended, Resolvable, Days, PassTyped
<1>2. PassTyped'
  BY DEF AskVenue, PassTyped, TypeOK, Resolvable, Days
<1>3. MissBudget'
  BY DEF AskVenue, MissBudget, Misses, Pending, TypeOK, PassTyped,
       UnsentIsClean, Unsent
<1>4. UnsentIsClean'
  BY DEF AskVenue, UnsentIsClean, Unsent, TypeOK, PassTyped, Resolvable, Open
<1>5. PlanIsParity'
  BY DEF AskVenue, PlanIsParity, TypeOK
<1>6. GateIsVerdict'
  BY DEF AskVenue, GateIsVerdict, TypeOK, PassTyped, Days
<1>7. OpenIsUnfilled' /\ EndedIsSettled'
  BY DEF AskVenue, OpenIsUnfilled, EndedIsSettled
<1> QED BY <1>1, <1>2, <1>3, <1>4, <1>5, <1>6, <1>7

\* A failed lookup records nothing.
LEMMA AskFailsKeeps == ASSUME IInv, NEW item \in todo, AskFails(item) PROVE IInv'
<1> USE ReconcileAssumption DEF IInv, store, gate, broker, pass
<1>1. TypeOK'
  BY DEF AskFails, Fault, TypeOK, Statuses, Open, Ended, Resolvable, Days
<1>2. PassTyped'
  BY DEF AskFails, Fault, PassTyped, TypeOK, Resolvable, Days
<1>3. UnsentIsClean'
  BY DEF AskFails, Fault, UnsentIsClean, Unsent, TypeOK, PassTyped,
       Resolvable, Open
<1>4. /\ MissBudget' /\ OpenIsUnfilled' /\ EndedIsSettled' /\ PlanIsParity'
     /\ GateIsVerdict'
  BY DEF AskFails, MissBudget, Misses, Pending, OpenIsUnfilled,
       EndedIsSettled, PlanIsParity, GateIsVerdict
<1> QED BY <1>1, <1>2, <1>3, <1>4

\* The budget ends the lookups.
LEMMA StopAskingKeeps == ASSUME IInv, StopAsking PROVE IInv'
<1> USE ReconcileAssumption DEF IInv, store, gate, broker, pass
<1>1. PassTyped'
  BY DEF StopAsking, PassTyped, TypeOK, Resolvable, Days
<1>2. UnsentIsClean'
  BY DEF StopAsking, UnsentIsClean, Unsent, TypeOK, PassTyped, Resolvable,
       Open
<1>3. /\ TypeOK' /\ MissBudget' /\ OpenIsUnfilled' /\ EndedIsSettled'
     /\ PlanIsParity' /\ GateIsVerdict'
  BY DEF StopAsking, TypeOK, MissBudget, Misses, Pending, OpenIsUnfilled,
       EndedIsSettled, PlanIsParity, GateIsVerdict
<1> QED BY <1>1, <1>2, <1>3

\* A found order ends its streak and is polled or left.
LEMMA SettlePresentKeeps == ASSUME IInv, SettlePresent PROVE IInv'
<1> USE ReconcileAssumption DEF IInv, store, gate, broker, pass
<1>1. TypeOK'
  <2>1. faults' \in 0 .. MaxFaults
    BY DEF SettlePresent, Fault, TypeOK
  <2>2. streak' \in [Orders -> 0 .. Retries - 1]
    BY DEF SettlePresent, TypeOK
  <2>3. /\ status' \in [Orders -> Statuses]
        /\ filled' \in [Orders -> 0 .. Qty]
    BY UpdateTyped DEF SettlePresent, PassTyped, TypeOK
  <2> QED BY <2>1, <2>2, <2>3 DEF SettlePresent, TypeOK
<1>2. PassTyped'
  BY DEF SettlePresent, Fault, ApplyUpdate, Polled, PassTyped, TypeOK,
       Resolvable, Days
<1>3. MissBudget'
  BY DEF SettlePresent, Fault, ApplyUpdate, Polled, MissBudget, Misses,
       Pending, TypeOK, PassTyped, UnsentIsClean, Unsent
<1>4. UnsentIsClean'
  BY DEF SettlePresent, Fault, ApplyUpdate, Polled, UnsentIsClean, Unsent,
       TypeOK, PassTyped, Resolvable, Open
<1>5. EndedIsSettled'
  BY UpdateSettles DEF SettlePresent, PassTyped, EndedIsSettled
<1>6. PlanIsParity'
  BY DEF SettlePresent, Fault, ApplyUpdate, Polled, PlanIsParity, TypeOK
<1>7. GateIsVerdict'
  BY DEF SettlePresent, Fault, ApplyUpdate, Polled, GateIsVerdict, TypeOK,
       PassTyped, Days
<1>8. OpenIsUnfilled'
  BY DEF SettlePresent, OpenIsUnfilled
<1> QED BY <1>1, <1>2, <1>3, <1>4, <1>5, <1>6, <1>7, <1>8

\* An absence is recorded, or ends an order that is not at the venue.
LEMMA SettleAbsentKeeps == ASSUME IInv, SettleAbsent PROVE IInv'
<1> USE ReconcileAssumption DEF IInv, store, gate, broker, pass
<1>1. TypeOK'
  <2>1. faults' \in 0 .. MaxFaults
    BY DEF SettleAbsent, Fault, TypeOK
  <2>2. status' \in [Orders -> Statuses]
    BY DEF SettleAbsent, ResolvesTo, TypeOK, Statuses, Ended
  <2>3. streak' \in [Orders -> 0 .. Retries - 1]
    BY DEF SettleAbsent, Sustained, TypeOK, PassTyped
  <2> QED BY <2>1, <2>2, <2>3 DEF SettleAbsent, TypeOK
<1>2. PassTyped'
  BY DEF SettleAbsent, Fault, ResolvesTo, LegalFrom, Sustained, PassTyped,
       TypeOK, Resolvable, Days
<1>3. MissBudget'
  BY DEF SettleAbsent, Fault, ResolvesTo, LegalFrom, Sustained, MissBudget,
       Misses, Pending, TypeOK, PassTyped, UnsentIsClean, Unsent
<1>4. UnsentIsClean'
  BY DEF SettleAbsent, Fault, ResolvesTo, LegalFrom, Sustained, UnsentIsClean,
       Unsent, TypeOK, PassTyped, Resolvable, Open
<1>5. EndedIsSettled'
  <2> DEFINE p == answer.order
  <2>1. p \in Orders
    BY DEF SettleAbsent, PassTyped
  <2>2. ASSUME Sustained(streak[p] + 1)  PROVE venue[p] = "none"
    <3>1. Pending(p)
      BY DEF SettleAbsent, Pending
    <3>2. streak[p] \in Nat /\ lag[p] \in Nat
      BY <2>1 DEF TypeOK
    <3> QED BY <2>1, <2>2, <3>1, <3>2 DEF MissBudget, Misses, Sustained
  <2>3. \A o \in Orders : status'[o] = status[o] \/ venue[o] = "none"
    BY <2>1, <2>2 DEF SettleAbsent, TypeOK
  <2> QED BY <2>3 DEF SettleAbsent, EndedIsSettled, broker
<1>6. PlanIsParity'
  BY DEF SettleAbsent, Fault, ResolvesTo, LegalFrom, Sustained, PlanIsParity,
       TypeOK
<1>7. GateIsVerdict'
  BY DEF SettleAbsent, Fault, ResolvesTo, LegalFrom, Sustained, GateIsVerdict,
       TypeOK, PassTyped, Days
<1>8. OpenIsUnfilled'
  BY DEF SettleAbsent, OpenIsUnfilled
<1> QED BY <1>1, <1>2, <1>3, <1>4, <1>5, <1>6, <1>7, <1>8

\* The end of a pass opens the gate only without a gap.
LEMMA FinishKeeps == ASSUME IInv, Finish PROVE IInv'
<1> USE ReconcileAssumption DEF IInv, store, gate, broker, pass
<1>1. TypeOK'
  BY DEF Finish, Drive, TargetState, Hand, ForgetPass, TypeOK, Statuses, Open,
       Ended, Resolvable, Days
<1>2. PassTyped'
  BY DEF Finish, Drive, TargetState, Hand, ForgetPass, PassTyped, TypeOK,
       Resolvable, Days
<1>3. MissBudget'
  BY DEF Finish, Drive, TargetState, Hand, ForgetPass, MissBudget, Misses,
       Pending, TypeOK, PassTyped, UnsentIsClean, Unsent
<1>4. UnsentIsClean'
  BY DEF Finish, Drive, TargetState, Hand, ForgetPass, UnsentIsClean, Unsent,
       TypeOK, PassTyped, Resolvable, Open
<1>5. PlanIsParity'
  BY DEF Finish, Drive, TargetState, Hand, ForgetPass, PlanIsParity, TypeOK
<1>6. GateIsVerdict'
  BY DEF Finish, Drive, TargetState, Hand, ForgetPass, GateIsVerdict, TypeOK,
       PassTyped, Days, PlanIsParity
<1>7. OpenIsUnfilled' /\ EndedIsSettled'
  BY DEF Finish, OpenIsUnfilled, EndedIsSettled
<1> QED BY <1>1, <1>2, <1>3, <1>4, <1>5, <1>6, <1>7

\* A failed pass leaves no tick.
LEMMA FailPassKeeps == ASSUME IInv, FailPass PROVE IInv'
<1> USE ReconcileAssumption DEF IInv, store, gate, broker, pass
<1>1. TypeOK'
  <2>1. faults' \in 0 .. MaxFaults
    BY DEF FailPass, Fault, TypeOK
  <2>2. driver' \in [Days -> {"ACTIVE", "REDUCING"}] /\ today' \in Days
    BY DEF FailPass, Drive, TypeOK
  <2>3. pc' \in {"down", "idle"} /\ booting' \in BOOLEAN
    BY DEF FailPass, Hand
  <2> QED BY <2>1, <2>2, <2>3 DEF FailPass, TypeOK
<1>2. PassTyped'
  BY DEF FailPass, Fault, Drive, Hand, ForgetPass, PassTyped, TypeOK,
       Resolvable, Days
<1>3. MissBudget'
  BY DEF FailPass, Fault, Drive, Hand, ForgetPass, MissBudget, Misses,
       Pending, TypeOK, PassTyped, UnsentIsClean, Unsent
<1>4. UnsentIsClean'
  BY DEF FailPass, Fault, Drive, Hand, ForgetPass, UnsentIsClean, Unsent,
       TypeOK, PassTyped, Resolvable, Open
<1>5. PlanIsParity'
  BY DEF FailPass, Fault, Drive, Hand, ForgetPass, PlanIsParity, TypeOK
<1>6. GateIsVerdict'
  BY DEF FailPass, Fault, Drive, Hand, ForgetPass, GateIsVerdict, TypeOK,
       PassTyped, Days
<1>7. OpenIsUnfilled' /\ EndedIsSettled'
  BY DEF FailPass, OpenIsUnfilled, EndedIsSettled
<1> QED BY <1>1, <1>2, <1>3, <1>4, <1>5, <1>6, <1>7

\* A crash forgets the pass, not the streaks.
LEMMA CrashKeeps == ASSUME IInv, Crash PROVE IInv'
<1> USE ReconcileAssumption DEF IInv, store, gate, broker, pass
<1>1. TypeOK'
  <2>1. faults' \in 0 .. MaxFaults
    BY DEF Crash, Fault, TypeOK
  <2> QED BY <2>1 DEF Crash, TypeOK
<1>2. PassTyped'
  BY DEF Crash, Fault, ForgetPass, PassTyped, TypeOK, Resolvable, Days
<1>3. MissBudget'
  BY DEF Crash, Fault, ForgetPass, MissBudget, Misses, Pending, TypeOK,
       PassTyped, UnsentIsClean, Unsent
<1>4. UnsentIsClean'
  BY DEF Crash, Fault, ForgetPass, UnsentIsClean, Unsent, TypeOK, PassTyped,
       Resolvable, Open
<1>5. PlanIsParity'
  BY DEF Crash, Fault, ForgetPass, PlanIsParity, TypeOK
<1>6. GateIsVerdict'
  BY DEF Crash, Fault, ForgetPass, GateIsVerdict, TypeOK, PassTyped, Days
<1>7. OpenIsUnfilled' /\ EndedIsSettled'
  BY DEF Crash, OpenIsUnfilled, EndedIsSettled
<1> QED BY <1>1, <1>2, <1>3, <1>4, <1>5, <1>6, <1>7

\* An order reaches the venue with the whole allowance of misses.
LEMMA SubmitKeeps == ASSUME IInv, NEW o \in Orders, Submit(o) PROVE IInv'
<1> USE ReconcileAssumption DEF IInv, store, gate, broker, pass
<1>1. TypeOK'
  BY DEF Submit, MayClaim, TypeOK, Statuses, Open, Ended, Resolvable, Days
<1>2. MissBudget'
  BY DEF Submit, MayClaim, MissBudget, Misses, Pending, TypeOK, PassTyped,
       UnsentIsClean, Unsent
<1>3. UnsentIsClean'
  BY DEF Submit, MayClaim, UnsentIsClean, Unsent, TypeOK, PassTyped,
       Resolvable, Open
<1>4. OpenIsUnfilled'
  BY DEF Submit, MayClaim, OpenIsUnfilled, TypeOK, UnsentIsClean, Unsent
<1>5. EndedIsSettled'
  BY DEF Submit, MayClaim, EndedIsSettled, TypeOK, Ended
<1>6. PassTyped' /\ PlanIsParity' /\ GateIsVerdict'
  BY DEF Submit, PassTyped, PlanIsParity, GateIsVerdict
<1> QED BY <1>1, <1>2, <1>3, <1>4, <1>5, <1>6

\* A quarantined order is settled by what the venue has.
LEMMA ResolveQuarantineKeeps == ASSUME IInv, NEW o \in Orders, ResolveQuarantine(o) PROVE IInv'
<1> USE ReconcileAssumption DEF IInv, store, gate, broker, pass
<1>1. TypeOK'
  BY DEF ResolveQuarantine, TypeOK, Statuses, Open, Ended, Resolvable, Days
<1>2. UnsentIsClean'
  BY DEF ResolveQuarantine, UnsentIsClean, Unsent, TypeOK, PassTyped,
       Resolvable, Open
<1>3. EndedIsSettled'
  BY DEF ResolveQuarantine, EndedIsSettled, TypeOK, Ended
<1>4. /\ PassTyped' /\ MissBudget' /\ OpenIsUnfilled' /\ PlanIsParity'
     /\ GateIsVerdict'
  BY DEF ResolveQuarantine, PassTyped, MissBudget, Misses, Pending,
       OpenIsUnfilled, PlanIsParity, GateIsVerdict
<1> QED BY <1>1, <1>2, <1>3, <1>4

\* A poll ends an order the venue ended.
LEMMA PollKeeps == ASSUME IInv, NEW o \in Orders, Poll(o) PROVE IInv'
<1> USE ReconcileAssumption DEF IInv, store, gate, broker, pass
<1>1. TypeOK'
  BY DEF Poll, ApplyUpdate, Polled, TypeOK, Statuses, Open, Ended, Resolvable,
       Days
<1>2. UnsentIsClean'
  BY DEF Poll, ApplyUpdate, Polled, UnsentIsClean, Unsent, TypeOK, PassTyped,
       Resolvable, Open
<1>3. EndedIsSettled'
  BY UpdateSettles DEF Poll
<1>4. /\ PassTyped' /\ MissBudget' /\ OpenIsUnfilled' /\ PlanIsParity'
     /\ GateIsVerdict'
  BY DEF Poll, PassTyped, MissBudget, Misses, Pending, OpenIsUnfilled,
       PlanIsParity, GateIsVerdict
<1> QED BY <1>1, <1>2, <1>3, <1>4

\* The tick ends.
LEMMA EndTickKeeps == ASSUME IInv, EndTick PROVE IInv'
<1> USE ReconcileAssumption DEF IInv, store, gate, broker, pass
<1>1. TypeOK'
  BY DEF EndTick, TypeOK, Statuses, Open, Ended, Resolvable, Days
<1>2. PassTyped'
  BY DEF EndTick, PassTyped, TypeOK, Resolvable, Days
<1>3. MissBudget'
  BY DEF EndTick, MissBudget, Misses, Pending, TypeOK, PassTyped,
       UnsentIsClean, Unsent
<1>4. UnsentIsClean'
  BY DEF EndTick, UnsentIsClean, Unsent, TypeOK, PassTyped, Resolvable, Open
<1>5. PlanIsParity'
  BY DEF EndTick, PlanIsParity, TypeOK
<1>6. GateIsVerdict'
  BY DEF EndTick, GateIsVerdict, TypeOK, PassTyped, Days
<1>7. OpenIsUnfilled' /\ EndedIsSettled'
  BY DEF EndTick, OpenIsUnfilled, EndedIsSettled
<1> QED BY <1>1, <1>2, <1>3, <1>4, <1>5, <1>6, <1>7

\* A new order.
LEMMA CreateOrderKeeps == ASSUME IInv, NEW o \in Orders, CreateOrder(o) PROVE IInv'
<1> USE ReconcileAssumption DEF IInv, store, gate, broker, pass
<1>1. TypeOK'
  BY DEF CreateOrder, TypeOK, Statuses, Open, Ended, Resolvable, Days
<1>2. UnsentIsClean'
  BY DEF CreateOrder, UnsentIsClean, Unsent, TypeOK, PassTyped, Resolvable,
       Open
<1>3. EndedIsSettled'
  BY DEF CreateOrder, EndedIsSettled, TypeOK, Ended
<1>4. /\ PassTyped' /\ MissBudget' /\ OpenIsUnfilled' /\ PlanIsParity'
     /\ GateIsVerdict'
  BY DEF CreateOrder, PassTyped, MissBudget, Misses, Pending, OpenIsUnfilled,
       PlanIsParity, GateIsVerdict
<1> QED BY <1>1, <1>2, <1>3, <1>4

\* The cancel command leaves an open order open.
LEMMA RequestCancelKeeps == ASSUME IInv, NEW o \in Orders, RequestCancel(o) PROVE IInv'
<1> USE ReconcileAssumption DEF IInv, store, gate, broker, pass
<1>1. TypeOK'
  BY DEF RequestCancel, TypeOK, Statuses, Open, Ended, Resolvable, Days
<1>2. UnsentIsClean'
  BY DEF RequestCancel, UnsentIsClean, Unsent, TypeOK, PassTyped, Resolvable,
       Open
<1>3. EndedIsSettled'
  BY DEF RequestCancel, EndedIsSettled, TypeOK, Ended
<1>4. /\ PassTyped' /\ MissBudget' /\ OpenIsUnfilled' /\ PlanIsParity'
     /\ GateIsVerdict'
  BY DEF RequestCancel, PassTyped, MissBudget, Misses, Pending,
       OpenIsUnfilled, PlanIsParity, GateIsVerdict
<1> QED BY <1>1, <1>2, <1>3, <1>4

\* A new session has no verdict.
LEMMA RolloverKeeps == ASSUME IInv, Rollover PROVE IInv'
<1> USE ReconcileAssumption DEF IInv, store, gate, broker, pass
<1>1. TypeOK'
  BY DEF Rollover, TypeOK, Statuses, Open, Ended, Resolvable, Days
<1>2. GateIsVerdict'
  BY DEF Rollover, GateIsVerdict, TypeOK, PassTyped, Days
<1>3. /\ PassTyped' /\ MissBudget' /\ UnsentIsClean' /\ OpenIsUnfilled'
     /\ EndedIsSettled' /\ PlanIsParity'
  BY DEF Rollover, PassTyped, MissBudget, Misses, Pending, UnsentIsClean,
       OpenIsUnfilled, EndedIsSettled, PlanIsParity
<1> QED BY <1>1, <1>2, <1>3

\* The venue executes a share.
LEMMA VenueFillsKeeps == ASSUME IInv, NEW o \in Orders, VenueFills(o) PROVE IInv'
<1> USE ReconcileAssumption DEF IInv, store, gate, broker, pass
<1>1. TypeOK'
  BY DEF VenueFills, TypeOK, Statuses, Open, Ended, Resolvable, Days,
       OpenIsUnfilled
<1>2. MissBudget'
  BY DEF VenueFills, MissBudget, Misses, Pending, TypeOK, PassTyped,
       UnsentIsClean, Unsent
<1>3. UnsentIsClean'
  BY DEF VenueFills, UnsentIsClean, Unsent, TypeOK, PassTyped, Resolvable,
       Open
<1>4. OpenIsUnfilled'
  BY DEF VenueFills, OpenIsUnfilled, TypeOK
<1>5. EndedIsSettled'
  BY DEF VenueFills, EndedIsSettled, TypeOK, Ended
<1>6. PassTyped' /\ PlanIsParity' /\ GateIsVerdict'
  BY DEF VenueFills, PassTyped, PlanIsParity, GateIsVerdict
<1> QED BY <1>1, <1>2, <1>3, <1>4, <1>5, <1>6

\* The venue ends an order.
LEMMA VenueEndsKeeps == ASSUME IInv, NEW o \in Orders, VenueEnds(o) PROVE IInv'
<1> USE ReconcileAssumption DEF IInv, store, gate, broker, pass
<1>1. TypeOK'
  BY DEF VenueEnds, TypeOK, Statuses, Open, Ended, Resolvable, Days
<1>2. MissBudget'
  BY DEF VenueEnds, MissBudget, Misses, Pending, TypeOK, PassTyped,
       UnsentIsClean, Unsent
<1>3. UnsentIsClean'
  BY DEF VenueEnds, UnsentIsClean, Unsent, TypeOK, PassTyped, Resolvable, Open
<1>4. OpenIsUnfilled'
  BY DEF VenueEnds, OpenIsUnfilled, TypeOK
<1>5. EndedIsSettled'
  BY DEF VenueEnds, EndedIsSettled, TypeOK, Ended
<1>6. PassTyped' /\ PlanIsParity' /\ GateIsVerdict'
  BY DEF VenueEnds, PassTyped, PlanIsParity, GateIsVerdict
<1> QED BY <1>1, <1>2, <1>3, <1>4, <1>5, <1>6

\* The venue loses an order.
LEMMA VenueForgetsKeeps == ASSUME IInv, NEW o \in Orders, VenueForgets(o) PROVE IInv'
<1> USE ReconcileAssumption DEF IInv, store, gate, broker, pass
<1>1. TypeOK'
  BY DEF VenueForgets, Fault, TypeOK, Statuses, Open, Ended, Resolvable, Days
<1>2. MissBudget'
  BY DEF VenueForgets, Fault, MissBudget, Misses, Pending, TypeOK, PassTyped,
       UnsentIsClean, Unsent
<1>3. UnsentIsClean'
  BY DEF VenueForgets, Fault, UnsentIsClean, Unsent, TypeOK, PassTyped,
       Resolvable, Open
<1>4. OpenIsUnfilled'
  BY DEF VenueForgets, Fault, OpenIsUnfilled, TypeOK
<1>5. EndedIsSettled'
  BY DEF VenueForgets, Fault, EndedIsSettled, TypeOK, Ended
<1>6. PassTyped' /\ PlanIsParity' /\ GateIsVerdict'
  BY DEF VenueForgets, PassTyped, PlanIsParity, GateIsVerdict
<1> QED BY <1>1, <1>2, <1>3, <1>4, <1>5, <1>6

----------------------------------------------------------------------------

\* The first startup.
LEMMA InitInv == Init => IInv
<1> SUFFICES ASSUME Init PROVE IInv
  OBVIOUS
<1> USE ReconcileAssumption
<1>1. /\ 0 \in 0 .. Qty /\ 0 \in 0 .. MaxDay /\ 0 \in 0 .. Retries - 1
      /\ 0 \in 0 .. MaxLag /\ 0 \in 0 .. MaxFaults /\ 1 \in Days
  BY DEF Days
<1>2. booting \in BOOLEAN /\ gaps \in BOOLEAN /\ verdict.parity \in BOOLEAN
  BY DEF Init
<1>3. TypeOK
  BY <1>1, <1>2 DEF Init, TypeOK, Statuses
<1>4. PassTyped
  BY <1>1, <1>2 DEF Init, PassTyped
<1>5. MissBudget /\ UnsentIsClean /\ OpenIsUnfilled /\ EndedIsSettled
  BY DEF Init, MissBudget, UnsentIsClean, OpenIsUnfilled, EndedIsSettled
<1>6. PlanIsParity /\ GateIsVerdict
  BY DEF Init, PlanIsParity, GateIsVerdict
<1> QED BY <1>3, <1>4, <1>5, <1>6 DEF IInv

\* Every step keeps it.
LEMMA NextInv == IInv /\ [Next]_vars => IInv'
<1> SUFFICES ASSUME IInv, [Next]_vars PROVE IInv'
  OBVIOUS
<1>1. CASE Loop
  BY <1>1, BootKeeps, StartPassKeeps, SkipPassKeeps, ReadOrdersKeeps,
       PlanKeeps, AskVenueKeeps, AskFailsKeeps, StopAskingKeeps,
       SettlePresentKeeps, SettleAbsentKeeps, FinishKeeps, FailPassKeeps,
       CrashKeeps, SubmitKeeps, ResolveQuarantineKeeps, PollKeeps,
       EndTickKeeps DEF Loop
<1>2. CASE World
  BY <1>2, CreateOrderKeeps, RequestCancelKeeps, RolloverKeeps,
       VenueFillsKeeps, VenueEndsKeeps, VenueForgetsKeeps DEF World
<1>3. CASE UNCHANGED vars
  BY <1>3 DEF vars, store, gate, broker, pass, IInv, TypeOK, PassTyped, MissBudget,
     Misses, Pending, UnsentIsClean, OpenIsUnfilled, EndedIsSettled, PlanIsParity,
     GateIsVerdict
<1> QED BY <1>1, <1>2, <1>3 DEF Next

\* The inductive invariant.
THEOREM ReconcileInvariant == Spec => []IInv
<1> QED BY InitInv, NextInv, PTL DEF Spec

\* Rows, gate, venue and pass keep their types; in particular no streak of
\* absences goes past the configured retries (_resolve_one_not_found).
THEOREM ReconcileTypes == Spec => []TypeOK
<1>1. IInv => TypeOK
  BY DEF IInv
<1> QED BY <1>1, ReconcileInvariant, PTL

\* No order the venue has is ended locally before it stopped working there and
\* every executed share is recorded, for any MaxLag below Retries
\* (_resolve_one_not_found, reconcile_resolve_order).
THEOREM NoLiveOrderEnded == Spec => []EndedIsSettled
<1>1. IInv => EndedIsSettled
  BY DEF IInv
<1> QED BY <1>1, ReconcileInvariant, PTL

\* A venue that has the order is never one absence away from losing it: what is
\* recorded and what the venue may still miss stay below the retries
\* (settings.reconcile_open_check_missing_retries).
THEOREM AbsencesStayShort ==
  Spec => [](\A o \in Orders : venue[o] # "none" => streak[o] + lag[o] < Retries)
<1>1. IInv => \A o \in Orders : venue[o] # "none" => streak[o] + lag[o] < Retries
  BY ReconcileAssumption DEF IInv, MissBudget, Misses, TypeOK
<1> QED BY <1>1, ReconcileInvariant, PTL

\* Only the claim of a tick takes a BUY out of CREATED, and the gate was opened
\* by a pass that found parity in this session, or the session is younger than
\* that pass (plan_claim_order_for_submission, _run_reconciliation).
THEOREM ClaimNeedsParity == Spec => BuysOnlyAtParity
<1> DEFINE A == \A o \in Orders \ Sells :
                  status[o] = "CREATED" /\ status'[o] # "CREATED" =>
                      verdict.parity \/ verdict.day # today
<1>1. IInv /\ [Next]_vars => [A]_vars
  <2> SUFFICES ASSUME IInv, Next, NEW o \in Orders \ Sells,
                      status[o] = "CREATED", status'[o] # "CREATED"
               PROVE  verdict.parity \/ verdict.day # today
    BY DEF IInv
  <2>1. \A q \in Orders : Submit(q) /\ q # o => status'[o] = status[o]
    BY DEF Submit, IInv, TypeOK
  <2>2. CASE Submit(o)
    BY <2>2 DEF Submit, MayClaim, IInv, GateIsVerdict
  <2>3. CASE \E q \in Orders : ResolveQuarantine(q) \/ Poll(q) \/ RequestCancel(q)
                               \/ CreateOrder(q)
    BY <2>3 DEF ResolveQuarantine, Poll, ApplyUpdate, RequestCancel, CreateOrder, Open,
       Resolvable, IInv, TypeOK
  <2>4. CASE SettlePresent \/ SettleAbsent
    <3>1. pc = "answered" /\ answer.order # o
      BY <2>4 DEF SettlePresent, SettleAbsent, IInv, UnsentIsClean, Unsent
    <3> QED BY <2>4, <3>1 DEF SettlePresent, SettleAbsent, ApplyUpdate, IInv, TypeOK
  <2> QED BY <2>1, <2>2, <2>3, <2>4 DEF Next, Loop, World, Boot, StartPass, SkipPass,
       ReadOrders, Plan, AskVenue, AskFails, StopAsking, Finish, FailPass, Crash, EndTick,
       Rollover, VenueFills, VenueEnds, VenueForgets, store
<1> QED BY <1>1, ReconcileInvariant, PTL DEF Spec, BuysOnlyAtParity
=============================================================================
