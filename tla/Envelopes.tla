------------------------------ MODULE Envelopes ------------------------------
(***************************************************************************)
(* The execution envelopes of one protected symbol: a sell intent delegates *)
(* to an envelope, the monitoring loop works the envelope through child     *)
(* orders (submit, cancel-replace), broker fills are attributed to it, and  *)
(* its delegation is released when nothing of it can execute any more.      *)
(*                                                                         *)
(* The loop is one task: `loop' says which broker call or which step of a   *)
(* fill it is in the middle of.  Operator commands interleave with every    *)
(* step of it, and a crash forgets it.  Store operations are atomic.        *)
(***************************************************************************)
EXTENDS Integers, FiniteSets, Functions

CONSTANTS
  MaxEnvs,      \* bound: envelopes ever created for the intent
  MaxChildren,  \* bound: child orders ever minted
  Held,         \* shares held when the intent was created; its target quantity
  CancelLimit,  \* _DISPOSITION_CANCEL_RETRY_LIMIT
  MaxCommands,  \* bound: operator commands after the first activation
  MaxFaults     \* bound: crashes and failed store writes

ASSUME EnvelopesAssumption ==
  /\ MaxEnvs \in Nat \ {0} /\ MaxChildren \in Nat \ {0} /\ Held \in Nat \ {0}
  /\ CancelLimit \in Nat \ {0} /\ MaxCommands \in Nat /\ MaxFaults \in Nat

VARIABLES
  env,       \* the envelopes, in creation order
  child,     \* their orders, in the order they were minted
  intent,    \* status of the owning sell intent
  direct,    \* the symbol's direct exit: none, live, or done (position closed)
  latched,   \* an overfill quarantine event names the symbol
  halted,    \* the kill switch
  loop,      \* where the monitoring loop is
  commands, faults

vars == <<env, child, intent, direct, latched, halted, loop, commands, faults>>

-----------------------------------------------------------------------------
Envs == 1 .. MaxEnvs
Ids == 1 .. MaxChildren
Levels == 1 .. Held

EnvStatus ==
  {"none", "PENDING", "APPROVED", "ACTIVE", "FROZEN", "COMPLETED", "EXPIRED",
   "EXHAUSTED", "BREACHED", "SUPERSEDED", "CANCELLED"}
EnvTerminal ==
  {"COMPLETED", "EXPIRED", "EXHAUSTED", "BREACHED", "SUPERSEDED", "CANCELLED"}
Delegating == {"APPROVED", "ACTIVE", "FROZEN"}
\* SUBMITTED covers PARTIALLY_FILLED; TERMINAL covers FILLED, CANCELED, REJECTED.
ChildStatus ==
  {"none", "CREATED", "SUBMITTING", "TIMEOUT_QUARANTINE", "SUBMITTED",
   "CANCEL_PENDING", "TERMINAL"}

\* ev[l] is the quantity of the FILL event whose id is cumulative level l (0: no
\* event), rows the sum of the fills table, attr the levels bound to the envelope.
\* An envelope's wind is its CANCEL_AND_RETURN disposition once it has expired.
EnvRecord == [st : EnvStatus, ceil : 0 .. Held, rem : 0 .. Held, wind : BOOLEAN]
ChildRecord ==
  [env : 0 .. MaxEnvs, qty : 0 .. Held, rep : 0 .. MaxChildren, st : ChildStatus,
   rec : {"none", "unresolved", "needs_review"}, req : BOOLEAN, tries : 0 .. CancelLimit,
   venue : {"absent", "flying", "live", "done", "refused"}, exec : 0 .. Held,
   rows : 0 .. Held, ev : [Levels -> 0 .. Held], attr : SUBSET Levels]
LoopRecord ==
  [pc : {"idle", "claimed", "call", "bridge", "append", "strict", "settle", "wind", "cancel"},
   o : 0 .. MaxChildren, level : 0 .. Held, ended : BOOLEAN, todo : SUBSET Ids]

TypeOK ==
  /\ env \in [Envs -> EnvRecord]
  /\ child \in [Ids -> ChildRecord]
  /\ intent \in {"PENDING", "APPROVED", "EXPIRED"}
  /\ direct \in {"none", "live", "done"}
  /\ latched \in BOOLEAN /\ halted \in BOOLEAN
  /\ loop \in LoopRecord
  /\ commands \in 0 .. MaxCommands /\ faults \in 0 .. MaxFaults

NoEnv == [st |-> "none", ceil |-> 0, rem |-> 0, wind |-> FALSE]
NoChild ==
  [env |-> 0, qty |-> 0, rep |-> 0, st |-> "none", rec |-> "none", req |-> FALSE,
   tries |-> 0, venue |-> "absent", exec |-> 0, rows |-> 0,
   ev |-> [l \in Levels |-> 0], attr |-> {}]
Idle == [pc |-> "idle", o |-> 0, level |-> 0, ended |-> FALSE, todo |-> {}]

Init ==
  /\ env = [e \in Envs |-> NoEnv]
  /\ child = [o \in Ids |-> NoChild]
  /\ intent = "PENDING" /\ direct = "none"
  /\ latched = FALSE /\ halted = FALSE
  /\ loop = Idle /\ commands = 0 /\ faults = 0

-----------------------------------------------------------------------------
(* The obligation projection.  E and C are the envelope and order tables. *)

Minted(C) == Cardinality({o \in Ids : C[o].st # "none"})
Kids(C, S) == {o \in Ids : C[o].st # "none" /\ C[o].env \in S}
Recorded(c) == SumFunctionOnSet(c.ev, Levels)
Attributed(c) == SumFunctionOnSet(c.ev, c.attr)
AttributedTo(C, e) == SumFunctionOnSet([o \in Ids |-> Attributed(C[o])], Kids(C, {e}))

\* project_symbol_position: shares held minus the FILL events.
Position(C) ==
  IF direct = "done" THEN 0
  ELSE Held - SumFunctionOnSet([o \in Ids |-> Recorded(C[o])], Ids)

ClaimOpen(c) == c.st \in {"SUBMITTING", "TIMEOUT_QUARANTINE"}
VenueOpen(c) == c.st \in {"SUBMITTED", "CANCEL_PENDING"}
NeedsReview(C, S) == {o \in Kids(C, S) : C[o].rec = "needs_review"}
Unresolved(C, S) ==
  {o \in Kids(C, S) :
     \/ C[o].rec = "unresolved"
     \/ C[o].rec = "none" /\ C[o].st # "TERMINAL"}
VenueOrders(C, S) ==
  {o \in Unresolved(C, S) : C[o].rec = "unresolved" \/ C[o].st # "CREATED"}

RetainsStrict(E, C, S) == (\E e \in S : E[e].st \in Delegating) \/ Unresolved(C, S) # {}
Retains(E, C, S) == RetainsStrict(E, C, S) \/ NeedsReview(C, S) # {}
Linked(E, C) == (\E e \in Envs : E[e].st \notin {"none", "PENDING"}) \/ Kids(C, Envs) # {}

Owner_Eager(E, C) == IF Linked(E, C) /\ ~(\E e \in Envs : E[e].st \in Delegating)
                     THEN "EXPIRED" ELSE IF Linked(E, C) THEN "APPROVED" ELSE intent

\* _reconcile_envelope_owner_locked: the intent follows its delegation.  A child
\* under review alone leaves it as it is.
Owner(E, C) ==
  CASE ~Linked(E, C) -> intent
    [] Linked(E, C) /\ RetainsStrict(E, C, Envs) -> "APPROVED"
    [] Linked(E, C) /\ ~RetainsStrict(E, C, Envs) /\ Retains(E, C, Envs) -> intent
    [] OTHER -> "EXPIRED"

\* _cancel_local_created_order_locked over every child of S.
CancelStaged(C, S, keep) ==
  [o \in Ids |->
     IF o \in Kids(C, S) \ keep /\ C[o].st = "CREATED" /\ C[o].rec = "none"
     THEN [C[o] EXCEPT !.st = "TERMINAL"] ELSE C[o]]

\* Writing both tables together with what the owner follows.
Write(E, C) == env' = E /\ child' = C /\ intent' = Owner(E, C)

OwnerBinds == intent \in {"PENDING", "APPROVED"}
Foreign(e) == Retains(env, child, Envs \ {e})

Command == commands < MaxCommands /\ commands' = commands + 1
Fault == faults < MaxFaults /\ faults' = faults + 1

-----------------------------------------------------------------------------
(* Operator commands. *)

\* create_envelope: a draft for the intent's remaining mandate.
CreateEnvelope(e, n) ==
  /\ Command
  /\ env[e].st = "none" /\ \A d \in 1 .. e - 1 : env[d].st # "none"
  /\ OwnerBinds
  /\ env' = [env EXCEPT ![e] = [st |-> "PENDING", ceil |-> n, rem |-> n, wind |-> FALSE]]
  /\ UNCHANGED <<child, intent, direct, latched, halted, loop, faults>>

MayDelegate(e) == OwnerBinds /\ direct # "live" /\ ~Foreign(e)
MayActivate(e) ==
  /\ MayDelegate(e)
  /\ ~halted
  /\ \A d \in Envs \ {e} : env[d].st # "ACTIVE"

\* transition_envelope to APPROVED.
ApproveEnvelope(e) ==
  /\ Command
  /\ env[e].st = "PENDING" /\ MayDelegate(e)
  /\ Write([env EXCEPT ![e].st = "APPROVED"], child)
  /\ UNCHANGED <<direct, latched, halted, loop, faults>>

\* approve_envelope_activation: create, approve and activate in one unit.
ActivateEnvelope(e, n) ==
  /\ Command
  /\ MayActivate(e)
  /\ \/ /\ env[e].st = "none" /\ \A d \in 1 .. e - 1 : env[d].st # "none"
        /\ Write([env EXCEPT ![e] = [st |-> "ACTIVE", ceil |-> n, rem |-> n, wind |-> FALSE]],
                 child)
     \/ /\ env[e].st \in {"PENDING", "APPROVED"} /\ n = env[e].ceil
        /\ Write([env EXCEPT ![e].st = "ACTIVE"], child)
  /\ UNCHANGED <<direct, latched, halted, loop, faults>>

\* transition_envelope to ACTIVE: an envelope filled while frozen completes.
ResumeEnvelope(e) ==
  /\ Command
  /\ env[e].st = "FROZEN" /\ MayActivate(e)
  /\ Write([env EXCEPT ![e].st = IF env[e].rem = 0 THEN "COMPLETED" ELSE "ACTIVE"], child)
  /\ UNCHANGED <<direct, latched, halted, loop, faults>>

\* cancel_envelope: refused while a child is at the venue.
CancelEnvelope(e) ==
  /\ Command
  /\ env[e].st \in {"PENDING", "APPROVED", "FROZEN"}
  /\ VenueOrders(child, {e}) = {}
  /\ Write([env EXCEPT ![e].st = "CANCELLED"], CancelStaged(child, {e}, {}))
  /\ UNCHANGED <<direct, latched, halted, loop, faults>>

\* supersede_envelope: the successor takes over what is left of the mandate.
SupersedeEnvelope(e, n) ==
  LET s == e + 1
      staged == CancelStaged(child, {e}, {}) IN
  /\ Command
  /\ s \in Envs /\ env[e].st = "ACTIVE" /\ env[s].st = "none"
  /\ \A d \in 1 .. e : env[d].st # "none"
  /\ OwnerBinds /\ direct # "live" /\ ~halted
  /\ ~Foreign(e)
  /\ VenueOrders(child, {e}) = {} /\ NeedsReview(child, {e}) = {}
  /\ 0 < n /\ n <= env[e].rem
  /\ Write([env EXCEPT ![e].st = "SUPERSEDED",
                       ![s] = [st |-> "ACTIVE", ceil |-> n, rem |-> n, wind |-> FALSE]],
           staged)
  /\ UNCHANGED <<direct, latched, halted, loop, faults>>

\* set_kill_switch: engaging it freezes the active envelope and drops its staged child.
KillSwitch ==
  LET active == {e \in Envs : env[e].st = "ACTIVE"} IN
  /\ Command
  /\ halted' = ~halted
  /\ IF halted THEN UNCHANGED <<env, child, intent>>
     ELSE Write([e \in Envs |-> IF e \in active THEN [env[e] EXCEPT !.st = "FROZEN"]
                                ELSE env[e]],
                CancelStaged(child, active, {}))
  /\ UNCHANGED <<direct, latched, loop, faults>>

\* flatten_position: preempt every envelope, then mint the direct exit; the whole
\* unit rolls back when a child may still execute.
Flatten ==
  LET E == [e \in Envs |-> IF env[e].st \in Delegating \cup {"PENDING"}
                           THEN [env[e] EXCEPT !.st = "CANCELLED"] ELSE env[e]]
      C == CancelStaged(child, Envs, {}) IN
  /\ Command
  /\ direct = "none" /\ ~halted /\ 0 < Position(child)
  /\ ~Retains(E, C, Envs)
  /\ Write(E, C)
  /\ direct' = "live"
  /\ UNCHANGED <<latched, halted, loop, faults>>

\* The direct exit's own life (SellSide): it ends unfilled or closes the position.
DirectEnds ==
  /\ direct = "live" /\ direct' \in {"none", "done"}
  /\ UNCHANGED <<env, child, intent, latched, halted, loop, commands, faults>>

\* The operator cancels one order at the venue.
OperatorCancelsOrder(o) ==
  /\ Command
  /\ child[o].st = "SUBMITTED"
  /\ Write(env, [child EXCEPT ![o].st = "CANCEL_PENDING"])
  /\ UNCHANGED <<direct, latched, halted, loop, faults>>

OperatorNext ==
  \/ \E e \in Envs, n \in Levels : CreateEnvelope(e, n) \/ ActivateEnvelope(e, n)
                                     \/ SupersedeEnvelope(e, n)
  \/ \E e \in Envs : ApproveEnvelope(e) \/ ResumeEnvelope(e) \/ CancelEnvelope(e)
  \/ KillSwitch \/ Flatten \/ DirectEnds
  \/ \E o \in Ids : OperatorCancelsOrder(o)

-----------------------------------------------------------------------------
(* The envelope pass: stage, claim, send. *)

CancelTarget_None(o) == FALSE
\* A persisted cancel request or attempt names the child.
CancelTarget(o) == child[o].req

\* _run_one_envelope stands aside while a target of a persisted cancel is open.
CancelHolds(e) ==
  \E o \in Kids(child, {e}) : CancelTarget(o)
       /\ o \in Unresolved(child, {e}) \cup NeedsReview(child, {e})

\* _envelope_action_context: the newest child that is not terminal.
Working(e) == {o \in Kids(child, {e}) : child[o].st # "TERMINAL"}

StageContext(e) ==
  /\ loop.pc = "idle" /\ Minted(child) < MaxChildren
  /\ env[e].st = "ACTIVE" /\ ~CancelHolds(e)
  /\ OwnerBinds /\ direct # "live" /\ ~Foreign(e) /\ ~halted
  /\ {o \in Unresolved(child, {e}) : child[o].rec = "unresolved" \/ ClaimOpen(child[o])} = {}
  /\ NeedsReview(child, {e}) = {}
  /\ Cardinality(Unresolved(child, {e})) <= 1

\* stage_envelope_action: one new child over the working order, if there is one.
StageAction(e, q) ==
  LET w == Working(e)
      rep == IF w = {} THEN 0 ELSE CHOOSE o \in w : TRUE IN
  /\ StageContext(e)
  /\ \A o \in w : VenueOpen(child[o])
  /\ q <= env[e].rem /\ q <= Position(child)
  /\ Write(env, [child EXCEPT ![Minted(child) + 1] =
                   [NoChild EXCEPT !.env = e, !.qty = q, !.rep = rep, !.st = "CREATED"]])
  /\ UNCHANGED <<direct, latched, halted, loop, commands, faults>>

\* A size the rails admitted when it was planned but the live position does not:
\* the writer freezes the envelope.
StageDiverges(e) ==
  /\ StageContext(e)
  /\ Position(child) < env[e].rem
  /\ Write([env EXCEPT ![e].st = "FROZEN"], child)
  /\ UNCHANGED <<direct, latched, halted, loop, commands, faults>>

\* A child named by a cancel request is never claimed.
Claimable(o) == child[o].st = "CREATED" /\ ~CancelTarget(o)
Acknowledgeable(o) == child[o].st = "SUBMITTING" /\ child[o].rec = "none"

\* The sole child of a submit, or a replacement beside its working predecessor.
SoleCandidate(o) ==
  LET u == Unresolved(child, {child[o].env})
      p == child[o].rep IN
  IF p = 0 THEN u = {o}
  ELSE u = {o, p} /\ child[p].st = "SUBMITTED" /\ child[p].rec = "none"

\* _envelope_submission_block_reason: the claim and the acknowledgement of a child.
Blocked(o, accepted) ==
  LET e == child[o].env IN
  \/ child[o].rec # "none"
  \/ env[e].st # "ACTIVE" \/ intent # "APPROVED"
  \/ \E p \in Kids(child, {e}) : child[p].rec # "none"
  \/ IF accepted THEN ~Acknowledgeable(o)
     ELSE ~Claimable(o) \/ \E p \in Kids(child, {e}) : ClaimOpen(child[p])
  \/ ~SoleCandidate(o)
  \/ child[o].qty > env[e].rem \/ child[o].qty > Position(child)
  \/ direct = "live" \/ Foreign(e)

\* claim_order_for_submission, from a fresh stage or a re-drive.
Claim(o) ==
  /\ loop.pc = "idle"
  /\ child[o].st = "CREATED" /\ \A p \in Kids(child, {child[o].env}) : p <= o
  /\ ~CancelHolds(child[o].env) /\ ~halted /\ ~Blocked(o, FALSE)
  /\ Write(env, [child EXCEPT ![o].st = "SUBMITTING"])
  /\ loop' = [Idle EXCEPT !.pc = "claimed", !.o = o]
  /\ UNCHANGED <<direct, latched, halted, commands, faults>>

\* redrive_staged_envelope_action: a stale, re-railed or orphaned child is dropped.
RedriveRefused(o) ==
  /\ loop.pc = "idle"
  /\ child[o].st = "CREATED" /\ \A p \in Kids(child, {child[o].env}) : p <= o
  /\ env[child[o].env].st = "ACTIVE" /\ ~CancelHolds(child[o].env)
  /\ Write(env, [child EXCEPT ![o].st = "TERMINAL"])
  /\ UNCHANGED <<direct, latched, halted, loop, commands, faults>>

\* _drive_staged_order re-reads the predecessor after the claim; a refused call
\* never left the process either.
Release ==
  /\ loop.pc = "claimed"
  /\ Write(env, [child EXCEPT ![loop.o].st = "CREATED"])
  /\ loop' = Idle
  /\ UNCHANGED <<direct, latched, halted, commands, faults>>

Send ==
  LET p == child[loop.o].rep IN
  /\ loop.pc = "claimed"
  /\ p # 0 => child[p].st = "SUBMITTED"
  /\ child' = [child EXCEPT ![loop.o].venue = "flying"]
  /\ loop' = [loop EXCEPT !.pc = "call"]
  /\ UNCHANGED <<env, intent, direct, latched, halted, commands, faults>>

ReplyAccepted_EndsPredecessor ==
  LET o == loop.o
      p == child[o].rep IN
  /\ loop.pc = "call" /\ child[o].venue \in {"live", "done"}
  /\ Write(env, [i \in Ids |->
       CASE i = o /\ Blocked(o, TRUE) -> [child[i] EXCEPT !.rec = "unresolved"]
         [] i = o /\ ~Blocked(o, TRUE) -> [child[i] EXCEPT !.st = "SUBMITTED"]
         [] i = p -> [child[i] EXCEPT !.st = "TERMINAL"]
         [] OTHER -> child[i]])
  /\ loop' = Idle
  /\ UNCHANGED <<direct, latched, halted, commands, faults>>

\* _finalize_accepted_envelope_order: an acknowledgement the rails refuse leaves a
\* recovery that owns the broker order.  The predecessor of an accepted replace keeps
\* its status.
ReplyAccepted ==
  LET o == loop.o IN
  /\ loop.pc = "call" /\ child[o].venue \in {"live", "done"}
  /\ Write(env, [child EXCEPT ![o] =
                   IF Blocked(o, TRUE) THEN [@ EXCEPT !.rec = "unresolved"]
                   ELSE [@ EXCEPT !.st = "SUBMITTED"]])
  /\ loop' = Idle
  /\ UNCHANGED <<direct, latched, halted, commands, faults>>

ReplyRejected ==
  /\ loop.pc = "call" /\ child[loop.o].venue = "refused"
  /\ Write(env, [child EXCEPT ![loop.o].st = "TERMINAL"])
  /\ loop' = Idle
  /\ UNCHANGED <<direct, latched, halted, commands, faults>>

\* quarantine_or_own_ambiguous_submit: the call may have reached the venue.
ReplyAmbiguous ==
  /\ loop.pc = "call"
  /\ Write(env, [child EXCEPT ![loop.o].st = "TIMEOUT_QUARANTINE"])
  /\ loop' = Idle /\ Fault
  /\ UNCHANGED <<direct, latched, halted, commands>>

\* _redrive_stale_submitting never resends an envelope child: it quarantines it.
QuarantineStale(o) ==
  /\ loop.pc = "idle" /\ child[o].st = "SUBMITTING" /\ child[o].rec = "none"
  /\ Write(env, [child EXCEPT ![o].st = "TIMEOUT_QUARANTINE"])
  /\ UNCHANGED <<direct, latched, halted, loop, commands, faults>>

\* _resolve_timeout_quarantine: found working, found clean and over, or never landed.
ResolveQuarantine(o) ==
  /\ loop.pc = "idle" /\ child[o].st = "TIMEOUT_QUARANTINE" /\ child[o].venue # "flying"
  /\ Write(env, [child EXCEPT ![o].st =
                   IF \/ child[o].venue = "live"
                      \/ child[o].venue = "done" /\ child[o].exec > 0
                   THEN "SUBMITTED" ELSE "TERMINAL"])
  /\ UNCHANGED <<direct, latched, halted, loop, commands, faults>>

\* _recover_unpersisted_submits: cancel what nobody owns; executed shares go to review.
RecoverSubmit(o) ==
  /\ loop.pc = "idle" /\ child[o].rec = "unresolved"
  /\ \/ /\ child[o].exec > 0
        /\ Write(env, [child EXCEPT ![o].rec = "needs_review"])
     \/ /\ child[o].exec = 0 /\ child[o].venue \in {"live", "done"}
        /\ Write(env, [child EXCEPT ![o] =
                         [@ EXCEPT !.venue = "done", !.rec = "none", !.st = "TERMINAL"]])
  /\ UNCHANGED <<direct, latched, halted, loop, commands, faults>>

-----------------------------------------------------------------------------
(* Fills: the poll, and their attribution. *)

\* record_envelope_fill, the order's part: the canonical event or its marker, once.
RecordFill(C, o, l, q) ==
  [C EXCEPT ![o].ev[l] = IF @ = 0 THEN q ELSE @, ![o].attr = @ \cup {l}]

Applied_Never(o, l) == FALSE
\* decide_envelope_fill_attribution: the event is bound to the envelope, or a marker is.
Applied(o, l) == l \in child[o].attr

Remaining(e, q) == IF env[e].rem > q THEN env[e].rem - q ELSE 0

EnvelopeOverfill(e, q) == q > env[e].rem
OrderOverfill(o, l, q) == Recorded(child[o]) - child[o].ev[l] + q > child[o].qty

Quarantines_OrderOnly(e, o, l, q) == OrderOverfill(o, l, q)
Quarantines(e, o, l, q) == EnvelopeOverfill(e, q) \/ OrderOverfill(o, l, q)

\* plan_envelope_fill: the envelope after a fill of q, not applied before.
AfterFill(e, q) ==
  LET r == Remaining(e, q) IN
  [env[e] EXCEPT
     !.rem = r,
     !.st = IF @ \in {"ACTIVE", "FROZEN"} /\ EnvelopeOverfill(e, q) THEN "BREACHED"
            ELSE IF @ = "ACTIVE" /\ r = 0 THEN "COMPLETED" ELSE @]

RecordEnvelopeFill(o, l, q) ==
  LET e == child[o].env
      new == ~Applied(o, l)
      E == IF new THEN [env EXCEPT ![e] = AfterFill(e, q)] ELSE env
      C == RecordFill(child, o, l, q) IN
  /\ Write(E, IF new /\ E[e].st \in EnvTerminal THEN CancelStaged(C, {e}, {o}) ELSE C)
  /\ latched' = (latched \/ (new /\ Quarantines(e, o, l, q)))

\* get_order_status: the cumulative level, and the fill it is over the fills table.
Poll(o) ==
  LET c == child[o] IN
  /\ loop.pc = "idle" /\ VenueOpen(c) /\ c.venue # "flying"
  /\ c.exec > c.rows \/ c.venue \in {"done", "refused"}
  /\ loop' = [Idle EXCEPT !.pc = IF c.exec > c.rows THEN "bridge" ELSE "settle", !.o = o,
                          !.level = c.exec, !.ended = c.venue \in {"done", "refused"}]
  /\ UNCHANGED <<env, child, intent, direct, latched, halted, commands, faults>>

Delta == loop.level - child[loop.o].rows

\* _apply_update: the envelope first, under the fill's own id.
PollBridge ==
  /\ loop.pc = "bridge"
  /\ \/ RecordEnvelopeFill(loop.o, loop.level, Delta) /\ UNCHANGED faults
     \/ Fault /\ UNCHANGED <<env, child, intent, latched>>
  /\ loop' = [loop EXCEPT !.pc = "append"]
  /\ UNCHANGED <<direct, halted, commands>>

\* append_fill: the row, and the event unless the bridge wrote it.
PollAppend ==
  LET o == loop.o
      l == loop.level IN
  /\ loop.pc = "append"
  /\ Write(env, [child EXCEPT ![o].rows = l,
                              ![o].ev[l] = IF @ = 0 THEN Delta ELSE @])
  /\ latched' = (latched \/ (child[o].ev[l] = 0 /\ Recorded(child[o]) + Delta > child[o].qty))
  /\ loop' = [loop EXCEPT !.pc = IF l \in child[o].attr THEN "settle" ELSE "strict"]
  /\ UNCHANGED <<direct, halted, commands, faults>>

\* The strict bridge after ingest: a failure abandons the tick, not the fill.
PollStrict ==
  /\ loop.pc = "strict"
  /\ \/ /\ RecordEnvelopeFill(loop.o, loop.level, child[loop.o].ev[loop.level])
        /\ loop' = [loop EXCEPT !.pc = "settle"]
        /\ UNCHANGED faults
     \/ Fault /\ loop' = Idle /\ UNCHANGED <<env, child, intent, latched>>
  /\ UNCHANGED <<direct, halted, commands>>

\* _reconciled_status over the recorded fills.
PollSettle ==
  /\ loop.pc = "settle"
  /\ Write(env, [child EXCEPT ![loop.o].st =
                   IF loop.ended \/ child[loop.o].rows >= child[loop.o].qty
                   THEN "TERMINAL" ELSE @])
  /\ loop' = Idle
  /\ UNCHANGED <<direct, latched, halted, commands, faults>>

RepairFill_DirectOnly(o, l) ==
  /\ loop.pc = "idle" /\ child[o].ev[l] > 0 /\ child[o].attr # {} /\ l \notin child[o].attr
  /\ RecordEnvelopeFill(o, l, child[o].ev[l])
  /\ UNCHANGED <<direct, halted, loop, commands, faults>>

\* _repair_unattributed_envelope_fills, at startup and at the head of every tick.
RepairFill(o, l) ==
  /\ loop.pc = "idle" /\ child[o].ev[l] > 0 /\ l \notin child[o].attr
  /\ RecordEnvelopeFill(o, l, child[o].ev[l])
  /\ UNCHANGED <<direct, halted, loop, commands, faults>>

-----------------------------------------------------------------------------
(* Decisions that end an envelope, and the cancel of its working orders. *)

\* decide: expiry, a breached rail, or the replace budget.
Conclude(e) ==
  /\ loop.pc = "idle" /\ env[e].st = "ACTIVE" /\ ~CancelHolds(e)
  /\ \E s \in {"EXPIRED", "BREACHED", "EXHAUSTED"}, w \in BOOLEAN :
       /\ w => s = "EXPIRED"
       /\ Write([env EXCEPT ![e].st = s, ![e].wind = w], CancelStaged(child, {e}, {}))
  /\ UNCHANGED <<direct, latched, halted, loop, commands, faults>>

\* A policy or store error in the pass freezes that envelope only.
FreezeOnError(e) ==
  /\ loop.pc = "idle" /\ env[e].st = "ACTIVE" /\ Fault
  /\ Write([env EXCEPT ![e].st = "FROZEN"], child)
  /\ UNCHANGED <<direct, latched, halted, loop, commands>>

WindTargets(e) ==
  {o \in Unresolved(child, {e}) : child[o].rec = "none"
     /\ child[o].st \in {"CREATED", "SUBMITTING", "SUBMITTED"}
     /\ (env[e].wind \/ ~(\E p \in Kids(child, {e}) : child[p].req) \/ child[o].req)}

\* _cancel_envelope_working_order, first writes: the cancel of children that have no
\* broker id yet is persisted before anything else happens to them.  It starts from an
\* expired envelope, a persisted request, or stale data under the cancel disposition.
WindStart(e) ==
  /\ loop.pc = "idle" /\ WindTargets(e) # {}
  /\ env[e].wind \/ env[e].st = "ACTIVE" \/ (\E o \in Kids(child, {e}) : child[o].req)
  /\ child' = [o \in Ids |-> IF o \in WindTargets(e) THEN [child[o] EXCEPT !.req = TRUE]
                             ELSE child[o]]
  /\ loop' = [Idle EXCEPT !.pc = "wind", !.todo = WindTargets(e)]
  /\ UNCHANGED <<env, intent, direct, latched, halted, commands, faults>>

Escalated_Never(c) == FALSE
Escalated(c) == c.st = "SUBMITTED" /\ c.tries >= CancelLimit
Attempted(c) == c.st = "SUBMITTED" /\ c.tries < CancelLimit

\* ... then the local cancels, and one durable attempt (or the escalation) per child
\* at the venue, all before the first broker call.
WindPrepare ==
  /\ loop.pc = "wind"
  /\ Write(env, [o \in Ids |->
       IF o \notin loop.todo THEN child[o]
       ELSE CASE child[o].st = "CREATED" -> [child[o] EXCEPT !.st = "TERMINAL"]
              [] Escalated(child[o]) -> [child[o] EXCEPT !.rec = "needs_review"]
              [] Attempted(child[o]) -> [child[o] EXCEPT !.tries = @ + 1]
              [] OTHER -> child[o]])
  /\ loop' = [loop EXCEPT !.pc = "cancel", !.todo = {o \in loop.todo : Attempted(child[o])}]
  /\ UNCHANGED <<direct, latched, halted, commands, faults>>

\* ... and the broker calls: accepted, or refused; the last refusal escalates.
WindReply(o) ==
  /\ loop.pc = "cancel" /\ o \in loop.todo
  /\ \/ Write(env, [child EXCEPT ![o].st = IF @ = "SUBMITTED" THEN "CANCEL_PENDING" ELSE @])
     \/ Write(env, [child EXCEPT ![o].rec =
          IF child[o].st = "SUBMITTED" /\ child[o].tries = CancelLimit
          THEN "needs_review" ELSE @])
  /\ loop' = [loop EXCEPT !.todo = @ \ {o}]
  /\ UNCHANGED <<direct, latched, halted, commands, faults>>

WindDone ==
  /\ loop.pc = "cancel" /\ loop.todo = {} /\ loop' = Idle
  /\ UNCHANGED <<env, child, intent, direct, latched, halted, commands, faults>>

Crash ==
  /\ Fault /\ loop' = Idle
  /\ UNCHANGED <<env, child, intent, direct, latched, halted, commands>>

LoopNext ==
  \/ \E e \in Envs : StageDiverges(e) \/ Conclude(e) \/ FreezeOnError(e) \/ WindStart(e)
  \/ \E e \in Envs, q \in Levels : StageAction(e, q)
  \/ \E o \in Ids : Claim(o) \/ RedriveRefused(o) \/ QuarantineStale(o) \/ ResolveQuarantine(o)
                      \/ RecoverSubmit(o) \/ Poll(o) \/ WindReply(o)
  \/ Release \/ Send \/ ReplyAccepted \/ ReplyRejected \/ ReplyAmbiguous
  \/ PollBridge \/ PollAppend \/ PollStrict \/ PollSettle
  \/ \E o \in Ids, l \in Levels : RepairFill(o, l)
  \/ WindPrepare \/ WindDone

-----------------------------------------------------------------------------
(* The venue. *)

\* A submit or a replace is taken or refused.  That a replace is taken says nothing of
\* the predecessor: it may go on working, fill, or end in the step that follows, which
\* is the venue that replaces atomically.
VenueTakes(o) ==
  /\ child[o].venue = "flying"
  /\ child' = [child EXCEPT ![o].venue = "live"]
  /\ UNCHANGED <<env, intent, direct, latched, halted, loop, commands, faults>>

VenueRefuses(o) ==
  /\ child[o].venue = "flying"
  /\ child' = [child EXCEPT ![o].venue = "refused"]
  /\ UNCHANGED <<env, intent, direct, latched, halted, loop, commands, faults>>

VenueFills(o) ==
  /\ child[o].venue = "live" /\ child[o].exec < child[o].qty
  /\ child' = [child EXCEPT ![o].exec = @ + 1,
                            ![o].venue = IF child[o].exec + 1 = child[o].qty THEN "done" ELSE @]
  /\ UNCHANGED <<env, intent, direct, latched, halted, loop, commands, faults>>

VenueEnds(o) ==
  /\ child[o].venue = "live"
  /\ child' = [child EXCEPT ![o].venue = "done"]
  /\ UNCHANGED <<env, intent, direct, latched, halted, loop, commands, faults>>

VenueNext == \E o \in Ids : VenueTakes(o) \/ VenueRefuses(o) \/ VenueFills(o) \/ VenueEnds(o)

Next == OperatorNext \/ LoopNext \/ VenueNext \/ Crash

Spec == Init /\ [][Next]_vars

\* What the loop does next once it is in the middle of something.
Continue ==
  \/ Release \/ Send \/ ReplyAccepted \/ ReplyRejected
  \/ PollBridge \/ PollAppend \/ PollStrict \/ PollSettle
  \/ WindPrepare \/ (\E o \in Ids : WindReply(o)) \/ WindDone

Sweep(o) == QuarantineStale(o) \/ ResolveQuarantine(o) \/ RecoverSubmit(o)

\* Every tick repairs, polls, sweeps and winds down before it may work an envelope
\* again; a venue answers, and ends an order it has accepted a cancel for.
Fairness ==
  /\ \A o \in Ids :
       /\ WF_vars(VenueTakes(o) \/ VenueRefuses(o))
       /\ WF_vars(child[o].st = "CANCEL_PENDING" /\ VenueEnds(o))
       /\ SF_vars(Sweep(o)) /\ SF_vars(Poll(o))
       /\ SF_vars(\E l \in Levels : RepairFill(o, l))
  /\ \A e \in Envs : SF_vars(WindStart(e))
  /\ WF_vars(Continue)

LiveSpec == Spec /\ Fairness

-----------------------------------------------------------------------------
AtVenue(o) == child[o].venue \in {"flying", "live"}

\* Every sell at the venue has its owner in the store. It is never written off: while a
\* replacement is in flight, acknowledged, quarantined or under recovery, the replaced
\* order stays open until the venue says it is over. And two are at the venue only as a
\* replacement and the order it was sent to replace, whatever the venue does of that one;
\* a successor or a resumed envelope starts with none, and a flatten never meets a child.
SellsAtVenueAreOwned ==
  /\ \A o \in Ids : AtVenue(o) =>
       \/ child[o].st \in {"SUBMITTING", "TIMEOUT_QUARANTINE"}
       \/ VenueOpen(child[o])
  /\ \A o, p \in Ids : AtVenue(o) /\ AtVenue(p) /\ o # p =>
       child[o].rep = p \/ child[p].rep = o
  /\ direct = "live" => \A o \in Ids : ~AtVenue(o)

\* The adapter's contract of a replace (adapter.py, "double exposure"): the sells resting
\* at the venue offer no more shares than the account still holds. It does not hold of a
\* venue that may leave the replaced order working, and no configuration checks it.
VenueSellsAreCovered ==
  SumFunctionOnSet([o \in Ids |-> IF child[o].venue = "live" THEN child[o].qty
                                  ELSE child[o].exec], Ids) <= Held

\* A released intent has nothing left that could execute or delegate, whatever
\* quarantine, recovery, crash or late reply its children went through.
ReleasedDelegationIsDead ==
  intent = "EXPIRED" =>
    /\ \A e \in Envs : env[e].st \notin Delegating
    /\ \A o \in Ids : ~AtVenue(o)

\* The mandate left is what the attributed fills leave, each counted once whether it
\* was bridged, attributed after ingest, or repaired after a crash.
RemainingMatchesLedger ==
  \A e \in Envs : env[e].rem =
    LET a == AttributedTo(child, e) IN IF a < env[e].ceil THEN env[e].ceil - a ELSE 0

\* Shares attributed beyond the mandate always leave the overfill quarantine.
OverfillIsLatched ==
  \A e \in Envs : AttributedTo(child, e) > env[e].ceil => latched

\* A child whose cancel was requested is never put up for submission again.
CancelRequestHolds ==
  [][\A o \in Ids : child[o].req /\ child[o].st = "CREATED" => child'[o].st # "SUBMITTING"]_vars

\* A share the venue executed once is recorded once.
FillCountedOnce == \A o \in Ids : Recorded(child[o]) <= child[o].exec

\* A fill in the log reaches its envelope, whatever crash or failed write came between.
FillsGetAttributed ==
  \A o \in Ids, l \in Levels :
    (child[o].ev[l] > 0 /\ l \notin child[o].attr) ~> l \in child[o].attr

\* The children of an envelope that expired to cancel and return leave the venue, or
\* are handed to a human.
ExpiredWindsDown ==
  \A e \in Envs : env[e].wind ~>
    \A o \in Kids(child, {e}) : ~AtVenue(o) \/ child[o].rec = "needs_review"
=============================================================================
