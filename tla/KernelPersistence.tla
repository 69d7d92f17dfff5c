---------------------------- MODULE KernelPersistence ----------------------------
(***************************************************************************)
(* The durable side of the execution kernel                                *)
(* (app/execution_core/persistence): the unit of work that carries every   *)
(* input from a runtime context to the next checkpoint in one SQLite       *)
(* transaction, and the cold startup that takes the owner lease, makes the *)
(* market evidence of every active protection stale, reconciles every      *)
(* claimed broker effect, takes a new market baseline and then serves.     *)
(*                                                                         *)
(* Several processes share the datastore.  A transaction is one step:      *)
(* BEGIN IMMEDIATE serialises writers.  What lies between transactions is  *)
(* not: a process may crash, stall, lose its lease to another process, or  *)
(* not learn whether its COMMIT became durable.  The unit of work never    *)
(* asks for the lease; what fences a process that lost it is that its      *)
(* context names a checkpoint which is no longer the current one.          *)
(*                                                                         *)
(* One symbol scope.  A checkpoint is its version, the lifecycle state of  *)
(* every broker effect and the market cursor of the protection.            *)
(***************************************************************************)
EXTENDS Naturals, FiniteSets

CONSTANTS
  Procs,          \* processes that may run the kernel on one datastore
  NoProc,         \* the owner lock is free
  Effects,        \* broker effects (transport occurrences)
  NoEffect,
  Ids,            \* input ids of authority and acquisition commands
  MaxOrdinal,     \* bound on market ordinals; the largest admitted fence
  MaxOccurrences, \* bound on the market occurrences accepted while serving
  MaxReports,     \* bound on the venue reports accepted while serving
  MaxStarts       \* bound on the number of startups

ASSUME ProcsAssumption == NoProc \notin Procs
ASSUME EffectsAssumption == NoEffect \notin Effects
ASSUME OrdinalAssumption == MaxOrdinal \in Nat

VARIABLES
  ckpt,       \* the current runtime checkpoint
  inputs,     \* durable inputs by domain, with their payload
  outbox,     \* effects with a committed broker outbox row
  lease,      \* the process holding the owner lock
  pc,         \* where each process is in start_startup
  checked,    \* the lease was seen current just before the next call
  ctx,        \* the runtime context of each process
  todo,       \* claimed effects startup still has to query
  report,     \* the venue operation the last query returned
  fence,      \* the ordinal of the market fence startup obtained
  eligible,   \* post-commit effect eligibilities not used yet
  own,        \* effects each process claimed since it serves
  published,  \* how often each effect was handed to the venue
  venue,      \* what the venue decided about each effect
  starts      \* startups so far

db == <<ckpt, inputs, outbox>>
procVars == <<pc, checked, ctx, todo, report, fence, eligible, own>>
world == <<lease, published, venue, starts>>
vars == <<ckpt, inputs, outbox, lease, pc, checked, ctx, todo, report, fence,
          eligible, own, published, venue, starts>>

----------------------------------------------------------------------------
(* The checkpoint and how an input reduces it.                             *)

EffectStates ==
  {"NONE", "REQUESTED", "CANCELED_BEFORE_DISPATCH", "DISPATCH_CLAIMED",
   "ACKNOWLEDGED", "REJECTED", "OUTCOME_UNKNOWN", "NEEDS_REVIEW"}

BlockingStates == {"DISPATCH_CLAIMED", "OUTCOME_UNKNOWN", "NEEDS_REVIEW"}

Final == {"ACKNOWLEDGED", "REJECTED"}

Ordinals == 1 .. MaxOrdinal

\* A bid is evidence the policy admits; an occurrence may also be inert (too
\* old, or not a best bid while a baseline is awaited) or report a halt.
Sorts == {"bid", "inert", "halt"}

\* Market epochs are counted from 1; 0 stands for no committed epoch.
Occurrences == [epoch : Ordinals, ordinal : Ordinals, sort : Sorts]

EffectOps == [effect : Effects, to : EffectStates]

Domains == {"AUTHORITY", "VENUE", "MARKET"}

Checkpoints ==
  [ver : Nat, eff : [Effects -> EffectStates], active : BOOLEAN,
   cursor : BOOLEAN, required : BOOLEAN, epoch : Nat, coord : Nat]

NoContext ==
  [ver |-> 0, eff |-> [e \in Effects |-> "NONE"], active |-> FALSE,
   cursor |-> FALSE, required |-> FALSE, epoch |-> 0, coord |-> 0]

Claims == {"DISPATCH_CLAIMED"}
AuthorityTargets == {"REQUESTED", "CANCELED_BEFORE_DISPATCH"} \cup Claims
VenueTargets == Final \cup {"OUTCOME_UNKNOWN", "NEEDS_REVIEW"}

\* The transitions of one effect that the venue book applies.
Lifecycle ==
  {<<"NONE", "REQUESTED">>, <<"REQUESTED", "CANCELED_BEFORE_DISPATCH">>,
   <<"REQUESTED", "DISPATCH_CLAIMED">>}
  \cup ({"DISPATCH_CLAIMED"} \X (Final \cup {"OUTCOME_UNKNOWN"}))
  \cup ({"OUTCOME_UNKNOWN"} \X (Final \cup {"NEEDS_REVIEW"}))

AfterEffect(c, op) ==
  IF <<c.eff[op.effect], op.to>> \in Lifecycle
  THEN [c EXCEPT !.eff = [@ EXCEPT ![op.effect] = op.to]]
  ELSE c

\* The epoch the protection admits: the next one while a baseline is awaited.
AdmittedEpoch(c) == IF c.required THEN c.epoch + 1 ELSE c.epoch

\* A second occurrence at the coordinate that was applied last.
Contradicts(c, o) ==
  ~c.required /\ c.coord > 0 /\ o.ordinal = c.coord /\ o.epoch = c.epoch

Advances(c, o) == o.epoch = AdmittedEpoch(c) /\ o.ordinal > c.coord

AfterMarket(c, o) ==
  IF Contradicts(c, o) THEN [c EXCEPT !.required = TRUE]
  ELSE IF ~Advances(c, o) THEN c
  ELSE CASE o.sort = "halt" ->
              [c EXCEPT !.coord = o.ordinal, !.required = TRUE,
                        !.cursor = TRUE]
         [] o.sort = "inert" ->
              [c EXCEPT !.coord = o.ordinal, !.cursor = TRUE]
         [] o.sort = "bid" ->
              [c EXCEPT !.coord = o.ordinal, !.required = FALSE,
                        !.epoch = o.epoch, !.cursor = TRUE]

\* A checkpoint is stored, under the next version, only if something changed.
Stored(c, new) == IF new = c THEN c ELSE [new EXCEPT !.ver = c.ver + 1]

Successor(c, d, i) ==
  Stored(c, IF d = "MARKET" THEN AfterMarket(c, i.op) ELSE AfterEffect(c, i.op))

Blocking(c) == {e \in Effects : c.eff[e] \in BlockingStates}

\* No claimed effect is left without a final outcome.
CompleteReconciliation(c) == Blocking(c) = {}

----------------------------------------------------------------------------
(* The unit of work.                                                       *)

\* The expected checkpoint and the owners of the context equal what is stored.
Prepared(p) == ctx[p] = ckpt

Retained(d, i) == \E r \in inputs[d] : r.id = i.id

Disposition_Unfenced(p, d, i) ==
  IF d = "MARKET" /\ ~ctx[p].active THEN "REFUSED"
  ELSE IF i \in inputs[d] THEN "EXACT_REPLAY"
  ELSE IF Retained(d, i) THEN "CONFLICT"
  ELSE "COMMITTED"

Disposition(p, d, i) ==
  IF ~Prepared(p) \/ (d = "MARKET" /\ ~ctx[p].active) THEN "REFUSED"
  ELSE IF i \in inputs[d] THEN "EXACT_REPLAY"
  ELSE IF Retained(d, i) THEN "CONFLICT"
  ELSE "COMMITTED"

FreshClaim_AnyInput(c, d, i) ==
  IF d = "AUTHORITY" /\ i.op.to \in Claims THEN {i.op.effect} ELSE {}

\* The effect whose dispatch claim this input creates, if it applies.
FreshClaim(c, d, i) ==
  IF d = "AUTHORITY" /\ i.op.to \in Claims /\ Successor(c, d, i) # c
  THEN {i.op.effect}
  ELSE {}

\* What COMMIT makes durable, all of it or nothing: the input with its
\* outcome, the successor checkpoint, and the outbox row of a fresh claim.
Durable(p, d, i) ==
  /\ Disposition(p, d, i) = "COMMITTED"
  /\ ckpt' = Successor(ctx[p], d, i)
  /\ inputs' = [inputs EXCEPT ![d] = @ \cup {i}]
  /\ outbox' = outbox \cup FreshClaim(ctx[p], d, i)

InputsOf(d) ==
  CASE d = "AUTHORITY" -> [id : Ids, op : [effect : Effects, to : AuthorityTargets]]
    [] d = "VENUE" -> {[id |-> o, op |-> o] : o \in [effect : Effects, to : VenueTargets]}
    [] d = "MARKET" -> {[id |-> o, op |-> o] : o \in Occurrences}

\* What a serving process is given: any command and any occurrence, and reports
\* about claimed effects, a final one only as the venue decided.
Admissible(d, i) ==
  CASE d = "AUTHORITY" -> TRUE
    [] d = "VENUE" ->
         /\ i.op.effect \in outbox
         /\ i.op.to \in Final => venue[i.op.effect] = i.op.to
         /\ Cardinality(inputs.VENUE) < MaxReports
    [] d = "MARKET" -> Cardinality(inputs.MARKET) < MaxOccurrences

\* COMMIT returned: the process gets the successor context and, for a fresh
\* claim, the one eligibility to publish it.
OperateCommitted(p, d, i) ==
  /\ pc[p] = "serving" /\ Admissible(d, i)
  /\ Durable(p, d, i)
  /\ ctx' = [ctx EXCEPT ![p] = ckpt']
  /\ eligible' = [eligible EXCEPT ![p] = @ \cup FreshClaim(ctx[p], d, i)]
  /\ own' = [own EXCEPT ![p] = @ \cup FreshClaim(ctx[p], d, i)]
  /\ UNCHANGED <<pc, checked, todo, report, fence, world>>

\* COMMIT raised although it became durable: RECONCILIATION_ONLY, no context
\* and no eligibility.  When it did not become durable, nothing changed.
OperateAmbiguous(p, d, i) ==
  /\ pc[p] = "serving" /\ Admissible(d, i)
  /\ Durable(p, d, i)
  /\ UNCHANGED <<procVars, world>>

\* The caller spends its eligibility; the venue accepts or rejects the order.
Publish(p, e) ==
  /\ e \in eligible[p]
  /\ eligible' = [eligible EXCEPT ![p] = @ \ {e}]
  /\ published' = [published EXCEPT ![e] = @ + 1]
  /\ \E s \in Final : venue' = [venue EXCEPT ![e] = s]
  /\ UNCHANGED <<db, lease, starts, pc, checked, ctx, todo, report, fence, own>>

----------------------------------------------------------------------------
(* Cold startup.                                                           *)

Steps == {"cutover", "query", "answer", "recut", "subscribe", "baseline",
          "verify", "close"}

NoReport == [effect |-> NoEffect, to |-> "NONE"]

\* NON_SERVING, and what a crash leaves of a process.
Down(p) ==
  /\ pc' = [pc EXCEPT ![p] = "down"]
  /\ checked' = [checked EXCEPT ![p] = FALSE]
  /\ ctx' = [ctx EXCEPT ![p] = NoContext]
  /\ todo' = [todo EXCEPT ![p] = {}]
  /\ report' = [report EXCEPT ![p] = NoReport]
  /\ fence' = [fence EXCEPT ![p] = 0]
  /\ eligible' = [eligible EXCEPT ![p] = {}]
  /\ own' = [own EXCEPT ![p] = {}]

\* Releases the lease only if it is still this process's.
Stop(p) ==
  /\ Down(p)
  /\ lease' = IF lease = p THEN NoProc ELSE lease
  /\ UNCHANGED <<published, venue, starts>>

\* One call of startup that succeeds: the next call needs a new lease check.
Goes(p, to) ==
  /\ pc' = [pc EXCEPT ![p] = to]
  /\ checked' = [checked EXCEPT ![p] = FALSE]
  /\ UNCHANGED <<eligible, own, world>>

\* The lock port grants a free lock; a denied process is NON_SERVING.
Acquire(p) ==
  /\ pc[p] = "down" /\ lease = NoProc /\ starts < MaxStarts
  /\ starts' = starts + 1
  /\ lease' = p
  /\ pc' = [pc EXCEPT ![p] = "cutover"]
  /\ UNCHANGED <<db, checked, ctx, todo, report, fence, eligible, own,
                 published, venue>>

\* The lease is checked before and after every call of startup.
CheckLease(p) ==
  /\ pc[p] \in Steps /\ ~checked[p]
  /\ \/ /\ lease = p
        /\ checked' = [checked EXCEPT ![p] = TRUE]
        /\ UNCHANGED <<pc, ctx, todo, report, fence, eligible, own, world>>
     \/ /\ lease # p
        /\ Stop(p)
  /\ UNCHANGED db

Invalidated(c) ==
  IF c.active THEN Stored(c, [c EXCEPT !.required = TRUE, !.cursor = TRUE]) ELSE c

\* One transaction over whatever checkpoint is stored, then a reread; nothing
\* to invalidate is an exact replay.
Cutover(p) ==
  /\ ckpt' = Invalidated(ckpt)
  /\ ctx' = [ctx EXCEPT ![p] = ckpt']
  /\ UNCHANGED <<inputs, outbox>>

ColdCutover(p) ==
  /\ pc[p] = "cutover" /\ checked[p]
  /\ Cutover(p)
  /\ todo' = [todo EXCEPT ![p] = Blocking(ckpt)]
  /\ UNCHANGED <<report, fence>>
  /\ Goes(p, "query")

\* The query port answers with the venue's decision or with an operation that
\* says the outcome is unknown; an unresolved answer stops startup.
QueryEffect(p) ==
  /\ pc[p] = "query" /\ checked[p]
  /\ \E e \in todo[p], s \in VenueTargets :
       /\ s \in Final => venue[e] = s
       /\ report' = [report EXCEPT ![p] = [effect |-> e, to |-> s]]
  /\ UNCHANGED <<db, ctx, todo, fence>>
  /\ Goes(p, "answer")

ReportInput(p) == [id |-> report[p], op |-> report[p]]

ReconcileEffect(p) ==
  /\ pc[p] = "answer" /\ checked[p]
  /\ \/ /\ Durable(p, "VENUE", ReportInput(p))
        /\ ctx' = [ctx EXCEPT ![p] = ckpt']
     \/ /\ Disposition(p, "VENUE", ReportInput(p)) = "EXACT_REPLAY"
        /\ UNCHANGED <<db, ctx>>
  /\ todo' = [todo EXCEPT ![p] = @ \ {report[p].effect}]
  /\ report' = [report EXCEPT ![p] = NoReport]
  /\ UNCHANGED fence
  /\ Goes(p, "query")

\* The checkpoint read back is the one the context names.
Reread(p) == ckpt.ver = ctx[p].ver

RereadReconciled(p) ==
  /\ pc[p] = "query" /\ checked[p] /\ todo[p] = {}
  /\ Reread(p) /\ CompleteReconciliation(ckpt)
  /\ ctx' = [ctx EXCEPT ![p] = ckpt]
  /\ UNCHANGED <<db, todo, report, fence>>
  /\ Goes(p, "recut")

FinalCutover(p) ==
  /\ pc[p] = "recut" /\ checked[p]
  /\ Cutover(p)
  /\ CompleteReconciliation(ckpt)
  /\ UNCHANGED <<todo, report, fence>>
  /\ Goes(p, IF ckpt.active THEN "subscribe" ELSE "close")

\* Subscription, the fence after its acknowledgement and the baseline at the
\* fence come from the market source.
SubscribeAndFence(p) ==
  /\ pc[p] = "subscribe" /\ checked[p]
  /\ \E f \in Ordinals : f > ctx[p].coord /\ fence' = [fence EXCEPT ![p] = f]
  /\ UNCHANGED <<db, ctx, todo, report>>
  /\ Goes(p, "baseline")

\* The baseline is for the expected epoch, at the fence, and not halted.
BaselineInput(p, sort) ==
  LET o == [epoch |-> ctx[p].epoch + 1, ordinal |-> fence[p], sort |-> sort]
  IN  [id |-> o, op |-> o]

BaselineMatches(p) == ctx[p].required /\ fence[p] > ctx[p].coord

ApplyBaseline(p) ==
  /\ pc[p] = "baseline" /\ checked[p]
  /\ BaselineMatches(p)
  /\ \E sort \in {"bid", "inert"} :
       \/ /\ Durable(p, "MARKET", BaselineInput(p, sort))
          /\ ctx' = [ctx EXCEPT ![p] = ckpt']
       \/ /\ Disposition(p, "MARKET", BaselineInput(p, sort)) = "EXACT_REPLAY"
          /\ UNCHANGED <<db, ctx>>
  /\ UNCHANGED <<todo, report, fence>>
  /\ Goes(p, "verify")

Baselined_Unread(p) ==
  /\ Reread(p)
  /\ ckpt.coord = fence[p]
  /\ CompleteReconciliation(ckpt)

\* The reread protection is no longer awaiting a baseline, its last occurrence
\* is this baseline, and every claim is still reconciled.
Baselined(p) ==
  /\ Reread(p)
  /\ ~ckpt.required /\ ckpt.coord = fence[p]
  /\ CompleteReconciliation(ckpt)

VerifyBaseline(p) ==
  /\ pc[p] = "verify" /\ checked[p]
  /\ Baselined(p)
  /\ ctx' = [ctx EXCEPT ![p] = ckpt]
  /\ UNCHANGED <<db, todo, report, fence>>
  /\ Goes(p, "close")

Serve(p) ==
  /\ pc[p] = "close" /\ checked[p]
  /\ fence' = [fence EXCEPT ![p] = 0]
  /\ UNCHANGED <<db, ctx, todo, report>>
  /\ Goes(p, "serving")

\* A port raised or refused, a proof was not complete, or a reread found
\* another checkpoint: NON_SERVING.
StartupRefused(p) ==
  /\ pc[p] \in Steps
  /\ Stop(p)
  /\ UNCHANGED db

\* The COMMIT of a startup transaction was ambiguous and became durable.
StartupAmbiguous(p) ==
  /\ checked[p]
  /\ \/ /\ pc[p] \in {"cutover", "recut"}
        /\ ckpt' = Invalidated(ckpt)
        /\ UNCHANGED <<inputs, outbox>>
     \/ /\ pc[p] = "answer"
        /\ Durable(p, "VENUE", ReportInput(p))
     \/ /\ pc[p] = "baseline" /\ BaselineMatches(p)
        /\ \E sort \in {"bid", "inert"} :
             Durable(p, "MARKET", BaselineInput(p, sort))
  /\ Stop(p)

----------------------------------------------------------------------------
(* Failures.                                                               *)

\* The lock outlives the process until its port drops it.
Crash(p) ==
  /\ pc[p] # "down"
  /\ Down(p)
  /\ UNCHANGED <<db, world>>

LoseLease ==
  /\ lease # NoProc
  /\ lease' = NoProc
  /\ UNCHANGED <<db, procVars, published, venue, starts>>

----------------------------------------------------------------------------

Init ==
  /\ \E a \in BOOLEAN, f \in [Effects -> {"NONE", "REQUESTED"}] :
       ckpt = [NoContext EXCEPT !.ver = 1, !.eff = f, !.active = a, !.required = a]
  /\ inputs = [d \in Domains |-> {}]
  /\ outbox = {}
  /\ lease = NoProc
  /\ pc = [p \in Procs |-> "down"]
  /\ checked = [p \in Procs |-> FALSE]
  /\ ctx = [p \in Procs |-> NoContext]
  /\ todo = [p \in Procs |-> {}]
  /\ report = [p \in Procs |-> NoReport]
  /\ fence = [p \in Procs |-> 0]
  /\ eligible = [p \in Procs |-> {}]
  /\ own = [p \in Procs |-> {}]
  /\ published = [e \in Effects |-> 0]
  /\ venue = [e \in Effects |-> "NONE"]
  /\ starts = 0

Startup(p) ==
  \/ Acquire(p) \/ CheckLease(p) \/ ColdCutover(p)
  \/ QueryEffect(p) \/ ReconcileEffect(p) \/ RereadReconciled(p)
  \/ FinalCutover(p) \/ SubscribeAndFence(p) \/ ApplyBaseline(p)
  \/ VerifyBaseline(p) \/ Serve(p) \/ StartupRefused(p) \/ StartupAmbiguous(p)

Operate(p) ==
  \E d \in Domains : \E i \in InputsOf(d) :
    OperateCommitted(p, d, i) \/ OperateAmbiguous(p, d, i)

Next ==
  \/ \E p \in Procs : Startup(p) \/ Operate(p) \/ Crash(p)
  \/ \E p \in Procs, e \in Effects : Publish(p, e)
  \/ LoseLease

Spec == Init /\ [][Next]_vars

----------------------------------------------------------------------------
(* Properties.                                                             *)

TypeOK ==
  /\ ckpt \in Checkpoints
  /\ outbox \subseteq Effects
  /\ lease \in Procs \cup {NoProc}
  /\ pc \in [Procs -> Steps \cup {"down", "serving"}]
  /\ checked \in [Procs -> BOOLEAN]
  /\ ctx \in [Procs -> Checkpoints]
  /\ todo \in [Procs -> SUBSET Effects]
  /\ report \in [Procs -> EffectOps \cup {NoReport}]
  /\ fence \in [Procs -> Nat]
  /\ eligible \in [Procs -> SUBSET Effects]
  /\ own \in [Procs -> SUBSET Effects]
  /\ published \in [Effects -> Nat]
  /\ venue \in [Effects -> EffectStates]
  /\ starts \in Nat

\* An effect reaches the venue at most once, and only when its dispatch claim
\* and its outbox row are durable: replays of the claim, a second claim input,
\* an ambiguous COMMIT, a crash before publication and another process taking
\* over never produce a second eligibility (unit_of_work.py:6332).
PublishedOnce ==
  \A e \in Effects : published[e] <= 1 /\ (published[e] = 1 => e \in outbox)

\* A serving process whose context is current knows of every effect that was
\* committed for dispatch and has no final outcome: it claimed each of them
\* itself since it serves.  A process that lost its lease may still commit, but
\* it cannot overwrite what its successor did, and whoever took over then holds
\* a context that is no longer current (startup.py:268, unit_of_work.py:623).
OwnClaimsOnly ==
  \A p \in Procs :
    pc[p] = "serving" /\ ctx[p] = ckpt =>
      {e \in outbox : ckpt.eff[e] \notin Final} \subseteq own[p]

\* A process starts serving with a current context only if every claimed
\* effect is reconciled and an active protection holds the baseline this
\* process took at its own fence (startup.py:962, 1055).
ServesFresh ==
  [][\A p \in Procs :
       pc[p] # "serving" /\ pc'[p] = "serving" /\ ctx'[p] = ckpt' =>
         /\ CompleteReconciliation(ckpt')
         /\ ckpt'.active => ~ckpt'.required /\ ckpt'.coord = fence[p]]_vars
=============================================================================
