---------------------------- MODULE VenueRecovery ----------------------------
(***************************************************************************)
(* The venue recovery book of the execution kernel (execution_core/venue.py*)
(* and recovery.py) for one symbol: broker effects and their dispatch      *)
(* claims, the legs discovered at the venue, the evidence of their fills   *)
(* from the broker and from an operator, and the authority summary that    *)
(* decides what else may be sent.  One action per input of                 *)
(* apply_venue_recovery_input that changes the book; an input that is      *)
(* refused, replayed or presented with a stale execution snapshot changes  *)
(* nothing and is a stuttering step.                                       *)
(***************************************************************************)
EXTENDS ExecutionFacts, FiniteSets

CONSTANTS
  Effects, Legs,
  Kind,          \* Kind[e] \in {"SUBMIT", "CANCEL", "REPLACE"}
  Target,        \* Target[e]: the leg a CANCEL or REPLACE names
  Capacity,      \* Capacity[e]: the quantity of the effect's scope
  FillInputs,    \* RecordBrokerFillEvidence: [fact, prior, resulting]
  RevisionInputs,\* RecordBrokerRevisionEvidence: [fact, root, prior]
  HumanFills,    \* HumanAttestedFillFact values an operator may attest
  Openings,      \* fact sequences a position may come from before the book
  MaxCumulative, \* bound on the cumulative quantities observations carry
  MaxSeen        \* bound on the length of the fact registry

Facts == HumanFills \cup {i.fact : i \in FillInputs \cup RevisionInputs}
                    \cup UNION {ToSet(o) : o \in Openings}

\* The position a book is opened with: the reducer's fold of earlier facts.
Opened(x, f) == ApplyFact(x, f).x
Opening(o) == FoldLeft(Opened, Flat, o)

ASSUME VenueAssumption ==
  /\ None \notin Effects /\ IsFiniteSet(Legs)
  /\ \A e \in Effects : /\ Kind[e] \in {"SUBMIT", "CANCEL", "REPLACE"}
                        /\ Capacity[e] \in Nat \ {0}
                        /\ Kind[e] # "SUBMIT" => Target[e] \in Legs
  /\ MaxCumulative \in Nat /\ MaxSeen \in Nat

\* The kinds, sides and quantities the fact and input types of fills.py and
\* recovery.py admit.  The facts of a position a book is opened with are of
\* legs the book does not know.
ASSUME InputAssumption ==
  /\ \A f \in Facts : /\ f.side \in {"BUY", "SELL"} /\ f.qty \in Nat /\ f.price \in Nat
                      /\ f.root # None
  /\ \A i \in FillInputs : /\ i.fact.kind = "FILL" /\ i.fact.leg \in Legs
                           /\ i.prior \in Nat /\ i.resulting \in Nat
                           /\ i.resulting > i.prior
  /\ \A i \in RevisionInputs : /\ i.fact.kind \in {"CORRECT", "BUST"}
                               /\ i.fact.leg \in Legs
                               /\ i.root \in Nat /\ i.prior \in Nat
                               /\ i.prior - i.root + i.fact.qty >= 0
  /\ \A f \in HumanFills : f.kind = "HUMAN" /\ f.leg \in Legs /\ f.prior \in Nat
  /\ \A o \in Openings : o \in Seq({f \in Facts : f.leg \notin Legs})

VARIABLES
  effect,        \* effect[e]: state, whether claimed, acceptance set
  leg,           \* leg[l]: owner, attempt or closure status, pending, cum
  reserved,      \* reserved[l]: the CANCEL effect that reserves leg l
  exec,          \* the execution snapshot bound to the book
  human, broker, \* coverage intervals from attestations and broker fills
  cover,         \* cover[l]: frontier, canonical total, tail root
  total,         \* total[e]: canonical total over the effect's legs
  high,          \* high[l]: economic high water
  unresolved,    \* legs with a reconciliation record
  revised,       \* legs with an inexact canonical revision
  firstInput,    \* firstInput[k]: the first input that carried fact key k
  authority      \* authority[e]: the effect's stored contribution

vars == <<effect, leg, reserved, exec, human, broker, cover, total, high,
          unresolved, revised, firstInput, authority>>

Keys == {f.key : f \in HumanFills}
          \cup {i.fact.key : i \in FillInputs \cup RevisionInputs}
Cumulative == 0..MaxCumulative

EffectStates == {"NONE", "REQUESTED", "CANCELED_BEFORE_DISPATCH",
                 "DISPATCH_CLAIMED", "ACKNOWLEDGED", "REJECTED",
                 "OUTCOME_UNKNOWN", "NEEDS_REVIEW"}
Active == {"WORKING", "PARTIALLY_FILLED", "NEEDS_REVIEW"}
Rank == [WORKING |-> 0, PARTIALLY_FILLED |-> 1, NEEDS_REVIEW |-> 2]
PendingOps == {"NONE", "CANCEL", "REPLACE"}   \* SUBMIT behaves as REPLACE

NoLeg == [owner |-> None, status |-> "UNKNOWN", pending |-> "NONE", cum |-> 0]
NoItem == [input |-> None]
NoCover == [frontier |-> 0, total |-> 0, tail |-> None, inexact |-> FALSE]

Owned(e) == {l \in Legs : leg[l].owner = e}
IsActive(l) == leg[l].status \in Active
Closed(l) == leg[l].status = "CLOSED"

(***************************************************************************)
(* _derive_effect_authority_contribution: what an effect contributes to    *)
(* the symbol's authority summary.                                         *)
(***************************************************************************)
Derived(e) ==
  LET active   == {l \in Owned(e) : IsActive(l)}
      clean    == Owned(e) \cap unresolved = {}
      resolved == effect[e].acceptance = "CLOSED" /\ active = {} /\ clean
      local    == /\ effect[e].state = "REQUESTED"
                  /\ ~effect[e].claimed
                  /\ Owned(e) = {}
                  /\ clean
      buy      == Kind[e] # "CANCEL" /\ effect[e].side = "BUY" /\ ~resolved
      known(p) == {l \in active : /\ buy
                                  /\ effect[e].state = "ACKNOWLEDGED"
                                  /\ leg[l].status # "NEEDS_REVIEW"
                                  /\ leg[l].pending = p}
  IN  [blocking      |-> ~resolved,
       blockingBuy   |-> buy,
       unclaimed     |-> effect[e].state = "REQUESTED" /\ ~effect[e].claimed,
       exemptible    |-> local,
       standDown     |-> buy /\ local,
       cancellable   |-> known("NONE"),
       cancelPending |-> known("CANCEL"),
       waiting       |-> buy /\ ~local,
       unknown       |-> /\ buy /\ ~local
                         /\ known("NONE") = {} /\ known("CANCEL") = {}]

NoContribution == [blocking |-> FALSE, blockingBuy |-> FALSE,
                   unclaimed |-> FALSE, exemptible |-> FALSE,
                   standDown |-> FALSE, cancellable |-> {},
                   cancelPending |-> {}, waiting |-> FALSE, unknown |-> FALSE]

\* The end of _evolve: only the effects the transition names are refreshed.
Refresh(affected) ==
  authority' = [e \in Effects |-> IF e \in affected THEN Derived(e)'
                                                    ELSE authority[e]]

Init ==
  /\ effect = [e \in Effects |-> [state |-> "NONE", side |-> "BUY",
                                  claimed |-> FALSE, acceptance |-> "OPEN"]]
  /\ leg = [l \in Legs |-> NoLeg]
  /\ reserved = [l \in Legs |-> None]
  /\ \E o \in Openings : exec = Opening(o)
  /\ human = {} /\ broker = {}
  /\ cover = [l \in Legs |-> NoCover]
  /\ total = [e \in Effects |-> 0]
  /\ high = [l \in Legs |-> 0]
  /\ unresolved = {} /\ revised = {}
  /\ firstInput = [k \in Keys |-> NoItem]
  /\ authority = [e \in Effects |-> NoContribution]

evidence == <<exec, human, broker, cover, total, high, unresolved, revised,
              firstInput>>

(***************************************************************************)
(* Effects.                                                                *)
(***************************************************************************)
TargetIsExactActive_NoReservation(e, side, own) ==
  LET l == Target[e]
      t == leg[l].owner
  IN  /\ leg[l].status \in {"WORKING", "PARTIALLY_FILLED"}
      /\ leg[l].pending = "NONE"
      /\ effect[t].state = "ACKNOWLEDGED"
      /\ effect[t].side = side

\* _target_is_exact_active: the leg a CANCEL or REPLACE may name.  own is
\* the reservation the caller expects to find there.
TargetIsExactActive(e, side, own) ==
  LET l == Target[e]
      t == leg[l].owner
  IN  /\ leg[l].status \in {"WORKING", "PARTIALLY_FILLED"}
      /\ leg[l].pending = "NONE"
      /\ reserved[l] = own
      /\ effect[t].state = "ACKNOWLEDGED"
      /\ effect[t].side = side
      /\ Capacity[t] = Capacity[e]

Reserves(e) == /\ Kind[e] = "CANCEL"
               /\ effect[e].state \notin {"NONE", "CANCELED_BEFORE_DISPATCH", "REJECTED"}

\* _evolve_cancel_target_reservations after the effect's state changed.
ReserveTarget(e) ==
  reserved' = IF Kind[e] # "CANCEL" THEN reserved
              ELSE [reserved EXCEPT ![Target[e]] = IF Reserves(e)' THEN e ELSE None]

\* _register_effect
RequestEffect(e, side) ==
  /\ effect[e].state = "NONE"
  /\ Kind[e] # "SUBMIT" => TargetIsExactActive(e, side, None)
  /\ effect' = [effect EXCEPT ![e].state = "REQUESTED", ![e].side = side]
  /\ ReserveTarget(e)
  /\ UNCHANGED <<leg, evidence>>
  /\ Refresh({e})

\* _record_claim
RecordDispatchClaim(e) ==
  /\ effect[e].state = "REQUESTED"
  /\ ~effect[e].claimed
  /\ Kind[e] # "SUBMIT" =>
       TargetIsExactActive(e, effect[e].side, IF Kind[e] = "CANCEL" THEN e ELSE None)
  /\ effect' = [effect EXCEPT ![e].state = "DISPATCH_CLAIMED", ![e].claimed = TRUE]
  /\ UNCHANGED <<leg, reserved, evidence>>
  /\ Refresh({e})

CancelBeforeDispatch(e) ==
  /\ effect[e].state = "REQUESTED"
  /\ ~effect[e].claimed
  /\ effect' = [effect EXCEPT ![e].state = "CANCELED_BEFORE_DISPATCH"]
  /\ ReserveTarget(e)
  /\ UNCHANGED <<leg, evidence>>
  /\ Refresh({e})

\* _cancel_target_attempt_for_outcome: the outcome of a cancel shows on its
\* target while that is still an attempt.
CancelShows(e, outcome) ==
  leg' = IF Kind[e] = "CANCEL" /\ IsActive(Target[e])
         THEN [leg EXCEPT ![Target[e]].pending =
                 IF outcome \in {"ACKNOWLEDGED", "OUTCOME_UNKNOWN"} THEN "CANCEL"
                                                                   ELSE "NONE"]
         ELSE leg

CancelAffects_EffectOnly(e) == {e}

CancelAffects(e) ==
  {e} \cup IF Kind[e] = "CANCEL" /\ IsActive(Target[e]) THEN {leg[Target[e]].owner} ELSE {}

Outcomes == [DISPATCH_CLAIMED |-> {"ACKNOWLEDGED", "REJECTED", "OUTCOME_UNKNOWN"},
             OUTCOME_UNKNOWN  |-> {"ACKNOWLEDGED", "REJECTED", "NEEDS_REVIEW"}]

RecordTransportOutcome(e, outcome) ==
  /\ effect[e].state \in DOMAIN Outcomes
  /\ outcome \in Outcomes[effect[e].state]
  /\ effect' = [effect EXCEPT ![e].state = outcome]
  /\ ReserveTarget(e)
  /\ CancelShows(e, outcome)
  /\ UNCHANGED evidence
  /\ Refresh(CancelAffects(e))

\* RecoverClaimedEffect: a restart finds a claim without an outcome.
RecoverClaimedEffect(e) ==
  /\ effect[e].state = "DISPATCH_CLAIMED"
  /\ RecordTransportOutcome(e, "OUTCOME_UNKNOWN")

\* _close_acceptance_set: only a never-dispatched effect can be certified;
\* every external proof is refused (_external_acceptance_closure_is_certified).
CloseAcceptanceSet(e) ==
  /\ effect[e].acceptance = "OPEN"
  /\ \A l \in Owned(e) : ~IsActive(l)
  /\ effect[e].state = "CANCELED_BEFORE_DISPATCH"
  /\ ~effect[e].claimed
  /\ effect' = [effect EXCEPT ![e].acceptance = "CLOSED"]
  /\ UNCHANGED <<leg, reserved, evidence>>
  /\ Refresh({e})

(***************************************************************************)
(* Legs.                                                                   *)
(***************************************************************************)
\* _discover_leg: a leg found after the acceptance set was closed
\* contradicts the proof and invalidates it.
DiscoverVenueLeg(e, l) ==
  /\ Kind[e] # "CANCEL"
  /\ effect[e].state # "NONE"
  /\ leg[l].owner = None
  /\ effect[e].state \in {"REQUESTED", "CANCELED_BEFORE_DISPATCH", "REJECTED"}
       => effect[e].acceptance # "OPEN"
  /\ leg' = [leg EXCEPT ![l] = [owner |-> e, status |-> "WORKING",
                                pending |-> "NONE", cum |-> 0]]
  /\ effect' = [effect EXCEPT ![e].acceptance =
                  IF @ = "CLOSED" THEN "INVALIDATED" ELSE @]
  /\ UNCHANGED <<reserved, evidence>>
  /\ Refresh({e})

RecordPendingVenueOperation(l, op) ==
  /\ IsActive(l)
  /\ leg' = [leg EXCEPT ![l].pending = op]
  /\ UNCHANGED <<effect, reserved, evidence>>
  /\ Refresh({leg[l].owner})

\* _observe_status on an attempt: the cumulative never falls, the status
\* never goes back in precedence, a terminal status closes the leg.
ObserveVenueStatus(l, status, cum) ==
  /\ IsActive(l)
  /\ cum >= leg[l].cum
  /\ status \in Active => Rank[status] >= Rank[leg[l].status]
  /\ leg' = [leg EXCEPT ![l].status = status, ![l].cum = cum,
                        ![l].pending = IF status = "CLOSED" THEN "NONE" ELSE @]
  /\ UNCHANGED <<effect, reserved, evidence>>
  /\ Refresh({leg[l].owner})

\* _observe_status on a closed leg: only a terminal with a larger cumulative
\* extends the closure chain.
ObserveLaterTerminal(l, cum) ==
  /\ Closed(l)
  /\ cum > leg[l].cum
  /\ leg' = [leg EXCEPT ![l].cum = cum]
  /\ UNCHANGED <<effect, reserved, evidence>>
  /\ Refresh({leg[l].owner})

(***************************************************************************)
(* Evidence.  An input names its fact, the leg's cumulative interval and,  *)
(* for a closed leg, the closure that succeeds the current one.            *)
(***************************************************************************)
HeadIs(x, f) == \E i \in HeadAt(x, f.root) :
                  x.heads[i].cur = f.key /\ x.heads[i].qty = f.qty /\ x.heads[i].price = f.price

\* _advance_economic_high_water
AdvanceHighWater(l, f, cum) ==
  high' = [high EXCEPT ![l] = IF HeadIs(exec', f) THEN Max({@, cum}) ELSE @]

RetainFirstInput(item) ==
  firstInput' = [firstInput EXCEPT ![item.fact.key] = IF @ = NoItem THEN item ELSE @]

\* The cover of a leg and the total of its effect move together.
Cover(l, c) ==
  /\ cover' = [cover EXCEPT ![l] = c]
  /\ total' = [total EXCEPT ![leg[l].owner] = @ + c.total - cover[l].total]

AppendInterval(l, root, width, resulting) ==
  Cover(l, [cover[l] EXCEPT !.frontier = Max({@, resulting}),
                            !.total = @ + width, !.tail = root])

RaiseAttempt(l, cum) ==
  leg' = IF IsActive(l) THEN [leg EXCEPT ![l].cum = Max({@, cum})] ELSE leg

\* An economic input that is not yet an input of the book: the fact's leg is
\* owned by an effect of its side.
MatchesOwner(f) == /\ leg[f.leg].owner # None
                   /\ effect[leg[f.leg].owner].side = f.side

\* _apply_human_fill, a fact not seen before: an operator attests the next
\* uncovered interval of a leg and an effect under review.
IngestHumanAttestedFill(f) ==
  LET l == f.leg
      e == leg[l].owner
      t == ApplyFact(exec, f)
  IN  /\ MatchesOwner(f)
      /\ ~Seen(exec, f.key)
      /\ effect[e].state = "NEEDS_REVIEW"
      /\ leg[l].status = "NEEDS_REVIEW"
      /\ f.prior = cover[l].frontier
      /\ f.prior + f.qty <= Capacity[e]
      /\ total[e] + f.qty <= Capacity[e]
      /\ f.side = "SELL" => exec.raw >= f.qty
      /\ t.disp = "APPLIED"
      /\ exec' = t.x
      /\ human' = human \cup {[leg |-> l, root |-> f.root, prior |-> f.prior,
                               resulting |-> f.prior + f.qty, price |-> f.price,
                               key |-> None]}
      /\ AppendInterval(l, f.root, f.qty, f.prior + f.qty)
      /\ RaiseAttempt(l, f.prior + f.qty)
      /\ AdvanceHighWater(l, f, f.prior + f.qty)
      /\ RetainFirstInput([fact |-> f])
      /\ UNCHANGED <<effect, reserved, broker, unresolved, revised>>
      /\ Refresh({e})

\* _apply_human_fill, a key seen with other content: the conflict is latched before the
\* fact's owner is looked at.
HumanFillConflicts(f) ==
  /\ Seen(exec, f.key)
  /\ exec' = ApplyFact(exec, f).x
  /\ exec' # exec
  /\ UNCHANGED <<effect, leg, reserved, human, broker, cover, total, high,
                 unresolved, revised, firstInput, authority>>

ReleaseVenueLeg_Clears(l, filled) ==
  LET e == leg[l].owner IN
  /\ e # None
  /\ effect[e].state = "NEEDS_REVIEW"
  /\ leg[l].status = "NEEDS_REVIEW"
  /\ leg[l].cum = high[l]
  /\ leg' = [leg EXCEPT ![l].status = "CLOSED", ![l].pending = "NONE"]
  /\ exec' = [exec EXCEPT !.integrity = {}]
  /\ UNCHANGED <<effect, reserved, human, broker, cover, total, high,
                 unresolved, revised, firstInput>>
  /\ Refresh({e})

\* _apply_release: the operator closes a leg whose shares are all accounted for.
ReleaseVenueLeg(l, filled) ==
  LET e == leg[l].owner IN
  /\ e # None
  /\ effect[e].state = "NEEDS_REVIEW"
  /\ effect[e].acceptance # "INVALIDATED"
  /\ leg[l].status = "NEEDS_REVIEW"
  /\ leg[l].cum = high[l]
  /\ filled => cover[l].frontier = Capacity[e]
  /\ exec.integrity \cap {Conflict, Unreconciled} = {}
  /\ l \notin unresolved
  /\ leg' = [leg EXCEPT ![l].status = "CLOSED", ![l].pending = "NONE"]
  /\ UNCHANGED <<effect, reserved, evidence>>
  /\ Refresh({e})

\* _reconciliation: the fill is recorded without economics and the leg and
\* its effect stay in dispute.
Dispute(item) ==
  /\ exec' = RecordReconciliation(exec, item.fact).x
  /\ unresolved' = unresolved \cup {item.fact.leg}
  /\ AdvanceHighWater(item.fact.leg, item.fact, Max({item.prior, item.resulting}))
  /\ RetainFirstInput(item)
  /\ UNCHANGED <<effect, leg, reserved, human, broker, cover, total, revised>>
  /\ Refresh({leg[item.fact.leg].owner})

FillItem(i, closing) ==
  [fact |-> i.fact, prior |-> i.prior, resulting |-> i.resulting, closing |-> closing]

Fresh(item) == firstInput[item.fact.key] = NoItem

\* The seen fact identity carries changed attribution or evidence.
FillAttributionChanged(item) ==
  /\ MatchesOwner(item.fact)
  /\ ~Fresh(item)
  /\ firstInput[item.fact.key] # item
  /\ Dispute(item)

Attested(item) == {h \in human : /\ h.leg = item.fact.leg
                                 /\ h.prior = item.prior
                                 /\ h.resulting = item.resulting}

Width(item) == item.resulting - item.prior

\* The broker confirms the shares, the interval and the price an operator
\* attested: nothing is counted again.
Corroborates(item) ==
  /\ Attested(item) # {}
  /\ Width(item) = item.fact.qty
  /\ \A h \in Attested(item) : h.price = item.fact.price /\ h.key = None
  /\ RecordCorroboration(exec, item.fact).disp = "APPLIED"

FillCorroborates(item) ==
  /\ MatchesOwner(item.fact)
  /\ Fresh(item)
  /\ Corroborates(item)
  /\ exec' = RecordCorroboration(exec, item.fact).x
  /\ human' = {IF h \in Attested(item) THEN [h EXCEPT !.key = item.fact.key] ELSE h
               : h \in human}
  /\ AdvanceHighWater(item.fact.leg, item.fact, item.resulting)
  /\ RetainFirstInput(item)
  /\ UNCHANGED <<effect, leg, reserved, broker, cover, total, unresolved,
                 revised, authority>>

Mappable_Overlap(item) ==
  /\ Width(item) = item.fact.qty
  /\ item.closing <=> Closed(item.fact.leg)
  /\ ApplyFact(exec, item.fact).disp = "APPLIED"

\* The next uncovered interval of a leg, with a closure exactly for a closed
\* one, that the reducer admits.
Mappable(item) ==
  LET l == item.fact.leg IN
  /\ Attested(item) = {}
  /\ Width(item) = item.fact.qty
  /\ item.prior = cover[l].frontier
  /\ item.closing <=> Closed(l)
  /\ ApplyFact(exec, item.fact).disp = "APPLIED"

FillUnmappable(item) ==
  /\ MatchesOwner(item.fact)
  /\ Fresh(item)
  /\ ~Corroborates(item)
  /\ ~Mappable(item)
  /\ Dispute(item)

OverCapacity_Never(e, cum, all) == {}

\* Shares beyond the effect's capacity are recorded and quarantined.
OverCapacity(e, cum, all) ==
  IF cum > Capacity[e] \/ all > Capacity[e] THEN {Overfill} ELSE {}

FillApplies(item) ==
  LET f == item.fact
      l == f.leg
      e == leg[l].owner
  IN  /\ MatchesOwner(f)
      /\ Fresh(item)
      /\ Mappable(item)
      /\ exec' = Latch(ApplyFact(exec, f).x,
                       OverCapacity(e, item.resulting, total[e] + f.qty))
      /\ broker' = broker \cup {[leg |-> l, root |-> f.root, prior |-> item.prior,
                                 resulting |-> item.resulting, exact |-> TRUE]}
      /\ AppendInterval(l, f.root, f.qty, item.resulting)
      /\ RaiseAttempt(l, item.resulting)
      /\ AdvanceHighWater(l, f, item.resulting)
      /\ RetainFirstInput(item)
      /\ UNCHANGED <<effect, reserved, human, unresolved, revised>>
      /\ Refresh({e})

RecordBrokerFillEvidence(item) ==
  \/ FillAttributionChanged(item)
  \/ FillCorroborates(item)
  \/ FillUnmappable(item)
  \/ FillApplies(item)

(***************************************************************************)
(* Corrections and busts.  The input states the root's prior quantity and  *)
(* the leg's prior cumulative; the resulting one follows from them.        *)
(***************************************************************************)
RevisionItem(i, closing) ==
  [fact |-> i.fact, root |-> i.root, prior |-> i.prior,
   resulting |-> i.prior - i.root + i.fact.qty, closing |-> closing]

\* _revision_reconciliation: nothing of the revision is attributed.
DisputeRevision(item, x) ==
  /\ exec' = x
  /\ unresolved' = unresolved \cup {item.fact.leg}
  /\ AdvanceHighWater(item.fact.leg, item.fact, Max({item.prior, item.resulting}))
  /\ RetainFirstInput(item)
  /\ UNCHANGED <<effect, leg, reserved, human, broker, cover, total, revised>>
  /\ Refresh({leg[item.fact.leg].owner})

RevisionAttributionChanged(item) ==
  LET t == ApplyFact(exec, item.fact) IN
  /\ MatchesOwner(item.fact)
  /\ ~Fresh(item)
  /\ ~(t.disp = "EXACT_REPLAY" /\ firstInput[item.fact.key] = item)
  /\ DisputeRevision(item, IF t.disp = "EXACT_REPLAY"
                           THEN Latch(t.x, {Unreconciled}) ELSE t.x)

RevisionUnlinked(item) ==
  LET t == ApplyFact(exec, item.fact) IN
  /\ MatchesOwner(item.fact)
  /\ Fresh(item)
  /\ item.closing <=> Closed(item.fact.leg)
  /\ t.disp # "APPLIED"
  /\ DisputeRevision(item, t.x)

\* The revised root is the leg's last broker interval and the input's
\* figures are the book's: the interval can be resized exactly.
ExactMapping(item) ==
  LET f == item.fact
      l == f.leg
  IN  /\ \E i \in HeadAt(exec, f.root) : /\ ~exec.heads[i].human
                                         /\ exec.heads[i].cur = f.pred
                                         /\ exec.heads[i].qty = item.root
      /\ item.prior = cover[l].total
      /\ \E c \in broker : c.root = f.root /\ c.leg = l /\ c.exact
      /\ cover[l].tail = f.root
      /\ ~cover[l].inexact
      /\ l \notin revised

ResizeExactly(item) ==
  LET l == item.fact.leg
      c == CHOOSE b \in broker : b.root = item.fact.root
  IN  /\ broker' = (broker \ {c}) \cup {[c EXCEPT !.resulting = item.resulting]}
      /\ Cover(l, [cover[l] EXCEPT
                     !.total = @ + item.resulting - c.resulting,
                     !.frontier = IF item.resulting # c.resulting
                                  THEN item.resulting ELSE @])
      /\ UNCHANGED <<unresolved, revised>>

\* The economics stand, the interval does not: the leg's total is the
\* input's claim and the leg stays in dispute.
ResizeInexactly(item) ==
  LET l == item.fact.leg IN
  /\ broker' = {IF b.root = item.fact.root /\ b.leg = l
                THEN [b EXCEPT !.exact = FALSE] ELSE b : b \in broker}
  /\ Cover(l, [cover[l] EXCEPT
                 !.total = item.resulting,
                 !.inexact = @ \/ \E b \in broker : b.root = item.fact.root /\ b.leg = l])
  /\ unresolved' = unresolved \cup {l}
  /\ revised' = revised \cup {l}

RevisionApplies(item) ==
  LET f == item.fact
      l == f.leg
      e == leg[l].owner
      t == ApplyFact(exec, f)
  IN  /\ MatchesOwner(f)
      /\ Fresh(item)
      /\ item.closing <=> Closed(l)
      /\ t.disp = "APPLIED"
      /\ exec' = Latch(t.x, OverCapacity(e, item.resulting,
                                         total[e] - item.prior + item.resulting))
      /\ IF ExactMapping(item) THEN ResizeExactly(item) ELSE ResizeInexactly(item)
      /\ RaiseAttempt(l, item.resulting)
      /\ AdvanceHighWater(l, f, Max({item.prior, item.resulting}))
      /\ RetainFirstInput(item)
      /\ UNCHANGED <<effect, reserved, human>>
      /\ Refresh({e})

RecordBrokerRevisionEvidence(item) ==
  \/ RevisionAttributionChanged(item)
  \/ RevisionUnlinked(item)
  \/ RevisionApplies(item)

BrokerEvidence ==
  /\ Len(exec.seen) < MaxSeen
  /\ \E closing \in BOOLEAN :
       \/ \E i \in FillInputs : RecordBrokerFillEvidence(FillItem(i, closing))
       \/ \E i \in RevisionInputs : RecordBrokerRevisionEvidence(RevisionItem(i, closing))

OperatorEvidence ==
  \/ \E f \in HumanFills : Len(exec.seen) < MaxSeen /\ IngestHumanAttestedFill(f)
  \/ \E f \in HumanFills : HumanFillConflicts(f)
  \/ \E l \in Legs, filled \in BOOLEAN : ReleaseVenueLeg(l, filled)

Next ==
  \/ \E e \in Effects :
       \/ RecordDispatchClaim(e) \/ CancelBeforeDispatch(e)
       \/ RecoverClaimedEffect(e) \/ CloseAcceptanceSet(e)
       \/ \E side \in {"BUY", "SELL"} : RequestEffect(e, side)
       \/ \E o \in EffectStates : RecordTransportOutcome(e, o)
       \/ \E l \in Legs : DiscoverVenueLeg(e, l)
  \/ \E l \in Legs :
       \/ \E op \in PendingOps \ {"NONE"} : RecordPendingVenueOperation(l, op)
       \/ \E s \in Active \cup {"CLOSED"}, c \in Cumulative : ObserveVenueStatus(l, s, c)
       \/ \E c \in Cumulative : ObserveLaterTerminal(l, c)
  \/ BrokerEvidence
  \/ OperatorEvidence

Spec == Init /\ [][Next]_vars

(***************************************************************************)
(* Properties.                                                             *)
(***************************************************************************)
\* The shape of the book: an owned leg is an attempt or a closure, a
\* reservation names a CANCEL effect, the position is the sum of its heads.
TypeOK ==
  /\ \A e \in Effects : /\ effect[e].state \in EffectStates
                        /\ effect[e].acceptance \in {"OPEN", "CLOSED", "INVALIDATED"}
                        /\ total[e] \in Nat
  /\ \A l \in Legs : /\ leg[l].owner \in Effects \cup {None}
                     /\ leg[l].owner # None <=> leg[l].status \in Active \cup {"CLOSED"}
                     /\ reserved[l] \in Effects \cup {None}
                     /\ cover[l].frontier \in Nat /\ cover[l].total \in Nat
  /\ unresolved \subseteq Legs /\ revised \subseteq unresolved
  /\ exec.integrity \subseteq {Conflict, Unreconciled, Overfill}

\* After any mix of fills, corrections, busts and attestations, out of order
\* and redelivered, the quantity is the sum of the effective heads, and an
\* AVAILABLE basis is the one derive_ordered_basis_candidate computes from
\* scratch; a short position has been quarantined.
BasisIsFold ==
  LET d == OrderedBasis(exec.heads) IN
  /\ exec.raw = d.raw
  /\ exec.basis # Pending => d.ok /\ exec.basis = d.basis
  /\ exec.raw < 0 => Overfill \in exec.integrity

\* The shares of a leg that the position's heads hold.
Shares(x, l) ==
  LET own == {i \in DOMAIN x.heads : x.heads[i].leg = l}
  IN  SumFunctionOnSet([i \in own |-> x.heads[i].qty], own)

\* A share enters the position once, whoever reported it: the heads of a leg
\* that is not in dispute add up to its canonical total and to its coverage
\* frontier, and an effect's total is that of its legs.
SharesCountedOnce ==
  /\ \A l \in Legs \ unresolved :
       cover[l].total = Shares(exec, l) /\ cover[l].frontier = cover[l].total
  /\ \A e \in Effects :
       total[e] = SumFunctionOnSet([l \in Owned(e) |-> cover[l].total], Owned(e))

\* Shares beyond an effect's capacity leave the overfill quarantine latched,
\* unless the leg that carries them is in dispute.
OverCapacityIsQuarantined ==
  \A e \in Effects :
    total[e] > Capacity[e] /\ Owned(e) \cap unresolved = {} => Overfill \in exec.integrity

\* bind_venue_execution_snapshot after a restart: a registry that replays at
\* all replays to the retained position, heads, basis and tail proof, and
\* clears no integrity latch.
RestartReproduces ==
  LET r == Replay(exec.seen) IN r.ok => HydrationMatches(exec, r.x)

\* "Bind restart state against independently retained reconciliation
\* authority": every registry the book records can be replayed.
RestartIsAccepted == Replay(exec.seen).ok

\* The incremental summary is what _rebuild_authority_indexes computes, and
\* venue work is never forgotten: an effect that was claimed, or owns a leg
\* that is still working or in dispute, blocks the symbol, also when the leg
\* is found after the acceptance set was closed.
VenueWorkBlocks ==
  \A e \in Effects :
    effect[e].state # "NONE" =>
      /\ authority[e] = Derived(e)
      /\ \/ effect[e].claimed
         \/ \E l \in Owned(e) : IsActive(l) \/ l \in unresolved
         => authority[e].blocking

\* At most one cancel of a leg may be at the venue or on its way there, and
\* it is the one that holds the leg's reservation.
OneCancelPerLeg ==
  \A l \in Legs :
    {e \in Effects : Reserves(e) /\ Target[e] = l}
      = IF reserved[l] = None THEN {} ELSE {reserved[l]}
=============================================================================
