------------------------ MODULE VenueRecoveryProofs -------------------------
(***************************************************************************)
(* For any effects, legs, evidence and opening position: a leg has at most *)
(* one cancel on its way, the incremental authority summary is the one a   *)
(* rebuild computes and claimed or working effects block the symbol,       *)
(* shares beyond an effect's capacity are quarantined, the position is the *)
(* fold of its heads, the book's totals are the shares those heads hold,   *)
(* and replaying the registry gives the position back.                     *)
(*                                                                         *)
(* IInv is the invariant of the book.  The summary and the cancels follow  *)
(* the effect an input names; the quarantine follows the last broker       *)
(* interval of a leg, which ends where the leg's canonical total ends      *)
(* while the leg is not in dispute, so that resizing it moves the total by *)
(* what the capacity check assumed.                                        *)
(*                                                                         *)
(* PositionInv is the invariant of the position, on top of IInv.  Sound is *)
(* about the position alone and every fact, reconciliation, corroboration  *)
(* and latch keeps it: the quantity is that of the folded heads, the tail  *)
(* proof is the fold of all heads but the last, and a replay differs from  *)
(* the position in latches at most.  Its other parts relate the position   *)
(* to the book's coverage.  ShapeInv adds what TypeOK needs.               *)
(***************************************************************************)
EXTENDS VenueRecovery, SumLemmas, TLAPS

Roots == {f.root : f \in Facts}

\* The snapshots the reducer makes of the facts.
Heads ==
  [root : Roots, leg : {f.leg : f \in Facts}, side : {"BUY", "SELL"},
   human : BOOLEAN, cur : {f.key : f \in Facts}, qty : Nat, price : Nat]

IsSnapshot(x) ==
  /\ DOMAIN x = DOMAIN Flat
  /\ x.raw \in Int
  /\ x.heads \in Seq(Heads)
  /\ x.integrity \subseteq {Conflict, Unreconciled, Overfill}

Classes ==
  {"APPLIED_PENDING_OVERFILL", "APPLIED_BASIS_PENDING", "APPLIED_AVAILABLE",
   "APPLIED_OVERFILL_QUARANTINE", "RECONCILIATION_REQUIRED",
   "CORROBORATED_ZERO_ECONOMIC"}

Registered(x) == x.seen \in Seq([fact : Facts, class : Classes])

\* The quantity is that of the folded heads, the basis theirs while there is
\* one, and the tail proof is the fold of all heads but the last.
FoldsHeads(x) ==
  LET n == Len(x.heads)
      d == OrderedBasis(x.heads)
      p == OrderedBasis(SubSeq(x.heads, 1, n - 1))
  IN  /\ x.raw = d.raw
      /\ x.basis # Pending => d.ok /\ x.basis = d.basis /\ x.meta = d.meta
      /\ x.tail # NoTail =>
           /\ n > 0 /\ p.ok
           /\ x.tail = [root |-> x.heads[n].root, raw |-> p.raw,
                        basis |-> p.basis, meta |-> p.meta]

ShortIsLatched(x) == x.raw < 0 => Overfill \in x.integrity

OneHeadPerRoot(x) ==
  \A i, j \in DOMAIN x.heads : x.heads[i].root = x.heads[j].root => i = j

\* Equal positions, and equal but for the latches that y lacks.
SameEconomics(x, y) ==
  /\ DOMAIN y = DOMAIN Flat
  /\ y.raw = x.raw /\ y.basis = x.basis /\ y.meta = x.meta
  /\ y.heads = x.heads /\ y.tail = x.tail

SamePosition(x, y) ==
  /\ SameEconomics(x, y)
  /\ y.seen = x.seen
  /\ y.integrity \subseteq x.integrity

Replays(x) == LET r == Replay(x.seen) IN r.ok => SamePosition(x, r.x)

Sound(x) ==
  /\ IsSnapshot(x)
  /\ Registered(x)
  /\ FoldsHeads(x)
  /\ ShortIsLatched(x)
  /\ OneHeadPerRoot(x)
  /\ Replays(x)

EffectRecord ==
  [state : EffectStates, side : {"BUY", "SELL"}, claimed : BOOLEAN,
   acceptance : {"OPEN", "CLOSED", "INVALIDATED"}]

LegRecord ==
  [owner : Effects \cup {None}, status : Active \cup {"CLOSED", "UNKNOWN"},
   pending : PendingOps, cum : Nat]

CoverRecord ==
  [frontier : Int, total : Int, tail : Roots \cup {None}, inexact : BOOLEAN]

BrokerRecord ==
  [leg : Legs, root : Roots, prior : Nat, resulting : Nat, exact : BOOLEAN]

EffectTypes == /\ effect \in [Effects -> EffectRecord]
               /\ reserved \in [Legs -> Effects \cup {None}]
LegTypes == leg \in [Legs -> LegRecord] /\ unresolved \subseteq Legs
CoverTypes == /\ cover \in [Legs -> CoverRecord]
              /\ total \in [Effects -> Int]
              /\ broker \subseteq BrokerRecord
ExecTypes == IsSnapshot(exec)

\* An effect that reserves a leg is the one the leg names, and the other way.
ReservationsMatch ==
  /\ \A e \in Effects : Reserves(e) => reserved[Target[e]] = e
  /\ \A l \in Legs : reserved[l] # None =>
       Reserves(reserved[l]) /\ Target[reserved[l]] = l

\* Only an effect that never left has a certified acceptance set.
ClosedWasNeverSent ==
  \A e \in Effects :
    /\ effect[e].claimed =>
         effect[e].state \notin {"NONE", "REQUESTED", "CANCELED_BEFORE_DISPATCH"}
    /\ effect[e].acceptance = "CLOSED" =>
         effect[e].state = "CANCELED_BEFORE_DISPATCH"

SummaryIsDerived ==
  \A e \in Effects : effect[e].state # "NONE" => authority[e] = Derived(e)

\* A broker interval belongs to a root of the position, one per root.
OneIntervalPerRoot ==
  /\ \A b \in broker : HeadAt(exec, b.root) # {}
  /\ \A b, c \in broker : b.root = c.root => b = c

\* The coverage of a leg that is not in dispute ends where its total does,
\* and so does its last broker interval.
TailEndsAtTotal ==
  \A l \in Legs \ unresolved :
    /\ cover[l].frontier = cover[l].total
    /\ \A b \in broker : b.leg = l /\ b.root = cover[l].tail
                           => b.resulting = cover[l].total

IInv ==
  /\ EffectTypes
  /\ LegTypes
  /\ CoverTypes
  /\ ExecTypes
  /\ ReservationsMatch
  /\ ClosedWasNeverSent
  /\ SummaryIsDerived
  /\ OneIntervalPerRoot
  /\ TailEndsAtTotal
  /\ OverCapacityIsQuarantined

\* What SharesCountedOnce needs: a leg without an owner covers nothing.
CoverHoldsShares ==
  \A l \in Legs \ unresolved : cover[l].total = Shares(exec, l)

TotalsAddUp ==
  \A e \in Effects :
    total[e] = SumFunctionOnSet([l \in Owned(e) |-> cover[l].total], Owned(e))

UnownedIsUncovered == \A l \in Legs : leg[l].owner = None => cover[l].total = 0

PositionInv ==
  /\ Sound(exec)
  /\ CoverHoldsShares
  /\ TotalsAddUp
  /\ UnownedIsUncovered


\* What TypeOK needs beyond the types of IInv.  TailEndsUnlessRevised is
\* TailEndsAtTotal for the legs of recorded disputes as well: only an inexact
\* revision parts a leg's last interval from its total.
OwnedIffKnown ==
  \A l \in Legs : leg[l].owner # None <=> leg[l].status \in Active \cup {"CLOSED"}

CoverIsNat == \A l \in Legs : cover[l].frontier \in Nat /\ cover[l].total \in Nat

TailEndsUnlessRevised ==
  \A l \in Legs \ revised :
    /\ cover[l].frontier = cover[l].total
    /\ \A b \in broker : b.leg = l /\ b.root = cover[l].tail
                           => b.resulting = cover[l].total

ShapeInv ==
  /\ OwnedIffKnown
  /\ CoverIsNat
  /\ TailEndsUnlessRevised
  /\ revised \subseteq unresolved
----------------------------------------------------------------------------
(* The reducer keeps snapshots: it clears no latch and forgets no root.    *)

Grown(x, y) ==
  /\ IsSnapshot(y)
  /\ x.integrity \subseteq y.integrity
  /\ \A r \in Roots : HeadAt(x, r) # {} => HeadAt(y, r) # {}

\* The larger of two numbers.
LEMMA MaxOfTwo ==
  ASSUME NEW a \in Int, NEW b \in Int
  PROVE  Max({a, b}) = IF a >= b THEN a ELSE b
<1> DEFINE m == IF a >= b THEN a ELSE b
<1>1. m \in {a, b} /\ \A y \in {a, b} : m >= y
  OBVIOUS
<1>2. \A x \in {a, b} : (\A y \in {a, b} : x >= y) => x = m
  OBVIOUS
<1> QED BY <1>1, <1>2 DEF Max

\* The fields of a snapshot.
LEMMA SnapshotFields ==
  ASSUME NEW x, IsSnapshot(x)
  PROVE  DOMAIN x = {"raw", "basis", "meta", "tail", "heads", "integrity", "seen"}
BY DEF IsSnapshot, Flat

\* Appending to the registry leaves the position alone.
LEMMA ObservedGrows ==
  ASSUME NEW x, IsSnapshot(x), NEW f, NEW c
  PROVE  /\ Grown(x, Observed(x, f, c))
         /\ Observed(x, f, c).heads = x.heads
         /\ Observed(x, f, c).raw = x.raw
         /\ Observed(x, f, c).basis = x.basis
<1> DEFINE v == Append(x.seen, [fact |-> f, class |-> c])
<1> DEFINE y == [x EXCEPT !.seen = v]
<1>1. Observed(x, f, c) = y
  BY DEF Observed
<1> HIDE DEF v
<1>2. /\ DOMAIN y = DOMAIN x /\ y.heads = x.heads /\ y.raw = x.raw
      /\ y.integrity = x.integrity /\ y.basis = x.basis
  BY SnapshotFields
<1> HIDE DEF y
<1> QED BY <1>1, <1>2 DEF Grown, IsSnapshot, HeadAt

\* Latching evidence adds to the integrity and nothing else.
LEMMA LatchGrows ==
  ASSUME NEW x, IsSnapshot(x), NEW s \in SUBSET {Conflict, Unreconciled, Overfill}
  PROVE  /\ Grown(x, Latch(x, s))
         /\ Latch(x, s).heads = x.heads
         /\ s \subseteq Latch(x, s).integrity
<1> DEFINE v == x.integrity \cup s
<1> DEFINE y == [x EXCEPT !.integrity = v]
<1>1. Latch(x, s) = y
  BY DEF Latch
<1>0. /\ v \subseteq {Conflict, Unreconciled, Overfill}
      /\ x.integrity \subseteq v /\ s \subseteq v
  BY DEF IsSnapshot
<1> HIDE DEF v
<1>2. /\ DOMAIN y = DOMAIN x /\ y.heads = x.heads /\ y.raw = x.raw
      /\ y.integrity = v
  BY SnapshotFields
<1> HIDE DEF y
<1> QED BY <1>0, <1>1, <1>2 DEF Grown, IsSnapshot, HeadAt

\* Growth adds up.
LEMMA GrownTransitive ==
  ASSUME NEW x, NEW y, NEW z, Grown(x, y), Grown(y, z)
  PROVE  Grown(x, z)
BY DEF Grown

\* A snapshot has grown from itself.
LEMMA GrownReflexive ==
  ASSUME NEW x, IsSnapshot(x)
  PROVE  Grown(x, x)
BY DEF Grown

\* A fact that could not be placed is recorded without economics.
LEMMA ReconcileGrows ==
  ASSUME NEW x, IsSnapshot(x), NEW f
  PROVE  /\ Grown(x, Reconcile(x, f).x)
         /\ Reconcile(x, f).disp = "RECONCILIATION_REQUIRED"
<1> DEFINE y == Observed(x, f, "RECONCILIATION_REQUIRED")
<1>1. Grown(x, y)
  BY ObservedGrows
<1>2. Reconcile(x, f) = Transition(Latch(y, {Unreconciled}),
             "RECONCILIATION_REQUIRED", "RECONCILIATION_REQUIRED")
  BY DEF Reconcile
<1> HIDE DEF y
<1>3. Grown(y, Latch(y, {Unreconciled}))
  BY <1>1, LatchGrows DEF Grown
<1> QED BY <1>1, <1>2, <1>3, GrownTransitive DEF Transition

\* An applied fact is observed, and a short position quarantined.
LEMMA EconomicGrows ==
  ASSUME NEW x, IsSnapshot(x), NEW f
  PROVE  Grown(x, Economic(x, f).x) /\ Economic(x, f).x.heads = x.heads
<1> DEFINE c == Classification(x.basis = Pending, x.raw)
           s == IF x.raw < 0 THEN {Overfill} ELSE {}
           y == Observed(x, f, c)
<1>1. Grown(x, y) /\ y.heads = x.heads
  BY ObservedGrows
<1>2. Economic(x, f) = Transition(Latch(y, s), "APPLIED", c)
  BY DEF Economic
<1>3. s \in SUBSET {Conflict, Unreconciled, Overfill}
  OBVIOUS
<1> HIDE DEF y, s, c
<1>4. Grown(y, Latch(y, s)) /\ Latch(y, s).heads = y.heads
  BY <1>1, <1>3, LatchGrows DEF Grown
<1> QED BY <1>1, <1>2, <1>4, GrownTransitive DEF Transition

\* The first fact of a root adds a head, unless the root is known.
LEMMA RootFillGrows ==
  ASSUME NEW x, IsSnapshot(x), NEW f \in Facts
  PROVE  /\ Grown(x, ApplyRootFill(x, f).x)
         /\ ApplyRootFill(x, f).disp = "APPLIED" =>
              /\ HeadAt(x, f.root) = {}
              /\ HeadAt(ApplyRootFill(x, f).x, f.root) # {}
<1> DEFINE folds == x.basis # Pending /\ MetadataAccepts(x.meta, f.price)
           head  == [root |-> f.root, leg |-> f.leg, side |-> f.side,
                     human |-> f.kind = "HUMAN", cur |-> f.key,
                     qty |-> f.qty, price |-> f.price]
           raw   == x.raw + Signed(f.side, f.qty)
           heads == Append(x.heads, head)
           basis == IF folds THEN FoldBasis(x.raw, x.basis, f.side, f.qty, f.price)
                             ELSE Pending
           meta  == IF folds THEN NextMetadata(x.meta, f.price) ELSE NoPrice
           tail  == IF folds THEN [root |-> f.root, raw |-> x.raw,
                                   basis |-> x.basis, meta |-> x.meta]
                             ELSE NoTail
           next  == [x EXCEPT !.raw = raw, !.heads = heads, !.basis = basis,
                              !.meta = meta, !.tail = tail]
<1>1. ApplyRootFill(x, f) = IF HeadAt(x, f.root) # {} \/ ObservedRoot(x, f.root)
                            THEN Reconcile(x, f) ELSE Economic(next, f)
  BY DEF ApplyRootFill, Filled, HeadOf
<1>2. head \in Heads /\ head.root = f.root
  BY InputAssumption DEF Heads, Roots
<1>3. raw \in Int
  BY InputAssumption DEF IsSnapshot, Signed
<1>4. x.heads \in Seq(Heads)
  BY DEF IsSnapshot
<1> HIDE DEF head, raw, basis, meta, tail
<1>5. /\ heads \in Seq(Heads)
      /\ DOMAIN heads = 1..(Len(x.heads) + 1)
      /\ DOMAIN x.heads = 1..Len(x.heads) /\ Len(x.heads) \in Nat
      /\ \A i \in 1..Len(x.heads) : heads[i] = x.heads[i]
      /\ heads[Len(x.heads) + 1] = head
  BY <1>2, <1>4
<1> HIDE DEF heads
<1>6. /\ DOMAIN next = DOMAIN x /\ next.heads = heads /\ next.raw = raw
      /\ next.integrity = x.integrity
  BY SnapshotFields
<1> HIDE DEF next
<1>7. IsSnapshot(next)
  BY <1>3, <1>5, <1>6 DEF IsSnapshot
<1>8. \A r \in Roots : HeadAt(x, r) # {} => HeadAt(next, r) # {}
  BY <1>5, <1>6 DEF HeadAt
<1>9. HeadAt(next, f.root) # {}
  <2>1. Len(x.heads) + 1 \in DOMAIN next.heads
    BY <1>5, <1>6
  <2> QED BY <2>1, <1>2, <1>5, <1>6 DEF HeadAt
<1>10. Grown(x, next)
  BY <1>6, <1>7, <1>8 DEF Grown
<1>11. Grown(next, Economic(next, f).x) /\ Economic(next, f).x.heads = next.heads
  BY <1>7, EconomicGrows
<1>12. CASE HeadAt(x, f.root) # {} \/ ObservedRoot(x, f.root)
  BY <1>1, <1>12, ReconcileGrows
<1>13. CASE ~(HeadAt(x, f.root) # {} \/ ObservedRoot(x, f.root))
  <2>1. ApplyRootFill(x, f) = Economic(next, f)
    BY <1>1, <1>13
  <2>2. Grown(x, Economic(next, f).x)
    BY <1>10, <1>11, GrownTransitive
  <2>3. HeadAt(Economic(next, f).x, f.root) = HeadAt(next, f.root)
    BY <1>11 DEF HeadAt
  <2> QED BY <1>9, <1>13, <2>1, <2>2, <2>3
<1> QED BY <1>12, <1>13

\* The last head of a root that has one.
LEMMA LastHead ==
  ASSUME NEW x, IsSnapshot(x), NEW r, HeadAt(x, r) # {}
  PROVE  Max(HeadAt(x, r)) \in HeadAt(x, r)
<1>1. DOMAIN x.heads = 1..Len(x.heads) /\ Len(x.heads) \in Nat
  BY DEF IsSnapshot
<1> DEFINE n == Len(x.heads)
           H == HeadAt(x, r)
           T == {n - k : k \in H}
<1>2. H \subseteq 1..n
  BY <1>1 DEF HeadAt
<1> HIDE DEF H, n
<1>3. T \in SUBSET Nat /\ T # {}
  BY <1>1, <1>2 DEF H, n
<1>4. PICK m \in T : \A k \in T : m <= k
  <2> HIDE DEF T
  <2> QED BY <1>3, LeastNat
<1>5. PICK k \in H : m = n - k
  BY <1>4
<1>6. ASSUME NEW j \in H PROVE k >= j
  <2>1. n - j \in T /\ n \in Nat /\ j \in Nat /\ k \in Nat
    BY <1>1, <1>2, <1>5 DEF n
  <2>2. n - k <= n - j
    BY <1>4, <1>5, <2>1
  <2> QED BY <2>1, <2>2
<1> QED BY <1>5, <1>6 DEF Max, H

\* A revision edits the head it names.
LEMMA RevisionGrows ==
  ASSUME NEW x, IsSnapshot(x), NEW f \in Facts
  PROVE  Grown(x, ApplyRevision(x, f).x)
<1> DEFINE i     == Max(HeadAt(x, f.root))
           h     == x.heads[i]
           folds == Refolds(x, i, f.price)
           raw   == x.raw + Signed(h.side, f.qty - h.qty)
           basis == IF folds THEN FoldBasis(x.tail.raw, x.tail.basis, h.side,
                                            f.qty, f.price)
                             ELSE Pending
           meta  == IF folds THEN NextMetadata(x.tail.meta, f.price) ELSE NoPrice
           tail  == IF folds THEN x.tail ELSE NoTail
           new   == [h EXCEPT !.cur = f.key, !.qty = f.qty, !.price = f.price]
           heads == [x.heads EXCEPT ![i] = new]
           next  == [x EXCEPT !.raw = raw, !.heads = heads, !.basis = basis,
                              !.meta = meta, !.tail = tail]
<1>1. ApplyRevision(x, f) = IF Revisable(x, f) THEN Economic(next, f) ELSE Reconcile(x, f)
  BY SnapshotFields DEF ApplyRevision, Revised, RevisedHead
<1>2. CASE ~Revisable(x, f)
  BY <1>1, <1>2, ReconcileGrows
<1>3. CASE Revisable(x, f)
  <2>1. HeadAt(x, f.root) # {}
    BY <1>3 DEF Revisable
  <2>2. i \in HeadAt(x, f.root)
    BY <2>1, LastHead
  <2>3. /\ x.heads \in Seq(Heads) /\ DOMAIN x.heads = 1..Len(x.heads)
        /\ Len(x.heads) \in Nat /\ i \in DOMAIN x.heads
    BY <2>2 DEF IsSnapshot, HeadAt
  <2> HIDE DEF i
  <2>4. h \in Heads
    BY <2>3
  <2>5. new \in Heads /\ new.root = h.root
    BY <2>4, InputAssumption DEF Heads
  <2>6. raw \in Int
    <3>1. h.qty \in Int /\ f.qty \in Int /\ x.raw \in Int
      BY <2>4, InputAssumption DEF Heads, IsSnapshot
    <3> HIDE DEF h
    <3> QED BY <3>1 DEF Signed
  <2> HIDE DEF new, raw, basis, meta, tail
  <2>7. /\ heads \in Seq(Heads) /\ DOMAIN heads = DOMAIN x.heads
        /\ \A j \in DOMAIN x.heads : heads[j].root = x.heads[j].root
    BY <2>3, <2>5
  <2> HIDE DEF heads
  <2>8. /\ DOMAIN next = DOMAIN x /\ next.heads = heads /\ next.raw = raw
        /\ next.integrity = x.integrity
    BY SnapshotFields
  <2> HIDE DEF next
  <2>9. IsSnapshot(next)
    BY <2>6, <2>7, <2>8 DEF IsSnapshot
  <2>10. Grown(x, next)
    BY <2>7, <2>8, <2>9 DEF Grown, HeadAt
  <2>11. Grown(next, Economic(next, f).x)
    BY <2>9, EconomicGrows
  <2> QED BY <1>1, <1>3, <2>10, <2>11, GrownTransitive
<1> QED BY <1>2, <1>3

\* Whatever a fact is applied to, the position only grows; an applied root
\* fill is the first of its root.
LEMMA ApplyFactGrows ==
  ASSUME NEW x, IsSnapshot(x), NEW f \in Facts
  PROVE  /\ Grown(x, ApplyFact(x, f).x)
         /\ f.kind \in RootKinds /\ ApplyFact(x, f).disp = "APPLIED" =>
              /\ HeadAt(x, f.root) = {}
              /\ HeadAt(ApplyFact(x, f).x, f.root) # {}
<1>1. CASE Seen(x, f.key)
  <2> DEFINE first == FirstObservation(x, f.key)
  <2>1. ApplyFact(x, f) = IF first.fact = f
           THEN Transition(x, "EXACT_REPLAY", first.class)
           ELSE Transition(Latch(x, {Conflict}), "FACT_CONFLICT", first.class)
    BY <1>1 DEF ApplyFact
  <2> HIDE DEF first
  <2>2. Grown(x, x) /\ Grown(x, Latch(x, {Conflict}))
    BY GrownReflexive, LatchGrows
  <2> QED BY <2>1, <2>2 DEF Transition
<1>2. CASE ~Seen(x, f.key) /\ f.kind \in RootKinds
  <2>1. ApplyFact(x, f) = ApplyRootFill(x, f)
    BY <1>2 DEF ApplyFact
  <2> QED BY <2>1, RootFillGrows
<1>3. CASE ~Seen(x, f.key) /\ f.kind \notin RootKinds
  <2>1. ApplyFact(x, f) = ApplyRevision(x, f)
    BY <1>3 DEF ApplyFact
  <2> QED BY <1>3, <2>1, RevisionGrows
<1> QED BY <1>1, <1>2, <1>3

\* So it does when a fill cannot be placed.
LEMMA RecordReconciliationGrows ==
  ASSUME NEW x, IsSnapshot(x), NEW f \in Facts
  PROVE  Grown(x, RecordReconciliation(x, f).x)
<1>1. CASE ~Seen(x, f.key)
  BY <1>1, ReconcileGrows DEF RecordReconciliation
<1>2. CASE Seen(x, f.key)
  <2> DEFINE first == FirstObservation(x, f.key)
  <2>1. RecordReconciliation(x, f) = IF first.fact = f
           THEN Transition(Latch(x, {Unreconciled}),
                           "RECONCILIATION_REQUIRED", first.class)
           ELSE Transition(Latch(x, {Unreconciled, Conflict}),
                           "FACT_CONFLICT", first.class)
    BY <1>2 DEF RecordReconciliation
  <2> HIDE DEF first
  <2>2. Grown(x, Latch(x, {Unreconciled})) /\ Grown(x, Latch(x, {Unreconciled, Conflict}))
    BY LatchGrows
  <2> QED BY <2>1, <2>2 DEF Transition
<1> QED BY <1>1, <1>2

\* So it does when the broker corroborates an attestation.
LEMMA RecordCorroborationGrows ==
  ASSUME NEW x, IsSnapshot(x), NEW f \in Facts
  PROVE  Grown(x, RecordCorroboration(x, f).x)
<1>1. CASE Seen(x, f.key)
  <2> DEFINE first == FirstObservation(x, f.key)
  <2>1. RecordCorroboration(x, f) = IF first.fact = f
           THEN Transition(x, "EXACT_REPLAY", first.class)
           ELSE Transition(Latch(x, {Conflict}), "FACT_CONFLICT", first.class)
    BY <1>1 DEF RecordCorroboration
  <2> HIDE DEF first
  <2>2. Grown(x, x) /\ Grown(x, Latch(x, {Conflict}))
    BY GrownReflexive, LatchGrows
  <2> QED BY <2>1, <2>2 DEF Transition
<1>2. CASE ~Seen(x, f.key) /\ ObservedRoot(x, f.root)
  BY <1>2, RecordReconciliationGrows DEF RecordCorroboration
<1>3. CASE ~Seen(x, f.key) /\ ~ObservedRoot(x, f.root)
  BY <1>3, ObservedGrows DEF RecordCorroboration, Transition
<1> QED BY <1>1, <1>2, <1>3

----------------------------------------------------------------------------
(* The folds, and the position as the fold of its heads.                   *)

ByHead == INSTANCE FoldLemmas WITH Op <- FoldHead, Base <- NothingFolded
ByFact == INSTANCE FoldLemmas WITH Op <- ReplayOne, Base <- NothingReplayed
ByOpening == INSTANCE FoldLemmas WITH Op <- Opened, Base <- Flat

\* The basis of the heads is the fold of FoldLemmas.
LEMMA BasisIsAFold == \A s : OrderedBasis(s) = ByHead!Fold(s)
BY DEF OrderedBasis, ByHead!Fold, FoldLeft, ByHead!FoldLeft, MapThenFoldSet,
       ByHead!MapThenFoldSet, Max, ByHead!Max

\* Replaying the observations is the fold of FoldLemmas (recovery.py 1357-1407).
LEMMA ReplayIsAFold == \A s : Replay(s) = ByFact!Fold(s)
BY DEF Replay, ByFact!Fold, FoldLeft, ByFact!FoldLeft, MapThenFoldSet,
       ByFact!MapThenFoldSet, Max, ByFact!Max

\* So is applying the facts a book is opened with.
LEMMA OpeningIsAFold == \A s : Opening(s) = ByOpening!Fold(s)
BY DEF Opening, ByOpening!Fold, FoldLeft, ByOpening!FoldLeft, MapThenFoldSet,
       ByOpening!MapThenFoldSet, Max, ByOpening!Max

\* The basis of no heads, and of one head more.
LEMMA BasisEmpty == OrderedBasis(<< >>) = NothingFolded
BY BasisIsAFold, ByHead!FoldEmpty

\* The basis of one more head is one step from that of the others (_fold_one).
LEMMA BasisAppend ==
  ASSUME NEW S, NEW hs \in Seq(S), NEW h \in S
  PROVE  OrderedBasis(Append(hs, h)) = FoldHead(OrderedBasis(hs), h)
BY BasisIsAFold, ByHead!FoldAppend

\* The basis of a prefix, from that of the prefix before.
LEMMA BasisPrefix ==
  ASSUME NEW S, NEW hs \in Seq(S), NEW n \in 1..Len(hs)
  PROVE  OrderedBasis(SubSeq(hs, 1, n)) = FoldHead(OrderedBasis(SubSeq(hs, 1, n - 1)), hs[n])
<1>1. ByHead!Fold(SubSeq(hs, 1, n)) = FoldHead(ByHead!Fold(SubSeq(hs, 1, n - 1)), hs[n])
  BY ByHead!FoldPrefix
<1> QED BY <1>1, BasisIsAFold

\* The basis is that of all heads but the last, and the last.
LEMMA BasisLast ==
  ASSUME NEW S, NEW hs \in Seq(S), hs # << >>
  PROVE  OrderedBasis(hs) = FoldHead(OrderedBasis(SubSeq(hs, 1, Len(hs) - 1)), hs[Len(hs)])
<1>1. Len(hs) \in 1..Len(hs) /\ SubSeq(hs, 1, Len(hs)) = hs
  OBVIOUS
<1> QED BY <1>1, BasisPrefix

\* The quantity of a head.
LEMMA HeadQuantity ==
  ASSUME NEW h \in Heads
  PROVE  h.qty \in Int /\ h.side \in {"BUY", "SELL"} /\ Signed(h.side, h.qty) \in Int
BY DEF Heads, Signed

\* Nothing folded, no shares.
LEMMA FlatRaw == NothingFolded.raw = 0
BY DEF NothingFolded

\* The quantity of every prefix is an integer.
LEMMA BasisRaw ==
  ASSUME NEW hs \in Seq(Heads), NEW n \in 0..Len(hs)
  PROVE  OrderedBasis(SubSeq(hs, 1, n)).raw \in Int
<1> DEFINE T == {k \in 0..Len(hs) : OrderedBasis(SubSeq(hs, 1, k)).raw \notin Int}
<1> SUFFICES ASSUME T # {} PROVE FALSE
  OBVIOUS
<1>1. PICK m \in T : \A k \in T : m <= k
  <2>1. T \in SUBSET Nat
    OBVIOUS
  <2> HIDE DEF T
  <2> QED BY <2>1, LeastNat
<1>2. CASE m = 0
  <2>1. SubSeq(hs, 1, 0) = << >>
    OBVIOUS
  <2>2. OrderedBasis(<< >>).raw \in Int
    BY BasisEmpty, FlatRaw
  <2> QED BY <1>1, <1>2, <2>1, <2>2
<1>3. CASE m # 0
  <2>1. m \in 1..Len(hs) /\ m - 1 \in 0..Len(hs) /\ ~(m <= m - 1)
    BY <1>1, <1>3
  <2>2. OrderedBasis(SubSeq(hs, 1, m - 1)).raw \in Int
    BY <1>1, <2>1
  <2>3. OrderedBasis(SubSeq(hs, 1, m)) = FoldHead(OrderedBasis(SubSeq(hs, 1, m - 1)), hs[m])
    BY <2>1, BasisPrefix
  <2>4. Signed(hs[m].side, hs[m].qty) \in Int
    <3>1. hs[m] \in Heads
      BY <2>1
    <3> QED BY <3>1, HeadQuantity
  <2>5. OrderedBasis(SubSeq(hs, 1, m)).raw \in Int
    BY <2>2, <2>3, <2>4 DEF FoldHead
  <2> QED BY <1>1, <2>5
<1> QED BY <1>2, <1>3

\* A head of another quantity moves the folded quantity by the difference,
\* wherever the head is.
LEMMA BasisRevised ==
  ASSUME NEW hs \in Seq(Heads), NEW i \in DOMAIN hs, NEW h \in Heads, h.side = hs[i].side
  PROVE  OrderedBasis([hs EXCEPT ![i] = h]).raw
           = OrderedBasis(hs).raw + Signed(h.side, h.qty - hs[i].qty)
<1> DEFINE ks == [hs EXCEPT ![i] = h]
           n == Len(hs)
           d == Signed(h.side, h.qty - hs[i].qty)
           Moved(k) == OrderedBasis(SubSeq(ks, 1, k)).raw
                         = OrderedBasis(SubSeq(hs, 1, k)).raw + (IF k >= i THEN d ELSE 0)
           T == {k \in 0..n : ~Moved(k)}
<1>1. /\ n \in Nat /\ DOMAIN hs = 1..n /\ i \in 1..n
      /\ ks \in Seq(Heads) /\ Len(ks) = n /\ ks[i] = h
      /\ \A k \in 1..n : k # i => ks[k] = hs[k]
  OBVIOUS
<1>2. h.qty \in Int /\ hs[i].qty \in Int /\ h.side \in {"BUY", "SELL"} /\ d \in Int
  <2>1. hs[i] \in Heads
    OBVIOUS
  <2>2. h.qty \in Int /\ hs[i].qty \in Int /\ h.side \in {"BUY", "SELL"}
    BY <2>1, HeadQuantity
  <2> QED BY <2>2 DEF Signed
<1> HIDE DEF ks
<1>3. Moved(n) => OrderedBasis(ks).raw = OrderedBasis(hs).raw + d
  <2>1. SubSeq(ks, 1, n) = ks /\ SubSeq(hs, 1, n) = hs
    BY <1>1
  <2>2. n >= i
    BY <1>1
  <2> QED BY <2>1, <2>2
<1>4. \A k \in 0..n : OrderedBasis(SubSeq(hs, 1, k)).raw \in Int /\ OrderedBasis(SubSeq(ks, 1, k)).raw \in Int
  BY <1>1, BasisRaw
<1> HIDE DEF d
<1> SUFFICES ASSUME T # {} PROVE FALSE
  <2>1. n \in 0..n
    BY <1>1
  <2> HIDE DEF Moved
  <2>2. Moved(n)
    BY <2>1
  <2> QED BY <1>3, <2>2 DEF d, ks
<1>5. PICK m \in T : \A k \in T : m <= k
  <2>1. T \in SUBSET Nat
    OBVIOUS
  <2> HIDE DEF T
  <2> QED BY <2>1, LeastNat
<1>6. m \in 0..n /\ ~Moved(m)
  BY <1>5
<1>7. CASE m = 0
  <2>1. SubSeq(hs, 1, 0) = << >> /\ SubSeq(ks, 1, 0) = << >> /\ ~(0 >= i)
    BY <1>1
  <2>2. OrderedBasis(<< >>).raw = 0
    BY BasisEmpty, FlatRaw
  <2>3. OrderedBasis(<< >>).raw = OrderedBasis(<< >>).raw + 0
    BY <2>2
  <2>4. Moved(0)
    <3> HIDE DEF T
    <3> QED BY <2>1, <2>3
  <2> QED BY <1>6, <1>7, <2>4
<1>8. CASE m # 0
  <2>1. m \in 1..n /\ m - 1 \in 0..n /\ ~(m <= m - 1)
    BY <1>1, <1>6, <1>8
  <2>2. Moved(m - 1)
    BY <1>5, <2>1
  <2> DEFINE a == OrderedBasis(SubSeq(hs, 1, m - 1))
             b == OrderedBasis(SubSeq(ks, 1, m - 1))
  <2>3. /\ OrderedBasis(SubSeq(hs, 1, m)) = FoldHead(a, hs[m])
        /\ OrderedBasis(SubSeq(ks, 1, m)) = FoldHead(b, ks[m])
    BY <1>1, <2>1, BasisPrefix
  <2>4. a.raw \in Int /\ b.raw \in Int
    BY <1>4, <2>1
  <2>5. b.raw = a.raw + (IF m - 1 >= i THEN d ELSE 0)
    BY <2>2
  <2>6. Signed(hs[m].side, hs[m].qty) \in Int
    <3>1. hs[m] \in Heads
      BY <1>1, <2>1
    <3> QED BY <3>1, HeadQuantity
  <2> HIDE DEF a, b, Moved
  <2>7. /\ OrderedBasis(SubSeq(hs, 1, m)).raw = a.raw + Signed(hs[m].side, hs[m].qty)
        /\ OrderedBasis(SubSeq(ks, 1, m)).raw = b.raw + Signed(ks[m].side, ks[m].qty)
    BY <2>3 DEF FoldHead
  <2>8. CASE m = i
    <3>1. ~(m - 1 >= i) /\ m >= i
      BY <1>1, <2>8
    <3>2. Signed(h.side, h.qty) = Signed(hs[i].side, hs[i].qty) + d
      BY <1>2 DEF Signed, d
    <3>3. b.raw = a.raw
      BY <2>4, <2>5, <3>1
    <3>4. Signed(ks[m].side, ks[m].qty) = Signed(hs[m].side, hs[m].qty) + d
      BY <1>1, <2>8, <3>2
    <3>5. Moved(m)
      BY <1>2, <2>4, <2>6, <2>7, <3>1, <3>3, <3>4 DEF Moved
    <3> QED BY <1>6, <3>5
  <2>9. CASE m # i
    <3>1. ks[m] = hs[m] /\ (m - 1 >= i <=> m >= i)
      BY <1>1, <2>1, <2>9
    <3>2. Moved(m)
      BY <1>2, <2>4, <2>5, <2>6, <2>7, <3>1 DEF Moved
    <3> QED BY <1>6, <3>2
  <2> QED BY <2>8, <2>9
<1> QED BY <1>7, <1>8

----------------------------------------------------------------------------
(* What the reducer does to each field, and the invariants of a position   *)
(* that every reducer step keeps.                                          *)

\* An observation is appended to the registry.
LEMMA ObservedFields ==
  ASSUME NEW x, IsSnapshot(x), NEW f, NEW c
  PROVE  LET y == Observed(x, f, c)
         IN  /\ IsSnapshot(y) /\ SameEconomics(x, y) /\ y.integrity = x.integrity
             /\ y.seen = Append(x.seen, [fact |-> f, class |-> c])
<1> DEFINE v == Append(x.seen, [fact |-> f, class |-> c])
           y == [x EXCEPT !.seen = v]
<1>1. Observed(x, f, c) = y
  BY DEF Observed
<1>2. DOMAIN x = DOMAIN Flat
  BY DEF IsSnapshot
<1> HIDE DEF v
<1>3. /\ DOMAIN y = DOMAIN x /\ y.heads = x.heads /\ y.raw = x.raw /\ y.tail = x.tail
      /\ y.integrity = x.integrity /\ y.basis = x.basis /\ y.meta = x.meta /\ y.seen = v
  BY SnapshotFields
<1> HIDE DEF y
<1>4. IsSnapshot(y) /\ SameEconomics(x, y)
  BY <1>2, <1>3 DEF IsSnapshot, SameEconomics
<1> QED BY <1>1, <1>3, <1>4 DEF v

\* Latches are added to the integrity.
LEMMA LatchFields ==
  ASSUME NEW x, IsSnapshot(x), NEW s \in SUBSET {Conflict, Unreconciled, Overfill}
  PROVE  LET y == Latch(x, s)
         IN  /\ IsSnapshot(y) /\ SameEconomics(x, y)
             /\ y.integrity = x.integrity \cup s /\ y.seen = x.seen
<1> DEFINE v == x.integrity \cup s
           y == [x EXCEPT !.integrity = v]
<1>1. Latch(x, s) = y
  BY DEF Latch
<1>2. DOMAIN x = DOMAIN Flat /\ v \subseteq {Conflict, Unreconciled, Overfill}
  BY DEF IsSnapshot
<1> HIDE DEF v
<1>3. /\ DOMAIN y = DOMAIN x /\ y.heads = x.heads /\ y.raw = x.raw /\ y.tail = x.tail
      /\ y.integrity = v /\ y.basis = x.basis /\ y.meta = x.meta /\ y.seen = x.seen
  BY SnapshotFields
<1> HIDE DEF y
<1>4. IsSnapshot(y) /\ SameEconomics(x, y)
  BY <1>2, <1>3 DEF IsSnapshot, SameEconomics
<1> QED BY <1>1, <1>3, <1>4 DEF v

\* Equal positions of an equal position.
LEMMA SameTransitive ==
  ASSUME NEW x, NEW y, NEW z, SameEconomics(x, y), SameEconomics(y, z)
  PROVE  SameEconomics(x, z)
BY DEF SameEconomics

\* A fact that is only recorded.
LEMMA ReconcileFields ==
  ASSUME NEW x, IsSnapshot(x), NEW f
  PROVE  LET t == Reconcile(x, f)
         IN  /\ IsSnapshot(t.x) /\ SameEconomics(x, t.x)
             /\ t.x.seen = Append(x.seen, [fact |-> f, class |-> "RECONCILIATION_REQUIRED"])
             /\ t.x.integrity = x.integrity \cup {Unreconciled}
             /\ t.disp = "RECONCILIATION_REQUIRED"
             /\ t.class = "RECONCILIATION_REQUIRED"
<1> DEFINE y == Observed(x, f, "RECONCILIATION_REQUIRED")
           z == Latch(y, {Unreconciled})
<1>1. /\ Reconcile(x, f).x = z
      /\ Reconcile(x, f).disp = "RECONCILIATION_REQUIRED"
      /\ Reconcile(x, f).class = "RECONCILIATION_REQUIRED"
  BY DEF Reconcile, Transition
<1>2. /\ IsSnapshot(y) /\ SameEconomics(x, y) /\ y.integrity = x.integrity
      /\ y.seen = Append(x.seen, [fact |-> f, class |-> "RECONCILIATION_REQUIRED"])
  BY ObservedFields
<1> HIDE DEF y
<1>3. /\ IsSnapshot(z) /\ SameEconomics(y, z)
      /\ z.integrity = y.integrity \cup {Unreconciled} /\ z.seen = y.seen
  BY <1>2, LatchFields
<1> HIDE DEF z
<1>4. SameEconomics(x, z)
  BY <1>2, <1>3, SameTransitive
<1> QED BY <1>1, <1>2, <1>3, <1>4

ShortLatch(x) == IF x.raw < 0 THEN {Overfill} ELSE {}
ClassOf(x) == Classification(x.basis = Pending, x.raw)

\* The classes of an applied fact.
LEMMA AppliedClasses ==
  ASSUME NEW x, IsSnapshot(x)
  PROVE  ClassOf(x) \in Classes \ {"RECONCILIATION_REQUIRED", "CORROBORATED_ZERO_ECONOMIC"}
<1>1. x.raw \in Int
  BY DEF IsSnapshot
<1> QED BY <1>1 DEF ClassOf, Classification, Classes

\* A fact that is applied.
LEMMA EconomicFields ==
  ASSUME NEW x, IsSnapshot(x), NEW f
  PROVE  LET t == Economic(x, f)
         IN  /\ IsSnapshot(t.x) /\ SameEconomics(x, t.x)
             /\ t.x.seen = Append(x.seen, [fact |-> f, class |-> ClassOf(x)])
             /\ t.x.integrity = x.integrity \cup ShortLatch(x)
             /\ t.disp = "APPLIED" /\ t.class = ClassOf(x)
<1> DEFINE y == Observed(x, f, ClassOf(x))
           z == Latch(y, ShortLatch(x))
<1>1. /\ Economic(x, f).x = z /\ Economic(x, f).disp = "APPLIED"
      /\ Economic(x, f).class = ClassOf(x)
  BY DEF Economic, Transition, ClassOf, ShortLatch
<1>2. /\ IsSnapshot(y) /\ SameEconomics(x, y) /\ y.integrity = x.integrity
      /\ y.seen = Append(x.seen, [fact |-> f, class |-> ClassOf(x)])
  BY ObservedFields
<1> HIDE DEF y
<1>3. ShortLatch(x) \in SUBSET {Conflict, Unreconciled, Overfill}
  BY DEF ShortLatch
<1>4. /\ IsSnapshot(z) /\ SameEconomics(y, z)
      /\ z.integrity = y.integrity \cup ShortLatch(x) /\ z.seen = y.seen
  BY <1>2, <1>3, LatchFields
<1> HIDE DEF z
<1>5. SameEconomics(x, z)
  BY <1>2, <1>4, SameTransitive
<1> QED BY <1>1, <1>2, <1>4, <1>5

\* The first fact of a root.
LEMMA FilledFields ==
  ASSUME NEW x, IsSnapshot(x), NEW f \in Facts
  PROVE  LET y == Filled(x, f)
             folds == x.basis # Pending /\ MetadataAccepts(x.meta, f.price)
         IN  /\ IsSnapshot(y) /\ y.integrity = x.integrity /\ y.seen = x.seen
             /\ y.raw = x.raw + Signed(f.side, f.qty)
             /\ y.heads = Append(x.heads, HeadOf(f)) /\ HeadOf(f) \in Heads
             /\ y.basis = IF folds THEN FoldBasis(x.raw, x.basis, f.side, f.qty, f.price)
                                   ELSE Pending
             /\ y.meta = IF folds THEN NextMetadata(x.meta, f.price) ELSE NoPrice
             /\ y.tail = IF folds THEN [root |-> f.root, raw |-> x.raw,
                                        basis |-> x.basis, meta |-> x.meta]
                                  ELSE NoTail
<1> DEFINE folds == x.basis # Pending /\ MetadataAccepts(x.meta, f.price)
           raw   == x.raw + Signed(f.side, f.qty)
           heads == Append(x.heads, HeadOf(f))
           basis == IF folds THEN FoldBasis(x.raw, x.basis, f.side, f.qty, f.price)
                             ELSE Pending
           meta  == IF folds THEN NextMetadata(x.meta, f.price) ELSE NoPrice
           tail  == IF folds THEN [root |-> f.root, raw |-> x.raw,
                                   basis |-> x.basis, meta |-> x.meta]
                             ELSE NoTail
           y     == [x EXCEPT !.raw = raw, !.heads = heads, !.basis = basis,
                              !.meta = meta, !.tail = tail]
<1>1. Filled(x, f) = y
  BY DEF Filled
<1>2. HeadOf(f) \in Heads
  BY InputAssumption DEF Heads, HeadOf, Roots
<1>3. raw \in Int
  BY InputAssumption DEF IsSnapshot, Signed
<1>4. heads \in Seq(Heads)
  <2>1. x.heads \in Seq(Heads)
    BY DEF IsSnapshot
  <2> QED BY <1>2, <2>1
<1> HIDE DEF raw, heads, basis, meta, tail
<1>5. /\ DOMAIN y = DOMAIN x /\ y.heads = heads /\ y.raw = raw /\ y.tail = tail
      /\ y.integrity = x.integrity /\ y.basis = basis /\ y.meta = meta /\ y.seen = x.seen
  BY SnapshotFields
<1> HIDE DEF y
<1>6. IsSnapshot(y)
  BY <1>3, <1>4, <1>5 DEF IsSnapshot
<1> QED BY <1>1, <1>2, <1>5, <1>6 DEF raw, heads, basis, meta, tail

\* A revised head keeps its root, its leg and its side.
LEMMA RevisedHeadFields ==
  ASSUME NEW h \in Heads, NEW f \in Facts
  PROVE  LET k == RevisedHead(h, f)
         IN  /\ k \in Heads /\ k.root = h.root /\ k.leg = h.leg /\ k.side = h.side
             /\ k.qty = f.qty /\ k.price = f.price
BY InputAssumption DEF Heads, RevisedHead

\* A correction or bust of a head.
LEMMA RevisedFields ==
  ASSUME NEW x, IsSnapshot(x), NEW f \in Facts, HeadAt(x, f.root) # {}
  PROVE  LET y == Revised(x, f)
             i == Max(HeadAt(x, f.root))
             h == x.heads[i]
             folds == Refolds(x, i, f.price)
         IN  /\ IsSnapshot(y) /\ y.integrity = x.integrity /\ y.seen = x.seen
             /\ i \in HeadAt(x, f.root) /\ h \in Heads
             /\ y.raw = x.raw + Signed(h.side, f.qty - h.qty)
             /\ y.heads = [x.heads EXCEPT ![i] = RevisedHead(h, f)]
             /\ y.basis = IF folds THEN FoldBasis(x.tail.raw, x.tail.basis, h.side,
                                                  f.qty, f.price)
                                   ELSE Pending
             /\ y.meta = IF folds THEN NextMetadata(x.tail.meta, f.price) ELSE NoPrice
             /\ y.tail = IF folds THEN x.tail ELSE NoTail
<1> DEFINE i     == Max(HeadAt(x, f.root))
           h     == x.heads[i]
           folds == Refolds(x, i, f.price)
           raw   == x.raw + Signed(h.side, f.qty - h.qty)
           heads == [x.heads EXCEPT ![i] = RevisedHead(h, f)]
           basis == IF folds THEN FoldBasis(x.tail.raw, x.tail.basis, h.side,
                                            f.qty, f.price)
                             ELSE Pending
           meta  == IF folds THEN NextMetadata(x.tail.meta, f.price) ELSE NoPrice
           tail  == IF folds THEN x.tail ELSE NoTail
           y     == [x EXCEPT !.raw = raw, !.heads = heads, !.basis = basis,
                              !.meta = meta, !.tail = tail]
<1>1. Revised(x, f) = y
  BY SnapshotFields DEF Revised
<1>2. i \in HeadAt(x, f.root)
  BY LastHead
<1>3. x.heads \in Seq(Heads) /\ i \in DOMAIN x.heads
  BY <1>2 DEF IsSnapshot, HeadAt
<1> HIDE DEF i
<1>4. h \in Heads
  BY <1>3
<1>5. RevisedHead(h, f) \in Heads
  BY <1>4, RevisedHeadFields
<1>6. raw \in Int
  <2>1. h.qty \in Int /\ f.qty \in Int /\ x.raw \in Int
    BY <1>4, HeadQuantity, InputAssumption DEF IsSnapshot
  <2> HIDE DEF h
  <2> QED BY <2>1 DEF Signed
<1>7. heads \in Seq(Heads)
  BY <1>3, <1>5
<1> HIDE DEF raw, heads, basis, meta, tail
<1>8. /\ DOMAIN y = DOMAIN x /\ y.heads = heads /\ y.raw = raw /\ y.tail = tail
      /\ y.integrity = x.integrity /\ y.basis = basis /\ y.meta = meta /\ y.seen = x.seen
  BY SnapshotFields
<1> HIDE DEF y
<1>9. IsSnapshot(y)
  BY <1>6, <1>7, <1>8 DEF IsSnapshot
<1> QED BY <1>1, <1>2, <1>4, <1>8, <1>9 DEF raw, heads, basis, meta, tail, i

----------------------------------------------------------------------------
(* The accounts of a position: every invariant but the replay's.           *)

Accounts(x) ==
  /\ IsSnapshot(x)
  /\ Registered(x)
  /\ FoldsHeads(x)
  /\ ShortIsLatched(x)
  /\ OneHeadPerRoot(x)

\* The registry with one observation more.
LEMMA RegisterOne ==
  ASSUME NEW x, NEW y, Registered(x), NEW f \in Facts, NEW c \in Classes,
         y.seen = Append(x.seen, [fact |-> f, class |-> c])
  PROVE  Registered(y)
<1> DEFINE o == [fact |-> f, class |-> c]
<1>1. o \in [fact : Facts, class : Classes]
  OBVIOUS
<1> HIDE DEF o
<1> QED BY <1>1 DEF Registered, o

\* An equal position with at least the same latches.
LEMMA AccountsCarryOver ==
  ASSUME NEW x, NEW y, Accounts(x), IsSnapshot(y), Registered(y), SameEconomics(x, y),
         x.integrity \subseteq y.integrity
  PROVE  Accounts(y)
<1>1. FoldsHeads(y)
  BY DEF Accounts, SameEconomics, FoldsHeads
<1>2. ShortIsLatched(y) /\ OneHeadPerRoot(y)
  BY DEF Accounts, SameEconomics, ShortIsLatched, OneHeadPerRoot
<1> QED BY <1>1, <1>2 DEF Accounts

\* A fact that is only recorded, and latched evidence.
LEMMA ReconcileAccounts ==
  ASSUME NEW x, Accounts(x), NEW f \in Facts
  PROVE  Accounts(Reconcile(x, f).x)
<1> DEFINE y == Reconcile(x, f).x
<1>1. /\ IsSnapshot(y) /\ SameEconomics(x, y) /\ x.integrity \subseteq y.integrity
      /\ y.seen = Append(x.seen, [fact |-> f, class |-> "RECONCILIATION_REQUIRED"])
  BY ReconcileFields DEF Accounts
<1> HIDE DEF y
<1>2. Registered(y)
  BY <1>1, RegisterOne DEF Accounts, Classes
<1> QED BY <1>1, <1>2, AccountsCarryOver DEF y

\* A latch moves no share and no basis (_latch_execution_integrity).
LEMMA LatchAccounts ==
  ASSUME NEW x, Accounts(x), NEW s \in SUBSET {Conflict, Unreconciled, Overfill}
  PROVE  Accounts(Latch(x, s))
<1> DEFINE y == Latch(x, s)
<1>1. /\ IsSnapshot(y) /\ SameEconomics(x, y) /\ x.integrity \subseteq y.integrity
      /\ y.seen = x.seen
  BY LatchFields DEF Accounts
<1> HIDE DEF y
<1>2. Registered(y)
  BY <1>1 DEF Accounts, Registered
<1> QED BY <1>1, <1>2, AccountsCarryOver DEF y

\* A fact that is applied leaves a short position latched.
LEMMA EconomicAccounts ==
  ASSUME NEW x, IsSnapshot(x), Registered(x), FoldsHeads(x), OneHeadPerRoot(x),
         NEW f \in Facts
  PROVE  Accounts(Economic(x, f).x)
<1> DEFINE y == Economic(x, f).x
<1>1. /\ IsSnapshot(y) /\ SameEconomics(x, y) /\ y.integrity = x.integrity \cup ShortLatch(x)
      /\ y.seen = Append(x.seen, [fact |-> f, class |-> ClassOf(x)])
  BY EconomicFields
<1> HIDE DEF y
<1>2. Registered(y)
  BY <1>1, AppliedClasses, RegisterOne
<1>3. FoldsHeads(y) /\ OneHeadPerRoot(y)
  BY <1>1 DEF SameEconomics, FoldsHeads, OneHeadPerRoot
<1>4. ShortIsLatched(y)
  BY <1>1 DEF SameEconomics, ShortIsLatched, ShortLatch
<1> QED BY <1>1, <1>2, <1>3, <1>4 DEF Accounts, y

\* A head whose price is on the grid is folded with its basis.
LEMMA FoldAccepted ==
  ASSUME NEW a, NEW h, a.ok, MetadataAccepts(a.meta, h.price)
  PROVE  LET b == FoldHead(a, h)
         IN  /\ b.basis = FoldBasis(a.raw, a.basis, h.side, h.qty, h.price)
             /\ b.meta = NextMetadata(a.meta, h.price)
             /\ b.ok
BY DEF FoldHead

\* A head more is one step of the fold, and the heads before it are the tail.
LEMMA FilledFoldsHeads ==
  ASSUME NEW x, IsSnapshot(x), FoldsHeads(x), NEW f \in Facts
  PROVE  FoldsHeads(Filled(x, f))
<1> DEFINE y == Filled(x, f)
           h == HeadOf(f)
           folds == x.basis # Pending /\ MetadataAccepts(x.meta, f.price)
           d == OrderedBasis(x.heads)
           n == Len(x.heads)
<1>1. /\ y.raw = x.raw + Signed(f.side, f.qty)
      /\ y.heads = Append(x.heads, h) /\ h \in Heads
      /\ y.basis = IF folds THEN FoldBasis(x.raw, x.basis, f.side, f.qty, f.price)
                            ELSE Pending
      /\ y.meta = IF folds THEN NextMetadata(x.meta, f.price) ELSE NoPrice
      /\ y.tail = IF folds THEN [root |-> f.root, raw |-> x.raw,
                                 basis |-> x.basis, meta |-> x.meta]
                           ELSE NoTail
  BY FilledFields
<1>2. h.side = f.side /\ h.qty = f.qty /\ h.price = f.price /\ h.root = f.root
  BY DEF HeadOf
<1>3. x.heads \in Seq(Heads)
  BY DEF IsSnapshot
<1> HIDE DEF y, h
<1>4. OrderedBasis(y.heads) = FoldHead(d, h)
  BY <1>1, <1>3, BasisAppend
<1>5. /\ Len(y.heads) = n + 1 /\ n \in Nat /\ y.heads[n + 1] = h
      /\ SubSeq(y.heads, 1, n) = x.heads
  BY <1>1, <1>3
<1>6. /\ x.raw = d.raw
      /\ x.basis # Pending => d.ok /\ x.basis = d.basis /\ x.meta = d.meta
  BY DEF FoldsHeads
<1> HIDE DEF d, n
<1>7. y.raw = OrderedBasis(y.heads).raw
  BY <1>1, <1>2, <1>4, <1>6 DEF FoldHead
<1>8. CASE folds
  <2>1. d.ok /\ x.basis = d.basis /\ x.meta = d.meta /\ MetadataAccepts(d.meta, h.price)
    BY <1>2, <1>6, <1>8
  <2>2. /\ OrderedBasis(y.heads).basis = FoldBasis(d.raw, d.basis, h.side, h.qty, h.price)
        /\ OrderedBasis(y.heads).meta = NextMetadata(d.meta, h.price)
        /\ OrderedBasis(y.heads).ok
    BY <1>4, <2>1, FoldAccepted
  <2>3. /\ y.basis = OrderedBasis(y.heads).basis /\ y.meta = OrderedBasis(y.heads).meta
        /\ OrderedBasis(y.heads).ok
    BY <1>1, <1>2, <1>6, <1>8, <2>1, <2>2
  <2>4. y.tail = [root |-> h.root, raw |-> d.raw, basis |-> d.basis, meta |-> d.meta]
    BY <1>1, <1>2, <1>6, <1>8, <2>1
  <2>5. n + 1 > 0 /\ n + 1 - 1 = n
    BY <1>5
  <2>6. /\ SubSeq(y.heads, 1, Len(y.heads) - 1) = x.heads /\ Len(y.heads) > 0
        /\ y.tail = [root |-> y.heads[Len(y.heads)].root, raw |-> d.raw,
                     basis |-> d.basis, meta |-> d.meta]
    BY <1>5, <2>4, <2>5
  <2> QED BY <1>7, <2>1, <2>3, <2>6 DEF FoldsHeads, d, y
<1>9. CASE ~folds
  <2>1. y.basis = Pending /\ y.tail = NoTail
    BY <1>1, <1>9
  <2> QED BY <1>7, <2>1 DEF FoldsHeads, y
<1> QED BY <1>8, <1>9

\* A revised last head is folded again from the tail; another one moves the
\* quantity by the difference and leaves the basis pending.
LEMMA RevisedFoldsHeads ==
  ASSUME NEW x, IsSnapshot(x), FoldsHeads(x), NEW f \in Facts, HeadAt(x, f.root) # {}
  PROVE  FoldsHeads(Revised(x, f))
<1> DEFINE y == Revised(x, f)
           i == Max(HeadAt(x, f.root))
           h == x.heads[i]
           k == RevisedHead(h, f)
           n == Len(x.heads)
           d == OrderedBasis(x.heads)
           p == OrderedBasis(SubSeq(x.heads, 1, n - 1))
           folds == Refolds(x, i, f.price)
<1>1. /\ i \in HeadAt(x, f.root) /\ h \in Heads
      /\ y.raw = x.raw + Signed(h.side, f.qty - h.qty)
      /\ y.heads = [x.heads EXCEPT ![i] = k]
      /\ y.basis = IF folds THEN FoldBasis(x.tail.raw, x.tail.basis, h.side,
                                           f.qty, f.price)
                            ELSE Pending
      /\ y.meta = IF folds THEN NextMetadata(x.tail.meta, f.price) ELSE NoPrice
      /\ y.tail = IF folds THEN x.tail ELSE NoTail
  BY RevisedFields
<1>2. x.heads \in Seq(Heads) /\ i \in DOMAIN x.heads /\ h.root = f.root
  BY <1>1 DEF IsSnapshot, HeadAt
<1>3. /\ k \in Heads /\ k.root = h.root /\ k.side = h.side
      /\ k.qty = f.qty /\ k.price = f.price
  BY <1>1, RevisedHeadFields
<1> HIDE DEF y, k, i
<1>4. /\ y.heads \in Seq(Heads) /\ Len(y.heads) = n /\ n \in Nat /\ n > 0
      /\ y.heads[i] = k /\ i \in 1..n /\ n - 1 \in 0..n
  BY <1>1, <1>2, <1>3
<1>5. /\ x.raw = d.raw
      /\ x.tail # NoTail => /\ p.ok
                            /\ x.tail = [root |-> x.heads[n].root, raw |-> p.raw,
                                         basis |-> p.basis, meta |-> p.meta]
  BY DEF FoldsHeads
<1>6. y.raw = OrderedBasis(y.heads).raw
  BY <1>1, <1>2, <1>3, <1>5, BasisRevised
<1>7. CASE folds
  <2>1. i = n /\ x.tail.root = h.root /\ MetadataAccepts(x.tail.meta, f.price)
    BY <1>7 DEF Refolds, TailProven
  <2>2. x.tail # NoTail
    <3>1. f.root # None
      BY InputAssumption
    <3> QED BY <1>2, <2>1, <3>1 DEF NoTail
  <2>3. /\ p.ok /\ x.tail.raw = p.raw /\ x.tail.basis = p.basis /\ x.tail.meta = p.meta
        /\ x.tail = [root |-> h.root, raw |-> p.raw, basis |-> p.basis, meta |-> p.meta]
    BY <1>5, <2>1, <2>2
  <2>4. SubSeq(y.heads, 1, n - 1) = SubSeq(x.heads, 1, n - 1)
    BY <1>1, <1>2, <1>4, <2>1
  <2>5. OrderedBasis(y.heads) = FoldHead(p, k)
    <3>1. y.heads # << >>
      BY <1>4
    <3> QED BY <1>4, <2>1, <2>4, <3>1, BasisLast
  <2> HIDE DEF p, h
  <2>6. /\ OrderedBasis(y.heads).basis = FoldBasis(p.raw, p.basis, k.side, k.qty, k.price)
        /\ OrderedBasis(y.heads).meta = NextMetadata(p.meta, k.price)
        /\ OrderedBasis(y.heads).ok
    <3>1. MetadataAccepts(p.meta, k.price)
      BY <1>3, <2>1, <2>3
    <3> QED BY <2>3, <2>5, <3>1, FoldAccepted
  <2>7. /\ y.basis = OrderedBasis(y.heads).basis /\ y.meta = OrderedBasis(y.heads).meta
        /\ OrderedBasis(y.heads).ok
    BY <1>1, <1>3, <1>7, <2>3, <2>6
  <2>8. y.tail = [root |-> y.heads[n].root, raw |-> p.raw, basis |-> p.basis, meta |-> p.meta]
    BY <1>1, <1>3, <1>4, <1>7, <2>1, <2>3
  <2> QED BY <1>4, <1>6, <2>3, <2>4, <2>7, <2>8 DEF FoldsHeads, y, p
<1>8. CASE ~folds
  <2>1. y.basis = Pending /\ y.tail = NoTail
    BY <1>1, <1>8
  <2> QED BY <1>6, <2>1 DEF FoldsHeads, y
<1> QED BY <1>7, <1>8

\* The reducer keeps the accounts.
LEMMA RootFillAccounts ==
  ASSUME NEW x, Accounts(x), NEW f \in Facts
  PROVE  Accounts(ApplyRootFill(x, f).x)
<1> DEFINE y == Filled(x, f)
<1>1. CASE HeadAt(x, f.root) # {} \/ ObservedRoot(x, f.root)
  BY <1>1, ReconcileAccounts DEF ApplyRootFill
<1>2. CASE ~(HeadAt(x, f.root) # {} \/ ObservedRoot(x, f.root))
  <2>1. ApplyRootFill(x, f) = Economic(y, f)
    BY <1>2 DEF ApplyRootFill
  <2>2. /\ IsSnapshot(y) /\ y.seen = x.seen
        /\ y.heads = Append(x.heads, HeadOf(f)) /\ HeadOf(f) \in Heads
    BY FilledFields DEF Accounts
  <2>3. FoldsHeads(y)
    BY FilledFoldsHeads DEF Accounts
  <2> HIDE DEF y
  <2>4. OneHeadPerRoot(y)
    <3>1. x.heads \in Seq(Heads) /\ HeadOf(f).root = f.root
      BY DEF Accounts, IsSnapshot, HeadOf
    <3>2. /\ DOMAIN x.heads = 1..Len(x.heads) /\ Len(x.heads) \in Nat
          /\ DOMAIN y.heads = 1..(Len(x.heads) + 1)
          /\ \A i \in 1..Len(x.heads) : y.heads[i] = x.heads[i]
          /\ y.heads[Len(x.heads) + 1] = HeadOf(f)
      BY <2>2, <3>1
    <3>3. \A i \in DOMAIN x.heads : x.heads[i].root # f.root
      BY <1>2 DEF HeadAt
    <3>4. \A i, j \in 1..Len(x.heads) : x.heads[i].root = x.heads[j].root => i = j
      BY <3>2 DEF OneHeadPerRoot, Accounts
    <3>5. ASSUME NEW i \in DOMAIN y.heads, NEW j \in DOMAIN y.heads,
                 y.heads[i].root = y.heads[j].root
          PROVE  i = j
      <4>1. CASE i \in 1..Len(x.heads) /\ j \in 1..Len(x.heads)
        BY <3>2, <3>4, <3>5, <4>1
      <4>2. CASE i = Len(x.heads) + 1 \/ j = Len(x.heads) + 1
        BY <3>1, <3>2, <3>3, <3>5, <4>2
      <4> QED BY <3>2, <4>1, <4>2
    <3> QED BY <3>5 DEF OneHeadPerRoot
  <2>5. Registered(y)
    BY <2>2 DEF Accounts, Registered
  <2> QED BY <2>1, <2>2, <2>3, <2>4, <2>5, EconomicAccounts
<1> QED BY <1>1, <1>2

\* A correction or bust leaves the position the fold of its heads
\* (_apply_revision).
LEMMA RevisionAccounts ==
  ASSUME NEW x, Accounts(x), NEW f \in Facts
  PROVE  Accounts(ApplyRevision(x, f).x)
<1> DEFINE y == Revised(x, f)
           i == Max(HeadAt(x, f.root))
<1>1. CASE ~Revisable(x, f)
  BY <1>1, ReconcileAccounts DEF ApplyRevision
<1>2. CASE Revisable(x, f)
  <2>1. ApplyRevision(x, f) = Economic(y, f)
    BY <1>2 DEF ApplyRevision
  <2>2. HeadAt(x, f.root) # {} /\ IsSnapshot(x)
    BY <1>2 DEF Revisable, Accounts
  <2>3. /\ IsSnapshot(y) /\ y.seen = x.seen /\ i \in HeadAt(x, f.root) /\ x.heads[i] \in Heads
        /\ y.heads = [x.heads EXCEPT ![i] = RevisedHead(x.heads[i], f)]
    BY <2>2, RevisedFields
  <2>4. FoldsHeads(y)
    BY <2>2, RevisedFoldsHeads DEF Accounts
  <2> HIDE DEF y, i
  <2>5. OneHeadPerRoot(y)
    <3>1. RevisedHead(x.heads[i], f).root = x.heads[i].root
      BY <2>3, RevisedHeadFields
    <3>2. /\ DOMAIN y.heads = DOMAIN x.heads
          /\ \A j \in DOMAIN x.heads : y.heads[j].root = x.heads[j].root
      BY <2>2, <2>3, <3>1 DEF IsSnapshot
    <3> QED BY <3>2 DEF OneHeadPerRoot, Accounts
  <2>6. Registered(y)
    BY <2>3 DEF Accounts, Registered
  <2> QED BY <2>1, <2>3, <2>4, <2>5, <2>6, EconomicAccounts
<1> QED BY <1>1, <1>2

\* Whatever fact is presented, the accounts are kept.
LEMMA ApplyFactAccounts ==
  ASSUME NEW x, Accounts(x), NEW f \in Facts
  PROVE  Accounts(ApplyFact(x, f).x)
<1>1. CASE Seen(x, f.key)
  <2>1. ApplyFact(x, f).x \in {x, Latch(x, {Conflict})}
    BY <1>1 DEF ApplyFact, Transition
  <2>2. Accounts(Latch(x, {Conflict}))
    BY LatchAccounts
  <2> QED BY <2>1, <2>2
<1>2. CASE ~Seen(x, f.key)
  <2>1. ApplyFact(x, f) = IF f.kind \in RootKinds THEN ApplyRootFill(x, f)
                                                  ELSE ApplyRevision(x, f)
    BY <1>2 DEF ApplyFact
  <2> QED BY <2>1, RootFillAccounts, RevisionAccounts
<1> QED BY <1>1, <1>2

\* Recording a reconciliation keeps what the position accounts for.
LEMMA RecordReconciliationAccounts ==
  ASSUME NEW x, Accounts(x), NEW f \in Facts
  PROVE  Accounts(RecordReconciliation(x, f).x)
<1>1. CASE Seen(x, f.key)
  <2>1. RecordReconciliation(x, f).x
          \in {Latch(x, {Unreconciled}), Latch(x, {Unreconciled, Conflict})}
    BY <1>1 DEF RecordReconciliation, Transition
  <2>2. Accounts(Latch(x, {Unreconciled})) /\ Accounts(Latch(x, {Unreconciled, Conflict}))
    BY LatchAccounts
  <2> QED BY <2>1, <2>2
<1>2. CASE ~Seen(x, f.key)
  BY <1>2, ReconcileAccounts DEF RecordReconciliation
<1> QED BY <1>1, <1>2

\* Corroboration that is applied is an observation and nothing else.
LEMMA CorroborationIs ==
  ASSUME NEW x, IsSnapshot(x), NEW f, RecordCorroboration(x, f).disp = "APPLIED"
  PROVE  /\ ~Seen(x, f.key) /\ ~ObservedRoot(x, f.root)
         /\ RecordCorroboration(x, f).x = Observed(x, f, "CORROBORATED_ZERO_ECONOMIC")
<1>1. CASE Seen(x, f.key)
  <2>1. RecordCorroboration(x, f).disp \in {"EXACT_REPLAY", "FACT_CONFLICT"}
    BY <1>1 DEF RecordCorroboration, Transition
  <2> QED BY <2>1
<1>2. CASE ~Seen(x, f.key) /\ ObservedRoot(x, f.root)
  <2>1. RecordCorroboration(x, f).disp = Reconcile(x, f).disp
    BY <1>2 DEF RecordCorroboration, RecordReconciliation
  <2> QED BY <2>1, ReconcileFields
<1>3. CASE ~Seen(x, f.key) /\ ~ObservedRoot(x, f.root)
  BY <1>3 DEF RecordCorroboration, Transition
<1> QED BY <1>1, <1>2, <1>3

\* So does a corroboration, which adds no economics.
LEMMA CorroborationAccounts ==
  ASSUME NEW x, Accounts(x), NEW f \in Facts, RecordCorroboration(x, f).disp = "APPLIED"
  PROVE  Accounts(RecordCorroboration(x, f).x)
<1> DEFINE y == Observed(x, f, "CORROBORATED_ZERO_ECONOMIC")
<1>1. RecordCorroboration(x, f).x = y
  BY CorroborationIs DEF Accounts
<1>2. /\ IsSnapshot(y) /\ SameEconomics(x, y) /\ y.integrity = x.integrity
      /\ y.seen = Append(x.seen, [fact |-> f, class |-> "CORROBORATED_ZERO_ECONOMIC"])
  BY ObservedFields DEF Accounts
<1> HIDE DEF y
<1>3. Registered(y)
  BY <1>2, RegisterOne DEF Accounts, Classes
<1> QED BY <1>1, <1>2, <1>3, AccountsCarryOver

----------------------------------------------------------------------------
(* A replay of the registry: positions that differ in their latches only   *)
(* answer every fact alike.                                                *)

\* The questions the reducer asks of a position.
LEMMA SameQuestions ==
  ASSUME NEW x, NEW y, SamePosition(x, y)
  PROVE  /\ \A k : Seen(y, k) = Seen(x, k) /\ FirstObservation(y, k) = FirstObservation(x, k)
         /\ \A r : HeadAt(y, r) = HeadAt(x, r) /\ ObservedRoot(y, r) = ObservedRoot(x, r)
         /\ \A f : Revisable(y, f) = Revisable(x, f)
         /\ \A i, p : Refolds(y, i, p) = Refolds(x, i, p)
<1>1. /\ y.seen = x.seen /\ y.heads = x.heads /\ y.raw = x.raw /\ y.basis = x.basis
      /\ y.tail = x.tail
  BY DEF SamePosition, SameEconomics
<1>2. \A k : SeenWith(y, k) = SeenWith(x, k)
  BY <1>1 DEF SeenWith
<1>3. \A k : Seen(y, k) = Seen(x, k) /\ FirstObservation(y, k) = FirstObservation(x, k)
  BY <1>1, <1>2 DEF Seen, FirstObservation
<1>4. \A r : HeadAt(y, r) = HeadAt(x, r) /\ ObservedRoot(y, r) = ObservedRoot(x, r)
  BY <1>1 DEF HeadAt, ObservedRoot
<1>5. \A h, f : PredecessorProven(y, h, f) = PredecessorProven(x, h, f)
  BY <1>3 DEF PredecessorProven
<1>6. \A f : Revisable(y, f) = Revisable(x, f)
  BY <1>1, <1>4, <1>5 DEF Revisable
<1>7. \A i, p : Refolds(y, i, p) = Refolds(x, i, p)
  BY <1>1 DEF Refolds, TailProven
<1> QED BY <1>3, <1>4, <1>6, <1>7

\* A position with fewer latches is a snapshot too.
LEMMA SameIsSnapshot ==
  ASSUME NEW x, NEW y, IsSnapshot(x), SamePosition(x, y)
  PROVE  IsSnapshot(y)
BY DEF IsSnapshot, SamePosition, SameEconomics

SameAnswer(s, t) == /\ t.disp = s.disp /\ t.class = s.class
                    /\ SamePosition(s.x, t.x)

\* The moves of the reducer, applied to equal positions.
LEMMA LatchAlike ==
  ASSUME NEW x, NEW y, IsSnapshot(x), SamePosition(x, y),
         NEW s \in SUBSET {Conflict, Unreconciled, Overfill}
  PROVE  SamePosition(Latch(x, s), Latch(y, s))
<1>1. IsSnapshot(y)
  BY SameIsSnapshot
<1> DEFINE a == Latch(x, s)
           b == Latch(y, s)
<1>2. /\ SameEconomics(x, a) /\ a.integrity = x.integrity \cup s /\ a.seen = x.seen
      /\ SameEconomics(y, b) /\ b.integrity = y.integrity \cup s /\ b.seen = y.seen
  BY <1>1, LatchFields
<1> HIDE DEF a, b
<1> QED BY <1>2 DEF SamePosition, SameEconomics, a, b

\* Positions that differ in latches alone still do so after a reconciliation.
LEMMA ReconcileAlike ==
  ASSUME NEW x, NEW y, IsSnapshot(x), SamePosition(x, y), NEW f
  PROVE  SameAnswer(Reconcile(x, f), Reconcile(y, f))
<1>1. IsSnapshot(y)
  BY SameIsSnapshot
<1> DEFINE a == Reconcile(x, f)
           b == Reconcile(y, f)
<1>2. /\ SameEconomics(x, a.x) /\ a.x.integrity = x.integrity \cup {Unreconciled}
      /\ a.x.seen = Append(x.seen, [fact |-> f, class |-> "RECONCILIATION_REQUIRED"])
      /\ a.disp = "RECONCILIATION_REQUIRED" /\ a.class = "RECONCILIATION_REQUIRED"
  BY ReconcileFields
<1>3. /\ SameEconomics(y, b.x) /\ b.x.integrity = y.integrity \cup {Unreconciled}
      /\ b.x.seen = Append(y.seen, [fact |-> f, class |-> "RECONCILIATION_REQUIRED"])
      /\ b.disp = "RECONCILIATION_REQUIRED" /\ b.class = "RECONCILIATION_REQUIRED"
  BY <1>1, ReconcileFields
<1> HIDE DEF a, b
<1> QED BY <1>2, <1>3 DEF SameAnswer, SamePosition, SameEconomics, a, b

\* They do after a fact was booked.
LEMMA EconomicAlike ==
  ASSUME NEW x, NEW y, IsSnapshot(x), SamePosition(x, y), NEW f
  PROVE  SameAnswer(Economic(x, f), Economic(y, f))
<1>1. IsSnapshot(y)
  BY SameIsSnapshot
<1>2. ClassOf(y) = ClassOf(x) /\ ShortLatch(y) = ShortLatch(x)
  BY DEF SamePosition, SameEconomics, ClassOf, ShortLatch
<1> DEFINE a == Economic(x, f)
           b == Economic(y, f)
<1>3. /\ SameEconomics(x, a.x) /\ a.x.integrity = x.integrity \cup ShortLatch(x)
      /\ a.x.seen = Append(x.seen, [fact |-> f, class |-> ClassOf(x)])
      /\ a.disp = "APPLIED" /\ a.class = ClassOf(x)
  BY EconomicFields
<1>4. /\ SameEconomics(y, b.x) /\ b.x.integrity = y.integrity \cup ShortLatch(y)
      /\ b.x.seen = Append(y.seen, [fact |-> f, class |-> ClassOf(y)])
      /\ b.disp = "APPLIED" /\ b.class = ClassOf(y)
  BY <1>1, EconomicFields
<1> HIDE DEF a, b
<1> QED BY <1>2, <1>3, <1>4 DEF SameAnswer, SamePosition, SameEconomics, a, b

\* They fold a new root alike.
LEMMA FilledAlike ==
  ASSUME NEW x, NEW y, IsSnapshot(x), SamePosition(x, y), NEW f \in Facts
  PROVE  SamePosition(Filled(x, f), Filled(y, f)) /\ IsSnapshot(Filled(x, f))
<1> DEFINE a == Filled(x, f)
           b == Filled(y, f)
           folds == x.basis # Pending /\ MetadataAccepts(x.meta, f.price)
           basis == IF folds THEN FoldBasis(x.raw, x.basis, f.side, f.qty, f.price)
                             ELSE Pending
           meta  == IF folds THEN NextMetadata(x.meta, f.price) ELSE NoPrice
           tail  == IF folds THEN [root |-> f.root, raw |-> x.raw,
                                   basis |-> x.basis, meta |-> x.meta]
                             ELSE NoTail
<1>1. IsSnapshot(y)
  BY SameIsSnapshot
<1>2. /\ y.raw = x.raw /\ y.basis = x.basis /\ y.meta = x.meta /\ y.heads = x.heads
      /\ y.seen = x.seen /\ y.integrity \subseteq x.integrity
  BY DEF SamePosition, SameEconomics
<1>3. /\ IsSnapshot(a) /\ a.integrity = x.integrity /\ a.seen = x.seen
      /\ a.raw = x.raw + Signed(f.side, f.qty) /\ a.heads = Append(x.heads, HeadOf(f))
      /\ a.basis = basis /\ a.meta = meta /\ a.tail = tail
  BY FilledFields
<1>4. /\ IsSnapshot(b) /\ b.integrity = y.integrity /\ b.seen = y.seen
      /\ b.raw = x.raw + Signed(f.side, f.qty) /\ b.heads = Append(x.heads, HeadOf(f))
      /\ b.basis = basis /\ b.meta = meta /\ b.tail = tail
  BY <1>1, <1>2, FilledFields
<1> HIDE DEF a, b, basis, meta, tail
<1>5. SamePosition(a, b)
  BY <1>2, <1>3, <1>4 DEF SamePosition, SameEconomics, IsSnapshot
<1> QED BY <1>3, <1>5 DEF a, b

\* They revise a head alike.
LEMMA RevisedAlike ==
  ASSUME NEW x, NEW y, IsSnapshot(x), SamePosition(x, y), NEW f \in Facts,
         HeadAt(x, f.root) # {}
  PROVE  SamePosition(Revised(x, f), Revised(y, f)) /\ IsSnapshot(Revised(x, f))
<1> DEFINE a == Revised(x, f)
           b == Revised(y, f)
           i == Max(HeadAt(x, f.root))
           h == x.heads[i]
           folds == Refolds(x, i, f.price)
           basis == IF folds THEN FoldBasis(x.tail.raw, x.tail.basis, h.side,
                                            f.qty, f.price)
                             ELSE Pending
           meta  == IF folds THEN NextMetadata(x.tail.meta, f.price) ELSE NoPrice
           tail  == IF folds THEN x.tail ELSE NoTail
<1>1. IsSnapshot(y)
  BY SameIsSnapshot
<1>2. /\ y.raw = x.raw /\ y.basis = x.basis /\ y.meta = x.meta /\ y.heads = x.heads
      /\ y.tail = x.tail /\ y.seen = x.seen /\ y.integrity \subseteq x.integrity
  BY DEF SamePosition, SameEconomics
<1>3. HeadAt(y, f.root) = HeadAt(x, f.root) /\ \A j, p : Refolds(y, j, p) = Refolds(x, j, p)
  BY SameQuestions
<1>4. /\ IsSnapshot(a) /\ a.integrity = x.integrity /\ a.seen = x.seen
      /\ a.raw = x.raw + Signed(h.side, f.qty - h.qty)
      /\ a.heads = [x.heads EXCEPT ![i] = RevisedHead(h, f)]
      /\ a.basis = basis /\ a.meta = meta /\ a.tail = tail
  BY RevisedFields
<1>5. /\ IsSnapshot(b) /\ b.integrity = y.integrity /\ b.seen = y.seen
      /\ b.raw = x.raw + Signed(h.side, f.qty - h.qty)
      /\ b.heads = [x.heads EXCEPT ![i] = RevisedHead(h, f)]
      /\ b.basis = basis /\ b.meta = meta /\ b.tail = tail
  BY <1>1, <1>2, <1>3, RevisedFields
<1> HIDE DEF a, b, basis, meta, tail
<1>6. SamePosition(a, b)
  BY <1>2, <1>4, <1>5 DEF SamePosition, SameEconomics, IsSnapshot
<1> QED BY <1>4, <1>6 DEF a, b

\* Equal positions answer every fact alike.
LEMMA ApplyFactAlike ==
  ASSUME NEW x, NEW y, IsSnapshot(x), SamePosition(x, y), NEW f \in Facts, ~Seen(x, f.key)
  PROVE  SameAnswer(ApplyFact(x, f), ApplyFact(y, f))
<1>1. ~Seen(y, f.key)
  BY SameQuestions
<1>2. CASE f.kind \in RootKinds
  <2>1. ApplyFact(x, f) = ApplyRootFill(x, f) /\ ApplyFact(y, f) = ApplyRootFill(y, f)
    BY <1>1, <1>2 DEF ApplyFact
  <2>2. HeadAt(y, f.root) = HeadAt(x, f.root) /\ ObservedRoot(y, f.root) = ObservedRoot(x, f.root)
    BY SameQuestions
  <2>3. CASE HeadAt(x, f.root) # {} \/ ObservedRoot(x, f.root)
    <3>1. ApplyFact(x, f) = Reconcile(x, f) /\ ApplyFact(y, f) = Reconcile(y, f)
      BY <2>1, <2>2, <2>3 DEF ApplyRootFill
    <3> QED BY <3>1, ReconcileAlike
  <2>4. CASE ~(HeadAt(x, f.root) # {} \/ ObservedRoot(x, f.root))
    <3>1. /\ ApplyFact(x, f) = Economic(Filled(x, f), f)
          /\ ApplyFact(y, f) = Economic(Filled(y, f), f)
      BY <2>1, <2>2, <2>4 DEF ApplyRootFill
    <3>2. SamePosition(Filled(x, f), Filled(y, f)) /\ IsSnapshot(Filled(x, f))
      BY FilledAlike
    <3> QED BY <3>1, <3>2, EconomicAlike
  <2> QED BY <2>3, <2>4
<1>3. CASE f.kind \notin RootKinds
  <2>1. ApplyFact(x, f) = ApplyRevision(x, f) /\ ApplyFact(y, f) = ApplyRevision(y, f)
    BY <1>1, <1>3 DEF ApplyFact
  <2>2. Revisable(y, f) = Revisable(x, f)
    BY SameQuestions
  <2>3. CASE ~Revisable(x, f)
    <3>1. ApplyFact(x, f) = Reconcile(x, f) /\ ApplyFact(y, f) = Reconcile(y, f)
      BY <2>1, <2>2, <2>3 DEF ApplyRevision
    <3> QED BY <3>1, ReconcileAlike
  <2>4. CASE Revisable(x, f)
    <3>1. /\ ApplyFact(x, f) = Economic(Revised(x, f), f)
          /\ ApplyFact(y, f) = Economic(Revised(y, f), f)
      BY <2>1, <2>2, <2>4 DEF ApplyRevision
    <3>2. HeadAt(x, f.root) # {}
      BY <2>4 DEF Revisable
    <3>3. SamePosition(Revised(x, f), Revised(y, f)) /\ IsSnapshot(Revised(x, f))
      BY <3>2, RevisedAlike
    <3> QED BY <3>1, <3>3, EconomicAlike
  <2> QED BY <2>3, <2>4
<1> QED BY <1>2, <1>3

\* A fact whose key is new is recorded with the class of its transition:
\* applied with an economic one, or only recorded.
LEMMA NewFactIsRecorded ==
  ASSUME NEW x, IsSnapshot(x), NEW f \in Facts, ~Seen(x, f.key)
  PROVE  LET t == ApplyFact(x, f)
         IN  /\ t.x.seen = Append(x.seen, [fact |-> f, class |-> t.class])
             /\ t.class \in Classes \ {"CORROBORATED_ZERO_ECONOMIC"}
             /\ t.class = "RECONCILIATION_REQUIRED" => t = Reconcile(x, f)
<1> DEFINE Recorded(t) ==
             /\ t.x.seen = Append(x.seen, [fact |-> f, class |-> t.class])
             /\ t.class \in Classes \ {"CORROBORATED_ZERO_ECONOMIC"}
             /\ t.class = "RECONCILIATION_REQUIRED" => t = Reconcile(x, f)
<1>1. Recorded(Reconcile(x, f))
  BY ReconcileFields DEF Classes
<1>2. ASSUME NEW y, IsSnapshot(y), y.seen = x.seen
      PROVE  Recorded(Economic(y, f))
  <2> DEFINE t == Economic(y, f)
  <2>1. t.x.seen = Append(y.seen, [fact |-> f, class |-> ClassOf(y)]) /\ t.class = ClassOf(y)
    BY <1>2, EconomicFields
  <2>2. ClassOf(y) \in Classes \ {"RECONCILIATION_REQUIRED", "CORROBORATED_ZERO_ECONOMIC"}
    BY <1>2, AppliedClasses
  <2> HIDE DEF t
  <2>3. Recorded(t)
    BY <1>2, <2>1, <2>2
  <2> QED BY <2>3 DEF t
<1>3. CASE f.kind \in RootKinds
  <2>1. ApplyFact(x, f) \in {Reconcile(x, f), Economic(Filled(x, f), f)}
    BY <1>3 DEF ApplyFact, ApplyRootFill
  <2>2. IsSnapshot(Filled(x, f)) /\ Filled(x, f).seen = x.seen
    BY FilledFields
  <2> HIDE DEF Recorded
  <2>3. Recorded(ApplyFact(x, f))
    BY <1>1, <1>2, <2>1, <2>2
  <2> QED BY <2>3 DEF Recorded
<1>4. CASE f.kind \notin RootKinds
  <2>1. ApplyFact(x, f) = IF Revisable(x, f) THEN Economic(Revised(x, f), f)
                                             ELSE Reconcile(x, f)
    BY <1>4 DEF ApplyFact, ApplyRevision
  <2>2. Revisable(x, f) => IsSnapshot(Revised(x, f)) /\ Revised(x, f).seen = x.seen
    BY RevisedFields DEF Revisable
  <2> HIDE DEF Recorded
  <2>3. Recorded(ApplyFact(x, f))
    BY <1>1, <1>2, <2>1, <2>2
  <2> QED BY <2>3 DEF Recorded
<1> QED BY <1>3, <1>4

\* The registry is replayed one observation at a time.
LEMMA ReplayAppend ==
  ASSUME NEW x, Registered(x), NEW f \in Facts, NEW c \in Classes
  PROVE  Replay(Append(x.seen, [fact |-> f, class |-> c]))
           = ReplayOne(Replay(x.seen), [fact |-> f, class |-> c])
<1> DEFINE S == [fact : Facts, class : Classes]
           o == [fact |-> f, class |-> c]
<1>1. x.seen \in Seq(S) /\ o \in S
  BY DEF Registered
<1> HIDE DEF S, o
<1>2. ByFact!Fold(Append(x.seen, o)) = ReplayOne(ByFact!Fold(x.seen), o)
  BY <1>1, ByFact!FoldAppend
<1> QED BY <1>2, ReplayIsAFold DEF o

\* An observation that replays gets the class it carries.
LEMMA ReplayOneFields ==
  ASSUME NEW r, NEW f, NEW c, c # "CORROBORATED_ZERO_ECONOMIC",
         ReplayOne(r, [fact |-> f, class |-> c]).ok
  PROVE  /\ r.ok /\ ApplyFact(r.x, f).class = c
         /\ ReplayOne(r, [fact |-> f, class |-> c]).x = ApplyFact(r.x, f).x
BY DEF ReplayOne

\* What replaying a corroboration does to each field (recovery.py 1357-1407).
LEMMA ReplayCorroborationFields ==
  ASSUME NEW r, NEW f,
         ReplayOne(r, [fact |-> f, class |-> "CORROBORATED_ZERO_ECONOMIC"]).ok
  PROVE  /\ r.ok
         /\ ReplayOne(r, [fact |-> f, class |-> "CORROBORATED_ZERO_ECONOMIC"]).x
              = RecordCorroboration(r.x, f).x
BY DEF ReplayOne

\* The reducer's answer to a new fact is the one its replay gives.
LEMMA ApplyFactReplays ==
  ASSUME NEW x, IsSnapshot(x), Registered(x), Replays(x), NEW f \in Facts, ~Seen(x, f.key)
  PROVE  Replays(ApplyFact(x, f).x)
<1> DEFINE t == ApplyFact(x, f)
           r == Replay(x.seen)
           c == t.class
<1>1. t.x.seen = Append(x.seen, [fact |-> f, class |-> c])
      /\ c \in Classes /\ c # "CORROBORATED_ZERO_ECONOMIC"
  BY NewFactIsRecorded
<1>2. Replay(t.x.seen) = ReplayOne(r, [fact |-> f, class |-> c])
  BY <1>1, ReplayAppend
<1> SUFFICES ASSUME Replay(t.x.seen).ok PROVE SamePosition(t.x, Replay(t.x.seen).x)
  BY DEF Replays
<1>3. ReplayOne(r, [fact |-> f, class |-> c]).ok
  BY <1>2
<1> HIDE DEF c, t, r
<1>4. r.ok /\ ReplayOne(r, [fact |-> f, class |-> c]).x = ApplyFact(r.x, f).x
  BY <1>1, <1>3, ReplayOneFields
<1>5. SamePosition(x, r.x)
  BY <1>4 DEF Replays, r
<1>6. SameAnswer(t, ApplyFact(r.x, f))
  BY <1>5, ApplyFactAlike DEF t
<1> QED BY <1>2, <1>4, <1>6 DEF SameAnswer

\* A fill that could not be placed replays only where the reducer would not
\* place it either.
LEMMA ReconcileReplays ==
  ASSUME NEW x, IsSnapshot(x), Registered(x), Replays(x), NEW f \in Facts, ~Seen(x, f.key)
  PROVE  Replays(Reconcile(x, f).x)
<1> DEFINE t == Reconcile(x, f)
           r == Replay(x.seen)
           c == "RECONCILIATION_REQUIRED"
<1>1. t.x.seen = Append(x.seen, [fact |-> f, class |-> c])
  BY ReconcileFields
<1>2. Replay(t.x.seen) = ReplayOne(r, [fact |-> f, class |-> c])
  BY <1>1, ReplayAppend DEF Classes
<1> SUFFICES ASSUME Replay(t.x.seen).ok PROVE SamePosition(t.x, Replay(t.x.seen).x)
  BY DEF Replays
<1>3. ReplayOne(r, [fact |-> f, class |-> c]).ok
  BY <1>2
<1> HIDE DEF t, r
<1>4. /\ r.ok /\ ApplyFact(r.x, f).class = c
      /\ ReplayOne(r, [fact |-> f, class |-> c]).x = ApplyFact(r.x, f).x
  BY <1>3, ReplayOneFields
<1>5. SamePosition(x, r.x)
  BY <1>4 DEF Replays, r
<1>6. SameAnswer(ApplyFact(x, f), ApplyFact(r.x, f))
  BY <1>5, ApplyFactAlike
<1>7. ApplyFact(x, f) = t
  BY <1>4, <1>6, NewFactIsRecorded DEF SameAnswer, t
<1> QED BY <1>2, <1>4, <1>6, <1>7 DEF SameAnswer

\* So does a corroboration.
LEMMA CorroborationReplays ==
  ASSUME NEW x, IsSnapshot(x), Registered(x), Replays(x), NEW f \in Facts,
         RecordCorroboration(x, f).disp = "APPLIED"
  PROVE  Replays(RecordCorroboration(x, f).x)
<1> DEFINE c == "CORROBORATED_ZERO_ECONOMIC"
           y == Observed(x, f, c)
           r == Replay(x.seen)
           z == Observed(r.x, f, c)
<1>1. /\ ~Seen(x, f.key) /\ ~ObservedRoot(x, f.root)
      /\ RecordCorroboration(x, f).x = y
  BY CorroborationIs
<1>2. /\ SameEconomics(x, y) /\ y.integrity = x.integrity
      /\ y.seen = Append(x.seen, [fact |-> f, class |-> c])
  BY ObservedFields
<1>3. Replay(y.seen) = ReplayOne(r, [fact |-> f, class |-> c])
  BY <1>2, ReplayAppend DEF Classes
<1> SUFFICES ASSUME Replay(y.seen).ok PROVE SamePosition(y, Replay(y.seen).x)
  BY <1>1 DEF Replays
<1>4. ReplayOne(r, [fact |-> f, class |-> c]).ok
  BY <1>3
<1> HIDE DEF y, r
<1>5. /\ r.ok
      /\ ReplayOne(r, [fact |-> f, class |-> c]).x = RecordCorroboration(r.x, f).x
  BY <1>4, ReplayCorroborationFields
<1>6. SamePosition(x, r.x) /\ IsSnapshot(r.x)
  BY <1>5, SameIsSnapshot DEF Replays, r
<1>7. ~Seen(r.x, f.key) /\ ~ObservedRoot(r.x, f.root)
  BY <1>1, <1>6, SameQuestions
<1>8. RecordCorroboration(r.x, f).x = z
  BY <1>7 DEF RecordCorroboration, Transition
<1>9. /\ SameEconomics(r.x, z) /\ z.integrity = r.x.integrity
      /\ z.seen = Append(r.x.seen, [fact |-> f, class |-> c])
  BY <1>6, ObservedFields
<1> HIDE DEF z
<1>10. SamePosition(y, z)
  BY <1>2, <1>6, <1>9 DEF SamePosition, SameEconomics
<1> QED BY <1>3, <1>5, <1>8, <1>10

\* More latches on the same registry.
LEMMA LatchReplays ==
  ASSUME NEW x, IsSnapshot(x), Replays(x), NEW s \in SUBSET {Conflict, Unreconciled, Overfill}
  PROVE  Replays(Latch(x, s))
<1> DEFINE y == Latch(x, s)
<1>1. SameEconomics(x, y) /\ x.integrity \subseteq y.integrity /\ y.seen = x.seen
  BY LatchFields
<1> HIDE DEF y
<1>2. Replays(y)
  BY <1>1 DEF Replays, SamePosition, SameEconomics
<1> QED BY <1>2 DEF y

----------------------------------------------------------------------------
(* Sound positions stay sound.                                             *)

\* A latch keeps a position sound: a replay may lack it, and nothing else.
LEMMA LatchSound ==
  ASSUME NEW x, Sound(x), NEW s \in SUBSET {Conflict, Unreconciled, Overfill}
  PROVE  Sound(Latch(x, s))
BY LatchAccounts, LatchReplays DEF Sound, Accounts

\* Whatever a fact is applied to.
LEMMA ApplyFactSound ==
  ASSUME NEW x, Sound(x), NEW f \in Facts
  PROVE  Sound(ApplyFact(x, f).x)
<1>1. CASE Seen(x, f.key)
  <2>1. ApplyFact(x, f).x \in {x, Latch(x, {Conflict})}
    BY <1>1 DEF ApplyFact, Transition
  <2>2. Sound(Latch(x, {Conflict}))
    BY LatchSound
  <2> QED BY <2>1, <2>2
<1>2. CASE ~Seen(x, f.key)
  BY <1>2, ApplyFactAccounts, ApplyFactReplays DEF Sound, Accounts
<1> QED BY <1>1, <1>2

\* A fill that cannot be placed.
LEMMA RecordReconciliationSound ==
  ASSUME NEW x, Sound(x), NEW f \in Facts
  PROVE  Sound(RecordReconciliation(x, f).x)
<1>1. CASE Seen(x, f.key)
  <2>1. RecordReconciliation(x, f).x
          \in {Latch(x, {Unreconciled}), Latch(x, {Unreconciled, Conflict})}
    BY <1>1 DEF RecordReconciliation, Transition
  <2>2. Sound(Latch(x, {Unreconciled})) /\ Sound(Latch(x, {Unreconciled, Conflict}))
    BY LatchSound
  <2> QED BY <2>1, <2>2
<1>2. CASE ~Seen(x, f.key)
  <2>1. RecordReconciliation(x, f) = Reconcile(x, f)
    BY <1>2 DEF RecordReconciliation
  <2> QED BY <1>2, <2>1, ReconcileAccounts, ReconcileReplays DEF Sound, Accounts
<1> QED BY <1>1, <1>2

\* A corroboration.
LEMMA CorroborationSound ==
  ASSUME NEW x, Sound(x), NEW f \in Facts, RecordCorroboration(x, f).disp = "APPLIED"
  PROVE  Sound(RecordCorroboration(x, f).x)
BY CorroborationAccounts, CorroborationReplays DEF Sound, Accounts


----------------------------------------------------------------------------
(* The heads a fact adds or edits, and the shares of a leg they hold.      *)

\* A fact adds a head of its root, edits the one head its root has, or
\* leaves the heads alone.
LEMMA ApplyFactHeads ==
  ASSUME NEW x, IsSnapshot(x), OneHeadPerRoot(x), NEW f \in Facts
  PROVE  LET t == ApplyFact(x, f)
         IN  /\ t.disp # "APPLIED" => t.x.heads = x.heads
             /\ t.disp = "APPLIED" /\ f.kind \in RootKinds =>
                  t.x.heads = Append(x.heads, HeadOf(f)) /\ HeadOf(f) \in Heads
             /\ t.disp = "APPLIED" /\ f.kind \notin RootKinds =>
                  \E i \in HeadAt(x, f.root) :
                    /\ x.heads[i].leg = f.leg
                    /\ t.x.heads = [x.heads EXCEPT ![i] = RevisedHead(x.heads[i], f)]
<1> DEFINE t == ApplyFact(x, f)
<1>1. CASE Seen(x, f.key)
  <2>1. /\ t.x \in {x, Latch(x, {Conflict})}
        /\ t.disp \in {"EXACT_REPLAY", "FACT_CONFLICT"}
    BY <1>1 DEF ApplyFact, Transition
  <2>2. Latch(x, {Conflict}).heads = x.heads
    BY LatchFields DEF SameEconomics
  <2> HIDE DEF t
  <2>3. t.x.heads = x.heads /\ t.disp # "APPLIED"
    BY <2>1, <2>2
  <2> QED BY <2>3 DEF t
<1>r. /\ Reconcile(x, f).disp = "RECONCILIATION_REQUIRED"
      /\ Reconcile(x, f).x.heads = x.heads
  BY ReconcileFields DEF SameEconomics
<1>2. CASE ~Seen(x, f.key) /\ f.kind \in RootKinds
  <2>1. t = IF HeadAt(x, f.root) # {} \/ ObservedRoot(x, f.root)
            THEN Reconcile(x, f) ELSE Economic(Filled(x, f), f)
    BY <1>2 DEF ApplyFact, ApplyRootFill
  <2>2. /\ IsSnapshot(Filled(x, f)) /\ HeadOf(f) \in Heads
        /\ Filled(x, f).heads = Append(x.heads, HeadOf(f))
    BY FilledFields
  <2>3. /\ Economic(Filled(x, f), f).x.heads = Append(x.heads, HeadOf(f))
        /\ Economic(Filled(x, f), f).disp = "APPLIED"
    BY <2>2, EconomicFields DEF SameEconomics
  <2> HIDE DEF t
  <2> QED BY <1>r, <1>2, <2>1, <2>2, <2>3 DEF t
<1>3. CASE ~Seen(x, f.key) /\ f.kind \notin RootKinds
  <2>1. t = IF Revisable(x, f) THEN Economic(Revised(x, f), f) ELSE Reconcile(x, f)
    BY <1>3 DEF ApplyFact, ApplyRevision
  <2>2. CASE ~Revisable(x, f)
    <3> HIDE DEF t
    <3> QED BY <1>r, <1>3, <2>1, <2>2 DEF t
  <2>3. CASE Revisable(x, f)
    <3> DEFINE i == Max(HeadAt(x, f.root))
    <3>1. PICK j \in HeadAt(x, f.root) : x.heads[j].leg = f.leg
      BY <2>3 DEF Revisable
    <3>2. /\ IsSnapshot(Revised(x, f)) /\ i \in HeadAt(x, f.root)
          /\ Revised(x, f).heads = [x.heads EXCEPT ![i] = RevisedHead(x.heads[i], f)]
      BY <3>1, RevisedFields
    <3> HIDE DEF i
    <3>3. i = j
      BY <3>1, <3>2 DEF OneHeadPerRoot, HeadAt
    <3>4. Economic(Revised(x, f), f).x.heads = [x.heads EXCEPT ![i] = RevisedHead(x.heads[i], f)]
          /\ Economic(Revised(x, f), f).disp = "APPLIED"
      BY <3>2, EconomicFields DEF SameEconomics
    <3> HIDE DEF t
    <3> QED BY <1>3, <2>1, <2>3, <3>1, <3>2, <3>3, <3>4 DEF t
  <2> QED BY <2>2, <2>3
<1> QED BY <1>1, <1>2, <1>3

OwnHeads(x, l) == {i \in DOMAIN x.heads : x.heads[i].leg = l}

\* Equal heads hold equal shares.
LEMMA SharesSame ==
  ASSUME NEW x, NEW y, y.heads = x.heads, NEW l
  PROVE  Shares(y, l) = Shares(x, l)
BY DEF Shares

\* The shares of a leg are the sum over its heads.
LEMMA SharesAre ==
  ASSUME NEW x, IsSnapshot(x), NEW l
  PROVE  LET own == OwnHeads(x, l)
         IN  /\ IsFiniteSet(own) /\ own \subseteq 1..Len(x.heads)
             /\ Shares(x, l) = SumFunctionOnSet([i \in own |-> x.heads[i].qty], own)
             /\ \A i \in own : x.heads[i].qty \in Int
             /\ Shares(x, l) \in Int
<1> DEFINE own == OwnHeads(x, l)
           q == [i \in own |-> x.heads[i].qty]
<1>1. x.heads \in Seq(Heads) /\ Len(x.heads) \in Nat /\ DOMAIN x.heads = 1..Len(x.heads)
  BY DEF IsSnapshot
<1>2. own \subseteq 1..Len(x.heads)
  BY <1>1 DEF OwnHeads
<1>3. IsFiniteSet(own)
  <2>1. IsFiniteSet(1..Len(x.heads))
    BY <1>1, FS_Interval
  <2> HIDE DEF own
  <2> QED BY <1>2, <2>1, FS_Subset
<1>4. \A i \in own : x.heads[i].qty \in Int
  <2> SUFFICES ASSUME NEW i \in own PROVE x.heads[i].qty \in Int
    OBVIOUS
  <2>1. x.heads[i] \in Heads
    BY <1>1, <1>2
  <2> QED BY <2>1, HeadQuantity
<1>5. Shares(x, l) = SumFunctionOnSet(q, own)
  BY DEF Shares, OwnHeads
<1> HIDE DEF own
<1>6. SumFunctionOnSet(q, own) \in Int
  BY <1>3, <1>4, SumType
<1> QED BY <1>2, <1>3, <1>4, <1>5, <1>6 DEF own

\* A head more adds its quantity to the shares of its leg.
LEMMA SharesAppend ==
  ASSUME NEW x, IsSnapshot(x), NEW y, IsSnapshot(y), NEW h \in Heads,
         y.heads = Append(x.heads, h), NEW l
  PROVE  Shares(y, l) = IF h.leg = l THEN Shares(x, l) + h.qty ELSE Shares(x, l)
<1> DEFINE n == Len(x.heads) + 1
           own == OwnHeads(x, l)
           q == [i \in own |-> x.heads[i].qty]
           all == OwnHeads(y, l)
           r == [i \in all |-> y.heads[i].qty]
<1>1. /\ n \in Nat /\ DOMAIN x.heads = 1..(n - 1) /\ DOMAIN y.heads = 1..n
      /\ y.heads[n] = h /\ \A i \in 1..(n - 1) : y.heads[i] = x.heads[i]
  <2>1. x.heads \in Seq(Heads)
    BY DEF IsSnapshot
  <2> QED BY <2>1
<1>2. /\ IsFiniteSet(own) /\ Shares(x, l) = SumFunctionOnSet(q, own)
      /\ \A i \in own : x.heads[i].qty \in Int
      /\ Shares(x, l) \in Int
  BY SharesAre
<1>3. /\ Shares(y, l) = SumFunctionOnSet(r, all)
      /\ \A i \in all : y.heads[i].qty \in Int
  BY SharesAre
<1>4. all = IF h.leg = l THEN own \cup {n} ELSE own
  BY <1>1 DEF OwnHeads
<1>5. n \notin own /\ \A i \in own : y.heads[i] = x.heads[i]
  BY <1>1 DEF OwnHeads
<1>6. own \subseteq all
  BY <1>4
<1> HIDE DEF own, all, n
<1>7. SumFunctionOnSet(r, own) = SumFunctionOnSet(q, own)
  BY <1>2, <1>5, <1>6, SumSame
<1>8. CASE h.leg = l
  <2>1. all = own \cup {n} /\ n \in all
    BY <1>4, <1>8
  <2>2. \A i \in own \cup {n} : r[i] \in Int
    BY <1>3, <2>1
  <2>3. SumFunctionOnSet(r, own \cup {n}) = r[n] + SumFunctionOnSet(r, own)
    BY <1>2, <1>5, <2>2, SumInsert
  <2>4. r[n] = h.qty /\ r[n] \in Int
    BY <1>1, <1>3, <2>1
  <2> HIDE DEF r, q
  <2> QED BY <1>2, <1>3, <1>7, <1>8, <2>1, <2>3, <2>4
<1>9. CASE h.leg # l
  <2>1. all = own
    BY <1>4, <1>9
  <2> HIDE DEF r, q
  <2> QED BY <1>2, <1>3, <1>7, <1>9, <2>1
<1> QED BY <1>8, <1>9

\* An edited head moves the shares of its leg by the difference.
LEMMA SharesRevise ==
  ASSUME NEW x, IsSnapshot(x), NEW y, IsSnapshot(y), NEW h \in Heads,
         NEW i \in DOMAIN x.heads, h.leg = x.heads[i].leg,
         y.heads = [x.heads EXCEPT ![i] = h], NEW l
  PROVE  Shares(y, l) = IF h.leg = l THEN Shares(x, l) + h.qty - x.heads[i].qty
                                     ELSE Shares(x, l)
<1> DEFINE own == OwnHeads(x, l)
           q == [j \in own |-> x.heads[j].qty]
           r == [j \in own |-> y.heads[j].qty]
<1>1. /\ DOMAIN y.heads = DOMAIN x.heads /\ y.heads[i] = h
      /\ \A j \in DOMAIN x.heads \ {i} : y.heads[j] = x.heads[j]
  <2>1. x.heads \in Seq(Heads)
    BY DEF IsSnapshot
  <2> QED BY <2>1
<1>2. /\ IsFiniteSet(own) /\ Shares(x, l) = SumFunctionOnSet(q, own)
      /\ \A j \in own : x.heads[j].qty \in Int
      /\ Shares(x, l) \in Int
  BY SharesAre
<1>3. OwnHeads(y, l) = own
  BY <1>1 DEF OwnHeads
<1>4. /\ Shares(y, l) = SumFunctionOnSet(r, own)
      /\ \A j \in own : y.heads[j].qty \in Int
  BY <1>3, SharesAre
<1>5. (i \in own <=> h.leg = l) /\ own \subseteq DOMAIN x.heads
  BY DEF OwnHeads
<1> HIDE DEF own
<1>6. CASE h.leg = l
  <2>1. i \in own /\ \A j \in own \ {i} : r[j] = q[j]
    BY <1>1, <1>5, <1>6
  <2>2. (\A j \in own : q[j] \in Int) /\ r[i] \in Int
    BY <1>2, <1>4, <2>1
  <2>3. SumFunctionOnSet(r, own) = SumFunctionOnSet(q, own) + r[i] - q[i]
    BY <1>2, <2>1, <2>2, SumUpdate
  <2>4. r[i] = h.qty /\ q[i] = x.heads[i].qty
    BY <1>1, <2>1
  <2> HIDE DEF r, q
  <2> QED BY <1>2, <1>4, <1>6, <2>3, <2>4
<1>7. CASE h.leg # l
  <2>1. \A j \in own : r[j] = q[j]
    BY <1>1, <1>5, <1>7
  <2>2. SumFunctionOnSet(r, own) = SumFunctionOnSet(q, own)
    BY <1>2, <2>1, SumSame
  <2> HIDE DEF r, q
  <2> QED BY <1>2, <1>4, <1>7, <2>2
<1> QED BY <1>6, <1>7

----------------------------------------------------------------------------
(* The position a book is opened with.                                     *)

\* Its heads are of legs the book does not know.
OffBook(x) == \A i \in DOMAIN x.heads : x.heads[i].leg \notin Legs

\* No fact, no position.
LEMMA FlatSound == Sound(Flat) /\ OffBook(Flat)
<1>1. /\ DOMAIN Flat = DOMAIN Flat /\ Flat.raw = 0 /\ Flat.basis = Zero /\ Flat.meta = NoPrice
      /\ Flat.tail = NoTail /\ Flat.heads = << >> /\ Flat.integrity = {}
      /\ Flat.seen = << >>
  BY DEF Flat
<1> DEFINE S == [fact : Facts, class : Classes]
<1>2. << >> \in Seq(Heads) /\ << >> \in Seq(S) /\ Len(<< >>) = 0 /\ DOMAIN << >> = {}
  OBVIOUS
<1>3. IsSnapshot(Flat)
  BY <1>1, <1>2 DEF IsSnapshot
<1>4. Registered(Flat)
  BY <1>1, <1>2 DEF Registered
<1>5. OrderedBasis(<< >>) = NothingFolded
  BY BasisEmpty
<1>6. /\ NothingFolded.raw = 0 /\ NothingFolded.basis = Zero /\ NothingFolded.meta = NoPrice
      /\ NothingFolded.ok
  BY DEF NothingFolded
<1>7. FoldsHeads(Flat)
  BY <1>1, <1>5, <1>6 DEF FoldsHeads
<1>8. ShortIsLatched(Flat) /\ OneHeadPerRoot(Flat) /\ OffBook(Flat)
  BY <1>1, <1>2 DEF ShortIsLatched, OneHeadPerRoot, OffBook
<1>9. Replays(Flat)
  <2>1. Replay(<< >>) = NothingReplayed
    BY ReplayIsAFold, ByFact!FoldEmpty
  <2>2. Replay(Flat.seen).x = Flat
    BY <1>1, <2>1 DEF NothingReplayed
  <2>3. SamePosition(Flat, Flat)
    BY DEF SamePosition, SameEconomics
  <2> QED BY <2>2, <2>3 DEF Replays
<1> QED BY <1>3, <1>4, <1>7, <1>8, <1>9 DEF Sound

\* A fact of an unknown leg leaves no head of a known one.
LEMMA ApplyFactOffBook ==
  ASSUME NEW x, Sound(x), OffBook(x), NEW f \in Facts, f.leg \notin Legs
  PROVE  OffBook(ApplyFact(x, f).x)
<1> DEFINE t == ApplyFact(x, f)
<1>1. /\ t.disp # "APPLIED" => t.x.heads = x.heads
      /\ t.disp = "APPLIED" /\ f.kind \in RootKinds =>
           t.x.heads = Append(x.heads, HeadOf(f)) /\ HeadOf(f) \in Heads
      /\ t.disp = "APPLIED" /\ f.kind \notin RootKinds =>
           \E i \in HeadAt(x, f.root) :
             /\ x.heads[i].leg = f.leg
             /\ t.x.heads = [x.heads EXCEPT ![i] = RevisedHead(x.heads[i], f)]
  BY ApplyFactHeads DEF Sound
<1>2. x.heads \in Seq(Heads)
  BY DEF Sound, IsSnapshot
<1> HIDE DEF t
<1>3. CASE t.disp # "APPLIED"
  BY <1>1, <1>3 DEF OffBook, t
<1>4. CASE t.disp = "APPLIED" /\ f.kind \in RootKinds
  <2>1. t.x.heads = Append(x.heads, HeadOf(f)) /\ HeadOf(f).leg = f.leg
    BY <1>1, <1>4 DEF HeadOf
  <2>2. \A i \in DOMAIN t.x.heads : t.x.heads[i] = HeadOf(f) \/ \E j \in DOMAIN x.heads : t.x.heads[i] = x.heads[j]
    BY <1>2, <2>1
  <2> QED BY <2>1, <2>2 DEF OffBook, t
<1>5. CASE t.disp = "APPLIED" /\ f.kind \notin RootKinds
  <2>1. PICK i \in HeadAt(x, f.root) :
             /\ x.heads[i].leg = f.leg
             /\ t.x.heads = [x.heads EXCEPT ![i] = RevisedHead(x.heads[i], f)]
    BY <1>1, <1>5
  <2>2. i \in DOMAIN x.heads /\ x.heads[i] \in Heads
    BY <1>2 DEF HeadAt
  <2>3. RevisedHead(x.heads[i], f).leg = f.leg
    BY <2>1, <2>2, RevisedHeadFields
  <2>4. /\ DOMAIN t.x.heads = DOMAIN x.heads
        /\ \A j \in DOMAIN x.heads :
             t.x.heads[j] = IF j = i THEN RevisedHead(x.heads[i], f) ELSE x.heads[j]
    BY <2>1, <2>2
  <2> QED BY <2>3, <2>4 DEF OffBook, t
<1> QED BY <1>3, <1>4, <1>5

\* The facts before the book leave a sound position off the book.
LEMMA OpeningSound ==
  ASSUME NEW o \in Openings
  PROVE  Sound(Opening(o)) /\ OffBook(Opening(o))
<1> DEFINE S == {f \in Facts : f.leg \notin Legs}
           P(k) == ByOpening!Fold(SubSeq(o, 1, k))
           T == {k \in 0..Len(o) : ~(Sound(P(k)) /\ OffBook(P(k)))}
<1>1. o \in Seq(S)
  BY InputAssumption
<1>2. \A f \in S : f \in Facts /\ f.leg \notin Legs
  OBVIOUS
<1> HIDE DEF S
<1>3. Len(o) \in 0..Len(o) /\ SubSeq(o, 1, Len(o)) = o
  BY <1>1
<1> SUFFICES ASSUME T # {} PROVE FALSE
  BY <1>3, OpeningIsAFold
<1>4. PICK m \in T : \A k \in T : m <= k
  <2>1. T \in SUBSET Nat
    BY <1>1
  <2> HIDE DEF T
  <2> QED BY <2>1, LeastNat
<1>5. m \in 0..Len(o) /\ ~(Sound(P(m)) /\ OffBook(P(m)))
  BY <1>4
<1>6. CASE m = 0
  <2>1. SubSeq(o, 1, 0) = << >>
    BY <1>1
  <2>2. P(0) = Flat
    BY <2>1, ByOpening!FoldEmpty
  <2> HIDE DEF P
  <2> QED BY <1>5, <1>6, <2>2, FlatSound
<1>7. CASE m # 0
  <2>1. m \in 1..Len(o) /\ m - 1 \in 0..Len(o) /\ ~(m <= m - 1)
    BY <1>1, <1>5, <1>7
  <2>2. Sound(P(m - 1)) /\ OffBook(P(m - 1))
    BY <1>4, <2>1
  <2>3. P(m) = Opened(P(m - 1), o[m])
    BY <1>1, <2>1, ByOpening!FoldPrefix
  <2>4. o[m] \in Facts /\ o[m].leg \notin Legs
    BY <1>1, <1>2, <2>1
  <2> HIDE DEF P
  <2>5. Sound(P(m)) /\ OffBook(P(m))
    BY <2>2, <2>3, <2>4, ApplyFactSound, ApplyFactOffBook DEF Opened
  <2> QED BY <1>5, <2>5
<1> QED BY <1>6, <1>7

\* A position off the book holds no share of a leg.
LEMMA OffBookShares ==
  ASSUME NEW x, OffBook(x), NEW l \in Legs
  PROVE  Shares(x, l) = 0
<1>1. {i \in DOMAIN x.heads : x.heads[i].leg = l} = {}
  BY DEF OffBook
<1> QED BY <1>1, SumEmpty DEF Shares
----------------------------------------------------------------------------
(* Effects and reservations.                                               *)

EffectPart == EffectTypes /\ ReservationsMatch /\ ClosedWasNeverSent

NeverSent(r) ==
  /\ r.claimed => r.state \notin {"NONE", "REQUESTED", "CANCELED_BEFORE_DISPATCH"}
  /\ r.acceptance = "CLOSED" => r.state = "CANCELED_BEFORE_DISPATCH"

\* Nothing about effects changes when neither they nor the reservations do.
LEMMA EffectsStay ==
  ASSUME EffectPart, UNCHANGED <<effect, reserved>>
  PROVE  EffectPart'
BY DEF EffectPart, EffectTypes, ReservationsMatch, ClosedWasNeverSent, Reserves

\* An effect changes and its reservation follows it.
LEMMA EffectFollowed ==
  ASSUME EffectPart, NEW e \in Effects, NEW r \in EffectRecord, NeverSent(r),
         effect' = [effect EXCEPT ![e] = r],
         ReserveTarget(e),
         Kind[e] = "CANCEL" => reserved[Target[e]] \in {None, e}
  PROVE  EffectPart'
<1>1. /\ effect' \in [Effects -> EffectRecord] /\ effect'[e] = r
      /\ \A d \in Effects \ {e} : effect'[d] = effect[d]
  BY DEF EffectPart, EffectTypes
<1>2. Kind[e] = "CANCEL" => Target[e] \in Legs
  BY VenueAssumption
<1>3. ClosedWasNeverSent'
  BY <1>1 DEF EffectPart, ClosedWasNeverSent, NeverSent
<1>4. CASE Kind[e] # "CANCEL"
  <2>1. reserved' = reserved
    BY <1>4 DEF ReserveTarget
  <2>2. \A d \in Effects : Reserves(d)' <=> Reserves(d)
    BY <1>1, <1>4 DEF Reserves
  <2>3. ReservationsMatch'
    <3>1. \A d \in Effects : Reserves(d) => reserved[Target[d]] = d
      BY DEF EffectPart, ReservationsMatch
    <3>2. \A l \in Legs : reserved[l] # None =>
             Reserves(reserved[l]) /\ Target[reserved[l]] = l /\ reserved[l] \in Effects
      BY DEF EffectPart, ReservationsMatch, EffectTypes
    <3> QED BY <2>1, <2>2, <3>1, <3>2 DEF ReservationsMatch, Reserves
  <2> QED BY <1>1, <1>3, <2>1, <2>3 DEF EffectPart, EffectTypes
<1>5. CASE Kind[e] = "CANCEL"
  <2> DEFINE v == IF Reserves(e)' THEN e ELSE None
  <2>1. reserved' = [reserved EXCEPT ![Target[e]] = v] /\ v \in Effects \cup {None}
    BY <1>5 DEF ReserveTarget
  <2>2. /\ reserved' \in [Legs -> Effects \cup {None}] /\ reserved'[Target[e]] = v
        /\ \A l \in Legs \ {Target[e]} : reserved'[l] = reserved[l]
    BY <1>2, <1>5, <2>1 DEF EffectPart, EffectTypes
  <2>3. \A d \in Effects \ {e} : Reserves(d)' <=> Reserves(d)
    BY <1>1 DEF Reserves
  <2>4. ASSUME NEW d \in Effects, Reserves(d)' PROVE reserved'[Target[d]] = d
    <3>1. CASE d = e
      BY <2>2, <2>4, <3>1
    <3>2. CASE d # e
      <4>1. Reserves(d) /\ reserved[Target[d]] = d /\ Target[d] \in Legs
        BY <2>3, <2>4, <3>2, VenueAssumption DEF EffectPart, ReservationsMatch, Reserves
      <4>2. Target[d] # Target[e]
        BY <1>5, <3>2, <4>1, VenueAssumption
      <4> QED BY <2>2, <4>1, <4>2
    <3> QED BY <3>1, <3>2
  <2>5. ASSUME NEW l \in Legs, reserved'[l] # None
        PROVE  Reserves(reserved[l])' /\ Target[reserved'[l]] = l
    <3>1. CASE l = Target[e]
      <4>1. reserved'[l] = e /\ Reserves(e)'
        BY <2>2, <2>5, <3>1
      <4> QED BY <3>1, <4>1 DEF Reserves
    <3>2. CASE l # Target[e]
      <4>1. reserved'[l] = reserved[l] /\ reserved[l] # None /\ reserved[l] \in Effects
        BY <2>2, <2>5, <3>2 DEF EffectPart, EffectTypes
      <4>2. Reserves(reserved[l]) /\ Target[reserved[l]] = l
        BY <4>1 DEF EffectPart, ReservationsMatch
      <4>3. reserved[l] # e /\ effect'[reserved[l]] = effect[reserved[l]]
        BY <1>1, <3>2, <4>1, <4>2
      <4> QED BY <4>1, <4>2, <4>3 DEF Reserves
    <3> QED BY <3>1, <3>2
  <2>6. ReservationsMatch'
    BY <2>4, <2>5 DEF ReservationsMatch
  <2> QED BY <1>1, <1>3, <2>2, <2>6 DEF EffectPart, EffectTypes
<1> QED BY <1>4, <1>5

\* An effect changes and goes on reserving, or not reserving, its target.
LEMMA EffectInPlace ==
  ASSUME EffectPart, NEW e \in Effects, NEW r \in EffectRecord, NeverSent(r),
         effect' = [effect EXCEPT ![e] = r], reserved' = reserved,
         Reserves(e)' <=> Reserves(e)
  PROVE  EffectPart'
<1>1. /\ effect' \in [Effects -> EffectRecord] /\ effect'[e] = r
      /\ \A d \in Effects \ {e} : effect'[d] = effect[d]
  BY DEF EffectPart, EffectTypes
<1>2. ClosedWasNeverSent'
  BY <1>1 DEF EffectPart, ClosedWasNeverSent, NeverSent
<1>3. \A d \in Effects : Reserves(d)' <=> Reserves(d)
  BY <1>1 DEF Reserves
<1>4. ASSUME NEW d \in Effects, Reserves(d)' PROVE reserved'[Target[d]] = d
  BY <1>3, <1>4 DEF EffectPart, ReservationsMatch
<1>5. ASSUME NEW l \in Legs, reserved'[l] # None
      PROVE  Reserves(reserved[l])' /\ Target[reserved'[l]] = l
  <2>1. reserved[l] \in Effects /\ Reserves(reserved[l]) /\ Target[reserved[l]] = l
    BY <1>5 DEF EffectPart, EffectTypes, ReservationsMatch
  <2> QED BY <1>3, <2>1 DEF Reserves
<1>6. ReservationsMatch'
  BY <1>4, <1>5 DEF ReservationsMatch
<1> QED BY <1>1, <1>2, <1>6 DEF EffectPart, EffectTypes

\* A reservation names the effect while it reserves.
LEMMA HoldsTarget ==
  ASSUME EffectPart, NEW e \in Effects, Reserves(e)
  PROVE  reserved[Target[e]] \in {None, e}
BY DEF EffectPart, ReservationsMatch

\* The field-wise updates of effect[e] the actions make.
LEMMA EffectUpdate ==
  ASSUME EffectPart, NEW e \in Effects
  PROVE  /\ effect[e] \in EffectRecord
         /\ \A s \in EffectStates : [effect[e] EXCEPT !.state = s] \in EffectRecord
         /\ NeverSent(effect[e])
BY DEF EffectPart, EffectTypes, EffectRecord, ClosedWasNeverSent, NeverSent

\* _register_effect
LEMMA RequestKeepsEffects ==
  ASSUME EffectPart, NEW e \in Effects, NEW side \in {"BUY", "SELL"},
         RequestEffect(e, side)
  PROVE  EffectPart'
<1> DEFINE r == [effect[e] EXCEPT !.state = "REQUESTED", !.side = side]
<1>1. effect' = [effect EXCEPT ![e] = r]
  BY DEF RequestEffect, EffectPart, EffectTypes, EffectRecord
<1>2. /\ effect[e] \in EffectRecord /\ NeverSent(effect[e])
      /\ effect[e].state = "NONE"
  BY EffectUpdate DEF RequestEffect
<1>3. r \in EffectRecord /\ NeverSent(r)
  BY <1>2 DEF EffectRecord, EffectStates, NeverSent
<1>4. Kind[e] = "CANCEL" => reserved[Target[e]] = None
  BY DEF RequestEffect, TargetIsExactActive
<1> HIDE DEF r
<1>5. ReserveTarget(e)
  BY DEF RequestEffect
<1> QED BY <1>1, <1>3, <1>4, <1>5, EffectFollowed

\* _record_claim
LEMMA ClaimKeepsEffects ==
  ASSUME EffectPart, NEW e \in Effects, RecordDispatchClaim(e)
  PROVE  EffectPart'
<1> DEFINE r == [effect[e] EXCEPT !.state = "DISPATCH_CLAIMED", !.claimed = TRUE]
<1>1. effect' = [effect EXCEPT ![e] = r] /\ reserved' = reserved
  BY DEF RecordDispatchClaim, EffectPart, EffectTypes, EffectRecord
<1>2. /\ effect[e] \in EffectRecord /\ NeverSent(effect[e])
      /\ effect[e].state = "REQUESTED"
  BY EffectUpdate DEF RecordDispatchClaim
<1>3. r \in EffectRecord /\ NeverSent(r) /\ r.state = "DISPATCH_CLAIMED"
  BY <1>2 DEF EffectRecord, EffectStates, NeverSent
<1> HIDE DEF r
<1>4. effect'[e] = r
  BY <1>1 DEF EffectPart, EffectTypes
<1>5. Reserves(e)' <=> Reserves(e)
  BY <1>2, <1>3, <1>4 DEF Reserves
<1> QED BY <1>1, <1>3, <1>5, EffectInPlace

\* CancelBeforeDispatch: a request that is withdrawn.
LEMMA StandDownKeepsEffects ==
  ASSUME EffectPart, NEW e \in Effects, CancelBeforeDispatch(e)
  PROVE  EffectPart'
<1> DEFINE r == [effect[e] EXCEPT !.state = "CANCELED_BEFORE_DISPATCH"]
<1>1. effect' = [effect EXCEPT ![e] = r] /\ ReserveTarget(e)
  BY DEF CancelBeforeDispatch, EffectPart, EffectTypes, EffectRecord
<1>2. /\ effect[e] \in EffectRecord /\ NeverSent(effect[e])
      /\ effect[e].state = "REQUESTED" /\ ~effect[e].claimed
  BY EffectUpdate DEF CancelBeforeDispatch
<1>3. r \in EffectRecord /\ NeverSent(r)
  BY <1>2 DEF EffectRecord, EffectStates, NeverSent
<1>4. Kind[e] = "CANCEL" => reserved[Target[e]] \in {None, e}
  BY <1>2, HoldsTarget DEF Reserves
<1> HIDE DEF r
<1> QED BY <1>1, <1>3, <1>4, EffectFollowed

\* RecordTransportOutcome, also when a restart records it.
LEMMA OutcomeKeepsEffects ==
  ASSUME EffectPart, NEW e \in Effects, NEW o, RecordTransportOutcome(e, o)
  PROVE  EffectPart'
<1> DEFINE r == [effect[e] EXCEPT !.state = o]
<1>1. effect' = [effect EXCEPT ![e] = r] /\ ReserveTarget(e)
  BY DEF RecordTransportOutcome, EffectPart, EffectTypes, EffectRecord
<1>2. /\ effect[e] \in EffectRecord /\ NeverSent(effect[e])
      /\ effect[e].state \in {"DISPATCH_CLAIMED", "OUTCOME_UNKNOWN"}
      /\ o \in {"ACKNOWLEDGED", "REJECTED", "OUTCOME_UNKNOWN", "NEEDS_REVIEW"}
  BY EffectUpdate DEF RecordTransportOutcome, Outcomes
<1>3. r \in EffectRecord /\ NeverSent(r)
  BY <1>2 DEF EffectRecord, EffectStates, NeverSent
<1>4. Kind[e] = "CANCEL" => reserved[Target[e]] \in {None, e}
  BY <1>2, HoldsTarget DEF Reserves
<1> HIDE DEF r
<1> QED BY <1>1, <1>3, <1>4, EffectFollowed

\* An update of the acceptance set alone.
LEMMA AcceptanceKeepsEffects ==
  ASSUME EffectPart, NEW e \in Effects, NEW a \in {"OPEN", "CLOSED", "INVALIDATED"},
         effect' = [effect EXCEPT ![e].acceptance = a], reserved' = reserved,
         a = "CLOSED" => effect[e].state = "CANCELED_BEFORE_DISPATCH"
  PROVE  EffectPart'
<1> DEFINE r == [effect[e] EXCEPT !.acceptance = a]
<1>1. effect' = [effect EXCEPT ![e] = r]
  BY DEF EffectPart, EffectTypes, EffectRecord
<1>2. effect[e] \in EffectRecord /\ NeverSent(effect[e])
  BY EffectUpdate
<1>3. r \in EffectRecord /\ NeverSent(r) /\ r.state = effect[e].state
  BY <1>2 DEF EffectRecord, NeverSent
<1> HIDE DEF r
<1>4. effect'[e] = r
  BY <1>1 DEF EffectPart, EffectTypes
<1>5. Reserves(e)' <=> Reserves(e)
  BY <1>3, <1>4 DEF Reserves
<1> QED BY <1>1, <1>3, <1>5, EffectInPlace

----------------------------------------------------------------------------
(* Legs and the authority summary.                                         *)

\* What an effect contributes depends on the effect, on which legs it owns
\* and on their status, pending operation and dispute.
SameWork(e) ==
  /\ effect'[e] = effect[e]
  /\ \A l \in Legs : leg'[l].owner = e <=> leg[l].owner = e
  /\ \A l \in Legs : leg[l].owner = e =>
       /\ leg'[l].status = leg[l].status
       /\ leg'[l].pending = leg[l].pending
       /\ l \in unresolved' <=> l \in unresolved

\* Two equal inputs give one contribution.
LEMMA DerivedFrame ==
  ASSUME NEW e \in Effects, SameWork(e)
  PROVE  Derived(e)' = Derived(e)
<1>1. Owned(e)' = Owned(e)
  BY DEF SameWork, Owned
<1>2. Owned(e)' \cap unresolved' = Owned(e) \cap unresolved
  BY <1>1 DEF SameWork, Owned
<1>3. {l \in Owned(e) : IsActive(l)}' = {l \in Owned(e) : IsActive(l)}
  BY <1>1 DEF SameWork, Owned, IsActive
<1>4. \A l \in Owned(e) : leg'[l].status = leg[l].status /\ leg'[l].pending = leg[l].pending
  BY DEF SameWork, Owned
<1>5. effect'[e] = effect[e]
  BY DEF SameWork
<1> QED BY <1>1, <1>2, <1>3, <1>4, <1>5 DEF Derived

\* The summary stays exact when every effect whose work changed is refreshed.
LEMMA SummaryKept ==
  ASSUME SummaryIsDerived, NEW A, Refresh(A), \A e \in Effects \ A : SameWork(e)
  PROVE  SummaryIsDerived'
<1> SUFFICES ASSUME NEW e \in Effects, effect'[e].state # "NONE"
             PROVE  authority'[e] = Derived(e)'
  BY DEF SummaryIsDerived
<1>1. CASE e \in A
  BY <1>1 DEF Refresh
<1>2. CASE e \notin A
  <2>1. authority'[e] = authority[e]
    BY <1>2 DEF Refresh
  <2>2. SameWork(e)
    BY <1>2
  <2>3. authority[e] = Derived(e)
    BY <2>2 DEF SummaryIsDerived, SameWork
  <2> QED BY <2>1, <2>2, <2>3, DerivedFrame
<1> QED BY <1>1, <1>2

\* It stays exact when no effect's work changed and nothing is refreshed.
LEMMA SummaryStays ==
  ASSUME SummaryIsDerived, UNCHANGED <<effect, leg, unresolved, authority>>
  PROVE  SummaryIsDerived'
<1> SUFFICES ASSUME NEW e \in Effects, effect'[e].state # "NONE"
             PROVE  authority'[e] = Derived(e)'
  BY DEF SummaryIsDerived
<1>1. SameWork(e)
  BY DEF SameWork
<1> QED BY <1>1, DerivedFrame DEF SummaryIsDerived

\* One effect changes.
LEMMA SummaryAtEffect ==
  ASSUME SummaryIsDerived, EffectTypes, NEW e \in Effects, NEW r,
         effect' = [effect EXCEPT ![e] = r], UNCHANGED <<leg, unresolved>>, Refresh({e})
  PROVE  SummaryIsDerived'
<1>1. \A d \in Effects \ {e} : SameWork(d)
  BY DEF SameWork, EffectTypes
<1> QED BY <1>1, SummaryKept

\* One leg changes, or comes to be in dispute, under its owner.
LEMMA SummaryAtLeg ==
  ASSUME SummaryIsDerived, LegTypes, NEW l \in Legs, leg'[l].owner = leg[l].owner,
         effect' = effect, \A k \in Legs \ {l} : leg'[k] = leg[k],
         unresolved' \subseteq unresolved \cup {l}, unresolved \subseteq unresolved',
         Refresh({leg[l].owner})
  PROVE  SummaryIsDerived'
<1>1. \A d \in Effects \ {leg[l].owner} : SameWork(d)
  BY DEF SameWork
<1> QED BY <1>1, SummaryKept

\* A leg with another status, pending operation or cumulative.
LEMMA LegUpdate ==
  ASSUME LegTypes, NEW l \in Legs, NEW s \in Active \cup {"CLOSED", "UNKNOWN"},
         NEW p \in PendingOps, NEW c \in Nat, UNCHANGED unresolved,
         leg' = [leg EXCEPT ![l].status = s, ![l].pending = p, ![l].cum = c]
  PROVE  /\ LegTypes'
         /\ leg'[l].owner = leg[l].owner
         /\ \A k \in Legs \ {l} : leg'[k] = leg[k]
<1> DEFINE r == [leg[l] EXCEPT !.status = s, !.pending = p, !.cum = c]
<1>1. leg[l] \in LegRecord
  BY DEF LegTypes
<1>2. leg' = [leg EXCEPT ![l] = r]
  BY DEF LegTypes
<1>3. r \in LegRecord /\ r.owner = leg[l].owner
  BY <1>1 DEF LegRecord
<1> HIDE DEF r
<1> QED BY <1>2, <1>3 DEF LegTypes

LegPart == LegTypes /\ SummaryIsDerived

\* A leg keeps its owner, whatever is observed of it.
OwnersStay == \A l \in Legs : leg'[l].owner = leg[l].owner

\* Requests, claims, withdrawals and closures touch no leg.
LEMMA EffectKeepsLegs ==
  ASSUME LegPart, EffectTypes, NEW e \in Effects, NEW r,
         effect' = [effect EXCEPT ![e] = r], UNCHANGED <<leg, unresolved>>, Refresh({e})
  PROVE  LegPart' /\ OwnersStay
BY SummaryAtEffect DEF LegPart, LegTypes, OwnersStay

\* Operators and the venue change one leg.
LEMMA LegKeepsLegs ==
  ASSUME LegPart, NEW l \in Legs, NEW s \in Active \cup {"CLOSED", "UNKNOWN"},
         NEW p \in PendingOps, NEW c \in Nat, UNCHANGED <<effect, unresolved>>,
         leg' = [leg EXCEPT ![l].status = s, ![l].pending = p, ![l].cum = c],
         Refresh({leg[l].owner})
  PROVE  LegPart' /\ OwnersStay
<1>1. /\ LegTypes' /\ leg'[l].owner = leg[l].owner
      /\ \A k \in Legs \ {l} : leg'[k] = leg[k]
  BY LegUpdate DEF LegPart
<1>2. SummaryIsDerived'
  BY <1>1, SummaryAtLeg DEF LegPart
<1> QED BY <1>1, <1>2 DEF LegPart, OwnersStay

\* A cancel's outcome changes the effect and shows on the target's owner.
LEMMA OutcomeKeepsLegs ==
  ASSUME LegPart, EffectTypes, NEW e \in Effects, NEW o, RecordTransportOutcome(e, o)
  PROVE  LegPart' /\ OwnersStay
<1> DEFINE r == [effect[e] EXCEPT !.state = o]
<1>1. /\ effect' = [effect EXCEPT ![e] = r] /\ CancelShows(e, o)
      /\ UNCHANGED unresolved /\ Refresh(CancelAffects(e))
  BY DEF RecordTransportOutcome, EffectTypes, EffectRecord, evidence
<1>2. \A d \in Effects \ {e} : effect'[d] = effect[d]
  BY <1>1 DEF EffectTypes
<1> HIDE DEF r
<1>3. CASE Kind[e] = "CANCEL" /\ IsActive(Target[e])
  <2> DEFINE l == Target[e]
             p == IF o \in {"ACKNOWLEDGED", "OUTCOME_UNKNOWN"} THEN "CANCEL" ELSE "NONE"
  <2>1. l \in Legs
    BY <1>3, VenueAssumption
  <2>2. leg' = [leg EXCEPT ![l].pending = p] /\ p \in PendingOps
    BY <1>1, <1>3 DEF CancelShows, PendingOps
  <2> HIDE DEF l, p
  <2>3. leg' = [leg EXCEPT ![l].status = leg[l].status, ![l].pending = p,
                           ![l].cum = leg[l].cum]
    BY <2>1, <2>2 DEF LegPart, LegTypes, LegRecord
  <2>4. leg[l].status \in Active \cup {"CLOSED", "UNKNOWN"} /\ leg[l].cum \in Nat
    BY <2>1 DEF LegPart, LegTypes, LegRecord
  <2>5. /\ LegTypes' /\ leg'[l].owner = leg[l].owner
        /\ \A k \in Legs \ {l} : leg'[k] = leg[k]
    <3>1. p \in PendingOps /\ UNCHANGED unresolved /\ LegTypes
      BY <1>1, <2>2 DEF LegPart
    <3> QED BY <2>1, <2>3, <2>4, <3>1, LegUpdate
  <2>6. CancelAffects(e) = {e, leg[l].owner}
    BY <1>3 DEF CancelAffects, l
  <2>7. \A d \in Effects \ {e, leg[l].owner} : SameWork(d)
    BY <1>1, <1>2, <2>5 DEF SameWork
  <2>8. SummaryIsDerived'
    BY <1>1, <2>6, <2>7, SummaryKept DEF LegPart
  <2> QED BY <2>5, <2>8 DEF LegPart, OwnersStay
<1>4. CASE ~(Kind[e] = "CANCEL" /\ IsActive(Target[e]))
  <2>1. leg' = leg /\ CancelAffects(e) = {e}
    BY <1>1, <1>4 DEF CancelShows, CancelAffects
  <2> QED BY <1>1, <2>1, EffectKeepsLegs
<1> QED BY <1>3, <1>4

\* _discover_leg: the leg gets the effect that is refreshed as its owner.
LEMMA DiscoverKeepsLegs ==
  ASSUME LegPart, EffectTypes, NEW e \in Effects, NEW l \in Legs, DiscoverVenueLeg(e, l)
  PROVE  LegPart'
<1> DEFINE n == [owner |-> e, status |-> "WORKING", pending |-> "NONE", cum |-> 0]
<1>1. n \in LegRecord /\ n.owner = e
  BY DEF LegRecord, Active, PendingOps
<1>2. leg' = [leg EXCEPT ![l] = n] /\ UNCHANGED unresolved /\ Refresh({e})
  BY DEF DiscoverVenueLeg, evidence
<1> HIDE DEF n
<1>3. LegTypes' /\ leg'[l] = n /\ \A k \in Legs \ {l} : leg'[k] = leg[k]
  BY <1>1, <1>2 DEF LegPart, LegTypes
<1>4. leg[l].owner = None /\ None \notin Effects
  BY VenueAssumption DEF DiscoverVenueLeg
<1>5. \A d \in Effects \ {e} : effect'[d] = effect[d]
  BY DEF DiscoverVenueLeg, EffectTypes
<1>6. \A d \in Effects \ {e} : SameWork(d)
  BY <1>1, <1>2, <1>3, <1>4, <1>5 DEF SameWork
<1>7. SummaryIsDerived'
  BY <1>2, <1>6, SummaryKept DEF LegPart
<1> QED BY <1>3, <1>7 DEF LegPart

\* Evidence of a fill raises an attempt's cumulative and may dispute the leg.
LEMMA EvidenceKeepsLegs ==
  ASSUME LegPart, NEW l \in Legs, NEW c \in Nat, RaiseAttempt(l, c) \/ UNCHANGED leg,
         UNCHANGED effect, unresolved' \subseteq unresolved \cup {l},
         unresolved \subseteq unresolved', Refresh({leg[l].owner})
  PROVE  LegPart' /\ OwnersStay
<1>0. unresolved' \subseteq Legs
  BY DEF LegPart, LegTypes
<1>1. CASE leg' = leg
  <2>1. SummaryIsDerived'
    BY <1>1, SummaryAtLeg DEF LegPart
  <2> QED BY <1>0, <1>1, <2>1 DEF LegPart, LegTypes, OwnersStay
<1>2. CASE leg' # leg
  <2> DEFINE v == Max({leg[l].cum, c})
             r == [leg[l] EXCEPT !.cum = v]
  <2>1. leg[l] \in LegRecord /\ leg[l].cum \in Nat
    BY DEF LegPart, LegTypes, LegRecord
  <2>2. v \in Nat
    BY <2>1, MaxOfTwo
  <2>3. leg' = [leg EXCEPT ![l] = r]
    BY <1>2 DEF RaiseAttempt, LegPart, LegTypes
  <2> HIDE DEF v
  <2>4. r \in LegRecord /\ r.owner = leg[l].owner
    BY <2>1, <2>2 DEF LegRecord
  <2> HIDE DEF r
  <2>5. /\ leg' \in [Legs -> LegRecord] /\ leg'[l].owner = leg[l].owner
        /\ \A k \in Legs \ {l} : leg'[k] = leg[k]
    BY <2>3, <2>4 DEF LegPart, LegTypes
  <2>6. SummaryIsDerived'
    BY <2>5, SummaryAtLeg DEF LegPart
  <2> QED BY <1>0, <2>5, <2>6 DEF LegPart, LegTypes, OwnersStay
<1> QED BY <1>1, <1>2

----------------------------------------------------------------------------
(* Coverage, totals and the quarantine.                                    *)

EconomicPart ==
  /\ CoverTypes
  /\ ExecTypes
  /\ OneIntervalPerRoot
  /\ TailEndsAtTotal
  /\ OverCapacityIsQuarantined

\* An owned leg stays with its owner.
OwnersKept ==
  \A l \in Legs : leg'[l].owner = leg[l].owner \/ leg[l].owner = None

\* An effect loses no leg.
LEMMA OwnedGrows ==
  ASSUME OwnersKept, NEW e \in Effects
  PROVE  Owned(e) \subseteq Owned(e)'
BY VenueAssumption DEF OwnersKept, Owned

\* The position grows, disputes are added, no coverage changes.
LEMMA GrowthKeepsEconomics ==
  ASSUME EconomicPart, OwnersKept, Grown(exec, exec'),
         UNCHANGED <<broker, cover, total>>, unresolved \subseteq unresolved'
  PROVE  EconomicPart'
<1>1. CoverTypes' /\ ExecTypes'
  BY DEF EconomicPart, CoverTypes, ExecTypes, Grown
<1>2. OneIntervalPerRoot'
  <2>1. \A b \in broker : b.root \in Roots /\ HeadAt(exec, b.root) # {}
    BY DEF EconomicPart, CoverTypes, BrokerRecord, OneIntervalPerRoot
  <2>2. \A b \in broker : HeadAt(exec', b.root) # {}
    BY <2>1 DEF Grown
  <2>3. \A b, c \in broker : b.root = c.root => b = c
    BY DEF EconomicPart, OneIntervalPerRoot
  <2> QED BY <2>2, <2>3 DEF OneIntervalPerRoot, HeadAt
<1>3. TailEndsAtTotal'
  BY DEF EconomicPart, TailEndsAtTotal
<1>4. OverCapacityIsQuarantined'
  <2> SUFFICES ASSUME NEW e \in Effects, total'[e] > Capacity[e],
                      Owned(e)' \cap unresolved' = {}
               PROVE  Overfill \in exec'.integrity
    BY DEF OverCapacityIsQuarantined
  <2>1. Owned(e) \cap unresolved = {}
    BY OwnedGrows
  <2>2. Overfill \in exec.integrity
    BY <2>1 DEF EconomicPart, OverCapacityIsQuarantined
  <2> QED BY <2>2 DEF Grown
<1> QED BY <1>1, <1>2, <1>3, <1>4 DEF EconomicPart

\* No evidence is recorded.
LEMMA EconomicsStay ==
  ASSUME EconomicPart, OwnersKept, UNCHANGED evidence
  PROVE  EconomicPart'
<1>1. UNCHANGED <<exec, broker, cover, total, unresolved>>
  BY DEF evidence
<1>2. Grown(exec, exec')
  BY <1>1, GrownReflexive DEF EconomicPart, ExecTypes
<1> QED BY <1>1, <1>2, GrowthKeepsEconomics

\* A resized interval keeps the tail.
LEMMA ResizedCover ==
  ASSUME NEW r \in CoverRecord, NEW v \in Int, NEW t \in Int
  PROVE  LET c == [r EXCEPT !.total = t, !.frontier = v]
         IN  c \in CoverRecord /\ c.frontier = v /\ c.total = t /\ c.tail = r.tail
BY DEF CoverRecord

\* An inexact one keeps the frontier too.
LEMMA InexactCover ==
  ASSUME NEW r \in CoverRecord, NEW t \in Int, NEW x \in BOOLEAN
  PROVE  [r EXCEPT !.total = t, !.inexact = x] \in CoverRecord
BY DEF CoverRecord

\* Cover moves the leg's coverage and its effect's total together.
LEMMA CoverMoves ==
  ASSUME CoverTypes, NEW l \in Legs, leg[l].owner \in Effects,
         NEW c \in CoverRecord, Cover(l, c)
  PROVE  /\ cover' \in [Legs -> CoverRecord] /\ total' \in [Effects -> Int]
         /\ cover'[l] = c /\ \A k \in Legs \ {l} : cover'[k] = cover[k]
         /\ total'[leg[l].owner] = total[leg[l].owner] + c.total - cover[l].total
         /\ \A d \in Effects \ {leg[l].owner} : total'[d] = total[d]
<1>1. c.total \in Int /\ cover[l].total \in Int /\ total[leg[l].owner] \in Int
  BY DEF CoverTypes, CoverRecord
<1> DEFINE v == total[leg[l].owner] + c.total - cover[l].total
<1>2. v \in Int
  BY <1>1
<1>3. total' = [total EXCEPT ![leg[l].owner] = v]
  BY DEF Cover, CoverTypes
<1> HIDE DEF v
<1>4. /\ total' \in [Effects -> Int] /\ total'[leg[l].owner] = v
      /\ \A d \in Effects \ {leg[l].owner} : total'[d] = total[d]
  BY <1>2, <1>3 DEF CoverTypes
<1>5. /\ cover' \in [Legs -> CoverRecord] /\ cover'[l] = c
      /\ \A k \in Legs \ {l} : cover'[k] = cover[k]
  BY DEF Cover, CoverTypes
<1> QED BY <1>4, <1>5 DEF v

\* What an effect that was not named keeps.
LEMMA OtherEffectsStayQuarantined ==
  ASSUME EconomicPart, OwnersKept, Grown(exec, exec'), unresolved \subseteq unresolved',
         NEW d \in Effects, total'[d] = total[d],
         total'[d] > Capacity[d], Owned(d)' \cap unresolved' = {}
  PROVE  Overfill \in exec'.integrity
<1>1. Owned(d) \cap unresolved = {}
  BY OwnedGrows
<1> QED BY <1>1 DEF EconomicPart, OverCapacityIsQuarantined, Grown

\* The next interval of a leg, from an operator (N empty) or from the broker
\* (N its interval): the root is new, the coverage and the total move alike.
LEMMA AppendKeepsEconomics ==
  ASSUME EconomicPart, OwnersKept, NEW f \in Facts, NEW l \in Legs,
         leg[l].owner \in Effects, NEW resulting \in Nat, NEW N,
         f.qty \in Nat, resulting = cover[l].frontier + f.qty,
         AppendInterval(l, f.root, f.qty, resulting),
         broker' = broker \cup N, N \subseteq BrokerRecord,
         \A b, c \in N : b = c,
         \A b \in N : b.leg = l /\ b.root = f.root /\ b.resulting = resulting,
         HeadAt(exec, f.root) = {}, HeadAt(exec', f.root) # {}, Grown(exec, exec'),
         UNCHANGED unresolved,
         total[leg[l].owner] + f.qty > Capacity[leg[l].owner] => Overfill \in exec'.integrity
  PROVE  EconomicPart'
<1> DEFINE e == leg[l].owner
           v == Max({cover[l].frontier, resulting})
           t == cover[l].total + f.qty
           rt == f.root
           c == [cover[l] EXCEPT !.frontier = v, !.total = t, !.tail = rt]
<1>1. cover[l] \in CoverRecord /\ cover[l].frontier \in Int /\ cover[l].total \in Int
  BY DEF EconomicPart, CoverTypes, CoverRecord
<1>2. Max({cover[l].frontier, resulting}) = resulting
  BY <1>1, MaxOfTwo
<1>3. Cover(l, c)
  BY <1>1 DEF AppendInterval, CoverRecord
<1>4. f.root \in Roots
  BY DEF Roots
<1>5. /\ c \in CoverRecord /\ c.frontier = resulting /\ c.total = cover[l].total + f.qty
      /\ c.tail = f.root
  <2>1. v \in Int /\ t \in Int /\ v = resulting /\ t = cover[l].total + f.qty
    BY <1>1, <1>2
  <2> HIDE DEF v, t, rt
  <2>2. cover[l] \in CoverRecord /\ v \in Int /\ t \in Int /\ rt \in Roots
    BY <1>1, <1>4, <2>1 DEF rt
  <2>3. c \in CoverRecord /\ c.frontier = v /\ c.total = t /\ c.tail = rt
    BY <2>2 DEF CoverRecord
  <2> HIDE DEF c
  <2> QED BY <2>1, <2>3 DEF rt
<1> HIDE DEF c
<1>6. /\ cover' \in [Legs -> CoverRecord] /\ total' \in [Effects -> Int]
      /\ cover'[l] = c /\ \A k \in Legs \ {l} : cover'[k] = cover[k]
      /\ total'[e] = total[e] + c.total - cover[l].total
      /\ \A d \in Effects \ {e} : total'[d] = total[d]
  BY <1>3, <1>5, CoverMoves DEF EconomicPart
<1>7. CoverTypes' /\ ExecTypes'
  BY <1>6 DEF EconomicPart, CoverTypes, ExecTypes, Grown
<1>8. /\ \A b \in broker : b.root \in Roots /\ HeadAt(exec, b.root) # {}
      /\ \A b \in broker : b.root # f.root
      /\ \A a, b \in broker : a.root = b.root => a = b
  BY DEF EconomicPart, CoverTypes, BrokerRecord, OneIntervalPerRoot
<1>9. OneIntervalPerRoot'
  <2>1. \A b \in broker' : HeadAt(exec', b.root) # {}
    BY <1>8 DEF Grown
  <2>2. \A a, b \in broker' : a.root = b.root => a = b
    BY <1>8
  <2> QED BY <2>1, <2>2 DEF OneIntervalPerRoot, HeadAt
<1>10. TailEndsAtTotal'
  <2> SUFFICES ASSUME NEW k \in Legs \ unresolved
               PROVE  /\ cover'[k].frontier = cover'[k].total
                      /\ \A b \in broker' : b.leg = k /\ b.root = cover'[k].tail
                                              => b.resulting = cover'[k].total
    BY DEF TailEndsAtTotal
  <2>1. /\ cover[k].frontier = cover[k].total
        /\ \A b \in broker : b.leg = k /\ b.root = cover[k].tail
                                => b.resulting = cover[k].total
    BY DEF EconomicPart, TailEndsAtTotal
  <2>2. CASE k = l
    <3>1. c.frontier = c.total
      BY <1>5, <2>1, <2>2
    <3>2. \A b \in broker' : b.root = f.root => b.resulting = c.total
      BY <1>5, <1>8, <3>1
    <3> QED BY <1>5, <1>6, <2>2, <3>1, <3>2
  <2>3. CASE k # l
    BY <1>6, <2>1, <2>3
  <2> QED BY <2>2, <2>3
<1>11. OverCapacityIsQuarantined'
  <2> SUFFICES ASSUME NEW d \in Effects, total'[d] > Capacity[d],
                      Owned(d)' \cap unresolved' = {}
               PROVE  Overfill \in exec'.integrity
    BY DEF OverCapacityIsQuarantined
  <2>1. CASE d = e
    <3>1. total[e] \in Int
      BY DEF EconomicPart, CoverTypes
    <3>2. total'[e] = total[e] + f.qty
      BY <1>1, <1>5, <1>6, <3>1
    <3> QED BY <2>1, <3>2
  <2>2. CASE d # e
    <3>1. total'[d] = total[d]
      BY <1>6, <2>2
    <3> QED BY <3>1, OtherEffectsStayQuarantined
  <2> QED BY <2>1, <2>2
<1> QED BY <1>7, <1>9, <1>10, <1>11 DEF EconomicPart

\* Resizing the leg's last broker interval: the interval is the leg's own, it
\* ends at the leg's total, and the total follows the claim of the input.
LEMMA ResizeExactlyKeepsEconomics ==
  ASSUME EconomicPart, OwnersKept, NEW item, item.fact.leg \in Legs,
         leg[item.fact.leg].owner \in Effects, item.resulting \in Nat,
         ExactMapping(item), ResizeExactly(item), Grown(exec, exec'),
         total[leg[item.fact.leg].owner] - item.prior + item.resulting
             > Capacity[leg[item.fact.leg].owner] => Overfill \in exec'.integrity
  PROVE  EconomicPart'
<1> DEFINE l == item.fact.leg
           e == leg[l].owner
           b0 == CHOOSE b \in broker : b.root = item.fact.root
           n == [b0 EXCEPT !.resulting = item.resulting]
           t == cover[l].total + item.resulting - b0.resulting
           v == IF item.resulting # b0.resulting THEN item.resulting
                                                 ELSE cover[l].frontier
           c == [cover[l] EXCEPT !.total = t, !.frontier = v]
<1>1. PICK b1 \in broker : b1.root = item.fact.root /\ b1.leg = l
  BY DEF ExactMapping
<1>2. b0 \in broker /\ b0.root = item.fact.root
  BY <1>1
<1>3. /\ item.prior = cover[l].total /\ cover[l].tail = item.fact.root
      /\ broker' = (broker \ {b0}) \cup {n}
      /\ Cover(l, c) /\ unresolved' = unresolved
  BY DEF ExactMapping, ResizeExactly, EconomicPart, CoverTypes, CoverRecord
<1> HIDE DEF b0
<1>4. b0.leg = l
  BY <1>1, <1>2 DEF EconomicPart, OneIntervalPerRoot
<1>5. b0 \in BrokerRecord
  BY <1>2 DEF EconomicPart, CoverTypes
<1>6. n \in BrokerRecord /\ n.root = b0.root /\ n.leg = l /\ n.resulting = item.resulting
  BY <1>4, <1>5 DEF BrokerRecord
<1> HIDE DEF n
<1>7. cover[l] \in CoverRecord /\ cover[l].frontier \in Int /\ cover[l].total \in Int
  BY DEF EconomicPart, CoverTypes, CoverRecord
<1>8. b0.resulting \in Nat
  BY <1>5 DEF BrokerRecord
<1>9. /\ c \in CoverRecord /\ c.total = cover[l].total + item.resulting - b0.resulting
      /\ c.frontier = IF item.resulting # b0.resulting THEN item.resulting
                                                       ELSE cover[l].frontier
      /\ c.tail = cover[l].tail
  <2>1. v \in Int /\ t \in Int
    BY <1>7, <1>8
  <2> HIDE DEF v, t
  <2>2. c \in CoverRecord /\ c.frontier = v /\ c.total = t /\ c.tail = cover[l].tail
    BY <1>7, <2>1, ResizedCover
  <2> HIDE DEF c
  <2> QED BY <2>2 DEF v, t
<1> HIDE DEF c
<1>10. /\ cover' \in [Legs -> CoverRecord] /\ total' \in [Effects -> Int]
       /\ cover'[l] = c /\ \A k \in Legs \ {l} : cover'[k] = cover[k]
       /\ total'[e] = total[e] + c.total - cover[l].total
       /\ \A d \in Effects \ {e} : total'[d] = total[d]
  BY <1>3, <1>9, CoverMoves DEF EconomicPart
<1>11. CoverTypes' /\ ExecTypes'
  BY <1>3, <1>6, <1>10 DEF EconomicPart, CoverTypes, ExecTypes, Grown
<1>12. OneIntervalPerRoot'
  <2>1. /\ \A b \in broker : b.root \in Roots /\ HeadAt(exec, b.root) # {}
        /\ \A a, b \in broker : a.root = b.root => a = b
    BY DEF EconomicPart, CoverTypes, BrokerRecord, OneIntervalPerRoot
  <2>2. \A b \in broker' : HeadAt(exec', b.root) # {}
    BY <1>2, <1>3, <1>6, <2>1 DEF Grown
  <2>3. \A a, b \in broker' : a.root = b.root => a = b
    BY <1>2, <1>3, <1>6, <2>1
  <2> QED BY <2>2, <2>3 DEF OneIntervalPerRoot, HeadAt
<1>13. l \notin unresolved => b0.resulting = cover[l].total /\ cover[l].frontier = cover[l].total
  BY <1>2, <1>3, <1>4 DEF EconomicPart, TailEndsAtTotal
<1>14. TailEndsAtTotal'
  <2> SUFFICES ASSUME NEW k \in Legs \ unresolved
               PROVE  /\ cover'[k].frontier = cover'[k].total
                      /\ \A b \in broker' : b.leg = k /\ b.root = cover'[k].tail
                                              => b.resulting = cover'[k].total
    BY <1>3 DEF TailEndsAtTotal
  <2>1. /\ cover[k].frontier = cover[k].total
        /\ \A b \in broker : b.leg = k /\ b.root = cover[k].tail
                                => b.resulting = cover[k].total
    BY DEF EconomicPart, TailEndsAtTotal
  <2>2. CASE k = l
    <3>1. c.total = item.resulting /\ c.frontier = item.resulting
      BY <1>7, <1>8, <1>9, <1>13, <2>2
    <3>2. \A b \in broker' : b.root = item.fact.root => b = n
      BY <1>2, <1>3 DEF EconomicPart, OneIntervalPerRoot
    <3> QED BY <1>3, <1>6, <1>9, <1>10, <2>2, <3>1, <3>2
  <2>3. CASE k # l
    BY <1>3, <1>6, <1>10, <2>1, <2>3
  <2> QED BY <2>2, <2>3
<1>15. OverCapacityIsQuarantined'
  <2> SUFFICES ASSUME NEW d \in Effects, total'[d] > Capacity[d],
                      Owned(d)' \cap unresolved' = {}
               PROVE  Overfill \in exec'.integrity
    BY DEF OverCapacityIsQuarantined
  <2>1. CASE d = e
    <3>1. total[e] \in Int
      BY DEF EconomicPart, CoverTypes
    <3>2. l \notin unresolved
      BY <1>3, <2>1, OwnedGrows DEF Owned
    <3>3. total'[e] = total[e] - item.prior + item.resulting
      BY <1>3, <1>7, <1>8, <1>9, <1>10, <1>13, <3>1, <3>2
    <3> QED BY <2>1, <3>3
  <2>2. CASE d # e
    <3>1. total'[d] = total[d]
      BY <1>10, <2>2
    <3> QED BY <1>3, <3>1, OtherEffectsStayQuarantined
  <2> QED BY <2>1, <2>2
<1> QED BY <1>11, <1>12, <1>14, <1>15 DEF EconomicPart

\* An inexact revision leaves the leg, and with it the effect, in dispute.
LEMMA ResizeInexactlyKeepsEconomics ==
  ASSUME EconomicPart, OwnersKept, NEW item, item.fact.leg \in Legs,
         leg[item.fact.leg].owner \in Effects, item.resulting \in Nat,
         ResizeInexactly(item), Grown(exec, exec')
  PROVE  EconomicPart'
<1> DEFINE l == item.fact.leg
           e == leg[l].owner
           moved(b) == b.root = item.fact.root /\ b.leg = l
           inexact == cover[l].inexact \/ \E b \in broker : moved(b)
           c == [cover[l] EXCEPT !.total = item.resulting, !.inexact = inexact]
<1>1. /\ broker' = {IF moved(b) THEN [b EXCEPT !.exact = FALSE] ELSE b : b \in broker}
      /\ unresolved' = unresolved \cup {l}
  BY DEF ResizeInexactly
<1>2. Cover(l, c)
  BY DEF ResizeInexactly, EconomicPart, CoverTypes, CoverRecord
<1>3. cover[l] \in CoverRecord /\ inexact \in BOOLEAN
  BY DEF EconomicPart, CoverTypes
<1> HIDE DEF inexact
<1>4. c \in CoverRecord
  <2>1. item.resulting \in Int
    OBVIOUS
  <2> QED BY <1>3, <2>1, InexactCover
<1> HIDE DEF c
<1>5. /\ cover' \in [Legs -> CoverRecord] /\ total' \in [Effects -> Int]
      /\ \A k \in Legs \ {l} : cover'[k] = cover[k]
      /\ \A d \in Effects \ {e} : total'[d] = total[d]
  BY <1>2, <1>4, CoverMoves DEF EconomicPart
<1>6. ASSUME NEW b \in broker'
      PROVE  \E a \in broker : /\ b = IF moved(a) THEN [a EXCEPT !.exact = FALSE] ELSE a
                               /\ b \in BrokerRecord /\ b.root = a.root /\ b.leg = a.leg
                               /\ b.resulting = a.resulting
  <2>1. PICK a \in broker : b = IF moved(a) THEN [a EXCEPT !.exact = FALSE] ELSE a
    BY <1>1
  <2>2. a \in BrokerRecord
    BY DEF EconomicPart, CoverTypes
  <2>3. /\ [a EXCEPT !.exact = FALSE] \in BrokerRecord
        /\ [a EXCEPT !.exact = FALSE].root = a.root
        /\ [a EXCEPT !.exact = FALSE].leg = a.leg
        /\ [a EXCEPT !.exact = FALSE].resulting = a.resulting
    BY <2>2 DEF BrokerRecord
  <2> QED BY <2>1, <2>2, <2>3
<1>7. CoverTypes' /\ ExecTypes'
  BY <1>5, <1>6 DEF EconomicPart, CoverTypes, ExecTypes, Grown
<1>8. OneIntervalPerRoot'
  <2>1. /\ \A b \in broker : b.root \in Roots /\ HeadAt(exec, b.root) # {}
        /\ \A a, b \in broker : a.root = b.root => a = b
    BY DEF EconomicPart, CoverTypes, BrokerRecord, OneIntervalPerRoot
  <2>2. \A b \in broker' : HeadAt(exec', b.root) # {}
    BY <1>6, <2>1 DEF Grown
  <2>3. ASSUME NEW a \in broker', NEW b \in broker', a.root = b.root PROVE a = b
    <3>1. PICK x \in broker : /\ a = IF moved(x) THEN [x EXCEPT !.exact = FALSE] ELSE x
                              /\ a.root = x.root
      BY <1>6
    <3>2. PICK y \in broker : /\ b = IF moved(y) THEN [y EXCEPT !.exact = FALSE] ELSE y
                              /\ b.root = y.root
      BY <1>6
    <3>3. x = y
      BY <2>1, <2>3, <3>1, <3>2
    <3> QED BY <3>1, <3>2, <3>3
  <2> QED BY <2>2, <2>3 DEF OneIntervalPerRoot, HeadAt
<1>9. TailEndsAtTotal'
  <2> SUFFICES ASSUME NEW k \in Legs \ unresolved'
               PROVE  /\ cover'[k].frontier = cover'[k].total
                      /\ \A b \in broker' : b.leg = k /\ b.root = cover'[k].tail
                                              => b.resulting = cover'[k].total
    BY DEF TailEndsAtTotal
  <2>1. k # l /\ k \in Legs \ unresolved /\ cover'[k] = cover[k]
    BY <1>1, <1>5
  <2>2. /\ cover[k].frontier = cover[k].total
        /\ \A b \in broker : b.leg = k /\ b.root = cover[k].tail
                                => b.resulting = cover[k].total
    BY <2>1 DEF EconomicPart, TailEndsAtTotal
  <2> QED BY <1>6, <2>1, <2>2
<1>10. OverCapacityIsQuarantined'
  <2> SUFFICES ASSUME NEW d \in Effects, total'[d] > Capacity[d],
                      Owned(d)' \cap unresolved' = {}
               PROVE  Overfill \in exec'.integrity
    BY DEF OverCapacityIsQuarantined
  <2>1. d # e
    BY <1>1, OwnedGrows DEF Owned
  <2>2. total'[d] = total[d] /\ unresolved \subseteq unresolved'
    BY <1>1, <1>5, <2>1
  <2> QED BY <2>2, OtherEffectsStayQuarantined
<1> QED BY <1>7, <1>8, <1>9, <1>10 DEF EconomicPart

----------------------------------------------------------------------------
(* The actions.                                                            *)

\* The invariant by parts.
LEMMA Parts ==
  /\ IInv <=> EffectPart /\ LegPart /\ EconomicPart
  /\ IInv' <=> EffectPart' /\ LegPart' /\ EconomicPart'
BY DEF IInv, EffectPart, LegPart, EconomicPart

\* Owners that stay are kept.
LEMMA StayedOwnersAreKept ==
  ASSUME OwnersStay
  PROVE  OwnersKept
BY DEF OwnersStay, OwnersKept

\* An effect changes, no leg and no evidence does.
LEMMA EffectStep ==
  ASSUME IInv, EffectPart', NEW e \in Effects, NEW r, effect' = [effect EXCEPT ![e] = r],
         UNCHANGED <<leg, evidence>>, Refresh({e})
  PROVE  IInv'
<1>1. UNCHANGED <<leg, unresolved>>
  BY DEF evidence
<1>2. LegPart' /\ OwnersStay
  BY <1>1, Parts, EffectKeepsLegs DEF EffectPart
<1>3. EconomicPart'
  BY <1>2, Parts, StayedOwnersAreKept, EconomicsStay
<1> QED BY <1>2, <1>3, Parts

\* An effect is registered.
LEMMA RequestStep ==
  ASSUME IInv, NEW e \in Effects, NEW side \in {"BUY", "SELL"}, RequestEffect(e, side)
  PROVE  IInv'
<1> DEFINE r == [effect[e] EXCEPT !.state = "REQUESTED", !.side = side]
<1>1. effect' = [effect EXCEPT ![e] = r]
  BY Parts DEF RequestEffect, EffectPart, EffectTypes, EffectRecord
<1>2. EffectPart'
  BY Parts, RequestKeepsEffects
<1> HIDE DEF r
<1>3. UNCHANGED <<leg, evidence>> /\ Refresh({e})
  BY DEF RequestEffect
<1> QED BY <1>1, <1>2, <1>3, EffectStep

\* An effect is claimed for dispatch.
LEMMA ClaimStep ==
  ASSUME IInv, NEW e \in Effects, RecordDispatchClaim(e)
  PROVE  IInv'
<1> DEFINE r == [effect[e] EXCEPT !.state = "DISPATCH_CLAIMED", !.claimed = TRUE]
<1>1. effect' = [effect EXCEPT ![e] = r]
  BY Parts DEF RecordDispatchClaim, EffectPart, EffectTypes, EffectRecord
<1>2. EffectPart'
  BY Parts, ClaimKeepsEffects
<1> HIDE DEF r
<1>3. UNCHANGED <<leg, evidence>> /\ Refresh({e})
  BY DEF RecordDispatchClaim
<1> QED BY <1>1, <1>2, <1>3, EffectStep

\* A request is withdrawn.
LEMMA StandDownStep ==
  ASSUME IInv, NEW e \in Effects, CancelBeforeDispatch(e)
  PROVE  IInv'
<1> DEFINE r == [effect[e] EXCEPT !.state = "CANCELED_BEFORE_DISPATCH"]
<1>1. effect' = [effect EXCEPT ![e] = r]
  BY Parts DEF CancelBeforeDispatch, EffectPart, EffectTypes, EffectRecord
<1>2. EffectPart'
  BY Parts, StandDownKeepsEffects
<1> HIDE DEF r
<1>3. UNCHANGED <<leg, evidence>> /\ Refresh({e})
  BY DEF CancelBeforeDispatch
<1> QED BY <1>1, <1>2, <1>3, EffectStep

\* An acceptance set is certified.
LEMMA CloseStep ==
  ASSUME IInv, NEW e \in Effects, CloseAcceptanceSet(e)
  PROVE  IInv'
<1> DEFINE r == [effect[e] EXCEPT !.acceptance = "CLOSED"]
<1>1. effect' = [effect EXCEPT ![e] = r]
  BY Parts DEF CloseAcceptanceSet, EffectPart, EffectTypes, EffectRecord
<1>2. /\ effect' = [effect EXCEPT ![e].acceptance = "CLOSED"] /\ reserved' = reserved
      /\ effect[e].state = "CANCELED_BEFORE_DISPATCH"
  BY DEF CloseAcceptanceSet
<1>3. EffectPart'
  BY <1>2, Parts, AcceptanceKeepsEffects
<1> HIDE DEF r
<1>4. UNCHANGED <<leg, evidence>> /\ Refresh({e})
  BY DEF CloseAcceptanceSet
<1> QED BY <1>1, <1>3, <1>4, EffectStep

\* The outcome of a dispatch, from the transport or from a restart.
LEMMA OutcomeStep ==
  ASSUME IInv, NEW e \in Effects, NEW o, RecordTransportOutcome(e, o)
  PROVE  IInv'
<1>1. EffectPart'
  BY Parts, OutcomeKeepsEffects
<1>2. LegPart' /\ OwnersStay
  BY Parts, OutcomeKeepsLegs DEF EffectPart
<1>3. UNCHANGED evidence
  BY DEF RecordTransportOutcome
<1>4. EconomicPart'
  BY <1>2, <1>3, Parts, StayedOwnersAreKept, EconomicsStay
<1> QED BY <1>1, <1>2, <1>4, Parts

\* A leg is discovered.
LEMMA DiscoverStep ==
  ASSUME IInv, NEW e \in Effects, NEW l \in Legs, DiscoverVenueLeg(e, l)
  PROVE  IInv'
<1> DEFINE a == IF effect[e].acceptance = "CLOSED" THEN "INVALIDATED"
                                                  ELSE effect[e].acceptance
<1>1. effect' = [effect EXCEPT ![e].acceptance = a] /\ reserved' = reserved
  BY DEF DiscoverVenueLeg
<1>2. effect[e].acceptance \in {"OPEN", "CLOSED", "INVALIDATED"}
  BY Parts DEF EffectPart, EffectTypes, EffectRecord
<1>3. a \in {"OPEN", "CLOSED", "INVALIDATED"} /\ a # "CLOSED"
  BY <1>2
<1> HIDE DEF a
<1>4. EffectPart'
  BY <1>1, <1>3, Parts, AcceptanceKeepsEffects
<1>5. LegPart'
  BY Parts, DiscoverKeepsLegs DEF EffectPart
<1>6. OwnersKept /\ UNCHANGED evidence
  <2>1. leg[l].owner = None /\ \A k \in Legs \ {l} : leg'[k] = leg[k]
    BY Parts DEF DiscoverVenueLeg, LegPart, LegTypes
  <2> QED BY <2>1 DEF OwnersKept, DiscoverVenueLeg
<1>7. EconomicPart'
  BY <1>6, Parts, EconomicsStay
<1> QED BY <1>4, <1>5, <1>7, Parts

\* A leg changes under its owner, no effect and no evidence does.
LEMMA LegStep ==
  ASSUME IInv, NEW l \in Legs, NEW s \in Active \cup {"CLOSED", "UNKNOWN"},
         NEW p \in PendingOps, NEW c \in Nat, UNCHANGED <<effect, reserved, evidence>>,
         leg' = [leg EXCEPT ![l].status = s, ![l].pending = p, ![l].cum = c],
         Refresh({leg[l].owner})
  PROVE  IInv'
<1>1. UNCHANGED <<effect, unresolved>>
  BY DEF evidence
<1>2. LegPart' /\ OwnersStay
  BY <1>1, Parts, LegKeepsLegs
<1>3. EconomicPart'
  BY <1>2, Parts, StayedOwnersAreKept, EconomicsStay
<1>4. EffectPart'
  BY Parts, EffectsStay
<1> QED BY <1>2, <1>3, <1>4, Parts

\* The fields of a leg.
LEMMA LegFields ==
  ASSUME IInv, NEW l \in Legs
  PROVE  /\ leg \in [Legs -> LegRecord] /\ leg[l] \in LegRecord
         /\ leg[l].status \in Active \cup {"CLOSED", "UNKNOWN"}
         /\ leg[l].pending \in PendingOps /\ leg[l].cum \in Nat
         /\ leg[l].owner \in Effects \cup {None}
BY DEF IInv, LegTypes, LegRecord

\* A pending operation is recorded.
LEMMA PendingStep ==
  ASSUME IInv, NEW l \in Legs, NEW op \in PendingOps, RecordPendingVenueOperation(l, op)
  PROVE  IInv'
<1>1. leg' = [leg EXCEPT ![l].status = leg[l].status, ![l].pending = op,
                         ![l].cum = leg[l].cum]
  BY LegFields DEF RecordPendingVenueOperation, LegRecord
<1>2. UNCHANGED <<effect, reserved, evidence>> /\ Refresh({leg[l].owner})
  BY DEF RecordPendingVenueOperation
<1>3. leg[l].status \in Active \cup {"CLOSED", "UNKNOWN"} /\ leg[l].cum \in Nat
  BY LegFields
<1> QED BY <1>1, <1>2, <1>3, LegStep

\* A status is observed.
LEMMA StatusStep ==
  ASSUME IInv, NEW l \in Legs, NEW s \in Active \cup {"CLOSED"}, NEW c \in Nat,
         ObserveVenueStatus(l, s, c)
  PROVE  IInv'
<1> DEFINE p == IF s = "CLOSED" THEN "NONE" ELSE leg[l].pending
<1>1. p \in PendingOps
  BY LegFields DEF PendingOps
<1>2. leg' = [leg EXCEPT ![l].status = s, ![l].pending = p, ![l].cum = c]
  BY LegFields DEF ObserveVenueStatus, LegRecord
<1>3. UNCHANGED <<effect, reserved, evidence>> /\ Refresh({leg[l].owner})
  BY DEF ObserveVenueStatus
<1> HIDE DEF p
<1> QED BY <1>1, <1>2, <1>3, LegStep

\* A later terminal status extends the closure.
LEMMA LaterTerminalStep ==
  ASSUME IInv, NEW l \in Legs, NEW c \in Nat, ObserveLaterTerminal(l, c)
  PROVE  IInv'
<1>1. leg' = [leg EXCEPT ![l].status = leg[l].status, ![l].pending = leg[l].pending,
                         ![l].cum = c]
  BY LegFields DEF ObserveLaterTerminal, LegRecord
<1>2. UNCHANGED <<effect, reserved, evidence>> /\ Refresh({leg[l].owner})
  BY DEF ObserveLaterTerminal
<1>3. /\ leg[l].status \in Active \cup {"CLOSED", "UNKNOWN"}
      /\ leg[l].pending \in PendingOps
  BY LegFields
<1> QED BY <1>1, <1>2, <1>3, LegStep

\* The operator releases a leg.
LEMMA ReleaseStep ==
  ASSUME IInv, NEW l \in Legs, NEW filled \in BOOLEAN, ReleaseVenueLeg(l, filled)
  PROVE  IInv'
<1>1. leg' = [leg EXCEPT ![l].status = "CLOSED", ![l].pending = "NONE",
                         ![l].cum = leg[l].cum]
  BY LegFields DEF ReleaseVenueLeg, LegRecord
<1>2. UNCHANGED <<effect, reserved, evidence>> /\ Refresh({leg[l].owner})
  BY DEF ReleaseVenueLeg
<1>3. "NONE" \in PendingOps /\ leg[l].cum \in Nat
  BY LegFields DEF PendingOps
<1> QED BY <1>1, <1>2, <1>3, LegStep

\* Evidence reaches a leg: the parts besides the economics.
LEMMA EvidenceStep ==
  ASSUME IInv, NEW l \in Legs, NEW c \in Nat, RaiseAttempt(l, c) \/ UNCHANGED leg,
         UNCHANGED <<effect, reserved>>, unresolved' \subseteq unresolved \cup {l},
         unresolved \subseteq unresolved', Refresh({leg[l].owner})
  PROVE  EffectPart' /\ LegPart' /\ OwnersKept
<1>1. EffectPart'
  BY Parts, EffectsStay
<1>2. LegPart' /\ OwnersStay
  BY Parts, EvidenceKeepsLegs
<1> QED BY <1>1, <1>2, StayedOwnersAreKept

\* The owner of a leg an input names is an effect.
LEMMA OwnerIsEffect ==
  ASSUME IInv, NEW f, f.leg \in Legs, MatchesOwner(f)
  PROVE  leg[f.leg].owner \in Effects
BY LegFields DEF MatchesOwner

\* A dispute adds no coverage.
LEMMA DisputeStep ==
  ASSUME IInv, NEW l \in Legs, Grown(exec, exec'), unresolved' = unresolved \cup {l},
         UNCHANGED <<effect, leg, reserved, broker, cover, total>>,
         Refresh({leg[l].owner})
  PROVE  IInv'
<1>1. EffectPart' /\ LegPart' /\ OwnersKept
  <2>1. /\ unresolved' \subseteq unresolved \cup {l} /\ unresolved \subseteq unresolved'
        /\ UNCHANGED leg /\ UNCHANGED <<effect, reserved>> /\ 0 \in Nat
    OBVIOUS
  <2> QED BY <2>1, EvidenceStep
<1>2. EconomicPart'
  BY <1>1, Parts, GrowthKeepsEconomics
<1> QED BY <1>1, <1>2, Parts

\* An operator attests the next interval of a leg.
LEMMA HumanFillStep ==
  ASSUME IInv, NEW f \in HumanFills, IngestHumanAttestedFill(f)
  PROVE  IInv'
<1> DEFINE l == f.leg
           e == leg[l].owner
           resulting == f.prior + f.qty
<1>1. /\ f \in Facts /\ f.kind \in RootKinds /\ l \in Legs /\ f.prior \in Nat
      /\ f.qty \in Nat
  BY InputAssumption DEF Facts, RootKinds
<1>2. e \in Effects
  BY <1>1, OwnerIsEffect DEF IngestHumanAttestedFill
<1>3. ExecTypes
  BY DEF IInv
<1>4. exec' = ApplyFact(exec, f).x /\ ApplyFact(exec, f).disp = "APPLIED"
  BY DEF IngestHumanAttestedFill
<1>5. /\ Grown(exec, exec') /\ HeadAt(exec, f.root) = {} /\ HeadAt(exec', f.root) # {}
  BY <1>1, <1>3, <1>4, ApplyFactGrows DEF ExecTypes
<1>6. /\ AppendInterval(l, f.root, f.qty, resulting) /\ RaiseAttempt(l, resulting)
      /\ f.prior = cover[l].frontier /\ total[e] + f.qty <= Capacity[e]
      /\ UNCHANGED <<effect, reserved, broker, unresolved>> /\ Refresh({e})
  BY DEF IngestHumanAttestedFill
<1>7. resulting \in Nat /\ resulting = cover[l].frontier + f.qty
  BY <1>1, <1>6
<1> HIDE DEF resulting
<1>8. EffectPart' /\ LegPart' /\ OwnersKept
  <2>1. /\ unresolved' \subseteq unresolved \cup {l} /\ unresolved \subseteq unresolved'
        /\ RaiseAttempt(l, resulting) \/ UNCHANGED leg
        /\ UNCHANGED <<effect, reserved>>
    BY <1>6
  <2> QED BY <1>1, <1>6, <1>7, <2>1, EvidenceStep
<1>9. EconomicPart'
  <2>1. broker' = broker \cup {} /\ UNCHANGED unresolved
    BY <1>6
  <2>2. ~(total[e] + f.qty > Capacity[e])
    BY <1>1, <1>2, <1>6, VenueAssumption DEF IInv, CoverTypes
  <2> DEFINE N == {}
  <2>3. /\ broker' = broker \cup N /\ N \subseteq BrokerRecord
        /\ \A b, c \in N : b = c
        /\ \A b \in N : b.leg = l /\ b.root = f.root /\ b.resulting = resulting
    BY <2>1
  <2> HIDE DEF N
  <2>4. EconomicPart
    BY Parts
  <2> QED BY <1>1, <1>2, <1>5, <1>6, <1>7, <1>8, <2>1, <2>2, <2>3, <2>4,
             AppendKeepsEconomics
<1> QED BY <1>8, <1>9, Parts

\* An attestation conflicts with the fact under its key.
LEMMA HumanConflictStep ==
  ASSUME IInv, NEW f \in HumanFills, HumanFillConflicts(f)
  PROVE  IInv'
<1>1. f \in Facts /\ ExecTypes
  BY DEF Facts, IInv
<1>2. Grown(exec, exec')
  BY <1>1, ApplyFactGrows DEF HumanFillConflicts, ExecTypes
<1>3. /\ UNCHANGED <<effect, reserved>> /\ UNCHANGED <<broker, cover, total>>
      /\ UNCHANGED <<effect, leg, unresolved, authority>>
      /\ unresolved \subseteq unresolved' /\ OwnersKept
  BY DEF HumanFillConflicts, OwnersKept
<1>4. EffectPart'
  BY <1>3, Parts, EffectsStay
<1>5. LegPart'
  BY <1>3, Parts, SummaryStays DEF LegPart, LegTypes
<1>6. EconomicPart'
  BY <1>2, <1>3, Parts, GrowthKeepsEconomics
<1> QED BY <1>4, <1>5, <1>6, Parts

\* Broker evidence of a fill.
LEMMA FillStep ==
  ASSUME IInv, NEW i \in FillInputs, NEW closing \in BOOLEAN,
         RecordBrokerFillEvidence(FillItem(i, closing))
  PROVE  IInv'
<1> DEFINE item == FillItem(i, closing)
           f == i.fact
           l == f.leg
           e == leg[l].owner
<1>1. /\ item.fact = f /\ item.prior = i.prior /\ item.resulting = i.resulting
      /\ item.closing = closing
  BY DEF FillItem
<1>2. /\ f \in Facts /\ f.kind \in RootKinds /\ l \in Legs /\ f.qty \in Nat
      /\ i.prior \in Nat /\ i.resulting \in Nat /\ i.resulting > i.prior
  BY InputAssumption DEF Facts, RootKinds
<1> HIDE DEF item
<1>3. ExecTypes
  BY DEF IInv
<1>4. ASSUME Dispute(item) PROVE IInv'
  <2>1. /\ exec' = RecordReconciliation(exec, f).x
        /\ unresolved' = unresolved \cup {l}
        /\ UNCHANGED <<effect, leg, reserved, broker, cover, total>>
        /\ Refresh({leg[l].owner})
    BY <1>1, <1>4 DEF Dispute
  <2>2. Grown(exec, exec')
    BY <1>2, <1>3, <2>1, RecordReconciliationGrows DEF ExecTypes
  <2> QED BY <1>2, <2>1, <2>2, DisputeStep
<1>5. CASE FillAttributionChanged(item)
  BY <1>4, <1>5 DEF FillAttributionChanged
<1>6. CASE FillUnmappable(item)
  BY <1>4, <1>6 DEF FillUnmappable
<1>7. CASE FillCorroborates(item)
  <2>1. exec' = RecordCorroboration(exec, f).x
    BY <1>1, <1>7 DEF FillCorroborates
  <2>2. Grown(exec, exec')
    BY <1>2, <1>3, <2>1, RecordCorroborationGrows DEF ExecTypes
  <2>3. /\ UNCHANGED <<effect, reserved>> /\ UNCHANGED <<broker, cover, total>>
        /\ UNCHANGED <<effect, leg, unresolved, authority>>
        /\ unresolved \subseteq unresolved' /\ OwnersKept
    BY <1>7 DEF FillCorroborates, OwnersKept
  <2>4. EffectPart'
    BY <2>3, Parts, EffectsStay
  <2>5. LegPart'
    BY <2>3, Parts, SummaryStays DEF LegPart, LegTypes
  <2>6. EconomicPart'
    BY <2>2, <2>3, Parts, GrowthKeepsEconomics
  <2> QED BY <2>4, <2>5, <2>6, Parts
<1>8. CASE FillApplies(item)
  <2> DEFINE t == ApplyFact(exec, f)
             over == OverCapacity(e, i.resulting, total[e] + f.qty)
             n == [leg |-> l, root |-> f.root, prior |-> i.prior,
                   resulting |-> i.resulting, exact |-> TRUE]
             N == {n}
  <2>1. /\ MatchesOwner(f) /\ exec' = Latch(t.x, over) /\ broker' = broker \cup N
        /\ AppendInterval(l, f.root, f.qty, i.resulting) /\ RaiseAttempt(l, i.resulting)
        /\ UNCHANGED <<effect, reserved, unresolved>> /\ Refresh({e})
        /\ Mappable(item)
    BY <1>1, <1>8 DEF FillApplies
  <2>2. /\ t.disp = "APPLIED" /\ i.prior = cover[l].frontier
        /\ i.resulting - i.prior = f.qty
    BY <1>1, <2>1 DEF Mappable, Width
  <2>3. e \in Effects
    BY <1>2, <2>1, OwnerIsEffect
  <2>4. /\ Grown(exec, t.x) /\ HeadAt(exec, f.root) = {} /\ HeadAt(t.x, f.root) # {}
    BY <1>2, <1>3, <2>2, ApplyFactGrows DEF ExecTypes
  <2>5. over \in SUBSET {Conflict, Unreconciled, Overfill}
    BY DEF OverCapacity
  <2>6. total[e] + f.qty > Capacity[e] => Overfill \in over
    BY DEF OverCapacity
  <2> HIDE DEF t, over
  <2>7. /\ Grown(t.x, exec') /\ exec'.heads = t.x.heads /\ over \subseteq exec'.integrity
    BY <2>1, <2>4, <2>5, LatchGrows DEF Grown
  <2>8. Grown(exec, exec') /\ HeadAt(exec', f.root) # {}
    BY <2>4, <2>7, GrownTransitive DEF HeadAt
  <2>9. EffectPart' /\ LegPart' /\ OwnersKept
    <3>1. /\ unresolved' \subseteq unresolved \cup {l} /\ unresolved \subseteq unresolved'
          /\ RaiseAttempt(l, i.resulting) \/ UNCHANGED leg
          /\ UNCHANGED <<effect, reserved>>
      BY <2>1
    <3> QED BY <1>2, <2>1, <3>1, EvidenceStep
  <2>10. EconomicPart'
    <3>1. n \in BrokerRecord
      BY <1>2 DEF BrokerRecord, Roots
    <3>2. /\ N \subseteq BrokerRecord /\ \A b, c \in N : b = c
          /\ \A b \in N : b.leg = l /\ b.root = f.root /\ b.resulting = i.resulting
      BY <3>1
    <3> HIDE DEF N, n
    <3>3. i.resulting = cover[l].frontier + f.qty
      BY <1>2, <2>2
    <3>4. EconomicPart /\ UNCHANGED unresolved
      BY <2>1, Parts
    <3>5. total[e] + f.qty > Capacity[e] => Overfill \in exec'.integrity
      BY <2>6, <2>7
    <3> QED BY <1>2, <2>1, <2>3, <2>4, <2>8, <2>9, <3>2, <3>3, <3>4, <3>5,
               AppendKeepsEconomics
  <2> QED BY <2>9, <2>10, Parts
<1> QED BY <1>5, <1>6, <1>7, <1>8 DEF RecordBrokerFillEvidence, item

\* Broker evidence of a correction or a bust.
LEMMA RevisionStep ==
  ASSUME IInv, NEW i \in RevisionInputs, NEW closing \in BOOLEAN,
         RecordBrokerRevisionEvidence(RevisionItem(i, closing))
  PROVE  IInv'
<1> DEFINE item == RevisionItem(i, closing)
           f == i.fact
           l == f.leg
           e == leg[l].owner
           t == ApplyFact(exec, f)
<1>1. /\ item.fact = f /\ item.prior = i.prior
      /\ item.resulting = i.prior - i.root + f.qty
  BY DEF RevisionItem
<1>2. /\ f \in Facts /\ l \in Legs /\ f.qty \in Nat /\ i.prior \in Nat /\ i.root \in Nat
      /\ i.prior - i.root + f.qty >= 0
  BY InputAssumption DEF Facts
<1> HIDE DEF item
<1>3. item.prior \in Nat /\ item.resulting \in Nat
  BY <1>1, <1>2
<1>4. ExecTypes
  BY DEF IInv
<1>5. Grown(exec, t.x)
  BY <1>2, <1>4, ApplyFactGrows DEF ExecTypes
<1> HIDE DEF t
<1>6. ASSUME NEW x, Grown(exec, x), DisputeRevision(item, x) PROVE IInv'
  <2>1. /\ exec' = x /\ unresolved' = unresolved \cup {l}
        /\ UNCHANGED <<effect, leg, reserved, broker, cover, total>>
        /\ Refresh({leg[l].owner})
    BY <1>1, <1>6 DEF DisputeRevision
  <2> QED BY <1>2, <1>6, <2>1, DisputeStep
<1>7. CASE RevisionAttributionChanged(item)
  <2>1. Grown(t.x, Latch(t.x, {Unreconciled}))
    BY <1>5, LatchGrows DEF Grown
  <2>2. Grown(exec, Latch(t.x, {Unreconciled}))
    BY <1>5, <2>1, GrownTransitive
  <2>3. DisputeRevision(item, IF t.disp = "EXACT_REPLAY"
                              THEN Latch(t.x, {Unreconciled}) ELSE t.x)
    BY <1>1, <1>7 DEF RevisionAttributionChanged, t
  <2> QED BY <1>5, <1>6, <2>2, <2>3
<1>8. CASE RevisionUnlinked(item)
  BY <1>1, <1>5, <1>6, <1>8 DEF RevisionUnlinked, t
<1>9. CASE RevisionApplies(item)
  <2> DEFINE over == OverCapacity(e, item.resulting,
                                  total[e] - item.prior + item.resulting)
  <2>1. /\ MatchesOwner(f) /\ exec' = Latch(t.x, over)
        /\ IF ExactMapping(item) THEN ResizeExactly(item) ELSE ResizeInexactly(item)
        /\ RaiseAttempt(l, item.resulting)
        /\ UNCHANGED <<effect, reserved>> /\ Refresh({e})
    BY <1>1, <1>9 DEF RevisionApplies, t
  <2>2. e \in Effects
    BY <1>2, <2>1, OwnerIsEffect
  <2>3. over \in SUBSET {Conflict, Unreconciled, Overfill}
    BY DEF OverCapacity
  <2>4. total[e] - item.prior + item.resulting > Capacity[e] => Overfill \in over
    BY DEF OverCapacity
  <2> HIDE DEF over
  <2>5. Grown(t.x, exec') /\ over \subseteq exec'.integrity
    BY <1>5, <2>1, <2>3, LatchGrows DEF Grown
  <2>6. Grown(exec, exec')
    BY <1>5, <2>5, GrownTransitive
  <2>7. unresolved' \subseteq unresolved \cup {l} /\ unresolved \subseteq unresolved'
    BY <1>1, <2>1 DEF ResizeExactly, ResizeInexactly
  <2>8. EffectPart' /\ LegPart' /\ OwnersKept
    <3>1. /\ RaiseAttempt(l, item.resulting) \/ UNCHANGED leg
          /\ UNCHANGED <<effect, reserved>>
      BY <2>1
    <3> QED BY <1>2, <1>3, <2>1, <2>7, <3>1, EvidenceStep
  <2>9. EconomicPart /\ item.fact.leg \in Legs /\ leg[item.fact.leg].owner \in Effects
    BY <1>1, <1>2, <2>2, Parts
  <2>10. CASE ExactMapping(item)
    <3>1. ResizeExactly(item)
      BY <2>1, <2>10
    <3>2. total[leg[item.fact.leg].owner] - item.prior + item.resulting
             > Capacity[leg[item.fact.leg].owner] => Overfill \in exec'.integrity
      BY <1>1, <2>4, <2>5
    <3>3. EconomicPart'
      BY <1>3, <2>6, <2>8, <2>9, <2>10, <3>1, <3>2, ResizeExactlyKeepsEconomics
    <3> QED BY <2>8, <3>3, Parts
  <2>11. CASE ~ExactMapping(item)
    <3>1. ResizeInexactly(item)
      BY <2>1, <2>11
    <3>2. EconomicPart'
      BY <1>3, <2>6, <2>8, <2>9, <3>1, ResizeInexactlyKeepsEconomics
    <3> QED BY <2>8, <3>2, Parts
  <2> QED BY <2>10, <2>11
<1> QED BY <1>7, <1>8, <1>9 DEF RecordBrokerRevisionEvidence, item

----------------------------------------------------------------------------
(* The theorems.                                                           *)

\* An empty book.
LEMMA InitEstablishes ==
  ASSUME Init
  PROVE  IInv
<1>1. /\ effect = [e \in Effects |-> [state |-> "NONE", side |-> "BUY",
                                  claimed |-> FALSE, acceptance |-> "OPEN"]]
      /\ leg = [l \in Legs |-> NoLeg] /\ reserved = [l \in Legs |-> None]
      /\ broker = {} /\ cover = [l \in Legs |-> NoCover]
      /\ total = [e \in Effects |-> 0] /\ unresolved = {}
  BY DEF Init
<1>2. EffectTypes
  BY <1>1 DEF EffectTypes, EffectRecord, EffectStates
<1>3. LegTypes
  BY <1>1 DEF LegTypes, LegRecord, NoLeg, PendingOps
<1>4. CoverTypes
  BY <1>1 DEF CoverTypes, CoverRecord, NoCover
<1>5. ExecTypes
  <2>1. PICK o \in Openings : exec = Opening(o)
    BY DEF Init
  <2> QED BY <2>1, OpeningSound DEF ExecTypes, Sound
<1>6. ReservationsMatch /\ ClosedWasNeverSent /\ SummaryIsDerived
  BY <1>1 DEF ReservationsMatch, ClosedWasNeverSent, SummaryIsDerived, Reserves
<1>7. OneIntervalPerRoot /\ TailEndsAtTotal
  BY <1>1 DEF OneIntervalPerRoot, TailEndsAtTotal, NoCover
<1>8. OverCapacityIsQuarantined
  BY <1>1, VenueAssumption DEF OverCapacityIsQuarantined
<1> QED BY <1>2, <1>3, <1>4, <1>5, <1>6, <1>7, <1>8 DEF IInv

\* A step that changes nothing.
LEMMA StutterKeeps ==
  ASSUME IInv, UNCHANGED vars
  PROVE  IInv'
<1>1. /\ UNCHANGED <<effect, reserved>> /\ UNCHANGED <<broker, cover, total>>
      /\ UNCHANGED <<effect, leg, unresolved, authority>> /\ UNCHANGED exec
      /\ unresolved \subseteq unresolved'
  BY DEF vars
<1>2. OwnersKept /\ Grown(exec, exec')
  BY <1>1, GrownReflexive DEF OwnersKept, IInv, ExecTypes
<1>3. EffectPart'
  BY <1>1, Parts, EffectsStay
<1>4. LegPart'
  BY <1>1, Parts, SummaryStays DEF LegPart, LegTypes
<1>5. EconomicPart'
  BY <1>1, <1>2, Parts, GrowthKeepsEconomics
<1> QED BY <1>3, <1>4, <1>5, Parts

\* Every input of apply_venue_recovery_input keeps the invariant.
LEMMA NextKeeps ==
  ASSUME IInv, Next
  PROVE  IInv'
<1>1. ASSUME NEW e \in Effects,
             \/ RecordDispatchClaim(e) \/ CancelBeforeDispatch(e)
             \/ RecoverClaimedEffect(e) \/ CloseAcceptanceSet(e)
             \/ \E side \in {"BUY", "SELL"} : RequestEffect(e, side)
             \/ \E o \in EffectStates : RecordTransportOutcome(e, o)
             \/ \E l \in Legs : DiscoverVenueLeg(e, l)
      PROVE  IInv'
  BY <1>1, ClaimStep, StandDownStep, CloseStep, RequestStep, OutcomeStep, DiscoverStep
     DEF RecoverClaimedEffect
<1>2. Cumulative \subseteq Nat
  BY VenueAssumption DEF Cumulative
<1>3. ASSUME NEW l \in Legs,
             \/ \E op \in PendingOps \ {"NONE"} : RecordPendingVenueOperation(l, op)
             \/ \E s \in Active \cup {"CLOSED"}, c \in Cumulative :
                  ObserveVenueStatus(l, s, c)
             \/ \E c \in Cumulative : ObserveLaterTerminal(l, c)
      PROVE  IInv'
  BY <1>2, <1>3, PendingStep, StatusStep, LaterTerminalStep
<1>4. CASE BrokerEvidence
  BY <1>4, FillStep, RevisionStep DEF BrokerEvidence
<1>5. CASE OperatorEvidence
  BY <1>5, HumanFillStep, HumanConflictStep, ReleaseStep DEF OperatorEvidence
<1> QED BY <1>1, <1>3, <1>4, <1>5 DEF Next

\* The invariant of the book: every reachable book has typed effects, legs,
\* coverage and position, matching reservations, an exact summary, one
\* interval per root and a last interval that ends at the leg's total.
THEOREM VenueBookInvariant == Spec => []IInv
<1>1. Init => IInv
  BY InitEstablishes
<1>2. IInv /\ [Next]_vars => IInv'
  BY NextKeeps, StutterKeeps
<1> QED BY <1>1, <1>2, PTL DEF Spec

\* The incremental summary is the rebuilt one, and an effect that was claimed
\* or owns a leg that is working or in dispute blocks the symbol.
THEOREM ClaimedWorkBlocks == Spec => []VenueWorkBlocks
<1>1. IInv => VenueWorkBlocks
  <2> SUFFICES ASSUME IInv, NEW e \in Effects, effect[e].state # "NONE"
               PROVE  /\ authority[e] = Derived(e)
                      /\ \/ effect[e].claimed
                         \/ \E l \in Owned(e) : IsActive(l) \/ l \in unresolved
                         => authority[e].blocking
    BY DEF VenueWorkBlocks
  <2>1. authority[e] = Derived(e)
    BY DEF IInv, SummaryIsDerived
  <2>2. Derived(e).blocking = ~(/\ effect[e].acceptance = "CLOSED"
                                /\ {l \in Owned(e) : IsActive(l)} = {}
                                /\ Owned(e) \cap unresolved = {})
    BY DEF Derived
  <2>3. effect[e].claimed => effect[e].acceptance # "CLOSED"
    BY DEF IInv, ClosedWasNeverSent
  <2>4. \/ effect[e].claimed
        \/ \E l \in Owned(e) : IsActive(l) \/ l \in unresolved
        => ~(/\ effect[e].acceptance = "CLOSED"
             /\ {l \in Owned(e) : IsActive(l)} = {}
             /\ Owned(e) \cap unresolved = {})
    BY <2>3
  <2> QED BY <2>1, <2>2, <2>4
<1> QED BY <1>1, VenueBookInvariant, PTL

\* A leg has at most one cancel at the venue or on its way there, and its
\* reservation names that one.
THEOREM CancelsAreExclusive == Spec => []OneCancelPerLeg
<1>1. IInv => OneCancelPerLeg
  <2> SUFFICES ASSUME IInv, NEW l \in Legs
               PROVE  {e \in Effects : Reserves(e) /\ Target[e] = l}
                        = IF reserved[l] = None THEN {} ELSE {reserved[l]}
    BY DEF OneCancelPerLeg
  <2>1. reserved[l] \in Effects \cup {None} /\ None \notin Effects
    BY VenueAssumption DEF IInv, EffectTypes
  <2>2. \A e \in Effects : Reserves(e) /\ Target[e] = l => reserved[l] = e
    BY DEF IInv, ReservationsMatch
  <2>3. reserved[l] # None => Reserves(reserved[l]) /\ Target[reserved[l]] = l
    BY DEF IInv, ReservationsMatch
  <2> QED BY <2>1, <2>2, <2>3
<1> QED BY <1>1, VenueBookInvariant, PTL

\* Shares beyond an effect's capacity leave the overfill quarantine latched,
\* unless a leg of the effect is in dispute: no correction, bust, attestation
\* or redelivery loses the latch.
THEOREM OverfillsAreQuarantined == Spec => []OverCapacityIsQuarantined
<1>1. IInv => OverCapacityIsQuarantined
  BY DEF IInv
<1> QED BY <1>1, VenueBookInvariant, PTL

----------------------------------------------------------------------------
(* The position under the steps of the book.                               *)

\* Owners that stay own the same legs.
LEMMA OwnedStays ==
  ASSUME OwnersStay, NEW e \in Effects
  PROVE  Owned(e)' = Owned(e) /\ Owned(e) \subseteq Legs /\ IsFiniteSet(Owned(e))
<1>1. Owned(e)' = Owned(e) /\ Owned(e) \subseteq Legs
  BY DEF OwnersStay, Owned
<1> QED BY <1>1, VenueAssumption, FS_Subset

\* A total over the covers of legs.
CoverSum(c, S) == SumFunctionOnSet([l \in S |-> c[l].total], S)

\* What remains to be shown of the position after a step.
LEMMA PositionParts ==
  ASSUME Sound(exec'),
         \A l \in Legs \ unresolved' : cover'[l].total = Shares(exec', l),
         \A e \in Effects : total'[e] = CoverSum(cover', Owned(e)'),
         \A l \in Legs : leg'[l].owner = None => cover'[l].total = 0
  PROVE  PositionInv'
<1>1. CoverHoldsShares' /\ TotalsAddUp' /\ UnownedIsUncovered'
  BY DEF CoverHoldsShares, TotalsAddUp, UnownedIsUncovered, CoverSum, Shares
<1>2. Sound(exec)'
  BY DEF Sound, IsSnapshot, Registered, FoldsHeads, ShortIsLatched, OneHeadPerRoot, Replays,
         SamePosition, SameEconomics
<1> QED BY <1>1, <1>2 DEF PositionInv

\* The same before it.
LEMMA PositionKnown ==
  ASSUME PositionInv
  PROVE  /\ Sound(exec)
         /\ \A l \in Legs \ unresolved : cover[l].total = Shares(exec, l)
         /\ \A e \in Effects : total[e] = CoverSum(cover, Owned(e))
         /\ \A l \in Legs : leg[l].owner = None => cover[l].total = 0
BY DEF PositionInv, CoverHoldsShares, TotalsAddUp, UnownedIsUncovered, CoverSum

\* No coverage moves, and no share on a leg that is not in dispute.
LEMMA PositionStays ==
  ASSUME PositionInv, OwnersStay, Sound(exec'), UNCHANGED <<cover, total>>,
         unresolved \subseteq unresolved',
         \A l \in Legs \ unresolved' : Shares(exec', l) = Shares(exec, l)
  PROVE  PositionInv'
<1>1. /\ \A l \in Legs \ unresolved : cover[l].total = Shares(exec, l)
      /\ \A e \in Effects : total[e] = CoverSum(cover, Owned(e))
      /\ \A l \in Legs : leg[l].owner = None => cover[l].total = 0
  BY PositionKnown
<1>2. \A l \in Legs \ unresolved' : cover'[l].total = Shares(exec', l)
  BY <1>1
<1>3. \A e \in Effects : total'[e] = CoverSum(cover', Owned(e)')
  BY <1>1, OwnedStays
<1>4. \A l \in Legs : leg'[l].owner = None => cover'[l].total = 0
  BY <1>1 DEF OwnersStay
<1> QED BY <1>2, <1>3, <1>4, PositionParts

\* The coverage of one leg moves, and with it the total of its effect.
LEMMA PositionMoves ==
  ASSUME PositionInv, CoverTypes, OwnersStay, Sound(exec'), unresolved \subseteq unresolved',
         NEW l \in Legs, leg[l].owner \in Effects, NEW c \in CoverRecord, Cover(l, c),
         l \notin unresolved' => c.total = Shares(exec', l),
         \A k \in (Legs \ unresolved') \ {l} : Shares(exec', k) = Shares(exec, k)
  PROVE  PositionInv'
<1> DEFINE e == leg[l].owner
<1>1. /\ \A k \in Legs \ unresolved : cover[k].total = Shares(exec, k)
      /\ \A d \in Effects : total[d] = CoverSum(cover, Owned(d))
      /\ \A k \in Legs : leg[k].owner = None => cover[k].total = 0
  BY PositionKnown
<1>2. /\ cover'[l] = c /\ \A k \in Legs \ {l} : cover'[k] = cover[k]
      /\ total'[e] = total[e] + c.total - cover[l].total
      /\ \A d \in Effects \ {e} : total'[d] = total[d]
  BY CoverMoves
<1>3. \A k \in Legs \ unresolved' : cover'[k].total = Shares(exec', k)
  BY <1>1, <1>2
<1>4. \A k \in Legs : cover[k].total \in Int /\ c.total \in Int
  BY DEF CoverTypes, CoverRecord
<1>5. ASSUME NEW d \in Effects PROVE total'[d] = CoverSum(cover', Owned(d)')
  <2> DEFINE S == Owned(d)
             f == [k \in S |-> cover[k].total]
             g == [k \in S |-> cover'[k].total]
  <2>1. Owned(d)' = S /\ S \subseteq Legs /\ IsFiniteSet(S)
    BY OwnedStays
  <2>2. total[d] = SumFunctionOnSet(f, S) /\ CoverSum(cover', S) = SumFunctionOnSet(g, S)
    BY <1>1 DEF CoverSum
  <2>3. l \in S <=> d = e
    BY VenueAssumption DEF Owned
  <2> HIDE DEF S
  <2>4. CASE d = e
    <3>1. l \in S /\ f[l] = cover[l].total /\ g[l] = c.total
      BY <1>2, <2>3, <2>4
    <3>2. (\A k \in S : f[k] \in Int) /\ g[l] \in Int /\ \A k \in S \ {l} : g[k] = f[k]
      BY <1>2, <1>4, <2>1, <3>1
    <3>3. SumFunctionOnSet(g, S) = SumFunctionOnSet(f, S) + g[l] - f[l]
      BY <2>1, <3>1, <3>2, SumUpdate
    <3> HIDE DEF f, g
    <3>4. SumFunctionOnSet(g, S) = total'[d]
      BY <1>2, <2>2, <2>4, <3>1, <3>3
    <3> QED BY <2>1, <2>2, <3>4
  <2>5. CASE d # e
    <3>1. \A k \in S : g[k] = f[k]
      BY <1>2, <2>1, <2>3, <2>5
    <3>2. SumFunctionOnSet(g, S) = SumFunctionOnSet(f, S)
      BY <2>1, <3>1, SumSame
    <3> HIDE DEF f, g
    <3>3. total'[d] = total[d]
      BY <1>2, <2>5
    <3> QED BY <2>1, <2>2, <3>2, <3>3
  <2> QED BY <2>4, <2>5
<1>6. \A k \in Legs : leg'[k].owner = None => cover'[k].total = 0
  <2>1. ASSUME NEW k \in Legs, leg'[k].owner = None PROVE cover'[k].total = 0
    <3>1. leg[k].owner = None /\ k # l
      BY <2>1, VenueAssumption DEF OwnersStay
    <3> QED BY <1>1, <1>2, <3>1
  <2> QED BY <2>1
<1> QED BY <1>3, <1>5, <1>6, PositionParts

\* Effects and legs move, no evidence is recorded.
LEMMA PositionUntouched ==
  ASSUME PositionInv, OwnersStay, UNCHANGED evidence
  PROVE  PositionInv'
<1>1. UNCHANGED <<exec, cover, total, unresolved>>
  BY DEF evidence
<1>2. UNCHANGED <<cover, total>> /\ unresolved \subseteq unresolved'
      /\ \A l \in Legs \ unresolved' : Shares(exec', l) = Shares(exec, l)
  BY <1>1, SharesSame
<1>3. Sound(exec')
  BY <1>1, PositionKnown
<1> QED BY <1>2, <1>3, PositionStays

\* A leg that is found covers nothing yet.
LEMMA PositionDiscovers ==
  ASSUME IInv, PositionInv, NEW e \in Effects, NEW l \in Legs, DiscoverVenueLeg(e, l)
  PROVE  PositionInv'
<1>1. /\ leg[l].owner = None /\ UNCHANGED <<exec, cover, total, unresolved>>
  BY DEF DiscoverVenueLeg, evidence
<1>2. leg'[l].owner = e /\ \A k \in Legs \ {l} : leg'[k] = leg[k]
  BY LegFields DEF DiscoverVenueLeg
<1>3. /\ Sound(exec)
      /\ \A k \in Legs \ unresolved : cover[k].total = Shares(exec, k)
      /\ \A d \in Effects : total[d] = CoverSum(cover, Owned(d))
      /\ \A k \in Legs : leg[k].owner = None => cover[k].total = 0
  BY PositionKnown
<1>4. \A k \in Legs \ unresolved' : cover'[k].total = Shares(exec', k)
  BY <1>1, <1>3
<1>5. ASSUME NEW d \in Effects PROVE total'[d] = CoverSum(cover', Owned(d)')
  <2> DEFINE S == Owned(d)
             R == Owned(d)'
             f == [k \in S |-> cover[k].total]
             g == [k \in R |-> cover[k].total]
  <2>1. l \notin S /\ S \subseteq Legs /\ R = IF d = e THEN S \cup {l} ELSE S
    BY <1>1, <1>2, VenueAssumption DEF Owned
  <2>2. IsFiniteSet(S)
    BY <2>1, VenueAssumption, FS_Subset
  <2>3. total'[d] = SumFunctionOnSet(f, S) /\ CoverSum(cover', R) = SumFunctionOnSet(g, R)
    BY <1>1, <1>3 DEF CoverSum
  <2> HIDE DEF S, R
  <2>4. \A k \in S : g[k] = f[k] /\ f[k] \in Int
    BY <2>1 DEF IInv, CoverTypes, CoverRecord
  <2>5. SumFunctionOnSet(g, S) = SumFunctionOnSet(f, S) /\ SumFunctionOnSet(f, S) \in Int
    BY <2>2, <2>4, SumSame, SumType
  <2>6. CASE d = e
    <3>1. R = S \cup {l} /\ g[l] = 0
      BY <1>1, <1>3, <2>1, <2>6
    <3>2. \A k \in S \cup {l} : g[k] \in Int
      BY <2>4, <3>1
    <3>3. SumFunctionOnSet(g, S \cup {l}) = g[l] + SumFunctionOnSet(g, S)
      BY <2>1, <2>2, <3>2, SumInsert
    <3> HIDE DEF f, g
    <3>4. SumFunctionOnSet(g, R) = SumFunctionOnSet(f, S)
      BY <2>5, <3>1, <3>3
    <3> QED BY <2>3, <3>4 DEF R
  <2>7. CASE d # e
    <3>1. R = S
      BY <2>1, <2>7
    <3> HIDE DEF f, g
    <3> QED BY <2>3, <2>5, <3>1 DEF R
  <2> QED BY <2>6, <2>7
<1>6. \A k \in Legs : leg'[k].owner = None => cover'[k].total = 0
  BY <1>1, <1>2, <1>3, VenueAssumption
<1>7. Sound(exec')
  BY <1>1, <1>3
<1> QED BY <1>4, <1>5, <1>6, <1>7, PositionParts

\* An empty book at a sound position that holds no share of its legs.
LEMMA PositionInit ==
  ASSUME Init
  PROVE  PositionInv
<1>1. PICK o \in Openings : exec = Opening(o)
  BY DEF Init
<1>2. Sound(exec) /\ \A l \in Legs : Shares(exec, l) = 0
  BY <1>1, OpeningSound, OffBookShares
<1>3. \A l \in Legs : cover[l].total = 0 /\ leg[l].owner = None
  BY DEF Init, NoCover, NoLeg
<1>4. CoverHoldsShares /\ UnownedIsUncovered
  BY <1>2, <1>3 DEF CoverHoldsShares, UnownedIsUncovered
<1>5. TotalsAddUp
  <2> SUFFICES ASSUME NEW e \in Effects
               PROVE  total[e] = CoverSum(cover, Owned(e))
    BY DEF TotalsAddUp, CoverSum
  <2>1. Owned(e) = {} /\ total[e] = 0
    BY <1>3, VenueAssumption DEF Init, Owned
  <2> QED BY <2>1, SumEmpty DEF CoverSum
<1> QED BY <1>2, <1>4, <1>5 DEF PositionInv

\* What a fact does to the shares: a fill adds its quantity on its leg, a
\* revision the difference to the head of its root, no other leg moves.
LEMMA ApplyFactShares ==
  ASSUME NEW x, Sound(x), NEW f \in Facts
  PROVE  LET t == ApplyFact(x, f)
         IN  /\ \A l \in Legs : l # f.leg => Shares(t.x, l) = Shares(x, l)
             /\ t.disp # "APPLIED" => \A l \in Legs : Shares(t.x, l) = Shares(x, l)
             /\ t.disp = "APPLIED" /\ f.kind \in RootKinds =>
                  Shares(t.x, f.leg) = Shares(x, f.leg) + f.qty
             /\ t.disp = "APPLIED" /\ f.kind \notin RootKinds =>
                  \E i \in HeadAt(x, f.root) :
                    Shares(t.x, f.leg) = Shares(x, f.leg) + f.qty - x.heads[i].qty
<1> DEFINE t == ApplyFact(x, f)
<1>1. /\ t.disp # "APPLIED" => t.x.heads = x.heads
      /\ t.disp = "APPLIED" /\ f.kind \in RootKinds =>
           t.x.heads = Append(x.heads, HeadOf(f)) /\ HeadOf(f) \in Heads
      /\ t.disp = "APPLIED" /\ f.kind \notin RootKinds =>
           \E i \in HeadAt(x, f.root) :
             /\ x.heads[i].leg = f.leg
             /\ t.x.heads = [x.heads EXCEPT ![i] = RevisedHead(x.heads[i], f)]
  BY ApplyFactHeads DEF Sound
<1>2. IsSnapshot(x) /\ IsSnapshot(t.x)
  BY ApplyFactSound DEF Sound
<1> HIDE DEF t
<1>3. CASE t.disp # "APPLIED"
  <2>1. \A l : Shares(t.x, l) = Shares(x, l)
    BY <1>1, <1>3, SharesSame
  <2> QED BY <1>3, <2>1 DEF t
<1>4. CASE t.disp = "APPLIED" /\ f.kind \in RootKinds
  <2>1. HeadOf(f).leg = f.leg /\ HeadOf(f).qty = f.qty
    BY DEF HeadOf
  <2>2. \A l : Shares(t.x, l) = IF HeadOf(f).leg = l THEN Shares(x, l) + HeadOf(f).qty
                                                     ELSE Shares(x, l)
    BY <1>1, <1>2, <1>4, SharesAppend
  <2> QED BY <1>4, <2>1, <2>2 DEF t
<1>5. CASE t.disp = "APPLIED" /\ f.kind \notin RootKinds
  <2>1. PICK i \in HeadAt(x, f.root) :
             /\ x.heads[i].leg = f.leg
             /\ t.x.heads = [x.heads EXCEPT ![i] = RevisedHead(x.heads[i], f)]
    BY <1>1, <1>5
  <2>2. i \in DOMAIN x.heads /\ x.heads[i] \in Heads
    BY <1>2 DEF HeadAt, IsSnapshot
  <2> DEFINE h == RevisedHead(x.heads[i], f)
  <2>3. h \in Heads /\ h.leg = x.heads[i].leg /\ h.qty = f.qty
    BY <2>2, RevisedHeadFields
  <2> HIDE DEF h
  <2>4. \A l : Shares(t.x, l) = IF h.leg = l THEN Shares(x, l) + h.qty - x.heads[i].qty
                                             ELSE Shares(x, l)
    BY <1>2, <2>1, <2>2, <2>3, SharesRevise DEF h
  <2> QED BY <1>5, <2>1, <2>3, <2>4 DEF t
<1> QED BY <1>3, <1>4, <1>5

\* Latches move no share.
LEMMA LatchShares ==
  ASSUME NEW x, IsSnapshot(x), NEW s \in SUBSET {Conflict, Unreconciled, Overfill}
  PROVE  \A l : Shares(Latch(x, s), l) = Shares(x, l)
<1>1. Latch(x, s).heads = x.heads
  BY LatchFields DEF SameEconomics
<1> QED BY <1>1, SharesSame

\* A fill that is not placed moves none either.
LEMMA RecordReconciliationShares ==
  ASSUME NEW x, IsSnapshot(x), NEW f \in Facts
  PROVE  \A l : Shares(RecordReconciliation(x, f).x, l) = Shares(x, l)
<1> DEFINE y == RecordReconciliation(x, f).x
<1>1. CASE Seen(x, f.key)
  <2>1. y \in {Latch(x, {Unreconciled}), Latch(x, {Unreconciled, Conflict})}
    BY <1>1 DEF RecordReconciliation, Transition
  <2> HIDE DEF y
  <2>2. \A l : Shares(y, l) = Shares(x, l)
    BY <2>1, LatchShares
  <2> QED BY <2>2 DEF y
<1>2. CASE ~Seen(x, f.key)
  <2>1. y = Reconcile(x, f).x
    BY <1>2 DEF RecordReconciliation
  <2>2. Reconcile(x, f).x.heads = x.heads
    BY ReconcileFields DEF SameEconomics
  <2> HIDE DEF y
  <2>3. \A l : Shares(y, l) = Shares(x, l)
    BY <2>1, <2>2, SharesSame
  <2> QED BY <2>3 DEF y
<1> QED BY <1>1, <1>2

\* So does a corroboration: the shares were counted when they were attested.
LEMMA CorroborationShares ==
  ASSUME NEW x, IsSnapshot(x), NEW f, RecordCorroboration(x, f).disp = "APPLIED"
  PROVE  \A l : Shares(RecordCorroboration(x, f).x, l) = Shares(x, l)
<1> DEFINE y == Observed(x, f, "CORROBORATED_ZERO_ECONOMIC")
<1>1. RecordCorroboration(x, f).x = y
  BY CorroborationIs
<1>2. SameEconomics(x, y)
  BY ObservedFields
<1> HIDE DEF y
<1>3. \A l : Shares(y, l) = Shares(x, l)
  BY <1>2, SharesSame DEF SameEconomics
<1> QED BY <1>1, <1>3

\* A dispute: coverage stays, and the shares of the legs not in dispute.
LEMMA PositionDisputes ==
  ASSUME PositionInv, NEW l \in Legs, Sound(exec'), unresolved' = unresolved \cup {l},
         UNCHANGED <<leg, cover, total>>,
         \A k \in Legs \ {l} : Shares(exec', k) = Shares(exec, k)
  PROVE  PositionInv'
<1>1. OwnersStay /\ unresolved \subseteq unresolved' /\ UNCHANGED <<cover, total>>
  BY DEF OwnersStay
<1>2. \A k \in Legs \ unresolved' : Shares(exec', k) = Shares(exec, k)
  OBVIOUS
<1> QED BY <1>1, <1>2, PositionStays

\* The next interval of a leg covers the shares of its fill.
LEMMA PositionAppends ==
  ASSUME IInv, PositionInv, OwnersStay, NEW f \in Facts, f.kind \in RootKinds, f.leg \in Legs,
         leg[f.leg].owner \in Effects, NEW resulting \in Nat,
         AppendInterval(f.leg, f.root, f.qty, resulting), UNCHANGED unresolved,
         ApplyFact(exec, f).disp = "APPLIED", Sound(exec'),
         \A k : Shares(exec', k) = Shares(ApplyFact(exec, f).x, k)
  PROVE  PositionInv'
<1> DEFINE l == f.leg
           t == ApplyFact(exec, f)
           v == Max({cover[l].frontier, resulting})
           w == cover[l].total + f.qty
           r == f.root
           c == [cover[l] EXCEPT !.frontier = v, !.total = w, !.tail = r]
<1>1. Sound(exec) /\ \A k \in Legs \ unresolved : cover[k].total = Shares(exec, k)
  BY PositionKnown
<1>3. /\ \A k \in Legs : k # l => Shares(t.x, k) = Shares(exec, k)
      /\ Shares(t.x, l) = Shares(exec, l) + f.qty
  BY <1>1, ApplyFactShares
<1>4. \A k : Shares(exec', k) = Shares(t.x, k)
  OBVIOUS
<1> HIDE DEF t
<1>5. CoverTypes /\ cover[l] \in CoverRecord /\ cover[l].frontier \in Int /\ cover[l].total \in Int
  BY DEF IInv, CoverTypes, CoverRecord
<1>6. v \in Int
  <2>1. v = IF cover[l].frontier >= resulting THEN cover[l].frontier ELSE resulting
    BY <1>5, MaxOfTwo
  <2> QED BY <1>5, <2>1
<1>7. w \in Int /\ r \in Roots
  BY <1>5, InputAssumption DEF Roots
<1>8. Cover(l, c)
  BY <1>5 DEF AppendInterval, CoverRecord
<1>9. w = cover[l].total + f.qty
  OBVIOUS
<1> HIDE DEF v, w, r
<1>10. c \in CoverRecord /\ c.total = w
  BY <1>5, <1>6, <1>7 DEF CoverRecord
<1> HIDE DEF c
<1>11. l \notin unresolved' => c.total = Shares(exec', l)
  BY <1>1, <1>3, <1>4, <1>9, <1>10
<1>12. \A k \in (Legs \ unresolved') \ {l} : Shares(exec', k) = Shares(exec, k)
  BY <1>3, <1>4
<1>13. unresolved \subseteq unresolved'
  OBVIOUS
<1> QED BY <1>5, <1>8, <1>10, <1>11, <1>12, <1>13, PositionMoves

\* The coverage of a leg whose last interval is resized.
LEMMA ResizeExactlyCovers ==
  ASSUME IInv, NEW item, item.fact.leg \in Legs, item.resulting \in Nat,
         ExactMapping(item), ResizeExactly(item)
  PROVE  \E c \in CoverRecord :
           /\ Cover(item.fact.leg, c)
           /\ item.fact.leg \notin unresolved => c.total = item.resulting
<1> DEFINE l == item.fact.leg
           b0 == CHOOSE b \in broker : b.root = item.fact.root
           w == cover[l].total + item.resulting - b0.resulting
           v == IF item.resulting # b0.resulting THEN item.resulting
                                                 ELSE cover[l].frontier
           c == [cover[l] EXCEPT !.total = w, !.frontier = v]
<1>1. cover[l] \in CoverRecord /\ cover[l].frontier \in Int /\ cover[l].total \in Int
  BY DEF IInv, CoverTypes, CoverRecord
<1>2. /\ cover[l].tail = item.fact.root
      /\ \E b \in broker : b.root = item.fact.root /\ b.leg = l
  BY DEF ExactMapping
<1>3. Cover(l, c)
  BY DEF ResizeExactly, IInv, CoverTypes, CoverRecord
<1>4. b0 \in broker /\ b0.root = item.fact.root
  BY <1>2
<1> HIDE DEF b0
<1>5. b0.leg = l /\ b0 \in BrokerRecord /\ b0.resulting \in Nat
  BY <1>2, <1>4 DEF IInv, OneIntervalPerRoot, CoverTypes, BrokerRecord
<1>6. l \notin unresolved => b0.resulting = cover[l].total
  BY <1>2, <1>4, <1>5 DEF IInv, TailEndsAtTotal
<1>7. /\ v \in Int /\ w \in Int
      /\ l \notin unresolved => w = item.resulting
  BY <1>1, <1>5, <1>6
<1> HIDE DEF v, w
<1>8. c \in CoverRecord /\ c.frontier = v /\ c.total = w /\ c.tail = cover[l].tail
  BY <1>1, <1>7, ResizedCover
<1> HIDE DEF c
<1> QED BY <1>3, <1>7, <1>8

\* The coverage of a leg whose total is the input's claim.
LEMMA ResizeInexactlyCovers ==
  ASSUME IInv, NEW item, item.fact.leg \in Legs, item.resulting \in Nat,
         ResizeInexactly(item)
  PROVE  \E c \in CoverRecord : Cover(item.fact.leg, c)
<1> DEFINE l == item.fact.leg
           inexact == cover[l].inexact \/ \E b \in broker : b.root = item.fact.root /\ b.leg = l
           c == [cover[l] EXCEPT !.total = item.resulting, !.inexact = inexact]
<1>1. Cover(l, c)
  BY DEF ResizeInexactly, IInv, CoverTypes, CoverRecord
<1>2. cover[l] \in CoverRecord /\ inexact \in BOOLEAN
  BY DEF IInv, CoverTypes
<1> HIDE DEF inexact
<1>3. c \in CoverRecord
  <2>1. item.resulting \in Int
    OBVIOUS
  <2> QED BY <1>2, <2>1, InexactCover
<1> HIDE DEF c
<1> QED BY <1>1, <1>3

\* An interval resized exactly covers the shares of its revised head: the
\* leg's total was the input's claim and the root the quantity it names.
LEMMA PositionResizes ==
  ASSUME IInv, PositionInv, OwnersStay, NEW item, item.fact \in Facts,
         item.fact.leg \in Legs, leg[item.fact.leg].owner \in Effects,
         item.fact.kind \notin RootKinds, item.prior \in Nat, item.root \in Nat,
         item.resulting \in Nat, item.resulting = item.prior - item.root + item.fact.qty,
         ExactMapping(item), ResizeExactly(item),
         ApplyFact(exec, item.fact).disp = "APPLIED",
         NEW s \in SUBSET {Conflict, Unreconciled, Overfill},
         exec' = Latch(ApplyFact(exec, item.fact).x, s)
  PROVE  PositionInv'
<1> DEFINE f == item.fact
           l == f.leg
           t == ApplyFact(exec, f)
<1>1. /\ Sound(exec) /\ \A k \in Legs \ unresolved : cover[k].total = Shares(exec, k)
      /\ \A k \in Legs : Shares(exec, k) \in Int
  BY PositionKnown, SharesAre DEF Sound
<1>2. Sound(t.x)
  BY <1>1, ApplyFactSound
<1>3. /\ \A k \in Legs : k # l => Shares(t.x, k) = Shares(exec, k)
      /\ \E i \in HeadAt(exec, f.root) :
           Shares(t.x, l) = Shares(exec, l) + f.qty - exec.heads[i].qty
  BY <1>1, ApplyFactShares
<1> HIDE DEF t
<1>4. Sound(exec') /\ \A k : Shares(exec', k) = Shares(t.x, k)
  <2>1. Sound(Latch(t.x, s)) /\ \A k : Shares(Latch(t.x, s), k) = Shares(t.x, k)
    BY <1>2, LatchSound, LatchShares DEF Sound
  <2> QED BY <2>1 DEF t
<1>5. CoverTypes
  BY DEF IInv
<1>6. /\ item.prior = cover[l].total /\ unresolved' = unresolved
      /\ \E i \in HeadAt(exec, f.root) : exec.heads[i].qty = item.root
  BY DEF ExactMapping, ResizeExactly
<1>7. PICK c \in CoverRecord :
        Cover(l, c) /\ (l \notin unresolved => c.total = item.resulting)
  BY ResizeExactlyCovers
<1>8. PICK i \in HeadAt(exec, f.root) :
         Shares(t.x, l) = Shares(exec, l) + f.qty - exec.heads[i].qty
  BY <1>3
<1>9. exec.heads[i].qty = item.root
  BY <1>1, <1>6, <1>8 DEF Sound, OneHeadPerRoot, HeadAt
<1>10. l \notin unresolved' => c.total = Shares(exec', l)
  <2> SUFFICES ASSUME l \notin unresolved PROVE c.total = Shares(exec', l)
    BY <1>6
  <2>1. c.total = item.resulting
    BY <1>7
  <2>2. Shares(exec, l) = item.prior
    BY <1>1, <1>6
  <2>3. Shares(exec', l) = Shares(exec, l) + f.qty - item.root
    BY <1>4, <1>8, <1>9
  <2>4. f.qty \in Nat
    BY InputAssumption
  <2> QED BY <2>1, <2>2, <2>3, <2>4
<1>11. \A k \in (Legs \ unresolved') \ {l} : Shares(exec', k) = Shares(exec, k)
  BY <1>3, <1>4
<1>12. unresolved \subseteq unresolved'
  BY <1>6
<1> QED BY <1>4, <1>5, <1>7, <1>10, <1>11, <1>12, PositionMoves

\* One resized inexactly is in dispute.
LEMMA PositionEstimates ==
  ASSUME IInv, PositionInv, OwnersStay, NEW item, item.fact \in Facts,
         item.fact.leg \in Legs, leg[item.fact.leg].owner \in Effects,
         item.resulting \in Nat, ResizeInexactly(item),
         NEW s \in SUBSET {Conflict, Unreconciled, Overfill},
         exec' = Latch(ApplyFact(exec, item.fact).x, s)
  PROVE  PositionInv'
<1> DEFINE f == item.fact
           l == f.leg
           t == ApplyFact(exec, f)
<1>1. Sound(exec)
  BY PositionKnown
<1>2. Sound(t.x)
  BY <1>1, ApplyFactSound
<1>3. \A k \in Legs : k # l => Shares(t.x, k) = Shares(exec, k)
  BY <1>1, ApplyFactShares
<1> HIDE DEF t
<1>4. Sound(exec') /\ \A k : Shares(exec', k) = Shares(t.x, k)
  <2>1. Sound(Latch(t.x, s)) /\ \A k : Shares(Latch(t.x, s), k) = Shares(t.x, k)
    BY <1>2, LatchSound, LatchShares DEF Sound
  <2> QED BY <2>1 DEF t
<1>5. CoverTypes
  BY DEF IInv
<1>6. PICK c \in CoverRecord : Cover(l, c)
  BY ResizeInexactlyCovers
<1>7. unresolved \subseteq unresolved' /\ l \in unresolved'
  BY DEF ResizeInexactly
<1>8. \A k \in (Legs \ unresolved') \ {l} : Shares(exec', k) = Shares(exec, k)
  BY <1>3, <1>4
<1> QED BY <1>4, <1>5, <1>6, <1>7, <1>8, PositionMoves

----------------------------------------------------------------------------
(* The actions.                                                            *)

\* An operator's attestation covers the shares it adds.
LEMMA HumanFillPosition ==
  ASSUME IInv, PositionInv, NEW f \in HumanFills, IngestHumanAttestedFill(f)
  PROVE  PositionInv'
<1> DEFINE resulting == f.prior + f.qty
<1>1. /\ f \in Facts /\ f.kind \in RootKinds /\ f.leg \in Legs /\ f.prior \in Nat
      /\ f.qty \in Nat
  BY InputAssumption DEF Facts, RootKinds
<1>2. leg[f.leg].owner \in Effects
  BY <1>1, OwnerIsEffect DEF IngestHumanAttestedFill
<1>3. /\ exec' = ApplyFact(exec, f).x /\ ApplyFact(exec, f).disp = "APPLIED"
      /\ AppendInterval(f.leg, f.root, f.qty, resulting) /\ RaiseAttempt(f.leg, resulting)
      /\ UNCHANGED <<effect, unresolved>> /\ Refresh({leg[f.leg].owner})
  BY DEF IngestHumanAttestedFill
<1>4. resulting \in Nat
  BY <1>1
<1> HIDE DEF resulting
<1>5. OwnersStay
  <2>1. /\ RaiseAttempt(f.leg, resulting) \/ UNCHANGED leg
        /\ unresolved' \subseteq unresolved \cup {f.leg} /\ unresolved \subseteq unresolved'
        /\ UNCHANGED effect
    BY <1>3
  <2> QED BY <1>1, <1>3, <1>4, <2>1, Parts, EvidenceKeepsLegs
<1>6. Sound(exec') /\ \A k : Shares(exec', k) = Shares(ApplyFact(exec, f).x, k)
  <2>1. Sound(exec)
    BY PositionKnown
  <2> QED BY <1>1, <1>3, <2>1, ApplyFactSound
<1>7. UNCHANGED unresolved
  BY <1>3
<1> QED BY <1>1, <1>2, <1>3, <1>4, <1>5, <1>6, <1>7, PositionAppends

\* A conflicting attestation latches and no more.
LEMMA HumanConflictPosition ==
  ASSUME IInv, PositionInv, NEW f \in HumanFills, HumanFillConflicts(f)
  PROVE  PositionInv'
<1>1. Sound(exec) /\ f \in Facts
  BY PositionKnown DEF Facts
<1>2. /\ exec' = ApplyFact(exec, f).x /\ Seen(exec, f.key) /\ UNCHANGED <<leg, unresolved>>
      /\ UNCHANGED <<cover, total>>
  BY DEF HumanFillConflicts
<1>3. ApplyFact(exec, f).disp # "APPLIED"
  BY <1>2 DEF ApplyFact, Transition
<1>4. \A l \in Legs : Shares(exec', l) = Shares(exec, l)
  BY <1>1, <1>2, <1>3, ApplyFactShares
<1>5. Sound(exec')
  BY <1>1, <1>2, ApplyFactSound
<1>6. OwnersStay /\ unresolved \subseteq unresolved'
  BY <1>2 DEF OwnersStay
<1> QED BY <1>2, <1>4, <1>5, <1>6, PositionStays

\* Broker evidence of a fill: counted, corroborated or disputed.
LEMMA FillPosition ==
  ASSUME IInv, PositionInv, NEW i \in FillInputs, NEW closing \in BOOLEAN,
         RecordBrokerFillEvidence(FillItem(i, closing))
  PROVE  PositionInv'
<1> DEFINE item == FillItem(i, closing)
           f == i.fact
           l == f.leg
           e == leg[l].owner
<1>1. /\ item.fact = f /\ item.prior = i.prior /\ item.resulting = i.resulting
  BY DEF FillItem
<1>2. f \in Facts /\ f.kind \in RootKinds /\ l \in Legs /\ i.resulting \in Nat
  BY InputAssumption DEF Facts, RootKinds
<1> HIDE DEF item
<1>3. Sound(exec) /\ IsSnapshot(exec)
  BY PositionKnown DEF Sound
<1>4. ASSUME Dispute(item) PROVE PositionInv'
  <2>1. /\ exec' = RecordReconciliation(exec, f).x /\ unresolved' = unresolved \cup {l}
        /\ UNCHANGED <<leg, cover, total>>
    BY <1>1, <1>4 DEF Dispute
  <2>2. Sound(exec') /\ \A k : Shares(exec', k) = Shares(exec, k)
    BY <1>2, <1>3, <2>1, RecordReconciliationSound, RecordReconciliationShares
  <2> QED BY <1>2, <2>1, <2>2, PositionDisputes
<1>5. CASE FillAttributionChanged(item)
  BY <1>4, <1>5 DEF FillAttributionChanged
<1>6. CASE FillUnmappable(item)
  BY <1>4, <1>6 DEF FillUnmappable
<1>7. CASE FillCorroborates(item)
  <2>1. /\ exec' = RecordCorroboration(exec, f).x
        /\ RecordCorroboration(exec, f).disp = "APPLIED"
        /\ UNCHANGED <<leg, unresolved>> /\ UNCHANGED <<cover, total>>
    BY <1>1, <1>7 DEF FillCorroborates, Corroborates
  <2>2. Sound(exec') /\ \A k : Shares(exec', k) = Shares(exec, k)
    BY <1>2, <1>3, <2>1, CorroborationSound, CorroborationShares
  <2>3. OwnersStay /\ unresolved \subseteq unresolved'
    BY <2>1 DEF OwnersStay
  <2> QED BY <2>1, <2>2, <2>3, PositionStays
<1>8. CASE FillApplies(item)
  <2> DEFINE s == OverCapacity(e, i.resulting, total[e] + f.qty)
  <2>1. /\ MatchesOwner(f) /\ exec' = Latch(ApplyFact(exec, f).x, s)
        /\ AppendInterval(l, f.root, f.qty, i.resulting) /\ RaiseAttempt(l, i.resulting)
        /\ UNCHANGED <<effect, unresolved>> /\ Refresh({e})
        /\ ApplyFact(exec, f).disp = "APPLIED"
    BY <1>1, <1>8 DEF FillApplies, Mappable
  <2>2. e \in Effects
    BY <1>2, <2>1, OwnerIsEffect
  <2>3. s \in SUBSET {Conflict, Unreconciled, Overfill}
    BY DEF OverCapacity
  <2> HIDE DEF s
  <2>4. OwnersStay
    <3>1. /\ RaiseAttempt(l, i.resulting) \/ UNCHANGED leg
          /\ unresolved' \subseteq unresolved \cup {l} /\ unresolved \subseteq unresolved'
          /\ UNCHANGED effect
      BY <2>1
    <3> QED BY <1>2, <2>1, <3>1, Parts, EvidenceKeepsLegs
  <2>5. Sound(exec') /\ \A k : Shares(exec', k) = Shares(ApplyFact(exec, f).x, k)
    <3> DEFINE y == ApplyFact(exec, f).x
    <3>1. Sound(y)
      BY <1>2, <1>3, ApplyFactSound
    <3> HIDE DEF y
    <3>2. Sound(Latch(y, s)) /\ \A k : Shares(Latch(y, s), k) = Shares(y, k)
      BY <2>3, <3>1, LatchSound, LatchShares DEF Sound
    <3> QED BY <2>1, <3>2 DEF y
  <2>6. UNCHANGED unresolved
    BY <2>1
  <2> QED BY <1>2, <2>1, <2>2, <2>4, <2>5, <2>6, PositionAppends
<1> QED BY <1>5, <1>6, <1>7, <1>8 DEF RecordBrokerFillEvidence, item

\* Broker evidence of a correction or a bust: mapped, estimated or disputed.
LEMMA RevisionPosition ==
  ASSUME IInv, PositionInv, NEW i \in RevisionInputs, NEW closing \in BOOLEAN,
         RecordBrokerRevisionEvidence(RevisionItem(i, closing))
  PROVE  PositionInv'
<1> DEFINE item == RevisionItem(i, closing)
           f == i.fact
           l == f.leg
           e == leg[l].owner
           t == ApplyFact(exec, f)
<1>1. /\ item.fact = f /\ item.prior = i.prior /\ item.root = i.root
      /\ item.resulting = i.prior - i.root + f.qty
  BY DEF RevisionItem
<1>2. /\ f \in Facts /\ l \in Legs /\ f.qty \in Nat /\ i.prior \in Nat /\ i.root \in Nat
      /\ f.kind \notin RootKinds /\ i.prior - i.root + f.qty >= 0
  BY InputAssumption DEF Facts, RootKinds
<1> HIDE DEF item
<1>3. /\ item.prior \in Nat /\ item.root \in Nat /\ item.resulting \in Nat
      /\ item.resulting = item.prior - item.root + item.fact.qty
  BY <1>1, <1>2
<1>4. Sound(exec) /\ Sound(t.x) /\ \A k \in Legs : k # l => Shares(t.x, k) = Shares(exec, k)
  BY <1>2, PositionKnown, ApplyFactSound, ApplyFactShares
<1> HIDE DEF t
<1>5. ASSUME NEW x, Sound(x), \A k \in Legs : k # l => Shares(x, k) = Shares(exec, k),
             DisputeRevision(item, x)
      PROVE  PositionInv'
  <2>1. /\ exec' = x /\ unresolved' = unresolved \cup {l}
        /\ UNCHANGED <<leg, cover, total>>
    BY <1>1, <1>5 DEF DisputeRevision
  <2>2. Sound(exec') /\ \A k \in Legs \ {l} : Shares(exec', k) = Shares(exec, k)
    BY <1>5, <2>1
  <2> QED BY <1>2, <2>1, <2>2, PositionDisputes
<1>6. CASE RevisionAttributionChanged(item)
  <2> DEFINE y == Latch(t.x, {Unreconciled})
  <2>1. Sound(y) /\ \A k : Shares(y, k) = Shares(t.x, k)
    BY <1>4, LatchSound, LatchShares DEF Sound
  <2>2. DisputeRevision(item, IF t.disp = "EXACT_REPLAY" THEN y ELSE t.x)
    BY <1>1, <1>6 DEF RevisionAttributionChanged, t
  <2> HIDE DEF y
  <2>3. \A k \in Legs : k # l => Shares(y, k) = Shares(exec, k)
    BY <1>4, <2>1
  <2> QED BY <1>4, <1>5, <2>1, <2>2, <2>3
<1>7. CASE RevisionUnlinked(item)
  BY <1>1, <1>4, <1>5, <1>7 DEF RevisionUnlinked, t
<1>8. CASE RevisionApplies(item)
  <2> DEFINE s == OverCapacity(e, item.resulting, total[e] - item.prior + item.resulting)
  <2>1. /\ MatchesOwner(f) /\ exec' = Latch(t.x, s) /\ t.disp = "APPLIED"
        /\ IF ExactMapping(item) THEN ResizeExactly(item) ELSE ResizeInexactly(item)
        /\ RaiseAttempt(l, item.resulting) /\ UNCHANGED effect /\ Refresh({e})
    BY <1>1, <1>8 DEF RevisionApplies, t
  <2>2. e \in Effects
    BY <1>2, <2>1, OwnerIsEffect
  <2>3. s \in SUBSET {Conflict, Unreconciled, Overfill}
    BY DEF OverCapacity
  <2> HIDE DEF s
  <2>4. unresolved' \subseteq unresolved \cup {l} /\ unresolved \subseteq unresolved'
    BY <1>1, <2>1 DEF ResizeExactly, ResizeInexactly
  <2>5. OwnersStay
    <3>1. RaiseAttempt(l, item.resulting) \/ UNCHANGED leg
      BY <2>1
    <3> QED BY <1>2, <1>3, <2>1, <2>4, <3>1, Parts, EvidenceKeepsLegs
  <2>6. /\ item.fact \in Facts /\ item.fact.leg \in Legs
        /\ leg[item.fact.leg].owner \in Effects /\ item.fact.kind \notin RootKinds
        /\ exec' = Latch(ApplyFact(exec, item.fact).x, s)
        /\ ApplyFact(exec, item.fact).disp = "APPLIED"
    BY <1>1, <1>2, <2>1, <2>2 DEF t
  <2>7. CASE ExactMapping(item)
    <3>1. ResizeExactly(item)
      BY <2>1, <2>7
    <3> QED BY <1>3, <2>3, <2>5, <2>6, <2>7, <3>1, PositionResizes
  <2>8. CASE ~ExactMapping(item)
    <3>1. ResizeInexactly(item)
      BY <2>1, <2>8
    <3> QED BY <1>3, <2>3, <2>5, <2>6, <3>1, PositionEstimates
  <2> QED BY <2>7, <2>8
<1> QED BY <1>6, <1>7, <1>8 DEF RecordBrokerRevisionEvidence, item

\* Every input keeps the position.
LEMMA NextKeepsPosition ==
  ASSUME IInv, PositionInv, Next
  PROVE  PositionInv'
<1>1. ASSUME NEW e \in Effects,
             \/ RecordDispatchClaim(e) \/ CancelBeforeDispatch(e)
             \/ CloseAcceptanceSet(e)
             \/ \E side \in {"BUY", "SELL"} : RequestEffect(e, side)
      PROVE  PositionInv'
  <2>1. UNCHANGED leg /\ UNCHANGED evidence
    BY <1>1 DEF RecordDispatchClaim, CancelBeforeDispatch, CloseAcceptanceSet, RequestEffect
  <2>2. OwnersStay
    BY <2>1 DEF OwnersStay
  <2> QED BY <2>1, <2>2, PositionUntouched
<1>2. ASSUME NEW e \in Effects, NEW o, RecordTransportOutcome(e, o) PROVE PositionInv'
  <2>1. OwnersStay
    BY <1>2, Parts, OutcomeKeepsLegs DEF EffectPart
  <2>2. UNCHANGED evidence
    BY <1>2 DEF RecordTransportOutcome
  <2> QED BY <2>1, <2>2, PositionUntouched
<1>3. ASSUME NEW l \in Legs, NEW s, NEW p, NEW c,
             leg' = [leg EXCEPT ![l].status = s, ![l].pending = p, ![l].cum = c],
             UNCHANGED evidence
      PROVE  PositionInv'
  <2>1. leg \in [Legs -> LegRecord]
    BY LegFields
  <2>2. OwnersStay
    BY <1>3, <2>1 DEF OwnersStay, LegRecord
  <2> QED BY <1>3, <2>2, PositionUntouched
<1>4. ASSUME NEW l \in Legs, NEW op, RecordPendingVenueOperation(l, op) PROVE PositionInv'
  <2>1. /\ leg' = [leg EXCEPT ![l].status = leg[l].status, ![l].pending = op,
                              ![l].cum = leg[l].cum]
        /\ UNCHANGED evidence
    BY <1>4, LegFields DEF RecordPendingVenueOperation, LegRecord
  <2> QED BY <1>3, <2>1
<1>5. ASSUME NEW l \in Legs, NEW s, NEW c, ObserveVenueStatus(l, s, c) PROVE PositionInv'
  <2> DEFINE p == IF s = "CLOSED" THEN "NONE" ELSE leg[l].pending
  <2>1. /\ leg' = [leg EXCEPT ![l].status = s, ![l].pending = p, ![l].cum = c]
        /\ UNCHANGED evidence
    BY <1>5, LegFields DEF ObserveVenueStatus, LegRecord
  <2> HIDE DEF p
  <2> QED BY <1>3, <2>1
<1>6. ASSUME NEW l \in Legs, NEW c, ObserveLaterTerminal(l, c) PROVE PositionInv'
  <2>1. /\ leg' = [leg EXCEPT ![l].status = leg[l].status, ![l].pending = leg[l].pending,
                              ![l].cum = c]
        /\ UNCHANGED evidence
    BY <1>6, LegFields DEF ObserveLaterTerminal, LegRecord
  <2> QED BY <1>3, <2>1
<1>7. ASSUME NEW l \in Legs, NEW filled \in BOOLEAN, ReleaseVenueLeg(l, filled)
      PROVE  PositionInv'
  <2>1. /\ leg' = [leg EXCEPT ![l].status = "CLOSED", ![l].pending = "NONE",
                              ![l].cum = leg[l].cum]
        /\ UNCHANGED evidence
    BY <1>7, LegFields DEF ReleaseVenueLeg, LegRecord
  <2> QED BY <1>3, <2>1
<1>8. ASSUME NEW e \in Effects, RecoverClaimedEffect(e) PROVE PositionInv'
  BY <1>2, <1>8 DEF RecoverClaimedEffect
<1>9. CASE BrokerEvidence
  BY <1>9, FillPosition, RevisionPosition DEF BrokerEvidence
<1>10. CASE OperatorEvidence
  BY <1>7, <1>10, HumanFillPosition, HumanConflictPosition DEF OperatorEvidence
<1> QED BY <1>1, <1>2, <1>4, <1>5, <1>6, <1>8, <1>9, <1>10, PositionDiscovers DEF Next

\* So does a step that changes nothing.
LEMMA StutterKeepsPosition ==
  ASSUME PositionInv, UNCHANGED vars
  PROVE  PositionInv'
<1>1. UNCHANGED leg /\ UNCHANGED evidence
  BY DEF vars, evidence
<1>2. OwnersStay
  BY <1>1 DEF OwnersStay
<1> QED BY <1>1, <1>2, PositionUntouched

----------------------------------------------------------------------------
(* The theorems about the position.                                        *)

\* The reducer's position, its registry and the coverage of the legs agree in
\* every reachable book.
THEOREM PositionInvariant == Spec => []PositionInv
<1>1. Init => PositionInv
  BY PositionInit
<1>2. IInv /\ PositionInv /\ [Next]_vars => PositionInv'
  BY NextKeepsPosition, StutterKeepsPosition
<1> QED BY <1>1, <1>2, VenueBookInvariant, PTL DEF Spec

\* After any mix of fills, corrections, busts and attestations, the quantity
\* is the sum of the effective heads, an available basis is the one computed
\* from them in root order, and a short position is quarantined.
THEOREM PositionIsTheFoldOfItsHeads == Spec => []BasisIsFold
<1>1. PositionInv => BasisIsFold
  <2> SUFFICES ASSUME PositionInv PROVE BasisIsFold
    OBVIOUS
  <2>1. FoldsHeads(exec) /\ ShortIsLatched(exec)
    BY DEF PositionInv, Sound
  <2> QED BY <2>1 DEF FoldsHeads, ShortIsLatched, BasisIsFold
<1> QED BY <1>1, PositionInvariant, PTL

\* A share enters the position once, whoever reported it: the heads of a leg
\* that is not in dispute add up to its canonical total and to its frontier,
\* and an effect's total is that of its legs.
THEOREM SharesAreCountedOnce == Spec => []SharesCountedOnce
<1>1. IInv /\ PositionInv => SharesCountedOnce
  BY DEF IInv, TailEndsAtTotal, PositionInv, CoverHoldsShares, TotalsAddUp, SharesCountedOnce
<1> QED BY <1>1, VenueBookInvariant, PositionInvariant, PTL

\* A restart that replays the registry gets the retained position, heads,
\* basis and tail proof, and clears no latch.
THEOREM RestartReproducesPosition == Spec => []RestartReproduces
<1>1. PositionInv => RestartReproduces
  <2> SUFFICES ASSUME PositionInv, Replay(exec.seen).ok
               PROVE  HydrationMatches(exec, Replay(exec.seen).x)
    BY DEF RestartReproduces
  <2>1. SamePosition(exec, Replay(exec.seen).x)
    BY DEF PositionInv, Sound, Replays
  <2> HIDE DEF Replay
  <2> QED BY <2>1 DEF SamePosition, SameEconomics, HydrationMatches
<1> QED BY <1>1, PositionInvariant, PTL

----------------------------------------------------------------------------
(* Type correctness.                                                       *)

\* Evidence that adds no coverage keeps the shape of the book.
LEMMA ShapeStays ==
  ASSUME ShapeInv, OwnedIffKnown', UNCHANGED <<broker, cover, revised>>,
         unresolved \subseteq unresolved'
  PROVE  ShapeInv'
<1>1. CoverIsNat' /\ TailEndsUnlessRevised'
  BY DEF ShapeInv, CoverIsNat, TailEndsUnlessRevised
<1>2. revised' \subseteq unresolved'
  BY DEF ShapeInv
<1> QED BY <1>1, <1>2 DEF ShapeInv

\* An input that leaves the evidence alone.
LEMMA ShapeUntouched ==
  ASSUME ShapeInv, OwnedIffKnown', UNCHANGED evidence
  PROVE  ShapeInv'
<1>1. UNCHANGED <<broker, cover, revised>> /\ unresolved \subseteq unresolved'
  BY DEF evidence
<1> QED BY <1>1, ShapeStays

\* Legs that keep their owner and are known as before.
LEMMA KnownStays ==
  ASSUME ShapeInv,
         \A k \in Legs : /\ leg'[k].owner = leg[k].owner
                         /\ leg'[k].status \in Active \cup {"CLOSED"}
                              <=> leg[k].status \in Active \cup {"CLOSED"}
  PROVE  OwnedIffKnown'
BY DEF ShapeInv, OwnedIffKnown

\* A known leg moves to another known status.
LEMMA KnownMoves ==
  ASSUME IInv, ShapeInv, NEW l \in Legs, NEW s \in Active \cup {"CLOSED"}, NEW p, NEW c,
         leg' = [leg EXCEPT ![l].status = s, ![l].pending = p, ![l].cum = c],
         leg[l].status \in Active \cup {"CLOSED"}
  PROVE  OwnedIffKnown'
<1>1. leg \in [Legs -> LegRecord]
  BY LegFields
<1>2. leg'[l].owner = leg[l].owner /\ leg'[l].status = s
  BY <1>1 DEF LegRecord
<1>3. \A k \in Legs \ {l} : leg'[k] = leg[k]
  BY <1>1
<1> QED BY <1>2, <1>3, KnownStays

\* Evidence raises the cumulative quantity of an attempt and nothing else.
LEMMA RaiseKeepsKnown ==
  ASSUME IInv, ShapeInv, NEW l \in Legs, NEW c, RaiseAttempt(l, c)
  PROVE  OwnedIffKnown'
<1>1. leg \in [Legs -> LegRecord]
  BY LegFields
<1>2. CASE IsActive(l)
  <2> DEFINE v == Max({leg[l].cum, c})
  <2>1. leg' = [leg EXCEPT ![l].cum = v]
    BY <1>1, <1>2 DEF RaiseAttempt
  <2> HIDE DEF v
  <2>2. \A k \in Legs : leg'[k].owner = leg[k].owner /\ leg'[k].status = leg[k].status
    BY <1>1, <2>1 DEF LegRecord
  <2> QED BY <2>2, KnownStays
<1>3. CASE ~IsActive(l)
  BY <1>3, KnownStays DEF RaiseAttempt
<1> QED BY <1>2, <1>3

\* A cancel's outcome shows on the pending operation of its target only.
LEMMA OutcomeKeepsKnown ==
  ASSUME IInv, ShapeInv, NEW e \in Effects, NEW o, RecordTransportOutcome(e, o)
  PROVE  OwnedIffKnown'
<1>1. leg \in [Legs -> LegRecord]
  BY DEF IInv, LegTypes
<1>2. CASE Kind[e] = "CANCEL" /\ IsActive(Target[e])
  <2> DEFINE p == IF o \in {"ACKNOWLEDGED", "OUTCOME_UNKNOWN"} THEN "CANCEL" ELSE "NONE"
  <2>1. leg' = [leg EXCEPT ![Target[e]].pending = p]
    BY <1>2 DEF RecordTransportOutcome, CancelShows
  <2> HIDE DEF p
  <2>2. \A k \in Legs : leg'[k].owner = leg[k].owner /\ leg'[k].status = leg[k].status
    BY <1>1, <2>1 DEF LegRecord
  <2> QED BY <2>2, KnownStays
<1>3. CASE ~(Kind[e] = "CANCEL" /\ IsActive(Target[e]))
  BY <1>3, KnownStays DEF RecordTransportOutcome, CancelShows
<1> QED BY <1>2, <1>3

\* A leg is discovered as an attempt of its effect.
LEMMA DiscoverKeepsKnown ==
  ASSUME IInv, ShapeInv, NEW e \in Effects, NEW l \in Legs, DiscoverVenueLeg(e, l)
  PROVE  OwnedIffKnown'
<1>1. leg \in [Legs -> LegRecord] /\ None \notin Effects
  BY LegFields, VenueAssumption
<1>2. leg' = [leg EXCEPT ![l] = [owner |-> e, status |-> "WORKING",
                                 pending |-> "NONE", cum |-> 0]]
  BY DEF DiscoverVenueLeg
<1>3. leg'[l].owner = e /\ leg'[l].status = "WORKING" /\ \A k \in Legs \ {l} : leg'[k] = leg[k]
  BY <1>1, <1>2
<1>4. e # None /\ "WORKING" \in Active
  BY <1>1 DEF Active
<1> QED BY <1>3, <1>4 DEF ShapeInv, OwnedIffKnown

\* An interval is appended to the coverage of a leg.
LEMMA ShapeAppends ==
  ASSUME IInv, ShapeInv, NEW f \in Facts, NEW l \in Legs,
         leg[l].owner \in Effects, NEW resulting \in Nat, NEW N,
         f.qty \in Nat, resulting = cover[l].frontier + f.qty,
         AppendInterval(l, f.root, f.qty, resulting), broker' = broker \cup N,
         \A b \in N : b.leg = l /\ b.root = f.root /\ b.resulting = resulting,
         HeadAt(exec, f.root) = {}, RaiseAttempt(l, resulting),
         UNCHANGED <<unresolved, revised>>
  PROVE  ShapeInv'
<1> DEFINE v == Max({cover[l].frontier, resulting})
           t == cover[l].total + f.qty
           c == [cover[l] EXCEPT !.frontier = v, !.total = t, !.tail = f.root]
<1>1. /\ cover \in [Legs -> CoverRecord] /\ cover[l] \in CoverRecord
      /\ cover[l].frontier \in Nat /\ cover[l].total \in Nat
  BY DEF IInv, CoverTypes, ShapeInv, CoverIsNat
<1>2. v = resulting /\ t \in Nat
  BY <1>1, MaxOfTwo
<1>3. cover' = [cover EXCEPT ![l] = c]
  BY <1>1 DEF AppendInterval, Cover, CoverRecord
<1> HIDE DEF v, t
<1>4. c.frontier = resulting /\ c.total = t /\ c.tail = f.root
  BY <1>1, <1>2 DEF CoverRecord
<1> HIDE DEF c
<1>5. cover'[l] = c /\ \A k \in Legs \ {l} : cover'[k] = cover[k]
  BY <1>1, <1>3
<1>6. OwnedIffKnown'
  BY RaiseKeepsKnown
<1>7. CoverIsNat'
  BY <1>2, <1>4, <1>5 DEF ShapeInv, CoverIsNat
<1>8. \A b \in broker : b.root # f.root
  BY DEF IInv, OneIntervalPerRoot
<1>9. TailEndsUnlessRevised'
  <2> SUFFICES ASSUME NEW k \in Legs \ revised
               PROVE  /\ cover'[k].frontier = cover'[k].total
                      /\ \A b \in broker' : b.leg = k /\ b.root = cover'[k].tail
                                              => b.resulting = cover'[k].total
    BY DEF TailEndsUnlessRevised
  <2>1. /\ cover[k].frontier = cover[k].total
        /\ \A b \in broker : b.leg = k /\ b.root = cover[k].tail
                                => b.resulting = cover[k].total
    BY DEF ShapeInv, TailEndsUnlessRevised
  <2>2. CASE k = l
    <3>1. t = resulting
      BY <2>1, <2>2 DEF t
    <3> QED BY <1>4, <1>5, <1>8, <2>2, <3>1
  <2>3. CASE k # l
    BY <1>5, <2>1, <2>3
  <2> QED BY <2>2, <2>3
<1>10. revised' \subseteq unresolved'
  BY DEF ShapeInv
<1> QED BY <1>6, <1>7, <1>9, <1>10 DEF ShapeInv

\* A correction or bust resizes the last interval of a leg.
LEMMA ShapeResizes ==
  ASSUME IInv, ShapeInv, NEW item, item.fact.leg \in Legs, item.resulting \in Nat,
         ExactMapping(item), ResizeExactly(item), OwnedIffKnown'
  PROVE  ShapeInv'
<1> DEFINE l == item.fact.leg
           b0 == CHOOSE b \in broker : b.root = item.fact.root
           n == [b0 EXCEPT !.resulting = item.resulting]
           t == cover[l].total + item.resulting - b0.resulting
           v == IF item.resulting # b0.resulting THEN item.resulting
                                                 ELSE cover[l].frontier
           c == [cover[l] EXCEPT !.total = t, !.frontier = v]
<1>1. PICK b1 \in broker : b1.root = item.fact.root /\ b1.leg = l
  BY DEF ExactMapping
<1>2. b0 \in broker /\ b0.root = item.fact.root
  BY <1>1
<1>3. /\ cover \in [Legs -> CoverRecord] /\ cover[l] \in CoverRecord
      /\ cover[l].frontier \in Nat /\ cover[l].total \in Nat
  BY DEF IInv, CoverTypes, ShapeInv, CoverIsNat
<1>4. /\ cover[l].tail = item.fact.root /\ l \notin revised
      /\ broker' = (broker \ {b0}) \cup {n}
      /\ cover' = [cover EXCEPT ![l] = c] /\ UNCHANGED <<unresolved, revised>>
  BY <1>3 DEF ExactMapping, ResizeExactly, Cover, CoverRecord
<1> HIDE DEF b0
<1>5. /\ \A a, b \in broker : a.root = b.root => a = b
      /\ b0.leg = l /\ b0 \in BrokerRecord
  BY <1>1, <1>2 DEF IInv, OneIntervalPerRoot, CoverTypes
<1>6. n.root = b0.root /\ n.leg = l /\ n.resulting = item.resulting
  BY <1>5 DEF BrokerRecord
<1> HIDE DEF n
<1>7. b0.resulting = cover[l].total /\ cover[l].frontier = cover[l].total
  BY <1>2, <1>4, <1>5 DEF ShapeInv, TailEndsUnlessRevised
<1>8. t = item.resulting /\ v = item.resulting
  BY <1>3, <1>7
<1> HIDE DEF t, v
<1>9. c.total = item.resulting /\ c.frontier = item.resulting /\ c.tail = item.fact.root
  BY <1>3, <1>4, <1>8 DEF CoverRecord
<1> HIDE DEF c
<1>10. cover'[l] = c /\ \A k \in Legs \ {l} : cover'[k] = cover[k]
  BY <1>3, <1>4
<1>11. CoverIsNat'
  BY <1>9, <1>10 DEF ShapeInv, CoverIsNat
<1>12. TailEndsUnlessRevised'
  <2> SUFFICES ASSUME NEW k \in Legs \ revised
               PROVE  /\ cover'[k].frontier = cover'[k].total
                      /\ \A b \in broker' : b.leg = k /\ b.root = cover'[k].tail
                                              => b.resulting = cover'[k].total
    BY <1>4 DEF TailEndsUnlessRevised
  <2>1. /\ cover[k].frontier = cover[k].total
        /\ \A b \in broker : b.leg = k /\ b.root = cover[k].tail
                                => b.resulting = cover[k].total
    BY DEF ShapeInv, TailEndsUnlessRevised
  <2>2. CASE k = l
    <3>1. \A b \in broker' : b.root = item.fact.root => b = n
      BY <1>2, <1>4, <1>5
    <3> QED BY <1>6, <1>9, <1>10, <2>2, <3>1
  <2>3. CASE k # l
    BY <1>4, <1>6, <1>10, <2>1, <2>3
  <2> QED BY <2>2, <2>3
<1>13. revised' \subseteq unresolved'
  BY <1>4 DEF ShapeInv
<1> QED BY <1>11, <1>12, <1>13 DEF ShapeInv

\* A revision that cannot be mapped leaves the leg revised and in dispute.
LEMMA ShapeEstimates ==
  ASSUME IInv, ShapeInv, NEW item, item.fact.leg \in Legs, item.resulting \in Nat,
         ResizeInexactly(item), OwnedIffKnown'
  PROVE  ShapeInv'
<1> DEFINE l == item.fact.leg
           bend(b) == IF b.root = item.fact.root /\ b.leg = l
                      THEN [b EXCEPT !.exact = FALSE] ELSE b
           ix == cover[l].inexact \/ \E b \in broker : b.root = item.fact.root /\ b.leg = l
           c == [cover[l] EXCEPT !.total = item.resulting, !.inexact = ix]
<1>1. /\ cover \in [Legs -> CoverRecord] /\ cover[l] \in CoverRecord
      /\ cover[l].frontier \in Nat /\ broker \subseteq BrokerRecord
  BY DEF IInv, CoverTypes, ShapeInv, CoverIsNat
<1>2. /\ broker' = {bend(b) : b \in broker} /\ cover' = [cover EXCEPT ![l] = c]
      /\ unresolved' = unresolved \cup {l} /\ revised' = revised \cup {l}
  BY <1>1 DEF ResizeInexactly, Cover, CoverRecord
<1> HIDE DEF ix
<1>3. c.total = item.resulting /\ c.frontier = cover[l].frontier
  BY <1>1 DEF CoverRecord
<1> HIDE DEF c
<1>4. cover'[l] = c /\ \A k \in Legs \ {l} : cover'[k] = cover[k]
  BY <1>1, <1>2
<1>5. CoverIsNat'
  BY <1>1, <1>3, <1>4 DEF ShapeInv, CoverIsNat
<1>6. \A b \in broker : bend(b).leg # l => bend(b) = b
  BY <1>1 DEF BrokerRecord
<1> HIDE DEF bend
<1>7. TailEndsUnlessRevised'
  <2> SUFFICES ASSUME NEW k \in Legs \ revised, k # l
               PROVE  /\ cover'[k].frontier = cover'[k].total
                      /\ \A b \in broker' : b.leg = k /\ b.root = cover'[k].tail
                                              => b.resulting = cover'[k].total
    BY <1>2 DEF TailEndsUnlessRevised
  <2>1. /\ cover[k].frontier = cover[k].total
        /\ \A b \in broker : b.leg = k /\ b.root = cover[k].tail
                                => b.resulting = cover[k].total
    BY DEF ShapeInv, TailEndsUnlessRevised
  <2>2. \A b \in broker' : b.leg = k => b \in broker
    BY <1>2, <1>6
  <2> QED BY <1>4, <2>1, <2>2
<1>8. revised' \subseteq unresolved'
  BY <1>2 DEF ShapeInv
<1> QED BY <1>5, <1>7, <1>8 DEF ShapeInv

\* An attestation keeps the shape of the book.
LEMMA HumanFillShape ==
  ASSUME IInv, ShapeInv, NEW f \in HumanFills, IngestHumanAttestedFill(f)
  PROVE  ShapeInv'
<1> DEFINE l == f.leg
           e == leg[l].owner
           resulting == f.prior + f.qty
<1>1. /\ f \in Facts /\ f.kind \in RootKinds /\ l \in Legs /\ f.prior \in Nat
      /\ f.qty \in Nat
  BY InputAssumption DEF Facts, RootKinds
<1>2. e \in Effects
  BY <1>1, OwnerIsEffect DEF IngestHumanAttestedFill
<1>3. HeadAt(exec, f.root) = {}
  BY <1>1, ApplyFactGrows DEF IngestHumanAttestedFill, IInv, ExecTypes
<1>4. /\ AppendInterval(l, f.root, f.qty, resulting) /\ RaiseAttempt(l, resulting)
      /\ f.prior = cover[l].frontier /\ UNCHANGED <<broker, unresolved, revised>>
  BY DEF IngestHumanAttestedFill
<1>5. resulting \in Nat /\ resulting = cover[l].frontier + f.qty
  BY <1>1, <1>4
<1> DEFINE N == {}
<1>6. /\ broker' = broker \cup N
      /\ \A b \in N : b.leg = l /\ b.root = f.root /\ b.resulting = resulting
  BY <1>4
<1> HIDE DEF N, resulting
<1>7. UNCHANGED <<unresolved, revised>>
  BY <1>4
<1> QED BY <1>1, <1>2, <1>3, <1>4, <1>5, <1>6, <1>7, ShapeAppends

\* So does broker evidence of a fill.
LEMMA FillShape ==
  ASSUME IInv, ShapeInv, NEW i \in FillInputs, NEW closing \in BOOLEAN,
         RecordBrokerFillEvidence(FillItem(i, closing))
  PROVE  ShapeInv'
<1> DEFINE item == FillItem(i, closing)
           f == i.fact
           l == f.leg
           e == leg[l].owner
<1>1. item.fact = f /\ item.prior = i.prior /\ item.resulting = i.resulting
  BY DEF FillItem
<1>2. /\ f \in Facts /\ f.kind \in RootKinds /\ l \in Legs /\ f.qty \in Nat
      /\ i.prior \in Nat /\ i.resulting \in Nat
  BY InputAssumption DEF Facts, RootKinds
<1> HIDE DEF item
<1>3. ASSUME UNCHANGED <<leg, broker, cover, revised>>, unresolved \subseteq unresolved'
      PROVE  ShapeInv'
  BY <1>3, KnownStays, ShapeStays
<1>4. CASE FillAttributionChanged(item) \/ FillUnmappable(item)
  <2>1. Dispute(item)
    BY <1>4 DEF FillAttributionChanged, FillUnmappable
  <2> QED BY <1>3, <2>1 DEF Dispute
<1>5. CASE FillCorroborates(item)
  BY <1>3, <1>5 DEF FillCorroborates
<1>6. CASE FillApplies(item)
  <2> DEFINE n == [leg |-> l, root |-> f.root, prior |-> i.prior,
                   resulting |-> i.resulting, exact |-> TRUE]
             N == {n}
  <2>1. /\ MatchesOwner(f) /\ broker' = broker \cup N
        /\ AppendInterval(l, f.root, f.qty, i.resulting) /\ RaiseAttempt(l, i.resulting)
        /\ UNCHANGED <<unresolved, revised>> /\ Mappable(item)
    BY <1>1, <1>6 DEF FillApplies
  <2>2. /\ ApplyFact(exec, f).disp = "APPLIED" /\ i.prior = cover[l].frontier
        /\ i.resulting - i.prior = f.qty
    BY <1>1, <2>1 DEF Mappable, Width
  <2>3. e \in Effects
    BY <1>2, <2>1, OwnerIsEffect
  <2>4. HeadAt(exec, f.root) = {}
    BY <1>2, <2>2, ApplyFactGrows DEF IInv, ExecTypes
  <2>5. \A b \in N : b.leg = l /\ b.root = f.root /\ b.resulting = i.resulting
    OBVIOUS
  <2>6. i.resulting = cover[l].frontier + f.qty
    BY <1>2, <2>2
  <2> HIDE DEF N, n
  <2> QED BY <1>2, <2>1, <2>3, <2>4, <2>5, <2>6, ShapeAppends
<1> QED BY <1>4, <1>5, <1>6 DEF RecordBrokerFillEvidence, item

\* And broker evidence of a correction or a bust.
LEMMA RevisionShape ==
  ASSUME IInv, ShapeInv, NEW i \in RevisionInputs, NEW closing \in BOOLEAN,
         RecordBrokerRevisionEvidence(RevisionItem(i, closing))
  PROVE  ShapeInv'
<1> DEFINE item == RevisionItem(i, closing)
           l == item.fact.leg
<1>1. item.fact = i.fact /\ item.resulting = i.prior - i.root + i.fact.qty
  BY DEF RevisionItem
<1>2. l \in Legs /\ item.resulting \in Nat
  <2>1. /\ i.fact \in Facts /\ i.fact.leg \in Legs /\ i.fact.qty \in Nat
        /\ i.prior \in Nat /\ i.root \in Nat /\ i.prior - i.root + i.fact.qty >= 0
    BY InputAssumption DEF Facts
  <2> QED BY <1>1, <2>1
<1> HIDE DEF item
<1>3. ASSUME NEW x, DisputeRevision(item, x) PROVE ShapeInv'
  <2>1. /\ UNCHANGED <<leg, broker, cover, revised>>
        /\ unresolved \subseteq unresolved'
    BY <1>3 DEF DisputeRevision
  <2> QED BY <2>1, KnownStays, ShapeStays
<1>4. CASE RevisionAttributionChanged(item)
  BY <1>3, <1>4 DEF RevisionAttributionChanged
<1>5. CASE RevisionUnlinked(item)
  BY <1>3, <1>5 DEF RevisionUnlinked
<1>6. CASE RevisionApplies(item)
  <2>1. /\ IF ExactMapping(item) THEN ResizeExactly(item) ELSE ResizeInexactly(item)
        /\ RaiseAttempt(l, item.resulting)
    BY <1>6 DEF RevisionApplies
  <2>2. OwnedIffKnown'
    BY <1>2, <2>1, RaiseKeepsKnown
  <2> QED BY <1>2, <2>1, <2>2, ShapeResizes, ShapeEstimates
<1> QED BY <1>4, <1>5, <1>6 DEF RecordBrokerRevisionEvidence, item

\* Every input keeps the shape of the book.
LEMMA NextKeepsShape ==
  ASSUME IInv, ShapeInv, Next
  PROVE  ShapeInv'
<1>1. ASSUME NEW e \in Effects,
             \/ RecordDispatchClaim(e) \/ CancelBeforeDispatch(e)
             \/ CloseAcceptanceSet(e)
             \/ \E side \in {"BUY", "SELL"} : RequestEffect(e, side)
      PROVE  ShapeInv'
  <2>1. UNCHANGED leg /\ UNCHANGED evidence
    BY <1>1 DEF RecordDispatchClaim, CancelBeforeDispatch, CloseAcceptanceSet, RequestEffect
  <2> QED BY <2>1, KnownStays, ShapeUntouched
<1>2. ASSUME NEW e \in Effects, NEW o, RecordTransportOutcome(e, o) PROVE ShapeInv'
  <2>1. UNCHANGED evidence
    BY <1>2 DEF RecordTransportOutcome
  <2> QED BY <1>2, <2>1, OutcomeKeepsKnown, ShapeUntouched
<1>3. ASSUME NEW e \in Effects, NEW l \in Legs, DiscoverVenueLeg(e, l) PROVE ShapeInv'
  <2>1. UNCHANGED evidence
    BY <1>3 DEF DiscoverVenueLeg
  <2> QED BY <1>3, <2>1, DiscoverKeepsKnown, ShapeUntouched
<1>4. ASSUME NEW l \in Legs, NEW op, RecordPendingVenueOperation(l, op) PROVE ShapeInv'
  <2>1. leg' = [leg EXCEPT ![l].status = leg[l].status, ![l].pending = op,
                           ![l].cum = leg[l].cum]
    BY <1>4, LegFields DEF RecordPendingVenueOperation, LegRecord
  <2>2. leg[l].status \in Active \cup {"CLOSED"} /\ UNCHANGED evidence
    BY <1>4 DEF RecordPendingVenueOperation, IsActive
  <2> QED BY <2>1, <2>2, KnownMoves, ShapeUntouched
<1>5. ASSUME NEW l \in Legs, NEW s \in Active \cup {"CLOSED"}, NEW c,
             ObserveVenueStatus(l, s, c)
      PROVE  ShapeInv'
  <2> DEFINE p == IF s = "CLOSED" THEN "NONE" ELSE leg[l].pending
  <2>1. leg' = [leg EXCEPT ![l].status = s, ![l].pending = p, ![l].cum = c]
    BY <1>5, LegFields DEF ObserveVenueStatus, LegRecord
  <2> HIDE DEF p
  <2>2. leg[l].status \in Active \cup {"CLOSED"} /\ UNCHANGED evidence
    BY <1>5 DEF ObserveVenueStatus, IsActive
  <2> QED BY <2>1, <2>2, KnownMoves, ShapeUntouched
<1>6. ASSUME NEW l \in Legs, NEW c, ObserveLaterTerminal(l, c) PROVE ShapeInv'
  <2>1. leg' = [leg EXCEPT ![l].status = leg[l].status, ![l].pending = leg[l].pending,
                           ![l].cum = c]
    BY <1>6, LegFields DEF ObserveLaterTerminal, LegRecord
  <2>2. leg[l].status \in Active \cup {"CLOSED"} /\ UNCHANGED evidence
    BY <1>6 DEF ObserveLaterTerminal, Closed
  <2> QED BY <2>1, <2>2, KnownMoves, ShapeUntouched
<1>7. ASSUME NEW l \in Legs, NEW filled \in BOOLEAN, ReleaseVenueLeg(l, filled)
      PROVE  ShapeInv'
  <2>1. leg' = [leg EXCEPT ![l].status = "CLOSED", ![l].pending = "NONE",
                           ![l].cum = leg[l].cum]
    BY <1>7, LegFields DEF ReleaseVenueLeg, LegRecord
  <2>2. /\ leg[l].status \in Active \cup {"CLOSED"} /\ "CLOSED" \in Active \cup {"CLOSED"}
        /\ UNCHANGED evidence
    BY <1>7 DEF ReleaseVenueLeg, Active
  <2> QED BY <2>1, <2>2, KnownMoves, ShapeUntouched
<1>8. ASSUME NEW f \in HumanFills, HumanFillConflicts(f) PROVE ShapeInv'
  <2>1. UNCHANGED <<leg, broker, cover, revised>> /\ unresolved \subseteq unresolved'
    BY <1>8 DEF HumanFillConflicts
  <2> QED BY <2>1, KnownStays, ShapeStays
<1>9. ASSUME NEW e \in Effects, RecoverClaimedEffect(e) PROVE ShapeInv'
  BY <1>2, <1>9 DEF RecoverClaimedEffect
<1>10. CASE BrokerEvidence
  BY <1>10, FillShape, RevisionShape DEF BrokerEvidence
<1>11. CASE OperatorEvidence
  BY <1>7, <1>8, <1>11, HumanFillShape DEF OperatorEvidence
<1> QED BY <1>1, <1>2, <1>3, <1>4, <1>5, <1>6, <1>9, <1>10, <1>11 DEF Next

\* An empty book has the shape.
LEMMA InitShape ==
  ASSUME Init
  PROVE  ShapeInv
<1>1. /\ leg = [l \in Legs |-> NoLeg] /\ cover = [l \in Legs |-> NoCover]
      /\ broker = {} /\ revised = {}
  BY DEF Init
<1>2. OwnedIffKnown
  BY <1>1 DEF OwnedIffKnown, NoLeg, Active
<1>3. CoverIsNat /\ TailEndsUnlessRevised
  BY <1>1 DEF CoverIsNat, TailEndsUnlessRevised, NoCover
<1> QED BY <1>1, <1>2, <1>3 DEF ShapeInv

\* The shape is the same after a step that changes nothing.
LEMMA StutterKeepsShape ==
  ASSUME ShapeInv, UNCHANGED vars
  PROVE  ShapeInv'
<1>1. UNCHANGED leg /\ UNCHANGED evidence
  BY DEF vars, evidence
<1> QED BY <1>1, KnownStays, ShapeUntouched

\* A leg is owned exactly when its status is known, an inexact revision is in
\* dispute, and no frontier or total is ever negative, also after busts and
\* corrections of disputed legs.
THEOREM VenueBookTypes == Spec => []TypeOK
<1>1. Init => ShapeInv
  BY InitShape
<1>2. IInv /\ ShapeInv /\ [Next]_vars => ShapeInv'
  BY NextKeepsShape, StutterKeepsShape
<1>3. IInv /\ PositionInv /\ ShapeInv => TypeOK
  <2> SUFFICES ASSUME IInv, PositionInv, ShapeInv PROVE TypeOK
    OBVIOUS
  <2>1. ASSUME NEW e \in Effects
        PROVE  /\ effect[e].state \in EffectStates
               /\ effect[e].acceptance \in {"OPEN", "CLOSED", "INVALIDATED"}
               /\ total[e] \in Nat
    <3> DEFINE g == [l \in Owned(e) |-> cover[l].total]
    <3>1. Owned(e) \subseteq Legs /\ IsFiniteSet(Owned(e))
      BY FS_Subset, VenueAssumption DEF Owned
    <3>2. \A l \in Owned(e) : g[l] \in Int /\ g[l] >= 0
      BY <3>1 DEF ShapeInv, CoverIsNat
    <3> HIDE DEF g
    <3>3. SumFunctionOnSet(g, Owned(e)) \in Nat
      BY <3>1, <3>2, SumType
    <3>4. total[e] \in Nat
      BY <3>3 DEF PositionInv, TotalsAddUp, g
    <3> QED BY <3>4 DEF IInv, EffectTypes, EffectRecord
  <2>2. ASSUME NEW l \in Legs
        PROVE  /\ leg[l].owner \in Effects \cup {None}
               /\ leg[l].owner # None <=> leg[l].status \in Active \cup {"CLOSED"}
               /\ reserved[l] \in Effects \cup {None}
               /\ cover[l].frontier \in Nat /\ cover[l].total \in Nat
    BY LegFields DEF IInv, EffectTypes, ShapeInv, OwnedIffKnown, CoverIsNat
  <2>3. /\ unresolved \subseteq Legs /\ revised \subseteq unresolved
        /\ exec.integrity \subseteq {Conflict, Unreconciled, Overfill}
    BY DEF IInv, LegTypes, ExecTypes, IsSnapshot, ShapeInv
  <2> QED BY <2>1, <2>2, <2>3 DEF TypeOK
<1> QED BY <1>1, <1>2, <1>3, VenueBookInvariant, PositionInvariant, PTL DEF Spec
=============================================================================
