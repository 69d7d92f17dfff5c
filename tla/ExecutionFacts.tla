--------------------------- MODULE ExecutionFacts ---------------------------
(***************************************************************************)
(* The execution-fact reducer of the kernel (execution_core/position.py):  *)
(* one symbol's position as the fold of broker fills, corrections, busts   *)
(* and human attestations, kept as a snapshot of raw quantity, cost basis, *)
(* root heads, integrity latches and the ordered registry of seen facts.   *)
(* Operators only: VenueRecovery applies them to its state.                *)
(*                                                                         *)
(* A fact is a record [key, kind, side, leg, root, pred, qty, price], a    *)
(* price a positive number of units whose grid (currency, tick) is         *)
(* Grid[price]; NoPrice is a bust that reports none.  Bindings and         *)
(* commitments are left out: a snapshot is one value, so its parts always  *)
(* belong together.                                                        *)
(***************************************************************************)
EXTENDS Integers, Sequences, SequencesExt, FiniteSetsExt

CONSTANTS Prices,     \* the prices a fact may report
          Grid        \* Grid[p]: the price grid of p, "misaligned" off it

ASSUME PricesAssumption == Prices \subseteq Nat \ {0}

NoPrice == 0
None == "none"

Conflict == "EXECUTION_FACT_CONFLICT"
Unreconciled == "EXECUTION_RECONCILIATION_REQUIRED"
Overfill == "OVERFILL_QUARANTINE"

RootKinds == {"FILL", "HUMAN"}
BrokerKinds == {"FILL", "CORRECT", "BUST"}

(***************************************************************************)
(* Exact rational basis: a reduced <<numerator, denominator>>.             *)
(***************************************************************************)
Fraction(n, d) ==
  LET g == Max({k \in 1..d : n % k = 0 /\ d % k = 0})
  IN  <<n \div g, d \div g>>

Pending == <<0, 0>>                 \* BASIS_RECONCILIATION_PENDING: no basis

Zero == <<0, 1>>

AddTo(b, n) == Fraction(b[1] + n * b[2], b[2])
Scale(b, n, d) == Fraction(b[1] * n, b[2] * d)

(***************************************************************************)
(* _fold_one: one fill applied to a quantity and its cost basis.           *)
(***************************************************************************)
Signed(side, q) == IF side = "BUY" THEN q ELSE -q

FoldBasis(raw, basis, side, q, price) ==
  LET next == raw + Signed(side, q) IN
  CASE side = "BUY" /\ raw >= 0                -> AddTo(basis, q * price)
    [] side = "BUY" /\ raw < 0 /\ next > 0     -> Fraction(next * price, 1)
    [] side = "SELL" /\ raw > 0 /\ next > 0    -> Scale(basis, next, raw)
    [] OTHER                                   -> Zero

\* _metadata_accepts and _next_metadata: prices of two grids do not add up.
MetadataAccepts(ref, price) ==
  price # NoPrice => /\ Grid[price] # "misaligned"
                     /\ (ref # NoPrice => Grid[ref] = Grid[price])

NextMetadata(ref, price) == IF ref # NoPrice THEN ref ELSE price

(***************************************************************************)
(* The snapshot.  tail is the fold input before the last root, from which  *)
(* a revision of that root is folded again; heads are in the order of      *)
(* their roots' first fills, seen in the order of observation.             *)
(***************************************************************************)
NoTail == [root |-> None, raw |-> 0, basis |-> Zero, meta |-> NoPrice]

Flat == [raw |-> 0, basis |-> Zero, meta |-> NoPrice, tail |-> NoTail,
         heads |-> <<>>, integrity |-> {}, seen |-> <<>>]

SeenWith(x, key) == {i \in DOMAIN x.seen : x.seen[i].fact.key = key}
Seen(x, key) == SeenWith(x, key) # {}
FirstObservation(x, key) == x.seen[Min(SeenWith(x, key))]

ObservedRoot(x, root) == \E i \in DOMAIN x.seen : x.seen[i].fact.root = root

HeadAt(x, root) == {i \in DOMAIN x.heads : x.heads[i].root = root}

\* _classification
Classification(pending, raw) ==
  CASE pending /\ raw < 0   -> "APPLIED_PENDING_OVERFILL"
    [] pending /\ raw >= 0  -> "APPLIED_BASIS_PENDING"
    [] ~pending /\ raw < 0  -> "APPLIED_OVERFILL_QUARANTINE"
    [] OTHER                -> "APPLIED_AVAILABLE"

(***************************************************************************)
(* Transitions are records [x, disp, class]: the resulting snapshot, the   *)
(* disposition, and the classification of the first observation.           *)
(***************************************************************************)
Transition(x, disp, class) == [x |-> x, disp |-> disp, class |-> class]

Observed(x, fact, class) ==
  [x EXCEPT !.seen = Append(@, [fact |-> fact, class |-> class])]

Latch(x, evidence) == [x EXCEPT !.integrity = @ \cup evidence]

Reconcile(x, fact) ==
  Transition(Latch(Observed(x, fact, "RECONCILIATION_REQUIRED"), {Unreconciled}),
             "RECONCILIATION_REQUIRED", "RECONCILIATION_REQUIRED")

Economic(x, fact) ==
  LET class == Classification(x.basis = Pending, x.raw)
      over  == IF x.raw < 0 THEN {Overfill} ELSE {}
  IN  Transition(Latch(Observed(x, fact, class), over), "APPLIED", class)

(***************************************************************************)
(* _apply_root_fill: the first fact of a root.  The basis survives only    *)
(* while it is available and the price is on its grid.                     *)
(***************************************************************************)
HeadOf(fact) ==
  [root |-> fact.root, leg |-> fact.leg, side |-> fact.side,
   human |-> fact.kind = "HUMAN", cur |-> fact.key,
   qty |-> fact.qty, price |-> fact.price]

Filled(x, fact) ==
  LET folds == x.basis # Pending /\ MetadataAccepts(x.meta, fact.price)
  IN  [x EXCEPT
        !.raw   = @ + Signed(fact.side, fact.qty),
        !.heads = Append(@, HeadOf(fact)),
        !.basis = IF folds THEN FoldBasis(x.raw, x.basis, fact.side,
                                          fact.qty, fact.price)
                           ELSE Pending,
        !.meta  = IF folds THEN NextMetadata(x.meta, fact.price) ELSE NoPrice,
        !.tail  = IF folds THEN [root |-> fact.root, raw |-> x.raw,
                                 basis |-> x.basis, meta |-> x.meta]
                           ELSE NoTail]

ApplyRootFill(x, fact) ==
  IF HeadAt(x, fact.root) # {} \/ ObservedRoot(x, fact.root)
  THEN Reconcile(x, fact)
  ELSE Economic(Filled(x, fact), fact)

(***************************************************************************)
(* _apply_revision: a correction or bust of the broker head it names as    *)
(* its predecessor.  Only the tail root is folded again exactly.           *)
(***************************************************************************)
PredecessorProven(x, h, fact) ==
  /\ Seen(x, fact.pred)
  /\ LET o == FirstObservation(x, fact.pred)
     IN  /\ o.class # "RECONCILIATION_REQUIRED"
         /\ o.fact.root = h.root
         /\ o.fact.qty = h.qty
         /\ o.fact.price = h.price

Revisable(x, fact) ==
  \E i \in HeadAt(x, fact.root) :
    /\ ~x.heads[i].human
    /\ x.heads[i].leg = fact.leg
    /\ x.heads[i].side = fact.side
    /\ x.heads[i].cur = fact.pred
    /\ PredecessorProven(x, x.heads[i], fact)

TailProven(x, h) ==
  /\ x.tail.root = h.root
  /\ x.tail.raw = x.raw - Signed(h.side, h.qty)

Refolds_AnyRoot(x, i, price) ==
  x.basis # Pending /\ MetadataAccepts(x.tail.meta, price)

Refolds(x, i, price) ==
  /\ i = Len(x.heads)
  /\ x.basis # Pending
  /\ TailProven(x, x.heads[i])
  /\ MetadataAccepts(x.tail.meta, price)

RevisedHead(h, fact) ==
  [h EXCEPT !.cur = fact.key, !.qty = fact.qty, !.price = fact.price]

Revised(x, fact) ==
  LET i     == Max(HeadAt(x, fact.root))
      h     == x.heads[i]
      folds == Refolds(x, i, fact.price)
  IN  [x EXCEPT
        !.raw   = @ + Signed(h.side, fact.qty - h.qty),
        !.heads = [@ EXCEPT ![i] = RevisedHead(h, fact)],
        !.basis = IF folds THEN FoldBasis(x.tail.raw, x.tail.basis, h.side,
                                          fact.qty, fact.price)
                           ELSE Pending,
        !.meta  = IF folds THEN NextMetadata(x.tail.meta, fact.price) ELSE NoPrice,
        !.tail  = IF folds THEN @ ELSE NoTail]

ApplyRevision(x, fact) ==
  IF Revisable(x, fact) THEN Economic(Revised(x, fact), fact) ELSE Reconcile(x, fact)

(***************************************************************************)
(* _apply_canonical_execution_fact: a key is applied once.  The same fact  *)
(* again is a replay, another fact under its key latches a conflict.       *)
(***************************************************************************)
ApplyFact(x, fact) ==
  IF Seen(x, fact.key)
  THEN LET first == FirstObservation(x, fact.key)
       IN  IF first.fact = fact
           THEN Transition(x, "EXACT_REPLAY", first.class)
           ELSE Transition(Latch(x, {Conflict}), "FACT_CONFLICT", first.class)
  ELSE IF fact.kind \in RootKinds THEN ApplyRootFill(x, fact)
                                  ELSE ApplyRevision(x, fact)

\* _record_execution_reconciliation: a fill the venue book could not place.
RecordReconciliation(x, fact) ==
  IF ~Seen(x, fact.key)
  THEN Reconcile(x, fact)
  ELSE LET first == FirstObservation(x, fact.key)
       IN  IF first.fact = fact
           THEN Transition(Latch(x, {Unreconciled}),
                           "RECONCILIATION_REQUIRED", first.class)
           ELSE Transition(Latch(x, {Unreconciled, Conflict}),
                           "FACT_CONFLICT", first.class)

\* _record_broker_corroboration: broker evidence of shares a human attested.
RecordCorroboration(x, fact) ==
  IF Seen(x, fact.key)
  THEN LET first == FirstObservation(x, fact.key)
       IN  IF first.fact = fact
           THEN Transition(x, "EXACT_REPLAY", first.class)
           ELSE Transition(Latch(x, {Conflict}), "FACT_CONFLICT", first.class)
  ELSE IF ObservedRoot(x, fact.root)
       THEN RecordReconciliation(x, fact)
       ELSE Transition(Observed(x, fact, "CORROBORATED_ZERO_ECONOMIC"),
                       "APPLIED", "CORROBORATED_ZERO_ECONOMIC")

(***************************************************************************)
(* derive_ordered_basis_candidate: the basis computed again from the heads *)
(* in root order.  Pending when their prices lie on different grids.       *)
(***************************************************************************)
NothingFolded == [raw |-> 0, basis |-> Zero, meta |-> NoPrice, ok |-> TRUE]

FoldHead(a, h) ==
  [raw   |-> a.raw + Signed(h.side, h.qty),
   basis |-> FoldBasis(a.raw, a.basis, h.side, h.qty, h.price),
   meta  |-> IF MetadataAccepts(a.meta, h.price)
             THEN NextMetadata(a.meta, h.price) ELSE a.meta,
   ok    |-> a.ok /\ MetadataAccepts(a.meta, h.price)]

OrderedBasis(heads) == FoldLeft(FoldHead, NothingFolded, heads)

(***************************************************************************)
(* _replay_venue_hydration_snapshot: the registry replayed from a flat     *)
(* position.  ok is false when an observation does not get the             *)
(* classification it carries, and the restart is refused.                  *)
(***************************************************************************)
ReplayOne(r, o) ==
  LET t == IF o.class = "CORROBORATED_ZERO_ECONOMIC"
           THEN RecordCorroboration(r.x, o.fact)
           ELSE ApplyFact(r.x, o.fact)
  IN  [x  |-> t.x,
       ok |-> /\ r.ok
              /\ t.class = o.class
              /\ t.disp = IF o.class = "RECONCILIATION_REQUIRED"
                          THEN "RECONCILIATION_REQUIRED" ELSE "APPLIED"]

NothingReplayed == [x |-> Flat, ok |-> TRUE]

Replay(seen) == FoldLeft(ReplayOne, NothingReplayed, seen)

\* _require_hydration_match and the integrity floor: what a restart accepts.
HydrationMatches(x, r) ==
  /\ x.raw = r.raw
  /\ x.basis = r.basis
  /\ x.meta = r.meta
  /\ x.heads = r.heads
  /\ x.tail # NoTail => x.tail = r.tail
  /\ r.integrity \subseteq x.integrity
=============================================================================
