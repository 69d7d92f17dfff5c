-------------------------- MODULE KernelPersistenceProofs --------------------------
(***************************************************************************)
(* For any number of processes, effects, inputs, startups and market       *)
(* occurrences: an effect is published at most once and only when its      *)
(* claim is durable, a serving process with a current context owns every   *)
(* open claim, and startup serves only over reconciled claims and a fresh  *)
(* baseline.                                                               *)
(*                                                                         *)
(* The argument is the version of the checkpoint.  Every change of the     *)
(* checkpoint raises it, so a context that equals the checkpoint after     *)
(* somebody else's step equalled it before that step, and the step left    *)
(* the checkpoint alone.                                                   *)
(***************************************************************************)
EXTENDS KernelPersistence, TLAPS

Unclaimed == {"NONE", "REQUESTED", "CANCELED_BEFORE_DISPATCH"}

\* An outbox row stands for an effect the checkpoint shows as claimed.
ClaimsRemembered == \A e \in outbox : ckpt.eff[e] \notin Unclaimed

\* Eligibilities are for outbox rows, unpublished, and in one process only.
EligibleOnce ==
  /\ \A p \in Procs : \A e \in eligible[p] : e \in outbox /\ published[e] = 0
  /\ \A p, q \in Procs : p # q => eligible[p] \cap eligible[q] = {}

\* No context is ahead of the checkpoint.
ContextsBehind == \A p \in Procs : ctx[p].ver <= ckpt.ver

ReportTyped ==
  \A p \in Procs : pc[p] = "answer" => report[p] \in EffectOps

\* What startup has established when only the last lease check is left.
Ready(p) ==
  pc[p] = "close" /\ ctx[p] = ckpt =>
    /\ CompleteReconciliation(ckpt)
    /\ ckpt.active => ~ckpt.required /\ ckpt.coord = fence[p]

ReadyToServe == \A p \in Procs : Ready(p)

Owns(p) ==
  pc[p] = "serving" /\ ctx[p] = ckpt =>
    {e \in outbox : ckpt.eff[e] \notin Final} \subseteq own[p]

IInv ==
  /\ TypeOK
  /\ ReportTyped
  /\ ContextsBehind
  /\ ClaimsRemembered
  /\ EligibleOnce
  /\ PublishedOnce
  /\ ReadyToServe
  /\ OwnClaimsOnly

----------------------------------------------------------------------------
(* What the reducers may do to a checkpoint.                               *)

OpTyped(d, i) ==
  IF d = "MARKET"
  THEN i.op \in [epoch : Nat, ordinal : Nat, sort : Sorts]
  ELSE i.op \in EffectOps

\* One step of a checkpoint: the version rises with every change, no final
\* outcome is taken back and no claim is undone.
Moves(c, s) ==
  /\ s \in Checkpoints
  /\ s = c \/ s.ver = c.ver + 1
  /\ s.active = c.active
  /\ \A e \in Effects :
       /\ c.eff[e] \in Final => s.eff[e] \in Final
       /\ c.eff[e] \notin Unclaimed => s.eff[e] \notin Unclaimed

\* Reducers leave the version to the store.
Reduces(c, s) ==
  /\ s \in Checkpoints
  /\ s.ver = c.ver /\ s.active = c.active
  /\ \A e \in Effects :
       /\ c.eff[e] \in Final => s.eff[e] \in Final
       /\ c.eff[e] \notin Unclaimed => s.eff[e] \notin Unclaimed

\* Effect operations follow the lifecycle of an effect (venue.py:15502).
LEMMA EffectReduces ==
  ASSUME NEW c \in Checkpoints, NEW op \in EffectOps
  PROVE  Reduces(c, AfterEffect(c, op))
<1>1. CASE <<c.eff[op.effect], op.to>> \in Lifecycle
  <2> DEFINE f == [c.eff EXCEPT ![op.effect] = op.to]
             s == [c EXCEPT !.eff = f]
  <2>1. AfterEffect(c, op) = s
    BY <1>1 DEF AfterEffect
  <2>2. f \in [Effects -> EffectStates]
    BY DEF Checkpoints, EffectOps
  <2>3. /\ c.eff[op.effect] \notin Final
        /\ c.eff[op.effect] \notin Unclaimed => op.to \notin Unclaimed
    BY <1>1 DEF Lifecycle, Final, Unclaimed
  <2>4. ASSUME NEW e \in Effects
        PROVE  /\ c.eff[e] \in Final => f[e] \in Final
               /\ c.eff[e] \notin Unclaimed => f[e] \notin Unclaimed
    <3>1. CASE e = op.effect
      BY <3>1, <2>3 DEF Checkpoints
    <3>2. CASE e # op.effect
      BY <3>2 DEF Checkpoints
    <3> QED BY <3>1, <3>2
  <2> HIDE DEF f
  <2>5. s \in Checkpoints /\ s.ver = c.ver /\ s.active = c.active /\ s.eff = f
    BY <2>2 DEF Checkpoints
  <2> QED BY <2>1, <2>4, <2>5 DEF Reduces
<1>2. CASE <<c.eff[op.effect], op.to>> \notin Lifecycle
  BY <1>2 DEF AfterEffect, Reduces
<1> QED BY <1>1, <1>2

\* Market occurrences touch no effect (protection.py:4429).
LEMMA MarketReduces ==
  ASSUME NEW c \in Checkpoints, NEW o \in [epoch : Nat, ordinal : Nat, sort : Sorts]
  PROVE  Reduces(c, AfterMarket(c, o))
<1> DEFINE s == AfterMarket(c, o)
<1>1. o.sort \in {"bid", "inert", "halt"}
  BY DEF Sorts
<1>2. s \in Checkpoints /\ s.ver = c.ver /\ s.active = c.active /\ s.eff = c.eff
  <2>1. CASE Contradicts(c, o)
    BY <2>1 DEF AfterMarket, Checkpoints
  <2>2. CASE ~Contradicts(c, o) /\ ~Advances(c, o)
    BY <2>2 DEF AfterMarket
  <2>3. CASE ~Contradicts(c, o) /\ Advances(c, o) /\ o.sort = "halt"
    BY <2>3 DEF AfterMarket, Checkpoints
  <2>4. CASE ~Contradicts(c, o) /\ Advances(c, o) /\ o.sort = "inert"
    BY <2>4 DEF AfterMarket, Checkpoints
  <2>5. CASE ~Contradicts(c, o) /\ Advances(c, o) /\ o.sort = "bid"
    BY <2>5 DEF AfterMarket, Checkpoints
  <2> QED BY <1>1, <2>1, <2>2, <2>3, <2>4, <2>5
<1> QED BY <1>2 DEF Reduces

\* Storing what a reducer returned is a move (unit_of_work.py:1698).
LEMMA StoredMoves ==
  ASSUME NEW c \in Checkpoints, NEW s, Reduces(c, s)
  PROVE  Moves(c, Stored(c, s)) /\ Stored(c, s).eff = s.eff
<1>1. CASE s = c
  BY <1>1 DEF Stored, Moves
<1>2. CASE s # c
  <2>1. s \in Checkpoints /\ c.ver + 1 \in Nat
    BY DEF Reduces, Checkpoints
  <2>2. Stored(c, s) = [s EXCEPT !.ver = c.ver + 1]
    BY <1>2 DEF Stored
  <2>3. /\ Stored(c, s) \in Checkpoints /\ Stored(c, s).ver = c.ver + 1
        /\ Stored(c, s).active = s.active /\ Stored(c, s).eff = s.eff
    BY <2>1, <2>2 DEF Checkpoints
  <2> QED BY <2>3 DEF Moves, Reduces
<1> QED BY <1>1, <1>2

\* Every unit of work moves the checkpoint (unit_of_work.py:1698).
LEMMA SuccessorMoves ==
  ASSUME NEW c \in Checkpoints, NEW d \in Domains, NEW i, OpTyped(d, i)
  PROVE  Moves(c, Successor(c, d, i))
<1>1. CASE d = "MARKET"
  BY <1>1, MarketReduces, StoredMoves DEF Successor, OpTyped
<1>2. CASE d # "MARKET"
  BY <1>2, EffectReduces, StoredMoves DEF Successor, OpTyped
<1> QED BY <1>1, <1>2

\* The cold cutover moves it too and leaves the effects alone.
LEMMA InvalidationMoves ==
  ASSUME NEW c \in Checkpoints
  PROVE  Moves(c, Invalidated(c)) /\ Invalidated(c).eff = c.eff
<1> DEFINE s == [c EXCEPT !.required = TRUE, !.cursor = TRUE]
<1>1. s \in Checkpoints /\ s.ver = c.ver /\ s.active = c.active /\ s.eff = c.eff
  BY DEF Checkpoints
<1>2. Reduces(c, s) /\ s.eff = c.eff
  BY <1>1 DEF Reduces
<1>3. CASE c.active
  BY <1>3, <1>2, StoredMoves DEF Invalidated
<1>4. CASE ~c.active
  BY <1>4 DEF Invalidated, Moves
<1> QED BY <1>3, <1>4

\* A fresh claim is of one effect that was requested and becomes claimed; an
\* input that changes nothing claims nothing (unit_of_work.py:3192).
LEMMA FreshClaimFacts ==
  ASSUME NEW c \in Checkpoints, NEW d \in Domains, NEW i, OpTyped(d, i)
  PROVE  /\ FreshClaim(c, d, i) \subseteq Effects
         /\ Successor(c, d, i) = c => FreshClaim(c, d, i) = {}
         /\ \A e \in FreshClaim(c, d, i) :
              /\ c.eff[e] = "REQUESTED"
              /\ Successor(c, d, i).eff[e] = "DISPATCH_CLAIMED"
<1>1. CASE FreshClaim(c, d, i) = {}
  BY <1>1
<1>2. CASE FreshClaim(c, d, i) # {}
  <2>1. /\ d = "AUTHORITY" /\ i.op.to = "DISPATCH_CLAIMED"
        /\ Successor(c, d, i) # c /\ FreshClaim(c, d, i) = {i.op.effect}
    BY <1>2 DEF FreshClaim, Claims
  <2>2. i.op \in EffectOps
    BY <2>1 DEF OpTyped
  <2>3. Successor(c, d, i) = Stored(c, AfterEffect(c, i.op))
    BY <2>1 DEF Successor
  <2>4. <<c.eff[i.op.effect], i.op.to>> \in Lifecycle
    BY <2>1, <2>3 DEF AfterEffect, Stored
  <2>5. c.eff[i.op.effect] = "REQUESTED"
    BY <2>1, <2>4 DEF Lifecycle, Final
  <2>6. AfterEffect(c, i.op) = [c EXCEPT !.eff = [c.eff EXCEPT ![i.op.effect] = i.op.to]]
    BY <2>4 DEF AfterEffect
  <2>7. AfterEffect(c, i.op).eff[i.op.effect] = "DISPATCH_CLAIMED"
    BY <2>1, <2>2, <2>6 DEF Checkpoints, EffectOps
  <2>8. Successor(c, d, i).eff[i.op.effect] = "DISPATCH_CLAIMED"
    BY <2>2, <2>3, <2>7, EffectReduces, StoredMoves
  <2> QED BY <2>1, <2>2, <2>5, <2>8 DEF EffectOps
<1> QED BY <1>1, <1>2

LEMMA InputsTyped ==
  ASSUME NEW d \in Domains, NEW i \in InputsOf(d)
  PROVE  OpTyped(d, i)
<1>1. CASE d = "AUTHORITY"
  BY <1>1 DEF InputsOf, OpTyped, EffectOps, AuthorityTargets, EffectStates, Claims
<1>2. CASE d = "VENUE"
  BY <1>2 DEF InputsOf, OpTyped, EffectOps, VenueTargets, Final, EffectStates
<1>3. CASE d = "MARKET"
  BY <1>3, OrdinalAssumption DEF InputsOf, OpTyped, Occurrences, Ordinals, Sorts
<1> QED BY <1>1, <1>2, <1>3 DEF Domains

----------------------------------------------------------------------------
(* Steps.                                                                  *)

\* A step of the datastore that claims the effects F.
DbStep(F) ==
  /\ Moves(ckpt, ckpt')
  /\ outbox' = outbox \cup F
  /\ F \subseteq Effects /\ F \cap outbox = {}
  /\ ckpt' = ckpt => F = {}
  /\ \A e \in F : ckpt'.eff[e] = "DISPATCH_CLAIMED"

\* What a process keeps across steps of others.
Kept(q) ==
  /\ pc'[q] = pc[q] /\ ctx'[q] = ctx[q] /\ fence'[q] = fence[q]
  /\ own'[q] = own[q] /\ report'[q] = report[q] /\ eligible'[q] = eligible[q]

\* A transaction that changes nothing is a step that claims nothing.
LEMMA NoDbStep ==
  ASSUME IInv, UNCHANGED db
  PROVE  DbStep({})
BY DEF DbStep, db, Moves, IInv, TypeOK

\* COMMIT of a unit of work is a step of the datastore that claims exactly
\* the fresh claim (unit_of_work.py:2977).
LEMMA DurableStep ==
  ASSUME IInv, NEW p \in Procs, NEW d \in Domains, NEW i, OpTyped(d, i),
         Durable(p, d, i)
  PROVE  /\ DbStep(FreshClaim(ctx[p], d, i))
         /\ ctx[p] = ckpt
<1>1. ctx[p] = ckpt
  BY DEF Durable, Disposition, Prepared
<1>2. ckpt \in Checkpoints
  BY DEF IInv, TypeOK
<1>3. Moves(ckpt, ckpt')
  BY <1>1, <1>2, SuccessorMoves DEF Durable
<1>4. /\ FreshClaim(ctx[p], d, i) \subseteq Effects
      /\ ckpt' = ckpt => FreshClaim(ctx[p], d, i) = {}
      /\ \A e \in FreshClaim(ctx[p], d, i) :
           ckpt.eff[e] = "REQUESTED" /\ ckpt'.eff[e] = "DISPATCH_CLAIMED"
  BY <1>1, <1>2, FreshClaimFacts DEF Durable
<1>5. FreshClaim(ctx[p], d, i) \cap outbox = {}
  BY <1>4 DEF IInv, ClaimsRemembered, Unclaimed
<1> QED BY <1>1, <1>3, <1>4, <1>5 DEF DbStep, Durable

\* The cutover claims nothing (unit_of_work.py:6121).
LEMMA CutoverStep ==
  ASSUME IInv, ckpt' = Invalidated(ckpt), UNCHANGED <<inputs, outbox>>
  PROVE  DbStep({}) /\ ckpt'.eff = ckpt.eff /\ ckpt'.active = ckpt.active
<1>1. ckpt \in Checkpoints
  BY DEF IInv, TypeOK
<1> QED BY <1>1, InvalidationMoves DEF DbStep, Moves

\* A process that a step leaves alone is as ready and owns as much as before:
\* if its context is still current the step did not change the checkpoint.
LEMMA OthersKeep ==
  ASSUME IInv, NEW F, DbStep(F), NEW q \in Procs, Kept(q)
  PROVE  Ready(q)' /\ Owns(q)'
<1>1. /\ ckpt \in Checkpoints /\ ctx[q] \in Checkpoints
      /\ ctx[q].ver <= ckpt.ver
  BY DEF IInv, TypeOK, ContextsBehind
<1>2. ckpt' \in Checkpoints /\ (ckpt' = ckpt \/ ckpt'.ver = ckpt.ver + 1)
  BY DEF DbStep, Moves
<1>3. ctx[q] = ckpt' => ckpt' = ckpt
  <2>1. ckpt.ver \in Nat /\ ctx[q].ver \in Nat
    BY <1>1 DEF Checkpoints
  <2> QED BY <1>1, <1>2, <2>1
<1>4. ckpt' = ckpt => outbox' = outbox
  BY DEF DbStep
<1>5. Ready(q) /\ Owns(q)
  BY DEF IInv, ReadyToServe, OwnClaimsOnly, Owns
<1>6. Ready(q)'
  BY <1>3, <1>5 DEF Ready, Kept
<1>7. Owns(q)'
  BY <1>3, <1>4, <1>5 DEF Owns, Kept
<1> QED BY <1>6, <1>7

\* The frame of every step of one process.
LEMMA ProcStep ==
  ASSUME IInv, TypeOK', NEW p \in Procs, NEW F, DbStep(F),
         \A q \in Procs \ {p} : Kept(q),
         pc'[p] = "answer" => report'[p] \in EffectOps,
         ctx'[p] \in {ctx[p], ckpt, ckpt', NoContext},
         Ready(p)', Owns(p)',
         eligible'[p] \subseteq eligible[p] \cup F,
         published' = published
  PROVE  IInv'
<1>1. ReportTyped'
  BY DEF IInv, ReportTyped, Kept
<1>2. ContextsBehind'
  <2>1. ckpt \in Checkpoints /\ ckpt' \in Checkpoints
        /\ \A q \in Procs : ctx[q] \in Checkpoints /\ ctx[q].ver <= ckpt.ver
    BY DEF IInv, TypeOK, ContextsBehind
  <2>2. /\ ckpt.ver \in Nat /\ ckpt'.ver \in Nat
        /\ \A q \in Procs : ctx[q].ver \in Nat
    BY <2>1 DEF Checkpoints
  <2>3. ckpt.ver <= ckpt'.ver
    BY <2>2 DEF DbStep, Moves
  <2>4. NoContext.ver = 0
    BY DEF NoContext
  <2>5. ASSUME NEW q \in Procs PROVE ctx'[q].ver <= ckpt'.ver
    <3>1. CASE q = p
      BY <3>1, <2>1, <2>2, <2>3, <2>4
    <3>2. CASE q # p
      BY <3>2, <2>1, <2>2, <2>3 DEF Kept
    <3> QED BY <3>1, <3>2
  <2> QED BY <2>5 DEF ContextsBehind
<1>3. ClaimsRemembered'
  <2>1. ASSUME NEW e \in outbox' PROVE ckpt'.eff[e] \notin Unclaimed
    <3>1. CASE e \in F
      BY <3>1 DEF DbStep, Unclaimed
    <3>2. CASE e \in outbox
      <4>1. e \in Effects /\ ckpt.eff[e] \notin Unclaimed
        BY <3>2 DEF IInv, TypeOK, ClaimsRemembered
      <4> QED BY <4>1 DEF DbStep, Moves
    <3> QED BY <3>1, <3>2 DEF DbStep
  <2> QED BY <2>1 DEF ClaimsRemembered
<1>4. \A e \in F : published[e] = 0 /\ \A q \in Procs : e \notin eligible[q]
  <2>1. ASSUME NEW e \in F PROVE published[e] = 0
    <3>1. e \in Effects /\ e \notin outbox
      BY DEF DbStep
    <3>2. published[e] \in Nat /\ published[e] <= 1 /\ published[e] # 1
      BY <3>1 DEF IInv, TypeOK, PublishedOnce
    <3> QED BY <3>2
  <2> QED BY <2>1 DEF DbStep, IInv, EligibleOnce
<1>5. EligibleOnce'
  <2>1. outbox \subseteq outbox' /\ F \subseteq outbox'
    BY DEF DbStep
  <2>2. ASSUME NEW q \in Procs, NEW e \in eligible'[q]
        PROVE  e \in outbox' /\ published'[e] = 0
    <3>1. CASE q = p
      BY <3>1, <2>1, <1>4 DEF IInv, EligibleOnce
    <3>2. CASE q # p
      BY <3>2, <2>1 DEF IInv, EligibleOnce, Kept
    <3> QED BY <3>1, <3>2
  <2>3. ASSUME NEW q \in Procs, NEW r \in Procs, q # r
        PROVE  eligible'[q] \cap eligible'[r] = {}
    <3>1. eligible[q] \cap eligible[r] = {}
      BY <2>3 DEF IInv, EligibleOnce
    <3>2. CASE q = p
      BY <3>1, <3>2, <2>3, <1>4 DEF Kept
    <3>3. CASE r = p
      BY <3>1, <3>3, <2>3, <1>4 DEF Kept
    <3>4. CASE q # p /\ r # p
      BY <3>1, <3>4 DEF Kept
    <3> QED BY <3>2, <3>3, <3>4
  <2> QED BY <2>2, <2>3 DEF EligibleOnce
<1>6. PublishedOnce'
  BY DEF IInv, PublishedOnce, DbStep
<1>7. \A q \in Procs : Ready(q)' /\ Owns(q)'
  BY OthersKeep
<1>8. ReadyToServe' /\ OwnClaimsOnly'
  BY <1>7 DEF ReadyToServe, OwnClaimsOnly, Owns
<1> QED BY <1>1, <1>2, <1>3, <1>5, <1>6, <1>8 DEF IInv

\* A process that goes down, whatever became durable, disturbs nobody.
LEMMA DownStep ==
  ASSUME IInv, NEW p \in Procs, NEW F, DbStep(F), Down(p),
         lease' \in Procs \cup {NoProc}, UNCHANGED <<published, venue, starts>>
  PROVE  IInv'
<1>1. TypeOK'
  <2>1. ckpt' \in Checkpoints /\ outbox' \subseteq Effects
    BY DEF DbStep, Moves, IInv, TypeOK
  <2>2. NoContext \in Checkpoints
    BY DEF NoContext, Checkpoints, EffectStates
  <2>3. ctx' \in [Procs -> Checkpoints]
    BY <2>2 DEF Down, IInv, TypeOK
  <2> QED BY <2>1, <2>3 DEF Down, IInv, TypeOK
<1>2. \A q \in Procs \ {p} : Kept(q)
  BY DEF Kept, Down, IInv, TypeOK
<1>3. pc'[p] = "down" /\ ctx'[p] = NoContext /\ eligible'[p] = {}
  BY DEF Down, IInv, TypeOK
<1>4. Ready(p)' /\ Owns(p)'
  BY <1>3 DEF Ready, Owns
<1> QED BY <1>1, <1>2, <1>3, <1>4, ProcStep

\* A call of startup that succeeds.
LEMMA GoesStep ==
  ASSUME IInv, NEW p \in Procs, NEW F, DbStep(F),
         NEW to \in Steps \cup {"serving"}, Goes(p, to),
         NEW c \in {ctx[p], ckpt, ckpt'}, ctx' = [ctx EXCEPT ![p] = c],
         todo' \in [Procs -> SUBSET Effects],
         NEW r \in EffectOps \cup {NoReport}, report' = [report EXCEPT ![p] = r],
         NEW f \in Nat, fence' = [fence EXCEPT ![p] = f],
         to = "answer" => r \in EffectOps,
         Ready(p)', Owns(p)'
  PROVE  IInv'
<1>1. TypeOK'
  <2>1. ckpt' \in Checkpoints /\ outbox' \subseteq Effects
    BY DEF DbStep, Moves, IInv, TypeOK
  <2>2. c \in Checkpoints
    BY <2>1 DEF IInv, TypeOK
  <2>3. ctx' \in [Procs -> Checkpoints]
    BY <2>2 DEF IInv, TypeOK
  <2>4. /\ pc' \in [Procs -> Steps \cup {"down", "serving"}]
        /\ checked' \in [Procs -> BOOLEAN]
    BY DEF Goes, IInv, TypeOK
  <2>5. /\ report' \in [Procs -> EffectOps \cup {NoReport}]
        /\ fence' \in [Procs -> Nat]
    BY DEF IInv, TypeOK
  <2> QED BY <2>1, <2>3, <2>4, <2>5 DEF Goes, world, IInv, TypeOK
<1>2. \A q \in Procs \ {p} : Kept(q)
  BY DEF Kept, Goes, IInv, TypeOK
<1>3. /\ pc'[p] = to /\ ctx'[p] = c /\ report'[p] = r
      /\ eligible' = eligible /\ published' = published
  BY DEF Goes, world, IInv, TypeOK
<1> QED BY <1>1, <1>2, <1>3, ProcStep

\* A call that neither ends startup nor completes it.
LEMMA MidwayStep ==
  ASSUME IInv, NEW p \in Procs, NEW F, DbStep(F),
         NEW to \in Steps \ {"close"}, Goes(p, to),
         NEW c \in {ctx[p], ckpt, ckpt'}, ctx' = [ctx EXCEPT ![p] = c],
         todo' \in [Procs -> SUBSET Effects],
         NEW r \in EffectOps \cup {NoReport}, report' = [report EXCEPT ![p] = r],
         NEW f \in Nat, fence' = [fence EXCEPT ![p] = f],
         to = "answer" => r \in EffectOps
  PROVE  IInv'
<1>1. pc'[p] = to
  BY DEF Goes, IInv, TypeOK
<1>2. Ready(p)' /\ Owns(p)'
  BY <1>1 DEF Ready, Owns, Steps
<1> QED BY <1>2, GoesStep

\* What a function keeps when it is not changed.
LEMMA SameAt ==
  ASSUME NEW S, NEW g \in [Procs -> S], NEW p \in Procs
  PROVE  g = [g EXCEPT ![p] = g[p]]
OBVIOUS

----------------------------------------------------------------------------
(* The invariant, action by action.                                        *)

LEMMA InitIInv == Init => IInv
<1> SUFFICES ASSUME Init PROVE IInv
  OBVIOUS
<1>1. PICK a \in BOOLEAN, f \in [Effects -> {"NONE", "REQUESTED"}] :
        ckpt = [NoContext EXCEPT !.ver = 1, !.eff = f, !.active = a, !.required = a]
  BY DEF Init
<1>2. f \in [Effects -> EffectStates]
  BY DEF EffectStates
<1>3. ckpt = [ver |-> 1, eff |-> f, active |-> a, cursor |-> FALSE,
              required |-> a, epoch |-> 0, coord |-> 0]
  BY <1>1 DEF NoContext
<1>4. ckpt \in Checkpoints /\ ckpt.ver = 1
  BY <1>2, <1>3 DEF Checkpoints
<1>5. NoContext \in Checkpoints /\ NoContext.ver = 0
  BY DEF NoContext, Checkpoints, EffectStates
<1>6. TypeOK
  BY <1>4, <1>5 DEF Init, TypeOK, EffectStates
<1>7. ContextsBehind
  BY <1>4, <1>5 DEF Init, ContextsBehind
<1>8. ReportTyped /\ ClaimsRemembered /\ EligibleOnce /\ PublishedOnce
  BY DEF Init, ReportTyped, ClaimsRemembered, EligibleOnce, PublishedOnce
<1>9. ReadyToServe /\ OwnClaimsOnly
  BY DEF Init, ReadyToServe, Ready, OwnClaimsOnly
<1> QED BY <1>6, <1>7, <1>8, <1>9 DEF IInv

\* The lease may go without any process noticing (owner_lock.py:53).
LEMMA LeaseStep ==
  ASSUME IInv, UNCHANGED <<db, procVars, published, venue>>,
         lease' \in Procs \cup {NoProc}, starts' \in Nat
  PROVE  IInv'
<1>1. TypeOK'
  BY DEF IInv, TypeOK, db, procVars
<1>2. ReportTyped' /\ ContextsBehind' /\ ClaimsRemembered'
  BY DEF IInv, db, procVars, ReportTyped, ContextsBehind, ClaimsRemembered
<1>3. EligibleOnce' /\ PublishedOnce'
  BY DEF IInv, db, procVars, EligibleOnce, PublishedOnce
<1>4. ReadyToServe' /\ OwnClaimsOnly'
  BY DEF IInv, db, procVars, ReadyToServe, Ready, OwnClaimsOnly,
         CompleteReconciliation, Blocking
<1> QED BY <1>1, <1>2, <1>3, <1>4 DEF IInv

LEMMA AcquireKeeps ==
  ASSUME IInv, NEW p \in Procs, Acquire(p)
  PROVE  IInv'
<1>1. TypeOK'
  <2>1. pc' \in [Procs -> Steps \cup {"down", "serving"}]
    BY DEF IInv, TypeOK, Acquire, Steps
  <2> QED BY <2>1 DEF IInv, TypeOK, Acquire, db
<1>2. DbStep({})
  BY NoDbStep DEF Acquire
<1>3. \A q \in Procs \ {p} : Kept(q)
  BY DEF Kept, Acquire, IInv, TypeOK
<1>4. pc'[p] = "cutover"
  BY DEF Acquire, IInv, TypeOK
<1>5. Ready(p)' /\ Owns(p)'
  BY <1>4 DEF Ready, Owns
<1>6. ctx' = ctx /\ eligible' = eligible /\ published' = published
  BY DEF Acquire
<1> QED BY <1>1, <1>2, <1>3, <1>4, <1>5, <1>6, ProcStep

\* Releasing or keeping the lock leaves a lock state.
LEMMA StopStep ==
  ASSUME IInv, NEW p \in Procs, NEW F, DbStep(F), Stop(p)
  PROVE  IInv'
<1>1. lease' \in Procs \cup {NoProc}
  BY DEF Stop, IInv, TypeOK
<1> QED BY <1>1, DownStep DEF Stop

LEMMA CheckLeaseKeeps ==
  ASSUME IInv, NEW p \in Procs, CheckLease(p)
  PROVE  IInv'
<1>1. DbStep({})
  BY NoDbStep DEF CheckLease
<1>2. CASE lease = p /\ checked' = [checked EXCEPT ![p] = TRUE]
           /\ UNCHANGED <<pc, ctx, todo, report, fence, eligible, own, world>>
  <2>1. TypeOK'
    BY <1>2 DEF CheckLease, IInv, TypeOK, db, world
  <2>2. \A q \in Procs : Kept(q)
    BY <1>2 DEF Kept
  <2>3. Ready(p)' /\ Owns(p)'
    BY <1>1, <2>2, OthersKeep
  <2>4. /\ pc' = pc /\ report' = report /\ ctx' = ctx
        /\ eligible' = eligible /\ published' = published
    BY <1>2 DEF world
  <2>5. pc'[p] = "answer" => report'[p] \in EffectOps
    BY <2>4 DEF IInv, ReportTyped
  <2> QED BY <1>1, <2>1, <2>2, <2>3, <2>4, <2>5, ProcStep
<1>3. CASE Stop(p)
  BY <1>1, <1>3, StopStep
<1> QED BY <1>2, <1>3 DEF CheckLease

----------------------------------------------------------------------------
(* The calls of startup.                                                   *)

LEMMA ColdCutoverKeeps ==
  ASSUME IInv, NEW p \in Procs, ColdCutover(p)
  PROVE  IInv'
<1>1. DbStep({})
  BY CutoverStep DEF ColdCutover, Cutover
<1>2. /\ Goes(p, "query") /\ ctx' = [ctx EXCEPT ![p] = ckpt']
      /\ report' = report /\ fence' = fence
  BY DEF ColdCutover, Cutover
<1>3. todo' \in [Procs -> SUBSET Effects]
  BY DEF ColdCutover, IInv, TypeOK, Blocking
<1>4. /\ report' = [report EXCEPT ![p] = report[p]]
      /\ fence' = [fence EXCEPT ![p] = fence[p]]
      /\ report[p] \in EffectOps \cup {NoReport} /\ fence[p] \in Nat
  BY <1>2, SameAt DEF IInv, TypeOK
<1>5. "query" \in Steps \ {"close"} /\ "query" # "answer"
  BY DEF Steps
<1>6. ckpt' \in {ctx[p], ckpt, ckpt'}
  OBVIOUS
<1> QED BY <1>1, <1>2, <1>3, <1>4, <1>5, <1>6, MidwayStep

LEMMA QueryEffectKeeps ==
  ASSUME IInv, NEW p \in Procs, QueryEffect(p)
  PROVE  IInv'
<1>1. DbStep({})
  BY NoDbStep DEF QueryEffect
<1>2. PICK e \in todo[p], s \in VenueTargets :
        report' = [report EXCEPT ![p] = [effect |-> e, to |-> s]]
  BY DEF QueryEffect
<1>3. [effect |-> e, to |-> s] \in EffectOps
  <2>1. e \in Effects
    BY DEF IInv, TypeOK
  <2>2. s \in EffectStates
    BY DEF VenueTargets, Final, EffectStates
  <2> QED BY <2>1, <2>2 DEF EffectOps
<1>4. /\ ctx' = [ctx EXCEPT ![p] = ctx[p]]
      /\ fence' = [fence EXCEPT ![p] = fence[p]] /\ fence[p] \in Nat
      /\ todo' \in [Procs -> SUBSET Effects]
  BY SameAt DEF QueryEffect, IInv, TypeOK
<1>5. "answer" \in Steps \ {"close"} /\ Goes(p, "answer")
  BY DEF Steps, QueryEffect
<1> QED BY <1>1, <1>2, <1>3, <1>4, <1>5, MidwayStep

\* The report a query returned is an input of the venue domain.
LEMMA ReportInputTyped ==
  ASSUME IInv, NEW p \in Procs, pc[p] = "answer"
  PROVE  OpTyped("VENUE", ReportInput(p)) /\ "VENUE" \in Domains
BY DEF IInv, ReportTyped, OpTyped, ReportInput, Domains

LEMMA ReconcileEffectKeeps ==
  ASSUME IInv, NEW p \in Procs, ReconcileEffect(p)
  PROVE  IInv'
<1>1. "query" \in Steps \ {"close"} /\ Goes(p, "query")
  BY DEF Steps, ReconcileEffect
<1>2. /\ report' = [report EXCEPT ![p] = NoReport]
      /\ fence' = [fence EXCEPT ![p] = fence[p]] /\ fence[p] \in Nat
      /\ todo' \in [Procs -> SUBSET Effects]
  BY SameAt DEF ReconcileEffect, IInv, TypeOK
<1>3. CASE Durable(p, "VENUE", ReportInput(p)) /\ ctx' = [ctx EXCEPT ![p] = ckpt']
  <2>1. DbStep(FreshClaim(ctx[p], "VENUE", ReportInput(p)))
    BY <1>3, ReportInputTyped, DurableStep DEF ReconcileEffect
  <2> QED BY <1>1, <1>2, <1>3, <2>1, MidwayStep
<1>4. CASE UNCHANGED <<db, ctx>>
  <2>1. DbStep({})
    BY <1>4, NoDbStep
  <2>2. ctx' = [ctx EXCEPT ![p] = ctx[p]]
    BY <1>4, SameAt DEF IInv, TypeOK
  <2> QED BY <1>1, <1>2, <2>1, <2>2, MidwayStep
<1> QED BY <1>3, <1>4 DEF ReconcileEffect

LEMMA RereadReconciledKeeps ==
  ASSUME IInv, NEW p \in Procs, RereadReconciled(p)
  PROVE  IInv'
<1>1. DbStep({})
  BY NoDbStep DEF RereadReconciled
<1>2. "recut" \in Steps \ {"close"} /\ Goes(p, "recut")
  BY DEF Steps, RereadReconciled
<1>3. /\ report' = [report EXCEPT ![p] = report[p]]
      /\ fence' = [fence EXCEPT ![p] = fence[p]] /\ fence[p] \in Nat
      /\ report[p] \in EffectOps \cup {NoReport}
      /\ todo' \in [Procs -> SUBSET Effects]
  BY SameAt DEF RereadReconciled, IInv, TypeOK
<1>4. ctx' = [ctx EXCEPT ![p] = ckpt]
  BY DEF RereadReconciled
<1> QED BY <1>1, <1>2, <1>3, <1>4, MidwayStep

\* Only a checkpoint without active protection skips the market baseline.
LEMMA FinalCutoverKeeps ==
  ASSUME IInv, NEW p \in Procs, FinalCutover(p)
  PROVE  IInv'
<1>1. DbStep({}) /\ ckpt'.eff = ckpt.eff /\ ckpt'.active = ckpt.active
  BY CutoverStep DEF FinalCutover, Cutover
<1>2. /\ report' = [report EXCEPT ![p] = report[p]]
      /\ fence' = [fence EXCEPT ![p] = fence[p]] /\ fence[p] \in Nat
      /\ report[p] \in EffectOps \cup {NoReport}
      /\ todo' \in [Procs -> SUBSET Effects]
  BY SameAt DEF FinalCutover, IInv, TypeOK
<1>3. ctx' = [ctx EXCEPT ![p] = ckpt']
  BY DEF FinalCutover, Cutover
<1>4. CASE ckpt.active
  <2>1. "subscribe" \in Steps \ {"close"} /\ Goes(p, "subscribe")
    BY <1>4 DEF Steps, FinalCutover
  <2> QED BY <1>1, <1>2, <1>3, <2>1, MidwayStep
<1>5. CASE ~ckpt.active
  <2>1. Goes(p, "close") /\ "close" \in Steps \cup {"serving"}
    BY <1>5 DEF Steps, FinalCutover
  <2>2. pc'[p] = "close"
    BY <2>1 DEF Goes, IInv, TypeOK
  <2>3. CompleteReconciliation(ckpt) /\ CompleteReconciliation(ckpt')
    BY <1>1 DEF FinalCutover, CompleteReconciliation, Blocking
  <2>4. Ready(p)' /\ Owns(p)'
    BY <1>1, <1>5, <2>2, <2>3 DEF Ready, Owns, CompleteReconciliation, Blocking
  <2> QED BY <1>1, <1>2, <1>3, <2>1, <2>4, GoesStep
<1> QED BY <1>4, <1>5

LEMMA SubscribeAndFenceKeeps ==
  ASSUME IInv, NEW p \in Procs, SubscribeAndFence(p)
  PROVE  IInv'
<1>1. DbStep({})
  BY NoDbStep DEF SubscribeAndFence
<1>2. PICK f \in Ordinals : fence' = [fence EXCEPT ![p] = f]
  BY DEF SubscribeAndFence
<1>3. f \in Nat
  BY OrdinalAssumption DEF Ordinals
<1>4. /\ report' = [report EXCEPT ![p] = report[p]]
      /\ ctx' = [ctx EXCEPT ![p] = ctx[p]]
      /\ report[p] \in EffectOps \cup {NoReport}
      /\ todo' \in [Procs -> SUBSET Effects]
  BY SameAt DEF SubscribeAndFence, IInv, TypeOK
<1>5. "baseline" \in Steps \ {"close"} /\ Goes(p, "baseline")
  BY DEF Steps, SubscribeAndFence
<1> QED BY <1>1, <1>2, <1>3, <1>4, <1>5, MidwayStep

\* The baseline is an input of the market domain.
LEMMA BaselineInputTyped ==
  ASSUME IInv, NEW p \in Procs, NEW sort \in {"bid", "inert"}
  PROVE  OpTyped("MARKET", BaselineInput(p, sort)) /\ "MARKET" \in Domains
<1>1. ctx[p] \in Checkpoints /\ fence[p] \in Nat
  BY DEF IInv, TypeOK
<1>2. ctx[p].epoch + 1 \in Nat
  BY <1>1 DEF Checkpoints
<1> QED BY <1>1, <1>2 DEF OpTyped, BaselineInput, Sorts, Domains

LEMMA ApplyBaselineKeeps ==
  ASSUME IInv, NEW p \in Procs, ApplyBaseline(p)
  PROVE  IInv'
<1>1. "verify" \in Steps \ {"close"} /\ Goes(p, "verify")
  BY DEF Steps, ApplyBaseline
<1>2. /\ report' = [report EXCEPT ![p] = report[p]]
      /\ fence' = [fence EXCEPT ![p] = fence[p]] /\ fence[p] \in Nat
      /\ report[p] \in EffectOps \cup {NoReport}
      /\ todo' \in [Procs -> SUBSET Effects]
  BY SameAt DEF ApplyBaseline, IInv, TypeOK
<1>3. ASSUME NEW sort \in {"bid", "inert"},
             Durable(p, "MARKET", BaselineInput(p, sort)),
             ctx' = [ctx EXCEPT ![p] = ckpt']
      PROVE  IInv'
  <2>1. DbStep(FreshClaim(ctx[p], "MARKET", BaselineInput(p, sort)))
    BY <1>3, BaselineInputTyped, DurableStep
  <2> QED BY <1>1, <1>2, <1>3, <2>1, MidwayStep
<1>4. CASE UNCHANGED <<db, ctx>>
  <2>1. DbStep({})
    BY <1>4, NoDbStep
  <2>2. ctx' = [ctx EXCEPT ![p] = ctx[p]]
    BY <1>4, SameAt DEF IInv, TypeOK
  <2> QED BY <1>1, <1>2, <2>1, <2>2, MidwayStep
<1> QED BY <1>3, <1>4 DEF ApplyBaseline

LEMMA VerifyBaselineKeeps ==
  ASSUME IInv, NEW p \in Procs, VerifyBaseline(p)
  PROVE  IInv'
<1>1. DbStep({}) /\ ckpt' = ckpt
  BY NoDbStep DEF VerifyBaseline, db
<1>2. /\ report' = [report EXCEPT ![p] = report[p]]
      /\ fence' = [fence EXCEPT ![p] = fence[p]] /\ fence[p] \in Nat
      /\ report[p] \in EffectOps \cup {NoReport}
      /\ todo' \in [Procs -> SUBSET Effects] /\ fence'[p] = fence[p]
  BY SameAt DEF VerifyBaseline, IInv, TypeOK
<1>3. Goes(p, "close") /\ "close" \in Steps \cup {"serving"}
      /\ ctx' = [ctx EXCEPT ![p] = ckpt]
  BY DEF Steps, VerifyBaseline
<1>4. pc'[p] = "close"
  BY <1>3 DEF Goes, IInv, TypeOK
<1>5. Ready(p)' /\ Owns(p)'
  BY <1>1, <1>2, <1>4
     DEF Ready, Owns, VerifyBaseline, Baselined, CompleteReconciliation, Blocking
<1> QED BY <1>1, <1>2, <1>3, <1>5, GoesStep

\* When startup completes, no claim is open: what is in the outbox is claimed,
\* and what is claimed and does not block is final (startup.py:268).
LEMMA ServeKeeps ==
  ASSUME IInv, NEW p \in Procs, Serve(p)
  PROVE  IInv'
<1>1. DbStep({}) /\ ckpt' = ckpt /\ outbox' = outbox
  BY NoDbStep DEF Serve, db
<1>2. /\ report' = [report EXCEPT ![p] = report[p]]
      /\ ctx' = [ctx EXCEPT ![p] = ctx[p]] /\ ctx' = ctx
      /\ fence' = [fence EXCEPT ![p] = 0]
      /\ report[p] \in EffectOps \cup {NoReport}
      /\ todo' \in [Procs -> SUBSET Effects]
  BY SameAt DEF Serve, IInv, TypeOK
<1>3. Goes(p, "serving") /\ "serving" \in Steps \cup {"serving"}
  BY DEF Serve
<1>4. pc'[p] = "serving"
  BY <1>3 DEF Goes, IInv, TypeOK
<1>5. Ready(p)'
  BY <1>4 DEF Ready
<1>6. ASSUME CompleteReconciliation(ckpt), NEW e \in outbox
      PROVE  ckpt.eff[e] \in Final
  <2>1. /\ e \in Effects /\ ckpt.eff[e] \in EffectStates
        /\ ckpt.eff[e] \notin Unclaimed
    BY DEF IInv, TypeOK, Checkpoints, ClaimsRemembered
  <2>2. ckpt.eff[e] \notin BlockingStates
    BY <1>6, <2>1 DEF CompleteReconciliation, Blocking
  <2> QED BY <2>1, <2>2 DEF EffectStates, Unclaimed, BlockingStates, Final
<1>7. Owns(p)'
  <2>1. ctx[p] = ckpt => CompleteReconciliation(ckpt)
    BY DEF IInv, ReadyToServe, Ready, Serve
  <2> QED BY <1>1, <1>2, <1>6, <2>1 DEF Owns
<1> QED BY <1>1, <1>2, <1>3, <1>5, <1>7, GoesStep

LEMMA StartupAmbiguousKeeps ==
  ASSUME IInv, NEW p \in Procs, StartupAmbiguous(p)
  PROVE  IInv'
<1>1. Stop(p)
  BY DEF StartupAmbiguous
<1>2. CASE ckpt' = Invalidated(ckpt) /\ UNCHANGED <<inputs, outbox>>
  BY <1>1, <1>2, CutoverStep, StopStep
<1>3. CASE pc[p] = "answer" /\ Durable(p, "VENUE", ReportInput(p))
  BY <1>1, <1>3, ReportInputTyped, DurableStep, StopStep
<1>4. ASSUME NEW sort \in {"bid", "inert"},
             Durable(p, "MARKET", BaselineInput(p, sort))
      PROVE  IInv'
  BY <1>1, <1>4, BaselineInputTyped, DurableStep, StopStep
<1> QED BY <1>2, <1>3, <1>4 DEF StartupAmbiguous

----------------------------------------------------------------------------
(* Serving.                                                                *)

\* The claim of a committed unit of work joins what its process owns, and no
\* final outcome is taken back.
LEMMA OperateCommittedKeeps ==
  ASSUME IInv, NEW p \in Procs, NEW d \in Domains, NEW i \in InputsOf(d),
         OperateCommitted(p, d, i)
  PROVE  IInv'
<1> DEFINE F == FreshClaim(ctx[p], d, i)
<1>1. DbStep(F) /\ ctx[p] = ckpt
  BY InputsTyped, DurableStep DEF OperateCommitted
<1>2. /\ ctx' = [ctx EXCEPT ![p] = ckpt']
      /\ eligible' = [eligible EXCEPT ![p] = @ \cup F]
      /\ own' = [own EXCEPT ![p] = @ \cup F]
      /\ UNCHANGED <<pc, checked, todo, report, fence, world>>
      /\ pc[p] = "serving"
  BY DEF OperateCommitted
<1> HIDE DEF F
<1>3. F \subseteq Effects /\ ckpt' \in Checkpoints /\ outbox' \subseteq Effects
  BY <1>1 DEF DbStep, Moves, IInv, TypeOK
<1>4. TypeOK'
  <2>1. ctx' \in [Procs -> Checkpoints]
    BY <1>2, <1>3 DEF IInv, TypeOK
  <2>2. eligible' \in [Procs -> SUBSET Effects] /\ own' \in [Procs -> SUBSET Effects]
    BY <1>2, <1>3 DEF IInv, TypeOK
  <2> QED BY <1>2, <1>3, <2>1, <2>2 DEF IInv, TypeOK, world
<1>5. \A q \in Procs \ {p} : Kept(q)
  BY <1>2 DEF Kept, IInv, TypeOK
<1>6. /\ pc'[p] = "serving" /\ ctx'[p] = ckpt' /\ published' = published
      /\ eligible'[p] = eligible[p] \cup F /\ own'[p] = own[p] \cup F
  BY <1>2 DEF world, IInv, TypeOK
<1>7. Ready(p)'
  BY <1>6 DEF Ready
<1>8. Owns(p)'
  <2>1. {e \in outbox : ckpt.eff[e] \notin Final} \subseteq own[p]
    BY <1>1, <1>2 DEF IInv, OwnClaimsOnly
  <2>2. ASSUME NEW e \in outbox', ckpt'.eff[e] \notin Final
        PROVE  e \in own'[p]
    <3>1. CASE e \in F
      BY <3>1, <1>6
    <3>2. CASE e \in outbox
      BY <3>2, <2>1, <2>2, <1>1, <1>6 DEF DbStep, Moves, IInv, TypeOK
    <3> QED BY <3>1, <3>2, <1>1 DEF DbStep
  <2> QED BY <2>2 DEF Owns
<1> QED BY <1>1, <1>4, <1>5, <1>6, <1>7, <1>8, ProcStep

\* After an ambiguous COMMIT the process itself is one of the others.
LEMMA OperateAmbiguousKeeps ==
  ASSUME IInv, NEW p \in Procs, NEW d \in Domains, NEW i \in InputsOf(d),
         OperateAmbiguous(p, d, i)
  PROVE  IInv'
<1> DEFINE F == FreshClaim(ctx[p], d, i)
<1>1. DbStep(F)
  BY InputsTyped, DurableStep DEF OperateAmbiguous
<1> HIDE DEF F
<1>2. UNCHANGED <<procVars, world>>
  BY DEF OperateAmbiguous
<1>3. ckpt' \in Checkpoints /\ outbox' \subseteq Effects
  BY <1>1 DEF DbStep, Moves, IInv, TypeOK
<1>4. TypeOK'
  BY <1>2, <1>3 DEF IInv, TypeOK, procVars, world
<1>5. \A q \in Procs : Kept(q)
  BY <1>2 DEF Kept, procVars
<1>6. Ready(p)' /\ Owns(p)'
  BY <1>1, <1>5, OthersKeep
<1>7. /\ pc' = pc /\ report' = report /\ ctx' = ctx
      /\ eligible' = eligible /\ published' = published
  BY <1>2 DEF procVars, world
<1>8. pc'[p] = "answer" => report'[p] \in EffectOps
  BY <1>7 DEF IInv, ReportTyped
<1> QED BY <1>1, <1>4, <1>5, <1>6, <1>7, <1>8, ProcStep

\* Publication spends the only eligibility there is.
LEMMA PublishKeeps ==
  ASSUME IInv, NEW p \in Procs, NEW e \in Effects, Publish(p, e)
  PROVE  IInv'
<1>1. /\ e \in outbox /\ published[e] = 0
      /\ \A q \in Procs : q # p => e \notin eligible[q]
  BY DEF Publish, IInv, EligibleOnce
<1>2. /\ eligible' = [eligible EXCEPT ![p] = @ \ {e}]
      /\ published' = [published EXCEPT ![e] = @ + 1]
      /\ UNCHANGED <<db, lease, starts, pc, checked, ctx, todo, report, fence, own>>
  BY DEF Publish
<1>3. TypeOK'
  <2>1. venue' \in [Effects -> EffectStates]
    BY DEF Publish, IInv, TypeOK, Final, EffectStates
  <2>2. published' \in [Effects -> Nat]
    BY <1>2 DEF IInv, TypeOK
  <2>3. eligible' \in [Procs -> SUBSET Effects]
    BY <1>2 DEF IInv, TypeOK
  <2> QED BY <1>2, <2>1, <2>2, <2>3 DEF IInv, TypeOK, db
<1>4. ReportTyped' /\ ContextsBehind' /\ ClaimsRemembered'
  BY <1>2 DEF IInv, ReportTyped, ContextsBehind, ClaimsRemembered, db
<1>5. published'[e] = 1 /\ \A g \in Effects \ {e} : published'[g] = published[g]
  BY <1>1, <1>2 DEF IInv, TypeOK
<1>6. /\ eligible'[p] = eligible[p] \ {e}
      /\ \A q \in Procs \ {p} : eligible'[q] = eligible[q]
  BY <1>2 DEF IInv, TypeOK
<1>7. EligibleOnce'
  <2>1. ASSUME NEW q \in Procs, NEW g \in eligible'[q]
        PROVE  g \in outbox' /\ published'[g] = 0
    <3>1. g \in eligible[q] /\ g # e
      BY <1>1, <1>6
    <3>2. g \in Effects /\ g \in outbox /\ published[g] = 0
      BY <3>1 DEF IInv, TypeOK, EligibleOnce
    <3> QED BY <3>1, <3>2, <1>2, <1>5 DEF db
  <2>2. ASSUME NEW q \in Procs, NEW r \in Procs, q # r
        PROVE  eligible'[q] \cap eligible'[r] = {}
    <3>1. eligible[q] \cap eligible[r] = {}
      BY <2>2 DEF IInv, EligibleOnce
    <3> QED BY <3>1, <1>6
  <2> QED BY <2>1, <2>2 DEF EligibleOnce
<1>8. PublishedOnce'
  BY <1>1, <1>2, <1>5 DEF IInv, PublishedOnce, db
<1>9. ReadyToServe' /\ OwnClaimsOnly'
  BY <1>2 DEF IInv, db, ReadyToServe, Ready, OwnClaimsOnly,
         CompleteReconciliation, Blocking
<1> QED BY <1>3, <1>4, <1>7, <1>8, <1>9 DEF IInv

----------------------------------------------------------------------------
(* The invariant.                                                          *)

LEMMA StartupKeeps ==
  ASSUME IInv, NEW p \in Procs, Startup(p)
  PROVE  IInv'
<1>1. CASE StartupRefused(p)
  BY <1>1, NoDbStep, StopStep DEF StartupRefused
<1> QED BY <1>1, AcquireKeeps, CheckLeaseKeeps, ColdCutoverKeeps,
           QueryEffectKeeps, ReconcileEffectKeeps, RereadReconciledKeeps,
           FinalCutoverKeeps, SubscribeAndFenceKeeps, ApplyBaselineKeeps,
           VerifyBaselineKeeps, ServeKeeps, StartupAmbiguousKeeps DEF Startup

LEMMA NextIInv == IInv /\ [Next]_vars => IInv'
<1> SUFFICES ASSUME IInv, [Next]_vars PROVE IInv'
  OBVIOUS
<1>1. ASSUME NEW p \in Procs, Operate(p) PROVE IInv'
  BY <1>1, OperateCommittedKeeps, OperateAmbiguousKeeps DEF Operate
<1>2. ASSUME NEW p \in Procs, Crash(p) PROVE IInv'
  <2>1. DbStep({})
    BY <1>2, NoDbStep DEF Crash
  <2>2. /\ Down(p) /\ UNCHANGED <<published, venue, starts>>
        /\ lease' \in Procs \cup {NoProc}
    BY <1>2 DEF Crash, world, IInv, TypeOK
  <2> QED BY <2>1, <2>2, DownStep
<1>3. CASE LoseLease
  BY <1>3, LeaseStep DEF LoseLease, IInv, TypeOK
<1>4. CASE UNCHANGED vars
  BY <1>4, LeaseStep DEF vars, db, procVars, IInv, TypeOK
<1> QED BY <1>1, <1>2, <1>3, <1>4, StartupKeeps, PublishKeeps DEF Next

\* In every reachable state of any number of processes the checkpoint, the
\* outbox, the contexts and the eligibilities are consistent
\* (unit_of_work.py:6270, startup.py:396).
THEOREM KernelInvariant == Spec => []IInv
BY InitIInv, NextIInv, PTL DEF Spec

\* No effect is handed to the venue twice, nor before its claim is durable
\* (unit_of_work.py:6332).
THEOREM EffectsPublishedOnce == Spec => []PublishedOnce
<1>1. IInv => PublishedOnce
  BY DEF IInv
<1> QED BY <1>1, KernelInvariant, PTL

\* A serving process with a current context owns every claim that has no final
\* outcome (startup.py:268).
THEOREM ClaimsAreOwned == Spec => []OwnClaimsOnly
<1>1. IInv => OwnClaimsOnly
  BY DEF IInv
<1> QED BY <1>1, KernelInvariant, PTL

\* Startup serves only over reconciled claims and its own market baseline
\* (startup.py:962).
THEOREM StartupServesFresh == Spec => ServesFresh
<1> DEFINE A == \A p \in Procs :
       pc[p] # "serving" /\ pc'[p] = "serving" /\ ctx'[p] = ckpt' =>
         /\ CompleteReconciliation(ckpt')
         /\ ckpt'.active => ~ckpt'.required /\ ckpt'.coord = fence[p]
<1>1. IInv /\ [Next]_vars => [A]_vars
  <2> SUFFICES ASSUME IInv, Next, NEW p \in Procs, pc[p] # "serving",
                      pc'[p] = "serving", ctx'[p] = ckpt'
               PROVE  /\ CompleteReconciliation(ckpt')
                      /\ ckpt'.active => ~ckpt'.required /\ ckpt'.coord = fence[p]
    OBVIOUS
  <2>1. Serve(p)
    <3>1. ASSUME NEW q \in Procs, Startup(q) PROVE Serve(q) /\ q = p
      <4>1. pc \in [Procs -> Steps \cup {"down", "serving"}]
        BY DEF IInv, TypeOK
      <4>2. ASSUME NEW to, pc' = [pc EXCEPT ![q] = to] PROVE to = "serving" /\ q = p
        BY <4>1, <4>2
      <4>3. ~Acquire(q)
        BY <4>2 DEF Acquire
      <4>4. ~Stop(q)
        BY <4>2 DEF Stop, Down
      <4>5. ~CheckLease(q)
        BY <4>4 DEF CheckLease
      <4>6. ASSUME NEW to, Goes(q, to) PROVE to = "serving" /\ q = p
        BY <4>2, <4>6 DEF Goes
      <4>7. ~StartupRefused(q) /\ ~StartupAmbiguous(q)
        BY <4>4 DEF StartupRefused, StartupAmbiguous
      <4>8. ~ColdCutover(q) /\ ~QueryEffect(q) /\ ~ReconcileEffect(q) /\ ~RereadReconciled(q)
        BY <4>6 DEF ColdCutover, QueryEffect, ReconcileEffect, RereadReconciled
      <4>9. ~FinalCutover(q) /\ ~SubscribeAndFence(q) /\ ~ApplyBaseline(q) /\ ~VerifyBaseline(q)
        BY <4>6 DEF FinalCutover, SubscribeAndFence, ApplyBaseline, VerifyBaseline
      <4>10. Serve(q)
        BY <3>1, <4>3, <4>5, <4>7, <4>8, <4>9 DEF Startup
      <4> QED BY <4>10, <4>6 DEF Serve
    <3>2. ASSUME NEW q \in Procs, Operate(q) \/ Crash(q) PROVE FALSE
      BY <3>2 DEF Operate, OperateCommitted, OperateAmbiguous, Crash, Down,
                  procVars, IInv, TypeOK
    <3>3. ~LoseLease
      BY DEF LoseLease, procVars
    <3>4. \A q \in Procs, e \in Effects : ~Publish(q, e)
      BY DEF Publish
    <3> QED BY <3>1, <3>2, <3>3, <3>4 DEF Next
  <2>2. ckpt' = ckpt /\ ctx' = ctx /\ pc[p] = "close"
    BY <2>1 DEF Serve, db
  <2>3. Ready(p)
    BY DEF IInv, ReadyToServe
  <2> QED BY <2>2, <2>3 DEF Ready, CompleteReconciliation, Blocking
<1> QED BY <1>1, KernelInvariant, PTL DEF Spec, ServesFresh
=============================================================================
