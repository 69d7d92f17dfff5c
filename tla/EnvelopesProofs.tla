--------------------------- MODULE EnvelopesProofs ---------------------------
(***************************************************************************)
(* Proofs about the execution envelopes of a symbol, for any number of     *)
(* envelopes, children, commands and faults and any size of the mandate.   *)
(***************************************************************************)
EXTENDS Envelopes, SumLemmas

-----------------------------------------------------------------------------
(* The inductive invariant *)

Sent == {"SUBMITTING", "TIMEOUT_QUARANTINE", "SUBMITTED", "CANCEL_PENDING"}

\* The children are minted into the first n slots.
MintedInOrder == \E n \in 0 .. MaxChildren : \A o \in Ids : child[o].st # "none" <=> o <= n

\* What a child's status says of the venue and of its recovery record.
Sound(c) ==
  /\ c.st = "none" => c.attr = {} /\ c.rec = "none"
  /\ c.st \in {"none", "CREATED"} => c.venue = "absent" /\ c.rec = "none"
  /\ c.venue \in {"flying", "live"} => c.st \in Sent
  /\ c.st \in {"SUBMITTED", "CANCEL_PENDING"} => c.venue \in {"live", "done"}
  /\ c.venue \in {"absent", "flying"} => c.exec = 0
  /\ c.venue = "live" => c.exec < c.qty
  /\ c.st # "none" => 0 < c.qty
  /\ c.rows <= c.exec
ChildrenAreSound == \A o \in Ids : Sound(child[o])

\* A child belongs to an envelope that exists, and replaces another child.
ChildrenAreOwned ==
  \A o \in Ids : child[o].st # "none" =>
    /\ child[o].env \in Envs /\ env[child[o].env].st # "none"
    /\ child[o].rep # o /\ (child[o].rep # 0 => child[child[o].rep].st # "none")

\* A bound level has its event, and an event without a binding is a recorded row.
EventsAreBound ==
  \A o \in Ids, l \in Levels :
    /\ l \in child[o].attr => child[o].ev[l] > 0
    /\ child[o].ev[l] > 0 /\ l \notin child[o].attr => l <= child[o].rows

\* The order of the loop's broker call, or of the poll it is in the middle of.
LoopIsSound ==
  /\ loop.pc \in {"claimed", "call", "bridge", "append", "strict", "settle"} => loop.o \in Ids
  /\ loop.pc \in {"claimed", "call"} =>
       child[loop.o].st = "SUBMITTING" /\ child[loop.o].rec = "none"
  /\ loop.pc = "claimed" => child[loop.o].venue = "absent"
  /\ loop.pc \in {"bridge", "append", "strict", "settle"} => VenueOpen(child[loop.o])
  /\ loop.pc \in {"bridge", "append", "strict"} => loop.level \in Levels
  /\ loop.pc \in {"bridge", "append"} =>
       child[loop.o].rows < loop.level /\ loop.level <= child[loop.o].exec
  /\ loop.pc = "strict" => child[loop.o].ev[loop.level] > 0
  /\ loop.ended => loop.pc \in {"bridge", "append", "strict", "settle"}
                    /\ child[loop.o].venue = "done"

\* A child that may not execute any more, and needs no human.
Dead(c) == c.st \in {"none", "TERMINAL"} /\ c.rec = "none"
AllDead(C) == \A o \in Ids : Dead(C[o])

\* A released intent, and a symbol with a direct exit, have only dead children.
ReleasedIsDead ==
  /\ intent = "EXPIRED" => AllDead(child) /\ \A e \in Envs : env[e].st \notin Delegating
  /\ direct = "live" => AllDead(child)

\* Two children are at the venue only when one was sent to replace the other.
ReplacesOnly ==
  \A o, p \in Ids : AtVenue(o) /\ AtVenue(p) /\ o # p =>
    child[o].rep = p \/ child[p].rep = o

\* The child about to be sent meets only the one it replaces.
ClaimMeetsOnlyItsOwn ==
  loop.pc = "claimed" =>
    \A p \in Ids : AtVenue(p) => p = loop.o \/ p = child[loop.o].rep

IInv ==
  /\ TypeOK /\ MintedInOrder /\ ChildrenAreSound /\ ChildrenAreOwned /\ EventsAreBound
  /\ LoopIsSound /\ ReleasedIsDead /\ ReplacesOnly /\ ClaimMeetsOnlyItsOwn
  /\ RemainingMatchesLedger /\ OverfillIsLatched

-----------------------------------------------------------------------------
(* What keeps the conjuncts of the invariant *)

\* A child that moves through its life: its mandate, its fills and its place in the
\* order of creation stay, what is dead stays dead, nothing is put at the venue.
Moves(c, d) ==
  /\ d.env = c.env /\ d.qty = c.qty /\ d.rep = c.rep
  /\ d.rows = c.rows /\ d.ev = c.ev /\ d.attr = c.attr
  /\ d.st = "none" <=> c.st = "none"
  /\ Dead(c) => Dead(d)
  /\ d.venue \in {"flying", "live"} => c.venue \in {"flying", "live"}
  /\ Sound(d)

\* An envelope whose mandate and remainder stay.
SameMandate(a, b) == b.ceil = a.ceil /\ b.rem = a.rem /\ (a.st # "none" => b.st # "none")

\* A change no step of the loop notices in the order it is working.
Unnoticed(c, d) ==
  /\ d.st = c.st \/ c.st = "CREATED" \/ (VenueOpen(c) /\ VenueOpen(d))
  /\ d.rec = c.rec \/ c.st = "CREATED"
  /\ d.venue = c.venue \/ c.venue \in {"flying", "live"}
  /\ d.rows = c.rows /\ d.exec >= c.exec /\ d.ev = c.ev

\* The identifiers and the levels are finite sets.
LEMMA FiniteIds == IsFiniteSet(Ids) /\ \A S \in SUBSET Levels : IsFiniteSet(S)
<1>1. IsFiniteSet(Ids) /\ IsFiniteSet(Levels)
  BY EnvelopesAssumption, FS_Interval DEF Ids, Levels
<1> QED BY <1>1, FS_Subset

\* The children of a set of envelopes are finitely many.
LEMMA FiniteKids == \A C, S : IsFiniteSet(Kids(C, S))
<1>1. \A C, S : Kids(C, S) \subseteq Ids
  BY DEF Kids
<1> QED BY <1>1, FiniteIds, FS_Subset

\* What is attributed to a child is a number.
LEMMA AttributedType ==
  ASSUME NEW c \in ChildRecord
  PROVE  Attributed(c) \in Nat
<1>1. IsFiniteSet(c.attr) /\ \A l \in c.attr : c.ev[l] \in Int /\ c.ev[l] >= 0
  BY FiniteIds, EnvelopesAssumption DEF ChildRecord, Levels
<1> DEFINE f == c.ev
           S == c.attr
<1>2. IsFiniteSet(S) /\ (\A l \in S : f[l] \in Int) /\ (\A l \in S : f[l] >= 0)
  BY <1>1
<1>4. Attributed(c) = SumFunctionOnSet(f, S)
  BY DEF Attributed
<1> HIDE DEF f, S
<1>3. SumFunctionOnSet(f, S) \in Int /\ SumFunctionOnSet(f, S) >= 0
  BY <1>2, SumType
<1> QED BY <1>3, <1>4

\* The fills of an envelope are those of its children.
LEMMA SameFills ==
  ASSUME NEW C, NEW D, NEW e,
         \A o \in Ids : /\ D[o].st # "none" <=> C[o].st # "none"
                        /\ D[o].env = C[o].env /\ D[o].ev = C[o].ev /\ D[o].attr = C[o].attr
  PROVE  AttributedTo(D, e) = AttributedTo(C, e)
<1>1. Kids(D, {e}) = Kids(C, {e})
  BY DEF Kids
<1>2. [o \in Ids |-> Attributed(D[o])] = [o \in Ids |-> Attributed(C[o])]
  BY DEF Attributed
<1> QED BY <1>1, <1>2 DEF AttributedTo

\* Children keep their envelopes and predecessors.
LEMMA SameOwners ==
  ASSUME IInv, env' = env,
         \A o \in Ids : /\ child'[o].st # "none" <=> child[o].st # "none"
                        /\ child'[o].env = child[o].env /\ child'[o].rep = child[o].rep
  PROVE  ChildrenAreOwned'
<1> SUFFICES ASSUME NEW o \in Ids, child'[o].st # "none"
             PROVE  /\ child'[o].env \in Envs /\ env'[child'[o].env].st # "none"
                    /\ child'[o].rep # o
                    /\ child'[o].rep # 0 => child'[child'[o].rep].st # "none"
  BY DEF ChildrenAreOwned
<1>1. /\ child[o].env \in Envs /\ env[child[o].env].st # "none" /\ child[o].rep # o
      /\ child[o].rep # 0 => child[child[o].rep].st # "none"
  BY DEF IInv, ChildrenAreOwned
<1>2. child[o].rep # 0 => child[o].rep \in Ids
  <2>1. child[o].rep \in 0 .. MaxChildren
    BY DEF IInv, TypeOK, ChildRecord
  <2> QED BY <2>1, EnvelopesAssumption DEF Ids
<1> QED BY <1>1, <1>2

\* ... so the ledger's part of the invariant survives a step that moves children and
\* statuses only.
LEMMA LedgerKept ==
  ASSUME IInv, \A o \in Ids : Moves(child[o], child'[o]),
         \A e \in Envs : SameMandate(env[e], env'[e]), latched' = latched
  PROVE  /\ MintedInOrder' /\ ChildrenAreSound' /\ ChildrenAreOwned' /\ EventsAreBound'
         /\ RemainingMatchesLedger' /\ OverfillIsLatched'
<1>1. MintedInOrder'
  BY DEF IInv, MintedInOrder, Moves
<1>2. ChildrenAreSound'
  BY DEF ChildrenAreSound, Moves
<1>3. ChildrenAreOwned'
  <2> SUFFICES ASSUME NEW o \in Ids, child'[o].st # "none"
               PROVE  /\ child'[o].env \in Envs /\ env'[child'[o].env].st # "none"
                      /\ child'[o].rep # o
                      /\ child'[o].rep # 0 => child'[child'[o].rep].st # "none"
    BY DEF ChildrenAreOwned
  <2>1. /\ child[o].st # "none" /\ child'[o].env = child[o].env
        /\ child'[o].rep = child[o].rep
    BY DEF Moves
  <2>2. /\ child[o].env \in Envs /\ env[child[o].env].st # "none" /\ child[o].rep # o
        /\ child[o].rep # 0 => child[child[o].rep].st # "none"
    BY <2>1 DEF IInv, ChildrenAreOwned
  <2>3. child[o].rep # 0 => child[o].rep \in Ids
    <3>1. child[o].rep \in 0 .. MaxChildren
      BY DEF IInv, TypeOK, ChildRecord
    <3> QED BY <3>1, EnvelopesAssumption DEF Ids
  <2> QED BY <2>1, <2>2, <2>3 DEF Moves, SameMandate
<1>4. EventsAreBound'
  BY DEF IInv, EventsAreBound, Moves
<1>5. \A e \in Envs : AttributedTo(child', e) = AttributedTo(child, e)
  BY SameFills DEF Moves
<1>6. \A e \in Envs : env'[e].rem = env[e].rem /\ env'[e].ceil = env[e].ceil
  BY DEF SameMandate
<1>7. RemainingMatchesLedger'
  BY <1>5, <1>6 DEF IInv, RemainingMatchesLedger
<1>8. OverfillIsLatched'
  BY <1>5, <1>6 DEF IInv, OverfillIsLatched
<1> QED BY <1>1, <1>2, <1>3, <1>4, <1>7, <1>8

\* A step that puts nothing at the venue and claims nothing leaves the venue's part.
LEMMA VenueKept ==
  ASSUME IInv, \A o \in Ids : child'[o].rep = child[o].rep,
         \A o \in Ids : child'[o].venue \in {"flying", "live"} =>
                           child[o].venue \in {"flying", "live"},
         loop'.pc = "claimed" => loop.pc = "claimed" /\ loop'.o = loop.o
  PROVE  ReplacesOnly' /\ ClaimMeetsOnlyItsOwn'
<1>1. ReplacesOnly'
  BY DEF IInv, ReplacesOnly, AtVenue
<1>2. loop.pc = "claimed" => loop.o \in Ids
  BY DEF IInv, LoopIsSound
<1>3. ClaimMeetsOnlyItsOwn'
  BY <1>2 DEF IInv, ClaimMeetsOnlyItsOwn, AtVenue
<1> QED BY <1>1, <1>3

\* The owner is expired only over dead children and concluded envelopes.
LEMMA OwnerExpires ==
  ASSUME NEW E, NEW C, Owner(E, C) = "EXPIRED",
         \A o \in Ids : C[o].st # "none" => C[o].env \in Envs,
         \A o \in Ids : Sound(C[o]) /\ C[o].rec \in {"none", "unresolved", "needs_review"}
  PROVE  /\ \A e \in Envs : E[e].st \notin Delegating
         /\ AllDead(C) \/ intent = "EXPIRED"
<1>1. CASE ~Linked(E, C)
  <2>1. \A e \in Envs : E[e].st \in {"none", "PENDING"}
    BY <1>1 DEF Linked
  <2>2. intent = "EXPIRED"
    BY <1>1 DEF Owner
  <2> QED BY <2>1, <2>2 DEF Delegating
<1>2. CASE Linked(E, C) /\ RetainsStrict(E, C, Envs)
  BY <1>2 DEF Owner
<1>3. CASE Linked(E, C) /\ ~RetainsStrict(E, C, Envs)
  <2>1. \A e \in Envs : E[e].st \notin Delegating
    BY <1>3 DEF RetainsStrict
  <2>2. CASE Retains(E, C, Envs)
    BY <1>3, <2>1, <2>2 DEF Owner
  <2>3. CASE ~Retains(E, C, Envs)
    <3>1. \A o \in Ids : o \notin Unresolved(C, Envs) /\ o \notin NeedsReview(C, Envs)
      BY <2>3 DEF Retains, RetainsStrict
    <3>2. \A o \in Ids : Dead(C[o])
      BY <3>1 DEF Unresolved, NeedsReview, Kids, Dead, Sound
    <3> QED BY <2>1, <3>2 DEF AllDead
  <2> QED BY <2>2, <2>3
<1> QED BY <1>1, <1>2, <1>3

\* The intent follows its delegation: an expired one is dead.
LEMMA OwnerFollows ==
  ASSUME IInv, TypeOK', ChildrenAreOwned', ChildrenAreSound',
         \A o \in Ids : Dead(child[o]) => Dead(child'[o]),
         \/ intent' = Owner(env', child')
         \/ intent' = intent /\ \A e \in Envs : env'[e].st \in Delegating => env[e].st \in Delegating,
         direct' = "live" => direct = "live"
  PROVE  ReleasedIsDead'
<1>1. AllDead(child) => AllDead(child')
  BY DEF AllDead
<1>2. ASSUME intent' = "EXPIRED"
      PROVE  AllDead(child') /\ \A e \in Envs : env'[e].st \notin Delegating
  <2>1. CASE intent' = Owner(env', child')
    <3>1. Owner(env', child') = "EXPIRED"
      BY <1>2, <2>1
    <3>2. \A o \in Ids : child'[o].st # "none" => child'[o].env \in Envs
      BY DEF ChildrenAreOwned
    <3>3. \A o \in Ids : Sound(child'[o]) /\ child'[o].rec \in {"none", "unresolved", "needs_review"}
      BY DEF ChildrenAreSound, TypeOK, ChildRecord
    <3>4. /\ \A e \in Envs : env'[e].st \notin Delegating
          /\ AllDead(child') \/ intent = "EXPIRED"
      BY <3>1, <3>2, <3>3, OwnerExpires
    <3> QED BY <1>1, <3>4 DEF IInv, ReleasedIsDead
  <2>2. CASE intent' = intent /\ \A e \in Envs : env'[e].st \in Delegating => env[e].st \in Delegating
    BY <1>1, <1>2, <2>2 DEF IInv, ReleasedIsDead
  <2> QED BY <2>1, <2>2
<1>3. direct' = "live" => AllDead(child')
  BY <1>1 DEF IInv, ReleasedIsDead
<1> QED BY <1>2, <1>3 DEF ReleasedIsDead

\* A step the loop does not notice leaves its place.
LEMMA LoopStays ==
  ASSUME IInv, loop' = loop, \A o \in Ids : Unnoticed(child[o], child'[o]), TypeOK'
  PROVE  LoopIsSound'
<1> DEFINE busy == {"claimed", "call", "bridge", "append", "strict", "settle"}
<1>1. CASE loop.pc \notin busy
  BY <1>1 DEF IInv, LoopIsSound
<1>2. CASE loop.pc \in busy
  <2> DEFINE c == child[loop.o]
             d == child'[loop.o]
  <2>1. loop.o \in Ids
    BY <1>2 DEF IInv, LoopIsSound
  <2>2. Unnoticed(c, d)
    BY <2>1
  <2>3. /\ loop.pc \in {"claimed", "call"} => c.st = "SUBMITTING" /\ c.rec = "none"
        /\ loop.pc = "claimed" => c.venue = "absent"
        /\ loop.pc \in {"bridge", "append", "strict", "settle"} => VenueOpen(c)
        /\ loop.pc \in {"bridge", "append", "strict"} => loop.level \in Levels
        /\ loop.pc \in {"bridge", "append"} => c.rows < loop.level /\ loop.level <= c.exec
        /\ loop.pc = "strict" => c.ev[loop.level] > 0
        /\ loop.ended => /\ loop.pc \in {"bridge", "append", "strict", "settle"}
                         /\ c.venue = "done"
    BY DEF IInv, LoopIsSound
  <2>4. c.exec \in Nat /\ d.exec \in Nat /\ loop.level \in Nat
    BY <2>1, EnvelopesAssumption DEF IInv, TypeOK, ChildRecord, LoopRecord
  <2>5. /\ loop.pc \in {"claimed", "call"} => d.st = "SUBMITTING" /\ d.rec = "none"
        /\ loop.pc = "claimed" => d.venue = "absent"
        /\ loop.pc \in {"bridge", "append", "strict", "settle"} => VenueOpen(d)
        /\ loop.pc \in {"bridge", "append"} => d.rows < loop.level /\ loop.level <= d.exec
        /\ loop.pc = "strict" => d.ev[loop.level] > 0
        /\ loop.ended => d.venue = "done"
    <3> HIDE DEF c, d
    <3> QED BY <2>2, <2>3, <2>4 DEF Unnoticed, VenueOpen
  <2> QED BY <2>1, <2>3, <2>5 DEF LoopIsSound
<1> QED BY <1>1, <1>2

\* Most steps: children move, envelopes change status, the owner follows.
LEMMA PlainStep ==
  ASSUME IInv, TypeOK', LoopIsSound',
         \A o \in Ids : Moves(child[o], child'[o]),
         \A e \in Envs : SameMandate(env[e], env'[e]),
         \/ intent' = Owner(env', child')
         \/ intent' = intent /\ \A e \in Envs : env'[e].st \in Delegating => env[e].st \in Delegating,
         direct' = "live" => direct = "live", latched' = latched,
         loop'.pc = "claimed" => loop.pc = "claimed" /\ loop'.o = loop.o
  PROVE  IInv'
<1>1. /\ MintedInOrder' /\ ChildrenAreSound' /\ ChildrenAreOwned' /\ EventsAreBound'
      /\ RemainingMatchesLedger' /\ OverfillIsLatched'
  BY LedgerKept
<1>2. ReplacesOnly' /\ ClaimMeetsOnlyItsOwn'
  BY VenueKept DEF Moves
<1>3. ReleasedIsDead'
  BY <1>1, OwnerFollows DEF Moves
<1> QED BY <1>1, <1>2, <1>3 DEF IInv

\* _cancel_local_created_order_locked moves only children that never left the store.
LEMMA StagedMoves ==
  ASSUME NEW C \in [Ids -> ChildRecord], \A o \in Ids : Sound(C[o]), NEW S, NEW keep
  PROVE  /\ CancelStaged(C, S, keep) \in [Ids -> ChildRecord]
         /\ \A o \in Ids : Moves(C[o], CancelStaged(C, S, keep)[o])
         /\ \A o \in Ids : Unnoticed(C[o], CancelStaged(C, S, keep)[o])
<1> DEFINE D == CancelStaged(C, S, keep)
<1>1. \A o \in Ids : D[o] = C[o] \/ (D[o] = [C[o] EXCEPT !.st = "TERMINAL"]
                                       /\ C[o].st = "CREATED" /\ C[o].rec = "none")
  BY DEF CancelStaged
<1>2. ASSUME NEW o \in Ids PROVE D[o] \in ChildRecord /\ Moves(C[o], D[o]) /\ Unnoticed(C[o], D[o])
  <2>1. C[o].exec \in Nat
    BY EnvelopesAssumption DEF ChildRecord
  <2>2. CASE D[o] = C[o]
    BY <2>1, <2>2 DEF Moves, Unnoticed
  <2>3. CASE D[o] = [C[o] EXCEPT !.st = "TERMINAL"] /\ C[o].st = "CREATED" /\ C[o].rec = "none"
    <3> DEFINE c == C[o]
               d == [c EXCEPT !.st = "TERMINAL"]
    <3>1. d \in ChildRecord
      BY DEF ChildRecord, ChildStatus
    <3>2. /\ d.env = c.env /\ d.qty = c.qty /\ d.rep = c.rep /\ d.rec = c.rec
          /\ d.venue = c.venue /\ d.exec = c.exec
          /\ d.rows = c.rows /\ d.ev = c.ev /\ d.attr = c.attr /\ d.st = "TERMINAL"
      BY DEF ChildRecord
    <3>3. Sound(c) /\ c.st = "CREATED" /\ c.rec = "none" /\ D[o] = d /\ c.exec \in Nat
      BY <2>1, <2>3
    <3> HIDE DEF c, d
    <3>4. Sound(d)
      BY <3>2, <3>3 DEF Sound
    <3>5. Moves(c, d) /\ Unnoticed(c, d)
      BY <3>2, <3>3, <3>4 DEF Moves, Unnoticed, Dead, Sound
    <3> QED BY <3>1, <3>3, <3>5 DEF c
  <2> QED BY <1>1, <2>2, <2>3
<1>3. D \in [Ids -> ChildRecord]
  BY <1>2 DEF CancelStaged
<1> QED BY <1>2, <1>3

\* A child that stays as it is.
LEMMA StaysMoves == ASSUME NEW c \in ChildRecord, Sound(c) PROVE Moves(c, c) /\ Unnoticed(c, c)
<1>1. c.exec \in Nat
  BY EnvelopesAssumption DEF ChildRecord
<1> QED BY <1>1 DEF Moves, Unnoticed

\* A step that changes the statuses of envelopes and drops staged children.
LEMMA StatusStep ==
  ASSUME IInv, env' \in [Envs -> EnvRecord], \A e \in Envs : SameMandate(env[e], env'[e]),
         NEW S, child' = child \/ child' = CancelStaged(child, S, {}),
         intent' = Owner(env', child'),
         UNCHANGED <<latched, loop>>, direct' = direct, halted' \in BOOLEAN,
         commands' \in 0 .. MaxCommands, faults' \in 0 .. MaxFaults
  PROVE  IInv'
<1>1. child \in [Ids -> ChildRecord] /\ \A o \in Ids : Sound(child[o])
  BY DEF IInv, TypeOK, ChildrenAreSound
<1>2. /\ child' \in [Ids -> ChildRecord]
      /\ \A o \in Ids : Moves(child[o], child'[o]) /\ Unnoticed(child[o], child'[o])
  BY <1>1, StagedMoves, StaysMoves
<1>3. intent' \in {"PENDING", "APPROVED", "EXPIRED"}
  BY DEF IInv, TypeOK, Owner
<1>4. TypeOK'
  BY <1>2, <1>3 DEF IInv, TypeOK
<1>5. LoopIsSound'
  BY <1>2, <1>4, LoopStays
<1> QED BY <1>2, <1>4, <1>5, PlainStep

\* A step of the loop, or of the venue, that moves one child.
LEMMA ChildStep ==
  ASSUME IInv, NEW o \in Ids, NEW r \in ChildRecord, Moves(child[o], r),
         child' = [child EXCEPT ![o] = r], env' = env,
         intent' = Owner(env', child') \/ intent' = intent,
         UNCHANGED <<latched, direct, halted>>, loop' \in LoopRecord, LoopIsSound',
         loop'.pc = "claimed" => loop.pc = "claimed" /\ loop'.o = loop.o,
         commands' \in 0 .. MaxCommands, faults' \in 0 .. MaxFaults
  PROVE  IInv'
<1>1. child \in [Ids -> ChildRecord] /\ \A p \in Ids : Sound(child[p])
  BY DEF IInv, TypeOK, ChildrenAreSound
<1>2. \A p \in Ids : child[p] \in ChildRecord /\ child'[p] = IF p = o THEN r ELSE child[p]
  BY <1>1
<1>3. \A p \in Ids : Moves(child[p], child'[p])
  BY <1>1, <1>2, StaysMoves
<1>4. intent' \in {"PENDING", "APPROVED", "EXPIRED"}
  BY DEF IInv, TypeOK, Owner
<1>5. TypeOK'
  BY <1>1, <1>4 DEF IInv, TypeOK
<1>6. \A e \in Envs : SameMandate(env[e], env'[e])
  BY DEF SameMandate
<1> QED BY <1>3, <1>5, <1>6, PlainStep

\* ... with the loop where it was.
LEMMA UnnoticedStep ==
  ASSUME IInv, NEW o \in Ids, NEW r \in ChildRecord, Moves(child[o], r),
         loop.pc = "idle" \/ Unnoticed(child[o], r),
         child' = [child EXCEPT ![o] = r], env' = env,
         intent' = Owner(env', child') \/ intent' = intent,
         UNCHANGED <<latched, direct, halted, loop>>,
         commands' \in 0 .. MaxCommands, faults' \in 0 .. MaxFaults
  PROVE  IInv'
<1>1. child \in [Ids -> ChildRecord] /\ \A p \in Ids : Sound(child[p])
  BY DEF IInv, TypeOK, ChildrenAreSound
<1>2. LoopIsSound'
  <2>1. CASE loop.pc = "idle"
    BY <2>1 DEF IInv, LoopIsSound
  <2>2. CASE Unnoticed(child[o], r)
    <3>1. \A p \in Ids : Unnoticed(child[p], child'[p])
      BY <1>1, <2>2, StaysMoves
    <3>2. intent' \in {"PENDING", "APPROVED", "EXPIRED"}
      BY DEF IInv, TypeOK, Owner
    <3>3. TypeOK'
      BY <1>1, <3>2 DEF IInv, TypeOK
    <3> QED BY <3>1, <3>3, LoopStays
  <2> QED BY <2>1, <2>2
<1>3. loop' \in LoopRecord
  BY DEF IInv, TypeOK
<1> QED BY <1>2, <1>3, ChildStep

\* ... with the loop done.
LEMMA DoneStep ==
  ASSUME IInv, NEW o \in Ids, NEW r \in ChildRecord, Moves(child[o], r),
         child' = [child EXCEPT ![o] = r], env' = env,
         intent' = Owner(env', child') \/ intent' = intent,
         UNCHANGED <<latched, direct, halted>>, loop' = Idle,
         commands' \in 0 .. MaxCommands, faults' \in 0 .. MaxFaults
  PROVE  IInv'
<1>1. LoopIsSound' /\ loop' \in LoopRecord /\ loop'.pc # "claimed"
  BY EnvelopesAssumption DEF LoopIsSound, Idle, LoopRecord
<1> QED BY <1>1, ChildStep

-----------------------------------------------------------------------------
(* Operator commands *)

\* A status written to one envelope leaves its mandate.
LEMMA StatusOnly ==
  ASSUME TypeOK, NEW e \in Envs, NEW s \in EnvStatus \ {"none"},
         env' = [env EXCEPT ![e].st = s]
  PROVE  env' \in [Envs -> EnvRecord] /\ \A d \in Envs : SameMandate(env[d], env'[d])
BY DEF TypeOK, EnvRecord, SameMandate

\* A command is counted.
LEMMA Counted ==
  /\ TypeOK /\ Command => commands' \in 0 .. MaxCommands
  /\ TypeOK /\ Fault => faults' \in 0 .. MaxFaults
BY EnvelopesAssumption DEF TypeOK, Command, Fault

\* An envelope that does not exist has no fills.
LEMMA NoFillsYet ==
  ASSUME IInv, NEW e \in Envs, env[e].st = "none"
  PROVE  AttributedTo(child, e) = 0
<1>1. Kids(child, {e}) = {}
  BY DEF IInv, ChildrenAreOwned, Kids
<1> QED BY <1>1, SumEmpty DEF AttributedTo

\* The ledger's part of the invariant when one envelope is added.
LEMMA EnvelopeAdded ==
  ASSUME IInv, NEW e \in Envs, env[e].st = "none", NEW n \in Levels,
         \A o \in Ids : Moves(child[o], child'[o]),
         env'[e].ceil = n /\ env'[e].rem = n /\ env'[e].st # "none",
         \A d \in Envs \ {e} : SameMandate(env[d], env'[d]), latched' = latched
  PROVE  /\ MintedInOrder' /\ ChildrenAreSound' /\ ChildrenAreOwned' /\ EventsAreBound'
         /\ RemainingMatchesLedger' /\ OverfillIsLatched'
<1>1. MintedInOrder'
  BY DEF IInv, MintedInOrder, Moves
<1>2. ChildrenAreSound'
  BY DEF ChildrenAreSound, Moves
<1>3. ChildrenAreOwned'
  <2> SUFFICES ASSUME NEW o \in Ids, child'[o].st # "none"
               PROVE  /\ child'[o].env \in Envs /\ env'[child'[o].env].st # "none"
                      /\ child'[o].rep # o
                      /\ child'[o].rep # 0 => child'[child'[o].rep].st # "none"
    BY DEF ChildrenAreOwned
  <2>1. /\ child[o].st # "none" /\ child'[o].env = child[o].env
        /\ child'[o].rep = child[o].rep
    BY DEF Moves
  <2>2. /\ child[o].env \in Envs /\ env[child[o].env].st # "none" /\ child[o].rep # o
        /\ child[o].rep # 0 => child[child[o].rep].st # "none"
    BY <2>1 DEF IInv, ChildrenAreOwned
  <2>3. child[o].rep # 0 => child[o].rep \in Ids
    <3>1. child[o].rep \in 0 .. MaxChildren
      BY DEF IInv, TypeOK, ChildRecord
    <3> QED BY <3>1, EnvelopesAssumption DEF Ids
  <2> QED BY <2>1, <2>2, <2>3 DEF Moves, SameMandate
<1>4. EventsAreBound'
  BY DEF IInv, EventsAreBound, Moves
<1>5. \A d \in Envs : AttributedTo(child', d) = AttributedTo(child, d)
  BY SameFills DEF Moves
<1>6. \A d \in Envs \ {e} : env'[d].rem = env[d].rem /\ env'[d].ceil = env[d].ceil
  BY DEF SameMandate
<1>7. AttributedTo(child, e) = 0 /\ n \in Nat /\ 0 < n
  BY NoFillsYet, EnvelopesAssumption DEF Levels
<1>8. RemainingMatchesLedger'
  <2>1. ASSUME NEW d \in Envs
        PROVE  env'[d].rem = LET a == AttributedTo(child', d) IN
                               IF a < env'[d].ceil THEN env'[d].ceil - a ELSE 0
    <3>1. CASE d = e
      BY <1>5, <1>7, <3>1
    <3>2. CASE d # e
      BY <1>5, <1>6, <3>2 DEF IInv, RemainingMatchesLedger
    <3> QED BY <3>1, <3>2
  <2> QED BY <2>1 DEF RemainingMatchesLedger
<1>9. OverfillIsLatched'
  <2>1. ASSUME NEW d \in Envs, AttributedTo(child', d) > env'[d].ceil PROVE latched'
    <3>1. CASE d = e
      BY <1>5, <1>7, <2>1, <3>1
    <3>2. CASE d # e
      BY <1>5, <1>6, <2>1, <3>2 DEF IInv, OverfillIsLatched
    <3> QED BY <3>1, <3>2
  <2> QED BY <2>1 DEF OverfillIsLatched
<1> QED BY <1>1, <1>2, <1>3, <1>4, <1>8, <1>9

\* A step that adds an envelope, with the loop where it was.
LEMMA AddingStep ==
  ASSUME IInv, NEW e \in Envs, env[e].st = "none", NEW n \in Levels,
         env' \in [Envs -> EnvRecord],
         env'[e].ceil = n /\ env'[e].rem = n /\ env'[e].st # "none",
         \A d \in Envs \ {e} : SameMandate(env[d], env'[d]),
         NEW S, child' = child \/ child' = CancelStaged(child, S, {}),
         \/ intent' = Owner(env', child')
         \/ intent' = intent /\ \A d \in Envs : env'[d].st \in Delegating => env[d].st \in Delegating,
         UNCHANGED <<latched, direct, halted, loop, faults>>, commands' \in 0 .. MaxCommands
  PROVE  IInv'
<1>1. child \in [Ids -> ChildRecord] /\ \A o \in Ids : Sound(child[o])
  BY DEF IInv, TypeOK, ChildrenAreSound
<1>2. /\ child' \in [Ids -> ChildRecord]
      /\ \A o \in Ids : Moves(child[o], child'[o]) /\ Unnoticed(child[o], child'[o])
  BY <1>1, StagedMoves, StaysMoves
<1>3. intent' \in {"PENDING", "APPROVED", "EXPIRED"}
  BY DEF IInv, TypeOK, Owner
<1>4. TypeOK'
  BY <1>2, <1>3 DEF IInv, TypeOK
<1>5. LoopIsSound'
  BY <1>2, <1>4, LoopStays
<1>6. /\ MintedInOrder' /\ ChildrenAreSound' /\ ChildrenAreOwned' /\ EventsAreBound'
      /\ RemainingMatchesLedger' /\ OverfillIsLatched'
  BY <1>2, EnvelopeAdded
<1>7. ReplacesOnly' /\ ClaimMeetsOnlyItsOwn'
  BY <1>2, VenueKept DEF Moves
<1>8. ReleasedIsDead'
  BY <1>2, <1>4, <1>6, OwnerFollows DEF Moves
<1> QED BY <1>4, <1>5, <1>6, <1>7, <1>8 DEF IInv

\* create_envelope: a draft delegates nothing.
LEMMA CreateEnvelopeKeeps ==
  ASSUME IInv, NEW e \in Envs, NEW n \in Levels, CreateEnvelope(e, n) PROVE IInv'
<1>1. n \in 0 .. Held
  BY EnvelopesAssumption DEF Levels
<1>2. /\ env[e].st = "none" /\ env' \in [Envs -> EnvRecord]
      /\ env'[e].ceil = n /\ env'[e].rem = n /\ env'[e].st = "PENDING"
      /\ \A d \in Envs \ {e} : env'[d] = env[d]
  BY <1>1 DEF CreateEnvelope, IInv, TypeOK, EnvRecord, EnvStatus
<1>3. \A d \in Envs \ {e} : SameMandate(env[d], env'[d])
  BY <1>2 DEF SameMandate
<1>4. \A d \in Envs : env'[d].st \in Delegating => env[d].st \in Delegating
  BY <1>2 DEF Delegating
<1>5. commands' \in 0 .. MaxCommands
  BY Counted DEF CreateEnvelope, IInv
<1>6. child' = child /\ intent' = intent /\ UNCHANGED <<latched, direct, halted, loop, faults>>
  BY DEF CreateEnvelope
<1> QED BY <1>2, <1>3, <1>4, <1>5, <1>6, AddingStep

\* transition_envelope to APPROVED: the intent is delegated.
LEMMA ApproveEnvelopeKeeps ==
  ASSUME IInv, NEW e \in Envs, ApproveEnvelope(e) PROVE IInv'
<1>1. /\ env' = [env EXCEPT ![e].st = "APPROVED"] /\ child' = child
      /\ intent' = Owner(env', child') /\ UNCHANGED <<latched, loop, direct, halted, faults>>
      /\ TypeOK /\ commands' \in 0 .. MaxCommands
  BY Counted DEF ApproveEnvelope, Write, IInv
<1>2. env' \in [Envs -> EnvRecord] /\ \A d \in Envs : SameMandate(env[d], env'[d])
  BY <1>1, StatusOnly DEF EnvStatus
<1>3. halted' \in BOOLEAN /\ faults' \in 0 .. MaxFaults
  BY <1>1 DEF TypeOK
<1> QED BY <1>1, <1>2, <1>3, StatusStep

\* approve_envelope_activation: a new envelope, or one drafted before.
LEMMA ActivateEnvelopeKeeps ==
  ASSUME IInv, NEW e \in Envs, NEW n \in Levels, ActivateEnvelope(e, n) PROVE IInv'
<1>1. /\ UNCHANGED <<latched, loop, direct, halted, faults>>
      /\ TypeOK /\ commands' \in 0 .. MaxCommands
  BY Counted DEF ActivateEnvelope, IInv
<1>2. CASE /\ env[e].st = "none"
           /\ Write([env EXCEPT ![e] = [st |-> "ACTIVE", ceil |-> n, rem |-> n, wind |-> FALSE]], child)
  <2>1. child' = child /\ intent' = Owner(env', child')
        /\ env' = [env EXCEPT ![e] = [st |-> "ACTIVE", ceil |-> n, rem |-> n, wind |-> FALSE]]
    BY <1>2 DEF Write
  <2>2. n \in 0 .. Held
    BY EnvelopesAssumption DEF Levels
  <2>3. /\ env' \in [Envs -> EnvRecord]
        /\ env'[e].ceil = n /\ env'[e].rem = n /\ env'[e].st # "none"
        /\ \A d \in Envs \ {e} : env'[d] = env[d]
    BY <1>1, <2>1, <2>2 DEF TypeOK, EnvRecord, EnvStatus
  <2>4. \A d \in Envs \ {e} : SameMandate(env[d], env'[d])
    BY <2>3 DEF SameMandate
  <2> QED BY <1>1, <1>2, <2>1, <2>3, <2>4, AddingStep
<1>3. CASE Write([env EXCEPT ![e].st = "ACTIVE"], child)
  <2>1. child' = child /\ intent' = Owner(env', child') /\ env' = [env EXCEPT ![e].st = "ACTIVE"]
    BY <1>3 DEF Write
  <2>2. env' \in [Envs -> EnvRecord] /\ \A d \in Envs : SameMandate(env[d], env'[d])
    BY <1>1, <2>1, StatusOnly DEF EnvStatus
  <2>3. halted' \in BOOLEAN /\ faults' \in 0 .. MaxFaults
    BY <1>1 DEF TypeOK
  <2> QED BY <1>1, <2>1, <2>2, <2>3, StatusStep
<1> QED BY <1>2, <1>3 DEF ActivateEnvelope

\* transition_envelope back to ACTIVE.
LEMMA ResumeEnvelopeKeeps ==
  ASSUME IInv, NEW e \in Envs, ResumeEnvelope(e) PROVE IInv'
<1> DEFINE s == IF env[e].rem = 0 THEN "COMPLETED" ELSE "ACTIVE"
<1>1. /\ env' = [env EXCEPT ![e].st = s] /\ child' = child
      /\ intent' = Owner(env', child') /\ UNCHANGED <<latched, loop, direct, halted, faults>>
      /\ TypeOK /\ commands' \in 0 .. MaxCommands
  BY Counted DEF ResumeEnvelope, Write, IInv
<1>2. s \in EnvStatus \ {"none"}
  BY DEF EnvStatus
<1> HIDE DEF s
<1>3. env' \in [Envs -> EnvRecord] /\ \A d \in Envs : SameMandate(env[d], env'[d])
  BY <1>1, <1>2, StatusOnly
<1>4. halted' \in BOOLEAN /\ faults' \in 0 .. MaxFaults
  BY <1>1 DEF TypeOK
<1> QED BY <1>1, <1>3, <1>4, StatusStep

\* cancel_envelope.
LEMMA CancelEnvelopeKeeps ==
  ASSUME IInv, NEW e \in Envs, CancelEnvelope(e) PROVE IInv'
<1>1. /\ env' = [env EXCEPT ![e].st = "CANCELLED"] /\ child' = CancelStaged(child, {e}, {})
      /\ intent' = Owner(env', child') /\ UNCHANGED <<latched, loop, direct, halted, faults>>
      /\ TypeOK /\ commands' \in 0 .. MaxCommands
  BY Counted DEF CancelEnvelope, Write, IInv
<1>2. env' \in [Envs -> EnvRecord] /\ \A d \in Envs : SameMandate(env[d], env'[d])
  BY <1>1, StatusOnly DEF EnvStatus
<1>3. halted' \in BOOLEAN /\ faults' \in 0 .. MaxFaults
  BY <1>1 DEF TypeOK
<1> QED BY <1>1, <1>2, <1>3, StatusStep

\* supersede_envelope: the successor starts without fills.
LEMMA SupersedeEnvelopeKeeps ==
  ASSUME IInv, NEW e \in Envs, NEW n \in Levels, SupersedeEnvelope(e, n) PROVE IInv'
<1> DEFINE s == e + 1
           new == [st |-> "ACTIVE", ceil |-> n, rem |-> n, wind |-> FALSE]
<1>1. /\ s \in Envs /\ s # e /\ env[s].st = "none" /\ env[e].st = "ACTIVE"
      /\ env' = [env EXCEPT ![e].st = "SUPERSEDED", ![s] = new]
      /\ child' = CancelStaged(child, {e}, {}) /\ intent' = Owner(env', child')
      /\ UNCHANGED <<latched, direct, halted, loop, faults>>
      /\ TypeOK /\ commands' \in 0 .. MaxCommands
  BY Counted DEF SupersedeEnvelope, Write, IInv, Envs
<1>2. new \in EnvRecord /\ new.ceil = n /\ new.rem = n /\ new.st = "ACTIVE"
  BY EnvelopesAssumption DEF Levels, EnvRecord, EnvStatus
<1> HIDE DEF s, new
<1>3. /\ env' \in [Envs -> EnvRecord] /\ env'[s] = new
      /\ env'[e] = [env[e] EXCEPT !.st = "SUPERSEDED"]
      /\ \A d \in Envs \ {s, e} : env'[d] = env[d]
  BY <1>1, <1>2 DEF TypeOK, EnvRecord, EnvStatus
<1>4. SameMandate(env[e], env'[e])
  BY <1>1, <1>3 DEF TypeOK, EnvRecord, SameMandate
<1>5. \A d \in Envs \ {s} : SameMandate(env[d], env'[d])
  BY <1>3, <1>4 DEF SameMandate
<1>6. env'[s].ceil = n /\ env'[s].rem = n /\ env'[s].st # "none"
  BY <1>2, <1>3
<1> QED BY <1>1, <1>3, <1>5, <1>6, AddingStep

\* set_kill_switch.
LEMMA KillSwitchKeeps == ASSUME IInv, KillSwitch PROVE IInv'
<1> DEFINE active == {e \in Envs : env[e].st = "ACTIVE"}
           E == [e \in Envs |-> IF e \in active THEN [env[e] EXCEPT !.st = "FROZEN"] ELSE env[e]]
<1>1. /\ UNCHANGED <<latched, loop, direct, faults>> /\ halted' \in BOOLEAN
      /\ TypeOK /\ commands' \in 0 .. MaxCommands /\ faults' \in 0 .. MaxFaults
  BY Counted DEF KillSwitch, IInv, TypeOK
<1>2. CASE halted
  <2>1. env' = env /\ child' = child /\ intent' = intent
    BY <1>2 DEF KillSwitch
  <2>2. TypeOK'
    BY <1>1, <2>1 DEF TypeOK
  <2>3. child \in [Ids -> ChildRecord] /\ \A o \in Ids : Sound(child[o])
    BY DEF IInv, TypeOK, ChildrenAreSound
  <2>4. \A o \in Ids : Moves(child[o], child'[o]) /\ Unnoticed(child[o], child'[o])
    BY <2>1, <2>3, StaysMoves
  <2>5. LoopIsSound'
    BY <1>1, <2>2, <2>4, LoopStays
  <2>6. \A e \in Envs : SameMandate(env[e], env'[e])
    BY <2>1 DEF SameMandate
  <2>7. \A e \in Envs : env'[e].st \in Delegating => env[e].st \in Delegating
    BY <2>1
  <2> QED BY <1>1, <2>1, <2>2, <2>4, <2>5, <2>6, <2>7, PlainStep
<1>3. CASE ~halted
  <2>1. env' = E /\ child' = CancelStaged(child, active, {}) /\ intent' = Owner(env', child')
    BY <1>3 DEF KillSwitch, Write
  <2>2. E \in [Envs -> EnvRecord] /\ \A d \in Envs : SameMandate(env[d], E[d])
    BY <1>1 DEF TypeOK, EnvRecord, EnvStatus, SameMandate
  <2> HIDE DEF active, E
  <2>3. env' \in [Envs -> EnvRecord] /\ \A d \in Envs : SameMandate(env[d], env'[d])
    BY <2>1, <2>2
  <2> QED BY <1>1, <2>1, <2>3, StatusStep
<1> QED BY <1>2, <1>3

\* flatten_position: the direct exit is minted over dead children only.
LEMMA FlattenKeeps == ASSUME IInv, Flatten PROVE IInv'
<1> DEFINE E == [e \in Envs |-> IF env[e].st \in Delegating \cup {"PENDING"}
                                THEN [env[e] EXCEPT !.st = "CANCELLED"] ELSE env[e]]
           C == CancelStaged(child, Envs, {})
<1>1. /\ env' = E /\ child' = C /\ ~Retains(E, C, Envs) /\ intent' = Owner(env', child')
      /\ UNCHANGED <<latched, loop, halted, faults>> /\ direct' = "live"
      /\ TypeOK /\ commands' \in 0 .. MaxCommands
  BY Counted DEF Flatten, Write, IInv
<1>2. E \in [Envs -> EnvRecord] /\ \A d \in Envs : SameMandate(env[d], E[d])
  BY <1>1 DEF TypeOK, EnvRecord, EnvStatus, SameMandate
<1>3. child \in [Ids -> ChildRecord] /\ \A o \in Ids : Sound(child[o])
  BY DEF IInv, TypeOK, ChildrenAreSound
<1>4. /\ C \in [Ids -> ChildRecord]
      /\ \A o \in Ids : Moves(child[o], C[o]) /\ Unnoticed(child[o], C[o])
  BY <1>3, StagedMoves
<1> HIDE DEF E, C
<1>5. intent' \in {"PENDING", "APPROVED", "EXPIRED"}
  BY <1>1 DEF IInv, TypeOK, Owner
<1>6. TypeOK'
  BY <1>1, <1>2, <1>4, <1>5 DEF TypeOK
<1>7. \A o \in Ids : Moves(child[o], child'[o]) /\ Unnoticed(child[o], child'[o])
  BY <1>1, <1>4
<1>8. \A e \in Envs : SameMandate(env[e], env'[e])
  BY <1>1, <1>2
<1>9. LoopIsSound'
  BY <1>1, <1>6, <1>7, LoopStays
<1>10. /\ MintedInOrder' /\ ChildrenAreSound' /\ ChildrenAreOwned' /\ EventsAreBound'
       /\ RemainingMatchesLedger' /\ OverfillIsLatched'
  BY <1>1, <1>7, <1>8, LedgerKept
<1>11. ReplacesOnly' /\ ClaimMeetsOnlyItsOwn'
  BY <1>1, <1>7, VenueKept DEF Moves
<1>12. AllDead(child')
  <2>1. \A o \in Ids : o \notin Unresolved(C, Envs) /\ o \notin NeedsReview(C, Envs)
    BY <1>1 DEF Retains, RetainsStrict
  <2>2. \A o \in Ids : /\ C[o].st # "none" => C[o].env \in Envs
                       /\ C[o].rec \in {"none", "unresolved", "needs_review"} /\ Sound(C[o])
    BY <1>1, <1>4, <1>10 DEF ChildrenAreOwned, ChildRecord, Moves
  <2>3. \A o \in Ids : Dead(C[o])
    BY <2>1, <2>2 DEF Unresolved, NeedsReview, Kids, Dead, Sound
  <2> QED BY <1>1, <2>3 DEF AllDead
<1>13. \A e \in Envs : env'[e].st \notin Delegating
  BY <1>1 DEF Retains, RetainsStrict
<1>14. ReleasedIsDead'
  BY <1>12, <1>13 DEF ReleasedIsDead
<1> QED BY <1>6, <1>9, <1>10, <1>11, <1>14 DEF IInv

\* The direct exit ends.
LEMMA DirectEndsKeeps == ASSUME IInv, DirectEnds PROVE IInv'
<1>1. /\ UNCHANGED <<env, child, intent, latched, halted, loop, commands, faults>>
      /\ direct' \in {"none", "done"}
  BY DEF DirectEnds
<1>2. TypeOK'
  BY <1>1 DEF IInv, TypeOK
<1>3. child \in [Ids -> ChildRecord] /\ \A o \in Ids : Sound(child[o])
  BY DEF IInv, TypeOK, ChildrenAreSound
<1>4. \A o \in Ids : Moves(child[o], child'[o]) /\ Unnoticed(child[o], child'[o])
  BY <1>1, <1>3, StaysMoves
<1>5. LoopIsSound'
  BY <1>1, <1>2, <1>4, LoopStays
<1>6. \A e \in Envs : SameMandate(env[e], env'[e])
  BY <1>1 DEF SameMandate
<1>7. \A e \in Envs : env'[e].st \in Delegating => env[e].st \in Delegating
  BY <1>1
<1> QED BY <1>1, <1>2, <1>4, <1>5, <1>6, <1>7, PlainStep

\* The operator cancels an order at the venue.
LEMMA OperatorCancelsOrderKeeps ==
  ASSUME IInv, NEW o \in Ids, OperatorCancelsOrder(o) PROVE IInv'
<1> DEFINE c == child[o]
           r == [c EXCEPT !.st = "CANCEL_PENDING"]
<1>1. child \in [Ids -> ChildRecord] /\ c \in ChildRecord /\ Sound(c)
  BY DEF IInv, TypeOK, ChildrenAreSound
<1>2. /\ c.st = "SUBMITTED" /\ child' = [child EXCEPT ![o] = r] /\ env' = env
      /\ intent' = Owner(env', child') /\ UNCHANGED <<latched, direct, halted, loop>>
      /\ commands' \in 0 .. MaxCommands /\ faults' \in 0 .. MaxFaults
  BY Counted DEF OperatorCancelsOrder, Write, IInv, TypeOK
<1>3. /\ r \in ChildRecord /\ r.st = "CANCEL_PENDING"
      /\ r.env = c.env /\ r.qty = c.qty /\ r.rep = c.rep /\ r.rec = c.rec
      /\ r.venue = c.venue /\ r.exec = c.exec /\ r.rows = c.rows /\ r.ev = c.ev
      /\ r.attr = c.attr /\ c.exec \in Nat
  BY <1>1, EnvelopesAssumption DEF ChildRecord, ChildStatus
<1> HIDE DEF r
<1>4. Moves(c, r) /\ Unnoticed(c, r)
  <2> HIDE DEF c
  <2> QED BY <1>1, <1>2, <1>3 DEF Moves, Unnoticed, Dead, Sound, Sent, VenueOpen
<1> QED BY <1>2, <1>3, <1>4, UnnoticedStep

-----------------------------------------------------------------------------
(* The monitoring loop and the venue, one child at a time *)

\* A refused re-drive drops a child that never left the store.
LEMMA RedriveRefusedKeeps == ASSUME IInv, NEW o \in Ids, RedriveRefused(o) PROVE IInv'
<1> DEFINE c == child[o]
           r == [c EXCEPT !.st = "TERMINAL"]
<1>1. child \in [Ids -> ChildRecord] /\ c \in ChildRecord /\ Sound(c)
  BY DEF IInv, TypeOK, ChildrenAreSound
<1>2. c.st = "CREATED" /\ loop.pc = "idle"
  BY <1>1 DEF RedriveRefused
<1>3. /\ child' = [child EXCEPT ![o] = r] /\ env' = env
      /\ intent' = Owner(env', child')
      /\ UNCHANGED <<latched, direct, halted, loop>>
  BY <1>1 DEF RedriveRefused, Write
<1>4. commands' \in 0 .. MaxCommands /\ faults' \in 0 .. MaxFaults
  BY Counted DEF RedriveRefused, IInv, TypeOK
<1>5. c.exec \in Nat /\ c.qty \in Nat /\ c.rows \in Nat
  BY <1>1, EnvelopesAssumption DEF ChildRecord
<1>7. r \in ChildRecord
  BY <1>1 DEF ChildRecord, ChildStatus
<1>8. /\ r.st = "TERMINAL"
      /\ r.env = c.env /\ r.qty = c.qty /\ r.rep = c.rep /\ r.rec = c.rec
      /\ r.venue = c.venue /\ r.exec = c.exec /\ r.rows = c.rows
      /\ r.ev = c.ev /\ r.attr = c.attr
  BY <1>1 DEF ChildRecord
<1> HIDE DEF r
<1>9. Moves(c, r) /\ (loop.pc = "idle" \/ Unnoticed(c, r))
  <2> HIDE DEF c
  <2> QED BY <1>1, <1>2, <1>5, <1>8
           DEF Moves, Unnoticed, Dead, Sound, Sent, VenueOpen
<1> QED BY <1>1, <1>3, <1>4, <1>7, <1>9, UnnoticedStep

\* A child released after its claim never reached the venue.
LEMMA ReleaseKeeps == ASSUME IInv, Release PROVE IInv'
<1> DEFINE o == loop.o
<1>0. /\ o \in Ids /\ child[o].st = "SUBMITTING" /\ child[o].rec = "none"
      /\ loop.pc = "claimed" => child[o].venue = "absent"
  BY DEF IInv, LoopIsSound, Release
<1> HIDE DEF o
<1> DEFINE c == child[o]
           r == [c EXCEPT !.st = "CREATED"]
<1>1. o \in Ids /\ child \in [Ids -> ChildRecord] /\ c \in ChildRecord /\ Sound(c)
  BY <1>0 DEF IInv, TypeOK, ChildrenAreSound
<1>2. c.st = "SUBMITTING" /\ c.rec = "none" /\ c.venue = "absent"
  BY <1>0, <1>1 DEF Release, o
<1>3. /\ child' = [child EXCEPT ![o] = r] /\ env' = env
      /\ intent' = Owner(env', child')
      /\ UNCHANGED <<latched, direct, halted>> /\ loop' = Idle
  BY <1>0, <1>1 DEF Release, Write, o
<1>4. commands' \in 0 .. MaxCommands /\ faults' \in 0 .. MaxFaults
  BY Counted DEF Release, IInv, TypeOK
<1>5. c.exec \in Nat /\ c.qty \in Nat /\ c.rows \in Nat
  BY <1>1, EnvelopesAssumption DEF ChildRecord
<1>7. r \in ChildRecord
  BY <1>1 DEF ChildRecord, ChildStatus
<1>8. /\ r.st = "CREATED"
      /\ r.env = c.env /\ r.qty = c.qty /\ r.rep = c.rep /\ r.rec = c.rec
      /\ r.venue = c.venue /\ r.exec = c.exec /\ r.rows = c.rows
      /\ r.ev = c.ev /\ r.attr = c.attr
  BY <1>1 DEF ChildRecord
<1> HIDE DEF r
<1>9. Moves(c, r)
  <2> HIDE DEF c
  <2> QED BY <1>1, <1>2, <1>5, <1>8
           DEF Moves, Dead, Sound, Sent, VenueOpen
<1> QED BY <1>1, <1>3, <1>4, <1>7, <1>9, DoneStep

\* An acknowledgement makes the child a working order, or leaves a recovery.
LEMMA ReplyAcceptedKeeps == ASSUME IInv, ReplyAccepted PROVE IInv'
<1> DEFINE o == loop.o
<1>0. /\ o \in Ids /\ child[o].st = "SUBMITTING" /\ child[o].rec = "none"
      /\ loop.pc = "claimed" => child[o].venue = "absent"
  BY DEF IInv, LoopIsSound, ReplyAccepted
<1> HIDE DEF o
<1> DEFINE c == child[o]
           v == IF Blocked(o, TRUE) THEN "SUBMITTING" ELSE "SUBMITTED"
           w == IF Blocked(o, TRUE) THEN "unresolved" ELSE "none"
           r == [c EXCEPT !.st = v, !.rec = w]
<1>1. o \in Ids /\ child \in [Ids -> ChildRecord] /\ c \in ChildRecord /\ Sound(c)
  BY <1>0 DEF IInv, TypeOK, ChildrenAreSound
<1>2. c.st = "SUBMITTING" /\ c.rec = "none" /\ c.venue \in {"live", "done"}
  BY <1>0, <1>1 DEF ReplyAccepted, o
<1>3. /\ child' = [child EXCEPT ![o] = r] /\ env' = env
      /\ intent' = Owner(env', child')
      /\ UNCHANGED <<latched, direct, halted>> /\ loop' = Idle
  BY <1>0, <1>1 DEF ReplyAccepted, Write, o
<1>4. commands' \in 0 .. MaxCommands /\ faults' \in 0 .. MaxFaults
  BY Counted DEF ReplyAccepted, IInv, TypeOK
<1>5. c.exec \in Nat /\ c.qty \in Nat /\ c.rows \in Nat
  BY <1>1, EnvelopesAssumption DEF ChildRecord
<1>6. /\ v \in {"SUBMITTING", "SUBMITTED"}
      /\ w = IF v = "SUBMITTING" THEN "unresolved" ELSE "none"
  BY <1>1, <1>2, <1>5, EnvelopesAssumption DEF ChildRecord, ChildStatus
<1> HIDE DEF c, v, w
<1>7. r \in ChildRecord
  BY <1>1, <1>6 DEF ChildRecord, ChildStatus
<1>8. /\ r.st = v /\ r.rec = w
      /\ r.env = c.env /\ r.qty = c.qty /\ r.rep = c.rep /\ r.venue = c.venue
      /\ r.exec = c.exec /\ r.rows = c.rows /\ r.ev = c.ev /\ r.attr = c.attr
  BY <1>1, <1>6 DEF ChildRecord
<1> HIDE DEF r
<1>9. Moves(c, r)
  <2> HIDE DEF c
  <2> QED BY <1>1, <1>2, <1>5, <1>6, <1>8
           DEF Moves, Dead, Sound, Sent, VenueOpen
<1> QED BY <1>1, <1>3, <1>4, <1>7, <1>9, DoneStep DEF c

\* A refused child is over.
LEMMA ReplyRejectedKeeps == ASSUME IInv, ReplyRejected PROVE IInv'
<1> DEFINE o == loop.o
<1>0. /\ o \in Ids /\ child[o].st = "SUBMITTING" /\ child[o].rec = "none"
      /\ loop.pc = "claimed" => child[o].venue = "absent"
  BY DEF IInv, LoopIsSound, ReplyRejected
<1> HIDE DEF o
<1> DEFINE c == child[o]
           r == [c EXCEPT !.st = "TERMINAL"]
<1>1. o \in Ids /\ child \in [Ids -> ChildRecord] /\ c \in ChildRecord /\ Sound(c)
  BY <1>0 DEF IInv, TypeOK, ChildrenAreSound
<1>2. c.st = "SUBMITTING" /\ c.rec = "none" /\ c.venue = "refused"
  BY <1>0, <1>1 DEF ReplyRejected, o
<1>3. /\ child' = [child EXCEPT ![o] = r] /\ env' = env
      /\ intent' = Owner(env', child')
      /\ UNCHANGED <<latched, direct, halted>> /\ loop' = Idle
  BY <1>0, <1>1 DEF ReplyRejected, Write, o
<1>4. commands' \in 0 .. MaxCommands /\ faults' \in 0 .. MaxFaults
  BY Counted DEF ReplyRejected, IInv, TypeOK
<1>5. c.exec \in Nat /\ c.qty \in Nat /\ c.rows \in Nat
  BY <1>1, EnvelopesAssumption DEF ChildRecord
<1>7. r \in ChildRecord
  BY <1>1 DEF ChildRecord, ChildStatus
<1>8. /\ r.st = "TERMINAL"
      /\ r.env = c.env /\ r.qty = c.qty /\ r.rep = c.rep /\ r.rec = c.rec
      /\ r.venue = c.venue /\ r.exec = c.exec /\ r.rows = c.rows
      /\ r.ev = c.ev /\ r.attr = c.attr
  BY <1>1 DEF ChildRecord
<1> HIDE DEF r
<1>9. Moves(c, r)
  <2> HIDE DEF c
  <2> QED BY <1>1, <1>2, <1>5, <1>8
           DEF Moves, Dead, Sound, Sent, VenueOpen
<1> QED BY <1>1, <1>3, <1>4, <1>7, <1>9, DoneStep

\* A call without an answer quarantines the child.
LEMMA ReplyAmbiguousKeeps == ASSUME IInv, ReplyAmbiguous PROVE IInv'
<1> DEFINE o == loop.o
<1>0. /\ o \in Ids /\ child[o].st = "SUBMITTING" /\ child[o].rec = "none"
      /\ loop.pc = "claimed" => child[o].venue = "absent"
  BY DEF IInv, LoopIsSound, ReplyAmbiguous
<1> HIDE DEF o
<1> DEFINE c == child[o]
           r == [c EXCEPT !.st = "TIMEOUT_QUARANTINE"]
<1>1. o \in Ids /\ child \in [Ids -> ChildRecord] /\ c \in ChildRecord /\ Sound(c)
  BY <1>0 DEF IInv, TypeOK, ChildrenAreSound
<1>2. c.st = "SUBMITTING" /\ c.rec = "none"
  BY <1>0, <1>1 DEF ReplyAmbiguous, o
<1>3. /\ child' = [child EXCEPT ![o] = r] /\ env' = env
      /\ intent' = Owner(env', child')
      /\ UNCHANGED <<latched, direct, halted>> /\ loop' = Idle
  BY <1>0, <1>1 DEF ReplyAmbiguous, Write, o
<1>4. commands' \in 0 .. MaxCommands /\ faults' \in 0 .. MaxFaults
  BY Counted DEF ReplyAmbiguous, IInv, TypeOK
<1>5. c.exec \in Nat /\ c.qty \in Nat /\ c.rows \in Nat
  BY <1>1, EnvelopesAssumption DEF ChildRecord
<1>7. r \in ChildRecord
  BY <1>1 DEF ChildRecord, ChildStatus
<1>8. /\ r.st = "TIMEOUT_QUARANTINE"
      /\ r.env = c.env /\ r.qty = c.qty /\ r.rep = c.rep /\ r.rec = c.rec
      /\ r.venue = c.venue /\ r.exec = c.exec /\ r.rows = c.rows
      /\ r.ev = c.ev /\ r.attr = c.attr
  BY <1>1 DEF ChildRecord
<1> HIDE DEF r
<1>9. Moves(c, r)
  <2> HIDE DEF c
  <2> QED BY <1>1, <1>2, <1>5, <1>8
           DEF Moves, Dead, Sound, Sent, VenueOpen
<1> QED BY <1>1, <1>3, <1>4, <1>7, <1>9, DoneStep

\* A claim nobody works any more is quarantined.
LEMMA QuarantineStaleKeeps == ASSUME IInv, NEW o \in Ids, QuarantineStale(o) PROVE IInv'
<1> DEFINE c == child[o]
           r == [c EXCEPT !.st = "TIMEOUT_QUARANTINE"]
<1>1. child \in [Ids -> ChildRecord] /\ c \in ChildRecord /\ Sound(c)
  BY DEF IInv, TypeOK, ChildrenAreSound
<1>2. c.st = "SUBMITTING" /\ c.rec = "none" /\ loop.pc = "idle"
  BY <1>1 DEF QuarantineStale
<1>3. /\ child' = [child EXCEPT ![o] = r] /\ env' = env
      /\ intent' = Owner(env', child')
      /\ UNCHANGED <<latched, direct, halted, loop>>
  BY <1>1 DEF QuarantineStale, Write
<1>4. commands' \in 0 .. MaxCommands /\ faults' \in 0 .. MaxFaults
  BY Counted DEF QuarantineStale, IInv, TypeOK
<1>5. c.exec \in Nat /\ c.qty \in Nat /\ c.rows \in Nat
  BY <1>1, EnvelopesAssumption DEF ChildRecord
<1>7. r \in ChildRecord
  BY <1>1 DEF ChildRecord, ChildStatus
<1>8. /\ r.st = "TIMEOUT_QUARANTINE"
      /\ r.env = c.env /\ r.qty = c.qty /\ r.rep = c.rep /\ r.rec = c.rec
      /\ r.venue = c.venue /\ r.exec = c.exec /\ r.rows = c.rows
      /\ r.ev = c.ev /\ r.attr = c.attr
  BY <1>1 DEF ChildRecord
<1> HIDE DEF r
<1>9. Moves(c, r) /\ (loop.pc = "idle" \/ Unnoticed(c, r))
  <2> HIDE DEF c
  <2> QED BY <1>1, <1>2, <1>5, <1>8
           DEF Moves, Unnoticed, Dead, Sound, Sent, VenueOpen
<1> QED BY <1>1, <1>3, <1>4, <1>7, <1>9, UnnoticedStep

\* A quarantined child is found working, found over, or never landed.
LEMMA ResolveQuarantineKeeps == ASSUME IInv, NEW o \in Ids, ResolveQuarantine(o) PROVE IInv'
<1> DEFINE c == child[o]
           v == IF c.venue = "live" \/ (c.venue = "done" /\ c.exec > 0)
                THEN "SUBMITTED" ELSE "TERMINAL"
           r == [c EXCEPT !.st = v]
<1>1. child \in [Ids -> ChildRecord] /\ c \in ChildRecord /\ Sound(c)
  BY DEF IInv, TypeOK, ChildrenAreSound
<1>2. c.st = "TIMEOUT_QUARANTINE" /\ c.venue # "flying" /\ loop.pc = "idle"
  BY <1>1 DEF ResolveQuarantine
<1>3. /\ child' = [child EXCEPT ![o] = r] /\ env' = env
      /\ intent' = Owner(env', child')
      /\ UNCHANGED <<latched, direct, halted, loop>>
  BY <1>1 DEF ResolveQuarantine, Write
<1>4. commands' \in 0 .. MaxCommands /\ faults' \in 0 .. MaxFaults
  BY Counted DEF ResolveQuarantine, IInv, TypeOK
<1>5. c.exec \in Nat /\ c.qty \in Nat /\ c.rows \in Nat
  BY <1>1, EnvelopesAssumption DEF ChildRecord
<1>6. /\ \/ v = "SUBMITTED" /\ c.venue \in {"live", "done"}
         \/ v = "TERMINAL" /\ c.venue # "live"
  BY <1>1, <1>2, <1>5, EnvelopesAssumption DEF ChildRecord, ChildStatus
<1> HIDE DEF c, v
<1>7. r \in ChildRecord
  BY <1>1, <1>6 DEF ChildRecord, ChildStatus
<1>8. /\ r.st = v
      /\ r.env = c.env /\ r.qty = c.qty /\ r.rep = c.rep /\ r.rec = c.rec
      /\ r.venue = c.venue /\ r.exec = c.exec /\ r.rows = c.rows
      /\ r.ev = c.ev /\ r.attr = c.attr
  BY <1>1, <1>6 DEF ChildRecord
<1> HIDE DEF r
<1>9. Moves(c, r) /\ (loop.pc = "idle" \/ Unnoticed(c, r))
  <2> HIDE DEF c
  <2> QED BY <1>1, <1>2, <1>5, <1>6, <1>8
           DEF Moves, Unnoticed, Dead, Sound, Sent, VenueOpen
<1> QED BY <1>1, <1>3, <1>4, <1>7, <1>9, UnnoticedStep DEF c

\* An unowned broker order goes to review once it executed, and is cancelled otherwise.
LEMMA RecoverSubmitKeeps == ASSUME IInv, NEW o \in Ids, RecoverSubmit(o) PROVE IInv'
<1>1. CASE Write(env, [child EXCEPT ![o].rec = "needs_review"])
  <2> DEFINE c == child[o]
             r == [c EXCEPT !.rec = "needs_review"]
  <2>1. child \in [Ids -> ChildRecord] /\ c \in ChildRecord /\ Sound(c)
    BY DEF IInv, TypeOK, ChildrenAreSound
  <2>2. c.rec = "unresolved" /\ loop.pc = "idle"
    BY <1>1, <2>1 DEF RecoverSubmit
  <2>3. /\ child' = [child EXCEPT ![o] = r] /\ env' = env
        /\ intent' = Owner(env', child')
        /\ UNCHANGED <<latched, direct, halted, loop>>
    BY <1>1, <2>1 DEF RecoverSubmit, Write
  <2>4. commands' \in 0 .. MaxCommands /\ faults' \in 0 .. MaxFaults
    BY Counted DEF RecoverSubmit, IInv, TypeOK
  <2>5. c.exec \in Nat /\ c.qty \in Nat /\ c.rows \in Nat
    BY <2>1, EnvelopesAssumption DEF ChildRecord
  <2>7. r \in ChildRecord
    BY <2>1 DEF ChildRecord, ChildStatus
  <2>8. /\ r.rec = "needs_review"
        /\ r.env = c.env /\ r.qty = c.qty /\ r.rep = c.rep /\ r.st = c.st
        /\ r.venue = c.venue /\ r.exec = c.exec /\ r.rows = c.rows
        /\ r.ev = c.ev /\ r.attr = c.attr
    BY <2>1 DEF ChildRecord
  <2> HIDE DEF r
  <2>9. Moves(c, r) /\ (loop.pc = "idle" \/ Unnoticed(c, r))
    <3> HIDE DEF c
    <3> QED BY <2>1, <2>2, <2>5, <2>8
             DEF Moves, Unnoticed, Dead, Sound, Sent, VenueOpen
  <2> QED BY <2>1, <2>3, <2>4, <2>7, <2>9, UnnoticedStep
<1>2. CASE /\ child[o].exec = 0 /\ child[o].venue \in {"live", "done"}
           /\ Write(env, [child EXCEPT ![o] =
                         [@ EXCEPT !.venue = "done", !.rec = "none", !.st = "TERMINAL"]])
  <2> DEFINE c == child[o]
             r == [c EXCEPT !.venue = "done", !.rec = "none", !.st = "TERMINAL"]
  <2>1. child \in [Ids -> ChildRecord] /\ c \in ChildRecord /\ Sound(c)
    BY DEF IInv, TypeOK, ChildrenAreSound
  <2>2. c.rec = "unresolved" /\ c.exec = 0 /\ loop.pc = "idle"
    BY <1>2, <2>1 DEF RecoverSubmit
  <2>3. /\ child' = [child EXCEPT ![o] = r] /\ env' = env
        /\ intent' = Owner(env', child')
        /\ UNCHANGED <<latched, direct, halted, loop>>
    BY <1>2, <2>1 DEF RecoverSubmit, Write
  <2>4. commands' \in 0 .. MaxCommands /\ faults' \in 0 .. MaxFaults
    BY Counted DEF RecoverSubmit, IInv, TypeOK
  <2>5. c.exec \in Nat /\ c.qty \in Nat /\ c.rows \in Nat
    BY <2>1, EnvelopesAssumption DEF ChildRecord
  <2>7. r \in ChildRecord
    BY <2>1 DEF ChildRecord, ChildStatus
  <2>8. /\ r.venue = "done" /\ r.rec = "none" /\ r.st = "TERMINAL"
        /\ r.env = c.env /\ r.qty = c.qty /\ r.rep = c.rep /\ r.exec = c.exec
        /\ r.rows = c.rows /\ r.ev = c.ev /\ r.attr = c.attr
    BY <2>1 DEF ChildRecord
  <2> HIDE DEF r
  <2>9. Moves(c, r) /\ (loop.pc = "idle" \/ Unnoticed(c, r))
    <3> HIDE DEF c
    <3> QED BY <2>1, <2>2, <2>5, <2>8
             DEF Moves, Unnoticed, Dead, Sound, Sent, VenueOpen
  <2> QED BY <2>1, <2>3, <2>4, <2>7, <2>9, UnnoticedStep
<1> QED BY <1>1, <1>2 DEF RecoverSubmit

\* A child is over once the venue ended it, or all of it was recorded.
LEMMA PollSettleKeeps == ASSUME IInv, PollSettle PROVE IInv'
<1> DEFINE o == loop.o
<1>0. o \in Ids /\ VenueOpen(child[o]) /\ (loop.ended => child[o].venue = "done")
  BY DEF IInv, LoopIsSound, PollSettle
<1> HIDE DEF o
<1> DEFINE c == child[o]
           v == IF loop.ended \/ c.rows >= c.qty THEN "TERMINAL" ELSE c.st
           r == [c EXCEPT !.st = v]
<1>1. o \in Ids /\ child \in [Ids -> ChildRecord] /\ c \in ChildRecord /\ Sound(c)
  BY <1>0 DEF IInv, TypeOK, ChildrenAreSound
<1>2. VenueOpen(c) /\ (loop.ended => c.venue = "done")
  BY <1>0, <1>1 DEF PollSettle, o
<1>3. /\ child' = [child EXCEPT ![o] = r] /\ env' = env
      /\ intent' = Owner(env', child')
      /\ UNCHANGED <<latched, direct, halted>> /\ loop' = Idle
  BY <1>0, <1>1 DEF PollSettle, Write, o
<1>4. commands' \in 0 .. MaxCommands /\ faults' \in 0 .. MaxFaults
  BY Counted DEF PollSettle, IInv, TypeOK
<1>5. c.exec \in Nat /\ c.qty \in Nat /\ c.rows \in Nat
  BY <1>1, EnvelopesAssumption DEF ChildRecord
<1>6. /\ v = c.st \/ (v = "TERMINAL" /\ (c.venue = "done" \/ c.rows >= c.qty))
      /\ v \in ChildStatus
  BY <1>1, <1>2, <1>5, EnvelopesAssumption DEF ChildRecord, ChildStatus
<1> HIDE DEF c, v
<1>7. r \in ChildRecord
  BY <1>1, <1>6 DEF ChildRecord, ChildStatus
<1>8. /\ r.st = v
      /\ r.env = c.env /\ r.qty = c.qty /\ r.rep = c.rep /\ r.rec = c.rec
      /\ r.venue = c.venue /\ r.exec = c.exec /\ r.rows = c.rows
      /\ r.ev = c.ev /\ r.attr = c.attr
  BY <1>1, <1>6 DEF ChildRecord
<1> HIDE DEF r
<1>9. Moves(c, r)
  <2> HIDE DEF c
  <2> QED BY <1>1, <1>2, <1>5, <1>6, <1>8
           DEF Moves, Dead, Sound, Sent, VenueOpen
<1> QED BY <1>1, <1>3, <1>4, <1>7, <1>9, DoneStep DEF c

\* A refused submit is not at the venue.
LEMMA VenueRefusesKeeps == ASSUME IInv, NEW o \in Ids, VenueRefuses(o) PROVE IInv'
<1> DEFINE c == child[o]
           r == [c EXCEPT !.venue = "refused"]
<1>1. child \in [Ids -> ChildRecord] /\ c \in ChildRecord /\ Sound(c)
  BY DEF IInv, TypeOK, ChildrenAreSound
<1>2. c.venue = "flying"
  BY <1>1 DEF VenueRefuses
<1>3. /\ child' = [child EXCEPT ![o] = r] /\ env' = env
      /\ intent' = intent
      /\ UNCHANGED <<latched, direct, halted, loop>>
  BY <1>1 DEF VenueRefuses, Write
<1>4. commands' \in 0 .. MaxCommands /\ faults' \in 0 .. MaxFaults
  BY Counted DEF VenueRefuses, IInv, TypeOK
<1>5. c.exec \in Nat /\ c.qty \in Nat /\ c.rows \in Nat
  BY <1>1, EnvelopesAssumption DEF ChildRecord
<1>7. r \in ChildRecord
  BY <1>1 DEF ChildRecord, ChildStatus
<1>8. /\ r.venue = "refused"
      /\ r.env = c.env /\ r.qty = c.qty /\ r.rep = c.rep /\ r.st = c.st
      /\ r.rec = c.rec /\ r.exec = c.exec /\ r.rows = c.rows /\ r.ev = c.ev
      /\ r.attr = c.attr
  BY <1>1 DEF ChildRecord
<1> HIDE DEF r
<1>9. Moves(c, r) /\ (loop.pc = "idle" \/ Unnoticed(c, r))
  <2> HIDE DEF c
  <2> QED BY <1>1, <1>2, <1>5, <1>8
           DEF Moves, Unnoticed, Dead, Sound, Sent, VenueOpen
<1> QED BY <1>1, <1>3, <1>4, <1>7, <1>9, UnnoticedStep

\* The venue takes an order in flight, beside the one it replaces.
LEMMA VenueTakesKeeps == ASSUME IInv, NEW o \in Ids, VenueTakes(o) PROVE IInv'
<1> DEFINE c == child[o]
           r == [c EXCEPT !.venue = "live"]
<1>1. child \in [Ids -> ChildRecord] /\ c \in ChildRecord /\ Sound(c)
  BY DEF IInv, TypeOK, ChildrenAreSound
<1>2. c.venue = "flying"
  BY <1>1 DEF VenueTakes
<1>3. /\ child' = [child EXCEPT ![o] = r] /\ env' = env
      /\ intent' = intent
      /\ UNCHANGED <<latched, direct, halted, loop>>
  BY <1>1 DEF VenueTakes, Write
<1>4. commands' \in 0 .. MaxCommands /\ faults' \in 0 .. MaxFaults
  BY Counted DEF VenueTakes, IInv, TypeOK
<1>5. c.exec \in Nat /\ c.qty \in Nat /\ c.rows \in Nat
  BY <1>1, EnvelopesAssumption DEF ChildRecord
<1>7. r \in ChildRecord
  BY <1>1 DEF ChildRecord, ChildStatus
<1>8. /\ r.venue = "live"
      /\ r.env = c.env /\ r.qty = c.qty /\ r.rep = c.rep /\ r.st = c.st
      /\ r.rec = c.rec /\ r.exec = c.exec /\ r.rows = c.rows /\ r.ev = c.ev
      /\ r.attr = c.attr
  BY <1>1 DEF ChildRecord
<1> HIDE DEF r
<1>9. Moves(c, r) /\ (loop.pc = "idle" \/ Unnoticed(c, r))
  <2> HIDE DEF c
  <2> QED BY <1>1, <1>2, <1>5, <1>8
           DEF Moves, Unnoticed, Dead, Sound, Sent, VenueOpen
<1> QED BY <1>1, <1>3, <1>4, <1>7, <1>9, UnnoticedStep

\* The venue ends an order.
LEMMA VenueEndsKeeps == ASSUME IInv, NEW o \in Ids, VenueEnds(o) PROVE IInv'
<1> DEFINE c == child[o]
           r == [c EXCEPT !.venue = "done"]
<1>1. child \in [Ids -> ChildRecord] /\ c \in ChildRecord /\ Sound(c)
  BY DEF IInv, TypeOK, ChildrenAreSound
<1>2. c.venue = "live"
  BY <1>1 DEF VenueEnds
<1>3. /\ child' = [child EXCEPT ![o] = r] /\ env' = env
      /\ intent' = intent
      /\ UNCHANGED <<latched, direct, halted, loop>>
  BY <1>1 DEF VenueEnds, Write
<1>4. commands' \in 0 .. MaxCommands /\ faults' \in 0 .. MaxFaults
  BY Counted DEF VenueEnds, IInv, TypeOK
<1>5. c.exec \in Nat /\ c.qty \in Nat /\ c.rows \in Nat
  BY <1>1, EnvelopesAssumption DEF ChildRecord
<1>7. r \in ChildRecord
  BY <1>1 DEF ChildRecord, ChildStatus
<1>8. /\ r.venue = "done"
      /\ r.env = c.env /\ r.qty = c.qty /\ r.rep = c.rep /\ r.st = c.st
      /\ r.rec = c.rec /\ r.exec = c.exec /\ r.rows = c.rows /\ r.ev = c.ev
      /\ r.attr = c.attr
  BY <1>1 DEF ChildRecord
<1> HIDE DEF r
<1>9. Moves(c, r) /\ (loop.pc = "idle" \/ Unnoticed(c, r))
  <2> HIDE DEF c
  <2> QED BY <1>1, <1>2, <1>5, <1>8
           DEF Moves, Unnoticed, Dead, Sound, Sent, VenueOpen
<1> QED BY <1>1, <1>3, <1>4, <1>7, <1>9, UnnoticedStep

\* The venue executes a share, and ends the order with the last one.
LEMMA VenueFillsKeeps == ASSUME IInv, NEW o \in Ids, VenueFills(o) PROVE IInv'
<1> DEFINE c == child[o]
           x == c.exec + 1
           v == IF c.exec + 1 = c.qty THEN "done" ELSE c.venue
           r == [c EXCEPT !.exec = x, !.venue = v]
<1>1. child \in [Ids -> ChildRecord] /\ c \in ChildRecord /\ Sound(c)
  BY DEF IInv, TypeOK, ChildrenAreSound
<1>2. c.venue = "live" /\ c.exec < c.qty
  BY <1>1 DEF VenueFills
<1>3. /\ child' = [child EXCEPT ![o] = r] /\ env' = env
      /\ intent' = intent
      /\ UNCHANGED <<latched, direct, halted, loop>>
  BY <1>1 DEF VenueFills, Write
<1>4. commands' \in 0 .. MaxCommands /\ faults' \in 0 .. MaxFaults
  BY Counted DEF VenueFills, IInv, TypeOK
<1>5. c.exec \in Nat /\ c.qty \in Nat /\ c.rows \in Nat
  BY <1>1, EnvelopesAssumption DEF ChildRecord
<1>6. /\ x = c.exec + 1 /\ x \in 0 .. Held
      /\ v = "done" \/ (v = "live" /\ x # c.qty)
  BY <1>1, <1>2, <1>5, EnvelopesAssumption DEF ChildRecord, ChildStatus
<1> HIDE DEF c, x, v
<1>7. r \in ChildRecord
  BY <1>1, <1>6 DEF ChildRecord, ChildStatus
<1>8. /\ r.exec = x /\ r.venue = v
      /\ r.env = c.env /\ r.qty = c.qty /\ r.rep = c.rep /\ r.st = c.st
      /\ r.rec = c.rec /\ r.rows = c.rows /\ r.ev = c.ev /\ r.attr = c.attr
  BY <1>1, <1>6 DEF ChildRecord
<1> HIDE DEF r
<1>9. Moves(c, r) /\ (loop.pc = "idle" \/ Unnoticed(c, r))
  <2> HIDE DEF c
  <2> QED BY <1>1, <1>2, <1>5, <1>6, <1>8
           DEF Moves, Unnoticed, Dead, Sound, Sent, VenueOpen
<1> QED BY <1>1, <1>3, <1>4, <1>7, <1>9, UnnoticedStep DEF c

-----------------------------------------------------------------------------
(* Decisions that end an envelope, and the cancel of its working orders *)

\* A size the position no longer covers freezes the envelope.
LEMMA StageDivergesKeeps == ASSUME IInv, NEW e \in Envs, StageDiverges(e) PROVE IInv'
<1>1. /\ env' = [env EXCEPT ![e].st = "FROZEN"] /\ child' = child
      /\ intent' = Owner(env', child') /\ UNCHANGED <<latched, loop, direct, halted, faults, commands>>
      /\ TypeOK
  BY DEF StageDiverges, Write, IInv
<1>2. env' \in [Envs -> EnvRecord] /\ \A d \in Envs : SameMandate(env[d], env'[d])
  BY <1>1, StatusOnly DEF EnvStatus
<1>3. halted' \in BOOLEAN /\ faults' \in 0 .. MaxFaults /\ commands' \in 0 .. MaxCommands
  BY <1>1 DEF TypeOK
<1> QED BY <1>1, <1>2, <1>3, StatusStep

\* A failed pass freezes its envelope.
LEMMA FreezeOnErrorKeeps == ASSUME IInv, NEW e \in Envs, FreezeOnError(e) PROVE IInv'
<1>1. /\ env' = [env EXCEPT ![e].st = "FROZEN"] /\ child' = child
      /\ intent' = Owner(env', child') /\ UNCHANGED <<latched, loop, direct, halted, commands>>
      /\ TypeOK /\ faults' \in 0 .. MaxFaults
  BY Counted DEF FreezeOnError, Write, IInv
<1>2. env' \in [Envs -> EnvRecord] /\ \A d \in Envs : SameMandate(env[d], env'[d])
  BY <1>1, StatusOnly DEF EnvStatus
<1>3. halted' \in BOOLEAN /\ commands' \in 0 .. MaxCommands
  BY <1>1 DEF TypeOK
<1> QED BY <1>1, <1>2, <1>3, StatusStep

\* A decision ends the envelope and drops its staged child.
LEMMA ConcludeKeeps == ASSUME IInv, NEW e \in Envs, Conclude(e) PROVE IInv'
<1>1. PICK s \in {"EXPIRED", "BREACHED", "EXHAUSTED"}, w \in BOOLEAN :
        Write([env EXCEPT ![e].st = s, ![e].wind = w], CancelStaged(child, {e}, {}))
  BY DEF Conclude
<1>2. /\ env' = [env EXCEPT ![e].st = s, ![e].wind = w]
      /\ child' = CancelStaged(child, {e}, {}) /\ intent' = Owner(env', child')
  BY <1>1 DEF Write
<1>3. /\ UNCHANGED <<latched, loop, direct>> /\ TypeOK /\ halted' \in BOOLEAN
      /\ faults' \in 0 .. MaxFaults /\ commands' \in 0 .. MaxCommands
  BY DEF Conclude, IInv, TypeOK
<1>4. env' \in [Envs -> EnvRecord] /\ \A d \in Envs : SameMandate(env[d], env'[d])
  BY <1>2, <1>3 DEF TypeOK, EnvRecord, EnvStatus, SameMandate
<1> QED BY <1>2, <1>3, <1>4, StatusStep

\* A step of the loop that moves any number of children.
LEMMA ChildrenStep ==
  ASSUME IInv, child' \in [Ids -> ChildRecord], \A o \in Ids : Moves(child[o], child'[o]),
         env' = env, intent' = Owner(env', child') \/ intent' = intent,
         UNCHANGED <<latched, direct, halted>>, loop' \in LoopRecord, ~loop'.ended,
         loop'.pc \in {"idle", "wind", "cancel"},
         commands' \in 0 .. MaxCommands, faults' \in 0 .. MaxFaults
  PROVE  IInv'
<1>1. intent' \in {"PENDING", "APPROVED", "EXPIRED"}
  BY DEF IInv, TypeOK, Owner
<1>2. TypeOK'
  BY <1>1 DEF IInv, TypeOK
<1>3. LoopIsSound'
  BY DEF LoopIsSound
<1>4. \A e \in Envs : SameMandate(env[e], env'[e])
  BY DEF SameMandate
<1> QED BY <1>2, <1>3, <1>4, PlainStep

\* The cancel request is persisted first.
LEMMA WindStartKeeps == ASSUME IInv, NEW e \in Envs, WindStart(e) PROVE IInv'
<1> DEFINE t == WindTargets(e)
<1>1. /\ child' = [o \in Ids |-> IF o \in t THEN [child[o] EXCEPT !.req = TRUE] ELSE child[o]]
      /\ UNCHANGED <<env, intent, latched, direct, halted>>
      /\ loop' = [Idle EXCEPT !.pc = "wind", !.todo = t]
      /\ commands' \in 0 .. MaxCommands /\ faults' \in 0 .. MaxFaults
  BY DEF WindStart, IInv, TypeOK
<1>2. t \subseteq Ids
  BY DEF WindTargets, Unresolved, Kids
<1> HIDE DEF t
<1>3. child \in [Ids -> ChildRecord] /\ \A o \in Ids : Sound(child[o])
  BY DEF IInv, TypeOK, ChildrenAreSound
<1>4. ASSUME NEW o \in Ids PROVE child'[o] \in ChildRecord /\ Moves(child[o], child'[o])
  <2> DEFINE c == child[o]
             r == [c EXCEPT !.req = TRUE]
  <2>1. c \in ChildRecord /\ Sound(c) /\ (child'[o] = c \/ child'[o] = r)
    BY <1>1, <1>3
  <2> HIDE DEF c
  <2>2. r \in ChildRecord
    BY <2>1 DEF ChildRecord
  <2>3. /\ r.env = c.env /\ r.qty = c.qty /\ r.rep = c.rep /\ r.rec = c.rec /\ r.st = c.st
        /\ r.venue = c.venue /\ r.exec = c.exec /\ r.rows = c.rows /\ r.ev = c.ev
        /\ r.attr = c.attr
    BY <2>1 DEF ChildRecord
  <2> HIDE DEF r
  <2>4. Moves(c, r)
    BY <2>1, <2>3 DEF Moves, Dead, Sound
  <2> QED BY <2>1, <2>2, <2>4, StaysMoves DEF c
<1>5. child' \in [Ids -> ChildRecord]
  BY <1>1, <1>4
<1>6. loop' \in LoopRecord /\ loop'.pc = "wind" /\ ~loop'.ended
  <2>1. loop' = [Idle EXCEPT !.pc = "wind", !.todo = t]
    BY <1>1
  <2>2. loop' = [pc |-> "wind", o |-> 0, level |-> 0, ended |-> FALSE, todo |-> t]
    BY <2>1 DEF Idle
  <2> QED BY <1>2, <2>2, EnvelopesAssumption DEF LoopRecord
<1> QED BY <1>1, <1>4, <1>5, <1>6, ChildrenStep

\* The local cancels, the escalations and the durable attempts.
LEMMA WindPrepareKeeps == ASSUME IInv, WindPrepare PROVE IInv'
<1> DEFINE C == [o \in Ids |->
                   IF o \notin loop.todo THEN child[o]
                   ELSE CASE child[o].st = "CREATED" -> [child[o] EXCEPT !.st = "TERMINAL"]
                          [] Escalated(child[o]) -> [child[o] EXCEPT !.rec = "needs_review"]
                          [] Attempted(child[o]) -> [child[o] EXCEPT !.tries = @ + 1]
                          [] OTHER -> child[o]]
           t == {o \in loop.todo : Attempted(child[o])}
<1>1. /\ child' = C /\ env' = env /\ intent' = Owner(env', child')
      /\ loop' = [loop EXCEPT !.pc = "cancel", !.todo = t]
      /\ UNCHANGED <<latched, direct, halted>>
  BY DEF WindPrepare, Write
<1>2. commands' \in 0 .. MaxCommands /\ faults' \in 0 .. MaxFaults
  BY DEF WindPrepare, IInv, TypeOK
<1>3. child \in [Ids -> ChildRecord] /\ (\A o \in Ids : Sound(child[o])) /\ loop \in LoopRecord
  BY DEF IInv, TypeOK, ChildrenAreSound
<1>4. t \subseteq Ids
  BY <1>3 DEF LoopRecord
<1>5. ASSUME NEW o \in Ids PROVE C[o] \in ChildRecord /\ Moves(child[o], C[o])
  <2> DEFINE c == child[o]
  <2>1. c \in ChildRecord /\ Sound(c) /\ c.exec \in Nat /\ c.tries \in Nat
    BY <1>3, EnvelopesAssumption DEF ChildRecord
  <2>2. \/ C[o] = c
        \/ c.st = "CREATED" /\ C[o] = [c EXCEPT !.st = "TERMINAL"]
        \/ c.st = "SUBMITTED" /\ C[o] = [c EXCEPT !.rec = "needs_review"]
        \/ c.st = "SUBMITTED" /\ c.tries < CancelLimit /\ C[o] = [c EXCEPT !.tries = @ + 1]
    BY DEF Escalated, Attempted
  <2> HIDE DEF c, C
  <2>3. CASE C[o] = c
    BY <2>1, <2>3, StaysMoves DEF c
  <2>4. CASE c.st = "CREATED" /\ C[o] = [c EXCEPT !.st = "TERMINAL"]
    <3> DEFINE r == [c EXCEPT !.st = "TERMINAL"]
    <3>1. r \in ChildRecord
      BY <2>1 DEF ChildRecord, ChildStatus
    <3>2. /\ r.env = c.env /\ r.qty = c.qty /\ r.rep = c.rep /\ r.rec = c.rec
          /\ r.st = "TERMINAL" /\ r.venue = c.venue /\ r.exec = c.exec /\ r.rows = c.rows
          /\ r.ev = c.ev /\ r.attr = c.attr
      BY <2>1 DEF ChildRecord
    <3> HIDE DEF r
    <3>3. Moves(c, r)
      BY <2>1, <2>4, <3>2 DEF Moves, Dead, Sound
    <3> QED BY <2>4, <3>1, <3>3 DEF c, r
  <2>5. CASE c.st = "SUBMITTED" /\ C[o] = [c EXCEPT !.rec = "needs_review"]
    <3> DEFINE r == [c EXCEPT !.rec = "needs_review"]
    <3>1. r \in ChildRecord
      BY <2>1 DEF ChildRecord
    <3>2. /\ r.env = c.env /\ r.qty = c.qty /\ r.rep = c.rep /\ r.rec = "needs_review"
          /\ r.st = c.st /\ r.venue = c.venue /\ r.exec = c.exec /\ r.rows = c.rows
          /\ r.ev = c.ev /\ r.attr = c.attr
      BY <2>1 DEF ChildRecord
    <3> HIDE DEF r
    <3>3. Moves(c, r)
      BY <2>1, <2>5, <3>2 DEF Moves, Dead, Sound
    <3> QED BY <2>5, <3>1, <3>3 DEF c, r
  <2>6. CASE c.st = "SUBMITTED" /\ c.tries < CancelLimit /\ C[o] = [c EXCEPT !.tries = @ + 1]
    <3> DEFINE k == c.tries + 1
               r == [c EXCEPT !.tries = k]
    <3>0. k \in 0 .. CancelLimit /\ C[o] = r
      BY <2>1, <2>6, EnvelopesAssumption DEF ChildRecord
    <3> HIDE DEF k
    <3>1. r \in ChildRecord
      BY <2>1, <3>0 DEF ChildRecord
    <3>2. /\ r.env = c.env /\ r.qty = c.qty /\ r.rep = c.rep /\ r.rec = c.rec
          /\ r.st = c.st /\ r.venue = c.venue /\ r.exec = c.exec /\ r.rows = c.rows
          /\ r.ev = c.ev /\ r.attr = c.attr
      BY <2>1 DEF ChildRecord
    <3> HIDE DEF r
    <3>3. Moves(c, r)
      BY <2>1, <2>6, <3>2 DEF Moves, Dead, Sound
    <3> QED BY <3>0, <3>1, <3>3 DEF c
  <2> QED BY <2>2, <2>3, <2>4, <2>5, <2>6
<1>6. child' \in [Ids -> ChildRecord]
  BY <1>1, <1>5
<1>7. ~loop.ended
  BY DEF WindPrepare, IInv, LoopIsSound
<1> HIDE DEF C, t
<1>8. loop' \in LoopRecord /\ loop'.pc = "cancel" /\ ~loop'.ended
  BY <1>1, <1>3, <1>4, <1>7 DEF LoopRecord
<1>9. \A o \in Ids : Moves(child[o], child'[o])
  BY <1>1, <1>5
<1> QED BY <1>1, <1>2, <1>6, <1>8, <1>9, ChildrenStep

\* The venue's answer to a cancel.
LEMMA WindReplyKeeps == ASSUME IInv, NEW o \in Ids, WindReply(o) PROVE IInv'
<1> DEFINE c == child[o]
           s == IF c.st = "SUBMITTED" THEN "CANCEL_PENDING" ELSE c.st
           k == IF c.st = "SUBMITTED" /\ c.tries = CancelLimit THEN "needs_review" ELSE c.rec
<1>1. child \in [Ids -> ChildRecord] /\ c \in ChildRecord /\ Sound(c) /\ loop \in LoopRecord
  BY DEF IInv, TypeOK, ChildrenAreSound
<1>2. \/ Write(env, [child EXCEPT ![o] = [c EXCEPT !.st = s]])
      \/ Write(env, [child EXCEPT ![o] = [c EXCEPT !.rec = k]])
  BY <1>1 DEF WindReply
<1>3. /\ loop' = [loop EXCEPT !.todo = @ \ {o}] /\ UNCHANGED <<latched, direct, halted>>
      /\ commands' \in 0 .. MaxCommands /\ faults' \in 0 .. MaxFaults
      /\ loop.pc = "cancel" /\ ~loop.ended
  BY DEF WindReply, IInv, TypeOK, LoopIsSound
<1>4. /\ s = c.st \/ (s = "CANCEL_PENDING" /\ c.st = "SUBMITTED")
      /\ k = c.rec \/ (k = "needs_review" /\ c.st = "SUBMITTED")
      /\ s \in ChildStatus /\ k \in {"none", "unresolved", "needs_review"}
  BY <1>1 DEF ChildRecord, ChildStatus
<1>5. loop' \in LoopRecord /\ loop'.pc = "cancel" /\ ~loop'.ended
  BY <1>1, <1>3 DEF LoopRecord
<1>6. LoopIsSound'
  BY <1>5 DEF LoopIsSound
<1> HIDE DEF c, s, k
<1>7. CASE Write(env, [child EXCEPT ![o] = [c EXCEPT !.st = s]])
  <2> DEFINE r == [c EXCEPT !.st = s]
  <2>1. r \in ChildRecord
    BY <1>1, <1>4 DEF ChildRecord
  <2>2. /\ r.env = c.env /\ r.qty = c.qty /\ r.rep = c.rep /\ r.rec = c.rec
        /\ r.st = s /\ r.venue = c.venue /\ r.exec = c.exec /\ r.rows = c.rows
        /\ r.ev = c.ev /\ r.attr = c.attr
    BY <1>1 DEF ChildRecord
  <2>3. child' = [child EXCEPT ![o] = r] /\ env' = env /\ intent' = Owner(env', child')
    BY <1>7 DEF Write
  <2> HIDE DEF r
  <2>4. Moves(c, r)
    BY <1>1, <1>4, <2>2 DEF Moves, Dead, Sound, Sent
  <2> QED BY <1>3, <1>5, <1>6, <2>1, <2>3, <2>4, ChildStep DEF c
<1>8. CASE Write(env, [child EXCEPT ![o] = [c EXCEPT !.rec = k]])
  <2> DEFINE r == [c EXCEPT !.rec = k]
  <2>1. r \in ChildRecord
    BY <1>1, <1>4 DEF ChildRecord
  <2>2. /\ r.env = c.env /\ r.qty = c.qty /\ r.rep = c.rep /\ r.rec = k
        /\ r.st = c.st /\ r.venue = c.venue /\ r.exec = c.exec /\ r.rows = c.rows
        /\ r.ev = c.ev /\ r.attr = c.attr
    BY <1>1 DEF ChildRecord
  <2>3. child' = [child EXCEPT ![o] = r] /\ env' = env /\ intent' = Owner(env', child')
    BY <1>8 DEF Write
  <2> HIDE DEF r
  <2>4. Moves(c, r)
    BY <1>1, <1>4, <2>2 DEF Moves, Dead, Sound, Sent
  <2> QED BY <1>3, <1>5, <1>6, <2>1, <2>3, <2>4, ChildStep DEF c
<1> QED BY <1>2, <1>7, <1>8

\* A step that leaves both tables and ends what the loop was doing.
LEMMA IdleStep ==
  ASSUME IInv, UNCHANGED <<env, child, intent, latched, direct, halted>>, loop' = Idle,
         commands' \in 0 .. MaxCommands, faults' \in 0 .. MaxFaults
  PROVE  IInv'
<1>1. child \in [Ids -> ChildRecord] /\ \A o \in Ids : Sound(child[o])
  BY DEF IInv, TypeOK, ChildrenAreSound
<1>2. child' \in [Ids -> ChildRecord] /\ \A o \in Ids : Moves(child[o], child'[o])
  BY <1>1, StaysMoves
<1>3. loop' \in LoopRecord /\ loop'.pc = "idle" /\ ~loop'.ended
  BY EnvelopesAssumption DEF Idle, LoopRecord
<1> QED BY <1>2, <1>3, ChildrenStep

\* The end of a cancel.
LEMMA WindDoneKeeps == ASSUME IInv, WindDone PROVE IInv'
<1>1. commands' \in 0 .. MaxCommands /\ faults' \in 0 .. MaxFaults
  BY DEF WindDone, IInv, TypeOK
<1> QED BY <1>1, IdleStep DEF WindDone

\* A crash forgets what the loop was doing.
LEMMA CrashKeeps == ASSUME IInv, Crash PROVE IInv'
<1>1. commands' \in 0 .. MaxCommands /\ faults' \in 0 .. MaxFaults
  BY Counted DEF Crash, IInv, TypeOK
<1> QED BY <1>1, IdleStep DEF Crash

\* A poll reads the venue's level and whether the order is over.
LEMMA PollKeeps == ASSUME IInv, NEW o \in Ids, Poll(o) PROVE IInv'
<1> DEFINE c == child[o]
           k == IF c.exec > c.rows THEN "bridge" ELSE "settle"
           z == c.venue \in {"done", "refused"}
<1>1. /\ loop' = [Idle EXCEPT !.pc = k, !.o = o, !.level = c.exec, !.ended = z]
      /\ UNCHANGED <<env, child, intent, direct, latched, halted, commands, faults>>
      /\ VenueOpen(c)
  BY DEF Poll
<1>2. child \in [Ids -> ChildRecord] /\ c \in ChildRecord /\ Sound(c)
  BY DEF IInv, TypeOK, ChildrenAreSound
<1>3. c.exec \in 0 .. Held /\ c.rows \in 0 .. Held /\ Held \in Nat
  BY <1>2, EnvelopesAssumption DEF ChildRecord
<1>4. /\ k = "settle" \/ (k = "bridge" /\ c.rows < c.exec /\ c.exec \in Levels)
      /\ z \in BOOLEAN /\ (z => c.venue = "done")
  BY <1>1, <1>2, <1>3 DEF Levels, Sound, VenueOpen
<1>5. o \in 0 .. MaxChildren
  BY EnvelopesAssumption DEF Ids
<1> HIDE DEF c, k, z
<1>6. /\ loop' \in LoopRecord /\ loop'.pc = k /\ loop'.o = o /\ loop'.level = c.exec
      /\ loop'.ended = z
  BY <1>1, <1>3, <1>4, <1>5 DEF Idle, LoopRecord
<1>7. child'[loop'.o] = c
  BY <1>1, <1>6 DEF c
<1>8. LoopIsSound'
  BY <1>1, <1>3, <1>4, <1>6, <1>7 DEF LoopIsSound
<1>9. child' = [child EXCEPT ![o] = c]
  BY <1>1, <1>2 DEF c
<1>10. Moves(c, c)
  BY <1>2, StaysMoves
<1>11. commands' \in 0 .. MaxCommands /\ faults' \in 0 .. MaxFaults
  BY <1>1 DEF IInv, TypeOK
<1>12. loop'.pc # "claimed"
  BY <1>4, <1>6
<1>13. env' = env /\ intent' = intent /\ UNCHANGED <<latched, direct, halted>>
  BY <1>1
<1> QED BY <1>2, <1>6, <1>8, <1>9, <1>10, <1>11, <1>12, <1>13, ChildStep DEF c

-----------------------------------------------------------------------------
(* Staging, claiming and sending a child *)

\* The next free slot follows every child there is.
LEMMA NextSlot ==
  ASSUME IInv, Minted(child) < MaxChildren
  PROVE  /\ Minted(child) \in Nat /\ Minted(child) + 1 \in Ids
         /\ \A o \in Ids : child[o].st # "none" <=> o <= Minted(child)
<1>1. PICK n \in 0 .. MaxChildren : \A o \in Ids : child[o].st # "none" <=> o <= n
  BY DEF IInv, MintedInOrder
<1>2. {o \in Ids : child[o].st # "none"} = 1 .. n /\ n \in Nat
  BY <1>1, EnvelopesAssumption DEF Ids
<1>3. Cardinality(1 .. n) = n
  <2>1. 1 \in Int /\ n \in Int /\ (n = 0 => 1 .. n = {}) /\ (n # 0 => 1 <= n)
    BY <1>2
  <2>2. CASE n = 0
    BY <2>1, <2>2, FS_EmptySet
  <2>3. CASE n # 0
    BY <2>1, <2>3, FS_Interval
  <2> QED BY <2>2, <2>3
<1>4. Minted(child) = n
  BY <1>2, <1>3 DEF Minted
<1> QED BY <1>1, <1>2, <1>4, EnvelopesAssumption DEF Ids

\* A new child has no fills: every sum stays.
LEMMA NewChildFills ==
  ASSUME IInv, NEW s \in Ids, child[s].st = "none", NEW r, r.attr = {}, NEW e
  PROVE  AttributedTo([child EXCEPT ![s] = r], e) = AttributedTo(child, e)
<1> DEFINE C == [child EXCEPT ![s] = r]
           f == [o \in Ids |-> Attributed(child[o])]
           K == Kids(child, {e})
<1>1. child \in [Ids -> ChildRecord] /\ child[s].attr = {}
  BY DEF IInv, TypeOK, ChildrenAreSound, Sound
<1>2. C[s] = r /\ \A o \in Ids \ {s} : C[o] = child[o]
  BY <1>1
<1>3. Attributed(r) = 0 /\ Attributed(child[s]) = 0
  BY <1>1, SumEmpty DEF Attributed
<1>4. [o \in Ids |-> Attributed(C[o])] = f
  BY <1>2, <1>3
<1>5. /\ \A o \in Ids : child[o] \in ChildRecord
      /\ \A o \in Ids : Attributed(child[o]) \in Nat
  BY <1>1, AttributedType
<1>6. K \subseteq Ids /\ s \notin K /\ IsFiniteSet(K) /\ f[s] = 0 /\ \A o \in Ids : f[o] \in Int
  <2>1. K \subseteq Ids /\ s \notin K
    BY DEF Kids
  <2>2. IsFiniteSet(K)
    BY FiniteKids
  <2> QED BY <1>3, <1>5, <2>1, <2>2
<1>7. Kids(C, {e}) = K \/ Kids(C, {e}) = K \cup {s}
  BY <1>2 DEF Kids
<1>8. /\ AttributedTo(C, e) = SumFunctionOnSet(f, Kids(C, {e}))
      /\ AttributedTo(child, e) = SumFunctionOnSet(f, K)
  BY <1>4 DEF AttributedTo
<1> HIDE DEF f, K, C
<1>9. SumFunctionOnSet(f, K \cup {s}) = f[s] + SumFunctionOnSet(f, K)
  BY <1>6, SumInsert
<1>10. SumFunctionOnSet(f, K) \in Int
  BY <1>6, SumType
<1>11. AttributedTo(C, e) = AttributedTo(child, e)
  <2>1. SumFunctionOnSet(f, K \cup {s}) = SumFunctionOnSet(f, K)
    BY <1>6, <1>9, <1>10
  <2> QED BY <1>7, <1>8, <2>1
<1> QED BY <1>11 DEF C

\* An unused slot is a well-formed record.
LEMMA NoChildTyped ==
  /\ NoChild \in ChildRecord /\ Sound(NoChild)
  /\ NoChild.st = "none" /\ NoChild.rec = "none" /\ NoChild.venue = "absent"
  /\ NoChild.exec = 0 /\ NoChild.rows = 0 /\ NoChild.attr = {}
  /\ \A l \in Levels : NoChild.ev[l] = 0
<1>1. /\ 0 \in 0 .. MaxEnvs /\ 0 \in 0 .. Held /\ 0 \in 0 .. MaxChildren /\ 0 \in 0 .. CancelLimit
      /\ [l \in Levels |-> 0] \in [Levels -> 0 .. Held] /\ {} \in SUBSET Levels
  BY EnvelopesAssumption
<1>2. NoChild \in ChildRecord
  BY <1>1 DEF NoChild, ChildRecord, ChildStatus
<1>3. /\ NoChild.st = "none" /\ NoChild.rec = "none" /\ NoChild.venue = "absent"
      /\ NoChild.exec = 0 /\ NoChild.rows = 0 /\ NoChild.attr = {}
      /\ \A l \in Levels : NoChild.ev[l] = 0
  BY DEF NoChild
<1> QED BY <1>2, <1>3 DEF Sound

\* stage_envelope_action mints one child of an active envelope.
LEMMA StageActionKeeps ==
  ASSUME IInv, NEW e \in Envs, NEW q \in Levels, StageAction(e, q) PROVE IInv'
<1> DEFINE w == Working(e)
           p == IF w = {} THEN 0 ELSE CHOOSE o \in w : TRUE
           s == Minted(child) + 1
           r == [NoChild EXCEPT !.env = e, !.qty = q, !.rep = p, !.st = "CREATED"]
<1>1. /\ child' = [child EXCEPT ![s] = r] /\ env' = env /\ intent' = Owner(env', child')
      /\ UNCHANGED <<direct, latched, halted, loop, commands, faults>>
      /\ Minted(child) < MaxChildren /\ loop.pc = "idle" /\ direct # "live"
      /\ env[e].st = "ACTIVE"
  BY DEF StageAction, StageContext, Write
<1>2. s \in Ids /\ \A o \in Ids : child[o].st # "none" <=> o < s
  <2>1. /\ Minted(child) \in Nat /\ Minted(child) + 1 \in Ids
        /\ \A o \in Ids : child[o].st # "none" <=> o <= Minted(child)
    BY <1>1, NextSlot
  <2>2. \A o \in Ids : o <= Minted(child) <=> o < Minted(child) + 1
    BY <2>1 DEF Ids
  <2> QED BY <2>1, <2>2
<1>3. child[s].st = "none" /\ s \in Nat
  BY <1>2 DEF Ids
<1>4. p # 0 => p \in Ids /\ child[p].st # "none"
  BY DEF Working, Kids
<1>5. p \in 0 .. MaxChildren /\ p # s
  <2>1. p \in 0 .. MaxChildren
    <3> HIDE DEF p
    <3> QED BY <1>4, EnvelopesAssumption DEF Ids
  <2>2. p # s
    <3> HIDE DEF p, s
    <3> QED BY <1>2, <1>3, <1>4, EnvelopesAssumption DEF Ids
  <2> QED BY <2>1, <2>2
<1> HIDE DEF p, w, s
<1>6. /\ NoChild \in ChildRecord /\ NoChild.rec = "none" /\ NoChild.venue = "absent"
      /\ NoChild.exec = 0 /\ NoChild.rows = 0 /\ NoChild.attr = {}
      /\ \A l \in Levels : NoChild.ev[l] = 0
  BY NoChildTyped
<1>7. /\ r.env = e /\ r.qty = q /\ r.rep = p /\ r.st = "CREATED" /\ r.rec = "none"
      /\ r.venue = "absent" /\ r.exec = 0 /\ r.rows = 0 /\ r.attr = {}
      /\ \A l \in Levels : r.ev[l] = 0
  <2>1. /\ r.env = e /\ r.qty = q /\ r.rep = p /\ r.st = "CREATED" /\ r.rec = NoChild.rec
        /\ r.venue = NoChild.venue /\ r.exec = NoChild.exec /\ r.rows = NoChild.rows
        /\ r.attr = NoChild.attr /\ r.ev = NoChild.ev
    BY <1>6 DEF ChildRecord
  <2> HIDE DEF r
  <2> QED BY <1>6, <2>1
<1>8. r \in ChildRecord
  <2>1. e \in 0 .. MaxEnvs /\ q \in 0 .. Held
    BY EnvelopesAssumption DEF Envs, Levels
  <2> QED BY <1>5, <1>6, <2>1 DEF ChildRecord, ChildStatus
<1> HIDE DEF r
<1>9. /\ child \in [Ids -> ChildRecord] /\ child' \in [Ids -> ChildRecord]
      /\ child'[s] = r /\ \A o \in Ids \ {s} : child'[o] = child[o]
  BY <1>1, <1>2, <1>8 DEF IInv, TypeOK
<1>10. intent' = "APPROVED"
  <2>1. s \in Kids(child', Envs)
    BY <1>2, <1>7, <1>9 DEF Kids
  <2>2. s \in Unresolved(child', Envs)
    BY <1>7, <1>9, <2>1 DEF Unresolved
  <2> QED BY <1>1, <2>1, <2>2 DEF Owner, Linked, RetainsStrict
<1>11. TypeOK'
  BY <1>1, <1>9, <1>10 DEF IInv, TypeOK
<1>12. MintedInOrder'
  <2>1. \A o \in Ids : child'[o].st # "none" <=> o <= s
    BY <1>2, <1>3, <1>7, <1>9 DEF Ids
  <2> QED BY <1>2, <2>1, EnvelopesAssumption DEF MintedInOrder, Ids
<1>13. ChildrenAreSound'
  <2>1. 0 < q
    BY EnvelopesAssumption DEF Levels
  <2>2. Sound(r)
    BY <1>7, <2>1 DEF Sound
  <2> QED BY <1>9, <2>2 DEF IInv, ChildrenAreSound
<1>14. ChildrenAreOwned'
  <2> SUFFICES ASSUME NEW o \in Ids, child'[o].st # "none"
               PROVE  /\ child'[o].env \in Envs /\ env'[child'[o].env].st # "none"
                      /\ child'[o].rep # o
                      /\ child'[o].rep # 0 => child'[child'[o].rep].st # "none"
    BY DEF ChildrenAreOwned
  <2>1. CASE o = s
    BY <1>1, <1>4, <1>5, <1>7, <1>9, <2>1
  <2>2. CASE o # s
    <3>1. child'[o] = child[o]
      BY <1>9, <2>2
    <3>2. /\ child[o].env \in Envs /\ env[child[o].env].st # "none" /\ child[o].rep # o
          /\ child[o].rep # 0 => child[child[o].rep].st # "none"
      BY <3>1 DEF IInv, ChildrenAreOwned
    <3>3. child[o].rep # 0 => child[o].rep \in Ids
      <4>1. child[o].rep \in 0 .. MaxChildren
        BY DEF IInv, TypeOK, ChildRecord
      <4> QED BY <4>1, EnvelopesAssumption DEF Ids
    <3> QED BY <1>1, <1>3, <1>9, <3>1, <3>2, <3>3
  <2> QED BY <2>1, <2>2
<1>15. EventsAreBound'
  BY <1>7, <1>9 DEF IInv, EventsAreBound
<1>16. LoopIsSound'
  BY <1>1 DEF IInv, LoopIsSound
<1>17. ReleasedIsDead'
  BY <1>1, <1>10 DEF ReleasedIsDead
<1>18. ReplacesOnly'
  BY <1>7, <1>9 DEF IInv, ReplacesOnly, AtVenue
<1>19. ClaimMeetsOnlyItsOwn'
  BY <1>1 DEF ClaimMeetsOnlyItsOwn
<1>20. \A d \in Envs : AttributedTo(child', d) = AttributedTo(child, d)
  BY <1>1, <1>2, <1>3, <1>7, NewChildFills
<1>21. RemainingMatchesLedger' /\ OverfillIsLatched'
  BY <1>1, <1>20 DEF IInv, RemainingMatchesLedger, OverfillIsLatched
<1> QED BY <1>11, <1>12, <1>13, <1>14, <1>15, <1>16, <1>17, <1>18, <1>19, <1>21 DEF IInv

\* Whatever is at the venue when a child is claimed is the order it replaces.
LEMMA ClaimIsSole ==
  ASSUME IInv, NEW o \in Ids, ~Blocked(o, FALSE), NEW p \in Ids, AtVenue(p)
  PROVE  p = o \/ p = child[o].rep
<1> DEFINE e == child[o].env
<1>1. /\ child[p].st \in Sent /\ child[p].st # "none" /\ child[p].env \in Envs
      /\ child[p].rec \in {"none", "unresolved", "needs_review"}
  BY DEF IInv, TypeOK, ChildRecord, ChildrenAreSound, ChildrenAreOwned, Sound, AtVenue, Sent
<1>2. child[p].env = e
  <2> SUFFICES ASSUME child[p].env # e PROVE FALSE
    OBVIOUS
  <2>1. p \in Kids(child, Envs \ {e})
    BY <1>1 DEF Kids
  <2>2. p \in Unresolved(child, Envs \ {e}) \/ p \in NeedsReview(child, Envs \ {e})
    BY <1>1, <2>1 DEF Unresolved, NeedsReview, Sent
  <2> QED BY <2>2 DEF Blocked, Foreign, Retains, RetainsStrict
<1>3. p \in Kids(child, {e}) /\ child[p].rec = "none"
  BY <1>1, <1>2 DEF Kids, Blocked
<1>4. p \in Unresolved(child, {e})
  BY <1>1, <1>3 DEF Unresolved, Sent
<1> QED BY <1>4 DEF Blocked, SoleCandidate

\* claim_order_for_submission.
LEMMA ClaimKeeps == ASSUME IInv, NEW o \in Ids, Claim(o) PROVE IInv'
<1> DEFINE c == child[o]
           r == [c EXCEPT !.st = "SUBMITTING"]
<1>1. child \in [Ids -> ChildRecord] /\ c \in ChildRecord /\ Sound(c)
  BY DEF IInv, TypeOK, ChildrenAreSound
<1>2. /\ c.st = "CREATED" /\ child' = [child EXCEPT ![o] = r] /\ env' = env
      /\ intent' = Owner(env', child') /\ UNCHANGED <<latched, direct, halted>>
      /\ loop' = [Idle EXCEPT !.pc = "claimed", !.o = o] /\ ~Blocked(o, FALSE)
  BY DEF Claim, Write
<1>3. commands' \in 0 .. MaxCommands /\ faults' \in 0 .. MaxFaults
  BY DEF Claim, IInv, TypeOK
<1>4. r \in ChildRecord
  BY <1>1 DEF ChildRecord, ChildStatus
<1>5. /\ r.env = c.env /\ r.qty = c.qty /\ r.rep = c.rep /\ r.rec = c.rec
      /\ r.st = "SUBMITTING" /\ r.venue = c.venue /\ r.exec = c.exec /\ r.rows = c.rows
      /\ r.ev = c.ev /\ r.attr = c.attr
  BY <1>1 DEF ChildRecord
<1> HIDE DEF r
<1>6. Moves(c, r)
  <2> HIDE DEF c
  <2> QED BY <1>1, <1>2, <1>5 DEF Moves, Dead, Sound, Sent
<1>7. /\ child' \in [Ids -> ChildRecord] /\ child'[o] = r
      /\ \A p \in Ids \ {o} : child'[p] = child[p]
  BY <1>1, <1>2, <1>4
<1>8. \A p \in Ids : Moves(child[p], child'[p])
  BY <1>1, <1>6, <1>7, StaysMoves DEF IInv, ChildrenAreSound
<1>9. loop' = [pc |-> "claimed", o |-> o, level |-> 0, ended |-> FALSE, todo |-> {}]
  BY <1>2 DEF Idle
<1>10. loop' \in LoopRecord /\ loop'.pc = "claimed" /\ loop'.o = o /\ ~loop'.ended
  BY <1>9, EnvelopesAssumption DEF LoopRecord, Ids
<1>11. intent' \in {"PENDING", "APPROVED", "EXPIRED"}
  BY <1>2 DEF IInv, TypeOK, Owner
<1>12. TypeOK'
  BY <1>2, <1>3, <1>7, <1>10, <1>11 DEF IInv, TypeOK
<1>13. r.rec = "none" /\ r.venue = "absent"
  BY <1>1, <1>2, <1>5 DEF Sound
<1>14. LoopIsSound'
  BY <1>5, <1>7, <1>10, <1>13 DEF LoopIsSound
<1>15. \A e \in Envs : SameMandate(env[e], env'[e])
  BY <1>2 DEF SameMandate
<1>16. /\ MintedInOrder' /\ ChildrenAreSound' /\ ChildrenAreOwned' /\ EventsAreBound'
       /\ RemainingMatchesLedger' /\ OverfillIsLatched'
  BY <1>2, <1>8, <1>15, LedgerKept
<1>17. \A p \in Ids : child'[p].rep = child[p].rep /\ child'[p].venue = child[p].venue
  BY <1>5, <1>7
<1>18. ReplacesOnly'
  BY <1>17 DEF IInv, ReplacesOnly, AtVenue
<1>19. ClaimMeetsOnlyItsOwn'
  <2>1. ASSUME NEW p \in Ids, child'[p].venue \in {"flying", "live"}
        PROVE  p = o \/ p = child'[o].rep
    <3>1. AtVenue(p)
      BY <1>17, <2>1 DEF AtVenue
    <3> QED BY <1>2, <1>17, <3>1, ClaimIsSole
  <2> QED BY <1>10, <2>1 DEF ClaimMeetsOnlyItsOwn, AtVenue
<1>20. ReleasedIsDead'
  BY <1>2, <1>8, <1>12, <1>16, OwnerFollows DEF Moves
<1> QED BY <1>12, <1>14, <1>16, <1>18, <1>19, <1>20 DEF IInv

\* The call goes out: the child is in flight beside the order it replaces.
LEMMA SendKeeps == ASSUME IInv, Send PROVE IInv'
<1> DEFINE o == loop.o
           c == child[o]
           r == [c EXCEPT !.venue = "flying"]
<1>1. /\ o \in Ids /\ c.st = "SUBMITTING" /\ c.rec = "none" /\ c.venue = "absent"
      /\ loop.pc = "claimed" /\ ~loop.ended
  BY DEF IInv, LoopIsSound, Send
<1>2. child \in [Ids -> ChildRecord] /\ c \in ChildRecord /\ Sound(c) /\ loop \in LoopRecord
  BY <1>1 DEF IInv, TypeOK, ChildrenAreSound
<1>3. /\ child' = [child EXCEPT ![o] = r] /\ loop' = [loop EXCEPT !.pc = "call"]
      /\ UNCHANGED <<env, intent, direct, latched, halted, commands, faults>>
  BY <1>1 DEF Send
<1>4. r \in ChildRecord
  BY <1>2 DEF ChildRecord
<1>5. /\ r.env = c.env /\ r.qty = c.qty /\ r.rep = c.rep /\ r.rec = c.rec
      /\ r.st = c.st /\ r.venue = "flying" /\ r.exec = c.exec /\ r.rows = c.rows
      /\ r.ev = c.ev /\ r.attr = c.attr
  BY <1>2 DEF ChildRecord
<1> HIDE DEF r
<1>6. Sound(r)
  <2> HIDE DEF c
  <2> QED BY <1>1, <1>2, <1>5 DEF Sound, Sent
<1>7. /\ child' \in [Ids -> ChildRecord] /\ child'[o] = r
      /\ \A p \in Ids \ {o} : child'[p] = child[p]
  BY <1>1, <1>2, <1>3, <1>4
<1>8. loop' \in LoopRecord /\ loop'.pc = "call" /\ loop'.o = o /\ ~loop'.ended
  BY <1>1, <1>2, <1>3 DEF LoopRecord
<1>9. TypeOK'
  BY <1>3, <1>7, <1>8 DEF IInv, TypeOK
<1>10. \A p \in Ids : /\ child'[p].st = child[p].st /\ child'[p].env = child[p].env
                      /\ child'[p].rep = child[p].rep /\ child'[p].rec = child[p].rec
                      /\ child'[p].ev = child[p].ev /\ child'[p].attr = child[p].attr
                      /\ child'[p].rows = child[p].rows
  BY <1>5, <1>7
<1>11. LoopIsSound'
  BY <1>1, <1>5, <1>7, <1>8 DEF LoopIsSound
<1>12. ChildrenAreSound'
  BY <1>6, <1>7 DEF IInv, ChildrenAreSound
<1>13. MintedInOrder' /\ EventsAreBound'
  BY <1>10 DEF IInv, MintedInOrder, EventsAreBound
<1>14. ChildrenAreOwned'
  BY <1>3, <1>10, SameOwners
<1>15. \A d \in Envs : AttributedTo(child', d) = AttributedTo(child, d)
  BY <1>10, SameFills
<1>16. RemainingMatchesLedger' /\ OverfillIsLatched'
  BY <1>3, <1>15 DEF IInv, RemainingMatchesLedger, OverfillIsLatched
<1>17. ReleasedIsDead'
  BY <1>3, <1>10 DEF IInv, ReleasedIsDead, AllDead, Dead
<1>18. ReplacesOnly'
  <2> SUFFICES ASSUME NEW x \in Ids, NEW y \in Ids, x # y,
                      child'[x].venue \in {"flying", "live"}, child'[y].venue \in {"flying", "live"}
               PROVE  child'[x].rep = y \/ child'[y].rep = x
    BY DEF ReplacesOnly, AtVenue
  <2>1. \A p \in Ids \ {o} : child'[p].venue \in {"flying", "live"} => p = c.rep
    BY <1>1, <1>7 DEF IInv, ClaimMeetsOnlyItsOwn, AtVenue
  <2>2. CASE x = o
    BY <1>5, <1>7, <2>1, <2>2
  <2>3. CASE y = o
    BY <1>5, <1>7, <2>1, <2>3
  <2>4. CASE x # o /\ y # o
    BY <1>7, <2>4 DEF IInv, ReplacesOnly, AtVenue
  <2> QED BY <2>2, <2>3, <2>4
<1>19. ClaimMeetsOnlyItsOwn'
  BY <1>8 DEF ClaimMeetsOnlyItsOwn
<1> QED BY <1>9, <1>11, <1>12, <1>13, <1>14, <1>16, <1>17, <1>18, <1>19 DEF IInv

-----------------------------------------------------------------------------
(* Fills and their attribution *)

\* The child after record_envelope_fill: the event, and the level bound once.
LEMMA FillRecord ==
  ASSUME TypeOK, NEW o \in Ids, NEW l \in Levels, NEW q \in Levels
  PROVE  LET c == child[o]
             v == IF c.ev[l] = 0 THEN q ELSE c.ev[l]
             r == RecordFill(child, o, l, q)[o]
         IN  /\ RecordFill(child, o, l, q) = [child EXCEPT ![o] = r]
             /\ r \in ChildRecord
             /\ r.env = c.env /\ r.qty = c.qty /\ r.rep = c.rep /\ r.st = c.st /\ r.rec = c.rec
             /\ r.venue = c.venue /\ r.exec = c.exec /\ r.rows = c.rows
             /\ r.ev = [c.ev EXCEPT ![l] = v] /\ r.attr = c.attr \cup {l}
<1> DEFINE c == child[o]
           v == IF c.ev[l] = 0 THEN q ELSE c.ev[l]
           f == [c.ev EXCEPT ![l] = v]
           a == c.attr \cup {l}
           r == [c EXCEPT !.ev = f, !.attr = a]
<1>1. child \in [Ids -> ChildRecord] /\ c \in ChildRecord
  BY DEF TypeOK
<1>2. c.ev \in [Levels -> 0 .. Held] /\ c.attr \in SUBSET Levels
  BY <1>1 DEF ChildRecord
<1>3. v \in 0 .. Held
  BY <1>2, EnvelopesAssumption DEF Levels
<1>4. RecordFill(child, o, l, q) = [child EXCEPT ![o] = r]
  BY <1>1, <1>2 DEF RecordFill
<1> HIDE DEF v
<1>5. f \in [Levels -> 0 .. Held] /\ a \in SUBSET Levels
  BY <1>2, <1>3
<1> HIDE DEF c, f, a
<1>6. r \in ChildRecord
  BY <1>1, <1>5 DEF ChildRecord
<1>7. /\ r.env = c.env /\ r.qty = c.qty /\ r.rep = c.rep /\ r.st = c.st /\ r.rec = c.rec
      /\ r.venue = c.venue /\ r.exec = c.exec /\ r.rows = c.rows /\ r.ev = f /\ r.attr = a
  BY <1>1 DEF ChildRecord
<1> HIDE DEF r
<1>8. RecordFill(child, o, l, q)[o] = r
  BY <1>1, <1>4
<1> QED BY <1>4, <1>6, <1>7, <1>8 DEF c, v, f, a

\* A level bound for the first time adds its quantity to the child.
LEMMA BoundAdds ==
  ASSUME NEW c \in ChildRecord, NEW r \in ChildRecord, NEW l \in Levels, NEW q \in Levels,
         l \notin c.attr, r.attr = c.attr \cup {l}, r.ev = [c.ev EXCEPT ![l] = q]
  PROVE  Attributed(r) = Attributed(c) + q
<1> DEFINE f == r.ev
           g == c.ev
           S == c.attr
<1>1. g \in [Levels -> 0 .. Held] /\ S \in SUBSET Levels /\ q \in Int /\ Held \in Nat
  <2>1. g \in [Levels -> 0 .. Held] /\ S \in SUBSET Levels
    BY DEF ChildRecord
  <2>2. q \in Int /\ Held \in Nat
    BY EnvelopesAssumption DEF Levels
  <2> QED BY <2>1, <2>2
<1>2. /\ IsFiniteSet(S) /\ f[l] = q /\ \A x \in S : f[x] = g[x]
      /\ (\A x \in S \cup {l} : f[x] \in Int) /\ l \notin S
  BY <1>1, FiniteIds
<1>3. Attributed(r) = SumFunctionOnSet(f, S \cup {l}) /\ Attributed(c) = SumFunctionOnSet(g, S)
  BY DEF Attributed
<1>4. Attributed(c) \in Nat
  BY AttributedType
<1> HIDE DEF f, g, S
<1>5. SumFunctionOnSet(f, S \cup {l}) = f[l] + SumFunctionOnSet(f, S)
  BY <1>2, SumInsert
<1>6. SumFunctionOnSet(f, S) = SumFunctionOnSet(g, S)
  BY <1>2, SumSame
<1> QED BY <1>1, <1>2, <1>3, <1>4, <1>5, <1>6

\* ... and to the child's envelope.
LEMMA FillAdds ==
  ASSUME TypeOK, NEW o \in Ids, NEW r \in ChildRecord, NEW q \in Int,
         child[o].st # "none", r.st = child[o].st, r.env = child[o].env,
         Attributed(r) = Attributed(child[o]) + q, NEW d
  PROVE  AttributedTo([child EXCEPT ![o] = r], d) =
           AttributedTo(child, d) + (IF d = child[o].env THEN q ELSE 0)
<1> DEFINE C == [child EXCEPT ![o] = r]
           K == Kids(child, {d})
           g == [i \in Ids |-> Attributed(child[i])]
           h == [i \in Ids |-> Attributed(C[i])]
<1>1. child \in [Ids -> ChildRecord] /\ C[o] = r /\ \A i \in Ids \ {o} : C[i] = child[i]
  BY DEF TypeOK
<1>2. Kids(C, {d}) = K
  BY <1>1 DEF Kids
<1>3. K \subseteq Ids /\ (o \in K <=> d = child[o].env)
  BY DEF Kids
<1>4. IsFiniteSet(K)
  BY FiniteKids
<1>5. \A i \in Ids : Attributed(child[i]) \in Nat
  <2>1. \A i \in Ids : child[i] \in ChildRecord
    BY <1>1
  <2> QED BY <2>1, AttributedType
<1>6. /\ \A i \in Ids : g[i] \in Int
      /\ h[o] = g[o] + q /\ h[o] \in Int /\ g[o] \in Int
      /\ \A i \in Ids \ {o} : h[i] = g[i]
  BY <1>1, <1>5
<1>7. AttributedTo(C, d) = SumFunctionOnSet(h, K) /\ AttributedTo(child, d) = SumFunctionOnSet(g, K)
  BY <1>2 DEF AttributedTo
<1> HIDE DEF C, K, g, h
<1>8. SumFunctionOnSet(g, K) \in Int
  BY <1>3, <1>4, <1>6, SumType
<1>9. CASE o \in K
  <2>1. /\ \A i \in K : g[i] \in Int
        /\ \A i \in K \ {o} : h[i] = g[i]
        /\ h[o] \in Int
    BY <1>3, <1>6
  <2>2. SumFunctionOnSet(h, K) = SumFunctionOnSet(g, K) + h[o] - g[o]
    BY <1>4, <1>9, <2>1, SumUpdate
  <2>3. SumFunctionOnSet(h, K) = SumFunctionOnSet(g, K) + q
    BY <1>6, <1>8, <2>2
  <2> QED BY <1>3, <1>7, <1>9, <2>3 DEF C
<1>10. CASE o \notin K
  <2>1. \A i \in K : h[i] = g[i]
    BY <1>3, <1>6, <1>10
  <2>2. SumFunctionOnSet(h, K) = SumFunctionOnSet(g, K)
    BY <1>4, <2>1, SumSame
  <2>3. SumFunctionOnSet(h, K) = SumFunctionOnSet(g, K) + 0
    BY <1>8, <2>2
  <2> QED BY <1>3, <1>7, <1>10, <2>3 DEF C
<1> QED BY <1>9, <1>10

\* What is attributed to an envelope is a number.
LEMMA AttributedToType ==
  ASSUME TypeOK, NEW e PROVE AttributedTo(child, e) \in Nat
<1> DEFINE g == [i \in Ids |-> Attributed(child[i])]
           K == Kids(child, {e})
<1>1. \A i \in Ids : Attributed(child[i]) \in Nat
  <2>1. \A i \in Ids : child[i] \in ChildRecord
    BY DEF TypeOK
  <2> QED BY <2>1, AttributedType
<1>2. K \subseteq Ids
  BY DEF Kids
<1>3. IsFiniteSet(K)
  BY FiniteKids
<1>4. \A i \in K : g[i] \in Int /\ g[i] >= 0
  BY <1>1, <1>2
<1>5. AttributedTo(child, e) = SumFunctionOnSet(g, K)
  BY DEF AttributedTo
<1> HIDE DEF g, K
<1>6. SumFunctionOnSet(g, K) \in Int /\ SumFunctionOnSet(g, K) >= 0
  BY <1>3, <1>4, SumType
<1> QED BY <1>5, <1>6

\* plan_envelope_fill: the remainder drops by the fill, to zero at least.
LEMMA AfterFillRecord ==
  ASSUME TypeOK, NEW e \in Envs, NEW q \in Levels, env[e].st # "none"
  PROVE  LET r == AfterFill(e, q)
         IN  /\ r \in EnvRecord /\ r.ceil = env[e].ceil /\ r.rem = Remaining(e, q)
             /\ r.st # "none"
<1> DEFINE a == env[e]
           m == Remaining(e, q)
           s == IF a.st \in {"ACTIVE", "FROZEN"} /\ EnvelopeOverfill(e, q) THEN "BREACHED"
                ELSE IF a.st = "ACTIVE" /\ m = 0 THEN "COMPLETED" ELSE a.st
           r == [a EXCEPT !.rem = m, !.st = s]
<1>1. a \in EnvRecord /\ a.st # "none"
  BY DEF TypeOK
<1>2. m \in 0 .. Held
  <2>1. a.rem \in 0 .. Held /\ q \in Nat /\ Held \in Nat
    BY <1>1, EnvelopesAssumption DEF EnvRecord, Levels
  <2> QED BY <2>1 DEF Remaining
<1>3. s \in EnvStatus /\ s # "none"
  <2>1. a.st \in EnvStatus
    BY <1>1 DEF EnvRecord
  <2> HIDE DEF a, m
  <2> QED BY <1>1, <2>1 DEF EnvStatus
<1>4. AfterFill(e, q) = r
  BY <1>1 DEF AfterFill, EnvRecord
<1> HIDE DEF a, m, s
<1>5. r \in EnvRecord /\ r.ceil = a.ceil /\ r.rem = m /\ r.st = s
  BY <1>1, <1>2, <1>3 DEF EnvRecord
<1> QED BY <1>3, <1>4, <1>5 DEF a, m

\* What record_envelope_fill leaves of the child it books, besides the invariant.
Booked(c, d, l) ==
  /\ d.st = c.st /\ d.rec = c.rec /\ d.venue = c.venue /\ d.rows = c.rows /\ d.exec = c.exec
  /\ d.ev[l] > 0 /\ \A k \in Levels : c.ev[k] > 0 => d.ev[k] > 0

\* record_envelope_fill books a level once, against the child and against its envelope.
LEMMA FillStep ==
  ASSUME IInv, NEW o \in Ids, NEW l \in Levels, NEW q \in Levels, RecordEnvelopeFill(o, l, q),
         child[o].st # "none", l \notin child[o].attr => child[o].ev[l] \in {0, q},
         UNCHANGED <<direct, halted>>, loop' \in LoopRecord, loop'.pc # "claimed",
         commands' \in 0 .. MaxCommands, faults' \in 0 .. MaxFaults
  PROVE  Booked(child[o], child'[o], l) /\ (LoopIsSound' => IInv')
<1> DEFINE c == child[o]
           e == c.env
           new == l \notin c.attr
           C == RecordFill(child, o, l, q)
           v == IF c.ev[l] = 0 THEN q ELSE c.ev[l]
           r == C[o]
<1>1. /\ TypeOK /\ child \in [Ids -> ChildRecord] /\ c \in ChildRecord
      /\ \A i \in Ids : child[i] \in ChildRecord /\ Sound(child[i])
  BY DEF IInv, TypeOK, ChildrenAreSound
<1>2. /\ e \in Envs /\ env[e].st # "none"
  BY DEF IInv, ChildrenAreOwned
<1>3. /\ C = [child EXCEPT ![o] = r] /\ r \in ChildRecord
      /\ r.env = c.env /\ r.qty = c.qty /\ r.rep = c.rep /\ r.st = c.st /\ r.rec = c.rec
      /\ r.venue = c.venue /\ r.exec = c.exec /\ r.rows = c.rows
      /\ r.ev = [c.ev EXCEPT ![l] = v] /\ r.attr = c.attr \cup {l}
  BY <1>1, FillRecord
<1>4. /\ c.ev \in [Levels -> 0 .. Held] /\ q \in Nat /\ 0 < q /\ Held \in Nat
      /\ c.attr \in SUBSET Levels
  <2>1. c.ev \in [Levels -> 0 .. Held] /\ c.attr \in SUBSET Levels
    BY <1>1 DEF ChildRecord
  <2> QED BY <2>1, EnvelopesAssumption DEF Levels
<1>5. /\ v \in 0 .. Held /\ v > 0 /\ (c.ev[l] > 0 => v = c.ev[l]) /\ (new => v = q)
      /\ ~new => c.ev[l] > 0
  <2>1. ~new => c.ev[l] > 0
    BY DEF IInv, EventsAreBound
  <2>2. c.ev[l] \in 0 .. Held
    BY <1>4
  <2> QED BY <1>4, <2>1, <2>2, EnvelopesAssumption DEF Levels
<1>6. /\ env' = IF new THEN [env EXCEPT ![e] = AfterFill(e, q)] ELSE env
      /\ child' = C \/ child' = CancelStaged(C, {e}, {o})
      /\ intent' = Owner(env', child')
      /\ latched' = (latched \/ (new /\ Quarantines(e, o, l, q)))
  BY DEF RecordEnvelopeFill, Write, Applied
<1> HIDE DEF C, v, r
<1>7. /\ C \in [Ids -> ChildRecord] /\ C[o] = r /\ \A i \in Ids \ {o} : C[i] = child[i]
  BY <1>1, <1>3
<1>8. /\ r.ev[l] = v /\ \A k \in Levels \ {l} : r.ev[k] = c.ev[k]
  BY <1>3, <1>4
<1>9. Sound(r) /\ Sound(c)
  <2>1. Sound(c)
    BY <1>1
  <2> HIDE DEF c
  <2> QED BY <1>3, <2>1 DEF Sound, c
<1>10. \A i \in Ids : Sound(C[i])
  BY <1>1, <1>7, <1>9
<1>11. /\ child' \in [Ids -> ChildRecord]
       /\ \A i \in Ids : Moves(C[i], child'[i])
  BY <1>6, <1>7, <1>10, StagedMoves, StaysMoves
<1>12. child'[o] = r
  BY <1>6, <1>7 DEF CancelStaged
<1>13. Booked(c, child'[o], l)
  BY <1>3, <1>4, <1>5, <1>8, <1>12 DEF Booked
<1>14. /\ env' \in [Envs -> EnvRecord]
       /\ \A d \in Envs : env'[d].ceil = env[d].ceil /\ (env[d].st # "none" => env'[d].st # "none")
       /\ \A d \in Envs : env'[d].rem = IF new /\ d = e THEN Remaining(e, q) ELSE env[d].rem
  <2>1. CASE ~new
    BY <1>1, <1>6, <2>1 DEF TypeOK
  <2>2. CASE new
    <3> DEFINE a == AfterFill(e, q)
    <3>1. a \in EnvRecord /\ a.ceil = env[e].ceil /\ a.rem = Remaining(e, q) /\ a.st # "none"
      BY <1>1, <1>2, AfterFillRecord
    <3> HIDE DEF a, e
    <3>2. /\ env' = [env EXCEPT ![e] = a] /\ env \in [Envs -> EnvRecord] /\ e \in Envs
      BY <1>1, <1>2, <1>6, <2>2 DEF TypeOK, a
    <3> QED BY <2>2, <3>1, <3>2
  <2> QED BY <2>1, <2>2
<1>15. TypeOK'
  <2>1. intent' \in {"PENDING", "APPROVED", "EXPIRED"}
    BY <1>1, <1>6 DEF TypeOK, Owner
  <2>2. latched' \in BOOLEAN
    BY <1>1, <1>6 DEF TypeOK, Quarantines, EnvelopeOverfill, OrderOverfill
  <2> QED BY <1>1, <1>11, <1>14, <2>1, <2>2 DEF TypeOK
<1>16. \A i \in Ids : /\ C[i].env = child[i].env /\ C[i].rep = child[i].rep
                      /\ C[i].st = child[i].st /\ C[i].rec = child[i].rec
                      /\ C[i].venue = child[i].venue /\ C[i].rows = child[i].rows
  BY <1>3, <1>7
<1>17. \A i \in Ids : /\ child'[i].env = child[i].env /\ child'[i].rep = child[i].rep
                      /\ child'[i].st # "none" <=> child[i].st # "none"
                      /\ Dead(child[i]) => Dead(child'[i])
                      /\ child'[i].venue \in {"flying", "live"} => child[i].venue \in {"flying", "live"}
                      /\ child'[i].rows = child[i].rows
                      /\ child'[i].ev = C[i].ev /\ child'[i].attr = C[i].attr
                      /\ Sound(child'[i])
  BY <1>11, <1>16 DEF Moves, Dead
<1>18. MintedInOrder' /\ ChildrenAreSound'
  BY <1>17 DEF IInv, MintedInOrder, ChildrenAreSound
<1>19. ChildrenAreOwned'
  <2> SUFFICES ASSUME NEW i \in Ids, child'[i].st # "none"
               PROVE  /\ child'[i].env \in Envs /\ env'[child'[i].env].st # "none"
                      /\ child'[i].rep # i
                      /\ child'[i].rep # 0 => child'[child'[i].rep].st # "none"
    BY DEF ChildrenAreOwned
  <2>1. /\ child[i].env \in Envs /\ env[child[i].env].st # "none" /\ child[i].rep # i
        /\ child[i].rep # 0 => child[child[i].rep].st # "none"
    BY <1>17 DEF IInv, ChildrenAreOwned
  <2>2. child[i].rep # 0 => child[i].rep \in Ids
    <3>1. child[i].rep \in 0 .. MaxChildren
      BY <1>1 DEF ChildRecord
    <3> QED BY <3>1, EnvelopesAssumption DEF Ids
  <2> QED BY <1>14, <1>17, <2>1, <2>2
<1>20. EventsAreBound'
  <2> SUFFICES ASSUME NEW i \in Ids, NEW k \in Levels
               PROVE  /\ k \in child'[i].attr => child'[i].ev[k] > 0
                      /\ child'[i].ev[k] > 0 /\ k \notin child'[i].attr => k <= child'[i].rows
    BY DEF EventsAreBound
  <2>1. /\ k \in child[i].attr => child[i].ev[k] > 0
        /\ child[i].ev[k] > 0 /\ k \notin child[i].attr => k <= child[i].rows
    BY DEF IInv, EventsAreBound
  <2>2. CASE i # o
    <3>1. C[i] = child[i]
      BY <1>7, <2>2
    <3> QED BY <1>17, <2>1, <3>1
  <2>3. CASE i = o /\ k # l
    <3>1. /\ child'[o].ev = r.ev /\ child'[o].attr = r.attr /\ child'[o].rows = c.rows
          /\ r.ev[k] = c.ev[k] /\ (k \in r.attr <=> k \in c.attr)
      BY <1>3, <1>7, <1>8, <1>17, <2>3
    <3> QED BY <2>1, <2>3, <3>1
  <2>4. CASE i = o /\ k = l
    <3>1. child'[o].ev = r.ev /\ child'[o].attr = r.attr /\ r.ev[l] = v /\ l \in r.attr
      BY <1>3, <1>7, <1>8, <1>17
    <3> QED BY <1>5, <2>4, <3>1
  <2> QED BY <2>2, <2>3, <2>4
<1>21. \A d \in Envs : AttributedTo(child', d) =
                         AttributedTo(child, d) + (IF new /\ d = e THEN q ELSE 0)
  <2> TAKE d \in Envs
  <2>1. AttributedTo(child', d) = AttributedTo(C, d)
    <3>1. \A i \in Ids : /\ child'[i].st # "none" <=> C[i].st # "none"
                         /\ child'[i].env = C[i].env /\ child'[i].ev = C[i].ev
                         /\ child'[i].attr = C[i].attr
      BY <1>16, <1>17
    <3> QED BY <3>1, SameFills
  <2>2. AttributedTo(child, d) \in Nat
    BY <1>1, AttributedToType
  <2>3. CASE ~new
    <3>1. r.ev = c.ev /\ r.attr = c.attr
      BY <1>3, <1>4, <1>5, <2>3
    <3>2. \A i \in Ids : C[i].ev = child[i].ev /\ C[i].attr = child[i].attr
      BY <1>7, <3>1
    <3>3. AttributedTo(C, d) = AttributedTo(child, d)
      BY <1>16, <3>2, SameFills
    <3> QED BY <2>1, <2>2, <2>3, <3>3
  <2>4. CASE new
    <3>1. r.ev = [c.ev EXCEPT ![l] = q]
      BY <1>3, <1>5, <2>4
    <3>2. Attributed(r) = Attributed(c) + q
      BY <1>1, <1>3, <2>4, <3>1, BoundAdds
    <3>3. /\ q \in Int /\ child[o].st # "none" /\ r.st = child[o].st /\ r.env = child[o].env
          /\ TypeOK /\ r \in ChildRecord /\ Attributed(r) = Attributed(child[o]) + q
      BY <1>1, <1>3, <1>4, <3>2
    <3>4. AttributedTo([child EXCEPT ![o] = r], d) =
            AttributedTo(child, d) + (IF d = child[o].env THEN q ELSE 0)
      BY <3>3, FillAdds
    <3> QED BY <1>3, <2>1, <2>4, <3>4
  <2> QED BY <2>3, <2>4
<1>22. \A d \in Envs : /\ AttributedTo(child, d) \in Nat /\ env[d].ceil \in Nat /\ env[d].rem \in Nat
                       /\ env[d].rem = IF AttributedTo(child, d) < env[d].ceil
                                       THEN env[d].ceil - AttributedTo(child, d) ELSE 0
  <2> TAKE d \in Envs
  <2>1. env[d].ceil \in Nat /\ env[d].rem \in Nat
    BY <1>1, EnvelopesAssumption DEF TypeOK, EnvRecord
  <2>2. AttributedTo(child, d) \in Nat
    BY <1>1, AttributedToType
  <2> QED BY <2>1, <2>2 DEF IInv, RemainingMatchesLedger
<1>23. RemainingMatchesLedger'
  <2> SUFFICES ASSUME NEW d \in Envs
               PROVE  env'[d].rem = IF AttributedTo(child', d) < env'[d].ceil
                                    THEN env'[d].ceil - AttributedTo(child', d) ELSE 0
    BY DEF RemainingMatchesLedger
  <2> DEFINE a == AttributedTo(child, d)
             b == AttributedTo(child', d)
  <2>1. b = a + (IF new /\ d = e THEN q ELSE 0)
    BY <1>21
  <2>2. /\ a \in Nat /\ env[d].ceil \in Nat /\ env[d].rem \in Nat
        /\ env[d].rem = IF a < env[d].ceil THEN env[d].ceil - a ELSE 0
    BY <1>22
  <2>3. env'[d].ceil = env[d].ceil
        /\ env'[d].rem = IF new /\ d = e THEN Remaining(e, q) ELSE env[d].rem
    BY <1>14
  <2> HIDE DEF a, b
  <2>4. CASE ~(new /\ d = e)
    <3>1. b = a
      BY <2>1, <2>2, <2>4
    <3> QED BY <2>2, <2>3, <2>4, <3>1 DEF b
  <2>5. CASE new /\ d = e
    <3>1. b = a + q /\ env'[d].rem = IF env[d].rem > q THEN env[d].rem - q ELSE 0
      BY <2>1, <2>3, <2>5 DEF Remaining
    <3>2. env'[d].rem = IF b < env'[d].ceil THEN env'[d].ceil - b ELSE 0
      BY <1>4, <2>2, <2>3, <3>1
    <3> QED BY <3>2 DEF b
  <2> QED BY <2>4, <2>5
<1>24. OverfillIsLatched'
  <2> SUFFICES ASSUME NEW d \in Envs, AttributedTo(child', d) > env'[d].ceil PROVE latched'
    BY DEF OverfillIsLatched
  <2> DEFINE a == AttributedTo(child, d)
             b == AttributedTo(child', d)
  <2>1. b = a + (IF new /\ d = e THEN q ELSE 0) /\ b > env[d].ceil
    BY <1>14, <1>21
  <2>2. /\ a \in Nat /\ env[d].ceil \in Nat /\ env[d].rem \in Nat
        /\ env[d].rem = IF a < env[d].ceil THEN env[d].ceil - a ELSE 0
    BY <1>22
  <2>3. a > env[d].ceil => latched
    BY DEF IInv, OverfillIsLatched
  <2> HIDE DEF a, b
  <2>4. CASE a > env[d].ceil
    BY <1>6, <2>3, <2>4
  <2>5. CASE ~(a > env[d].ceil)
    <3>1. new /\ d = e
      BY <2>1, <2>2, <2>5
    <3>2. q > env[d].rem
      BY <1>4, <2>1, <2>2, <2>5, <3>1
    <3>3. Quarantines(e, o, l, q)
      BY <3>1, <3>2 DEF Quarantines, EnvelopeOverfill
    <3> QED BY <1>6, <3>1, <3>3
  <2> QED BY <2>4, <2>5
<1>25. ReplacesOnly' /\ ClaimMeetsOnlyItsOwn'
  BY <1>17, VenueKept
<1>26. ReleasedIsDead'
  BY <1>6, <1>15, <1>17, <1>18, <1>19, OwnerFollows
<1> QED BY <1>13, <1>15, <1>18, <1>19, <1>20, <1>23, <1>24, <1>25, <1>26 DEF IInv

\* The bridge books the fill before the row, or fails and leaves the row to the append.
LEMMA PollBridgeKeeps == ASSUME IInv, PollBridge PROVE IInv'
<1> DEFINE o == loop.o
           l == loop.level
           c == child[o]
<1>1. /\ o \in Ids /\ VenueOpen(c) /\ l \in Levels /\ c.rows < l /\ l <= c.exec
      /\ loop.pc = "bridge" /\ (loop.ended => c.venue = "done")
  BY DEF IInv, LoopIsSound, PollBridge
<1>2. /\ loop \in LoopRecord /\ c \in ChildRecord /\ c.rows \in 0 .. Held /\ Held \in Nat
      /\ child \in [Ids -> ChildRecord]
  BY <1>1, EnvelopesAssumption DEF IInv, TypeOK, ChildRecord
<1>3. loop' = [loop EXCEPT !.pc = "append"] /\ UNCHANGED <<direct, halted, commands>>
  BY DEF PollBridge
<1>4. /\ loop' \in LoopRecord /\ loop'.pc = "append" /\ loop'.o = o /\ loop'.level = l
      /\ loop'.ended = loop.ended
  BY <1>2, <1>3 DEF LoopRecord
<1>5. commands' \in 0 .. MaxCommands /\ faults' \in 0 .. MaxFaults
  BY <1>3, Counted DEF PollBridge, IInv, TypeOK
<1>6. CASE RecordEnvelopeFill(o, l, Delta) /\ UNCHANGED faults
  <2> DEFINE q == Delta
  <2>1. q \in Levels
    BY <1>1, <1>2 DEF Delta, Levels
  <2>2. l \notin c.attr => c.ev[l] \in {0, q}
    <3>1. c.ev[l] > 0 /\ l \notin c.attr => l <= c.rows
      BY <1>1 DEF IInv, EventsAreBound
    <3>2. c.ev[l] \in 0 .. Held
      BY <1>1, <1>2 DEF ChildRecord
    <3>3. l \notin c.attr => ~(c.ev[l] > 0)
      BY <1>1, <1>2, <3>1 DEF Levels
    <3> QED BY <1>2, <3>2, <3>3
  <2>3. c.st # "none"
    BY <1>1 DEF VenueOpen
  <2>4. RecordEnvelopeFill(o, l, q)
    BY <1>6
  <2> HIDE DEF q
  <2>5. Booked(c, child'[o], l) /\ (LoopIsSound' => IInv')
    BY <1>1, <1>3, <1>4, <1>5, <2>1, <2>2, <2>3, <2>4, FillStep
  <2>6. LoopIsSound'
    BY <1>1, <1>4, <2>5 DEF LoopIsSound, Booked, VenueOpen
  <2> QED BY <2>5, <2>6
<1>7. CASE UNCHANGED <<env, child, intent, latched>>
  <2>1. LoopIsSound'
    BY <1>1, <1>4, <1>7 DEF LoopIsSound
  <2>2. Moves(c, c)
    BY <1>1, <1>2, StaysMoves DEF IInv, ChildrenAreSound
  <2>3. child' = [child EXCEPT ![o] = c] /\ env' = env /\ intent' = intent
        /\ UNCHANGED <<latched, direct, halted>> /\ loop'.pc # "claimed"
    BY <1>2, <1>3, <1>4, <1>7
  <2> HIDE DEF o
  <2> QED BY <1>1, <1>2, <1>4, <1>5, <2>1, <2>2, <2>3, ChildStep
<1> QED BY <1>6, <1>7 DEF PollBridge

\* The strict bridge books the event the append wrote.
LEMMA PollStrictKeeps == ASSUME IInv, PollStrict PROVE IInv'
<1> DEFINE o == loop.o
           l == loop.level
           c == child[o]
<1>1. /\ o \in Ids /\ VenueOpen(c) /\ l \in Levels /\ c.ev[l] > 0
      /\ loop.pc = "strict" /\ (loop.ended => c.venue = "done")
  BY DEF IInv, LoopIsSound, PollStrict
<1>2. /\ loop \in LoopRecord /\ c \in ChildRecord /\ Held \in Nat /\ c.ev[l] \in 0 .. Held
  BY <1>1, EnvelopesAssumption DEF IInv, TypeOK, ChildRecord
<1>3. commands' \in 0 .. MaxCommands /\ faults' \in 0 .. MaxFaults
      /\ UNCHANGED <<direct, halted>>
  BY Counted DEF PollStrict, IInv, TypeOK
<1>4. CASE RecordEnvelopeFill(o, l, c.ev[l]) /\ loop' = [loop EXCEPT !.pc = "settle"]
  <2> DEFINE q == c.ev[l]
  <2>1. /\ loop' \in LoopRecord /\ loop'.pc = "settle" /\ loop'.o = o
        /\ loop'.ended = loop.ended
    BY <1>2, <1>4 DEF LoopRecord
  <2>2. q \in Levels /\ c.ev[l] \in {0, q} /\ RecordEnvelopeFill(o, l, q) /\ c.st # "none"
    BY <1>1, <1>2, <1>4 DEF Levels, VenueOpen
  <2> HIDE DEF q
  <2>3. Booked(c, child'[o], l) /\ (LoopIsSound' => IInv')
    BY <1>1, <1>3, <2>1, <2>2, FillStep
  <2>4. LoopIsSound'
    BY <1>1, <2>1, <2>3 DEF LoopIsSound, Booked, VenueOpen
  <2> QED BY <2>3, <2>4
<1>5. CASE loop' = Idle /\ UNCHANGED <<env, child, intent, latched>>
  BY <1>3, <1>5, IdleStep
<1> QED BY <1>4, <1>5 DEF PollStrict

\* The repair books an event that no envelope was told of.
LEMMA RepairFillKeeps ==
  ASSUME IInv, NEW o \in Ids, NEW l \in Levels, RepairFill(o, l) PROVE IInv'
<1> DEFINE c == child[o]
           q == c.ev[l]
<1>1. /\ c.ev[l] > 0 /\ l \notin c.attr /\ loop.pc = "idle" /\ RecordEnvelopeFill(o, l, q)
      /\ UNCHANGED <<direct, halted, loop, commands, faults>>
  BY DEF RepairFill
<1>2. /\ loop \in LoopRecord /\ c \in ChildRecord /\ Held \in Nat /\ c.ev[l] \in 0 .. Held
      /\ c.rows \in Nat /\ Sound(c)
  BY EnvelopesAssumption DEF IInv, TypeOK, ChildRecord, ChildrenAreSound
<1>3. c.st # "none"
  <2>1. l <= c.rows
    BY <1>1 DEF IInv, EventsAreBound
  <2>2. 1 <= c.rows
    BY <1>2, <2>1 DEF Levels
  <2>3. c.st = "none" => c.rows <= 0
    BY <1>2 DEF Sound
  <2> QED BY <1>2, <2>2, <2>3
<1>4. q \in Levels /\ c.ev[l] \in {0, q}
  BY <1>1, <1>2 DEF Levels
<1>5. commands' \in 0 .. MaxCommands /\ faults' \in 0 .. MaxFaults
      /\ UNCHANGED <<direct, halted>> /\ loop' \in LoopRecord /\ loop'.pc # "claimed"
  BY <1>1, <1>2 DEF IInv, TypeOK
<1> HIDE DEF q
<1>6. LoopIsSound' => IInv'
  BY <1>1, <1>3, <1>4, <1>5, FillStep
<1>7. LoopIsSound'
  BY <1>1 DEF IInv, LoopIsSound
<1> QED BY <1>6, <1>7

\* append_fill writes the row, and the event unless the bridge did.
LEMMA PollAppendKeeps == ASSUME IInv, PollAppend PROVE IInv'
<1> DEFINE o == loop.o
           l == loop.level
           c == child[o]
           v == IF c.ev[l] = 0 THEN Delta ELSE c.ev[l]
           f == [c.ev EXCEPT ![l] = v]
           r == [c EXCEPT !.rows = l, !.ev = f]
           k == IF l \in c.attr THEN "settle" ELSE "strict"
<1>1. /\ o \in Ids /\ VenueOpen(c) /\ l \in Levels /\ c.rows < l /\ l <= c.exec
      /\ loop.pc = "append" /\ (loop.ended => c.venue = "done")
  BY DEF IInv, LoopIsSound, PollAppend
<1>2. /\ loop \in LoopRecord /\ child \in [Ids -> ChildRecord] /\ c \in ChildRecord /\ Sound(c)
      /\ TypeOK
  BY <1>1 DEF IInv, TypeOK, ChildrenAreSound
<1>3. /\ c.rows \in 0 .. Held /\ Held \in Nat /\ c.ev \in [Levels -> 0 .. Held] /\ l \in 0 .. Held
      /\ c.attr \in SUBSET Levels /\ c.exec \in Nat
  <2>1. /\ c.rows \in 0 .. Held /\ c.ev \in [Levels -> 0 .. Held] /\ c.exec \in 0 .. Held
        /\ c.attr \in SUBSET Levels
    BY <1>2 DEF ChildRecord
  <2>2. l \in 0 .. Held /\ Held \in Nat
    BY <1>1, EnvelopesAssumption DEF Levels
  <2> QED BY <2>1, <2>2
<1>4. v \in 0 .. Held /\ v > 0 /\ (c.ev[l] > 0 => v = c.ev[l])
  <2>1. c.ev[l] \in 0 .. Held /\ Delta \in 1 .. Held
    <3>1. c.ev[l] \in 0 .. Held
      BY <1>1, <1>3
    <3>2. Delta = l - c.rows
      BY DEF Delta
    <3>3. c.rows \in 0 .. Held /\ l \in 0 .. Held /\ c.rows < l /\ Held \in Nat
      BY <1>1, <1>3
    <3> HIDE DEF c, l
    <3> QED BY <3>1, <3>2, <3>3
  <2> HIDE DEF c, l
  <2> QED BY <1>3, <2>1
<1>5. child' = [child EXCEPT ![o] = r] /\ env' = env /\ intent' = Owner(env', child')
  BY <1>1, <1>2, <1>3 DEF PollAppend, Write
<1>6. /\ loop' = [loop EXCEPT !.pc = k] /\ UNCHANGED <<direct, halted, commands, faults>>
      /\ latched' = (latched \/ (c.ev[l] = 0 /\ Recorded(c) + Delta > c.qty))
  BY DEF PollAppend
<1> HIDE DEF v
<1>7. /\ f \in [Levels -> 0 .. Held] /\ f[l] = v /\ \A j \in Levels \ {l} : f[j] = c.ev[j]
      /\ \A j \in Levels : c.ev[j] > 0 => f[j] = c.ev[j]
  BY <1>1, <1>3, <1>4
<1>8. k \in {"settle", "strict"}
  OBVIOUS
<1> HIDE DEF f, k
<1>9. r \in ChildRecord
  <2> HIDE DEF c, l
  <2> QED BY <1>2, <1>3, <1>7 DEF ChildRecord
<1>10. /\ r.env = c.env /\ r.qty = c.qty /\ r.rep = c.rep /\ r.st = c.st /\ r.rec = c.rec
       /\ r.venue = c.venue /\ r.exec = c.exec /\ r.rows = l /\ r.ev = f /\ r.attr = c.attr
  <2> HIDE DEF c, l
  <2> QED BY <1>2 DEF ChildRecord
<1> HIDE DEF r
<1>11. Sound(r)
  <2>1. r.rows <= r.exec
    BY <1>1, <1>10
  <2> HIDE DEF c
  <2> QED BY <1>2, <1>10, <2>1 DEF Sound
<1>12. /\ child' \in [Ids -> ChildRecord] /\ child'[o] = r
       /\ \A i \in Ids \ {o} : child'[i] = child[i]
  BY <1>1, <1>2, <1>5, <1>9
<1>13. /\ loop' \in LoopRecord /\ loop'.pc = k /\ loop'.o = o /\ loop'.level = l
       /\ loop'.ended = loop.ended
  <2> HIDE DEF o, l
  <2> QED BY <1>2, <1>6, <1>8 DEF LoopRecord, o, l
<1>14. TypeOK'
  <2>1. intent' \in {"PENDING", "APPROVED", "EXPIRED"}
    BY <1>2, <1>5 DEF TypeOK, Owner
  <2>2. latched' \in BOOLEAN
    BY <1>2, <1>6 DEF TypeOK
  <2> QED BY <1>2, <1>5, <1>6, <1>12, <1>13, <2>1, <2>2 DEF TypeOK
<1>15. LoopIsSound'
  BY <1>1, <1>4, <1>7, <1>8, <1>10, <1>12, <1>13 DEF LoopIsSound, VenueOpen
<1>16. \A i \in Ids : /\ child'[i].env = child[i].env /\ child'[i].rep = child[i].rep
                      /\ child'[i].st = child[i].st /\ child'[i].rec = child[i].rec
                      /\ child'[i].venue = child[i].venue /\ child'[i].attr = child[i].attr
  BY <1>10, <1>12
<1>17. MintedInOrder' /\ ChildrenAreSound'
  BY <1>11, <1>12, <1>16 DEF IInv, MintedInOrder, ChildrenAreSound
<1>18. ChildrenAreOwned'
  BY <1>5, <1>16, SameOwners
<1>19. EventsAreBound'
  <2> SUFFICES ASSUME NEW i \in Ids, NEW j \in Levels
               PROVE  /\ j \in child'[i].attr => child'[i].ev[j] > 0
                      /\ child'[i].ev[j] > 0 /\ j \notin child'[i].attr => j <= child'[i].rows
    BY DEF EventsAreBound
  <2>1. /\ j \in child[i].attr => child[i].ev[j] > 0
        /\ child[i].ev[j] > 0 /\ j \notin child[i].attr => j <= child[i].rows
    BY DEF IInv, EventsAreBound
  <2>2. CASE i # o
    BY <1>12, <2>1, <2>2
  <2>3. CASE i = o
    <3>1. j \in c.attr => f[j] > 0
      BY <1>7, <2>1, <2>3
    <3>2. CASE j # l
      <4>1. f[j] > 0 /\ j \notin c.attr => j <= c.rows
        BY <1>7, <2>1, <2>3, <3>2
      <4>2. j <= c.rows => j <= l
        BY <1>1, <1>3 DEF Levels
      <4> QED BY <1>10, <1>12, <2>3, <3>1, <4>1, <4>2
    <3>3. CASE j = l
      <4>1. j <= l
        BY <3>3 DEF Levels
      <4> QED BY <1>10, <1>12, <2>3, <3>1, <4>1
    <3> QED BY <3>2, <3>3
  <2> QED BY <2>2, <2>3
<1>20. \A d \in Envs : AttributedTo(child', d) = AttributedTo(child, d)
  <2> TAKE d \in Envs
  <2>1. \A j \in c.attr : f[j] = c.ev[j]
    <3>1. \A j \in c.attr : j \in Levels /\ c.ev[j] > 0
      BY <1>1, <1>3 DEF IInv, EventsAreBound
    <3> QED BY <1>7, <3>1
  <2>2. Attributed(r) = Attributed(c) + 0
    <3> DEFINE S == c.attr
               g == c.ev
    <3>1. IsFiniteSet(S) /\ \A j \in S : f[j] = g[j]
      BY <1>3, <2>1, FiniteIds
    <3>2. Attributed(r) = SumFunctionOnSet(f, S) /\ Attributed(c) = SumFunctionOnSet(g, S)
      BY <1>10 DEF Attributed
    <3>3. Attributed(c) \in Nat
      BY <1>2, AttributedType
    <3> HIDE DEF S, g
    <3>4. SumFunctionOnSet(f, S) = SumFunctionOnSet(g, S)
      BY <3>1, SumSame
    <3> QED BY <3>2, <3>3, <3>4
  <2>3. /\ child[o].st # "none" /\ r.st = child[o].st /\ r.env = child[o].env /\ 0 \in Int
        /\ o \in Ids /\ TypeOK /\ r \in ChildRecord /\ Attributed(r) = Attributed(child[o]) + 0
    BY <1>1, <1>2, <1>9, <1>10, <2>2 DEF VenueOpen
  <2>4. AttributedTo([child EXCEPT ![o] = r], d) =
          AttributedTo(child, d) + (IF d = child[o].env THEN 0 ELSE 0)
    BY <2>3, FillAdds
  <2>5. AttributedTo(child, d) \in Nat
    BY <1>2, AttributedToType
  <2> QED BY <1>5, <2>4, <2>5
<1>21. RemainingMatchesLedger' /\ OverfillIsLatched'
  BY <1>5, <1>6, <1>20 DEF IInv, RemainingMatchesLedger, OverfillIsLatched
<1>22. ReplacesOnly' /\ ClaimMeetsOnlyItsOwn'
  BY <1>8, <1>13, <1>16, VenueKept
<1>23. ReleasedIsDead'
  <2>1. \A i \in Ids : Dead(child[i]) => Dead(child'[i])
    BY <1>16 DEF Dead
  <2> QED BY <1>5, <1>6, <1>14, <1>17, <1>18, <2>1, OwnerFollows
<1> QED BY <1>14, <1>15, <1>17, <1>18, <1>19, <1>21, <1>22, <1>23 DEF IInv

-----------------------------------------------------------------------------
(* The theorems *)

\* The envelopes start empty, with the loop idle.
LEMMA InitHolds == Init => IInv
<1> SUFFICES ASSUME Init PROVE IInv
  OBVIOUS
<1>1. \A o \in Ids : child[o] = NoChild
  BY DEF Init
<1>2. \A e \in Envs : env[e] = NoEnv
  BY DEF Init
<1>3. NoEnv \in EnvRecord /\ NoEnv.ceil = 0 /\ NoEnv.rem = 0 /\ NoEnv.st = "none"
  BY EnvelopesAssumption DEF NoEnv, EnvRecord, EnvStatus
<1>4. loop \in LoopRecord /\ loop.pc = "idle" /\ ~loop.ended
  BY EnvelopesAssumption DEF Init, Idle, LoopRecord
<1>5. env \in [Envs -> EnvRecord] /\ child \in [Ids -> ChildRecord]
  BY <1>3, NoChildTyped DEF Init
<1>6. TypeOK
  <2>1. /\ intent = "PENDING" /\ direct = "none" /\ latched = FALSE /\ halted = FALSE
        /\ commands = 0 /\ faults = 0
    BY DEF Init
  <2>2. commands \in 0 .. MaxCommands /\ faults \in 0 .. MaxFaults
    BY <2>1, EnvelopesAssumption
  <2>3. latched \in BOOLEAN /\ halted \in BOOLEAN
    BY <2>1
  <2> QED BY <1>4, <1>5, <2>1, <2>2, <2>3 DEF TypeOK
<1>7. MintedInOrder
  <2>1. 0 \in 0 .. MaxChildren /\ \A o \in Ids : ~(o <= 0)
    BY EnvelopesAssumption DEF Ids
  <2> QED BY <1>1, <2>1, NoChildTyped DEF MintedInOrder
<1>8. ChildrenAreSound
  BY <1>1, NoChildTyped DEF ChildrenAreSound
<1>9. ChildrenAreOwned
  BY <1>1, NoChildTyped DEF ChildrenAreOwned
<1>10. EventsAreBound
  BY <1>1, NoChildTyped DEF EventsAreBound
<1>11. LoopIsSound
  BY <1>4 DEF LoopIsSound
<1>12. ReleasedIsDead
  BY DEF Init, ReleasedIsDead
<1>13. ReplacesOnly /\ ClaimMeetsOnlyItsOwn
  BY <1>1, <1>4, NoChildTyped DEF ReplacesOnly, ClaimMeetsOnlyItsOwn, AtVenue
<1>14. \A e \in Envs : AttributedTo(child, e) = 0
  <2>1. \A e \in Envs : Kids(child, {e}) = {}
    BY <1>1, NoChildTyped DEF Kids
  <2> QED BY <2>1, SumEmpty DEF AttributedTo
<1>15. RemainingMatchesLedger /\ OverfillIsLatched
  BY <1>2, <1>3, <1>14 DEF RemainingMatchesLedger, OverfillIsLatched
<1> QED BY <1>6, <1>7, <1>8, <1>9, <1>10, <1>11, <1>12, <1>13, <1>15 DEF IInv

\* A step that changes nothing.
LEMMA StutterKeeps == ASSUME IInv, UNCHANGED vars PROVE IInv'
<1>1. UNCHANGED <<env, child, intent, direct, latched, halted, loop, commands, faults>>
  BY DEF vars
<1>2. TypeOK'
  BY <1>1 DEF IInv, TypeOK
<1>3. child \in [Ids -> ChildRecord] /\ \A o \in Ids : Sound(child[o])
  BY DEF IInv, TypeOK, ChildrenAreSound
<1>4. \A o \in Ids : Moves(child[o], child'[o]) /\ Unnoticed(child[o], child'[o])
  BY <1>1, <1>3, StaysMoves
<1>5. LoopIsSound'
  BY <1>1, <1>2, <1>4, LoopStays
<1>6. \A e \in Envs : SameMandate(env[e], env'[e])
  BY <1>1 DEF SameMandate
<1>7. \A e \in Envs : env'[e].st \in Delegating => env[e].st \in Delegating
  BY <1>1
<1> QED BY <1>1, <1>2, <1>4, <1>5, <1>6, <1>7, PlainStep

\* Every step of the operator, the loop, the venue or a crash preserves the invariant.
LEMMA StepKeeps == IInv /\ [Next]_vars => IInv'
<1> SUFFICES ASSUME IInv, [Next]_vars PROVE IInv'
  OBVIOUS
<1>1. CASE OperatorNext
  BY <1>1, CreateEnvelopeKeeps, ActivateEnvelopeKeeps, SupersedeEnvelopeKeeps,
     ApproveEnvelopeKeeps, ResumeEnvelopeKeeps, CancelEnvelopeKeeps, KillSwitchKeeps,
     FlattenKeeps, DirectEndsKeeps, OperatorCancelsOrderKeeps DEF OperatorNext
<1>2. CASE LoopNext
  BY <1>2, StageDivergesKeeps, ConcludeKeeps, FreezeOnErrorKeeps, WindStartKeeps,
     StageActionKeeps, ClaimKeeps, RedriveRefusedKeeps, QuarantineStaleKeeps,
     ResolveQuarantineKeeps, RecoverSubmitKeeps, PollKeeps, WindReplyKeeps, ReleaseKeeps,
     SendKeeps, ReplyAcceptedKeeps, ReplyRejectedKeeps, ReplyAmbiguousKeeps,
     PollBridgeKeeps, PollAppendKeeps, PollStrictKeeps, PollSettleKeeps, RepairFillKeeps,
     WindPrepareKeeps, WindDoneKeeps DEF LoopNext
<1>3. CASE VenueNext
  BY <1>3, VenueTakesKeeps, VenueRefusesKeeps, VenueFillsKeeps, VenueEndsKeeps DEF VenueNext
<1>4. CASE Crash
  BY <1>4, CrashKeeps
<1>5. CASE UNCHANGED vars
  BY <1>5, StutterKeeps
<1> QED BY <1>1, <1>2, <1>3, <1>4, <1>5 DEF Next

\* The invariant of the envelopes: the owner follows its delegation, the ledger its
\* mandates, and two children are at the venue only when one was sent to replace the other.
THEOREM EnvelopesInvariant == Spec => []IInv
<1>1. IInv /\ UNCHANGED vars => IInv'
  BY StutterKeeps
<1> QED BY InitHolds, StepKeeps, PTL DEF Spec

\* The records of envelopes, children and loop keep their types (models.py).
THEOREM EnvelopesTypes == Spec => []TypeOK
<1>1. IInv => TypeOK
  BY DEF IInv
<1> QED BY <1>1, EnvelopesInvariant, PTL

\* Every sell at the venue stays open in the store, the predecessor of a replacement
\* included (_drive_staged_order keeps it polled until the venue ends it), and two are
\* there only as a replacement and the order it was sent to replace, whatever the venue
\* does of the two: the claim meets only that order, and a flatten only dead children.
THEOREM VenueSellsAreOwned == Spec => []SellsAtVenueAreOwned
<1>1. IInv => SellsAtVenueAreOwned
  <2> SUFFICES ASSUME IInv PROVE SellsAtVenueAreOwned
    OBVIOUS
  <2>1. \A o \in Ids : AtVenue(o) =>
          \/ child[o].st \in {"SUBMITTING", "TIMEOUT_QUARANTINE"}
          \/ VenueOpen(child[o])
    BY DEF IInv, ChildrenAreSound, Sound, Sent, AtVenue, VenueOpen
  <2>2. direct = "live" => \A o \in Ids : ~AtVenue(o)
    BY DEF IInv, ReleasedIsDead, AllDead, Dead, ChildrenAreSound, Sound, Sent, AtVenue
  <2> QED BY <2>1, <2>2 DEF IInv, ReplacesOnly, SellsAtVenueAreOwned
<1> QED BY <1>1, EnvelopesInvariant, PTL

\* A released intent has nothing left that could execute or delegate
\* (_reconcile_envelope_owner_locked after every write).
THEOREM ReleaseIsFinal == Spec => []ReleasedDelegationIsDead
<1>1. IInv => ReleasedDelegationIsDead
  BY DEF IInv, ReleasedIsDead, AllDead, Dead, ChildrenAreSound, Sound, Sent, AtVenue,
         ReleasedDelegationIsDead
<1> QED BY <1>1, EnvelopesInvariant, PTL

\* The remainder of every mandate is what its attributed fills leave, each counted once
\* whether it was bridged, booked after ingest or repaired (record_envelope_fill).
THEOREM RemainderIsLedger == Spec => []RemainingMatchesLedger
<1>1. IInv => RemainingMatchesLedger
  BY DEF IInv
<1> QED BY <1>1, EnvelopesInvariant, PTL

\* Shares attributed beyond a mandate leave the overfill quarantine.
THEOREM OverfillsAreLatched == Spec => []OverfillIsLatched
<1>1. IInv => OverfillIsLatched
  BY DEF IInv
<1> QED BY <1>1, EnvelopesInvariant, PTL


\* A staged child whose cancel was requested is not claimed: the claim reads the request.
LEMMA RequestedStays ==
  ASSUME IInv, NEW o \in Ids, child[o].req, child[o].st = "CREATED", Next
  PROVE  child'[o].st # "SUBMITTING"
<1> DEFINE c == child[o]
           Out == child'[o].st # "SUBMITTING"
<1>0. TypeOK /\ child \in [Ids -> ChildRecord] /\ c \in ChildRecord
  BY DEF IInv, TypeOK
<1>a. \A C, S, keep : C[o].st # "SUBMITTING" => CancelStaged(C, S, keep)[o].st # "SUBMITTING"
  <2> SUFFICES ASSUME NEW C, NEW S, NEW keep, C[o].st # "SUBMITTING"
               PROVE  CancelStaged(C, S, keep)[o].st # "SUBMITTING"
    OBVIOUS
  <2> QED BY DEF CancelStaged
<1>b. \A i, l, q : RecordEnvelopeFill(i, l, q) => Out
  <2> SUFFICES ASSUME NEW i, NEW l, NEW q, RecordEnvelopeFill(i, l, q) PROVE Out
    OBVIOUS
  <2> DEFINE C == RecordFill(child, i, l, q)
  <2>1. C[o].st # "SUBMITTING"
    BY <1>0 DEF RecordFill, ChildRecord
  <2>2. child' = C \/ child' = CancelStaged(C, {child[i].env}, {i})
    BY DEF RecordEnvelopeFill, Write
  <2> HIDE DEF C
  <2> QED BY <1>a, <2>1, <2>2
<1>1. ASSUME NEW e \in Envs, NEW n \in Levels, CreateEnvelope(e, n) PROVE Out
  BY <1>0, <1>1 DEF CreateEnvelope, Write
<1>2. ASSUME NEW e \in Envs, NEW n \in Levels, ActivateEnvelope(e, n) PROVE Out
  BY <1>0, <1>2 DEF ActivateEnvelope, Write
<1>3. ASSUME NEW e \in Envs, NEW n \in Levels, SupersedeEnvelope(e, n) PROVE Out
  BY <1>0, <1>3, <1>a DEF SupersedeEnvelope, Write
<1>4. ASSUME NEW e \in Envs, ApproveEnvelope(e) PROVE Out
  BY <1>0, <1>4 DEF ApproveEnvelope, Write
<1>5. ASSUME NEW e \in Envs, ResumeEnvelope(e) PROVE Out
  BY <1>0, <1>5 DEF ResumeEnvelope, Write
<1>6. ASSUME NEW e \in Envs, CancelEnvelope(e) PROVE Out
  BY <1>0, <1>6, <1>a DEF CancelEnvelope, Write
<1>7. ASSUME KillSwitch PROVE Out
  BY <1>0, <1>7, <1>a DEF KillSwitch, Write
<1>8. ASSUME Flatten PROVE Out
  BY <1>0, <1>8, <1>a DEF Flatten, Write
<1>9. ASSUME DirectEnds PROVE Out
  BY <1>0, <1>9 DEF DirectEnds, Write
<1>10. ASSUME NEW i \in Ids, OperatorCancelsOrder(i) PROVE Out
  BY <1>0, <1>10 DEF OperatorCancelsOrder, Write
<1>11. ASSUME NEW e \in Envs, StageDiverges(e) PROVE Out
  BY <1>0, <1>11 DEF StageDiverges, Write
<1>12. ASSUME NEW e \in Envs, Conclude(e) PROVE Out
  BY <1>0, <1>12, <1>a DEF Conclude, Write
<1>13. ASSUME NEW e \in Envs, FreezeOnError(e) PROVE Out
  BY <1>0, <1>13 DEF FreezeOnError, Write
<1>14. ASSUME NEW e \in Envs, WindStart(e) PROVE Out
  BY <1>0, <1>14 DEF WindStart, Write
<1>15. ASSUME NEW e \in Envs, NEW q \in Levels, StageAction(e, q) PROVE Out
  BY <1>0, <1>15 DEF StageAction, Write
<1>16. ASSUME NEW i \in Ids, Claim(i) PROVE Out
  <2>1. i # o
    BY <1>16 DEF Claim, Blocked, Claimable, CancelTarget
  <2> QED BY <1>0, <2>1, <1>16 DEF Claim, Write
<1>17. ASSUME NEW i \in Ids, RedriveRefused(i) PROVE Out
  BY <1>0, <1>17 DEF RedriveRefused, Write
<1>18. ASSUME NEW i \in Ids, QuarantineStale(i) PROVE Out
  BY <1>0, <1>18 DEF QuarantineStale, Write
<1>19. ASSUME NEW i \in Ids, ResolveQuarantine(i) PROVE Out
  BY <1>0, <1>19 DEF ResolveQuarantine, Write
<1>20. ASSUME NEW i \in Ids, RecoverSubmit(i) PROVE Out
  <2>1. i # o
    BY <1>20 DEF RecoverSubmit, IInv, ChildrenAreSound, Sound
  <2>2. child'[o] = child[o]
    BY <1>0, <2>1, <1>20 DEF RecoverSubmit, Write
  <2> QED BY <2>2
<1>21. ASSUME NEW i \in Ids, Poll(i) PROVE Out
  BY <1>0, <1>21 DEF Poll, Write
<1>22. ASSUME NEW i \in Ids, WindReply(i) PROVE Out
  <2>1. CASE child' = [child EXCEPT ![i].st = IF @ = "SUBMITTED" THEN "CANCEL_PENDING" ELSE @]
    BY <1>0, <2>1
  <2>2. CASE child' = [child EXCEPT ![i].rec =
                         IF child[i].st = "SUBMITTED" /\ child[i].tries = CancelLimit
                         THEN "needs_review" ELSE @]
    BY <1>0, <2>2
  <2> QED BY <2>1, <2>2, <1>22 DEF WindReply, Write
<1>23. ASSUME Release PROVE Out
  BY <1>0, <1>23 DEF Release, Write
<1>24. ASSUME Send PROVE Out
  BY <1>0, <1>24 DEF Send, Write
<1>25. ASSUME ReplyAccepted PROVE Out
  <2>1. loop.o # o
    BY <1>25 DEF ReplyAccepted, IInv, LoopIsSound
  <2>2. child'[o] = child[o]
    BY <1>0, <2>1, <1>25 DEF ReplyAccepted, Write
  <2> QED BY <2>2
<1>26. ASSUME ReplyRejected PROVE Out
  BY <1>0, <1>26 DEF ReplyRejected, Write
<1>27. ASSUME ReplyAmbiguous PROVE Out
  BY <1>0, <1>27 DEF ReplyAmbiguous, Write
<1>28. ASSUME PollBridge PROVE Out
  <2>1. CASE RecordEnvelopeFill(loop.o, loop.level, Delta)
    BY <1>b, <2>1
  <2>2. CASE child' = child
    BY <2>2
  <2> QED BY <2>1, <2>2, <1>28 DEF PollBridge
<1>29. ASSUME PollAppend PROVE Out
  BY <1>0, <1>29 DEF PollAppend, Write
<1>30. ASSUME PollStrict PROVE Out
  <2>1. CASE RecordEnvelopeFill(loop.o, loop.level, child[loop.o].ev[loop.level])
    BY <1>b, <2>1
  <2>2. CASE child' = child
    BY <2>2
  <2> QED BY <2>1, <2>2, <1>30 DEF PollStrict
<1>31. ASSUME PollSettle PROVE Out
  BY <1>0, <1>31 DEF PollSettle, Write
<1>32. ASSUME NEW i \in Ids, NEW l \in Levels, RepairFill(i, l) PROVE Out
  BY <1>32, <1>b DEF RepairFill
<1>33. ASSUME WindPrepare PROVE Out
  BY <1>0, <1>33 DEF WindPrepare, Write
<1>34. ASSUME WindDone PROVE Out
  BY <1>0, <1>34 DEF WindDone, Write
<1>35. ASSUME NEW i \in Ids, VenueTakes(i) PROVE Out
  BY <1>0, <1>35 DEF VenueTakes, Write
<1>36. ASSUME NEW i \in Ids, VenueRefuses(i) PROVE Out
  BY <1>0, <1>36 DEF VenueRefuses, Write
<1>37. ASSUME NEW i \in Ids, VenueFills(i) PROVE Out
  BY <1>0, <1>37 DEF VenueFills, Write
<1>38. ASSUME NEW i \in Ids, VenueEnds(i) PROVE Out
  BY <1>0, <1>38 DEF VenueEnds, Write
<1>39. ASSUME Crash PROVE Out
  BY <1>0, <1>39 DEF Crash, Write
<1> QED BY <1>1, <1>2, <1>3, <1>4, <1>5, <1>6, <1>7, <1>8, <1>9, <1>10, <1>11, <1>12,
      <1>13, <1>14, <1>15, <1>16, <1>17, <1>18, <1>19, <1>20, <1>21, <1>22, <1>23,
      <1>24, <1>25, <1>26, <1>27, <1>28, <1>29, <1>30, <1>31, <1>32, <1>33, <1>34,
      <1>35, <1>36, <1>37, <1>38, <1>39
     DEF Next, OperatorNext, LoopNext, VenueNext

\* A child whose cancel was requested is never put up for submission again
\* (claim_order_for_submission refuses it).
THEOREM RequestedCancelHolds == Spec => CancelRequestHolds
<1>1. IInv /\ [Next]_vars =>
        [\A o \in Ids : child[o].req /\ child[o].st = "CREATED" => child'[o].st # "SUBMITTING"]_vars
  BY RequestedStays
<1> QED BY <1>1, EnvelopesInvariant, PTL DEF Spec, CancelRequestHolds
=============================================================================
