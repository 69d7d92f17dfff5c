--------------------------- MODULE SellSideProofs ---------------------------
(***************************************************************************)
(* Proofs about the exits of a symbol, for any number of orders,           *)
(* candidates and days and any sizes.                                      *)
(*                                                                         *)
(* The argument of every result is that an exit is alone: from the moment  *)
(* it is minted until it is settled, no other sell is open and no buy is   *)
(* claimed, so the venue's holding covers it and only it can change it.    *)
(***************************************************************************)
EXTENDS SellSide, SumLemmas

-----------------------------------------------------------------------------
(* The inductive invariant *)

\* The minted orders are the first n; slot 1 is the position held at the start.
MintedInOrder == \E n \in Ids : \A i \in Ids : ord[i].kind # "none" <=> i <= n

\* What a status says of the venue: a local order never left, a terminal one
\* has ended with every execution recorded.
Sound(r) ==
  /\ r.kind = "none" => r.status = "TERMINAL" /\ r.recovery = "none" /\ r.executed = 0
  /\ r.status = "CREATED" => r.venue = "absent" /\ r.recovery = "none"
  /\ r.status = "TERMINAL" => r.venue = "done" /\ r.booked = r.executed
  /\ r.venue = "absent" => r.executed = 0
  /\ r.booked <= r.executed
OrdersAreSound == \A i \in Ids : Sound(ord[i])

\* The submit call in flight is of an order only its own status answers for.
SendingIsClaimed ==
  sending # 0 => ord[sending].status = "SUBMITTING" /\ ord[sending].recovery = "none"

OpenOrder(r) == r.status # "TERMINAL" \/ RecoveryOpen(r)
Claimed(r) == r.status \in MayExecuteStatuses \/ RecoveryOpen(r)

\* While an exit is open no other exit is, and no buy may execute.
ExitIsAlone ==
  \A s \in Sells(ord) : OpenOrder(ord[s]) =>
    /\ \A t \in Sells(ord) : OpenOrder(ord[t]) => t = s
    /\ \A b \in Buys(ord) : ~Claimed(ord[b])

\* The venue holds what an open exit has still to sell.
ExitIsCovered ==
  \A s \in Sells(ord) :
    OpenOrder(ord[s]) => VenueHolds(ord) + ord[s].executed >= ord[s].qty

ShortOnlyByOver == VenueHolds(ord) + over >= 0

OverfillIsOnRecord == Overfilled => latched

\* Nothing that was proposed before an exit can still be claimed.
Preempted ==
  \A s \in Sells(ord) :
    /\ \A b \in Buys(ord) : ord[b].status # "TERMINAL" => s <= ord[b].born
    /\ \A c \in Cands : cand[c].st \in {"PENDING", "APPROVED"} => s <= cand[c].born

IInv ==
  /\ TypeOK /\ MintedInOrder /\ OrdersAreSound /\ SendingIsClaimed /\ ExitIsAlone
  /\ ExitIsCovered /\ ShortOnlyByOver /\ OverfillIsOnRecord /\ Preempted

-----------------------------------------------------------------------------
(* Sums over the order table *)

\* The order table is finite.
LEMMA IdsFinite == IsFiniteSet(Ids)
BY FS_Interval, SellSideAssumption DEF Ids

\* A table in which every order contributes what it did has the same position.
LEMMA SamePosition ==
  ASSUME NEW f, NEW g,
         \A i \in Ids : Signed(g[i], g[i].booked) = Signed(f[i], f[i].booked)
  PROVE  Position(g) = Position(f)
BY IdsFinite, SumSame DEF Position

\* The same for what the venue holds.
LEMMA SameHolding ==
  ASSUME NEW f, NEW g,
         \A i \in Ids : Signed(g[i], g[i].executed) = Signed(f[i], f[i].executed)
  PROVE  VenueHolds(g) = VenueHolds(f)
BY IdsFinite, SumSame DEF VenueHolds

\* Where everything executed is recorded, the position is what the venue holds.
LEMMA SettledPosition ==
  ASSUME NEW f,
         \A i \in Ids : Signed(f[i], f[i].booked) = Signed(f[i], f[i].executed)
  PROVE  Position(f) = VenueHolds(f)
BY IdsFinite, SumSame DEF Position, VenueHolds

\* A contribution is an integer.
LEMMA SignedInt ==
  ASSUME NEW f \in [Ids -> OrderRecord], NEW i \in Ids
  PROVE  Signed(f[i], f[i].booked) \in Int /\ Signed(f[i], f[i].executed) \in Int
<1>1. f[i].booked \in Nat /\ f[i].executed \in Nat
  BY DEF OrderRecord
<1> QED BY <1>1 DEF Signed

\* Position and holding are integers.
LEMMA SumsInt ==
  ASSUME NEW f \in [Ids -> OrderRecord]
  PROVE  Position(f) \in Int /\ VenueHolds(f) \in Int
<1>1. /\ \A i \in Ids : [j \in Ids |-> Signed(f[j], f[j].booked)][i] \in Int
      /\ \A i \in Ids : [j \in Ids |-> Signed(f[j], f[j].executed)][i] \in Int
  BY SignedInt
<1> QED BY <1>1, IdsFinite, SumType DEF Position, VenueHolds

\* Recording shares of one order moves the position by them.
LEMMA RecordedPosition ==
  ASSUME NEW f \in [Ids -> OrderRecord], NEW i \in Ids, NEW r \in OrderRecord,
         r.kind = f[i].kind
  PROVE  Position([f EXCEPT ![i] = r]) = Position(f) + Signed(r, r.booked - f[i].booked)
<1> DEFINE g == [f EXCEPT ![i] = r]
           sf == [j \in Ids |-> Signed(f[j], f[j].booked)]
           sg == [j \in Ids |-> Signed(g[j], g[j].booked)]
<1>1. g \in [Ids -> OrderRecord] /\ g[i] = r /\ \A j \in Ids \ {i} : g[j] = f[j]
  OBVIOUS
<1>2. /\ \A j \in Ids : sf[j] \in Int
      /\ \A j \in Ids : sg[j] \in Int
      /\ \A j \in Ids \ {i} : sg[j] = sf[j]
  BY <1>1, SignedInt
<1>3. SumFunctionOnSet(sg, Ids) = SumFunctionOnSet(sf, Ids) + sg[i] - sf[i]
  <2> HIDE DEF sf, sg
  <2> QED BY <1>2, IdsFinite, SumUpdate
<1>4. SumFunctionOnSet(sf, Ids) \in Int
  BY SumsInt DEF Position
<1>5. r.booked \in Nat /\ f[i].booked \in Nat
  BY DEF OrderRecord
<1>6. sg[i] - sf[i] = Signed(r, r.booked - f[i].booked)
  BY <1>1, <1>5 DEF Signed
<1>7. Position(g) = SumFunctionOnSet(sg, Ids) /\ Position(f) = SumFunctionOnSet(sf, Ids)
  BY DEF Position
<1> HIDE DEF sf, sg
<1> QED BY <1>2, <1>3, <1>4, <1>6, <1>7

\* An execution of one order moves the holding by a share.
LEMMA ExecutedHolding ==
  ASSUME NEW f \in [Ids -> OrderRecord], NEW i \in Ids,
         NEW r \in OrderRecord, r.kind = f[i].kind
  PROVE  VenueHolds([f EXCEPT ![i] = r])
           = VenueHolds(f) + Signed(r, r.executed - f[i].executed)
<1> DEFINE g == [f EXCEPT ![i] = r]
           sf == [j \in Ids |-> Signed(f[j], f[j].executed)]
           sg == [j \in Ids |-> Signed(g[j], g[j].executed)]
<1>1. g \in [Ids -> OrderRecord] /\ g[i] = r /\ \A j \in Ids \ {i} : g[j] = f[j]
  OBVIOUS
<1>2. /\ \A j \in Ids : sf[j] \in Int
      /\ \A j \in Ids : sg[j] \in Int
      /\ \A j \in Ids \ {i} : sg[j] = sf[j]
  BY <1>1, SignedInt
<1>3. SumFunctionOnSet(sg, Ids) = SumFunctionOnSet(sf, Ids) + sg[i] - sf[i]
  <2> HIDE DEF sf, sg
  <2> QED BY <1>2, IdsFinite, SumUpdate
<1>4. SumFunctionOnSet(sf, Ids) \in Int
  BY SumsInt DEF VenueHolds
<1>5. r.executed \in Nat /\ f[i].executed \in Nat
  BY DEF OrderRecord
<1>6. sg[i] - sf[i] = Signed(r, r.executed - f[i].executed)
  BY <1>1, <1>5 DEF Signed
<1>7. VenueHolds(g) = SumFunctionOnSet(sg, Ids) /\ VenueHolds(f) = SumFunctionOnSet(sf, Ids)
  BY DEF VenueHolds
<1> HIDE DEF sf, sg
<1> QED BY <1>2, <1>3, <1>4, <1>6, <1>7

\* The number of orders of a table whose first n slots are used.
LEMMA MintedCount ==
  ASSUME NEW f, NEW n \in Ids, \A i \in Ids : f[i].kind # "none" <=> i <= n
  PROVE  Minted(f) = n
<1>1. {i \in Ids : f[i].kind # "none"} = 1 .. n
  BY SellSideAssumption DEF Ids
<1>2. n \in Nat /\ 1 <= n /\ 1 \in Int /\ n \in Int
  BY SellSideAssumption DEF Ids
<1>3. Cardinality(1 .. n) = n
  BY <1>2, FS_Interval
<1> QED BY <1>1, <1>3 DEF Minted

-----------------------------------------------------------------------------
(* Steps on the order table *)

\* What the steps on one order preserve, apart from types and the position.
TableInv ==
  /\ MintedInOrder /\ OrdersAreSound /\ ExitIsAlone /\ ExitIsCovered /\ ShortOnlyByOver
  /\ Preempted

\* A step on one order that neither opens nor claims it and executes nothing.
LEMMA MoveKeepsTable ==
  ASSUME IInv, NEW i \in Ids, NEW r \in OrderRecord, ord' = [ord EXCEPT ![i] = r],
         UNCHANGED <<cand, over>>,
         r.kind = ord[i].kind, r.qty = ord[i].qty, r.born = ord[i].born,
         r.executed = ord[i].executed, Sound(r),
         OpenOrder(r) => OpenOrder(ord[i]), Claimed(r) => Claimed(ord[i]),
         r.status # "TERMINAL" => ord[i].status # "TERMINAL"
  PROVE  TableInv'
<1>1. /\ ord \in [Ids -> OrderRecord] /\ ord' \in [Ids -> OrderRecord]
      /\ ord'[i] = r /\ \A j \in Ids \ {i} : ord'[j] = ord[j]
  BY DEF IInv, TypeOK
<1>2. \A j \in Ids : /\ ord'[j].kind = ord[j].kind /\ ord'[j].qty = ord[j].qty
                     /\ ord'[j].born = ord[j].born /\ ord'[j].executed = ord[j].executed
                     /\ OpenOrder(ord'[j]) => OpenOrder(ord[j])
                     /\ Claimed(ord'[j]) => Claimed(ord[j])
                     /\ ord'[j].status # "TERMINAL" => ord[j].status # "TERMINAL"
  BY <1>1
<1>3. Sells(ord') = Sells(ord) /\ Buys(ord') = Buys(ord)
  BY <1>2 DEF Sells, Buys
<1>4. VenueHolds(ord') = VenueHolds(ord)
  <2>1. \A j \in Ids : Signed(ord'[j], ord'[j].executed) = Signed(ord[j], ord[j].executed)
    BY <1>2 DEF Signed
  <2> QED BY <2>1, SameHolding
<1>5. MintedInOrder'
  BY <1>2 DEF IInv, MintedInOrder
<1>6. OrdersAreSound'
  BY <1>1 DEF IInv, OrdersAreSound
<1>7. ExitIsAlone'
  BY <1>2, <1>3 DEF IInv, ExitIsAlone, Sells, Buys
<1>8. ExitIsCovered'
  BY <1>2, <1>3, <1>4 DEF IInv, ExitIsCovered, Sells
<1>9. ShortOnlyByOver'
  BY <1>4 DEF IInv, ShortOnlyByOver
<1>10. Preempted'
  BY <1>2, <1>3 DEF IInv, Preempted, Sells, Buys
<1> QED BY <1>5, <1>6, <1>7, <1>8, <1>9, <1>10 DEF TableInv

\* Nothing is overfilled that was not, when no recorded share is added.
LEMMA MoveKeepsLatch ==
  ASSUME IInv, NEW i \in Ids, NEW r \in OrderRecord, ord' = [ord EXCEPT ![i] = r],
         UNCHANGED latched,
         r.kind = ord[i].kind, r.qty = ord[i].qty, r.booked = ord[i].booked
  PROVE  OverfillIsOnRecord'
<1>1. /\ ord \in [Ids -> OrderRecord]
      /\ ord'[i] = r /\ \A j \in Ids \ {i} : ord'[j] = ord[j]
  BY DEF IInv, TypeOK
<1>2. \A j \in Ids : /\ ord'[j].kind = ord[j].kind /\ ord'[j].qty = ord[j].qty
                     /\ ord'[j].booked = ord[j].booked
  BY <1>1
<1>3. Position(ord') = Position(ord)
  <2>1. \A j \in Ids : Signed(ord'[j], ord'[j].booked) = Signed(ord[j], ord[j].booked)
    BY <1>2 DEF Signed
  <2> QED BY <2>1, SamePosition
<1> QED BY <1>2, <1>3 DEF IInv, OverfillIsOnRecord, Overfilled

\* g is the order table with some local orders withdrawn.
Withdrawn(g) ==
  \A i \in Ids : \/ g[i] = ord[i]
                 \/ /\ ord[i].status = "CREATED"
                    /\ g[i] = [ord[i] EXCEPT !.status = "TERMINAL", !.venue = "done"]

AllSettled(g) == \A i \in Ids : ~OpenOrder(g[i])

\* Withdrawing an order changes nothing but its status.
LEMMA WithdrawnFields ==
  ASSUME IInv, NEW g, Withdrawn(g), NEW i \in Ids
  PROVE  /\ g[i].kind = ord[i].kind /\ g[i].qty = ord[i].qty
         /\ g[i].booked = ord[i].booked /\ g[i].executed = ord[i].executed
         /\ g[i] = ord[i] \/ (ord[i].status = "CREATED" /\ g[i].status = "TERMINAL")
<1>1. ord[i] \in OrderRecord
  BY DEF IInv, TypeOK
<1> QED BY <1>1 DEF Withdrawn, OrderRecord

\* An exit is minted only when every other order is settled, so that its size
\* is what the venue holds.
LEMMA MintExit ==
  ASSUME IInv, NEW g \in [Ids -> OrderRecord], NEW k \in {"floor", "flatten"},
         NEW q \in Nat, NEW d \in Days, Withdrawn(g), AllSettled(g),
         Minted(ord) < MaxOrders, q <= Position(ord),
         ord' = [g EXCEPT ![Minted(ord) + 1] = NewOrder(k, q, d, Minted(ord))],
         cand' = StandDownCandidates, UNCHANGED <<over, latched, sending>>
  PROVE  /\ ord' \in [Ids -> OrderRecord] /\ cand' \in [Cands -> CandRecord]
         /\ TableInv' /\ OverfillIsOnRecord' /\ SendingIsClaimed'
<1>1. PICK n \in Ids : \A i \in Ids : ord[i].kind # "none" <=> i <= n
  BY DEF IInv, MintedInOrder
<1> DEFINE m == n + 1
           r == NewOrder(k, q, d, n)
<1>2. /\ Minted(ord) = n /\ m \in Ids /\ ord[m].kind = "none" /\ n \in 0 .. MaxOrders
      /\ ord' = [g EXCEPT ![m] = r]
  <2>1. Minted(ord) = n
    BY <1>1, MintedCount
  <2>2. n \in 1 .. MaxOrders /\ n < MaxOrders /\ MaxOrders \in Nat
    BY <2>1, SellSideAssumption DEF Ids
  <2>3. m \in Ids /\ n \in 0 .. MaxOrders /\ ~(m <= n)
    BY <2>2 DEF Ids
  <2>4. ord[m].kind = "none"
    BY <1>1, <2>3
  <2> QED BY <2>1, <2>3, <2>4
<1>3. r \in OrderRecord
  BY <1>2 DEF NewOrder, OrderRecord, Kinds, OrderStatus
<1>4. ord' \in [Ids -> OrderRecord] /\ ord'[m] = r /\ \A i \in Ids \ {m} : ord'[i] = g[i]
  BY <1>2, <1>3
<1>5. \A i \in Ids : /\ g[i].kind = ord[i].kind /\ g[i].qty = ord[i].qty
                     /\ g[i].booked = ord[i].booked /\ g[i].executed = ord[i].executed
                     /\ ~OpenOrder(g[i])
  BY WithdrawnFields DEF AllSettled
<1>6. \A i \in Ids : Sound(g[i])
  <2> SUFFICES ASSUME NEW i \in Ids PROVE Sound(g[i])
    OBVIOUS
  <2>1. ord[i] \in OrderRecord /\ Sound(ord[i])
    BY DEF IInv, TypeOK, OrdersAreSound
  <2>2. CASE g[i] = ord[i]
    BY <2>1, <2>2
  <2>3. CASE /\ ord[i].status = "CREATED"
             /\ g[i] = [ord[i] EXCEPT !.status = "TERMINAL", !.venue = "done"]
    BY <2>1, <2>3 DEF OrderRecord, Sound
  <2> QED BY <2>2, <2>3 DEF Withdrawn
<1>7. /\ Sells(ord') = Sells(ord) \cup {m} /\ Buys(ord') = Buys(ord)
      /\ m \notin Sells(ord) /\ m \notin Buys(ord)
  <2>1. r.kind = k
    BY DEF NewOrder
  <2>2. \A i \in Ids \ {m} : ord'[i].kind = ord[i].kind
    BY <1>4, <1>5
  <2> HIDE DEF m, r
  <2> QED BY <1>2, <1>4, <2>1, <2>2 DEF Sells, Buys
<1>8. \A i \in Ids : ord[i].kind = "none" => ord[i].booked = 0 /\ ord[i].executed = 0
  BY DEF IInv, OrdersAreSound, Sound
<1>9. \A i \in Ids : /\ Signed(ord'[i], ord'[i].booked) = Signed(ord[i], ord[i].booked)
                     /\ Signed(ord'[i], ord'[i].executed) = Signed(ord[i], ord[i].executed)
  <2>1. \A i \in Ids \ {m} : ord'[i].kind = ord[i].kind /\ ord'[i].booked = ord[i].booked
                             /\ ord'[i].executed = ord[i].executed
    BY <1>4, <1>5
  <2>2. r.booked = 0 /\ r.executed = 0 /\ r.kind \in {"floor", "flatten"}
    BY DEF NewOrder
  <2>3. /\ Signed(r, r.booked) = 0 /\ Signed(r, r.executed) = 0
        /\ Signed(ord[m], ord[m].booked) = 0 /\ Signed(ord[m], ord[m].executed) = 0
    <3> HIDE DEF r, m
    <3> QED BY <1>2, <2>2 DEF Signed
  <2> QED BY <1>4, <2>1, <2>3 DEF Signed
<1>10. /\ Position(ord') = Position(ord) /\ VenueHolds(ord') = VenueHolds(ord)
       /\ VenueHolds(ord) \in Int /\ Position(ord) \in Int
  BY <1>9, SamePosition, SameHolding, SumsInt DEF IInv, TypeOK
<1>11. Position(ord) = VenueHolds(ord)
  <2>1. \A i \in Ids : ord[i].booked = ord[i].executed
    <3>1. \A i \in Ids : g[i].status = "TERMINAL"
      BY <1>5 DEF OpenOrder
    <3> QED BY <1>5, <1>6, <3>1 DEF Sound
  <2> QED BY <2>1, SettledPosition
<1>12. \A i \in Ids : Sound(ord'[i])
  BY <1>4, <1>6 DEF Sound, NewOrder
<1>13. \A i \in Ids : OpenOrder(ord'[i]) => i = m
  BY <1>4, <1>5
<1>14. MintedInOrder'
  <2>1. \A i \in Ids : ord'[i].kind # "none" <=> i <= m
    BY <1>1, <1>2, <1>4, <1>5 DEF NewOrder, Ids
  <2> QED BY <1>2, <2>1 DEF MintedInOrder
<1>15. ExitIsAlone'
  <2>1. \A b \in Buys(ord') : ~OpenOrder(ord'[b])
    BY <1>7, <1>13 DEF Buys
  <2>2. \A i \in Ids : Claimed(ord'[i]) => OpenOrder(ord'[i])
    BY DEF Claimed, OpenOrder, MayExecuteStatuses
  <2> QED BY <1>13, <2>1, <2>2 DEF ExitIsAlone, Sells, Buys
<1>16. ExitIsCovered'
  <2>1. ord'[m].qty = q /\ ord'[m].executed = 0
    BY <1>4 DEF NewOrder
  <2>2. VenueHolds(ord') + ord'[m].executed >= ord'[m].qty
    BY <1>10, <1>11, <2>1
  <2> QED BY <1>13, <2>2 DEF ExitIsCovered, Sells
<1>17. ShortOnlyByOver'
  BY <1>10 DEF IInv, ShortOnlyByOver
<1>18. Preempted'
  <2>1. \A b \in Buys(ord') : ord'[b].status = "TERMINAL"
    BY <1>7, <1>13 DEF Buys, OpenOrder
  <2>2. \A c \in Cands : cand'[c].st \notin {"PENDING", "APPROVED"}
    BY DEF StandDownCandidates, IInv, TypeOK, CandRecord
  <2> QED BY <2>1, <2>2 DEF Preempted
<1>19. OverfillIsOnRecord'
  <2>1. \A i \in Ids : ord'[i].booked > ord'[i].qty => ord[i].booked > ord[i].qty
    <3>1. r.booked = 0 /\ r.qty = q
      BY DEF NewOrder
    <3> QED BY <1>4, <1>5, <3>1
  <2> QED BY <1>10, <2>1 DEF IInv, OverfillIsOnRecord, Overfilled
<1>20. SendingIsClaimed'
  <2>1. sending = 0
    <3>1. CASE sending # 0
      <4>1. sending \in Ids /\ ord[sending].status = "SUBMITTING"
        BY <3>1 DEF IInv, TypeOK, SendingIsClaimed, Ids
      <4>2. g[sending] = ord[sending]
        BY <4>1 DEF Withdrawn
      <4> QED BY <1>5, <4>1, <4>2 DEF OpenOrder
    <3> QED BY <3>1
  <2> QED BY <2>1 DEF SendingIsClaimed
<1>21. cand' \in [Cands -> CandRecord]
  BY DEF StandDownCandidates, IInv, TypeOK, CandRecord
<1> QED BY <1>4, <1>12, <1>14, <1>15, <1>16, <1>17, <1>18, <1>19, <1>20, <1>21
        DEF TableInv, OrdersAreSound

-----------------------------------------------------------------------------
(* One lemma per action *)

\* The parts the lemmas about steps on the table establish.
LEMMA Assemble ==
  ASSUME TypeOK', TableInv', SendingIsClaimed', OverfillIsOnRecord' PROVE IInv'
BY DEF IInv, TableInv

\* A step that leaves orders, candidates and the quarantine alone.
LEMMA QuietKeeps ==
  ASSUME IInv, TypeOK', UNCHANGED <<ord, cand, latched, sending, over>> PROVE IInv'
<1>1. MintedInOrder' /\ OrdersAreSound' /\ SendingIsClaimed' /\ ExitIsAlone' /\ Preempted'
  BY DEF IInv, MintedInOrder, OrdersAreSound, SendingIsClaimed, ExitIsAlone, Preempted,
         Sells, Buys
<1>2. ExitIsCovered' /\ ShortOnlyByOver' /\ OverfillIsOnRecord'
  BY DEF IInv, ExitIsCovered, ShortOnlyByOver, OverfillIsOnRecord, Overfilled, Sells
<1> QED BY <1>1, <1>2 DEF IInv

\* Asking for the cancel of one open buy.
LEMMA CancelKeeps ==
  ASSUME IInv, NEW i \in Ids, CancelOpenBuy(i), UNCHANGED <<cand, over, latched, sending>>
  PROVE  /\ ord' \in [Ids -> OrderRecord]
         /\ TableInv' /\ OverfillIsOnRecord' /\ SendingIsClaimed'
<1>1. ord \in [Ids -> OrderRecord] /\ ord[i] \in OrderRecord /\ Sound(ord[i])
  BY DEF IInv, TypeOK, OrdersAreSound
<1>2. CASE UNCHANGED ord
  <2>1. MintedInOrder' /\ OrdersAreSound' /\ SendingIsClaimed' /\ ExitIsAlone' /\ Preempted'
    BY <1>2 DEF IInv, MintedInOrder, OrdersAreSound, SendingIsClaimed, ExitIsAlone,
                Preempted, Sells, Buys
  <2>2. ExitIsCovered' /\ ShortOnlyByOver' /\ OverfillIsOnRecord'
    BY <1>2 DEF IInv, ExitIsCovered, ShortOnlyByOver, OverfillIsOnRecord, Overfilled, Sells
  <2> QED BY <1>1, <1>2, <2>1, <2>2 DEF TableInv
<1>3. ASSUME NEW r, ord' = [ord EXCEPT ![i] = r],
             \/ /\ ord[i].status = "CREATED" /\ ~RecoveryOpen(ord[i])
                /\ r = [ord[i] EXCEPT !.status = "TERMINAL", !.venue = "done"]
             \/ /\ ord[i].status = "SUBMITTED"
                /\ r = [ord[i] EXCEPT !.status = "CANCEL_PENDING"]
      PROVE  /\ ord' \in [Ids -> OrderRecord]
             /\ TableInv' /\ OverfillIsOnRecord' /\ SendingIsClaimed'
  <2>1. r \in OrderRecord
    BY <1>1, <1>3 DEF OrderRecord, OrderStatus, MayExecuteStatuses
  <2>2. /\ r.kind = ord[i].kind /\ r.qty = ord[i].qty /\ r.born = ord[i].born
        /\ r.executed = ord[i].executed /\ r.booked = ord[i].booked
    BY <1>1, <1>3 DEF OrderRecord
  <2>3. Sound(r)
    <3>1. ord[i].executed \in Nat /\ ord[i].booked \in Nat
      BY <1>1 DEF OrderRecord
    <3>2. CASE /\ ord[i].status = "CREATED" /\ ~RecoveryOpen(ord[i])
               /\ r = [ord[i] EXCEPT !.status = "TERMINAL", !.venue = "done"]
      <4>1. r.status = "TERMINAL" /\ r.venue = "done" /\ r.recovery = ord[i].recovery
        BY <1>1, <3>2 DEF OrderRecord
      <4> QED BY <1>1, <2>2, <3>1, <3>2, <4>1 DEF Sound
    <3>3. CASE /\ ord[i].status = "SUBMITTED"
               /\ r = [ord[i] EXCEPT !.status = "CANCEL_PENDING"]
      <4>1. r.status = "CANCEL_PENDING" /\ r.venue = ord[i].venue
        BY <1>1, <3>3 DEF OrderRecord
      <4> QED BY <1>1, <2>2, <3>1, <3>3, <4>1 DEF Sound
    <3> QED BY <1>3, <3>2, <3>3
  <2>4. /\ OpenOrder(r) => OpenOrder(ord[i])
        /\ Claimed(r) => Claimed(ord[i])
        /\ r.status # "TERMINAL" => ord[i].status # "TERMINAL"
    BY <1>1, <1>3 DEF OrderRecord, OpenOrder, Claimed, RecoveryOpen, MayExecuteStatuses
  <2>5. TableInv'
    <3>1. UNCHANGED <<cand, over>>
      OBVIOUS
    <3> QED BY <1>3, <2>1, <2>2, <2>3, <2>4, <3>1, MoveKeepsTable
  <2>6. OverfillIsOnRecord'
    BY <1>3, <2>1, <2>2, MoveKeepsLatch
  <2>7. SendingIsClaimed'
    BY <1>1, <1>3 DEF IInv, SendingIsClaimed, TypeOK, Ids
  <2> QED BY <1>1, <1>3, <2>1, <2>5, <2>6, <2>7
<1>4. CASE LocalCancelEligible(ord[i]) /\
           ord' = [ord EXCEPT ![i].status = "TERMINAL", ![i].venue = "done"]
  <2>1. ord' = [ord EXCEPT ![i] = [ord[i] EXCEPT !.status = "TERMINAL", !.venue = "done"]]
    BY <1>1, <1>4
  <2> QED BY <1>3, <1>4, <2>1 DEF LocalCancelEligible
<1>5. CASE ord[i].status = "SUBMITTED" /\
           ord' = [ord EXCEPT ![i].status = "CANCEL_PENDING"]
  <2>1. ord' = [ord EXCEPT ![i] = [ord[i] EXCEPT !.status = "CANCEL_PENDING"]]
    BY <1>1, <1>5
  <2> QED BY <1>3, <1>5, <2>1
<1> QED BY <1>2, <1>4, <1>5 DEF CancelOpenBuy

\* Protection reads the open buys it will cancel.
LEMMA ProtectStartKeeps == ASSUME IInv, ProtectStart PROVE IInv'
<1>1. TypeOK'
  BY DEF ProtectStart, UnchangedRest, IInv, TypeOK, OpenBuys, Buys
<1> QED BY <1>1, QuietKeeps DEF ProtectStart, UnchangedRest

\* Protection asks for the cancel of one open buy.
LEMMA ProtectCancelBuyKeeps == ASSUME IInv, NEW i \in Ids, ProtectCancelBuy(i) PROVE IInv'
<1>1. /\ ord' \in [Ids -> OrderRecord]
      /\ TableInv' /\ OverfillIsOnRecord' /\ SendingIsClaimed'
  BY CancelKeeps DEF ProtectCancelBuy, UnchangedRest
<1>2. TypeOK'
  BY <1>1 DEF ProtectCancelBuy, UnchangedRest, IInv, TypeOK
<1> QED BY <1>1, <1>2, Assemble

\* The operator's task asks for the cancel of one open buy.
LEMMA FlattenCancelBuyKeeps == ASSUME IInv, NEW i \in Ids, FlattenCancelBuy(i) PROVE IInv'
<1>1. /\ ord' \in [Ids -> OrderRecord]
      /\ TableInv' /\ OverfillIsOnRecord' /\ SendingIsClaimed'
  BY CancelKeeps DEF FlattenCancelBuy, UnchangedRest
<1>2. TypeOK'
  BY <1>1 DEF FlattenCancelBuy, UnchangedRest, IInv, TypeOK
<1> QED BY <1>1, <1>2, Assemble

\* With no sell open and no buy claimed, standing the local buys down settles
\* every order.
LEMMA StoodDown ==
  ASSUME IInv, NEW f \in [Ids -> OrderRecord], Withdrawn(f),
         DirectSells(f) = {}, DirectSellRecoveries(f) = {}, ~BuyMayExecute(f)
  PROVE  /\ StandDownBuys(f) \in [Ids -> OrderRecord]
         /\ Withdrawn(StandDownBuys(f)) /\ AllSettled(StandDownBuys(f))
         /\ Minted(f) = Minted(ord)
<1> DEFINE g == StandDownBuys(f)
<1>1. ASSUME NEW i \in Ids
      PROVE  /\ g[i] \in OrderRecord /\ ~OpenOrder(g[i]) /\ f[i].kind = ord[i].kind
             /\ \/ g[i] = ord[i]
                \/ /\ ord[i].status = "CREATED"
                   /\ g[i] = [ord[i] EXCEPT !.status = "TERMINAL", !.venue = "done"]
  <2>1. ord[i] \in OrderRecord /\ f[i] \in OrderRecord /\ Sound(ord[i])
    BY DEF IInv, TypeOK, OrdersAreSound
  <2>2. g[i] = IF f[i].kind = "buy" /\ LocalCancelEligible(f[i])
               THEN [f[i] EXCEPT !.status = "TERMINAL", !.venue = "done"] ELSE f[i]
    BY DEF StandDownBuys
  <2>3. f[i].kind = ord[i].kind /\ f[i].recovery = ord[i].recovery
    BY <2>1 DEF Withdrawn, OrderRecord
  <2>4. \/ f[i] = ord[i]
        \/ /\ ord[i].status = "CREATED"
           /\ f[i] = [ord[i] EXCEPT !.status = "TERMINAL", !.venue = "done"]
    BY DEF Withdrawn
  <2>5. g[i] \in OrderRecord
    BY <2>1, <2>2 DEF OrderRecord, OrderStatus
  <2>6. f[i].status = "TERMINAL" => g[i] = f[i]
    BY <2>2 DEF LocalCancelEligible
  <2>7. CASE f[i].kind = "buy"
    <3>1. f[i].status \notin MayExecuteStatuses /\ ~RecoveryOpen(f[i])
      BY <2>7 DEF BuyMayExecute, BuyExposure, Buys
    <3>2. f[i].status \in {"CREATED", "TERMINAL"}
      BY <2>1, <3>1 DEF OrderRecord, OrderStatus
    <3>3. CASE f[i].status = "TERMINAL"
      BY <2>3, <2>4, <2>5, <2>6, <3>1, <3>3 DEF OpenOrder
    <3>4. CASE f[i].status = "CREATED"
      <4>1. g[i] = [f[i] EXCEPT !.status = "TERMINAL", !.venue = "done"]
        BY <2>2, <2>7, <3>1, <3>4 DEF LocalCancelEligible
      <4>2. f[i] = ord[i]
        BY <2>1, <2>4, <3>4 DEF OrderRecord
      <4>3. ~OpenOrder(g[i])
        BY <2>1, <3>1, <4>1 DEF OpenOrder, RecoveryOpen, OrderRecord
      <4> QED BY <2>3, <2>5, <3>4, <4>1, <4>2, <4>3
    <3> QED BY <3>2, <3>3, <3>4
  <2>8. CASE f[i].kind = "none"
    <3>1. ord[i].status = "TERMINAL" /\ ord[i].recovery = "none"
      BY <2>1, <2>3, <2>8 DEF Sound
    <3> QED BY <2>2, <2>3, <2>4, <2>5, <2>8, <3>1 DEF OpenOrder, RecoveryOpen
  <2>9. CASE f[i].kind \in {"floor", "flatten"}
    <3>1. ~SellMayExecute(f[i]) /\ ~RecoveryOpen(f[i])
      BY <2>9 DEF DirectSells, DirectSellRecoveries, Sells
    <3>2. g[i] = f[i] /\ ~OpenOrder(f[i])
      BY <2>2, <2>9, <3>1 DEF SellMayExecute, OpenOrder, RecoveryOpen
    <3> QED BY <2>3, <2>4, <2>5, <3>2
  <2> QED BY <2>1, <2>7, <2>8, <2>9 DEF OrderRecord, Kinds
<1>2. g \in [Ids -> OrderRecord]
  <2>1. g = [i \in Ids |-> g[i]]
    BY DEF StandDownBuys
  <2> HIDE DEF g
  <2> QED BY <1>1, <2>1
<1>3. Withdrawn(g) /\ AllSettled(g)
  BY <1>1 DEF Withdrawn, AllSettled
<1>4. {i \in Ids : f[i].kind # "none"} = {i \in Ids : ord[i].kind # "none"}
  BY <1>1
<1> QED BY <1>2, <1>3, <1>4 DEF Minted

\* The protective exit is minted when nothing else is open, or nothing happens.
LEMMA OpenProtectionExitKeeps == ASSUME IInv, OpenProtectionExit PROVE IInv'
<1>1. ASSUME NEW q, q = Position(ord), MayDispatchExit(ord, q, FALSE),
             DispatchExit(ord, "floor", q, prot.day)
      PROVE  IInv'
  <2>1. ord \in [Ids -> OrderRecord] /\ Withdrawn(ord) /\ prot.day \in Days
    BY DEF IInv, TypeOK, Withdrawn
  <2>2. q \in Nat
    BY <1>1, <2>1, SumsInt DEF MayDispatchExit
  <2>3. /\ StandDownBuys(ord) \in [Ids -> OrderRecord]
        /\ Withdrawn(StandDownBuys(ord)) /\ AllSettled(StandDownBuys(ord))
    BY <1>1, <2>1, StoodDown DEF MayDispatchExit
  <2>4. /\ Minted(ord) < MaxOrders
        /\ ord' = [StandDownBuys(ord) EXCEPT
                     ![Minted(ord) + 1] = NewOrder("floor", q, prot.day, Minted(ord))]
        /\ cand' = StandDownCandidates
    BY <1>1 DEF DispatchExit
  <2>5. UNCHANGED <<over, latched, sending>> /\ q <= Position(ord)
    BY <1>1, <2>2 DEF OpenProtectionExit, UnchangedRest
  <2>6. /\ ord' \in [Ids -> OrderRecord] /\ cand' \in [Cands -> CandRecord]
        /\ TableInv' /\ OverfillIsOnRecord' /\ SendingIsClaimed'
    BY <2>1, <2>2, <2>3, <2>4, <2>5, MintExit
  <2>7. TypeOK'
    BY <2>6 DEF OpenProtectionExit, UnchangedRest, IInv, TypeOK
  <2> QED BY <2>6, <2>7, Assemble
<1>2. CASE UNCHANGED <<ord, cand>>
  <2>1. TypeOK'
    BY <1>2 DEF OpenProtectionExit, UnchangedRest, IInv, TypeOK
  <2> QED BY <1>2, <2>1, QuietKeeps DEF OpenProtectionExit, UnchangedRest
<1> QED BY <1>1, <1>2 DEF OpenProtectionExit

\* An exit that gives way to a flatten never left the store.
LEMMA FlattenTable ==
  ASSUME IInv, FlattenCreate
  PROVE  \E g \in [Ids -> OrderRecord] :
           /\ Withdrawn(g) /\ AllSettled(g) /\ Minted(ord) < MaxOrders
           /\ ord' = [g EXCEPT ![Minted(ord) + 1] =
                        NewOrder("flatten", Position(ord), today, Minted(ord))]
<1> DEFINE f == Supersede(ord)
           h == StandDownBuys(f)
           q == Position(ord)
<1>1. FlattenOutcome = "create"
  BY DEF FlattenCreate
<1>2. \A i \in ActiveExits(ord) : ord[i].status = "CREATED"
  BY <1>1 DEF FlattenOutcome
<1>3. /\ f \in [Ids -> OrderRecord] /\ Withdrawn(f)
  <2>1. ASSUME NEW i \in Ids
        PROVE  /\ f[i] \in OrderRecord
               /\ \/ f[i] = ord[i]
                  \/ /\ ord[i].status = "CREATED"
                     /\ f[i] = [ord[i] EXCEPT !.status = "TERMINAL", !.venue = "done"]
    <3>1. ord[i] \in OrderRecord
      BY DEF IInv, TypeOK
    <3>2. f[i] = IF i \in ActiveExits(ord)
                 THEN [ord[i] EXCEPT !.status = "TERMINAL", !.venue = "done"] ELSE ord[i]
      BY DEF Supersede
    <3> QED BY <1>2, <3>1, <3>2 DEF OrderRecord, OrderStatus
  <2>2. f = [i \in Ids |-> f[i]]
    BY DEF Supersede
  <2> HIDE DEF f
  <2> QED BY <2>1, <2>2 DEF Withdrawn
<1>4. MayDispatchExit(h, q, flat.emergency)
  BY DEF FlattenCreate
<1>5. DirectSells(f) = {} /\ DirectSellRecoveries(f) = {} /\ ~BuyMayExecute(f)
  <2>1. ASSUME NEW i \in Ids, f[i].kind # "buy" \/ ~LocalCancelEligible(f[i])
        PROVE  h[i] = f[i]
    BY <2>1 DEF StandDownBuys
  <2>2. ASSUME NEW i \in Ids PROVE f[i] \in OrderRecord
    BY <1>3
  <2>3. ASSUME NEW i \in Ids PROVE h[i].kind = f[i].kind
    BY <2>1, <2>2 DEF StandDownBuys, OrderRecord
  <2>4. Sells(h) = Sells(f) /\ Buys(h) = Buys(f)
    BY <2>3 DEF Sells, Buys
  <2>5. \A i \in Sells(f) : h[i] = f[i]
    BY <2>1 DEF Sells
  <2>6. DirectSells(f) = {} /\ DirectSellRecoveries(f) = {}
    BY <1>4, <2>4, <2>5 DEF MayDispatchExit, DirectSells, DirectSellRecoveries
  <2>7. ~BuyMayExecute(f)
    <3>1. SUFFICES ASSUME NEW b \in Buys(f),
                          f[b].status \in MayExecuteStatuses \/ RecoveryOpen(f[b])
                   PROVE  FALSE
      BY DEF BuyMayExecute, BuyExposure
    <3>2. ~LocalCancelEligible(f[b]) /\ b \in Ids
      BY <3>1 DEF LocalCancelEligible, MayExecuteStatuses, Buys
    <3>3. h[b] = f[b] /\ b \in Buys(h)
      BY <2>1, <2>4, <3>2
    <3> QED BY <1>4, <3>1, <3>3 DEF MayDispatchExit, BuyMayExecute, BuyExposure
  <2> QED BY <2>6, <2>7
<1>6. /\ h \in [Ids -> OrderRecord] /\ Withdrawn(h) /\ AllSettled(h)
      /\ Minted(f) = Minted(ord)
  BY <1>3, <1>5, StoodDown
<1>7. /\ Minted(ord) < MaxOrders
      /\ ord' = [h EXCEPT ![Minted(ord) + 1] = NewOrder("flatten", q, today, Minted(ord))]
  <2>1. DispatchExit(f, "flatten", q, today)
    BY DEF FlattenCreate
  <2> QED BY <1>6, <2>1 DEF DispatchExit
<1> QED BY <1>6, <1>7

\* The flatten is minted with the grant used up.
LEMMA FlattenCreateKeeps == ASSUME IInv, FlattenCreate PROVE IInv'
<1> DEFINE q == Position(ord)
<1>1. PICK h \in [Ids -> OrderRecord] :
        /\ Withdrawn(h) /\ AllSettled(h) /\ Minted(ord) < MaxOrders
        /\ ord' = [h EXCEPT ![Minted(ord) + 1] = NewOrder("flatten", q, today, Minted(ord))]
  BY FlattenTable
<1>2. q \in Nat /\ q <= Position(ord) /\ today \in Days
  BY SumsInt DEF FlattenCreate, MayDispatchExit, IInv, TypeOK
<1>3. cand' = StandDownCandidates /\ UNCHANGED <<over, latched, sending>>
  BY DEF FlattenCreate, DispatchExit
<1>4. /\ ord' \in [Ids -> OrderRecord] /\ cand' \in [Cands -> CandRecord]
      /\ TableInv' /\ OverfillIsOnRecord' /\ SendingIsClaimed'
  <2> HIDE DEF q
  <2> QED BY <1>1, <1>2, <1>3, MintExit
<1>5. override' \subseteq Days
  BY DEF FlattenCreate, ConsumeGrant, IInv, TypeOK
<1>6. flat' \in [pc : {"idle", "decide", "cancel"}, todo : SUBSET Ids,
                 tries : 0 .. MaxTries, emergency : BOOLEAN, day : Days]
  BY SellSideAssumption DEF FlattenCreate, NoFlatten, Days
<1>7. TypeOK'
  BY <1>4, <1>5, <1>6 DEF FlattenCreate, IInv, TypeOK
<1> QED BY <1>4, <1>7, Assemble

\* A quiet step of a task or a command.
LEMMA QuietStepKeeps ==
  ASSUME IInv,
         CreateExit \/ EmergencyReduce \/ FlattenRetry \/ FlattenNothing \/
           FlattenBuysOpen \/ SetKillSwitch \/ NextDay
  PROVE  IInv'
<1> USE SellSideAssumption
<1> DEFINE FlatType == [pc : {"idle", "decide", "cancel"}, todo : SUBSET Ids,
                        tries : 0 .. MaxTries, emergency : BOOLEAN, day : Days]
<1>1. UNCHANGED <<ord, cand, latched, sending, over>>
  BY DEF CreateExit, EmergencyReduce, FlattenRetry, FlattenNothing, FlattenBuysOpen,
         SetKillSwitch, NextDay, UnchangedRest
<1>2. NoFlatten \in FlatType /\ OpenBuys \subseteq Ids
  BY DEF NoFlatten, Days, OpenBuys, Buys
<1>3. flat' \in FlatType
  <2>1. flat \in FlatType /\ today \in Days /\ 0 \in 0 .. MaxTries
    BY DEF IInv, TypeOK
  <2>2. CASE CreateExit
    BY <1>2, <2>1, <2>2 DEF CreateExit
  <2>3. CASE EmergencyReduce
    BY <1>2, <2>1, <2>3 DEF EmergencyReduce
  <2>4. CASE FlattenRetry
    BY <2>1, <2>4 DEF FlattenRetry
  <2>5. CASE FlattenNothing
    BY <1>2, <2>5 DEF FlattenNothing
  <2>6. CASE FlattenBuysOpen
    <3>1. flat.tries + 1 \in 0 .. MaxTries
      BY <2>1, <2>6 DEF FlattenBuysOpen
    <3> QED BY <1>2, <2>1, <2>6, <3>1 DEF FlattenBuysOpen
  <2>7. CASE SetKillSwitch \/ NextDay
    BY <2>1, <2>7 DEF SetKillSwitch, NextDay
  <2> QED BY <2>2, <2>3, <2>4, <2>5, <2>6, <2>7
<1>4. today' \in Days /\ halted' \subseteq Days /\ override' \subseteq Days
  BY DEF CreateExit, EmergencyReduce, FlattenRetry, FlattenNothing, FlattenBuysOpen,
         SetKillSwitch, NextDay, UnchangedRest, ConsumeGrant, IInv, TypeOK, Days
<1>5. commands' \in 0 .. MaxCommands /\ UNCHANGED prot
  BY DEF CreateExit, EmergencyReduce, FlattenRetry, FlattenNothing, FlattenBuysOpen,
         SetKillSwitch, NextDay, UnchangedRest, Command, IInv, TypeOK
<1>6. TypeOK'
  BY <1>1, <1>3, <1>4, <1>5 DEF IInv, TypeOK
<1> QED BY <1>1, <1>6, QuietKeeps

\* A step on the candidates that names no new order.
LEMMA CandidateMoves ==
  ASSUME IInv, UNCHANGED ord, UnchangedRest, UNCHANGED <<prot, flat>>,
         cand' \in [Cands -> CandRecord],
         \A c \in Cands : cand'[c].st \in {"PENDING", "APPROVED"} =>
           \/ cand[c].st \in {"PENDING", "APPROVED"} /\ cand'[c].born = cand[c].born
           \/ \A s \in Sells(ord) : s <= cand'[c].born
  PROVE  IInv'
<1>1. TypeOK'
  BY DEF UnchangedRest, IInv, TypeOK
<1>2. MintedInOrder' /\ OrdersAreSound' /\ SendingIsClaimed' /\ ExitIsAlone'
  BY DEF IInv, MintedInOrder, OrdersAreSound, SendingIsClaimed, ExitIsAlone, Sells, Buys,
         UnchangedRest
<1>3. ExitIsCovered' /\ ShortOnlyByOver' /\ OverfillIsOnRecord'
  BY DEF IInv, ExitIsCovered, ShortOnlyByOver, OverfillIsOnRecord, Overfilled, Sells,
         UnchangedRest
<1>4. Preempted'
  BY DEF IInv, Preempted, Sells, Buys
<1> QED BY <1>1, <1>2, <1>3, <1>4 DEF IInv

\* A proposal is younger than every exit there is.
LEMMA CreateCandidateKeeps == ASSUME IInv, NEW c \in Cands, CreateCandidate(c) PROVE IInv'
<1>1. PICK n \in Ids : \A i \in Ids : ord[i].kind # "none" <=> i <= n
  BY DEF IInv, MintedInOrder
<1>2. Minted(ord) = n /\ n \in 0 .. MaxOrders
  BY <1>1, MintedCount, SellSideAssumption DEF Ids
<1>3. \A s \in Sells(ord) : s <= n
  BY <1>1 DEF Sells
<1>4. cand' = [cand EXCEPT ![c] = [st |-> "PENDING", day |-> today, born |-> n]]
  BY <1>2 DEF CreateCandidate
<1>5. cand' \in [Cands -> CandRecord]
  BY <1>2, <1>4 DEF IInv, TypeOK, CandRecord
<1>6. \A d \in Cands : cand'[d] = cand[d] \/ cand'[d].born = n
  BY <1>4 DEF IInv, TypeOK
<1> QED BY <1>3, <1>5, <1>6, CandidateMoves DEF CreateCandidate

\* A decision on a proposal changes only its status.
LEMMA DecideCandidateKeeps == ASSUME IInv, NEW c \in Cands, DecideCandidate(c) PROVE IInv'
<1>1. cand \in [Cands -> CandRecord] /\ cand[c] \in CandRecord
  BY DEF IInv, TypeOK
<1>2. PICK st \in {"PENDING", "APPROVED", "REJECTED"} : cand' = [cand EXCEPT ![c].st = st]
  BY DEF DecideCandidate
<1>3. cand[c].st \in {"PENDING", "APPROVED"}
  BY DEF DecideCandidate
<1>4. cand' \in [Cands -> CandRecord]
  BY <1>1, <1>2 DEF CandRecord
<1>5. \A d \in Cands : cand'[d] = cand[d] \/ (d = c /\ cand'[d].born = cand[d].born)
  BY <1>1, <1>2 DEF CandRecord
<1> QED BY <1>3, <1>4, <1>5, CandidateMoves DEF DecideCandidate

\* A buy is minted only while no exit is open.
LEMMA CreateOrderForCandidateKeeps ==
  ASSUME IInv, NEW c \in Cands, CreateOrderForCandidate(c) PROVE IInv'
<1>1. cand \in [Cands -> CandRecord] /\ cand[c] \in CandRecord /\ cand[c].st = "APPROVED"
  BY DEF IInv, TypeOK, CreateOrderForCandidate
<1>2. CASE cand' = [cand EXCEPT ![c].st = "EXPIRED"] /\ UNCHANGED ord
  <2>1. cand' \in [Cands -> CandRecord]
    BY <1>1, <1>2 DEF CandRecord
  <2>2. \A d \in Cands : cand'[d] = cand[d] \/ cand'[d].st = "EXPIRED"
    BY <1>1, <1>2 DEF CandRecord
  <2> QED BY <1>2, <2>1, <2>2, CandidateMoves DEF CreateOrderForCandidate
<1>3. CASE /\ ~ExitMayExecute(ord) /\ Minted(ord) < MaxOrders
           /\ ord' = [ord EXCEPT ![Minted(ord) + 1] =
                        NewOrder("buy", BuyQty, cand[c].day, cand[c].born)]
           /\ cand' = [cand EXCEPT ![c].st = "ORDERED"]
  <2>1. PICK n \in Ids : \A i \in Ids : ord[i].kind # "none" <=> i <= n
    BY DEF IInv, MintedInOrder
  <2> DEFINE m == n + 1
             r == NewOrder("buy", BuyQty, cand[c].day, cand[c].born)
  <2>2. /\ m \in Ids /\ ord[m].kind = "none"
        /\ ord' = [ord EXCEPT ![m] = r]
    <3>1. Minted(ord) = n
      BY <2>1, MintedCount
    <3>2. n \in 1 .. MaxOrders /\ n < MaxOrders /\ MaxOrders \in Nat
      BY <1>3, <3>1, SellSideAssumption DEF Ids
    <3>3. m \in Ids /\ ~(m <= n)
      BY <3>2 DEF Ids
    <3> QED BY <1>3, <2>1, <3>1, <3>3
  <2>3. r \in OrderRecord
    BY <1>1, SellSideAssumption DEF NewOrder, OrderRecord, CandRecord, Kinds, OrderStatus
  <2>4. /\ ord \in [Ids -> OrderRecord] /\ ord' \in [Ids -> OrderRecord]
        /\ ord'[m] = r /\ \A i \in Ids \ {m} : ord'[i] = ord[i]
    BY <2>2, <2>3 DEF IInv, TypeOK
  <2>5. /\ r.kind = "buy" /\ r.booked = 0 /\ r.executed = 0 /\ r.qty = BuyQty
        /\ r.born = cand[c].born /\ Sound(r)
    BY DEF NewOrder, Sound
  <2> HIDE DEF r
  <2>6. ord[m].booked = 0 /\ ord[m].executed = 0
    BY <2>2, <2>4 DEF IInv, OrdersAreSound, Sound
  <2>7. Sells(ord') = Sells(ord) /\ Buys(ord') = Buys(ord) \cup {m}
    <3> HIDE DEF m
    <3> QED BY <2>2, <2>4, <2>5 DEF Sells, Buys
  <2>8. \A i \in Ids : /\ Signed(ord'[i], ord'[i].booked) = Signed(ord[i], ord[i].booked)
                       /\ Signed(ord'[i], ord'[i].executed) = Signed(ord[i], ord[i].executed)
    <3>1. /\ Signed(r, r.booked) = 0 /\ Signed(r, r.executed) = 0
          /\ Signed(ord[m], ord[m].booked) = 0 /\ Signed(ord[m], ord[m].executed) = 0
      BY <2>2, <2>5, <2>6 DEF Signed
    <3> QED BY <2>4, <3>1
  <2>9. Position(ord') = Position(ord) /\ VenueHolds(ord') = VenueHolds(ord)
    BY <2>8, SamePosition, SameHolding
  <2>10. \A s \in Sells(ord') : ~OpenOrder(ord'[s])
    <3>1. m \notin Sells(ord)
      BY <2>2 DEF Sells
    <3> HIDE DEF m
    <3> QED BY <1>3, <2>4, <2>7, <3>1 DEF ExitMayExecute, OpenOrder, Sells
  <2>11. MintedInOrder'
    <3>1. \A i \in Ids : ord'[i].kind # "none" <=> i <= m
      BY <2>1, <2>2, <2>4, <2>5 DEF Ids
    <3> QED BY <2>2, <3>1 DEF MintedInOrder
  <2>12. OrdersAreSound'
    BY <2>4, <2>5 DEF IInv, OrdersAreSound
  <2>13. ExitIsAlone' /\ ExitIsCovered' /\ ShortOnlyByOver'
    BY <2>9, <2>10 DEF ExitIsAlone, ExitIsCovered, ShortOnlyByOver, IInv,
                       CreateOrderForCandidate, UnchangedRest
  <2>14. cand' \in [Cands -> CandRecord] /\
         \A d \in Cands : cand'[d] = cand[d] \/ cand'[d].st = "ORDERED"
    BY <1>1, <1>3 DEF CandRecord
  <2>15. Preempted'
    <3>1. \A s \in Sells(ord') : s <= ord'[m].born
      BY <1>1, <2>4, <2>5, <2>7 DEF IInv, Preempted
    <3>2. \A b \in Buys(ord') : b = m \/ (b \in Buys(ord) /\ ord'[b] = ord[b])
      BY <2>4, <2>7 DEF Buys
    <3> HIDE DEF m
    <3> QED BY <2>7, <2>14, <3>1, <3>2 DEF IInv, Preempted
  <2>16. SendingIsClaimed'
    <3>1. ord[m].status = "TERMINAL"
      BY <2>2 DEF IInv, OrdersAreSound, Sound
    <3>2. CASE sending # 0
      <4>1. sending \in Ids /\ sending # m
        BY <3>1, <3>2 DEF IInv, TypeOK, SendingIsClaimed, Ids
      <4> HIDE DEF m
      <4> QED BY <2>4, <4>1 DEF IInv, SendingIsClaimed, CreateOrderForCandidate, UnchangedRest
    <3>3. CASE sending = 0
      BY <3>3 DEF SendingIsClaimed, CreateOrderForCandidate, UnchangedRest
    <3> QED BY <3>2, <3>3
  <2>17. OverfillIsOnRecord'
    <3>1. \A i \in Ids : ord'[i].booked > ord'[i].qty => ord[i].booked > ord[i].qty
      BY <2>4, <2>5, SellSideAssumption
    <3> QED BY <2>9, <3>1 DEF IInv, OverfillIsOnRecord, Overfilled,
                              CreateOrderForCandidate, UnchangedRest
  <2>18. TypeOK'
    BY <2>4, <2>14 DEF IInv, TypeOK, CreateOrderForCandidate, UnchangedRest
  <2> QED BY <2>11, <2>12, <2>13, <2>15, <2>16, <2>17, <2>18 DEF IInv
<1> QED BY <1>2, <1>3 DEF CreateOrderForCandidate

\* A step of the order path that neither opens, claims nor executes.
LEMMA PlainMove ==
  ASSUME IInv, NEW i \in Ids, NEW r \in OrderRecord, Move(i, r),
         UNCHANGED <<latched, today, halted, override, commands, over>>,
         r.kind = ord[i].kind, r.qty = ord[i].qty, r.born = ord[i].born,
         r.executed = ord[i].executed, r.booked = ord[i].booked, Sound(r),
         OpenOrder(r) => OpenOrder(ord[i]), Claimed(r) => Claimed(ord[i]),
         r.status # "TERMINAL" => ord[i].status # "TERMINAL",
         sending' \in {0, sending},
         sending' = i => r.status = "SUBMITTING" /\ r.recovery = "none"
  PROVE  IInv'
<1>1. /\ ord' = [ord EXCEPT ![i] = r] /\ UNCHANGED <<cand, over>> /\ UNCHANGED latched
      /\ ord \in [Ids -> OrderRecord]
  BY DEF Move, IInv, TypeOK
<1>2. TableInv'
  BY <1>1, MoveKeepsTable
<1>3. OverfillIsOnRecord'
  BY <1>1, MoveKeepsLatch
<1>4. SendingIsClaimed'
  <2>1. CASE sending' # 0
    <3>1. sending' = sending /\ sending \in Ids
      BY <2>1 DEF IInv, TypeOK, Ids
    <3> QED BY <1>1, <2>1, <3>1 DEF IInv, SendingIsClaimed
  <2> QED BY <2>1 DEF SendingIsClaimed
<1>5. TypeOK'
  BY <1>1, SellSideAssumption DEF Move, IInv, TypeOK
<1> QED BY <1>2, <1>3, <1>4, <1>5, Assemble

\* The facts about an order the steps start from.
LEMMA OrderFacts ==
  ASSUME IInv, NEW i \in Ids
  PROVE  /\ ord \in [Ids -> OrderRecord] /\ ord[i] \in OrderRecord /\ Sound(ord[i])
         /\ ord[i].executed \in Nat /\ ord[i].booked \in Nat /\ ord[i].qty \in Nat
BY DEF IInv, TypeOK, OrdersAreSound, OrderRecord

\* The venue shows the order working.
LEMMA AcknowledgeKeeps == ASSUME IInv, NEW i \in Ids, Acknowledge(i) PROVE IInv'
<1> DEFINE r == [ord[i] EXCEPT !.status = "SUBMITTED"]
<1>1. /\ ord[i].status \in {"SUBMITTING", "TIMEOUT_QUARANTINE"} /\ ord[i].venue # "absent"
      /\ Move(i, r) /\ sending' = 0
      /\ UNCHANGED <<latched, today, halted, override, commands, over>>
  BY DEF Acknowledge, LoopWrites
<1>2. /\ r \in OrderRecord /\ r.status = "SUBMITTED" /\ r.kind = ord[i].kind
      /\ r.qty = ord[i].qty /\ r.born = ord[i].born /\ r.executed = ord[i].executed
      /\ r.booked = ord[i].booked /\ r.venue = ord[i].venue /\ r.recovery = ord[i].recovery
  BY OrderFacts DEF OrderRecord, OrderStatus, MayExecuteStatuses
<1> HIDE DEF r
<1>3. Sound(r)
  BY <1>1, <1>2, OrderFacts DEF Sound
<1>4. OpenOrder(ord[i]) /\ Claimed(ord[i]) /\ ord[i].status # "TERMINAL"
  BY <1>1 DEF OpenOrder, Claimed, MayExecuteStatuses
<1>5. 0 # i
  BY DEF Ids
<1> QED BY <1>1, <1>2, <1>3, <1>4, <1>5, PlainMove

\* An order whose answer was lost stays claimed.
LEMMA LoseTrackKeeps == ASSUME IInv, NEW i \in Ids, LoseTrack(i) PROVE IInv'
<1>1. PICK r \in {[ord[i] EXCEPT !.status = "TIMEOUT_QUARANTINE"],
                  [ord[i] EXCEPT !.recovery = "unresolved"],
                  [ord[i] EXCEPT !.recovery = "needs_review"]} : LoopWrites(i, r)
  BY DEF LoseTrack
<1>2. /\ ord[i].status = "SUBMITTING" /\ Move(i, r) /\ sending' = 0
      /\ UNCHANGED <<latched, today, halted, override, commands, over>>
  BY <1>1 DEF LoseTrack, LoopWrites
<1>3. /\ r \in OrderRecord /\ r.status \in {"SUBMITTING", "TIMEOUT_QUARANTINE"}
      /\ r.kind = ord[i].kind
      /\ r.qty = ord[i].qty /\ r.born = ord[i].born /\ r.executed = ord[i].executed
      /\ r.booked = ord[i].booked /\ r.venue = ord[i].venue
  BY <1>1, <1>2, OrderFacts DEF OrderRecord, OrderStatus, MayExecuteStatuses
<1>4. Sound(r)
  BY <1>2, <1>3, OrderFacts DEF Sound
<1>5. OpenOrder(ord[i]) /\ Claimed(ord[i]) /\ ord[i].status # "TERMINAL"
  BY <1>2 DEF OpenOrder, Claimed, MayExecuteStatuses
<1>6. 0 # i
  BY DEF Ids
<1> QED BY <1>2, <1>3, <1>4, <1>5, <1>6, PlainMove

\* A claim is released only for an order that never left.
LEMMA ReleaseClaimKeeps == ASSUME IInv, NEW i \in Ids, ReleaseClaim(i) PROVE IInv'
<1> DEFINE r == [ord[i] EXCEPT !.status = "CREATED"]
<1>1. /\ ord[i].status = "SUBMITTING" /\ ord[i].venue = "absent"
      /\ Move(i, r) /\ sending' = 0 /\ sending = i
      /\ UNCHANGED <<latched, today, halted, override, commands, over>>
  BY DEF ReleaseClaim, LoopWrites
<1>2. /\ r \in OrderRecord /\ r.status = "CREATED" /\ r.kind = ord[i].kind
      /\ r.qty = ord[i].qty /\ r.born = ord[i].born /\ r.executed = ord[i].executed
      /\ r.booked = ord[i].booked /\ r.venue = ord[i].venue /\ r.recovery = ord[i].recovery
  BY OrderFacts DEF OrderRecord, OrderStatus, MayExecuteStatuses
<1> HIDE DEF r
<1>3. 0 # i
  BY DEF Ids
<1>4. ord[i].recovery = "none"
  BY <1>1, <1>3 DEF IInv, SendingIsClaimed
<1>5. Sound(r)
  BY <1>1, <1>2, <1>4, OrderFacts DEF Sound
<1>6. OpenOrder(ord[i]) /\ Claimed(ord[i]) /\ ord[i].status # "TERMINAL"
  BY <1>1 DEF OpenOrder, Claimed, MayExecuteStatuses
<1> QED BY <1>1, <1>2, <1>3, <1>5, <1>6, PlainMove

\* A recovery record is closed.
LEMMA ResolveRecoveryKeeps == ASSUME IInv, NEW i \in Ids, ResolveRecovery(i) PROVE IInv'
<1> DEFINE r == [ord[i] EXCEPT !.recovery = "none"]
<1>1. /\ RecoveryOpen(ord[i]) /\ Move(i, r) /\ sending' = sending
      /\ UNCHANGED <<latched, today, halted, override, commands, over>>
  BY DEF ResolveRecovery, UnchangedRest
<1>2. /\ r \in OrderRecord /\ r.status = ord[i].status /\ r.kind = ord[i].kind
      /\ r.qty = ord[i].qty /\ r.born = ord[i].born /\ r.executed = ord[i].executed
      /\ r.booked = ord[i].booked /\ r.venue = ord[i].venue /\ r.recovery = "none"
  BY OrderFacts DEF OrderRecord
<1> HIDE DEF r
<1>3. Sound(r)
  BY <1>2, OrderFacts DEF Sound
<1>4. OpenOrder(ord[i]) /\ Claimed(ord[i])
  BY <1>1 DEF OpenOrder, Claimed
<1>5. sending = i => ord[i].status = "SUBMITTING"
  BY DEF IInv, SendingIsClaimed, Ids
<1> QED BY <1>1, <1>2, <1>3, <1>4, <1>5, PlainMove

\* The venue takes a claimed order, or ends it.
LEMMA VenueMovesKeep ==
  ASSUME IInv, NEW i \in Ids, VenueTakes(i) \/ VenueEnds(i) PROVE IInv'
<1>1. PICK v \in {"live", "done"} : Move(i, [ord[i] EXCEPT !.venue = v])
  BY DEF VenueTakes, VenueEnds
<1> DEFINE r == [ord[i] EXCEPT !.venue = v]
<1>2. /\ Move(i, r) /\ sending' = sending
      /\ UNCHANGED <<latched, today, halted, override, commands, over>>
  BY <1>1 DEF VenueTakes, VenueEnds, UnchangedRest
<1>3. /\ r \in OrderRecord /\ r.status = ord[i].status /\ r.kind = ord[i].kind
      /\ r.qty = ord[i].qty /\ r.born = ord[i].born /\ r.executed = ord[i].executed
      /\ r.booked = ord[i].booked /\ r.venue = v /\ r.recovery = ord[i].recovery
  BY OrderFacts DEF OrderRecord
<1> HIDE DEF r
<1>4. ord[i].status \notin {"CREATED", "TERMINAL"}
  BY OrderFacts DEF VenueTakes, VenueEnds, Sound
<1>5. Sound(r)
  BY <1>3, <1>4, OrderFacts DEF Sound
<1>6. /\ OpenOrder(r) => OpenOrder(ord[i])
      /\ Claimed(r) => Claimed(ord[i])
  BY <1>3 DEF OpenOrder, Claimed, RecoveryOpen
<1>7. sending = i => ord[i].status = "SUBMITTING" /\ ord[i].recovery = "none"
  BY DEF IInv, SendingIsClaimed, Ids
<1> QED BY <1>2, <1>3, <1>5, <1>6, <1>7, PlainMove

\* The share a venue executes: the exit it belongs to is covered, or the share
\* is counted as beyond an order's size; a buy only adds to the holding.
LEMMA VenueExecutesKeeps == ASSUME IInv, NEW i \in Ids, VenueExecutes(i) PROVE IInv'
<1> DEFINE r == [ord[i] EXCEPT !.executed = @ + 1]
<1>1. /\ ord' = [ord EXCEPT ![i] = r] /\ ord[i].venue = "live"
      /\ UNCHANGED <<cand, prot, flat, sending, latched, today, halted, override, commands>>
  BY DEF VenueExecutes, Move
<1>2. /\ r \in OrderRecord /\ r.status = ord[i].status /\ r.kind = ord[i].kind
      /\ r.qty = ord[i].qty /\ r.born = ord[i].born /\ r.executed = ord[i].executed + 1
      /\ r.booked = ord[i].booked /\ r.venue = ord[i].venue /\ r.recovery = ord[i].recovery
  BY OrderFacts DEF OrderRecord
<1> HIDE DEF r
<1>3. ord[i].status \in MayExecuteStatuses /\ ord[i].kind # "none"
  BY <1>1, OrderFacts DEF Sound, OrderRecord, OrderStatus
<1>4. /\ ord \in [Ids -> OrderRecord] /\ ord' \in [Ids -> OrderRecord]
      /\ ord'[i] = r /\ \A j \in Ids \ {i} : ord'[j] = ord[j]
  BY <1>1, <1>2 DEF IInv, TypeOK
<1>5. \A j \in Ids : /\ ord'[j].kind = ord[j].kind /\ ord'[j].qty = ord[j].qty
                     /\ ord'[j].born = ord[j].born /\ ord'[j].status = ord[j].status
                     /\ ord'[j].recovery = ord[j].recovery
                     /\ ord'[j].booked = ord[j].booked
  BY <1>2, <1>4
<1>6. Sells(ord') = Sells(ord) /\ Buys(ord') = Buys(ord)
  BY <1>5 DEF Sells, Buys
<1>7. \A j \in Ids : /\ OpenOrder(ord'[j]) <=> OpenOrder(ord[j])
                     /\ Claimed(ord'[j]) <=> Claimed(ord[j])
  BY <1>5 DEF OpenOrder, Claimed, RecoveryOpen
<1>8. /\ VenueHolds(ord') = VenueHolds(ord) + Signed(r, 1)
      /\ VenueHolds(ord) \in Int
  <2>1. r.executed - ord[i].executed = 1
    BY <1>2, OrderFacts
  <2>2. VenueHolds([ord EXCEPT ![i] = r])
          = VenueHolds(ord) + Signed(r, r.executed - ord[i].executed)
    BY <1>2, <1>4, ExecutedHolding
  <2> QED BY <1>1, <1>4, <2>1, <2>2, SumsInt
<1>9. OpenOrder(ord[i]) /\ Claimed(ord[i])
  BY <1>3 DEF OpenOrder, Claimed, MayExecuteStatuses
<1>10. MintedInOrder'
  BY <1>5 DEF IInv, MintedInOrder
<1>11. OrdersAreSound'
  <2>1. Sound(r)
    BY <1>1, <1>2, <1>3, OrderFacts DEF Sound, MayExecuteStatuses
  <2> QED BY <1>4, <2>1 DEF IInv, OrdersAreSound
<1>12. ExitIsAlone'
  BY <1>6, <1>7 DEF IInv, ExitIsAlone, Sells, Buys
<1>13. Preempted'
  BY <1>1, <1>5, <1>6 DEF IInv, Preempted, Sells, Buys
<1>14. over \in Nat /\ over' \in 0 .. MaxOver /\ over' \in Nat
  BY SellSideAssumption DEF VenueExecutes, IInv, TypeOK
<1>15. ExitIsCovered' /\ ShortOnlyByOver'
  <2>1. CASE ord[i].kind = "buy"
    <3>1. Signed(r, 1) = 1
      BY <1>2, <2>1 DEF Signed
    <3>2. i \in Buys(ord)
      BY <2>1 DEF Buys
    <3>3. \A s \in Sells(ord) : ~OpenOrder(ord[s])
      BY <1>9, <3>2 DEF IInv, ExitIsAlone
    <3>4. ExitIsCovered'
      BY <1>6, <1>7, <3>3 DEF ExitIsCovered, Sells
    <3>5. over' >= over
      BY <1>14 DEF VenueExecutes
    <3> QED BY <1>8, <1>14, <3>1, <3>4, <3>5 DEF IInv, ShortOnlyByOver
  <2>2. CASE ord[i].kind # "buy"
    <3>1. Signed(r, 1) = 0 - 1
      BY <1>2, <1>3, <2>2 DEF Signed
    <3>2. i \in Sells(ord)
      BY <1>3, <2>2, <1>4 DEF Sells, OrderRecord, Kinds
    <3>3. \A s \in Sells(ord) : OpenOrder(ord[s]) => s = i
      BY <1>9, <3>2 DEF IInv, ExitIsAlone
    <3>4. VenueHolds(ord) + ord[i].executed >= ord[i].qty
      BY <1>9, <3>2 DEF IInv, ExitIsCovered
    <3>5. VenueHolds(ord') + ord'[i].executed >= ord'[i].qty
      BY <1>2, <1>4, <1>8, <3>1, <3>4, OrderFacts
    <3>6. ExitIsCovered'
      BY <1>6, <1>7, <3>3, <3>5 DEF ExitIsCovered, Sells
    <3>7. VenueHolds(ord) + over >= 0
      BY DEF IInv, ShortOnlyByOver
    <3>8. \/ ord[i].executed < ord[i].qty /\ over' = over
          \/ over' = over + 1
      BY DEF VenueExecutes
    <3>9. VenueHolds(ord') + over' >= 0
      BY <1>8, <1>14, <3>1, <3>4, <3>7, <3>8, OrderFacts
    <3> QED BY <3>6, <3>9 DEF ShortOnlyByOver
  <2> QED BY <2>1, <2>2
<1>16. OverfillIsOnRecord'
  BY <1>1, <1>2, MoveKeepsLatch
<1>17. SendingIsClaimed'
  BY <1>1, <1>5 DEF IInv, TypeOK, SendingIsClaimed, Ids
<1>18. TypeOK'
  BY <1>1, <1>4, <1>14 DEF IInv, TypeOK
<1> QED BY <1>10, <1>11, <1>12, <1>13, <1>15, <1>16, <1>17, <1>18 DEF IInv

\* The claim: a buy meets no open exit, an exit meets no claimed buy.
LEMMA ClaimOrderKeeps == ASSUME IInv, NEW i \in Ids, ClaimOrder(i) PROVE IInv'
<1> DEFINE r == [ord[i] EXCEPT !.status = "SUBMITTING"]
<1>1. /\ ord' = [ord EXCEPT ![i] = r] /\ ord[i].status = "CREATED" /\ ord[i].kind # "none"
      /\ UNCHANGED <<cand, prot, flat, latched, today, halted, override, commands, over>>
      /\ sending' = i
  BY DEF ClaimOrder, Move
<1>2. /\ r \in OrderRecord /\ r.status = "SUBMITTING" /\ r.kind = ord[i].kind
      /\ r.qty = ord[i].qty /\ r.born = ord[i].born /\ r.executed = ord[i].executed
      /\ r.booked = ord[i].booked /\ r.venue = ord[i].venue /\ r.recovery = ord[i].recovery
  BY OrderFacts DEF OrderRecord, OrderStatus, MayExecuteStatuses
<1> HIDE DEF r
<1>3. r.recovery = "none"
  BY <1>1, <1>2, OrderFacts DEF Sound
<1>4. /\ ord \in [Ids -> OrderRecord] /\ ord' \in [Ids -> OrderRecord]
      /\ ord'[i] = r /\ \A j \in Ids \ {i} : ord'[j] = ord[j]
  BY <1>1, <1>2 DEF IInv, TypeOK
<1>5. \A j \in Ids : /\ ord'[j].kind = ord[j].kind /\ ord'[j].qty = ord[j].qty
                     /\ ord'[j].born = ord[j].born /\ ord'[j].executed = ord[j].executed
                     /\ ord'[j].status # "TERMINAL" => ord[j].status # "TERMINAL"
                     /\ OpenOrder(ord'[j]) => OpenOrder(ord[j])
                     /\ Claimed(ord'[j]) => Claimed(ord[j]) \/ j = i
  BY <1>1, <1>2, <1>4 DEF OpenOrder
<1>6. Sells(ord') = Sells(ord) /\ Buys(ord') = Buys(ord)
  BY <1>5 DEF Sells, Buys
<1>7. VenueHolds(ord') = VenueHolds(ord)
  <2>1. \A j \in Ids : Signed(ord'[j], ord'[j].executed) = Signed(ord[j], ord[j].executed)
    BY <1>5 DEF Signed
  <2> QED BY <2>1, SameHolding
<1>8. ExitIsAlone'
  <2>1. CASE ord[i].kind = "buy"
    <3>1. \A s \in Sells(ord) : ~OpenOrder(ord[s])
      BY <2>1 DEF ClaimOrder, CrossSideBlocked, ExitMayExecute, OpenOrder
    <3> QED BY <1>5, <1>6, <3>1 DEF ExitIsAlone, Sells
  <2>2. CASE ord[i].kind # "buy"
    <3>1. i \notin Buys(ord)
      BY <2>2 DEF Buys
    <3> QED BY <1>5, <1>6, <3>1 DEF IInv, ExitIsAlone, Sells, Buys
  <2> QED BY <2>1, <2>2
<1>9. MintedInOrder' /\ Preempted'
  BY <1>1, <1>5, <1>6 DEF IInv, MintedInOrder, Preempted, Sells, Buys
<1>10. OrdersAreSound'
  <2>1. Sound(r)
    BY <1>1, <1>2, OrderFacts DEF Sound
  <2> QED BY <1>4, <2>1 DEF IInv, OrdersAreSound
<1>11. ExitIsCovered' /\ ShortOnlyByOver'
  BY <1>1, <1>5, <1>6, <1>7 DEF IInv, ExitIsCovered, ShortOnlyByOver, Sells
<1>12. OverfillIsOnRecord'
  BY <1>1, <1>2, MoveKeepsLatch
<1>13. SendingIsClaimed'
  BY <1>1, <1>2, <1>3, <1>4 DEF SendingIsClaimed
<1>14. TypeOK'
  BY <1>1, <1>4, SellSideAssumption DEF IInv, TypeOK, Ids
<1> QED BY <1>8, <1>9, <1>10, <1>11, <1>12, <1>13, <1>14 DEF IInv

\* What a recorded execution does to the position, and when it latches.
LEMMA RecordKeeps ==
  ASSUME IInv, NEW i \in Ids, NEW n \in Nat, NEW st \in {ord[i].status, "TERMINAL"},
         ord[i].booked <= n, n <= ord[i].executed, Record(i, n, st),
         st = "TERMINAL" => n = ord[i].executed /\ ord[i].venue = "done",
         ord[i].status # "CREATED"
  PROVE  IInv'
<1> DEFINE r == [ord[i] EXCEPT !.booked = n, !.status = st]
<1>1. /\ ord' = [ord EXCEPT ![i] = r]
      /\ UNCHANGED <<cand, prot, flat, today, halted, override, commands, over>>
      /\ latched' = (latched \/ (n > ord[i].booked /\ Overfills(i, n)))
      /\ sending' = IF st = "TERMINAL" /\ sending = i THEN 0 ELSE sending
  BY DEF Record, Move
<1>2. /\ r \in OrderRecord /\ r.status = st /\ r.kind = ord[i].kind
      /\ r.qty = ord[i].qty /\ r.born = ord[i].born /\ r.executed = ord[i].executed
      /\ r.booked = n /\ r.venue = ord[i].venue /\ r.recovery = ord[i].recovery
  BY OrderFacts DEF OrderRecord, OrderStatus
<1> HIDE DEF r
<1>3. Sound(r)
  BY <1>2, OrderFacts DEF Sound
<1>4. /\ OpenOrder(r) => OpenOrder(ord[i])
      /\ Claimed(r) => Claimed(ord[i])
      /\ r.status # "TERMINAL" => ord[i].status # "TERMINAL"
  BY <1>2 DEF OpenOrder, Claimed, RecoveryOpen, MayExecuteStatuses
<1>5. TableInv'
  <2>1. UNCHANGED <<cand, over>>
    BY <1>1
  <2> QED BY <1>1, <1>2, <1>3, <1>4, <2>1, MoveKeepsTable
<1>6. /\ ord \in [Ids -> OrderRecord] /\ ord' \in [Ids -> OrderRecord]
      /\ ord'[i] = r /\ \A j \in Ids \ {i} : ord'[j] = ord[j]
  BY <1>1, <1>2 DEF IInv, TypeOK
<1>7. /\ Position(ord') = Position(ord) + Signed(r, n - ord[i].booked)
      /\ Position(ord) \in Int
  BY <1>1, <1>2, <1>6, RecordedPosition, SumsInt
<1>8. OverfillIsOnRecord'
  <2>1. SUFFICES ASSUME Overfilled' PROVE latched'
    BY DEF OverfillIsOnRecord
  <2>2. CASE Overfilled
    BY <1>1, <2>2 DEF IInv, OverfillIsOnRecord
  <2>3. CASE ~Overfilled
    <3>1. Position(ord) >= 0 /\ \A j \in Ids : ~(ord[j].booked > ord[j].qty)
      BY <1>7, <2>3 DEF Overfilled
    <3>2. CASE \E j \in Ids : ord'[j].booked > ord'[j].qty
      <4>1. n > ord[i].qty
        BY <1>2, <1>6, <3>1, <3>2
      <4>2. n > ord[i].booked
        BY <3>1, <4>1, OrderFacts
      <4> QED BY <1>1, <4>1, <4>2 DEF Overfills
    <3>3. CASE Position(ord') < 0
      <4>1. ord[i].kind # "buy" /\ ord[i].kind # "none"
        BY <1>2, <1>7, <3>1, <3>3, OrderFacts DEF Signed
      <4>2. Signed(r, n - ord[i].booked) = 0 - (n - ord[i].booked)
        BY <1>2, <4>1 DEF Signed
      <4>3. n - ord[i].booked > Position(ord) /\ n > ord[i].booked
        BY <1>7, <3>1, <3>3, <4>2, OrderFacts
      <4> QED BY <1>1, <4>1, <4>3 DEF Overfills
    <3> QED BY <2>1, <3>2, <3>3 DEF Overfilled
  <2> QED BY <2>2, <2>3
<1>9. SendingIsClaimed'
  <2>1. CASE sending' # 0
    <3>1. sending' = sending /\ sending \in Ids
      BY <1>1, <2>1 DEF IInv, TypeOK, Ids
    <3>2. sending = i => st = ord[i].status
      BY <1>1, <2>1, <3>1
    <3> QED BY <1>2, <1>6, <2>1, <3>1, <3>2 DEF IInv, SendingIsClaimed
  <2> QED BY <2>1 DEF SendingIsClaimed
<1>10. latched' \in BOOLEAN
  BY <1>1 DEF IInv, TypeOK
<1>11. sending' \in 0 .. MaxOrders
  BY <1>1, SellSideAssumption DEF IInv, TypeOK
<1>12. TypeOK'
  BY <1>1, <1>6, <1>10, <1>11 DEF IInv, TypeOK
<1> QED BY <1>5, <1>8, <1>9, <1>12, Assemble

\* A poll or the operator records executions of a working order.
LEMMA RecordFillKeeps == ASSUME IInv, NEW i \in Ids, RecordFill(i) PROVE IInv'
<1>1. PICK n \in ord[i].booked + 1 .. ord[i].executed : Record(i, n, ord[i].status)
  BY DEF RecordFill
<1>2. n \in Nat /\ ord[i].booked < n /\ n <= ord[i].executed
  BY OrderFacts
<1>3. ord[i].status # "CREATED" /\ ord[i].status # "TERMINAL"
  BY <1>2, OrderFacts DEF RecordFill, Sound, RecoveryOpen
<1> QED BY <1>1, <1>2, <1>3, RecordKeeps, OrderFacts

\* An order ends with its last executions recorded.
LEMMA SettleKeeps == ASSUME IInv, NEW i \in Ids, Settle(i) PROVE IInv'
<1>1. /\ ord[i].status \in MayExecuteStatuses /\ ord[i].venue = "done"
      /\ Record(i, ord[i].executed, "TERMINAL")
  BY DEF Settle
<1>2. ord[i].booked <= ord[i].executed /\ ord[i].executed \in Nat
  BY OrderFacts DEF Sound
<1>3. ord[i].status # "CREATED"
  BY <1>1 DEF MayExecuteStatuses
<1> QED BY <1>1, <1>2, <1>3, RecordKeeps

-----------------------------------------------------------------------------
(* The invariant *)

\* The position held at the start: nothing is for sale, nothing is overfilled.
LEMMA InitInv == Init => IInv
<1> SUFFICES ASSUME Init PROVE IInv
  OBVIOUS
<1> USE SellSideAssumption
<1>1. 1 \in Ids /\ 1 \in Days /\ 0 \in 0 .. MaxOrders
  BY DEF Ids, Days
<1>2. /\ HeldOrder \in OrderRecord /\ HeldOrder.kind = "buy" /\ HeldOrder.status = "TERMINAL"
      /\ HeldOrder.booked = Held /\ HeldOrder.executed = Held /\ HeldOrder.qty = Held
      /\ HeldOrder.recovery = "none" /\ HeldOrder.venue = "done"
  BY <1>1 DEF HeldOrder, NewOrder, OrderRecord, Kinds, OrderStatus
<1>3. /\ NoOrder \in OrderRecord /\ NoOrder.kind = "none" /\ NoOrder.status = "TERMINAL"
      /\ NoOrder.booked = 0 /\ NoOrder.executed = 0 /\ NoOrder.qty = 0
      /\ NoOrder.recovery = "none" /\ NoOrder.venue = "done"
  BY <1>1 DEF NoOrder, NewOrder, OrderRecord, Kinds, OrderStatus
<1>4. /\ ord \in [Ids -> OrderRecord] /\ ord[1] = HeldOrder
      /\ \A i \in Ids \ {1} : ord[i] = NoOrder
  BY <1>1, <1>2, <1>3 DEF Init
<1>5. TypeOK
  <2>1. cand \in [Cands -> CandRecord]
    BY <1>1 DEF Init, CandRecord
  <2>2. prot \in [pc : {"idle", "cancel"}, todo : SUBSET Ids, day : Days]
    BY <1>1 DEF Init
  <2>3. flat \in [pc : {"idle", "decide", "cancel"}, todo : SUBSET Ids,
                  tries : 0 .. MaxTries, emergency : BOOLEAN, day : Days]
    BY <1>1 DEF Init, NoFlatten
  <2>4. latched \in BOOLEAN
    BY DEF Init
  <2>5. /\ today \in Days /\ halted \subseteq Days /\ override \subseteq Days
        /\ sending \in 0 .. MaxOrders /\ commands \in 0 .. MaxCommands
        /\ over \in 0 .. MaxOver
    BY <1>1 DEF Init
  <2> QED BY <1>4, <2>1, <2>2, <2>3, <2>4, <2>5 DEF TypeOK
<1>6. MintedInOrder
  <2>1. \A i \in Ids : ord[i].kind # "none" <=> i <= 1
    BY <1>1, <1>2, <1>3, <1>4 DEF Ids
  <2> QED BY <1>1, <2>1 DEF MintedInOrder
<1>7. OrdersAreSound
  BY <1>2, <1>3, <1>4 DEF OrdersAreSound, Sound
<1>8. Sells(ord) = {} /\ sending = 0 /\ over = 0
  BY <1>2, <1>3, <1>4 DEF Sells, Init
<1>9. Position(ord) = Held /\ VenueHolds(ord) = Held
  <2>1. /\ Signed(ord[1], ord[1].booked) = Held /\ Signed(ord[1], ord[1].executed) = Held
        /\ \A i \in Ids \ {1} : Signed(ord[i], ord[i].booked) = 0
        /\ \A i \in Ids \ {1} : Signed(ord[i], ord[i].executed) = 0
    BY <1>2, <1>3, <1>4 DEF Signed
  <2> QED BY <1>1, <2>1, IdsFinite, SumSingle DEF Position, VenueHolds
<1>10. OverfillIsOnRecord
  BY <1>2, <1>3, <1>4, <1>9 DEF OverfillIsOnRecord, Overfilled
<1> QED BY <1>5, <1>6, <1>7, <1>8, <1>9, <1>10
        DEF IInv, SendingIsClaimed, ExitIsAlone, ExitIsCovered, ShortOnlyByOver, Preempted

\* Every step of loop, operator, candidates, venue and controls preserves it.
LEMMA NextInv == IInv /\ [Next]_vars => IInv'
<1> SUFFICES ASSUME IInv, [Next]_vars PROVE IInv'
  OBVIOUS
<1>1. CASE UNCHANGED vars
  <2>1. TypeOK'
    BY <1>1 DEF IInv, TypeOK, vars
  <2> QED BY <1>1, <2>1, QuietKeeps DEF vars
<1>2. CASE ProtectStep
  BY <1>2, ProtectStartKeeps, OpenProtectionExitKeeps, ProtectCancelBuyKeeps DEF ProtectStep
<1>3. CASE FlattenStep
  BY <1>3, QuietStepKeeps, FlattenCreateKeeps, FlattenCancelBuyKeeps DEF FlattenStep
<1>4. CASE CandidateStep
  BY <1>4, CreateCandidateKeeps, DecideCandidateKeeps, CreateOrderForCandidateKeeps
     DEF CandidateStep
<1>5. CASE OrderStep
  BY <1>5, ClaimOrderKeeps, AcknowledgeKeeps, LoseTrackKeeps, ReleaseClaimKeeps,
     RecordFillKeeps, SettleKeeps, ResolveRecoveryKeeps DEF OrderStep
<1>6. CASE VenueStep
  BY <1>6, VenueMovesKeep, VenueExecutesKeeps DEF VenueStep
<1>7. CASE CommandStep
  BY <1>7, QuietStepKeeps DEF CommandStep
<1> QED BY <1>1, <1>2, <1>3, <1>4, <1>5, <1>6, <1>7 DEF Next

\* The inductive invariant holds in every reachable state.
THEOREM SellSideInvariant == Spec => []IInv
BY InitInv, NextInv, PTL DEF Spec

\* Every variable keeps its type; orders stay well-formed records.
THEOREM SellSideTypes == Spec => []TypeOK
<1>1. IInv => TypeOK
  BY DEF IInv
<1> QED BY <1>1, SellSideInvariant, PTL

\* An order the venue holds or may still receive is claimed in the store.
LEMMA InMarketIsClaimed ==
  ASSUME IInv, NEW i \in Ids, InMarket(i)
  PROVE  Claimed(ord[i]) /\ OpenOrder(ord[i])
<1>1. ord[i].status \in MayExecuteStatuses
  BY OrderFacts DEF InMarket, Sound, OrderRecord, OrderStatus, MayExecuteStatuses
<1> QED BY <1>1 DEF Claimed, OpenOrder, MayExecuteStatuses

\* A buy and a sell of the symbol are never both able to execute, whatever
\* sweep, candidate or command brought them there (the rails of
\* claim_order_for_submission, open_protection_exit and flatten_position).
THEOREM BuysAndSellsNeverMeet == Spec => []NoSelfCross
<1>1. IInv => NoSelfCross
  <2> SUFFICES ASSUME IInv, NEW b \in Buys(ord), NEW s \in Sells(ord),
                      InMarket(b), InMarket(s)
               PROVE  FALSE
    BY DEF NoSelfCross
  <2>1. b \in Ids /\ s \in Ids
    BY DEF Buys, Sells
  <2> QED BY <2>1, InMarketIsClaimed DEF IInv, ExitIsAlone
<1> QED BY <1>1, SellSideInvariant, PTL

\* What the venue holds covers everything still for sale, except shares it
\* executed beyond an order's size: exits are sized from recorded fills, and
\* an exit is minted only when every other order is settled.
THEOREM ExitsNeverGoShort == Spec => []NeverShort
<1>1. IInv => NeverShort
  <2> SUFFICES ASSUME IInv PROVE NeverShort
    OBVIOUS
  <2> DEFINE u == [i \in Ids |-> Unsold(i)]
  <2>1. VenueHolds(ord) \in Int /\ over \in Nat /\ VenueHolds(ord) + over >= 0
    BY SumsInt, SellSideAssumption DEF IInv, TypeOK, ShortOnlyByOver
  <2>2. IsFiniteSet(Sells(ord)) /\ Sells(ord) \subseteq Ids
    <3>1. Sells(ord) \subseteq Ids
      BY DEF Sells
    <3> QED BY <3>1, IdsFinite, FS_Subset
  <2>3. \A i \in Ids : u[i] \in Nat /\ (u[i] # 0 => InMarket(i))
    BY OrderFacts DEF Unsold
  <2>4. CASE \A s \in Sells(ord) : u[s] = 0
    <3>1. SumFunctionOnSet(u, Sells(ord)) = 0
      <4> HIDE DEF u
      <4> QED BY <2>2, <2>4, SumZero
    <3> QED BY <2>1, <3>1 DEF NeverShort
  <2>5. ASSUME NEW s \in Sells(ord), u[s] # 0 PROVE NeverShort
    <3>1. s \in Ids /\ OpenOrder(ord[s])
      BY <2>2, <2>3, <2>5, InMarketIsClaimed
    <3>2. \A t \in Sells(ord) \ {s} : u[t] = 0
      <4> SUFFICES ASSUME NEW t \in Sells(ord) \ {s}, u[t] # 0 PROVE FALSE
        OBVIOUS
      <4>1. OpenOrder(ord[t])
        BY <2>2, <2>3, InMarketIsClaimed
      <4> QED BY <3>1, <4>1 DEF IInv, ExitIsAlone
    <3>3. SumFunctionOnSet(u, Sells(ord)) = u[s]
      <4>1. u[s] \in Int
        BY <2>3, <3>1
      <4> HIDE DEF u
      <4> QED BY <2>2, <2>5, <3>2, <4>1, SumSingle
    <3>4. u[s] = ord[s].qty - ord[s].executed
      BY <2>5, <3>1 DEF Unsold
    <3>5. VenueHolds(ord) + ord[s].executed >= ord[s].qty
      BY <3>1 DEF IInv, ExitIsCovered
    <3>6. VenueHolds(ord) + over >= u[s]
      BY <2>1, <3>1, <3>4, <3>5, OrderFacts
    <3> QED BY <3>3, <3>6 DEF NeverShort
  <2> QED BY <2>4, <2>5
<1> QED BY <1>1, SellSideInvariant, PTL

-----------------------------------------------------------------------------
(* Steps: what may change an order, and the refinement *)

\* One order is rewritten; only a claim lets a local order go.
Rewrites(i) ==
  \E r \in OrderRecord :
    /\ ord' = [ord EXCEPT ![i] = r]
    /\ r.kind = ord[i].kind /\ r.executed = ord[i].executed /\ r.booked >= ord[i].booked
    /\ ord[i].status = "TERMINAL" => r.status = "TERMINAL"
    /\ ord[i].status \in {"CREATED", "TERMINAL"} => r.booked = ord[i].booked
    /\ ord[i].status = "CREATED" => r.status \in {"CREATED", "TERMINAL"} \/ ClaimOrder(i)

\* While trading is halted only a granted emergency reduce mints an exit.
Granted(k) ==
  today \in halted => k = "flatten" /\ today \in override /\ today \notin override'

\* Local orders are withdrawn and a new one takes the next slot.
Mints(g, m, r) ==
  /\ Withdrawn(g) /\ m \in Ids \ {1} /\ ord[m].kind = "none"
  /\ ord' = [g EXCEPT ![m] = r]
  /\ r.status = "CREATED" /\ r.executed = 0 /\ r.booked = 0
  /\ r.kind = "buy" \/ (r.kind \in {"floor", "flatten"} /\ Granted(r.kind))

\* The slot a new order takes is unused and is not the first.
LEMMA NextSlot ==
  ASSUME IInv, Minted(ord) < MaxOrders
  PROVE  Minted(ord) + 1 \in Ids \ {1} /\ ord[Minted(ord) + 1].kind = "none"
<1>1. PICK n \in Ids : \A i \in Ids : ord[i].kind # "none" <=> i <= n
  BY DEF IInv, MintedInOrder
<1>2. Minted(ord) = n
  BY <1>1, MintedCount
<1>3. n \in 1 .. MaxOrders /\ n < MaxOrders /\ MaxOrders \in Nat
  BY <1>2, SellSideAssumption DEF Ids
<1>4. n + 1 \in Ids \ {1} /\ ~(n + 1 <= n)
  BY <1>3 DEF Ids
<1> QED BY <1>1, <1>2, <1>4

\* Every step leaves the orders alone, rewrites one, executes one or mints one.
LEMMA Footprint ==
  ASSUME IInv, [Next]_vars
  PROVE  \/ UNCHANGED ord
         \/ \E i \in Ids : Rewrites(i)
         \/ \E i \in Ids : VenueExecutes(i)
         \/ \E g \in [Ids -> OrderRecord] : \E m \in Ids, r \in OrderRecord : Mints(g, m, r)
<1> DEFINE Goal == \/ UNCHANGED ord
                   \/ \E i \in Ids : Rewrites(i)
                   \/ \E i \in Ids : VenueExecutes(i)
                   \/ \E g \in [Ids -> OrderRecord] :
                        \E m \in Ids, r \in OrderRecord : Mints(g, m, r)
<1> SUFFICES Goal
  OBVIOUS
<1>1. CASE UNCHANGED vars
  BY <1>1 DEF vars
<1>2. ASSUME NEW i \in Ids, CancelOpenBuy(i) PROVE Goal
  <2>1. CASE UNCHANGED ord
    BY <2>1
  <2>2. CASE LocalCancelEligible(ord[i]) /\
             ord' = [ord EXCEPT ![i].status = "TERMINAL", ![i].venue = "done"]
    <3> DEFINE r == [ord[i] EXCEPT !.status = "TERMINAL", !.venue = "done"]
    <3>1. ord' = [ord EXCEPT ![i] = r] /\ ord[i].status = "CREATED"
      BY <2>2, OrderFacts DEF LocalCancelEligible
    <3>2. /\ r \in OrderRecord /\ r.kind = ord[i].kind /\ r.executed = ord[i].executed
          /\ r.booked = ord[i].booked /\ r.status = "TERMINAL"
      BY OrderFacts DEF OrderRecord, OrderStatus
    <3>3. r.booked >= ord[i].booked
      BY <3>2, OrderFacts
    <3> HIDE DEF r
    <3>4. Rewrites(i)
      BY <3>1, <3>2, <3>3 DEF Rewrites
    <3> QED BY <3>4
  <2>3. CASE ord[i].status = "SUBMITTED" /\
             ord' = [ord EXCEPT ![i].status = "CANCEL_PENDING"]
    <3> DEFINE r == [ord[i] EXCEPT !.status = "CANCEL_PENDING"]
    <3>1. ord' = [ord EXCEPT ![i] = r]
      BY <2>3, OrderFacts
    <3>2. /\ r \in OrderRecord /\ r.kind = ord[i].kind /\ r.executed = ord[i].executed
          /\ r.booked = ord[i].booked
      BY OrderFacts DEF OrderRecord, OrderStatus, MayExecuteStatuses
    <3>3. r.booked >= ord[i].booked
      BY <3>2, OrderFacts
    <3> HIDE DEF r
    <3>4. Rewrites(i)
      BY <2>3, <3>1, <3>2, <3>3 DEF Rewrites
    <3> QED BY <3>4
  <2> QED BY <1>2, <2>1, <2>2, <2>3 DEF CancelOpenBuy
<1>3. ASSUME NEW i \in Ids, NEW r \in OrderRecord, Move(i, r),
             r.kind = ord[i].kind, r.executed = ord[i].executed,
             r.booked >= ord[i].booked,
             ord[i].status = "TERMINAL" => r.status = "TERMINAL" /\ r.booked = ord[i].booked,
             ord[i].status # "CREATED" \/ ClaimOrder(i),
             ord[i].status = "CREATED" => r.booked = ord[i].booked
      PROVE  Goal
  <2>1. Rewrites(i)
    BY <1>3 DEF Rewrites, Move
  <2> QED BY <2>1
<1>4. ASSUME NEW g \in [Ids -> OrderRecord], Withdrawn(g), NEW k \in Kinds \ {"none"},
             NEW q \in Nat, NEW d \in Days, NEW b \in 0 .. MaxOrders,
             Minted(ord) < MaxOrders, k = "buy" \/ Granted(k),
             ord' = [g EXCEPT ![Minted(ord) + 1] = NewOrder(k, q, d, b)]
      PROVE  Goal
  <2> DEFINE r == NewOrder(k, q, d, b)
             m == Minted(ord) + 1
  <2>1. /\ r \in OrderRecord /\ r.status = "CREATED" /\ r.executed = 0 /\ r.booked = 0
        /\ r.kind = k
    BY DEF NewOrder, OrderRecord, Kinds, OrderStatus
  <2>2. m \in Ids \ {1} /\ ord[m].kind = "none"
    BY <1>4, NextSlot
  <2>3. ord' = [g EXCEPT ![m] = r]
    BY <1>4
  <2> HIDE DEF r, m
  <2>4. Mints(g, m, r)
    BY <1>4, <2>1, <2>2, <2>3 DEF Mints, Kinds
  <2> QED BY <2>1, <2>2, <2>4
<1>5. CASE ProtectStep
  <2>1. CASE OpenProtectionExit
    <3>1. CASE MayDispatchExit(ord, Position(ord), FALSE) /\
               DispatchExit(ord, "floor", Position(ord), prot.day)
      <4>1. ord \in [Ids -> OrderRecord] /\ Withdrawn(ord) /\ prot.day \in Days
        BY DEF IInv, TypeOK, Withdrawn
      <4>2. Position(ord) \in Nat /\ today \notin halted
        BY <3>1, <4>1, SumsInt DEF MayDispatchExit
      <4>3. StandDownBuys(ord) \in [Ids -> OrderRecord] /\ Withdrawn(StandDownBuys(ord))
        BY <3>1, <4>1, StoodDown DEF MayDispatchExit
      <4>4. /\ Minted(ord) < MaxOrders
            /\ ord' = [StandDownBuys(ord) EXCEPT ![Minted(ord) + 1] =
                         NewOrder("floor", Position(ord), prot.day, Minted(ord))]
        BY <3>1 DEF DispatchExit
      <4>5. Minted(ord) \in 0 .. MaxOrders /\ Granted("floor") /\ "floor" \in Kinds \ {"none"}
        <5>1. PICK n \in Ids : \A i \in Ids : ord[i].kind # "none" <=> i <= n
          BY DEF IInv, MintedInOrder
        <5>2. Minted(ord) = n
          BY <5>1, MintedCount
        <5> QED BY <4>2, <5>2, SellSideAssumption DEF Granted, Kinds, Ids
      <4> QED BY <1>4, <4>1, <4>2, <4>3, <4>4, <4>5
    <3>2. CASE UNCHANGED ord
      BY <3>2
    <3> QED BY <2>1, <3>1, <3>2 DEF OpenProtectionExit
  <2>2. CASE ProtectStart
    BY <2>2 DEF ProtectStart
  <2>3. ASSUME NEW i \in Ids, ProtectCancelBuy(i) PROVE Goal
    BY <1>2, <2>3 DEF ProtectCancelBuy
  <2> QED BY <1>5, <2>1, <2>2, <2>3 DEF ProtectStep
<1>6. CASE FlattenStep
  <2>1. CASE FlattenCreate
    <3>1. PICK g \in [Ids -> OrderRecord] :
            /\ Withdrawn(g) /\ Minted(ord) < MaxOrders
            /\ ord' = [g EXCEPT ![Minted(ord) + 1] =
                         NewOrder("flatten", Position(ord), today, Minted(ord))]
      BY <2>1, FlattenTable
    <3>2. Position(ord) \in Nat /\ today \in Days /\ "flatten" \in Kinds \ {"none"}
      BY <2>1, SumsInt DEF FlattenCreate, MayDispatchExit, IInv, TypeOK, Kinds
    <3>3. Minted(ord) \in 0 .. MaxOrders
      <4>1. PICK n \in Ids : \A i \in Ids : ord[i].kind # "none" <=> i <= n
        BY DEF IInv, MintedInOrder
      <4>2. Minted(ord) = n
        BY <4>1, MintedCount
      <4> QED BY <4>2, SellSideAssumption DEF Ids
    <3>4. Granted("flatten")
      BY <2>1 DEF Granted, FlattenCreate, FlattenOutcome, FlattenBlocked, ConsumeGrant
    <3> QED BY <1>4, <3>1, <3>2, <3>3, <3>4
  <2>2. CASE FlattenRetry \/ FlattenNothing \/ FlattenBuysOpen
    BY <2>2 DEF FlattenRetry, FlattenNothing, FlattenBuysOpen
  <2>3. ASSUME NEW i \in Ids, FlattenCancelBuy(i) PROVE Goal
    BY <1>2, <2>3 DEF FlattenCancelBuy
  <2> QED BY <1>6, <2>1, <2>2, <2>3 DEF FlattenStep
<1>7. CASE CandidateStep
  <2>1. ASSUME NEW c \in Cands, CreateCandidate(c) \/ DecideCandidate(c) PROVE Goal
    BY <2>1 DEF CreateCandidate, DecideCandidate
  <2>2. ASSUME NEW c \in Cands, CreateOrderForCandidate(c) PROVE Goal
    <3>1. CASE UNCHANGED ord
      BY <3>1
    <3>2. CASE /\ Minted(ord) < MaxOrders
               /\ ord' = [ord EXCEPT ![Minted(ord) + 1] =
                            NewOrder("buy", BuyQty, cand[c].day, cand[c].born)]
      <4>1. /\ ord \in [Ids -> OrderRecord] /\ Withdrawn(ord) /\ cand[c].day \in Days
            /\ cand[c].born \in 0 .. MaxOrders /\ BuyQty \in Nat /\ "buy" \in Kinds \ {"none"}
        BY SellSideAssumption DEF IInv, TypeOK, Withdrawn, CandRecord, Kinds
      <4> QED BY <1>4, <3>2, <4>1
    <3> QED BY <2>2, <3>1, <3>2 DEF CreateOrderForCandidate
  <2> QED BY <1>7, <2>1, <2>2 DEF CandidateStep
<1>8. CASE OrderStep
  <2>1. ASSUME NEW i \in Ids, ClaimOrder(i) PROVE Goal
    <3> DEFINE r == [ord[i] EXCEPT !.status = "SUBMITTING"]
    <3>1. Move(i, r) /\ ord[i].status = "CREATED"
      BY <2>1 DEF ClaimOrder
    <3>2. /\ r \in OrderRecord /\ r.kind = ord[i].kind /\ r.executed = ord[i].executed
          /\ r.booked = ord[i].booked /\ r.booked >= ord[i].booked
      BY OrderFacts DEF OrderRecord, OrderStatus, MayExecuteStatuses
    <3> HIDE DEF r
    <3> QED BY <1>3, <2>1, <3>1, <3>2
  <2>2. ASSUME NEW i \in Ids, Acknowledge(i) \/ LoseTrack(i) \/ ReleaseClaim(i) \/
                              ResolveRecovery(i)
        PROVE  Goal
    <3>1. PICK r \in {[ord[i] EXCEPT !.status = "SUBMITTED"],
                      [ord[i] EXCEPT !.status = "TIMEOUT_QUARANTINE"],
                      [ord[i] EXCEPT !.recovery = "unresolved"],
                      [ord[i] EXCEPT !.recovery = "needs_review"],
                      [ord[i] EXCEPT !.status = "CREATED"],
                      [ord[i] EXCEPT !.recovery = "none"]} :
            Move(i, r) /\ (ord[i].status # "TERMINAL" \/ r = [ord[i] EXCEPT !.recovery = "none"])
      BY <2>2 DEF Acknowledge, LoseTrack, ReleaseClaim, ResolveRecovery, LoopWrites
    <3>2. ord[i].status # "CREATED"
      BY <2>2, OrderFacts DEF Acknowledge, LoseTrack, ReleaseClaim, ResolveRecovery,
                              RecoveryOpen, Sound
    <3>3. /\ r \in OrderRecord /\ r.kind = ord[i].kind /\ r.executed = ord[i].executed
          /\ r.booked = ord[i].booked /\ r.booked >= ord[i].booked
      BY <3>1, OrderFacts DEF OrderRecord, OrderStatus, MayExecuteStatuses
    <3>4. ord[i].status = "TERMINAL" => r.status = "TERMINAL"
      BY <3>1, OrderFacts DEF OrderRecord
    <3> QED BY <1>3, <3>1, <3>2, <3>3, <3>4
  <2>3. ASSUME NEW i \in Ids, NEW n \in Nat, NEW st \in OrderStatus, Record(i, n, st),
               ord[i].booked <= n, ord[i].status \notin {"CREATED", "TERMINAL"}
        PROVE  Goal
    <3> DEFINE r == [ord[i] EXCEPT !.booked = n, !.status = st]
    <3>1. Move(i, r)
      BY <2>3 DEF Record
    <3>2. /\ r \in OrderRecord /\ r.kind = ord[i].kind /\ r.executed = ord[i].executed
          /\ r.booked = n
      BY OrderFacts DEF OrderRecord
    <3> HIDE DEF r
    <3>3. r.booked >= ord[i].booked
      BY <2>3, <3>2, OrderFacts
    <3> QED BY <1>3, <2>3, <3>1, <3>2, <3>3
  <2>4. ASSUME NEW i \in Ids, RecordFill(i) PROVE Goal
    <3>1. PICK n \in ord[i].booked + 1 .. ord[i].executed : Record(i, n, ord[i].status)
      BY <2>4 DEF RecordFill
    <3>2. n \in Nat /\ ord[i].booked < n /\ n <= ord[i].executed /\ ord[i].booked <= n
      BY OrderFacts
    <3>3. ord[i].status \notin {"CREATED", "TERMINAL"} /\ ord[i].status \in OrderStatus
      BY <2>4, <3>2, OrderFacts DEF RecordFill, Sound, RecoveryOpen, OrderRecord
    <3> QED BY <2>3, <3>1, <3>2, <3>3
  <2>5. ASSUME NEW i \in Ids, Settle(i) PROVE Goal
    <3>1. /\ Record(i, ord[i].executed, "TERMINAL") /\ ord[i].booked <= ord[i].executed
          /\ ord[i].executed \in Nat /\ "TERMINAL" \in OrderStatus
          /\ ord[i].status \notin {"CREATED", "TERMINAL"}
      BY <2>5, OrderFacts DEF Settle, Sound, OrderStatus, MayExecuteStatuses
    <3> QED BY <2>3, <3>1
  <2> QED BY <1>8, <2>1, <2>2, <2>4, <2>5 DEF OrderStep
<1>9. CASE VenueStep
  <2>1. ASSUME NEW i \in Ids, VenueTakes(i) \/ VenueEnds(i) PROVE Goal
    <3>1. PICK v \in {"live", "done"} : Move(i, [ord[i] EXCEPT !.venue = v])
      BY <2>1 DEF VenueTakes, VenueEnds
    <3> DEFINE r == [ord[i] EXCEPT !.venue = v]
    <3>2. ord[i].status # "CREATED"
      BY <2>1, OrderFacts DEF VenueTakes, VenueEnds, Sound
    <3>3. /\ r \in OrderRecord /\ r.kind = ord[i].kind /\ r.executed = ord[i].executed
          /\ r.booked = ord[i].booked /\ r.booked >= ord[i].booked
          /\ r.status = ord[i].status
      BY OrderFacts DEF OrderRecord
    <3> HIDE DEF r
    <3> QED BY <1>3, <3>1, <3>2, <3>3 DEF r
  <2>2. ASSUME NEW i \in Ids, VenueExecutes(i) PROVE Goal
    BY <2>2
  <2> QED BY <1>9, <2>1, <2>2 DEF VenueStep
<1>10. CASE CommandStep
  BY <1>10 DEF CommandStep, CreateExit, EmergencyReduce, SetKillSwitch, NextDay
<1> QED BY <1>1, <1>5, <1>6, <1>7, <1>8, <1>9, <1>10 DEF Next

\* A recorded overfill holds every later buy: the execution and its quarantine
\* are one unit, and the claim reads the quarantine (plan_append_fill and the
\* claim's gate).
THEOREM OverfillHoldsBuys == Spec => NoBuyAfterOverfill
<1>1. ASSUME IInv, [Next]_vars, NEW i \in Buys(ord),
             ord[i].status = "CREATED", ord'[i].status = "SUBMITTING"
      PROVE  ~Overfilled
  <2>1. i \in Ids /\ ord[i].kind = "buy" /\ ord \in [Ids -> OrderRecord]
    BY <1>1 DEF Buys, IInv, TypeOK
  <2>2. ClaimOrder(i)
    <3>1. CASE UNCHANGED ord
      BY <1>1, <3>1
    <3>2. ASSUME NEW j \in Ids, Rewrites(j) PROVE ClaimOrder(i)
      BY <1>1, <2>1, <3>2 DEF Rewrites
    <3>3. ASSUME NEW j \in Ids, VenueExecutes(j) PROVE FALSE
      <4>1. ord'[i].status = ord[i].status
        BY <2>1, <3>3 DEF VenueExecutes, Move, OrderRecord
      <4> QED BY <1>1, <4>1
    <3>4. ASSUME NEW g \in [Ids -> OrderRecord], NEW m \in Ids, NEW r \in OrderRecord,
                 Mints(g, m, r)
          PROVE  FALSE
      <4>1. g[i].status \in {"CREATED", "TERMINAL"}
        BY <1>1, <2>1, <3>4, WithdrawnFields DEF Mints
      <4>2. ord'[i] = g[i] \/ ord'[i] = r
        BY <2>1, <3>4 DEF Mints
      <4> QED BY <1>1, <3>4, <4>1, <4>2 DEF Mints
    <3> QED BY <1>1, <3>1, <3>2, <3>3, <3>4, Footprint
  <2>3. ~latched
    BY <2>1, <2>2 DEF ClaimOrder, ClaimHeld
  <2> QED BY <1>1, <2>3 DEF IInv, OverfillIsOnRecord
<1>2. IInv /\ [Next]_vars =>
        [\A i \in Buys(ord) :
           ord[i].status = "CREATED" /\ ord'[i].status = "SUBMITTING" => ~Overfilled]_vars
  BY <1>1
<1> QED BY <1>2, SellSideInvariant, PTL DEF Spec, NoBuyAfterOverfill

\* No buy proposed before an exit was minted is claimed after it, so a closed
\* position does not regrow (_stand_down_symbol_buy_candidates, the handoff).
THEOREM ExitsPreemptBuys == Spec => ExitPreempts
<1>1. IInv /\ [Next]_vars =>
        [\A i \in Buys(ord) :
           ord[i].status = "CREATED" /\ ord'[i].status = "SUBMITTING"
             => \A s \in Sells(ord) : s <= ord[i].born]_vars
  BY DEF IInv, Preempted
<1> QED BY <1>1, SellSideInvariant, PTL DEF Spec, ExitPreempts

\* While trading is halted an exit is minted only by an emergency reduce
\* granted in this session, and uses the grant up (plan_flatten_position,
\* open_protection_exit, the override events).
THEOREM HaltedExitsNeedGrant == Spec => HaltedExitIsGranted
<1>1. ASSUME IInv, [Next]_vars, Sells(ord') # Sells(ord), today \in halted
      PROVE  /\ \A s \in Sells(ord') \ Sells(ord) : ord'[s].kind = "flatten"
             /\ today \in override /\ today \notin override'
  <2>1. ord \in [Ids -> OrderRecord]
    BY <1>1 DEF IInv, TypeOK
  <2>2. ASSUME \A i \in Ids : ord'[i].kind = ord[i].kind PROVE FALSE
    BY <1>1, <2>2 DEF Sells
  <2>3. ~ UNCHANGED ord
    BY <2>2
  <2>4. ASSUME NEW i \in Ids, Rewrites(i) \/ VenueExecutes(i) PROVE FALSE
    <3>1. PICK r : ord' = [ord EXCEPT ![i] = r] /\ r.kind = ord[i].kind
      BY <2>1, <2>4 DEF Rewrites, VenueExecutes, Move, OrderRecord
    <3> QED BY <2>1, <2>2, <3>1
  <2>5. PICK g \in [Ids -> OrderRecord], m \in Ids, r \in OrderRecord : Mints(g, m, r)
    BY <1>1, <2>3, <2>4, Footprint
  <2>6. \A i \in Ids \ {m} : ord'[i].kind = ord[i].kind
    <3>1. \A i \in Ids \ {m} : ord'[i] = g[i]
      BY <2>5 DEF Mints
    <3> QED BY <1>1, <2>5, <3>1, WithdrawnFields DEF Mints
  <2>7. ord'[m] = r /\ ord[m].kind = "none"
    BY <2>5 DEF Mints
  <2>8. r.kind # "buy"
    <3> SUFFICES ASSUME r.kind = "buy" PROVE FALSE
      OBVIOUS
    <3>1. Sells(ord') = Sells(ord)
      BY <2>6, <2>7 DEF Sells
    <3> QED BY <1>1, <3>1
  <2>9. Granted(r.kind)
    BY <2>5, <2>8 DEF Mints
  <2>10. Sells(ord') \ Sells(ord) \subseteq {m}
    BY <2>6 DEF Sells
  <2> QED BY <1>1, <2>7, <2>9, <2>10 DEF Granted
<1>2. IInv /\ [Next]_vars =>
        [Sells(ord') # Sells(ord) /\ today \in halted =>
           /\ \A s \in Sells(ord') \ Sells(ord) : ord'[s].kind = "flatten"
           /\ today \in override /\ today \notin override']_vars
  BY <1>1
<1> QED BY <1>2, SellSideInvariant, PTL DEF Spec, HaltedExitIsGranted

-----------------------------------------------------------------------------
(* The refinement *)

\* What the invariant says of an order at each stage.
StageSound ==
  \A i \in Ids :
    /\ ord[i].executed \in Nat /\ ord[i].booked \in Nat /\ ord[i].booked <= ord[i].executed
    /\ Stage(i) \in {"local", "owned", "settled"}
    /\ Stage(i) = "local" <=> ord[i].kind = "none" \/ ord[i].status = "CREATED"
    /\ Stage(i) = "settled" <=> ord[i].kind # "none" /\ ord[i].status = "TERMINAL"
    /\ Stage(i) = "local" => ord[i].executed = 0
    /\ Stage(i) = "settled" => ord[i].booked = ord[i].executed
    /\ ord[i].kind = "none" => ord[i].status = "TERMINAL"
    /\ ord[i].venue = "live" => Stage(i) = "owned"

\* A local order has executed nothing, a settled one is fully recorded.
LEMMA StageFacts == IInv => StageSound
<1> SUFFICES ASSUME IInv, NEW i \in Ids
             PROVE  /\ ord[i].executed \in Nat /\ ord[i].booked \in Nat
                    /\ ord[i].booked <= ord[i].executed
                    /\ Stage(i) \in {"local", "owned", "settled"}
                    /\ Stage(i) = "local" <=> ord[i].kind = "none" \/ ord[i].status = "CREATED"
                    /\ Stage(i) = "settled" <=>
                         ord[i].kind # "none" /\ ord[i].status = "TERMINAL"
                    /\ Stage(i) = "local" => ord[i].executed = 0
                    /\ Stage(i) = "settled" => ord[i].booked = ord[i].executed
                    /\ ord[i].kind = "none" => ord[i].status = "TERMINAL"
                    /\ ord[i].venue = "live" => Stage(i) = "owned"
  BY DEF StageSound
<1>1. ord[i] \in OrderRecord /\ Sound(ord[i])
  BY OrderFacts
<1>2. /\ Stage(i) \in {"local", "owned", "settled"}
      /\ Stage(i) = "local" <=> ord[i].kind = "none" \/ ord[i].status = "CREATED"
      /\ Stage(i) = "settled" <=> ord[i].kind # "none" /\ ord[i].status = "TERMINAL"
  BY DEF Stage
<1> QED BY <1>1, <1>2, OrderFacts DEF Sound

\* The initial orders are local, apart from the position held.
LEMMA InitOwnership == Init => Ownership!Init
<1> SUFFICES ASSUME Init PROVE Ownership!Init
  OBVIOUS
<1>1. /\ NoOrder.kind = "none" /\ NoOrder.executed = 0 /\ NoOrder.booked = 0
  BY DEF NoOrder, NewOrder
<1>2. \A i \in Ids \ {1} : ord[i] = NoOrder
  BY DEF Init
<1>3. \A i \in Ids \ {1} : Stage(i) = "local" /\ ord[i].executed = 0 /\ ord[i].booked = 0
  BY <1>1, <1>2 DEF Stage
<1> QED BY <1>3 DEF Ownership!Init

\* Every step is a step of OrderOwnership or leaves the orders' stages alone.
LEMMA StepOwnership ==
  ASSUME IInv, IInv', [Next]_vars
  PROVE  [Ownership!Next]_(Ownership!vars)
<1> DEFINE O == Ids \ {1}
           st == [i \in O |-> Stage(i)]
           ex == [i \in O |-> ord[i].executed]
           bk == [i \in O |-> ord[i].booked]
<1>1. StageSound /\ StageSound'
  BY StageFacts, PTL
<1>2. ord \in [Ids -> OrderRecord] /\ ord' \in [Ids -> OrderRecord]
  BY DEF IInv, TypeOK
<1>3. ASSUME NEW i \in Ids, ord'[i].kind = ord[i].kind, ord'[i].status = ord[i].status
      PROVE  Stage(i)' = Stage(i)
  BY <1>3 DEF Stage
<1>4. ASSUME st' = st, ex' = ex, bk' = bk PROVE [Ownership!Next]_(Ownership!vars)
  BY <1>4 DEF Ownership!vars
<1>5. CASE UNCHANGED ord
  <2>1. st' = st /\ ex' = ex /\ bk' = bk
    BY <1>3, <1>5
  <2> QED BY <1>4, <2>1
<1>6. ASSUME NEW i \in Ids, Rewrites(i) PROVE [Ownership!Next]_(Ownership!vars)
  <2>1. PICK r \in OrderRecord :
          /\ ord' = [ord EXCEPT ![i] = r]
          /\ r.kind = ord[i].kind /\ r.executed = ord[i].executed
          /\ r.booked >= ord[i].booked
          /\ ord[i].status = "TERMINAL" => r.status = "TERMINAL"
          /\ ord[i].status \in {"CREATED", "TERMINAL"} => r.booked = ord[i].booked
    BY <1>6 DEF Rewrites
  <2>2. ord'[i] = r /\ \A j \in Ids \ {i} : ord'[j] = ord[j]
    BY <1>2, <2>1
  <2>3. ASSUME NEW j \in Ids \ {i} PROVE Stage(j)' = Stage(j)
    BY <1>3, <2>2
  <2>4. ex' = ex
    BY <2>1, <2>2
  <2>5. CASE i = 1
    <3>1. st' = st /\ bk' = bk
      BY <2>2, <2>3, <2>5
    <3> QED BY <1>4, <2>4, <3>1
  <2>6. CASE i \in O
    <3>1. st' = [st EXCEPT ![i] = Stage(i)'] /\ st[i] = Stage(i)
      BY <2>3, <2>6
    <3>2. bk' = [bk EXCEPT ![i] = r.booked] /\ bk[i] = ord[i].booked
      BY <2>2, <2>6
    <3>3. ex[i] = ord[i].executed /\ ord'[i].executed = ord[i].executed
      BY <2>1, <2>2, <2>6
    <3>4. CASE r.booked = ord[i].booked /\ Stage(i)' = Stage(i)
      <4>1. st' = st /\ bk' = bk
        BY <3>1, <3>2, <3>4
      <4> QED BY <1>4, <2>4, <4>1
    <3>5. CASE Stage(i) = "settled"
      <4>1. Stage(i)' = "settled" /\ r.booked = ord[i].booked
        BY <1>1, <2>1, <2>2, <3>5 DEF StageSound
      <4> QED BY <3>4, <3>5, <4>1
    <3>6. CASE Stage(i) = "local"
      <4>1. r.booked = ord[i].booked
        BY <1>1, <2>1, <3>6 DEF StageSound
      <4>2. bk' = bk
        BY <3>2, <4>1
      <4>3. CASE Stage(i)' = "owned"
        <5>1. Ownership!Claim(i)
          BY <2>4, <2>6, <3>1, <3>6, <4>2, <4>3 DEF Ownership!Claim
        <5> QED BY <2>6, <5>1 DEF Ownership!Next
      <4>4. CASE Stage(i)' = "settled"
        <5>1. st' = [j \in O |-> IF j \in {i} THEN "settled" ELSE st[j]]
          BY <2>3, <2>6, <4>4
        <5>2. Ownership!Withdraw({i})
          BY <2>4, <2>6, <3>6, <4>2, <5>1 DEF Ownership!Withdraw
        <5> QED BY <2>6, <5>2 DEF Ownership!Next
      <4> QED BY <1>1, <3>4, <3>6, <4>1, <4>3, <4>4 DEF StageSound
    <3>7. CASE Stage(i) = "owned"
      <4>1. /\ r.booked \in Nat /\ ord[i].booked \in Nat /\ ord[i].executed \in Nat
            /\ r.booked <= ord[i].executed /\ ord[i].booked <= ord[i].executed
        BY <1>1, <2>1, <2>2, <3>3 DEF StageSound
      <4>2. CASE Stage(i)' = "owned"
        <5>1. st' = st /\ r.booked \in bk[i] .. ex[i]
          <6>1. st' = st
            BY <3>1, <3>7, <4>2
          <6>2. r.booked \in ord[i].booked .. ord[i].executed
            BY <2>1, <4>1
          <6> HIDE DEF st, bk, ex
          <6> QED BY <3>2, <3>3, <6>1, <6>2
        <5>2. Ownership!Book(i)
          BY <2>4, <2>6, <3>1, <3>2, <3>7, <5>1 DEF Ownership!Book
        <5> QED BY <2>6, <5>2 DEF Ownership!Next
      <4>3. CASE Stage(i)' = "local"
        <5>1. ord[i].executed = 0
          BY <1>1, <3>3, <4>3 DEF StageSound
        <5>2. bk' = bk
          <6>1. r.booked = ord[i].booked
            BY <4>1, <5>1
          <6> QED BY <3>2, <6>1
        <5>3. Ownership!Release(i)
          BY <2>4, <2>6, <3>1, <3>3, <3>7, <4>3, <5>1, <5>2 DEF Ownership!Release
        <5> QED BY <2>6, <5>3 DEF Ownership!Next
      <4>4. CASE Stage(i)' = "settled"
        <5>1. r.booked = ord[i].executed
          BY <1>1, <2>2, <3>3, <4>4 DEF StageSound
        <5>2. Ownership!Settle(i)
          BY <2>4, <2>6, <3>1, <3>2, <3>3, <3>7, <4>1, <4>4, <5>1 DEF Ownership!Settle
        <5> QED BY <2>6, <5>2 DEF Ownership!Next
      <4> QED BY <1>1, <4>2, <4>3, <4>4 DEF StageSound
    <3> QED BY <1>1, <3>5, <3>6, <3>7 DEF StageSound
  <2> QED BY <2>5, <2>6
<1>7. ASSUME NEW i \in Ids, VenueExecutes(i) PROVE [Ownership!Next]_(Ownership!vars)
  <2> DEFINE r == [ord[i] EXCEPT !.executed = @ + 1]
  <2>1. ord' = [ord EXCEPT ![i] = r] /\ ord[i].venue = "live"
    BY <1>7 DEF VenueExecutes, Move
  <2>2. /\ r.kind = ord[i].kind /\ r.status = ord[i].status /\ r.booked = ord[i].booked
        /\ r.executed = ord[i].executed + 1
    BY <1>2 DEF OrderRecord
  <2> HIDE DEF r
  <2>3. ord'[i] = r /\ \A j \in Ids \ {i} : ord'[j] = ord[j]
    BY <1>2, <2>1
  <2>4. st' = st /\ bk' = bk
    <3>1. \A j \in Ids : ord'[j].kind = ord[j].kind /\ ord'[j].status = ord[j].status
                         /\ ord'[j].booked = ord[j].booked
      BY <2>2, <2>3
    <3> QED BY <1>3, <3>1
  <2>5. CASE i = 1
    <3>1. ex' = ex
      BY <2>3, <2>5
    <3> QED BY <1>4, <2>4, <3>1
  <2>6. CASE i \in O
    <3>1. ex' = [ex EXCEPT ![i] = @ + 1]
      BY <2>2, <2>3, <2>6
    <3>2. Stage(i) = "owned"
      BY <1>1, <2>1 DEF StageSound
    <3>3. Ownership!Execute(i)
      BY <2>4, <2>6, <3>1, <3>2 DEF Ownership!Execute
    <3> QED BY <2>6, <3>3 DEF Ownership!Next
  <2> QED BY <2>5, <2>6
<1>8. ASSUME NEW g \in [Ids -> OrderRecord], NEW m \in Ids, NEW r \in OrderRecord,
             Mints(g, m, r)
      PROVE  [Ownership!Next]_(Ownership!vars)
  <2> DEFINE S == {i \in O : i # m /\ g[i] # ord[i]}
  <2>1. /\ ord'[m] = r /\ \A i \in Ids \ {m} : ord'[i] = g[i]
        /\ m \in O /\ ord[m].kind = "none" /\ r.status = "CREATED"
        /\ r.executed = 0 /\ r.booked = 0
    BY <1>8 DEF Mints
  <2>2. \A i \in Ids : g[i].executed = ord[i].executed /\ g[i].booked = ord[i].booked
                       /\ g[i].kind = ord[i].kind
    BY <1>8, WithdrawnFields DEF Mints
  <2>3. ord[m].executed = 0 /\ ord[m].booked = 0
    BY <1>1, <2>1 DEF StageSound
  <2>4. ex' = ex /\ bk' = bk
    BY <2>1, <2>2, <2>3
  <2>5. ASSUME NEW i \in S
        PROVE  ord[i].status = "CREATED" /\ g[i].status = "TERMINAL"
    BY <1>8, <2>5, WithdrawnFields DEF Mints
  <2>6. \A i \in S : Stage(i) = "local"
    BY <1>1, <2>5 DEF StageSound
  <2>7. ASSUME NEW i \in O
        PROVE  Stage(i)' = IF i \in S THEN "settled" ELSE Stage(i)
    <3>1. CASE i \in S
      <4>1. ord'[i].status = "TERMINAL" /\ ord'[i].kind = ord[i].kind
        BY <2>1, <2>2, <2>5, <3>1
      <4>2. ord[i].kind # "none"
        BY <1>1, <2>5, <3>1 DEF StageSound
      <4> QED BY <1>1, <3>1, <4>1, <4>2 DEF StageSound
    <3>2. CASE i = m
      BY <1>1, <2>1, <3>2 DEF StageSound
    <3>3. CASE i \notin S /\ i # m
      BY <1>3, <2>1, <3>3
    <3> QED BY <3>1, <3>2, <3>3
  <2>8. st' = [i \in O |-> IF i \in S THEN "settled" ELSE st[i]]
    <3> HIDE DEF S
    <3> QED BY <2>7
  <2>9. Ownership!Withdraw(S)
    <3> HIDE DEF S
    <3>1. \A i \in S : i \in O
      BY DEF S
    <3> QED BY <2>4, <2>6, <2>8, <3>1 DEF Ownership!Withdraw
  <2>10. S \in SUBSET O
    OBVIOUS
  <2> HIDE DEF S
  <2> QED BY <2>9, <2>10 DEF Ownership!Next
<1> QED BY <1>5, <1>6, <1>7, <1>8, Footprint

\* The exits use orders exactly as the order path promises: cancels and
\* supersedes touch only orders that never left, and an order ends with its
\* last execution recorded (_stand_down_symbol_created_buys, the supersede of
\* flatten_position, cancel_open_buys).
THEOREM SellSideUsesOwnership == Spec => UsesOwnership
<1>1. IInv /\ IInv' /\ [Next]_vars => [Ownership!Next]_(Ownership!vars)
  BY StepOwnership
<1> QED BY <1>1, InitOwnership, SellSideInvariant, PTL DEF Spec, UsesOwnership, Ownership!Spec
=============================================================================
