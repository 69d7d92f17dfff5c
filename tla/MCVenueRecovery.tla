-------------------------- MODULE MCVenueRecovery ---------------------------
EXTENDS VenueRecovery

CONSTANTS c1, c2      \* two CANCEL effects

CancelSymmetry == Permutations({c1, c2})

MCKind == [e \in Effects |-> IF e = "order" THEN "SUBMIT" ELSE "CANCEL"]
MCTarget == [e \in Effects |-> "L1"]
MCCapacity == [e \in Effects |-> 2]
MCGrid == (1 :> "cents") @@ (2 :> "cents") @@ (3 :> "mills")

Fact(key, kind, side, root, pred, qty, price) ==
  [key |-> key, kind |-> kind, side |-> side, leg |-> "L1", root |-> root,
   pred |-> pred, qty |-> qty, price |-> price]

Attest(key, side, root, prior, qty, price) ==
  [key |-> key, kind |-> "HUMAN", side |-> side, leg |-> "L1", root |-> root,
   pred |-> None, prior |-> prior, qty |-> qty, price |-> price]

Fill1(s) == Fact("f1", "FILL", s, "r1", None, 1, 1)
Fill2(s) == Fact("f2", "FILL", s, "r2", None, 2, 2)
Correct1 == Fact("c1", "CORRECT", "BUY", "r1", "f1", 2, 3)
Bust1 == Fact("x1", "BUST", "BUY", "r1", "f1", 0, NoPrice)
Correct2(s) == Fact("c2", "CORRECT", s, "r2", "f2", 1, 2)

Fills(f, prior, resulting) == [fact |-> f, prior |-> prior, resulting |-> resulting]
Revises(f, root, prior) == [fact |-> f, root |-> root, prior |-> prior]

\* The interval of each fill as the venue reports it, and one that overlaps.
MCFillInputs ==
  {Fills(Fill1("BUY"), 0, 1), Fills(Fill2("BUY"), 0, 2), Fills(Fill2("BUY"), 1, 3),
   Fills(Fill1("SELL"), 0, 1), Fills(Fill2("SELL"), 0, 2)}
MCRevisionInputs ==
  {Revises(Correct1, 1, 1), Revises(Bust1, 1, 3),
   Revises(Correct2("BUY"), 2, 3), Revises(Correct2("SELL"), 2, 2)}
MCHumanFills == {Attest("h1", "BUY", "rh", 0, q, 1) : q \in {1, 2}}

Before(side, qty) == [key |-> "f0", kind |-> "FILL", side |-> side, leg |-> "L0",
                      root |-> "r0", pred |-> None, qty |-> qty, price |-> 2]
MCOpenings == {<<>>, <<Before("BUY", 3)>>, <<Before("SELL", 1)>>}
=============================================================================
