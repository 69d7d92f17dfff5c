---------------------------- MODULE OrderOwnership ----------------------------
(***************************************************************************)
(* What the order path promises about one order, without saying how: who   *)
(* answers for it and what is known of its executions.                     *)
(*                                                                         *)
(*   local    nothing about the order can reach the venue                  *)
(*   owned    the venue may hold it or still receive it, and some durable  *)
(*            record (row, quarantine, recovery, audit) answers for it     *)
(*   settled  it will never execute again and every execution is recorded  *)
(*                                                                         *)
(* OrderSubmission implements this specification. The sell side relies on  *)
(* it: it sizes exits from recorded fills and treats a settled order as    *)
(* gone.                                                                   *)
(***************************************************************************)
EXTENDS Naturals

CONSTANTS Orders

VARIABLES
  stage,     \* local, owned or settled
  executed,  \* shares the venue has executed
  booked     \* shares the store has recorded

vars == <<stage, executed, booked>>

Init ==
  /\ stage = [o \in Orders |-> "local"]
  /\ executed = [o \in Orders |-> 0]
  /\ booked = [o \in Orders |-> 0]

(* The submission claim: from here on the venue may come to hold the order. *)
Claim(o) ==
  /\ stage[o] = "local"
  /\ stage' = [stage EXCEPT ![o] = "owned"]
  /\ UNCHANGED <<executed, booked>>

(* A failed attempt that provably left nothing behind may be tried again. *)
Release(o) ==
  /\ stage[o] = "owned" /\ executed[o] = 0
  /\ stage' = [stage EXCEPT ![o] = "local"]
  /\ UNCHANGED <<executed, booked>>

(* Orders that never left are canceled locally, one or several at a time. *)
Withdraw(S) ==
  /\ \A o \in S : stage[o] = "local"
  /\ stage' = [o \in Orders |-> IF o \in S THEN "settled" ELSE stage[o]]
  /\ UNCHANGED <<executed, booked>>

Execute(o) ==
  /\ stage[o] = "owned"
  /\ executed' = [executed EXCEPT ![o] = @ + 1]
  /\ UNCHANGED <<stage, booked>>

(* Recorded shares follow the executed ones and are never taken back. *)
Book(o) ==
  /\ stage[o] = "owned"
  /\ \E n \in booked[o] .. executed[o] : booked' = [booked EXCEPT ![o] = n]
  /\ UNCHANGED <<stage, executed>>

(* The order ends with its last executions recorded in the same step. *)
Settle(o) ==
  /\ stage[o] = "owned"
  /\ stage' = [stage EXCEPT ![o] = "settled"]
  /\ booked[o] <= executed[o]
  /\ booked' = [booked EXCEPT ![o] = executed[o]]
  /\ UNCHANGED executed

Next ==
  \/ \E o \in Orders : Claim(o) \/ Release(o) \/ Execute(o) \/ Book(o) \/ Settle(o)
  \/ \E S \in SUBSET Orders : Withdraw(S)

Spec == Init /\ [][Next]_vars
=============================================================================
