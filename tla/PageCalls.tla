------------------------------- MODULE PageCalls -------------------------------
(***************************************************************************)
(* The requests of a page that have not been answered: a bag, since a page *)
(* may send the same request twice, and answers come in any order.         *)
(***************************************************************************)
EXTENDS Integers, Bags

CONSTANT MaxCalls   \* bound on the requests under way when another is sent

VARIABLE calls

Call(op, id) == [op |-> op, id |-> id]

UnderWay(op) == \E call \in BagToSet(calls) : call.op = op

Send(call) ==
  /\ BagCardinality(calls) < MaxCalls
  /\ calls' = calls (+) SetToBag({call})

\* A request is answered, and the answer sends the next ones.
Answered(call, next) ==
  /\ BagIn(call, calls)
  /\ calls' = (calls (-) SetToBag({call})) (+) SetToBag(next)

=============================================================================
