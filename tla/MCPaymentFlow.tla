---------------------------- MODULE MCPaymentFlow ----------------------------
(***************************************************************************)
(* Payments on small instances: what the bookings cost and the policies    *)
(* their venue may have.  Bookings of prices 4 and 2 are captured, one of  *)
(* price 5 is declined.                                                    *)
(***************************************************************************)
EXTENDS Reconciliation, Reports

CONSTANTS b1, b2, b3

MCOne == {b1}
MCAll == {b1, b2, b3}
MCAlone == {MCOne}
MCPairs == {{b1, b2}, {b1, b3}}
MCIds == 1..2
MCId  == 1..1

MCPrice == [b \in Booking |-> [room |-> CASE b = b1 -> 3 [] b = b2 -> 2 [] b = b3 -> 5,
                              equipment |-> IF b = b1 THEN 1 ELSE 0]]

Lenient == {[room |-> 100, equipment |-> 100], [room |-> 0, equipment |-> 0]}
Strict  == {[room |-> 50, equipment |-> 100]}
MCPolicies == {Lenient, Strict}
MCPolicy   == {Strict \cup {[room |-> 0, equipment |-> 0]}}

=============================================================================
