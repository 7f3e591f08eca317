-------------------------------- MODULE Bank --------------------------------
(***************************************************************************)
(* What a payment provider promises about money, and nothing of how: under *)
(* a key money is captured at most once, and never more of it given back   *)
(* than was captured.  A durable provider keeps all of it; one that is not *)
(* may forget, but only everything at once.                                *)
(***************************************************************************)
EXTENDS Naturals

CONSTANT Key            \* Idempotency-Key values of charges

VARIABLES
  captured, returned,   \* money taken, and given back, under each key
  durable               \* whether the provider has promised to remember

bank == <<captured, returned, durable>>

Nothing == [k \in Key |-> 0]

Init == captured = Nothing /\ returned = Nothing /\ durable \in BOOLEAN

(* Charges are captured, some of them perhaps refunded in part elsewhere. *)
Capture(ks) ==
  /\ \A k \in ks : captured[k] = 0 /\ captured'[k] > 0 /\ returned'[k] <= captured'[k]
  /\ \A k \in Key \ ks : captured'[k] = captured[k] /\ returned'[k] = returned[k]

Return(k) ==
  /\ returned'[k] > returned[k] /\ returned'[k] <= captured[k]
  /\ returned' = [returned EXCEPT ![k] = returned'[k]]
  /\ captured' = captured

Forget == ~durable /\ captured' = Nothing /\ returned' = Nothing

Next == /\ \/ \E ks \in SUBSET Key : Capture(ks)
           \/ \E k \in Key : Return(k)
           \/ Forget
        /\ durable' = durable

Spec == Init /\ [][Next]_bank
=============================================================================
