----------------------------- MODULE MCConsole -----------------------------
(* A three half-hour slot, odd rates so that the halves must be rounded, a *)
(* ladder with a tier boundary inside the run, and no ladder at all.       *)
EXTENDS Console

CONSTANTS camera

MCItem == {camera}
MCPriceLists == {[room |-> 3, items |-> [i \in MCItem |-> 5]],
                 [room |-> 5, items |-> [i \in MCItem |-> 5]]}
MCLadders == {<<>>, << [minHours |-> 2, room |-> 50, equipment |-> 100],
                       [minHours |-> 0, room |-> 0, equipment |-> 50] >>}
=============================================================================
