--------------------------- MODULE MCAvailability ---------------------------
(***************************************************************************)
(* Availability in quarter hours, with days of six hours and a week of two *)
(* days: the grid is two units, the turnaround one, a clock change four.   *)
(* The change comes an hour after midnight, on date 2.                     *)
(***************************************************************************)
EXTENDS Availability

Fixed  == [changes |-> 0, before |-> 5, after |-> 5]
Spring == [changes |-> 52, before |-> 0, after |-> 4]
Autumn == [changes |-> 52, before |-> 4, after |-> 0]

Daytime   == [open |-> 9, close |-> 18]
ToTheEnd  == [open |-> 8, close |-> DAY]
Overnight == [open |-> 16, close |-> 10]

Weekly(even, odd) == [i \in 0..1 |-> IF i = 0 THEN even ELSE odd]

MCSettings == {[zone |-> Fixed, hours |-> Weekly(Overnight, Daytime)],
               [zone |-> Spring, hours |-> Weekly(ToTheEnd, Closed)],
               [zone |-> Spring, hours |-> Weekly(Daytime, Overnight)],
               [zone |-> Autumn, hours |-> Weekly(Overnight, Overnight)]}

MCOvernight == {[zone |-> Spring, hours |-> Weekly(Overnight, Daytime)]}

MCStarts == {42, 46, 50, 58, 68, 70}

MCQueries == {[from |-> f, to |-> t] : f \in {37, 44, 48}, t \in {63, 71, 80}}

(* The conditions the theorems ask of the settings hold of these. *)
ASSUME OrderlySettings == \A v \in MCSettings : Orderly(v) /\ YesterdayReached(v)

(* And the change that upsets an overnight venue is orderly, but for that. *)
ASSUME UpsetSettings == \A v \in MCOvernight : Orderly(v) /\ ~YesterdayReached(v)

=============================================================================
