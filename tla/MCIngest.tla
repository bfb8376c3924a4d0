------------------------------ MODULE MCIngest ------------------------------
(* A small instance of Ingest for TLC. *)
EXTENDS Ingest

CONSTANTS k1, k2, k3, k4, k5, k6

MCKey == {k1, k2, k3, k4, k5, k6}
MCDayOf == (k1 :> 1) @@ (k2 :> 2) @@ (k3 :> 2) @@ (k4 :> 3) @@ (k5 :> 3) @@ (k6 :> 2)
MCMonthOf(day) == IF day <= 2 THEN 1 ELSE 2

File(path, first, last, rows) ==
    [path |-> path, sha |-> path, first |-> first, last |-> last,
     rows |-> rows @@ [k \in MCKey |-> 0]]

Monthly == File(1, 1, 2, (k1 :> 1) @@ (k2 :> 1) @@ (k3 :> 1))
Yearly == File(2, 1, 3, (k1 :> 1) @@ (k2 :> 1) @@ (k4 :> 1) @@ (k5 :> 1))
TwoCoffees == File(3, 1, 2, (k1 :> 2) @@ (k2 :> 1))
Disagreeing == File(4, 2, 3, (k2 :> 1) @@ (k5 :> 1) @@ (k6 :> 1))

\* two cycles of a card that both hold k2, which the stated period of the second leaves
\* out, the bytes of the second saved twice, and a year of them; no row of these is k1
ThisCycle == File(5, 1, 2, (k2 :> 1))
NextCycle == File(6, 3, 3, (k2 :> 1) @@ (k5 :> 1))
Copy == [NextCycle EXCEPT !.path = 7]
CardYear == File(8, 1, 3, (k2 :> 2) @@ (k4 :> 1) @@ (k5 :> 1))

MCStatement == {Monthly, Yearly, TwoCoffees, Disagreeing, ThisCycle, NextCycle, Copy, CardYear}
MCPreference == {{}, {Monthly}}
MCFolders ==
    {{Monthly, Disagreeing}, {Yearly, TwoCoffees}, {Monthly, Yearly, TwoCoffees},
     {ThisCycle, NextCycle}, {ThisCycle, NextCycle, Copy, CardYear}}

\* Layer one once for every folder; TLC keeps the tables it has typed here.
ASSUME MCTables ==
    /\ Merged \in [Folders -> [Preference -> [MCKey -> Int]]]
    /\ Blocked \in [Folders -> [Preference -> SUBSET {1, 2}]]
    /\ Refused \in [Folders -> [Preference -> SUBSET Statement]]
    /\ Copies \in [Folders -> [MCKey -> Int]]
=============================================================================
