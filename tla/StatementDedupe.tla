-------------------------- MODULE StatementDedupe --------------------------
(***************************************************************************)
(* Layer one of the ingest pipeline (pkg/machine/ingest_dedupe.go): which  *)
(* rows of which statements count, when the statements of one account      *)
(* cover the same dates.  Statements are compared by what they contain; a  *)
(* row is known by its key (date, amount, currency, description), and two  *)
(* rows with one key are two real transactions.                            *)
(***************************************************************************)
EXTENDS Integers, FiniteSets, Sequences, Functions, Folds

CONSTANTS
    Key,           \* identities of rows
    DayOf,         \* [Key -> Nat]: the date in a key
    MonthOf(_),    \* the calendar month of a day
    Statement,     \* records: rows [Key -> Nat], the period first .. last, sha, path
    Folders,       \* bound: the sets of statements the folder holds over time
    Preference     \* the sets of statements a request may prefer

ASSUME DedupeAssumption ==
    /\ IsFiniteSet(Key)
    /\ DayOf \in [Key -> Int]
    /\ \A s \in Statement : s.rows \in [Key -> Nat] /\ {s.first, s.last, s.path} \subseteq Int
    /\ \A F \in Folders : /\ F \subseteq Statement /\ IsFiniteSet(F)
                          /\ \A s, t \in F : s.path = t.path => s = t

Size(s) == FoldFunction(+, 0, s.rows)
Nothing == [k \in Key |-> 0]

\* identical bytes: the first path stands for all of them; empty statements are dropped
Distinct(F) ==
    {s \in F : Size(s) > 0 /\ \A t \in F : t.sha = s.sha => s.path <= t.path}

\* the rule chain: preferred, more rows, wider coverage, and the rules that break a tie
\* down to the path
Merit(s, P) == <<IF s \in P THEN 1 ELSE 0, Size(s), s.last - s.first, -s.path>>
RanksAbove(s, t, P) ==
    LET a == Merit(s, P)
        b == Merit(t, P)
    IN  \E i \in 1 .. 4 : a[i] > b[i] /\ \A j \in 1 .. i - 1 : a[j] = b[j]

\* a fold that takes the lowest of S and the fold of the others goes through S by rank
Lowest(S, P) == CHOOSE s \in S : \A t \in S \ {s} : RanksAbove(t, s, P)

-----------------------------------------------------------------------------
(* One statement against one that ranks above it *)

\* Mutant: the last day of the window is left out.
ShortWindow(s, p) == {d \in s.first .. s.last - 1 : d \in p.first .. p.last}
Window(s, p) == {d \in s.first .. s.last : d \in p.first .. p.last}

Within(W, rows) == [k \in Key |-> IF DayOf[k] \in W THEN rows[k] ELSE 0]

\* Mutant: a row of the window is claimed whether or not the other statement has it.
TakeAll(open, held, chosen) == open
\* the rows of s that p stands for: those both have, or all when the request chose p
Take(open, held, chosen) ==
    IF chosen THEN open ELSE [k \in Key |-> IF open[k] <= held[k] THEN open[k] ELSE held[k]]

\* v.claimed are the rows of s some better statement stands for; after a conflict
\* (v.months) the rest are not looked at
Against(s, P, v, p) ==
    LET W == Window(s, p)
        open == Within(W, [k \in Key |-> s.rows[k] - v.claimed[k]])
        held == Within(W, p.rows)
        chosen == p \in P /\ s \notin P
        shared == \E k \in Key : open[k] > 0 /\ held[k] > 0
        touching == ~shared /\ held # Nothing
        more == \E k \in Key : open[k] > held[k]
        fewer == \E k \in Key : open[k] < held[k]
        took == Take(open, held, chosen)
    IN  IF v.months # {} \/ open = Nothing \/ touching THEN v
        ELSE IF more /\ fewer /\ ~chosen THEN [v EXCEPT !.months = {MonthOf(d) : d \in W}]
        ELSE [v EXCEPT !.claimed = [k \in Key |-> @[k] + took[k]]]

-----------------------------------------------------------------------------
(* All statements of an account *)

\* v for a statement that no other was compared with yet
Unclaimed == [claimed |-> Nothing, months |-> {}]
Compared(s, A, P) ==
    MapThenFoldSet(LAMBDA p, v : Against(s, P, v, p), Unclaimed, LAMBDA p : p, LAMBDA T : Lowest(T, P), A)

Accept(m, s, P) ==
    LET v == Compared(s, m.accepted, P)
    IN  IF v.months # {} THEN [m EXCEPT !.blocked = @ \cup v.months]
        ELSE [m EXCEPT !.accepted = @ \cup {s},
                       !.kept = [k \in Key |-> @[k] + s.rows[k] - v.claimed[k]]]

\* ingLayerOne
NoneAccepted == [accepted |-> {}, kept |-> Nothing, blocked |-> {}]
LayerOne(F, P) ==
    MapThenFoldSet(LAMBDA s, m : Accept(m, s, P), NoneAccepted, LAMBDA s : s, LAMBDA T : Lowest(T, P), Distinct(F))

\* the rows of a folder of statements that count; those of a blocked month do not
Merged ==
    [F \in Folders |-> [P \in Preference |->
        LET m == LayerOne(F, P)
        IN  [k \in Key |-> IF MonthOf(DayOf[k]) \in m.blocked THEN 0 ELSE m.kept[k]]]]
Blocked == [F \in Folders |-> [P \in Preference |-> LayerOne(F, P).blocked]]
\* the statements that disagree with a better one: none of their rows count
Refused == [F \in Folders |-> [P \in Preference |-> Distinct(F) \ LayerOne(F, P).accepted]]

-----------------------------------------------------------------------------
(* How often a folder holds a row: for the properties                      *)

Most(S, k) == LET N == {s.rows[k] : s \in S} \cup {0} IN CHOOSE n \in N : \A m \in N : m <= n

\* a document may state a period that leaves out rows of its own
Covers(s, k) == DayOf[k] \in s.first .. s.last
Covering(F, k) == {s \in F : Covers(s, k)}
Besides(S, k) == SumFunctionOnSet([s \in Statement |-> s.rows[k]], S \ Covering(S, k))
Copies == [F \in Folders |-> [k \in Key |-> Most(Covering(F, k), k) + Besides(F, k)]]
=============================================================================
