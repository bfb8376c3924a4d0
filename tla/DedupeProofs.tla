---------------------------- MODULE DedupeProofs ----------------------------
(***************************************************************************)
(* What the merge of overlapping statements keeps and what it loses, for   *)
(* any statements (StatementDedupe).                                       *)
(*                                                                         *)
(* Both loops of ingLayerOne are folds in the order of rank.  A fold is a  *)
(* recursive function on the subsets of what it goes through; here it is   *)
(* shown that the function exists, and an invariant of the loop is an      *)
(* argument by a smallest subset that breaks it.                           *)
(***************************************************************************)
EXTENDS StatementDedupe, SumProofs

-----------------------------------------------------------------------------
(* Folds *)

Picks(pick, S) == \A T \in SUBSET S : T # {} => pick[T] \in T

\* g is the recursive function of a fold over S: step takes the picked element and the
\* fold of the others
FoldsBy(g, step, base, pick, S) ==
    \A T \in SUBSET S : g[T] = IF T = {} THEN base ELSE step[pick[T]][g[T \ {pick[T]}]]

\* Two recursive functions agree wherever both are defined.
LEMMA FoldsAgree ==
    ASSUME NEW S, IsFiniteSet(S), NEW pick, Picks(pick, S), NEW step, NEW base,
           NEW g, NEW h, FoldsBy(g, step, base, pick, S), FoldsBy(h, step, base, pick, S)
    PROVE  g[S] = h[S]
<1> DEFINE B == {T \in SUBSET S : g[T] # h[T]}
<1>1. SUFFICES ASSUME B # {} PROVE FALSE
  OBVIOUS
<1>2. PICK T \in B : \A U \in SUBSET T : U # T => U \notin B
  <2>1. B \in SUBSET SUBSET S
    OBVIOUS
  <2> HIDE DEF B
  <2> QED
    BY <1>1, <2>1, SmallestSubset
<1>3. T # {} /\ T \in SUBSET S
  BY <1>2 DEF FoldsBy
<1>4. g[T \ {pick[T]}] = h[T \ {pick[T]}]
  BY <1>2, <1>3 DEF Picks
<1> QED
  BY <1>2, <1>3, <1>4 DEF FoldsBy

\* Every finite set has the recursive function of its fold.
LEMMA FoldExists ==
    ASSUME NEW S, IsFiniteSet(S), NEW pick, Picks(pick, S), NEW step, NEW base
    PROVE  \E g : FoldsBy(g, step, base, pick, S)
<1> DEFINE Is(g, T) == FoldsBy(g, step, base, pick, T)
           B == {T \in SUBSET S : ~\E g : Is(g, T)}
<1>1. SUFFICES ASSUME B # {} PROVE FALSE
  OBVIOUS
<1>2. PICK T \in B : \A U \in SUBSET T : U # T => U \notin B
  <2>1. B \in SUBSET SUBSET S
    OBVIOUS
  <2> HIDE DEF B
  <2> QED
    BY <1>1, <2>1, SmallestSubset
<1> DEFINE Less(U) == U \ {pick[U]}
           G(U) == CHOOSE g : Is(g, U)
           H == [U \in SUBSET T |-> IF U = {} THEN base ELSE step[pick[U]][G(Less(U))[Less(U)]]]
<1>3. ASSUME NEW U \in SUBSET T, U # T
      PROVE  Is(G(U), U) /\ IsFiniteSet(U)
  <2>1. U \in SUBSET S /\ U \notin B
    BY <1>2, <1>3
  <2>2. \E g : Is(g, U)
    BY <2>1
  <2> QED
    BY <2>1, <2>2, FS_Subset
<1>4. \A U \in SUBSET T : U # {} => pick[U] \in U /\ Less(U) \in SUBSET U /\ Less(U) # U
  BY <1>2 DEF Picks
<1>5. ASSUME NEW U \in SUBSET T, U # {}
      PROVE  G(Less(U))[Less(U)] = H[Less(U)]
  <2> DEFINE V == Less(U)
             W == Less(V)
  <2>1. V \in SUBSET T /\ V # T
    BY <1>4, <1>5
  <2>2. Is(G(V), V) /\ IsFiniteSet(V)
    BY <1>3, <2>1
  <2>3. CASE V = {}
    <3> HIDE DEF G
    <3>1. G(V)[V] = base
      BY <2>2, <2>3 DEF FoldsBy
    <3> QED
      BY <2>1, <2>3, <3>1
  <2>4. CASE V # {}
    <3>1. W \in SUBSET V /\ W # V
      BY <1>4, <2>1, <2>4
    <3>2. W \in SUBSET T /\ W # T
      BY <2>1, <3>1
    <3>3. Is(G(W), W) /\ IsFiniteSet(W)
      BY <1>3, <3>2
    <3> HIDE DEF G
    <3>4. Is(G(V), W)
      BY <2>2, <3>1 DEF FoldsBy
    <3>5. Picks(pick, W)
      BY <1>4, <3>2 DEF Picks
    <3>6. G(V)[W] = G(W)[W]
      BY <3>3, <3>4, <3>5, FoldsAgree
    <3>7. G(V)[V] = step[pick[V]][G(V)[W]]
      BY <2>2, <2>4 DEF FoldsBy
    <3>8. H[V] = step[pick[V]][G(W)[W]]
      BY <2>1, <2>4
    <3> QED
      BY <3>6, <3>7, <3>8
  <2> QED
    BY <2>3, <2>4
<1>6. Is(H, T)
  <2>1. SUFFICES ASSUME NEW U \in SUBSET T
                 PROVE  H[U] = IF U = {} THEN base ELSE step[pick[U]][H[U \ {pick[U]}]]
    BY DEF FoldsBy
  <2>2. CASE U # {}
    <3>1. G(Less(U))[Less(U)] = H[Less(U)]
      BY <1>5, <2>2
    <3> HIDE DEF G
    <3>2. H[U] = step[pick[U]][G(Less(U))[Less(U)]]
      BY <2>2
    <3> HIDE DEF H
    <3> QED
      BY <2>2, <3>1, <3>2
  <2> QED
    BY <2>2
<1> QED
  BY <1>2, <1>6

\* A fold whose steps stay in V has a function into V.
LEMMA FoldStays ==
    ASSUME NEW S, IsFiniteSet(S), NEW pick, Picks(pick, S), NEW V, NEW base \in V,
           NEW step \in [S -> [V -> V]], NEW g, FoldsBy(g, step, base, pick, S)
    PROVE  \A T \in SUBSET S : g[T] \in V
<1> DEFINE B == {T \in SUBSET S : g[T] \notin V}
<1>1. SUFFICES ASSUME B # {} PROVE FALSE
  OBVIOUS
<1>2. PICK T \in B : \A U \in SUBSET T : U # T => U \notin B
  <2>1. B \in SUBSET SUBSET S
    OBVIOUS
  <2> HIDE DEF B
  <2> QED
    BY <1>1, <2>1, SmallestSubset
<1>3. T # {} /\ T \in SUBSET S
  BY <1>2 DEF FoldsBy
<1>4. pick[T] \in T /\ T \ {pick[T]} \in SUBSET T /\ T \ {pick[T]} # T
  BY <1>3 DEF Picks
<1>5. g[T \ {pick[T]}] \in V
  BY <1>2, <1>3, <1>4
<1>6. g[T] = step[pick[T]][g[T \ {pick[T]}]]
  BY <1>3 DEF FoldsBy
<1>7. step[pick[T]] \in [V -> V]
  BY <1>3, <1>4
<1>8. g[T] \in V
  BY <1>5, <1>6, <1>7
<1> QED
  BY <1>2, <1>8

-----------------------------------------------------------------------------
(* The order of statements *)

\* The number of rows of a statement.
LEMMA SizeIsNumber ==
    ASSUME DedupeAssumption, NEW s \in Statement
    PROVE  /\ Size(s) \in Int
           /\ \A k \in Key : s.rows[k] > 0 => Size(s) > 0
<1>1. s.rows \in [Key -> Nat] /\ IsFiniteSet(Key)
  BY DEF DedupeAssumption
<1>2. Size(s) = SumFunctionOnSet(s.rows, Key)
  <2>1. DOMAIN s.rows = Key
    BY <1>1
  <2> QED
    BY <2>1 DEF Size, FoldFunction, SumFunctionOnSet
<1>3. \A k \in Key : s.rows[k] \in Int /\ s.rows[k] >= 0
  BY <1>1
<1>4. Size(s) \in Int
  BY <1>1, <1>2, <1>3, SumIsInteger
<1>5. ASSUME NEW k \in Key, s.rows[k] > 0 PROVE Size(s) > 0
  <2>1. Size(s) = s.rows[k] + SumFunctionOnSet(s.rows, Key \ {k})
    BY <1>1, <1>2, <1>3, SumWithout
  <2>2. IsFiniteSet(Key \ {k}) /\ \A j \in Key \ {k} : s.rows[j] \in Nat
    BY <1>1, FS_Subset
  <2>3. SumFunctionOnSet(s.rows, Key \ {k}) \in Nat
    BY <2>2, SumIsNatural
  <2>4. s.rows[k] \in Nat
    BY <1>1
  <2> QED
    BY <1>5, <2>1, <2>3, <2>4
<1> QED
  BY <1>4, <1>5

\* What is told apart by the rule chain.
LEMMA RanksAboveMeans ==
    ASSUME DedupeAssumption, NEW s \in Statement, NEW t \in Statement, NEW P
    PROVE  LET a == Merit(s, P)
               b == Merit(t, P)
           IN  /\ a[1] \in Int /\ a[2] \in Int /\ a[3] \in Int /\ a[4] = -s.path /\ s.path \in Int
               /\ RanksAbove(s, t, P) <=>
                    \/ a[1] > b[1]
                    \/ a[1] = b[1] /\ a[2] > b[2]
                    \/ a[1] = b[1] /\ a[2] = b[2] /\ a[3] > b[3]
                    \/ a[1] = b[1] /\ a[2] = b[2] /\ a[3] = b[3] /\ a[4] > b[4]
<1> DEFINE a == Merit(s, P)
           b == Merit(t, P)
<1>1. /\ a[1] \in Int /\ a[2] \in Int /\ a[3] \in Int /\ a[4] = -s.path /\ s.path \in Int
  BY SizeIsNumber DEF Merit, DedupeAssumption
<1>2. RanksAbove(s, t, P) <=> \E i \in 1 .. 4 : a[i] > b[i] /\ \A j \in 1 .. i - 1 : a[j] = b[j]
  BY DEF RanksAbove
<1> HIDE DEF a, b
<1>3. \A i \in 1 .. 4 : i = 1 \/ i = 2 \/ i = 3 \/ i = 4
  OBVIOUS
<1>4. /\ 1 .. 1 - 1 = {} /\ 1 .. 2 - 1 = {1} /\ 1 .. 3 - 1 = {1, 2} /\ 1 .. 4 - 1 = {1, 2, 3}
      /\ {1, 2, 3, 4} \subseteq 1 .. 4
  OBVIOUS
<1>5. RanksAbove(s, t, P) <=>
        \/ a[1] > b[1]
        \/ a[1] = b[1] /\ a[2] > b[2]
        \/ a[1] = b[1] /\ a[2] = b[2] /\ a[3] > b[3]
        \/ a[1] = b[1] /\ a[2] = b[2] /\ a[3] = b[3] /\ a[4] > b[4]
  BY <1>2, <1>3, <1>4
<1> QED
  BY <1>1, <1>5 DEF a, b

\* Statements of different paths are ranked, and the ranking is transitive.
LEMMA RanksAboveOrders ==
    ASSUME DedupeAssumption, NEW s \in Statement, NEW t \in Statement, NEW u \in Statement, NEW P
    PROVE  /\ s.path # t.path => RanksAbove(s, t, P) \/ RanksAbove(t, s, P)
           /\ RanksAbove(s, t, P) /\ RanksAbove(t, u, P) => RanksAbove(s, u, P)
<1> DEFINE a == Merit(s, P)
           b == Merit(t, P)
           c == Merit(u, P)
<1> QED
  BY RanksAboveMeans

Folder(F) == IsFiniteSet(F) /\ F \subseteq Statement /\ \A s, t \in F : s.path = t.path => s = t

\* A folder has a lowest statement.
LEMMA LowestIsElement ==
    ASSUME DedupeAssumption, NEW T, Folder(T), T # {}, NEW P
    PROVE  Lowest(T, P) \in T
<1> DEFINE Low(s, U) == s \in U /\ \A t \in U \ {s} : RanksAbove(t, s, P)
           B == {U \in SUBSET T : U # {} /\ ~\E s \in U : Low(s, U)}
<1>1. ASSUME B # {} PROVE FALSE
  <2>1. PICK U \in B : \A V \in SUBSET U : V # U => V \notin B
    <3>1. B \in SUBSET SUBSET T /\ IsFiniteSet(T)
      BY DEF Folder
    <3> HIDE DEF B
    <3> QED
      BY <1>1, <3>1, SmallestSubset
  <2>2. U \in SUBSET T /\ ~\E s \in U : Low(s, U)
    BY <2>1
  <2>3. PICK x \in U : TRUE
    BY <2>1
  <2>4. U \ {x} # {}
    BY <2>2, <2>3
  <2>5. PICK y \in U \ {x} : Low(y, U \ {x})
    <3>1. U \ {x} \in SUBSET U /\ U \ {x} # U
      BY <2>3
    <3> QED
      BY <2>1, <2>4, <3>1
  <2>6. x \in Statement /\ y \in Statement /\ x.path # y.path
    BY <2>2, <2>3, <2>5 DEF Folder
  <2>7. CASE RanksAbove(x, y, P)
    <3>1. Low(y, U)
      BY <2>5, <2>7
    <3> QED
      BY <2>2, <2>5, <3>1
  <2>8. CASE RanksAbove(y, x, P)
    <3>1. ASSUME NEW t \in U \ {x} PROVE RanksAbove(t, x, P)
      <4>1. CASE t = y
        BY <2>8, <4>1
      <4>2. CASE t # y
        <5>1. RanksAbove(t, y, P)
          BY <2>5, <3>1, <4>2
        <5>2. t \in Statement
          BY <2>2, <3>1 DEF Folder
        <5> QED
          BY <2>6, <2>8, <5>1, <5>2, RanksAboveOrders
      <4> QED
        BY <4>1, <4>2
    <3>2. Low(x, U)
      BY <2>3, <3>1
    <3> QED
      BY <2>2, <2>3, <3>2
  <2> QED
    BY <2>6, <2>7, <2>8, RanksAboveOrders
<1>2. \E s \in T : Low(s, T)
  BY <1>1
<1> QED
  BY <1>2 DEF Lowest

-----------------------------------------------------------------------------
(* One statement against the better ones *)

Months == {MonthOf(d) : d \in Int}
Verdict == [claimed : [Key -> Int], months : SUBSET Months]

\* claims are rows of the statement
Claims(s, v) == \A k \in Key : 0 <= v.claimed[k] /\ v.claimed[k] <= s.rows[k]

\* p stands for whatever both have on the days that both cover
StoodFor(s, p, v) ==
    \A k \in Key : Covers(s, k) /\ Covers(p, k) => v.claimed[k] >= s.rows[k] \/ v.claimed[k] >= p.rows[k]

\* w is v after a comparison with p
Keeps(s, p, P, v, w) ==
    /\ w.months = {} => v.months = {}
    /\ Claims(s, v) => /\ Claims(s, w)
                       /\ \A k \in Key : v.claimed[k] <= w.claimed[k]
                       /\ P = {} => \A k \in Key : w.claimed[k] <= v.claimed[k] + p.rows[k]
    /\ Claims(s, v) /\ w.months = {} => StoodFor(s, p, w)

\* One comparison ends in a conflict, or claims every row that both still have on the days
\* both cover, and never more than the other statement has unless the request chose it.
LEMMA AgainstClaims ==
    ASSUME DedupeAssumption, NEW s \in Statement, NEW p \in Statement, NEW P, NEW v \in Verdict
    PROVE  Against(s, P, v, p) \in Verdict /\ Keeps(s, p, P, v, Against(s, P, v, p))
<1> DEFINE W == Window(s, p)
           rest == [k \in Key |-> s.rows[k] - v.claimed[k]]
           open == Within(W, rest)
           held == Within(W, p.rows)
           chosen == p \in P /\ s \notin P
           touching == ~(\E k \in Key : open[k] > 0 /\ held[k] > 0) /\ held # Nothing
           conflict == (\E k \in Key : open[k] > held[k]) /\ (\E k \in Key : open[k] < held[k]) /\ ~chosen
           took == Take(open, held, chosen)
           stays == v.months # {} \/ open = Nothing \/ touching
           w == Against(s, P, v, p)
<1>1. w = IF stays THEN v
          ELSE IF conflict THEN [v EXCEPT !.months = {MonthOf(d) : d \in W}]
          ELSE [v EXCEPT !.claimed = [k \in Key |-> @[k] + took[k]]]
  BY DEF Against
<1>2. /\ s.rows \in [Key -> Nat] /\ p.rows \in [Key -> Nat] /\ v.claimed \in [Key -> Int]
      /\ v.months \in SUBSET Months /\ v = [claimed |-> v.claimed, months |-> v.months]
  BY DEF DedupeAssumption, Verdict
<1>3. W \in SUBSET Int
  BY DEF Window, DedupeAssumption
<1>4. /\ open \in [Key -> Int] /\ held \in [Key -> Int] /\ Nothing = [k \in Key |-> 0]
      /\ \A k \in Key : /\ open[k] = IF DayOf[k] \in W THEN s.rows[k] - v.claimed[k] ELSE 0
                        /\ held[k] = IF DayOf[k] \in W THEN p.rows[k] ELSE 0
  BY <1>2 DEF Within, Nothing
<1>5. /\ took \in [Key -> Int]
      /\ \A k \in Key : took[k] = IF chosen \/ open[k] <= held[k] THEN open[k] ELSE held[k]
  BY <1>4 DEF Take
<1>6. open # Nothing => W # {}
  BY <1>4
<1>7. /\ Claims(s, v) => \A k \in Key : 0 <= open[k] /\ 0 <= held[k]
      /\ Claims(s, v) => \A k \in Key : 0 <= took[k] /\ took[k] <= open[k] /\ open[k] <= s.rows[k] - v.claimed[k]
      /\ Claims(s, v) /\ ~chosen => \A k \in Key : took[k] <= held[k] /\ held[k] <= p.rows[k]
  BY <1>2, <1>4, <1>5 DEF Claims
<1>8. ASSUME NEW k \in Key, Covers(s, k), Covers(p, k)
      PROVE  DayOf[k] \in W
  BY <1>8 DEF Covers, Window
<1> HIDE DEF W, open, held, took, w
<1>9. CASE stays
  <2>1. w = v
    BY <1>1, <1>9
  <2>2. ASSUME Claims(s, v), w.months = {}, NEW k \in Key, Covers(s, k), Covers(p, k)
        PROVE  v.claimed[k] >= s.rows[k] \/ v.claimed[k] >= p.rows[k]
    <3>1. open[k] = s.rows[k] - v.claimed[k] /\ held[k] = p.rows[k]
      BY <1>4, <1>8, <2>2
    <3>2. open[k] <= 0 \/ held[k] <= 0
      BY <1>4, <1>9, <2>1, <2>2
    <3> QED
      BY <1>2, <2>2, <3>1, <3>2 DEF Claims
  <2>3. P = {} => \A k \in Key : v.claimed[k] <= v.claimed[k] + p.rows[k]
    BY <1>2
  <2>4. \A k \in Key : v.claimed[k] <= v.claimed[k]
    BY <1>2
  <2> HIDE DEF stays
  <2> QED
    BY <2>1, <2>2, <2>3, <2>4 DEF w, StoodFor, Keeps
<1>10. CASE ~stays /\ conflict
  <2>1. w = [claimed |-> v.claimed, months |-> {MonthOf(d) : d \in W}]
    BY <1>1, <1>2, <1>10
  <2>2. w.months # {} /\ w.months \in SUBSET Months /\ w.claimed = v.claimed
    <3>1. {MonthOf(d) : d \in W} # {}
      BY <1>6, <1>10
    <3>2. {MonthOf(d) : d \in W} \in SUBSET Months
      BY <1>3 DEF Months
    <3> QED
      BY <2>1, <3>1, <3>2
  <2>3. w \in Verdict
    BY <1>2, <2>1, <2>2 DEF Verdict
  <2>4. P = {} => \A k \in Key : v.claimed[k] <= v.claimed[k] + p.rows[k]
    BY <1>2
  <2>5. \A k \in Key : v.claimed[k] <= v.claimed[k]
    BY <1>2
  <2> HIDE DEF stays, conflict
  <2> QED
    BY <2>2, <2>3, <2>4, <2>5 DEF w, Claims, Keeps
<1>11. CASE ~stays /\ ~conflict
  <2>1. w = [claimed |-> [k \in Key |-> v.claimed[k] + took[k]], months |-> v.months]
    BY <1>1, <1>2, <1>11
  <2>2. /\ w \in Verdict /\ w.months = v.months /\ w.claimed \in [Key -> Int]
        /\ \A k \in Key : w.claimed[k] = v.claimed[k] + took[k]
    BY <1>2, <1>5, <2>1 DEF Verdict
  <2>3. ASSUME Claims(s, v)
        PROVE  /\ Claims(s, w)
               /\ \A k \in Key : v.claimed[k] <= w.claimed[k]
               /\ P = {} => \A k \in Key : w.claimed[k] <= v.claimed[k] + p.rows[k]
    <3>1. P = {} => ~chosen
      OBVIOUS
    <3> HIDE DEF chosen
    <3>2. \A k \in Key : 0 <= v.claimed[k] /\ v.claimed[k] <= s.rows[k]
      BY <2>3 DEF Claims
    <3> QED
      BY <1>2, <1>4, <1>5, <1>7, <2>2, <2>3, <3>1, <3>2 DEF Claims
  <2>4. ASSUME Claims(s, v), NEW k \in Key, Covers(s, k), Covers(p, k)
        PROVE  w.claimed[k] >= s.rows[k] \/ w.claimed[k] >= p.rows[k]
    <3>1. 0 <= v.claimed[k] /\ v.claimed[k] <= s.rows[k] /\ 0 <= took[k]
      BY <1>7, <2>4 DEF Claims
    <3>2. open[k] = s.rows[k] - v.claimed[k] /\ held[k] = p.rows[k]
      BY <1>4, <1>8, <2>4
    <3>3. took[k] = open[k] \/ took[k] = held[k]
      BY <1>5
    <3> QED
      BY <1>2, <1>5, <2>2, <2>4, <3>1, <3>2, <3>3
  <2> HIDE DEF stays, conflict
  <2> QED
    BY <2>2, <2>3, <2>4 DEF w, StoodFor, Keeps
<1> HIDE DEF stays, conflict
<1> QED
  BY <1>9, <1>10, <1>11 DEF w

\* g are the comparisons of s with the statements of A, the best ones first.
CompareFold(g, s, A, P) ==
    /\ g[{}] = Unclaimed
    /\ \A T \in SUBSET A : g[T] \in Verdict
    /\ \A T \in SUBSET A : T # {} =>
         /\ Lowest(T, P) \in T
         /\ g[T] = Against(s, P, g[T \ {Lowest(T, P)}], Lowest(T, P))

\* The comparisons of a statement are a recursive function on the better ones.
LEMMA ComparedFolds ==
    ASSUME DedupeAssumption, NEW s \in Statement, NEW A, Folder(A), NEW P
    PROVE  \E g : CompareFold(g, s, A, P) /\ g[A] = Compared(s, A, P)
<1> DEFINE Low(T) == Lowest(T, P)
           Is(g) == g = [T \in SUBSET A |-> IF T = {} THEN Unclaimed ELSE Against(s, P, g[T \ {Low(T)}], Low(T))]
           g0 == CHOOSE g : Is(g)
           pick == [T \in SUBSET A |-> Low(T)]
           step == [p \in A |-> [v \in Verdict |-> Against(s, P, v, p)]]
<1>1. Compared(s, A, P) = g0[A]
  BY DEF Compared, MapThenFoldSet
<1>2. IsFiniteSet(A) /\ A \subseteq Statement
  BY DEF Folder
<1>3. \A T \in SUBSET A : T # {} => Low(T) \in T
  <2>1. ASSUME NEW T \in SUBSET A PROVE Folder(T)
    BY <1>2, FS_Subset DEF Folder
  <2> QED
    BY <2>1, LowestIsElement
<1>4. Picks(pick, A)
  BY <1>3 DEF Picks
<1>5. step \in [A -> [Verdict -> Verdict]]
  <2>1. ASSUME NEW p \in A, NEW v \in Verdict PROVE Against(s, P, v, p) \in Verdict
    BY <1>2, AgainstClaims
  <2> QED
    BY <2>1
<1>6. Unclaimed \in Verdict
  BY DEF Unclaimed, Verdict, Nothing
<1>7. PICK h : FoldsBy(h, step, Unclaimed, pick, A)
  <2> HIDE DEF pick, step
  <2> QED
    BY <1>2, <1>4, FoldExists
<1>8. \A T \in SUBSET A : h[T] \in Verdict
  <2> HIDE DEF pick, step
  <2> QED
    BY <1>2, <1>4, <1>5, <1>6, <1>7, FoldStays
<1> DEFINE h0 == [T \in SUBSET A |-> h[T]]
<1>9. ASSUME NEW T \in SUBSET A
      PROVE  h0[T] = IF T = {} THEN Unclaimed ELSE Against(s, P, h0[T \ {Low(T)}], Low(T))
  <2>1. CASE T = {}
    <3>1. h[T] = Unclaimed
      BY <1>7, <2>1 DEF FoldsBy
    <3> QED
      BY <2>1, <3>1
  <2>2. CASE T # {}
    <3>1. Low(T) \in A /\ T \ {Low(T)} \in SUBSET A
      BY <1>3, <2>2
    <3>2. pick[T] = Low(T)
      OBVIOUS
    <3>3. h[T] = step[Low(T)][h[T \ {Low(T)}]]
      <4> HIDE DEF step
      <4> QED
        BY <1>7, <2>2, <3>2 DEF FoldsBy
    <3>4. step[Low(T)][h[T \ {Low(T)}]] = Against(s, P, h[T \ {Low(T)}], Low(T))
      BY <1>8, <3>1
    <3> HIDE DEF step
    <3> QED
      BY <2>2, <3>1, <3>3, <3>4
  <2> QED
    BY <2>1, <2>2
<1>10. Is(h0)
  <2>1. h0 = [T \in SUBSET A |-> h0[T]]
    OBVIOUS
  <2> HIDE DEF h0
  <2> QED
    BY <1>9, <2>1
<1>11. Is(g0)
  <2> HIDE DEF h0, Is
  <2> QED
    BY <1>10
<1>12. \A T \in SUBSET A : g0[T] = IF T = {} THEN Unclaimed ELSE Against(s, P, g0[T \ {Low(T)}], Low(T))
  <2> HIDE DEF g0
  <2>1. g0 = [T \in SUBSET A |-> IF T = {} THEN Unclaimed ELSE Against(s, P, g0[T \ {Low(T)}], Low(T))]
    BY <1>11
  <2> QED
    BY <2>1
<1> HIDE DEF g0
<1>13. \A T \in SUBSET A : g0[T] \in Verdict
  <2> DEFINE B == {T \in SUBSET A : g0[T] \notin Verdict}
  <2>1. SUFFICES ASSUME B # {} PROVE FALSE
    OBVIOUS
  <2>2. PICK T \in B : \A U \in SUBSET T : U # T => U \notin B
    <3>1. B \in SUBSET SUBSET A
      OBVIOUS
    <3> HIDE DEF B
    <3> QED
      BY <1>2, <2>1, <3>1, SmallestSubset
  <2>3. T \in SUBSET A /\ T # {}
    BY <1>6, <1>12, <2>2
  <2>4. Low(T) \in T /\ Low(T) \in Statement
    BY <1>2, <1>3, <2>3
  <2>5. g0[T \ {Low(T)}] \in Verdict
    BY <2>2, <2>3, <2>4
  <2>6. g0[T] = Against(s, P, g0[T \ {Low(T)}], Low(T))
    BY <1>12, <2>3
  <2>7. g0[T] \in Verdict
    BY <2>4, <2>5, <2>6, AgainstClaims
  <2> QED
    BY <2>2, <2>7
<1>14. g0[{}] = Unclaimed
  BY <1>12
<1>15. CompareFold(g0, s, A, P)
  BY <1>3, <1>12, <1>13, <1>14 DEF CompareFold
<1> QED
  BY <1>1, <1>15

\* What a statement has left to give: after all comparisons, without a conflict, every
\* better statement stands for what both have on the days both cover; and where only one better statement has a
\* row, no more of it is claimed than that one has.
LEMMA ComparedClaims ==
    ASSUME DedupeAssumption, NEW s \in Statement, NEW A, Folder(A), NEW P
    PROVE  LET w == Compared(s, A, P)
           IN  /\ w \in Verdict
               /\ Claims(s, w)
               /\ w.months = {} => \A p \in A : StoodFor(s, p, w)
               /\ P = {} => \A k \in Key : /\ (\A p \in A : p.rows[k] = 0) => w.claimed[k] <= 0
                                           /\ \A q \in A : (\A p \in A \ {q} : p.rows[k] = 0) =>
                                                 w.claimed[k] <= q.rows[k]
<1> DEFINE Inv(T, v) ==
             /\ Claims(s, v)
             /\ v.months = {} => \A p \in T : StoodFor(s, p, v)
             /\ P = {} => \A k \in Key : /\ (\A p \in T : p.rows[k] = 0) => v.claimed[k] <= 0
                                         /\ \A q \in T : (\A p \in T \ {q} : p.rows[k] = 0) =>
                                               v.claimed[k] <= q.rows[k]
<1>1. PICK g : CompareFold(g, s, A, P) /\ g[A] = Compared(s, A, P)
  BY ComparedFolds
<1>2. IsFiniteSet(A) /\ A \subseteq Statement
  BY DEF Folder
<1>3. \A T \in SUBSET A : Inv(T, g[T])
  <2> DEFINE B == {T \in SUBSET A : ~Inv(T, g[T])}
  <2>1. SUFFICES ASSUME B # {} PROVE FALSE
    OBVIOUS
  <2>2. PICK T \in B : \A U \in SUBSET T : U # T => U \notin B
    <3>1. B \in SUBSET SUBSET A
      OBVIOUS
    <3> HIDE DEF B
    <3> QED
      BY <1>2, <2>1, <3>1, SmallestSubset
  <2>3. T \in SUBSET A /\ ~Inv(T, g[T])
    BY <2>2
  <2>4. T # {}
    <3>1. s.rows \in [Key -> Nat]
      BY DEF DedupeAssumption
    <3>2. Inv({}, Unclaimed)
      BY <3>1 DEF Unclaimed, Nothing, Claims
    <3> HIDE DEF Inv
    <3> QED
      BY <1>1, <2>3, <3>2 DEF CompareFold
  <2> DEFINE p == Lowest(T, P)
             R == T \ {p}
             v == g[R]
             w == g[T]
  <2>5. p \in T /\ p \in Statement /\ v \in Verdict /\ w \in Verdict /\ w = Against(s, P, v, p)
    BY <1>1, <1>2, <2>3, <2>4 DEF CompareFold
  <2>6. Inv(R, v)
    <3>1. R \in SUBSET T /\ R # T /\ R \in SUBSET A
      BY <2>3, <2>5
    <3>2. R \notin B
      BY <2>2, <3>1
    <3> HIDE DEF Inv
    <3> QED
      BY <3>1, <3>2
  <2>7. /\ v.claimed \in [Key -> Int] /\ w.claimed \in [Key -> Int]
        /\ s.rows \in [Key -> Nat] /\ \A q \in T : q.rows \in [Key -> Nat]
    BY <1>2, <2>3, <2>5 DEF Verdict, DedupeAssumption
  <2>8. /\ w.months = {} => v.months = {}
        /\ Claims(s, w)
        /\ \A k \in Key : v.claimed[k] <= w.claimed[k]
        /\ P = {} => \A k \in Key : w.claimed[k] <= v.claimed[k] + p.rows[k]
        /\ w.months = {} => StoodFor(s, p, w)
    <3>1. Claims(s, v)
      BY <2>6
    <3> HIDE DEF p, v, w, Inv
    <3> QED
      BY <2>5, <3>1, AgainstClaims DEF Keeps
  <2>9. T = R \cup {p} /\ R \subseteq A /\ p \in A
    BY <2>3, <2>5
  <2> HIDE DEF p, v, w, B, R
  <2>10. ASSUME w.months = {}, NEW q \in T
         PROVE  StoodFor(s, q, w)
    <3>1. CASE q = p
      BY <2>8, <2>9, <2>10, <3>1
    <3>2. CASE q \in R
      <4>1. StoodFor(s, q, v)
        BY <2>6, <2>8, <2>10, <3>2
      <4>2. q.rows \in [Key -> Nat]
        BY <2>7
      <4> QED
        BY <2>7, <2>8, <4>1, <4>2 DEF StoodFor
    <3> QED
      BY <2>9, <3>1, <3>2
  <2>11. ASSUME P = {}, NEW k \in Key, \A q \in T : q.rows[k] = 0
         PROVE  w.claimed[k] <= 0
    <3>1. v.claimed[k] <= 0 /\ p.rows[k] = 0
      BY <2>6, <2>9, <2>11
    <3> QED
      BY <2>7, <2>8, <2>11, <3>1
  <2>12. ASSUME P = {}, NEW k \in Key, NEW q \in T, \A r \in T \ {q} : r.rows[k] = 0
         PROVE  w.claimed[k] <= q.rows[k]
    <3>1. w.claimed[k] <= v.claimed[k] + p.rows[k]
      BY <2>8, <2>12
    <3>2. v.claimed[k] \in Int /\ w.claimed[k] \in Int /\ p.rows[k] \in Nat /\ q.rows[k] \in Nat
      BY <2>7, <2>9
    <3>3. CASE q = p
      <4>1. \A r \in R : r.rows[k] = 0
        BY <2>12, <3>3 DEF R
      <4>2. v.claimed[k] <= 0
        BY <2>6, <2>12, <4>1
      <4> QED
        BY <3>1, <3>2, <3>3, <4>2
    <3>4. CASE q # p
      <4>1. q \in R /\ p.rows[k] = 0 /\ \A r \in R \ {q} : r.rows[k] = 0
        BY <2>9, <2>12, <3>4
      <4>2. v.claimed[k] <= q.rows[k]
        BY <2>6, <2>12, <4>1
      <4> QED
        BY <3>1, <3>2, <4>1, <4>2
    <3> QED
      BY <3>3, <3>4
  <2>13. Inv(T, w)
    BY <2>8, <2>10, <2>11, <2>12
  <2> QED
    BY <2>3, <2>13 DEF w
<1>4. g[A] \in Verdict /\ Inv(A, g[A])
  BY <1>1, <1>3 DEF CompareFold
<1> HIDE DEF Inv
<1>5. Compared(s, A, P) \in Verdict /\ Inv(A, Compared(s, A, P))
  BY <1>1, <1>4
<1> QED
  BY <1>5 DEF Inv

-----------------------------------------------------------------------------
(* All statements of a folder *)

Layer(D) == [accepted : SUBSET D, kept : [Key -> Int], blocked : SUBSET Months]

\* at most two statements of D have rows of k
AtMostTwo(D, k) ==
    \A x, y, z \in D : x.rows[k] > 0 /\ y.rows[k] > 0 /\ z.rows[k] > 0 => x = y \/ y = z \/ x = z

\* no more rows of k than one of S has that covers their day, and those beside it
Bounded(n, S, k) ==
    \/ n <= Besides(S, k)
    \/ \E p \in Covering(S, k) : n <= p.rows[k] + Besides(S, k)

\* What holds of the rows kept after some statements of D: none is multiplied, and none is
\* lost that only two statements have.
Kept(m, D, P) ==
    /\ \A k \in Key : m.kept[k] >= 0
    /\ \A k \in Key : Bounded(m.kept[k], m.accepted, k)
    /\ P = {} => \A k \in Key : AtMostTwo(D, k) => \A p \in m.accepted : p.rows[k] <= m.kept[k]

\* One statement more is one that covers the day of k, or its rows of k count besides.
LEMMA OneBesides ==
    ASSUME DedupeAssumption, NEW A, Folder(A), NEW s \in Statement \ A, NEW k \in Key
    PROVE  /\ Besides(A, k) \in Nat
           /\ Covers(s, k) => /\ Covering(A \cup {s}, k) = Covering(A, k) \cup {s}
                              /\ Besides(A \cup {s}, k) = Besides(A, k)
           /\ ~Covers(s, k) => /\ Covering(A \cup {s}, k) = Covering(A, k)
                               /\ Besides(A \cup {s}, k) = s.rows[k] + Besides(A, k)
<1> DEFINE F == [t \in Statement |-> t.rows[k]]
           S == A \ Covering(A, k)
<1>1. A \subseteq Statement /\ IsFiniteSet(A)
  BY DEF Folder
<1>2. IsFiniteSet(S) /\ S \subseteq Statement
  BY <1>1, FS_Subset
<1>3. /\ \A t \in Statement : F[t] \in Nat
      /\ F[s] = s.rows[k] /\ s \notin S
  BY DEF DedupeAssumption
<1>4. Besides(A, k) = SumFunctionOnSet(F, S)
  BY DEF Besides
<1>5. Besides(A \cup {s}, k) = SumFunctionOnSet(F, (A \cup {s}) \ Covering(A \cup {s}, k))
  BY DEF Besides
<1>6. Besides(A, k) \in Nat
  <2> HIDE DEF F, S
  <2>1. \A t \in S : F[t] \in Nat
    BY <1>2, <1>3
  <2> QED
    BY <1>2, <1>4, <2>1, SumIsNatural
<1>7. CASE Covers(s, k)
  <2>1. Covering(A \cup {s}, k) = Covering(A, k) \cup {s}
    BY <1>7 DEF Covering
  <2>2. (A \cup {s}) \ Covering(A \cup {s}, k) = S
    BY <2>1 DEF Covering
  <2> HIDE DEF F, S
  <2> QED
    BY <1>4, <1>5, <1>6, <1>7, <2>1, <2>2
<1>8. CASE ~Covers(s, k)
  <2>1. Covering(A \cup {s}, k) = Covering(A, k)
    BY <1>8 DEF Covering
  <2>2. (A \cup {s}) \ Covering(A \cup {s}, k) = S \cup {s}
    BY <2>1 DEF Covering
  <2> HIDE DEF F, S
  <2>3. \A t \in S \cup {s} : F[t] \in Int
    BY <1>2, <1>3
  <2>4. SumFunctionOnSet(F, S \cup {s}) = F[s] + SumFunctionOnSet(F, S)
    BY <1>2, <1>3, <2>3, SumWith
  <2> QED
    BY <1>3, <1>4, <1>5, <1>6, <1>8, <2>1, <2>2, <2>4
<1> QED
  BY <1>7, <1>8

\* Every statement keeps it so.
LEMMA AcceptKeeps ==
    ASSUME DedupeAssumption, NEW D, Folder(D), NEW s \in D, NEW P, NEW m \in Layer(D)
    PROVE  /\ Accept(m, s, P) \in Layer(D)
           /\ s \notin m.accepted /\ Kept(m, D, P) => Kept(Accept(m, s, P), D, P)
<1> DEFINE A == m.accepted
           v == Compared(s, A, P)
           n == Accept(m, s, P)
<1>1. /\ m.accepted \in SUBSET D /\ m.kept \in [Key -> Int] /\ m.blocked \in SUBSET Months
      /\ m = [accepted |-> m.accepted, kept |-> m.kept, blocked |-> m.blocked]
  BY DEF Layer
<1>2. s \in Statement /\ D \subseteq Statement /\ Folder(A)
  BY <1>1, FS_Subset DEF Folder
<1>3. /\ v \in Verdict /\ Claims(s, v)
      /\ v.months = {} => \A p \in A : StoodFor(s, p, v)
      /\ P = {} => \A k \in Key : (\A p \in A : p.rows[k] = 0) => v.claimed[k] <= 0
      /\ P = {} => \A k \in Key : \A q \in A : (\A p \in A \ {q} : p.rows[k] = 0) => v.claimed[k] <= q.rows[k]
  <2> HIDE DEF A
  <2> QED
    BY <1>2, ComparedClaims
<1>4. n = IF v.months # {} THEN [m EXCEPT !.blocked = @ \cup v.months]
          ELSE [m EXCEPT !.accepted = @ \cup {s}, !.kept = [k \in Key |-> @[k] + s.rows[k] - v.claimed[k]]]
  BY DEF Accept
<1>5. v.months \in SUBSET Months /\ v.claimed \in [Key -> Int]
  BY <1>3 DEF Verdict
<1>6. s.rows \in [Key -> Nat] /\ \A p \in D : p.rows \in [Key -> Nat]
  BY <1>2 DEF DedupeAssumption
<1> HIDE DEF v, n
<1>7. CASE v.months # {}
  <2>1. n = [accepted |-> m.accepted, kept |-> m.kept, blocked |-> m.blocked \cup v.months]
    BY <1>1, <1>4, <1>7
  <2>2. n \in Layer(D) /\ n.accepted = m.accepted /\ n.kept = m.kept
    BY <1>1, <1>5, <2>1 DEF Layer
  <2>3. Kept(m, D, P) => Kept(n, D, P)
    BY <2>2 DEF Kept
  <2> QED
    BY <2>2, <2>3 DEF n
<1>8. CASE v.months = {}
  <2>1. n = [accepted |-> A \cup {s}, kept |-> [k \in Key |-> m.kept[k] + s.rows[k] - v.claimed[k]],
             blocked |-> m.blocked]
    BY <1>1, <1>4, <1>8
  <2>2. /\ n \in Layer(D) /\ n.accepted = A \cup {s} /\ n.kept \in [Key -> Int]
        /\ \A k \in Key : n.kept[k] = m.kept[k] + s.rows[k] - v.claimed[k]
    BY <1>1, <1>5, <1>6, <2>1 DEF Layer
  <2>3. \A k \in Key : 0 <= v.claimed[k] /\ v.claimed[k] <= s.rows[k]
    BY <1>3 DEF Claims
  <2>4. ASSUME s \notin A, Kept(m, D, P) PROVE Kept(n, D, P)
    <3>1. \A k \in Key : m.kept[k] >= 0
      BY <2>4 DEF Kept
    <3>2. \A k \in Key : n.kept[k] >= m.kept[k]
      BY <1>1, <1>5, <1>6, <2>2, <2>3
    <3>3. \A k \in Key : n.kept[k] >= 0
      BY <1>1, <2>2, <3>1, <3>2
    <3>4. ASSUME NEW k \in Key PROVE Bounded(n.kept[k], A \cup {s}, k)
      <4>1. Bounded(m.kept[k], A, k)
        BY <2>4 DEF Kept
      <4>2. /\ s.rows[k] \in Nat /\ v.claimed[k] \in Int /\ m.kept[k] \in Int
            /\ n.kept[k] = m.kept[k] + s.rows[k] - v.claimed[k]
            /\ 0 <= v.claimed[k] /\ v.claimed[k] <= s.rows[k]
            /\ \A p \in A : p.rows[k] \in Nat
        BY <1>1, <1>5, <1>6, <2>2, <2>3
      <4>3. /\ Besides(A, k) \in Nat
            /\ Covers(s, k) => /\ Covering(A \cup {s}, k) = Covering(A, k) \cup {s}
                               /\ Besides(A \cup {s}, k) = Besides(A, k)
            /\ ~Covers(s, k) => /\ Covering(A \cup {s}, k) = Covering(A, k)
                                /\ Besides(A \cup {s}, k) = s.rows[k] + Besides(A, k)
        BY <1>2, <2>4, OneBesides
      <4>4. CASE Covers(s, k)
        <5>1. CASE m.kept[k] <= Besides(A, k)
          <6>1. s \in Covering(A \cup {s}, k)
            BY <4>4 DEF Covering
          <6>2. n.kept[k] <= s.rows[k] + Besides(A \cup {s}, k)
            BY <4>2, <4>3, <4>4, <5>1
          <6> QED
            BY <6>1, <6>2 DEF Bounded
        <5>2. ASSUME NEW p \in Covering(A, k), m.kept[k] <= p.rows[k] + Besides(A, k)
              PROVE  Bounded(n.kept[k], A \cup {s}, k)
          <6>1. p \in A /\ Covers(p, k)
            BY DEF Covering
          <6>2. v.claimed[k] >= s.rows[k] \/ v.claimed[k] >= p.rows[k]
            BY <1>3, <1>8, <4>4, <6>1 DEF StoodFor
          <6>3. n.kept[k] <= p.rows[k] + Besides(A, k) \/ n.kept[k] <= s.rows[k] + Besides(A, k)
            BY <4>2, <4>3, <5>2, <6>1, <6>2
          <6>4. p \in Covering(A \cup {s}, k) /\ s \in Covering(A \cup {s}, k)
            BY <4>3, <4>4
          <6>5. Besides(A \cup {s}, k) = Besides(A, k)
            BY <4>3, <4>4
          <6> QED
            BY <6>3, <6>4, <6>5 DEF Bounded
        <5> QED
          BY <4>1, <5>1, <5>2 DEF Bounded
      <4>5. CASE ~Covers(s, k)
        <5>1. CASE m.kept[k] <= Besides(A, k)
          <6>1. n.kept[k] <= Besides(A \cup {s}, k)
            BY <4>2, <4>3, <4>5, <5>1
          <6> QED
            BY <6>1 DEF Bounded
        <5>2. ASSUME NEW p \in Covering(A, k), m.kept[k] <= p.rows[k] + Besides(A, k)
              PROVE  Bounded(n.kept[k], A \cup {s}, k)
          <6>1. p.rows[k] \in Nat
            BY <4>2 DEF Covering
          <6>2. n.kept[k] <= p.rows[k] + Besides(A \cup {s}, k)
            BY <4>2, <4>3, <4>5, <5>2, <6>1
          <6> QED
            BY <4>3, <4>5, <6>2 DEF Bounded
        <5> QED
          BY <4>1, <5>1, <5>2 DEF Bounded
      <4> QED
        BY <4>4, <4>5
    <3>5. \A k \in Key : Bounded(n.kept[k], n.accepted, k)
      <4>1. n.accepted = A \cup {s}
        BY <2>2
      <4> QED
        BY <3>4, <4>1 DEF Bounded
    <3>6. ASSUME P = {}, NEW k \in Key, AtMostTwo(D, k), NEW p \in n.accepted
          PROVE  p.rows[k] <= n.kept[k]
      <4>1. \A q \in A : q.rows[k] <= m.kept[k]
        BY <2>4, <3>6 DEF Kept
      <4>2. /\ s.rows[k] \in Nat /\ v.claimed[k] \in Int /\ m.kept[k] \in Int /\ n.kept[k] \in Int
            /\ p.rows[k] \in Nat /\ \A q \in A : q.rows[k] \in Nat
        BY <1>1, <1>5, <1>6, <2>2, <3>6
      <4>3. CASE p \in A
        BY <3>2, <4>1, <4>2, <4>3
      <4>4. CASE p = s
        <5>1. SUFFICES v.claimed[k] <= m.kept[k]
          BY <2>2, <4>2, <4>4
        <5>2. CASE s.rows[k] = 0
          BY <2>3, <3>1, <4>2, <5>2
        <5>3. CASE \A q \in A : q.rows[k] = 0
          BY <1>3, <3>1, <3>6, <4>2, <5>3
        <5>4. CASE s.rows[k] # 0 /\ \E q \in A : q.rows[k] # 0
          <6>1. PICK q \in A : q.rows[k] # 0
            BY <5>4
          <6>2. \A r \in A \ {q} : r.rows[k] = 0
            <7>1. SUFFICES ASSUME NEW r \in A \ {q}, r.rows[k] # 0 PROVE FALSE
              OBVIOUS
            <7>2. s.rows[k] > 0 /\ q.rows[k] > 0 /\ r.rows[k] > 0
              BY <4>2, <5>4, <6>1, <7>1
            <7>3. s \in D /\ q \in D /\ r \in D /\ s # q /\ s # r /\ q # r
              BY <1>1, <2>4, <6>1, <7>1
            <7> QED
              BY <3>6, <7>2, <7>3 DEF AtMostTwo
          <6>3. v.claimed[k] <= q.rows[k]
            BY <1>3, <3>6, <6>1, <6>2
          <6> QED
            BY <4>1, <4>2, <6>1, <6>3
        <5> QED
          BY <5>2, <5>3, <5>4
      <4> QED
        BY <2>2, <3>6, <4>3, <4>4
    <3> QED
      BY <3>3, <3>5, <3>6 DEF Kept
  <2> QED
    BY <2>2, <2>4 DEF n
<1> QED
  BY <1>7, <1>8 DEF n

\* g are the statements of D accepted or refused, the best ones first.
AcceptFold(g, D, P) ==
    /\ g[{}] = NoneAccepted
    /\ \A T \in SUBSET D : g[T] \in Layer(D)
    /\ \A T \in SUBSET D : T # {} =>
         /\ Lowest(T, P) \in T
         /\ g[T] = Accept(g[T \ {Lowest(T, P)}], Lowest(T, P), P)

\* Layer one is a recursive function on the distinct statements of a folder.
LEMMA LayerOneFolds ==
    ASSUME DedupeAssumption, NEW F, Folder(Distinct(F)), NEW P
    PROVE  \E g : AcceptFold(g, Distinct(F), P) /\ g[Distinct(F)] = LayerOne(F, P)
<1> DEFINE D == Distinct(F)
           L == Layer(D)
           Low(T) == Lowest(T, P)
           Is(g) == g = [T \in SUBSET D |-> IF T = {} THEN NoneAccepted ELSE Accept(g[T \ {Low(T)}], Low(T), P)]
           g0 == CHOOSE g : Is(g)
           pick == [T \in SUBSET D |-> Low(T)]
           step == [s \in D |-> [m \in L |-> Accept(m, s, P)]]
<1>1. LayerOne(F, P) = g0[D]
  BY DEF LayerOne, MapThenFoldSet
<1>2. Folder(D) /\ IsFiniteSet(D) /\ D \subseteq Statement
  BY DEF Folder
<1> HIDE DEF D
<1>3. \A T \in SUBSET D : T # {} => Low(T) \in T
  <2>1. ASSUME NEW T \in SUBSET D PROVE Folder(T)
    BY <1>2, FS_Subset DEF Folder
  <2> QED
    BY <2>1, LowestIsElement
<1>4. Picks(pick, D)
  BY <1>3 DEF Picks
<1>5. \A s \in D, m \in L : Accept(m, s, P) \in L
  BY <1>2, AcceptKeeps
<1>6. NoneAccepted \in L
  BY DEF NoneAccepted, Layer, Nothing
<1> HIDE DEF L
<1>7. step \in [D -> [L -> L]]
  BY <1>5
<1>8. PICK h : FoldsBy(h, step, NoneAccepted, pick, D)
  <2> HIDE DEF pick, step
  <2> QED
    BY <1>2, <1>4, FoldExists
<1>9. \A T \in SUBSET D : h[T] \in L
  <2> HIDE DEF pick, step
  <2> QED
    BY <1>2, <1>4, <1>6, <1>7, <1>8, FoldStays
<1> DEFINE h0 == [T \in SUBSET D |-> h[T]]
<1>10. ASSUME NEW T \in SUBSET D
       PROVE  h0[T] = IF T = {} THEN NoneAccepted ELSE Accept(h0[T \ {Low(T)}], Low(T), P)
  <2>1. CASE T = {}
    <3>1. h[T] = NoneAccepted
      BY <1>8, <2>1 DEF FoldsBy
    <3> QED
      BY <2>1, <3>1
  <2>2. CASE T # {}
    <3>1. Low(T) \in D /\ T \ {Low(T)} \in SUBSET D
      BY <1>3, <2>2
    <3>2. pick[T] = Low(T)
      OBVIOUS
    <3>3. h[T] = step[Low(T)][h[T \ {Low(T)}]]
      <4> HIDE DEF step
      <4> QED
        BY <1>8, <2>2, <3>2 DEF FoldsBy
    <3>4. step[Low(T)][h[T \ {Low(T)}]] = Accept(h[T \ {Low(T)}], Low(T), P)
      BY <1>9, <3>1
    <3> HIDE DEF step
    <3> QED
      BY <2>2, <3>1, <3>3, <3>4
  <2> QED
    BY <2>1, <2>2
<1>11. Is(h0)
  <2>1. h0 = [T \in SUBSET D |-> h0[T]]
    OBVIOUS
  <2> HIDE DEF h0
  <2> QED
    BY <1>10, <2>1
<1>12. Is(g0)
  <2> HIDE DEF h0, Is
  <2> QED
    BY <1>11
<1>13. \A T \in SUBSET D : g0[T] = IF T = {} THEN NoneAccepted ELSE Accept(g0[T \ {Low(T)}], Low(T), P)
  <2> HIDE DEF g0
  <2>1. g0 = [T \in SUBSET D |-> IF T = {} THEN NoneAccepted ELSE Accept(g0[T \ {Low(T)}], Low(T), P)]
    BY <1>12
  <2> QED
    BY <2>1
<1> HIDE DEF g0
<1>14. \A T \in SUBSET D : g0[T] \in L
  <2> DEFINE B == {T \in SUBSET D : g0[T] \notin L}
  <2>1. SUFFICES ASSUME B # {} PROVE FALSE
    OBVIOUS
  <2>2. PICK T \in B : \A U \in SUBSET T : U # T => U \notin B
    <3>1. B \in SUBSET SUBSET D
      OBVIOUS
    <3> HIDE DEF B
    <3> QED
      BY <1>2, <2>1, <3>1, SmallestSubset
  <2>3. T \in SUBSET D /\ T # {}
    BY <1>6, <1>13, <2>2
  <2>4. Low(T) \in T /\ Low(T) \in D
    BY <1>3, <2>3
  <2>5. g0[T \ {Low(T)}] \in L
    BY <2>2, <2>3, <2>4
  <2>6. g0[T] = Accept(g0[T \ {Low(T)}], Low(T), P)
    BY <1>13, <2>3
  <2>7. g0[T] \in L
    BY <1>5, <2>4, <2>5, <2>6
  <2> QED
    BY <2>2, <2>7
<1>15. g0[{}] = NoneAccepted
  BY <1>13
<1>16. AcceptFold(g0, D, P)
  BY <1>3, <1>13, <1>14, <1>15 DEF AcceptFold, L
<1> QED
  BY <1>1, <1>16 DEF D

\* What layer one keeps.
LEMMA LayerOneKeeps ==
    ASSUME DedupeAssumption, NEW F, Folder(Distinct(F)), NEW P
    PROVE  LayerOne(F, P) \in Layer(Distinct(F)) /\ Kept(LayerOne(F, P), Distinct(F), P)
<1> DEFINE D == Distinct(F)
           Inv(T, m) == m.accepted \subseteq T /\ Kept(m, D, P)
<1>1. PICK g : AcceptFold(g, D, P) /\ g[D] = LayerOne(F, P)
  BY LayerOneFolds
<1>2. Folder(D) /\ IsFiniteSet(D) /\ D \subseteq Statement
  BY DEF Folder
<1> HIDE DEF D
<1>3. \A T \in SUBSET D : Inv(T, g[T])
  <2> DEFINE B == {T \in SUBSET D : ~Inv(T, g[T])}
  <2>1. SUFFICES ASSUME B # {} PROVE FALSE
    OBVIOUS
  <2>2. PICK T \in B : \A U \in SUBSET T : U # T => U \notin B
    <3>1. B \in SUBSET SUBSET D
      OBVIOUS
    <3> HIDE DEF B
    <3> QED
      BY <1>2, <2>1, <3>1, SmallestSubset
  <2>3. T \in SUBSET D /\ ~Inv(T, g[T])
    BY <2>2
  <2>4. T # {}
    <3>1. Inv({}, NoneAccepted)
      <4>1. ASSUME NEW k \in Key PROVE Besides({}, k) = 0
        BY SumOfNothing DEF Besides, Covering
      <4>2. \A k \in Key : Bounded(0, {}, k)
        BY <4>1 DEF Bounded
      <4>3. NoneAccepted.accepted = {} /\ \A k \in Key : NoneAccepted.kept[k] = 0
        BY DEF NoneAccepted, Nothing
      <4> QED
        BY <4>2, <4>3 DEF Kept
    <3> HIDE DEF Inv
    <3> QED
      BY <1>1, <2>3, <3>1 DEF AcceptFold
  <2> DEFINE s == Lowest(T, P)
             R == T \ {s}
             m == g[R]
  <2>5. s \in T /\ s \in D /\ m \in Layer(D) /\ g[T] = Accept(m, s, P)
    BY <1>1, <2>3, <2>4 DEF AcceptFold
  <2>6. Inv(R, m)
    <3>1. R \in SUBSET T /\ R # T /\ R \in SUBSET D
      BY <2>3, <2>5
    <3>2. R \notin B
      BY <2>2, <3>1
    <3> HIDE DEF Inv
    <3> QED
      BY <3>1, <3>2
  <2>7. s \notin m.accepted /\ m.accepted \subseteq T
    BY <2>6
  <2> HIDE DEF s, R, m, B
  <2>8. Kept(g[T], D, P)
    BY <1>2, <2>5, <2>6, <2>7, AcceptKeeps
  <2>9. g[T].accepted \subseteq T
    <3>1. g[T].accepted = m.accepted \/ g[T].accepted = m.accepted \cup {s}
      BY <2>5 DEF Accept, Layer
    <3> QED
      BY <2>5, <2>7, <3>1
  <2> QED
    BY <2>3, <2>8, <2>9
<1> QED
  BY <1>1, <1>3 DEF AcceptFold, D

-----------------------------------------------------------------------------
(* The rows of a folder *)

\* A finite set of integers has a greatest element.
LEMMA HasGreatest ==
    ASSUME NEW X, IsFiniteSet(X), X # {}, X \subseteq Int
    PROVE  \E n \in X : \A i \in X : i <= n
<1> DEFINE Top(Y, n) == n \in Y /\ \A i \in Y : i <= n
           B == {Y \in SUBSET X : Y # {} /\ ~\E n \in Y : Top(Y, n)}
<1>1. ASSUME B # {} PROVE FALSE
  <2>1. PICK Y \in B : \A Z \in SUBSET Y : Z # Y => Z \notin B
    <3>1. B \in SUBSET SUBSET X
      OBVIOUS
    <3> HIDE DEF B
    <3> QED
      BY <1>1, <3>1, SmallestSubset
  <2>2. PICK x \in Y : x \in Int
    BY <2>1
  <2>3. Y \in SUBSET X /\ ~\E n \in Y : Top(Y, n)
    BY <2>1
  <2>4. CASE Y \ {x} = {}
    <3>1. Top(Y, x)
      BY <2>2, <2>4
    <3> QED
      BY <2>3, <3>1
  <2>5. CASE Y \ {x} # {}
    <3>1. PICK y \in Y \ {x} : Top(Y \ {x}, y)
      <4>1. Y \ {x} \in SUBSET Y /\ Y \ {x} # Y
        BY <2>2
      <4> QED
        BY <2>1, <2>5, <4>1
    <3>2. y \in Int /\ \A i \in Y : i \in Int
      BY <2>3
    <3>3. Top(Y, x) \/ Top(Y, y)
      BY <2>2, <3>1, <3>2
    <3> QED
      BY <2>2, <2>3, <3>1, <3>3
  <2> QED
    BY <2>4, <2>5
<1> QED
  BY <1>1

\* The values of a function on a finite set are finitely many.
LEMMA ImageIsFinite ==
    ASSUME NEW S, IsFiniteSet(S), NEW f
    PROVE  IsFiniteSet({f[x] : x \in S})
<1> DEFINE T == {f[x] : x \in S}
           g == [x \in S |-> f[x]]
<1>1. g \in Surjection(S, T)
  BY DEF Surjection
<1> HIDE DEF T, g
<1>2. IsFiniteSet(T)
  BY <1>1, FS_Surjection
<1> QED
  BY <1>2 DEF T

\* Fewer statements have no more rows besides.
LEMMA FewerBesides ==
    ASSUME DedupeAssumption, NEW S, Folder(S), NEW T \in SUBSET S, NEW k \in Key
    PROVE  Besides(T, k) <= Besides(S, k) /\ Besides(T, k) \in Nat /\ Besides(S, k) \in Nat
<1> DEFINE F == [t \in Statement |-> t.rows[k]]
           U == S \ Covering(S, k)
           V == T \ Covering(T, k)
<1>1. U \subseteq Statement /\ IsFiniteSet(U) /\ \A t \in Statement : F[t] \in Nat
  BY FS_Subset DEF Folder, DedupeAssumption
<1>2. V \in SUBSET U /\ IsFiniteSet(V)
  <2>1. V \in SUBSET U
    BY DEF Covering
  <2> HIDE DEF U, V
  <2> QED
    BY <1>1, <2>1, FS_Subset
<1>3. Besides(T, k) = SumFunctionOnSet(F, V) /\ Besides(S, k) = SumFunctionOnSet(F, U)
  BY DEF Besides
<1> HIDE DEF F, U, V
<1> QED
  BY <1>1, <1>2, <1>3, SumOfFewer, SumIsNatural

\* The distinct statements of a folder.
LEMMA DistinctIsFolder ==
    ASSUME DedupeAssumption, NEW F \in Folders
    PROVE  Folder(F) /\ Folder(Distinct(F)) /\ Distinct(F) \subseteq F
<1>1. Folder(F)
  BY DEF DedupeAssumption, Folder
<1>2. Distinct(F) \subseteq F
  BY DEF Distinct
<1> QED
  BY <1>1, <1>2, FS_Subset DEF Folder

\* Statements of the same bytes have the same rows.
SameBytesSameRows == \A F \in Folders : \A s, t \in F : s.sha = t.sha => s.rows = t.rows

\* Whatever a statement of a folder has, a distinct one has.
LEMMA DistinctHoldsAll ==
    ASSUME DedupeAssumption, SameBytesSameRows, NEW F \in Folders, NEW s \in F, NEW k \in Key, s.rows[k] > 0
    PROVE  \E d \in Distinct(F) : d.rows = s.rows
<1> DEFINE C == {t \in F : t.sha = s.sha}
           X == {-t.path : t \in C}
<1>1. F \subseteq Statement /\ IsFiniteSet(F)
  BY DEF DedupeAssumption
<1>2. IsFiniteSet(X) /\ X # {} /\ X \subseteq Int
  <2>1. IsFiniteSet(C)
    BY <1>1, FS_Subset
  <2>2. IsFiniteSet(X)
    <3> DEFINE f == [t \in C |-> -t.path]
    <3>1. X = {f[t] : t \in C}
      OBVIOUS
    <3> HIDE DEF C, f, X
    <3> QED
      BY <2>1, <3>1, ImageIsFinite
  <2>3. X # {}
    OBVIOUS
  <2>4. X \subseteq Int
    BY <1>1 DEF DedupeAssumption
  <2> QED
    BY <2>2, <2>3, <2>4
<1>3. PICK n \in X : \A i \in X : i <= n
  <2> HIDE DEF X
  <2> QED
    BY <1>2, HasGreatest
<1>4. PICK d \in C : n = -d.path
  BY <1>3
<1>5. \A t \in C : d.path <= t.path
  <2>1. ASSUME NEW t \in C PROVE d.path <= t.path
    <3>1. -t.path <= -d.path
      BY <1>3, <1>4
    <3>2. t.path \in Int /\ d.path \in Int
      BY <1>1 DEF DedupeAssumption
    <3> QED
      BY <3>1, <3>2
  <2> QED
    BY <2>1
<1>6. d \in F /\ d.sha = s.sha /\ d.rows = s.rows
  BY <1>4 DEF SameBytesSameRows
<1>7. Size(d) > 0
  BY <1>1, <1>6, SizeIsNumber
<1>8. d \in Distinct(F)
  BY <1>5, <1>6, <1>7 DEF Distinct
<1> QED
  BY <1>6, <1>8

\* Three statements are more than two.
LEMMA TwoHolders ==
    ASSUME NEW H, IsFiniteSet(H), Cardinality(H) <= 2, NEW x \in H, NEW y \in H, NEW z \in H
    PROVE  x = y \/ y = z \/ x = z
<1>1. SUFFICES ASSUME x # y, y # z, x # z PROVE FALSE
  OBVIOUS
<1> DEFINE A == {x}
           B == A \cup {y}
           C == B \cup {z}
<1>2. IsFiniteSet(A) /\ Cardinality(A) = 1 /\ y \notin A
  BY <1>1, FS_Singleton
<1>3. z \notin B /\ C \in SUBSET H
  BY <1>1
<1> HIDE DEF A
<1>4. IsFiniteSet(B) /\ Cardinality(B) = Cardinality(A) + 1
  BY <1>2, FS_AddElement
<1> HIDE DEF B
<1>5. IsFiniteSet(C) /\ Cardinality(C) = Cardinality(B) + 1
  BY <1>3, <1>4, FS_AddElement
<1> HIDE DEF C
<1>6. Cardinality(C) <= Cardinality(H) /\ Cardinality(H) \in Nat
  BY <1>3, FS_Subset, FS_CardinalityType
<1> QED
  BY <1>2, <1>4, <1>5, <1>6

\* No row counts more often than in one statement of the folder that covers its day and in
\* those that do not.
LEMMA MergedIsBounded ==
    ASSUME DedupeAssumption, NEW F \in Folders, NEW P \in Preference, NEW k \in Key
    PROVE  /\ Merged[F][P][k] \in Int
           /\ Bounded(Merged[F][P][k], F, k)
<1> DEFINE m == LayerOne(F, P)
<1>1. m \in Layer(Distinct(F)) /\ Kept(m, Distinct(F), P) /\ Distinct(F) \subseteq F
  BY DistinctIsFolder, LayerOneKeeps
<1>2. Merged[F][P][k] = IF MonthOf(DayOf[k]) \in m.blocked THEN 0 ELSE m.kept[k]
  BY DEF Merged
<1> HIDE DEF m
<1>3. m.kept[k] \in Int
  BY <1>1 DEF Layer
<1>4. Bounded(m.kept[k], m.accepted, k)
  BY <1>1 DEF Kept
<1>5. m.accepted \subseteq F
  BY <1>1 DEF Layer
<1>6. Besides(m.accepted, k) <= Besides(F, k) /\ {Besides(m.accepted, k), Besides(F, k)} \subseteq Nat
  BY <1>5, DistinctIsFolder, FewerBesides
<1>7. Covering(m.accepted, k) \subseteq Covering(F, k) /\ \A p \in Covering(F, k) : p.rows[k] \in Nat
  BY <1>5, DistinctIsFolder DEF Covering, Folder, DedupeAssumption
<1>8. Bounded(m.kept[k], F, k)
  BY <1>3, <1>4, <1>6, <1>7 DEF Bounded
<1>9. Bounded(0, F, k)
  BY <1>6 DEF Bounded
<1> QED
  BY <1>2, <1>3, <1>8, <1>9

\* No row is lost that at most two statements have, where no month is blocked and no
\* statement that has it is refused.
LEMMA MergedLosesNothing ==
    ASSUME DedupeAssumption, SameBytesSameRows, NEW F \in Folders, {} \in Preference, NEW k \in Key,
           MonthOf(DayOf[k]) \notin Blocked[F][{}], \A s \in Refused[F][{}] : ~(s.rows[k] > 0),
           Cardinality({s \in F : s.rows[k] > 0}) <= 2
    PROVE  /\ Merged[F][{}][k] \in Nat
           /\ \A s \in F : s.rows[k] <= Merged[F][{}][k]
<1> DEFINE m == LayerOne(F, {})
           D == Distinct(F)
           H == {s \in F : s.rows[k] > 0}
<1>1. m \in Layer(D) /\ Kept(m, D, {}) /\ D \subseteq F /\ IsFiniteSet(F) /\ F \subseteq Statement
  BY DistinctIsFolder, LayerOneKeeps DEF Folder
<1>2. Merged[F][{}][k] = IF MonthOf(DayOf[k]) \in m.blocked THEN 0 ELSE m.kept[k]
  BY DEF Merged
<1>3. Blocked[F][{}] = m.blocked /\ Refused[F][{}] = D \ m.accepted
  BY DEF Blocked, Refused
<1> HIDE DEF m, D
<1>4. Merged[F][{}][k] = m.kept[k]
  BY <1>2, <1>3
<1>5. m.kept[k] \in Nat
  <2>1. m.kept[k] \in Int
    BY <1>1 DEF Layer
  <2>2. m.kept[k] >= 0
    BY <1>1 DEF Kept
  <2> QED
    BY <2>1, <2>2
<1>6. AtMostTwo(D, k)
  <2>1. IsFiniteSet(H)
    BY <1>1, FS_Subset
  <2>2. ASSUME NEW x \in D, NEW y \in D, NEW z \in D, x.rows[k] > 0, y.rows[k] > 0, z.rows[k] > 0
        PROVE  x = y \/ y = z \/ x = z
    <3>1. x \in H /\ y \in H /\ z \in H
      BY <1>1, <2>2
    <3>2. Cardinality(H) <= 2
      OBVIOUS
    <3> HIDE DEF H
    <3> QED
      BY <2>1, <3>1, <3>2, TwoHolders
  <2> QED
    BY <2>2 DEF AtMostTwo
<1>7. \A d \in m.accepted : d.rows[k] <= m.kept[k]
  BY <1>1, <1>6 DEF Kept
<1>8. ASSUME NEW s \in F PROVE s.rows[k] <= m.kept[k]
  <2>1. s.rows[k] \in Nat
    BY <1>1 DEF DedupeAssumption
  <2>2. CASE s.rows[k] = 0
    BY <1>5, <2>2
  <2>3. CASE s.rows[k] > 0
    <3>1. PICK d \in D : d.rows = s.rows
      BY <2>3, DistinctHoldsAll DEF D
    <3>2. d \in m.accepted
      BY <1>3, <2>3, <3>1
    <3> QED
      BY <1>7, <3>1, <3>2
  <2> QED
    BY <2>1, <2>2, <2>3
<1> QED
  BY <1>4, <1>5, <1>8
=============================================================================
