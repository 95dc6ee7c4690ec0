-------------------------- MODULE RetentionProofs --------------------------
(***************************************************************************)
(* Theorems about Retention, for every number of submissions, files and    *)
(* receipts, any contents of the sheets that follow the schema, and every  *)
(* set of faults.                                                          *)
(***************************************************************************)
EXTENDS Retention, FiniteSetTheorems, FunctionTheorems, SequenceTheorems,
        WellFoundedInduction, TLAPS

-----------------------------------------------------------------------------
(* Plans and batches *)

\* A nonempty set of naturals has a least member.
LEMMA LeastMember ==
    ASSUME NEW T, T \subseteq Nat, T # {}
    PROVE  \E i \in T : \A k \in T : i <= k
<1>. DEFINE Below == {pair \in Nat \X Nat : pair[1] < pair[2]}
<1>1. IsWellFoundedOn(Below, Nat)
  BY NatLessThanWellFounded, Zenon DEF OpToRel
<1>2. PICK i \in T : \A k \in T : <<k, i>> \notin Below
  <2>. HIDE DEF Below
  <2>. QED
    BY <1>1, WFMin
<1>3. \A k \in T : ~(k < i)
  BY <1>2
<1>. QED
  BY <1>3

\* Positions are finitely many.
LEMMA PositionsFinite ==
    ASSUME NEW N \in Nat, NEW S \in SUBSET (1..N)
    PROVE  IsFiniteSet(S) /\ Cardinality(S) \in Nat
<1>1. IsFiniteSet(1..N)
  BY FS_Interval
<1>2. IsFiniteSet(S)
  BY <1>1, FS_Subset
<1>. QED
  BY <1>2, FS_CardinalityType

\* A set of positions can be listed last first.
LEMMA LastFirstExists ==
    ASSUME NEW N \in Nat
    PROVE  \A S \in SUBSET (1..N) : \E order \in [1..Cardinality(S) -> S] :
              \A i, k \in 1..Cardinality(S) : i < k => order[i] > order[k]
<1>. DEFINE Listable(S) == \E order \in [1..Cardinality(S) -> S] :
                \A i, k \in 1..Cardinality(S) : i < k => order[i] > order[k]
            Bad == {n \in Nat : ~ \A S \in SUBSET (1..n) : Listable(S)}
<1>1. SUFFICES ASSUME Bad # {} PROVE FALSE
  OBVIOUS
<1>2. PICK n \in Bad : \A m \in Bad : n <= m
  <2>1. Bad \subseteq Nat
    OBVIOUS
  <2>. HIDE DEF Bad
  <2>. QED
    BY <1>1, <2>1, LeastMember
<1>3. PICK S \in SUBSET (1..n) : ~Listable(S)
  BY <1>2
<1>4. IsFiniteSet(S) /\ Cardinality(S) \in Nat
  BY <1>2, PositionsFinite
<1>5. CASE n = 0
  <2>1. S = {}
    BY <1>5
  <2>2. Cardinality(S) = 0
    BY <2>1, FS_EmptySet
  <2>3. [i \in 1..Cardinality(S) |-> 0] \in [1..Cardinality(S) -> S]
    BY <2>2
  <2>4. 1..Cardinality(S) = {}
    BY <2>2
  <2>. QED
    BY <1>3, <2>3, <2>4
<1>6. CASE n # 0
  <2>. DEFINE T == S \ {n}
  <2>1. n - 1 \in Nat /\ n - 1 \notin Bad
    BY <1>2, <1>6
  <2>p. T \in SUBSET (1..(n - 1))
    <3>. SUFFICES ASSUME NEW x \in T PROVE x \in 1..(n - 1)
      OBVIOUS
    <3>1. x \in 1..n /\ x # n /\ n \in Nat
      BY <1>2
    <3>. QED
      BY <3>1
  <2>2. PICK t \in [1..Cardinality(T) -> T] :
            \A i, k \in 1..Cardinality(T) : i < k => t[i] > t[k]
    BY <2>1, <2>p
  <2>3. CASE n \notin S
    <3>1. T = S
      BY <2>3
    <3>. QED
      BY <1>3, <2>2, <3>1
  <2>4. CASE n \in S
    <3>1. Cardinality(T) = Cardinality(S) - 1 /\ Cardinality(T) \in Nat
      BY <1>4, <2>4, FS_RemoveElement, FS_CardinalityType
    <3>. DEFINE c == Cardinality(S)
                order == [i \in 1..c |-> IF i = 1 THEN n ELSE t[i - 1]]
    <3>2. order \in [1..c -> S]
      <4>1. ASSUME NEW i \in 1..c, i # 1 PROVE t[i - 1] \in S
        <5>1. i - 1 \in 1..Cardinality(T)
          BY <3>1, <4>1, <1>4
        <5>. QED
          BY <2>2, <5>1
      <4>. QED
        BY <2>4, <4>1
    <3>3. ASSUME NEW i \in 1..c, NEW k \in 1..c, i < k PROVE order[i] > order[k]
      <4>1. k # 1 /\ k - 1 \in 1..Cardinality(T)
        BY <3>1, <3>3, <1>4
      <4>2. t[k - 1] \in T /\ order[k] = t[k - 1]
        BY <2>2, <4>1
      <4>3. t[k - 1] < n
        <5>1. t[k - 1] \in 1..(n - 1) /\ n \in Nat
          BY <1>2, <2>p, <4>2
        <5>. QED
          BY <5>1
      <4>4. CASE i = 1
        BY <4>2, <4>3, <4>4
      <4>5. CASE i # 1
        <5>1. i - 1 \in 1..Cardinality(T) /\ i - 1 < k - 1 /\ order[i] = t[i - 1]
          BY <3>1, <3>3, <4>5, <1>4
        <5>. QED
          BY <2>2, <4>1, <4>2, <5>1
      <4>. QED
        BY <4>4, <4>5
    <3>. HIDE DEF order
    <3>. QED
      BY <1>3, <3>2, <3>3
  <2>. QED
    BY <2>3, <2>4
<1>. QED
  BY <1>5, <1>6

\* What the plan lists for one tab: positions of the set, last first.
LEMMA LastFirstOrder ==
    ASSUME NEW N \in Nat, NEW S \in SUBSET (1..N)
    PROVE  /\ LastFirst(S) \in Seq(S) /\ LastFirst(S) \in Seq(Nat)
           /\ \A i, k \in 1..Len(LastFirst(S)) :
                 i < k => LastFirst(S)[i] > LastFirst(S)[k]
<1>1. \E order \in [1..Cardinality(S) -> S] :
         \A i, k \in 1..Cardinality(S) : i < k => order[i] > order[k]
  BY LastFirstExists
<1>2. /\ LastFirst(S) \in [1..Cardinality(S) -> S]
      /\ \A i, k \in 1..Cardinality(S) : i < k => LastFirst(S)[i] > LastFirst(S)[k]
  BY <1>1, Zenon DEF LastFirst
<1>3. Cardinality(S) \in Nat
  BY PositionsFinite
<1>. DEFINE q == LastFirst(S)
<1>. HIDE DEF q
<1>4. q \in Seq(S)
  BY <1>2, <1>3 DEF q
<1>5. Len(q) = Cardinality(S)
  <2>1. q \in [1..Cardinality(S) -> S]
    BY <1>2 DEF q
  <2>. QED
    BY <1>3, <1>4, <2>1
<1>6. q \in Seq(Nat)
  <2>1. ASSUME NEW i \in 1..Len(q) PROVE q[i] \in Nat
    <3>1. q[i] \in S
      BY <1>4, ElementOfSeq
    <3>2. q[i] \in 1..N
      BY <3>1
    <3>. QED
      BY <3>2
  <2>. QED
    BY <1>4, <2>1
<1>. QED
  BY <1>2, <1>4, <1>5, <1>6 DEF q

\* The rows of one tab.
RowType(tab) ==
    IF tab \in IntakeTabs THEN IntakeRows
    ELSE IF tab = "derived" THEN [sub : Subs]
    ELSE IF tab = "ops" THEN OpsRows ELSE EventRows

LEMMA SheetsByTab ==
    ASSUME NEW c
    PROVE  c \in Sheets <=> c = [tab \in Tabs |-> c[tab]]
                            /\ \A tab \in Tabs : c[tab] \in Seq(RowType(tab))
<1>1. ASSUME c \in Sheets PROVE c = [tab \in Tabs |-> c[tab]]
  BY <1>1 DEF Sheets, Tabs, IntakeTabs
<1>2. ASSUME c \in Sheets, NEW tab \in Tabs PROVE c[tab] \in Seq(RowType(tab))
  BY <1>2 DEF Sheets, Tabs, IntakeTabs, RowType
<1>3. ASSUME c = [tab \in Tabs |-> c[tab]],
             \A tab \in Tabs : c[tab] \in Seq(RowType(tab))
      PROVE  c \in Sheets
  <2>1. /\ c["submissions"] \in Seq(IntakeRows) /\ c["parser_jobs"] \in Seq(IntakeRows)
        /\ c["derived"] \in Seq([sub : Subs]) /\ c["ops"] \in Seq(OpsRows)
        /\ c["ops_events"] \in Seq(EventRows)
    BY <1>3 DEF Tabs, IntakeTabs, RowType
  <2>. QED
    BY <1>3, <2>1 DEF Sheets, Tabs, IntakeTabs
<1>. QED
  BY <1>1, <1>2, <1>3

\* Removing a row moves the rows below it up.
LEMMA RemoveAtRows ==
    ASSUME NEW S, NEW rows \in Seq(S), NEW i \in 1..Len(rows)
    PROVE  /\ RemoveAt(rows, i) \in Seq(S)
           /\ Len(RemoveAt(rows, i)) = Len(rows) - 1
           /\ \A k \in 1..(Len(rows) - 1) :
                 RemoveAt(rows, i)[k] = rows[IF k < i THEN k ELSE k + 1]
<1>. DEFINE above == SubSeq(rows, 1, i - 1)
            below == SubSeq(rows, i + 1, Len(rows))
            N == Len(rows)
<1>1. N \in Nat /\ i \in Nat /\ \A k \in 1..N : rows[k] \in S
  BY LenProperties, ElementOfSeq
<1>2. /\ above \in Seq(S) /\ Len(above) = i - 1
      /\ \A k \in 1..(i - 1) : above[k] = rows[k]
  BY <1>1, SubSeqProperties
<1>3. /\ below \in Seq(S) /\ Len(below) = N - i
      /\ \A k \in 1..(N - i) : below[k] = rows[k + i]
  BY <1>1, SubSeqProperties
<1>4. RemoveAt(rows, i) = above \o below
  BY DEF RemoveAt
<1>. HIDE DEF above, below, N
<1>c. /\ above \o below \in Seq(S)
      /\ Len(above \o below) = Len(above) + Len(below)
      /\ \A k \in 1..(Len(above) + Len(below)) : (above \o below)[k] =
            IF k <= Len(above) THEN above[k] ELSE below[k - Len(above)]
  BY <1>2, <1>3, ConcatProperties
<1>5. /\ above \o below \in Seq(S)
      /\ Len(above \o below) = (i - 1) + (N - i)
      /\ \A k \in 1..((i - 1) + (N - i)) : (above \o below)[k] =
            IF k <= i - 1 THEN above[k] ELSE below[k - (i - 1)]
  BY <1>2, <1>3, <1>c
<1>6. ASSUME NEW k \in 1..(N - 1)
      PROVE  (above \o below)[k] = rows[IF k < i THEN k ELSE k + 1]
  <2>1. k \in 1..((i - 1) + (N - i))
    BY <1>1
  <2>2. CASE k < i
    BY <1>1, <1>2, <1>5, <2>1, <2>2
  <2>3. CASE ~(k < i)
    <3>1. k - (i - 1) \in 1..(N - i) /\ (k - (i - 1)) + i = k + 1
      BY <1>1, <2>3 DEF N
    <3>2. (above \o below)[k] = below[k - (i - 1)]
      BY <1>1, <1>5, <2>1, <2>3
    <3>. QED
      BY <1>3, <2>3, <3>1, <3>2
  <2>. QED
    BY <2>2, <2>3
<1>. QED
  BY <1>1, <1>4, <1>5, <1>6 DEF N

LEMMA MinimisedType ==
    ASSUME NEW row \in EventRows
    PROVE  Minimised(row) \in EventRows /\ Minimised(row).sub = NoSub
  BY DEF Minimised, EventRows

\* A request leaves rows of the same kind.
LEMMA RequestType ==
    ASSUME NEW tab \in Tabs, NEW rows \in Seq(RowType(tab)), NEW i \in Nat
    PROVE  Requested(tab, rows, i) \in Seq(RowType(tab))
<1>1. CASE tab = "ops_events" /\ i \in DOMAIN rows
  <2>1. i \in 1..Len(rows) /\ RowType(tab) = EventRows
    BY <1>1 DEF RowType, IntakeTabs
  <2>2. Minimised(rows[i]) \in EventRows
    BY <2>1, MinimisedType, ElementOfSeq
  <2>3. Requested(tab, rows, i) = [rows EXCEPT ![i] = Minimised(rows[i])]
    BY <1>1 DEF Requested
  <2>. QED
    BY <2>1, <2>2, <2>3, ExceptSeq
<1>2. CASE i \notin DOMAIN rows
  <2>1. Requested(tab, rows, i) = rows
    BY <1>2 DEF Requested
  <2>. QED
    BY <2>1
<1>3. CASE tab # "ops_events" /\ i \in DOMAIN rows
  <2>1. i \in 1..Len(rows) /\ Requested(tab, rows, i) = RemoveAt(rows, i)
    BY <1>3 DEF Requested
  <2>. QED
    BY <2>1, RemoveAtRows
<1>. QED
  BY <1>1, <1>2, <1>3

\* Every row is one of the old rows, or what minimising made of one.
Descends(tab, old, new) == \A k \in DOMAIN new : \E i \in DOMAIN old :
    new[k] = old[i] \/ (tab = "ops_events" /\ new[k] = Minimised(old[i]))

LEMMA RequestDescends ==
    ASSUME NEW tab \in Tabs, NEW rows \in Seq(RowType(tab)), NEW i \in Nat
    PROVE  Descends(tab, rows, Requested(tab, rows, i))
<1>1. CASE tab = "ops_events"
  BY <1>1 DEF Requested, Descends
<1>2. CASE tab # "ops_events" /\ i \notin DOMAIN rows
  BY <1>2 DEF Requested, Descends
<1>3. CASE tab # "ops_events" /\ i \in DOMAIN rows
  <2>1. i \in 1..Len(rows) /\ Requested(tab, rows, i) = RemoveAt(rows, i)
    BY <1>3 DEF Requested
  <2>2. /\ Len(rows) \in Nat /\ DOMAIN rows = 1..Len(rows)
        /\ DOMAIN RemoveAt(rows, i) = 1..(Len(rows) - 1)
        /\ \A k \in 1..(Len(rows) - 1) :
              RemoveAt(rows, i)[k] = rows[IF k < i THEN k ELSE k + 1]
    BY <2>1, RemoveAtRows
  <2>. QED
    BY <2>1, <2>2 DEF Descends
<1>. QED
  BY <1>1, <1>2, <1>3

LEMMA DescendsTransitive ==
    ASSUME NEW tab, NEW a, NEW b, NEW c, Descends(tab, a, b), Descends(tab, b, c),
           tab = "ops_events" => \A i \in DOMAIN a : a[i] \in EventRows
    PROVE  Descends(tab, a, c)
<1>. DEFINE From(x, row) == x = row \/ (tab = "ops_events" /\ x = Minimised(row))
<1>. SUFFICES ASSUME NEW k \in DOMAIN c
              PROVE  \E i \in DOMAIN a : From(c[k], a[i])
  BY DEF Descends
<1>1. PICK m \in DOMAIN b : From(c[k], b[m])
  BY DEF Descends
<1>2. PICK i \in DOMAIN a : From(b[m], a[i])
  BY DEF Descends
<1>3. a[i] \in EventRows => Minimised(Minimised(a[i])) = Minimised(a[i])
  BY DEF Minimised, EventRows
<1>. QED
  BY <1>1, <1>2, <1>3

\* A request to a row of the selected submissions spares all others.
LEMMA RequestSpares ==
    ASSUME NoSub \notin Subs, NEW tab \in Tabs, NEW rows \in Seq(RowType(tab)),
           NEW ids, NEW i \in 1..Len(rows), rows[i].sub \in ids
    PROVE  SparedInOrder(rows, Requested(tab, rows, i), ids)
<1>. DEFINE new == Requested(tab, rows, i)
            Old == Spared(rows, ids)
            New == Spared(new, ids)
<1>0. Len(rows) \in Nat /\ DOMAIN rows = 1..Len(rows) /\ i \in Nat
  BY LenProperties
<1>1. CASE tab = "ops_events"
  <2>1. RowType(tab) = EventRows
    BY <1>1 DEF RowType, IntakeTabs
  <2>2. Minimised(rows[i]).sub = NoSub
    BY <2>1, ElementOfSeq, MinimisedType
  <2>3. /\ DOMAIN new = DOMAIN rows /\ new[i].sub = NoSub
        /\ \A k \in DOMAIN rows : k # i => new[k] = rows[k]
    BY <1>0, <1>1, <2>2 DEF Requested
  <2>. HIDE DEF new
  <2>4. New = Old /\ \A k \in New : new[k] = rows[k]
    BY <2>3 DEF Spared
  <2>. DEFINE was == [k \in New |-> k]
  <2>5. was \in Bijection(New, Old)
    <3>1. was \in [New -> Old]
      BY <2>4
    <3>. QED
      BY <2>4, <3>1, Fun_IsBij
  <2>6. \A k \in New : was[k] = k
    OBVIOUS
  <2>. HIDE DEF was
  <2>. QED
    BY <2>4, <2>5, <2>6 DEF SparedInOrder, new
<1>2. CASE tab # "ops_events"
  <2>. DEFINE N == Len(rows)
              was == [k \in New |-> IF k < i THEN k ELSE k + 1]
  <2>1. new = RemoveAt(rows, i)
    BY <1>0, <1>2 DEF Requested
  <2>2. /\ DOMAIN new = 1..(N - 1)
        /\ \A k \in 1..(N - 1) : new[k] = rows[IF k < i THEN k ELSE k + 1]
    <3>1. /\ RemoveAt(rows, i) \in Seq(RowType(tab)) /\ Len(RemoveAt(rows, i)) = N - 1
          /\ \A k \in 1..(N - 1) :
                RemoveAt(rows, i)[k] = rows[IF k < i THEN k ELSE k + 1]
      BY RemoveAtRows
    <3>. HIDE DEF new
    <3>. QED
      BY <2>1, <3>1, LenProperties
  <2>. HIDE DEF new
  <2>3. New \subseteq 1..(N - 1) /\ Old \subseteq (1..N) \ {i}
    BY <1>0, <2>2 DEF Spared
  <2>4. ASSUME NEW k \in New PROVE was[k] \in Old /\ new[k] = rows[was[k]]
    <3>1. k \in 1..(N - 1) /\ was[k] = IF k < i THEN k ELSE k + 1
      BY <2>3
    <3>2. was[k] \in 1..N
      BY <1>0, <3>1
    <3>3. new[k] = rows[was[k]] /\ new[k].sub \in Subs \ ids
      BY <2>2, <3>1 DEF Spared
    <3>. QED
      BY <1>0, <3>2, <3>3 DEF Spared
  <2>5. ASSUME NEW k \in New, NEW m \in New PROVE was[k] = was[m] => k = m
    BY <1>0, <2>3
  <2>6. ASSUME NEW m \in Old PROVE \E k \in New : was[k] = m
    <3>. DEFINE k == IF m < i THEN m ELSE m - 1
    <3>1. m \in 1..N /\ m # i /\ rows[m].sub \in Subs \ ids
      BY <1>0, <2>3 DEF Spared
    <3>2. k \in 1..(N - 1) /\ m = IF k < i THEN k ELSE k + 1
      BY <1>0, <3>1
    <3>3. new[k] = rows[m]
      BY <2>2, <3>2
    <3>4. k \in New
      BY <2>2, <3>1, <3>2, <3>3 DEF Spared
    <3>. QED
      BY <3>2, <3>4
  <2>7. was \in [New -> Old]
    BY <2>4
  <2>8. was \in Bijection(New, Old)
    <3>. HIDE DEF was, New, Old
    <3>. QED
      BY <2>5, <2>6, <2>7, Fun_IsBij
  <2>9. ASSUME NEW k \in New, NEW m \in New, k < m PROVE was[k] < was[m]
    BY <1>0, <2>3, <2>9
  <2>. HIDE DEF was
  <2>. QED
    BY <2>4, <2>8, <2>9 DEF SparedInOrder, new
<1>. QED
  BY <1>1, <1>2

LEMMA SparedSame ==
    ASSUME NEW rows, NEW ids PROVE SparedInOrder(rows, rows, ids)
<1>. DEFINE S == Spared(rows, ids)
            was == [k \in S |-> k]
<1>1. was \in [S -> S] /\ \A k \in S : was[k] = k
  OBVIOUS
<1>. HIDE DEF was
<1>2. was \in Bijection(S, S)
  BY <1>1, Fun_IsBij
<1>. QED
  BY <1>1, <1>2 DEF SparedInOrder

LEMMA SparedTransitive ==
    ASSUME NEW a, NEW b, NEW c, NEW ids,
           SparedInOrder(a, b, ids), SparedInOrder(b, c, ids)
    PROVE  SparedInOrder(a, c, ids)
<1>. DEFINE A == Spared(a, ids)
            B == Spared(b, ids)
            C == Spared(c, ids)
<1>. HIDE DEF A, B, C
<1>1. PICK f \in Bijection(B, A) : \A i \in B :
         b[i] = a[f[i]] /\ \A k \in B : i < k => f[i] < f[k]
  BY DEF SparedInOrder, A, B
<1>2. PICK g \in Bijection(C, B) : \A i \in C :
         c[i] = b[g[i]] /\ \A k \in C : i < k => g[i] < g[k]
  BY DEF SparedInOrder, B, C
<1>. DEFINE h == [i \in C |-> f[g[i]]]
<1>3. h \in Bijection(C, A)
  BY Fun_BijTransitive
<1>4. \A i \in C : g[i] \in B /\ h[i] = f[g[i]]
  <2>1. g \in [C -> B]
    BY Fun_BijectionProperties
  <2>. QED
    BY <2>1
<1>. HIDE DEF h
<1>5. \A i \in C : c[i] = a[h[i]] /\ \A k \in C : i < k => h[i] < h[k]
  BY <1>1, <1>2, <1>4
<1>. QED
  BY <1>3, <1>5 DEF SparedInOrder, A, C

\* The grids between the requests of a batch.
GridsOf(tab, rows, requests, grids) ==
    /\ grids[0] = rows
    /\ \A n \in 1..Len(requests) :
          grids[n] = Requested(tab, grids[n - 1], requests[n])

\* The recursion of AppliedTo has a solution: they can be made one by one.
LEMMA BatchHasGrids ==
    ASSUME NEW tab, NEW rows, NEW requests \in Seq(Nat)
    PROVE  \E grids : /\ GridsOf(tab, rows, requests, grids)
                      /\ AppliedTo(tab, rows, requests) = grids[Len(requests)]
<1>. DEFINE N == Len(requests)
            step(g, n) == IF n = 0 THEN rows ELSE Requested(tab, g[n - 1], requests[n])
            Upto(g, m) == g = [n \in 0..m |-> step(g, n)]
            Bad == {m \in Nat : ~ \E g : Upto(g, m)}
            after == CHOOSE g : Upto(g, N)
<1>0. N \in Nat
  OBVIOUS
<1>1. ASSUME NEW m \in Bad, \A k \in Bad : m <= k PROVE FALSE
  <2>0. m \in Nat /\ ~ \E g : Upto(g, m)
    OBVIOUS
  <2>. HIDE DEF Bad
  <2>1. CASE m = 0
    <3>. DEFINE g == [n \in 0..0 |-> rows]
    <3>1. \A n \in 0..0 : step(g, n) = rows
      OBVIOUS
    <3>2. Upto(g, 0)
      <4>. HIDE DEF step
      <4>. QED
        BY <3>1
    <3>. HIDE DEF g, Upto
    <3>. QED
      BY <2>0, <2>1, <3>2
  <2>2. CASE m # 0
    <3>1. m - 1 \in Nat /\ m - 1 \notin Bad
      BY <1>1, <2>0, <2>2
    <3>2. PICK g : Upto(g, m - 1)
      BY <3>1 DEF Bad
    <3>. DEFINE h == [n \in 0..m |-> IF n = m THEN Requested(tab, g[m - 1], requests[m])
                                              ELSE g[n]]
    <3>3. ASSUME NEW n \in 0..m PROVE h[n] = step(h, n)
      <4>1. CASE n = m
        <5>1. m - 1 \in 0..m /\ m - 1 # m
          BY <2>0, <2>2
        <5>2. h[m - 1] = g[m - 1]
          BY <5>1
        <5>. QED
          BY <2>2, <4>1, <5>2
      <4>2. CASE n # m /\ n = 0
        <5>1. 0 \in 0..(m - 1)
          BY <3>1
        <5>2. g[0] = rows
          BY <3>2, <5>1
        <5>. QED
          BY <4>2, <5>2
      <4>3. CASE n # m /\ n # 0
        <5>1. n \in 0..(m - 1) /\ n - 1 \in 0..m /\ n - 1 # m
          BY <2>0, <4>3
        <5>2. g[n] = Requested(tab, g[n - 1], requests[n])
          BY <3>2, <4>3, <5>1
        <5>3. h[n] = g[n] /\ h[n - 1] = g[n - 1]
          BY <4>3, <5>1
        <5>. QED
          BY <4>3, <5>2, <5>3
      <4>. QED
        BY <4>1, <4>2, <4>3
    <3>4. h = [n \in 0..m |-> h[n]]
      OBVIOUS
    <3>5. Upto(h, m)
      <4>. HIDE DEF h, step
      <4>. QED
        BY <3>3, <3>4
    <3>. HIDE DEF h, Upto
    <3>. QED
      BY <2>0, <3>5
  <2>. QED
    BY <2>1, <2>2
<1>2. Bad = {}
  <2>1. Bad \subseteq Nat
    OBVIOUS
  <2>. HIDE DEF Bad
  <2>. QED
    BY <1>1, <2>1, LeastMember
<1>3. \E g : Upto(g, N)
  BY <1>0, <1>2
<1>4. Upto(after, N)
  <2>. HIDE DEF Upto, N
  <2>. QED
    BY <1>3
<1>5. AppliedTo(tab, rows, requests) = after[N]
  BY Zenon DEF AppliedTo
<1>6. \A n \in 0..N : after[n] = step(after, n)
  <2>. HIDE DEF after, step, N
  <2>. QED
    BY <1>4
<1>7. GridsOf(tab, rows, requests, after)
  <2>. HIDE DEF after
  <2>1. after[0] = rows
    BY <1>0, <1>6
  <2>2. ASSUME NEW n \in 1..N PROVE after[n] = Requested(tab, after[n - 1], requests[n])
    BY <1>0, <1>6
  <2>. QED
    BY <2>1, <2>2 DEF GridsOf
<1>. HIDE DEF after
<1>. QED
  BY <1>5, <1>7

\* A plan for the rows of some submissions in one tab.
PlannedFor(rows, requests, ids) ==
    /\ requests \in Seq(Nat)
    /\ \A n \in 1..Len(requests) :
          requests[n] \in 1..Len(rows) /\ rows[requests[n]].sub \in ids
    /\ \A n, m \in 1..Len(requests) : n < m => requests[n] > requests[m]

\* Whatever is asked for, a batch leaves rows of the same kind and adds none.
LEMMA BatchDescends ==
    ASSUME NEW tab \in Tabs, NEW rows \in Seq(RowType(tab)), NEW requests \in Seq(Nat)
    PROVE  /\ AppliedTo(tab, rows, requests) \in Seq(RowType(tab))
           /\ Descends(tab, rows, AppliedTo(tab, rows, requests))
<1>1. PICK grids : /\ GridsOf(tab, rows, requests, grids)
                   /\ AppliedTo(tab, rows, requests) = grids[Len(requests)]
  BY BatchHasGrids
<1>. DEFINE N == Len(requests)
            Good(n) == grids[n] \in Seq(RowType(tab)) /\ Descends(tab, rows, grids[n])
            Bad == {n \in 0..N : ~Good(n)}
<1>2. N \in Nat
  OBVIOUS
<1>3. ASSUME NEW n \in Bad, \A k \in Bad : n <= k PROVE FALSE
  <2>0. n \in 0..N /\ ~Good(n)
    OBVIOUS
  <2>1. CASE n = 0
    <3>1. grids[0] = rows
      BY <1>1 DEF GridsOf
    <3>. QED
      BY <2>0, <2>1, <3>1 DEF Descends
  <2>2. CASE n # 0
    <3>1. n - 1 \in 0..N /\ n \in 1..N
      BY <1>2, <2>0, <2>2
    <3>2. Good(n - 1)
      BY <1>3, <2>0, <3>1
    <3>3. requests[n] \in Nat /\ grids[n] = Requested(tab, grids[n - 1], requests[n])
      BY <1>1, <3>1, ElementOfSeq DEF GridsOf
    <3>4. grids[n] \in Seq(RowType(tab)) /\ Descends(tab, grids[n - 1], grids[n])
      BY <3>2, <3>3, RequestType, RequestDescends
    <3>5. tab = "ops_events" => \A i \in DOMAIN rows : rows[i] \in EventRows
      BY ElementOfSeq DEF RowType, IntakeTabs
    <3>. QED
      BY <2>0, <3>2, <3>4, <3>5, DescendsTransitive
  <2>. QED
    BY <2>1, <2>2
<1>4. Bad = {}
  <2>1. Bad \subseteq Nat
    OBVIOUS
  <2>. HIDE DEF Bad
  <2>. QED
    BY <1>3, <2>1, LeastMember
<1>5. Good(N)
  BY <1>2, <1>4
<1>. QED
  BY <1>1, <1>5

\* A request leaves the rows above its own as they are.
LEMMA RequestAbove ==
    ASSUME NEW tab \in Tabs, NEW rows \in Seq(RowType(tab)), NEW i \in 1..Len(rows),
           NEW k \in 1..(i - 1)
    PROVE  /\ k \in DOMAIN Requested(tab, rows, i)
           /\ Requested(tab, rows, i)[k] = rows[k]
<1>1. Len(rows) \in Nat /\ DOMAIN rows = 1..Len(rows)
  BY LenProperties
<1>2. k \in 1..(Len(rows) - 1) /\ k < i /\ k \in DOMAIN rows
  BY <1>1
<1>3. CASE tab = "ops_events"
  BY <1>1, <1>2, <1>3 DEF Requested
<1>4. CASE tab # "ops_events"
  <2>1. Requested(tab, rows, i) = RemoveAt(rows, i)
    BY <1>1, <1>4 DEF Requested
  <2>2. /\ RemoveAt(rows, i) \in Seq(RowType(tab))
        /\ Len(RemoveAt(rows, i)) = Len(rows) - 1
        /\ RemoveAt(rows, i)[k] = rows[k]
    BY <1>2, RemoveAtRows
  <2>. QED
    BY <1>2, <2>1, <2>2, LenProperties
<1>. QED
  BY <1>3, <1>4

\* Last row first, every request finds the row it was meant for; so the batch
\* spares the rows of all other submissions.
LEMMA BatchSpares ==
    ASSUME NoSub \notin Subs, NEW tab \in Tabs, NEW rows \in Seq(RowType(tab)),
           NEW requests, NEW ids, PlannedFor(rows, requests, ids)
    PROVE  SparedInOrder(rows, AppliedTo(tab, rows, requests), ids)
<1>0. requests \in Seq(Nat)
  BY DEF PlannedFor
<1>1. PICK grids : /\ GridsOf(tab, rows, requests, grids)
                   /\ AppliedTo(tab, rows, requests) = grids[Len(requests)]
  BY <1>0, BatchHasGrids
<1>. DEFINE N == Len(requests)
            Above(n, i) == \A m \in 1..n : i < requests[m]
            Good(n) == /\ grids[n] \in Seq(RowType(tab))
                       /\ SparedInOrder(rows, grids[n], ids)
                       /\ \A i \in 1..Len(rows) : Above(n, i) =>
                             i \in DOMAIN grids[n] /\ grids[n][i] = rows[i]
            Bad == {n \in 0..N : ~Good(n)}
<1>2. N \in Nat
  BY <1>0
<1>3. ASSUME NEW n \in Bad, \A k \in Bad : n <= k PROVE FALSE
  <2>0. n \in 0..N /\ ~Good(n)
    OBVIOUS
  <2>1. CASE n = 0
    <3>1. grids[0] = rows
      BY <1>1 DEF GridsOf
    <3>2. DOMAIN rows = 1..Len(rows)
      BY LenProperties
    <3>3. SparedInOrder(rows, rows, ids)
      BY SparedSame
    <3>. QED
      BY <2>0, <2>1, <3>1, <3>2, <3>3
  <2>2. CASE n # 0
    <3>. DEFINE p == n - 1
                r == requests[n]
    <3>1. p \in 0..N /\ n \in 1..N /\ p < n
      BY <1>2, <2>0, <2>2
    <3>2. Good(p)
      BY <1>3, <2>0, <3>1
    <3>3. r \in 1..Len(rows) /\ rows[r].sub \in ids /\ r \in Nat
      BY <3>1 DEF PlannedFor
    <3>4. Above(p, r)
      <4>1. ASSUME NEW m \in 1..p PROVE r < requests[m]
        <5>1. m \in 1..N /\ m < n
          BY <1>2, <3>1
        <5>2. requests[m] > requests[n] /\ requests[m] \in 1..Len(rows)
          BY <3>1, <5>1 DEF PlannedFor
        <5>. QED
          BY <3>3, <5>2
      <4>. QED
        BY <4>1
    <3>5. r \in DOMAIN grids[p] /\ grids[p][r] = rows[r]
      BY <3>2, <3>3, <3>4
    <3>6. r \in 1..Len(grids[p])
      BY <3>2, <3>5, LenProperties
    <3>7. grids[n] = Requested(tab, grids[p], r)
      BY <1>1, <3>1 DEF GridsOf
    <3>. HIDE DEF p, r
    <3>8. grids[n] \in Seq(RowType(tab))
      BY <3>2, <3>3, <3>7, RequestType
    <3>9. SparedInOrder(grids[p], grids[n], ids)
      BY <3>2, <3>3, <3>5, <3>6, <3>7, RequestSpares
    <3>10. SparedInOrder(rows, grids[n], ids)
      BY <3>2, <3>9, SparedTransitive
    <3>11. ASSUME NEW i \in 1..Len(rows), Above(n, i)
           PROVE  i \in DOMAIN grids[n] /\ grids[n][i] = rows[i]
      <4>1. Above(p, i) /\ i < r
        BY <1>2, <3>1, <3>11 DEF p, r
      <4>2. i \in 1..(r - 1)
        BY <3>3, <4>1
      <4>3. grids[p][i] = rows[i]
        BY <3>2, <4>1
      <4>. QED
        BY <3>2, <3>6, <3>7, <4>2, <4>3, RequestAbove
    <3>. QED
      BY <2>0, <3>8, <3>10, <3>11
  <2>. QED
    BY <2>1, <2>2
<1>4. Bad = {}
  <2>1. Bad \subseteq Nat
    OBVIOUS
  <2>. HIDE DEF Bad
  <2>. QED
    BY <1>3, <2>1, LeastMember
<1>5. Good(N)
  BY <1>2, <1>4
<1>. QED
  BY <1>1, <1>5

\* A batch keeps one row per event, minimised or not.
LEMMA BatchEvents ==
    ASSUME NEW rows \in Seq(EventRows), NEW requests \in Seq(Nat)
    PROVE  LET new == AppliedTo("ops_events", rows, requests)
           IN  /\ Len(new) = Len(rows)
               /\ \A i \in DOMAIN rows : new[i] = rows[i] \/ new[i] = Minimised(rows[i])
<1>. DEFINE tab == "ops_events"
<1>1. PICK grids : /\ GridsOf(tab, rows, requests, grids)
                   /\ AppliedTo(tab, rows, requests) = grids[Len(requests)]
  BY BatchHasGrids
<1>. DEFINE N == Len(requests)
            Good(n) == /\ grids[n] \in Seq(EventRows) /\ Len(grids[n]) = Len(rows)
                       /\ \A i \in 1..Len(rows) : \/ grids[n][i] = rows[i]
                                                  \/ grids[n][i] = Minimised(rows[i])
            Bad == {n \in 0..N : ~Good(n)}
<1>2. N \in Nat
  OBVIOUS
<1>3. ASSUME NEW n \in Bad, \A k \in Bad : n <= k PROVE FALSE
  <2>0. n \in 0..N /\ ~Good(n)
    OBVIOUS
  <2>1. CASE n = 0
    <3>1. grids[0] = rows
      BY <1>1 DEF GridsOf
    <3>. QED
      BY <2>0, <2>1, <3>1
  <2>2. CASE n # 0
    <3>. DEFINE p == n - 1
                r == requests[n]
    <3>1. p \in 0..N /\ n \in 1..N /\ p < n /\ r \in Nat
      BY <1>2, <2>0, <2>2, ElementOfSeq
    <3>2. Good(p)
      <4>1. p \notin Bad
        <5>. HIDE DEF Good
        <5>. QED
          BY <1>3, <2>0, <3>1
      <4>. HIDE DEF Good
      <4>. QED
        BY <3>1, <4>1
    <3>3. grids[n] = [grids[p] EXCEPT ![r] = Minimised(grids[p][r])]
      BY <1>1, <3>1 DEF GridsOf, Requested
    <3>. HIDE DEF p, r
    <3>4. CASE r \notin 1..Len(rows)
      <4>1. grids[n] = grids[p]
        BY <3>2, <3>3, <3>4
      <4>. QED
        BY <2>0, <3>2, <4>1
    <3>5. CASE r \in 1..Len(rows)
      <4>. DEFINE row == Minimised(grids[p][r])
      <4>1. grids[p][r] \in EventRows /\ row \in EventRows
        BY <3>2, <3>5, MinimisedType, ElementOfSeq
      <4>2. rows[r] \in EventRows
        BY <3>5, ElementOfSeq
      <4>3. Minimised(Minimised(rows[r])) = Minimised(rows[r])
        BY <4>2 DEF Minimised, EventRows
      <4>4. row = Minimised(rows[r])
        BY <3>2, <3>5, <4>3
      <4>. HIDE DEF row
      <4>5. /\ grids[n] \in Seq(EventRows) /\ Len(grids[n]) = Len(grids[p])
            /\ \A j \in 1..Len(grids[p]) :
                  grids[n][j] = IF j = r THEN row ELSE grids[p][j]
        <5>1. grids[n] = [grids[p] EXCEPT ![r] = row]
          BY <3>3 DEF row
        <5>2. r \in 1..Len(grids[p]) /\ row \in EventRows
          BY <3>2, <3>5, <4>1
        <5>. QED
          BY <3>2, <5>1, <5>2, ExceptSeq
      <4>. QED
        BY <2>0, <3>2, <4>4, <4>5
    <3>. QED
      BY <3>4, <3>5
  <2>. QED
    BY <2>1, <2>2
<1>4. Bad = {}
  <2>1. Bad \subseteq Nat
    OBVIOUS
  <2>. HIDE DEF Bad
  <2>. QED
    BY <1>3, <2>1, LeastMember
<1>5. Good(N) /\ DOMAIN rows = 1..Len(rows)
  BY <1>2, <1>4
<1>. QED
  BY <1>1, <1>5

\* The rows of one submission.
RowsOf(rows, s) == {i \in DOMAIN rows : rows[i].sub \in {s}}

\* A spared submission has the rows it had, and as many.
LEMMA SparedStay ==
    ASSUME NEW old, NEW new, NEW ids, SparedInOrder(old, new, ids),
           NEW s \in Subs \ ids
    PROVE  /\ \A i \in RowsOf(old, s) : \E k \in RowsOf(new, s) : new[k] = old[i]
           /\ IsFiniteSet(RowsOf(old, s)) =>
                 Cardinality(RowsOf(new, s)) = Cardinality(RowsOf(old, s))
<1>. DEFINE Old == Spared(old, ids)
            New == Spared(new, ids)
            A == RowsOf(old, s)
            B == RowsOf(new, s)
<1>1. PICK was \in Bijection(New, Old) : \A i \in New :
         new[i] = old[was[i]] /\ \A k \in New : i < k => was[i] < was[k]
  BY DEF SparedInOrder
<1>2. A \subseteq Old /\ B \subseteq New
  BY DEF Spared, RowsOf
<1>3. /\ was \in [New -> Old] /\ \A i, k \in New : was[i] = was[k] => i = k
      /\ \A i \in Old : \E k \in New : was[k] = i
  BY Fun_BijectionProperties
<1>4. \A k \in New : was[k] \in A <=> k \in B
  <2>1. \A k \in New : k \in DOMAIN new /\ was[k] \in DOMAIN old
    BY <1>3 DEF Spared
  <2>. QED
    BY <1>1, <2>1 DEF RowsOf
<1>. HIDE DEF Old, New
<1>5. \A i \in A : \E k \in B : was[k] = i
  BY <1>2, <1>3, <1>4
<1>6. \A i \in A : \E k \in B : new[k] = old[i]
  BY <1>1, <1>2, <1>5
<1>. DEFINE of == [i \in B |-> was[i]]
<1>7. of \in Bijection(B, A)
  <2>1. of \in [B -> A]
    BY <1>2, <1>4
  <2>2. \A i, k \in B : of[i] = of[k] => i = k
    BY <1>2, <1>3
  <2>3. \A i \in A : \E k \in B : of[k] = i
    BY <1>5
  <2>. HIDE DEF of, A, B
  <2>. QED
    BY <2>1, <2>2, <2>3, Fun_IsBij
<1>8. ASSUME IsFiniteSet(A) PROVE Cardinality(B) = Cardinality(A)
  <2>1. ExistsBijection(A, B)
    <3>1. Inverse(of, B, A) \in Bijection(A, B)
      <4>. HIDE DEF of, A, B
      <4>. QED
        BY <1>7, Fun_BijInverse
    <3>. HIDE DEF of, A, B
    <3>. QED
      BY <3>1, Fun_ExistsBij
  <2>. HIDE DEF A, B
  <2>. QED
    BY <1>8, <2>1, FS_Bijection
<1>. QED
  BY <1>6, <1>8

-----------------------------------------------------------------------------
(* Types *)

LEMMA MatchedType ==
    ASSUME TypeOK, NEW tab \in Tabs, NEW ids
    PROVE  /\ sheets[tab] \in Seq(RowType(tab)) /\ DOMAIN sheets[tab] = 1..Len(sheets[tab])
           /\ Len(sheets[tab]) \in Nat /\ Matched(tab, ids) \in SUBSET (1..Len(sheets[tab]))
<1>1. sheets[tab] \in Seq(RowType(tab))
  BY SheetsByTab DEF TypeOK
<1>. QED
  BY <1>1, LenProperties DEF Matched

\* What a command plans for a tab is a plan for its rows.
LEMMA RequestsPlanned ==
    ASSUME TypeOK, NEW ids, NEW targets, NEW tab \in Tabs
    PROVE  PlannedFor(sheets[tab], Requests(ids, targets)[tab], ids)
<1>. DEFINE S == Matched(tab, ids)
            q == Requests(ids, targets)[tab]
            N == Len(sheets[tab])
<1>1. N \in Nat /\ S \in SUBSET (1..N) /\ \A i \in S : sheets[tab][i].sub \in ids
  BY MatchedType DEF Matched
<1>2. q = IF tab \in targets THEN LastFirst(S) ELSE <<>>
  BY DEF Requests
<1>3. CASE tab \in targets
  <2>. HIDE DEF S, q, N
  <2>1. /\ q \in Seq(S) /\ q \in Seq(Nat)
        /\ \A i, k \in 1..Len(q) : i < k => q[i] > q[k]
    BY <1>1, <1>2, <1>3, LastFirstOrder
  <2>2. \A n \in 1..Len(q) : q[n] \in S
    BY <2>1, ElementOfSeq
  <2>3. \A n \in 1..Len(q) : q[n] \in 1..N /\ sheets[tab][q[n]].sub \in ids
    BY <1>1, <2>2
  <2>. QED
    BY <2>1, <2>3 DEF PlannedFor, q, N
<1>4. CASE tab \notin targets
  <2>1. q = <<>>
    BY <1>2, <1>4
  <2>. HIDE DEF q
  <2>2. q \in Seq(Nat) /\ Len(q) = 0 /\ 1..Len(q) = {}
    BY <2>1
  <2>. QED
    BY <2>2 DEF PlannedFor, q
<1>. QED
  BY <1>3, <1>4

LEMMA AppliedType ==
    ASSUME TypeOK, run # Idle
    PROVE  /\ Applied \in Sheets
           /\ \A tab \in Tabs : /\ run.requests[tab] \in Seq(Nat)
                                /\ Applied[tab] = AppliedTo(tab, sheets[tab], run.requests[tab])
                                /\ Descends(tab, sheets[tab], Applied[tab])
<1>1. ASSUME NEW tab \in Tabs
      PROVE  run.requests[tab] \in Seq(Nat) /\ sheets[tab] \in Seq(RowType(tab))
  BY MatchedType DEF TypeOK, Running
<1>2. \A tab \in Tabs : Applied[tab] = AppliedTo(tab, sheets[tab], run.requests[tab])
  BY DEF Applied
<1>3. \A tab \in Tabs : /\ Applied[tab] \in Seq(RowType(tab))
                        /\ Descends(tab, sheets[tab], Applied[tab])
  BY <1>1, <1>2, BatchDescends
<1>4. Applied = [tab \in Tabs |-> Applied[tab]]
  BY DEF Applied
<1>5. Applied \in Sheets
  <2>. DEFINE a == Applied
  <2>1. a = [tab \in Tabs |-> a[tab]] /\ \A tab \in Tabs : a[tab] \in Seq(RowType(tab))
    BY <1>3, <1>4
  <2>. HIDE DEF a
  <2>2. a \in Sheets
    BY <2>1, SheetsByTab
  <2>. QED
    BY <2>2 DEF a
<1>. QED
  BY <1>1, <1>2, <1>3, <1>5

LEMMA InitType == Init => TypeOK
  BY RetentionAssumption DEF Init, TypeOK, ReferencedIn, Intact

\* The plan of a command and the receipt it may start are well typed.
LEMMA BeginType ==
    ASSUME TypeOK, NEW c \in Commands, Begin(c)
    PROVE  TypeOK'
<1>. DEFINE known == receipts[c.path]
            targets == Targets(c.reason)
            files == Gathered(c.ids, targets) \cap Files
            data == IF known = None THEN NewReceipt(c, files) ELSE known
            requests == Requests(c.ids, targets)
<1>1. /\ c.path \in Paths /\ c.ids \in (SUBSET Subs) \ {{}} /\ c.reason \in Reasons
      /\ c.cutoff \in Cutoffs \cup {NoCutoff} /\ c.absent \in SUBSET Files
  BY DEF Commands
<1>2. /\ UNCHANGED <<sheets, drive, receipts>>
      /\ known # Torn /\ (c.cutoff = NoCutoff <=> c.reason # "coordination_expiry")
      /\ run' = [pc |-> IF known = None THEN "create" ELSE "mark", path |-> c.path,
                 data |-> data, absent |-> c.absent, targets |-> targets,
                 requests |-> requests]
  BY DEF Begin
<1>3. targets \in SUBSET Tabs
  BY DEF Targets, Tabs, IntakeTabs
<1>4. requests \in [Tabs -> Seq(Nat)]
  <2>1. \A tab \in Tabs : requests[tab] \in Seq(Nat)
    BY RequestsPlanned DEF PlannedFor
  <2>2. requests = [tab \in Tabs |-> requests[tab]]
    BY DEF Requests
  <2>. HIDE DEF requests
  <2>. QED
    BY <2>1, <2>2
<1>5. c.reason = "coordination_expiry" => files = {}
  <2>. SUFFICES ASSUME c.reason = "coordination_expiry" PROVE Gathered(c.ids, targets) = {}
    OBVIOUS
  <2>1. IntakeTabs \cap targets = {}
    BY DEF Targets, IntakeTabs
  <2>. HIDE DEF targets
  <2>. QED
    BY <2>1 DEF Gathered
<1>6. data \in Receipts /\ Loadable(data)
  <2>1. CASE known = None
    <3>1. data = NewReceipt(c, files) /\ files \in SUBSET Files
      BY <2>1
    <3>. HIDE DEF files, data
    <3>2. /\ data \in Receipts /\ data.subs = c.ids /\ data.reason = c.reason
          /\ data.cutoff = c.cutoff /\ data.files = files /\ data.deleted = {}
      BY <1>1, <3>1 DEF NewReceipt, Receipts
    <3>. QED
      BY <1>1, <1>2, <1>5, <3>2 DEF Loadable
  <2>2. CASE known # None
    <3>1. Intact(c.path) /\ data = known
      BY <1>2, <2>2 DEF Intact
    <3>. QED
      BY <1>1, <3>1 DEF TypeOK, Intact
  <2>. QED
    BY <2>1, <2>2
<1>. HIDE DEF data, targets, requests
<1>7. run' \in Running /\ run'.data = data
  BY <1>1, <1>2, <1>3, <1>4, <1>6 DEF Running
<1>. QED
  BY <1>2, <1>6, <1>7 DEF TypeOK, Intact

LEMMA RunType ==
    ASSUME TypeOK, NEW pc \in {"create", "mark", "drive", "progress", "verify", "close"},
           At(pc)
    PROVE  /\ run \in Running /\ run # Idle /\ Loadable(run.data)
           /\ run.path \in Paths /\ run.data \in Receipts /\ run.absent \in SUBSET Files
           /\ run.targets \in SUBSET Tabs /\ run.requests \in [Tabs -> Seq(Nat)]
<1>1. run # Idle
  BY DEF At, Idle
<1>. QED
  BY <1>1 DEF TypeOK, Running

\* Receipts in other states of their operation.
LEMMA InStateType ==
    ASSUME run.data \in Receipts, NEW state \in {"prepared", "deleting", "stores_deleted"}
    PROVE  /\ InState(state) \in Receipts /\ InState(state).state = state
           /\ InState(state).subs = run.data.subs /\ InState(state).reason = run.data.reason
           /\ InState(state).cutoff = run.data.cutoff
           /\ InState(state).files = run.data.files
           /\ InState(state).deleted = run.data.deleted
           /\ Loadable(run.data) => Loadable(InState(state))
  BY DEF InState, Receipts, Loadable

LEMMA StoredType ==
    ASSUME TypeOK, run.path \in Paths, NEW d, d = Torn \/ (d \in Receipts /\ Loadable(d))
    PROVE  /\ Stored(d) \in [Paths -> Receipts \cup {None, Torn}]
           /\ Stored(d)[run.path] = d
           /\ \A p \in Paths : p # run.path => Stored(d)[p] = receipts[p]
           /\ \A p \in Paths : Stored(d)[p] \notin {None, Torn} => Loadable(Stored(d)[p])
  BY DEF TypeOK, Stored, Intact

\* The next file is one of those pending.
LEMMA NextFilePending ==
    ASSUME TypeOK, run.data \in Receipts, Pending # {}
    PROVE  NextFile \in Pending /\ NextFile \in Files
<1>1. Pending \subseteq Files /\ Pending \subseteq Nat
  BY RetentionAssumption DEF Pending, Receipts
<1>2. \E f \in Pending : \A g \in Pending : f <= g
  BY <1>1, LeastMember
<1>3. NextFile \in Pending
  <2>. HIDE DEF Pending
  <2>. QED
    BY <1>2 DEF NextFile
<1>. QED
  BY <1>1, <1>3

LEMMA CompletedType ==
    ASSUME run \in Running, NEW f \in Files, Completed(f)
    PROVE  /\ run' \in Running /\ run'.pc = "progress" /\ run'.path = run.path
           /\ run'.absent = run.absent /\ run'.targets = run.targets
           /\ run'.requests = run.requests
           /\ run'.data \in Receipts /\ run'.data.deleted = run.data.deleted \cup {f}
           /\ run'.data.subs = run.data.subs /\ run'.data.reason = run.data.reason
           /\ run'.data.cutoff = run.data.cutoff /\ run'.data.files = run.data.files
           /\ run'.data.state = run.data.state
<1>. DEFINE d == [run.data EXCEPT !.deleted = @ \cup {f}]
<1>0. run.data \in Receipts
  BY DEF Running
<1>1. /\ d \in Receipts /\ d.deleted = run.data.deleted \cup {f}
      /\ d.subs = run.data.subs /\ d.reason = run.data.reason
      /\ d.cutoff = run.data.cutoff /\ d.files = run.data.files
      /\ d.state = run.data.state
  BY <1>0 DEF Receipts
<1>2. run' = [run EXCEPT !.pc = "progress", !.data = d]
  BY DEF Completed, Running
<1>. HIDE DEF d
<1>3. /\ run' \in Running /\ run'.pc = "progress" /\ run'.path = run.path
      /\ run'.absent = run.absent /\ run'.targets = run.targets
      /\ run'.requests = run.requests /\ run'.data = d
  BY <1>1, <1>2 DEF Running
<1>. QED
  BY <1>1, <1>3

LEMMA MovedType ==
    ASSUME run \in Running, NEW d \in Receipts,
           NEW pc \in {"create", "mark", "drive", "progress", "verify", "close"}
    PROVE  LET next == [run EXCEPT !.pc = pc, !.data = d]
           IN  /\ next \in Running /\ next.pc = pc /\ next.path = run.path /\ next.data = d
               /\ next.absent = run.absent /\ next.targets = run.targets
               /\ next.requests = run.requests
  BY DEF Running

LEMMA GotoType ==
    ASSUME run \in Running,
           NEW pc \in {"create", "mark", "drive", "progress", "verify", "close"}
    PROVE  LET next == [run EXCEPT !.pc = pc]
           IN  /\ next \in Running /\ next.pc = pc /\ next.path = run.path
               /\ next.data = run.data
               /\ next.absent = run.absent /\ next.targets = run.targets
               /\ next.requests = run.requests
  BY DEF Running

\* A save puts the receipt at the path of the command, or nothing.
LEMMA SaveType ==
    ASSUME TypeOK, run \in Running, run.path \in Paths,
           NEW d, d = Torn \/ (d \in Receipts /\ Loadable(d)),
           receipts' \in {receipts, Stored(d)}, UNCHANGED <<sheets, drive>>,
           run' = Idle \/ (run' \in Running /\ Loadable(run'.data))
    PROVE  TypeOK'
<1>1. /\ receipts' \in [Paths -> Receipts \cup {None, Torn}]
      /\ \A p \in Paths : receipts'[p] \notin {None, Torn} => Loadable(receipts'[p])
  BY StoredType DEF TypeOK, Intact
<1>. QED
  BY <1>1 DEF TypeOK, Intact

\* A row gets the reference it lacked, and nothing else.
LEMMA ReferenceRows ==
    ASSUME TypeOK, NEW i \in DOMAIN sheets["submissions"], NEW f \in Files,
           sheets' = [sheets EXCEPT !["submissions"][i].file = f]
    PROVE  /\ sheets' \in Sheets
           /\ \A tab \in Tabs : tab # "submissions" => sheets'[tab] = sheets[tab]
           /\ sheets'["submissions"] =
                 [sheets["submissions"] EXCEPT ![i] = [sub |-> @.sub, file |-> f]]
<1>. DEFINE rows == sheets["submissions"]
            new == [rows EXCEPT ![i].file = f]
<1>1. rows \in Seq(IntakeRows) /\ i \in 1..Len(rows)
  BY MatchedType DEF Tabs, IntakeTabs, RowType
<1>2. rows[i] \in IntakeRows
  BY <1>1, ElementOfSeq
<1>3. [rows[i] EXCEPT !.file = f] = [sub |-> rows[i].sub, file |-> f]
  BY <1>2 DEF IntakeRows
<1>4. new = [rows EXCEPT ![i] = [sub |-> @.sub, file |-> f]]
  BY <1>1, <1>3
<1>5. [sub |-> rows[i].sub, file |-> f] \in IntakeRows
  BY <1>2 DEF IntakeRows
<1>6. new \in Seq(IntakeRows)
  <2>. HIDE DEF new, rows
  <2>. QED
    BY <1>1, <1>4, <1>5, ExceptSeq
<1>7. sheets = [tab \in Tabs |-> sheets[tab]]
  BY SheetsByTab DEF TypeOK
<1>8. /\ sheets'["submissions"] = new
      /\ \A tab \in Tabs : tab # "submissions" => sheets'[tab] = sheets[tab]
      /\ sheets' = [tab \in Tabs |-> sheets'[tab]]
  BY <1>7 DEF Tabs, IntakeTabs
<1>9. \A tab \in Tabs : sheets'[tab] \in Seq(RowType(tab))
  <2>1. RowType("submissions") = IntakeRows
    BY DEF RowType, IntakeTabs
  <2>. HIDE DEF new
  <2>. QED
    BY <1>6, <1>8, <2>1, MatchedType
<1>10. sheets' \in Sheets
  <2>. DEFINE c == sheets'
  <2>. HIDE DEF c
  <2>1. c = [tab \in Tabs |-> c[tab]] /\ \A tab \in Tabs : c[tab] \in Seq(RowType(tab))
    BY <1>8, <1>9 DEF c
  <2>2. c \in Sheets
    BY <2>1, SheetsByTab
  <2>. QED
    BY <2>2 DEF c
<1>. QED
  BY <1>4, <1>8, <1>10

LEMMA NextType == TypeOK /\ [Next]_vars => TypeOK'
<1>. SUFFICES ASSUME TypeOK, [Next]_vars PROVE TypeOK'
  OBVIOUS
<1>1. CASE UNCHANGED vars
  BY <1>1 DEF vars, TypeOK, Intact
<1>2. ASSUME NEW c \in Commands, Begin(c) PROVE TypeOK'
  BY <1>2, BeginType
<1>3. CASE Create
  <2>1. At("create") /\ run \in Running /\ Loadable(run.data) /\ run.data \in Receipts
    BY <1>3, RunType DEF Create
  <2>2. run' = Idle \/ (run' \in Running /\ Loadable(run'.data))
    BY <1>3, <2>1, GotoType DEF Create
  <2>. QED
    BY <1>3, <2>1, <2>2, RunType, SaveType DEF Create
<1>4. CASE CreateFails
  <2>1. /\ At("create") /\ run \in Running /\ run.path \in Paths
        /\ Loadable(run.data) /\ run.data \in Receipts /\ run' = Idle
    BY <1>4, RunType DEF CreateFails, Failing
  <2>2. \/ receipts' \in {receipts, Stored(run.data)}
        \/ receipts' \in {receipts, Stored(Torn)}
    BY <1>4 DEF CreateFails
  <2>3. UNCHANGED <<sheets, drive>>
    BY <1>4 DEF CreateFails
  <2>4. CASE receipts' \in {receipts, Stored(run.data)}
    BY <2>1, <2>3, <2>4, SaveType
  <2>5. CASE receipts' \in {receipts, Stored(Torn)}
    BY <2>1, <2>3, <2>5, SaveType
  <2>. QED
    BY <2>2, <2>4, <2>5
<1>5. CASE Mark
  <2>1. At("mark") /\ run \in Running /\ run.path \in Paths /\ Loadable(run.data)
        /\ run.data \in Receipts
    BY <1>5, RunType DEF Mark
  <2>. DEFINE d == InState("deleting")
  <2>2. d \in Receipts /\ Loadable(d)
    BY <2>1, InStateType
  <2>3. /\ run' = [run EXCEPT !.pc = "drive", !.data = d] /\ receipts' = Stored(d)
        /\ UNCHANGED <<sheets, drive>>
    BY <1>5 DEF Mark, Save
  <2>. HIDE DEF d
  <2>4. run' \in Running /\ run'.data = d
    BY <2>1, <2>2, <2>3, MovedType
  <2>. QED
    BY <2>1, <2>2, <2>3, <2>4, SaveType
<1>6. CASE MarkFails
  <2>1. At("mark") /\ run \in Running /\ run.path \in Paths /\ Loadable(run.data)
        /\ run.data \in Receipts
    BY <1>6, RunType DEF MarkFails
  <2>. DEFINE d == InState("deleting")
  <2>2. d \in Receipts /\ Loadable(d)
    BY <2>1, InStateType
  <2>3. /\ run' = Idle /\ receipts' \in {receipts, Stored(d)} /\ UNCHANGED <<sheets, drive>>
    BY <1>6 DEF MarkFails, SaveFails, Failing
  <2>. HIDE DEF d
  <2>. QED
    BY <2>1, <2>2, <2>3, SaveType
<1>7. CASE DeleteFile
  <2>1. At("drive") /\ run \in Running /\ Loadable(run.data) /\ run.data \in Receipts
    BY <1>7, RunType DEF DeleteFile
  <2>2. NextFile \in Pending /\ NextFile \in Files
    BY <1>7, <2>1, NextFilePending DEF DeleteFile
  <2>3. Completed(NextFile) /\ drive' = drive \ {NextFile} /\ UNCHANGED <<sheets, receipts>>
    BY <1>7 DEF DeleteFile
  <2>. HIDE DEF NextFile
  <2>4. /\ run' \in Running /\ run'.data.deleted = run.data.deleted \cup {NextFile}
        /\ run'.data.subs = run.data.subs /\ run'.data.reason = run.data.reason
        /\ run'.data.cutoff = run.data.cutoff /\ run'.data.files = run.data.files
    BY <2>1, <2>2, <2>3, CompletedType
  <2>5. Loadable(run'.data)
    BY <2>1, <2>2, <2>4 DEF Loadable, Pending
  <2>. QED
    BY <2>3, <2>4, <2>5 DEF TypeOK, Intact
<1>8. CASE DriveFails
  BY <1>8 DEF DriveFails, Failing, TypeOK, Intact
<1>9. CASE Progress
  <2>1. At("progress") /\ run \in Running /\ run.path \in Paths /\ Loadable(run.data)
        /\ run.data \in Receipts
    BY <1>9, RunType DEF Progress
  <2>2. run' \in Running /\ run'.data = run.data
    BY <1>9, <2>1, GotoType DEF Progress, Save
  <2>. QED
    BY <1>9, <2>1, <2>2, SaveType DEF Progress, Save
<1>10. CASE ProgressFails
  <2>1. At("progress") /\ run \in Running /\ run.path \in Paths /\ Loadable(run.data)
        /\ run.data \in Receipts
    BY <1>10, RunType DEF ProgressFails
  <2>. QED
    BY <1>10, <2>1, SaveType DEF ProgressFails, SaveFails, Failing
<1>11. CASE Batch
  <2>1. At("drive") /\ run \in Running /\ run # Idle /\ Loadable(run.data)
    BY <1>11, RunType DEF Batch
  <2>2. run' \in Running /\ run'.data = run.data
    BY <1>11, <2>1, GotoType DEF Batch
  <2>. QED
    BY <1>11, <2>1, <2>2, AppliedType DEF Batch, TypeOK, Intact
<1>12. CASE BatchFails
  <2>1. run # Idle
    BY <1>12, RunType DEF BatchFails
  <2>. QED
    BY <1>12, <2>1, AppliedType DEF BatchFails, Failing, TypeOK, Intact
<1>13. CASE Verify
  <2>1. At("verify") /\ run \in Running /\ Loadable(run.data)
    BY <1>13, RunType DEF Verify
  <2>2. run' = Idle \/ (run' \in Running /\ Loadable(run'.data))
    BY <1>13, <2>1, GotoType DEF Verify
  <2>. QED
    BY <1>13, <2>2 DEF Verify, TypeOK, Intact
<1>14. CASE VerifyFails
  BY <1>14 DEF VerifyFails, Failing, TypeOK, Intact
<1>15. CASE Close
  <2>1. At("close") /\ run \in Running /\ run.path \in Paths /\ Loadable(run.data)
        /\ run.data \in Receipts
    BY <1>15, RunType DEF Close
  <2>. DEFINE d == InState("stores_deleted")
  <2>2. d \in Receipts /\ Loadable(d)
    BY <2>1, InStateType
  <2>3. run' = Idle /\ receipts' = Stored(d) /\ UNCHANGED <<sheets, drive>>
    BY <1>15 DEF Close, Save
  <2>. HIDE DEF d
  <2>. QED
    BY <2>1, <2>2, <2>3, SaveType
<1>16. CASE CloseFails
  <2>1. At("close") /\ run \in Running /\ run.path \in Paths /\ Loadable(run.data)
        /\ run.data \in Receipts
    BY <1>16, RunType DEF CloseFails
  <2>. DEFINE d == InState("stores_deleted")
  <2>2. d \in Receipts /\ Loadable(d)
    BY <2>1, InStateType
  <2>3. run' = Idle /\ receipts' \in {receipts, Stored(d)} /\ UNCHANGED <<sheets, drive>>
    BY <1>16 DEF CloseFails, SaveFails, Failing
  <2>. HIDE DEF d
  <2>. QED
    BY <2>1, <2>2, <2>3, SaveType
<1>17. CASE Crash
  BY <1>17 DEF Crash, Failing, TypeOK, Intact
<1>18. ASSUME NEW i \in DOMAIN sheets["submissions"], NEW f \in Strays, Reference(i, f)
       PROVE  TypeOK'
  <2>1. f \in Files
    BY RetentionAssumption
  <2>2. sheets' \in Sheets /\ UNCHANGED <<drive, receipts, run>>
    BY <1>18, <2>1, ReferenceRows DEF Reference
  <2>. QED
    BY <2>2 DEF TypeOK, Intact
<1>. QED
  BY <1>1, <1>2, <1>3, <1>4, <1>5, <1>6, <1>7, <1>8, <1>9, <1>10, <1>11, <1>12,
     <1>13, <1>14, <1>15, <1>16, <1>17, <1>18 DEF Next, Call, Failure

\* Stores, receipts and the command keep their types; in particular every
\* receipt can be loaded again by the command that must finish its operation.
THEOREM TypeCorrect == Spec => []TypeOK
<1>1. Init => TypeOK
  BY InitType
<1>2. TypeOK /\ [Next]_vars => TypeOK'
  BY NextType
<1>. QED
  BY <1>1, <1>2, PTL DEF Spec

-----------------------------------------------------------------------------
(* What a command knows *)

Least(S) == CHOOSE f \in S : \A g \in S : f <= g
NextOf(r) == Least(r.files \ r.deleted)

SameScope(r, d) ==
    r.subs = d.subs /\ r.reason = d.reason /\ r.cutoff = d.cutoff /\ r.files = d.files

\* The receipt on disk and its copy in memory: the copy is one deletion ahead
\* until it is saved.
ReceiptKnown ==
    LET known == receipts[run.path]
    IN  /\ run.pc = "create" =>
              /\ known = None /\ run.data.state = "prepared" /\ run.data.deleted = {}
              /\ run.data.files \subseteq ReferencedIn(sheets)
        /\ run.pc \in {"mark", "drive", "progress", "verify", "close"} =>
              Intact(run.path) /\ SameScope(known, run.data)
        /\ run.pc \in {"mark", "drive", "verify", "close"} =>
              known.deleted = run.data.deleted
        /\ run.pc = "progress" => run.data.deleted = known.deleted \cup {NextOf(known)}
        /\ run.pc \in {"drive", "progress"} => run.data.state = "deleting"

\* Whether the rows of s allow what the operation is for.
Authorised(s, d) == \A i \in Matched("ops", {s}) :
    LET row == sheets["ops"][i]
    IN  /\ d.reason = "source_expiry" => row.state \in {"active", "ended"}
        /\ d.reason = "coordination_expiry" => row.state = "ended" /\ row.ended <= d.cutoff

Planning == {"create", "mark", "drive", "progress"}

\* Until the batch, the plan fits the sheets it was made from.
PlanStands == run.pc \in Planning =>
    /\ run.requests = Requests(run.data.subs, run.targets)
    /\ Gathered(run.data.subs, run.targets) \cap Files \subseteq run.data.files
    /\ \A s \in run.data.subs : Authorised(s, run.data)

\* How far the command has come.
FarEnough ==
    /\ run # Idle => run.targets = Targets(run.data.reason) /\ run.data.deleted \cap drive = {}
    /\ run.pc \in {"verify", "close"} => Pending = {}
    /\ run.pc = "close" => \A tab \in run.targets : Matched(tab, run.data.subs) = {}

RunInv == ReceiptKnown /\ PlanStands /\ FarEnough

IntactPaths == {p \in Paths : Intact(p)}
Listed == UNION {receipts[p].files : p \in IntactPaths}
Told == UNION {receipts[p].deleted : p \in IntactPaths}

\* A file that is gone without a receipt telling is the one that some operation
\* was about to delete; and no row refers to a file that no receipt lists.
LossInv ==
    /\ IsFiniteSet(IntactPaths)
    /\ ReferencedIn(sheets) \ drive \subseteq Listed
    /\ \A f \in Listed \ drive : f \in Told \/ \E p \in IntactPaths : f = NextOf(receipts[p])

\* A file that is still to be deleted is referred to, and only by rows of the
\* submissions that its receipt is for.
Owned(r) == \A f \in r.files \cap drive :
    f \in ReferencedIn(sheets) /\ ~Shared(r.subs, {f})
OwnedInv ==
    /\ \A p \in IntactPaths : Owned(receipts[p])
    /\ run.pc = "create" => Owned(run.data)

LEMMA NextFileIsLeast == NextFile = Least(Pending)
  BY DEF NextFile, Least

\* A command that has ended knows nothing.
LEMMA IdleRunInv == run' = Idle => RunInv'
  BY DEF Idle, RunInv, ReceiptKnown, PlanStands, Planning, FarEnough

LEMMA InitRunInv == Init => RunInv
  BY DEF Init, Idle, RunInv, ReceiptKnown, PlanStands, Planning, FarEnough

\* The plan stands as long as the sheets and the scope stay.
LEMMA PlanStays ==
    ASSUME PlanStands, run.pc \in Planning, sheets' = sheets,
           SameScope(run'.data, run.data), run'.targets = run.targets,
           run'.requests = run.requests
    PROVE  PlanStands'
<1>1. \A tab, ids : Matched(tab, ids)' = Matched(tab, ids)
  BY DEF Matched
<1>2. Requests(run.data.subs, run.targets)' = Requests(run.data.subs, run.targets)
  BY <1>1 DEF Requests, SameScope
<1>3. Gathered(run.data.subs, run.targets)' = Gathered(run.data.subs, run.targets)
  BY <1>1 DEF Gathered, SameScope
<1>4. \A s : Authorised(s, run.data)' <=> Authorised(s, run.data)
  BY <1>1 DEF Authorised, SameScope
<1>. QED
  BY <1>2, <1>3, <1>4 DEF PlanStands, SameScope

\* What Eligible finds of a submission is what authorises its deletion.
LEMMA EligibleAuthorises ==
    ASSUME NEW c \in Commands, NEW s, Eligible(s, c), NEW d, d.reason = c.reason,
           d.cutoff = c.cutoff
    PROVE  Authorised(s, d)
  BY DEF Eligible, Authorised

LEMMA GatheredReferenced ==
    ASSUME NEW ids, NEW targets
    PROVE  Gathered(ids, targets) \cap Files \subseteq ReferencedIn(sheets)
  BY DEF Gathered, ReferencedIn, Matched

LEMMA BeginRunInv ==
    ASSUME TypeOK, ReceiptHonest, NEW c \in Commands, Begin(c)
    PROVE  RunInv'
<1>. DEFINE known == receipts[c.path]
            targets == Targets(c.reason)
            files == Gathered(c.ids, targets) \cap Files
            data == IF known = None THEN NewReceipt(c, files) ELSE known
            requests == Requests(c.ids, targets)
<1>1. /\ UNCHANGED <<sheets, drive, receipts>> /\ known # Torn
      /\ known # None => Covers(known, c, files)
      /\ \A s \in c.ids : Eligible(s, c)
      /\ run' = [pc |-> IF known = None THEN "create" ELSE "mark", path |-> c.path,
                 data |-> data, absent |-> c.absent, targets |-> targets,
                 requests |-> requests]
  BY DEF Begin
<1>2. c.path \in Paths
  BY DEF Commands
<1>3. /\ data.subs = c.ids /\ data.reason = c.reason /\ data.cutoff = c.cutoff
      /\ files \subseteq data.files
      /\ known = None => /\ data.files = files /\ data.deleted = {}
                         /\ data.state = "prepared"
  BY <1>1 DEF NewReceipt, Covers
<1>4. known # None => Intact(c.path) /\ data = known /\ known.deleted \cap drive = {}
  BY <1>1, <1>2 DEF Intact, ReceiptHonest
<1>5. data.deleted \cap drive = {}
  BY <1>3, <1>4
<1>6. files \subseteq ReferencedIn(sheets) /\ ReferencedIn(sheets)' = ReferencedIn(sheets)
  BY <1>1, GatheredReferenced
<1>7. \A s \in c.ids : Authorised(s, data)
  BY <1>1, <1>3, EligibleAuthorises
<1>. HIDE DEF data
<1>8. /\ run'.pc = (IF known = None THEN "create" ELSE "mark") /\ run'.path = c.path
      /\ run'.data = data /\ run'.targets = targets /\ run'.requests = requests
  BY <1>1
<1>9. /\ receipts' = receipts /\ receipts'[run'.path] = known
      /\ Intact(run.path)' <=> Intact(c.path)
  BY <1>1, <1>8 DEF Intact
<1>10. ReceiptKnown'
  <2>1. CASE known = None
    BY <1>3, <1>6, <1>8, <1>9, <2>1 DEF ReceiptKnown
  <2>2. CASE known # None
    BY <1>4, <1>8, <1>9, <2>2 DEF ReceiptKnown, SameScope
  <2>. QED
    BY <2>1, <2>2
<1>11. PlanStands'
  <2>1. \A tab, ids : Matched(tab, ids)' = Matched(tab, ids)
    BY <1>1 DEF Matched
  <2>2. Requests(run.data.subs, run.targets)' = requests
    BY <1>3, <1>8, <2>1 DEF Requests
  <2>. HIDE DEF targets
  <2>3. Gathered(run.data.subs, run.targets)' = Gathered(c.ids, targets)
    BY <1>1, <1>3, <1>8, <2>1 DEF Gathered
  <2>4. \A s : Authorised(s, run.data)' <=> Authorised(s, data)
    BY <1>1, <1>8, <2>1 DEF Authorised
  <2>. QED
    BY <1>3, <1>7, <1>8, <2>2, <2>3, <2>4 DEF PlanStands
<1>12. FarEnough'
  BY <1>1, <1>3, <1>5, <1>8 DEF FarEnough
<1>. QED
  BY <1>10, <1>11, <1>12 DEF RunInv

\* A step that changes neither the plan nor, while it stands, the sheets.
LEMMA CarryOn ==
    ASSUME PlanStands, FarEnough, run # Idle,
           SameScope(run'.data, run.data), run'.targets = run.targets,
           run'.requests = run.requests,
           run'.pc \in Planning => run.pc \in Planning /\ sheets' = sheets,
           run'.data.deleted \cap drive' = {},
           run'.pc \in {"verify", "close"} => Pending' = {},
           run'.pc = "close" =>
              \A tab \in run.targets : Matched(tab, run.data.subs)' = {}
    PROVE  PlanStands' /\ FarEnough'
<1>1. PlanStands'
  <2>1. CASE run'.pc \in Planning
    BY <2>1, PlanStays
  <2>2. CASE run'.pc \notin Planning
    BY <2>2 DEF PlanStands
  <2>. QED
    BY <2>1, <2>2
<1>2. FarEnough'
  BY DEF FarEnough, SameScope
<1>. QED
  BY <1>1, <1>2

LEMMA CreateRunInv ==
    ASSUME TypeOK, RunInv, Create PROVE RunInv'
<1>1. /\ At("create") /\ run \in Running /\ run # Idle /\ run.path \in Paths
      /\ run.data \in Receipts /\ Loadable(run.data)
  BY RunType DEF Create
<1>2. /\ UNCHANGED <<sheets, drive>> /\ receipts' = Stored(run.data)
      /\ run' = Idle \/ run' = [run EXCEPT !.pc = "mark"]
  BY DEF Create
<1>3. CASE run' = Idle
  BY <1>3, IdleRunInv
<1>4. CASE run' = [run EXCEPT !.pc = "mark"]
  <2>1. /\ run'.pc = "mark" /\ run'.path = run.path /\ run'.data = run.data
        /\ run'.targets = run.targets /\ run'.requests = run.requests
    BY <1>1, <1>4, GotoType
  <2>2. receipts'[run'.path] = run.data
    BY <1>1, <1>2, <2>1, StoredType
  <2>3. run.data \notin {None, Torn}
    BY <1>1, RetentionAssumption
  <2>4. ReceiptKnown'
    BY <2>1, <2>2, <2>3 DEF ReceiptKnown, SameScope, Intact
  <2>5. PlanStands' /\ FarEnough'
    BY <1>1, <1>2, <2>1, CarryOn DEF RunInv, FarEnough, SameScope, Planning, At
  <2>. QED
    BY <2>4, <2>5 DEF RunInv
<1>. QED
  BY <1>2, <1>3, <1>4

LEMMA MarkRunInv ==
    ASSUME TypeOK, RunInv, Mark PROVE RunInv'
<1>. DEFINE d == InState("deleting")
<1>1. At("mark") /\ run \in Running /\ run # Idle /\ run.path \in Paths /\ run.data \in Receipts
      /\ Loadable(run.data)
  BY RunType DEF Mark
<1>2. /\ d \in Receipts /\ Loadable(d) /\ d.state = "deleting" /\ d.deleted = run.data.deleted
      /\ SameScope(d, run.data)
  BY <1>1, InStateType DEF SameScope
<1>3. /\ run' = [run EXCEPT !.pc = "drive", !.data = d] /\ receipts' = Stored(d)
      /\ UNCHANGED <<sheets, drive>>
  BY DEF Mark, Save
<1>. HIDE DEF d
<1>4. /\ run'.pc = "drive" /\ run'.path = run.path /\ run'.data = d
      /\ run'.targets = run.targets /\ run'.requests = run.requests
  BY <1>1, <1>2, <1>3, MovedType
<1>5. receipts'[run'.path] = d /\ d \notin {None, Torn}
  BY <1>1, <1>2, <1>3, <1>4, StoredType, RetentionAssumption
<1>6. ReceiptKnown'
  BY <1>2, <1>4, <1>5 DEF ReceiptKnown, SameScope, Intact
<1>7. PlanStands' /\ FarEnough'
  BY <1>1, <1>2, <1>3, <1>4, CarryOn DEF RunInv, FarEnough, Planning, At
<1>. QED
  BY <1>6, <1>7 DEF RunInv

\* The file deleted next is the one the receipt on disk would name next.
LEMMA NextFileOfReceipt ==
    ASSUME RunInv, At("drive")
    PROVE  /\ Intact(run.path) /\ SameScope(receipts[run.path], run.data)
           /\ receipts[run.path].deleted = run.data.deleted
           /\ NextOf(receipts[run.path]) = NextFile
<1>1. /\ Intact(run.path) /\ SameScope(receipts[run.path], run.data)
      /\ receipts[run.path].deleted = run.data.deleted
  BY DEF RunInv, ReceiptKnown, At
<1>2. receipts[run.path].files \ receipts[run.path].deleted = Pending
  BY <1>1 DEF Pending, SameScope
<1>. QED
  BY <1>1, <1>2, NextFileIsLeast DEF NextOf

LEMMA DeleteFileRunInv ==
    ASSUME TypeOK, RunInv, DeleteFile PROVE RunInv'
<1>1. At("drive") /\ run \in Running /\ run # Idle /\ run.path \in Paths /\ run.data \in Receipts
  BY RunType DEF DeleteFile
<1>2. NextFile \in Pending /\ NextFile \in Files
  BY <1>1, NextFilePending DEF DeleteFile
<1>3. Completed(NextFile) /\ drive' = drive \ {NextFile} /\ UNCHANGED <<sheets, receipts>>
  BY DEF DeleteFile
<1>4. /\ run'.pc = "progress" /\ run'.path = run.path
      /\ run'.targets = run.targets /\ run'.requests = run.requests
      /\ run'.data.deleted = run.data.deleted \cup {NextFile}
      /\ SameScope(run'.data, run.data) /\ run'.data.state = run.data.state
  <2>. HIDE DEF NextFile
  <2>. QED
    BY <1>1, <1>2, <1>3, CompletedType DEF SameScope
<1>5. /\ Intact(run.path) /\ SameScope(receipts[run.path], run.data)
      /\ receipts[run.path].deleted = run.data.deleted
      /\ NextOf(receipts[run.path]) = NextFile /\ run.data.state = "deleting"
  BY <1>1, NextFileOfReceipt DEF RunInv, ReceiptKnown, At
<1>6. ReceiptKnown'
  <2>1. receipts'[run'.path] = receipts[run.path] /\ (Intact(run.path)' <=> Intact(run.path))
    BY <1>3, <1>4 DEF Intact
  <2>2. NextOf(receipts[run.path])' = NextOf(receipts[run.path])
    BY <2>1 DEF NextOf
  <2>. HIDE DEF NextFile, NextOf
  <2>. QED
    BY <1>4, <1>5, <2>1, <2>2 DEF ReceiptKnown, SameScope
<1>7. run.data.deleted \cap drive = {}
  BY <1>1 DEF RunInv, FarEnough
<1>8. PlanStands' /\ FarEnough'
  <2>. HIDE DEF NextFile
  <2>. QED
    BY <1>1, <1>3, <1>4, <1>7, CarryOn DEF RunInv, Planning, At
<1>. QED
  BY <1>6, <1>8 DEF RunInv

LEMMA ProgressRunInv ==
    ASSUME TypeOK, RunInv, Progress PROVE RunInv'
<1>1. At("progress") /\ run \in Running /\ run # Idle /\ run.path \in Paths
      /\ run.data \in Receipts /\ Loadable(run.data)
  BY RunType DEF Progress
<1>2. /\ UNCHANGED <<sheets, drive>> /\ receipts' = Stored(run.data)
      /\ run' = [run EXCEPT !.pc = "drive"]
  BY DEF Progress, Save
<1>3. /\ run'.pc = "drive" /\ run'.path = run.path /\ run'.data = run.data
      /\ run'.targets = run.targets /\ run'.requests = run.requests
  BY <1>1, <1>2, GotoType
<1>4. receipts'[run'.path] = run.data /\ run.data \notin {None, Torn}
  BY <1>1, <1>2, <1>3, StoredType, RetentionAssumption
<1>5. ReceiptKnown'
  BY <1>1, <1>3, <1>4 DEF RunInv, ReceiptKnown, SameScope, Intact, At
<1>6. PlanStands' /\ FarEnough'
  BY <1>1, <1>2, <1>3, CarryOn DEF RunInv, FarEnough, SameScope, Planning, At
<1>. QED
  BY <1>5, <1>6 DEF RunInv

LEMMA BatchRunInv ==
    ASSUME TypeOK, RunInv, Batch PROVE RunInv'
<1>1. At("drive") /\ run \in Running /\ run # Idle
  BY RunType DEF Batch
<1>2. Pending = {} /\ UNCHANGED <<drive, receipts>> /\ run' = [run EXCEPT !.pc = "verify"]
  BY DEF Batch
<1>3. /\ run'.pc = "verify" /\ run'.path = run.path /\ run'.data = run.data
      /\ run'.targets = run.targets /\ run'.requests = run.requests
  BY <1>1, <1>2, GotoType
<1>4. ReceiptKnown'
  BY <1>1, <1>2, <1>3 DEF RunInv, ReceiptKnown, SameScope, Intact, At
<1>5. Pending' = {}
  BY <1>2, <1>3 DEF Pending
<1>6. PlanStands' /\ FarEnough'
  BY <1>1, <1>2, <1>3, <1>5, CarryOn DEF RunInv, FarEnough, SameScope, Planning
<1>. QED
  BY <1>4, <1>6 DEF RunInv

LEMMA VerifyRunInv ==
    ASSUME TypeOK, RunInv, Verify PROVE RunInv'
<1>1. At("verify") /\ run \in Running /\ run # Idle
  BY RunType DEF Verify
<1>2. UNCHANGED <<sheets, drive, receipts>>
  BY DEF Verify
<1>3. CASE run' = Idle
  BY <1>3, IdleRunInv
<1>4. CASE run' # Idle
  <2>1. /\ run' = [run EXCEPT !.pc = "close"]
        /\ \A tab \in run.targets : Matched(tab, run.data.subs) = {}
    BY <1>4 DEF Verify
  <2>2. /\ run'.pc = "close" /\ run'.path = run.path /\ run'.data = run.data
        /\ run'.targets = run.targets /\ run'.requests = run.requests
    BY <1>1, <2>1, GotoType
  <2>3. ReceiptKnown'
    BY <1>1, <1>2, <2>2 DEF RunInv, ReceiptKnown, SameScope, Intact, At
  <2>4. Pending' = {}
    BY <1>1, <2>2 DEF Pending, RunInv, FarEnough, At
  <2>5. \A tab \in run.targets : Matched(tab, run.data.subs)' = {}
    BY <1>2, <2>1, <2>2 DEF Matched
  <2>6. PlanStands' /\ FarEnough'
    BY <1>1, <1>2, <2>2, <2>4, <2>5, CarryOn DEF RunInv, FarEnough, SameScope, Planning
  <2>. QED
    BY <2>3, <2>6 DEF RunInv
<1>. QED
  BY <1>3, <1>4

LEMMA SameRunInv ==
    ASSUME RunInv, UNCHANGED <<drive, receipts, run>>, sheets' = sheets \/ run = Idle
    PROVE  RunInv'
<1>1. CASE run = Idle
  BY <1>1, IdleRunInv
<1>2. CASE sheets' = sheets
  <2>1. ReceiptKnown'
    BY <1>2 DEF RunInv, ReceiptKnown, SameScope, Intact, ReferencedIn, NextOf, Least
  <2>2. PlanStands'
    <3>1. \A tab, ids : Matched(tab, ids)' = Matched(tab, ids)
      BY <1>2 DEF Matched
    <3>. QED
      BY <1>2, <3>1 DEF RunInv, PlanStands, Requests, Gathered, Authorised
  <2>3. FarEnough'
    BY <1>2 DEF RunInv, FarEnough, Pending, Matched
  <2>. QED
    BY <2>1, <2>2, <2>3 DEF RunInv
<1>. QED
  BY <1>1, <1>2

LEMMA NextRunInv ==
    ASSUME TypeOK, ReceiptHonest, RunInv, [Next]_vars PROVE RunInv'
<1>1. CASE UNCHANGED vars
  BY <1>1, SameRunInv DEF vars
<1>2. ASSUME NEW c \in Commands, Begin(c) PROVE RunInv'
  BY <1>2, BeginRunInv
<1>3. CASE Call
  <2>1. CASE Close
    BY <2>1, IdleRunInv DEF Close, Save
  <2>. QED
    BY <1>3, <2>1, CreateRunInv, MarkRunInv, DeleteFileRunInv, ProgressRunInv,
       BatchRunInv, VerifyRunInv DEF Call
<1>4. CASE Failure
  <2>1. run' = Idle
    BY <1>4 DEF Failure, CreateFails, MarkFails, DriveFails, ProgressFails, BatchFails,
       VerifyFails, CloseFails, Crash, SaveFails, Failing
  <2>. QED
    BY <2>1, IdleRunInv
<1>5. ASSUME NEW i \in DOMAIN sheets["submissions"], NEW f \in Strays, Reference(i, f)
      PROVE  RunInv'
  BY <1>5, SameRunInv DEF Reference
<1>. QED
  BY <1>1, <1>2, <1>3, <1>4, <1>5 DEF Next

-----------------------------------------------------------------------------
(* What a step may change *)

Deleting == At("drive") /\ Pending # {} /\ drive' = drive \ {NextFile}

\* The Drive loses one file at a time, the next of the command's own.
LEMMA DriveChange ==
    ASSUME [Next]_vars
    PROVE  drive' = drive \/ (Deleting /\ UNCHANGED <<sheets, receipts>>)
<1>1. CASE Call
  BY <1>1 DEF Call, Create, Mark, DeleteFile, Progress, Batch, Verify, Close, Save, Deleting
<1>2. CASE Failure
  BY <1>2 DEF Failure, CreateFails, MarkFails, DriveFails, ProgressFails, BatchFails,
     VerifyFails, CloseFails, Crash, SaveFails, Deleting
<1>. QED
  BY <1>1, <1>2 DEF Next, Begin, Reference, vars

Batching == At("drive") /\ Pending = {} /\ sheets' = Applied

\* Rows change only by a batch or when an operator names a file.
LEMMA SheetsChange ==
    ASSUME [Next]_vars
    PROVE  \/ sheets' = sheets
           \/ Batching /\ UNCHANGED <<drive, receipts>>
           \/ \E i \in DOMAIN sheets["submissions"] : \E f \in Strays : Reference(i, f)
<1>1. CASE Call
  BY <1>1 DEF Call, Create, Mark, DeleteFile, Progress, Batch, Verify, Close, Save, Batching
<1>2. CASE Failure
  BY <1>2 DEF Failure, CreateFails, MarkFails, DriveFails, ProgressFails, BatchFails,
     VerifyFails, CloseFails, Crash, SaveFails, Batching
<1>. QED
  BY <1>1, <1>2 DEF Next, Begin, vars

\* The receipts that a command may leave at its path.
Writing(d) ==
    \/ At("create") /\ d \in {Torn, run.data}
    \/ At("mark") /\ d = InState("deleting")
    \/ At("progress") /\ d = run.data
    \/ At("close") /\ d = InState("stores_deleted")

LEMMA ReceiptsChange ==
    ASSUME [Next]_vars
    PROVE  \/ receipts' = receipts
           \/ /\ UNCHANGED <<sheets, drive>>
              /\ \E d : Writing(d) /\ receipts' = Stored(d)
<1>. DEFINE Changed == receipts' = receipts \/
        (UNCHANGED <<sheets, drive>> /\ \E d : Writing(d) /\ receipts' = Stored(d))
<1>1. CASE Create
  BY <1>1 DEF Create, Writing
<1>2. CASE CreateFails
  <2>1. UNCHANGED <<sheets, drive>> /\ At("create")
    BY <1>2 DEF CreateFails
  <2>2. receipts' = receipts \/ receipts' = Stored(Torn) \/ receipts' = Stored(run.data)
    BY <1>2 DEF CreateFails
  <2>3. Writing(Torn) /\ Writing(run.data)
    BY <2>1 DEF Writing
  <2>. QED
    BY <2>1, <2>2, <2>3
<1>3. CASE Mark \/ MarkFails
  BY <1>3 DEF Mark, MarkFails, Save, SaveFails, Writing
<1>4. CASE Progress \/ ProgressFails
  BY <1>4 DEF Progress, ProgressFails, Save, SaveFails, Writing
<1>5. CASE Close \/ CloseFails
  BY <1>5 DEF Close, CloseFails, Save, SaveFails, Writing
<1>6. CASE DeleteFile \/ DriveFails \/ Batch \/ BatchFails \/ Verify \/ VerifyFails \/ Crash
  BY <1>6 DEF DeleteFile, DriveFails, Batch, BatchFails, Verify, VerifyFails, Crash
<1>7. CASE UNCHANGED vars
  BY <1>7 DEF vars
<1>. QED
  BY <1>1, <1>2, <1>3, <1>4, <1>5, <1>6, <1>7 DEF Next, Call, Failure, Begin, Reference

\* What a batch does to the rows of each tab.
LEMMA BatchMeaning ==
    ASSUME TypeOK, RunInv, Batching, NEW tab \in Tabs
    PROVE  /\ run # Idle /\ run.data \in Receipts /\ run.path \in Paths
           /\ Descends(tab, sheets[tab], sheets'[tab])
           /\ SparedInOrder(sheets[tab], sheets'[tab], run.data.subs)
           /\ tab \notin run.targets => sheets'[tab] = sheets[tab]
<1>1. run # Idle /\ run.data \in Receipts /\ run.path \in Paths /\ At("drive")
  BY RunType DEF Batching
<1>2. /\ run.requests = Requests(run.data.subs, run.targets)
      /\ sheets'[tab] = AppliedTo(tab, sheets[tab], run.requests[tab])
      /\ Descends(tab, sheets[tab], sheets'[tab]) /\ run.requests[tab] \in Seq(Nat)
  BY <1>1, AppliedType DEF Batching, RunInv, PlanStands, Planning, At
<1>3. sheets[tab] \in Seq(RowType(tab))
  BY MatchedType
<1>4. PlannedFor(sheets[tab], run.requests[tab], run.data.subs)
  BY <1>2, RequestsPlanned
<1>5. SparedInOrder(sheets[tab], sheets'[tab], run.data.subs)
  BY <1>2, <1>3, <1>4, BatchSpares, RetentionAssumption
<1>6. CASE tab \notin run.targets
  <2>1. run.requests[tab] = <<>>
    BY <1>2, <1>6 DEF Requests
  <2>2. Len(run.requests[tab]) = 0
    BY <2>1
  <2>3. PICK grids : /\ GridsOf(tab, sheets[tab], run.requests[tab], grids)
                     /\ sheets'[tab] = grids[Len(run.requests[tab])]
    BY <1>2, BatchHasGrids
  <2>4. sheets'[tab] = sheets[tab]
    BY <2>2, <2>3 DEF GridsOf
  <2>. QED
    BY <1>1, <1>2, <1>5, <2>4
<1>. QED
  BY <1>1, <1>2, <1>5, <1>6

-----------------------------------------------------------------------------
(* Receipts are honest *)

\* Rows that are gone stay gone.
LEMMA EmptyStays ==
    ASSUME TypeOK, RunInv, [Next]_vars, NEW tab \in Tabs, NEW ids \in SUBSET Subs,
           Matched(tab, ids) = {}
    PROVE  Matched(tab, ids)' = {}
<1>1. CASE sheets' = sheets
  BY <1>1 DEF Matched
<1>2. CASE Batching
  <2>1. Descends(tab, sheets[tab], sheets'[tab])
    BY <1>2, BatchMeaning
  <2>2. \A i \in DOMAIN sheets[tab] : sheets[tab][i].sub \notin ids
    BY DEF Matched
  <2>3. \A i \in DOMAIN sheets[tab] : Minimised(sheets[tab][i]).sub \notin ids
    BY RetentionAssumption DEF Minimised
  <2>4. \A k \in DOMAIN sheets'[tab] : sheets'[tab][k].sub \notin ids
    BY <2>1, <2>2, <2>3 DEF Descends
  <2>. QED
    BY <2>4 DEF Matched
<1>3. ASSUME NEW i \in DOMAIN sheets["submissions"], NEW f \in Strays, Reference(i, f)
      PROVE  Matched(tab, ids)' = {}
  <2>1. /\ tab # "submissions" => sheets'[tab] = sheets[tab]
        /\ sheets'["submissions"] =
              [sheets["submissions"] EXCEPT ![i] = [sub |-> @.sub, file |-> f]]
    BY <1>3, ReferenceRows, RetentionAssumption DEF Reference
  <2>2. \A k \in DOMAIN sheets'[tab] :
           k \in DOMAIN sheets[tab] /\ sheets'[tab][k].sub = sheets[tab][k].sub
    BY <2>1
  <2>. QED
    BY <2>2 DEF Matched
<1>. QED
  BY <1>1, <1>2, <1>3, SheetsChange

\* One receipt stays honest in a step that does not rewrite it.
Honest(r) ==
    /\ r.deleted \cap drive = {}
    /\ r.state = "stores_deleted" =>
          /\ r.files \cap drive = {}
          /\ \A tab \in Targets(r.reason) : Matched(tab, r.subs) = {}

LEMMA HonestStays ==
    ASSUME TypeOK, RunInv, [Next]_vars, NEW r \in Receipts, Honest(r)
    PROVE  Honest(r)'
<1>1. drive' \subseteq drive
  BY DriveChange DEF Deleting
<1>2. Targets(r.reason) \subseteq Tabs
  BY DEF Targets, Tabs, IntakeTabs
<1>3. r.subs \in SUBSET Subs
  BY DEF Receipts
<1>4. \A tab \in Tabs : Matched(tab, r.subs) = {} => Matched(tab, r.subs)' = {}
  BY <1>3, EmptyStays
<1>. QED
  BY <1>1, <1>2, <1>4 DEF Honest

\* A receipt is written as finished only by a command that found it so.
LEMMA WrittenHonest ==
    ASSUME TypeOK, RunInv, NEW d \in Receipts, Writing(d)
    PROVE  Honest(d)
<1>1. run # Idle /\ run.data \in Receipts
  BY RunType DEF Writing
<1>2. run.data.deleted \cap drive = {} /\ run.targets = Targets(run.data.reason)
  BY <1>1 DEF RunInv, FarEnough
<1>3. d # Torn
  BY RetentionAssumption
<1>4. CASE At("create")
  BY <1>2, <1>3, <1>4 DEF Writing, At, RunInv, ReceiptKnown, Honest
<1>5. CASE At("mark")
  BY <1>1, <1>2, <1>5, InStateType DEF Writing, At, Honest
<1>6. CASE At("progress")
  BY <1>2, <1>6 DEF Writing, At, RunInv, ReceiptKnown, Honest
<1>7. CASE At("close")
  <2>1. /\ d = InState("stores_deleted") /\ d.deleted = run.data.deleted
        /\ d.files = run.data.files /\ d.reason = run.data.reason /\ d.subs = run.data.subs
    BY <1>1, <1>7, InStateType DEF Writing, At
  <2>2. run.data.files \subseteq run.data.deleted
    BY <1>7 DEF At, RunInv, FarEnough, Pending
  <2>3. \A tab \in run.targets : Matched(tab, run.data.subs) = {}
    BY <1>7 DEF At, RunInv, FarEnough
  <2>. QED
    BY <1>2, <2>1, <2>2, <2>3 DEF Honest
<1>. QED
  BY <1>4, <1>5, <1>6, <1>7 DEF Writing

LEMMA HonestStep ==
    ASSUME TypeOK, RunInv, ReceiptHonest, [Next]_vars
    PROVE  ReceiptHonest'
<1>1. \A p \in Paths : Intact(p) => receipts[p] \in Receipts /\ Honest(receipts[p])
  BY DEF TypeOK, Intact, ReceiptHonest, Honest
<1>2. TypeOK'
  BY NextType
<1>3. ASSUME NEW p \in Paths, Intact(p)'
      PROVE  receipts'[p] \in Receipts /\ Honest(receipts[p])'
  <2>1. receipts'[p] \in Receipts
    BY <1>2, <1>3 DEF TypeOK, Intact
  <2>2. CASE receipts'[p] = receipts[p]
    <3>1. receipts[p] \in Receipts /\ Honest(receipts[p])
      BY <1>1, <1>3, <2>2 DEF Intact
    <3>. DEFINE r == receipts[p]
    <3>2. \A r2 \in Receipts : Honest(r2) => Honest(r2)'
      BY HonestStays
    <3>. QED
      BY <2>1, <2>2, <3>1, <3>2 DEF Honest, Matched
  <2>3. CASE receipts'[p] # receipts[p]
    <3>1. PICK d : Writing(d) /\ receipts' = Stored(d) /\ UNCHANGED <<sheets, drive>>
      BY <2>3, ReceiptsChange
    <3>2. run.path \in Paths
      BY <3>1, RunType DEF Writing
    <3>3. p = run.path /\ receipts'[p] = d
      BY <2>3, <3>1, <3>2 DEF Stored, TypeOK
    <3>4. Honest(d)
      BY <2>1, <3>1, <3>3, WrittenHonest
    <3>. QED
      BY <2>1, <3>1, <3>3, <3>4 DEF Honest, Matched
  <2>. QED
    BY <2>2, <2>3
<1>. QED
  BY <1>3 DEF ReceiptHonest, Honest, Intact

Sound == TypeOK /\ RunInv /\ ReceiptHonest

LEMMA SoundStep == Sound /\ [Next]_vars => Sound'
  BY NextType, NextRunInv, HonestStep DEF Sound

\* What a command knows of its receipt, its plan and its progress is so in
\* every state, and every receipt is honest.
THEOREM AlwaysSound == Spec => []Sound
<1>1. Init => Sound
  <2>1. Init => ReceiptHonest
    BY DEF Init, ReceiptHonest, Intact
  <2>. QED
    BY <2>1, InitType, InitRunInv DEF Sound
<1>. QED
  BY <1>1, SoundStep, PTL DEF Spec

\* A receipt that says stores_deleted is true, and so is its list of deleted
\* files: whatever calls failed, whatever was killed and repeated.
THEOREM ReceiptsAreHonest == Spec => []ReceiptHonest
<1>1. Sound => ReceiptHonest
  BY DEF Sound
<1>. QED
  BY <1>1, AlwaysSound, PTL

-----------------------------------------------------------------------------
(* Rows go after the files they refer to *)

\* A batch leaves no new reference.
LEMMA BatchReferences ==
    ASSUME TypeOK, RunInv, Batching
    PROVE  /\ ReferencedIn(sheets') \subseteq ReferencedIn(sheets)
           /\ \A ids, files : Shared(ids, files)' => Shared(ids, files)
<1>1. \A tab \in IntakeTabs : \A k \in DOMAIN sheets'[tab] : \E i \in DOMAIN sheets[tab] :
         sheets'[tab][k] = sheets[tab][i]
  <2>. SUFFICES ASSUME NEW tab \in IntakeTabs
                PROVE  \A k \in DOMAIN sheets'[tab] : \E i \in DOMAIN sheets[tab] :
                          sheets'[tab][k] = sheets[tab][i]
    OBVIOUS
  <2>1. tab \in Tabs /\ tab # "ops_events"
    BY DEF Tabs, IntakeTabs
  <2>. QED
    BY <2>1, BatchMeaning DEF Descends
<1>2. ReferencedIn(sheets') \subseteq ReferencedIn(sheets)
  BY <1>1 DEF ReferencedIn
<1>3. ASSUME NEW ids, NEW files, Shared(ids, files)' PROVE Shared(ids, files)
  BY <1>1, <1>3 DEF Shared, Matched
<1>. QED
  BY <1>2, <1>3

\* A reference given by hand is to a file that nobody referred to.
LEMMA ReferenceAdds ==
    ASSUME TypeOK, NEW i \in DOMAIN sheets["submissions"], NEW f \in Strays, Reference(i, f)
    PROVE  /\ ReferencedIn(sheets') = ReferencedIn(sheets) \cup {f}
           /\ f \in drive /\ f \notin ReferencedIn(sheets) /\ f \in Files
           /\ \A ids, files : Shared(ids, files)' => Shared(ids, files) \/ f \in files
<1>1. /\ f \in Files /\ f \in drive /\ f \notin ReferencedIn(sheets)
      /\ sheets["submissions"][i].file \notin Files
  BY RetentionAssumption DEF Reference
<1>2. /\ \A tab \in Tabs : tab # "submissions" => sheets'[tab] = sheets[tab]
      /\ sheets'["submissions"] =
            [sheets["submissions"] EXCEPT ![i] = [sub |-> @.sub, file |-> f]]
  BY <1>1, ReferenceRows DEF Reference
<1>3. \A tab \in IntakeTabs : tab \in Tabs /\ DOMAIN sheets'[tab] = DOMAIN sheets[tab]
  BY <1>2 DEF Tabs, IntakeTabs
<1>4. \A tab \in IntakeTabs : \A k \in DOMAIN sheets[tab] :
         /\ sheets'[tab][k].sub = sheets[tab][k].sub
         /\ sheets'[tab][k].file = IF tab = "submissions" /\ k = i THEN f
                                                                  ELSE sheets[tab][k].file
  <2>1. \A k \in DOMAIN sheets["submissions"] :
           /\ sheets'["submissions"][k].sub = sheets["submissions"][k].sub
           /\ sheets'["submissions"][k].file = IF k = i THEN f
                                               ELSE sheets["submissions"][k].file
    BY <1>2
  <2>. QED
    BY <1>2, <1>3, <2>1
<1>5. "submissions" \in IntakeTabs
  BY DEF IntakeTabs
<1>6. ReferencedIn(sheets') = ReferencedIn(sheets) \cup {f}
  <2>1. \A g \in Files : g \in ReferencedIn(sheets') <=>
           \E tab \in IntakeTabs : \E k \in DOMAIN sheets[tab] : sheets'[tab][k].file = g
    BY <1>3 DEF ReferencedIn
  <2>2. \A g \in Files : g \in ReferencedIn(sheets) <=>
           \E tab \in IntakeTabs : \E k \in DOMAIN sheets[tab] : sheets[tab][k].file = g
    BY DEF ReferencedIn
  <2>3. ReferencedIn(sheets') \subseteq Files /\ ReferencedIn(sheets) \subseteq Files
    BY DEF ReferencedIn
  <2>. QED
    BY <1>1, <1>4, <1>5, <2>1, <2>2, <2>3
<1>7. ASSUME NEW ids, NEW files, Shared(ids, files)'
      PROVE  Shared(ids, files) \/ f \in files
  <2>1. PICK tab \in IntakeTabs : \E k \in DOMAIN sheets'[tab] :
           sheets'[tab][k].sub \notin ids /\ sheets'[tab][k].file \in files
    BY <1>7 DEF Shared, Matched
  <2>2. PICK k \in DOMAIN sheets'[tab] :
           sheets'[tab][k].sub \notin ids /\ sheets'[tab][k].file \in files
    BY <2>1
  <2>3. k \in DOMAIN sheets[tab] /\ sheets[tab][k].sub \notin ids
    BY <1>3, <1>4, <2>2
  <2>4. f \in files \/ sheets[tab][k].file \in files
    BY <1>4, <2>2, <2>3
  <2>. QED
    BY <2>3, <2>4 DEF Shared, Matched
<1>. QED
  BY <1>1, <1>6, <1>7

\* When the batch begins, no file of the rows it removes is in the Drive.
LEMMA BatchFilesGone ==
    ASSUME TypeOK, RunInv, Batching, NEW tab \in IntakeTabs,
           NEW i \in DOMAIN sheets[tab], sheets[tab][i].file \in Files \cap drive
    PROVE  \E k \in DOMAIN sheets'[tab] : sheets'[tab][k] = sheets[tab][i]
<1>. DEFINE row == sheets[tab][i]
<1>1. tab \in Tabs /\ tab # "ops_events"
  BY DEF Tabs, IntakeTabs
<1>2. CASE tab \notin run.targets
  BY <1>1, <1>2, BatchMeaning
<1>3. CASE tab \in run.targets
  <2>1. Gathered(run.data.subs, run.targets) \cap Files \subseteq run.data.files
    BY DEF Batching, At, RunInv, PlanStands, Planning
  <2>2. run.data.files \cap drive = {}
    <3>1. run # Idle
      BY <1>1, BatchMeaning
    <3>. QED
      BY <3>1 DEF Batching, Pending, RunInv, FarEnough
  <2>3. row.file \notin Gathered(run.data.subs, run.targets)
    BY <2>1, <2>2
  <2>4. i \notin Matched(tab, run.data.subs)
    BY <1>3, <2>3 DEF Gathered
  <2>5. row.sub \in Subs \ run.data.subs
    <3>1. sheets[tab] \in Seq(IntakeRows)
      BY <1>1, MatchedType DEF RowType
    <3>2. row \in IntakeRows
      BY <3>1
    <3>. QED
      BY <2>4, <3>2 DEF Matched, IntakeRows
  <2>6. SparedInOrder(sheets[tab], sheets'[tab], run.data.subs)
    BY <1>1, BatchMeaning
  <2>7. i \in RowsOf(sheets[tab], row.sub)
    BY DEF RowsOf
  <2>8. \E k \in RowsOf(sheets'[tab], row.sub) : sheets'[tab][k] = sheets[tab][i]
    BY <2>5, <2>6, <2>7, SparedStay
  <2>. QED
    BY <2>8 DEF RowsOf
<1>. QED
  BY <1>2, <1>3

\* No file in the Drive loses its last reference: rows are removed after the
\* files they refer to.
LEMMA FileBeforeRowStep ==
    ASSUME TypeOK, RunInv, [Next]_vars
    PROVE  ReferencedIn(sheets) \cap drive' \subseteq ReferencedIn(sheets')
<1>1. CASE sheets' = sheets
  BY <1>1 DEF ReferencedIn
<1>2. CASE Batching /\ UNCHANGED <<drive, receipts>>
  <2>. SUFFICES ASSUME NEW f \in ReferencedIn(sheets) \cap drive
                PROVE  f \in ReferencedIn(sheets')
    BY <1>2
  <2>1. f \in Files /\ \E tab \in IntakeTabs : \E i \in DOMAIN sheets[tab] :
           sheets[tab][i].file = f
    BY DEF ReferencedIn
  <2>2. PICK tab \in IntakeTabs : \E i \in DOMAIN sheets[tab] : sheets[tab][i].file = f
    BY <2>1
  <2>3. PICK i \in DOMAIN sheets[tab] : sheets[tab][i].file = f
    BY <2>2
  <2>4. PICK k \in DOMAIN sheets'[tab] : sheets'[tab][k] = sheets[tab][i]
    BY <1>2, <2>1, <2>3, BatchFilesGone
  <2>5. sheets'[tab][k].file = f
    BY <2>3, <2>4
  <2>. QED
    BY <2>1, <2>5 DEF ReferencedIn
<1>3. ASSUME NEW i \in DOMAIN sheets["submissions"], NEW f \in Strays, Reference(i, f)
      PROVE  ReferencedIn(sheets) \cap drive' \subseteq ReferencedIn(sheets')
  BY <1>3, ReferenceAdds
<1>. QED
  BY <1>1, <1>2, <1>3, SheetsChange

THEOREM RowsAfterFiles == Spec => FileBeforeRow
<1>1. Sound /\ [Next]_vars =>
         [ReferencedIn(sheets) \cap drive' \subseteq ReferencedIn(sheets')]_vars
  BY FileBeforeRowStep DEF Sound
<1>. QED
  BY <1>1, AlwaysSound, PTL DEF Spec, FileBeforeRow

-----------------------------------------------------------------------------
(* History and scope *)

LEMMA HistoryStep ==
    ASSUME TypeOK, [Next]_vars
    PROVE  LET old == sheets["ops_events"]
               new == sheets'["ops_events"]
           IN  /\ Len(new) = Len(old)
               /\ \A i \in DOMAIN old :
                     \/ new[i] = old[i]
                     \/ /\ new[i].sub = NoSub
                        /\ new[i].action = IF old[i].action \in {"create", "update"}
                                           THEN old[i].action ELSE "anonymized"
<1>. DEFINE old == sheets["ops_events"]
            new == sheets'["ops_events"]
<1>0. "ops_events" \in Tabs
  BY DEF Tabs
<1>1. CASE sheets' = sheets
  BY <1>1
<1>2. CASE Batching
  <2>1. old \in Seq(EventRows)
    BY <1>0, MatchedType DEF RowType, IntakeTabs
  <2>2. run # Idle
    BY <1>2, RunType DEF Batching
  <2>3. /\ run.requests["ops_events"] \in Seq(Nat)
        /\ new = AppliedTo("ops_events", old, run.requests["ops_events"])
    BY <1>0, <1>2, <2>2, AppliedType DEF Batching
  <2>4. Len(new) = Len(old) /\ \A i \in DOMAIN old : new[i] = old[i] \/ new[i] = Minimised(old[i])
    BY <2>1, <2>3, BatchEvents
  <2>5. \A row : /\ Minimised(row).sub = NoSub
                 /\ Minimised(row).action = IF row.action \in {"create", "update"}
                                            THEN row.action ELSE "anonymized"
    BY DEF Minimised
  <2>. HIDE DEF old, new
  <2>6. \A i \in DOMAIN old :
           \/ new[i] = old[i]
           \/ /\ new[i].sub = NoSub
              /\ new[i].action = IF old[i].action \in {"create", "update"}
                                 THEN old[i].action ELSE "anonymized"
    BY <2>4, <2>5
  <2>. QED
    BY <2>4, <2>6 DEF old, new
<1>3. ASSUME NEW i \in DOMAIN sheets["submissions"], NEW f \in Strays, Reference(i, f)
      PROVE  new = old
  BY <1>0, <1>3, ReferenceRows, RetentionAssumption DEF Reference
<1>. QED
  BY <1>1, <1>2, <1>3, SheetsChange

\* Minimising history keeps its counts.
THEOREM HistoryStaysCounted == Spec => HistoryCounted
<1>. DEFINE Kept ==
        LET old == sheets["ops_events"]
            new == sheets'["ops_events"]
        IN  /\ Len(new) = Len(old)
            /\ \A i \in DOMAIN old :
                  \/ new[i] = old[i]
                  \/ /\ new[i].sub = NoSub
                     /\ new[i].action = IF old[i].action \in {"create", "update"}
                                        THEN old[i].action ELSE "anonymized"
<1>1. TypeOK /\ [Next]_vars => Kept
  BY HistoryStep
<1>2. HistoryCounted <=> [][Kept]_vars
  BY DEF HistoryCounted
<1>. HIDE DEF Kept
<1>. QED
  BY <1>1, <1>2, TypeCorrect, PTL DEF Spec

\* Rows of a submission go only in a batch for it, from the tabs of its reason.
LEMMA GoneInBatch ==
    ASSUME TypeOK, RunInv, [Next]_vars, NEW s \in Subs, NEW tab \in Tabs,
           Cardinality(Matched(tab, {s})') < Cardinality(Matched(tab, {s}))
    PROVE  Batching /\ UNCHANGED receipts /\ s \in run.data.subs /\ tab \in run.targets
<1>1. /\ IsFiniteSet(Matched(tab, {s})) /\ Cardinality(Matched(tab, {s})) \in Nat
      /\ Matched(tab, {s}) = RowsOf(sheets[tab], s)
      /\ Matched(tab, {s})' = RowsOf(sheets'[tab], s)
  <2>1. IsFiniteSet(Matched(tab, {s})) /\ Cardinality(Matched(tab, {s})) \in Nat
    BY MatchedType, PositionsFinite
  <2>. QED
    BY <2>1 DEF Matched, RowsOf
<1>2. Matched(tab, {s})' # Matched(tab, {s})
  BY <1>1
<1>3. CASE sheets' = sheets
  BY <1>2, <1>3 DEF Matched
<1>4. ASSUME NEW i \in DOMAIN sheets["submissions"], NEW f \in Strays, Reference(i, f)
      PROVE  FALSE
  <2>1. /\ tab # "submissions" => sheets'[tab] = sheets[tab]
        /\ sheets'["submissions"] =
              [sheets["submissions"] EXCEPT ![i] = [sub |-> @.sub, file |-> f]]
    BY <1>4, ReferenceRows, RetentionAssumption DEF Reference
  <2>2. DOMAIN sheets'[tab] = DOMAIN sheets[tab] /\ \A k \in DOMAIN sheets[tab] :
           sheets'[tab][k].sub = sheets[tab][k].sub
    BY <2>1
  <2>. QED
    BY <1>2, <2>2 DEF Matched
<1>5. CASE Batching /\ UNCHANGED <<drive, receipts>>
  <2>1. tab \in run.targets
    BY <1>2, <1>5, BatchMeaning DEF Matched
  <2>2. SparedInOrder(sheets[tab], sheets'[tab], run.data.subs)
    BY <1>5, BatchMeaning
  <2>3. s \notin run.data.subs =>
           Cardinality(RowsOf(sheets'[tab], s)) = Cardinality(RowsOf(sheets[tab], s))
    BY <1>1, <2>2, SparedStay
  <2>. QED
    BY <1>1, <1>5, <2>1, <2>3
<1>. QED
  BY <1>3, <1>4, <1>5, SheetsChange

LEMMA ScopeStep ==
    ASSUME TypeOK, RunInv, [Next]_vars, NEW s \in Subs
    PROVE  LET gone(tab) == Cardinality(Matched(tab, {s})') < Cardinality(Matched(tab, {s}))
               r == receipts[run.path]
               roots == {sheets["ops"][i] : i \in Matched("ops", {s})}
           IN  /\ gone("ops") =>
                     \/ r.reason = "volunteer_deletion"
                     \/ /\ r.reason = "coordination_expiry"
                        /\ \A row \in roots : row.state = "ended" /\ row.ended <= r.cutoff
               /\ gone("submissions") \/ gone("parser_jobs") \/ gone("derived") =>
                     \/ r.reason = "volunteer_deletion"
                     \/ /\ r.reason = "source_expiry"
                        /\ \A row \in roots : row.state \in {"active", "ended"}
<1>. DEFINE Gone(tab) == Cardinality(Matched(tab, {s})') < Cardinality(Matched(tab, {s}))
            r == receipts[run.path]
            roots == {sheets["ops"][i] : i \in Matched("ops", {s})}
<1>1. /\ "ops" \in Tabs /\ "submissions" \in Tabs /\ "parser_jobs" \in Tabs
      /\ "derived" \in Tabs
  BY DEF Tabs, IntakeTabs
<1>2. ASSUME NEW tab \in Tabs, Gone(tab)
      PROVE  /\ Authorised(s, run.data) /\ tab \in Targets(r.reason)
             /\ r.reason = run.data.reason /\ r.cutoff = run.data.cutoff /\ r.reason \in Reasons
  <2>1. Batching /\ s \in run.data.subs /\ tab \in run.targets
    BY <1>2, GoneInBatch
  <2>2. run # Idle /\ run.data \in Receipts
    BY <1>1, <2>1, BatchMeaning
  <2>3. SameScope(r, run.data)
    BY <2>1 DEF Batching, At, RunInv, ReceiptKnown
  <2>4. Authorised(s, run.data) /\ run.targets = Targets(run.data.reason)
    BY <2>1, <2>2 DEF Batching, At, RunInv, PlanStands, Planning, FarEnough
  <2>5. run.data.reason \in Reasons
    BY <2>2 DEF Receipts
  <2>. QED
    BY <2>1, <2>3, <2>4, <2>5 DEF SameScope
<1>3. ASSUME Gone("ops")
      PROVE  \/ r.reason = "volunteer_deletion"
             \/ /\ r.reason = "coordination_expiry"
                /\ \A row \in roots : row.state = "ended" /\ row.ended <= r.cutoff
  <2>1. /\ Authorised(s, run.data) /\ "ops" \in Targets(r.reason)
        /\ r.reason = run.data.reason /\ r.cutoff = run.data.cutoff /\ r.reason \in Reasons
    BY <1>1, <1>2, <1>3
  <2>2. r.reason # "source_expiry"
    BY <2>1 DEF Targets, IntakeTabs
  <2>. QED
    BY <2>1, <2>2 DEF Authorised, Reasons
<1>4. ASSUME NEW tab \in {"submissions", "parser_jobs", "derived"}, Gone(tab)
      PROVE  \/ r.reason = "volunteer_deletion"
             \/ /\ r.reason = "source_expiry"
                /\ \A row \in roots : row.state \in {"active", "ended"}
  <2>1. /\ Authorised(s, run.data) /\ tab \in Targets(r.reason)
        /\ r.reason = run.data.reason /\ r.reason \in Reasons
    BY <1>1, <1>2, <1>4
  <2>2. r.reason # "coordination_expiry"
    BY <2>1 DEF Targets, IntakeTabs
  <2>. QED
    BY <2>1, <2>2 DEF Authorised, Reasons
<1>. QED
  BY <1>3, <1>4

\* What is removed was authorised by the receipt as first written: no retry
\* turns an expiry into a wider deletion.
THEOREM ScopeIsKept == Spec => ScopeKept
<1>. DEFINE Kept == \A s \in Subs :
        LET gone(tab) == Cardinality(Matched(tab, {s})') < Cardinality(Matched(tab, {s}))
            r == receipts[run.path]
            roots == {sheets["ops"][i] : i \in Matched("ops", {s})}
        IN  /\ gone("ops") =>
                  \/ r.reason = "volunteer_deletion"
                  \/ /\ r.reason = "coordination_expiry"
                     /\ \A row \in roots : row.state = "ended" /\ row.ended <= r.cutoff
            /\ gone("submissions") \/ gone("parser_jobs") \/ gone("derived") =>
                  \/ r.reason = "volunteer_deletion"
                  \/ /\ r.reason = "source_expiry"
                     /\ \A row \in roots : row.state \in {"active", "ended"}
<1>1. Sound /\ [Next]_vars => Kept
  BY ScopeStep DEF Sound
<1>2. ScopeKept <=> [][Kept]_vars
  BY DEF ScopeKept
<1>. HIDE DEF Kept
<1>. QED
  BY <1>1, <1>2, AlwaysSound, PTL DEF Spec

-----------------------------------------------------------------------------
(* Files belong to one operation *)

\* Only the beginning of a command leads to the creation of its receipt.
LEMMA CreateOnlyBegun ==
    ASSUME TypeOK, [Next]_vars, run'.pc = "create"
    PROVE  run' = run \/ \E c \in Commands : Begin(c)
<1>1. Idle.pc # "create"
  BY DEF Idle
<1>2. CASE Call
  <2>1. CASE Close
    BY <1>1, <2>1 DEF Close, Save
  <2>2. CASE Create
    <3>1. run \in Running
      BY <2>2, RunType DEF Create
    <3>2. [run EXCEPT !.pc = "mark"].pc = "mark"
      BY <3>1, GotoType
    <3>. QED
      BY <1>1, <2>2, <3>2 DEF Create
  <2>3. CASE Mark
    <3>1. run \in Running /\ InState("deleting") \in Receipts
      BY <2>3, RunType, InStateType DEF Mark
    <3>2. [run EXCEPT !.pc = "drive", !.data = InState("deleting")].pc = "drive"
      BY <3>1, MovedType
    <3>. QED
      BY <2>3, <3>2 DEF Mark, Save
  <2>4. CASE DeleteFile
    <3>1. run \in Running /\ NextFile \in Files
      BY <2>4, RunType, NextFilePending DEF DeleteFile
    <3>2. run'.pc = "progress"
      BY <2>4, <3>1, CompletedType DEF DeleteFile
    <3>. QED
      BY <3>2
  <2>5. CASE Progress
    <3>1. run \in Running
      BY <2>5, RunType DEF Progress
    <3>2. [run EXCEPT !.pc = "drive"].pc = "drive"
      BY <3>1, GotoType
    <3>. QED
      BY <2>5, <3>2 DEF Progress, Save
  <2>6. CASE Batch
    <3>1. run \in Running
      BY <2>6, RunType DEF Batch
    <3>2. [run EXCEPT !.pc = "verify"].pc = "verify"
      BY <3>1, GotoType
    <3>. QED
      BY <2>6, <3>2 DEF Batch
  <2>7. CASE Verify
    <3>1. run \in Running
      BY <2>7, RunType DEF Verify
    <3>2. [run EXCEPT !.pc = "close"].pc = "close"
      BY <3>1, GotoType
    <3>. QED
      BY <1>1, <2>7, <3>2 DEF Verify
  <2>. QED
    BY <1>2, <2>1, <2>2, <2>3, <2>4, <2>5, <2>6, <2>7 DEF Call
<1>3. CASE Failure
  <2>1. run' = Idle
    BY <1>3 DEF Failure, CreateFails, MarkFails, DriveFails, ProgressFails, BatchFails,
       VerifyFails, CloseFails, Crash, SaveFails, Failing
  <2>. QED
    BY <1>1, <2>1
<1>. QED
  BY <1>2, <1>3 DEF Next, Reference, vars

LEMMA OwnedStays ==
    ASSUME TypeOK, RunInv, [Next]_vars, NEW r, Owned(r)
    PROVE  Owned(r)'
<1>. SUFFICES ASSUME NEW f \in r.files \cap drive'
              PROVE  f \in ReferencedIn(sheets') /\ ~Shared(r.subs, {f})'
  BY DEF Owned
<1>1. drive' \subseteq drive
  BY DriveChange DEF Deleting
<1>2. f \in ReferencedIn(sheets) /\ ~Shared(r.subs, {f})
  BY <1>1 DEF Owned
<1>3. f \in ReferencedIn(sheets')
  BY <1>2, FileBeforeRowStep
<1>4. CASE sheets' = sheets
  BY <1>2, <1>3, <1>4 DEF Shared, Matched
<1>5. CASE Batching
  BY <1>2, <1>3, <1>5, BatchReferences
<1>6. ASSUME NEW i \in DOMAIN sheets["submissions"], NEW g \in Strays, Reference(i, g)
      PROVE  ~Shared(r.subs, {f})'
  BY <1>2, <1>6, ReferenceAdds
<1>. QED
  BY <1>3, <1>4, <1>5, <1>6, SheetsChange

LEMMA WrittenOwned ==
    ASSUME TypeOK, RunInv, OwnedInv, NEW d \in Receipts, Writing(d)
    PROVE  Owned(d)
<1>1. d # Torn
  BY RetentionAssumption
<1>2. CASE At("create")
  BY <1>1, <1>2 DEF Writing, At, OwnedInv
<1>3. CASE ~At("create")
  <2>0. run.data \in Receipts /\ run.path \in Paths
    BY RunType DEF Writing
  <2>1. d.subs = run.data.subs /\ d.files = run.data.files
    BY <1>3, <2>0, InStateType DEF Writing
  <2>2. Intact(run.path) /\ SameScope(receipts[run.path], run.data)
    BY <1>3 DEF Writing, At, RunInv, ReceiptKnown
  <2>. QED
    BY <2>0, <2>1, <2>2 DEF OwnedInv, IntactPaths, SameScope, Owned
<1>. QED
  BY <1>2, <1>3

\* The files of a new receipt are those of the rows that it is for, alone.
LEMMA BegunOwned ==
    ASSUME NEW c \in Commands, Begin(c), run'.pc = "create"
    PROVE  Owned(run.data)'
<1>. DEFINE files == Gathered(c.ids, Targets(c.reason)) \cap Files
            known == receipts[c.path]
<1>1. /\ UNCHANGED <<sheets, drive>> /\ ~Shared(c.ids, files)
      /\ run'.pc = (IF known = None THEN "create" ELSE "mark")
      /\ run'.data = (IF known = None THEN NewReceipt(c, files) ELSE known)
  BY DEF Begin
<1>2. files \subseteq ReferencedIn(sheets)
  BY GatheredReferenced
<1>. HIDE DEF files
<1>3. run'.data.files = files /\ run'.data.subs = c.ids
  BY <1>1 DEF NewReceipt
<1>. QED
  BY <1>1, <1>2, <1>3 DEF Owned, Shared, Matched

LEMMA OwnedStep ==
    ASSUME TypeOK, RunInv, OwnedInv, [Next]_vars
    PROVE  OwnedInv'
<1>1. TypeOK'
  BY NextType
<1>2. \A r : Owned(r) => Owned(r)'
  BY OwnedStays
<1>3. ASSUME NEW p \in Paths, Intact(p)'
      PROVE  Owned(receipts[p])'
  <2>1. CASE receipts'[p] = receipts[p]
    <3>1. Owned(receipts[p])
      BY <1>3, <2>1 DEF OwnedInv, IntactPaths, Intact
    <3>. QED
      BY <1>2, <2>1, <3>1 DEF Owned, Shared, Matched
  <2>2. CASE receipts'[p] # receipts[p]
    <3>1. PICK d : Writing(d) /\ receipts' = Stored(d) /\ UNCHANGED <<sheets, drive>>
      BY <2>2, ReceiptsChange
    <3>2. run.path \in Paths
      BY <3>1, RunType DEF Writing
    <3>3. p = run.path /\ receipts'[p] = d
      BY <2>2, <3>1, <3>2 DEF Stored, TypeOK
    <3>4. d \in Receipts
      BY <1>1, <1>3, <3>3 DEF TypeOK, Intact
    <3>5. Owned(d)
      BY <3>1, <3>4, WrittenOwned
    <3>. QED
      BY <3>1, <3>3, <3>5 DEF Owned, Shared, Matched
  <2>. QED
    BY <2>1, <2>2
<1>4. ASSUME run'.pc = "create"
      PROVE  Owned(run.data)'
  <2>1. CASE run' = run
    <3>1. Owned(run.data)
      BY <1>4, <2>1 DEF OwnedInv
    <3>. QED
      BY <1>2, <2>1, <3>1 DEF Owned, Shared, Matched
  <2>2. CASE run' # run
    BY <1>4, <2>2, CreateOnlyBegun, BegunOwned
  <2>. QED
    BY <2>1, <2>2
<1>. QED
  BY <1>3, <1>4 DEF OwnedInv, IntactPaths, Intact

\* Submissions that were not selected keep their rows, in their order, and
\* their files.
LEMMA OthersStep ==
    ASSUME TypeOK, RunInv, OwnedInv, [Next]_vars, run # Idle
    PROVE  /\ \A tab \in Tabs : SparedInOrder(sheets[tab], sheets'[tab], run.data.subs)
           /\ ~Shared(run.data.subs, drive \ drive')
<1>1. ASSUME NEW tab \in Tabs
      PROVE  SparedInOrder(sheets[tab], sheets'[tab], run.data.subs)
  <2>1. CASE sheets' = sheets
    BY <2>1, SparedSame
  <2>2. CASE Batching
    BY <2>2, BatchMeaning
  <2>. QED
    BY <2>1, <2>2, SheetsChange DEF Reference
<1>2. CASE drive' = drive
  BY <1>1, <1>2 DEF Shared
<1>3. CASE Deleting
  <2>1. run.data \in Receipts /\ run.path \in Paths
    BY <1>3, RunType DEF Deleting
  <2>2. NextFile \in run.data.files
    BY <1>3, <2>1, NextFilePending DEF Deleting, Pending
  <2>3. Intact(run.path) /\ SameScope(receipts[run.path], run.data)
    BY <1>3 DEF Deleting, At, RunInv, ReceiptKnown
  <2>4. Owned(receipts[run.path])
    BY <2>1, <2>3 DEF OwnedInv, IntactPaths
  <2>5. NextFile \in drive => ~Shared(run.data.subs, {NextFile})
    BY <2>2, <2>3, <2>4 DEF Owned, SameScope
  <2>. HIDE DEF NextFile
  <2>6. drive \ drive' \subseteq {NextFile} \cap drive
    BY <1>3 DEF Deleting
  <2>. QED
    BY <1>1, <2>5, <2>6 DEF Shared
<1>. QED
  BY <1>1, <1>2, <1>3, DriveChange

THEOREM AlwaysOwned == Spec => []OwnedInv
<1>1. Init => OwnedInv
  BY DEF Init, Idle, OwnedInv, IntactPaths, Intact
<1>2. Sound /\ OwnedInv /\ [Next]_vars => OwnedInv'
  BY OwnedStep DEF Sound
<1>. QED
  BY <1>1, <1>2, AlwaysSound, PTL DEF Spec

\* No command removes a row of a submission it was not for, nor a file that
\* such a row refers to.
THEOREM OthersAreUntouched == Spec => OthersUntouched
<1>. DEFINE Kept == run # Idle =>
        /\ \A tab \in Tabs : SparedInOrder(sheets[tab], sheets'[tab], run.data.subs)
        /\ ~Shared(run.data.subs, drive \ drive')
<1>1. Sound /\ OwnedInv /\ [Next]_vars => Kept
  BY OthersStep DEF Sound
<1>2. OthersUntouched <=> [][Kept]_vars
  BY DEF OthersUntouched
<1>. HIDE DEF Kept
<1>. QED
  BY <1>1, <1>2, AlwaysSound, AlwaysOwned, PTL DEF Spec

-----------------------------------------------------------------------------
(* What is gone is accounted for *)

Accounted(f) == f \in Told \/ \E p \in IntactPaths : f = NextOf(receipts[p])

LEMMA InitLoss == Init => LossInv
<1>. SUFFICES ASSUME Init PROVE LossInv
  OBVIOUS
<1>1. IntactPaths = {}
  BY DEF Init, IntactPaths, Intact
<1>2. Listed = {}
  BY <1>1 DEF Listed
<1>3. IsFiniteSet(IntactPaths)
  BY <1>1, FS_EmptySet
<1>4. ReferencedIn(sheets) \ drive = {}
  BY DEF Init
<1>. QED
  BY <1>2, <1>3, <1>4 DEF LossInv

\* The paths that are intact, their files and what they tell depend on the
\* receipts alone.
LEMMA SameReceipts ==
    ASSUME receipts' = receipts
    PROVE  /\ IntactPaths' = IntactPaths /\ Listed' = Listed /\ Told' = Told
           /\ \A f : Accounted(f)' <=> Accounted(f)
<1>1. IntactPaths' = IntactPaths
  BY DEF IntactPaths, Intact
<1>2. Listed' = Listed /\ Told' = Told
  BY <1>1 DEF Listed, Told
<1>. QED
  BY <1>1, <1>2 DEF Accounted, NextOf, Least

\* A step that writes no receipt.
LEMMA LossSameReceipts ==
    ASSUME TypeOK, RunInv, LossInv, [Next]_vars, receipts' = receipts
    PROVE  LossInv'
<1>1. /\ IntactPaths' = IntactPaths /\ Listed' = Listed
      /\ \A f : Accounted(f)' <=> Accounted(f)
  BY SameReceipts
<1>2. /\ IsFiniteSet(IntactPaths) /\ ReferencedIn(sheets) \ drive \subseteq Listed
      /\ \A f \in Listed \ drive : Accounted(f)
  BY DEF LossInv, Accounted
<1>3. ReferencedIn(sheets') \ drive \subseteq Listed
  <2>1. CASE sheets' = sheets
    BY <1>2, <2>1 DEF ReferencedIn
  <2>2. CASE Batching
    BY <1>2, <2>2, BatchReferences
  <2>3. ASSUME NEW i \in DOMAIN sheets["submissions"], NEW f \in Strays, Reference(i, f)
        PROVE  ReferencedIn(sheets') \ drive \subseteq Listed
    BY <1>2, <2>3, ReferenceAdds
  <2>. QED
    BY <2>1, <2>2, <2>3, SheetsChange
<1>4. \A f \in drive \ drive' : f \in Listed /\ Accounted(f)
  <2>1. CASE Deleting
    <3>1. run.data \in Receipts /\ run.path \in Paths
      BY <2>1, RunType DEF Deleting
    <3>2. NextFile \in run.data.files
      BY <2>1, <3>1, NextFilePending DEF Deleting, Pending
    <3>3. /\ Intact(run.path) /\ SameScope(receipts[run.path], run.data)
          /\ NextOf(receipts[run.path]) = NextFile
      BY <2>1, NextFileOfReceipt DEF Deleting
    <3>4. NextFile \in Listed /\ Accounted(NextFile)
      BY <3>1, <3>2, <3>3 DEF Listed, IntactPaths, SameScope, Accounted
    <3>. HIDE DEF NextFile
    <3>. QED
      BY <2>1, <3>4 DEF Deleting
  <2>. QED
    BY <2>1, DriveChange
<1>5. ReferencedIn(sheets') \ drive' \subseteq Listed
  BY <1>3, <1>4
<1>6. \A f \in Listed \ drive' : Accounted(f)
  BY <1>2, <1>4
<1>. QED
  BY <1>1, <1>2, <1>5, <1>6 DEF LossInv, Accounted

\* A step that writes one.
LEMMA LossWritten ==
    ASSUME TypeOK, TypeOK', RunInv, LossInv, NEW d, Writing(d), receipts' = Stored(d),
           UNCHANGED <<sheets, drive>>
    PROVE  LossInv'
<1>1. run \in Running /\ run.path \in Paths /\ run.data \in Receipts
  BY RunType DEF Writing
<1>2. receipts'[run.path] = d /\ \A p \in Paths \ {run.path} : receipts'[p] = receipts[p]
  BY <1>1 DEF Stored, TypeOK
<1>3. \A p \in Paths \ {run.path} : Intact(p)' <=> Intact(p)
  BY <1>2 DEF Intact
<1>4. IsFiniteSet(IntactPaths')
  <2>1. IsFiniteSet(IntactPaths \cup {run.path})
    BY FS_AddElement DEF LossInv
  <2>2. IntactPaths' \subseteq IntactPaths \cup {run.path}
    BY <1>3 DEF IntactPaths
  <2>. QED
    BY <2>1, <2>2, FS_Subset
<1>5. ReferencedIn(sheets') = ReferencedIn(sheets)
  OBVIOUS
<1>6. CASE At("create")
  <2>1. /\ ~Intact(run.path) /\ run.data.files \subseteq ReferencedIn(sheets)
        /\ d \in {Torn, run.data}
    BY <1>6, RetentionAssumption DEF At, RunInv, ReceiptKnown, Intact, Writing
  <2>2. \A p \in IntactPaths : p \in IntactPaths' /\ receipts'[p] = receipts[p]
    BY <1>2, <1>3, <2>1 DEF IntactPaths
  <2>3. \A p \in IntactPaths' : p \in IntactPaths \/ receipts'[p].files \subseteq ReferencedIn(sheets)
    BY <1>2, <1>3, <2>1 DEF IntactPaths, Intact
  <2>4. Listed \subseteq Listed' /\ Told \subseteq Told'
    BY <2>2 DEF Listed, Told
  <2>5. Listed' \subseteq Listed \cup ReferencedIn(sheets)
    BY <2>2, <2>3 DEF Listed
  <2>6. \A f : Accounted(f) => Accounted(f)'
    BY <2>2, <2>4 DEF Accounted, NextOf, Least
  <2>. QED
    BY <1>4, <1>5, <2>4, <2>5, <2>6 DEF LossInv, Accounted
<1>7. CASE ~At("create")
  <2>. DEFINE known == receipts[run.path]
  <2>1. Intact(run.path) /\ SameScope(known, run.data)
    BY <1>7 DEF Writing, At, RunInv, ReceiptKnown
  <2>2. /\ d \in Receipts /\ d.files = known.files
        /\ d.deleted = known.deleted \/ d.deleted = known.deleted \cup {NextOf(known)}
    <3>1. d \in Receipts /\ d.files = run.data.files /\ d.deleted = run.data.deleted
      BY <1>1, <1>7, InStateType DEF Writing
    <3>2. \/ run.data.deleted = known.deleted
          \/ run.data.deleted = known.deleted \cup {NextOf(known)}
      BY <1>7 DEF Writing, At, RunInv, ReceiptKnown
    <3>. QED
      BY <2>1, <3>1, <3>2 DEF SameScope
  <2>3. run.path \in IntactPaths /\ IntactPaths' = IntactPaths
    BY <1>1, <1>2, <1>3, <2>1, <2>2, RetentionAssumption DEF IntactPaths, Intact
  <2>4. \A p \in IntactPaths : /\ receipts'[p].files = receipts[p].files
                              /\ receipts[p].deleted \subseteq receipts'[p].deleted
    BY <1>2, <2>2, <2>3 DEF IntactPaths
  <2>5. Listed' = Listed /\ Told \subseteq Told'
    BY <2>3, <2>4 DEF Listed, Told
  <2>6. ASSUME NEW f, Accounted(f) PROVE Accounted(f)'
    <3>1. CASE f \in Told
      BY <2>5, <3>1 DEF Accounted
    <3>2. ASSUME NEW p \in IntactPaths, f = NextOf(receipts[p]) PROVE Accounted(f)'
      <4>1. CASE receipts'[p] = receipts[p]
        <5>1. NextOf(receipts[p])' = NextOf(receipts[p])
          BY <4>1 DEF NextOf, Least
        <5>. QED
          BY <2>3, <3>2, <5>1 DEF Accounted
      <4>2. CASE p = run.path /\ d.deleted = known.deleted
        <5>1. NextOf(receipts[p])' = NextOf(receipts[p])
          BY <1>2, <2>2, <4>2 DEF NextOf, Least
        <5>. QED
          BY <2>3, <3>2, <5>1 DEF Accounted
      <4>3. CASE p = run.path /\ d.deleted = known.deleted \cup {NextOf(known)}
        <5>1. f \in receipts'[p].deleted
          BY <1>2, <3>2, <4>3
        <5>. QED
          BY <2>3, <5>1 DEF Accounted, Told
      <4>. QED
        BY <1>2, <2>2, <4>1, <4>2, <4>3 DEF IntactPaths
    <3>. QED
      BY <2>6, <3>1, <3>2 DEF Accounted
  <2>. QED
    BY <1>4, <1>5, <2>5, <2>6 DEF LossInv, Accounted
<1>. QED
  BY <1>6, <1>7

LEMMA LossStep == Sound /\ LossInv /\ [Next]_vars => LossInv'
<1>. SUFFICES ASSUME Sound, LossInv, [Next]_vars PROVE LossInv'
  OBVIOUS
<1>1. TypeOK /\ TypeOK' /\ RunInv
  BY NextType DEF Sound
<1>. QED
  BY <1>1, ReceiptsChange, LossSameReceipts, LossWritten

LEMMA AtMostOnePerOperation == LossInv => OneUnaccounted
<1>. SUFFICES ASSUME LossInv PROVE OneUnaccounted
  OBVIOUS
<1>. DEFINE lost == (Listed \ drive) \ Told
            next == [p \in IntactPaths |-> NextOf(receipts[p])]
            image == {next[p] : p \in IntactPaths}
<1>1. IsFiniteSet(IntactPaths) /\ lost \subseteq image
  BY DEF LossInv
<1>2. next \in Surjection(IntactPaths, image)
  <2>. HIDE DEF NextOf
  <2>. QED
    BY DEF Surjection
<1>3. IsFiniteSet(image) /\ Cardinality(image) <= Cardinality(IntactPaths)
  <2>. HIDE DEF image, next
  <2>. QED
    BY <1>1, <1>2, FS_Surjection
<1>4. IsFiniteSet(lost) /\ Cardinality(lost) <= Cardinality(image)
  <2>. HIDE DEF image, lost
  <2>. QED
    BY <1>1, <1>3, FS_Subset
<1>5. Cardinality(lost) <= Cardinality(IntactPaths)
  <2>1. /\ Cardinality(lost) \in Nat /\ Cardinality(image) \in Nat
        /\ Cardinality(IntactPaths) \in Nat
    BY <1>1, <1>3, <1>4, FS_CardinalityType
  <2>. HIDE DEF image, lost
  <2>. QED
    BY <1>3, <1>4, <2>1
<1>. QED
  BY <1>5 DEF OneUnaccounted, Listed, Told, IntactPaths

\* Each operation leaves at most one file that is gone without any receipt
\* accounting for it.
THEOREM OneIsUnaccounted == Spec => []OneUnaccounted
<1>1. Spec => []LossInv
  BY InitLoss, LossStep, AlwaysSound, PTL DEF Spec
<1>. QED
  BY <1>1, AtMostOnePerOperation, PTL
=============================================================================
