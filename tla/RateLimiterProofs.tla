------------------------- MODULE RateLimiterProofs -------------------------
(***************************************************************************)
(* For every limit, window and number of senders: the limiter's counters   *)
(* keep their types, it decides by the accepted requests of each window    *)
(* alone, and Retry-After keeps its word.                                  *)
(***************************************************************************)
EXTENDS RateLimiter, FiniteSetTheorems, FunctionTheorems, SequenceTheorems,
        WellFoundedInduction, TLAPS

-----------------------------------------------------------------------------
(* Keys, ages and counts *)

LEMMA KeyType ==
    ASSUME config \in Configurations, NEW k \in Keys
    PROVE  /\ k[1] \in {"ip", "email", "global"} /\ Limit(k[1]) \in Nat
           /\ Window(k[1]) \in Nat \ {0} /\ Longest \in Nat \ {0}
           /\ Window(k[1]) <= Longest
<1>1. k[1] \in {"ip", "email", "global"}
  BY DEF Keys
<1>2. config \in [enabled : BOOLEAN, ip : Nat, email : Nat, global : Nat]
  BY LimiterAssumption
<1>3. Limit(k[1]) \in Nat
  BY <1>1, <1>2 DEF Limit
<1>4. /\ Minute * Second \in Nat \ {0} /\ Hour * Second \in Nat \ {0}
      /\ Minute * Second <= Hour * Second
  BY LimiterAssumption
<1>5. Window(k[1]) \in {Minute * Second, Hour * Second} /\ Longest = Hour * Second
  BY DEF Window, WindowSeconds, Longest
<1>. QED
  BY <1>1, <1>3, <1>4, <1>5

LEMMA LeastMember ==
    ASSUME NEW T, T \subseteq Nat, T # {}
    PROVE  \E i \in T : \A k \in T : i <= k
<1>. DEFINE Less == {pair \in Nat \X Nat : pair[1] < pair[2]}
<1>1. IsWellFoundedOn(Less, Nat)
  BY NatLessThanWellFounded, Zenon DEF OpToRel
<1>2. PICK i \in T : \A k \in T : <<k, i>> \notin Less
  <2>. HIDE DEF Less
  <2>. QED
    BY <1>1, WFMin
<1>3. \A k \in T : ~(k < i)
  BY <1>2
<1>. QED
  BY <1>3

\* The loop of _check_rule stops, before an age that is still in the window.
LEMMA ExpiredStops ==
    ASSUME NEW ages \in Seq(Nat), NEW window \in Nat
    PROVE  LET n == Expired(ages, window)
           IN  /\ n \in 0..Len(ages)
               /\ \A i \in 1..n : ages[i] >= window
               /\ n < Len(ages) => ages[n + 1] < window
<1>. DEFINE Stops == {n \in 0..Len(ages) : n < Len(ages) => ages[n + 1] < window}
<1>1. Len(ages) \in Stops
  OBVIOUS
<1>2. PICK n \in Stops : \A k \in Stops : n <= k
  <2>1. Stops \subseteq Nat /\ Stops # {}
    BY <1>1
  <2>. HIDE DEF Stops
  <2>. QED
    BY <2>1, LeastMember
<1>3. \A i \in 1..n : ages[i] >= window
  <2>. SUFFICES ASSUME NEW i \in 1..n PROVE ages[i] >= window
    OBVIOUS
  <2>0. n \in 0..Len(ages) /\ Len(ages) \in Nat
    OBVIOUS
  <2>1. i - 1 \notin Stops /\ i - 1 \in 0..Len(ages) /\ i \in 1..Len(ages)
    <3>1. i - 1 \in 0..Len(ages) /\ i \in 1..Len(ages) /\ ~(n <= i - 1)
      BY <2>0
    <3>. HIDE DEF Stops
    <3>. QED
      BY <1>2, <3>1
  <2>2. (i - 1) + 1 = i /\ ages[i] \in Nat
    BY <2>1
  <2>. QED
    BY <2>1, <2>2
<1>4. \E m \in 0..Len(ages) : /\ \A i \in 1..m : ages[i] >= window
                              /\ m < Len(ages) => ages[m + 1] < window
  BY <1>2, <1>3
<1>. QED
  BY <1>4 DEF Expired

LEMMA PositionsCount ==
    ASSUME NEW N \in Nat
    PROVE  IsFiniteSet(1..N) /\ Cardinality(1..N) = N
  BY FS_Interval

\* One more position is one more to count.
LEMMA AppendCount ==
    ASSUME NEW N \in Nat, NEW T \in SUBSET (1..N)
    PROVE  Cardinality(T) \in Nat /\ Cardinality(T \cup {N + 1}) = Cardinality(T) + 1
<1>1. IsFiniteSet(T)
  <2>1. IsFiniteSet(1..N)
    BY PositionsCount
  <2>. QED
    BY <2>1, FS_Subset
<1>2. N + 1 \notin T
  OBVIOUS
<1>3. Cardinality(T) \in Nat
  BY <1>1, FS_CardinalityType
<1>. QED
  BY <1>1, <1>2, <1>3, FS_AddElement

\* Dropping a prefix moves what is counted behind it, and loses nothing.
LEMMA ShiftCount ==
    ASSUME NEW N \in Nat, NEW n \in 0..N, NEW T \in SUBSET ((n + 1)..N)
    PROVE  LET U == {i \in 1..(N - n) : i + n \in T}
           IN  /\ IsFiniteSet(T) /\ IsFiniteSet(U)
               /\ Cardinality(U) \in Nat /\ Cardinality(U) = Cardinality(T)
<1>. DEFINE U == {i \in 1..(N - n) : i + n \in T}
            f == [i \in U |-> i + n]
<1>1. IsFiniteSet(U)
  <2>1. IsFiniteSet(1..(N - n))
    BY FS_Interval
  <2>2. U \in SUBSET (1..(N - n))
    OBVIOUS
  <2>. QED
    BY <2>1, <2>2, FS_Subset
<1>2. f \in Bijection(U, T)
  <2>1. \A j \in T : j - n \in U /\ f[j - n] = j
    OBVIOUS
  <2>2. \A i, j \in U : f[i] = f[j] => i = j
    OBVIOUS
  <2>3. f \in [U -> T]
    OBVIOUS
  <2>. HIDE DEF f, U
  <2>. QED
    BY <2>1, <2>2, <2>3 DEF Bijection, Injection, IsInjective, Surjection
<1>3. IsFiniteSet(T) /\ Cardinality(U) = Cardinality(T)
  <2>. HIDE DEF f, U
  <2>. QED
    BY <1>1, <1>2, FS_Bijection DEF ExistsBijection
<1>4. Cardinality(U) \in Nat
  BY <1>1, FS_CardinalityType
<1>. QED
  BY <1>1, <1>3, <1>4

LEMMA AgesType ==
    ASSUME NEW L \in Nat, NEW ages \in Seq(0..L)
    PROVE  /\ DOMAIN ages = 1..Len(ages) /\ Len(ages) \in Nat
           /\ \A i \in DOMAIN ages : ages[i] \in Nat /\ ages[i] <= L
<1>1. DOMAIN ages = 1..Len(ages) /\ Len(ages) \in Nat
  OBVIOUS
<1>2. \A i \in DOMAIN ages : ages[i] \in 0..L
  BY <1>1
<1>. QED
  BY <1>1, <1>2

Below(ages, w) == {i \in DOMAIN ages : ages[i] < w}

LEMMA BelowFinite ==
    ASSUME NEW ages \in Seq(Nat), NEW w
    PROVE  /\ IsFiniteSet(Below(ages, w)) /\ Cardinality(Below(ages, w)) \in Nat
           /\ Cardinality(Below(ages, w)) <= Len(ages)
<1>0. Len(ages) \in Nat
  OBVIOUS
<1>1. IsFiniteSet(1..Len(ages)) /\ Cardinality(1..Len(ages)) = Len(ages)
  BY <1>0, PositionsCount
<1>2. Below(ages, w) \in SUBSET (1..Len(ages))
  BY DEF Below
<1>3. IsFiniteSet(Below(ages, w)) /\ Cardinality(Below(ages, w)) <= Len(ages)
  BY <1>1, <1>2, FS_Subset
<1>. QED
  BY <1>3, FS_CardinalityType

Sorted(ages) == \A i, m \in DOMAIN ages : i < m => ages[i] >= ages[m]

\* What the loop leaves: every age in the window, and no other if they are sorted.
LEMMA UnexpiredAges ==
    ASSUME NEW L \in Nat, NEW ages \in Seq(0..L), NEW window \in Nat
    PROVE  /\ Unexpired(ages, window) \in Seq(0..L) /\ Len(Unexpired(ages, window)) <= Len(ages)
           /\ Sorted(ages) => /\ Sorted(Unexpired(ages, window))
                              /\ \A i \in DOMAIN Unexpired(ages, window) :
                                    Unexpired(ages, window)[i] < window
           /\ \A w \in 0..window :
                 Cardinality(Below(Unexpired(ages, window), w)) = Cardinality(Below(ages, w))
<1>. DEFINE n == Expired(ages, window)
            kept == Unexpired(ages, window)
<1>0. ages \in Seq(Nat) /\ Len(ages) \in Nat /\ \A i \in 1..Len(ages) : ages[i] \in 0..L
  OBVIOUS
<1>1. /\ n \in 0..Len(ages) /\ \A i \in 1..n : ages[i] >= window
      /\ n < Len(ages) => ages[n + 1] < window
  BY <1>0, ExpiredStops
<1>. HIDE DEF n
<1>2. /\ kept \in Seq(0..L) /\ Len(kept) = Len(ages) - n
      /\ \A i \in 1..(Len(ages) - n) : kept[i] = ages[i + n]
  <2>1. kept = SubSeq(ages, n + 1, Len(ages))
    BY DEF Unexpired, n
  <2>. QED
    BY <1>0, <1>1, <2>1
<1>. HIDE DEF kept
<1>3. DOMAIN kept = 1..(Len(ages) - n)
  BY <1>2
<1>4. ASSUME Sorted(ages) PROVE Sorted(kept) /\ \A i \in DOMAIN kept : kept[i] < window
  <2>1. Sorted(kept)
    <3>. SUFFICES ASSUME NEW i \in DOMAIN kept, NEW m \in DOMAIN kept, i < m
                  PROVE  kept[i] >= kept[m]
      BY DEF Sorted
    <3>0. /\ n \in 0..Len(ages) /\ DOMAIN ages = 1..Len(ages)
          /\ i \in 1..(Len(ages) - n) /\ m \in 1..(Len(ages) - n)
      BY <1>0, <1>1, <1>3
    <3>1. i + n \in DOMAIN ages /\ m + n \in DOMAIN ages /\ i + n < m + n
      BY <1>0, <3>0
    <3>2. ages[i + n] >= ages[m + n]
      BY <1>4, <3>1 DEF Sorted
    <3>. QED
      BY <1>2, <1>3, <3>2
  <2>2. ASSUME NEW i \in DOMAIN kept PROVE kept[i] < window
    <3>1. n < Len(ages) /\ n + 1 \in DOMAIN ages /\ i + n \in DOMAIN ages /\ n + 1 <= i + n
      BY <1>0, <1>1, <1>3
    <3>2. ages[i + n] <= ages[n + 1] /\ ages[n + 1] \in Nat /\ ages[i + n] \in Nat
      BY <1>0, <1>4, <3>1 DEF Sorted
    <3>3. ages[n + 1] < window
      BY <1>1, <3>1
    <3>. QED
      BY <1>2, <1>3, <3>2, <3>3
  <2>. QED
    BY <2>1, <2>2
<1>5. ASSUME NEW w \in 0..window
      PROVE  Cardinality(Below(kept, w)) = Cardinality(Below(ages, w))
  <2>. DEFINE T == Below(ages, w)
              U == {i \in 1..(Len(ages) - n) : i + n \in T}
  <2>1. T \in SUBSET ((n + 1)..Len(ages))
    <3>. SUFFICES ASSUME NEW i \in 1..Len(ages), ages[i] < w PROVE i \in (n + 1)..Len(ages)
      BY DEF Below
    <3>1. i \notin 1..n
      BY <1>0, <1>1
    <3>. QED
      BY <1>1, <3>1
  <2>2. Cardinality(U) = Cardinality(T)
    <3>1. Len(ages) \in Nat /\ n \in 0..Len(ages)
      BY <1>0, <1>1
    <3>. HIDE DEF T
    <3>. QED
      BY <2>1, <3>1, ShiftCount, Zenon
  <2>3. U = Below(kept, w)
    <3>1. \A i \in 1..(Len(ages) - n) : i + n \in DOMAIN ages
      BY <1>0, <1>1
    <3>. QED
      BY <1>2, <1>3, <3>1 DEF Below
  <2>. QED
    BY <2>2, <2>3
<1>. QED
  BY <1>0, <1>1, <1>2, <1>4, <1>5 DEF kept

-----------------------------------------------------------------------------
(* The invariant *)

\* The accepted requests of a key that are younger than w.
Counted(k, w) == {i \in DOMAIN log : Concerns(log[i], k) /\ log[i].age < w}

Accepting == [from : Addresses, email : Emails, age : Nat]

\* For every age within its window, a key that is limited has as many younger
\* times in its deque as there are younger requests that were accepted.
Tallied == \A k \in Keys : Limited(k) =>
    \A w \in 0..Window(k[1]) : Cardinality(Below(events[k], w)) = Cardinality(Counted(k, w))

IInv == LimiterTypeOK /\ log \in Seq(Accepting) /\ Tallied

LEMMA InitInv == Init => IInv
<1>. SUFFICES ASSUME Init PROVE IInv
  OBVIOUS
<1>1. config \in Configurations /\ log = <<>> /\ \A k \in Keys : events[k] = <<>>
  BY DEF Init
<1>2. \A k \in Keys : 0 <= IF Limited(k) THEN Limit(k[1]) ELSE 0
  BY <1>1, KeyType
<1>3. LimiterTypeOK
  <2>1. /\ <<>> \in Seq(0..Longest) /\ Len(<<>>) = 0
        /\ \A i, m \in DOMAIN <<>> : i < m => <<>>[i] >= <<>>[m]
    OBVIOUS
  <2>. QED
    BY <1>1, <1>2, <2>1, Zenon DEF LimiterTypeOK
<1>4. ASSUME NEW k \in Keys, NEW w
      PROVE  Below(events[k], w) = Counted(k, w)
  BY <1>1 DEF Below, Counted
<1>. QED
  BY <1>1, <1>3, <1>4 DEF IInv, Tallied

LEMMA RestartInv == Restart => IInv'
<1>. SUFFICES ASSUME Restart PROVE IInv'
  OBVIOUS
<1>1. config' \in Configurations /\ log' = <<>> /\ \A k \in Keys : events'[k] = <<>>
  BY DEF Restart
<1>2. \A k \in Keys : Limit(k[1])' \in Nat
  <2>. SUFFICES ASSUME NEW k \in Keys PROVE Limit(k[1])' \in Nat
    OBVIOUS
  <2>1. k[1] \in {"ip", "email", "global"}
    BY DEF Keys
  <2>2. config' \in [enabled : BOOLEAN, ip : Nat, email : Nat, global : Nat]
    BY <1>1, LimiterAssumption
  <2>. QED
    BY <2>1, <2>2 DEF Limit
<1>3. LimiterTypeOK'
  <2>1. /\ <<>> \in Seq(0..Longest) /\ Len(<<>>) = 0
        /\ \A i, m \in DOMAIN <<>> : i < m => <<>>[i] >= <<>>[m]
    OBVIOUS
  <2>2. \A k \in Keys : 0 <= IF Limited(k)' THEN Limit(k[1])' ELSE 0
    BY <1>2
  <2>. QED
    BY <1>1, <2>1, <2>2, Zenon DEF LimiterTypeOK
<1>4. ASSUME NEW k \in Keys, NEW w
      PROVE  Below(events'[k], w) = Counted(k, w)'
  BY <1>1 DEF Below, Counted
<1>. QED
  BY <1>1, <1>3, <1>4 DEF IInv, Tallied

\* What is known of one key, from the types.
LEMMA DequeType ==
    ASSUME LimiterTypeOK, NEW k \in Keys
    PROVE  /\ Longest \in Nat /\ Window(k[1]) \in Nat \ {0} /\ Window(k[1]) <= Longest
           /\ Limit(k[1]) \in Nat
           /\ events[k] \in Seq(0..Longest) /\ Sorted(events[k])
           /\ DOMAIN events[k] = 1..Len(events[k]) /\ Len(events[k]) \in Nat
           /\ \A i \in DOMAIN events[k] : events[k][i] \in Nat /\ events[k][i] <= Longest
           /\ Len(events[k]) <= (IF Limited(k) THEN Limit(k[1]) ELSE 0)
           /\ Fresh(k) \in Seq(0..Longest) /\ Sorted(Fresh(k))
           /\ Len(Fresh(k)) <= Len(events[k])
           /\ \A i \in DOMAIN Fresh(k) : Fresh(k)[i] < Window(k[1])
           /\ \A w \in 0..Window(k[1]) :
                 Cardinality(Below(Fresh(k), w)) = Cardinality(Below(events[k], w))
<1>1. config \in Configurations
  BY DEF LimiterTypeOK
<1>2. /\ Longest \in Nat /\ Window(k[1]) \in Nat \ {0} /\ Window(k[1]) <= Longest
      /\ Limit(k[1]) \in Nat
  BY <1>1, KeyType
<1>3. /\ events[k] \in Seq(0..Longest) /\ Sorted(events[k])
      /\ Len(events[k]) <= (IF Limited(k) THEN Limit(k[1]) ELSE 0)
  BY DEF LimiterTypeOK, Sorted
<1>. DEFINE ages == events[k]
            window == Window(k[1])
<1>4. /\ Unexpired(ages, window) \in Seq(0..Longest)
      /\ Len(Unexpired(ages, window)) <= Len(ages)
      /\ Sorted(Unexpired(ages, window))
      /\ \A i \in DOMAIN Unexpired(ages, window) : Unexpired(ages, window)[i] < window
      /\ \A w \in 0..window :
            Cardinality(Below(Unexpired(ages, window), w)) = Cardinality(Below(ages, w))
  <2>. HIDE DEF ages, window
  <2>1. ages \in Seq(0..Longest) /\ window \in Nat /\ Longest \in Nat /\ Sorted(ages)
    BY <1>2, <1>3 DEF ages, window
  <2>. QED
    BY <2>1, UnexpiredAges
<1>5. /\ DOMAIN ages = 1..Len(ages) /\ Len(ages) \in Nat
      /\ \A i \in DOMAIN ages : ages[i] \in Nat /\ ages[i] <= Longest
  <2>. HIDE DEF ages
  <2>1. ages \in Seq(0..Longest)
    BY <1>3 DEF ages
  <2>. QED
    BY <1>2, <2>1, AgesType
<1>. QED
  BY <1>2, <1>3, <1>4, <1>5 DEF Fresh

-----------------------------------------------------------------------------
(* The clock *)

\* What a tick makes of a stored time.
Aged(age) == IF age < Longest THEN age + 1 ELSE Longest

\* A tick keeps the order of two ages, and moves an age across a bound if it
\* was across the one before.
LEMMA AgedOrder ==
    ASSUME Longest \in Nat, NEW a \in 0..Longest
    PROVE  /\ Aged(a) \in 0..Longest
           /\ \A b \in 0..Longest : a >= b => Aged(a) >= Aged(b)
           /\ \A w \in 1..Longest : Aged(a) < w <=> a < w - 1
  BY DEF Aged

LEMMA TickInv == IInv /\ Tick => IInv'
<1>. SUFFICES ASSUME IInv, Tick PROVE IInv'
  OBVIOUS
<1>1. /\ LimiterTypeOK /\ log \in Seq(Accepting) /\ config' = config
      /\ config \in Configurations /\ Longest \in Nat
  <2>1. LimiterTypeOK /\ log \in Seq(Accepting) /\ config' = config
    BY DEF IInv, Tick
  <2>2. Longest \in Nat
    BY LimiterAssumption DEF Longest
  <2>. QED
    BY <2>1, <2>2 DEF LimiterTypeOK
<1>2. ASSUME NEW k \in Keys
      PROVE  /\ DOMAIN events'[k] = DOMAIN events[k] /\ events'[k] \in Seq(0..Longest)
             /\ Len(events'[k]) = Len(events[k])
             /\ \A i \in DOMAIN events[k] : events'[k][i] = Aged(events[k][i])
  <2>1. events[k] \in Seq(0..Longest)
    BY <1>1, DequeType
  <2>2. events'[k] = [i \in DOMAIN events[k] |-> Aged(events[k][i])]
    BY DEF Tick, Aged
  <2>. DEFINE ages == events[k]
              aged == events'[k]
  <2>3. /\ DOMAIN aged = DOMAIN ages
        /\ \A i \in DOMAIN ages : aged[i] = Aged(ages[i])
    BY <2>2
  <2>4. /\ DOMAIN ages = 1..Len(ages) /\ Len(ages) \in Nat
        /\ \A i \in DOMAIN ages : ages[i] \in 0..Longest
    BY <1>1, DequeType
  <2>5. aged = [i \in 1..Len(ages) |-> aged[i]]
    BY <2>2, <2>4
  <2>6. \A i \in 1..Len(ages) : aged[i] \in 0..Longest
    BY <1>1, <2>3, <2>4, AgedOrder
  <2>. HIDE DEF ages, aged
  <2>7. aged \in Seq(0..Longest) /\ Len(aged) = Len(ages)
    BY <2>4, <2>5, <2>6
  <2>. QED
    BY <2>3, <2>7 DEF ages, aged
<1>3. LimiterTypeOK'
  <2>1. \A k \in Keys : Limited(k)' = Limited(k) /\ Limit(k[1])' = Limit(k[1])
    BY <1>1 DEF Limited, Limit
  <2>2. ASSUME NEW k \in Keys, NEW i \in DOMAIN events'[k], NEW m \in DOMAIN events'[k], i < m
        PROVE  events'[k][i] >= events'[k][m]
    <3>1. /\ i \in DOMAIN events[k] /\ m \in DOMAIN events[k]
          /\ events[k] \in Seq(0..Longest)
      BY <1>1, <1>2, DequeType
    <3>2. events[k][i] >= events[k][m]
      BY <1>1, <2>2, <3>1, DequeType DEF Sorted
    <3>3. events[k][i] \in 0..Longest /\ events[k][m] \in 0..Longest
      BY <1>1, <3>1, DequeType
    <3>4. Aged(events[k][i]) >= Aged(events[k][m])
      BY <1>1, <3>2, <3>3, AgedOrder
    <3>5. events'[k][i] = Aged(events[k][i]) /\ events'[k][m] = Aged(events[k][m])
      BY <1>2, <3>1
    <3>. QED
      BY <3>4, <3>5
  <2>. QED
    BY <1>1, <1>2, <2>1, <2>2 DEF LimiterTypeOK
<1>. DEFINE ages == [i \in DOMAIN log |-> log[i].age + 1]
            older == [i \in DOMAIN log |-> [log[i] EXCEPT !.age = @ + 1]]
            n == Expired(ages, Longest)
            N == Len(log)
<1>4. N \in Nat /\ DOMAIN log = 1..N /\ \A i \in 1..N : log[i] \in Accepting
  BY <1>1
<1>5. \A i \in 1..N : /\ older[i] \in Accepting /\ older[i].from = log[i].from
                      /\ older[i].email = log[i].email /\ older[i].age = log[i].age + 1
                      /\ ages[i] = log[i].age + 1 /\ ages[i] \in Nat
  <2>1. \A r \in Accepting : LET o == [r EXCEPT !.age = @ + 1]
                             IN  /\ o \in Accepting /\ o.from = r.from /\ o.email = r.email
                                 /\ o.age = r.age + 1 /\ r.age + 1 \in Nat
    BY DEF Accepting
  <2>. QED
    BY <1>4, <2>1
<1>6. older \in Seq(Accepting) /\ Len(older) = N /\ ages \in Seq(Nat) /\ Len(ages) = N
  <2>1. older = [i \in 1..N |-> older[i]] /\ ages = [i \in 1..N |-> ages[i]]
    BY <1>4
  <2>. HIDE DEF older, ages
  <2>. QED
    BY <1>4, <1>5, <2>1
<1>7. n \in 0..N /\ \A i \in 1..n : ages[i] >= Longest
  <2>. HIDE DEF ages
  <2>. QED
    BY <1>1, <1>6, ExpiredStops
<1>8. log' = SubSeq(older, n + 1, N)
  BY <1>6 DEF Tick
<1>. HIDE DEF n, ages, older
<1>9. /\ log' \in Seq(Accepting) /\ DOMAIN log' = 1..(N - n)
      /\ \A i \in 1..(N - n) : log'[i] = older[i + n]
  BY <1>4, <1>6, <1>7, <1>8
<1>10. ASSUME NEW k \in Keys, Limited(k), NEW w \in 0..Window(k[1])
       PROVE  Cardinality(Below(events'[k], w)) = Cardinality(Counted(k, w)')
  <2>1. w \in Nat /\ w <= Longest
    BY <1>1, DequeType
  <2>2. \A i \in DOMAIN events[k] :
           /\ events[k][i] \in 0..Longest /\ Aged(events[k][i]) \in 0..Longest
           /\ events'[k][i] = Aged(events[k][i])
    <3>1. \A i \in DOMAIN events[k] : events[k][i] \in 0..Longest
      BY <1>1, DequeType
    <3>2. \A i \in DOMAIN events[k] : Aged(events[k][i]) \in 0..Longest
      BY <1>1, <3>1, AgedOrder
    <3>. QED
      BY <1>2, <3>1, <3>2
  <2>3. CASE w = 0
    <3>1. Below(events'[k], w) = {}
      <4>1. \A i \in DOMAIN events'[k] : ~(events'[k][i] < w)
        <5>1. \A i \in DOMAIN events'[k] : events'[k][i] \in Nat
          BY <1>2, <2>2
        <5>. QED
          BY <2>3, <5>1
      <4>. QED
        BY <4>1 DEF Below
    <3>2. Counted(k, w)' = {}
      <4>1. ASSUME NEW i \in DOMAIN log' PROVE log'[i].age \in Nat
        <5>1. i \in 1..(N - n) /\ i + n \in 1..N
          BY <1>4, <1>7, <1>9
        <5>. QED
          BY <1>5, <1>9, <5>1 DEF Accepting
      <4>. QED
        BY <2>3, <4>1 DEF Counted
    <3>. QED
      BY <3>1, <3>2
  <2>4. CASE w # 0
    <3>. DEFINE v == w - 1
                T == Counted(k, v)
    <3>1. v \in 0..Window(k[1])
      BY <1>1, <2>4, DequeType
    <3>2. Cardinality(Below(events[k], v)) = Cardinality(T)
      BY <1>10, <3>1 DEF IInv, Tallied
    <3>3. Below(events'[k], w) = Below(events[k], v)
      <4>1. \A i \in DOMAIN events[k] : events'[k][i] < w <=> events[k][i] < v
        <5>1. w \in 1..Longest
          BY <1>1, <2>1, <2>4
        <5>. QED
          BY <1>1, <2>2, <5>1, AgedOrder
      <4>. QED
        BY <1>2, <4>1 DEF Below
    <3>4. T \in SUBSET ((n + 1)..N)
      <4>. SUFFICES ASSUME NEW i \in 1..N, log[i].age < v PROVE i \in (n + 1)..N
        BY <1>4 DEF Counted
      <4>1. log[i].age \in Nat
        BY <1>4 DEF Accepting
      <4>2. i \notin 1..n
        BY <1>1, <1>5, <1>7, <2>1, <4>1
      <4>. QED
        BY <1>4, <1>7, <4>2
    <3>5. Counted(k, w)' = {i \in 1..(N - n) : i + n \in T}
      <4>1. ASSUME NEW i \in 1..(N - n)
            PROVE  Concerns(log'[i], k) /\ log'[i].age < w <=> i + n \in T
        <5>1. i + n \in 1..N
          BY <1>4, <1>7
        <5>2. /\ log'[i].from = log[i + n].from /\ log'[i].email = log[i + n].email
              /\ log'[i].age = log[i + n].age + 1 /\ log[i + n].age \in Nat
          BY <1>4, <1>5, <1>9, <5>1 DEF Accepting
        <5>3. Concerns(log'[i], k) <=> Concerns(log[i + n], k)
          BY <5>2 DEF Concerns
        <5>4. log'[i].age < w <=> log[i + n].age < v
          BY <2>1, <5>2
        <5>. QED
          BY <1>4, <5>1, <5>3, <5>4 DEF Counted
      <4>. HIDE DEF T
      <4>. QED
        BY <1>9, <4>1 DEF Counted
    <3>6. Cardinality({i \in 1..(N - n) : i + n \in T}) = Cardinality(T)
      <4>. HIDE DEF T, N
      <4>. QED
        BY <1>4, <1>7, <3>4, ShiftCount, Zenon
    <3>. QED
      BY <3>2, <3>3, <3>5, <3>6
  <2>. QED
    BY <2>3, <2>4
<1>11. Tallied'
  BY <1>1, <1>10 DEF Tallied, Limited, Limit
<1>. QED
  BY <1>3, <1>9, <1>11 DEF IInv

-----------------------------------------------------------------------------
(* A request *)

LEMMA RulesType ==
    ASSUME NEW ip \in Addresses, NEW email \in Emails
    PROVE  LET rules == Rules(ip, email)
           IN  /\ DOMAIN rules = 1..3 /\ Len(rules) = 3
               /\ \A i \in 1..3 : rules[i] \in Keys
               /\ rules[1] = <<"ip", ip>> /\ rules[2] = <<"email", email>>
               /\ rules[3] = <<"global", "all">>
  BY DEF Rules, Keys

\* The rule that denies is the first that is full.
LEMMA DenyingFirst ==
    ASSUME NEW ip \in Addresses, NEW email \in Emails
    PROVE  LET rules == Rules(ip, email)
           IN  \/ Denying(rules) = 0 /\ \A i \in 1..3 : ~Full(rules[i])
               \/ /\ Denying(rules) \in 1..3 /\ Full(rules[Denying(rules)])
                  /\ \A i \in 1..(Denying(rules) - 1) : ~Full(rules[i])
<1>. DEFINE rules == Rules(ip, email)
            Fulls == {i \in 1..3 : Full(rules[i])}
<1>1. DOMAIN rules = 1..3
  BY RulesType
<1>. HIDE DEF rules
<1>2. CASE Fulls = {}
  BY <1>1, <1>2 DEF Denying, rules
<1>3. CASE Fulls # {}
  <2>1. PICK i \in Fulls : \A j \in Fulls : i <= j
    <3>1. Fulls \subseteq Nat
      OBVIOUS
    <3>. HIDE DEF Fulls
    <3>. QED
      BY <1>3, <3>1, LeastMember
  <2>2. i \in 1..3 /\ Full(rules[i]) /\ \A j \in 1..(i - 1) : ~Full(rules[j])
    <3>1. i \in 1..3 /\ Full(rules[i])
      OBVIOUS
    <3>2. ASSUME NEW j \in 1..(i - 1), Full(rules[j]) PROVE FALSE
      <4>1. j \in Fulls /\ ~(i <= j)
        BY <3>1, <3>2
      <4>. QED
        BY <2>1, <4>1
    <3>. QED
      BY <3>1, <3>2
  <2>3. \E d \in DOMAIN rules : Full(rules[d]) /\ \A j \in 1..(d - 1) : ~Full(rules[j])
    BY <1>1, <2>2
  <2>4. \E d \in DOMAIN rules : Full(rules[d])
    BY <2>3
  <2>5. Denying(rules) = CHOOSE d \in DOMAIN rules :
           Full(rules[d]) /\ \A j \in 1..d-1 : ~Full(rules[j])
    BY <2>4 DEF Denying
  <2>. HIDE DEF Fulls
  <2>6. /\ Denying(rules) \in 1..3 /\ Full(rules[Denying(rules)])
        /\ \A j \in 1..(Denying(rules) - 1) : ~Full(rules[j])
    BY <1>1, <2>3, <2>5
  <2>. QED
    BY <2>6 DEF rules
<1>. QED
  BY <1>2, <1>3

\* What a request does to one key.
LEMMA ChargedKey ==
    ASSUME NEW ip \in Addresses, NEW email \in Emails, NEW k \in Keys
    PROVE  LET rules == Rules(ip, email)
               new == Charged(rules)[k]
           IN  /\ ~(Limit(k[1]) > 0) => new = events[k]
               /\ Limit(k[1]) > 0 /\ Denying(rules) = 0 /\ (\E i \in 1..3 : rules[i] = k) =>
                     new = Append(Fresh(k), 0) /\ ~Full(k)
               /\ Denying(rules) # 0 \/ ~(\E i \in 1..3 : rules[i] = k) =>
                     new = events[k] \/ new = Fresh(k)
<1>. DEFINE rules == Rules(ip, email)
            last == IF Denying(rules) = 0 THEN Len(rules) ELSE Denying(rules)
<1>1. Len(rules) = 3
  BY RulesType
<1>2. \/ Denying(rules) = 0 /\ \A i \in 1..3 : ~Full(rules[i])
      \/ Denying(rules) \in 1..3
  BY DenyingFirst
<1>. HIDE DEF rules
<1>3. last \in 1..3
  BY <1>1, <1>2
<1>4. Charged(rules)[k] =
         IF Limit(k[1]) > 0 /\ \E i \in 1..last : rules[i] = k
         THEN IF Denying(rules) = 0 THEN Append(Fresh(k), 0) ELSE Fresh(k)
         ELSE events[k]
  BY DEF Charged
<1>5. Denying(rules) = 0 => last = 3
  BY <1>1
<1>6. (\E i \in 1..last : rules[i] = k) => \E i \in 1..3 : rules[i] = k
  BY <1>3
<1>. HIDE DEF last
<1>. QED
  BY <1>2, <1>4, <1>5, <1>6 DEF rules

\* A time is recorded: it is the youngest.
LEMMA RecordedAges ==
    ASSUME NEW L \in Nat, NEW ages \in Seq(0..L), Sorted(ages)
    PROVE  LET new == Append(ages, 0)
           IN  /\ new \in Seq(0..L) /\ Len(new) = Len(ages) + 1 /\ Sorted(new)
               /\ \A w \in Nat : Cardinality(Below(new, w)) =
                     IF w = 0 THEN Cardinality(Below(ages, w))
                     ELSE Cardinality(Below(ages, w)) + 1
<1>. DEFINE new == Append(ages, 0)
            N == Len(ages)
<1>1. /\ N \in Nat /\ DOMAIN ages = 1..N
      /\ \A i \in 1..N : ages[i] \in Nat /\ ages[i] <= L
  BY AgesType
<1>2. new \in Seq(0..L) /\ Len(new) = N + 1
  OBVIOUS
<1>3. DOMAIN new = 1..(N + 1) /\ new[N + 1] = 0 /\ \A i \in 1..N : new[i] = ages[i]
  BY <1>1, <1>2
<1>. HIDE DEF new, N
<1>4. Sorted(new)
  <2>. SUFFICES ASSUME NEW i \in 1..(N + 1), NEW m \in 1..(N + 1), i < m
                PROVE  new[i] >= new[m]
    BY <1>3 DEF Sorted
  <2>1. i \in 1..N
    BY <1>1
  <2>2. CASE m = N + 1
    BY <1>1, <1>3, <2>1, <2>2
  <2>3. CASE m # N + 1
    <3>1. m \in 1..N
      BY <1>1, <2>3
    <3>. QED
      BY <1>1, <1>3, <2>1, <3>1 DEF Sorted
  <2>. QED
    BY <2>2, <2>3
<1>5. ASSUME NEW w \in Nat
      PROVE  Cardinality(Below(new, w)) = IF w = 0 THEN Cardinality(Below(ages, w))
                                          ELSE Cardinality(Below(ages, w)) + 1
  <2>1. CASE w = 0
    <3>1. Below(new, w) = {} /\ Below(ages, w) = {}
      <4>1. \A i \in 1..N : ~(ages[i] < w)
        BY <1>1, <2>1
      <4>2. \A i \in 1..(N + 1) : ~(new[i] < w)
        BY <1>1, <1>3, <2>1, <4>1
      <4>. QED
        BY <1>1, <1>3, <4>1, <4>2 DEF Below
    <3>. QED
      BY <2>1, <3>1
  <2>2. CASE w # 0
    <3>1. Below(ages, w) \in SUBSET (1..N)
      BY <1>1 DEF Below
    <3>2. Below(new, w) = Below(ages, w) \cup {N + 1}
      BY <1>1, <1>3, <2>2 DEF Below
    <3>3. Cardinality(Below(ages, w) \cup {N + 1}) = Cardinality(Below(ages, w)) + 1
      BY <1>1, <3>1, AppendCount
    <3>. QED
      BY <2>2, <3>2, <3>3
  <2>. QED
    BY <2>1, <2>2
<1>. QED
  BY <1>2, <1>4, <1>5 DEF new, N

\* An accepted request is recorded for the keys that it concerns, and no other.
LEMMA RulesConcern ==
    ASSUME NEW ip \in Addresses, NEW email \in Emails, NEW k \in Keys,
           NEW r, r.from = ip, r.email = email
    PROVE  Concerns(r, k) <=> \E i \in 1..3 : Rules(ip, email)[i] = k
<1>. DEFINE rules == Rules(ip, email)
<1>1. /\ rules[1] = <<"ip", ip>> /\ rules[2] = <<"email", email>>
      /\ rules[3] = <<"global", "all">>
  BY RulesType
<1>. HIDE DEF rules
<1>2. (\E i \in 1..3 : rules[i] = k) <=> rules[1] = k \/ rules[2] = k \/ rules[3] = k
  OBVIOUS
<1>3. CASE k \in {"ip"} \X Addresses
  BY <1>1, <1>2, <1>3 DEF Concerns, rules
<1>4. CASE k \in {"email"} \X Emails
  BY <1>1, <1>2, <1>4 DEF Concerns, rules
<1>5. CASE k = <<"global", "all">>
  BY <1>1, <1>2, <1>5 DEF Concerns, rules
<1>. QED
  BY <1>3, <1>4, <1>5 DEF Keys

LEMMA RequestInv ==
    ASSUME IInv, NEW peer \in Addresses, NEW header \in Clients \cup {NoHeader},
           NEW email \in Emails, Request(peer, header, email)
    PROVE  IInv'
<1>. DEFINE ip == ClientIp(peer, header)
            rules == Rules(ip, email)
            from == IF peer \in Clients \/ header = NoHeader THEN peer ELSE header
            r == [from |-> from, email |-> email, age |-> 0]
            passed == ~(config.enabled /\ Denying(rules) # 0)
<1>1. ip \in Addresses /\ from = ip
  BY LimiterAssumption DEF ClientIp, Addresses
<1>2. /\ events' = (IF config.enabled THEN Charged(rules) ELSE events)
      /\ log' = (IF passed THEN Append(log, r) ELSE log) /\ config' = config
  BY DEF Request
<1>3. LimiterTypeOK /\ log \in Seq(Accepting) /\ config \in Configurations
  BY DEF IInv, LimiterTypeOK
<1>4. r \in Accepting /\ r.from = ip /\ r.email = email /\ r.age = 0
  BY <1>1 DEF Accepting
<1>. HIDE DEF ip, from, r
<1>5. log' \in Seq(Accepting)
  BY <1>2, <1>3, <1>4
\* One key, before and after.
<1>6. ASSUME NEW k \in Keys
      PROVE  /\ events'[k] \in Seq(0..Longest) /\ Sorted(events'[k])
             /\ Len(events'[k]) <= IF Limited(k) THEN Limit(k[1]) ELSE 0
             /\ Limited(k) => \A w \in 0..Window(k[1]) :
                   Cardinality(Below(events'[k], w)) =
                      IF passed /\ Concerns(r, k) /\ w # 0
                      THEN Cardinality(Below(events[k], w)) + 1
                      ELSE Cardinality(Below(events[k], w))
  <2>0. /\ Longest \in Nat /\ Window(k[1]) \in Nat \ {0} /\ Limit(k[1]) \in Nat
        /\ events[k] \in Seq(0..Longest) /\ Sorted(events[k]) /\ Len(events[k]) \in Nat
        /\ Len(events[k]) <= (IF Limited(k) THEN Limit(k[1]) ELSE 0)
        /\ Fresh(k) \in Seq(0..Longest) /\ Sorted(Fresh(k))
        /\ Len(Fresh(k)) <= Len(events[k])
        /\ \A w \in 0..Window(k[1]) :
              Cardinality(Below(Fresh(k), w)) = Cardinality(Below(events[k], w))
    BY <1>3, DequeType
  <2>1. Concerns(r, k) <=> \E i \in 1..3 : rules[i] = k
    BY <1>1, <1>4, RulesConcern
  <2>2. CASE ~config.enabled
    BY <1>2, <2>0, <2>2 DEF Limited
  <2>3. CASE config.enabled
    <3>1. events'[k] = Charged(rules)[k]
      BY <1>2, <2>3
    <3>2. /\ ~(Limit(k[1]) > 0) => events'[k] = events[k]
          /\ Limit(k[1]) > 0 /\ Denying(rules) = 0 /\ (\E i \in 1..3 : rules[i] = k) =>
                events'[k] = Append(Fresh(k), 0) /\ ~Full(k)
          /\ Denying(rules) # 0 \/ ~(\E i \in 1..3 : rules[i] = k) =>
                events'[k] = events[k] \/ events'[k] = Fresh(k)
      BY <1>1, <3>1, ChargedKey
    <3>3. CASE ~Limited(k)
      BY <2>0, <2>3, <3>2, <3>3 DEF Limited
    <3>4. CASE Limited(k) /\ passed /\ Concerns(r, k)
      <4>1. events'[k] = Append(Fresh(k), 0) /\ ~Full(k) /\ Limit(k[1]) > 0
        BY <2>1, <2>3, <3>2, <3>4 DEF Limited
      <4>2. Len(Fresh(k)) < Limit(k[1]) /\ Len(Fresh(k)) \in Nat
        BY <2>0, <4>1 DEF Full
      <4>. DEFINE fresh == Fresh(k)
      <4>. HIDE DEF fresh
      <4>3. fresh = Fresh(k)
        BY DEF fresh
      <4>4. /\ Append(fresh, 0) \in Seq(0..Longest) /\ Len(Append(fresh, 0)) = Len(fresh) + 1
            /\ Sorted(Append(fresh, 0))
            /\ \A w \in Nat : Cardinality(Below(Append(fresh, 0), w)) =
                  IF w = 0 THEN Cardinality(Below(fresh, w))
                  ELSE Cardinality(Below(fresh, w)) + 1
        BY <2>0, <4>3, RecordedAges
      <4>5. Len(events'[k]) <= Limit(k[1])
        BY <2>0, <4>1, <4>2, <4>3, <4>4
      <4>6. \A w \in 0..Window(k[1]) : w \in Nat
        BY <2>0
      <4>. QED
        BY <2>0, <3>4, <4>1, <4>3, <4>4, <4>5, <4>6
    <3>5. CASE Limited(k) /\ ~(passed /\ Concerns(r, k))
      <4>1. events'[k] = events[k] \/ events'[k] = Fresh(k)
        BY <2>1, <2>3, <3>2, <3>5
      <4>2. Len(Fresh(k)) \in Nat
        BY <2>0
      <4>3. /\ events'[k] \in Seq(0..Longest) /\ Sorted(events'[k])
            /\ Len(events'[k]) <= Limit(k[1])
        BY <2>0, <3>5, <4>1, <4>2
      <4>4. \A w \in 0..Window(k[1]) :
               Cardinality(Below(events'[k], w)) = Cardinality(Below(events[k], w))
        BY <2>0, <4>1
      <4>. HIDE DEF passed
      <4>. QED
        BY <3>5, <4>3, <4>4
    <3>. QED
      BY <3>3, <3>4, <3>5
  <2>. QED
    BY <2>2, <2>3
<1>7. \A k \in Keys : (Limited(k)' <=> Limited(k)) /\ Limit(k[1])' = Limit(k[1])
  BY <1>2 DEF Limited, Limit
<1>8. LimiterTypeOK'
  <2>1. \A k \in Keys : /\ events'[k] \in Seq(0..Longest) /\ Sorted(events'[k])
                        /\ Len(events'[k]) <= IF Limited(k)' THEN Limit(k[1])' ELSE 0
    BY <1>6, <1>7
  <2>. QED
    BY <1>2, <1>3, <2>1, Zenon DEF LimiterTypeOK, Sorted
\* The accepted requests of one key, before and after.
<1>9. ASSUME NEW k \in Keys, NEW w \in Nat
      PROVE  Cardinality(Counted(k, w)') = IF passed /\ Concerns(r, k) /\ w # 0
                                           THEN Cardinality(Counted(k, w)) + 1
                                           ELSE Cardinality(Counted(k, w))
  <2>. DEFINE N == Len(log)
  <2>0. N \in Nat /\ DOMAIN log = 1..N
    BY <1>3
  <2>1. CASE ~passed
    BY <1>2, <2>1 DEF Counted
  <2>2. CASE passed
    <3>1. /\ DOMAIN log' = 1..(N + 1) /\ log'[N + 1] = r
          /\ \A i \in 1..N : log'[i] = log[i]
      BY <1>2, <1>3, <1>4, <2>0, <2>2
    <3>2. Counted(k, w) \in SUBSET (1..N)
      BY <2>0 DEF Counted
    <3>3. Counted(k, w)' = {i \in 1..(N + 1) : Concerns(log'[i], k) /\ log'[i].age < w}
      BY <3>1 DEF Counted
    <3>. HIDE DEF N, passed
    <3>4. CASE Concerns(r, k) /\ w # 0
      <4>1. Counted(k, w)' = Counted(k, w) \cup {N + 1}
        BY <1>4, <2>0, <3>1, <3>3, <3>4 DEF Counted
      <4>2. Cardinality(Counted(k, w) \cup {N + 1}) = Cardinality(Counted(k, w)) + 1
        BY <2>0, <3>2, AppendCount
      <4>. QED
        BY <2>2, <3>4, <4>1, <4>2
    <3>5. CASE ~(Concerns(r, k) /\ w # 0)
      <4>1. Counted(k, w)' = Counted(k, w)
        BY <1>4, <2>0, <3>1, <3>3, <3>5 DEF Counted
      <4>. QED
        BY <3>5, <4>1
    <3>. QED
      BY <3>4, <3>5
  <2>. QED
    BY <2>1, <2>2
<1>10. Tallied'
  <2>. SUFFICES ASSUME NEW k \in Keys, Limited(k), NEW w \in 0..Window(k[1])
                PROVE  Cardinality(Below(events'[k], w)) = Cardinality(Counted(k, w)')
    BY <1>7 DEF Tallied
  <2>1. w \in Nat
    BY <1>3, DequeType
  <2>2. Cardinality(Below(events[k], w)) = Cardinality(Counted(k, w))
    BY DEF IInv, Tallied
  <2>. HIDE DEF passed
  <2>. QED
    BY <1>6, <1>9, <2>1, <2>2
<1>. QED
  BY <1>5, <1>8, <1>10 DEF IInv

LEMMA NextInv == IInv /\ [Next]_limiterVars => IInv'
<1>. SUFFICES ASSUME IInv, [Next]_limiterVars PROVE IInv'
  OBVIOUS
<1>1. CASE UNCHANGED limiterVars
  BY <1>1 DEF limiterVars, IInv, LimiterTypeOK, Tallied, Counted, Limited, Limit
<1>. QED
  BY <1>1, TickInv, RestartInv, RequestInv DEF Next

\* The counters of every limit agree with the history of accepted requests.
THEOREM InvAlways == Spec => []IInv
  BY InitInv, NextInv, PTL DEF Spec

\* Deques are sorted and never longer than their limit.
THEOREM TypeCorrect == Spec => []LimiterTypeOK
<1>1. IInv => LimiterTypeOK
  BY DEF IInv
<1>. QED
  BY <1>1, InvAlways, PTL

-----------------------------------------------------------------------------
(* The quota, and the answer to who exceeds it *)

\* What is left of a deque is what the window covers of the accepted requests.
LEMMA FreshCounts ==
    ASSUME IInv, NEW k \in Keys, Limited(k)
    PROVE  /\ Len(Fresh(k)) \in Nat /\ Cardinality(Accepted(k)) = Len(Fresh(k))
           /\ Len(Fresh(k)) <= Limit(k[1]) /\ Limit(k[1]) \in Nat
           /\ Full(k) <=> Cardinality(Accepted(k)) >= Limit(k[1])
<1>1. LimiterTypeOK
  BY DEF IInv
<1>2. /\ Window(k[1]) \in Nat /\ Limit(k[1]) \in Nat /\ Longest \in Nat
      /\ Fresh(k) \in Seq(0..Longest) /\ Len(events[k]) \in Nat
      /\ Len(events[k]) <= Limit(k[1]) /\ Len(Fresh(k)) <= Len(events[k])
      /\ \A i \in DOMAIN Fresh(k) : Fresh(k)[i] < Window(k[1])
      /\ Cardinality(Below(Fresh(k), Window(k[1]))) = Cardinality(Below(events[k], Window(k[1])))
  BY <1>1, DequeType
<1>3. Len(Fresh(k)) \in Nat /\ DOMAIN Fresh(k) = 1..Len(Fresh(k))
  BY <1>2
<1>4. Below(Fresh(k), Window(k[1])) = 1..Len(Fresh(k))
  BY <1>2, <1>3 DEF Below
<1>5. Cardinality(1..Len(Fresh(k))) = Len(Fresh(k))
  BY <1>3, PositionsCount
<1>6. Cardinality(Below(events[k], Window(k[1]))) = Cardinality(Counted(k, Window(k[1])))
  BY <1>2 DEF IInv, Tallied
<1>7. Counted(k, Window(k[1])) = Accepted(k)
  BY DEF Counted, Accepted
<1>8. Cardinality(Accepted(k)) = Len(Fresh(k))
  BY <1>2, <1>4, <1>5, <1>6, <1>7
<1>9. Full(k) <=> Cardinality(Accepted(k)) >= Limit(k[1])
  BY <1>8 DEF Full, Limited
<1>. QED
  BY <1>2, <1>3, <1>8, <1>9

LEMMA QuotaKept == IInv => WithinQuota
<1>. SUFFICES ASSUME IInv PROVE WithinQuota
  OBVIOUS
<1>1. ASSUME NEW k \in Keys, Limited(k) PROVE Cardinality(Accepted(k)) <= Limit(k[1])
  BY <1>1, FreshCounts
<1>2. ASSUME config.enabled, NEW ip \in Addresses, NEW email \in Emails
      PROVE  LET rules == Rules(ip, email)
                 full == {i \in DOMAIN rules :
                            /\ Limited(rules[i])
                            /\ Cardinality(Accepted(rules[i])) >= Limit(rules[i][1])}
             IN  IF full = {} THEN Denying(rules) = 0
                 ELSE Denying(rules) \in full /\ \A i \in full : Denying(rules) <= i
  <2>. DEFINE rules == Rules(ip, email)
              full == {i \in DOMAIN rules :
                         /\ Limited(rules[i])
                         /\ Cardinality(Accepted(rules[i])) >= Limit(rules[i][1])}
  <2>1. DOMAIN rules = 1..3 /\ \A i \in 1..3 : rules[i] \in Keys
    BY RulesType
  <2>2. \/ Denying(rules) = 0 /\ \A i \in 1..3 : ~Full(rules[i])
        \/ /\ Denying(rules) \in 1..3 /\ Full(rules[Denying(rules)])
           /\ \A i \in 1..(Denying(rules) - 1) : ~Full(rules[i])
    BY DenyingFirst
  <2>. HIDE DEF rules
  <2>3. ASSUME NEW i \in 1..3 PROVE i \in full <=> Full(rules[i])
    <3>1. CASE Limited(rules[i])
      BY <2>1, <3>1, FreshCounts
    <3>2. CASE ~Limited(rules[i])
      BY <1>2, <2>1, <3>2 DEF Limited, Full
    <3>. QED
      BY <3>1, <3>2
  <2>4. full \subseteq 1..3
    BY <2>1
  <2>. HIDE DEF full
  <2>5. IF full = {} THEN Denying(rules) = 0
        ELSE Denying(rules) \in full /\ \A i \in full : Denying(rules) <= i
    <3>1. CASE Denying(rules) = 0 /\ \A i \in 1..3 : ~Full(rules[i])
      BY <2>3, <2>4, <3>1
    <3>2. CASE /\ Denying(rules) \in 1..3 /\ Full(rules[Denying(rules)])
               /\ \A i \in 1..(Denying(rules) - 1) : ~Full(rules[i])
      <4>1. Denying(rules) \in full
        BY <2>3, <3>2
      <4>2. ASSUME NEW i \in full PROVE Denying(rules) <= i
        <5>1. i \in 1..3 /\ Full(rules[i])
          BY <2>3, <2>4
        <5>2. i \notin 1..(Denying(rules) - 1)
          BY <3>2, <5>1
        <5>. QED
          BY <3>2, <5>1, <5>2
      <4>. QED
        BY <4>1, <4>2
    <3>. QED
      BY <2>2, <3>1, <3>2
  <2>. QED
    BY <2>5 DEF full, rules
<1>. QED
  BY <1>1, <1>2 DEF WithinQuota

\* Nobody ever has more than the limit accepted within one window, and the
\* limiter decides by the accepted requests alone.
THEOREM QuotaAlwaysKept == Spec => []WithinQuota
  BY QuotaKept, InvAlways, PTL

\* Division rounds down.
LEMMA Quotient ==
    ASSUME NEW x \in Nat, NEW d \in Nat \ {0}
    PROVE  /\ x \div d \in Nat /\ (x \div d) * d <= x /\ x < (x \div d) * d + d
  BY SMT

\* So many seconds are the first after which the oldest request is forgotten.
LEMMA RoundedUp ==
    ASSUME NEW left \in Nat \ {0}, NEW second \in Nat \ {0}
    PROVE  LET q == (left + second - 1) \div second
           IN  q \in Nat \ {0} /\ q * second >= left /\ (q - 1) * second < left
<1>. DEFINE x == left + second - 1
            q == x \div second
<1>1. x \in Nat
  OBVIOUS
<1>2. q \in Nat /\ q * second <= x /\ x < q * second + second
  <2>. HIDE DEF x
  <2>. QED
    BY <1>1, Quotient
<1>. HIDE DEF q
<1>3. q * second \in Nat /\ (q - 1) * second = q * second - second
  BY <1>2
<1>4. q * second >= left /\ (q - 1) * second < left
  BY <1>2, <1>3
<1>5. q # 0
  <2>. SUFFICES ASSUME q = 0 PROVE FALSE
    OBVIOUS
  <2>1. q * second = 0
    BY <1>2
  <2>. QED
    BY <1>4, <2>1
<1>. QED
  BY <1>2, <1>4, <1>5 DEF q

\* The requests that will still count in so many ticks.
LEMMA OpenCount ==
    ASSUME IInv, NEW k \in Keys, Limited(k), NEW ticks \in Nat
    PROVE  LET later == {i \in Accepted(k) : log[i].age + ticks < Window(k[1])}
           IN  /\ ticks >= Window(k[1]) => Cardinality(later) = 0
               /\ ticks < Window(k[1]) =>
                     Cardinality(later) = Cardinality(Below(Fresh(k), Window(k[1]) - ticks))
<1>. DEFINE W == Window(k[1])
            later == {i \in Accepted(k) : log[i].age + ticks < W}
<1>1. /\ LimiterTypeOK /\ W \in Nat
      /\ \A i \in DOMAIN log : log[i].age \in Nat
  <2>1. LimiterTypeOK /\ log \in Seq(Accepting)
    BY DEF IInv
  <2>2. \A i \in DOMAIN log : log[i] \in Accepting
    BY <2>1
  <2>. QED
    BY <2>1, <2>2, DequeType DEF Accepting
<1>2. CASE ticks >= W
  <2>1. later = {}
    BY <1>1, <1>2 DEF Accepted
  <2>2. Cardinality(later) = 0
    BY <2>1, FS_EmptySet
  <2>3. ~(ticks < W)
    BY <1>1, <1>2
  <2>. HIDE DEF later
  <2>4. /\ ticks >= W => Cardinality(later) = 0
        /\ ticks < W =>
              Cardinality(later) = Cardinality(Below(Fresh(k), W - ticks))
    BY <2>2, <2>3
  <2>. QED
    BY <2>4 DEF later
<1>3. CASE ticks < W
  <2>1. W - ticks \in 0..W
    BY <1>1, <1>3
  <2>2. later = Counted(k, W - ticks)
    BY <1>1, <1>3 DEF Accepted, Counted
  <2>3. Cardinality(Below(events[k], W - ticks)) = Cardinality(Counted(k, W - ticks))
    BY <2>1 DEF IInv, Tallied
  <2>4. Cardinality(Below(Fresh(k), W - ticks)) = Cardinality(Below(events[k], W - ticks))
    BY <1>1, <2>1, DequeType
  <2>5. ~(ticks >= W)
    BY <1>1, <1>3
  <2>6. Cardinality(later) = Cardinality(Below(Fresh(k), W - ticks))
    BY <2>2, <2>3, <2>4
  <2>. HIDE DEF later
  <2>7. /\ ticks >= W => Cardinality(later) = 0
        /\ ticks < W =>
              Cardinality(later) = Cardinality(Below(Fresh(k), W - ticks))
    BY <2>5, <2>6
  <2>. QED
    BY <2>7 DEF later
<1>. QED
  BY <1>1, <1>2, <1>3

LEMMA WordKept == IInv => RetryAfterExact
<1>. SUFFICES ASSUME IInv, NEW k \in Keys, config.enabled, Full(k)
              PROVE  LET open(seconds) ==
                            Cardinality({i \in Accepted(k) :
                               log[i].age + seconds * Second < Window(k[1])}) < Limit(k[1])
                     IN  open(RetryAfter(k)) /\ ~open(RetryAfter(k) - 1)
  BY DEF RetryAfterExact
<1>. DEFINE W == Window(k[1])
            fresh == Fresh(k)
            Still(ticks) == {i \in Accepted(k) : log[i].age + ticks < W}
            head == Head(fresh)
            left == W - head
            q == (left + Second - 1) \div Second
<1>1. Limited(k) /\ Limit(k[1]) > 0 /\ Len(fresh) >= Limit(k[1])
  BY DEF Full, Limited
<1>2. /\ LimiterTypeOK /\ Second \in Nat \ {0} /\ Limit(k[1]) \in Nat /\ W \in Nat
      /\ fresh \in Seq(0..Longest) /\ Sorted(fresh) /\ Longest \in Nat
      /\ \A i \in DOMAIN fresh : fresh[i] < W
  <2>1. LimiterTypeOK
    BY DEF IInv
  <2>. QED
    BY <2>1, LimiterAssumption, DequeType
<1>3. Len(fresh) \in Nat /\ Len(fresh) <= Limit(k[1])
  BY <1>1, FreshCounts
<1>4. \A ticks \in Nat :
         /\ ticks >= W => Cardinality(Still(ticks)) = 0
         /\ ticks < W => Cardinality(Still(ticks)) = Cardinality(Below(fresh, W - ticks))
  BY <1>1, OpenCount
<1>. HIDE DEF fresh, W
<1>5. /\ DOMAIN fresh = 1..Len(fresh) /\ 1 \in DOMAIN fresh /\ head = fresh[1]
      /\ \A i \in DOMAIN fresh : fresh[i] \in Nat /\ fresh[i] <= head
  <2>1. /\ DOMAIN fresh = 1..Len(fresh)
        /\ \A i \in DOMAIN fresh : fresh[i] \in Nat
    BY <1>2, AgesType
  <2>2. 1 \in DOMAIN fresh /\ head = fresh[1]
    BY <1>1, <1>2, <1>3, <2>1
  <2>3. ASSUME NEW i \in DOMAIN fresh PROVE fresh[i] <= head
    <3>1. CASE i = 1
      BY <2>1, <2>2, <3>1
    <3>2. CASE i # 1
      <4>1. 1 < i
        BY <2>1, <3>2
      <4>. QED
        BY <2>1, <2>2, <4>1, <1>2 DEF Sorted
    <3>. QED
      BY <3>1, <3>2
  <2>. QED
    BY <2>1, <2>2, <2>3
<1>. HIDE DEF head
<1>6. left \in Nat \ {0}
  BY <1>2, <1>5
<1>7. q \in Nat \ {0} /\ q * Second >= left /\ (q - 1) * Second < left
  <2>. HIDE DEF left
  <2>. QED
    BY <1>2, <1>6, RoundedUp
<1>8. RetryAfter(k) = q
  <2>1. RetryAfter(k) = IF q > 1 THEN q ELSE 1
    BY DEF RetryAfter, fresh, head, W
  <2>. HIDE DEF q
  <2>. QED
    BY <1>7, <2>1
<1>. HIDE DEF q
<1>9. q * Second \in Nat /\ (q - 1) * Second \in Nat
  BY <1>2, <1>7
\* After the announced seconds the oldest request counts no longer.
<1>10. Cardinality(Still(q * Second)) < Limit(k[1])
  <2>. DEFINE t == q * Second
  <2>. HIDE DEF t, Still
  <2>0. t \in Nat /\ t >= left
    BY <1>7, <1>9 DEF t
  <2>1. CASE t >= W
    BY <1>1, <1>2, <1>4, <2>0, <2>1 DEF t
  <2>2. CASE t < W
    <3>1. Below(fresh, W - t) \in SUBSET (2..Len(fresh))
      BY <1>2, <1>3, <1>5, <2>0, <2>2 DEF Below
    <3>2. IsFiniteSet(2..Len(fresh)) /\ Cardinality(2..Len(fresh)) = Len(fresh) - 1
      <4>1. 2 \in Int /\ Len(fresh) \in Int /\ Len(fresh) >= 1
        BY <1>1, <1>2, <1>3
      <4>2. /\ IsFiniteSet(2..Len(fresh))
            /\ Cardinality(2..Len(fresh)) = IF 2 > Len(fresh) THEN 0 ELSE Len(fresh) - 2 + 1
        BY <4>1, FS_Interval, Zenon
      <4>. QED
        BY <4>1, <4>2
    <3>3. /\ IsFiniteSet(Below(fresh, W - t))
          /\ Cardinality(Below(fresh, W - t)) <= Cardinality(2..Len(fresh))
      BY <3>1, <3>2, FS_Subset
    <3>4. Cardinality(Below(fresh, W - t)) \in Nat
      BY <3>3, FS_CardinalityType
    <3>5. Cardinality(Still(t)) = Cardinality(Below(fresh, W - t))
      BY <1>4, <2>0, <2>2
    <3>. QED
      BY <1>2, <1>3, <3>2, <3>3, <3>4, <3>5 DEF t
  <2>. QED
    BY <1>2, <2>0, <2>1, <2>2
\* A second earlier they all count.
<1>11. ~(Cardinality(Still((q - 1) * Second)) < Limit(k[1]))
  <2>. DEFINE t == (q - 1) * Second
  <2>. HIDE DEF t, Still
  <2>0. t \in Nat /\ t < left
    BY <1>7, <1>9 DEF t
  <2>1. t < W
    BY <1>2, <1>5, <2>0
  <2>2. Below(fresh, W - t) = 1..Len(fresh)
    BY <1>2, <1>5, <2>0, <2>1 DEF Below
  <2>3. Cardinality(1..Len(fresh)) = Len(fresh)
    BY <1>3, PositionsCount
  <2>4. Cardinality(Still(t)) = Cardinality(Below(fresh, W - t))
    BY <1>4, <2>0, <2>1
  <2>. QED
    BY <1>1, <1>2, <1>3, <2>2, <2>3, <2>4 DEF t
<1>. QED
  BY <1>8, <1>10, <1>11 DEF W

\* Retry-After keeps its word: the seconds it names are enough, and one less is
\* too early.
THEOREM RetryAfterAlwaysExact == Spec => []RetryAfterExact
  BY WordKept, InvAlways, PTL
=============================================================================
