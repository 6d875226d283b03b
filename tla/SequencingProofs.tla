-------------------------- MODULE SequencingProofs ---------------------------
(***************************************************************************)
(* What the operators of Sequencing compute, for sequences of any length.  *)
(* The library's induction theorems take an operator as a parameter, which *)
(* no backend can give a value; that a set of numbers other than the empty *)
(* one has a least element takes none, and induction over a set follows.   *)
(***************************************************************************)
EXTENDS Sequencing, WellFoundedInduction, SequenceTheorems, TLAPS

LEMMA LeastElement ==
  ASSUME NEW T, T \subseteq Nat, T # {}
  PROVE  \E n \in T : \A m \in T : ~(m < n)
<1> DEFINE R == {ss \in Nat \X Nat : ss[1] < ss[2]}
<1>1. IsWellFoundedOn(R, Nat)
  BY NatLessThanWellFounded DEF OpToRel
<1> HIDE DEF R
<1>2. \E n \in T : \A m \in T : <<m, n>> \notin R
  BY <1>1, WFMin
<1>3. QED
  BY <1>2 DEF R

\* Induction over the set of the places up to N for which something holds.
LEMMA SetInduction ==
  ASSUME NEW N \in Nat, NEW S, 0 \in S, \A n \in 1..N : n - 1 \in S => n \in S
  PROVE  0..N \subseteq S
<1> SUFFICES ASSUME 0..N \ S # {} PROVE FALSE
  OBVIOUS
<1>1. PICK n \in 0..N \ S : \A m \in 0..N \ S : ~(m < n)
  <2>1. 0..N \ S \subseteq Nat
    OBVIOUS
  <2>2. QED
    BY <2>1, LeastElement
<1>2. n \in 1..N /\ n - 1 \in 0..N /\ n - 1 < n
  BY <1>1
<1>3. QED
  BY <1>1, <1>2

Recursive(N, V, base, step) ==
  \E f \in [0..N -> V] : f[0] = base /\ \A n \in 1..N : f[n] = step[n][f[n - 1]]

\* A value for every place, each made of the one before it.
LEMMA Recursion ==
  ASSUME NEW N \in Nat, NEW V, NEW base \in V, NEW step \in [1..N -> [V -> V]]
  PROVE  Recursive(N, V, base, step)
<1> DEFINE Upto(m) == \E f \in [0..m -> V] : f[0] = base /\ \A n \in 1..m : f[n] = step[n][f[n - 1]]
           S == {m \in 0..N : Upto(m)}
<1>1. Upto(0)
  <2> DEFINE g == [n \in 0..0 |-> base]
  <2>1. g \in [0..0 -> V] /\ g[0] = base /\ 1..0 = {}
    OBVIOUS
  <2> HIDE DEF g
  <2>2. QED
    BY <2>1
<1>2. ASSUME NEW m \in 1..N, m - 1 \in S PROVE m \in S
  <2>1. PICK f \in [0..m - 1 -> V] : f[0] = base /\ \A n \in 1..m - 1 : f[n] = step[n][f[n - 1]]
    BY <1>2
  <2> DEFINE g == [n \in 0..m |-> IF n = m THEN step[m][f[m - 1]] ELSE f[n]]
  <2>2. f[m - 1] \in V /\ step[m] \in [V -> V]
    OBVIOUS
  <2>3. g \in [0..m -> V]
    BY <2>2
  <2>4. g[0] = base
    BY <2>1
  <2>5. ASSUME NEW n \in 1..m PROVE g[n] = step[n][g[n - 1]]
    <3>1. g[n - 1] = f[n - 1]
      OBVIOUS
    <3>2. CASE n = m
      BY <3>1, <3>2
    <3>3. CASE n # m
      BY <2>1, <3>1, <3>3
    <3>4. QED
      BY <3>2, <3>3
  <2> HIDE DEF g
  <2>6. Upto(m)
    BY <2>3, <2>4, <2>5
  <2>7. QED
    BY <2>6
<1>3. 0 \in S
  BY <1>1
<1> HIDE DEF S
<1>4. 0..N \subseteq S
  BY <1>2, <1>3, SetInduction
<1>5. N \in S
  BY <1>4
<1>6. QED
  BY <1>5 DEF S, Recursive

-----------------------------------------------------------------------------
(* Sums *)

LEMMA SumsDefined ==
  ASSUME NEW s \in Seq(Int)
  PROVE  Sums(s) = [n \in 0..Len(s) |-> IF n = 0 THEN 0 ELSE Sums(s)[n - 1] + s[n]]
<1> DEFINE step == [n \in 1..Len(s) |-> [v \in Int |-> v + s[n]]]
<1>1. Len(s) \in Nat /\ \A n \in 1..Len(s) : s[n] \in Int
  OBVIOUS
<1>2. step \in [1..Len(s) -> [Int -> Int]]
  BY <1>1
<1> HIDE DEF step
<1>3. PICK f \in [0..Len(s) -> Int] : f[0] = 0 /\ \A n \in 1..Len(s) : f[n] = step[n][f[n - 1]]
  <2> DEFINE N == Len(s)
             V == Int
  <2>1. N \in Nat /\ 0 \in V /\ step \in [1..N -> [V -> V]]
    BY <1>1, <1>2
  <2> HIDE DEF N, V
  <2>2. Recursive(N, V, 0, step)
    BY <2>1, Recursion
  <2>3. QED
    BY <2>2 DEF N, V, Recursive
<1>4. \A n \in 1..Len(s) : f[n] = f[n - 1] + s[n]
  <2>1. ASSUME NEW n \in 1..Len(s) PROVE f[n] = f[n - 1] + s[n]
    <3>1. n - 1 \in 0..Len(s)
      BY <1>1
    <3>2. f[n - 1] \in Int
      BY <3>1
    <3>3. QED
      BY <1>3, <3>2 DEF step
  <2>2. QED
    BY <2>1
<1>5. f = [n \in 0..Len(s) |-> IF n = 0 THEN 0 ELSE f[n - 1] + s[n]]
  BY <1>1, <1>3, <1>4
<1>6. QED
  BY <1>5 DEF Sums

LEMMA SumsStep ==
  ASSUME NEW s \in Seq(Int)
  PROVE  /\ Sums(s)[0] = 0
         /\ \A n \in 1..Len(s) : Sums(s)[n] = Sums(s)[n - 1] + s[n]
         /\ \A n \in 0..Len(s) : Sums(s)[n] \in Int
<1> DEFINE f == Sums(s)
           S == {n \in 0..Len(s) : f[n] \in Int}
<1>1. f = [n \in 0..Len(s) |-> IF n = 0 THEN 0 ELSE f[n - 1] + s[n]] /\ Len(s) \in Nat
  BY SumsDefined
<1> HIDE DEF f
<1>2. f[0] = 0
  BY <1>1
<1>3. \A n \in 1..Len(s) : f[n] = f[n - 1] + s[n]
  <2>1. ASSUME NEW n \in 1..Len(s) PROVE f[n] = f[n - 1] + s[n]
    <3>1. n \in 0..Len(s) /\ n # 0
      BY <1>1
    <3>2. QED
      BY <1>1, <3>1
  <2>2. QED
    BY <2>1
<1>4. 0 \in S
  BY <1>1, <1>2
<1>5. \A n \in 1..Len(s) : n - 1 \in S => n \in S
  BY <1>1, <1>3
<1>6. 0..Len(s) \subseteq S
  <2> HIDE DEF S
  <2>1. QED
    BY <1>1, <1>4, <1>5, SetInduction
<1>7. QED
  BY <1>2, <1>3, <1>6 DEF f

\* The sums of a sequence are those of a longer one.
LEMMA SumsOfPrefix ==
  ASSUME NEW s \in Seq(Int), NEW t \in Seq(Int), Len(s) <= Len(t),
         \A n \in 1..Len(s) : t[n] = s[n]
  PROVE  \A n \in 0..Len(s) : Sums(t)[n] = Sums(s)[n]
<1> DEFINE S == {n \in 0..Len(s) : Sums(t)[n] = Sums(s)[n]}
<1>1. Len(s) \in Nat /\ Len(t) \in Nat
  OBVIOUS
<1>2. 0 \in S
  BY <1>1, SumsStep
<1>3. ASSUME NEW n \in 1..Len(s), n - 1 \in S PROVE n \in S
  <2>1. n \in 1..Len(t) /\ n \in 0..Len(s)
    BY <1>1
  <2>2. Sums(t)[n] = Sums(t)[n - 1] + t[n] /\ Sums(s)[n] = Sums(s)[n - 1] + s[n]
    BY <2>1, SumsStep
  <2>3. QED
    BY <1>3, <2>1, <2>2
<1> HIDE DEF S
<1>4. 0..Len(s) \subseteq S
  BY <1>1, <1>2, <1>3, SetInduction
<1>5. QED
  BY <1>4 DEF S

LEMMA TotalOfAppend ==
  ASSUME NEW s \in Seq(Int), NEW e \in Int
  PROVE  /\ Total(<<>>) = 0
         /\ Total(s) \in Int
         /\ Total(Append(s, e)) = Total(s) + e
<1>1. Total(<<>>) = 0
  <2>1. <<>> \in Seq(Int) /\ Len(<<>>) = 0
    OBVIOUS
  <2>2. QED
    BY <2>1, SumsStep DEF Total
<1>2. Total(s) \in Int
  BY SumsStep DEF Total
<1> DEFINE t == Append(s, e)
<1>3. t \in Seq(Int) /\ Len(t) = Len(s) + 1 /\ t[Len(t)] = e /\ \A n \in 1..Len(s) : t[n] = s[n]
  OBVIOUS
<1>4. Len(s) \in Nat
  OBVIOUS
<1> HIDE DEF t
<1>5. Sums(t)[Len(t)] = Sums(t)[Len(s)] + e
  <2>1. Len(t) \in 1..Len(t) /\ Len(t) - 1 = Len(s)
    BY <1>3, <1>4
  <2>2. QED
    BY <1>3, <2>1, SumsStep
<1>6. Sums(t)[Len(s)] = Sums(s)[Len(s)]
  BY <1>3, <1>4, SumsOfPrefix
<1>7. QED
  BY <1>1, <1>2, <1>5, <1>6 DEF t, Total

-----------------------------------------------------------------------------
(* Selections *)

LEMMA OnlyUpToDefined ==
  ASSUME NEW A, NEW s \in Seq(A), NEW S
  PROVE  OnlyUpTo(s, S) = [n \in 0..Len(s) |->
                         IF n = 0 THEN <<>>
                         ELSE IF s[n] \in S THEN Append(OnlyUpTo(s, S)[n - 1], s[n]) ELSE OnlyUpTo(s, S)[n - 1]]
<1> DEFINE N == Len(s)
           V == Seq(A)
           step == [n \in 1..N |-> [v \in V |-> IF s[n] \in S THEN Append(v, s[n]) ELSE v]]
<1>1. N \in Nat /\ <<>> \in V /\ \A n \in 1..N : s[n] \in A
  OBVIOUS
<1>2. \A n \in 1..N : \A v \in V : Append(v, s[n]) \in V
  BY <1>1
<1> HIDE DEF N, V
<1>3. step \in [1..N -> [V -> V]]
  BY <1>2
<1> HIDE DEF step
<1>4. Recursive(N, V, <<>>, step)
  BY <1>1, <1>3, Recursion
<1>5. PICK f \in [0..N -> V] : f[0] = <<>> /\ \A n \in 1..N : f[n] = step[n][f[n - 1]]
  BY <1>4 DEF Recursive
<1>6. ASSUME NEW n \in 1..N
      PROVE  f[n] = IF s[n] \in S THEN Append(f[n - 1], s[n]) ELSE f[n - 1]
  <2>1. n - 1 \in 0..N
    BY <1>1
  <2>2. f[n - 1] \in V
    BY <2>1
  <2>3. QED
    BY <1>5, <2>2 DEF step
<1>7. f = [n \in 0..N |->
             IF n = 0 THEN <<>> ELSE IF s[n] \in S THEN Append(f[n - 1], s[n]) ELSE f[n - 1]]
  <2>1. ASSUME NEW n \in 0..N
        PROVE  f[n] = IF n = 0 THEN <<>>
                      ELSE IF s[n] \in S THEN Append(f[n - 1], s[n]) ELSE f[n - 1]
    <3>1. n = 0 \/ n \in 1..N
      BY <1>1
    <3>2. QED
      BY <1>5, <1>6, <3>1
  <2>2. QED
    BY <2>1
<1>8. QED
  BY <1>7 DEF OnlyUpTo, N

LEMMA OnlyUpToStep ==
  ASSUME NEW A, NEW s \in Seq(A), NEW S
  PROVE  /\ OnlyUpTo(s, S)[0] = <<>>
         /\ \A n \in 1..Len(s) :
              OnlyUpTo(s, S)[n] = IF s[n] \in S THEN Append(OnlyUpTo(s, S)[n - 1], s[n]) ELSE OnlyUpTo(s, S)[n - 1]
         /\ \A n \in 0..Len(s) : OnlyUpTo(s, S)[n] \in Seq(A)
<1> DEFINE f == OnlyUpTo(s, S)
           N == Len(s)
           T == {n \in 0..N : f[n] \in Seq(A)}
<1>1. /\ N \in Nat
      /\ f = [n \in 0..N |->
                IF n = 0 THEN <<>> ELSE IF s[n] \in S THEN Append(f[n - 1], s[n]) ELSE f[n - 1]]
  BY OnlyUpToDefined
<1>2. \A n \in 1..N : s[n] \in A
  OBVIOUS
<1> HIDE DEF f, N
<1>3. f[0] = <<>>
  BY <1>1
<1>4. ASSUME NEW n \in 1..N
      PROVE  f[n] = IF s[n] \in S THEN Append(f[n - 1], s[n]) ELSE f[n - 1]
  <2>1. n \in 0..N /\ n # 0
    BY <1>1
  <2>2. QED
    BY <1>1, <2>1
<1>5. 0 \in T
  BY <1>1, <1>3
<1>6. ASSUME NEW n \in 1..N, n - 1 \in T PROVE n \in T
  <2>1. f[n - 1] \in Seq(A) /\ s[n] \in A /\ n \in 0..N
    BY <1>1, <1>2, <1>6
  <2>2. Append(f[n - 1], s[n]) \in Seq(A)
    BY <2>1, AppendProperties
  <2>3. QED
    BY <1>4, <2>1, <2>2
<1> HIDE DEF T
<1>7. 0..N \subseteq T
  BY <1>1, <1>5, <1>6, SetInduction
<1>8. QED
  BY <1>3, <1>4, <1>7 DEF f, N, T

LEMMA OnlyUpToPrefix ==
  ASSUME NEW A, NEW s \in Seq(A), NEW t \in Seq(A), NEW S, Len(s) <= Len(t),
         \A n \in 1..Len(s) : t[n] = s[n]
  PROVE  \A n \in 0..Len(s) : OnlyUpTo(t, S)[n] = OnlyUpTo(s, S)[n]
<1> DEFINE T == {n \in 0..Len(s) : OnlyUpTo(t, S)[n] = OnlyUpTo(s, S)[n]}
<1>1. Len(s) \in Nat /\ Len(t) \in Nat
  OBVIOUS
<1>2. 0 \in T
  BY <1>1, OnlyUpToStep
<1>3. ASSUME NEW n \in 1..Len(s), n - 1 \in T PROVE n \in T
  <2>1. n \in 1..Len(t) /\ n \in 0..Len(s) /\ t[n] = s[n]
    BY <1>1
  <2>2. OnlyUpTo(t, S)[n] = IF t[n] \in S THEN Append(OnlyUpTo(t, S)[n - 1], t[n]) ELSE OnlyUpTo(t, S)[n - 1]
    BY <2>1, OnlyUpToStep
  <2>3. OnlyUpTo(s, S)[n] = IF s[n] \in S THEN Append(OnlyUpTo(s, S)[n - 1], s[n]) ELSE OnlyUpTo(s, S)[n - 1]
    BY OnlyUpToStep
  <2>4. QED
    BY <1>3, <2>1, <2>2, <2>3
<1> HIDE DEF T
<1>4. 0..Len(s) \subseteq T
  BY <1>1, <1>2, <1>3, SetInduction
<1>5. QED
  BY <1>4 DEF T

LEMMA OnlyOfAppend ==
  ASSUME NEW A, NEW s \in Seq(A), NEW e \in A, NEW S
  PROVE  /\ Only(<<>>, S) = <<>>
         /\ Only(s, S) \in Seq(A)
         /\ Only(Append(s, e), S) = IF e \in S THEN Append(Only(s, S), e) ELSE Only(s, S)
<1>1. Only(<<>>, S) = <<>>
  <2>1. <<>> \in Seq(A) /\ Len(<<>>) = 0
    OBVIOUS
  <2>2. QED
    BY <2>1, OnlyUpToStep DEF Only
<1>2. Only(s, S) \in Seq(A)
  BY OnlyUpToStep DEF Only
<1> DEFINE t == Append(s, e)
<1>3. t \in Seq(A) /\ Len(t) = Len(s) + 1 /\ t[Len(t)] = e /\ \A n \in 1..Len(s) : t[n] = s[n]
  OBVIOUS
<1>4. Len(s) \in Nat
  OBVIOUS
<1> HIDE DEF t
<1>5. OnlyUpTo(t, S)[Len(t)] = IF e \in S THEN Append(OnlyUpTo(t, S)[Len(s)], e) ELSE OnlyUpTo(t, S)[Len(s)]
  <2>1. Len(t) \in 1..Len(t) /\ Len(t) - 1 = Len(s)
    BY <1>3, <1>4
  <2>2. QED
    BY <1>3, <2>1, OnlyUpToStep
<1>6. OnlyUpTo(t, S)[Len(s)] = OnlyUpTo(s, S)[Len(s)]
  BY <1>3, <1>4, OnlyUpToPrefix
<1>7. QED
  BY <1>1, <1>2, <1>5, <1>6 DEF t, Only

\* The places in s of what is kept of its first n elements.
PlacesOf(f, s, S, n) ==
  \E p \in [1..Len(f[n]) -> 1..n] :
    /\ \A i \in 1..Len(f[n]) : f[n][i] = s[p[i]] /\ s[p[i]] \in S
    /\ \A i, j \in 1..Len(f[n]) : i < j => p[i] < p[j]
    /\ \A m \in 1..n : s[m] \in S => \E i \in 1..Len(f[n]) : p[i] = m

LEMMA OnlyUpToPlaces ==
  ASSUME NEW A, NEW s \in Seq(A), NEW S, NEW n \in 1..Len(s), PlacesOf(OnlyUpTo(s, S), s, S, n - 1)
  PROVE  PlacesOf(OnlyUpTo(s, S), s, S, n)
<1> DEFINE f == OnlyUpTo(s, S)
           old == f[n - 1]
<1>1. old \in Seq(A) /\ s[n] \in A /\ n \in Nat /\ n - 1 \in Nat
  <2>1. n - 1 \in 0..Len(s)
    OBVIOUS
  <2>2. QED
    BY <2>1, OnlyUpToStep
<1>2. f[n] = IF s[n] \in S THEN Append(old, s[n]) ELSE old
  BY OnlyUpToStep
<1>3. PICK p \in [1..Len(old) -> 1..n - 1] :
        /\ \A i \in 1..Len(old) : old[i] = s[p[i]] /\ s[p[i]] \in S
        /\ \A i, j \in 1..Len(old) : i < j => p[i] < p[j]
        /\ \A m \in 1..n - 1 : s[m] \in S => \E i \in 1..Len(old) : p[i] = m
  BY DEF PlacesOf
<1>4. Len(old) \in Nat
  BY <1>1
<1> HIDE DEF f
<1>5. CASE s[n] \notin S
  <2>1. f[n] = old
    BY <1>2, <1>5
  <2>2. p \in [1..Len(f[n]) -> 1..n]
    BY <1>1, <2>1
  <2>3. \A m \in 1..n : s[m] \in S => m \in 1..n - 1
    BY <1>1, <1>5
  <2>4. QED
    BY <1>3, <2>1, <2>2, <2>3 DEF PlacesOf, f
<1>6. CASE s[n] \in S
  <2> DEFINE new == Append(old, s[n])
             q == [i \in 1..Len(old) + 1 |-> IF i = Len(old) + 1 THEN n ELSE p[i]]
  <2>1. f[n] = new
    BY <1>2, <1>6
  <2>2. Len(new) = Len(old) + 1 /\ new[Len(old) + 1] = s[n] /\ \A i \in 1..Len(old) : new[i] = old[i]
    BY <1>1
  <2>3. q \in [1..Len(old) + 1 -> 1..n]
    BY <1>1, <1>4
  <2>4. \A i \in 1..Len(old) : q[i] = p[i] /\ p[i] \in 1..n - 1
    BY <1>4
  <2>5. q[Len(old) + 1] = n
    BY <1>4
  <2> HIDE DEF q, new
  <2>6. \A i \in 1..Len(old) + 1 : i \in 1..Len(old) \/ i = Len(old) + 1
    BY <1>4
  <2>7. \A i \in 1..Len(old) + 1 : new[i] = s[q[i]] /\ s[q[i]] \in S
    BY <1>3, <1>6, <2>2, <2>4, <2>5, <2>6
  <2>8. ASSUME NEW i \in 1..Len(old) + 1, NEW j \in 1..Len(old) + 1, i < j PROVE q[i] < q[j]
    <3>1. i \in 1..Len(old)
      BY <1>4, <2>8
    <3>2. CASE j \in 1..Len(old)
      BY <1>3, <2>4, <2>8, <3>1, <3>2
    <3>3. CASE j = Len(old) + 1
      BY <1>1, <2>4, <2>5, <3>1, <3>3
    <3>4. QED
      BY <2>6, <3>2, <3>3
  <2>9. ASSUME NEW m \in 1..n, s[m] \in S PROVE \E i \in 1..Len(old) + 1 : q[i] = m
    <3>1. CASE m = n
      <4>1. Len(old) + 1 \in 1..Len(old) + 1
        BY <1>4
      <4>2. QED
        BY <2>5, <3>1, <4>1
    <3>2. CASE m # n
      <4>1. m \in 1..n - 1
        BY <1>1, <3>2
      <4>2. PICK i \in 1..Len(old) : p[i] = m
        BY <1>3, <2>9, <4>1
      <4>3. i \in 1..Len(old) + 1
        BY <1>4
      <4>4. QED
        BY <2>4, <4>2, <4>3
    <3>3. QED
      BY <3>1, <3>2
  <2>10. PlacesOf(f, s, S, n)
    <3>1. Len(f[n]) = Len(old) + 1
      BY <2>1, <2>2
    <3>2. \A i \in 1..Len(f[n]) : f[n][i] = s[q[i]] /\ s[q[i]] \in S
      BY <2>1, <2>7, <3>1
    <3>3. \A i, j \in 1..Len(f[n]) : i < j => q[i] < q[j]
      BY <2>8, <3>1
    <3>4. \A m \in 1..n : s[m] \in S => \E i \in 1..Len(f[n]) : q[i] = m
      BY <2>9, <3>1
    <3>5. q \in [1..Len(f[n]) -> 1..n]
      BY <2>3, <3>1
    <3> HIDE DEF old
    <3>6. QED
      BY <3>2, <3>3, <3>4, <3>5 DEF PlacesOf
  <2>11. QED
    BY <2>10 DEF f
<1>7. QED
  BY <1>5, <1>6

\* A selection is made of the elements at places that go up, and has all that are in the set.
LEMMA OnlyPlaces ==
  ASSUME NEW A, NEW s \in Seq(A), NEW S
  PROVE  \E p \in [1..Len(Only(s, S)) -> 1..Len(s)] :
           /\ \A i \in 1..Len(Only(s, S)) : Only(s, S)[i] = s[p[i]] /\ s[p[i]] \in S
           /\ \A i, j \in 1..Len(Only(s, S)) : i < j => p[i] < p[j]
           /\ \A m \in 1..Len(s) : s[m] \in S => \E i \in 1..Len(Only(s, S)) : p[i] = m
<1> DEFINE N == Len(s)
           T == {n \in 0..N : PlacesOf(OnlyUpTo(s, S), s, S, n)}
<1>1. N \in Nat
  OBVIOUS
<1>2. 0 \in T
  <2>1. OnlyUpTo(s, S)[0] = <<>>
    BY OnlyUpToStep
  <2>2. 1..0 = {} /\ Len(OnlyUpTo(s, S)[0]) = 0
    BY <2>1
  <2> DEFINE p == [i \in 1..0 |-> i]
  <2>3. p \in [1..0 -> 1..0]
    OBVIOUS
  <2> HIDE DEF p
  <2>4. PlacesOf(OnlyUpTo(s, S), s, S, 0)
    BY <2>2, <2>3 DEF PlacesOf
  <2>5. QED
    BY <1>1, <2>4
<1>3. ASSUME NEW n \in 1..N, n - 1 \in T PROVE n \in T
  BY <1>1, <1>3, OnlyUpToPlaces
<1> HIDE DEF T
<1>4. 0..N \subseteq T
  BY <1>1, <1>2, <1>3, SetInduction
<1>5. N \in T
  BY <1>1, <1>4
<1>6. QED
  BY <1>5 DEF T, PlacesOf, Only

-----------------------------------------------------------------------------
(* The elements of a sequence *)

Distinct(s) == \A m, n \in DOMAIN s : s[m] = s[n] => m = n

LEMMA AppendElems ==
  ASSUME NEW S, NEW s \in Seq(S), NEW e \in S
  PROVE  /\ Elems(Append(s, e)) = Elems(s) \union {e}
         /\ Distinct(s) /\ e \notin Elems(s) => Distinct(Append(s, e))
<1> DEFINE t == Append(s, e)
<1>1. Len(s) \in Nat /\ DOMAIN s = 1..Len(s)
  OBVIOUS
<1>2. /\ DOMAIN t = 1..(Len(s) + 1)
      /\ t[Len(s) + 1] = e
      /\ \A n \in 1..Len(s) : t[n] = s[n]
  OBVIOUS
<1> HIDE DEF t
<1>3. Elems(t) = Elems(s) \union {e}
  BY <1>1, <1>2 DEF Elems
<1>4. Distinct(s) /\ e \notin Elems(s) => Distinct(t)
  BY <1>1, <1>2 DEF Elems, Distinct
<1>5. QED
  BY <1>3, <1>4 DEF t

LEMMA TailElems ==
  ASSUME NEW S, NEW s \in Seq(S), s # <<>>, Distinct(s)
  PROVE  /\ Head(s) \in Elems(s)
         /\ Elems(Tail(s)) = Elems(s) \ {Head(s)}
         /\ Distinct(Tail(s))
<1> DEFINE t == Tail(s)
<1>1. Len(s) \in Nat \ {0} /\ DOMAIN s = 1..Len(s) /\ Head(s) = s[1]
  OBVIOUS
<1>2. DOMAIN t = 1..(Len(s) - 1) /\ \A n \in 1..(Len(s) - 1) : t[n] = s[n + 1]
  OBVIOUS
<1> HIDE DEF t
<1>3. Elems(t) \subseteq Elems(s) \ {Head(s)}
  BY <1>1, <1>2 DEF Elems, Distinct
<1>4. ASSUME NEW x \in Elems(s) \ {Head(s)} PROVE x \in Elems(t)
  <2>1. PICK n \in 1..Len(s) : x = s[n]
    BY <1>1 DEF Elems
  <2>2. n - 1 \in 1..(Len(s) - 1) /\ t[n - 1] = x
    BY <1>1, <1>2, <1>4, <2>1
  <2>3. QED
    BY <1>2, <2>2 DEF Elems
<1>5. Distinct(t)
  BY <1>1, <1>2 DEF Distinct
<1>6. Head(s) \in Elems(s)
  BY <1>1 DEF Elems
<1>7. QED
  BY <1>3, <1>4, <1>5, <1>6 DEF t

LEMMA TailFacts ==
  ASSUME NEW A, NEW s \in Seq(A), s # <<>>
  PROVE  /\ Len(s) \in Nat \ {0} /\ DOMAIN s = 1..Len(s)
         /\ Head(s) = s[1] /\ Head(s) \in A
         /\ Tail(s) \in Seq(A) /\ DOMAIN Tail(s) = 1..Len(s) - 1
         /\ \A n \in 1..Len(s) - 1 : Tail(s)[n] = s[n + 1]
         /\ Len(s) # 1 => Tail(s) # <<>>
         /\ Len(s) = 1 => Tail(s) = <<>>
<1>1. Len(s) \in Nat /\ Len(s) # 0 /\ DOMAIN s = 1..Len(s) /\ Head(s) = s[1]
  OBVIOUS
<1>2. s[1] \in A
  BY <1>1
<1>3. /\ Tail(s) \in Seq(A) /\ Len(Tail(s)) = Len(s) - 1
      /\ \A n \in 1..Len(Tail(s)) : Tail(s)[n] = s[n + 1]
  BY HeadTailProperties
<1>4. DOMAIN Tail(s) = 1..Len(Tail(s))
  BY <1>3
<1>5. Len(s) # 1 => Tail(s) # <<>>
  <2>1. \A t \in Seq(A) : t = <<>> => Len(t) = 0
    OBVIOUS
  <2>2. Tail(s) = <<>> => Len(Tail(s)) = 0
    BY <1>3, <2>1
  <2>3. QED
    BY <1>1, <1>3, <2>2
<1>6. Len(s) = 1 => Tail(s) = <<>>
  <2>1. \A t \in Seq(A) : t # <<>> => Len(t) # 0
    BY EmptySeq
  <2>2. Tail(s) # <<>> => Len(Tail(s)) # 0
    BY <1>3, <2>1
  <2>3. QED
    BY <1>3, <2>2
<1>7. QED
  BY <1>1, <1>2, <1>3, <1>4, <1>5, <1>6

LEMMA OnlyElems ==
  ASSUME NEW A, NEW s \in Seq(A), NEW S
  PROVE  Only(s, S) \in Seq(A) /\ (Distinct(s) => Distinct(Only(s, S))) /\ Elems(Only(s, S)) = Elems(s) \intersect S
<1> DEFINE o == Only(s, S)
<1>1. o \in Seq(A) /\ o \in Seq(A) /\ DOMAIN o = 1..Len(o) /\ DOMAIN s = 1..Len(s) /\ Len(o) \in Nat
  <2>1. o \in Seq(A)
    BY OnlyOfAppend
  <2> HIDE DEF o
  <2>2. QED
    BY <2>1
<1>2. PICK p \in [1..Len(o) -> 1..Len(s)] :
        /\ \A i \in 1..Len(o) : o[i] = s[p[i]] /\ s[p[i]] \in S
        /\ \A i, j \in 1..Len(o) : i < j => p[i] < p[j]
        /\ \A m \in 1..Len(s) : s[m] \in S => \E i \in 1..Len(o) : p[i] = m
  BY OnlyPlaces
<1> HIDE DEF o
<1>3. \A i \in DOMAIN o : p[i] \in DOMAIN s /\ o[i] = s[p[i]] /\ o[i] \in S
  BY <1>1, <1>2
<1>4. Elems(o) \subseteq Elems(s) \intersect S
  BY <1>3 DEF Elems
<1>5. ASSUME NEW m \in DOMAIN s, s[m] \in S PROVE s[m] \in Elems(o)
  <2>1. PICK i \in 1..Len(o) : p[i] = m
    BY <1>1, <1>2, <1>5
  <2>2. i \in DOMAIN o /\ o[i] = s[m]
    BY <1>1, <1>3, <2>1
  <2>3. QED
    BY <2>2 DEF Elems
<1>6. Elems(s) \intersect S \subseteq Elems(o)
  BY <1>5 DEF Elems
<1>7. ASSUME Distinct(s) PROVE Distinct(o)
  <2>1. ASSUME NEW i \in DOMAIN o, NEW j \in DOMAIN o, o[i] = o[j] PROVE i = j
    <3>1. p[i] = p[j]
      BY <1>3, <1>7, <2>1 DEF Distinct
    <3>2. ~(i < j) /\ ~(j < i)
      <4>1. p[i] \in Nat /\ p[j] \in Nat
        BY <1>1
      <4>2. QED
        BY <1>1, <1>2, <3>1, <4>1
    <3>3. QED
      BY <1>1, <3>2
  <2>2. QED
    BY <2>1 DEF Distinct
<1>8. QED
  BY <1>1, <1>4, <1>6, <1>7 DEF o

-----------------------------------------------------------------------------
(* Selections from sequences put together *)

LEMMA AppendToConcat ==
  ASSUME NEW A, NEW s \in Seq(A), NEW t \in Seq(A), NEW e \in A
  PROVE  /\ s \o Append(t, e) = Append(s \o t, e)
         /\ Append(s, e) \o t = s \o (<<e>> \o t)
<1>1. <<e>> \in Seq(A) /\ s \o t \in Seq(A)
  BY ConcatProperties
<1>2. Append(t, e) = t \o <<e>> /\ Append(s, e) = s \o <<e>> /\ Append(s \o t, e) = (s \o t) \o <<e>>
  BY <1>1, AppendIsConcat
<1>3. QED
  BY <1>1, <1>2, ConcatAssociative

LEMMA OnlyOfConcat ==
  ASSUME NEW A, NEW s \in Seq(A), NEW t \in Seq(A), NEW S
  PROVE  Only(s \o t, S) = Only(s, S) \o Only(t, S)
<1>1. PICK u \in Seq(A) : u = s \o t
  BY ConcatProperties
<1> DEFINE T == {n \in 0..Len(t) : OnlyUpTo(u, S)[Len(s) + n] = Only(s, S) \o OnlyUpTo(t, S)[n]}
<1>2. /\ Len(u) = Len(s) + Len(t) /\ Len(s) \in Nat /\ Len(t) \in Nat
      /\ \A n \in 1..Len(s) : u[n] = s[n]
      /\ \A n \in 1..Len(t) : u[Len(s) + n] = t[n]
  <2>1. Len(s) \in Nat /\ Len(t) \in Nat /\ Len(u) = Len(s) + Len(t)
    BY <1>1, LenProperties, ConcatProperties
  <2>2. \A n \in 1..Len(s) + Len(t) : u[n] = IF n <= Len(s) THEN s[n] ELSE t[n - Len(s)]
    BY <1>1, ConcatProperties
  <2>3. \A n \in 1..Len(s) : u[n] = s[n]
    BY <2>1, <2>2
  <2>4. ASSUME NEW n \in 1..Len(t) PROVE u[Len(s) + n] = t[n]
    <3>1. PICK k \in 1..Len(s) + Len(t) : k = Len(s) + n
      BY <2>1
    <3>2. ~(k <= Len(s)) /\ k - Len(s) = n
      BY <2>1, <3>1
    <3>3. QED
      BY <2>2, <3>1, <3>2
  <2>5. QED
    BY <2>1, <2>3, <2>4
<1>3. 0 \in T
  <2>1. OnlyUpTo(u, S)[Len(s)] = Only(s, S)
    BY <1>2, OnlyUpToPrefix DEF Only
  <2>2. OnlyUpTo(t, S)[0] = <<>>
    BY OnlyUpToStep
  <2>3. Only(s, S) \in Seq(A)
    BY OnlyUpToStep, <1>2 DEF Only
  <2>4. Only(s, S) \o <<>> = Only(s, S)
    BY <2>3, ConcatEmptySeq
  <2>5. Len(s) + 0 = Len(s) /\ 0 \in 0..Len(t)
    BY <1>2
  <2>6. QED
    BY <2>1, <2>2, <2>4, <2>5
<1>4. ASSUME NEW n \in 1..Len(t), n - 1 \in T PROVE n \in T
  <2>1. PICK old \in Seq(A), new \in Seq(A), e \in A, k \in 1..Len(u) :
          /\ old = Only(s, S) /\ new = OnlyUpTo(t, S)[n - 1] /\ e = t[n] /\ k = Len(s) + n
    <3>1. OnlyUpTo(t, S)[n - 1] \in Seq(A) /\ Only(s, S) \in Seq(A)
      <4>1. n - 1 \in 0..Len(t)
        BY <1>2
      <4>2. Len(s) \in 0..Len(s)
        BY <1>2
      <4>3. QED
        BY <4>1, <4>2, OnlyUpToStep DEF Only
    <3>2. t[n] \in A /\ Len(s) + n \in 1..Len(u)
      BY <1>2
    <3>3. QED
      BY <3>1, <3>2
  <2>2. OnlyUpTo(u, S)[k - 1] = old \o new
    <3>1. k - 1 = Len(s) + (n - 1)
      BY <1>2, <2>1
    <3>2. QED
      BY <1>1, <1>4, <2>1, <3>1
  <2>3. OnlyUpTo(u, S)[k] = IF e \in S THEN Append(old \o new, e) ELSE old \o new
    <3>1. u[k] = e
      BY <1>2, <2>1
    <3>2. OnlyUpTo(u, S)[k] = IF u[k] \in S THEN Append(OnlyUpTo(u, S)[k - 1], u[k]) ELSE OnlyUpTo(u, S)[k - 1]
      BY <2>1, OnlyUpToStep
    <3>3. QED
      BY <2>2, <3>1, <3>2
  <2>4. OnlyUpTo(t, S)[n] = IF e \in S THEN Append(new, e) ELSE new
    BY <2>1, OnlyUpToStep
  <2>5. OnlyUpTo(u, S)[k] = old \o OnlyUpTo(t, S)[n]
    <3>1. old \o Append(new, e) = Append(old \o new, e)
      BY AppendToConcat
    <3>2. QED
      BY <2>3, <2>4, <3>1
  <2>6. QED
    BY <1>1, <1>2, <2>1, <2>5
<1> HIDE DEF T
<1>5. 0..Len(t) \subseteq T
  BY <1>2, <1>3, <1>4, SetInduction
<1>6. Len(t) \in T
  BY <1>2, <1>5
<1>7. QED
  BY <1>1, <1>2, <1>6 DEF T, Only

LEMMA OnlyOfNone ==
  ASSUME NEW A, NEW s \in Seq(A), NEW S, \A n \in DOMAIN s : s[n] \notin S
  PROVE  Only(s, S) = <<>>
<1>1. PICK o \in Seq(A) : o = Only(s, S)
  BY OnlyOfAppend
<1>2. Elems(o) = Elems(s) \intersect S
  BY <1>1, OnlyElems
<1>3. Elems(o) = {}
  BY <1>2 DEF Elems
<1>4. ASSUME o # <<>> PROVE FALSE
  <2>1. 1 \in DOMAIN o
    BY <1>4, LenProperties, EmptySeq
  <2>2. QED
    BY <1>3, <2>1 DEF Elems
<1>5. QED
  BY <1>1, <1>4

LEMMA OnlyOfAll ==
  ASSUME NEW A, NEW s \in Seq(A), NEW S, \A n \in DOMAIN s : s[n] \in S
  PROVE  Only(s, S) = s
<1> DEFINE f == OnlyUpTo(s, S)
           T == {n \in 0..Len(s) : Len(f[n]) = n /\ \A m \in 1..n : f[n][m] = s[m]}
<1>1. Len(s) \in Nat /\ DOMAIN s = 1..Len(s) /\ \A n \in 1..Len(s) : s[n] \in A
  BY LenProperties, ElementOfSeq
<1>2. /\ f[0] = <<>> /\ \A n \in 1..Len(s) : f[n] = Append(f[n - 1], s[n])
      /\ \A n \in 0..Len(s) : f[n] \in Seq(A)
  <2>1. f[0] = <<>>
    BY OnlyUpToStep
  <2>2. \A n \in 0..Len(s) : f[n] \in Seq(A)
    BY OnlyUpToStep
  <2>3. ASSUME NEW n \in 1..Len(s) PROVE f[n] = Append(f[n - 1], s[n])
    <3>1. f[n] = IF s[n] \in S THEN Append(f[n - 1], s[n]) ELSE f[n - 1]
      BY OnlyUpToStep
    <3>2. s[n] \in S
      BY <1>1
    <3>3. QED
      BY <3>1, <3>2, Zenon
  <2>4. QED
    BY <2>1, <2>2, <2>3, Zenon
<1> HIDE DEF f
<1>3. 0 \in T
  <2>1. Len(f[0]) = 0
    BY <1>2, EmptySeq
  <2>2. QED
    BY <1>1, <2>1
<1>4. ASSUME NEW n \in 1..Len(s), n - 1 \in T PROVE n \in T
  <2>1. n - 1 \in 0..Len(s) /\ n \in 0..Len(s)
    BY <1>1
  <2>2. PICK old \in Seq(A), e \in A : old = f[n - 1] /\ e = s[n]
    BY <1>1, <1>2, <2>1
  <2>3. Len(old) = n - 1 /\ \A m \in 1..n - 1 : old[m] = s[m]
    BY <1>4, <2>2
  <2>4. PICK new \in Seq(A) : new = Append(old, e)
    BY AppendProperties
  <2>5. Len(new) = Len(old) + 1 /\ new[Len(old) + 1] = e /\ \A m \in 1..Len(old) : new[m] = old[m]
    BY <2>4, AppendProperties
  <2>6. f[n] = new
    BY <1>2, <2>2, <2>4
  <2>7. Len(new) = n /\ \A m \in 1..n : new[m] = s[m]
    BY <1>1, <2>2, <2>3, <2>5
  <2>8. QED
    BY <2>1, <2>6, <2>7
<1> HIDE DEF T
<1>5. 0..Len(s) \subseteq T
  BY <1>1, <1>3, <1>4, SetInduction
<1>6. Len(s) \in T /\ Len(s) \in 0..Len(s)
  BY <1>1, <1>5
<1>7. f[Len(s)] = s
  BY <1>2, <1>6, SeqEqual DEF T
<1>8. QED
  BY <1>7 DEF f, Only

\* A sequence without its n-th element.
Lacking(s, n) == SubSeq(s, 1, n - 1) \o SubSeq(s, n + 1, Len(s))

\* What is not kept may go, and what is kept first comes first.
LEMMA OnlyWithout ==
  ASSUME NEW A, NEW s \in Seq(A), NEW n \in DOMAIN s, NEW S
  PROVE  /\ Lacking(s, n) \in Seq(A)
         /\ s[n] \notin S => Only(s, S) = Only(Lacking(s, n), S)
         /\ s[n] \in S /\ (\A m \in 1..n - 1 : s[m] \notin S) => Only(s, S) = <<s[n]>> \o Only(Lacking(s, n), S)
<1>1. \A t, u \in Seq(A) : Only(t \o u, S) = Only(t, S) \o Only(u, S)
  BY ONLY OnlyOfConcat
<1>2. Only(<<>>, S) = <<>> /\ \A t \in Seq(A) : \A f \in A :
         Only(Append(t, f), S) = IF f \in S THEN Append(Only(t, S), f) ELSE Only(t, S)
  <2>1. ASSUME NEW t \in Seq(A), NEW f \in A
        PROVE Only(Append(t, f), S) = IF f \in S THEN Append(Only(t, S), f) ELSE Only(t, S)
    BY ONLY OnlyOfAppend, t \in Seq(A), f \in A
  <2>2. Only(<<>>, S) = <<>>
    <3>1. s[n] \in A
      BY ElementOfSeq
    <3>2. QED
      BY ONLY <3>1, s \in Seq(A), OnlyOfAppend
  <2>3. QED
    BY <2>1, <2>2, Zenon
<1>3. Len(s) \in Nat /\ n \in 1..Len(s) /\ DOMAIN s = 1..Len(s)
  BY LenProperties
<1>4. PICK a \in Seq(A), b \in Seq(A), e \in A :
        a = SubSeq(s, 1, n - 1) /\ b = SubSeq(s, n + 1, Len(s)) /\ e = s[n]
  <2>1. SubSeq(s, 1, n - 1) \in Seq(A)
    BY <1>3, SubSeqProperties, ElementOfSeq
  <2>2. SubSeq(s, n + 1, Len(s)) \in Seq(A)
    BY <1>3, SubSeqProperties, ElementOfSeq
  <2>3. s[n] \in A
    BY <1>3, ElementOfSeq
  <2>4. QED
    BY <2>1, <2>2, <2>3, Zenon
<1>5. s = a \o (<<e>> \o b)
  <2>1. SubSeq(s, 1, n - 1) \o SubSeq(s, (n - 1) + 1, Len(s)) = SubSeq(s, 1, Len(s))
    <3>1. 1 \in 1..Len(s) + 1 /\ n - 1 \in 1 - 1 .. Len(s) /\ Len(s) \in n - 1 .. Len(s)
      BY <1>3
    <3>2. QED
      BY <3>1, ConcatAdjacentSubSeq
  <2>2. (n - 1) + 1 = n
    BY <1>3
  <2>3. SubSeq(s, n, Len(s)) = <<s[n]>> \o SubSeq(s, n + 1, Len(s))
    <3>1. n \in 1..Len(s) /\ Len(s) \in n..Len(s)
      BY <1>3
    <3>2. QED
      BY <3>1, SubSeqRecursiveFirst
  <2>4. SubSeq(s, 1, Len(s)) = s
    BY SubSeqFull
  <2>5. QED
    BY <1>4, <2>1, <2>2, <2>3, <2>4
<1>6. PICK c \in Seq(A), d \in Seq(A) : c = <<e>> /\ d = c \o b
  <2>1. <<e>> \in Seq(A)
    OBVIOUS
  <2>2. <<e>> \o b \in Seq(A)
    BY <2>1, ConcatProperties
  <2>3. QED
    BY <2>1, <2>2, Zenon
<1>7. PICK x \in Seq(A), y \in Seq(A), z \in Seq(A) : x = Only(a, S) /\ y = Only(b, S) /\ z = Only(c, S)
  <2>1. Only(a, S) \in Seq(A) /\ Only(b, S) \in Seq(A) /\ Only(c, S) \in Seq(A)
    BY OnlyElems
  <2>2. QED
    BY <2>1, Zenon
<1>8. Only(s, S) = x \o (z \o y)
  <2>1. Only(c \o b, S) = Only(c, S) \o Only(b, S)
    BY <1>1, Zenon
  <2>2. Only(a \o d, S) = Only(a, S) \o Only(d, S)
    BY <1>1, Zenon
  <2>3. s = a \o d
    BY <1>5, <1>6, Zenon
  <2>4. QED
    BY <1>6, <1>7, <2>1, <2>2, <2>3, Zenon
<1>9. Only(Lacking(s, n), S) = x \o y
  <2>1. Only(a \o b, S) = Only(a, S) \o Only(b, S)
    BY <1>1, Zenon
  <2>2. Lacking(s, n) = a \o b
    BY <1>4, Zenon DEF Lacking
  <2>3. QED
    BY <1>7, <2>1, <2>2, Zenon
<1>10. z = IF e \in S THEN <<e>> ELSE <<>>
  <2>1. <<>> \in Seq(A)
    OBVIOUS
  <2>2. PICK none \in Seq(A) : none = <<>>
    BY <2>1, Zenon
  <2>3. Append(none, e) = c
    BY <1>6, <2>2
  <2>4. /\ Only(<<>>, S) = <<>>
        /\ Only(Append(none, e), S) = IF e \in S THEN Append(Only(none, S), e) ELSE Only(none, S)
    BY <1>2, Zenon
  <2>5. Only(none, S) = none
    BY <2>2, <2>4, Zenon
  <2>6. Only(c, S) = IF e \in S THEN c ELSE none
    BY <2>3, <2>4, <2>5, Zenon
  <2>7. QED
    BY <1>6, <1>7, <2>2, <2>6, Zenon
<1>11. Lacking(s, n) \in Seq(A)
  <2>1. a \o b \in Seq(A)
    BY ConcatProperties
  <2>2. QED
    BY <1>4, <2>1, Zenon DEF Lacking
<1>12. ASSUME s[n] \notin S PROVE Only(s, S) = Only(Lacking(s, n), S)
  <2>1. z = <<>>
    BY <1>4, <1>10, <1>12, Zenon
  <2>2. z \o y = y
    BY <2>1, ConcatEmptySeq
  <2>3. QED
    BY <1>8, <1>9, <2>2, Zenon
<1>13. ASSUME s[n] \in S, \A m \in 1..n - 1 : s[m] \notin S
       PROVE  Only(s, S) = <<s[n]>> \o Only(Lacking(s, n), S)
  <2>1. \A m \in DOMAIN a : a[m] \notin S
    <3>1. Len(a) = n - 1 /\ \A m \in 1..n - 1 : a[m] = s[m]
      BY <1>3, <1>4, SubSeqProperties
    <3>2. DOMAIN a = 1..n - 1
      BY <3>1, LenProperties
    <3>3. QED
      BY <1>13, <3>1, <3>2
  <2>2. x = <<>>
    BY <1>7, <2>1, OnlyOfNone
  <2>3. x \o y = y /\ x \o (z \o y) = z \o y
    BY <2>2, ConcatEmptySeq, ConcatProperties
  <2>4. z = <<s[n]>>
    BY <1>4, <1>10, <1>13, Zenon
  <2>5. QED
    BY <1>8, <1>9, <2>3, <2>4, Zenon
<1>14. QED
  BY <1>11, <1>12, <1>13, Zenon

\* A sequence between the two it was put together from.
LEMMA ConcatParts ==
  ASSUME NEW A, NEW s \in Seq(A), NEW t \in Seq(A)
  PROVE  /\ SubSeq(s \o t, 1, Len(s)) = s
         /\ SubSeq(s \o t, Len(s) + 1, Len(s \o t)) = t
<1>1. Len(s) \in Nat /\ Len(t) \in Nat /\ s \o t \in Seq(A) /\ Len(s \o t) = Len(s) + Len(t)
  BY LenProperties, ConcatProperties
<1>2. SubSeq(s \o t, 1, Len(s)) = s
  <2>1. CASE Len(s) = 0
    BY <1>1, <2>1, SubSeqEmpty, EmptySeq
  <2>2. CASE Len(s) # 0
    <3>1. 1 \in 1..Len(s) /\ Len(s) \in 1..Len(s)
      BY <1>1, <2>2
    <3>2. QED
      BY <3>1, SubSeqOfConcat1, SubSeqFull
  <2>3. QED
    BY <2>1, <2>2
<1>3. SubSeq(s \o t, Len(s) + 1, Len(s \o t)) = t
  <2>1. CASE Len(t) = 0
    BY <1>1, <2>1, SubSeqEmpty, EmptySeq
  <2>2. CASE Len(t) # 0
    <3>1. Len(s) + 1 \in Len(s) + 1 .. Len(s) + Len(t) /\ Len(s) + Len(t) \in Len(s) + 1 .. Len(s) + Len(t)
          /\ (Len(s) + 1) - Len(s) = 1 /\ (Len(s) + Len(t)) - Len(s) = Len(t)
      BY <1>1, <2>2
    <3>2. SubSeq(s \o t, Len(s) + 1, Len(s) + Len(t)) = SubSeq(t, 1, Len(t))
      BY <3>1, SubSeqOfConcat2
    <3>3. QED
      BY <1>1, <3>2, SubSeqFull
  <2>3. QED
    BY <2>1, <2>2
<1>4. QED
  BY <1>2, <1>3

=============================================================================
