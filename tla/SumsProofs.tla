------------------------------ MODULE SumsProofs ------------------------------
(***************************************************************************)
(* Induction over the naturals in a form without an operator for the       *)
(* formula to be proved: the set of the numbers it holds for is enough.    *)
(* With it, what running totals are and how they change.                   *)
(***************************************************************************)
EXTENDS Sums, WellFoundedInduction, TLAPS

\* Every set of naturals with an element has a least one.
LEMMA LeastElement ==
  ASSUME NEW T, T \subseteq Nat, T # {}
  PROVE  \E n \in T : \A m \in T : n =< m
<1> DEFINE R == {ss \in Nat \X Nat : ss[1] < ss[2]}
<1>1. IsWellFoundedOn(R, Nat)
  BY NatLessThanWellFounded DEF OpToRel
<1> HIDE DEF R
<1>2. PICK n \in T : \A m \in T : ~(<<m, n>> \in R)
  BY <1>1, WFMin
<1>3. \A m \in T : ~(m < n)
  <2> TAKE m \in T
  <2>1. <<m, n>> \in Nat \X Nat /\ <<m, n>>[1] = m /\ <<m, n>>[2] = n
    OBVIOUS
  <2> QED
    BY <1>2, <2>1 DEF R
<1> QED
  BY <1>3

\* A set that holds 0 and, with each natural number, the next holds all.
LEMMA Induction ==
  ASSUME NEW S, 0 \in S, \A n \in Nat : n \in S => n + 1 \in S
  PROVE  \A n \in Nat : n \in S
<1> DEFINE T == {n \in Nat : n \notin S}
<1>1. SUFFICES ASSUME T # {} PROVE FALSE
  OBVIOUS
<1>2. PICK n \in T : \A m \in T : n =< m
  BY <1>1, LeastElement
<1>3. n # 0 /\ n - 1 \in Nat /\ n - 1 \notin T
  BY <1>2
<1> QED
  BY <1>2, <1>3

\* The recursion of sumOf up to n.
Totals(s, u, n) ==
  /\ DOMAIN s = 0 .. n
  /\ s[0] = 0
  /\ \A i \in 1 .. n : s[i] = s[i - 1] + u[i]

\* There are totals of every list of numbers.
LEMMA TotalsExist ==
  ASSUME NEW u, NEW n \in Nat, \A i \in 1 .. n : u[i] \in Int
  PROVE  \E s \in [0 .. n -> Int] : Totals(s, u, n)
<1> DEFINE P(k) == \E s \in [0 .. k -> Int] : Totals(s, u, k)
           S    == {k \in Nat : k =< n => P(k)}
<1>1. P(0)
  <2> DEFINE s == [i \in 0 .. 0 |-> 0]
  <2>1. s \in [0 .. 0 -> Int] /\ Totals(s, u, 0)
    BY DEF Totals
  <2> QED
    BY <2>1
<1>2. ASSUME NEW k \in Nat, k \in S PROVE k + 1 \in S
  <2>1. SUFFICES ASSUME k + 1 =< n PROVE P(k + 1)
    OBVIOUS
  <2>2. PICK s \in [0 .. k -> Int] : Totals(s, u, k)
    BY <1>2, <2>1
  <2> DEFINE t == [i \in 0 .. k + 1 |-> IF i = k + 1 THEN s[k] + u[k + 1] ELSE s[i]]
  <2>3. s[k] \in Int /\ u[k + 1] \in Int
    BY <2>1, <2>2
  <2>4. t \in [0 .. k + 1 -> Int] /\ DOMAIN t = 0 .. k + 1
    BY <2>2, <2>3
  <2>5. t[0] = 0
    BY <2>2 DEF Totals
  <2>6. ASSUME NEW i \in 1 .. k + 1 PROVE t[i] = t[i - 1] + u[i]
    <3>1. CASE i = k + 1
      <4>1. t[i] = s[k] + u[k + 1] /\ t[i - 1] = s[k]
        BY <3>1
      <4> QED
        BY <3>1, <4>1
    <3>2. CASE i # k + 1
      <4>1. i \in 1 .. k /\ i - 1 \in 0 .. k + 1 /\ i - 1 # k + 1 /\ i \in 0 .. k + 1
        BY <3>2
      <4>2. t[i] = s[i] /\ t[i - 1] = s[i - 1]
        BY <3>2, <4>1
      <4> QED
        BY <2>2, <4>1, <4>2 DEF Totals
    <3> QED
      BY <3>1, <3>2
  <2> HIDE DEF t
  <2> QED
    BY <2>4, <2>5, <2>6 DEF Totals
<1> HIDE DEF P
<1>3. 0 \in S
  BY <1>1
<1>4. n \in S
  <2> HIDE DEF S
  <2> QED
    BY <1>2, <1>3, Induction
<1>5. P(n)
  BY <1>4
<1> QED
  BY <1>5 DEF P

\* Two totals agree as far as their numbers do.
LEMMA TotalsUnique ==
  ASSUME NEW u, NEW v, NEW n \in Nat, NEW m \in Nat, NEW s, NEW t,
         Totals(s, u, n), Totals(t, v, m),
         NEW k \in Nat, k =< n, k =< m, \A i \in 1 .. k : u[i] = v[i]
  PROVE  s[k] = t[k]
<1> DEFINE S == {i \in Nat : i =< k => s[i] = t[i]}
<1>1. 0 \in S
  BY DEF Totals
<1>2. ASSUME NEW i \in Nat, i \in S PROVE i + 1 \in S
  <2>1. SUFFICES ASSUME i + 1 =< k PROVE s[i + 1] = t[i + 1]
    OBVIOUS
  <2>2. i + 1 \in 1 .. n /\ i + 1 \in 1 .. m /\ i + 1 \in 1 .. k /\ (i + 1) - 1 = i
    BY <2>1
  <2>3. s[i] = t[i] /\ u[i + 1] = v[i + 1]
    BY <1>2, <2>1, <2>2
  <2> QED
    BY <2>2, <2>3 DEF Totals
<1>3. k \in S
  <2> HIDE DEF S
  <2> QED
    BY <1>1, <1>2, Induction
<1> QED
  BY <1>3

\* sumOf is the last of the totals, whatever lies behind.
LEMMA SumIsTotal ==
  ASSUME NEW u, NEW n \in Nat, NEW m \in Nat, n =< m, NEW s, Totals(s, u, m),
         \A i \in 1 .. n : u[i] \in Int
  PROVE  sumOf(u, n) = s[n]
<1> DEFINE f == CHOOSE f : f = [i \in 0 .. n |-> IF i = 0 THEN 0 ELSE f[i - 1] + u[i]]
<1>1. sumOf(u, n) = f[n]
  BY DEF sumOf
<1>2. PICK t \in [0 .. n -> Int] : Totals(t, u, n)
  BY TotalsExist
<1>3. t = [i \in 0 .. n |-> IF i = 0 THEN 0 ELSE t[i - 1] + u[i]]
  BY <1>2 DEF Totals
<1>4. f = [i \in 0 .. n |-> IF i = 0 THEN 0 ELSE f[i - 1] + u[i]]
  BY <1>3
<1> HIDE DEF f
<1>5. Totals(f, u, n)
  BY <1>4 DEF Totals
<1>6. f[n] = s[n]
  BY <1>5, TotalsUnique
<1> QED
  BY <1>1, <1>6

\* The sum of nothing, and the sum of one more.
LEMMA SumZero == ASSUME NEW u PROVE sumOf(u, 0) = 0
<1>1. \A i \in 1 .. 0 : u[i] \in Int
  OBVIOUS
<1>2. PICK s \in [0 .. 0 -> Int] : Totals(s, u, 0)
  BY <1>1, TotalsExist
<1>3. s[0] = 0
  BY <1>2 DEF Totals
<1>4. sumOf(u, 0) = s[0]
  BY <1>1, <1>2, SumIsTotal
<1> QED
  BY <1>3, <1>4

LEMMA SumNext ==
  ASSUME NEW u, NEW n \in Nat, \A i \in 1 .. n + 1 : u[i] \in Int
  PROVE  sumOf(u, n + 1) = sumOf(u, n) + u[n + 1] /\ sumOf(u, n) \in Int
<1>1. PICK s \in [0 .. n + 1 -> Int] : Totals(s, u, n + 1)
  BY TotalsExist
<1>2. sumOf(u, n + 1) = s[n + 1] /\ sumOf(u, n) = s[n]
  BY <1>1, SumIsTotal
<1>3. s[n + 1] = s[n] + u[n + 1] /\ s[n] \in Int
  BY <1>1 DEF Totals
<1> QED
  BY <1>2, <1>3

\* Only the numbers that are summed matter.
LEMMA SumSame ==
  ASSUME NEW u, NEW v, NEW n \in Nat,
         \A i \in 1 .. n : u[i] \in Int, \A i \in 1 .. n : u[i] = v[i]
  PROVE  sumOf(u, n) = sumOf(v, n)
<1>1. PICK s \in [0 .. n -> Int] : Totals(s, u, n)
  BY TotalsExist
<1>2. Totals(s, v, n)
  BY <1>1 DEF Totals
<1> QED
  BY <1>1, <1>2, SumIsTotal

\* Sums of naturals grow: the numbers from one place to another lie between.
LEMMA SumGrows ==
  ASSUME NEW u, NEW n \in Nat, \A i \in 1 .. n : u[i] \in Nat
  PROVE  /\ \A k \in 0 .. n : sumOf(u, k) \in Nat
         /\ \A k, l \in 0 .. n : k =< l => sumOf(u, k) =< sumOf(u, l)
         /\ \A k \in 1 .. n : sumOf(u, k) = sumOf(u, k - 1) + u[k]
<1>1. PICK s \in [0 .. n -> Int] : Totals(s, u, n)
  <2>1. \A i \in 1 .. n : u[i] \in Int
    OBVIOUS
  <2> QED
    BY <2>1, TotalsExist
<1>2. \A k \in 0 .. n : sumOf(u, k) = s[k]
  BY <1>1, SumIsTotal
<1> DEFINE S == {k \in Nat : k =< n => /\ s[k] \in Nat
                                       /\ \A l \in 0 .. k : s[l] =< s[k]}
<1>3. 0 \in S
  BY <1>1 DEF Totals
<1>4. ASSUME NEW k \in Nat, k \in S PROVE k + 1 \in S
  <2>1. SUFFICES ASSUME k + 1 =< n
                 PROVE  s[k + 1] \in Nat /\ \A l \in 0 .. k + 1 : s[l] =< s[k + 1]
    OBVIOUS
  <2>2. s[k] \in Nat /\ \A l \in 0 .. k : s[l] =< s[k]
    BY <1>4, <2>1
  <2>3. k + 1 \in 1 .. n /\ (k + 1) - 1 = k /\ u[k + 1] \in Nat
    BY <2>1
  <2>4. s[k + 1] = s[k] + u[k + 1]
    BY <1>1, <2>3 DEF Totals
  <2>5. \A l \in 0 .. k : s[l] \in Int
    BY <1>1, <2>1
  <2>6. \A l \in 0 .. k + 1 : l \in 0 .. k \/ l = k + 1
    OBVIOUS
  <2> QED
    BY <2>2, <2>3, <2>4, <2>5, <2>6
<1>5. \A k \in Nat : k \in S
  <2> HIDE DEF S
  <2> QED
    BY <1>3, <1>4, Induction
<1>6. \A k \in 0 .. n : s[k] \in Nat /\ \A l \in 0 .. k : s[l] =< s[k]
  BY <1>5
<1>7. \A k \in 1 .. n : sumOf(u, k) = sumOf(u, k - 1) + u[k]
  <2> TAKE k \in 1 .. n
  <2>1. k \in 0 .. n /\ k - 1 \in 0 .. n
    OBVIOUS
  <2> QED
    BY <1>1, <1>2, <2>1 DEF Totals
<1> QED
  BY <1>2, <1>6, <1>7
==============================================================================
