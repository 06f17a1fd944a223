---------------------------- MODULE CompilerProofs ----------------------------
(***************************************************************************)
(* For every text, in the language or not: the nodes in the arena always   *)
(* make a forest that the calls in progress own, and one tree when the     *)
(* program node is returned; the tokens are the longest ones; the tree     *)
(* says what the tokens say; and each step leaves less to do.              *)
(***************************************************************************)
EXTENDS CompilerProps, SumsProofs, SequenceTheorems, TLAPS

(***************************************************************************)
(* Ownership of numbers.  P[n] are the parts of node n, of N nodes, L[f]   *)
(* the locals of call f and r the node returned; where there is no node or *)
(* call there are no parts or locals, so that calling a function, which    *)
(* has no locals yet, changes nothing.                                     *)
(***************************************************************************)
Lists == [Nat -> Seq(Nat)]

Owned(P, N, L, r) ==
  /\ \A n \in Nat : \A k \in DOMAIN P[n] : P[n][k] \in 1 .. n - 1 /\ n \in 1 .. N
  /\ \A f \in Nat : \A k \in DOMAIN L[f] : L[f][k] \in 1 .. N /\ L[f][k] # r
  /\ \A n, m \in Nat : \A k \in DOMAIN P[n] : \A l \in DOMAIN P[m] : P[n][k] = P[m][l] => n = m /\ k = l
  /\ \A f, g \in Nat : \A k \in DOMAIN L[f] : \A l \in DOMAIN L[g] : L[f][k] = L[g][l] => f = g /\ k = l
  /\ \A n \in Nat : \A k \in DOMAIN P[n] :
       P[n][k] # r /\ \A f \in Nat : \A l \in DOMAIN L[f] : P[n][k] # L[f][l]
  /\ \A i \in 1 .. N :
       \/ i = r
       \/ \E n \in Nat : \E k \in DOMAIN P[n] : P[n][k] = i
       \/ \E f \in Nat : \E k \in DOMAIN L[f] : L[f][k] = i

\* A list with one more item.
LEMMA AppendFacts ==
  ASSUME NEW s \in Seq(Nat), NEW r \in Nat
  PROVE  /\ Append(s, r) \in Seq(Nat)
         /\ DOMAIN Append(s, r) = DOMAIN s \cup {Len(s) + 1}
         /\ \A k \in DOMAIN s : Append(s, r)[k] = s[k]
         /\ Append(s, r)[Len(s) + 1] = r
         /\ Len(s) + 1 \notin DOMAIN s
<1>1. DOMAIN s = 1 .. Len(s) /\ Len(s) \in Nat
  OBVIOUS
<1>2. DOMAIN Append(s, r) = 1 .. Len(s) + 1
  OBVIOUS
<1> QED
  BY <1>1, <1>2

\* The node returned becomes a local.
LEMMA KeepOwned ==
  ASSUME NEW N \in Nat, NEW P \in Lists, NEW L \in Lists, NEW r \in 1 .. N, NEW h \in Nat,
         Owned(P, N, L, r)
  PROVE  Owned(P, N, [L EXCEPT ![h] = Append(@, r)], 0)
<1> DEFINE M == [L EXCEPT ![h] = Append(@, r)]
<1>1. /\ \A n \in Nat : \A k \in DOMAIN P[n] : P[n][k] \in 1 .. n - 1 /\ n \in 1 .. N
      /\ \A f \in Nat : \A k \in DOMAIN L[f] : L[f][k] \in 1 .. N /\ L[f][k] # r
      /\ \A n \in Nat : \A k \in DOMAIN P[n] : P[n][k] # r
  BY DEF Owned
<1>2. L[h] \in Seq(Nat) /\ r \in Nat
  BY DEF Lists
<1>3. /\ \A f \in Nat \ {h} : M[f] = L[f]
      /\ DOMAIN M[h] = DOMAIN L[h] \cup {Len(L[h]) + 1}
      /\ \A k \in DOMAIN L[h] : M[h][k] = L[h][k]
      /\ M[h][Len(L[h]) + 1] = r
      /\ Len(L[h]) + 1 \notin DOMAIN L[h]
  <2>1. M[h] = Append(L[h], r)
    BY DEF Lists
  <2>2. \A f \in Nat \ {h} : M[f] = L[f]
    BY DEF Lists
  <2> QED
    BY <1>2, <2>1, <2>2, AppendFacts
<1> HIDE DEF M
<1>4. \A f \in Nat : \A k \in DOMAIN M[f] :
        \/ k \in DOMAIN L[f] /\ M[f][k] = L[f][k]
        \/ f = h /\ k = Len(L[h]) + 1 /\ M[f][k] = r
  BY <1>3
<1>5. \A f \in Nat : \A k \in DOMAIN L[f] : k \in DOMAIN M[f] /\ M[f][k] = L[f][k]
  BY <1>3
<1>6. \A f \in Nat : \A k \in DOMAIN M[f] : M[f][k] \in 1 .. N /\ M[f][k] # 0
  BY <1>1, <1>4
<1>7. \A f, g \in Nat : \A k \in DOMAIN M[f] : \A l \in DOMAIN M[g] :
        M[f][k] = M[g][l] => f = g /\ k = l
  BY <1>1, <1>4 DEF Owned
<1>8. \A n \in Nat : \A k \in DOMAIN P[n] :
        P[n][k] # 0 /\ \A f \in Nat : \A l \in DOMAIN M[f] : P[n][k] # M[f][l]
  BY <1>1, <1>4 DEF Owned
<1>9. \A i \in 1 .. N :
        \/ \E n \in Nat : \E k \in DOMAIN P[n] : P[n][k] = i
        \/ \E f \in Nat : \E k \in DOMAIN M[f] : M[f][k] = i
  <2>1. Len(L[h]) + 1 \in DOMAIN M[h] /\ M[h][Len(L[h]) + 1] = r
    BY <1>3
  <2> QED
    BY <1>5, <2>1 DEF Owned
<1> QED
  BY <1>6, <1>7, <1>8, <1>9 DEF Owned, M

\* A new node without parts is returned.
LEMMA LeafOwned ==
  ASSUME NEW N \in Nat, NEW P \in Lists, NEW L \in Lists, Owned(P, N, L, 0), P[N + 1] = <<>>
  PROVE  Owned(P, N + 1, L, N + 1)
<1>1. \A n \in Nat : \A k \in DOMAIN P[n] : P[n][k] \in 1 .. n - 1 /\ n \in 1 .. N + 1
  BY DEF Owned
<1>2. \A f \in Nat : \A k \in DOMAIN L[f] : L[f][k] \in 1 .. N + 1 /\ L[f][k] # N + 1
  BY DEF Owned
<1>3. \A n \in Nat : \A k \in DOMAIN P[n] :
        P[n][k] # N + 1 /\ \A f \in Nat : \A l \in DOMAIN L[f] : P[n][k] # L[f][l]
  <2>1. \A n \in Nat : \A k \in DOMAIN P[n] : P[n][k] # N + 1
    BY DEF Owned
  <2>2. \A n \in Nat : \A k \in DOMAIN P[n] : \A f \in Nat : \A l \in DOMAIN L[f] : P[n][k] # L[f][l]
    BY DEF Owned
  <2> QED
    BY <2>1, <2>2
<1>4. \A i \in 1 .. N + 1 :
        \/ i = N + 1
        \/ \E n \in Nat : \E k \in DOMAIN P[n] : P[n][k] = i
        \/ \E f \in Nat : \E k \in DOMAIN L[f] : L[f][k] = i
  <2>1. \A i \in 1 .. N + 1 : i = N + 1 \/ (i \in 1 .. N /\ i # 0)
    OBVIOUS
  <2> QED
    BY <2>1 DEF Owned
<1>5. \A n, m \in Nat : \A k \in DOMAIN P[n] : \A l \in DOMAIN P[m] : P[n][k] = P[m][l] => n = m /\ k = l
  BY DEF Owned
<1>6. \A f, g \in Nat : \A k \in DOMAIN L[f] : \A l \in DOMAIN L[g] : L[f][k] = L[g][l] => f = g /\ k = l
  BY DEF Owned
<1> QED
  BY ONLY <1>1, <1>2, <1>3, <1>4, <1>5, <1>6 DEF Owned

\* The locals of call h, and the node returned if there is one, become the parts
\* of a new node, which is returned.
LEMMA BuildOwned ==
  ASSUME NEW N \in Nat, NEW P \in Lists, NEW L \in Lists, NEW r \in 0 .. N, NEW h \in Nat,
         Owned(P, N, L, r), P[N + 1] = <<>>
  PROVE  LET kids == L[h] \o IF r = 0 THEN <<>> ELSE <<r>>
         IN Owned([P EXCEPT ![N + 1] = kids], N + 1, [L EXCEPT ![h] = <<>>], N + 1)
<1> DEFINE kids == L[h] \o IF r = 0 THEN <<>> ELSE <<r>>
           Q == [P EXCEPT ![N + 1] = kids]
           M == [L EXCEPT ![h] = <<>>]
<1>1. L[h] \in Seq(Nat) /\ kids \in Seq(Nat)
  BY DEF Lists
<1>2. /\ \A k \in DOMAIN kids :
           \/ k \in DOMAIN L[h] /\ kids[k] = L[h][k]
           \/ k = Len(L[h]) + 1 /\ kids[k] = r /\ r # 0
      /\ \A k \in DOMAIN L[h] : k \in DOMAIN kids /\ kids[k] = L[h][k]
      /\ r # 0 => Len(L[h]) + 1 \in DOMAIN kids /\ kids[Len(L[h]) + 1] = r
  <2>1. CASE r = 0
    <3>1. kids = L[h]
      <4>1. L[h] \o <<>> = L[h]
        BY <1>1
      <4> QED
        BY <2>1, <4>1
    <3> QED
      BY <2>1, <3>1
  <2>2. CASE r # 0
    <3>1. kids = Append(L[h], r) /\ r \in Nat
      <4>1. L[h] \o <<r>> = Append(L[h], r)
        BY <1>1
      <4> QED
        BY <2>2, <4>1
    <3> QED
      BY <1>1, <2>2, <3>1, AppendFacts
  <2> QED
    BY <2>1, <2>2
<1>3. /\ \A f \in Nat \ {h} : M[f] = L[f]
      /\ M[h] = <<>>
      /\ \A n \in Nat \ {N + 1} : Q[n] = P[n]
      /\ Q[N + 1] = kids
  <2>1. N + 1 \in Nat /\ DOMAIN P = Nat /\ DOMAIN L = Nat
    BY DEF Lists
  <2> HIDE DEF kids
  <2> QED
    BY <2>1
<1> HIDE DEF kids, Q, M
<1>4. \A f \in Nat : \A k \in DOMAIN M[f] : f # h /\ k \in DOMAIN L[f] /\ M[f][k] = L[f][k]
  BY <1>3
<1>5. \A n \in Nat : \A k \in DOMAIN Q[n] :
        \/ n # N + 1 /\ k \in DOMAIN P[n] /\ Q[n][k] = P[n][k]
        \/ n = N + 1 /\ k \in DOMAIN L[h] /\ Q[n][k] = L[h][k]
        \/ n = N + 1 /\ k = Len(L[h]) + 1 /\ Q[n][k] = r /\ r # 0
  BY <1>2, <1>3
<1>6. /\ \A n \in Nat : \A k \in DOMAIN P[n] : P[n][k] \in 1 .. n - 1 /\ n \in 1 .. N /\ P[n][k] # r
      /\ \A f \in Nat : \A k \in DOMAIN L[f] : L[f][k] \in 1 .. N /\ L[f][k] # r
  BY DEF Owned
<1>7. \A n \in Nat : \A k \in DOMAIN Q[n] : Q[n][k] \in 1 .. n - 1 /\ n \in 1 .. N + 1
  <2> SUFFICES ASSUME NEW n \in Nat, NEW k \in DOMAIN Q[n]
               PROVE  Q[n][k] \in 1 .. n - 1 /\ n \in 1 .. N + 1
    OBVIOUS
  <2> QED
    BY <1>5, <1>6
<1>8. \A f \in Nat : \A k \in DOMAIN M[f] : M[f][k] \in 1 .. N + 1 /\ M[f][k] # N + 1
  BY <1>4, <1>6
<1>9. \A n, m \in Nat : \A k \in DOMAIN Q[n] : \A l \in DOMAIN Q[m] : Q[n][k] = Q[m][l] => n = m /\ k = l
  <2> SUFFICES ASSUME NEW n \in Nat, NEW m \in Nat, NEW k \in DOMAIN Q[n], NEW l \in DOMAIN Q[m],
                      Q[n][k] = Q[m][l]
               PROVE  n = m /\ k = l
    OBVIOUS
  <2>1. CASE n # N + 1 /\ m # N + 1
    BY <1>5, <2>1 DEF Owned
  <2>2. CASE n # N + 1 /\ m = N + 1
    BY <1>5, <1>6, <2>2 DEF Owned
  <2>3. CASE n = N + 1 /\ m # N + 1
    BY <1>5, <1>6, <2>3 DEF Owned
  <2>4. CASE n = N + 1 /\ m = N + 1
    <3>1. CASE k \in DOMAIN L[h] /\ Q[n][k] = L[h][k]
      BY <1>5, <1>6, <2>4, <3>1 DEF Owned
    <3>2. CASE k = Len(L[h]) + 1 /\ Q[n][k] = r
      BY <1>5, <1>6, <2>4, <3>2
    <3> QED
      BY <1>5, <2>4, <3>1, <3>2
  <2> QED
    BY <2>1, <2>2, <2>3, <2>4
<1>10. \A f, g \in Nat : \A k \in DOMAIN M[f] : \A l \in DOMAIN M[g] : M[f][k] = M[g][l] => f = g /\ k = l
  BY <1>4 DEF Owned
<1>11. \A n \in Nat : \A k \in DOMAIN Q[n] :
         Q[n][k] # N + 1 /\ \A f \in Nat : \A l \in DOMAIN M[f] : Q[n][k] # M[f][l]
  <2> SUFFICES ASSUME NEW n \in Nat, NEW k \in DOMAIN Q[n]
               PROVE  Q[n][k] # N + 1 /\ \A f \in Nat : \A l \in DOMAIN M[f] : Q[n][k] # M[f][l]
    OBVIOUS
  <2>1. Q[n][k] # N + 1
    BY <1>5, <1>6
  <2>2. ASSUME NEW f \in Nat, NEW l \in DOMAIN M[f], Q[n][k] = M[f][l]
        PROVE  FALSE
    <3>1. l \in DOMAIN L[f] /\ M[f][l] = L[f][l] /\ f # h
      BY <1>4, <2>2
    <3>2. Q[n][k] = L[f][l]
      BY <2>2, <3>1
    <3>3. CASE n # N + 1 /\ k \in DOMAIN P[n] /\ Q[n][k] = P[n][k]
      <4>1. \A m \in Nat : \A i \in DOMAIN P[m] : \A g \in Nat : \A j \in DOMAIN L[g] :
              P[m][i] # L[g][j]
        BY DEF Owned
      <4> QED
        BY <3>1, <3>2, <3>3, <4>1
    <3>4. CASE k \in DOMAIN L[h] /\ Q[n][k] = L[h][k]
      <4>1. \A e, g \in Nat : \A i \in DOMAIN L[e] : \A j \in DOMAIN L[g] :
              L[e][i] = L[g][j] => e = g
        BY DEF Owned
      <4> QED
        BY <3>1, <3>2, <3>4, <4>1
    <3>5. CASE Q[n][k] = r
      BY <1>6, <3>1, <3>2, <3>5
    <3> QED
      BY <1>5, <3>3, <3>4, <3>5
  <2> QED
    BY <2>1, <2>2
<1>12. \A i \in 1 .. N + 1 :
         \/ i = N + 1
         \/ \E n \in Nat : \E k \in DOMAIN Q[n] : Q[n][k] = i
         \/ \E f \in Nat : \E k \in DOMAIN M[f] : M[f][k] = i
  <2> SUFFICES ASSUME NEW i \in 1 .. N
               PROVE  \/ \E n \in Nat : \E k \in DOMAIN Q[n] : Q[n][k] = i
                      \/ \E f \in Nat : \E k \in DOMAIN M[f] : M[f][k] = i
    OBVIOUS
  <2>1. CASE i = r
    BY <1>2, <1>3, <2>1
  <2>2. ASSUME NEW n \in Nat, NEW k \in DOMAIN P[n], P[n][k] = i
        PROVE  \E m \in Nat : \E l \in DOMAIN Q[m] : Q[m][l] = i
    BY <1>3, <1>6, <2>2
  <2>3. ASSUME NEW f \in Nat, NEW k \in DOMAIN L[f], L[f][k] = i
        PROVE  \/ \E n \in Nat : \E l \in DOMAIN Q[n] : Q[n][l] = i
               \/ \E g \in Nat : \E l \in DOMAIN M[g] : M[g][l] = i
    <3>1. CASE f = h
      BY <1>2, <1>3, <2>3, <3>1
    <3>2. CASE f # h
      BY <1>3, <2>3, <3>2
    <3> QED
      BY <3>1, <3>2
  <2> QED
    BY <2>1, <2>2, <2>3 DEF Owned
<1>13. Owned(Q, N + 1, M, N + 1)
  BY ONLY <1>7, <1>8, <1>9, <1>10, <1>11, <1>12 DEF Owned
<1> QED
  BY <1>13 DEF Q, M, kids

(***************************************************************************)
(* Sequences of anything.                                                  *)
(***************************************************************************)
IsSeq(s) == s \in Seq(values(s))

LEMMA SeqFacts ==
  ASSUME NEW s, IsSeq(s)
  PROVE  Len(s) \in Nat /\ DOMAIN s = 1 .. Len(s)
BY DEF IsSeq

LEMMA AppendAny ==
  ASSUME NEW s, IsSeq(s), NEW e
  PROVE  LET t == Append(s, e)
         IN /\ IsSeq(t) /\ Len(t) = Len(s) + 1 /\ DOMAIN t = 1 .. Len(s) + 1
            /\ \A i \in DOMAIN s : t[i] = s[i]
            /\ t[Len(s) + 1] = e
<1> DEFINE t == Append(s, e)
           S == values(s) \cup {e}
<1>1. s \in Seq(S)
  BY DEF IsSeq
<1>2. e \in S
  OBVIOUS
<1> HIDE DEF S
<1>3. /\ t \in Seq(S) /\ Len(t) = Len(s) + 1 /\ DOMAIN t = 1 .. Len(s) + 1
      /\ \A i \in 1 .. Len(s) : t[i] = s[i]
      /\ t[Len(s) + 1] = e /\ Len(s) \in Nat
  BY <1>1, <1>2
<1> HIDE DEF t
<1>4. t \in Seq(values(t))
  BY <1>3 DEF values
<1> QED
  BY <1>3, <1>4, SeqFacts DEF IsSeq, t

\* One sequence after another, from places 1 and n + 1 on.
LEMMA Concatenation ==
  ASSUME NEW F, NEW s \in Seq(F), NEW t \in Seq(F), NEW n \in Nat, n = Len(s)
  PROVE  /\ s \o t \in Seq(F) /\ Len(s \o t) = n + Len(t) /\ Len(t) \in Nat
         /\ \A i \in 1 .. n : (s \o t)[i] = s[i]
         /\ \A i \in 1 .. Len(t) : (s \o t)[n + i] = t[i]
<1> DEFINE u == s \o t
<1>1. /\ u \in Seq(F) /\ Len(u) = n + Len(t) /\ Len(t) \in Nat
      /\ \A i \in 1 .. n + Len(t) : u[i] = IF i <= n THEN s[i] ELSE t[i - n]
  BY ConcatProperties
<1> HIDE DEF u
<1>2. \A i \in 1 .. n : u[i] = s[i]
  BY <1>1
<1>3. ASSUME NEW i \in 1 .. Len(t) PROVE u[n + i] = t[i]
  <2>1. n + i \in 1 .. n + Len(t) /\ ~(n + i <= n) /\ (n + i) - n = i
    BY <1>1
  <2> QED
    BY <1>1, <2>1
<1> QED
  BY <1>1, <1>2, <1>3 DEF u

\* All but the last item.
LEMMA AllButLast ==
  ASSUME NEW F, NEW s \in Seq(F), s # <<>>
  PROVE  LET b == SubSeq(s, 1, Len(s) - 1)
         IN /\ b \in Seq(F) /\ Len(b) = Len(s) - 1 /\ Len(s) \in Nat \ {0} /\ Len(b) \in Nat
            /\ \A i \in 1 .. Len(s) - 1 : b[i] = s[i]
<1> DEFINE b == SubSeq(s, 1, Len(s) - 1)
           h == Len(s)
<1>1. h \in Nat \ {0} /\ \A i \in 1 .. h - 1 : s[i] \in F
  BY EmptySeq
<1> HIDE DEF h
<1>2. /\ SubSeq(s, 1, h - 1) \in Seq(F)
      /\ Len(SubSeq(s, 1, h - 1)) = IF 1 <= h - 1 THEN (h - 1) - 1 + 1 ELSE 0
      /\ \A i \in 1 .. (h - 1) - 1 + 1 : SubSeq(s, 1, h - 1)[i] = s[1 + i - 1]
  <2>1. 1 \in Int /\ h - 1 \in Int
    BY <1>1
  <2> QED
    BY <1>1, <2>1, SubSeqProperties
<1>3. \A i \in 1 .. h - 1 : 1 + i - 1 = i /\ i \in 1 .. (h - 1) - 1 + 1
  BY <1>1
<1>4. Len(SubSeq(s, 1, h - 1)) = h - 1
  BY <1>1, <1>2
<1>5. \A i \in 1 .. h - 1 : SubSeq(s, 1, h - 1)[i] = s[i]
  BY <1>2, <1>3
<1> QED
  BY <1>1, <1>2, <1>4, <1>5 DEF b, h

\* Dropping the last item of s and adding the items of t.
Follows(u, s, t, F) ==
  LET h == Len(s)
  IN /\ u \in Seq(F) /\ Len(u) = h - 1 + Len(t) /\ h \in Nat \ {0} /\ Len(t) \in Nat
     /\ \A i \in 1 .. h - 1 : u[i] = s[i]
     /\ \A i \in 1 .. Len(t) : u[h - 1 + i] = t[i]

LEMMA DropAndAdd ==
  ASSUME NEW F, NEW s \in Seq(F), s # <<>>, NEW t \in Seq(F)
  PROVE  Follows(SubSeq(s, 1, Len(s) - 1) \o t, s, t, F)
<1> DEFINE h == Len(s)
           b == SubSeq(s, 1, h - 1)
           n == h - 1
<1>1. b \in Seq(F) /\ Len(b) = n /\ h \in Nat \ {0} /\ n \in Nat /\ \A i \in 1 .. n : b[i] = s[i]
  BY AllButLast
<1> HIDE DEF b, n
<1>2. /\ b \o t \in Seq(F) /\ Len(b \o t) = n + Len(t) /\ Len(t) \in Nat
      /\ \A i \in 1 .. n : (b \o t)[i] = b[i]
      /\ \A i \in 1 .. Len(t) : (b \o t)[n + i] = t[i]
  BY <1>1, Concatenation
<1> QED
  BY <1>1, <1>2 DEF b, n, Follows

\* The same with one item in between.
Replaces(u, s, x, t, F) ==
  LET h == Len(s)
  IN /\ u \in Seq(F) /\ Len(u) = h + Len(t) /\ h \in Nat \ {0} /\ Len(t) \in Nat
     /\ \A i \in 1 .. h - 1 : u[i] = s[i]
     /\ u[h] = x
     /\ \A i \in 1 .. Len(t) : u[h + i] = t[i]

LEMMA ReplaceAndAdd ==
  ASSUME NEW F, NEW s \in Seq(F), s # <<>>, NEW x \in F, NEW t \in Seq(F)
  PROVE  Replaces(Append(SubSeq(s, 1, Len(s) - 1), x) \o t, s, x, t, F)
<1> DEFINE h == Len(s)
           b == SubSeq(s, 1, h - 1)
           c == Append(b, x)
<1>1. b \in Seq(F) /\ Len(b) = h - 1 /\ h \in Nat \ {0} /\ h - 1 \in Nat /\ \A i \in 1 .. h - 1 : b[i] = s[i]
  BY AllButLast
<1> HIDE DEF b, h
<1>2. c \in Seq(F) /\ Len(c) = h /\ c[h] = x /\ \A i \in 1 .. h - 1 : c[i] = b[i]
  BY <1>1
<1> HIDE DEF c
<1>3. /\ c \o t \in Seq(F) /\ Len(c \o t) = h + Len(t) /\ Len(t) \in Nat
      /\ \A i \in 1 .. h : (c \o t)[i] = c[i]
      /\ \A i \in 1 .. Len(t) : (c \o t)[h + i] = t[i]
  <2>1. c \in Seq(F) /\ t \in Seq(F) /\ h \in Nat /\ h = Len(c)
    BY <1>1, <1>2
  <2> QED
    BY <2>1, Concatenation
<1>4. \A i \in 1 .. h - 1 : i \in 1 .. h
  BY <1>1
<1>5. h \in 1 .. h
  BY <1>1
<1> QED
  BY <1>1, <1>2, <1>3, <1>4, <1>5 DEF h, b, c, Replaces

(***************************************************************************)
(* The invariant: types, what each call holds at the points where it calls *)
(* and returns, and the ownership of nodes.                                *)
(***************************************************************************)
LevelNames == {Levels[k] : k \in 1 .. 4}
Functions  ==
  {"program", "block", "varDecl", "if", "unary", "call", "assign", "paren"} \cup LevelNames

Frame == [fn : Functions, name : Names, op : Calculating \cup {NONE}, kids : Seq(Nat)]

FrameOK(x) ==
  /\ x.fn \in {"varDecl", "assign", "unary", "paren"} => x.kids = <<>>
  /\ x.fn = "if" => Len(x.kids) =< 2
  /\ x.fn \in LevelNames => Len(x.kids) = IF x.op = NONE THEN 0 ELSE 1
  /\ x.fn = "unary" => x.op # NONE
  /\ x.op # NONE => x.fn \in LevelNames \cup {"unary"}

\* Calls that have just begun.
Fresh(fs) ==
  /\ fs \in Seq(Frame)
  /\ \A i \in DOMAIN fs : FrameOK(fs[i]) /\ fs[i].kids = <<>> /\ fs[i].fn # "program"

Typed ==
  /\ IsSeq(tokens) /\ IsSeq(nodes)
  /\ pos \in 1 .. Len(tokens) + 1
  /\ ret \in 0 .. Len(nodes)
  /\ \A n \in DOMAIN nodes : WellFormed(nodes[n]) /\ nodes[n].kids \in Seq(Nat)
  /\ frames \in Seq(Frame)
  /\ \A f \in DOMAIN frames : FrameOK(frames[f]) /\ (frames[f].fn = "program" <=> f = 1)

Phases ==
  /\ phase \in {"lexing", "parsing", "parsed", "printed", "freed", "threw"}
  /\ phase = "lexing" => pos = 1 /\ nodes = <<>> /\ frames = call("program") /\ ret = 0
  /\ phase = "parsing" => frames # <<>>
  /\ phase \in {"parsed", "printed"} => frames = <<>> /\ ret # 0 /\ nodes[ret].type = "Program"

Parts  == [n \in Nat |-> IF n \in DOMAIN nodes THEN nodes[n].kids ELSE <<>>]
Locals == [f \in Nat |-> IF f \in DOMAIN frames THEN frames[f].kids ELSE <<>>]

Inv == Typed /\ Phases /\ Owned(Parts, Len(nodes), Locals, ret)

LEMMA ListsTyped == Typed => Parts \in Lists /\ Locals \in Lists
<1> SUFFICES ASSUME Typed PROVE Parts \in Lists /\ Locals \in Lists
  OBVIOUS
<1>1. <<>> \in Seq(Nat)
  OBVIOUS
<1>2. \A n \in DOMAIN nodes : nodes[n].kids \in Seq(Nat)
  BY DEF Typed
<1>3. \A f \in DOMAIN frames : frames[f].kids \in Seq(Nat)
  <2>1. frames \in Seq(Frame)
    BY DEF Typed
  <2>2. \A f \in DOMAIN frames : frames[f] \in Frame
    BY <2>1
  <2> QED
    BY <2>2 DEF Frame
<1> QED
  BY <1>1, <1>2, <1>3 DEF Parts, Locals, Lists

\* The call that runs.
LEMMA TopFacts ==
  ASSUME Typed, frames # <<>>
  PROVE  /\ Len(frames) \in Nat \ {0} /\ Len(frames) \in DOMAIN frames
         /\ DOMAIN frames = 1 .. Len(frames)
         /\ Top \in Frame /\ FrameOK(Top) /\ (Top.fn = "program" <=> Len(frames) = 1)
         /\ Top.kids = Locals[Len(frames)]
<1>1. frames \in Seq(Frame)
  BY DEF Typed
<1>2. Len(frames) \in Nat \ {0} /\ DOMAIN frames = 1 .. Len(frames)
  BY <1>1, EmptySeq
<1>3. Len(frames) \in DOMAIN frames
  BY <1>2
<1>4. Top \in Frame
  BY <1>1, <1>3 DEF Top
<1> QED
  BY <1>2, <1>3, <1>4 DEF Typed, Top, Locals

\* What stays as it is if tokens and nodes do.
LEMMA Stays ==
  ASSUME Typed, UNCHANGED <<tokens, nodes>>
  PROVE  /\ Names' = Names /\ Frame' = Frame /\ Parts' = Parts
         /\ IsSeq(tokens') /\ IsSeq(nodes')
         /\ \A n \in DOMAIN nodes' : WellFormed(nodes[n])' /\ nodes'[n].kids \in Seq(Nat)
<1>1. Names' = Names
  BY DEF Names
<1>2. Frame' = Frame
  BY <1>1 DEF Frame
<1>3. Parts' = Parts
  BY DEF Parts
<1>4. IsSeq(tokens') /\ IsSeq(nodes')
  BY DEF Typed
<1>5. \A n \in DOMAIN nodes' : WellFormed(nodes[n])' /\ nodes'[n].kids \in Seq(Nat)
  BY <1>1 DEF Typed, WellFormed
<1> QED
  BY <1>1, <1>2, <1>3, <1>4, <1>5

(***************************************************************************)
(* The steps the parse functions are made of.                              *)
(***************************************************************************)
\* A call.
LEMMA EnterInv ==
  ASSUME Inv, phase = "parsing", UNCHANGED tokens,
         NEW fs, Fresh(fs), NEW p \in 1 .. Len(tokens) + 1, Enter(fs, p)
  PROVE  Inv'
<1>1. Typed /\ frames # <<>> /\ UNCHANGED <<tokens, nodes, ret, phase>> /\ pos' = p /\ frames' = frames \o fs
  BY DEF Inv, Phases, Enter
<1> DEFINE h == Len(frames)
<1>2. frames \in Seq(Frame) /\ fs \in Seq(Frame) /\ h \in Nat \ {0} /\ DOMAIN frames = 1 .. h
  BY <1>1, TopFacts DEF Typed, Fresh
<1>3. /\ frames' \in Seq(Frame) /\ Len(frames') = h + Len(fs) /\ Len(fs) \in Nat
      /\ \A i \in 1 .. h : frames'[i] = frames[i]
      /\ \A i \in 1 .. Len(fs) : frames'[h + i] = fs[i]
  BY <1>1, <1>2, Concatenation
<1> HIDE DEF h
<1>4. DOMAIN frames' = 1 .. h + Len(fs) /\ DOMAIN fs = 1 .. Len(fs)
  BY <1>2, <1>3
<1>5. \A f \in DOMAIN frames' :
        \/ f \in DOMAIN frames /\ frames'[f] = frames[f]
        \/ f \notin DOMAIN frames /\ f # 1 /\ f - h \in DOMAIN fs /\ frames'[f] = fs[f - h]
  <2> SUFFICES ASSUME NEW f \in 1 .. h + Len(fs), f \notin 1 .. h
               PROVE  f # 1 /\ f - h \in 1 .. Len(fs) /\ frames'[f] = fs[f - h]
    BY <1>2, <1>3, <1>4
  <2>1. f # 1 /\ f - h \in 1 .. Len(fs) /\ h + (f - h) = f
    BY <1>2, <1>3
  <2> QED
    BY <1>3, <2>1
<1>6. \A f \in DOMAIN frames : f \in DOMAIN frames' /\ frames'[f] = frames[f]
  BY <1>2, <1>3, <1>4
<1>7. \A f \in DOMAIN frames' : FrameOK(frames'[f]) /\ (frames'[f].fn = "program" <=> f = 1)
  BY <1>1, <1>5 DEF Typed, Fresh
<1>8. Locals' = Locals
  BY <1>5, <1>6 DEF Locals, Fresh
<1>9. Typed'
  BY <1>1, <1>3, <1>7, Stays DEF Typed
<1>10. Phases'
  <2>1. frames' # <<>>
    BY <1>2, <1>3
  <2> QED
    BY <1>1, <2>1 DEF Inv, Phases
<1> QED
  BY <1>1, <1>8, <1>9, <1>10, Stays DEF Inv

\* An exception.
LEMMA ThrowInv ==
  ASSUME Inv, UNCHANGED tokens, Throw
  PROVE  Inv'
<1>1. Typed /\ UNCHANGED <<tokens, pos, nodes, frames, ret>> /\ phase' = "threw"
  BY DEF Inv, Throw, parserVars
<1>2. Typed' /\ Parts' = Parts
  BY <1>1, Stays DEF Typed
<1>3. Locals' = Locals
  BY <1>1 DEF Locals
<1>4. Phases'
  BY <1>1 DEF Phases
<1> QED
  BY <1>1, <1>2, <1>3, <1>4 DEF Inv

\* Nothing but the place in the text moves.
LEMMA MoveInv ==
  ASSUME Inv, phase = "parsing", pos' \in 1 .. Len(tokens) + 1,
         UNCHANGED <<tokens, nodes, frames, ret, phase>>
  PROVE  Inv'
<1>1. Typed /\ frames # <<>>
  BY DEF Inv, Phases
<1>2. Typed' /\ Parts' = Parts
  BY <1>1, Stays DEF Typed
<1>3. Locals' = Locals
  BY DEF Locals
<1>4. Phases'
  BY <1>1 DEF Phases
<1> QED
  BY <1>2, <1>3, <1>4 DEF Inv

\* The node returned becomes a local, and a call may follow.
LEMMA KeepInv ==
  ASSUME Inv, phase = "parsing", UNCHANGED tokens, ret # 0,
         NEW top \in Frame, top.fn = Top.fn, top.kids = Top.kids,
         FrameOK([top EXCEPT !.kids = Append(@, ret)]),
         NEW fs, Fresh(fs), NEW p \in 1 .. Len(tokens) + 1, Keep(top, fs, p)
  PROVE  Inv'
<1> DEFINE h == Len(frames)
           x == [top EXCEPT !.kids = Append(@, ret)]
           N == Len(nodes)
<1>1. /\ Typed /\ frames # <<>> /\ UNCHANGED <<tokens, nodes, phase>> /\ pos' = p /\ ret' = 0
      /\ frames' = Append(SubSeq(frames, 1, h - 1), x) \o fs
  BY DEF Inv, Phases, Keep, Below
<1>2. N \in Nat /\ ret \in 1 .. N
  BY <1>1, SeqFacts DEF Typed
<1>3. /\ h \in Nat \ {0} /\ h \in DOMAIN frames /\ DOMAIN frames = 1 .. h
      /\ Top.kids \in Seq(Nat) /\ Top.kids = Locals[h] /\ (Top.fn = "program" <=> h = 1)
  BY <1>1, TopFacts DEF Frame
<1>4. x \in Frame /\ x.fn = Top.fn /\ x.kids = Append(Locals[h], ret)
  <2>1. ret \in Nat
    BY <1>2
  <2>2. Append(Top.kids, ret) \in Seq(Nat)
    BY <1>3, <2>1
  <2> QED
    BY <1>3, <2>2 DEF Frame
<1>5. frames \in Seq(Frame) /\ fs \in Seq(Frame)
  BY <1>1 DEF Typed, Fresh
<1> HIDE DEF x, N
<1>6. /\ frames' \in Seq(Frame) /\ Len(frames') = h + Len(fs) /\ Len(fs) \in Nat
      /\ \A i \in 1 .. h - 1 : frames'[i] = frames[i]
      /\ frames'[h] = x
      /\ \A i \in 1 .. Len(fs) : frames'[h + i] = fs[i]
  <2>1. frames # <<>> /\ x \in Frame
    BY <1>1, <1>4
  <2>2. Replaces(frames', frames, x, fs, Frame)
    BY <1>1, <1>5, <2>1, ReplaceAndAdd
  <2> QED
    BY ONLY <2>2 DEF Replaces
<1> HIDE DEF h
<1>7. DOMAIN frames' = 1 .. h + Len(fs) /\ DOMAIN fs = 1 .. Len(fs)
  BY <1>5, <1>6
<1>8. \A f \in DOMAIN frames' :
        \/ f \in DOMAIN frames /\ f # h /\ frames'[f] = frames[f]
        \/ f = h /\ frames'[f] = x
        \/ f \notin DOMAIN frames /\ f # 1 /\ f # h /\ f - h \in DOMAIN fs /\ frames'[f] = fs[f - h]
  <2> SUFFICES ASSUME NEW f \in DOMAIN frames'
               PROVE  \/ f \in DOMAIN frames /\ f # h /\ frames'[f] = frames[f]
                      \/ f = h /\ frames'[f] = x
                      \/ f \notin DOMAIN frames /\ f # 1 /\ f # h /\ f - h \in DOMAIN fs /\ frames'[f] = fs[f - h]
    OBVIOUS
  <2>0. f \in 1 .. h + Len(fs)
    BY ONLY <1>7, f \in DOMAIN frames'
  <2>1. CASE f \in 1 .. h - 1
    <3>1. f \in 1 .. h /\ f # h
      BY ONLY <1>3, <2>1
    <3> QED
      BY ONLY <1>3, <1>6, <2>1, <3>1
  <2>2. CASE f = h
    BY ONLY <1>6, <2>2
  <2>3. CASE f \notin 1 .. h
    <3>1. f # 1 /\ f # h /\ f - h \in 1 .. Len(fs) /\ h + (f - h) = f
      BY ONLY <1>3, <1>6, <2>0, <2>3
    <3> QED
      BY ONLY <1>3, <1>6, <1>7, <2>3, <3>1
  <2>4. f \in 1 .. h - 1 \/ f = h \/ f \notin 1 .. h
    BY ONLY <1>3, <2>0
  <2> QED
    BY ONLY <2>1, <2>2, <2>3, <2>4
<1>9. h \in DOMAIN frames' /\ \A f \in DOMAIN frames : f \in DOMAIN frames'
  BY <1>3, <1>6, <1>7
<1>10. \A f \in DOMAIN frames' : FrameOK(frames'[f]) /\ (frames'[f].fn = "program" <=> f = 1)
  <2> DEFINE OK(y, f) == FrameOK(y) /\ (y.fn = "program" <=> f = 1)
  <2>1. \A f \in DOMAIN frames : OK(frames[f], f)
    BY <1>1 DEF Typed
  <2>2. OK(x, h)
    BY <1>3, <1>4 DEF x
  <2>3. \A f : f # 1 => \A i \in DOMAIN fs : OK(fs[i], f)
    BY DEF Fresh
  <2> HIDE DEF OK
  <2>4. \A f \in DOMAIN frames' : OK(frames'[f], f)
    BY ONLY <1>8, <2>1, <2>2, <2>3
  <2> QED
    BY <2>4 DEF OK
<1>11. Locals' = [Locals EXCEPT ![h] = Append(@, ret)]
  <2>1. Locals'[h] = Append(Locals[h], ret)
    BY <1>3, <1>4, <1>6, <1>9 DEF Locals
  <2>2. \A f \in Nat \ {h} : Locals'[f] = Locals[f]
    BY <1>8, <1>9 DEF Locals, Fresh
  <2>3. Locals' = [f \in Nat |-> Locals'[f]] /\ Locals = [f \in Nat |-> Locals[f]]
    BY DEF Locals
  <2> HIDE DEF Locals
  <2> QED
    BY <1>3, <2>1, <2>2, <2>3
<1>12. Typed'
  <2>1. ret' \in 0 .. Len(nodes') /\ pos' \in 1 .. Len(tokens') + 1
    BY <1>1, <1>2 DEF N
  <2> QED
    BY <1>1, <1>6, <1>10, <2>1, Stays DEF Typed
<1>13. Phases'
  <2>1. frames' # <<>>
    BY <1>9, EmptySeq
  <2> QED
    BY <1>1, <2>1 DEF Inv, Phases
<1>14. Owned(Parts, N, [Locals EXCEPT ![h] = Append(@, ret)], 0)
  <2>1. Owned(Parts, N, Locals, ret) /\ Parts \in Lists /\ Locals \in Lists /\ h \in Nat
    BY <1>1, <1>3, ListsTyped DEF Inv, N
  <2> QED
    BY <1>2, <2>1, KeepOwned
<1>15. Parts' = Parts /\ Len(nodes') = N /\ ret' = 0
  BY <1>1, Stays DEF N
<1> QED
  BY <1>11, <1>12, <1>13, <1>14, <1>15 DEF Inv

\* A new node.
LEMMA NodeAdded ==
  ASSUME Typed, UNCHANGED tokens, NEW node, WellFormed(node), node.kids \in Seq(Nat),
         nodes' = Append(nodes, node)
  PROVE  /\ Names' = Names /\ Frame' = Frame /\ IsSeq(tokens') /\ IsSeq(nodes')
         /\ Len(nodes) \in Nat /\ Len(nodes') = Len(nodes) + 1 /\ nodes'[Len(nodes) + 1] = node
         /\ \A n \in DOMAIN nodes' : WellFormed(nodes[n])' /\ nodes'[n].kids \in Seq(Nat)
         /\ Parts[Len(nodes) + 1] = <<>>
         /\ Parts' = [Parts EXCEPT ![Len(nodes) + 1] = node.kids]
<1> DEFINE N == Len(nodes)
<1>1. Names' = Names
  BY DEF Names
<1>2. Frame' = Frame
  BY <1>1 DEF Frame
<1>3. IsSeq(nodes) /\ N \in Nat /\ DOMAIN nodes = 1 .. N
  BY SeqFacts DEF Typed
<1>4. /\ IsSeq(nodes') /\ Len(nodes') = N + 1 /\ DOMAIN nodes' = 1 .. N + 1
      /\ \A n \in DOMAIN nodes : nodes'[n] = nodes[n]
      /\ nodes'[N + 1] = node
  BY <1>3, AppendAny
<1> HIDE DEF N
<1>5. \A n \in DOMAIN nodes' : n = N + 1 \/ n \in DOMAIN nodes
  BY <1>3, <1>4
<1>6. N + 1 \notin DOMAIN nodes /\ N + 1 \in DOMAIN nodes' /\ \A n \in DOMAIN nodes : n \in DOMAIN nodes'
  BY <1>3, <1>4
<1>7. ASSUME NEW n \in DOMAIN nodes' PROVE WellFormed(nodes[n])' /\ nodes'[n].kids \in Seq(Nat)
  <2>1. CASE n = N + 1
    BY <1>1, <1>4, <2>1 DEF WellFormed
  <2>2. CASE n \in DOMAIN nodes
    <3>1. WellFormed(nodes[n]) /\ nodes[n].kids \in Seq(Nat) /\ nodes'[n] = nodes[n]
      BY <1>4, <2>2 DEF Typed
    <3> QED
      BY <1>1, <3>1 DEF WellFormed
  <2> QED
    BY <1>5, <2>1, <2>2
<1>8. Parts' = [Parts EXCEPT ![N + 1] = node.kids]
  <2>1. Parts'[N + 1] = node.kids
    BY <1>3, <1>4, <1>6 DEF Parts
  <2>2. \A n \in Nat \ {N + 1} : Parts'[n] = Parts[n]
    BY <1>4, <1>5, <1>6 DEF Parts
  <2>3. Parts' = [n \in Nat |-> Parts'[n]] /\ Parts = [n \in Nat |-> Parts[n]]
    BY DEF Parts
  <2> HIDE DEF Parts
  <2> QED
    BY <1>3, <2>1, <2>2, <2>3
<1>9. Parts[N + 1] = <<>>
  BY <1>3, <1>6 DEF Parts
<1>10. IsSeq(tokens')
  BY DEF Typed
<1> QED
  BY <1>1, <1>2, <1>3, <1>4, <1>7, <1>8, <1>9, <1>10 DEF N

\* A node without parts is returned.
LEMMA LeafInv ==
  ASSUME Inv, phase = "parsing", ret = 0, UNCHANGED tokens, pos + 1 \in 1 .. Len(tokens) + 1,
         NEW type, NEW name, NEW number, Leaf(type, name, number),
         WellFormed([type |-> type, name |-> name, op |-> NONE, number |-> number, kids |-> <<>>])
  PROVE  Inv'
<1> DEFINE node == [type |-> type, name |-> name, op |-> NONE, number |-> number, kids |-> <<>>]
           N == Len(nodes)
<1>1. /\ Typed /\ frames # <<>> /\ UNCHANGED <<tokens, frames, phase>>
      /\ pos' = pos + 1 /\ ret' = N + 1 /\ nodes' = Append(nodes, node)
  BY DEF Inv, Phases, Leaf, Allocate
<1>2. node.kids = <<>> /\ <<>> \in Seq(Nat) /\ WellFormed(node)
  OBVIOUS
<1> HIDE DEF node
<1>3. /\ Names' = Names /\ Frame' = Frame /\ IsSeq(tokens') /\ IsSeq(nodes')
      /\ N \in Nat /\ Len(nodes') = N + 1
      /\ \A n \in DOMAIN nodes' : WellFormed(nodes[n])' /\ nodes'[n].kids \in Seq(Nat)
      /\ Parts[N + 1] = <<>> /\ Parts' = [Parts EXCEPT ![N + 1] = <<>>]
  <2>1. node.kids \in Seq(Nat)
    BY <1>2
  <2> QED
    BY <1>1, <1>2, <2>1, NodeAdded
<1> HIDE DEF N
<1>4. Parts' = Parts
  <2>1. Parts = [n \in Nat |-> Parts[n]]
    BY DEF Parts
  <2> HIDE DEF Parts
  <2> QED
    BY <1>3, <2>1
<1>5. Typed'
  <2>1. ret' \in 0 .. Len(nodes')
    BY <1>1, <1>3
  <2> QED
    BY <1>1, <1>3, <2>1 DEF Typed
<1>6. Phases'
  BY <1>1 DEF Phases
<1>7. Owned(Parts, N + 1, Locals, N + 1)
  <2>1. Owned(Parts, N, Locals, 0) /\ Parts \in Lists /\ Locals \in Lists
    BY <1>1, ListsTyped DEF Inv, N
  <2> QED
    BY <1>3, <2>1, LeafOwned
<1>8. Locals' = Locals
  BY <1>1 DEF Locals
<1> QED
  BY <1>1, <1>3, <1>4, <1>5, <1>6, <1>7, <1>8 DEF Inv

\* The running call makes a node of its locals and returns it; calls may take
\* its place.
LEMMA BuildTyped ==
  ASSUME Inv, phase = "parsing", UNCHANGED tokens, pos' \in 1 .. Len(tokens) + 1,
         NEW node, WellFormed(node), node.kids = Top.kids \o IF ret = 0 THEN <<>> ELSE <<ret>>,
         nodes' = Append(nodes, node), ret' = Len(nodes) + 1,
         NEW fs, Fresh(fs), frames' = Below \o fs, Top.fn # "program" \/ fs = <<>>
  PROVE  /\ Typed' /\ Owned(Parts, Len(nodes), Locals, ret)'
         /\ nodes'[ret'] = node /\ ret' # 0
         /\ frames' = <<>> <=> Top.fn = "program"
<1> DEFINE h == Len(frames)
           N == Len(nodes)
           kids == Top.kids \o IF ret = 0 THEN <<>> ELSE <<ret>>
<1>1. Typed /\ frames # <<>>
  BY DEF Inv, Phases
<1>2. N \in Nat /\ ret \in 0 .. N
  BY <1>1, SeqFacts DEF Typed
<1>3. /\ h \in Nat \ {0} /\ h \in DOMAIN frames /\ DOMAIN frames = 1 .. h
      /\ Top.kids \in Seq(Nat) /\ Top.kids = Locals[h] /\ (Top.fn = "program" <=> h = 1)
  BY <1>1, TopFacts DEF Frame
<1>4. kids \in Seq(Nat)
  BY <1>2, <1>3
<1>5. frames \in Seq(Frame) /\ fs \in Seq(Frame)
  BY <1>1 DEF Typed, Fresh
<1> HIDE DEF N
<1>6. /\ frames' \in Seq(Frame) /\ Len(frames') = h - 1 + Len(fs) /\ Len(fs) \in Nat
      /\ \A i \in 1 .. h - 1 : frames'[i] = frames[i]
      /\ \A i \in 1 .. Len(fs) : frames'[h - 1 + i] = fs[i]
  <2>1. Follows(frames', frames, fs, Frame)
    BY <1>1, <1>5, DropAndAdd DEF Below
  <2> QED
    BY ONLY <2>1 DEF Follows
<1>7. /\ Names' = Names /\ Frame' = Frame /\ IsSeq(tokens') /\ IsSeq(nodes')
      /\ Len(nodes') = N + 1 /\ nodes'[N + 1] = node
      /\ \A n \in DOMAIN nodes' : WellFormed(nodes[n])' /\ nodes'[n].kids \in Seq(Nat)
      /\ Parts[N + 1] = <<>> /\ Parts' = [Parts EXCEPT ![N + 1] = kids]
  <2>1. node.kids = kids /\ node.kids \in Seq(Nat)
    BY <1>4
  <2> HIDE DEF kids
  <2> QED
    BY <1>1, <2>1, NodeAdded DEF N
<1> HIDE DEF h
<1>8. DOMAIN frames' = 1 .. h - 1 + Len(fs) /\ DOMAIN fs = 1 .. Len(fs)
  BY <1>5, <1>6
<1>9. \A f \in DOMAIN frames' :
        \/ f \in DOMAIN frames /\ f # h /\ frames'[f] = frames[f]
        \/ f \notin DOMAIN frames \ {h} /\ f - h + 1 \in DOMAIN fs /\ frames'[f] = fs[f - h + 1]
  <2> SUFFICES ASSUME NEW f \in DOMAIN frames'
               PROVE  \/ f \in DOMAIN frames /\ f # h /\ frames'[f] = frames[f]
                      \/ f \notin DOMAIN frames \ {h} /\ f - h + 1 \in DOMAIN fs /\ frames'[f] = fs[f - h + 1]
    OBVIOUS
  <2>1. f \in 1 .. h - 1 + Len(fs)
    BY ONLY <1>8, f \in DOMAIN frames'
  <2>2. CASE f \in 1 .. h - 1
    <3>1. f \in 1 .. h /\ f # h
      BY ONLY <1>3, <2>2
    <3> QED
      BY ONLY <1>3, <1>6, <2>2, <3>1
  <2>3. CASE f \notin 1 .. h - 1
    <3>1. f \notin (1 .. h) \ {h} /\ f - h + 1 \in 1 .. Len(fs) /\ h - 1 + (f - h + 1) = f
      BY ONLY <1>3, <1>6, <2>1, <2>3
    <3> QED
      BY ONLY <1>3, <1>6, <1>8, <3>1
  <2> QED
    BY ONLY <2>2, <2>3
<1>10. \A f \in DOMAIN frames : f # h => f \in DOMAIN frames' /\ frames'[f] = frames[f]
  <2> SUFFICES ASSUME NEW f \in 1 .. h, f # h
               PROVE  f \in 1 .. h - 1 + Len(fs) /\ f \in 1 .. h - 1
    BY <1>3, <1>6, <1>8
  <2> QED
    BY ONLY <1>3, <1>6, f \in 1 .. h, f # h
<1>11. Locals' = [Locals EXCEPT ![h] = <<>>]
  <2>1. Locals'[h] = <<>>
    <3>1. h \in Nat /\ Locals'[h] = IF h \in DOMAIN frames' THEN frames'[h].kids ELSE <<>>
      BY <1>3 DEF Locals
    <3>2. ASSUME h \in DOMAIN frames' PROVE frames'[h].kids = <<>>
      <4>1. h - h + 1 \in DOMAIN fs /\ frames'[h] = fs[h - h + 1]
        BY <1>9, <3>2
      <4> QED
        BY <4>1 DEF Fresh
    <3> QED
      BY <3>1, <3>2
  <2>2. \A f \in Nat \ {h} : Locals'[f] = Locals[f]
    BY <1>9, <1>10 DEF Locals, Fresh
  <2>3. Locals' = [f \in Nat |-> Locals'[f]] /\ Locals = [f \in Nat |-> Locals[f]]
    BY DEF Locals
  <2> HIDE DEF Locals
  <2> QED
    BY <1>3, <2>1, <2>2, <2>3
<1>12. \A f \in DOMAIN frames' : FrameOK(frames'[f]) /\ (frames'[f].fn = "program" <=> f = 1)
  <2> DEFINE OK(y, f) == FrameOK(y) /\ (y.fn = "program" <=> f = 1)
  <2>1. \A f \in DOMAIN frames : OK(frames[f], f)
    BY <1>1 DEF Typed
  <2>2. \A f : f # 1 => \A i \in DOMAIN fs : OK(fs[i], f)
    BY DEF Fresh
  <2>3. fs # <<>> => 1 \in DOMAIN frames \ {h}
    BY <1>3
  <2>4. \A i \in DOMAIN fs : fs # <<>>
    OBVIOUS
  <2> HIDE DEF OK
  <2>5. \A f \in DOMAIN frames' : OK(frames'[f], f)
    BY ONLY <1>9, <2>1, <2>2, <2>3, <2>4
  <2> QED
    BY <2>5 DEF OK
<1>13. Typed'
  <2>1. ret' \in 0 .. Len(nodes') /\ pos' \in 1 .. Len(tokens') + 1
    BY <1>2, <1>7 DEF N
  <2> QED
    BY <1>6, <1>7, <1>12, <2>1 DEF Typed
<1>14. Owned(Parts', N + 1, Locals', N + 1)
  <2>1. Owned(Parts, N, Locals, ret) /\ Parts \in Lists /\ Locals \in Lists /\ h \in Nat
    BY <1>1, <1>3, ListsTyped DEF Inv, N
  <2>2. kids = Locals[h] \o IF ret = 0 THEN <<>> ELSE <<ret>>
    BY <1>3
  <2>3. Owned([Parts EXCEPT ![N + 1] = Locals[h] \o IF ret = 0 THEN <<>> ELSE <<ret>>], N + 1,
              [Locals EXCEPT ![h] = <<>>], N + 1)
    BY <1>2, <1>7, <2>1, BuildOwned
  <2> HIDE DEF kids
  <2> QED
    BY <1>7, <1>11, <2>2, <2>3
<1>15. frames' = <<>> <=> Top.fn = "program"
  <2>1. frames' = <<>> <=> Len(frames') = 0
    BY <1>6, EmptySeq
  <2>2. fs = <<>> => Len(fs) = 0
    BY <1>5, EmptySeq
  <2> QED
    BY <1>3, <1>6, <2>1, <2>2
<1>16. Len(nodes') = N + 1 /\ ret' = N + 1 /\ ret' # 0 /\ nodes'[ret'] = node
  BY <1>2, <1>7 DEF N
<1> QED
  BY <1>13, <1>14, <1>15, <1>16

LEMMA BuildInv ==
  ASSUME Inv, phase = "parsing", UNCHANGED <<tokens, phase>>, Top.fn # "program",
         NEW type, NEW p \in 1 .. Len(tokens) + 1, Build(type, p),
         WellFormed([type |-> type, name |-> Top.name, op |-> Top.op, number |-> 0,
                     kids |-> Top.kids \o IF ret = 0 THEN <<>> ELSE <<ret>>]),
         NEW fs, Fresh(fs), frames' = Below \o fs
  PROVE  Inv'
<1> DEFINE node == [type |-> type, name |-> Top.name, op |-> Top.op, number |-> 0,
                    kids |-> Top.kids \o IF ret = 0 THEN <<>> ELSE <<ret>>]
<1>1. /\ nodes' = Append(nodes, node) /\ ret' = Len(nodes) + 1 /\ pos' \in 1 .. Len(tokens) + 1
      /\ WellFormed(node) /\ node.kids = Top.kids \o IF ret = 0 THEN <<>> ELSE <<ret>>
  BY DEF Build, Allocate
<1> HIDE DEF node
<1>2. Typed' /\ Owned(Parts, Len(nodes), Locals, ret)' /\ frames' # <<>>
  BY <1>1, BuildTyped
<1>3. Phases'
  BY <1>2 DEF Phases
<1> QED
  BY <1>2, <1>3 DEF Inv

LEMMA NoCalls == Fresh(<<>>)
BY DEF Fresh

\* Adding no call.
LEMMA BelowFacts ==
  ASSUME Typed, frames # <<>>
  PROVE  Below \o <<>> = Below
<1>1. Below \in Seq(Frame)
  BY AllButLast DEF Typed, Below
<1> QED
  BY <1>1

\* A call without locals returns the node it was given.
LEMMA PassInv ==
  ASSUME Inv, phase = "parsing", UNCHANGED tokens, Top.fn # "program", Top.kids = <<>>,
         NEW p \in 1 .. Len(tokens) + 1, Pass(p)
  PROVE  Inv'
<1> DEFINE h == Len(frames)
<1>1. Typed /\ frames # <<>> /\ UNCHANGED <<tokens, nodes, ret, phase>> /\ pos' = p /\ frames' = Below
  BY DEF Inv, Phases, Pass, Return
<1>2. /\ h \in Nat \ {0} /\ DOMAIN frames = 1 .. h /\ h # 1 /\ Locals[h] = <<>>
  BY <1>1, TopFacts
<1>3. frames' \in Seq(Frame) /\ Len(frames') = h - 1 /\ \A i \in 1 .. h - 1 : frames'[i] = frames[i]
  BY <1>1, AllButLast DEF Typed, Below
<1> HIDE DEF h
<1>4. DOMAIN frames' = 1 .. h - 1
  BY <1>2, <1>3
<1>5. \A f \in DOMAIN frames' : f \in DOMAIN frames /\ f # h /\ frames'[f] = frames[f]
  BY <1>2, <1>3, <1>4
<1>6. \A f \in DOMAIN frames : f = h \/ f \in DOMAIN frames'
  BY <1>2, <1>4
<1>7. \A f \in DOMAIN frames' : FrameOK(frames'[f]) /\ (frames'[f].fn = "program" <=> f = 1)
  BY <1>1, <1>5 DEF Typed
<1>8. Locals' = Locals
  BY <1>2, <1>5, <1>6 DEF Locals
<1>9. Typed'
  BY <1>1, <1>3, <1>7, Stays DEF Typed
<1>10. Phases'
  <2>1. frames' # <<>>
    BY <1>2, <1>3
  <2> QED
    BY <1>1, <2>1 DEF Phases, Inv
<1> QED
  BY <1>1, <1>8, <1>9, <1>10, Stays DEF Inv

(***************************************************************************)
(* Calls, tokens and nodes.                                                *)
(***************************************************************************)
LEMMA LevelFacts ==
  /\ LevelNames = {"logical", "comparison", "additive", "multiplicative"}
  /\ \A k \in 1 .. 4 : Levels[k] \in LevelNames
  /\ \A k \in 1 .. 4 : Operators[k] \subseteq Calculating \ {NONE, "END_OF_FILE"}
  /\ {"MINUS", "NOT"} \subseteq Calculating \ {NONE, "END_OF_FILE"}
<1>1. 1 .. 4 = {1, 2, 3, 4}
  OBVIOUS
<1>2. LevelNames = {"logical", "comparison", "additive", "multiplicative"}
  BY <1>1 DEF LevelNames, Levels
<1>3. \A k \in {1, 2, 3, 4} : Levels[k] \in LevelNames
  <2>1. /\ Levels[1] = "logical" /\ Levels[2] = "comparison"
        /\ Levels[3] = "additive" /\ Levels[4] = "multiplicative"
    BY DEF Levels
  <2> QED
    BY <1>2, <2>1
<1>4. \A k \in 1 .. 4 : Operators[k] \subseteq Calculating
  <2>1. DOMAIN Operators = 1 .. 4
    BY DEF Operators
  <2> QED
    BY <2>1 DEF Calculating, values
<1>5. \A k \in {1, 2, 3, 4} : NONE \notin Operators[k] /\ "END_OF_FILE" \notin Operators[k]
  BY DEF Operators, NONE
<1>6. "MINUS" \in Operators[3]
  BY DEF Operators
<1>7. "MINUS" \in Calculating /\ "NOT" \in Calculating
  BY <1>1, <1>4, <1>6 DEF Calculating
<1> QED
  BY <1>1, <1>2, <1>3, <1>4, <1>5, <1>7 DEF NONE

LEMMA FreshCall ==
  ASSUME NEW fn \in Functions, fn # "program", NEW name \in Names, NEW op \in Calculating \cup {NONE},
         op # NONE <=> fn = "unary"
  PROVE  Fresh(<<frame(fn, name, op)>>)
<1> DEFINE x == frame(fn, name, op)
<1>1. x \in Frame /\ x.fn = fn /\ x.op = op /\ x.kids = <<>>
  BY DEF frame, Frame
<1>2. FrameOK(x)
  BY <1>1, LevelFacts DEF FrameOK
<1> HIDE DEF x
<1>3. <<x>> \in Seq(Frame) /\ \A i \in DOMAIN <<x>> : <<x>>[i] = x
  BY <1>1
<1> QED
  BY <1>1, <1>2, <1>3 DEF Fresh, x

LEMMA FreshPair ==
  ASSUME NEW a, Fresh(a), NEW b, Fresh(b)
  PROVE  Fresh(a \o b)
<1> DEFINE n == Len(a)
           u == a \o b
<1>1. a \in Seq(Frame) /\ b \in Seq(Frame) /\ n \in Nat /\ DOMAIN a = 1 .. n /\ DOMAIN b = 1 .. Len(b)
  BY DEF Fresh
<1> HIDE DEF n
<1>2. /\ u \in Seq(Frame) /\ Len(u) = n + Len(b) /\ Len(b) \in Nat
      /\ \A i \in 1 .. n : u[i] = a[i]
      /\ \A i \in 1 .. Len(b) : u[n + i] = b[i]
  BY <1>1, Concatenation DEF n
<1> HIDE DEF u
<1>3. DOMAIN u = 1 .. n + Len(b)
  BY <1>2
<1>4. \A i \in DOMAIN u : (i \in DOMAIN a /\ u[i] = a[i]) \/ (i - n \in DOMAIN b /\ u[i] = b[i - n])
  <2> SUFFICES ASSUME NEW i \in 1 .. n + Len(b), i \notin 1 .. n
               PROVE  i - n \in 1 .. Len(b) /\ u[i] = b[i - n]
    BY <1>1, <1>2, <1>3
  <2>1. i - n \in 1 .. Len(b) /\ n + (i - n) = i
    BY <1>1, <1>2
  <2> QED
    BY <1>2, <2>1
<1> QED
  BY <1>2, <1>4 DEF Fresh, u

LEMMA FreshLevels == \A k \in 1 .. 5 : Fresh(parseFrom(k))
<1> SUFFICES ASSUME NEW k \in 1 .. 5 PROVE Fresh(parseFrom(k))
  OBVIOUS
<1> DEFINE u == parseFrom(k)
<1>1. 5 - k \in Nat /\ \A j \in 1 .. 5 - k : k + j - 1 \in 1 .. 4
  OBVIOUS
<1>2. <<>> \in Names
  BY DEF Names
<1>3. ASSUME NEW j \in 1 .. 5 - k
      PROVE  LET x == frame(Levels[k + j - 1], <<>>, NONE)
             IN x \in Frame /\ FrameOK(x) /\ x.kids = <<>> /\ x.fn # "program"
  <2> DEFINE x == frame(Levels[k + j - 1], <<>>, NONE)
  <2>1. x.fn \in LevelNames /\ x.op = NONE /\ x.kids = <<>> /\ x.name = <<>>
    BY <1>1, LevelFacts DEF frame
  <2>2. x \in Frame
    <3>1. Levels[k + j - 1] \in Functions
      BY <1>1, LevelFacts DEF Functions
    <3> QED
      BY <1>2, <3>1 DEF frame, Frame
  <2> HIDE DEF x
  <2>3. FrameOK(x) /\ x.fn # "program"
    BY <2>1, LevelFacts DEF FrameOK
  <2> QED
    BY <2>1, <2>2, <2>3 DEF x
<1>4. /\ u \in Seq(Frame) /\ DOMAIN u = 1 .. 5 - k
      /\ \A j \in 1 .. 5 - k : u[j] = frame(Levels[k + j - 1], <<>>, NONE)
  <2> DEFINE n == 5 - k
             e(j) == frame(Levels[k + j - 1], <<>>, NONE)
  <2>1. u = [j \in 1 .. n |-> e(j)] /\ n \in Nat /\ \A j \in 1 .. n : e(j) \in Frame
    BY <1>1, <1>3 DEF parseFrom
  <2> HIDE DEF u, n, e
  <2>2. u \in Seq(Frame) /\ DOMAIN u = 1 .. n /\ \A j \in 1 .. n : u[j] = e(j)
    BY <2>1
  <2> QED
    BY <2>2 DEF n, e
<1> HIDE DEF u
<1> QED
  BY <1>3, <1>4 DEF Fresh, u

\* Where there is a token, its content is a name, and the end is not behind it.
LEMMA TokenFacts ==
  ASSUME Typed
  PROVE  /\ pos \in Nat /\ Len(tokens) \in Nat
         /\ \A i : token(i).type # "END_OF_FILE" =>
              i \in 1 .. Len(tokens) /\ i + 1 \in 1 .. Len(tokens) + 1 /\ token(i).content \in Names
<1>1. DOMAIN tokens = 1 .. Len(tokens) /\ Len(tokens) \in Nat /\ pos \in Nat
  BY SeqFacts DEF Typed
<1>2. ASSUME NEW i, token(i).type # "END_OF_FILE"
      PROVE  i \in 1 .. Len(tokens) /\ i + 1 \in 1 .. Len(tokens) + 1 /\ token(i).content \in Names
  <2>1. i \in DOMAIN tokens
    BY <1>2 DEF token
  <2>2. token(i).content \in Names
    BY <2>1 DEF token, Names
  <2>3. i \in 1 .. Len(tokens)
    BY <1>1, <2>1
  <2> QED
    BY <1>1, <2>2, <2>3
<1> QED
  BY <1>1, <1>2

\* The nodes that the functions make of their locals.
Makes(type) ==
  \/ type \in {"Program", "Block", "FuncCall"} /\ Top.fn \in {"program", "block", "call"}
  \/ type = "VarDecl" /\ Top.fn = "varDecl" /\ ret # 0
  \/ type = "VarAssign" /\ Top.fn = "assign" /\ ret # 0
  \/ type = "UnaryOp" /\ Top.fn = "unary" /\ ret # 0
  \/ type = "If" /\ Top.fn = "if" /\ Len(Top.kids) \in {1, 2} /\ ret # 0
  \/ type = "BinaryOp" /\ Top.fn \in LevelNames /\ Top.op # NONE /\ ret # 0

LEMMA MadeWell ==
  ASSUME Inv, phase = "parsing", NEW type, Makes(type)
  PROVE  WellFormed([type |-> type, name |-> Top.name, op |-> Top.op, number |-> 0,
                     kids |-> Top.kids \o IF ret = 0 THEN <<>> ELSE <<ret>>])
<1> DEFINE kids == Top.kids \o IF ret = 0 THEN <<>> ELSE <<ret>>
           node == [type |-> type, name |-> Top.name, op |-> Top.op, number |-> 0, kids |-> kids]
<1> SUFFICES WellFormed(node)
  OBVIOUS
<1>1. Typed /\ frames # <<>>
  BY DEF Inv, Phases
<1>2. Top \in Frame /\ FrameOK(Top)
  BY <1>1, TopFacts
<1>3. Top.kids \in Seq(Nat) /\ Top.name \in Names /\ Top.op \in Calculating \cup {NONE}
  BY <1>2 DEF Frame
<1>4. ret # 0 => Len(kids) = Len(Top.kids) + 1
  <2>1. ret \in Nat
    BY <1>1, SeqFacts DEF Typed
  <2>2. <<ret>> \in Seq(Nat) /\ Len(<<ret>>) = 1
    BY <2>1
  <2>3. Len(Top.kids \o <<ret>>) = Len(Top.kids) + 1
    BY <1>3, <2>2
  <2> QED
    BY <2>3
<1>5. Top.kids = <<>> => Len(Top.kids) = 0
  OBVIOUS
<1>6. 0 =< MAX_INT64
  BY ParserAssumption
<1> HIDE DEF kids
<1>7. /\ node.type = type /\ node.name = Top.name /\ node.op = Top.op /\ node.number = 0
      /\ node.kids = kids
  OBVIOUS
<1> HIDE DEF node
<1>8. CASE type \in {"Program", "Block", "FuncCall"} /\ Top.fn \in {"program", "block", "call"}
  <2>1. Top.op = NONE
    BY <1>2, <1>8, LevelFacts DEF FrameOK
  <2> QED
    BY <1>3, <1>6, <1>7, <1>8, <2>1 DEF WellFormed
<1>9. CASE \/ type = "VarDecl" /\ Top.fn = "varDecl" /\ ret # 0
           \/ type = "VarAssign" /\ Top.fn = "assign" /\ ret # 0
  <2>1. Top.op = NONE /\ Top.kids = <<>>
    BY <1>2, <1>9, LevelFacts DEF FrameOK
  <2> QED
    BY <1>3, <1>4, <1>5, <1>6, <1>7, <1>9, <2>1 DEF WellFormed
<1>10. CASE type = "UnaryOp" /\ Top.fn = "unary" /\ ret # 0
  <2>1. Top.op \in Calculating /\ Top.kids = <<>>
    BY <1>2, <1>3, <1>10 DEF FrameOK
  <2> QED
    BY <1>3, <1>4, <1>5, <1>6, <1>7, <1>10, <2>1 DEF WellFormed
<1>11. CASE type = "If" /\ Top.fn = "if" /\ Len(Top.kids) \in {1, 2} /\ ret # 0
  <2>1. Top.op = NONE
    BY <1>2, <1>11, LevelFacts DEF FrameOK
  <2>2. Len(kids) \in {2, 3}
    <3>1. Len(kids) = Len(Top.kids) + 1 /\ (Len(Top.kids) = 1 \/ Len(Top.kids) = 2)
      BY ONLY <1>4, <1>11
    <3>2. \A n : n = 1 \/ n = 2 => n + 1 \in {2, 3}
      OBVIOUS
    <3> QED
      BY ONLY <3>1, <3>2
  <2> QED
    BY <1>3, <1>6, <1>7, <1>11, <2>1, <2>2 DEF WellFormed
<1>12. CASE type = "BinaryOp" /\ Top.fn \in LevelNames /\ Top.op # NONE /\ ret # 0
  <2>1. Top.op \in Calculating /\ Len(Top.kids) = 1
    BY <1>2, <1>3, <1>12 DEF FrameOK
  <2> QED
    BY <1>3, <1>4, <1>6, <1>7, <1>12, <2>1 DEF WellFormed
<1> QED
  BY <1>8, <1>9, <1>10, <1>11, <1>12 DEF Makes

\* A function that makes a node and returns it.
LEMMA MakeInv ==
  ASSUME Inv, phase = "parsing", UNCHANGED tokens, Top.fn # "program",
         NEW type, Makes(type), NEW p \in 1 .. Len(tokens) + 1, Build(type, p), Return
  PROVE  Inv'
<1>1. frames' = Below \o <<>> /\ UNCHANGED phase
  BY BelowFacts DEF Inv, Phases, Return
<1> QED
  BY <1>1, MadeWell, NoCalls, BuildInv

(***************************************************************************)
(* The statements.                                                         *)
(***************************************************************************)
LEMMA StatementSteps ==
  ASSUME Inv, UNCHANGED tokens,
         \/ BlockUnfinished \/ BlockDone \/ ProgramDone \/ NestedBlock
         \/ parseIfStmt \/ Skip \/ StatementKept
  PROVE  Inv'
<1>1. Typed
  BY DEF Inv
<1>2. /\ pos \in Nat /\ Len(tokens) \in Nat /\ pos \in 1 .. Len(tokens) + 1
      /\ \A i : token(i).type # "END_OF_FILE" => i \in 1 .. Len(tokens) /\ i + 1 \in 1 .. Len(tokens) + 1
  BY <1>1, TokenFacts DEF Typed
<1>3. <<>> \in Names /\ 1 \in 1 .. 5
  BY DEF Names
<1>4. CASE BlockUnfinished
  BY <1>4, ThrowInv DEF BlockUnfinished
<1>5. CASE BlockDone
  <2>1. /\ phase = "parsing" /\ Top.fn = "block" /\ pos + 1 \in 1 .. Len(tokens) + 1
        /\ Build("Block", pos + 1) /\ Return
    BY <1>2, <1>5 DEF BlockDone, EndsBlock, Statement, In, is
  <2>2. Makes("Block") /\ Top.fn # "program"
    BY <2>1 DEF Makes
  <2> QED
    BY <2>1, <2>2, MakeInv
<1>6. CASE ProgramDone
  <2> DEFINE node == [type |-> "Program", name |-> Top.name, op |-> Top.op, number |-> 0,
                      kids |-> Top.kids \o IF ret = 0 THEN <<>> ELSE <<ret>>]
  <2>1. /\ phase = "parsing" /\ Top.fn = "program" /\ pos' = pos /\ phase' = "parsed"
        /\ nodes' = Append(nodes, node) /\ ret' = Len(nodes) + 1 /\ frames' = Below
    BY <1>6 DEF ProgramDone, EndsProgram, Statement, In, Build, Allocate
  <2>2. Makes("Program")
    BY <2>1 DEF Makes
  <2>3. /\ WellFormed(node) /\ node.kids = Top.kids \o IF ret = 0 THEN <<>> ELSE <<ret>>
        /\ node.type = "Program"
    BY <2>1, <2>2, MadeWell
  <2> HIDE DEF node
  <2>4. frames' = Below \o <<>>
    BY <1>1, <2>1, BelowFacts DEF Inv, Phases
  <2>5. /\ Typed' /\ Owned(Parts, Len(nodes), Locals, ret)' /\ nodes'[ret'] = node /\ ret' # 0
        /\ frames' = <<>>
    BY <1>2, <2>1, <2>3, <2>4, NoCalls, BuildTyped
  <2>6. Phases'
    BY <2>1, <2>3, <2>5 DEF Phases
  <2> QED
    BY <2>5, <2>6 DEF Inv
<1>7. CASE NestedBlock
  <2>1. Fresh(call("block"))
    BY <1>3, FreshCall DEF call, Functions
  <2>2. phase = "parsing" /\ pos + 1 \in 1 .. Len(tokens) + 1 /\ Enter(call("block"), pos + 1)
    BY <1>2, <1>7 DEF NestedBlock, Statement, In, is, Call
  <2> QED
    BY <2>1, <2>2, EnterInv
<1>8. CASE parseIfStmt
  <2>1. CASE Throw
    BY <2>1, ThrowInv
  <2>2. CASE next("L_PAREN") /\ Call(call("if") \o parseExpression, pos + 2)
    <3>1. phase = "parsing" /\ Enter(call("if") \o parseExpression, pos + 2)
      BY <1>8, <2>2 DEF parseIfStmt, Statement, In, Call
    <3>2. pos + 2 \in 1 .. Len(tokens) + 1
      <4>1. (pos + 1) + 1 \in 1 .. Len(tokens) + 1
        BY <1>2, <2>2 DEF next
      <4> QED
        BY <1>2, <4>1
    <3>3. Fresh(call("if") \o parseExpression)
      <4>1. Fresh(call("if"))
        BY <1>3, FreshCall DEF call, Functions
      <4> QED
        BY <1>3, <4>1, FreshPair, FreshLevels DEF parseExpression
    <3> QED
      BY <3>1, <3>2, <3>3, EnterInv
  <2> QED
    BY <1>8, <2>1, <2>2 DEF parseIfStmt
<1>9. CASE Skip
  <2>1. phase = "parsing" /\ UNCHANGED <<nodes, frames, ret, phase>>
    BY <1>9 DEF Skip, Statement, In
  <2>2. pos' \in 1 .. Len(tokens) + 1
    <3>1. DOMAIN tokens = 1 .. Len(tokens)
      BY <1>1, SeqFacts DEF Typed
    <3> QED
      BY <1>2, <1>9, <3>1 DEF Skip
  <2> QED
    BY <2>1, <2>2, MoveInv
<1>10. CASE StatementKept
  <2>1. phase = "parsing" /\ ret # 0 /\ Top.fn \in {"program", "block"} /\ Keep(Top, <<>>, pos)
    BY <1>10 DEF StatementKept, In
  <2>2. Top \in Frame /\ FrameOK(Top)
    BY <1>1, <2>1, TopFacts DEF Inv, Phases
  <2>3. FrameOK([Top EXCEPT !.kids = Append(@, ret)])
    <3> DEFINE x == [Top EXCEPT !.kids = Append(@, ret)]
    <3>1. x.fn = Top.fn /\ x.op = Top.op
      BY <2>2 DEF Frame
    <3> HIDE DEF x
    <3>2. FrameOK(x)
      BY <2>1, <2>2, <3>1, LevelFacts DEF FrameOK
    <3> QED
      BY <3>2 DEF x
  <2> QED
    BY <1>2, <2>1, <2>2, <2>3, NoCalls, KeepInv
<1> QED
  BY <1>4, <1>5, <1>6, <1>7, <1>8, <1>9, <1>10

LEMMA VarDeclStep == ASSUME Inv, UNCHANGED tokens, parseVarDecl PROVE Inv'
<1> DEFINE eq == pos + IF token(pos + 2).type = "ARR_RIGHT" THEN 4 ELSE 2
           fs == callWith("varDecl", token(pos + 1).content) \o parseExpression
<1>1. Typed /\ phase = "parsing"
  BY DEF Inv, parseVarDecl, Statement, In
<1>2. CASE Throw
  BY <1>2, ThrowInv
<1>3. CASE next("IDENT") /\ token(eq).type = "EQ" /\ Enter(fs, eq + 1)
  <2>1. token(pos + 1).content \in Names
    BY <1>1, <1>3, TokenFacts DEF next
  <2>2. eq + 1 \in 1 .. Len(tokens) + 1
    <3> HIDE DEF eq
    <3> QED
      BY <1>1, <1>3, TokenFacts
  <2>3. Fresh(fs)
    <3>1. Fresh(callWith("varDecl", token(pos + 1).content))
      BY <2>1, FreshCall DEF callWith, Functions
    <3>2. Fresh(parseExpression)
      BY FreshLevels DEF parseExpression
    <3> QED
      BY <3>1, <3>2, FreshPair
  <2> HIDE DEF eq, fs
  <2> QED
    BY <1>1, <1>3, <2>2, <2>3, EnterInv
<1> QED
  BY <1>2, <1>3 DEF parseVarDecl

(***************************************************************************)
(* The operands.                                                           *)
(***************************************************************************)
LEMMA OperandSteps ==
  ASSUME Inv, UNCHANGED tokens,
         \/ parseUnary \/ UnaryDone \/ Number \/ Ident \/ Paren \/ NoOperand \/ ParenDone
         \/ AssignDone \/ DeclDone
  PROVE  Inv'
<1>1. Typed
  BY DEF Inv
<1>2. /\ pos \in Nat /\ Len(tokens) \in Nat /\ pos \in 1 .. Len(tokens) + 1
      /\ \A i : token(i).type # "END_OF_FILE" =>
           i \in 1 .. Len(tokens) /\ i + 1 \in 1 .. Len(tokens) + 1 /\ token(i).content \in Names
  BY <1>1, TokenFacts DEF Typed
<1>3. <<>> \in Names /\ Fresh(parseExpression)
  BY FreshLevels DEF Names, parseExpression
<1>4. CASE parseUnary
  <2>1. PICK op \in {"MINUS", "NOT"} : is(op) /\ Call(<<frame("unary", <<>>, op)>>, pos + 1)
    BY <1>4 DEF parseUnary
  <2>2. phase = "parsing" /\ pos + 1 \in 1 .. Len(tokens) + 1
    BY <1>2, <1>4, <2>1 DEF parseUnary, Operand, In, is
  <2>3. Fresh(<<frame("unary", <<>>, op)>>)
    BY <1>3, LevelFacts, FreshCall DEF Functions
  <2> QED
    BY <2>1, <2>2, <2>3, EnterInv DEF Call
<1>5. CASE UnaryDone
  <2>1. /\ phase = "parsing" /\ ret # 0 /\ Top.fn = "unary" /\ Build("UnaryOp", pos) /\ Return
        /\ Top.fn # "program"
    BY <1>5 DEF UnaryDone, In
  <2>2. Makes("UnaryOp")
    BY <2>1 DEF Makes
  <2> QED
    BY <1>2, <2>1, <2>2, MakeInv
<1>6. CASE Number
  <2> DEFINE n == value(token(pos).content)
  <2>1. CASE Throw
    BY <2>1, ThrowInv
  <2>2. CASE n =< MAX_INT64 /\ Leaf("IntLiteral", <<>>, n)
    <3>1. phase = "parsing" /\ ret = 0 /\ pos + 1 \in 1 .. Len(tokens) + 1
      BY <1>2, <1>6 DEF Number, Operand, In, is
    <3> HIDE DEF n
    <3>2. WellFormed([type |-> "IntLiteral", name |-> <<>>, op |-> NONE, number |-> n, kids |-> <<>>])
      BY <1>3, <2>2 DEF WellFormed
    <3> QED
      BY <2>2, <3>1, <3>2, LeafInv
  <2> QED
    BY <1>6, <2>1, <2>2 DEF Number
<1>7. CASE Ident
  <2> DEFINE name == token(pos).content
  <2>1. /\ phase = "parsing" /\ ret = 0 /\ pos + 1 \in 1 .. Len(tokens) + 1 /\ name \in Names
    BY <1>2, <1>7 DEF Ident, Operand, Statement, In, is
  <2> HIDE DEF name
  <2>2. \A t \in {"COLON", "EQ"} : next(t) => pos + 2 \in 1 .. Len(tokens) + 1
    <3> SUFFICES ASSUME NEW t \in {"COLON", "EQ"}, next(t) PROVE pos + 2 \in 1 .. Len(tokens) + 1
      OBVIOUS
    <3>1. (pos + 1) + 1 \in 1 .. Len(tokens) + 1
      BY <1>2 DEF next
    <3> QED
      BY <1>2, <3>1
  <2>3. CASE next("COLON") /\ Call(callWith("call", name), pos + 2)
    <3>1. Fresh(callWith("call", name))
      BY <2>1, FreshCall DEF callWith, Functions
    <3> QED
      BY <2>1, <2>2, <2>3, <3>1, EnterInv DEF Call
  <2>4. CASE next("EQ") /\ Call(callWith("assign", name) \o parseExpression, pos + 2)
    <3>1. Fresh(callWith("assign", name))
      BY <2>1, FreshCall DEF callWith, Functions
    <3>2. Fresh(callWith("assign", name) \o parseExpression)
      BY <1>3, <3>1, FreshPair
    <3> QED
      BY <2>1, <2>2, <2>4, <3>2, EnterInv DEF Call
  <2>5. CASE Leaf("Ident", name, 0)
    <3>1. WellFormed([type |-> "Ident", name |-> name, op |-> NONE, number |-> 0, kids |-> <<>>])
      BY <2>1, ParserAssumption DEF WellFormed
    <3> QED
      BY <2>1, <2>5, <3>1, LeafInv
  <2> QED
    BY <1>7, <2>3, <2>4, <2>5 DEF Ident, name
<1>8. CASE Paren
  <2>1. phase = "parsing" /\ pos + 1 \in 1 .. Len(tokens) + 1 /\ Enter(call("paren") \o parseExpression, pos + 1)
    BY <1>2, <1>8 DEF Paren, Operand, In, is, Call
  <2>2. Fresh(call("paren"))
    BY <1>3, FreshCall DEF call, Functions
  <2>3. Fresh(call("paren") \o parseExpression)
    BY <1>3, <2>2, FreshPair
  <2> QED
    BY <2>1, <2>3, EnterInv
<1>9. CASE NoOperand
  BY <1>9, ThrowInv DEF NoOperand
<1>10. CASE ParenDone
  <2>1. CASE Throw
    BY <2>1, ThrowInv
  <2>2. CASE is("R_PAREN") /\ Pass(pos + 1)
    <3>1. phase = "parsing" /\ Top.fn = "paren" /\ pos + 1 \in 1 .. Len(tokens) + 1 /\ Top.fn # "program"
      BY <1>2, <1>10, <2>2 DEF ParenDone, In, is
    <3>2. Top.kids = <<>>
      BY <1>1, <3>1, TopFacts DEF Inv, Phases, FrameOK
    <3> QED
      BY <2>2, <3>1, <3>2, PassInv
  <2> QED
    BY <1>10, <2>1, <2>2 DEF ParenDone
<1>11. CASE AssignDone
  <2>1. /\ phase = "parsing" /\ ret # 0 /\ Top.fn = "assign" /\ Build("VarAssign", pos) /\ Return
        /\ Top.fn # "program"
    BY <1>11 DEF AssignDone, In
  <2>2. Makes("VarAssign")
    BY <2>1 DEF Makes
  <2> QED
    BY <1>2, <2>1, <2>2, MakeInv
<1>12. CASE DeclDone
  <2>1. /\ phase = "parsing" /\ ret # 0 /\ Top.fn = "varDecl" /\ Build("VarDecl", pos) /\ Return
        /\ Top.fn # "program"
    BY <1>12 DEF DeclDone, In
  <2>2. Makes("VarDecl")
    BY <2>1 DEF Makes
  <2> QED
    BY <1>2, <2>1, <2>2, MakeInv
<1> QED
  BY <1>4, <1>5, <1>6, <1>7, <1>8, <1>9, <1>10, <1>11, <1>12

(***************************************************************************)
(* The arguments of a call, the levels of an expression, and an if.        *)
(***************************************************************************)
\* The running call with one more local.
LEMMA OneMore ==
  ASSUME Inv, phase = "parsing", ret # 0, NEW top \in Frame, top.kids = Top.kids
  PROVE  LET x == [top EXCEPT !.kids = Append(@, ret)]
         IN x.fn = top.fn /\ x.op = top.op /\ Len(x.kids) = Len(Top.kids) + 1 /\ Len(Top.kids) \in Nat
<1>1. Typed /\ ret \in Nat
  BY SeqFacts DEF Inv, Typed
<1>2. Top.kids \in Seq(Nat)
  BY <1>1, TopFacts DEF Inv, Phases, Frame
<1>3. Len(Append(Top.kids, ret)) = Len(Top.kids) + 1 /\ Len(Top.kids) \in Nat
  BY <1>1, <1>2
<1> QED
  BY <1>3 DEF Frame

LEMMA ArgumentSteps == ASSUME Inv, UNCHANGED tokens, Argument \/ ArgumentKept PROVE Inv'
<1>1. Typed
  BY DEF Inv
<1>2. /\ pos \in 1 .. Len(tokens) + 1
      /\ \A i : token(i).type # "END_OF_FILE" => i + 1 \in 1 .. Len(tokens) + 1
  BY <1>1, TokenFacts DEF Typed
<1>3. phase = "parsing" /\ Top.fn = "call" /\ Top.fn # "program"
  BY DEF Argument, ArgumentKept, In
<1>4. CASE Argument
  <2>1. CASE is("SEMICOLON") /\ Build("FuncCall", pos + 1) /\ Return
    <3>1. pos + 1 \in 1 .. Len(tokens) + 1
      BY <1>2, <2>1 DEF is
    <3>2. Makes("FuncCall")
      BY <1>3 DEF Makes
    <3> QED
      BY <1>3, <2>1, <3>1, <3>2, MakeInv
  <2>2. CASE Call(parseExpression, pos)
    <3>1. Fresh(parseExpression)
      BY FreshLevels DEF parseExpression
    <3> QED
      BY <1>2, <1>3, <2>2, <3>1, EnterInv DEF Call
  <2> QED
    BY <1>4, <2>1, <2>2 DEF Argument
<1>5. CASE ArgumentKept
  <2>1. CASE Throw
    BY <2>1, ThrowInv
  <2>2. ASSUME NEW p \in 1 .. Len(tokens) + 1, Keep(Top, <<>>, p) PROVE Inv'
    <3>1. ret # 0
      BY <1>5 DEF ArgumentKept
    <3>2. Top \in Frame /\ FrameOK(Top)
      BY <1>1, <1>3, TopFacts DEF Inv, Phases
    <3>3. FrameOK([Top EXCEPT !.kids = Append(@, ret)])
      <4> DEFINE x == [Top EXCEPT !.kids = Append(@, ret)]
      <4>1. x.fn = Top.fn /\ x.op = Top.op
        BY <1>3, <3>1, <3>2, OneMore
      <4> HIDE DEF x
      <4>2. FrameOK(x)
        BY <1>3, <3>2, <4>1, LevelFacts DEF FrameOK
      <4> QED
        BY <4>2 DEF x
    <3> QED
      BY <1>3, <2>2, <3>1, <3>2, <3>3, NoCalls, KeepInv
  <2>3. is("COMMA") => pos + 1 \in 1 .. Len(tokens) + 1
    BY <1>2 DEF is
  <2> QED
    BY <1>2, <1>5, <2>1, <2>2, <2>3 DEF ArgumentKept
<1> QED
  BY <1>4, <1>5

LEMMA LevelSteps == ASSUME Inv, UNCHANGED tokens, Operator \/ Combine \/ LevelDone PROVE Inv'
<1>1. Typed
  BY DEF Inv
<1>2. /\ pos \in 1 .. Len(tokens) + 1
      /\ \A i : token(i).type # "END_OF_FILE" => i + 1 \in 1 .. Len(tokens) + 1
  BY <1>1, TokenFacts DEF Typed
<1>3. <<>> \in Names
  BY DEF Names
<1>4. phase = "parsing" /\ ret # 0 /\ Top.fn \in LevelNames /\ Top.fn # "program"
  BY LevelFacts DEF Operator, Combine, LevelDone, In
<1>5. Top \in Frame /\ FrameOK(Top)
  BY <1>1, <1>4, TopFacts DEF Inv, Phases
<1>6. CASE Operator
  <2> DEFINE t == token(pos).type
             top == [Top EXCEPT !.op = t]
  <2>1. PICK k \in 1 .. 4 : Top.op = NONE /\ t \in Operators[k] /\ Keep(top, parseFrom(rightOperand(k)), pos + 1)
    BY <1>6 DEF Operator
  <2> HIDE DEF t
  <2>2. t \in Calculating \ {NONE, "END_OF_FILE"}
    BY <2>1, LevelFacts
  <2>3. pos + 1 \in 1 .. Len(tokens) + 1
    BY <1>2, <2>2 DEF t
  <2>4. top \in Frame /\ top.fn = Top.fn /\ top.kids = Top.kids /\ top.op = t
    BY <1>5, <2>2 DEF Frame
  <2> HIDE DEF top
  <2>5. Fresh(parseFrom(rightOperand(k)))
    BY FreshLevels DEF rightOperand
  <2>6. FrameOK([top EXCEPT !.kids = Append(@, ret)])
    <3> DEFINE x == [top EXCEPT !.kids = Append(@, ret)]
    <3>1. x.fn = Top.fn /\ x.op = t /\ Len(x.kids) = Len(Top.kids) + 1 /\ Len(Top.kids) \in Nat
      BY <1>4, <2>4, OneMore
    <3>2. Len(Top.kids) = 0
      BY <1>4, <1>5, <2>1 DEF FrameOK
    <3> HIDE DEF x
    <3>3. FrameOK(x)
      BY <1>4, <2>2, <3>1, <3>2, LevelFacts DEF FrameOK
    <3> QED
      BY <3>3 DEF x
  <2> QED
    BY <1>4, <2>1, <2>3, <2>4, <2>5, <2>6, KeepInv
<1>7. CASE Combine
  <2>1. PICK k \in 1 .. 4 : /\ Top.op # NONE /\ Build("BinaryOp", pos)
                            /\ frames' = Below \o call(Levels[k]) /\ UNCHANGED phase
    BY <1>7 DEF Combine
  <2>2. Makes("BinaryOp")
    BY <1>4, <2>1 DEF Makes
  <2>3. Fresh(call(Levels[k]))
    <3>1. Levels[k] \in LevelNames
      BY LevelFacts
    <3>2. Levels[k] \in Functions /\ Levels[k] # "program" /\ Levels[k] # "unary"
      BY <3>1, LevelFacts DEF Functions
    <3> QED
      BY <1>3, <3>2, FreshCall DEF call
  <2> QED
    BY <1>2, <1>4, <2>1, <2>2, <2>3, MadeWell, BuildInv
<1>8. CASE LevelDone
  <2>1. Top.op = NONE /\ Pass(pos)
    BY <1>8 DEF LevelDone
  <2>2. Top.kids = <<>>
    <3>1. Len(Top.kids) = 0 /\ Top.kids \in Seq(Nat)
      BY <1>4, <1>5, <2>1 DEF FrameOK, Frame
    <3> QED
      BY <3>1, EmptySeq
  <2> QED
    BY <1>2, <1>4, <2>1, <2>2, PassInv
<1> QED
  BY <1>6, <1>7, <1>8

LEMMA IfSteps == ASSUME Inv, UNCHANGED tokens, IfCondition \/ IfElse \/ IfDone PROVE Inv'
<1>1. Typed
  BY DEF Inv
<1>2. /\ pos \in 1 .. Len(tokens) + 1 /\ pos \in Nat
      /\ \A i : token(i).type # "END_OF_FILE" => i + 1 \in 1 .. Len(tokens) + 1
  BY <1>1, TokenFacts DEF Typed
<1>3. <<>> \in Names
  BY DEF Names
<1>4. phase = "parsing" /\ ret # 0 /\ Top.fn = "if" /\ Top.fn # "program"
  BY DEF IfCondition, IfElse, IfDone, In
<1>5. Top \in Frame /\ FrameOK(Top)
  BY <1>1, <1>4, TopFacts DEF Inv, Phases
<1>6. ASSUME next("L_CURL_BRKT"), Len(Top.kids) = 0 \/ Len(Top.kids) = 1, Keep(Top, call("block"), pos + 2)
      PROVE  Inv'
  <2>1. pos + 2 \in 1 .. Len(tokens) + 1
    <3>1. (pos + 1) + 1 \in 1 .. Len(tokens) + 1
      BY <1>2, <1>6 DEF next
    <3> QED
      BY <1>2, <3>1
  <2>2. Fresh(call("block"))
    BY <1>3, FreshCall DEF call, Functions
  <2>3. FrameOK([Top EXCEPT !.kids = Append(@, ret)])
    <3> DEFINE x == [Top EXCEPT !.kids = Append(@, ret)]
    <3>1. x.fn = Top.fn /\ x.op = Top.op /\ Len(x.kids) = Len(Top.kids) + 1
      BY <1>4, <1>5, OneMore
    <3> HIDE DEF x
    <3>2. Len(x.kids) =< 2
      <4>1. \A n : n = 0 \/ n = 1 => n + 1 =< 2
        OBVIOUS
      <4> QED
        BY ONLY <1>6, <3>1, <4>1
    <3>3. FrameOK(x)
      BY <1>4, <1>5, <3>1, <3>2, LevelFacts DEF FrameOK
    <3> QED
      BY <3>3 DEF x
  <2> QED
    BY <1>4, <1>5, <1>6, <2>1, <2>2, <2>3, KeepInv
<1>7. CASE IfCondition
  <2>1. Len(Top.kids) = 0
    BY <1>7 DEF IfCondition
  <2>2. CASE Throw
    BY <2>2, ThrowInv
  <2> QED
    BY <1>6, <1>7, <2>1, <2>2 DEF IfCondition
<1>8. CASE IfElse
  <2>1. CASE Throw
    BY <2>1, ThrowInv
  <2> QED
    BY <1>6, <1>8, <2>1 DEF IfElse
<1>9. CASE IfDone
  <2>1. Makes("If") /\ Build("If", pos) /\ Return
    BY <1>4, <1>9 DEF IfDone, Makes
  <2> QED
    BY <1>2, <1>4, <2>1, MakeInv
<1> QED
  BY <1>7, <1>8, <1>9

(***************************************************************************)
(* The whole compiler.                                                     *)
(***************************************************************************)
\* A token more: the parser has not started.
LEMMA TokenizeStep == ASSUME Inv, Tokenize, UNCHANGED parserVars PROVE Inv'
<1>1. /\ Typed /\ phase = "lexing" /\ pos = 1 /\ nodes = <<>> /\ frames = call("program") /\ ret = 0
      /\ UNCHANGED <<pos, nodes, frames, ret>>
  BY DEF Inv, Phases, Tokenize, parserVars
<1>2. /\ IsSeq(tokens') /\ phase' \in {"lexing", "parsing"} /\ 1 \in 1 .. Len(tokens') + 1
  <2>1. CASE UNCHANGED tokens /\ phase' = "parsing"
    BY <1>1, <2>1 DEF Typed
  <2>2. ASSUME NEW t, tokens' = Append(tokens, t), UNCHANGED phase
        PROVE  IsSeq(tokens') /\ phase' \in {"lexing", "parsing"} /\ 1 \in 1 .. Len(tokens') + 1
    <3>1. IsSeq(tokens') /\ Len(tokens') = Len(tokens) + 1 /\ Len(tokens) \in Nat
      BY <1>1, <2>2, AppendAny, SeqFacts DEF Typed
    <3> QED
      BY <1>1, <2>2, <3>1
  <2> QED
    BY <2>1, <2>2 DEF Tokenize
<1>3. frames' # <<>>
  BY <1>1 DEF call
<1>4. frames' \in Seq(Frame)' /\ \A f \in DOMAIN frames' : FrameOK(frames'[f]) /\ (frames'[f].fn = "program" <=> f = 1)
  <2> DEFINE x == frame("program", <<>>, NONE)
  <2>1. x \in Frame' /\ x.fn = "program" /\ x.op = NONE /\ x.kids = <<>>
    BY DEF frame, Frame, Names, Functions
  <2>2. FrameOK(x)
    BY <2>1, LevelFacts DEF FrameOK
  <2> HIDE DEF x
  <2>3. frames' = <<x>> /\ DOMAIN <<x>> = {1} /\ <<x>>[1] = x
    BY <1>1 DEF call, x
  <2> QED
    BY <2>1, <2>2, <2>3
<1>5. Typed'
  BY <1>1, <1>2, <1>4 DEF Typed
<1>6. Phases'
  BY <1>1, <1>2, <1>3 DEF Phases
<1>7. Parts' = Parts /\ Locals' = Locals
  BY <1>1 DEF Parts, Locals
<1> QED
  BY <1>1, <1>5, <1>6, <1>7 DEF Inv

\* The tree is printed, or nothing happens.
LEMMA PrintStep ==
  ASSUME Inv, UNCHANGED <<tokens, pos, nodes, frames, ret>>,
         UNCHANGED phase \/ (phase = "parsed" /\ phase' = "printed")
  PROVE  Inv'
<1>1. Typed' /\ Parts' = Parts
  BY Stays DEF Inv, Typed
<1>2. Locals' = Locals
  BY DEF Locals
<1>3. Phases'
  BY DEF Inv, Phases
<1> QED
  BY <1>1, <1>2, <1>3 DEF Inv

\* Nothing is left.
LEMMA NothingOwned ==
  ASSUME NEW P \in Lists, NEW L \in Lists, \A n \in Nat : P[n] = <<>> /\ L[n] = <<>>
  PROVE  Owned(P, 0, L, 0)
BY DEF Owned

LEMMA FreeStep == ASSUME Inv, freeMemory PROVE Inv'
<1>1. /\ Typed /\ frames = <<>> /\ phase' = "freed" /\ nodes' = <<>> /\ ret' = 0
      /\ UNCHANGED <<tokens, pos, frames>>
  BY DEF Inv, Phases, freeMemory, lexerVars
<1>2. Len(nodes') = 0 /\ DOMAIN nodes' = {} /\ IsSeq(nodes') /\ DOMAIN frames' = {}
  BY <1>1 DEF IsSeq
<1>3. Typed'
  <2>1. Frame' = Frame
    BY <1>1 DEF Frame, Names
  <2> QED
    BY <1>1, <1>2, <2>1 DEF Typed
<1>4. Phases'
  BY <1>1 DEF Phases
<1>5. Parts' \in Lists /\ Locals' \in Lists /\ \A n \in Nat : Parts'[n] = <<>> /\ Locals'[n] = <<>>
  BY <1>2 DEF Parts, Locals, Lists
<1>6. Owned(Parts', 0, Locals', 0)
  BY <1>5, NothingOwned
<1> QED
  BY <1>1, <1>2, <1>3, <1>4, <1>6 DEF Inv

LEMMA InitInv == CompilerInit => Inv
<1> SUFFICES ASSUME CompilerInit PROVE Inv
  OBVIOUS
<1>1. /\ tokens = <<>> /\ nodes = <<>> /\ pos = 1 /\ ret = 0 /\ frames = call("program")
      /\ phase = "lexing"
  BY DEF CompilerInit, LexerInit, ParserInit
<1>2. Len(tokens) = 0 /\ Len(nodes) = 0 /\ DOMAIN nodes = {} /\ IsSeq(tokens) /\ IsSeq(nodes)
  BY <1>1 DEF IsSeq
<1> DEFINE x == frame("program", <<>>, NONE)
<1>3. x \in Frame /\ x.fn = "program" /\ x.op = NONE /\ x.kids = <<>>
  BY DEF frame, Frame, Names, Functions
<1>4. FrameOK(x)
  BY <1>3, LevelFacts DEF FrameOK
<1> HIDE DEF x
<1>5. /\ frames \in Seq(Frame) /\ DOMAIN frames = {1}
      /\ \A f \in DOMAIN frames : f = 1 /\ frames[f] = x
  <2>1. frames = <<x>>
    BY <1>1 DEF call, x
  <2> QED
    BY <1>3, <2>1
<1>6. Typed
  <2>1. \A f \in DOMAIN frames : FrameOK(frames[f]) /\ (frames[f].fn = "program" <=> f = 1)
    BY <1>3, <1>4, <1>5
  <2> QED
    BY <1>1, <1>2, <1>5, <2>1 DEF Typed
<1>7. Phases
  BY <1>1 DEF Phases
<1>8. Parts \in Lists /\ Locals \in Lists /\ \A n \in Nat : Parts[n] = <<>> /\ Locals[n] = <<>>
  <2>1. \A n \in Nat : Parts[n] = <<>>
    BY <1>2 DEF Parts
  <2>2. \A n \in Nat : Locals[n] = <<>>
    BY <1>3, <1>5 DEF Locals
  <2> QED
    BY <1>6, <2>1, <2>2, ListsTyped
<1>9. Owned(Parts, 0, Locals, 0)
  BY <1>8, NothingOwned
<1> QED
  BY <1>1, <1>2, <1>6, <1>7, <1>9 DEF Inv

LEMMA NextInv == Inv /\ [CompilerNext]_compilerVars => Inv'
<1> SUFFICES ASSUME Inv, [CompilerNext]_compilerVars PROVE Inv'
  OBVIOUS
<1>1. CASE Tokenize /\ UNCHANGED <<parserVars, out>>
  BY <1>1, TokenizeStep
<1>2. CASE Parse /\ UNCHANGED <<lexerVars, out>>
  <2>1. UNCHANGED tokens
    BY <1>2 DEF lexerVars
  <2> QED
    BY <1>2, <2>1, StatementSteps, VarDeclStep, OperandSteps, ArgumentSteps, LevelSteps, IfSteps DEF Parse
<1>3. CASE printAST
  BY <1>3, PrintStep DEF printAST, lexerVars, parserVars
<1>4. CASE freeMemory
  BY <1>4, FreeStep
<1>5. CASE UNCHANGED compilerVars
  BY <1>5, PrintStep DEF compilerVars, lexerVars, parserVars
<1> QED
  BY <1>1, <1>2, <1>3, <1>4, <1>5 DEF CompilerNext

LEMMA InvAlways == CompilerSpec => []Inv
<1>1. CompilerInit => Inv
  BY InitInv
<1>2. Inv /\ [CompilerNext]_compilerVars => Inv'
  BY NextInv
<1> QED
  BY <1>1, <1>2, PTL DEF CompilerSpec

\* For every text the parser, which has no bound check of its own, reads the token
\* after the last one at most; every node it makes can be printed; and what it
\* returns is a program node, when no call is left.
THEOREM CompilerTypeOK == CompilerSpec => []TypeOK
<1>1. Inv => TypeOK
  <2> SUFFICES ASSUME Inv PROVE TypeOK
    OBVIOUS
  <2>1. phase = "parsing" => frames # <<>> /\ frames[1].fn = "program"
    <3>1. frames \in Seq(Frame) /\ \A f \in DOMAIN frames : frames[f].fn = "program" <=> f = 1
      BY DEF Inv, Typed
    <3>2. frames # <<>> => 1 \in DOMAIN frames
      BY <3>1, EmptySeq
    <3> QED
      BY <3>1, <3>2 DEF Inv, Phases
  <2> QED
    BY <2>1 DEF TypeOK, Inv, Typed, Phases
<1> QED
  BY <1>1, InvAlways, PTL

\* For every text, at every moment: a node in the arena is part of exactly one
\* node, or held by exactly one call, or being returned.  No node is lost by a
\* parse function, shared by two, or below itself.
THEOREM CompilerOneOwner == CompilerSpec => []OneOwner
<1>1. Inv => OneOwner
  <2> SUFFICES ASSUME Inv PROVE OneOwner
    OBVIOUS
  <2> DEFINE N == Len(nodes)
  <2>1. Typed /\ Owned(Parts, N, Locals, ret)
    BY DEF Inv
  <2>2. DOMAIN nodes = 1 .. N /\ N \in Nat /\ DOMAIN frames = 1 .. Len(frames) /\ Len(frames) \in Nat
    BY <2>1, SeqFacts DEF Typed
  <2>3. /\ \A n \in DOMAIN nodes : n \in Nat /\ Parts[n] = nodes[n].kids
        /\ \A f \in DOMAIN frames : f \in Nat /\ Locals[f] = frames[f].kids
    BY <2>2 DEF Parts, Locals
  <2>4. /\ \A n \in Nat : n \notin DOMAIN nodes => Parts[n] = <<>>
        /\ \A f \in Nat : f \notin DOMAIN frames => Locals[f] = <<>>
    BY DEF Parts, Locals
  <2> HIDE DEF N
  <2>5. PartsFirst
    BY <2>1, <2>3 DEF Owned, PartsFirst
  <2>6. LocalsHeld
    BY <2>1, <2>2, <2>3 DEF Owned, LocalsHeld
  <2>7. NoSharing
    BY <2>1, <2>3 DEF Owned, NoSharing
  <2>8. NoSharedLocal
    <3>1. \A f, g \in DOMAIN frames : \A k \in DOMAIN frames[f].kids : \A l \in DOMAIN frames[g].kids :
            frames[f].kids[k] = frames[g].kids[l] => f = g /\ k = l
      BY <2>1, <2>3 DEF Owned
    <3>2. \A n \in DOMAIN nodes : \A k \in DOMAIN nodes[n].kids : nodes[n].kids[k] # ret
      BY <2>1, <2>3 DEF Owned
    <3>3. \A n \in DOMAIN nodes : \A k \in DOMAIN nodes[n].kids :
            \A f \in DOMAIN frames : \A l \in DOMAIN frames[f].kids :
              nodes[n].kids[k] # frames[f].kids[l]
      BY <2>1, <2>3 DEF Owned
    <3> QED
      BY <3>1, <3>2, <3>3 DEF NoSharedLocal
  <2>9. NoOrphan
    <3> SUFFICES ASSUME NEW i \in DOMAIN nodes, i # ret
                 PROVE  \/ \E n \in DOMAIN nodes : \E k \in DOMAIN nodes[n].kids : nodes[n].kids[k] = i
                        \/ \E f \in DOMAIN frames : \E k \in DOMAIN frames[f].kids : frames[f].kids[k] = i
      BY DEF NoOrphan
    <3>1. ASSUME NEW n \in Nat, NEW k \in DOMAIN Parts[n], Parts[n][k] = i
          PROVE  \E m \in DOMAIN nodes : \E l \in DOMAIN nodes[m].kids : nodes[m].kids[l] = i
      <4>1. n \in DOMAIN nodes
        BY <2>4, <3>1
      <4> QED
        BY <2>3, <3>1, <4>1
    <3>2. ASSUME NEW f \in Nat, NEW k \in DOMAIN Locals[f], Locals[f][k] = i
          PROVE  \E g \in DOMAIN frames : \E l \in DOMAIN frames[g].kids : frames[g].kids[l] = i
      <4>1. f \in DOMAIN frames
        BY <2>4, <3>2
      <4> QED
        BY <2>3, <3>2, <4>1
    <3> QED
      BY <2>1, <2>2, <3>1, <3>2 DEF Owned
  <2> QED
    BY <2>5, <2>6, <2>7, <2>8, <2>9 DEF OneOwner
<1> QED
  BY <1>1, InvAlways, PTL

(***************************************************************************)
(* The tokens.  Longest says of a token that it is a lexeme and that no    *)
(* longer one begins at its place; Skips says where skipWhiteSpace stops.  *)
(***************************************************************************)
\* The text is a sequence of pieces, none of them the end of a C string.
Text == src \in Seq(values(src)) /\ NUL \notin values(src)

\* peek sees the pieces of the text and then the end, which no piece is.
LEMMA TextFacts ==
  ASSUME Text
  PROVE  /\ Len(src) \in Nat /\ DOMAIN src = 1 .. Len(src)
         /\ \A i \in 1 .. Len(src) : peek(i) = src[i] /\ src[i] # NUL /\ src[i] \in values(src)
         /\ \A i \in Int : i \notin 1 .. Len(src) => peek(i) = NUL
<1>1. Len(src) \in Nat /\ DOMAIN src = 1 .. Len(src)
  BY DEF Text
<1>2. \A i \in DOMAIN src : src[i] \in values(src)
  BY DEF values
<1>3. NUL \notin values(src)
  BY DEF Text
<1> QED
  BY <1>1, <1>2, <1>3 DEF peek

\* A class that stops at the end.
LEMMA PastFacts ==
  ASSUME Text, NEW C, NUL \notin C, NEW i \in 1 .. Len(src) + 1
  PROVE  /\ past(i, C) \in i .. Len(src) + 1
         /\ All(i, past(i, C), C)
         /\ peek(past(i, C)) \notin C
         /\ peek(i) \in C => past(i, C) > i
         /\ past(i, C) \in Nat
<1> DEFINE T == {j \in i .. Len(src) + 1 : peek(j) \notin C}
           p == past(i, C)
<1>1. Len(src) \in Nat /\ i \in Nat
  BY TextFacts
<1>2. T \subseteq Nat /\ Len(src) + 1 \in T
  BY <1>1, TextFacts
<1>3. \E n \in T : \A m \in T : n =< m
  BY <1>2, LeastElement
<1>4. p \in T /\ \A m \in T : p =< m
  BY <1>3 DEF past, Min
<1>5. \A q \in i .. p - 1 : src[q] \in C
  <2> TAKE q \in i .. p - 1
  <2>1. q \in i .. Len(src) /\ q \notin T
    BY <1>1, <1>4
  <2>2. peek(q) = src[q]
    BY <1>1, <2>1, TextFacts
  <2> QED
    BY <1>1, <2>1, <2>2
<1> QED
  BY <1>1, <1>4, <1>5 DEF All

(***************************************************************************)
(* Blanks.                                                                 *)
(***************************************************************************)
NotNewline == values(src) \ {"\n"}

\* Where skipWhiteSpace goes from place i: i itself when nothing is skipped.
over(i) ==
  IF peek(i) \in Space THEN i + 1
  ELSE IF peek(i) = "/" /\ peek(i + 1) = "/" THEN past(i, NotNewline) ELSE i

skipped1(f, i) == IF over(i) = i THEN i ELSE f[over(i)]

\* It goes forward exactly at a blank or a comment.
LEMMA OverFacts ==
  ASSUME Text, NEW i \in Nat
  PROVE  /\ over(i) \in Nat /\ over(i) >= i
         /\ over(i) > i <=> peek(i) \in Space \/ (peek(i) = "/" /\ peek(i + 1) = "/")
         /\ over(i) > i => i \in 1 .. Len(src) /\ over(i) \in 1 .. Len(src) + 1
<1>1. NUL \notin Space /\ NUL \notin NotNewline /\ NUL # "/"
  <2>1. NUL \notin values(src)
    BY DEF Text
  <2>2. NUL \notin Space /\ NUL # "/"
    BY DEF NUL, Space
  <2> QED
    BY <2>1, <2>2 DEF NotNewline
<1>2. CASE peek(i) \in Space
  <2>1. i \in 1 .. Len(src)
    BY <1>1, <1>2, TextFacts
  <2> QED
    BY <1>2, <2>1, TextFacts DEF over
<1>3. CASE peek(i) \notin Space /\ peek(i) = "/" /\ peek(i + 1) = "/"
  <2>1. i \in 1 .. Len(src)
    BY <1>1, <1>3, TextFacts
  <2>2. peek(i) \in NotNewline
    BY <1>3, <2>1, TextFacts DEF NotNewline
  <2>3. i \in 1 .. Len(src) + 1 /\ Len(src) \in Nat
    BY <2>1, TextFacts
  <2>4. past(i, NotNewline) \in i .. Len(src) + 1 /\ past(i, NotNewline) > i
    BY <1>1, <2>2, <2>3, PastFacts
  <2> QED
    BY <1>3, <2>1, <2>3, <2>4 DEF over
<1>4. CASE peek(i) \notin Space /\ ~(peek(i) = "/" /\ peek(i + 1) = "/")
  BY <1>4 DEF over
<1> QED
  BY <1>2, <1>3, <1>4

\* The recursion of skipWhiteSpace defines a function.
LEMMA SkipsExist ==
  ASSUME Text
  PROVE  \E f \in [Nat -> Nat] : \A i \in Nat : f[i] = skipped1(f, i)
<1> DEFINE E == Len(src) + 1
           P(d) == \E f \in [Nat -> Nat] : \A i \in Nat : i + d >= E => f[i] = skipped1(f, i)
           S == {d \in Nat : P(d)}
<1>0. E \in Nat
  BY TextFacts
<1>1. 0 \in S
  <2> DEFINE f == [i \in Nat |-> i]
  <2>1. ASSUME NEW i \in Nat, i + 0 >= E PROVE f[i] = skipped1(f, i)
    <3>1. i \notin 1 .. Len(src)
      BY <1>0, <2>1, TextFacts
    <3>2. over(i) = i
      BY <3>1, OverFacts
    <3> QED
      BY <3>2 DEF skipped1
  <2>2. f \in [Nat -> Nat]
    OBVIOUS
  <2> QED
    BY <2>1, <2>2
<1>2. ASSUME NEW d \in Nat, d \in S PROVE d + 1 \in S
  <2>1. PICK f \in [Nat -> Nat] : \A i \in Nat : i + d >= E => f[i] = skipped1(f, i)
    BY <1>2
  <2> DEFINE g == [i \in Nat |-> IF i + d >= E THEN f[i] ELSE skipped1(f, i)]
  <2>2. g \in [Nat -> Nat]
    <3>1. \A i \in Nat : skipped1(f, i) \in Nat /\ f[i] \in Nat
      BY <2>1, OverFacts DEF skipped1
    <3> QED
      BY <3>1
  <2>3. ASSUME NEW i \in Nat, i + (d + 1) >= E PROVE g[i] = skipped1(g, i)
    <3>1. over(i) \in Nat /\ (over(i) = i \/ over(i) > i)
      BY OverFacts
    <3>2. g[i] = skipped1(f, i)
      BY <2>1
    <3>3. over(i) # i => over(i) + d >= E
      BY <1>0, <2>3, <3>1
    <3>4. over(i) # i => g[over(i)] = f[over(i)]
      BY <3>1, <3>3
    <3> QED
      BY <3>2, <3>4 DEF skipped1
  <2> HIDE DEF g
  <2>4. \A i \in Nat : i + (d + 1) >= E => g[i] = skipped1(g, i)
    BY <2>3
  <2> HIDE DEF E
  <2> QED
    BY <2>2, <2>4
<1>3. \A d \in Nat : d \in S
  <2> HIDE DEF S
  <2> QED
    BY <1>1, <1>2, Induction
<1>4. PICK f \in [Nat -> Nat] : \A i \in Nat : i + E >= E => f[i] = skipped1(f, i)
  BY <1>0, <1>3
<1>5. \A i \in Nat : i + E >= E
  BY <1>0
<1> HIDE DEF E
<1> QED
  BY <1>4, <1>5

\* What skipWhiteSpace does at one place.
LEMMA SkipStep ==
  ASSUME Text
  PROVE  \A i \in Nat : skipWhiteSpace[i] = IF over(i) = i THEN i ELSE skipWhiteSpace[over(i)]
<1> DEFINE body(f, i) ==
      IF peek(i) \in Space THEN f[i + 1]
      ELSE IF peek(i) = "/" /\ peek(i + 1) = "/"
      THEN f[past(i, values(src) \ {"\n"})]
      ELSE i
<1>1. ASSUME NEW f, NEW i \in Nat PROVE body(f, i) = skipped1(f, i)
  <2>1. over(i) # i <=> peek(i) \in Space \/ (peek(i) = "/" /\ peek(i + 1) = "/")
    BY OverFacts
  <2>2. skipped1(f, i) = IF over(i) = i THEN i ELSE f[over(i)]
    BY DEF skipped1
  <2> QED
    BY <2>1, <2>2 DEF over, NotNewline
<1>2. PICK f \in [Nat -> Nat] : \A i \in Nat : f[i] = skipped1(f, i)
  BY SkipsExist
<1>3. f = [i \in Nat |-> body(f, i)]
  <2>1. \A i \in Nat : f[i] = body(f, i)
    BY <1>1, <1>2
  <2> HIDE DEF body
  <2> QED
    BY <1>2, <2>1
<1>4. skipWhiteSpace = CHOOSE g : g = [i \in Nat |-> body(g, i)]
  BY DEF skipWhiteSpace
<1>5. skipWhiteSpace = [i \in Nat |-> body(skipWhiteSpace, i)]
  <2> HIDE DEF body
  <2> QED
    BY <1>3, <1>4
<1>6. \A i \in Nat : skipWhiteSpace[i] = skipped1(skipWhiteSpace, i)
  <2>1. \A i \in Nat : skipWhiteSpace[i] = body(skipWhiteSpace, i)
    <3> HIDE DEF body
    <3> QED
      BY <1>5
  <2> HIDE DEF body
  <2> QED
    BY <1>1, <2>1
<1> QED
  BY <1>6 DEF skipped1

\* What is right of a place b where skipping from place i stops.
Skips(i, b) ==
  /\ b \in i .. Len(src) + 1
  /\ Blank(i, b)
  /\ peek(b) \notin Space
  /\ ~(peek(b) = "/" /\ peek(b + 1) = "/")
  /\ b =< Len(src) => ~Comments(i, b)

\* A blank before what is skipped.
LEMMA AfterSpace ==
  ASSUME Text, NEW i \in 1 .. Len(src), src[i] \in Space, NEW b \in Nat, Skips(i + 1, b)
  PROVE  Skips(i, b)
<1>1. Len(src) \in Nat /\ i \in Nat /\ b \in i + 1 .. Len(src) + 1 /\ src[i] # "/"
  <2>1. \A c \in Space : c # "/"
    BY Zenon DEF Space
  <2> QED
    BY <2>1, TextFacts DEF Skips
<1>2. \A p \in i + 1 .. Len(src) + 1 : Comments(i, p) <=> Comments(i + 1, p)
  <2> TAKE p \in i + 1 .. Len(src) + 1
  <2>1. p \in Nat /\ i + 1 .. p \subseteq i .. p /\ \A c \in i .. p : c = i \/ c \in i + 1 .. p
    BY <1>1
  <2> QED
    BY <1>1, <2>1 DEF Comments
<1>3. \A p \in i .. b - 1 : src[p] \in Space \/ Comments(i, p)
  <2> TAKE p \in i .. b - 1
  <2>1. CASE p = i
    BY <2>1
  <2>2. CASE p # i
    <3>1. p \in i + 1 .. b - 1 /\ p \in i + 1 .. Len(src) + 1
      BY <1>1, <2>2
    <3>2. src[p] \in Space \/ Comments(i + 1, p)
      BY <3>1 DEF Skips, Blank
    <3> QED
      BY <1>2, <3>1, <3>2
  <2> QED
    BY <2>1, <2>2
<1>4. Comments(i, b - 1) => peek(b) \in {NUL, "\n"}
  <2> HAVE Comments(i, b - 1)
  <2>1. CASE b = i + 1
    <3>1. b - 1 = i
      BY <1>1, <2>1
    <3>2. \A c \in i .. i : c = i
      BY <1>1
    <3> QED
      BY <1>1, <3>1, <3>2 DEF Comments
  <2>2. CASE b > i + 1
    <3>1. b - 1 \in i + 1 .. Len(src) + 1
      BY <1>1, <2>2
    <3>2. Comments(i + 1, b - 1)
      BY <1>2, <3>1
    <3> QED
      BY <2>2, <3>2 DEF Skips, Blank
  <2> QED
    BY <1>1, <2>1, <2>2
<1>5. Blank(i, b)
  BY <1>3, <1>4 DEF Blank
<1>6. b =< Len(src) => ~Comments(i, b)
  BY <1>1, <1>2 DEF Skips
<1> QED
  BY <1>1, <1>5, <1>6 DEF Skips

\* A comment before what is skipped.
LEMMA AfterComment ==
  ASSUME Text, NEW i \in 1 .. Len(src), src[i] = "/", peek(i + 1) = "/",
         NEW b \in Nat, Skips(past(i, NotNewline), b)
  PROVE  Skips(i, b)
<1> DEFINE e == past(i, NotNewline)
<1>0. NUL \notin NotNewline /\ i \in 1 .. Len(src) + 1
  BY TextFacts DEF Text, NotNewline
<1>1. /\ Len(src) \in Nat /\ i \in Nat
      /\ e \in i + 1 .. Len(src) + 1
      /\ \A p \in i .. e - 1 : src[p] # "\n"
      /\ peek(e) \in {NUL, "\n"}
  <2>1. Len(src) \in Nat /\ i \in Nat /\ peek(i) \in NotNewline
    BY TextFacts DEF NotNewline
  <2>2. e \in i .. Len(src) + 1 /\ All(i, e, NotNewline) /\ peek(e) \notin NotNewline /\ e > i
    BY <1>0, <2>1, PastFacts
  <2>3. \A p \in i .. e - 1 : src[p] # "\n"
    BY <2>2 DEF All, NotNewline
  <2>4. peek(e) \in {NUL, "\n"}
    <3>1. CASE e = Len(src) + 1
      BY <2>1, <3>1, TextFacts
    <3>2. CASE e # Len(src) + 1
      <4>1. e \in 1 .. Len(src)
        BY <2>1, <2>2, <3>2
      <4> QED
        BY <2>2, <4>1, TextFacts DEF NotNewline
    <3> QED
      BY <3>1, <3>2
  <2> QED
    BY <2>1, <2>2, <2>3, <2>4
<1> HIDE DEF e
<1>2. b \in e .. Len(src) + 1 /\ Blank(e, b) /\ b \in Nat
  BY DEF Skips, e
<1>3. \A p \in i .. e - 1 : Comments(i, p)
  <2> TAKE p \in i .. e - 1
  <2>1. i \in i .. p /\ \A q \in i .. p : q \in i .. e - 1
    BY <1>1
  <2> QED
    BY <1>1, <2>1 DEF Comments
<1>4. \A p \in e .. Len(src) + 1 : Comments(e, p) => Comments(i, p)
  <2> TAKE p \in e .. Len(src) + 1
  <2>1. \A c \in e .. p : c \in i .. p
    BY <1>1
  <2> QED
    BY <2>1 DEF Comments
<1>5. ASSUME e =< Len(src), NEW p \in e .. Len(src) + 1, Comments(i, p)
      PROVE  Comments(e, p)
  <2>1. peek(e) = src[e] /\ src[e] = "\n"
    BY <1>1, <1>5, TextFacts
  <2>2. PICK c \in i .. p : src[c] = "/" /\ peek(c + 1) = "/" /\ \A q \in c .. p : src[q] # "\n"
    BY <1>5 DEF Comments
  <2>3. c > e
    <3>1. e \notin c .. p
      BY <2>1, <2>2
    <3> QED
      BY <1>1, <3>1
  <2>4. c \in e .. p
    BY <1>1, <2>3
  <2> QED
    BY <2>2, <2>4 DEF Comments
<1>6. \A p \in i .. b - 1 : src[p] \in Space \/ Comments(i, p)
  <2> TAKE p \in i .. b - 1
  <2>1. CASE p < e
    <3>1. p \in i .. e - 1
      BY <1>1, <2>1
    <3> QED
      BY <1>3, <3>1
  <2>2. CASE p >= e
    <3>1. p \in e .. b - 1 /\ p \in e .. Len(src) + 1
      BY <1>1, <1>2, <2>2
    <3>2. src[p] \in Space \/ Comments(e, p)
      BY <1>2, <3>1 DEF Blank
    <3> QED
      BY <1>4, <3>1, <3>2
  <2> QED
    BY <1>1, <1>2, <2>1, <2>2
<1>7. Comments(i, b - 1) => peek(b) \in {NUL, "\n"}
  <2> HAVE Comments(i, b - 1)
  <2>1. CASE b = e
    BY <1>1, <2>1
  <2>2. CASE b # e
    <3>1. e =< Len(src) /\ b - 1 \in e .. Len(src) + 1 /\ e < b
      BY <1>1, <1>2, <2>2
    <3>2. Comments(e, b - 1)
      BY <1>5, <3>1
    <3> QED
      BY <1>2, <3>1, <3>2 DEF Blank
  <2> QED
    BY <2>1, <2>2
<1>8. b =< Len(src) => ~Comments(i, b)
  <2> SUFFICES ASSUME b =< Len(src), Comments(i, b) PROVE FALSE
    OBVIOUS
  <2>1. e =< Len(src) /\ b \in e .. Len(src) + 1
    BY <1>1, <1>2
  <2>2. Comments(e, b)
    BY <1>5, <2>1
  <2> QED
    BY <2>2 DEF Skips, e
<1> QED
  BY <1>1, <1>2, <1>6, <1>7, <1>8 DEF Skips, Blank, e

\* Where nothing is skipped.
LEMMA SkipsNothing ==
  ASSUME Text, NEW i \in 1 .. Len(src) + 1, over(i) = i
  PROVE  Skips(i, i)
<1>1. i \in Nat /\ Len(src) \in Nat
  BY TextFacts
<1>2. peek(i) \notin Space /\ ~(peek(i) = "/" /\ peek(i + 1) = "/")
  BY <1>1, OverFacts
<1>3. Blank(i, i)
  BY <1>1 DEF Blank
<1>4. ASSUME i =< Len(src), Comments(i, i) PROVE FALSE
  <2>1. \A c \in i .. i : c = i
    BY <1>1
  <2>2. peek(i) = src[i]
    BY <1>1, <1>4, TextFacts
  <2> QED
    BY <1>2, <1>4, <2>1, <2>2 DEF Comments
<1> QED
  BY <1>1, <1>2, <1>3, <1>4 DEF Skips

\* skipWhiteSpace stops where it should.
LEMMA SkipsBlanks ==
  ASSUME Text, NEW i \in 1 .. Len(src) + 1
  PROVE  Skips(i, skipWhiteSpace[i])
<1> DEFINE E == Len(src) + 1
           P(d) == \A j \in 1 .. E : j + d >= E => skipWhiteSpace[j] \in Nat /\ Skips(j, skipWhiteSpace[j])
           S == {d \in Nat : P(d)}
<1>0. E \in Nat
  BY TextFacts
<1>1. ASSUME NEW d \in Nat, NEW j \in 1 .. E,
             \A k \in 1 .. E : k > j => skipWhiteSpace[k] \in Nat /\ Skips(k, skipWhiteSpace[k])
      PROVE  skipWhiteSpace[j] \in Nat /\ Skips(j, skipWhiteSpace[j])
  <2>0. j \in Nat
    BY <1>0
  <2>1. skipWhiteSpace[j] = IF over(j) = j THEN j ELSE skipWhiteSpace[over(j)]
    BY <2>0, SkipStep
  <2>2. CASE over(j) = j
    BY <2>0, <2>1, <2>2, SkipsNothing
  <2>3. CASE over(j) # j
    <3>1. over(j) > j /\ j \in 1 .. Len(src) /\ over(j) \in 1 .. E
      BY <2>0, <2>3, OverFacts
    <3>2. skipWhiteSpace[j] = skipWhiteSpace[over(j)] /\ skipWhiteSpace[j] \in Nat
          /\ Skips(over(j), skipWhiteSpace[j])
      BY <1>1, <2>1, <2>3, <3>1
    <3>3. peek(j) = src[j]
      BY <3>1, TextFacts
    <3>4. CASE peek(j) \in Space
      <4>1. over(j) = j + 1
        BY <3>4 DEF over
      <4> QED
        BY <3>1, <3>2, <3>3, <3>4, <4>1, AfterSpace
    <3>5. CASE peek(j) \notin Space
      <4>1. peek(j) = "/" /\ peek(j + 1) = "/"
        BY <2>0, <3>1, <3>5, OverFacts
      <4>2. over(j) = past(j, NotNewline)
        BY <3>5, <4>1 DEF over
      <4> QED
        BY <3>1, <3>2, <3>3, <4>1, <4>2, AfterComment
    <3> QED
      BY <3>4, <3>5
  <2> QED
    BY <2>2, <2>3
<1>2. 0 \in S
  <2> SUFFICES ASSUME NEW j \in 1 .. E, j + 0 >= E
               PROVE  skipWhiteSpace[j] \in Nat /\ Skips(j, skipWhiteSpace[j])
    OBVIOUS
  <2>1. \A k \in 1 .. E : ~(k > j)
    BY <1>0
  <2> QED
    BY <1>1, <2>1
<1>3. ASSUME NEW d \in Nat, d \in S PROVE d + 1 \in S
  <2> SUFFICES ASSUME NEW j \in 1 .. E, j + (d + 1) >= E
               PROVE  skipWhiteSpace[j] \in Nat /\ Skips(j, skipWhiteSpace[j])
    OBVIOUS
  <2>1. \A k \in 1 .. E : k > j => k + d >= E
    BY <1>0
  <2>2. \A k \in 1 .. E : k > j => skipWhiteSpace[k] \in Nat /\ Skips(k, skipWhiteSpace[k])
    BY <1>3, <2>1
  <2> QED
    BY <1>1, <2>2
<1>4. \A d \in Nat : d \in S
  <2> HIDE DEF S
  <2> QED
    BY <1>2, <1>3, Induction
<1>5. P(E)
  BY <1>0, <1>4
<1> QED
  BY <1>0, <1>5

(***************************************************************************)
(* Tokens.                                                                 *)
(***************************************************************************)
\* What a token of two characters begins with.
FirstOfTwo == {chars[1] : chars \in DOMAIN TwoCharacters}

\* A table has the second parts of its pairs for values.
LEMMA TableFacts ==
  ASSUME NEW pairs
  PROVE  /\ \A x : x \in DOMAIN table(pairs) <=> \E p \in pairs : p[1] = x
         /\ \A x \in DOMAIN table(pairs) : \E p \in pairs : table(pairs)[x] = p[2]
BY DEF table

\* No token of two characters begins like another kind of token, or ends the text.
LEMMA TwoFacts ==
  /\ \A x \in DOMAIN TwoCharacters : x[1] # "#" /\ x[1] \notin Digits /\ x[2] # NUL /\ x = <<x[1], x[2]>>
  /\ \A a, b : <<a, b>> \in DOMAIN TwoCharacters =>
       /\ a \in FirstOfTwo /\ a # "#" /\ a \notin Digits /\ b # NUL
<1> DEFINE pairs == {<<<<"-", ">">>, "ARR_RIGHT">>, <<<<"=", "=">>, "EQEQ">>, <<<<":", ":">>, "DOUBLECOLON">>,
                     <<<<"!", "=">>, "NOT_EQ">>, <<<<"&", "&">>, "DOUBLE_AND">>, <<<<"|", "|">>, "DOUBLE_VBAR">>,
                     <<<<"<", "=">>, "LOWER_EQ">>, <<<<">", "=">>, "GREATER_EQ">>}
<1>1. TwoCharacters = table(pairs)
  BY DEF TwoCharacters
<1>2. \A p \in pairs : p[1] \in {<<"-", ">">>, <<"=", "=">>, <<":", ":">>, <<"!", "=">>, <<"&", "&">>,
                                 <<"|", "|">>, <<"<", "=">>, <<">", "=">>}
  OBVIOUS
<1> HIDE DEF pairs
<1>3. ASSUME NEW x \in DOMAIN TwoCharacters
      PROVE  x[1] # "#" /\ x[1] \notin Digits /\ x[2] # NUL /\ x = <<x[1], x[2]>>
  <2>1. x \in {<<"-", ">">>, <<"=", "=">>, <<":", ":">>, <<"!", "=">>, <<"&", "&">>,
               <<"|", "|">>, <<"<", "=">>, <<">", "=">>}
    BY <1>1, <1>2, TableFacts
  <2>2. x = <<x[1], x[2]>>
    BY <2>1
  <2>3. x[1] \in {"-", "=", ":", "!", "&", "|", "<", ">"} /\ x[2] \in {">", "=", ":", "&", "|"}
    BY <2>1
  <2>4. x[1] # "#" /\ x[1] \notin Digits
    BY <2>3 DEF Digits
  <2>5. x[2] # NUL
    BY <2>3 DEF NUL
  <2> QED
    BY <2>2, <2>4, <2>5
<1>4. ASSUME NEW a, NEW b, <<a, b>> \in DOMAIN TwoCharacters
      PROVE  a \in FirstOfTwo /\ a # "#" /\ a \notin Digits /\ b # NUL
  <2>1. <<a, b>>[1] = a /\ <<a, b>>[2] = b
    OBVIOUS
  <2> QED
    BY <1>3, <1>4, <2>1 DEF FirstOfTwo
<1> QED
  BY <1>3, <1>4

\* A letter is nothing else.
LEMMA LettersFacts ==
  ASSUME NEW c \in Letters
  PROVE  c \notin Digits /\ c \notin Space /\ c \notin FirstOfTwo /\ c # "#" /\ c # "." /\ c # NUL /\ c # "/"
BY Zenon, LettersAssumption DEF Space, FirstOfTwo

\* What a lexeme can be, by its first piece.
LEMMA Kinds ==
  ASSUME Text, NEW i \in 1 .. Len(src), NEW j \in i + 1 .. Len(src) + 1, IsLexeme(i, j)
  PROVE  /\ src[i] \in Letters => All(i, j, Alnum)
         /\ src[i] \in Digits =>
              \/ All(i, j, Digits)
              \/ \E p \in i + 1 .. j - 2 : src[p] = "." /\ All(i, p, Digits) /\ All(p + 1, j, Digits)
         /\ src[i] \notin Alnum /\ j # i + 1 =>
              \/ j = i + 2 /\ <<src[i], src[i + 1]>> \in DOMAIN TwoCharacters
              \/ src[i] = "#" /\ \E a \in i + 1 .. j : \E b \in a .. j :
                   All(i + 1, a, Letters) /\ Blank(a, b) /\ All(b, j, Letters)
<1>0. Len(src) \in Nat /\ i \in Nat /\ j \in Nat /\ DOMAIN src = 1 .. Len(src)
  BY TextFacts
<1>1. CASE src[i] \in Letters /\ All(i, j, Alnum)
  BY <1>1, LettersFacts DEF Alnum
<1>2. CASE src[i] \in Digits /\ All(i, j, Digits)
  <2>1. src[i] \notin Letters
    BY <1>2, LettersFacts
  <2> QED
    BY <1>2, <2>1 DEF Alnum
<1>3. ASSUME NEW p \in i + 1 .. j - 2, src[p] = ".", All(i, p, Digits), All(p + 1, j, Digits)
      PROVE  /\ src[i] \in Digits /\ src[i] \notin Letters
             /\ \E q \in i + 1 .. j - 2 : src[q] = "." /\ All(i, q, Digits) /\ All(q + 1, j, Digits)
  <2>1. i \in i .. p - 1
    BY <1>0
  <2>2. src[i] \in Digits
    BY <1>3, <2>1 DEF All
  <2> QED
    BY <1>3, <2>2, LettersFacts
<1>4. CASE src[i] \notin Alnum \cup Space /\ j = i + 1
  BY <1>4 DEF Alnum
<1>5. CASE j = i + 2 /\ SubSeq(src, i, i + 1) \in DOMAIN TwoCharacters
  <2>1. SubSeq(src, i, i + 1) = <<src[i], src[i + 1]>>
    <3>0. SubSeq(src, i, i + 1) = <<SubSeq(src, i, i + 1)[1], SubSeq(src, i, i + 1)[2]>>
      BY <1>5, TwoFacts
    <3>1. i + 1 \in 1 .. Len(src) /\ src \in Seq(values(src))
      BY <1>0, <1>5 DEF Text
    <3>2. SubSeq(src, i, i + 1)[1] = src[i] /\ SubSeq(src, i, i + 1)[2] = src[i + 1]
      BY <1>0, <3>1
    <3> QED
      BY <3>0, <3>2
  <2>2. <<src[i], src[i + 1]>> \in DOMAIN TwoCharacters
    BY <1>5, <2>1
  <2>3. src[i] \in FirstOfTwo /\ src[i] # "#" /\ src[i] \notin Digits
    BY <2>2, TwoFacts
  <2>4. src[i] \notin Letters
    BY <2>3, LettersFacts
  <2> QED
    BY <1>5, <2>2, <2>3, <2>4
<1>6. CASE src[i] = "#" /\ \E a \in i + 1 .. j : \E b \in a .. j :
             All(i + 1, a, Letters) /\ Blank(a, b) /\ All(b, j, Letters)
  <2>1. src[i] \notin Letters /\ src[i] \notin Digits
    BY <1>6, LettersFacts DEF Digits
  <2> QED
    BY <1>6, <2>1
<1>7. \/ src[i] \in Letters /\ All(i, j, Alnum)
      \/ src[i] \in Digits /\ All(i, j, Digits)
      \/ \E p \in i + 1 .. j - 2 : src[p] = "." /\ All(i, p, Digits) /\ All(p + 1, j, Digits)
      \/ src[i] \notin Alnum \cup Space /\ j = i + 1
      \/ j = i + 2 /\ SubSeq(src, i, i + 1) \in DOMAIN TwoCharacters
      \/ src[i] = "#" /\ \E a \in i + 1 .. j : \E b \in a .. j :
             All(i + 1, a, Letters) /\ Blank(a, b) /\ All(b, j, Letters)
  BY DEF IsLexeme
<1>8. CASE \E p \in i + 1 .. j - 2 : src[p] = "." /\ All(i, p, Digits) /\ All(p + 1, j, Digits)
  BY <1>3, <1>8 DEF Alnum
<1> QED
  BY ONLY <1>1, <1>2, <1>4, <1>5, <1>6, <1>7, <1>8

Longest(i, j) ==
  /\ j \in i + 1 .. Len(src) + 1
  /\ IsLexeme(i, j)
  /\ \A longer \in j + 1 .. Len(src) + 1 : ~IsLexeme(i, longer)

\* A run of a class is followed by something else.
LEMMA RunEnds ==
  ASSUME Text, NEW C, NEW i \in 1 .. Len(src) + 1, NEW j \in i .. Len(src) + 1, peek(j) \notin C,
         NEW k \in j + 1 .. Len(src) + 1
  PROVE  ~All(i, k, C) /\ j \in 1 .. Len(src) /\ peek(j) = src[j]
<1>1. j \in 1 .. Len(src) /\ j \in i .. k - 1
  BY TextFacts
<1>2. peek(j) = src[j]
  BY <1>1, TextFacts
<1> QED
  BY <1>1, <1>2 DEF All

\* The end is no letter or digit; a point or # neither.
LEMMA NoNul ==
  /\ NUL \notin Letters /\ NUL \notin Digits /\ NUL \notin Alnum
  /\ "." \notin Digits /\ "#" \notin Digits /\ "#" \notin Letters
<1>1. NUL \notin Digits /\ "." \notin Digits /\ "#" \notin Digits
  BY Zenon DEF NUL, Digits
<1> QED
  BY <1>1, LettersFacts DEF Alnum

\* A word.
LEMMA WordLongest ==
  ASSUME Text, NEW i \in 1 .. Len(src), src[i] \in Letters
  PROVE  Longest(i, past(i, Alnum))
<1> DEFINE j == past(i, Alnum)
<1>1. Len(src) \in Nat /\ i \in Nat /\ peek(i) \in Alnum /\ i \in 1 .. Len(src) + 1 /\ NUL \notin Alnum
  BY TextFacts, NoNul DEF Alnum
<1>2. j \in i + 1 .. Len(src) + 1 /\ All(i, j, Alnum) /\ peek(j) \notin Alnum
  BY <1>1, PastFacts
<1> HIDE DEF j
<1>3. ASSUME NEW k \in j + 1 .. Len(src) + 1, IsLexeme(i, k) PROVE FALSE
  <2>1. All(i, k, Alnum)
    <3>1. k \in i + 1 .. Len(src) + 1
      BY <1>1, <1>2
    <3> QED
      BY <1>3, <3>1, Kinds
  <2>2. j \in i .. Len(src) + 1
    BY <1>1, <1>2
  <2> QED
    BY <1>1, <1>2, <2>1, <2>2, RunEnds
<1>4. IsLexeme(i, j)
  BY <1>2 DEF IsLexeme
<1> QED
  BY <1>2, <1>3, <1>4 DEF Longest, j

\* A number: the point belongs to it if a digit follows.
LEMMA NumberLongest ==
  ASSUME Text, NEW i \in 1 .. Len(src), src[i] \in Digits
  PROVE  Longest(i, numberEnd(i))
<1> DEFINE e == past(i, Digits)
           j == numberEnd(i)
<1>1. Len(src) \in Nat /\ i \in Nat /\ peek(i) \in Digits /\ i \in 1 .. Len(src) + 1 /\ NUL \notin Digits
  BY TextFacts, NoNul
<1>2. e \in i + 1 .. Len(src) + 1 /\ All(i, e, Digits) /\ peek(e) \notin Digits /\ e \in Nat
  BY <1>1, PastFacts
<1>3. e \in 1 .. Len(src) + 1 /\ e \in i .. Len(src) + 1
  BY <1>1, <1>2
<1>4. j = IF peek(e) = "." /\ peek(e + 1) \in Digits THEN past(e + 1, Digits) ELSE e
  BY DEF numberEnd
<1> HIDE DEF e, j
<1>5. ASSUME NEW k \in e + 1 .. Len(src) + 1, IsLexeme(i, k)
      PROVE  peek(e) = "." /\ peek(e + 1) \in Digits /\ All(e + 1, k, Digits) /\ e + 2 =< k
  <2>1. k \in i + 1 .. Len(src) + 1
    BY <1>1, <1>2
  <2>2. ~All(i, k, Digits) /\ e \in 1 .. Len(src) /\ peek(e) = src[e]
    BY <1>1, <1>2, <1>3, RunEnds
  <2>3. PICK p \in i + 1 .. k - 2 : src[p] = "." /\ All(i, p, Digits) /\ All(p + 1, k, Digits)
    BY <1>5, <2>1, <2>2, Kinds
  <2>4. p = e
    <3>1. ~(p > e)
      <4>1. p > e => e \in i .. p - 1
        BY <1>1, <1>2, <2>3
      <4> QED
        BY <1>2, <2>2, <2>3, <4>1 DEF All
    <3>2. ~(p < e)
      <4>1. p < e => p \in i .. e - 1
        BY <1>1, <1>2, <2>3
      <4> QED
        BY <1>2, <2>3, <4>1, NoNul DEF All
    <3> QED
      BY <1>2, <2>3, <3>1, <3>2
  <2>5. e + 1 \in 1 .. Len(src) /\ e + 1 \in e + 1 .. k - 1 /\ e + 2 =< k
    BY <1>1, <1>2, <2>1, <2>3, <2>4
  <2>6. peek(e + 1) = src[e + 1]
    BY <2>5, TextFacts
  <2> QED
    BY <2>2, <2>3, <2>4, <2>5, <2>6 DEF All
<1>6. CASE peek(e) = "." /\ peek(e + 1) \in Digits
  <2>1. e \in 1 .. Len(src) /\ e + 1 \in 1 .. Len(src) + 1 /\ src[e] = "."
    <3>1. e + 1 \in 1 .. Len(src)
      BY <1>1, <1>2, <1>6, TextFacts
    <3>2. e \in 1 .. Len(src)
      BY <1>2, <1>3, <3>1
    <3> QED
      BY <1>6, <3>1, <3>2, TextFacts
  <2>2. j \in e + 2 .. Len(src) + 1 /\ All(e + 1, j, Digits) /\ peek(j) \notin Digits
    BY <1>1, <1>2, <1>4, <1>6, <2>1, PastFacts
  <2>3. IsLexeme(i, j) /\ j \in i + 1 .. Len(src) + 1
    <3>1. e \in i + 1 .. j - 2
      BY <1>1, <1>2, <2>2
    <3>2. j \in i + 1 .. Len(src) + 1
      BY <1>1, <1>2, <2>2
    <3> QED
      BY <1>2, <2>1, <2>2, <3>1, <3>2 DEF IsLexeme
  <2>4. ASSUME NEW k \in j + 1 .. Len(src) + 1, IsLexeme(i, k) PROVE FALSE
    <3>1. k \in e + 1 .. Len(src) + 1 /\ j \in e + 1 .. Len(src) + 1
      BY <1>1, <1>2, <2>2
    <3>2. All(e + 1, k, Digits)
      BY <1>5, <2>4, <3>1
    <3> QED
      BY <2>1, <2>2, <3>1, <3>2, RunEnds
  <2> QED
    BY <2>3, <2>4 DEF Longest, j
<1>7. CASE ~(peek(e) = "." /\ peek(e + 1) \in Digits)
  <2>1. j = e
    BY <1>4, <1>7
  <2>2. IsLexeme(i, j)
    BY <1>1, <1>2, <2>1, TextFacts DEF IsLexeme
  <2>3. \A k \in j + 1 .. Len(src) + 1 : ~IsLexeme(i, k)
    BY <1>5, <1>7, <2>1
  <2> QED
    BY <1>2, <2>1, <2>2, <2>3 DEF Longest, j
<1> QED
  BY <1>6, <1>7 DEF j

\* A directive: after another place for the blanks than skipWhiteSpace finds there is
\* no longer one.
LEMMA DirectiveLongest ==
  ASSUME Text, NEW i \in 1 .. Len(src), src[i] = "#"
  PROVE  Longest(i, past(directiveEnd(i), Letters))
<1> DEFINE a == past(i + 1, Letters)
           b == directiveEnd(i)
           j == past(b, Letters)
<1>1. Len(src) \in Nat /\ i \in Nat /\ i + 1 \in 1 .. Len(src) + 1 /\ NUL \notin Letters
  BY TextFacts, NoNul
<1>2. a \in i + 1 .. Len(src) + 1 /\ All(i + 1, a, Letters) /\ peek(a) \notin Letters
  BY <1>1, PastFacts
<1>3. a \in 1 .. Len(src) + 1
  BY <1>1, <1>2
<1>4. Skips(a, b)
  BY <1>3, SkipsBlanks DEF directiveEnd
<1>5. b \in a .. Len(src) + 1 /\ Blank(a, b) /\ peek(b) \notin Space /\ (b =< Len(src) => ~Comments(a, b))
  BY <1>4 DEF Skips
<1>6. b \in 1 .. Len(src) + 1
  BY <1>1, <1>2, <1>5
<1>7. j \in b .. Len(src) + 1 /\ All(b, j, Letters) /\ peek(j) \notin Letters
  BY <1>1, <1>6, PastFacts
<1> HIDE DEF a, b, j
<1>8. j \in i + 1 .. Len(src) + 1 /\ a \in i + 1 .. j /\ b \in a .. j
  BY <1>1, <1>2, <1>5, <1>7
<1>9. IsLexeme(i, j)
  BY <1>2, <1>5, <1>7, <1>8 DEF IsLexeme
<1>10. ASSUME NEW k \in j + 1 .. Len(src) + 1, IsLexeme(i, k) PROVE FALSE
  <2>1. k \in i + 1 .. Len(src) + 1 /\ k # i + 1
    BY <1>1, <1>8
  <2>2. src[i] \notin Alnum /\ \A z : <<"#", z>> \notin DOMAIN TwoCharacters
    BY NoNul, TwoFacts DEF Alnum
  <2>3. PICK c \in i + 1 .. k : \E d \in c .. k :
              All(i + 1, c, Letters) /\ Blank(c, d) /\ All(d, k, Letters)
    BY <1>10, <2>1, <2>2, Kinds
  <2>4. PICK d \in c .. k : All(i + 1, c, Letters) /\ Blank(c, d) /\ All(d, k, Letters)
    BY <2>3
  <2>5. d > j
    <3>1. d =< j => j \in d .. Len(src) + 1 /\ d \in 1 .. Len(src) + 1
      BY <1>1, <1>8, <2>1, <2>4
    <3> QED
      BY <1>1, <1>7, <1>8, <1>10, <2>4, <3>1, RunEnds
  <2>6. c = a
    <3>1. ~(c > a)
      <4>1. c > a => c \in a + 1 .. Len(src) + 1 /\ a \in i + 1 .. Len(src) + 1
        BY <1>1, <1>2, <2>1, <2>3
      <4> QED
        BY <1>1, <1>2, <2>4, <4>1, RunEnds
    <3>2. ASSUME c < a PROVE FALSE
      <4>1. c \in i + 1 .. a - 1 /\ c \in c .. d - 1
        BY <1>1, <1>2, <1>8, <2>3, <2>5, <3>2
      <4>2. src[c] \in Letters
        BY <1>2, <4>1 DEF All
      <4>3. src[c] \in Space \/ Comments(c, c)
        BY <2>4, <4>1 DEF Blank
      <4>4. Comments(c, c) => src[c] = "/"
        <5>1. \A x \in c .. c : x = c
          BY <1>1, <2>3
        <5> QED
          BY <5>1 DEF Comments
      <4> QED
        BY <4>2, <4>3, <4>4, LettersFacts
    <3> QED
      BY <1>1, <1>2, <2>3, <3>1, <3>2
  <2>7. b \in a .. d - 1 /\ b \in 1 .. Len(src)
    BY <1>1, <1>2, <1>5, <1>7, <2>1, <2>4, <2>5, <2>6
  <2>8. src[b] \in Space \/ Comments(a, b)
    BY <2>4, <2>6, <2>7 DEF Blank
  <2>9. peek(b) = src[b] /\ b =< Len(src)
    BY <1>1, <2>7, TextFacts
  <2> QED
    BY <1>5, <2>8, <2>9
<1> QED
  BY <1>8, <1>9, <1>10 DEF Longest, j, b

\* Two characters or one.
LEMMA OtherLongest ==
  ASSUME Text, NEW i \in 1 .. Len(src),
         src[i] \notin Alnum \cup Space, src[i] # "#"
  PROVE  Longest(i, IF <<peek(i), peek(i + 1)>> \in DOMAIN TwoCharacters THEN i + 2 ELSE i + 1)
<1>1. Len(src) \in Nat /\ i \in Nat /\ peek(i) = src[i] /\ src \in Seq(values(src))
  BY TextFacts DEF Text
<1>2. ASSUME NEW k \in i + 2 .. Len(src) + 1, IsLexeme(i, k)
      PROVE  k = i + 2 /\ <<peek(i), peek(i + 1)>> \in DOMAIN TwoCharacters
  <2>1. k \in i + 1 .. Len(src) + 1 /\ k # i + 1 /\ i + 1 \in 1 .. Len(src)
    BY <1>1
  <2>2. k = i + 2 /\ <<src[i], src[i + 1]>> \in DOMAIN TwoCharacters
    BY <1>2, <2>1, Kinds
  <2>3. peek(i + 1) = src[i + 1]
    BY <2>1, TextFacts
  <2> QED
    BY <1>1, <2>2, <2>3
<1>3. CASE <<peek(i), peek(i + 1)>> \in DOMAIN TwoCharacters
  <2>1. peek(i + 1) # NUL
    BY <1>3, TwoFacts
  <2>2. i + 1 \in 1 .. Len(src)
    BY <1>1, <2>1, TextFacts
  <2>3. peek(i + 1) = src[i + 1]
    BY <2>2, TextFacts
  <2>4. SubSeq(src, i, i + 1) = <<src[i], src[i + 1]>>
    <3>1. SubSeq(src, i, i + 1) \in Seq(values(src)) /\ Len(SubSeq(src, i, i + 1)) = 2
          /\ SubSeq(src, i, i + 1)[1] = src[i] /\ SubSeq(src, i, i + 1)[2] = src[i + 1]
      BY <1>1, <2>2
    <3>2. <<src[i], src[i + 1]>> \in Seq(values(src)) /\ Len(<<src[i], src[i + 1]>>) = 2
      BY <2>2, TextFacts
    <3>3. \A k \in 1 .. 2 : SubSeq(src, i, i + 1)[k] = <<src[i], src[i + 1]>>[k]
      <4>1. \A k \in 1 .. 2 : k = 1 \/ k = 2
        OBVIOUS
      <4> QED
        BY <3>1, <4>1
    <3> DEFINE A == SubSeq(src, i, i + 1)
               B == <<src[i], src[i + 1]>>
    <3> HIDE DEF A, B
    <3>4. A \in Seq(values(src)) /\ B \in Seq(values(src)) /\ Len(A) = 2 /\ Len(B) = 2
          /\ \A k \in 1 .. 2 : A[k] = B[k]
      BY <3>1, <3>2, <3>3 DEF A, B
    <3>5. A = B
      BY <3>4, SeqEqual
    <3> QED
      BY <3>5 DEF A, B
  <2>5. i + 2 \in i + 1 .. Len(src) + 1 /\ IsLexeme(i, i + 2)
    <3>1. SubSeq(src, i, i + 1) \in DOMAIN TwoCharacters
      BY <1>1, <1>3, <2>3, <2>4
    <3>2. i + 2 \in i + 1 .. Len(src) + 1
      BY <1>1, <2>2
    <3> QED
      BY <3>1, <3>2 DEF IsLexeme
  <2>6. \A k \in i + 2 + 1 .. Len(src) + 1 : ~IsLexeme(i, k)
    <3> SUFFICES ASSUME NEW k \in i + 2 + 1 .. Len(src) + 1, IsLexeme(i, k) PROVE FALSE
      OBVIOUS
    <3>1. k \in i + 2 .. Len(src) + 1 /\ k # i + 2
      BY <1>1
    <3> QED
      BY <1>2, <3>1
  <2> QED
    BY <1>3, <2>5, <2>6 DEF Longest
<1>4. CASE <<peek(i), peek(i + 1)>> \notin DOMAIN TwoCharacters
  <2>1. i + 1 \in i + 1 .. Len(src) + 1 /\ IsLexeme(i, i + 1)
    BY <1>1 DEF IsLexeme
  <2>2. \A k \in i + 1 + 1 .. Len(src) + 1 : ~IsLexeme(i, k)
    <3>1. i + 1 + 1 = i + 2
      BY <1>1
    <3> QED
      BY <1>2, <1>4, <3>1
  <2> QED
    BY <1>4, <2>1, <2>2 DEF Longest
<1> QED
  BY <1>3, <1>4

\* What MaximalMunch says of one token, made of places i to j - 1 after what ended
\* at `before'.
Munched(before, i, j, t) ==
  /\ Blank(before, i) /\ ~Blank(before, i + 1)
  /\ src[i] = "/" => peek(i + 1) # "/"
  /\ IsLexeme(i, j)
  /\ \A longer \in j + 1 .. Len(src) + 1 : ~IsLexeme(i, longer)
  /\ src[i] # "#" => t.content = SubSeq(src, i, j - 1)
  /\ src[i] \in Letters =>
       t.type = IF j = i + 1 /\ src[i] \in DOMAIN Keyword THEN Keyword[src[i]] ELSE "IDENT"

\* Only the end of the text has the type END_OF_FILE.
LEMMA NoTypeIsEnd ==
  /\ \A x \in DOMAIN Keyword : Keyword[x] # "END_OF_FILE"
  /\ \A x \in DOMAIN OneCharacter : OneCharacter[x] # "END_OF_FILE"
  /\ \A x \in DOMAIN TwoCharacters : TwoCharacters[x] # "END_OF_FILE"
<1>1. \A x \in DOMAIN Keyword : Keyword[x] # "END_OF_FILE"
  BY DEF Keyword
<1>2. ASSUME NEW x \in DOMAIN OneCharacter PROVE OneCharacter[x] # "END_OF_FILE"
  <2> DEFINE some   == {<<"+", "PLUS">>, <<"-", "MINUS">>, <<"*", "STAR">>, <<"/", "SLASH">>, <<"=", "EQ">>,
                        <<">", "GREATER">>}
             more   == {<<"<", "LOWER">>, <<":", "COLON">>, <<",", "COMMA">>, <<";", "SEMICOLON">>, <<"!", "NOT">>}
             others == {<<"(", "L_PAREN">>, <<")", "R_PAREN">>, <<"[", "L_SQR_BRKT">>, <<"]", "R_SQR_BRKT">>,
                        <<"{", "L_CURL_BRKT">>, <<"}", "R_CURL_BRKT">>}
  <2>1. /\ \A p \in some : p[2] # "END_OF_FILE"
        /\ \A p \in more : p[2] # "END_OF_FILE"
        /\ \A p \in others : p[2] # "END_OF_FILE"
    OBVIOUS
  <2>2. OneCharacter = table(some \cup more \cup others)
    <3>1. some \cup more \cup others =
            {<<"+", "PLUS">>, <<"-", "MINUS">>, <<"*", "STAR">>, <<"/", "SLASH">>, <<"=", "EQ">>, <<">", "GREATER">>,
             <<"<", "LOWER">>, <<":", "COLON">>, <<",", "COMMA">>, <<";", "SEMICOLON">>, <<"!", "NOT">>,
             <<"(", "L_PAREN">>, <<")", "R_PAREN">>, <<"[", "L_SQR_BRKT">>, <<"]", "R_SQR_BRKT">>,
             <<"{", "L_CURL_BRKT">>, <<"}", "R_CURL_BRKT">>}
      BY Zenon
    <3> QED
      BY <3>1 DEF OneCharacter
  <2> HIDE DEF some, more, others
  <2>3. \A p \in some \cup more \cup others : p[2] # "END_OF_FILE"
    BY <2>1
  <2> QED
    BY <2>2, <2>3, TableFacts
<1>3. ASSUME NEW x \in DOMAIN TwoCharacters PROVE TwoCharacters[x] # "END_OF_FILE"
  <2> DEFINE pairs ==
        {<<<<"-", ">">>, "ARR_RIGHT">>, <<<<"=", "=">>, "EQEQ">>, <<<<":", ":">>, "DOUBLECOLON">>,
         <<<<"!", "=">>, "NOT_EQ">>, <<<<"&", "&">>, "DOUBLE_AND">>, <<<<"|", "|">>, "DOUBLE_VBAR">>,
         <<<<"<", "=">>, "LOWER_EQ">>, <<<<">", "=">>, "GREATER_EQ">>}
  <2>1. \A p \in pairs : p[2] # "END_OF_FILE"
    OBVIOUS
  <2> HIDE DEF pairs
  <2>2. TwoCharacters = table(pairs)
    BY DEF TwoCharacters, pairs
  <2> QED
    BY <2>1, <2>2, TableFacts
<1> QED
  BY <1>1, <1>2, <1>3

\* What nextToken returns before the end of the text.
LEMMA TokenRead ==
  ASSUME Text, NEW i \in 1 .. Len(src), src[i] \notin Space, NEW t \in nextToken(i)
  PROVE  /\ Longest(i, t.next)
         /\ src[i] # "#" => t.content = SubSeq(src, i, t.next - 1) /\ t.type # "END_OF_FILE"
         /\ src[i] \in Letters =>
              t.type = IF t.next = i + 1 /\ src[i] \in DOMAIN Keyword THEN Keyword[src[i]] ELSE "IDENT"
<1>1. peek(i) = src[i] /\ src[i] # NUL /\ i \in Nat /\ Len(src) \in Nat /\ src \in Seq(values(src))
  BY TextFacts DEF Text
<1>2. CASE src[i] \in Letters
  <2> DEFINE to == past(i, Alnum)
             word == SubSeq(src, i, to - 1)
  <2>1. t = lexeme(IF Len(word) = 1 /\ word[1] \in DOMAIN Keyword THEN Keyword[word[1]] ELSE "IDENT", i, to)
    BY <1>1, <1>2 DEF nextToken
  <2>2. Longest(i, to)
    BY <1>2, WordLongest
  <2> HIDE DEF to
  <2>3. Len(word) = to - i /\ word[1] = src[i] /\ to \in i + 1 .. Len(src) + 1
    <3>1. to \in i + 1 .. Len(src) + 1
      BY <2>2 DEF Longest
    <3> QED
      BY <1>1, <3>1
  <2> HIDE DEF word
  <2>4. Len(word) = 1 <=> to = i + 1
    BY <1>1, <2>3
  <2>5. t.type = (IF to = i + 1 /\ src[i] \in DOMAIN Keyword THEN Keyword[src[i]] ELSE "IDENT")
        /\ t.next = to /\ t.content = SubSeq(src, i, to - 1)
    BY <2>1, <2>3, <2>4 DEF lexeme
  <2>6. t.type # "END_OF_FILE"
    BY <2>5, NoTypeIsEnd
  <2> QED
    BY <2>2, <2>5, <2>6
<1>3. CASE src[i] \in Digits
  <2>1. src[i] \notin Letters /\ src[i] # "#"
    BY <1>3, LettersFacts, NoNul
  <2>2. t = lexeme("NUMBER", i, numberEnd(i))
    BY <1>1, <1>3, <2>1 DEF nextToken
  <2>3. t.type = "NUMBER" /\ t.next = numberEnd(i) /\ t.content = SubSeq(src, i, numberEnd(i) - 1)
    BY <2>2 DEF lexeme
  <2> QED
    BY <1>3, <2>1, <2>3, NumberLongest
<1>4. CASE src[i] = "#"
  <2>1. src[i] \notin Letters /\ src[i] \notin Digits
    BY <1>4, NoNul
  <2>2. \E type : t = lexeme(type, directiveEnd(i), past(directiveEnd(i), Letters))
    BY <1>1, <1>4, <2>1 DEF nextToken
  <2>3. t.next = past(directiveEnd(i), Letters)
    BY <2>2 DEF lexeme
  <2> QED
    BY <1>4, <2>1, <2>3, DirectiveLongest
<1>5. CASE src[i] \notin Letters /\ src[i] \notin Digits /\ src[i] # "#"
  <2> DEFINE two == <<peek(i), peek(i + 1)>>
  <2>1. Longest(i, IF two \in DOMAIN TwoCharacters THEN i + 2 ELSE i + 1)
    BY <1>5, OtherLongest DEF Alnum
  <2>2. CASE two \in DOMAIN TwoCharacters
    <3>1. t = lexeme(TwoCharacters[two], i, i + 2)
      BY <1>1, <1>5, <2>2 DEF nextToken
    <3>2. t.type = TwoCharacters[two] /\ t.next = i + 2 /\ t.content = SubSeq(src, i, i + 2 - 1)
      BY <3>1 DEF lexeme
    <3>3. t.type # "END_OF_FILE"
      BY <2>2, <3>2, NoTypeIsEnd
    <3>4. Longest(i, t.next) /\ t.content = SubSeq(src, i, t.next - 1)
      BY <2>1, <2>2, <3>2
    <3> QED
      BY <1>5, <3>3, <3>4
  <2>3. CASE two \notin DOMAIN TwoCharacters
    <3>1. t = lexeme(IF peek(i) \in DOMAIN OneCharacter THEN OneCharacter[peek(i)] ELSE "UNKNOWN", i, i + 1)
      BY <1>1, <1>5, <2>3 DEF nextToken
    <3>2. t.type = (IF peek(i) \in DOMAIN OneCharacter THEN OneCharacter[peek(i)] ELSE "UNKNOWN")
          /\ t.next = i + 1 /\ t.content = SubSeq(src, i, i + 1 - 1)
      BY <3>1 DEF lexeme
    <3>3. t.type # "END_OF_FILE"
      BY <3>2, NoTypeIsEnd
    <3>4. Longest(i, t.next) /\ t.content = SubSeq(src, i, t.next - 1)
      BY <2>1, <2>3, <3>2
    <3> QED
      BY <1>5, <3>3, <3>4
  <2> QED
    BY <2>2, <2>3
<1> QED
  BY <1>2, <1>3, <1>4, <1>5

\* What Tokenize finds from place i on.
LEMMA NextMunched ==
  ASSUME Text, NEW i \in 1 .. Len(src) + 1, NEW t \in nextToken(skipWhiteSpace[i])
  PROVE  /\ t.type # "END_OF_FILE" =>
              t.next \in 1 .. Len(src) + 1 /\ Munched(i, skipWhiteSpace[i], t.next, t)
         /\ t.type = "END_OF_FILE" => "#" \in values(src) \/ Blank(i, Len(src) + 1)
<1> DEFINE b == skipWhiteSpace[i]
<1>1. Skips(i, b) /\ Len(src) \in Nat /\ i \in Nat
  BY SkipsBlanks, TextFacts
<1> HIDE DEF b
<1>2. b \in i .. Len(src) + 1 /\ Blank(i, b) /\ peek(b) \notin Space
      /\ ~(peek(b) = "/" /\ peek(b + 1) = "/") /\ (b =< Len(src) => ~Comments(i, b))
  BY <1>1 DEF Skips
<1>3. CASE b = Len(src) + 1
  <2>1. peek(b) = NUL
    BY <1>1, <1>3, TextFacts
  <2>2. t = lexeme("END_OF_FILE", b, b)
    BY <2>1 DEF nextToken, b
  <2>3. t.type = "END_OF_FILE"
    BY <2>2 DEF lexeme
  <2> QED
    BY <1>2, <1>3, <2>3
<1>4. CASE b # Len(src) + 1
  <2>1. b \in 1 .. Len(src) /\ b \in i .. b + 1 - 1
    BY <1>1, <1>2, <1>4
  <2>2. peek(b) = src[b] /\ src[b] \in values(src)
    BY <2>1, TextFacts
  <2>3. ~Blank(i, b + 1)
    BY <1>1, <1>2, <2>1, <2>2 DEF Blank
  <2>4. /\ Longest(b, t.next)
        /\ src[b] # "#" => t.content = SubSeq(src, b, t.next - 1) /\ t.type # "END_OF_FILE"
        /\ src[b] \in Letters =>
             t.type = IF t.next = b + 1 /\ src[b] \in DOMAIN Keyword THEN Keyword[src[b]] ELSE "IDENT"
    BY <1>2, <2>1, <2>2, TokenRead DEF b
  <2>5. t.next \in 1 .. Len(src) + 1
    BY <1>1, <2>1, <2>4 DEF Longest
  <2>6. Munched(i, b, t.next, t)
    BY <1>2, <2>2, <2>3, <2>4 DEF Munched, Longest
  <2> QED
    BY <2>2, <2>4, <2>5, <2>6 DEF b
<1> QED
  BY <1>3, <1>4

Before(n) == IF n = 1 THEN 1 ELSE spans[n - 1].to

TextEnd == IF spans = <<>> THEN 1 ELSE spans[Len(spans)].to

\* The pieces that token n is made of, and what ended before.
Of(n, b, i, j, t) == b = Before(n) /\ i = spans[n].from /\ j = spans[n].to /\ t = tokens[n]

LexInv ==
  /\ Text /\ IsSeq(tokens) /\ IsSeq(spans) /\ Len(spans) = Len(tokens)
  /\ phase = "lexing" =>
       /\ at = TextEnd /\ at \in 1 .. Len(src) + 1
       /\ \A n \in DOMAIN spans : \A b, i, j, t : Of(n, b, i, j, t) => Munched(b, i, j, t)
  /\ phase = "parsing" /\ "#" \notin values(src) =>
       \A b, e : b = TextEnd /\ e = Len(src) + 1 => Blank(b, e)

\* What is said of the text stays true.
LEMMA SameText ==
  ASSUME src' = src
  PROVE  /\ Text => Text'
         /\ \A b, i, j, t : Munched(b, i, j, t) => Munched(b, i, j, t)'
         /\ \A i, j : Blank(i, j) => Blank(i, j)'
<1>1. Text => Text'
  BY DEF Text
<1>2. ASSUME NEW i, NEW j PROVE Blank(i, j) = Blank(i, j)' /\ IsLexeme(i, j) = IsLexeme(i, j)'
  BY DEF Blank, Comments, peek, IsLexeme, All
<1> QED
  BY <1>1, <1>2 DEF Munched, peek

\* One token more, or the end.
LEMMA LexStep == ASSUME LexInv, Tokenize PROVE LexInv'
<1>0. PICK a, b, N, E : a = at /\ b = skipWhiteSpace[at] /\ N = Len(spans) /\ E = Len(src) + 1
  OBVIOUS
<1>1. Text /\ IsSeq(tokens) /\ IsSeq(spans) /\ N = Len(tokens) /\ phase = "lexing" /\ src' = src
      /\ a = TextEnd /\ a \in 1 .. E
      /\ \A n \in DOMAIN spans : \A x, i, j, t : Of(n, x, i, j, t) => Munched(x, i, j, t)
  BY <1>0 DEF LexInv, Tokenize
<1>2. PICK t \in nextToken(b) :
        /\ at' = t.next
        /\ IF t.type = "END_OF_FILE"
           THEN phase' = "parsing" /\ UNCHANGED <<tokens, spans>>
           ELSE /\ tokens' = Append(tokens, [type |-> t.type, content |-> t.content])
                /\ spans' = Append(spans, [from |-> b, to |-> t.next])
                /\ UNCHANGED phase
  BY <1>0 DEF Tokenize
<1>3. /\ t.type # "END_OF_FILE" => t.next \in 1 .. E /\ Munched(a, b, t.next, t)
      /\ t.type = "END_OF_FILE" => "#" \in values(src) \/ Blank(a, E)
  BY <1>0, <1>1, <1>2, NextMunched
<1>4. Text' /\ E = (Len(src) + 1)'
  BY <1>0, <1>1, SameText
<1>5. CASE t.type = "END_OF_FILE"
  <2>1. phase' = "parsing" /\ tokens' = tokens /\ spans' = spans
    BY <1>2, <1>5
  <2>2. TextEnd' = a
    BY <1>1, <2>1 DEF TextEnd
  <2>3. "#" \notin values(src) => Blank(a, E)'
    BY <1>1, <1>3, <1>5, SameText
  <2>4. values(src)' = values(src) /\ IsSeq(tokens)' /\ IsSeq(spans)' /\ Len(spans)' = Len(tokens)'
    BY <1>0, <1>1, <2>1 DEF values, IsSeq
  <2>5. (\A x, e : x = TextEnd /\ e = Len(src) + 1 => Blank(x, e))' \/ "#" \in values(src)'
    BY <1>4, <2>2, <2>3, <2>4
  <2> QED
    BY <1>4, <2>1, <2>4, <2>5 DEF LexInv
<1>6. CASE t.type # "END_OF_FILE"
  <2>0. PICK tok, span : tok = [type |-> t.type, content |-> t.content]
                           /\ span = [from |-> b, to |-> t.next]
    OBVIOUS
  <2>1. tokens' = Append(tokens, tok) /\ spans' = Append(spans, span) /\ phase' = phase /\ at' = t.next
    BY <1>2, <1>6, <2>0
  <2>2. span.from = b /\ span.to = t.next /\ tok.type = t.type /\ tok.content = t.content
    BY <2>0
  <2>3. /\ IsSeq(tokens)' /\ IsSeq(spans)' /\ N \in Nat
        /\ Len(tokens') = N + 1 /\ Len(spans') = N + 1
        /\ DOMAIN spans = 1 .. N /\ DOMAIN spans' = 1 .. N + 1
        /\ \A n \in 1 .. N : tokens'[n] = tokens[n] /\ spans'[n] = spans[n]
        /\ tokens'[N + 1] = tok /\ spans'[N + 1] = span
    <3>1. N \in Nat /\ DOMAIN spans = 1 .. N /\ DOMAIN tokens = 1 .. N
      BY <1>0, <1>1, SeqFacts
    <3>2. IsSeq(tokens') /\ IsSeq(spans')
      BY <1>1, <2>1, AppendAny
    <3>3. IsSeq(tokens)' /\ IsSeq(spans)'
      BY <3>2 DEF IsSeq, values
    <3> QED
      BY <1>0, <1>1, <2>1, <3>1, <3>3, AppendAny
  <2>4. Munched(a, b, t.next, tok)
    BY <1>3, <1>6, <2>2 DEF Munched
  <2>5. Munched(a, b, t.next, tok)'
    BY <1>1, <2>4, SameText
  <2>6. a = IF N = 0 THEN 1 ELSE spans[N].to
    <3>1. spans = <<>> <=> N = 0
      <4>1. spans \in Seq(values(spans)) /\ N = Len(spans)
        BY <1>0, <1>1 DEF IsSeq
      <4> HIDE DEF IsSeq
      <4> QED
        BY ONLY <4>1, EmptySeq
    <3> QED
      BY <1>0, <1>1, <3>1 DEF TextEnd
  <2>7. ASSUME NEW n \in 1 .. N + 1, NEW x, NEW i, NEW j, NEW u, Of(n, x, i, j, u)'
        PROVE  Munched(x, i, j, u)'
    <3>1. x = (IF n = 1 THEN 1 ELSE spans'[n - 1].to) /\ i = spans'[n].from /\ j = spans'[n].to
          /\ u = tokens'[n]
      BY <2>7 DEF Of, Before
    <3>2. CASE n = N + 1
      <4>1. i = b /\ j = t.next /\ u = tok
        BY <2>2, <2>3, <3>1, <3>2
      <4>2. x = a
        <5>1. CASE N = 0
          BY <2>6, <3>1, <3>2, <5>1
        <5>2. CASE N # 0
          <6>1. N \in 1 .. N /\ n - 1 = N /\ n # 1
            BY <2>3, <3>2, <5>2
          <6>2. spans'[N] = spans[N]
            BY <2>3, <6>1
          <6> QED
            BY <2>6, <3>1, <5>2, <6>1, <6>2
        <5> QED
          BY <5>1, <5>2
      <4> QED
        BY <2>5, <4>1, <4>2
    <3>3. CASE n # N + 1
      <4>1. n \in 1 .. N /\ (n # 1 => n - 1 \in 1 .. N)
        BY <2>3, <3>3
      <4>2. Of(n, x, i, j, u)
        BY <2>3, <3>1, <4>1 DEF Of, Before
      <4> QED
        BY <1>1, <2>3, <4>1, <4>2, SameText
    <3> QED
      BY <3>2, <3>3
  <2>8. TextEnd' = t.next
    <3>1. spans' # <<>>
      BY <2>3
    <3> QED
      BY <2>2, <2>3, <3>1 DEF TextEnd
  <2>9. at' = TextEnd' /\ at' \in 1 .. (Len(src) + 1)'
    BY <1>3, <1>4, <1>6, <2>1, <2>8
  <2>10. (\A n \in DOMAIN spans : \A x, i, j, u : Of(n, x, i, j, u) => Munched(x, i, j, u))'
    BY <2>3, <2>7
  <2>11. phase' = "lexing"
    BY <1>1, <2>1
  <2> QED
    BY <1>4, <2>3, <2>9, <2>10, <2>11 DEF LexInv
<1> QED
  BY <1>5, <1>6

\* Nothing that is read changes, and nothing is read again.
LEMMA LexStays ==
  ASSUME LexInv, UNCHANGED lexerVars, phase' \in {"lexing", "parsing"} => phase' = phase
  PROVE  LexInv'
<1>1. src' = src /\ at' = at /\ tokens' = tokens /\ spans' = spans
  BY DEF lexerVars
<1>2. /\ Text /\ IsSeq(tokens) /\ IsSeq(spans) /\ Len(spans) = Len(tokens)
      /\ phase = "lexing" =>
           /\ at = TextEnd /\ at \in 1 .. Len(src) + 1
           /\ \A n \in DOMAIN spans : \A b, i, j, t : Of(n, b, i, j, t) => Munched(b, i, j, t)
      /\ phase = "parsing" /\ "#" \notin values(src) =>
           \A b, e : b = TextEnd /\ e = Len(src) + 1 => Blank(b, e)
  BY DEF LexInv
<1>3. Text' /\ IsSeq(tokens)' /\ IsSeq(spans)' /\ Len(spans)' = Len(tokens)'
  BY <1>1, <1>2, SameText DEF IsSeq, values
<1>4. TextEnd' = TextEnd /\ Len(src)' = Len(src) /\ values(src)' = values(src)
  BY <1>1 DEF TextEnd, values
<1>5. ASSUME NEW n, NEW b, NEW i, NEW j, NEW t, Of(n, b, i, j, t)' PROVE Of(n, b, i, j, t)
  BY <1>1, <1>5 DEF Of, Before
<1>6. phase' = "lexing" =>
        (/\ at = TextEnd /\ at \in 1 .. Len(src) + 1
         /\ \A n \in DOMAIN spans : \A b, i, j, t : Of(n, b, i, j, t) => Munched(b, i, j, t))'
  BY <1>1, <1>2, <1>4, <1>5, SameText
<1>7. phase' = "parsing" /\ "#" \notin values(src)' =>
        (\A b, e : b = TextEnd /\ e = Len(src) + 1 => Blank(b, e))'
  BY <1>1, <1>2, <1>4, SameText
<1> QED
  BY <1>3, <1>6, <1>7 DEF LexInv

\* The parser goes on or stops.
LEMMA ParsePhase == ASSUME Parse PROVE phase' \in {"lexing", "parsing"} => phase' = phase
<1>1. ASSUME NEW fs, NEW p, Enter(fs, p) \/ Keep(Top, fs, p) \/ Pass(p) PROVE phase' = phase
  BY <1>1 DEF Enter, Keep, Pass, Return
<1>2. Throw \/ Return => phase' = phase \/ phase' = "threw"
  BY DEF Throw, Return
<1>3. BlockUnfinished \/ BlockDone \/ ProgramDone \/ NestedBlock \/ parseVarDecl \/ parseIfStmt
      \/ Skip \/ StatementKept => phase' = phase \/ phase' \in {"threw", "parsed"}
  BY DEF BlockUnfinished, BlockDone, ProgramDone, NestedBlock, parseVarDecl, parseIfStmt, Skip, StatementKept,
         Throw, Return, Call, Enter, Keep
<1>4. parseUnary \/ UnaryDone \/ Number \/ Ident \/ Paren \/ NoOperand \/ ParenDone
      => phase' = phase \/ phase' \in {"threw", "parsed"}
  BY DEF parseUnary, UnaryDone, Number, Ident, Paren, NoOperand, ParenDone,
         Throw, Return, Call, Enter, Leaf, Pass
<1>5. AssignDone \/ DeclDone \/ Argument \/ ArgumentKept \/ Operator \/ Combine \/ LevelDone
      => phase' = phase \/ phase' \in {"threw", "parsed"}
  BY DEF AssignDone, DeclDone, Argument, ArgumentKept, Operator, Combine, LevelDone,
         Throw, Return, Call, Enter, Keep, Pass
<1>6. IfCondition \/ IfElse \/ IfDone => phase' = phase \/ phase' \in {"threw", "parsed"}
  BY DEF IfCondition, IfElse, IfDone, Throw, Return, Call, Enter, Keep
<1> QED
  BY <1>3, <1>4, <1>5, <1>6 DEF Parse

\* The invariant of the tokeniser, for every text.
LEMMA LexAlways == CompilerSpec => []LexInv
<1>1. CompilerInit => LexInv
  <2> SUFFICES ASSUME CompilerInit PROVE LexInv
    OBVIOUS
  <2>1. PICK args \in Arguments : src = CodeStr(args)
    BY DEF CompilerInit
  <2>2. at = 1 /\ tokens = <<>> /\ spans = <<>> /\ phase = "lexing"
    BY DEF CompilerInit, LexerInit
  <2>3. Text
    BY <2>1, ArgumentsAssumption DEF Text
  <2>4. IsSeq(<<>>) /\ Len(<<>>) = 0 /\ DOMAIN <<>> = {}
    BY DEF IsSeq
  <2>5. 1 \in 1 .. Len(src) + 1
    BY <2>3, TextFacts
  <2> QED
    BY <2>2, <2>3, <2>4, <2>5 DEF LexInv, TextEnd
<1>2. LexInv /\ [CompilerNext]_compilerVars => LexInv'
  <2> SUFFICES ASSUME LexInv, [CompilerNext]_compilerVars PROVE LexInv'
    OBVIOUS
  <2>1. CASE Tokenize
    BY <2>1, LexStep
  <2>2. CASE Parse /\ UNCHANGED lexerVars
    BY <2>2, ParsePhase, LexStays
  <2>3. CASE printAST \/ freeMemory
    <3>1. UNCHANGED lexerVars /\ phase' \in {"printed", "freed"}
      <4>1. CASE printAST
        BY <4>1 DEF printAST
      <4>2. CASE freeMemory
        BY <4>2 DEF freeMemory
      <4> QED
        BY <2>3, <4>1, <4>2
    <3> QED
      BY <3>1, LexStays
  <2>4. CASE UNCHANGED compilerVars
    <3>1. UNCHANGED lexerVars /\ phase' = phase
      BY <2>4 DEF compilerVars
    <3> QED
      BY <3>1, LexStays
  <2> QED
    BY <2>1, <2>2, <2>3, <2>4 DEF CompilerNext
<1> QED
  BY <1>1, <1>2, PTL DEF CompilerSpec

\* For every text, of any length, over any letters: each token is the longest lexeme
\* at its place, with blanks and comments before it and nothing else; its type and
\* content are those of its place; and no piece is left over at the end.  (After a
\* directive of unset type the tokeniser may stop early, as the property says.)
THEOREM CompilerMaximalMunch == CompilerSpec => []MaximalMunch
<1>1. LexInv => MaximalMunch
  <2> SUFFICES ASSUME LexInv PROVE MaximalMunch
    OBVIOUS
  <2>1. ASSUME phase = "lexing", NEW n \in DOMAIN spans
        PROVE  Munched(Before(n), spans[n].from, spans[n].to, tokens[n])
    BY <2>1 DEF LexInv, Of
  <2>2. phase = "parsing" /\ "#" \notin values(src) => Blank(TextEnd, Len(src) + 1)
    BY DEF LexInv
  <2> QED
    BY <2>1, <2>2 DEF MaximalMunch, Munched, Before, TextEnd
<1> QED
  BY <1>1, LexAlways, PTL

(***************************************************************************)
(* Sequences of sequences.                                                 *)
(***************************************************************************)
\* The recursion of FlattenSeq.
Flattens(F, s) == F = [i \in 1 .. Len(s) |-> IF i = 1 THEN s[i] ELSE F[i - 1] \o s[i]]

LEMMA FlattensFacts ==
  ASSUME NEW s, NEW F, Flattens(F, s), NEW i \in 1 .. Len(s)
  PROVE  F[i] = IF i = 1 THEN s[i] ELSE F[i - 1] \o s[i]
BY DEF Flattens

LEMMA FlattensTyped ==
  ASSUME NEW T, NEW s \in Seq(Seq(T)), NEW F, Flattens(F, s)
  PROVE  \A i \in 1 .. Len(s) : F[i] \in Seq(T)
<1> DEFINE S == {n \in Nat : n \in 1 .. Len(s) => F[n] \in Seq(T)}
<1>1. 0 \in S
  OBVIOUS
<1>2. ASSUME NEW n \in Nat, n \in S PROVE n + 1 \in S
  <2> DEFINE i == n + 1
  <2> SUFFICES ASSUME i \in 1 .. Len(s) PROVE F[i] \in Seq(T)
    OBVIOUS
  <2>1. s[i] \in Seq(T) /\ i - 1 = n /\ (i = 1 \/ n \in 1 .. Len(s))
    OBVIOUS
  <2> HIDE DEF i
  <2>2. F[i] = IF i = 1 THEN s[i] ELSE F[n] \o s[i]
    BY <2>1, FlattensFacts
  <2>3. i # 1 => F[n] \in Seq(T)
    BY <1>2, <2>1
  <2> QED
    BY <2>1, <2>2, <2>3
<1> HIDE DEF S
<1>3. \A n \in Nat : n \in S
  BY <1>1, <1>2, Induction
<1> QED
  BY <1>3 DEF S

LEMMA FlattensExist ==
  ASSUME NEW T, NEW s \in Seq(Seq(T))
  PROVE  \E F : Flattens(F, s)
<1> DEFINE step(F, i) == IF i = 1 THEN s[i] ELSE F[i - 1] \o s[i]
           P(n) == \E F : F = [i \in 1 .. n |-> step(F, i)]
           S    == {n \in Nat : P(n)}
<1>1. 0 \in S
  <2> DEFINE F == [i \in 1 .. 0 |-> 0]
  <2>1. F = [i \in 1 .. 0 |-> step(F, i)]
    OBVIOUS
  <2> QED
    BY <2>1
<1>2. ASSUME NEW n \in Nat, n \in S PROVE n + 1 \in S
  <2>1. PICK F : F = [i \in 1 .. n |-> step(F, i)]
    BY <1>2
  <2> DEFINE G == [i \in 1 .. n + 1 |-> step(F, i)]
  <2>2. \A i \in 1 .. n + 1 : step(F, i) = step(G, i)
    <3> TAKE i \in 1 .. n + 1
    <3>1. i # 1 => i - 1 \in 1 .. n /\ i - 1 \in 1 .. n + 1
      OBVIOUS
    <3>2. i # 1 => G[i - 1] = step(F, i - 1) /\ F[i - 1] = step(F, i - 1)
      <4> HIDE DEF step
      <4> QED
        BY <2>1, <3>1
    <3> HIDE DEF G
    <3> QED
      BY <3>2
  <2>3. G = [i \in 1 .. n + 1 |-> step(G, i)]
    <3> HIDE DEF step
    <3>1. G = [i \in 1 .. n + 1 |-> step(F, i)]
      OBVIOUS
    <3> HIDE DEF G
    <3> QED
      BY <2>2, <3>1
  <2> HIDE DEF G
  <2>4. P(n + 1)
    BY <2>3
  <2> HIDE DEF P
  <2> QED
    BY <2>4
<1> HIDE DEF S
<1>3. \A n \in Nat : n \in S
  BY <1>1, <1>2, Induction
<1>4. Len(s) \in S
  BY <1>3
<1> QED
  BY <1>4 DEF S, Flattens

LEMMA FlattensAgree ==
  ASSUME NEW s, NEW t, NEW F, NEW G, Flattens(F, s), Flattens(G, t), NEW n \in Nat, n =< Len(s), n =< Len(t),
         Len(s) \in Nat, Len(t) \in Nat,
         \A i \in 1 .. n : s[i] = t[i]
  PROVE  \A i \in 1 .. n : F[i] = G[i]
<1> DEFINE S == {m \in Nat : m \in 1 .. n => F[m] = G[m]}
<1>1. 0 \in S
  OBVIOUS
<1>2. ASSUME NEW m \in Nat, m \in S PROVE m + 1 \in S
  <2> DEFINE i == m + 1
  <2> SUFFICES ASSUME i \in 1 .. n PROVE F[i] = G[i]
    OBVIOUS
  <2>1. i - 1 = m /\ s[i] = t[i] /\ i \in 1 .. Len(s) /\ i \in 1 .. Len(t)
    OBVIOUS
  <2>2. i # 1 => F[m] = G[m]
    BY <1>2
  <2> HIDE DEF i
  <2>3. F[i] = IF i = 1 THEN s[i] ELSE F[m] \o s[i]
    BY <2>1, FlattensFacts
  <2>4. G[i] = IF i = 1 THEN t[i] ELSE G[m] \o t[i]
    BY <2>1, FlattensFacts
  <2> QED
    BY <2>1, <2>2, <2>3, <2>4
<1> HIDE DEF S
<1>3. \A m \in Nat : m \in S
  BY <1>1, <1>2, Induction
<1> QED
  BY <1>3 DEF S

LEMMA FlattenIs ==
  ASSUME NEW T, NEW s \in Seq(Seq(T)), Len(s) # 0
  PROVE  \E F : Flattens(F, s) /\ FlattenSeq(s) = F[Len(s)]
<1> DEFINE chosen == CHOOSE F : F = [i \in 1 .. Len(s) |-> IF i = 1 THEN s[i] ELSE F[i - 1] \o s[i]]
<1>1. \E F : F = [i \in 1 .. Len(s) |-> IF i = 1 THEN s[i] ELSE F[i - 1] \o s[i]]
  BY FlattensExist DEF Flattens
<1>2. Flattens(chosen, s)
  BY <1>1 DEF Flattens
<1>3. FlattenSeq(s) = chosen[Len(s)]
  BY DEF FlattenSeq
<1> HIDE DEF chosen
<1> QED
  BY <1>2, <1>3

LEMMA FlatEmpty ==
  ASSUME NEW s, Len(s) = 0
  PROVE  FlattenSeq(s) = s
BY DEF FlattenSeq

LEMMA FlatTyped ==
  ASSUME NEW T, NEW s \in Seq(Seq(T))
  PROVE  FlattenSeq(s) \in Seq(T)
<1>1. CASE Len(s) = 0
  <2>1. s = <<>>
    BY <1>1, EmptySeq
  <2>2. FlattenSeq(s) = <<>>
    BY <1>1, <2>1, FlatEmpty
  <2>3. <<>> \in Seq(T)
    OBVIOUS
  <2> QED
    BY <2>2, <2>3
<1>2. CASE Len(s) # 0
  <2>1. PICK F : Flattens(F, s) /\ FlattenSeq(s) = F[Len(s)]
    BY <1>2, FlattenIs
  <2>2. Len(s) \in 1 .. Len(s)
    BY <1>2
  <2> QED
    BY <2>1, <2>2, FlattensTyped
<1> QED
  BY <1>1, <1>2

LEMMA FlatAppend ==
  ASSUME NEW T, NEW s \in Seq(Seq(T)), NEW e \in Seq(T)
  PROVE  FlattenSeq(Append(s, e)) = FlattenSeq(s) \o e
<1> DEFINE t == Append(s, e)
           n == Len(s)
           m == n + 1
<1>1. t \in Seq(Seq(T)) /\ Len(t) = m /\ n \in Nat /\ t[m] = e /\ \A i \in 1 .. n : t[i] = s[i]
  OBVIOUS
<1>2. m # 0 /\ m - 1 = n /\ (n # 0 => m # 1) /\ (n = 0 => m = 1) /\ m \in 1 .. m /\ n =< m /\ n =< n /\ m \in Nat
  OBVIOUS
<1> HIDE DEF t, m
<1>3. PICK G : Flattens(G, t) /\ FlattenSeq(t) = G[m]
  <2>1. Len(t) # 0
    BY <1>1, <1>2
  <2>2. \E G : Flattens(G, t) /\ FlattenSeq(t) = G[Len(t)]
    BY <1>1, <2>1, FlattenIs
  <2> QED
    BY <1>1, <2>2
<1>4. G[m] = IF m = 1 THEN e ELSE G[n] \o e
  <2>1. m \in 1 .. Len(t) /\ t[m] = e /\ m - 1 = n
    BY <1>1, <1>2
  <2>2. G[m] = IF m = 1 THEN t[m] ELSE G[m - 1] \o t[m]
    BY ONLY <1>3, <2>1, FlattensFacts
  <2> QED
    BY ONLY <2>1, <2>2
<1>5. CASE n = 0
  <2>1. FlattenSeq(s) = <<>>
    BY <1>5, FlatEmpty, EmptySeq
  <2>2. <<>> \o e = e
    OBVIOUS
  <2> QED
    BY <1>2, <1>3, <1>4, <1>5, <2>1, <2>2 DEF t
<1>6. CASE n # 0
  <2>1. PICK F : Flattens(F, s) /\ FlattenSeq(s) = F[n]
    BY <1>6, FlattenIs
  <2>2. \A i \in 1 .. n : s[i] = t[i]
    BY <1>1
  <2>3. n =< Len(s) /\ n =< Len(t) /\ Len(s) \in Nat /\ Len(t) \in Nat
    BY <1>1, <1>2
  <2>4. F[n] = G[n]
    <3>1. PICK k \in Nat : k = n
      BY <1>1
    <3>2. \A i \in 1 .. k : F[i] = G[i]
      <4>1. PICK u : u = t
        OBVIOUS
      <4>2. Len(u) \in Nat /\ Len(s) \in Nat /\ k =< Len(s) /\ k =< Len(u)
        BY <2>3, <3>1, <4>1
      <4>3. \A i \in 1 .. k : s[i] = u[i]
        BY <2>2, <3>1, <4>1
      <4>4. Flattens(F, s) /\ Flattens(G, u)
        BY <1>3, <2>1, <4>1
      <4>5. \A j \in Nat : j =< Len(s) /\ j =< Len(u) /\ (\A i \in 1 .. j : s[i] = u[i]) => \A i \in 1 .. j : F[i] = G[i]
        BY ONLY <4>2, <4>4, FlattensAgree
      <4> QED
        BY ONLY <4>2, <4>3, <4>5
    <3>3. k \in 1 .. k
      BY <1>6, <3>1
    <3> QED
      BY <3>1, <3>2, <3>3
  <2> QED
    BY <1>2, <1>3, <1>4, <1>6, <2>1, <2>4 DEF t
<1> QED
  BY <1>5, <1>6
\* A function that goes through a sequence says what the sequence flattens to.
LEMMA FlatRun ==
  ASSUME NEW T, NEW s \in Seq(Seq(T)), NEW w \in [Nat -> Seq(T)], w[0] = <<>>,
         \A i \in 1 .. Len(s) : w[i] = w[i - 1] \o s[i]
  PROVE  FlattenSeq(s) = w[Len(s)]
<1>1. Len(s) \in Nat
  OBVIOUS
<1>2. CASE Len(s) = 0
  BY <1>2, FlatEmpty, EmptySeq
<1>3. CASE Len(s) # 0
  <2> DEFINE G == [i \in 1 .. Len(s) |-> w[i]]
  <2>1. PICK F : Flattens(F, s) /\ FlattenSeq(s) = F[Len(s)]
    BY <1>3, FlattenIs
  <2>2. ASSUME NEW i \in 1 .. Len(s) PROVE w[i] = IF i = 1 THEN s[i] ELSE G[i - 1] \o s[i]
    <3>1. s[i] \in Seq(T)
      OBVIOUS
    <3>2. w[i] = w[i - 1] \o s[i]
      OBVIOUS
    <3>3. CASE i = 1
      <4>1. i - 1 = 0
        BY <3>3
      <4>2. w[i] = <<>> \o s[i]
        BY <3>2, <4>1
      <4>3. <<>> \o s[i] = s[i]
        BY <3>1
      <4> QED
        BY <3>3, <4>2, <4>3
    <3>4. CASE i # 1
      <4>1. i - 1 \in 1 .. Len(s)
        BY <1>1, <3>4
      <4> QED
        BY <3>2, <3>4, <4>1
    <3> QED
      BY <3>3, <3>4
  <2>3. G = [i \in 1 .. Len(s) |-> IF i = 1 THEN s[i] ELSE G[i - 1] \o s[i]]
    <3>1. G = [i \in 1 .. Len(s) |-> w[i]]
      OBVIOUS
    <3> HIDE DEF G
    <3> QED
      BY <2>2, <3>1
  <2>4. Flattens(G, s) /\ G[Len(s)] = w[Len(s)]
    <3>1. Len(s) \in 1 .. Len(s)
      BY <1>1, <1>3
    <3> QED
      BY <2>3, <3>1 DEF Flattens
  <2> HIDE DEF G
  <2>5. PICK k \in Nat : k = Len(s)
    BY <1>1
  <2>6. \A i \in 1 .. k : F[i] = G[i]
    <3>1. k =< Len(s) /\ \A i \in 1 .. k : s[i] = s[i]
      BY <2>5
    <3> QED
      BY ONLY <1>1, <2>1, <2>4, <3>1, FlattensAgree
  <2>7. k \in 1 .. k
    BY <1>3, <2>5
  <2> QED
    BY <2>1, <2>4, <2>5, <2>6, <2>7
<1> QED
  BY <1>2, <1>3

(***************************************************************************)
(* What the nodes say and what the calls in progress have to say.          *)
(***************************************************************************)
Items == [type : Calculating \cup {"IDENT", "NUMBER"}, name : Names]
Words == Seq(Items)

\* What a list of nodes says, if r is what each node says.
parts(kids, r) == FlattenSeq([k \in DOMAIN kids |-> r[kids[k]]])

\* What a call says before and after its locals.
heading(x) ==
  IF x.fn \in {"call", "assign", "varDecl"} THEN <<[type |-> "IDENT", name |-> x.name]>>
  ELSE IF x.fn = "unary" THEN <<[type |-> x.op, name |-> <<>>]>> ELSE <<>>
trailing(x) == IF x.fn \in LevelNames /\ x.op # NONE THEN <<[type |-> x.op, name |-> <<>>]>> ELSE <<>>

spoken(x, r) == heading(x) \o (parts(x.kids, r) \o trailing(x))

\* What a node says, if r is what its parts say.
told(node, r) == saying(node, [k \in DOMAIN node.kids |-> r[node.kids[k]]])

Reads(r) ==
  /\ r \in [Nat -> Words]
  /\ \A n \in DOMAIN nodes : r[n] = told(nodes[n], r)

\* The same with one more node, which says e.
ReadsMore(q, r, e) ==
  /\ Reads(q)' /\ q \in [Nat -> Words] /\ q[Len(nodes) + 1] = e
  /\ \A n \in 1 .. Len(nodes) : q[n] = r[n]

Held(kids) == \A k \in DOMAIN kids : kids[k] \in 1 .. Len(nodes)

\* w[f] is what the first f calls say.
Speaks(w, r) ==
  /\ w \in [Nat -> Words] /\ w[0] = <<>>
  /\ \A f \in DOMAIN frames : w[f] = w[f - 1] \o spoken(frames[f], r)

Returned(r) == IF ret = 0 THEN <<>> ELSE r[ret]

\* t[i] is what the first i tokens say, up to token p.
Hears(t, p) ==
  /\ t \in [Nat -> Words] /\ t[0] = <<>>
  /\ skipped \subseteq 1 .. p
  /\ \A i \in 1 .. p : t[i] = t[i - 1] \o says(i)

\* What the calls and the node returned say is what the tokens before pos say.
TellInv ==
  /\ \A i \in DOMAIN tokens : tokens[i].type # "END_OF_FILE"
  /\ phase = "lexing" => skipped = {}
  /\ phase = "parsing" =>
       \E r, w, t : /\ Reads(r) /\ Speaks(w, r) /\ Hears(t, pos - 1)
                    /\ w[Len(frames)] \o Returned(r) = t[pos - 1]
  /\ phase = "parsed" => \E r, t : Reads(r) /\ Hears(t, Len(tokens)) /\ r[ret] = t[Len(tokens)]

(***************************************************************************)
(* Adding to what has been said.                                           *)
(***************************************************************************)
LEMMA Joined ==
  ASSUME NEW T, NEW a \in Seq(T), NEW b \in Seq(T), NEW c \in Seq(T)
  PROVE  /\ a \o b \in Seq(T) /\ <<>> \in Seq(T)
         /\ (a \o b) \o c = a \o (b \o c)
         /\ a \o <<>> = a /\ <<>> \o a = a
BY ConcatProperties, ConcatAssociative, ConcatEmptySeq, EmptySeq

Groups(a, b, c) == (a \o b) \o c = a \o (b \o c)

LEMMA Grouped ==
  ASSUME NEW T, NEW a \in Seq(T), NEW b \in Seq(T), NEW c \in Seq(T)
  PROVE  Groups(a, b, c)
BY Joined DEF Groups

\* v goes on as w from place b to n, where only place m says something.
Continues(v, w, T, b, n, m, e) ==
  /\ v \in [Nat -> Seq(T)]
  /\ \A i \in 0 .. b : v[i] = w[i]
  /\ \A i \in b + 1 .. n : v[i] = v[i - 1] \o IF i = m THEN e ELSE <<>>
  /\ v[n] = w[b] \o e

LEMMA Onward ==
  ASSUME NEW T, NEW w \in [Nat -> Seq(T)], NEW b \in Nat, NEW n \in Nat, b =< n,
         NEW m \in Nat, NEW e \in Seq(T), m \in b + 1 .. n \/ e = <<>>
  PROVE  \E v : Continues(v, w, T, b, n, m, e)
<1>1. PICK x, y : x = w[b] /\ y = w[b] \o e
  OBVIOUS
<1>2. x \in Seq(T) /\ y \in Seq(T) /\ x \o <<>> = x /\ y \o <<>> = y /\ (e = <<>> => y = x)
  <2>1. x \in Seq(T)
    BY <1>1
  <2>2. y \in Seq(T)
    BY <1>1, <2>1, Joined
  <2> QED
    BY <1>1, <2>1, <2>2, Joined
<1> DEFINE v == [i \in Nat |-> IF i =< b THEN w[i] ELSE IF i < m THEN x ELSE y]
<1>3. v \in [Nat -> Seq(T)]
  BY <1>2
<1>4. \A i \in Nat : v[i] = IF i =< b THEN w[i] ELSE IF i < m THEN x ELSE y
  OBVIOUS
<1> HIDE DEF v
<1>5. \A i \in 0 .. b : v[i] = w[i]
  BY <1>4
<1>6. ASSUME NEW i \in b + 1 .. n PROVE v[i] = v[i - 1] \o IF i = m THEN e ELSE <<>>
  <2>1. PICK j \in Nat : j = i - 1 /\ i \in Nat /\ i = j + 1 /\ j >= b /\ ~(i =< b)
    OBVIOUS
  <2>2. v[i] = IF i < m THEN x ELSE y
    BY <1>4, <2>1
  <2>3. v[j] = IF j = b \/ j < m THEN x ELSE y
    <3>1. j =< b <=> j = b
      BY <2>1
    <3>2. v[j] = IF j =< b THEN w[j] ELSE IF j < m THEN x ELSE y
      BY <1>4
    <3>3. CASE j = b
      BY <1>1, <3>1, <3>2, <3>3
    <3>4. CASE j # b
      BY <3>1, <3>2, <3>4
    <3> QED
      BY <3>3, <3>4
  <2>4. CASE i < m
    <3>1. j < m /\ i # m
      BY <2>1, <2>4
    <3> QED
      BY <1>2, <2>1, <2>2, <2>3, <2>4, <3>1
  <2>5. CASE i = m
    <3>1. j < m /\ ~(i < m)
      BY <2>1, <2>5
    <3> QED
      BY <1>1, <2>1, <2>2, <2>3, <2>5, <3>1
  <2>6. CASE m < i
    <3>1. ~(j < m) /\ i # m /\ ~(i < m) /\ (j = b => e = <<>>)
      BY <2>1, <2>6
    <3> QED
      BY <1>2, <2>1, <2>2, <2>3, <3>1
  <2>7. i < m \/ i = m \/ m < i
    BY <2>1
  <2> QED
    BY ONLY <2>4, <2>5, <2>6, <2>7
<1>7. v[n] = w[b] \o e
  <2>1. CASE n = b
    <3>1. e = <<>>
      BY <2>1
    <3> QED
      BY <1>1, <1>2, <1>4, <2>1, <3>1
  <2>2. CASE n # b
    <3>1. ~(n =< b) /\ (n < m => e = <<>>)
      BY <2>2
    <3> QED
      BY <1>1, <1>2, <1>4, <3>1
  <2> QED
    BY <2>1, <2>2
<1> QED
  BY <1>3, <1>5, <1>6, <1>7 DEF Continues

\* What a list of nodes says.
LEMMA PartsSay ==
  ASSUME NEW r \in [Nat -> Words], NEW kids \in Seq(Nat)
  PROVE  /\ [k \in DOMAIN kids |-> r[kids[k]]] \in Seq(Words)
         /\ parts(kids, r) \in Words
         /\ kids = <<>> => parts(kids, r) = <<>>
         /\ \A x \in Nat : parts(Append(kids, x), r) = parts(kids, r) \o r[x]
<1> DEFINE said(l) == [k \in DOMAIN l |-> r[l[k]]]
<1>1. ASSUME NEW l \in Seq(Nat) PROVE said(l) \in Seq(Words) /\ Len(said(l)) = Len(l)
  <2>1. Len(l) \in Nat /\ DOMAIN l = 1 .. Len(l) /\ \A k \in 1 .. Len(l) : r[l[k]] \in Words
    OBVIOUS
  <2>2. said(l) = [k \in 1 .. Len(l) |-> r[l[k]]]
    BY <2>1
  <2> QED
    BY <2>1, <2>2
<1>2. parts(kids, r) \in Words
  BY <1>1, FlatTyped DEF parts, Words
<1>3. kids = <<>> => parts(kids, r) = <<>>
  <2> SUFFICES ASSUME kids = <<>> PROVE parts(kids, r) = <<>>
    OBVIOUS
  <2>1. Len(said(kids)) = 0 /\ said(kids) \in Seq(Words)
    BY <1>1
  <2>2. said(kids) = <<>>
    BY <2>1, EmptySeq
  <2> QED
    BY <2>1, <2>2, FlatEmpty DEF parts
<1>4. ASSUME NEW x \in Nat PROVE parts(Append(kids, x), r) = parts(kids, r) \o r[x]
  <2>1. said(Append(kids, x)) = Append(said(kids), r[x])
    <3>1. Len(kids) \in Nat /\ DOMAIN kids = 1 .. Len(kids) /\ Append(kids, x) \in Seq(Nat)
          /\ Len(Append(kids, x)) = Len(kids) + 1
      OBVIOUS
    <3>2. said(kids) \in Seq(Words) /\ said(Append(kids, x)) \in Seq(Words) /\ r[x] \in Words
          /\ Len(said(kids)) = Len(kids) /\ Len(said(Append(kids, x))) = Len(kids) + 1
      BY <1>1, <3>1
    <3>3. \A k \in 1 .. Len(kids) + 1 : said(Append(kids, x))[k] = IF k = Len(kids) + 1 THEN r[x] ELSE r[kids[k]]
      BY <3>1
    <3>4. \A k \in 1 .. Len(kids) : said(kids)[k] = r[kids[k]]
      BY <3>1
    <3> HIDE DEF said
    <3>5. /\ Append(said(kids), r[x]) \in Seq(Words) /\ Len(Append(said(kids), r[x])) = Len(kids) + 1
          /\ \A k \in 1 .. Len(kids) + 1 : Append(said(kids), r[x])[k] = IF k = Len(kids) + 1 THEN r[x] ELSE said(kids)[k]
      BY <3>2
    <3>6. ASSUME NEW k \in 1 .. Len(kids) + 1
          PROVE  said(Append(kids, x))[k] = Append(said(kids), r[x])[k]
      <4>1. k = Len(kids) + 1 \/ k \in 1 .. Len(kids)
        BY <3>1
      <4> QED
        BY <3>3, <3>4, <3>5, <4>1
    <3>7. PICK s, t : s = said(Append(kids, x)) /\ t = Append(said(kids), r[x])
      OBVIOUS
    <3>8. s \in Seq(Words) /\ t \in Seq(Words) /\ Len(s) = Len(t) /\ \A k \in 1 .. Len(s) : s[k] = t[k]
      BY <3>2, <3>5, <3>6, <3>7
    <3>9. s = t
      BY ONLY <3>8, SeqEqual
    <3> QED
      BY <3>7, <3>9
  <2>2. said(kids) \in Seq(Seq(Items)) /\ r[x] \in Seq(Items)
    BY <1>1 DEF Words
  <2> HIDE DEF said
  <2>3. FlattenSeq(Append(said(kids), r[x])) = FlattenSeq(said(kids)) \o r[x]
    BY <2>2, FlatAppend
  <2>4. parts(kids, r) = FlattenSeq(said(kids)) /\ parts(Append(kids, x), r) = FlattenSeq(said(Append(kids, x)))
    BY DEF parts, said
  <2> QED
    BY <2>1, <2>3, <2>4
<1> QED
  BY <1>1, <1>2, <1>3, <1>4

\* The same nodes say the same.
LEMMA SameParts ==
  ASSUME NEW r, NEW q, NEW kids, \A k \in DOMAIN kids : r[kids[k]] = q[kids[k]]
  PROVE  /\ [k \in DOMAIN kids |-> r[kids[k]]] = [k \in DOMAIN kids |-> q[kids[k]]]
         /\ parts(kids, r) = parts(kids, q)
<1>1. [k \in DOMAIN kids |-> r[kids[k]]] = [k \in DOMAIN kids |-> q[kids[k]]]
  OBVIOUS
<1> QED
  BY <1>1 DEF parts

LEMMA SameWords == ASSUME UNCHANGED tokens PROVE Names' = Names /\ Words' = Words
BY DEF Names, Items, Words

\* A step that goes over the tokens from pos to pos' - 1, which say e.
Consumes(e) ==
  /\ pos' \in Nat /\ pos =< pos' /\ e \in Words
  /\ \A i \in 1 .. pos - 1 : i \in skipped' <=> i \in skipped
  /\ skipped' \subseteq 1 .. pos' - 1
  /\ \E m \in Nat : /\ m \in pos .. pos' - 1 \/ e = <<>>
                    /\ \A i \in pos .. pos' - 1 : says(i)' = IF i = m THEN e ELSE <<>>

LEMMA HearMore ==
  ASSUME UNCHANGED tokens, pos \in Nat \ {0}, NEW t, Hears(t, pos - 1), NEW e, Consumes(e)
  PROVE  \E u : Hears(u, pos - 1)' /\ u[(pos - 1)'] = t[pos - 1] \o e
<1>1. PICK a, z, p, q : a = pos /\ z = pos' /\ p = a - 1 /\ q = z - 1
  OBVIOUS
<1>2. p = pos - 1 /\ q = pos' - 1
  BY <1>1
<1>3. /\ p \in Nat /\ q \in Nat /\ p =< q /\ p + 1 = pos
      /\ pos .. pos' - 1 = p + 1 .. q
  <2>1. a \in Nat /\ a # 0 /\ z \in Nat /\ a =< z
    BY <1>1 DEF Consumes
  <2>2. p = a - 1 /\ q = z - 1
    BY <1>1
  <2>3. p \in Nat /\ q \in Nat /\ p =< q /\ p + 1 = a /\ a .. z - 1 = p + 1 .. q
    BY ONLY <2>1, <2>2
  <2> QED
    BY ONLY <1>1, <2>3
<1>4. t \in [Nat -> Words] /\ t[0] = <<>> /\ \A i \in 1 .. p : t[i] = t[i - 1] \o says(i)
  BY <1>2 DEF Hears
<1>5. /\ e \in Words /\ \A i \in 1 .. p : i \in skipped' <=> i \in skipped
      /\ skipped' \subseteq 1 .. q
  BY <1>2 DEF Consumes
<1>6. PICK m \in Nat : /\ m \in pos .. pos' - 1 \/ e = <<>>
                       /\ \A i \in pos .. pos' - 1 : says(i)' = IF i = m THEN e ELSE <<>>
  BY DEF Consumes
<1>7. PICK u : Continues(u, t, Items, p, q, m, e)
  <2>1. t \in [Nat -> Seq(Items)] /\ e \in Seq(Items)
    BY <1>4, <1>5 DEF Words
  <2>2. m \in p + 1 .. q \/ e = <<>>
    BY <1>6, <1>3
  <2> QED
    BY <1>3, <2>1, <2>2, Onward
<1>8. /\ u \in [Nat -> Words] /\ \A i \in 0 .. p : u[i] = t[i]
      /\ \A i \in p + 1 .. q : u[i] = u[i - 1] \o IF i = m THEN e ELSE <<>>
      /\ u[q] = t[p] \o e
  BY <1>7 DEF Continues, Words
<1>9. u[0] = <<>>
  BY <1>4, <1>8, <1>3
<1>10. ASSUME NEW i \in 1 .. q PROVE u[i] = u[i - 1] \o says(i)'
  <2>1. CASE i \in 1 .. p
    <3>1. u[i] = t[i] /\ u[i - 1] = t[i - 1]
      <4>1. i \in 0 .. p /\ i - 1 \in 0 .. p
        BY <1>3, <2>1
      <4> QED
        BY <1>8, <4>1
    <3>2. says(i)' = says(i)
      BY <1>5, <2>1 DEF says
    <3> QED
      BY <1>4, <2>1, <3>1, <3>2
  <2>2. CASE i \in p + 1 .. q
    BY <1>6, <1>8, <1>3, <2>2
  <2> QED
    BY <1>3, <2>1, <2>2
<1>11. Words' = Words
  BY SameWords
<1>12. Hears(u, q)'
  BY <1>5, <1>8, <1>9, <1>10, <1>11 DEF Hears
<1>13. (pos - 1)' = q
  BY <1>2
<1> QED
  BY <1>2, <1>8, <1>12, <1>13

\* The first b of h calls stay, and what the others say, of n calls, is what the
\* first of them says.
Replies(r, q, h, b, n, e) ==
  /\ h \in Nat /\ b \in 0 .. h /\ n \in Nat /\ b =< n
  /\ DOMAIN frames = 1 .. h /\ DOMAIN frames' = 1 .. n
  /\ \A f \in 1 .. b : spoken(frames'[f], q) = spoken(frames[f], r)
  /\ e \in Words /\ (n = b => e = <<>>)
  /\ \A f \in b + 1 .. n : spoken(frames'[f], q) = IF f = b + 1 THEN e ELSE <<>>

LEMMA SpeakMore ==
  ASSUME UNCHANGED tokens, NEW r, NEW w, Speaks(w, r), NEW q, NEW h, NEW b, NEW n, NEW e, Replies(r, q, h, b, n, e)
  PROVE  \E v : Speaks(v, q)' /\ v[n] = w[b] \o e
<1>1. /\ h \in Nat /\ b \in Nat /\ b =< h /\ n \in Nat /\ b =< n
      /\ DOMAIN frames = 1 .. h /\ DOMAIN frames' = 1 .. n
      /\ \A f \in 1 .. b : spoken(frames'[f], q) = spoken(frames[f], r)
      /\ e \in Words /\ (n = b => e = <<>>)
      /\ \A f \in b + 1 .. n : spoken(frames'[f], q) = IF f = b + 1 THEN e ELSE <<>>
  BY DEF Replies
<1>2. /\ w \in [Nat -> Words] /\ w[0] = <<>>
      /\ \A f \in 1 .. h : w[f] = w[f - 1] \o spoken(frames[f], r)
  BY <1>1 DEF Speaks
<1>3. PICK m \in Nat : m = b + 1
  BY <1>1
<1>4. m \in b + 1 .. n \/ e = <<>>
  BY <1>1, <1>3
<1>5. PICK v : Continues(v, w, Items, b, n, m, e)
  <2>1. w \in [Nat -> Seq(Items)] /\ e \in Seq(Items)
    BY <1>1, <1>2 DEF Words
  <2> QED
    BY <1>1, <1>3, <1>4, <2>1, Onward
<1>6. /\ v \in [Nat -> Words] /\ \A i \in 0 .. b : v[i] = w[i]
      /\ \A i \in b + 1 .. n : v[i] = v[i - 1] \o IF i = m THEN e ELSE <<>>
      /\ v[n] = w[b] \o e
  BY <1>5 DEF Continues, Words
<1>7. v[0] = <<>>
  BY <1>1, <1>2, <1>6
<1>8. ASSUME NEW i \in 1 .. n PROVE v[i] = v[i - 1] \o spoken(frames'[i], q)
  <2>1. CASE i \in 1 .. b
    <3>1. v[i] = w[i] /\ v[i - 1] = w[i - 1] /\ i \in 1 .. h
      <4>1. i \in 0 .. b /\ i - 1 \in 0 .. b /\ i \in 1 .. h
        BY <1>1, <2>1
      <4> QED
        BY <1>6, <4>1
    <3> QED
      BY <1>1, <1>2, <2>1, <3>1
  <2>2. CASE i \in b + 1 .. n
    BY <1>1, <1>3, <1>6, <2>2
  <2> QED
    BY <1>1, <2>1, <2>2
<1>9. Speaks(v, q)'
  BY <1>1, <1>6, <1>7, <1>8, SameWords DEF Speaks
<1> QED
  BY <1>6, <1>9

\* Every part and every local is a node of the arena.
LEMMA KidsHeld ==
  ASSUME Inv
  PROVE  /\ Len(nodes) \in Nat /\ DOMAIN nodes = 1 .. Len(nodes) /\ IsSeq(nodes)
         /\ ret \in 0 .. Len(nodes)
         /\ Len(frames) \in Nat /\ DOMAIN frames = 1 .. Len(frames)
         /\ \A n \in DOMAIN nodes : \A k \in DOMAIN nodes[n].kids : nodes[n].kids[k] \in 1 .. Len(nodes)
         /\ \A f \in DOMAIN frames : /\ frames[f] \in Frame /\ FrameOK(frames[f]) /\ frames[f].kids \in Seq(Nat)
                                     /\ \A k \in DOMAIN frames[f].kids : frames[f].kids[k] \in 1 .. Len(nodes)
<1> DEFINE N == Len(nodes)
<1>1. Typed /\ Owned(Parts, N, Locals, ret)
  BY DEF Inv
<1>2. N \in Nat /\ DOMAIN nodes = 1 .. N /\ IsSeq(nodes) /\ ret \in 0 .. N
  BY <1>1, SeqFacts DEF Typed
<1>3. Len(frames) \in Nat /\ DOMAIN frames = 1 .. Len(frames) /\ frames \in Seq(Frame)
  BY <1>1 DEF Typed
<1>4. /\ \A n \in Nat : \A k \in DOMAIN Parts[n] : Parts[n][k] \in 1 .. n - 1 /\ n \in 1 .. N
      /\ \A f \in Nat : \A k \in DOMAIN Locals[f] : Locals[f][k] \in 1 .. N
  BY <1>1 DEF Owned
<1> HIDE DEF N
<1>5. ASSUME NEW n \in DOMAIN nodes, NEW k \in DOMAIN nodes[n].kids PROVE nodes[n].kids[k] \in 1 .. N
  <2>1. n \in Nat /\ n \in 1 .. N /\ Parts[n] = nodes[n].kids
    BY <1>2 DEF Parts
  <2>2. Parts[n][k] \in 1 .. n - 1
    BY <1>4, <2>1
  <2> QED
    BY <1>2, <2>1, <2>2
<1>6. ASSUME NEW f \in DOMAIN frames
      PROVE  /\ frames[f] \in Frame /\ FrameOK(frames[f]) /\ frames[f].kids \in Seq(Nat)
             /\ \A k \in DOMAIN frames[f].kids : frames[f].kids[k] \in 1 .. N
  <2>1. f \in Nat /\ Locals[f] = frames[f].kids
    BY <1>3 DEF Locals
  <2>2. frames[f] \in Frame /\ FrameOK(frames[f])
    BY <1>1, <1>3 DEF Typed
  <2> QED
    BY <1>4, <2>1, <2>2 DEF Frame
<1> QED
  BY <1>2, <1>3, <1>5, <1>6 DEF N

\* A new node says what its parts and it say, and the others say what they said.
LEMMA ReadMore ==
  ASSUME Inv, UNCHANGED tokens, NEW r, Reads(r), NEW node, nodes' = Append(nodes, node),
         Held(node.kids), NEW e \in Words, told(node, r) = e
  PROVE  \E q : ReadsMore(q, r, e)
<1>1. PICK N : N = Len(nodes)
  OBVIOUS
<1>2. /\ N \in Nat /\ DOMAIN nodes = 1 .. N /\ IsSeq(nodes)
      /\ \A n \in DOMAIN nodes : \A k \in DOMAIN nodes[n].kids : nodes[n].kids[k] \in 1 .. N
  BY <1>1, KidsHeld
<1>3. /\ DOMAIN nodes' = 1 .. N + 1 /\ nodes'[N + 1] = node
      /\ \A n \in DOMAIN nodes : nodes'[n] = nodes[n]
  BY <1>1, <1>2, AppendAny
<1>4. r \in [Nat -> Words]
  BY DEF Reads
<1> DEFINE q == [r EXCEPT ![N + 1] = e]
<1>5. q \in [Nat -> Words] /\ q[N + 1] = e /\ \A n \in 1 .. N : q[n] = r[n]
  BY <1>2, <1>4
<1> HIDE DEF q
<1>6. ASSUME NEW kids, \A k \in DOMAIN kids : kids[k] \in 1 .. N
      PROVE  [k \in DOMAIN kids |-> r[kids[k]]] = [k \in DOMAIN kids |-> q[kids[k]]]
  <2>1. \A k \in DOMAIN kids : r[kids[k]] = q[kids[k]]
    BY <1>5, <1>6
  <2> QED
    BY <2>1, SameParts
<1>7. ASSUME NEW n \in DOMAIN nodes' PROVE q[n] = told(nodes'[n], q)
  <2>1. CASE n = N + 1
    <3>1. nodes'[n] = node
      BY <1>3, <2>1
    <3>2. [k \in DOMAIN node.kids |-> r[node.kids[k]]] = [k \in DOMAIN node.kids |-> q[node.kids[k]]]
      BY <1>1, <1>6 DEF Held
    <3> QED
      BY <1>5, <2>1, <3>1, <3>2 DEF told
  <2>2. CASE n # N + 1
    <3>1. n \in DOMAIN nodes /\ n \in 1 .. N
      BY <1>2, <1>3, <2>2
    <3>2. PICK x : x = nodes[n] /\ x = nodes'[n]
      BY <1>3, <3>1
    <3>3. q[n] = saying(x, [k \in DOMAIN x.kids |-> r[x.kids[k]]])
      BY <1>5, <3>1, <3>2 DEF Reads, told
    <3>4. [k \in DOMAIN x.kids |-> r[x.kids[k]]] = [k \in DOMAIN x.kids |-> q[x.kids[k]]]
      BY <1>2, <1>6, <3>1, <3>2
    <3> QED
      BY <3>2, <3>3, <3>4 DEF told
  <2> QED
    BY <2>1, <2>2
<1>8. Reads(q)'
  BY <1>5, <1>7, SameWords DEF Reads
<1> QED
  BY <1>1, <1>5, <1>8 DEF ReadsMore

(***************************************************************************)
(* What each kind of step adds to what the calls and the node returned say.*)
(***************************************************************************)
LEMMA SpokenFacts ==
  ASSUME NEW r \in [Nat -> Words], NEW x \in Frame, FrameOK(x)
  PROVE  /\ <<>> \in Words /\ heading(x) \in Words /\ trailing(x) \in Words
         /\ parts(x.kids, r) \in Words /\ spoken(x, r) \in Words
         /\ x.kids = <<>> => trailing(x) = <<>> /\ spoken(x, r) = heading(x)
<1>1. <<>> \in Names /\ x.name \in Names /\ x.op \in Calculating \cup {NONE} /\ x.kids \in Seq(Nat)
  BY DEF Names, Frame
<1>2. \A t \in Items : <<t>> \in Words
  BY DEF Words
<1>3. <<>> \in Words
  BY DEF Words
<1>4. heading(x) \in Words
  <2>1. [type |-> "IDENT", name |-> x.name] \in Items
    BY <1>1 DEF Items
  <2>2. x.fn = "unary" => [type |-> x.op, name |-> <<>>] \in Items
    BY <1>1 DEF FrameOK, Items
  <2> QED
    BY <1>2, <1>3, <2>1, <2>2 DEF heading
<1>5. trailing(x) \in Words
  <2>1. x.op # NONE => [type |-> x.op, name |-> <<>>] \in Items
    BY <1>1 DEF Items
  <2> QED
    BY <1>2, <1>3, <2>1 DEF trailing
<1>6. parts(x.kids, r) \in Words /\ (x.kids = <<>> => parts(x.kids, r) = <<>>)
  BY <1>1, PartsSay
<1>7. spoken(x, r) \in Words
  <2>1. parts(x.kids, r) \o trailing(x) \in Words
    BY <1>5, <1>6, Joined DEF Words
  <2> QED
    BY <1>4, <2>1, Joined DEF Words, spoken
<1>8. ASSUME x.kids = <<>> PROVE trailing(x) = <<>> /\ spoken(x, r) = heading(x)
  <2>1. Len(x.kids) = 0
    BY <1>8
  <2>2. trailing(x) = <<>>
    BY <2>1 DEF FrameOK, trailing
  <2>3. <<>> \o <<>> = <<>> /\ heading(x) \o <<>> = heading(x)
    BY <1>3, <1>4, Joined DEF Words
  <2> QED
    BY <1>6, <1>8, <2>2, <2>3 DEF spoken
<1> QED
  BY <1>3, <1>4, <1>5, <1>6, <1>7, <1>8

LEMMA SameSpoken ==
  ASSUME NEW r, NEW q, NEW x, \A k \in DOMAIN x.kids : r[x.kids[k]] = q[x.kids[k]]
  PROVE  spoken(x, r) = spoken(x, q)
BY SameParts DEF spoken

\* The first of the calls fs says e, the others nothing.
Opens(fs, e) ==
  /\ e \in Words /\ (fs = <<>> => e = <<>>)
  /\ \A i \in DOMAIN fs : heading(fs[i]) = IF i = 1 THEN e ELSE <<>>

Adds(e, r, w) ==
  \E q, v : /\ Reads(q)' /\ Speaks(v, q)'
            /\ (v[Len(frames)] \o Returned(q))' = (w[Len(frames)] \o Returned(r)) \o e

LEMMA EnterAdds ==
  ASSUME Inv, UNCHANGED tokens, NEW r, NEW w, Reads(r), Speaks(w, r), ret = 0,
         NEW fs, Fresh(fs), NEW p, Enter(fs, p), NEW e, Opens(fs, e)
  PROVE  Adds(e, r, w)
<1>1. PICK h, n : h = Len(frames) /\ n = h + Len(fs)
  OBVIOUS
<1>2. /\ h \in Nat /\ DOMAIN frames = 1 .. h /\ frames \in Seq(Frame) /\ r \in [Nat -> Words] /\ w \in [Nat -> Words]
      /\ fs \in Seq(Frame) /\ Len(fs) \in Nat /\ n \in Nat /\ h =< n /\ DOMAIN fs = 1 .. Len(fs)
      /\ (n = h => fs = <<>>)
  <2>1. h \in Nat /\ DOMAIN frames = 1 .. h /\ frames \in Seq(Frame)
    BY <1>1, KidsHeld DEF Inv, Typed
  <2>2. fs \in Seq(Frame) /\ Len(fs) \in Nat /\ DOMAIN fs = 1 .. Len(fs)
    BY DEF Fresh
  <2>3. n \in Nat /\ h =< n /\ (n = h => Len(fs) = 0)
    BY <1>1, <2>1, <2>2
  <2>4. Len(fs) = 0 => fs = <<>>
    BY <2>2, EmptySeq
  <2> QED
    BY <2>1, <2>2, <2>3, <2>4 DEF Reads, Speaks
<1>3. /\ frames' \in Seq(Frame) /\ DOMAIN frames' = 1 .. n /\ Len(frames') = n
      /\ \A i \in 1 .. h : frames'[i] = frames[i]
      /\ \A i \in 1 .. Len(fs) : frames'[h + i] = fs[i]
  <2>1. frames' = frames \o fs
    BY DEF Enter
  <2> QED
    BY <1>1, <1>2, <2>1, Concatenation
<1>4. ASSUME NEW f \in h + 1 .. n PROVE spoken(frames'[f], r) = IF f = h + 1 THEN e ELSE <<>>
  <2>1. PICK i : i = f - h
    OBVIOUS
  <2>2. i \in 1 .. Len(fs) /\ f = h + i /\ (f = h + 1 <=> i = 1)
    BY <1>1, <1>2, <2>1
  <2>3. frames'[f] = fs[i] /\ fs[i] \in Frame /\ FrameOK(fs[i]) /\ fs[i].kids = <<>>
    <3>1. frames'[f] = fs[i]
      BY ONLY <1>3, <2>2
    <3>2. fs \in Seq(Frame) /\ i \in DOMAIN fs
      BY <1>2, <2>2
    <3>3. \A j \in DOMAIN fs : fs[j] \in Frame /\ FrameOK(fs[j]) /\ fs[j].kids = <<>>
      BY <3>2 DEF Fresh
    <3> QED
      BY <3>1, <3>2, <3>3
  <2>4. spoken(fs[i], r) = heading(fs[i])
    BY <1>2, <2>3, SpokenFacts
  <2>5. heading(fs[i]) = IF i = 1 THEN e ELSE <<>>
    BY <1>2, <2>2 DEF Opens
  <2> QED
    BY <2>2, <2>3, <2>4, <2>5
<1>5. \A f \in 1 .. h : spoken(frames'[f], r) = spoken(frames[f], r)
  BY <1>3
<1>6. e \in Words /\ (n = h => e = <<>>)
  BY <1>2 DEF Opens
<1>7. PICK v : Speaks(v, r)' /\ v[n] = w[h] \o e
  <2>1. Replies(r, r, h, h, n, e)
    BY <1>2, <1>3, <1>4, <1>5, <1>6 DEF Replies
  <2> QED
    BY <2>1, SpeakMore
<1>8. Reads(r)'
  BY SameWords DEF Enter, Reads
<1>9. (v[Len(frames)] \o Returned(r))' = (w[Len(frames)] \o Returned(r)) \o e
  <2>1. Returned(r) = <<>> /\ Returned(r)' = <<>>
    BY DEF Returned, Enter
  <2>2. w[h] \in Words /\ w[h] \o e \in Words
    BY <1>2, <1>6, Joined DEF Words
  <2>3. w[h] \o <<>> = w[h] /\ (w[h] \o e) \o <<>> = w[h] \o e
    BY <2>2, Joined DEF Words
  <2> QED
    BY <1>1, <1>3, <1>7, <2>1, <2>3
<1> QED
  BY <1>7, <1>8, <1>9 DEF Adds

Regroups(a, b, c, d) == a \o ((b \o c) \o d) = ((a \o b) \o c) \o d

LEMMA Regrouped ==
  ASSUME NEW T, NEW a \in Seq(T), NEW b \in Seq(T), NEW c \in Seq(T), NEW d \in Seq(T)
  PROVE  Regroups(a, b, c, d)
<1>1. c \o d \in Seq(T) /\ a \o b \in Seq(T)
  BY Joined
<1>2. Groups(b, c, d) /\ Groups(a, b, c \o d) /\ Groups(a \o b, c, d)
  BY <1>1, Grouped
<1> QED
  BY ONLY <1>2, Zenon DEF Groups, Regroups

\* The running call, with what is below it.
LEMMA TopSpoken ==
  ASSUME Inv, phase = "parsing", NEW r, NEW w, Reads(r), Speaks(w, r)
  PROVE  /\ Len(frames) \in Nat \ {0} /\ Len(frames) - 1 \in Nat /\ frames # <<>> /\ frames \in Seq(Frame)
         /\ DOMAIN frames = 1 .. Len(frames)
         /\ Top \in Frame /\ FrameOK(Top) /\ spoken(Top, r) \in Words /\ Top.kids \in Seq(Nat)
         /\ r \in [Nat -> Words] /\ w \in [Nat -> Words]
         /\ w[Len(frames) - 1] \in Words /\ w[Len(frames)] \in Words
         /\ w[Len(frames)] = w[Len(frames) - 1] \o spoken(Top, r)
         /\ Returned(r) \in Words
<1>1. Typed /\ frames # <<>>
  BY DEF Inv, Phases
<1>2. /\ Len(frames) \in Nat \ {0} /\ DOMAIN frames = 1 .. Len(frames) /\ Len(frames) \in DOMAIN frames
      /\ Top \in Frame /\ FrameOK(Top)
  BY <1>1, TopFacts
<1>3. r \in [Nat -> Words] /\ w \in [Nat -> Words]
  BY DEF Reads, Speaks
<1>4. spoken(Top, r) \in Words
  BY <1>2, <1>3, SpokenFacts
<1>5. w[Len(frames)] = w[Len(frames) - 1] \o spoken(Top, r)
  BY <1>2 DEF Speaks, Top
<1>6. Len(frames) - 1 \in Nat
  BY <1>2
<1>7. Returned(r) \in Words
  <2>1. ret \in Nat
    BY <1>1, SeqFacts DEF Typed
  <2>2. <<>> \in Words
    BY DEF Words
  <2> QED
    BY <1>3, <2>1, <2>2 DEF Returned
<1>8. Top.kids \in Seq(Nat) /\ frames \in Seq(Frame)
  BY <1>1, <1>2 DEF Frame, Typed
<1> QED
  BY <1>1, <1>2, <1>3, <1>4, <1>5, <1>6, <1>7, <1>8

LEMMA KeepAdds ==
  ASSUME Inv, phase = "parsing", UNCHANGED tokens, NEW r, NEW w, Reads(r), Speaks(w, r), ret # 0,
         NEW top \in Frame, top.fn = Top.fn, top.name = Top.name, top.kids = Top.kids,
         heading(top) = heading(Top), trailing(Top) = <<>>,
         FrameOK([top EXCEPT !.kids = Append(@, ret)]),
         NEW fs, Fresh(fs), Opens(fs, <<>>), NEW p, Keep(top, fs, p)
  PROVE  Adds(trailing(top), r, w)
<1>1. PICK h, b, n, x, e : /\ h = Len(frames) /\ b = h - 1 /\ n = h + Len(fs) /\ e = trailing(top)
                           /\ x = [top EXCEPT !.kids = Append(@, ret)]
  OBVIOUS
<1>2. /\ h \in Nat \ {0} /\ b \in Nat /\ frames # <<>> /\ frames \in Seq(Frame) /\ DOMAIN frames = 1 .. h
      /\ Top \in Frame /\ FrameOK(Top) /\ spoken(Top, r) \in Words /\ Top.kids \in Seq(Nat)
      /\ r \in [Nat -> Words] /\ w \in [Nat -> Words]
      /\ w[b] \in Words /\ w[h] \in Words /\ w[h] = w[b] \o spoken(Top, r)
  BY <1>1, TopSpoken
<1>3. ret \in Nat /\ r[ret] \in Words /\ Returned(r) = r[ret]
  <2>1. ret \in Nat
    BY KidsHeld
  <2> QED
    BY <1>2, <2>1 DEF Returned
<1>4. /\ x \in Frame /\ FrameOK(x) /\ x.fn = top.fn /\ x.name = top.name /\ x.op = top.op
      /\ x.kids = Append(Top.kids, ret)
  <2>1. Append(Top.kids, ret) \in Seq(Nat)
    BY <1>2, <1>3
  <2> QED
    BY <1>1, <2>1 DEF Frame
<1>5. heading(x) = heading(Top) /\ trailing(x) = e
  BY <1>1, <1>4 DEF heading, trailing
<1>6. /\ fs \in Seq(Frame) /\ Len(fs) \in Nat /\ DOMAIN fs = 1 .. Len(fs)
      /\ n \in Nat /\ b =< h /\ h =< n /\ b =< n /\ n # b /\ b + 1 = h
  <2>1. fs \in Seq(Frame) /\ Len(fs) \in Nat /\ DOMAIN fs = 1 .. Len(fs)
    BY DEF Fresh
  <2> QED
    BY <1>1, <1>2, <2>1
<1>7. /\ frames' \in Seq(Frame) /\ DOMAIN frames' = 1 .. n /\ Len(frames') = n
      /\ \A i \in 1 .. b : frames'[i] = frames[i]
      /\ frames'[h] = x
      /\ \A i \in 1 .. Len(fs) : frames'[h + i] = fs[i]
  <2>1. frames' = Append(SubSeq(frames, 1, Len(frames) - 1), x) \o fs
    BY <1>1 DEF Keep, Below
  <2>2. Replaces(frames', frames, x, fs, Frame)
    BY <1>2, <1>4, <1>6, <2>1, ReplaceAndAdd
  <2> QED
    BY <1>1, <2>2 DEF Replaces
<1>8. spoken(x, r) \in Words /\ e \in Words
  BY <1>2, <1>4, <1>5, SpokenFacts
<1>9. spoken(x, r) = (spoken(Top, r) \o r[ret]) \o e
  <2>1. PICK A, B, C : A = heading(Top) /\ B = parts(Top.kids, r) /\ C = r[ret]
    OBVIOUS
  <2>2. A \in Seq(Items) /\ B \in Seq(Items) /\ C \in Seq(Items) /\ e \in Seq(Items)
    BY <1>2, <1>3, <1>8, <2>1, SpokenFacts DEF Words
  <2>3. spoken(Top, r) = A \o B
    <3>1. B \o <<>> = B
      BY <2>2, Joined
    <3> QED
      BY <2>1, <3>1 DEF spoken
  <2>4. parts(x.kids, r) = B \o C
    BY <1>2, <1>3, <1>4, <2>1, PartsSay
  <2>5. spoken(x, r) = A \o ((B \o C) \o e)
    BY <1>5, <2>1, <2>4 DEF spoken
  <2>6. Regroups(A, B, C, e)
    BY ONLY <2>2, Regrouped
  <2> QED
    BY ONLY <2>1, <2>3, <2>5, <2>6 DEF Regroups
<1>10. ASSUME NEW f \in b + 1 .. n PROVE spoken(frames'[f], r) = IF f = b + 1 THEN spoken(x, r) ELSE <<>>
  <2>1. CASE f = h
    BY <1>6, <1>7, <2>1
  <2>2. CASE f # h
    <3>1. PICK i, m : i = f - h /\ m = Len(fs)
      OBVIOUS
    <3>2. i \in 1 .. Len(fs) /\ f = h + i
      <4>1. f \in h .. n /\ h \in Nat /\ m \in Nat /\ n = h + m
        BY ONLY <1>1, <1>2, <1>6, <3>1, f \in b + 1 .. n
      <4>2. i \in 1 .. m /\ f = h + i
        BY ONLY <2>2, <3>1, <4>1
      <4> QED
        BY <3>1, <4>2
    <3>3. frames'[f] = fs[i] /\ fs[i] \in Frame /\ FrameOK(fs[i]) /\ fs[i].kids = <<>>
      BY <1>6, <1>7, <3>2 DEF Fresh
    <3>4. spoken(fs[i], r) = heading(fs[i])
      BY <1>2, <3>3, SpokenFacts
    <3>5. heading(fs[i]) = <<>>
      BY <1>6, <3>2 DEF Opens
    <3> QED
      BY <1>6, <2>2, <3>3, <3>4, <3>5
  <2> QED
    BY <2>1, <2>2
<1>11. PICK v : Speaks(v, r)' /\ v[n] = w[b] \o spoken(x, r)
  <2>1. Replies(r, r, h, b, n, spoken(x, r))
    BY <1>2, <1>6, <1>7, <1>8, <1>10 DEF Replies
  <2> QED
    BY <2>1, SpeakMore
<1>12. Reads(r)'
  BY SameWords DEF Keep, Reads
<1>13. (v[Len(frames)] \o Returned(r))' = (w[Len(frames)] \o Returned(r)) \o e
  <2>1. Returned(r)' = <<>>
    BY DEF Returned, Keep
  <2>2. PICK W, S, C : W = w[b] /\ S = spoken(Top, r) /\ C = r[ret]
    OBVIOUS
  <2>3. W \in Seq(Items) /\ S \in Seq(Items) /\ C \in Seq(Items) /\ e \in Seq(Items) /\ spoken(x, r) \in Seq(Items)
    BY <1>2, <1>3, <1>8, <2>2 DEF Words
  <2>4. W \o ((S \o C) \o e) = ((W \o S) \o C) \o e
    <3>1. Regroups(W, S, C, e)
      BY ONLY <2>3, Regrouped
    <3> QED
      BY ONLY <3>1 DEF Regroups
  <2>5. v[n] \o <<>> = v[n]
    <3>1. v[n] \in Seq(Items)
      BY <1>11, <2>2, <2>3, Joined
    <3> QED
      BY <3>1, Joined
  <2>6. v[n] = ((W \o S) \o C) \o e
    BY <1>9, <1>11, <2>2, <2>4
  <2>7. w[h] \o Returned(r) = (W \o S) \o C
    BY <1>2, <1>3, <2>2
  <2> QED
    BY <1>1, <1>7, <2>1, <2>5, <2>6, <2>7
<1> QED
  BY <1>1, <1>11, <1>12, <1>13 DEF Adds

\* The running call makes a node, which says what the call and the node returned
\* said, and returns it; calls that say nothing may take its place.
LEMMA BuildAdds ==
  ASSUME Inv, phase = "parsing", UNCHANGED tokens, NEW r, NEW w, Reads(r), Speaks(w, r),
         NEW node, node.kids = Top.kids \o IF ret = 0 THEN <<>> ELSE <<ret>>,
         nodes' = Append(nodes, node), ret' = Len(nodes) + 1,
         told(node, r) = spoken(Top, r) \o Returned(r),
         NEW fs, Fresh(fs), Opens(fs, <<>>), frames' = Below \o fs
  PROVE  Adds(<<>>, r, w)
<1>1. PICK h, b, n, N, m : h = Len(frames) /\ b = h - 1 /\ n = b + m /\ N = Len(nodes) /\ m = Len(fs)
  OBVIOUS
<1>2. /\ h \in Nat \ {0} /\ b \in Nat /\ frames # <<>> /\ frames \in Seq(Frame) /\ DOMAIN frames = 1 .. h
      /\ spoken(Top, r) \in Words /\ Returned(r) \in Words /\ Top.kids \in Seq(Nat)
      /\ r \in [Nat -> Words] /\ w \in [Nat -> Words]
      /\ w[b] \in Words /\ w[h] \in Words /\ w[h] = w[b] \o spoken(Top, r)
  BY <1>1, TopSpoken
<1>3. PICK W, S, R : W = w[b] /\ S = spoken(Top, r) /\ R = Returned(r)
  OBVIOUS
<1>4. W \in Seq(Items) /\ S \in Seq(Items) /\ R \in Seq(Items)
  BY <1>2, <1>3 DEF Words
<1>5. PICK e : e = S \o R
  OBVIOUS
<1>6. e \in Seq(Items) /\ e \in Words /\ W \o e = (W \o S) \o R
  <2>1. e \in Seq(Items)
    BY <1>4, <1>5, Joined
  <2>2. Groups(W, S, R)
    BY <1>4, Grouped
  <2> QED
    BY <1>5, <2>1, <2>2, Zenon DEF Groups, Words
<1>7. /\ N \in Nat /\ ret \in 0 .. N
      /\ \A f \in 1 .. h : \A k \in DOMAIN frames[f].kids : frames[f].kids[k] \in 1 .. N
  BY <1>1, <1>2, KidsHeld
<1>8. \A k \in DOMAIN node.kids : node.kids[k] \in 1 .. N
  <2>1. \A k \in DOMAIN Top.kids : Top.kids[k] \in 1 .. N
    BY <1>1, <1>2, <1>7 DEF Top
  <2>2. CASE ret = 0
    <3>1. Top.kids \o <<>> = Top.kids
      BY <1>2
    <3>2. node.kids = Top.kids
      BY <2>2, <3>1
    <3> QED
      BY <2>1, <3>2
  <2>3. CASE ret # 0
    <3>1. ret \in Nat /\ ret \in 1 .. N
      BY <1>7, <2>3
    <3>2. Top.kids \o <<ret>> = Append(Top.kids, ret)
      BY <1>2, <3>1
    <3>3. node.kids = Append(Top.kids, ret)
      BY <2>3, <3>2
    <3>4. \A k \in DOMAIN node.kids : \/ k \in DOMAIN Top.kids /\ node.kids[k] = Top.kids[k]
                                     \/ node.kids[k] = ret
      <4>1. PICK K, A : K = Top.kids /\ A = node.kids
        OBVIOUS
      <4>2. K \in Seq(Nat) /\ A = Append(K, ret)
        BY <1>2, <3>3, <4>1
      <4>3. DOMAIN A = DOMAIN K \cup {Len(K) + 1} /\ A[Len(K) + 1] = ret /\ \A k \in DOMAIN K : A[k] = K[k]
        BY ONLY <3>1, <4>2, AppendFacts
      <4> QED
        BY ONLY <4>1, <4>3
    <3> QED
      BY <2>1, <3>1, <3>4
  <2> QED
    BY <2>2, <2>3
<1>9. PICK q : Reads(q)' /\ q \in [Nat -> Words] /\ q[N + 1] = e /\ \A i \in 1 .. N : q[i] = r[i]
  <2>1. Held(node.kids) /\ told(node, r) = e
    BY <1>1, <1>3, <1>5, <1>8 DEF Held
  <2>2. PICK q : ReadsMore(q, r, e)
    BY <1>6, <2>1, ReadMore
  <2> QED
    BY <1>1, <2>2 DEF ReadsMore
<1>10. /\ fs \in Seq(Frame) /\ m \in Nat /\ DOMAIN fs = 1 .. m
       /\ n \in Nat /\ b =< h /\ b =< n /\ b \in 0 .. h
  BY <1>1, <1>2 DEF Fresh
<1>11. /\ DOMAIN frames' = 1 .. n /\ Len(frames') = n
       /\ \A i \in 1 .. b : frames'[i] = frames[i]
       /\ \A i \in 1 .. m : frames'[b + i] = fs[i]
  <2>1. Follows(frames', frames, fs, Frame)
    BY <1>2, <1>10, DropAndAdd DEF Below
  <2>2. /\ frames' \in Seq(Frame) /\ Len(frames') = h - 1 + m
        /\ \A i \in 1 .. h - 1 : frames'[i] = frames[i]
        /\ \A i \in 1 .. m : frames'[h - 1 + i] = fs[i]
    BY ONLY <1>1, <2>1 DEF Follows
  <2>3. h - 1 = b /\ h - 1 + m = n
    BY ONLY <1>1
  <2> QED
    BY ONLY <2>2, <2>3, <1>10
<1>12. ASSUME NEW f \in 1 .. b PROVE spoken(frames'[f], q) = spoken(frames[f], r)
  <2>1. f \in 1 .. h
    BY ONLY <1>2, <1>10, f \in 1 .. b
  <2>3. frames'[f] = frames[f]
    BY ONLY <1>11, f \in 1 .. b
  <2>4. PICK x : x = frames[f]
    OBVIOUS
  <2>2. \A k \in DOMAIN x.kids : r[x.kids[k]] = q[x.kids[k]]
    BY <1>7, <1>9, <2>1, <2>4
  <2>5. spoken(x, r) = spoken(x, q)
    BY ONLY <2>2, SameSpoken
  <2> QED
    BY <2>3, <2>4, <2>5
<1>13. <<>> \in Words
  BY DEF Words
<1>14. ASSUME NEW f \in b + 1 .. n PROVE spoken(frames'[f], q) = <<>>
  <2>1. PICK i : i = f - b
    OBVIOUS
  <2>2. i \in 1 .. m /\ f = b + i
    BY ONLY <1>1, <1>10, <1>2, <2>1, f \in b + 1 .. n
  <2>3. frames'[f] = fs[i] /\ fs[i] \in Frame /\ FrameOK(fs[i]) /\ fs[i].kids = <<>>
    <3>1. frames'[f] = fs[i]
      BY ONLY <1>11, <2>2
    <3>2. i \in DOMAIN fs
      BY <1>10, <2>2
    <3> QED
      BY <1>10, <3>1, <3>2 DEF Fresh
  <2>4. spoken(fs[i], q) = heading(fs[i])
    BY <1>9, <2>3, SpokenFacts
  <2>5. heading(fs[i]) = <<>>
    BY <1>10, <2>2 DEF Opens
  <2> QED
    BY <2>3, <2>4, <2>5
<1>15. PICK v : Speaks(v, q)' /\ v[n] = w[b] \o <<>>
  <2>1. PICK z : z = <<>>
    OBVIOUS
  <2>2. Replies(r, q, h, b, n, z)
    BY <1>2, <1>10, <1>11, <1>12, <1>13, <1>14, <2>1 DEF Replies
  <2>3. \E v : Speaks(v, q)' /\ v[n] = w[b] \o z
    BY ONLY <2>2, Speaks(w, r), UNCHANGED tokens, SpeakMore
  <2> QED
    BY <2>1, <2>3, Zenon
<1>16. (v[Len(frames)] \o Returned(q))' = (w[Len(frames)] \o Returned(r)) \o <<>>
  <2>1. Returned(q)' = e
    BY <1>1, <1>7, <1>9 DEF Returned
  <2>2. v[n] = W
    BY <1>3, <1>4, <1>15, Joined
  <2>3. w[h] \o Returned(r) = W \o e
    BY <1>2, <1>3, <1>6
  <2>4. (W \o e) \o <<>> = W \o e
    <3>1. W \o e \in Seq(Items)
      BY <1>4, <1>6, Joined
    <3> QED
      BY <3>1, Joined
  <2> QED
    BY <1>1, <1>11, <2>1, <2>2, <2>3, <2>4
<1> QED
  BY <1>9, <1>15, <1>16 DEF Adds

\* A node without parts is returned.
LEMMA LeafAdds ==
  ASSUME Inv, phase = "parsing", ret = 0, UNCHANGED <<tokens, frames>>, NEW r, NEW w, Reads(r), Speaks(w, r),
         NEW node, node.kids = <<>>, nodes' = Append(nodes, node), ret' = Len(nodes) + 1,
         NEW e \in Words, told(node, r) = e
  PROVE  Adds(e, r, w)
<1>1. PICK h, N : h = Len(frames) /\ N = Len(nodes)
  OBVIOUS
<1>2. /\ h \in Nat /\ DOMAIN frames = 1 .. h /\ w[h] \in Words /\ N \in Nat
      /\ \A f \in 1 .. h : \A k \in DOMAIN frames[f].kids : frames[f].kids[k] \in 1 .. N
  BY <1>1, TopSpoken, KidsHeld
<1>3. PICK q : Reads(q)' /\ q \in [Nat -> Words] /\ q[N + 1] = e /\ \A i \in 1 .. N : q[i] = r[i]
  <2>1. Held(node.kids)
    BY DEF Held
  <2>2. PICK q : ReadsMore(q, r, e)
    BY <2>1, ReadMore
  <2> QED
    BY <1>1, <2>2 DEF ReadsMore
<1>4. \A f \in 1 .. h : spoken(frames'[f], q) = spoken(frames[f], r)
  <2> TAKE f \in 1 .. h
  <2>1. \A k \in DOMAIN frames[f].kids : r[frames[f].kids[k]] = q[frames[f].kids[k]]
    BY <1>2, <1>3
  <2> QED
    BY <2>1, SameSpoken
<1>5. <<>> \in Words
  BY DEF Words
<1>6. PICK v : Speaks(v, q)' /\ v[h] = w[h] \o <<>>
  <2>1. PICK z : z = <<>>
    OBVIOUS
  <2>2. Replies(r, q, h, h, h, z)
    BY <1>2, <1>4, <1>5, <2>1 DEF Replies
  <2>3. \E v : Speaks(v, q)' /\ v[h] = w[h] \o z
    BY ONLY <2>2, Speaks(w, r), UNCHANGED tokens, SpeakMore
  <2> QED
    BY <2>1, <2>3
<1>7. (v[Len(frames)] \o Returned(q))' = (w[Len(frames)] \o Returned(r)) \o e
  <2>1. Returned(q)' = e /\ Returned(r) = <<>>
    BY <1>1, <1>2, <1>3 DEF Returned
  <2>2. w[h] \o <<>> = w[h]
    BY <1>2, Joined DEF Words
  <2> QED
    BY <1>1, <1>6, <2>1, <2>2
<1> QED
  BY <1>3, <1>6, <1>7 DEF Adds

\* A call that says nothing returns the node it was given.
LEMMA PassAdds ==
  ASSUME Inv, phase = "parsing", UNCHANGED tokens, NEW r, NEW w, Reads(r), Speaks(w, r),
         Top.kids = <<>>, heading(Top) = <<>>, NEW p, Pass(p)
  PROVE  Adds(<<>>, r, w)
<1>1. PICK h, b : h = Len(frames) /\ b = h - 1
  OBVIOUS
<1>2. /\ h \in Nat \ {0} /\ b \in Nat /\ frames # <<>> /\ frames \in Seq(Frame) /\ DOMAIN frames = 1 .. h
      /\ Top \in Frame /\ FrameOK(Top) /\ Returned(r) \in Words /\ r \in [Nat -> Words]
      /\ w[b] \in Words /\ w[h] = w[b] \o spoken(Top, r)
  BY <1>1, TopSpoken
<1>3. spoken(Top, r) = <<>> /\ <<>> \in Words
  BY <1>2, SpokenFacts
<1>4. w[b] \o <<>> = w[b] /\ w[h] = w[b]
  BY <1>2, <1>3, Joined DEF Words
<1>5. UNCHANGED <<nodes, ret>> /\ frames' = Below
  BY DEF Pass, Return
<1>6. DOMAIN frames' = 1 .. b /\ Len(frames') = b /\ \A i \in 1 .. b : frames'[i] = frames[i]
  BY <1>1, <1>2, <1>5, AllButLast DEF Below
<1>7. PICK v : Speaks(v, r)' /\ v[b] = w[b] \o <<>>
  <2>1. b \in 0 .. h
    BY <1>1, <1>2
  <2>2. PICK z : z = <<>>
    OBVIOUS
  <2>3. Replies(r, r, h, b, b, z)
    BY <1>2, <1>3, <1>6, <2>1, <2>2 DEF Replies
  <2>4. \E v : Speaks(v, r)' /\ v[b] = w[b] \o z
    BY <2>3, SpeakMore
  <2> QED
    BY <2>2, <2>4
<1>8. Reads(r)' /\ Returned(r)' = Returned(r)
  BY <1>5, SameWords DEF Reads, Returned
<1>9. (v[Len(frames)] \o Returned(r))' = (w[Len(frames)] \o Returned(r)) \o <<>>
  <2>1. w[b] \o Returned(r) \in Seq(Items)
    BY <1>2, Joined DEF Words
  <2>2. (w[b] \o Returned(r)) \o <<>> = w[b] \o Returned(r)
    BY <2>1, Joined
  <2> QED
    BY <1>1, <1>4, <1>6, <1>7, <1>8, <2>2
<1> QED
  BY <1>7, <1>8, <1>9 DEF Adds

\* Nothing but the place in the text moves.
LEMMA MoveAdds ==
  ASSUME Inv, phase = "parsing", UNCHANGED <<tokens, nodes, frames, ret>>, NEW r, NEW w, Reads(r), Speaks(w, r)
  PROVE  Adds(<<>>, r, w)
<1>1. w[Len(frames)] \in Words /\ Returned(r) \in Words
  BY TopSpoken
<1>2. Reads(r)' /\ Speaks(w, r)'
  BY SameWords DEF Reads, Speaks
<1>3. (w[Len(frames)] \o Returned(r))' = (w[Len(frames)] \o Returned(r)) \o <<>>
  <2>1. w[Len(frames)] \o Returned(r) \in Seq(Items)
    BY <1>1, Joined DEF Words
  <2>2. (w[Len(frames)] \o Returned(r)) \o <<>> = w[Len(frames)] \o Returned(r)
    BY <2>1, Joined
  <2>3. (w[Len(frames)] \o Returned(r))' = w[Len(frames)] \o Returned(r)
    BY DEF Returned
  <2> QED
    BY <2>2, <2>3
<1> QED
  BY <1>2, <1>3 DEF Adds

(***************************************************************************)
(* What a function makes says what the function said.                      *)
(***************************************************************************)
Item(type, name) == <<[type |-> type, name |-> name]>>

LEMMA ToldFacts ==
  ASSUME NEW node, NEW r
  PROVE  /\ node.type \in {"Program", "Block", "If"} => told(node, r) = parts(node.kids, r)
         /\ node.type \in {"FuncCall", "VarDecl", "VarAssign", "Ident"} =>
              told(node, r) = Item("IDENT", node.name) \o parts(node.kids, r)
         /\ node.type = "IntLiteral" => told(node, r) = Item("NUMBER", <<>>)
         /\ \A x : node.type = "UnaryOp" /\ node.kids = <<x>> =>
              told(node, r) = Item(node.op, <<>>) \o r[x]
         /\ \A x, y : node.type = "BinaryOp" /\ node.kids = <<x, y>> =>
              told(node, r) = r[x] \o Item(node.op, <<>>) \o r[y]
<1>1. PICK said : said = [k \in DOMAIN node.kids |-> r[node.kids[k]]]
  OBVIOUS
<1>2. told(node, r) = saying(node, said) /\ parts(node.kids, r) = FlattenSeq(said)
  BY <1>1 DEF told, parts
<1>3. node.type \in {"Program", "Block", "If"} => saying(node, said) = FlattenSeq(said)
  BY DEF saying
<1>4. node.type \in {"FuncCall", "VarDecl", "VarAssign", "Ident"} =>
        saying(node, said) = Item("IDENT", node.name) \o FlattenSeq(said)
  BY DEF saying, Item
<1>5. node.type = "IntLiteral" => saying(node, said) = Item("NUMBER", <<>>)
  BY DEF saying, Item
<1>6. node.type = "UnaryOp" => saying(node, said) = Item(node.op, <<>>) \o said[1]
  BY DEF saying, Item
<1>7. node.type = "BinaryOp" => saying(node, said) = said[1] \o Item(node.op, <<>>) \o said[2]
  BY DEF saying, Item
<1>8. ASSUME NEW x, node.type = "UnaryOp", node.kids = <<x>>
      PROVE  told(node, r) = Item(node.op, <<>>) \o r[x]
  <2>1. [k \in DOMAIN <<x>> |-> r[<<x>>[k]]][1] = r[x]
    OBVIOUS
  <2>2. said[1] = r[x]
    BY <1>1, <1>8, <2>1
  <2> QED
    BY <1>2, <1>6, <1>8, <2>2
<1>9. ASSUME NEW x, NEW y, node.type = "BinaryOp", node.kids = <<x, y>>
      PROVE  told(node, r) = r[x] \o Item(node.op, <<>>) \o r[y]
  <2>1. /\ [k \in DOMAIN <<x, y>> |-> r[<<x, y>>[k]]][1] = r[x]
        /\ [k \in DOMAIN <<x, y>> |-> r[<<x, y>>[k]]][2] = r[y]
    OBVIOUS
  <2>2. said[1] = r[x] /\ said[2] = r[y]
    BY <1>1, <1>9, <2>1
  <2> QED
    BY <1>2, <1>7, <1>9, <2>2
<1> QED
  BY <1>2, <1>3, <1>4, <1>5, <1>8, <1>9

\* The nodes that each function makes.
MakesOwn(type) ==
  /\ Makes(type)
  /\ type \in {"Program", "Block"} => Top.fn \in {"program", "block"}
  /\ type = "FuncCall" => Top.fn = "call"

LEMMA MadeSays ==
  ASSUME Inv, phase = "parsing", NEW r, NEW w, Reads(r), Speaks(w, r), NEW type, MakesOwn(type),
         NEW node, node = [type |-> type, name |-> Top.name, op |-> Top.op, number |-> 0,
                           kids |-> Top.kids \o IF ret = 0 THEN <<>> ELSE <<ret>>]
  PROVE  told(node, r) = spoken(Top, r) \o Returned(r)
<1>1. PICK T, K, H, R, L, B :
        /\ T = Top /\ K = T.kids /\ H = heading(T) /\ R = Returned(r) /\ L = trailing(T) /\ B = parts(K, r)
  OBVIOUS
<1>2. /\ T \in Frame /\ FrameOK(T) /\ K \in Seq(Nat) /\ r \in [Nat -> Words] /\ R \in Seq(Items)
      /\ H \in Seq(Items) /\ L \in Seq(Items) /\ B \in Seq(Items)
      /\ (K = <<>> => B = <<>>) /\ \A x \in Nat : parts(Append(K, x), r) = B \o r[x]
  <2>1. T \in Frame /\ FrameOK(T) /\ K \in Seq(Nat) /\ r \in [Nat -> Words] /\ R \in Words
    BY <1>1, TopSpoken
  <2>2. H \in Words /\ L \in Words /\ B \in Words
    BY <1>1, <2>1, SpokenFacts
  <2>3. (K = <<>> => B = <<>>) /\ \A x \in Nat : parts(Append(K, x), r) = B \o r[x]
    BY <1>1, <2>1, PartsSay
  <2> QED
    BY <2>1, <2>2, <2>3 DEF Words
<1>3. spoken(T, r) = H \o (B \o L) /\ ret \in Nat
  BY <1>1, KidsHeld DEF spoken
<1>4. /\ node.type = type /\ node.name = T.name /\ node.op = T.op
      /\ node.kids = K \o IF ret = 0 THEN <<>> ELSE <<ret>>
  BY <1>1
<1>5. ret # 0 => node.kids = Append(K, ret) /\ R = r[ret] /\ r[ret] \in Seq(Items)
  <2>1. K \o <<ret>> = Append(K, ret)
    BY <1>2, <1>3
  <2> QED
    BY <1>1, <1>2, <1>3, <1>4, <2>1 DEF Returned, Words
<1>6. parts(node.kids, r) = B \o R
  <2>1. CASE ret = 0
    <3>1. K \o <<>> = K
      BY <1>2
    <3>2. node.kids = K
      BY <1>4, <2>1, <3>1
    <3>3. R = <<>> /\ B \o <<>> = B
      BY <1>1, <1>2, <2>1, Joined DEF Returned
    <3> QED
      BY <1>1, <3>2, <3>3
  <2>2. CASE ret # 0
    BY <1>2, <1>3, <1>5, <2>2
  <2> QED
    BY <2>1, <2>2
<1>7. Makes(type)
  BY DEF MakesOwn
<1>8. CASE type \in {"Program", "Block", "If"}
  <2>1. T.fn \in {"program", "block", "if"}
    BY <1>1, <1>7, <1>8 DEF MakesOwn, Makes
  <2>2. H = <<>> /\ L = <<>>
    BY <1>1, <2>1, LevelFacts DEF heading, trailing
  <2>3. spoken(T, r) = B
    BY <1>2, <1>3, <2>2, Joined
  <2>4. told(node, r) = B \o R
    BY <1>4, <1>6, <1>8, ToldFacts
  <2> QED
    BY <1>1, <2>3, <2>4
<1>9. CASE type \in {"FuncCall", "VarDecl", "VarAssign"}
  <2>1. T.fn \in {"call", "varDecl", "assign"}
    BY <1>1, <1>7, <1>9 DEF MakesOwn, Makes
  <2>2. H = Item("IDENT", T.name) /\ L = <<>>
    BY <1>1, <2>1, LevelFacts DEF heading, trailing, Item
  <2>3. spoken(T, r) = H \o B
    BY <1>2, <1>3, <2>2, Joined
  <2>4. told(node, r) = H \o (B \o R)
    BY <1>4, <1>6, <1>9, <2>2, ToldFacts
  <2>5. (H \o B) \o R = H \o (B \o R)
    <3>1. H \in Seq(Items) /\ B \in Seq(Items) /\ R \in Seq(Items)
      BY <1>2
    <3> QED
      BY ONLY <3>1, Joined
  <2> QED
    BY <1>1, <2>3, <2>4, <2>5
<1>10. CASE type = "UnaryOp"
  <2>1. T.fn = "unary" /\ ret # 0
    BY <1>1, <1>7, <1>10 DEF Makes
  <2>2. K = <<>>
    BY <1>1, <1>2, <2>1 DEF FrameOK
  <2>3. H = Item(T.op, <<>>) /\ L = <<>> /\ B = <<>>
    BY <1>1, <1>2, <2>1, <2>2, LevelFacts DEF heading, trailing, Item
  <2>4. spoken(T, r) = H
    <3>1. <<>> \o <<>> = <<>> /\ H \o <<>> = H
      BY <1>2, Joined
    <3> QED
      BY <1>3, <2>3, <3>1
  <2>5. node.kids = <<ret>>
    BY <1>5, <2>1, <2>2
  <2>6. told(node, r) = H \o R
    <3>1. PICK x : x = ret
      OBVIOUS
    <3>2. node.type = "UnaryOp" /\ node.kids = <<x>>
      BY <1>4, <1>10, <2>5, <3>1
    <3>3. told(node, r) = Item(node.op, <<>>) \o r[x]
      BY ONLY <3>2, ToldFacts
    <3> QED
      BY <1>4, <1>5, <2>1, <2>3, <3>1, <3>3
  <2> QED
    BY <1>1, <2>4, <2>6
<1>11. CASE type = "BinaryOp"
  <2>1. T.fn \in LevelNames /\ T.op # NONE /\ ret # 0
    BY <1>1, <1>7, <1>11 DEF Makes
  <2>2. Len(K) = 1
    BY <1>1, <1>2, <2>1 DEF FrameOK
  <2>3. PICK a : a \in Nat /\ K = <<a>>
    <3>1. PICK a, t : a = K[1] /\ t = <<a>>
      OBVIOUS
    <3>2. a \in Nat /\ t \in Seq(Nat) /\ Len(t) = 1 /\ t[1] = a
      <4>1. K \in Seq(Nat)
        BY <1>2
      <4>2. a \in Nat
        BY ONLY <2>2, <3>1, <4>1
      <4> QED
        BY ONLY <3>1, <4>2
    <3>3. \A k \in 1 .. 1 : K[k] = t[k]
      BY <3>1, <3>2
    <3>4. K = t
      BY <1>2, <2>2, <3>2, <3>3, SeqEqual
    <3> QED
      BY <3>1, <3>2, <3>4
  <2>4. H = <<>> /\ L = Item(T.op, <<>>)
    BY <1>1, <2>1, LevelFacts DEF heading, trailing, Item
  <2>5. B = r[a] /\ r[a] \in Seq(Items)
    <3>1. parts(<<>>, r) = <<>> /\ parts(Append(<<>>, a), r) = parts(<<>>, r) \o r[a]
      <4>1. PICK z : z = <<>>
        OBVIOUS
      <4>2. z \in Seq(Nat)
        BY <4>1
      <4>3. parts(z, r) = <<>> /\ parts(Append(z, a), r) = parts(z, r) \o r[a]
        BY <1>2, <2>3, <4>1, <4>2, PartsSay
      <4> QED
        BY <4>1, <4>3
    <3>2. r[a] \in Seq(Items)
      BY <1>2, <2>3 DEF Words
    <3>3. Append(<<>>, a) = <<a>> /\ <<>> \o r[a] = r[a]
      BY <3>2, Joined
    <3> QED
      BY <1>1, <2>3, <3>1, <3>2, <3>3
  <2>6. spoken(T, r) = B \o L
    <3>1. B \o L \in Seq(Items)
      BY <1>2, Joined
    <3>2. <<>> \o (B \o L) = B \o L
      BY <3>1, Joined
    <3> QED
      BY <1>3, <2>4, <3>2
  <2>7. node.kids = <<a, ret>>
    <3>1. Append(<<a>>, ret) = <<a, ret>>
      <4>1. PICK x, s, t : x = ret /\ s = Append(<<a>>, x) /\ t = <<a, x>>
        OBVIOUS
      <4>2. /\ s \in Seq(Nat) /\ Len(s) = 2 /\ s[1] = a /\ s[2] = x
            /\ t \in Seq(Nat) /\ Len(t) = 2 /\ t[1] = a /\ t[2] = x
        BY <1>3, <2>3, <4>1
      <4>3. \A k \in 1 .. 2 : s[k] = t[k]
        BY <4>2
      <4>4. s = t
        BY <4>2, <4>3, SeqEqual
      <4> QED
        BY <4>1, <4>4
    <3> QED
      BY <1>5, <2>1, <2>3, <3>1
  <2>8. told(node, r) = r[a] \o L \o R
    <3>1. PICK x : x = ret
      OBVIOUS
    <3>2. node.type = "BinaryOp" /\ node.kids = <<a, x>>
      BY <1>4, <1>11, <2>7, <3>1
    <3>3. told(node, r) = r[a] \o Item(node.op, <<>>) \o r[x]
      <4>1. \A y, z : node.type = "BinaryOp" /\ node.kids = <<y, z>> =>
                told(node, r) = r[y] \o Item(node.op, <<>>) \o r[z]
        BY ONLY ToldFacts, Zenon
      <4> QED
        BY ONLY <3>2, <4>1, Zenon
    <3> QED
      <4>1. node.op = T.op /\ L = Item(T.op, <<>>) /\ R = r[x]
        BY <1>4, <1>5, <2>1, <2>4, <3>1
      <4> QED
        BY ONLY <3>3, <4>1, Zenon
  <2> QED
    BY <1>1, <2>5, <2>6, <2>8
<1> QED
  BY <1>7, <1>8, <1>9, <1>10, <1>11 DEF Makes

\* A function that makes a node and returns it, or goes on with calls.
LEMMA MakeAdds ==
  ASSUME Inv, phase = "parsing", UNCHANGED tokens, NEW r, NEW w, Reads(r), Speaks(w, r),
         NEW type, MakesOwn(type), NEW p, Build(type, p),
         NEW fs, Fresh(fs), Opens(fs, <<>>), frames' = Below \o fs
  PROVE  Adds(<<>>, r, w)
<1>1. PICK node : node = [type |-> type, name |-> Top.name, op |-> Top.op, number |-> 0,
                          kids |-> Top.kids \o IF ret = 0 THEN <<>> ELSE <<ret>>]
  OBVIOUS
<1>2. nodes' = Append(nodes, node) /\ ret' = Len(nodes) + 1 /\ node.kids = Top.kids \o IF ret = 0 THEN <<>> ELSE <<ret>>
  BY <1>1 DEF Build, Allocate
<1>3. told(node, r) = spoken(Top, r) \o Returned(r)
  BY <1>1, MadeSays
<1> QED
  BY <1>2, <1>3, BuildAdds

\* The calls that begin.
LEMMA OpensFacts ==
  /\ <<>> \in Words
  /\ Opens(<<>>, <<>>)
  /\ \A fn \in {"block", "if", "paren"} \cup LevelNames : Opens(call(fn), <<>>)
  /\ \A fn \in {"call", "assign", "varDecl"} : \A name \in Names : Opens(callWith(fn, name), Item("IDENT", name))
  /\ \A op \in Calculating : Opens(<<frame("unary", <<>>, op)>>, Item(op, <<>>))
  /\ \A k \in 1 .. 5 : Opens(parseFrom(k), <<>>)
<1>1. <<>> \in Words /\ <<>> \in Names
  BY DEF Words, Names
<1>2. \A x : DOMAIN <<x>> = {1} /\ <<x>>[1] = x /\ <<x>> # <<>>
  OBVIOUS
<1>3. Opens(<<>>, <<>>)
  BY <1>1 DEF Opens
<1>4. ASSUME NEW fn \in {"block", "if", "paren"} \cup LevelNames PROVE Opens(call(fn), <<>>)
  <2>1. heading(frame(fn, <<>>, NONE)) = <<>>
    BY LevelFacts DEF heading, frame
  <2> QED
    BY <1>1, <1>2, <2>1 DEF Opens, call
<1>5. ASSUME NEW fn \in {"call", "assign", "varDecl"}, NEW name \in Names
      PROVE  Opens(callWith(fn, name), Item("IDENT", name))
  <2>1. heading(frame(fn, name, NONE)) = Item("IDENT", name)
    BY DEF heading, frame, Item
  <2>2. Item("IDENT", name) \in Words
    BY DEF Item, Words, Items
  <2> QED
    BY <1>2, <2>1, <2>2 DEF Opens, callWith
<1>6. ASSUME NEW op \in Calculating PROVE Opens(<<frame("unary", <<>>, op)>>, Item(op, <<>>))
  <2>1. heading(frame("unary", <<>>, op)) = Item(op, <<>>)
    BY DEF heading, frame, Item
  <2>2. Item(op, <<>>) \in Words
    BY <1>1 DEF Item, Words, Items
  <2> QED
    BY <1>2, <2>1, <2>2 DEF Opens
<1>7. ASSUME NEW k \in 1 .. 5 PROVE Opens(parseFrom(k), <<>>)
  <2>1. \A j \in 1 .. 5 - k : Levels[k + j - 1] \in LevelNames
    <3>1. \A j \in 1 .. 5 - k : k + j - 1 \in 1 .. 4
      OBVIOUS
    <3> QED
      BY <3>1, LevelFacts
  <2>2. DOMAIN parseFrom(k) = 1 .. 5 - k /\ \A j \in 1 .. 5 - k : parseFrom(k)[j] = frame(Levels[k + j - 1], <<>>, NONE)
    BY DEF parseFrom
  <2>3. \A fn \in LevelNames : heading(frame(fn, <<>>, NONE)) = <<>>
    BY LevelFacts DEF heading, frame
  <2> QED
    BY <1>1, <2>1, <2>2, <2>3 DEF Opens
<1> QED
  BY <1>1, <1>3, <1>4, <1>5, <1>6, <1>7

\* A call before others that say nothing.
LEMMA OpensFirst ==
  ASSUME NEW x \in Frame, NEW e, Opens(<<x>>, e), NEW fs \in Seq(Frame), Opens(fs, <<>>)
  PROVE  Opens(<<x>> \o fs, e)
<1>1. PICK u, m : u = <<x>> \o fs /\ m = Len(fs)
  OBVIOUS
<1>2. <<x>> \in Seq(Frame) /\ Len(<<x>>) = 1 /\ DOMAIN <<x>> = {1} /\ <<x>>[1] = x /\ DOMAIN fs = 1 .. m /\ m \in Nat
  BY <1>1
<1>3. u \in Seq(Frame) /\ Len(u) = 1 + m /\ u[1] = x /\ \A i \in 1 .. m : u[1 + i] = fs[i]
  <2>1. PICK a, n : a = <<x>> /\ n = 1
    OBVIOUS
  <2>2. a \in Seq(Frame) /\ Len(a) = n /\ n \in Nat
    BY <1>2, <2>1
  <2>3. /\ a \o fs \in Seq(Frame) /\ Len(a \o fs) = n + Len(fs)
        /\ \A i \in 1 .. n : (a \o fs)[i] = a[i]
        /\ \A i \in 1 .. Len(fs) : (a \o fs)[n + i] = fs[i]
    BY <2>2, Concatenation
  <2> QED
    BY <1>1, <1>2, <2>1, <2>3
<1>4. heading(x) = e /\ e \in Words /\ \A i \in 1 .. m : heading(fs[i]) = <<>>
  BY <1>2 DEF Opens
<1>5. DOMAIN u = 1 .. 1 + m /\ u # <<>>
  BY <1>2, <1>3
<1>6. ASSUME NEW i \in 1 .. 1 + m PROVE heading(u[i]) = IF i = 1 THEN e ELSE <<>>
  <2>1. CASE i = 1
    BY <1>3, <1>4, <2>1
  <2>2. CASE i # 1
    <3>1. PICK j : j = i - 1
      OBVIOUS
    <3>2. j \in 1 .. m /\ i = 1 + j
      BY <1>2, <2>2, <3>1
    <3> QED
      BY <1>3, <1>4, <2>2, <3>2
  <2> QED
    BY <2>1, <2>2
<1> QED
  BY <1>1, <1>4, <1>5, <1>6 DEF Opens

(***************************************************************************)
(* What the tokens that a step goes over say.                              *)
(***************************************************************************)
Silent ==
  {"VAR", "IF", "ELSE", "EQ", "ARR_RIGHT", "COLON", "COMMA", "SEMICOLON",
   "L_PAREN", "R_PAREN", "L_CURL_BRKT", "R_CURL_BRKT"}

LEMMA SilentFacts ==
  /\ \A t \in Silent : t \notin {"IDENT", "NUMBER"} \cup Calculating /\ t # "END_OF_FILE"
  /\ "IDENT" \notin Calculating /\ "NUMBER" \notin Calculating /\ "END_OF_FILE" \notin Calculating
<1> DEFINE others == Silent \cup {"IDENT", "NUMBER", "END_OF_FILE"}
<1>1. \A t \in others : /\ t \notin Operators[1] /\ t \notin Operators[2]
                        /\ t \notin Operators[3] /\ t \notin Operators[4] /\ t # "NOT"
  BY DEF Operators, Silent
<1>2. DOMAIN Operators = {1, 2, 3, 4}
  BY DEF Operators
<1>3. UNION values(Operators) = Operators[1] \cup Operators[2] \cup Operators[3] \cup Operators[4]
  BY <1>2 DEF values
<1>4. \A t \in others : t \notin Calculating
  BY <1>1, <1>3 DEF Calculating
<1>5. \A t \in Silent : t \notin {"IDENT", "NUMBER"} /\ t # "END_OF_FILE"
  BY DEF Silent
<1> QED
  BY <1>4, <1>5

\* The parser stands somewhere in the tokens, and has skipped some before.
Ready ==
  /\ Typed /\ skipped \subseteq 1 .. pos - 1
  /\ \A i \in DOMAIN tokens : tokens[i].type # "END_OF_FILE"

LEMMA ReadFacts ==
  ASSUME Ready, NEW i, token(i).type # "END_OF_FILE"
  PROVE  /\ i \in 1 .. Len(tokens) /\ i \in Nat /\ i + 1 \in 1 .. Len(tokens) + 1
         /\ tokens[i] = token(i) /\ token(i).content \in Names
         /\ token(i).type \in Silent => ~Telling(tokens[i])
         /\ token(i).type \in {"IDENT", "NUMBER"} \cup Calculating =>
              Telling(tokens[i]) /\ <<read(tokens[i])>> \in Words
         /\ token(i).type = "IDENT" => <<read(tokens[i])>> = Item("IDENT", token(i).content)
         /\ token(i).type \in {"NUMBER"} \cup Calculating => <<read(tokens[i])>> = Item(token(i).type, <<>>)
<1>1. DOMAIN tokens = 1 .. Len(tokens) /\ Len(tokens) \in Nat
  BY SeqFacts DEF Ready, Typed
<1>2. i \in 1 .. Len(tokens) /\ i + 1 \in 1 .. Len(tokens) + 1 /\ token(i).content \in Names
  BY TokenFacts DEF Ready
<1>3. PICK t : t = tokens[i] /\ t = token(i)
  BY <1>1, <1>2 DEF token
<1>4. t.type \in Silent => ~Telling(t)
  BY SilentFacts DEF Telling
<1>5. t.type = "IDENT" => <<read(t)>> = Item("IDENT", t.content)
  BY DEF read, Item
<1>6. t.type \in {"NUMBER"} \cup Calculating => <<read(t)>> = Item(t.type, <<>>)
  BY SilentFacts DEF read, Item
<1>7. ASSUME t.type \in {"IDENT", "NUMBER"} \cup Calculating PROVE Telling(t) /\ <<read(t)>> \in Words
  <2>1. <<>> \in Names /\ t.content \in Names
    BY <1>2, <1>3 DEF Names
  <2>2. read(t) \in Items
    BY <1>7, <2>1 DEF read, Items
  <2> QED
    BY <1>7, <2>2 DEF Telling, Words
<1> QED
  BY <1>1, <1>2, <1>3, <1>4, <1>5, <1>6, <1>7

\* A step from token x to token z, which skips the tokens K and reads token m, if
\* it reads any.
Goes(x, z, K, m, e) ==
  /\ x \in Nat \ {0} /\ x = pos /\ z \in Nat /\ z = pos' /\ x =< z
  /\ skipped' = skipped \cup K /\ K \subseteq x .. z - 1
  /\ e \in Words /\ m \in Nat /\ (m \in x .. z - 1 \/ e = <<>>)
  /\ \A i \in x .. z - 1 :
       /\ i = m => Telling(tokens[i]) /\ i \notin K /\ e = <<read(tokens[i])>>
       /\ i # m => i \in K \/ ~Telling(tokens[i])

LEMMA GoesConsumes ==
  ASSUME Ready, UNCHANGED tokens, NEW x, NEW z, NEW K, NEW m, NEW e, Goes(x, z, K, m, e)
  PROVE  Consumes(e)
<1>1. /\ x \in Nat \ {0} /\ x = pos /\ z \in Nat /\ z = pos' /\ x =< z
      /\ skipped' = skipped \cup K /\ K \subseteq x .. z - 1
      /\ e \in Words /\ m \in Nat /\ (m \in x .. z - 1 \/ e = <<>>)
      /\ \A i \in x .. z - 1 :
           /\ i = m => Telling(tokens[i]) /\ i \notin K /\ e = <<read(tokens[i])>>
           /\ i # m => i \in K \/ ~Telling(tokens[i])
  BY DEF Goes
<1>2. PICK s, u : s = skipped /\ u = skipped' /\ s \subseteq 1 .. x - 1 /\ u = s \cup K
  BY <1>1 DEF Ready
<1>3. x \in Nat \ {0} /\ z \in Nat /\ x =< z /\ K \subseteq x .. z - 1
  BY <1>1
<1>4. /\ \A i \in 1 .. x - 1 : i \in u <=> i \in s
      /\ u \subseteq 1 .. z - 1
      /\ \A i \in x .. z - 1 : i \notin s
  BY ONLY <1>2, <1>3
<1>5. ASSUME NEW i \in x .. z - 1 PROVE says(i)' = IF i = m THEN e ELSE <<>>
  <2>1. i \in skipped' <=> i \in K
    BY <1>2, <1>4
  <2> QED
    BY <1>1, <2>1 DEF says
<1> QED
  BY <1>1, <1>2, <1>4, <1>5 DEF Consumes

LEMMA Stands ==
  ASSUME Ready, UNCHANGED <<tokens, pos, skipped>>
  PROVE  Consumes(<<>>)
<1>1. PICK x, z, K, e : x = pos /\ z = pos' /\ K = {} /\ e = <<>>
  OBVIOUS
<1>2. x = z /\ x \in Nat \ {0}
  BY <1>1, TokenFacts DEF Ready, Typed
<1>3. x .. z - 1 = {} /\ x =< z
  BY ONLY <1>2
<1>4. Goes(x, z, K, 0, e)
  BY <1>1, <1>2, <1>3, OpensFacts DEF Goes
<1> QED
  BY <1>1, <1>4, GoesConsumes

\* One token.
LEMMA GoesOver ==
  ASSUME Ready, UNCHANGED <<tokens, skipped>>, pos' = pos + 1, token(pos).type \in Silent
  PROVE  Consumes(<<>>)
<1>1. PICK x, z, K, e : x = pos /\ z = pos' /\ K = {} /\ e = <<>>
  OBVIOUS
<1>2. x \in Nat \ {0} /\ z = x + 1
  BY <1>1, TokenFacts DEF Ready, Typed
<1>3. x .. z - 1 = {x} /\ x =< z /\ z \in Nat /\ x # 0
  BY ONLY <1>2
<1>4. ~Telling(tokens[x])
  BY <1>1, SilentFacts, ReadFacts
<1>5. Goes(x, z, K, 0, e)
  BY <1>1, <1>2, <1>3, <1>4, OpensFacts DEF Goes
<1> QED
  BY <1>1, <1>5, GoesConsumes

LEMMA GoesReading ==
  ASSUME Ready, UNCHANGED <<tokens, skipped>>, pos' = pos + 1,
         token(pos).type \in {"IDENT", "NUMBER"} \cup Calculating
  PROVE  /\ token(pos).type = "IDENT" => Consumes(Item("IDENT", token(pos).content))
         /\ token(pos).type # "IDENT" => Consumes(Item(token(pos).type, <<>>))
<1>1. PICK x, z, K, e : x = pos /\ z = pos' /\ K = {} /\ e = <<read(tokens[x])>>
  OBVIOUS
<1>2. x \in Nat \ {0} /\ z = x + 1
  BY <1>1, TokenFacts DEF Ready, Typed
<1>3. x .. z - 1 = {x} /\ x =< z /\ z \in Nat /\ x # 0 /\ x \in Nat
  BY ONLY <1>2
<1>4. token(x).type # "END_OF_FILE"
  BY <1>1, SilentFacts
<1>5. /\ Telling(tokens[x]) /\ e \in Words
      /\ token(x).type = "IDENT" => e = Item("IDENT", token(x).content)
      /\ token(x).type # "IDENT" => e = Item(token(x).type, <<>>)
  BY <1>1, <1>4, ReadFacts
<1>6. Goes(x, z, K, x, e)
  BY <1>1, <1>2, <1>3, <1>5 DEF Goes
<1>7. Consumes(e)
  BY <1>6, GoesConsumes
<1> QED
  BY <1>1, <1>5, <1>7

\* Two tokens.
LEMMA GoesOverTwo ==
  ASSUME Ready, UNCHANGED <<tokens, skipped>>, pos' = pos + 2,
         token(pos).type \in Silent, token(pos + 1).type \in Silent
  PROVE  Consumes(<<>>)
<1>1. PICK x, y, z, K, e : x = pos /\ y = x + 1 /\ z = pos' /\ K = {} /\ e = <<>>
  OBVIOUS
<1>2. x \in Nat \ {0} /\ z = x + 2
  BY <1>1, TokenFacts DEF Ready, Typed
<1>3. x .. z - 1 = {x, y} /\ x =< z /\ z \in Nat /\ x # 0 /\ y # 0
  BY ONLY <1>1, <1>2
<1>4. ~Telling(tokens[x]) /\ ~Telling(tokens[y])
  BY <1>1, SilentFacts, ReadFacts
<1>5. Goes(x, z, K, 0, e)
  BY <1>1, <1>2, <1>3, <1>4, OpensFacts DEF Goes
<1> QED
  BY <1>1, <1>5, GoesConsumes

LEMMA GoesReadingTwo ==
  ASSUME Ready, UNCHANGED <<tokens, skipped>>, pos' = pos + 2,
         token(pos).type = "IDENT", token(pos + 1).type \in Silent
  PROVE  Consumes(Item("IDENT", token(pos).content))
<1>1. PICK x, y, z, K, e : x = pos /\ y = x + 1 /\ z = pos' /\ K = {} /\ e = <<read(tokens[x])>>
  OBVIOUS
<1>2. x \in Nat \ {0} /\ z = x + 2
  BY <1>1, TokenFacts DEF Ready, Typed
<1>3. x .. z - 1 = {x, y} /\ x =< z /\ z \in Nat /\ x # y /\ x \in Nat
  BY ONLY <1>1, <1>2
<1>4. ~Telling(tokens[y])
  BY <1>1, SilentFacts, ReadFacts
<1>5. Telling(tokens[x]) /\ e \in Words /\ e = Item("IDENT", token(x).content)
  BY <1>1, ReadFacts
<1>6. Goes(x, z, K, x, e)
  BY <1>1, <1>2, <1>3, <1>4, <1>5 DEF Goes
<1> QED
  BY <1>1, <1>5, <1>6, GoesConsumes

\* A token that is skipped.
LEMMA GoesSkipping ==
  ASSUME Ready, UNCHANGED tokens, pos' = pos + 1, skipped' = skipped \cup {pos}
  PROVE  Consumes(<<>>)
<1>1. PICK x, z, K, e : x = pos /\ z = pos' /\ K = {x} /\ e = <<>>
  OBVIOUS
<1>2. x \in Nat \ {0} /\ z = x + 1
  BY <1>1, TokenFacts DEF Ready, Typed
<1>3. x .. z - 1 = {x} /\ x =< z /\ z \in Nat /\ x # 0
  BY ONLY <1>2
<1>4. Goes(x, z, K, 0, e)
  BY <1>1, <1>2, <1>3, OpensFacts DEF Goes
<1> QED
  BY <1>1, <1>4, GoesConsumes

\* `var name =', with or without a type.
LEMMA GoesDeclaring ==
  ASSUME Ready, UNCHANGED <<tokens, skipped>>, pos' = pos + 3,
         token(pos).type \in Silent, token(pos + 1).type = "IDENT", token(pos + 2).type \in Silent
  PROVE  Consumes(Item("IDENT", token(pos + 1).content))
<1>1. PICK x, y, a, z, K, e :
        x = pos /\ y = x + 1 /\ a = x + 2 /\ z = pos' /\ K = {} /\ e = <<read(tokens[y])>>
  OBVIOUS
<1>2. x \in Nat \ {0} /\ z = x + 3
  BY <1>1, TokenFacts DEF Ready, Typed
<1>3. x .. z - 1 = {x, y, a} /\ x =< z /\ z \in Nat /\ x # y /\ y # a /\ y \in Nat
  BY ONLY <1>1, <1>2
<1>4. ~Telling(tokens[x]) /\ ~Telling(tokens[a])
  BY <1>1, SilentFacts, ReadFacts
<1>5. Telling(tokens[y]) /\ e \in Words /\ e = Item("IDENT", token(y).content)
  BY <1>1, ReadFacts
<1>6. Goes(x, z, K, y, e)
  BY <1>1, <1>2, <1>3, <1>4, <1>5 DEF Goes
<1> QED
  BY <1>1, <1>5, <1>6, GoesConsumes

LEMMA GoesDeclaringTyped ==
  ASSUME Ready, UNCHANGED tokens, pos' = pos + 5, skipped' = skipped \cup {pos + 3},
         token(pos).type \in Silent, token(pos + 1).type = "IDENT",
         token(pos + 2).type \in Silent, token(pos + 4).type \in Silent
  PROVE  Consumes(Item("IDENT", token(pos + 1).content))
<1>1. PICK x, y, a, b, c, z, K, e :
        /\ x = pos /\ y = x + 1 /\ a = x + 2 /\ b = x + 3 /\ c = x + 4 /\ z = pos'
        /\ K = {b} /\ e = <<read(tokens[y])>>
  OBVIOUS
<1>2. x \in Nat \ {0} /\ z = x + 5
  BY <1>1, TokenFacts DEF Ready, Typed
<1>3. /\ x .. z - 1 = {x, y, a, b, c} /\ x =< z /\ z \in Nat /\ y \in Nat
      /\ x # y /\ y # a /\ y # b /\ y # c
  BY ONLY <1>1, <1>2
<1>4. ~Telling(tokens[x]) /\ ~Telling(tokens[a]) /\ ~Telling(tokens[c])
  BY <1>1, SilentFacts, ReadFacts
<1>5. Telling(tokens[y]) /\ e \in Words /\ e = Item("IDENT", token(y).content)
  BY <1>1, ReadFacts
<1>6. skipped' = skipped \cup K
  BY <1>1
<1>7. Goes(x, z, K, y, e)
  BY <1>1, <1>2, <1>3, <1>4, <1>5, <1>6 DEF Goes
<1> QED
  BY <1>1, <1>5, <1>7, GoesConsumes

(***************************************************************************)
(* The steps of the parser.                                                *)
(***************************************************************************)
\* What a step adds is what the tokens it goes over say.
Tells(r, w) == \E e : Adds(e, r, w) /\ Consumes(e)

\* A call that can hold one node more.
LEMMA Grows ==
  ASSUME Inv, phase = "parsing", ret # 0,
         \/ Top.fn \in {"program", "block", "call"}
         \/ Top.fn = "if" /\ (Len(Top.kids) = 0 \/ Len(Top.kids) = 1)
  PROVE  /\ Top \in Frame /\ FrameOK([Top EXCEPT !.kids = Append(@, ret)])
         /\ trailing(Top) = <<>>
<1>1. Top \in Frame /\ FrameOK(Top)
  BY TopFacts DEF Inv, Phases
<1>2. PICK x : x = [Top EXCEPT !.kids = Append(@, ret)]
  OBVIOUS
<1>3. x.fn = Top.fn /\ x.op = Top.op /\ Len(x.kids) = Len(Top.kids) + 1
  BY <1>1, <1>2, OneMore
<1>4. Top.fn = "if" => Len(x.kids) =< 2
  <2>1. \A n : n = 0 \/ n = 1 => n + 1 =< 2
    OBVIOUS
  <2>2. Top.fn = "if" => Len(Top.kids) = 0 \/ Len(Top.kids) = 1
    OBVIOUS
  <2> QED
    BY ONLY <1>3, <2>1, <2>2
<1>5. FrameOK(x)
  BY <1>1, <1>3, <1>4, LevelFacts DEF FrameOK
<1>6. trailing(Top) = <<>>
  BY LevelFacts DEF trailing
<1> QED
  BY <1>1, <1>2, <1>5, <1>6

LEMMA MakeTells ==
  ASSUME Inv, phase = "parsing", UNCHANGED tokens, NEW r, NEW w, Reads(r), Speaks(w, r),
         NEW type, MakesOwn(type), NEW p, Build(type, p), frames' = Below
  PROVE  Adds(<<>>, r, w)
<1>1. frames' = Below \o <<>>
  BY BelowFacts DEF Inv, Phases
<1> QED
  BY <1>1, NoCalls, OpensFacts, MakeAdds

LEMMA KeepTells ==
  ASSUME Inv, phase = "parsing", UNCHANGED tokens, NEW r, NEW w, Reads(r), Speaks(w, r), ret # 0,
         \/ Top.fn \in {"program", "block", "call"}
         \/ Top.fn = "if" /\ (Len(Top.kids) = 0 \/ Len(Top.kids) = 1),
         NEW fs, Fresh(fs), Opens(fs, <<>>), NEW p, Keep(Top, fs, p)
  PROVE  Adds(<<>>, r, w)
<1>1. /\ Top \in Frame /\ FrameOK([Top EXCEPT !.kids = Append(@, ret)])
      /\ trailing(Top) = <<>>
  BY Grows
<1>2. Adds(trailing(Top), r, w)
  BY <1>1, KeepAdds
<1> QED
  BY <1>1, <1>2

\* A function that begins with an expression.
LEMMA BeginsWith ==
  /\ Fresh(parseExpression) /\ Opens(parseExpression, <<>>)
  /\ \A fn \in {"if", "paren"} :
       Fresh(call(fn) \o parseExpression) /\ Opens(call(fn) \o parseExpression, <<>>)
  /\ \A fn \in {"assign", "varDecl"} : \A name \in Names :
       /\ Fresh(callWith(fn, name) \o parseExpression)
       /\ Opens(callWith(fn, name) \o parseExpression, Item("IDENT", name))
<1>1. <<>> \in Names /\ Fresh(parseExpression) /\ Opens(parseExpression, <<>>)
  BY FreshLevels, OpensFacts DEF Names, parseExpression
<1>2. ASSUME NEW x \in Frame, NEW e, Fresh(<<x>>), Opens(<<x>>, e)
      PROVE  Fresh(<<x>> \o parseExpression) /\ Opens(<<x>> \o parseExpression, e)
  BY <1>1, <1>2, FreshPair, OpensFirst DEF Fresh
<1>3. ASSUME NEW fn \in {"if", "paren"}
      PROVE  Fresh(call(fn) \o parseExpression) /\ Opens(call(fn) \o parseExpression, <<>>)
  <2>1. PICK x : x = frame(fn, <<>>, NONE)
    OBVIOUS
  <2>2. Fresh(<<x>>) /\ Opens(<<x>>, <<>>)
    BY <1>1, <2>1, FreshCall, OpensFacts DEF call, Functions
  <2>3. x \in Frame
    BY <1>1, <2>1 DEF frame, Frame, Functions
  <2> QED
    BY <1>2, <2>1, <2>2, <2>3 DEF call
<1>4. ASSUME NEW fn \in {"assign", "varDecl"}, NEW name \in Names
      PROVE  /\ Fresh(callWith(fn, name) \o parseExpression)
             /\ Opens(callWith(fn, name) \o parseExpression, Item("IDENT", name))
  <2>1. PICK x : x = frame(fn, name, NONE)
    OBVIOUS
  <2>2. Fresh(<<x>>) /\ Opens(<<x>>, Item("IDENT", name))
    BY <2>1, FreshCall, OpensFacts DEF callWith, Functions
  <2>3. x \in Frame
    BY <2>1 DEF frame, Frame, Functions
  <2> QED
    BY <1>2, <2>1, <2>2, <2>3 DEF callWith
<1> QED
  BY <1>1, <1>3, <1>4

LEMMA StatementTells ==
  ASSUME Inv, Ready, UNCHANGED tokens, NEW r, NEW w, Reads(r), Speaks(w, r),
         \/ BlockUnfinished \/ BlockDone \/ ProgramDone \/ NestedBlock
         \/ parseIfStmt \/ Skip \/ StatementKept
  PROVE  phase' = "threw" \/ Tells(r, w)
<1>1. <<>> \in Names /\ Fresh(parseExpression) /\ Opens(parseExpression, <<>>)
  BY FreshLevels, OpensFacts DEF Names, parseExpression
<1>2. CASE BlockUnfinished
  BY <1>2 DEF BlockUnfinished, Throw
<1>3. CASE BlockDone
  <2>1. /\ phase = "parsing" /\ Top.fn = "block" /\ Build("Block", pos + 1) /\ frames' = Below
        /\ token(pos).type = "R_CURL_BRKT" /\ pos' = pos + 1 /\ UNCHANGED skipped
    BY <1>3 DEF BlockDone, EndsBlock, Statement, In, is, Return, Build, Allocate
  <2>2. MakesOwn("Block")
    BY <2>1 DEF MakesOwn, Makes
  <2>3. Adds(<<>>, r, w)
    BY <2>1, <2>2, MakeTells
  <2>4. Consumes(<<>>)
    BY <2>1, GoesOver DEF Silent
  <2> QED
    BY <2>3, <2>4 DEF Tells
<1>4. CASE ProgramDone
  <2>1. /\ phase = "parsing" /\ Top.fn = "program" /\ Build("Program", pos) /\ frames' = Below
        /\ pos' = pos /\ UNCHANGED skipped
    BY <1>4 DEF ProgramDone, EndsProgram, Statement, In, Build, Allocate
  <2>2. MakesOwn("Program")
    BY <2>1 DEF MakesOwn, Makes
  <2>3. Adds(<<>>, r, w)
    BY <2>1, <2>2, MakeTells
  <2>4. Consumes(<<>>)
    BY <2>1, Stands
  <2> QED
    BY <2>3, <2>4 DEF Tells
<1>5. CASE NestedBlock
  <2>1. /\ phase = "parsing" /\ ret = 0 /\ token(pos).type = "L_CURL_BRKT"
        /\ Enter(call("block"), pos + 1) /\ pos' = pos + 1 /\ UNCHANGED skipped
    BY <1>5 DEF NestedBlock, Statement, In, is, Call, Enter
  <2>2. Fresh(call("block")) /\ Opens(call("block"), <<>>)
    BY <1>1, FreshCall, OpensFacts DEF call, Functions
  <2>3. Adds(<<>>, r, w)
    BY <2>1, <2>2, EnterAdds
  <2>4. Consumes(<<>>)
    BY <2>1, GoesOver DEF Silent
  <2> QED
    BY <2>3, <2>4 DEF Tells
<1>6. CASE parseIfStmt
  <2>1. CASE Throw
    BY <2>1 DEF Throw
  <2>2. CASE next("L_PAREN") /\ Call(call("if") \o parseExpression, pos + 2)
    <3>1. /\ phase = "parsing" /\ ret = 0 /\ token(pos).type = "IF" /\ token(pos + 1).type = "L_PAREN"
          /\ Enter(call("if") \o parseExpression, pos + 2) /\ pos' = pos + 2 /\ UNCHANGED skipped
      BY <1>6, <2>2 DEF parseIfStmt, Statement, In, is, next, Call, Enter
    <3>2. Fresh(call("if") \o parseExpression) /\ Opens(call("if") \o parseExpression, <<>>)
      BY BeginsWith
    <3>3. Adds(<<>>, r, w)
      BY <3>1, <3>2, EnterAdds
    <3>4. Consumes(<<>>)
      BY <3>1, GoesOverTwo DEF Silent
    <3> QED
      BY <3>3, <3>4 DEF Tells
  <2> QED
    BY <1>6, <2>1, <2>2 DEF parseIfStmt
<1>7. CASE Skip
  <2>1. /\ phase = "parsing" /\ UNCHANGED <<nodes, frames, ret>> /\ skipped' = skipped \cup {pos}
        /\ pos' = IF pos \in DOMAIN tokens THEN pos + 1 ELSE pos
    BY <1>7 DEF Skip, Statement, In
  <2>2. pos \in DOMAIN tokens
    BY <1>7 DEF Skip, Statement, In, EndsInside, EndsProgram, is, token
  <2>3. Adds(<<>>, r, w)
    BY <2>1, MoveAdds
  <2>4. Consumes(<<>>)
    BY <2>1, <2>2, GoesSkipping
  <2> QED
    BY <2>3, <2>4 DEF Tells
<1>8. CASE StatementKept
  <2>1. /\ phase = "parsing" /\ ret # 0 /\ Top.fn \in {"program", "block"} /\ Keep(Top, <<>>, pos)
        /\ pos' = pos /\ UNCHANGED skipped
    BY <1>8 DEF StatementKept, In, Keep
  <2>2. Adds(<<>>, r, w)
    BY <2>1, NoCalls, OpensFacts, KeepTells
  <2>3. Consumes(<<>>)
    BY <2>1, Stands
  <2> QED
    BY <2>2, <2>3 DEF Tells
<1> QED
  BY <1>2, <1>3, <1>4, <1>5, <1>6, <1>7, <1>8

LEMMA VarDeclTells ==
  ASSUME Inv, Ready, UNCHANGED tokens, NEW r, NEW w, Reads(r), Speaks(w, r), parseVarDecl
  PROVE  phase' = "threw" \/ Tells(r, w)
<1>1. PICK typed, x, eq, name :
        /\ typed = (token(pos + 2).type = "ARR_RIGHT") /\ x = pos
        /\ eq = pos + (IF typed THEN 4 ELSE 2)
        /\ name = token(pos + 1).content
  OBVIOUS
<1>2. phase = "parsing" /\ ret = 0 /\ token(pos).type = "VAR" /\ x \in Nat
  BY <1>1, TokenFacts DEF parseVarDecl, Statement, In, is, Ready
<1>3. CASE Throw
  BY <1>3 DEF Throw
<1>4. CASE /\ next("IDENT") /\ token(eq).type = "EQ"
           /\ Enter(callWith("varDecl", name) \o parseExpression, eq + 1)
           /\ skipped' = IF typed THEN skipped \cup {pos + 3} ELSE skipped
  <2>1. token(pos + 1).type = "IDENT" /\ name \in Names
    BY <1>1, <1>4, ReadFacts DEF next
  <2>2. Adds(Item("IDENT", name), r, w)
    BY <1>2, <1>4, <2>1, BeginsWith, EnterAdds
  <2>3. pos' = eq + 1
    BY <1>4 DEF Enter
  <2>4. Consumes(Item("IDENT", name))
    <3>1. CASE typed
      <4>1. eq = x + 4 /\ eq + 1 = x + 5
        BY ONLY <1>1, <1>2, <3>1
      <4>2. pos' = pos + 5 /\ token(pos + 4).type = "EQ" /\ token(pos + 2).type = "ARR_RIGHT"
        BY <1>1, <1>4, <2>3, <3>1, <4>1
      <4>3. Consumes(Item("IDENT", token(pos + 1).content))
        BY <1>2, <1>4, <2>1, <3>1, <4>2, GoesDeclaringTyped DEF Silent
      <4> QED
        BY <1>1, <4>3
    <3>2. CASE ~typed
      <4>1. eq = x + 2 /\ eq + 1 = x + 3
        BY ONLY <1>1, <1>2, <3>2
      <4>2. pos' = pos + 3 /\ token(pos + 2).type = "EQ"
        BY <1>1, <1>4, <2>3, <3>2, <4>1
      <4>3. Consumes(Item("IDENT", token(pos + 1).content))
        BY <1>2, <1>4, <2>1, <3>2, <4>2, GoesDeclaring DEF Silent
      <4> QED
        BY <1>1, <4>3
    <3> QED
      BY <3>1, <3>2
  <2> QED
    BY <2>2, <2>4 DEF Tells
<1> QED
  BY <1>1, <1>3, <1>4 DEF parseVarDecl

LEMMA OperandTells ==
  ASSUME Inv, Ready, UNCHANGED tokens, NEW r, NEW w, Reads(r), Speaks(w, r),
         \/ parseUnary \/ UnaryDone \/ Number \/ Ident \/ Paren \/ NoOperand \/ ParenDone
         \/ AssignDone \/ DeclDone
  PROVE  phase' = "threw" \/ Tells(r, w)
<1>1. <<>> \in Names /\ <<>> \in Words
  BY OpensFacts DEF Names
<1>2. CASE parseUnary
  <2>1. PICK op \in {"MINUS", "NOT"} : is(op) /\ Call(<<frame("unary", <<>>, op)>>, pos + 1)
    BY <1>2 DEF parseUnary
  <2>2. /\ phase = "parsing" /\ ret = 0 /\ token(pos).type = op /\ op \in Calculating
        /\ Enter(<<frame("unary", <<>>, op)>>, pos + 1) /\ pos' = pos + 1 /\ UNCHANGED skipped
    BY <1>2, <2>1, LevelFacts DEF parseUnary, Operand, In, is, Call, Enter
  <2>3. Fresh(<<frame("unary", <<>>, op)>>) /\ Opens(<<frame("unary", <<>>, op)>>, Item(op, <<>>))
    BY <1>1, <2>2, LevelFacts, FreshCall, OpensFacts DEF Functions
  <2>4. Adds(Item(op, <<>>), r, w)
    BY <2>2, <2>3, EnterAdds
  <2>5. Consumes(Item(op, <<>>))
    <3>1. token(pos).type # "IDENT"
      BY <2>1, <2>2
    <3>2. Consumes(Item(token(pos).type, <<>>))
      BY <2>2, <3>1, GoesReading
    <3> QED
      BY <2>2, <3>2
  <2> QED
    BY <2>4, <2>5 DEF Tells
<1>3. CASE UnaryDone
  <2>1. /\ phase = "parsing" /\ Top.fn = "unary" /\ ret # 0 /\ Build("UnaryOp", pos) /\ frames' = Below
        /\ pos' = pos /\ UNCHANGED skipped
    BY <1>3 DEF UnaryDone, In, Return, Build, Allocate
  <2>2. MakesOwn("UnaryOp")
    BY <2>1 DEF MakesOwn, Makes
  <2> QED
    BY <2>1, <2>2, MakeTells, Stands DEF Tells
<1>4. ASSUME NEW type, NEW name, NEW number, NEW e \in Words, Leaf(type, name, number), ret = 0, phase = "parsing",
             \/ type = "Ident" /\ e = Item("IDENT", name)
             \/ type = "IntLiteral" /\ e = Item("NUMBER", <<>>)
      PROVE  Adds(e, r, w)
  <2>1. PICK node : node = [type |-> type, name |-> name, op |-> NONE, number |-> number, kids |-> <<>>]
    OBVIOUS
  <2>2. /\ nodes' = Append(nodes, node) /\ ret' = Len(nodes) + 1 /\ UNCHANGED frames
        /\ node.type = type /\ node.name = name /\ node.kids = <<>>
    BY <1>4, <2>1 DEF Leaf, Allocate
  <2>3. r \in [Nat -> Words]
    BY DEF Reads
  <2>4. parts(node.kids, r) = <<>>
    <3>1. PICK z : z = <<>>
      OBVIOUS
    <3>2. z \in Seq(Nat)
      BY <3>1
    <3> QED
      BY <2>2, <2>3, <3>1, <3>2, PartsSay
  <2>5. e \o <<>> = e
    BY Joined DEF Words
  <2>6. told(node, r) = e
    <3>1. CASE type = "Ident"
      <4>1. told(node, r) = Item("IDENT", name) \o <<>>
        BY <2>2, <2>4, <3>1, ToldFacts
      <4> QED
        BY <1>4, <2>5, <3>1, <4>1
    <3>2. CASE type = "IntLiteral"
      BY <1>4, <2>2, <3>2, ToldFacts
    <3> QED
      BY <1>4, <3>1, <3>2
  <2> QED
    BY <1>4, <2>2, <2>6, LeafAdds
<1>5. CASE Number
  <2>1. CASE Throw
    BY <2>1 DEF Throw
  <2>2. CASE Leaf("IntLiteral", <<>>, value(token(pos).content))
    <3>1. /\ phase = "parsing" /\ ret = 0 /\ token(pos).type = "NUMBER" /\ pos' = pos + 1 /\ UNCHANGED skipped
      BY <1>5, <2>2 DEF Number, Operand, In, is, Leaf, Allocate
    <3>2. PICK e : e = Item("NUMBER", <<>>)
      OBVIOUS
    <3>3. Consumes(e)
      BY <3>1, <3>2, GoesReading
    <3>4. e \in Words
      BY <3>3 DEF Consumes
    <3> QED
      BY <1>4, <2>2, <3>1, <3>2, <3>3, <3>4 DEF Tells
  <2> QED
    BY <1>5, <2>1, <2>2 DEF Number
<1>6. CASE Ident
  <2>1. PICK name : name = token(pos).content
    OBVIOUS
  <2>2. phase = "parsing" /\ ret = 0 /\ token(pos).type = "IDENT" /\ name \in Names
    BY <1>6, <2>1, ReadFacts DEF Ident, Operand, Statement, In, is
  <2>3. CASE next("COLON") /\ Call(callWith("call", name), pos + 2)
    <3>1. /\ token(pos + 1).type = "COLON" /\ Enter(callWith("call", name), pos + 2) /\ pos' = pos + 2
          /\ UNCHANGED skipped
      BY <2>3 DEF next, Call, Enter
    <3>2. Fresh(callWith("call", name)) /\ Opens(callWith("call", name), Item("IDENT", name))
      BY <2>2, FreshCall, OpensFacts DEF callWith, Functions
    <3>3. Adds(Item("IDENT", name), r, w)
      BY <2>2, <3>1, <3>2, EnterAdds
    <3>4. Consumes(Item("IDENT", name))
      BY <2>1, <2>2, <3>1, GoesReadingTwo DEF Silent
    <3> QED
      BY <3>3, <3>4 DEF Tells
  <2>4. CASE next("EQ") /\ Call(callWith("assign", name) \o parseExpression, pos + 2)
    <3>1. /\ token(pos + 1).type = "EQ" /\ Enter(callWith("assign", name) \o parseExpression, pos + 2)
          /\ pos' = pos + 2 /\ UNCHANGED skipped
      BY <2>4 DEF next, Call, Enter
    <3>2. Adds(Item("IDENT", name), r, w)
      BY <2>2, <3>1, BeginsWith, EnterAdds
    <3>3. Consumes(Item("IDENT", name))
      BY <2>1, <2>2, <3>1, GoesReadingTwo DEF Silent
    <3> QED
      BY <3>2, <3>3 DEF Tells
  <2>5. CASE Leaf("Ident", name, 0)
    <3>1. pos' = pos + 1 /\ UNCHANGED skipped
      BY <2>5 DEF Leaf, Allocate
    <3>2. PICK e : e = Item("IDENT", name)
      OBVIOUS
    <3>3. Consumes(e)
      BY <2>1, <2>2, <3>1, <3>2, GoesReading
    <3>4. e \in Words
      BY <3>3 DEF Consumes
    <3> QED
      BY <1>4, <2>2, <2>5, <3>2, <3>3, <3>4 DEF Tells
  <2> QED
    BY <1>6, <2>1, <2>3, <2>4, <2>5 DEF Ident
<1>7. CASE Paren
  <2>1. /\ phase = "parsing" /\ ret = 0 /\ token(pos).type = "L_PAREN" /\ pos' = pos + 1 /\ UNCHANGED skipped
        /\ Enter(call("paren") \o parseExpression, pos + 1)
    BY <1>7 DEF Paren, Operand, In, is, Call, Enter
  <2>2. Adds(<<>>, r, w)
    BY <2>1, BeginsWith, EnterAdds
  <2>3. Consumes(<<>>)
    BY <2>1, GoesOver DEF Silent
  <2> QED
    BY <2>2, <2>3 DEF Tells
<1>8. CASE NoOperand
  BY <1>8 DEF NoOperand, Throw
<1>9. CASE ParenDone
  <2>1. CASE Throw
    BY <2>1 DEF Throw
  <2>2. CASE is("R_PAREN") /\ Pass(pos + 1)
    <3>1. /\ phase = "parsing" /\ Top.fn = "paren" /\ token(pos).type = "R_PAREN" /\ pos' = pos + 1
          /\ UNCHANGED skipped
      BY <1>9, <2>2 DEF ParenDone, In, is, Pass
    <3>2. Top.kids = <<>> /\ heading(Top) = <<>>
      BY <3>1, TopFacts DEF Inv, Phases, FrameOK, heading
    <3>3. Adds(<<>>, r, w)
      BY <2>2, <3>1, <3>2, PassAdds
    <3>4. Consumes(<<>>)
      BY <3>1, GoesOver DEF Silent
    <3> QED
      BY <3>3, <3>4 DEF Tells
  <2> QED
    BY <1>9, <2>1, <2>2 DEF ParenDone
<1>10. CASE AssignDone
  <2>1. /\ phase = "parsing" /\ Top.fn = "assign" /\ ret # 0 /\ Build("VarAssign", pos) /\ frames' = Below
        /\ pos' = pos /\ UNCHANGED skipped
    BY <1>10 DEF AssignDone, In, Return, Build, Allocate
  <2>2. MakesOwn("VarAssign")
    BY <2>1 DEF MakesOwn, Makes
  <2> QED
    BY <2>1, <2>2, MakeTells, Stands DEF Tells
<1>11. CASE DeclDone
  <2>1. /\ phase = "parsing" /\ Top.fn = "varDecl" /\ ret # 0 /\ Build("VarDecl", pos) /\ frames' = Below
        /\ pos' = pos /\ UNCHANGED skipped
    BY <1>11 DEF DeclDone, In, Return, Build, Allocate
  <2>2. MakesOwn("VarDecl")
    BY <2>1 DEF MakesOwn, Makes
  <2> QED
    BY <2>1, <2>2, MakeTells, Stands DEF Tells
<1> QED
  BY <1>2, <1>3, <1>5, <1>6, <1>7, <1>8, <1>9, <1>10, <1>11

LEMMA ArgumentTells ==
  ASSUME Inv, Ready, UNCHANGED tokens, NEW r, NEW w, Reads(r), Speaks(w, r), Argument \/ ArgumentKept
  PROVE  phase' = "threw" \/ Tells(r, w)
<1>1. phase = "parsing" /\ Top.fn = "call"
  BY DEF Argument, ArgumentKept, In
<1>2. CASE Argument
  <2>1. CASE is("SEMICOLON") /\ Build("FuncCall", pos + 1) /\ Return
    <3>1. token(pos).type = "SEMICOLON" /\ frames' = Below /\ pos' = pos + 1 /\ UNCHANGED skipped
      BY <2>1 DEF is, Return, Build, Allocate
    <3>2. MakesOwn("FuncCall")
      BY <1>1 DEF MakesOwn, Makes
    <3>3. Adds(<<>>, r, w)
      BY <1>1, <2>1, <3>1, <3>2, MakeTells
    <3>4. Consumes(<<>>)
      BY <3>1, GoesOver DEF Silent
    <3> QED
      BY <3>3, <3>4 DEF Tells
  <2>2. CASE Call(parseExpression, pos)
    <3>1. ret = 0 /\ Enter(parseExpression, pos) /\ pos' = pos /\ UNCHANGED skipped
      BY <1>2, <2>2 DEF Argument, Call, Enter
    <3>2. Adds(<<>>, r, w)
      BY <1>1, <3>1, BeginsWith, EnterAdds
    <3>3. Consumes(<<>>)
      BY <3>1, Stands
    <3> QED
      BY <3>2, <3>3 DEF Tells
  <2> QED
    BY <1>2, <2>1, <2>2 DEF Argument
<1>3. CASE ArgumentKept
  <2>1. CASE Throw
    BY <2>1 DEF Throw
  <2>2. ret # 0
    BY <1>3 DEF ArgumentKept
  <2>3. CASE is("COMMA") /\ Keep(Top, <<>>, pos + 1)
    <3>1. token(pos).type = "COMMA" /\ pos' = pos + 1 /\ UNCHANGED skipped
      BY <2>3 DEF is, Keep
    <3>2. Adds(<<>>, r, w)
      BY <1>1, <2>2, <2>3, NoCalls, OpensFacts, KeepTells
    <3>3. Consumes(<<>>)
      BY <3>1, GoesOver DEF Silent
    <3> QED
      BY <3>2, <3>3 DEF Tells
  <2>4. CASE Keep(Top, <<>>, pos)
    <3>1. pos' = pos /\ UNCHANGED skipped
      BY <2>4 DEF Keep
    <3>2. Adds(<<>>, r, w)
      BY <1>1, <2>2, <2>4, NoCalls, OpensFacts, KeepTells
    <3>3. Consumes(<<>>)
      BY <3>1, Stands
    <3> QED
      BY <3>2, <3>3 DEF Tells
  <2> QED
    BY <1>3, <2>1, <2>3, <2>4 DEF ArgumentKept
<1> QED
  BY <1>2, <1>3

LEMMA LevelTells ==
  ASSUME Inv, Ready, UNCHANGED tokens, NEW r, NEW w, Reads(r), Speaks(w, r), Operator \/ Combine \/ LevelDone
  PROVE  phase' = "threw" \/ Tells(r, w)
<1>1. phase = "parsing" /\ ret # 0 /\ Top.fn \in LevelNames
  BY LevelFacts DEF Operator, Combine, LevelDone, In
<1>2. Top \in Frame /\ FrameOK(Top)
  BY <1>1, TopFacts DEF Inv, Phases
<1>3. CASE Operator
  <2>1. PICK t, top : t = token(pos).type /\ top = [Top EXCEPT !.op = t]
    OBVIOUS
  <2>2. PICK k \in 1 .. 4 : Top.op = NONE /\ t \in Operators[k] /\ Keep(top, parseFrom(rightOperand(k)), pos + 1)
    BY <1>3, <2>1 DEF Operator
  <2>3. t \in Calculating \ {NONE, "END_OF_FILE"} /\ t # "IDENT"
    BY <2>2, LevelFacts, SilentFacts
  <2>4. top \in Frame /\ top.fn = Top.fn /\ top.name = Top.name /\ top.kids = Top.kids /\ top.op = t
    BY <1>2, <2>1, <2>3 DEF Frame
  <2>5. Fresh(parseFrom(rightOperand(k))) /\ Opens(parseFrom(rightOperand(k)), <<>>)
    BY FreshLevels, OpensFacts DEF rightOperand
  <2>6. FrameOK([top EXCEPT !.kids = Append(@, ret)])
    <3>1. PICK x : x = [top EXCEPT !.kids = Append(@, ret)]
      OBVIOUS
    <3>2. x.fn = Top.fn /\ x.op = t /\ Len(x.kids) = Len(Top.kids) + 1 /\ Len(Top.kids) \in Nat
      BY <1>1, <2>4, <3>1, OneMore
    <3>3. Len(Top.kids) = 0
      BY <1>1, <1>2, <2>2 DEF FrameOK
    <3>4. FrameOK(x)
      BY <1>1, <2>3, <3>2, <3>3, LevelFacts DEF FrameOK
    <3> QED
      BY <3>1, <3>4
  <2>7. heading(top) = heading(Top) /\ trailing(Top) = <<>> /\ trailing(top) = Item(t, <<>>)
    BY <1>1, <2>2, <2>3, <2>4, LevelFacts DEF heading, trailing, Item
  <2>8. Adds(trailing(top), r, w)
    BY <1>1, <2>2, <2>4, <2>5, <2>6, <2>7, KeepAdds
  <2>9. Consumes(Item(t, <<>>))
    <3>1. pos' = pos + 1 /\ UNCHANGED skipped
      BY <2>2 DEF Keep
    <3>2. Consumes(Item(token(pos).type, <<>>))
      BY <2>1, <2>3, <3>1, GoesReading
    <3> QED
      BY <2>1, <3>2
  <2> QED
    BY <2>7, <2>8, <2>9 DEF Tells
<1>4. CASE Combine
  <2>1. PICK k \in 1 .. 4 : /\ Top.op # NONE /\ Build("BinaryOp", pos)
                            /\ frames' = Below \o call(Levels[k])
    BY <1>4 DEF Combine
  <2>2. MakesOwn("BinaryOp")
    BY <1>1, <2>1 DEF MakesOwn, Makes
  <2>3. Fresh(call(Levels[k])) /\ Opens(call(Levels[k]), <<>>)
    <3>1. PICK fn : fn = Levels[k]
      OBVIOUS
    <3>2. fn \in LevelNames
      BY <3>1, LevelFacts
    <3>3. fn \in Functions /\ fn # "program" /\ fn # "unary" /\ <<>> \in Names
      BY <3>2, LevelFacts DEF Functions, Names
    <3>4. Fresh(call(fn))
      BY <3>3, FreshCall DEF call
    <3> QED
      BY <3>1, <3>2, <3>4, OpensFacts
  <2>4. Adds(<<>>, r, w)
    BY <1>1, <2>1, <2>2, <2>3, MakeAdds
  <2>5. Consumes(<<>>)
    <3>1. pos' = pos /\ UNCHANGED skipped
      BY <2>1 DEF Build, Allocate
    <3> QED
      BY <3>1, Stands
  <2> QED
    BY <2>4, <2>5 DEF Tells
<1>5. CASE LevelDone
  <2>1. Top.op = NONE /\ Pass(pos)
    BY <1>5 DEF LevelDone
  <2>2. Top.kids = <<>>
    <3>1. Len(Top.kids) = 0 /\ Top.kids \in Seq(Nat)
      BY <1>1, <1>2, <2>1 DEF FrameOK, Frame
    <3> QED
      BY <3>1, EmptySeq
  <2>3. heading(Top) = <<>>
    BY <1>1, LevelFacts DEF heading
  <2>4. Adds(<<>>, r, w)
    BY <1>1, <2>1, <2>2, <2>3, PassAdds
  <2>5. Consumes(<<>>)
    <3>1. pos' = pos /\ UNCHANGED skipped
      BY <2>1 DEF Pass
    <3> QED
      BY <3>1, Stands
  <2> QED
    BY <2>4, <2>5 DEF Tells
<1> QED
  BY <1>3, <1>4, <1>5

LEMMA IfTells ==
  ASSUME Inv, Ready, UNCHANGED tokens, NEW r, NEW w, Reads(r), Speaks(w, r), IfCondition \/ IfElse \/ IfDone
  PROVE  phase' = "threw" \/ Tells(r, w)
<1>1. phase = "parsing" /\ ret # 0 /\ Top.fn = "if"
  BY DEF IfCondition, IfElse, IfDone, In
<1>2. ASSUME token(pos).type \in {"R_PAREN", "ELSE"}, next("L_CURL_BRKT"), Len(Top.kids) = 0 \/ Len(Top.kids) = 1,
             Keep(Top, call("block"), pos + 2)
      PROVE  Tells(r, w)
  <2>1. Fresh(call("block")) /\ Opens(call("block"), <<>>)
    <3>1. <<>> \in Names
      BY DEF Names
    <3> QED
      BY <3>1, FreshCall, OpensFacts DEF call, Functions
  <2>2. Adds(<<>>, r, w)
    BY <1>1, <1>2, <2>1, KeepTells
  <2>3. Consumes(<<>>)
    <3>1. pos' = pos + 2 /\ UNCHANGED skipped /\ token(pos + 1).type = "L_CURL_BRKT"
      BY <1>2 DEF Keep, next
    <3> QED
      BY <1>2, <3>1, GoesOverTwo DEF Silent
  <2> QED
    BY <2>2, <2>3 DEF Tells
<1>3. CASE Throw
  BY <1>3 DEF Throw
<1>4. CASE IfCondition
  <2>1. Len(Top.kids) = 0
    BY <1>4 DEF IfCondition
  <2> QED
    BY <1>2, <1>3, <1>4, <2>1 DEF IfCondition, is
<1>5. CASE IfElse
  BY <1>2, <1>3, <1>5 DEF IfElse, is
<1>6. CASE IfDone
  <2>1. Build("If", pos) /\ frames' = Below /\ pos' = pos /\ UNCHANGED skipped
    BY <1>6 DEF IfDone, Return, Build, Allocate
  <2>2. MakesOwn("If")
    BY <1>1, <1>6 DEF MakesOwn, Makes, IfDone
  <2> QED
    BY <1>1, <2>1, <2>2, MakeTells, Stands DEF Tells
<1> QED
  BY <1>4, <1>5, <1>6

(***************************************************************************)
(* The whole compiler: everything the parser read, and nothing else, is    *)
(* what the calls in progress and the node returned say.                   *)
(***************************************************************************)

\* Only the parser's step at the end of the text ends the parser.
LEMMA ParseGoesOn ==
  ASSUME Parse
  PROVE  phase = "parsing" /\ (ProgramDone \/ phase' = "parsing" \/ phase' = "threw")
<1>1. BlockUnfinished \/ BlockDone \/ NestedBlock \/ parseVarDecl \/ parseIfStmt \/ Skip \/ StatementKept
      => phase = "parsing" /\ phase' \in {"parsing", "threw"}
  BY DEF BlockUnfinished, BlockDone, NestedBlock, parseVarDecl, parseIfStmt, Skip, StatementKept,
         Statement, In, Throw, Return, Call, Enter, Keep
<1>2. parseUnary \/ UnaryDone \/ Number \/ Ident \/ Paren \/ NoOperand \/ ParenDone
      => phase = "parsing" /\ phase' \in {"parsing", "threw"}
  BY DEF parseUnary, UnaryDone, Number, Ident, Paren, NoOperand, ParenDone,
         Operand, Statement, In, Throw, Return, Call, Enter, Leaf, Pass
<1>3. AssignDone \/ DeclDone \/ Argument \/ ArgumentKept \/ Operator \/ Combine \/ LevelDone
      => phase = "parsing" /\ phase' \in {"parsing", "threw"}
  BY DEF AssignDone, DeclDone, Argument, ArgumentKept, Operator, Combine, LevelDone,
         In, Throw, Return, Call, Enter, Keep, Pass
<1>4. IfCondition \/ IfElse \/ IfDone => phase = "parsing" /\ phase' \in {"parsing", "threw"}
  BY DEF IfCondition, IfElse, IfDone, In, Throw, Return, Call, Enter, Keep
<1>5. ProgramDone => phase = "parsing"
  BY DEF ProgramDone, Statement, In
<1> QED
  BY <1>1, <1>2, <1>3, <1>4, <1>5 DEF Parse

\* It ends after the last token.
LEMMA ProgramEnds ==
  ASSUME Ready, ProgramDone
  PROVE  phase' = "parsed" /\ pos' = pos /\ pos - 1 = Len(tokens)
<1>1. phase' = "parsed" /\ pos' = pos /\ token(pos).type = "END_OF_FILE"
  BY DEF ProgramDone, EndsProgram, is, Build
<1>2. pos \in 1 .. Len(tokens) + 1 /\ DOMAIN tokens = 1 .. Len(tokens) /\ Len(tokens) \in Nat
  BY SeqFacts DEF Ready, Typed
<1>3. pos \notin DOMAIN tokens
  BY <1>1 DEF Ready, token
<1> QED
  BY <1>1, <1>2, <1>3

\* One step of the parser: one more call, node or token, or the end.
LEMMA ParseTells ==
  ASSUME Inv, Ready, UNCHANGED tokens, NEW r, NEW w, Reads(r), Speaks(w, r), Parse
  PROVE  phase' = "threw" \/ Tells(r, w)
BY StatementTells, VarDeclTells, OperandTells, ArgumentTells, LevelTells, IfTells DEF Parse

LEMMA TellStep == ASSUME Inv, Inv', TellInv, Parse, UNCHANGED lexerVars PROVE TellInv'
<1>1. /\ UNCHANGED tokens /\ phase = "parsing"
      /\ ProgramDone \/ phase' = "parsing" \/ phase' = "threw"
  BY ParseGoesOn DEF lexerVars
<1>2. (\A i \in DOMAIN tokens : tokens[i].type # "END_OF_FILE")'
  BY <1>1 DEF TellInv
<1>3. PICK r, w, t : /\ Reads(r) /\ Speaks(w, r) /\ Hears(t, pos - 1)
                     /\ w[Len(frames)] \o Returned(r) = t[pos - 1]
  BY <1>1 DEF TellInv
<1>4. Ready /\ pos \in Nat \ {0}
  <2>1. Typed /\ skipped \subseteq 1 .. pos - 1 /\ \A i \in DOMAIN tokens : tokens[i].type # "END_OF_FILE"
    BY <1>3 DEF Inv, TellInv, Hears
  <2>2. Len(tokens) \in Nat
    BY <2>1, SeqFacts DEF Typed
  <2> QED
    BY <2>1, <2>2 DEF Ready, Typed
<1>5. CASE phase' = "threw"
  BY <1>2, <1>5 DEF TellInv
<1>6. CASE phase' # "threw"
  <2>1. Tells(r, w)
    BY <1>1, <1>3, <1>4, <1>6, ParseTells
  <2>2. PICK e : Adds(e, r, w) /\ Consumes(e)
    BY <2>1 DEF Tells
  <2>3. PICK u : Hears(u, pos - 1)' /\ u[(pos - 1)'] = t[pos - 1] \o e
    BY <1>1, <1>3, <1>4, <2>2, HearMore
  <2>4. PICK q, v : /\ Reads(q)' /\ Speaks(v, q)'
                    /\ (v[Len(frames)] \o Returned(q))' = (w[Len(frames)] \o Returned(r)) \o e
    BY <2>2 DEF Adds
  <2>5. (v[Len(frames)] \o Returned(q) = u[pos - 1])'
    BY <1>3, <2>3, <2>4
  <2>6. CASE phase' = "parsing"
    BY <1>2, <2>3, <2>4, <2>5, <2>6 DEF TellInv
  <2>7. CASE ProgramDone
    <3>1. phase' = "parsed" /\ pos' = pos /\ pos - 1 = Len(tokens)
      BY <1>4, <2>7, ProgramEnds
    <3>2. PICK p : p = pos - 1 /\ p = (pos - 1)' /\ p = Len(tokens)' 
      BY <1>1, <3>1
    <3>3. frames' = <<>> /\ ret' # 0 /\ ret' \in Nat
      <4>1. frames' = <<>> /\ ret' # 0 /\ ret' \in 0 .. Len(nodes') /\ IsSeq(nodes)'
        BY <3>1 DEF Inv, Typed, Phases
      <4>2. Len(nodes') \in Nat
        BY <4>1, SeqFacts DEF IsSeq
      <4> QED
        BY <4>1, <4>2
    <3>4. q[ret'] \in Words' /\ v[0] = <<>>
      BY <2>4, <3>3 DEF Reads, Speaks
    <3>5. Len(frames') = 0 /\ Returned(q)' = q[ret'] /\ <<>> \o q[ret'] = q[ret']
      BY <3>3, <3>4, Joined DEF Returned, Words
    <3>6. q[ret'] = u[p]
      BY <2>5, <3>2, <3>4, <3>5
    <3>7. Hears(u, Len(tokens))'
      BY <2>3, <3>2
    <3> QED
      BY <1>2, <2>4, <3>1, <3>2, <3>6, <3>7 DEF TellInv
  <2> QED
    BY <1>1, <1>6, <2>6, <2>7
<1> QED
  BY <1>5, <1>6

\* A token more, or the parser's first step: nothing is said yet.
LEMMA TellTokens == ASSUME Inv, TellInv, Tokenize, UNCHANGED parserVars PROVE TellInv'
<1>1. /\ Typed /\ phase = "lexing" /\ nodes = <<>> /\ frames = call("program") /\ ret = 0 /\ pos = 1
      /\ skipped = {} /\ \A i \in DOMAIN tokens : tokens[i].type # "END_OF_FILE"
      /\ UNCHANGED <<pos, nodes, frames, ret, skipped>>
  BY DEF Inv, Phases, Tokenize, TellInv, parserVars
<1>2. /\ \A i \in DOMAIN tokens' : tokens'[i].type # "END_OF_FILE"
      /\ phase' \in {"lexing", "parsing"}
  <2>1. PICK t \in nextToken(skipWhiteSpace[at]) :
          IF t.type = "END_OF_FILE"
          THEN phase' = "parsing" /\ UNCHANGED <<tokens, spans>>
          ELSE tokens' = Append(tokens, [type |-> t.type, content |-> t.content]) /\ UNCHANGED phase
    BY DEF Tokenize
  <2>2. CASE t.type = "END_OF_FILE"
    BY <1>1, <2>1, <2>2
  <2>3. CASE t.type # "END_OF_FILE"
    <3>1. PICK tok : tok = [type |-> t.type, content |-> t.content]
      OBVIOUS
    <3>2. tokens' = Append(tokens, tok) /\ tok.type # "END_OF_FILE" /\ phase' = "lexing"
      BY <1>1, <2>1, <2>3, <3>1
    <3>3. IsSeq(tokens)
      BY <1>1 DEF Typed
    <3>4. /\ DOMAIN tokens = 1 .. Len(tokens) /\ DOMAIN tokens' = 1 .. Len(tokens) + 1
          /\ Len(tokens) \in Nat
          /\ \A i \in 1 .. Len(tokens) : tokens'[i] = tokens[i]
          /\ tokens'[Len(tokens) + 1] = tok
      BY <3>2, <3>3, AppendAny, SeqFacts
    <3> QED
      BY <1>1, <3>2, <3>4
  <2> QED
    BY <2>2, <2>3
<1>3. CASE phase' = "lexing"
  BY <1>1, <1>2, <1>3 DEF TellInv
<1>4. CASE phase' = "parsing"
  <2>1. PICK z : z = [n \in Nat |-> <<>>]
    OBVIOUS
  <2>2. z \in [Nat -> Words'] /\ z[0] = <<>> /\ z[1 - 1] = <<>> /\ \A f \in Nat : z[f] = <<>>
    <3>1. <<>> \in Words'
      BY DEF Words
    <3> QED
      BY <2>1, <3>1
  <2>3. Reads(z)'
    BY <1>1, <2>2 DEF Reads
  <2>4. Speaks(z, z)'
    <3>1. Inv'
      BY TokenizeStep
    <3>2. PICK x : x = frame("program", <<>>, NONE)
      OBVIOUS
    <3>3. frames' = <<x>> /\ DOMAIN frames' = {1} /\ frames'[1] = x
      BY <1>1, <3>2 DEF call
    <3>4. x.fn = "program" /\ x.kids = <<>>
      BY <3>2 DEF frame
    <3>5. spoken(x, z) = <<>>
      <4>1. heading(x) = <<>> /\ trailing(x) = <<>>
        BY <3>4, LevelFacts DEF heading, trailing
      <4>2. parts(x.kids, z) = <<>>
        <5>1. PICK s : s = <<>>
          OBVIOUS
        <5>2. s \in Seq(Nat) /\ Len(s) = 0
          BY <5>1
        <5>3. parts(s, z) = <<>>
          BY <5>1, <2>1, FlatEmpty DEF parts
        <5> QED
          BY <3>4, <5>1, <5>3
      <4>3. <<>> \o <<>> = <<>>
        OBVIOUS
      <4> QED
        BY <4>1, <4>2, <4>3 DEF spoken
    <3>6. \A f \in DOMAIN frames' : z[f] = z[f - 1] \o spoken(frames'[f], z)
      <4>1. <<>> \o <<>> = <<>>
        OBVIOUS
      <4> QED
        BY <2>2, <3>3, <3>5, <4>1
    <3> QED
      BY <2>2, <3>6 DEF Speaks
  <2>5. Hears(z, pos - 1)'
    <3>1. pos' - 1 = 0
      BY <1>1
    <3>2. \A i \in 1 .. 0 : FALSE
      OBVIOUS
    <3>3. skipped' = {}
      BY <1>1
    <3> QED
      BY <2>2, <3>1, <3>2, <3>3 DEF Hears
  <2>6. (z[Len(frames)] \o Returned(z) = z[pos - 1])'
    <3>1. Returned(z)' = <<>> /\ z[(pos - 1)'] = <<>> /\ <<>> \o <<>> = <<>>
      BY <1>1, <2>2 DEF Returned
    <3>2. z[Len(frames')] = <<>>
      <4>1. Len(frames') = 1
        BY <1>1 DEF call
      <4> QED
        BY <2>2, <4>1
    <3> QED
      BY <3>1, <3>2
  <2> QED
    BY <1>2, <1>4, <2>3, <2>4, <2>5, <2>6 DEF TellInv
<1> QED
  BY <1>2, <1>3, <1>4

\* After the parser nothing more is said.
LEMMA TellStays ==
  ASSUME TellInv, UNCHANGED tokens,
         phase' \in {"printed", "freed"} \/ UNCHANGED <<phase, nodes, frames, ret, pos, skipped>>
  PROVE  TellInv'
<1>1. (\A i \in DOMAIN tokens : tokens[i].type # "END_OF_FILE")'
  BY DEF TellInv
<1>2. CASE phase' \in {"printed", "freed"}
  BY <1>1, <1>2 DEF TellInv
<1>3. CASE UNCHANGED <<phase, nodes, frames, ret, pos, skipped>>
  <2>1. /\ \A r : Reads(r) => Reads(r)'
        /\ \A w, r : Speaks(w, r) => Speaks(w, r)'
        /\ \A t, p : Hears(t, p) => Hears(t, p)'
        /\ \A r : Returned(r) = Returned(r)'
    BY <1>3, SameWords DEF Reads, Speaks, Hears, Returned, says
  <2>2. phase = "lexing" => skipped = {}
    BY DEF TellInv
  <2>3. ASSUME phase = "parsing"
        PROVE  (\E r, w, t : /\ Reads(r) /\ Speaks(w, r) /\ Hears(t, pos - 1)
                             /\ w[Len(frames)] \o Returned(r) = t[pos - 1])'
    <3>1. PICK r, w, t : /\ Reads(r) /\ Speaks(w, r) /\ Hears(t, pos - 1)
                         /\ w[Len(frames)] \o Returned(r) = t[pos - 1]
      BY <2>3 DEF TellInv
    <3>2. Reads(r)' /\ Speaks(w, r)' /\ Hears(t, pos - 1)' /\ Returned(r)' = Returned(r)
      BY <1>3, <2>1, <3>1
    <3> QED
      BY <1>3, <3>1, <3>2
  <2>4. ASSUME phase = "parsed"
        PROVE  (\E r, t : Reads(r) /\ Hears(t, Len(tokens)) /\ r[ret] = t[Len(tokens)])'
    <3>1. PICK r, t : Reads(r) /\ Hears(t, Len(tokens)) /\ r[ret] = t[Len(tokens)]
      BY <2>4 DEF TellInv
    <3> QED
      BY <1>3, <2>1, <3>1
  <2> QED
    BY <1>1, <1>3, <2>2, <2>3, <2>4 DEF TellInv
<1> QED
  BY <1>2, <1>3

LEMMA TellNext == ASSUME Inv, TellInv, [CompilerNext]_compilerVars PROVE TellInv'
<1>1. Inv'
  BY NextInv
<1>2. CASE Tokenize /\ UNCHANGED <<parserVars, out>>
  BY <1>2, TellTokens
<1>3. CASE Parse /\ UNCHANGED <<lexerVars, out>>
  BY <1>1, <1>3, TellStep
<1>4. CASE printAST
  BY <1>4, TellStays DEF printAST, lexerVars
<1>5. CASE freeMemory
  BY <1>5, TellStays DEF freeMemory, lexerVars
<1>6. CASE UNCHANGED compilerVars
  BY <1>6, TellStays DEF compilerVars, lexerVars, parserVars
<1> QED
  BY <1>2, <1>3, <1>4, <1>5, <1>6 DEF CompilerNext

LEMMA TellAlways == CompilerSpec => [](Inv /\ TellInv)
<1>1. CompilerInit => Inv /\ TellInv
  <2> SUFFICES ASSUME CompilerInit PROVE Inv /\ TellInv
    OBVIOUS
  <2>1. tokens = <<>> /\ skipped = {} /\ phase = "lexing"
    BY DEF CompilerInit, LexerInit, ParserInit
  <2>2. TellInv
    BY <2>1 DEF TellInv
  <2> QED
    BY <2>2, InitInv
<1>2. (Inv /\ TellInv) /\ [CompilerNext]_compilerVars => (Inv /\ TellInv)'
  BY NextInv, TellNext
<1> QED
  BY <1>1, <1>2, PTL DEF CompilerSpec

(***************************************************************************)
(* The tree that is returned.                                              *)
(***************************************************************************)
\* The recursion of reading.
Readings(F) == F = [n \in DOMAIN nodes |-> told(nodes[n], F)]

\* There is one such function, because parts come first: what the nodes say is reading.
LEMMA ReadingsAgree ==
  ASSUME Inv, NEW F, Readings(F), NEW r, Reads(r)
  PROVE  \A n \in DOMAIN nodes : F[n] = r[n]
<1>1. /\ DOMAIN nodes = 1 .. Len(nodes) /\ Len(nodes) \in Nat
      /\ \A n \in DOMAIN nodes : \A k \in DOMAIN nodes[n].kids : nodes[n].kids[k] \in 1 .. n - 1
  <2>1. Owned(Parts, Len(nodes), Locals, ret) /\ Len(nodes) \in Nat /\ DOMAIN nodes = 1 .. Len(nodes)
    BY KidsHeld DEF Inv
  <2>2. ASSUME NEW n \in DOMAIN nodes, NEW k \in DOMAIN nodes[n].kids PROVE nodes[n].kids[k] \in 1 .. n - 1
    <3>1. n \in Nat /\ Parts[n] = nodes[n].kids
      BY <2>1 DEF Parts
    <3> QED
      BY <2>1, <2>2, <3>1 DEF Owned
  <2> QED
    BY <2>1, <2>2
<1> DEFINE S == {m \in Nat : \A n \in 1 .. Len(nodes) : n =< m => F[n] = r[n]}
<1>2. 0 \in S
  BY <1>1
<1>3. ASSUME NEW m \in Nat, m \in S PROVE m + 1 \in S
  <2> SUFFICES ASSUME NEW n \in 1 .. Len(nodes), n =< m + 1 PROVE F[n] = r[n]
    OBVIOUS
  <2>1. PICK node : node = nodes[n]
    OBVIOUS
  <2>2. F[n] = told(node, F) /\ r[n] = told(node, r)
    BY <1>1, <2>1 DEF Readings, Reads
  <2>3. \A k \in DOMAIN node.kids : F[node.kids[k]] = r[node.kids[k]]
    <3> TAKE k \in DOMAIN node.kids
    <3>1. PICK i : i = node.kids[k]
      OBVIOUS
    <3>2. i \in 1 .. n - 1
      BY <1>1, <2>1, <3>1
    <3>3. i \in 1 .. Len(nodes) /\ i =< m
      BY <1>1, <3>2
    <3> QED
      BY <1>3, <3>1, <3>3
  <2>4. [k \in DOMAIN node.kids |-> F[node.kids[k]]] = [k \in DOMAIN node.kids |-> r[node.kids[k]]]
    BY <2>3, SameParts
  <2> QED
    BY <2>2, <2>4 DEF told
<1> HIDE DEF S
<1>4. \A m \in Nat : m \in S
  BY <1>2, <1>3, Induction
<1>5. \A n \in 1 .. Len(nodes) : F[n] = r[n]
  BY <1>1, <1>4 DEF S
<1> QED
  BY <1>1, <1>5

LEMMA ReadingIs ==
  ASSUME Inv, NEW r, Reads(r)
  PROVE  \A n \in DOMAIN nodes : reading[n] = r[n]
<1> DEFINE body(F) == [n \in DOMAIN nodes |-> saying(nodes[n], [k \in DOMAIN nodes[n].kids |-> F[nodes[n].kids[k]]])]
<1>1. ASSUME NEW F PROVE Readings(F) <=> F = body(F)
  BY DEF Readings, told
<1>2. reading = CHOOSE F : F = body(F)
  BY DEF reading
<1> HIDE DEF body
<1>3. PICK F : F = [n \in DOMAIN nodes |-> r[n]]
  OBVIOUS
<1>4. Readings(F)
  <2>1. ASSUME NEW n \in DOMAIN nodes PROVE F[n] = told(nodes[n], F)
    <3>1. PICK node : node = nodes[n]
      OBVIOUS
    <3>2. \A k \in DOMAIN node.kids : node.kids[k] \in DOMAIN nodes
      BY <3>1, KidsHeld
    <3>3. \A k \in DOMAIN node.kids : r[node.kids[k]] = F[node.kids[k]]
      BY <1>3, <3>2
    <3>4. [k \in DOMAIN node.kids |-> r[node.kids[k]]] = [k \in DOMAIN node.kids |-> F[node.kids[k]]]
      BY <3>3, SameParts
    <3>5. F[n] = told(node, r)
      BY <1>3, <3>1 DEF Reads
    <3> QED
      BY <3>1, <3>4, <3>5 DEF told
  <2> QED
    BY <1>3, <2>1 DEF Readings
<1>5. reading = body(reading)
  BY <1>1, <1>2, <1>4
<1>6. Readings(reading)
  BY <1>1, <1>5
<1> QED
  BY <1>6, ReadingsAgree

\* What a token says is a sequence of items.
LEMMA SaysFacts ==
  ASSUME NEW i \in DOMAIN tokens
  PROVE  says(i) \in Words
<1>1. <<>> \in Words /\ <<>> \in Names /\ tokens[i].content \in Names
  BY DEF Words, Names
<1>2. Telling(tokens[i]) => read(tokens[i]) \in Items
  BY <1>1 DEF Telling, read, Items
<1> QED
  BY <1>1, <1>2 DEF says, Words

\* For every text, in the language or not: when the parser returns a program, its
\* tree, read from left to right, says exactly what the tokens say that it did not
\* skip.  No name, number or operator is dropped, said twice or moved by a parse
\* function, whatever the precedences and however deep the calls.
THEOREM CompilerNothingLost == CompilerSpec => []NothingLost
<1>1. Inv /\ TellInv => NothingLost
  <2> SUFFICES ASSUME Inv, TellInv, phase = "parsed"
               PROVE  reading[ret] = FlattenSeq([i \in DOMAIN tokens |-> says(i)])
    BY DEF NothingLost
  <2>1. PICK r, t : Reads(r) /\ Hears(t, Len(tokens)) /\ r[ret] = t[Len(tokens)]
    BY DEF TellInv
  <2>2. ret \in DOMAIN nodes
    <3>1. ret \in 0 .. Len(nodes) /\ ret # 0 /\ DOMAIN nodes = 1 .. Len(nodes) /\ Len(nodes) \in Nat
      BY KidsHeld DEF Inv, Phases
    <3> QED
      BY <3>1
  <2>3. reading[ret] = r[ret]
    BY <2>1, <2>2, ReadingIs
  <2>4. DOMAIN tokens = 1 .. Len(tokens) /\ Len(tokens) \in Nat
    BY SeqFacts DEF Inv, Typed
  <2>5. PICK s : s = [i \in DOMAIN tokens |-> says(i)]
    OBVIOUS
  <2>6. s \in Seq(Words) /\ Len(s) = Len(tokens)
    <3>1. \A i \in DOMAIN tokens : says(i) \in Words
      BY SaysFacts
    <3> QED
      BY <2>4, <2>5, <3>1
  <2>7. t \in [Nat -> Words] /\ t[0] = <<>> /\ \A i \in 1 .. Len(s) : t[i] = t[i - 1] \o s[i]
    BY <2>1, <2>4, <2>5, <2>6 DEF Hears
  <2>8. FlattenSeq(s) = t[Len(s)]
    <3>1. s \in Seq(Seq(Items)) /\ t \in [Nat -> Seq(Items)]
      BY <2>6, <2>7 DEF Words
    <3> QED
      BY <2>7, <3>1, FlatRun
  <2> QED
    BY <2>1, <2>3, <2>5, <2>6, <2>8
<1> QED
  BY <1>1, TellAlways, PTL

(***************************************************************************)
(* Progress: each step of the parser costs less than it reads.             *)
(***************************************************************************)
HoldsOp == Count(Top.op # NONE)
Returns == Count(ret # 0)

\* The parser's part of Left.
Load(N, p, h, c, e, g) == 11 * (N + 1 - p) + 9 * c + 2 * h + e + g

\* The step that reads n tokens and makes m calls, at most, leaves less.
LEMMA Lighter ==
  ASSUME NEW N \in Nat, NEW p \in 1 .. N + 1, NEW q \in 1 .. N + 1, NEW h \in Nat, NEW k \in Nat,
         NEW c \in 0 .. 1, NEW d \in 0 .. 1, NEW e \in 0 .. 1, NEW f \in 0 .. 1, NEW g \in 0 .. 1, NEW i \in 0 .. 1,
         NEW n \in Nat, NEW m \in Int, q >= p + n, k =< h + m,
         2 * m + 9 * d + f + i < 11 * n + 9 * c + e + g
  PROVE  /\ Load(N, q, k, d, f, i) \in Nat /\ Load(N, p, h, c, e, g) \in Nat
         /\ Load(N, q, k, d, f, i) < Load(N, p, h, c, e, g)
BY DEF Load

\* A step that reads n tokens and makes m calls.
Costs(n, m) ==
  /\ pos' >= pos + n /\ Len(frames') =< Len(frames) + m
  /\ 2 * m + 9 * Count(Asks)' + HoldsOp' + Returns' < 11 * n + 9 * Count(Asks) + HoldsOp + Returns

LEMMA CountFacts == \A c \in BOOLEAN : Count(c) \in 0 .. 1 /\ (Count(c) = 1 <=> c) /\ (Count(c) = 0 <=> ~c)
BY DEF Count

LEMMA CostsLess ==
  ASSUME Inv, Inv', UNCHANGED tokens, phase = "parsing", phase' = "parsing",
         NEW n \in Nat, NEW m \in Int, Costs(n, m)
  PROVE  Left' \in Nat /\ Left' < Left
<1>1. PICK N, p, q, h, k, c, d, e, f, g, i :
        /\ N = Len(tokens) /\ p = pos /\ q = pos' /\ h = Len(frames) /\ k = Len(frames')
        /\ c = Count(Asks) /\ d = Count(Asks)' /\ e = HoldsOp /\ f = HoldsOp' /\ g = Returns /\ i = Returns'
  OBVIOUS
<1>2. N \in Nat /\ p \in 1 .. N + 1 /\ q \in 1 .. N + 1 /\ h \in Nat /\ k \in Nat
  <2>1. N \in Nat /\ p \in 1 .. N + 1 /\ h \in Nat
    BY <1>1, SeqFacts, KidsHeld DEF Inv, Typed
  <2>2. q \in 1 .. N + 1
    BY <1>1 DEF Inv, Typed
  <2>3. k \in Nat
    BY <1>1 DEF Inv, Typed
  <2> QED
    BY <2>1, <2>2, <2>3
<1>3. /\ c \in 0 .. 1 /\ d \in 0 .. 1 /\ e \in 0 .. 1 /\ f \in 0 .. 1 /\ g \in 0 .. 1 /\ i \in 0 .. 1
  BY <1>1 DEF Count, HoldsOp, Returns
<1>4. q >= p + n /\ k =< h + m /\ 2 * m + 9 * d + f + i < 11 * n + 9 * c + e + g
  BY <1>1 DEF Costs
<1>5. /\ Load(N, q, k, d, f, i) \in Nat /\ Load(N, p, h, c, e, g) \in Nat
      /\ Load(N, q, k, d, f, i) < Load(N, p, h, c, e, g)
  BY ONLY <1>2, <1>3, <1>4, n \in Nat, m \in Int, Lighter
<1>6. Left = Load(N, p, h, c, e, g) + 3
  BY <1>1 DEF Left, Load, HoldsOp, Returns
<1>7. Left' = Load(N, q, k, d, f, i) + 3
  BY <1>1 DEF Left, Load, HoldsOp, Returns
<1> QED
  BY ONLY <1>5, <1>6, <1>7

\* The same in terms of what a step found and what it leaves.
Price(n, m, p, q, h, k, c, d, e, f, g, i) ==
  q >= p + n /\ k =< h + m /\ 2 * m + 9 * d + f + i < 11 * n + 9 * c + e + g

\* A step that costs less than it reads.
Cheap == \E n \in Nat, m \in Int : Costs(n, m)

Counted(p, q, h, k, c, d, e, f, g, i) ==
  /\ p \in Nat /\ q \in Nat /\ h \in Nat /\ k \in Nat
  /\ p = pos /\ q = pos' /\ h = Len(frames) /\ k = Len(frames')
  /\ c \in 0 .. 1 /\ (c = 0 <=> ~Asks) /\ d \in 0 .. 1 /\ (d = 0 <=> ~Asks')
  /\ e \in 0 .. 1 /\ (e = 0 <=> Top.op = NONE) /\ f \in 0 .. 1 /\ (f = 0 <=> Top'.op = NONE)
  /\ g \in 0 .. 1 /\ (g = 0 <=> ret = 0) /\ i \in 0 .. 1 /\ (i = 0 <=> ret' = 0)
  /\ \A n \in Nat, m \in Int : Price(n, m, p, q, h, k, c, d, e, f, g, i) => Cheap

LEMMA CostFacts ==
  ASSUME Inv, Inv'
  PROVE  \E p, q, h, k, c, d, e, f, g, i : Counted(p, q, h, k, c, d, e, f, g, i)
<1>1. PICK p, q, h, k, c, d, e, f, g, i :
        /\ p = pos /\ q = pos' /\ h = Len(frames) /\ k = Len(frames')
        /\ c = Count(Asks) /\ d = Count(Asks)' /\ e = HoldsOp /\ f = HoldsOp' /\ g = Returns /\ i = Returns'
  OBVIOUS
<1>2. p \in Nat /\ q \in Nat /\ h \in Nat /\ k \in Nat
  <2>1. p \in Nat /\ h \in Nat
    BY <1>1, TokenFacts, KidsHeld DEF Inv
  <2>2. q \in Nat /\ k \in Nat
    <3>1. q \in 1 .. Len(tokens') + 1
      BY <1>1 DEF Inv, Typed
    <3>2. k \in Nat
      BY <1>1 DEF Inv, Typed
    <3> QED
      BY <3>1, <3>2
  <2> QED
    BY <2>1, <2>2
<1>3. /\ c \in 0 .. 1 /\ (c = 0 <=> ~Asks) /\ d \in 0 .. 1 /\ (d = 0 <=> ~Asks')
      /\ e \in 0 .. 1 /\ (e = 0 <=> Top.op = NONE) /\ f \in 0 .. 1 /\ (f = 0 <=> Top'.op = NONE)
      /\ g \in 0 .. 1 /\ (g = 0 <=> ret = 0) /\ i \in 0 .. 1 /\ (i = 0 <=> ret' = 0)
  BY <1>1 DEF Count, HoldsOp, Returns
<1>4. ASSUME NEW n \in Nat, NEW m \in Int, Price(n, m, p, q, h, k, c, d, e, f, g, i) PROVE Cheap
  <2>1. Costs(n, m)
    BY <1>1, <1>4 DEF Costs, Price
  <2> QED
    BY <2>1 DEF Cheap
<1>5. Counted(p, q, h, k, c, d, e, f, g, i)
  BY <1>1, <1>2, <1>3, <1>4 DEF Counted
<1> QED
  BY <1>5

\* Steps that read on.
LEMMA OneRead ==
  ASSUME Inv, Inv', pos' >= pos + 1, Len(frames') =< Len(frames) + 3, ~Asks'
  PROVE  Cheap
<1>0. PICK p, q, h, k, c, d, e, f, g, i : Counted(p, q, h, k, c, d, e, f, g, i)
  BY CostFacts
<1>t. /\ p \in Nat /\ q \in Nat /\ h \in Nat /\ k \in Nat
      /\ c \in 0 .. 1 /\ d \in 0 .. 1 /\ e \in 0 .. 1 /\ f \in 0 .. 1 /\ g \in 0 .. 1 /\ i \in 0 .. 1
  BY <1>0 DEF Counted
<1>1. /\ p = pos /\ q = pos' /\ h = Len(frames) /\ k = Len(frames') /\ (d = 0 <=> ~Asks')
      /\ \A n \in Nat, m \in Int :
           Price(n, m, p, q, h, k, c, d, e, f, g, i) => Cheap
  BY <1>0 DEF Counted
<1>2. q >= p + 1 /\ k =< h + 3 /\ d = 0
  BY <1>1, <1>t
<1>3. Price(1, 3, p, q, h, k, c, d, e, f, g, i)
  BY ONLY <1>t, <1>2 DEF Price
<1> QED
  BY <1>1, <1>2, <1>3

LEMMA TwoRead ==
  ASSUME Inv, Inv', pos' >= pos + 2, Len(frames') =< Len(frames) + 5
  PROVE  Cheap
<1>0. PICK p, q, h, k, c, d, e, f, g, i : Counted(p, q, h, k, c, d, e, f, g, i)
  BY CostFacts
<1>t. /\ p \in Nat /\ q \in Nat /\ h \in Nat /\ k \in Nat
      /\ c \in 0 .. 1 /\ d \in 0 .. 1 /\ e \in 0 .. 1 /\ f \in 0 .. 1 /\ g \in 0 .. 1 /\ i \in 0 .. 1
  BY <1>0 DEF Counted
<1>1. /\ p = pos /\ q = pos' /\ h = Len(frames) /\ k = Len(frames')
      /\ \A n \in Nat, m \in Int :
           Price(n, m, p, q, h, k, c, d, e, f, g, i) => Cheap
  BY <1>0 DEF Counted
<1>2. q >= p + 2 /\ k =< h + 5
  BY <1>1, <1>t
<1>3. Price(2, 5, p, q, h, k, c, d, e, f, g, i)
  BY ONLY <1>t, <1>2 DEF Price
<1> QED
  BY <1>1, <1>3

\* A parenthesis, and an argument after a comma.
LEMMA ExpressionRead ==
  ASSUME Inv, Inv', pos' >= pos + 1,
         \/ Len(frames') =< Len(frames) + 5 /\ Top'.op = NONE /\ ret' = 0 /\ ~Asks'
         \/ Len(frames') =< Len(frames) + 0 /\ ret' = 0
  PROVE  Cheap
<1>0. PICK p, q, h, k, c, d, e, f, g, i : Counted(p, q, h, k, c, d, e, f, g, i)
  BY CostFacts
<1>t. /\ p \in Nat /\ q \in Nat /\ h \in Nat /\ k \in Nat
      /\ c \in 0 .. 1 /\ d \in 0 .. 1 /\ e \in 0 .. 1 /\ f \in 0 .. 1 /\ g \in 0 .. 1 /\ i \in 0 .. 1
  BY <1>0 DEF Counted
<1>1. /\ p = pos /\ q = pos' /\ h = Len(frames) /\ k = Len(frames') /\ (d = 0 <=> ~Asks')
      /\ (f = 0 <=> Top'.op = NONE) /\ (i = 0 <=> ret' = 0)
      /\ \A n \in Nat, m \in Int :
           Price(n, m, p, q, h, k, c, d, e, f, g, i) => Cheap
  BY <1>0 DEF Counted
<1>2. q >= p + 1 /\ i = 0
  BY <1>1
<1>3. CASE k =< h + 5 /\ d = 0 /\ f = 0
  <2>1. Price(1, 5, p, q, h, k, c, d, e, f, g, i)
    BY ONLY <1>t, <1>2, <1>3 DEF Price
  <2> QED
    BY <1>1, <2>1
<1>4. CASE k =< h + 0
  <2>1. Price(1, 0, p, q, h, k, c, d, e, f, g, i)
    BY ONLY <1>t, <1>2, <1>4 DEF Price
  <2> QED
    BY <1>1, <2>1
<1> QED
  BY <1>1, <1>3, <1>4

\* Steps that only look: a call returns a node, keeps one, ends an operation, or
\* begins an argument.
LEMMA NoneRead ==
  ASSUME Inv, Inv', pos' >= pos,
         \/ Len(frames') =< Len(frames) - 1 /\ ret # 0 /\ ret' # 0
         \/ Len(frames') =< Len(frames) /\ ret # 0 /\ ret' = 0 /\ ~Asks' /\ Top'.op = Top.op
         \/ Len(frames') =< Len(frames) /\ ret # 0 /\ ret' # 0 /\ Top.op # NONE /\ Top'.op = NONE
         \/ Len(frames') =< Len(frames) + 4 /\ Asks /\ ~Asks' /\ ret' = 0 /\ Top'.op = NONE
  PROVE  Cheap
<1>0. PICK p, q, h, k, c, d, e, f, g, i : Counted(p, q, h, k, c, d, e, f, g, i)
  BY CostFacts
<1>t. /\ p \in Nat /\ q \in Nat /\ h \in Nat /\ k \in Nat
      /\ c \in 0 .. 1 /\ d \in 0 .. 1 /\ e \in 0 .. 1 /\ f \in 0 .. 1 /\ g \in 0 .. 1 /\ i \in 0 .. 1
  BY <1>0 DEF Counted
<1>1. /\ p = pos /\ q = pos' /\ h = Len(frames) /\ k = Len(frames')
      /\ (c = 0 <=> ~Asks) /\ (d = 0 <=> ~Asks') /\ (f = 0 <=> Top'.op = NONE) /\ (e = 0 <=> Top.op = NONE)
      /\ (g = 0 <=> ret = 0) /\ (i = 0 <=> ret' = 0)
      /\ \A n \in Nat, m \in Int :
           Price(n, m, p, q, h, k, c, d, e, f, g, i) => Cheap
  BY <1>0 DEF Counted
<1>2. q >= p + 0 /\ (ret' # 0 => d = 0)
  <2>1. ret' # 0 => ~Asks'
    BY DEF Asks
  <2>2. q >= p
    BY <1>1
  <2>3. q >= p + 0
    BY ONLY <1>t, <2>2
  <2> QED
    BY <1>1, <2>1, <2>3
<1>3. \A b : b \in 0 .. 1 => b = 0 \/ b = 1
  OBVIOUS
<1>4. CASE k =< h - 1 /\ g = 1 /\ d = 0
  <2>1. PICK m \in Int : m = 0 - 1
    OBVIOUS
  <2>2. Price(0, m, p, q, h, k, c, d, e, f, g, i)
    BY ONLY <1>t, <1>2, <1>4, <2>1 DEF Price
  <2> QED
    BY <1>1, <2>2
<1>5. CASE k =< h /\ g = 1 /\ i = 0 /\ d = 0 /\ f = e
  <2>1. Price(0, 0, p, q, h, k, c, d, e, f, g, i)
    BY ONLY <1>t, <1>2, <1>5 DEF Price
  <2> QED
    BY <1>1, <2>1
<1>6. CASE k =< h /\ g = 1 /\ d = 0 /\ e = 1 /\ f = 0
  <2>1. Price(0, 0, p, q, h, k, c, d, e, f, g, i)
    BY ONLY <1>t, <1>2, <1>6 DEF Price
  <2> QED
    BY <1>1, <2>1
<1>7. CASE k =< h + 4 /\ c = 1 /\ d = 0 /\ i = 0 /\ f = 0
  <2>1. Price(0, 4, p, q, h, k, c, d, e, f, g, i)
    BY ONLY <1>t, <1>2, <1>7 DEF Price
  <2> QED
    BY <1>1, <2>1
<1>8. /\ (ret # 0 => g = 1) /\ (ret' = 0 => i = 0) /\ (Asks => c = 1) /\ (~Asks' => d = 0)
      /\ (Top.op # NONE => e = 1) /\ (Top'.op = NONE => f = 0) /\ (Top'.op = Top.op => f = e)
  <2>1. (c = 0 \/ c = 1) /\ (d = 0 \/ d = 1) /\ (e = 0 \/ e = 1) /\ (f = 0 \/ f = 1) /\ (g = 0 \/ g = 1) /\ (i = 0 \/ i = 1)
    BY <1>t
  <2> QED
    BY <1>1, <2>1, Zenon
<1> QED
  BY <1>1, <1>2, <1>4, <1>5, <1>6, <1>7, <1>8

LEMMA LeftFacts ==
  ASSUME Inv, phase = "parsing"
  PROVE  Left \in Nat /\ Left >= 3
<1>1. PICK N, p, h, c, e, g :
      /\ N = Len(tokens) /\ p = pos /\ h = Len(frames)
      /\ c = Count(Asks) /\ e = Count(Top.op # NONE) /\ g = Count(ret # 0)
  OBVIOUS
<1>2. /\ N \in Nat /\ p \in 1 .. N + 1 /\ h \in Nat
      /\ c \in 0 .. 1 /\ e \in 0 .. 1 /\ g \in 0 .. 1
  BY <1>1, SeqFacts, KidsHeld DEF Inv, Typed, Count
<1>3. Left = 11 * (N + 1 - p) + 9 * c + 2 * h + e + g + 3
  BY <1>1 DEF Left
<1> QED
  BY ONLY <1>2, <1>3

\* The calls of the levels of an expression, the last of which runs.
LEMMA LevelCalls ==
  ASSUME NEW k \in 1 .. 5
  PROVE  /\ parseFrom(k) \in Seq(Frame) /\ Len(parseFrom(k)) = 5 - k
         /\ \A i \in 1 .. 5 - k : parseFrom(k)[i].fn \in LevelNames /\ parseFrom(k)[i].op = NONE
<1> DEFINE e(j) == frame(Levels[k + j - 1], <<>>, NONE)
<1>1. parseFrom(k) \in Seq(Frame)
  BY FreshLevels DEF Fresh
<1>2. 5 - k \in Nat
  OBVIOUS
<1>3. parseFrom(k) = [j \in 1 .. 5 - k |-> e(j)]
  BY DEF parseFrom
<1>4. \A j \in 1 .. 5 - k : e(j).fn \in LevelNames /\ e(j).op = NONE
  <2>1. \A j \in 1 .. 5 - k : k + j - 1 \in 1 .. 4
    OBVIOUS
  <2> QED
    BY <2>1, LevelFacts DEF frame
<1> HIDE DEF e
<1> QED
  BY <1>1, <1>2, <1>3, <1>4

\* A call that reads an expression first.
LEMMA ExpressionCalls ==
  ASSUME NEW x \in Frame
  PROVE  LET fs == <<x>> \o parseExpression
         IN fs \in Seq(Frame) /\ Len(fs) = 5 /\ fs[5].fn \in LevelNames /\ fs[5].op = NONE
<1>1. /\ parseExpression \in Seq(Frame) /\ Len(parseExpression) = 4
      /\ parseExpression[4].fn \in LevelNames /\ parseExpression[4].op = NONE
  <2>1. PICK k \in 1 .. 5 : k = 1
    OBVIOUS
  <2>2. PICK u : u = parseFrom(k)
    OBVIOUS
  <2>3. u \in Seq(Frame) /\ Len(u) = 5 - k /\ \A i \in 1 .. 5 - k : u[i].fn \in LevelNames /\ u[i].op = NONE
    BY <2>2, LevelCalls
  <2>4. u \in Seq(Frame) /\ Len(u) = 4 /\ u[4].fn \in LevelNames /\ u[4].op = NONE
    BY ONLY <2>1, <2>3
  <2> QED
    BY <2>1, <2>2, <2>4 DEF parseExpression
<1>2. PICK s : s = <<x>>
  OBVIOUS
<1>3. PICK t : t = parseExpression
  OBVIOUS
<1>4. s \in Seq(Frame) /\ Len(s) = 1 /\ t \in Seq(Frame) /\ Len(t) = 4 /\ t[4].fn \in LevelNames /\ t[4].op = NONE
  BY <1>1, <1>2, <1>3
<1>5. /\ s \o t \in Seq(Frame) /\ Len(s \o t) = 1 + Len(t)
      /\ \A i \in 1 .. Len(t) : (s \o t)[1 + i] = t[i]
  <2>1. PICK n \in Nat : n = 1
    OBVIOUS
  <2>2. s \in Seq(Frame) /\ t \in Seq(Frame) /\ n \in Nat /\ n = Len(s)
    BY <1>4, <2>1
  <2>3. /\ s \o t \in Seq(Frame) /\ Len(s \o t) = n + Len(t)
        /\ \A i \in 1 .. Len(t) : (s \o t)[n + i] = t[i]
    BY ONLY <2>2, Concatenation
  <2> QED
    BY <2>1, <2>3
<1>6. s \o t \in Seq(Frame) /\ Len(s \o t) = 5 /\ (s \o t)[5] = t[4]
  <2>1. 4 \in 1 .. Len(t) /\ 1 + Len(t) = 5 /\ 1 + 4 = 5
    BY ONLY <1>4
  <2> QED
    BY ONLY <1>5, <2>1
<1> QED
  BY <1>2, <1>3, <1>4, <1>6

\* The calls in progress after a step, and the one that runs.
LEMMA Entered ==
  ASSUME Inv, phase = "parsing", NEW fs \in Seq(Frame), NEW p, Enter(fs, p)
  PROVE  /\ Len(frames') = Len(frames) + Len(fs) /\ pos' = p /\ ret' = ret
         /\ fs # <<>> => Top' = fs[Len(fs)]
<1>1. PICK h, n, s, u : h = Len(frames) /\ n = Len(fs) /\ s = frames /\ u = frames'
  OBVIOUS
<1>2. h \in Nat /\ s \in Seq(Frame) /\ h = Len(s) /\ u = s \o fs /\ n \in Nat /\ n = Len(fs)
  BY <1>1, KidsHeld DEF Inv, Typed, Enter
<1>3. Len(u) = h + n /\ \A i \in 1 .. n : u[h + i] = fs[i]
  BY ONLY <1>2, fs \in Seq(Frame), Concatenation
<1>4. fs # <<>> => n \in 1 .. n
  BY ONLY <1>2, fs \in Seq(Frame), EmptySeq
<1>5. fs # <<>> => u[Len(u)] = fs[n]
  BY ONLY <1>3, <1>4
<1>6. Top' = u[Len(u)]
  BY <1>1 DEF Top
<1> QED
  BY <1>1, <1>3, <1>5, <1>6 DEF Enter

LEMMA Kept ==
  ASSUME Inv, phase = "parsing", ret # 0, NEW top \in Frame, top.kids = Top.kids,
         NEW fs \in Seq(Frame), NEW p, Keep(top, fs, p)
  PROVE  /\ Len(frames') = Len(frames) + Len(fs) /\ pos' = p /\ ret' = 0
         /\ fs # <<>> => Top' = fs[Len(fs)]
         /\ fs = <<>> => Top'.fn = top.fn /\ Top'.op = top.op
<1>1. PICK x : x = [top EXCEPT !.kids = Append(@, ret)]
  OBVIOUS
<1>2. x \in Frame /\ x.fn = top.fn /\ x.op = top.op
  <2>1. Typed /\ frames # <<>> /\ ret \in Nat
    BY SeqFacts DEF Inv, Typed, Phases
  <2>2. top.kids \in Seq(Nat)
    BY DEF Frame
  <2>3. Append(top.kids, ret) \in Seq(Nat)
    BY <2>1, <2>2
  <2> QED
    BY <1>1, <2>3 DEF Frame
<1>3. PICK h, n, s, u : h = Len(frames) /\ n = Len(fs) /\ s = frames /\ u = frames'
  OBVIOUS
<1>4. s \in Seq(Frame) /\ s # <<>> /\ h = Len(s) /\ u = Append(SubSeq(s, 1, Len(s) - 1), x) \o fs /\ n = Len(fs)
  BY <1>1, <1>3 DEF Inv, Typed, Phases, Keep, Below
<1>5. Replaces(u, s, x, fs, Frame)
  BY ONLY <1>2, <1>4, fs \in Seq(Frame), ReplaceAndAdd
<1>6. h \in Nat \ {0} /\ n \in Nat /\ Len(u) = h + n /\ u[h] = x /\ \A i \in 1 .. n : u[h + i] = fs[i]
  BY ONLY <1>4, <1>5 DEF Replaces
<1>7. fs # <<>> => n \in 1 .. n
  BY ONLY <1>4, <1>6, fs \in Seq(Frame), EmptySeq
<1>8. fs # <<>> => u[Len(u)] = fs[n]
  BY ONLY <1>6, <1>7
<1>9. fs = <<>> => u[Len(u)] = x
  <2>1. fs = <<>> => n = 0
    BY ONLY <1>4
  <2> QED
    BY ONLY <1>6, <2>1
<1>10. Top' = u[Len(u)]
  BY <1>3 DEF Top
<1> QED
  BY <1>2, <1>3, <1>6, <1>8, <1>9, <1>10 DEF Keep

LEMMA Dropped ==
  ASSUME Inv, phase = "parsing", frames' = Below
  PROVE  Len(frames') = Len(frames) - 1
BY AllButLast DEF Inv, Typed, Phases, Below

LEMMA Turned ==
  ASSUME Inv, phase = "parsing", NEW x \in Frame, frames' = Below \o <<x>>
  PROVE  Len(frames') = Len(frames) /\ Top' = x
<1>1. PICK fs : fs = <<x>>
  OBVIOUS
<1>2. fs \in Seq(Frame) /\ Len(fs) = 1 /\ fs[1] = x
  BY <1>1
<1>3. PICK h, s, u : h = Len(frames) /\ s = frames /\ u = frames'
  OBVIOUS
<1>4. s \in Seq(Frame) /\ s # <<>> /\ h = Len(s) /\ u = SubSeq(s, 1, Len(s) - 1) \o fs
  BY <1>1, <1>3 DEF Inv, Typed, Phases, Below
<1>5. Follows(u, s, fs, Frame)
  BY ONLY <1>2, <1>4, DropAndAdd
<1>6. h \in Nat \ {0} /\ Len(u) = h - 1 + 1 /\ \A i \in 1 .. 1 : u[h - 1 + i] = fs[i]
  BY ONLY <1>2, <1>4, <1>5 DEF Follows
<1>7. Len(u) = h /\ u[h] = x
  BY ONLY <1>2, <1>6
<1>8. Top' = u[Len(u)]
  BY <1>3 DEF Top
<1> QED
  BY <1>3, <1>7, <1>8

\* The step ends the parser or is cheap.
Pays == phase' \in {"threw", "parsed"} \/ Cheap

\* The place in the text and the calls are numbers.
LEMMA PlaceFacts == ASSUME Inv PROVE pos \in Nat /\ Len(tokens) \in Nat /\ Len(frames) \in Nat
BY TokenFacts, KidsHeld DEF Inv

\* The function that makes a node returns it.
LEMMA ReturnsNode ==
  ASSUME Inv, phase = "parsing", NEW type, NEW p, Build(type, p)
  PROVE  pos' = p /\ ret' # 0 /\ ~Asks'
<1>1. ret' = Len(nodes) + 1 /\ Len(nodes) \in Nat
  BY KidsHeld DEF Build, Allocate
<1>2. ret' # 0
  BY <1>1
<1> QED
  BY <1>2 DEF Build, Asks

\* What each function's steps cost.
LEMMA StatementPays ==
  ASSUME Inv, Inv', UNCHANGED tokens,
         \/ BlockUnfinished \/ BlockDone \/ ProgramDone \/ NestedBlock
         \/ parseIfStmt \/ Skip \/ StatementKept
  PROVE  Pays
<1>1. pos \in Nat /\ Len(tokens) \in Nat /\ Len(frames) \in Nat
  BY PlaceFacts
<1>2. <<>> \in Names /\ DOMAIN tokens = 1 .. Len(tokens)
  BY SeqFacts DEF Names, Inv, Typed
<1>3. CASE BlockUnfinished
  BY <1>3 DEF BlockUnfinished, Throw, Pays
<1>4. CASE BlockDone
  <2>1. phase = "parsing" /\ Build("Block", pos + 1) /\ frames' = Below
    BY <1>4 DEF BlockDone, Statement, In, Return
  <2>2. pos' = pos + 1 /\ ~Asks'
    BY <2>1, ReturnsNode
  <2>3. Len(frames') = Len(frames) - 1
    BY <2>1, Dropped
  <2>4. pos' >= pos + 1 /\ Len(frames') =< Len(frames) + 3
    BY <1>1, <2>2, <2>3
  <2> QED
    BY <2>2, <2>4, OneRead DEF Pays
<1>5. CASE ProgramDone
  BY <1>5 DEF ProgramDone, Pays
<1>6. CASE NestedBlock
  <2>1. phase = "parsing" /\ ret = 0 /\ Enter(call("block"), pos + 1)
    BY <1>6 DEF NestedBlock, Statement, In, Call
  <2>2. PICK x : x = frame("block", <<>>, NONE)
    OBVIOUS
  <2>3. x \in Frame /\ x.fn = "block"
    BY <1>2, <2>2 DEF frame, Frame, Functions
  <2>4. PICK fs : fs = <<x>>
    OBVIOUS
  <2>5. fs \in Seq(Frame) /\ Len(fs) = 1 /\ fs # <<>> /\ fs[1] = x /\ Enter(fs, pos + 1)
    BY <2>1, <2>2, <2>3, <2>4 DEF call
  <2>6. Len(frames') = Len(frames) + 1 /\ pos' = pos + 1 /\ Top' = x
    BY <2>1, <2>5, Entered
  <2>7. pos' >= pos + 1 /\ Len(frames') =< Len(frames) + 3
    BY <1>1, <2>6
  <2>8. ~Asks'
    BY <2>3, <2>6 DEF Asks
  <2> QED
    BY <2>7, <2>8, OneRead DEF Pays
<1>7. CASE parseIfStmt
  <2>1. CASE Throw
    BY <2>1 DEF Throw, Pays
  <2>2. CASE Call(call("if") \o parseExpression, pos + 2)
    <3>1. phase = "parsing" /\ Enter(call("if") \o parseExpression, pos + 2)
      BY <1>7, <2>2 DEF parseIfStmt, Statement, In, Call
    <3>2. PICK x : x = frame("if", <<>>, NONE)
      OBVIOUS
    <3>3. x \in Frame
      BY <1>2, <3>2 DEF frame, Frame, Functions
    <3>4. PICK fs : fs = <<x>> \o parseExpression
      OBVIOUS
    <3>5. fs \in Seq(Frame) /\ Len(fs) = 5
      BY <3>3, <3>4, ExpressionCalls
    <3>6. Enter(fs, pos + 2)
      BY <3>1, <3>2, <3>4 DEF call
    <3>7. Len(frames') = Len(frames) + 5 /\ pos' = pos + 2
      BY <3>1, <3>5, <3>6, Entered
    <3>8. pos' >= pos + 2 /\ Len(frames') =< Len(frames) + 5
      BY <1>1, <3>7
    <3> QED
      BY <3>8, TwoRead DEF Pays
  <2> QED
    BY <1>7, <2>1, <2>2 DEF parseIfStmt
<1>8. CASE Skip
  <2>1. /\ phase = "parsing" /\ Top.fn \in {"program", "block"} /\ UNCHANGED <<frames, ret>>
        /\ ~EndsInside /\ ~EndsProgram
    BY <1>8 DEF Skip, Statement, In
  <2>2. token(pos).type # "END_OF_FILE"
    BY <2>1 DEF EndsInside, EndsProgram, is
  <2>3. pos \in DOMAIN tokens
    BY <2>2 DEF token
  <2>4. pos' = pos + 1
    BY <1>8, <2>3 DEF Skip
  <2>5. Top' = Top
    BY <2>1 DEF Top
  <2>6. ~Asks'
    BY <2>1, <2>5 DEF Asks
  <2>7. pos' >= pos + 1 /\ Len(frames') =< Len(frames) + 3
    BY <1>1, <2>1, <2>4
  <2> QED
    BY <2>6, <2>7, OneRead DEF Pays
<1>9. CASE StatementKept
  <2>1. phase = "parsing" /\ ret # 0 /\ Top.fn \in {"program", "block"} /\ Keep(Top, <<>>, pos)
    BY <1>9 DEF StatementKept, In
  <2>2. Top \in Frame
    BY <2>1, TopFacts DEF Inv, Phases
  <2>3. PICK fs : fs = <<>>
    OBVIOUS
  <2>4. fs \in Seq(Frame) /\ Len(fs) = 0 /\ Keep(Top, fs, pos)
    BY <2>1, <2>3
  <2>5. Len(frames') = Len(frames) + 0 /\ pos' = pos /\ ret' = 0 /\ Top'.fn = Top.fn /\ Top'.op = Top.op
    BY <2>1, <2>2, <2>3, <2>4, Kept
  <2>6. pos' >= pos /\ Len(frames') =< Len(frames)
    BY <1>1, <2>5
  <2>7. ~Asks'
    BY <2>1, <2>5 DEF Asks
  <2> QED
    BY <2>1, <2>5, <2>6, <2>7, NoneRead DEF Pays
<1> QED
  BY <1>3, <1>4, <1>5, <1>6, <1>7, <1>8, <1>9

LEMMA VarDeclPays == ASSUME Inv, Inv', UNCHANGED tokens, parseVarDecl PROVE Pays
<1>1. pos \in Nat /\ Len(frames) \in Nat /\ phase = "parsing"
  BY PlaceFacts DEF parseVarDecl, Statement, In
<1>2. CASE Throw
  BY <1>2 DEF Throw, Pays
<1>3. PICK eq : eq = pos + IF token(pos + 2).type = "ARR_RIGHT" THEN 4 ELSE 2
  OBVIOUS
<1>4. CASE next("IDENT") /\ Enter(callWith("varDecl", token(pos + 1).content) \o parseExpression, eq + 1)
  <2>1. token(pos + 1).content \in Names
    BY <1>4, TokenFacts DEF next, Inv
  <2>2. PICK x : x = frame("varDecl", token(pos + 1).content, NONE)
    OBVIOUS
  <2>3. x \in Frame
    BY <2>1, <2>2 DEF frame, Frame, Functions
  <2>4. PICK fs : fs = <<x>> \o parseExpression
    OBVIOUS
  <2>5. fs \in Seq(Frame) /\ Len(fs) = 5
    BY <2>3, <2>4, ExpressionCalls
  <2>6. Enter(fs, eq + 1)
    BY <1>4, <2>2, <2>4 DEF callWith
  <2>7. Len(frames') = Len(frames) + 5 /\ pos' = eq + 1
    BY <1>1, <2>5, <2>6, Entered
  <2>8. pos' >= pos + 2 /\ Len(frames') =< Len(frames) + 5
    BY <1>1, <1>3, <2>7
  <2> QED
    BY <2>8, TwoRead DEF Pays
<1> QED
  BY <1>2, <1>3, <1>4 DEF parseVarDecl

\* A function that makes its node, or hands its own on, without reading a token.
LEMMA BuildPays ==
  ASSUME Inv, Inv', phase = "parsing", ret # 0, NEW type, Build(type, pos), Return
  PROVE  Cheap
<1>1. pos \in Nat /\ Len(frames) \in Nat
  BY PlaceFacts
<1>2. pos' = pos /\ ret' # 0
  BY ReturnsNode
<1>3. Len(frames') = Len(frames) - 1
  BY Dropped DEF Return
<1>4. pos' >= pos /\ Len(frames') =< Len(frames) - 1
  BY <1>1, <1>2, <1>3
<1> QED
  BY <1>2, <1>4, NoneRead

LEMMA PassPays ==
  ASSUME Inv, Inv', phase = "parsing", ret # 0, Pass(pos)
  PROVE  Cheap
<1>1. pos \in Nat /\ Len(frames) \in Nat
  BY PlaceFacts
<1>2. pos' = pos /\ ret' # 0
  BY DEF Pass
<1>3. Len(frames') = Len(frames) - 1
  BY Dropped DEF Pass, Return
<1>4. pos' >= pos /\ Len(frames') =< Len(frames) - 1
  BY <1>1, <1>2, <1>3
<1> QED
  BY <1>2, <1>4, NoneRead

\* A call that reads an expression, two tokens on.
LEMMA ExpressionPays ==
  ASSUME Inv, Inv', phase = "parsing", NEW x \in Frame, Enter(<<x>> \o parseExpression, pos + 2)
  PROVE  Cheap
<1>1. pos \in Nat /\ Len(frames) \in Nat
  BY PlaceFacts
<1>2. PICK fs : fs = <<x>> \o parseExpression
  OBVIOUS
<1>3. fs \in Seq(Frame) /\ Len(fs) = 5 /\ Enter(fs, pos + 2)
  BY <1>2, ExpressionCalls
<1>4. Len(frames') = Len(frames) + 5 /\ pos' = pos + 2
  BY <1>3, Entered
<1>5. pos' >= pos + 2 /\ Len(frames') =< Len(frames) + 5
  BY <1>1, <1>4
<1> QED
  BY <1>5, TwoRead

LEMMA OperandPays ==
  ASSUME Inv, Inv', UNCHANGED tokens,
         \/ parseUnary \/ UnaryDone \/ Number \/ Ident \/ Paren \/ NoOperand \/ ParenDone
         \/ AssignDone \/ DeclDone
  PROVE  Pays
<1>1. pos \in Nat /\ Len(tokens) \in Nat /\ Len(frames) \in Nat
  BY PlaceFacts
<1>2. <<>> \in Names
  BY DEF Names
<1>3. ASSUME NEW type, NEW name, NEW number, Leaf(type, name, number) PROVE Cheap
  <2>1. ret' = Len(nodes) + 1 /\ Len(nodes) \in Nat /\ pos' = pos + 1 /\ frames' = frames
    BY <1>3, KidsHeld DEF Leaf, Allocate
  <2>2. ret' # 0 /\ pos' >= pos + 1 /\ Len(frames') =< Len(frames) + 3
    BY <1>1, <2>1
  <2>3. ~Asks'
    BY <2>2 DEF Asks
  <2> QED
    BY <2>2, <2>3, OneRead
<1>4. CASE parseUnary
  <2>1. PICK op \in {"MINUS", "NOT"} : Call(<<frame("unary", <<>>, op)>>, pos + 1)
    BY <1>4 DEF parseUnary
  <2>2. phase = "parsing" /\ ret = 0
    BY <1>4 DEF parseUnary, Operand, In
  <2>3. PICK x : x = frame("unary", <<>>, op)
    OBVIOUS
  <2>4. x \in Frame /\ x.fn = "unary"
    BY <1>2, <2>3, LevelFacts DEF frame, Frame, Functions
  <2>5. PICK fs : fs = <<x>>
    OBVIOUS
  <2>6. fs \in Seq(Frame) /\ Len(fs) = 1 /\ fs # <<>> /\ fs[1] = x /\ Enter(fs, pos + 1)
    BY <2>1, <2>3, <2>4, <2>5 DEF Call
  <2>7. Len(frames') = Len(frames) + 1 /\ pos' = pos + 1 /\ Top' = x
    BY <2>2, <2>6, Entered
  <2>8. pos' >= pos + 1 /\ Len(frames') =< Len(frames) + 3
    BY <1>1, <2>7
  <2>9. ~Asks'
    BY <2>4, <2>7 DEF Asks
  <2> QED
    BY <2>8, <2>9, OneRead DEF Pays
<1>5. CASE UnaryDone
  BY <1>5, BuildPays DEF UnaryDone, In, Pays
<1>6. CASE Number
  BY <1>3, <1>6 DEF Number, Throw, Pays
<1>7. CASE Ident
  <2>1. PICK name : name = token(pos).content
    OBVIOUS
  <2>2. phase = "parsing" /\ ret = 0 /\ name \in Names
    BY <1>7, <2>1, TokenFacts DEF Ident, Operand, Statement, In, is, Inv
  <2>3. CASE Call(callWith("call", name), pos + 2)
    <3>1. PICK x : x = frame("call", name, NONE)
      OBVIOUS
    <3>2. x \in Frame
      BY <2>2, <3>1 DEF frame, Frame, Functions
    <3>3. PICK fs : fs = <<x>>
      OBVIOUS
    <3>4. fs \in Seq(Frame) /\ Len(fs) = 1 /\ Enter(fs, pos + 2)
      BY <2>3, <3>1, <3>2, <3>3 DEF Call, callWith
    <3>5. Len(frames') = Len(frames) + 1 /\ pos' = pos + 2
      BY <2>2, <3>4, Entered
    <3>6. pos' >= pos + 2 /\ Len(frames') =< Len(frames) + 5
      BY <1>1, <3>5
    <3> QED
      BY <3>6, TwoRead DEF Pays
  <2>4. CASE Call(callWith("assign", name) \o parseExpression, pos + 2)
    <3>1. PICK x : x = frame("assign", name, NONE)
      OBVIOUS
    <3>2. x \in Frame
      BY <2>2, <3>1 DEF frame, Frame, Functions
    <3>3. Enter(<<x>> \o parseExpression, pos + 2)
      BY <2>4, <3>1 DEF Call, callWith
    <3> QED
      BY <2>2, <3>2, <3>3, ExpressionPays DEF Pays
  <2>5. CASE Leaf("Ident", name, 0)
    BY <1>3, <2>5 DEF Pays
  <2> QED
    BY <1>7, <2>1, <2>3, <2>4, <2>5 DEF Ident
<1>8. CASE Paren
  <2>1. phase = "parsing" /\ ret = 0 /\ Enter(call("paren") \o parseExpression, pos + 1)
    BY <1>8 DEF Paren, Operand, In, Call
  <2>2. PICK x : x = frame("paren", <<>>, NONE)
    OBVIOUS
  <2>3. x \in Frame
    BY <1>2, <2>2 DEF frame, Frame, Functions
  <2>4. PICK fs : fs = <<x>> \o parseExpression
    OBVIOUS
  <2>5. /\ fs \in Seq(Frame) /\ Len(fs) = 5 /\ fs[5].fn \in LevelNames /\ fs[5].op = NONE
        /\ Enter(fs, pos + 1)
    BY <2>1, <2>2, <2>3, <2>4, ExpressionCalls DEF call
  <2>6. fs # <<>>
    <3>1. Len(fs) = 5 /\ Len(<<>>) = 0
      BY <2>5
    <3> QED
      BY ONLY <3>1
  <2>7. Len(frames') = Len(frames) + 5 /\ pos' = pos + 1 /\ ret' = 0 /\ Top' = fs[5]
    BY <2>1, <2>5, <2>6, Entered
  <2>8. pos' >= pos + 1 /\ Len(frames') =< Len(frames) + 5
    BY <1>1, <2>7
  <2>9. ~Asks' /\ Top'.op = NONE
    BY <2>5, <2>7, LevelFacts DEF Asks
  <2> QED
    BY <2>7, <2>8, <2>9, ExpressionRead DEF Pays
<1>9. CASE NoOperand
  BY <1>9 DEF NoOperand, Throw, Pays
<1>10. CASE ParenDone
  <2>1. CASE Throw
    BY <2>1 DEF Throw, Pays
  <2>2. CASE Pass(pos + 1)
    <3>1. phase = "parsing" /\ ret' # 0 /\ pos' = pos + 1 /\ frames' = Below
      BY <1>10, <2>2 DEF ParenDone, In, Pass, Return
    <3>2. Len(frames') = Len(frames) - 1
      BY <3>1, Dropped
    <3>3. pos' >= pos + 1 /\ Len(frames') =< Len(frames) + 3
      BY <1>1, <3>1, <3>2
    <3>4. ~Asks'
      BY <3>1 DEF Asks
    <3> QED
      BY <3>3, <3>4, OneRead DEF Pays
  <2> QED
    BY <1>10, <2>1, <2>2 DEF ParenDone
<1>11. CASE AssignDone
  BY <1>11, BuildPays DEF AssignDone, In, Pays
<1>12. CASE DeclDone
  BY <1>12, BuildPays DEF DeclDone, In, Pays
<1> QED
  BY <1>4, <1>5, <1>6, <1>7, <1>8, <1>9, <1>10, <1>11, <1>12

LEMMA ArgumentPays == ASSUME Inv, Inv', UNCHANGED tokens, Argument \/ ArgumentKept PROVE Pays
<1>1. pos \in Nat /\ Len(tokens) \in Nat /\ Len(frames) \in Nat
  BY PlaceFacts
<1>2. phase = "parsing" /\ Top.fn = "call"
  BY DEF Argument, ArgumentKept, In
<1>3. Top \in Frame /\ FrameOK(Top)
  BY <1>2, TopFacts DEF Inv, Phases
<1>4. CASE Argument
  <2>1. ret = 0
    BY <1>4 DEF Argument
  <2>2. CASE is("SEMICOLON")
    <3>1. Build("FuncCall", pos + 1) /\ frames' = Below
      BY <1>4, <2>2 DEF Argument, Return
    <3>2. pos' = pos + 1 /\ ~Asks'
      BY <1>2, <3>1, ReturnsNode
    <3>3. Len(frames') = Len(frames) - 1
      BY <1>2, <3>1, Dropped
    <3>4. pos' >= pos + 1 /\ Len(frames') =< Len(frames) + 3
      BY <1>1, <3>2, <3>3
    <3> QED
      BY <3>2, <3>4, OneRead DEF Pays
  <2>3. CASE ~is("SEMICOLON")
    <3>1. Asks
      BY <1>2, <2>1, <2>3 DEF Asks
    <3>2. PICK fs : fs = parseExpression
      OBVIOUS
    <3>3. PICK k \in 1 .. 5 : k = 1
      OBVIOUS
    <3>4. fs \in Seq(Frame) /\ Len(fs) = 5 - k /\ \A i \in 1 .. 5 - k : fs[i].fn \in LevelNames /\ fs[i].op = NONE
      BY <3>2, <3>3, LevelCalls DEF parseExpression
    <3>5. fs \in Seq(Frame) /\ Len(fs) = 4 /\ fs # <<>> /\ fs[4].fn \in LevelNames /\ fs[4].op = NONE
      <4>1. fs \in Seq(Frame) /\ Len(fs) = 4 /\ fs[4].fn \in LevelNames /\ fs[4].op = NONE /\ Len(<<>>) = 0
        BY ONLY <3>3, <3>4
      <4>2. fs # <<>>
        BY ONLY <4>1
      <4> QED
        BY ONLY <4>1, <4>2
    <3>6. Enter(fs, pos)
      BY <1>4, <2>3, <3>2 DEF Argument, Call
    <3>7. Len(frames') = Len(frames) + 4 /\ pos' = pos /\ ret' = 0 /\ Top' = fs[4]
      BY <1>2, <2>1, <3>5, <3>6, Entered
    <3>8. pos' >= pos /\ Len(frames') =< Len(frames) + 4
      BY <1>1, <3>7
    <3>9. ~Asks' /\ Top'.op = NONE
      BY <3>5, <3>7, LevelFacts DEF Asks
    <3> QED
      BY <3>1, <3>7, <3>8, <3>9, NoneRead DEF Pays
  <2> QED
    BY <2>2, <2>3
<1>5. CASE ArgumentKept
  <2>1. ret # 0
    BY <1>5 DEF ArgumentKept
  <2>2. PICK fs : fs = <<>>
    OBVIOUS
  <2>3. fs \in Seq(Frame) /\ Len(fs) = 0
    BY <2>2
  <2>4. ASSUME NEW p, Keep(Top, <<>>, p)
        PROVE  Len(frames') = Len(frames) + 0 /\ pos' = p /\ ret' = 0 /\ Top'.fn = Top.fn /\ Top'.op = Top.op
    <3>1. Keep(Top, fs, p)
      BY <2>2, <2>4
    <3> QED
      BY <1>2, <1>3, <2>1, <2>2, <2>3, <3>1, Kept
  <2>5. CASE Keep(Top, <<>>, pos + 1)
    <3>1. pos' >= pos + 1 /\ Len(frames') =< Len(frames) + 0 /\ ret' = 0
      BY <1>1, <2>4, <2>5
    <3> QED
      BY <3>1, ExpressionRead DEF Pays
  <2>6. CASE is("SEMICOLON") /\ Keep(Top, <<>>, pos)
    <3>1. pos' = pos /\ pos' >= pos /\ Len(frames') =< Len(frames) /\ ret' = 0 /\ Top'.op = Top.op
      BY <1>1, <2>4, <2>6
    <3>2. ~Asks'
      BY <2>6, <3>1 DEF Asks, is, token
    <3> QED
      BY <2>1, <3>1, <3>2, NoneRead DEF Pays
  <2> QED
    BY <1>5, <2>5, <2>6 DEF ArgumentKept, Throw, Pays
<1> QED
  BY <1>4, <1>5

LEMMA LevelPays == ASSUME Inv, Inv', UNCHANGED tokens, Operator \/ Combine \/ LevelDone PROVE Pays
<1>1. pos \in Nat /\ Len(tokens) \in Nat /\ Len(frames) \in Nat
  BY PlaceFacts
<1>2. <<>> \in Names
  BY DEF Names
<1>3. phase = "parsing" /\ ret # 0 /\ Top.fn \in LevelNames
  BY LevelFacts DEF Operator, Combine, LevelDone, In
<1>4. Top \in Frame /\ FrameOK(Top)
  BY <1>3, TopFacts DEF Inv, Phases
<1>5. CASE Operator
  <2>1. PICK k \in 1 .. 4 :
          /\ token(pos).type \in Operators[k]
          /\ Keep([Top EXCEPT !.op = token(pos).type], parseFrom(rightOperand(k)), pos + 1)
    BY <1>5 DEF Operator
  <2>2. PICK top : top = [Top EXCEPT !.op = token(pos).type]
    OBVIOUS
  <2>3. top \in Frame /\ top.kids = Top.kids /\ top.fn = Top.fn
    BY <1>4, <2>1, <2>2, LevelFacts DEF Frame
  <2>4. PICK l \in 1 .. 5 : l = k + 1
    OBVIOUS
  <2>5. PICK fs : fs = parseFrom(l)
    OBVIOUS
  <2>6. fs \in Seq(Frame) /\ Len(fs) = 5 - l /\ \A i \in 1 .. 5 - l : fs[i].fn \in LevelNames
    BY <2>5, LevelCalls
  <2>7. Keep(top, fs, pos + 1)
    BY <2>1, <2>2, <2>4, <2>5 DEF rightOperand
  <2>8. /\ Len(frames') = Len(frames) + Len(fs) /\ pos' = pos + 1
        /\ fs # <<>> => Top' = fs[Len(fs)]
        /\ fs = <<>> => Top'.fn = top.fn
    BY <1>3, <2>3, <2>6, <2>7, Kept
  <2>9. Len(fs) \in 0 .. 3 /\ (fs # <<>> => fs[Len(fs)].fn \in LevelNames)
    <3>1. Len(fs) \in 0 .. 3 /\ (Len(fs) # 0 => fs[Len(fs)].fn \in LevelNames)
      BY ONLY <2>4, <2>6, k \in 1 .. 4
    <3>2. Len(fs) = 0 => fs = <<>>
      BY ONLY <2>6, EmptySeq
    <3> QED
      BY ONLY <3>1, <3>2
  <2>10. pos' >= pos + 1 /\ Len(frames') =< Len(frames) + 3
    BY <1>1, <2>8, <2>9
  <2>11. Top'.fn \in LevelNames
    BY <1>3, <2>3, <2>8, <2>9
  <2>12. ~Asks'
    BY <2>11, LevelFacts DEF Asks
  <2> QED
    BY <2>10, <2>12, OneRead DEF Pays
<1>6. CASE Combine
  <2>1. PICK k \in 1 .. 4 : /\ Top.op # NONE /\ Build("BinaryOp", pos)
                            /\ frames' = Below \o call(Levels[k])
    BY <1>6 DEF Combine
  <2>2. PICK x : x = frame(Levels[k], <<>>, NONE)
    OBVIOUS
  <2>3. x \in Frame /\ x.op = NONE
    <3>1. Levels[k] \in Functions
      BY LevelFacts DEF Functions
    <3> QED
      BY <1>2, <2>2, <3>1 DEF frame, Frame
  <2>4. frames' = Below \o <<x>>
    BY <2>1, <2>2 DEF call
  <2>5. Len(frames') = Len(frames) /\ Top' = x
    BY <1>3, <2>3, <2>4, Turned
  <2>6. pos' = pos /\ ret' # 0
    BY <1>3, <2>1, ReturnsNode
  <2>7. pos' >= pos /\ Len(frames') =< Len(frames) /\ Top'.op = NONE
    BY <1>1, <2>3, <2>5, <2>6
  <2> QED
    BY <1>3, <2>1, <2>6, <2>7, NoneRead DEF Pays
<1>7. CASE LevelDone
  BY <1>3, <1>7, PassPays DEF LevelDone, Pays
<1> QED
  BY <1>5, <1>6, <1>7

LEMMA IfPays == ASSUME Inv, Inv', UNCHANGED tokens, IfCondition \/ IfElse \/ IfDone PROVE Pays
<1>1. pos \in Nat /\ Len(tokens) \in Nat /\ Len(frames) \in Nat
  BY PlaceFacts
<1>2. <<>> \in Names
  BY DEF Names
<1>3. phase = "parsing" /\ ret # 0
  BY DEF IfCondition, IfElse, IfDone, In
<1>4. Top \in Frame
  BY <1>3, TopFacts DEF Inv, Phases
<1>5. ASSUME Keep(Top, call("block"), pos + 2) PROVE Cheap
  <2>1. PICK fs : fs = call("block")
    OBVIOUS
  <2>2. frame("block", <<>>, NONE) \in Frame
    BY <1>2 DEF frame, Frame, Functions
  <2>3. fs \in Seq(Frame) /\ Len(fs) = 1 /\ Keep(Top, fs, pos + 2)
    BY <1>5, <2>1, <2>2 DEF call
  <2>4. Len(frames') = Len(frames) + 1 /\ pos' = pos + 2
    BY <1>3, <1>4, <2>3, Kept
  <2>5. pos' >= pos + 2 /\ Len(frames') =< Len(frames) + 5
    BY <1>1, <2>4
  <2> QED
    BY <2>5, TwoRead
<1>6. CASE IfCondition
  BY <1>5, <1>6 DEF IfCondition, Throw, Pays
<1>7. CASE IfElse
  BY <1>5, <1>7 DEF IfElse, Throw, Pays
<1>8. CASE IfDone
  BY <1>3, <1>8, BuildPays DEF IfDone, Pays
<1> QED
  BY <1>6, <1>7, <1>8

\* Every step of the parser.
LEMMA ParsePays == ASSUME Inv, Inv', UNCHANGED tokens, Parse PROVE Pays
BY StatementPays, VarDeclPays, OperandPays, ArgumentPays, LevelPays, IfPays DEF Parse

\* What every step does.
Shrunk == Left' \in Nat /\ Left' < Left

LEMMA ParseShrinks == ASSUME Inv, Inv', UNCHANGED tokens, Parse PROVE Shrunk
<1>1. phase = "parsing" /\ (ProgramDone \/ phase' = "parsing" \/ phase' = "threw")
  BY ParseGoesOn
<1>2. Left \in Nat /\ Left >= 3
  BY <1>1, LeftFacts
<1>3. phase' \in {"parsing", "parsed", "threw"}
  BY <1>1 DEF ProgramDone
<1>4. CASE phase' = "parsed"
  <2>1. Left' = 2
    BY <1>4 DEF Left
  <2> QED
    BY <1>2, <2>1 DEF Shrunk
<1>5. CASE phase' = "threw"
  <2>1. Left' = 0
    BY <1>5 DEF Left
  <2> QED
    BY <1>2, <2>1 DEF Shrunk
<1>6. CASE phase' = "parsing"
  <2>1. PICK n \in Nat, m \in Int : Costs(n, m)
    BY <1>6, ParsePays DEF Pays, Cheap
  <2> QED
    BY <1>1, <1>6, <2>1, CostsLess DEF Shrunk
<1> QED
  BY <1>3, <1>4, <1>5, <1>6

LEMMA PrintShrinks == ASSUME printAST \/ freeMemory PROVE Shrunk
<1>1. CASE printAST
  <2>1. Left = 2 /\ Left' = 1
    BY <1>1 DEF printAST, Left
  <2> QED
    BY <2>1 DEF Shrunk
<1>2. CASE freeMemory
  <2>1. Left = 1 /\ Left' = 0
    BY <1>2 DEF freeMemory, Left
  <2> QED
    BY <2>1 DEF Shrunk
<1> QED
  BY <1>1, <1>2

\* The next token is behind the blanks, and ends behind its first character.
LEMMA NextIsOn ==
  ASSUME Text, NEW i \in 1 .. Len(src) + 1, NEW t \in nextToken(skipWhiteSpace[i])
  PROVE  t.type # "END_OF_FILE" => t.next \in i + 1 .. Len(src) + 1
<1>0. PICK b, E : b = skipWhiteSpace[i] /\ E = Len(src) + 1
  OBVIOUS
<1>1. Skips(i, b) /\ Len(src) \in Nat /\ i \in Nat
  BY <1>0, SkipsBlanks, TextFacts
<1>2. b \in i .. E /\ peek(b) \notin Space
  BY <1>0, <1>1 DEF Skips
<1>3. CASE b = E
  <2>1. peek(b) = NUL
    BY <1>0, <1>1, <1>3, TextFacts DEF peek
  <2>2. t.type = "END_OF_FILE"
    BY <1>0, <2>1 DEF nextToken, lexeme
  <2> QED
    BY <2>2
<1>4. CASE b # E
  <2>1. b \in 1 .. Len(src)
    BY ONLY <1>0, <1>1, <1>2, <1>4, i \in 1 .. Len(src) + 1
  <2>2. src[b] \notin Space
    BY <1>2, <2>1, TextFacts DEF peek
  <2>3. Longest(b, t.next)
    BY <1>0, <2>1, <2>2, TokenRead
  <2>4. t.next \in b + 1 .. E
    BY <1>0, <2>3 DEF Longest
  <2>5. t.next \in i + 1 .. E
    BY ONLY <1>1, <1>2, <2>1, <2>4
  <2> QED
    BY <1>0, <2>5
<1> QED
  BY <1>3, <1>4

\* The tokeniser pays with characters, and its last turn hands over to the parser.
LEMMA TokenizeShrinks == ASSUME Inv, LexInv, Tokenize, UNCHANGED parserVars PROVE Shrunk
<1>0. PICK a, N, L, E : a = at /\ N = Len(tokens) /\ L = Len(src) /\ E = L + 1
  OBVIOUS
<1>1. Text /\ IsSeq(tokens) /\ phase = "lexing" /\ src' = src /\ a \in 1 .. E
  BY <1>0 DEF LexInv, Tokenize
<1>2. N \in Nat /\ L \in Nat /\ E = L + 1
  BY <1>0, <1>1, SeqFacts, TextFacts
<1>3. PICK t \in nextToken(skipWhiteSpace[at]) :
        /\ at' = t.next
        /\ IF t.type = "END_OF_FILE"
           THEN phase' = "parsing" /\ UNCHANGED tokens
           ELSE /\ tokens' = Append(tokens, [type |-> t.type, content |-> t.content])
                /\ UNCHANGED phase
  BY DEF Tokenize
<1>4. Left = 12 * (E - a) + 11 * N + 6
  BY <1>0, <1>1 DEF Left
<1>5. CASE t.type # "END_OF_FILE"
  <2>1. PICK i : i = at'
    OBVIOUS
  <2>2. i \in a + 1 .. E
    BY <1>0, <1>1, <1>3, <1>5, <2>1, NextIsOn
  <2>3. Len(tokens') = N + 1
    BY <1>0, <1>1, <1>3, <1>5, AppendAny
  <2>4. Left' = 12 * (L + 1 - i) + 11 * (N + 1) + 6
    <3>1. phase' = "lexing"
      BY <1>1, <1>3, <1>5
    <3>2. \A u, v, l : u = Len(src)' /\ v = at' /\ l = Len(tokens)' => Left' = 12 * (u + 1 - v) + 11 * l + 6
      BY <3>1 DEF Left
    <3>3. L = Len(src)'
      BY <1>0, <1>1
    <3> QED
      BY <2>1, <2>3, <3>2, <3>3, Zenon
  <2>5. PICK x, y : x = Left /\ y = Left'
    OBVIOUS
  <2>6. x = 12 * (E - a) + 11 * N + 6 /\ y = 12 * (L + 1 - i) + 11 * (N + 1) + 6
    BY <1>4, <2>4, <2>5
  <2>7. y \in Nat /\ y < x
    BY ONLY <1>1, <1>2, <2>2, <2>6
  <2> QED
    BY <2>5, <2>7 DEF Shrunk
<1>6. CASE t.type = "END_OF_FILE"
  <2>1. phase' = "parsing" /\ tokens' = tokens /\ pos' = pos /\ frames' = frames /\ ret' = ret
    BY <1>3, <1>6 DEF parserVars
  <2>2. pos = 1 /\ frames = call("program") /\ ret = 0
    BY <1>1 DEF Inv, Phases
  <2>3. Len(frames') = 1 /\ Top' = frame("program", <<>>, NONE)
    BY <2>1, <2>2 DEF Top, call
  <2>4. ~Asks' /\ Top'.op = NONE
    BY <2>3 DEF Asks, frame
  <2>5. Count(Asks)' = 0 /\ Count(Top.op # NONE)' = 0 /\ Count(ret # 0)' = 0
    BY <2>1, <2>2, <2>4 DEF Count
  <2>6. Left' = 11 * (Len(tokens') + 1 - pos') + 9 * Count(Asks)' + 2 * Len(frames') + Count(Top.op # NONE)' + Count(ret # 0)' + 3
    BY <2>1 DEF Left
  <2>7. Left' = 11 * (N + 1 - 1) + 9 * 0 + 2 * 1 + 0 + 0 + 3
    BY <1>0, <2>1, <2>2, <2>3, <2>5, <2>6
  <2>8. PICK x, y : x = Left /\ y = Left'
    OBVIOUS
  <2>9. x = 12 * (E - a) + 11 * N + 6 /\ y = 11 * (N + 1 - 1) + 9 * 0 + 2 * 1 + 0 + 0 + 3
    BY <1>4, <2>7, <2>8
  <2>10. y \in Nat /\ y < x
    BY ONLY <1>1, <1>2, <2>9
  <2> QED
    BY <2>8, <2>10 DEF Shrunk
<1> QED
  BY <1>5, <1>6

\* For every text, each step of the compiler leaves less to do: no function of the
\* parser calls, turns or returns for ever without reading a token.
THEOREM CompilerShrinks == CompilerSpec => Shrinks
<1>1. Inv /\ Inv' /\ LexInv /\ [CompilerNext]_compilerVars => [Shrunk]_compilerVars
  <2> SUFFICES ASSUME Inv, Inv', LexInv, CompilerNext PROVE Shrunk
    OBVIOUS
  <2>1. CASE Tokenize /\ UNCHANGED <<parserVars, out>>
    BY <2>1, TokenizeShrinks
  <2>2. CASE Parse /\ UNCHANGED <<lexerVars, out>>
    BY <2>2, ParseShrinks DEF lexerVars
  <2>3. CASE printAST \/ freeMemory
    BY <2>3, PrintShrinks
  <2> QED
    BY <2>1, <2>2, <2>3 DEF CompilerNext
<1>2. Shrinks <=> [][Shrunk]_compilerVars
  BY DEF Shrinks, Shrunk
<1> QED
  BY <1>1, <1>2, InvAlways, LexAlways, PTL DEF CompilerSpec
===============================================================================
