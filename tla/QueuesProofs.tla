----------------------------- MODULE QueuesProofs -----------------------------
(***************************************************************************)
(* What Retain does to every sequence.  The library's induction theorems   *)
(* take an operator; here induction is over a set of numbers, and comes    *)
(* from the fact that < is well founded on them.                           *)
(***************************************************************************)
EXTENDS Queues, WellFoundedInduction, SequenceTheorems, FiniteSetTheorems, TLAPS

(* A set of natural numbers has a least one.                               *)
LEMMA LeastNumber ==
  ASSUME NEW T, T \subseteq Nat, T # {}
  PROVE  \E n \in T : \A m \in T : n <= m
<1> DEFINE R == {ss \in Nat \X Nat : ss[1] < ss[2]}
<1>1. R = OpToRel(<, Nat)
  BY DEF OpToRel
<1>2. IsWellFoundedOn(R, Nat)
  BY <1>1, NatLessThanWellFounded
<1> HIDE DEF R
<1>3. PICK n \in T : \A m \in T : ~ (<<m, n>> \in R)
  BY <1>2, WFMin
<1>4. \A m \in T : ~ (m < n)
  BY <1>3 DEF R
<1> QED
  BY <1>4

(* Induction: a set that has 0 and with n also n + 1 has every number.     *)
LEMMA NumbersByInduction ==
  ASSUME NEW S, 0 \in S, \A n \in Nat : n \in S => n + 1 \in S
  PROVE  \A n \in Nat : n \in S
<1> DEFINE T == Nat \ S
<1> SUFFICES ASSUME T # {} PROVE FALSE
  OBVIOUS
<1>1. PICK n \in T : \A m \in T : n <= m
  BY LeastNumber
<1>2. n # 0 /\ n - 1 \in Nat /\ n - 1 \notin T
  BY <1>1
<1> QED
  BY <1>2
-------------------------------------------------------------------------------
\* One step of the loop of Retain, and the function it computes.
Keep(s, K, f, i) == IF s[i] \in K THEN Append(f[i - 1], s[i]) ELSE f[i - 1]
Computes(s, K, f, n) == f = [i \in 0..n |-> IF i = 0 THEN <<>> ELSE Keep(s, K, f, i)]

(* The loop computes something, however long it runs.                      *)
LEMMA LoopExists ==
  ASSUME NEW s, NEW K
  PROVE  \A n \in Nat : \E f : Computes(s, K, f, n)
<1> DEFINE P == {n \in Nat : \E f : Computes(s, K, f, n)}
<1>1. 0 \in P
  <2> DEFINE f == [i \in 0..0 |-> <<>>]
  <2>1. Computes(s, K, f, 0)
    BY DEF Computes
  <2> QED
    BY <2>1
<1>2. ASSUME NEW n \in Nat, n \in P PROVE n + 1 \in P
  <2>1. PICK f : Computes(s, K, f, n)
    BY <1>2
  <2> DEFINE g == [i \in 0..(n + 1) |-> IF i = 0 THEN <<>> ELSE Keep(s, K, f, i)]
  <2>2. \A i \in 0..n : g[i] = f[i]
    BY <2>1 DEF Computes
  <2>3. \A i \in 1..(n + 1) : Keep(s, K, f, i) = Keep(s, K, g, i)
    <3> TAKE i \in 1..(n + 1)
    <3>1. i - 1 \in 0..n
      OBVIOUS
    <3> QED
      BY <2>2, <3>1 DEF Keep
  <2>4. Computes(s, K, g, n + 1)
    BY <2>3 DEF Computes
  <2> QED
    BY <2>4
<1>3. \A n \in Nat : n \in P
  <2> HIDE DEF P
  <2> QED
    BY <1>1, <1>2, NumbersByInduction
<1> QED
  BY <1>3

(* Retain is what the loop has computed at the end of the sequence.        *)
LEMMA RetainIsLoop ==
  ASSUME NEW S, NEW s \in Seq(S), NEW K
  PROVE  \E f : Computes(s, K, f, Len(s)) /\ Retain(s, K) = f[Len(s)]
<1> DEFINE f == CHOOSE g : Computes(s, K, g, Len(s))
<1>1. Computes(s, K, f, Len(s))
  BY LoopExists
<1>2. Retain(s, K) = f[Len(s)]
  BY DEF Retain, Computes, Keep
<1> QED
  BY <1>1, <1>2

\* What the loop has after i elements: those in K, in their order, and no more.
SoFar(s, K, S, r, i) ==
  /\ r \in Seq(S)
  /\ Len(r) <= i
  /\ \A p \in 1..Len(r) : \E j \in 1..i : s[j] = r[p] /\ s[j] \in K
  /\ \A j \in 1..i : s[j] \in K => \E p \in 1..Len(r) : r[p] = s[j]
  /\ \A p, q \in 1..Len(r) : p < q => \E j, k \in 1..i : j < k /\ s[j] = r[p] /\ s[k] = r[q]

(* One more element of s, kept or not.                                     *)
LEMMA OneMore ==
  ASSUME NEW S, NEW s \in Seq(S), NEW K, NEW i \in 1..Len(s), NEW r, SoFar(s, K, S, r, i - 1)
  PROVE  SoFar(s, K, S, IF s[i] \in K THEN Append(r, s[i]) ELSE r, i)
<1>1. r \in Seq(S) /\ Len(r) \in Nat /\ s[i] \in S /\ i \in Nat /\ i - 1 \in Nat
  BY LenProperties DEF SoFar
<1>2. CASE s[i] \notin K
  <2>1. \A j \in 1..(i - 1) : j \in 1..i
    BY <1>1
  <2>2. \A j \in 1..i : j \in 1..(i - 1) \/ j = i
    BY <1>1
  <2>3. Len(r) <= i
    BY <1>1 DEF SoFar
  <2>4. \A p \in 1..Len(r) : \E j \in 1..i : s[j] = r[p] /\ s[j] \in K
    BY <2>1 DEF SoFar
  <2>5. \A j \in 1..i : s[j] \in K => \E p \in 1..Len(r) : r[p] = s[j]
    BY <1>2, <2>2 DEF SoFar
  <2>6. \A p, q \in 1..Len(r) : p < q => \E j, k \in 1..i : j < k /\ s[j] = r[p] /\ s[k] = r[q]
    <3> TAKE p, q \in 1..Len(r)
    <3> HAVE p < q
    <3>1. PICK j \in 1..(i - 1), k \in 1..(i - 1) : j < k /\ s[j] = r[p] /\ s[k] = r[q]
      BY DEF SoFar
    <3> QED
      BY <2>1, <3>1
  <2> QED
    BY <1>1, <1>2, <2>3, <2>4, <2>5, <2>6 DEF SoFar
<1>3. CASE s[i] \in K
  <2> DEFINE t == Append(r, s[i])
  <2>1. /\ t \in Seq(S) /\ Len(t) = Len(r) + 1
        /\ \A p \in 1..Len(r) : t[p] = r[p]
        /\ t[Len(r) + 1] = s[i]
    BY <1>1, AppendProperties
  <2> HIDE DEF t
  <2>2. \A p \in 1..Len(t) : p \in 1..Len(r) \/ p = Len(r) + 1
    BY <1>1, <2>1
  <2>3. \A p \in 1..Len(t) : \E j \in 1..i : s[j] = t[p] /\ s[j] \in K
    <3> TAKE p \in 1..Len(t)
    <3>1. CASE p \in 1..Len(r)
      <4>1. PICK j \in 1..(i - 1) : s[j] = r[p] /\ s[j] \in K
        BY <3>1 DEF SoFar
      <4>2. j \in 1..i
        BY <1>1
      <4> QED
        BY <2>1, <3>1, <4>1, <4>2
    <3>2. CASE p = Len(r) + 1
      BY <1>1, <1>3, <2>1, <3>2
    <3> QED
      BY <2>2, <3>1, <3>2
  <2>4. \A j \in 1..i : s[j] \in K => \E p \in 1..Len(t) : t[p] = s[j]
    <3> SUFFICES ASSUME NEW j \in 1..i, s[j] \in K PROVE \E p \in 1..Len(t) : t[p] = s[j]
      OBVIOUS
    <3>1. CASE j = i
      BY <1>1, <2>1, <3>1
    <3>2. CASE j \in 1..(i - 1)
      <4>1. PICK p \in 1..Len(r) : r[p] = s[j]
        BY <3>2 DEF SoFar
      <4> QED
        BY <1>1, <2>1, <4>1
    <3> QED
      BY <1>1, <3>1, <3>2
  <2>5. \A p, q \in 1..Len(t) : p < q => \E j, k \in 1..i : j < k /\ s[j] = t[p] /\ s[k] = t[q]
    <3> SUFFICES ASSUME NEW p \in 1..Len(t), NEW q \in 1..Len(t), p < q
                 PROVE  \E j, k \in 1..i : j < k /\ s[j] = t[p] /\ s[k] = t[q]
      OBVIOUS
    <3>1. p \in 1..Len(r)
      BY <1>1, <2>1
    <3>2. CASE q \in 1..Len(r)
      <4>1. PICK j \in 1..(i - 1), k \in 1..(i - 1) : j < k /\ s[j] = r[p] /\ s[k] = r[q]
        BY <3>1, <3>2 DEF SoFar
      <4> QED
        BY <1>1, <2>1, <3>1, <3>2, <4>1
    <3>3. CASE q = Len(r) + 1
      <4>1. PICK j \in 1..(i - 1) : s[j] = r[p]
        BY <3>1 DEF SoFar
      <4>2. j \in 1..i /\ i \in 1..i /\ j < i
        BY <1>1, <4>1
      <4>3. s[j] = t[p] /\ s[i] = t[q]
        BY <2>1, <3>1, <3>3, <4>1
      <4> QED
        BY <4>2, <4>3
    <3> QED
      BY <2>2, <3>2, <3>3
  <2>6. SoFar(s, K, S, t, i)
    BY <1>1, <2>1, <2>3, <2>4, <2>5 DEF SoFar
  <2> QED
    BY <1>3, <2>6 DEF t
<1> QED
  BY <1>2, <1>3

(* retain keeps what is in K, everything that is, and the order            *)
(* (store.rs:171-200).                                                     *)
THEOREM RetainProperties ==
  ASSUME NEW S, NEW s \in Seq(S), NEW K
  PROVE  LET r == Retain(s, K) IN
         /\ r \in Seq(S)
         /\ Len(r) <= Len(s)
         /\ \A p \in 1..Len(r) : \E j \in 1..Len(s) : s[j] = r[p] /\ s[j] \in K
         /\ \A j \in 1..Len(s) : s[j] \in K => \E p \in 1..Len(r) : r[p] = s[j]
         /\ \A p, q \in 1..Len(r) :
               p < q => \E j, k \in 1..Len(s) : j < k /\ s[j] = r[p] /\ s[k] = r[q]
<1>1. PICK f : Computes(s, K, f, Len(s)) /\ Retain(s, K) = f[Len(s)]
  BY RetainIsLoop
<1> DEFINE P == {i \in Nat : i <= Len(s) => SoFar(s, K, S, f[i], i)}
<1>2. Len(s) \in Nat
  OBVIOUS
<1>3. 0 \in P
  <2>1. f[0] = <<>>
    BY <1>1, <1>2 DEF Computes
  <2>2. <<>> \in Seq(S) /\ Len(<<>>) = 0
    BY EmptySeq
  <2>3. SoFar(s, K, S, <<>>, 0)
    BY <2>2 DEF SoFar
  <2> QED
    BY <2>1, <2>3
<1>4. ASSUME NEW i \in Nat, i \in P PROVE i + 1 \in P
  <2> SUFFICES ASSUME i + 1 <= Len(s) PROVE SoFar(s, K, S, f[i + 1], i + 1)
    OBVIOUS
  <2>1. i + 1 \in 0..Len(s) /\ i + 1 # 0 /\ (i + 1) - 1 = i /\ i + 1 \in 1..Len(s)
    BY <1>2, <1>4
  <2>2. f[i + 1] = Keep(s, K, f, i + 1)
    <3> HIDE DEF P
    <3>1. f = [k \in 0..Len(s) |-> IF k = 0 THEN <<>> ELSE Keep(s, K, f, k)]
      BY <1>1 DEF Computes
    <3> DEFINE loop(k) == IF k = 0 THEN <<>> ELSE Keep(s, K, f, k)
    <3> HIDE DEF loop
    <3>2. f = [k \in 0..Len(s) |-> loop(k)]
      BY <3>1 DEF loop
    <3>3. f[i + 1] = loop(i + 1)
      BY <2>1, <3>2
    <3> QED
      BY <2>1, <3>3 DEF loop
  <2>3. Keep(s, K, f, i + 1) = IF s[i + 1] \in K THEN Append(f[i], s[i + 1]) ELSE f[i]
    BY <2>1 DEF Keep
  <2>4. SoFar(s, K, S, f[i], (i + 1) - 1)
    BY <1>2, <1>4, <2>1
  <2> HIDE DEF P
  <2>5. SoFar(s, K, S, IF s[i + 1] \in K THEN Append(f[i], s[i + 1]) ELSE f[i], i + 1)
    BY <2>1, <2>4, OneMore
  <2> QED
    BY <2>2, <2>3, <2>5
<1>5. \A i \in Nat : i \in P
  <2> HIDE DEF P
  <2> QED
    BY <1>3, <1>4, NumbersByInduction
<1>6. SoFar(s, K, S, f[Len(s)], Len(s))
  BY <1>2, <1>5
<1> QED
  BY <1>1, <1>6 DEF SoFar
-------------------------------------------------------------------------------
\* Every element of r is in s, and what is earlier in r is earlier in s.
PartOf(r, s) ==
  /\ \A p \in 1..Len(r) : \E i \in 1..Len(s) : s[i] = r[p]
  /\ \A p, q \in 1..Len(r) :
        p < q => \E i, j \in 1..Len(s) : i < j /\ s[i] = r[p] /\ s[j] = r[q]

NoneTwice(s) == \A i, j \in 1..Len(s) : s[i] = s[j] => i = j

(* What retain leaves is a part of what there was: exactly that in K       *)
(* (store.rs:171-200).                                                     *)
LEMMA RetainIsPart ==
  ASSUME NEW S, NEW s \in Seq(S), NEW K
  PROVE  /\ Retain(s, K) \in Seq(S)
         /\ Len(Retain(s, K)) <= Len(s)
         /\ PartOf(Retain(s, K), s)
         /\ \A p \in 1..Len(Retain(s, K)) : Retain(s, K)[p] \in K
         /\ \A j \in 1..Len(s) :
               s[j] \in K => \E p \in 1..Len(Retain(s, K)) : Retain(s, K)[p] = s[j]
<1> DEFINE r == Retain(s, K)
<1>1. /\ r \in Seq(S)
      /\ Len(r) <= Len(s)
      /\ \A p \in 1..Len(r) : \E j \in 1..Len(s) : s[j] = r[p] /\ s[j] \in K
      /\ \A j \in 1..Len(s) : s[j] \in K => \E p \in 1..Len(r) : r[p] = s[j]
      /\ \A p, q \in 1..Len(r) :
            p < q => \E j, k \in 1..Len(s) : j < k /\ s[j] = r[p] /\ s[k] = r[q]
  BY RetainProperties
<1> HIDE DEF r
<1>2. PartOf(r, s)
  BY <1>1 DEF PartOf
<1>3. \A p \in 1..Len(r) : r[p] \in K
  BY <1>1
<1>4. /\ r \in Seq(S) /\ Len(r) <= Len(s) /\ PartOf(r, s)
      /\ \A p \in 1..Len(r) : r[p] \in K
      /\ \A j \in 1..Len(s) : s[j] \in K => \E p \in 1..Len(r) : r[p] = s[j]
  BY <1>1, <1>2, <1>3
<1> QED
  BY <1>4 DEF r

(* A stretch of a queue, as its first or its last entries (service.rs:451, *)
(* store.rs:142-147), is a part of it.                                     *)
LEMMA StretchIsPart ==
  ASSUME NEW S, NEW s \in Seq(S), NEW m \in Nat \ {0}, NEW n \in 0..Len(s)
  PROVE  /\ SubSeq(s, m, n) \in Seq(S)
         /\ Len(SubSeq(s, m, n)) = IF m <= n THEN n - m + 1 ELSE 0
         /\ \A p \in 1..Len(SubSeq(s, m, n)) :
               /\ SubSeq(s, m, n)[p] = s[m + p - 1]
               /\ m + p - 1 \in 1..Len(s)
         /\ PartOf(SubSeq(s, m, n), s)
<1> DEFINE r == SubSeq(s, m, n)
<1>0. Len(s) \in Nat /\ m \in Int /\ n \in Int
  BY LenProperties
<1>1. \A i \in m..n : s[i] \in S
  BY <1>0, ElementOfSeq
<1>2. /\ r \in Seq(S)
      /\ Len(r) = IF m <= n THEN n - m + 1 ELSE 0
      /\ \A i \in 1 .. n-m+1 : r[i] = s[m+i-1]
  BY <1>0, <1>1, SubSeqProperties
<1> HIDE DEF r
<1>3. \A p \in 1..Len(r) : r[p] = s[m + p - 1] /\ m + p - 1 \in 1..Len(s)
  BY <1>0, <1>2
<1>4. \A p, q \in 1..Len(r) : p < q => m + p - 1 < m + q - 1
  BY <1>0, <1>2
<1>5. PartOf(r, s)
  BY <1>3, <1>4 DEF PartOf
<1>6. /\ r \in Seq(S)
      /\ Len(r) = IF m <= n THEN n - m + 1 ELSE 0
      /\ \A p \in 1..Len(r) : r[p] = s[m + p - 1] /\ m + p - 1 \in 1..Len(s)
      /\ PartOf(r, s)
  BY <1>2, <1>3, <1>5
<1> QED
  BY <1>6 DEF r

(* A part of a part is a part.                                             *)
LEMMA PartOfPart ==
  ASSUME NEW r, NEW s, NEW t, PartOf(r, s), PartOf(s, t)
  PROVE  PartOf(r, t)
<1>1. \A p \in 1..Len(r) : \E i \in 1..Len(t) : t[i] = r[p]
  <2> TAKE p \in 1..Len(r)
  <2>1. PICK i \in 1..Len(s) : s[i] = r[p]
    BY DEF PartOf
  <2> QED
    BY <2>1 DEF PartOf
<1>2. \A p, q \in 1..Len(r) :
        p < q => \E i, j \in 1..Len(t) : i < j /\ t[i] = r[p] /\ t[j] = r[q]
  <2> TAKE p, q \in 1..Len(r)
  <2> HAVE p < q
  <2>1. PICK i \in 1..Len(s), j \in 1..Len(s) : i < j /\ s[i] = r[p] /\ s[j] = r[q]
    BY DEF PartOf
  <2>2. PICK a \in 1..Len(t), b \in 1..Len(t) : a < b /\ t[a] = s[i] /\ t[b] = s[j]
    BY <2>1 DEF PartOf
  <2> QED
    BY <2>1, <2>2
<1> QED
  BY <1>1, <1>2 DEF PartOf

(* push_back on the whole keeps a part of it a part, and on both does too. *)
LEMMA AppendKeepsParts ==
  ASSUME NEW S, NEW r \in Seq(S), NEW s \in Seq(S), NEW x \in S, PartOf(r, s)
  PROVE  PartOf(r, Append(s, x)) /\ PartOf(Append(r, x), Append(s, x))
<1> DEFINE t == Append(s, x)
           u == Append(r, x)
<1>1. /\ Len(s) \in Nat /\ Len(t) = Len(s) + 1 /\ t[Len(s) + 1] = x
      /\ \A i \in 1..Len(s) : t[i] = s[i]
  BY AppendProperties, LenProperties
<1>2. /\ Len(r) \in Nat /\ Len(u) = Len(r) + 1 /\ u[Len(r) + 1] = x
      /\ \A i \in 1..Len(r) : u[i] = r[i]
  BY AppendProperties, LenProperties
<1> HIDE DEF t, u
<1>3. \A p \in 1..Len(r) : \E i \in 1..Len(s) : s[i] = r[p]
  BY DEF PartOf
<1>4. \A i \in 1..Len(s) : i \in 1..Len(t) /\ i < Len(t)
  BY <1>1
<1>5. Len(t) \in 1..Len(t) /\ t[Len(t)] = x
  BY <1>1
<1>6. PartOf(s, t)
  BY <1>1, <1>4 DEF PartOf
<1>7. PartOf(r, t)
  BY <1>6, PartOfPart
<1>8. \A p \in 1..Len(u) : p \in 1..Len(r) \/ p = Len(r) + 1
  BY <1>2
<1>9. \A p \in 1..Len(u) : \E i \in 1..Len(t) : t[i] = u[p]
  <2> TAKE p \in 1..Len(u)
  <2>1. CASE p \in 1..Len(r)
    BY <1>2, <1>7, <2>1 DEF PartOf
  <2>2. CASE p = Len(r) + 1
    BY <1>2, <1>5, <2>2
  <2> QED
    BY <1>8, <2>1, <2>2
<1>10. \A p, q \in 1..Len(u) :
         p < q => \E i, j \in 1..Len(t) : i < j /\ t[i] = u[p] /\ t[j] = u[q]
  <2> TAKE p, q \in 1..Len(u)
  <2> HAVE p < q
  <2>1. p \in 1..Len(r)
    BY <1>2
  <2>2. CASE q \in 1..Len(r)
    <3>1. PICK i \in 1..Len(t), j \in 1..Len(t) : i < j /\ t[i] = r[p] /\ t[j] = r[q]
      BY <1>7, <2>1, <2>2 DEF PartOf
    <3> QED
      BY <1>2, <2>1, <2>2, <3>1
  <2>3. CASE q = Len(r) + 1
    <3>1. PICK i \in 1..Len(s) : s[i] = r[p]
      BY <1>3, <2>1
    <3>2. i \in 1..Len(t) /\ Len(t) \in 1..Len(t) /\ i < Len(t)
      BY <1>4, <1>5
    <3>3. t[i] = u[p] /\ t[Len(t)] = u[q]
      BY <1>1, <1>2, <1>5, <2>1, <2>3, <3>1
    <3> QED
      BY <3>2, <3>3
  <2> QED
    BY <1>8, <2>2, <2>3
<1>11. PartOf(u, t)
  BY <1>9, <1>10 DEF PartOf
<1> QED
  BY <1>7, <1>11 DEF t, u

(* A part of a queue that holds nothing twice holds nothing twice, and its *)
(* order is the queue's.                                                   *)
LEMMA PartKeepsOrder ==
  ASSUME NEW S, NEW r \in Seq(S), NEW s \in Seq(S), PartOf(r, s), NoneTwice(s)
  PROVE  /\ NoneTwice(r)
         /\ \A p, q \in 1..Len(r) : \A i, j \in 1..Len(s) :
               s[i] = r[p] /\ s[j] = r[q] => (i < j <=> p < q)
<1>0. Len(r) \in Nat /\ Len(s) \in Nat
  BY LenProperties
<1>1. \A p, q \in 1..Len(r) : p < q => r[p] # r[q]
  <2> TAKE p, q \in 1..Len(r)
  <2> HAVE p < q
  <2>1. PICK i \in 1..Len(s), j \in 1..Len(s) : i < j /\ s[i] = r[p] /\ s[j] = r[q]
    BY DEF PartOf
  <2>2. i # j
    BY <1>0, <2>1
  <2> QED
    BY <2>1, <2>2 DEF NoneTwice
<1>2. \A p, q \in 1..Len(r) : p = q \/ p < q \/ q < p
  BY <1>0
<1>3. NoneTwice(r)
  BY <1>1, <1>2 DEF NoneTwice
<1>4. ASSUME NEW p \in 1..Len(r), NEW q \in 1..Len(r), NEW i \in 1..Len(s), NEW j \in 1..Len(s),
             s[i] = r[p], s[j] = r[q], p < q
      PROVE  i < j
  <2>1. PICK a \in 1..Len(s), b \in 1..Len(s) : a < b /\ s[a] = r[p] /\ s[b] = r[q]
    BY <1>4 DEF PartOf
  <2>2. a = i /\ b = j
    BY <1>4, <2>1 DEF NoneTwice
  <2> QED
    BY <2>1, <2>2
<1>5. ASSUME NEW p \in 1..Len(r), NEW q \in 1..Len(r), NEW i \in 1..Len(s), NEW j \in 1..Len(s),
             s[i] = r[p], s[j] = r[q], i < j
      PROVE  p < q
  <2>1. CASE p = q
    <3>1. i = j
      BY <1>5, <2>1 DEF NoneTwice
    <3> QED
      BY <1>0, <1>5, <3>1
  <2>2. CASE q < p
    <3>1. j < i
      BY <1>4, <1>5, <2>2
    <3> QED
      BY <1>0, <1>5, <3>1
  <2> QED
    BY <1>2, <2>1, <2>2
<1> QED
  BY <1>3, <1>4, <1>5

(* The length of a queue that holds nothing twice is the number of what it *)
(* holds: VecDeque::len counts messages (store.rs:145).                    *)
LEMMA LengthCounts ==
  ASSUME NEW S, NEW s \in Seq(S), NoneTwice(s)
  PROVE  /\ IsFiniteSet({s[i] : i \in 1..Len(s)})
         /\ Cardinality({s[i] : i \in 1..Len(s)}) = Len(s)
<1> DEFINE C == {s[i] : i \in 1..Len(s)}
<1>1. Len(s) \in Nat /\ s \in [1..Len(s) -> S]
  BY LenProperties
<1>2. s \in [1..Len(s) -> C]
  BY <1>1
<1>3. s \in Bijection(1..Len(s), C)
  BY <1>2 DEF Bijection, Injection, Surjection, IsInjective, NoneTwice
<1>4. ExistsBijection(1..Len(s), C)
  BY <1>3 DEF ExistsBijection
<1>5. IsFiniteSet(1..Len(s)) /\ Cardinality(1..Len(s)) = Len(s)
  <2>1. 1 \in Int /\ Len(s) \in Int /\ (IF 1 > Len(s) THEN 0 ELSE Len(s) - 1 + 1) = Len(s)
    BY <1>1
  <2> QED
    BY <2>1, FS_Interval
<1> QED
  BY <1>4, <1>5, FS_Bijection
===============================================================================
