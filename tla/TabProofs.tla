------------------------------ MODULE TabProofs ------------------------------
(***************************************************************************)
(* Proofs about the tabs and workspaces of a window (WorkspaceShell), for  *)
(* any tabs, workspaces, settings and bounds: what the stores relate to    *)
(* each other stays sound, and a locked tab is not lost.  First come facts *)
(* about the operators of Lists, which the rest of the shell cites too.    *)
(***************************************************************************)
EXTENDS WorkspaceShell, FiniteSetTheorems, NaturalsInduction, WellFoundedInduction, TLAPS

-----------------------------------------------------------------------------
(* Lists.  Each fact is an induction over the prefixes of a list; it is   *)
(* made from the least prefix that fails, since the induction theorems of *)
(* the library cannot be instantiated here.                               *)

\* A set of natural numbers that is not empty has a least element.
LEMMA Least ==
    ASSUME NEW T \in SUBSET Nat, T # {}
    PROVE  \E m \in T : \A n \in T : m <= n
  <1> DEFINE R == {p \in Nat \X Nat : p[1] < p[2]}
  <1>1. IsWellFoundedOn(R, Nat)
    BY NatLessThanWellFounded, Zenon DEF OpToRel
  <1>2. \E x \in T : \A y \in T : ~(<<y, x>> \in R)
    <2> HIDE DEF R
    <2> QED BY <1>1, WFMin, Zenon
  <1>3. PICK m \in T : \A y \in T : ~(<<y, m>> \in R)
    BY <1>2
  <1>4. ASSUME NEW n \in T PROVE m <= n
    <2>1. n \in Nat /\ m \in Nat
      OBVIOUS
    <2>2. ~(<<n, m>> \in R)
      BY <1>3
    <2> QED BY <2>1, <2>2
  <1> QED BY <1>4

\* A set of numbers up to n that has 0, and the successor of each of its
\* members below n, has them all.
LEMMA UpTo ==
    ASSUME NEW n \in Nat, NEW T, 0 \in T,
           \A i \in 1..n : (i - 1) \in T => i \in T
    PROVE  \A i \in 0..n : i \in T
  <1> DEFINE Fails == {i \in 0..n : i \notin T}
  <1>1. SUFFICES ASSUME Fails # {} PROVE FALSE
    OBVIOUS
  <1>2. Fails \in SUBSET Nat
    OBVIOUS
  <1>3. PICK m \in Fails : \A i \in Fails : m <= i
    <2> HIDE DEF Fails
    <2> QED BY <1>1, <1>2, Least
  <1>4. m \in 1..n
    BY <1>3
  <1>5. (m - 1) \in T
    <2>1. m - 1 \in 0..n /\ ~(m <= m - 1)
      BY <1>4
    <2>2. (m - 1) \notin Fails
      BY <1>3, <2>1
    <2> QED BY <2>1, <2>2
  <1> QED BY <1>3, <1>4, <1>5

-----------------------------------------------------------------------------
(* Without.                                                               *)

\* The values of its function on the prefixes up to n.
Filtered(f, s, D, n) ==
    f = [i \in 0..n |-> IF i = 0 THEN <<>> ELSE IF s[i] \in D THEN f[i - 1] ELSE Append(f[i - 1], s[i])]

LEMMA FilteredExists ==
    ASSUME NEW S, NEW s \in Seq(S), NEW D
    PROVE  \E f : Filtered(f, s, D, Len(s))
  <1> DEFINE T == {n \in 0..Len(s) : \E f : Filtered(f, s, D, n)}
  <1>1. Len(s) \in Nat
    OBVIOUS
  <1>2. 0 \in T
    <2> DEFINE f == [i \in 0..0 |-> <<>>]
    <2>1. Filtered(f, s, D, 0)
      BY DEF Filtered
    <2> QED BY <1>1, <2>1
  <1>3. ASSUME NEW n \in 1..Len(s), (n - 1) \in T PROVE n \in T
    <2>1. PICK f : Filtered(f, s, D, n - 1)
      BY <1>3
    <2> DEFINE v == IF s[n] \in D THEN f[n - 1] ELSE Append(f[n - 1], s[n])
               g == [i \in 0..n |-> IF i = n THEN v ELSE f[i]]
    <2>2. ASSUME NEW i \in 0..n
          PROVE  g[i] = IF i = 0 THEN <<>> ELSE IF s[i] \in D THEN g[i - 1] ELSE Append(g[i - 1], s[i])
      <3>1. CASE i = n
        BY <3>1, <1>1
      <3>2. CASE i # n
        <4>1. i \in 0..(n - 1) /\ g[i] = f[i] /\ (i # 0 => g[i - 1] = f[i - 1])
          BY <3>2, <1>1
        <4>2. f[i] = IF i = 0 THEN <<>> ELSE IF s[i] \in D THEN f[i - 1] ELSE Append(f[i - 1], s[i])
          BY <2>1, <4>1 DEF Filtered
        <4> QED BY <4>1, <4>2
      <3> QED BY <3>1, <3>2
    <2>3. Filtered(g, s, D, n)
      <3> HIDE DEF v
      <3>1. g = [i \in 0..n |-> g[i]]
        OBVIOUS
      <3> HIDE DEF g
      <3> QED BY <2>2, <3>1 DEF Filtered
    <2> HIDE DEF g
    <2> QED BY <2>3
  <1>4. \A i \in 0..Len(s) : i \in T
    <2> HIDE DEF T
    <2> QED BY <1>1, <1>2, <1>3, UpTo
  <1> QED BY <1>1, <1>4

\* r is what is left of the first n elements of s: the elements at the
\* places that at gives, in order, which are all that are not in D.
Rest(r, at, s, D, n) ==
    /\ at \in [1..Len(r) -> 1..n]
    /\ \A j, k \in 1..Len(r) : j < k => at[j] < at[k]
    /\ \A k \in 1..Len(r) : r[k] = s[at[k]] /\ r[k] \notin D
    /\ \A i \in 1..n : s[i] \notin D => \E k \in 1..Len(r) : at[k] = i

\* What Array.filter gives.
LEMMA WithoutRest ==
    ASSUME NEW S, NEW s \in Seq(S), NEW D
    PROVE  Without(s, D) \in Seq(S) /\ \E at : Rest(Without(s, D), at, s, D, Len(s))
  <1> DEFINE F == CHOOSE f : Filtered(f, s, D, Len(s))
  <1>1. Len(s) \in Nat /\ \A i \in 1..Len(s) : s[i] \in S
    OBVIOUS
  <1>2. Filtered(F, s, D, Len(s))
    BY FilteredExists
  <1>3. Without(s, D) = F[Len(s)]
    BY DEF Without, Filtered
  <1> HIDE DEF F
  <1>4. F[0] = <<>> /\ \A i \in 1..Len(s) : F[i] = IF s[i] \in D THEN F[i - 1] ELSE Append(F[i - 1], s[i])
    <2> DEFINE g == [i \in 0..Len(s) |-> IF i = 0 THEN <<>> ELSE IF s[i] \in D THEN F[i - 1] ELSE Append(F[i - 1], s[i])]
    <2>1. F = g
      BY <1>2 DEF Filtered
    <2>2. ASSUME NEW i \in 0..Len(s)
          PROVE  F[i] = IF i = 0 THEN <<>> ELSE IF s[i] \in D THEN F[i - 1] ELSE Append(F[i - 1], s[i])
      <3>1. g[i] = IF i = 0 THEN <<>> ELSE IF s[i] \in D THEN F[i - 1] ELSE Append(F[i - 1], s[i])
        OBVIOUS
      <3>2. F[i] = g[i]
        <4> HIDE DEF g
        <4> QED BY <2>1
      <3> QED BY <3>1, <3>2
    <2>3. 0 \in 0..Len(s) /\ \A i \in 1..Len(s) : i \in 0..Len(s) /\ i # 0
      BY <1>1
    <2> QED BY <2>2, <2>3
  <1> DEFINE T == {n \in 0..Len(s) : F[n] \in Seq(S) /\ \E at : Rest(F[n], at, s, D, n)}
  <1>5. 0 \in T
    <2> DEFINE at == [k \in 1..0 |-> 0]
    <2>1. Rest(<<>>, at, s, D, 0) /\ <<>> \in Seq(S)
      BY DEF Rest
    <2>2. \E to : Rest(<<>>, to, s, D, 0)
      BY <2>1
    <2>3. F[0] \in Seq(S) /\ \E to : Rest(F[0], to, s, D, 0)
      BY <1>4, <2>1, <2>2
    <2> QED BY <1>1, <2>3
  <1>6. ASSUME NEW n \in 1..Len(s), (n - 1) \in T PROVE n \in T
    <2>1. F[n - 1] \in Seq(S)
      BY <1>6
    <2>2. PICK at : Rest(F[n - 1], at, s, D, n - 1)
      BY <1>6
    <2> DEFINE r == F[n - 1]
    <2>3. CASE s[n] \in D
      <3>1. F[n] = F[n - 1]
        BY <1>4, <2>3
      <3>2. Rest(F[n - 1], at, s, D, n)
        BY <1>1, <2>1, <2>2, <2>3 DEF Rest
      <3> QED BY <2>1, <3>1, <3>2
    <2>4. CASE s[n] \notin D
      <3> DEFINE q == Append(r, s[n])
                 to == [k \in 1..(Len(r) + 1) |-> IF k = Len(r) + 1 THEN n ELSE at[k]]
      <3>1. F[n] = q
        BY <1>4, <2>4
      <3>2. /\ r \in Seq(S) /\ Len(r) \in Nat
            /\ at \in [1..Len(r) -> 1..(n - 1)]
            /\ \A j, k \in 1..Len(r) : j < k => at[j] < at[k]
            /\ \A k \in 1..Len(r) : r[k] = s[at[k]] /\ r[k] \notin D
            /\ \A i \in 1..(n - 1) : s[i] \notin D => \E k \in 1..Len(r) : at[k] = i
        BY <2>1, <2>2 DEF Rest
      <3>3. q \in Seq(S) /\ Len(q) = Len(r) + 1 /\ q[Len(r) + 1] = s[n] /\ \A k \in 1..Len(r) : q[k] = r[k]
        BY <1>1, <3>2
      <3> HIDE DEF r, q
      <3>4. Rest(q, to, s, D, n)
        <4>1. to \in [1..Len(q) -> 1..n]
          BY <3>2, <3>3
        <4>2. ASSUME NEW j \in 1..Len(q), NEW k \in 1..Len(q), j < k PROVE to[j] < to[k]
          <5>0. Len(r) \in Nat /\ Len(q) = Len(r) + 1 /\ at \in [1..Len(r) -> 1..(n - 1)]
            BY <3>2, <3>3
          <5>1. j \in 1..Len(r) /\ to[j] = at[j] /\ at[j] \in 1..(n - 1)
            <6>1. j \in 1..Len(r) /\ j # Len(r) + 1 /\ j \in 1..(Len(r) + 1)
              <7> HIDE DEF to
              <7> QED BY <5>0, <4>2
            <6>2. to[j] = at[j]
              BY <6>1
            <6>3. at[j] \in 1..(n - 1)
              <7> HIDE DEF to
              <7> QED BY <5>0, <6>1
            <6> QED BY <6>1, <6>2, <6>3
          <5>2. CASE k = Len(r) + 1
            <6>1. to[k] = n
              BY <3>3, <5>2
            <6> QED BY <5>1, <6>1
          <5>3. CASE k # Len(r) + 1
            <6>1. k \in 1..Len(r) /\ to[k] = at[k]
              BY <3>2, <3>3, <5>3
            <6> QED BY <3>2, <4>2, <5>1, <6>1
          <5> QED BY <5>2, <5>3
        <4>3. \A k \in 1..Len(q) : q[k] = s[to[k]] /\ q[k] \notin D
          BY <3>2, <3>3, <2>4
        <4>4. ASSUME NEW i \in 1..n, s[i] \notin D PROVE \E k \in 1..Len(q) : to[k] = i
          <5>1. CASE i = n
            <6>1. to[Len(r) + 1] = i /\ Len(r) + 1 \in 1..Len(q)
              BY <3>2, <3>3, <5>1
            <6> QED BY <6>1
          <5>2. CASE i # n
            <6>1. PICK k \in 1..Len(r) : at[k] = i
              BY <3>2, <4>4, <5>2
            <6>2. to[k] = i /\ k \in 1..Len(q)
              BY <3>2, <3>3, <6>1
            <6> QED BY <6>2
          <5> QED BY <5>1, <5>2
        <4> HIDE DEF to
        <4> QED BY <4>1, <4>2, <4>3, <4>4 DEF Rest
      <3> HIDE DEF to
      <3> QED BY <3>1, <3>3, <3>4
    <2> QED BY <2>3, <2>4
  <1>7. \A i \in 0..Len(s) : i \in T
    <2> HIDE DEF T
    <2> QED BY <1>1, <1>5, <1>6, UpTo
  <1> QED BY <1>1, <1>3, <1>7

\* The elements that are left.
LEMMA WithoutSet ==
    ASSUME NEW S, NEW s \in Seq(S), NEW D
    PROVE  Without(s, D) \in Seq(S) /\ ToSet(Without(s, D)) = ToSet(s) \ D
  <1> DEFINE r == Without(s, D)
  <1>1. r \in Seq(S) /\ \E at : Rest(r, at, s, D, Len(s))
    BY WithoutRest
  <1> HIDE DEF r
  <1>2. PICK at : Rest(r, at, s, D, Len(s))
    BY <1>1
  <1>3. DOMAIN r = 1..Len(r) /\ DOMAIN s = 1..Len(s)
    BY <1>1
  <1>4. ToSet(r) \subseteq ToSet(s) \ D
    BY <1>2, <1>3 DEF Rest, ToSet
  <1>5. ToSet(s) \ D \subseteq ToSet(r)
    BY <1>2, <1>3 DEF Rest, ToSet
  <1> QED BY <1>1, <1>4, <1>5 DEF r

LEMMA WithoutLength ==
    ASSUME NEW S, NEW s \in Seq(S), NEW D
    PROVE  Len(Without(s, D)) <= Len(s)
  <1> DEFINE r == Without(s, D)
  <1>1. r \in Seq(S) /\ \E at : Rest(r, at, s, D, Len(s))
    BY WithoutRest
  <1> HIDE DEF r
  <1>2. PICK at : Rest(r, at, s, D, Len(s))
    BY <1>1
  <1>3. Len(r) \in Nat /\ Len(s) \in Nat
    BY <1>1
  <1> DEFINE T == {0} \cup {k \in 1..Len(r) : at[k] >= k}
  <1>4. 0 \in T
    OBVIOUS
  <1>5. ASSUME NEW k \in 1..Len(r), (k - 1) \in T PROVE k \in T
    <2>1. at[k] \in 1..Len(s)
      BY <1>2 DEF Rest
    <2>2. CASE k = 1
      BY <2>1, <2>2
    <2>3. CASE k # 1
      <3>1. k - 1 \in 1..Len(r) /\ at[k - 1] >= k - 1 /\ k - 1 < k
        BY <1>3, <1>5, <2>3
      <3>2. at[k - 1] < at[k] /\ at[k - 1] \in 1..Len(s)
        BY <1>2, <3>1 DEF Rest
      <3> QED BY <1>3, <2>1, <3>1, <3>2
    <2> QED BY <2>2, <2>3
  <1>6. \A k \in 0..Len(r) : k \in T
    <2> HIDE DEF T
    <2> QED BY <1>3, <1>4, <1>5, UpTo
  <1>7. CASE Len(r) = 0
    BY <1>3, <1>7 DEF r
  <1>8. CASE Len(r) # 0
    <2>1. Len(r) \in 1..Len(r)
      BY <1>3, <1>8
    <2>2. at[Len(r)] >= Len(r)
      BY <1>3, <1>6, <1>8, <2>1
    <2>3. at[Len(r)] \in 1..Len(s)
      BY <1>2, <2>1 DEF Rest
    <2> QED BY <1>3, <2>2, <2>3 DEF r
  <1> QED BY <1>7, <1>8

\* What tells the elements of a list apart tells apart those that are left.
LEMMA WithoutDistinct ==
    ASSUME NEW S, NEW s \in Seq(S), NEW D, NEW f,
           \A i, j \in 1..Len(s) : i # j => f[s[i]] # f[s[j]]
    PROVE  \A i, j \in 1..Len(Without(s, D)) : i # j => f[Without(s, D)[i]] # f[Without(s, D)[j]]
  <1> DEFINE r == Without(s, D)
  <1>1. r \in Seq(S) /\ \E at : Rest(r, at, s, D, Len(s))
    BY WithoutRest
  <1> HIDE DEF r
  <1>2. PICK at : Rest(r, at, s, D, Len(s))
    BY <1>1
  <1>3. ASSUME NEW i \in 1..Len(r), NEW j \in 1..Len(r), i # j PROVE f[r[i]] # f[r[j]]
    <2>1. i < j \/ j < i
      BY <1>1, <1>3
    <2>2. at[i] \in 1..Len(s) /\ at[j] \in 1..Len(s) /\ at[i] # at[j]
      BY <1>2, <2>1 DEF Rest
    <2> QED BY <1>2, <2>2 DEF Rest
  <1> QED BY <1>3 DEF r

LEMMA WithinSet ==
    ASSUME NEW S, NEW s \in Seq(S), NEW T
    PROVE  Within(s, T) \in Seq(S) /\ ToSet(Within(s, T)) = ToSet(s) \cap T
  <1> DEFINE D == ToSet(s) \ T
  <1>1. ToSet(s) \ D = ToSet(s) \cap T
    OBVIOUS
  <1>2. Within(s, T) = Without(s, D)
    BY DEF Within
  <1> HIDE DEF D
  <1> QED BY <1>1, <1>2, WithoutSet

LEMMA ToSetAppend ==
    ASSUME NEW S, NEW s \in Seq(S), NEW x \in S
    PROVE  Append(s, x) \in Seq(S) /\ ToSet(Append(s, x)) = ToSet(s) \cup {x}
  <1> DEFINE q == Append(s, x)
  <1>1. /\ q \in Seq(S) /\ Len(s) \in Nat /\ DOMAIN s = 1..Len(s) /\ DOMAIN q = 1..(Len(s) + 1)
        /\ q[Len(s) + 1] = x /\ \A i \in 1..Len(s) : q[i] = s[i]
    OBVIOUS
  <1> HIDE DEF q
  <1>2. ToSet(q) = ToSet(s) \cup {x}
    BY <1>1 DEF ToSet
  <1> QED BY <1>1, <1>2 DEF q

LEMMA ToSetEmpty == ToSet(<<>>) = {}
  BY DEF ToSet

-----------------------------------------------------------------------------
(* The tabs and workspaces of a window (WorkspaceShell).  Every store      *)
(* operation is shown to keep a sound store sound and its locked tabs open *)
(* and locked (Fine), then every handler, as a chain of such operations.   *)

-----------------------------------------------------------------------------
(* Lists without repetition, and what moves their elements.               *)

LEMMA Greatest ==
    ASSUME NEW n \in Nat, NEW T \in SUBSET (0..n), T # {}
    PROVE  \E m \in T : \A i \in T : i <= m
  <1> DEFINE R == {n - i : i \in T}
  <1>1. R \in SUBSET Nat /\ R # {}
    <2>1. \A i \in T : n - i \in Nat
      OBVIOUS
    <2> QED BY <2>1
  <1>2. PICK k \in R : \A i \in R : k <= i
    <2> HIDE DEF R
    <2> QED BY <1>1, Least
  <1>3. PICK m \in T : k = n - m
    BY <1>2
  <1>4. ASSUME NEW i \in T PROVE i <= m
    <2>1. k <= n - i
      BY <1>2
    <2> QED BY <1>3, <2>1
  <1> QED BY <1>3, <1>4

LEMMA SetOf ==
    ASSUME NEW S, NEW s \in Seq(S)
    PROVE  /\ Len(s) \in Nat /\ DOMAIN s = 1..Len(s)
           /\ ToSet(s) = {s[i] : i \in 1..Len(s)} /\ ToSet(s) \subseteq S
           /\ IsInjective(s) <=> \A i, j \in 1..Len(s) : s[i] = s[j] => i = j
           /\ s # <<>> => 1 \in 1..Len(s) /\ s[1] \in ToSet(s)
  BY DEF ToSet, IsInjective

LEMMA WithoutOnce ==
    ASSUME NEW S, NEW s \in Seq(S), NEW D, IsInjective(s)
    PROVE  IsInjective(Without(s, D))
  <1> DEFINE f == [x \in S |-> x]
  <1>1. \A i, j \in 1..Len(s) : i # j => f[s[i]] # f[s[j]]
    BY SetOf
  <1>2. \A i, j \in 1..Len(Without(s, D)) : i # j => f[Without(s, D)[i]] # f[Without(s, D)[j]]
    <2> HIDE DEF f
    <2> QED BY <1>1, WithoutDistinct
  <1>3. Without(s, D) \in Seq(S)
    BY WithoutSet
  <1> QED BY <1>2, <1>3, SetOf

LEMMA WithinOnce ==
    ASSUME NEW S, NEW s \in Seq(S), NEW T, IsInjective(s)
    PROVE  IsInjective(Within(s, T))
  BY WithoutOnce DEF Within

LEMMA DropFacts ==
    ASSUME NEW S, NEW s \in Seq(S), NEW x
    PROVE  /\ Drop(s, x) \in Seq(S) /\ ToSet(Drop(s, x)) = ToSet(s) \ {x}
           /\ IsInjective(s) => IsInjective(Drop(s, x))
  BY WithoutSet, WithoutOnce DEF Drop

LEMMA AppendOnce ==
    ASSUME NEW S, NEW s \in Seq(S), NEW x \in S, x \notin ToSet(s), IsInjective(s)
    PROVE  IsInjective(Append(s, x))
  <1> DEFINE q == Append(s, x)
  <1>1. /\ q \in Seq(S) /\ Len(s) \in Nat /\ Len(q) = Len(s) + 1
        /\ q[Len(s) + 1] = x /\ \A i \in 1..Len(s) : q[i] = s[i]
    OBVIOUS
  <1> HIDE DEF q
  <1>2. \A i \in 1..Len(s) : s[i] # x
    BY SetOf
  <1>3. \A i, j \in 1..Len(s) : s[i] = s[j] => i = j
    BY SetOf
  <1>4. ASSUME NEW i \in 1..Len(q), NEW j \in 1..Len(q), q[i] = q[j] PROVE i = j
    <2>1. (i = Len(s) + 1 \/ i \in 1..Len(s)) /\ (j = Len(s) + 1 \/ j \in 1..Len(s))
      BY <1>1
    <2> QED BY <1>1, <1>2, <1>3, <1>4, <2>1
  <1>5. IsInjective(q)
    BY <1>1, <1>4, SetOf
  <1> QED BY <1>5 DEF q

LEMMA SubSeqFacts ==
    ASSUME NEW S, NEW s \in Seq(S), NEW a \in 1..(Len(s) + 1), NEW b \in 0..Len(s), a <= b + 1
    PROVE  /\ SubSeq(s, a, b) \in Seq(S) /\ Len(SubSeq(s, a, b)) = b - a + 1
           /\ \A i \in 1..(b - a + 1) : SubSeq(s, a, b)[i] = s[a + i - 1]
           /\ ToSet(SubSeq(s, a, b)) \subseteq ToSet(s)
           /\ IsInjective(s) => IsInjective(SubSeq(s, a, b))
  <1> DEFINE q == SubSeq(s, a, b)
  <1>1. /\ q \in Seq(S) /\ Len(q) = b - a + 1 /\ Len(s) \in Nat
        /\ \A i \in 1..(b - a + 1) : q[i] = s[a + i - 1] /\ a + i - 1 \in 1..Len(s)
    OBVIOUS
  <1> HIDE DEF q
  <1>d. DOMAIN q = 1..(b - a + 1) /\ DOMAIN s = 1..Len(s)
    BY <1>1
  <1>2. ToSet(q) \subseteq ToSet(s)
    BY <1>1, <1>d DEF ToSet
  <1>3. ASSUME IsInjective(s) PROVE IsInjective(q)
    <2>1. \A i, j \in 1..Len(s) : s[i] = s[j] => i = j
      BY <1>3, SetOf
    <2>2. \A i, j \in 1..Len(q) : q[i] = q[j] => i = j
      BY <1>1, <2>1
    <2> QED BY <1>1, <2>2, SetOf
  <1> QED BY <1>1, <1>2, <1>3 DEF q

LEMMA ConcatFacts ==
    ASSUME NEW S, NEW s \in Seq(S), NEW t \in Seq(S)
    PROVE  /\ s \o t \in Seq(S) /\ ToSet(s \o t) = ToSet(s) \cup ToSet(t)
           /\ IsInjective(s) /\ IsInjective(t) /\ ToSet(s) \cap ToSet(t) = {} => IsInjective(s \o t)
  <1> DEFINE q == s \o t
  <1>1. /\ q \in Seq(S) /\ Len(q) = Len(s) + Len(t) /\ Len(s) \in Nat /\ Len(t) \in Nat
        /\ \A i \in 1..Len(s) : q[i] = s[i]
        /\ \A i \in 1..Len(t) : q[Len(s) + i] = t[i]
    OBVIOUS
  <1> HIDE DEF q
  <1>d. DOMAIN q = 1..(Len(s) + Len(t)) /\ DOMAIN s = 1..Len(s) /\ DOMAIN t = 1..Len(t)
    BY <1>1
  <1>2. \A i \in 1..Len(q) : i \in 1..Len(s) \/ (i - Len(s) \in 1..Len(t) /\ Len(s) + (i - Len(s)) = i)
    BY <1>1
  <1>3. ToSet(q) = ToSet(s) \cup ToSet(t)
    <2>1. ToSet(q) \subseteq ToSet(s) \cup ToSet(t)
      <3>1. ASSUME NEW i \in 1..Len(q) PROVE q[i] \in ToSet(s) \cup ToSet(t)
        <4>1. CASE i \in 1..Len(s)
          BY <1>1, <1>d, <4>1 DEF ToSet
        <4>2. CASE i \notin 1..Len(s)
          <5>1. i - Len(s) \in 1..Len(t) /\ q[i] = t[i - Len(s)]
            <6>1. i - Len(s) \in 1..Len(t) /\ Len(s) + (i - Len(s)) = i
              BY <1>2, <4>2
            <6> QED BY <1>1, <6>1
          <5> QED BY <1>d, <5>1 DEF ToSet
        <4> QED BY <4>1, <4>2
      <3> QED BY <1>1, <1>d, <3>1 DEF ToSet
    <2>2. \A i \in 1..Len(s) : i \in 1..Len(q)
      BY <1>1
    <2>3. \A i \in 1..Len(t) : Len(s) + i \in 1..Len(q)
      BY <1>1
    <2>4. ToSet(s) \subseteq ToSet(q)
      BY <1>1, <1>d, <2>2 DEF ToSet
    <2>5. ToSet(t) \subseteq ToSet(q)
      <3>1. ASSUME NEW i \in 1..Len(t) PROVE t[i] \in ToSet(q)
        <4>1. q[Len(s) + i] = t[i] /\ Len(s) + i \in DOMAIN q
          BY <1>1, <1>d, <2>3
        <4> QED BY <4>1 DEF ToSet
      <3> QED BY <1>d, <3>1 DEF ToSet
    <2> QED BY <2>1, <2>4, <2>5
  <1>4. ASSUME IsInjective(s), IsInjective(t), ToSet(s) \cap ToSet(t) = {} PROVE IsInjective(q)
    <2>1. (\A i, j \in 1..Len(s) : s[i] = s[j] => i = j) /\ (\A i, j \in 1..Len(t) : t[i] = t[j] => i = j)
      BY <1>4, SetOf
    <2>2. \A i \in 1..Len(s), j \in 1..Len(t) : s[i] # t[j]
      BY <1>4, <1>d DEF ToSet
    <2>e. \A i \in 1..Len(q) : i \notin 1..Len(s) => i - Len(s) \in 1..Len(t) /\ q[i] = t[i - Len(s)]
      <3>1. ASSUME NEW i \in 1..Len(q), i \notin 1..Len(s) PROVE i - Len(s) \in 1..Len(t) /\ q[i] = t[i - Len(s)]
        <4>1. i - Len(s) \in 1..Len(t) /\ Len(s) + (i - Len(s)) = i
          BY <1>2, <3>1
        <4> QED BY <1>1, <4>1
      <3> QED BY <3>1
    <2>3. ASSUME NEW i \in 1..Len(q), NEW j \in 1..Len(q), q[i] = q[j] PROVE i = j
      <3>1. CASE i \in 1..Len(s) /\ j \in 1..Len(s)
        BY <1>1, <2>1, <2>3, <3>1
      <3>2. CASE i \in 1..Len(s) /\ j \notin 1..Len(s)
        BY <1>1, <2>2, <2>3, <2>e, <3>2
      <3>3. CASE i \notin 1..Len(s) /\ j \in 1..Len(s)
        BY <1>1, <2>2, <2>3, <2>e, <3>3
      <3>4. CASE i \notin 1..Len(s) /\ j \notin 1..Len(s)
        <4>1. t[i - Len(s)] = t[j - Len(s)] /\ i - Len(s) \in 1..Len(t) /\ j - Len(s) \in 1..Len(t)
          BY <2>3, <2>e, <3>4
        <4>2. i - Len(s) = j - Len(s)
          BY <2>1, <4>1
        <4> QED BY <1>1, <4>2
      <3> QED BY <3>1, <3>2, <3>3, <3>4
    <2> QED BY <1>1, <2>3, SetOf
  <1> QED BY <1>1, <1>3, <1>4 DEF q

LEMMA CutFacts ==
    ASSUME NEW S, NEW s \in Seq(S), NEW i \in 0..Len(s), NEW j \in {i + 1, i + 2}, j <= Len(s) + 1
    PROVE  /\ SubSeq(s, 1, i) \in Seq(S) /\ SubSeq(s, j, Len(s)) \in Seq(S)
           /\ j = i + 1 => ToSet(SubSeq(s, 1, i)) \cup ToSet(SubSeq(s, j, Len(s))) = ToSet(s)
           /\ j = i + 2 => ToSet(SubSeq(s, 1, i)) \cup {s[i + 1]} \cup ToSet(SubSeq(s, j, Len(s))) = ToSet(s)
           /\ IsInjective(s) => /\ IsInjective(SubSeq(s, 1, i)) /\ IsInjective(SubSeq(s, j, Len(s)))
                                /\ ToSet(SubSeq(s, 1, i)) \cap ToSet(SubSeq(s, j, Len(s))) = {}
                                /\ j = i + 2 => s[i + 1] \notin ToSet(SubSeq(s, 1, i)) \cup ToSet(SubSeq(s, j, Len(s)))
  <1> DEFINE p == SubSeq(s, 1, i)
             q == SubSeq(s, j, Len(s))
  <1>0. Len(s) \in Nat /\ i \in Nat /\ j \in Nat
    OBVIOUS
  <1>1. /\ p \in Seq(S) /\ Len(p) = i /\ \A k \in 1..i : p[k] = s[k]
        /\ IsInjective(s) => IsInjective(p)
    <2>1. 1 \in 1..(Len(s) + 1) /\ i \in 0..Len(s) /\ 1 <= i + 1 /\ i - 1 + 1 = i /\ \A k \in 1..i : 1 + k - 1 = k
      BY <1>0
    <2> QED BY <2>1, SubSeqFacts
  <1>2. /\ q \in Seq(S) /\ Len(q) = Len(s) - j + 1 /\ \A k \in 1..(Len(s) - j + 1) : q[k] = s[j + k - 1]
        /\ IsInjective(s) => IsInjective(q)
    <2>1. j \in 1..(Len(s) + 1) /\ Len(s) \in 0..Len(s) /\ j <= Len(s) + 1
      BY <1>0
    <2> QED BY <2>1, SubSeqFacts
  <1> HIDE DEF p, q
  <1>3. ToSet(p) = {s[k] : k \in 1..i}
    <2>1. DOMAIN p = 1..i
      BY <1>1
    <2> QED BY <1>1, <2>1 DEF ToSet
  <1>4. ToSet(q) = {s[k] : k \in j..Len(s)}
    <2>1. ToSet(q) = {q[k] : k \in 1..(Len(s) - j + 1)}
      <3>1. DOMAIN q = 1..(Len(s) - j + 1)
        BY <1>2
      <3> QED BY <3>1 DEF ToSet
    <2>2. \A k \in 1..(Len(s) - j + 1) : j + k - 1 \in j..Len(s)
      BY <1>0
    <2>3. \A k \in j..Len(s) : k - j + 1 \in 1..(Len(s) - j + 1) /\ j + (k - j + 1) - 1 = k
      BY <1>0
    <2>4. \A k \in 1..(Len(s) - j + 1) : q[k] \in {s[l] : l \in j..Len(s)}
      BY <1>2, <2>2
    <2>5. ASSUME NEW k \in j..Len(s) PROVE s[k] \in {q[l] : l \in 1..(Len(s) - j + 1)}
      <3>1. q[k - j + 1] = s[k] /\ k - j + 1 \in 1..(Len(s) - j + 1)
        BY <1>2, <2>3
      <3> QED BY <3>1
    <2> QED BY <2>1, <2>4, <2>5
  <1>5. ToSet(s) = {s[k] : k \in 1..Len(s)}
    BY SetOf
  <1>6. \A k \in 1..Len(s) : k \in 1..i \/ k \in j..Len(s) \/ (j = i + 2 /\ k = i + 1)
    BY <1>0
  <1>7. 1..i \subseteq 1..Len(s) /\ j..Len(s) \subseteq 1..Len(s) /\ (j = i + 2 => i + 1 \in 1..Len(s))
    BY <1>0
  <1>8. (1..i) \cap (j..Len(s)) = {} /\ i + 1 \notin 1..i /\ (j = i + 2 => i + 1 \notin j..Len(s))
    BY <1>0
  <1>9. j = i + 1 => ToSet(p) \cup ToSet(q) = ToSet(s)
    BY <1>3, <1>4, <1>5, <1>6, <1>7, <1>0
  <1>10. j = i + 2 => ToSet(p) \cup {s[i + 1]} \cup ToSet(q) = ToSet(s)
    BY <1>3, <1>4, <1>5, <1>6, <1>7, <1>0
  <1>11. ASSUME IsInjective(s)
         PROVE  /\ ToSet(p) \cap ToSet(q) = {}
                /\ j = i + 2 => s[i + 1] \notin ToSet(p) \cup ToSet(q)
    <2>1. \A k, l \in 1..Len(s) : s[k] = s[l] => k = l
      BY <1>11, SetOf
    <2> QED BY <1>3, <1>4, <1>7, <1>8, <2>1
  <1> QED BY <1>1, <1>2, <1>9, <1>10, <1>11 DEF p, q

LEMMA InsertAfterFacts ==
    ASSUME NEW S, NEW s \in Seq(S), NEW i \in 0..Len(s), NEW x \in S
    PROVE  /\ InsertAfter(s, i, x) \in Seq(S) /\ ToSet(InsertAfter(s, i, x)) = ToSet(s) \cup {x}
           /\ InsertAfter(s, i, x) # <<>>
           /\ IsInjective(s) /\ x \notin ToSet(s) => IsInjective(InsertAfter(s, i, x))
  <1> DEFINE p == SubSeq(s, 1, i)
             q == SubSeq(s, i + 1, Len(s))
             o == <<x>>
  <1>0. i + 1 \in {i + 1, i + 2} /\ i + 1 <= Len(s) + 1 /\ i + 1 # i + 2
    OBVIOUS
  <1>1. /\ p \in Seq(S) /\ q \in Seq(S) /\ ToSet(p) \cup ToSet(q) = ToSet(s)
        /\ IsInjective(s) => IsInjective(p) /\ IsInjective(q) /\ ToSet(p) \cap ToSet(q) = {}
    BY <1>0, CutFacts
  <1>2. o \in Seq(S) /\ ToSet(o) = {x} /\ IsInjective(o)
    <2>1. o \in Seq(S) /\ Len(o) = 1 /\ o[1] = x
      OBVIOUS
    <2> HIDE DEF o
    <2> QED BY <2>1, SetOf
  <1>3. InsertAfter(s, i, x) = (p \o o) \o q
    BY DEF InsertAfter
  <1> HIDE DEF p, q, o
  <1>4. /\ p \o o \in Seq(S) /\ ToSet(p \o o) = ToSet(p) \cup {x}
        /\ IsInjective(s) /\ x \notin ToSet(s) => IsInjective(p \o o)
    BY <1>1, <1>2, ConcatFacts
  <1>5. /\ (p \o o) \o q \in Seq(S) /\ ToSet((p \o o) \o q) = ToSet(s) \cup {x}
        /\ IsInjective(s) /\ x \notin ToSet(s) => IsInjective((p \o o) \o q)
    <2> DEFINE r == p \o o
    <2>1. /\ r \in Seq(S) /\ ToSet(r) = ToSet(p) \cup {x}
          /\ IsInjective(s) /\ x \notin ToSet(s) => IsInjective(r)
      BY <1>4
    <2> HIDE DEF r
    <2>2. r \o q \in Seq(S) /\ ToSet(r \o q) = ToSet(r) \cup ToSet(q)
      BY <1>1, <2>1, ConcatFacts
    <2>3. ASSUME IsInjective(s), x \notin ToSet(s) PROVE IsInjective(r \o q)
      <3>1. IsInjective(r) /\ IsInjective(q) /\ ToSet(r) \cap ToSet(q) = {}
        BY <1>1, <2>1, <2>3
      <3> QED BY <1>1, <2>1, <3>1, ConcatFacts
    <2>4. ToSet(r \o q) = ToSet(s) \cup {x}
      BY <1>1, <2>1, <2>2
    <2> QED BY <2>2, <2>3, <2>4 DEF r
  <1>6. (p \o o) \o q # <<>>
    BY <1>5, ToSetEmpty
  <1> QED BY <1>3, <1>5, <1>6

LEMMA RemoveAtFacts ==
    ASSUME NEW S, NEW s \in Seq(S), NEW i \in 1..Len(s)
    PROVE  /\ RemoveAt(s, i) \in Seq(S) /\ Len(RemoveAt(s, i)) = Len(s) - 1
           /\ IsInjective(s) => /\ IsInjective(RemoveAt(s, i)) /\ s[i] \notin ToSet(RemoveAt(s, i))
                                /\ ToSet(RemoveAt(s, i)) \cup {s[i]} = ToSet(s)
  <1> DEFINE p == SubSeq(s, 1, i - 1)
             q == SubSeq(s, i + 1, Len(s))
  <1>0. /\ i - 1 \in 0..Len(s) /\ i + 1 \in {(i - 1) + 1, (i - 1) + 2} /\ i + 1 <= Len(s) + 1
        /\ i + 1 = (i - 1) + 2 /\ (i - 1) + 1 = i
    OBVIOUS
  <1>1. /\ p \in Seq(S) /\ q \in Seq(S) /\ ToSet(p) \cup {s[i]} \cup ToSet(q) = ToSet(s)
        /\ IsInjective(s) => /\ IsInjective(p) /\ IsInjective(q) /\ ToSet(p) \cap ToSet(q) = {}
                             /\ s[i] \notin ToSet(p) \cup ToSet(q)
    BY <1>0, CutFacts
  <1>2. Len(p) = i - 1 /\ Len(q) = Len(s) - i
    OBVIOUS
  <1>3. RemoveAt(s, i) = p \o q
    BY DEF RemoveAt
  <1> HIDE DEF p, q
  <1>4. p \o q \in Seq(S) /\ ToSet(p \o q) = ToSet(p) \cup ToSet(q)
    BY <1>1, ConcatFacts
  <1>5. Len(p \o q) = Len(s) - 1
    BY <1>1, <1>2
  <1>6. IsInjective(s) => IsInjective(p \o q)
    BY <1>1, ConcatFacts
  <1> QED BY <1>1, <1>3, <1>4, <1>5, <1>6

LEMMA ArrayMoveFacts ==
    ASSUME NEW S, NEW s \in Seq(S), NEW i \in 1..Len(s), NEW j \in 1..Len(s), IsInjective(s)
    PROVE  /\ arrayMove(s, i, j) \in Seq(S) /\ IsInjective(arrayMove(s, i, j))
           /\ ToSet(arrayMove(s, i, j)) = ToSet(s)
  <1> DEFINE r == RemoveAt(s, i)
  <1>1. /\ r \in Seq(S) /\ Len(r) = Len(s) - 1 /\ IsInjective(r) /\ s[i] \notin ToSet(r)
        /\ ToSet(r) \cup {s[i]} = ToSet(s)
    BY RemoveAtFacts
  <1>2. arrayMove(s, i, j) = InsertAfter(r, j - 1, s[i])
    BY DEF arrayMove
  <1> HIDE DEF r
  <1>3. j - 1 \in 0..Len(r) /\ s[i] \in S
    BY <1>1
  <1>4. PICK k, y : k = j - 1 /\ y = s[i]
    OBVIOUS
  <1>5. k \in 0..Len(r) /\ y \in S /\ y \notin ToSet(r) /\ ToSet(r) \cup {y} = ToSet(s)
    BY <1>1, <1>3, <1>4
  <1>r. r \in Seq(S) /\ IsInjective(r) /\ k \in 0..Len(r) /\ y \in S /\ y \notin ToSet(r)
    BY <1>1, <1>5
  <1>6. InsertAfter(r, k, y) \in Seq(S)
    BY <1>r, InsertAfterFacts
  <1>7. IsInjective(InsertAfter(r, k, y))
    BY <1>r, InsertAfterFacts
  <1>8. ToSet(InsertAfter(r, k, y)) = ToSet(r) \cup {y}
    BY <1>r, InsertAfterFacts
  <1> QED BY <1>2, <1>4, <1>5, <1>6, <1>7, <1>8

LEMMA PositionFacts ==
    ASSUME NEW S, NEW s \in Seq(S), NEW x
    PROVE  /\ Position(s, x) \in 0..Len(s)
           /\ Position(s, x) # 0 <=> x \in ToSet(s)
           /\ Position(s, x) # 0 => s[Position(s, x)] = x
  <1> DEFINE hits == {i \in 1..Len(s) : s[i] = x}
  <1>0. Len(s) \in Nat /\ DOMAIN s = 1..Len(s) /\ ToSet(s) = {s[i] : i \in 1..Len(s)}
    BY SetOf
  <1>1. CASE hits = {}
    BY <1>0, <1>1 DEF Position
  <1>2. CASE hits # {}
    <2>1. PICK m \in hits : \A i \in hits : m <= i
      <3> hits \in SUBSET Nat
        BY <1>0
      <3> HIDE DEF hits
      <3> QED BY <1>2, Least
    <2>2. m \in DOMAIN s /\ s[m] = x /\ \A j \in 1..(m - 1) : s[j] # x
      BY <1>0, <2>1
    <2>3. Position(s, x) \in DOMAIN s /\ s[Position(s, x)] = x
      BY <2>2 DEF Position
    <2> QED BY <1>0, <2>3
  <1> QED BY <1>1, <1>2

\* The values of Distinct's function on the prefixes up to n.
Deduped(f, s, n) ==
    f = [i \in 0..n |-> IF i = 0 THEN <<>>
                        ELSE IF s[i] \in ToSet(f[i - 1]) THEN f[i - 1] ELSE Append(f[i - 1], s[i])]

LEMMA DedupedExists ==
    ASSUME NEW S, NEW s \in Seq(S)
    PROVE  \E f : Deduped(f, s, Len(s))
  <1> DEFINE T == {n \in 0..Len(s) : \E f : Deduped(f, s, n)}
  <1>1. Len(s) \in Nat
    OBVIOUS
  <1>2. 0 \in T
    <2> DEFINE f == [i \in 0..0 |-> <<>>]
    <2>1. Deduped(f, s, 0)
      BY DEF Deduped
    <2> QED BY <1>1, <2>1
  <1>3. ASSUME NEW n \in 1..Len(s), (n - 1) \in T PROVE n \in T
    <2>1. PICK f : Deduped(f, s, n - 1)
      BY <1>3
    <2> DEFINE v == IF s[n] \in ToSet(f[n - 1]) THEN f[n - 1] ELSE Append(f[n - 1], s[n])
               g == [i \in 0..n |-> IF i = n THEN v ELSE f[i]]
    <2>2. ASSUME NEW i \in 0..n
          PROVE  g[i] = IF i = 0 THEN <<>>
                        ELSE IF s[i] \in ToSet(g[i - 1]) THEN g[i - 1] ELSE Append(g[i - 1], s[i])
      <3>1. CASE i = n
        BY <3>1, <1>1
      <3>2. CASE i # n
        <4>1. i \in 0..(n - 1) /\ g[i] = f[i] /\ (i # 0 => g[i - 1] = f[i - 1])
          BY <3>2, <1>1
        <4>2. f[i] = IF i = 0 THEN <<>>
                     ELSE IF s[i] \in ToSet(f[i - 1]) THEN f[i - 1] ELSE Append(f[i - 1], s[i])
          BY <2>1, <4>1 DEF Deduped
        <4> QED BY <4>1, <4>2
      <3> QED BY <3>1, <3>2
    <2>3. Deduped(g, s, n)
      <3> HIDE DEF v
      <3>1. g = [i \in 0..n |-> g[i]]
        OBVIOUS
      <3> HIDE DEF g
      <3> QED BY <2>2, <3>1 DEF Deduped
    <2> HIDE DEF g
    <2> QED BY <2>3
  <1>4. \A i \in 0..Len(s) : i \in T
    <2> HIDE DEF T
    <2> QED BY <1>1, <1>2, <1>3, UpTo
  <1> QED BY <1>1, <1>4

LEMMA DistinctOnce ==
    ASSUME NEW S, NEW s \in Seq(S)
    PROVE  Distinct(s) \in Seq(S) /\ IsInjective(Distinct(s)) /\ ToSet(Distinct(s)) = ToSet(s)
  <1> DEFINE F == CHOOSE f : Deduped(f, s, Len(s))
  <1>1. Len(s) \in Nat /\ DOMAIN s = 1..Len(s) /\ \A i \in 1..Len(s) : s[i] \in S
    OBVIOUS
  <1>2. Deduped(F, s, Len(s))
    BY DedupedExists
  <1>3. Distinct(s) = F[Len(s)]
    BY DEF Distinct, Deduped
  <1> HIDE DEF F
  <1>4. F[0] = <<>> /\ \A i \in 1..Len(s) : F[i] = IF s[i] \in ToSet(F[i - 1]) THEN F[i - 1] ELSE Append(F[i - 1], s[i])
    <2> DEFINE g == [i \in 0..Len(s) |-> IF i = 0 THEN <<>>
                       ELSE IF s[i] \in ToSet(F[i - 1]) THEN F[i - 1] ELSE Append(F[i - 1], s[i])]
    <2>1. F = g
      BY <1>2 DEF Deduped
    <2>2. ASSUME NEW i \in 0..Len(s)
          PROVE  F[i] = IF i = 0 THEN <<>>
                        ELSE IF s[i] \in ToSet(F[i - 1]) THEN F[i - 1] ELSE Append(F[i - 1], s[i])
      <3>1. g[i] = IF i = 0 THEN <<>>
                   ELSE IF s[i] \in ToSet(F[i - 1]) THEN F[i - 1] ELSE Append(F[i - 1], s[i])
        OBVIOUS
      <3>2. F[i] = g[i]
        <4> HIDE DEF g
        <4> QED BY <2>1
      <3> QED BY <3>1, <3>2
    <2>3. 0 \in 0..Len(s) /\ \A i \in 1..Len(s) : i \in 0..Len(s) /\ i # 0
      BY <1>1
    <2> QED BY <2>2, <2>3
  <1> DEFINE Heads(n) == {s[i] : i \in 1..n}
             T == {n \in 0..Len(s) : F[n] \in Seq(S) /\ IsInjective(F[n]) /\ ToSet(F[n]) = Heads(n)}
  <1>5. 0 \in T
    <2>1. <<>> \in Seq(S) /\ IsInjective(<<>>) /\ ToSet(<<>>) = {} /\ Heads(0) = {}
      BY DEF IsInjective, ToSet
    <2> HIDE DEF Heads
    <2>2. F[0] \in Seq(S) /\ IsInjective(F[0]) /\ ToSet(F[0]) = Heads(0)
      BY <1>4, <2>1
    <2>3. 0 \in 0..Len(s)
      BY <1>1
    <2> QED BY <2>2, <2>3
  <1>6. ASSUME NEW n \in 1..Len(s), (n - 1) \in T PROVE n \in T
    <2>1. F[n - 1] \in Seq(S) /\ IsInjective(F[n - 1]) /\ ToSet(F[n - 1]) = Heads(n - 1)
      BY <1>6
    <2>2. Heads(n) = Heads(n - 1) \cup {s[n]}
      <3>1. \A i \in 1..n : i \in 1..(n - 1) \/ i = n
        BY <1>1
      <3>2. 1..(n - 1) \subseteq 1..n /\ n \in 1..n
        BY <1>1
      <3> QED BY <3>1, <3>2
    <2> HIDE DEF Heads
    <2>3. CASE s[n] \in ToSet(F[n - 1])
      <3>1. F[n] = F[n - 1] /\ Heads(n) = Heads(n - 1)
        BY <1>4, <2>1, <2>2, <2>3
      <3> QED BY <1>1, <2>1, <3>1
    <2>4. CASE s[n] \notin ToSet(F[n - 1])
      <3>1. F[n] = Append(F[n - 1], s[n])
        BY <1>4, <2>4
      <3>2. IsInjective(Append(F[n - 1], s[n]))
        BY <1>1, <2>1, <2>4, AppendOnce
      <3>3. Append(F[n - 1], s[n]) \in Seq(S) /\ ToSet(Append(F[n - 1], s[n])) = ToSet(F[n - 1]) \cup {s[n]}
        BY <1>1, <2>1, ToSetAppend
      <3>4. F[n] \in Seq(S) /\ IsInjective(F[n]) /\ ToSet(F[n]) = Heads(n)
        BY <2>1, <2>2, <3>1, <3>2, <3>3
      <3> QED BY <1>1, <3>4
    <2> QED BY <2>3, <2>4
  <1>7. \A i \in 0..Len(s) : i \in T
    <2> HIDE DEF T
    <2> QED BY <1>1, <1>5, <1>6, UpTo
  <1>8. Len(s) \in T
    <2> HIDE DEF T
    <2> QED BY <1>1, <1>7
  <1>9. ToSet(s) = Heads(Len(s))
    BY <1>1 DEF ToSet
  <1> HIDE DEF Heads
  <1> QED BY <1>3, <1>8, <1>9

LEMMA RestrictedFacts ==
    ASSUME NEW S, NEW order \in Seq(S), NEW seq \in Seq(S)
    PROVE  /\ Restricted(order, seq) \in Seq(S) /\ IsInjective(Restricted(order, seq))
           /\ ToSet(Restricted(order, seq)) = ToSet(order) \cap ToSet(seq)
  BY DistinctOnce, WithinSet, WithinOnce DEF Restricted

-----------------------------------------------------------------------------
(* Workspaces.                                                            *)

\* A list of workspaces: each once, no tab in two of them that is not in two of
\* the window's now or twice in one, each with one of its tabs as the active one.
WssGood(q) ==
    /\ q \in Seq(Workspaces)
    /\ \A i, j \in 1..Len(q) : i # j => q[i].id # q[j].id /\ ToSet(q[i].tabs) \cap ToSet(q[j].tabs) \subseteq Shared(ui)
    /\ \A i \in 1..Len(q) : IsInjective(q[i].tabs) /\ q[i].active \in ToSet(q[i].tabs) \cup {None}

LEMMA WsParts ==
    ASSUME NEW x \in Workspaces
    PROVE  x.id \in WsIds /\ x.tabs \in Seq(TabIds) /\ x.active \in TabIds \cup {None} /\ ToSet(x.tabs) \subseteq TabIds
  <1>1. x.id \in WsIds /\ x.tabs \in Seq(TabIds) /\ x.active \in TabIds \cup {None}
    BY DEF Workspaces
  <1> QED BY <1>1, SetOf

\* A workspace that takes another's place.
Fits(x) == x \in Workspaces /\ IsInjective(x.tabs) /\ x.active \in ToSet(x.tabs) \cup {None}

\* Some of the workspaces, in any order.
LEMMA WssChosen ==
    ASSUME NEW q, WssGood(q), NEW r \in Seq(Workspaces),
           \A i \in 1..Len(r) : r[i] \in ToSet(q),
           \A i, j \in 1..Len(r) : i # j => r[i].id # r[j].id
    PROVE  WssGood(r)
  <1>1. Len(q) \in Nat /\ DOMAIN q = 1..Len(q) /\ q \in Seq(Workspaces)
    BY DEF WssGood
  <1>2. \A i \in 1..Len(r) : \E k \in 1..Len(q) : r[i] = q[k]
    BY <1>1 DEF ToSet
  <1>3. ASSUME NEW i \in 1..Len(r), NEW j \in 1..Len(r), i # j
        PROVE  r[i].id # r[j].id /\ ToSet(r[i].tabs) \cap ToSet(r[j].tabs) \subseteq Shared(ui)
    <2>1. PICK k \in 1..Len(q) : r[i] = q[k]
      BY <1>2
    <2>2. PICK l \in 1..Len(q) : r[j] = q[l]
      BY <1>2
    <2>3. r[i].id # r[j].id
      BY <1>3
    <2>4. k # l
      BY <2>1, <2>2, <2>3
    <2> QED BY <2>1, <2>2, <2>3, <2>4 DEF WssGood
  <1>4. ASSUME NEW i \in 1..Len(r) PROVE IsInjective(r[i].tabs) /\ r[i].active \in ToSet(r[i].tabs) \cup {None}
    <2>1. PICK k \in 1..Len(q) : r[i] = q[k]
      BY <1>2
    <2> QED BY <2>1 DEF WssGood
  <1> QED BY <1>3, <1>4 DEF WssGood

\* Every workspace becomes one with the same id and no tab that it had not.
LEMMA WssShrunk ==
    ASSUME NEW q, WssGood(q), NEW r, DOMAIN r = DOMAIN q, r = [i \in DOMAIN r |-> r[i]],
           \A i \in 1..Len(q) : Fits(r[i]) /\ r[i].id = q[i].id /\ ToSet(r[i].tabs) \subseteq ToSet(q[i].tabs)
    PROVE  WssGood(r)
  <1>1. Len(q) \in Nat /\ DOMAIN q = 1..Len(q) /\ q \in Seq(Workspaces)
    BY DEF WssGood
  <1>2. r \in Seq(Workspaces) /\ Len(r) = Len(q)
    BY <1>1 DEF Fits
  <1> QED BY <1>1, <1>2 DEF WssGood, Fits

\* One workspace takes a tab that no other has any more.
TakenIn(q, r, t, w) ==
    /\ WssGood(q) /\ DOMAIN r = DOMAIN q /\ r = [i \in DOMAIN r |-> r[i]]
    /\ \A i \in 1..Len(q) : Fits(r[i]) /\ r[i].id = q[i].id
    /\ \A i \in 1..Len(q) : q[i].id = w => ToSet(r[i].tabs) \subseteq ToSet(q[i].tabs) \cup {t}
    /\ \A i \in 1..Len(q) : q[i].id # w => ToSet(r[i].tabs) \subseteq ToSet(q[i].tabs) \ {t}

LEMMA WssTaken ==
    ASSUME NEW q, NEW r, NEW t, NEW w, TakenIn(q, r, t, w)
    PROVE  WssGood(r)
  <1>0. /\ WssGood(q) /\ DOMAIN r = DOMAIN q /\ r = [i \in DOMAIN r |-> r[i]]
        /\ \A i \in 1..Len(q) : Fits(r[i]) /\ r[i].id = q[i].id
        /\ \A i \in 1..Len(q) : q[i].id = w => ToSet(r[i].tabs) \subseteq ToSet(q[i].tabs) \cup {t}
        /\ \A i \in 1..Len(q) : q[i].id # w => ToSet(r[i].tabs) \subseteq ToSet(q[i].tabs) \ {t}
    BY DEF TakenIn
  <1>1. Len(q) \in Nat /\ DOMAIN q = 1..Len(q) /\ q \in Seq(Workspaces)
    BY <1>0 DEF WssGood
  <1>2. r \in Seq(Workspaces) /\ Len(r) = Len(q)
    BY <1>0, <1>1 DEF Fits
  <1>3. ASSUME NEW i \in 1..Len(q), NEW j \in 1..Len(q), i # j
        PROVE  r[i].id # r[j].id /\ ToSet(r[i].tabs) \cap ToSet(r[j].tabs) \subseteq Shared(ui)
    <2>1. q[i].id # q[j].id /\ ToSet(q[i].tabs) \cap ToSet(q[j].tabs) \subseteq Shared(ui)
      BY <1>0, <1>3 DEF WssGood
    <2>2. CASE q[i].id = w
      BY <1>0, <2>1, <2>2
    <2>3. CASE q[i].id # w /\ q[j].id = w
      BY <1>0, <2>1, <2>3
    <2>4. CASE q[i].id # w /\ q[j].id # w
      BY <1>0, <2>1, <2>4
    <2> QED BY <2>2, <2>3, <2>4
  <1> QED BY <1>0, <1>1, <1>2, <1>3 DEF WssGood, Fits

LEMMA WsFound ==
    ASSUME NEW s, WssGood(s.wss), NEW w
    PROVE  /\ HasWs(s, w) => /\ Ws(s, w) \in Workspaces /\ Ws(s, w).id = w /\ w \in WsIds
                             /\ WsIndex(s, w) \in 1..Len(s.wss) /\ Ws(s, w) = s.wss[WsIndex(s, w)]
                             /\ IsInjective(Ws(s, w).tabs) /\ Ws(s, w).active \in ToSet(Ws(s, w).tabs) \cup {None}
           /\ ~HasWs(s, w) => \A i \in 1..Len(s.wss) : s.wss[i].id # w
           /\ \A i \in 1..Len(s.wss) : s.wss[i].id = w => HasWs(s, w) /\ Ws(s, w) = s.wss[i]
  <1> DEFINE ids == [i \in DOMAIN s.wss |-> s.wss[i].id]
  <1>1. Len(s.wss) \in Nat /\ DOMAIN s.wss = 1..Len(s.wss) /\ s.wss \in Seq(Workspaces)
    BY DEF WssGood
  <1>2. ids \in Seq(WsIds) /\ Len(ids) = Len(s.wss) /\ DOMAIN ids = 1..Len(s.wss)
    <2>1. ASSUME NEW i \in 1..Len(s.wss) PROVE s.wss[i].id \in WsIds
      <3>1. s.wss[i] \in Workspaces
        BY <1>1
      <3> QED BY <3>1, WsParts
    <2> QED BY <1>1, <2>1
  <1>3. WsIndex(s, w) = Position(ids, w)
    BY DEF WsIndex
  <1>4. \A i \in 1..Len(s.wss) : ids[i] = s.wss[i].id
    BY <1>1
  <1> HIDE DEF ids
  <1>5. /\ Position(ids, w) \in 0..Len(ids) /\ (Position(ids, w) # 0 <=> w \in ToSet(ids))
        /\ Position(ids, w) # 0 => ids[Position(ids, w)] = w
    BY <1>2, PositionFacts
  <1>6. w \in ToSet(ids) <=> \E i \in 1..Len(s.wss) : s.wss[i].id = w
    BY <1>2, <1>4 DEF ToSet
  <1>7. ASSUME HasWs(s, w)
        PROVE  WsIndex(s, w) \in 1..Len(s.wss) /\ s.wss[WsIndex(s, w)].id = w /\ Ws(s, w) = s.wss[WsIndex(s, w)]
    <2>1. WsIndex(s, w) \in 1..Len(s.wss)
      BY <1>2, <1>3, <1>5, <1>7 DEF HasWs
    <2> QED BY <1>3, <1>4, <1>5, <1>7, <2>1 DEF HasWs, Ws
  <1>8. ~HasWs(s, w) <=> \A i \in 1..Len(s.wss) : s.wss[i].id # w
    BY <1>3, <1>5, <1>6 DEF HasWs
  <1>9. ASSUME NEW i \in 1..Len(s.wss), s.wss[i].id = w PROVE HasWs(s, w) /\ Ws(s, w) = s.wss[i]
    <2>1. HasWs(s, w)
      BY <1>8, <1>9
    <2> QED BY <1>7, <1>9, <2>1 DEF WssGood
  <1>10. ASSUME HasWs(s, w)
         PROVE  /\ Ws(s, w) \in Workspaces /\ Ws(s, w).id = w /\ w \in WsIds
                /\ IsInjective(Ws(s, w).tabs) /\ Ws(s, w).active \in ToSet(Ws(s, w).tabs) \cup {None}
    <2>1. PICK i \in 1..Len(s.wss) : s.wss[i].id = w /\ Ws(s, w) = s.wss[i]
      BY <1>7, <1>10
    <2>2. s.wss[i] \in Workspaces
      BY <1>1
    <2>3. IsInjective(s.wss[i].tabs) /\ s.wss[i].active \in ToSet(s.wss[i].tabs) \cup {None}
      BY DEF WssGood
    <2> QED BY <2>1, <2>2, <2>3, WsParts
  <1> QED BY <1>7, <1>8, <1>9, <1>10

LEMMA OwnerOf ==
    ASSUME NEW s, WssGood(s.wss), NEW t
    PROVE  /\ findWorkspaceByTab(s, t) \in WsIds \cup {None}
           /\ findWorkspaceByTab(s, t) # None =>
                 HasWs(s, findWorkspaceByTab(s, t)) /\ t \in ToSet(Ws(s, findWorkspaceByTab(s, t)).tabs)
  <1> DEFINE hits == {i \in DOMAIN s.wss : t \in ToSet(s.wss[i].tabs)}
             k == CHOOSE i \in hits : \A j \in hits : i <= j
  <1>1. Len(s.wss) \in Nat /\ DOMAIN s.wss = 1..Len(s.wss) /\ s.wss \in Seq(Workspaces)
    BY DEF WssGood
  <1>2. findWorkspaceByTab(s, t) = IF hits = {} THEN None ELSE s.wss[k].id
    BY DEF findWorkspaceByTab
  <1>3. ASSUME hits # {} PROVE k \in hits
    <2>1. hits \in SUBSET Nat
      BY <1>1
    <2> HIDE DEF hits
    <2>2. \E i \in hits : \A j \in hits : i <= j
      BY <1>3, <2>1, Least
    <2> QED BY <2>2
  <1>4. \A i \in hits : i \in 1..Len(s.wss) /\ t \in ToSet(s.wss[i].tabs) /\ s.wss[i].id \in WsIds
    <2>1. ASSUME NEW i \in hits PROVE i \in 1..Len(s.wss) /\ t \in ToSet(s.wss[i].tabs) /\ s.wss[i].id \in WsIds
      <3>1. i \in 1..Len(s.wss) /\ t \in ToSet(s.wss[i].tabs)
        BY <1>1
      <3>2. s.wss[i] \in Workspaces
        BY <1>1, <3>1
      <3> QED BY <3>1, <3>2, WsParts
    <2> QED BY <2>1
  <1> HIDE DEF hits, k
  <1>5. CASE hits = {}
    BY <1>2, <1>5
  <1>6. CASE hits # {}
    <2>1. k \in 1..Len(s.wss) /\ t \in ToSet(s.wss[k].tabs) /\ s.wss[k].id \in WsIds
      BY <1>3, <1>4, <1>6
    <2>2. findWorkspaceByTab(s, t) = s.wss[k].id
      BY <1>2, <1>6
    <2>3. HasWs(s, s.wss[k].id) /\ Ws(s, s.wss[k].id) = s.wss[k]
      BY <2>1, WsFound
    <2> QED BY <2>1, <2>2, <2>3
  <1> QED BY <1>5, <1>6

-----------------------------------------------------------------------------
(* The tab store.                                                         *)

FullTabs == [pinned : BOOLEAN, locked : BOOLEAN, leaves : Seq(Contents) \ {<<>>}]
ClosedRecs == [id : TabIds, tab : FullTabs, reopened : BOOLEAN]
TabMaps == UNION {[D -> FullTabs] : D \in SUBSET TabIds}
Stores == [tabs : TabMaps, order : Seq(TabIds), active : TabIds \cup {None}, visits : Seq(TabIds),
           closed : Seq(ClosedRecs), wss : Seq(Workspaces), aws : WsIds \cup {None}]

\* What every store operation keeps.
Good(s) ==
    /\ s \in Stores
    /\ Len(s.closed) <= CLOSED_TABS_MAX
    /\ s.active \in Open(s) \cup {None}
    /\ ToSet(s.order) \subseteq Open(s) /\ IsInjective(s.order)
    /\ WssGood(s.wss)

\* A locked tab stays, and stays locked.
Keeps(s, n) == \A t \in Open(s) : s.tabs[t].locked => t \in Open(n) /\ n.tabs[t].locked

Fine(s, n) == Good(n) /\ Keeps(s, n)

LEMMA FineSelf == ASSUME NEW s, Good(s) PROVE Fine(s, s)
  BY DEF Fine, Keeps

LEMMA FineThen ==
    ASSUME NEW s, NEW m, NEW n, Fine(s, m), Fine(m, n)
    PROVE  Fine(s, n)
  BY DEF Fine, Keeps

LEMMA StoreParts ==
    ASSUME NEW s, Good(s)
    PROVE  /\ s.tabs \in [Open(s) -> FullTabs] /\ Open(s) \subseteq TabIds /\ s.tabs \in TabMaps
           /\ s.order \in Seq(TabIds) /\ s.active \in TabIds \cup {None} /\ s.visits \in Seq(TabIds)
           /\ s.closed \in Seq(ClosedRecs) /\ s.wss \in Seq(Workspaces) /\ s.aws \in WsIds \cup {None}
  <1>1. s.tabs \in TabMaps
    BY DEF Good, Stores
  <1>2. s.tabs \in [Open(s) -> FullTabs] /\ Open(s) \subseteq TabIds
    BY <1>1 DEF TabMaps, Open
  <1> QED BY <1>1, <1>2 DEF Good, Stores

LEMMA TabParts ==
    ASSUME NEW s, Good(s), NEW t \in Open(s)
    PROVE  /\ s.tabs[t] \in FullTabs /\ t \in TabIds
           /\ s.tabs[t].pinned \in BOOLEAN /\ s.tabs[t].locked \in BOOLEAN
           /\ s.tabs[t].leaves \in Seq(Contents) /\ Len(s.tabs[t].leaves) \in Nat \ {0}
           /\ getPrimaryPane(s.tabs[t]) \in Contents
  <1>1. s.tabs[t] \in FullTabs /\ t \in TabIds
    BY StoreParts
  <1>2. s.tabs[t].leaves \in Seq(Contents) /\ s.tabs[t].leaves # <<>>
    BY <1>1 DEF FullTabs
  <1>3. Len(s.tabs[t].leaves) \in Nat \ {0} /\ s.tabs[t].leaves[1] \in Contents
    BY <1>2
  <1> QED BY <1>1, <1>2, <1>3 DEF FullTabs, getPrimaryPane

LEMMA NewTabFull ==
    ASSUME NEW c \in Contents
    PROVE  createTab(c) \in FullTabs
  BY DEF createTab, FullTabs

LEMMA WithTabMap ==
    ASSUME NEW f \in TabMaps, NEW id \in TabIds, NEW tab \in FullTabs
    PROVE  /\ WithTab(f, id, tab) \in TabMaps /\ DOMAIN WithTab(f, id, tab) = DOMAIN f \cup {id}
           /\ WithTab(f, id, tab)[id] = tab
           /\ \A t \in DOMAIN f \ {id} : WithTab(f, id, tab)[t] = f[t]
  <1>1. f \in [DOMAIN f -> FullTabs] /\ DOMAIN f \subseteq TabIds
    BY DEF TabMaps
  <1>2. /\ WithTab(f, id, tab) \in [DOMAIN f \cup {id} -> FullTabs]
        /\ WithTab(f, id, tab)[id] = tab
        /\ \A t \in DOMAIN f \ {id} : WithTab(f, id, tab)[t] = f[t]
    BY <1>1 DEF WithTab
  <1>3. DOMAIN f \cup {id} \in SUBSET TabIds
    BY <1>1
  <1> QED BY <1>2, <1>3 DEF TabMaps

\* What becomes of the tabs, their order, the active one and the visits.
Assigned(s, n, tabs, order, active, visits) ==
    /\ n = [s EXCEPT !.tabs = tabs, !.order = order, !.active = active, !.visits = visits]
    /\ tabs \in TabMaps /\ order \in Seq(TabIds) /\ active \in DOMAIN tabs \cup {None} /\ visits \in Seq(TabIds)
    /\ ToSet(order) \subseteq DOMAIN tabs /\ IsInjective(order)
    /\ \A t \in Open(s) : s.tabs[t].locked => t \in DOMAIN tabs /\ tabs[t].locked

LEMMA TabsPut ==
    ASSUME NEW s, Good(s), NEW n, NEW tabs, NEW order, NEW active, NEW visits,
           Assigned(s, n, tabs, order, active, visits)
    PROVE  /\ Fine(s, n) /\ Open(n) = DOMAIN tabs /\ n.wss = s.wss /\ n.aws = s.aws
           /\ n.tabs = tabs /\ n.order = order /\ n.active = active /\ n.closed = s.closed
  <1>1. s \in Stores
    BY DEF Good
  <1>2. active \in TabIds \cup {None}
    BY DEF TabMaps, Assigned
  <1>3. /\ n.wss = s.wss /\ n.aws = s.aws /\ n.tabs = tabs /\ n.order = order /\ n.active = active
        /\ n.visits = visits /\ n.closed = s.closed
    BY <1>1 DEF Stores, Assigned
  <1>4. n \in Stores
    BY <1>1, <1>2 DEF Stores, Assigned
  <1> QED BY <1>3, <1>4 DEF Fine, Good, Keeps, Open, Assigned

LEMMA AddPositionFacts ==
    ASSUME NEW s, Good(s), NEW tab, NEW after
    PROVE  AddPosition(s, tab, after) \in 0..Len(s.order)
  <1> DEFINE i == Position(s.order, after)
             run == {j \in i..Len(s.order) : \A k \in (i + 1)..j : Pinned(s, s.order[k])}
  <1>1. i \in 0..Len(s.order) /\ Len(s.order) \in Nat
    BY StoreParts, PositionFacts, SetOf
  <1>2. run \in SUBSET (0..Len(s.order)) /\ i \in run
    <2> HIDE DEF i
    <2> QED BY <1>1
  <1>3. PICK m \in run : \A k \in run : k <= m
    <2>1. run # {}
      BY <1>2
    <2> HIDE DEF run, i
    <2> QED BY <1>1, <1>2, <2>1, Greatest
  <1>4. AddPosition(s, tab, after) = IF i = 0 THEN Len(s.order)
          ELSE IF ~tab.pinned /\ Pinned(s, after) THEN CHOOSE j \in run : \A k \in run : k <= j ELSE i
    BY DEF AddPosition
  <1> HIDE DEF run, i
  <1>5. (CHOOSE j \in run : \A k \in run : k <= j) \in run
    BY <1>3
  <1>6. Len(s.order) \in 0..Len(s.order)
    BY <1>1
  <1>7. CASE i = 0
    BY <1>4, <1>6, <1>7
  <1>8. CASE i # 0 /\ ~tab.pinned /\ Pinned(s, after)
    BY <1>2, <1>4, <1>5, <1>8
  <1>9. CASE i # 0 /\ ~(~tab.pinned /\ Pinned(s, after))
    BY <1>1, <1>4, <1>9
  <1> QED BY <1>7, <1>8, <1>9

LEMMA AddTabFine ==
    ASSUME NEW s, Good(s), NEW id \in TabIds, NEW tab \in FullTabs, NEW after
    PROVE  Fine(s, addTab(s, id, tab, after)) /\ Open(addTab(s, id, tab, after)) = Open(s) \cup {id}
           /\ addTab(s, id, tab, after).wss = s.wss
  <1>1. CASE id \in Open(s)
    BY <1>1, FineSelf DEF addTab
  <1>2. CASE id \notin Open(s)
    <2> DEFINE tabs == WithTab(s.tabs, id, tab)
               at == AddPosition(s, tab, after)
               order == InsertAfter(s.order, at, id)
               active == IF s.active = None THEN id ELSE s.active
               n == [s EXCEPT !.tabs = tabs, !.order = order, !.active = active, !.visits = s.visits]
    <2>0. /\ s.order \in Seq(TabIds) /\ s.visits \in Seq(TabIds) /\ s.tabs \in TabMaps /\ s \in Stores
          /\ ToSet(s.order) \subseteq Open(s) /\ IsInjective(s.order) /\ s.active \in Open(s) \cup {None}
      BY StoreParts DEF Good
    <2>1. tabs \in TabMaps /\ DOMAIN tabs = Open(s) \cup {id} /\ \A t \in Open(s) : tabs[t] = s.tabs[t]
      <3>1. DOMAIN s.tabs = Open(s)
        BY DEF Open
      <3>2. tabs \in TabMaps /\ DOMAIN tabs = DOMAIN s.tabs \cup {id} /\ \A t \in DOMAIN s.tabs \ {id} : tabs[t] = s.tabs[t]
        BY <2>0, WithTabMap
      <3> HIDE DEF tabs
      <3> QED BY <1>2, <3>1, <3>2
    <2>2. at \in 0..Len(s.order)
      BY AddPositionFacts
    <2> HIDE DEF at, tabs
    <2>3. order \in Seq(TabIds) /\ ToSet(order) = ToSet(s.order) \cup {id}
      BY <2>0, <2>2, InsertAfterFacts
    <2>4. IsInjective(order)
      <3>1. id \notin ToSet(s.order)
        BY <1>2, <2>0
      <3> QED BY <2>0, <2>2, <3>1, InsertAfterFacts
    <2> HIDE DEF order
    <2>5. active \in DOMAIN tabs \cup {None}
      BY <2>0, <2>1
    <2>6. ToSet(order) \subseteq DOMAIN tabs
      BY <2>0, <2>1, <2>3
    <2>7. addTab(s, id, tab, after) = n
      <3>1. [s EXCEPT !.tabs = tabs, !.order = order, !.active = active, !.visits = s.visits]
            = [s EXCEPT !.tabs = tabs, !.order = order, !.active = active]
        BY <2>0 DEF Stores
      <3> QED BY <1>2, <3>1 DEF addTab, tabs, order, at
    <2> HIDE DEF active
    <2>8. \A t \in Open(s) : s.tabs[t].locked => t \in DOMAIN tabs /\ tabs[t].locked
      BY <2>1
    <2>a. Assigned(s, n, tabs, order, active, s.visits)
      BY <2>0, <2>1, <2>3, <2>4, <2>5, <2>6, <2>8 DEF Assigned
    <2> HIDE DEF n
    <2>9. Fine(s, n) /\ Open(n) = DOMAIN tabs /\ n.wss = s.wss
      BY <2>a, TabsPut
    <2> QED BY <2>1, <2>7, <2>9
  <1> QED BY <1>1, <1>2

LEMMA SetActiveFine ==
    ASSUME NEW s, Good(s), NEW id \in TabIds \cup {None}
    PROVE  /\ Fine(s, setActiveTab(s, id)) /\ Open(setActiveTab(s, id)) = Open(s)
           /\ setActiveTab(s, id).wss = s.wss /\ setActiveTab(s, id).aws = s.aws
  <1>0. /\ s.order \in Seq(TabIds) /\ s.visits \in Seq(TabIds) /\ s.tabs \in TabMaps /\ s \in Stores
        /\ ToSet(s.order) \subseteq Open(s) /\ IsInjective(s.order) /\ s.active \in Open(s) \cup {None}
        /\ s.active \in TabIds \cup {None} /\ DOMAIN s.tabs = Open(s)
    BY StoreParts DEF Good, Open
  <1>1. /\ s.active \in DOMAIN s.tabs \cup {None} /\ ToSet(s.order) \subseteq DOMAIN s.tabs
        /\ \A t \in Open(s) : s.tabs[t].locked => t \in DOMAIN s.tabs /\ s.tabs[t].locked
    BY <1>0
  <1>2. CASE id = None
    <2>1. setActiveTab(s, id) = [s EXCEPT !.tabs = s.tabs, !.order = s.order, !.active = None, !.visits = s.visits]
      BY <1>0, <1>2 DEF setActiveTab, Stores
    <2>2. Assigned(s, setActiveTab(s, id), s.tabs, s.order, None, s.visits)
      BY <1>0, <1>1, <2>1 DEF Assigned
    <2> QED BY <1>0, <2>2, TabsPut
  <1>3. CASE id # None /\ (id \notin Open(s) \/ id = s.active)
    BY <1>3, FineSelf DEF setActiveTab
  <1>4. CASE id # None /\ id \in Open(s) /\ id # s.active
    <2> DEFINE v == IF s.active # None THEN Append(Drop(s.visits, id), s.active) ELSE Drop(s.visits, id)
    <2>1. Drop(s.visits, id) \in Seq(TabIds)
      BY <1>0, DropFacts
    <2>2. v \in Seq(TabIds)
      BY <1>0, <2>1, ToSetAppend
    <2>3. setActiveTab(s, id) = [s EXCEPT !.active = id, !.visits = v]
      BY <1>4 DEF setActiveTab
    <2> HIDE DEF v
    <2>4. setActiveTab(s, id) = [s EXCEPT !.tabs = s.tabs, !.order = s.order, !.active = id, !.visits = v]
      BY <1>0, <2>3 DEF Stores
    <2>5. Assigned(s, setActiveTab(s, id), s.tabs, s.order, id, v)
      BY <1>0, <1>1, <1>4, <2>2, <2>4 DEF Assigned
    <2> QED BY <1>0, <2>5, TabsPut
  <1> QED BY <1>2, <1>3, <1>4

LEMMA CloseTabFine ==
    ASSUME NEW s, Good(s), NEW id
    PROVE  /\ Fine(s, closeTab(s, id)) /\ closeTab(s, id).wss = s.wss /\ closeTab(s, id).aws = s.aws
  <1>0. /\ s.order \in Seq(TabIds) /\ s.visits \in Seq(TabIds) /\ s.tabs \in TabMaps /\ s \in Stores
        /\ ToSet(s.order) \subseteq Open(s) /\ IsInjective(s.order) /\ s.active \in Open(s) \cup {None}
        /\ s.tabs \in [Open(s) -> FullTabs] /\ Open(s) \subseteq TabIds
    BY StoreParts DEF Good
  <1>1. CASE id \notin Open(s) \/ s.tabs[id].locked
    BY <1>1, FineSelf DEF closeTab
  <1>2. CASE id \in Open(s) /\ ~s.tabs[id].locked
    <2> DEFINE tabs == [t \in DOMAIN s.tabs \ {id} |-> s.tabs[t]]
               order == Drop(s.order, id)
               active == IF s.active = id THEN None ELSE s.active
               visits == Drop(s.visits, id)
               n == [s EXCEPT !.tabs = tabs, !.order = order, !.active = active, !.visits = visits]
    <2>1. /\ tabs \in TabMaps /\ DOMAIN tabs = Open(s) \ {id}
          /\ \A t \in Open(s) \ {id} : tabs[t] = s.tabs[t]
      <3>1. /\ tabs \in [Open(s) \ {id} -> FullTabs] /\ Open(s) \ {id} \in SUBSET TabIds
            /\ \A t \in Open(s) \ {id} : tabs[t] = s.tabs[t]
        BY <1>0 DEF Open
      <3> HIDE DEF tabs
      <3> QED BY <3>1 DEF TabMaps
    <2>2. order \in Seq(TabIds) /\ ToSet(order) = ToSet(s.order) \ {id} /\ IsInjective(order)
      BY <1>0, DropFacts
    <2>3. visits \in Seq(TabIds)
      BY <1>0, DropFacts
    <2>4. closeTab(s, id) = n
      BY <1>2 DEF closeTab
    <2>5. active \in DOMAIN tabs \cup {None}
      <3> HIDE DEF tabs
      <3> QED BY <1>0, <2>1
    <2> HIDE DEF tabs, order, active, visits
    <2>6. ToSet(order) \subseteq DOMAIN tabs
      BY <1>0, <2>1, <2>2
    <2>7. \A t \in Open(s) : s.tabs[t].locked => t \in DOMAIN tabs /\ tabs[t].locked
      BY <1>2, <2>1
    <2>a. Assigned(s, n, tabs, order, active, visits)
      BY <2>1, <2>2, <2>3, <2>5, <2>6, <2>7 DEF Assigned
    <2> HIDE DEF n
    <2>8. Fine(s, n) /\ n.wss = s.wss /\ n.aws = s.aws
      BY <2>a, TabsPut
    <2> QED BY <2>4, <2>8
  <1> QED BY <1>1, <1>2

LEMMA SingletonHitFacts ==
    ASSUME NEW s, Good(s), NEW content
    PROVE  SingletonHit(s, content) \in TabIds \cup {None}
  <1> DEFINE hits == {i \in DOMAIN s.order : s.order[i] \in Open(s)
                        /\ contentMatches(getPrimaryPane(s.tabs[s.order[i]]), content)}
             k == CHOOSE i \in hits : \A j \in hits : i <= j
  <1>1. SingletonHit(s, content) = IF hits = {} THEN None ELSE s.order[k]
    BY DEF SingletonHit
  <1>2. s.order \in Seq(TabIds)
    BY StoreParts
  <1>3. hits \in SUBSET DOMAIN s.order /\ DOMAIN s.order \subseteq Nat
    BY <1>2
  <1> HIDE DEF hits
  <1>4. ASSUME hits # {} PROVE k \in hits
    <2>1. \E i \in hits : \A j \in hits : i <= j
      BY <1>3, <1>4, Least
    <2> QED BY <2>1
  <1> HIDE DEF k
  <1> QED BY <1>1, <1>2, <1>3, <1>4

LEMMA OpenSingletonFine ==
    ASSUME NEW s, Good(s), NEW content \in Contents, NEW after, NEW fresh \in TabIds
    PROVE  Fine(s, openSingletonTab(s, content, after, fresh)) /\ SingletonId(s, content, fresh) \in TabIds
  <1>1. SingletonId(s, content, fresh) \in TabIds
    BY SingletonHitFacts DEF SingletonId
  <1>2. CASE SingletonHit(s, content) # None
    <2>1. openSingletonTab(s, content, after, fresh) = setActiveTab(s, SingletonHit(s, content))
      BY <1>2 DEF openSingletonTab
    <2>2. Fine(s, setActiveTab(s, SingletonHit(s, content)))
      BY SingletonHitFacts, SetActiveFine
    <2> QED BY <1>1, <2>1, <2>2
  <1>3. CASE SingletonHit(s, content) = None
    <2> DEFINE m == addTab(s, fresh, createTab(content), after)
    <2>1. Fine(s, m)
      BY NewTabFull, AddTabFine
    <2>2. openSingletonTab(s, content, after, fresh) = setActiveTab(m, fresh)
      BY <1>3 DEF openSingletonTab
    <2> HIDE DEF m
    <2>3. Fine(m, setActiveTab(m, fresh))
      BY <2>1, SetActiveFine DEF Fine
    <2> QED BY <1>1, <2>1, <2>2, <2>3, FineThen
  <1> QED BY <1>1, <1>2, <1>3

LEMMA TogglePinFine ==
    ASSUME NEW s, Good(s), NEW id
    PROVE  Fine(s, togglePin(s, id))
  <1>0. /\ s.order \in Seq(TabIds) /\ s.visits \in Seq(TabIds) /\ s.tabs \in TabMaps /\ s \in Stores
        /\ ToSet(s.order) \subseteq Open(s) /\ IsInjective(s.order) /\ s.active \in Open(s) \cup {None}
        /\ s.tabs \in [Open(s) -> FullTabs] /\ Open(s) \subseteq TabIds /\ DOMAIN s.tabs = Open(s)
    BY StoreParts DEF Good, Open
  <1>1. CASE id \notin Open(s)
    BY <1>1, FineSelf DEF togglePin
  <1>2. CASE id \in Open(s)
    <2> DEFINE rest == Drop(s.order, id)
               normal == {i \in DOMAIN rest : ~Pinned(s, rest[i])}
               first == CHOOSE i \in normal : \A j \in normal : i <= j
               at == IF normal = {} THEN Len(rest) ELSE first - 1
               order == InsertAfter(rest, at, id)
               tabs == [s.tabs EXCEPT ![id].pinned = ~@]
    <2>1. rest \in Seq(TabIds) /\ ToSet(rest) = ToSet(s.order) \ {id} /\ IsInjective(rest)
      BY <1>0, DropFacts
    <2> HIDE DEF rest
    <2>2. at \in 0..Len(rest)
      <3>1. normal \in SUBSET (1..Len(rest)) /\ Len(rest) \in Nat
        BY <2>1
      <3> HIDE DEF normal
      <3>2. CASE normal = {}
        BY <3>1, <3>2
      <3>3. CASE normal # {}
        <4>1. normal \in SUBSET Nat
          BY <3>1
        <4>2. \E i \in normal : \A j \in normal : i <= j
          BY <3>3, <4>1, Least
        <4>3. first \in normal
          BY <4>2
        <4> HIDE DEF first
        <4> QED BY <3>1, <3>3, <4>3
      <3> QED BY <3>2, <3>3
    <2>3. togglePin(s, id) = [s EXCEPT !.tabs[id].pinned = ~@, !.order = order]
      BY <1>2 DEF togglePin, rest
    <2> HIDE DEF at, normal
    <2>4. order \in Seq(TabIds) /\ ToSet(order) = ToSet(rest) \cup {id}
      BY <1>0, <1>2, <2>1, <2>2, InsertAfterFacts
    <2>5. IsInjective(order)
      BY <1>0, <1>2, <2>1, <2>2, InsertAfterFacts
    <2>6. tabs \in TabMaps /\ DOMAIN tabs = Open(s) /\ \A t \in Open(s) : tabs[t].locked = s.tabs[t].locked
      <3>1. s.tabs[id] \in FullTabs
        BY <1>0, <1>2
      <3>2. [s.tabs[id] EXCEPT !.pinned = ~@] \in FullTabs /\ [s.tabs[id] EXCEPT !.pinned = ~@].locked = s.tabs[id].locked
        BY <3>1 DEF FullTabs
      <3>3. tabs = [s.tabs EXCEPT ![id] = [s.tabs[id] EXCEPT !.pinned = ~@]]
        OBVIOUS
      <3>4. tabs \in [Open(s) -> FullTabs] /\ \A t \in Open(s) : tabs[t].locked = s.tabs[t].locked
        BY <1>0, <1>2, <3>2, <3>3
      <3> HIDE DEF tabs
      <3> QED BY <1>0, <3>4 DEF TabMaps
    <2> HIDE DEF order
    <2>7. togglePin(s, id) = [s EXCEPT !.tabs = tabs, !.order = order, !.active = s.active, !.visits = s.visits]
      <3>1. [s EXCEPT !.tabs[id].pinned = ~@, !.order = order] = [s EXCEPT !.tabs = tabs, !.order = order]
        BY <1>0 DEF Stores
      <3> HIDE DEF tabs
      <3> QED BY <1>0, <2>3, <3>1 DEF Stores
    <2> HIDE DEF tabs
    <2>8. Assigned(s, togglePin(s, id), tabs, order, s.active, s.visits)
      BY <1>0, <1>2, <2>1, <2>4, <2>5, <2>6, <2>7 DEF Assigned
    <2> QED BY <2>8, TabsPut
  <1> QED BY <1>1, <1>2

LEMMA ReorderFine ==
    ASSUME NEW s, Good(s), NEW order \in Seq(TabIds), ToSet(order) \subseteq Open(s), IsInjective(order)
    PROVE  Fine(s, reorderTabs(s, order))
  <1>0. /\ s.visits \in Seq(TabIds) /\ s.tabs \in TabMaps /\ s \in Stores /\ s.active \in Open(s) \cup {None}
        /\ DOMAIN s.tabs = Open(s)
    BY StoreParts DEF Good, Open
  <1>1. reorderTabs(s, order) = [s EXCEPT !.tabs = s.tabs, !.order = order, !.active = s.active, !.visits = s.visits]
    BY <1>0 DEF reorderTabs, Stores
  <1>2. Assigned(s, reorderTabs(s, order), s.tabs, order, s.active, s.visits)
    BY <1>0, <1>1 DEF Assigned
  <1> QED BY <1>2, TabsPut

\* Other leaves or another flag for one tab.
LEMMA TabSet ==
    ASSUME NEW s, Good(s), NEW id \in Open(s), NEW x \in FullTabs, NEW n, n = [s EXCEPT !.tabs[id] = x]
    PROVE  /\ Good(n) /\ Open(n) = Open(s) /\ n.wss = s.wss /\ n.order = s.order /\ n.tabs[id] = x
           /\ n.visits = s.visits /\ n.active = s.active
           /\ x.locked = s.tabs[id].locked => Fine(s, n)
  <1>0. /\ s \in Stores /\ s.tabs \in [Open(s) -> FullTabs] /\ Open(s) \subseteq TabIds /\ DOMAIN s.tabs = Open(s)
    BY StoreParts DEF Good, Open
  <1> DEFINE tabs == [s.tabs EXCEPT ![id] = x]
  <1>1. tabs \in [Open(s) -> FullTabs] /\ tabs[id] = x /\ \A t \in Open(s) \ {id} : tabs[t] = s.tabs[t]
    BY <1>0
  <1>2. n = [s EXCEPT !.tabs = tabs]
    BY <1>0 DEF Stores
  <1> HIDE DEF tabs
  <1>3. tabs \in TabMaps /\ DOMAIN tabs = Open(s)
    BY <1>0, <1>1 DEF TabMaps
  <1>4. /\ n.wss = s.wss /\ n.order = s.order /\ n.visits = s.visits /\ n.active = s.active /\ n.closed = s.closed
        /\ n.aws = s.aws /\ n.tabs = tabs /\ n \in Stores
    BY <1>0, <1>2, <1>3 DEF Stores
  <1>5. Open(n) = Open(s)
    BY <1>3, <1>4 DEF Open
  <1>6. Good(n)
    BY <1>4, <1>5 DEF Good
  <1>7. x.locked = s.tabs[id].locked => Keeps(s, n)
    BY <1>1, <1>4, <1>5 DEF Keeps
  <1> QED BY <1>1, <1>4, <1>5, <1>6, <1>7 DEF Fine

LEMMA ToggleLockGood ==
    ASSUME NEW s, Good(s), NEW id
    PROVE  Good(toggleLock(s, id)) /\ Open(toggleLock(s, id)) = Open(s)
  <1>1. CASE id \notin Open(s)
    BY <1>1 DEF toggleLock
  <1>2. CASE id \in Open(s)
    <2> DEFINE x == [s.tabs[id] EXCEPT !.locked = ~@]
    <2>1. x \in FullTabs
      <3>1. s.tabs[id] \in FullTabs
        BY <1>2, TabParts
      <3> QED BY <3>1 DEF FullTabs
    <2>2. toggleLock(s, id) = [s EXCEPT !.tabs[id] = x]
      BY <1>2 DEF toggleLock
    <2> HIDE DEF x
    <2> QED BY <1>2, <2>1, <2>2, TabSet
  <1> QED BY <1>1, <1>2

LEMMA LeavesSet ==
    ASSUME NEW s, Good(s), NEW id \in Open(s), NEW leaves \in Seq(Contents), leaves # <<>>, NEW n,
           n = [s EXCEPT !.tabs[id] = [s.tabs[id] EXCEPT !.leaves = leaves]]
    PROVE  Fine(s, n) /\ Open(n) = Open(s) /\ n.wss = s.wss /\ n.order = s.order
  <1> DEFINE x == [s.tabs[id] EXCEPT !.leaves = leaves]
  <1>1. x \in FullTabs /\ x.locked = s.tabs[id].locked
    <2>1. s.tabs[id] \in FullTabs
      BY TabParts
    <2> QED BY <2>1 DEF FullTabs
  <1>2. n = [s EXCEPT !.tabs[id] = x]
    OBVIOUS
  <1> HIDE DEF x
  <1> QED BY <1>1, <1>2, TabSet

-----------------------------------------------------------------------------
(* Panes and the history.                                                 *)

LEMMA SetPaneFine ==
    ASSUME NEW s, Good(s), NEW id, NEW i, NEW c \in Contents
    PROVE  Fine(s, setPaneContent(s, id, i, c)) /\ Open(setPaneContent(s, id, i, c)) = Open(s)
  <1>1. CASE ~HasPane(s, id, i)
    BY <1>1, FineSelf DEF setPaneContent
  <1>2. CASE HasPane(s, id, i)
    <2>1. id \in Open(s) /\ i \in DOMAIN s.tabs[id].leaves
      BY <1>2 DEF HasPane
    <2> DEFINE leaves == [s.tabs[id].leaves EXCEPT ![i] = c]
    <2>2. leaves \in Seq(Contents) /\ leaves # <<>>
      <3>1. s.tabs[id].leaves \in Seq(Contents) /\ Len(s.tabs[id].leaves) \in Nat \ {0}
        BY <2>1, TabParts
      <3> QED BY <2>1, <3>1
    <2>3. setPaneContent(s, id, i, c) = [s EXCEPT !.tabs[id] = [s.tabs[id] EXCEPT !.leaves = leaves]]
      BY <1>2 DEF setPaneContent
    <2> HIDE DEF leaves
    <2> QED BY <2>1, <2>2, <2>3, LeavesSet
  <1> QED BY <1>1, <1>2

LEMMA SplitPaneFine ==
    ASSUME NEW s, Good(s), NEW id, NEW i, NEW c \in Contents
    PROVE  Fine(s, splitPane(s, id, i, c)) /\ Open(splitPane(s, id, i, c)) = Open(s)
  <1>1. CASE ~HasPane(s, id, i)
    BY <1>1, FineSelf DEF splitPane
  <1>2. CASE HasPane(s, id, i)
    <2>1. id \in Open(s) /\ i \in DOMAIN s.tabs[id].leaves
      BY <1>2 DEF HasPane
    <2> DEFINE leaves == InsertAfter(s.tabs[id].leaves, i, c)
    <2>2. leaves \in Seq(Contents) /\ leaves # <<>>
      <3>1. s.tabs[id].leaves \in Seq(Contents)
        BY <2>1, TabParts
      <3>2. i \in 0..Len(s.tabs[id].leaves)
        BY <2>1, <3>1
      <3> QED BY <3>1, <3>2, InsertAfterFacts
    <2>3. splitPane(s, id, i, c) = [s EXCEPT !.tabs[id] = [s.tabs[id] EXCEPT !.leaves = leaves]]
      BY <1>2 DEF splitPane
    <2> HIDE DEF leaves
    <2> QED BY <2>1, <2>2, <2>3, LeavesSet
  <1> QED BY <1>1, <1>2

LEMMA ClosePaneFine ==
    ASSUME NEW s, Good(s), NEW id, NEW i
    PROVE  Fine(s, closePane(s, id, i))
  <1>1. CASE ~HasPane(s, id, i)
    BY <1>1, FineSelf DEF closePane
  <1>2. CASE HasPane(s, id, i) /\ Len(s.tabs[id].leaves) = 1
    BY <1>2, CloseTabFine DEF closePane
  <1>3. CASE HasPane(s, id, i) /\ Len(s.tabs[id].leaves) # 1
    <2>1. id \in Open(s) /\ i \in DOMAIN s.tabs[id].leaves
      BY <1>3 DEF HasPane
    <2> DEFINE leaves == RemoveAt(s.tabs[id].leaves, i)
    <2>2. leaves \in Seq(Contents) /\ leaves # <<>>
      <3>1. s.tabs[id].leaves \in Seq(Contents) /\ Len(s.tabs[id].leaves) \in Nat \ {0}
        BY <2>1, TabParts
      <3>2. i \in 1..Len(s.tabs[id].leaves)
        BY <2>1, <3>1
      <3>3. leaves \in Seq(Contents) /\ Len(leaves) = Len(s.tabs[id].leaves) - 1
        BY <3>1, <3>2, RemoveAtFacts
      <3> HIDE DEF leaves
      <3>4. PICK n \in Nat : n = Len(s.tabs[id].leaves)
        BY <3>1
      <3>5. Len(leaves) # 0
        BY <1>3, <3>1, <3>3, <3>4
      <3>6. leaves # <<>>
        BY <3>5
      <3> QED BY <3>3, <3>6
    <2>3. closePane(s, id, i) = [s EXCEPT !.tabs[id] = [s.tabs[id] EXCEPT !.leaves = leaves]]
      BY <1>3 DEF closePane
    <2> HIDE DEF leaves
    <2> QED BY <2>1, <2>2, <2>3, LeavesSet
  <1> QED BY <1>1, <1>2, <1>3

LEMMA SwapPanesFine ==
    ASSUME NEW s, Good(s), NEW id, NEW i, NEW j
    PROVE  Fine(s, swapPaneContent(s, id, i, j))
  <1>1. CASE ~HasPane(s, id, i) \/ ~HasPane(s, id, j)
    BY <1>1, FineSelf DEF swapPaneContent
  <1>2. CASE HasPane(s, id, i) /\ HasPane(s, id, j)
    <2>1. id \in Open(s) /\ i \in DOMAIN s.tabs[id].leaves /\ j \in DOMAIN s.tabs[id].leaves
      BY <1>2 DEF HasPane
    <2>2. s.tabs[id].leaves \in Seq(Contents) /\ Len(s.tabs[id].leaves) \in Nat \ {0}
      BY <2>1, TabParts
    <2> DEFINE leaves == [s.tabs[id].leaves EXCEPT ![i] = s.tabs[id].leaves[j], ![j] = s.tabs[id].leaves[i]]
    <2>3. leaves \in Seq(Contents) /\ leaves # <<>>
      BY <2>1, <2>2
    <2>4. swapPaneContent(s, id, i, j) = [s EXCEPT !.tabs[id] = [s.tabs[id] EXCEPT !.leaves = leaves]]
      <3>1. /\ s \in Stores /\ s.tabs \in [Open(s) -> FullTabs] /\ s.tabs[id] \in FullTabs
        BY <2>1, StoreParts DEF Good
      <3> QED BY <1>2, <2>1, <2>2, <3>1 DEF swapPaneContent, Stores, FullTabs
    <2> HIDE DEF leaves
    <2> QED BY <2>1, <2>3, <2>4, LeavesSet
  <1> QED BY <1>1, <1>2

LEMMA LayoutFine ==
    ASSUME NEW s, Good(s), NEW id, NEW n \in Nat \ {0}
    PROVE  Fine(s, applyLayout(s, id, n))
  <1>1. CASE id \notin Open(s)
    BY <1>1, FineSelf DEF applyLayout
  <1>2. CASE id \in Open(s)
    <2> DEFINE old == s.tabs[id].leaves
               leaves == [i \in 1..n |-> IF i \in DOMAIN old THEN old[i] ELSE NewTab]
    <2>1. leaves \in Seq(Contents) /\ leaves # <<>>
      <3>1. old \in Seq(Contents)
        BY <1>2, TabParts
      <3>2. NewTab \in Contents
        BY ContentAssumption
      <3> HIDE DEF old
      <3>3. \A i \in 1..n : (IF i \in DOMAIN old THEN old[i] ELSE NewTab) \in Contents
        BY <3>1, <3>2
      <3>4. leaves \in [1..n -> Contents]
        BY <3>3
      <3>5. leaves \in Seq(Contents) /\ Len(leaves) = n
        <4> HIDE DEF leaves
        <4> QED BY <3>4
      <3> HIDE DEF leaves
      <3> QED BY <3>5
    <2>2. applyLayout(s, id, n) = [s EXCEPT !.tabs[id] = [s.tabs[id] EXCEPT !.leaves = leaves]]
      BY <1>2 DEF applyLayout
    <2> HIDE DEF leaves
    <2> QED BY <1>2, <2>1, <2>2, LeavesSet
  <1> QED BY <1>1, <1>2

LEMMA DetachFine ==
    ASSUME NEW s, Good(s), NEW id, NEW i, NEW after, NEW fresh \in TabIds, fresh \notin Open(s)
    PROVE  Fine(s, detachPane(s, id, i, after, fresh))
  <1>1. CASE ~HasPane(s, id, i) \/ Len(s.tabs[id].leaves) = 1
    BY <1>1, FineSelf DEF detachPane
  <1>2. CASE HasPane(s, id, i) /\ Len(s.tabs[id].leaves) # 1
    <2>0. /\ id \in Open(s) /\ i \in DOMAIN s.tabs[id].leaves /\ s.tabs[id] \in FullTabs
          /\ s.tabs[id].leaves \in Seq(Contents) /\ Len(s.tabs[id].leaves) \in Nat \ {0}
      BY <1>2, TabParts DEF HasPane
    <2>s. /\ s.order \in Seq(TabIds) /\ s.visits \in Seq(TabIds) /\ s.tabs \in TabMaps /\ s \in Stores
          /\ ToSet(s.order) \subseteq Open(s) /\ IsInjective(s.order) /\ s.active \in Open(s) \cup {None}
          /\ s.tabs \in [Open(s) -> FullTabs] /\ Open(s) \subseteq TabIds /\ DOMAIN s.tabs = Open(s)
      BY StoreParts DEF Good, Open
    <2> DEFINE leaves == RemoveAt(s.tabs[id].leaves, i)
               content == s.tabs[id].leaves[i]
               kept == [s.tabs EXCEPT ![id].leaves = leaves]
               tabs == WithTab(kept, fresh, createTab(content))
               at == IF Position(s.order, after) = 0 THEN Len(s.order) ELSE Position(s.order, after)
               order == InsertAfter(s.order, at, fresh)
    <2>1. leaves \in Seq(Contents) /\ leaves # <<>>
      <3>1. i \in 1..Len(s.tabs[id].leaves)
        BY <2>0
      <3>2. leaves \in Seq(Contents) /\ Len(leaves) = Len(s.tabs[id].leaves) - 1
        BY <2>0, <3>1, RemoveAtFacts
      <3> HIDE DEF leaves
      <3>3. PICK n \in Nat : n = Len(s.tabs[id].leaves)
        BY <2>0
      <3>4. Len(leaves) # 0
        BY <1>2, <2>0, <3>2, <3>3
      <3>5. leaves # <<>>
        BY <3>4
      <3> QED BY <3>2, <3>5
    <2>2. createTab(content) \in FullTabs
      <3>1. content \in Contents
        BY <2>0
      <3> HIDE DEF content
      <3> QED BY <3>1, NewTabFull
    <2>3. at \in 0..Len(s.order)
      BY <2>s, PositionFacts
    <2>4. detachPane(s, id, i, after, fresh) = [s EXCEPT !.tabs = tabs, !.order = order]
      BY <1>2 DEF detachPane
    <2> HIDE DEF leaves, content, at
    <2>5. kept \in TabMaps /\ DOMAIN kept = Open(s) /\ \A t \in Open(s) : kept[t].locked = s.tabs[t].locked
      <3>1. [s.tabs[id] EXCEPT !.leaves = leaves] \in FullTabs /\ [s.tabs[id] EXCEPT !.leaves = leaves].locked = s.tabs[id].locked
        BY <2>0, <2>1 DEF FullTabs
      <3>2. kept = [s.tabs EXCEPT ![id] = [s.tabs[id] EXCEPT !.leaves = leaves]]
        OBVIOUS
      <3>3. kept \in [Open(s) -> FullTabs] /\ \A t \in Open(s) : kept[t].locked = s.tabs[t].locked
        BY <2>0, <2>s, <3>1, <3>2
      <3> HIDE DEF kept
      <3> QED BY <2>s, <3>3 DEF TabMaps
    <2> HIDE DEF kept
    <2>6. /\ tabs \in TabMaps /\ DOMAIN tabs = Open(s) \cup {fresh}
          /\ \A t \in Open(s) \ {fresh} : tabs[t] = kept[t]
      BY <2>2, <2>5, WithTabMap
    <2> HIDE DEF tabs
    <2>7. order \in Seq(TabIds) /\ ToSet(order) = ToSet(s.order) \cup {fresh}
      BY <2>s, <2>3, InsertAfterFacts
    <2>8. IsInjective(order)
      <3>1. fresh \notin ToSet(s.order)
        BY <2>s
      <3> QED BY <2>s, <2>3, <3>1, InsertAfterFacts
    <2> HIDE DEF order
    <2>9. detachPane(s, id, i, after, fresh)
            = [s EXCEPT !.tabs = tabs, !.order = order, !.active = s.active, !.visits = s.visits]
      BY <2>s, <2>4 DEF Stores
    <2>10. Assigned(s, detachPane(s, id, i, after, fresh), tabs, order, s.active, s.visits)
      BY <2>s, <2>5, <2>6, <2>7, <2>8, <2>9 DEF Assigned
    <2> QED BY <2>10, TabsPut
  <1> QED BY <1>1, <1>2

\* The history has other records.
LEMMA HistorySet ==
    ASSUME NEW s, Good(s), NEW closed \in Seq(ClosedRecs), Len(closed) <= CLOSED_TABS_MAX, NEW n, n = [s EXCEPT !.closed = closed]
    PROVE  Fine(s, n) /\ n.tabs = s.tabs /\ n.wss = s.wss /\ n.order = s.order /\ n.active = s.active
           /\ n.visits = s.visits /\ n.aws = s.aws
  <1>1. s \in Stores
    BY DEF Good
  <1>2. /\ n.tabs = s.tabs /\ n.wss = s.wss /\ n.order = s.order /\ n.active = s.active
        /\ n.visits = s.visits /\ n.aws = s.aws /\ n.closed = closed /\ n \in Stores
    BY <1>1 DEF Stores
  <1> QED BY <1>2 DEF Fine, Good, Keeps, Open

LEMMA RecordCloseFine ==
    ASSUME NEW s, Good(s), NEW id \in Open(s)
    PROVE  /\ Fine(s, recordClose(s, id)) /\ recordClose(s, id).wss = s.wss /\ recordClose(s, id).tabs = s.tabs
           /\ recordClose(s, id).aws = s.aws
  <1> DEFINE rec == [id |-> id, tab |-> s.tabs[id], reopened |-> FALSE]
             all == Append(s.closed, rec)
             closed == Newest(all, CLOSED_TABS_MAX)
  <1>1. rec \in ClosedRecs
    BY TabParts DEF ClosedRecs
  <1>2. s.closed \in Seq(ClosedRecs) /\ CLOSED_TABS_MAX \in Nat \ {0}
    BY StoreParts, ContentAssumption
  <1>3. recordClose(s, id) = [s EXCEPT !.closed = closed]
    BY DEF recordClose
  <1> HIDE DEF rec
  <1>4. all \in Seq(ClosedRecs) /\ Len(all) \in Nat
    BY <1>1, <1>2
  <1> HIDE DEF all
  <1>5. closed \in Seq(ClosedRecs) /\ Len(closed) <= CLOSED_TABS_MAX
    <2>1. CASE Len(all) > CLOSED_TABS_MAX
      <3> DEFINE a == Len(all) - CLOSED_TABS_MAX + 1
      <3>1. a \in 1..(Len(all) + 1) /\ Len(all) \in 0..Len(all) /\ a <= Len(all) + 1
        BY <1>2, <1>4, <2>1
      <3>2. Len(all) - a + 1 = CLOSED_TABS_MAX
        BY <1>2, <1>4
      <3>3. closed = SubSeq(all, a, Len(all))
        BY <2>1 DEF Newest
      <3> HIDE DEF a, closed
      <3>4. SubSeq(all, a, Len(all)) \in Seq(ClosedRecs) /\ Len(SubSeq(all, a, Len(all))) = Len(all) - a + 1
        BY <1>4, <3>1, SubSeqFacts
      <3> QED BY <1>2, <3>2, <3>3, <3>4
    <2>2. CASE ~(Len(all) > CLOSED_TABS_MAX)
      BY <1>2, <1>4, <2>2 DEF Newest
    <2> QED BY <2>1, <2>2
  <1> HIDE DEF closed
  <1> QED BY <1>3, <1>5, HistorySet

LEMMA ReopenFine ==
    ASSUME NEW s, Good(s), LastClosed(s) # 0
    PROVE  /\ Fine(s, reopenLast(s)) /\ s.closed[LastClosed(s)] \in ClosedRecs
  <1> DEFINE left == {i \in DOMAIN s.closed : ~s.closed[i].reopened}
             k == CHOOSE i \in left : \A j \in left : j <= i
  <1>1. LastClosed(s) = IF left = {} THEN 0 ELSE k
    BY DEF LastClosed
  <1>2. s.closed \in Seq(ClosedRecs) /\ Len(s.closed) \in Nat /\ DOMAIN s.closed = 1..Len(s.closed)
    BY StoreParts
  <1>3. left # {} /\ left \in SUBSET (0..Len(s.closed)) /\ left \subseteq DOMAIN s.closed
    BY <1>1, <1>2
  <1> HIDE DEF left
  <1>4. k \in left
    <2>1. \E i \in left : \A j \in left : j <= i
      BY <1>2, <1>3, Greatest
    <2> QED BY <2>1
  <1> HIDE DEF k
  <1>5. LastClosed(s) \in 1..Len(s.closed)
    BY <1>1, <1>2, <1>3, <1>4
  <1>6. s.closed[LastClosed(s)] \in ClosedRecs
    BY <1>2, <1>5
  <1> DEFINE rec == [s.closed[LastClosed(s)] EXCEPT !.reopened = TRUE]
             closed == [s.closed EXCEPT ![LastClosed(s)] = rec]
  <1>7. rec \in ClosedRecs
    BY <1>6 DEF ClosedRecs
  <1>8. reopenLast(s) = [s EXCEPT !.closed = closed]
    BY DEF reopenLast
  <1> HIDE DEF rec
  <1>9. closed \in Seq(ClosedRecs) /\ Len(closed) = Len(s.closed)
    BY <1>2, <1>5, <1>7
  <1>10. Len(s.closed) <= CLOSED_TABS_MAX
    BY DEF Good
  <1> HIDE DEF closed
  <1> QED BY <1>6, <1>8, <1>9, <1>10, HistorySet

-----------------------------------------------------------------------------
(* The workspace store.                                                   *)

\* Two stores with the same workspaces.
LEMMA SameWss ==
    ASSUME NEW s, NEW n, n.wss = s.wss
    PROVE  /\ \A w : WsIndex(n, w) = WsIndex(s, w) /\ (HasWs(n, w) <=> HasWs(s, w)) /\ Ws(n, w) = Ws(s, w)
           /\ \A t : findWorkspaceByTab(n, t) = findWorkspaceByTab(s, t)
  <1>1. \A w : WsIndex(n, w) = WsIndex(s, w)
    BY DEF WsIndex
  <1>2. \A t : findWorkspaceByTab(n, t) = findWorkspaceByTab(s, t)
    BY DEF findWorkspaceByTab
  <1> QED BY <1>1, <1>2 DEF HasWs, Ws

\* Other workspaces, the tabs as they are.
Rearranged(s, n, q, a) == n = [s EXCEPT !.wss = q, !.aws = a] /\ WssGood(q) /\ a \in WsIds \cup {None}

LEMMA WssPut ==
    ASSUME NEW s, Good(s), NEW n, NEW q, NEW a, Rearranged(s, n, q, a)
    PROVE  /\ Fine(s, n) /\ n.tabs = s.tabs /\ Open(n) = Open(s) /\ n.order = s.order /\ n.active = s.active
           /\ n.visits = s.visits /\ n.wss = q /\ n.aws = a /\ n.closed = s.closed
  <1>1. s \in Stores
    BY DEF Good
  <1>0. n = [s EXCEPT !.wss = q, !.aws = a] /\ WssGood(q) /\ a \in WsIds \cup {None}
    BY DEF Rearranged
  <1>2. /\ n.tabs = s.tabs /\ n.order = s.order /\ n.active = s.active /\ n.visits = s.visits
        /\ n.closed = s.closed /\ n.wss = q /\ n.aws = a
    BY <1>0, <1>1 DEF Stores
  <1>3. n \in Stores
    BY <1>0, <1>1, <1>2 DEF Stores, WssGood
  <1>4. Open(n) = Open(s)
    BY <1>2 DEF Open
  <1>5. Good(n)
    BY <1>0, <1>2, <1>3, <1>4 DEF Good
  <1>6. Keeps(s, n)
    BY <1>2, <1>4 DEF Keeps
  <1> QED BY <1>2, <1>4, <1>5, <1>6 DEF Fine

LEMMA WssPutSame ==
    ASSUME NEW s, Good(s), NEW n, NEW q, n = [s EXCEPT !.wss = q] /\ WssGood(q)
    PROVE  /\ Fine(s, n) /\ n.tabs = s.tabs /\ Open(n) = Open(s) /\ n.order = s.order /\ n.active = s.active
           /\ n.visits = s.visits /\ n.wss = q /\ n.aws = s.aws /\ n.closed = s.closed
  <1>1. s \in Stores /\ s.aws \in WsIds \cup {None}
    BY StoreParts DEF Good
  <1>2. n = [s EXCEPT !.wss = q, !.aws = s.aws]
    BY <1>1 DEF Stores
  <1>3. Rearranged(s, n, q, s.aws)
    BY <1>1, <1>2 DEF Rearranged
  <1> QED BY <1>3, WssPut

LEMMA SetWsFine ==
    ASSUME NEW s, Good(s), NEW w \in WsIds \cup {None}
    PROVE  /\ Fine(s, setActiveWorkspace(s, w)) /\ setActiveWorkspace(s, w).wss = s.wss
           /\ Open(setActiveWorkspace(s, w)) = Open(s) /\ setActiveWorkspace(s, w).tabs = s.tabs
           /\ setActiveWorkspace(s, w).order = s.order /\ setActiveWorkspace(s, w).aws = w
  <1>1. s \in Stores /\ WssGood(s.wss)
    BY DEF Good
  <1>2. setActiveWorkspace(s, w) = [s EXCEPT !.wss = s.wss, !.aws = w]
    BY <1>1 DEF setActiveWorkspace, Stores
  <1>3. Rearranged(s, setActiveWorkspace(s, w), s.wss, w)
    BY <1>1, <1>2 DEF Rearranged
  <1> QED BY <1>3, WssPut

\* One more workspace, whose tabs no other lists or two list anyway.
LEMMA WssOneMore ==
    ASSUME NEW q, WssGood(q), NEW x, Fits(x),
           \A i \in 1..Len(q) : q[i].id # x.id /\ ToSet(q[i].tabs) \cap ToSet(x.tabs) \subseteq Shared(ui)
    PROVE  WssGood(Append(q, x))
  <1> DEFINE r == Append(q, x)
  <1>1. /\ r \in Seq(Workspaces) /\ Len(q) \in Nat /\ Len(r) = Len(q) + 1
        /\ r[Len(q) + 1] = x /\ \A i \in 1..Len(q) : r[i] = q[i]
    BY DEF WssGood, Fits
  <1> HIDE DEF r
  <1>2. \A i \in 1..Len(r) : i \in 1..Len(q) \/ i = Len(q) + 1
    BY <1>1
  <1>3. ASSUME NEW i \in 1..Len(r), NEW j \in 1..Len(r), i # j
        PROVE  r[i].id # r[j].id /\ ToSet(r[i].tabs) \cap ToSet(r[j].tabs) \subseteq Shared(ui)
    <2>1. CASE i \in 1..Len(q) /\ j \in 1..Len(q)
      BY <1>1, <1>3, <2>1 DEF WssGood
    <2>2. CASE i = Len(q) + 1 /\ j \in 1..Len(q)
      BY <1>1, <2>2
    <2>3. CASE i \in 1..Len(q) /\ j = Len(q) + 1
      BY <1>1, <2>3
    <2> QED BY <1>2, <1>3, <2>1, <2>2, <2>3
  <1>4. ASSUME NEW i \in 1..Len(r) PROVE IsInjective(r[i].tabs) /\ r[i].active \in ToSet(r[i].tabs) \cup {None}
    <2>1. CASE i \in 1..Len(q)
      BY <1>1, <2>1 DEF WssGood
    <2>2. CASE i = Len(q) + 1
      BY <1>1, <2>2 DEF Fits
    <2> QED BY <1>2, <2>1, <2>2
  <1> QED BY <1>1, <1>3, <1>4 DEF WssGood, r

LEMMA AddWsFine ==
    ASSUME NEW s, Good(s), NEW w \in WsIds, ~HasWs(s, w)
    PROVE  Fine(s, addWorkspace(s, w)) /\ Open(addWorkspace(s, w)) = Open(s)
  <1> DEFINE x == [id |-> w, tabs |-> <<>>, active |-> None]
             q == Append(s.wss, x)
             a == IF s.aws = None THEN w ELSE s.aws
  <1>1. Fits(x) /\ x.id = w /\ ToSet(x.tabs) = {}
    BY DEF Fits, Workspaces, IsInjective, ToSet
  <1> HIDE DEF x
  <1>2. WssGood(s.wss)
    BY DEF Good
  <1>3. \A i \in 1..Len(s.wss) : s.wss[i].id # w
    BY <1>2, WsFound
  <1>4. WssGood(q)
    BY <1>1, <1>2, <1>3, WssOneMore
  <1>5. a \in WsIds \cup {None}
    BY StoreParts
  <1>6. addWorkspace(s, w) = [s EXCEPT !.wss = q, !.aws = a]
    BY DEF addWorkspace, x
  <1> HIDE DEF q, a
  <1>7. Rearranged(s, addWorkspace(s, w), q, a)
    BY <1>4, <1>5, <1>6 DEF Rearranged
  <1> QED BY <1>7, WssPut

\* The workspace of a payload with one tab.
LEMMA PayloadFits ==
    ASSUME NEW w \in WsIds, NEW t \in TabIds, NEW x, x = [id |-> w, tabs |-> <<t>>, active |-> t]
    PROVE  Fits(x) /\ x.id = w /\ ToSet(x.tabs) = {t}
  <1> DEFINE o == <<t>>
  <1>1. o \in Seq(TabIds) /\ Len(o) = 1 /\ o[1] = t
    OBVIOUS
  <1>2. x = [id |-> w, tabs |-> o, active |-> t]
    OBVIOUS
  <1> HIDE DEF o
  <1>3. ToSet(o) = {t} /\ IsInjective(o)
    BY <1>1, SetOf
  <1>4. x.id = w /\ x.tabs = o /\ x.active = t /\ x \in Workspaces
    BY <1>1, <1>2 DEF Workspaces
  <1> QED BY <1>3, <1>4 DEF Fits

LEMMA ImportFine ==
    ASSUME NEW s, Good(s), NEW w \in WsIds, NEW t \in TabIds,
           \A i \in 1..Len(s.wss) : t \notin ToSet(s.wss[i].tabs), NEW x, x = [id |-> w, tabs |-> <<t>>, active |-> t]
    PROVE  Fine(s, importWorkspace(s, x)) /\ Open(importWorkspace(s, x)) = Open(s)
  <1>1. Fits(x) /\ x.id = w /\ ToSet(x.tabs) = {t}
    BY PayloadFits
  <1>2. CASE HasWs(s, w)
    BY <1>1, <1>2, FineSelf DEF importWorkspace
  <1>3. CASE ~HasWs(s, w)
    <2>1. WssGood(s.wss)
      BY DEF Good
    <2>2. \A i \in 1..Len(s.wss) : s.wss[i].id # w
      BY <1>3, <2>1, WsFound
    <2>3. WssGood(Append(s.wss, x))
      BY <1>1, <2>1, <2>2, WssOneMore
    <2>4. importWorkspace(s, x) = [s EXCEPT !.wss = Append(s.wss, x)]
      BY <1>1, <1>3 DEF importWorkspace
    <2> QED BY <2>3, <2>4, WssPutSame
  <1> QED BY <1>2, <1>3

LEMMA RemoveWsFine ==
    ASSUME NEW s, Good(s), NEW w
    PROVE  /\ Fine(s, removeWorkspace(s, w)) /\ Open(removeWorkspace(s, w)) = Open(s)
           /\ removeWorkspace(s, w).order = s.order /\ removeWorkspace(s, w).tabs = s.tabs
           /\ removeWorkspace(s, w).active = s.active
  <1>1. CASE ~HasWs(s, w)
    BY <1>1, FineSelf DEF removeWorkspace
  <1>2. CASE HasWs(s, w)
    <2> DEFINE D == {x \in ToSet(s.wss) : x.id = w}
               rest == Without(s.wss, D)
               a == IF s.aws # w THEN s.aws ELSE IF rest = <<>> THEN None ELSE rest[1].id
               f == [x \in Workspaces |-> x.id]
    <2>1. WssGood(s.wss) /\ s.wss \in Seq(Workspaces) /\ s.aws \in WsIds \cup {None} /\ Len(s.wss) \in Nat
      BY StoreParts DEF Good
    <2>2. rest \in Seq(Workspaces) /\ ToSet(rest) \subseteq ToSet(s.wss)
      <3> HIDE DEF D
      <3> QED BY <2>1, WithoutSet
    <2>3. \A i \in 1..Len(s.wss) : s.wss[i] \in Workspaces /\ f[s.wss[i]] = s.wss[i].id
      BY <2>1
    <2>4. \A i, j \in 1..Len(s.wss) : i # j => f[s.wss[i]] # f[s.wss[j]]
      BY <2>1, <2>3 DEF WssGood
    <2>5. \A i, j \in 1..Len(rest) : i # j => f[rest[i]] # f[rest[j]]
      <3> HIDE DEF f, D
      <3> QED BY <2>1, <2>4, WithoutDistinct
    <2>6. removeWorkspace(s, w) = [s EXCEPT !.wss = rest, !.aws = a]
      BY <1>2 DEF removeWorkspace
    <2> HIDE DEF rest
    <2>7. \A i \in 1..Len(rest) : rest[i] \in Workspaces /\ f[rest[i]] = rest[i].id
      BY <2>2
    <2>8. \A i, j \in 1..Len(rest) : i # j => rest[i].id # rest[j].id
      <3> HIDE DEF f
      <3> QED BY <2>5, <2>7
    <2>9. \A i \in 1..Len(rest) : rest[i] \in ToSet(s.wss)
      <3>1. DOMAIN rest = 1..Len(rest)
        BY <2>2
      <3> QED BY <2>2, <3>1 DEF ToSet
    <2>10. WssGood(rest)
      BY <2>1, <2>2, <2>8, <2>9, WssChosen
    <2>11. a \in WsIds \cup {None}
      <3>1. CASE rest = <<>>
        BY <2>1, <3>1
      <3>2. CASE rest # <<>>
        <4>1. 1 \in 1..Len(rest)
          BY <2>2, <3>2
        <4>2. rest[1].id \in WsIds
          BY <2>7, <4>1, WsParts
        <4> QED BY <2>1, <4>2
      <3> QED BY <3>1, <3>2
    <2> HIDE DEF a
    <2>12. Rearranged(s, removeWorkspace(s, w), rest, a)
      BY <2>6, <2>10, <2>11 DEF Rearranged
    <2> QED BY <2>12, WssPut
  <1> QED BY <1>1, <1>2

\* A workspace without one of its tabs.
LEMMA DropTabFits ==
    ASSUME NEW x, Fits(x), NEW t
    PROVE  /\ Fits(DropTab(x, t)) /\ DropTab(x, t).id = x.id /\ ToSet(DropTab(x, t).tabs) = ToSet(x.tabs) \ {t}
           /\ DropTab(x, t).tabs = Drop(x.tabs, t)
  <1> DEFINE d == Drop(x.tabs, t)
             a == IF x.active = t THEN None ELSE x.active
  <1>1. x \in Workspaces /\ IsInjective(x.tabs) /\ x.active \in ToSet(x.tabs) \cup {None}
    BY DEF Fits
  <1>2. x.id \in WsIds /\ x.tabs \in Seq(TabIds) /\ x.active \in TabIds \cup {None}
    BY <1>1 DEF Workspaces
  <1>3. d \in Seq(TabIds) /\ ToSet(d) = ToSet(x.tabs) \ {t} /\ IsInjective(d)
    BY <1>1, <1>2, DropFacts
  <1>4. DropTab(x, t) = [x EXCEPT !.tabs = d, !.active = a]
    BY DEF DropTab
  <1> HIDE DEF d
  <1>5. a \in TabIds \cup {None} /\ a \in ToSet(d) \cup {None}
    BY <1>1, <1>2, <1>3
  <1> HIDE DEF a
  <1>6. /\ DropTab(x, t).id = x.id /\ DropTab(x, t).tabs = d /\ DropTab(x, t).active = a
        /\ DropTab(x, t) \in Workspaces
    BY <1>1, <1>2, <1>3, <1>4, <1>5 DEF Workspaces
  <1> QED BY <1>3, <1>5, <1>6 DEF Fits, d

LEMMA WssFit ==
    ASSUME NEW q, WssGood(q)
    PROVE  /\ Len(q) \in Nat /\ DOMAIN q = 1..Len(q) /\ \A i \in 1..Len(q) : Fits(q[i])
           /\ \A i, j \in 1..Len(q) : q[i].id = q[j].id => i = j
  BY DEF WssGood, Fits

LEMMA RemoveTabFine ==
    ASSUME NEW s, Good(s), NEW w, NEW t
    PROVE  /\ Fine(s, removeTabFromWorkspace(s, w, t)) /\ Open(removeTabFromWorkspace(s, w, t)) = Open(s)
           /\ removeTabFromWorkspace(s, w, t).active = s.active /\ removeTabFromWorkspace(s, w, t).tabs = s.tabs
           /\ removeTabFromWorkspace(s, w, t).order = s.order /\ removeTabFromWorkspace(s, w, t).visits = s.visits
           /\ removeTabFromWorkspace(s, w, t).aws = s.aws
           /\ HasWs(s, w) => /\ HasWs(removeTabFromWorkspace(s, w, t), w)
                             /\ ToSet(Ws(removeTabFromWorkspace(s, w, t), w).tabs) = ToSet(Ws(s, w).tabs) \ {t}
  <1> DEFINE r == [i \in DOMAIN s.wss |-> IF s.wss[i].id = w THEN DropTab(s.wss[i], t) ELSE s.wss[i]]
             n == removeTabFromWorkspace(s, w, t)
  <1>1. WssGood(s.wss)
    BY DEF Good
  <1>2. /\ Len(s.wss) \in Nat /\ DOMAIN s.wss = 1..Len(s.wss) /\ \A i \in 1..Len(s.wss) : Fits(s.wss[i])
    BY <1>1, WssFit
  <1>3. \A i \in 1..Len(s.wss) : r[i] = IF s.wss[i].id = w THEN DropTab(s.wss[i], t) ELSE s.wss[i]
    BY <1>2
  <1>4. DOMAIN r = DOMAIN s.wss /\ r = [i \in DOMAIN r |-> r[i]]
    OBVIOUS
  <1>5. n = [s EXCEPT !.wss = r]
    BY DEF removeTabFromWorkspace, UpdateWs
  <1> HIDE DEF r
  <1>6. ASSUME NEW i \in 1..Len(s.wss)
        PROVE  Fits(r[i]) /\ r[i].id = s.wss[i].id /\ ToSet(r[i].tabs) \subseteq ToSet(s.wss[i].tabs)
    <2>1. Fits(s.wss[i])
      BY <1>2
    <2>2. CASE s.wss[i].id = w
      <3>1. r[i] = DropTab(s.wss[i], t)
        BY <1>3, <2>2
      <3> QED BY <2>1, <3>1, DropTabFits
    <2>3. CASE s.wss[i].id # w
      <3>1. r[i] = s.wss[i]
        BY <1>3, <2>3
      <3> QED BY <2>1, <3>1
    <2> QED BY <2>2, <2>3
  <1>7. WssGood(r)
    BY <1>1, <1>4, <1>6, WssShrunk
  <1> HIDE DEF n
  <1>8. /\ Fine(s, n) /\ n.wss = r /\ n.tabs = s.tabs /\ Open(n) = Open(s) /\ n.order = s.order
        /\ n.active = s.active /\ n.visits = s.visits /\ n.aws = s.aws
    BY <1>5, <1>7, WssPutSame
  <1>9. ASSUME HasWs(s, w) PROVE HasWs(n, w) /\ ToSet(Ws(n, w).tabs) = ToSet(Ws(s, w).tabs) \ {t}
    <2>1. PICK i \in 1..Len(s.wss) : Ws(s, w) = s.wss[i] /\ s.wss[i].id = w
      BY <1>1, <1>9, WsFound
    <2>2. r[i] = DropTab(s.wss[i], t) /\ r[i].id = w
      BY <1>3, <1>6, <2>1
    <2>3. i \in 1..Len(n.wss) /\ n.wss[i] = r[i] /\ WssGood(n.wss)
      <3>1. DOMAIN r = 1..Len(r)
        BY <1>7, WssFit
      <3> QED BY <1>2, <1>4, <1>7, <1>8, <3>1
    <2>4. HasWs(n, w) /\ Ws(n, w) = n.wss[i]
      BY <2>2, <2>3, WsFound
    <2>5. ToSet(DropTab(s.wss[i], t).tabs) = ToSet(s.wss[i].tabs) \ {t}
      BY <1>2, DropTabFits
    <2> QED BY <2>1, <2>2, <2>3, <2>4, <2>5
  <1> QED BY <1>8, <1>9 DEF n

LEMMA SetWsActiveFine ==
    ASSUME NEW s, Good(s), NEW w, NEW t \in TabIds, HasWs(s, w) => t \in ToSet(Ws(s, w).tabs)
    PROVE  Fine(s, setWorkspaceActiveTab(s, w, t)) /\ Open(setWorkspaceActiveTab(s, w, t)) = Open(s)
  <1> DEFINE F(x) == [x EXCEPT !.active = t]
             r == [i \in DOMAIN s.wss |-> IF s.wss[i].id = w THEN F(s.wss[i]) ELSE s.wss[i]]
  <1>1. WssGood(s.wss)
    BY DEF Good
  <1>2. /\ Len(s.wss) \in Nat /\ DOMAIN s.wss = 1..Len(s.wss) /\ \A i \in 1..Len(s.wss) : Fits(s.wss[i])
    BY <1>1, WssFit
  <1>3. \A i \in 1..Len(s.wss) : r[i] = IF s.wss[i].id = w THEN F(s.wss[i]) ELSE s.wss[i]
    BY <1>2
  <1>4. DOMAIN r = DOMAIN s.wss /\ r = [i \in DOMAIN r |-> r[i]]
    OBVIOUS
  <1>5. setWorkspaceActiveTab(s, w, t) = [s EXCEPT !.wss = r]
    BY DEF setWorkspaceActiveTab, UpdateWs
  <1> HIDE DEF r
  <1>6. ASSUME NEW i \in 1..Len(s.wss)
        PROVE  Fits(r[i]) /\ r[i].id = s.wss[i].id /\ ToSet(r[i].tabs) \subseteq ToSet(s.wss[i].tabs)
    <2>1. CASE s.wss[i].id = w
      <3>1. t \in ToSet(s.wss[i].tabs)
        BY <1>1, <2>1, WsFound
      <3>2. r[i] = F(s.wss[i])
        BY <1>3, <2>1
      <3>3. s.wss[i] \in Workspaces /\ IsInjective(s.wss[i].tabs)
        BY <1>2 DEF Fits
      <3>4. F(s.wss[i]) \in Workspaces /\ F(s.wss[i]).tabs = s.wss[i].tabs /\ F(s.wss[i]).active = t /\ F(s.wss[i]).id = s.wss[i].id
        BY <3>3 DEF Workspaces
      <3> HIDE DEF F
      <3> QED BY <3>1, <3>2, <3>3, <3>4 DEF Fits
    <2>2. CASE s.wss[i].id # w
      BY <1>2, <1>3, <2>2
    <2> QED BY <2>1, <2>2
  <1>7. WssGood(r)
    BY <1>1, <1>4, <1>6, WssShrunk
  <1> QED BY <1>5, <1>7, WssPutSame

LEMMA ReorderWsTabsFine ==
    ASSUME NEW s, Good(s), NEW w, NEW order \in Seq(TabIds)
    PROVE  Fine(s, reorderWorkspaceTabs(s, w, order))
  <1> DEFINE Chosen(x) == Restricted(order, x.tabs)
             F(x) == [x EXCEPT !.tabs = Chosen(x) \o Without(x.tabs, ToSet(Chosen(x)))]
             r == [i \in DOMAIN s.wss |-> IF s.wss[i].id = w THEN F(s.wss[i]) ELSE s.wss[i]]
  <1>1. WssGood(s.wss)
    BY DEF Good
  <1>2. /\ Len(s.wss) \in Nat /\ DOMAIN s.wss = 1..Len(s.wss) /\ \A i \in 1..Len(s.wss) : Fits(s.wss[i])
    BY <1>1, WssFit
  <1>3. \A i \in 1..Len(s.wss) : r[i] = IF s.wss[i].id = w THEN F(s.wss[i]) ELSE s.wss[i]
    BY <1>2
  <1>4. DOMAIN r = DOMAIN s.wss /\ r = [i \in DOMAIN r |-> r[i]]
    OBVIOUS
  <1>5. reorderWorkspaceTabs(s, w, order) = [s EXCEPT !.wss = r]
    BY DEF reorderWorkspaceTabs, UpdateWs
  <1> HIDE DEF r
  <1>6. ASSUME NEW i \in 1..Len(s.wss)
        PROVE  Fits(r[i]) /\ r[i].id = s.wss[i].id /\ ToSet(r[i].tabs) \subseteq ToSet(s.wss[i].tabs)
    <2>1. CASE s.wss[i].id = w
      <3> DEFINE x == s.wss[i]
                 k == Chosen(x)
                 rest == Without(x.tabs, ToSet(k))
                 q == k \o rest
      <3>1. x \in Workspaces /\ IsInjective(x.tabs) /\ x.active \in ToSet(x.tabs) \cup {None}
        BY <1>2 DEF Fits
      <3>2. x.tabs \in Seq(TabIds)
        BY <3>1 DEF Workspaces
      <3>3. r[i] = [x EXCEPT !.tabs = q]
        BY <1>3, <2>1
      <3> HIDE DEF x
      <3>4. k \in Seq(TabIds) /\ IsInjective(k) /\ ToSet(k) \subseteq ToSet(x.tabs)
        BY <3>2, RestrictedFacts
      <3> HIDE DEF k
      <3>5. rest \in Seq(TabIds) /\ ToSet(rest) = ToSet(x.tabs) \ ToSet(k) /\ IsInjective(rest)
        BY <3>1, <3>2, WithoutSet, WithoutOnce
      <3> HIDE DEF rest
      <3>6. q \in Seq(TabIds) /\ ToSet(q) = ToSet(x.tabs) /\ IsInjective(q)
        <4>1. q \in Seq(TabIds) /\ ToSet(q) = ToSet(k) \cup ToSet(rest)
          BY <3>4, <3>5, ConcatFacts
        <4>2. ToSet(k) \cap ToSet(rest) = {}
          BY <3>5
        <4>3. IsInjective(q)
          BY <3>4, <3>5, <4>2, ConcatFacts
        <4> QED BY <3>4, <3>5, <4>1, <4>3
      <3> HIDE DEF q
      <3>7. r[i] \in Workspaces /\ r[i].tabs = q /\ r[i].active = x.active /\ r[i].id = x.id
        BY <3>1, <3>3, <3>6 DEF Workspaces
      <3>8. Fits(r[i]) /\ r[i].id = x.id /\ ToSet(r[i].tabs) \subseteq ToSet(x.tabs)
        BY <3>1, <3>6, <3>7 DEF Fits
      <3> QED BY <3>8 DEF x
    <2>2. CASE s.wss[i].id # w
      BY <1>2, <1>3, <2>2
    <2> QED BY <2>1, <2>2
  <1>7. WssGood(r)
    BY <1>1, <1>4, <1>6, WssShrunk
  <1> QED BY <1>5, <1>7, WssPutSame

LEMMA NoneNotWs == None \notin WsIds
  BY WsAssumption

\* Two lists of workspaces, one after the other.
LEMMA IdsApart ==
    ASSUME NEW p \in Seq(Workspaces), NEW q \in Seq(Workspaces),
           \A i, j \in 1..Len(p) : i # j => p[i].id # p[j].id,
           \A i, j \in 1..Len(q) : i # j => q[i].id # q[j].id,
           \A i \in 1..Len(p), j \in 1..Len(q) : p[i].id # q[j].id
    PROVE  \A i, j \in 1..Len(p \o q) : i # j => (p \o q)[i].id # (p \o q)[j].id
  <1> DEFINE r == p \o q
  <1>1. /\ r \in Seq(Workspaces) /\ Len(r) = Len(p) + Len(q) /\ Len(p) \in Nat /\ Len(q) \in Nat
        /\ \A i \in 1..Len(p) : r[i] = p[i]
        /\ \A i \in 1..Len(q) : r[Len(p) + i] = q[i]
    OBVIOUS
  <1> HIDE DEF r
  <1>2. ASSUME NEW i \in 1..Len(r), i \notin 1..Len(p) PROVE i - Len(p) \in 1..Len(q) /\ r[i] = q[i - Len(p)]
    <2>1. i - Len(p) \in 1..Len(q) /\ Len(p) + (i - Len(p)) = i
      BY <1>1, <1>2
    <2> QED BY <1>1, <2>1
  <1>3. ASSUME NEW i \in 1..Len(r), NEW j \in 1..Len(r), i # j PROVE r[i].id # r[j].id
    <2>1. CASE i \in 1..Len(p) /\ j \in 1..Len(p)
      BY <1>1, <1>3, <2>1
    <2>2. CASE i \in 1..Len(p) /\ j \notin 1..Len(p)
      BY <1>1, <1>2, <2>2
    <2>3. CASE i \notin 1..Len(p) /\ j \in 1..Len(p)
      BY <1>1, <1>2, <2>3
    <2>4. CASE i \notin 1..Len(p) /\ j \notin 1..Len(p)
      <3>1. i - Len(p) # j - Len(p)
        BY <1>1, <1>3
      <3> QED BY <1>2, <2>4, <3>1
    <2> QED BY <2>1, <2>2, <2>3, <2>4
  <1> QED BY <1>3 DEF r

LEMMA ReorderWssFine ==
    ASSUME NEW s, Good(s), NEW ids \in Seq(WsIds), IsInjective(ids)
    PROVE  Fine(s, reorderWorkspaces(s, ids))
  <1> DEFINE Existing == {w \in WsIds : HasWs(s, w)}
             found == Within(ids, Existing)
             D == {x \in ToSet(s.wss) : x.id \in ToSet(ids)}
             missing == Without(s.wss, D)
             head == [i \in DOMAIN found |-> Ws(s, found[i])]
             tail == IF Len(found) < Len(s.wss) THEN missing ELSE <<>>
             r == head \o tail
             f == [x \in Workspaces |-> x.id]
  <1>1. WssGood(s.wss) /\ s.wss \in Seq(Workspaces) /\ Len(s.wss) \in Nat /\ DOMAIN s.wss = 1..Len(s.wss)
    BY WssFit DEF Good, WssGood
  <1>2. found \in Seq(WsIds) /\ ToSet(found) = ToSet(ids) \cap Existing /\ IsInjective(found)
    <2> HIDE DEF Existing
    <2> QED BY WithinSet, WithinOnce
  <1>3. DOMAIN found = 1..Len(found) /\ Len(found) \in Nat
    BY <1>2
  <1>4. \A i \in 1..Len(found) : found[i] \in ToSet(ids) /\ HasWs(s, found[i])
    BY <1>2, <1>3 DEF ToSet
  <1>5. \A i, j \in 1..Len(found) : i # j => found[i] # found[j]
    BY <1>2, <1>3 DEF IsInjective
  <1>6. reorderWorkspaces(s, ids) = [s EXCEPT !.wss = r]
    BY DEF reorderWorkspaces
  <1> HIDE DEF found
  <1>7. ASSUME NEW i \in 1..Len(found)
        PROVE  Ws(s, found[i]) \in Workspaces /\ Ws(s, found[i]).id = found[i] /\ Ws(s, found[i]) \in ToSet(s.wss)
    <2>1. /\ Ws(s, found[i]) \in Workspaces /\ Ws(s, found[i]).id = found[i]
          /\ WsIndex(s, found[i]) \in 1..Len(s.wss) /\ Ws(s, found[i]) = s.wss[WsIndex(s, found[i])]
      BY <1>1, <1>4, WsFound
    <2> QED BY <1>1, <2>1 DEF ToSet
  <1>8. head \in Seq(Workspaces) /\ Len(head) = Len(found) /\ \A i \in 1..Len(found) : head[i] = Ws(s, found[i])
    <2>1. head \in [1..Len(found) -> Workspaces]
      BY <1>3, <1>7
    <2> QED BY <1>3, <2>1
  <1> HIDE DEF head
  <1>9. /\ missing \in Seq(Workspaces) /\ ToSet(missing) = ToSet(s.wss) \ D
        /\ \A i, j \in 1..Len(missing) : i # j => missing[i].id # missing[j].id
    <2>1. missing \in Seq(Workspaces) /\ ToSet(missing) = ToSet(s.wss) \ D
      <3> HIDE DEF D
      <3> QED BY <1>1, WithoutSet
    <2>2. \A i, j \in 1..Len(s.wss) : i # j => f[s.wss[i]] # f[s.wss[j]]
      BY <1>1 DEF WssGood
    <2>3. \A i, j \in 1..Len(missing) : i # j => f[missing[i]] # f[missing[j]]
      <3> HIDE DEF f, D
      <3> QED BY <1>1, <2>2, WithoutDistinct
    <2> HIDE DEF missing
    <2>4. \A i \in 1..Len(missing) : f[missing[i]] = missing[i].id
      BY <2>1
    <2> HIDE DEF f
    <2> QED BY <2>1, <2>3, <2>4
  <1> HIDE DEF missing
  <1>10. ASSUME NEW i \in 1..Len(missing) PROVE missing[i] \in ToSet(s.wss) /\ missing[i].id \notin ToSet(ids)
    <2>1. missing[i] \in ToSet(missing)
      BY <1>9 DEF ToSet
    <2> QED BY <1>9, <2>1
  <1>11. /\ tail \in Seq(Workspaces) /\ \A i, j \in 1..Len(tail) : i # j => tail[i].id # tail[j].id
         /\ \A i \in 1..Len(tail) : tail[i] \in ToSet(s.wss) /\ tail[i].id \notin ToSet(ids)
    <2>1. CASE tail = missing
      <3> HIDE DEF tail
      <3> QED BY <1>9, <1>10, <2>1
    <2>2. CASE tail = <<>>
      <3> HIDE DEF tail
      <3> QED BY <2>2
    <2> QED BY <2>1, <2>2
  <1> HIDE DEF tail
  <1>12. \A i, j \in 1..Len(head) : i # j => head[i].id # head[j].id
    BY <1>5, <1>7, <1>8
  <1>13. \A i \in 1..Len(head), j \in 1..Len(tail) : head[i].id # tail[j].id
    BY <1>4, <1>7, <1>8, <1>11
  <1>14. \A i, j \in 1..Len(r) : i # j => r[i].id # r[j].id
    BY <1>8, <1>11, <1>12, <1>13, IdsApart
  <1>15. r \in Seq(Workspaces) /\ ToSet(r) = ToSet(head) \cup ToSet(tail)
    BY <1>8, <1>11, ConcatFacts
  <1> HIDE DEF r
  <1>16. ToSet(head) \subseteq ToSet(s.wss) /\ ToSet(tail) \subseteq ToSet(s.wss)
    <2>1. DOMAIN head = 1..Len(found) /\ DOMAIN tail = 1..Len(tail)
      BY <1>8, <1>11
    <2>2. ToSet(head) \subseteq ToSet(s.wss)
      BY <1>7, <1>8, <2>1 DEF ToSet
    <2>3. ToSet(tail) \subseteq ToSet(s.wss)
      BY <1>11, <2>1 DEF ToSet
    <2> QED BY <2>2, <2>3
  <1>17. \A i \in 1..Len(r) : r[i] \in ToSet(s.wss)
    <2>1. \A i \in 1..Len(r) : r[i] \in ToSet(r)
      BY <1>15 DEF ToSet
    <2> QED BY <1>15, <1>16, <2>1
  <1>18. WssGood(r)
    BY <1>1, <1>14, <1>15, <1>17, WssChosen
  <1> QED BY <1>6, <1>18, WssPutSame

\* The workspace that takes a tab in.
Entered(x, y, t, k) ==
    /\ Fits(x) /\ t \in TabIds /\ k \in 0..Len(x.tabs)
    /\ y = IF t \in ToSet(x.tabs) THEN [x EXCEPT !.active = t]
           ELSE [x EXCEPT !.active = t, !.tabs = InsertAfter(x.tabs, k, t)]

LEMMA IntoFits ==
    ASSUME NEW x, NEW y, NEW t, NEW k, Entered(x, y, t, k)
    PROVE  Fits(y) /\ y.id = x.id /\ ToSet(y.tabs) = ToSet(x.tabs) \cup {t}
  <1>1. /\ x \in Workspaces /\ IsInjective(x.tabs) /\ x.tabs \in Seq(TabIds) /\ t \in TabIds
        /\ k \in 0..Len(x.tabs)
    BY DEF Entered, Fits, Workspaces
  <1>2. CASE t \in ToSet(x.tabs)
    <2>1. y \in Workspaces /\ y.id = x.id /\ y.tabs = x.tabs /\ y.active = t
      BY <1>1, <1>2 DEF Workspaces, Entered
    <2> QED BY <1>1, <1>2, <2>1 DEF Fits
  <1>3. CASE t \notin ToSet(x.tabs)
    <2> DEFINE q == InsertAfter(x.tabs, k, t)
    <2>1. q \in Seq(TabIds) /\ ToSet(q) = ToSet(x.tabs) \cup {t} /\ IsInjective(q)
      BY <1>1, <1>3, InsertAfterFacts
    <2>2. y = [x EXCEPT !.active = t, !.tabs = q]
      BY <1>3 DEF Entered
    <2> HIDE DEF q
    <2>3. y \in Workspaces /\ y.id = x.id /\ y.tabs = q /\ y.active = t
      BY <1>1, <2>1, <2>2 DEF Workspaces
    <2> QED BY <2>1, <2>3 DEF Fits
  <1> QED BY <1>2, <1>3

LEMMA InsertTabFine ==
    ASSUME NEW s, Good(s), NEW t \in TabIds, NEW w, NEW after
    PROVE  /\ Fine(s, insertTab(s, t, w, after)) /\ Open(insertTab(s, t, w, after)) = Open(s)
           /\ insertTab(s, t, w, after).active = s.active /\ insertTab(s, t, w, after).tabs = s.tabs
           /\ HasWs(s, w) => /\ HasWs(insertTab(s, t, w, after), w)
                             /\ t \in ToSet(Ws(insertTab(s, t, w, after), w).tabs)
  <1>0. WssGood(s.wss)
    BY DEF Good
  <1>1. CASE w = None \/ ~HasWs(s, w)
    <2>1. insertTab(s, t, w, after) = s
      BY <1>1 DEF insertTab
    <2>2. ~HasWs(s, w)
      BY <1>0, <1>1, WsFound, NoneNotWs
    <2> QED BY <2>1, <2>2, FineSelf
  <1>2. CASE ~(w = None \/ ~HasWs(s, w))
    <2> DEFINE at(tabs) == IF after = First THEN 0
                           ELSE IF Position(tabs, after) # 0 THEN Position(tabs, after)
                           ELSE Len(tabs)
               into(ws) == IF t \in ToSet(ws.tabs) THEN [ws EXCEPT !.active = t]
                           ELSE [ws EXCEPT !.active = t, !.tabs = InsertAfter(ws.tabs, at(ws.tabs), t)]
               r == [i \in DOMAIN s.wss |->
                       IF s.wss[i].id = w THEN into(s.wss[i])
                       ELSE IF t \in ToSet(s.wss[i].tabs) THEN DropTab(s.wss[i], t) ELSE s.wss[i]]
               n == insertTab(s, t, w, after)
    <2>1. n = [s EXCEPT !.wss = r]
      BY <1>2 DEF insertTab
    <2>2. /\ Len(s.wss) \in Nat /\ DOMAIN s.wss = 1..Len(s.wss) /\ \A i \in 1..Len(s.wss) : Fits(s.wss[i])
      BY <1>0, WssFit
    <2>3. \A i \in 1..Len(s.wss) : r[i] = IF s.wss[i].id = w THEN into(s.wss[i])
                       ELSE IF t \in ToSet(s.wss[i].tabs) THEN DropTab(s.wss[i], t) ELSE s.wss[i]
      BY <2>2
    <2>4. DOMAIN r = DOMAIN s.wss /\ r = [i \in DOMAIN r |-> r[i]]
      OBVIOUS
    <2> HIDE DEF r
    <2>5. ASSUME NEW i \in 1..Len(s.wss), s.wss[i].id = w
          PROVE  Fits(r[i]) /\ r[i].id = s.wss[i].id /\ ToSet(r[i].tabs) = ToSet(s.wss[i].tabs) \cup {t}
      <3>1. Fits(s.wss[i]) /\ s.wss[i].tabs \in Seq(TabIds)
        BY <2>2 DEF Fits, Workspaces
      <3>2. at(s.wss[i].tabs) \in 0..Len(s.wss[i].tabs)
        <4>1. Position(s.wss[i].tabs, after) \in 0..Len(s.wss[i].tabs) /\ Len(s.wss[i].tabs) \in Nat
          BY <3>1, PositionFacts
        <4> QED BY <4>1
      <3>3. r[i] = into(s.wss[i])
        BY <2>3, <2>5
      <3> HIDE DEF at
      <3>4. r[i] = IF t \in ToSet(s.wss[i].tabs) THEN [s.wss[i] EXCEPT !.active = t]
                   ELSE [s.wss[i] EXCEPT !.active = t, !.tabs = InsertAfter(s.wss[i].tabs, at(s.wss[i].tabs), t)]
        BY <3>3
      <3> HIDE DEF into
      <3>5. PICK x, k, y : x = s.wss[i] /\ k = at(s.wss[i].tabs) /\ y = r[i]
        OBVIOUS
      <3>6. Entered(x, y, t, k)
        BY <3>1, <3>2, <3>4, <3>5 DEF Entered
      <3>7. Fits(y) /\ y.id = x.id /\ ToSet(y.tabs) = ToSet(x.tabs) \cup {t}
        BY <3>6, IntoFits
      <3> QED BY <3>5, <3>7
    <2>6. ASSUME NEW i \in 1..Len(s.wss), s.wss[i].id # w
          PROVE  Fits(r[i]) /\ r[i].id = s.wss[i].id /\ ToSet(r[i].tabs) = ToSet(s.wss[i].tabs) \ {t}
      <3>1. Fits(s.wss[i])
        BY <2>2
      <3>2. CASE t \in ToSet(s.wss[i].tabs)
        <4>1. r[i] = DropTab(s.wss[i], t)
          BY <2>3, <2>6, <3>2
        <4> QED BY <3>1, <4>1, DropTabFits
      <3>3. CASE t \notin ToSet(s.wss[i].tabs)
        <4>1. r[i] = s.wss[i]
          BY <2>3, <2>6, <3>3
        <4> QED BY <3>1, <3>3, <4>1
      <3> QED BY <3>2, <3>3
    <2>7. WssGood(r)
      <3>1. \A i \in 1..Len(s.wss) : Fits(r[i]) /\ r[i].id = s.wss[i].id
        BY <2>5, <2>6
      <3>2. \A i \in 1..Len(s.wss) : s.wss[i].id = w => ToSet(r[i].tabs) \subseteq ToSet(s.wss[i].tabs) \cup {t}
        BY <2>5
      <3>3. \A i \in 1..Len(s.wss) : s.wss[i].id # w => ToSet(r[i].tabs) \subseteq ToSet(s.wss[i].tabs) \ {t}
        BY <2>6
      <3>4. TakenIn(s.wss, r, t, w)
        BY <1>0, <2>2, <2>4, <3>1, <3>2, <3>3 DEF TakenIn
      <3> QED BY <3>4, WssTaken
    <2> HIDE DEF n
    <2>8. Fine(s, n) /\ n.wss = r /\ n.tabs = s.tabs /\ Open(n) = Open(s) /\ n.active = s.active
      BY <2>1, <2>7, WssPutSame
    <2>9. HasWs(n, w) /\ t \in ToSet(Ws(n, w).tabs)
      <3>1. PICK i \in 1..Len(s.wss) : s.wss[i].id = w
        BY <1>0, <1>2, WsFound
      <3>2. r[i].id = w /\ t \in ToSet(r[i].tabs)
        BY <2>5, <3>1
      <3>3. DOMAIN r = 1..Len(r)
        BY <2>7, WssFit
      <3>4. i \in 1..Len(n.wss) /\ n.wss[i] = r[i] /\ WssGood(n.wss)
        BY <2>2, <2>4, <2>7, <2>8, <3>3
      <3>5. HasWs(n, w) /\ Ws(n, w) = n.wss[i]
        BY <3>2, <3>4, WsFound
      <3> QED BY <3>2, <3>4, <3>5
    <2> QED BY <2>8, <2>9 DEF n
  <1> QED BY <1>1, <1>2

-----------------------------------------------------------------------------
(* The orders the tab bar shows and reports.                              *)

LEMMA OnceLength ==
    ASSUME NEW S, NEW s \in Seq(S), IsInjective(s)
    PROVE  IsFiniteSet(ToSet(s)) /\ Cardinality(ToSet(s)) = Len(s)
  <1>1. Len(s) \in Nat /\ DOMAIN s = 1..Len(s) /\ s \in [1..Len(s) -> S]
    OBVIOUS
  <1>2. s \in Bijection(1..Len(s), ToSet(s))
    <2>1. s \in [1..Len(s) -> ToSet(s)]
      BY <1>1 DEF ToSet
    <2>2. \A a, b \in 1..Len(s) : s[a] = s[b] => a = b
      BY <1>1 DEF IsInjective
    <2>3. \A t \in ToSet(s) : \E a \in 1..Len(s) : s[a] = t
      BY <1>1 DEF ToSet
    <2> QED BY <2>1, <2>2, <2>3 DEF Bijection, Injection, Surjection, IsInjective
  <1>3. ExistsBijection(1..Len(s), ToSet(s))
    BY <1>2 DEF ExistsBijection
  <1>4. IsFiniteSet(1..Len(s)) /\ Cardinality(1..Len(s)) = Len(s)
    <2>1. 1 \in Int /\ Len(s) \in Int
      BY <1>1
    <2>2. IsFiniteSet(1..Len(s)) /\ Cardinality(1..Len(s)) = IF 1 > Len(s) THEN 0 ELSE Len(s) - 1 + 1
      BY <2>1, FS_Interval
    <2> QED BY <1>1, <2>2
  <1> QED BY <1>3, <1>4, FS_Bijection

LEMMA SplitLength ==
    ASSUME NEW S, NEW s \in Seq(S), NEW T, IsInjective(s)
    PROVE  Len(Within(s, T)) + Len(Without(s, T)) = Len(s)
  <1> DEFINE p == Within(s, T)
             q == Without(s, T)
  <1>1. /\ p \in Seq(S) /\ ToSet(p) = ToSet(s) \cap T /\ IsInjective(p)
        /\ q \in Seq(S) /\ ToSet(q) = ToSet(s) \ T /\ IsInjective(q)
    BY WithinSet, WithinOnce, WithoutSet, WithoutOnce
  <1> HIDE DEF p, q
  <1>2. IsFiniteSet(ToSet(p)) /\ Cardinality(ToSet(p)) = Len(p)
    BY <1>1, OnceLength
  <1>3. IsFiniteSet(ToSet(q)) /\ Cardinality(ToSet(q)) = Len(q)
    BY <1>1, OnceLength
  <1>4. Cardinality(ToSet(s)) = Len(s)
    BY OnceLength
  <1>5. ToSet(p) \cup ToSet(q) = ToSet(s) /\ ToSet(p) \cap ToSet(q) = {}
    BY <1>1
  <1>6. Cardinality(ToSet(p) \cup ToSet(q)) = Cardinality(ToSet(p)) + Cardinality(ToSet(q)) - Cardinality(ToSet(p) \cap ToSet(q))
    BY <1>2, <1>3, FS_Union
  <1>7. Cardinality({}) = 0
    BY FS_EmptySet
  <1>8. Len(s) = Len(p) + Len(q) - 0
    <2>1. Cardinality(ToSet(s)) = Cardinality(ToSet(p)) + Cardinality(ToSet(q)) - Cardinality({})
      BY <1>5, <1>6
    <2> QED BY <1>2, <1>3, <1>4, <1>7, <2>1
  <1>9. Len(p) + Len(q) = Len(s)
    <2>1. Len(p) \in Nat /\ Len(q) \in Nat /\ Len(s) \in Nat
      BY <1>1
    <2> QED BY <1>8, <2>1
  <1> QED BY <1>9 DEF p, q

LEMMA StandaloneFacts ==
    ASSUME NEW s, Good(s)
    PROVE  /\ StandaloneOrder(s) \in Seq(TabIds) /\ IsInjective(StandaloneOrder(s))
           /\ ToSet(StandaloneOrder(s)) \subseteq Open(s)
  <1>1. s.order \in Seq(TabIds) /\ IsInjective(s.order) /\ ToSet(s.order) \subseteq Open(s)
    BY StoreParts DEF Good
  <1> DEFINE T == {t \in TabIds : isStandaloneTab(s, t)}
  <1>2. Within(s.order, T) \in Seq(TabIds) /\ ToSet(Within(s.order, T)) = ToSet(s.order) \cap T /\ IsInjective(Within(s.order, T))
    <2> HIDE DEF T
    <2> QED BY <1>1, WithinSet, WithinOnce
  <1> QED BY <1>1, <1>2 DEF StandaloneOrder

LEMMA WsTabs ==
    ASSUME NEW s, Good(s), NEW w, HasWs(s, w)
    PROVE  /\ Ws(s, w).tabs \in Seq(TabIds) /\ IsInjective(Ws(s, w).tabs) /\ w \in WsIds
           /\ Ws(s, w).active \in ToSet(Ws(s, w).tabs) \cup {None} /\ ToSet(Ws(s, w).tabs) \subseteq TabIds
           /\ Ws(s, w).tabs # <<>> => Ws(s, w).tabs[1] \in ToSet(Ws(s, w).tabs)
  <1>1. WssGood(s.wss)
    BY DEF Good
  <1>2. /\ Ws(s, w) \in Workspaces /\ w \in WsIds /\ IsInjective(Ws(s, w).tabs)
        /\ Ws(s, w).active \in ToSet(Ws(s, w).tabs) \cup {None}
    BY <1>1, WsFound
  <1>3. Ws(s, w).tabs \in Seq(TabIds) /\ ToSet(Ws(s, w).tabs) \subseteq TabIds
    BY <1>2, WsParts
  <1>4. Ws(s, w).tabs # <<>> => Ws(s, w).tabs[1] \in ToSet(Ws(s, w).tabs)
    <2> DEFINE q == Ws(s, w).tabs
    <2>1. q \in Seq(TabIds)
      BY <1>3
    <2> HIDE DEF q
    <2>2. q # <<>> => q[1] \in ToSet(q)
      BY <2>1, SetOf
    <2> QED BY <2>2 DEF q
  <1> QED BY <1>2, <1>3, <1>4

LEMMA VisibleFacts ==
    ASSUME NEW s, Good(s)
    PROVE  /\ getVisibleTabIds(s) \in Seq(TabIds) /\ IsInjective(getVisibleTabIds(s))
           /\ ToSet(getVisibleTabIds(s)) \subseteq Open(s)
  <1>0. /\ s.order \in Seq(TabIds) /\ IsInjective(s.order) /\ ToSet(s.order) \subseteq Open(s)
        /\ s.active \in Open(s) \cup {None} /\ Open(s) \subseteq TabIds
    BY StoreParts DEF Good
  <1>1. CASE s.wss # <<>> /\ s.aws = None
    BY <1>1, StandaloneFacts DEF getVisibleTabIds
  <1>2. CASE ~(s.wss # <<>> /\ s.aws = None) /\ s.wss # <<>> /\ s.active # None /\ isStandaloneTab(s, s.active)
    <2> DEFINE o == <<s.active>>
    <2>1. getVisibleTabIds(s) = o
      BY <1>2 DEF getVisibleTabIds
    <2>2. o \in Seq(TabIds) /\ Len(o) = 1 /\ o[1] = s.active /\ s.active \in Open(s)
      BY <1>0, <1>2
    <2> HIDE DEF o
    <2>3. ToSet(o) = {s.active} /\ IsInjective(o)
      BY <2>2, SetOf
    <2> QED BY <2>1, <2>2, <2>3
  <1>3. CASE ~(s.wss # <<>> /\ s.aws = None) /\ ~(s.wss # <<>> /\ s.active # None /\ isStandaloneTab(s, s.active))
             /\ s.wss # <<>> /\ HasWs(s, s.aws)
    <2>1. getVisibleTabIds(s) = Within(Ws(s, s.aws).tabs, Open(s))
      BY <1>3 DEF getVisibleTabIds
    <2> DEFINE q == Ws(s, s.aws).tabs
    <2>2. q \in Seq(TabIds) /\ IsInjective(q)
      BY <1>3, WsTabs
    <2> HIDE DEF q
    <2>3. Within(q, Open(s)) \in Seq(TabIds) /\ ToSet(Within(q, Open(s))) = ToSet(q) \cap Open(s) /\ IsInjective(Within(q, Open(s)))
      BY <2>2, WithinSet, WithinOnce
    <2> QED BY <2>1, <2>3 DEF q
  <1>4. CASE ~(s.wss # <<>> /\ s.aws = None) /\ ~(s.wss # <<>> /\ s.active # None /\ isStandaloneTab(s, s.active))
             /\ ~(s.wss # <<>> /\ HasWs(s, s.aws))
    BY <1>0, <1>4 DEF getVisibleTabIds
  <1> QED BY <1>1, <1>2, <1>3, <1>4

LEMMA TabBarFacts ==
    ASSUME Good(ui), NEW i, NEW j, SameZone(i, j)
    PROVE  /\ TabBarOrder(i, j) \in Seq(TabIds) /\ IsInjective(TabBarOrder(i, j))
           /\ ToSet(TabBarOrder(i, j)) \subseteq Open(ui)
  <1> DEFINE P == {t \in Open(ui) : ui.tabs[t].pinned}
             v == getVisibleTabIds(ui)
             pins == Within(v, P)
             normal == Without(v, P)
             moved == arrayMove(pins, i, j)
             shifted == arrayMove(normal, i - Len(pins), j - Len(pins))
  <1>1. v \in Seq(TabIds) /\ IsInjective(v) /\ ToSet(v) \subseteq Open(ui)
    BY VisibleFacts
  <1>2. i \in DOMAIN v /\ j \in DOMAIN v /\ (i <= Len(pins) <=> j <= Len(pins))
    BY DEF SameZone
  <1>3. TabBarOrder(i, j) = IF i \in DOMAIN pins THEN moved \o normal ELSE pins \o shifted
    BY DEF TabBarOrder
  <1> HIDE DEF v, P
  <1>4. /\ pins \in Seq(TabIds) /\ ToSet(pins) = ToSet(v) \cap P /\ IsInjective(pins)
        /\ normal \in Seq(TabIds) /\ ToSet(normal) = ToSet(v) \ P /\ IsInjective(normal)
        /\ Len(pins) + Len(normal) = Len(v)
    BY <1>1, WithinSet, WithinOnce, WithoutSet, WithoutOnce, SplitLength
  <1>5. i \in 1..Len(v) /\ j \in 1..Len(v)
    BY <1>1, <1>2
  <1> HIDE DEF pins, normal
  <1>6. CASE i \in DOMAIN pins
    <2>1. i \in 1..Len(pins) /\ j \in 1..Len(pins)
      BY <1>2, <1>4, <1>5, <1>6
    <2>2. moved \in Seq(TabIds) /\ IsInjective(moved) /\ ToSet(moved) = ToSet(pins)
      BY <1>4, <2>1, ArrayMoveFacts
    <2> HIDE DEF moved
    <2>3. ToSet(moved) \cap ToSet(normal) = {}
      BY <1>4, <2>2
    <2>4. /\ moved \o normal \in Seq(TabIds) /\ ToSet(moved \o normal) = ToSet(moved) \cup ToSet(normal)
          /\ IsInjective(moved \o normal)
      BY <1>4, <2>2, <2>3, ConcatFacts
    <2> QED BY <1>1, <1>3, <1>4, <1>6, <2>2, <2>4
  <1>7. CASE i \notin DOMAIN pins
    <2>1. i - Len(pins) \in 1..Len(normal) /\ j - Len(pins) \in 1..Len(normal)
      BY <1>2, <1>4, <1>5, <1>7
    <2>2. shifted \in Seq(TabIds) /\ IsInjective(shifted) /\ ToSet(shifted) = ToSet(normal)
      <3> PICK a, b : a = i - Len(pins) /\ b = j - Len(pins)
        OBVIOUS
      <3>1. a \in 1..Len(normal) /\ b \in 1..Len(normal)
        BY <2>1
      <3>2. shifted = arrayMove(normal, a, b)
        OBVIOUS
      <3> HIDE DEF shifted
      <3>3. arrayMove(normal, a, b) \in Seq(TabIds) /\ IsInjective(arrayMove(normal, a, b)) /\ ToSet(arrayMove(normal, a, b)) = ToSet(normal)
        BY <1>4, <3>1, ArrayMoveFacts
      <3> QED BY <3>2, <3>3
    <2> HIDE DEF shifted
    <2>3. ToSet(pins) \cap ToSet(shifted) = {}
      BY <1>4, <2>2
    <2>4. /\ pins \o shifted \in Seq(TabIds) /\ ToSet(pins \o shifted) = ToSet(pins) \cup ToSet(shifted)
          /\ IsInjective(pins \o shifted)
      BY <1>4, <2>2, <2>3, ConcatFacts
    <2> QED BY <1>1, <1>3, <1>4, <1>7, <2>2, <2>4
  <1> QED BY <1>6, <1>7

LEMMA StandaloneReordered ==
    ASSUME NEW current \in Seq(TabIds), NEW newOrder \in Seq(TabIds), IsInjective(current)
    PROVE  /\ reorderStandaloneTabOrder(current, newOrder) \in Seq(TabIds)
           /\ IsInjective(reorderStandaloneTabOrder(current, newOrder))
           /\ ToSet(reorderStandaloneTabOrder(current, newOrder)) \subseteq ToSet(current)
  <1> DEFINE picked == Restricted(newOrder, current)
             firstAt == CHOOSE i \in DOMAIN current : /\ current[i] \in ToSet(picked)
                                                      /\ \A j \in 1..(i - 1) : current[j] \notin ToSet(picked)
             head == SubSeq(current, 1, firstAt - 1)
             tail == SubSeq(current, firstAt, Len(current))
             rest == Without(tail, ToSet(picked))
             r == reorderStandaloneTabOrder(current, newOrder)
  <1>1. picked \in Seq(TabIds) /\ IsInjective(picked) /\ ToSet(picked) \subseteq ToSet(current)
    BY RestrictedFacts
  <1>2. r = IF picked = <<>> THEN current ELSE (head \o picked) \o rest
    BY DEF reorderStandaloneTabOrder
  <1> HIDE DEF picked
  <1>3. CASE picked = <<>>
    BY <1>2, <1>3
  <1>4. CASE picked # <<>>
    <2>0. Len(current) \in Nat /\ DOMAIN current = 1..Len(current) /\ ToSet(current) = {current[i] : i \in 1..Len(current)}
      BY SetOf
    <2>1. firstAt \in DOMAIN current /\ \A j \in 1..(firstAt - 1) : current[j] \notin ToSet(picked)
      <3> DEFINE hits == {i \in 1..Len(current) : current[i] \in ToSet(picked)}
      <3>1. picked[1] \in ToSet(picked)
        BY <1>1, <1>4, SetOf
      <3>2. hits # {} /\ hits \in SUBSET Nat
        BY <1>1, <2>0, <3>1
      <3>3. PICK m \in hits : \A i \in hits : m <= i
        <4> HIDE DEF hits
        <4> QED BY <3>2, Least
      <3>4. m \in DOMAIN current /\ current[m] \in ToSet(picked) /\ \A j \in 1..(m - 1) : current[j] \notin ToSet(picked)
        BY <2>0, <3>3
      <3> QED BY <3>4
    <2> HIDE DEF firstAt
    <2>2. PICK k : k = firstAt - 1
      OBVIOUS
    <2>3. k \in 0..Len(current) /\ firstAt = k + 1 /\ k + 1 \in {k + 1, k + 2} /\ k + 1 <= Len(current) + 1
      BY <2>0, <2>1, <2>2
    <2>4. /\ SubSeq(current, 1, k) \in Seq(TabIds) /\ SubSeq(current, k + 1, Len(current)) \in Seq(TabIds)
          /\ ToSet(SubSeq(current, 1, k)) \cup ToSet(SubSeq(current, k + 1, Len(current))) = ToSet(current)
          /\ IsInjective(SubSeq(current, 1, k)) /\ IsInjective(SubSeq(current, k + 1, Len(current)))
          /\ ToSet(SubSeq(current, 1, k)) \cap ToSet(SubSeq(current, k + 1, Len(current))) = {}
      BY <2>3, CutFacts
    <2>5. /\ head \in Seq(TabIds) /\ tail \in Seq(TabIds) /\ ToSet(head) \cup ToSet(tail) = ToSet(current)
          /\ IsInjective(head) /\ IsInjective(tail) /\ ToSet(head) \cap ToSet(tail) = {}
      BY <2>2, <2>3, <2>4
    <2>6. ToSet(head) \cap ToSet(picked) = {}
      <3>1. k \in Nat /\ Len(SubSeq(current, 1, k)) = k /\ \A i \in 1..k : SubSeq(current, 1, k)[i] = current[i]
        BY <2>3
      <3>2. head = SubSeq(current, 1, k)
        BY <2>2
      <3> HIDE DEF head
      <3>3. DOMAIN head = 1..k /\ \A i \in 1..k : head[i] = current[i]
        BY <2>5, <3>1, <3>2
      <3>4. \A i \in 1..k : current[i] \notin ToSet(picked)
        BY <2>1, <2>2
      <3> QED BY <3>3, <3>4 DEF ToSet
    <2> HIDE DEF head, tail
    <2>7. rest \in Seq(TabIds) /\ ToSet(rest) = ToSet(tail) \ ToSet(picked) /\ IsInjective(rest)
      BY <2>5, WithoutSet, WithoutOnce
    <2> HIDE DEF rest
    <2> DEFINE q == head \o picked
    <2>8. q \in Seq(TabIds) /\ ToSet(q) = ToSet(head) \cup ToSet(picked) /\ IsInjective(q)
      BY <1>1, <2>5, <2>6, ConcatFacts
    <2>9. r = q \o rest
      BY <1>2, <1>4
    <2> HIDE DEF q, r
    <2>10. ToSet(q) \cap ToSet(rest) = {}
      BY <2>5, <2>7, <2>8
    <2>11. q \o rest \in Seq(TabIds) /\ ToSet(q \o rest) = ToSet(q) \cup ToSet(rest) /\ IsInjective(q \o rest)
      BY <2>7, <2>8, <2>10, ConcatFacts
    <2>12. ToSet(q) \cup ToSet(rest) \subseteq ToSet(current)
      BY <1>1, <2>5, <2>7, <2>8
    <2>13. r \in Seq(TabIds) /\ IsInjective(r) /\ ToSet(r) \subseteq ToSet(current)
      BY <2>9, <2>11, <2>12
    <2> QED BY <2>13 DEF r
  <1> QED BY <1>3, <1>4 DEF r

-----------------------------------------------------------------------------
(* Closing a tab.                                                         *)

LEMMA NextTabFacts ==
    ASSUME NEW s, Good(s), NEW t
    PROVE  /\ NextTab(s, t) \in TabIds \cup {None}
           /\ findWorkspaceByTab(s, t) # None /\ NextTab(s, t) # None =>
                 NextTab(s, t) \in ToSet(Ws(s, findWorkspaceByTab(s, t)).tabs) \ {t}
  <1> DEFINE w == findWorkspaceByTab(s, t)
             ordered == IF w # None THEN Ws(s, w).tabs ELSE StandaloneOrder(s)
             rest == Drop(ordered, t)
             recent == {i \in DOMAIN s.visits : s.visits[i] \in ToSet(rest)}
             least(a, b) == IF a < b THEN a ELSE b
             last == CHOOSE i \in recent : \A j \in recent : j <= i
             near == least(Position(ordered, t), Len(rest))
  <1>1. WssGood(s.wss)
    BY DEF Good
  <1>2. w # None => HasWs(s, w)
    BY <1>1, OwnerOf
  <1>3. NextTab(s, t) = IF recent # {} THEN s.visits[last]
                        ELSE IF rest = <<>> THEN None
                        ELSE IF Position(ordered, t) = 0 THEN None ELSE rest[near]
    BY DEF NextTab
  <1>4. w # None => ordered = Ws(s, w).tabs
    OBVIOUS
  <1>5. ordered \in Seq(TabIds)
    <2>1. CASE w # None
      BY <1>2, <2>1, WsTabs
    <2>2. CASE w = None
      BY <2>2, StandaloneFacts
    <2> QED BY <2>1, <2>2
  <1> HIDE DEF ordered, w
  <1>6. rest \in Seq(TabIds) /\ ToSet(rest) = ToSet(ordered) \ {t}
    BY <1>5, DropFacts
  <1> HIDE DEF rest
  <1>7. NextTab(s, t) = None \/ NextTab(s, t) \in ToSet(rest)
    <2>1. CASE recent # {}
      <3>1. s.visits \in Seq(TabIds)
        BY StoreParts
      <3>2. recent \in SUBSET (0..Len(s.visits)) /\ Len(s.visits) \in Nat
        BY <3>1
      <3>3. \E i \in recent : \A j \in recent : j <= i
        <4> HIDE DEF recent
        <4> QED BY <2>1, <3>2, Greatest
      <3>4. last \in recent
        <4> HIDE DEF recent
        <4> QED BY <3>3
      <3>5. s.visits[last] \in ToSet(rest)
        <4> HIDE DEF last
        <4> QED BY <3>4
      <3> HIDE DEF last, recent
      <3> QED BY <1>3, <2>1, <3>5
    <2>2. CASE recent = {} /\ rest # <<>> /\ Position(ordered, t) # 0
      <3>1. Position(ordered, t) \in 1..Len(ordered) /\ Len(ordered) \in Nat
        BY <1>5, <2>2, PositionFacts
      <3>2. Len(rest) \in Nat /\ 1 \in 1..Len(rest)
        BY <1>6, <2>2, SetOf
      <3> HIDE DEF recent
      <3>3. near \in 1..Len(rest)
        BY <3>1, <3>2
      <3> HIDE DEF near
      <3>4. rest[near] \in ToSet(rest)
        BY <1>6, <3>3, SetOf
      <3> QED BY <1>3, <2>2, <3>4
    <2>3. CASE recent = {} /\ ~(rest # <<>> /\ Position(ordered, t) # 0)
      <3> HIDE DEF recent
      <3> QED BY <1>3, <2>3
    <2> QED BY <2>1, <2>2, <2>3
  <1>8. ToSet(rest) \subseteq TabIds
    BY <1>6, SetOf
  <1>9. w # None /\ NextTab(s, t) # None => NextTab(s, t) \in ToSet(Ws(s, w).tabs) \ {t}
    BY <1>4, <1>6, <1>7
  <1> QED BY <1>7, <1>8, <1>9 DEF w

LEMMA CloseFine ==
    ASSUME NEW s, Good(s), NEW t, NEW skip \in BOOLEAN
    PROVE  Fine(s, closeTabInWorkspace(s, t, skip))
  <1>1. CASE t \notin Open(s) \/ s.tabs[t].locked
    BY <1>1, FineSelf DEF closeTabInWorkspace
  <1>2. CASE ~(t \notin Open(s) \/ s.tabs[t].locked)
    <2> DEFINE w == findWorkspaceByTab(s, t)
               next == NextTab(s, t)
               s1 == IF skip THEN s ELSE recordClose(s, t)
               s2 == IF w = None THEN s1 ELSE removeTabFromWorkspace(s1, w, t)
               s3 == closeTab(s2, t)
               s4 == IF s.active = t THEN setActiveTab(s3, next) ELSE s3
               n == closeTabInWorkspace(s, t, skip)
    <2>0. n = IF (w # None /\ Ws(s, w).active = t) /\ next # None THEN setWorkspaceActiveTab(s4, w, next) ELSE s4
      BY <1>2 DEF closeTabInWorkspace
    <2>1. Fine(s, s1) /\ s1.wss = s.wss
      <3>1. CASE skip
        BY <3>1, FineSelf
      <3>2. CASE ~skip
        BY <1>2, <3>2, RecordCloseFine
      <3> QED BY <3>1, <3>2
    <2>2. w # None => HasWs(s, w) /\ HasWs(s1, w) /\ Ws(s1, w) = Ws(s, w)
      <3>1. WssGood(s.wss)
        BY DEF Good
      <3> HIDE DEF s1
      <3> QED BY <2>1, <3>1, OwnerOf, SameWss
    <2> HIDE DEF s1
    <2>3. /\ Fine(s1, s2)
          /\ w # None => HasWs(s2, w) /\ ToSet(Ws(s2, w).tabs) = ToSet(Ws(s, w).tabs) \ {t}
      <3>1. CASE w = None
        BY <2>1, <3>1, FineSelf DEF Fine
      <3>2. CASE w # None
        <4>1. s2 = removeTabFromWorkspace(s1, w, t)
          BY <3>2
        <4>2. Good(s1) /\ HasWs(s1, w) /\ Ws(s1, w) = Ws(s, w)
          BY <2>1, <2>2, <3>2 DEF Fine
        <4> HIDE DEF s2, w
        <4> QED BY <4>1, <4>2, RemoveTabFine
      <3> QED BY <3>1, <3>2
    <2> HIDE DEF s2
    <2>4. Fine(s2, s3) /\ s3.wss = s2.wss
      BY <2>3, CloseTabFine DEF Fine
    <2> HIDE DEF s3
    <2>5. Fine(s3, s4) /\ s4.wss = s3.wss
      <3>1. CASE s.active = t
        <4>1. next \in TabIds \cup {None} /\ Good(s3)
          BY <2>4, NextTabFacts DEF Fine
        <4> HIDE DEF next
        <4> QED BY <3>1, <4>1, SetActiveFine
      <3>2. CASE s.active # t
        BY <2>4, <3>2, FineSelf DEF Fine
      <3> QED BY <3>1, <3>2
    <2> HIDE DEF s4
    <2>6. Fine(s, s4)
      BY <2>1, <2>3, <2>4, <2>5, FineThen
    <2>7. CASE ~((w # None /\ Ws(s, w).active = t) /\ next # None)
      <3>1. n = s4
        BY <2>0, <2>7
      <3> QED BY <2>6, <3>1
    <2>8. CASE (w # None /\ Ws(s, w).active = t) /\ next # None
      <3>1. n = setWorkspaceActiveTab(s4, w, next)
        BY <2>0, <2>8
      <3>2. next \in TabIds /\ next \in ToSet(Ws(s, w).tabs) \ {t}
        BY <2>8, NextTabFacts
      <3>3. next \in ToSet(Ws(s4, w).tabs)
        <4> HIDE DEF next, w
        <4>1. Ws(s4, w) = Ws(s2, w)
          <5>1. s4.wss = s2.wss
            BY <2>4, <2>5
          <5> QED BY <5>1, SameWss
        <4> QED BY <2>3, <2>8, <3>2, <4>1
      <3>4. Good(s4)
        BY <2>6 DEF Fine
      <3> HIDE DEF next, w, n
      <3>5. Fine(s4, n)
        BY <3>1, <3>2, <3>3, <3>4, SetWsActiveFine
      <3>6. Fine(s, n)
        BY <2>6, <3>5, FineThen
      <3> QED BY <3>6 DEF n
    <2> QED BY <2>7, <2>8
  <1> QED BY <1>1, <1>2

\* Several tabs, one after the other.
ClosedUpTo(f, s, q, n) ==
    f = [i \in 0..n |-> IF i = 0 THEN s ELSE closeTabInWorkspace(f[i - 1], q[i], FALSE)]

LEMMA ClosedExists ==
    ASSUME NEW s, NEW q \in Seq(TabIds)
    PROVE  \E f : ClosedUpTo(f, s, q, Len(q))
  <1> DEFINE T == {n \in 0..Len(q) : \E f : ClosedUpTo(f, s, q, n)}
  <1>1. Len(q) \in Nat
    OBVIOUS
  <1>2. 0 \in T
    <2> DEFINE f == [i \in 0..0 |-> s]
    <2>1. ClosedUpTo(f, s, q, 0)
      BY DEF ClosedUpTo
    <2> QED BY <1>1, <2>1
  <1>3. ASSUME NEW n \in 1..Len(q), (n - 1) \in T PROVE n \in T
    <2>1. PICK f : ClosedUpTo(f, s, q, n - 1)
      BY <1>3
    <2> DEFINE v == closeTabInWorkspace(f[n - 1], q[n], FALSE)
               g == [i \in 0..n |-> IF i = n THEN v ELSE f[i]]
    <2>2. ASSUME NEW i \in 0..n
          PROVE  g[i] = IF i = 0 THEN s ELSE closeTabInWorkspace(g[i - 1], q[i], FALSE)
      <3>1. CASE i = n
        <4>1. i # 0 /\ g[i] = v /\ g[i - 1] = f[i - 1]
          BY <3>1, <1>1
        <4> HIDE DEF g
        <4> QED BY <3>1, <4>1
      <3>2. CASE i # n
        <4> HIDE DEF v
        <4>1. i \in 0..(n - 1) /\ g[i] = f[i] /\ (i # 0 => g[i - 1] = f[i - 1])
          BY <3>2, <1>1
        <4>2. f[i] = IF i = 0 THEN s ELSE closeTabInWorkspace(f[i - 1], q[i], FALSE)
          BY <2>1, <4>1 DEF ClosedUpTo
        <4> HIDE DEF g
        <4> QED BY <4>1, <4>2
      <3> QED BY <3>1, <3>2
    <2>3. ClosedUpTo(g, s, q, n)
      <3> HIDE DEF v
      <3>1. g = [i \in 0..n |-> g[i]]
        OBVIOUS
      <3> HIDE DEF g
      <3> QED BY <2>2, <3>1 DEF ClosedUpTo
    <2> HIDE DEF g
    <2> QED BY <2>3
  <1>4. \A i \in 0..Len(q) : i \in T
    <2> HIDE DEF T
    <2> QED BY <1>1, <1>2, <1>3, UpTo
  <1> QED BY <1>1, <1>4

LEMMA CloseAllFine ==
    ASSUME NEW s, Good(s), NEW q \in Seq(TabIds)
    PROVE  Fine(s, CloseAll(s, q))
  <1> DEFINE F == CHOOSE f : ClosedUpTo(f, s, q, Len(q))
  <1>1. Len(q) \in Nat
    OBVIOUS
  <1>2. ClosedUpTo(F, s, q, Len(q))
    BY ClosedExists
  <1>3. CloseAll(s, q) = F[Len(q)]
    BY DEF CloseAll, ClosedUpTo
  <1> HIDE DEF F
  <1>4. ASSUME NEW i \in 0..Len(q)
        PROVE  F[i] = IF i = 0 THEN s ELSE closeTabInWorkspace(F[i - 1], q[i], FALSE)
    <2> DEFINE g == [k \in 0..Len(q) |-> IF k = 0 THEN s ELSE closeTabInWorkspace(F[k - 1], q[k], FALSE)]
    <2>1. F = g
      BY <1>2 DEF ClosedUpTo
    <2>2. g[i] = IF i = 0 THEN s ELSE closeTabInWorkspace(F[i - 1], q[i], FALSE)
      OBVIOUS
    <2> HIDE DEF g
    <2> QED BY <2>1, <2>2
  <1> DEFINE T == {i \in 0..Len(q) : Fine(s, F[i])}
  <1>5. 0 \in T
    <2>1. 0 \in 0..Len(q)
      BY <1>1
    <2>2. F[0] = s
      BY <1>4, <2>1
    <2> QED BY <2>1, <2>2, FineSelf
  <1>6. ASSUME NEW i \in 1..Len(q), (i - 1) \in T PROVE i \in T
    <2>1. i \in 0..Len(q) /\ i # 0
      BY <1>1
    <2>2. F[i] = closeTabInWorkspace(F[i - 1], q[i], FALSE)
      BY <1>4, <2>1
    <2>3. Fine(s, F[i - 1]) /\ Good(F[i - 1])
      BY <1>6 DEF Fine
    <2>4. Fine(F[i - 1], F[i])
      BY <2>2, <2>3, CloseFine
    <2>5. Fine(s, F[i])
      BY <2>3, <2>4, FineThen
    <2> QED BY <2>1, <2>5
  <1>7. \A i \in 0..Len(q) : i \in T
    <2> HIDE DEF T
    <2> QED BY <1>1, <1>5, <1>6, UpTo
  <1> QED BY <1>1, <1>3, <1>7

InsertedUpTo(f, s, q, w, n) ==
    f = [i \in 0..n |-> IF i = 0 THEN s ELSE insertTab(f[i - 1], q[i], w, None)]

LEMMA InsertedExists ==
    ASSUME NEW s, NEW q \in Seq(TabIds), NEW w
    PROVE  \E f : InsertedUpTo(f, s, q, w, Len(q))
  <1> DEFINE T == {n \in 0..Len(q) : \E f : InsertedUpTo(f, s, q, w, n)}
  <1>1. Len(q) \in Nat
    OBVIOUS
  <1>2. 0 \in T
    <2> DEFINE f == [i \in 0..0 |-> s]
    <2>1. InsertedUpTo(f, s, q, w, 0)
      BY DEF InsertedUpTo
    <2> QED BY <1>1, <2>1
  <1>3. ASSUME NEW n \in 1..Len(q), (n - 1) \in T PROVE n \in T
    <2>1. PICK f : InsertedUpTo(f, s, q, w, n - 1)
      BY <1>3
    <2> DEFINE v == insertTab(f[n - 1], q[n], w, None)
               g == [i \in 0..n |-> IF i = n THEN v ELSE f[i]]
    <2>2. ASSUME NEW i \in 0..n
          PROVE  g[i] = IF i = 0 THEN s ELSE insertTab(g[i - 1], q[i], w, None)
      <3>1. CASE i = n
        <4>1. i # 0 /\ g[i] = v /\ g[i - 1] = f[i - 1]
          BY <3>1, <1>1
        <4> HIDE DEF g
        <4> QED BY <3>1, <4>1
      <3>2. CASE i # n
        <4> HIDE DEF v
        <4>1. i \in 0..(n - 1) /\ g[i] = f[i] /\ (i # 0 => g[i - 1] = f[i - 1])
          BY <3>2, <1>1
        <4>2. f[i] = IF i = 0 THEN s ELSE insertTab(f[i - 1], q[i], w, None)
          BY <2>1, <4>1 DEF InsertedUpTo
        <4> HIDE DEF g
        <4> QED BY <4>1, <4>2
      <3> QED BY <3>1, <3>2
    <2>3. InsertedUpTo(g, s, q, w, n)
      <3> HIDE DEF v
      <3>1. g = [i \in 0..n |-> g[i]]
        OBVIOUS
      <3> HIDE DEF g
      <3> QED BY <2>2, <3>1 DEF InsertedUpTo
    <2> HIDE DEF g
    <2> QED BY <2>3
  <1>4. \A i \in 0..Len(q) : i \in T
    <2> HIDE DEF T
    <2> QED BY <1>1, <1>2, <1>3, UpTo
  <1> QED BY <1>1, <1>4

LEMMA InsertAllFine ==
    ASSUME NEW s, Good(s), NEW q \in Seq(TabIds), NEW w
    PROVE  Fine(s, InsertAll(s, q, w))
  <1> DEFINE F == CHOOSE f : InsertedUpTo(f, s, q, w, Len(q))
  <1>1. Len(q) \in Nat /\ \A i \in 1..Len(q) : q[i] \in TabIds
    OBVIOUS
  <1>2. InsertedUpTo(F, s, q, w, Len(q))
    BY InsertedExists
  <1>3. InsertAll(s, q, w) = F[Len(q)]
    BY DEF InsertAll, InsertedUpTo
  <1> HIDE DEF F
  <1>4. ASSUME NEW i \in 0..Len(q)
        PROVE  F[i] = IF i = 0 THEN s ELSE insertTab(F[i - 1], q[i], w, None)
    <2> DEFINE g == [k \in 0..Len(q) |-> IF k = 0 THEN s ELSE insertTab(F[k - 1], q[k], w, None)]
    <2>1. F = g
      BY <1>2 DEF InsertedUpTo
    <2>2. g[i] = IF i = 0 THEN s ELSE insertTab(F[i - 1], q[i], w, None)
      OBVIOUS
    <2> HIDE DEF g
    <2> QED BY <2>1, <2>2
  <1> DEFINE T == {i \in 0..Len(q) : Fine(s, F[i])}
  <1>5. 0 \in T
    <2>1. 0 \in 0..Len(q)
      BY <1>1
    <2>2. F[0] = s
      BY <1>4, <2>1
    <2> QED BY <2>1, <2>2, FineSelf
  <1>6. ASSUME NEW i \in 1..Len(q), (i - 1) \in T PROVE i \in T
    <2>1. i \in 0..Len(q) /\ i # 0 /\ q[i] \in TabIds
      BY <1>1
    <2>2. F[i] = insertTab(F[i - 1], q[i], w, None)
      BY <1>4, <2>1
    <2>3. Fine(s, F[i - 1]) /\ Good(F[i - 1])
      BY <1>6 DEF Fine
    <2>4. Fine(F[i - 1], F[i])
      BY <2>1, <2>2, <2>3, InsertTabFine
    <2>5. Fine(s, F[i])
      BY <2>3, <2>4, FineThen
    <2> QED BY <2>1, <2>5
  <1>7. \A i \in 0..Len(q) : i \in T
    <2> HIDE DEF T
    <2> QED BY <1>1, <1>5, <1>6, UpTo
  <1> QED BY <1>1, <1>3, <1>7

-----------------------------------------------------------------------------
(* What the handlers compose.                                             *)

LEMMA SelectFine ==
    ASSUME NEW s, Good(s), NEW t \in TabIds
    PROVE  Fine(s, SelectTab(s, t))
  <1> DEFINE w == findWorkspaceByTab(s, t)
             s1 == setActiveTab(s, t)
             s2 == setActiveWorkspace(s1, w)
             n == SelectTab(s, t)
  <1>1. n = IF w = None THEN s1 ELSE setWorkspaceActiveTab(s2, w, t)
    BY DEF SelectTab
  <1>2. Fine(s, s1) /\ s1.wss = s.wss /\ Good(s1)
    BY SetActiveFine DEF Fine
  <1>3. WssGood(s.wss)
    BY DEF Good
  <1>4. w \in WsIds \cup {None} /\ (w # None => HasWs(s, w) /\ t \in ToSet(Ws(s, w).tabs))
    BY <1>3, OwnerOf
  <1> HIDE DEF w, s1
  <1>5. Fine(s1, s2) /\ s2.wss = s1.wss /\ Good(s2)
    BY <1>2, <1>4, SetWsFine DEF Fine
  <1> HIDE DEF s2
  <1>6. CASE w = None
    BY <1>1, <1>2, <1>6 DEF n
  <1>7. CASE w # None
    <2>1. s2.wss = s.wss
      BY <1>2, <1>5
    <2>2. t \in ToSet(Ws(s2, w).tabs)
      BY <1>4, <1>7, <2>1, SameWss
    <2>3. Fine(s2, setWorkspaceActiveTab(s2, w, t))
      BY <1>5, <2>2, SetWsActiveFine
    <2>4. Fine(s, setWorkspaceActiveTab(s2, w, t))
      BY <1>2, <1>5, <2>3, FineThen
    <2> QED BY <1>1, <1>7, <2>4 DEF n
  <1> QED BY <1>6, <1>7

LEMMA ActivateFine ==
    ASSUME NEW s, Good(s), NEW t \in TabIds
    PROVE  Fine(s, Activate(s, t))
  <1> DEFINE w == findWorkspaceByTab(s, t)
             s1 == setActiveTab(s, t)
             n == Activate(s, t)
  <1>1. n = IF w # None /\ Ws(s, w).active # t THEN setWorkspaceActiveTab(s1, w, t) ELSE s1
    BY DEF Activate
  <1>2. Fine(s, s1) /\ s1.wss = s.wss /\ Good(s1)
    BY SetActiveFine DEF Fine
  <1>3. WssGood(s.wss)
    BY DEF Good
  <1>4. w \in WsIds \cup {None} /\ (w # None => HasWs(s, w) /\ t \in ToSet(Ws(s, w).tabs))
    BY <1>3, OwnerOf
  <1> HIDE DEF w, s1
  <1>5. CASE ~(w # None /\ Ws(s, w).active # t)
    BY <1>1, <1>2, <1>5 DEF n
  <1>6. CASE w # None /\ Ws(s, w).active # t
    <2>1. t \in ToSet(Ws(s1, w).tabs)
      BY <1>2, <1>4, <1>6, SameWss
    <2>2. Fine(s1, setWorkspaceActiveTab(s1, w, t))
      BY <1>2, <2>1, SetWsActiveFine
    <2>3. Fine(s, setWorkspaceActiveTab(s1, w, t))
      BY <1>2, <2>2, FineThen
    <2> QED BY <1>1, <1>6, <2>3 DEF n
  <1> QED BY <1>5, <1>6

\* A new tab, made active.
LEMMA AddActiveFine ==
    ASSUME NEW s, Good(s), NEW t \in TabIds, NEW tab \in FullTabs, NEW after
    PROVE  Fine(s, setActiveTab(addTab(s, t, tab, after), t))
  <1> DEFINE m == addTab(s, t, tab, after)
  <1>1. Fine(s, m) /\ Good(m)
    BY AddTabFine DEF Fine
  <1> HIDE DEF m
  <1>2. Fine(m, setActiveTab(m, t))
    BY <1>1, SetActiveFine
  <1>3. Fine(s, setActiveTab(m, t))
    BY <1>1, <1>2, FineThen
  <1> QED BY <1>3 DEF m

LEMMA AddInsertFine ==
    ASSUME NEW s, Good(s), NEW t \in TabIds, NEW tab \in FullTabs, NEW after, NEW w, NEW at
    PROVE  Fine(s, insertTab(setActiveTab(addTab(s, t, tab, after), t), t, w, at))
  <1> DEFINE m == setActiveTab(addTab(s, t, tab, after), t)
  <1>1. Fine(s, m) /\ Good(m)
    BY AddActiveFine DEF Fine
  <1> HIDE DEF m
  <1>2. Fine(m, insertTab(m, t, w, at))
    BY <1>1, InsertTabFine
  <1>3. Fine(s, insertTab(m, t, w, at))
    BY <1>1, <1>2, FineThen
  <1> QED BY <1>3 DEF m

LEMMA AddSelectFine ==
    ASSUME NEW s, Good(s), NEW t \in TabIds, NEW tab \in FullTabs, NEW after, NEW w, NEW at
    PROVE  Fine(s, SelectTab(insertTab(addTab(s, t, tab, after), t, w, at), t))
  <1> DEFINE m == addTab(s, t, tab, after)
             k == insertTab(m, t, w, at)
  <1>1. Fine(s, m) /\ Good(m)
    BY AddTabFine DEF Fine
  <1> HIDE DEF m
  <1>2. Fine(m, k) /\ Good(k)
    BY <1>1, InsertTabFine DEF Fine
  <1> HIDE DEF k
  <1>3. Fine(k, SelectTab(k, t))
    BY <1>2, SelectFine
  <1>4. Fine(s, SelectTab(k, t))
    BY <1>1, <1>2, <1>3, FineThen
  <1> QED BY <1>4 DEF k, m

LEMMA SingletonInsertFine ==
    ASSUME NEW s, Good(s), NEW c \in Contents, NEW t \in TabIds, NEW after, NEW w, NEW at
    PROVE  Fine(s, insertTab(openSingletonTab(s, c, after, t), SingletonId(s, c, t), w, at))
  <1> DEFINE m == openSingletonTab(s, c, after, t)
             id == SingletonId(s, c, t)
  <1>1. Fine(s, m) /\ Good(m) /\ id \in TabIds
    BY OpenSingletonFine DEF Fine
  <1> HIDE DEF m, id
  <1>2. Fine(m, insertTab(m, id, w, at))
    BY <1>1, InsertTabFine
  <1>3. Fine(s, insertTab(m, id, w, at))
    BY <1>1, <1>2, FineThen
  <1> QED BY <1>3 DEF m, id

LEMMA SingletonSelectFine ==
    ASSUME NEW s, Good(s), NEW c \in Contents, NEW w, NEW t \in TabIds
    PROVE  Fine(s, OpenSingletonAndSelect(s, c, w, t))
  <1> DEFINE id == SingletonId(s, c, t)
             m == insertTab(openSingletonTab(s, c, None, t), id, w, None)
  <1>1. Fine(s, m) /\ Good(m)
    BY SingletonInsertFine DEF Fine
  <1>2. id \in TabIds
    BY OpenSingletonFine
  <1>3. OpenSingletonAndSelect(s, c, w, t) = SelectTab(m, id)
    BY DEF OpenSingletonAndSelect
  <1> HIDE DEF m, id
  <1>4. Fine(m, SelectTab(m, id))
    BY <1>1, <1>2, SelectFine
  <1> QED BY <1>1, <1>3, <1>4, FineThen

LEMMA MoveFine ==
    ASSUME NEW s, Good(s), NEW t \in TabIds, NEW w \in WsIds \cup {None}, NEW after
    PROVE  Fine(s, MoveTabToWorkspace(s, t, w, after))
  <1> DEFINE m == insertTab(s, t, w, after)
  <1>1. Fine(s, m) /\ Good(m)
    BY InsertTabFine DEF Fine
  <1>2. MoveTabToWorkspace(s, t, w, after) \in {m, setActiveWorkspace(m, w)}
    BY DEF MoveTabToWorkspace
  <1> HIDE DEF m
  <1>3. Fine(m, setActiveWorkspace(m, w))
    BY <1>1, SetWsFine
  <1>4. Fine(s, setActiveWorkspace(m, w))
    BY <1>1, <1>3, FineThen
  <1> QED BY <1>1, <1>2, <1>4

LEMMA MoveHomeFine ==
    ASSUME NEW s, Good(s), NEW t, NEW w
    PROVE  Fine(s, MoveTabToStandalone(s, t, w))
  <1> DEFINE m == removeTabFromWorkspace(s, w, t)
  <1>1. Fine(s, m) /\ Good(m)
    BY RemoveTabFine DEF Fine
  <1>2. MoveTabToStandalone(s, t, w) \in {m, setActiveWorkspace(m, None)}
    BY DEF MoveTabToStandalone
  <1> HIDE DEF m
  <1>3. Fine(m, setActiveWorkspace(m, None))
    BY <1>1, SetWsFine
  <1>4. Fine(s, setActiveWorkspace(m, None))
    BY <1>1, <1>3, FineThen
  <1> QED BY <1>1, <1>2, <1>4

\* What a hand-over takes away.
LEMMA TakenGood ==
    ASSUME NEW s, Good(s), NEW gone, NEW n,
           n = [s EXCEPT !.tabs = [t \in DOMAIN s.tabs \ gone |-> s.tabs[t]], !.order = Without(s.order, gone), !.active = None]
    PROVE  Good(n)
  <1> DEFINE tabs == [t \in DOMAIN s.tabs \ gone |-> s.tabs[t]]
             order == Without(s.order, gone)
  <1>1. /\ s \in Stores /\ s.tabs \in [Open(s) -> FullTabs] /\ Open(s) \subseteq TabIds /\ DOMAIN s.tabs = Open(s)
        /\ s.order \in Seq(TabIds) /\ IsInjective(s.order) /\ ToSet(s.order) \subseteq Open(s)
        /\ Len(s.closed) <= CLOSED_TABS_MAX /\ WssGood(s.wss)
    BY StoreParts DEF Good, Open
  <1>2. tabs \in TabMaps /\ DOMAIN tabs = Open(s) \ gone
    <2>1. tabs \in [Open(s) \ gone -> FullTabs] /\ Open(s) \ gone \in SUBSET TabIds
      BY <1>1
    <2> HIDE DEF tabs
    <2> QED BY <2>1 DEF TabMaps
  <1>3. order \in Seq(TabIds) /\ ToSet(order) = ToSet(s.order) \ gone /\ IsInjective(order)
    BY <1>1, WithoutSet, WithoutOnce
  <1>4. n = [s EXCEPT !.tabs = tabs, !.order = order, !.active = None]
    OBVIOUS
  <1> HIDE DEF tabs, order
  <1>5. /\ n.tabs = tabs /\ n.order = order /\ n.active = None /\ n.closed = s.closed /\ n.wss = s.wss
        /\ n \in Stores
    BY <1>1, <1>2, <1>3, <1>4 DEF Stores
  <1>6. Open(n) = Open(s) \ gone
    BY <1>2, <1>5 DEF Open
  <1> QED BY <1>1, <1>3, <1>5, <1>6 DEF Good

LEMMA HandedOverGood ==
    ASSUME NEW s, Good(s), NEW gone, NEW w
    PROVE  Good(removeWorkspaceFromStore(s, gone, w))
  <1> DEFINE s1 == [s EXCEPT !.tabs = [t \in DOMAIN s.tabs \ gone |-> s.tabs[t]], !.order = Without(s.order, gone),
                             !.active = None]
             s2 == removeWorkspace(s1, w)
             next == IF HasWs(s2, s2.aws) /\ Ws(s2, s2.aws).active # None THEN Ws(s2, s2.aws).active
                     ELSE IF HasWs(s2, s2.aws) /\ Ws(s2, s2.aws).tabs # <<>>
                          THEN Ws(s2, s2.aws).tabs[1]
                     ELSE IF s2.order # <<>> THEN s2.order[1] ELSE None
  <1>1. Good(s1)
    BY TakenGood
  <1>2. removeWorkspaceFromStore(s, gone, w) = IF next = None THEN s2 ELSE setActiveTab(s2, next)
    BY DEF removeWorkspaceFromStore
  <1> HIDE DEF s1
  <1>3. Good(s2)
    BY <1>1, RemoveWsFine DEF Fine
  <1> HIDE DEF s2
  <1>4. next \in TabIds \cup {None}
    <2>1. CASE HasWs(s2, s2.aws)
      <3> DEFINE ws == Ws(s2, s2.aws)
      <3>1. /\ ws.active \in ToSet(ws.tabs) \cup {None} /\ ToSet(ws.tabs) \subseteq TabIds
            /\ (ws.tabs # <<>> => ws.tabs[1] \in ToSet(ws.tabs))
        BY <1>3, <2>1, WsTabs
      <3>2. s2.order # <<>> => s2.order[1] \in TabIds
        BY <1>3, StoreParts
      <3>3. next = IF ws.active # None THEN ws.active ELSE IF ws.tabs # <<>> THEN ws.tabs[1]
                   ELSE IF s2.order # <<>> THEN s2.order[1] ELSE None
        BY <2>1
      <3> HIDE DEF ws, next
      <3> QED BY <3>1, <3>2, <3>3
    <2>2. CASE ~HasWs(s2, s2.aws)
      <3>1. s2.order # <<>> => s2.order[1] \in TabIds
        BY <1>3, StoreParts
      <3>2. next = IF s2.order # <<>> THEN s2.order[1] ELSE None
        BY <2>2
      <3> HIDE DEF next
      <3> QED BY <3>1, <3>2
    <2> QED BY <2>1, <2>2
  <1> HIDE DEF next
  <1> QED BY <1>2, <1>3, <1>4, SetActiveFine DEF Fine

LEMMA EmptiedGood ==
    ASSUME NEW s, Good(s)
    PROVE  Good(NoTabs(s)) /\ Good([NoTabs(s) EXCEPT !.wss = <<>>, !.aws = None]) /\ NoTabs(s).wss = s.wss
  <1> DEFINE n == NoTabs(s)
             q == <<>>
  <1>1. /\ s \in Stores /\ Len(s.closed) <= CLOSED_TABS_MAX /\ WssGood(s.wss)
    BY DEF Good
  <1>2. q \in TabMaps /\ DOMAIN q = {}
    <2>1. q \in [{} -> FullTabs]
      OBVIOUS
    <2>2. {} \in SUBSET TabIds
      OBVIOUS
    <2> HIDE DEF q
    <2> QED BY <2>1, <2>2 DEF TabMaps
  <1>3. q \in Seq(TabIds) /\ ToSet(q) = {} /\ IsInjective(q) /\ q \in Seq(Workspaces) /\ Len(q) = 0
    BY DEF ToSet, IsInjective
  <1>4. n = [s EXCEPT !.tabs = q, !.order = q, !.active = None]
    BY DEF NoTabs
  <1> HIDE DEF q, n
  <1>5. /\ n.tabs = q /\ n.order = q /\ n.active = None /\ n.closed = s.closed /\ n.wss = s.wss
        /\ n \in Stores
    BY <1>1, <1>2, <1>3, <1>4 DEF Stores
  <1>6. Open(n) = {}
    BY <1>2, <1>5 DEF Open
  <1>7. Good(n)
    BY <1>1, <1>3, <1>5, <1>6 DEF Good
  <1>8. WssGood(q)
    BY <1>3 DEF WssGood
  <1>9. Good([n EXCEPT !.wss = q, !.aws = None])
    <2>1. Rearranged(n, [n EXCEPT !.wss = q, !.aws = None], q, None)
      BY <1>8 DEF Rearranged
    <2> QED BY <1>7, <2>1, WssPut DEF Fine
  <1> QED BY <1>5, <1>7, <1>9 DEF n, q

-----------------------------------------------------------------------------
(* The handlers.                                                          *)

Drags == [tab : TabIds \cup {None}, from : WsIds \cup {None}, pinned : BOOLEAN]

\* The inductive invariant of the shell.
ShellInv ==
    /\ Good(ui) /\ drag \in Drags /\ migrate \in WsIds \cup {None}
    /\ moving.ws \in WsIds \cup {None}

LockedStay == \A t \in Open(ui) : ui.tabs[t].locked => t \in Open(ui)'

\* A step keeps the invariant and the locked tabs, and brings no tab into a
\* second workspace.
Held == ShellInv' /\ LockedStay /\ Shared(ui)' \subseteq Shared(ui)

\* No tab is in a second workspace but one that a merge brought.
SharedStay == \A t \in Shared(ui)' \ Shared(ui) : BroughtAlong(t)

\* What is good after a step, whatever the workspaces share: Good compares with
\* what they share after it.
LEMMA GoodAfter ==
    ASSUME ui' \in Stores, Len(ui'.closed) <= CLOSED_TABS_MAX, ui'.active \in Open(ui') \cup {None},
           ToSet(ui'.order) \subseteq Open(ui') /\ IsInjective(ui'.order),
           \A i \in 1..Len(ui'.wss) : Fits(ui'.wss[i]),
           \A i, j \in 1..Len(ui'.wss) : i # j => ui'.wss[i].id # ui'.wss[j].id
    PROVE  Good(ui)'
  <1>1. ui'.wss \in Seq(Workspaces) /\ DOMAIN ui'.wss = 1..Len(ui'.wss)
    BY DEF Stores
  <1>2. ASSUME NEW i \in 1..Len(ui'.wss), NEW j \in 1..Len(ui'.wss), i # j
        PROVE  ToSet(ui'.wss[i].tabs) \cap ToSet(ui'.wss[j].tabs) \subseteq Shared(ui)'
    <2>1. ui'.wss[i] \in Workspaces
      BY DEF Fits
    <2>2. ToSet(ui'.wss[i].tabs) \subseteq TabIds
      BY <2>1, WsParts
    <2> QED BY <1>1, <1>2, <2>2 DEF Shared
  <1>3. WssGood(ui.wss)'
    BY <1>1, <1>2 DEF WssGood, Fits
  <1> QED BY <1>3 DEF Good, Open, Stores

\* What is good as seen from before a step is good after it, and shares nothing
\* more.
LEMMA GoodNext ==
    ASSUME Good(ui')
    PROVE  Good(ui)' /\ Shared(ui)' \subseteq Shared(ui)
  <1>1. WssGood(ui'.wss)
    BY DEF Good
  <1>2. /\ DOMAIN ui'.wss = 1..Len(ui'.wss)
        /\ \A i \in 1..Len(ui'.wss) : Fits(ui'.wss[i])
        /\ \A i, j \in 1..Len(ui'.wss) : i # j => ui'.wss[i].id # ui'.wss[j].id
        /\ \A i, j \in 1..Len(ui'.wss) : i # j => ToSet(ui'.wss[i].tabs) \cap ToSet(ui'.wss[j].tabs) \subseteq Shared(ui)
    BY <1>1, WssFit DEF WssGood
  <1>3. Shared(ui)' \subseteq Shared(ui)
    <2>1. ASSUME NEW t \in Shared(ui)' PROVE t \in Shared(ui)
      <3>1. PICK i \in DOMAIN ui'.wss, j \in DOMAIN ui'.wss :
                   i # j /\ t \in ToSet(ui'.wss[i].tabs) \cap ToSet(ui'.wss[j].tabs)
        BY <2>1 DEF Shared
      <3> QED BY <1>2, <3>1
    <2> QED BY <2>1
  <1>4. Good(ui)'
    <2>1. /\ ui' \in Stores /\ Len(ui'.closed) <= CLOSED_TABS_MAX /\ ui'.active \in Open(ui') \cup {None}
          /\ ToSet(ui'.order) \subseteq Open(ui') /\ IsInjective(ui'.order)
      BY DEF Good
    <2> QED BY <1>2, <2>1, GoodAfter
  <1> QED BY <1>3, <1>4

\* A workspace of another window joins those of this one, with its tab.
LEMMA JoinedGood ==
    ASSUME NEW m, Good(m), NEW x, Fits(x), NEW t, ToSet(x.tabs) = {t},
           \A i \in 1..Len(m.wss) : m.wss[i].id # x.id,
           ui' = [m EXCEPT !.wss = Append(m.wss, x)]
    PROVE  Good(ui)' /\ Shared(ui)' \subseteq Shared(ui) \cup {t}
  <1>1. m \in Stores /\ WssGood(m.wss)
    BY DEF Good
  <1> DEFINE q == Append(m.wss, x)
  <1>2. /\ q \in Seq(Workspaces) /\ DOMAIN q = 1..Len(q) /\ Len(m.wss) \in Nat /\ Len(q) = Len(m.wss) + 1
        /\ q[Len(m.wss) + 1] = x /\ \A i \in 1..Len(m.wss) : q[i] = m.wss[i]
    BY <1>1 DEF WssGood, Fits
  <1>3. /\ ui' \in Stores /\ ui'.wss = q /\ ui'.closed = m.closed /\ ui'.active = m.active
        /\ ui'.order = m.order /\ ui'.tabs = m.tabs
    BY <1>1, <1>2 DEF Stores
  <1> HIDE DEF q
  <1>4. \A i \in 1..Len(q) : i \in 1..Len(m.wss) \/ i = Len(m.wss) + 1
    BY <1>2
  <1>5. /\ \A i \in 1..Len(m.wss) : Fits(m.wss[i])
        /\ \A i, j \in 1..Len(m.wss) : i # j => m.wss[i].id # m.wss[j].id
        /\ \A i, j \in 1..Len(m.wss) : i # j => ToSet(m.wss[i].tabs) \cap ToSet(m.wss[j].tabs) \subseteq Shared(ui)
    BY <1>1, WssFit DEF WssGood
  <1>6. \A i \in 1..Len(q) : Fits(q[i])
    BY <1>2, <1>4, <1>5
  <1>7. ASSUME NEW i \in 1..Len(q), NEW j \in 1..Len(q), i # j
        PROVE  q[i].id # q[j].id /\ ToSet(q[i].tabs) \cap ToSet(q[j].tabs) \subseteq Shared(ui) \cup {t}
    <2>1. CASE i \in 1..Len(m.wss) /\ j \in 1..Len(m.wss)
      BY <1>2, <1>5, <1>7, <2>1
    <2>2. CASE i = Len(m.wss) + 1 /\ j \in 1..Len(m.wss)
      BY <1>2, <2>2
    <2>3. CASE i \in 1..Len(m.wss) /\ j = Len(m.wss) + 1
      BY <1>2, <2>3
    <2> QED BY <1>4, <1>7, <2>1, <2>2, <2>3
  <1>8. Shared(ui)' \subseteq Shared(ui) \cup {t}
    <2>1. ASSUME NEW u \in Shared(ui)' PROVE u \in Shared(ui) \cup {t}
      <3>1. PICK i \in DOMAIN ui'.wss, j \in DOMAIN ui'.wss :
                   i # j /\ u \in ToSet(ui'.wss[i].tabs) \cap ToSet(ui'.wss[j].tabs)
        BY <2>1 DEF Shared
      <3>2. i \in 1..Len(q) /\ j \in 1..Len(q) /\ u \in ToSet(q[i].tabs) \cap ToSet(q[j].tabs)
        BY <1>2, <1>3, <3>1
      <3> QED BY <1>7, <3>1, <3>2
    <2> QED BY <2>1
  <1>9. Good(ui)'
    <2>1. /\ Len(m.closed) <= CLOSED_TABS_MAX /\ m.active \in Open(m) \cup {None}
          /\ ToSet(m.order) \subseteq Open(m) /\ IsInjective(m.order)
      BY DEF Good
    <2>2. Open(ui') = Open(m)
      BY <1>3 DEF Open
    <2>3. /\ Len(ui'.closed) <= CLOSED_TABS_MAX /\ ui'.active \in Open(ui') \cup {None}
          /\ ToSet(ui'.order) \subseteq Open(ui') /\ IsInjective(ui'.order)
      BY <1>3, <2>1, <2>2
    <2>4. /\ \A i \in 1..Len(ui'.wss) : Fits(ui'.wss[i])
          /\ \A i, j \in 1..Len(ui'.wss) : i # j => ui'.wss[i].id # ui'.wss[j].id
      BY <1>3, <1>6, <1>7
    <2> QED BY <1>3, <2>3, <2>4, GoodAfter
  <1> QED BY <1>8, <1>9

LEMMA StepHeld ==
    ASSUME ShellInv, NEW s, Fine(ui, s), Step(s)
    PROVE  Held
  <1>1. ui' = s /\ UNCHANGED <<drag, moving, migrate>>
    BY DEF Step
  <1>2. Good(ui')
    BY <1>1 DEF Fine
  <1>3. ShellInv' /\ Shared(ui)' \subseteq Shared(ui)
    BY <1>1, <1>2, GoodNext DEF ShellInv
  <1>4. LockedStay
    BY <1>1 DEF LockedStay, Fine, Keeps, Open
  <1> QED BY <1>3, <1>4 DEF Held

LEMMA SelectSteps ==
    ASSUME ShellInv, SelectNext
    PROVE  Held
  <1>0. Good(ui) /\ WssGood(ui.wss)
    BY DEF ShellInv, Good
  <1>1. ASSUME NEW t \in TabIds, handleSelectTab(t) PROVE Held
    BY <1>0, <1>1, SelectFine, StepHeld DEF handleSelectTab
  <1>2. ASSUME NEW t \in TabIds, RouteToTab(t) PROVE Held
    <2> DEFINE x == IF t \in Open(ui) THEN t ELSE None
    <2>1. Step(setActiveTab(ui, x)) /\ x \in TabIds \cup {None}
      BY <1>2 DEF RouteToTab
    <2> HIDE DEF x
    <2>2. Fine(ui, setActiveTab(ui, x))
      BY <1>0, <2>1, SetActiveFine
    <2> QED BY <2>1, <2>2, StepHeld
  <1>3. ASSUME NEW w \in WsIds, handleSelectWorkspace(w) PROVE Held
    <2> DEFINE ws == Ws(ui, w)
               s1 == setActiveWorkspace(ui, w)
               x == IF ws.active # None /\ ws.active \in Open(ui) THEN ws.active
                    ELSE IF ws.tabs # <<>> THEN ws.tabs[1] ELSE None
    <2>1. /\ ws.active \in ToSet(ws.tabs) \cup {None} /\ ToSet(ws.tabs) \subseteq TabIds
          /\ (ws.tabs # <<>> => ws.tabs[1] \in ToSet(ws.tabs))
      BY <1>0, <1>3, WsTabs DEF handleSelectWorkspace
    <2>2. Fine(ui, s1) /\ Good(s1)
      BY <1>0, SetWsFine DEF Fine
    <2>3. Step(setActiveTab(s1, x))
      BY <1>3 DEF handleSelectWorkspace
    <2> HIDE DEF ws, s1
    <2>4. x \in TabIds \cup {None}
      BY <2>1
    <2> HIDE DEF x
    <2>5. Fine(s1, setActiveTab(s1, x))
      BY <2>2, <2>4, SetActiveFine
    <2>6. Fine(ui, setActiveTab(s1, x))
      BY <2>2, <2>5, FineThen
    <2> QED BY <2>3, <2>6, StepHeld
  <1>4. ASSUME handleSelectHome PROVE Held
    <2> DEFINE s1 == setActiveWorkspace(ui, None)
    <2>1. Fine(ui, s1) /\ Good(s1)
      BY <1>0, SetWsFine DEF Fine
    <2>2. Step(IF StandaloneOrder(ui) # <<>> THEN SelectTab(s1, StandaloneOrder(ui)[1]) ELSE setActiveTab(s1, None))
      BY <1>4 DEF handleSelectHome
    <2> HIDE DEF s1
    <2>3. CASE StandaloneOrder(ui) # <<>>
      <3> DEFINE x == StandaloneOrder(ui)[1]
      <3>1. x \in TabIds
        BY <1>0, <2>3, StandaloneFacts
      <3>2. Step(SelectTab(s1, x))
        BY <2>2, <2>3
      <3> HIDE DEF x
      <3>3. Fine(s1, SelectTab(s1, x))
        BY <2>1, <3>1, SelectFine
      <3>4. Fine(ui, SelectTab(s1, x))
        BY <2>1, <3>3, FineThen
      <3> QED BY <3>2, <3>4, StepHeld
    <2>4. CASE StandaloneOrder(ui) = <<>>
      <3>1. Step(setActiveTab(s1, None))
        BY <2>2, <2>4
      <3>2. Fine(s1, setActiveTab(s1, None))
        BY <2>1, SetActiveFine
      <3>3. Fine(ui, setActiveTab(s1, None))
        BY <2>1, <3>2, FineThen
      <3> QED BY <3>1, <3>3, StepHeld
    <2> QED BY <2>3, <2>4
  <1>5. ASSUME NEW i, ShortcutSwitchTab(i) PROVE Held
    <2> DEFINE x == getVisibleTabIds(ui)[i]
    <2>1. x \in TabIds /\ Step(Activate(ui, x))
      BY <1>0, <1>5, VisibleFacts DEF ShortcutSwitchTab
    <2> HIDE DEF x
    <2>2. Fine(ui, Activate(ui, x))
      BY <1>0, <2>1, ActivateFine
    <2> QED BY <2>1, <2>2, StepHeld
  <1>m. \A n \in Nat \ {0}, k \in Int : (k % n) + 1 \in 1..n
    OBVIOUS
  <1>6. ASSUME NEW d \in {-1, 1}, ShortcutCycleTab(d) PROVE Held
    <2> DEFINE v == getVisibleTabIds(ui)
               at == IF ui.active = None THEN 0 ELSE Position(v, ui.active)
               k == at - 1 + d + Len(v)
               x == IF at = 0 THEN v[1] ELSE v[(k % Len(v)) + 1]
    <2>1. v # <<>> /\ Step(Activate(ui, x))
      BY <1>6 DEF ShortcutCycleTab
    <2>2. v \in Seq(TabIds)
      BY <1>0, VisibleFacts
    <2> HIDE DEF v
    <2>3. Len(v) \in Nat \ {0} /\ 1 \in 1..Len(v) /\ at \in 0..Len(v)
      <3>1. Position(v, ui.active) \in 0..Len(v) /\ Len(v) \in Nat /\ 1 \in 1..Len(v)
        BY <2>1, <2>2, PositionFacts, SetOf
      <3> QED BY <3>1
    <2> HIDE DEF at
    <2>4. k \in Int
      BY <2>3
    <2> HIDE DEF k
    <2>5. (k % Len(v)) + 1 \in 1..Len(v)
      BY <1>m, <2>3, <2>4
    <2>6. \A j \in 1..Len(v) : v[j] \in TabIds
      BY <2>2
    <2>7. x \in TabIds
      BY <2>3, <2>5, <2>6
    <2> HIDE DEF x
    <2>8. Fine(ui, Activate(ui, x))
      BY <1>0, <2>7, ActivateFine
    <2> QED BY <2>1, <2>8, StepHeld
  <1>s. ASSUME NEW w, HasWs(ui, w), Step(SwitchTo(w)) PROVE Held
    <2> DEFINE ws == Ws(ui, w)
               t == IF ws.active # None THEN ws.active ELSE IF ws.tabs # <<>> THEN ws.tabs[1] ELSE None
               s1 == setActiveWorkspace(ui, w)
    <2>1. /\ ws.active \in ToSet(ws.tabs) \cup {None} /\ ToSet(ws.tabs) \subseteq TabIds /\ w \in WsIds
          /\ (ws.tabs # <<>> => ws.tabs[1] \in ToSet(ws.tabs))
      BY <1>0, <1>s, WsTabs
    <2>2. Fine(ui, s1) /\ Good(s1)
      BY <1>0, <2>1, SetWsFine DEF Fine
    <2>3. SwitchTo(w) = IF t = None THEN s1 ELSE Activate(s1, t)
      BY DEF SwitchTo
    <2> HIDE DEF ws, s1
    <2>4. t \in TabIds \cup {None}
      BY <2>1
    <2> HIDE DEF t
    <2>5. CASE t = None
      BY <1>s, <2>2, <2>3, <2>5, StepHeld
    <2>6. CASE t # None
      <3>1. Fine(s1, Activate(s1, t))
        BY <2>2, <2>4, <2>6, ActivateFine
      <3>2. Fine(ui, SwitchTo(w))
        BY <2>2, <2>3, <2>6, <3>1, FineThen
      <3> QED BY <1>s, <3>2, StepHeld
    <2> QED BY <2>5, <2>6
  <1>7. ASSUME NEW i, ShortcutSwitchWorkspace(i) PROVE Held
    <2>1. i \in 1..Len(ui.wss) /\ Step(SwitchTo(ui.wss[i].id))
      BY <1>0, <1>7, WssFit DEF ShortcutSwitchWorkspace
    <2>2. HasWs(ui, ui.wss[i].id)
      BY <1>0, <2>1, WsFound
    <2> QED BY <1>s, <2>1, <2>2
  <1>8. ASSUME NEW d \in {-1, 1}, ShortcutCycleWorkspace(d) PROVE Held
    <2> DEFINE at == WsIndex(ui, ui.aws)
               n == Len(ui.wss)
               k == at - 1 + d + n
               i == (k % n) + 1
    <2>1. n > 0 /\ Step(SwitchTo(ui.wss[i].id))
      BY <1>8 DEF ShortcutCycleWorkspace
    <2>2. n \in Nat \ {0}
      BY <1>0, <2>1, WssFit
    <2>3. at \in Int
      <3>1. ~HasWs(ui, ui.aws) => at = 0
        BY DEF HasWs
      <3>2. HasWs(ui, ui.aws) => at \in 1..n
        BY <1>0, WsFound
      <3> QED BY <2>2, <3>1, <3>2
    <2> HIDE DEF at, n
    <2>4. k \in Int
      BY <2>2, <2>3
    <2> HIDE DEF k
    <2>5. i \in 1..n
      BY <1>m, <2>2, <2>4
    <2> HIDE DEF i
    <2>6. HasWs(ui, ui.wss[i].id)
      BY <1>0, <2>5, WsFound DEF n
    <2> QED BY <1>s, <2>1, <2>6
  <1> QED BY <1>1, <1>2, <1>3, <1>4, <1>5, <1>6, <1>7, <1>8 DEF SelectNext

LEMMA OpenSteps ==
    ASSUME ShellInv, OpenNext
    PROVE  Held
  <1>0. Good(ui) /\ WssGood(ui.wss) /\ NewTab \in Contents /\ Sessions \subseteq Contents /\ Browsers \subseteq Contents
    BY ContentAssumption DEF ShellInv, Good
  <1>1. ASSUME NEW t \in TabIds, handleAddTab(t) PROVE Held
    <2> DEFINE n == insertTab(setActiveTab(addTab(ui, t, createTab(NewTab), None), t), t, ui.aws, None)
    <2>1. Fine(ui, n)
      BY <1>0, NewTabFull, AddInsertFine
    <2>2. Step(n)
      BY <1>1 DEF handleAddTab
    <2> HIDE DEF n
    <2> QED BY <2>1, <2>2, StepHeld
  <1>2. ASSUME NEW t \in TabIds, NEW w \in WsIds, handleAddTabToWorkspace(w, t) PROVE Held
    <2> DEFINE n == SelectTab(insertTab(addTab(ui, t, createTab(NewTab), None), t, w, None), t)
    <2>1. Fine(ui, n)
      BY <1>0, NewTabFull, AddSelectFine
    <2>2. Step(n)
      BY <1>2 DEF handleAddTabToWorkspace
    <2> HIDE DEF n
    <2> QED BY <2>1, <2>2, StepHeld
  <1>3. ASSUME NEW t \in TabIds, NEW w \in WsIds, RouteToWorkspaceSettings(w, t) PROVE Held
    <2> DEFINE s1 == setActiveWorkspace(ui, w)
               c == SettingsOf(w)
               n == insertTab(openSingletonTab(s1, c, None, t), SingletonId(s1, c, t), w, None)
    <2>1. c \in Contents
      BY SettingsAssumption
    <2>2. Step(n)
      BY <1>3 DEF RouteToWorkspaceSettings
    <2>3. Fine(ui, s1) /\ Good(s1)
      BY <1>0, SetWsFine DEF Fine
    <2> HIDE DEF s1, c
    <2>4. Fine(s1, n)
      BY <2>1, <2>3, SingletonInsertFine
    <2> HIDE DEF n
    <2> QED BY <2>2, <2>3, <2>4, FineThen, StepHeld
  <1>4. ASSUME NEW t \in TabIds, NEW c \in Contents, NEW w \in WsIds, openSingletonAndSelect(c, w, t) PROVE Held
    <2>1. Fine(ui, OpenSingletonAndSelect(ui, c, w, t))
      BY <1>0, SingletonSelectFine
    <2> QED BY <1>4, <2>1, StepHeld DEF openSingletonAndSelect
  <1>5. ASSUME NEW t \in TabIds, NEW c \in Contents, ShortcutOpenSingleton(c, t) PROVE Held
    <2> DEFINE n == insertTab(openSingletonTab(ui, c, None, t), SingletonId(ui, c, t), ui.aws, None)
    <2>1. Step(n)
      BY <1>5 DEF ShortcutOpenSingleton
    <2>2. Fine(ui, n)
      BY <1>0, SingletonInsertFine
    <2> HIDE DEF n
    <2> QED BY <2>1, <2>2, StepHeld
  <1>6. ASSUME NEW t \in TabIds, NEW c \in Contents, NEW w \in WsIds, openClusteredTab(c, w, t) PROVE Held
    <2> DEFINE after == computeClusterInsertTarget(ui, w, {c})
               n == insertTab(openSingletonTab(ui, c, after, t), SingletonId(ui, c, t), w, after)
    <2>1. Step(n)
      BY <1>6 DEF openClusteredTab
    <2> HIDE DEF after
    <2>2. Fine(ui, n)
      BY <1>0, SingletonInsertFine
    <2> HIDE DEF n
    <2> QED BY <2>1, <2>2, StepHeld
  <1>7. ASSUME NEW t \in TabIds, NEW b \in Browsers, openBrowserTab(b, t) PROVE Held
    <2> DEFINE order == IF HasWs(ui, ui.aws) THEN Within(Ws(ui, ui.aws).tabs, Open(ui)) ELSE ui.order
               after == IF ui.active = None THEN None ELSE findInsertTarget(ui, order, ui.active, Browsers)
               n == insertTab(setActiveTab(addTab(ui, t, createTab(b), after), t), t, ui.aws, after)
    <2>1. Step(n)
      BY <1>7 DEF openBrowserTab
    <2> HIDE DEF after
    <2>2. createTab(b) \in FullTabs
      BY <1>0, NewTabFull
    <2>3. Fine(ui, n)
      BY <1>0, <2>2, AddInsertFine
    <2> HIDE DEF n
    <2> QED BY <2>1, <2>3, StepHeld
  <1>8. ASSUME NEW t \in TabIds, NEW c \in Sessions, OpenSessionTab(c, t) PROVE Held
    <2> DEFINE n == SelectTab(insertTab(addTab(ui, t, createTab(c), None), t, ui.aws, None), t)
    <2>1. Step(n)
      BY <1>8 DEF OpenSessionTab
    <2>2. createTab(c) \in FullTabs
      BY <1>0, NewTabFull
    <2>3. Fine(ui, n)
      BY <1>0, <2>2, AddSelectFine
    <2> HIDE DEF n
    <2> QED BY <2>1, <2>3, StepHeld
  <1>9. ASSUME ReopenClosedTab PROVE Held
    <2> DEFINE r == ui.closed[LastClosed(ui)]
               s1 == reopenLast(ui)
               n == insertTab(setActiveTab(addTab(s1, r.id, r.tab, None), r.id), r.id, ui.aws, None)
    <2>1. Step(n) /\ LastClosed(ui) # 0
      BY <1>9 DEF ReopenClosedTab
    <2>2. Fine(ui, s1) /\ Good(s1) /\ r \in ClosedRecs
      BY <1>0, <2>1, ReopenFine DEF Fine
    <2> HIDE DEF r, s1
    <2>3. r.id \in TabIds /\ r.tab \in FullTabs
      BY <2>2 DEF ClosedRecs
    <2>4. Fine(s1, n)
      BY <2>2, <2>3, AddInsertFine
    <2> HIDE DEF n
    <2> QED BY <2>1, <2>2, <2>4, FineThen, StepHeld
  <1> QED BY <1>1, <1>2, <1>3, <1>4, <1>5, <1>6, <1>7, <1>8, <1>9 DEF OpenNext

LEMMA CloseSteps ==
    ASSUME ShellInv, CloseNext
    PROVE  Held
  <1>0. Good(ui)
    BY DEF ShellInv
  <1>1. ASSUME NEW t \in TabIds, handleCloseTab(t) PROVE Held
    <2>1. Fine(ui, closeTabInWorkspace(ui, t, FALSE))
      BY <1>0, CloseFine
    <2> QED BY <1>1, <2>1, StepHeld DEF handleCloseTab
  <1>2. ASSUME NEW t \in TabIds, handleCloseOthers(t) PROVE Held
    <2> DEFINE T == Unlocked \ {t}
               q == Within(getVisibleTabIds(ui), T)
    <2>1. Step(CloseAll(ui, q))
      BY <1>2 DEF handleCloseOthers
    <2> HIDE DEF T
    <2>2. q \in Seq(TabIds)
      BY <1>0, VisibleFacts, WithinSet
    <2> HIDE DEF q
    <2>3. Fine(ui, CloseAll(ui, q))
      BY <1>0, <2>2, CloseAllFine
    <2> QED BY <2>1, <2>3, StepHeld
  <1>3. ASSUME NEW t \in TabIds, handleCloseRight(t) PROVE Held
    <2> DEFINE v == getVisibleTabIds(ui)
               at == Position(v, t)
               right == SubSeq(v, at + 1, Len(v))
               q == Within(right, Unlocked)
    <2>1. at # 0 /\ Step(CloseAll(ui, q))
      BY <1>3 DEF handleCloseRight
    <2>2. v \in Seq(TabIds)
      BY <1>0, VisibleFacts
    <2> HIDE DEF v
    <2>3. at \in 0..Len(v) /\ Len(v) \in Nat
      BY <2>2, PositionFacts
    <2> HIDE DEF at
    <2>4. right \in Seq(TabIds)
      BY <2>2, <2>3
    <2> HIDE DEF right
    <2>5. q \in Seq(TabIds)
      BY <2>4, WithinSet
    <2> HIDE DEF q
    <2>6. Fine(ui, CloseAll(ui, q))
      BY <1>0, <2>5, CloseAllFine
    <2> QED BY <2>1, <2>6, StepHeld
  <1>4. ASSUME NEW t \in TabIds, handleTogglePin(t) PROVE Held
    <2>1. Fine(ui, togglePin(ui, t))
      BY <1>0, TogglePinFine
    <2> QED BY <1>4, <2>1, StepHeld DEF handleTogglePin
  <1>5. ASSUME NEW t \in TabIds, handleToggleLock(t) PROVE Held
    <2>1. ui' = toggleLock(ui, t) /\ UNCHANGED <<drag, moving, migrate>>
      BY <1>5 DEF handleToggleLock, Step
    <2>2. Good(toggleLock(ui, t)) /\ Open(toggleLock(ui, t)) = Open(ui)
      BY <1>0, ToggleLockGood
    <2>3. Good(ui)
      BY <1>0
    <2>4. Good(ui') /\ Open(ui') = Open(ui)
      BY <2>1, <2>2
    <2>5. ShellInv' /\ Shared(ui)' \subseteq Shared(ui)
      BY <2>1, <2>4, GoodNext DEF ShellInv
    <2>6. LockedStay
      BY <2>4 DEF LockedStay, Open
    <2> QED BY <2>5, <2>6 DEF Held
  <1>6. ASSUME NEW t \in TabIds, NEW x \in TabIds, handleMergeToTab(t, x) PROVE Held
    <2> DEFINE c == getPrimaryPane(ui.tabs[t])
               s1 == splitPane(ui, x, 1, c)
               s2 == closeTabInWorkspace(s1, t, FALSE)
    <2>1. t \in Open(ui) /\ Step(SelectTab(s2, x))
      BY <1>0, <1>6, VisibleFacts DEF handleMergeToTab
    <2>2. c \in Contents
      BY <1>0, <2>1, TabParts
    <2> HIDE DEF c
    <2>3. Fine(ui, s1) /\ Good(s1)
      BY <1>0, <2>2, SplitPaneFine DEF Fine
    <2> HIDE DEF s1
    <2>4. Fine(s1, s2) /\ Good(s2)
      BY <2>3, CloseFine DEF Fine
    <2> HIDE DEF s2
    <2>5. Fine(s2, SelectTab(s2, x))
      BY <2>4, SelectFine
    <2> QED BY <2>1, <2>3, <2>4, <2>5, FineThen, StepHeld
  <1> QED BY <1>1, <1>2, <1>3, <1>4, <1>5, <1>6 DEF CloseNext

LEMMA PaneSteps ==
    ASSUME ShellInv, PaneNext
    PROVE  Held
  <1>0. Good(ui) /\ NewTab \in Contents /\ MaxLeaves \in Nat \ {0}
    BY ContentAssumption DEF ShellInv
  <1>1. ASSUME NEW t, NEW i, SplitPaneBlank(t, i) PROVE Held
    <2>1. Fine(ui, splitPane(ui, t, i, NewTab))
      BY <1>0, SplitPaneFine
    <2> QED BY <1>1, <2>1, StepHeld DEF SplitPaneBlank
  <1>2. ASSUME NEW t, NEW i, PaneMenuClose(t, i) PROVE Held
    <2>1. Fine(ui, closePane(ui, t, i))
      BY <1>0, ClosePaneFine
    <2> QED BY <1>2, <2>1, StepHeld DEF PaneMenuClose
  <1>3. ASSUME NEW t, NEW i, DeleteStoredFile(t, i) PROVE Held
    <2>1. Fine(ui, closePane(ui, t, i))
      BY <1>0, ClosePaneFine
    <2> QED BY <1>3, <2>1, StepHeld DEF DeleteStoredFile
  <1>4. ASSUME NEW t, NEW i, NEW c \in Contents, PickPaneContent(t, i, c) PROVE Held
    <2>1. Fine(ui, setPaneContent(ui, t, i, c))
      BY <1>0, SetPaneFine
    <2> QED BY <1>4, <2>1, StepHeld DEF PickPaneContent
  <1>5. ASSUME NEW t \in TabIds, NEW i, NEW x \in TabIds, PaneMenuDetach(t, i, x) PROVE Held
    <2> DEFINE s1 == detachPane(ui, t, i, t, x)
               w == findWorkspaceByTab(ui, t)
               s2 == IF w = None THEN s1 ELSE insertTab(s1, x, w, t)
    <2>1. x \notin Open(ui) /\ Step(setActiveTab(s2, x))
      BY <1>5 DEF PaneMenuDetach, FreshTab
    <2>2. Fine(ui, s1) /\ Good(s1)
      BY <1>0, <2>1, DetachFine DEF Fine
    <2> HIDE DEF s1, w
    <2>3. Fine(s1, s2) /\ Good(s2)
      <3>1. Fine(s1, insertTab(s1, x, w, t))
        BY <2>2, InsertTabFine
      <3> QED BY <2>2, <3>1, FineSelf DEF Fine
    <2> HIDE DEF s2
    <2>4. Fine(s2, setActiveTab(s2, x))
      BY <2>3, SetActiveFine
    <2> QED BY <2>1, <2>2, <2>3, <2>4, FineThen, StepHeld
  <1>6. ASSUME NEW t, NEW i, NEW x, moveTabContentIntoPane(x, t, i) PROVE Held
    <2> DEFINE c == getPrimaryPane(ui.tabs[x])
               s1 == setPaneContent(ui, t, i, c)
    <2>1. x \in Open(ui) /\ Step(closeTabInWorkspace(s1, x, TRUE))
      BY <1>6 DEF moveTabContentIntoPane
    <2>2. c \in Contents
      BY <1>0, <2>1, TabParts
    <2> HIDE DEF c
    <2>3. Fine(ui, s1) /\ Good(s1)
      BY <1>0, <2>2, SetPaneFine DEF Fine
    <2> HIDE DEF s1
    <2>4. Fine(s1, closeTabInWorkspace(s1, x, TRUE))
      BY <2>3, CloseFine
    <2> QED BY <2>1, <2>3, <2>4, FineThen, StepHeld
  <1>7. ASSUME NEW t, NEW i, NEW j, PaneSwap(t, i, j) PROVE Held
    <2>1. Fine(ui, swapPaneContent(ui, t, i, j))
      BY <1>0, SwapPanesFine
    <2> QED BY <1>7, <2>1, StepHeld DEF PaneSwap
  <1>8. ASSUME NEW t, NEW i \in 1..MaxLeaves, ApplyLayout(t, i) PROVE Held
    <2>1. i \in Nat \ {0}
      BY <1>0
    <2>2. Fine(ui, applyLayout(ui, t, i))
      BY <1>0, <2>1, LayoutFine
    <2> QED BY <1>8, <2>2, StepHeld DEF ApplyLayout
  <1> QED BY <1>1, <1>2, <1>3, <1>4, <1>5, <1>6, <1>7, <1>8 DEF PaneNext

\* A step that changes more than the stores.
LEMMA ChangeHeld ==
    ASSUME ShellInv, Fine(ui, ui'), drag' \in Drags, migrate' \in WsIds \cup {None},
           moving'.ws \in WsIds \cup {None}
    PROVE  Held
  <1>1. Good(ui')
    BY DEF Fine
  <1>2. ShellInv' /\ Shared(ui)' \subseteq Shared(ui)
    BY <1>1, GoodNext DEF ShellInv
  <1>3. LockedStay
    BY DEF LockedStay, Fine, Keeps, Open
  <1> QED BY <1>2, <1>3 DEF Held

LEMMA WorkspaceSteps ==
    ASSUME ShellInv, WorkspaceNext
    PROVE  Held
  <1>0. Good(ui) /\ drag \in Drags /\ migrate \in WsIds \cup {None} /\ moving.ws \in WsIds \cup {None}
    BY DEF ShellInv
  <1>1. ASSUME NEW w \in WsIds, NEW t \in TabIds, handleAddWorkspace(w, t) PROVE Held
    <2> DEFINE s1 == addWorkspace(ui, w)
               c == SettingsOf(w)
    <2>1. /\ ~HasWs(ui, w) /\ UNCHANGED <<drag, moving>>
          /\ \/ migrate' = w /\ ui' = s1
             \/ ui' = OpenSingletonAndSelect(s1, c, w, t) /\ UNCHANGED migrate
      BY <1>1 DEF handleAddWorkspace
    <2>2. Fine(ui, s1) /\ Good(s1)
      BY <1>0, <2>1, AddWsFine DEF Fine
    <2>3. c \in Contents
      BY SettingsAssumption
    <2> HIDE DEF s1, c
    <2>4. Fine(s1, OpenSingletonAndSelect(s1, c, w, t))
      BY <2>2, <2>3, SingletonSelectFine
    <2>5. Fine(ui, ui')
      BY <2>1, <2>2, <2>4, FineThen
    <2> QED BY <1>0, <2>1, <2>5, ChangeHeld
  <1>2. ASSUME NEW t \in TabIds, handleMigrateConfirm(t) PROVE Held
    <2> DEFINE s1 == InsertAll(ui, ui.order, migrate)
               c == SettingsOf(migrate)
               n == OpenSingletonAndSelect(s1, c, migrate, t)
    <2>1. migrate \in WsIds /\ migrate' = None /\ ui' = n /\ UNCHANGED <<drag, moving>>
      BY <1>0, <1>2 DEF handleMigrateConfirm
    <2>2. Fine(ui, s1) /\ Good(s1)
      <3>1. ui.order \in Seq(TabIds)
        BY <1>0, StoreParts
      <3> QED BY <1>0, <3>1, InsertAllFine DEF Fine
    <2>3. c \in Contents
      BY <2>1, SettingsAssumption
    <2> HIDE DEF s1, c
    <2>4. Fine(s1, n)
      BY <2>2, <2>3, SingletonSelectFine
    <2> HIDE DEF n
    <2>5. Fine(ui, ui')
      BY <2>1, <2>2, <2>4, FineThen
    <2> QED BY <1>0, <2>1, <2>5, ChangeHeld
  <1>3. ASSUME handleMigrateSkip PROVE Held
    <2>1. Fine(ui, setActiveWorkspace(ui, None))
      BY <1>0, SetWsFine
    <2> QED BY <1>0, <1>3, <2>1, ChangeHeld DEF handleMigrateSkip
  <1>4. ASSUME NEW w \in WsIds, NEW checked, DeleteWorkspace(w, checked) PROVE Held
    <2> DEFINE q == Within(Ws(ui, w).tabs, checked)
               s0 == CloseAll(ui, q)
               s1 == removeWorkspace(s0, w)
               next == IF ~HasWs(s1, s1.aws) THEN None
                       ELSE IF Ws(s1, s1.aws).active # None THEN Ws(s1, s1.aws).active
                       ELSE IF Ws(s1, s1.aws).tabs # <<>> THEN Ws(s1, s1.aws).tabs[1] ELSE None
               n == IF next # None THEN setActiveTab(s1, next) ELSE s1
    <2>1. HasWs(ui, w) /\ (Step(setActiveWorkspace(s1, None)) \/ Step(n))
      BY <1>4 DEF DeleteWorkspace
    <2>2. q \in Seq(TabIds)
      <3> DEFINE r == Ws(ui, w).tabs
      <3>1. r \in Seq(TabIds)
        BY <1>0, <2>1, WsTabs
      <3> HIDE DEF r
      <3>2. Within(r, checked) \in Seq(TabIds)
        BY <3>1, WithinSet
      <3> QED BY <3>2 DEF r
    <2> HIDE DEF q
    <2>3. Fine(ui, s0) /\ Good(s0)
      BY <1>0, <2>2, CloseAllFine DEF Fine
    <2> HIDE DEF s0
    <2>4. Fine(s0, s1) /\ Good(s1)
      BY <2>3, RemoveWsFine DEF Fine
    <2> HIDE DEF s1
    <2>5. next \in TabIds \cup {None}
      <3>1. CASE ~HasWs(s1, s1.aws)
        BY <3>1
      <3>2. CASE HasWs(s1, s1.aws)
        <4> DEFINE ws == Ws(s1, s1.aws)
        <4>1. /\ ws.active \in ToSet(ws.tabs) \cup {None} /\ ToSet(ws.tabs) \subseteq TabIds
              /\ (ws.tabs # <<>> => ws.tabs[1] \in ToSet(ws.tabs))
          BY <2>4, <3>2, WsTabs
        <4>2. next = IF ws.active # None THEN ws.active ELSE IF ws.tabs # <<>> THEN ws.tabs[1] ELSE None
          BY <3>2
        <4> HIDE DEF ws, next
        <4> QED BY <4>1, <4>2
      <3> QED BY <3>1, <3>2
    <2> HIDE DEF next
    <2>6. Fine(s1, n)
      <3>1. Fine(s1, setActiveTab(s1, next))
        BY <2>4, <2>5, SetActiveFine
      <3> QED BY <2>4, <3>1, FineSelf
    <2>7. Fine(s1, setActiveWorkspace(s1, None))
      BY <2>4, SetWsFine
    <2> HIDE DEF n
    <2>8. Fine(ui, n) /\ Fine(ui, setActiveWorkspace(s1, None))
      BY <2>3, <2>4, <2>6, <2>7, FineThen
    <2> QED BY <2>1, <2>8, StepHeld
  <1>5. ASSUME NEW i, NEW j, DragWorkspace(i, j) PROVE Held
    <2> DEFINE ids == [k \in DOMAIN ui.wss |-> ui.wss[k].id]
               moved == arrayMove(ids, i, j)
    <2>1. i \in DOMAIN ui.wss /\ j \in DOMAIN ui.wss /\ Step(reorderWorkspaces(ui, moved))
      BY <1>5 DEF DragWorkspace
    <2>2. WssGood(ui.wss) /\ Len(ui.wss) \in Nat /\ DOMAIN ui.wss = 1..Len(ui.wss)
      BY <1>0, WssFit DEF Good
    <2>3. \A k \in 1..Len(ui.wss) : ui.wss[k].id \in WsIds
      BY <2>2, WsParts DEF WssGood
    <2>4. /\ ids \in Seq(WsIds) /\ Len(ids) = Len(ui.wss)
          /\ \A k \in 1..Len(ui.wss) : ids[k] = ui.wss[k].id
      BY <2>2, <2>3
    <2> HIDE DEF ids
    <2>5. IsInjective(ids)
      <3>1. \A a, b \in 1..Len(ids) : ids[a] = ids[b] => a = b
        BY <2>2, <2>4 DEF WssGood
      <3> QED BY <2>4, <3>1, SetOf
    <2>6. i \in 1..Len(ids) /\ j \in 1..Len(ids)
      BY <2>1, <2>2, <2>4
    <2>7. moved \in Seq(WsIds) /\ IsInjective(moved)
      BY <2>4, <2>5, <2>6, ArrayMoveFacts
    <2> HIDE DEF moved
    <2>8. Fine(ui, reorderWorkspaces(ui, moved))
      BY <1>0, <2>7, ReorderWssFine
    <2> QED BY <2>1, <2>8, StepHeld
  <1> QED BY <1>1, <1>2, <1>3, <1>4, <1>5 DEF WorkspaceNext

LEMMA DragSteps ==
    ASSUME ShellInv, DragNext
    PROVE  Held
  <1>0. Good(ui) /\ drag \in Drags /\ migrate \in WsIds \cup {None} /\ moving.ws \in WsIds \cup {None}
    BY DEF ShellInv
  <1>w. WssGood(ui.wss)
    BY <1>0 DEF Good
  <1>d. drag.tab \in TabIds \cup {None} /\ drag.from \in WsIds \cup {None} /\ NoDrag \in Drags
    BY <1>0 DEF Drags, NoDrag
  <1>1. ASSUME NEW i, NEW j, handleReorderTabs(i, j) PROVE Held
    <2> DEFINE order == TabBarOrder(i, j)
    <2>1. SameZone(i, j) /\ (Step(reorderWorkspaceTabs(ui, ui.aws, order)) \/ Step(reorderTabs(ui, order)))
      BY <1>1 DEF handleReorderTabs
    <2>2. order \in Seq(TabIds) /\ IsInjective(order) /\ ToSet(order) \subseteq Open(ui)
      BY <1>0, <2>1, TabBarFacts
    <2> HIDE DEF order
    <2>3. Fine(ui, reorderWorkspaceTabs(ui, ui.aws, order)) /\ Fine(ui, reorderTabs(ui, order))
      BY <1>0, <2>2, ReorderWsTabsFine, ReorderFine
    <2> QED BY <2>1, <2>3, StepHeld
  <1>2. ASSUME NEW t \in TabIds, DragStart(t) PROVE Held
    <2>1. /\ t \in Open(ui) /\ UNCHANGED <<ui, moving, migrate>>
          /\ drag' = [tab |-> t, from |-> findWorkspaceByTab(ui, t), pinned |-> ui.tabs[t].pinned]
      BY <1>2 DEF DragStart
    <2>2. findWorkspaceByTab(ui, t) \in WsIds \cup {None} /\ ui.tabs[t].pinned \in BOOLEAN
      BY <1>0, <1>w, <2>1, OwnerOf, TabParts
    <2>3. drag' \in Drags
      BY <2>1, <2>2 DEF Drags
    <2>4. Fine(ui, ui')
      BY <1>0, <2>1, FineSelf
    <2> QED BY <1>0, <2>1, <2>3, <2>4, ChangeHeld
  <1>3. ASSUME NEW over, CrossWorkspaceDragOver(over) PROVE Held
    <2> DEFINE to == findWorkspaceByTab(ui, over)
               s1 == removeTabFromWorkspace(ui, drag.from, drag.tab)
               at == Position(Ws(s1, to).tabs, over)
               anchor == IF at > 1 THEN Ws(s1, to).tabs[at - 1] ELSE First
    <2>1. /\ drag.tab # None /\ ui' = insertTab(s1, drag.tab, to, anchor)
          /\ drag' = [drag EXCEPT !.from = to] /\ UNCHANGED <<moving, migrate>>
      BY <1>3 DEF CrossWorkspaceDragOver
    <2>2. Fine(ui, s1) /\ Good(s1)
      BY <1>0, RemoveTabFine DEF Fine
    <2>3. to \in WsIds \cup {None}
      BY <1>w, OwnerOf
    <2> HIDE DEF s1, to, anchor
    <2>4. drag.tab \in TabIds
      BY <1>d, <2>1
    <2>5. Fine(s1, insertTab(s1, drag.tab, to, anchor))
      BY <2>2, <2>4, InsertTabFine
    <2>6. Fine(ui, ui')
      BY <2>1, <2>2, <2>5, FineThen
    <2>7. drag' \in Drags
      BY <1>0, <2>1, <2>3 DEF Drags
    <2> QED BY <1>0, <2>1, <2>6, <2>7, ChangeHeld
  <1>e. ASSUME NEW s, Fine(ui, s), DragEnd(s) PROVE Held
    <2>1. Fine(ui, ui') /\ drag' \in Drags /\ UNCHANGED <<moving, migrate>>
      BY <1>d, <1>e DEF DragEnd
    <2> QED BY <1>0, <2>1, ChangeHeld
  <1>f. Fine(ui, ui)
    BY <1>0, FineSelf
  <1>4. ASSUME NEW over, DropOnTab(over) PROVE Held
    <2> DEFINE to == findWorkspaceByTab(ui, over)
               zone == IF to = None THEN StandaloneOrder(ui) ELSE Ws(ui, to).tabs
               i == Position(zone, drag.tab)
               j == Position(zone, over)
               moved == arrayMove(zone, i, j)
               n == IF to = drag.from
                    THEN IF i = 0 \/ j = 0 THEN ui
                         ELSE IF to = None
                              THEN reorderTabs(ui, reorderStandaloneTabOrder(ui.order, moved))
                              ELSE reorderWorkspaceTabs(ui, to, moved)
                    ELSE IF drag.pinned THEN ui
                    ELSE IF to = None THEN MoveTabToStandalone(ui, drag.tab, drag.from)
                    ELSE MoveTabToWorkspace(ui, drag.tab, to, over)
    <2>1. DragEnd(n)
      BY <1>4 DEF DropOnTab
    <2>2. drag.tab \in TabIds
      BY <1>d, <2>1 DEF DragEnd
    <2>3. to \in WsIds \cup {None} /\ (to # None => HasWs(ui, to))
      BY <1>w, OwnerOf
    <2> HIDE DEF to
    <2>4. zone \in Seq(TabIds) /\ IsInjective(zone)
      <3>1. CASE to = None
        BY <1>0, <3>1, StandaloneFacts
      <3>2. CASE to # None
        BY <1>0, <2>3, <3>2, WsTabs
      <3> QED BY <3>1, <3>2
    <2> HIDE DEF zone
    <2>5. i \in 0..Len(zone) /\ j \in 0..Len(zone) /\ Len(zone) \in Nat
      BY <2>4, PositionFacts
    <2> HIDE DEF i, j
    <2>6. i # 0 /\ j # 0 => moved \in Seq(TabIds)
      <3>1. ASSUME i # 0, j # 0 PROVE moved \in Seq(TabIds)
        <4>1. i \in 1..Len(zone) /\ j \in 1..Len(zone)
          BY <2>5, <3>1
        <4> QED BY <2>4, <4>1, ArrayMoveFacts
      <3> QED BY <3>1
    <2> HIDE DEF moved
    <2>7. i # 0 /\ j # 0 => Fine(ui, reorderWorkspaceTabs(ui, to, moved))
      BY <1>0, <2>6, ReorderWsTabsFine
    <2>8. i # 0 /\ j # 0 => Fine(ui, reorderTabs(ui, reorderStandaloneTabOrder(ui.order, moved)))
      <3>1. ASSUME moved \in Seq(TabIds) PROVE Fine(ui, reorderTabs(ui, reorderStandaloneTabOrder(ui.order, moved)))
        <4> DEFINE o == reorderStandaloneTabOrder(ui.order, moved)
        <4>1. ui.order \in Seq(TabIds) /\ IsInjective(ui.order) /\ ToSet(ui.order) \subseteq Open(ui)
          BY <1>0, StoreParts DEF Good
        <4>2. o \in Seq(TabIds) /\ IsInjective(o) /\ ToSet(o) \subseteq Open(ui)
          BY <3>1, <4>1, StandaloneReordered
        <4> HIDE DEF o
        <4>3. Fine(ui, reorderTabs(ui, o))
          BY <1>0, <4>2, ReorderFine
        <4> QED BY <4>3 DEF o
      <3> QED BY <2>6, <3>1
    <2>9. Fine(ui, MoveTabToStandalone(ui, drag.tab, drag.from))
      BY <1>0, MoveHomeFine
    <2>10. Fine(ui, MoveTabToWorkspace(ui, drag.tab, to, over))
      BY <1>0, <2>2, <2>3, MoveFine
    <2>11. Fine(ui, n)
      BY <1>f, <2>7, <2>8, <2>9, <2>10
    <2> HIDE DEF n
    <2> QED BY <1>e, <2>1, <2>11
  <1>5. ASSUME NEW w \in WsIds, DropOnWorkspaceHeader(w) PROVE Held
    <2> DEFINE n == IF drag.pinned \/ w = drag.from THEN ui ELSE MoveTabToWorkspace(ui, drag.tab, w, First)
    <2>1. DragEnd(n)
      BY <1>5 DEF DropOnWorkspaceHeader
    <2>2. drag.tab \in TabIds
      BY <1>d, <2>1 DEF DragEnd
    <2>3. Fine(ui, MoveTabToWorkspace(ui, drag.tab, w, First))
      BY <1>0, <2>2, MoveFine
    <2>4. Fine(ui, n)
      BY <1>f, <2>3
    <2> HIDE DEF n
    <2> QED BY <1>e, <2>1, <2>4
  <1>6. ASSUME DropOnHomeHeader PROVE Held
    <2> DEFINE n == IF drag.pinned \/ drag.from = None THEN ui ELSE MoveTabToStandalone(ui, drag.tab, drag.from)
    <2>1. DragEnd(n)
      BY <1>6 DEF DropOnHomeHeader
    <2>2. Fine(ui, n)
      BY <1>0, <1>f, MoveHomeFine
    <2> HIDE DEF n
    <2> QED BY <1>e, <2>1, <2>2
  <1>7. ASSUME DropNowhere PROVE Held
    BY <1>e, <1>f, <1>7 DEF DropNowhere
  <1> QED BY <1>1, <1>2, <1>3, <1>4, <1>5, <1>6, <1>7 DEF DragNext

\* The window takes over what another gave away, or joins it to its own.
LEMMA WindowSteps ==
    ASSUME ShellInv, WindowNext
    PROVE  ShellInv' /\ (LockedStay \/ Replaced) /\ SharedStay
  <1>0. Good(ui) /\ drag \in Drags /\ migrate \in WsIds \cup {None} /\ moving.ws \in WsIds \cup {None}
    BY DEF ShellInv
  <1>1. ASSUME NEW t \in TabIds, TearOffTab(t) PROVE Held
    <2>1. Fine(ui, closeTabInWorkspace(ui, t, FALSE))
      BY <1>0, CloseFine
    <2> QED BY <1>1, <2>1, StepHeld DEF TearOffTab, handleCloseTab
  <1>2. ASSUME NEW w \in WsIds, WorkspaceHandOver(w) PROVE Held
    <2>1. Fine(ui, ui') /\ moving'.ws = w /\ UNCHANGED <<drag, migrate>>
      BY <1>0, <1>2, FineSelf DEF WorkspaceHandOver
    <2> QED BY <1>0, <2>1, ChangeHeld
  <1>3. ASSUME WorkspaceHandOverFailed PROVE Held
    <2>1. Fine(ui, ui') /\ moving'.ws = None /\ UNCHANGED <<drag, migrate>>
      BY <1>0, <1>3, FineSelf DEF WorkspaceHandOverFailed
    <2> QED BY <1>0, <2>1, ChangeHeld
  <1>4. ASSUME WorkspaceHandOverDone PROVE ShellInv' /\ Replaced /\ SharedStay
    <2>1. Good(ui')
      BY <1>0, <1>4, HandedOverGood DEF WorkspaceHandOverDone
    <2>2. moving'.ws = None /\ UNCHANGED <<drag, migrate>>
      BY <1>4 DEF WorkspaceHandOverDone
    <2>3. Good(ui)' /\ SharedStay
      BY <2>1, GoodNext DEF SharedStay
    <2> QED BY <1>0, <1>4, <2>2, <2>3 DEF ShellInv, Replaced
  <1>c. \A c \in Sessions : createTab(c) \in FullTabs
    BY ContentAssumption, NewTabFull
  <1>5. ASSUME NEW t \in TabIds, NEW c \in Sessions, TabReceived(t, c, FALSE) PROVE Held
    <2> DEFINE n == insertTab(setActiveTab(addTab(ui, t, createTab(c), None), t), t, ui.aws, None)
    <2>1. Step(n)
      BY <1>5 DEF TabReceived
    <2>2. Fine(ui, n)
      BY <1>0, <1>c, AddInsertFine
    <2> HIDE DEF n
    <2> QED BY <2>1, <2>2, StepHeld
  <1>6. ASSUME NEW t \in TabIds, NEW c \in Sessions, TabReceived(t, c, TRUE) PROVE ShellInv' /\ Replaced /\ SharedStay
    <2> DEFINE s1 == NoTabs(ui)
               n == insertTab(setActiveTab(addTab(s1, t, createTab(c), None), t), t, ui.aws, None)
    <2>1. Step(n)
      BY <1>6 DEF TabReceived
    <2>2. Good(s1)
      BY <1>0, EmptiedGood
    <2> HIDE DEF s1
    <2>3. Fine(s1, n)
      BY <1>c, <2>2, AddInsertFine
    <2> HIDE DEF n
    <2>4. ShellInv' /\ SharedStay
      <3>1. Good(ui') /\ UNCHANGED <<drag, moving, migrate>>
        BY <2>1, <2>3 DEF Step, Fine
      <3>2. Good(ui)' /\ SharedStay
        BY <3>1, GoodNext DEF SharedStay
      <3> QED BY <1>0, <3>1, <3>2 DEF ShellInv
    <2> QED BY <1>6, <2>4 DEF Replaced
  \* One tab and its workspace, after what the window keeps of its own.
  <1>r. ASSUME NEW s0, Good(s0), NEW t \in TabIds, NEW c \in Sessions, NEW w \in WsIds, NEW replace \in BOOLEAN,
               \A i \in 1..Len(s0.wss) : t \notin ToSet(s0.wss[i].tabs),
               NEW s1, s1 = addTab(s0, t, createTab(c), None),
               NEW s2, s2 = importWorkspace(s1, [id |-> w, tabs |-> <<t>>, active |-> t]),
               NEW s3, s3 = IF replace THEN setActiveWorkspace(s2, w) ELSE s2
        PROVE  Fine(s0, setActiveTab(s3, t))
    <2>1. Fine(s0, s1) /\ Good(s1) /\ s1.wss = s0.wss
      BY <1>c, <1>r, AddTabFine DEF Fine
    <2>2. \A i \in 1..Len(s1.wss) : t \notin ToSet(s1.wss[i].tabs)
      BY <1>r, <2>1
    <2> DEFINE x == [id |-> w, tabs |-> <<t>>, active |-> t]
    <2>3. Fine(s1, importWorkspace(s1, x))
      BY <2>1, <2>2, ImportFine
    <2>4. s2 = importWorkspace(s1, x)
      BY <1>r
    <2> HIDE DEF x
    <2>5. Fine(s1, s2) /\ Good(s2)
      BY <2>3, <2>4 DEF Fine
    <2>6. Fine(s2, s3) /\ Good(s3)
      <3>1. Fine(s2, setActiveWorkspace(s2, w))
        BY <2>5, SetWsFine
      <3> QED BY <1>r, <2>5, <3>1, FineSelf DEF Fine
    <2>7. Fine(s3, setActiveTab(s3, t))
      BY <2>6, SetActiveFine
    <2> QED BY <2>1, <2>5, <2>6, <2>7, FineThen
  <1>7. ASSUME NEW t \in TabIds, NEW c \in Sessions, NEW w \in WsIds, WorkspaceReceived(w, t, c, FALSE)
        PROVE  ShellInv' /\ LockedStay /\ SharedStay
    <2> DEFINE s1 == addTab(ui, t, createTab(c), None)
               x == [id |-> w, tabs |-> <<t>>, active |-> t]
               m == setActiveTab(s1, t)
    <2>1. ui' = setActiveTab(importWorkspace(s1, x), t) /\ UNCHANGED <<drag, moving, migrate>>
      BY <1>7 DEF WorkspaceReceived, Step
    <2>2. Fits(x) /\ x.id = w /\ ToSet(x.tabs) = {t}
      BY PayloadFits
    <2> HIDE DEF x
    <2>3. Fine(ui, s1) /\ Good(s1) /\ t \in Open(s1)
      BY <1>0, <1>c, AddTabFine DEF Fine
    <2> HIDE DEF s1
    <2>4. Fine(s1, m) /\ m.wss = s1.wss
      BY <2>3, SetActiveFine
    <2>5. Fine(ui, m) /\ Good(m)
      BY <2>3, <2>4, FineThen DEF Fine
    <2>6. CASE HasWs(s1, w)
      <3>1. ui' = m
        BY <2>1, <2>2, <2>6 DEF importWorkspace
      <3> HIDE DEF m
      <3>2. Held
        BY <1>0, <2>1, <2>5, <3>1, ChangeHeld
      <3> QED BY <3>2 DEF Held, SharedStay
    <2>7. CASE ~HasWs(s1, w)
      <3>1. ui' = setActiveTab([s1 EXCEPT !.wss = Append(s1.wss, x)], t)
        BY <2>1, <2>2, <2>7 DEF importWorkspace
      <3>2. s1 \in Stores /\ WssGood(s1.wss)
        BY <2>3 DEF Good
      <3>3. ui' = [m EXCEPT !.wss = Append(m.wss, x)]
        BY <2>3, <2>4, <3>1, <3>2 DEF setActiveTab, Open, Stores
      <3> HIDE DEF m
      <3>4. \A i \in 1..Len(m.wss) : m.wss[i].id # x.id
        BY <2>2, <2>4, <2>7, <3>2, WsFound
      <3>5. Good(ui)' /\ Shared(ui)' \subseteq Shared(ui) \cup {t}
        BY <2>2, <2>5, <3>3, <3>4, JoinedGood
      <3>6. SharedStay
        BY <1>7, <3>5 DEF SharedStay, BroughtAlong
      <3>7. LockedStay
        <4>1. m \in Stores
          BY <2>5 DEF Good
        <4>2. ui'.tabs = m.tabs
          BY <3>3, <4>1 DEF Stores
        <4> QED BY <2>5, <4>2 DEF LockedStay, Fine, Keeps, Open
      <3> QED BY <1>0, <2>1, <3>5, <3>6, <3>7 DEF ShellInv
    <2> QED BY <2>6, <2>7
  <1>8. ASSUME NEW t \in TabIds, NEW c \in Sessions, NEW w \in WsIds, WorkspaceReceived(w, t, c, TRUE)
        PROVE  ShellInv' /\ Replaced /\ SharedStay
    <2> DEFINE s0 == [NoTabs(ui) EXCEPT !.wss = <<>>, !.aws = None]
               s1 == addTab(s0, t, createTab(c), None)
               s2 == importWorkspace(s1, [id |-> w, tabs |-> <<t>>, active |-> t])
               n == setActiveTab(setActiveWorkspace(s2, w), t)
    <2>1. Step(n)
      BY <1>8 DEF WorkspaceReceived
    <2>2. Good(s0)
      BY <1>0, EmptiedGood
    <2>3. s0.wss = <<>>
      <3>1. NoTabs(ui) \in Stores
        BY <1>0, EmptiedGood DEF Good
      <3> QED BY <3>1 DEF Stores
    <2> HIDE DEF s0
    <2>4. \A i \in 1..Len(s0.wss) : t \notin ToSet(s0.wss[i].tabs)
      BY <2>3
    <2>5. Fine(s0, n)
      BY <1>r, <2>2, <2>4
    <2> HIDE DEF n
    <2>6. ShellInv' /\ SharedStay
      <3>1. Good(ui') /\ UNCHANGED <<drag, moving, migrate>>
        BY <2>1, <2>5 DEF Step, Fine
      <3>2. Good(ui)' /\ SharedStay
        BY <3>1, GoodNext DEF SharedStay
      <3> QED BY <1>0, <3>1, <3>2 DEF ShellInv
    <2> QED BY <1>8, <2>6 DEF Replaced
  <1>9. \A r \in BOOLEAN : r = TRUE \/ r = FALSE
    OBVIOUS
  <1> QED BY <1>1, <1>2, <1>3, <1>4, <1>5, <1>6, <1>7, <1>8, <1>9 DEF WindowNext, Held, SharedStay

LEMMA ShellStep ==
    ASSUME ShellInv, [ShellNext]_shellVars
    PROVE  ShellInv' /\ (LockedStay \/ Replaced) /\ SharedStay
  <1>1. CASE SelectNext \/ OpenNext \/ CloseNext \/ PaneNext \/ WorkspaceNext \/ DragNext
    BY <1>1, SelectSteps, OpenSteps, CloseSteps, PaneSteps, WorkspaceSteps, DragSteps DEF Held, SharedStay
  <1>2. CASE WindowNext
    BY <1>2, WindowSteps
  <1>3. CASE UNCHANGED shellVars
    <2>1. UNCHANGED <<ui, drag, moving, migrate>>
      BY <1>3 DEF shellVars
    <2>2. Good(ui) /\ ui' = ui
      BY <2>1 DEF ShellInv
    <2>3. Good(ui)' /\ Shared(ui)' \subseteq Shared(ui)
      BY <2>2, GoodNext
    <2> QED BY <2>1, <2>3 DEF ShellInv, LockedStay, Open, SharedStay
  <1> QED BY <1>1, <1>2, <1>3 DEF ShellNext

LEMMA ShellStarts == ShellInit => ShellInv
  <1> SUFFICES ASSUME ShellInit PROVE ShellInv
    OBVIOUS
  <1> DEFINE q == <<>>
  <1>1. ui = [tabs |-> q, order |-> q, active |-> None, visits |-> q, closed |-> q, wss |-> q, aws |-> None]
    BY DEF ShellInit
  <1>2. q \in TabMaps /\ DOMAIN q = {}
    <2>1. q \in [{} -> FullTabs]
      OBVIOUS
    <2>2. {} \in SUBSET TabIds
      OBVIOUS
    <2> HIDE DEF q
    <2> QED BY <2>1, <2>2 DEF TabMaps
  <1>3. /\ q \in Seq(TabIds) /\ ToSet(q) = {} /\ IsInjective(q) /\ q \in Seq(Workspaces) /\ Len(q) = 0
        /\ q \in Seq(ClosedRecs)
    BY DEF ToSet, IsInjective
  <1> HIDE DEF q
  <1>4. /\ ui.tabs = q /\ ui.order = q /\ ui.active = None /\ ui.closed = q /\ ui.wss = q
        /\ ui \in Stores
    BY <1>1, <1>2, <1>3 DEF Stores
  <1>5. Open(ui) = {}
    BY <1>2, <1>4 DEF Open
  <1>6. WssGood(q)
    BY <1>3 DEF WssGood
  <1>7. Good(ui)
    BY <1>3, <1>4, <1>5, <1>6, ContentAssumption DEF Good
  <1>8. drag \in Drags /\ migrate \in WsIds \cup {None} /\ moving.ws \in WsIds \cup {None}
    BY DEF ShellInit, NoDrag, Drags
  <1> QED BY <1>7, <1>8 DEF ShellInv

LEMMA ShellInvSound == ShellInv => TabsSound /\ ListedOnce /\ WorkspaceActiveIsMember
  <1> SUFFICES ASSUME ShellInv PROVE TabsSound /\ ListedOnce /\ WorkspaceActiveIsMember
    OBVIOUS
  <1>0. Good(ui) /\ WssGood(ui.wss)
    BY DEF ShellInv, Good
  <1>1. ActiveTabOpen /\ OrderSound
    BY <1>0 DEF Good, ActiveTabOpen, OrderSound
  <1>2. ShellTypeOK
    <2>1. \A t \in Open(ui) : ui.tabs[t] \in Tabs
      <3>1. FullTabs \subseteq Tabs
        BY DEF FullTabs, Tabs
      <3> QED BY <1>0, <3>1, TabParts
    <2>2. \A i \in DOMAIN ui.wss : ui.wss[i] \in Workspaces
      BY <1>0, WssFit DEF Fits
    <2>3. Len(ui.closed) <= CLOSED_TABS_MAX
      BY <1>0 DEF Good
    <2>4. /\ Open(ui) \subseteq TabIds /\ ui.order \in Seq(TabIds) /\ ui.visits \in Seq(TabIds)
          /\ ui.active \in TabIds \cup {None} /\ ui.aws \in WsIds \cup {None}
      BY <1>0, StoreParts
    <2>5. drag.from \in WsIds \cup {None} /\ drag.tab \in TabIds \cup {None}
      BY DEF ShellInv, Drags
    <2> QED BY <2>1, <2>2, <2>3, <2>4, <2>5 DEF ShellInv, ShellTypeOK
  <1>3. WorkspaceActiveIsMember
    BY <1>0, WssFit DEF Fits, WorkspaceActiveIsMember
  <1>4. ListedOnce
    BY <1>0, WssFit DEF Fits, ListedOnce
  <1> QED BY <1>1, <1>2, <1>3, <1>4 DEF TabsSound

\* The tab list stays well formed and agrees with itself, for any tabs,
\* workspaces and contents: the active tab is open and the order lists open
\* tabs, each once, after every handler, drag, hand-over and migration
\* (useTabStore, the workspace handlers of App.tsx).
THEOREM TabsAlwaysSound == ShellSpec => []TabsSound
  BY ShellStarts, ShellStep, ShellInvSound, PTL DEF ShellSpec

\* What WorkspacesSound says of a step.
LEMMA WorkspacesStep ==
    ASSUME ShellInv, [ShellNext]_shellVars
    PROVE  [/\ ListedOnce' /\ WorkspaceActiveIsMember'
            /\ \A t \in Shared(ui)' \ Shared(ui) : BroughtAlong(t)]_shellVars
  <1>1. ShellInv' /\ SharedStay
    BY ShellStep
  <1>2. ListedOnce' /\ WorkspaceActiveIsMember'
    <2>1. WssGood(ui.wss)'
      BY <1>1 DEF ShellInv, Good
    <2>2. DOMAIN ui'.wss = 1..Len(ui'.wss)
      BY <2>1 DEF WssGood
    <2> QED BY <2>1, <2>2 DEF WssGood, ListedOnce, WorkspaceActiveIsMember
  <1> QED BY <1>1, <1>2 DEF SharedStay

\* Every step, whatever the tabs, workspaces and contents, leaves each workspace
\* with a list that has a tab once and with an active tab of its own, and puts a
\* tab into a second workspace only when it merges a workspace of another window
\* (features/workspace/store.ts, useElectronIpc.ts), also while a tab crosses
\* workspaces in a drag that is still in flight.
THEOREM WorkspacesAlwaysSound == ShellSpec => WorkspacesSound
  BY ShellStarts, ShellStep, WorkspacesStep, PTL DEF ShellSpec, WorkspacesSound

\* The same from any sound store, not only from an empty one: what the window
\* restores from the storage when it loads, shared tabs included.
THEOREM SoundShellStaysSound == ShellInv /\ [][ShellNext]_shellVars => []TabsSound /\ WorkspacesSound
  BY ShellStep, ShellInvSound, WorkspacesStep, PTL DEF WorkspacesSound

\* No close, merge, move, layout or deletion takes a locked tab away, only a
\* hand-over with its workspace or another window's tabs that replace them
\* (closeTab and closeTabInWorkspace refuse it).
THEOREM LockedTabAlwaysKept == ShellSpec => LockedTabKept
  <1>1. ASSUME ShellInv, [ShellNext]_shellVars
        PROVE  [\A t \in Open(ui) : ui.tabs[t].locked /\ ~Replaced => t \in Open(ui)']_shellVars
    BY <1>1, ShellStep DEF LockedStay
  <1> QED BY <1>1, ShellStarts, ShellStep, PTL DEF ShellSpec, LockedTabKept
=============================================================================
