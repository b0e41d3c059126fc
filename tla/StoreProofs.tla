----------------------------- MODULE StoreProofs -----------------------------
(***************************************************************************)
(* The test store keeps its contracts (StoreProperties) for every program, *)
(* every bound and every order of a test's operations.                     *)
(***************************************************************************)
EXTENDS StoreProperties, SequenceTheorems, NaturalsInduction, WellFoundedInduction, TLAPS

-----------------------------------------------------------------------------
(* Induction on numbers: a set of them that is not empty has a least one.  *)

LEMMA Least ==
  ASSUME NEW A \in SUBSET Nat, A # {}
  PROVE  \E m \in A : \A n \in A : ~ (n < m)
<1>1. \E m \in A : \A n \in A : ~ (<<n, m>> \in OpToRel(<, Nat))
  BY NatLessThanWellFounded, WFMin
<1> QED
  BY <1>1 DEF OpToRel

(* A set of numbers that no number is the first of is empty.               *)
LEMMA NoFirst ==
  ASSUME NEW A, A \subseteq Nat, \A m \in A : \E n \in A : n < m
  PROVE  A = {}
<1> SUFFICES ASSUME A # {} PROVE FALSE
  OBVIOUS
<1> QED  BY Least

-----------------------------------------------------------------------------
(* Sequences, whatever they hold.                                          *)

LEMMA SeqIs ==
  ASSUME NEW s, IsSeq(s)
  PROVE  /\ Len(s) \in Nat /\ DOMAIN s = 1..Len(s)
         /\ s = [i \in 1..Len(s) |-> s[i]]
         /\ \A T : (\A i \in 1..Len(s) : s[i] \in T) => s \in Seq(T)
<1> DEFINE E == ToSet(s)
<1>1. s \in Seq(E)
  BY DEF IsSeq
<1>2. Len(s) \in Nat /\ DOMAIN s = 1..Len(s) /\ s = [i \in 1..Len(s) |-> s[i]]
  <2> HIDE DEF E
  <2> QED  BY <1>1
<1>3. ASSUME NEW T, \A i \in 1..Len(s) : s[i] \in T PROVE s \in Seq(T)
  <2>1. s \in [1..Len(s) -> T]
    BY <1>2, <1>3
  <2> QED  BY <1>2, <2>1
<1> QED  BY <1>2, <1>3

LEMMA SeqMade ==
  ASSUME NEW n \in Nat, NEW s, s = [i \in 1..n |-> s[i]]
  PROVE  IsSeq(s) /\ Len(s) = n
<1>1. s \in [1..n -> ToSet(s)]
  BY DEF ToSet
<1> HIDE DEF ToSet
<1>2. s \in Seq(ToSet(s))
  BY <1>1
<1>3. Len(s) = n
  BY <1>1, <1>2
<1> QED  BY <1>2, <1>3 DEF IsSeq

LEMMA SeqEmpty ==
  /\ IsSeq(<<>>) /\ Len(<<>>) = 0 /\ DOMAIN <<>> = {}
  /\ \A s : IsSeq(s) => (s = <<>> <=> Len(s) = 0)
<1>1. IsSeq(<<>>)
  BY DEF IsSeq, ToSet
<1>2. \A s : IsSeq(s) => (s = <<>> <=> Len(s) = 0)
  <2>1. ASSUME NEW s, IsSeq(s) PROVE s = <<>> <=> Len(s) = 0
    <3> DEFINE E == ToSet(s)
    <3>1. s \in Seq(E)
      BY <2>1 DEF IsSeq
    <3> HIDE DEF E
    <3> QED  BY <3>1
  <2> QED  BY <2>1
<1>3. Len(<<>>) = 0
  OBVIOUS
<1>4. {} = DOMAIN <<>>
  OBVIOUS
<1> QED  BY <1>1, <1>2, <1>3, <1>4

LEMMA SeqAppend ==
  ASSUME NEW s, NEW e, IsSeq(s)
  PROVE  /\ IsSeq(Append(s, e)) /\ Len(Append(s, e)) = Len(s) + 1
         /\ \A i \in 1..Len(s) : Append(s, e)[i] = s[i]
         /\ Append(s, e)[Len(s) + 1] = e
<1> DEFINE E == ToSet(s) \cup {e}
<1>1. s \in Seq(E)
  <2>1. \A i \in 1..Len(s) : s[i] \in E
    BY SeqIs DEF ToSet
  <2> QED  BY SeqIs, <2>1
<1>2. e \in E
  OBVIOUS
<1> HIDE DEF E
<1> DEFINE t == Append(s, e)
<1>3. t \in Seq(E) /\ Len(t) = Len(s) + 1 /\ Len(s) \in Nat
  BY <1>1, <1>2
<1>4. t = [i \in 1..Len(t) |-> t[i]]
  <2> HIDE DEF t
  <2> QED  BY <1>3
<1>5. IsSeq(t)
  <2> HIDE DEF t
  <2> QED  BY <1>3, <1>4, SeqMade
<1>6. (\A i \in 1..Len(s) : Append(s, e)[i] = s[i]) /\ Append(s, e)[Len(s) + 1] = e
  BY <1>1, <1>2
<1> QED  BY <1>3, <1>5, <1>6

LEMMA SeqConcat ==
  ASSUME NEW s, NEW t, IsSeq(s), IsSeq(t)
  PROVE  /\ IsSeq(s \o t) /\ Len(s \o t) = Len(s) + Len(t)
         /\ \A i \in 1..Len(s) : (s \o t)[i] = s[i]
         /\ \A i \in 1..Len(t) : (s \o t)[Len(s) + i] = t[i]
<1> DEFINE E == ToSet(s) \cup ToSet(t)
<1>1. s \in Seq(E) /\ t \in Seq(E)
  <2>1. (\A i \in 1..Len(s) : s[i] \in E) /\ (\A i \in 1..Len(t) : t[i] \in E)
    BY SeqIs DEF ToSet
  <2> QED  BY SeqIs, <2>1
<1> HIDE DEF E
<1> DEFINE u == s \o t
<1>3. u \in Seq(E) /\ Len(u) = Len(s) + Len(t) /\ Len(s) \in Nat /\ Len(t) \in Nat
  BY <1>1
<1>4. u = [i \in 1..Len(u) |-> u[i]]
  <2> HIDE DEF u
  <2> QED  BY <1>3
<1>5. IsSeq(u)
  <2> HIDE DEF u
  <2> QED  BY <1>3, <1>4, SeqMade
<1>6. \A i \in 1..Len(s) : (s \o t)[i] = s[i]
  BY <1>1, <1>3
<1>7. \A i \in 1..Len(t) : (s \o t)[Len(s) + i] = t[i]
  BY <1>1, <1>3
<1> QED  BY <1>3, <1>5, <1>6, <1>7

LEMMA SeqTail ==
  ASSUME NEW s, IsSeq(s), s # <<>>
  PROVE  /\ IsSeq(Tail(s)) /\ Len(Tail(s)) = Len(s) - 1 /\ Head(s) = s[1] /\ Len(s) >= 1
         /\ \A i \in 1..(Len(s) - 1) : Tail(s)[i] = s[i + 1]
<1> DEFINE E == ToSet(s)
<1>1. s \in Seq(E)
  BY DEF IsSeq
<1> HIDE DEF E
<1> DEFINE u == Tail(s)
<1>3. u \in Seq(E) /\ Len(u) = Len(s) - 1 /\ Len(s) \in Nat /\ Len(u) \in Nat
  BY <1>1
<1>4. u = [i \in 1..Len(u) |-> u[i]]
  <2> HIDE DEF u
  <2> QED  BY <1>3
<1>5. IsSeq(u)
  <2> HIDE DEF u
  <2> QED  BY <1>3, <1>4, SeqMade
<1>6. \A i \in 1..(Len(s) - 1) : Tail(s)[i] = s[i + 1]
  BY <1>1, <1>3
<1>7. Head(s) = s[1] /\ Len(s) >= 1
  BY <1>1, <1>3
<1> QED  BY <1>3, <1>5, <1>6, <1>7

(* One entry of a sequence changes.                                        *)
LEMMA SeqExcept ==
  ASSUME NEW s, NEW e, IsSeq(s), NEW i \in DOMAIN s, NEW u, u = [s EXCEPT ![i] = e]
  PROVE  /\ IsSeq(u) /\ Len(u) = Len(s) /\ DOMAIN u = DOMAIN s
         /\ u[i] = e /\ \A j \in DOMAIN s : j # i => u[j] = s[j]
<1>1. Len(s) \in Nat /\ DOMAIN s = 1..Len(s) /\ s = [j \in 1..Len(s) |-> s[j]]
  BY SeqIs
<1>2. u = [j \in 1..Len(s) |-> u[j]]
  BY <1>1
<1>3. IsSeq(u) /\ Len(u) = Len(s)
  BY <1>1, <1>2, SeqMade
<1>4. u[i] = e /\ \A j \in DOMAIN s : j # i => u[j] = s[j]
  BY <1>1
<1>5. (DOMAIN u) = DOMAIN s
  BY <1>1
<1> QED  BY <1>3, <1>4, <1>5

LEMMA SeqSame ==
  ASSUME NEW s, NEW t, IsSeq(s), IsSeq(t), Len(s) = Len(t),
         \A i \in 1..Len(s) : s[i] = t[i]
  PROVE  s = t
<1>1. s = [i \in 1..Len(s) |-> s[i]] /\ t = [i \in 1..Len(t) |-> t[i]]
  BY SeqIs
<1>2. [i \in 1..Len(s) |-> s[i]] = [i \in 1..Len(t) |-> t[i]]
  OBVIOUS
<1> QED  BY <1>1, <1>2

LEMMA SeqOne ==
  ASSUME NEW e
  PROVE  IsSeq(<<e>>) /\ Len(<<e>>) = 1 /\ <<e>>[1] = e /\ DOMAIN <<e>> = {1}
  BY DEF IsSeq, ToSet

LEMMA SeqTwo ==
  ASSUME NEW e, NEW f
  PROVE  /\ IsSeq(<<e, f>>) /\ Len(<<e, f>>) = 2
         /\ <<e, f>>[1] = e /\ <<e, f>>[2] = f /\ DOMAIN <<e, f>> = {1, 2}
<1>1. <<e, f>> \in Seq({e, f})
  OBVIOUS
<1>2. ToSet(<<e, f>>) = {e, f}
  BY DEF ToSet
<1> QED  BY <1>1, <1>2 DEF IsSeq
(* A selection, entry by entry.                                            *)
SelectedWalk(f, s, I) ==
  /\ f[0] = <<>>
  /\ \A k \in 1..Len(s) : f[k] = (IF k \in I THEN Append(f[k - 1], s[k]) ELSE f[k - 1])
  /\ Selected(s, I) = f[Len(s)]

LEMMA SelectedWalkExists ==
  ASSUME NEW s, NEW I, IsSeq(s)
  PROVE  \E f : SelectedWalk(f, s, I)
<1> DEFINE Then(k, v) == (IF k \in I THEN Append(v, s[k]) ELSE v)
           Body(f, m) == [k \in 0..m |-> IF k = 0 THEN <<>> ELSE Then(k, f[k - 1])]
           A == {m \in Nat : ~ \E f : f = Body(f, m)}
<1>1. Len(s) \in Nat
  BY SeqIs
<1>2. A = {}
  <2>1. ASSUME NEW m \in A PROVE \E j \in A : j < m
    <3>1. CASE m = 0
      <4> DEFINE f == [k \in 0..0 |-> <<>>]
      <4>1. f = Body(f, m)
        BY <3>1
      <4> QED  BY <2>1, <4>1
    <3>2. CASE m # 0
      <4>1. m \in Nat /\ m - 1 \in Nat /\ m - 1 < m
        BY <2>1, <3>2
      <4>2. SUFFICES ASSUME m - 1 \notin A PROVE FALSE
        BY <4>1
      <4>3. PICK f : f = Body(f, m - 1)
        BY <4>1, <4>2
      <4> DEFINE g == [k \in 0..m |-> IF k = m THEN Then(m, f[m - 1]) ELSE f[k]]
      <4> HIDE DEF Then
      <4>4. \A k \in 0..m : g[k] = IF k = 0 THEN <<>> ELSE Then(k, g[k - 1])
        BY <4>1, <4>3
      <4>5. g = Body(g, m)
        BY <4>4
      <4> QED  BY <2>1, <4>5
    <3> QED  BY <3>1, <3>2
  <2> QED  BY <2>1, NoFirst
<1>3. PICK made : made = Body(made, Len(s))
  BY <1>1, <1>2
<1> DEFINE F == CHOOSE f : f = Body(f, Len(s))
<1>4. F = Body(F, Len(s))
  BY <1>3
<1>5. Selected(s, I) = F[Len(s)]
  BY DEF Selected
<1> HIDE DEF F, Then
<1>6. \A k \in 0..Len(s) : F[k] = IF k = 0 THEN <<>> ELSE Then(k, F[k - 1])
  BY <1>1, <1>4
<1>7. F[0] = <<>> /\ \A k \in 1..Len(s) : F[k] = Then(k, F[k - 1])
  BY <1>1, <1>6
<1> QED  BY <1>5, <1>7 DEF Then, SelectedWalk


(* t has the entries of s at the positions in J, by the increasing         *)
(* enumeration g of J.                                                     *)
Enumerates(g, t, s, J) ==
  /\ IsSeq(t) /\ IsSeq(g) /\ Len(g) = Len(t)
  /\ \A i \in 1..Len(t) : g[i] \in J /\ g[i] \in Nat /\ t[i] = s[g[i]]
  /\ \A i, j \in 1..Len(t) : i < j => g[i] < g[j]
  /\ \A k \in J : \E i \in 1..Len(t) : g[i] = k

Enumerated(t, s, J) == \E g : Enumerates(g, t, s, J)

LEMMA EnumeratedNothing ==
  ASSUME NEW s, NEW J, J = {}
  PROVE  Enumerated(<<>>, s, J)
<1>1. Enumerates(<<>>, <<>>, s, J)
  BY SeqEmpty DEF Enumerates
<1> QED  BY <1>1 DEF Enumerated

LEMMA EnumeratedNext ==
  ASSUME NEW t, NEW s, NEW J, NEW k \in Nat, Enumerated(t, s, J), \A j \in J : j \in Nat /\ j < k
  PROVE  Enumerated(Append(t, s[k]), s, J \cup {k})
<1>1. PICK g : Enumerates(g, t, s, J)
  BY DEF Enumerated
<1> DEFINE u == Append(t, s[k])
           h == Append(g, k)
           n == Len(t)
<1>2. n \in Nat /\ IsSeq(t) /\ IsSeq(g) /\ Len(g) = n
  BY <1>1, SeqIs DEF Enumerates
<1>3. IsSeq(u) /\ Len(u) = n + 1 /\ u[n + 1] = s[k] /\ \A i \in 1..n : u[i] = t[i]
  BY <1>2, SeqAppend
<1>4. IsSeq(h) /\ Len(h) = n + 1 /\ h[n + 1] = k /\ \A i \in 1..n : h[i] = g[i]
  BY <1>2, SeqAppend
<1>5. \A i \in 1..n : g[i] \in J /\ g[i] \in Nat /\ g[i] < k /\ t[i] = s[g[i]]
  BY <1>1 DEF Enumerates
<1>6. \A i \in 1..(n + 1) : i = n + 1 \/ i \in 1..n
  BY <1>2
<1> HIDE DEF u, h, n
<1>7. \A i \in 1..(n + 1) : h[i] \in J \cup {k} /\ h[i] \in Nat /\ u[i] = s[h[i]]
  BY <1>3, <1>4, <1>5, <1>6
<1>8. \A i, j \in 1..(n + 1) : i < j => h[i] < h[j]
  <2> SUFFICES ASSUME NEW i \in 1..(n + 1), NEW j \in 1..(n + 1), i < j PROVE h[i] < h[j]
    OBVIOUS
  <2>1. i \in 1..n
    BY <1>2
  <2>2. CASE j = n + 1
    BY <1>4, <1>5, <2>1, <2>2
  <2>3. CASE j \in 1..n
    BY <1>1, <1>4, <2>1, <2>3 DEF Enumerates, n
  <2> QED  BY <1>6, <2>2, <2>3
<1>9. \A j \in J \cup {k} : \E i \in 1..(n + 1) : h[i] = j
  <2>1. ASSUME NEW j \in J PROVE \E i \in 1..(n + 1) : h[i] = j
    <3>1. PICK i \in 1..n : g[i] = j
      BY <1>1 DEF Enumerates, n
    <3>2. i \in 1..(n + 1) /\ h[i] = j
      BY <1>2, <1>4, <3>1
    <3> QED  BY <3>2
  <2>2. n + 1 \in 1..(n + 1)
    BY <1>2
  <2> QED  BY <1>4, <2>1, <2>2
<1> QED  BY <1>3, <1>4, <1>7, <1>8, <1>9 DEF Enumerated, Enumerates, u

UpTo(I, k) == {j \in I : j <= k}

LEMMA UpToStep ==
  ASSUME NEW n \in Nat, NEW I, I \subseteq 1..n
  PROVE  /\ UpTo(I, 0) = {} /\ UpTo(I, n) = I
         /\ \A k \in 1..n : /\ k \in I => UpTo(I, k) = UpTo(I, k - 1) \cup {k}
                            /\ k \notin I => UpTo(I, k) = UpTo(I, k - 1)
                            /\ \A j \in UpTo(I, k - 1) : j \in Nat /\ j < k
<1>1. \A j \in I : j \in Nat /\ j >= 1 /\ j <= n
  OBVIOUS
<1>2. UpTo(I, 0) = {} /\ UpTo(I, n) = I
  <2>1. (\A j \in I : ~ (j <= 0)) /\ (\A j \in I : j <= n)
    BY <1>1
  <2>2. UpTo(I, 0) = {}
    BY <2>1 DEF UpTo
  <2>3. UpTo(I, n) = I
    BY <2>1 DEF UpTo
  <2> QED  BY <2>2, <2>3
<1>3. ASSUME NEW k \in 1..n, k \in I PROVE UpTo(I, k) = UpTo(I, k - 1) \cup {k}
  <2>1. \A j \in I : j <= k <=> j <= k - 1 \/ j = k
    BY <1>1, <1>3
  <2> QED  BY <1>3, <2>1 DEF UpTo
<1>4. ASSUME NEW k \in 1..n, k \notin I PROVE UpTo(I, k) = UpTo(I, k - 1)
  <2>1. \A j \in I : j <= k <=> j <= k - 1
    BY <1>1, <1>4
  <2> QED  BY <2>1 DEF UpTo
<1>5. \A k \in 1..n : \A j \in UpTo(I, k - 1) : j \in Nat /\ j < k
  BY <1>1 DEF UpTo
<1> QED  BY <1>2, <1>3, <1>4, <1>5

LEMMA SelectedIs ==
  ASSUME NEW s, NEW I, IsSeq(s), I \subseteq 1..Len(s)
  PROVE  Enumerated(Selected(s, I), s, I)
<1>0. PICK f : SelectedWalk(f, s, I)
  BY SelectedWalkExists
<1>1. /\ f[0] = <<>> /\ Selected(s, I) = f[Len(s)]
      /\ \A k \in 1..Len(s) : f[k] = (IF k \in I THEN Append(f[k - 1], s[k]) ELSE f[k - 1])
  BY <1>0 DEF SelectedWalk
<1> DEFINE A == {k \in 0..Len(s) : ~ Enumerated(f[k], s, UpTo(I, k))}
<1>2. Len(s) \in Nat
  BY SeqIs
<1>6. /\ UpTo(I, 0) = {} /\ UpTo(I, Len(s)) = I
      /\ \A k \in 1..Len(s) : /\ k \in I => UpTo(I, k) = UpTo(I, k - 1) \cup {k}
                              /\ k \notin I => UpTo(I, k) = UpTo(I, k - 1)
                              /\ \A j \in UpTo(I, k - 1) : j \in Nat /\ j < k
  BY <1>2, UpToStep
<1>3. ASSUME NEW k \in A PROVE \E j \in A : j < k
  <2>1. CASE k = 0
    <3>1. UpTo(I, k) = {}
      BY <1>2, <2>1, <1>6
    <3>2. Enumerated(f[k], s, UpTo(I, k))
      BY <1>1, <2>1, <3>1, EnumeratedNothing
    <3> QED  BY <3>2
  <2>2. CASE k # 0
    <3>1. k \in 1..Len(s) /\ k \in Nat /\ k - 1 \in 0..Len(s) /\ k - 1 < k
      BY <1>2, <2>2
    <3>2. SUFFICES ASSUME k - 1 \notin A PROVE FALSE
      BY <3>1
    <3>3. Enumerated(f[k - 1], s, UpTo(I, k - 1))
      BY <3>1, <3>2
    <3>4. \A j \in UpTo(I, k - 1) : j \in Nat /\ j < k
      BY <1>2, <3>1, <1>6
    <3>5. CASE k \in I
      <4>1. UpTo(I, k) = UpTo(I, k - 1) \cup {k}
        BY <1>2, <3>1, <3>5, <1>6
            <4>2. Enumerated(Append(f[k - 1], s[k]), s, UpTo(I, k - 1) \cup {k})
        BY <3>1, <3>3, <3>4, EnumeratedNext
      <4> QED  BY <1>1, <3>1, <3>5, <4>1, <4>2
    <3>6. CASE k \notin I
      <4>1. UpTo(I, k) = UpTo(I, k - 1)
        BY <1>2, <3>1, <3>6, <1>6
      <4> QED  BY <1>1, <3>1, <3>3, <3>6, <4>1
    <3> QED  BY <3>5, <3>6
  <2> QED  BY <2>1, <2>2
<1>7. A \subseteq Nat
  BY <1>2
<1>4. A = {}
  <2> HIDE DEF A
  <2> QED  BY <1>3, <1>7, NoFirst
<1>5. UpTo(I, Len(s)) = I
  BY <1>2, <1>6
<1> QED  BY <1>1, <1>2, <1>4, <1>5

LEMMA SelectedEntries ==
  ASSUME NEW s, NEW I, IsSeq(s), I \subseteq 1..Len(s), NEW t, t = Selected(s, I)
  PROVE  /\ IsSeq(t)
         /\ \A i \in DOMAIN t : \E k \in I : t[i] = s[k]
         /\ \A k \in I : \E i \in DOMAIN t : t[i] = s[k]
<1>1. PICK g : Enumerates(g, t, s, I)
  BY SelectedIs DEF Enumerated
<1>2. IsSeq(t) /\ DOMAIN t = 1..Len(t)
  BY <1>1, SeqIs DEF Enumerates
<1>3. ASSUME NEW i \in DOMAIN t PROVE \E k \in I : t[i] = s[k]
  <2>1. g[i] \in I /\ t[i] = s[g[i]]
    BY <1>1, <1>2, <1>3 DEF Enumerates
  <2> QED  BY <2>1
<1>4. ASSUME NEW k \in I PROVE \E i \in DOMAIN t : t[i] = s[k]
  <2>1. PICK i \in 1..Len(t) : g[i] = k
    BY <1>1 DEF Enumerates
  <2>2. t[i] = s[k]
    BY <1>1, <2>1 DEF Enumerates
  <2> QED  BY <1>2, <2>1, <2>2
<1> QED  BY <1>2, <1>3, <1>4

LEMMA OneStep ==
  ASSUME NEW e
  PROVE  <<e>> # <<>> /\ Head(<<e>>) = e /\ Tail(<<e>>) = <<>>
  OBVIOUS

LEMMA TwoSteps ==
  ASSUME NEW e, NEW f
  PROVE  <<e, f>> # <<>> /\ Head(<<e, f>>) = e /\ Tail(<<e, f>>) = <<f>>
<1>1. <<e, f>> \in Seq({e, f})
  OBVIOUS
<1>2. <<e, f>> # <<>> /\ Head(<<e, f>>) = e
  OBVIOUS
<1> DEFINE s == <<e, f>>
           u == Tail(s)
<1>5. IsSeq(s) /\ Len(s) = 2 /\ s[2] = f /\ s # <<>>
  BY <1>2, SeqTwo
<1>3. IsSeq(u) /\ Len(u) = 1 /\ u[1] = f
  <2> HIDE DEF s
  <2> QED  BY <1>5, SeqTail
<1>4. u = <<f>>
  <2> HIDE DEF u
  <2>1. IsSeq(<<f>>) /\ Len(<<f>>) = 1 /\ <<f>>[1] = f
    BY SeqOne
  <2>2. \A i \in 1..Len(u) : u[i] = <<f>>[i]
    BY <1>3, <2>1
  <2> QED  BY <1>3, <2>1, <2>2, SeqSame
<1> QED  BY <1>2, <1>4

LEMMA ConcatNothing ==
  ASSUME NEW s, IsSeq(s)
  PROVE  s \o <<>> = s /\ <<>> \o s = s
<1>1. IsSeq(<<>>) /\ Len(<<>>) = 0
  BY SeqEmpty
<1>2. Len(s) \in Nat
  BY SeqIs
<1>3. IsSeq(s \o <<>>) /\ Len(s \o <<>>) = Len(s) /\ \A i \in 1..Len(s) : (s \o <<>>)[i] = s[i]
  BY <1>1, <1>2, SeqConcat
<1>4. IsSeq(<<>> \o s) /\ Len(<<>> \o s) = Len(s) /\ \A i \in 1..Len(s) : (<<>> \o s)[i] = s[i]
  <2>1. IsSeq(<<>> \o s) /\ Len(<<>> \o s) = 0 + Len(s)
        /\ \A i \in 1..Len(s) : (<<>> \o s)[0 + i] = s[i]
    BY <1>1, SeqConcat
  <2>2. \A i \in 1..Len(s) : 0 + i = i
    BY <1>2
  <2> QED  BY <1>2, <2>1, <2>2
<1>5. s \o <<>> = s
  BY <1>3, SeqSame
<1>6. <<>> \o s = s
  BY <1>4, SeqSame
<1> QED  BY <1>5, <1>6

-----------------------------------------------------------------------------
(* Sources.                                                                *)

SourceShape(s) ==
  /\ s = [steps |-> s.steps, due |-> s.due, tries |-> s.tries, asked |-> s.asked]
  /\ IsSeq(s.steps)
  /\ s.due = NotStarted \/ (s.due \in Nat /\ s.steps # <<>> /\ Head(s.steps).do = "Wait")

(* Where a source rests: at its end, at an item, or in a sleep not over.   *)
Resting(s, t) ==
  \/ s.steps = <<>>
  \/ /\ s.steps # <<>> /\ Head(s.steps).do \in {"Emit", "Hang"}
  \/ /\ s.steps # <<>> /\ Head(s.steps).do = "Wait"
     /\ s.due # NotStarted /\ ~ (s.due <= t)

LEMMA RestingStays ==
  ASSUME NEW s, NEW t, SourceShape(s), Resting(s, t)
  PROVE  SourceStep(s, t) = s
<1>1. CASE s.steps = <<>>
  BY <1>1 DEF SourceStep
<1>2. CASE s.steps # <<>> /\ Head(s.steps).do \in {"Emit", "Hang"}
  BY <1>2 DEF SourceStep
<1>3. CASE /\ s.steps # <<>> /\ Head(s.steps).do = "Wait"
           /\ s.due # NotStarted /\ ~ (s.due <= t)
  <2>1. SourceStep(s, t) = [s EXCEPT !.due = s.due]
    BY <1>3 DEF SourceStep
  <2> QED  BY <2>1 DEF SourceShape
<1> QED  BY <1>1, <1>2, <1>3 DEF Resting

(* A source that is a script: it drops its head, or starts or continues a  *)
(* sleep and then rests.                                                   *)
PlainState(s) == SourceShape(s) /\ Plain(s.steps)

LEMMA PlainTail ==
  ASSUME NEW steps, IsSeq(steps), steps # <<>>, Plain(steps)
  PROVE  /\ IsSeq(Tail(steps)) /\ Plain(Tail(steps)) /\ PlainStep(Head(steps))
         /\ Len(Tail(steps)) = Len(steps) - 1
<1>1. IsSeq(Tail(steps)) /\ Len(Tail(steps)) = Len(steps) - 1 /\ Len(steps) >= 1
      /\ Head(steps) = steps[1] /\ \A i \in 1..(Len(steps) - 1) : Tail(steps)[i] = steps[i + 1]
  BY SeqTail
<1>2. Len(steps) \in Nat /\ DOMAIN steps = 1..Len(steps)
  BY SeqIs
<1>3. (DOMAIN Tail(steps)) = 1..(Len(steps) - 1)
  BY <1>1, SeqIs
<1>4. \A i \in 1..(Len(steps) - 1) : PlainStep(Tail(steps)[i])
  BY <1>1, <1>2 DEF Plain
<1>5. PlainStep(Head(steps))
  BY <1>1, <1>2 DEF Plain
<1>6. Len(Tail(steps)) <= Fuel
  BY <1>1, <1>2, FuelAssumption DEF Plain
<1> QED  BY <1>1, <1>3, <1>4, <1>5, <1>6 DEF Plain

LEMMA PlainStepped ==
  ASSUME NEW s, NEW t \in Nat, PlainState(s)
  PROVE  /\ PlainState(SourceStep(s, t))
         /\ \/ Resting(SourceStep(s, t), t)
            \/ s.steps # <<>> /\ SourceStep(s, t).steps = Tail(s.steps)
         /\ SourceStep(s, t).steps \in {s.steps, Tail(s.steps)}
         /\ SourceStep(s, t).tries = s.tries /\ SourceStep(s, t).asked = s.asked
         /\ SourceStep(s, t).steps # s.steps => s.steps # <<>> /\ Head(s.steps).do = "Wait"
<1>1. CASE Resting(s, t)
  BY <1>1, RestingStays DEF PlainState
<1>2. CASE ~ Resting(s, t)
  <2>1. s.steps # <<>> /\ Head(s.steps).do \notin {"Emit", "Hang"}
    BY <1>2 DEF Resting
  <2>2. PlainStep(Head(s.steps)) /\ IsSeq(Tail(s.steps)) /\ Plain(Tail(s.steps))
    BY <2>1, PlainTail DEF PlainState, SourceShape
  <2>3. /\ Head(s.steps).do = "Wait" /\ Head(s.steps).time \in Nat
    BY <2>1, <2>2 DEF PlainStep, Hang, Emit
  <2> DEFINE due == IF s.due = NotStarted THEN t + Head(s.steps).time ELSE s.due
  <2>4. due \in Nat
    BY <2>3 DEF PlainState, SourceShape
  <2>5. CASE due <= t
    <3>1. SourceStep(s, t) = [s EXCEPT !.steps = Tail(s.steps), !.due = NotStarted]
      BY <2>1, <2>3, <2>5 DEF SourceStep
    <3>2. SourceStep(s, t) = [steps |-> Tail(s.steps), due |-> NotStarted, tries |-> s.tries, asked |-> s.asked]
      BY <3>1 DEF PlainState, SourceShape
    <3> QED  BY <2>1, <2>2, <2>3, <3>2 DEF PlainState, SourceShape
  <2>6. CASE ~ (due <= t)
    <3>1. SourceStep(s, t) = [s EXCEPT !.due = due]
      BY <2>1, <2>3, <2>6 DEF SourceStep
    <3>2. SourceStep(s, t) = [steps |-> s.steps, due |-> due, tries |-> s.tries, asked |-> s.asked]
      BY <3>1 DEF PlainState, SourceShape
    <3>3. due # NotStarted
      BY <2>4 DEF NotStarted
    <3> HIDE DEF due
    <3> QED  BY <2>1, <2>3, <2>4, <2>6, <3>2, <3>3 DEF PlainState, SourceShape, Resting
  <2> QED  BY <2>5, <2>6
<1> QED  BY <1>1, <1>2

(* A source that is a retry loop: attempt n of the policy is about to      *)
(* start, runs, has ended, or failed and backs off; or the loop has        *)
(* answered.  work bounds the steps it takes before it rests.              *)
Spaced(p, tries) ==
  /\ IsSeq(tries) /\ Len(tries) <= p.max
  /\ \A n \in 1..Len(tries) : tries[n] \in Nat
  /\ \A n \in 1..Len(tries) : n > 1 => tries[n] >= tries[n - 1] + p.takes[n - 1] + p.delay

AskedOf(p, asked) == asked \subseteq 1..(p.max - 1)

Trying(p, s, n) == s.steps = <<Try(p, n)>> /\ s.due = NotStarted /\ Len(s.tries) = n - 1

Attempting(p, s, n) ==
  /\ s.steps = <<Wait(p.takes[n]), Judge(p, n)>> /\ Len(s.tries) = n
  /\ s.due = NotStarted \/ s.due >= s.tries[n] + p.takes[n]

Judging(p, s, n) == s.steps = <<Judge(p, n)>> /\ s.due = NotStarted /\ Len(s.tries) = n

Backing(p, s, n) ==
  /\ n # p.max /\ ~p.ok[n] /\ p.again[n]
  /\ s.steps = <<Wait(p.delay), Try(p, n + 1)>> /\ Len(s.tries) = n
  /\ s.due = NotStarted \/ s.due >= s.tries[n] + p.takes[n] + p.delay

Answers(p, s, n) ==
  /\ s.due = NotStarted /\ Len(s.tries) = n
  /\ Decides(p, n) /\ s.steps = <<Emit(Verdict(p, n))>>

Answered(p, s, n) == s.due = NotStarted /\ Len(s.tries) = n /\ s.steps = <<>>

LoopPhase(p, s, t, n, work) ==
  \/ Trying(p, s, n) /\ (n > 1 => t >= s.tries[n - 1] + p.takes[n - 1] + p.delay)
     /\ work = 4 * (p.max - n) + 4
  \/ Attempting(p, s, n) /\ t >= s.tries[n] /\ work = 4 * (p.max - n) + 3
  \/ Judging(p, s, n) /\ t >= s.tries[n] + p.takes[n] /\ work = 4 * (p.max - n) + 2
  \/ Backing(p, s, n) /\ t >= s.tries[n] + p.takes[n] /\ work = 4 * (p.max - n) + 1
  \/ (Answers(p, s, n) \/ Answered(p, s, n)) /\ work = 0

(* Attempt n is reached past attempts that failed and could be retried.    *)
Retried(p, n) == \A m \in 1..(n - 1) : ~p.ok[m] /\ p.again[m]

LoopState(p, s, t, work) ==
  /\ SourceShape(s) /\ Spaced(p, s.tries) /\ AskedOf(p, s.asked)
  /\ \E n \in 1..p.max : Retried(p, n) /\ LoopPhase(p, s, t, n, work)

LEMMA RetriedNext ==
  ASSUME NEW p, NEW n \in Nat, Retried(p, n), ~p.ok[n], p.again[n]
  PROVE  Retried(p, n + 1)
<1>1. ASSUME NEW m \in 1..((n + 1) - 1) PROVE ~p.ok[m] /\ p.again[m]
  <2>1. m = n \/ m \in 1..(n - 1)
    OBVIOUS
  <2> QED  BY <2>1 DEF Retried
<1> QED  BY <1>1 DEF Retried

(* A verdict is a message, and no timeout's.                               *)
LEMMA VerdictIs ==
  ASSUME NEW p, NEW n
  PROVE  \E o \in {"ok", "exhausted", "stopped"} : Verdict(p, n) = Message(o, <<n>>)
  BY DEF Verdict

LEMMA LoopLater ==
  ASSUME NEW p, NEW s, NEW t \in Nat, NEW u \in Nat, NEW work, t <= u, PolicyOK(p),
         LoopState(p, s, t, work)
  PROVE  LoopState(p, s, u, work)
<1>1. PICK n \in 1..p.max : Retried(p, n) /\ LoopPhase(p, s, t, n, work)
  BY DEF LoopState
<1>2. p.delay \in Nat /\ p.max \in Nat /\ \A m \in 1..p.max : p.takes[m] \in Nat
  BY DEF PolicyOK
<1>3. \A m \in 1..Len(s.tries) : s.tries[m] \in Nat
  BY DEF LoopState, Spaced
<1>4. n \in Nat /\ n >= 1
  BY <1>2
<1>5. LoopPhase(p, s, u, n, work)
  <2>1. CASE Trying(p, s, n) /\ (n > 1 => t >= s.tries[n - 1] + p.takes[n - 1] + p.delay)
             /\ work = 4 * (p.max - n) + 4
    <3>1. n > 1 => u >= s.tries[n - 1] + p.takes[n - 1] + p.delay
      <4> SUFFICES ASSUME n > 1 PROVE u >= s.tries[n - 1] + p.takes[n - 1] + p.delay
        OBVIOUS
      <4>1. n - 1 \in 1..Len(s.tries) /\ n - 1 \in 1..p.max
        BY <1>2, <1>4, <2>1 DEF Trying
      <4>2. s.tries[n - 1] \in Nat /\ p.takes[n - 1] \in Nat
        BY <1>2, <1>3, <4>1
      <4> QED  BY <1>2, <2>1, <4>2
    <3> QED  BY <2>1, <3>1 DEF LoopPhase
  <2>2. ASSUME t >= s.tries[n] + p.takes[n], Len(s.tries) = n PROVE u >= s.tries[n] + p.takes[n]
    <3>1. s.tries[n] \in Nat /\ p.takes[n] \in Nat
      BY <1>2, <1>3, <1>4, <2>2
    <3> QED  BY <2>2, <3>1
  <2>3. CASE Attempting(p, s, n) /\ t >= s.tries[n] /\ work = 4 * (p.max - n) + 3
    <3>1. s.tries[n] \in Nat
      BY <1>2, <1>3, <1>4, <2>3 DEF Attempting
    <3>2. u >= s.tries[n]
      BY <2>3, <3>1
    <3> QED  BY <2>3, <3>2 DEF LoopPhase
  <2>4. CASE Judging(p, s, n) /\ t >= s.tries[n] + p.takes[n] /\ work = 4 * (p.max - n) + 2
    BY <2>2, <2>4 DEF LoopPhase, Judging
  <2>5. CASE Backing(p, s, n) /\ t >= s.tries[n] + p.takes[n] /\ work = 4 * (p.max - n) + 1
    BY <2>2, <2>5 DEF LoopPhase, Backing
  <2>6. CASE (Answers(p, s, n) \/ Answered(p, s, n)) /\ work = 0
    BY <2>6 DEF LoopPhase
  <2> QED  BY <1>1, <2>1, <2>3, <2>4, <2>5, <2>6 DEF LoopPhase
<1> QED  BY <1>1, <1>5 DEF LoopState

LEMMA SpacedNext ==
  ASSUME NEW p, NEW tries, NEW t \in Nat, Spaced(p, tries), PolicyOK(p), Len(tries) < p.max,
         Len(tries) > 0 => t >= tries[Len(tries)] + p.takes[Len(tries)] + p.delay
  PROVE  Spaced(p, Append(tries, t))
<1> DEFINE u == Append(tries, t)
           k == Len(tries)
<1>1. IsSeq(u) /\ Len(u) = k + 1 /\ u[k + 1] = t /\ k \in Nat /\ \A i \in 1..k : u[i] = tries[i]
  BY SeqAppend, SeqIs DEF Spaced
<1>2. \A n \in 1..k : tries[n] \in Nat
  BY DEF Spaced
<1>3. \A n \in 1..k : n > 1 => tries[n] >= tries[n - 1] + p.takes[n - 1] + p.delay
  BY DEF Spaced
<1>4. k > 0 => t >= tries[k] + p.takes[k] + p.delay
  OBVIOUS
<1>5. k < p.max /\ p.max \in Nat
  BY DEF PolicyOK
<1> HIDE DEF u, k
<1>6. \A n \in 1..(k + 1) : u[n] \in Nat
  BY <1>1, <1>2
<1>7. ASSUME NEW n \in 1..(k + 1), n > 1 PROVE u[n] >= u[n - 1] + p.takes[n - 1] + p.delay
  <2>1. CASE n = k + 1
    <3>1. k > 0 /\ n - 1 = k /\ u[k] = tries[k]
      BY <1>1, <1>7, <2>1
    <3> QED  BY <1>1, <1>4, <2>1, <3>1
  <2>2. CASE n # k + 1
    <3>1. n \in 1..k /\ n - 1 \in 1..k
      BY <1>1, <1>7, <2>2
    <3> QED  BY <1>1, <1>3, <1>7, <3>1
  <2> QED  BY <2>1, <2>2
<1> QED  BY <1>1, <1>5, <1>6, <1>7 DEF Spaced, u

LEMMA TryStep ==
  ASSUME NEW p, NEW s, NEW t \in Nat, NEW n \in 1..p.max, PolicyOK(p),
         SourceShape(s), Spaced(p, s.tries), AskedOf(p, s.asked), Retried(p, n), Trying(p, s, n),
         n > 1 => t >= s.tries[n - 1] + p.takes[n - 1] + p.delay
  PROVE  LoopState(p, SourceStep(s, t), t, 4 * (p.max - n) + 3)
<1> DEFINE new == <<Wait(p.takes[n]), Judge(p, n)>>
           u == SourceStep(s, t)
<1>1. s.steps # <<>> /\ Head(s.steps) = Try(p, n) /\ Tail(s.steps) = <<>>
  BY OneStep DEF Trying
<1>a. IsSeq(new) /\ new # <<>>
  BY SeqTwo, TwoSteps
<1>2. IsSeq(new) /\ new \o <<>> = new /\ new # <<>>
  <2> HIDE DEF new
  <2> QED  BY <1>a, ConcatNothing
<1>b. Head(s.steps).do = "Try" /\ Head(s.steps).policy = p /\ Head(s.steps).attempt = n
  BY <1>1 DEF Try
<1>3. u = [s EXCEPT !.steps = new \o Tail(s.steps), !.tries = Append(s.tries, t)]
  BY <1>1, <1>b DEF SourceStep
<1>4. u = [steps |-> new, due |-> NotStarted, tries |-> Append(s.tries, t), asked |-> s.asked]
  BY <1>1, <1>2, <1>3 DEF SourceShape, Trying
<1>5. p.max \in Nat /\ n \in Nat /\ Len(s.tries) = n - 1 /\ n <= p.max
  BY DEF PolicyOK, Trying
<1>6. Spaced(p, Append(s.tries, t)) /\ Len(Append(s.tries, t)) = n
  BY <1>5, SpacedNext, SeqAppend DEF Spaced
<1> HIDE DEF u, new
<1>7. SourceShape(u)
  BY <1>2, <1>4 DEF SourceShape
<1>8. Attempting(p, u, n) /\ t >= u.tries[n]
  <2>1. Append(s.tries, t)[n] = t
    BY <1>5, SeqAppend DEF Spaced
  <2> QED  BY <1>4, <1>6, <2>1 DEF Attempting, new
<1>9. AskedOf(p, u.asked) /\ Spaced(p, u.tries)
  BY <1>4, <1>6
<1> QED  BY <1>7, <1>8, <1>9 DEF LoopState, LoopPhase, u

LEMMA AttemptStep ==
  ASSUME NEW p, NEW s, NEW t \in Nat, NEW n \in 1..p.max, PolicyOK(p),
         SourceShape(s), Spaced(p, s.tries), AskedOf(p, s.asked), Retried(p, n), Attempting(p, s, n),
         t >= s.tries[n]
  PROVE  \/ LoopState(p, SourceStep(s, t), t, 4 * (p.max - n) + 2)
         \/ /\ LoopState(p, SourceStep(s, t), t, 4 * (p.max - n) + 3)
            /\ Resting(SourceStep(s, t), t)
<1> DEFINE u == SourceStep(s, t)
           due == IF s.due = NotStarted THEN t + p.takes[n] ELSE s.due
<1>1. /\ s.steps # <<>> /\ Head(s.steps) = Wait(p.takes[n])
      /\ Tail(s.steps) = <<Judge(p, n)>> /\ Len(s.tries) = n /\ IsSeq(Tail(s.steps))
  BY TwoSteps, SeqOne DEF Attempting
<1>2. p.takes[n] \in Nat /\ s.tries[n] \in Nat /\ n \in Nat /\ p.max \in Nat
  BY <1>1 DEF PolicyOK, Spaced
<1>3. due >= s.tries[n] + p.takes[n]
  BY <1>2 DEF SourceShape, Attempting, NotStarted
<1>4. due \in Nat
  BY <1>2 DEF SourceShape
<1>5. CASE due <= t
  <2>1. u = [s EXCEPT !.steps = Tail(s.steps), !.due = NotStarted]
    BY <1>1, <1>5 DEF SourceStep, Wait
  <2>2. u = [steps |-> <<Judge(p, n)>>, due |-> NotStarted, tries |-> s.tries, asked |-> s.asked]
    BY <1>1, <2>1 DEF SourceShape
  <2> HIDE DEF due, u
  <2>3. t >= s.tries[n] + p.takes[n]
    BY <1>2, <1>3, <1>4, <1>5
  <2>4. SourceShape(u) /\ Judging(p, u, n)
    BY <1>1, <2>2 DEF Judging, SourceShape
  <2>5. LoopPhase(p, u, t, n, 4 * (p.max - n) + 2)
    BY <2>2, <2>3, <2>4 DEF LoopPhase
  <2>6. Spaced(p, u.tries) /\ AskedOf(p, u.asked)
    BY <2>2
  <2> QED  BY <2>4, <2>5, <2>6 DEF LoopState, u
<1>6. CASE ~ (due <= t)
  <2>1. u = [s EXCEPT !.due = due]
    BY <1>1, <1>6 DEF SourceStep, Wait
  <2>2. u = [steps |-> s.steps, due |-> due, tries |-> s.tries, asked |-> s.asked]
    BY <2>1 DEF SourceShape
  <2> HIDE DEF due, u
  <2>3. due # NotStarted
    BY <1>4 DEF NotStarted
  <2>4. SourceShape(u) /\ Attempting(p, u, n) /\ Resting(u, t)
    BY <1>1, <1>3, <1>4, <1>6, <2>2, <2>3 DEF Attempting, SourceShape, Resting, Wait
  <2>5. LoopPhase(p, u, t, n, 4 * (p.max - n) + 3)
    BY <2>2, <2>4 DEF LoopPhase
  <2>6. Spaced(p, u.tries) /\ AskedOf(p, u.asked)
    BY <2>2
  <2> QED  BY <2>4, <2>5, <2>6 DEF LoopState, u
<1> QED  BY <1>5, <1>6

LEMMA JudgeStep ==
  ASSUME NEW p, NEW s, NEW t \in Nat, NEW n \in 1..p.max, PolicyOK(p),
         SourceShape(s), Spaced(p, s.tries), AskedOf(p, s.asked), Retried(p, n), Judging(p, s, n),
         t >= s.tries[n] + p.takes[n]
  PROVE  \/ LoopState(p, SourceStep(s, t), t, 4 * (p.max - n) + 1)
         \/ LoopState(p, SourceStep(s, t), t, 0) /\ Resting(SourceStep(s, t), t)
<1> DEFINE u == SourceStep(s, t)
           new == AfterAttempt(p, n)
           asked == IF AsksPredicate(p, n) THEN s.asked \cup {n} ELSE s.asked
<1>1. s.steps # <<>> /\ Head(s.steps) = Judge(p, n) /\ Tail(s.steps) = <<>>
  BY OneStep DEF Judging
<1>2. Head(s.steps).do = "Judge" /\ Head(s.steps).policy = p /\ Head(s.steps).attempt = n
  BY <1>1 DEF Judge
<1>3. u = [s EXCEPT !.steps = new \o Tail(s.steps), !.asked = asked]
  BY <1>1, <1>2 DEF SourceStep
<1>4. \/ Decides(p, n) /\ new = <<Emit(Verdict(p, n))>>
      \/ n # p.max /\ ~p.ok[n] /\ p.again[n] /\ new = <<Wait(p.delay), Try(p, n + 1)>>
  <2>1. CASE p.ok[n]
    BY <2>1 DEF AfterAttempt, Decides, Verdict, Retried
  <2>2. CASE ~ p.ok[n] /\ n = p.max
    BY <2>2 DEF AfterAttempt, Decides, Verdict, Retried
  <2>3. CASE ~ p.ok[n] /\ n # p.max /\ ~ p.again[n]
    BY <2>3 DEF AfterAttempt, Decides, Verdict, Retried
  <2>4. CASE ~ p.ok[n] /\ n # p.max /\ p.again[n]
    BY <2>4 DEF AfterAttempt
  <2> QED  BY <2>1, <2>2, <2>3, <2>4
<1>5. IsSeq(new) /\ new # <<>>
  <2> HIDE DEF new
  <2>1. \A e : IsSeq(<<e>>) /\ <<e>> # <<>>
    BY SeqOne, OneStep
  <2>2. \A e, f : IsSeq(<<e, f>>) /\ <<e, f>> # <<>>
    BY SeqTwo, TwoSteps
  <2> QED  BY <1>4, <2>1, <2>2
<1>6. p.max \in Nat /\ n \in Nat
  BY DEF PolicyOK
<1>7. AskedOf(p, asked)
  BY <1>6 DEF AskedOf, AsksPredicate
<1> HIDE DEF new, asked
<1>8. new \o <<>> = new
  BY <1>5, ConcatNothing
<1>9. u = [steps |-> new, due |-> NotStarted, tries |-> s.tries, asked |-> asked]
  BY <1>1, <1>3, <1>8 DEF SourceShape, Judging
<1> HIDE DEF u
<1>10. SourceShape(u) /\ Spaced(p, u.tries) /\ AskedOf(p, u.asked) /\ u.due = NotStarted
       /\ Len(u.tries) = n /\ u.tries = s.tries /\ u.steps = new
  BY <1>5, <1>7, <1>9 DEF SourceShape, Judging
<1>11. CASE n # p.max /\ ~p.ok[n] /\ p.again[n] /\ new = <<Wait(p.delay), Try(p, n + 1)>>
  <2>1. Backing(p, u, n)
    BY <1>10, <1>11 DEF Backing
  <2>2. LoopPhase(p, u, t, n, 4 * (p.max - n) + 1)
    BY <1>10, <2>1 DEF LoopPhase
  <2> QED  BY <1>10, <2>2 DEF LoopState, u
<1>12. CASE Decides(p, n) /\ new = <<Emit(Verdict(p, n))>>
  <2>1. Answers(p, u, n)
    BY <1>10, <1>12 DEF Answers
  <2>2. LoopPhase(p, u, t, n, 0)
    BY <2>1 DEF LoopPhase
  <2>3. u.steps # <<>> /\ Head(u.steps).do = "Emit"
    BY <1>10, <1>12, OneStep DEF Emit
  <2> QED  BY <1>10, <2>2, <2>3 DEF LoopState, Resting, u
<1> QED  BY <1>4, <1>11, <1>12

LEMMA BackoffStep ==
  ASSUME NEW p, NEW s, NEW t \in Nat, NEW n \in 1..p.max, PolicyOK(p),
         SourceShape(s), Spaced(p, s.tries), AskedOf(p, s.asked), Retried(p, n), Backing(p, s, n),
         t >= s.tries[n] + p.takes[n]
  PROVE  \/ LoopState(p, SourceStep(s, t), t, 4 * (p.max - n))
         \/ /\ LoopState(p, SourceStep(s, t), t, 4 * (p.max - n) + 1)
            /\ Resting(SourceStep(s, t), t)
<1> DEFINE u == SourceStep(s, t)
           due == IF s.due = NotStarted THEN t + p.delay ELSE s.due
<1>1. /\ s.steps # <<>> /\ Head(s.steps) = Wait(p.delay)
      /\ Tail(s.steps) = <<Try(p, n + 1)>> /\ Len(s.tries) = n /\ IsSeq(Tail(s.steps))
  BY TwoSteps, SeqOne DEF Backing
<1>2. /\ p.takes[n] \in Nat /\ s.tries[n] \in Nat /\ n \in Nat /\ p.max \in Nat /\ p.delay \in Nat
      /\ n + 1 \in 1..p.max
  BY <1>1 DEF PolicyOK, Spaced, Backing
<1>3. due >= s.tries[n] + p.takes[n] + p.delay
  BY <1>2 DEF SourceShape, Backing, NotStarted
<1>4. due \in Nat
  BY <1>2 DEF SourceShape
<1>5. CASE due <= t
  <2>1. u = [s EXCEPT !.steps = Tail(s.steps), !.due = NotStarted]
    BY <1>1, <1>5 DEF SourceStep, Wait
  <2>2. u = [steps |-> <<Try(p, n + 1)>>, due |-> NotStarted, tries |-> s.tries, asked |-> s.asked]
    BY <1>1, <2>1 DEF SourceShape
  <2> HIDE DEF due, u
  <2>3. t >= s.tries[n] + p.takes[n] + p.delay
    BY <1>2, <1>3, <1>4, <1>5
  <2>4. SourceShape(u) /\ Trying(p, u, n + 1)
    <3>1. (n + 1) - 1 = n
      BY <1>2
    <3> QED  BY <1>1, <2>2, <3>1, SeqOne DEF Trying, SourceShape
  <2>5. LoopPhase(p, u, t, n + 1, 4 * (p.max - n))
    <3>1. (n + 1) - 1 = n /\ 4 * (p.max - (n + 1)) + 4 = 4 * (p.max - n)
      <4> DEFINE x == p.max
      <4>1. n \in Int /\ x \in Int
        BY <1>2
      <4> HIDE DEF x
      <4>2. (n + 1) - 1 = n /\ 4 * (x - (n + 1)) + 4 = 4 * (x - n)
        BY ONLY <4>1
      <4> QED  BY <4>2 DEF x
    <3> QED  BY <2>2, <2>3, <2>4, <3>1 DEF LoopPhase
  <2>6. Spaced(p, u.tries) /\ AskedOf(p, u.asked)
    BY <2>2
  <2>7. Retried(p, n + 1)
    BY <1>2, RetriedNext DEF Backing
  <2> QED  BY <1>2, <2>4, <2>5, <2>6, <2>7 DEF LoopState, u
<1>6. CASE ~ (due <= t)
  <2>1. u = [s EXCEPT !.due = due]
    BY <1>1, <1>6 DEF SourceStep, Wait
  <2>2. u = [steps |-> s.steps, due |-> due, tries |-> s.tries, asked |-> s.asked]
    BY <2>1 DEF SourceShape
  <2> HIDE DEF due, u
  <2>3. due # NotStarted
    BY <1>4 DEF NotStarted
  <2>4. SourceShape(u) /\ Backing(p, u, n) /\ Resting(u, t)
    BY <1>1, <1>3, <1>4, <1>6, <2>2, <2>3 DEF Backing, SourceShape, Resting, Wait
  <2>5. LoopPhase(p, u, t, n, 4 * (p.max - n) + 1)
    BY <2>2, <2>4 DEF LoopPhase
  <2>6. Spaced(p, u.tries) /\ AskedOf(p, u.asked)
    BY <2>2
  <2> QED  BY <2>4, <2>5, <2>6 DEF LoopState, u
<1> QED  BY <1>5, <1>6

(* One step of a loop rests, or leaves less to do.                         *)
LEMMA LoopStepped ==
  ASSUME NEW p, NEW s, NEW t \in Nat, NEW work, PolicyOK(p), LoopState(p, s, t, work)
  PROVE  \E left \in Nat : /\ LoopState(p, SourceStep(s, t), t, left)
                           /\ left < work \/ Resting(SourceStep(s, t), t)
<1>1. PICK n \in 1..p.max : Retried(p, n) /\ LoopPhase(p, s, t, n, work)
  BY DEF LoopState
<1>2. SourceShape(s) /\ Spaced(p, s.tries) /\ AskedOf(p, s.asked) /\ Retried(p, n)
  BY <1>1 DEF LoopState
<1>3. p.max \in Nat /\ n \in Nat /\ p.max - n \in Nat
  BY DEF PolicyOK
<1>4. CASE Trying(p, s, n) /\ (n > 1 => t >= s.tries[n - 1] + p.takes[n - 1] + p.delay)
           /\ work = 4 * (p.max - n) + 4
  BY <1>2, <1>3, <1>4, TryStep
<1>5. CASE Attempting(p, s, n) /\ t >= s.tries[n] /\ work = 4 * (p.max - n) + 3
  <2>1. \/ LoopState(p, SourceStep(s, t), t, 4 * (p.max - n) + 2)
        \/ /\ LoopState(p, SourceStep(s, t), t, 4 * (p.max - n) + 3)
           /\ Resting(SourceStep(s, t), t)
    BY <1>2, <1>5, AttemptStep
  <2> QED  BY <1>3, <1>5, <2>1
<1>6. CASE Judging(p, s, n) /\ t >= s.tries[n] + p.takes[n] /\ work = 4 * (p.max - n) + 2
  <2>1. \/ LoopState(p, SourceStep(s, t), t, 4 * (p.max - n) + 1)
        \/ LoopState(p, SourceStep(s, t), t, 0) /\ Resting(SourceStep(s, t), t)
    BY <1>2, <1>6, JudgeStep
  <2> QED  BY <1>3, <1>6, <2>1
<1>7. CASE Backing(p, s, n) /\ t >= s.tries[n] + p.takes[n] /\ work = 4 * (p.max - n) + 1
  <2>1. \/ LoopState(p, SourceStep(s, t), t, 4 * (p.max - n))
        \/ /\ LoopState(p, SourceStep(s, t), t, 4 * (p.max - n) + 1)
           /\ Resting(SourceStep(s, t), t)
    BY <1>2, <1>7, BackoffStep
  <2> QED  BY <1>3, <1>7, <2>1
<1>8. CASE (Answers(p, s, n) \/ Answered(p, s, n)) /\ work = 0
  <2>1. Resting(s, t)
    BY <1>8, OneStep DEF Resting, Answers, Answered, Emit
  <2>2. SourceStep(s, t) = s
    BY <1>2, <2>1, RestingStays
  <2> QED  BY <1>8, <2>1, <2>2
<1> QED  BY <1>1, <1>4, <1>5, <1>6, <1>7, <1>8 DEF LoopPhase

(* A source as it runs, step by step.                                      *)
RestedWalk(f, s, t) ==
  /\ f[0] = s
  /\ \A k \in 1..Fuel : f[k] = SourceStep(f[k - 1], t)
  /\ Rested(s, t) = f[Fuel]

LEMMA RestedWalkExists ==
  ASSUME NEW s, NEW t
  PROVE  \E f : RestedWalk(f, s, t)
<1> DEFINE Then(k, v) == SourceStep(v, t)
           Body(f, m) == [k \in 0..m |-> IF k = 0 THEN s ELSE Then(k, f[k - 1])]
           A == {m \in Nat : ~ \E f : f = Body(f, m)}
<1>1. Fuel \in Nat
  BY FuelAssumption
<1>2. A = {}
  <2>1. ASSUME NEW m \in A PROVE \E j \in A : j < m
    <3>1. CASE m = 0
      <4> DEFINE f == [k \in 0..0 |-> s]
      <4>1. f = Body(f, m)
        BY <3>1
      <4> QED  BY <2>1, <4>1
    <3>2. CASE m # 0
      <4>1. m \in Nat /\ m - 1 \in Nat /\ m - 1 < m
        BY <2>1, <3>2
      <4>2. SUFFICES ASSUME m - 1 \notin A PROVE FALSE
        BY <4>1
      <4>3. PICK f : f = Body(f, m - 1)
        BY <4>1, <4>2
      <4> DEFINE g == [k \in 0..m |-> IF k = m THEN Then(m, f[m - 1]) ELSE f[k]]
      <4> HIDE DEF Then
      <4>4. \A k \in 0..m : g[k] = IF k = 0 THEN s ELSE Then(k, g[k - 1])
        BY <4>1, <4>3
      <4>5. g = Body(g, m)
        BY <4>4
      <4> QED  BY <2>1, <4>5
    <3> QED  BY <3>1, <3>2
  <2> QED  BY <2>1, NoFirst
<1>3. PICK made : made = Body(made, Fuel)
  BY <1>1, <1>2
<1> DEFINE F == CHOOSE f : f = Body(f, Fuel)
<1>4. F = Body(F, Fuel)
  BY <1>3
<1>5. Rested(s, t) = F[Fuel]
  BY DEF Rested
<1> HIDE DEF F, Then
<1>6. \A k \in 0..Fuel : F[k] = IF k = 0 THEN s ELSE Then(k, F[k - 1])
  BY <1>1, <1>4
<1>7. F[0] = s /\ \A k \in 1..Fuel : F[k] = Then(k, F[k - 1])
  BY <1>1, <1>6
<1> QED  BY <1>5, <1>7 DEF Then, RestedWalk


(* The script a source was made from, and what it may be at time t.        *)
SourceFrom(steps, s, t) ==
  \/ Plain(steps) /\ ~ Looping(steps) /\ PlainState(s)
  \/ Looping(steps) /\ \E work \in Nat : LoopState(steps[1].policy, s, t, work)

SourceAt(steps, s, t, k) ==
  \/ Plain(steps) /\ ~ Looping(steps) /\ PlainState(s) /\ (Resting(s, t) \/ Len(s.steps) + k <= Fuel)
  \/ /\ Looping(steps) /\ PolicyOK(steps[1].policy)
     /\ \E work \in Nat : /\ LoopState(steps[1].policy, s, t, work)
                          /\ Resting(s, t) \/ work + k <= Fuel

LEMMA SourceAtStart ==
  ASSUME NEW steps, NEW s, NEW t \in Nat, SourceFrom(steps, s, t)
  PROVE  SourceAt(steps, s, t, 0)
<1>1. CASE Plain(steps) /\ ~ Looping(steps) /\ PlainState(s)
  <2>1. Len(s.steps) \in Nat /\ Len(s.steps) <= Fuel
    BY <1>1, SeqIs DEF PlainState, SourceShape, Plain
  <2> QED  BY <1>1, <2>1 DEF SourceAt
<1>2. CASE Looping(steps) /\ \E work \in Nat : LoopState(steps[1].policy, s, t, work)
  <2> DEFINE p == steps[1].policy
  <2>1. PICK work \in Nat : LoopState(p, s, t, work)
    BY <1>2
  <2>2. PolicyOK(p) /\ p.max \in Nat /\ 4 * p.max <= Fuel
    BY <1>2 DEF Looping, PolicyOK
  <2>3. PICK n \in 1..p.max : LoopPhase(p, s, t, n, work)
    BY <2>1 DEF LoopState
  <2> HIDE DEF p
  <2>4. work <= 4 * p.max
    <3>1. n \in Nat /\ n >= 1 /\ n <= p.max
      BY <2>2
    <3>2. \A x, y \in Int : y >= 1 /\ y <= x =>
            /\ 4 * (x - y) + 4 <= 4 * x /\ 4 * (x - y) + 3 <= 4 * x
            /\ 4 * (x - y) + 2 <= 4 * x /\ 4 * (x - y) + 1 <= 4 * x /\ 0 <= 4 * x
      OBVIOUS
    <3> QED  BY <2>2, <2>3, <3>1, <3>2 DEF LoopPhase
  <2>5. work + 0 <= Fuel
    <3>1. \A x, y, z \in Int : x <= 4 * y /\ 4 * y <= z => x + 0 <= z
      OBVIOUS
    <3> QED  BY <2>2, <2>4, <3>1, FuelAssumption
  <2> QED  BY <1>2, <2>1, <2>2, <2>5 DEF SourceAt, p
<1> QED  BY <1>1, <1>2 DEF SourceFrom

LEMMA SourceAtNext ==
  ASSUME NEW steps, NEW s, NEW t \in Nat, NEW k \in Nat, SourceAt(steps, s, t, k)
  PROVE  SourceAt(steps, SourceStep(s, t), t, k + 1)
<1> DEFINE u == SourceStep(s, t)
<1>1. CASE Plain(steps) /\ ~ Looping(steps) /\ PlainState(s)
           /\ (Resting(s, t) \/ Len(s.steps) + k <= Fuel)
  <2>1. PlainState(u) /\ (Resting(u, t) \/ (s.steps # <<>> /\ u.steps = Tail(s.steps)))
    BY <1>1, PlainStepped
  <2>2. Resting(s, t) => u = s
    BY <1>1, RestingStays DEF PlainState
  <2> HIDE DEF u
  <2>3. CASE Resting(u, t)
    BY <1>1, <2>1, <2>3 DEF SourceAt, u
  <2>4. CASE ~ Resting(u, t)
    <3>1. IsSeq(s.steps) /\ s.steps # <<>> /\ u.steps = Tail(s.steps) /\ Len(s.steps) + k <= Fuel
      BY <1>1, <2>1, <2>2, <2>4 DEF PlainState, SourceShape
    <3>2. Len(u.steps) = Len(s.steps) - 1 /\ Len(s.steps) \in Nat
      BY <3>1, SeqTail, SeqIs
    <3>3. Len(u.steps) + (k + 1) <= Fuel
      <4> DEFINE x == Len(s.steps)
                 y == Len(u.steps)
      <4>1. x \in Nat /\ y = x - 1 /\ x + k <= Fuel
        BY <3>1, <3>2
      <4> HIDE DEF x, y
      <4>2. y + (k + 1) <= Fuel
        BY <4>1, FuelAssumption
      <4> QED  BY <4>2 DEF y
    <3> QED  BY <1>1, <2>1, <3>3 DEF SourceAt, u
  <2> QED  BY <2>3, <2>4
<1>2. CASE /\ Looping(steps) /\ PolicyOK(steps[1].policy)
           /\ \E work \in Nat : /\ LoopState(steps[1].policy, s, t, work)
                                /\ Resting(s, t) \/ work + k <= Fuel
  <2> DEFINE p == steps[1].policy
  <2>1. PICK work \in Nat : LoopState(p, s, t, work) /\ (Resting(s, t) \/ work + k <= Fuel)
    BY <1>2
  <2>2. PolicyOK(p)
    BY <1>2
  <2>3. Resting(s, t) => u = s
    BY <2>1, RestingStays DEF LoopState
  <2> HIDE DEF p
  <2>4. PICK left \in Nat : LoopState(p, u, t, left) /\ (left < work \/ Resting(u, t))
    BY <2>1, <2>2, LoopStepped
  <2> HIDE DEF u
  <2>5. Resting(u, t) \/ left + (k + 1) <= Fuel
    BY <2>1, <2>3, <2>4, FuelAssumption
  <2> QED  BY <1>2, <2>4, <2>5 DEF SourceAt, u, p
<1> QED  BY <1>1, <1>2 DEF SourceAt

(* Within Fuel steps a source comes to rest, and is still one of its kind. *)
LEMMA RestedRests ==
  ASSUME NEW steps, NEW s, NEW t \in Nat, SourceFrom(steps, s, t)
  PROVE  SourceFrom(steps, Rested(s, t), t) /\ Resting(Rested(s, t), t)
<1>1. PICK f : RestedWalk(f, s, t)
  BY RestedWalkExists
<1> DEFINE A == {k \in 0..Fuel : ~ SourceAt(steps, f[k], t, k)}
<1>2. f[0] = s /\ Rested(s, t) = f[Fuel] /\ \A k \in 1..Fuel : f[k] = SourceStep(f[k - 1], t)
  BY <1>1 DEF RestedWalk
<1>3. ASSUME NEW k \in A PROVE \E j \in A : j < k
  <2>1. CASE k = 0
    BY <1>2, <2>1, SourceAtStart
  <2>2. CASE k # 0
    <3>1. k \in 1..Fuel /\ k \in Nat /\ k - 1 \in Nat /\ k - 1 \in 0..Fuel /\ k - 1 < k /\ (k - 1) + 1 = k
      BY <2>2, FuelAssumption
    <3>2. SUFFICES ASSUME k - 1 \notin A PROVE FALSE
      BY <3>1
    <3>3. SourceAt(steps, f[k - 1], t, k - 1)
      BY <3>1, <3>2
    <3>4. SourceAt(steps, f[k], t, (k - 1) + 1)
      BY <1>2, <3>1, <3>3, SourceAtNext
    <3> QED  BY <3>1, <3>4
  <2> QED  BY <2>1, <2>2
<1>4. A = {}
  <2>1. A \subseteq Nat
    BY FuelAssumption
  <2> HIDE DEF A
  <2> QED  BY <1>3, <2>1, NoFirst
<1> DEFINE r == f[Fuel]
<1>5. SourceAt(steps, r, t, Fuel)
  BY <1>4, FuelAssumption
<1> HIDE DEF r
<1>6. SourceFrom(steps, r, t)
  BY <1>5 DEF SourceAt, SourceFrom
<1>7. Resting(r, t)
  <2>1. CASE PlainState(r) /\ Len(r.steps) + Fuel <= Fuel
    <3>1. r.steps = <<>>
      BY <2>1, SeqIs, SeqEmpty, FuelAssumption DEF PlainState, SourceShape
    <3> QED  BY <3>1 DEF Resting
  <2>2. CASE /\ PolicyOK(steps[1].policy)
             /\ \E work \in Nat : LoopState(steps[1].policy, r, t, work) /\ work + Fuel <= Fuel
    <3>1. PICK work \in Nat : LoopState(steps[1].policy, r, t, work) /\ work + Fuel <= Fuel
      BY <2>2
    <3>2. PICK n \in 1..steps[1].policy.max : LoopPhase(steps[1].policy, r, t, n, work)
      BY <3>1 DEF LoopState
    <3>3. work = 0
      BY <3>1, FuelAssumption
    <3>4. Answers(steps[1].policy, r, n) \/ Answered(steps[1].policy, r, n)
      <4>1. steps[1].policy.max \in Nat
        BY <2>2 DEF PolicyOK
      <4> QED  BY <3>2, <3>3, <4>1 DEF LoopPhase
    <3> QED  BY <3>4, OneStep DEF Resting, Answers, Answered, Emit
  <2> QED  BY <1>5, <2>1, <2>2 DEF SourceAt
<1> QED  BY <1>2, <1>6, <1>7 DEF r

LEMMA SourceLater ==
  ASSUME NEW steps, NEW s, NEW t \in Nat, NEW u \in Nat, t <= u, SourceFrom(steps, s, t)
  PROVE  SourceFrom(steps, s, u)
<1>1. CASE Plain(steps) /\ ~ Looping(steps) /\ PlainState(s)
  BY <1>1 DEF SourceFrom
<1>2. CASE Looping(steps) /\ \E work \in Nat : LoopState(steps[1].policy, s, t, work)
  <2>1. PICK work \in Nat : LoopState(steps[1].policy, s, t, work)
    BY <1>2
  <2>2. PolicyOK(steps[1].policy)
    BY <1>2 DEF Looping
  <2>3. LoopState(steps[1].policy, s, u, work)
    BY <2>1, <2>2, LoopLater
  <2> QED  BY <1>2, <2>3 DEF SourceFrom
<1> QED  BY <1>1, <1>2 DEF SourceFrom

LEMMA SourceFromShape ==
  ASSUME NEW steps, NEW s, NEW t, SourceFrom(steps, s, t)
  PROVE  SourceShape(s)
  BY DEF SourceFrom, PlainState, LoopState

LEMMA AnswersDiffer ==
  /\ End # Pending /\ End # Quit /\ Pending # Quit
  /\ End.kind = "End" /\ Pending.kind = "Pending" /\ Quit.kind = "Quit"
  /\ End.of = "" /\ Pending.of = "" /\ Quit.of = ""
<1>1. End.kind = "End" /\ End.of = ""
  BY DEF End, Answer
<1>2. Pending.kind = "Pending" /\ Pending.of = ""
  BY DEF Pending, Answer
<1>3. Quit.kind = "Quit" /\ Quit.of = ""
  BY DEF Quit, Answer
<1> QED  BY <1>1, <1>2, <1>3

LEMMA MessageFields ==
  ASSUME NEW o, NEW n, NEW m, m = Message(o, n)
  PROVE  /\ m.kind = "Message" /\ m.of = o /\ m.n = n
         /\ m # End /\ m # Pending /\ m # Quit
<1>1. m.kind = "Message" /\ m.of = o /\ m.n = n
  BY DEF Message, Answer
<1> QED  BY <1>1, AnswersDiffer

LEMMA EmitFields ==
  ASSUME NEW x
  PROVE  Emit(x).do = "Emit" /\ Emit(x).answer = x
  BY DEF Emit

(* What a poll of a source says.                                           *)
Said(out) == out = End \/ out = Pending \/ out = Quit \/ out = Message(out.of, out.n)

LEMMA SaidMessage ==
  ASSUME NEW o, NEW n, NEW m, m = Message(o, n)
  PROVE  Said(m) /\ m.of = o /\ m \notin {End, Pending}
  BY MessageFields DEF Said

(* What a loop says is the verdict of the attempt that ends it.            *)
Truthful(steps, out) ==
  Looping(steps) => \E n \in 1..steps[1].policy.max :
                      Decides(steps[1].policy, n) /\ out = Verdict(steps[1].policy, n)

LEMMA Yielded ==
  ASSUME NEW steps, NEW s, NEW t \in Nat, SourceFrom(steps, s, t), Resting(s, t),
         NEW y, y = Yield(s)
  PROVE  /\ Resting(y.src, t) \/ y.out \notin {End, Pending}
         /\ SourceFrom(steps, y.src, t)
         /\ Said(y.out) /\ y.out.of # "timeout"
         /\ y.out = End => s.steps = <<>> /\ y.src = s
         /\ y.out = Pending => s.steps # <<>> /\ Head(s.steps).do # "Emit" /\ y.src = s
         /\ y.out \notin {End, Pending} => /\ s.steps # <<>> /\ Head(s.steps).do = "Emit"
                                           /\ y.out = Head(s.steps).answer
                                           /\ y.src.steps = Tail(s.steps)
                                           /\ Truthful(steps, y.out)
<1>1. SourceShape(s)
  BY SourceFromShape
<1>2. CASE s.steps = <<>>
  <2>1. y.src = s /\ y.out = End
    BY <1>2 DEF Yield
  <2> QED  BY <1>2, <2>1, AnswersDiffer DEF Said
<1>3. CASE s.steps # <<>> /\ Head(s.steps).do # "Emit"
  <2>1. y.src = s /\ y.out = Pending
    BY <1>3 DEF Yield
  <2> QED  BY <1>3, <2>1, AnswersDiffer DEF Said
<1>4. CASE s.steps # <<>> /\ Head(s.steps).do = "Emit"
  <2>1. y.src = [s EXCEPT !.steps = Tail(s.steps)] /\ y.out = Head(s.steps).answer
    BY <1>4 DEF Yield
  <2>2. s.due = NotStarted
    BY <1>1, <1>4 DEF SourceShape
  <2>3. y.src = [steps |-> Tail(s.steps), due |-> NotStarted, tries |-> s.tries, asked |-> s.asked]
    BY <1>1, <2>1, <2>2 DEF SourceShape
  <2>4. IsSeq(Tail(s.steps))
    BY <1>1, <1>4, SeqTail DEF SourceShape
  <2>5. SourceShape(y.src)
    BY <2>3, <2>4 DEF SourceShape
  <2>6. CASE Plain(steps) /\ ~ Looping(steps) /\ PlainState(s)
    <3>1. Plain(Tail(s.steps)) /\ PlainStep(Head(s.steps))
      BY <1>4, <2>6, PlainTail DEF PlainState, SourceShape
    <3>2. PlainAnswer(Head(s.steps).answer)
      BY <1>4, <3>1 DEF PlainStep, Hang
    <3>3. SourceFrom(steps, y.src, t)
      <4>1. y.src.steps = Tail(s.steps)
        BY <2>3
      <4>2. PlainState(y.src)
        BY <2>5, <3>1, <4>1 DEF PlainState
      <4> QED  BY <2>6, <4>2 DEF SourceFrom
    <3>4. Said(y.out) /\ y.out.of # "timeout" /\ y.out \notin {End, Pending}
      <4>1. PlainAnswer(y.out)
        BY <2>1, <3>2
      <4>2. y.out = Quit => Said(y.out) /\ y.out.of # "timeout" /\ y.out \notin {End, Pending}
        BY AnswersDiffer DEF Said
      <4>3. ASSUME y.out = Message(y.out.of, y.out.n)
            PROVE  Said(y.out) /\ y.out \notin {End, Pending}
        BY <4>3, SaidMessage
      <4> QED  BY <4>1, <4>2, <4>3 DEF PlainAnswer
    <3> QED  BY <1>4, <2>1, <2>3, <2>6, <3>3, <3>4 DEF Truthful
  <2>7. CASE Looping(steps) /\ \E work \in Nat : LoopState(steps[1].policy, s, t, work)
    <3> DEFINE p == steps[1].policy
    <3>1. PICK work \in Nat : LoopState(p, s, t, work)
      BY <2>7
    <3>2. PICK n \in 1..p.max : Retried(p, n) /\ LoopPhase(p, s, t, n, work)
      BY <3>1 DEF LoopState
    <3> HIDE DEF p
    <3>3. Answers(p, s, n)
      BY <1>4, <3>2, OneStep, TwoSteps
      DEF LoopPhase, Trying, Attempting, Judging, Backing, Answered, Try, Wait, Judge
    <3>4. s.steps = <<Emit(Verdict(p, n))>> /\ Decides(p, n)
      BY <3>3 DEF Answers
    <3>5. Head(s.steps) = Emit(Verdict(p, n)) /\ Tail(s.steps) = <<>>
      BY <3>4, OneStep
    <3>a. y.out = Verdict(p, n)
      BY <2>1, <3>5 DEF Emit
    <3>6. PICK o \in {"ok", "exhausted", "stopped"} : y.out = Message(o, <<n>>)
      BY <3>a, VerdictIs
    <3>7. Said(y.out) /\ y.out.of # "timeout" /\ y.out \notin {End, Pending}
      <4>1. Said(y.out) /\ y.out.of = o /\ y.out \notin {End, Pending}
        BY <3>6, SaidMessage
      <4> QED  BY <4>1
    <3>8. Answered(p, y.src, n) /\ Spaced(p, y.src.tries) /\ AskedOf(p, y.src.asked)
      BY <2>3, <3>1, <3>3, <3>5 DEF Answered, Answers, LoopState
    <3>9. LoopState(p, y.src, t, 0)
      BY <2>5, <3>2, <3>8 DEF LoopState, LoopPhase
    <3>10. SourceFrom(steps, y.src, t)
      BY <2>7, <3>9 DEF SourceFrom, p
    <3>11. Truthful(steps, y.out)
      BY <3>a, <3>4 DEF Truthful, p
    <3> QED  BY <1>4, <2>1, <2>3, <3>7, <3>10, <3>11
  <2> QED  BY <2>6, <2>7 DEF SourceFrom
<1> QED  BY <1>2, <1>3, <1>4

LEMMA RestedStays ==
  ASSUME NEW s, NEW t, SourceShape(s), Resting(s, t)
  PROVE  Rested(s, t) = s
<1>1. PICK f : RestedWalk(f, s, t)
  BY RestedWalkExists
<1> DEFINE A == {k \in 0..Fuel : f[k] # s}
<1>2. f[0] = s /\ Rested(s, t) = f[Fuel] /\ \A k \in 1..Fuel : f[k] = SourceStep(f[k - 1], t)
  BY <1>1 DEF RestedWalk
<1>3. ASSUME NEW k \in A PROVE \E j \in A : j < k
  <2>1. k \in 1..Fuel /\ k - 1 \in 0..Fuel /\ k - 1 < k
    BY <1>2, FuelAssumption
  <2>2. SUFFICES ASSUME k - 1 \notin A PROVE FALSE
    BY <2>1
  <2>3. f[k - 1] = s
    BY <2>1, <2>2
  <2>4. f[k] = s
    BY <1>2, <2>1, <2>3, RestingStays
  <2> QED  BY <2>4
<1>4. A = {}
  <2>1. A \subseteq Nat
    BY FuelAssumption
  <2> HIDE DEF A
  <2> QED  BY <1>3, <2>1, NoFirst
<1> QED  BY <1>2, <1>4, FuelAssumption

(* One poll of a source; and a second poll at the same time finds it as    *)
(* the first left it, when the first found nothing to deliver.             *)
LEMMA SourcePolled ==
  ASSUME NEW steps, NEW s, NEW t \in Nat, SourceFrom(steps, s, t), NEW y, y = PollSource(s, t)
  PROVE  /\ SourceFrom(steps, y.src, t)
         /\ Said(y.out) /\ y.out.of # "timeout"
         /\ y.out \in {End, Pending} => PollSource(y.src, t) = y
<1>1. SourceFrom(steps, Rested(s, t), t) /\ Resting(Rested(s, t), t)
  BY RestedRests
<1> DEFINE r == Rested(s, t)
<1>2. y = Yield(r)
  BY DEF PollSource
<1> HIDE DEF r
<1>3. SourceFrom(steps, y.src, t) /\ Said(y.out) /\ y.out.of # "timeout"
  BY <1>1, <1>2, Yielded DEF r
<1>4. ASSUME y.out \in {End, Pending} PROVE PollSource(y.src, t) = y
  <2>1. y.src = r
    BY <1>1, <1>2, <1>4, Yielded DEF r
  <2>2. Rested(r, t) = r
    BY <1>1, SourceFromShape, RestedStays DEF r
  <2> QED  BY <1>2, <2>1, <2>2 DEF PollSource
<1> QED  BY <1>3, <1>4

-----------------------------------------------------------------------------
(* Timeout layers.                                                         *)

LayerFields == {"duration", "call", "deadline", "observed", "open", "late", "cut"}

RunFields == {"src", "layers", "layer", "spent", "fired", "out"}

LayerShape(l) == (DOMAIN l) = LayerFields /\ l.observed \in BOOLEAN /\ l.open \in BOOLEAN

(* m is layer l with its sleep started.                                    *)
Started(l, d, m) ==
  /\ (DOMAIN m) = LayerFields /\ m.duration = l.duration /\ m.call = l.call /\ m.deadline = d

Quietly(r, q) == q.spent = r.spent /\ q.fired = r.fired

(* What one poll of an open layer does, by what the inner stream said.     *)
InnerEnded(l, d, r, q) ==
  /\ r.out = End /\ q.out = End /\ Quietly(r, q) /\ Started(l, d, q.layer)
  /\ q.layer.observed = l.observed /\ q.layer.open = FALSE
  /\ q.layer.late = l.late /\ q.layer.cut = l.cut

DeadlineTaken(l, d, r, q) ==
  /\ Started(l, d, q.layer)
  /\ q.layer.observed = l.observed /\ q.layer.open = FALSE
  /\ q.layer.late = l.late /\ q.layer.cut = r.out
  /\ q.spent = r.spent \cup {l.call}
  /\ \/ l.call \in r.spent /\ q.fired = r.fired /\ q.out = End
     \/ /\ l.call \notin r.spent /\ q.fired = Append(r.fired, l.call)
        /\ q.out = Message("timeout", l.call)

CutShort(l, d, r, t, q) ==
  r.out # End /\ (l.observed \/ d <= t) /\ DeadlineTaken(l, d, r, q)

QuitPassed(l, d, r, q) ==
  /\ r.out = Quit /\ ~ l.observed /\ q.out = Quit /\ Quietly(r, q) /\ Started(l, d, q.layer)
  /\ q.layer.observed = l.observed /\ q.layer.open = FALSE
  /\ q.layer.late \in {l.late, l.late + 1} /\ q.layer.cut = l.cut

ItemPassed(l, d, r, t, q) ==
  /\ r.out.kind = "Message" /\ ~ l.observed /\ q.out = r.out
  /\ Quietly(r, q) /\ Started(l, d, q.layer)
  /\ q.layer.open = l.open /\ q.layer.cut = l.cut
  /\ \/ d <= t /\ q.layer.observed = TRUE /\ q.layer.late = l.late + 1
     \/ ~ (d <= t) /\ q.layer.observed = FALSE /\ q.layer.late = l.late

StillWaits(l, d, r, t, q) ==
  /\ r.out = Pending /\ ~ l.observed /\ ~ (d <= t) /\ q.out = Pending
  /\ Quietly(r, q) /\ Started(l, d, q.layer)
  /\ q.layer.observed = l.observed /\ q.layer.open = l.open
  /\ q.layer.late = l.late /\ q.layer.cut = l.cut

RunShape(r) == (DOMAIN r) = RunFields

LEMMA CutShortIs ==
  ASSUME NEW l, NEW m, NEW d, NEW r, RunShape(r), NEW q, Started(l, d, m),
         m.observed = l.observed, m.late = l.late,
         q = TakeDeadlinePath(m, r)
  PROVE  RunShape(q) /\ q.src = r.src /\ q.layers = r.layers /\ DeadlineTaken(l, d, r, q)
<1> DEFINE n == [Finish(m) EXCEPT !.cut = r.out]
<1>1. /\ Started(l, d, n) /\ n.observed = l.observed /\ n.open = FALSE
      /\ n.late = l.late /\ n.cut = r.out
  BY DEF Started, Finish, LayerFields
<1>2. m.call = l.call
  BY DEF Started
<1>3. q = [r EXCEPT !.layer = n, !.spent = TakeFactory(@, l.call),
                    !.fired = IF l.call \in r.spent THEN @ ELSE Append(@, l.call),
                    !.out = IF l.call \in r.spent THEN End ELSE Message("timeout", l.call)]
  BY <1>2 DEF TakeDeadlinePath
<1> HIDE DEF n
<1>4. CASE l.call \in r.spent
  <2>1. q = [r EXCEPT !.layer = n, !.spent = TakeFactory(@, l.call), !.fired = @, !.out = End]
    BY <1>3, <1>4
  <2>2. /\ RunShape(q) /\ q.src = r.src /\ q.layers = r.layers /\ q.layer = n
        /\ q.spent = r.spent \cup {l.call} /\ q.fired = r.fired /\ q.out = End
    BY <2>1 DEF RunShape, RunFields, TakeFactory
  <2> QED  BY <1>1, <1>4, <2>2 DEF DeadlineTaken
<1>5. CASE l.call \notin r.spent
  <2>1. q = [r EXCEPT !.layer = n, !.spent = TakeFactory(@, l.call), !.fired = Append(@, l.call),
                      !.out = Message("timeout", l.call)]
    BY <1>3, <1>5
  <2>2. /\ RunShape(q) /\ q.src = r.src /\ q.layers = r.layers /\ q.layer = n
        /\ q.spent = r.spent \cup {l.call} /\ q.fired = Append(r.fired, l.call)
        /\ q.out = Message("timeout", l.call)
    BY <2>1 DEF RunShape, RunFields, TakeFactory
  <2> QED  BY <1>1, <1>5, <2>2 DEF DeadlineTaken
<1> QED  BY <1>4, <1>5

LEMMA LayerReplaced ==
  ASSUME NEW r, RunShape(r), NEW n, NEW q, q = [r EXCEPT !.layer = n]
  PROVE  /\ RunShape(q) /\ q.src = r.src /\ q.layers = r.layers /\ q.layer = n
         /\ Quietly(r, q) /\ q.out = r.out
  BY DEF RunShape, RunFields, Quietly

LEMMA LayerPolled ==
  ASSUME NEW l, NEW r, NEW t \in Nat, RunShape(r), LayerShape(l), Said(r.out),
         NEW d \in Int, d = DeadlineOf(l, t), NEW q, q = PollLayer(l, r, t)
  PROVE  /\ RunShape(q) /\ q.src = r.src /\ q.layers = r.layers
         /\ \/ InnerEnded(l, d, r, q) \/ CutShort(l, d, r, t, q) \/ QuitPassed(l, d, r, q)
            \/ ItemPassed(l, d, r, t, q) \/ StillWaits(l, d, r, t, q)
<1> DEFINE m == [l EXCEPT !.deadline = d]
<1>1. /\ Started(l, d, m) /\ m.observed = l.observed /\ m.open = l.open
      /\ m.late = l.late /\ m.cut = l.cut
  BY DEF LayerShape, Started, LayerFields
<1>2. q = AnswerOf(m, r, d <= t)
  BY DEF PollLayer
<1> HIDE DEF m
<1>3. (DOMAIN m) = LayerFields
  BY <1>1 DEF Started
<1>4. r.out = End \/ r.out = Pending \/ r.out = Quit \/ r.out.kind = "Message"
  BY MessageFields DEF Said
<1>5. r.out = End => r.out.kind # "Message" /\ r.out # Pending /\ r.out # Quit
  BY AnswersDiffer
<1>6. r.out = Pending => r.out.kind # "Message" /\ r.out # End /\ r.out # Quit
  BY AnswersDiffer
<1>7. r.out = Quit => r.out.kind # "Message" /\ r.out # End /\ r.out # Pending
  BY AnswersDiffer
<1>a. r.out.kind = "Message" => r.out # End /\ r.out # Pending /\ r.out # Quit
  BY AnswersDiffer
<1>8. CASE r.out = End
  <2> DEFINE n == Finish(m)
  <2>1. q = [r EXCEPT !.layer = n]
    BY <1>2, <1>5, <1>8 DEF AnswerOf
  <2>2. /\ Started(l, d, n) /\ n.observed = l.observed /\ n.open = FALSE
        /\ n.late = l.late /\ n.cut = l.cut
    BY <1>1 DEF Started, Finish, LayerFields
  <2> HIDE DEF n
  <2> QED  BY <1>8, <2>1, <2>2, LayerReplaced DEF InnerEnded
<1>9. CASE r.out # End /\ l.observed
  <2>1. q = TakeDeadlinePath(m, r)
    BY <1>1, <1>2, <1>9 DEF AnswerOf
  <2>2. RunShape(q) /\ q.src = r.src /\ q.layers = r.layers /\ DeadlineTaken(l, d, r, q)
    BY <1>1, <2>1, CutShortIs
  <2> QED  BY <1>9, <2>2 DEF CutShort
<1>10. CASE r.out = Pending /\ ~ l.observed /\ d <= t
  <2>1. q = AnswerOf(m, r, TRUE)
    BY <1>2, <1>10
  <2>2. q = TakeDeadlinePath(m, r)
    BY <1>1, <1>6, <1>10, <2>1 DEF AnswerOf
  <2>3. RunShape(q) /\ q.src = r.src /\ q.layers = r.layers /\ DeadlineTaken(l, d, r, q)
    BY <1>1, <2>2, CutShortIs
  <2> QED  BY <1>6, <1>10, <2>3 DEF CutShort
<1>11. CASE r.out = Pending /\ ~ l.observed /\ ~ (d <= t)
  <2>2. q = [r EXCEPT !.layer = m]
    BY <1>1, <1>2, <1>6, <1>11 DEF AnswerOf
  <2> QED  BY <1>1, <1>11, <2>2, LayerReplaced DEF StillWaits
<1>12. CASE r.out = Quit /\ ~ l.observed
  <2> DEFINE c == CountLate(m, d <= t)
             n == Finish(c)
  <2>1. q = [r EXCEPT !.layer = n]
    BY <1>1, <1>2, <1>7, <1>12 DEF AnswerOf
  <2>2. /\ (DOMAIN c) = LayerFields /\ c.duration = l.duration /\ c.call = l.call /\ c.deadline = d
        /\ c.observed = l.observed /\ c.late \in {l.late, l.late + 1} /\ c.cut = l.cut
    <3>1. CASE d <= t
      <4>1. c = CountLate(m, TRUE)
        BY <3>1
      <4>2. c = [m EXCEPT !.late = @ + 1]
        BY <4>1 DEF CountLate
      <4> HIDE DEF c
      <4> QED  BY <1>1, <4>2 DEF Started, LayerFields
    <3>2. CASE ~ (d <= t)
      <4>2. c = [m EXCEPT !.late = @]
        BY <3>2 DEF CountLate
      <4> HIDE DEF c
      <4> QED  BY <1>1, <4>2 DEF Started, LayerFields
    <3> QED  BY <3>1, <3>2
  <2> HIDE DEF c
  <2>3. /\ Started(l, d, n) /\ n.observed = l.observed /\ n.open = FALSE
        /\ n.late \in {l.late, l.late + 1} /\ n.cut = l.cut
    BY <2>2 DEF Started, Finish, LayerFields
  <2> HIDE DEF n
  <2> QED  BY <1>12, <2>1, <2>3, LayerReplaced DEF QuitPassed
<1>13. CASE r.out.kind = "Message" /\ ~ l.observed
  <2> DEFINE c == CountLate(m, d <= t)
             n == ObserveDeadline(c, d <= t)
  <2>1. q = [r EXCEPT !.layer = n]
    BY <1>1, <1>2, <1>a, <1>13 DEF AnswerOf
  <2>2. CASE d <= t
    <3>1. n = ObserveDeadline(CountLate(m, TRUE), TRUE)
      BY <2>2
    <3>2. n = [[m EXCEPT !.late = @ + 1] EXCEPT !.observed = TRUE]
      BY <3>1 DEF ObserveDeadline, CountLate
    <3> HIDE DEF n, c
    <3>3. /\ Started(l, d, n) /\ n.observed = TRUE /\ n.open = l.open
          /\ n.late = l.late + 1 /\ n.cut = l.cut
      BY <1>1, <3>2 DEF Started, LayerFields
    <3> QED  BY <1>13, <2>1, <2>2, <3>3, LayerReplaced DEF ItemPassed
  <2>3. CASE ~ (d <= t)
    <3>1. c = [m EXCEPT !.late = @]
      BY <2>3 DEF CountLate
    <3>a. n = [c EXCEPT !.observed = FALSE]
      <4> HIDE DEF c
      <4> DEFINE due == d <= t
      <4>1. due = FALSE
        BY <2>3
      <4>2. n = [c EXCEPT !.observed = due]
        BY DEF ObserveDeadline
      <4> HIDE DEF due, n
      <4> QED  BY <4>1, <4>2
    <3>2. n = [[m EXCEPT !.late = @] EXCEPT !.observed = FALSE]
      BY <3>1, <3>a
    <3> HIDE DEF n, c
    <3>3. /\ Started(l, d, n) /\ n.observed = FALSE /\ n.open = l.open
          /\ n.late = l.late /\ n.cut = l.cut
      BY <1>1, <3>2 DEF Started, LayerFields
    <3> QED  BY <1>13, <2>1, <2>3, <3>3, LayerReplaced DEF ItemPassed
  <2> QED  BY <2>2, <2>3
<1> QED  BY <1>4, <1>8, <1>9, <1>10, <1>11, <1>12, <1>13

(* What is left of layer base of a leaf enqueued at time b, at time t.     *)
LayerState(base, l, b, t) ==
  /\ LayerShape(l) /\ l.duration = base.duration /\ l.call = base.call
  /\ l.deadline = NotStarted \/ l.deadline = b + base.duration
  /\ l.late = 0 \/ (l.late = 1 /\ (l.observed \/ ~ l.open))
  /\ l.cut # End
  /\ l.observed => l.deadline # NotStarted /\ l.deadline <= t

(* The layer is closed and its deadline has passed.                        *)
Expired(l, t) == ~ l.open /\ l.deadline # NotStarted /\ l.deadline <= t

FiredOK(calls, closures) ==
  IsSeq(calls) /\ Injective(calls) /\ \A i \in DOMAIN calls : calls[i] \in closures

LEMMA FiredNext ==
  ASSUME NEW calls, NEW closures, NEW call, FiredOK(calls, closures)
  PROVE  /\ FiredOK(calls, closures \cup {call})
         /\ call \notin closures => FiredOK(Append(calls, call), closures \cup {call})
<1>1. FiredOK(calls, closures \cup {call})
  BY DEF FiredOK
<1>2. ASSUME call \notin closures PROVE FiredOK(Append(calls, call), closures \cup {call})
  <2> DEFINE u == Append(calls, call)
             n == Len(calls)
  <2>1. IsSeq(u) /\ Len(u) = n + 1 /\ u[n + 1] = call /\ n \in Nat /\ \A i \in 1..n : u[i] = calls[i]
    BY SeqAppend, SeqIs DEF FiredOK
  <2>2. DOMAIN calls = 1..n /\ DOMAIN u = 1..(n + 1)
    BY <2>1, SeqIs DEF FiredOK
  <2>3. \A i \in 1..n : calls[i] \in closures
    BY <2>2 DEF FiredOK
  <2>4. \A i, j \in 1..n : calls[i] = calls[j] => i = j
    BY <2>2 DEF FiredOK, Injective
  <2>5. \A i \in 1..(n + 1) : i = n + 1 \/ i \in 1..n
    BY <2>1
  <2> HIDE DEF u, n
  <2>6. \A i \in 1..(n + 1) : u[i] \in closures \cup {call}
    BY <2>1, <2>3, <2>5
  <2>7. \A i, j \in 1..(n + 1) : u[i] = u[j] => i = j
    BY <1>2, <2>1, <2>3, <2>4, <2>5
  <2>8. Injective(u)
    BY <2>2, <2>7 DEF Injective
  <2> QED  BY <2>1, <2>2, <2>6, <2>8 DEF FiredOK, u
<1> QED  BY <1>1, <1>2

LayerReady(base, l, b, t) ==
  /\ LayerState(base, l, b, t) /\ base.duration \in Nat /\ (l.deadline = NotStarted => t = b) /\ l.open

RunReady(r) == RunShape(r) /\ Said(r.out) /\ FiredOK(r.fired, r.spent)

(* A layer says what it was told, that it ended, or its timeout; an end    *)
(* that it was told of, always.                                            *)
Relayed(told, out) ==
  /\ out = told \/ out = End \/ out.of = "timeout"
  /\ told = End => out = End

LayerDone(base, b, t, r, q) ==
  /\ RunReady(q) /\ q.src = r.src /\ q.layers = r.layers
  /\ LayerState(base, q.layer, b, t) /\ q.layer.deadline # NotStarted
  /\ r.spent \subseteq q.spent
  /\ r.out = End => q.out = End
  /\ q.out.of = "timeout" => q.out = r.out \/ ~ q.layer.open
  /\ q.out = r.out \/ Expired(q.layer, t)
  /\ Relayed(r.out, q.out)
  /\ ~ q.layer.open => r.out = End \/ r.out = Quit \/ Expired(q.layer, t)

LEMMA LayerAsked ==
  ASSUME NEW base, NEW l, NEW b \in Nat, NEW t \in Nat, b <= t, LayerReady(base, l, b, t),
         NEW r, RunReady(r)
  PROVE  LayerDone(base, b, t, r, PollLayer(l, r, t))
<1> DEFINE q == PollLayer(l, r, t)
           m == q.layer
<1>a. /\ base.duration \in Nat /\ LayerState(base, l, b, t) /\ (l.deadline = NotStarted => t = b)
      /\ l.open
  BY DEF LayerReady
<1>b. RunShape(r) /\ Said(r.out) /\ FiredOK(r.fired, r.spent)
  BY DEF RunReady
<1>c. q = PollLayer(l, r, t) /\ m = q.layer
  OBVIOUS
<1> HIDE DEF q, m
<1> SUFFICES /\ RunShape(q) /\ q.src = r.src /\ q.layers = r.layers
             /\ LayerState(base, m, b, t) /\ m.deadline # NotStarted
             /\ FiredOK(q.fired, q.spent) /\ Said(q.out) /\ r.spent \subseteq q.spent
             /\ r.out = End => q.out = End
             /\ q.out.of = "timeout" => q.out = r.out \/ ~ m.open
             /\ q.out = r.out \/ Expired(m, t)
             /\ q.out = r.out \/ q.out = End \/ q.out.of = "timeout"
             /\ ~ m.open => r.out = End \/ r.out = Quit \/ Expired(m, t)
  BY <1>c DEF LayerDone, RunReady, Relayed
<1> DEFINE d == b + base.duration
<1>1. DeadlineOf(l, t) = d /\ d \in Nat /\ d # NotStarted
  BY <1>a DEF DeadlineOf, LayerState, NotStarted
<1>2. LayerShape(l) /\ l.duration = base.duration /\ l.call = base.call /\ l.cut # End
  BY <1>a DEF LayerState
<1>3. l.observed => d <= t
  BY <1>1, <1>a DEF LayerState
<1>4. l.late = 0 \/ (l.late = 1 /\ l.observed)
  BY <1>a DEF LayerState
<1> HIDE DEF d
<1>5. /\ RunShape(q) /\ q.src = r.src /\ q.layers = r.layers
      /\ \/ InnerEnded(l, d, r, q) \/ CutShort(l, d, r, t, q) \/ QuitPassed(l, d, r, q)
         \/ ItemPassed(l, d, r, t, q) \/ StillWaits(l, d, r, t, q)
  BY <1>1, <1>2, <1>b, <1>c, LayerPolled
<1>6. l.observed \in BOOLEAN /\ l.open = TRUE
  BY <1>2, <1>a DEF LayerShape
<1>7. \A q2 : q2 = End => Said(q2) /\ q2.of # "timeout"
  BY AnswersDiffer DEF Said
<1>8. \A q2 : q2 = Pending => Said(q2) /\ q2.of # "timeout"
  BY AnswersDiffer DEF Said
<1>9. \A q2 : q2 = Quit => Said(q2) /\ q2.of # "timeout"
  BY AnswersDiffer DEF Said
<1>10. CASE InnerEnded(l, d, r, q)
  <2>1. LayerState(base, m, b, t) /\ m.deadline = d /\ m.open = FALSE
    BY <1>b, <1>c, <1>1, <1>2, <1>3, <1>4, <1>6, <1>10 DEF InnerEnded, Started, LayerState, LayerShape, d
  <2>2. q.out = End /\ r.out = End /\ q.spent = r.spent /\ q.fired = r.fired
    BY <1>b, <1>c, <1>10 DEF InnerEnded, Quietly
  <2> QED  BY <1>b, <1>c, <1>1, <1>5, <1>7, <2>1, <2>2 DEF d
<1>11. CASE CutShort(l, d, r, t, q)
  <2>0. d <= t
    BY <1>b, <1>c, <1>3, <1>11 DEF CutShort
  <2>1. LayerState(base, m, b, t) /\ m.deadline = d /\ m.open = FALSE
    BY <1>b, <1>c, <1>1, <1>2, <1>4, <1>6, <1>11, <2>0
       DEF CutShort, DeadlineTaken, Started, LayerState, LayerShape, d
  <2>2. Expired(m, t)
    BY <1>b, <1>c, <1>1, <2>0, <2>1 DEF Expired
  <2>3. r.out # End /\ q.spent = r.spent \cup {l.call}
    BY <1>b, <1>c, <1>11 DEF CutShort, DeadlineTaken
  <2>4. FiredOK(q.fired, q.spent)
    <3>1. /\ FiredOK(r.fired, r.spent \cup {l.call})
          /\ l.call \notin r.spent => FiredOK(Append(r.fired, l.call), r.spent \cup {l.call})
      BY <1>b, FiredNext
    <3>2. \/ q.fired = r.fired
          \/ l.call \notin r.spent /\ q.fired = Append(r.fired, l.call)
      BY <1>b, <1>c, <1>11 DEF CutShort, DeadlineTaken
    <3> QED  BY <2>3, <3>1, <3>2
  <2>5. Said(q.out) /\ (q.out = End \/ q.out.of = "timeout")
    <3>1. q.out = End \/ q.out = Message("timeout", l.call)
      BY <1>b, <1>c, <1>11 DEF CutShort, DeadlineTaken
    <3> QED  BY <1>7, <3>1, SaidMessage
  <2> QED  BY <1>b, <1>c, <1>1, <1>5, <2>1, <2>2, <2>3, <2>4, <2>5 DEF d
<1>12. CASE QuitPassed(l, d, r, q)
  <2>a. l.late = 0 /\ l.observed = FALSE
    BY <1>b, <1>c, <1>4, <1>6, <1>12 DEF QuitPassed
  <2>b. /\ (DOMAIN m) = LayerFields /\ m.duration = l.duration /\ m.call = l.call
        /\ m.deadline = d /\ m.observed = FALSE /\ m.open = FALSE /\ m.cut = l.cut
        /\ m.late \in {l.late, l.late + 1}
    BY <1>b, <1>c, <1>12, <2>a DEF QuitPassed, Started
  <2>c. m.late = 0 \/ m.late = 1
    BY <2>a, <2>b
  <2>1. LayerState(base, m, b, t) /\ m.deadline = d /\ m.open = FALSE
    BY <1>b, <1>c, <1>2, <2>b, <2>c DEF LayerState, LayerShape, d
  <2>2. q.out = Quit /\ r.out = Quit /\ q.spent = r.spent /\ q.fired = r.fired
    BY <1>b, <1>c, <1>12 DEF QuitPassed, Quietly
  <2> QED  BY <1>b, <1>c, <1>1, <1>5, <1>9, <2>1, <2>2, AnswersDiffer DEF d
<1>13. CASE ItemPassed(l, d, r, t, q)
  <2>a. l.late = 0 /\ l.observed = FALSE
    BY <1>b, <1>c, <1>4, <1>6, <1>13 DEF ItemPassed
  <2>b. /\ (DOMAIN m) = LayerFields /\ m.duration = l.duration /\ m.call = l.call
        /\ m.deadline = d /\ m.open = TRUE /\ m.cut = l.cut
        /\ \/ d <= t /\ m.observed = TRUE /\ m.late = l.late + 1
           \/ m.observed = FALSE /\ m.late = l.late
    BY <1>b, <1>c, <1>6, <1>13 DEF ItemPassed, Started
  <2>c. (m.observed = TRUE /\ m.late = 1 /\ d <= t) \/ (m.observed = FALSE /\ m.late = 0)
    BY <2>a, <2>b
  <2>1. LayerState(base, m, b, t) /\ m.deadline = d /\ m.open = TRUE
    BY <1>b, <1>c, <1>1, <1>2, <2>b, <2>c DEF LayerState, LayerShape, d
  <2>2. q.out = r.out /\ q.spent = r.spent /\ q.fired = r.fired
    BY <1>b, <1>c, <1>13 DEF ItemPassed, Quietly
  <2> QED  BY <1>b, <1>c, <1>1, <1>5, <2>1, <2>2 DEF d
<1>14. CASE StillWaits(l, d, r, t, q)
  <2>1. LayerState(base, m, b, t) /\ m.deadline = d /\ m.open = TRUE
    BY <1>b, <1>c, <1>1, <1>2, <1>3, <1>4, <1>6, <1>14 DEF StillWaits, Started, LayerState, LayerShape, d
  <2>2. q.out = Pending /\ r.out = Pending /\ q.spent = r.spent /\ q.fired = r.fired
    BY <1>b, <1>c, <1>14 DEF StillWaits, Quietly
  <2> QED  BY <1>b, <1>c, <1>1, <1>5, <1>8, <2>1, <2>2 DEF d
<1> QED  BY <1>5, <1>10, <1>11, <1>12, <1>13, <1>14

(* A poll, layer by layer.                                                 *)
PollWalk(f, leaf, closures, calls, t) ==
  /\ f[0] = Innermost(leaf, PollSource(leaf.src, t), closures, calls)
  /\ \A k \in 1..Len(leaf.layers) : f[k] = (IF ~ leaf.layers[k].open THEN Closed(leaf, closures, calls)
            ELSE Restored(PollLayer(leaf.layers[k], f[k - 1], t), k))
  /\ PollLeaf(leaf, closures, calls, t) = f[Len(leaf.layers)]

LEMMA PollWalkExists ==
  ASSUME NEW leaf, NEW closures, NEW calls, NEW t, IsSeq(leaf.layers)
  PROVE  \E f : PollWalk(f, leaf, closures, calls, t)
<1> DEFINE Then(k, v) == (IF ~ leaf.layers[k].open THEN Closed(leaf, closures, calls)
            ELSE Restored(PollLayer(leaf.layers[k], v, t), k))
           Body(f, m) == [k \in 0..m |-> IF k = 0 THEN Innermost(leaf, PollSource(leaf.src, t), closures, calls) ELSE Then(k, f[k - 1])]
           A == {m \in Nat : ~ \E f : f = Body(f, m)}
<1>1. Len(leaf.layers) \in Nat
  BY SeqIs
<1>2. A = {}
  <2>1. ASSUME NEW m \in A PROVE \E j \in A : j < m
    <3>1. CASE m = 0
      <4> DEFINE f == [k \in 0..0 |-> Innermost(leaf, PollSource(leaf.src, t), closures, calls)]
      <4>1. f = Body(f, m)
        BY <3>1
      <4> QED  BY <2>1, <4>1
    <3>2. CASE m # 0
      <4>1. m \in Nat /\ m - 1 \in Nat /\ m - 1 < m
        BY <2>1, <3>2
      <4>2. SUFFICES ASSUME m - 1 \notin A PROVE FALSE
        BY <4>1
      <4>3. PICK f : f = Body(f, m - 1)
        BY <4>1, <4>2
      <4> DEFINE g == [k \in 0..m |-> IF k = m THEN Then(m, f[m - 1]) ELSE f[k]]
      <4> HIDE DEF Then
      <4>4. \A k \in 0..m : g[k] = IF k = 0 THEN Innermost(leaf, PollSource(leaf.src, t), closures, calls) ELSE Then(k, g[k - 1])
        BY <4>1, <4>3
      <4>5. g = Body(g, m)
        BY <4>4
      <4> QED  BY <2>1, <4>5
    <3> QED  BY <3>1, <3>2
  <2> QED  BY <2>1, NoFirst
<1>3. PICK made : made = Body(made, Len(leaf.layers))
  BY <1>1, <1>2
<1> DEFINE F == CHOOSE f : f = Body(f, Len(leaf.layers))
<1>4. F = Body(F, Len(leaf.layers))
  BY <1>3
<1>5. PollLeaf(leaf, closures, calls, t) = F[Len(leaf.layers)]
  BY DEF PollLeaf
<1> HIDE DEF F, Then
<1>6. \A k \in 0..Len(leaf.layers) : F[k] = IF k = 0 THEN Innermost(leaf, PollSource(leaf.src, t), closures, calls) ELSE Then(k, F[k - 1])
  BY <1>1, <1>4
<1>7. F[0] = Innermost(leaf, PollSource(leaf.src, t), closures, calls) /\ \A k \in 1..Len(leaf.layers) : F[k] = Then(k, F[k - 1])
  BY <1>1, <1>6
<1> QED  BY <1>5, <1>7 DEF Then, PollWalk

LayersAt(bases, layers, b, t) ==
  /\ IsSeq(layers) /\ Len(layers) = Len(bases)
  /\ \A i \in 1..Len(bases) : LayerState(bases[i], layers[i], b, t)

BasesOK(bases) == IsSeq(bases) /\ \A i \in 1..Len(bases) : bases[i].duration \in Nat

AnyExpired(layers, t) == \E i \in DOMAIN layers : Expired(layers[i], t)

AnyClosed(layers) == \E i \in DOMAIN layers : ~ layers[i].open

(* All layers run from time b, or none has been polled and it is b.        *)
Running(layers) == \A i \in DOMAIN layers : layers[i].deadline # NotStarted

Anchoring(layers, b, t) == Running(layers) \/ (t = b /\ ~ AnyClosed(layers))

(* Layers up to i have been asked; y is what the source said.              *)
Ran(leaf, y, t, r) == r.src = y.src /\ (r.out = y.out \/ AnyExpired(r.layers, t))

PolledTo(bases, leaf, closures, y, b, t, i, r) ==
  /\ RunShape(r) /\ LayersAt(bases, r.layers, b, t)
  /\ \A j \in 1..Len(bases) : j <= i => r.layers[j].deadline # NotStarted
  /\ \A j \in 1..Len(bases) : j > i => r.layers[j] = leaf.layers[j]
  /\ \A j \in 1..Len(bases) : ~ leaf.layers[j].open => r.layers[j] = leaf.layers[j]
  /\ Said(r.out) /\ FiredOK(r.fired, r.spent) /\ closures \subseteq r.spent
  /\ \/ r.src = leaf.src /\ r.out = End /\ AnyClosed(leaf.layers)
     \/ Ran(leaf, y, t, r) /\ \A j \in 1..Len(bases) : j <= i => leaf.layers[j].open
  /\ r.out.of = "timeout" => AnyClosed(r.layers)
  /\ Relayed(y.out, r.out)
  /\ AnyClosed(r.layers) =>
       AnyClosed(leaf.layers) \/ y.out = End \/ y.out = Quit \/ AnyExpired(r.layers, t)

LEMMA PolledToStart ==
  ASSUME NEW bases, NEW leaf, NEW closures, NEW calls, NEW y, NEW b \in Nat, NEW t \in Nat, NEW r,
         IsSeq(bases), LayersAt(bases, leaf.layers, b, t), FiredOK(calls, closures),
         Said(y.out), y.out.of # "timeout",
         r = Innermost(leaf, y, closures, calls)
  PROVE  PolledTo(bases, leaf, closures, y, b, t, 0, r)
<1>1. /\ RunShape(r) /\ r.src = y.src /\ r.layers = leaf.layers /\ r.spent = closures
      /\ r.fired = calls /\ r.out = y.out
  BY DEF Innermost, RunShape, RunFields
<1>2. \A j \in 1..Len(bases) : ~ (j <= 0)
  BY SeqIs
<1> QED  BY <1>1, <1>2 DEF PolledTo, Ran, Relayed

LEMMA PolledToNext ==
  ASSUME NEW bases, NEW leaf, NEW closures, NEW calls, NEW y, NEW b \in Nat, NEW t \in Nat, b <= t,
         BasesOK(bases), LayersAt(bases, leaf.layers, b, t), FiredOK(calls, closures),
         Anchoring(leaf.layers, b, t),
         NEW i \in 1..Len(bases), NEW p, PolledTo(bases, leaf, closures, y, b, t, i - 1, p), NEW r,
         r = IF ~ leaf.layers[i].open THEN Closed(leaf, closures, calls)
             ELSE Restored(PollLayer(leaf.layers[i], p, t), i)
  PROVE  PolledTo(bases, leaf, closures, y, b, t, i, r)
<1>0. /\ Len(bases) \in Nat /\ i \in Nat /\ DOMAIN leaf.layers = 1..Len(bases)
      /\ DOMAIN p.layers = 1..Len(bases) /\ p.layers[i] = leaf.layers[i]
  <2>1. Len(bases) \in Nat /\ i \in Nat /\ i > i - 1
    BY SeqIs DEF BasesOK
  <2>2. DOMAIN leaf.layers = 1..Len(bases) /\ DOMAIN p.layers = 1..Len(bases)
    BY SeqIs DEF LayersAt, PolledTo
  <2> QED  BY <2>1, <2>2 DEF PolledTo
<1>1. CASE ~ leaf.layers[i].open
  <2> DEFINE none == [src |-> leaf.src, out |-> End]
  <2>1. r = Innermost(leaf, none, closures, calls)
    BY <1>1 DEF Closed
  <2>2. none.src = leaf.src /\ none.out = End
    OBVIOUS
  <2> HIDE DEF none
  <2>3. /\ RunShape(r) /\ r.src = leaf.src /\ r.layers = leaf.layers /\ r.spent = closures
        /\ r.fired = calls /\ r.out = End
    BY <2>1, <2>2 DEF Innermost, RunShape, RunFields
  <2>4. AnyClosed(leaf.layers)
    BY <1>0, <1>1 DEF AnyClosed
  <2>5. \A j \in 1..Len(bases) : leaf.layers[j].deadline # NotStarted
    BY <1>0, <2>4 DEF Anchoring, Running
  <2>6. Said(End) /\ End.of # "timeout"
    BY AnswersDiffer DEF Said
  <2> QED  BY <2>3, <2>4, <2>5, <2>6 DEF PolledTo, Relayed
<1>2. CASE leaf.layers[i].open
  <2> DEFINE q == PollLayer(leaf.layers[i], p, t)
             m == q.layer
  <2>1. LayerState(bases[i], leaf.layers[i], b, t) /\ bases[i].duration \in Nat
    BY DEF LayersAt, BasesOK
  <2>2. leaf.layers[i].deadline = NotStarted => t = b
    BY <1>0 DEF Anchoring, Running
  <2>3. RunShape(p) /\ Said(p.out) /\ FiredOK(p.fired, p.spent)
    BY DEF PolledTo
  <2>4. /\ RunShape(q) /\ q.src = p.src /\ q.layers = p.layers
        /\ LayerState(bases[i], m, b, t) /\ m.deadline # NotStarted
        /\ FiredOK(q.fired, q.spent) /\ Said(q.out) /\ p.spent \subseteq q.spent
        /\ p.out = End => q.out = End
        /\ q.out.of = "timeout" => q.out = p.out \/ ~ m.open
        /\ q.out = p.out \/ Expired(m, t)
        /\ Relayed(p.out, q.out)
        /\ ~ m.open => p.out = End \/ p.out = Quit \/ Expired(m, t)
    <3> DEFINE l == leaf.layers[i]
               base == bases[i]
    <3>1. /\ LayerState(base, l, b, t) /\ base.duration \in Nat /\ (l.deadline = NotStarted => t = b)
          /\ l.open /\ q = PollLayer(l, p, t) /\ m = q.layer
      BY <1>2, <2>1, <2>2
    <3> HIDE DEF l, base, q, m
    <3>a. LayerReady(base, l, b, t) /\ RunReady(p)
      BY <2>3, <3>1 DEF LayerReady, RunReady
    <3>b. LayerDone(base, b, t, p, q)
      BY <3>1, <3>a, LayerAsked
    <3>2. /\ RunShape(q) /\ q.src = p.src /\ q.layers = p.layers
          /\ LayerState(base, m, b, t) /\ m.deadline # NotStarted
          /\ FiredOK(q.fired, q.spent) /\ Said(q.out) /\ p.spent \subseteq q.spent
          /\ p.out = End => q.out = End
          /\ q.out.of = "timeout" => q.out = p.out \/ ~ m.open
          /\ q.out = p.out \/ Expired(m, t)
          /\ Relayed(p.out, q.out)
          /\ ~ m.open => p.out = End \/ p.out = Quit \/ Expired(m, t)
      BY <3>1, <3>b DEF RunReady, LayerDone
    <3> QED  BY <3>2 DEF base
  <2>5. r = Restored(q, i)
    BY <1>2
  <2> HIDE DEF q
  <2> HIDE DEF m
  <2> DEFINE ls == [p.layers EXCEPT ![i] = m]
  <2>6. /\ RunShape(r) /\ r.src = p.src /\ r.layers = ls /\ r.spent = q.spent
        /\ r.fired = q.fired /\ r.out = q.out
    BY <2>4, <2>5 DEF Restored, RunShape, RunFields, m
  <2>7. IsSeq(p.layers) /\ Len(p.layers) = Len(bases)
    BY DEF PolledTo, LayersAt
  <2>8. /\ IsSeq(ls) /\ Len(ls) = Len(bases) /\ DOMAIN ls = 1..Len(bases)
        /\ ls[i] = m /\ \A j \in 1..Len(bases) : j # i => ls[j] = p.layers[j]
    <3> DEFINE s == p.layers
    <3>1. IsSeq(s) /\ i \in DOMAIN s /\ DOMAIN s = 1..Len(bases) /\ ls = [s EXCEPT ![i] = m]
          /\ Len(s) = Len(bases)
      BY <1>0, <2>7
    <3> HIDE DEF s, ls
    <3>2. /\ IsSeq(ls) /\ Len(ls) = Len(s) /\ DOMAIN ls = DOMAIN s
          /\ ls[i] = m /\ \A j \in DOMAIN s : j # i => ls[j] = s[j]
      BY <3>1, SeqExcept
    <3> QED  BY <3>1, <3>2 DEF s
  <2> HIDE DEF ls
  <2>9. LayersAt(bases, ls, b, t)
    <3>1. \A j \in 1..Len(bases) : LayerState(bases[j], p.layers[j], b, t)
      BY DEF PolledTo, LayersAt
    <3>2. \A j \in 1..Len(bases) : LayerState(bases[j], ls[j], b, t)
      BY <2>4, <2>8, <3>1
    <3> QED  BY <2>8, <3>2 DEF LayersAt
  <2>10. \A j \in 1..Len(bases) : j <= i => ls[j].deadline # NotStarted
    <3>1. \A j \in 1..Len(bases) : j <= i /\ j # i => j <= i - 1
      BY <1>0
    <3>2. \A j \in 1..Len(bases) : j <= i - 1 => p.layers[j].deadline # NotStarted
      BY DEF PolledTo
    <3> QED  BY <2>4, <2>8, <3>1, <3>2
  <2>11. \A j \in 1..Len(bases) : j > i => ls[j] = leaf.layers[j]
    <3>1. \A j \in 1..Len(bases) : j > i => j > i - 1 /\ j # i
      BY <1>0
    <3>2. \A j \in 1..Len(bases) : j > i - 1 => p.layers[j] = leaf.layers[j]
      BY DEF PolledTo
    <3> QED  BY <2>8, <3>1, <3>2
  <2>12. \A j \in 1..Len(bases) : ~ leaf.layers[j].open => ls[j] = leaf.layers[j]
    <3>1. \A j \in 1..Len(bases) : ~ leaf.layers[j].open => p.layers[j] = leaf.layers[j]
      BY DEF PolledTo
    <3> QED  BY <1>2, <2>8, <3>1
  <2>13. closures \subseteq q.spent
    BY <2>4 DEF PolledTo
  <2>14. AnyExpired(p.layers, t) \/ Expired(m, t) => AnyExpired(ls, t)
    BY <1>0, <1>2, <2>8 DEF AnyExpired, Expired
  <2>15. AnyClosed(ls) => AnyClosed(p.layers) \/ ~ m.open
    BY <1>0, <2>8 DEF AnyClosed
  <2>16. AnyClosed(p.layers) \/ ~ m.open => AnyClosed(ls)
    BY <1>0, <1>2, <2>8 DEF AnyClosed
  <2>17. \/ p.src = leaf.src /\ p.out = End /\ AnyClosed(leaf.layers)
         \/ Ran(leaf, y, t, p) /\ \A j \in 1..Len(bases) : j <= i - 1 => leaf.layers[j].open
    BY DEF PolledTo
  <2>18. \/ p.src = leaf.src /\ q.out = End /\ AnyClosed(leaf.layers)
         \/ Ran(leaf, y, t, r) /\ \A j \in 1..Len(bases) : j <= i => leaf.layers[j].open
    <3>1. CASE p.src = leaf.src /\ p.out = End /\ AnyClosed(leaf.layers)
      BY <2>4, <3>1
    <3>2. CASE Ran(leaf, y, t, p) /\ \A j \in 1..Len(bases) : j <= i - 1 => leaf.layers[j].open
      <4>1. \A j \in 1..Len(bases) : j <= i => j <= i - 1 \/ j = i
        BY <1>0
      <4>2. Ran(leaf, y, t, r)
        BY <2>4, <2>6, <2>14, <3>2 DEF Ran
      <4> QED  BY <1>2, <3>2, <4>1, <4>2
    <3> QED  BY <2>17, <3>1, <3>2
  <2>19. q.out.of = "timeout" => AnyClosed(ls)
    <3>1. p.out.of = "timeout" => AnyClosed(p.layers)
      BY DEF PolledTo
    <3> QED  BY <2>4, <2>16, <3>1
  <2>20. AnyClosed(ls) => AnyClosed(leaf.layers) \/ y.out = End \/ y.out = Quit \/ AnyExpired(ls, t)
    <3>1. AnyClosed(p.layers) =>
            AnyClosed(leaf.layers) \/ y.out = End \/ y.out = Quit \/ AnyExpired(p.layers, t)
      BY DEF PolledTo
    <3>2. p.out = End \/ p.out = Quit =>
            AnyClosed(leaf.layers) \/ y.out = End \/ y.out = Quit \/ AnyExpired(p.layers, t)
      BY <2>17 DEF Ran
    <3> QED  BY <2>4, <2>14, <2>15, <3>1, <3>2
  <2>21. Relayed(y.out, q.out)
    <3>1. Relayed(y.out, p.out)
      BY DEF PolledTo
    <3> QED  BY <2>4, <3>1 DEF Relayed
  <2> QED  BY <2>4, <2>6, <2>9, <2>10, <2>11, <2>12, <2>13, <2>18, <2>19, <2>20, <2>21 DEF PolledTo
<1> QED  BY <1>1, <1>2

(* One poll of a leaf.                                                     *)
LEMMA LayersPolled ==
  ASSUME NEW bases, NEW leaf, NEW closures, NEW calls, NEW y, NEW b \in Nat, NEW t \in Nat, b <= t,
         BasesOK(bases), LayersAt(bases, leaf.layers, b, t), FiredOK(calls, closures),
         Anchoring(leaf.layers, b, t), y = PollSource(leaf.src, t),
         Said(y.out), y.out.of # "timeout",
         NEW r, r = PollLeaf(leaf, closures, calls, t)
  PROVE  PolledTo(bases, leaf, closures, y, b, t, Len(bases), r)
<1>0. IsSeq(leaf.layers) /\ Len(leaf.layers) = Len(bases) /\ Len(bases) \in Nat /\ IsSeq(bases)
  BY SeqIs DEF LayersAt, BasesOK
<1>1. PICK f : PollWalk(f, leaf, closures, calls, t)
  BY <1>0, PollWalkExists
<1> DEFINE n == Len(bases)
           A == {k \in 0..n : ~ PolledTo(bases, leaf, closures, y, b, t, k, f[k])}
<1>2. /\ f[0] = Innermost(leaf, y, closures, calls) /\ r = f[n]
      /\ \A k \in 1..n : f[k] = IF ~ leaf.layers[k].open THEN Closed(leaf, closures, calls)
                                ELSE Restored(PollLayer(leaf.layers[k], f[k - 1], t), k)
  BY <1>0, <1>1 DEF PollWalk
<1>3. ASSUME NEW k \in A PROVE \E j \in A : j < k
  <2>1. CASE k = 0
    <3>1. PolledTo(bases, leaf, closures, y, b, t, 0, f[0])
      BY <1>0, <1>2, PolledToStart
    <3> QED  BY <2>1, <3>1
  <2>2. CASE k # 0
    <3>1. k \in 1..n /\ k - 1 \in 0..n /\ k - 1 < k
      BY <1>0, <2>2
    <3>2. SUFFICES ASSUME k - 1 \notin A PROVE FALSE
      BY <3>1
    <3>3. PolledTo(bases, leaf, closures, y, b, t, k - 1, f[k - 1])
      BY <3>1, <3>2
    <3>4. f[k] = IF ~ leaf.layers[k].open THEN Closed(leaf, closures, calls)
                 ELSE Restored(PollLayer(leaf.layers[k], f[k - 1], t), k)
      BY <1>2, <3>1
    <3>5. PolledTo(bases, leaf, closures, y, b, t, k, f[k])
      BY <3>1, <3>3, <3>4, PolledToNext
    <3> QED  BY <3>5
  <2> QED  BY <2>1, <2>2
<1>4. A = {}
  <2>1. A \subseteq Nat
    BY <1>0
  <2> HIDE DEF A
  <2> QED  BY <1>3, <2>1, NoFirst
<1> QED  BY <1>0, <1>2, <1>4

-----------------------------------------------------------------------------
(* What a script has to say, and what a leaf has said.                     *)

LEMMA AppendConcat ==
  ASSUME NEW a, NEW b, NEW e, IsSeq(a), IsSeq(b)
  PROVE  Append(a \o b, e) = a \o Append(b, e)
<1> DEFINE m == Len(a)
           n == Len(b)
           c == a \o b
           l == Append(c, e)
           d == Append(b, e)
           r == a \o d
<1>1. m \in Nat /\ n \in Nat
  BY SeqIs
<1>2. /\ IsSeq(c) /\ Len(c) = m + n
      /\ (\A i \in 1..m : c[i] = a[i]) /\ \A i \in 1..n : c[m + i] = b[i]
  BY SeqConcat
<1>3. IsSeq(d) /\ Len(d) = n + 1 /\ d[n + 1] = e /\ \A i \in 1..n : d[i] = b[i]
  BY SeqAppend
<1> HIDE DEF c, d
<1>4. IsSeq(l) /\ Len(l) = (m + n) + 1 /\ l[(m + n) + 1] = e /\ \A i \in 1..(m + n) : l[i] = c[i]
  <2>1. IsSeq(l) /\ Len(l) = Len(c) + 1 /\ l[Len(c) + 1] = e /\ \A i \in 1..Len(c) : l[i] = c[i]
    BY <1>2, SeqAppend
  <2> QED  BY <1>2, <2>1
<1>5. /\ IsSeq(r) /\ Len(r) = m + (n + 1)
      /\ (\A i \in 1..m : r[i] = a[i]) /\ \A i \in 1..(n + 1) : r[m + i] = d[i]
  <2>1. /\ IsSeq(r) /\ Len(r) = Len(a) + Len(d)
        /\ (\A i \in 1..Len(a) : r[i] = a[i]) /\ \A i \in 1..Len(d) : r[Len(a) + i] = d[i]
    BY <1>3, SeqConcat
  <2> QED  BY <1>3, <2>1
<1> HIDE DEF l, r, m, n
<1>6. ASSUME NEW i \in 1..Len(l) PROVE l[i] = r[i]
  <2>1. CASE i \in 1..m
    BY <1>1, <1>2, <1>4, <1>5, <2>1
  <2>2. CASE i \notin 1..m
    <3> DEFINE k == i - m
    <3>1. k \in 1..(n + 1) /\ i = m + k
      BY <1>1, <1>4, <2>2
    <3> HIDE DEF k
    <3>2. CASE k = n + 1
      BY <1>1, <1>3, <1>4, <1>5, <3>1, <3>2
    <3>3. CASE k # n + 1
      <4>1. k \in 1..n /\ m + k \in 1..(m + n)
        BY <1>1, <3>1, <3>3
      <4> QED  BY <1>2, <1>3, <1>4, <1>5, <3>1, <4>1
    <3> QED  BY <3>2, <3>3
  <2> QED  BY <2>1, <2>2
<1>7. Len(l) = Len(r)
  BY <1>1, <1>4, <1>5
<1>8. l = r
  BY <1>4, <1>5, <1>6, <1>7, SeqSame
<1> QED  BY <1>8 DEF l, r, c, d

LEMMA ConcatAssoc ==
  ASSUME NEW a, NEW b, NEW c, IsSeq(a), IsSeq(b), IsSeq(c)
  PROVE  (a \o b) \o c = a \o (b \o c)
<1> DEFINE E == ToSet(a) \cup ToSet(b) \cup ToSet(c)
<1>1. a \in Seq(E) /\ b \in Seq(E) /\ c \in Seq(E)
  <2>1. /\ \A i \in 1..Len(a) : a[i] \in E
        /\ \A i \in 1..Len(b) : b[i] \in E
        /\ \A i \in 1..Len(c) : c[i] \in E
    BY SeqIs DEF ToSet
  <2> QED  BY SeqIs, <2>1
<1> HIDE DEF E
<1> QED  BY <1>1

LEMMA SelectedSeq ==
  ASSUME NEW s, NEW I, IsSeq(s), NEW f, SelectedWalk(f, s, I), NEW k \in 0..Len(s)
  PROVE  IsSeq(f[k])
<1> DEFINE A == {j \in 0..Len(s) : ~ IsSeq(f[j])}
<1>1. Len(s) \in Nat
  BY SeqIs
<1>2. f[0] = <<>> /\ \A j \in 1..Len(s) : f[j] = (IF j \in I THEN Append(f[j - 1], s[j]) ELSE f[j - 1])
  BY DEF SelectedWalk
<1>3. ASSUME NEW j \in A PROVE \E i \in A : i < j
  <2>1. CASE j = 0
    BY <1>2, <2>1, SeqEmpty
  <2>2. CASE j # 0
    <3>1. j \in 1..Len(s) /\ j - 1 \in 0..Len(s) /\ j - 1 < j
      BY <1>1, <2>2
    <3>2. SUFFICES ASSUME j - 1 \notin A PROVE FALSE
      BY <3>1
    <3>3. IsSeq(f[j - 1])
      BY <3>1, <3>2
    <3>4. IsSeq(Append(f[j - 1], s[j]))
      BY <3>3, SeqAppend
    <3>5. f[j] = Append(f[j - 1], s[j]) \/ f[j] = f[j - 1]
      BY <1>2, <3>1
    <3> QED  BY <3>3, <3>4, <3>5
  <2> QED  BY <2>1, <2>2
<1>4. A = {}
  <2>1. A \subseteq Nat
    BY <1>1
  <2> HIDE DEF A
  <2> QED  BY <1>3, <2>1, NoFirst
<1> QED  BY <1>4

Shift(I, J, n) == \A k \in 1..n : k \in J <=> k + 1 \in I

(* A selection begins with the first entry, if it is selected.             *)
LEMMA SelectedCons ==
  ASSUME NEW s, NEW I, IsSeq(s), s # <<>>, NEW J, Shift(I, J, Len(Tail(s)))
  PROVE  /\ IsSeq(Selected(Tail(s), J))
         /\ 1 \in I => Selected(s, I) = Cons(s[1], Selected(Tail(s), J))
         /\ 1 \notin I => Selected(s, I) = Selected(Tail(s), J)
<1> DEFINE u == Tail(s)
           h == s[1]
<1>0. u = Tail(s) /\ h = s[1] /\ Shift(I, J, Len(u))
  OBVIOUS
<1> HIDE DEF u, h
<1>1. /\ IsSeq(u) /\ Len(u) \in Nat /\ Len(s) = Len(u) + 1 /\ Len(s) \in Nat
      /\ \A i \in 1..Len(u) : u[i] = s[i + 1]
  <2>1. IsSeq(u) /\ Len(u) = Len(s) - 1 /\ \A i \in 1..(Len(s) - 1) : u[i] = s[i + 1]
    BY <1>0, SeqTail
  <2> QED  BY <2>1, SeqIs
<1>2. PICK f : SelectedWalk(f, s, I)
  BY SelectedWalkExists
<1>3. PICK g : SelectedWalk(g, u, J)
  BY <1>1, SelectedWalkExists
<1> DEFINE pre == IF 1 \in I THEN <<s[1]>> ELSE <<>>
           n == Len(u)
           H(x) == pre \o x
           A == {k \in 0..n : f[k + 1] # H(g[k])}
<1>4. IsSeq(pre)
  BY SeqOne, SeqEmpty
<1>5. /\ f[0] = <<>> /\ Selected(s, I) = f[n + 1]
      /\ \A k \in 1..(n + 1) : f[k] = (IF k \in I THEN Append(f[k - 1], s[k]) ELSE f[k - 1])
  BY <1>1, <1>2 DEF SelectedWalk
<1>6. /\ g[0] = <<>> /\ Selected(u, J) = g[n]
      /\ \A k \in 1..n : g[k] = (IF k \in J THEN Append(g[k - 1], u[k]) ELSE g[k - 1])
  BY <1>3 DEF SelectedWalk
<1>7. \A k \in 0..n : IsSeq(g[k])
  BY <1>1, <1>3, SelectedSeq
<1>8. n \in Nat /\ (\A i \in 1..n : u[i] = s[i + 1]) /\ \A k \in 1..n : k \in J <=> k + 1 \in I
  BY <1>0, <1>1 DEF Shift
<1>9. f[1] = pre
  <2>1. Append(<<>>, s[1]) = <<s[1]>>
    OBVIOUS
  <2> HIDE DEF n
  <2>2. 1 \in 1..(n + 1) /\ 1 - 1 = 0
    BY <1>8
  <2> QED  BY <1>5, <2>1, <2>2
<1>10. H(<<>>) = pre
  BY <1>4, ConcatNothing
<1>14. \A x : IsSeq(x) => \A e : Append(H(x), e) = H(Append(x, e))
  BY <1>4, AppendConcat
<1> HIDE DEF pre, n, H
<1>11. ASSUME NEW k \in A PROVE \E j \in A : j < k
  <2>1. CASE k = 0
    <3>1. f[k + 1] = H(g[k])
      <4>1. k + 1 = 1
        BY <2>1
      <4> QED  BY <1>6, <1>9, <1>10, <2>1, <4>1
    <3> QED  BY <3>1
  <2>2. CASE k # 0
    <3>1. k \in 1..n /\ k - 1 \in 0..n /\ k - 1 < k /\ k + 1 \in 1..(n + 1) /\ (k + 1) - 1 = k
          /\ (k - 1) + 1 = k
      BY <1>8, <2>2
    <3>2. SUFFICES ASSUME k - 1 \notin A PROVE FALSE
      BY <3>1
    <3>3. f[k] = H(g[k - 1])
      BY <3>1, <3>2
    <3>4. IsSeq(g[k - 1])
      BY <1>7, <3>1
    <3>5. CASE k \in J
      <4>1. f[k + 1] = Append(f[k], s[k + 1])
        BY <1>5, <1>8, <3>1, <3>5
      <4>2. g[k] = Append(g[k - 1], u[k]) /\ u[k] = s[k + 1]
        BY <1>6, <1>8, <3>1, <3>5
      <4>3. Append(H(g[k - 1]), u[k]) = H(Append(g[k - 1], u[k]))
        BY <1>14, <3>4
      <4>4. f[k + 1] = H(g[k])
        BY <3>3, <4>1, <4>2, <4>3
      <4> QED  BY <4>4
    <3>6. CASE k \notin J
      <4>1. f[k + 1] = f[k]
        BY <1>5, <1>8, <3>1, <3>6
      <4>2. g[k] = g[k - 1]
        BY <1>6, <3>1, <3>6
      <4>3. f[k + 1] = H(g[k])
        BY <3>3, <4>1, <4>2
      <4> QED  BY <4>3
    <3> QED  BY <3>5, <3>6
  <2> QED  BY <2>1, <2>2
<1>12. A = {}
  <2>1. A \subseteq Nat
    BY <1>8
  <2> HIDE DEF A
  <2> QED  BY <1>11, <2>1, NoFirst
<1>13. Selected(s, I) = H(Selected(u, J)) /\ IsSeq(Selected(u, J))
  <2>1. n \in 0..n /\ n \notin A
    BY <1>8, <1>12
  <2>2. f[n + 1] = H(g[n]) /\ IsSeq(g[n])
    BY <1>7, <2>1
  <2> QED  BY <1>5, <1>6, <2>2
<1>15. <<>> \o Selected(u, J) = Selected(u, J)
  BY <1>13, ConcatNothing
<1>16. CASE 1 \in I
  BY <1>0, <1>13, <1>16 DEF pre, H, Cons
<1>17. CASE 1 \notin I
  <2>1. pre = <<>>
    BY <1>17 DEF pre
  <2>2. H(Selected(u, J)) = <<>> \o Selected(u, J)
    BY <2>1 DEF H
  <2> QED  BY <1>0, <1>13, <1>15, <1>17, <2>2
<1> QED  BY <1>0, <1>13, <1>16, <1>17

LEMMA SeqCons ==
  ASSUME NEW x, NEW e, IsSeq(e)
  PROVE  /\ IsSeq(Cons(x, e)) /\ Len(Cons(x, e)) = 1 + Len(e) /\ Cons(x, e)[1] = x
         /\ \A i \in 1..Len(e) : Cons(x, e)[1 + i] = e[i]
<1> DEFINE z == Cons(x, e)
           d == <<x>>
<1>1. IsSeq(d) /\ Len(d) = 1 /\ d[1] = x
  BY SeqOne
<1>2. z = d \o e
  BY DEF Cons
<1>6. IsSeq(d) /\ IsSeq(e)
  BY <1>1
<1> HIDE DEF d, z
<1>3. /\ IsSeq(z) /\ Len(z) = Len(d) + Len(e)
      /\ (\A i \in 1..Len(d) : z[i] = d[i]) /\ \A i \in 1..Len(e) : z[Len(d) + i] = e[i]
  BY ONLY <1>2, <1>6, SeqConcat
<1>4. 1 \in 1..1
  OBVIOUS
<1>5. IsSeq(z) /\ Len(z) = 1 + Len(e) /\ z[1] = x /\ \A i \in 1..Len(e) : z[1 + i] = e[i]
  BY <1>1, <1>3, <1>4
<1> QED  BY <1>5 DEF z

AnswersIn(e) == [i \in DOMAIN e |-> e[i].answer]

LEMMA AnswersSeq ==
  ASSUME NEW e, IsSeq(e), NEW a, a = AnswersIn(e)
  PROVE  IsSeq(a) /\ Len(a) = Len(e) /\ \A i \in 1..Len(e) : a[i] = e[i].answer
<1> DEFINE n == Len(e)
<1>1. n \in Nat /\ DOMAIN e = 1..n
  BY SeqIs
<1> HIDE DEF n
<1>2. a = [i \in 1..n |-> e[i].answer]
  BY <1>1 DEF AnswersIn
<1>3. a = [i \in 1..n |-> a[i]] /\ \A i \in 1..n : a[i] = e[i].answer
  BY <1>2
<1> QED  BY <1>1, <1>3, SeqMade DEF n

LEMMA AnswersCons ==
  ASSUME NEW x, NEW e, IsSeq(e)
  PROVE  AnswersIn(Cons(x, e)) = Cons(x.answer, AnswersIn(e))
<1> DEFINE n == Len(e)
           s == Cons(x, e)
           a == AnswersIn(s)
           b == AnswersIn(e)
           c == Cons(x.answer, b)
<1>1. n \in Nat /\ IsSeq(s) /\ Len(s) = 1 + n /\ s[1] = x /\ \A i \in 1..n : s[1 + i] = e[i]
  BY SeqIs, SeqCons
<1> HIDE DEF s
<1>2. IsSeq(a) /\ Len(a) = 1 + n /\ \A i \in 1..(1 + n) : a[i] = s[i].answer
  BY <1>1, AnswersSeq
<1>3. IsSeq(b) /\ Len(b) = n /\ \A i \in 1..n : b[i] = e[i].answer
  BY AnswersSeq
<1> HIDE DEF a, b
<1>4. IsSeq(c) /\ Len(c) = 1 + n /\ c[1] = x.answer /\ \A i \in 1..n : c[1 + i] = b[i]
  BY <1>3, SeqCons
<1> HIDE DEF c, n
<1>5. ASSUME NEW i \in 1..(1 + n) PROVE a[i] = c[i]
  <2>1. CASE i = 1
    BY <1>1, <1>2, <1>4, <2>1
  <2>2. CASE i # 1
    <3>1. i - 1 \in 1..n /\ i = 1 + (i - 1)
      BY <1>1, <2>2
    <3>2. s[i] = e[i - 1] /\ c[i] = b[i - 1]
      BY <1>1, <1>4, <3>1
    <3> QED  BY <1>2, <1>3, <3>1, <3>2
  <2> QED  BY <2>1, <2>2
<1>6. a = c
  BY <1>2, <1>4, <1>5, SeqSame
<1> QED  BY <1>6 DEF a, b, c, s

EmitsIn(steps) == {k \in DOMAIN steps : steps[k].do = "Emit"}

LEMMA ItemsIs ==
  ASSUME NEW steps
  PROVE  ItemsOf(steps) = AnswersIn(Selected(steps, EmitsIn(steps)))
  BY DEF ItemsOf, AnswersIn, EmitsIn

LEMMA ItemsNone == ItemsOf(<<>>) = <<>>
<1> DEFINE s == <<>>
           e == Selected(s, EmitsIn(s))
<1>1. IsSeq(s) /\ Len(s) = 0
  BY SeqEmpty
<1>2. PICK f : SelectedWalk(f, s, EmitsIn(s))
  BY <1>1, SelectedWalkExists
<1>3. e = <<>>
  BY <1>1, <1>2 DEF SelectedWalk
<1>4. AnswersIn(<<>>) = <<>>
  <2> DEFINE z == <<>>
  <2>1. IsSeq(z) /\ Len(z) = 0
    BY SeqEmpty
  <2> HIDE DEF z
  <2>2. IsSeq(AnswersIn(z)) /\ Len(AnswersIn(z)) = 0
    BY <2>1, AnswersSeq
  <2>3. AnswersIn(z) = z
    BY <2>1, <2>2, SeqSame
  <2> QED  BY <2>3 DEF z
<1> HIDE DEF e
<1> QED  BY <1>3, <1>4, ItemsIs DEF e

LEMMA ItemsCons ==
  ASSUME NEW steps, IsSeq(steps), steps # <<>>
  PROVE  /\ IsSeq(ItemsOf(Tail(steps)))
         /\ Head(steps).do = "Emit" =>
              ItemsOf(steps) = Cons(Head(steps).answer, ItemsOf(Tail(steps)))
         /\ Head(steps).do # "Emit" => ItemsOf(steps) = ItemsOf(Tail(steps))
<1> DEFINE u == Tail(steps)
           I == EmitsIn(steps)
           J == EmitsIn(u)
<1>1. /\ IsSeq(u) /\ Len(u) = Len(steps) - 1 /\ Head(steps) = steps[1] /\ Len(steps) >= 1
      /\ \A i \in 1..(Len(steps) - 1) : u[i] = steps[i + 1]
  BY SeqTail
<1>2. Len(steps) \in Nat /\ DOMAIN steps = 1..Len(steps) /\ DOMAIN u = 1..Len(u)
  BY <1>1, SeqIs
<1>9. u = Tail(steps)
  OBVIOUS
<1> HIDE DEF u
<1>3. Shift(I, J, Len(u))
  <2>1. \A k \in 1..Len(u) : k + 1 \in 1..Len(steps) /\ u[k] = steps[k + 1]
    BY <1>1, <1>2
  <2> QED  BY <1>2, <2>1 DEF EmitsIn, Shift
<1>4. 1 \in I <=> Head(steps).do = "Emit"
  BY <1>1, <1>2 DEF EmitsIn
<1> HIDE DEF I, J
<1>5. /\ IsSeq(Selected(u, J))
      /\ 1 \in I => Selected(steps, I) = Cons(steps[1], Selected(u, J))
      /\ 1 \notin I => Selected(steps, I) = Selected(u, J)
  BY <1>3, <1>9, SelectedCons
<1>6. ItemsOf(steps) = AnswersIn(Selected(steps, I)) /\ ItemsOf(u) = AnswersIn(Selected(u, J))
  BY ItemsIs DEF I, J
<1>7. AnswersIn(Cons(steps[1], Selected(u, J))) = Cons(steps[1].answer, AnswersIn(Selected(u, J)))
  BY <1>5, AnswersCons
<1>8. IsSeq(AnswersIn(Selected(u, J)))
  BY <1>5, AnswersSeq
<1> QED  BY <1>1, <1>4, <1>5, <1>6, <1>7, <1>8 DEF u

-----------------------------------------------------------------------------
(* What a source has left to say; what it has said and has left is what    *)
(* its script says: all its items, or the one answer of a loop.            *)
Left(steps, s) ==
  IF Looping(steps) THEN (IF s.steps = <<>> THEN 0 ELSE 1) ELSE ItemsOf(s.steps)

LEMMA LoopGoesOn ==
  ASSUME NEW p, NEW s, NEW t \in Nat, NEW work, PolicyOK(p), LoopState(p, s, t, work), s.steps # <<>>
  PROVE  SourceStep(s, t).steps # <<>>
<1> DEFINE u == SourceStep(s, t)
<1>1. PICK n \in 1..p.max : LoopPhase(p, s, t, n, work)
  BY DEF LoopState
<1>2. SourceShape(s)
  BY DEF LoopState
<1>3. CASE Trying(p, s, n)
  <2> DEFINE new == <<Wait(p.takes[n]), Judge(p, n)>>
  <2>1. Head(s.steps) = Try(p, n) /\ Tail(s.steps) = <<>>
    BY <1>3, OneStep DEF Trying
  <2>2. /\ Head(s.steps).do = "Try" /\ Head(s.steps).policy = p /\ Head(s.steps).attempt = n
    BY <2>1 DEF Try
  <2>3. u = [s EXCEPT !.steps = new \o Tail(s.steps), !.tries = Append(s.tries, t)]
    BY <2>2 DEF SourceStep
  <2>6. IsSeq(new) /\ new # <<>>
    BY SeqTwo, TwoSteps
  <2> HIDE DEF new
  <2>4. new \o Tail(s.steps) = new /\ new # <<>>
    BY <2>1, <2>6, ConcatNothing
  <2>5. u.steps = new
    BY <1>2, <2>3, <2>4 DEF SourceShape
  <2> QED  BY <2>4, <2>5
<1>4. CASE Attempting(p, s, n) \/ Backing(p, s, n)
  <2>1. Tail(s.steps) # <<>> /\ Head(s.steps).do = "Wait"
    <3>1. CASE Attempting(p, s, n)
      <4>1. Head(s.steps) = Wait(p.takes[n]) /\ Tail(s.steps) = <<Judge(p, n)>>
        BY <3>1, TwoSteps DEF Attempting
      <4> QED  BY <4>1, OneStep DEF Wait
    <3>2. CASE Backing(p, s, n)
      <4>1. Head(s.steps) = Wait(p.delay) /\ Tail(s.steps) = <<Try(p, n + 1)>>
        BY <3>2, TwoSteps DEF Backing
      <4> QED  BY <4>1, OneStep DEF Wait
    <3> QED  BY <1>4, <3>1, <3>2
  <2>2. u.steps = Tail(s.steps) \/ u.steps = s.steps
    <3> DEFINE due == IF s.due = NotStarted THEN t + Head(s.steps).time ELSE s.due
    <3>1. u = IF due <= t THEN [s EXCEPT !.steps = Tail(s.steps), !.due = NotStarted]
              ELSE [s EXCEPT !.due = due]
      BY <2>1 DEF SourceStep
    <3> QED  BY <1>2, <3>1 DEF SourceShape
  <2> QED  BY <2>1, <2>2
<1>5. CASE Judging(p, s, n)
  <2> DEFINE new == AfterAttempt(p, n)
  <2>1. Head(s.steps) = Judge(p, n) /\ Tail(s.steps) = <<>>
    BY <1>5, OneStep DEF Judging
  <2>2. /\ Head(s.steps).do = "Judge" /\ Head(s.steps).policy = p /\ Head(s.steps).attempt = n
    BY <2>1 DEF Judge
  <2>3. PICK asked : u = [s EXCEPT !.steps = new \o Tail(s.steps), !.asked = asked]
    BY <2>2 DEF SourceStep
  <2>4. IsSeq(new) /\ new # <<>>
    BY SeqOne, SeqTwo, OneStep, TwoSteps DEF AfterAttempt
  <2> HIDE DEF new
  <2>5. new \o Tail(s.steps) = new
    BY <2>1, <2>4, ConcatNothing
  <2>6. u.steps = new
    BY <1>2, <2>3, <2>5 DEF SourceShape
  <2> QED  BY <2>4, <2>6
<1>6. CASE Answers(p, s, n) \/ Answered(p, s, n)
  <2>1. Resting(s, t)
    BY <1>6, OneStep DEF Resting, Answers, Answered, Emit
  <2> QED  BY <1>2, <2>1, RestingStays
<1> QED  BY <1>1, <1>3, <1>4, <1>5, <1>6 DEF LoopPhase

LEMMA LeftStepped ==
  ASSUME NEW steps, NEW s, NEW t \in Nat, SourceFrom(steps, s, t)
  PROVE  SourceFrom(steps, SourceStep(s, t), t) /\ Left(steps, SourceStep(s, t)) = Left(steps, s)
<1> DEFINE u == SourceStep(s, t)
<1>1. SourceFrom(steps, u, t)
  <2>1. SourceAt(steps, u, t, 0 + 1)
    BY SourceAtStart, SourceAtNext
  <2> HIDE DEF u
  <2> QED  BY <2>1 DEF SourceAt, SourceFrom
<1>2. CASE Looping(steps)
  <2>1. CASE s.steps = <<>>
    <3>1. u = s
      BY <2>1 DEF SourceStep
    <3> QED  BY <1>1, <3>1
  <2>2. CASE s.steps # <<>>
    <3>1. PICK work \in Nat : LoopState(steps[1].policy, s, t, work)
      BY <1>2 DEF SourceFrom
    <3>2. PolicyOK(steps[1].policy)
      BY <1>2 DEF Looping
    <3>3. u.steps # <<>>
      BY <2>2, <3>1, <3>2, LoopGoesOn
    <3> QED  BY <1>1, <1>2, <2>2, <3>3 DEF Left
  <2> QED  BY <2>1, <2>2
<1>3. CASE ~ Looping(steps)
  <2>1. PlainState(s)
    BY <1>3 DEF SourceFrom
  <2>2. u.steps \in {s.steps, Tail(s.steps)} /\ (u.steps # s.steps => s.steps # <<>> /\ Head(s.steps).do = "Wait")
    BY <2>1, PlainStepped
  <2>3. IsSeq(s.steps)
    BY <2>1 DEF PlainState, SourceShape
  <2>4. ItemsOf(u.steps) = ItemsOf(s.steps)
    <3>1. CASE u.steps = s.steps
      BY <3>1
    <3>2. CASE u.steps # s.steps
      <4>1. s.steps # <<>> /\ Head(s.steps).do # "Emit" /\ u.steps = Tail(s.steps)
        BY <2>2, <3>2
      <4> QED  BY <2>3, <4>1, ItemsCons
    <3> QED  BY <3>1, <3>2
  <2> QED  BY <1>1, <1>3, <2>4 DEF Left
<1> QED  BY <1>2, <1>3

LEMMA LeftRested ==
  ASSUME NEW steps, NEW s, NEW t \in Nat, SourceFrom(steps, s, t)
  PROVE  Left(steps, Rested(s, t)) = Left(steps, s)
<1>1. PICK f : RestedWalk(f, s, t)
  BY RestedWalkExists
<1> DEFINE A == {k \in 0..Fuel : ~ (SourceFrom(steps, f[k], t) /\ Left(steps, f[k]) = Left(steps, s))}
<1>2. f[0] = s /\ Rested(s, t) = f[Fuel] /\ \A k \in 1..Fuel : f[k] = SourceStep(f[k - 1], t)
  BY <1>1 DEF RestedWalk
<1>3. ASSUME NEW k \in A PROVE \E j \in A : j < k
  <2>1. CASE k = 0
    BY <1>2, <2>1
  <2>2. CASE k # 0
    <3>1. k \in 1..Fuel /\ k - 1 \in 0..Fuel /\ k - 1 < k
      BY <2>2, FuelAssumption
    <3>2. SUFFICES ASSUME k - 1 \notin A PROVE FALSE
      BY <3>1
    <3>3. SourceFrom(steps, f[k - 1], t) /\ Left(steps, f[k - 1]) = Left(steps, s)
      BY <3>1, <3>2
    <3>4. SourceFrom(steps, f[k], t) /\ Left(steps, f[k]) = Left(steps, f[k - 1])
      BY <1>2, <3>1, <3>3, LeftStepped
    <3> QED  BY <3>1, <3>3, <3>4
  <2> QED  BY <2>1, <2>2
<1>4. A = {}
  <2>1. A \subseteq Nat
    BY FuelAssumption
  <2> HIDE DEF A
  <2> QED  BY <1>3, <2>1, NoFirst
<1> QED  BY <1>2, <1>4, FuelAssumption

-----------------------------------------------------------------------------
(* What a leaf has said, and what its source has left.                     *)
Kept(steps, outs, s) ==
  IF Looping(steps) THEN Len(outs) + Left(steps, s) = 1
  ELSE outs \o Left(steps, s) = ItemsOf(steps)

LEMMA ActionIs ==
  ASSUME NEW out, Said(out)
  PROVE  IsAction(out) <=> out \notin {End, Pending}
<1>1. CASE out = End
  BY <1>1, AnswersDiffer DEF IsAction
<1>2. CASE out = Pending
  BY <1>2, AnswersDiffer DEF IsAction
<1>3. CASE out = Quit
  BY <1>3, AnswersDiffer DEF IsAction
<1>4. CASE out = Message(out.of, out.n)
  <2>1. out.kind = "Message" /\ out # End /\ out # Pending
    BY <1>4, MessageFields
  <2> QED  BY <2>1 DEF IsAction
<1> QED  BY <1>1, <1>2, <1>3, <1>4 DEF Said

LEMMA AppendCons ==
  ASSUME NEW a, NEW b, NEW x, IsSeq(a), IsSeq(b)
  PROVE  Append(a, x) \o b = a \o Cons(x, b)
<1> DEFINE d == <<x>>
<1>1. IsSeq(d)
  BY SeqOne
<1>2. Append(a, x) = a \o d
  <2>1. IsSeq(<<>>) /\ a \o <<>> = a
    BY SeqEmpty, ConcatNothing
  <2>2. Append(a \o <<>>, x) = a \o Append(<<>>, x)
    BY <2>1, AppendConcat
  <2>3. Append(<<>>, x) = d
    OBVIOUS
  <2> QED  BY <2>1, <2>2, <2>3
<1>3. Cons(x, b) = d \o b
  BY DEF Cons
<1> HIDE DEF d
<1>4. (a \o d) \o b = a \o (d \o b)
  BY <1>1, ConcatAssoc
<1> QED  BY <1>2, <1>3, <1>4

(* A poll of the source keeps it, if what it says is kept.                 *)
LEMMA KeptPolled ==
  ASSUME NEW steps, NEW s, NEW t \in Nat, SourceFrom(steps, s, t), NEW y, y = PollSource(s, t),
         NEW outs, IsSeq(outs), Kept(steps, outs, s)
  PROVE  /\ y.out \in {End, Pending} => Kept(steps, outs, y.src)
         /\ y.out \notin {End, Pending} => Kept(steps, Append(outs, y.out), y.src)
         /\ y.out \notin {End, Pending} => Truthful(steps, y.out)
         /\ y.out = End => y.src.steps = <<>>
         /\ y.out = Pending => y.src.steps # <<>>
<1> DEFINE r == Rested(s, t)
<1>1. SourceFrom(steps, r, t) /\ Resting(r, t)
  BY RestedRests
<1>2. Left(steps, r) = Left(steps, s)
  BY LeftRested
<1>3. y = Yield(r)
  BY DEF PollSource
<1> HIDE DEF r
<1>4. Kept(steps, outs, r)
  BY <1>2 DEF Kept
<1>5. /\ y.out = End => r.steps = <<>> /\ y.src = r
      /\ y.out = Pending => y.src = r /\ r.steps # <<>>
      /\ y.out \notin {End, Pending} => /\ r.steps # <<>> /\ Head(r.steps).do = "Emit"
                                        /\ y.out = Head(r.steps).answer
                                        /\ y.src.steps = Tail(r.steps)
                                        /\ Truthful(steps, y.out)
  BY <1>1, <1>3, Yielded
<1>6. ASSUME y.out \notin {End, Pending} PROVE Kept(steps, Append(outs, y.out), y.src)
  <2>1. Len(Append(outs, y.out)) = Len(outs) + 1 /\ IsSeq(Append(outs, y.out))
    BY SeqAppend
  <2>2. CASE Looping(steps)
    <3>1. PICK work \in Nat : LoopState(steps[1].policy, r, t, work)
      BY <1>1, <2>2 DEF SourceFrom
    <3>2. PICK n : LoopPhase(steps[1].policy, r, t, n, work)
      BY <3>1 DEF LoopState
    <3>7. r.steps # <<>> /\ Head(r.steps).do = "Emit"
      BY <1>5, <1>6
    <3> DEFINE p == steps[1].policy
    <3>8. ~ Trying(p, r, n) /\ ~ Judging(p, r, n)
      BY <3>7, OneStep DEF Trying, Judging, Try, Judge
    <3>9. ~ Attempting(p, r, n) /\ ~ Backing(p, r, n)
      <4>1. ASSUME Attempting(p, r, n) PROVE FALSE
        <5>1. Head(r.steps) = Wait(p.takes[n])
          BY <4>1, TwoSteps DEF Attempting
        <5> QED  BY <3>7, <5>1 DEF Wait
      <4>2. ASSUME Backing(p, r, n) PROVE FALSE
        <5>1. Head(r.steps) = Wait(p.delay)
          BY <4>2, TwoSteps DEF Backing
        <5> QED  BY <3>7, <5>1 DEF Wait
      <4> QED  BY <4>1, <4>2
    <3>10. Answers(p, r, n)
      BY <3>2, <3>7, <3>8, <3>9 DEF LoopPhase, Answered
    <3>3. Tail(r.steps) = <<>>
      BY <3>10, OneStep DEF Answers
    <3>4. Left(steps, y.src) = 0 /\ Left(steps, r) = 1
      BY <1>5, <1>6, <2>2, <3>3 DEF Left
    <3>5. Len(outs) + 1 = 1
      BY <1>4, <2>2, <3>4 DEF Kept
    <3> QED  BY <2>1, <2>2, <3>4, <3>5, SeqIs DEF Kept
  <2>3. CASE ~ Looping(steps)
    <3>1. IsSeq(r.steps)
      BY <1>1, SourceFromShape DEF SourceShape
    <3>2. /\ IsSeq(ItemsOf(y.src.steps))
          /\ ItemsOf(r.steps) = Cons(y.out, ItemsOf(y.src.steps))
      <4>1. r.steps # <<>> /\ Head(r.steps).do = "Emit" /\ y.out = Head(r.steps).answer
            /\ y.src.steps = Tail(r.steps)
        BY <1>5, <1>6
      <4>2. /\ IsSeq(ItemsOf(Tail(r.steps)))
            /\ ItemsOf(r.steps) = Cons(Head(r.steps).answer, ItemsOf(Tail(r.steps)))
        BY <3>1, <4>1, ItemsCons
      <4> QED  BY <4>1, <4>2
    <3>3. Append(outs, y.out) \o ItemsOf(y.src.steps) = outs \o ItemsOf(r.steps)
      <4> DEFINE rest == ItemsOf(y.src.steps)
                 x == y.out
      <4>1. IsSeq(rest) /\ ItemsOf(r.steps) = Cons(x, rest) /\ IsSeq(outs)
        BY <3>2
      <4> HIDE DEF rest, x
      <4>2. Append(outs, x) \o rest = outs \o Cons(x, rest)
        BY <4>1, AppendCons
      <4> QED  BY <4>1, <4>2 DEF rest, x
    <3>4. Left(steps, y.src) = ItemsOf(y.src.steps) /\ Left(steps, r) = ItemsOf(r.steps)
      BY <2>3 DEF Left
    <3> QED  BY <1>4, <2>3, <3>3, <3>4 DEF Kept
  <2> QED  BY <2>2, <2>3
<1> QED  BY <1>4, <1>5, <1>6

-----------------------------------------------------------------------------
(* A pending leaf, of the record it was pushed with.                       *)
LeafFields == {"src", "layers", "key", "scope", "position", "buffered", "ended"}

LeafShape(leaf) ==
  /\ (DOMAIN leaf) = LeafFields
  /\ leaf.ended \in BOOLEAN
  /\ leaf.buffered = Nothing \/ IsAction(leaf.buffered)

RecordOK(rec) ==
  /\ BasesOK(rec.pushed.layers)
  /\ rec.at \in Nat
  /\ IsSeq(rec.pushed.src.steps)

LeafAt(rec, leaf, t) ==
  /\ SourceFrom(rec.pushed.src.steps, leaf.src, t)
  /\ LayersAt(rec.pushed.layers, leaf.layers, rec.at, t)
  /\ Anchoring(leaf.layers, rec.at, t)

IsTimeout(out) == out.of = "timeout"

OneTimeout(outs) ==
  \A i, j \in DOMAIN outs : IsTimeout(outs[i]) /\ IsTimeout(outs[j]) => i = j

(* A loop's leaf says one thing, that the loop said or a timeout.          *)
Honest(steps, outs) ==
  Looping(steps) => /\ Len(outs) <= 1
                    /\ \A i \in DOMAIN outs : IsTimeout(outs[i]) \/ Truthful(steps, outs[i])

(* What it has said: no more than one timeout, and then a layer is closed; *)
(* its script, unless a deadline has passed.                               *)
LeafSaid(rec, leaf, outs, t) ==
  /\ IsSeq(outs) /\ OneTimeout(outs) /\ Honest(rec.pushed.src.steps, outs)
  /\ (\E i \in DOMAIN outs : IsTimeout(outs[i])) => AnyClosed(leaf.layers)
  /\ Kept(rec.pushed.src.steps, outs, leaf.src) \/ AnyExpired(leaf.layers, t)
  /\ AnyClosed(leaf.layers) => \/ AnyExpired(leaf.layers, t) \/ leaf.src.steps = <<>>
                               \/ \E i \in DOMAIN outs : outs[i] = Quit
  /\ leaf.ended => leaf.src.steps = <<>> \/ AnyClosed(leaf.layers)

LEMMA LaterLayers ==
  ASSUME NEW bases, NEW layers, NEW b \in Nat, NEW t \in Nat, NEW u \in Nat, t <= u, BasesOK(bases),
         LayersAt(bases, layers, b, t)
  PROVE  /\ LayersAt(bases, layers, b, u)
         /\ AnyExpired(layers, t) => AnyExpired(layers, u)
<1>1. \A i \in 1..Len(bases) : bases[i].duration \in Nat
  BY DEF BasesOK
<1>2. IsSeq(layers) /\ Len(layers) = Len(bases) /\ (DOMAIN layers) = 1..Len(bases)
      /\ \A i \in 1..Len(bases) : LayerState(bases[i], layers[i], b, t)
  BY SeqIs DEF LayersAt
<1>3. ASSUME NEW i \in 1..Len(bases)
      PROVE  LayerState(bases[i], layers[i], b, u) /\ (Expired(layers[i], t) => Expired(layers[i], u))
  <2> DEFINE l == layers[i]
             base == bases[i]
             d == l.deadline
  <2>1. LayerState(base, l, b, t) /\ base.duration \in Nat
    BY <1>1, <1>2
  <2>2. d \in Int
    BY <2>1 DEF LayerState, NotStarted
  <2>3. d <= t => d <= u
    BY <2>2
  <2> QED  BY <2>1, <2>3 DEF LayerState, Expired
<1> QED  BY <1>2, <1>3 DEF LayersAt, AnyExpired

LEMMA LeafLater ==
  ASSUME NEW rec, NEW leaf, NEW outs, NEW t \in Nat, NEW u \in Nat, t <= u, RecordOK(rec),
         LeafAt(rec, leaf, t), LeafSaid(rec, leaf, outs, t), Running(leaf.layers)
  PROVE  LeafAt(rec, leaf, u) /\ LeafSaid(rec, leaf, outs, u)
<1>1. /\ LayersAt(rec.pushed.layers, leaf.layers, rec.at, u)
      /\ AnyExpired(leaf.layers, t) => AnyExpired(leaf.layers, u)
  BY LaterLayers DEF RecordOK, LeafAt
<1>2. SourceFrom(rec.pushed.src.steps, leaf.src, u)
  BY SourceLater DEF LeafAt
<1>3. LeafAt(rec, leaf, u)
  BY <1>1, <1>2 DEF LeafAt, Anchoring
<1>4. LeafSaid(rec, leaf, outs, u)
  BY <1>1 DEF LeafSaid
<1> QED  BY <1>3, <1>4

(* Its layers expire only by closing.                                      *)
LEMMA ExpiredIsClosed ==
  ASSUME NEW layers, NEW t, AnyExpired(layers, t)
  PROVE  AnyClosed(layers)
  BY DEF AnyExpired, Expired, AnyClosed

LEMMA PolledFields ==
  ASSUME NEW leaf, NEW r, LeafShape(leaf), NEW m, m = PolledLeaf(leaf, r)
  PROVE  /\ LeafShape(m) /\ m.src = r.src /\ m.layers = r.layers /\ (m.ended <=> r.out = End)
         /\ m.key = leaf.key /\ m.scope = leaf.scope /\ m.position = leaf.position
         /\ m.buffered = leaf.buffered
<1> DEFINE ended == (r.out = End)
<1>1. ended \in BOOLEAN /\ (ended <=> r.out = End)
  OBVIOUS
<1>2. m = [leaf EXCEPT !.src = r.src, !.layers = r.layers, !.ended = ended]
  BY DEF PolledLeaf
<1> HIDE DEF ended
<1>3. /\ (DOMAIN m) = LeafFields /\ m.src = r.src /\ m.layers = r.layers /\ m.ended = ended
      /\ m.key = leaf.key /\ m.scope = leaf.scope /\ m.position = leaf.position
      /\ m.buffered = leaf.buffered
  BY <1>2 DEF LeafShape, LeafFields
<1> QED  BY <1>1, <1>3 DEF LeafShape

(* One poll of a leaf that has not ended and holds nothing.                *)
PolledWell(rec, leaf, outs, closures, t, r, m) ==
  /\ Said(r.out)
  /\ FiredOK(r.fired, r.spent) /\ closures \subseteq r.spent
  /\ LeafAt(rec, m, t) /\ Running(m.layers)
  /\ LeafSaid(rec, m, IF IsAction(r.out) THEN Append(outs, r.out) ELSE outs, t)

LEMMA NoTimeoutYet ==
  ASSUME NEW outs, IsSeq(outs), \A i \in DOMAIN outs : ~ IsTimeout(outs[i]), NEW out
  PROVE  OneTimeout(Append(outs, out))
<1> DEFINE s == Append(outs, out)
           n == Len(outs)
<1>1. n \in Nat /\ (DOMAIN outs) = 1..n
  BY SeqIs
<1>2. IsSeq(s) /\ Len(s) = n + 1 /\ (\A i \in 1..n : s[i] = outs[i]) /\ (DOMAIN s) = 1..(n + 1)
  BY SeqAppend, SeqIs
<1> HIDE DEF s, n
<1>3. \A i \in 1..(n + 1) : IsTimeout(s[i]) => i = n + 1
  <2>1. ASSUME NEW i \in 1..(n + 1), i # n + 1 PROVE ~ IsTimeout(s[i])
    <3>1. i \in 1..n
      BY <1>1, <2>1
    <3> QED  BY <1>1, <1>2, <3>1
  <2> QED  BY <2>1
<1> QED  BY <1>2, <1>3 DEF OneTimeout, s

LEMMA NotTimeout ==
  ASSUME NEW outs, IsSeq(outs), OneTimeout(outs), NEW out, ~ IsTimeout(out)
  PROVE  /\ OneTimeout(Append(outs, out))
         /\ (\E i \in DOMAIN Append(outs, out) : IsTimeout(Append(outs, out)[i]))
              => \E i \in DOMAIN outs : IsTimeout(outs[i])
<1> DEFINE s == Append(outs, out)
           n == Len(outs)
<1>1. n \in Nat /\ (DOMAIN outs) = 1..n
  BY SeqIs
<1>2. IsSeq(s) /\ Len(s) = n + 1 /\ (\A i \in 1..n : s[i] = outs[i]) /\ (DOMAIN s) = 1..(n + 1)
      /\ s[n + 1] = out
  BY SeqAppend, SeqIs
<1> HIDE DEF s, n
<1>3. \A i \in 1..(n + 1) : IsTimeout(s[i]) => i \in 1..n /\ s[i] = outs[i]
  <2>1. ASSUME NEW i \in 1..(n + 1), IsTimeout(s[i]) PROVE i \in 1..n
    BY <1>1, <1>2, <2>1
  <2> QED  BY <1>2, <2>1
<1>4. OneTimeout(s)
  BY <1>1, <1>2, <1>3 DEF OneTimeout
<1>5. (\E i \in DOMAIN s : IsTimeout(s[i])) => \E i \in DOMAIN outs : IsTimeout(outs[i])
  BY <1>1, <1>2, <1>3
<1> QED  BY <1>4, <1>5 DEF s

LEMMA LeafPolled ==
  ASSUME NEW rec, NEW leaf, NEW outs, NEW t \in Nat, RecordOK(rec), rec.at <= t, LeafShape(leaf),
         LeafAt(rec, leaf, t), LeafSaid(rec, leaf, outs, t),
         NEW closures, NEW calls, FiredOK(calls, closures),
         NEW r, r = PollLeaf(leaf, closures, calls, t), NEW m, m = PolledLeaf(leaf, r)
  PROVE  PolledWell(rec, leaf, outs, closures, t, r, m)
<1> DEFINE y == PollSource(leaf.src, t)
           steps == rec.pushed.src.steps
           bases == rec.pushed.layers
           b == rec.at
           n == Len(bases)
           said == IF IsAction(r.out) THEN Append(outs, r.out) ELSE outs
<1>0. y = PollSource(leaf.src, t) /\ b \in Nat /\ b <= t /\ BasesOK(bases)
  BY DEF RecordOK
<1>1. SourceFrom(steps, leaf.src, t) /\ LayersAt(bases, leaf.layers, b, t) /\ Anchoring(leaf.layers, b, t)
  BY DEF LeafAt
<1> HIDE DEF y, b, bases, steps
<1>2. SourceFrom(steps, y.src, t) /\ Said(y.out) /\ y.out.of # "timeout"
  BY <1>0, <1>1, SourcePolled
<1>3. PolledTo(bases, leaf, closures, y, b, t, n, r)
  BY <1>0, <1>1, <1>2, LayersPolled
<1>4. m.src = r.src /\ m.layers = r.layers /\ (m.ended <=> r.out = End)
  BY PolledFields
<1>5. n \in Nat
  BY <1>0, SeqIs DEF BasesOK
<1>6. /\ LayersAt(bases, r.layers, b, t)
      /\ Said(r.out) /\ FiredOK(r.fired, r.spent) /\ closures \subseteq r.spent
      /\ r.out.of = "timeout" => AnyClosed(r.layers)
  BY <1>3 DEF PolledTo
<1>a. Relayed(y.out, r.out)
  BY <1>3 DEF PolledTo
<1>7. (DOMAIN r.layers) = 1..n /\ (DOMAIN leaf.layers) = 1..n
  BY <1>1, <1>6, SeqIs DEF LayersAt
<1>8. Running(r.layers)
  BY <1>3, <1>5, <1>7 DEF PolledTo, Running
<1>9. \A j \in 1..n : ~ leaf.layers[j].open => r.layers[j] = leaf.layers[j]
  BY <1>3 DEF PolledTo
<1>10. AnyClosed(leaf.layers) => AnyClosed(r.layers)
  BY <1>7, <1>9 DEF AnyClosed
<1>11. AnyExpired(leaf.layers, t) => AnyExpired(r.layers, t)
  BY <1>7, <1>9 DEF AnyExpired, Expired
<1>12. /\ IsSeq(outs) /\ OneTimeout(outs) /\ Honest(steps, outs)
       /\ (\E i \in DOMAIN outs : IsTimeout(outs[i])) => AnyClosed(leaf.layers)
       /\ Kept(steps, outs, leaf.src) \/ AnyExpired(leaf.layers, t)
       /\ AnyClosed(leaf.layers) => \/ AnyExpired(leaf.layers, t) \/ leaf.src.steps = <<>>
                                    \/ \E i \in DOMAIN outs : outs[i] = Quit
  BY DEF LeafSaid, steps
<1>13. IsAction(r.out) <=> r.out \notin {End, Pending}
  BY <1>6, ActionIs
<1>14. LeafAt(rec, m, t)
  <2>1. SourceFrom(steps, r.src, t)
    <3>1. r.src = leaf.src \/ r.src = y.src
      BY <1>3 DEF PolledTo, Ran
    <3> QED  BY <1>1, <1>2, <3>1
  <2> QED  BY <1>4, <1>6, <1>8, <2>1 DEF LeafAt, Anchoring, steps, bases, b
<1>15. CASE r.src = leaf.src /\ r.out = End /\ AnyClosed(leaf.layers)
  <2>1. said = outs
    BY <1>13, <1>15
  <2>2. LeafSaid(rec, m, outs, t)
    BY <1>4, <1>10, <1>11, <1>12, <1>15 DEF LeafSaid, steps
  <2> QED  BY <1>4, <1>6, <1>8, <1>14, <2>1, <2>2 DEF PolledWell
<1>16. CASE Ran(leaf, y, t, r) /\ \A j \in 1..n : j <= n => leaf.layers[j].open
  <2>1. ~ AnyClosed(leaf.layers)
    BY <1>5, <1>7, <1>16 DEF AnyClosed
  <2>2. ~ AnyExpired(leaf.layers, t)
    BY <2>1, ExpiredIsClosed
  <2>3. Kept(steps, outs, leaf.src) /\ \A i \in DOMAIN outs : ~ IsTimeout(outs[i])
    BY <1>12, <2>1, <2>2
  <2>4. /\ y.out \in {End, Pending} => Kept(steps, outs, y.src)
        /\ y.out \notin {End, Pending} => Kept(steps, Append(outs, y.out), y.src)
        /\ y.out \notin {End, Pending} => Truthful(steps, y.out)
        /\ y.out = End => y.src.steps = <<>>
        /\ y.out = Pending => y.src.steps # <<>>
    BY <1>0, <1>1, <1>12, <2>3, KeptPolled
  <2>5. r.src = y.src /\ (r.out = y.out \/ AnyExpired(r.layers, t))
    BY <1>16 DEF Ran
  <2>6. AnyExpired(r.layers, t) => AnyClosed(r.layers)
    BY ExpiredIsClosed
  <2>7. Kept(steps, said, r.src) \/ AnyExpired(r.layers, t)
    BY <1>13, <2>4, <2>5
  <2>8. IsSeq(said) /\ OneTimeout(said)
    BY <1>12, <2>3, NoTimeoutYet, SeqAppend
  <2>9. (\E i \in DOMAIN said : IsTimeout(said[i])) => AnyClosed(r.layers)
    <3>1. CASE ~ IsAction(r.out)
      BY <2>3, <3>1
    <3>2. CASE IsAction(r.out) /\ ~ IsTimeout(r.out)
      <4>1. (\E i \in DOMAIN Append(outs, r.out) : IsTimeout(Append(outs, r.out)[i]))
              => \E i \in DOMAIN outs : IsTimeout(outs[i])
        BY <1>12, <3>2, NotTimeout
      <4> QED  BY <2>3, <3>2, <4>1
    <3>3. CASE IsTimeout(r.out)
      BY <1>6, <3>3 DEF IsTimeout
    <3> QED  BY <3>1, <3>2, <3>3
  <2>10. AnyClosed(r.layers) => \/ AnyExpired(r.layers, t) \/ r.src.steps = <<>>
                                \/ \E i \in DOMAIN said : said[i] = Quit
    <3>1. AnyClosed(r.layers) => y.out = End \/ y.out = Quit \/ AnyExpired(r.layers, t)
      BY <1>3, <2>1 DEF PolledTo
    <3>2. ASSUME r.out = Quit PROVE \E i \in DOMAIN said : said[i] = Quit
      <4> DEFINE s == Append(outs, r.out)
                 k == Len(outs)
      <4>1. said = s
        BY <1>13, <3>2, AnswersDiffer
      <4>2. IsSeq(s) /\ Len(s) = k + 1 /\ s[k + 1] = Quit /\ k \in Nat /\ (DOMAIN s) = 1..(k + 1)
        BY <1>12, <3>2, SeqAppend, SeqIs
      <4> HIDE DEF k, s, said
      <4>3. k + 1 \in DOMAIN s
        BY <4>2
      <4> QED  BY <4>1, <4>2, <4>3
    <3> QED  BY <2>4, <2>5, <3>1, <3>2
  <2>11. m.ended => r.src.steps = <<>> \/ AnyClosed(r.layers)
    BY <1>4, <2>4, <2>5, <2>6
  <2>13. Honest(steps, said)
    <3>1. CASE ~ IsAction(r.out)
      BY <1>12, <3>1
    <3>2. CASE IsAction(r.out) /\ Looping(steps)
      <4>1. y.out # End
        BY <1>13, <1>a, <3>2 DEF Relayed
      <4>2. IsTimeout(r.out) \/ Truthful(steps, r.out)
        BY <1>13, <1>a, <2>4, <3>2 DEF Relayed, IsTimeout
      <4>3. Len(outs) = 0
        <5>1. CASE y.out = Pending
          <6>1. Kept(steps, outs, y.src) /\ y.src.steps # <<>>
            BY <2>4, <5>1
          <6> QED  BY <1>12, <3>2, <6>1, SeqIs DEF Kept, Left
        <5>2. CASE y.out \notin {End, Pending}
          <6>1. Kept(steps, Append(outs, y.out), y.src) /\ Len(Append(outs, y.out)) = Len(outs) + 1
            BY <1>12, <2>4, <5>2, SeqAppend
          <6> QED  BY <1>12, <3>2, <6>1, SeqIs DEF Kept, Left
        <5> QED  BY <4>1, <5>1, <5>2
      <4> DEFINE v == Append(outs, r.out)
      <4>4. Len(v) = 1 /\ v[1] = r.out /\ (DOMAIN v) = 1..1
        <5>1. IsSeq(v) /\ Len(v) = Len(outs) + 1 /\ v[Len(outs) + 1] = r.out
          BY <1>12, SeqAppend
        <5> HIDE DEF v
        <5> QED  BY <4>3, <5>1, SeqIs
      <4> HIDE DEF v
      <4>5. Honest(steps, v)
        BY <4>2, <4>4 DEF Honest
      <4> QED  BY <3>2, <4>5 DEF v
    <3>3. CASE ~ Looping(steps)
      BY <3>3 DEF Honest
    <3> QED  BY <3>1, <3>2, <3>3
  <2> HIDE DEF said
  <2>12. LeafSaid(rec, m, said, t)
    BY <1>4, <2>7, <2>8, <2>9, <2>10, <2>11, <2>13 DEF LeafSaid, steps
  <2> QED  BY <1>4, <1>6, <1>8, <1>14, <2>12 DEF PolledWell, said
<1> QED  BY <1>3, <1>15, <1>16 DEF PolledTo

-----------------------------------------------------------------------------
(* What was heard from a leaf, as the history of deliveries grows.         *)

LEMMA SelectedAppend ==
  ASSUME NEW s, NEW e, NEW I, NEW J, IsSeq(s), \A k \in 1..Len(s) : k \in J <=> k \in I
  PROVE  /\ IsSeq(Selected(s, J))
         /\ Len(s) + 1 \in I => Selected(Append(s, e), I) = Append(Selected(s, J), e)
         /\ Len(s) + 1 \notin I => Selected(Append(s, e), I) = Selected(s, J)
<1> DEFINE n == Len(s)
           u == Append(s, e)
<1>1. n \in Nat /\ IsSeq(u) /\ Len(u) = n + 1 /\ (\A i \in 1..n : u[i] = s[i]) /\ u[n + 1] = e
  BY SeqIs, SeqAppend
<1> HIDE DEF u
<1>2. PICK f : SelectedWalk(f, u, I)
  BY <1>1, SelectedWalkExists
<1>3. PICK g : SelectedWalk(g, s, J)
  BY SelectedWalkExists
<1> DEFINE A == {k \in 0..n : f[k] # g[k]}
<1>4. /\ f[0] = <<>> /\ Selected(u, I) = f[n + 1]
      /\ \A k \in 1..(n + 1) : f[k] = (IF k \in I THEN Append(f[k - 1], u[k]) ELSE f[k - 1])
  BY <1>1, <1>2 DEF SelectedWalk
<1>5. /\ g[0] = <<>> /\ Selected(s, J) = g[n]
      /\ \A k \in 1..n : g[k] = (IF k \in J THEN Append(g[k - 1], s[k]) ELSE g[k - 1])
  BY <1>3 DEF SelectedWalk
<1>6. IsSeq(g[n])
  <2>1. n \in 0..Len(s)
    BY <1>1
  <2> QED  BY <1>3, <2>1, SelectedSeq
<1>10. \A k \in 1..n : k \in J <=> k \in I
  OBVIOUS
<1> HIDE DEF n
<1>7. ASSUME NEW k \in A PROVE \E j \in A : j < k
  <2>1. CASE k = 0
    BY <1>4, <1>5, <2>1
  <2>2. CASE k # 0
    <3>1. k \in 1..n /\ k - 1 \in 0..n /\ k - 1 < k /\ k \in 1..(n + 1)
      BY <1>1, <2>2
    <3>2. SUFFICES ASSUME k - 1 \notin A PROVE FALSE
      BY <3>1
    <3>3. f[k - 1] = g[k - 1]
      BY <3>1, <3>2
    <3>4. f[k] = g[k]
      BY <1>1, <1>4, <1>5, <1>10, <3>1, <3>3
    <3> QED  BY <3>4
  <2> QED  BY <2>1, <2>2
<1>8. A = {}
  <2>1. A \subseteq Nat
    BY <1>1
  <2> HIDE DEF A
  <2> QED  BY <1>7, <2>1, NoFirst
<1>9. f[n] = g[n] /\ (n + 1) - 1 = n /\ n + 1 \in 1..(n + 1)
  BY <1>1, <1>8
<1>11. f[n + 1] = (IF n + 1 \in I THEN Append(f[n], u[n + 1]) ELSE f[n])
  BY <1>4, <1>9
<1> QED  BY <1>1, <1>4, <1>5, <1>6, <1>9, <1>11 DEF n, u

LEMMA AnswersAppend ==
  ASSUME NEW e, NEW x, IsSeq(e)
  PROVE  AnswersIn(Append(e, x)) = Append(AnswersIn(e), x.answer)
<1> DEFINE n == Len(e)
           s == Append(e, x)
           a == AnswersIn(s)
           b == AnswersIn(e)
           c == Append(b, x.answer)
<1>1. n \in Nat /\ IsSeq(s) /\ Len(s) = n + 1 /\ s[n + 1] = x /\ \A i \in 1..n : s[i] = e[i]
  BY SeqIs, SeqAppend
<1> HIDE DEF s
<1>2. IsSeq(a) /\ Len(a) = n + 1 /\ \A i \in 1..(n + 1) : a[i] = s[i].answer
  BY <1>1, AnswersSeq
<1>3. IsSeq(b) /\ Len(b) = n /\ \A i \in 1..n : b[i] = e[i].answer
  BY AnswersSeq
<1> HIDE DEF a, b
<1>4. IsSeq(c) /\ Len(c) = n + 1 /\ c[n + 1] = x.answer /\ \A i \in 1..n : c[i] = b[i]
  BY <1>3, SeqAppend
<1> HIDE DEF c, n
<1>5. ASSUME NEW i \in 1..(n + 1) PROVE a[i] = c[i]
  <2>1. CASE i = n + 1
    BY <1>1, <1>2, <1>4, <2>1
  <2>2. CASE i # n + 1
    <3>1. i \in 1..n
      BY <1>1, <2>2
    <3> QED  BY <1>1, <1>2, <1>3, <1>4, <3>1
  <2> QED  BY <2>1, <2>2
<1>6. a = c
  BY <1>2, <1>4, <1>5, SeqSame
<1> QED  BY <1>6 DEF a, b, c, s

Mine(history, p) == {k \in DOMAIN history : history[k].position = p}

LEMMA HeardIs ==
  ASSUME NEW history, NEW p
  PROVE  HeardFrom(history, p) = AnswersIn(Selected(history, Mine(history, p)))
  BY DEF HeardFrom, AnswersIn, Mine

LEMMA HeardAppend ==
  ASSUME NEW history, NEW e, NEW p, IsSeq(history)
  PROVE  /\ IsSeq(HeardFrom(history, p))
         /\ e.position = p => HeardFrom(Append(history, e), p) = Append(HeardFrom(history, p), e.answer)
         /\ e.position # p => HeardFrom(Append(history, e), p) = HeardFrom(history, p)
<1> DEFINE n == Len(history)
           u == Append(history, e)
           I == Mine(u, p)
           J == Mine(history, p)
           s == Selected(history, J)
<1>1. /\ n \in Nat /\ IsSeq(u) /\ Len(u) = n + 1 /\ u[n + 1] = e /\ \A i \in 1..n : u[i] = history[i]
      /\ (DOMAIN u) = 1..(n + 1) /\ (DOMAIN history) = 1..n
  BY SeqIs, SeqAppend
<1>9. u = Append(history, e)
  OBVIOUS
<1> HIDE DEF u
<1>2. /\ \A k \in 1..Len(history) : k \in J <=> k \in I
      /\ Len(history) + 1 \in I <=> e.position = p
  <2> HIDE DEF n
  <2>1. (\A k \in 1..n : k \in J <=> k \in I) /\ (n + 1 \in I <=> e.position = p)
    BY <1>1 DEF Mine
  <2> QED  BY <2>1 DEF n
<1> HIDE DEF I, J
<1>3. /\ IsSeq(s)
      /\ Len(history) + 1 \in I => Selected(u, I) = Append(s, e)
      /\ Len(history) + 1 \notin I => Selected(u, I) = s
  BY <1>2, <1>9, SelectedAppend
<1>4. HeardFrom(history, p) = AnswersIn(s) /\ HeardFrom(u, p) = AnswersIn(Selected(u, I))
  BY HeardIs DEF I, J
<1> HIDE DEF s
<1>5. IsSeq(AnswersIn(s)) /\ AnswersIn(Append(s, e)) = Append(AnswersIn(s), e.answer)
  BY <1>3, AnswersSeq, AnswersAppend
<1> QED  BY <1>2, <1>3, <1>4, <1>5, <1>9

LEMMA HeardSeq ==
  ASSUME NEW history, NEW p, IsSeq(history)
  PROVE  IsSeq(HeardFrom(history, p))
<1>1. PICK e : e = 0
  OBVIOUS
<1> QED  BY HeardAppend

LEMMA HeardNothing ==
  ASSUME NEW p
  PROVE  HeardFrom(<<>>, p) = <<>>
<1> DEFINE s == <<>>
           I == Mine(s, p)
           e == Selected(s, I)
<1>1. IsSeq(s) /\ Len(s) = 0
  BY SeqEmpty
<1>2. PICK f : SelectedWalk(f, s, I)
  BY <1>1, SelectedWalkExists
<1>3. e = <<>>
  BY <1>1, <1>2 DEF SelectedWalk
<1>4. AnswersIn(<<>>) = <<>>
  <2> DEFINE z == <<>>
  <2>1. IsSeq(z) /\ Len(z) = 0
    BY SeqEmpty
  <2> HIDE DEF z
  <2>2. IsSeq(AnswersIn(z)) /\ Len(AnswersIn(z)) = 0
    BY <2>1, AnswersSeq
  <2>3. AnswersIn(z) = z
    BY <2>1, <2>2, SeqSame
  <2> QED  BY <2>3 DEF z
<1>5. HeardFrom(<<>>, p) = AnswersIn(e)
  BY HeardIs
<1> HIDE DEF e
<1> QED  BY <1>3, <1>4, <1>5

(* A delivery is among what was heard of its leaf.                         *)
LEMMA HeardIn ==
  ASSUME NEW history, IsSeq(history), NEW i \in DOMAIN history, NEW p, p = history[i].position
  PROVE  \E k \in DOMAIN HeardFrom(history, p) : HeardFrom(history, p)[k] = history[i].answer
<1> DEFINE I == Mine(history, p)
           s == Selected(history, I)
           a == AnswersIn(s)
<1>1. I \subseteq 1..Len(history) /\ i \in I
  BY SeqIs DEF Mine
<1> HIDE DEF I
<1>2. PICK g : Enumerates(g, s, history, I)
  BY <1>1, SelectedIs DEF Enumerated
<1> HIDE DEF s
<1>3. IsSeq(s) /\ (\A k \in 1..Len(s) : s[k] = history[g[k]])
      /\ \A k \in I : \E m \in 1..Len(s) : g[m] = k
  BY <1>2 DEF Enumerates
<1>4. IsSeq(a) /\ Len(a) = Len(s) /\ \A k \in 1..Len(s) : a[k] = s[k].answer
  BY <1>3, AnswersSeq
<1>5. HeardFrom(history, p) = a
  BY HeardIs DEF s, I
<1> HIDE DEF a
<1>6. PICK m \in 1..Len(s) : g[m] = i
  BY <1>1, <1>3
<1>7. m \in DOMAIN a /\ a[m] = history[i].answer
  BY <1>3, <1>4, <1>6, SeqIs
<1> QED  BY <1>5, <1>7

(* One answer of a leaf is one delivery.                                   *)
LEMMA OneHeard ==
  ASSUME NEW history, NEW p, IsSeq(history), Len(HeardFrom(history, p)) <= 1,
         NEW i \in DOMAIN history, NEW j \in DOMAIN history,
         history[i].position = p, history[j].position = p
  PROVE  j = i
<1> DEFINE I == Mine(history, p)
           s == Selected(history, I)
           a == AnswersIn(s)
<1>1. I \subseteq 1..Len(history) /\ i \in I /\ j \in I
  BY SeqIs DEF Mine
<1> HIDE DEF I
<1>2. PICK g : Enumerates(g, s, history, I)
  BY <1>1, SelectedIs DEF Enumerated
<1> HIDE DEF s
<1>3. IsSeq(s) /\ \A k \in I : \E m \in 1..Len(s) : g[m] = k
  BY <1>2 DEF Enumerates
<1>4. Len(a) = Len(s) /\ HeardFrom(history, p) = a /\ Len(s) \in Nat
  <2>1. HeardFrom(history, p) = a
    BY HeardIs DEF s, I
  <2> QED  BY <1>3, <2>1, AnswersSeq, SeqIs
<1> HIDE DEF a
<1>5. PICK m \in 1..Len(s) : g[m] = i
  BY <1>1, <1>3
<1>6. PICK k \in 1..Len(s) : g[k] = j
  BY <1>1, <1>3
<1>7. m = 1 /\ k = 1
  BY <1>4
<1> QED  BY <1>5, <1>6, <1>7

(* Two timeouts of one leaf are one delivery.                              *)
LEMMA OneTimeoutHeard ==
  ASSUME NEW history, NEW p, IsSeq(history), OneTimeout(HeardFrom(history, p)),
         NEW i \in DOMAIN history, NEW j \in DOMAIN history,
         history[i].position = p, history[j].position = p,
         IsTimeout(history[i].answer), IsTimeout(history[j].answer)
  PROVE  i = j
<1> DEFINE I == Mine(history, p)
           s == Selected(history, I)
           a == AnswersIn(s)
<1>1. I \subseteq 1..Len(history) /\ i \in I /\ j \in I
  BY SeqIs DEF Mine
<1> HIDE DEF I
<1>2. PICK g : Enumerates(g, s, history, I)
  BY <1>1, SelectedIs DEF Enumerated
<1> HIDE DEF s
<1>3. IsSeq(s) /\ (\A k \in 1..Len(s) : s[k] = history[g[k]])
      /\ \A k \in I : \E m \in 1..Len(s) : g[m] = k
  BY <1>2 DEF Enumerates
<1>4. IsSeq(a) /\ Len(a) = Len(s) /\ \A k \in 1..Len(s) : a[k] = s[k].answer
  BY <1>3, AnswersSeq
<1>5. HeardFrom(history, p) = a
  BY HeardIs DEF s, I
<1> HIDE DEF a
<1>6. PICK m \in 1..Len(s) : g[m] = i
  BY <1>1, <1>3
<1>7. PICK k \in 1..Len(s) : g[k] = j
  BY <1>1, <1>3
<1>8. IsTimeout(a[m]) /\ IsTimeout(a[k]) /\ m \in DOMAIN a /\ k \in DOMAIN a
  BY <1>3, <1>4, <1>6, <1>7, SeqIs
<1> QED  BY <1>5, <1>6, <1>7, <1>8 DEF OneTimeout

-----------------------------------------------------------------------------
(* The book of a store, at time t, when h has been delivered.              *)
BookFields == {"pending", "armed", "running", "spent", "leaves", "hooks", "fired", "revoked",
               "started", "refusals"}

LeafGood(rec, leaf, heard, t) ==
  /\ LeafShape(leaf) /\ LeafAt(rec, leaf, t)
  /\ LeafSaid(rec, leaf, heard \o BufferOf(leaf), t)
  /\ leaf.ended \/ IsBuffered(leaf) => Running(leaf.layers)

Records(recs, t) ==
  /\ IsSeq(recs)
  /\ \A p \in 1..Len(recs) : /\ RecordOK(recs[p]) /\ recs[p].at <= t
                             /\ recs[p].pushed.position = p - 1
                             /\ Plain(recs[p].pushed.src.steps) \/ Looping(recs[p].pushed.src.steps)

InOrder(list, n) ==
  /\ IsSeq(list)
  /\ \A i \in 1..Len(list) : list[i].position \in 0..(n - 1)
  /\ \A i, j \in 1..Len(list) : i < j => list[i].position < list[j].position

(* A leaf that is gone: heard to its end, or to its quit, or overdue.      *)
Finished(rec, heard, t) ==
  \/ IF Looping(rec.pushed.src.steps) THEN Len(heard) = 1
                                      ELSE heard = ItemsOf(rec.pushed.src.steps)
  \/ \E i \in DOMAIN rec.pushed.layers : rec.at + rec.pushed.layers[i].duration <= t
  \/ \E i \in DOMAIN heard : heard[i] = Quit

Gone(list, revokedOnes, p) == p \notin PositionsOf(list) /\ p \notin revokedOnes

HeardOK(h, n) ==
  /\ IsSeq(h)
  /\ \A k \in DOMAIN h : h[k].position \in 0..(n - 1)
  /\ \A p \in Nat : OneTimeout(HeardFrom(h, p))

LeavesOK(list, recs, h, t) ==
  \A i \in 1..Len(list) :
    LeafGood(recs[list[i].position + 1], list[i], HeardFrom(h, list[i].position), t)

GoneOK(list, revokedOnes, recs, h, t) ==
  \A p \in 1..Len(recs) :
    Gone(list, revokedOnes, p - 1) => Finished(recs[p], HeardFrom(h, p - 1), t)

HonestOK(recs, h) ==
  \A p \in 1..Len(recs) : Honest(recs[p].pushed.src.steps, HeardFrom(h, p - 1))

BookOK(book, h, t) ==
  /\ (DOMAIN book) = BookFields
  /\ Records(book.leaves, t)
  /\ InOrder(book.pending, Len(book.leaves))
  /\ LeavesOK(book.pending, book.leaves, h, t)
  /\ FiredOK(book.fired, book.spent)
  /\ HeardOK(h, Len(book.leaves))
  /\ GoneOK(book.pending, book.revoked, book.leaves, h, t)
  /\ HonestOK(book.leaves, h)

SameRest(b, book) ==
  /\ (DOMAIN b) = BookFields
  /\ b.armed = book.armed /\ b.running = book.running /\ b.leaves = book.leaves
  /\ b.hooks = book.hooks /\ b.revoked = book.revoked /\ b.started = book.started
  /\ b.refusals = book.refusals

Replaced(list, i, m, new) ==
  /\ IsSeq(new) /\ Len(new) = Len(list) /\ new[i] = m
  /\ \A j \in 1..Len(list) : j # i => new[j] = list[j]

SameLeaf(m, leaf) == m.key = leaf.key /\ m.scope = leaf.scope /\ m.position = leaf.position

(* What was heard of a leaf is honest, as all that it has said is.         *)
LEMMA HeardHonest ==
  ASSUME NEW rec, NEW leaf, NEW heard, IsSeq(heard), NEW t, LeafGood(rec, leaf, heard, t)
  PROVE  Honest(rec.pushed.src.steps, heard)
<1> DEFINE held == BufferOf(leaf)
           said == heard \o held
<1>1. Honest(rec.pushed.src.steps, said)
  BY DEF LeafGood, LeafSaid
<1>2. IsSeq(held)
  BY SeqOne, SeqEmpty DEF BufferOf
<1> HIDE DEF held
<1>3. /\ IsSeq(said) /\ Len(said) = Len(heard) + Len(held)
      /\ \A i \in 1..Len(heard) : said[i] = heard[i]
  BY <1>2, SeqConcat
<1> HIDE DEF said
<1>4. /\ Len(heard) \in Nat /\ Len(held) \in Nat
      /\ (DOMAIN heard) = 1..Len(heard) /\ (DOMAIN said) = 1..Len(said)
  BY <1>2, <1>3, SeqIs
<1>5. \A i \in DOMAIN heard : i \in DOMAIN said /\ said[i] = heard[i]
  BY <1>3, <1>4
<1>6. Len(said) <= 1 => Len(heard) <= 1
  BY <1>3, <1>4
<1> QED  BY <1>1, <1>5, <1>6 DEF Honest

(* One leaf changes, and what was heard of it.                             *)
LEMMA BookReplaced ==
  ASSUME NEW book, NEW h, NEW t \in Nat, BookOK(book, h, t), NEW i \in 1..Len(book.pending),
         NEW m, m.position = book.pending[i].position,
         NEW b, SameRest(b, book), Replaced(book.pending, i, m, b.pending), FiredOK(b.fired, b.spent),
         NEW g, IsSeq(g), \A k \in DOMAIN g : g[k].position \in 0..(Len(book.leaves) - 1),
         \A p \in Nat : p # m.position => HeardFrom(g, p) = HeardFrom(h, p),
         OneTimeout(HeardFrom(g, m.position)),
         LeafGood(book.leaves[m.position + 1], m, HeardFrom(g, m.position), t)
  PROVE  BookOK(b, g, t)
<1> DEFINE old == book.pending
           new == b.pending
           recs == book.leaves
           n == Len(recs)
<1>1. /\ (DOMAIN book) = BookFields /\ Records(recs, t) /\ InOrder(old, n)
      /\ LeavesOK(old, recs, h, t) /\ HeardOK(h, n) /\ GoneOK(old, book.revoked, recs, h, t)
      /\ HonestOK(recs, h)
  BY DEF BookOK
<1>2. /\ b.leaves = recs /\ b.revoked = book.revoked /\ (DOMAIN b) = BookFields
  BY DEF SameRest
<1>3. /\ IsSeq(new) /\ Len(new) = Len(old) /\ new[i] = m
      /\ \A j \in 1..Len(old) : j # i => new[j] = old[j]
  BY DEF Replaced
<1>4. /\ IsSeq(old) /\ (\A j \in 1..Len(old) : old[j].position \in 0..(n - 1))
      /\ \A j, k \in 1..Len(old) : j < k => old[j].position < old[k].position
  BY <1>1 DEF InOrder
<1>5. Len(old) \in Nat /\ n \in Nat /\ (DOMAIN old) = 1..Len(old) /\ (DOMAIN new) = 1..Len(old)
  BY <1>1, <1>3, <1>4, SeqIs DEF Records
<1>6. \A j \in 1..Len(old) : new[j].position = old[j].position
  BY <1>3
<1>7. \A j \in 1..Len(old) : j # i => old[j].position # m.position
  <2>1. ASSUME NEW j \in 1..Len(old), j # i PROVE old[j].position # old[i].position
    <3>1. j < i \/ i < j
      BY <1>5, <2>1
    <3>2. old[j].position < old[i].position \/ old[i].position < old[j].position
      BY <1>4, <3>1
    <3>3. old[j].position \in Int /\ old[i].position \in Int
      BY <1>4, <1>5
    <3> QED  BY <3>2, <3>3
  <2> QED  BY <2>1
<1>8. PositionsOf(new) = PositionsOf(old)
  BY <1>5, <1>6 DEF PositionsOf
<1>9. m.position \in PositionsOf(old)
  BY <1>5 DEF PositionsOf
<1> HIDE DEF old, new, recs, n
<1>10. InOrder(new, n)
  BY <1>3, <1>4, <1>6 DEF InOrder
<1>11. LeavesOK(new, recs, g, t)
  <2>1. ASSUME NEW j \in 1..Len(old)
        PROVE  LeafGood(recs[new[j].position + 1], new[j], HeardFrom(g, new[j].position), t)
    <3>1. CASE j = i
      BY <1>3, <3>1 DEF old, recs, new
    <3>2. CASE j # i
      <4>1. new[j] = old[j] /\ old[j].position # m.position /\ old[j].position \in Nat
        BY <1>3, <1>4, <1>5, <1>7, <2>1, <3>2
      <4>2. HeardFrom(g, new[j].position) = HeardFrom(h, old[j].position)
        BY <4>1
      <4> QED  BY <1>1, <2>1, <4>1, <4>2 DEF LeavesOK
    <3> QED  BY <3>1, <3>2
  <2> QED  BY <1>3, <2>1 DEF LeavesOK
<1>12. HeardOK(g, n)
  <2>1. ASSUME NEW p \in Nat PROVE OneTimeout(HeardFrom(g, p))
    BY <1>1 DEF HeardOK
  <2>2. \A k \in DOMAIN g : g[k].position \in 0..(n - 1)
    BY DEF n, recs
  <2> QED  BY <2>1, <2>2 DEF HeardOK
<1>13. GoneOK(new, b.revoked, recs, g, t)
  <2>1. ASSUME NEW p \in 1..Len(recs), Gone(new, b.revoked, p - 1)
        PROVE  Finished(recs[p], HeardFrom(g, p - 1), t)
    <3>1. Gone(old, book.revoked, p - 1) /\ p - 1 # m.position
      BY <1>2, <1>8, <1>9, <2>1 DEF Gone
    <3>2. p - 1 \in Nat
      BY <1>5 DEF n
    <3>3. HeardFrom(g, p - 1) = HeardFrom(h, p - 1)
      BY <3>1, <3>2
    <3> QED  BY <1>1, <3>1, <3>3 DEF GoneOK
  <2> QED  BY <2>1 DEF GoneOK
<1>14. HonestOK(recs, g)
  <2>1. ASSUME NEW p \in 1..Len(recs) PROVE Honest(recs[p].pushed.src.steps, HeardFrom(g, p - 1))
    <3>1. CASE p - 1 = m.position
      <4>1. p = m.position + 1
        BY <1>5, <3>1 DEF n
      <4>2. IsSeq(HeardFrom(g, m.position))
        BY HeardSeq
      <4>3. Honest(recs[m.position + 1].pushed.src.steps, HeardFrom(g, m.position))
        BY <4>2, HeardHonest DEF recs
      <4> QED  BY <3>1, <4>1, <4>3
    <3>2. CASE p - 1 # m.position
      <4>1. p - 1 \in Nat
        BY <1>5 DEF n
      <4>2. HeardFrom(g, p - 1) = HeardFrom(h, p - 1)
        BY <3>2, <4>1
      <4> QED  BY <1>1, <4>2 DEF HonestOK
    <3> QED  BY <3>1, <3>2
  <2> QED  BY <2>1 DEF HonestOK
<1> QED  BY <1>1, <1>2, <1>10, <1>11, <1>12, <1>13, <1>14 DEF BookOK, new, recs, n

(* The list with one entry replaced.                                       *)
LEMMA ReplacedIs ==
  ASSUME NEW list, IsSeq(list), NEW i \in 1..Len(list), NEW m, NEW new, new = [list EXCEPT ![i] = m]
  PROVE  Replaced(list, i, m, new)
<1>1. (DOMAIN list) = 1..Len(list)
  BY SeqIs
<1>2. i \in DOMAIN list
  BY <1>1
<1>3. /\ IsSeq(new) /\ Len(new) = Len(list)
      /\ new[i] = m /\ \A j \in DOMAIN list : j # i => new[j] = list[j]
  BY <1>2, SeqExcept
<1> QED  BY <1>1, <1>3 DEF Replaced

(* A poll that finds nothing is not heard; what it finds is delivered, or  *)
(* kept in the buffer.                                                     *)
Delivery(leaf, out) == [position |-> leaf.position, answer |-> out]

PolledBook(book, i, p, m) ==
  /\ SameRest(p.book, book) /\ Replaced(book.pending, i, m, p.book.pending)
  /\ SameLeaf(m, book.pending[i])
  /\ book.spent \subseteq p.book.spent
  /\ Said(p.out)

LEMMA PolledIs ==
  ASSUME NEW book, (DOMAIN book) = BookFields, IsSeq(book.pending), NEW i \in 1..Len(book.pending),
         NEW r, NEW p, p = Polled(book, i, r), NEW m, m = PolledLeaf(book.pending[i], r)
  PROVE  /\ SameRest(p.book, book) /\ Replaced(book.pending, i, m, p.book.pending)
         /\ p.book.spent = r.spent /\ p.book.fired = r.fired /\ p.out = r.out
<1> DEFINE new == [book.pending EXCEPT ![i] = m]
           b == p.book
<1>1. b = [book EXCEPT !.pending = new, !.spent = r.spent, !.fired = r.fired] /\ p.out = r.out
  BY DEF Polled
<1>2. Replaced(book.pending, i, m, new)
  BY ReplacedIs
<1> HIDE DEF new, b
<1>3. /\ (DOMAIN b) = BookFields /\ b.pending = new /\ b.spent = r.spent /\ b.fired = r.fired
      /\ b.armed = book.armed /\ b.running = book.running /\ b.leaves = book.leaves
      /\ b.hooks = book.hooks /\ b.revoked = book.revoked /\ b.started = book.started
      /\ b.refusals = book.refusals
  BY <1>1 DEF BookFields
<1>4. p.out = r.out
  BY <1>1
<1> QED  BY <1>2, <1>3, <1>4 DEF SameRest, b

LEMMA BufferedIs ==
  ASSUME NEW p, (DOMAIN p) = {"book", "out"}, (DOMAIN p.book) = BookFields, IsSeq(p.book.pending),
         NEW i \in 1..Len(p.book.pending), IsAction(p.out), NEW q, q = Buffered(p, i),
         NEW m, m = [p.book.pending[i] EXCEPT !.buffered = p.out]
  PROVE  /\ SameRest(q.book, p.book) /\ Replaced(p.book.pending, i, m, q.book.pending)
         /\ q.book.spent = p.book.spent /\ q.book.fired = p.book.fired /\ q.out = p.out
<1> DEFINE book == p.book
           new == [book.pending EXCEPT ![i] = m]
           b == [book EXCEPT !.pending = new]
<1>1. q = [p EXCEPT !.book = b]
  BY DEF Buffered
<1>2. Replaced(p.book.pending, i, m, new)
  BY ReplacedIs
<1> HIDE DEF new
<1>3. /\ (DOMAIN b) = BookFields /\ b.pending = new /\ b.spent = book.spent /\ b.fired = book.fired
      /\ b.armed = book.armed /\ b.running = book.running /\ b.leaves = book.leaves
      /\ b.hooks = book.hooks /\ b.revoked = book.revoked /\ b.started = book.started
      /\ b.refusals = book.refusals
  BY DEF BookFields
<1> HIDE DEF b
<1>4. q.book = b /\ q.out = p.out
  BY <1>1
<1> QED  BY <1>2, <1>3, <1>4 DEF SameRest

LEMMA BufferedFields ==
  ASSUME NEW leaf, LeafShape(leaf), NEW o, o = Nothing \/ IsAction(o), NEW m, m = [leaf EXCEPT !.buffered = o]
  PROVE  /\ LeafShape(m) /\ m.src = leaf.src /\ m.layers = leaf.layers /\ m.ended = leaf.ended
         /\ m.buffered = o /\ SameLeaf(m, leaf)
<1>1. /\ (DOMAIN m) = LeafFields /\ m.src = leaf.src /\ m.layers = leaf.layers /\ m.ended = leaf.ended
      /\ m.buffered = o /\ SameLeaf(m, leaf)
  BY DEF LeafShape, LeafFields, SameLeaf
<1> QED  BY <1>1 DEF LeafShape

(* What was delivered is what was held.                                    *)
LEMMA HeldOrSaid ==
  ASSUME NEW leaf, NEW heard, IsSeq(heard)
  PROVE  /\ ~ IsBuffered(leaf) => heard \o BufferOf(leaf) = heard
         /\ IsBuffered(leaf) => heard \o BufferOf(leaf) = Append(heard, leaf.buffered)
<1>1. heard \o <<>> = heard
  BY ConcatNothing
<1> DEFINE x == leaf.buffered
<1>2. heard \o <<x>> = Append(heard, x)
  <2>1. IsSeq(<<>>) /\ Append(<<>>, x) = <<x>>
    BY SeqEmpty
  <2>2. Append(heard \o <<>>, x) = heard \o Append(<<>>, x)
    BY <2>1, AppendConcat
  <2> QED  BY <1>1, <2>1, <2>2
<1> QED  BY <1>1, <1>2 DEF BufferOf

(* A leaf that polls well is good, when its output is heard or held.       *)
GoodPoll(rec, leaf, heard, closures, t, r, m) ==
  /\ Said(r.out) /\ FiredOK(r.fired, r.spent) /\ closures \subseteq r.spent
  /\ SameLeaf(m, leaf) /\ Running(m.layers) /\ ~ IsBuffered(m) /\ LeafShape(m)
  /\ m.ended <=> r.out = End
  /\ ~ IsAction(r.out) => LeafGood(rec, m, heard, t)
  /\ IsAction(r.out) => LeafGood(rec, m, Append(heard, r.out), t)
  /\ IsAction(r.out) => LeafGood(rec, [m EXCEPT !.buffered = r.out], heard, t)

LEMMA PolledGood ==
  ASSUME NEW rec, NEW leaf, NEW heard, IsSeq(heard), NEW t \in Nat, RecordOK(rec), rec.at <= t,
         LeafGood(rec, leaf, heard, t), ~ IsBuffered(leaf),
         NEW closures, NEW calls, FiredOK(calls, closures),
         NEW r, r = PollLeaf(leaf, closures, calls, t), NEW m, m = PolledLeaf(leaf, r)
  PROVE  GoodPoll(rec, leaf, heard, closures, t, r, m)
<1>1. LeafShape(leaf) /\ LeafAt(rec, leaf, t) /\ LeafSaid(rec, leaf, heard, t)
  BY HeldOrSaid DEF LeafGood
<1>2. PolledWell(rec, leaf, heard, closures, t, r, m)
  BY <1>1, LeafPolled
<1>3. /\ LeafShape(m) /\ m.src = r.src /\ m.layers = r.layers /\ (m.ended <=> r.out = End)
      /\ SameLeaf(m, leaf) /\ ~ IsBuffered(m)
  BY <1>1, PolledFields DEF SameLeaf, IsBuffered
<1>4. /\ Said(r.out) /\ FiredOK(r.fired, r.spent) /\ closures \subseteq r.spent
      /\ LeafAt(rec, m, t) /\ Running(m.layers)
      /\ LeafSaid(rec, m, IF IsAction(r.out) THEN Append(heard, r.out) ELSE heard, t)
  BY <1>2 DEF PolledWell
<1>5. ASSUME ~ IsAction(r.out) PROVE LeafGood(rec, m, heard, t)
  BY <1>3, <1>4, <1>5, HeldOrSaid DEF LeafGood
<1>6. ASSUME IsAction(r.out) PROVE LeafGood(rec, m, Append(heard, r.out), t)
  <2>1. IsSeq(Append(heard, r.out))
    BY SeqAppend
  <2>2. Append(heard, r.out) \o BufferOf(m) = Append(heard, r.out)
    BY <1>3, <2>1, HeldOrSaid
  <2> QED  BY <1>3, <1>4, <1>6, <2>2 DEF LeafGood
<1>7. ASSUME IsAction(r.out) PROVE LeafGood(rec, [m EXCEPT !.buffered = r.out], heard, t)
  <2> DEFINE k == [m EXCEPT !.buffered = r.out]
  <2>1. /\ LeafShape(k) /\ k.src = m.src /\ k.layers = m.layers /\ k.ended = m.ended
        /\ k.buffered = r.out
    BY <1>3, <1>7, BufferedFields
  <2>2. IsBuffered(k)
    <3>1. r.out # Nothing
      BY <1>7, AnswersDiffer DEF IsAction, Nothing
    <3> QED  BY <2>1, <3>1 DEF IsBuffered
  <2> HIDE DEF k
  <2>3. heard \o BufferOf(k) = Append(heard, r.out)
    BY <2>1, <2>2, HeldOrSaid
  <2>4. LeafAt(rec, k, t)
    BY <1>4, <2>1 DEF LeafAt
  <2>5. LeafSaid(rec, k, Append(heard, r.out), t)
    <3>1. LeafSaid(rec, m, Append(heard, r.out), t)
      BY <1>4, <1>7
    <3> QED  BY <2>1, <3>1 DEF LeafSaid
  <2>6. LeafGood(rec, k, heard, t)
    BY <1>4, <2>1, <2>3, <2>4, <2>5 DEF LeafGood
  <2> QED  BY <2>6 DEF k
<1> QED  BY <1>3, <1>4, <1>5, <1>6, <1>7 DEF GoodPoll

(* An entry of the pending list, and its record.                           *)
EntryOK(book, h, t, i, leaf, rec, heard) ==
  /\ leaf.position \in Nat /\ leaf.position + 1 \in 1..Len(book.leaves)
  /\ RecordOK(rec) /\ rec.at <= t /\ rec.pushed.position = leaf.position
  /\ Plain(rec.pushed.src.steps) \/ Looping(rec.pushed.src.steps)
  /\ LeafGood(rec, leaf, heard, t) /\ IsSeq(heard)

LEMMA EntryIs ==
  ASSUME NEW book, NEW h, NEW t, BookOK(book, h, t), NEW i \in 1..Len(book.pending),
         NEW leaf, leaf = book.pending[i], NEW rec, rec = book.leaves[leaf.position + 1]
  PROVE  EntryOK(book, h, t, i, leaf, rec, HeardFrom(h, leaf.position))
<1>1. /\ Records(book.leaves, t) /\ InOrder(book.pending, Len(book.leaves))
      /\ LeavesOK(book.pending, book.leaves, h, t) /\ HeardOK(h, Len(book.leaves))
  BY DEF BookOK
<1>2. Len(book.leaves) \in Nat /\ IsSeq(h)
  BY <1>1, SeqIs DEF Records, HeardOK
<1>3. leaf.position \in Nat /\ leaf.position + 1 \in 1..Len(book.leaves)
  <2>1. leaf.position \in 0..(Len(book.leaves) - 1)
    BY <1>1 DEF InOrder
  <2> QED  BY <1>2, <2>1
<1>4. /\ RecordOK(rec) /\ rec.at <= t /\ rec.pushed.position = (leaf.position + 1) - 1
      /\ Plain(rec.pushed.src.steps) \/ Looping(rec.pushed.src.steps)
  BY <1>1, <1>3 DEF Records
<1>5. LeafGood(rec, leaf, HeardFrom(h, leaf.position), t)
  BY <1>1 DEF LeavesOK
<1>6. IsSeq(HeardFrom(h, leaf.position))
  BY <1>2, HeardSeq
<1>7. rec.pushed.position = leaf.position
  BY <1>3, <1>4
<1> QED  BY <1>3, <1>4, <1>5, <1>6, <1>7 DEF EntryOK

(* What one poll of leaf i does to the book.                               *)
Polling(book, h, t, i, p, m) ==
  /\ SameRest(p.book, book) /\ Replaced(book.pending, i, m, p.book.pending)
  /\ SameLeaf(m, book.pending[i]) /\ book.spent \subseteq p.book.spent
  /\ Said(p.out) /\ ~ IsBuffered(m) /\ Running(m.layers) /\ (m.ended <=> p.out = End)
  /\ ~ IsAction(p.out) => BookOK(p.book, h, t)
  /\ IsAction(p.out) => BookOK(p.book, Append(h, Delivery(m, p.out)), t)

LEMMA BookPolled ==
  ASSUME NEW book, NEW h, now \in Nat, BookOK(book, h, now), NEW i \in 1..Len(book.pending),
         ~ IsBuffered(book.pending[i]), NEW p, p = PollOnce(book, i)
  PROVE  Polling(book, h, now, i, p, p.book.pending[i])
<1> DEFINE leaf == book.pending[i]
           rec == book.leaves[leaf.position + 1]
           heard == HeardFrom(h, leaf.position)
<1>1. EntryOK(book, h, now, i, leaf, rec, heard)
  BY EntryIs
<1>2. /\ (DOMAIN book) = BookFields /\ IsSeq(book.pending) /\ FiredOK(book.fired, book.spent)
      /\ IsSeq(h) /\ OneTimeout(heard)
      /\ \A k \in DOMAIN h : h[k].position \in 0..(Len(book.leaves) - 1)
  BY <1>1 DEF BookOK, InOrder, HeardOK, EntryOK
<1>3. CASE leaf.ended
  <2>1. p.book = book /\ p.out = End
    BY <1>3 DEF PollOnce
  <2>2. ~ IsAction(End) /\ Said(End)
    BY AnswersDiffer DEF IsAction, Said
  <2>3. Running(leaf.layers)
    BY <1>1, <1>3 DEF EntryOK, LeafGood
  <2>4. Replaced(book.pending, i, leaf, book.pending) /\ SameLeaf(leaf, leaf) /\ SameRest(book, book)
    BY <1>2 DEF Replaced, SameLeaf, SameRest
  <2> QED  BY <1>3, <2>1, <2>2, <2>3, <2>4 DEF Polling
<1>4. CASE ~ leaf.ended
  <2> DEFINE r == PollLeaf(leaf, book.spent, book.fired, now)
             m == PolledLeaf(leaf, r)
  <2>1. p = Polled(book, i, r)
    BY <1>4 DEF PollOnce
  <2>9. r = PollLeaf(leaf, book.spent, book.fired, now) /\ m = PolledLeaf(leaf, r)
    OBVIOUS
  <2> HIDE DEF r
  <2>2. /\ SameRest(p.book, book) /\ Replaced(book.pending, i, m, p.book.pending)
        /\ p.book.spent = r.spent /\ p.book.fired = r.fired /\ p.out = r.out
    BY <1>2, <2>1, PolledIs
  <2>3. RecordOK(rec) /\ rec.at <= now /\ LeafGood(rec, leaf, heard, now) /\ IsSeq(heard)
    BY <1>1 DEF EntryOK
  <2>10. ~ IsBuffered(leaf) /\ now \in Nat /\ FiredOK(book.fired, book.spent)
    BY <1>2
  <2> HIDE DEF rec, heard, m, leaf
  <2>11. GoodPoll(rec, leaf, heard, book.spent, now, r, m)
    BY ONLY <2>3, <2>9, <2>10, PolledGood
  <2>4. /\ Said(r.out) /\ FiredOK(r.fired, r.spent) /\ book.spent \subseteq r.spent
        /\ SameLeaf(m, leaf) /\ Running(m.layers) /\ ~ IsBuffered(m) /\ LeafShape(m)
        /\ m.ended <=> r.out = End
        /\ ~ IsAction(r.out) => LeafGood(rec, m, heard, now)
        /\ IsAction(r.out) => LeafGood(rec, m, Append(heard, r.out), now)
    BY <2>11 DEF GoodPoll
  <2> USE DEF leaf
  <2>5. m.position = leaf.position /\ p.book.pending[i] = m
    BY <2>2, <2>4 DEF SameLeaf, Replaced
  <2>6. FiredOK(p.book.fired, p.book.spent)
    BY <2>2, <2>4
  <2>7. ASSUME ~ IsAction(r.out) PROVE BookOK(p.book, h, now)
    <3>1. LeafGood(book.leaves[m.position + 1], m, HeardFrom(h, m.position), now)
      BY <2>4, <2>5, <2>7 DEF rec, heard
    <3>2. OneTimeout(HeardFrom(h, m.position))
      BY <1>2, <2>5 DEF heard
    <3> QED  BY <1>2, <2>2, <2>5, <2>6, <3>1, <3>2, BookReplaced
  <2>8. ASSUME IsAction(r.out) PROVE BookOK(p.book, Append(h, Delivery(m, r.out)), now)
    <3> DEFINE e == Delivery(m, r.out)
               g == Append(h, e)
    <3>1. e.position = m.position /\ e.answer = r.out
      BY DEF Delivery
    <3> HIDE DEF e
    <3>2. /\ HeardFrom(g, m.position) = Append(heard, r.out)
          /\ \A q \in Nat : q # m.position => HeardFrom(g, q) = HeardFrom(h, q)
      <4>1. HeardFrom(g, m.position) = Append(HeardFrom(h, m.position), e.answer)
        BY <1>2, <3>1, HeardAppend
      <4>2. \A q \in Nat : q # m.position => HeardFrom(g, q) = HeardFrom(h, q)
        BY <1>2, <3>1, HeardAppend
      <4> QED  BY <2>5, <3>1, <4>1, <4>2 DEF heard
    <3>3. LeafGood(rec, m, Append(heard, r.out), now)
      BY <2>4, <2>8
    <3>4. OneTimeout(Append(heard, r.out))
      <4>1. IsSeq(Append(heard, r.out))
        BY <2>3, SeqAppend
      <4>2. Append(heard, r.out) \o BufferOf(m) = Append(heard, r.out)
        BY <2>4, <4>1, HeldOrSaid
      <4> QED  BY <3>3, <4>2 DEF LeafGood, LeafSaid
    <3>5. IsSeq(g) /\ \A k \in DOMAIN g : g[k].position \in 0..(Len(book.leaves) - 1)
      <4> DEFINE n == Len(h)
      <4>1. /\ IsSeq(g) /\ Len(g) = n + 1 /\ (\A k \in 1..n : g[k] = h[k]) /\ g[n + 1] = e
            /\ n \in Nat /\ (DOMAIN h) = 1..n /\ (DOMAIN g) = 1..(n + 1)
        BY <1>2, SeqAppend, SeqIs
      <4>2. e.position \in 0..(Len(book.leaves) - 1)
        BY <1>1, <2>5, <3>1 DEF EntryOK
      <4> HIDE DEF n, g
      <4>3. ASSUME NEW k \in DOMAIN g PROVE g[k].position \in 0..(Len(book.leaves) - 1)
        <5>1. CASE k = n + 1
          BY <4>1, <4>2, <5>1
        <5>2. CASE k # n + 1
          <6>1. k \in 1..n
            BY <4>1, <5>2
          <6> QED  BY <1>2, <4>1, <6>1
        <5> QED  BY <5>1, <5>2
      <4> QED  BY <4>1, <4>3
    <3>6. LeafGood(book.leaves[m.position + 1], m, HeardFrom(g, m.position), now)
      BY <2>5, <3>2, <3>3 DEF rec
    <3>7. OneTimeout(HeardFrom(g, m.position))
      BY <3>2, <3>4
    <3> HIDE DEF g
    <3>8. BookOK(p.book, g, now)
      BY <2>2, <2>5, <2>6, <3>2, <3>5, <3>6, <3>7, BookReplaced
    <3> QED  BY <3>8 DEF g, e
  <2> QED  BY <2>2, <2>4, <2>5, <2>7, <2>8 DEF Polling
<1> QED  BY <1>3, <1>4

LEMMA ReplacedTwice ==
  ASSUME NEW list, NEW i \in 1..Len(list), NEW m, NEW k, NEW mid, NEW new,
         Replaced(list, i, m, mid), Replaced(mid, i, k, new)
  PROVE  Replaced(list, i, k, new)
  BY DEF Replaced

LEMMA SameRestTwice ==
  ASSUME NEW a, NEW b, NEW c, SameRest(b, a), SameRest(c, b)
  PROVE  SameRest(c, a)
  BY DEF SameRest

(* The same poll, when its output is kept in the buffer.                   *)
Buffering(book, h, t, i, q, m) ==
  /\ SameRest(q.book, book) /\ Replaced(book.pending, i, m, q.book.pending)
  /\ SameLeaf(m, book.pending[i]) /\ book.spent \subseteq q.book.spent
  /\ Said(q.out) /\ Running(m.layers) /\ (m.ended <=> q.out = End)
  /\ IsBuffered(m) <=> IsAction(q.out)
  /\ BookOK(q.book, h, t)

LEMMA BookBuffered ==
  ASSUME NEW book, NEW h, now \in Nat, BookOK(book, h, now), NEW i \in 1..Len(book.pending),
         ~ IsBuffered(book.pending[i]), NEW q, q = PollIntoBuffer(book, i)
  PROVE  /\ Buffering(book, h, now, i, q, q.book.pending[i])
         /\ q.out = PollOnce(book, i).out
<1> DEFINE p == PollOnce(book, i)
           m == p.book.pending[i]
<1>1. q = Buffered(p, i) /\ p = PollOnce(book, i)
  BY DEF PollIntoBuffer
<1> HIDE DEF p
<1>2. Polling(book, h, now, i, p, m)
  BY <1>1, BookPolled
<1>3. CASE ~ IsAction(p.out)
  <2>1. q = p
    BY <1>1, <1>3 DEF Buffered
  <2> QED  BY <1>2, <1>3, <2>1 DEF Polling, Buffering, p
<1>4. CASE IsAction(p.out)
  <2> DEFINE leaf == book.pending[i]
             rec == book.leaves[leaf.position + 1]
             heard == HeardFrom(h, leaf.position)
             r == PollLeaf(leaf, book.spent, book.fired, now)
             n == PolledLeaf(leaf, r)
             k == [m EXCEPT !.buffered = p.out]
  <2>1. ~ leaf.ended
    <3>1. SUFFICES ASSUME leaf.ended PROVE FALSE
      OBVIOUS
    <3>2. p.out = End
      BY <1>1, <3>1 DEF PollOnce
    <3> QED  BY <1>4, <3>2, AnswersDiffer DEF IsAction
  <2>2. p = Polled(book, i, r)
    BY <1>1, <2>1 DEF PollOnce
  <2>3. (DOMAIN p) = {"book", "out"}
    BY <2>2 DEF Polled
  <2>4. EntryOK(book, h, now, i, leaf, rec, heard)
    BY EntryIs
  <2>5. /\ (DOMAIN book) = BookFields /\ IsSeq(book.pending) /\ FiredOK(book.fired, book.spent)
        /\ IsSeq(h) /\ OneTimeout(heard)
        /\ \A j \in DOMAIN h : h[j].position \in 0..(Len(book.leaves) - 1)
    BY <2>4 DEF BookOK, InOrder, HeardOK, EntryOK
  <2>6. r = PollLeaf(leaf, book.spent, book.fired, now) /\ n = PolledLeaf(leaf, r)
    OBVIOUS
  <2> HIDE DEF r
  <2>7. /\ SameRest(p.book, book) /\ Replaced(book.pending, i, n, p.book.pending)
        /\ p.book.spent = r.spent /\ p.book.fired = r.fired /\ p.out = r.out
    BY <2>2, <2>5, PolledIs
  <2>8. m = n
    BY <2>7 DEF Replaced
  <2>9. RecordOK(rec) /\ rec.at <= now /\ LeafGood(rec, leaf, heard, now) /\ IsSeq(heard)
    BY <2>4 DEF EntryOK
  <2>10. ~ IsBuffered(leaf) /\ now \in Nat /\ FiredOK(book.fired, book.spent)
    BY <2>5
  <2> HIDE DEF rec, heard, leaf, n
  <2>11. GoodPoll(rec, leaf, heard, book.spent, now, r, n)
    BY ONLY <2>6, <2>9, <2>10, PolledGood
  <2> USE DEF leaf
  <2>12. /\ FiredOK(r.fired, r.spent) /\ SameLeaf(n, leaf) /\ Running(n.layers) /\ LeafShape(n)
         /\ (n.ended <=> r.out = End) /\ book.spent \subseteq r.spent /\ Said(r.out)
         /\ IsAction(r.out) => LeafGood(rec, [n EXCEPT !.buffered = r.out], heard, now)
    BY <2>11 DEF GoodPoll
  <2> HIDE DEF m
  <2>13. LeafGood(rec, k, heard, now)
    BY <1>4, <2>7, <2>8, <2>12
  <2>14. /\ LeafShape(k) /\ k.layers = m.layers /\ k.ended = m.ended /\ k.buffered = p.out
         /\ SameLeaf(k, m)
    BY <1>4, <2>8, <2>12, BufferedFields
  <2>15. k = [m EXCEPT !.buffered = p.out]
    OBVIOUS
  <2> HIDE DEF k
  <2>16. SameLeaf(k, leaf)
    BY <2>8, <2>12, <2>14 DEF SameLeaf
  <2>17. IsBuffered(k)
    <3>1. p.out # Nothing
      BY <1>4, AnswersDiffer DEF IsAction, Nothing
    <3> QED  BY <2>14, <3>1 DEF IsBuffered
  <2>18. /\ IsSeq(p.book.pending) /\ i \in 1..Len(p.book.pending) /\ m = p.book.pending[i]
         /\ (DOMAIN p.book) = BookFields
    BY <2>7 DEF Replaced, SameRest, m
  <2>19. /\ SameRest(q.book, p.book) /\ Replaced(p.book.pending, i, k, q.book.pending)
         /\ q.book.spent = p.book.spent /\ q.book.fired = p.book.fired /\ q.out = p.out
    BY <1>1, <1>4, <2>3, <2>15, <2>18, BufferedIs
  <2>20. SameRest(q.book, book) /\ Replaced(book.pending, i, k, q.book.pending)
    BY <2>7, <2>19, ReplacedTwice, SameRestTwice
  <2>21. q.book.pending[i] = k /\ k.position = leaf.position
    BY <2>16, <2>20 DEF Replaced, SameLeaf
  <2>22. /\ FiredOK(q.book.fired, q.book.spent) /\ book.spent \subseteq q.book.spent
    BY <2>7, <2>12, <2>19
  <2>23. /\ LeafGood(book.leaves[k.position + 1], k, HeardFrom(h, k.position), now)
         /\ OneTimeout(HeardFrom(h, k.position))
    BY <2>5, <2>13, <2>21 DEF rec, heard
  <2>24. BookOK(q.book, h, now)
    BY <2>5, <2>20, <2>21, <2>22, <2>23, BookReplaced
  <2>25. Running(k.layers) /\ (k.ended <=> q.out = End) /\ Said(q.out)
    BY <2>7, <2>8, <2>12, <2>14, <2>19
  <2> QED  BY <1>1, <1>4, <2>16, <2>17, <2>19, <2>20, <2>21, <2>22, <2>24, <2>25 DEF Buffering
<1> QED  BY <1>3, <1>4

(* One more delivery, of leaf q.                                           *)
Grown(h, g, n, q, out) ==
  /\ IsSeq(g) /\ \A k \in DOMAIN g : g[k].position \in 0..(n - 1)
  /\ HeardFrom(g, q) = Append(HeardFrom(h, q), out)
  /\ \A p \in Nat : p # q => HeardFrom(g, p) = HeardFrom(h, p)

LEMMA HeardGrows ==
  ASSUME NEW h, NEW n \in Nat, HeardOK(h, n), NEW q \in 0..(n - 1), NEW out,
         NEW e, e.position = q, e.answer = out, NEW g, g = Append(h, e)
  PROVE  Grown(h, g, n, q, out)
<1> DEFINE l == Len(h)
<1>1. IsSeq(h) /\ \A k \in DOMAIN h : h[k].position \in 0..(n - 1)
  BY DEF HeardOK
<1>2. /\ IsSeq(g) /\ Len(g) = l + 1 /\ (\A k \in 1..l : g[k] = h[k]) /\ g[l + 1] = e
      /\ l \in Nat /\ (DOMAIN h) = 1..l /\ (DOMAIN g) = 1..(l + 1)
  BY <1>1, SeqAppend, SeqIs
<1> HIDE DEF l
<1>3. ASSUME NEW k \in DOMAIN g PROVE g[k].position \in 0..(n - 1)
  <2>1. CASE k = l + 1
    BY <1>2, <2>1
  <2>2. CASE k # l + 1
    <3>1. k \in 1..l
      BY <1>2, <2>2
    <3> QED  BY <1>1, <1>2, <3>1
  <2> QED  BY <2>1, <2>2
<1>4. HeardFrom(g, q) = Append(HeardFrom(h, q), out)
  BY <1>1, HeardAppend
<1>5. \A p \in Nat : p # q => HeardFrom(g, p) = HeardFrom(h, p)
  BY <1>1, HeardAppend
<1> QED  BY <1>2, <1>3, <1>4, <1>5 DEF Grown

(* next_deliverable takes what a buffer holds.                             *)
LEMMA BookTaken ==
  ASSUME NEW book, NEW h, NEW t \in Nat, BookOK(book, h, t), NEW i \in 1..Len(book.pending),
         IsBuffered(book.pending[i]), NEW d, d = Taken(book, i)
  PROVE  /\ BookOK(d.book, Append(h, Delivery(book.pending[i], d.out)), t)
         /\ SameRest(d.book, book) /\ d.book.spent = book.spent
         /\ Replaced(book.pending, i, d.book.pending[i], d.book.pending)
         /\ SameLeaf(d.book.pending[i], book.pending[i]) /\ d.at = book.pending[i].position
         /\ d.out = book.pending[i].buffered /\ ~ IsBuffered(d.book.pending[i])
         /\ Running(d.book.pending[i].layers) /\ IsAction(d.out)
<1> DEFINE leaf == book.pending[i]
           rec == book.leaves[leaf.position + 1]
           heard == HeardFrom(h, leaf.position)
           m == [leaf EXCEPT !.buffered = Nothing]
           new == [book.pending EXCEPT ![i] = m]
           b == [book EXCEPT !.pending = new]
           out == leaf.buffered
           e == Delivery(leaf, out)
           g == Append(h, e)
           n == Len(book.leaves)
<1>1. d.book = b /\ d.out = out /\ d.at = leaf.position
  BY DEF Taken
<1>2. /\ (DOMAIN book) = BookFields /\ IsSeq(book.pending) /\ FiredOK(book.fired, book.spent)
      /\ HeardOK(h, n) /\ n \in Nat /\ leaf.position \in 0..(n - 1)
  BY SeqIs DEF BookOK, InOrder, Records
<1>3. EntryOK(book, h, t, i, leaf, rec, heard)
  BY EntryIs
<1>4. Replaced(book.pending, i, m, new)
  BY <1>2, ReplacedIs
<1> HIDE DEF new, m
<1>5. /\ (DOMAIN b) = BookFields /\ b.pending = new /\ b.spent = book.spent /\ b.fired = book.fired
      /\ b.armed = book.armed /\ b.running = book.running /\ b.leaves = book.leaves
      /\ b.hooks = book.hooks /\ b.revoked = book.revoked /\ b.started = book.started
      /\ b.refusals = book.refusals
  BY <1>2 DEF BookFields
<1> HIDE DEF b
<1>6. /\ LeafShape(leaf) /\ LeafAt(rec, leaf, t) /\ Running(leaf.layers) /\ IsSeq(heard)
      /\ LeafSaid(rec, leaf, Append(heard, out), t)
  BY <1>3, HeldOrSaid DEF EntryOK, LeafGood
<1>7. /\ LeafShape(m) /\ m.src = leaf.src /\ m.layers = leaf.layers /\ m.ended = leaf.ended
      /\ m.buffered = Nothing /\ SameLeaf(m, leaf)
  BY <1>6, BufferedFields DEF m
<1>8. ~ IsBuffered(m)
  BY <1>7 DEF IsBuffered
<1>9. LeafGood(rec, m, Append(heard, out), t)
  <2>1. IsSeq(Append(heard, out))
    BY <1>6, SeqAppend
  <2>2. Append(heard, out) \o BufferOf(m) = Append(heard, out)
    BY <1>8, <2>1, HeldOrSaid
  <2>3. LeafAt(rec, m, t)
    BY <1>6, <1>7 DEF LeafAt
  <2>4. LeafSaid(rec, m, Append(heard, out), t)
    BY <1>6, <1>7 DEF LeafSaid
  <2> QED  BY <1>6, <1>7, <2>2, <2>3, <2>4 DEF LeafGood
<1>10. /\ IsSeq(g) /\ \A k \in DOMAIN g : g[k].position \in 0..(n - 1)
       /\ HeardFrom(g, leaf.position) = Append(heard, out)
       /\ \A p \in Nat : p # leaf.position => HeardFrom(g, p) = HeardFrom(h, p)
  <2> DEFINE q == leaf.position
  <2>1. e.position = q /\ e.answer = out
    BY DEF Delivery
  <2>2. g = Append(h, e) /\ HeardOK(h, n) /\ n \in Nat /\ q \in 0..(n - 1)
    BY <1>2
  <2> HIDE DEF e, g, n, q, out
  <2>3. Grown(h, g, n, q, out)
    BY ONLY <2>1, <2>2, HeardGrows
  <2> QED  BY <2>3 DEF Grown, q
<1>11. OneTimeout(Append(heard, out))
  BY <1>6 DEF LeafSaid
<1>12. m.position = leaf.position
  BY <1>7 DEF SameLeaf
<1>13. SameRest(b, book) /\ Replaced(book.pending, i, m, b.pending) /\ FiredOK(b.fired, b.spent)
  BY <1>2, <1>4, <1>5 DEF SameRest
<1>14. /\ LeafGood(book.leaves[m.position + 1], m, HeardFrom(g, m.position), t)
       /\ OneTimeout(HeardFrom(g, m.position))
  BY <1>9, <1>10, <1>11, <1>12
<1> HIDE DEF g, e, rec, heard
<1>15. BookOK(b, g, t)
  BY <1>10, <1>12, <1>13, <1>14, BookReplaced
<1>16. b.pending[i] = m
  BY <1>13 DEF Replaced
<1>17. IsAction(out)
  BY <1>6 DEF LeafShape, IsBuffered
<1> QED  BY <1>1, <1>5, <1>6, <1>7, <1>8, <1>13, <1>15, <1>16, <1>17 DEF g, e

(* A leaf that ended, and holds nothing, is finished.                      *)
LEMMA EndedFinished ==
  ASSUME NEW rec, NEW leaf, NEW heard, IsSeq(heard), NEW t \in Nat, RecordOK(rec),
         LeafGood(rec, leaf, heard, t), leaf.ended, ~ IsBuffered(leaf)
  PROVE  Finished(rec, heard, t)
<1> DEFINE steps == rec.pushed.src.steps
<1>1. LeafAt(rec, leaf, t) /\ LeafSaid(rec, leaf, heard, t)
  BY HeldOrSaid DEF LeafGood
<1>2. CASE AnyExpired(leaf.layers, t)
  <2>1. PICK i \in DOMAIN leaf.layers : Expired(leaf.layers[i], t)
    BY <1>2 DEF AnyExpired
  <2>2. LayersAt(rec.pushed.layers, leaf.layers, rec.at, t) /\ IsSeq(rec.pushed.layers)
    BY <1>1 DEF LeafAt, RecordOK, BasesOK
  <2>3. i \in 1..Len(rec.pushed.layers) /\ i \in DOMAIN rec.pushed.layers
    BY <2>1, <2>2, SeqIs DEF LayersAt
  <2>4. LayerState(rec.pushed.layers[i], leaf.layers[i], rec.at, t)
    BY <2>2, <2>3 DEF LayersAt
  <2>5. rec.at + rec.pushed.layers[i].duration <= t
    BY <2>1, <2>4 DEF LayerState, Expired
  <2> QED  BY <2>3, <2>5 DEF Finished
<1>3. CASE ~ AnyExpired(leaf.layers, t) /\ leaf.src.steps = <<>>
  <2>1. Kept(steps, heard, leaf.src)
    BY <1>1, <1>3 DEF LeafSaid
  <2>2. CASE Looping(steps)
    <3>1. Len(heard) + 0 = 1
      BY <1>3, <2>1, <2>2 DEF Kept, Left
    <3>2. Len(heard) \in Nat
      BY SeqIs
    <3> QED  BY <2>2, <3>1, <3>2 DEF Finished
  <2>3. CASE ~ Looping(steps)
    <3>1. heard \o ItemsOf(<<>>) = ItemsOf(steps)
      BY <1>3, <2>1, <2>3 DEF Kept, Left
    <3>2. heard \o <<>> = heard
      BY ConcatNothing
    <3>3. heard = ItemsOf(steps)
      BY <3>1, <3>2, ItemsNone
    <3> QED  BY <2>3, <3>3 DEF Finished
  <2> QED  BY <2>2, <2>3
<1>4. CASE ~ AnyExpired(leaf.layers, t) /\ leaf.src.steps # <<>>
  <2>1. \E i \in DOMAIN heard : heard[i] = Quit
    BY <1>1, <1>4 DEF LeafSaid
  <2> QED  BY <2>1 DEF Finished
<1> QED  BY <1>2, <1>3, <1>4

(* Leaves are dropped: revoked, or finished.                               *)
LEMMA BookFiltered ==
  ASSUME NEW book, NEW h, NEW t \in Nat, BookOK(book, h, t), NEW I, I \subseteq 1..Len(book.pending),
         NEW b, (DOMAIN b) = BookFields, b.pending = Selected(book.pending, I),
         b.leaves = book.leaves, b.spent = book.spent, b.fired = book.fired,
         book.revoked \subseteq b.revoked,
         \A i \in (1..Len(book.pending)) \ I :
           \/ book.pending[i].position \in b.revoked
           \/ Finished(book.leaves[book.pending[i].position + 1], HeardFrom(h, book.pending[i].position), t)
  PROVE  BookOK(b, h, t)
<1> DEFINE old == book.pending
           new == b.pending
           recs == book.leaves
           n == Len(recs)
<1>1. /\ (DOMAIN book) = BookFields /\ Records(recs, t) /\ InOrder(old, n)
      /\ LeavesOK(old, recs, h, t) /\ HeardOK(h, n) /\ GoneOK(old, book.revoked, recs, h, t)
      /\ FiredOK(book.fired, book.spent) /\ HonestOK(recs, h)
  BY DEF BookOK
<1>2. /\ IsSeq(old) /\ (\A j \in 1..Len(old) : old[j].position \in 0..(n - 1))
      /\ \A j, k \in 1..Len(old) : j < k => old[j].position < old[k].position
  BY <1>1 DEF InOrder
<1>3. Len(old) \in Nat /\ n \in Nat /\ (DOMAIN old) = 1..Len(old)
  BY <1>1, <1>2, SeqIs DEF Records
<1>4. new = Selected(old, I) /\ I \subseteq 1..Len(old) /\ book.revoked \subseteq b.revoked
  OBVIOUS
<1>5. \A i \in (1..Len(old)) \ I : \/ old[i].position \in b.revoked
                                   \/ Finished(recs[old[i].position + 1], HeardFrom(h, old[i].position), t)
  OBVIOUS
<1>6. PICK g : Enumerates(g, new, old, I)
  BY <1>2, <1>4, SelectedIs DEF Enumerated
<1> HIDE DEF old, new, recs, n
<1>7. /\ IsSeq(new)
      /\ \A i \in 1..Len(new) : g[i] \in I /\ g[i] \in Nat /\ new[i] = old[g[i]]
      /\ \A i, j \in 1..Len(new) : i < j => g[i] < g[j]
      /\ \A k \in I : \E i \in 1..Len(new) : g[i] = k
  BY <1>6 DEF Enumerates
<1>8. (DOMAIN new) = 1..Len(new)
  BY <1>7, SeqIs
<1>9. InOrder(new, n)
  <2>1. ASSUME NEW i \in 1..Len(new), NEW j \in 1..Len(new), i < j
        PROVE  new[i].position < new[j].position
    <3>1. g[i] \in 1..Len(old) /\ g[j] \in 1..Len(old) /\ g[i] < g[j]
      BY <1>4, <1>7, <2>1
    <3> QED  BY <1>2, <1>7, <3>1
  <2>2. \A i \in 1..Len(new) : new[i].position \in 0..(n - 1)
    BY <1>2, <1>4, <1>7
  <2> QED  BY <1>7, <2>1, <2>2 DEF InOrder
<1>10. LeavesOK(new, recs, h, t)
  <2>1. ASSUME NEW i \in 1..Len(new)
        PROVE  LeafGood(recs[new[i].position + 1], new[i], HeardFrom(h, new[i].position), t)
    <3>1. g[i] \in 1..Len(old) /\ new[i] = old[g[i]]
      BY <1>4, <1>7, <2>1
    <3> QED  BY <1>1, <3>1 DEF LeavesOK
  <2> QED  BY <2>1 DEF LeavesOK
<1>11. GoneOK(new, b.revoked, recs, h, t)
  <2>1. ASSUME NEW p \in 1..Len(recs), Gone(new, b.revoked, p - 1)
        PROVE  Finished(recs[p], HeardFrom(h, p - 1), t)
    <3>1. CASE p - 1 \notin PositionsOf(old)
      <4>1. Gone(old, book.revoked, p - 1)
        BY <1>4, <2>1, <3>1 DEF Gone
      <4> QED  BY <1>1, <4>1 DEF GoneOK
    <3>2. CASE p - 1 \in PositionsOf(old)
      <4>1. PICK i \in 1..Len(old) : old[i].position = p - 1
        BY <1>3, <3>2 DEF PositionsOf
      <4>2. i \notin I
        <5>1. SUFFICES ASSUME i \in I PROVE FALSE
          OBVIOUS
        <5>2. PICK j \in 1..Len(new) : g[j] = i
          BY <1>7, <5>1
        <5>3. new[j].position = p - 1 /\ j \in DOMAIN new
          BY <1>7, <1>8, <4>1, <5>2
        <5> QED  BY <2>1, <5>3 DEF Gone, PositionsOf
      <4>3. Finished(recs[old[i].position + 1], HeardFrom(h, old[i].position), t)
        BY <1>5, <2>1, <4>1, <4>2 DEF Gone
      <4>4. (p - 1) + 1 = p
        BY <1>3 DEF n
      <4> QED  BY <4>1, <4>3, <4>4
    <3> QED  BY <3>1, <3>2
  <2> QED  BY <2>1 DEF GoneOK
<1> QED  BY <1>1, <1>9, <1>10, <1>11 DEF BookOK, new, recs, n

LEMMA BookPruned ==
  ASSUME NEW book, NEW h, NEW t \in Nat, BookOK(book, h, t)
  PROVE  BookOK(Prune(book), h, t) /\ SameRest(Prune(book), book) /\ Prune(book).spent = book.spent
<1> DEFINE I == Unexhausted(book.pending)
           new == Selected(book.pending, I)
           b == [book EXCEPT !.pending = new]
<1>1. (DOMAIN book) = BookFields /\ IsSeq(book.pending)
  BY DEF BookOK, InOrder
<1>2. (DOMAIN book.pending) = 1..Len(book.pending)
  BY <1>1, SeqIs
<1>3. I \subseteq 1..Len(book.pending)
  BY <1>2 DEF Unexhausted
<1>4. ASSUME NEW i \in (1..Len(book.pending)) \ I
      PROVE  Finished(book.leaves[book.pending[i].position + 1], HeardFrom(h, book.pending[i].position), t)
  <2> DEFINE leaf == book.pending[i]
             rec == book.leaves[leaf.position + 1]
             heard == HeardFrom(h, leaf.position)
  <2>1. leaf.ended /\ ~ IsBuffered(leaf)
    BY <1>2, <1>4 DEF Unexhausted
  <2>2. EntryOK(book, h, t, i, leaf, rec, heard)
    BY EntryIs
  <2> HIDE DEF leaf, rec, heard
  <2>3. Finished(rec, heard, t)
    BY <2>1, <2>2, EndedFinished DEF EntryOK
  <2> QED  BY <2>3 DEF leaf, rec, heard
<1> HIDE DEF new
<1>5. /\ (DOMAIN b) = BookFields /\ b.pending = new /\ b.spent = book.spent /\ b.fired = book.fired
      /\ b.armed = book.armed /\ b.running = book.running /\ b.leaves = book.leaves
      /\ b.hooks = book.hooks /\ b.revoked = book.revoked /\ b.started = book.started
      /\ b.refusals = book.refusals
  BY <1>1 DEF BookFields
<1>6. Prune(book) = b
  BY DEF Prune, new
<1> HIDE DEF b
<1>7. b.pending = Selected(book.pending, I)
  BY <1>5 DEF new
<1> HIDE DEF I
<1>8. BookOK(b, h, t)
  BY <1>3, <1>4, <1>5, <1>7, BookFiltered
<1> QED  BY <1>5, <1>6, <1>8 DEF SameRest

Dropping(book, b, I) ==
  /\ (DOMAIN b) = BookFields /\ b.pending = Selected(book.pending, I)
  /\ b.leaves = book.leaves /\ b.spent = book.spent /\ b.fired = book.fired
  /\ b.armed = book.armed /\ b.running = book.running
  /\ b.hooks = book.hooks /\ b.started = book.started /\ b.refusals = book.refusals
  /\ b.revoked = book.revoked \cup (PositionsOf(book.pending) \ PositionsOf(b.pending))

LEMMA DroppedIs ==
  ASSUME NEW book, (DOMAIN book) = BookFields, NEW I
  PROVE  Dropping(book, Drop(book, Selected(book.pending, I)), I)
<1> DEFINE new == Selected(book.pending, I)
           gone == PositionsOf(book.pending) \ PositionsOf(new)
           b == [book EXCEPT !.pending = new, !.revoked = book.revoked \cup gone]
<1>1. Drop(book, new) = b
  BY DEF Drop
<1> HIDE DEF new, gone
<1>2. /\ (DOMAIN b) = BookFields /\ b.pending = new /\ b.spent = book.spent /\ b.fired = book.fired
      /\ b.armed = book.armed /\ b.running = book.running /\ b.leaves = book.leaves
      /\ b.hooks = book.hooks /\ b.revoked = book.revoked \cup gone /\ b.started = book.started
      /\ b.refusals = book.refusals
  BY DEF BookFields
<1> HIDE DEF b
<1> QED  BY <1>1, <1>2 DEF Dropping, new, gone

LEMMA BookDropped ==
  ASSUME NEW book, NEW h, NEW t \in Nat, BookOK(book, h, t), NEW I, I \subseteq 1..Len(book.pending),
         NEW b, (DOMAIN b) = BookFields, b.pending = Selected(book.pending, I),
         b.leaves = book.leaves, b.spent = book.spent, b.fired = book.fired,
         b.revoked = book.revoked \cup (PositionsOf(book.pending) \ PositionsOf(b.pending))
  PROVE  BookOK(b, h, t)
<1>1. /\ InOrder(book.pending, Len(book.leaves))
  BY DEF BookOK
<1>2. /\ IsSeq(book.pending) /\ (DOMAIN book.pending) = 1..Len(book.pending)
      /\ \A j \in 1..Len(book.pending) : book.pending[j].position \in 0..(Len(book.leaves) - 1)
      /\ \A j, k \in 1..Len(book.pending) : j < k => book.pending[j].position < book.pending[k].position
  BY <1>1, SeqIs DEF InOrder
<1>3. IsSeq(b.pending) /\ \A i \in DOMAIN b.pending : \E k \in I : b.pending[i] = book.pending[k]
  <2> DEFINE s == book.pending
             u == b.pending
  <2>1. IsSeq(s) /\ I \subseteq 1..Len(s) /\ u = Selected(s, I)
    BY <1>2
  <2> HIDE DEF s, u
  <2>2. IsSeq(u) /\ \A i \in DOMAIN u : \E k \in I : u[i] = s[k]
    <3>1. PICK g : Enumerates(g, u, s, I)
      BY <2>1, SelectedIs DEF Enumerated
    <3>2. IsSeq(u) /\ \A i \in 1..Len(u) : g[i] \in I /\ u[i] = s[g[i]]
      BY <3>1 DEF Enumerates
    <3>3. (DOMAIN u) = 1..Len(u)
      BY <3>2, SeqIs
    <3> QED  BY <3>2, <3>3
  <2> QED  BY <2>2 DEF s, u
<1>4. ASSUME NEW i \in (1..Len(book.pending)) \ I PROVE book.pending[i].position \in b.revoked
  <2>1. book.pending[i].position \in PositionsOf(book.pending)
    BY <1>2 DEF PositionsOf
  <2>2. ASSUME NEW k \in I PROVE book.pending[k].position # book.pending[i].position
    <3>1. k # i /\ k \in 1..Len(book.pending) /\ i \in 1..Len(book.pending)
      BY <1>4
    <3>2. k < i \/ i < k
      BY <3>1, <1>2, SeqIs
    <3>3. book.pending[k].position \in Int /\ book.pending[i].position \in Int
      BY <1>2, <3>1
    <3>4. \/ book.pending[k].position < book.pending[i].position
          \/ book.pending[i].position < book.pending[k].position
      BY <1>2, <3>1, <3>2
    <3> QED  BY <3>3, <3>4
  <2>3. book.pending[i].position \notin PositionsOf(b.pending)
    BY <1>3, <2>2 DEF PositionsOf
  <2> QED  BY <2>1, <2>3
<1>5. book.revoked \subseteq b.revoked
  OBVIOUS
<1> QED  BY <1>4, <1>5, BookFiltered

LEMMA BookSame ==
  ASSUME NEW book, NEW h, NEW t, BookOK(book, h, t),
         NEW b, (DOMAIN b) = BookFields, b.pending = book.pending, b.leaves = book.leaves,
         b.spent = book.spent, b.fired = book.fired, b.revoked = book.revoked
  PROVE  BookOK(b, h, t)
  BY DEF BookOK

(* Time passes.                                                            *)
LEMMA FinishedLater ==
  ASSUME NEW rec, NEW heard, NEW t \in Nat, NEW u \in Nat, t <= u, RecordOK(rec), Finished(rec, heard, t)
  PROVE  Finished(rec, heard, u)
<1>1. ASSUME NEW i \in DOMAIN rec.pushed.layers, rec.at + rec.pushed.layers[i].duration <= t
      PROVE  rec.at + rec.pushed.layers[i].duration <= u
  <2>1. rec.at \in Nat /\ rec.pushed.layers[i].duration \in Nat
    BY SeqIs DEF RecordOK, BasesOK
  <2> QED  BY <1>1, <2>1
<1> QED  BY <1>1 DEF Finished

LEMMA BookLater ==
  ASSUME NEW book, NEW h, NEW t \in Nat, NEW u \in Nat, t <= u, BookOK(book, h, t),
         \A i \in 1..Len(book.pending) : Running(book.pending[i].layers)
  PROVE  BookOK(book, h, u)
<1>1. Records(book.leaves, t) /\ GoneOK(book.pending, book.revoked, book.leaves, h, t)
  BY DEF BookOK
<1>2. Records(book.leaves, u)
  <2>1. ASSUME NEW p \in 1..Len(book.leaves) PROVE book.leaves[p].at <= u
    <3>1. book.leaves[p].at \in Nat /\ book.leaves[p].at <= t
      BY <1>1 DEF Records, RecordOK
    <3> QED  BY <3>1
  <2> QED  BY <1>1, <2>1 DEF Records
<1>3. LeavesOK(book.pending, book.leaves, h, u)
  <2>1. ASSUME NEW i \in 1..Len(book.pending), NEW leaf, leaf = book.pending[i],
               NEW rec, rec = book.leaves[leaf.position + 1], NEW heard, heard = HeardFrom(h, leaf.position)
        PROVE  LeafGood(rec, leaf, heard, u)
    <3>1. EntryOK(book, h, t, i, leaf, rec, heard)
      BY <2>1, EntryIs
    <3>2. LeafAt(rec, leaf, t) /\ LeafSaid(rec, leaf, heard \o BufferOf(leaf), t) /\ RecordOK(rec)
          /\ LeafShape(leaf) /\ Running(leaf.layers)
      BY <2>1, <3>1 DEF EntryOK, LeafGood
    <3>3. LeafAt(rec, leaf, u) /\ LeafSaid(rec, leaf, heard \o BufferOf(leaf), u)
      BY <3>2, LeafLater
    <3> QED  BY <3>2, <3>3 DEF LeafGood
  <2> QED  BY <2>1 DEF LeavesOK
<1>4. GoneOK(book.pending, book.revoked, book.leaves, h, u)
  <2>1. ASSUME NEW p \in 1..Len(book.leaves), Gone(book.pending, book.revoked, p - 1)
        PROVE  Finished(book.leaves[p], HeardFrom(h, p - 1), u)
    <3>1. Finished(book.leaves[p], HeardFrom(h, p - 1), t) /\ RecordOK(book.leaves[p])
      BY <1>1, <2>1 DEF GoneOK, Records
    <3> QED  BY <3>1, FinishedLater
  <2> QED  BY <2>1 DEF GoneOK
<1> QED  BY <1>2, <1>3, <1>4 DEF BookOK

(* A leaf that is pushed now.                                              *)
SpawnOK(leaf) ==
  /\ SourceOK(leaf.payload.src)
  /\ Plain(leaf.payload.src.steps) \/ Looping(leaf.payload.src.steps)
  /\ IsSeq(leaf.payload.layers)
  /\ \A i \in 1..Len(leaf.payload.layers) : LayerOK(leaf.payload.layers[i])

LEMMA SourceStarts ==
  ASSUME NEW src, SourceOK(src), NEW t \in Nat, Plain(src.steps) \/ Looping(src.steps)
  PROVE  SourceFrom(src.steps, src, t) /\ Kept(src.steps, <<>>, src)
<1> DEFINE steps == src.steps
<1>1. /\ src = [steps |-> steps, due |-> NotStarted, tries |-> <<>>, asked |-> {}] /\ IsSeq(steps)
  BY DEF SourceOK, Source
<1>2. /\ src.due = NotStarted /\ src.tries = <<>> /\ src.asked = {} /\ src.steps = steps
  BY <1>1
<1>3. SourceShape(src)
  BY <1>1, <1>2 DEF SourceShape
<1>4. CASE Looping(steps)
  <2> DEFINE p == steps[1].policy
  <2>1. Len(steps) = 1 /\ steps[1] = Try(p, 1) /\ PolicyOK(p)
    BY <1>4 DEF Looping
  <2> HIDE DEF p
  <2>2. steps = <<Try(p, 1)>> /\ steps # <<>>
    <3> DEFINE one == <<Try(p, 1)>>
    <3>1. IsSeq(one) /\ Len(one) = 1 /\ one[1] = Try(p, 1)
      BY SeqOne
    <3> HIDE DEF one
    <3>2. \A i \in 1..Len(steps) : steps[i] = one[i]
      BY <2>1, <3>1
    <3>3. steps = one
      BY <1>1, <2>1, <3>1, <3>2, SeqSame
    <3> QED  BY <3>3, OneStep DEF one
  <2>3. Trying(p, src, 1)
    BY <1>2, <2>2, SeqEmpty DEF Trying
  <2>4. p.max \in Nat \ {0} /\ 1 \in 1..p.max
    BY <2>1 DEF PolicyOK
  <2>5. LoopPhase(p, src, t, 1, 4 * (p.max - 1) + 4)
    BY <2>3 DEF LoopPhase
  <2>6. Spaced(p, src.tries) /\ AskedOf(p, src.asked)
    BY <1>2, <2>4, SeqEmpty DEF Spaced, AskedOf
  <2>7. LoopState(p, src, t, 4 * (p.max - 1) + 4)
    BY <1>3, <2>4, <2>5, <2>6 DEF LoopState, Retried
  <2>8. 4 * (p.max - 1) + 4 \in Nat
    BY <2>4
  <2>9. SourceFrom(steps, src, t)
    BY <1>4, <2>7, <2>8 DEF SourceFrom, p
  <2>10. Kept(steps, <<>>, src)
    <3>1. Left(steps, src) = 1
      BY <1>2, <1>4, <2>2 DEF Left
    <3> QED  BY <1>4, <3>1, SeqEmpty DEF Kept
  <2> QED  BY <2>9, <2>10
<1>5. CASE ~ Looping(steps)
  <2>1. Plain(steps) /\ PlainState(src)
    BY <1>3, <1>5 DEF PlainState
  <2>2. SourceFrom(steps, src, t)
    BY <1>5, <2>1 DEF SourceFrom
  <2>3. IsSeq(ItemsOf(steps))
    <3>1. EmitsIn(steps) \subseteq 1..Len(steps)
      BY <1>1, SeqIs DEF EmitsIn
    <3>2. PICK g : Enumerates(g, Selected(steps, EmitsIn(steps)), steps, EmitsIn(steps))
      BY <1>1, <3>1, SelectedIs DEF Enumerated
    <3>3. IsSeq(Selected(steps, EmitsIn(steps)))
      BY <3>2 DEF Enumerates
    <3> QED  BY <3>3, AnswersSeq, ItemsIs
  <2>4. Left(steps, src) = ItemsOf(steps)
    BY <1>5 DEF Left
  <2>5. <<>> \o ItemsOf(steps) = ItemsOf(steps)
    BY <2>3, ConcatNothing
  <2> QED  BY <1>5, <2>2, <2>4, <2>5 DEF Kept
<1> QED  BY <1>4, <1>5

LEMMA LayerStarts ==
  ASSUME NEW l, LayerOK(l), NEW t \in Nat
  PROVE  LayerState(l, l, t, t) /\ l.open /\ l.duration \in Nat
<1>1. /\ l = [duration |-> l.duration, call |-> l.call, deadline |-> NotStarted, observed |-> FALSE,
              open |-> TRUE, late |-> 0, cut |-> Pending]
      /\ l.duration \in Nat
  BY DEF LayerOK, Layer
<1>2. (DOMAIN l) = LayerFields /\ l.deadline = NotStarted /\ l.late = 0 /\ l.cut = Pending
  BY <1>1 DEF LayerFields
<1>3. l.observed = FALSE /\ l.open = TRUE
  BY <1>1
<1> QED  BY <1>1, <1>2, <1>3, AnswersDiffer DEF LayerState, LayerShape

LEMMA FreshGood ==
  ASSUME NEW leaf, SpawnOK(leaf), NEW t \in Nat, NEW n, NEW pushed, pushed = PendingLeaf(leaf, n),
         NEW rec, rec = [pushed |-> pushed, at |-> t]
  PROVE  /\ LeafGood(rec, pushed, <<>>, t) /\ RecordOK(rec) /\ rec.at = t /\ rec.pushed = pushed
         /\ pushed.position = n /\ pushed.key = leaf.key /\ ~ IsBuffered(pushed)
         /\ Plain(rec.pushed.src.steps) \/ Looping(rec.pushed.src.steps)
<1> DEFINE src == leaf.payload.src
           layers == leaf.payload.layers
<1>1. /\ (DOMAIN pushed) = LeafFields /\ pushed.src = src /\ pushed.layers = layers
      /\ pushed.position = n /\ pushed.key = leaf.key /\ pushed.buffered = Nothing
  BY DEF PendingLeaf, LeafFields
<1>2. pushed.ended = FALSE
  BY DEF PendingLeaf
<1>3. rec.pushed = pushed /\ rec.at = t
  OBVIOUS
<1>4. /\ SourceOK(src) /\ IsSeq(layers) /\ (\A i \in 1..Len(layers) : LayerOK(layers[i]))
      /\ Plain(src.steps) \/ Looping(src.steps)
  BY DEF SpawnOK
<1> HIDE DEF src, layers
<1>5. SourceFrom(src.steps, src, t) /\ Kept(src.steps, <<>>, src)
  BY <1>4, SourceStarts
<1>6. \A i \in 1..Len(layers) : LayerState(layers[i], layers[i], t, t) /\ layers[i].open
                                 /\ layers[i].duration \in Nat
  BY <1>4, LayerStarts
<1>7. (DOMAIN layers) = 1..Len(layers)
  BY <1>4, SeqIs
<1>8. ~ AnyClosed(layers)
  BY <1>6, <1>7 DEF AnyClosed
<1>9. LeafAt(rec, pushed, t)
  BY <1>1, <1>3, <1>4, <1>5, <1>6, <1>8 DEF LeafAt, LayersAt, Anchoring
<1>10. ~ IsBuffered(pushed) /\ LeafShape(pushed)
  BY <1>1, <1>2 DEF IsBuffered, LeafShape
<1>11. LeafSaid(rec, pushed, <<>>, t)
  BY <1>1, <1>2, <1>3, <1>5, <1>8, SeqEmpty DEF LeafSaid, OneTimeout, Honest
<1>12. <<>> \o BufferOf(pushed) = <<>>
  BY <1>10, SeqEmpty, HeldOrSaid
<1>13. RecordOK(rec)
  <2>1. IsSeq(src.steps)
    BY <1>4 DEF SourceOK
  <2> QED  BY <1>1, <1>3, <1>4, <1>6, <2>1 DEF RecordOK, BasesOK
<1>14. LeafGood(rec, pushed, <<>>, t)
  BY <1>2, <1>9, <1>10, <1>11, <1>12 DEF LeafGood
<1> QED  BY <1>1, <1>3, <1>4, <1>10, <1>13, <1>14

LEMMA HeardNone ==
  ASSUME NEW h, NEW p, IsSeq(h), \A k \in DOMAIN h : h[k].position # p
  PROVE  HeardFrom(h, p) = <<>>
<1> DEFINE I == Mine(h, p)
           s == Selected(h, I)
           a == AnswersIn(s)
<1>1. I = {} /\ I \subseteq 1..Len(h)
  BY DEF Mine
<1> HIDE DEF I
<1>2. PICK g : Enumerates(g, s, h, I)
  BY <1>1, SelectedIs DEF Enumerated
<1> HIDE DEF s
<1>3. IsSeq(s) /\ Len(s) \in Nat /\ \A i \in 1..Len(s) : g[i] \in I
  BY <1>2, SeqIs DEF Enumerates
<1>4. Len(s) = 0
  BY <1>1, <1>3
<1>5. IsSeq(a) /\ Len(a) = 0
  BY <1>3, <1>4, AnswersSeq
<1>6. HeardFrom(h, p) = a
  BY HeardIs DEF s, I
<1> HIDE DEF a
<1> QED  BY <1>5, <1>6, SeqEmpty

Pushing(book, b, m) ==
  /\ (DOMAIN b) = BookFields /\ b.pending = Append(book.pending, m)
  /\ b.spent = book.spent /\ b.fired = book.fired
  /\ b.armed = book.armed /\ b.running = book.running /\ b.revoked = book.revoked
  /\ b.hooks = book.hooks /\ b.started = book.started /\ b.refusals = book.refusals

PushedWell(book, h, leaf, b, m) ==
  /\ BookOK(b, h, now) /\ Pushing(book, b, m) /\ m.key = leaf.key /\ ~ IsBuffered(m)

LEMMA BookPushed ==
  ASSUME NEW book, NEW h, now \in Nat, BookOK(book, h, now), NEW leaf, SpawnOK(leaf),
         NEW b, b = PushLeaf(book, leaf), NEW m, m = PendingLeaf(leaf, Len(book.leaves))
  PROVE  PushedWell(book, h, leaf, b, m)
<1> DEFINE old == book.pending
           recs == book.leaves
           n == Len(recs)
           rec == [pushed |-> m, at |-> now]
           new == Append(old, m)
           news == Append(recs, rec)
           l == Len(old)
<1>1. /\ (DOMAIN book) = BookFields /\ Records(recs, now) /\ InOrder(old, n)
      /\ LeavesOK(old, recs, h, now) /\ HeardOK(h, n) /\ GoneOK(old, book.revoked, recs, h, now)
      /\ FiredOK(book.fired, book.spent) /\ HonestOK(recs, h)
  BY DEF BookOK
<1>2. b = [book EXCEPT !.pending = new, !.leaves = news]
  BY DEF PushLeaf
<1>3. rec = [pushed |-> m, at |-> now]
  OBVIOUS
<1> HIDE DEF new, news, rec
<1>4. /\ (DOMAIN b) = BookFields /\ b.pending = new /\ b.spent = book.spent /\ b.fired = book.fired
      /\ b.armed = book.armed /\ b.running = book.running /\ b.leaves = news
      /\ b.hooks = book.hooks /\ b.revoked = book.revoked /\ b.started = book.started
      /\ b.refusals = book.refusals
  BY <1>1, <1>2 DEF BookFields
<1>5. /\ LeafGood(rec, m, <<>>, now) /\ RecordOK(rec) /\ rec.at = now /\ rec.pushed = m
      /\ m.position = n /\ m.key = leaf.key /\ ~ IsBuffered(m)
      /\ Plain(rec.pushed.src.steps) \/ Looping(rec.pushed.src.steps)
  BY <1>3, FreshGood
<1>6. /\ IsSeq(recs) /\ n \in Nat /\ IsSeq(news) /\ Len(news) = n + 1 /\ news[n + 1] = rec
      /\ \A p \in 1..n : news[p] = recs[p]
  BY <1>1, SeqIs, SeqAppend DEF Records, news
<1>7. /\ IsSeq(old) /\ l \in Nat /\ IsSeq(new) /\ Len(new) = l + 1 /\ new[l + 1] = m
      /\ (\A i \in 1..l : new[i] = old[i]) /\ (DOMAIN old) = 1..l /\ (DOMAIN new) = 1..(l + 1)
  <2>1. IsSeq(old)
    BY <1>1 DEF InOrder
  <2>2. /\ l \in Nat /\ IsSeq(new) /\ Len(new) = l + 1 /\ new[l + 1] = m
        /\ \A i \in 1..l : new[i] = old[i]
    BY <2>1, SeqIs, SeqAppend DEF new
  <2> QED  BY <2>1, <2>2, SeqIs
<1>8. /\ \A i \in 1..l : old[i].position \in 0..(n - 1)
      /\ \A i, j \in 1..l : i < j => old[i].position < old[j].position
  BY <1>1 DEF InOrder
<1> HIDE DEF n, l, old, recs
<1>9. Records(news, now)
  <2>1. ASSUME NEW p \in 1..(n + 1)
        PROVE  /\ RecordOK(news[p]) /\ news[p].at <= now /\ news[p].pushed.position = p - 1
               /\ Plain(news[p].pushed.src.steps) \/ Looping(news[p].pushed.src.steps)
    <3>1. CASE p = n + 1
      BY <1>5, <1>6, <3>1
    <3>2. CASE p # n + 1
      <4>1. p \in 1..n
        BY <1>6, <3>2
      <4> QED  BY <1>1, <1>6, <4>1 DEF Records, n
    <3> QED  BY <3>1, <3>2
  <2> QED  BY <1>6, <2>1 DEF Records
<1>10. InOrder(new, n + 1)
  <2>1. \A i \in 1..(l + 1) : new[i].position \in 0..n /\ (i # l + 1 => i \in 1..l /\ new[i].position < n)
    <3>1. ASSUME NEW i \in 1..(l + 1), i # l + 1
          PROVE  new[i].position \in 0..n /\ i \in 1..l /\ new[i].position < n
      <4>1. i \in 1..l
        BY <1>7, <3>1
      <4>2. new[i].position \in 0..(n - 1)
        BY <1>7, <1>8, <4>1
      <4> QED  BY <1>6, <4>1, <4>2
    <3>2. new[l + 1].position \in 0..n
      BY <1>5, <1>6, <1>7
    <3> QED  BY <3>1, <3>2
  <2>2. ASSUME NEW i \in 1..(l + 1), NEW j \in 1..(l + 1), i < j PROVE new[i].position < new[j].position
    <3>1. i \in 1..l
      BY <1>7, <2>2
    <3>2. CASE j = l + 1
      <4>1. i # l + 1
        BY <1>7, <3>1
      <4> QED  BY <1>5, <1>7, <2>1, <3>2, <4>1
    <3>3. CASE j # l + 1
      <4>1. j \in 1..l
        BY <1>7, <3>3
      <4> QED  BY <1>7, <1>8, <2>2, <3>1, <4>1
    <3> QED  BY <3>2, <3>3
  <2>3. (n + 1) - 1 = n
    BY <1>6
  <2> QED  BY <1>7, <2>1, <2>2, <2>3 DEF InOrder
<1>11. HeardFrom(h, n) = <<>>
  <2>1. IsSeq(h) /\ \A k \in DOMAIN h : h[k].position \in 0..(n - 1)
    BY <1>1 DEF HeardOK
  <2>2. \A k \in DOMAIN h : h[k].position # n
    BY <1>6, <2>1
  <2> QED  BY <2>1, <2>2, HeardNone
<1>12. HeardOK(h, n + 1)
  <2>1. \A k \in DOMAIN h : h[k].position \in 0..((n + 1) - 1)
    <3>1. \A k \in DOMAIN h : h[k].position \in 0..(n - 1)
      BY <1>1 DEF HeardOK
    <3> QED  BY <1>6, <3>1
  <2> QED  BY <1>1, <2>1 DEF HeardOK
<1>13. LeavesOK(new, news, h, now)
  <2>1. ASSUME NEW i \in 1..(l + 1)
        PROVE  LeafGood(news[new[i].position + 1], new[i], HeardFrom(h, new[i].position), now)
    <3>1. CASE i = l + 1
      BY <1>5, <1>6, <1>7, <1>11, <3>1
    <3>2. CASE i # l + 1
      <4>1. i \in 1..l
        BY <1>7, <3>2
      <4>2. new[i] = old[i] /\ old[i].position + 1 \in 1..n
        BY <1>6, <1>7, <1>8, <4>1
      <4>3. LeafGood(recs[old[i].position + 1], old[i], HeardFrom(h, old[i].position), now)
        BY <1>1, <4>1 DEF LeavesOK, l
      <4> QED  BY <1>6, <4>2, <4>3
    <3> QED  BY <3>1, <3>2
  <2> QED  BY <1>7, <2>1 DEF LeavesOK
<1>14. GoneOK(new, b.revoked, news, h, now)
  <2>1. ASSUME NEW p \in 1..(n + 1), Gone(new, b.revoked, p - 1)
        PROVE  Finished(news[p], HeardFrom(h, p - 1), now)
    <3>1. \A i \in 1..(l + 1) : new[i].position # p - 1
      BY <1>7, <2>1 DEF Gone, PositionsOf
    <3>2. p # n + 1
      <4>1. l + 1 \in 1..(l + 1) /\ (n + 1) - 1 = n
        BY <1>6, <1>7
      <4> QED  BY <1>5, <1>7, <3>1, <4>1
    <3>3. p \in 1..n
      BY <1>6, <3>2
    <3>4. \A i \in 1..l : old[i].position # p - 1
      BY <1>7, <3>1
    <3>5. Gone(old, book.revoked, p - 1)
      BY <1>4, <1>7, <2>1, <3>4 DEF Gone, PositionsOf
    <3> QED  BY <1>1, <1>6, <3>3, <3>5 DEF GoneOK, n
  <2> QED  BY <1>6, <2>1 DEF GoneOK
<1>16. HonestOK(news, h)
  <2>1. ASSUME NEW p \in 1..(n + 1) PROVE Honest(news[p].pushed.src.steps, HeardFrom(h, p - 1))
    <3>1. CASE p = n + 1
      <4>1. p - 1 = n
        BY <1>6, <3>1
      <4>2. Honest(news[p].pushed.src.steps, <<>>)
        BY SeqEmpty DEF Honest
      <4> QED  BY <1>11, <4>1, <4>2
    <3>2. CASE p # n + 1
      <4>1. p \in 1..n
        BY <1>6, <3>2
      <4> QED  BY <1>1, <1>6, <4>1 DEF HonestOK, n
    <3> QED  BY <3>1, <3>2
  <2> QED  BY <1>6, <2>1 DEF HonestOK
<1>15. BookOK(b, h, now)
  BY <1>1, <1>4, <1>6, <1>9, <1>10, <1>12, <1>13, <1>14, <1>16 DEF BookOK
<1> QED  BY <1>4, <1>5, <1>15 DEF PushedWell, Pushing, new, news, old, recs, rec

-----------------------------------------------------------------------------
(* The walks over the pending list, leaf by leaf.                          *)
AnchoredWalk(f, book) ==
  /\ f[0] = book
  /\ \A k \in 1..Len(book.pending) : f[k] = Anchor(f[k - 1], k)
  /\ Anchored(book) = [f[Len(book.pending)] EXCEPT !.running = Unfinished(@)]

LEMMA AnchoredWalkExists ==
  ASSUME NEW book, IsSeq(book.pending)
  PROVE  \E f : AnchoredWalk(f, book)
<1> DEFINE Base == book
           Then(k, v) == Anchor(v, k)
           Body(f, m) == [k \in 0..m |-> IF k = 0 THEN Base ELSE Then(k, f[k - 1])]
           A == {m \in Nat : ~ \E f : f = Body(f, m)}
<1>1. Len(book.pending) \in Nat
  BY SeqIs
<1>2. A = {}
  <2>1. ASSUME NEW m \in A PROVE \E j \in A : j < m
    <3>1. CASE m = 0
      <4> DEFINE f == [k \in 0..0 |-> Base]
      <4>1. f = Body(f, m)
        BY <3>1
      <4> QED  BY <2>1, <4>1
    <3>2. CASE m # 0
      <4>1. m \in Nat /\ m - 1 \in Nat /\ m - 1 < m
        BY <2>1, <3>2
      <4>2. SUFFICES ASSUME m - 1 \notin A PROVE FALSE
        BY <4>1
      <4>3. PICK f : f = Body(f, m - 1)
        BY <4>1, <4>2
      <4> DEFINE g == [k \in 0..m |-> IF k = m THEN Then(m, f[m - 1]) ELSE f[k]]
      <4> HIDE DEF Then, Base
      <4>4. \A k \in 0..m : g[k] = IF k = 0 THEN Base ELSE Then(k, g[k - 1])
        BY <4>1, <4>3
      <4>5. g = Body(g, m)
        BY <4>4
      <4> QED  BY <2>1, <4>5
    <3> QED  BY <3>1, <3>2
  <2> QED  BY <2>1, NoFirst
<1>3. PICK made : made = Body(made, Len(book.pending))
  BY <1>1, <1>2
<1> DEFINE F == CHOOSE f : f = Body(f, Len(book.pending))
<1>4. F = Body(F, Len(book.pending))
  BY <1>3
<1>5. Anchored(book) = [F[Len(book.pending)] EXCEPT !.running = Unfinished(@)]
  BY DEF Anchored
<1> HIDE DEF F, Then, Base
<1>6. \A k \in 0..Len(book.pending) : F[k] = IF k = 0 THEN Base ELSE Then(k, F[k - 1])
  BY <1>1, <1>4
<1>7. F[0] = Base /\ \A k \in 1..Len(book.pending) : F[k] = Then(k, F[k - 1])
  BY <1>1, <1>6
<1> QED  BY <1>5, <1>7 DEF Then, Base, AnchoredWalk


ReconciledWalk(f, book, id) ==
  /\ f[0] = [book |-> book, occupied |-> FALSE]
  /\ \A k \in 1..Len(book.pending) : f[k] = (IF f[k - 1].occupied \/ k \notin KeyedIn(book, id) \/ f[k - 1].book.pending[k].ended
            THEN f[k - 1] ELSE Occupancy(PollIntoBuffer(f[k - 1].book, k)))
  /\ ReconcileIsOccupied(book, id) = (IF \E i \in KeyedIn(book, id) : IsBuffered(book.pending[i])
       THEN [book |-> book, occupied |-> TRUE] ELSE f[Len(book.pending)])

LEMMA ReconciledWalkExists ==
  ASSUME NEW book, NEW id, IsSeq(book.pending)
  PROVE  \E f : ReconciledWalk(f, book, id)
<1> DEFINE Base == [book |-> book, occupied |-> FALSE]
           Then(k, v) == (IF v.occupied \/ k \notin KeyedIn(book, id) \/ v.book.pending[k].ended
            THEN v ELSE Occupancy(PollIntoBuffer(v.book, k)))
           Body(f, m) == [k \in 0..m |-> IF k = 0 THEN Base ELSE Then(k, f[k - 1])]
           A == {m \in Nat : ~ \E f : f = Body(f, m)}
<1>1. Len(book.pending) \in Nat
  BY SeqIs
<1>2. A = {}
  <2>1. ASSUME NEW m \in A PROVE \E j \in A : j < m
    <3>1. CASE m = 0
      <4> DEFINE f == [k \in 0..0 |-> Base]
      <4>1. f = Body(f, m)
        BY <3>1
      <4> QED  BY <2>1, <4>1
    <3>2. CASE m # 0
      <4>1. m \in Nat /\ m - 1 \in Nat /\ m - 1 < m
        BY <2>1, <3>2
      <4>2. SUFFICES ASSUME m - 1 \notin A PROVE FALSE
        BY <4>1
      <4>3. PICK f : f = Body(f, m - 1)
        BY <4>1, <4>2
      <4> DEFINE g == [k \in 0..m |-> IF k = m THEN Then(m, f[m - 1]) ELSE f[k]]
      <4> HIDE DEF Then, Base
      <4>4. \A k \in 0..m : g[k] = IF k = 0 THEN Base ELSE Then(k, g[k - 1])
        BY <4>1, <4>3
      <4>5. g = Body(g, m)
        BY <4>4
      <4> QED  BY <2>1, <4>5
    <3> QED  BY <3>1, <3>2
  <2> QED  BY <2>1, NoFirst
<1>3. PICK made : made = Body(made, Len(book.pending))
  BY <1>1, <1>2
<1> DEFINE F == CHOOSE f : f = Body(f, Len(book.pending))
<1>4. F = Body(F, Len(book.pending))
  BY <1>3
<1>5. ReconcileIsOccupied(book, id) = (IF \E i \in KeyedIn(book, id) : IsBuffered(book.pending[i])
       THEN [book |-> book, occupied |-> TRUE] ELSE F[Len(book.pending)])
  BY DEF ReconcileIsOccupied
<1> HIDE DEF F, Then, Base
<1>6. \A k \in 0..Len(book.pending) : F[k] = IF k = 0 THEN Base ELSE Then(k, F[k - 1])
  BY <1>1, <1>4
<1>7. F[0] = Base /\ \A k \in 1..Len(book.pending) : F[k] = Then(k, F[k - 1])
  BY <1>1, <1>6
<1> QED  BY <1>5, <1>7 DEF Then, Base, ReconciledWalk


DeliverableWalk(f) ==
  /\ f[0] = [book |-> Book, out |-> Pending, at |-> 0]
  /\ \A k \in 1..Len(pending) : f[k] = (IF IsAction(f[k - 1].out) THEN f[k - 1]
            ELSE IF IsBuffered(f[k - 1].book.pending[k]) THEN Taken(f[k - 1].book, k)
            ELSE Asked(PollOnce(f[k - 1].book, k), pending[k].position))
  /\ NextDeliverable = [f[Len(pending)] EXCEPT !.book = Prune(@)]

LEMMA DeliverableWalkExists ==
  ASSUME IsSeq(pending)
  PROVE  \E f : DeliverableWalk(f)
<1> DEFINE Base == [book |-> Book, out |-> Pending, at |-> 0]
           Then(k, v) == (IF IsAction(v.out) THEN v
            ELSE IF IsBuffered(v.book.pending[k]) THEN Taken(v.book, k)
            ELSE Asked(PollOnce(v.book, k), pending[k].position))
           Body(f, m) == [k \in 0..m |-> IF k = 0 THEN Base ELSE Then(k, f[k - 1])]
           A == {m \in Nat : ~ \E f : f = Body(f, m)}
<1>1. Len(pending) \in Nat
  BY SeqIs
<1>2. A = {}
  <2>1. ASSUME NEW m \in A PROVE \E j \in A : j < m
    <3>1. CASE m = 0
      <4> DEFINE f == [k \in 0..0 |-> Base]
      <4>1. f = Body(f, m)
        BY <3>1
      <4> QED  BY <2>1, <4>1
    <3>2. CASE m # 0
      <4>1. m \in Nat /\ m - 1 \in Nat /\ m - 1 < m
        BY <2>1, <3>2
      <4>2. SUFFICES ASSUME m - 1 \notin A PROVE FALSE
        BY <4>1
      <4>3. PICK f : f = Body(f, m - 1)
        BY <4>1, <4>2
      <4> DEFINE g == [k \in 0..m |-> IF k = m THEN Then(m, f[m - 1]) ELSE f[k]]
      <4> HIDE DEF Then, Base
      <4>4. \A k \in 0..m : g[k] = IF k = 0 THEN Base ELSE Then(k, g[k - 1])
        BY <4>1, <4>3
      <4>5. g = Body(g, m)
        BY <4>4
      <4> QED  BY <2>1, <4>5
    <3> QED  BY <3>1, <3>2
  <2> QED  BY <2>1, NoFirst
<1>3. PICK made : made = Body(made, Len(pending))
  BY <1>1, <1>2
<1> DEFINE F == CHOOSE f : f = Body(f, Len(pending))
<1>4. F = Body(F, Len(pending))
  BY <1>3
<1>5. NextDeliverable = [F[Len(pending)] EXCEPT !.book = Prune(@)]
  BY DEF NextDeliverable
<1> HIDE DEF F, Then, Base
<1>6. \A k \in 0..Len(pending) : F[k] = IF k = 0 THEN Base ELSE Then(k, F[k - 1])
  BY <1>1, <1>4
<1>7. F[0] = Base /\ \A k \in 1..Len(pending) : F[k] = Then(k, F[k - 1])
  BY <1>1, <1>6
<1> QED  BY <1>5, <1>7 DEF Then, Base, DeliverableWalk


ExhaustedWalk(f, book) ==
  /\ f[0] = [book |-> book, ok |-> TRUE]
  /\ \A k \in 1..Len(book.pending) : f[k] = (IF ~ f[k - 1].ok \/ IsBuffered(f[k - 1].book.pending[k]) THEN [f[k - 1] EXCEPT !.ok = FALSE]
            ELSE Passing(PollOnce(f[k - 1].book, k)))
  /\ Exhausted(book) = f[Len(book.pending)]

LEMMA ExhaustedWalkExists ==
  ASSUME NEW book, IsSeq(book.pending)
  PROVE  \E f : ExhaustedWalk(f, book)
<1> DEFINE Base == [book |-> book, ok |-> TRUE]
           Then(k, v) == (IF ~ v.ok \/ IsBuffered(v.book.pending[k]) THEN [v EXCEPT !.ok = FALSE]
            ELSE Passing(PollOnce(v.book, k)))
           Body(f, m) == [k \in 0..m |-> IF k = 0 THEN Base ELSE Then(k, f[k - 1])]
           A == {m \in Nat : ~ \E f : f = Body(f, m)}
<1>1. Len(book.pending) \in Nat
  BY SeqIs
<1>2. A = {}
  <2>1. ASSUME NEW m \in A PROVE \E j \in A : j < m
    <3>1. CASE m = 0
      <4> DEFINE f == [k \in 0..0 |-> Base]
      <4>1. f = Body(f, m)
        BY <3>1
      <4> QED  BY <2>1, <4>1
    <3>2. CASE m # 0
      <4>1. m \in Nat /\ m - 1 \in Nat /\ m - 1 < m
        BY <2>1, <3>2
      <4>2. SUFFICES ASSUME m - 1 \notin A PROVE FALSE
        BY <4>1
      <4>3. PICK f : f = Body(f, m - 1)
        BY <4>1, <4>2
      <4> DEFINE g == [k \in 0..m |-> IF k = m THEN Then(m, f[m - 1]) ELSE f[k]]
      <4> HIDE DEF Then, Base
      <4>4. \A k \in 0..m : g[k] = IF k = 0 THEN Base ELSE Then(k, g[k - 1])
        BY <4>1, <4>3
      <4>5. g = Body(g, m)
        BY <4>4
      <4> QED  BY <2>1, <4>5
    <3> QED  BY <3>1, <3>2
  <2> QED  BY <2>1, NoFirst
<1>3. PICK made : made = Body(made, Len(book.pending))
  BY <1>1, <1>2
<1> DEFINE F == CHOOSE f : f = Body(f, Len(book.pending))
<1>4. F = Body(F, Len(book.pending))
  BY <1>3
<1>5. Exhausted(book) = F[Len(book.pending)]
  BY DEF Exhausted
<1> HIDE DEF F, Then, Base
<1>6. \A k \in 0..Len(book.pending) : F[k] = IF k = 0 THEN Base ELSE Then(k, F[k - 1])
  BY <1>1, <1>4
<1>7. F[0] = Base /\ \A k \in 1..Len(book.pending) : F[k] = Then(k, F[k - 1])
  BY <1>1, <1>6
<1> QED  BY <1>5, <1>7 DEF Then, Base, ExhaustedWalk


CancelWalk(f, book, ids) ==
  /\ f[0] = book
  /\ \A k \in 1..Len(ids) : f[k] = CancelId(f[k - 1], ids[k])
  /\ CancelAll(book, ids) = f[Len(ids)]

LEMMA CancelWalkExists ==
  ASSUME NEW book, NEW ids, IsSeq(ids)
  PROVE  \E f : CancelWalk(f, book, ids)
<1> DEFINE Base == book
           Then(k, v) == CancelId(v, ids[k])
           Body(f, m) == [k \in 0..m |-> IF k = 0 THEN Base ELSE Then(k, f[k - 1])]
           A == {m \in Nat : ~ \E f : f = Body(f, m)}
<1>1. Len(ids) \in Nat
  BY SeqIs
<1>2. A = {}
  <2>1. ASSUME NEW m \in A PROVE \E j \in A : j < m
    <3>1. CASE m = 0
      <4> DEFINE f == [k \in 0..0 |-> Base]
      <4>1. f = Body(f, m)
        BY <3>1
      <4> QED  BY <2>1, <4>1
    <3>2. CASE m # 0
      <4>1. m \in Nat /\ m - 1 \in Nat /\ m - 1 < m
        BY <2>1, <3>2
      <4>2. SUFFICES ASSUME m - 1 \notin A PROVE FALSE
        BY <4>1
      <4>3. PICK f : f = Body(f, m - 1)
        BY <4>1, <4>2
      <4> DEFINE g == [k \in 0..m |-> IF k = m THEN Then(m, f[m - 1]) ELSE f[k]]
      <4> HIDE DEF Then, Base
      <4>4. \A k \in 0..m : g[k] = IF k = 0 THEN Base ELSE Then(k, g[k - 1])
        BY <4>1, <4>3
      <4>5. g = Body(g, m)
        BY <4>4
      <4> QED  BY <2>1, <4>5
    <3> QED  BY <3>1, <3>2
  <2> QED  BY <2>1, NoFirst
<1>3. PICK made : made = Body(made, Len(ids))
  BY <1>1, <1>2
<1> DEFINE F == CHOOSE f : f = Body(f, Len(ids))
<1>4. F = Body(F, Len(ids))
  BY <1>3
<1>5. CancelAll(book, ids) = F[Len(ids)]
  BY DEF CancelAll
<1> HIDE DEF F, Then, Base
<1>6. \A k \in 0..Len(ids) : F[k] = IF k = 0 THEN Base ELSE Then(k, F[k - 1])
  BY <1>1, <1>4
<1>7. F[0] = Base /\ \A k \in 1..Len(ids) : F[k] = Then(k, F[k - 1])
  BY <1>1, <1>6
<1> QED  BY <1>5, <1>7 DEF Then, Base, CancelWalk


TeardownWalk(f, book, prefixes) ==
  /\ f[0] = book
  /\ \A k \in 1..Len(prefixes) : f[k] = TeardownUnder(f[k - 1], prefixes[k])
  /\ TeardownAll(book, prefixes) = f[Len(prefixes)]

LEMMA TeardownWalkExists ==
  ASSUME NEW book, NEW prefixes, IsSeq(prefixes)
  PROVE  \E f : TeardownWalk(f, book, prefixes)
<1> DEFINE Base == book
           Then(k, v) == TeardownUnder(v, prefixes[k])
           Body(f, m) == [k \in 0..m |-> IF k = 0 THEN Base ELSE Then(k, f[k - 1])]
           A == {m \in Nat : ~ \E f : f = Body(f, m)}
<1>1. Len(prefixes) \in Nat
  BY SeqIs
<1>2. A = {}
  <2>1. ASSUME NEW m \in A PROVE \E j \in A : j < m
    <3>1. CASE m = 0
      <4> DEFINE f == [k \in 0..0 |-> Base]
      <4>1. f = Body(f, m)
        BY <3>1
      <4> QED  BY <2>1, <4>1
    <3>2. CASE m # 0
      <4>1. m \in Nat /\ m - 1 \in Nat /\ m - 1 < m
        BY <2>1, <3>2
      <4>2. SUFFICES ASSUME m - 1 \notin A PROVE FALSE
        BY <4>1
      <4>3. PICK f : f = Body(f, m - 1)
        BY <4>1, <4>2
      <4> DEFINE g == [k \in 0..m |-> IF k = m THEN Then(m, f[m - 1]) ELSE f[k]]
      <4> HIDE DEF Then, Base
      <4>4. \A k \in 0..m : g[k] = IF k = 0 THEN Base ELSE Then(k, g[k - 1])
        BY <4>1, <4>3
      <4>5. g = Body(g, m)
        BY <4>4
      <4> QED  BY <2>1, <4>5
    <3> QED  BY <3>1, <3>2
  <2> QED  BY <2>1, NoFirst
<1>3. PICK made : made = Body(made, Len(prefixes))
  BY <1>1, <1>2
<1> DEFINE F == CHOOSE f : f = Body(f, Len(prefixes))
<1>4. F = Body(F, Len(prefixes))
  BY <1>3
<1>5. TeardownAll(book, prefixes) = F[Len(prefixes)]
  BY DEF TeardownAll
<1> HIDE DEF F, Then, Base
<1>6. \A k \in 0..Len(prefixes) : F[k] = IF k = 0 THEN Base ELSE Then(k, F[k - 1])
  BY <1>1, <1>4
<1>7. F[0] = Base /\ \A k \in 1..Len(prefixes) : F[k] = Then(k, F[k - 1])
  BY <1>1, <1>6
<1> QED  BY <1>5, <1>7 DEF Then, Base, TeardownWalk


AdmitWalk(f, book, spawns, serial) ==
  /\ f[0] = book
  /\ \A k \in 1..Len(spawns) : f[k] = Admit(f[k - 1], Stamped(spawns[k], serial))
  /\ AdmitAll(book, spawns, serial) = f[Len(spawns)]

LEMMA AdmitWalkExists ==
  ASSUME NEW book, NEW spawns, NEW serial, IsSeq(spawns)
  PROVE  \E f : AdmitWalk(f, book, spawns, serial)
<1> DEFINE Base == book
           Then(k, v) == Admit(v, Stamped(spawns[k], serial))
           Body(f, m) == [k \in 0..m |-> IF k = 0 THEN Base ELSE Then(k, f[k - 1])]
           A == {m \in Nat : ~ \E f : f = Body(f, m)}
<1>1. Len(spawns) \in Nat
  BY SeqIs
<1>2. A = {}
  <2>1. ASSUME NEW m \in A PROVE \E j \in A : j < m
    <3>1. CASE m = 0
      <4> DEFINE f == [k \in 0..0 |-> Base]
      <4>1. f = Body(f, m)
        BY <3>1
      <4> QED  BY <2>1, <4>1
    <3>2. CASE m # 0
      <4>1. m \in Nat /\ m - 1 \in Nat /\ m - 1 < m
        BY <2>1, <3>2
      <4>2. SUFFICES ASSUME m - 1 \notin A PROVE FALSE
        BY <4>1
      <4>3. PICK f : f = Body(f, m - 1)
        BY <4>1, <4>2
      <4> DEFINE g == [k \in 0..m |-> IF k = m THEN Then(m, f[m - 1]) ELSE f[k]]
      <4> HIDE DEF Then, Base
      <4>4. \A k \in 0..m : g[k] = IF k = 0 THEN Base ELSE Then(k, g[k - 1])
        BY <4>1, <4>3
      <4>5. g = Body(g, m)
        BY <4>4
      <4> QED  BY <2>1, <4>5
    <3> QED  BY <3>1, <3>2
  <2> QED  BY <2>1, NoFirst
<1>3. PICK made : made = Body(made, Len(spawns))
  BY <1>1, <1>2
<1> DEFINE F == CHOOSE f : f = Body(f, Len(spawns))
<1>4. F = Body(F, Len(spawns))
  BY <1>3
<1>5. AdmitAll(book, spawns, serial) = F[Len(spawns)]
  BY DEF AdmitAll
<1> HIDE DEF F, Then, Base
<1>6. \A k \in 0..Len(spawns) : F[k] = IF k = 0 THEN Base ELSE Then(k, F[k - 1])
  BY <1>1, <1>4
<1>7. F[0] = Base /\ \A k \in 1..Len(spawns) : F[k] = Then(k, F[k - 1])
  BY <1>1, <1>6
<1> QED  BY <1>5, <1>7 DEF Then, Base, AdmitWalk


ArmWalk(f, book, registrations) ==
  /\ f[0] = book
  /\ \A k \in 1..Len(registrations) : f[k] = Arm(f[k - 1], registrations[k])
  /\ ArmAll(book, registrations) = f[Len(registrations)]

LEMMA ArmWalkExists ==
  ASSUME NEW book, NEW registrations, IsSeq(registrations)
  PROVE  \E f : ArmWalk(f, book, registrations)
<1> DEFINE Base == book
           Then(k, v) == Arm(v, registrations[k])
           Body(f, m) == [k \in 0..m |-> IF k = 0 THEN Base ELSE Then(k, f[k - 1])]
           A == {m \in Nat : ~ \E f : f = Body(f, m)}
<1>1. Len(registrations) \in Nat
  BY SeqIs
<1>2. A = {}
  <2>1. ASSUME NEW m \in A PROVE \E j \in A : j < m
    <3>1. CASE m = 0
      <4> DEFINE f == [k \in 0..0 |-> Base]
      <4>1. f = Body(f, m)
        BY <3>1
      <4> QED  BY <2>1, <4>1
    <3>2. CASE m # 0
      <4>1. m \in Nat /\ m - 1 \in Nat /\ m - 1 < m
        BY <2>1, <3>2
      <4>2. SUFFICES ASSUME m - 1 \notin A PROVE FALSE
        BY <4>1
      <4>3. PICK f : f = Body(f, m - 1)
        BY <4>1, <4>2
      <4> DEFINE g == [k \in 0..m |-> IF k = m THEN Then(m, f[m - 1]) ELSE f[k]]
      <4> HIDE DEF Then, Base
      <4>4. \A k \in 0..m : g[k] = IF k = 0 THEN Base ELSE Then(k, g[k - 1])
        BY <4>1, <4>3
      <4>5. g = Body(g, m)
        BY <4>4
      <4> QED  BY <2>1, <4>5
    <3> QED  BY <3>1, <3>2
  <2> QED  BY <2>1, NoFirst
<1>3. PICK made : made = Body(made, Len(registrations))
  BY <1>1, <1>2
<1> DEFINE F == CHOOSE f : f = Body(f, Len(registrations))
<1>4. F = Body(F, Len(registrations))
  BY <1>3
<1>5. ArmAll(book, registrations) = F[Len(registrations)]
  BY DEF ArmAll
<1> HIDE DEF F, Then, Base
<1>6. \A k \in 0..Len(registrations) : F[k] = IF k = 0 THEN Base ELSE Then(k, F[k - 1])
  BY <1>1, <1>4
<1>7. F[0] = Base /\ \A k \in 1..Len(registrations) : F[k] = Then(k, F[k - 1])
  BY <1>1, <1>6
<1> QED  BY <1>5, <1>7 DEF Then, Base, ArmWalk


(* Leaves stay in place as they are polled, and one that ended, and holds  *)
(* nothing, stays so.                                                      *)
Spent(leaf) == leaf.ended /\ ~ IsBuffered(leaf)

Steps(list, new) ==
  /\ IsSeq(new) /\ Len(new) = Len(list)
  /\ \A i \in 1..Len(list) : SameLeaf(new[i], list[i]) /\ (Spent(list[i]) => Spent(new[i]))

Slots(list) ==
  \A i, j \in 1..Len(list) :
    i < j /\ list[i].key = list[j].key /\ list[i].key # NoKey => Spent(list[i]) \/ Spent(list[j])

LEMMA StepsNothing ==
  ASSUME NEW list, IsSeq(list)
  PROVE  Steps(list, list)
  BY DEF Steps, SameLeaf

LEMMA StepsTwice ==
  ASSUME NEW a, NEW b, NEW c, Steps(a, b), Steps(b, c)
  PROVE  Steps(a, c)
  BY DEF Steps, SameLeaf

LEMMA SlotsStep ==
  ASSUME NEW list, NEW new, Steps(list, new), Slots(list)
  PROVE  Slots(new)
  BY DEF Steps, Slots, SameLeaf

LEMMA StepsReplaced ==
  ASSUME NEW list, NEW i \in 1..Len(list), NEW m, NEW new, Replaced(list, i, m, new),
         SameLeaf(m, list[i]), Spent(list[i]) => Spent(m)
  PROVE  Steps(list, new)
<1>1. ASSUME NEW j \in 1..Len(list) PROVE SameLeaf(new[j], list[j]) /\ (Spent(list[j]) => Spent(new[j]))
  <2>1. CASE j = i
    BY <2>1 DEF Replaced
  <2>2. CASE j # i
    BY <2>2 DEF Replaced, SameLeaf
  <2> QED  BY <2>1, <2>2
<1> QED  BY <1>1 DEF Steps, Replaced

LEMMA StepsPolled ==
  ASSUME NEW book, NEW h, now \in Nat, BookOK(book, h, now), NEW i \in 1..Len(book.pending),
         ~ IsBuffered(book.pending[i]), NEW p, p = PollOnce(book, i)
  PROVE  /\ Steps(book.pending, p.book.pending) /\ SameRest(p.book, book)
         /\ \A j \in 1..Len(book.pending) : j # i => p.book.pending[j] = book.pending[j]
<1>1. Polling(book, h, now, i, p, p.book.pending[i])
  BY BookPolled
<1>2. book.pending[i].ended => p.book = book
  BY DEF PollOnce
<1> DEFINE m == p.book.pending[i]
<1>3. Spent(book.pending[i]) => Spent(m)
  BY <1>2 DEF Spent
<1>4. Replaced(book.pending, i, m, p.book.pending) /\ SameLeaf(m, book.pending[i]) /\ SameRest(p.book, book)
  BY <1>1 DEF Polling
<1> HIDE DEF m
<1> QED  BY <1>3, <1>4, StepsReplaced DEF Replaced

LEMMA StepsBuffered ==
  ASSUME NEW book, NEW h, now \in Nat, BookOK(book, h, now), NEW i \in 1..Len(book.pending),
         ~ IsBuffered(book.pending[i]), NEW q, q = PollIntoBuffer(book, i)
  PROVE  /\ Steps(book.pending, q.book.pending) /\ SameRest(q.book, book)
         /\ \A j \in 1..Len(book.pending) : j # i => q.book.pending[j] = book.pending[j]
<1>1. Buffering(book, h, now, i, q, q.book.pending[i])
  BY BookBuffered
<1>2. book.pending[i].ended => q.book = book
  <2>1. ASSUME book.pending[i].ended PROVE q.book = book
    <3> DEFINE p == PollOnce(book, i)
    <3>1. p.book = book /\ p.out = End
      BY <2>1 DEF PollOnce
    <3>2. q = Buffered(p, i)
      BY DEF PollIntoBuffer
    <3> HIDE DEF p
    <3>3. ~ IsAction(p.out)
      BY <3>1, AnswersDiffer DEF IsAction
    <3> QED  BY <3>1, <3>2, <3>3 DEF Buffered
  <2> QED  BY <2>1
<1> DEFINE m == q.book.pending[i]
<1>3. Spent(book.pending[i]) => Spent(m)
  BY <1>2 DEF Spent
<1>4. Replaced(book.pending, i, m, q.book.pending) /\ SameLeaf(m, book.pending[i]) /\ SameRest(q.book, book)
  BY <1>1 DEF Buffering
<1> HIDE DEF m
<1> QED  BY <1>3, <1>4, StepsReplaced DEF Replaced

(* A walk over the list has come to leaf k.                                *)
Walking(book, b, k) ==
  /\ SameRest(b, book) /\ Steps(book.pending, b.pending)
  /\ \A j \in 1..Len(book.pending) : j > k => b.pending[j] = book.pending[j]

LEMMA WalkingStarts ==
  ASSUME NEW book, (DOMAIN book) = BookFields, IsSeq(book.pending)
  PROVE  Walking(book, book, 0)
  BY StepsNothing DEF Walking, SameRest

LEMMA WalkingOn ==
  ASSUME NEW book, NEW b, NEW c, NEW k \in Nat \ {0}, NEW l, l = k - 1, Walking(book, b, l),
         Len(book.pending) \in Nat,
         SameRest(c, b), Steps(b.pending, c.pending),
         \A j \in 1..Len(b.pending) : j # k => c.pending[j] = b.pending[j]
  PROVE  Walking(book, c, k)
<1>1. SameRest(c, book) /\ Steps(book.pending, c.pending)
  BY SameRestTwice, StepsTwice DEF Walking
<1>2. ASSUME NEW j \in 1..Len(book.pending), j > k PROVE c.pending[j] = book.pending[j]
  <2>1. j # k /\ j > l /\ Len(b.pending) = Len(book.pending)
    BY <1>2 DEF Walking, Steps
  <2> QED  BY <1>2, <2>1 DEF Walking
<1> QED  BY <1>1, <1>2 DEF Walking

LEMMA WalkingRests ==
  ASSUME NEW book, NEW b, NEW k \in Nat \ {0}, NEW l, l = k - 1, Walking(book, b, l),
         Len(book.pending) \in Nat
  PROVE  Walking(book, b, k)
<1>1. ASSUME NEW j \in 1..Len(book.pending), j > k PROVE b.pending[j] = book.pending[j]
  <2>1. j > l
    BY <1>1
  <2> QED  BY <1>1, <2>1 DEF Walking
<1> QED  BY <1>1 DEF Walking

(* After the anchoring scan every leaf has been polled.                    *)
AnchoredTo(book, h, b, k) ==
  /\ BookOK(b, h, now) /\ Walking(book, b, k)
  /\ \A j \in 1..Len(book.pending) : j <= k => Running(b.pending[j].layers)

LEMMA AnchoredStep ==
  ASSUME NEW book, NEW h, now \in Nat, NEW k \in 1..Len(book.pending), Len(book.pending) \in Nat,
         NEW l, l = k - 1,
         NEW b, AnchoredTo(book, h, b, l), NEW c, c = Anchor(b, k)
  PROVE  AnchoredTo(book, h, c, k)
<1>1. BookOK(b, h, now) /\ Walking(book, b, l) /\ k \in Nat \ {0} /\ Len(b.pending) = Len(book.pending)
  BY DEF AnchoredTo, Walking, Steps
<1>2. \A j \in 1..Len(book.pending) : j <= k /\ j # k => j <= l
  OBVIOUS
<1>3. CASE IsBuffered(b.pending[k])
  <2>1. c = b
    BY <1>3 DEF Anchor
  <2>2. EntryOK(b, h, now, k, b.pending[k], b.leaves[b.pending[k].position + 1],
                HeardFrom(h, b.pending[k].position))
    BY <1>1, EntryIs
  <2>3. Running(b.pending[k].layers)
    BY <1>3, <2>2 DEF EntryOK, LeafGood
  <2>4. Walking(book, b, k)
    BY <1>1, WalkingRests
  <2> QED  BY <1>2, <2>1, <2>3, <2>4 DEF AnchoredTo
<1>4. CASE ~ IsBuffered(b.pending[k])
  <2> DEFINE q == PollIntoBuffer(b, k)
  <2>1. c = q.book /\ q = PollIntoBuffer(b, k)
    BY <1>4 DEF Anchor
  <2> HIDE DEF q
  <2>2. Buffering(b, h, now, k, q, q.book.pending[k])
    BY <1>1, <1>4, <2>1, BookBuffered
  <2>3. /\ Steps(b.pending, c.pending) /\ SameRest(c, b)
        /\ \A j \in 1..Len(b.pending) : j # k => c.pending[j] = b.pending[j]
    BY <1>1, <1>4, <2>1, StepsBuffered
  <2>4. BookOK(c, h, now) /\ Running(c.pending[k].layers)
    BY <2>1, <2>2 DEF Buffering
  <2>5. Walking(book, c, k)
    BY <1>1, <2>3, WalkingOn
  <2>6. \A j \in 1..Len(book.pending) : j <= k => Running(c.pending[j].layers)
    BY <1>1, <1>2, <2>3, <2>4 DEF AnchoredTo
  <2> QED  BY <2>4, <2>5, <2>6 DEF AnchoredTo
<1> QED  BY <1>3, <1>4

LEMMA BookAnchored ==
  ASSUME NEW book, NEW h, now \in Nat, BookOK(book, h, now), NEW b, b = Anchored(book)
  PROVE  /\ BookOK(b, h, now) /\ Steps(book.pending, b.pending)
         /\ \A i \in 1..Len(b.pending) : Running(b.pending[i].layers)
         /\ b.armed = book.armed /\ b.running = Unfinished(book.running) /\ b.leaves = book.leaves
         /\ b.hooks = book.hooks /\ b.revoked = book.revoked /\ b.started = book.started
         /\ b.refusals = book.refusals
<1> DEFINE n == Len(book.pending)
<1>1. IsSeq(book.pending) /\ n \in Nat /\ (DOMAIN book) = BookFields
  BY SeqIs DEF BookOK, InOrder
<1>2. PICK f : AnchoredWalk(f, book)
  BY <1>1, AnchoredWalkExists
<1>3. /\ f[0] = book /\ (\A k \in 1..n : f[k] = Anchor(f[k - 1], k))
      /\ b = [f[n] EXCEPT !.running = Unfinished(@)]
  BY <1>2 DEF AnchoredWalk
<1> DEFINE A == {k \in 0..n : ~ AnchoredTo(book, h, f[k], k)}
<1>4. ASSUME NEW k \in A PROVE \E j \in A : j < k
  <2>1. CASE k = 0
    <3>1. Walking(book, book, 0)
      BY <1>1, WalkingStarts
    <3>2. AnchoredTo(book, h, book, 0)
      BY <1>1, <3>1 DEF AnchoredTo
    <3> QED  BY <1>3, <2>1, <3>2
  <2>2. CASE k # 0
    <3>1. k \in 1..n /\ k - 1 \in 0..n /\ k - 1 < k
      BY <1>1, <2>2
    <3>2. SUFFICES ASSUME k - 1 \notin A PROVE FALSE
      BY <3>1
    <3>3. AnchoredTo(book, h, f[k - 1], k - 1) /\ f[k] = Anchor(f[k - 1], k)
      BY <1>3, <3>1, <3>2
    <3>4. AnchoredTo(book, h, f[k], k)
      BY <1>1, <3>1, <3>3, AnchoredStep
    <3> QED  BY <3>4
  <2> QED  BY <2>1, <2>2
<1>5. A = {}
  <2>1. A \subseteq Nat
    BY <1>1
  <2> HIDE DEF A
  <2> QED  BY <1>4, <2>1, NoFirst
<1> DEFINE c == f[n]
<1>6. AnchoredTo(book, h, c, n)
  BY <1>1, <1>5
<1>7. b = [c EXCEPT !.running = Unfinished(c.running)]
  BY <1>3
<1> HIDE DEF c
<1>8. /\ BookOK(c, h, now) /\ SameRest(c, book) /\ Steps(book.pending, c.pending)
      /\ \A i \in 1..n : Running(c.pending[i].layers)
  BY <1>1, <1>6 DEF AnchoredTo, Walking
<1>9. /\ (DOMAIN b) = BookFields /\ b.pending = c.pending /\ b.spent = c.spent /\ b.fired = c.fired
      /\ b.armed = c.armed /\ b.running = Unfinished(c.running) /\ b.leaves = c.leaves
      /\ b.hooks = c.hooks /\ b.revoked = c.revoked /\ b.started = c.started
      /\ b.refusals = c.refusals
  BY <1>7, <1>8 DEF SameRest, BookFields
<1>10. BookOK(b, h, now)
  BY <1>8, <1>9, BookSame
<1>11. Len(c.pending) = n
  BY <1>8 DEF Steps
<1> QED  BY <1>8, <1>9, <1>10, <1>11 DEF SameRest

-----------------------------------------------------------------------------
(* A poll that finds a leaf waiting leaves it so: a second one at the same *)
(* time, whatever closures were spent in between, finds it waiting too.    *)
Waits(l, t) == l.open /\ ~ l.observed /\ l.deadline # NotStarted /\ ~ (l.deadline <= t)

LEMMA DeadlineIs ==
  ASSUME NEW base, NEW l, NEW b \in Nat, NEW t \in Nat, LayerState(base, l, b, t), base.duration \in Nat,
         NEW d, d = DeadlineOf(l, t)
  PROVE  d \in Int /\ d # NotStarted /\ (l.deadline # NotStarted => d = l.deadline)
<1>1. l.duration = base.duration /\ (l.deadline = NotStarted \/ l.deadline = b + base.duration)
  BY DEF LayerState
<1>2. d = IF l.deadline = NotStarted THEN t + l.duration ELSE l.deadline
  BY DEF DeadlineOf
<1>3. CASE l.deadline = NotStarted
  BY <1>1, <1>2, <1>3 DEF NotStarted
<1>4. CASE l.deadline # NotStarted
  BY <1>1, <1>2, <1>4 DEF NotStarted
<1> QED  BY <1>3, <1>4

LEMMA LayerWaits ==
  ASSUME NEW base, NEW l, NEW b \in Nat, NEW t \in Nat, LayerState(base, l, b, t), base.duration \in Nat,
         l.open, NEW r, RunShape(r), Said(r.out), NEW q, q = PollLayer(l, r, t)
  PROVE  /\ q.out = Pending => r.out = Pending /\ q.src = r.src /\ Waits(q.layer, t)
         /\ r.out = Pending /\ Waits(l, t) => q.out = Pending /\ RunShape(q)
<1> DEFINE d == DeadlineOf(l, t)
<1>1. d \in Int /\ d # NotStarted /\ (l.deadline # NotStarted => d = l.deadline)
  <2> HIDE DEF d
  <2>1. d = DeadlineOf(l, t)
    BY DEF d
  <2> QED  BY ONLY <2>1, LayerState(base, l, b, t), base.duration \in Nat, b \in Nat, t \in Nat, DeadlineIs
<1>2. d = DeadlineOf(l, t)
  OBVIOUS
<1>3. LayerShape(l)
  BY DEF LayerState
<1> HIDE DEF d
<1>4. /\ RunShape(q) /\ q.src = r.src
      /\ \/ InnerEnded(l, d, r, q) \/ CutShort(l, d, r, t, q) \/ QuitPassed(l, d, r, q)
         \/ ItemPassed(l, d, r, t, q) \/ StillWaits(l, d, r, t, q)
  BY <1>1, <1>2, <1>3, LayerPolled
<1>5. q.out = Pending => StillWaits(l, d, r, t, q)
  <2>1. InnerEnded(l, d, r, q) => q.out # Pending
    BY AnswersDiffer DEF InnerEnded
  <2>2. CutShort(l, d, r, t, q) => q.out # Pending
    <3>1. Message("timeout", l.call) # Pending
      BY MessageFields
    <3> QED  BY <3>1, AnswersDiffer DEF CutShort, DeadlineTaken
  <2>3. QuitPassed(l, d, r, q) => q.out # Pending
    BY AnswersDiffer DEF QuitPassed
  <2>4. ItemPassed(l, d, r, t, q) => q.out # Pending
    BY AnswersDiffer DEF ItemPassed
  <2> QED  BY <1>4, <2>1, <2>2, <2>3, <2>4
<1>6. StillWaits(l, d, r, t, q) => r.out = Pending /\ Waits(q.layer, t)
  BY <1>1 DEF StillWaits, Started, Waits
<1>7. r.out = Pending /\ Waits(l, t) => StillWaits(l, d, r, t, q)
  <2>1. SUFFICES ASSUME r.out = Pending, Waits(l, t) PROVE StillWaits(l, d, r, t, q)
    OBVIOUS
  <2>2. ~ l.observed /\ ~ (d <= t)
    BY <1>1, <2>1 DEF Waits
  <2>3. ~ InnerEnded(l, d, r, q)
    BY <2>1, AnswersDiffer DEF InnerEnded
  <2>4. ~ CutShort(l, d, r, t, q)
    BY <2>2 DEF CutShort
  <2>5. ~ QuitPassed(l, d, r, q)
    BY <2>1, AnswersDiffer DEF QuitPassed
  <2>6. ~ ItemPassed(l, d, r, t, q)
    BY <2>1, AnswersDiffer DEF ItemPassed
  <2> QED  BY <1>4, <2>3, <2>4, <2>5, <2>6
<1>8. StillWaits(l, d, r, t, q) => q.out = Pending
  BY DEF StillWaits
<1> QED  BY <1>4, <1>5, <1>6, <1>7, <1>8

WaitedTo(leaf, y, t, n, i, r) ==
  r.out = Pending =>
    /\ r.src = y.src /\ y.out = Pending
    /\ \A j \in 1..n : j <= i => Waits(r.layers[j], t)

LEMMA WaitedToNext ==
  ASSUME NEW bases, NEW leaf, NEW closures, NEW calls, NEW y, NEW b \in Nat, NEW t \in Nat, b <= t,
         BasesOK(bases), LayersAt(bases, leaf.layers, b, t),
         NEW i \in 1..Len(bases), NEW k, k = i - 1, NEW p, PolledTo(bases, leaf, closures, y, b, t, k, p),
         WaitedTo(leaf, y, t, Len(bases), k, p), NEW r,
         r = IF ~ leaf.layers[i].open THEN Closed(leaf, closures, calls)
             ELSE Restored(PollLayer(leaf.layers[i], p, t), i)
  PROVE  WaitedTo(leaf, y, t, Len(bases), i, r)
<1>0. /\ Len(bases) \in Nat /\ i \in Nat
      /\ IsSeq(p.layers) /\ Len(p.layers) = Len(bases) /\ p.layers[i] = leaf.layers[i]
  <2>1. Len(bases) \in Nat /\ i \in Nat /\ i > k
    BY SeqIs DEF BasesOK
  <2> QED  BY <2>1 DEF LayersAt, PolledTo
<1>1. CASE ~ leaf.layers[i].open
  <2> DEFINE none == [src |-> leaf.src, out |-> End]
  <2>1. r = Innermost(leaf, none, closures, calls) /\ none.out = End
    BY <1>1 DEF Closed
  <2> HIDE DEF none
  <2>2. r.out = End
    BY <2>1 DEF Innermost
  <2> QED  BY <2>2, AnswersDiffer DEF WaitedTo
<1>2. CASE leaf.layers[i].open
  <2> DEFINE l == leaf.layers[i]
             base == bases[i]
             q == PollLayer(l, p, t)
             m == q.layer
  <2>1. LayerState(base, l, b, t) /\ base.duration \in Nat /\ l.open
    BY <1>2 DEF LayersAt, BasesOK
  <2>2. RunShape(p) /\ Said(p.out)
    BY DEF PolledTo
  <2>3. q = PollLayer(l, p, t) /\ m = q.layer /\ r = Restored(q, i)
    BY <1>2
  <2>4. p.layers[i] = l
    BY <1>0
  <2> HIDE DEF l, base, q, m
  <2>5. RunShape(q) /\ q.layers = p.layers
    <3> DEFINE d == DeadlineOf(l, t)
    <3>1. d \in Int /\ d = DeadlineOf(l, t)
      BY <2>1, DeadlineIs
    <3>2. LayerShape(l)
      BY <2>1 DEF LayerState
    <3> HIDE DEF d
    <3> QED  BY <2>2, <2>3, <3>1, <3>2, LayerPolled
  <2>6. q.out = Pending => p.out = Pending /\ q.src = p.src /\ Waits(m, t)
    BY <2>1, <2>2, <2>3, LayerWaits
  <2> DEFINE s == p.layers
             ls == [s EXCEPT ![i] = m]
  <2>7. r.src = q.src /\ r.layers = ls /\ r.out = q.out
    BY <2>3, <2>5 DEF Restored, RunShape, RunFields
  <2>8. IsSeq(s) /\ i \in DOMAIN s /\ DOMAIN s = 1..Len(bases) /\ ls = [s EXCEPT ![i] = m]
    BY <1>0, SeqIs
  <2>9. s = p.layers
    OBVIOUS
  <2> HIDE DEF s, ls
  <2>10. ls[i] = m /\ \A j \in 1..Len(bases) : j # i => ls[j] = s[j]
    BY <2>8, SeqExcept
  <2>11. SUFFICES ASSUME q.out = Pending PROVE WaitedTo(leaf, y, t, Len(bases), i, r)
    BY <2>7 DEF WaitedTo
  <2>12. p.out = Pending /\ q.src = p.src /\ Waits(m, t)
    BY <2>6, <2>11
  <2>13. /\ p.src = y.src /\ y.out = Pending
         /\ \A j \in 1..Len(bases) : j <= k => Waits(s[j], t)
    BY <2>9, <2>12 DEF WaitedTo
  <2>14. \A j \in 1..Len(bases) : j <= i => j <= k \/ j = i
    BY <1>0
  <2>15. \A j \in 1..Len(bases) : j <= i => Waits(ls[j], t)
    BY <1>0, <2>10, <2>12, <2>13, <2>14
  <2> QED  BY <2>7, <2>12, <2>13, <2>15 DEF WaitedTo
<1> QED  BY <1>1, <1>2

LEMMA LayersWait ==
  ASSUME NEW bases, NEW leaf, NEW closures, NEW calls, NEW y, NEW b \in Nat, NEW t \in Nat, b <= t,
         BasesOK(bases), LayersAt(bases, leaf.layers, b, t), FiredOK(calls, closures),
         Anchoring(leaf.layers, b, t), y = PollSource(leaf.src, t),
         Said(y.out), y.out.of # "timeout",
         NEW r, r = PollLeaf(leaf, closures, calls, t)
  PROVE  WaitedTo(leaf, y, t, Len(bases), Len(bases), r)
<1>0. IsSeq(leaf.layers) /\ Len(leaf.layers) = Len(bases) /\ Len(bases) \in Nat /\ IsSeq(bases)
  BY SeqIs DEF LayersAt, BasesOK
<1>1. PICK f : PollWalk(f, leaf, closures, calls, t)
  BY <1>0, PollWalkExists
<1> DEFINE n == Len(bases)
           To(k) == /\ PolledTo(bases, leaf, closures, y, b, t, k, f[k])
                    /\ WaitedTo(leaf, y, t, n, k, f[k])
           A == {k \in 0..n : ~ To(k)}
<1>2. /\ f[0] = Innermost(leaf, y, closures, calls) /\ r = f[n]
      /\ \A k \in 1..n : f[k] = IF ~ leaf.layers[k].open THEN Closed(leaf, closures, calls)
                                ELSE Restored(PollLayer(leaf.layers[k], f[k - 1], t), k)
  BY <1>0, <1>1 DEF PollWalk
<1>3. ASSUME NEW k \in A PROVE \E j \in A : j < k
  <2>1. CASE k = 0
    <3>1. PolledTo(bases, leaf, closures, y, b, t, 0, f[0])
      BY <1>0, <1>2, PolledToStart
    <3>2. f[0].src = y.src /\ f[0].out = y.out
      BY <1>2 DEF Innermost
    <3>3. WaitedTo(leaf, y, t, n, 0, f[0])
      BY <1>0, <3>2 DEF WaitedTo
    <3> QED  BY <2>1, <3>1, <3>3
  <2>2. CASE k # 0
    <3> DEFINE l == k - 1
    <3>1. k \in 1..n /\ l \in 0..n /\ l < k /\ l = k - 1
      BY <1>0, <2>2
    <3> HIDE DEF l
    <3>2. SUFFICES ASSUME l \notin A PROVE FALSE
      BY <3>1
    <3>3. PolledTo(bases, leaf, closures, y, b, t, l, f[l]) /\ WaitedTo(leaf, y, t, n, l, f[l])
      BY <3>1, <3>2
    <3>4. f[k] = IF ~ leaf.layers[k].open THEN Closed(leaf, closures, calls)
                 ELSE Restored(PollLayer(leaf.layers[k], f[l], t), k)
      BY <1>2, <3>1
    <3>5. PolledTo(bases, leaf, closures, y, b, t, k, f[k])
      BY <3>1, <3>3, <3>4, PolledToNext
    <3>6. WaitedTo(leaf, y, t, n, k, f[k])
      BY <3>1, <3>3, <3>4, WaitedToNext
    <3> QED  BY <3>5, <3>6
  <2> QED  BY <2>1, <2>2
<1>4. A = {}
  <2>1. A \subseteq Nat
    BY <1>0
  <2> HIDE DEF A
  <2> QED  BY <1>3, <2>1, NoFirst
<1> QED  BY <1>0, <1>2, <1>4

(* All its layers wait, and so does its source.                            *)
LEMMA LayersStillWait ==
  ASSUME NEW bases, NEW leaf, NEW closures, NEW calls, NEW b \in Nat, NEW t \in Nat, b <= t,
         BasesOK(bases), LayersAt(bases, leaf.layers, b, t),
         PollSource(leaf.src, t).out = Pending,
         \A j \in 1..Len(bases) : Waits(leaf.layers[j], t),
         NEW r, r = PollLeaf(leaf, closures, calls, t)
  PROVE  r.out = Pending
<1>0. IsSeq(leaf.layers) /\ Len(leaf.layers) = Len(bases) /\ Len(bases) \in Nat /\ IsSeq(bases)
  BY SeqIs DEF LayersAt, BasesOK
<1>1. PICK f : PollWalk(f, leaf, closures, calls, t)
  BY <1>0, PollWalkExists
<1> DEFINE n == Len(bases)
           To(k) == RunShape(f[k]) /\ f[k].out = Pending
           A == {k \in 0..n : ~ To(k)}
<1>2. /\ f[0] = Innermost(leaf, PollSource(leaf.src, t), closures, calls) /\ r = f[n]
      /\ \A k \in 1..n : f[k] = IF ~ leaf.layers[k].open THEN Closed(leaf, closures, calls)
                                ELSE Restored(PollLayer(leaf.layers[k], f[k - 1], t), k)
  BY <1>0, <1>1 DEF PollWalk
<1>3. ASSUME NEW k \in A PROVE \E j \in A : j < k
  <2>1. CASE k = 0
    <3>1. RunShape(f[0]) /\ f[0].out = Pending
      BY <1>2 DEF Innermost, RunShape, RunFields
    <3> QED  BY <2>1, <3>1
  <2>2. CASE k # 0
    <3> DEFINE l == k - 1
               e == leaf.layers[k]
               base == bases[k]
               p == f[l]
               q == PollLayer(e, p, t)
    <3>1. k \in 1..n /\ l \in 0..n /\ l < k /\ l = k - 1
      BY <1>0, <2>2
    <3>2. SUFFICES ASSUME l \notin A PROVE FALSE
      BY <3>1
    <3>3. RunShape(p) /\ p.out = Pending
      BY <3>1, <3>2
    <3>4. Waits(e, t) /\ LayerState(base, e, b, t) /\ base.duration \in Nat
      BY <3>1 DEF LayersAt, BasesOK
    <3>5. f[k] = Restored(q, k)
      BY <1>2, <3>1, <3>4 DEF Waits
    <3>6. q = PollLayer(e, p, t) /\ e.open
      BY <3>4 DEF Waits
    <3> HIDE DEF l, e, base, p, q
    <3>7. Said(p.out)
      BY <3>3 DEF Said
    <3>8. q.out = Pending /\ RunShape(q)
      BY <3>3, <3>4, <3>6, <3>7, LayerWaits
    <3>9. RunShape(f[k]) /\ f[k].out = Pending
      BY <3>5, <3>8 DEF Restored, RunShape, RunFields
    <3> QED  BY <3>9
  <2> QED  BY <2>1, <2>2
<1>4. A = {}
  <2>1. A \subseteq Nat
    BY <1>0
  <2> HIDE DEF A
  <2> QED  BY <1>3, <2>1, NoFirst
<1> QED  BY <1>0, <1>2, <1>4

LEMMA PollAgain ==
  ASSUME NEW book, NEW h, now \in Nat, BookOK(book, h, now), NEW i \in 1..Len(book.pending),
         ~ IsBuffered(book.pending[i]), NEW p, p = PollOnce(book, i), p.out = Pending,
         NEW c, c.pending[i] = p.book.pending[i]
  PROVE  PollOnce(c, i).out = Pending
<1> DEFINE leaf == book.pending[i]
           rec == book.leaves[leaf.position + 1]
           heard == HeardFrom(h, leaf.position)
           r == PollLeaf(leaf, book.spent, book.fired, now)
           m == PolledLeaf(leaf, r)
           bases == rec.pushed.layers
           b == rec.at
           y == PollSource(leaf.src, now)
           z == PollLeaf(m, c.spent, c.fired, now)
<1>1. EntryOK(book, h, now, i, leaf, rec, heard)
  BY EntryIs
<1>2. (DOMAIN book) = BookFields /\ IsSeq(book.pending) /\ FiredOK(book.fired, book.spent)
  BY DEF BookOK, InOrder
<1>3. ~ leaf.ended
  <2>1. SUFFICES ASSUME leaf.ended PROVE FALSE
    OBVIOUS
  <2>2. p.out = End
    BY <2>1 DEF PollOnce
  <2> QED  BY <2>2, AnswersDiffer
<1>4. p = Polled(book, i, r)
  BY <1>3 DEF PollOnce
<1>5. /\ r = PollLeaf(leaf, book.spent, book.fired, now) /\ m = PolledLeaf(leaf, r)
      /\ y = PollSource(leaf.src, now) /\ z = PollLeaf(m, c.spent, c.fired, now)
  OBVIOUS
<1> HIDE DEF r
<1>6. Replaced(book.pending, i, m, p.book.pending) /\ p.out = r.out
  BY <1>2, <1>4, PolledIs
<1>7. c.pending[i] = m /\ r.out = Pending
  BY <1>6 DEF Replaced
<1>8. /\ RecordOK(rec) /\ b <= now /\ LeafGood(rec, leaf, heard, now) /\ IsSeq(heard)
      /\ b \in Nat /\ BasesOK(bases)
  BY <1>1 DEF EntryOK, RecordOK
<1>9. /\ SourceFrom(rec.pushed.src.steps, leaf.src, now) /\ LayersAt(bases, leaf.layers, b, now)
      /\ Anchoring(leaf.layers, b, now) /\ LeafShape(leaf) /\ LeafAt(rec, leaf, now)
  BY <1>8 DEF LeafGood, LeafAt
<1>10. LeafSaid(rec, leaf, heard, now)
  BY <1>8, HeldOrSaid DEF LeafGood
<1> HIDE DEF m, y, z, rec, heard
<1>11. PolledWell(rec, leaf, heard, book.spent, now, r, m)
  <2> HIDE DEF leaf
  <2> QED  BY <1>2, <1>5, <1>8, <1>9, <1>10, LeafPolled
<1>12. m.src = r.src /\ m.layers = r.layers /\ (m.ended <=> r.out = End)
  <2> HIDE DEF leaf
  <2> QED  BY <1>5, <1>9, PolledFields
<1>13. LayersAt(bases, m.layers, b, now)
  BY <1>11 DEF PolledWell, LeafAt
<1> HIDE DEF leaf
<1>14. Said(y.out) /\ y.out.of # "timeout" /\ (y.out \in {End, Pending} => PollSource(y.src, now) = y)
  <2> DEFINE steps == rec.pushed.src.steps
             s == leaf.src
  <2>1. SourceFrom(steps, s, now) /\ y = PollSource(s, now)
    BY <1>5, <1>9
  <2> HIDE DEF steps, s
  <2> QED  BY <2>1, SourcePolled
<1>15. WaitedTo(leaf, y, now, Len(bases), Len(bases), r)
  <2> HIDE DEF bases, b
  <2> QED  BY <1>2, <1>5, <1>8, <1>9, <1>14, LayersWait
<1>16. /\ r.src = y.src /\ y.out = Pending
       /\ \A j \in 1..Len(bases) : Waits(r.layers[j], now)
  <2>1. Len(bases) \in Nat
    BY <1>8, SeqIs DEF BasesOK
  <2> QED  BY <1>7, <1>15, <2>1 DEF WaitedTo
<1>17. PollSource(m.src, now).out = Pending
  BY <1>12, <1>14, <1>16
<1>18. z.out = Pending
  <2>1. \A j \in 1..Len(bases) : Waits(m.layers[j], now)
    BY <1>12, <1>16
  <2> HIDE DEF bases, b
  <2> QED  BY <1>5, <1>8, <1>13, <1>17, <2>1, LayersStillWait
<1>19. ~ m.ended
  BY <1>7, <1>12, AnswersDiffer
<1>20. PollOnce(c, i) = Polled(c, i, z)
  BY <1>5, <1>7, <1>19 DEF PollOnce
<1> QED  BY <1>18, <1>20 DEF Polled

-----------------------------------------------------------------------------
(* Reconciliation: an id is free only if its leaves have ended, and taken  *)
(* only by a leaf that may still deliver.                                  *)
Able(b, j) == IsBuffered(b.pending[j]) \/ PollOnce(b, j).out # End

ReconciledTo(book, h, id, w, k) ==
  /\ BookOK(w.book, h, now) /\ Walking(book, w.book, k) /\ w.occupied \in BOOLEAN
  /\ ~ w.occupied =>
       \A j \in 1..Len(book.pending) : j <= k /\ book.pending[j].key = id => Spent(w.book.pending[j])
  /\ w.occupied =>
       \E j \in 1..Len(book.pending) : book.pending[j].key = id /\ Able(w.book, j)

LEMMA ReconciledStep ==
  ASSUME NEW book, NEW h, now \in Nat, NEW k \in 1..Len(book.pending), Len(book.pending) \in Nat,
         IsSeq(book.pending), NEW l, l = k - 1, NEW id,
         \A j \in 1..Len(book.pending) : book.pending[j].key = id => ~ IsBuffered(book.pending[j]),
         NEW w, ReconciledTo(book, h, id, w, l),
         NEW v, v = (IF w.occupied \/ k \notin KeyedIn(book, id) \/ w.book.pending[k].ended
                     THEN w ELSE Occupancy(PollIntoBuffer(w.book, k)))
  PROVE  ReconciledTo(book, h, id, v, k)
<1> DEFINE b == w.book
<1>1. /\ BookOK(b, h, now) /\ Walking(book, b, l) /\ k \in Nat \ {0}
      /\ Len(b.pending) = Len(book.pending) /\ w.occupied \in BOOLEAN /\ b.pending[k] = book.pending[k]
  <2>1. k > l /\ k \in Nat \ {0}
    OBVIOUS
  <2> QED  BY <2>1 DEF ReconciledTo, Walking, Steps
<1>2. \A j \in 1..Len(book.pending) : j <= k /\ j # k => j <= l
  OBVIOUS
<1>3. Walking(book, b, k)
  BY <1>1, WalkingRests
<1>4. k \in KeyedIn(book, id) <=> book.pending[k].key = id
  BY SeqIs DEF KeyedIn
<1>5. CASE w.occupied
  <2>1. v = w
    BY <1>5
  <2> QED  BY <1>3, <1>5, <2>1 DEF ReconciledTo
<1>6. CASE ~ w.occupied /\ k \notin KeyedIn(book, id)
  <2>1. v = w
    BY <1>6
  <2> QED  BY <1>2, <1>3, <1>4, <1>6, <2>1 DEF ReconciledTo
<1>7. CASE ~ w.occupied /\ k \in KeyedIn(book, id) /\ b.pending[k].ended
  <2>1. v = w
    BY <1>7
  <2>2. Spent(b.pending[k])
    BY <1>1, <1>4, <1>7 DEF Spent
  <2> QED  BY <1>2, <1>3, <1>7, <2>1, <2>2 DEF ReconciledTo
<1>8. CASE ~ w.occupied /\ k \in KeyedIn(book, id) /\ ~ b.pending[k].ended
  <2> DEFINE q == PollIntoBuffer(b, k)
             p == PollOnce(b, k)
             c == q.book
  <2>1. v = Occupancy(q) /\ q = PollIntoBuffer(b, k) /\ p = PollOnce(b, k)
    BY <1>8
  <2>2. k \in 1..Len(b.pending) /\ ~ IsBuffered(b.pending[k])
    BY <1>1, <1>4, <1>8
  <2>3. (q.out # End) \in BOOLEAN
    OBVIOUS
  <2> HIDE DEF q, p, b
  <2>4. v.book = c /\ v.occupied = (q.out # End)
    BY <2>1 DEF Occupancy
  <2>5. Buffering(b, h, now, k, q, c.pending[k]) /\ q.out = p.out
    BY <1>1, <2>1, <2>2, BookBuffered
  <2>6. /\ Steps(b.pending, c.pending) /\ SameRest(c, b)
        /\ \A j \in 1..Len(b.pending) : j # k => c.pending[j] = b.pending[j]
    BY <1>1, <2>1, <2>2, StepsBuffered
  <2>7. Walking(book, c, k)
    <3> HIDE DEF c
    <3> QED  BY <1>1, <2>6, WalkingOn
  <2>8. BookOK(c, h, now) /\ Said(q.out) /\ (c.pending[k].ended <=> q.out = End)
        /\ (IsBuffered(c.pending[k]) <=> IsAction(q.out))
    BY <2>5 DEF Buffering
  <2>9. ASSUME q.out = End
        PROVE  \A j \in 1..Len(book.pending) : j <= k /\ book.pending[j].key = id => Spent(c.pending[j])
    <3>1. Spent(c.pending[k])
      BY <2>8, <2>9, AnswersDiffer DEF Spent, IsAction
    <3>2. \A j \in 1..Len(book.pending) : j <= l /\ book.pending[j].key = id => Spent(b.pending[j])
      BY <1>8 DEF ReconciledTo, b
    <3>3. \A j \in 1..Len(book.pending) : Spent(b.pending[j]) => Spent(c.pending[j])
      BY <1>1, <2>6 DEF Steps
    <3> QED  BY <1>2, <3>1, <3>2, <3>3
  <2>10. ASSUME q.out # End
         PROVE  Able(c, k)
    <3>1. CASE IsAction(q.out)
      BY <2>8, <3>1 DEF Able
    <3>2. CASE ~ IsAction(q.out)
      <4>1. q.out = Pending
        BY <2>8, <2>10, <3>2, ActionIs
      <4>2. c.pending[k] = p.book.pending[k]
        <5>1. q = p
          BY <2>1, <2>5, <3>2 DEF PollIntoBuffer, Buffered
        <5> QED  BY <5>1
      <4> HIDE DEF c
      <4>3. PollOnce(c, k).out = Pending
        BY <1>1, <2>1, <2>2, <2>5, <4>1, <4>2, PollAgain
      <4> QED  BY <4>3, AnswersDiffer DEF Able
    <3> QED  BY <3>1, <3>2
  <2>11. book.pending[k].key = id
    BY <1>4, <1>8
  <2> HIDE DEF c
  <2> QED  BY <2>3, <2>4, <2>7, <2>8, <2>9, <2>10, <2>11 DEF ReconciledTo
<1> QED  BY <1>1, <1>5, <1>6, <1>7, <1>8 DEF b

Reconciling(book, h, id, w) ==
  /\ BookOK(w.book, h, now) /\ SameRest(w.book, book) /\ Steps(book.pending, w.book.pending)
  /\ w.occupied \in BOOLEAN
  /\ ~ w.occupied =>
       \A j \in 1..Len(w.book.pending) : w.book.pending[j].key = id => Spent(w.book.pending[j])
  /\ w.occupied => Holders(w.book, id) # {}

LEMMA AbleHolds ==
  ASSUME NEW b, NEW id, IsSeq(b.pending), NEW j \in 1..Len(b.pending), b.pending[j].key = id, Able(b, j)
  PROVE  Holders(b, id) # {}
<1>1. j \in KeyedIn(b, id)
  BY SeqIs DEF KeyedIn
<1> QED  BY <1>1 DEF Able, Holders

LEMMA BookReconciled ==
  ASSUME NEW book, NEW h, now \in Nat, BookOK(book, h, now), NEW id,
         NEW w, w = ReconcileIsOccupied(book, id)
  PROVE  Reconciling(book, h, id, w)
<1> DEFINE n == Len(book.pending)
<1>1. IsSeq(book.pending) /\ n \in Nat /\ (DOMAIN book) = BookFields /\ (DOMAIN book.pending) = 1..n
  BY SeqIs DEF BookOK, InOrder
<1>2. PICK f : ReconciledWalk(f, book, id)
  BY <1>1, ReconciledWalkExists
<1>3. /\ f[0] = [book |-> book, occupied |-> FALSE]
      /\ \A k \in 1..n : f[k] = (IF f[k - 1].occupied \/ k \notin KeyedIn(book, id)
                                    \/ f[k - 1].book.pending[k].ended
                                 THEN f[k - 1] ELSE Occupancy(PollIntoBuffer(f[k - 1].book, k)))
      /\ w = (IF \E i \in KeyedIn(book, id) : IsBuffered(book.pending[i])
              THEN [book |-> book, occupied |-> TRUE] ELSE f[n])
  BY <1>2 DEF ReconciledWalk
<1>4. Walking(book, book, 0)
  BY <1>1, WalkingStarts
<1>5. CASE \E i \in KeyedIn(book, id) : IsBuffered(book.pending[i])
  <2>1. PICK i \in KeyedIn(book, id) : IsBuffered(book.pending[i])
    BY <1>5
  <2>2. i \in 1..n /\ book.pending[i].key = id
    BY <1>1 DEF KeyedIn
  <2>3. Able(book, i)
    BY <2>1 DEF Able
  <2>4. Holders(book, id) # {}
    BY <1>1, <2>2, <2>3, AbleHolds
  <2> DEFINE yes == TRUE
  <2>5. w = [book |-> book, occupied |-> yes] /\ yes
    BY <1>3, <1>5
  <2> HIDE DEF yes
  <2>6. w.book = book /\ w.occupied = yes
    BY <2>5
  <2>7. w.occupied \in BOOLEAN /\ w.occupied
    BY <2>5, <2>6
  <2> QED  BY <1>4, <2>4, <2>6, <2>7 DEF Reconciling, Walking
<1>6. CASE ~ \E i \in KeyedIn(book, id) : IsBuffered(book.pending[i])
  <2>1. w = f[n]
    BY <1>3, <1>6
  <2>2. \A j \in 1..n : book.pending[j].key = id => ~ IsBuffered(book.pending[j])
    BY <1>1, <1>6 DEF KeyedIn
  <2> DEFINE A == {k \in 0..n : ~ ReconciledTo(book, h, id, f[k], k)}
  <2>3. ASSUME NEW k \in A PROVE \E j \in A : j < k
    <3>1. CASE k = 0
      <4> DEFINE no == FALSE
                 e == f[0]
      <4>1. e = [book |-> book, occupied |-> no] /\ ~ no
        BY <1>3
      <4> HIDE DEF no, e
      <4>2. e.book = book /\ e.occupied = no
        BY <4>1
      <4>3. ~ e.occupied /\ e.occupied = FALSE
        BY <4>1, <4>2 DEF no
      <4>4. \A j \in 1..n : ~ (j <= 0)
        BY <1>1
      <4>5. ReconciledTo(book, h, id, e, 0)
        BY <1>4, <4>2, <4>3, <4>4 DEF ReconciledTo
      <4> QED  BY <3>1, <4>5 DEF e
    <3>2. CASE k # 0
      <4> DEFINE l == k - 1
      <4>1. k \in 1..n /\ l \in 0..n /\ l < k /\ l = k - 1
        BY <1>1, <3>2
      <4> HIDE DEF l
      <4>2. SUFFICES ASSUME l \notin A PROVE FALSE
        BY <4>1
      <4> DEFINE e == f[l]
                 v == f[k]
      <4>3. /\ ReconciledTo(book, h, id, e, l)
            /\ v = (IF e.occupied \/ k \notin KeyedIn(book, id) \/ e.book.pending[k].ended
                    THEN e ELSE Occupancy(PollIntoBuffer(e.book, k)))
        BY <1>3, <4>1, <4>2
      <4> HIDE DEF e
      <4>4. ReconciledTo(book, h, id, v, k)
        <5> HIDE DEF v
        <5> QED  BY <1>1, <2>2, <4>1, <4>3, ReconciledStep
      <4> QED  BY <4>4
    <3> QED  BY <3>1, <3>2
  <2>4. A = {}
    <3>1. A \subseteq Nat
      BY <1>1
    <3> HIDE DEF A
    <3> QED  BY <2>3, <3>1, NoFirst
  <2>5. ReconciledTo(book, h, id, w, n)
    BY <1>1, <2>1, <2>4
  <2>6. /\ BookOK(w.book, h, now) /\ SameRest(w.book, book) /\ Steps(book.pending, w.book.pending)
        /\ w.occupied \in BOOLEAN
    BY <2>5 DEF ReconciledTo, Walking
  <2>7. /\ IsSeq(w.book.pending) /\ Len(w.book.pending) = n
        /\ \A j \in 1..n : w.book.pending[j].key = book.pending[j].key
    BY <2>6 DEF Steps, SameLeaf
  <2>8. ~ w.occupied =>
          \A j \in 1..Len(w.book.pending) : w.book.pending[j].key = id => Spent(w.book.pending[j])
    BY <1>1, <2>5, <2>7 DEF ReconciledTo
  <2>9. ASSUME w.occupied PROVE Holders(w.book, id) # {}
    <3>1. PICK j \in 1..n : book.pending[j].key = id /\ Able(w.book, j)
      BY <2>5, <2>9 DEF ReconciledTo
    <3> QED  BY <2>7, <3>1, AbleHolds
  <2> QED  BY <2>6, <2>8, <2>9 DEF Reconciling
<1> QED  BY <1>5, <1>6

-----------------------------------------------------------------------------
(* Cleanups: each is armed, or was started once; and one that was started  *)
(* is in the sleep its first poll left it in, or that sleep is over.       *)
CleanupFields == {"scope", "src", "position"}

HookRecords(list) ==
  /\ IsSeq(list)
  /\ \A p \in 1..Len(list) : /\ (DOMAIN list[p]) = CleanupFields /\ list[p].position = p - 1
                             /\ SourceOK(list[p].src) /\ Plain(list[p].src.steps)

ArmedOK(list, records) ==
  /\ InOrder(list, Len(records))
  /\ \A i \in 1..Len(list) : list[i] = records[list[i].position + 1]

RunningOK(list) == IsSeq(list) /\ \A j \in 1..Len(list) : (DOMAIN list[j]) = CleanupFields

StartsOK(list, records, waiting) ==
  /\ IsSeq(list)
  /\ \A k \in 1..Len(list) : list[k].position \in 0..(Len(records) - 1) /\ list[k].at \in Nat
  /\ \A k \in 1..Len(list) : \A i \in 1..Len(waiting) : waiting[i].position # list[k].position
  /\ \A k, l \in 1..Len(list) : list[k].position = list[l].position => k = l

FirstPoll(start, records) == PollSource(records[start.position + 1].src, start.at).src

Going(y, runs, t) == y.due <= t \/ \E j \in 1..Len(runs) : runs[j].src = y

AllStarted(list, records, waiting) ==
  \A p \in 0..(Len(records) - 1) : p \in PositionsOf(waiting) \/ p \in PositionsOf(list)

AllGoing(list, records, runs, t) ==
  \A k \in 1..Len(list) : Going(FirstPoll(list[k], records), runs, t)

HooksOK(book, t) ==
  /\ HookRecords(book.hooks) /\ ArmedOK(book.armed, book.hooks) /\ RunningOK(book.running)
  /\ StartsOK(book.started, book.hooks, book.armed)
  /\ AllStarted(book.started, book.hooks, book.armed)
  /\ AllGoing(book.started, book.hooks, book.running, t)

LEMMA HooksSame ==
  ASSUME NEW book, NEW t, HooksOK(book, t), NEW b, b.hooks = book.hooks, b.armed = book.armed,
         b.running = book.running, b.started = book.started
  PROVE  HooksOK(b, t)
  BY DEF HooksOK

LEMMA FirstPolled ==
  ASSUME NEW records, HookRecords(records), NEW start, start.position \in 0..(Len(records) - 1),
         start.at \in Nat, NEW y, y = FirstPoll(start, records)
  PROVE  SourceShape(y)
<1> DEFINE src == records[start.position + 1].src
           z == PollSource(src, start.at)
<1>1. SourceOK(src) /\ Plain(src.steps)
  <2>1. start.position + 1 \in 1..Len(records)
    BY SeqIs DEF HookRecords
  <2> QED  BY <2>1 DEF HookRecords
<1>2. y = z.src /\ z = PollSource(src, start.at)
  BY DEF FirstPoll
<1> HIDE DEF src, z
<1>3. SourceFrom(src.steps, src, start.at)
  BY <1>1, SourceStarts
<1> DEFINE steps == src.steps
<1>4. SourceFrom(steps, src, start.at)
  BY <1>3
<1> HIDE DEF steps
<1>5. SourceFrom(steps, z.src, start.at)
  BY <1>2, <1>4, SourcePolled
<1> QED  BY <1>2, <1>5, SourceFromShape

(* A source in a sleep that is not over is as it was after a poll.         *)
LEMMA SleepLasts ==
  ASSUME NEW y, NEW t \in Nat, SourceShape(y), ~ (y.due <= t)
  PROVE  PollSource(y, t).src = y /\ y.steps # <<>>
<1>1. y.due # NotStarted
  BY DEF NotStarted
<1>2. y.steps # <<>> /\ Head(y.steps).do = "Wait"
  BY <1>1 DEF SourceShape
<1>3. Resting(y, t)
  BY <1>1, <1>2 DEF Resting
<1>4. Rested(y, t) = y
  BY <1>3, RestedStays
<1>5. Yield(y) = [src |-> y, out |-> Pending]
  BY <1>2 DEF Yield
<1> QED  BY <1>2, <1>4, <1>5 DEF PollSource

LEMMA HooksLater ==
  ASSUME NEW book, NEW t \in Nat, NEW u \in Nat, t <= u, HooksOK(book, t)
  PROVE  HooksOK(book, u)
<1>1. AllGoing(book.started, book.hooks, book.running, t) /\ HookRecords(book.hooks)
      /\ StartsOK(book.started, book.hooks, book.armed)
  BY DEF HooksOK
<1>2. ASSUME NEW k \in 1..Len(book.started)
      PROVE  Going(FirstPoll(book.started[k], book.hooks), book.running, u)
  <2> DEFINE start == book.started[k]
             y == FirstPoll(start, book.hooks)
  <2>1. start.position \in 0..(Len(book.hooks) - 1) /\ start.at \in Nat /\ y = FirstPoll(start, book.hooks)
        /\ Going(y, book.running, t)
    BY <1>1 DEF StartsOK, AllGoing
  <2> HIDE DEF start, y
  <2>2. SourceShape(y)
    BY <1>1, <2>1, FirstPolled
  <2>3. y.due \in Int
    BY <2>2 DEF SourceShape, NotStarted
  <2>4. Going(y, book.running, u)
    BY <2>1, <2>3 DEF Going
  <2> QED  BY <2>4 DEF y, start
<1> QED  BY <1>2 DEF HooksOK, AllGoing

(* The runs are polled, and those that end are dropped.                    *)
UnfinishedOf(runs, u) ==
  /\ RunningOK(u)
  /\ \A i \in 1..Len(runs) :
       PollSource(runs[i].src, now).src.steps # <<>> =>
         \E j \in 1..Len(u) : u[j].src = PollSource(runs[i].src, now).src

LEMMA UnfinishedIs ==
  ASSUME NEW runs, RunningOK(runs), NEW u, u = Unfinished(runs)
  PROVE  UnfinishedOf(runs, u)
<1> DEFINE n == Len(runs)
           polled == [i \in DOMAIN runs |-> PollCleanup(runs[i])]
           I == {i \in DOMAIN runs : polled[i].src.steps # <<>>}
<1>1. u = Selected(polled, I)
  BY DEF Unfinished
<1>2. IsSeq(runs) /\ n \in Nat /\ (DOMAIN runs) = 1..n
  BY SeqIs DEF RunningOK
<1>3. polled = [i \in 1..n |-> polled[i]]
  BY <1>2
<1>4. \A i \in 1..n : /\ (DOMAIN polled[i]) = CleanupFields
                      /\ polled[i].src = PollSource(runs[i].src, now).src
  BY <1>2 DEF PollCleanup, RunningOK, CleanupFields
<1>5. I \subseteq 1..n /\ \A i \in 1..n : polled[i].src.steps # <<>> => i \in I
  BY <1>2
<1> HIDE DEF polled, I
<1>6. IsSeq(polled) /\ Len(polled) = n
  BY <1>2, <1>3, SeqMade
<1>7. Enumerated(u, polled, I)
  BY <1>1, <1>5, <1>6, SelectedIs
<1>8. PICK g : Enumerates(g, u, polled, I)
  BY <1>7 DEF Enumerated
<1>9. RunningOK(u)
  <2>1. IsSeq(u) /\ \A i \in 1..Len(u) : g[i] \in I /\ u[i] = polled[g[i]]
    BY <1>8 DEF Enumerates
  <2>2. ASSUME NEW i \in 1..Len(u) PROVE (DOMAIN u[i]) = CleanupFields
    <3>1. g[i] \in 1..n /\ u[i] = polled[g[i]]
      BY <1>5, <2>1
    <3> QED  BY <1>4, <3>1
  <2> QED  BY <2>1, <2>2 DEF RunningOK
<1>10. ASSUME NEW i \in 1..n, PollSource(runs[i].src, now).src.steps # <<>>
       PROVE  \E j \in 1..Len(u) : u[j].src = PollSource(runs[i].src, now).src
  <2>1. i \in I
    BY <1>4, <1>5, <1>10
  <2>2. PICK j \in 1..Len(u) : g[j] = i
    BY <1>8, <2>1 DEF Enumerates
  <2>3. u[j] = polled[i]
    BY <1>8, <2>2 DEF Enumerates
  <2> QED  BY <1>4, <2>3
<1> QED  BY <1>9, <1>10 DEF UnfinishedOf

LEMMA HooksPolled ==
  ASSUME NEW book, now \in Nat, HooksOK(book, now), NEW b, b.hooks = book.hooks, b.armed = book.armed,
         b.running = Unfinished(book.running), b.started = book.started
  PROVE  HooksOK(b, now)
<1> DEFINE u == Unfinished(book.running)
<1>1. /\ AllGoing(book.started, book.hooks, book.running, now) /\ HookRecords(book.hooks)
      /\ StartsOK(book.started, book.hooks, book.armed) /\ RunningOK(book.running)
  BY DEF HooksOK
<1>2. UnfinishedOf(book.running, u)
  BY <1>1, UnfinishedIs
<1>4. b.running = u
  OBVIOUS
<1> HIDE DEF u
<1>3. ASSUME NEW k \in 1..Len(book.started)
      PROVE  Going(FirstPoll(book.started[k], book.hooks), u, now)
  <2> DEFINE start == book.started[k]
             y == FirstPoll(start, book.hooks)
  <2>1. start.position \in 0..(Len(book.hooks) - 1) /\ start.at \in Nat /\ y = FirstPoll(start, book.hooks)
        /\ Going(y, book.running, now)
    BY <1>1 DEF StartsOK, AllGoing
  <2> HIDE DEF start, y
  <2>2. SourceShape(y)
    BY <1>1, <2>1, FirstPolled
  <2>3. Going(y, u, now)
    <3>1. SUFFICES ASSUME ~ (y.due <= now) PROVE Going(y, u, now)
      BY DEF Going
    <3>2. PollSource(y, now).src = y /\ y.steps # <<>>
      BY <2>2, <3>1, SleepLasts
    <3>3. PICK i \in 1..Len(book.running) : book.running[i].src = y
      BY <2>1, <3>1 DEF Going
    <3>4. \E j \in 1..Len(u) : u[j].src = y
      BY <1>2, <3>2, <3>3 DEF UnfinishedOf
    <3> QED  BY <3>4 DEF Going
  <2> QED  BY <2>3 DEF y, start
<1>5. RunningOK(u)
  BY <1>2 DEF UnfinishedOf
<1>6. AllGoing(book.started, book.hooks, u, now)
  BY <1>3 DEF AllGoing
<1> QED  BY <1>4, <1>5, <1>6 DEF HooksOK

LEMMA PositionIn ==
  ASSUME NEW s, IsSeq(s), NEW p
  PROVE  p \in PositionsOf(s) <=> \E i \in 1..Len(s) : s[i].position = p
<1>1. (DOMAIN s) = 1..Len(s)
  BY SeqIs
<1> QED  BY <1>1 DEF PositionsOf

Concatenates(c, s, t) ==
  /\ IsSeq(c) /\ Len(s) \in Nat /\ Len(t) \in Nat
  /\ \A k \in 1..Len(c) : \/ k \in 1..Len(s) /\ c[k] = s[k]
                          \/ \E i \in 1..Len(t) : k = Len(s) + i /\ c[k] = t[i]
  /\ \A k \in 1..Len(s) : k \in 1..Len(c) /\ c[k] = s[k]
  /\ \A i \in 1..Len(t) : Len(s) + i \in 1..Len(c) /\ c[Len(s) + i] = t[i]

LEMMA Concatenated ==
  ASSUME NEW s, NEW t, IsSeq(s), IsSeq(t), NEW c, c = s \o t
  PROVE  Concatenates(c, s, t)
<1>1. /\ IsSeq(c) /\ Len(c) = Len(s) + Len(t) /\ Len(s) \in Nat /\ Len(t) \in Nat
      /\ \A i \in 1..Len(s) : c[i] = s[i]
      /\ \A i \in 1..Len(t) : c[Len(s) + i] = t[i]
  BY SeqConcat, SeqIs
<1>2. ASSUME NEW k \in 1..Len(c)
      PROVE  \/ k \in 1..Len(s) /\ c[k] = s[k]
             \/ \E i \in 1..Len(t) : k = Len(s) + i /\ c[k] = t[i]
  <2>1. CASE k <= Len(s)
    BY <1>1, <2>1
  <2>2. CASE ~ (k <= Len(s))
    <3> DEFINE i == k - Len(s)
    <3>1. i \in 1..Len(t) /\ k = Len(s) + i
      BY <1>1, <2>2
    <3> QED  BY <1>1, <3>1
  <2> QED  BY <2>1, <2>2
<1> QED  BY <1>1, <1>2 DEF Concatenates

(* Some of an ordered list, in order.                                      *)
SomeOf(g, t, list, I, n) ==
  /\ InOrder(t, n)
  /\ \A i \in 1..Len(t) : g[i] \in I /\ g[i] \in 1..Len(list) /\ t[i] = list[g[i]]

LEMMA InOrderSome ==
  ASSUME NEW list, NEW n, InOrder(list, n), NEW I, I \subseteq 1..Len(list), NEW t, NEW g,
         Enumerates(g, t, list, I)
  PROVE  SomeOf(g, t, list, I, n)
<1>1. /\ IsSeq(t) /\ \A i \in 1..Len(t) : g[i] \in I /\ g[i] \in 1..Len(list) /\ t[i] = list[g[i]]
  BY DEF Enumerates
<1>2. \A i, j \in 1..Len(t) : i < j => g[i] < g[j]
  BY DEF Enumerates
<1>3. \A i \in 1..Len(t) : t[i].position \in 0..(n - 1)
  BY <1>1 DEF InOrder
<1>4. \A i, j \in 1..Len(t) : i < j => t[i].position < t[j].position
  <2>1. SUFFICES ASSUME NEW i \in 1..Len(t), NEW j \in 1..Len(t), i < j
                 PROVE  t[i].position < t[j].position
    OBVIOUS
  <2>2. g[i] \in 1..Len(list) /\ g[j] \in 1..Len(list) /\ g[i] < g[j] /\ t[i] = list[g[i]] /\ t[j] = list[g[j]]
    BY <1>1, <1>2, <2>1
  <2>3. list[g[i]].position < list[g[j]].position
    BY <2>2 DEF InOrder
  <2> QED  BY <2>2, <2>3
<1> QED  BY <1>1, <1>3, <1>4 DEF InOrder, SomeOf

LEMMA InOrderDiffer ==
  ASSUME NEW list, NEW n, InOrder(list, n), NEW i \in 1..Len(list), NEW j \in 1..Len(list),
         list[i].position = list[j].position
  PROVE  i = j
<1>1. list[i].position \in Int /\ i \in Int /\ j \in Int
  BY DEF InOrder
<1>2. i < j => list[i].position < list[j].position
  BY DEF InOrder
<1>3. j < i => list[j].position < list[i].position
  BY DEF InOrder
<1> QED  BY <1>1, <1>2, <1>3

StartsOf(sel) == [i \in DOMAIN sel |-> [position |-> sel[i].position, at |-> now]]

LEMMA HooksTorn ==
  ASSUME NEW book, now \in Nat, HooksOK(book, now), NEW I, I \subseteq 1..Len(book.armed),
         NEW J, J = (1..Len(book.armed)) \ I,
         NEW sel, sel = Selected(book.armed, I), NEW rest, rest = Selected(book.armed, J),
         NEW u, u = Unfinished(sel), NEW new, new = StartsOf(sel),
         NEW b, b.hooks = book.hooks, b.armed = rest, b.running = book.running \o u,
         b.started = book.started \o new
  PROVE  HooksOK(b, now)
<1> DEFINE armedOnes == book.armed
           records == book.hooks
           old == book.started
           runs == book.running
           all == old \o new
           going == runs \o u
<1>0. /\ HookRecords(records) /\ ArmedOK(armedOnes, records) /\ RunningOK(runs)
      /\ StartsOK(old, records, armedOnes)
      /\ AllStarted(old, records, armedOnes) /\ AllGoing(old, records, runs, now)
  BY DEF HooksOK
<1>1. /\ b.hooks = records /\ b.armed = rest /\ b.running = going /\ b.started = all
      /\ I \subseteq 1..Len(armedOnes) /\ J = (1..Len(armedOnes)) \ I
      /\ sel = Selected(armedOnes, I) /\ rest = Selected(armedOnes, J)
      /\ all = old \o new /\ going = runs \o u
  OBVIOUS
<1> HIDE DEF armedOnes, records, old, runs, all, going
<1>2. IsSeq(armedOnes) /\ InOrder(armedOnes, Len(records)) /\ IsSeq(old) /\ IsSeq(runs)
  BY <1>0 DEF ArmedOK, InOrder, StartsOK, RunningOK
<1>3. Enumerated(sel, armedOnes, I)
  BY <1>1, <1>2, SelectedIs
<1>4. Enumerated(rest, armedOnes, J)
  <2>1. J \subseteq 1..Len(armedOnes)
    BY <1>1
  <2> QED  BY <1>1, <1>2, <2>1, SelectedIs
<1>5. PICK g : Enumerates(g, sel, armedOnes, I)
  BY <1>3 DEF Enumerated
<1>6. PICK f : Enumerates(f, rest, armedOnes, J)
  BY <1>4 DEF Enumerated
<1>7. /\ InOrder(sel, Len(records))
      /\ \A i \in 1..Len(sel) : g[i] \in I /\ g[i] \in 1..Len(armedOnes) /\ sel[i] = armedOnes[g[i]]
  <2> DEFINE n == Len(records)
  <2>1. InOrder(armedOnes, n)
    BY <1>2
  <2> HIDE DEF n
  <2>2. SomeOf(g, sel, armedOnes, I, n)
    BY <1>1, <1>5, <2>1, InOrderSome
  <2> QED  BY <2>2 DEF SomeOf, n
<1>8. /\ InOrder(rest, Len(records))
      /\ \A i \in 1..Len(rest) : f[i] \in J /\ f[i] \in 1..Len(armedOnes) /\ rest[i] = armedOnes[f[i]]
  <2>1. J \subseteq 1..Len(armedOnes)
    BY <1>1
  <2> DEFINE n == Len(records)
  <2>2. InOrder(armedOnes, n)
    BY <1>2
  <2> HIDE DEF n
  <2>3. SomeOf(f, rest, armedOnes, J, n)
    BY <1>6, <2>1, <2>2, InOrderSome
  <2> QED  BY <2>3 DEF SomeOf, n
<1>9. ArmedOK(rest, records)
  <2>1. \A i \in 1..Len(rest) : rest[i] = records[rest[i].position + 1]
    BY <1>0, <1>8 DEF ArmedOK
  <2> QED  BY <1>8, <2>1 DEF ArmedOK
<1>10. /\ IsSeq(sel) /\ Len(sel) \in Nat /\ (DOMAIN sel) = 1..Len(sel)
       /\ \A i \in 1..Len(sel) : /\ sel[i].position \in 0..(Len(records) - 1)
                                 /\ sel[i] = records[sel[i].position + 1]
  <2>1. \A i \in 1..Len(sel) : sel[i] = records[sel[i].position + 1]
    BY <1>0, <1>7 DEF ArmedOK
  <2> QED  BY <1>7, <2>1, SeqIs DEF InOrder
<1>11. RunningOK(sel)
  <2>1. ASSUME NEW i \in 1..Len(sel) PROVE (DOMAIN sel[i]) = CleanupFields
    <3>1. sel[i].position + 1 \in 1..Len(records)
      BY <1>0, <1>10, SeqIs DEF HookRecords
    <3>2. (DOMAIN records[sel[i].position + 1]) = CleanupFields
      BY <1>0, <3>1 DEF HookRecords
    <3> QED  BY <1>10, <3>2
  <2> QED  BY <1>10, <2>1 DEF RunningOK
<1>12. UnfinishedOf(sel, u)
  BY <1>11, UnfinishedIs
<1>13. RunningOK(going) /\ Concatenates(going, runs, u)
  <2>1. RunningOK(u) /\ IsSeq(u)
    BY <1>12 DEF UnfinishedOf, RunningOK
  <2>2. Concatenates(going, runs, u)
    BY <1>1, <1>2, <2>1, Concatenated
  <2>3. ASSUME NEW k \in 1..Len(going) PROVE (DOMAIN going[k]) = CleanupFields
    <3>1. \/ k \in 1..Len(runs) /\ going[k] = runs[k]
          \/ \E i \in 1..Len(u) : k = Len(runs) + i /\ going[k] = u[i]
      BY <2>2 DEF Concatenates
    <3> QED  BY <1>0, <2>1, <3>1 DEF RunningOK
  <2> QED  BY <2>1, <2>2, <2>3 DEF RunningOK, Concatenates
<1>14. /\ IsSeq(new) /\ Len(new) = Len(sel)
       /\ \A i \in 1..Len(sel) : new[i].position = sel[i].position /\ new[i].at = now
  <2>1. new = [i \in 1..Len(sel) |-> new[i]]
    BY <1>10 DEF StartsOf
  <2>2. IsSeq(new) /\ Len(new) = Len(sel)
    BY <1>10, <2>1, SeqMade
  <2>3. \A i \in 1..Len(sel) : new[i].position = sel[i].position /\ new[i].at = now
    BY <1>10 DEF StartsOf
  <2> QED  BY <2>2, <2>3
<1>15. Concatenates(all, old, new)
  BY <1>1, <1>2, <1>14, Concatenated
<1>16. \A k \in 1..Len(all) : \/ k \in 1..Len(old) /\ all[k] = old[k]
                              \/ \E i \in 1..Len(sel) : k = Len(old) + i /\ all[k] = new[i]
  BY <1>14, <1>15 DEF Concatenates
<1>17. StartsOK(all, records, rest)
  <2>1. \A k \in 1..Len(old) : /\ old[k].position \in 0..(Len(records) - 1) /\ old[k].at \in Nat
                               /\ \A i \in 1..Len(armedOnes) : armedOnes[i].position # old[k].position
    BY <1>0 DEF StartsOK
  <2>2. ASSUME NEW k \in 1..Len(all)
        PROVE  all[k].position \in 0..(Len(records) - 1) /\ all[k].at \in Nat
    <3>1. CASE k \in 1..Len(old) /\ all[k] = old[k]
      BY <2>1, <3>1
    <3>2. CASE \E i \in 1..Len(sel) : k = Len(old) + i /\ all[k] = new[i]
      <4>1. PICK i \in 1..Len(sel) : all[k] = new[i]
        BY <3>2
      <4> QED  BY <1>10, <1>14, <4>1
    <3> QED  BY <1>16, <3>1, <3>2
  <2>3. ASSUME NEW k \in 1..Len(all), NEW j \in 1..Len(rest)
        PROVE  rest[j].position # all[k].position
    <3>1. f[j] \in J /\ f[j] \in 1..Len(armedOnes) /\ rest[j] = armedOnes[f[j]]
      BY <1>8
    <3>2. CASE k \in 1..Len(old) /\ all[k] = old[k]
      BY <2>1, <3>1, <3>2
    <3>3. CASE \E i \in 1..Len(sel) : k = Len(old) + i /\ all[k] = new[i]
      <4>1. PICK i \in 1..Len(sel) : all[k] = new[i]
        BY <3>3
      <4>2. g[i] \in I /\ g[i] \in 1..Len(armedOnes) /\ all[k].position = armedOnes[g[i]].position
        BY <1>7, <1>14, <4>1
      <4>3. f[j] # g[i]
        BY <1>1, <3>1, <4>2
      <4> DEFINE n == Len(records)
                 x == f[j]
                 z == g[i]
      <4>4. InOrder(armedOnes, n) /\ x \in 1..Len(armedOnes) /\ z \in 1..Len(armedOnes) /\ x # z
        BY <1>2, <3>1, <4>2, <4>3
      <4> HIDE DEF n, x, z
      <4>5. armedOnes[x].position # armedOnes[z].position
        BY <4>4, InOrderDiffer
      <4> QED  BY <3>1, <4>2, <4>5 DEF x, z
    <3> QED  BY <1>16, <3>2, <3>3
  <2>4. ASSUME NEW k \in 1..Len(all), NEW l \in 1..Len(all), all[k].position = all[l].position
        PROVE  k = l
    <3> DEFINE Old(m) == m \in 1..Len(old) /\ all[m] = old[m]
               New(m) == \E i \in 1..Len(sel) : m = Len(old) + i /\ all[m] = new[i]
    <3>1. (Old(k) \/ New(k)) /\ (Old(l) \/ New(l))
      BY <1>16
    <3>2. ASSUME NEW m \in 1..Len(all), NEW q \in 1..Len(all), Old(m), New(q)
          PROVE  all[m].position # all[q].position
      <4>1. PICK i \in 1..Len(sel) : all[q] = new[i]
        BY <3>2
      <4>2. g[i] \in 1..Len(armedOnes) /\ all[q].position = armedOnes[g[i]].position
        BY <1>7, <1>14, <4>1
      <4> QED  BY <2>1, <3>2, <4>2
    <3>3. CASE Old(k) /\ Old(l)
      <4>1. old[k].position = old[l].position
        BY <2>4, <3>3
      <4> QED  BY <1>0, <3>3, <4>1 DEF StartsOK
    <3>4. CASE New(k) /\ New(l)
      <4>1. PICK i \in 1..Len(sel) : k = Len(old) + i /\ all[k] = new[i]
        BY <3>4
      <4>2. PICK j \in 1..Len(sel) : l = Len(old) + j /\ all[l] = new[j]
        BY <3>4
      <4>3. sel[i].position = sel[j].position
        BY <1>14, <2>4, <4>1, <4>2
      <4>4. i = j
        BY <1>7, <4>3, InOrderDiffer
      <4> QED  BY <4>1, <4>2, <4>4
    <3> HIDE DEF Old, New
    <3>5. ~ (Old(k) /\ New(l)) /\ ~ (Old(l) /\ New(k))
      BY <2>4, <3>2
    <3> QED  BY <3>1, <3>3, <3>4, <3>5
  <2> QED  BY <1>15, <2>2, <2>3, <2>4 DEF StartsOK, Concatenates
<1>18. /\ \A k \in 1..Len(old) : k \in 1..Len(all) /\ all[k] = old[k]
       /\ \A i \in 1..Len(sel) : Len(old) + i \in 1..Len(all) /\ all[Len(old) + i] = new[i]
  BY <1>14, <1>15 DEF Concatenates
<1>19. AllStarted(all, records, rest)
  <2>1. SUFFICES ASSUME NEW p \in 0..(Len(records) - 1)
                 PROVE  \/ \E i \in 1..Len(rest) : rest[i].position = p
                        \/ \E i \in 1..Len(all) : all[i].position = p
    <3>1. IsSeq(rest) /\ IsSeq(all)
      BY <1>8, <1>15 DEF InOrder, Concatenates
    <3> QED  BY <3>1, PositionIn DEF AllStarted
  <2>2. \/ \E i \in 1..Len(armedOnes) : armedOnes[i].position = p
        \/ \E i \in 1..Len(old) : old[i].position = p
    <3>1. p \in PositionsOf(armedOnes) \/ p \in PositionsOf(old)
      BY <1>0 DEF AllStarted
    <3>2. p \in PositionsOf(armedOnes) => \E i \in 1..Len(armedOnes) : armedOnes[i].position = p
      BY <1>2, PositionIn
    <3>3. p \in PositionsOf(old) => \E i \in 1..Len(old) : old[i].position = p
      BY <1>2, PositionIn
    <3> QED  BY <3>1, <3>2, <3>3
  <2>3. CASE \E i \in 1..Len(old) : old[i].position = p
    BY <1>18, <2>3
  <2>4. CASE \E i \in 1..Len(armedOnes) : armedOnes[i].position = p
    <3>1. PICK i \in 1..Len(armedOnes) : armedOnes[i].position = p
      BY <2>4
    <3>2. CASE i \in I
      <4>1. PICK j \in 1..Len(sel) : g[j] = i
        BY <1>5, <3>2 DEF Enumerates
      <4>2. all[Len(old) + j].position = p
        BY <1>7, <1>14, <1>18, <3>1, <4>1
      <4> QED  BY <1>18, <4>2
    <3>3. CASE i \notin I
      <4>1. i \in J
        BY <1>1, <3>3
      <4>2. PICK j \in 1..Len(rest) : f[j] = i
        BY <1>6, <4>1 DEF Enumerates
      <4> QED  BY <1>8, <3>1, <4>2
    <3> QED  BY <3>2, <3>3
  <2> QED  BY <2>2, <2>3, <2>4
<1>20. AllGoing(all, records, going, now)
  <2>1. /\ \A j \in 1..Len(runs) : j \in 1..Len(going) /\ going[j] = runs[j]
        /\ \A j \in 1..Len(u) : Len(runs) + j \in 1..Len(going) /\ going[Len(runs) + j] = u[j]
    BY <1>13 DEF Concatenates
  <2>2. ASSUME NEW k \in 1..Len(all) PROVE Going(FirstPoll(all[k], records), going, now)
    <3>1. CASE k \in 1..Len(old) /\ all[k] = old[k]
      <4>1. Going(FirstPoll(old[k], records), runs, now)
        BY <1>0, <3>1 DEF AllGoing
      <4> QED  BY <2>1, <3>1, <4>1 DEF Going
    <3>2. CASE \E i \in 1..Len(sel) : k = Len(old) + i /\ all[k] = new[i]
      <4>1. PICK i \in 1..Len(sel) : all[k] = new[i]
        BY <3>2
      <4> DEFINE y == PollSource(sel[i].src, now).src
                 start == all[k]
      <4>2. start.position = sel[i].position /\ start.at = now /\ start.position \in 0..(Len(records) - 1)
        BY <1>10, <1>14, <4>1
      <4>3. y = FirstPoll(start, records)
        BY <1>10, <4>2 DEF FirstPoll
      <4>4. y.steps # <<>> => \E j \in 1..Len(u) : u[j].src = y
        BY <1>12 DEF UnfinishedOf
      <4> HIDE DEF y, start
      <4>5. SourceShape(y)
        BY <1>0, <4>2, <4>3, FirstPolled
      <4>6. y.steps = <<>> => y.due <= now
        BY <4>5 DEF SourceShape, NotStarted
      <4>7. Going(y, going, now)
        BY <2>1, <4>4, <4>6 DEF Going
      <4> QED  BY <4>3, <4>7 DEF start
    <3> QED  BY <1>16, <3>1, <3>2
  <2> QED  BY <2>2 DEF AllGoing
<1> QED  BY <1>0, <1>1, <1>9, <1>13, <1>17, <1>19, <1>20 DEF HooksOK

Appended(list, new, e) ==
  /\ IsSeq(new) /\ Len(list) \in Nat /\ Len(new) = Len(list) + 1
  /\ \A k \in 1..Len(list) : k \in 1..Len(new) /\ new[k] = list[k]
  /\ Len(new) \in 1..Len(new) /\ new[Len(new)] = e
  /\ \A k \in 1..Len(new) : k \in 1..Len(list) \/ k = Len(new)

LEMMA AppendedIs ==
  ASSUME NEW list, IsSeq(list), NEW e, NEW new, new = Append(list, e)
  PROVE  Appended(list, new, e)
<1>1. /\ IsSeq(new) /\ Len(new) = Len(list) + 1 /\ Len(list) \in Nat
      /\ \A i \in 1..Len(list) : new[i] = list[i]
      /\ new[Len(list) + 1] = e
  BY SeqAppend, SeqIs
<1> QED  BY <1>1 DEF Appended

LEMMA InOrderNext ==
  ASSUME NEW list, NEW n \in Nat, InOrder(list, n), NEW e, e.position = n, NEW new, new = Append(list, e)
  PROVE  InOrder(new, n + 1)
<1>1. Appended(list, new, e)
  BY AppendedIs DEF InOrder
<1>2. ASSUME NEW k \in 1..Len(new) PROVE new[k].position \in 0..n
  <2>1. CASE k \in 1..Len(list)
    BY <1>1, <2>1 DEF InOrder, Appended
  <2>2. CASE k = Len(new)
    BY <1>1, <2>2 DEF Appended
  <2> QED  BY <1>1, <2>1, <2>2 DEF Appended
<1>3. ASSUME NEW i \in 1..Len(new), NEW j \in 1..Len(new), i < j
      PROVE  new[i].position < new[j].position
  <2>1. i \in 1..Len(list) /\ new[i] = list[i]
    BY <1>1, <1>3 DEF Appended
  <2>2. CASE j \in 1..Len(list)
    BY <1>1, <1>3, <2>1, <2>2 DEF InOrder, Appended
  <2>3. CASE j = Len(new)
    <3>1. new[j].position = n
      BY <1>1, <2>3 DEF Appended
    <3>2. list[i].position \in 0..(n - 1)
      BY <2>1 DEF InOrder
    <3> QED  BY <2>1, <3>1, <3>2
  <2> QED  BY <1>1, <2>2, <2>3 DEF Appended
<1> QED  BY <1>1, <1>2, <1>3 DEF InOrder, Appended

LEMMA HooksArmed ==
  ASSUME NEW book, NEW t, HooksOK(book, t), NEW reg, CleanupOK(reg),
         NEW c, c = Cleanup(reg, Len(book.hooks)),
         NEW b, b.hooks = Append(book.hooks, c), b.armed = Append(book.armed, c),
         b.running = book.running, b.started = book.started
  PROVE  HooksOK(b, t)
<1> DEFINE n == Len(book.hooks)
           records == book.hooks
           waiting == book.armed
           starts == book.started
           records2 == Append(records, c)
           waiting2 == Append(waiting, c)
<1>1. /\ HookRecords(records) /\ ArmedOK(waiting, records) /\ RunningOK(book.running)
      /\ StartsOK(starts, records, waiting) /\ AllStarted(starts, records, waiting)
      /\ AllGoing(starts, records, book.running, t)
  BY DEF HooksOK
<1>2. IsSeq(records) /\ n \in Nat /\ IsSeq(waiting) /\ InOrder(waiting, n) /\ IsSeq(starts)
  BY <1>1, SeqIs DEF HookRecords, ArmedOK, InOrder, StartsOK
<1>3. b.hooks = records2 /\ b.armed = waiting2 /\ b.started = starts /\ n = Len(records)
  OBVIOUS
<1>4. /\ (DOMAIN c) = CleanupFields /\ c.position = n /\ SourceOK(c.src) /\ Plain(c.src.steps)
  BY DEF Cleanup, CleanupFields, CleanupOK
<1>5. Appended(records, records2, c) /\ Appended(waiting, waiting2, c)
  BY <1>2, AppendedIs
<1>13. waiting2 = Append(waiting, c)
  OBVIOUS
<1> HIDE DEF n, records, waiting, starts, records2, waiting2
<1>6. HookRecords(records2)
  <2>1. ASSUME NEW p \in 1..Len(records2)
        PROVE  /\ (DOMAIN records2[p]) = CleanupFields /\ records2[p].position = p - 1
               /\ SourceOK(records2[p].src) /\ Plain(records2[p].src.steps)
    <3>1. CASE p \in 1..Len(records)
      <4>1. records2[p] = records[p]
        BY <1>5, <3>1 DEF Appended
      <4> QED  BY <1>1, <3>1, <4>1 DEF HookRecords
    <3>2. CASE p = Len(records2)
      <4>1. records2[p] = c /\ p = n + 1
        BY <1>3, <1>5, <3>2 DEF Appended
      <4>2. n = p - 1
        BY <1>2, <4>1
      <4> QED  BY <1>4, <4>1, <4>2
    <3> QED  BY <1>5, <3>1, <3>2 DEF Appended
  <2> QED  BY <1>5, <2>1 DEF HookRecords, Appended
<1>7. \A p \in 0..(n - 1) : records2[p + 1] = records[p + 1]
  <2>1. \A p \in 0..(n - 1) : p + 1 \in 1..Len(records)
    BY <1>2, <1>3
  <2> QED  BY <1>5, <2>1 DEF Appended
<1>8. ArmedOK(waiting2, records2)
  <2>1. InOrder(waiting2, n + 1)
    BY <1>2, <1>4, <1>13, InOrderNext
  <2>2. Len(records2) = n + 1
    BY <1>3, <1>5 DEF Appended
  <2>3. ASSUME NEW i \in 1..Len(waiting2) PROVE waiting2[i] = records2[waiting2[i].position + 1]
    <3>1. CASE i \in 1..Len(waiting)
      <4>1. waiting2[i] = waiting[i] /\ waiting[i].position \in 0..(n - 1)
        BY <1>2, <1>5, <3>1 DEF Appended, InOrder
      <4>2. waiting[i] = records[waiting[i].position + 1]
        BY <1>1, <3>1 DEF ArmedOK
      <4> QED  BY <1>7, <4>1, <4>2
    <3>2. CASE i = Len(waiting2)
      BY <1>4, <1>5, <2>2, <3>2 DEF Appended
    <3> QED  BY <1>5, <3>1, <3>2 DEF Appended
  <2> QED  BY <2>1, <2>2, <2>3 DEF ArmedOK
<1>9. \A k \in 1..Len(starts) : starts[k].position \in 0..(n - 1) /\ starts[k].at \in Nat
  BY <1>1, <1>3 DEF StartsOK
<1>10. StartsOK(starts, records2, waiting2)
  <2>1. Len(records2) = n + 1
    BY <1>3, <1>5 DEF Appended
  <2>2. \A k \in 1..Len(starts) : starts[k].position \in 0..(Len(records2) - 1) /\ starts[k].at \in Nat
    BY <1>2, <1>9, <2>1
  <2>3. ASSUME NEW k \in 1..Len(starts), NEW i \in 1..Len(waiting2)
        PROVE  waiting2[i].position # starts[k].position
    <3>1. CASE i \in 1..Len(waiting)
      BY <1>1, <1>5, <3>1 DEF StartsOK, Appended
    <3>2. CASE i = Len(waiting2)
      <4>1. waiting2[i].position = n /\ starts[k].position \in 0..(n - 1)
        BY <1>4, <1>5, <1>9, <3>2 DEF Appended
      <4> QED  BY <1>2, <4>1
    <3> QED  BY <1>5, <3>1, <3>2 DEF Appended
  <2>4. IsSeq(starts) /\ \A k, l \in 1..Len(starts) : starts[k].position = starts[l].position => k = l
    BY <1>1 DEF StartsOK
  <2> QED  BY <2>2, <2>3, <2>4 DEF StartsOK
<1>11. AllStarted(starts, records2, waiting2)
  <2>1. SUFFICES ASSUME NEW p \in 0..(Len(records2) - 1)
                 PROVE  p \in PositionsOf(waiting2) \/ p \in PositionsOf(starts)
    BY DEF AllStarted
  <2>2. IsSeq(waiting2) /\ Len(records2) = n + 1
    BY <1>3, <1>5 DEF Appended
  <2>3. CASE p = n
    <3>1. \E i \in 1..Len(waiting2) : waiting2[i].position = p
      BY <1>4, <1>5, <2>3 DEF Appended
    <3> QED  BY <2>2, <3>1, PositionIn
  <2>4. CASE p # n
    <3>1. p \in 0..(Len(records) - 1)
      BY <1>2, <1>3, <2>2, <2>4
    <3>2. p \in PositionsOf(waiting) \/ p \in PositionsOf(starts)
      BY <1>1, <3>1 DEF AllStarted
    <3>3. ASSUME p \in PositionsOf(waiting) PROVE p \in PositionsOf(waiting2)
      <4>1. \E i \in 1..Len(waiting) : waiting[i].position = p
        BY <1>2, <3>3, PositionIn
      <4>2. \E i \in 1..Len(waiting2) : waiting2[i].position = p
        BY <1>5, <4>1 DEF Appended
      <4> QED  BY <2>2, <4>2, PositionIn
    <3> QED  BY <3>2, <3>3
  <2> QED  BY <2>3, <2>4
<1>12. AllGoing(starts, records2, book.running, t)
  <2>1. ASSUME NEW k \in 1..Len(starts) PROVE FirstPoll(starts[k], records2) = FirstPoll(starts[k], records)
    BY <1>7, <1>9 DEF FirstPoll
  <2> QED  BY <1>1, <2>1 DEF AllGoing
<1> QED  BY <1>1, <1>3, <1>6, <1>8, <1>10, <1>11, <1>12 DEF HooksOK

LEMMA HooksNone ==
  ASSUME NEW b, b.hooks = <<>>, b.armed = <<>>, b.running = <<>>, b.started = <<>>, NEW t
  PROVE  HooksOK(b, t)
<1>1. IsSeq(<<>>) /\ Len(<<>>) = 0
  BY SeqEmpty
<1>2. \A k : k \notin 1..0 /\ k \notin 0..(0 - 1)
  OBVIOUS
<1>3. HookRecords(<<>>) /\ RunningOK(<<>>) /\ ArmedOK(<<>>, <<>>) /\ StartsOK(<<>>, <<>>, <<>>)
  BY <1>1, <1>2 DEF HookRecords, RunningOK, ArmedOK, InOrder, StartsOK
<1>4. AllStarted(<<>>, <<>>, <<>>) /\ AllGoing(<<>>, <<>>, <<>>, t)
  BY <1>1, <1>2 DEF AllStarted, AllGoing
<1> QED  BY <1>3, <1>4 DEF HooksOK

-----------------------------------------------------------------------------
(* Everything that holds of a store between two operations.                *)
RefusalsOK(list) == IsSeq(list) /\ \A i \in 1..Len(list) : list[i] # {}

StoreOK(book, h, t) ==
  /\ BookOK(book, h, t)
  /\ Slots(book.pending)
  /\ RefusalsOK(book.refusals)
  /\ HooksOK(book, t)

LEMMA SlotsSome ==
  ASSUME NEW list, Slots(list), NEW I, I \subseteq 1..Len(list), NEW t, NEW g, Enumerates(g, t, list, I)
  PROVE  Slots(t)
<1>1. /\ \A i \in 1..Len(t) : g[i] \in 1..Len(list) /\ t[i] = list[g[i]]
      /\ \A i, j \in 1..Len(t) : i < j => g[i] < g[j]
  BY DEF Enumerates
<1>2. SUFFICES ASSUME NEW i \in 1..Len(t), NEW j \in 1..Len(t), i < j,
                      t[i].key = t[j].key, t[i].key # NoKey
               PROVE  Spent(t[i]) \/ Spent(t[j])
  BY DEF Slots
<1>3. g[i] \in 1..Len(list) /\ g[j] \in 1..Len(list) /\ g[i] < g[j] /\ t[i] = list[g[i]] /\ t[j] = list[g[j]]
  BY <1>1, <1>2
<1> QED  BY <1>2, <1>3 DEF Slots

LEMMA BookSeqs ==
  ASSUME NEW book, NEW h, NEW t, BookOK(book, h, t)
  PROVE  /\ (DOMAIN book) = BookFields /\ IsSeq(book.pending) /\ IsSeq(book.leaves)
         /\ Len(book.pending) \in Nat /\ Len(book.leaves) \in Nat /\ (DOMAIN book.pending) = 1..Len(book.pending)
  BY SeqIs DEF BookOK, InOrder, Records

LEMMA StoreDropped ==
  ASSUME NEW book, NEW h, NEW t \in Nat, StoreOK(book, h, t), NEW I, I \subseteq 1..Len(book.pending),
         NEW d, d = Drop(book, Selected(book.pending, I))
  PROVE  StoreOK(d, h, t) /\ Dropping(book, d, I)
<1>1. BookOK(book, h, t) /\ Slots(book.pending)
  BY DEF StoreOK
<1>2. (DOMAIN book) = BookFields /\ IsSeq(book.pending)
  BY <1>1, BookSeqs
<1>3. Dropping(book, d, I)
  BY <1>2, DroppedIs
<1>4. BookOK(d, h, t)
  <2>1. /\ (DOMAIN d) = BookFields /\ d.pending = Selected(book.pending, I)
        /\ d.leaves = book.leaves /\ d.spent = book.spent /\ d.fired = book.fired
        /\ d.revoked = book.revoked \cup (PositionsOf(book.pending) \ PositionsOf(d.pending))
    BY <1>3 DEF Dropping
  <2> QED  BY ONLY <1>1, <2>1, t \in Nat, I \subseteq 1..Len(book.pending), BookDropped
<1>5. Enumerated(d.pending, book.pending, I)
  <2> DEFINE list == book.pending
  <2>1. IsSeq(list) /\ I \subseteq 1..Len(list) /\ d.pending = Selected(list, I)
    BY <1>2, <1>3 DEF Dropping
  <2> HIDE DEF list
  <2>2. Enumerated(Selected(list, I), list, I)
    BY ONLY <2>1, SelectedIs
  <2> QED  BY <2>1, <2>2 DEF list
<1>6. PICK g : Enumerates(g, d.pending, book.pending, I)
  BY <1>5 DEF Enumerated
<1>7. Slots(d.pending)
  BY <1>1, <1>6, SlotsSome
<1>8. HooksOK(d, t)
  BY <1>3, HooksSame DEF StoreOK, Dropping
<1> QED  BY <1>3, <1>4, <1>7, <1>8 DEF StoreOK, Dropping

(* An id that is cancelled holds nothing.                                  *)
LEMMA StoreCancelled ==
  ASSUME NEW book, NEW h, NEW t \in Nat, StoreOK(book, h, t), NEW id, NEW d, d = CancelId(book, id)
  PROVE  /\ StoreOK(d, h, t) /\ d.leaves = book.leaves
         /\ \A j \in 1..Len(d.pending) : d.pending[j].key # id
<1> DEFINE I == (DOMAIN book.pending) \ KeyedIn(book, id)
<1>1. d = Drop(book, Selected(book.pending, I))
  BY DEF CancelId
<1>2. (DOMAIN book.pending) = 1..Len(book.pending) /\ IsSeq(book.pending)
  BY BookSeqs DEF StoreOK
<1>3. I \subseteq 1..Len(book.pending) /\ \A i \in I : book.pending[i].key # id
  BY <1>2 DEF KeyedIn
<1> HIDE DEF I
<1>4. StoreOK(d, h, t) /\ Dropping(book, d, I)
  BY <1>1, <1>3, StoreDropped
<1>5. Enumerated(d.pending, book.pending, I)
  BY <1>2, <1>3, <1>4, SelectedIs DEF Dropping
<1>6. PICK g : Enumerates(g, d.pending, book.pending, I)
  BY <1>5 DEF Enumerated
<1>7. \A j \in 1..Len(d.pending) : d.pending[j].key # id
  BY <1>3, <1>6 DEF Enumerates
<1> QED  BY <1>4, <1>7 DEF Dropping

LEMMA StoreTorn ==
  ASSUME NEW book, NEW h, now \in Nat, StoreOK(book, h, now), NEW prefix, NEW c,
         c = TeardownUnder(book, prefix)
  PROVE  StoreOK(c, h, now)
<1> DEFINE inside == Inside(book.armed, prefix)
           sel == Selected(book.armed, inside)
           rest == RegistrationsOutside(book.armed, prefix)
           I == (DOMAIN book.pending) \ Inside(book.pending, prefix)
           d == Drop(book, Selected(book.pending, I))
           u == Unfinished(sel)
           new == StartsOf(sel)
<1>1. c = [d EXCEPT !.armed = RegistrationsOutside(@, prefix), !.running = @ \o u, !.started = @ \o new]
  BY DEF TeardownUnder, StartsOf
<1>2. /\ sel = Selected(book.armed, inside) /\ u = Unfinished(sel)
      /\ new = StartsOf(sel)
      /\ d = Drop(book, Selected(book.pending, I))
  OBVIOUS
<1>3. I \subseteq 1..Len(book.pending)
  BY BookSeqs DEF StoreOK
<1>4. HooksOK(book, now) /\ IsSeq(book.armed)
  BY DEF StoreOK, HooksOK, ArmedOK, InOrder
<1>5. inside \subseteq 1..Len(book.armed) /\ rest = Selected(book.armed, (1..Len(book.armed)) \ inside)
  BY <1>4, SeqIs DEF Inside, RegistrationsOutside
<1>6. rest = RegistrationsOutside(book.armed, prefix)
  OBVIOUS
<1> HIDE DEF inside, sel, rest, I, d, u, new
<1>7. StoreOK(d, h, now) /\ Dropping(book, d, I)
  BY <1>2, <1>3, StoreDropped
<1>8. /\ (DOMAIN c) = BookFields /\ c.pending = d.pending /\ c.leaves = d.leaves /\ c.spent = d.spent
      /\ c.fired = d.fired /\ c.revoked = d.revoked /\ c.hooks = d.hooks /\ c.refusals = d.refusals
      /\ c.armed = RegistrationsOutside(d.armed, prefix) /\ c.running = d.running \o u
      /\ c.started = d.started \o new
  <2>1. (DOMAIN d) = BookFields
    BY <1>7 DEF Dropping
  <2> QED  BY <1>1, <2>1 DEF BookFields
<1>9. /\ c.hooks = book.hooks /\ c.armed = rest /\ c.running = book.running \o u
      /\ c.started = book.started \o new
  BY <1>6, <1>7, <1>8 DEF Dropping
<1>10. HooksOK(c, now)
  <2> DEFINE J == (1..Len(book.armed)) \ inside
  <2>1. J = (1..Len(book.armed)) \ inside /\ rest = Selected(book.armed, J)
    BY <1>5
  <2> HIDE DEF J
  <2>2. HooksOK(book, now) /\ inside \subseteq 1..Len(book.armed)
    BY <1>4, <1>5
  <2> QED  BY ONLY <1>2, <1>9, <2>1, <2>2, now \in Nat, HooksTorn
<1>11. BookOK(c, h, now)
  BY <1>7, <1>8, BookSame DEF StoreOK
<1> QED  BY <1>7, <1>8, <1>10, <1>11 DEF StoreOK

(* A leaf is pushed, into a slot that is free.                             *)
LEMMA StorePushed ==
  ASSUME NEW book, NEW h, now \in Nat, StoreOK(book, h, now), NEW leaf, SpawnOK(leaf),
         leaf.key = NoKey \/ \A j \in 1..Len(book.pending) : book.pending[j].key = leaf.key => Spent(book.pending[j]),
         NEW b, b = PushLeaf(book, leaf)
  PROVE  StoreOK(b, h, now)
<1> DEFINE m == PendingLeaf(leaf, Len(book.leaves))
           list == book.pending
           new == b.pending
<1>1. BookOK(book, h, now) /\ m = PendingLeaf(leaf, Len(book.leaves))
  BY DEF StoreOK
<1>2. IsSeq(list)
  BY <1>1, BookSeqs
<1> HIDE DEF m
<1>3. BookOK(b, h, now) /\ Pushing(book, b, m) /\ m.key = leaf.key /\ ~ IsBuffered(m)
  <2>1. PushedWell(book, h, leaf, b, m)
    BY ONLY <1>1, now \in Nat, SpawnOK(leaf), b = PushLeaf(book, leaf), BookPushed
  <2> QED  BY <2>1 DEF PushedWell
<1>4. Appended(list, new, m)
  BY <1>2, <1>3, AppendedIs DEF Pushing
<1>5. Slots(list)
  BY DEF StoreOK
<1>6. leaf.key = NoKey \/ \A j \in 1..Len(list) : list[j].key = leaf.key => Spent(list[j])
  OBVIOUS
<1> HIDE DEF list, new
<1>7. Slots(new)
  <2>1. SUFFICES ASSUME NEW i \in 1..Len(new), NEW j \in 1..Len(new), i < j,
                        new[i].key = new[j].key, new[i].key # NoKey
                 PROVE  Spent(new[i]) \/ Spent(new[j])
    BY DEF Slots
  <2>2. i \in 1..Len(list) /\ new[i] = list[i]
    BY <1>4, <2>1 DEF Appended
  <2>3. CASE j \in 1..Len(list)
    <3>1. new[j] = list[j]
      BY <1>4, <2>3 DEF Appended
    <3> QED  BY <1>5, <2>1, <2>2, <2>3, <3>1 DEF Slots
  <2>4. CASE j = Len(new)
    <3>1. list[i].key = leaf.key /\ leaf.key # NoKey
      BY <1>3, <1>4, <2>1, <2>2, <2>4 DEF Appended
    <3> QED  BY <1>6, <2>2, <3>1
  <2> QED  BY <1>4, <2>3, <2>4 DEF Appended
<1>8. HooksOK(b, now)
  BY <1>3, HooksSame DEF StoreOK, Pushing
<1>9. RefusalsOK(b.refusals)
  BY <1>3 DEF StoreOK, Pushing
<1> QED  BY <1>3, <1>7, <1>8, <1>9 DEF StoreOK, new

LEMMA StoreRefused ==
  ASSUME NEW book, NEW h, NEW t, StoreOK(book, h, t), NEW id, Holders(book, id) # {},
         NEW b, b = Refuse(book, id)
  PROVE  StoreOK(b, h, t)
<1> DEFINE e == Holders(book, id)
           list == book.refusals
           new == Append(list, e)
<1>1. b = [book EXCEPT !.refusals = new] /\ (DOMAIN book) = BookFields
  BY BookSeqs DEF Refuse, StoreOK
<1>2. new = Append(list, e) /\ IsSeq(list) /\ e # {} /\ \A i \in 1..Len(list) : list[i] # {}
  BY DEF StoreOK, RefusalsOK
<1> HIDE DEF e, new
<1>3. /\ (DOMAIN b) = BookFields /\ b.pending = book.pending /\ b.leaves = book.leaves
      /\ b.spent = book.spent /\ b.fired = book.fired /\ b.revoked = book.revoked
      /\ b.hooks = book.hooks /\ b.armed = book.armed /\ b.running = book.running
      /\ b.started = book.started /\ b.refusals = new
  BY <1>1 DEF BookFields
<1>4. BookOK(b, h, t) /\ HooksOK(b, t)
  BY <1>3, BookSame, HooksSame DEF StoreOK
<1> HIDE DEF list
<1>5. Appended(list, new, e)
  BY <1>2, AppendedIs
<1>6. RefusalsOK(new)
  BY <1>2, <1>5 DEF Appended, RefusalsOK
<1> QED  BY <1>3, <1>4, <1>6 DEF StoreOK

LEMMA StoreAdmitted ==
  ASSUME NEW book, NEW h, now \in Nat, StoreOK(book, h, now), NEW leaf, SpawnOK(leaf),
         NEW b, b = Admit(book, leaf)
  PROVE  StoreOK(b, h, now)
<1>1. CASE leaf.key = NoKey
  <2>1. b = PushLeaf(book, leaf)
    BY <1>1 DEF Admit
  <2> QED  BY <1>1, <2>1, StorePushed
<1>2. CASE leaf.key # NoKey /\ leaf.payload.policy = "CancelInFlight"
  <2> DEFINE d == CancelId(book, leaf.key)
             id == leaf.key
  <2>1. b = PushLeaf(d, leaf) /\ d = CancelId(book, id) /\ id = leaf.key
    BY <1>2 DEF Admit
  <2> HIDE DEF d, id
  <2>2. StoreOK(d, h, now) /\ \A j \in 1..Len(d.pending) : d.pending[j].key # id
    BY <2>1, StoreCancelled
  <2>3. \A j \in 1..Len(d.pending) : d.pending[j].key = leaf.key => Spent(d.pending[j])
    BY <2>1, <2>2
  <2> QED  BY <2>1, <2>2, <2>3, StorePushed
<1>3. CASE leaf.key # NoKey /\ leaf.payload.policy # "CancelInFlight"
  <2> DEFINE w == ReconcileIsOccupied(book, leaf.key)
             d == w.book
             id == leaf.key
  <2>1. b = KeepInFlight(w, leaf) /\ w = ReconcileIsOccupied(book, id) /\ id = leaf.key
    BY <1>3 DEF Admit
  <2>2. BookOK(book, h, now) /\ Slots(book.pending)
    BY DEF StoreOK
  <2> HIDE DEF w, id
  <2>3. Reconciling(book, h, id, w)
    BY <2>1, <2>2, BookReconciled
  <2>4. /\ BookOK(d, h, now) /\ SameRest(d, book) /\ Steps(book.pending, d.pending)
        /\ w.occupied \in BOOLEAN
        /\ ~ w.occupied => \A j \in 1..Len(d.pending) : d.pending[j].key = id => Spent(d.pending[j])
        /\ w.occupied => Holders(d, id) # {}
    BY <2>3 DEF Reconciling
  <2>5. StoreOK(d, h, now)
    <3>1. Slots(d.pending)
      BY <2>2, <2>4, SlotsStep
    <3>2. HooksOK(d, now)
      BY <2>4, HooksSame DEF StoreOK, SameRest
    <3> QED  BY <2>4, <3>1, <3>2 DEF StoreOK, SameRest
  <2>6. CASE w.occupied
    <3>1. b = Refuse(d, id)
      BY <2>1, <2>6 DEF KeepInFlight
    <3> HIDE DEF d
    <3> QED  BY <2>4, <2>5, <2>6, <3>1, StoreRefused
  <2>7. CASE ~ w.occupied
    <3>1. b = PushLeaf(d, leaf)
      BY <2>1, <2>7 DEF KeepInFlight
    <3>2. \A j \in 1..Len(d.pending) : d.pending[j].key = leaf.key => Spent(d.pending[j])
      BY <2>1, <2>4, <2>7
    <3> HIDE DEF d
    <3> QED  BY <2>5, <3>1, <3>2, StorePushed
  <2> QED  BY <2>6, <2>7
<1> QED  BY <1>1, <1>2, <1>3

LEMMA StoreArmed ==
  ASSUME NEW book, NEW h, NEW t, StoreOK(book, h, t), NEW reg, CleanupOK(reg), NEW b, b = Arm(book, reg)
  PROVE  StoreOK(b, h, t)
<1> DEFINE c == Cleanup(reg, Len(book.hooks))
<1>1. /\ b = [book EXCEPT !.armed = Append(@, c), !.hooks = Append(@, c)]
      /\ (DOMAIN book) = BookFields /\ c = Cleanup(reg, Len(book.hooks))
  BY BookSeqs DEF Arm, StoreOK
<1> HIDE DEF c
<1>2. /\ (DOMAIN b) = BookFields /\ b.pending = book.pending /\ b.leaves = book.leaves
      /\ b.spent = book.spent /\ b.fired = book.fired /\ b.revoked = book.revoked
      /\ b.hooks = Append(book.hooks, c) /\ b.armed = Append(book.armed, c)
      /\ b.running = book.running /\ b.started = book.started /\ b.refusals = book.refusals
  BY <1>1 DEF BookFields
<1>3. BookOK(b, h, t)
  BY <1>2, BookSame DEF StoreOK
<1>4. HooksOK(b, t)
  <2>1. HooksOK(book, t)
    BY DEF StoreOK
  <2> QED  BY ONLY <1>1, <1>2, <2>1, CleanupOK(reg), HooksArmed
<1> QED  BY <1>2, <1>3, <1>4 DEF StoreOK

-----------------------------------------------------------------------------
(* The intake of a command, phase by phase.                                *)
LEMMA StoreWalk ==
  ASSUME NEW n \in Nat, NEW f, NEW h, NEW t, StoreOK(f[0], h, t),
         \A k \in 1..n : StoreOK(f[k - 1], h, t) => StoreOK(f[k], h, t)
  PROVE  StoreOK(f[n], h, t)
<1> DEFINE A == {k \in 0..n : ~ StoreOK(f[k], h, t)}
<1>1. ASSUME NEW k \in A PROVE \E j \in A : j < k
  <2>1. k # 0
    OBVIOUS
  <2>2. k \in 1..n /\ k - 1 \in 0..n /\ k - 1 < k
    BY <2>1
  <2>3. SUFFICES ASSUME k - 1 \notin A PROVE FALSE
    BY <2>2
  <2> QED  BY <2>2, <2>3
<1>2. A = {}
  <2>1. A \subseteq Nat
    OBVIOUS
  <2> HIDE DEF A
  <2> QED  BY <1>1, <2>1, NoFirst
<1> QED  BY <1>2

LEMMA StampedOK ==
  ASSUME NEW leaf, LeafOK(leaf), NEW serial, NEW m, m = Stamped(leaf, serial)
  PROVE  SpawnOK(m)
<1> DEFINE e == leaf.payload
           ls == e.layers
           new == [i \in DOMAIN ls |-> StampedLayer(ls[i], serial)]
<1>1. /\ leaf = [kind |-> leaf.kind, key |-> leaf.key, scope |-> leaf.scope, payload |-> e]
      /\ e = [src |-> e.src, layers |-> ls, policy |-> e.policy]
      /\ SourceOK(e.src) /\ (Plain(e.src.steps) \/ Looping(e.src.steps))
      /\ IsSeq(ls) /\ \A i \in DOMAIN ls : LayerOK(ls[i])
  BY DEF LeafOK, EffectOK
<1>2. m = [leaf EXCEPT !.payload.layers = new]
  BY DEF Stamped
<1>3. m.payload.src = e.src /\ m.payload.layers = new
  <2> HIDE DEF new
  <2>1. m.payload = [e EXCEPT !.layers = new]
    BY <1>1, <1>2
  <2> QED  BY <1>1, <2>1
<1>4. (DOMAIN ls) = 1..Len(ls) /\ Len(ls) \in Nat
  BY <1>1, SeqIs
<1>5. new = [i \in 1..Len(ls) |-> new[i]]
  BY <1>4
<1>6. \A i \in 1..Len(ls) : new[i] = StampedLayer(ls[i], serial)
  BY <1>4
<1> HIDE DEF new
<1>7. IsSeq(new) /\ Len(new) = Len(ls)
  BY <1>4, <1>5, SeqMade
<1>8. ASSUME NEW l, LayerOK(l) PROVE LayerOK(StampedLayer(l, serial))
  <2> DEFINE no == FALSE
             yes == TRUE
             c == <<serial, l.call>>
             Made(d, call) == [duration |-> d, call |-> call, deadline |-> NotStarted, observed |-> no,
                               open |-> yes, late |-> 0, cut |-> Pending]
             k == StampedLayer(l, serial)
  <2>1. \A d, call : Layer(d, call) = Made(d, call)
    BY DEF Layer
  <2>2. k = [l EXCEPT !.call = c]
    BY DEF StampedLayer
  <2> HIDE DEF no, yes, c, k
  <2>3. l = Made(l.duration, l.call) /\ l.duration \in Nat
    BY <1>8, <2>1 DEF LayerOK
  <2>4. k = Made(l.duration, c)
    BY <2>2, <2>3
  <2>5. k.duration = l.duration /\ k.call = c
    BY <2>4
  <2>6. k = Layer(k.duration, k.call)
    BY <2>1, <2>4, <2>5
  <2> QED  BY <2>3, <2>5, <2>6 DEF LayerOK, k
<1>9. \A i \in 1..Len(new) : LayerOK(new[i])
  BY <1>1, <1>4, <1>6, <1>7, <1>8
<1> QED  BY <1>1, <1>3, <1>7, <1>9 DEF SpawnOK

LEMMA SpawnsOK ==
  ASSUME NEW command, CommandOK(command), NEW s, s = Spawns(command)
  PROVE  IsSeq(s) /\ \A k \in 1..Len(s) : LeafOK(s[k])
<1> DEFINE list == command.leaves
           I == {i \in DOMAIN list : list[i].kind = "Effect"}
<1>1. s = Selected(list, I)
  BY DEF Spawns
<1>2. IsSeq(list) /\ (DOMAIN list) = 1..Len(list) /\ \A i \in 1..Len(list) : LeafOK(list[i])
  BY SeqIs DEF CommandOK
<1>3. I \subseteq 1..Len(list)
  BY <1>2
<1> HIDE DEF list, I
<1>4. Enumerated(s, list, I)
  BY <1>1, <1>2, <1>3, SelectedIs
<1>5. PICK g : Enumerates(g, s, list, I)
  BY <1>4 DEF Enumerated
<1> QED  BY <1>2, <1>3, <1>5 DEF Enumerates

LEMMA StoreEnqueued ==
  ASSUME NEW book, NEW h, now \in Nat, StoreOK(book, h, now), NEW command, CommandOK(command), NEW serial,
         NEW b, b = Enqueued(book, command, serial)
  PROVE  StoreOK(b, h, now)
<1> DEFINE cancelled == CancelAll(book, command.cancels)
           torn == TeardownAll(cancelled, command.teardowns)
           admitted == AdmitAll(torn, Spawns(command), serial)
           cancels == command.cancels
           teardowns == command.teardowns
           spawns == Spawns(command)
           cleanups == command.cleanups
<1>1. /\ cancelled = CancelAll(book, cancels) /\ torn = TeardownAll(cancelled, teardowns)
      /\ admitted = AdmitAll(torn, spawns, serial) /\ b = ArmAll(admitted, cleanups)
  BY DEF Enqueued
<1>2. /\ IsSeq(cancels) /\ IsSeq(teardowns) /\ IsSeq(cleanups)
      /\ \A k \in 1..Len(cleanups) : CleanupOK(cleanups[k])
  BY SeqIs DEF CommandOK
<1>3. spawns = Spawns(command)
  OBVIOUS
<1> HIDE DEF cancelled, torn, admitted, cancels, teardowns, spawns, cleanups
<1>4. IsSeq(spawns) /\ \A k \in 1..Len(spawns) : LeafOK(spawns[k])
  BY <1>3, SpawnsOK
<1>5. StoreOK(cancelled, h, now)
  <2> DEFINE n == Len(cancels)
  <2>1. n \in Nat
    BY <1>2, SeqIs
  <2>2. PICK f : CancelWalk(f, book, cancels)
    BY <1>2, CancelWalkExists
  <2>3. f[0] = book /\ (\A k \in 1..n : f[k] = CancelId(f[k - 1], cancels[k])) /\ cancelled = f[n]
    BY <1>1, <2>2 DEF CancelWalk
  <2> HIDE DEF n
  <2>4. ASSUME NEW k \in 1..n, StoreOK(f[k - 1], h, now) PROVE StoreOK(f[k], h, now)
    <3> DEFINE a == f[k - 1]
               c == f[k]
               id == cancels[k]
    <3>1. StoreOK(a, h, now) /\ c = CancelId(a, id)
      BY <2>3, <2>4
    <3> HIDE DEF a, c, id
    <3>2. StoreOK(c, h, now)
      BY <3>1, StoreCancelled
    <3> QED  BY <3>2 DEF c
  <2> QED  BY <2>1, <2>3, <2>4, StoreWalk
<1>6. StoreOK(torn, h, now)
  <2> DEFINE n == Len(teardowns)
  <2>1. n \in Nat
    BY <1>2, SeqIs
  <2>2. PICK f : TeardownWalk(f, cancelled, teardowns)
    BY <1>2, TeardownWalkExists
  <2>3. /\ f[0] = cancelled /\ (\A k \in 1..n : f[k] = TeardownUnder(f[k - 1], teardowns[k]))
        /\ torn = f[n]
    BY <1>1, <2>2 DEF TeardownWalk
  <2> HIDE DEF n
  <2>4. ASSUME NEW k \in 1..n, StoreOK(f[k - 1], h, now) PROVE StoreOK(f[k], h, now)
    <3> DEFINE a == f[k - 1]
               c == f[k]
               prefix == teardowns[k]
    <3>1. StoreOK(a, h, now) /\ c = TeardownUnder(a, prefix)
      BY <2>3, <2>4
    <3> HIDE DEF a, c, prefix
    <3>2. StoreOK(c, h, now)
      BY <3>1, StoreTorn
    <3> QED  BY <3>2 DEF c
  <2> QED  BY <1>5, <2>1, <2>3, <2>4, StoreWalk
<1>7. StoreOK(admitted, h, now)
  <2> DEFINE n == Len(spawns)
  <2>1. n \in Nat
    BY <1>4, SeqIs
  <2>2. PICK f : AdmitWalk(f, torn, spawns, serial)
    BY <1>4, AdmitWalkExists
  <2>3. /\ f[0] = torn /\ (\A k \in 1..n : f[k] = Admit(f[k - 1], Stamped(spawns[k], serial)))
        /\ admitted = f[n]
    BY <1>1, <2>2 DEF AdmitWalk
  <2> HIDE DEF n
  <2>4. ASSUME NEW k \in 1..n, StoreOK(f[k - 1], h, now) PROVE StoreOK(f[k], h, now)
    <3> DEFINE a == f[k - 1]
               c == f[k]
               base == spawns[k]
               leaf == Stamped(base, serial)
    <3>1. StoreOK(a, h, now) /\ c = Admit(a, leaf) /\ LeafOK(base) /\ leaf = Stamped(base, serial)
      BY <1>4, <2>3, <2>4 DEF n
    <3> HIDE DEF a, c, base, leaf
    <3>2. SpawnOK(leaf)
      BY <3>1, StampedOK
    <3>3. StoreOK(c, h, now)
      BY <3>1, <3>2, StoreAdmitted
    <3> QED  BY <3>3 DEF c
  <2> QED  BY <1>6, <2>1, <2>3, <2>4, StoreWalk
<1>8. StoreOK(b, h, now)
  <2> DEFINE n == Len(cleanups)
  <2>1. n \in Nat
    BY <1>2, SeqIs
  <2>2. PICK f : ArmWalk(f, admitted, cleanups)
    BY <1>2, ArmWalkExists
  <2>3. f[0] = admitted /\ (\A k \in 1..n : f[k] = Arm(f[k - 1], cleanups[k])) /\ b = f[n]
    BY <1>1, <2>2 DEF ArmWalk
  <2> HIDE DEF n
  <2>4. ASSUME NEW k \in 1..n, StoreOK(f[k - 1], h, now) PROVE StoreOK(f[k], h, now)
    <3> DEFINE a == f[k - 1]
               c == f[k]
               reg == cleanups[k]
    <3>1. StoreOK(a, h, now) /\ c = Arm(a, reg) /\ CleanupOK(reg)
      BY <1>2, <2>3, <2>4 DEF n
    <3> HIDE DEF a, c, reg
    <3>2. StoreOK(c, h, now)
      BY <3>1, StoreArmed
    <3> QED  BY <3>2 DEF c
  <2> QED  BY <1>7, <2>1, <2>3, <2>4, StoreWalk
<1> QED  BY <1>8

-----------------------------------------------------------------------------
(* next_deliverable, leaf by leaf.                                         *)
LEMMA StorePruned ==
  ASSUME NEW book, NEW h, NEW t \in Nat, StoreOK(book, h, t), NEW b, b = Prune(book)
  PROVE  StoreOK(b, h, t)
<1> DEFINE list == book.pending
           I == Unexhausted(list)
<1>1. BookOK(book, h, t) /\ Slots(list)
  BY DEF StoreOK
<1>2. BookOK(b, h, t) /\ SameRest(b, book)
  BY <1>1, BookPruned
<1>3. (DOMAIN book) = BookFields /\ IsSeq(list)
  BY <1>1, BookSeqs
<1>4. b.pending = Selected(list, I) /\ I \subseteq 1..Len(list)
  BY <1>3, SeqIs DEF Prune, Unexhausted, BookFields
<1> HIDE DEF list, I
<1>5. Enumerated(b.pending, list, I)
  BY <1>3, <1>4, SelectedIs
<1>6. PICK g : Enumerates(g, b.pending, list, I)
  BY <1>5 DEF Enumerated
<1>7. Slots(b.pending)
  BY <1>1, <1>4, <1>6, SlotsSome
<1>8. HooksOK(b, t)
  BY <1>2, HooksSame DEF StoreOK, SameRest
<1> QED  BY <1>2, <1>7, <1>8 DEF StoreOK, SameRest

Hearing(h, w) == Append(h, [position |-> w.at, answer |-> w.out])

DeliverableTo(h, w, k) ==
  /\ (DOMAIN w) = {"book", "out", "at"} /\ Walking(Book, w.book, k)
  /\ IsAction(w.out) => BookOK(w.book, Hearing(h, w), now)
  /\ ~ IsAction(w.out) => BookOK(w.book, h, now)

LEMMA DeliverableStep ==
  ASSUME NEW h, now \in Nat, NEW k \in 1..Len(Book.pending), Len(Book.pending) \in Nat, NEW l, l = k - 1,
         NEW w, DeliverableTo(h, w, l),
         NEW v, v = (IF IsAction(w.out) THEN w
                     ELSE IF IsBuffered(w.book.pending[k]) THEN Taken(w.book, k)
                     ELSE Asked(PollOnce(w.book, k), Book.pending[k].position))
  PROVE  DeliverableTo(h, v, k)
<1> DEFINE b == w.book
           book == Book
           list == book.pending
<1>1. /\ Walking(book, b, l) /\ k \in Nat \ {0} /\ Len(b.pending) = Len(list)
      /\ SameRest(b, book) /\ SameLeaf(b.pending[k], list[k]) /\ Len(list) \in Nat
      /\ k \in 1..Len(list)
  BY DEF DeliverableTo, Walking, Steps
<1> HIDE DEF book
<1>2. Walking(book, b, k)
  BY <1>1, WalkingRests
<1>3. CASE IsAction(w.out)
  <2>1. v = w
    BY <1>3
  <2>2. (DOMAIN w) = {"book", "out", "at"} /\ (IsAction(w.out) => BookOK(b, Hearing(h, w), now))
    BY DEF DeliverableTo
  <2>3. BookOK(b, Hearing(h, w), now)
    BY <1>3, <2>2
  <2> HIDE DEF b
  <2>4. DeliverableTo(h, w, k)
    <3>1. b = w.book
      BY DEF b
    <3> QED  BY <1>2, <1>3, <2>2, <2>3, <3>1 DEF DeliverableTo, book
  <2> QED  BY ONLY <2>1, <2>4
<1>4. CASE ~ IsAction(w.out) /\ IsBuffered(b.pending[k])
  <2>0. BookOK(b, h, now)
    BY <1>4 DEF DeliverableTo
  <2>1. v = Taken(b, k) /\ BookOK(b, h, now) /\ k \in 1..Len(b.pending) /\ IsBuffered(b.pending[k])
    <3>1. v = Taken(b, k)
      BY <1>4
    <3>2. k \in 1..Len(b.pending)
      BY <1>1
    <3> QED  BY <1>4, <2>0, <3>1, <3>2
  <2> HIDE DEF b
  <2>2. /\ BookOK(v.book, Append(h, Delivery(b.pending[k], v.out)), now)
        /\ SameRest(v.book, b)
        /\ Replaced(b.pending, k, v.book.pending[k], v.book.pending)
        /\ SameLeaf(v.book.pending[k], b.pending[k]) /\ v.at = b.pending[k].position
    BY <2>1, BookTaken
  <2>3. Hearing(h, v) = Append(h, Delivery(b.pending[k], v.out))
    BY <2>2 DEF Hearing, Delivery
  <2>4. IsAction(v.out)
    BY <2>1, BookTaken
  <2>5. Steps(b.pending, v.book.pending)
    <3>1. ~ Spent(b.pending[k])
      BY <2>1 DEF Spent
    <3> QED  BY <2>1, <2>2, <3>1, StepsReplaced
  <2>6. \A j \in 1..Len(b.pending) : j # k => v.book.pending[j] = b.pending[j]
    BY <2>2 DEF Replaced
  <2>7. Walking(book, v.book, k)
    BY <1>1, <2>2, <2>5, <2>6, WalkingOn
  <2>8. (DOMAIN v) = {"book", "out", "at"}
    BY <2>1 DEF Taken
  <2> QED  BY <2>2, <2>3, <2>4, <2>7, <2>8 DEF DeliverableTo, book
<1>5. CASE ~ IsAction(w.out) /\ ~ IsBuffered(b.pending[k])
  <2> DEFINE p == PollOnce(b, k)
             m == p.book.pending[k]
  <2>1. /\ v = Asked(p, list[k].position) /\ BookOK(b, h, now) /\ k \in 1..Len(b.pending)
        /\ ~ IsBuffered(b.pending[k]) /\ p = PollOnce(b, k)
    BY <1>1, <1>5 DEF DeliverableTo, book
  <2> HIDE DEF b, p
  <2>2. Polling(b, h, now, k, p, m)
    BY <2>1, BookPolled
  <2>3. /\ Steps(b.pending, p.book.pending) /\ SameRest(p.book, b)
        /\ \A j \in 1..Len(b.pending) : j # k => p.book.pending[j] = b.pending[j]
    BY <2>1, StepsPolled
  <2>4. v.book = p.book /\ v.out = p.out /\ v.at = list[k].position /\ (DOMAIN v) = {"book", "out", "at"}
    BY <2>1 DEF Asked
  <2>5. Walking(book, v.book, k)
    BY <1>1, <2>3, <2>4, WalkingOn
  <2>6. m.position = list[k].position
    BY <1>1, <2>2 DEF Polling, SameLeaf
  <2>7. Hearing(h, v) = Append(h, Delivery(m, p.out))
    BY <2>4, <2>6 DEF Hearing, Delivery
  <2> QED  BY <2>2, <2>4, <2>5, <2>7 DEF DeliverableTo, Polling, book
<1> QED  BY <1>3, <1>4, <1>5

LEMMA StoreDeliverable ==
  ASSUME NEW h, now \in Nat, StoreOK(Book, h, now), NEW d, d = NextDeliverable, IsAction(d.out)
  PROVE  StoreOK(d.book, Hearing(h, d), now)
<1> DEFINE book == Book
           list == book.pending
           n == Len(list)
<1>1. BookOK(book, h, now) /\ Slots(list)
  BY DEF StoreOK
<1>2. list = pending
  BY DEF Book
<1> HIDE DEF book
<1>3. (DOMAIN book) = BookFields /\ IsSeq(list) /\ n \in Nat
  BY <1>1, BookSeqs
<1>4. PICK f : DeliverableWalk(f)
  BY <1>2, <1>3, DeliverableWalkExists
<1>5. /\ f[0] = [book |-> book, out |-> Pending, at |-> 0]
      /\ \A k \in 1..n : f[k] = (IF IsAction(f[k - 1].out) THEN f[k - 1]
                                 ELSE IF IsBuffered(f[k - 1].book.pending[k]) THEN Taken(f[k - 1].book, k)
                                 ELSE Asked(PollOnce(f[k - 1].book, k), list[k].position))
      /\ d = [f[n] EXCEPT !.book = Prune(@)]
  BY <1>2, <1>4 DEF DeliverableWalk, book
<1> DEFINE A == {k \in 0..n : ~ DeliverableTo(h, f[k], k)}
<1>6. ASSUME NEW k \in A PROVE \E j \in A : j < k
  <2>1. CASE k = 0
    <3>1. Walking(book, book, 0)
      BY <1>3, WalkingStarts
    <3>2. ~ IsAction(Pending)
      BY AnswersDiffer DEF IsAction
    <3>3. DeliverableTo(h, f[0], 0)
      BY <1>1, <1>5, <3>1, <3>2 DEF DeliverableTo, book
    <3> QED  BY <2>1, <3>3
  <2>2. CASE k # 0
    <3> DEFINE l == k - 1
               w == f[l]
               v == f[k]
    <3>1. k \in 1..n /\ l \in 0..n /\ l < k /\ l = k - 1
      BY <1>3, <2>2
    <3>2. SUFFICES ASSUME l \notin A PROVE FALSE
      BY <3>1
    <3>3. /\ DeliverableTo(h, w, l)
          /\ v = (IF IsAction(w.out) THEN w
                  ELSE IF IsBuffered(w.book.pending[k]) THEN Taken(w.book, k)
                  ELSE Asked(PollOnce(w.book, k), list[k].position))
      BY <1>5, <3>1, <3>2
    <3> HIDE DEF l, w, v
    <3>4. DeliverableTo(h, v, k)
      BY <1>3, <3>1, <3>3, DeliverableStep DEF book
    <3> QED  BY <3>4 DEF v
  <2> QED  BY <2>1, <2>2
<1>7. A = {}
  <2>1. A \subseteq Nat
    BY <1>3
  <2> HIDE DEF A
  <2> QED  BY <1>6, <2>1, NoFirst
<1> DEFINE w == f[n]
           c == w.book
           g == Hearing(h, w)
<1>8. DeliverableTo(h, w, n) /\ d = [w EXCEPT !.book = Prune(c)]
  BY <1>3, <1>5, <1>7
<1> HIDE DEF w
<1>9. d.book = Prune(c) /\ d.out = w.out /\ d.at = w.at
  BY <1>8 DEF DeliverableTo
<1>10. Hearing(h, d) = g
  BY <1>9 DEF Hearing
<1>11. BookOK(c, g, now) /\ SameRest(c, book) /\ Steps(list, c.pending)
  BY <1>8, <1>9 DEF DeliverableTo, Walking, book
<1> HIDE DEF c, g
<1>12. StoreOK(c, g, now)
  <2>1. Slots(c.pending)
    BY <1>1, <1>11, SlotsStep
  <2>2. StoreOK(book, h, now)
    BY DEF book
  <2>3. HooksOK(c, now)
    BY <1>11, <2>2, HooksSame DEF StoreOK, SameRest
  <2> QED  BY <1>11, <2>1, <2>2, <2>3 DEF StoreOK, SameRest
<1>13. StoreOK(d.book, g, now)
  <2> DEFINE b == d.book
  <2>1. b = Prune(c)
    BY <1>9
  <2> HIDE DEF b
  <2>2. StoreOK(b, g, now)
    BY <1>12, <2>1, StorePruned
  <2> QED  BY <2>2 DEF b
<1> QED  BY <1>10, <1>13

-----------------------------------------------------------------------------
(* check_exhaustive, leaf by leaf.                                         *)
ExhaustedTo(h, w, k) ==
  /\ (DOMAIN w) = {"book", "ok"}
  /\ w.ok => /\ BookOK(w.book, h, now) /\ Walking(Book, w.book, k)
             /\ \A j \in 1..Len(Book.pending) : j <= k => Spent(w.book.pending[j])

LEMMA ExhaustedStep ==
  ASSUME NEW h, now \in Nat, NEW k \in 1..Len(Book.pending), Len(Book.pending) \in Nat, NEW l, l = k - 1,
         NEW w, ExhaustedTo(h, w, l),
         NEW v, v = (IF ~ w.ok \/ IsBuffered(w.book.pending[k]) THEN [w EXCEPT !.ok = FALSE]
                     ELSE Passing(PollOnce(w.book, k)))
  PROVE  ExhaustedTo(h, v, k)
<1> DEFINE book == Book
           list == book.pending
           b == w.book
<1>1. k \in 1..Len(list) /\ Len(list) \in Nat
  BY DEF book
<1> HIDE DEF book
<1>2. CASE ~ w.ok \/ IsBuffered(b.pending[k])
  <2> DEFINE no == FALSE
  <2>1. v = [w EXCEPT !.ok = no] /\ (DOMAIN w) = {"book", "ok"}
    BY <1>2 DEF ExhaustedTo
  <2> HIDE DEF no
  <2>2. v.ok = no /\ (DOMAIN v) = {"book", "ok"}
    BY ONLY <2>1
  <2>3. ~ v.ok
    BY ONLY <2>2 DEF no
  <2> QED  BY <2>2, <2>3 DEF ExhaustedTo
<1>3. CASE w.ok /\ ~ IsBuffered(b.pending[k])
  <2> DEFINE p == PollOnce(b, k)
             m == p.book.pending[k]
  <2>1. v = Passing(p) /\ p = PollOnce(b, k)
    BY <1>3
  <2>2. /\ BookOK(b, h, now) /\ Walking(book, b, l) /\ ~ IsBuffered(b.pending[k])
        /\ \A j \in 1..Len(list) : j <= l => Spent(b.pending[j])
    BY <1>3 DEF ExhaustedTo, book
  <2>3. Len(b.pending) = Len(list) /\ SameRest(b, book) /\ Steps(list, b.pending)
    BY <2>2 DEF Walking, Steps
  <2> HIDE DEF b, p
  <2>4. k \in 1..Len(b.pending)
    BY <1>1, <2>3
  <2>5. Polling(b, h, now, k, p, m)
    BY <2>1, <2>2, <2>4, BookPolled
  <2>6. /\ Steps(b.pending, p.book.pending) /\ SameRest(p.book, b)
        /\ \A j \in 1..Len(b.pending) : j # k => p.book.pending[j] = b.pending[j]
    BY <2>1, <2>2, <2>4, StepsPolled
  <2>7. v.book = p.book /\ (v.ok => p.out = End) /\ (DOMAIN v) = {"book", "ok"}
    <3> DEFINE over == p.out = End
    <3>1. v = [book |-> p.book, ok |-> over]
      BY <2>1 DEF Passing
    <3> HIDE DEF over
    <3>2. v.ok = over /\ v.book = p.book /\ (DOMAIN v) = {"book", "ok"}
      BY ONLY <3>1
    <3> QED  BY ONLY <3>2 DEF over
  <2>8. Walking(book, p.book, k)
    <3>1. k \in Nat \ {0} /\ l = k - 1
      BY <1>1
    <3> QED  BY <1>1, <2>2, <2>6, <3>1, WalkingOn
  <2>9. ASSUME v.ok
        PROVE  BookOK(v.book, h, now) /\ \A j \in 1..Len(list) : j <= k => Spent(v.book.pending[j])
    <3>1. p.out = End /\ ~ IsAction(p.out)
      BY <2>7, <2>9, AnswersDiffer DEF IsAction
    <3>2. BookOK(p.book, h, now) /\ Spent(m)
      BY <2>5, <3>1 DEF Polling, Spent
    <3>3. ASSUME NEW j \in 1..Len(list), j <= k PROVE Spent(p.book.pending[j])
      <4>1. CASE j = k
        BY <3>2, <4>1
      <4>2. CASE j # k
        <5>1. j <= l
          BY <1>1, <3>3, <4>2
        <5> QED  BY <2>2, <2>3, <2>6, <4>2, <5>1
      <4> QED  BY <4>1, <4>2
    <3> QED  BY <2>7, <3>2, <3>3
  <2> QED  BY <2>7, <2>8, <2>9 DEF ExhaustedTo, book
<1> QED  BY <1>2, <1>3 DEF b

(* A pass of the check leaves no output behind.                            *)
LEMMA StoreExhausted ==
  ASSUME NEW h, now \in Nat, StoreOK(Book, h, now), Exhausted(Book).ok, NEW p \in 1..Len(leaves)
  PROVE  p - 1 \in revoked \/ Finished(leaves[p], HeardFrom(h, p - 1), now)
<1> DEFINE book == Book
           list == book.pending
           n == Len(list)
<1>1. BookOK(book, h, now) /\ Exhausted(book).ok
  BY DEF StoreOK
<1>2. book.leaves = leaves /\ book.revoked = revoked
  BY DEF Book
<1> HIDE DEF book
<1>3. (DOMAIN book) = BookFields /\ IsSeq(list) /\ n \in Nat
  BY <1>1, BookSeqs
<1>4. PICK f : ExhaustedWalk(f, book)
  BY <1>3, ExhaustedWalkExists
<1>5. /\ f[0] = [book |-> book, ok |-> TRUE]
      /\ \A k \in 1..n : f[k] = (IF ~ f[k - 1].ok \/ IsBuffered(f[k - 1].book.pending[k])
                                 THEN [f[k - 1] EXCEPT !.ok = FALSE]
                                 ELSE Passing(PollOnce(f[k - 1].book, k)))
      /\ Exhausted(book) = f[n]
  BY <1>4 DEF ExhaustedWalk
<1> DEFINE A == {k \in 0..n : ~ ExhaustedTo(h, f[k], k)}
<1>6. ASSUME NEW k \in A PROVE \E j \in A : j < k
  <2>1. CASE k = 0
    <3> DEFINE yes == TRUE
    <3>1. Walking(book, book, 0)
      BY <1>3, WalkingStarts
    <3>2. f[0] = [book |-> book, ok |-> yes]
      BY <1>5
    <3> HIDE DEF yes
    <3>3. f[0].book = book /\ (DOMAIN f[0]) = {"book", "ok"}
      BY ONLY <3>2
    <3>4. \A j \in 1..n : ~ (j <= 0)
      BY <1>3
    <3>5. ExhaustedTo(h, f[0], 0)
      BY <1>1, <3>1, <3>3, <3>4 DEF ExhaustedTo, book
    <3> QED  BY <2>1, <3>5
  <2>2. CASE k # 0
    <3> DEFINE l == k - 1
               w == f[l]
               v == f[k]
    <3>1. k \in 1..n /\ l \in 0..n /\ l < k /\ l = k - 1
      BY <1>3, <2>2
    <3>2. SUFFICES ASSUME l \notin A PROVE FALSE
      BY <3>1
    <3>3. /\ ExhaustedTo(h, w, l)
          /\ v = (IF ~ w.ok \/ IsBuffered(w.book.pending[k]) THEN [w EXCEPT !.ok = FALSE]
                  ELSE Passing(PollOnce(w.book, k)))
      BY <1>5, <3>1, <3>2
    <3> HIDE DEF l, w, v
    <3>4. ExhaustedTo(h, v, k)
      BY <1>3, <3>1, <3>3, ExhaustedStep DEF book
    <3> QED  BY <3>4 DEF v
  <2> QED  BY <2>1, <2>2
<1>7. A = {}
  <2>1. A \subseteq Nat
    BY <1>3
  <2> HIDE DEF A
  <2> QED  BY <1>6, <2>1, NoFirst
<1> DEFINE c == f[n].book
<1>8. /\ BookOK(c, h, now) /\ SameRest(c, book)
      /\ \A j \in 1..n : Spent(c.pending[j])
      /\ Len(c.pending) = n
  <2>1. ExhaustedTo(h, f[n], n) /\ f[n].ok
    BY <1>1, <1>3, <1>5, <1>7
  <2>2. \A j \in 1..n : j <= n
    BY <1>3
  <2> QED  BY <2>1, <2>2 DEF ExhaustedTo, Walking, Steps, book
<1> HIDE DEF c
<1>9. c.leaves = leaves /\ c.revoked = revoked
  BY <1>2, <1>8 DEF SameRest
<1> DEFINE q == p - 1
<1>10. CASE q \in PositionsOf(c.pending)
  <2>1. PICK i \in 1..n : c.pending[i].position = q
    <3>1. IsSeq(c.pending)
      BY <1>8, BookSeqs
    <3> HIDE DEF q
    <3> QED  BY <1>8, <1>10, <3>1, PositionIn
  <2> DEFINE leaf == c.pending[i]
             rec == c.leaves[leaf.position + 1]
             heard == HeardFrom(h, leaf.position)
  <2>2. leaf = c.pending[i] /\ rec = c.leaves[leaf.position + 1] /\ i \in 1..Len(c.pending)
    BY <1>8
  <2>3. Spent(leaf)
    BY <1>8
  <2>4. rec = leaves[p] /\ leaf.position = p - 1
    <3>1. p \in Int /\ q + 1 = p
      <4>1. IsSeq(book.leaves)
        BY <1>1, BookSeqs
      <4> QED  BY <1>2, <4>1, SeqIs
    <3> QED  BY <1>9, <2>1, <3>1
  <2> HIDE DEF leaf, rec
  <2>5. EntryOK(c, h, now, i, leaf, rec, heard)
    BY <1>8, <2>2, EntryIs
  <2>6. Finished(rec, heard, now)
    BY <2>3, <2>5, EndedFinished DEF EntryOK, Spent
  <2> QED  BY <2>4, <2>6
<1>11. CASE q \notin PositionsOf(c.pending)
  <2>1. q \in revoked \/ Gone(c.pending, c.revoked, q)
    BY <1>9, <1>11 DEF Gone
  <2>2. GoneOK(c.pending, c.revoked, c.leaves, h, now)
    BY <1>8 DEF BookOK
  <2> QED  BY <1>9, <2>1, <2>2 DEF GoneOK
<1> QED  BY <1>10, <1>11

-----------------------------------------------------------------------------
(* The clock moves: every pending leaf has been anchored.                  *)
LEMMA StoreAdvanced ==
  ASSUME NEW book, NEW h, now \in Nat, StoreOK(book, h, now), NEW b, b = Prune(Anchored(book)),
         NEW u \in Nat, now <= u
  PROVE  StoreOK(b, h, u)
<1> DEFINE a == Anchored(book)
           list == a.pending
           I == Unexhausted(list)
<1>1. BookOK(book, h, now) /\ Slots(book.pending) /\ a = Anchored(book) /\ b = Prune(a)
  BY DEF StoreOK
<1> HIDE DEF a
<1>2. /\ BookOK(a, h, now) /\ Steps(book.pending, list)
      /\ \A i \in 1..Len(list) : Running(list[i].layers)
      /\ a.armed = book.armed /\ a.running = Unfinished(book.running)
      /\ a.hooks = book.hooks /\ a.started = book.started /\ a.refusals = book.refusals
  BY <1>1, BookAnchored
<1>3. StoreOK(a, h, now)
  <2>1. Slots(list)
    BY <1>1, <1>2, SlotsStep
  <2>2. HooksOK(a, now)
    BY <1>2, HooksPolled DEF StoreOK
  <2> QED  BY <1>2, <2>1, <2>2 DEF StoreOK
<1>4. StoreOK(b, h, now)
  BY <1>1, <1>3, StorePruned
<1>5. (DOMAIN a) = BookFields /\ IsSeq(list)
  BY <1>2, BookSeqs
<1>6. b.pending = Selected(list, I) /\ I \subseteq 1..Len(list)
  BY <1>1, <1>5, SeqIs DEF Prune, Unexhausted, BookFields
<1> HIDE DEF list, I
<1>7. \A i \in 1..Len(b.pending) : Running(b.pending[i].layers)
  <2>1. Enumerated(b.pending, list, I)
    BY <1>5, <1>6, SelectedIs
  <2>2. PICK g : Enumerates(g, b.pending, list, I)
    BY <2>1 DEF Enumerated
  <2>3. \A i \in 1..Len(b.pending) : g[i] \in I /\ b.pending[i] = list[g[i]]
    BY <2>2 DEF Enumerates
  <2> QED  BY <1>2, <1>6, <2>3 DEF list
<1>8. BookOK(b, h, u)
  <2>1. BookOK(b, h, now)
    BY <1>4 DEF StoreOK
  <2> QED  BY <1>7, <2>1, BookLater
<1>9. HooksOK(b, u)
  BY <1>4, HooksLater DEF StoreOK
<1> QED  BY <1>4, <1>8, <1>9 DEF StoreOK

LEMMA StoreEmpty ==
  ASSUME NEW b, b = EmptyBook
  PROVE  StoreOK(b, <<>>, 0)
<1>1. /\ (DOMAIN b) = BookFields
      /\ b.pending = <<>> /\ b.armed = <<>> /\ b.running = <<>> /\ b.spent = {}
      /\ b.leaves = <<>> /\ b.hooks = <<>> /\ b.fired = <<>> /\ b.started = <<>> /\ b.refusals = <<>>
  BY DEF EmptyBook, BookFields
<1>2. IsSeq(<<>>) /\ Len(<<>>) = 0 /\ (DOMAIN <<>>) = {}
  BY SeqEmpty
<1>3. \A i \in 1..Len(<<>>) : FALSE
  BY <1>2
<1>4. BookOK(b, <<>>, 0)
  <2>1. Records(<<>>, 0)
    BY <1>2, <1>3 DEF Records
  <2>2. InOrder(<<>>, Len(<<>>))
    BY <1>2, <1>3 DEF InOrder
  <2>3. FiredOK(<<>>, {})
    BY <1>2 DEF FiredOK, Injective
  <2>4. HeardOK(<<>>, Len(<<>>))
    <3>1. \A p \in Nat : HeardFrom(<<>>, p) = <<>>
      BY HeardNothing
    <3>2. OneTimeout(<<>>)
      BY <1>2 DEF OneTimeout
    <3> QED  BY <1>2, <3>1, <3>2 DEF HeardOK
  <2>5. /\ LeavesOK(<<>>, <<>>, <<>>, 0) /\ GoneOK(<<>>, b.revoked, <<>>, <<>>, 0)
        /\ HonestOK(<<>>, <<>>)
    BY <1>3 DEF LeavesOK, GoneOK, HonestOK
  <2> QED  BY <1>1, <2>1, <2>2, <2>3, <2>4, <2>5 DEF BookOK
<1>5. Slots(<<>>) /\ RefusalsOK(<<>>)
  BY <1>2, <1>3 DEF Slots, RefusalsOK
<1>6. HooksOK(b, 0)
  BY <1>1, HooksNone
<1> QED  BY <1>1, <1>4, <1>5, <1>6 DEF StoreOK

LEMMA StoreSame ==
  ASSUME NEW book, NEW h, NEW t, StoreOK(book, h, t), NEW b, (DOMAIN b) = BookFields,
         b.pending = book.pending, b.armed = book.armed, b.running = book.running,
         b.spent = book.spent, b.leaves = book.leaves, b.hooks = book.hooks, b.fired = book.fired,
         b.revoked = book.revoked, b.started = book.started, b.refusals = book.refusals
  PROVE  StoreOK(b, h, t)
<1>1. BookOK(b, h, t)
  BY BookSame DEF StoreOK
<1>2. HooksOK(b, t)
  BY HooksSame DEF StoreOK
<1> QED  BY <1>1, <1>2 DEF StoreOK

(* A book that holds is one that an operation may leave behind.            *)
LEMMA StoreCommitted ==
  ASSUME NEW book, NEW h, NEW t, StoreOK(book, h, t), Commit(book)
  PROVE  StoreOK(Book', h, t)
<1> DEFINE b == Book'
<1>1. /\ (DOMAIN b) = BookFields
      /\ b.pending = pending' /\ b.armed = armed' /\ b.running = running' /\ b.spent = spent'
      /\ b.leaves = leaves' /\ b.hooks = hooks' /\ b.fired = fired' /\ b.revoked = revoked'
      /\ b.started = started' /\ b.refusals = refusals'
  BY DEF Book, BookFields
<1> HIDE DEF b
<1>2. StoreOK(b, h, t)
  BY <1>1, StoreSame DEF Commit
<1> QED  BY <1>2 DEF b

LEMMA StoreKept ==
  ASSUME NEW h, NEW t, StoreOK(Book, h, t),
         UNCHANGED <<pending, armed, running, spent, leaves, hooks, fired, revoked, started, refusals>>
  PROVE  StoreOK(Book', h, t)
<1>1. Book' = Book
  BY DEF Book
<1> QED  BY <1>1

LEMMA StoreBegun ==
  ASSUME NEW book, NEW h, NEW t, StoreOK(book, h, t), Begin(book)
  PROVE  StoreOK(Book, h, t)
<1> DEFINE b == Book
<1>1. /\ (DOMAIN b) = BookFields
      /\ b.pending = pending /\ b.armed = armed /\ b.running = running /\ b.spent = spent
      /\ b.leaves = leaves /\ b.hooks = hooks /\ b.fired = fired /\ b.revoked = revoked
      /\ b.started = started /\ b.refusals = refusals
  BY DEF Book, BookFields
<1> HIDE DEF b
<1>2. StoreOK(b, h, t)
  BY <1>1, StoreSame DEF Begin
<1> QED  BY <1>2 DEF b

-----------------------------------------------------------------------------
(* The inductive invariant.  While the test runs no quit has been          *)
(* received; a test that passed is one that the check would pass.          *)
QuitUnheard == quit = "Running" => \A k \in DOMAIN received : received[k].answer # Quit

StoreInvariant ==
  /\ now \in Nat /\ program \in Programs
  /\ StoreOK(Book, received, now)
  /\ QuitUnheard
  /\ verdict = "Passed" => CheckPasses

LEMMA StoreStarts == Init => StoreInvariant
<1> SUFFICES ASSUME Init PROVE StoreInvariant
  OBVIOUS
<1> DEFINE first == EmptyBook
           b == Enqueued(first, program.init, 0)
<1>1. now = 0 /\ now \in Nat /\ program \in Programs /\ received = <<>> /\ verdict = "Open" /\ Begin(b)
  BY DEF Init
<1>2. CommandOK(program.init)
  BY <1>1, ProgramAssumption
<1>3. StoreOK(first, <<>>, now)
  BY <1>1, StoreEmpty
<1>4. b = Enqueued(first, program.init, 0)
  OBVIOUS
<1> HIDE DEF first, b
<1>5. StoreOK(b, <<>>, now)
  BY <1>1, <1>2, <1>3, <1>4, StoreEnqueued
<1>6. StoreOK(Book, received, now)
  BY <1>1, <1>5, StoreBegun
<1>7. QuitUnheard
  BY <1>1, SeqEmpty DEF QuitUnheard
<1> QED  BY <1>1, <1>6, <1>7 DEF StoreInvariant

LEMMA StoreEnqueuing ==
  ASSUME NEW book, NEW h, now \in Nat, StoreOK(book, h, now), NEW command, CommandOK(command),
         ApplyUpdate(book, command)
  PROVE  StoreOK(Book', h, now)
<1> DEFINE serial == updates + 1
           b == Enqueued(book, command, serial)
<1>1. b = Enqueued(book, command, serial) /\ Commit(b)
  BY DEF ApplyUpdate
<1> HIDE DEF serial, b
<1>2. StoreOK(b, h, now)
  BY <1>1, StoreEnqueued
<1> QED  BY <1>1, <1>2, StoreCommitted

LEMMA HeardMore ==
  ASSUME NEW d, d = NextDeliverable, IsAction(d.out), now \in Nat, StoreOK(Book, received, now), Delivered(d)
  PROVE  /\ StoreOK(d.book, received', now)
         /\ \A k \in DOMAIN received' : received'[k].answer = d.out
                                        \/ (k \in DOMAIN received /\ received'[k] = received[k])
<1>1. received' = Hearing(received, d)
  BY DEF Delivered, Hearing
<1>2. StoreOK(d.book, received', now)
  BY <1>1, StoreDeliverable
<1> DEFINE e == [position |-> d.at, answer |-> d.out]
<1>3. IsSeq(received) /\ received' = Append(received, e) /\ e.answer = d.out
  BY <1>1 DEF StoreOK, BookOK, HeardOK, Hearing
<1> HIDE DEF e
<1>4. Appended(received, received', e)
  BY <1>3, AppendedIs
<1>5. \A k \in 1..Len(received') : received'[k].answer = d.out
                                   \/ (k \in 1..Len(received) /\ received'[k] = received[k])
  BY <1>3, <1>4 DEF Appended
<1>6. (DOMAIN received') = 1..Len(received') /\ (DOMAIN received) = 1..Len(received)
  BY <1>3, <1>4, SeqIs DEF Appended
<1> QED  BY <1>2, <1>5, <1>6

LEMMA StoreSteps == StoreInvariant /\ [Next]_vars => StoreInvariant'
<1> SUFFICES ASSUME StoreInvariant, [Next]_vars PROVE StoreInvariant'
  OBVIOUS
<1> USE DEF StoreInvariant
<1>1. ASSUME NEW command \in program.updates, Send(command) PROVE StoreInvariant'
  <2>1. CommandOK(command)
    BY ProgramAssumption
  <2>2. /\ ApplyUpdate(Book, command) /\ verdict = "Open" /\ quit = "Running"
        /\ now' = now /\ verdict' = verdict /\ received' = received /\ program' = program
    BY <1>1 DEF Send, Live
  <2>3. StoreOK(Book', received, now)
    <3> DEFINE b == Book
    <3>1. StoreOK(b, received, now) /\ ApplyUpdate(b, command) /\ now \in Nat
      BY <2>2
    <3> HIDE DEF b
    <3> QED  BY ONLY <2>1, <3>1, StoreEnqueuing
  <2>4. QuitUnheard'
    BY <2>2 DEF QuitUnheard
  <2> QED  BY <2>2, <2>3, <2>4
<1>2. ASSUME NEW command \in program.updates, Receive(command) PROVE StoreInvariant'
  <2> DEFINE d == NextDeliverable
             b == d.book
  <2>1. CommandOK(command)
    BY ProgramAssumption
  <2>2. /\ d = NextDeliverable /\ d.out.kind = "Message" /\ ApplyUpdate(b, command) /\ Delivered(d)
        /\ verdict = "Open" /\ quit = "Running" /\ now \in Nat
        /\ now' = now /\ verdict' = verdict /\ program' = program
    BY <1>2 DEF Receive, ReceiveNext, Live
  <2> HIDE DEF d
  <2>3. IsAction(d.out) /\ d.out # Quit
    BY <2>2, AnswersDiffer DEF IsAction
  <2>4. /\ StoreOK(b, received', now)
        /\ \A k \in DOMAIN received' : received'[k].answer = d.out
                                       \/ (k \in DOMAIN received /\ received'[k] = received[k])
    BY <2>2, <2>3, HeardMore
  <2>5. StoreOK(Book', received', now)
    <3> DEFINE h == received'
    <3>1. StoreOK(b, h, now)
      BY <2>4
    <3> HIDE DEF b, h
    <3>2. StoreOK(Book', h, now)
      BY ONLY <2>1, <2>2, <3>1, StoreEnqueuing
    <3> QED  BY <3>2 DEF h
  <2>6. QuitUnheard'
    BY <2>2, <2>3, <2>4 DEF QuitUnheard
  <2> QED  BY <2>2, <2>5, <2>6
<1>3. ASSUME NEW d \in Durations, Advance(d) PROVE StoreInvariant'
  <2> DEFINE b == Prune(Anchored(Book))
             u == now + d
  <2>1. /\ Commit(b) /\ b = Prune(Anchored(Book)) /\ verdict = "Open" /\ now \in Nat
        /\ now' = u /\ verdict' = verdict /\ received' = received /\ program' = program /\ quit' = quit
    BY <1>3 DEF Advance, Live
  <2>2. u \in Nat /\ now <= u
    BY StoreAssumption
  <2> HIDE DEF b, u
  <2>3. StoreOK(b, received, u)
    BY <2>1, <2>2, StoreAdvanced
  <2>4. StoreOK(Book', received, u)
    BY <2>1, <2>3, StoreCommitted
  <2>5. QuitUnheard'
    BY <2>1 DEF QuitUnheard
  <2> QED  BY <2>1, <2>2, <2>4, <2>5
<1>4. CASE ReceiveQuit
  <2> DEFINE d == NextDeliverable
             b == d.book
  <2>1. /\ d = NextDeliverable /\ d.out = Quit /\ Commit(b) /\ Delivered(d) /\ quit' = "QuitObserved"
        /\ verdict = "Open" /\ now \in Nat /\ now' = now /\ verdict' = verdict /\ program' = program
    BY <1>4 DEF ReceiveQuit, ObserveQuit, Live
  <2> HIDE DEF d
  <2>2. IsAction(d.out)
    BY <2>1, AnswersDiffer DEF IsAction
  <2>3. StoreOK(b, received', now)
    BY <2>1, <2>2, HeardMore
  <2>4. StoreOK(Book', received', now)
    <3> DEFINE h == received'
    <3>1. StoreOK(b, h, now)
      BY <2>3
    <3> HIDE DEF b, h
    <3>2. StoreOK(Book', h, now)
      BY ONLY <2>1, <3>1, StoreCommitted
    <3> QED  BY <3>2 DEF h
  <2> QED  BY <2>1, <2>4 DEF QuitUnheard
<1>5. ASSUME \/ ObserveAppliedQuit \/ StepAfterQuit \/ ReceiveMismatch \/ FinishTest \/ UNCHANGED vars
      PROVE  StoreInvariant'
  <2>1. /\ UNCHANGED <<pending, armed, running, spent, leaves, hooks, fired, revoked, started, refusals>>
        /\ now' = now /\ received' = received /\ program' = program
        /\ quit' = quit \/ quit' = "QuitObserved"
    BY <1>5 DEF ObserveAppliedQuit, StepAfterQuit, ReceiveMismatch, FinishTest, Fail, vars
  <2>2. StoreOK(Book', received, now)
    BY <2>1, StoreKept
  <2>3. QuitUnheard'
    BY <2>1 DEF QuitUnheard
  <2>4. Book' = Book
    BY <2>1 DEF Book
  <2>5. ASSUME quit' = quit PROVE CheckPasses' <=> CheckPasses
    <3>1. Unfinished(running)' = Unfinished(running)
      BY <2>1 DEF Unfinished, PollCleanup
    <3>2. Exhausted(Book)' = Exhausted(Book)
      BY <2>1, <2>4 DEF Exhausted, PollOnce
    <3> QED  BY <2>1, <2>5, <3>1, <3>2 DEF CheckPasses
  <2>6. verdict' = "Passed" => CheckPasses'
    <3>1. CASE ObserveAppliedQuit
      BY <3>1 DEF ObserveAppliedQuit
    <3>2. CASE StepAfterQuit \/ ReceiveMismatch
      BY <3>2 DEF StepAfterQuit, ReceiveMismatch, Fail
    <3>3. CASE FinishTest
      <4>1. quit' = quit /\ (verdict' = "Passed" => CheckPasses)
        BY <3>3 DEF FinishTest
      <4> QED  BY <2>5, <4>1
    <3>4. CASE UNCHANGED vars
      <4>1. quit' = quit /\ verdict' = verdict
        BY <3>4 DEF vars
      <4> QED  BY <2>5, <4>1
    <3> QED  BY <1>5, <3>1, <3>2, <3>3, <3>4
  <2> QED  BY <2>1, <2>2, <2>3, <2>6
<1> QED  BY <1>1, <1>2, <1>3, <1>4, <1>5 DEF Next

(* The store's books keep together, whatever commands the application      *)
(* returns and in whatever order the test calls the store's operations     *)
(* (src/testing.rs).                                                       *)
THEOREM StoreInvariance == Spec => []StoreInvariant
<1> QED  BY StoreStarts, StoreSteps, PTL DEF Spec

-----------------------------------------------------------------------------
(* The properties.                                                         *)

(* A pending leaf, and what the history has of it.                         *)
PendingOK(leaf, i, rec, heard) ==
  /\ i \in 1..Len(pending) /\ leaf = pending[i] /\ rec = leaves[leaf.position + 1]
  /\ heard = HeardFrom(received, leaf.position)
  /\ leaf.position \in Nat /\ RecordOK(rec) /\ rec.at <= now
  /\ Plain(rec.pushed.src.steps) \/ Looping(rec.pushed.src.steps)
  /\ LeafGood(rec, leaf, heard, now) /\ IsSeq(heard)

LEMMA PendingIs ==
  ASSUME StoreInvariant, NEW leaf \in PendingSet
  PROVE  \E i : PendingOK(leaf, i, leaves[leaf.position + 1], HeardFrom(received, leaf.position))
<1> DEFINE book == Book
           rec == leaves[leaf.position + 1]
           heard == HeardFrom(received, leaf.position)
<1>1. /\ BookOK(book, received, now) /\ book.pending = pending /\ book.leaves = leaves
  BY DEF StoreInvariant, StoreOK, Book
<1> HIDE DEF book
<1>2. IsSeq(pending) /\ (DOMAIN pending) = 1..Len(pending)
  BY <1>1, BookSeqs
<1>3. PICK i \in 1..Len(pending) : leaf = pending[i]
  BY <1>2 DEF PendingSet
<1>4. i \in 1..Len(book.pending) /\ leaf = book.pending[i] /\ rec = book.leaves[leaf.position + 1]
  BY <1>1, <1>3
<1> HIDE DEF rec
<1>5. EntryOK(book, received, now, i, leaf, rec, heard)
  BY <1>1, <1>4, EntryIs
<1>6. rec = leaves[leaf.position + 1]
  BY DEF rec
<1> HIDE DEF heard
<1>7. heard = HeardFrom(received, leaf.position)
  BY DEF heard
<1>8. PendingOK(leaf, i, rec, heard)
  BY <1>3, <1>5, <1>6, <1>7 DEF EntryOK, PendingOK
<1> QED  BY <1>6, <1>7, <1>8

LEMMA PlainIsScript ==
  ASSUME NEW steps, IsSeq(steps), Plain(steps)
  PROVE  \A k \in DOMAIN steps : steps[k].do # "Try"
<1>1. \A k \in DOMAIN steps : PlainStep(steps[k])
  BY DEF Plain
<1>2. \A s : PlainStep(s) => s.do # "Try"
  BY DEF PlainStep, Hang
<1> QED  BY <1>1, <1>2

LEMMA LoopIsNoScript ==
  ASSUME NEW steps, Looping(steps)
  PROVE  steps[1].do = "Try"
BY DEF Looping, Try

(* A record whose script begins with an attempt is a loop.                 *)
LEMMA LoopIs ==
  ASSUME NEW pushed, IsSeq(pushed.src.steps), IsLoop(pushed),
         Plain(pushed.src.steps) \/ Looping(pushed.src.steps)
  PROVE  Looping(pushed.src.steps)
<1> DEFINE steps == pushed.src.steps
<1>1. steps # <<>> /\ steps[1].do = "Try" /\ IsSeq(steps)
  BY DEF IsLoop
<1> HIDE DEF steps
<1>2. 1 \in DOMAIN steps
  BY <1>1, SeqIs, SeqEmpty
<1>3. ~ Plain(steps)
  BY <1>1, <1>2, PlainIsScript
<1> QED  BY <1>3 DEF steps

(* The attempts of a pending loop.                                         *)
LEMMA AttemptsHold ==
  ASSUME StoreInvariant, NEW leaf \in PendingSet, NEW pushed,
         pushed = leaves[leaf.position + 1].pushed, IsLoop(pushed)
  PROVE  Attempted(leaf.src, PolicyOf(pushed))
<1> DEFINE rec == leaves[leaf.position + 1]
           steps == pushed.src.steps
           heard == HeardFrom(received, leaf.position)
           s == leaf.src
           p == steps[1].policy
<1>1. PICK i : PendingOK(leaf, i, rec, heard)
  BY PendingIs
<1>2. rec.pushed = pushed
  OBVIOUS
<1> HIDE DEF rec, heard
<1>3. SourceFrom(steps, s, now) /\ IsSeq(steps)
  BY <1>1, <1>2 DEF PendingOK, LeafGood, LeafAt, RecordOK
<1>4. Looping(steps)
  BY <1>3, LoopIs DEF SourceFrom
<1>5. Spaced(p, s.tries) /\ AskedOf(p, s.asked)
  BY <1>3, <1>4 DEF SourceFrom, LoopState
<1>6. (DOMAIN s.tries) = 1..Len(s.tries)
  BY <1>5, SeqIs DEF Spaced
<1> QED  BY <1>5, <1>6 DEF Spaced, AskedOf, Attempted, PolicyOf

(* What was received of a loop.                                            *)
LEMMA VerdictsHold ==
  ASSUME StoreInvariant, NEW i \in DOMAIN received, NEW pushed,
         pushed = leaves[received[i].position + 1].pushed, IsLoop(pushed)
  PROVE  /\ \A j \in DOMAIN received : received[j].position = received[i].position => j = i
         /\ \/ received[i].answer.of = "timeout"
            \/ \E n \in 1..PolicyOf(pushed).max :
                 Decides(PolicyOf(pushed), n) /\ received[i].answer = Verdict(PolicyOf(pushed), n)
<1> DEFINE book == Book
           q == received[i].position
           recs == book.leaves
           steps == pushed.src.steps
<1>1. BookOK(book, received, now) /\ recs = leaves
  BY DEF StoreInvariant, StoreOK, Book
<1> HIDE DEF book
<1>2. /\ Records(recs, now) /\ HeardOK(received, Len(recs)) /\ HonestOK(recs, received)
  BY <1>1 DEF BookOK
<1>3. IsSeq(received) /\ IsSeq(recs) /\ q \in 0..(Len(recs) - 1)
  BY <1>2 DEF HeardOK, Records
<1>4. Len(recs) \in Nat
  BY <1>3, SeqIs
<1>5. pushed = recs[q + 1].pushed
  BY <1>1
<1> HIDE DEF recs, q
<1>6. q + 1 \in 1..Len(recs) /\ (q + 1) - 1 = q
  BY <1>3, <1>4
<1>7. Looping(steps) /\ Honest(steps, HeardFrom(received, q))
  <2>1. IsSeq(steps) /\ (Plain(steps) \/ Looping(steps))
    BY <1>2, <1>5, <1>6 DEF Records, RecordOK
  <2>2. Honest(recs[q + 1].pushed.src.steps, HeardFrom(received, (q + 1) - 1))
    BY <1>2, <1>6 DEF HonestOK
  <2> QED  BY <1>5, <1>6, <2>1, <2>2, LoopIs
<1> DEFINE heard == HeardFrom(received, q)
<1>8. Len(heard) <= 1 /\ \A k \in DOMAIN heard : IsTimeout(heard[k]) \/ Truthful(steps, heard[k])
  BY <1>7 DEF Honest
<1>9. IsSeq(heard)
  BY <1>3, HeardSeq
<1>10. \A j \in DOMAIN received : received[j].position = received[i].position =>
         j = i
  BY <1>3, <1>8, <1>9, OneHeard DEF q
<1>11. PICK k \in DOMAIN heard : heard[k] = received[i].answer
  BY <1>3, HeardIn DEF q
<1> HIDE DEF heard
<1>12. IsTimeout(received[i].answer) \/ Truthful(steps, received[i].answer)
  BY <1>8, <1>11
<1> QED  BY <1>7, <1>10, <1>12 DEF IsTimeout, Truthful, PolicyOf

LEMMA RetryHolds == StoreInvariant => RetryContract
<1> SUFFICES ASSUME StoreInvariant PROVE RetryContract
  OBVIOUS
<1>1. \A leaf \in PendingSet :
        LET pushed == leaves[leaf.position + 1].pushed
        IN  IsLoop(pushed) => Attempted(leaf.src, PolicyOf(pushed))
  BY AttemptsHold
<1>2. \A i \in DOMAIN received :
        LET pushed == leaves[received[i].position + 1].pushed IN
        IsLoop(pushed) =>
          /\ \A j \in DOMAIN received : received[j].position = received[i].position => j = i
          /\ \/ received[i].answer.of = "timeout"
             \/ \E n \in 1 .. PolicyOf(pushed).max :
                  Decides(PolicyOf(pushed), n) /\ received[i].answer = Verdict(PolicyOf(pushed), n)
  BY VerdictsHold
<1> QED  BY <1>1, <1>2 DEF RetryContract

LEMMA ScriptIsNoLoop ==
  ASSUME NEW rec, RecordOK(rec)
  PROVE  /\ Scripted(rec.pushed) => ~ Looping(rec.pushed.src.steps)
         /\ Plain(rec.pushed.src.steps) => Scripted(rec.pushed)
<1> DEFINE steps == rec.pushed.src.steps
<1>1. IsSeq(steps)
  BY DEF RecordOK
<1>2. Scripted(rec.pushed) <=> \A i \in DOMAIN steps : steps[i].do # "Try"
  BY DEF Scripted
<1> HIDE DEF steps
<1>3. ASSUME Looping(steps) PROVE ~ Scripted(rec.pushed)
  <2>1. 1 \in DOMAIN steps
    BY <1>1, <1>3, SeqIs DEF Looping
  <2>2. steps[1].do = "Try"
    BY <1>3, LoopIsNoScript
  <2> QED  BY <1>2, <2>1, <2>2
<1>4. Plain(steps) => Scripted(rec.pushed)
  BY <1>1, <1>2, PlainIsScript
<1> QED  BY <1>3, <1>4 DEF steps

LEMMA OutputHolds == StoreInvariant => OutputKept
<1> SUFFICES ASSUME StoreInvariant, NEW leaf \in PendingSet,
                    Scripted(leaves[leaf.position + 1].pushed),
                    \A i \in DOMAIN leaf.layers : leaf.layers[i].open
             PROVE  ReceivedOf(leaf.position) \o BufferOf(leaf) \o ItemsOf(leaf.src.steps)
                      = ItemsOf(leaves[leaf.position + 1].pushed.src.steps)
  BY DEF OutputKept
<1> DEFINE rec == leaves[leaf.position + 1]
           steps == rec.pushed.src.steps
           heard == HeardFrom(received, leaf.position)
           outs == heard \o BufferOf(leaf)
<1>1. PICK i : PendingOK(leaf, i, rec, heard)
  BY PendingIs
<1>2. Scripted(rec.pushed)
  OBVIOUS
<1>3. ReceivedOf(leaf.position) = heard
  BY DEF ReceivedOf
<1> HIDE DEF rec, heard
<1>4. ~ Looping(steps)
  BY <1>1, <1>2, ScriptIsNoLoop DEF PendingOK
<1>5. ~ AnyClosed(leaf.layers)
  BY DEF AnyClosed
<1>6. Kept(steps, outs, leaf.src)
  BY <1>1, <1>5, ExpiredIsClosed DEF PendingOK, LeafGood, LeafSaid
<1>7. outs \o ItemsOf(leaf.src.steps) = ItemsOf(steps)
  BY <1>4, <1>6 DEF Kept, Left
<1> QED  BY <1>3, <1>7 DEF rec

LEMMA SlotsHold == StoreInvariant => SlotDecisions
<1> SUFFICES ASSUME StoreInvariant PROVE SlotDecisions
  OBVIOUS
<1> DEFINE book == Book
<1>1. /\ BookOK(book, received, now) /\ Slots(book.pending) /\ RefusalsOK(book.refusals)
      /\ book.pending = pending /\ book.refusals = refusals /\ book = Book
  BY DEF StoreInvariant, StoreOK, Book
<1> HIDE DEF book
<1>2. IsSeq(pending) /\ (DOMAIN pending) = 1..Len(pending) /\ Len(pending) \in Nat
  BY <1>1, BookSeqs
<1>3. \A i \in DOMAIN refusals : refusals[i] # {}
  BY <1>1, SeqIs DEF RefusalsOK
<1>4. ASSUME NEW i \in DOMAIN pending, Spent(pending[i])
      PROVE  ~ IsBuffered(pending[i]) /\ PollOnce(book, i).out = End
  BY <1>1, <1>4 DEF Spent, PollOnce
<1>5. ASSUME NEW i \in DOMAIN pending, NEW j \in DOMAIN pending,
             i < j, pending[i].key = pending[j].key, pending[i].key # NoKey
      PROVE  Spent(pending[i]) \/ Spent(pending[j])
  BY <1>1, <1>2, <1>5 DEF Slots
<1> QED  BY <1>1, <1>3, <1>4, <1>5 DEF SlotDecisions

LEMMA TimeoutHolds == StoreInvariant => TimeoutContract
<1> SUFFICES ASSUME StoreInvariant PROVE TimeoutContract
  OBVIOUS
<1> DEFINE book == Book
<1>1. BookOK(book, received, now) /\ book.fired = fired /\ book.leaves = leaves /\ now \in Nat
  BY DEF StoreInvariant, StoreOK, Book
<1> HIDE DEF book
<1>2. Injective(fired)
  BY <1>1 DEF BookOK, FiredOK
<1>3. ASSUME NEW i \in DOMAIN received, NEW j \in DOMAIN received,
             received[i].answer.of = "timeout", received[j].answer.of = "timeout",
             received[i].position = received[j].position
      PROVE  i = j
  <2> DEFINE p == received[i].position
  <2>1. HeardOK(received, Len(book.leaves)) /\ Len(book.leaves) \in Nat
    BY <1>1, BookSeqs DEF BookOK
  <2>2. p \in Nat /\ IsSeq(received)
    BY <2>1 DEF HeardOK
  <2>3. OneTimeout(HeardFrom(received, p))
    BY <2>1, <2>2 DEF HeardOK
  <2>4. received[i].position = p /\ received[j].position = p
    BY <1>3
  <2> HIDE DEF p
  <2> QED  BY <1>3, <2>2, <2>3, <2>4, OneTimeoutHeard DEF IsTimeout
<1>4. ASSUME NEW leaf \in PendingSet, NEW k \in DOMAIN leaf.layers, NEW layer, layer = leaf.layers[k]
      PROVE  /\ layer.late <= 1 /\ layer.cut # End
             /\ layer.deadline = NotStarted => now = BirthOf(leaf)
             /\ layer.deadline # NotStarted => layer.deadline = BirthOf(leaf) + layer.duration
  <2> DEFINE rec == leaves[leaf.position + 1]
             heard == HeardFrom(received, leaf.position)
             bases == rec.pushed.layers
  <2>1. PICK i : PendingOK(leaf, i, rec, heard)
    BY PendingIs
  <2>2. BirthOf(leaf) = rec.at
    BY DEF BirthOf
  <2> HIDE DEF rec, heard
  <2>3. LayersAt(bases, leaf.layers, rec.at, now) /\ Anchoring(leaf.layers, rec.at, now) /\ BasesOK(bases)
    BY <2>1 DEF PendingOK, LeafGood, LeafAt, RecordOK
  <2> HIDE DEF bases
  <2>4. k \in 1..Len(bases)
    BY <2>3, SeqIs DEF LayersAt
  <2>5. LayerState(bases[k], layer, rec.at, now)
    BY <1>4, <2>3, <2>4 DEF LayersAt
  <2>6. layer.late <= 1 /\ layer.cut # End
    BY <2>5 DEF LayerState
  <2>7. layer.deadline = NotStarted => now = rec.at
    BY <1>4, <2>3 DEF Anchoring, Running
  <2>8. layer.deadline # NotStarted => layer.deadline = rec.at + layer.duration
    BY <2>5 DEF LayerState
  <2> QED  BY <2>2, <2>6, <2>7, <2>8
<1> QED  BY <1>2, <1>3, <1>4 DEF TimeoutContract

LEMMA HeardWas ==
  ASSUME NEW h, IsSeq(h), NEW p, NEW heard, heard = HeardFrom(h, p), NEW i \in DOMAIN heard
  PROVE  \E k \in DOMAIN h : h[k].answer = heard[i]
<1> DEFINE I == Mine(h, p)
           sel == Selected(h, I)
<1>1. heard = AnswersIn(sel) /\ sel = Selected(h, I)
  BY HeardIs
<1>2. I \subseteq 1..Len(h) /\ I \subseteq DOMAIN h
  BY SeqIs DEF Mine
<1> HIDE DEF I, sel
<1>3. IsSeq(sel) /\ \A m \in DOMAIN sel : \E k \in I : sel[m] = h[k]
  BY <1>1, <1>2, SelectedEntries
<1>4. i \in DOMAIN sel /\ heard[i] = sel[i].answer
  BY <1>1 DEF AnswersIn
<1> QED  BY <1>2, <1>3, <1>4

(* A cleanup that was started and runs no more has ended.                  *)
LEMMA HooksDone ==
  ASSUME StoreInvariant, armed = <<>>, Unfinished(running) = <<>>, NEW i \in DOMAIN hooks
  PROVE  HookDone(i)
<1> DEFINE book == Book
<1>1. /\ HooksOK(book, now) /\ book.hooks = hooks /\ book.armed = armed /\ book.running = running
      /\ book.started = started /\ now \in Nat
  BY DEF StoreInvariant, StoreOK, Book
<1> HIDE DEF book
<1>2. /\ HookRecords(hooks) /\ RunningOK(running) /\ StartsOK(started, hooks, armed)
      /\ AllStarted(started, hooks, armed) /\ AllGoing(started, hooks, running, now)
  BY <1>1 DEF HooksOK
<1>3. IsSeq(hooks) /\ IsSeq(started) /\ i \in 1..Len(hooks) /\ hooks[i].position = i - 1
      /\ i \in Nat /\ i - 1 \in 0..(Len(hooks) - 1)
  <2>1. IsSeq(hooks) /\ IsSeq(started)
    BY <1>2 DEF HookRecords, StartsOK
  <2>2. i \in 1..Len(hooks) /\ Len(hooks) \in Nat
    BY <2>1, SeqIs
  <2> QED  BY <1>2, <2>1, <2>2 DEF HookRecords
<1> DEFINE p == i - 1
<1>4. p \notin PositionsOf(armed)
  <2> HIDE DEF p
  <2> QED  BY SeqEmpty DEF PositionsOf
<1>5. p \in PositionsOf(started)
  BY <1>2, <1>3, <1>4 DEF AllStarted
<1>6. PICK k \in 1..Len(started) : started[k].position = p
  <2> HIDE DEF p
  <2> QED  BY <1>3, <1>5, PositionIn
<1> DEFINE start == started[k]
           y == FirstPoll(start, hooks)
<1>7. start.position \in 0..(Len(hooks) - 1) /\ start.at \in Nat
  BY <1>2 DEF StartsOK
<1>8. Going(y, running, now)
  BY <1>2 DEF AllGoing
<1>9. y = PollSource(hooks[i].src, start.at).src
  <2>1. start.position + 1 = i
    BY <1>3, <1>6
  <2> QED  BY <2>1 DEF FirstPoll
<1>10. y = FirstPoll(start, hooks) /\ start.position = hooks[i].position /\ start = started[k]
  BY <1>3, <1>6
<1> HIDE DEF start, y
<1>11. SourceShape(y)
  BY <1>2, <1>7, <1>10, FirstPolled
<1>12. y.due <= now
  <2>1. SUFFICES ASSUME ~ (y.due <= now) PROVE FALSE
    OBVIOUS
  <2>2. PICK j \in 1..Len(running) : running[j].src = y
    BY <1>8, <2>1 DEF Going
  <2>3. PollSource(y, now).src = y /\ y.steps # <<>>
    BY <1>1, <1>11, <2>1, SleepLasts
  <2> DEFINE u == Unfinished(running)
  <2>4. UnfinishedOf(running, u)
    <3>1. u = Unfinished(running)
      OBVIOUS
    <3> HIDE DEF u
    <3> QED  BY <1>2, <3>1, UnfinishedIs
  <2>5. \E m \in 1..Len(u) : TRUE
    BY <2>2, <2>3, <2>4 DEF UnfinishedOf
  <2> QED  BY <2>5, SeqEmpty
<1>13. k \in DOMAIN started
  BY <1>3, SeqIs
<1> QED  BY <1>9, <1>10, <1>12, <1>13 DEF HookDone

LEMMA PassHolds == StoreInvariant => PassIsExhaustive
<1> SUFFICES ASSUME StoreInvariant PROVE PassIsExhaustive
  OBVIOUS
<1> DEFINE book == Book
<1>1. /\ BookOK(book, received, now) /\ HooksOK(book, now) /\ StoreOK(book, received, now) /\ now \in Nat
      /\ book.hooks = hooks /\ book.leaves = leaves /\ book.started = started /\ book.armed = armed
      /\ book = Book
  BY DEF StoreInvariant, StoreOK, Book
<1> HIDE DEF book
<1>2. Injective([k \in DOMAIN started |-> started[k].position])
  <2>1. StartsOK(started, hooks, armed)
    BY <1>1 DEF HooksOK
  <2>2. (DOMAIN started) = 1..Len(started)
    BY <2>1, SeqIs DEF StartsOK
  <2> QED  BY <2>1, <2>2 DEF StartsOK, Injective
<1>3. verdict = "Passed" => quit # "QuitApplied"
  BY DEF StoreInvariant, CheckPasses
<1>4. ASSUME verdict = "Passed", quit = "Running"
      PROVE  /\ \A p \in DOMAIN leaves : \/ p - 1 \in revoked
                                         \/ Complete(leaves[p].pushed)
                                         \/ DueBy(leaves[p].pushed, leaves[p].at)
             /\ \A i \in DOMAIN hooks : HookDone(i)
  <2>1. armed = <<>> /\ Unfinished(running) = <<>> /\ Exhausted(Book).ok
    BY <1>4 DEF StoreInvariant, CheckPasses
  <2>2. \A i \in DOMAIN hooks : HookDone(i)
    BY <2>1, HooksDone
  <2>3. ASSUME NEW p \in DOMAIN leaves
        PROVE  p - 1 \in revoked \/ Complete(leaves[p].pushed) \/ DueBy(leaves[p].pushed, leaves[p].at)
    <3> DEFINE rec == leaves[p]
               q == rec.pushed.position
               heard == HeardFrom(received, p - 1)
    <3>1. Records(leaves, now) /\ IsSeq(received)
      BY <1>1 DEF BookOK, HeardOK
    <3>2. p \in 1..Len(leaves)
      BY <3>1, SeqIs DEF Records
    <3>3. /\ RecordOK(rec) /\ q = p - 1
          /\ Plain(rec.pushed.src.steps) \/ Looping(rec.pushed.src.steps)
      BY <3>1, <3>2 DEF Records
    <3>4. p - 1 \in revoked \/ Finished(rec, heard, now)
      BY <1>1, <2>1, <3>2, StoreExhausted
    <3>5. ReceivedOf(q) = heard
      BY <3>3 DEF ReceivedOf
    <3>6. heard = HeardFrom(received, p - 1) /\ rec = leaves[p]
      OBVIOUS
    <3> HIDE DEF rec, heard
    <3>7. \A k \in DOMAIN received : received[k].answer # Quit
      BY <1>4 DEF StoreInvariant, QuitUnheard
    <3>8. \A i \in DOMAIN heard : heard[i] # Quit
      <4>1. \A i \in DOMAIN heard : \E k \in DOMAIN received : received[k].answer = heard[i]
        <5> DEFINE r == p - 1
        <5>1. heard = HeardFrom(received, r)
          BY <3>6
        <5> HIDE DEF r
        <5> QED  BY <3>1, <5>1, HeardWas
      <4> QED  BY <3>7, <4>1
    <3>9. (Scripted(rec.pushed) => ~ Looping(rec.pushed.src.steps))
          /\ (Plain(rec.pushed.src.steps) => Scripted(rec.pushed))
      BY <3>3, ScriptIsNoLoop
    <3>10. ASSUME Finished(rec, heard, now) PROVE Complete(rec.pushed) \/ DueBy(rec.pushed, rec.at)
      BY <3>3, <3>5, <3>8, <3>9, <3>10 DEF Finished, Complete, DueBy
    <3> QED  BY <3>4, <3>6, <3>10
  <2> QED  BY <2>2, <2>3
<1> QED  BY <1>2, <1>3, <1>4 DEF PassIsExhaustive

-----------------------------------------------------------------------------
(* The deadlines of a leaf run from the clock at which it was enqueued,    *)
(* whatever the test does in between; a call's timeout message is made     *)
(* once over its leaves and delivered once per leaf, and at most one item  *)
(* passes a layer late (src/command/effect.rs, TimeoutLeaf::poll_next).    *)
THEOREM TimeoutsKept == Spec => []TimeoutContract
<1> QED  BY StoreInvariance, TimeoutHolds, PTL

(* Polls made ahead of delivery, by reconciliation and by the anchoring    *)
(* scan, lose, repeat and reorder no output of a pending leaf              *)
(* (src/testing.rs, poll_into_buffer and next_deliverable).                *)
THEOREM NoOutputLost == Spec => []OutputKept
<1> QED  BY StoreInvariance, OutputHolds, PTL

(* A slot never holds two leaves that can deliver, and a KeepInFlight      *)
(* spawn is refused only for one that can (src/testing.rs,                 *)
(* reconcile_is_occupied).                                                 *)
THEOREM SlotsDecided == Spec => []SlotDecisions
<1> QED  BY StoreInvariance, SlotsHold, PTL

(* A test that passes without a quit has received all the output that was  *)
(* neither revoked nor cut short by a deadline, and every cleanup it       *)
(* registered was started once and has ended (src/testing.rs,              *)
(* check_exhaustive).                                                      *)
THEOREM PassesExhausted == Spec => []PassIsExhaustive
<1> QED  BY StoreInvariance, PassHolds, PTL

(* A retry loop makes at most its policy's attempts, spaces them by the    *)
(* attempt and the whole backoff, and does not ask the predicate about the *)
(* final one; and the test receives one message at most of a loop's leaf,  *)
(* a timeout's or the verdict of the first attempt that ends the loop      *)
(* (src/command/retry.rs, run_retry).                                      *)
THEOREM RetriesKept == Spec => []RetryContract
<1> QED  BY StoreInvariance, RetryHolds, PTL
====
