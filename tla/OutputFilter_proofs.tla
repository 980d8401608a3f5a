-------------------------- MODULE OutputFilter_proofs --------------------------
(***************************************************************************)
(* However node:repl's output is cut, handleOutput() forwards and settles  *)
(* what the whole of it says: proved for every sentinel that satisfies     *)
(* SentinelAssumption and every sequence of chunks.  The definitions it is *)
(* about are recursive over numbers and texts; the proofs go by the least  *)
(* counterexample.                                                         *)
(***************************************************************************)
EXTENDS OutputFilter, SequenceTheorems, WellFoundedInduction, FiniteSetTheorems, TLAPS

-----------------------------------------------------------------------------
(* Induction and recursion                                                 *)

LEMMA Least ==
    ASSUME NEW T \in SUBSET Nat, T # {}
    PROVE  \E m \in T : \A n \in T : m <= n
<1>1. PICK m \in T : \A n \in T : <<n, m>> \notin OpToRel(<, Nat)
  BY NatLessThanWellFounded, WFMin, Zenon
<1>2. \A n \in T : <<n, m>> \notin {ss \in Nat \X Nat : ss[1] < ss[2]}
  BY <1>1 DEF OpToRel
<1>3. ASSUME NEW n \in T PROVE m <= n
  <2>1. m \in Nat /\ n \in Nat  OBVIOUS
  <2>2. ~(<<n, m>>[1] < <<n, m>>[2])  BY <2>1, <1>2
  <2> QED  BY <2>1, <2>2
<1> QED  BY <1>3

\* A set of numbers that has the successor of each and zero has all.
LEMMA Induction ==
    ASSUME NEW T, 0 \in T, \A n \in Nat : n \in T => n + 1 \in T
    PROVE  Nat \subseteq T
<1> DEFINE bad == {n \in Nat : n \notin T}
<1> SUFFICES ASSUME bad # {} PROVE FALSE  OBVIOUS
<1>1. PICK m \in bad : \A n \in bad : m <= n  BY Least
<1>2. m \in Nat /\ m # 0 /\ m - 1 \in Nat  BY <1>1
<1>3. m - 1 \in T  BY <1>1, <1>2
<1>4. (m - 1) + 1 = m  BY <1>2
<1> QED  BY <1>1, <1>2, <1>3, <1>4

\* A definition of functions from D to V, where the value at x depends on values
\* at lower ranks only.
Recursion(F, D, V, rank) ==
    /\ V # {} /\ rank \in [D -> Nat] /\ F \in [[D -> V] -> [D -> V]]
    /\ \A g, h \in [D -> V] : \A x \in D :
           (\A y \in D : rank[y] < rank[x] => g[y] = h[y]) => F[g][x] = F[h][x]

\* There is such a function.
LEMMA RecursionExists ==
    ASSUME NEW D, NEW V, NEW rank, NEW F, Recursion(F, D, V, rank)
    PROVE  \E g : g \in [D -> V] /\ g = F[g]
<1>0. /\ V # {} /\ rank \in [D -> Nat] /\ F \in [[D -> V] -> [D -> V]]
      /\ \A g, h \in [D -> V] : \A x \in D :
             (\A y \in D : rank[y] < rank[x] => g[y] = h[y]) => F[g][x] = F[h][x]
  BY DEF Recursion
<1> USE <1>0
<1> DEFINE Approx(n, g) == \A x \in D : rank[x] < n => g[x] = F[g][x]
           T == {n \in Nat : \E g \in [D -> V] : Approx(n, g)}
<1>1. \A n \in Nat : \E g \in [D -> V] : Approx(n, g)
  <2>1. 0 \in T
    <3>1. PICK v \in V : TRUE  OBVIOUS
    <3>2. [x \in D |-> v] \in [D -> V]  OBVIOUS
    <3>3. Approx(0, [x \in D |-> v])  OBVIOUS
    <3> QED  BY <3>2, <3>3
  <2>2. ASSUME NEW n \in Nat, n \in T PROVE n + 1 \in T
    <3>1. PICK g \in [D -> V] : Approx(n, g)  BY <2>2
    <3>2. F[g] \in [D -> V]  OBVIOUS
    <3>3. ASSUME NEW x \in D, rank[x] < n + 1 PROVE F[g][x] = F[F[g]][x]
      <4>1. \A y \in D : rank[y] < rank[x] => g[y] = F[g][y]  BY <3>1, <3>3
      <4> QED  BY <4>1, <3>2, <1>0
    <3> QED  BY <3>2, <3>3
  <2> HIDE DEF T
  <2>3. Nat \subseteq T  BY <2>1, <2>2, Induction
  <2> QED  BY <2>3 DEF T
<1>2. ASSUME NEW n \in Nat, NEW g \in [D -> V], NEW h \in [D -> V], Approx(n, g), Approx(n, h),
             NEW x \in D, rank[x] < n
      PROVE  g[x] = h[x]
  <2> DEFINE bad == {k \in Nat : \E y \in D : rank[y] = k /\ k < n /\ g[y] # h[y]}
  <2> SUFFICES ASSUME g[x] # h[x] PROVE FALSE  OBVIOUS
  <2>0. rank[x] \in bad  BY <1>2
  <2>1. PICK m \in bad : \A k \in bad : m <= k  BY <2>0, Least
  <2>2. PICK y \in D : rank[y] = m /\ m < n /\ g[y] # h[y]  BY <2>1
  <2>3. ASSUME NEW z \in D, rank[z] < rank[y] PROVE g[z] = h[z]
    <3>1. rank[z] \in Nat /\ rank[y] \in Nat /\ rank[z] < n  BY <2>2, <2>3
    <3> QED  BY <2>1, <2>2, <2>3, <3>1
  <2>4. F[g][y] = F[h][y]  BY <2>3, <1>0
  <2>5. g[y] = F[g][y] /\ h[y] = F[h][y]  BY <2>2, <1>2
  <2> QED  BY <2>2, <2>4, <2>5
<1> DEFINE A(x) == CHOOSE h \in [D -> V] : Approx(rank[x] + 1, h)
           f == [x \in D |-> A(x)[x]]
<1>3. ASSUME NEW x \in D PROVE A(x) \in [D -> V] /\ Approx(rank[x] + 1, A(x))
  <2>1. rank[x] + 1 \in Nat  OBVIOUS
  <2>2. \E h \in [D -> V] : Approx(rank[x] + 1, h)  BY <1>1, <2>1
  <2> HIDE DEF Approx
  <2> QED  BY <2>2, Zenon
<1> HIDE DEF A
<1>4. f \in [D -> V]  BY <1>3
<1>5. ASSUME NEW x \in D PROVE f[x] = F[f][x]
  <2>1. A(x)[x] = F[A(x)][x]  BY <1>3
  <2>2. ASSUME NEW y \in D, rank[y] < rank[x] PROVE f[y] = A(x)[y]
    <3>1. Approx(rank[y] + 1, A(x))  BY <1>3, <2>2
    <3>2. rank[y] + 1 \in Nat /\ rank[y] < rank[y] + 1  OBVIOUS
    <3>3. A(x) \in [D -> V] /\ A(y) \in [D -> V] /\ Approx(rank[y] + 1, A(y))  BY <1>3
    <3> HIDE DEF Approx
    <3>4. A(y)[y] = A(x)[y]  BY <3>1, <3>2, <3>3, <1>2
    <3> QED  BY <3>4
  <2> QED  BY <2>1, <2>2, <1>3, <1>4, <1>0
<1>6. F[f] \in [D -> V]  BY <1>4
<1> HIDE DEF f
<1>7. f = F[f]  BY <1>4, <1>5, <1>6
<1> QED  BY <1>4, <1>7

-----------------------------------------------------------------------------
(* The loop, and what is said of a text                                    *)

T == Seq(Character)                         \* texts
Said == Seq(Character \cup {Settled})       \* what was forwarded and settled
State == [buffer : T, forwarded : Said]

Idx(st) == Min(Occurrences(st.buffer)) - 1

\* One round of the loop.
Round(st) ==
    [buffer    |-> Rest(st.buffer, Idx(st) + Len(Sentinel)),
     forwarded |-> st.forwarded \o First(st.buffer, Idx(st)) \o <<Settled>>]

\* Concatenation is associative.  (Stated of a name, which the provers match at once.)
Assoc(a, b, c) == (a \o b) \o c = a \o (b \o c)

LEMMA SaidTwice == \A a, b, c \in Said : Assoc(a, b, c)
BY DEF Said, Assoc

LEMMA TextTwice == \A a, b, c \in T : Assoc(a, b, c)
BY DEF T, Assoc

LEMMA MinIs ==
    ASSUME NEW U \in SUBSET Nat, U # {}
    PROVE  Min(U) \in U /\ \A n \in U : Min(U) <= n
<1>1. \E m \in U : \A n \in U : m <= n  BY Least
<1> QED  BY <1>1 DEF Min

LEMMA MaxIs ==
    ASSUME NEW U \in SUBSET Nat, U # {}, NEW top \in Nat, \A n \in U : n <= top
    PROVE  Max(U) \in U /\ \A n \in U : n <= Max(U)
<1> DEFINE W == {k \in Nat : \E n \in U : k = top - n}
<1>1. W # {}
  <2>1. PICK n \in U : TRUE  OBVIOUS
  <2>2. top - n \in W  OBVIOUS
  <2> QED  BY <2>2
<1>2. PICK k \in W : \A j \in W : k <= j  BY <1>1, Least
<1>3. PICK m \in U : k = top - m  BY <1>2
<1>4. ASSUME NEW n \in U PROVE m >= n
  <2>1. top - n \in W  OBVIOUS
  <2>2. k <= top - n  BY <1>2, <2>1
  <2> QED  BY <2>2, <1>3
<1>5. \E x \in U : \A y \in U : x >= y  BY <1>4
<1>6. Max(U) \in U /\ \A y \in U : Max(U) >= y  BY <1>5 DEF Max
<1> QED  BY <1>6

LEMMA FirstIs ==
    ASSUME NEW S, NEW t \in Seq(S), NEW n \in 0..Len(t)
    PROVE  /\ First(t, n) \in Seq(S) /\ Len(First(t, n)) = n
           /\ \A k \in 1..n : First(t, n)[k] = t[k]
<1>1. \A k \in 1..n : t[k] \in S  BY ElementOfSeq
<1> QED  BY <1>1, SubSeqProperties DEF First

LEMMA RestIs ==
    ASSUME NEW S, NEW t \in Seq(S), NEW n \in 0..Len(t)
    PROVE  /\ Rest(t, n) \in Seq(S) /\ Len(Rest(t, n)) = Len(t) - n
           /\ \A k \in 1..(Len(t) - n) : Rest(t, n)[k] = t[n + k]
<1>0. Len(t) \in Nat  BY LenProperties
<1>1. \A k \in (n + 1)..Len(t) : t[k] \in S  BY <1>0, ElementOfSeq
<1> DEFINE r == SubSeq(t, n + 1, Len(t))
<1>2. /\ r \in Seq(S)
      /\ Len(r) = IF n + 1 <= Len(t) THEN Len(t) - (n + 1) + 1 ELSE 0
      /\ \A k \in 1..(Len(t) - (n + 1) + 1) : r[k] = t[(n + 1) + k - 1]
  BY <1>0, <1>1, SubSeqProperties
<1> QED  BY <1>0, <1>2 DEF Rest

LEMMA FirstAndRest ==
    ASSUME NEW S, NEW t \in Seq(S), NEW n \in 0..Len(t)
    PROVE  First(t, n) \o Rest(t, n) = t
<1>0. Len(t) \in Nat  BY LenProperties
<1> DEFINE a == First(t, n)  b == Rest(t, n)
<1>1. /\ a \in Seq(S) /\ b \in Seq(S) /\ Len(a) = n /\ Len(b) = Len(t) - n
      /\ \A k \in 1..n : a[k] = t[k]
      /\ \A k \in 1..(Len(t) - n) : b[k] = t[n + k]
  BY FirstIs, RestIs
<1> HIDE DEF a, b
<1>2. a \o b \in Seq(S) /\ Len(a \o b) = Len(t)
  <2>1. a \o b \in Seq(S) /\ Len(a \o b) = Len(a) + Len(b)  BY <1>1, ConcatProperties
  <2> QED  BY <2>1, <1>0, <1>1
<1>3. \A k \in 1..Len(t) : (a \o b)[k] = t[k]
  <2> TAKE k \in 1..Len(t)
  <2>1. (a \o b)[k] = IF k <= n THEN a[k] ELSE b[k - n]
    BY <1>0, <1>1, ConcatProperties
  <2>2. CASE k <= n  BY <2>1, <2>2, <1>1
  <2>3. CASE k > n
    <3>1. k - n \in 1..(Len(t) - n) /\ n + (k - n) = k  BY <2>3, <1>0
    <3> QED  BY <2>1, <2>3, <3>1, <1>1
  <2>4. k <= n \/ k > n  BY <1>0
  <2> QED  BY <2>2, <2>3, <2>4
<1>4. a \o b = t  BY <1>2, <1>3, SeqEqual
<1> QED  BY <1>4 DEF a, b

LEMMA CatIs ==
    ASSUME NEW S, NEW a \in Seq(S), NEW b \in Seq(S)
    PROVE  /\ a \o b \in Seq(S) /\ Len(a \o b) = Len(a) + Len(b)
           /\ \A k \in 1..Len(a) : (a \o b)[k] = a[k]
           /\ \A k \in 1..Len(b) : (a \o b)[Len(a) + k] = b[k]
<1>0. Len(a) \in Nat /\ Len(b) \in Nat  BY LenProperties
<1>1. a \o b \in Seq(S) /\ Len(a \o b) = Len(a) + Len(b)  BY ConcatProperties
<1>2. \A k \in 1..Len(a) + Len(b) :
          (a \o b)[k] = IF k <= Len(a) THEN a[k] ELSE b[k - Len(a)]
  BY ConcatProperties
<1>3. \A k \in 1..Len(a) : (a \o b)[k] = a[k]  BY <1>0, <1>2
<1>4. ASSUME NEW k \in 1..Len(b) PROVE (a \o b)[Len(a) + k] = b[k]
  <2>1. /\ Len(a) + k \in 1..Len(a) + Len(b) /\ ~(Len(a) + k <= Len(a))
        /\ (Len(a) + k) - Len(a) = k
    BY <1>0
  <2> QED  BY <1>2, <2>1
<1> QED  BY <1>1, <1>3, <1>4

\* The sequences of a concatenation, one after the other.
Adds(f, ps) ==
    f[0] = <<>> /\ \A n \in 1..Len(ps) : f[n] = f[n - 1] \o ps[n]

LEMMA Flattened ==
    ASSUME NEW S, NEW ps \in Seq(Seq(S))
    PROVE  \E f \in [0..Len(ps) -> Seq(S)] : Adds(f, ps) /\ FlattenSeq(ps) = f[Len(ps)]
<1>0. Len(ps) \in Nat /\ <<>> \in Seq(S)  BY LenProperties, EmptySeq
<1>e. \A n \in 1..Len(ps) : ps[n] \in Seq(S)  BY ElementOfSeq
<1>1. CASE Len(ps) = 0
  <2>1. ps = <<>>  BY <1>1, EmptySeq
  <2>2. FlattenSeq(ps) = <<>>  BY <1>1, <2>1 DEF FlattenSeq
  <2> DEFINE f == [n \in 0..0 |-> <<>>]
  <2>3. f \in [0..Len(ps) -> Seq(S)] /\ f[0] = <<>>  BY <1>0, <1>1
  <2>4. Adds(f, ps)  BY <1>1, <2>3 DEF Adds
  <2> QED  BY <1>1, <2>2, <2>3, <2>4
<1>2. CASE Len(ps) # 0
  <2> DEFINE D == 1..Len(ps)
             V == Seq(S)
             Def(g, i) == IF i = 1 THEN ps[i] ELSE g[i - 1] \o ps[i]
             F == [g \in [D -> V] |-> [i \in D |-> Def(g, i)]]
             rank == [i \in D |-> i]
             flatten == CHOOSE g : g = [i \in D |-> Def(g, i)]
  <2>1. ASSUME NEW g \in [D -> V] PROVE [i \in D |-> Def(g, i)] \in [D -> V]
    <3>1. ASSUME NEW i \in D PROVE Def(g, i) \in V
      <4>1. CASE i = 1  BY <4>1, <1>e
      <4>2. CASE i # 1
        <5>1. i - 1 \in D  BY <4>2, <1>0
        <5>2. g[i - 1] \in V /\ ps[i] \in V  BY <5>1, <1>e
        <5> QED  BY <4>2, <5>2, ConcatProperties
      <4> QED  BY <4>1, <4>2
    <3> QED  BY <3>1
  <2>2. F \in [[D -> V] -> [D -> V]] /\ rank \in [D -> Nat] /\ V # {}
    <3>1. F \in [[D -> V] -> [D -> V]]  BY <2>1
    <3>2. rank \in [D -> Nat]  BY <1>0
    <3> QED  BY <3>1, <3>2, <1>0
  <2>3. ASSUME NEW g \in [D -> V], NEW h \in [D -> V], NEW i \in D,
               \A j \in D : rank[j] < rank[i] => g[j] = h[j]
        PROVE  F[g][i] = F[h][i]
    <3>1. F[g][i] = Def(g, i) /\ F[h][i] = Def(h, i)  OBVIOUS
    <3>2. CASE i = 1  BY <3>1, <3>2
    <3>3. CASE i # 1
      <4>1. i - 1 \in D /\ i - 1 < i  BY <3>3, <1>0
      <4>2. g[i - 1] = h[i - 1]  BY <4>1, <2>3
      <4> QED  BY <3>1, <4>2
    <3> QED  BY <3>2, <3>3
  <2>4. PICK g \in [D -> V] : g = [i \in D |-> Def(g, i)]
    <3>1. Recursion(F, D, V, rank)  BY <2>2, <2>3 DEF Recursion
    <3> HIDE DEF F, rank, D, V
    <3>2. PICK g : g \in [D -> V] /\ g = F[g]  BY <3>1, RecursionExists
    <3> QED  BY <3>2 DEF F
  <2>5. flatten = [i \in D |-> Def(flatten, i)]
    <3> HIDE DEF Def, D
    <3>1. \E c : c = [i \in D |-> Def(c, i)]  BY <2>4
    <3> QED  BY <3>1, Zenon
  <2>6. FlattenSeq(ps) = flatten[Len(ps)]  BY <1>2 DEF FlattenSeq
  <2> HIDE DEF flatten
  <2>7. \A i \in D : flatten[i] = Def(flatten, i)  BY <2>5, Zenon
  <2>8. \A i \in Nat : i + 1 \in D => flatten[i + 1] \in V
    <3> DEFINE U == {i \in Nat : i + 1 \in D => flatten[i + 1] \in V}
    <3>1. 0 \in U
      <4>1. 1 \in D => flatten[1] = ps[1]  BY <2>7
      <4> QED  BY <4>1, <1>e
    <3>2. ASSUME NEW i \in Nat, i \in U PROVE i + 1 \in U
      <4> SUFFICES ASSUME (i + 1) + 1 \in D PROVE flatten[(i + 1) + 1] \in V  OBVIOUS
      <4>1. i + 1 \in D /\ (i + 1) + 1 # 1 /\ ((i + 1) + 1) - 1 = i + 1  BY <1>0
      <4>2. flatten[i + 1] \in V /\ ps[(i + 1) + 1] \in V  BY <3>2, <4>1, <1>e
      <4>3. flatten[(i + 1) + 1] = flatten[i + 1] \o ps[(i + 1) + 1]  BY <2>7, <4>1
      <4> QED  BY <4>2, <4>3, ConcatProperties
    <3> HIDE DEF U
    <3>3. Nat \subseteq U  BY <3>1, <3>2, Induction
    <3> QED  BY <3>3 DEF U
  <2>9. \A i \in D : flatten[i] \in V
    <3> TAKE i \in D
    <3>1. i - 1 \in Nat /\ (i - 1) + 1 = i  BY <1>0
    <3> QED  BY <3>1, <2>8
  <2> DEFINE f == [n \in 0..Len(ps) |-> IF n = 0 THEN <<>> ELSE flatten[n]]
  <2>10. f \in [0..Len(ps) -> Seq(S)]  BY <1>0, <2>9
  <2>11. Adds(f, ps)
    <3>1. f[0] = <<>>  BY <1>0
    <3>2. ASSUME NEW n \in 1..Len(ps) PROVE f[n] = f[n - 1] \o ps[n]
      <4>1. n \in Int /\ n - 1 \in 0..Len(ps) /\ n \in 0..Len(ps) /\ n # 0  BY <1>0
      <4>2. f[n] = flatten[n]  BY <4>1
      <4>3. CASE n = 1
        <5>1. flatten[n] = ps[n] /\ f[n - 1] = <<>> /\ ps[n] \in Seq(S)
          BY <4>1, <4>3, <2>7, <1>e
        <5> QED  BY <5>1, <4>2, ConcatEmptySeq
      <4>4. CASE n # 1
        <5>1. f[n - 1] = flatten[n - 1]  BY <4>1, <4>4
        <5>2. flatten[n] = flatten[n - 1] \o ps[n]  BY <4>4, <2>7
        <5> QED  BY <5>1, <5>2, <4>2
      <4> QED  BY <4>3, <4>4
    <3> QED  BY <3>1, <3>2 DEF Adds
  <2>12. f[Len(ps)] = FlattenSeq(ps)  BY <1>0, <1>2, <2>6
  <2> QED  BY <2>10, <2>11, <2>12
<1> QED  BY <1>1, <1>2

\* What there is to flatten can be flattened in two parts.
LEMMA FlattenParts ==
    ASSUME NEW S, NEW ps \in Seq(Seq(S)), NEW k \in 0..Len(ps)
    PROVE  /\ FlattenSeq(ps) = FlattenSeq(First(ps, k)) \o FlattenSeq(Rest(ps, k))
           /\ FlattenSeq(First(ps, k)) \in Seq(S) /\ FlattenSeq(Rest(ps, k)) \in Seq(S)
<1>c. \A x, y, z \in Seq(S) : (x \o y) \o z = x \o (y \o z)  OBVIOUS
<1> DEFINE a == First(ps, k)  b == Rest(ps, k)
<1>1. /\ a \in Seq(Seq(S)) /\ Len(a) = k /\ \A n \in 1..k : a[n] = ps[n]
      /\ b \in Seq(Seq(S)) /\ Len(b) = Len(ps) - k
      /\ \A n \in 1..(Len(ps) - k) : b[n] = ps[k + n]
  BY FirstIs, RestIs
<1>0. Len(ps) \in Nat /\ k \in Nat /\ k <= Len(ps) /\ Len(ps) - k \in Nat
  <2>1. Len(ps) \in Nat  BY LenProperties
  <2> QED  BY <2>1
<1>2. PICK f \in [0..Len(ps) -> Seq(S)] : Adds(f, ps) /\ FlattenSeq(ps) = f[Len(ps)]
  BY Flattened
<1>3. PICK g \in [0..Len(a) -> Seq(S)] : Adds(g, a) /\ FlattenSeq(a) = g[Len(a)]
  BY <1>1, Flattened
<1>4. PICK h \in [0..Len(b) -> Seq(S)] : Adds(h, b) /\ FlattenSeq(b) = h[Len(b)]
  BY <1>1, Flattened
<1>e. \A n \in 1..Len(ps) : ps[n] \in Seq(S)  BY ElementOfSeq
<1> HIDE DEF a, b
<1>5. \A n \in Nat : n <= k => f[n] = g[n]
  <2> DEFINE U == {n \in Nat : n <= k => f[n] = g[n]}
  <2>1. 0 \in U  BY <1>2, <1>3 DEF Adds
  <2>2. ASSUME NEW n \in Nat, n \in U PROVE n + 1 \in U
    <3> SUFFICES ASSUME n + 1 <= k PROVE f[n + 1] = g[n + 1]  OBVIOUS
    <3>1. n + 1 \in 1..k /\ n + 1 \in 1..Len(ps) /\ (n + 1) - 1 = n /\ n <= k  BY <1>0
    <3>2. f[n + 1] = f[n] \o ps[n + 1]  BY <3>1, <1>2 DEF Adds
    <3>3. g[n + 1] = g[n] \o a[n + 1]  BY <3>1, <1>1, <1>3 DEF Adds
    <3> QED  BY <2>2, <3>1, <3>2, <3>3, <1>1
  <2> HIDE DEF U
  <2>3. Nat \subseteq U  BY <2>1, <2>2, Induction
  <2> QED  BY <2>3 DEF U
<1>6. \A n \in Nat : n <= Len(ps) - k => f[k + n] = f[k] \o h[n]
  <2> DEFINE U == {n \in Nat : n <= Len(ps) - k => f[k + n] = f[k] \o h[n]}
  <2>1. 0 \in U
    <3>1. h[0] = <<>>  BY <1>4 DEF Adds
    <3>0. f[k] \in Seq(S) /\ k + 0 = k
      <4>1. f[k] \in Seq(S)  OBVIOUS
      <4>2. k + 0 = k  BY <1>0
      <4> QED  BY <4>1, <4>2
    <3>2. f[k] \o <<>> = f[k]  BY <3>0, ConcatEmptySeq
    <3> QED  BY <3>0, <3>1, <3>2
  <2>2. ASSUME NEW n \in Nat, n \in U PROVE n + 1 \in U
    <3>0. n + 1 \in Nat  OBVIOUS
    <3> SUFFICES ASSUME n + 1 <= Len(ps) - k PROVE f[k + (n + 1)] = f[k] \o h[n + 1]
      BY <3>0, Zenon
    <3>1. /\ n + 1 \in 1..Len(b) /\ n \in 0..Len(b) /\ k + (n + 1) \in 1..Len(ps)
          /\ (n + 1) - 1 = n /\ (k + (n + 1)) - 1 = k + n /\ n <= Len(ps) - k
      BY <1>0, <1>1
    <3>2. f[k + (n + 1)] = f[k + n] \o ps[k + (n + 1)]  BY <3>1, <1>2 DEF Adds
    <3>3. h[n + 1] = h[n] \o b[n + 1]  BY <3>1, <1>4 DEF Adds
    <3>4. b[n + 1] = ps[k + (n + 1)] /\ b[n + 1] \in Seq(S)  BY <3>1, <1>1, <1>e
    <3>5. f[k] \in Seq(S) /\ h[n] \in Seq(S)  BY <1>0, <3>1
    <3>6. f[k + n] = f[k] \o h[n]  BY <2>2, <3>1
    <3>7. (f[k] \o h[n]) \o b[n + 1] = f[k] \o (h[n] \o b[n + 1])
      BY <1>c, <3>4, <3>5, Zenon
    <3> QED  BY <3>2, <3>3, <3>4, <3>6, <3>7
  <2> HIDE DEF U
  <2>3. Nat \subseteq U  BY <2>1, <2>2, Induction
  <2> QED  BY <2>3 DEF U
<1>7. f[Len(ps)] = g[k] \o h[Len(ps) - k]
  <2>1. f[k] = g[k]  BY <1>0, <1>5
  <2> PICK m : m = Len(ps) - k  OBVIOUS
  <2>4. m \in Nat /\ m <= Len(ps) - k  BY <1>0
  <2>2. f[k + m] = f[k] \o h[m]  BY <2>4, <1>6
  <2>3. k + (Len(ps) - k) = Len(ps)  BY <1>0
  <2> QED  BY <2>1, <2>2, <2>3
<1>8. g[k] \in Seq(S) /\ h[Len(ps) - k] \in Seq(S)
  <2>1. k \in 0..Len(a) /\ Len(ps) - k \in 0..Len(b)  BY <1>0, <1>1
  <2> QED  BY <2>1
<1>9. FlattenSeq(a) = g[k] /\ FlattenSeq(b) = h[Len(ps) - k]  BY <1>1, <1>3, <1>4
<1> QED  BY <1>2, <1>7, <1>8, <1>9 DEF a, b

LEMMA FlattenType ==
    ASSUME NEW S, NEW ps \in Seq(Seq(S))
    PROVE  FlattenSeq(ps) \in Seq(S)
<1>1. PICK f \in [0..Len(ps) -> Seq(S)] : Adds(f, ps) /\ FlattenSeq(ps) = f[Len(ps)]
  BY Flattened
<1>2. Len(ps) \in Nat  BY LenProperties
<1> QED  BY <1>1, <1>2

\* A text is its characters.
LEMMA FlattenCharacters ==
    ASSUME NEW S, NEW t \in Seq(S), NEW ps \in Seq(Seq(S)), Len(ps) = Len(t),
           \A n \in 1..Len(t) : ps[n] = <<t[n]>>
    PROVE  FlattenSeq(ps) = t
<1>0. Len(t) \in Nat  BY LenProperties
<1>e. \A n \in 1..Len(t) : t[n] \in S  BY ElementOfSeq
<1>1. PICK f \in [0..Len(ps) -> Seq(S)] : Adds(f, ps) /\ FlattenSeq(ps) = f[Len(ps)]
  BY Flattened
<1> DEFINE Is(n) == Len(f[n]) = n /\ \A k \in 1..n : f[n][k] = t[k]
           U == {n \in Nat : n <= Len(t) => Is(n)}
<1>2. 0 \in U  BY <1>1 DEF Adds
<1>3. ASSUME NEW n \in Nat, n \in U PROVE n + 1 \in U
  <2> SUFFICES ASSUME n + 1 <= Len(t) PROVE Is(n + 1)  OBVIOUS
  <2>1. n + 1 \in 1..Len(ps) /\ n \in 0..Len(ps) /\ (n + 1) - 1 = n  BY <1>0
  <2>2. f[n + 1] = f[n] \o <<t[n + 1]>>  BY <2>1, <1>1 DEF Adds
  <2>3. Is(n)  BY <1>3, <1>0
  <2>4. f[n] \in Seq(S) /\ <<t[n + 1]>> \in Seq(S) /\ Len(<<t[n + 1]>>) = 1
        /\ <<t[n + 1]>>[1] = t[n + 1]
    <3>1. f[n] \in Seq(S)  BY <2>1
    <3>2. t[n + 1] \in S  BY <2>1, <1>e
    <3> QED  BY <3>1, <3>2
  <2>5. /\ Len(f[n + 1]) = Len(f[n]) + 1
        /\ \A k \in 1..Len(f[n]) : f[n + 1][k] = f[n][k]
        /\ f[n + 1][Len(f[n]) + 1] = t[n + 1]
    BY <2>2, <2>4, CatIs
  <2>6. ASSUME NEW k \in 1..(n + 1) PROVE f[n + 1][k] = t[k]
    <3>1. CASE k \in 1..n  BY <3>1, <2>3, <2>5
    <3>2. CASE k = n + 1  BY <3>2, <2>3, <2>5
    <3> QED  BY <3>1, <3>2
  <2> QED  BY <2>3, <2>5, <2>6
<1> HIDE DEF U, Is
<1>4. Nat \subseteq U  BY <1>2, <1>3, Induction
<1>5. Is(Len(t))  BY <1>4, <1>0 DEF U
<1>6. f[Len(t)] \in Seq(S)  BY <1>0
<1>7. f[Len(t)] = t  BY <1>5, <1>6, SeqEqual DEF Is
<1> QED  BY <1>1, <1>7

\* Nothing but the last adds anything.
LEMMA FlattenLast ==
    ASSUME NEW S, NEW ps \in Seq(Seq(S)), Len(ps) # 0,
           \A n \in 1..(Len(ps) - 1) : ps[n] = <<>>
    PROVE  FlattenSeq(ps) = ps[Len(ps)]
<1>0. Len(ps) \in Nat  BY LenProperties
<1>1. PICK f \in [0..Len(ps) -> Seq(S)] : Adds(f, ps) /\ FlattenSeq(ps) = f[Len(ps)]
  BY Flattened
<1>e. \A n \in 1..Len(ps) : ps[n] \in Seq(S)  BY ElementOfSeq
<1> DEFINE U == {n \in Nat : n < Len(ps) => f[n] = <<>>}
<1>2. 0 \in U  BY <1>1 DEF Adds
<1>3. ASSUME NEW n \in Nat, n \in U PROVE n + 1 \in U
  <2> SUFFICES ASSUME n + 1 < Len(ps) PROVE f[n + 1] = <<>>  OBVIOUS
  <2>1. n + 1 \in 1..(Len(ps) - 1) /\ n + 1 \in 1..Len(ps) /\ (n + 1) - 1 = n  BY <1>0
  <2>2. f[n + 1] = f[n] \o ps[n + 1]  BY <2>1, <1>1 DEF Adds
  <2>3. f[n] = <<>> /\ ps[n + 1] = <<>>  BY <2>1, <1>3, <1>0
  <2>4. <<>> \o <<>> = <<>>  OBVIOUS
  <2> QED  BY <2>2, <2>3, <2>4
<1> HIDE DEF U
<1>4. Nat \subseteq U  BY <1>2, <1>3, Induction
<1>5. f[Len(ps) - 1] = <<>>
  <2>1. Len(ps) - 1 \in Nat /\ Len(ps) - 1 < Len(ps)  BY <1>0
  <2> QED  BY <2>1, <1>4 DEF U
<1>6. f[Len(ps)] = f[Len(ps) - 1] \o ps[Len(ps)]
  <2>1. Len(ps) \in 1..Len(ps)  BY <1>0
  <2> QED  BY <2>1, <1>1 DEF Adds
<1>7. <<>> \o ps[Len(ps)] = ps[Len(ps)]  BY <1>0, <1>e, ConcatEmptySeq
<1> QED  BY <1>1, <1>5, <1>6, <1>7

-----------------------------------------------------------------------------
(* What the whole of a text says                                           *)

L == Len(Sentinel)

LEMMA SentinelIs ==
    /\ Sentinel \in T /\ L \in Nat /\ 0 < L
    /\ \A n \in 1..L : Sentinel[n] \in Character
<1>1. Sentinel \in Seq(Character) /\ Sentinel # <<>>  BY SentinelAssumption
<1>2. L \in Nat /\ 0 < L  BY <1>1, EmptySeq DEF L
<1>3. \A n \in 1..L : Sentinel[n] \in Character  BY <1>1, ElementOfSeq DEF L
<1> QED  BY <1>1, <1>2, <1>3 DEF T

\* A sentinel begins at k, read character by character.
At(t, k) == \A n \in 1..L : t[(k + n) - 1] = Sentinel[n]

LEMMA OccurrencesAre ==
    ASSUME NEW t \in T
    PROVE  /\ Len(t) \in Nat
           /\ \A k : k \in Occurrences(t) <=> k \in Nat \ {0} /\ (k + L) - 1 <= Len(t) /\ At(t, k)
<1>0. Len(t) \in Nat /\ L \in Nat /\ 0 < L  BY SentinelIs, LenProperties DEF T
<1>1. ASSUME NEW k \in 1..(Len(t) - L + 1) PROVE OccursAt(t, k) <=> At(t, k)
  <2> DEFINE u == SubSeq(t, k, k + L - 1)
  <2>1. k \in Int /\ k + L - 1 \in Int /\ 1 <= k /\ k + L - 1 <= Len(t)  BY <1>0
  <2>2. \A n \in k..(k + L - 1) : t[n] \in Character
    <3> TAKE n \in k..(k + L - 1)
    <3>1. n \in 1..Len(t)  BY <2>1, <1>0
    <3> QED  BY <3>1, ElementOfSeq DEF T
  <2>3. /\ u \in Seq(Character)
        /\ Len(u) = IF k <= k + L - 1 THEN (k + L - 1) - k + 1 ELSE 0
        /\ \A n \in 1..((k + L - 1) - k + 1) : u[n] = t[k + n - 1]
    BY <2>1, <2>2, SubSeqProperties
  <2>4. Len(u) = L /\ \A n \in 1..L : u[n] = t[(k + n) - 1]  BY <2>1, <2>3, <1>0
  <2> HIDE DEF u
  <2>5. u = Sentinel <=> \A n \in 1..L : u[n] = Sentinel[n]
    <3>1. ASSUME \A n \in 1..L : u[n] = Sentinel[n] PROVE u = Sentinel
      <4>1. Sentinel \in Seq(Character) /\ Len(Sentinel) = Len(u)  BY <2>4, SentinelIs DEF T, L
      <4>2. \A n \in 1..Len(u) : u[n] = Sentinel[n]  BY <3>1, <2>4
      <4> QED  BY <4>1, <4>2, <2>3, SeqEqual
    <3> QED  BY <3>1
  <2>6. u = Sentinel <=> At(t, k)  BY <2>4, <2>5 DEF At
  <2> QED  BY <2>6 DEF u, OccursAt, L
<1>2. \A k : k \in 1..(Len(t) - L + 1) <=> k \in Nat \ {0} /\ (k + L) - 1 <= Len(t)
  BY <1>0
<1> QED  BY <1>0, <1>1, <1>2 DEF Occurrences, L

Ends(t) == {k + L - 1 : k \in Occurrences(t)}

Piece(t, n) ==
    IF n \in Ends(t) THEN <<Settled>>
    ELSE IF \E e \in Ends(t) : e - L < n /\ n <= e THEN <<>>
    ELSE <<t[n]>>

Pieces(t) == [n \in 1..Len(t) |-> Piece(t, n)]

LEMMA UncutIs == \A t : Uncut(t) = FlattenSeq(Pieces(t))
BY DEF Uncut, Pieces, Piece, Ends, L

LEMMA PiecesAre ==
    ASSUME NEW t \in T
    PROVE  /\ Len(t) \in Nat /\ Len(Pieces(t)) = Len(t) /\ Pieces(t) \in Seq(Said)
           /\ \A n \in 1..Len(t) : Pieces(t)[n] = Piece(t, n)
<1>1. Len(t) \in Nat  BY LenProperties DEF T
<1>2. ASSUME NEW n \in 1..Len(t) PROVE Piece(t, n) \in Said
  <2>1. t[n] \in Character  BY ElementOfSeq DEF T
  <2>2. <<Settled>> \in Said /\ <<>> \in Said /\ <<t[n]>> \in Said  BY <2>1 DEF Said
  <2> QED  BY <2>2 DEF Piece
<1> HIDE DEF Said
<1> QED  BY <1>1, <1>2 DEF Pieces

LEMMA UncutType == ASSUME NEW t \in T PROVE Uncut(t) \in Said
<1>1. FlattenSeq(Pieces(t)) \in Seq(Character \cup {Settled})
  BY PiecesAre, FlattenType DEF Said
<1> QED  BY <1>1, UncutIs DEF Said

\* Two texts whose remainders say the same, piece by piece.
LEMMA SamePieces ==
    ASSUME NEW t \in T, NEW k \in 0..Len(t),
           \A n \in 1..(Len(t) - k) : Piece(t, k + n) = Piece(Rest(t, k), n)
    PROVE  Uncut(t) = FlattenSeq(First(Pieces(t), k)) \o Uncut(Rest(t, k))
<1> DEFINE r == Rest(t, k)  ps == Pieces(t)
<1>0. Len(t) \in Nat /\ Len(ps) = Len(t) /\ ps \in Seq(Said)
      /\ \A n \in 1..Len(t) : ps[n] = Piece(t, n)
  BY PiecesAre
<1>1. r \in T /\ Len(r) = Len(t) - k  BY RestIs DEF T
<1>2. /\ Len(Pieces(r)) = Len(r) /\ Pieces(r) \in Seq(Said)
      /\ \A n \in 1..Len(r) : Pieces(r)[n] = Piece(r, n)
  BY <1>1, PiecesAre
<1>3. /\ Rest(ps, k) \in Seq(Said) /\ Len(Rest(ps, k)) = Len(ps) - k
      /\ \A n \in 1..(Len(ps) - k) : Rest(ps, k)[n] = ps[k + n]
  BY <1>0, RestIs
<1>4. Rest(ps, k) = Pieces(r)
  <2>1. Len(Rest(ps, k)) = Len(Pieces(r))  BY <1>0, <1>1, <1>2, <1>3
  <2>2. ASSUME NEW n \in 1..Len(Rest(ps, k)) PROVE Rest(ps, k)[n] = Pieces(r)[n]
    <3>1. n \in 1..(Len(t) - k) /\ n \in 1..Len(r) /\ k + n \in 1..Len(t)  BY <1>0, <1>1, <1>3
    <3> QED  BY <3>1, <1>0, <1>2, <1>3
  <2> QED  BY <2>1, <2>2, <1>2, <1>3, SeqEqual
<1>5. FlattenSeq(ps) = FlattenSeq(First(ps, k)) \o FlattenSeq(Rest(ps, k))
  BY <1>0, FlattenParts DEF Said
<1> QED  BY <1>4, <1>5, UncutIs

LEMMA RestOccurs ==
    ASSUME NEW t \in T, NEW k \in 0..Len(t), NEW q \in Nat \ {0}
    PROVE  q \in Occurrences(Rest(t, k)) <=> q + k \in Occurrences(t)
<1> DEFINE r == Rest(t, k)
<1>0. Len(t) \in Nat /\ k \in Nat /\ k <= Len(t) /\ L \in Nat /\ 0 < L
  BY SentinelIs, OccurrencesAre
<1>1. r \in T /\ Len(r) = Len(t) - k /\ \A n \in 1..(Len(t) - k) : r[n] = t[k + n]
  BY RestIs DEF T
<1> HIDE DEF r
<1>2. q \in Occurrences(r) <=> (q + L) - 1 <= Len(r) /\ At(r, q)  BY <1>1, OccurrencesAre
<1>3. q + k \in Occurrences(t) <=> ((q + k) + L) - 1 <= Len(t) /\ At(t, q + k)
  BY <1>0, OccurrencesAre
<1>4. (q + L) - 1 <= Len(r) <=> ((q + k) + L) - 1 <= Len(t)  BY <1>0, <1>1
<1>5. ASSUME (q + L) - 1 <= Len(r) PROVE At(r, q) <=> At(t, q + k)
  <2>1. ASSUME NEW n \in 1..L PROVE r[(q + n) - 1] = t[((q + k) + n) - 1]
    <3>1. (q + n) - 1 \in 1..(Len(t) - k) /\ k + ((q + n) - 1) = ((q + k) + n) - 1
      BY <1>0, <1>1, <1>5
    <3> QED  BY <3>1, <1>1
  <2> QED  BY <2>1 DEF At
<1> QED  BY <1>2, <1>3, <1>4, <1>5 DEF r

\* Where no sentinel lies across the cut, the rest says what it said before.
LEMMA RestPiece ==
    ASSUME NEW t \in T, NEW k \in 0..Len(t),
           \A p \in Occurrences(t) : p > k \/ (p + L) - 1 <= k,
           NEW n \in 1..(Len(t) - k)
    PROVE  Piece(t, k + n) = Piece(Rest(t, k), n)
<1> DEFINE r == Rest(t, k)
<1>0. Len(t) \in Nat /\ k \in Nat /\ k <= Len(t) /\ L \in Nat /\ 0 < L /\ n \in Nat \ {0}
  BY SentinelIs, OccurrencesAre
<1>1. r \in T /\ Len(r) = Len(t) - k /\ r[n] = t[k + n]  BY RestIs DEF T
<1>2. \A p \in Occurrences(t) : p \in Nat \ {0}  BY OccurrencesAre
<1>3. \A q \in Occurrences(r) : q \in Nat \ {0}  BY <1>1, OccurrencesAre
<1>4. \A q \in Nat \ {0} : q \in Occurrences(r) <=> q + k \in Occurrences(t)  BY RestOccurs
<1> HIDE DEF r
<1>5. ASSUME NEW q \in Occurrences(r) PROVE q + k \in Occurrences(t)  BY <1>3, <1>4
<1>6. ASSUME NEW p \in Occurrences(t), p > k PROVE p - k \in Occurrences(r)
  <2>1. p - k \in Nat \ {0} /\ (p - k) + k = p  BY <1>0, <1>2, <1>6
  <2> QED  BY <2>1, <1>4
<1>7. k + n \in Ends(t) <=> n \in Ends(r)
  <2>1. ASSUME k + n \in Ends(t) PROVE n \in Ends(r)
    <3>1. PICK p \in Occurrences(t) : k + n = p + L - 1  BY <2>1 DEF Ends
    <3>2. p > k  BY <3>1, <1>0, <1>2
    <3>3. n = (p - k) + L - 1  BY <3>1, <1>0, <1>2
    <3> QED  BY <3>2, <3>3, <1>6 DEF Ends
  <2>2. ASSUME n \in Ends(r) PROVE k + n \in Ends(t)
    <3>1. PICK q \in Occurrences(r) : n = q + L - 1  BY <2>2 DEF Ends
    <3>2. k + n = (q + k) + L - 1  BY <3>1, <1>0, <1>3
    <3> QED  BY <3>2, <1>5 DEF Ends
  <2> QED  BY <2>1, <2>2
<1>8. (\E e \in Ends(t) : e - L < k + n /\ k + n <= e)
      <=> (\E e \in Ends(r) : e - L < n /\ n <= e)
  <2>1. ASSUME NEW e \in Ends(t), e - L < k + n, k + n <= e
        PROVE  \E d \in Ends(r) : d - L < n /\ n <= d
    <3>1. PICK p \in Occurrences(t) : e = p + L - 1  BY DEF Ends
    <3>2. p > k  BY <3>1, <2>1, <1>0, <1>2
    <3>3. e - k = (p - k) + L - 1  BY <3>1, <1>0, <1>2
    <3>4. e - k \in Ends(r)  BY <3>2, <3>3, <1>6 DEF Ends
    <3>5. (e - k) - L < n /\ n <= e - k  BY <2>1, <3>1, <1>0, <1>2
    <3> QED  BY <3>4, <3>5
  <2>2. ASSUME NEW d \in Ends(r), d - L < n, n <= d
        PROVE  \E e \in Ends(t) : e - L < k + n /\ k + n <= e
    <3>1. PICK q \in Occurrences(r) : d = q + L - 1  BY DEF Ends
    <3>2. d + k = (q + k) + L - 1  BY <3>1, <1>0, <1>3
    <3>3. d + k \in Ends(t)  BY <3>2, <1>5 DEF Ends
    <3>4. (d + k) - L < k + n /\ k + n <= d + k  BY <2>2, <3>1, <1>0, <1>3
    <3> QED  BY <3>3, <3>4
  <2> QED  BY <2>1, <2>2
<1>9. Piece(t, k + n) = Piece(r, n)  BY <1>1, <1>7, <1>8 DEF Piece
<1> QED  BY <1>9 DEF r

\* What precedes the first sentinel is forwarded.
LEMMA Skip ==
    ASSUME NEW t \in T, NEW k \in 0..Len(t), \A p \in Occurrences(t) : p > k
    PROVE  Uncut(t) = First(t, k) \o Uncut(Rest(t, k))
<1> DEFINE a == First(t, k)  ps == Pieces(t)  b == First(ps, k)
<1>0. Len(t) \in Nat /\ k \in Nat /\ k <= Len(t) /\ L \in Nat /\ 0 < L
  BY SentinelIs, OccurrencesAre
<1>1. Uncut(t) = FlattenSeq(b) \o Uncut(Rest(t, k))
  <2>1. \A n \in 1..(Len(t) - k) : Piece(t, k + n) = Piece(Rest(t, k), n)  BY RestPiece
  <2> QED  BY <2>1, SamePieces
<1>2. a \in T /\ Len(a) = k /\ \A n \in 1..k : a[n] = t[n]  BY FirstIs DEF T
<1>3. ps \in Seq(Said) /\ Len(ps) = Len(t) /\ \A n \in 1..Len(t) : ps[n] = Piece(t, n)
  BY PiecesAre
<1>4. b \in Seq(Said) /\ Len(b) = k /\ \A n \in 1..k : b[n] = ps[n]  BY <1>0, <1>3, FirstIs
<1> HIDE DEF a, ps, b
<1>5. ASSUME NEW n \in 1..k PROVE b[n] = <<a[n]>>
  <2>1. n \in 1..Len(t) /\ n \in Nat  BY <1>0
  <2>2. \A p \in Occurrences(t) : p \in Nat \ {0} /\ p > k  BY OccurrencesAre
  <2>3. \A e \in Ends(t) : e - L >= k /\ e > k
    <3> TAKE e \in Ends(t)
    <3>1. PICK p \in Occurrences(t) : e = p + L - 1  BY DEF Ends
    <3> QED  BY <3>1, <2>2, <1>0
  <2>4. Piece(t, n) = <<t[n]>>
    <3>1. n \notin Ends(t)  BY <2>3, <2>1, <1>0
    <3>2. ~ \E e \in Ends(t) : e - L < n /\ n <= e
      <4> SUFFICES ASSUME NEW e \in Ends(t), e - L < n, n <= e PROVE FALSE  OBVIOUS
      <4>1. e - L >= k /\ n <= k  BY <2>3
      <4>2. e \in Int
        <5>1. PICK p \in Occurrences(t) : e = p + L - 1  BY DEF Ends
        <5> QED  BY <5>1, <2>2, <1>0
      <4> QED  BY <4>1, <4>2, <1>0
    <3> QED  BY <3>1, <3>2 DEF Piece
  <2> QED  BY <2>1, <2>4, <1>2, <1>3, <1>4
<1>6. FlattenSeq(b) = a
  <2>1. a \in Said
    <3>1. Character \subseteq Character \cup {Settled}  OBVIOUS
    <3> QED  BY <3>1, <1>2, SeqMonotonic DEF T, Said
  <2> QED  BY <2>1, <1>2, <1>4, <1>5, FlattenCharacters DEF Said
<1> QED  BY <1>1, <1>6 DEF a, b, ps

\* No sentinel begins inside another.
LEMMA Apart ==
    ASSUME NEW t \in T, 1 \in Occurrences(t), NEW p \in Occurrences(t), p # 1
    PROVE  p > L
<1>0. p \in Nat \ {0} /\ L \in Nat /\ 0 < L /\ At(t, 1) /\ At(t, p)
  BY SentinelIs, OccurrencesAre
<1> SUFFICES ASSUME p <= L PROVE FALSE  BY <1>0
<1> DEFINE m == (L - p) + 1
           a == First(Sentinel, m)
           b == Rest(Sentinel, L - m)
<1>1. m \in 1..(L - 1) /\ m \in 0..L /\ L - m \in 0..L /\ L - m = p - 1  BY <1>0
<1>2. a \in Seq(Character) /\ Len(a) = m /\ \A n \in 1..m : a[n] = Sentinel[n]
  BY <1>1, SentinelIs, FirstIs DEF T, L
<1>3. b \in Seq(Character) /\ Len(b) = L - (L - m)
      /\ \A n \in 1..(L - (L - m)) : b[n] = Sentinel[(L - m) + n]
  BY <1>1, SentinelIs, RestIs DEF T, L
<1> HIDE DEF a, b
<1>4. ASSUME NEW n \in 1..m PROVE a[n] = b[n]
  <2>1. n \in 1..L /\ (p + n) - 1 \in 1..L /\ (L - m) + n = (p + n) - 1
        /\ (1 + ((p + n) - 1)) - 1 = (p + n) - 1 /\ n \in 1..(L - (L - m))
    BY <1>0, <1>1
  <2>2. t[(p + n) - 1] = Sentinel[n]  BY <2>1, <1>0 DEF At
  <2>3. t[(1 + ((p + n) - 1)) - 1] = Sentinel[(p + n) - 1]  BY <2>1, <1>0 DEF At
  <2> QED  BY <2>1, <2>2, <2>3, <1>2, <1>3
<1>5. Len(a) = Len(b)  BY <1>0, <1>1, <1>2, <1>3
<1>6. a = b  BY <1>2, <1>3, <1>4, <1>5, SeqEqual
<1> QED  BY <1>1, <1>6, SentinelAssumption DEF a, b, L

\* A sentinel is taken for a settlement, and nothing of it is forwarded.
LEMMA Hit ==
    ASSUME NEW t \in T, 1 \in Occurrences(t)
    PROVE  L \in 0..Len(t) /\ Uncut(t) = <<Settled>> \o Uncut(Rest(t, L))
<1> DEFINE ps == Pieces(t)  b == First(ps, L)
<1>0. Len(t) \in Nat /\ L \in Nat /\ 0 < L  BY SentinelIs, OccurrencesAre
<1>1. L \in 0..Len(t)
  <2>1. (1 + L) - 1 <= Len(t)  BY OccurrencesAre
  <2> QED  BY <2>1, <1>0
<1>2. \A p \in Occurrences(t) : p \in Nat \ {0} /\ (p = 1 \/ p > L)  BY Apart, OccurrencesAre
<1>3. Uncut(t) = FlattenSeq(b) \o Uncut(Rest(t, L))
  <2>1. \A p \in Occurrences(t) : p > L \/ (p + L) - 1 <= L  BY <1>0, <1>2
  <2>2. \A n \in 1..(Len(t) - L) : Piece(t, L + n) = Piece(Rest(t, L), n)
    BY <1>1, <2>1, RestPiece
  <2> QED  BY <2>2, <1>1, SamePieces
<1>4. ps \in Seq(Said) /\ Len(ps) = Len(t) /\ \A n \in 1..Len(t) : ps[n] = Piece(t, n)
  BY PiecesAre
<1>5. b \in Seq(Said) /\ Len(b) = L /\ \A n \in 1..L : b[n] = ps[n]
  BY <1>1, <1>4, FirstIs
<1> HIDE DEF ps, b
<1>6. L \in Ends(t)
  <2>1. L = 1 + L - 1  BY <1>0
  <2> QED  BY <2>1 DEF Ends
<1>7. b[L] = <<Settled>>
  <2>1. L \in 1..L /\ L \in 1..Len(t)  BY <1>0, <1>1
  <2>2. Piece(t, L) = <<Settled>>  BY <1>6 DEF Piece
  <2> QED  BY <2>1, <2>2, <1>4, <1>5
<1>8. ASSUME NEW n \in 1..(L - 1) PROVE b[n] = <<>>
  <2>1. n \in 1..L /\ n \in 1..Len(t) /\ L - L < n /\ n <= L /\ n < L  BY <1>0, <1>1
  <2>2. n \notin Ends(t)
    <3> SUFFICES ASSUME NEW p \in Occurrences(t), n = p + L - 1 PROVE FALSE  BY DEF Ends
    <3> QED  BY <2>1, <1>0, <1>2
  <2>3. Piece(t, n) = <<>>  BY <2>1, <2>2, <1>6 DEF Piece
  <2> QED  BY <2>1, <2>3, <1>4, <1>5
<1>9. FlattenSeq(b) = <<Settled>>
  <2>1. Len(b) # 0 /\ \A n \in 1..(Len(b) - 1) : b[n] = <<>>  BY <1>0, <1>5, <1>8
  <2>2. FlattenSeq(b) = b[Len(b)]  BY <2>1, <1>5, FlattenLast DEF Said
  <2> QED  BY <2>2, <1>5, <1>7
<1> QED  BY <1>1, <1>3, <1>9 DEF b, ps

-----------------------------------------------------------------------------
(* The loop                                                                *)

LEMMA RoundIs ==
    ASSUME NEW st \in State, Occurrences(st.buffer) # {}
    PROVE  /\ Idx(st) \in Nat /\ Idx(st) + L \in 0..Len(st.buffer)
           /\ Idx(st) + 1 \in Occurrences(st.buffer)
           /\ \A p \in Occurrences(st.buffer) : p > Idx(st)
           /\ Round(st) \in State /\ Len(Round(st).buffer) < Len(st.buffer)
<1> DEFINE t == st.buffer  i == Idx(st)  U == Occurrences(t)
<1>0. t \in T /\ st.forwarded \in Said  BY DEF State
<1>1. Len(t) \in Nat /\ L \in Nat /\ 0 < L  BY <1>0, SentinelIs, OccurrencesAre
<1>2. \A p \in U : p \in Nat \ {0} /\ (p + L) - 1 <= Len(t)  BY <1>0, OccurrencesAre
<1>3. Min(U) \in U /\ \A p \in U : Min(U) <= p
  <2>1. U \in SUBSET Nat /\ U # {}  BY <1>2
  <2> HIDE DEF U
  <2> QED  BY <2>1, MinIs
<1>4. i = Min(U) - 1  BY DEF Idx
<1> HIDE DEF i, U
<1>5. /\ i \in Nat /\ i + L \in 0..Len(t) /\ i \in 0..Len(t)
      /\ i + 1 \in U /\ \A p \in U : p > i
  BY <1>1, <1>2, <1>3, <1>4
<1>6. Rest(t, i + L) \in T /\ Len(Rest(t, i + L)) = Len(t) - (i + L)
  BY <1>0, <1>5, RestIs DEF T
<1>7. First(t, i) \in T  BY <1>0, <1>5, FirstIs DEF T
<1>8. st.forwarded \o First(t, i) \o <<Settled>> \in Said
  <2>1. Character \subseteq Character \cup {Settled}  OBVIOUS
  <2>2. First(t, i) \in Said  BY <1>7, <2>1, SeqMonotonic DEF T, Said
  <2>3. st.forwarded \o First(t, i) \in Said  BY <1>0, <2>2, CatIs DEF Said
  <2>4. <<Settled>> \in Said  BY DEF Said
  <2> QED  BY <2>3, <2>4, CatIs DEF Said
<1>9. Round(st) = [buffer    |-> Rest(t, i + L),
                   forwarded |-> st.forwarded \o First(t, i) \o <<Settled>>]
  BY DEF Round, i, L
<1>10. Round(st) \in State  BY <1>6, <1>8, <1>9 DEF State
<1>11. Len(Round(st).buffer) < Len(t)  BY <1>1, <1>5, <1>6, <1>9
<1> QED  BY <1>5, <1>10, <1>11 DEF i, U

LEMMA DrainedIs ==
    ASSUME NEW st \in State
    PROVE  Drained(st) = IF Occurrences(st.buffer) = {} THEN st ELSE Drained(Round(st))
<1> DEFINE Def(g, s) == IF Occurrences(s.buffer) = {} THEN s ELSE g[Round(s)]
           F == [g \in [State -> State] |-> [s \in State |-> Def(g, s)]]
           rank == [s \in State |-> Len(s.buffer)]
           drain == CHOOSE g : g = [s \in State |-> Def(g, s)]
<1>1. F \in [[State -> State] -> [State -> State]]
  <2>1. ASSUME NEW g \in [State -> State], NEW s \in State PROVE Def(g, s) \in State
    <3>1. CASE Occurrences(s.buffer) = {}  BY <3>1
    <3>2. CASE Occurrences(s.buffer) # {}
      <4>1. Round(s) \in State  BY <3>2, RoundIs
      <4> QED  BY <3>2, <4>1
    <3> QED  BY <3>1, <3>2
  <2> HIDE DEF Def
  <2> QED  BY <2>1
<1>2. rank \in [State -> Nat]
  <2>1. ASSUME NEW s \in State PROVE Len(s.buffer) \in Nat
    <3>1. s.buffer \in T  BY DEF State
    <3> QED  BY <3>1, LenProperties DEF T
  <2> QED  BY <2>1
<1>3. ASSUME NEW g \in [State -> State], NEW h \in [State -> State], NEW s \in State,
             \A r \in State : rank[r] < rank[s] => g[r] = h[r]
      PROVE  F[g][s] = F[h][s]
  <2>1. F[g][s] = Def(g, s) /\ F[h][s] = Def(h, s)  OBVIOUS
  <2>2. CASE Occurrences(s.buffer) = {}  BY <2>1, <2>2
  <2>3. CASE Occurrences(s.buffer) # {}
    <3>1. Round(s) \in State /\ Len(Round(s).buffer) < Len(s.buffer)  BY <2>3, RoundIs
    <3>2. g[Round(s)] = h[Round(s)]  BY <3>1, <1>3
    <3> QED  BY <2>1, <2>3, <3>2
  <2> QED  BY <2>2, <2>3
<1>4. PICK g : g = [s \in State |-> Def(g, s)]
  <2>1. State # {}  BY DEF State
  <2>2. Recursion(F, State, State, rank)  BY <1>1, <1>2, <1>3, <2>1 DEF Recursion
  <2> HIDE DEF F, rank
  <2>3. PICK g : g \in [State -> State] /\ g = F[g]  BY <2>2, RecursionExists
  <2> QED  BY <2>3 DEF F
<1>5. drain = [s \in State |-> Def(drain, s)]
  <2> HIDE DEF Def
  <2> QED  BY <1>4, Zenon
<1>6. \A s : Drained(s) = drain[s]
  BY Zenon DEF Drained, Round, Idx, State, T, Said
<1> HIDE DEF drain
<1>7. drain[st] = Def(drain, st)  BY <1>5, Zenon
<1> QED  BY <1>6, <1>7

LEMMA FirstCat ==
    ASSUME NEW S, NEW a \in Seq(S), NEW b \in Seq(S), NEW n \in 0..Len(a)
    PROVE  First(a \o b, n) = First(a, n)
<1>0. Len(a) \in Nat /\ Len(b) \in Nat  BY LenProperties
<1>1. /\ a \o b \in Seq(S) /\ Len(a \o b) = Len(a) + Len(b)
      /\ \A k \in 1..Len(a) : (a \o b)[k] = a[k]
  BY CatIs
<1>2. n \in 0..Len(a \o b)  BY <1>0, <1>1
<1> DEFINE u == First(a \o b, n)  v == First(a, n)
<1>3. u \in Seq(S) /\ Len(u) = n /\ \A k \in 1..n : u[k] = (a \o b)[k]  BY <1>1, <1>2, FirstIs
<1>4. v \in Seq(S) /\ Len(v) = n /\ \A k \in 1..n : v[k] = a[k]  BY FirstIs
<1> HIDE DEF u, v
<1>5. \A k \in 1..n : u[k] = v[k]  BY <1>0, <1>1, <1>3, <1>4
<1>6. u = v  BY <1>3, <1>4, <1>5, SeqEqual
<1> QED  BY <1>6 DEF u, v

LEMMA RestCat ==
    ASSUME NEW S, NEW a \in Seq(S), NEW b \in Seq(S), NEW n \in 0..Len(a)
    PROVE  Rest(a \o b, n) = Rest(a, n) \o b
<1> DEFINE ab == a \o b  u == Rest(ab, n)  r == Rest(a, n)  v == r \o b
<1>0. Len(a) \in Nat /\ Len(b) \in Nat  BY LenProperties
<1>1. ab \in Seq(S) /\ Len(ab) = Len(a) + Len(b)  BY CatIs
<1>1a. \A k \in 1..Len(b) : ab[Len(a) + k] = b[k]  BY CatIs
<1>1b. \A k \in 1..Len(a) : ab[k] = a[k]  BY CatIs
<1>2. n \in 0..Len(ab)  BY <1>0, <1>1
<1>3. r \in Seq(S) /\ Len(r) = Len(a) - n /\ \A k \in 1..(Len(a) - n) : r[k] = a[n + k]
  BY RestIs
<1> HIDE DEF ab
<1>4. /\ u \in Seq(S) /\ Len(u) = Len(ab) - n
      /\ \A k \in 1..(Len(ab) - n) : u[k] = ab[n + k]
  BY <1>1, <1>2, RestIs
<1> HIDE DEF r
<1>r. r \in Seq(S)  BY <1>3
<1>5. v \in Seq(S) /\ Len(v) = Len(r) + Len(b) /\ \A k \in 1..Len(r) : v[k] = r[k]
  BY <1>r, CatIs
<1>5a. \A k \in 1..Len(b) : v[Len(r) + k] = b[k]  BY <1>r, CatIs
<1> HIDE DEF u, v
<1>6. Len(u) = Len(v)  BY <1>0, <1>1, <1>3, <1>4, <1>5
<1>7. ASSUME NEW k \in 1..Len(u) PROVE u[k] = v[k]
  <2>1. CASE k <= Len(a) - n
    <3>1. k \in 1..Len(r) /\ k \in 1..(Len(a) - n) /\ n + k \in 1..Len(a) /\ k \in 1..(Len(ab) - n)
      BY <2>1, <1>0, <1>1, <1>3, <1>4
    <3> QED  BY <3>1, <1>1b, <1>3, <1>4, <1>5
  <2>2. CASE k > Len(a) - n
    <3> DEFINE j == k - (Len(a) - n)
    <3>1. /\ j \in 1..Len(b) /\ Len(r) + j = k /\ Len(a) + j = n + k
          /\ k \in 1..(Len(ab) - n)
      BY <2>2, <1>0, <1>1, <1>3, <1>4
    <3> HIDE DEF j
    <3>2. u[k] = b[j]  BY <3>1, <1>1a, <1>4
    <3>3. v[k] = b[j]  BY <3>1, <1>5a
    <3> QED  BY <3>2, <3>3
  <2>3. k <= Len(a) - n \/ k > Len(a) - n  BY <1>0
  <2> QED  BY <2>1, <2>2, <2>3
<1>8. u = v  BY <1>4, <1>5, <1>6, <1>7, SeqEqual
<1> QED  BY <1>8 DEF u, v, r, ab

LEMMA RestRest ==
    ASSUME NEW S, NEW t \in Seq(S), NEW i \in Nat, NEW j \in Nat, i + j \in 0..Len(t)
    PROVE  Rest(Rest(t, i), j) = Rest(t, i + j)
<1> DEFINE r == Rest(t, i)  u == Rest(r, j)  v == Rest(t, i + j)
<1>0. Len(t) \in Nat /\ i \in 0..Len(t)
  <2>1. Len(t) \in Nat  BY LenProperties
  <2> QED  BY <2>1
<1>1. r \in Seq(S) /\ Len(r) = Len(t) - i /\ \A k \in 1..(Len(t) - i) : r[k] = t[i + k]
  BY <1>0, RestIs
<1>2. /\ v \in Seq(S) /\ Len(v) = Len(t) - (i + j)
      /\ \A k \in 1..(Len(t) - (i + j)) : v[k] = t[(i + j) + k]
  BY RestIs
<1> HIDE DEF r
<1>3. j \in 0..Len(r)  BY <1>0, <1>1
<1>4. u \in Seq(S) /\ Len(u) = Len(r) - j /\ \A k \in 1..(Len(r) - j) : u[k] = r[j + k]
  BY <1>1, <1>3, RestIs
<1> HIDE DEF u, v
<1>5. Len(u) = Len(v)  BY <1>0, <1>1, <1>2, <1>4
<1>6. ASSUME NEW k \in 1..Len(u) PROVE u[k] = v[k]
  <2>1. /\ k \in 1..(Len(r) - j) /\ j + k \in 1..(Len(t) - i) /\ i + (j + k) = (i + j) + k
        /\ k \in 1..(Len(t) - (i + j))
    BY <1>0, <1>1, <1>2, <1>4
  <2> QED  BY <2>1, <1>1, <1>2, <1>4
<1>7. u = v  BY <1>2, <1>4, <1>5, <1>6, SeqEqual
<1> QED  BY <1>7 DEF u, v, r

\* What follows a text does not change the sentinels in it.
LEMMA OccursBefore ==
    ASSUME NEW t \in T, NEW x \in T, NEW p, (p + L) - 1 <= Len(t)
    PROVE  p \in Occurrences(t \o x) <=> p \in Occurrences(t)
<1>0. Len(t) \in Nat /\ Len(x) \in Nat /\ L \in Nat /\ 0 < L  BY SentinelIs, OccurrencesAre
<1>1. /\ t \o x \in T /\ Len(t \o x) = Len(t) + Len(x)
      /\ \A k \in 1..Len(t) : (t \o x)[k] = t[k]
  BY CatIs DEF T
<1>2. p \in Occurrences(t \o x)
      <=> p \in Nat \ {0} /\ (p + L) - 1 <= Len(t \o x) /\ At(t \o x, p)
  BY <1>1, OccurrencesAre
<1>3. p \in Occurrences(t) <=> p \in Nat \ {0} /\ (p + L) - 1 <= Len(t) /\ At(t, p)
  BY OccurrencesAre
<1>4. ASSUME p \in Nat \ {0} PROVE At(t \o x, p) <=> At(t, p)
  <2>1. ASSUME NEW n \in 1..L PROVE (t \o x)[(p + n) - 1] = t[(p + n) - 1]
    <3>1. (p + n) - 1 \in 1..Len(t)  BY <1>0, <1>4
    <3> QED  BY <3>1, <1>1
  <2> QED  BY <2>1 DEF At
<1>5. p \in Nat \ {0} => (p + L) - 1 <= Len(t \o x)  BY <1>0, <1>1
<1> QED  BY <1>2, <1>3, <1>4, <1>5

\* Two states from which, whatever comes, the same is said.
Same(s, r) ==
    \A x \in T : s.forwarded \o Uncut(s.buffer \o x) = r.forwarded \o Uncut(r.buffer \o x)

LEMMA RoundSame ==
    ASSUME NEW st \in State, Occurrences(st.buffer) # {}
    PROVE  Same(st, Round(st))
<1> DEFINE t == st.buffer  i == Idx(st)  f == st.forwarded
<1>0. t \in T /\ f \in Said /\ Len(t) \in Nat /\ L \in Nat /\ 0 < L
  <2>1. t \in T /\ f \in Said  BY DEF State
  <2> QED  BY <2>1, SentinelIs, OccurrencesAre
<1>1. /\ i \in Nat /\ i + L \in 0..Len(t) /\ i + 1 \in Occurrences(t)
      /\ \A p \in Occurrences(t) : p > i
  BY RoundIs
<1>2. Round(st).buffer = Rest(t, i + L) /\ Round(st).forwarded = f \o First(t, i) \o <<Settled>>
  BY DEF Round, L
<1> HIDE DEF t, i, f
<1>3. ASSUME NEW x \in T
      PROVE  f \o Uncut(t \o x) = (f \o First(t, i) \o <<Settled>>) \o Uncut(Rest(t, i + L) \o x)
  <2> DEFINE u == t \o x  r == Rest(u, i)
  <2>1. u \in T /\ Len(u) = Len(t) + Len(x) /\ Len(x) \in Nat
    BY <1>0, <1>3, CatIs, LenProperties DEF T
  <2>2. i \in 0..Len(u) /\ i \in 0..Len(t) /\ i + L \in 0..Len(u)  BY <1>0, <1>1, <2>1
  <2> HIDE DEF u
  <2>3. i + 1 \in Occurrences(u)
    <3>1. ((i + 1) + L) - 1 <= Len(t)  BY <1>0, <1>1
    <3> QED  BY <3>1, <1>0, <1>1, <1>3, OccursBefore DEF u
  <2>4. \A p \in Occurrences(u) : p > i
    <3> SUFFICES ASSUME NEW p \in Occurrences(u), p <= i PROVE FALSE
      <4>1. \A p \in Occurrences(u) : p \in Nat  BY <2>1, OccurrencesAre
      <4> QED  BY <4>1, <1>1
    <3>1. p \in Nat  BY <2>1, OccurrencesAre
    <3>2. (p + L) - 1 <= Len(t)  BY <3>1, <1>0, <1>1
    <3>3. p \in Occurrences(t)  BY <3>2, <1>0, <1>3, OccursBefore DEF u
    <3> QED  BY <3>1, <3>3, <1>1
  <2>5. Uncut(u) = First(u, i) \o Uncut(r)  BY <2>1, <2>2, <2>4, Skip
  <2>6. r \in T  BY <2>1, <2>2, RestIs DEF T
  <2>7. 1 \in Occurrences(r)
    <3>1. 1 \in Nat \ {0} /\ 1 + i = i + 1  BY <1>1
    <3> QED  BY <3>1, <2>1, <2>2, <2>3, RestOccurs
  <2> HIDE DEF r
  <2>8. Uncut(r) = <<Settled>> \o Uncut(Rest(r, L))  BY <2>6, <2>7, Hit
  <2>9. Rest(r, L) = Rest(u, i + L)  BY <1>0, <1>1, <2>1, <2>2, RestRest DEF r, T
  <2>10. Rest(u, i + L) = Rest(t, i + L) \o x  BY <1>0, <1>1, <1>3, RestCat DEF u, T
  <2>11. First(u, i) = First(t, i)  BY <1>0, <1>3, <2>2, FirstCat DEF u, T
  <2> DEFINE a == First(t, i)  y == Uncut(Rest(t, i + L) \o x)
  <2>12. a \in Said /\ y \in Said /\ <<Settled>> \in Said
    <3>1. a \in T /\ Rest(t, i + L) \in T  BY <1>0, <1>1, <2>2, FirstIs, RestIs DEF T
    <3>2. Rest(t, i + L) \o x \in T  BY <3>1, <1>3, CatIs DEF T
    <3>3. Character \subseteq Character \cup {Settled}  OBVIOUS
    <3>4. a \in Said  BY <3>1, <3>3, SeqMonotonic DEF T, Said
    <3> QED  BY <3>2, <3>4, UncutType DEF Said
  <2>13. Uncut(u) = a \o (<<Settled>> \o y)  BY <2>5, <2>8, <2>9, <2>10, <2>11
  <2> HIDE DEF a, y
  <2>14. f \o (a \o (<<Settled>> \o y)) = ((f \o a) \o <<Settled>>) \o y
    <3> DEFINE m == <<Settled>>  z == m \o y  g == f \o a
    <3>1. z \in Said /\ g \in Said /\ m \in Said  BY <1>0, <2>12, CatIs DEF Said
    <3>2. f \in Said /\ a \in Said /\ y \in Said  BY <1>0, <2>12
    <3>3. Assoc(f, a, z) /\ Assoc(g, m, y)
      <4> HIDE DEF z, g, m
      <4> QED  BY <3>1, <3>2, SaidTwice, Zenon
    <3> HIDE DEF m
    <3>4. (f \o a) \o (m \o y) = f \o (a \o (m \o y))  BY <3>3, Zenon DEF Assoc
    <3>5. ((f \o a) \o m) \o y = (f \o a) \o (m \o y)  BY <3>3, Zenon DEF Assoc
    <3>6. f \o (a \o (m \o y)) = ((f \o a) \o m) \o y  BY <3>4, <3>5, Zenon
    <3> QED  BY <3>6 DEF m
  <2> QED  BY <2>13, <2>14 DEF u, a, y
<1> QED  BY <1>2, <1>3 DEF Same, t, i, f

LEMMA SameTwice ==
    ASSUME NEW s, NEW r, NEW q, Same(s, r), Same(r, q) PROVE Same(s, q)
BY DEF Same

\* The loop ends without a sentinel left, and whatever comes, the same is said.
LEMMA DrainedOK ==
    ASSUME NEW st \in State
    PROVE  /\ Drained(st) \in State /\ Occurrences(Drained(st).buffer) = {}
           /\ Same(st, Drained(st))
<1> DEFINE Good(s) == /\ Drained(s) \in State /\ Occurrences(Drained(s).buffer) = {}
                      /\ Same(s, Drained(s))
           bad == {n \in Nat : \E s \in State : n = Len(s.buffer) /\ ~Good(s)}
<1>0. \A s \in State : Len(s.buffer) \in Nat
  <2> TAKE s \in State
  <2>1. s.buffer \in T  BY DEF State
  <2> QED  BY <2>1, LenProperties DEF T
<1> SUFFICES ASSUME bad # {} PROVE FALSE  BY <1>0
<1>1. PICK m \in bad : \A n \in bad : m <= n
  <2>1. bad \in SUBSET Nat  OBVIOUS
  <2> HIDE DEF bad
  <2> QED  BY <2>1, Least
<1>2. PICK s \in State : m = Len(s.buffer) /\ ~Good(s)  BY <1>1
<1>3. CASE Occurrences(s.buffer) = {}
  <2>1. Drained(s) = s  BY <1>3, DrainedIs
  <2>2. Same(s, s)  BY DEF Same
  <2> QED  BY <1>2, <1>3, <2>1, <2>2
<1>4. CASE Occurrences(s.buffer) # {}
  <2>1. Drained(s) = Drained(Round(s))  BY <1>4, DrainedIs
  <2>2. Round(s) \in State /\ Len(Round(s).buffer) < Len(s.buffer)  BY <1>4, RoundIs
  <2>3. Good(Round(s))
    <3> SUFFICES ASSUME ~Good(Round(s)) PROVE FALSE  OBVIOUS
    <3>1. Len(Round(s).buffer) \in bad  BY <1>0, <2>2
    <3>2. m <= Len(Round(s).buffer)  BY <3>1, <1>1
    <3>3. Len(Round(s).buffer) \in Nat /\ Len(s.buffer) \in Nat  BY <2>2, <1>0
    <3> QED  BY <3>2, <3>3, <2>2, <1>2
  <2>4. Same(s, Round(s))  BY <1>4, RoundSame
  <2>5. Same(s, Drained(s))  BY <2>1, <2>3, <2>4, SameTwice
  <2> QED  BY <1>2, <2>1, <2>3, <2>5
<1> QED  BY <1>3, <1>4

-----------------------------------------------------------------------------
(* What is held back                                                       *)

\* The suffixes of a text that a sentinel may begin with.
Beginnings(t) ==
    {n \in 0..(Len(Sentinel) - 1) : n <= Len(t) /\ Rest(t, Len(t) - n) = First(Sentinel, n)}

LEMMA HeldBackIs ==
    ASSUME NEW t \in T
    PROVE  HeldBack(t) \in Beginnings(t) /\ \A n \in Beginnings(t) : n <= HeldBack(t)
<1>0. Len(t) \in Nat /\ L \in Nat /\ 0 < L  BY SentinelIs, OccurrencesAre
<1> DEFINE U == Beginnings(t)
<1>1. U \in SUBSET Nat /\ \A n \in U : n <= L  BY <1>0 DEF Beginnings, L
<1>2. 0 \in U
  <2>1. Rest(t, Len(t) - 0) \in T /\ Len(Rest(t, Len(t) - 0)) = 0
    <3>1. Len(t) - 0 \in 0..Len(t) /\ Len(t) - (Len(t) - 0) = 0  BY <1>0
    <3> QED  BY <3>1, RestIs DEF T
  <2>2. First(Sentinel, 0) \in T /\ Len(First(Sentinel, 0)) = 0
    <3>1. 0 \in 0..L  BY <1>0
    <3> QED  BY <3>1, SentinelIs, FirstIs DEF T, L
  <2>3. Rest(t, Len(t) - 0) = First(Sentinel, 0)  BY <2>1, <2>2, EmptySeq DEF T
  <2> QED  BY <1>0, <2>3 DEF Beginnings, L
<1> HIDE DEF U
<1>3. Max(U) \in U /\ \A n \in U : n <= Max(U)
  <2>1. U # {}  BY <1>2
  <2> QED  BY <1>0, <1>1, <2>1, MaxIs
<1>4. HeldBack(t) = Max(U)  BY DEF HeldBack, PartialSentinelSuffixLength, U, Beginnings
<1> QED  BY <1>3, <1>4 DEF U

\* A sentinel that what is yet to come completes, begins in what is held back.
LEMMA NothingBeforeHeldBack ==
    ASSUME NEW t \in T, Occurrences(t) = {}, NEW x \in T, NEW p \in Occurrences(t \o x)
    PROVE  p > Len(t) - HeldBack(t)
<1> DEFINE h == HeldBack(t)  n == Len(t) - (p - 1)
<1>0. Len(t) \in Nat /\ Len(x) \in Nat /\ L \in Nat /\ 0 < L  BY SentinelIs, OccurrencesAre
<1>1. /\ t \o x \in T /\ Len(t \o x) = Len(t) + Len(x)
      /\ \A k \in 1..Len(t) : (t \o x)[k] = t[k]
  BY CatIs DEF T
<1>2. p \in Nat \ {0} /\ (p + L) - 1 <= Len(t \o x) /\ At(t \o x, p)  BY <1>1, OccurrencesAre
<1>3. h \in Nat /\ \A k \in Beginnings(t) : k <= h
  <2>1. Beginnings(t) \subseteq Nat  BY <1>0 DEF Beginnings, L
  <2> QED  BY <2>1, HeldBackIs
<1> HIDE DEF h
<1> SUFFICES ASSUME p <= Len(t) - h PROVE FALSE  BY <1>0, <1>2, <1>3 DEF h
<1>4. (p + L) - 1 > Len(t)
  <2> SUFFICES ASSUME (p + L) - 1 <= Len(t) PROVE FALSE  BY <1>0, <1>2
  <2> QED  BY OccursBefore
<1>5. n \in 1..(L - 1) /\ n <= Len(t) /\ n \in 0..L /\ Len(t) - n = p - 1
      /\ Len(t) - n \in 0..Len(t) /\ n > h
  BY <1>0, <1>2, <1>3, <1>4
<1> HIDE DEF n
<1>6. Rest(t, Len(t) - n) = First(Sentinel, n)
  <2> DEFINE a == Rest(t, Len(t) - n)  b == First(Sentinel, n)
  <2>1. a \in Seq(Character) /\ Len(a) = Len(t) - (Len(t) - n)
        /\ \A k \in 1..(Len(t) - (Len(t) - n)) : a[k] = t[(Len(t) - n) + k]
    BY <1>5, RestIs DEF T
  <2>2. b \in Seq(Character) /\ Len(b) = n /\ \A k \in 1..n : b[k] = Sentinel[k]
    BY <1>5, SentinelIs, FirstIs DEF T, L
  <2> HIDE DEF a, b
  <2>3. Len(a) = Len(b)  BY <1>0, <1>5, <2>1, <2>2
  <2>4. ASSUME NEW k \in 1..Len(a) PROVE a[k] = b[k]
    <3>0. n \in Int /\ p \in Int /\ n = Len(t) - (p - 1) /\ k \in 1..n
      BY <1>0, <1>2, <1>5, <2>2, <2>3
    <3>1. /\ k \in 1..L /\ k \in 1..n /\ k \in 1..(Len(t) - (Len(t) - n))
          /\ (Len(t) - n) + k = (p + k) - 1 /\ (p + k) - 1 \in 1..Len(t)
      BY <1>0, <1>2, <1>5, <3>0
    <3>2. (t \o x)[(p + k) - 1] = Sentinel[k]  BY <3>1, <1>2 DEF At
    <3> QED  BY <3>1, <3>2, <1>1, <2>1, <2>2
  <2>5. a = b  BY <2>1, <2>2, <2>3, <2>4, SeqEqual
  <2> QED  BY <2>5 DEF a, b
<1>7. n \in Beginnings(t)  BY <1>0, <1>5, <1>6 DEF Beginnings, L
<1> QED  BY <1>3, <1>5, <1>7

\* What is not held back is forwarded.
Flushed(st) ==
    LET flush == Len(st.buffer) - HeldBack(st.buffer)
    IN [buffer    |-> Rest(st.buffer, flush),
        forwarded |-> st.forwarded \o First(st.buffer, flush)]

\* What a chunk may leave waiting: the beginning of a sentinel.
Waiting(t) == Len(t) < L /\ t = First(Sentinel, Len(t))

LEMMA FlushSame ==
    ASSUME NEW st \in State, Occurrences(st.buffer) = {}
    PROVE  Flushed(st) \in State /\ Waiting(Flushed(st).buffer) /\ Same(st, Flushed(st))
<1> DEFINE t == st.buffer  f == st.forwarded  h == HeldBack(t)  k == Len(t) - h
           a == First(t, k)  b == Rest(t, k)
<1>0. t \in T /\ f \in Said /\ Len(t) \in Nat /\ L \in Nat /\ 0 < L
  <2>1. t \in T /\ f \in Said  BY DEF State
  <2> QED  BY <2>1, SentinelIs, OccurrencesAre
<1>1. h \in 0..(L - 1) /\ h <= Len(t) /\ Rest(t, Len(t) - h) = First(Sentinel, h)
  BY <1>0, HeldBackIs DEF Beginnings, L
<1>2. ASSUME NEW x \in T, NEW p \in Occurrences(t \o x) PROVE p > Len(t) - h
  BY <1>0, <1>2, NothingBeforeHeldBack
<1>3. Flushed(st) = [buffer |-> b, forwarded |-> f \o a]  BY DEF Flushed
<1> HIDE DEF t, f, h
<1>4. k \in 0..Len(t) /\ Len(t) - k = h  BY <1>0, <1>1
<1>5. a \in T /\ b \in T /\ Len(b) = h  BY <1>0, <1>4, FirstIs, RestIs DEF T
<1>6. b = First(Sentinel, h)  BY <1>1
<1>7. a \in Said /\ f \o a \in Said
  <2>1. Character \subseteq Character \cup {Settled}  OBVIOUS
  <2>2. a \in Said  BY <1>5, <2>1, SeqMonotonic DEF T, Said
  <2> QED  BY <2>2, <1>0, CatIs DEF Said
<1>8. ASSUME NEW x \in T PROVE f \o Uncut(t \o x) = (f \o a) \o Uncut(b \o x)
  <2> DEFINE u == t \o x
  <2>1. u \in T /\ Len(u) = Len(t) + Len(x) /\ Len(x) \in Nat
    BY <1>0, <1>8, CatIs, LenProperties DEF T
  <2>2. \A p \in Occurrences(u) : p > k  BY <1>2, <1>8
  <2>3. k \in 0..Len(u)  BY <1>0, <1>4, <2>1
  <2> HIDE DEF u, k
  <2>4. Uncut(u) = First(u, k) \o Uncut(Rest(u, k))  BY <2>1, <2>2, <2>3, Skip
  <2>5. First(u, k) = a  BY <1>0, <1>4, <1>8, FirstCat DEF u, T
  <2>6. Rest(u, k) = b \o x  BY <1>0, <1>4, <1>8, RestCat DEF u, T
  <2> HIDE DEF a, b
  <2>7. b \o x \in T  BY <1>5, <1>8, CatIs DEF T
  <2>8. Uncut(b \o x) \in Said  BY <2>7, UncutType
  <2>9. Assoc(f, a, Uncut(b \o x))  BY <2>8, <1>0, <1>7, SaidTwice, Zenon
  <2>10. (f \o a) \o Uncut(b \o x) = f \o (a \o Uncut(b \o x))  BY <2>9, Zenon DEF Assoc
  <2> QED  BY <2>4, <2>5, <2>6, <2>10 DEF u
<1> HIDE DEF a, b
<1>9. Flushed(st) \in State  BY <1>3, <1>5, <1>7 DEF State
<1>10. Waiting(Flushed(st).buffer)  BY <1>0, <1>1, <1>3, <1>5, <1>6 DEF Waiting
<1>11. Same(st, Flushed(st))
  <2>1. Flushed(st).buffer = b /\ Flushed(st).forwarded = f \o a  BY <1>3
  <2> HIDE DEF k
  <2> QED  BY <2>1, <1>8 DEF Same, t, f
<1> QED  BY <1>9, <1>10, <1>11

-----------------------------------------------------------------------------
(* The handler, and all chunks in their order                              *)

\* What a chunk adds to what was seen.
Part(text) == IF text = ContinuationPrompt THEN <<>> ELSE text

LEMMA Handles ==
    ASSUME NEW st \in State, NEW text \in T
    PROVE  /\ HandleOutput(st, text) \in State /\ Part(text) \in T
           /\ Waiting(st.buffer) => Waiting(HandleOutput(st, text).buffer)
           /\ \A x \in T : st.forwarded \o Uncut(st.buffer \o (Part(text) \o x))
                           = HandleOutput(st, text).forwarded
                                 \o Uncut(HandleOutput(st, text).buffer \o x)
<1>1. CASE text = ContinuationPrompt
  <2>1. HandleOutput(st, text) = st /\ Part(text) = <<>> /\ <<>> \in T
    BY <1>1 DEF HandleOutput, Part, T
  <2>2. \A x \in T : <<>> \o x = x  BY ConcatEmptySeq DEF T
  <2> QED  BY <2>1, <2>2
<1>2. CASE text # ContinuationPrompt
  <2> DEFINE s == [st EXCEPT !.buffer = @ \o text]  d == Drained(s)
  <2>0. st.buffer \in T /\ st.forwarded \in Said  BY DEF State
  <2>1. s \in State /\ s.buffer = st.buffer \o text /\ s.forwarded = st.forwarded
    <3>1. st.buffer \o text \in T  BY <2>0, CatIs DEF T
    <3>2. s.buffer = st.buffer \o text /\ s.forwarded = st.forwarded  BY DEF State
    <3>3. s \in State  BY <3>1, <2>0 DEF State
    <3> QED  BY <3>2, <3>3
  <2> HIDE DEF s
  <2>2. d \in State /\ Occurrences(d.buffer) = {} /\ Same(s, d)  BY <2>1, DrainedOK
  <2>3. HandleOutput(st, text) = Flushed(d)  BY <1>2 DEF HandleOutput, Flushed, s
  <2> HIDE DEF d
  <2>4. Flushed(d) \in State /\ Waiting(Flushed(d).buffer) /\ Same(d, Flushed(d))
    BY <2>2, FlushSame
  <2>5. Same(s, Flushed(d))  BY <2>2, <2>4, SameTwice
  <2>6. ASSUME NEW x \in T
        PROVE  st.forwarded \o Uncut(st.buffer \o (text \o x))
               = Flushed(d).forwarded \o Uncut(Flushed(d).buffer \o x)
    <3>1. st.buffer \o (text \o x) = s.buffer \o x  
      <4>0. Assoc(st.buffer, text, x)  BY <2>0, <2>6, TextTwice, Zenon
      <4>1. st.buffer \o (text \o x) = (st.buffer \o text) \o x  BY <4>0, Zenon DEF Assoc
      <4> QED  BY <4>1, <2>1
    <3> QED  BY <3>1, <2>1, <2>5 DEF Same
  <2>7. Part(text) = text  BY <1>2 DEF Part
  <2> QED  BY <2>3, <2>4, <2>6, <2>7
<1> QED  BY <1>1, <1>2

Start == [buffer |-> <<>>, forwarded |-> <<>>]

LEMMA UpTo ==
    ASSUME NEW N \in Nat, NEW W \in SUBSET (1..N), W # {}
    PROVE  /\ Max(W) \in W /\ W \ {Max(W)} \in SUBSET (1..N)
           /\ Cardinality(W) \in Nat /\ Cardinality(W \ {Max(W)}) \in Nat
           /\ Cardinality(W \ {Max(W)}) < Cardinality(W)
<1>1. W \in SUBSET Nat /\ \A n \in W : n <= N  OBVIOUS
<1>2. Max(W) \in W  BY <1>1, MaxIs
<1>3. IsFiniteSet(W)
  <2>1. IsFiniteSet(1..N)  BY FS_Interval
  <2> QED  BY <2>1, FS_Subset
<1>4. /\ Cardinality(W) \in Nat /\ IsFiniteSet(W \ {Max(W)})
      /\ Cardinality(W \ {Max(W)}) = Cardinality(W) - 1
      /\ Cardinality(W) - 1 < Cardinality(W)
  BY <1>2, <1>3, FS_RemoveElement, FS_CardinalityType
<1>5. Cardinality(W \ {Max(W)}) \in Nat  BY <1>4, FS_CardinalityType
<1> QED  BY <1>2, <1>4, <1>5

\* The states between the chunks.
Steps(f, chunks) ==
    f[0] = Start /\ \A n \in 1..Len(chunks) : f[n] = HandleOutput(f[n - 1], chunks[n])

LEMMA HandledIs ==
    ASSUME NEW chunks \in Seq(T)
    PROVE  \E f \in [0..Len(chunks) -> State] : Steps(f, chunks) /\ Handled(chunks) = f[Len(chunks)]
<1> DEFINE N == Len(chunks)
           D == SUBSET (1..N)
           Def(g, s) == IF s = {} THEN Start
                        ELSE HandleOutput(g[s \ {Max(s)}], chunks[Max(s)])
           F == [g \in [D -> State] |-> [s \in D |-> Def(g, s)]]
           rank == [s \in D |-> Cardinality(s)]
           iter == CHOOSE g : g = [s \in D |-> Def(g, s)]
<1>0. N \in Nat /\ DOMAIN chunks = 1..N /\ \A n \in 1..N : chunks[n] \in T
  BY LenProperties, ElementOfSeq
<1>s. Start \in State  BY DEF Start, State, T, Said
<1> HIDE DEF N
<1>1. F \in [[D -> State] -> [D -> State]]
  <2>1. ASSUME NEW g \in [D -> State], NEW s \in D PROVE Def(g, s) \in State
    <3>1. CASE s = {}  BY <3>1, <1>s
    <3>2. CASE s # {}
      <4>1. Max(s) \in s /\ s \ {Max(s)} \in D  BY <3>2, <1>0, UpTo
      <4>2. g[s \ {Max(s)}] \in State /\ chunks[Max(s)] \in T  BY <4>1, <1>0
      <4>3. HandleOutput(g[s \ {Max(s)}], chunks[Max(s)]) \in State  BY <4>2, Handles
      <4> QED  BY <3>2, <4>3
    <3> QED  BY <3>1, <3>2
  <2> HIDE DEF Def, D
  <2> QED  BY <2>1
<1>2. rank \in [D -> Nat]
  <2>1. ASSUME NEW s \in D PROVE Cardinality(s) \in Nat
    <3>1. IsFiniteSet(1..N)  BY <1>0, FS_Interval
    <3> QED  BY <3>1, FS_Subset, FS_CardinalityType
  <2> QED  BY <2>1
<1>3. ASSUME NEW g \in [D -> State], NEW h \in [D -> State], NEW s \in D,
             \A r \in D : rank[r] < rank[s] => g[r] = h[r]
      PROVE  F[g][s] = F[h][s]
  <2>1. F[g][s] = Def(g, s) /\ F[h][s] = Def(h, s)  OBVIOUS
  <2>2. CASE s = {}  BY <2>1, <2>2
  <2>3. CASE s # {}
    <3>1. s \ {Max(s)} \in D /\ Cardinality(s \ {Max(s)}) < Cardinality(s)
      BY <2>3, <1>0, UpTo
    <3>2. g[s \ {Max(s)}] = h[s \ {Max(s)}]  BY <3>1, <1>3
    <3> QED  BY <2>1, <2>3, <3>2
  <2> QED  BY <2>2, <2>3
<1>4. PICK g : g = [s \in D |-> Def(g, s)]
  <2>1. State # {}  BY <1>s
  <2>2. Recursion(F, D, State, rank)  BY <1>1, <1>2, <1>3, <2>1 DEF Recursion
  <2> HIDE DEF F, rank, D
  <2>3. PICK g : g \in [D -> State] /\ g = F[g]  BY <2>2, RecursionExists
  <2> QED  BY <2>3 DEF F
<1>5. iter = [s \in D |-> Def(iter, s)]
  <2> HIDE DEF Def, D
  <2> QED  BY <1>4, Zenon
<1>6. Handled(chunks) = iter[1..N]
  <2>1. Handled(chunks)
        = MapThenFoldSet(LAMBDA x, y : HandleOutput(y, x), Start, LAMBDA i : chunks[i],
                         LAMBDA s : Max(s), 1..N)
    BY <1>0, Zenon DEF Handled, FoldLeft, Start
  <2> QED  BY <2>1, Zenon DEF MapThenFoldSet
<1> HIDE DEF iter
<1>7. \A s \in D : iter[s] = Def(iter, s)  BY <1>5, Zenon
<1>8. 1..0 = {} /\ iter[1..0] = Start
  <2>1. 1..0 = {}  OBVIOUS
  <2> QED  BY <2>1, <1>7
<1>9. ASSUME NEW n \in 1..N PROVE iter[1..n] = HandleOutput(iter[1..(n - 1)], chunks[n])
  <2> DEFINE s == 1..n
  <2>1. s \in D /\ s # {}  BY <1>0
  <2>2. Max(s) = n
    <3>1. s \in SUBSET Nat /\ \A k \in s : k <= n  BY <1>0
    <3>2. n \in Nat /\ n \in s  BY <1>0
    <3> HIDE DEF s
    <3>3. Max(s) \in s /\ n <= Max(s)  BY <3>1, <3>2, <2>1, MaxIs
    <3>4. Max(s) \in Nat /\ Max(s) <= n  BY <3>1, <3>3
    <3> QED  BY <3>2, <3>3, <3>4
  <2>3. s \ {n} = 1..(n - 1)  BY <1>0
  <2> HIDE DEF s, D
  <2>4. iter[s] = HandleOutput(iter[s \ {Max(s)}], chunks[Max(s)])  BY <2>1, <1>7
  <2> QED  BY <2>2, <2>3, <2>4 DEF s
<1>10. \A n \in Nat : n <= N => iter[1..n] \in State
  <2> DEFINE U == {n \in Nat : n <= N => iter[1..n] \in State}
  <2>1. 0 \in U  BY <1>8, <1>s
  <2>2. ASSUME NEW n \in Nat, n \in U PROVE n + 1 \in U
    <3> SUFFICES ASSUME n + 1 <= N PROVE iter[1..(n + 1)] \in State  OBVIOUS
    <3>1. n + 1 \in 1..N /\ (n + 1) - 1 = n /\ n <= N  BY <1>0
    <3>2. iter[1..n] \in State /\ chunks[n + 1] \in T  BY <3>1, <2>2, <1>0
    <3>3. iter[1..(n + 1)] = HandleOutput(iter[1..n], chunks[n + 1])
      <4>1. iter[1..(n + 1)] = HandleOutput(iter[1..((n + 1) - 1)], chunks[n + 1])
        BY <3>1, <1>9
      <4> QED  BY <4>1, <3>1
    <3> QED  BY <3>2, <3>3, Handles
  <2> HIDE DEF U
  <2>3. Nat \subseteq U  BY <2>1, <2>2, Induction
  <2> QED  BY <2>3 DEF U
<1> DEFINE f == [n \in 0..N |-> iter[1..n]]
<1>11. f \in [0..N -> State]  BY <1>0, <1>10
<1>12. f[0] = Start /\ f[N] = Handled(chunks)  BY <1>0, <1>6, <1>8
<1>13. ASSUME NEW n \in 1..N PROVE f[n] = HandleOutput(f[n - 1], chunks[n])
  <2>1. n \in 0..N /\ n - 1 \in 0..N  BY <1>0
  <2>2. f[n] = iter[1..n] /\ f[n - 1] = iter[1..(n - 1)]  BY <2>1
  <2> HIDE DEF f
  <2> QED  BY <2>2, <1>9
<1> HIDE DEF f
<1>14. Steps(f, chunks)  BY <1>12, <1>13 DEF Steps, N
<1> QED  BY <1>11, <1>12, <1>14 DEF N

-----------------------------------------------------------------------------
(* What is forwarded is what the whole says                                *)

LEMMA UncutEmpty == Uncut(<<>>) = <<>>
<1>1. <<>> \in T /\ Len(<<>>) = 0  BY EmptySeq DEF T
<1>2. Pieces(<<>>) \in Seq(Said) /\ Len(Pieces(<<>>)) = 0  BY <1>1, PiecesAre
<1>3. Pieces(<<>>) = <<>>  BY <1>2, EmptySeq
<1>4. FlattenSeq(<<>>) = <<>>
  <2>1. <<>> \in Seq(Said) /\ Len(<<>>) = 0  BY <1>2, <1>3
  <2>2. PICK f \in [0..Len(<<>>) -> Said] : Adds(f, <<>>) /\ FlattenSeq(<<>>) = f[Len(<<>>)]
    BY <2>1, Flattened DEF Said
  <2> QED  BY <2>1, <2>2 DEF Adds
<1> QED  BY <1>3, <1>4, UncutIs

\* What may yet become a sentinel is not one yet.
LEMMA UncutWaiting ==
    ASSUME NEW t \in T, Waiting(t) PROVE Uncut(t) = t
<1>1. Len(t) \in Nat /\ L \in Nat /\ 0 < L /\ Len(t) < L
  BY SentinelIs, OccurrencesAre DEF Waiting
<1>2. \A p \in Occurrences(t) : p > Len(t)
  <2> SUFFICES ASSUME NEW p \in Occurrences(t) PROVE FALSE  OBVIOUS
  <2>1. p \in Nat \ {0} /\ (p + L) - 1 <= Len(t)  BY OccurrencesAre
  <2> QED  BY <2>1, <1>1
<1>3. Len(t) \in 0..Len(t)  BY <1>1
<1> DEFINE a == First(t, Len(t))  b == Rest(t, Len(t))
<1>4. Uncut(t) = a \o Uncut(b)  BY <1>2, <1>3, Skip
<1>5. b \in T /\ Len(b) = 0  BY <1>1, <1>3, RestIs DEF T
<1>6. a \o b = t /\ a \in T  BY <1>3, FirstAndRest, FirstIs DEF T
<1> HIDE DEF a, b
<1>7. b = <<>>  BY <1>5, EmptySeq DEF T
<1>8. Uncut(b) = b  BY <1>7, UncutEmpty
<1> QED  BY <1>4, <1>6, <1>8

\* Whatever is yet to come, what is forwarded and what is kept waiting say with it
\* what all that was seen says with it.
Keeps(st, seen) ==
    \A x \in T : st.forwarded \o Uncut(st.buffer \o x) = Uncut(seen \o x)

\* However node:repl's output is cut into chunks, every prompt settles, no part of one
\* is forwarded, and nothing else is held back or lost: for every sequence of chunks
\* of any length (122-168).
THEOREM CutsNeverShow ==
    ASSUME NEW chunks \in Seq(Seq(Character)) PROVE SaysTheWhole(chunks)
<1> DEFINE N == Len(chunks)
           ps == [n \in 1..N |-> Part(chunks[n])]
<1>0. N \in Nat /\ chunks \in Seq(T) /\ \A n \in 1..N : chunks[n] \in T
  BY LenProperties, ElementOfSeq DEF T
<1>1. PICK f \in [0..N -> State] : Steps(f, chunks) /\ Handled(chunks) = f[N]
  BY <1>0, HandledIs
<1>p. ps \in Seq(T) /\ Len(ps) = N /\ \A n \in 1..N : ps[n] = Part(chunks[n])
  <2>1. \A n \in 1..N : Part(chunks[n]) \in T
    <3> TAKE n \in 1..N
    <3>1. chunks[n] \in T /\ Start \in State  BY <1>0 DEF Start, State, T, Said
    <3> QED  BY <3>1, Handles
  <2> HIDE DEF N
  <2> QED  BY <2>1, <1>0
<1>2. PICK s \in [0..N -> T] : Adds(s, ps) /\ FlattenSeq(ps) = s[N]
  BY <1>p, Flattened DEF T
<1>3. Seen(chunks) = s[N]  BY <1>2 DEF Seen, Part
<1> HIDE DEF N, ps
<1>4. \A n \in Nat : n <= N => Waiting(f[n].buffer) /\ Keeps(f[n], s[n])
  <2> DEFINE U == {n \in Nat : n <= N => Waiting(f[n].buffer) /\ Keeps(f[n], s[n])}
  <2>1. 0 \in U
    <3>1. f[0] = Start /\ s[0] = <<>>  BY <1>1, <1>2 DEF Steps, Adds
    <3>2. Waiting(<<>>)
      <4>1. <<>> \in T /\ Len(<<>>) = 0 /\ 0 \in 0..L /\ 0 < L  BY SentinelIs, EmptySeq DEF T
      <4>2. First(Sentinel, 0) \in T /\ Len(First(Sentinel, 0)) = 0
        BY <4>1, SentinelIs, FirstIs DEF T, L
      <4>3. First(Sentinel, 0) = <<>>  BY <4>2, EmptySeq DEF T
      <4> QED  BY <4>1, <4>3 DEF Waiting
    <3>3. Keeps(Start, <<>>)
      <4> SUFFICES ASSUME NEW x \in T PROVE <<>> \o Uncut(<<>> \o x) = Uncut(<<>> \o x)
        BY DEF Keeps, Start
      <4>1. <<>> \o x \in T
        <5>1. <<>> \in T  BY DEF T
        <5> QED  BY <5>1, CatIs DEF T
      <4>2. Uncut(<<>> \o x) \in Said  BY <4>1, UncutType
      <4> QED  BY <4>2, ConcatEmptySeq DEF Said
    <3>4. Start.buffer = <<>>  BY DEF Start
    <3> QED  BY <3>1, <3>2, <3>3, <3>4
  <2>2. ASSUME NEW n \in Nat, n \in U PROVE n + 1 \in U
    <3> SUFFICES ASSUME n + 1 <= N
                 PROVE  Waiting(f[n + 1].buffer) /\ Keeps(f[n + 1], s[n + 1])
      OBVIOUS
    <3> DEFINE c == chunks[n + 1]  g == HandleOutput(f[n], c)
    <3>1. n \in 0..N /\ n + 1 \in 1..N /\ (n + 1) - 1 = n  BY <1>0
    <3>2. Waiting(f[n].buffer) /\ Keeps(f[n], s[n])  BY <2>2, <3>1
    <3>3. f[n] \in State /\ c \in T /\ s[n] \in T  BY <1>0, <1>1, <1>2, <3>1
    <3>4. f[n + 1] = g
      <4>1. f[n + 1] = HandleOutput(f[(n + 1) - 1], chunks[n + 1])
        BY <1>1, <3>1 DEF Steps, N
      <4> QED  BY <4>1, <3>1
    <3>5. s[n + 1] = s[n] \o Part(c)
      <4>1. s[n + 1] = s[(n + 1) - 1] \o ps[n + 1]  BY <1>2, <1>p, <3>1 DEF Adds
      <4> QED  BY <4>1, <3>1, <1>p
    <3>6. /\ g \in State /\ Part(c) \in T /\ Waiting(g.buffer)
          /\ \A x \in T : f[n].forwarded \o Uncut(f[n].buffer \o (Part(c) \o x))
                          = g.forwarded \o Uncut(g.buffer \o x)
      BY <3>2, <3>3, Handles
    <3> HIDE DEF c, g
    <3>7. ASSUME NEW x \in T
          PROVE  g.forwarded \o Uncut(g.buffer \o x) = Uncut((s[n] \o Part(c)) \o x)
      <4>1. Part(c) \o x \in T  BY <3>6, <3>7, CatIs DEF T
      <4>2. f[n].forwarded \o Uncut(f[n].buffer \o (Part(c) \o x)) = Uncut(s[n] \o (Part(c) \o x))
        BY <4>1, <3>2 DEF Keeps
      <4>0. Assoc(s[n], Part(c), x)  BY <3>3, <3>6, <3>7, TextTwice, Zenon
      <4>3. (s[n] \o Part(c)) \o x = s[n] \o (Part(c) \o x)  BY <4>0, Zenon DEF Assoc
      <4> QED  BY <4>2, <4>3, <3>6, <3>7
    <3>8. Keeps(f[n + 1], s[n + 1])  BY <3>4, <3>5, <3>7 DEF Keeps
    <3> QED  BY <3>4, <3>6, <3>8
  <2> HIDE DEF U
  <2>3. Nat \subseteq U  BY <2>1, <2>2, Induction
  <2> QED  BY <2>3 DEF U
<1> DEFINE st == f[N]
<1>5. Waiting(st.buffer) /\ Keeps(st, s[N])  BY <1>0, <1>4
<1>6. st \in State /\ st.buffer \in T /\ s[N] \in T
  <2>1. N \in 0..N  BY <1>0
  <2>2. st \in State /\ s[N] \in T  BY <2>1, <1>1, <1>2
  <2> QED  BY <2>2 DEF State
<1> HIDE DEF st
<1>7. st.forwarded \o st.buffer = Uncut(s[N])
  <2>1. <<>> \in T /\ \A t \in T : t \o <<>> = t  BY ConcatEmptySeq DEF T
  <2>2. st.forwarded \o Uncut(st.buffer \o <<>>) = Uncut(s[N] \o <<>>)  BY <2>1, <1>5 DEF Keeps
  <2>3. st.forwarded \o Uncut(st.buffer) = Uncut(s[N])  BY <2>1, <2>2, <1>6
  <2> QED  BY <2>3, <1>5, <1>6, UncutWaiting
<1>8. Len(st.buffer) < Len(Sentinel) /\ st.buffer = First(Sentinel, Len(st.buffer))
  BY <1>5 DEF Waiting, L
<1> QED  BY <1>1, <1>3, <1>7, <1>8 DEF SaysTheWhole, st

-----------------------------------------------------------------------------
(* The outputs that TLC tries                                              *)

LEMMA OneMoreIs ==
    ASSUME NEW cuts \in SUBSET Seq(T), NEW k \in Nat
    PROVE  OneMore(cuts, k) \in SUBSET Seq(T)
<1>1. ASSUME NEW before \in cuts, NEW chunk \in [1..k -> Character]
      PROVE  Append(before, chunk) \in Seq(T)
  <2>1. before \in Seq(T)  OBVIOUS
  <2>2. chunk \in T  BY DEF T
  <2> QED  BY <2>1, <2>2, AppendProperties
<1>2. ASSUME NEW c \in OneMore(cuts, k) PROVE c \in Seq(T)
  <2>1. PICK before \in cuts, chunk \in [1..k -> Character] : c = Append(before, chunk)
    BY <1>2 DEF OneMore
  <2> QED  BY <2>1, <1>1
<1> QED  BY <1>2

LEMMA OutputsAre == Outputs(MaxOutput) \subseteq Seq(T)
<1> DEFINE D == 0..MaxOutput
           V == SUBSET Seq(T)
           More(g, n) == UNION {OneMore(g[n - k], k) : k \in 1..n}
           Def(g, n) == IF n = 0 THEN {<<>>} ELSE More(g, n)
           F == [g \in [D -> V] |-> [n \in D |-> Def(g, n)]]
           rank == [n \in D |-> n]
           cut == CHOOSE g : g = [n \in D |-> Def(g, n)]
<1>0. MaxOutput \in Nat /\ {<<>>} \in V
  <2>1. <<>> \in Seq(T)  BY EmptySeq
  <2> QED  BY <2>1, OutputAssumption
<1>m. ASSUME NEW g, NEW n \in D, \A k \in 1..n : g[n - k] \in V PROVE More(g, n) \in V
  <2>1. ASSUME NEW k \in 1..n PROVE OneMore(g[n - k], k) \in V
    <3>1. k \in Nat  BY <1>0
    <3>2. g[n - k] \in V  BY <1>m
    <3> QED  BY <3>1, <3>2, OneMoreIs
  <2> QED  BY <2>1
<1>e. ASSUME NEW g, NEW h, NEW n, \A k \in 1..n : g[n - k] = h[n - k]
      PROVE  More(g, n) = More(h, n)
  <2>1. ASSUME NEW k \in 1..n PROVE OneMore(g[n - k], k) = OneMore(h[n - k], k)
    <3>1. g[n - k] = h[n - k]  BY <1>e
    <3> QED  BY <3>1
  <2> QED  BY <2>1
<1>d. \A n \in D : n \in Nat /\ \A k \in 1..n : n - k \in D /\ n - k < n
  BY <1>0
<1> HIDE DEF More, V, D
<1>1. F \in [[D -> V] -> [D -> V]]
  <2>1. ASSUME NEW g \in [D -> V], NEW n \in D PROVE Def(g, n) \in V
    <3>1. \A k \in 1..n : g[n - k] \in V  BY <1>d
    <3>2. More(g, n) \in V  BY <3>1, <1>m
    <3> QED  BY <3>2, <1>0
  <2> HIDE DEF Def
  <2> QED  BY <2>1
<1>2. rank \in [D -> Nat]  BY <1>d
<1>3. ASSUME NEW g \in [D -> V], NEW h \in [D -> V], NEW n \in D,
             \A m \in D : rank[m] < rank[n] => g[m] = h[m]
      PROVE  F[g][n] = F[h][n]
  <2>1. F[g][n] = Def(g, n) /\ F[h][n] = Def(h, n)  OBVIOUS
  <2>2. \A k \in 1..n : g[n - k] = h[n - k]
    <3> TAKE k \in 1..n
    <3>1. n - k \in D /\ n - k < n  BY <1>d
    <3> QED  BY <3>1, <1>3
  <2>3. More(g, n) = More(h, n)  BY <2>2, <1>e
  <2> QED  BY <2>1, <2>3
<1>4. PICK g : g = [n \in D |-> Def(g, n)]
  <2>1. V # {}  BY <1>0
  <2>2. Recursion(F, D, V, rank)
    <3> HIDE DEF F, rank
    <3> QED  BY <1>1, <1>2, <1>3, <2>1 DEF Recursion
  <2> HIDE DEF F, rank
  <2>3. PICK g : g \in [D -> V] /\ g = F[g]  BY <2>2, RecursionExists
  <2> QED  BY <2>3 DEF F
<1>5. cut = [n \in D |-> Def(cut, n)]
  <2> HIDE DEF Def
  <2> QED  BY <1>4, Zenon
<1>6. Outputs(MaxOutput) = UNION {cut[n] : n \in D}  BY Zenon DEF Outputs, More, D
<1> HIDE DEF cut
<1>7. \A n \in D : cut[n] = Def(cut, n)
  <2> HIDE DEF Def
  <2> QED  BY <1>5, Zenon
<1> DEFINE bad == {n \in D : cut[n] \notin V}
<1>8. bad = {}
  <2> SUFFICES ASSUME bad # {} PROVE FALSE  OBVIOUS
  <2>1. PICK m \in bad : \A n \in bad : m <= n
    <3>1. bad \in SUBSET Nat  BY <1>d
    <3> HIDE DEF bad
    <3> QED  BY <3>1, Least
  <2>2. m \in D /\ m \in Nat /\ cut[m] \notin V  BY <1>d, <2>1
  <2>3. ASSUME NEW k \in 1..m PROVE cut[m - k] \in V
    <3>1. m - k \in D /\ m - k < m /\ m - k \in Nat  BY <1>d, <2>2
    <3> SUFFICES ASSUME cut[m - k] \notin V PROVE FALSE  OBVIOUS
    <3>2. m - k \in bad  BY <3>1
    <3>3. m <= m - k  BY <3>2, <2>1
    <3> QED  BY <3>1, <3>3, <2>2
  <2>4. More(cut, m) \in V  BY <2>2, <2>3, <1>m
  <2>5. cut[m] = Def(cut, m)  BY <1>7, <2>2
  <2> QED  BY <1>0, <2>2, <2>4, <2>5
<1>9. \A n \in D : cut[n] \in SUBSET Seq(T)  BY <1>8 DEF V
<1> QED  BY <1>6, <1>9

\* So it is for the outputs of every length that TLC tries, whatever the bound.
THEOREM OutputsAreNotCut == CutsDoNotShow
BY OutputsAre, CutsNeverShow DEF CutsDoNotShow, T

=============================================================================
