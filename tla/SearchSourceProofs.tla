-------------------------- MODULE SearchSourceProofs --------------------------
(***************************************************************************)
(* Theorems about SearchSource, for any packages, masks, objects and calls: *)
(* every invariant that the run checks, and the order of the answer.       *)
(*                                                                         *)
(* The lemmas come first: on sequences put together and put in order, on   *)
(* the hits of an object, and on the steps.  The rest follows from IInv.   *)
(***************************************************************************)
EXTENDS SearchSource, FiniteSetTheorems, SequenceTheorems, TLAPS

-----------------------------------------------------------------------------
(* Sequences put together, and sequences put in order.                     *)

\* Induction over the naturals, for a set: if a number were missing, adding 1
\* would map the members up to it one to one to themselves but not onto 0.
LEMMA NatInd ==
  ASSUME NEW S, 0 \in S, \A x \in Nat : x \in S => x + 1 \in S
  PROVE  Nat \subseteq S
<1> SUFFICES ASSUME NEW gap \in Nat, gap \notin S PROVE FALSE
  OBVIOUS
<1> DEFINE T == {x \in 0..gap : x \in S}
<1> DEFINE f == [x \in T |-> x + 1]
<1>1. f \in [T -> T]
  OBVIOUS
<1>2. IsInjective(f)
  BY DEF IsInjective
<1>3. IsFiniteSet(T)
  <2>1. IsFiniteSet(0..gap)
    BY FS_Interval
  <2>2. T \in SUBSET (0..gap)
    OBVIOUS
  <2> HIDE DEF T
  <2> QED BY <2>1, <2>2, FS_Subset
<1>4. f \in Surjection(T, T)
  <2> HIDE DEF T, f
  <2> QED BY <1>1, <1>2, <1>3, FS_Injection DEF Injection
<1>5. 0 \in T
  OBVIOUS
<1>6. \E x \in T : f[x] = 0
  <2> HIDE DEF T, f
  <2> QED BY <1>4, <1>5 DEF Surjection
<1> QED BY <1>6

Cat(a, b) == a \o b

\* Two sequences put together, one of which may be empty.
LEMMA CatType ==
  ASSUME NEW H, NEW a \in Seq(H), NEW b \in Seq(H)
  PROVE  Cat(a, b) \in Seq(H) /\ Cat(<< >>, b) = b
BY ConcatProperties, ConcatEmptySeq DEF Cat

\* f holds the concatenations of the first sequences of s.
Concatenates(f, s, n, H) ==
  /\ f \in [0..n -> Seq(H)]
  /\ f[0] = << >>
  /\ \A i \in 1..n : f[i] = Cat(f[i - 1], s[i])

\* Sequences have concatenations of all lengths.
LEMMA Concatenations ==
  ASSUME NEW H, NEW n \in Nat, NEW s \in [1..n -> Seq(H)]
  PROVE  \E f : Concatenates(f, s, n, H)
<1> DEFINE S == {m \in Nat : m <= n => \E f : Concatenates(f, s, m, H)}
<1>1. 0 \in S
  <2> DEFINE f == [i \in 0..0 |-> << >>]
  <2>1. Concatenates(f, s, 0, H)
    BY EmptySeq DEF Concatenates
  <2> QED BY <2>1
<1>2. ASSUME NEW m \in Nat, m + 1 <= n, \E f : Concatenates(f, s, m, H)
      PROVE  \E f : Concatenates(f, s, m + 1, H)
  <2>1. PICK f : Concatenates(f, s, m, H)
    BY <1>2
  <2>2. f[m] \in Seq(H) /\ s[m + 1] \in Seq(H)
    BY <2>1, <1>2 DEF Concatenates
  <2>3. Cat(f[m], s[m + 1]) \in Seq(H)
    BY <2>2, CatType
  <2> DEFINE g == [i \in 0..(m + 1) |-> IF i <= m THEN f[i] ELSE Cat(f[m], s[m + 1])]
  <2>4. g \in [0..(m + 1) -> Seq(H)] /\ g[0] = << >>
    BY <2>1, <2>3 DEF Concatenates
  <2>5. \A i \in 1..m : g[i] = Cat(g[i - 1], s[i])
    BY <2>1 DEF Concatenates
  <2>6. g[m + 1] = Cat(g[m], s[m + 1])
    OBVIOUS
  <2>7. Concatenates(g, s, m + 1, H)
    <3> HIDE DEF g
    <3>1. ASSUME NEW i \in 1..(m + 1) PROVE g[i] = Cat(g[i - 1], s[i])
      <4>1. CASE i <= m
        BY <4>1, <2>5
      <4>2. CASE i = m + 1
        BY <4>2, <2>6
      <4> QED BY <4>1, <4>2
    <3> QED BY <2>4, <3>1 DEF Concatenates
  <2> QED BY <2>7
<1>3. ASSUME NEW m \in Nat, m \in S PROVE m + 1 \in S
  BY <1>2, <1>3
<1>4. Nat \subseteq S
  <2> HIDE DEF S
  <2> QED BY <1>1, <1>3, NatInd
<1> QED BY <1>4

\* What FlattenSeq computes.
LEMMA Flattened ==
  ASSUME NEW H, NEW n \in Nat, NEW s \in [1..n -> Seq(H)],
         NEW f, Concatenates(f, s, n, H)
  PROVE  FlattenSeq(s) = f[n]
<1>1. s \in Seq(Seq(H)) /\ Len(s) = n
  OBVIOUS
<1>2. CASE n = 0
  BY <1>1, <1>2, EmptySeq DEF FlattenSeq, Concatenates
<1>3. CASE n > 0
  <2> DEFINE Is(g) == g = [i \in 1..n |-> IF i = 1 THEN s[i] ELSE Cat(g[i - 1], s[i])]
  <2> DEFINE g == CHOOSE h : Is(h)
  <2>1. FlattenSeq(s) = g[n]
    <3>1. Len(s) # 0
      BY <1>1, <1>3
    <3>2. FlattenSeq(s) =
            (CHOOSE h : h = [i \in 1..Len(s) |->
                               IF i = 1 THEN s[i] ELSE Cat(h[i - 1], s[i])])[Len(s)]
      BY <3>1, Zenon DEF FlattenSeq, Cat
    <3> QED BY <3>2, <1>1
  <2>2. Is([i \in 1..n |-> f[i]])
    <3> DEFINE k == [i \in 1..n |-> f[i]]
    <3>1. k[1] = s[1]
      BY <1>3, CatType DEF Concatenates
    <3>2. \A i \in 1..n : i # 1 => k[i] = Cat(k[i - 1], s[i])
      BY DEF Concatenates
    <3>3. k = [i \in 1..n |-> k[i]]
      OBVIOUS
    <3>4. Is(k)
      <4> HIDE DEF k
      <4> QED BY <3>1, <3>2, <3>3
    <3> QED BY <3>4
  <2>3. Is(g)
    <3> HIDE DEF Is
    <3> QED BY <2>2
  <2> HIDE DEF g
  <2> DEFINE S == {i \in Nat : i \in 1..n => g[i] = f[i]}
  <2>4. 0 \in S
    OBVIOUS
  <2>5. ASSUME NEW i \in Nat, i \in S, i + 1 \in 1..n PROVE g[i + 1] = f[i + 1]
    <3>1. g[i + 1] = IF i + 1 = 1 THEN s[i + 1] ELSE Cat(g[i], s[i + 1])
      BY <2>3, <2>5
    <3>2. f[i + 1] = Cat(f[i], s[i + 1]) /\ f[0] = << >>
      BY <2>5 DEF Concatenates
    <3>3. s[i + 1] \in Seq(H)
      BY <2>5
    <3> QED BY <3>1, <3>2, <3>3, <2>5, CatType
  <2>6. Nat \subseteq S
    <3>1. \A i \in Nat : i \in S => i + 1 \in S
      BY <2>5
    <3> HIDE DEF S
    <3> QED BY <2>4, <3>1, NatInd
  <2> QED BY <2>1, <2>6, <1>3
<1> QED BY <1>2, <1>3

\* Flattening one more sequence.
LEMMA FlattenOneMore ==
  ASSUME NEW H, NEW n \in Nat \ {0}, NEW s \in [1..n -> Seq(H)],
         NEW t \in [1..(n - 1) -> Seq(H)], \A i \in 1..(n - 1) : t[i] = s[i]
  PROVE  /\ FlattenSeq(t) \in Seq(H)
         /\ FlattenSeq(s) = FlattenSeq(t) \o s[n]
<1>1. PICK f : Concatenates(f, s, n, H)
  BY Concatenations
<1>2. FlattenSeq(s) = f[n]
  BY <1>1, Flattened
<1> DEFINE g == [i \in 0..(n - 1) |-> f[i]]
<1>3. Concatenates(g, t, n - 1, H)
  <2>1. g \in [0..(n - 1) -> Seq(H)] /\ g[0] = << >>
    BY <1>1 DEF Concatenates
  <2>2. \A i \in 1..(n - 1) : g[i] = Cat(g[i - 1], t[i])
    BY <1>1 DEF Concatenates
  <2> HIDE DEF g
  <2> QED BY <2>1, <2>2 DEF Concatenates
<1>4. FlattenSeq(t) = g[n - 1]
  <2>1. n - 1 \in Nat
    OBVIOUS
  <2> HIDE DEF g
  <2> QED BY <2>1, <1>3, Flattened
<1>5. f[n] = Cat(f[n - 1], s[n]) /\ f[n - 1] \in Seq(H)
  BY <1>1 DEF Concatenates
<1>6. g[n - 1] = f[n - 1]
  OBVIOUS
<1> HIDE DEF g
<1> QED BY <1>2, <1>4, <1>5, <1>6 DEF Cat

\* A strict order on the places of a sequence in which "neither is less" is
\* transitive, and what comes up to a place in it, equal ones in their order.
IsOrder(L, n) ==
  /\ \A i, j \in 1..n : <<i, j>> \in L => <<j, i>> \notin L
  /\ \A i, j, k \in 1..n : <<i, j>> \in L => <<i, k>> \in L \/ <<k, j>> \in L

UpTo(L, n, i) == {j \in 1..n : <<j, i>> \in L \/ (<<i, j>> \notin L /\ j <= i)}

Rank(L, n) == [i \in 1..n |-> Cardinality(UpTo(L, n, i))]

\* Every place from 1 to n is the rank of one entry.
LEMMA Ranking ==
  ASSUME NEW n \in Nat, NEW L, IsOrder(L, n)
  PROVE  /\ Rank(L, n) \in [1..n -> 1..n]
         /\ \A k \in 1..n : \E i \in 1..n : Rank(L, n)[i] = k
         /\ \A i, j \in 1..n : Rank(L, n)[i] = Rank(L, n)[j] => i = j
<1> DEFINE U(i) == UpTo(L, n, i)
           R == Rank(L, n)
<1>0. IsFiniteSet(1..n) /\ Cardinality(1..n) = n
  BY FS_Interval
<1>1. ASSUME NEW i \in 1..n
      PROVE  IsFiniteSet(U(i)) /\ R[i] = Cardinality(U(i)) /\ R[i] \in 1..n
  <2>1. i \in U(i) /\ U(i) \in SUBSET (1..n)
    BY DEF UpTo, IsOrder
  <2>2. R[i] = Cardinality(U(i))
    BY DEF Rank
  <2> HIDE DEF U, R
  <2>3. IsFiniteSet(U(i)) /\ Cardinality(U(i)) <= n
    BY <1>0, <2>1, FS_Subset
  <2>4. Cardinality(U(i)) \in Nat /\ Cardinality(U(i)) # 0
    BY <2>1, <2>3, FS_CardinalityType, FS_EmptySet
  <2> QED BY <2>2, <2>3, <2>4
<1>2. ASSUME NEW i \in 1..n, NEW j \in 1..n, i # j, j \in U(i)
      PROVE  R[j] < R[i]
  <2>1. U(j) \in SUBSET U(i)
    BY <1>2 DEF UpTo, IsOrder
  <2>2. i \in U(i) /\ i \notin U(j)
    BY <1>2 DEF UpTo, IsOrder
  <2>3. IsFiniteSet(U(i)) /\ R[i] = Cardinality(U(i)) /\ R[i] \in Nat
    BY <1>1
  <2>4. R[j] = Cardinality(U(j)) /\ R[j] \in Nat
    BY <1>1
  <2> HIDE DEF U, R
  <2>5. Cardinality(U(j)) <= Cardinality(U(i)) /\ Cardinality(U(j)) # Cardinality(U(i))
    BY <2>1, <2>2, <2>3, FS_Subset
  <2> QED BY <2>3, <2>4, <2>5
<1>3. ASSUME NEW i \in 1..n, NEW j \in 1..n, R[i] = R[j] PROVE i = j
  <2>1. i = j \/ i \in U(j) \/ j \in U(i)
    BY DEF UpTo, IsOrder
  <2>2. R[i] \in 1..n /\ R[j] \in 1..n
    BY <1>1
  <2> HIDE DEF U, R
  <2> QED BY <1>2, <1>3, <2>1, <2>2
<1>4. R \in [1..n -> 1..n]
  <2>1. R = [i \in 1..n |-> Cardinality(U(i))]
    BY DEF Rank
  <2> HIDE DEF U, R
  <2> QED BY <2>1, <1>1
<1>5. R \in Surjection(1..n, 1..n)
  <2> HIDE DEF R
  <2>1. R \in Injection(1..n, 1..n)
    BY <1>3, <1>4 DEF Injection, IsInjective
  <2> QED BY <2>1, <1>0, FS_Injection
<1> QED BY <1>3, <1>4, <1>5 DEF Surjection

\* The entries of s, each moved from place p[k] to place k.
Moves(s, t, p, r, n, S) ==
  /\ n \in Nat /\ s \in [1..n -> S] /\ t \in [1..n -> S]
  /\ p \in [1..n -> 1..n] /\ r \in [1..n -> 1..n]
  /\ \A k \in 1..n : t[k] = s[p[k]]
  /\ \A k \in 1..n : r[p[k]] = k /\ p[r[k]] = k

\* Entries that are moved stay the same entries.
LEMMA Permuted ==
  ASSUME NEW S, NEW n, NEW s, NEW t, NEW p, NEW r, Moves(s, t, p, r, n, S)
  PROVE  /\ ToSet(t) = ToSet(s)
         /\ IsInjective(s) => IsInjective(t)
<1> USE DEF Moves
<1>1. ASSUME NEW k \in 1..n PROVE \E i \in 1..n : t[k] = s[i]
  <2>1. p[k] \in 1..n
    OBVIOUS
  <2> QED BY <2>1
<1>2. ASSUME NEW k \in 1..n PROVE \E i \in 1..n : s[k] = t[i]
  <2>1. r[k] \in 1..n /\ p[r[k]] = k
    OBVIOUS
  <2>2. t[r[k]] = s[p[r[k]]]
    BY <2>1
  <2> QED BY <2>1, <2>2
<1>3. ToSet(t) = ToSet(s)
  <2>1. DOMAIN s = 1..n /\ DOMAIN t = 1..n
    OBVIOUS
  <2>2. ToSet(s) = {s[k] : k \in 1..n} /\ ToSet(t) = {t[k] : k \in 1..n}
    BY <2>1 DEF ToSet
  <2> QED BY <2>2, <1>1, <1>2
<1>4. ASSUME IsInjective(s), NEW j \in 1..n, NEW k \in 1..n, t[j] = t[k]
      PROVE  j = k
  <2>1. s[p[j]] = s[p[k]] /\ p[j] \in 1..n /\ p[k] \in 1..n
    BY <1>4
  <2>2. p[j] = p[k]
    BY <2>1, <1>4 DEF IsInjective
  <2>3. r[p[j]] = j /\ r[p[k]] = k
    OBVIOUS
  <2> QED BY <2>2, <2>3
<1>5. IsInjective(s) => IsInjective(t)
  BY <1>4 DEF IsInjective
<1> QED BY <1>3, <1>5

\* No entry of t comes after one that is less.
InOrder(t, s, L, n) ==
  \E p \in [1..n -> 1..n] :
    /\ \A k \in 1..n : t[k] = s[p[k]]
    /\ \A j, k \in 1..n : j < k => <<p[k], p[j]>> \notin L

\* t is s in the order L.
Arranges(t, s, L, n, S) ==
  /\ n \in Nat /\ s \in [1..n -> S] /\ IsOrder(L, n)
  /\ t = [k \in 1..n |-> s[CHOOSE i \in 1..n : Rank(L, n)[i] = k]]

\* A sequence put in order: the same entries, each as often as before.
LEMMA Arranged ==
  ASSUME NEW S, NEW n, NEW s, NEW L, NEW t, Arranges(t, s, L, n, S)
  PROVE  /\ t \in [1..n -> S]
         /\ ToSet(t) = ToSet(s)
         /\ IsInjective(s) => IsInjective(t)
         /\ InOrder(t, s, L, n)
<1>0. n \in Nat /\ s \in [1..n -> S] /\ IsOrder(L, n)
  BY DEF Arranges
<1> USE <1>0
<1> DEFINE R == Rank(L, n)
           p == [k \in 1..n |-> CHOOSE i \in 1..n : R[i] = k]
<1>1. /\ R \in [1..n -> 1..n]
      /\ \A k \in 1..n : \E i \in 1..n : R[i] = k
      /\ \A i, j \in 1..n : R[i] = R[j] => i = j
  BY Ranking
<1>2. \A i \in 1..n : R[i] = Cardinality(UpTo(L, n, i))
  BY DEF Rank
<1> HIDE DEF R
<1>3. \A k \in 1..n : p[k] \in 1..n /\ R[p[k]] = k
  BY <1>1
<1>4. p \in [1..n -> 1..n]
  <2>1. p = [k \in 1..n |-> p[k]]
    OBVIOUS
  <2> HIDE DEF p
  <2> QED BY <1>3, <2>1
<1> HIDE DEF p
<1>5. t = [k \in 1..n |-> s[p[k]]]
  BY DEF R, p, Arranges
<1>6. ASSUME NEW i \in 1..n PROVE p[R[i]] = i
  <2>1. R[i] \in 1..n
    BY <1>1
  <2>2. p[R[i]] \in 1..n /\ R[p[R[i]]] = R[i]
    BY <2>1, <1>3
  <2> QED BY <2>2, <1>1
<1>7. t \in [1..n -> S] /\ \A k \in 1..n : t[k] = s[p[k]]
  BY <1>4, <1>5
<1>8. ToSet(t) = ToSet(s) /\ (IsInjective(s) => IsInjective(t))
  <2>1. \A k \in 1..n : R[p[k]] = k /\ p[R[k]] = k
    BY <1>3, <1>6
  <2>2. R \in [1..n -> 1..n]
    BY <1>1
  <2>3. t \in [1..n -> S]
    BY <1>7
  <2>4. \A k \in 1..n : t[k] = s[p[k]]
    BY <1>7
  <2>5. Moves(s, t, p, R, n, S)
    BY <2>1, <2>2, <2>3, <2>4, <1>4 DEF Moves
  <2> QED BY <2>5, Permuted
<1>9. ASSUME NEW j \in 1..n, NEW k \in 1..n, j < k
      PROVE  <<p[k], p[j]>> \notin L
  <2> SUFFICES ASSUME <<p[k], p[j]>> \in L PROVE FALSE
    OBVIOUS
  <2>1. p[j] \in 1..n /\ p[k] \in 1..n /\ R[p[j]] = j /\ R[p[k]] = k
    BY <1>3
  <2>2. UpTo(L, n, p[k]) \in SUBSET UpTo(L, n, p[j])
    BY <2>1 DEF UpTo, IsOrder
  <2>3. Cardinality(UpTo(L, n, p[j])) = j /\ Cardinality(UpTo(L, n, p[k])) = k
    BY <2>1, <1>2
  <2>4. IsFiniteSet(UpTo(L, n, p[j]))
    <3>1. IsFiniteSet(1..n) /\ UpTo(L, n, p[j]) \in SUBSET (1..n)
      BY FS_Interval DEF UpTo
    <3> QED BY <3>1, FS_Subset
  <2>5. k <= j
    BY <2>2, <2>3, <2>4, FS_Subset
  <2> QED BY <2>5, <1>9
<1> QED BY <1>4, <1>7, <1>8, <1>9 DEF InOrder

\* What the two sorts of the code compare.
LEMMA EarlierIs ==
  ASSUME NEW o, NEW q
  PROVE  Earlier(o, q) <=>
           \/ o[1] < q[1]
           \/ o[1] = q[1] /\ o[2] < q[2]
           \/ o[1] = q[1] /\ o[2] = q[2] /\ o[3] < q[3]
BY DEF Earlier

\* The places of two hits are compared one after the other.
LEMMA BeforeIs ==
  ASSUME NEW g, NEW h
  PROVE  Before(g, h) <=>
           \/ Place(g)[1] < Place(h)[1]
           \/ Place(g)[1] = Place(h)[1] /\ Place(g)[2] < Place(h)[2]
           \/ Place(g)[1] = Place(h)[1] /\ Place(g)[2] = Place(h)[2] /\ Place(g)[3] < Place(h)[3]
           \/ Place(g)[1] = Place(h)[1] /\ Place(g)[2] = Place(h)[2] /\ Place(g)[3] = Place(h)[3]
              /\ Place(g)[4] < Place(h)[4]
BY DEF Before

\* Earlier orders the objects.
LEMMA EarlierOrders ==
  ASSUME NEW o \in Objects, NEW p \in Objects, NEW q \in Objects
  PROVE  /\ Earlier(o, p) => ~ Earlier(p, o)
         /\ Earlier(o, p) => Earlier(o, q) \/ Earlier(q, p)
<1>1. /\ o[1] \in Nat /\ o[2] \in Nat /\ o[3] \in Nat
      /\ p[1] \in Nat /\ p[2] \in Nat /\ p[3] \in Nat
      /\ q[1] \in Nat /\ q[2] \in Nat /\ q[3] \in Nat
  BY ConstantsAssumption
<1>2. Earlier(o, p) <=>
           \/ o[1] < p[1]
           \/ o[1] = p[1] /\ o[2] < p[2]
           \/ o[1] = p[1] /\ o[2] = p[2] /\ o[3] < p[3]
  BY EarlierIs
<1>3. Earlier(p, o) <=>
           \/ p[1] < o[1]
           \/ p[1] = o[1] /\ p[2] < o[2]
           \/ p[1] = o[1] /\ p[2] = o[2] /\ p[3] < o[3]
  BY EarlierIs
<1>4. Earlier(o, q) <=>
           \/ o[1] < q[1]
           \/ o[1] = q[1] /\ o[2] < q[2]
           \/ o[1] = q[1] /\ o[2] = q[2] /\ o[3] < q[3]
  BY EarlierIs
<1>5. Earlier(q, p) <=>
           \/ q[1] < p[1]
           \/ q[1] = p[1] /\ q[2] < p[2]
           \/ q[1] = p[1] /\ q[2] = p[2] /\ q[3] < p[3]
  BY EarlierIs
<1> QED BY <1>1, <1>2, <1>3, <1>4, <1>5

\* The objects in order.
LEMMA SortedObjects ==
  ASSUME NEW n \in Nat, NEW s \in [1..n -> Objects]
  PROVE  LET t == Sorted(s, Earlier) IN
         /\ t \in [1..n -> Objects]
         /\ ToSet(t) = ToSet(s)
         /\ IsInjective(s) => IsInjective(t)
         /\ \A j, k \in 1..n : j < k => ~ Earlier(t[k], t[j])
<1> DEFINE L == {pair \in (1..n) \X (1..n) : Earlier(s[pair[1]], s[pair[2]])}
           t == Sorted(s, Earlier)
           u == [k \in 1..n |-> s[CHOOSE i \in 1..n : Rank(L, n)[i] = k]]
           place == [i \in DOMAIN s |-> Cardinality(
                  {j \in DOMAIN s :
                     Earlier(s[j], s[i]) \/ (~ Earlier(s[i], s[j]) /\ j <= i)})]
<1>1. DOMAIN s = 1..n /\ Len(s) = n
  OBVIOUS
<1>2. \A i, j \in 1..n : <<i, j>> \in L <=> Earlier(s[i], s[j])
  OBVIOUS
<1> HIDE DEF L
<1>3. \A i \in 1..n : s[i] \in Objects
  OBVIOUS
<1>4. IsOrder(L, n)
  BY <1>2, <1>3, EarlierOrders DEF IsOrder
<1>5. place = Rank(L, n)
  <2>1. ASSUME NEW i \in 1..n
        PROVE UpTo(L, n, i) = {j \in 1..n :
                Earlier(s[j], s[i]) \/ (~ Earlier(s[i], s[j]) /\ j <= i)}
    BY <1>2 DEF UpTo
  <2> QED BY <2>1, <1>1 DEF Rank
<1>6. t = u
  <2>1. t = [k \in 1..Len(s) |-> s[CHOOSE i \in DOMAIN s : place[i] = k]]
    BY Zenon DEF Sorted
  <2> HIDE DEF place, t
  <2> QED BY <2>1, <1>1, <1>5
<1>7. Arranges(u, s, L, n, Objects)
  BY <1>4 DEF Arranges
<1> HIDE DEF t, u
<1>8. /\ u \in [1..n -> Objects]
      /\ ToSet(u) = ToSet(s)
      /\ IsInjective(s) => IsInjective(u)
      /\ InOrder(u, s, L, n)
  BY <1>7, Arranged
<1>9. \A j, k \in 1..n : j < k => ~ Earlier(u[k], u[j])
  BY <1>8, <1>2 DEF InOrder
<1> QED BY <1>6, <1>8, <1>9 DEF t

Hits ==
  {h \in [object : Objects, unit : Nat, line : Nat] : h.unit \in DOMAIN Units[h.object]}

\* Before orders the hits, though not all of them: a class and a program may
\* have hits in lines of the same number.
LEMMA BeforeOrders ==
  ASSUME NEW f \in Hits, NEW g \in Hits, NEW h \in Hits
  PROVE  /\ Before(f, g) => ~ Before(g, f)
         /\ Before(f, g) => Before(f, h) \/ Before(h, g)
<1>1. ASSUME NEW x \in Hits
      PROVE  Place(x)[1] \in Nat /\ Place(x)[2] \in Nat /\ Place(x)[3] \in Nat /\ Place(x)[4] \in Nat
  <2>1. x.object \in Objects /\ x.unit \in DOMAIN Units[x.object] /\ x.line \in Nat
    BY DEF Hits
  <2>2. x.object[1] \in Nat /\ x.object[3] \in Nat
    BY <2>1, ConstantsAssumption
  <2>3. Units[x.object] \in Seq([include : Nat, matches : Nat])
    BY <2>1, ConstantsAssumption
  <2>4. Units[x.object][x.unit] \in [include : Nat, matches : Nat]
    BY <2>1, <2>3, ElementOfSeq, LenProperties
  <2>5. Units[x.object][x.unit].include \in Nat
    BY <2>4
  <2> QED BY <2>1, <2>2, <2>5 DEF Place
<1> DEFINE a == Place(f)
           b == Place(g)
           c == Place(h)
<1>2. /\ a[1] \in Nat /\ a[2] \in Nat /\ a[3] \in Nat /\ a[4] \in Nat
      /\ b[1] \in Nat /\ b[2] \in Nat /\ b[3] \in Nat /\ b[4] \in Nat
      /\ c[1] \in Nat /\ c[2] \in Nat /\ c[3] \in Nat /\ c[4] \in Nat
  BY <1>1
<1> DEFINE Is(x, y) ==
           \/ x[1] < y[1]
           \/ x[1] = y[1] /\ x[2] < y[2]
           \/ x[1] = y[1] /\ x[2] = y[2] /\ x[3] < y[3]
           \/ x[1] = y[1] /\ x[2] = y[2] /\ x[3] = y[3] /\ x[4] < y[4]
<1>3. /\ Before(f, g) <=> Is(a, b)
      /\ Before(g, f) <=> Is(b, a)
      /\ Before(f, h) <=> Is(a, c)
      /\ Before(h, g) <=> Is(c, b)
  BY BeforeIs
<1> HIDE DEF a, b, c
<1> QED BY <1>2, <1>3

\* The hits in order.
LEMMA SortedHits ==
  ASSUME NEW n \in Nat, NEW s \in [1..n -> Hits]
  PROVE  LET t == Sorted(s, Before) IN
         /\ t \in [1..n -> Hits]
         /\ ToSet(t) = ToSet(s)
         /\ IsInjective(s) => IsInjective(t)
         /\ \A j, k \in 1..n : j < k => ~ Before(t[k], t[j])
<1> DEFINE L == {pair \in (1..n) \X (1..n) : Before(s[pair[1]], s[pair[2]])}
           t == Sorted(s, Before)
           u == [k \in 1..n |-> s[CHOOSE i \in 1..n : Rank(L, n)[i] = k]]
           place == [i \in DOMAIN s |-> Cardinality(
                  {j \in DOMAIN s :
                     Before(s[j], s[i]) \/ (~ Before(s[i], s[j]) /\ j <= i)})]
<1>1. DOMAIN s = 1..n /\ Len(s) = n
  OBVIOUS
<1>2. \A i, j \in 1..n : <<i, j>> \in L <=> Before(s[i], s[j])
  OBVIOUS
<1> HIDE DEF L
<1>3. \A i \in 1..n : s[i] \in Hits
  OBVIOUS
<1>4. IsOrder(L, n)
  BY <1>2, <1>3, BeforeOrders DEF IsOrder
<1>5. place = Rank(L, n)
  <2>1. ASSUME NEW i \in 1..n
        PROVE UpTo(L, n, i) = {j \in 1..n :
                Before(s[j], s[i]) \/ (~ Before(s[i], s[j]) /\ j <= i)}
    BY <1>2 DEF UpTo
  <2> QED BY <2>1, <1>1 DEF Rank
<1>6. t = u
  <2>1. t = [k \in 1..Len(s) |-> s[CHOOSE i \in DOMAIN s : place[i] = k]]
    BY Zenon DEF Sorted
  <2> HIDE DEF place, t
  <2> QED BY <2>1, <1>1, <1>5
<1>7. Arranges(u, s, L, n, Hits)
  BY <1>4 DEF Arranges
<1> HIDE DEF t, u
<1>8. /\ u \in [1..n -> Hits]
      /\ ToSet(u) = ToSet(s)
      /\ IsInjective(s) => IsInjective(u)
      /\ InOrder(u, s, L, n)
  BY <1>7, Arranged
<1>9. \A j, k \in 1..n : j < k => ~ Before(u[k], u[j])
  BY <1>8, <1>2 DEF InOrder
<1> QED BY <1>6, <1>8, <1>9 DEF t

-----------------------------------------------------------------------------
(* The hits of an object.                                                  *)

\* The hits in the first u units of an object.
HitsUpTo(o, u) == FlattenSeq([v \in 1..u |-> HitsIn(o, v, Units[o][v].matches)])

\* a is the beginning of b.
Begins(a, b) == Len(a) <= Len(b) /\ \A i \in 1..Len(a) : a[i] = b[i]

\* The hits in one unit are those of its first lines that match.
LEMMA HitsOfUnit ==
  ASSUME NEW o \in Objects, NEW u \in 1..Len(Units[o]), NEW n \in Nat
  PROVE  /\ Units[o][u].matches \in Nat
         /\ HitsIn(o, u, n) \in Seq(Hits)
         /\ Len(HitsIn(o, u, n)) = Least(n, Units[o][u].matches)
         /\ \A i \in 1..Len(HitsIn(o, u, n)) : HitsIn(o, u, n)[i] = Hit(o, u, i)
         /\ n >= Units[o][u].matches => HitsIn(o, u, n) = HitsIn(o, u, Units[o][u].matches)
<1>1. Units[o] \in Seq([include : Nat, matches : Nat])
  BY ConstantsAssumption
<1>2. Units[o][u] \in [include : Nat, matches : Nat]
  BY <1>1, ElementOfSeq
<1>3. Units[o][u].matches \in Nat
  BY <1>2
<1> DEFINE m == Units[o][u].matches
           l == Least(n, m)
           s == HitsIn(o, u, n)
<1>4. l \in Nat /\ l <= n /\ l <= m /\ (n >= m => l = m)
  BY <1>3 DEF Least
<1>5. s = [i \in 1..l |-> Hit(o, u, i)]
  BY DEF HitsIn
<1>6. \A i \in 1..l : Hit(o, u, i) \in Hits
  BY <1>1, <1>4 DEF Hit, Hits
<1>7. HitsIn(o, u, m) = [i \in 1..m |-> Hit(o, u, i)]
  BY <1>3 DEF HitsIn, Least
<1> HIDE DEF l, s
<1>8. s \in Seq(Hits) /\ Len(s) = l
  BY <1>4, <1>5, <1>6
<1> QED BY <1>3, <1>4, <1>5, <1>7, <1>8 DEF s, l

\* With the hits of one unit more.
LEMMA UpToMore ==
  ASSUME NEW o \in Objects, NEW u \in 1..Len(Units[o])
  PROVE  /\ HitsUpTo(o, u - 1) \in Seq(Hits)
         /\ HitsUpTo(o, u) = HitsUpTo(o, u - 1) \o HitsIn(o, u, Units[o][u].matches)
<1> DEFINE s == [v \in 1..u |-> HitsIn(o, v, Units[o][v].matches)]
           t == [v \in 1..(u - 1) |-> HitsIn(o, v, Units[o][v].matches)]
<1>0. Len(Units[o]) \in Nat
  BY ConstantsAssumption, LenProperties
<1>1. \A v \in 1..u : HitsIn(o, v, Units[o][v].matches) \in Seq(Hits)
  BY HitsOfUnit, <1>0
<1>2. s \in [1..u -> Seq(Hits)]
  BY <1>1
<1>3. t \in [1..(u - 1) -> Seq(Hits)]
  BY <1>1, <1>0
<1>4. \A i \in 1..(u - 1) : t[i] = s[i]
  BY <1>0
<1>5. s[u] = HitsIn(o, u, Units[o][u].matches)
  BY <1>0
<1> HIDE DEF s, t
<1>6. FlattenSeq(t) \in Seq(Hits) /\ FlattenSeq(s) = FlattenSeq(t) \o s[u]
  <2>1. u \in Nat \ {0}
    BY <1>0
  <2> QED BY <2>1, <1>2, <1>3, <1>4, FlattenOneMore
<1>7. HitsUpTo(o, u) = FlattenSeq(s) /\ HitsUpTo(o, u - 1) = FlattenSeq(t)
  BY DEF HitsUpTo, s, t
<1> QED BY <1>5, <1>6, <1>7

\* Before the first unit there are none.
LEMMA UpToNone ==
  ASSUME NEW o \in Objects
  PROVE  HitsUpTo(o, 0) = << >>
<1> DEFINE s == [v \in 1..0 |-> HitsIn(o, v, Units[o][v].matches)]
<1>1. s = << >>
  OBVIOUS
<1> HIDE DEF s
<1>2. FlattenSeq(s) = << >>
  <2>1. Len(s) = 0
    BY <1>1
  <2> QED BY <1>1, <2>1, Zenon DEF FlattenSeq
<1> QED BY <1>2 DEF HitsUpTo, s

\* After the last unit they are all the hits of the object.
LEMMA UpToAll ==
  ASSUME NEW o \in Objects
  PROVE  AllHits(o) = HitsUpTo(o, Len(Units[o])) /\ Len(Units[o]) \in Nat
<1>1. Units[o] \in Seq([include : Nat, matches : Nat])
  BY ConstantsAssumption
<1>2. DOMAIN Units[o] = 1..Len(Units[o])
  BY <1>1, LenProperties
<1> QED BY <1>1, <1>2, LenProperties DEF AllHits, HitsUpTo

\* A sequence of hits of the units of an object up to u, none twice.
HitsOf(s, o, u) ==
  /\ s \in Seq(Hits) /\ IsInjective(s)
  /\ \A h \in ToSet(s) : h.object = o /\ h.unit <= u

\* The hits of one unit more are others.
LEMMA OtherHits ==
  ASSUME NEW o \in Objects, NEW u \in 1..Len(Units[o]), NEW n \in Nat,
         NEW s, HitsOf(s, o, u - 1)
  PROVE  HitsOf(s \o HitsIn(o, u, n), o, u)
<1> DEFINE t == HitsIn(o, u, n)
<1>0. u \in Nat /\ Len(Units[o]) \in Nat
  BY UpToAll
<1>1. t \in Seq(Hits) /\ Len(t) \in Nat /\ \A i \in 1..Len(t) : t[i] = Hit(o, u, i)
  BY HitsOfUnit, LenProperties
<1>2. s \in Seq(Hits) /\ Len(s) \in Nat /\ IsInjective(s)
  BY LenProperties DEF HitsOf
<1>3. \A i \in 1..Len(s) : s[i].object = o /\ s[i].unit <= u - 1 /\ s[i] \in Hits
  BY <1>2, ElementOfSeq DEF HitsOf, ToSet
<1> HIDE DEF t
<1> DEFINE w == s \o t
<1>4. w \in Seq(Hits) /\ Len(w) = Len(s) + Len(t) /\ DOMAIN w = 1..(Len(s) + Len(t))
  BY <1>1, <1>2, ConcatProperties, LenProperties
<1>5. ASSUME NEW i \in 1..Len(w)
      PROVE  w[i] = IF i <= Len(s) THEN s[i] ELSE t[i - Len(s)]
  BY <1>1, <1>2, <1>4, ConcatProperties
<1> HIDE DEF w
<1>6. ASSUME NEW i \in 1..Len(w)
      PROVE /\ i <= Len(s) => w[i] = s[i] /\ w[i].unit <= u - 1
            /\ i > Len(s) => w[i].unit = u /\ w[i].line = i - Len(s)
            /\ w[i].object = o /\ w[i].unit \in Nat
  <2>1. CASE i <= Len(s)
    <3>1. w[i] = s[i] /\ i \in 1..Len(s)
      BY <2>1, <1>1, <1>2, <1>4, <1>5
    <3>2. s[i].object = o /\ s[i].unit <= u - 1 /\ s[i].unit \in Nat
      BY <3>1, <1>3 DEF Hits
    <3> QED BY <2>1, <3>1, <3>2, <1>1, <1>2, <1>4
  <2>2. CASE i > Len(s)
    <3>1. i - Len(s) \in 1..Len(t)
      BY <2>2, <1>1, <1>2, <1>4
    <3>2. w[i] = Hit(o, u, i - Len(s))
      BY <2>2, <3>1, <1>1, <1>2, <1>4, <1>5
    <3> QED BY <2>2, <3>2, <1>0, <1>1, <1>2, <1>4 DEF Hit
  <2> QED BY <2>1, <2>2, <1>1, <1>2, <1>4
<1>7. ASSUME NEW i \in 1..Len(w), NEW j \in 1..Len(w), w[i] = w[j]
      PROVE  i = j
  <2>1. CASE i <= Len(s) /\ j <= Len(s)
    <3>1. s[i] = s[j] /\ DOMAIN s = 1..Len(s)
      BY <2>1, <1>6, <1>7, <1>2, LenProperties
    <3>2. i \in 1..Len(s) /\ j \in 1..Len(s)
      BY <2>1, <1>1, <1>2, <1>4
    <3> QED BY <3>1, <3>2, <1>2 DEF IsInjective
  <2>2. CASE i > Len(s) /\ j > Len(s)
    <3>1. w[i].line = i - Len(s) /\ w[j].line = j - Len(s)
      BY <2>2, <1>6
    <3>2. i - Len(s) = j - Len(s)
      BY <3>1, <1>7
    <3> HIDE DEF w
    <3> QED BY <3>2, <1>1, <1>2, <1>4
  <2>3. CASE ~ (i <= Len(s) <=> j <= Len(s))
    BY <2>3, <1>0, <1>6, <1>7, <1>1, <1>2, <1>4
  <2> QED BY <2>1, <2>2, <2>3, <1>1, <1>2, <1>4
<1>8. IsInjective(w)
  BY <1>7, <1>4 DEF IsInjective
<1>9. \A h \in ToSet(w) : h.object = o /\ h.unit <= u
  <2>1. \A i \in 1..Len(w) : w[i].object = o /\ w[i].unit <= u
    BY <1>6, <1>0, <1>1, <1>2, <1>4
  <2> QED BY <2>1, <1>4 DEF ToSet
<1>10. HitsOf(w, o, u)
  BY <1>4, <1>8, <1>9 DEF HitsOf
<1> QED BY <1>10 DEF w, t

\* They are hits of those units, none twice.
LEMMA UpToHits ==
  ASSUME NEW o \in Objects, NEW u \in 0..Len(Units[o])
  PROVE  HitsOf(HitsUpTo(o, u), o, u)
<1>0. Len(Units[o]) \in Nat
  BY UpToAll
<1> DEFINE S == {x \in Nat : x <= Len(Units[o]) => HitsOf(HitsUpTo(o, x), o, x)}
<1>1. 0 \in S
  <2>1. HitsUpTo(o, 0) = << >>
    BY UpToNone
  <2>2. HitsOf(<< >>, o, 0)
    <3>1. << >> \in Seq(Hits) /\ DOMAIN << >> = {}
      BY EmptySeq
    <3>2. IsInjective(<< >>) /\ ToSet(<< >>) = {}
      BY <3>1 DEF IsInjective, ToSet
    <3> QED BY <3>1, <3>2 DEF HitsOf
  <2> QED BY <2>1, <2>2
<1>2. ASSUME NEW x \in Nat, x \in S, x + 1 <= Len(Units[o])
      PROVE  HitsOf(HitsUpTo(o, x + 1), o, x + 1)
  <2>1. x + 1 \in 1..Len(Units[o]) /\ (x + 1) - 1 = x
    BY <1>0, <1>2
  <2>2. HitsOf(HitsUpTo(o, x), o, x)
    BY <1>2
  <2>3. Units[o][x + 1].matches \in Nat
    BY <2>1, HitsOfUnit
  <2>4. HitsOf(HitsUpTo(o, x) \o HitsIn(o, x + 1, Units[o][x + 1].matches), o, x + 1)
    BY <2>1, <2>2, <2>3, OtherHits
  <2> QED BY <2>1, <2>4, UpToMore
<1>3. Nat \subseteq S
  <2>1. \A x \in Nat : x \in S => x + 1 \in S
    BY <1>2
  <2> HIDE DEF S
  <2> QED BY <1>1, <2>1, NatInd
<1> QED BY <1>0, <1>3

\* All hits of an object, none twice.
LEMMA AllTheHits ==
  ASSUME NEW o \in Objects
  PROVE  HitsOf(AllHits(o), o, Len(Units[o])) /\ AllHits(o) \in Seq(Hits) /\ Len(AllHits(o)) \in Nat
<1>1. HitsOf(AllHits(o), o, Len(Units[o]))
  BY UpToAll, UpToHits
<1> QED BY <1>1, LenProperties DEF HitsOf

\* Two sequences put together begin with the first of them.
LEMMA BeginsCat ==
  ASSUME NEW H, NEW a \in Seq(H), NEW b \in Seq(H), NEW c, c = Cat(a, b)
  PROVE  Begins(a, c) /\ Len(c) = Len(a) + Len(b) /\ c \in Seq(H)
BY ConcatProperties, LenProperties DEF Begins, Cat

\* Beginning with is transitive.
LEMMA BeginsTransitive ==
  ASSUME NEW H, NEW a \in Seq(H), NEW b \in Seq(H), NEW c \in Seq(H), Begins(a, b), Begins(b, c)
  PROVE  Begins(a, c)
<1>1. Len(a) \in Nat /\ Len(b) \in Nat /\ Len(c) \in Nat
  BY LenProperties
<1> QED BY <1>1 DEF Begins

\* They are the first hits of the object.
LEMMA UpToBegins ==
  ASSUME NEW o \in Objects, NEW u \in 0..Len(Units[o])
  PROVE  Begins(HitsUpTo(o, u), AllHits(o))
<1>0. Len(Units[o]) \in Nat
  BY UpToAll
<1> DEFINE N == Len(Units[o])
           S == {x \in Nat : x <= N => Begins(HitsUpTo(o, N - x), AllHits(o))}
<1> HIDE DEF N
<1>1. 0 \in S
  <2>1. HitsUpTo(o, N) = AllHits(o) /\ N - 0 = N
    BY UpToAll, <1>0 DEF N
  <2> QED BY <2>1, AllTheHits DEF Begins
<1>2. ASSUME NEW x \in Nat, x \in S, x + 1 <= N
      PROVE  Begins(HitsUpTo(o, N - (x + 1)), AllHits(o))
  <2> DEFINE w == N - x
  <2>1. w \in 1..Len(Units[o]) /\ w - 1 = N - (x + 1)
    BY <1>0, <1>2 DEF N
  <2>2. Begins(HitsUpTo(o, w), AllHits(o))
    BY <1>0, <1>2 DEF N
  <2> HIDE DEF w
  <2>3. Units[o][w].matches \in Nat
    BY <2>1, HitsOfUnit
  <2>4. /\ HitsUpTo(o, w - 1) \in Seq(Hits) /\ HitsIn(o, w, Units[o][w].matches) \in Seq(Hits)
        /\ HitsUpTo(o, w) = Cat(HitsUpTo(o, w - 1), HitsIn(o, w, Units[o][w].matches))
    BY <2>1, <2>3, UpToMore, HitsOfUnit DEF Cat
  <2>5. Begins(HitsUpTo(o, w - 1), HitsUpTo(o, w)) /\ HitsUpTo(o, w) \in Seq(Hits)
    BY <2>4, BeginsCat
  <2> QED BY <2>1, <2>2, <2>4, <2>5, AllTheHits, BeginsTransitive
<1>3. Nat \subseteq S
  <2>1. \A x \in Nat : x \in S => x + 1 \in S
    BY <1>2
  <2> HIDE DEF S
  <2> QED BY <1>1, <2>1, NatInd
<1>4. N - u \in Nat /\ N - u <= N /\ N - (N - u) = u
  BY <1>0 DEF N
<1> QED BY <1>3, <1>4

\* SubSeq(a, 1, n) for n up to the length.
LEMMA FirstOnes ==
  ASSUME NEW H, NEW a \in Seq(H), NEW n \in 0..Len(a)
  PROVE  /\ SubSeq(a, 1, n) \in Seq(H) /\ Len(SubSeq(a, 1, n)) = n
         /\ \A i \in 1..n : SubSeq(a, 1, n)[i] = a[i]
BY LenProperties

\* Sequences of hits with the same entries.
LEMMA SameHits ==
  ASSUME NEW H, NEW a \in Seq(H), NEW b \in Seq(H), Len(a) = Len(b),
         \A i \in 1..Len(a) : a[i] = b[i]
  PROVE  a = b
BY SeqEqual, LenProperties

\* Hits within the cap that the object begins with are those that are kept.
LEMMA KeptBegins ==
  ASSUME NEW o \in Objects, search.max_hits \in Nat,
         NEW s \in Seq(Hits), Begins(s, AllHits(o)), Len(s) <= search.max_hits
  PROVE  /\ Len(s) \in 0..Len(Kept(o)) /\ s = SubSeq(Kept(o), 1, Len(s))
         /\ Len(s) = search.max_hits \/ s = AllHits(o) => s = Kept(o)
         /\ Kept(o) \in Seq(Hits) /\ Len(Kept(o)) \in Nat
<1> DEFINE all == AllHits(o)
           n == Least(Len(all), search.max_hits)
           t == Kept(o)
<1>1. all \in Seq(Hits) /\ Len(all) \in Nat
  BY AllTheHits
<1>2. Len(s) \in Nat
  BY LenProperties
<1>3. t = SubSeq(all, 1, n)
  BY DEF Kept
<1> HIDE DEF all, t
<1>4. n \in 0..Len(all) /\ n <= search.max_hits /\ (n = Len(all) \/ n = search.max_hits)
  BY <1>1 DEF Least
<1> HIDE DEF n
<1>5. t \in Seq(Hits) /\ Len(t) = n /\ \A i \in 1..n : t[i] = all[i]
  BY <1>1, <1>3, <1>4, FirstOnes
<1>6. Len(s) <= Len(all) /\ \A i \in 1..Len(s) : s[i] = all[i]
  BY DEF Begins, all
<1>7. Len(s) \in 0..Len(t)
  BY <1>1, <1>2, <1>4, <1>5, <1>6
<1>8. s = SubSeq(t, 1, Len(s))
  <2> DEFINE r == SubSeq(t, 1, Len(s))
  <2>1. r \in Seq(Hits) /\ Len(r) = Len(s) /\ \A i \in 1..Len(s) : r[i] = t[i]
    BY <1>5, <1>7, FirstOnes
  <2> HIDE DEF r
  <2>2. \A i \in 1..Len(s) : s[i] = r[i]
    BY <2>1, <1>2, <1>4, <1>5, <1>6, <1>7
  <2>3. s = r
    BY <2>1, <2>2, SameHits
  <2> QED BY <2>3 DEF r
<1>9. Len(s) = search.max_hits \/ s = all => s = t
  <2> SUFFICES ASSUME Len(s) = search.max_hits \/ s = all PROVE s = t
    OBVIOUS
  <2>1. Len(s) = Len(t)
    BY <1>1, <1>2, <1>4, <1>5, <1>6
  <2>2. \A i \in 1..Len(s) : s[i] = t[i]
    BY <2>1, <1>5, <1>6
  <2> QED BY <2>1, <2>2, <1>5, SameHits
<1> QED BY <1>1, <1>4, <1>5, <1>7, <1>8, <1>9 DEF all, t

-----------------------------------------------------------------------------
(* What a pump has of its target.                                          *)

Pumps ==
  [at : {"free", "reads", "ends", "stopped"}, target : Nat, unit : Nat,
   hits : Seq(Hits), cap : BOOLEAN]

\* What pump p has of its target o: hits of units before the one it is at.
Collected(p, o) ==
  /\ p.unit <= Len(Units[o]) + 1
  /\ Len(p.hits) <= search.max_hits
  /\ HitsOf(p.hits, o, p.unit - 1)

\* If nothing of o failed, they are its first hits: all those of these units,
\* until the pump is done with it; then all that are kept, unless it was cut off.
First(p, o, cut) ==
  /\ p.at = "reads" => /\ ~ p.cap
                       /\ p.hits = HitsUpTo(o, IF p.unit = 0 THEN 0 ELSE p.unit - 1)
  /\ p.at = "ends" =>
       /\ Begins(p.hits, AllHits(o))
       /\ p.cap => Len(AllHits(o)) > search.max_hits
       /\ ~ cut => /\ p.hits = Kept(o)
                   /\ p.cap <=> Len(AllHits(o)) > search.max_hits

\* The entries of two sequences put together.
LEMMA CatFacts ==
  ASSUME NEW H, NEW a \in Seq(H), NEW b \in Seq(H)
  PROVE  /\ Cat(a, b) \in Seq(H) /\ Len(Cat(a, b)) = Len(a) + Len(b)
         /\ Len(a) \in Nat /\ Len(b) \in Nat
         /\ \A i \in 1..(Len(a) + Len(b)) :
              Cat(a, b)[i] = IF i <= Len(a) THEN a[i] ELSE b[i - Len(a)]
BY ConcatProperties, LenProperties DEF Cat

\* The first hits of a unit after those of the units before it: either all the
\* hits up to this unit, or as many as are kept.
LEMMA ScanCounts ==
  ASSUME NEW o \in Objects, search.max_hits \in Nat,
         NEW u \in 1..Len(Units[o]), NEW had, had = HitsUpTo(o, u - 1), Len(had) <= search.max_hits,
         NEW remaining, remaining = search.max_hits - Len(had),
         NEW w, w = had \o HitsIn(o, u, remaining)
  PROVE  /\ Units[o][u].matches <= remaining => w = HitsUpTo(o, u)
         /\ Units[o][u].matches > remaining =>
              /\ w = Kept(o) /\ Begins(w, AllHits(o))
              /\ Len(AllHits(o)) > search.max_hits
<1> DEFINE m == Units[o][u].matches
           fresh == HitsIn(o, u, remaining)
           whole == HitsIn(o, u, m)
           all == AllHits(o)
<1>0. u \in Nat /\ Len(Units[o]) \in Nat
  BY UpToAll
<1>1. had \in Seq(Hits) /\ Len(had) \in Nat
  BY UpToMore, LenProperties
<1>2. remaining \in Nat
  BY <1>1
<1>3. m \in Nat /\ fresh \in Seq(Hits) /\ whole \in Seq(Hits) /\ Len(fresh) = Least(remaining, m) /\ Len(whole) = m
  <2>1. m \in Nat /\ fresh \in Seq(Hits) /\ Len(fresh) = Least(remaining, m)
    BY <1>2, HitsOfUnit
  <2>2. whole \in Seq(Hits) /\ Len(whole) = Least(m, m)
    BY <2>1, HitsOfUnit
  <2> QED BY <2>1, <2>2 DEF Least
<1>4. \A i \in 1..Len(fresh) : fresh[i] = Hit(o, u, i)
  BY <1>2, HitsOfUnit
<1>5. \A i \in 1..Len(whole) : whole[i] = Hit(o, u, i)
  BY <1>3, HitsOfUnit
<1>6. HitsUpTo(o, u) = had \o whole
  BY UpToMore
<1>7. m <= remaining => fresh = whole
  BY <1>2, <1>3, HitsOfUnit
<1>8. all \in Seq(Hits) /\ Len(all) \in Nat
  BY AllTheHits
<1>9. Begins(HitsUpTo(o, u), all)
  <2>1. u \in 0..Len(Units[o])
    BY <1>0
  <2> QED BY <2>1, UpToBegins
<1> HIDE DEF m, fresh, whole, all
<1>10. ASSUME m > remaining
       PROVE  w = Kept(o) /\ Begins(w, all) /\ Len(all) > search.max_hits
  <2> DEFINE longer == had \o whole
  <2>1. Len(fresh) = remaining
    BY <1>10, <1>2, <1>3 DEF Least
  <2>2. /\ w = had \o fresh /\ w \in Seq(Hits) /\ Len(w) = search.max_hits
        /\ \A i \in 1..Len(w) : w[i] = IF i <= Len(had) THEN had[i] ELSE fresh[i - Len(had)]
    <3> DEFINE glued == had \o fresh
    <3>1. w = glued
      BY DEF fresh
    <3>2. /\ glued \in Seq(Hits) /\ Len(glued) = Len(had) + Len(fresh)
          /\ \A i \in 1..Len(glued) : glued[i] = IF i <= Len(had) THEN had[i] ELSE fresh[i - Len(had)]
      <4>1. had \in Seq(Hits) /\ fresh \in Seq(Hits)
        BY <1>1, <1>3
      <4>2. glued = Cat(had, fresh)
        BY DEF Cat
      <4> HIDE DEF glued
      <4>3. glued \in Seq(Hits)
        BY ONLY <4>1, <4>2, CatFacts
      <4>4. Len(glued) = Len(had) + Len(fresh) /\ Len(had) \in Nat /\ Len(fresh) \in Nat
        BY ONLY <4>1, <4>2, CatFacts
      <4>5. ASSUME NEW place \in 1..(Len(had) + Len(fresh))
            PROVE  glued[place] = IF place <= Len(had) THEN had[place] ELSE fresh[place - Len(had)]
        BY ONLY <4>1, <4>2, CatFacts, place \in 1..(Len(had) + Len(fresh))
      <4> QED BY ONLY <4>3, <4>4, <4>5
    <3> HIDE DEF glued
    <3>3. Len(glued) = search.max_hits
      BY <3>2, <2>1, <1>1
    <3> QED BY <3>1, <3>2, <3>3 DEF glued
  <2>3. /\ longer \in Seq(Hits) /\ Len(longer) = Len(had) + m
        /\ \A i \in 1..Len(longer) : longer[i] = IF i <= Len(had) THEN had[i] ELSE whole[i - Len(had)]
    <3>1. had \in Seq(Hits) /\ whole \in Seq(Hits) /\ Len(whole) = m
      BY <1>1, <1>3
    <3>2. longer = Cat(had, whole)
      BY DEF Cat
    <3> HIDE DEF longer
    <3>3. longer \in Seq(Hits)
      BY ONLY <3>1, <3>2, CatFacts
    <3>4. Len(longer) = Len(had) + Len(whole) /\ Len(had) \in Nat /\ Len(whole) \in Nat
      BY ONLY <3>1, <3>2, CatFacts
    <3>5. ASSUME NEW place \in 1..(Len(had) + Len(whole))
          PROVE  longer[place] = IF place <= Len(had) THEN had[place]
                                                      ELSE whole[place - Len(had)]
      BY ONLY <3>1, <3>2, CatFacts, place \in 1..(Len(had) + Len(whole))
    <3> QED BY ONLY <3>1, <3>3, <3>4, <3>5
  <2> HIDE DEF longer
  <2>4. Len(longer) > search.max_hits
    BY <2>3, <1>1, <1>2, <1>3, <1>10
  <2>5. ASSUME NEW i \in 1..Len(w) PROVE w[i] = longer[i]
    <3>1. i \in 1..Len(longer)
      BY <2>2, <2>3, <2>4
    <3>2. CASE i <= Len(had)
      BY <3>1, <3>2, <2>2, <2>3
    <3>3. CASE i > Len(had)
      <4>1. i - Len(had) \in 1..Len(fresh) /\ i - Len(had) \in 1..Len(whole)
        BY <3>3, <1>1, <1>2, <1>3, <2>1, <2>2, <1>10
      <4>2. fresh[i - Len(had)] = whole[i - Len(had)]
        BY <4>1, <1>4, <1>5
      <4> QED BY <3>1, <3>3, <4>2, <2>2, <2>3, <1>1
    <3> QED BY <3>2, <3>3, <1>1, <2>2
  <2>6. Begins(w, longer)
    BY <2>2, <2>4, <2>5 DEF Begins
  <2>7. Begins(longer, all)
    BY <1>6, <1>9 DEF longer
  <2>8. Begins(w, all)
    BY <2>2, <2>3, <2>6, <2>7, <1>8, BeginsTransitive
  <2>9. Len(all) > search.max_hits
    BY <2>4, <2>7, <1>8, <2>3, LenProperties DEF Begins
  <2>10. w = Kept(o)
    <3>1. Begins(w, AllHits(o))
      BY <2>8 DEF all
    <3>2. Len(w) = search.max_hits /\ w \in Seq(Hits)
      BY <2>2
    <3>3. Len(w) <= search.max_hits
      BY <3>2
    <3> HIDE DEF all
    <3> QED BY <3>1, <3>2, <3>3, KeptBegins
  <2> QED BY <2>8, <2>9, <2>10
<1>11. m <= remaining => w = HitsUpTo(o, u)
  BY <1>6, <1>7 DEF fresh
<1> QED BY <1>2, <1>3, <1>10, <1>11 DEF m, all

\* A unit scanned in time.
LEMMA Scanned ==
  ASSUME NEW o \in Objects, search.max_hits \in Nat,
         NEW p \in Pumps, p.at = "reads", p.unit \in 1..Len(Units[o]), Collected(p, o),
         NEW cut
  PROVE  LET remaining == search.max_hits - Len(p.hits)
             capped == Units[o][p.unit].matches > remaining
             q == [p EXCEPT !.hits = @ \o HitsIn(o, p.unit, remaining),
                            !.cap = capped, !.unit = p.unit + 1,
                            !.at = IF capped THEN "ends" ELSE "reads"]
         IN /\ q \in Pumps /\ q.at \in {"reads", "ends"} /\ q.target = p.target
            /\ Collected(q, o)
            /\ First(p, o, cut) => First(q, o, cut)
<1> DEFINE remaining == search.max_hits - Len(p.hits)
           capped == Units[o][p.unit].matches > remaining
           q == [p EXCEPT !.hits = @ \o HitsIn(o, p.unit, remaining),
                          !.cap = capped, !.unit = p.unit + 1,
                          !.at = IF capped THEN "ends" ELSE "reads"]
           u == p.unit
           w == p.hits \o HitsIn(o, u, remaining)
<1>0. u \in Nat /\ u \in 1..Len(Units[o]) /\ Len(Units[o]) \in Nat
  BY UpToAll
<1>1. p.hits \in Seq(Hits) /\ Len(p.hits) \in Nat /\ p.target \in Nat /\ Len(p.hits) <= search.max_hits
  BY LenProperties DEF Pumps, Collected
<1>2. remaining \in Nat
  BY <1>1
<1>c. capped \in BOOLEAN /\ (capped <=> Units[o][p.unit].matches > remaining)
  OBVIOUS
<1>r. remaining = search.max_hits - Len(p.hits)
  OBVIOUS
<1> HIDE DEF remaining, capped
<1>3. HitsIn(o, u, remaining) \in Seq(Hits) /\ Len(HitsIn(o, u, remaining)) <= remaining
  <2> HIDE DEF u
  <2>1. /\ HitsIn(o, u, remaining) \in Seq(Hits) /\ Units[o][u].matches \in Nat
        /\ Len(HitsIn(o, u, remaining)) = Least(remaining, Units[o][u].matches)
    BY <1>0, <1>2, HitsOfUnit
  <2>2. Least(remaining, Units[o][u].matches) <= remaining
    BY <2>1, <1>2 DEF Least
  <2> QED BY <2>1, <2>2
<1>4. w \in Seq(Hits) /\ Len(w) <= search.max_hits
  <2> DEFINE x == HitsIn(o, u, remaining)
  <2>1. x \in Seq(Hits) /\ Len(x) <= remaining
    BY <1>3
  <2>2. w = Cat(p.hits, x)
    BY DEF Cat
  <2> HIDE DEF x, w
  <2>3. w \in Seq(Hits) /\ Len(w) = Len(p.hits) + Len(x) /\ Len(x) \in Nat
    BY <2>1, <2>2, <1>1, CatFacts
  <2> QED BY <2>1, <2>3, <1>1, <1>2, <1>r
<1>5. HitsOf(w, o, u)
  BY <1>0, <1>2, OtherHits DEF Collected
<1>6. /\ q.hits = w /\ q.cap = capped /\ q.unit = u + 1 /\ q.target = p.target
      /\ q.at = IF capped THEN "ends" ELSE "reads"
  <2>1. DOMAIN p = {"at", "target", "unit", "hits", "cap"}
    BY DEF Pumps
  <2> HIDE DEF w, u
  <2>2. q = [p EXCEPT !.hits = w, !.cap = capped, !.unit = u + 1,
                      !.at = IF capped THEN "ends" ELSE "reads"]
    BY DEF w, u
  <2> HIDE DEF q
  <2> QED BY <2>1, <2>2
<1>7. q \in Pumps
  <2>1. q = [at |-> IF capped THEN "ends" ELSE "reads", target |-> p.target,
             unit |-> u + 1, hits |-> w, cap |-> capped]
    <3> HIDE DEF w, u
    <3>1. q = [p EXCEPT !.hits = w, !.cap = capped, !.unit = u + 1,
                        !.at = IF capped THEN "ends" ELSE "reads"]
      BY DEF w, u
    <3>2. p = [at |-> p.at, target |-> p.target, unit |-> p.unit, hits |-> p.hits, cap |-> p.cap]
      BY DEF Pumps
    <3> HIDE DEF q
    <3> QED BY <3>1, <3>2
  <2> HIDE DEF w
  <2>2. (IF capped THEN "ends" ELSE "reads") \in {"free", "reads", "ends", "stopped"} /\ u + 1 \in Nat
    BY <1>0
  <2> HIDE DEF w, u
  <2> QED BY ONLY <2>1, <2>2, <1>1, <1>4, <1>c DEF Pumps
<1>8. First(p, o, cut) => p.hits = HitsUpTo(o, u - 1)
  BY <1>0 DEF First
<1> HIDE DEF w
<1>9. Collected(q, o)
  <2>1. (u + 1) - 1 = u /\ u + 1 <= Len(Units[o]) + 1
    BY <1>0
  <2> QED BY <2>1, <1>4, <1>5, <1>6 DEF Collected
<1>10. ASSUME First(p, o, cut) PROVE First(q, o, cut)
  <2>1. /\ Units[o][u].matches <= remaining => w = HitsUpTo(o, u)
        /\ Units[o][u].matches > remaining =>
              /\ w = Kept(o) /\ Begins(w, AllHits(o))
              /\ Len(AllHits(o)) > search.max_hits
    <3>1. p.hits = HitsUpTo(o, u - 1)
      BY <1>8, <1>10
    <3>2. w = p.hits \o HitsIn(o, u, remaining)
      BY DEF w
    <3> HIDE DEF u
    <3> QED BY <1>0, <1>1, <1>r, <3>1, <3>2, ScanCounts
  <2>2. Units[o][u].matches \in Nat
    BY <1>0, <1>2, HitsOfUnit
  <2>3. CASE capped
    <3>1. Units[o][u].matches > remaining
      BY <2>3, <1>c
    <3>2. q.hits = w /\ q.cap /\ q.at = "ends"
      BY <1>6, <2>3
    <3> HIDE DEF u
    <3> QED BY <2>1, <3>1, <3>2 DEF First
  <2>4. CASE ~ capped
    <3>1. w = HitsUpTo(o, u)
      BY <2>1, <2>2, <2>4, <1>2, <1>c
    <3>2. (u + 1) # 0 /\ (u + 1) - 1 = u
      BY <1>0
    <3> QED BY <3>1, <3>2, <2>4, <1>6 DEF First
  <2> QED BY <2>3, <2>4
<1> QED BY <1>6, <1>7, <1>9, <1>10, <1>c DEF remaining, capped

-----------------------------------------------------------------------------
(* The targets.                                                            *)

\* A set as a sequence has each member once.
LEMMA Enumerated ==
  ASSUME NEW S, IsFiniteSet(S)
  PROVE  /\ Cardinality(S) \in Nat
         /\ SetToSeq(S) \in [1..Cardinality(S) -> S]
         /\ IsInjective(SetToSeq(S)) /\ ToSet(SetToSeq(S)) = S
<1> DEFINE n == Cardinality(S)
<1>1. n \in Nat /\ ExistsBijection(1..n, S)
  BY FS_CardinalityType
<1>2. \E f \in [1..n -> S] : IsInjective(f)
  BY <1>1 DEF ExistsBijection, Bijection, Injection
<1> DEFINE f == SetToSeq(S)
<1>3. f \in [1..n -> S] /\ IsInjective(f)
  BY <1>2 DEF SetToSeq
<1> HIDE DEF f
<1>4. f \in Injection(1..n, S)
  BY <1>3 DEF Injection
<1>5. f \in Surjection(1..n, S)
  <2>1. IsFiniteSet(1..n) /\ Cardinality(1..n) = n
    BY <1>1, FS_Interval
  <2> HIDE DEF n
  <2> QED BY <2>1, <1>4, FS_Injection DEF n
<1>6. ToSet(f) = S
  BY <1>3, <1>5 DEF Surjection, ToSet
<1> QED BY <1>1, <1>3, <1>6 DEF f

\* The targets of a scan of the objects S.
LEMMA TargetsOf ==
  ASSUME NEW S, S \subseteq Objects, IsFiniteSet(S), NEW n \in Nat
  PROVE  LET all == Sorted(SetToSeq(S), Earlier)
             kept == SubSeq(all, 1, Least(Len(all), n))
         IN /\ Len(all) = Cardinality(S) /\ Cardinality(S) \in Nat
            /\ kept \in Seq(Objects) /\ IsInjective(kept)
            /\ Len(kept) = Least(Len(all), n)
            /\ ToSet(kept) \subseteq S
            /\ Len(all) <= n => ToSet(kept) = S
<1> DEFINE m == Cardinality(S)
           s == SetToSeq(S)
           all == Sorted(s, Earlier)
           l == Least(Len(all), n)
           kept == SubSeq(all, 1, l)
<1>1. m \in Nat /\ s \in [1..m -> S] /\ IsInjective(s) /\ ToSet(s) = S
  BY Enumerated
<1>2. s \in [1..m -> Objects]
  BY <1>1
<1> HIDE DEF s, m
<1>3. all \in [1..m -> Objects] /\ ToSet(all) = S /\ IsInjective(all)
  BY <1>1, <1>2, SortedObjects
<1> HIDE DEF all
<1>4. all \in Seq(Objects) /\ Len(all) = m /\ DOMAIN all = 1..m
  BY <1>1, <1>3
<1>5. l \in 0..Len(all) /\ (Len(all) <= n => l = Len(all))
  BY <1>1, <1>4 DEF Least
<1> HIDE DEF l
<1>6. /\ kept \in Seq(Objects) /\ Len(kept) = l /\ \A i \in 1..l : kept[i] = all[i]
  BY <1>4, <1>5, FirstOnes
<1> HIDE DEF kept
<1>7. DOMAIN kept = 1..l /\ l \in Nat /\ \A i \in 1..l : i \in 1..m
  BY <1>1, <1>4, <1>5, <1>6, LenProperties
<1>8. IsInjective(kept)
  BY <1>3, <1>4, <1>6, <1>7 DEF IsInjective
<1>9. ToSet(all) = {all[i] : i \in 1..m} /\ ToSet(kept) = {kept[i] : i \in 1..l}
  BY <1>4, <1>7 DEF ToSet
<1>10. ToSet(kept) \subseteq S
  BY <1>3, <1>6, <1>7, <1>9
<1>11. Len(all) <= n => ToSet(kept) = S
  <2> SUFFICES ASSUME Len(all) <= n PROVE ToSet(kept) = S
    OBVIOUS
  <2>1. l = m
    BY <1>4, <1>5
  <2> QED BY <2>1, <1>3, <1>6, <1>9
<1> QED BY <1>1, <1>4, <1>6, <1>8, <1>10, <1>11 DEF m, s, all, l, kept

-----------------------------------------------------------------------------
(* The inductive invariant.                                                *)

Types ==
  /\ search \in Searches
  /\ phase \in {"resolve", "enumerate", "scan", "done", "error"}
  /\ packages \subseteq DOMAIN Contents
  /\ left \subseteq DOMAIN NamesOf \/ left \subseteq DOMAIN Contents
  /\ found \subseteq Objects /\ IsFiniteSet(found)
  /\ targets \in Seq(Objects) /\ IsInjective(targets)
  /\ next \in Nat \ {0}
  /\ pumps \in Seq(Pumps)
  /\ late \in BOOLEAN /\ byCap \in BOOLEAN /\ byMax \in BOOLEAN /\ byTime \in BOOLEAN
  /\ results \in Seq(Hits) /\ IsInjective(results)
  /\ noHits \in Seq(Objects) /\ IsInjective(noHits)
  /\ unread \subseteq ToSet(targets)

\* Before the reading, what is resolved and listed so far.
Listing ==
  /\ phase \in {"resolve", "enumerate", "error"} =>
       /\ targets = << >> /\ next = 1 /\ pumps = << >>
       /\ results = << >> /\ noHits = << >> /\ unread = {}
       /\ ~ byCap /\ ~ byMax /\ ~ byTime
  /\ phase = "resolve" =>
       /\ left \subseteq search.masks /\ found = {}
       /\ packages = search.names \cup UNION {NamesOf[m] : m \in search.masks \ left}
  /\ phase = "enumerate" =>
       /\ left \subseteq packages
       /\ packages = search.names \cup UNION {NamesOf[m] : m \in search.masks}
       /\ found = UNION {Contents[p] : p \in packages \ left}

\* From then on, what there is to read.
Listed ==
  phase \in {"scan", "done"} =>
    /\ found = Wanted
    /\ byMax <=> Cardinality(found) > search.max_objects
    /\ ToSet(targets) \subseteq found
    /\ ~ byMax => ToSet(targets) = found
    /\ pumps # << >>

Busy(k) == pumps[k].at \in {"reads", "ends"}

Stopped == {k \in DOMAIN pumps : pumps[k].at = "stopped"}

\* The pumps that read have targets of their own.
Apart ==
  \A k \in DOMAIN pumps : Busy(k) =>
    /\ pumps[k].target \in 1..Len(targets) /\ pumps[k].target < next
    /\ \A j \in DOMAIN pumps : Busy(j) /\ pumps[j].target = pumps[k].target => j = k

\* A pump stops in time only if there is nothing left to take.
Stops ==
  /\ \A k \in Stopped : byTime \/ next > Len(targets)
  /\ next <= Len(targets) + Cardinality(Stopped) + 1
  /\ phase = "done" => Stopped = DOMAIN pumps

\* What the pumps have of their targets.
Reading ==
  \A k \in DOMAIN pumps :
    /\ Busy(k) => Collected(pumps[k], Object(k))
    /\ Busy(k) /\ Object(k) \notin unread => First(pumps[k], Object(k), byTime)
    /\ ~ Busy(k) => pumps[k].hits = << >>

\* A target that was taken and is not read any more.
Answered(i) ==
  i < next /\ \A k \in DOMAIN pumps : Busy(k) => pumps[k].target # i

NotYet(o) == Reported(o) = {} /\ o \notin ToSet(noHits)

\* What is answered of a target.
Answer(o) ==
  /\ search.emit => (o \in ToSet(noHits) <=> Reported(o) = {})
  /\ o \notin unread =>
       /\ \E n \in 0..Len(Kept(o)) : Reported(o) = ToSet(SubSeq(Kept(o), 1, n))
       /\ ~ byTime => /\ Reported(o) = ToSet(Kept(o))
                      /\ Len(AllHits(o)) > search.max_hits => byCap

Answers ==
  /\ \A i \in DOMAIN targets : Answered(i) => Answer(targets[i])
  /\ \A i \in DOMAIN targets : ~ Answered(i) => NotYet(targets[i])
  /\ \A h \in ToSet(results) : h.object \in ToSet(targets)
  /\ ToSet(noHits) \subseteq ToSet(targets)
  /\ byCap /\ unread = {} =>
       \E o \in ToSet(targets) : Len(AllHits(o)) > search.max_hits

\* The hits and the objects without one are in the order of their places.
InPlace ==
  Done => /\ \A i, j \in DOMAIN results : i < j => ~ Before(results[j], results[i])
          /\ \A i, j \in DOMAIN noHits : i < j => ~ Earlier(noHits[j], noHits[i])

IInv ==
  Types /\ Listing /\ Listed /\ Apart /\ Stops /\ Reading /\ Answers /\ InPlace

\* The call.
LEMMA SearchType ==
  ASSUME search \in Searches
  PROVE  /\ search.max_hits \in Nat \ {0} /\ search.max_objects \in Nat \ {0}
         /\ search.concurrency \in Nat \ {0} /\ search.emit \in BOOLEAN
         /\ search.names \subseteq DOMAIN Contents /\ search.masks \subseteq DOMAIN NamesOf
BY ConstantsAssumption

\* A step of one pump.
LEMMA OnePump ==
  ASSUME pumps \in Seq(Pumps), NEW k \in DOMAIN pumps, NEW q \in Pumps, Set(k, q)
  PROVE  /\ pumps' \in Seq(Pumps) /\ DOMAIN pumps' = DOMAIN pumps
         /\ Len(pumps') = Len(pumps) /\ pumps'[k] = q
         /\ \A j \in DOMAIN pumps : j # k => pumps'[j] = pumps[j]
<1>1. pumps' = [pumps EXCEPT ![k] = q]
  BY DEF Set
<1>2. k \in 1..Len(pumps) /\ Len(pumps) \in Nat
  BY LenProperties
<1>3. pumps' \in Seq(Pumps) /\ Len(pumps') = Len(pumps)
  BY <1>1, <1>2, ExceptSeq
<1> QED BY <1>1, <1>3

\* A pump that reads has a target, which has not been answered for.
LEMMA BusyPump ==
  ASSUME IInv, NEW k \in DOMAIN pumps, Busy(k)
  PROVE  /\ pumps[k] \in Pumps /\ pumps[k].target \in DOMAIN targets
         /\ Object(k) \in Objects /\ Object(k) \in ToSet(targets)
         /\ Collected(pumps[k], Object(k)) /\ NotYet(Object(k))
         /\ ~ Answered(pumps[k].target)
<1>1. pumps \in Seq(Pumps) /\ targets \in Seq(Objects)
  BY DEF IInv, Types
<1>2. pumps[k] \in Pumps /\ DOMAIN targets = 1..Len(targets)
  BY <1>1, ElementOfSeq, LenProperties
<1>3. pumps[k].target \in DOMAIN targets
  BY <1>2 DEF IInv, Apart
<1>4. Object(k) \in Objects /\ Object(k) \in ToSet(targets)
  BY <1>1, <1>3, ElementOfSeq, LenProperties DEF Object, ToSet
<1>5. Collected(pumps[k], Object(k))
  BY DEF IInv, Reading
<1>6. ~ Answered(pumps[k].target)
  BY DEF Answered
<1>7. NotYet(Object(k))
  BY <1>3, <1>6 DEF IInv, Answers, Object
<1> QED BY <1>2, <1>3, <1>4, <1>5, <1>6, <1>7

\* Two pumps have two objects.
LEMMA BusyPumps ==
  ASSUME IInv, NEW k \in DOMAIN pumps, Busy(k), NEW j \in DOMAIN pumps, Busy(j), j # k
  PROVE  Object(j) # Object(k)
<1>1. pumps[j].target # pumps[k].target
  BY DEF IInv, Apart
<1>2. pumps[j].target \in DOMAIN targets /\ pumps[k].target \in DOMAIN targets
  BY BusyPump
<1>3. IsInjective(targets)
  BY DEF IInv, Types
<1> QED BY <1>1, <1>2, <1>3 DEF Object, IsInjective

\* More that failed or was cut off asks less.
LEMMA AnswerStays ==
  ASSUME UNCHANGED <<search, results, noHits>>, NEW o,
         byTime => byTime', byCap => byCap', unread \subseteq unread'
  PROVE  /\ Answer(o) => Answer(o)'
         /\ NotYet(o) => NotYet(o)'
BY DEF Answer, NotYet, Reported, Kept

\* A reading pump goes on with its target.
LEMMA ReadStep ==
  ASSUME IInv, phase = "scan", NEW k \in DOMAIN pumps, Busy(k),
         NEW q \in Pumps, Set(k, q), q.at \in {"reads", "ends"}, q.target = pumps[k].target,
         Collected(q, Object(k)),
         UNCHANGED unchangedByReads,
         byTime' \in BOOLEAN, byTime => byTime',
         unread \subseteq unread', unread' \subseteq unread \cup {Object(k)},
         Object(k) \notin unread' => First(q, Object(k), byTime')
  PROVE  IInv'
<1>0. Types /\ Listing /\ Listed /\ Apart /\ Stops /\ Reading /\ Answers
  BY DEF IInv
<1>u. /\ search' = search /\ phase' = phase /\ left' = left /\ packages' = packages
      /\ found' = found /\ targets' = targets /\ next' = next /\ late' = late /\ byMax' = byMax
      /\ results' = results /\ noHits' = noHits /\ byCap' = byCap
  BY DEF unchangedByReads, listing
<1>p. /\ pumps' \in Seq(Pumps) /\ DOMAIN pumps' = DOMAIN pumps
      /\ Len(pumps') = Len(pumps) /\ pumps'[k] = q
      /\ \A j \in DOMAIN pumps : j # k => pumps'[j] = pumps[j]
  BY OnePump DEF IInv, Types
<1>b. /\ \A j \in DOMAIN pumps : Busy(j)' <=> Busy(j)
      /\ \A j \in DOMAIN pumps : Busy(j) => pumps'[j].target = pumps[j].target
      /\ Stopped' = Stopped
  BY <1>p DEF Busy, Stopped
<1>k. Object(k) \in ToSet(targets)
  BY BusyPump
<1>1. Types'
  BY <1>0, <1>u, <1>p, <1>k DEF Types
<1>2. Listing' /\ Listed'
  <2>1. pumps' # << >>
    BY <1>p
  <2> QED BY <1>0, <1>u, <2>1 DEF Listing, Listed, Wanted
<1>3. Apart'
  BY <1>0, <1>u, <1>p, <1>b DEF Apart
<1>4. Stops'
  BY <1>0, <1>u, <1>p, <1>b DEF Stops
<1>5. Reading'
  <2> SUFFICES ASSUME NEW j \in DOMAIN pumps
      PROVE  /\ Busy(j)' => Collected(pumps[j], Object(j))'
             /\ Busy(j)' /\ Object(j)' \notin unread' => First(pumps[j], Object(j), byTime)'
             /\ ~ Busy(j)' => pumps'[j].hits = << >>
    BY <1>p DEF Reading
  <2>1. CASE j = k
    <3>1. Object(k)' = Object(k) /\ pumps'[k] = q
      BY <1>u, <1>p DEF Object
    <3>2. /\ Collected(pumps[k], Object(k))'
          /\ (Object(k)' \notin unread' => First(pumps[k], Object(k), byTime)')
      BY <1>u, <3>1 DEF Collected, First, Kept
    <3> QED BY <2>1, <1>b, <3>2
  <2>2. CASE j # k
    <3>1. Object(j)' = Object(j) /\ pumps'[j] = pumps[j]
      BY <2>2, <1>u, <1>p DEF Object
    <3>2. Collected(pumps[j], Object(j)) => Collected(pumps[j], Object(j))'
      BY <1>u, <3>1 DEF Collected
    <3>3. First(pumps[j], Object(j), byTime) => First(pumps[j], Object(j), byTime)'
      BY <1>u, <3>1 DEF First, Kept
    <3> QED BY <2>2, <1>0, <1>b, <3>1, <3>2, <3>3 DEF Reading
  <2> QED BY <2>1, <2>2
<1>6. Answers'
  <2>1. \A i \in DOMAIN targets : Answered(i)' <=> Answered(i)
    BY <1>u, <1>p, <1>b DEF Answered
  <2>2. \A o : (Answer(o) => Answer(o)') /\ (NotYet(o) => NotYet(o)')
    BY <1>u, AnswerStays
  <2>3. \A i \in DOMAIN targets : Answered(i)' => Answer(targets[i])'
    BY <1>0, <1>u, <2>1, <2>2 DEF Answers
  <2>4. \A i \in DOMAIN targets : ~ Answered(i)' => NotYet(targets[i])'
    BY <1>0, <1>u, <2>1, <2>2 DEF Answers
  <2>5. unread' = {} => unread = {}
    OBVIOUS
  <2> QED BY <1>0, <1>u, <2>3, <2>4, <2>5 DEF Answers
<1>7. InPlace'
  BY <1>u DEF InPlace, Done
<1> QED BY <1>1, <1>2, <1>3, <1>4, <1>5, <1>6, <1>7 DEF IInv

-----------------------------------------------------------------------------
(* Reading a target.                                                       *)

\* What a reading pump reads.
LEMMA ReadsWhat ==
  ASSUME IInv, NEW k \in DOMAIN pumps, Reads(k)
  PROVE  /\ phase = "scan" /\ Busy(k) /\ pumps[k].at = "reads"
         /\ pumps[k] \in Pumps /\ Object(k) \in Objects /\ Collected(pumps[k], Object(k))
         /\ pumps[k].unit \in 0..Len(Units[Object(k)]) /\ Len(Units[Object(k)]) \in Nat
         /\ Object(k) \notin unread => First(pumps[k], Object(k), byTime)
         /\ search.max_hits \in Nat
<1>1. phase = "scan" /\ Busy(k) /\ pumps[k].at = "reads" /\ pumps[k].unit <= Len(Units[Object(k)])
  BY DEF Reads, Busy
<1>2. pumps[k] \in Pumps /\ Object(k) \in Objects /\ Collected(pumps[k], Object(k))
  BY <1>1, BusyPump
<1>3. Len(Units[Object(k)]) \in Nat
  BY <1>2, UpToAll
<1>4. pumps[k].unit \in Nat
  BY <1>2 DEF Pumps
<1>5. Object(k) \notin unread => First(pumps[k], Object(k), byTime)
  BY <1>1 DEF IInv, Reading
<1>6. search.max_hits \in Nat
  BY SearchType DEF IInv, Types
<1> QED BY <1>1, <1>2, <1>3, <1>4, <1>5, <1>6

\* A unit, or the list of the units, cannot be read.
LEMMA MissStep ==
  ASSUME IInv, NEW k \in DOMAIN pumps, Miss(k)
  PROVE  IInv'
<1> DEFINE p == pumps[k]
           o == Object(k)
<1>0. Reads(k) /\ UNCHANGED unchangedByReads /\ byTime' = byTime /\ unread' = unread \cup {o}
  BY DEF Miss
<1>1. /\ phase = "scan" /\ Busy(k) /\ p.at = "reads" /\ p \in Pumps /\ o \in Objects
      /\ Collected(p, o) /\ p.unit \in 0..Len(Units[o]) /\ Len(Units[o]) \in Nat
  BY <1>0, ReadsWhat
<1>2. byTime \in BOOLEAN
  BY DEF IInv, Types
<1>3. CASE p.unit = 0
  <2> DEFINE q == [p EXCEPT !.at = "ends"]
  <2>1. Set(k, q)
    BY <1>3 DEF Miss
  <2>2. q \in Pumps /\ q.at = "ends" /\ q.target = p.target /\ q.unit = p.unit /\ q.hits = p.hits
    BY <1>1 DEF Pumps
  <2> HIDE DEF q
  <2>3. Collected(q, o)
    BY <1>1, <2>2 DEF Collected
  <2> QED BY <1>0, <1>1, <1>2, <2>1, <2>2, <2>3, ReadStep
<1>4. CASE p.unit # 0
  <2> DEFINE q == [p EXCEPT !.unit = p.unit + 1]
  <2>1. Set(k, q)
    BY <1>4 DEF Miss
  <2>2. q \in Pumps /\ q.at = "reads" /\ q.target = p.target /\ q.unit = p.unit + 1
        /\ q.hits = p.hits
    BY <1>1 DEF Pumps
  <2> HIDE DEF q
  <2>3. Collected(q, o)
    <3>1. HitsOf(p.hits, o, p.unit - 1)
      BY <1>1 DEF Collected
    <3>2. HitsOf(p.hits, o, p.unit)
      <4>1. p.hits \in Seq(Hits) /\ IsInjective(p.hits)
        BY <3>1 DEF HitsOf
      <4>2. \A h \in ToSet(p.hits) : h.unit \in Nat
        BY <4>1, ElementOfSeq, LenProperties DEF ToSet, Hits
      <4>3. \A h \in ToSet(p.hits) : h.object = o /\ h.unit <= p.unit
        BY <3>1, <4>2, <1>1 DEF HitsOf
      <4> QED BY <4>1, <4>3 DEF HitsOf
    <3>3. (p.unit + 1) - 1 = p.unit /\ p.unit + 1 <= Len(Units[o]) + 1
      BY <1>1
    <3> QED BY <2>2, <1>1, <3>2, <3>3 DEF Collected
  <2> QED BY <1>0, <1>1, <1>2, <2>1, <2>2, <2>3, ReadStep
<1> QED BY <1>3, <1>4

\* The list of the units of a function group is read.
LEMMA ListStep ==
  ASSUME IInv, NEW k \in DOMAIN pumps, List(k)
  PROVE  IInv'
<1> DEFINE p == pumps[k]
           o == Object(k)
           q == [p EXCEPT !.unit = 1]
<1>0. /\ Reads(k) /\ UNCHANGED unchangedByReads /\ byTime' = byTime /\ unread' = unread
      /\ Set(k, q) /\ p.unit = 0
  BY DEF List
<1>1. /\ phase = "scan" /\ Busy(k) /\ p.at = "reads" /\ p \in Pumps /\ o \in Objects
      /\ Collected(p, o) /\ Len(Units[o]) \in Nat
      /\ o \notin unread => First(p, o, byTime)
  BY <1>0, ReadsWhat
<1>2. byTime \in BOOLEAN
  BY DEF IInv, Types
<1>3. /\ q \in Pumps /\ q.at = "reads" /\ q.target = p.target /\ q.unit = 1 /\ q.hits = p.hits
      /\ q.cap = p.cap
  BY <1>1 DEF Pumps
<1> HIDE DEF q
<1>4. Collected(q, o)
  <2>1. HitsOf(p.hits, o, 0 - 1) /\ Len(p.hits) <= search.max_hits
    BY <1>0, <1>1 DEF Collected
  <2>2. p.hits \in Seq(Hits) /\ IsInjective(p.hits)
    BY <2>1 DEF HitsOf
  <2>3. \A h \in ToSet(p.hits) : h.unit \in Nat
    BY <2>2, ElementOfSeq, LenProperties DEF ToSet, Hits
  <2>4. \A h \in ToSet(p.hits) : h.object = o /\ h.unit <= 0
    BY <2>1, <2>3 DEF HitsOf
  <2>5. HitsOf(p.hits, o, 1 - 1) /\ 1 <= Len(Units[o]) + 1
    BY <2>2, <2>4, <1>1 DEF HitsOf
  <2> QED BY <2>1, <2>5, <1>3 DEF Collected
<1>5. o \notin unread => First(q, o, byTime)
  <2> SUFFICES ASSUME First(p, o, byTime) PROVE First(q, o, byTime)
    BY <1>1
  <2>1. ~ p.cap /\ p.hits = HitsUpTo(o, 0)
    BY <1>0, <1>1 DEF First
  <2>2. ~ q.cap /\ q.hits = HitsUpTo(o, 1 - 1)
    BY <2>1, <1>3
  <2> QED BY <2>2, <1>3 DEF First
<1> QED BY <1>0, <1>1, <1>2, <1>3, <1>4, <1>5, ReadStep

\* A unit is read in time.
LEMMA ScanStep ==
  ASSUME IInv, NEW k \in DOMAIN pumps, Scan(k)
  PROVE  IInv'
<1> DEFINE p == pumps[k]
           o == Object(k)
           remaining == search.max_hits - Len(p.hits)
           capped == Units[o][p.unit].matches > remaining
           q == [p EXCEPT !.hits = @ \o HitsIn(o, p.unit, remaining),
                          !.cap = capped, !.unit = p.unit + 1,
                          !.at = IF capped THEN "ends" ELSE "reads"]
<1>0. /\ Reads(k) /\ UNCHANGED unchangedByReads /\ byTime' = byTime /\ unread' = unread
      /\ Set(k, q) /\ p.unit > 0
  BY DEF Scan
<1>1. /\ phase = "scan" /\ Busy(k) /\ p.at = "reads" /\ p \in Pumps /\ o \in Objects
      /\ Collected(p, o) /\ p.unit \in 0..Len(Units[o]) /\ Len(Units[o]) \in Nat
      /\ o \notin unread => First(p, o, byTime)
      /\ search.max_hits \in Nat
  BY <1>0, ReadsWhat
<1>2. byTime \in BOOLEAN
  BY DEF IInv, Types
<1>3. p.unit \in 1..Len(Units[o])
  BY <1>0, <1>1
<1>4. capped \in BOOLEAN
  OBVIOUS
<1>5. /\ q \in Pumps /\ q.at \in {"reads", "ends"} /\ q.target = p.target
      /\ Collected(q, o)
      /\ First(p, o, byTime) => First(q, o, byTime)
  <2> HIDE DEF o, p
  <2> QED BY <1>1, <1>3, Scanned
<1> HIDE DEF q
<1> QED BY <1>0, <1>1, <1>2, <1>5, ReadStep

\* A unit is read too late.
LEMMA CutOffStep ==
  ASSUME IInv, NEW k \in DOMAIN pumps, CutOff(k)
  PROVE  IInv'
<1> DEFINE p == pumps[k]
           o == Object(k)
           q == [p EXCEPT !.at = "ends"]
<1>0. /\ Reads(k) /\ UNCHANGED unchangedByReads /\ byTime' = TRUE /\ unread' = unread
      /\ Set(k, q) /\ p.unit > 0
  BY DEF CutOff
<1>1. /\ phase = "scan" /\ Busy(k) /\ p.at = "reads" /\ p \in Pumps /\ o \in Objects
      /\ Collected(p, o) /\ p.unit \in 0..Len(Units[o]) /\ Len(Units[o]) \in Nat
      /\ o \notin unread => First(p, o, byTime)
  BY <1>0, ReadsWhat
<1>3. /\ q \in Pumps /\ q.at = "ends" /\ q.target = p.target /\ q.unit = p.unit /\ q.hits = p.hits
      /\ q.cap = p.cap
  BY <1>1 DEF Pumps
<1> HIDE DEF q
<1>4. Collected(q, o)
  BY <1>1, <1>3 DEF Collected
<1>5. o \notin unread => First(q, o, TRUE)
  <2> SUFFICES ASSUME First(p, o, byTime) PROVE First(q, o, TRUE)
    BY <1>1
  <2>1. ~ p.cap /\ p.hits = HitsUpTo(o, p.unit - 1)
    BY <1>0, <1>1 DEF First
  <2>2. p.unit - 1 \in 0..Len(Units[o])
    BY <1>0, <1>1
  <2>3. Begins(p.hits, AllHits(o))
    BY <1>1, <2>1, <2>2, UpToBegins
  <2> QED BY <2>1, <2>3, <1>3 DEF First
<1> QED BY <1>0, <1>1, <1>3, <1>4, <1>5, ReadStep

-----------------------------------------------------------------------------
(* Taking a target.                                                        *)

\* A free pump has no hits.
LEMMA FreePump ==
  Free \in Pumps /\ Free.at = "free" /\ Free.hits = << >> /\ Free.cap = FALSE
<1>1. << >> \in Seq(Hits)
  BY EmptySeq
<1>2. Free \in Pumps
  BY <1>1 DEF Free, Pumps
<1> QED BY <1>2 DEF Free

\* What a free pump becomes.
LEMMA FreePumpStops ==
  LET q == [Free EXCEPT !.at = "stopped"]
  IN q \in Pumps /\ q.at = "stopped" /\ q.hits = << >>
BY FreePump DEF Pumps

\* A pump stops: it is too late, or nothing is left.
LEMMA StopStep ==
  ASSUME IInv, phase = "scan", NEW k \in DOMAIN pumps, pumps[k].at = "free",
         Set(k, [Free EXCEPT !.at = "stopped"]),
         UNCHANGED <<search, phase, listing, targets, late, byMax, results, noHits, byCap, unread>>,
         byTime' \in BOOLEAN, byTime => byTime',
         \/ next' = next /\ byTime'
         \/ next' = next + 1 /\ next > Len(targets)
  PROVE  IInv'
<1> DEFINE q == [Free EXCEPT !.at = "stopped"]
<1>0. Types /\ Listing /\ Listed /\ Apart /\ Stops /\ Reading /\ Answers
  BY DEF IInv
<1>u. /\ search' = search /\ phase' = phase /\ left' = left /\ packages' = packages
      /\ found' = found /\ targets' = targets /\ late' = late /\ byMax' = byMax
      /\ results' = results /\ noHits' = noHits /\ byCap' = byCap /\ unread' = unread
  BY DEF listing
<1>q. q \in Pumps /\ q.at = "stopped" /\ q.hits = << >>
  BY FreePumpStops
<1> HIDE DEF q
<1>p. /\ pumps' \in Seq(Pumps) /\ DOMAIN pumps' = DOMAIN pumps
      /\ Len(pumps') = Len(pumps) /\ pumps'[k] = q
      /\ \A j \in DOMAIN pumps : j # k => pumps'[j] = pumps[j]
  <2>1. Set(k, q)
    BY DEF q
  <2> QED BY <1>0, <1>q, <2>1, OnePump DEF Types
<1>b. /\ \A j \in DOMAIN pumps : Busy(j)' <=> Busy(j)
      /\ \A j \in DOMAIN pumps : Busy(j) => pumps'[j] = pumps[j]
      /\ Stopped' = Stopped \cup {k} /\ k \notin Stopped
  BY <1>p, <1>q DEF Busy, Stopped
<1>n. /\ next \in Nat \ {0} /\ next' \in Nat \ {0} /\ Len(targets) \in Nat /\ next <= next'
      /\ DOMAIN targets = 1..Len(targets)
      /\ \A i \in 1..Len(targets) : i < next' <=> i < next
  BY <1>0, LenProperties DEF Types
<1>1. Types'
  BY <1>0, <1>u, <1>p, <1>n DEF Types
<1>2. Listing' /\ Listed'
  <2>1. pumps' # << >>
    BY <1>p
  <2> QED BY <1>0, <1>u, <2>1 DEF Listing, Listed, Wanted
<1>3. Apart'
  BY <1>0, <1>u, <1>p, <1>b, <1>n DEF Apart
<1>4. Stops'
  <2>1. IsFiniteSet(Stopped)
    <3>1. IsFiniteSet(DOMAIN pumps)
      <4>1. DOMAIN pumps = 1..Len(pumps) /\ Len(pumps) \in Nat
        BY <1>0, LenProperties DEF Types
      <4> QED BY <4>1, FS_Interval
    <3> QED BY <3>1, FS_Subset DEF Stopped
  <2>2. Cardinality(Stopped') = Cardinality(Stopped) + 1 /\ Cardinality(Stopped) \in Nat
    BY <2>1, <1>b, FS_AddElement, FS_CardinalityType
  <2>3. \A j \in Stopped' : byTime' \/ next' > Len(targets)
    BY <1>0, <1>b, <1>n DEF Stops
  <2>4. next' <= Len(targets) + Cardinality(Stopped') + 1
    BY <1>0, <1>n, <2>2 DEF Stops
  <2>5. phase' # "done"
    BY <1>u
  <2> QED BY <1>u, <2>3, <2>4, <2>5 DEF Stops
<1>5. Reading'
  <2> SUFFICES ASSUME NEW j \in DOMAIN pumps
      PROVE  /\ Busy(j)' => Collected(pumps[j], Object(j))'
             /\ Busy(j)' /\ Object(j)' \notin unread' => First(pumps[j], Object(j), byTime)'
             /\ ~ Busy(j)' => pumps'[j].hits = << >>
    BY <1>p DEF Reading
  <2>1. CASE Busy(j)
    <3>1. Object(j)' = Object(j) /\ pumps'[j] = pumps[j]
      BY <2>1, <1>u, <1>b DEF Object
    <3>2. Collected(pumps[j], Object(j)) => Collected(pumps[j], Object(j))'
      BY <1>u, <3>1 DEF Collected
    <3>3. First(pumps[j], Object(j), byTime) => First(pumps[j], Object(j), byTime)'
      BY <1>u, <3>1 DEF First, Kept
    <3> QED BY <2>1, <1>0, <1>u, <1>b, <3>1, <3>2, <3>3 DEF Reading
  <2>2. CASE ~ Busy(j)
    <3>1. pumps'[j].hits = << >>
      BY <2>2, <1>0, <1>p, <1>q DEF Reading
    <3> QED BY <2>2, <1>b, <3>1
  <2> QED BY <2>1, <2>2
<1>6. Answers'
  <2>1. \A i \in DOMAIN targets : Answered(i)' <=> Answered(i)
    BY <1>u, <1>p, <1>b, <1>n DEF Answered
  <2>2. \A o : (Answer(o) => Answer(o)') /\ (NotYet(o) => NotYet(o)')
    BY <1>u, AnswerStays
  <2>3. \A i \in DOMAIN targets : Answered(i)' => Answer(targets[i])'
    BY <1>0, <1>u, <2>1, <2>2 DEF Answers
  <2>4. \A i \in DOMAIN targets : ~ Answered(i)' => NotYet(targets[i])'
    BY <1>0, <1>u, <2>1, <2>2 DEF Answers
  <2> QED BY <1>0, <1>u, <2>3, <2>4 DEF Answers
<1>7. InPlace'
  BY <1>u DEF InPlace, Done
<1> QED BY <1>1, <1>2, <1>3, <1>4, <1>5, <1>6, <1>7 DEF IInv

\* A pump takes the next target.
LEMMA TakeOneStep ==
  ASSUME IInv, phase = "scan", NEW k \in DOMAIN pumps, pumps[k].at = "free",
         next <= Len(targets),
         Set(k, [Free EXCEPT !.at = "reads", !.target = next,
                     !.unit = IF targets[next][2] = FUGR THEN 0 ELSE 1]),
         next' = next + 1,
         UNCHANGED <<search, phase, listing, targets, late, byMax, byTime, results, noHits,
                     byCap, unread>>
  PROVE  IInv'
<1> DEFINE v == IF targets[next][2] = FUGR THEN 0 ELSE 1
           q == [Free EXCEPT !.at = "reads", !.target = next, !.unit = v]
           o == targets[next]
<1>0. Types /\ Listing /\ Listed /\ Apart /\ Stops /\ Reading /\ Answers
  BY DEF IInv
<1>u. /\ search' = search /\ phase' = phase /\ left' = left /\ packages' = packages
      /\ found' = found /\ targets' = targets /\ late' = late /\ byMax' = byMax
      /\ results' = results /\ noHits' = noHits /\ byCap' = byCap /\ unread' = unread
      /\ byTime' = byTime
  BY DEF listing
<1>n. /\ next \in 1..Len(targets) /\ next \in Nat /\ Len(targets) \in Nat /\ o \in Objects
      /\ DOMAIN targets = 1..Len(targets)
  BY <1>0, LenProperties, ElementOfSeq DEF Types
<1>v. v \in {0, 1}
  OBVIOUS
<1> HIDE DEF v
<1>q. /\ q \in Pumps /\ q.at = "reads" /\ q.hits = << >> /\ q.target = next /\ q.unit = v
      /\ q.cap = FALSE
  <2>1. v \in Nat
    BY <1>v
  <2>2. q = [Free EXCEPT !.at = "reads", !.target = next, !.unit = v]
    OBVIOUS
  <2> HIDE DEF q
  <2> QED BY ONLY <2>1, <2>2, <1>n, FreePump DEF Pumps
<1>p. /\ pumps' \in Seq(Pumps) /\ DOMAIN pumps' = DOMAIN pumps
      /\ Len(pumps') = Len(pumps) /\ pumps'[k] = q
      /\ \A j \in DOMAIN pumps : j # k => pumps'[j] = pumps[j]
  <2>1. Set(k, q)
    BY DEF q, v
  <2> HIDE DEF q
  <2> QED BY <1>0, <1>q, <2>1, OnePump DEF Types
<1> HIDE DEF q
<1>b. /\ \A j \in DOMAIN pumps : Busy(j)' <=> Busy(j) \/ j = k
      /\ ~ Busy(k)
      /\ Stopped' = Stopped
  BY <1>p, <1>q DEF Busy, Stopped
<1>1. Types'
  BY <1>0, <1>u, <1>p, <1>n DEF Types
<1>2. Listing' /\ Listed'
  <2>1. pumps' # << >>
    BY <1>p
  <2> QED BY <1>0, <1>u, <2>1 DEF Listing, Listed, Wanted
<1>t. \A j \in DOMAIN pumps : Busy(j) => pumps[j].target \in 1..Len(targets) /\ pumps[j].target < next
  BY <1>0 DEF Apart
<1>3. Apart'
  <2> SUFFICES ASSUME NEW i \in DOMAIN pumps, Busy(i)'
      PROVE  /\ pumps'[i].target \in 1..Len(targets) /\ pumps'[i].target < next + 1
             /\ \A j \in DOMAIN pumps : Busy(j)' /\ pumps'[j].target = pumps'[i].target => j = i
    BY <1>u, <1>p DEF Apart
  <2>1. CASE i = k
    BY <2>1, <1>n, <1>p, <1>q, <1>b, <1>t
  <2>2. CASE i # k
    <3>1. Busy(i) /\ pumps'[i] = pumps[i]
      BY <2>2, <1>b, <1>p
    <3>2. pumps'[i].target \in 1..Len(targets) /\ pumps'[i].target < next
      BY <3>1, <1>t
    <3>3. ASSUME NEW j \in DOMAIN pumps, Busy(j)', pumps'[j].target = pumps'[i].target
          PROVE  j = i
      <4>1. j # k
        BY <3>2, <3>3, <1>n, <1>p, <1>q
      <4> QED BY <4>1, <3>1, <3>3, <1>0, <1>b, <1>p DEF Apart
    <3> QED BY <3>2, <3>3, <1>n
  <2> QED BY <2>1, <2>2
<1>4. Stops'
  <2>1. IsFiniteSet(Stopped)
    <3>1. IsFiniteSet(DOMAIN pumps)
      <4>1. DOMAIN pumps = 1..Len(pumps) /\ Len(pumps) \in Nat
        BY <1>0, LenProperties DEF Types
      <4> QED BY <4>1, FS_Interval
    <3> QED BY <3>1, FS_Subset DEF Stopped
  <2>2. Cardinality(Stopped) \in Nat
    BY <2>1, FS_CardinalityType
  <2>3. next' <= Len(targets) + Cardinality(Stopped) + 1
    BY <1>n, <2>2
  <2>4. \A j \in Stopped : byTime \/ next' > Len(targets)
    BY <1>0, <1>n DEF Stops
  <2>5. phase' # "done"
    BY <1>u
  <2> QED BY <1>u, <1>b, <2>3, <2>4, <2>5 DEF Stops
<1>5. Reading'
  <2> SUFFICES ASSUME NEW j \in DOMAIN pumps
      PROVE  /\ Busy(j)' => Collected(pumps[j], Object(j))'
             /\ Busy(j)' /\ Object(j)' \notin unread' => First(pumps[j], Object(j), byTime)'
             /\ ~ Busy(j)' => pumps'[j].hits = << >>
    BY <1>p DEF Reading
  <2>1. CASE j = k
    <3>1. Object(k)' = o /\ pumps'[k] = q
      BY <1>u, <1>p, <1>q DEF Object
    <3>2. Len(Units[o]) \in Nat /\ HitsUpTo(o, 0) = << >>
      BY <1>n, UpToAll, UpToNone
    <3>3. search.max_hits \in Nat
      BY <1>0, SearchType DEF Types
    <3>4. Collected(q, o)
      <4>1. << >> \in Seq(Hits) /\ DOMAIN << >> = {}
        BY EmptySeq
      <4>2. HitsOf(<< >>, o, v - 1)
        BY <4>1 DEF HitsOf, ToSet, IsInjective
      <4>3. v <= Len(Units[o]) + 1 /\ Len(<< >>) <= search.max_hits
        BY <1>v, <3>2, <3>3
      <4> QED BY <4>2, <4>3, <1>q DEF Collected
    <3>5. First(q, o, byTime)
      <4>1. (IF v = 0 THEN 0 ELSE v - 1) = 0
        BY <1>v
      <4> QED BY <4>1, <3>2, <1>q DEF First
    <3>6. Collected(pumps[k], Object(k))' /\ First(pumps[k], Object(k), byTime)'
      BY <1>u, <3>1, <3>4, <3>5 DEF Collected, First, Kept
    <3> QED BY <2>1, <1>b, <3>6
  <2>2. CASE j # k
    <3>1. pumps'[j] = pumps[j] /\ Object(j)' = Object(j) /\ (Busy(j)' <=> Busy(j))
      BY <2>2, <1>u, <1>b, <1>p DEF Object
    <3>2. Collected(pumps[j], Object(j)) => Collected(pumps[j], Object(j))'
      BY <1>u, <3>1 DEF Collected
    <3>3. First(pumps[j], Object(j), byTime) => First(pumps[j], Object(j), byTime)'
      BY <1>u, <3>1 DEF First, Kept
    <3> QED BY <1>0, <1>u, <3>1, <3>2, <3>3 DEF Reading
  <2> QED BY <2>1, <2>2
<1>6. Answers'
  <2>1. ASSUME NEW i \in DOMAIN targets PROVE Answered(i)' <=> Answered(i)
    <3>1. CASE i = next
      <4>1. ~ Answered(i)
        BY <3>1, <1>n DEF Answered
      <4>2. ~ Answered(i)'
        BY <3>1, <1>b, <1>p, <1>q DEF Answered
      <4> QED BY <4>1, <4>2
    <3>2. CASE i # next
      <4>1. i < next' <=> i < next
        BY <3>2, <1>n
      <4>2. (\A j \in DOMAIN pumps : Busy(j)' => pumps'[j].target # i)
              <=> (\A j \in DOMAIN pumps : Busy(j) => pumps[j].target # i)
        BY <3>2, <1>b, <1>p, <1>q
      <4> QED BY <4>1, <4>2, <1>p DEF Answered
    <3> QED BY <3>1, <3>2
  <2>2. \A x : (Answer(x) => Answer(x)') /\ (NotYet(x) => NotYet(x)')
    BY <1>u, AnswerStays
  <2>3. \A i \in DOMAIN targets : Answered(i)' => Answer(targets[i])'
    BY <1>0, <1>u, <2>1, <2>2 DEF Answers
  <2>4. \A i \in DOMAIN targets : ~ Answered(i)' => NotYet(targets[i])'
    BY <1>0, <1>u, <2>1, <2>2 DEF Answers
  <2> QED BY <1>0, <1>u, <2>3, <2>4 DEF Answers
<1>7. InPlace'
  BY <1>u DEF InPlace, Done
<1> QED BY <1>1, <1>2, <1>3, <1>4, <1>5, <1>6, <1>7 DEF IInv

\* Whatever a free pump does, the invariant stays.
LEMMA TakeStep ==
  ASSUME IInv, NEW k \in DOMAIN pumps, Take(k)
  PROVE  IInv'
<1>0. next \in Nat /\ Len(targets) \in Nat /\ byTime \in BOOLEAN
  BY LenProperties DEF IInv, Types
<1>1. phase = "scan" /\ pumps[k].at = "free"
      /\ UNCHANGED <<search, phase, listing, targets, late, byMax, results, noHits, byCap, unread>>
  BY DEF Take
<1>2. CASE /\ byTime' = TRUE /\ UNCHANGED next
           /\ Set(k, [Free EXCEPT !.at = "stopped"])
  BY <1>1, <1>2, StopStep
<1>3. CASE /\ next > Len(targets) /\ next' = next + 1 /\ UNCHANGED byTime
           /\ Set(k, [Free EXCEPT !.at = "stopped"])
  BY <1>0, <1>1, <1>3, StopStep
<1>4. CASE /\ next <= Len(targets) /\ next' = next + 1 /\ UNCHANGED byTime
           /\ Set(k, [Free EXCEPT !.at = "reads", !.target = next,
                     !.unit = IF targets[next][2] = FUGR THEN 0 ELSE 1])
  BY <1>1, <1>4, TakeOneStep
<1> QED BY <1>2, <1>3, <1>4 DEF Take

-----------------------------------------------------------------------------
(* The end of a target.                                                    *)

\* The entries of two sequences put together.
LEMMA CatSets ==
  ASSUME NEW H, NEW a \in Seq(H), NEW b \in Seq(H)
  PROVE  /\ ToSet(Cat(a, b)) = ToSet(a) \cup ToSet(b)
         /\ IsInjective(a) /\ IsInjective(b) /\ ToSet(a) \cap ToSet(b) = {}
              => IsInjective(Cat(a, b))
<1> DEFINE c == Cat(a, b)
           m == Len(a)
           n == Len(b)
<1>1. /\ c \in Seq(H) /\ Len(c) = m + n /\ m \in Nat /\ n \in Nat
      /\ \A i \in 1..(m + n) : c[i] = IF i <= m THEN a[i] ELSE b[i - m]
  BY CatFacts
<1>2. DOMAIN a = 1..m /\ DOMAIN b = 1..n /\ DOMAIN c = 1..(m + n)
  BY <1>1, LenProperties
<1>3. ToSet(a) = {a[i] : i \in 1..m} /\ ToSet(b) = {b[i] : i \in 1..n}
      /\ ToSet(c) = {c[i] : i \in 1..(m + n)}
  BY <1>2 DEF ToSet
<1> HIDE DEF c, m, n
<1>4. ASSUME NEW i \in 1..m PROVE i \in 1..(m + n) /\ c[i] = a[i]
  BY <1>1
<1>5. ASSUME NEW i \in 1..n PROVE i + m \in 1..(m + n) /\ c[i + m] = b[i]
  <2>1. i + m \in 1..(m + n) /\ ~ (i + m <= m) /\ (i + m) - m = i
    BY <1>1
  <2> QED BY <2>1, <1>1
<1>6. ASSUME NEW i \in 1..(m + n)
      PROVE  \/ i \in 1..m /\ c[i] = a[i]
             \/ i > m /\ i - m \in 1..n /\ c[i] = b[i - m]
  BY <1>1
<1>7. ToSet(c) = ToSet(a) \cup ToSet(b)
  <2>1. ASSUME NEW x \in ToSet(c) PROVE x \in ToSet(a) \cup ToSet(b)
    BY <2>1, <1>3, <1>6
  <2>2. ASSUME NEW x \in ToSet(a) PROVE x \in ToSet(c)
    BY <2>2, <1>3, <1>4
  <2>3. ASSUME NEW x \in ToSet(b) PROVE x \in ToSet(c)
    BY <2>3, <1>3, <1>5
  <2> QED BY <2>1, <2>2, <2>3
<1>8. ASSUME IsInjective(a), IsInjective(b), ToSet(a) \cap ToSet(b) = {},
             NEW i \in 1..(m + n), NEW j \in 1..(m + n), c[i] = c[j]
      PROVE  i = j
  <2>1. CASE i \in 1..m /\ j \in 1..m
    BY <2>1, <1>2, <1>4, <1>8 DEF IsInjective
  <2>2. CASE i > m /\ j > m
    <3>1. i - m \in 1..n /\ j - m \in 1..n /\ b[i - m] = b[j - m]
      BY <2>2, <1>1, <1>6, <1>8
    <3>2. i - m = j - m
      BY <3>1, <1>2, <1>8 DEF IsInjective
    <3> QED BY <3>2, <1>1
  <2>3. CASE i \in 1..m /\ j > m
    <3>1. j - m \in 1..n /\ c[j] = b[j - m]
      BY <2>3, <1>1, <1>6
    <3>2. c[i] \in ToSet(a) /\ c[j] \in ToSet(b)
      BY <2>3, <3>1, <1>3, <1>4
    <3> QED BY <3>2, <1>8
  <2>4. CASE i > m /\ j \in 1..m
    <3>1. i - m \in 1..n /\ c[i] = b[i - m]
      BY <2>4, <1>1, <1>6
    <3>2. c[j] \in ToSet(a) /\ c[i] \in ToSet(b)
      BY <2>4, <3>1, <1>3, <1>4
    <3> QED BY <3>2, <1>8
  <2> QED BY <2>1, <2>2, <2>3, <2>4, <1>6
<1>9. IsInjective(a) /\ IsInjective(b) /\ ToSet(a) \cap ToSet(b) = {} => IsInjective(c)
  BY <1>2, <1>8 DEF IsInjective
<1> QED BY <1>7, <1>9 DEF c

\* A sequence with an entry more.
LEMMA AppendSets ==
  ASSUME NEW H, NEW a \in Seq(H), NEW x \in H
  PROVE  /\ Append(a, x) \in Seq(H) /\ ToSet(Append(a, x)) = ToSet(a) \cup {x}
         /\ IsInjective(a) /\ x \notin ToSet(a) => IsInjective(Append(a, x))
<1> DEFINE c == Append(a, x)
           m == Len(a)
<1>1. /\ c \in Seq(H) /\ Len(c) = m + 1 /\ m \in Nat /\ c[m + 1] = x
      /\ \A i \in 1..m : c[i] = a[i]
  BY AppendProperties, LenProperties
<1>2. DOMAIN a = 1..m /\ DOMAIN c = 1..(m + 1)
  BY <1>1, LenProperties
<1>3. ToSet(a) = {a[i] : i \in 1..m} /\ ToSet(c) = {c[i] : i \in 1..(m + 1)}
  BY <1>2 DEF ToSet
<1> HIDE DEF c, m
<1>4. \A i \in 1..(m + 1) : i = m + 1 \/ i \in 1..m
  BY <1>1
<1>5. m + 1 \in 1..(m + 1) /\ \A i \in 1..m : i \in 1..(m + 1)
  BY <1>1
<1>6. ToSet(c) = ToSet(a) \cup {x}
  BY <1>1, <1>3, <1>4, <1>5
<1>7. IsInjective(a) /\ x \notin ToSet(a) => IsInjective(c)
  <2> SUFFICES ASSUME IsInjective(a), x \notin ToSet(a),
                      NEW i \in 1..(m + 1), NEW j \in 1..(m + 1), c[i] = c[j]
               PROVE  i = j
    BY <1>2 DEF IsInjective
  <2>1. CASE i \in 1..m /\ j \in 1..m
    BY <2>1, <1>1, <1>2 DEF IsInjective
  <2>2. CASE i = m + 1 /\ j \in 1..m
    BY <2>2, <1>1, <1>3
  <2>3. CASE j = m + 1 /\ i \in 1..m
    BY <2>3, <1>1, <1>3
  <2> QED BY <2>1, <2>2, <2>3, <1>4
<1> QED BY <1>1, <1>6, <1>7 DEF c

\* The hits of a target that ends.
LEMMA TargetEnds ==
  ASSUME IInv, NEW k \in DOMAIN pumps, Object(k) \notin unread,
         \/ pumps[k].at = "ends"
         \/ pumps[k].at = "reads" /\ pumps[k].unit > Len(Units[Object(k)])
  PROVE  LET p == pumps[k]
             o == Object(k)
         IN /\ \E n \in 0..Len(Kept(o)) : ToSet(p.hits) = ToSet(SubSeq(Kept(o), 1, n))
            /\ p.cap => Len(AllHits(o)) > search.max_hits
            /\ ~ byTime => /\ ToSet(p.hits) = ToSet(Kept(o))
                           /\ p.cap <=> Len(AllHits(o)) > search.max_hits
<1> DEFINE p == pumps[k]
           o == Object(k)
<1>0. Busy(k)
  BY DEF Busy
<1>1. /\ p \in Pumps /\ o \in Objects /\ Collected(p, o) /\ First(p, o, byTime)
  BY <1>0, BusyPump DEF IInv, Reading
<1>2. search.max_hits \in Nat
  BY SearchType DEF IInv, Types
<1>3. p.hits \in Seq(Hits) /\ Len(p.hits) <= search.max_hits /\ p.unit <= Len(Units[o]) + 1
      /\ p.unit \in Nat /\ p.cap \in BOOLEAN
  BY <1>1 DEF Pumps, Collected
<1>4. Len(Units[o]) \in Nat /\ AllHits(o) = HitsUpTo(o, Len(Units[o])) /\ Len(AllHits(o)) \in Nat
  BY <1>1, UpToAll, AllTheHits
<1>5. /\ Begins(p.hits, AllHits(o))
      /\ p.cap => Len(AllHits(o)) > search.max_hits
      /\ ~ byTime => /\ p.hits = Kept(o)
                     /\ p.cap <=> Len(AllHits(o)) > search.max_hits
  <2>1. CASE p.at = "ends"
    BY <2>1, <1>1 DEF First
  <2>2. CASE p.at = "reads" /\ p.unit > Len(Units[o])
    <3>1. p.unit = Len(Units[o]) + 1
      BY <2>2, <1>3, <1>4
    <3>2. (IF p.unit = 0 THEN 0 ELSE p.unit - 1) = Len(Units[o])
      BY <3>1, <1>4
    <3>3. ~ p.cap /\ p.hits = AllHits(o)
      BY <2>2, <3>2, <1>1, <1>4 DEF First
    <3>4. Begins(p.hits, AllHits(o))
      BY <3>3, <1>4 DEF Begins
    <3>5. p.hits = Kept(o)
      BY <3>3, <3>4, <1>1, <1>2, <1>3, KeptBegins
    <3> QED BY <3>3, <3>4, <3>5, <1>2, <1>3, <1>4
  <2> QED BY <2>1, <2>2
<1>6. Len(p.hits) \in 0..Len(Kept(o)) /\ p.hits = SubSeq(Kept(o), 1, Len(p.hits))
  BY <1>1, <1>2, <1>3, <1>5, KeptBegins
<1>7. \E n \in 0..Len(Kept(o)) : ToSet(p.hits) = ToSet(SubSeq(Kept(o), 1, n))
  BY <1>6
<1> HIDE DEF p, o
<1> QED BY <1>5, <1>7 DEF p, o

\* What Finish adds to the answer: of the target of pump k, and of no other.
LEMMA Added ==
  ASSUME IInv, NEW k \in DOMAIN pumps, Busy(k),
         IF pumps[k].hits = << >> /\ search.emit
           THEN noHits' = Append(noHits, Object(k)) /\ UNCHANGED results
           ELSE results' = results \o pumps[k].hits /\ UNCHANGED noHits
  PROVE  /\ results' \in Seq(Hits) /\ IsInjective(results')
         /\ noHits' \in Seq(Objects) /\ IsInjective(noHits')
         /\ ToSet(results') = ToSet(results) \cup ToSet(pumps[k].hits)
         /\ \A o : o # Object(k) => (o \in ToSet(noHits') <=> o \in ToSet(noHits))
         /\ Object(k) \in ToSet(noHits') <=> search.emit /\ ToSet(pumps[k].hits) = {}
<1> DEFINE o == Object(k)
           s == pumps[k].hits
<1>1. /\ o \in Objects /\ NotYet(o) /\ pumps[k] \in Pumps /\ HitsOf(s, o, pumps[k].unit - 1)
  BY BusyPump DEF Collected
<1>2. s \in Seq(Hits) /\ IsInjective(s) /\ \A h \in ToSet(s) : h.object = o
  BY <1>1 DEF HitsOf
<1>3. /\ results \in Seq(Hits) /\ IsInjective(results)
      /\ noHits \in Seq(Objects) /\ IsInjective(noHits)
      /\ search.emit \in BOOLEAN
  BY SearchType DEF IInv, Types
<1>4. o \notin ToSet(noHits) /\ \A h \in ToSet(results) : h.object # o
  BY <1>1 DEF NotYet, Reported
<1>5. ToSet(results) \cap ToSet(s) = {}
  BY <1>2, <1>4
<1>6. ToSet(s) = {} <=> s = << >>
  <2>1. Len(s) \in Nat /\ DOMAIN s = 1..Len(s) /\ (s = << >> <=> Len(s) = 0)
    BY <1>2, EmptySeq, LenProperties
  <2>2. ToSet(s) = {s[i] : i \in 1..Len(s)}
    BY <2>1 DEF ToSet
  <2>3. Len(s) # 0 => 1 \in 1..Len(s)
    BY <2>1
  <2>4. Len(s) = 0 => 1..Len(s) = {}
    OBVIOUS
  <2> HIDE DEF s
  <2> QED BY <2>1, <2>2, <2>3, <2>4
<1>7. CASE s = << >> /\ search.emit
  <2>1. noHits' = Append(noHits, o) /\ results' = results
    BY <1>7
  <2>2. /\ noHits' \in Seq(Objects) /\ IsInjective(noHits') /\ ToSet(noHits') = ToSet(noHits) \cup {o}
    BY <1>1, <1>3, <1>4, <2>1, AppendSets
  <2> HIDE DEF o, s
  <2> QED BY <1>3, <1>6, <1>7, <2>1, <2>2 DEF o, s
<1>8. CASE ~ (s = << >> /\ search.emit)
  <2>1. results' = Cat(results, s) /\ noHits' = noHits
    BY <1>8 DEF Cat
  <2>2. results' \in Seq(Hits)
    BY <1>2, <1>3, <2>1, CatFacts
  <2>3. IsInjective(results') /\ ToSet(results') = ToSet(results) \cup ToSet(s)
    BY <1>2, <1>3, <1>5, <2>1, CatSets
  <2> HIDE DEF o, s
  <2> QED BY <1>3, <1>4, <1>6, <1>8, <2>1, <2>2, <2>3 DEF o, s
<1> QED BY <1>7, <1>8

\* A target ends.
LEMMA FinishStep ==
  ASSUME IInv, NEW k \in DOMAIN pumps, Finish(k)
  PROVE  IInv'
<1> SUFFICES ASSUME NEW p, p = pumps[k], NEW o, o = Object(k)
             PROVE  IInv'
  OBVIOUS
<1>0. Types /\ Listing /\ Listed /\ Apart /\ Stops /\ Reading /\ Answers
  BY DEF IInv
<1>u. /\ search' = search /\ phase' = phase /\ left' = left /\ packages' = packages
      /\ found' = found /\ targets' = targets /\ late' = late /\ byMax' = byMax
      /\ next' = next /\ byTime' = byTime /\ unread' = unread
      /\ byCap' = (byCap \/ p.cap) /\ Set(k, Free) /\ phase = "scan"
  BY DEF Finish, listing
<1>k. /\ Busy(k)
      /\ \/ p.at = "ends"
         \/ p.at = "reads" /\ p.unit > Len(Units[o])
  BY DEF Finish, Busy
<1>o. /\ p \in Pumps /\ p.target \in DOMAIN targets /\ o \in ToSet(targets) /\ NotYet(o)
      /\ o = targets[p.target] /\ Collected(p, o) /\ p.cap \in BOOLEAN
  BY <1>k, BusyPump DEF Object, Pumps
<1>r. /\ results' \in Seq(Hits) /\ IsInjective(results')
      /\ noHits' \in Seq(Objects) /\ IsInjective(noHits')
      /\ ToSet(results') = ToSet(results) \cup ToSet(p.hits)
      /\ \A x : x # o => (x \in ToSet(noHits') <=> x \in ToSet(noHits))
      /\ o \in ToSet(noHits') <=> search.emit /\ ToSet(p.hits) = {}
  BY <1>k, Added DEF Finish
<1>h. \A h \in ToSet(p.hits) : h.object = o
  BY <1>o DEF Collected, HitsOf
<1>R. Reported(o)' = ToSet(p.hits) /\ \A x : x # o => Reported(x)' = Reported(x)
  BY <1>o, <1>r, <1>h DEF Reported, NotYet
<1>p. /\ pumps' \in Seq(Pumps) /\ DOMAIN pumps' = DOMAIN pumps
      /\ Len(pumps') = Len(pumps) /\ pumps'[k] = Free
      /\ \A j \in DOMAIN pumps : j # k => pumps'[j] = pumps[j]
  BY <1>0, <1>u, FreePump, OnePump DEF Types
<1>b. /\ \A j \in DOMAIN pumps : Busy(j)' <=> Busy(j) /\ j # k
      /\ \A j \in DOMAIN pumps : Busy(j)' => pumps'[j] = pumps[j] /\ Object(j)' = Object(j)
      /\ Stopped' = Stopped
  BY <1>u, <1>k, <1>p, FreePump DEF Busy, Stopped, Object
<1>1. Types'
  BY <1>0, <1>u, <1>o, <1>p, <1>r DEF Types
<1>2. Listing' /\ Listed'
  <2>1. pumps' # << >>
    BY <1>p
  <2> QED BY <1>0, <1>u, <2>1 DEF Listing, Listed, Wanted
<1>3. Apart'
  BY <1>0, <1>u, <1>p, <1>b DEF Apart
<1>4. Stops'
  BY <1>0, <1>u, <1>p, <1>b DEF Stops
<1>5. Reading'
  <2> SUFFICES ASSUME NEW j \in DOMAIN pumps
      PROVE  /\ Busy(j)' => Collected(pumps[j], Object(j))'
             /\ Busy(j)' /\ Object(j)' \notin unread' => First(pumps[j], Object(j), byTime)'
             /\ ~ Busy(j)' => pumps'[j].hits = << >>
    BY <1>p DEF Reading
  <2>1. CASE Busy(j)'
    <3>1. Object(j)' = Object(j) /\ pumps'[j] = pumps[j] /\ Busy(j)
      BY <2>1, <1>b
    <3>2. Collected(pumps[j], Object(j)) => Collected(pumps[j], Object(j))'
      BY <1>u, <3>1 DEF Collected
    <3>3. First(pumps[j], Object(j), byTime) => First(pumps[j], Object(j), byTime)'
      BY <1>u, <3>1 DEF First, Kept
    <3> QED BY <2>1, <1>0, <1>u, <3>1, <3>2, <3>3 DEF Reading
  <2>2. CASE ~ Busy(j)'
    <3>1. pumps'[j].hits = << >>
      BY <2>2, <1>0, <1>p, <1>b, FreePump DEF Reading
    <3> QED BY <2>2, <3>1
  <2> QED BY <2>1, <2>2
<1>6. Answers'
  <2>1. ASSUME NEW i \in DOMAIN targets, i # p.target
        PROVE  (Answered(i)' <=> Answered(i)) /\ targets[i] # o
    <3>1. targets[i] # o
      BY <2>1, <1>0, <1>o DEF Types, IsInjective
    <3>2. (\A j \in DOMAIN pumps : Busy(j)' => pumps'[j].target # i)
            <=> (\A j \in DOMAIN pumps : Busy(j) => pumps[j].target # i)
      BY <2>1, <1>b
    <3> QED BY <3>1, <3>2, <1>u, <1>p DEF Answered
  <2>2. Answered(p.target)'
    <3>1. p.target < next /\ \A j \in DOMAIN pumps : Busy(j) /\ j # k => pumps[j].target # p.target
      BY <1>0, <1>k DEF Apart
    <3> QED BY <3>1, <1>u, <1>p, <1>b DEF Answered
  <2>3. ASSUME NEW x, x # o
        PROVE  (Answer(x) => Answer(x)') /\ (NotYet(x) => NotYet(x)')
    BY <2>3, <1>u, <1>r, <1>R DEF Answer, NotYet, Kept
  <2>4. Answer(o)'
    <3>1. search'.emit => (o \in ToSet(noHits') <=> Reported(o)' = {})
      BY <1>u, <1>r, <1>R
    <3>2. ASSUME o \notin unread
          PROVE  /\ \E n \in 0..Len(Kept(o)) : ToSet(p.hits) = ToSet(SubSeq(Kept(o), 1, n))
                 /\ ~ byTime => /\ ToSet(p.hits) = ToSet(Kept(o))
                                /\ Len(AllHits(o)) > search.max_hits => byCap'
      BY <3>2, <1>k, <1>u, TargetEnds
    <3>3. Kept(o)' = Kept(o)
      BY <1>u DEF Kept
    <3> QED BY <3>1, <3>2, <3>3, <1>u, <1>R DEF Answer
  <2>5. \A i \in DOMAIN targets : Answered(i)' => Answer(targets[i])'
    <3> SUFFICES ASSUME NEW i \in DOMAIN targets, Answered(i)' PROVE Answer(targets[i])'
      OBVIOUS
    <3>1. CASE i = p.target
      BY <3>1, <2>4, <1>o, <1>u
    <3>2. CASE i # p.target
      <4>1. Answered(i) /\ targets[i] # o
        BY <3>2, <2>1
      <4> QED BY <4>1, <2>3, <1>0, <1>u DEF Answers
    <3> QED BY <3>1, <3>2
  <2>6. \A i \in DOMAIN targets : ~ Answered(i)' => NotYet(targets[i])'
    <3> SUFFICES ASSUME NEW i \in DOMAIN targets, ~ Answered(i)' PROVE NotYet(targets[i])'
      OBVIOUS
    <3>1. i # p.target
      BY <2>2
    <3>2. ~ Answered(i) /\ targets[i] # o
      BY <3>1, <2>1
    <3> QED BY <3>2, <2>3, <1>0, <1>u DEF Answers
  <2>7. /\ \A h \in ToSet(results') : h.object \in ToSet(targets)
        /\ ToSet(noHits') \subseteq ToSet(targets)
    BY <1>0, <1>o, <1>r, <1>h DEF Answers
  <2>8. byCap' /\ unread' = {} =>
          \E x \in ToSet(targets) : Len(AllHits(x)) > search.max_hits
    <3>1. p.cap /\ unread = {} => Len(AllHits(o)) > search.max_hits
      BY <1>k, TargetEnds
    <3> QED BY <3>1, <1>0, <1>o, <1>u DEF Answers
  <2> QED BY <2>5, <2>6, <2>7, <2>8, <1>u DEF Answers
<1>7. InPlace'
  BY <1>u DEF InPlace, Done
<1> QED BY <1>1, <1>2, <1>3, <1>4, <1>5, <1>6, <1>7 DEF IInv

-----------------------------------------------------------------------------
(* Before the reading, and after it.                                       *)

\* Before the reading, nothing is promised but what is listed.
LEMMA Quiet ==
  ASSUME Types, Listing, phase \in {"resolve", "enumerate", "error"}
  PROVE  IInv
<1>1. /\ targets = << >> /\ next = 1 /\ pumps = << >>
      /\ results = << >> /\ noHits = << >> /\ unread = {}
      /\ ~ byCap /\ ~ byMax /\ ~ byTime
  BY DEF Listing
<1>2. DOMAIN targets = {} /\ DOMAIN pumps = {} /\ DOMAIN results = {} /\ DOMAIN noHits = {}
      /\ Len(targets) = 0
  BY <1>1
<1>3. Listed /\ InPlace
  BY DEF Listed, InPlace, Done
<1>4. Apart /\ Reading
  BY <1>2 DEF Apart, Reading
<1>5. Stops
  <2>1. Stopped = {}
    BY <1>2 DEF Stopped
  <2>2. Cardinality(Stopped) = 0
    BY <2>1, FS_EmptySet
  <2> QED BY <1>1, <1>2, <2>1, <2>2 DEF Stops
<1>6. Answers
  BY <1>1, <1>2 DEF Answers, ToSet
<1> QED BY <1>3, <1>4, <1>5, <1>6 DEF IInv

\* A call begins with nothing listed.
LEMMA InitInvariant == Init => IInv
<1> SUFFICES ASSUME Init PROVE IInv
  OBVIOUS
<1>1. /\ search \in Searches /\ phase = "resolve" /\ left = search.masks
      /\ packages = search.names /\ found = {} /\ targets = << >> /\ next = 1 /\ pumps = << >>
      /\ late = FALSE /\ results = << >> /\ noHits = << >>
      /\ byCap = FALSE /\ byMax = FALSE /\ byTime = FALSE /\ unread = {}
  BY DEF Init
<1>2. search.names \subseteq DOMAIN Contents /\ search.masks \subseteq DOMAIN NamesOf
  BY <1>1, SearchType
<1>3. IsFiniteSet(found)
  BY <1>1, FS_EmptySet
<1>4. << >> \in Seq(Objects) /\ << >> \in Seq(Pumps) /\ << >> \in Seq(Hits) /\ IsInjective(<< >>)
  BY EmptySeq DEF IsInjective
<1>5. Types
  <2>1. /\ targets \in Seq(Objects) /\ IsInjective(targets) /\ pumps \in Seq(Pumps)
        /\ results \in Seq(Hits) /\ IsInjective(results)
        /\ noHits \in Seq(Objects) /\ IsInjective(noHits)
    BY <1>1, <1>4
  <2>2. /\ packages \subseteq DOMAIN Contents /\ left \subseteq DOMAIN NamesOf
        /\ found \subseteq Objects /\ unread \subseteq ToSet(targets)
    BY <1>1, <1>2
  <2>3. next \in Nat \ {0}
    BY <1>1
  <2>4. late \in BOOLEAN /\ byCap \in BOOLEAN /\ byMax \in BOOLEAN /\ byTime \in BOOLEAN
    BY <1>1, Zenon
  <2> QED BY <1>1, <1>3, <2>1, <2>2, <2>3, <2>4 DEF Types
<1>6. Listing
  <2>1. search.masks \ left = {}
    BY <1>1
  <2> QED BY <1>1, <2>1 DEF Listing
<1> QED BY <1>1, <1>5, <1>6, Quiet

\* A step before the reading keeps what the pumps have: nothing.
LEMMA QuietStep ==
  ASSUME IInv, phase \in {"resolve", "enumerate"},
         phase' \in {"resolve", "enumerate", "error"},
         UNCHANGED <<search, targets, next, pumps, late, byMax, collected>>,
         packages' \subseteq DOMAIN Contents,
         left' \subseteq DOMAIN NamesOf \/ left' \subseteq DOMAIN Contents,
         found' \subseteq Objects, IsFiniteSet(found'),
         phase' = "resolve" =>
           /\ left' \subseteq search.masks /\ found' = {}
           /\ packages' = search.names \cup UNION {NamesOf[m] : m \in search.masks \ left'},
         phase' = "enumerate" =>
           /\ left' \subseteq packages'
           /\ packages' = search.names \cup UNION {NamesOf[m] : m \in search.masks}
           /\ found' = UNION {Contents[p] : p \in packages' \ left'}
  PROVE  IInv'
<1>1. /\ search' = search /\ targets' = targets /\ next' = next /\ pumps' = pumps /\ late' = late
      /\ byMax' = byMax /\ results' = results /\ noHits' = noHits /\ byCap' = byCap
      /\ byTime' = byTime /\ unread' = unread
  BY DEF collected
<1>2. Types'
  BY <1>1 DEF IInv, Types
<1>3. Listing'
  BY <1>1 DEF IInv, Listing
<1>4. (Types /\ Listing /\ phase \in {"resolve", "enumerate", "error"})' => IInv'
  BY Quiet, PTL
<1> QED BY <1>2, <1>3, <1>4

\* A mask is resolved, or the call fails.
LEMMA ResolveStep ==
  ASSUME IInv, Resolve
  PROVE  IInv'
<1>0. /\ phase = "resolve" /\ packages \subseteq DOMAIN Contents /\ found = {} /\ found \subseteq Objects
      /\ IsFiniteSet(found) /\ left \subseteq search.masks
      /\ packages = search.names \cup UNION {NamesOf[m] : m \in search.masks \ left}
      /\ search.masks \subseteq DOMAIN NamesOf
  BY SearchType DEF Resolve, IInv, Types, Listing
<1>1. CASE Fail
  BY <1>0, <1>1, QuietStep DEF Fail, listing
<1>2. CASE \E m \in left :
             /\ left' = left \ {m}
             /\ packages' = packages \cup NamesOf[m]
             /\ UNCHANGED <<search, phase, found, targets, next, pumps, late, byMax, collected>>
  <2>1. PICK m \in left :
             /\ left' = left \ {m}
             /\ packages' = packages \cup NamesOf[m]
             /\ UNCHANGED <<search, phase, found, targets, next, pumps, late, byMax, collected>>
    BY <1>2
  <2>2. NamesOf[m] \subseteq DOMAIN Contents
    BY <1>0, ConstantsAssumption
  <2>3. search.masks \ left' = (search.masks \ left) \cup {m}
    BY <1>0, <2>1
  <2>4. UNION {NamesOf[x] : x \in search.masks \ left'}
          = NamesOf[m] \cup UNION {NamesOf[x] : x \in search.masks \ left}
    BY <2>3
  <2>5. packages' = search.names \cup UNION {NamesOf[x] : x \in search.masks \ left'}
    BY <1>0, <2>1, <2>4
  <2>6. left' \subseteq search.masks /\ left' \subseteq DOMAIN NamesOf /\ packages' \subseteq DOMAIN Contents
    BY <1>0, <2>1, <2>2
  <2> QED BY <1>0, <2>1, <2>5, <2>6, QuietStep
<1> QED BY <1>1, <1>2 DEF Resolve

\* All masks are resolved.
LEMMA ResolvedStep ==
  ASSUME IInv, Resolved
  PROVE  IInv'
<1>0. /\ phase = "resolve" /\ packages \subseteq DOMAIN Contents /\ found = {} /\ found \subseteq Objects
      /\ IsFiniteSet(found) /\ left = {}
      /\ packages = search.names \cup UNION {NamesOf[m] : m \in search.masks \ left}
  BY DEF Resolved, IInv, Types, Listing
<1>1. /\ phase' = "enumerate" /\ left' = packages /\ packages' = packages /\ found' = found
      /\ UNCHANGED <<search, targets, next, pumps, late, byMax, collected>>
  BY DEF Resolved
<1>2. search.masks \ left = search.masks /\ packages' \ left' = {}
  BY <1>0, <1>1
<1>3. found' = UNION {Contents[p] : p \in packages' \ left'}
  BY <1>0, <1>1, <1>2
<1>4. packages' = search.names \cup UNION {NamesOf[m] : m \in search.masks}
  BY <1>0, <1>1, <1>2
<1> QED BY <1>0, <1>1, <1>3, <1>4, QuietStep

\* A package is listed, or the call fails.
LEMMA EnumerateStep ==
  ASSUME IInv, Enumerate
  PROVE  IInv'
<1>0. /\ phase = "enumerate" /\ packages \subseteq DOMAIN Contents /\ found \subseteq Objects
      /\ IsFiniteSet(found) /\ left \subseteq packages
      /\ packages = search.names \cup UNION {NamesOf[m] : m \in search.masks}
      /\ found = UNION {Contents[p] : p \in packages \ left}
  BY DEF Enumerate, IInv, Types, Listing
<1>1. CASE Fail
  <2>1. left \subseteq DOMAIN Contents
    BY <1>0
  <2> QED BY <1>0, <1>1, <2>1, QuietStep DEF Fail, listing
<1>2. CASE \E p \in left :
             /\ left' = left \ {p}
             /\ found' = found \cup Contents[p]
             /\ UNCHANGED <<search, phase, packages, targets, next, pumps, late, byMax, collected>>
  <2>1. PICK p \in left :
             /\ left' = left \ {p}
             /\ found' = found \cup Contents[p]
             /\ UNCHANGED <<search, phase, packages, targets, next, pumps, late, byMax, collected>>
    BY <1>2
  <2>2. Contents[p] \subseteq Objects /\ IsFiniteSet(Contents[p])
    BY <1>0, ConstantsAssumption
  <2>3. IsFiniteSet(found') /\ found' \subseteq Objects
    BY <1>0, <2>1, <2>2, FS_Union
  <2>4. packages' \ left' = (packages \ left) \cup {p}
    BY <1>0, <2>1
  <2>5. found' = UNION {Contents[x] : x \in packages' \ left'}
    BY <1>0, <2>1, <2>4
  <2>6. left' \subseteq packages' /\ left' \subseteq DOMAIN Contents
    BY <1>0, <2>1
  <2> QED BY <1>0, <2>1, <2>3, <2>5, <2>6, QuietStep
<1> QED BY <1>1, <1>2 DEF Enumerate

\* What is listed becomes the targets, and the pumps start.
LEMMA StartStep ==
  ASSUME IInv, Start
  PROVE  IInv'
<1> DEFINE all == Sorted(SetToSeq(found), Earlier)
           kept == SubSeq(all, 1, Least(Len(all), search.max_objects))
           n == Least(search.concurrency, Len(kept))
           m == IF n = 0 THEN 1 ELSE n
<1>0. /\ phase = "enumerate" /\ left = {} /\ packages \subseteq DOMAIN Contents
      /\ found \subseteq Objects /\ IsFiniteSet(found)
      /\ packages = search.names \cup UNION {NamesOf[x] : x \in search.masks}
      /\ found = UNION {Contents[p] : p \in packages \ left}
      /\ next = 1 /\ results = << >> /\ noHits = << >> /\ unread = {}
      /\ ~ byCap /\ ~ byTime /\ late \in BOOLEAN /\ search \in Searches
  BY DEF Start, IInv, Types, Listing
<1>1. /\ byMax' = (Len(all) > search.max_objects) /\ targets' = kept
      /\ pumps' = [k \in 1..m |-> Free]
  BY DEF Start
<1>2. /\ phase' = "scan" /\ search' = search /\ left' = left /\ packages' = packages
      /\ found' = found /\ next' = next /\ late' = late /\ results' = results /\ noHits' = noHits
      /\ byCap' = byCap /\ byTime' = byTime /\ unread' = unread
  BY DEF Start, listing, collected
<1>3. /\ search.max_objects \in Nat \ {0} /\ search.concurrency \in Nat \ {0}
  BY <1>0, SearchType
<1>4. /\ Len(all) = Cardinality(found) /\ Cardinality(found) \in Nat
      /\ kept \in Seq(Objects) /\ IsInjective(kept)
      /\ Len(kept) = Least(Len(all), search.max_objects)
      /\ ToSet(kept) \subseteq found
      /\ Len(all) <= search.max_objects => ToSet(kept) = found
  BY <1>0, <1>3, TargetsOf
<1> HIDE DEF all, kept
<1>5. Len(kept) \in Nat /\ DOMAIN kept = 1..Len(kept)
  BY <1>4, LenProperties
<1>6. m \in Nat \ {0}
  BY <1>3, <1>5 DEF Least
<1> HIDE DEF m
<1>7. /\ pumps' \in Seq(Pumps) /\ DOMAIN pumps' = 1..m /\ pumps' # << >>
      /\ \A k \in DOMAIN pumps' : pumps'[k] = Free
  <2>1. pumps' \in [1..m -> Pumps]
    BY <1>1, FreePump
  <2>2. pumps' \in Seq(Pumps) /\ DOMAIN pumps' = 1..m
    BY <2>1, <1>6
  <2>3. 1 \in DOMAIN pumps'
    BY <2>2, <1>6
  <2> QED BY <1>1, <2>2, <2>3
<1>8. \A k \in DOMAIN pumps' : ~ Busy(k)' /\ pumps'[k].hits = << >> /\ pumps'[k].at = "free"
  BY <1>7, FreePump DEF Busy
<1>9. /\ << >> \in Seq(Objects) /\ << >> \in Seq(Hits) /\ IsInjective(<< >>)
      /\ DOMAIN << >> = {} /\ ToSet(<< >>) = {}
  BY EmptySeq DEF IsInjective, ToSet
<1>10. Types'
  <2>1. byMax' \in BOOLEAN
    BY <1>1
  <2>2. left \subseteq DOMAIN NamesOf
    BY <1>0
  <2>3. /\ targets' \in Seq(Objects) /\ IsInjective(targets')
        /\ results' \in Seq(Hits) /\ IsInjective(results')
        /\ noHits' \in Seq(Objects) /\ IsInjective(noHits')
    BY <1>0, <1>1, <1>2, <1>4, <1>9
  <2>4. /\ packages' \subseteq DOMAIN Contents /\ left' \subseteq DOMAIN NamesOf
        /\ found' \subseteq Objects /\ unread' \subseteq ToSet(targets')
        /\ IsFiniteSet(found') /\ search' \in Searches
    BY <1>0, <1>2, <2>2
  <2>5. next' \in Nat \ {0}
    BY <1>0, <1>2
  <2>6. late' \in BOOLEAN /\ byCap' \in BOOLEAN /\ byTime' \in BOOLEAN
    <3>1. byCap \in BOOLEAN /\ byTime \in BOOLEAN
      BY DEF IInv, Types
    <3> QED BY <1>0, <1>2, <3>1
  <2> QED BY <1>2, <1>7, <2>1, <2>3, <2>4, <2>5, <2>6 DEF Types
<1>11. Listing'
  BY <1>2 DEF Listing
<1>12. Listed'
  <2>1. packages \ left = packages
    BY <1>0
  <2>2. found = Wanted
    BY <1>0, <2>1 DEF Wanted
  <2>3. Wanted' = Wanted
    BY <1>2 DEF Wanted
  <2>4. ~ byMax' => Len(all) <= search.max_objects
    <3>1. Len(all) \in Nat
      BY <1>4
    <3>2. byMax' <=> Len(all) > search.max_objects
      BY <1>1
    <3> QED BY <1>3, <3>1, <3>2
  <2> QED BY <1>1, <1>2, <1>4, <1>7, <2>2, <2>3, <2>4 DEF Listed
<1>13. Apart'
  BY <1>8 DEF Apart
<1>14. Stops'
  <2>1. Stopped' = {}
    BY <1>8 DEF Stopped
  <2>2. Cardinality(Stopped') = 0
    BY <2>1, FS_EmptySet
  <2>3. next' <= Len(targets') + Cardinality(Stopped') + 1
    BY <1>0, <1>1, <1>2, <1>5, <2>2
  <2> QED BY <1>2, <2>1, <2>3 DEF Stops
<1>15. Reading'
  BY <1>8 DEF Reading
<1>16. Answers'
  <2>1. \A i \in DOMAIN targets' : ~ Answered(i)'
    BY <1>0, <1>1, <1>2, <1>5 DEF Answered
  <2>2. \A x : NotYet(x)'
    BY <1>0, <1>2, <1>9 DEF NotYet, Reported
  <2> QED BY <1>0, <1>2, <1>9, <2>1, <2>2 DEF Answers
<1>17. InPlace'
  BY <1>2 DEF InPlace, Done
<1> QED BY <1>10, <1>11, <1>12, <1>13, <1>14, <1>15, <1>16, <1>17 DEF IInv

\* The deadline passes, or nothing happens.
LEMMA LateStep ==
  ASSUME IInv, late' \in BOOLEAN,
         UNCHANGED <<search, phase, listing, targets, next, pumps, byMax, collected>>
  PROVE  IInv'
<1>1. /\ search' = search /\ phase' = phase /\ left' = left /\ packages' = packages
      /\ found' = found /\ targets' = targets /\ next' = next /\ pumps' = pumps
      /\ byMax' = byMax /\ results' = results /\ noHits' = noHits /\ byCap' = byCap
      /\ byTime' = byTime /\ unread' = unread
  BY DEF listing, collected
<1>2. Types' /\ Listing' /\ Listed'
  BY <1>1 DEF IInv, Types, Listing, Listed, Wanted
<1>3. Apart' /\ Stops'
  BY <1>1 DEF IInv, Apart, Stops, Busy, Stopped
<1>4. Reading'
  BY <1>1 DEF IInv, Reading, Busy, Object, Collected, First, Kept
<1>5. Answers' /\ InPlace'
  <2>1. \A x : (Answer(x)' <=> Answer(x)) /\ (NotYet(x)' <=> NotYet(x))
    BY <1>1 DEF Answer, NotYet, Reported, Kept
  <2>2. \A i : Answered(i)' <=> Answered(i)
    BY <1>1 DEF Answered, Busy
  <2>3. Answers'
    BY <1>1, <2>1, <2>2 DEF IInv, Answers
  <2> QED BY <1>1, <2>3 DEF IInv, InPlace, Done
<1> QED BY <1>2, <1>3, <1>4, <1>5 DEF IInv

\* The answer is put in order.
LEMMA EndStep ==
  ASSUME IInv, End
  PROVE  IInv'
<1>0. Types /\ Listing /\ Listed /\ Apart /\ Stops /\ Reading /\ Answers
  BY DEF IInv
<1>1. /\ search' = search /\ phase' = "done" /\ left' = left /\ packages' = packages
      /\ found' = found /\ targets' = targets /\ next' = next /\ pumps' = pumps
      /\ byMax' = byMax /\ byCap' = byCap /\ late' = late
      /\ byTime' = byTime /\ unread' = unread
      /\ results' = Sorted(results, Before) /\ noHits' = Sorted(noHits, Earlier)
      /\ phase = "scan" /\ \A k \in DOMAIN pumps : pumps[k].at = "stopped"
  BY DEF End, listing
<1> DEFINE n == Len(results)
           m == Len(noHits)
<1>2. n \in Nat /\ results \in [1..n -> Hits] /\ m \in Nat /\ noHits \in [1..m -> Objects]
      /\ IsInjective(results) /\ IsInjective(noHits)
  BY <1>0, LenProperties, ElementOfSeq DEF Types
<1> HIDE DEF n, m
<1>3. /\ results' \in [1..n -> Hits] /\ ToSet(results') = ToSet(results) /\ IsInjective(results')
      /\ \A j, k \in 1..n : j < k => ~ Before(results'[k], results'[j])
  BY <1>1, <1>2, SortedHits
<1>4. /\ noHits' \in [1..m -> Objects] /\ ToSet(noHits') = ToSet(noHits) /\ IsInjective(noHits')
      /\ \A j, k \in 1..m : j < k => ~ Earlier(noHits'[k], noHits'[j])
  BY <1>1, <1>2, SortedObjects
<1>5. results' \in Seq(Hits) /\ noHits' \in Seq(Objects)
  BY <1>2, <1>3, <1>4
<1>6. Types' /\ Listing' /\ Listed'
  BY <1>0, <1>1, <1>3, <1>4, <1>5 DEF Types, Listing, Listed, Wanted
<1>7. Apart' /\ Reading'
  BY <1>0, <1>1 DEF Apart, Reading, Busy, Object, Collected, First, Kept
<1>8. Stops'
  <2>1. Stopped' = Stopped /\ Stopped = DOMAIN pumps
    BY <1>1 DEF Stopped
  <2> QED BY <1>0, <1>1, <2>1 DEF Stops
<1>9. Answers'
  <2>1. \A x : Reported(x)' = Reported(x) /\ Kept(x)' = Kept(x)
    BY <1>1, <1>3 DEF Reported, Kept
  <2>2. \A x : (Answer(x)' <=> Answer(x)) /\ (NotYet(x)' <=> NotYet(x))
    BY <1>1, <1>4, <2>1 DEF Answer, NotYet
  <2>3. \A i : Answered(i)' <=> Answered(i)
    BY <1>1 DEF Answered, Busy
  <2> QED BY <1>0, <1>1, <1>3, <1>4, <2>2, <2>3 DEF Answers
<1>10. InPlace'
  <2>1. \A i, j \in DOMAIN results' : i < j => ~ Before(results'[j], results'[i])
    BY <1>3
  <2>2. \A i, j \in DOMAIN noHits' : i < j => ~ Earlier(noHits'[j], noHits'[i])
    BY <1>4
  <2>3. \A x, y : (Before(x, y)' <=> Before(x, y)) /\ (Earlier(x, y)' <=> Earlier(x, y))
    OBVIOUS
  <2> QED BY <2>1, <2>2, <2>3 DEF InPlace
<1> QED BY <1>6, <1>7, <1>8, <1>9, <1>10 DEF IInv

-----------------------------------------------------------------------------
(* The theorems.                                                           *)

\* Every step keeps the invariant.
LEMMA StepInvariant ==
  ASSUME IInv, [Next]_vars
  PROVE  IInv'
<1>1. CASE UNCHANGED vars
  <2>1. /\ late' = late
        /\ UNCHANGED <<search, phase, listing, targets, next, pumps, byMax, collected>>
    BY <1>1 DEF vars
  <2>2. late' \in BOOLEAN
    BY <2>1 DEF IInv, Types
  <2> QED BY <2>1, <2>2, LateStep
<1>2. CASE Elapse
  <2>1. /\ late' = TRUE
        /\ UNCHANGED <<search, phase, listing, targets, next, pumps, byMax, collected>>
    BY <1>2 DEF Elapse
  <2>2. late' \in BOOLEAN
    BY <2>1, Zenon
  <2> QED BY <2>1, <2>2, LateStep
<1>3. CASE Advance
  BY <1>3, ResolveStep, ResolvedStep, EnumerateStep, StartStep, EndStep DEF Advance
<1>4. CASE \E k \in DOMAIN pumps : Pump(k)
  BY <1>4, TakeStep, MissStep, ListStep, ScanStep, CutOffStep, FinishStep DEF Pump
<1> QED BY <1>1, <1>2, <1>3, <1>4 DEF Next

\* So the invariant holds throughout.
LEMMA InvariantHolds == Spec => []IInv
<1>1. IInv /\ [Next]_vars => IInv'
  BY StepInvariant
<1> QED BY InitInvariant, <1>1, PTL DEF Spec

\* The bounds in TypeOK follow: next from the pumps that have stopped.
LEMMA TypesOfAll ==
  ASSUME IInv
  PROVE  TypeOK
<1>1. /\ search \in Searches
      /\ phase \in {"resolve", "enumerate", "scan", "done", "error"}
      /\ left \subseteq DOMAIN NamesOf \/ left \subseteq DOMAIN Contents
      /\ packages \subseteq DOMAIN Contents
      /\ found \subseteq Objects
      /\ targets \in Seq(Objects)
      /\ {late, byCap, byMax, byTime} \subseteq BOOLEAN
      /\ IsInjective(results) /\ IsInjective(noHits)
      /\ unread \subseteq ToSet(targets)
  BY DEF IInv, Types
<1>2. next \in 1..(Len(targets) + Len(pumps) + 1)
  <2>1. /\ next \in Nat \ {0} /\ Len(targets) \in Nat /\ Len(pumps) \in Nat
        /\ DOMAIN pumps = 1..Len(pumps)
    BY LenProperties DEF IInv, Types
  <2>2. IsFiniteSet(DOMAIN pumps) /\ Cardinality(DOMAIN pumps) = Len(pumps)
    <3> DEFINE n == Len(pumps)
    <3> HIDE DEF n
    <3>1. n \in Nat /\ DOMAIN pumps = 1..n
      BY <2>1 DEF n
    <3>2. IsFiniteSet(1..n) /\ Cardinality(1..n) = IF 1 <= n THEN n - 1 + 1 ELSE 0
      BY <3>1, FS_Interval
    <3>3. Cardinality(1..n) = n
      BY <3>1, <3>2
    <3> QED BY <3>1, <3>2, <3>3 DEF n
  <2>3. Cardinality(Stopped) <= Len(pumps) /\ Cardinality(Stopped) \in Nat
    <3>1. Stopped \in SUBSET DOMAIN pumps
      BY DEF Stopped
    <3> QED BY <2>2, <3>1, FS_Subset, FS_CardinalityType
  <2>4. next <= Len(targets) + Cardinality(Stopped) + 1
    BY DEF IInv, Stops
  <2> QED BY <2>1, <2>3, <2>4
<1>3. ASSUME NEW k \in DOMAIN pumps
      PROVE  /\ pumps[k].at \in {"free", "reads", "ends", "stopped"}
             /\ pumps[k].at \in {"reads", "ends"} => pumps[k].target \in 1..(next - 1)
             /\ Len(pumps[k].hits) <= search.max_hits
  <2>1. pumps[k] \in Pumps
    BY ElementOfSeq, LenProperties DEF IInv, Types
  <2>2. pumps[k].at \in {"reads", "ends"} => pumps[k].target \in 1..(next - 1)
    <3> SUFFICES ASSUME Busy(k) PROVE pumps[k].target \in 1..(next - 1)
      BY DEF Busy
    <3>1. pumps[k].target \in 1..Len(targets) /\ pumps[k].target < next
      BY DEF IInv, Apart
    <3>2. next \in Nat /\ Len(targets) \in Nat
      BY LenProperties DEF IInv, Types
    <3> QED BY <3>1, <3>2
  <2>3. Len(pumps[k].hits) <= search.max_hits
    <3>1. search.max_hits \in Nat
      BY SearchType DEF IInv, Types
    <3>2. CASE Busy(k)
      BY <3>2 DEF IInv, Reading, Collected
    <3>3. CASE ~ Busy(k)
      BY <3>1, <3>3 DEF IInv, Reading
    <3> QED BY <3>2, <3>3
  <2> QED BY <2>1, <2>2, <2>3 DEF Pumps
<1> QED BY <1>1, <1>2, <1>3 DEF TypeOK

\* Pumps read different targets, none of which has been answered for.
LEMMA OneReader ==
  ASSUME IInv
  PROVE  EachOnce
<1> SUFFICES ASSUME NEW k \in DOMAIN pumps, Busy(k)
             PROVE  /\ \A j \in DOMAIN pumps \ {k} : Busy(j) => Object(j) # Object(k)
                    /\ Object(k) \notin ToSet(noHits)
                    /\ Reported(Object(k)) = {}
  BY DEF EachOnce, Busy
<1>1. NotYet(Object(k))
  BY BusyPump
<1>2. \A j \in DOMAIN pumps \ {k} : Busy(j) => Object(j) # Object(k)
  BY BusyPumps
<1> QED BY <1>1, <1>2 DEF NotYet

\* When the answer is there, no target is being read, and if nothing was cut off
\* each one has been answered for.
LEMMA AllAnswered ==
  ASSUME IInv, Done
  PROVE  \A o \in ToSet(targets) : Answer(o) \/ (byTime /\ NotYet(o))
<1> SUFFICES ASSUME NEW i \in DOMAIN targets
             PROVE  Answer(targets[i]) \/ (byTime /\ NotYet(targets[i]))
  BY DEF ToSet
<1>1. Stopped = DOMAIN pumps /\ pumps # << >>
  BY DEF IInv, Stops, Listed, Done
<1>2. \A k \in DOMAIN pumps : ~ Busy(k)
  BY <1>1 DEF Stopped, Busy
<1>3. byTime \/ next > Len(targets)
  <2>1. pumps \in Seq(Pumps)
    BY DEF IInv, Types
  <2>2. DOMAIN pumps = 1..Len(pumps) /\ Len(pumps) \in Nat /\ Len(pumps) # 0
    BY <1>1, <2>1, LenProperties, EmptySeq
  <2>3. 1 \in Stopped
    BY <1>1, <2>2
  <2> QED BY <2>3 DEF IInv, Stops
<1>4. i \in 1..Len(targets) /\ Len(targets) \in Nat /\ next \in Nat
  BY LenProperties DEF IInv, Types
<1>5. ~ byTime => Answered(i)
  BY <1>2, <1>3, <1>4 DEF Answered
<1>6. (Answered(i) => Answer(targets[i])) /\ (~ Answered(i) => NotYet(targets[i]))
  BY DEF IInv, Answers
<1> QED BY <1>5, <1>6

\* All hits are kept if the cap leaves none out.
LEMMA AllKept ==
  ASSUME NEW o \in Objects, search.max_hits \in Nat
  PROVE  /\ Len(AllHits(o)) \in Nat /\ Len(Kept(o)) \in Nat /\ Kept(o) \in Seq(Hits)
         /\ Len(AllHits(o)) <= search.max_hits => Kept(o) = AllHits(o)
         /\ Len(AllHits(o)) > search.max_hits => Len(Kept(o)) = search.max_hits
<1> DEFINE all == AllHits(o)
           n == Least(Len(all), search.max_hits)
<1>1. all \in Seq(Hits) /\ Len(all) \in Nat
  BY AllTheHits
<1>2. n \in 0..Len(all) /\ (Len(all) > search.max_hits => n = search.max_hits)
  BY <1>1 DEF Least
<1>3. Kept(o) = SubSeq(all, 1, n)
  BY DEF Kept
<1> HIDE DEF n
<1>4. Kept(o) \in Seq(Hits) /\ Len(Kept(o)) = n
  BY <1>1, <1>2, <1>3, FirstOnes
<1>5. Len(all) <= search.max_hits => Kept(o) = all
  BY <1>1, KeptBegins DEF Begins
<1> QED BY <1>1, <1>2, <1>4, <1>5

\* The targets are objects.
LEMMA TargetTypes ==
  ASSUME IInv
  PROVE  /\ ToSet(targets) \subseteq Objects
         /\ search.max_hits \in Nat \ {0}
         /\ byTime \in BOOLEAN /\ byCap \in BOOLEAN /\ byMax \in BOOLEAN
<1>1. targets \in Seq(Objects) /\ search \in Searches
      /\ byTime \in BOOLEAN /\ byCap \in BOOLEAN /\ byMax \in BOOLEAN
  BY DEF IInv, Types
<1>2. ToSet(targets) \subseteq Objects
  BY <1>1, ElementOfSeq, LenProperties DEF ToSet
<1> QED BY <1>1, <1>2, SearchType

\* Of each target the answer has its first hits.
LEMMA FirstReported ==
  ASSUME IInv
  PROVE  FirstHits
<1> SUFFICES ASSUME Done, NEW o \in ToSet(targets), o \notin unread
             PROVE  /\ \E n \in 0..Len(Kept(o)) : Reported(o) = ToSet(SubSeq(Kept(o), 1, n))
                    /\ ~ byTime => Reported(o) = ToSet(Kept(o))
  BY DEF FirstHits
<1>1. Answer(o) \/ (byTime /\ NotYet(o))
  BY AllAnswered
<1>2. CASE Answer(o)
  BY <1>2 DEF Answer
<1>3. CASE byTime /\ NotYet(o)
  <2>1. o \in Objects /\ search.max_hits \in Nat
    BY TargetTypes
  <2>2. Kept(o) \in Seq(Hits) /\ Len(Kept(o)) \in Nat
    BY <2>1, AllKept
  <2>3. 0 \in 0..Len(Kept(o)) /\ ToSet(SubSeq(Kept(o), 1, 0)) = {}
    <3>1. 0 \in 0..Len(Kept(o))
      BY <2>2
    <3>2. SubSeq(Kept(o), 1, 0) \in Seq(Hits) /\ Len(SubSeq(Kept(o), 1, 0)) = 0
      BY <2>2, <3>1, FirstOnes
    <3>3. DOMAIN SubSeq(Kept(o), 1, 0) = {}
      BY <3>2, LenProperties
    <3> QED BY <3>1, <3>3 DEF ToSet
  <2> QED BY <1>3, <2>3 DEF NotYet
<1> QED BY <1>1, <1>2, <1>3

\* The flags of the two caps say what the caps have left out.
LEMMA FlagsTell ==
  ASSUME IInv
  PROVE  FlagsExact
<1>1. Done => (byMax <=> Cardinality(Wanted) > search.max_objects)
  BY DEF IInv, Listed, Done
<1>2. ASSUME Done, ~ byTime, unread = {}
      PROVE  byCap <=> \E o \in ToSet(targets) : Len(AllHits(o)) > search.max_hits
  <2>1. byCap => \E o \in ToSet(targets) : Len(AllHits(o)) > search.max_hits
    BY <1>2 DEF IInv, Answers
  <2>2. ASSUME NEW o \in ToSet(targets), Len(AllHits(o)) > search.max_hits
        PROVE  byCap
    <3>1. Answer(o)
      BY <1>2, AllAnswered
    <3> QED BY <1>2, <2>2, <3>1 DEF Answer
  <2>3. byCap \in BOOLEAN
    BY TargetTypes
  <2> QED BY <2>1, <2>2, <2>3
<1> QED BY <1>1, <1>2 DEF FlagsExact

\* A target is in one of the two lists.
LEMMA InOneOfTwo ==
  ASSUME IInv
  PROVE  EitherList
<1> SUFFICES ASSUME Done, search.emit
             PROVE  /\ \A o \in ToSet(noHits) : Reported(o) = {}
                    /\ ~ byTime =>
                         \A o \in ToSet(targets) : o \in ToSet(noHits) \/ Reported(o) # {}
  BY DEF EitherList
<1>1. ToSet(noHits) \subseteq ToSet(targets)
  BY DEF IInv, Answers
<1>2. \A o \in ToSet(targets) : Answer(o) \/ (byTime /\ NotYet(o))
  BY AllAnswered
<1> QED BY <1>1, <1>2 DEF Answer, NotYet

\* Without a flag, nothing is left out.
LEMMA NothingLeftOut ==
  ASSUME IInv
  PROVE  Complete
<1> SUFFICES ASSUME Done, ~ byCap, ~ byMax, ~ byTime, unread = {}
             PROVE  /\ ToSet(results) = UNION {ToSet(AllHits(o)) : o \in Wanted}
                    /\ search.emit => ToSet(noHits) = {o \in Wanted : AllHits(o) = << >>}
  BY DEF Complete
<1>1. ToSet(targets) = Wanted
  BY DEF IInv, Listed, Done
<1>2. ASSUME NEW o \in Wanted
      PROVE  /\ Reported(o) = ToSet(AllHits(o))
             /\ ToSet(AllHits(o)) = {} <=> AllHits(o) = << >>
             /\ search.emit => (o \in ToSet(noHits) <=> Reported(o) = {})
  <2>1. Answer(o) /\ o \in Objects /\ search.max_hits \in Nat
    BY <1>1, AllAnswered, TargetTypes
  <2>2. Reported(o) = ToSet(Kept(o)) /\ ~ (Len(AllHits(o)) > search.max_hits)
    BY <2>1 DEF Answer
  <2>3. Kept(o) = AllHits(o)
    BY <2>1, <2>2, AllKept
  <2>4. AllHits(o) \in Seq(Hits)
    BY <2>1, AllTheHits
  <2>5. ToSet(AllHits(o)) = {} <=> AllHits(o) = << >>
    <3> DEFINE s == AllHits(o)
    <3>1. Len(s) \in Nat /\ DOMAIN s = 1..Len(s) /\ (s = << >> <=> Len(s) = 0)
      BY <2>4, EmptySeq, LenProperties
    <3>2. ToSet(s) = {s[i] : i \in 1..Len(s)}
      BY <3>1 DEF ToSet
    <3>3. Len(s) # 0 => 1 \in 1..Len(s)
      BY <3>1
    <3>4. Len(s) = 0 => 1..Len(s) = {}
      OBVIOUS
    <3> HIDE DEF s
    <3>5. ToSet(s) = {} <=> s = << >>
      BY <3>1, <3>2, <3>3, <3>4
    <3> QED BY <3>5 DEF s
  <2> QED BY <2>1, <2>2, <2>3, <2>5 DEF Answer
<1>3. \A h \in ToSet(results) : h.object \in Wanted
  BY <1>1 DEF IInv, Answers
<1>4. ToSet(results) = UNION {ToSet(AllHits(o)) : o \in Wanted}
  <2>1. ASSUME NEW h \in ToSet(results)
        PROVE  h \in UNION {ToSet(AllHits(o)) : o \in Wanted}
    <3>1. h \in Reported(h.object) /\ h.object \in Wanted
      BY <1>3 DEF Reported
    <3> QED BY <3>1, <1>2
  <2>2. ASSUME NEW o \in Wanted, NEW h \in ToSet(AllHits(o))
        PROVE  h \in ToSet(results)
    BY <1>2 DEF Reported
  <2> QED BY <2>1, <2>2
<1>5. search.emit => ToSet(noHits) = {o \in Wanted : AllHits(o) = << >>}
  <2>1. ToSet(noHits) \subseteq Wanted
    BY <1>1 DEF IInv, Answers
  <2> QED BY <1>2, <2>1
<1> QED BY <1>4, <1>5

\* Every variable keeps its type, and next outruns the targets by no more than
\* the pumps that have stopped.
THEOREM TypeCorrect == Spec => []TypeOK
BY InvariantHolds, TypesOfAll, PTL

\* However the pumps interleave, no target is read by two of them or read after
\* it was answered for.
THEOREM EachTargetOnce == Spec => []EachOnce
BY InvariantHolds, OneReader, PTL

\* An answer without a flag has every hit in every object that the packages and
\* masks stand for, whatever their number and that of the pumps.
THEOREM AnswerComplete == Spec => []Complete
BY InvariantHolds, NothingLeftOut, PTL

\* What is answered of a target are its first hits up to the cap, and all of
\* those unless the time was up.
THEOREM FirstHitsOfEach == Spec => []FirstHits
BY InvariantHolds, FirstReported, PTL

\* Each cap is reported if and only if it has left something out.
THEOREM FlagsAreExact == Spec => []FlagsExact
BY InvariantHolds, FlagsTell, PTL

\* No target is in both lists of the answer, and unless the time was up each is
\* in one of them.
THEOREM EachInEitherList == Spec => []EitherList
BY InvariantHolds, InOneOfTwo, PTL

\* The sort at the end leaves no hit before one whose devclass, name, include
\* and line come earlier, although some hits compare equal.
THEOREM AnswerInOrder == Spec => []InPlace
<1>1. IInv => InPlace
  BY DEF IInv
<1> QED BY InvariantHolds, <1>1, PTL

=============================================================================
