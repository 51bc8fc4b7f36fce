------------------------ MODULE SystemProcessProofs ------------------------
(***************************************************************************)
(* What a selection guarantees, for every set of servers, of samples and   *)
(* of bounds.  The chime list and the survivor list are recursive, so the  *)
(* facts about them are proved by the least index that lacks one.          *)
(***************************************************************************)
EXTENDS SystemProcess, FiniteSetTheorems, FunctionTheorems, WellFoundedInduction, TLAPS

----------------------------------------------------------------------------
(* Least elements and recursion.                                           *)

\* A nonempty set of naturals has a least element.
LEMMA LeastNatural ==
  ASSUME NEW T, T \subseteq Nat, T # {}
  PROVE  \E x \in T : \A y \in T : x <= y
<1>1. \E x \in T : \A y \in T : ~ (<<y, x>> \in OpToRel(<, Nat))
  BY WFMin, NatLessThanWellFounded, Zenon
<1>2. \E x \in T : \A y \in T : ~ (y < x)
  <2>1. PICK x \in T : \A y \in T : ~ (<<y, x>> \in OpToRel(<, Nat))
    BY <1>1
  <2>2. ASSUME NEW y \in T, y < x
        PROVE  FALSE
    <3>1. y \in Nat /\ x \in Nat  OBVIOUS
    <3>2. <<y, x>> \in OpToRel(<, Nat)
      BY <2>2, <3>1, Zenon DEF OpToRel
    <3> QED BY <3>2, <2>1
  <2> QED BY <2>2
<1> QED BY <1>2

\* The least of a nonempty set of naturals, as FiniteSetsExt chooses it.
LEMMA MinOfNaturals ==
  ASSUME NEW T, T \subseteq Nat, T # {}
  PROVE  Min(T) \in T /\ \A y \in T : Min(T) <= y
BY LeastNatural DEF Min

\* The greatest of a nonempty set of naturals up to n.
LEMMA MaxOfNaturals ==
  ASSUME NEW n \in Nat, NEW T, T \subseteq 0 .. n, T # {}
  PROVE  Max(T) \in T
<1> DEFINE U == {n - t : t \in T}
<1>1. U \subseteq Nat /\ U # {}  OBVIOUS
<1>2. PICK u \in U : \A y \in U : u <= y
  <2> HIDE DEF U
  <2> QED BY <1>1, LeastNatural
<1>3. PICK t \in T : u = n - t  OBVIOUS
<1>4. \A x \in T : t >= x
  <2> TAKE x \in T
  <2>1. n - x \in U  OBVIOUS
  <2>2. n - t <= n - x  BY <1>2, <1>3, <2>1
  <2> QED BY <2>2
<1>5. \E x \in T : \A y \in T : x >= y
  BY <1>4
<1> QED BY <1>5 DEF Max

\* A function defined by recursion over 0 .. n exists.  Its steps are functions
\* on a set S that all its values are in.
Steps(n, S, b, g) == n \in Nat /\ b \in S /\ g \in [1 .. n -> [S -> S]]

Recursion(n, S, b, g, f) ==
  f \in [0 .. n -> S] /\ f[0] = b /\ \A k \in 1 .. n : f[k] = g[k][f[k - 1]]

\* A function that is defined step by step over 0 .. n exists.
LEMMA RecursiveFunction ==
  ASSUME NEW n, NEW S, NEW b, NEW g, Steps(n, S, b, g)
  PROVE  \E f : Recursion(n, S, b, g, f)
<1> USE DEF Steps
<1> DEFINE Defines(f, k) ==
      f \in [0 .. k -> S] /\ f[0] = b /\ \A i \in 1 .. k : f[i] = g[i][f[i - 1]]
    Lacking == {k \in 0 .. n : ~ \E f : Defines(f, k)}
<1>1. Defines([i \in 0 .. 0 |-> b], 0)  OBVIOUS
<1>2. ASSUME NEW k \in 1 .. n, NEW h, Defines(h, k - 1)
      PROVE  \E f : Defines(f, k)
  <2> DEFINE f == [i \in 0 .. k |-> IF i = k THEN g[k][h[k - 1]] ELSE h[i]]
  <2>1. k - 1 \in 0 .. k - 1  OBVIOUS
  <2>2. h[k - 1] \in S  BY <1>2, <2>1
  <2>3. g[k][h[k - 1]] \in S  BY <2>2
  <2>4. \A i \in 0 .. k : i # k => i \in 0 .. k - 1  OBVIOUS
  <2>5. f \in [0 .. k -> S]  BY <2>3, <2>4, <1>2
  <2>6. f[0] = b  BY <1>2
  <2>7. ASSUME NEW i \in 1 .. k
        PROVE  f[i] = g[i][f[i - 1]]
    <3>1. f[i - 1] = h[i - 1]  OBVIOUS
    <3>2. CASE i = k  BY <3>1, <3>2
    <3>3. CASE i # k
      <4>1. i \in 1 .. k - 1  BY <3>3
      <4>2. f[i] = h[i]  BY <3>3
      <4> QED BY <4>1, <4>2, <3>1, <1>2
    <3> QED BY <3>2, <3>3
  <2> HIDE DEF f
  <2>8. Defines(f, k)  BY <2>5, <2>6, <2>7
  <2> QED BY <2>8
<1> HIDE DEF Defines
<1>3. Lacking = {}
  <2> SUFFICES ASSUME Lacking # {} PROVE FALSE  OBVIOUS
  <2>1. PICK k \in Lacking : \A y \in Lacking : k <= y
    <3>1. Lacking \subseteq Nat  OBVIOUS
    <3> HIDE DEF Lacking
    <3> QED BY <3>1, LeastNatural
  <2>2. k # 0  BY <1>1
  <2>3. k - 1 \in 0 .. n /\ k - 1 \notin Lacking  BY <2>1, <2>2
  <2>4. PICK h : Defines(h, k - 1)  BY <2>3
  <2> QED BY <1>2, <2>4, <2>2
<1> QED BY <1>3 DEF Defines, Recursion

----------------------------------------------------------------------------
(* The chime list.                                                         *)

Refs == {NoRef} \union {a.refid : a \in Samples}

Association ==
  [offset : Int, dist : Nat \ {0}, jitter : Nat, stratum : Nat \ {0},
   refid : Refs, synced : BOOLEAN, reached : BOOLEAN]

Entries(A, F) == UNION {Chimes(A, p) : p \in F}

LeastOf(E) == {e \in E : \A x \in E : e.edge <= x.edge}

\* The lists that extend those of M by one entry.
Longer(E, M) == UNION {{Append(l, e) : e \in LeastOf(E \ Range(l))} : l \in M}

\* The recursion of cull() is well defined: f[k] are the lists of k entries.
CullSteps(A, F, f) ==
  /\ f[0] = {<<>>}
  /\ \A k \in 1 .. Cardinality(Entries(A, F)) : f[k] = Longer(Entries(A, F), f[k - 1])
  /\ cull(A, F) = f[Cardinality(Entries(A, F))]

\* The recursive function of cull() exists, and so equals its definition.
LEMMA CullIsDefined ==
  ASSUME NEW A, NEW F, Cardinality(Entries(A, F)) \in Nat
  PROVE  \E f : CullSteps(A, F, f)
<1> DEFINE E == Entries(A, F)
    n == Cardinality(E)
    S == SUBSET Seq(E)
    g == [k \in 1 .. n |-> [M \in S |-> Longer(E, M)]]
<1>0. n \in Nat  OBVIOUS
<1>1. {<<>>} \in S  OBVIOUS
<1>2. \A M \in S : Longer(E, M) \in S
  <2> TAKE M \in S
  <2>1. ASSUME NEW l \in M, NEW e \in LeastOf(E \ Range(l))
        PROVE  Append(l, e) \in Seq(E)
    <3>1. l \in Seq(E)  OBVIOUS
    <3>2. e \in E  BY DEF LeastOf
    <3> HIDE DEF E
    <3> QED BY <3>1, <3>2
  <2> HIDE DEF E
  <2>2. ASSUME NEW x \in Longer(E, M)
        PROVE  x \in Seq(E)
    <3>1. PICK l \in M : \E e \in LeastOf(E \ Range(l)) : x = Append(l, e)
      BY Zenon DEF Longer
    <3> QED BY <3>1, <2>1, Zenon
  <2> QED BY <2>2
<1> HIDE DEF S, E, n
<1>3. g \in [1 .. n -> [S -> S]]  BY <1>2
<1>4. PICK f \in [0 .. n -> S] : f[0] = {<<>>} /\ \A k \in 1 .. n : f[k] = g[k][f[k - 1]]
  <2> HIDE DEF g
  <2> DEFINE b == {<<>>}
  <2> HIDE DEF b
  <2>1. Steps(n, S, b, g)  BY <1>0, <1>1, <1>3 DEF Steps, b
  <2>2. \E f : Recursion(n, S, b, g, f)  BY <2>1, RecursiveFunction, Zenon
  <2> QED BY <2>2 DEF Recursion, b
<1>5. \A k \in 1 .. n : f[k] = Longer(E, f[k - 1])
  <2> TAKE k \in 1 .. n
  <2>1. k - 1 \in 0 .. n  BY <1>0
  <2>2. f[k - 1] \in S  BY <2>1
  <2> QED BY <1>4, <2>2
<1>6. f = [k \in 0 .. n |-> IF k = 0 THEN {<<>>} ELSE Longer(E, f[k - 1])]
  BY <1>4, <1>5
<1> DEFINE h == CHOOSE h : h = [k \in 0 .. n |-> IF k = 0 THEN {<<>>} ELSE Longer(E, h[k - 1])]
<1>7. h = [k \in 0 .. n |-> IF k = 0 THEN {<<>>} ELSE Longer(E, h[k - 1])]
  BY <1>6, Zenon
<1>8. cull(A, F) = h[n]
  BY Zenon DEF cull, Longer, LeastOf, Entries, E, n
<1> HIDE DEF h
<1>9. h[0] = {<<>>}
  <2>1. 0 \in 0 .. n  BY <1>0
  <2> QED BY <1>7, <2>1
<1>10. \A k \in 1 .. n : h[k] = Longer(E, h[k - 1])
  <2> TAKE k \in 1 .. n
  <2>1. k \in 0 .. n /\ k # 0  BY <1>0
  <2> QED BY <1>7, <2>1
<1> QED BY <1>8, <1>9, <1>10, Zenon DEF CullSteps, E, n

\* The edge of the chime of p of type k.
Edge(A, p, k) == A[p].offset + k * A[p].dist

Chime(A, p, k) == [p |-> p, type |-> k, edge |-> Edge(A, p, k)]

\* The chime list has the three edges of every fit peer and no other entry.
LEMMA EntriesAreChimes ==
  ASSUME NEW A, NEW F
  PROVE  /\ \A e \in Entries(A, F) : \E p \in F, k \in {-1, 0, 1} : e = Chime(A, p, k)
         /\ \A p \in F, k \in {-1, 0, 1} : Chime(A, p, k) \in Entries(A, F)
<1>1. ASSUME NEW e \in Entries(A, F)
      PROVE  \E p \in F, k \in {-1, 0, 1} : e = Chime(A, p, k)
  <2>1. PICK p \in F : e \in Chimes(A, p)  BY Zenon DEF Entries
  <2> QED BY <2>1 DEF Chimes, Chime, Edge
<1>2. ASSUME NEW p \in F, NEW k \in {-1, 0, 1}
      PROVE  Chime(A, p, k) \in Entries(A, F)
  <2>1. Chime(A, p, k) \in Chimes(A, p)  BY DEF Chimes, Chime, Edge
  <2> QED BY <2>1, Zenon DEF Entries
<1> QED BY <1>1, <1>2

\* The edges are integers, the three of a server in order of their types.
LEMMA EdgesAreOrdered ==
  ASSUME NEW A \in [Peers -> Association], NEW p \in Peers
  PROVE  /\ \A k \in {-1, 0, 1} : Edge(A, p, k) \in Int
         /\ Edge(A, p, -1) < Edge(A, p, 0) /\ Edge(A, p, 0) < Edge(A, p, 1)
         /\ Edge(A, p, 0) = A[p].offset
<1>1. A[p] \in Association  OBVIOUS
<1>2. A[p].offset \in Int /\ A[p].dist \in Nat \ {0}  BY <1>1 DEF Association
<1>3. \A o \in Int, d \in Nat \ {0} : o + (-1) * d < o + 0 * d /\ o + 0 * d < o + 1 * d /\ o + 0 * d = o
  OBVIOUS
<1> QED BY <1>2, <1>3 DEF Edge

\* There are at most three entries to a server.
LEMMA EntriesAreFew ==
  ASSUME NEW A, NEW F \in SUBSET Peers
  PROVE  /\ IsFiniteSet(Entries(A, F))
         /\ Cardinality(Entries(A, F)) \in Nat
         /\ Cardinality(Entries(A, F)) <= 3 * Cardinality(Peers)
<1> DEFINE OfType(k) == {Chime(A, p, k) : p \in F}
<1>1. IsFiniteSet(F) /\ Cardinality(F) \in Nat /\ Cardinality(F) <= Cardinality(Peers)
      /\ Cardinality(Peers) \in Nat
  BY PeersAssumption, FS_Subset, FS_CardinalityType
<1>2. \A k : IsFiniteSet(OfType(k)) /\ Cardinality(OfType(k)) \in Nat
             /\ Cardinality(OfType(k)) <= Cardinality(F)
  <2> TAKE k
  <2> DEFINE f == [p \in F |-> Chime(A, p, k)]
  <2>1. f \in Surjection(F, OfType(k))
    BY Zenon DEF Surjection
  <2> HIDE DEF f, OfType
  <2> QED BY <1>1, <2>1, FS_Surjection, FS_CardinalityType
<1>3. Entries(A, F) = (OfType(-1) \cup OfType(0)) \cup OfType(1)
  BY EntriesAreChimes
<1> HIDE DEF OfType
<1>4. IsFiniteSet(OfType(-1) \cup OfType(0))
      /\ Cardinality(OfType(-1) \cup OfType(0)) <= 2 * Cardinality(F)
      /\ Cardinality(OfType(-1) \cup OfType(0)) \in Nat
  <2>1. IsFiniteSet(OfType(-1)) /\ IsFiniteSet(OfType(0))  BY <1>2
  <2>2. Cardinality(OfType(-1) \cup OfType(0))
          = Cardinality(OfType(-1)) + Cardinality(OfType(0)) - Cardinality(OfType(-1) \cap OfType(0))
        /\ IsFiniteSet(OfType(-1) \cup OfType(0))
    BY <2>1, FS_Union
  <2>3. Cardinality(OfType(-1) \cap OfType(0)) \in Nat
    BY <2>1, FS_Intersection, FS_CardinalityType
  <2>4. Cardinality(OfType(-1) \cup OfType(0)) \in Nat  BY <2>2, FS_CardinalityType
  <2> QED BY <2>2, <2>3, <2>4, <1>2, <1>1
<1>5. Cardinality(Entries(A, F))
        = Cardinality(OfType(-1) \cup OfType(0)) + Cardinality(OfType(1))
          - Cardinality((OfType(-1) \cup OfType(0)) \cap OfType(1))
      /\ IsFiniteSet(Entries(A, F))
  BY <1>2, <1>3, <1>4, FS_Union
<1>6. Cardinality((OfType(-1) \cup OfType(0)) \cap OfType(1)) \in Nat
  BY <1>4, FS_Intersection, FS_CardinalityType
<1>7. Cardinality(Entries(A, F)) \in Nat  BY <1>5, FS_CardinalityType
<1> QED BY <1>1, <1>2, <1>4, <1>5, <1>6, <1>7

\* A list of entries of E is sorted, ends below what is left of E, and leaves out
\* as many entries as it is short of.
SortedFront(E, l) ==
  /\ l \in Seq(E)
  /\ \A i, j \in 1 .. Len(l) : i <= j => l[i].edge <= l[j].edge
  /\ \A i \in 1 .. Len(l), x \in E \ Range(l) : l[i].edge <= x.edge
  /\ Cardinality(E \ Range(l)) = Cardinality(E) - Len(l)

\* A sorted front of the entries, and one of the least of the others behind it, is
\* a sorted front.
LEMMA FrontGrows ==
  ASSUME NEW E, IsFiniteSet(E), \A e \in E : e.edge \in Int,
         NEW l, SortedFront(E, l), NEW e \in LeastOf(E \ Range(l))
  PROVE  SortedFront(E, Append(l, e)) /\ Len(Append(l, e)) = Len(l) + 1
<1> DEFINE m == Append(l, e)
<1>1. e \in E \ Range(l) /\ \A x \in E \ Range(l) : e.edge <= x.edge  BY DEF LeastOf
<1>2. l \in Seq(E) /\ Len(l) \in Nat  BY DEF SortedFront
<1>3. m \in Seq(E) /\ Len(m) = Len(l) + 1 /\ m[Len(l) + 1] = e
      /\ \A i \in 1 .. Len(l) : m[i] = l[i]
  BY <1>1, <1>2
<1>4. DOMAIN l = 1 .. Len(l) /\ DOMAIN m = 1 .. Len(l) + 1  BY <1>2, <1>3
<1> HIDE DEF m
<1>5. Range(m) = Range(l) \cup {e}
  <2>1. ASSUME NEW x \in Range(m)
        PROVE  x \in Range(l) \cup {e}
    <3>1. PICK i \in 1 .. Len(l) + 1 : x = m[i]  BY <1>4 DEF Range
    <3>2. CASE i = Len(l) + 1  BY <3>1, <3>2, <1>3
    <3>3. CASE i # Len(l) + 1
      <4>1. i \in 1 .. Len(l)  BY <3>3, <1>2
      <4> QED BY <4>1, <3>1, <1>3, <1>4 DEF Range
    <3> QED BY <3>2, <3>3
  <2>2. ASSUME NEW i \in 1 .. Len(l)
        PROVE  l[i] \in Range(m)
    <3>1. i \in 1 .. Len(l) + 1  BY <1>2
    <3> QED BY <3>1, <1>3, <1>4 DEF Range
  <2>3. e \in Range(m)
    <3>1. Len(l) + 1 \in 1 .. Len(l) + 1  BY <1>2
    <3> QED BY <3>1, <1>3, <1>4 DEF Range
  <2>4. Range(l) \subseteq Range(m)  BY <2>2, <1>4 DEF Range
  <2> QED BY <2>1, <2>3, <2>4
<1>6. E \ Range(m) = (E \ Range(l)) \ {e}  BY <1>5
<1>7. \A i \in 1 .. Len(l) : l[i] \in E  BY <1>2
<1>8. \A i, j \in 1 .. Len(m) : i <= j => m[i].edge <= m[j].edge
  <2> TAKE i, j \in 1 .. Len(m)
  <2> HAVE i <= j
  <2>1. CASE j \in 1 .. Len(l)
    <3>1. i \in 1 .. Len(l)  BY <2>1
    <3> QED BY <3>1, <2>1, <1>3 DEF SortedFront
  <2>2. CASE j \notin 1 .. Len(l) /\ i \in 1 .. Len(l)
    <3>1. Len(m) = Len(l) + 1 /\ j \in 1 .. Len(m)  BY <1>3
    <3>2. j = Len(l) + 1  BY <3>1, <2>2, <1>2
    <3> QED BY <3>2, <2>2, <1>1, <1>3 DEF SortedFront
  <2>3. CASE j \notin 1 .. Len(l) /\ i \notin 1 .. Len(l)
    <3>1. j = Len(l) + 1 /\ i = Len(l) + 1  BY <2>3, <1>2, <1>3
    <3> QED BY <3>1, <1>1, <1>3
  <2> QED BY <2>1, <2>2, <2>3
<1>9. \A i \in 1 .. Len(m), x \in E \ Range(m) : m[i].edge <= x.edge
  <2> TAKE i \in 1 .. Len(m), x \in E \ Range(m)
  <2>1. x \in E \ Range(l)  BY <1>6
  <2>2. CASE i \in 1 .. Len(l)  BY <2>1, <2>2, <1>3 DEF SortedFront
  <2>3. CASE i \notin 1 .. Len(l)
    <3>1. i = Len(l) + 1  BY <2>3, <1>2, <1>3
    <3> QED BY <3>1, <2>1, <1>1, <1>3
  <2> QED BY <2>2, <2>3
<1>10. Cardinality(E \ Range(m)) = Cardinality(E) - Len(m)
  <2>1. IsFiniteSet(E \ Range(l))  BY FS_Difference
  <2>2. Cardinality(E \ Range(m)) = Cardinality(E \ Range(l)) - 1
    BY <2>1, <1>1, <1>6, FS_RemoveElement
  <2>3. Cardinality(E) \in Nat  BY FS_CardinalityType
  <2> QED BY <2>2, <2>3, <1>2, <1>3 DEF SortedFront
<1> QED BY <1>3, <1>8, <1>9, <1>10 DEF SortedFront, m

\* Every list that cull() may leave holds exactly the entries of the fit peers, in
\* the order of their edges.
LEMMA ChimeListIsSorted ==
  ASSUME NEW A \in [Peers -> Association], NEW F \in SUBSET Peers, NEW m \in cull(A, F)
  PROVE  /\ m \in Seq(Entries(A, F)) /\ Len(m) = Cardinality(Entries(A, F))
         /\ \A i, j \in 1 .. Len(m) : i <= j => m[i].edge <= m[j].edge
         /\ \A e \in Entries(A, F) : \E i \in 1 .. Len(m) : m[i] = e
<1> DEFINE E == Entries(A, F)
    n == Cardinality(E)
<1>1. IsFiniteSet(E) /\ n \in Nat  BY EntriesAreFew
<1>2. \A e \in E : e.edge \in Int
  <2> TAKE e \in E
  <2>1. PICK p \in F, k \in {-1, 0, 1} : e = Chime(A, p, k)  BY EntriesAreChimes
  <2> QED BY <2>1, EdgesAreOrdered DEF Chime
<1>3. PICK f : CullSteps(A, F, f)  BY <1>1, CullIsDefined
<1>4. /\ cull(A, F) = f[n] /\ f[0] = {<<>>}
      /\ \A k \in 1 .. n : f[k] = Longer(E, f[k - 1])
  BY <1>3, Zenon DEF CullSteps
<1> HIDE DEF E, n
<1> DEFINE Right(k) == \A l \in f[k] : SortedFront(E, l) /\ Len(l) = k
    Wrong == {k \in 0 .. n : ~ Right(k)}
<1>5. Right(0)
  <2> SUFFICES SortedFront(E, <<>>) /\ Len(<<>>) = 0  BY <1>4
  <2>1. Range(<<>>) = {}  BY DEF Range
  <2>2. E \ Range(<<>>) = E  BY <2>1
  <2>3. Cardinality(E) - 0 = Cardinality(E)  BY <1>1 DEF n
  <2>4. <<>> \in Seq(E) /\ Len(<<>>) = 0  OBVIOUS
  <2> HIDE DEF SortedFront
  <2>5. \A i \in 1 .. Len(<<>>) : FALSE  BY <2>4
  <2>6. Cardinality(E \ Range(<<>>)) = Cardinality(E) - Len(<<>>)  BY <2>2, <2>3, <2>4
  <2> QED BY <2>4, <2>5, <2>6, Zenon DEF SortedFront
<1>6. ASSUME NEW k \in 1 .. n, Right(k - 1)
      PROVE  Right(k)
  <2> TAKE l \in f[k]
  <2>1. l \in Longer(E, f[k - 1])  BY <1>4
  <2>2. PICK h \in f[k - 1] : \E e \in LeastOf(E \ Range(h)) : l = Append(h, e)
    BY <2>1, Zenon DEF Longer
  <2>3. PICK e \in LeastOf(E \ Range(h)) : l = Append(h, e)  BY <2>2
  <2>4. SortedFront(E, h) /\ Len(h) = k - 1  BY <1>6, <2>2
  <2>5. SortedFront(E, l) /\ Len(l) = Len(h) + 1
    BY <2>3, <2>4, <1>1, <1>2, FrontGrows
  <2> QED BY <2>4, <2>5
<1> HIDE DEF Right
<1>7. Wrong = {}
  <2> SUFFICES ASSUME Wrong # {} PROVE FALSE  OBVIOUS
  <2>1. PICK k \in Wrong : \A y \in Wrong : k <= y
    <3>1. Wrong \subseteq Nat  BY <1>1
    <3> HIDE DEF Wrong
    <3> QED BY <3>1, LeastNatural
  <2>2. k # 0  BY <1>5
  <2>3. k - 1 \in 0 .. n /\ k - 1 \notin Wrong  BY <1>1, <2>1, <2>2
  <2>4. k \in 1 .. n  BY <1>1, <2>2
  <2> QED BY <1>6, <2>3, <2>4
<1>8. Right(n)  BY <1>1, <1>7
<1>9. SortedFront(E, m) /\ Len(m) = n  BY <1>4, <1>8 DEF Right
<1>10. E \ Range(m) = {}
  <2>1. Cardinality(E \ Range(m)) = 0  BY <1>1, <1>9 DEF SortedFront, n
  <2>2. IsFiniteSet(E \ Range(m))  BY <1>1, FS_Difference
  <2> QED BY <2>1, <2>2, FS_EmptySet
<1>11. \A e \in E : \E i \in 1 .. Len(m) : m[i] = e
  <2>1. DOMAIN m = 1 .. Len(m)  BY <1>9 DEF SortedFront
  <2> QED BY <1>10, <2>1 DEF Range
<1> QED BY <1>9, <1>11 DEF SortedFront, E, n

----------------------------------------------------------------------------
(* The survivor list.                                                      *)

Within(m, e) == Low(m) <= e.edge /\ e.edge <= High(m)

\* The survivors among the first i entries of the chime list.
KeptSteps(m, f) ==
  /\ f[0] = <<>>
  /\ \A i \in 1 .. Len(m) :
       f[i] = f[i - 1] \o IF Within(m, m[i]) THEN <<m[i]>> ELSE <<>>
  /\ Survivors(m) = f[Len(m)]

\* The recursive function of Survivors exists, and so equals its definition.
LEMMA SurvivorsAreDefined ==
  ASSUME NEW E, NEW m \in Seq(E)
  PROVE  \E f : KeptSteps(m, f)
<1> DEFINE n == Len(m)
    S == Seq(E)
    more(i) == IF Within(m, m[i]) THEN <<m[i]>> ELSE <<>>
    g == [i \in 1 .. n |-> [l \in S |-> l \o more(i)]]
<1>1. n \in Nat /\ <<>> \in S  OBVIOUS
<1>2. \A i \in 1 .. n : more(i) \in S
  <2> TAKE i \in 1 .. n
  <2>1. m[i] \in E  OBVIOUS
  <2> QED BY <2>1
<1>3. \A l, k \in Seq(E) : l \o k \in Seq(E)  OBVIOUS
<1> HIDE DEF n, more
<1>4. g \in [1 .. n -> [S -> S]]  BY <1>2, <1>3
<1> HIDE DEF S
<1>5. PICK f \in [0 .. n -> S] : f[0] = <<>> /\ \A i \in 1 .. n : f[i] = g[i][f[i - 1]]
  <2> HIDE DEF g
  <2> DEFINE b == <<>>
  <2> HIDE DEF b
  <2>1. Steps(n, S, b, g)  BY <1>1, <1>4 DEF Steps, b
  <2>2. \E f : Recursion(n, S, b, g, f)  BY <2>1, RecursiveFunction, Zenon
  <2> QED BY <2>2 DEF Recursion, b
<1>6. \A i \in 1 .. n : f[i] = f[i - 1] \o more(i)
  <2> TAKE i \in 1 .. n
  <2>1. i - 1 \in 0 .. n  BY <1>1
  <2>2. f[i - 1] \in S  BY <2>1
  <2> QED BY <1>5, <2>2
<1>7. f = [i \in 0 .. n |-> IF i = 0 THEN <<>> ELSE f[i - 1] \o more(i)]
  <2>1. \A i \in 0 .. n : i = 0 \/ i \in 1 .. n  BY <1>1
  <2>2. f \in [0 .. n -> S]  OBVIOUS
  <2> QED BY <1>5, <1>6, <2>1, <2>2
<1> DEFINE h == CHOOSE h : h = [i \in 0 .. n |-> IF i = 0 THEN <<>> ELSE h[i - 1] \o more(i)]
<1>8. h = [i \in 0 .. n |-> IF i = 0 THEN <<>> ELSE h[i - 1] \o more(i)]
  BY <1>7, Zenon
<1>9. Survivors(m) = h[n]
  BY Zenon DEF Survivors, Within, n, more
<1> HIDE DEF h
<1>10. h[0] = <<>>
  <2>1. 0 \in 0 .. n  BY <1>1
  <2> QED BY <1>8, <2>1
<1>11. \A i \in 1 .. n : h[i] = h[i - 1] \o more(i)
  <2> TAKE i \in 1 .. n
  <2>1. i \in 0 .. n /\ i # 0  BY <1>1
  <2> QED BY <1>8, <2>1
<1> QED BY <1>9, <1>10, <1>11, Zenon DEF KeptSteps, n, more

\* s are the entries within the range among the first i of m.
Keeps(m, E, i, s) ==
  /\ s \in Seq(E) /\ Len(s) <= i
  /\ \A k \in 1 .. Len(s) : \E j \in 1 .. i : m[j] = s[k] /\ Within(m, s[k])
  /\ \A j \in 1 .. i : Within(m, m[j]) => \E k \in 1 .. Len(s) : s[k] = m[j]

\* The survivors are the entries of the chime list between low and high.
LEMMA SurvivorsAreWithin ==
  ASSUME NEW E, NEW m \in Seq(E)
  PROVE  Keeps(m, E, Len(m), Survivors(m))
<1> DEFINE n == Len(m)
    W(e) == Within(m, e)
<1>1. n \in Nat /\ \A i \in 1 .. n : m[i] \in E  OBVIOUS
<1>2. PICK f : KeptSteps(m, f)  BY SurvivorsAreDefined, Zenon
<1>3. Survivors(m) = f[n] /\ f[0] = <<>>
      /\ \A i \in 1 .. n : f[i] = f[i - 1] \o IF W(m[i]) THEN <<m[i]>> ELSE <<>>
  BY <1>2, Zenon DEF KeptSteps
<1> HIDE DEF n, W
<1>4. Keeps(m, E, 0, f[0])  BY <1>3 DEF Keeps
<1>5. ASSUME NEW i \in 1 .. n, Keeps(m, E, i - 1, f[i - 1])
      PROVE  Keeps(m, E, i, f[i])
  <2> DEFINE s == f[i - 1]
  <2>1. s \in Seq(E) /\ Len(s) \in Nat /\ Len(s) <= i - 1  BY <1>5 DEF Keeps
  <2>2. \A k \in 1 .. Len(s) : \E j \in 1 .. i - 1 : m[j] = s[k] /\ W(s[k])
    BY <1>5, Zenon DEF Keeps, W
  <2>3. \A j \in 1 .. i - 1 : W(m[j]) => \E k \in 1 .. Len(s) : s[k] = m[j]
    BY <1>5, Zenon DEF Keeps, W
  <2>4. i \in Nat /\ i \in 1 .. i /\ \A j \in 1 .. i : j = i \/ j \in 1 .. i - 1  BY <1>1
  <2>5. \A j \in 1 .. i - 1 : j \in 1 .. i  BY <2>4
  <2> HIDE DEF s
  <2>6. CASE ~ W(m[i])
    <3>1. f[i] = s \o <<>>  BY <2>6, <1>3 DEF s
    <3>2. f[i] = s  BY <3>1, <2>1
    <3>3. \A j \in 1 .. i : W(m[j]) => \E k \in 1 .. Len(s) : s[k] = m[j]
      BY <2>3, <2>4, <2>6, Zenon
    <3>4. \A k \in 1 .. Len(s) : \E j \in 1 .. i : m[j] = s[k] /\ W(s[k])
      BY <2>2, <2>5, Zenon
    <3>5. Len(s) <= i  BY <2>1, <2>4
    <3> QED BY <2>1, <3>2, <3>3, <3>4, <3>5, Zenon DEF Keeps, W
  <2>7. CASE W(m[i])
    <3> DEFINE t == Append(s, m[i])
    <3>1. f[i] = s \o <<m[i]>>  BY <2>7, <1>3 DEF s
    <3>2. f[i] = t  BY <3>1, <2>1
    <3>3. t \in Seq(E) /\ Len(t) = Len(s) + 1 /\ t[Len(s) + 1] = m[i]
          /\ \A k \in 1 .. Len(s) : t[k] = s[k]
      BY <2>1, <1>1
    <3>4. Len(s) + 1 \in 1 .. Len(t) /\ \A k \in 1 .. Len(t) : k = Len(s) + 1 \/ k \in 1 .. Len(s)
      BY <3>3, <2>1
    <3>5. \A k \in 1 .. Len(s) : k \in 1 .. Len(t)  BY <3>3, <2>1
    <3> HIDE DEF t
    <3>6. \A j \in 1 .. i : W(m[j]) => \E k \in 1 .. Len(t) : t[k] = m[j]
      BY <2>3, <2>4, <3>3, <3>4, <3>5, Zenon
    <3>7. \A k \in 1 .. Len(t) : \E j \in 1 .. i : m[j] = t[k] /\ W(t[k])
      BY <2>2, <2>4, <2>5, <2>7, <3>3, <3>4, Zenon
    <3>8. Len(t) <= i  BY <2>1, <2>4, <3>3
    <3> QED BY <3>2, <3>3, <3>6, <3>7, <3>8, Zenon DEF Keeps, W
  <2> QED BY <2>6, <2>7
<1> DEFINE Wrong == {i \in 0 .. n : ~ Keeps(m, E, i, f[i])}
<1>6. Wrong = {}
  <2> SUFFICES ASSUME Wrong # {} PROVE FALSE  OBVIOUS
  <2>1. PICK k \in Wrong : \A y \in Wrong : k <= y
    <3>1. Wrong \subseteq Nat  BY <1>1
    <3> HIDE DEF Wrong
    <3> QED BY <3>1, LeastNatural
  <2>2. k # 0  BY <1>4
  <2>3. k - 1 \in 0 .. n /\ k - 1 \notin Wrong  BY <1>1, <2>1, <2>2
  <2>4. k \in 1 .. n  BY <1>1, <2>2
  <2> QED BY <1>5, <2>3, <2>4
<1> QED BY <1>1, <1>3, <1>6 DEF n

----------------------------------------------------------------------------
(* The range of the intersection.                                          *)

\* The first entry of a type.
LEMMA FirstOfType ==
  ASSUME NEW m, DOMAIN m = 1 .. Len(m), Len(m) \in Nat, NEW k,
         \E i \in 1 .. Len(m) : m[i].type = k
  PROVE  /\ FirstOf(m, k) \in 1 .. Len(m)
         /\ m[FirstOf(m, k)].type = k
         /\ \A i \in 1 .. Len(m) : m[i].type = k => FirstOf(m, k) <= i
<1> DEFINE T == {i \in DOMAIN m : m[i].type = k}
<1>1. T \subseteq Nat /\ T # {}  OBVIOUS
<1> HIDE DEF T
<1>2. Min(T) \in T /\ \A i \in T : Min(T) <= i  BY <1>1, MinOfNaturals, Zenon
<1>3. FirstOf(m, k) = Min(T)  BY DEF FirstOf, T
<1> QED BY <1>2, <1>3 DEF T

\* High is the least upper edge, Low is at most every midpoint, and no midpoint
\* is above all the upper edges: the range is never empty.
LEMMA RangeOfIntersection ==
  ASSUME NEW A \in [Peers -> Association], NEW F \in SUBSET Peers, F # {},
         NEW m \in cull(A, F)
  PROVE  \E q, r \in F :
           /\ High(m) = Edge(A, q, 1) /\ \A p \in F : Edge(A, q, 1) <= Edge(A, p, 1)
           /\ \A p \in F : Edge(A, r, 0) <= Edge(A, p, 0)
           /\ Low(m) \in Int /\ Low(m) <= Edge(A, r, 0)
<1>1. /\ m \in Seq(Entries(A, F))
      /\ \A i, j \in 1 .. Len(m) : i <= j => m[i].edge <= m[j].edge
      /\ \A e \in Entries(A, F) : \E i \in 1 .. Len(m) : m[i] = e
  BY ChimeListIsSorted
<1>2. Len(m) \in Nat /\ DOMAIN m = 1 .. Len(m) /\ \A i \in 1 .. Len(m) : m[i] \in Entries(A, F)
  BY <1>1
<1>3. \A p \in F, k \in {-1, 0, 1} : \E i \in 1 .. Len(m) :
         m[i].p = p /\ m[i].type = k /\ m[i].edge = Edge(A, p, k)
  <2> TAKE p \in F, k \in {-1, 0, 1}
  <2>1. PICK i \in 1 .. Len(m) : m[i] = Chime(A, p, k)  BY <1>1, EntriesAreChimes
  <2> QED BY <2>1 DEF Chime
<1>4. \A i \in 1 .. Len(m) : \E p \in F, k \in {-1, 0, 1} :
         m[i].type = k /\ m[i].edge = Edge(A, p, k)
  <2> TAKE i \in 1 .. Len(m)
  <2>1. PICK p \in F, k \in {-1, 0, 1} : m[i] = Chime(A, p, k)  BY <1>2, EntriesAreChimes
  <2> QED BY <2>1 DEF Chime
<1>5. \A p \in F : \A k \in {-1, 0, 1} : Edge(A, p, k) \in Int
  BY EdgesAreOrdered
<1>6. \A i \in 1 .. Len(m) : m[i].edge \in Int
  BY <1>4, <1>5
<1> DEFINE h == FirstOf(m, 1)
    l == FirstOf(m, 0)
<1>7. h \in 1 .. Len(m) /\ m[h].type = 1 /\ \A i \in 1 .. Len(m) : m[i].type = 1 => h <= i
  <2>1. \E i \in 1 .. Len(m) : m[i].type = 1  BY <1>3
  <2> QED BY <1>2, <2>1, FirstOfType, Zenon
<1>8. l \in 1 .. Len(m) /\ m[l].type = 0 /\ \A i \in 1 .. Len(m) : m[i].type = 0 => l <= i
  <2>1. \E i \in 1 .. Len(m) : m[i].type = 0  BY <1>3
  <2> QED BY <1>2, <2>1, FirstOfType, Zenon
<1>9. High(m) = m[h].edge /\ Low(m) = m[l - 1].edge  BY DEF High, Low
<1> HIDE DEF h, l
<1>10. PICK q \in F : m[h].edge = Edge(A, q, 1)  BY <1>4, <1>7
<1>11. PICK r \in F : m[l].edge = Edge(A, r, 0)  BY <1>4, <1>8
<1>12. \A p \in F : Edge(A, q, 1) <= Edge(A, p, 1)
  <2> TAKE p \in F
  <2>1. PICK i \in 1 .. Len(m) : m[i].type = 1 /\ m[i].edge = Edge(A, p, 1)  BY <1>3
  <2> QED BY <2>1, <1>1, <1>7, <1>10
<1>13. \A p \in F : Edge(A, r, 0) <= Edge(A, p, 0)
  <2> TAKE p \in F
  <2>1. PICK i \in 1 .. Len(m) : m[i].type = 0 /\ m[i].edge = Edge(A, p, 0)  BY <1>3
  <2> QED BY <2>1, <1>1, <1>8, <1>11
<1>14. l - 1 \in 1 .. Len(m)
  <2>1. PICK i \in 1 .. Len(m) : m[i].edge = Edge(A, r, -1)  BY <1>3
  <2>2. Edge(A, r, -1) < Edge(A, r, 0)  BY EdgesAreOrdered
  <2>3. m[i].edge < m[l].edge  BY <2>1, <2>2, <1>11
  <2>4. ~ (l <= i)
    <3>1. l <= i => m[l].edge <= m[i].edge  BY <1>1, <1>8
    <3>2. m[l].edge \in Int /\ m[i].edge \in Int  BY <1>6, <1>8
    <3> QED BY <2>3, <3>1, <3>2
  <2> QED BY <2>4, <1>2, <1>8
<1>15. m[l - 1].edge \in Int /\ m[l - 1].edge <= m[l].edge
  <2>1. l - 1 <= l  BY <1>2, <1>8
  <2> QED BY <2>1, <1>1, <1>6, <1>8, <1>14
<1> QED BY <1>9, <1>10, <1>11, <1>12, <1>13, <1>15

\* What the survivor list s holds when some peer is fit.
GoodSurvivors(A, F, m, s) ==
  /\ m # <<>>
  /\ Len(s) \in Nat /\ 1 <= Len(s) /\ Len(s) <= Len(m)
  /\ \A i \in 1 .. Len(s) : s[i].p \in F
  /\ \E q \in F :
       /\ \E i \in 1 .. Len(s) : s[i].p = q
       /\ \A i \in 1 .. Len(s) : /\ Edge(A, s[i].p, -1) <= Edge(A, q, 1)
                                 /\ Edge(A, q, 1) <= Edge(A, s[i].p, 1)
  /\ \A p \in F : (\A x \in F : A[p].offset <= A[x].offset)
                    => \E i \in 1 .. Len(s) : s[i].p = p

\* Of a chime list that is not empty someone survives, the survivors share a point,
\* and a peer of the least offset is one of them.
LEMMA SelectionSurvivors ==
  ASSUME NEW A \in [Peers -> Association], NEW F \in SUBSET Peers, F # {},
         NEW m \in cull(A, F)
  PROVE  GoodSurvivors(A, F, m, Survivors(m))
<1> DEFINE s == Survivors(m)
<1>1. /\ m \in Seq(Entries(A, F))
      /\ \A e \in Entries(A, F) : \E i \in 1 .. Len(m) : m[i] = e
  BY ChimeListIsSorted
<1>2. Keeps(m, Entries(A, F), Len(m), s)  BY <1>1, SurvivorsAreWithin
<1> HIDE DEF s
<1>3. PICK q, r \in F :
        /\ High(m) = Edge(A, q, 1) /\ \A p \in F : Edge(A, q, 1) <= Edge(A, p, 1)
        /\ \A p \in F : Edge(A, r, 0) <= Edge(A, p, 0)
        /\ Low(m) \in Int /\ Low(m) <= Edge(A, r, 0)
  BY RangeOfIntersection
<1>4. \A p \in F : /\ \A k \in {-1, 0, 1} : Edge(A, p, k) \in Int
                   /\ Edge(A, p, -1) < Edge(A, p, 0) /\ Edge(A, p, 0) < Edge(A, p, 1)
                   /\ Edge(A, p, 0) = A[p].offset
  BY EdgesAreOrdered
<1>5. s \in Seq(Entries(A, F)) /\ Len(s) \in Nat /\ Len(s) <= Len(m)
  BY <1>2 DEF Keeps
<1>6. \A i \in 1 .. Len(s) : s[i] \in Entries(A, F)  BY <1>5
<1>7. \A i \in 1 .. Len(s) : /\ s[i].p \in F
                             /\ Edge(A, s[i].p, -1) <= s[i].edge
                             /\ s[i].edge \in Int
                             /\ s[i].edge <= High(m)
  <2> TAKE i \in 1 .. Len(s)
  <2>1. PICK p \in F, k \in {-1, 0, 1} : s[i] = Chime(A, p, k)  BY <1>6, EntriesAreChimes
  <2>2. s[i].p = p /\ s[i].edge = Edge(A, p, k)  BY <2>1 DEF Chime
  <2>3. Edge(A, p, -1) <= Edge(A, p, k) /\ Edge(A, p, k) \in Int
    <3>1. k = -1 \/ k = 0 \/ k = 1  OBVIOUS
    <3>2. Edge(A, p, -1) \in Int /\ Edge(A, p, 0) \in Int /\ Edge(A, p, 1) \in Int  BY <1>4
    <3>3. Edge(A, p, -1) < Edge(A, p, 0) /\ Edge(A, p, 0) < Edge(A, p, 1)  BY <1>4
    <3> QED BY <3>1, <3>2, <3>3
  <2>4. s[i].edge <= High(m)  BY <1>2 DEF Keeps, Within
  <2> QED BY <2>2, <2>3, <2>4
<1>8. \A p \in F, k \in {-1, 0, 1} :
         Low(m) <= Edge(A, p, k) /\ Edge(A, p, k) <= High(m) => \E i \in 1 .. Len(s) : s[i].p = p
  <2> TAKE p \in F, k \in {-1, 0, 1}
  <2> HAVE Low(m) <= Edge(A, p, k) /\ Edge(A, p, k) <= High(m)
  <2>1. PICK j \in 1 .. Len(m) : m[j] = Chime(A, p, k)  BY <1>1, EntriesAreChimes
  <2>2. m[j].p = p /\ m[j].edge = Edge(A, p, k)  BY <2>1 DEF Chime
  <2>3. Within(m, m[j])  BY <2>2 DEF Within
  <2>4. PICK i \in 1 .. Len(s) : s[i] = m[j]  BY <2>3, <1>2 DEF Keeps
  <2> QED BY <2>2, <2>4
<1>9. Edge(A, r, 0) <= Edge(A, q, 0) /\ Edge(A, q, 0) < Edge(A, q, 1)  BY <1>3, <1>4
<1>10. \E i \in 1 .. Len(s) : s[i].p = q
  <2>1. Low(m) <= Edge(A, q, 1)  BY <1>3, <1>4, <1>9
  <2>2. Edge(A, q, 1) <= High(m)  BY <1>3, <1>4
  <2> QED BY <2>1, <2>2, <1>8
<1>11. 1 <= Len(s)  BY <1>5, <1>10
<1>12. m # <<>>  BY <1>5, <1>11
<1>13. \A i \in 1 .. Len(s) : /\ Edge(A, s[i].p, -1) <= Edge(A, q, 1)
                              /\ Edge(A, q, 1) <= Edge(A, s[i].p, 1)
  <2> TAKE i \in 1 .. Len(s)
  <2>1. s[i].p \in F /\ Edge(A, s[i].p, -1) <= s[i].edge /\ s[i].edge <= Edge(A, q, 1)
        /\ s[i].edge \in Int
    BY <1>3, <1>7
  <2>2. Edge(A, s[i].p, -1) \in Int /\ Edge(A, q, 1) \in Int  BY <2>1, <1>4
  <2>3. Edge(A, s[i].p, -1) <= Edge(A, q, 1)  BY <2>1, <2>2
  <2> QED BY <2>1, <2>3, <1>3
<1>14. ASSUME NEW p \in F, \A x \in F : A[p].offset <= A[x].offset
       PROVE  \E i \in 1 .. Len(s) : s[i].p = p
  <2>1. Edge(A, p, 0) <= Edge(A, q, 0) /\ Edge(A, r, 0) <= Edge(A, p, 0)
    BY <1>3, <1>4, <1>14
  <2>2. Low(m) <= Edge(A, p, 0) /\ Edge(A, p, 0) <= High(m)
    BY <2>1, <1>3, <1>4, <1>9
  <2> QED BY <2>2, <1>8
<1>15. GoodSurvivors(A, F, m, s)
  BY <1>5, <1>7, <1>10, <1>11, <1>12, <1>13, <1>14 DEF GoodSurvivors
<1> QED BY <1>15 DEF s

----------------------------------------------------------------------------
(* The list s.v and the counter s.n.                                       *)

\* The survivors come first in s.v, and the list does not get shorter.
LEMMA OverwriteFront ==
  ASSUME NEW v \in Seq(Peers), NEW t \in Seq(Peers)
  PROVE  /\ Overwrite(v, t) \in Seq(Peers)
         /\ Len(Overwrite(v, t)) = IF Len(t) < Len(v) THEN Len(v) ELSE Len(t)
         /\ \A i \in 1 .. Len(t) : Overwrite(v, t)[i] = t[i]
<1> DEFINE u == SubSeq(v, Len(t) + 1, Len(v))
<1>1. Len(v) \in Nat /\ Len(t) \in Nat  OBVIOUS
<1>2. u \in Seq(Peers) /\ Len(u) = IF Len(t) < Len(v) THEN Len(v) - Len(t) ELSE 0
  <2>1. \A i \in Len(t) + 1 .. Len(v) : i \in 1 .. Len(v)  BY <1>1
  <2> QED BY <1>1, <2>1
<1> HIDE DEF u
<1>3. /\ t \o u \in Seq(Peers) /\ Len(t \o u) = Len(t) + Len(u)
      /\ \A i \in 1 .. Len(t) : (t \o u)[i] = t[i]
  BY <1>2
<1> QED BY <1>1, <1>2, <1>3 DEF Overwrite, u

\* The clustering loop only decrements its counter, and not below zero.
LEMMA ClusteredIsBounded ==
  ASSUME NEW A, NEW v, NEW n, NEW k \in Nat
  PROVE  Clustered(A, v, n, k) \in 0 .. k
<1> DEFINE T == {i \in 0 .. k :
                   \A p, q \in {v[j] : j \in 1 .. i} :
                      SelectionJitter(A[p].offset, n, OffsetSum(A, v, n)) < Square(A[q].jitter)}
<1>1. 0 \in T
  <2>1. {v[j] : j \in 1 .. 0} = {}  OBVIOUS
  <2> QED BY <2>1
<1>2. T \subseteq 0 .. k  OBVIOUS
<1> HIDE DEF T
<1>3. Max(T) \in 0 .. k
  <2>1. T # {}  BY <1>1
  <2>2. Max(T) \in T  BY <1>2, <2>1, MaxOfNaturals
  <2> QED BY <1>2, <2>2
<1>4. Clustered(A, v, n, k) = IF n <= NMIN THEN k ELSE Max(T)
  BY Zenon DEF Clustered, T
<1> QED BY <1>3, <1>4

----------------------------------------------------------------------------
(* The invariant.                                                          *)

Typed ==
  /\ att \in [Peers -> Association] /\ seen \in [Peers -> Association]
  /\ \A p \in Peers : ~att[p].reached => att[p].offset = 0
  /\ \A p \in Peers : att[p].reached => p \in heard
  /\ heard \subseteq Peers
  /\ sP # NULL => sP \in heard
  /\ sP \in Peers \union {NULL} /\ sV \in Seq(Peers) /\ sN \in Nat
  /\ Len(sV) <= 3 * Cardinality(Peers) /\ sN <= Len(sV)
  /\ sRefid \in Refs
  /\ fits \subseteq Peers /\ found \subseteq fits
  /\ packets \in 0 .. MaxPackets

Selected == SelectsIffFit /\ SurvivorsIntersect /\ EarliestSurvives /\ KeptPeerSharesStratum

\* A selection over well-formed associations has no system peer when none is
\* fit, and otherwise the survivors that SelectionSurvivors describes.
LEMMA SelectionTyped ==
  ASSUME Typed, NEW A \in [Peers -> Association], heard \subseteq heard',
         \A p \in Peers : A[p].reached => p \in heard', clock_select(A)
  PROVE  /\ seen' = A /\ (sP' # NULL => sP' \in heard')
         /\ sP' \in Peers \union {NULL} /\ sV' \in Seq(Peers) /\ sN' \in Nat
         /\ Len(sV') <= 3 * Cardinality(Peers) /\ sN' <= Len(sV')
         /\ sRefid' \in Refs
         /\ fits' \subseteq Peers /\ found' \subseteq fits'
         /\ Selected'
<1> DEFINE F == {p \in Peers : fit(A[p])}
    card == Cardinality(Peers)
<1>1. PICK m \in cull(A, F) :
        \E s \in {IF m = <<>> THEN <<>> ELSE Survivors(m)} : SelectAmong(A, F, s, Len(m))
  BY Zenon DEF clock_select
<1>9. PICK s \in {IF m = <<>> THEN <<>> ELSE Survivors(m)} : SelectAmong(A, F, s, Len(m))
  BY <1>1, Zenon
<1>8. s = IF m = <<>> THEN <<>> ELSE Survivors(m)  OBVIOUS
<1> DEFINE k == Len(s)
    t == [i \in 1 .. k |-> s[i].p]
    v == Overwrite(sV, t)
    p == SystemPeer(A, v, sP)
<1>2. /\ seen' = A /\ fits' = F /\ found' = {s[i].p : i \in 1 .. k} /\ sV' = v
      /\ IF k < NSANE
         THEN sP' = NULL /\ sN' = k /\ UNCHANGED sRefid
         ELSE sP' = p /\ sN' = Clustered(A, v, Len(m), k) /\ clock_update(A[p])
  BY <1>9, Zenon DEF SelectAmong
<1>3. F \in SUBSET Peers  OBVIOUS
<1> HIDE DEF F, p
<1>4. Len(m) \in Nat /\ Len(m) <= 3 * card /\ m \in Seq(Entries(A, F))
  BY <1>3, ChimeListIsSorted, EntriesAreFew
<1>5. card \in Nat  BY PeersAssumption, FS_CardinalityType
<1>6. CASE F = {}
  <2>1. Entries(A, F) = {}  BY <1>6, Zenon DEF Entries
  <2>2. m = <<>>  BY <2>1, <1>4
  <2>3. s = <<>> /\ k = 0  BY <1>8, <2>2
  <2> HIDE DEF k
  <2>4. t = <<>>  BY <2>3
  <2>5. sV' \in Seq(Peers) /\ Len(sV') = Len(sV)
    <3>1. Len(sV) \in Nat /\ <<>> \in Seq(Peers) /\ sV \in Seq(Peers)  BY DEF Typed
    <3>2. Overwrite(sV, <<>>) \in Seq(Peers)
          /\ Len(Overwrite(sV, <<>>)) = IF Len(<<>>) < Len(sV) THEN Len(sV) ELSE Len(<<>>)
      BY <3>1, OverwriteFront, Zenon
    <3>3. Len(<<>>) = 0  OBVIOUS
    <3>4. Len(Overwrite(sV, <<>>)) = Len(sV)  BY <3>1, <3>2, <3>3
    <3> QED BY <3>2, <3>4, <2>4, <1>2
  <2>6. sP' = NULL /\ sN' = 0 /\ sRefid' = sRefid
    BY <1>2, <2>3, BoundsAssumption
  <2>7. found' = {}  BY <1>2, <2>3
  <2>8. fits' = {}  BY <1>2, <1>6
  <2>9. Selected'
    <3>1. SelectsIffFit'  BY <2>6, <2>8 DEF SelectsIffFit
    <3>2. SurvivorsIntersect'  BY <2>7, Zenon DEF SurvivorsIntersect
    <3>3. EarliestSurvives'  BY <2>8, Zenon DEF EarliestSurvives
    <3>4. KeptPeerSharesStratum'  BY <2>6, Zenon DEF KeptPeerSharesStratum
    <3> QED BY <3>1, <3>2, <3>3, <3>4 DEF Selected
  <2>10. Len(sV) \in Nat  BY DEF Typed
  <2>11. Len(sV') <= 3 * Cardinality(Peers) /\ sN' <= Len(sV') /\ sN' \in Nat
    BY <2>5, <2>6, <2>10 DEF Typed
  <2>12. sRefid' \in Refs  BY <2>6 DEF Typed
  <2> HIDE DEF Typed
  <2> QED BY <1>2, <2>5, <2>6, <2>7, <2>8, <2>9, <2>11, <2>12
<1>7. CASE F # {}
  <2>1. GoodSurvivors(A, F, m, Survivors(m)) /\ m # <<>>
    BY <1>3, <1>7, SelectionSurvivors DEF GoodSurvivors
  <2>2. s = Survivors(m)  BY <1>8, <2>1
  <2>3. /\ k \in Nat /\ 1 <= k /\ k <= Len(m)
        /\ \A i \in 1 .. k : s[i].p \in F
        /\ \E q \in F :
             /\ \E i \in 1 .. k : s[i].p = q
             /\ \A i \in 1 .. k : /\ Edge(A, s[i].p, -1) <= Edge(A, q, 1)
                                  /\ Edge(A, q, 1) <= Edge(A, s[i].p, 1)
        /\ \A x \in F : (\A y \in F : A[x].offset <= A[y].offset)
                          => \E i \in 1 .. k : s[i].p = x
    BY <2>1, <2>2, Zenon DEF GoodSurvivors
  <2> HIDE DEF k
  <2>4. t \in Seq(Peers) /\ Len(t) = k /\ \A i \in 1 .. k : t[i] = s[i].p
    BY <2>3, <1>3
  <2>5. sV \in Seq(Peers) /\ Len(sV) \in Nat /\ Len(sV) <= 3 * card  BY DEF Typed
  <2> HIDE DEF t
  <2>6. /\ v \in Seq(Peers) /\ Len(v) = IF k < Len(sV) THEN Len(sV) ELSE k
        /\ \A i \in 1 .. k : v[i] = t[i]
    BY <2>4, <2>5, OverwriteFront, Zenon
  <2> HIDE DEF v
  <2>7. v[1] \in F /\ v[1] \in Peers
    <3>1. 1 \in 1 .. k  BY <2>3
    <3> QED BY <3>1, <2>3, <2>4, <2>6, <1>3
  <2>8. k <= Len(v) /\ Len(v) <= 3 * card /\ Len(v) \in Nat
    BY <2>3, <2>5, <2>6, <1>4, <1>5
  <2>9. sP' = p /\ sN' = Clustered(A, v, Len(m), k) /\ clock_update(A[p])
    <3>1. ~ (k < NSANE)  BY <2>3, BoundsAssumption
    <3> QED BY <3>1, <1>2, Zenon
  <2>10. sN' \in 0 .. k
    BY <2>3, <2>9, ClusteredIsBounded
  <2>11. A[v[1]].stratum \in Nat \ {0}  BY <2>7 DEF Association
  <2>12. p \in Peers /\ A[p].stratum = A[v[1]].stratum /\ p \in heard'
    <3>0. v[1] \in heard'  BY <2>7 DEF F, fit
    <3>1. CASE StratumOf(A, sP) = A[v[1]].stratum
      <4>1. p = sP  BY <3>1 DEF SystemPeer, p
      <4>2. sP # NULL  BY <3>1, <2>11 DEF StratumOf
      <4>3. sP \in Peers  BY <4>2 DEF Typed
      <4>4. sP \in heard'  BY <4>2 DEF Typed
      <4> QED BY <3>1, <4>1, <4>2, <4>3, <4>4 DEF StratumOf
    <3>2. CASE StratumOf(A, sP) # A[v[1]].stratum
      BY <3>0, <3>2, <2>7 DEF SystemPeer, p
    <3> QED BY <3>1, <3>2
  <2>13. sRefid' \in Refs
    <3>1. A[p].refid \in Refs  BY <2>12 DEF Association
    <3> QED BY <3>1, <2>9 DEF clock_update, Typed
  <2>14. found' = {s[i].p : i \in 1 .. k}  BY <1>2
  <2>15. found' \subseteq F  BY <2>3, <2>14
  <2>16. \A x \in Peers : Edge(A, x, -1) = (A[x].offset - A[x].dist)
                         /\ Edge(A, x, 1) = (A[x].offset + A[x].dist)
    <3> TAKE x \in Peers
    <3>1. A[x].offset \in Int /\ A[x].dist \in Int  BY DEF Association
    <3> QED BY <3>1 DEF Edge
  <2>17. \A x \in Peers : Lower(x)' = Edge(A, x, -1) /\ Upper(x)' = Edge(A, x, 1)
    BY <1>2, <2>16 DEF Lower, Upper
  <2>18. SurvivorsIntersect'
    <3>1. PICK q \in F :
            /\ \E i \in 1 .. k : s[i].p = q
            /\ \A i \in 1 .. k : /\ Edge(A, s[i].p, -1) <= Edge(A, q, 1)
                                 /\ Edge(A, q, 1) <= Edge(A, s[i].p, 1)
      BY <2>3, Zenon
    <3>2. q \in found'  BY <3>1, <2>14
    <3>3. ASSUME NEW x \in found'
          PROVE  (Lower(x) <= Upper(q) /\ Upper(q) <= Upper(x))'
      <4>1. PICK i \in 1 .. k : x = s[i].p  BY <2>14
      <4>2. Edge(A, x, -1) <= Edge(A, q, 1) /\ Edge(A, q, 1) <= Edge(A, x, 1)  BY <3>1, <4>1
      <4>3. x \in Peers /\ q \in Peers  BY <1>3, <2>15
      <4> QED BY <4>2, <4>3, <2>17
    <3> QED BY <3>2, <3>3 DEF SurvivorsIntersect
  <2>19. EarliestSurvives'
    <3> SUFFICES ASSUME NEW x \in F, \A y \in F : A[x].offset <= A[y].offset
                 PROVE  x \in found'
      BY <1>2 DEF EarliestSurvives
    <3>1. PICK i \in 1 .. k : s[i].p = x  BY <2>3
    <3> QED BY <3>1, <2>14
  <2>20. SelectsIffFit'
    BY <2>9, <2>12, <1>2, <1>7, PeersAssumption DEF SelectsIffFit
  <2>21. KeptPeerSharesStratum'
    <3>1. A[v[1]].stratum < MAXSTRAT  BY <2>7 DEF F, fit
    <3> QED BY <3>1, <2>9, <2>12, <1>2 DEF KeptPeerSharesStratum
  <2>22. sN' \in Nat /\ sN' <= Len(sV')  BY <1>2, <2>3, <2>8, <2>10
  <2>23. sV' \in Seq(Peers) /\ Len(sV') <= 3 * Cardinality(Peers)  BY <1>2, <2>6, <2>8
  <2> QED BY <1>2, <1>3, <2>9, <2>12, <2>13, <2>15, <2>18, <2>19, <2>20, <2>21, <2>22, <2>23
          DEF Selected
<1> QED BY <1>6, <1>7

----------------------------------------------------------------------------
(* The theorems.                                                           *)

Inv == Typed /\ Selected

\* Samples are associations of peers that were reached.
LEMMA SamplesAreAssociations ==
  /\ Samples \subseteq Association /\ Cleared \in Association
  /\ \A a \in Samples : a.reached
<1>1. ASSUME NEW a \in Samples
      PROVE  a \in Association /\ a.reached
  <2>1. a \in [offset : Int, dist : Nat \ {0}, jitter : Nat, stratum : Nat \ {0},
               refid : {a.refid}, synced : BOOLEAN, reached : {TRUE}]
    BY SamplesAssumption
  <2>2. a.refid \in Refs  BY DEF Refs
  <2> QED BY <2>1, <2>2 DEF Association
<1>2. Cleared \in Association  BY BoundsAssumption DEF Cleared, Association, Refs
<1> QED BY <1>1, <1>2

LEMMA InitInv == Init => Inv
<1> SUFFICES ASSUME Init PROVE Inv  OBVIOUS
<1>1. att \in [Peers -> Association] /\ seen = att
  BY SamplesAreAssociations DEF Init
<1>2. Cardinality(Peers) \in Nat  BY PeersAssumption, FS_CardinalityType
<1>3. sV = <<>> /\ sV \in Seq(Peers) /\ Len(sV) = 0  BY DEF Init
<1>4. Typed
  <2>1. att \in [Peers -> Association] /\ seen \in [Peers -> Association]  BY <1>1
  <2>2. \A p \in Peers : att[p].offset = 0 /\ ~att[p].reached  BY DEF Init, Cleared
  <2>3. Len(sV) <= 3 * Cardinality(Peers) /\ sN <= Len(sV) /\ sN \in Nat
    BY <1>2, <1>3 DEF Init
  <2>4. sP = NULL /\ sRefid \in Refs /\ fits = {} /\ found = {} /\ heard = {} /\ packets \in 0 .. MaxPackets
    BY BoundsAssumption DEF Init, Refs
  <2> QED BY <1>3, <2>1, <2>2, <2>3, <2>4 DEF Typed
<1>5. Selected
  BY DEF Init, Selected, SelectsIffFit, SurvivorsIntersect, EarliestSurvives,
         KeptPeerSharesStratum
<1> QED BY <1>4, <1>5 DEF Inv

\* clock_filter() over well-formed associations, whether it drops the sample or
\* ends in a selection.
LEMMA FilterInv ==
  ASSUME Inv, att' \in [Peers -> Association], heard \subseteq heard', heard' \subseteq Peers,
         \A p \in Peers : ~att'[p].reached => att'[p].offset = 0,
         \A p \in Peers : att'[p].reached => p \in heard',
         packets' \in 0 .. MaxPackets, clock_filter(att')
  PROVE  Inv'
<1>1. Typed /\ Selected  BY DEF Inv
<1>2. CASE clock_select(att')
  <2> DEFINE A == att'
  <2>1. A \in [Peers -> Association] /\ clock_select(A)  BY <1>2
  <2>2. \A q \in Peers : A[q].reached => q \in heard'  OBVIOUS
  <2>3. /\ seen' = A /\ (sP' # NULL => sP' \in heard')
        /\ sP' \in Peers \union {NULL} /\ sV' \in Seq(Peers) /\ sN' \in Nat
        /\ Len(sV') <= 3 * Cardinality(Peers) /\ sN' <= Len(sV')
        /\ sRefid' \in Refs
        /\ fits' \subseteq Peers /\ found' \subseteq fits'
        /\ Selected'
    <3> HIDE DEF A
    <3> QED BY <1>1, <2>1, <2>2, SelectionTyped
  <2> QED BY <2>3 DEF Inv, Typed
<1>3. CASE UNCHANGED <<sys, seen, fits, found>>
  <2>1. Selected'
    BY <1>1, <1>3 DEF Selected, SelectsIffFit, SurvivorsIntersect, EarliestSurvives,
                      KeptPeerSharesStratum, Lower, Upper, sys
  <2>2. sP # NULL => sP \in heard'  BY <1>1 DEF Typed
  <2>3. Typed'  BY <1>1, <1>3, <2>2 DEF Typed, sys
  <2> QED BY <2>1, <2>3 DEF Inv
<1> QED BY <1>2, <1>3 DEF clock_filter

\* A sample of a packet.
LEMMA SampleInv ==
  ASSUME Inv, NEW p \in Peers, NEW a \in Samples, Sample(p, a)
  PROVE  Inv'
<1>1. Typed  BY DEF Inv
<1>2. att' = [att EXCEPT ![p] = a] /\ clock_filter(att')  BY DEF Sample
<1>3. att' \in [Peers -> Association]
  BY <1>1, <1>2, SamplesAreAssociations DEF Typed
<1>4. /\ \A q \in Peers : ~att'[q].reached => att'[q].offset = 0
      /\ \A q \in Peers : att'[q].reached => q \in heard'
      /\ heard \subseteq heard' /\ heard' \subseteq Peers
  BY <1>1, <1>2, SamplesAreAssociations DEF Typed, Sample
<1>5. packets' \in 0 .. MaxPackets
  BY <1>1, BoundsAssumption DEF Typed, Sample
<1> QED BY <1>2, <1>3, <1>4, <1>5, FilterInv

\* The sample of a missing reply.
LEMMA MissingInv ==
  ASSUME Inv, NEW p \in Peers, Missing(p)
  PROVE  Inv'
<1>1. Typed  BY DEF Inv
<1>2. PICK r \in {att[p].reached, FALSE} :
        att' = [att EXCEPT ![p].offset = 0, ![p].dist = MAXDIST + 1, ![p].reached = r]
  BY DEF Missing
<1>3. clock_filter(att') /\ heard' = heard  BY DEF Missing
<1>4. MAXDIST + 1 \in Nat \ {0} /\ att[p] \in Association
  BY <1>1, BoundsAssumption DEF Typed
<1> DEFINE a == [att[p] EXCEPT !.offset = 0, !.dist = MAXDIST + 1, !.reached = r]
<1>5. a \in Association /\ a.offset = 0 /\ (a.reached => att[p].reached)
  <2>1. r \in BOOLEAN  BY <1>2, <1>4, Zenon DEF Association
  <2>2. a.offset = 0 /\ a.reached = r  BY <1>4 DEF Association
  <2>3. a.reached => att[p].reached  BY <1>2, <2>2, Zenon
  <2>4. 0 \in Int  OBVIOUS
  <2>5. a \in Association  BY <1>4, <2>1, <2>4 DEF Association
  <2> QED BY <2>2, <2>3, <2>5
<1>6. att' = [att EXCEPT ![p] = a]  BY <1>1, <1>2 DEF Typed
<1> HIDE DEF a
<1>7. att' \in [Peers -> Association]  BY <1>1, <1>5, <1>6 DEF Typed
<1>8. /\ \A q \in Peers : ~att'[q].reached => att'[q].offset = 0
      /\ \A q \in Peers : att'[q].reached => q \in heard'
      /\ heard' \subseteq Peers
  BY <1>1, <1>3, <1>5, <1>6 DEF Typed
<1>9. packets' \in 0 .. MaxPackets
  BY <1>1, BoundsAssumption DEF Typed, Missing
<1> QED BY <1>3, <1>7, <1>8, <1>9, FilterInv

\* A header that is taken over and then discarded.
LEMMA DiscardedInv ==
  ASSUME Inv, NEW p \in Peers, NEW header \in Samples \union {Cleared}, Discarded(p, header)
  PROVE  Inv'
<1> DEFINE a == [header EXCEPT !.offset = att[p].offset, !.jitter = att[p].jitter,
                               !.reached = att[p].reached]
<1>1. Typed /\ Selected  BY DEF Inv
<1>2. header \in Association /\ att[p] \in Association
  BY <1>1, SamplesAreAssociations DEF Typed
<1>3. a \in Association /\ a.offset = att[p].offset /\ a.reached = att[p].reached
  BY <1>2 DEF Association
<1>4. att' = [att EXCEPT ![p] = a] /\ UNCHANGED <<sys, seen, fits, found, heard>>
  BY DEF Discarded
<1> HIDE DEF a
<1>5. att' \in [Peers -> Association]  BY <1>1, <1>3, <1>4 DEF Typed
<1>6. \A q \in Peers : ~att'[q].reached => att'[q].offset = 0
  BY <1>1, <1>3, <1>4 DEF Typed
<1>7. packets' \in 0 .. MaxPackets
  BY <1>1, BoundsAssumption DEF Typed, Discarded
<1>8. Typed'
  <2>1. /\ (sP # NULL => sP \in heard)' /\ heard' \subseteq Peers
        /\ \A q \in Peers : att'[q].reached => q \in heard'
    BY <1>1, <1>3, <1>4 DEF Typed, sys
  <2> QED BY <1>1, <1>4, <1>5, <1>6, <1>7, <2>1 DEF Typed, sys
<1>9. Selected'
  BY <1>1, <1>4 DEF Selected, SelectsIffFit, SurvivorsIntersect, EarliestSurvives,
                    KeptPeerSharesStratum, Lower, Upper, sys
<1> QED BY <1>8, <1>9 DEF Inv

\* Every packet, and every missing one, keeps the invariant.
LEMMA StepInv == Inv /\ [Next]_vars => Inv'
<1> SUFFICES ASSUME Inv, [Next]_vars PROVE Inv'  OBVIOUS
<1>1. CASE UNCHANGED vars
  BY <1>1 DEF vars, sys, Inv, Typed, Selected, SelectsIffFit, SurvivorsIntersect,
              EarliestSurvives, KeptPeerSharesStratum, Lower, Upper
<1>2. ASSUME NEW p \in Peers, NEW a \in Samples, Sample(p, a)
      PROVE  Inv'
  BY <1>2, SampleInv
<1>3. ASSUME NEW p \in Peers, NEW header \in Samples \union {Cleared}, Discarded(p, header)
      PROVE  Inv'
  BY <1>3, DiscardedInv
<1>4. ASSUME NEW p \in Peers, Missing(p) PROVE Inv'
  BY <1>4, MissingInv
<1> QED BY <1>1, <1>2, <1>3, <1>4 DEF Next

\* Every clock_select() leaves well-formed lists and a sound selection.
THEOREM Invariance == Spec => []Inv
<1>1. Init => Inv  BY InitInv
<1>2. Inv /\ [Next]_vars => Inv'  BY StepInv
<1> QED BY <1>1, <1>2, PTL DEF Spec

\* The list s.v holds at most three entries to a server and s.n stays within it,
\* the system peer is one of the servers, and every survivor was fit.
THEOREM TypeCorrect == Spec => []TypeOK
<1>1. Inv => TypeOK
  BY DEF Inv, Typed, TypeOK, Association, Refs
<1> QED BY <1>1, Invariance, PTL

\* After every selection there is a system peer exactly when some peer is fit.
THEOREM SelectionSucceeds == Spec => []SelectsIffFit
<1>1. Inv => SelectsIffFit  BY DEF Inv, Selected
<1> QED BY <1>1, Invariance, PTL

\* The correctness intervals of all survivors share a point.
THEOREM SurvivorsAgree == Spec => []SurvivorsIntersect
<1>1. Inv => SurvivorsIntersect  BY DEF Inv, Selected
<1> QED BY <1>1, Invariance, PTL

\* A fit peer of the least offset survives, whatever the others say.
THEOREM EarliestFitSurvives == Spec => []EarliestSurvives
<1>1. Inv => EarliestSurvives  BY DEF Inv, Selected
<1> QED BY <1>1, Invariance, PTL

\* The system peer is at the stratum of the first survivor and has been heard,
\* also when it was kept without a look at the survivors.
THEOREM SystemPeerStratum == Spec => []KeptPeerSharesStratum
<1>1. Inv => KeptPeerSharesStratum  BY DEF Inv, Selected
<1> QED BY <1>1, Invariance, PTL
============================================================================
