------------------------ MODULE DirectoryQueriesProofs ------------------------
(***************************************************************************)
(* Lemmas about the queries of a directory, for directories and pages of    *)
(* any size: ranks number the children without gaps, so that cutting them   *)
(* at ranks cuts them into slices; and what the pages together show.        *)
(***************************************************************************)
EXTENDS DirectoryQueries, FiniteSetTheorems, FunctionTheorems, TLAPS

IsDirectory(d) ==
  /\ DOMAIN d \subseteq Nat /\ IsFiniteSet(DOMAIN d)
  /\ \A k \in DOMAIN d : d[k] \in BOOLEAN

-----------------------------------------------------------------------------
(* Ranks *)

LEMMA ChildrenFinite ==
  ASSUME NEW d, IsDirectory(d), NEW S \in SUBSET DOMAIN d
  PROVE  IsFiniteSet(S) /\ Cardinality(S) \in Nat /\ Cardinality(S) <= Cardinality(DOMAIN d)
  BY FS_Subset, FS_CardinalityType DEF IsDirectory

(* Before is a strict total order of the children.                          *)
LEMMA BeforeIsOrder ==
  ASSUME NEW d, IsDirectory(d)
  PROVE  /\ \A k \in DOMAIN d : ~ Before(d, k, k)
         /\ \A i, j, k \in DOMAIN d : Before(d, i, j) /\ Before(d, j, k) => Before(d, i, k)
         /\ \A j, k \in DOMAIN d : j = k \/ Before(d, j, k) \/ Before(d, k, j)
<1>0. \A k \in DOMAIN d : k \in Int
  <2>1. DOMAIN d \subseteq Nat
    BY Zenon DEF IsDirectory
  <2>2. \A k \in Nat : k \in Int
    OBVIOUS
  <2> QED  BY <2>1, <2>2, Zenon
<1>1. \A k \in DOMAIN d : d[k] = TRUE \/ d[k] = FALSE
  <2>1. \A b \in BOOLEAN : b = TRUE \/ b = FALSE
    BY Zenon
  <2> QED  BY <2>1, Zenon DEF IsDirectory
<1>2. \A k \in DOMAIN d : ~ Before(d, k, k)
  BY <1>0 DEF Before
<1>3. \A i, j, k \in DOMAIN d : Before(d, i, j) /\ Before(d, j, k) => Before(d, i, k)
  <2> SUFFICES ASSUME NEW i \in DOMAIN d, NEW j \in DOMAIN d, NEW k \in DOMAIN d,
                      Before(d, i, j), Before(d, j, k)
               PROVE  Before(d, i, k)
    OBVIOUS
  <2>1. CASE d[i] = d[j] /\ d[j] = d[k]
    BY <1>0, <2>1 DEF Before
  <2>2. CASE d[i] # d[j]
    <3>1. d[i] = TRUE /\ d[j] = FALSE
      BY <1>1, <2>2 DEF Before
    <3>2. d[k] = FALSE
      BY <1>1, <3>1 DEF Before
    <3> QED  BY <3>1, <3>2 DEF Before
  <2>3. CASE d[i] = d[j] /\ d[j] # d[k]
    <3>1. d[i] = TRUE /\ d[k] = FALSE
      BY <1>1, <2>3 DEF Before
    <3> QED  BY <3>1 DEF Before
  <2> QED  BY <2>1, <2>2, <2>3
<1>4. \A j, k \in DOMAIN d : j = k \/ Before(d, j, k) \/ Before(d, k, j)
  <2> SUFFICES ASSUME NEW j \in DOMAIN d, NEW k \in DOMAIN d, j # k
               PROVE  Before(d, j, k) \/ Before(d, k, j)
    OBVIOUS
  <2>1. CASE d[j] = d[k]
    BY <1>0, <2>1 DEF Before
  <2>2. CASE d[j] # d[k]
    BY <1>1, <2>2 DEF Before
  <2> QED  BY <2>1, <2>2
<1> QED  BY <1>2, <1>3, <1>4

LEMMA RankBelow ==
  ASSUME NEW d, IsDirectory(d), NEW S \in SUBSET DOMAIN d, NEW k \in S
  PROVE  Rank(d, S, k) \in 0 .. Cardinality(S) - 1
<1> DEFINE Earlier == {j \in S : Before(d, j, k)}
<1>1. IsFiniteSet(S) /\ Cardinality(S) \in Nat
  BY ChildrenFinite
<1>2. IsFiniteSet(S \ {k}) /\ Cardinality(S \ {k}) = Cardinality(S) - 1
  BY <1>1, FS_RemoveElement
<1>3. Earlier \in SUBSET (S \ {k})
  BY BeforeIsOrder
<1>4. Cardinality(Earlier) \in Nat /\ Cardinality(Earlier) <= Cardinality(S) - 1
  BY <1>2, <1>3, FS_Subset, FS_CardinalityType
<1> QED  BY <1>1, <1>4 DEF Rank

LEMMA RankOrdered ==
  ASSUME NEW d, IsDirectory(d), NEW S \in SUBSET DOMAIN d, NEW j \in S, NEW k \in S, Before(d, j, k)
  PROVE  Rank(d, S, j) < Rank(d, S, k)
<1> DEFINE J == {i \in S : Before(d, i, j)}
           K == {i \in S : Before(d, i, k)}
<1>1. IsFiniteSet(S)
  BY ChildrenFinite
<1>2. IsFiniteSet(K) /\ Cardinality(K) \in Nat
  BY <1>1, FS_Subset, FS_CardinalityType
<1>3. IsFiniteSet(K \ {j}) /\ Cardinality(K \ {j}) = Cardinality(K) - 1
  BY <1>2, FS_RemoveElement
<1>4. J \in SUBSET (K \ {j})
  BY BeforeIsOrder
<1>5. Cardinality(J) \in Nat /\ Cardinality(J) <= Cardinality(K) - 1
  BY <1>3, <1>4, FS_Subset, FS_CardinalityType
<1> QED  BY <1>2, <1>5 DEF Rank

LEMMA RanksDiffer ==
  ASSUME NEW d, IsDirectory(d), NEW S \in SUBSET DOMAIN d, NEW j \in S, NEW k \in S,
         Rank(d, S, j) = Rank(d, S, k)
  PROVE  j = k
<1>1. ~ Before(d, j, k) /\ ~ Before(d, k, j)
  <2>1. Rank(d, S, j) \in Int
    BY RankBelow
  <2>2. ~ (Rank(d, S, j) < Rank(d, S, k)) /\ ~ (Rank(d, S, k) < Rank(d, S, j))
    BY <2>1
  <2> QED  BY <2>2, RankOrdered
<1> QED  BY <1>1, BeforeIsOrder

(* No two children have the same rank, and no rank is left out.             *)
LEMMA RanksNumber ==
  ASSUME NEW d, IsDirectory(d), NEW S \in SUBSET DOMAIN d
  PROVE  [k \in S |-> Rank(d, S, k)] \in Bijection(S, 0 .. Cardinality(S) - 1)
<1> DEFINE T == 0 .. Cardinality(S) - 1
           f == [k \in S |-> Rank(d, S, k)]
<1>1. IsFiniteSet(S) /\ Cardinality(S) \in Nat
  BY ChildrenFinite
<1>2. IsFiniteSet(T) /\ Cardinality(T) = Cardinality(S)
  BY <1>1, FS_Interval
<1>3. \A k \in S : Rank(d, S, k) \in T
  BY RankBelow
<1>4. f \in [S -> T]
  BY <1>3
<1>5. ASSUME NEW j \in S, NEW k \in S, f[j] = f[k] PROVE j = k
  <2>1. Rank(d, S, j) = Rank(d, S, k)
    BY <1>5
  <2> QED  BY <2>1, RanksDiffer
<1> HIDE DEF f, T
<1>6. f \in Injection(S, T)
  BY <1>4, <1>5, Fun_IsInj
<1>7. f \in Surjection(S, T)
  BY <1>1, <1>2, <1>6, FS_Injection
<1> QED  BY <1>6, <1>7 DEF Bijection, f, T

LEMMA RankTaken ==
  ASSUME NEW d, IsDirectory(d), NEW S \in SUBSET DOMAIN d, NEW n \in 0 .. Cardinality(S) - 1
  PROVE  \E k \in S : Rank(d, S, k) = n
<1> DEFINE f == [k \in S |-> Rank(d, S, k)]
<1>1. f \in Bijection(S, 0 .. Cardinality(S) - 1)
  BY RanksNumber
<1>2. \A k \in S : f[k] = Rank(d, S, k)
  OBVIOUS
<1> HIDE DEF f
<1>3. \E k \in S : f[k] = n
  BY <1>1 DEF Bijection, Surjection
<1> QED  BY <1>2, <1>3

(* A cut at ranks a and b has b - a children.                               *)
LEMMA CutCounts ==
  ASSUME NEW d, IsDirectory(d), NEW S \in SUBSET DOMAIN d,
         NEW a \in Nat, NEW b \in Nat, a <= b, b <= Cardinality(S)
  PROVE  Cardinality({k \in S : Rank(d, S, k) \in a .. b - 1}) = b - a
<1> DEFINE C == {k \in S : Rank(d, S, k) \in a .. b - 1}
           T == a .. b - 1
           f == [k \in C |-> Rank(d, S, k)]
<1>1. IsFiniteSet(S) /\ Cardinality(S) \in Nat
  BY ChildrenFinite
<1>2. f \in [C -> T]
  OBVIOUS
<1>3. \A j, k \in S : Rank(d, S, j) = Rank(d, S, k) => j = k
  BY RanksDiffer
<1>4. \A j, k \in C : f[j] = f[k] => j = k
  BY <1>3
<1>5. \A n \in T : \E k \in C : f[k] = n
  <2> TAKE n \in T
  <2>1. n \in 0 .. Cardinality(S) - 1
    BY <1>1
  <2>2. PICK k \in S : Rank(d, S, k) = n
    BY <2>1, RankTaken
  <2> QED  BY <2>2
<1>6. IsFiniteSet(C)
  BY <1>1, FS_Subset
<1> HIDE DEF f, C, T
<1>7. f \in Injection(C, T) /\ f \in Surjection(C, T)
  BY <1>2, <1>4, <1>5, Fun_IsInj, Fun_IsSurj
<1>8. Cardinality(T) = Cardinality(C)
  BY <1>6, <1>7, FS_Surjection
<1>9. Cardinality(T) = b - a
  BY FS_Interval DEF T
<1> QED  BY <1>8, <1>9 DEF C

(* LIMIT n returns n rows at most.                                          *)
LEMMA FirstCounts ==
  ASSUME NEW d, IsDirectory(d), NEW S \in SUBSET DOMAIN d, NEW n \in Nat
  PROVE  Cardinality(First(d, S, n)) <= n
<1>1. Cardinality(S) \in Nat /\ \A k \in S : Rank(d, S, k) \in 0 .. Cardinality(S) - 1
  BY ChildrenFinite, RankBelow
<1> DEFINE m == Smaller(n, Cardinality(S))
<1>2. m \in Nat /\ m <= Cardinality(S) /\ m <= n
  BY <1>1 DEF Smaller
<1>3. First(d, S, n) = {k \in S : Rank(d, S, k) \in 0 .. m - 1}
  BY <1>1 DEF First, Smaller
<1> HIDE DEF m
<1>4. Cardinality(First(d, S, n)) = m
  BY <1>2, <1>3, CutCounts
<1> QED  BY <1>2, <1>4

-----------------------------------------------------------------------------
(* The queries *)

LEMMA AfterIsPart ==
  ASSUME NEW d, NEW cursor
  PROVE  After(d, cursor) \subseteq DOMAIN d
  BY DEF After

(* GetDirectChildren returns a page of children at most.                    *)
LEMMA ChildrenFit ==
  ASSUME NEW d, IsDirectory(d), NEW cursor
  PROVE  Children(d, cursor) \subseteq DOMAIN d /\ Cardinality(Children(d, cursor)) <= ChildrenPerPage
<1> DEFINE S == IF cursor = NoCursor THEN DOMAIN d ELSE After(d, cursor)
<1>1. S \in SUBSET DOMAIN d
  BY AfterIsPart
<1>2. ChildrenPerPage \in Nat
  BY ChildrenPerPageAssumption
<1>3. Children(d, cursor) = First(d, S, ChildrenPerPage)
  BY DEF Children
<1> HIDE DEF S
<1> QED  BY <1>1, <1>2, <1>3, FirstCounts DEF First

LEMMA CursorIsRow ==
  ASSUME NEW d, IsDirectory(d), NEW offset
  PROVE  CursorAt(d, offset) \in [folder : BOOLEAN, key : DOMAIN d \cup {-1}]
<1>1. CASE \E k \in DOMAIN d : Rank(d, DOMAIN d, k) = offset
  <2> DEFINE k0 == CHOOSE k \in DOMAIN d : Rank(d, DOMAIN d, k) = offset
  <2>1. k0 \in DOMAIN d
    BY <1>1
  <2>2. CursorAt(d, offset) = [folder |-> d[k0], key |-> k0]
    BY <1>1 DEF CursorAt
  <2> HIDE DEF k0
  <2>3. d[k0] \in BOOLEAN /\ k0 \in DOMAIN d
    BY <2>1 DEF IsDirectory
  <2>4. \A b \in BOOLEAN, k \in DOMAIN d : [folder |-> b, key |-> k] \in [folder : BOOLEAN, key : DOMAIN d \cup {-1}]
    OBVIOUS
  <2> QED  BY <2>2, <2>3, <2>4, Zenon
<1>2. CASE ~ \E k \in DOMAIN d : Rank(d, DOMAIN d, k) = offset
  BY <1>2 DEF CursorAt, NoCursor
<1> QED  BY <1>1, <1>2

-----------------------------------------------------------------------------
(* Pages and cursors *)

(* A page has a next one if and only if the pages up to it are too few.     *)
LEMMA PagesNeeded ==
  ASSUME NEW n \in Nat, NEW page \in Nat \ {0}
  PROVE  page < TotalPages(n) <=> n > page * ChildrenPerPage
<1>0. ChildrenPerPage \in Nat \ {0}
  BY ChildrenPerPageAssumption
<1>1. CASE n > 0
  <2> DEFINE a == n + ChildrenPerPage - 1
             q == a \div ChildrenPerPage
  <2>1. a \in Nat
    BY <1>0
  <2>2. q \in Nat /\ q * ChildrenPerPage <= a /\ a < (q + 1) * ChildrenPerPage
    BY <1>0, <2>1
  <2>3. TotalPages(n) = q
    BY <1>1 DEF TotalPages
  <2> HIDE DEF q
  <2>4. CASE page < q
    <3>1. (page + 1) * ChildrenPerPage <= q * ChildrenPerPage
      BY <1>0, <2>2, <2>4
    <3> QED  BY <1>0, <2>2, <2>3, <2>4, <3>1
  <2>5. CASE q <= page
    <3>1. q * ChildrenPerPage <= page * ChildrenPerPage
      BY <1>0, <2>2, <2>5
    <3> QED  BY <1>0, <2>2, <2>3, <2>5, <3>1
  <2> QED  BY <2>2, <2>4, <2>5
<1>2. CASE n = 0
  <2>1. page * ChildrenPerPage >= 0 /\ TotalPages(n) = 1
    BY <1>0, <1>2 DEF TotalPages
  <2> QED  BY <1>0, <1>2, <2>1
<1> QED  BY <1>1, <1>2

(* In a directory of one kind the rows after the m-th are those of rank m   *)
(* and more: the cursor cuts where the pages before end.                    *)
LEMMA CursorCuts ==
  ASSUME NEW d, IsDirectory(d), FoldersOf(d) \in {{}, DOMAIN d},
         NEW m \in Nat \ {0}, m <= Cardinality(DOMAIN d)
  PROVE  Children(d, CursorAt(d, m - 1)) =
           {k \in DOMAIN d : Rank(d, DOMAIN d, k) \in m .. m + ChildrenPerPage - 1}
<1> DEFINE D == DOMAIN d
           rank(k) == Rank(d, D, k)
           k0 == CHOOSE k \in D : rank(k) = m - 1
           cursor == [folder |-> d[k0], key |-> k0]
           A == After(d, cursor)
<1>0. ChildrenPerPage \in Nat /\ Cardinality(D) \in Nat /\ IsFiniteSet(D)
  BY ChildrenPerPageAssumption, ChildrenFinite
<1>d. \A k \in D : k \in Nat
  BY Zenon DEF IsDirectory
<1>1. \A j, k \in D : d[j] = d[k]
  <2>1. \A k \in D : d[k] \in BOOLEAN
    BY Zenon DEF IsDirectory
  <2>2. CASE FoldersOf(d) = {}
    <3>1. \A k \in D : ~ d[k]
      BY <2>2, Zenon DEF FoldersOf
    <3>2. \A k \in D : d[k] = FALSE
      BY <2>1, <3>1, Zenon
    <3> QED  BY <3>2, Zenon
  <2>3. CASE FoldersOf(d) = D
    <3>1. \A k \in D : d[k]
      BY <2>3, Zenon DEF FoldersOf
    <3>2. \A k \in D : d[k] = TRUE
      BY <2>1, <3>1, Zenon
    <3> QED  BY <3>2, Zenon
  <2> QED  BY <2>2, <2>3
<1>2. \A j, k \in D : Before(d, j, k) <=> j < k
  BY <1>1, Zenon DEF Before
<1>3. \A k \in D : rank(k) \in 0 .. Cardinality(D) - 1
  BY RankBelow
<1>4. k0 \in D /\ rank(k0) = m - 1 /\ CursorAt(d, m - 1) = cursor
  <2>1. m - 1 \in 0 .. Cardinality(D) - 1
    BY <1>0
  <2>2. \E k \in D : rank(k) = m - 1
    BY <2>1, RankTaken
  <2> QED  BY <2>2 DEF CursorAt
<1>5. cursor # NoCursor
  <2>1. k0 \in Nat
    BY <1>d, <1>4
  <2>2. cursor.key = k0 /\ NoCursor.key = -1
    BY DEF NoCursor
  <2>3. \A n \in Nat : n # -1
    OBVIOUS
  <2> HIDE DEF cursor, k0
  <2> QED  BY <2>1, <2>2, <2>3
<1>6. A = {k \in D : k > k0}
  BY <1>1, <1>4 DEF After
<1> HIDE DEF k0, cursor, A
<1>7. \A k \in D : k > k0 <=> rank(k) >= m
  <2> SUFFICES ASSUME NEW k \in D PROVE k > k0 <=> rank(k) >= m
    OBVIOUS
  <2>1. k \in Nat /\ k0 \in Nat /\ rank(k) \in Int
    BY <1>d, <1>3, <1>4
  <2>2. CASE k > k0
    <3>1. Before(d, k0, k)
      BY <1>2, <1>4, <2>1, <2>2
    <3>2. rank(k0) < rank(k)
      BY <1>4, <3>1, RankOrdered
    <3> QED  BY <1>4, <2>1, <2>2, <3>2
  <2>3. CASE k < k0
    <3>1. Before(d, k, k0)
      BY <1>2, <1>4, <2>3
    <3>2. rank(k) < rank(k0)
      BY <1>4, <3>1, RankOrdered
    <3> QED  BY <1>4, <2>1, <2>3, <3>2
  <2>4. CASE k = k0
    BY <1>4, <2>1, <2>4
  <2> QED  BY <2>1, <2>2, <2>3, <2>4
<1>8. A = {k \in D : rank(k) >= m}
  BY <1>6, <1>7
<1>9. ASSUME NEW k \in A PROVE rank(k) = m + Rank(d, A, k)
  <2> DEFINE L == {j \in D : rank(j) \in 0 .. m - 1}
             R == {j \in A : Before(d, j, k)}
             E == {j \in D : Before(d, j, k)}
  <2>0. k \in D /\ rank(k) >= m /\ A \subseteq D /\ rank(k) \in Int
    BY <1>3, <1>8
  <2>1. Cardinality(L) = m
    <3>1. Cardinality(L) = m - 0
      BY <1>0, CutCounts
    <3> QED  BY <3>1
  <2>2. IsFiniteSet(L) /\ IsFiniteSet(R)
    BY <1>0, <2>0, FS_Subset
  <2>3. L \cap R = {}
    BY <1>3, <1>8
  <2>4. ASSUME NEW j \in L PROVE Before(d, j, k)
    <3>1. rank(j) < rank(k) /\ j \in D /\ rank(j) \in Int
      BY <1>3, <2>0
    <3>2. j # k
      BY <3>1
    <3>3. ~ Before(d, k, j)
      <4>1. ~ (rank(k) < rank(j))
        BY <2>0, <3>1
      <4> QED  BY <2>0, <3>1, <4>1, RankOrdered
    <3> QED  BY <2>0, <3>1, <3>2, <3>3, BeforeIsOrder
  <2>5. E = L \cup R
    BY <1>3, <1>8, <2>0, <2>4
  <2>6. Cardinality(E) = Cardinality(L) + Cardinality(R) - Cardinality({})
    BY <2>2, <2>3, <2>5, FS_Union
  <2>7. Cardinality(R) \in Nat /\ Cardinality({}) = 0
    BY <2>2, FS_CardinalityType, FS_EmptySet
  <2>8. rank(k) = Cardinality(E) /\ Rank(d, A, k) = Cardinality(R)
    BY DEF Rank
  <2> HIDE DEF L, R, E
  <2> QED  BY <2>1, <2>6, <2>7, <2>8
<1>10. Children(d, cursor) = {k \in A : Rank(d, A, k) < ChildrenPerPage}
  BY <1>5 DEF Children, First, A
<1>11. ASSUME NEW k \in A PROVE Rank(d, A, k) < ChildrenPerPage <=> rank(k) \in m .. m + ChildrenPerPage - 1
  <2>1. A \in SUBSET D /\ rank(k) \in Int /\ rank(k) >= m
    BY <1>3, <1>8
  <2>2. rank(k) = m + Rank(d, A, k)
    BY <1>9
  <2>3. Rank(d, A, k) \in Int
    BY <2>1, RankBelow
  <2> QED  BY <1>0, <2>1, <2>2, <2>3
<1>12. \A k \in D : rank(k) \in m .. m + ChildrenPerPage - 1 => k \in A
  BY <1>8
<1> QED
  BY <1>4, <1>8, <1>10, <1>11, <1>12

(* A cursor of the same kind leaves out nothing that comes after it: a      *)
(* folder, or a file where there are no folders, is on the page of its rank.*)
LEMMA ShownAfterCursor ==
  ASSUME NEW d, IsDirectory(d), NEW k \in DOMAIN d, d[k] \/ FoldersOf(d) = {},
         NEW m \in Nat \ {0}, m <= Rank(d, DOMAIN d, k), Rank(d, DOMAIN d, k) < m + ChildrenPerPage
  PROVE  k \in Children(d, CursorAt(d, m - 1))
<1> DEFINE D == DOMAIN d
           rank(j) == Rank(d, D, j)
           k0 == CHOOSE j \in D : rank(j) = m - 1
           cursor == [folder |-> d[k0], key |-> k0]
           A == After(d, cursor)
<1>0. /\ ChildrenPerPage \in Nat /\ Cardinality(D) \in Nat /\ IsFiniteSet(D)
      /\ rank(k) \in 0 .. Cardinality(D) - 1
  BY ChildrenPerPageAssumption, ChildrenFinite, RankBelow
<1>d. \A j \in D : j \in Nat
  BY Zenon DEF IsDirectory
<1>1. k0 \in D /\ rank(k0) = m - 1 /\ CursorAt(d, m - 1) = cursor
  <2>1. m - 1 \in 0 .. Cardinality(D) - 1
    BY <1>0
  <2>2. \E j \in D : rank(j) = m - 1
    BY <2>1, RankTaken
  <2> QED  BY <2>2 DEF CursorAt
<1>2. cursor # NoCursor
  <2>1. k0 \in Nat
    BY <1>d, <1>1
  <2>2. cursor.key = k0 /\ NoCursor.key = -1
    BY DEF NoCursor
  <2>3. \A n \in Nat : n # -1
    OBVIOUS
  <2> HIDE DEF cursor, k0
  <2> QED  BY <2>1, <2>2, <2>3
<1>3. A = {j \in D : IF d[j] = d[k0] THEN j > k0 ELSE d[j]}
  BY <1>1 DEF After
<1> HIDE DEF k0, cursor, A
<1>4. Before(d, k0, k)
  <2>1. k # k0
    BY <1>1
  <2>2. ~ Before(d, k, k0)
    <3>1. ~ (rank(k) < rank(k0))
      BY <1>0, <1>1
    <3> QED  BY <1>1, <3>1, RankOrdered
  <2> QED  BY <1>1, <2>1, <2>2, BeforeIsOrder
<1>5. /\ d[k0] = d[k] /\ k > k0
      /\ \A j \in A : d[j] = d[k0] /\ j > k0
  <2>1. \A j \in D : d[j] = TRUE \/ d[j] = FALSE
    <3>1. \A b \in BOOLEAN : b = TRUE \/ b = FALSE
      BY Zenon
    <3> QED  BY <3>1, Zenon DEF IsDirectory
  <2>2. CASE d[k]
    <3>1. d[k] = TRUE
      BY <2>1, <2>2, Zenon
    <3>2. d[k0] = TRUE
      BY <1>1, <1>4, <2>1, <3>1 DEF Before
    <3>3. \A j \in A : d[j] = TRUE
      BY <1>3, <2>1, <3>2, Zenon
    <3>4. k0 < k
      BY <1>4, <3>1, <3>2 DEF Before
    <3>5. \A j \in A : j > k0
      BY <1>3, <3>2, <3>3
    <3>6. k > k0
      BY <1>1, <1>d, <3>4
    <3> QED  BY <3>1, <3>2, <3>3, <3>5, <3>6
  <2>3. CASE FoldersOf(d) = {}
    <3>1. \A j \in D : ~ d[j]
      BY <2>3, Zenon DEF FoldersOf
    <3>2. \A j \in D : d[j] = FALSE
      BY <2>1, <3>1, Zenon
    <3>3. k0 < k
      BY <1>1, <1>4, <3>2 DEF Before
    <3>4. A \subseteq D
      BY <1>3
    <3>5. \A j \in A : d[j] = d[k0]
      BY <1>1, <3>2, <3>4
    <3>6. \A j \in A : j > k0
      BY <1>3, <3>5
    <3>7. k > k0
      BY <1>1, <1>d, <3>3
    <3>8. d[k0] = d[k]
      BY <1>1, <3>2, Zenon
    <3> QED  BY <3>5, <3>6, <3>7, <3>8
  <2> QED  BY <2>2, <2>3
<1>6. k \in A /\ A \in SUBSET D
  BY <1>3, <1>5
<1> DEFINE L == {j \in D : rank(j) \in 0 .. m - 1}
           R == {j \in A : Before(d, j, k)}
           E == {j \in D : Before(d, j, k)}
<1>7. \A j \in A : rank(j) >= m
  <2> TAKE j \in A
  <2>1. d[j] = d[k0] /\ j > k0 /\ j \in D
    BY <1>5, <1>6
  <2>2. Before(d, k0, j)
    BY <1>1, <1>d, <2>1 DEF Before
  <2>3. rank(k0) < rank(j) /\ rank(j) \in Int
    BY <1>1, <2>1, <2>2, RankOrdered, RankBelow
  <2> QED  BY <1>1, <2>3
<1>8. Cardinality(L) = m /\ IsFiniteSet(L) /\ IsFiniteSet(R)
  <2>1. Cardinality(L) = m - 0
    BY <1>0, CutCounts
  <2> QED  BY <1>0, <1>6, <2>1, FS_Subset
<1>9. L \cap R = {}
  BY <1>7, RankBelow
<1>10. ASSUME NEW j \in L PROVE Before(d, j, k)
  <2>1. rank(j) < rank(k) /\ j \in D /\ rank(j) \in Int
    BY <1>0
  <2>2. j # k
    BY <2>1
  <2>3. ~ Before(d, k, j)
    <3>1. ~ (rank(k) < rank(j))
      BY <1>0, <2>1
    <3> QED  BY <2>1, <3>1, RankOrdered
  <2> QED  BY <2>1, <2>2, <2>3, BeforeIsOrder
<1>11. L \cup R \in SUBSET E
  BY <1>6, <1>10
<1>12. Cardinality(L \cup R) = Cardinality(L) + Cardinality(R)
  <2>1. Cardinality(L \cup R) = Cardinality(L) + Cardinality(R) - Cardinality({})
    BY <1>8, <1>9, FS_Union
  <2>2. Cardinality(R) \in Nat /\ Cardinality({}) = 0
    BY <1>8, FS_CardinalityType, FS_EmptySet
  <2> HIDE DEF L, R
  <2> QED  BY <1>8, <2>1, <2>2
<1>13. Cardinality(L \cup R) <= Cardinality(E)
  BY <1>0, <1>11, FS_Subset
<1>14. rank(k) = Cardinality(E) /\ Rank(d, A, k) = Cardinality(R) /\ Cardinality(R) \in Nat
  BY <1>8, FS_CardinalityType DEF Rank
<1> HIDE DEF L, R, E
<1>15. Rank(d, A, k) < ChildrenPerPage
  <2>1. m + Rank(d, A, k) <= rank(k) /\ Rank(d, A, k) \in Nat /\ rank(k) \in Int
    BY <1>0, <1>8, <1>12, <1>13, <1>14
  <2> QED  BY <1>0, <2>1
<1> QED  BY <1>1, <1>2, <1>6, <1>15 DEF Children, First, A

(* Every folder is on one of the pages, and every file that shares its      *)
(* directory with no folder, or with so few rows that one page holds all.   *)
LEMMA OnSomePage ==
  ASSUME NEW d, IsDirectory(d), NEW k \in DOMAIN d,
         d[k] \/ FoldersOf(d) = {} \/ Cardinality(DOMAIN d) <= ChildrenPerPage
  PROVE  \E n \in 1 .. TotalPages(Cardinality(DOMAIN d)) : k \in PageOf(d, n)
<1> DEFINE D == DOMAIN d
           N == Cardinality(D)
           r == Rank(d, D, k)
           q == r \div ChildrenPerPage
<1>0. /\ ChildrenPerPage \in Nat \ {0} /\ N \in Nat /\ r \in Nat /\ r < N
  BY ChildrenPerPageAssumption, ChildrenFinite, RankBelow
<1>1. /\ q \in Nat /\ q * ChildrenPerPage <= r /\ r < q * ChildrenPerPage + ChildrenPerPage
  <2>1. \A a \in Nat, b \in Nat \ {0} :
          a \div b \in Nat /\ (a \div b) * b <= a /\ a < (a \div b) * b + b
    OBVIOUS
  <2> HIDE DEF r
  <2> QED  BY <1>0, <2>1
<1> HIDE DEF r, q
<1>2. CASE q = 0
  <2>1. r < ChildrenPerPage
    BY <1>0, <1>1, <1>2
  <2>2. k \in PageOf(d, 1)
    BY <2>1 DEF PageOf, Children, First, r
  <2>3. TotalPages(N) >= 1
    <3>1. \A a \in Nat, b \in Nat \ {0} : a >= b => a \div b >= 1
      OBVIOUS
    <3>2. N + ChildrenPerPage - 1 \in Nat /\ N + ChildrenPerPage - 1 >= ChildrenPerPage /\ N > 0
      BY <1>0
    <3> HIDE DEF N
    <3> QED  BY <1>0, <3>1, <3>2 DEF TotalPages
  <2>4. TotalPages(N) \in Int
    BY <1>0 DEF TotalPages
  <2>5. 1 \in 1 .. TotalPages(N)
    BY <2>3, <2>4
  <2> QED  BY <2>2, <2>5
<1>3. CASE q # 0
  <2> DEFINE m == q * ChildrenPerPage
  <2>1. m \in Nat \ {0} /\ m <= r /\ r < m + ChildrenPerPage /\ q \in Nat \ {0} /\ m >= ChildrenPerPage
    <3>1. q \in Nat \ {0}
      BY <1>1, <1>3
    <3>2. \A a, b \in Nat \ {0} : a * b \in Nat \ {0} /\ a * b >= b
      OBVIOUS
    <3> QED  BY <1>0, <1>1, <3>1, <3>2
  <2>2. N > m
    BY <1>0, <2>1
  <2>3. d[k] \/ FoldersOf(d) = {}
    BY <1>0, <2>1, <2>2
  <2>4. k \in Children(d, CursorAt(d, m - 1))
    BY <2>1, <2>3, ShownAfterCursor DEF r
  <2>5. k \in PageOf(d, q + 1)
    <3>1. (q + 1) - 1 = q /\ q + 1 # 1
      BY <2>1
    <3> QED  BY <2>4, <3>1 DEF PageOf
  <2>6. q < TotalPages(N)
    BY <1>0, <2>1, <2>2, PagesNeeded
  <2>7. q + 1 \in 1 .. TotalPages(N)
    <3>1. TotalPages(N) \in Int
      BY <1>0 DEF TotalPages
    <3> QED  BY <2>1, <2>6, <3>1
  <2> QED  BY <2>5, <2>7
<1> QED  BY <1>2, <1>3

(* The first page of a directory that is not empty is not empty.            *)
LEMMA FirstPageShows ==
  ASSUME NEW d, IsDirectory(d), DOMAIN d # {}
  PROVE  \E k \in DOMAIN d : \E n \in 1 .. TotalPages(Cardinality(DOMAIN d)) : k \in PageOf(d, n)
<1> DEFINE N == Cardinality(DOMAIN d)
<1>0. ChildrenPerPage \in Nat \ {0} /\ N \in Nat
  BY ChildrenPerPageAssumption, ChildrenFinite
<1>1. N > 0
  <2>1. PICK k \in DOMAIN d : TRUE
    OBVIOUS
  <2>2. Rank(d, DOMAIN d, k) \in 0 .. N - 1
    BY RankBelow
  <2> QED  BY <1>0, <2>2
<1>2. PICK k \in DOMAIN d : Rank(d, DOMAIN d, k) = 0
  BY <1>0, <1>1, RankTaken
<1>3. k \in PageOf(d, 1)
  BY <1>0, <1>2 DEF PageOf, Children, First
<1>4. TotalPages(N) \in Int /\ TotalPages(N) >= 1
  <2>1. \A a \in Nat, b \in Nat \ {0} : a >= b => a \div b >= 1 /\ a \div b \in Int
    OBVIOUS
  <2>2. N + ChildrenPerPage - 1 \in Nat /\ N + ChildrenPerPage - 1 >= ChildrenPerPage
    BY <1>0, <1>1
  <2> HIDE DEF N
  <2> QED  BY <1>0, <1>1, <2>1, <2>2 DEF TotalPages
<1>5. 1 \in 1 .. TotalPages(N)
  BY <1>4
<1> QED  BY <1>3, <1>5
=============================================================================
