--------------------------- MODULE FolderTreeProofs ---------------------------
(***************************************************************************)
(* That objects are found through the folders, for every set of objects and *)
(* every name they may have: the rows of a path's folders form a chain, and *)
(* an undisturbed scan leaves each of them in the table as a folder.        *)
(***************************************************************************)
EXTENDS FolderTree, ObjectScanProofs, DirectoryQueriesProofs, SequenceTheorems

(* What the provers do not know is that "" is a string.                     *)
Part == STRING \cup {""}

LEMMA EmptyPart == "" \in Part
  BY DEF Part

LEMMA PrefixPath ==
  ASSUME NEW p \in Seq(Part), NEW n \in 0..Len(p)
  PROVE  /\ SubSeq(p, 1, n) \in Seq(Part) /\ Len(SubSeq(p, 1, n)) = n
         /\ \A i \in 1..n : SubSeq(p, 1, n)[i] = p[i]
<1>1. /\ Len(p) \in Nat /\ \A i \in 1..Len(p) : p[i] \in Part
  BY LenProperties, ElementOfSeq
<1>2. n \in Nat /\ n \in Int /\ 1 \in Int /\ \A i \in 1..n : i \in 1..Len(p)
  BY <1>1
<1>3. \A i \in 1..n : p[i] \in Part
  BY <1>1, <1>2
<1>4. SubSeq(p, 1, n) \in Seq(Part) /\ Len(SubSeq(p, 1, n)) = n
  BY <1>1, <1>2, <1>3
<1>5. \A i \in 1..n : SubSeq(p, 1, n)[i] = p[i]
  BY <1>1, <1>2, <1>3
<1> QED  BY <1>4, <1>5

LEMMA FrontPath ==
  ASSUME NEW p \in Seq(Part), p # <<>>
  PROVE  /\ Len(p) \in Nat \ {0} /\ Last(p) = p[Len(p)] /\ p[Len(p)] \in Part
         /\ Front(p) = SubSeq(p, 1, Len(p) - 1)
         /\ Front(p) \in Seq(Part) /\ Len(Front(p)) = Len(p) - 1
         /\ \A i \in 1..Len(p) - 1 : Front(p)[i] = p[i]
<1>1. Len(p) \in Nat \ {0}
  BY EmptySeq
<1>2. Len(p) \in 1..Len(p) /\ Len(p) - 1 \in 0..Len(p)
  BY <1>1
<1>3. Last(p) = p[Len(p)] /\ p[Len(p)] \in Part
  BY <1>2, ElementOfSeq DEF Last
<1>4. Front(p) = SubSeq(p, 1, Len(p) - 1)
  BY DEF Front
<1>5. /\ Front(p) \in Seq(Part) /\ Len(Front(p)) = Len(p) - 1
      /\ \A i \in 1..Len(p) - 1 : Front(p)[i] = p[i]
  BY <1>2, <1>4, PrefixPath, Zenon
<1> QED  BY <1>1, <1>3, <1>4, <1>5

LEMMA FrontOfAppend ==
  ASSUME NEW p \in Seq(Part), NEW e \in Part
  PROVE  Front(Append(p, e)) = p /\ Last(Append(p, e)) = e
<1> DEFINE a == Append(p, e)
<1>1. /\ a \in Seq(Part) /\ a # <<>> /\ Len(a) = Len(p) + 1
      /\ \A i \in 1..Len(p) : a[i] = p[i]
      /\ a[Len(p) + 1] = e
  BY AppendProperties
<1>2. Len(p) \in Nat
  BY LenProperties
<1> HIDE DEF a
<1>3. Len(a) - 1 = Len(p)
  BY <1>1, <1>2
<1>4. Front(a) \in Seq(Part) /\ Len(Front(a)) = Len(p)
      /\ \A i \in 1..Len(p) : Front(a)[i] = a[i]
  BY <1>1, <1>3, FrontPath, Zenon
<1>5. Front(a) = p
  BY <1>1, <1>4, SeqEqual, Zenon
<1>6. Last(a) = e
  BY <1>1 DEF Last
<1> QED  BY <1>5, <1>6 DEF a

LEMMA RootPath ==
  /\ Root \in Seq(Part) /\ Len(Root) = 1 /\ Root[1] = ""
  /\ Append(<<>>, "") = Root
<1>1. Root \in Seq(Part) /\ Len(Root) = 1 /\ Root[1] = ""
  <2>1. \A e \in Part : <<e>> \in Seq(Part)
    OBVIOUS
  <2>2. Root \in Seq(Part)
    BY <2>1, EmptyPart DEF Root
  <2>3. Len(Root) = 1 /\ Root[1] = ""
    BY DEF Root
  <2> QED  BY <2>2, <2>3
<1> DEFINE a == Append(<<>>, "")
<1>2. a \in Seq(Part) /\ Len(a) = 1 /\ a[1] = ""
  <2>1. <<>> \in Seq(Part) /\ Len(<<>>) = 0
    OBVIOUS
  <2>2. a \in Seq(Part) /\ Len(a) = 0 + 1 /\ a[0 + 1] = ""
    BY <2>1, AppendProperties, EmptyPart
  <2> HIDE DEF a
  <2>3. 0 + 1 = 1
    OBVIOUS
  <2> QED  BY <2>2, <2>3, Zenon
<1> HIDE DEF a
<1>3. \A i \in 1..1 : i = 1
  OBVIOUS
<1>4. a = Root
  BY <1>1, <1>2, <1>3, SeqEqual
<1> QED  BY <1>1, <1>4 DEF a

-----------------------------------------------------------------------------
(* A path without empty parts is its own squeezed path; one with an empty   *)
(* part is longer.                                                          *)
LEMMA SqueezedFull ==
  ASSUME NEW p \in Seq(Part), NEW n \in 0..Len(p), Positions(p) = 1..n
  PROVE  Squeeze(p) = SubSeq(p, 1, n)
<1>0. Len(p) \in Nat
  BY LenProperties
<1>1. n \in Nat /\ n \in Int /\ 1 \in Int
  BY <1>0
<1>2. Cardinality(1..n) = n
  BY <1>1, FS_Interval
<1>3. ASSUME NEW j \in 1..n PROVE Cardinality({h \in 1..n : h <= j}) = j
  <2>1. {h \in 1..n : h <= j} = 1..j /\ j \in Int /\ ~ (1 > j) /\ j - 1 + 1 = j
    BY <1>1
  <2>2. Cardinality(1..j) = j
    BY <1>1, <2>1, FS_Interval
  <2> QED  BY <2>1, <2>2
<1>4. ASSUME NEW i \in 1..n PROVE NthPosition(p, i) = i
  <2>1. i \in Positions(p) /\ Cardinality({j \in Positions(p) : j <= i}) = i
    BY <1>3
  <2>2. \A h \in Positions(p) : Cardinality({j \in Positions(p) : j <= h}) = i => h = i
    BY <1>3
  <2> QED  BY <2>1, <2>2 DEF NthPosition
<1>5. Squeeze(p) = [i \in 1..n |-> p[i]]
  BY <1>2, <1>4 DEF Squeeze
<1> DEFINE f == [i \in 1..n |-> p[i]]
<1>6. /\ SubSeq(p, 1, n) \in Seq(Part) /\ Len(SubSeq(p, 1, n)) = n
      /\ \A i \in 1..n : SubSeq(p, 1, n)[i] = f[i]
  BY PrefixPath
<1>7. f \in [1..n -> Part]
  <2>1. \A i \in 1..n : i \in 1..Len(p)
    BY <1>0, <1>1
  <2> QED  BY <2>1, ElementOfSeq
<1> HIDE DEF f
<1>8. f \in Seq(Part) /\ Len(f) = n
  BY <1>1, <1>7
<1>9. f = SubSeq(p, 1, n)
  BY <1>6, <1>8, SeqEqual
<1> QED  BY <1>5, <1>9 DEF f

LEMMA SqueezedLength ==
  ASSUME NEW p \in Seq(Part)
  PROVE  /\ Positions(p) \subseteq 1..Len(p)
         /\ Cardinality(Positions(p)) \in Nat /\ Cardinality(Positions(p)) <= Len(p)
         /\ Positions(p) # 1..Len(p) => Cardinality(Positions(p)) < Len(p)
         /\ \A e : Len(Append(Squeeze(p), e)) = Cardinality(Positions(p)) + 1
<1>1. Len(p) \in Nat /\ DOMAIN p = 1..Len(p)
  BY LenProperties
<1>2. Positions(p) \subseteq 1..Len(p)
  BY <1>1 DEF Positions
<1>3. IsFiniteSet(1..Len(p)) /\ Cardinality(1..Len(p)) = Len(p)
  <2>1. Len(p) \in Int /\ 1 \in Int /\ (IF 1 > Len(p) THEN 0 ELSE Len(p) - 1 + 1) = Len(p)
    BY <1>1
  <2> QED  BY <2>1, FS_Interval
<1> DEFINE m == Cardinality(Positions(p))
<1>4. /\ IsFiniteSet(Positions(p)) /\ m <= Len(p)
      /\ Positions(p) # 1..Len(p) => m # Len(p)
  BY <1>2, <1>3, FS_Subset
<1>5. m \in Nat
  BY <1>4, FS_CardinalityType
<1> DEFINE S == {p[NthPosition(p, n)] : n \in 1..m}
<1>6. Squeeze(p) \in [1..m -> S]
  BY DEF Squeeze
<1> HIDE DEF m, S
<1>7. Squeeze(p) \in Seq(S) /\ Len(Squeeze(p)) = m
  BY <1>5, <1>6
<1>8. \A e : Len(Append(Squeeze(p), e)) = m + 1
  BY <1>7
<1> QED  BY <1>1, <1>2, <1>4, <1>5, <1>8 DEF m

-----------------------------------------------------------------------------
(* The folders of an ordinary key. *)

(* The folder of the first i parts of a path; of none, it is the root.      *)
Upper(p, i) == Append(SubSeq(p, 1, i), "")

LEMMA OrdinaryPositions ==
  ASSUME NEW p \in Seq(Part), p # <<>>, p # Root
  PROVE  Ordinary(p) <=> Positions(Front(p)) = 1..Len(p) - 1
<1>1. /\ Len(p) \in Nat \ {0} /\ Front(p) \in Seq(Part) /\ Len(Front(p)) = Len(p) - 1
      /\ \A i \in 1..Len(p) - 1 : Front(p)[i] = p[i]
  BY FrontPath
<1>2. DOMAIN Front(p) = 1..Len(p) - 1
  BY <1>1, LenProperties
<1> QED  BY <1>1, <1>2 DEF Ordinary, Positions

LEMMA UpperPath ==
  ASSUME NEW p \in Seq(Part), NEW i \in 0..Len(p)
  PROVE  /\ Upper(p, i) \in Seq(Part) /\ Len(Upper(p, i)) = i + 1 /\ Upper(p, i) # <<>>
         /\ Front(Upper(p, i)) = SubSeq(p, 1, i)
         /\ i = 0 => Upper(p, i) = Root
         /\ i > 0 => IsFolderKey(Upper(p, i)) /\ ExtractPrefix(Upper(p, i)) = Upper(p, i - 1)
<1>0. Len(p) \in Nat
  BY LenProperties
<1> DEFINE b == SubSeq(p, 1, i)
           u == Append(b, "")
<1>1. b \in Seq(Part) /\ Len(b) = i /\ \A j \in 1..i : b[j] = p[j]
  BY PrefixPath
<1>2. u = Upper(p, i)
  BY DEF Upper
<1> HIDE DEF b
<1>3. u \in Seq(Part) /\ Len(u) = i + 1 /\ u # <<>> /\ Front(u) = b /\ Last(u) = ""
  BY <1>1, EmptyPart, AppendProperties, FrontOfAppend
<1> HIDE DEF u
<1>4. ASSUME i = 0 PROVE u = Root
  <2>1. b = <<>>
    BY <1>1, <1>4, EmptySeq
  <2> QED  BY <2>1, RootPath DEF u
<1>5. ASSUME i > 0 PROVE IsFolderKey(u) /\ ExtractPrefix(u) = Upper(p, i - 1)
  <2>1. IsFolderKey(u)
    <3>1. Len(u) = i + 1
      BY <1>3, Zenon
    <3>2. Len(u) > 1
      BY <1>0, <1>5, <3>1
    <3> QED  BY <1>3, <3>2, Zenon DEF IsFolderKey
  <2>2. ExtractPrefix(u) = Append(Front(b), "")
    BY <1>3, <2>1 DEF ExtractPrefix, Directory
  <2>3. b # <<>> /\ i - 1 \in 0..Len(p)
    BY <1>0, <1>1, <1>5, EmptySeq
  <2>4. /\ Front(b) \in Seq(Part) /\ Len(Front(b)) = i - 1
        /\ \A j \in 1..i - 1 : Front(b)[j] = b[j]
    BY <1>1, <2>3, FrontPath
  <2>5. /\ SubSeq(p, 1, i - 1) \in Seq(Part) /\ Len(SubSeq(p, 1, i - 1)) = i - 1
        /\ \A j \in 1..i - 1 : SubSeq(p, 1, i - 1)[j] = p[j]
    BY <2>3, PrefixPath
  <2>6. \A j \in 1..i - 1 : j \in 1..i
    BY <1>0
  <2>7. Front(b) = SubSeq(p, 1, i - 1)
    BY <1>1, <2>4, <2>5, <2>6, SeqEqual
  <2> QED  BY <2>1, <2>2, <2>7 DEF Upper
<1> QED  BY <1>2, <1>3, <1>4, <1>5 DEF b

(* A path and the path before its last part have the same upper folders.    *)
LEMMA UpperOfFront ==
  ASSUME NEW p \in Seq(Part), p # <<>>, NEW i \in 0..Len(p) - 1
  PROVE  SubSeq(Front(p), 1, i) = SubSeq(p, 1, i)
<1>1. /\ Len(p) \in Nat \ {0} /\ Front(p) \in Seq(Part) /\ Len(Front(p)) = Len(p) - 1
      /\ \A j \in 1..Len(p) - 1 : Front(p)[j] = p[j]
  BY FrontPath
<1>2. i \in 0..Len(p) /\ i \in 0..Len(Front(p)) /\ \A j \in 1..i : j \in 1..Len(p) - 1
  BY <1>1
<1>3. /\ SubSeq(p, 1, i) \in Seq(Part) /\ Len(SubSeq(p, 1, i)) = i
      /\ \A j \in 1..i : SubSeq(p, 1, i)[j] = p[j]
  BY <1>2, PrefixPath
<1>4. /\ SubSeq(Front(p), 1, i) \in Seq(Part) /\ Len(SubSeq(Front(p), 1, i)) = i
      /\ \A j \in 1..i : SubSeq(Front(p), 1, i)[j] = Front(p)[j]
  BY <1>1, <1>2, PrefixPath
<1>5. \A j \in 1..i : SubSeq(Front(p), 1, i)[j] = SubSeq(p, 1, i)[j]
  BY <1>1, <1>2, <1>3, <1>4
<1> QED  BY <1>3, <1>4, <1>5, SeqEqual

LEMMA SqueezedPrefix ==
  ASSUME NEW q \in Seq(Part), NEW n \in 0..Len(q), 1..n \subseteq Positions(q)
  PROVE  Squeeze(SubSeq(q, 1, n)) = SubSeq(q, 1, n)
<1> DEFINE b == SubSeq(q, 1, n)
<1>1. b \in Seq(Part) /\ Len(b) = n /\ \A i \in 1..n : b[i] = q[i]
  BY PrefixPath
<1> HIDE DEF b
<1>2. DOMAIN b = 1..n
  BY <1>1, LenProperties
<1>3. Positions(b) = 1..n
  BY <1>1, <1>2 DEF Positions
<1>4. n \in 0..Len(b)
  BY <1>1, LenProperties
<1>5. Squeeze(b) = SubSeq(b, 1, n)
  BY <1>1, <1>3, <1>4, SqueezedFull
<1>6. SubSeq(b, 1, n) = b
  BY <1>1, SubSeqFull
<1> QED  BY <1>5, <1>6 DEF b

(* The rows that the scan writes for the folders of an ordinary key.        *)
LEMMA FolderRows ==
  ASSUME NEW p \in Seq(Part), p # <<>>, Ordinary(p)
  PROVE  /\ Len(p) \in Nat \ {0}
         /\ DOMAIN ParentFolders(p) = 1..Len(p) - 1
         /\ \A i \in 1..Len(p) - 1 : /\ ParentFolders(p)[i].key = Upper(p, i)
                                     /\ ParentFolders(p)[i].prefix = Upper(p, i - 1)
         /\ Directory(p) = Upper(p, Len(p) - 1)
<1> DEFINE parts == Front(p)
           L     == Len(p) - 1
<1>1. /\ Len(p) \in Nat \ {0} /\ parts \in Seq(Part) /\ Len(parts) = L
      /\ \A i \in 1..L : parts[i] = p[i]
      /\ parts = SubSeq(p, 1, L)
  BY FrontPath
<1>2. L \in Nat /\ L + 1 = Len(p)
  BY <1>1
<1>3. Positions(parts) = 1..L
  BY OrdinaryPositions DEF Ordinary
<1>4. DOMAIN ParentFolders(p) = 1..L
  BY <1>3 DEF ParentFolders
<1>5. ASSUME NEW i \in 1..L
      PROVE  ParentFolders(p)[i].key = Upper(p, i) /\ ParentFolders(p)[i].prefix = Upper(p, i - 1)
  <2>1. i \in 0..Len(parts) /\ 1..i \subseteq Positions(parts) /\ i \in 0..L /\ i - 1 \in 0..L
    BY <1>1, <1>2, <1>3
  <2>2. SubSeq(parts, 1, i) = SubSeq(p, 1, i) /\ SubSeq(parts, 1, i - 1) = SubSeq(p, 1, i - 1)
    BY <2>1, UpperOfFront
  <2>3. Squeeze(SubSeq(parts, 1, i)) = SubSeq(parts, 1, i)
    BY <1>1, <2>1, SqueezedPrefix
  <2> DEFINE key == Append(Squeeze(SubSeq(parts, 1, i)), "")
             pre == ParentPrefix(parts, i)
  <2>4. ParentFolders(p)[i] = [key |-> key, prefix |-> pre]
    BY <1>3 DEF ParentFolders
  <2>5. key = Upper(p, i)
    BY <2>2, <2>3, Zenon DEF Upper
  <2>6. pre = Upper(p, i - 1)
    <3> DEFINE b == SubSeq(p, 1, i - 1)
    <3>1. /\ i - 1 \in 0..Len(p) /\ b \in Seq(Part) /\ Len(b) = i - 1
          /\ \A j \in 1..i - 1 : b[j] = p[j]
      BY <1>2, <2>1, PrefixPath
    <3>4. SubSeq(parts, 1, i - 1) = b
      BY <2>2
    <3> HIDE DEF b
    <3>2. CASE i = 1
      <4>1. b = <<>>
        BY <3>1, <3>2, EmptySeq
      <4>2. ParentPrefix(parts, i) = Root
        BY <3>4, <4>1, Zenon DEF ParentPrefix
      <4> QED  BY <4>1, <4>2, RootPath, Zenon DEF Upper, b
    <3>3. CASE i # 1
      <4>1. b # <<>>
        BY <1>2, <3>1, <3>3, EmptySeq
      <4>2. b # <<"">>
        <5>1. 1 \in 1..i - 1 /\ 1 \in 1..L
          BY <1>2, <3>3
        <5>2. b[1] # ""
          BY <1>1, <1>3, <3>1, <5>1 DEF Positions, NotEmpty
        <5> QED  BY <5>2, RootPath DEF Root
      <4> QED  BY <3>4, <4>1, <4>2, Zenon DEF ParentPrefix, Upper, b
    <3> QED  BY <3>2, <3>3
  <2> HIDE DEF key, pre
  <2> QED  BY <2>4, <2>5, <2>6
<1>6. Directory(p) = Upper(p, L)
  BY <1>1 DEF Directory, Upper
<1> QED  BY <1>1, <1>4, <1>5, <1>6

-----------------------------------------------------------------------------
(* The chain. *)

LEMMA MaxIn ==
  ASSUME NEW n \in Nat, NEW S, S \subseteq 1..n, S # {}
  PROVE  /\ Max(S) \in S /\ \A j \in S : j <= Max(S)
         /\ \A m \in S : (\A j \in S : j <= m) => Max(S) = m
<1> DEFINE T == {n - j : j \in S}
<1>1. T \subseteq Nat /\ T # {}
  <2>1. \A j \in S : n - j \in Nat
    BY S \subseteq 1..n
  <2> QED  BY <2>1
<1>2. PICK t \in T : \A h \in T : t <= h
  <2> HIDE DEF T
  <2> QED  BY <1>1, LeastIn
<1>3. PICK m \in S : t = n - m
  BY <1>2
<1>4. ASSUME NEW j \in S PROVE j <= m
  <2>1. n - m <= n - j
    BY <1>2, <1>3
  <2> QED  BY <2>1, j \in 1..n, m \in 1..n
<1>5. \A h, m1 \in S : (\A j \in S : h >= j) /\ (\A j \in S : j <= m1) => h = m1
  BY S \subseteq 1..n
<1>6. Max(S) \in S /\ \A j \in S : Max(S) >= j
  BY <1>4, S \subseteq 1..n DEF Max
<1>7. \A j \in S : j <= Max(S)
  BY <1>6, S \subseteq 1..n
<1> QED  BY <1>5, <1>6, <1>7

(* The folder before each place of an ordinary key.                         *)
LEMMA FolderBefore ==
  ASSUME NEW p \in Seq(Part), p # <<>>, Ordinary(p), NEW i \in 1..Len(p)
  PROVE  FolderAt(ParentFolders(p), i) = Upper(p, i - 1)
<1> DEFINE up     == ParentFolders(p)
           before == {j \in DOMAIN up : j < i}
<1>1. /\ Len(p) \in Nat \ {0} /\ DOMAIN up = 1..Len(p) - 1
      /\ \A j \in 1..Len(p) - 1 : up[j].key = Upper(p, j)
  BY FolderRows
<1> HIDE DEF up
<1>2. before = 1..i - 1 /\ i - 1 \in Nat
  BY <1>1
<1>3. FolderAt(up, i) = IF before = {} THEN Root ELSE up[Max(before)].key
  BY DEF FolderAt
<1>4. CASE i = 1
  <2>1. before = {} /\ i - 1 = 0 /\ 0 \in 0..Len(p)
    BY <1>1, <1>2, <1>4
  <2>2. Upper(p, 0) = Root
    BY <2>1, UpperPath
  <2> QED  BY <1>3, <2>1, <2>2 DEF up
<1>5. CASE i # 1
  <2>1. i - 1 \in before /\ \A j \in before : j <= i - 1
    BY <1>1, <1>2, <1>5
  <2>2. before \subseteq 1..i - 1 /\ before # {}
    BY <1>2, <2>1
  <2> HIDE DEF before
  <2>3. Max(before) = i - 1
    BY <1>2, <2>1, <2>2, MaxIn
  <2>4. i - 1 \in 1..Len(p) - 1
    BY <1>1, <1>5
  <2> QED  BY <1>1, <1>3, <2>2, <2>3, <2>4 DEF up
<1> QED  BY <1>4, <1>5

(* With an empty part, the folder above the key has fewer parts than its    *)
(* prefix.                                                                  *)
LEMMA NoFolderAbove ==
  ASSUME NEW p \in Seq(Part), p # <<>>, p # Root, ~ Ordinary(p)
  PROVE  FolderAt(ParentFolders(p), Len(p)) # Directory(p)
<1> DEFINE parts  == Front(p)
           L      == Len(p) - 1
           up     == ParentFolders(p)
           before == {j \in DOMAIN up : j < Len(p)}
           place  == Max(before)
           cut    == SubSeq(parts, 1, place)
<1>1. Len(p) \in Nat \ {0} /\ parts \in Seq(Part) /\ Len(parts) = L
  BY FrontPath
<1>2. L \in Nat /\ L + 1 = Len(p)
  BY <1>1
<1>3. Positions(parts) # 1..L /\ Positions(parts) \subseteq 1..L
  BY <1>1, OrdinaryPositions, SqueezedLength
<1>5. Len(Directory(p)) = Len(parts) + 1
  BY <1>1, EmptyPart, AppendProperties DEF Directory
<1> HIDE DEF parts, L
<1>4. L > 0
  <2>1. ASSUME L = 0 PROVE FALSE
    BY <1>3, <2>1
  <2> QED  BY <1>2, <2>1
<1>6. /\ DOMAIN up = Positions(parts)
      /\ \A j \in Positions(parts) : up[j].key = Append(Squeeze(SubSeq(parts, 1, j)), "")
  BY DEF ParentFolders, parts
<1> HIDE DEF up
<1>7. FolderAt(up, Len(p)) = IF before = {} THEN Root ELSE up[place].key
  BY DEF FolderAt
<1>8. ASSUME before = {} PROVE Len(FolderAt(up, Len(p))) < L + 1
  <2>1. FolderAt(up, Len(p)) = Root
    BY <1>7, <1>8
  <2>2. Len(FolderAt(up, Len(p))) = 1
    BY <2>1, RootPath, Zenon
  <2> QED  BY <1>2, <1>4, <2>2
<1>9. ASSUME before # {} PROVE Len(FolderAt(up, Len(p))) < L + 1
  <2>1. before \subseteq 1..L
    BY <1>3, <1>6
  <2>2. place \in before
    <3> HIDE DEF before
    <3> QED  BY <1>2, <1>9, <2>1, MaxIn
  <2>3. place \in Positions(parts) /\ place \in 1..L /\ place \in 0..Len(parts)
    <3>1. place \in DOMAIN up /\ place \in 1..L
      BY <2>1, <2>2
    <3> HIDE DEF place
    <3>2. place \in 0..L
      BY <1>2, <3>1
    <3>3. place \in Positions(parts)
      BY <1>6, <3>1
    <3> QED  BY <1>1, <3>1, <3>2, <3>3
  <2> HIDE DEF place, before
  <2>4. cut \in Seq(Part) /\ Len(cut) = place /\ \A j \in 1..place : cut[j] = parts[j]
    BY <1>1, <2>3, PrefixPath
  <2> DEFINE c == Cardinality(Positions(cut))
  <2>5. /\ c \in Nat /\ c <= place /\ Len(Append(Squeeze(cut), "")) = c + 1
        /\ Positions(cut) # 1..place => c < place
    BY <2>4, SqueezedLength
  <2>6. place = L => Positions(cut) # 1..place
    <3> SUFFICES ASSUME place = L PROVE Positions(cut) # 1..L
      OBVIOUS
    <3>1. cut = parts
      BY <1>1, SubSeqFull
    <3> QED  BY <1>3, <3>1
  <2>7. FolderAt(up, Len(p)) = Append(Squeeze(cut), "")
    BY <1>6, <1>7, <1>9, <2>3
  <2> HIDE DEF c, cut
  <2>8. c < L
    <3>1. place \in Nat /\ place <= L /\ (place # L => place < L)
      BY <1>2, <2>3
    <3> QED  BY <1>2, <2>5, <2>6, <3>1
  <2>9. Len(FolderAt(up, Len(p))) = c + 1 /\ c \in Nat
    BY <2>5, <2>7, Zenon
  <2> QED  BY <1>2, <2>8, <2>9
<1>10. Len(FolderAt(up, Len(p))) # Len(Directory(p))
  BY <1>1, <1>2, <1>5, <1>8, <1>9
<1> QED  BY <1>10 DEF up

LEMMA PathChains == PathsAreChains
<1> SUFFICES ASSUME NEW p \in Names, p # Root, ~ IsFolderKey(p)
             PROVE  /\ Ordinary(p) <=>
                         /\ \A i \in DOMAIN ParentFolders(p) :
                              ParentFolders(p)[i].prefix = FolderAt(ParentFolders(p), i)
                         /\ ExtractPrefix(p) = FolderAt(ParentFolders(p), Len(p))
                    /\ Ordinary(p) => \A i \in DOMAIN ParentFolders(p) :
                         ParentFolders(p)[i].prefix = ExtractPrefix(ParentFolders(p)[i].key)
  BY DEF PathsAreChains
<1>1. p \in Seq(Part) /\ p # <<>>
  <2>1. PICK n \in 1..Depth : p \in [1..n -> Parts]
    BY DEF Names
  <2>2. n \in Nat \ {0}
    BY BoundsAssumption
  <2>4. Parts \subseteq Part
    BY BoundsAssumption DEF Part
  <2>3. p \in Seq(Part) /\ Len(p) = n
    BY <2>1, <2>2, <2>4
  <2> QED  BY <2>2, <2>3, EmptySeq
<1>2. ExtractPrefix(p) = Directory(p)
  BY DEF ExtractPrefix
<1>3. CASE ~ Ordinary(p)
  BY <1>1, <1>2, <1>3, NoFolderAbove
<1>4. CASE Ordinary(p)
  <2>1. /\ Len(p) \in Nat \ {0} /\ DOMAIN ParentFolders(p) = 1..Len(p) - 1
        /\ \A i \in 1..Len(p) - 1 : /\ ParentFolders(p)[i].key = Upper(p, i)
                                    /\ ParentFolders(p)[i].prefix = Upper(p, i - 1)
        /\ Directory(p) = Upper(p, Len(p) - 1)
    BY <1>1, <1>4, FolderRows
  <2>2. Len(p) \in 1..Len(p) /\ \A i \in 1..Len(p) - 1 : i \in 1..Len(p) /\ i \in 0..Len(p) /\ i > 0
    BY <2>1
  <2>3. \A i \in 1..Len(p) : FolderAt(ParentFolders(p), i) = Upper(p, i - 1)
    BY <1>1, <1>4, FolderBefore
  <2>4. \A i \in 1..Len(p) - 1 : ExtractPrefix(Upper(p, i)) = Upper(p, i - 1)
    BY <1>1, <2>2, UpperPath
  <2> QED  BY <1>2, <1>4, <2>1, <2>2, <2>3, <2>4
<1> QED  BY <1>3, <1>4

-----------------------------------------------------------------------------
(* The keys of ObjectScan as paths. *)

LEMMA NamePath ==
  ASSUME NEW k \in Keys
  PROVE  /\ Name[k] \in Seq(Part) /\ Name[k] # <<>> /\ Name[k] # Root /\ Ordinary(Name[k])
         /\ Len(Name[k]) \in Nat \ {0}
         /\ k \in Folders <=> IsFolderKey(Name[k])
<1>1. Name[k] \in Seq(STRING) /\ Name[k] # <<>>
  BY NameAssumption
<1>2. /\ Len(Name[k]) \in Nat /\ Name[k] \in [1..Len(Name[k]) -> STRING]
  BY <1>1, LenProperties, SeqEqual
<1>3. Name[k] \in [1..Len(Name[k]) -> Part]
  BY <1>2 DEF Part
<1>4. Name[k] \in Seq(Part)
  BY <1>2, <1>3
<1>5. Len(Name[k]) # 0
  BY <1>1, EmptySeq
<1>6. Ordinary(Name[k]) /\ Name[k] # Root /\ (k \in Folders <=> IsFolderKey(Name[k]))
  BY NameAssumption DEF Ordinary
<1> QED  BY <1>1, <1>2, <1>4, <1>5, <1>6

(* The folders above an object have the keys and prefixes of its path.      *)
LEMMA AncestorPath ==
  ASSUME NEW k \in Objects
  PROVE  /\ DOMAIN Ancestors[k] = 1..Len(Name[k]) - 1
         /\ \A i \in 1..Len(Name[k]) - 1 :
              /\ Ancestors[k][i] \in Folders
              /\ Name[Ancestors[k][i]] = Upper(Name[k], i)
              /\ FolderPrefix(Ancestors[k][i]) = Upper(Name[k], i - 1)
<1> DEFINE p == Name[k]
           up == ParentFolders(p)
           L  == Len(p) - 1
<1>1. \A j \in Objects : j \in Keys
  BY DEF Keys
<1>2. /\ Len(p) \in Nat \ {0} /\ DOMAIN up = 1..L /\ p \in Seq(Part) /\ p # <<>>
      /\ \A i \in 1..L : up[i].key = Upper(p, i) /\ up[i].prefix = Upper(p, i - 1)
  BY <1>1, NamePath, FolderRows
<1>3. [i \in DOMAIN Ancestors[k] |-> Name[Ancestors[k][i]]] = [i \in DOMAIN up |-> up[i].key]
  BY NameAssumption
<1>4. DOMAIN Ancestors[k] = 1..L
  BY <1>2, <1>3
<1>5. \A i \in 1..L : Name[Ancestors[k][i]] = Upper(p, i)
  BY <1>2, <1>3, <1>4
<1>6. \A i \in 1..L : Ancestors[k][i] \in Folders
  <2>1. Ancestors[k] \in Seq(Folders)
    BY ConstantsAssumption
  <2>2. DOMAIN Ancestors[k] = 1..Len(Ancestors[k])
    BY <2>1, LenProperties
  <2> QED  BY <1>4, <2>1, <2>2, ElementOfSeq
<1>7. ASSUME NEW i \in 1..L PROVE FolderPrefix(Ancestors[k][i]) = Upper(p, i - 1)
  <2> DEFINE rows == UNION {Range(ParentFolders(Name[j])) : j \in Objects}
             f    == Ancestors[k][i]
  <2>1. ASSUME NEW row \in rows PROVE row.prefix = ExtractPrefix(row.key)
    <3>1. PICK j \in Objects : row \in Range(ParentFolders(Name[j]))
      OBVIOUS
    <3>2. PICK h \in DOMAIN ParentFolders(Name[j]) : row = ParentFolders(Name[j])[h]
      BY <3>1 DEF Range
    <3>3. /\ Name[j] \in Seq(Part) /\ Name[j] # <<>> /\ Ordinary(Name[j])
          /\ Len(Name[j]) \in Nat \ {0}
      BY <1>1, NamePath
    <3>4. /\ h \in 1..Len(Name[j]) - 1
          /\ row.key = Upper(Name[j], h) /\ row.prefix = Upper(Name[j], h - 1)
      BY <3>2, <3>3, FolderRows
    <3>5. h \in 0..Len(Name[j]) /\ h > 0
      BY <3>3, <3>4
    <3>6. ExtractPrefix(Upper(Name[j], h)) = Upper(Name[j], h - 1)
      BY <3>3, <3>5, UpperPath
    <3> QED  BY <3>4, <3>6
  <2>2. up[i] \in rows /\ up[i].key = Name[f]
    <3>1. i \in DOMAIN up /\ up[i].key = Name[f]
      BY <1>2, <1>5
    <3>2. up[i] \in Range(up)
      BY <3>1, Zenon DEF Range
    <3> QED  BY <3>1, <3>2, Zenon
  <2> DEFINE row == CHOOSE r \in rows : r.key = Name[f]
  <2>3. row \in rows /\ row.key = Name[f]
    BY <2>2
  <2>4. FolderPrefix(f) = row.prefix
    BY DEF FolderPrefix
  <2> HIDE DEF rows, row, f
  <2>5. row.prefix = ExtractPrefix(Name[f])
    BY <2>1, <2>3
  <2>6. up[i].prefix = ExtractPrefix(Name[f])
    BY <2>1, <2>2
  <2> QED  BY <1>2, <2>4, <2>5, <2>6 DEF f
<1> QED  BY <1>4, <1>5, <1>6, <1>7

(* The breadcrumbs above an object are the root and the folders of its path.*)
LEMMA CrumbsOf ==
  ASSUME NEW p \in Seq(Part), p # <<>>, Ordinary(p),
         NEW crumb \in Range(Breadcrumbs(Directory(p)))
  PROVE  \E m \in 0..Len(p) - 1 : crumb = Upper(p, m)
<1> DEFINE L     == Len(p) - 1
           u     == Directory(p)
           parts == Squeeze(u)
           tail  == [n \in 1..Len(parts) |-> Append(SubSeq(parts, 1, n), "")]
<1>1. Len(p) \in Nat \ {0} /\ u = Upper(p, L)
  BY FolderRows
<1>2. L \in 0..Len(p) /\ L \in Nat
  BY <1>1
<1>3. u \in Seq(Part) /\ Len(u) = L + 1 /\ Front(u) = SubSeq(p, 1, L)
  BY <1>1, <1>2, UpperPath
<1>4. Front(p) \in Seq(Part) /\ Len(Front(p)) = L /\ Front(p) = SubSeq(p, 1, L)
  BY FrontPath
<1>5. /\ \A i \in 1..L : u[i] = Front(p)[i]
      /\ u[L + 1] = ""
  <2> DEFINE q == Front(p)
  <2>3. q \in Seq(Part) /\ Len(q) = L /\ u = Append(q, "")
    BY <1>4, Zenon DEF Directory
  <2> HIDE DEF q, L
  <2>1. \A i \in 1..Len(q) : Append(q, "")[i] = q[i]
    BY <2>3, EmptyPart, AppendProperties
  <2>2. Append(q, "")[Len(q) + 1] = ""
    BY <2>3, EmptyPart, AppendProperties
  <2> QED  BY <2>1, <2>2, <2>3, Zenon DEF q
<1>6. Positions(Front(p)) = 1..L
  BY OrdinaryPositions DEF Ordinary
<1>7. Positions(u) = 1..L
  <2> HIDE DEF u, L
  <2>1. DOMAIN u = 1..L + 1 /\ DOMAIN Front(p) = 1..L
    BY <1>2, <1>3, <1>4, LenProperties
  <2>2. ASSUME NEW i \in 1..L + 1 PROVE NotEmpty(u[i]) <=> i \in 1..L
    <3>1. CASE i = L + 1
      <4>1. u[i] = ""
        BY <1>5, <3>1, Zenon
      <4>2. i \notin 1..L
        BY <1>2, <3>1
      <4> QED  BY <4>1, <4>2, Zenon DEF NotEmpty
    <3>2. CASE i # L + 1
      <4>1. i \in 1..L
        BY <1>2, <3>2
      <4> QED  BY <1>5, <1>6, <4>1 DEF Positions
    <3> QED  BY <3>1, <3>2
  <2>3. \A i \in 1..L : i \in 1..L + 1
    BY <1>2
  <2> QED  BY <2>1, <2>2, <2>3 DEF Positions
<1>8. parts = Front(p)
  <2> HIDE DEF u, L
  <2>1. L \in 0..Len(u)
    BY <1>2, <1>3
  <2>2. parts = SubSeq(u, 1, L)
    BY <1>3, <1>7, <2>1, SqueezedFull
  <2>3. u # <<>> /\ Len(u) - 1 = L
    BY <1>2, <1>3, EmptySeq
  <2>4. Front(u) = SubSeq(u, 1, L)
    BY <1>3, <2>3, FrontPath
  <2> QED  BY <1>3, <1>4, <2>2, <2>4
<1>9. \A n \in 1..L : tail[n] = Upper(p, n)
  <2> SUFFICES ASSUME NEW n \in 1..L PROVE tail[n] = Upper(p, n)
    OBVIOUS
  <2>1. tail[n] = Append(SubSeq(Front(p), 1, n), "")
    BY <1>4, <1>8
  <2>2. n \in 0..Len(p) - 1
    BY <1>1
  <2>3. SubSeq(Front(p), 1, n) = SubSeq(p, 1, n)
    BY <2>2, UpperOfFront
  <2> QED  BY <2>1, <2>3, Zenon DEF Upper
<1>10. Breadcrumbs(u) = <<Root>> \o tail
  BY DEF Breadcrumbs
<1> DEFINE T == {Root} \cup {tail[n] : n \in 1..L}
<1>11. tail \in Seq(T) /\ Len(tail) = L
  <2>1. tail \in [1..L -> T] /\ DOMAIN tail = 1..L
    BY <1>4, <1>8
  <2> HIDE DEF tail, T, L
  <2> QED  BY <1>2, <2>1
<1>12. <<Root>> \in Seq(T)
  OBVIOUS
<1>13. crumb \in T
  <2> HIDE DEF tail, T, u
  <2>1. <<Root>> \o tail \in Seq(T)
    BY <1>11, <1>12, ConcatProperties
  <2>2. PICK i \in DOMAIN (<<Root>> \o tail) : crumb = (<<Root>> \o tail)[i]
    BY <1>10 DEF Range, u
  <2> QED  BY <2>1, <2>2, LenProperties, ElementOfSeq
<1>14. CASE crumb = Root
  <2>1. 0 \in 0..L /\ 0 \in 0..Len(p)
    BY <1>1
  <2>2. Upper(p, 0) = Root
    BY <2>1, UpperPath
  <2> QED  BY <1>14, <2>1, <2>2
<1>15. CASE crumb # Root
  <2>1. PICK n \in 1..L : crumb = tail[n]
    BY <1>13, <1>15
  <2>2. n \in 0..L
    BY <1>2
  <2> QED  BY <1>9, <2>1, <2>2, Zenon
<1> QED  BY <1>14, <1>15

-----------------------------------------------------------------------------
(* The inductive invariant. *)

(* The keys whose row stands for an object alone never show as folders.     *)
FileRows == \A k \in DOMAIN index \ Folders : ~ index[k].folder

FolderRow(f) == f \in DOMAIN index /\ index[f].folder

(* The folders above key k, but for marker objects somebody has touched.    *)
Leading(s, k) == {f \in AncestorSet(k) : f \in Objects => f \in hist[s].calm}

(* A scan takes the objects in the order of their keys: one that has been   *)
(* there all along and is done with comes before those left in the page.    *)
Ordered(s) ==
  scan[s].pc \in Working =>
    \A k \in hist[s].stable \cap Scope :
      ~ Awaited(s, k) => \A j \in DOMAIN scan[s].page : k < j

(* The folders above an object show as such once the scan is done with the  *)
(* object, and those of the object in hand as soon as they are written.     *)
Shown(s) ==
  /\ \A k \in (Scope \cap hist[s].calm \cap Present(s3)) \ Folders :
       ~ (scan[s].pc \in Listing /\ Awaited(s, k)) => \A f \in Leading(s, k) : FolderRow(f)
  /\ scan[s].pc \in {"parent", "upsert", "unmark"} /\ Current(s) \notin Folders =>
       \A f \in Leading(s, Current(s)) \ (IF scan[s].pc = "parent" THEN TodoSet(s) ELSE {}) :
         FolderRow(f)

ShownOk(s) == scan[s].pc \in Underway /\ Undisturbed(s) => Shown(s)

TreeInv == FileRows /\ \A s \in Scans : Ordered(s) /\ ShownOk(s)

(* The children of a folder are a directory, as its pages take it.          *)
LEMMA DirectoryKnown ==
  ASSUME TypeOK, NEW path
  PROVE  /\ IsDirectory(DirectoryOf(path))
         /\ DOMAIN DirectoryOf(path) = {j \in DOMAIN index : RowPrefix(j) = path /\ Name[j] # path}
         /\ \A j \in DOMAIN DirectoryOf(path) : DirectoryOf(path)[j] = index[j].folder
<1> DEFINE C == {j \in DOMAIN index : RowPrefix(j) = path /\ Name[j] # path}
<1>1. DOMAIN index \subseteq Keys /\ \A j \in DOMAIN index : index[j].folder \in BOOLEAN
  BY DEF TypeOK, IsTable, Row
<1>2. Keys \subseteq Nat
  BY ConstantsAssumption DEF Keys
<1>3. IsFiniteSet(C)
  BY <1>1, FiniteAssumption, FS_Subset
<1>4. DirectoryOf(path) = [k \in C |-> index[k].folder]
  BY DEF DirectoryOf
<1> HIDE DEF C
<1>5. C \subseteq DOMAIN index
  BY DEF C
<1> QED  BY <1>1, <1>2, <1>3, <1>4, <1>5 DEF IsDirectory, C

(* What a row adds to the pages of the folder it lies in.                   *)
LEMMA OnThePages ==
  ASSUME TypeOK, NEW path, NEW j \in DOMAIN index, RowPrefix(j) = path, Name[j] # path
  PROVE  /\ Shows(path) # {}
         /\ index[j].folder \/ FilesAreShown(DirectoryOf(path)) => j \in Shows(path)
<1> DEFINE d == DirectoryOf(path)
<1>1. IsDirectory(d) /\ j \in DOMAIN d /\ d[j] = index[j].folder
  BY DirectoryKnown
<1>2. Shows(path) = UNION {PageOf(d, n) : n \in 1..TotalPages(Cardinality(DOMAIN d))}
  BY DEF Shows
<1> HIDE DEF d
<1>3. \A k, n : n \in 1..TotalPages(Cardinality(DOMAIN d)) /\ k \in PageOf(d, n) => k \in Shows(path)
  BY <1>2
<1>4. Shows(path) # {}
  BY <1>1, <1>3, FirstPageShows
<1>5. ASSUME index[j].folder \/ FilesAreShown(d) PROVE j \in Shows(path)
  <2>1. d[j] \/ FoldersOf(d) = {} \/ Cardinality(DOMAIN d) <= ChildrenPerPage
    BY <1>1, <1>5 DEF FilesAreShown
  <2> QED  BY <1>1, <1>3, <2>1, OnSomePage
<1> QED  BY <1>4, <1>5 DEF d

(* Where the folders of a path are plain, a link to each opens that folder. *)
LEMMA PlainLinks ==
  ASSUME NEW k \in Objects \ Folders, IsPlain(Directory(Name[k])), NEW m \in 0..Len(Name[k]) - 1
  PROVE  ReadAs[Upper(Name[k], m)] = Upper(Name[k], m)
<1> DEFINE p == Name[k]
           L == Len(p) - 1
           u == Upper(p, m)
<1>0. k \in Keys
  BY DEF Keys
<1>1. /\ p \in Seq(Part) /\ p # <<>> /\ Ordinary(p) /\ Len(p) \in Nat \ {0}
  BY <1>0, NamePath
<1>2. L \in 0..Len(p) /\ m \in 0..Len(p) /\ m \in Nat /\ m <= L
  BY <1>1
<1>3. Directory(p) = Upper(p, L)
  BY <1>1, FolderRows
<1>4. \A n \in 0..Len(p) : /\ Len(Upper(p, n)) = n + 1 /\ Upper(p, n) \in Seq(Part)
                           /\ Upper(p, n)[n + 1] = ""
                           /\ \A i \in 1..n : Upper(p, n)[i] = p[i]
  <2> TAKE n \in 0..Len(p)
  <2> DEFINE b == SubSeq(p, 1, n)
  <2>1. b \in Seq(Part) /\ Len(b) = n /\ \A i \in 1..n : b[i] = p[i]
    BY <1>1, PrefixPath
  <2>2. Upper(p, n) = Append(b, "")
    BY DEF Upper
  <2> HIDE DEF b
  <2>a. b \in Seq(Part)
    BY <2>1
  <2>b. \A i \in 1..Len(b) : Append(b, "")[i] = b[i]
    <3>1. \A e \in Part : \A i \in 1..Len(b) : Append(b, e)[i] = b[i]
      BY <2>a, AppendProperties
    <3> QED  BY <3>1, EmptyPart, Zenon
  <2>3. Append(b, "")[Len(b) + 1] = ""
    BY <2>a, EmptyPart, AppendProperties
  <2>4. Len(Upper(p, n)) = n + 1 /\ Upper(p, n) \in Seq(Part)
    BY <1>1, UpperPath
  <2>5. Upper(p, n)[n + 1] = ""
    BY <2>1, <2>2, <2>3, Zenon
  <2>6. \A i \in 1..n : Upper(p, n)[i] = p[i]
    BY <2>1, <2>2, <2>b, Zenon
  <2> QED  BY <2>4, <2>5, <2>6
<1> HIDE DEF p, L
<1>5. IsPlain(u)
  <2>1. DOMAIN u = 1..m + 1 /\ DOMAIN Upper(p, L) = 1..L + 1
    BY <1>2, <1>4, LenProperties
  <2>2. ASSUME NEW i \in 1..m + 1 PROVE u[i] \in Plain
    <3>1. CASE i = m + 1
      <4>1. u[i] = ""
        BY <1>2, <1>4, <3>1, Zenon
      <4> QED  BY <4>1, LinkAssumption
    <3>2. CASE i # m + 1
      <4>1. i \in 1..m /\ i \in 1..L /\ i \in 1..L + 1
        BY <1>2, <3>2
      <4>2. u[i] = p[i] /\ Upper(p, L)[i] = p[i]
        BY <1>2, <1>4, <4>1
      <4>3. Upper(p, L)[i] \in Plain
        BY <1>3, <2>1, <4>1 DEF IsPlain, p
      <4> QED  BY <4>2, <4>3
    <3> QED  BY <3>1, <3>2
  <2> QED  BY <2>1, <2>2 DEF IsPlain
<1>6. u \in {Root} \cup {Name[f] : f \in Folders}
  <2>1. CASE m = 0
    BY <1>1, <1>2, <2>1, UpperPath
  <2>2. CASE m # 0
    <3>1. m \in 1..Len(p) - 1
      BY <1>2, <2>2 DEF L
    <3>2. Ancestors[k][m] \in Folders /\ Name[Ancestors[k][m]] = u
      BY <3>1, AncestorPath DEF p
    <3> QED  BY <3>2
  <2> QED  BY <2>1, <2>2
<1> QED  BY <1>5, <1>6, LinkAssumption DEF p

(* Where the folders of its path show as such and have plain names, an      *)
(* object is found, if its own folder shows its files, and each breadcrumb  *)
(* has something to show.                                                   *)
LEMMA Reached ==
  ASSUME TypeOK, NEW k \in Objects \ Folders, k \in DOMAIN index, ~ index[k].folder,
         \A f \in AncestorSet(k) : FolderRow(f), IsPlain(Directory(Name[k]))
  PROVE  /\ \A crumb \in Range(Breadcrumbs(Directory(Name[k]))) : Shows(ReadAs[crumb]) # {}
         /\ FilesAreShown(DirectoryOf(Directory(Name[k]))) => k \in Found
<1> DEFINE p    == Name[k]
           L    == Len(p) - 1
           rows == [i \in 1..Len(p) |-> IF i = Len(p) THEN k ELSE Ancestors[k][i]]
<1>1. k \in Keys
  BY DEF Keys
<1>2. /\ p \in Seq(Part) /\ p # <<>> /\ p # Root /\ Ordinary(p) /\ ~ IsFolderKey(p)
      /\ Len(p) \in Nat \ {0}
  BY <1>1, NamePath
<1>3. L \in Nat /\ L + 1 = Len(p) /\ Len(p) \in 1..Len(p)
  BY <1>2
<1>4. /\ DOMAIN Ancestors[k] = 1..L
      /\ \A i \in 1..L : /\ Ancestors[k][i] \in Folders
                         /\ Name[Ancestors[k][i]] = Upper(p, i)
                         /\ FolderPrefix(Ancestors[k][i]) = Upper(p, i - 1)
  BY AncestorPath
<1>5. Directory(p) = Upper(p, L)
  BY <1>2, FolderRows
<1>p. \A m \in 0..L : ReadAs[Upper(p, m)] = Upper(p, m)
  BY PlainLinks
<1> HIDE DEF L
(* Each row of the path is on the page of the one before.                   *)
<1>6. ASSUME NEW i \in 1..L
      PROVE  /\ rows[i] = Ancestors[k][i] /\ i \in 0..Len(p) /\ i \in 1..Len(p) /\ i # Len(p)
             /\ rows[i] \in DOMAIN index /\ index[rows[i]].folder
             /\ RowPrefix(rows[i]) = Upper(p, i - 1)
             /\ Name[rows[i]] = Upper(p, i)
  <2>1. i \in 0..Len(p) /\ i \in 1..Len(p) /\ i # Len(p)
    BY <1>3
  <2>2. rows[i] = Ancestors[k][i]
    BY <2>1
  <2> HIDE DEF rows
  <2>3. rows[i] \in DOMAIN index /\ index[rows[i]].folder
    BY <1>4, <2>2 DEF AncestorSet, FolderRow
  <2>4. RowPrefix(rows[i]) = Upper(p, i - 1)
    BY <1>4, <2>2, <2>3 DEF RowPrefix
  <2> QED  BY <1>4, <2>1, <2>2, <2>3, <2>4
<1>7. /\ rows[Len(p)] = k
      /\ RowPrefix(k) = Upper(p, L)
  BY <1>3, <1>5 DEF RowPrefix
<1> HIDE DEF rows
<1>8. ASSUME NEW i \in 1..Len(p)
      PROVE  /\ i - 1 \in 0..Len(p)
             /\ rows[i] \in DOMAIN index /\ RowPrefix(rows[i]) = Upper(p, i - 1)
             /\ Name[rows[i]] # Upper(p, i - 1)
             /\ Shows(Upper(p, i - 1)) # {}
             /\ i # Len(p) => rows[i] \in Shows(Upper(p, i - 1))
             /\ i = Len(p) /\ FilesAreShown(DirectoryOf(Directory(p))) => rows[i] \in Shows(Upper(p, i - 1))
  <2>0. i - 1 \in 0..Len(p)
    BY <1>2
  <2>1. CASE i = Len(p)
    <3>1. i - 1 = L
      BY <1>3, <2>1
    <3>2. Name[k] # Upper(p, L)
      <4>1. CASE L = 0
        <5>1. L \in 0..Len(p)
          BY <1>3
        <5>2. Upper(p, L) = Root
          BY <1>2, <4>1, <5>1, UpperPath
        <5> QED  BY <1>2, <5>2
      <4>2. CASE L # 0
        <5>1. L \in 0..Len(p) /\ L > 0
          BY <1>3, <4>2
        <5>2. IsFolderKey(Upper(p, L))
          BY <1>2, <5>1, UpperPath
        <5> QED  BY <1>2, <5>2
      <4> QED  BY <4>1, <4>2
    <3>3. rows[i] = k /\ RowPrefix(k) = Upper(p, i - 1) /\ Name[k] # Upper(p, i - 1)
      BY <1>7, <2>1, <3>1, <3>2
    <3> QED  BY <1>5, <2>0, <2>1, <3>1, <3>3, OnThePages
  <2>2. CASE i # Len(p)
    <3>1. i \in 1..L
      BY <1>3, <2>2
    <3>2. /\ rows[i] \in DOMAIN index /\ RowPrefix(rows[i]) = Upper(p, i - 1)
          /\ Name[rows[i]] = Upper(p, i) /\ i \in 0..Len(p)
      BY <1>6, <3>1
    <3>3. Len(Upper(p, i)) = i + 1 /\ Len(Upper(p, i - 1)) = i - 1 + 1
      BY <1>2, <2>0, <3>2, UpperPath
    <3>4. Upper(p, i) # Upper(p, i - 1)
      BY <3>3
    <3> QED  BY <1>6, <2>0, <2>2, <3>1, <3>2, <3>4, OnThePages
  <2> QED  BY <2>1, <2>2
<1>9. ASSUME FilesAreShown(DirectoryOf(Directory(p))) PROVE k \in Found
  <2>1. rows \in [1..Len(p) -> DOMAIN index]
    <3>1. rows = [i \in 1..Len(p) |-> rows[i]]
      BY DEF rows
    <3> QED  BY <1>8, <3>1
  <2>2. Clicks(rows)
    <3>1. rows[1] \in Shows(Root)
      <4>1. 1 \in 1..Len(p) /\ 1 - 1 = 0 /\ 0 \in 0..Len(p)
        BY <1>2
      <4>2. Upper(p, 0) = Root
        BY <1>2, <4>1, UpperPath
      <4> QED  BY <1>8, <1>9, <4>1, <4>2
    <3>2. ASSUME NEW i \in DOMAIN rows, i > 1
          PROVE  index[rows[i - 1]].folder /\ rows[i] \in Shows(ReadAs[Name[rows[i - 1]]])
      <4>1. i \in 1..Len(p) /\ i - 1 \in 1..L /\ i - 1 \in 0..L
        BY <1>3, <2>1, <3>2
      <4>2. index[rows[i - 1]].folder /\ Name[rows[i - 1]] = Upper(p, i - 1)
        BY <1>6, <4>1
      <4>3. ReadAs[Name[rows[i - 1]]] = Upper(p, i - 1)
        BY <1>p, <4>1, <4>2
      <4> QED  BY <1>8, <1>9, <4>1, <4>2, <4>3
    <3> QED  BY <3>1, <3>2 DEF Clicks
  <2> QED  BY <1>3, <1>7, <2>1, <2>2 DEF Found
<1>10. ASSUME NEW crumb \in Range(Breadcrumbs(Directory(p))) PROVE Shows(ReadAs[crumb]) # {}
  <2>1. PICK m \in 0..Len(p) - 1 : crumb = Upper(p, m)
    BY <1>2, CrumbsOf
  <2>2. m + 1 \in 1..Len(p) /\ m + 1 - 1 = m /\ m \in 0..L
    BY <1>2 DEF L
  <2>3. Shows(Upper(p, m)) # {}
    BY <1>8, <2>2
  <2> QED  BY <1>p, <2>1, <2>2, <2>3
<1> QED  BY <1>9, <1>10

LEMMA FileRowsStep == TypeInv /\ FileRows /\ CalmInv /\ [Next]_vars => FileRows'
<1> SUFFICES ASSUME TypeInv, FileRows, CalmInv, [Next]_vars PROVE FileRows'
  OBVIOUS
<1>0. \A k \in DOMAIN index \ Folders : ~ index[k].folder
  BY DEF FileRows
<1>k. ASSUME index' = index PROVE FileRows'
  BY <1>0, <1>k DEF FileRows
<1>u. ASSUME NEW k, NEW v, NEW b, index' = Upsert(index, k, v, b), k \in Folders \/ b = FALSE
      PROVE  FileRows'
  <2>1. /\ DOMAIN index' = DOMAIN index \cup {k} /\ index'[k].folder = b
        /\ \A j \in DOMAIN index \ {k} : index'[j] = index[j]
    BY <1>u, SMT DEF Upsert
  <2> QED  BY <1>0, <1>u, <2>1 DEF FileRows
<1>1. ASSUME NEW s \in Scans, ScanStep(s) PROVE FileRows'
  <2>1. CASE MarkObjects(s)
    <3>1. index' = MarkAll(index) \/ index' = index
      BY <2>1 DEF MarkObjects
    <3>2. /\ DOMAIN index' = DOMAIN index
          /\ \A k \in DOMAIN index : index'[k].folder = index[k].folder
      BY <3>1, SMT DEF MarkAll, SetMark
    <3> QED  BY <1>0, <3>2 DEF FileRows
  <2>2. CASE WriteParent(s)
    <3>1. /\ scan[s].pc = "parent" /\ index' = Upsert(index, Head(scan[s].todo), NoVersion, TRUE)
      BY <2>2 DEF WriteParent
    <3>2. Head(scan[s].todo) \in Folders
      BY <2>2, <3>1, TodoTail, WrittenParentState
    <3> QED  BY <1>u, <3>1, <3>2
  <2>3. CASE WriteObject(s)
    BY <1>u, <2>3 DEF WriteObject
  <2>4. CASE UnmarkObject(s)
    <3>1. index' = Unmark(index, Current(s))
      BY <2>4 DEF UnmarkObject
    <3>2. /\ DOMAIN index' = DOMAIN index
          /\ \A k \in DOMAIN index : index'[k].folder = index[k].folder
      BY <3>1, SMT DEF Unmark, SetMark
    <3> QED  BY <1>0, <3>2 DEF FileRows
  <2>5. CASE DeleteMarkedRows(s)
    <3>1. index' = DeleteMarked(index)
      BY <2>5 DEF DeleteMarkedRows
    <3>2. /\ DOMAIN index' \subseteq DOMAIN index
          /\ \A k \in DOMAIN index' : index'[k] = index[k]
      BY <3>1, SMT DEF DeleteMarked
    <3> QED  BY <1>0, <3>2 DEF FileRows
  <2>6. CASE index' = index
    BY <1>k, <2>6
  <2> QED
    BY <1>1, <2>1, <2>2, <2>3, <2>4, <2>5, <2>6
       DEF ScanStep, Begin, BeginFails, MarkObjectsFails, ListPage, ListPageFails,
           WriteParentFails, WriteObjectFails, UnmarkObjectFails, CountMarked, CleanupFails,
           Finalize, FinalizeFails
<1>2. ASSUME NEW q \in Requests, RequestStep(q) PROVE FileRows'
  <2>1. CASE SyncUpload(q)
    <3>1. PICK k \in req[q].keys : index' = Upsert(index, k, req[q].ver, k \in Folders)
      BY <2>1 DEF SyncUpload
    <3>2. k \in Folders \/ (k \in Folders) = FALSE
      OBVIOUS
    <3> QED  BY <1>u, <3>1, <3>2
  <2>2. CASE SyncDelete(q)
    <3>1. PICK k \in req[q].keys : index' = DeleteRow(index, k)
      BY <2>2 DEF SyncDelete
    <3>2. /\ DOMAIN index' \subseteq DOMAIN index
          /\ \A j \in DOMAIN index' : index'[j] = index[j]
      BY <3>1, SMT DEF DeleteRow
    <3> QED  BY <1>0, <3>2 DEF FileRows
  <2>3. CASE index' = index
    BY <1>k, <2>3
  <2> QED
    BY <1>2, <2>1, <2>2, <2>3 DEF RequestStep, Upload, Delete, DeletePartly, SyncFails
<1>3. CASE ExternalChange
  BY <1>k, <1>3 DEF ExternalChange
<1>4. CASE Kill
  BY <1>k, <1>4 DEF Kill
<1>5. CASE UNCHANGED vars
  BY <1>k, <1>5 DEF vars
<1> QED  BY <1>1, <1>2, <1>3, <1>4, <1>5 DEF Next


-----------------------------------------------------------------------------
(* The order of the listing. *)

LEMMA OrderedOwnStep ==
  ASSUME TypeInv, SweepInv, NEW s \in Scans, Ordered(s), ScanStep(s)
  PROVE  Ordered(s)'
<1>0. /\ Scope \subseteq Objects /\ Objects \subseteq Nat \ {0} /\ ListingState(s)
      /\ DOMAIN scan[s].page \subseteq Objects
  BY ConstantsAssumption, PageDomains DEF SweepInv, SweepOk, TypeInv, TypeOK, ScanState
(* Steps that leave the listing where it is.                                *)
<1>s. ASSUME scan'[s].page = scan[s].page, scan'[s].token = scan[s].token,
             scan'[s].more = scan[s].more, hist'[s].stable = hist[s].stable,
             scan'[s].pc \in Working => scan[s].pc \in Working
      PROVE  Ordered(s)'
  BY <1>s DEF Ordered, Awaited
<1>e. ASSUME DOMAIN scan'[s].page = {} PROVE Ordered(s)'
  BY <1>e DEF Ordered
<1>d. ASSUME scan'[s].pc \notin Working PROVE Ordered(s)'
  BY <1>d DEF Ordered
<1>n. ASSUME scan[s].pc \in {"upsert", "unmark"}, NextObject(s), hist'[s].stable = hist[s].stable
      PROVE  Ordered(s)'
  <2>1. /\ scan'[s].token = scan[s].token /\ scan'[s].more = scan[s].more
        /\ DOMAIN scan'[s].page = DOMAIN scan[s].page \ {Current(s)}
    BY <1>n, NextObjectState
  <2>2. /\ Current(s) \in Objects
        /\ \A j \in DOMAIN scan[s].page : Current(s) <= j
    BY <1>n, CurrentInPage
  <2>3. scan[s].pc \in Working
    BY <1>n DEF Working
  <2>4. ASSUME NEW k \in hist[s].stable \cap Scope, ~ Awaited(s, k)', NEW j \in DOMAIN scan'[s].page
        PROVE  k < j
    <3>1. CASE k = Current(s)
      <4>1. Current(s) <= j /\ Current(s) # j /\ j \in Nat /\ Current(s) \in Nat
        BY <1>0, <2>1, <2>2
      <4> QED  BY <3>1, <4>1
    <3>2. CASE k # Current(s)
      BY <2>1, <2>3, <2>4, <3>2 DEF Ordered, Awaited
    <3> QED  BY <3>1, <3>2
  <2> QED  BY <1>n, <2>4 DEF Ordered
<1>1. ASSUME Begin(s) \/ BeginFails(s) \/ MarkObjectsFails(s) PROVE Ordered(s)'
  <2>1. Goto(s, "mark") \/ Goto(s, "done")
    BY <1>1 DEF Begin, BeginFails, MarkObjectsFails
  <2> QED  BY <1>d, <2>1, GotoState DEF Working
<1>2. ASSUME MarkObjects(s) PROVE Ordered(s)'
  BY <1>0, <1>2, <1>e, MarkedState DEF ListingState
<1>3. ASSUME ListPage(s) PROVE Ordered(s)'
  <2>1. scan[s].pc = "list" /\ hist' = hist /\ s3' = s3
    BY <1>3 DEF ListPage
  <2>2. /\ \A k \in Scope : s3[k] # Absent /\ k > scan[s].token =>
             k \in DOMAIN scan'[s].page \/ (scan'[s].more /\ k > scan'[s].token)
        /\ \A k \in DOMAIN scan'[s].page : k \in Scope /\ k > scan[s].token
    BY <1>3, ListedState
  <2>3. hist[s].stable \subseteq Present(s3)
    BY <1>0, <2>1 DEF ListingState, Working
  <2>4. scan[s].token \in Nat
    BY DEF TypeInv, TypeOK, ScanState
  <2>5. ASSUME NEW k \in hist[s].stable \cap Scope, ~ Awaited(s, k)', NEW j \in DOMAIN scan'[s].page
        PROVE  k < j
    <3>1. ~ (k > scan[s].token)
      BY <2>2, <2>3, <2>5 DEF Awaited, Present
    <3>2. j > scan[s].token /\ j \in Nat /\ k \in Nat
      BY <1>0, <2>2
    <3> QED  BY <2>4, <3>1, <3>2
  <2> QED  BY <2>1, <2>5 DEF Ordered
<1>4. ASSUME ListPageFails(s) PROVE Ordered(s)'
  BY <1>0, <1>4, <1>e, GivenUpState DEF ListPageFails, ListingState
<1>5. ASSUME WriteParent(s) PROVE Ordered(s)'
  <2>1. hist' = hist /\ scan[s].pc = "parent"
    BY <1>5 DEF WriteParent
  <2> QED  BY <1>5, <1>s, <2>1, WrittenParentState DEF Working
<1>6. ASSUME WriteParentFails(s) PROVE Ordered(s)'
  <2>1. hist'[s].stable = hist[s].stable /\ scan[s].pc = "parent"
    BY <1>6, StruckState DEF WriteParentFails
  <2> QED  BY <1>6, <1>s, <2>1, GivenUpState DEF Working
<1>7. ASSUME WriteObject(s) PROVE Ordered(s)'
  <2>1. hist' = hist /\ scan[s].pc = "upsert" /\ (Goto(s, "unmark") \/ NextObject(s))
    BY <1>7 DEF WriteObject
  <2>2. CASE Goto(s, "unmark")
    BY <1>s, <2>1, <2>2, GotoState DEF Working
  <2> QED  BY <1>n, <2>1, <2>2
<1>8. ASSUME WriteObjectFails(s) \/ UnmarkObject(s) \/ UnmarkObjectFails(s) PROVE Ordered(s)'
  <2>1. scan[s].pc \in {"upsert", "unmark"} /\ NextObject(s)
    BY <1>8 DEF WriteObjectFails, UnmarkObject, UnmarkObjectFails
  <2>2. hist'[s].stable = hist[s].stable
    BY <1>8, StruckState DEF WriteObjectFails, UnmarkObject, UnmarkObjectFails
  <2> QED  BY <1>n, <2>1, <2>2
<1>9. ASSUME CountMarked(s) \/ DeleteMarkedRows(s) \/ CleanupFails(s) PROVE Ordered(s)'
  <2>1. scan[s].pc \in Working /\ \E label : Goto(s, label)
    BY <1>9 DEF CountMarked, DeleteMarkedRows, CleanupFails, Working
  <2>2. hist'[s].stable = hist[s].stable
    BY <1>9, StruckState DEF CountMarked, DeleteMarkedRows, CleanupFails
  <2> QED  BY <1>s, <2>1, <2>2, GotoState
<1>10. ASSUME Finalize(s) \/ FinalizeFails(s) PROVE Ordered(s)'
  <2>1. Goto(s, "done")
    BY <1>10 DEF Finalize, FinalizeFails
  <2> QED  BY <1>d, <2>1, GotoState DEF Working
<1> QED
  BY <1>1, <1>2, <1>3, <1>4, <1>5, <1>6, <1>7, <1>8, <1>9, <1>10 DEF ScanStep

-----------------------------------------------------------------------------
(* The folders that show. *)

(* Nothing but the scan's own writes takes a folder's row away, or makes a  *)
(* file of it, while the scan is undisturbed.                               *)
LEMMA ShownFrame ==
  ASSUME TypeInv, NEW p \in Scans, ShownOk(p), scan'[p] = scan[p],
         hist'[p].alone => hist[p].alone, hist[p].struck \subseteq hist'[p].struck,
         hist'[p].calm \subseteq hist[p].calm,
         \A k \in hist'[p].calm : s3'[k] = s3[k],
         scan[p].pc \in Underway /\ Undisturbed(p)' =>
           \A f \in Folders : (f \in Objects => f \in hist'[p].calm) /\ FolderRow(f)
             => FolderRow(f)'
  PROVE  ShownOk(p)'
<1> SUFFICES ASSUME scan[p].pc \in Underway, Undisturbed(p)' PROVE Shown(p)'
  BY DEF ShownOk
<1>1. Shown(p)
  BY DEF ShownOk, Undisturbed
<1>2. /\ \A k : Awaited(p, k)' <=> Awaited(p, k)
      /\ Current(p)' = Current(p) /\ TodoSet(p)' = TodoSet(p)
  BY DEF Awaited, Current, TodoSet
<1>3. ASSUME NEW k \in Objects PROVE AncestorSet(k) \subseteq Folders
  <2>1. Ancestors[k] \in Seq(Folders)
    BY ConstantsAssumption
  <2> QED  BY <2>1, ElementOfSeq, LenProperties DEF AncestorSet
<1>4. ASSUME NEW k \in Objects, NEW f \in {f \in AncestorSet(k) : f \in Objects => f \in hist'[p].calm},
             f \in Leading(p, k) => FolderRow(f)
      PROVE  FolderRow(f)'
  <2>1. f \in Folders /\ f \in Leading(p, k)
    BY <1>3, <1>4 DEF Leading
  <2> QED  BY <1>4, <2>1
<1>5. ASSUME NEW k \in (Scope \cap hist'[p].calm \cap Present(s3)') \ Folders,
             ~ (scan[p].pc \in Listing /\ Awaited(p, k)),
             NEW f \in {f \in AncestorSet(k) : f \in Objects => f \in hist'[p].calm}
      PROVE  FolderRow(f)'
  <2>1. k \in Objects /\ k \in (Scope \cap hist[p].calm \cap Present(s3)) \ Folders
    BY <1>5, ConstantsAssumption DEF Present
  <2>2. \A g \in Leading(p, k) : FolderRow(g)
    BY <1>1, <1>5, <2>1 DEF Shown
  <2> QED  BY <1>4, <1>5, <2>1, <2>2
<1>6. ASSUME scan[p].pc \in {"parent", "upsert", "unmark"}, Current(p) \notin Folders,
             NEW f \in {f \in AncestorSet(Current(p)) : f \in Objects => f \in hist'[p].calm},
             f \notin (IF scan[p].pc = "parent" THEN TodoSet(p) ELSE {})
      PROVE  FolderRow(f)'
  <2>1. Current(p) \in Objects
    BY <1>6, CurrentInPage
  <2>2. \A g \in Leading(p, Current(p)) \ (IF scan[p].pc = "parent" THEN TodoSet(p) ELSE {}) :
          FolderRow(g)
    BY <1>1, <1>6 DEF Shown
  <2> QED  BY <1>4, <1>6, <2>1, <2>2
<1> QED  BY <1>2, <1>5, <1>6 DEF Shown, Leading, AncestorSet

(* The scan has taken up the next object, or has none.                      *)
LEMMA FreshShown ==
  ASSUME NEW s \in Scans,
         DOMAIN scan'[s].page # {} =>
           /\ scan'[s].todo = Ancestors[Least(DOMAIN scan'[s].page)]
           /\ scan'[s].pc = IF Ancestors[Least(DOMAIN scan'[s].page)] # <<>>
                            THEN "parent" ELSE "upsert",
         DOMAIN scan'[s].page = {} => scan'[s].pc = IF scan'[s].more THEN "list" ELSE "count",
         \A k \in (Scope \cap hist'[s].calm \cap Present(s3)') \ Folders :
           ~ Awaited(s, k)' => \A f \in Leading(s, k)' : FolderRow(f)'
  PROVE  Shown(s)'
<1>1. \A k : Awaited(s, k)' => scan'[s].pc \in Listing
  BY DEF Awaited, Listing
<1>2. ASSUME scan'[s].pc \in {"parent", "upsert", "unmark"}
      PROVE  Leading(s, Current(s))' \
               (IF scan'[s].pc = "parent" THEN TodoSet(s)' ELSE {}) = {}
  <2>1. CASE scan'[s].pc = "parent"
    BY <2>1 DEF Current, TodoSet, AncestorSet, Leading
  <2>2. CASE scan'[s].pc = "upsert"
    <3>1. Ancestors[Current(s)'] = <<>>
      BY <2>2 DEF Current
    <3> QED  BY <2>2, <3>1 DEF AncestorSet, Leading
  <2> QED  BY <1>2, <2>1, <2>2
<1>3. scan'[s].pc # "unmark"
  OBVIOUS
<1>4. \A k \in (Scope \cap hist'[s].calm \cap Present(s3)') \ Folders :
        ~ (scan'[s].pc \in Listing /\ Awaited(s, k)') => \A f \in Leading(s, k)' : FolderRow(f)'
  BY <1>1
<1> QED  BY <1>2, <1>3, <1>4 DEF Shown

(* The row of the object in hand is not that of a folder above an object    *)
(* that is done with: S3 lists the marker object of a folder first.         *)
LEMMA NotLeading ==
  ASSUME TypeInv, CalmInv, NEW s \in Scans, Ordered(s), scan[s].pc \in {"parent", "upsert", "unmark"},
         NEW k \in Scope \cap hist[s].calm \cap Present(s3), ~ Awaited(s, k)
  PROVE  Current(s) \notin Leading(s, k)
<1>1. k \in hist[s].stable \cap Scope /\ k \in Objects /\ k \in Nat
  BY ConstantsAssumption DEF CalmInv, CalmIsCalm, Underway, Working
<1>2. Current(s) \in DOMAIN scan[s].page /\ Current(s) \in Objects /\ Current(s) \in Nat
  BY CurrentInPage, ConstantsAssumption
<1>3. k < Current(s)
  BY <1>1, <1>2 DEF Ordered, Working
<1>4. Current(s) \in AncestorSet(k) => Current(s) <= k
  BY <1>1, <1>2, OrderAssumption
<1>5. Current(s) \notin AncestorSet(k)
  BY <1>1, <1>2, <1>3, <1>4
<1> QED  BY <1>5 DEF Leading

(* A step of scan s itself.                                                 *)
LEMMA ShownOwnStep ==
  ASSUME TypeInv, SweepInv, CalmInv, NEW s \in Scans, Ordered(s), ShownOk(s), ScanStep(s)
  PROVE  ShownOk(s)'
<1>0. /\ Scope \subseteq Objects /\ Objects \subseteq Nat \ {0}
      /\ ListingState(s)
  BY ConstantsAssumption DEF SweepInv, SweepOk
<1>f. \A k \in Objects : AncestorSet(k) \subseteq Folders
  <2>1. \A k \in Objects : Ancestors[k] \in Seq(Folders)
    BY ConstantsAssumption
  <2> QED  BY <2>1, ElementOfSeq, LenProperties DEF AncestorSet
(* A step that ends what ShownOk speaks of, or does not begin it.           *)
<1>d. ASSUME scan'[s].pc \notin Underway \/ hist'[s].struck \cap {"list", "row", "clean"} # {}
      PROVE  ShownOk(s)'
  BY <1>d DEF ShownOk, Undisturbed
(* What carries over when neither S3 nor the history changes.               *)
<1>c. ASSUME s3' = s3, hist'[s].calm = hist[s].calm
      PROVE  Present(s3)' = Present(s3) /\ \A k : Leading(s, k)' = Leading(s, k)
  BY <1>c DEF Present, Leading, AncestorSet
<1>n. ASSUME scan[s].pc \in {"upsert", "unmark"}, NextObject(s), s3' = s3,
             hist'[s].calm = hist[s].calm, hist'[s].alone => hist[s].alone,
             hist[s].struck \subseteq hist'[s].struck,
             \A f : FolderRow(f) /\ f # Current(s) => FolderRow(f)'
      PROVE  ShownOk(s)'
  <2> SUFFICES ASSUME Undisturbed(s)' PROVE Shown(s)'
    BY DEF ShownOk
  <2>1. Shown(s)
    BY <1>n DEF Undisturbed, ShownOk, Underway, Working
  <2>2. /\ scan'[s].token = scan[s].token /\ scan'[s].more = scan[s].more
        /\ DOMAIN scan'[s].page = DOMAIN scan[s].page \ {Current(s)}
        /\ DOMAIN scan'[s].page # {} =>
             /\ scan'[s].todo = Ancestors[Least(DOMAIN scan'[s].page)]
             /\ scan'[s].pc = IF Ancestors[Least(DOMAIN scan'[s].page)] # <<>>
                              THEN "parent" ELSE "upsert"
        /\ DOMAIN scan'[s].page = {} => scan'[s].pc = IF scan'[s].more THEN "list" ELSE "count"
    BY <1>n, NextObjectState
  <2>3. ASSUME NEW k \in (Scope \cap hist[s].calm \cap Present(s3)) \ Folders,
               ~ Awaited(s, k)', NEW f \in Leading(s, k)
        PROVE  FolderRow(f)'
    <3>1. CASE k = Current(s)
      <4>1. FolderRow(f)
        BY <1>n, <2>1, <2>3, <3>1 DEF Shown
      <4>2. f \in Folders
        BY <1>0, <1>f, <2>3 DEF Leading
      <4> QED  BY <1>n, <2>3, <3>1, <4>1, <4>2
    <3>2. CASE k # Current(s)
      <4>1. ~ Awaited(s, k)
        BY <2>2, <2>3, <3>2 DEF Awaited
      <4>2. FolderRow(f)
        BY <2>1, <2>3, <4>1 DEF Shown
      <4>3. Current(s) \notin Leading(s, k)
        BY <1>n, <2>3, <4>1, NotLeading
      <4> QED  BY <1>n, <2>3, <4>2, <4>3
    <3> QED  BY <3>1, <3>2
  <2>4. \A k \in (Scope \cap hist'[s].calm \cap Present(s3)') \ Folders :
          ~ Awaited(s, k)' => \A f \in Leading(s, k)' : FolderRow(f)'
    BY <1>c, <1>n, <2>3
  <2> QED  BY <2>2, <2>4, FreshShown
<1>1. ASSUME Begin(s) \/ BeginFails(s) \/ MarkObjectsFails(s) PROVE ShownOk(s)'
  <2>1. Goto(s, "mark") \/ Goto(s, "done")
    BY <1>1 DEF Begin, BeginFails, MarkObjectsFails
  <2> QED  BY <1>d, <2>1, GotoState DEF Underway, Working
<1>2. ASSUME MarkObjects(s) PROVE ShownOk(s)'
  <2>1. scan'[s].pc = "list" /\ scan'[s].more /\ scan'[s].token = 0
    BY <1>0, <1>2, MarkedState DEF ListingState
  <2>2. \A k \in Scope : Awaited(s, k)'
    <3>1. \A k \in Scope : k > 0
      BY <1>0
    <3> QED  BY <2>1, <3>1 DEF Awaited
  <2> QED  BY <2>1, <2>2 DEF ShownOk, Shown, Listing
<1>3. ASSUME ListPage(s) PROVE ShownOk(s)'
  <2>1. scan[s].pc = "list" /\ s3' = s3 /\ index' = index /\ hist' = hist
    BY <1>3 DEF ListPage
  <2> SUFFICES ASSUME Undisturbed(s) PROVE Shown(s)'
    BY <2>1 DEF ShownOk, Undisturbed
  <2>2. Shown(s)
    BY <2>1 DEF ShownOk, Underway, Working
  <2>3. /\ \A k \in Scope : s3[k] # Absent /\ k > scan[s].token =>
             k \in DOMAIN scan'[s].page \/ (scan'[s].more /\ k > scan'[s].token)
        /\ DOMAIN scan'[s].page # {} =>
             /\ scan'[s].todo = Ancestors[Least(DOMAIN scan'[s].page)]
             /\ scan'[s].pc = IF Ancestors[Least(DOMAIN scan'[s].page)] # <<>>
                              THEN "parent" ELSE "upsert"
        /\ DOMAIN scan'[s].page = {} => scan'[s].pc = IF scan'[s].more THEN "list" ELSE "count"
    BY <1>3, ListedState
  <2>4. ASSUME NEW k \in (Scope \cap hist[s].calm \cap Present(s3)) \ Folders, ~ Awaited(s, k)'
        PROVE  \A f \in Leading(s, k) : FolderRow(f)'
    <3>1. DOMAIN scan[s].page = {}
      BY <1>0, <2>1 DEF ListingState
    <3>2. ~ Awaited(s, k)
      BY <2>3, <2>4, <3>1 DEF Awaited, Present
    <3> QED  BY <2>1, <2>2, <2>4, <3>2 DEF Shown, FolderRow
  <2>5. \A k \in (Scope \cap hist'[s].calm \cap Present(s3)') \ Folders :
          ~ Awaited(s, k)' => \A f \in Leading(s, k)' : FolderRow(f)'
    BY <1>c, <2>1, <2>4
  <2> QED  BY <2>3, <2>5, FreshShown
<1>4. ASSUME ListPageFails(s) \/ WriteParentFails(s) \/ WriteObjectFails(s) \/ CleanupFails(s)
      PROVE  ShownOk(s)'
  BY <1>4, <1>d, StruckGrows DEF ListPageFails, WriteParentFails, WriteObjectFails, CleanupFails
<1>5. ASSUME WriteParent(s) PROVE ShownOk(s)'
  <2> DEFINE g == Head(scan[s].todo)
  <2>1. /\ scan[s].pc = "parent" /\ s3' = s3 /\ hist' = hist
        /\ index' = Upsert(index, g, NoVersion, TRUE)
    BY <1>5 DEF WriteParent
  <2> SUFFICES ASSUME Undisturbed(s) PROVE Shown(s)'
    BY <2>1 DEF ShownOk, Undisturbed
  <2>2. Shown(s)
    BY <2>1 DEF ShownOk, Underway, Working
  <2>3. /\ scan'[s].pc = IF Tail(scan[s].todo) = <<>> THEN "upsert" ELSE "parent"
        /\ scan'[s].page = scan[s].page /\ scan'[s].token = scan[s].token
        /\ scan'[s].more = scan[s].more
    BY <1>5, WrittenParentState
  <2>4. /\ TodoSet(s) \subseteq {g} \cup TodoSet(s)'
        /\ Tail(scan[s].todo) = <<>> => TodoSet(s) = {g}
    BY <1>5, <2>1, TodoTail, WrittenParentState
  <2>5. \A f : f = g \/ FolderRow(f) => FolderRow(f)'
    <3>1. /\ DOMAIN index' = DOMAIN index \cup {g} /\ index'[g].folder = TRUE
          /\ \A f \in DOMAIN index \ {g} : index'[f] = index[f]
      BY <2>1, SMT DEF Upsert
    <3> HIDE DEF g
    <3> QED  BY <3>1 DEF FolderRow
  <2> HIDE DEF g
  <2>6. Current(s)' = Current(s) /\ \A k : Awaited(s, k)' <=> Awaited(s, k)
    BY <2>3 DEF Current, Awaited
  <2>7. \A k \in (Scope \cap hist[s].calm \cap Present(s3)) \ Folders :
          ~ (scan'[s].pc \in Listing /\ Awaited(s, k)') => \A f \in Leading(s, k) : FolderRow(f)'
    BY <2>1, <2>2, <2>3, <2>5, <2>6 DEF Shown, Listing
  <2>8. Current(s) \notin Folders =>
          \A f \in Leading(s, Current(s)) \ (IF scan'[s].pc = "parent" THEN TodoSet(s)' ELSE {}) :
            FolderRow(f)'
    <3>1. Current(s) \notin Folders =>
            \A f \in Leading(s, Current(s)) \ TodoSet(s) : FolderRow(f)
      BY <2>1, <2>2 DEF Shown
    <3>2. CASE Tail(scan[s].todo) = <<>>
      <4>1. \A f : f \in TodoSet(s) => f = g
        BY <2>4, <3>2
      <4> QED  BY <2>5, <3>1, <4>1
    <3>3. CASE Tail(scan[s].todo) # <<>>
      <4>1. scan'[s].pc = "parent"
        BY <2>3, <3>3
      <4> QED  BY <2>4, <2>5, <3>1, <4>1
    <3> QED  BY <3>2, <3>3
  <2> QED  BY <1>c, <2>1, <2>6, <2>7, <2>8 DEF Shown
<1>6. ASSUME WriteObject(s) PROVE ShownOk(s)'
  <2> DEFINE c == Current(s)
  <2>1. /\ scan[s].pc = "upsert" /\ s3' = s3 /\ hist' = hist
        /\ index' = Upsert(index, c, scan[s].page[c], FALSE)
    BY <1>6 DEF WriteObject
  <2>2. \A f : FolderRow(f) /\ f # c => FolderRow(f)'
    <3>1. /\ DOMAIN index' = DOMAIN index \cup {c}
          /\ \A f \in DOMAIN index \ {c} : index'[f] = index[f]
      BY <2>1, SMT DEF Upsert
    <3> HIDE DEF c
    <3> QED  BY <3>1 DEF FolderRow
  <2>3. CASE NextObject(s)
    BY <1>n, <2>1, <2>2, <2>3
  <2>4. CASE Goto(s, "unmark")
    <3> SUFFICES ASSUME Undisturbed(s) PROVE Shown(s)'
      BY <2>1 DEF ShownOk, Undisturbed
    <3>1. Shown(s)
      BY <2>1 DEF ShownOk, Underway, Working
    <3>2. /\ scan'[s].pc = "unmark" /\ scan'[s].page = scan[s].page
          /\ scan'[s].token = scan[s].token /\ scan'[s].more = scan[s].more
      BY <2>4, GotoState
    <3>3. Current(s)' = c /\ \A k : Awaited(s, k)' <=> Awaited(s, k)
      BY <3>2 DEF Current, Awaited
    <3>4. ASSUME NEW k \in (Scope \cap hist[s].calm \cap Present(s3)) \ Folders,
                 ~ Awaited(s, k), NEW f \in Leading(s, k)
          PROVE  FolderRow(f)'
      <4>1. FolderRow(f)
        BY <3>1, <3>4 DEF Shown
      <4>2. c \notin Leading(s, k)
        BY <2>1, <3>4, NotLeading
      <4> QED  BY <2>2, <3>4, <4>1, <4>2
    <3>5. ASSUME c \notin Folders, NEW f \in Leading(s, c) PROVE FolderRow(f)'
      <4>1. FolderRow(f)
        BY <2>1, <3>1, <3>5 DEF Shown
      <4>2. f \in Folders
        BY <1>f, <2>1, <3>5, CurrentInPage DEF Leading
      <4> QED  BY <2>2, <3>5, <4>1, <4>2
    <3>6. /\ \A k \in (Scope \cap hist'[s].calm \cap Present(s3)') \ Folders :
               ~ (scan'[s].pc \in Listing /\ Awaited(s, k)')
                 => \A f \in Leading(s, k)' : FolderRow(f)'
          /\ Current(s)' \notin Folders => \A f \in Leading(s, Current(s))' : FolderRow(f)'
      <4> HIDE DEF c
      <4> QED  BY <1>c, <2>1, <3>2, <3>3, <3>4, <3>5 DEF Listing
    <3> QED  BY <3>2, <3>6 DEF Shown
  <2> QED  BY <1>6, <2>3, <2>4 DEF WriteObject
<1>7. ASSUME UnmarkObject(s) PROVE ShownOk(s)'
  <2>1. /\ scan[s].pc = "unmark" /\ s3' = s3 /\ hist' = hist /\ NextObject(s)
        /\ index' = Unmark(index, Current(s))
    BY <1>7 DEF UnmarkObject
  <2>2. /\ DOMAIN index' = DOMAIN index
        /\ \A k \in DOMAIN index : index'[k].folder = index[k].folder
    BY <2>1, SMT DEF Unmark, SetMark
  <2> QED  BY <1>n, <2>1, <2>2 DEF FolderRow
<1>8. ASSUME UnmarkObjectFails(s) PROVE ShownOk(s)'
  <2>1. /\ scan[s].pc = "unmark" /\ s3' = s3 /\ index' = index /\ NextObject(s)
        /\ hist' = hist
    BY <1>8 DEF UnmarkObjectFails
  <2> QED  BY <1>n, <2>1 DEF FolderRow
<1>9. ASSUME CountMarked(s) PROVE ShownOk(s)'
  <2>1. scan[s].pc = "count" /\ s3' = s3 /\ index' = index /\ hist' = hist
    BY <1>9 DEF CountMarked
  <2>2. scan'[s].pc \in {"delete", "finalize"}
    BY <1>9, GotoState DEF CountMarked
  <2> QED  BY <1>c, <2>1, <2>2 DEF ShownOk, Undisturbed, Shown, FolderRow, Listing, Underway, Working
<1>10. ASSUME DeleteMarkedRows(s) PROVE ShownOk(s)'
  <2>1. /\ scan[s].pc = "delete" /\ s3' = s3 /\ hist' = hist /\ Goto(s, "finalize")
        /\ index' = DeleteMarked(index)
    BY <1>10 DEF DeleteMarkedRows
  <2> SUFFICES ASSUME Undisturbed(s) PROVE Shown(s)'
    BY <2>1 DEF ShownOk, Undisturbed
  <2>2. Shown(s) /\ scan'[s].pc = "finalize"
    BY <2>1, GotoState DEF ShownOk, Underway, Working
  <2>3. \A f : FolderRow(f) /\ f \notin MarkedKeys(index) => FolderRow(f)'
    <3>1. /\ DOMAIN index' = DOMAIN index \ MarkedKeys(index)
          /\ \A k \in DOMAIN index' : index'[k] = index[k]
      BY <2>1, SMT DEF DeleteMarked
    <3> QED  BY <3>1 DEF FolderRow
  <2>4. ASSUME NEW k \in (Scope \cap hist[s].calm \cap Present(s3)) \ Folders,
               NEW f \in Leading(s, k)
        PROVE  FolderRow(f)'
    <3>1. FolderRow(f)
      BY <2>1, <2>2, <2>4 DEF Shown, Listing
    <3>2. f \notin MarkedKeys(index)
      <4>1. k \in hist[s].stable
        BY <2>1, <2>4 DEF CalmInv, CalmIsCalm, Underway, Working
      <4>2. KeptCovered(s)
        BY <2>1 DEF SweepInv, SweepOk, Trusted, Undisturbed, Working
      <4> QED  BY <2>1, <2>4, <4>1, <4>2 DEF KeptCovered, Covered, Leading
    <3> QED  BY <2>3, <3>1, <3>2
  <2> QED  BY <1>c, <2>1, <2>2, <2>4 DEF Shown, Listing
<1>11. ASSUME Finalize(s) \/ FinalizeFails(s) PROVE ShownOk(s)'
  <2>1. Goto(s, "done")
    BY <1>11 DEF Finalize, FinalizeFails
  <2> QED  BY <1>d, <2>1, GotoState DEF Underway, Working
<1> QED
  BY <1>1, <1>2, <1>3, <1>4, <1>5, <1>6, <1>7, <1>8, <1>9, <1>10, <1>11 DEF ScanStep

(* Nor does the query with which a request ends disturb a folder's row.     *)
LEMMA RequestLeavesFolders ==
  ASSUME TypeInv, CalmInv, NEW q \in Requests, SyncUpload(q) \/ SyncDelete(q) \/ SyncFails(q),
         NEW p \in Scans, scan[p].pc \in Underway
  PROVE  \A f \in Folders : (f \in Objects => f \in hist[p].calm) /\ FolderRow(f)
           => FolderRow(f)'
<1>1. /\ req[q].keys \subseteq Objects /\ req[q].keys \cap hist[p].calm = {}
      /\ req[q].op = "upload" => req[q].keys \cap Folders = {}
  BY ConstantsAssumption DEF CalmInv, RequestsInScope, CalmIsCalm
<1>2. ASSUME NEW f \in Folders, f \in Objects => f \in hist[p].calm, FolderRow(f)
      PROVE  FolderRow(f)'
  <2>1. CASE SyncUpload(q)
    <3>1. PICK k \in req[q].keys : index' = Upsert(index, k, req[q].ver, k \in Folders)
      BY <2>1 DEF SyncUpload
    <3>2. /\ DOMAIN index' = DOMAIN index \cup {k}
          /\ \A j \in DOMAIN index \ {k} : index'[j] = index[j]
      BY <3>1, SMT DEF Upsert
    <3>3. f # k
      BY <1>1, <1>2, <2>1 DEF SyncUpload
    <3> QED  BY <1>2, <3>2, <3>3 DEF FolderRow
  <2>2. CASE SyncDelete(q)
    <3>1. PICK k \in req[q].keys : index' = DeleteRow(index, k)
      BY <2>2 DEF SyncDelete
    <3>2. /\ DOMAIN index' = DOMAIN index \ {k}
          /\ \A j \in DOMAIN index' : index'[j] = index[j]
      BY <3>1, SMT DEF DeleteRow
    <3>3. f # k
      BY <1>1, <1>2
    <3> QED  BY <1>2, <3>2, <3>3 DEF FolderRow
  <2>3. CASE SyncFails(q)
    BY <1>2, <2>3 DEF SyncFails, FolderRow
  <2> QED  BY <2>1, <2>2, <2>3
<1> QED  BY <1>2

LEMMA TreeInit == Init => TreeInv
<1> SUFFICES ASSUME Init PROVE TreeInv
  OBVIOUS
<1>1. FileRows
  BY DEF Init, FileRows, NoRows
<1>2. \A s \in Scans : scan[s].pc = "idle"
  BY DEF Init, FreshScan
<1> QED  BY <1>1, <1>2 DEF TreeInv, Ordered, ShownOk, Underway, Working

LEMMA TreeStep == TypeInv /\ SweepInv /\ CalmInv /\ TreeInv /\ [Next]_vars => TreeInv'
<1> SUFFICES ASSUME TypeInv, SweepInv, CalmInv, TreeInv, [Next]_vars, NEW p \in Scans
             PROVE  Ordered(p)' /\ ShownOk(p)'
  BY FileRowsStep DEF TreeInv
<1>0. Ordered(p) /\ ShownOk(p) /\ s3 \in [Objects -> Versions \cup {Absent}]
  BY DEF TreeInv, TypeInv, TypeOK
(* The listing of a scan that does not step.                                *)
<1>o. ASSUME scan'[p] = scan[p], hist'[p].stable \subseteq hist[p].stable PROVE Ordered(p)'
  BY <1>0, <1>o DEF Ordered, Awaited
<1>1. ASSUME NEW s \in Scans, ScanStep(s) PROVE Ordered(p)' /\ ShownOk(p)'
  <2>1. CASE p = s
    BY <1>0, <1>1, <2>1, OrderedOwnStep, ShownOwnStep
  <2>2. CASE p # s /\ MarkObjects(s)
    <3>1. ~ hist'[p].alone /\ hist'[p].stable = hist[p].stable /\ scan'[p] = scan[p]
      BY <2>2, MarkedState
    <3> QED  BY <1>o, <3>1 DEF ShownOk, Undisturbed
  <2>3. CASE p # s /\ ~ MarkObjects(s)
    <3>1. /\ s3' = s3 /\ scan'[p] = scan[p] /\ hist'[p] = hist[p]
          /\ index' = index \/ scan[s].pc \in Working
      BY <1>1, <2>3, OtherScans
    <3>2. scan[p].pc \in Underway /\ Undisturbed(p)' => index' = index
      BY <2>3, <3>1 DEF CalmInv, AloneIsAlone, Undisturbed
    <3>3. index' = index => \A f : FolderRow(f) => FolderRow(f)'
      BY DEF FolderRow
    <3> QED  BY <1>0, <1>o, <3>1, <3>2, <3>3, ShownFrame
  <2> QED  BY <2>1, <2>2, <2>3
<1>e. ASSUME NEW bucket, NEW changed, S3Changes(bucket, changed), scan' = scan, index' = index,
             \A k \in Objects \ changed : bucket[k] = s3[k]
      PROVE  Ordered(p)' /\ ShownOk(p)'
  <2>1. /\ hist'[p].alone = hist[p].alone /\ hist'[p].struck = hist[p].struck
        /\ hist'[p].calm = hist[p].calm \ changed /\ hist[p].calm \subseteq Objects
        /\ hist'[p].stable \subseteq hist[p].stable
    BY <1>e DEF TypeInv, TypeOK, S3Changes, ScanHistory
  <2>2. \A k \in hist'[p].calm : s3'[k] = s3[k]
    BY <1>e, <2>1 DEF S3Changes
  <2>3. \A f : FolderRow(f) => FolderRow(f)'
    BY <1>e DEF FolderRow
  <2> QED  BY <1>0, <1>e, <1>o, <2>1, <2>2, <2>3, ShownFrame
<1>2. ASSUME NEW q \in Requests, RequestStep(q) PROVE Ordered(p)' /\ ShownOk(p)'
  <2>1. ASSUME NEW k \in Scope \ Folders, NEW v \in Versions, Upload(q, k, v)
        PROVE  Ordered(p)' /\ ShownOk(p)'
    <3>1. \A j \in Objects \ {k} : [s3 EXCEPT ![k] = v][j] = s3[j]
      BY <1>0
    <3> QED  BY <1>e, <2>1, <3>1 DEF Upload
  <2>2. ASSUME NEW K \in SUBSET Scope \ {{}}, Delete(q, K) PROVE Ordered(p)' /\ ShownOk(p)'
    <3>1. /\ S3Changes([k \in Objects |-> IF k \in K THEN Absent ELSE s3[k]], K)
          /\ scan' = scan /\ index' = index
      BY <2>2 DEF Delete
    <3> QED  BY <1>e, <3>1
  <2>3. ASSUME NEW K \in SUBSET Scope \ {{}}, DeletePartly(q, K)
        PROVE  Ordered(p)' /\ ShownOk(p)'
    <3>1. PICK D \in SUBSET K :
            S3Changes([k \in Objects |-> IF k \in D THEN Absent ELSE s3[k]], D)
      BY <2>3 DEF DeletePartly
    <3>2. scan' = scan /\ index' = index
      BY <2>3 DEF DeletePartly
    <3> QED  BY <1>e, <3>1, <3>2
  <2>4. ASSUME SyncUpload(q) \/ SyncDelete(q) \/ SyncFails(q) PROVE Ordered(p)' /\ ShownOk(p)'
    <3>1. s3' = s3 /\ scan' = scan /\ hist' = hist
      BY <2>4, RequestsMarkNothing
    <3>2. scan[p].pc \in Underway =>
            \A f \in Folders : (f \in Objects => f \in hist'[p].calm) /\ FolderRow(f)
              => FolderRow(f)'
      BY <2>4, <3>1, RequestLeavesFolders
    <3> QED  BY <1>0, <1>o, <3>1, <3>2, ShownFrame
  <2> QED  BY <1>2, <2>1, <2>2, <2>3, <2>4 DEF RequestStep
<1>3. CASE ExternalChange
  <2>1. PICK k \in ExternalKeys, v \in Versions \cup {Absent} :
          S3Changes([s3 EXCEPT ![k] = v], {k})
    BY <1>3 DEF ExternalChange
  <2>2. \A j \in Objects \ {k} : [s3 EXCEPT ![k] = v][j] = s3[j]
    BY <1>0
  <2> QED  BY <1>3, <1>e, <2>1, <2>2 DEF ExternalChange
<1>4. CASE Kill
  <2>1. scan'[p].pc \notin Underway
    BY <1>4 DEF Kill, FreshScan, Underway, Working
  <2> QED  BY <2>1 DEF Ordered, ShownOk, Underway
<1>5. CASE UNCHANGED vars
  <2>1. s3' = s3 /\ scan' = scan /\ hist' = hist /\ \A f : FolderRow(f) => FolderRow(f)'
    BY <1>5 DEF vars, FolderRow
  <2> QED  BY <1>0, <1>o, <2>1, ShownFrame
<1> QED  BY <1>1, <1>2, <1>3, <1>4, <1>5 DEF Next

-----------------------------------------------------------------------------
(* When an undisturbed scan has cleaned up, the breadcrumbs of every object *)
(* that nobody touched, in folders with plain names, lead somewhere, and it *)
(* is found, over any number of pages of folders, if its own folder holds   *)
(* files only or fits one page: ObjectsAreFound holds of every reachable    *)
(* state.                                                                   *)
THEOREM ObjectsFound == Spec => []ObjectsAreFound
<1>1. TypeInv /\ TreeInv /\ SweptIndexMatchesBucket => ObjectsAreFound
  <2> SUFFICES ASSUME TypeInv, TreeInv, SweptIndexMatchesBucket,
                      NEW s \in Scans, scan[s].pc = "finalize", Undisturbed(s),
                      NEW k \in (Scope \cap hist[s].calm \cap Present(s3)) \ Folders,
                      AncestorSet(k) \cap Objects \subseteq hist[s].calm,
                      IsPlain(Directory(Name[k]))
               PROVE  /\ \A crumb \in Range(Breadcrumbs(Directory(Name[k]))) :
                           Shows(ReadAs[crumb]) # {}
                      /\ FilesAreShown(DirectoryOf(Directory(Name[k]))) => k \in Found
    BY DEF ObjectsAreFound
  <2>1. k \in Objects \ Folders
    BY ConstantsAssumption
  <2>2. k \in DOMAIN index
    BY <2>1 DEF SweptIndexMatchesBucket, Present
  <2>3. ~ index[k].folder
    BY <2>1, <2>2 DEF TreeInv, FileRows
  <2>4. Shown(s)
    BY DEF TreeInv, ShownOk, Underway
  <2>5. \A f \in AncestorSet(k) : FolderRow(f)
    BY <2>4 DEF Shown, Listing, Leading
  <2> QED  BY <2>1, <2>2, <2>3, <2>5, Reached DEF TypeInv
<1> QED
  BY <1>1, TypeInit, TypeStep, SweepInit, SweepStep, CalmInit, CalmStep, TreeInit, TreeStep,
     IndexMatches, PTL DEF Spec

(* The folders of a path are a chain from the root for the ordinary keys    *)
(* and for no others, and the row of every object lies in the folder where  *)
(* an upload would put it: FoldersAreChains holds of every reachable state. *)
THEOREM FoldersChain == Spec => []FoldersAreChains
<1>1. TypeInv /\ TreeInv => FoldersAreChains
  <2> SUFFICES ASSUME TypeInv, TreeInv, NEW k \in DOMAIN index \ Folders
               PROVE  RowPrefix(k) = ExtractPrefix(Name[k])
    BY PathChains DEF FoldersAreChains
  <2>1. k \in Keys
    BY DEF TypeInv, TypeOK, IsTable
  <2>2. ~ IsFolderKey(Name[k])
    BY <2>1, NamePath
  <2>3. ~ index[k].folder
    BY DEF TreeInv, FileRows
  <2> QED  BY <2>2, <2>3 DEF RowPrefix, ExtractPrefix
<1> QED
  BY <1>1, TypeInit, TypeStep, SweepInit, SweepStep, CalmInit, CalmStep, TreeInit, TreeStep, PTL
     DEF Spec
=============================================================================
