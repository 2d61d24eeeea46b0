-------------------------- MODULE PathLookupProofs --------------------------
(***************************************************************************)
(* Proofs about PathLookup, for any tree, lists of aliases and symbols,    *)
(* and paths.                                                              *)
(***************************************************************************)
EXTENDS PathLookup, CommonLemmas

-----------------------------------------------------------------------------
(***************************************************************************)
(* The walk from a node along a path.  That the recursive function exists  *)
(* is shown for its first values, one more at a time.                      *)
(***************************************************************************)
Stopped == {None, Panic}

Step(at, names, i, before) ==
  IF i = 0 THEN at ELSE IF before \in Stopped THEN before ELSE Descend(before, names[i])

IsWalk(walk, at, names, n) ==
  walk = [i \in 0..n |-> Step(at, names, i, walk[i - 1])]

LEMMA WalkExists ==
  ASSUME NEW at, NEW names, NEW n \in Nat
  PROVE  \E walk : IsWalk(walk, at, names, n)
<1> DEFINE T == {k \in Nat : ~ \E walk : IsWalk(walk, at, names, k)}
<1>1. SUFFICES ASSUME T # {} PROVE FALSE
  OBVIOUS
<1>2. PICK k \in T : \A m \in T : k <= m
  <2>1. T \subseteq Nat
    OBVIOUS
  <2> HIDE DEF T
  <2> QED
    BY <1>1, <2>1, LeastNatural
<1>3. k \in Nat /\ ~ \E walk : IsWalk(walk, at, names, k)
  OBVIOUS
<1>4. CASE k = 0
  <2> DEFINE walk == [i \in 0..0 |-> at]
  <2>1. \A i \in 0..0 : i = 0
    OBVIOUS
  <2>2. IsWalk(walk, at, names, 0)
    BY <2>1 DEF IsWalk, Step
  <2> QED
    BY <1>3, <1>4, <2>2
<1>5. CASE k # 0
  <2>1. k - 1 \in Nat /\ ~ (k <= k - 1)
    BY <1>3, <1>5
  <2>2. k - 1 \notin T
    BY <1>2, <2>1
  <2>3. PICK shorter : IsWalk(shorter, at, names, k - 1)
    BY <2>1, <2>2
  <2> DEFINE walk == [i \in 0..k |-> IF i = k THEN Step(at, names, k, shorter[k - 1])
                                     ELSE shorter[i]]
  <2>4. \A i \in 0..k - 1 : shorter[i] = Step(at, names, i, shorter[i - 1])
    BY <2>3 DEF IsWalk
  <2>5. ASSUME NEW i \in 0..k PROVE walk[i] = Step(at, names, i, walk[i - 1])
    <3>1. CASE i = 0
      BY <1>5, <2>1, <2>4, <3>1 DEF Step
    <3>2. CASE i # 0
      <4>1. i - 1 \in 0..k /\ i - 1 # k
        BY <1>3, <3>2
      <4>2. walk[i - 1] = shorter[i - 1]
        BY <4>1
      <4> QED
        BY <1>3, <2>4, <4>2
    <3> QED
      BY <3>1, <3>2
  <2>6. IsWalk(walk, at, names, k)
    BY <2>5 DEF IsWalk
  <2> QED
    BY <1>3, <2>6
<1> QED
  BY <1>4, <1>5

LEMMA WalkSteps ==
  ASSUME NEW at, NEW names, Len(names) \in Nat
  PROVE  \A i \in 0..Len(names) :
           Walk(at, names)[i] = Step(at, names, i, Walk(at, names)[i - 1])
<1>1. PICK n \in Nat : n = Len(names)
  OBVIOUS
<1>2. Walk(at, names) = CHOOSE walk : IsWalk(walk, at, names, n)
  BY <1>1 DEF Walk, IsWalk, Step, Stopped
<1>3. IsWalk(Walk(at, names), at, names, n)
  BY <1>2, WalkExists
<1> QED
  BY <1>1, <1>3 DEF IsWalk
-----------------------------------------------------------------------------
(* The path reached after `i` names.                                       *)
Reached(at, names, i) == at \o SubSeq(names, 1, i)

LEMMA ReachedFacts ==
  ASSUME NEW at \in Seq(AnyName), NEW names \in Seq(AnyName), NEW i \in 0..Len(names)
  PROVE  /\ Reached(at, names, i) \in Seq(AnyName)
         /\ Len(Reached(at, names, i)) = Len(at) + i
         /\ \A j \in 1..Len(at) : Reached(at, names, i)[j] = at[j]
         /\ \A j \in 1..i : Reached(at, names, i)[Len(at) + j] = names[j]
<1>1. Len(at) \in Nat /\ Len(names) \in Nat /\ i \in Nat
  BY LenProperties
<1>2. \A j \in 1..i : names[j] \in AnyName
  BY <1>1, ElementOfSeq
<1>3. /\ SubSeq(names, 1, i) \in Seq(AnyName) /\ Len(SubSeq(names, 1, i)) = i
      /\ \A j \in 1..i : SubSeq(names, 1, i)[j] = names[j]
  BY <1>1, <1>2, SubSeqProperties
<1>4. PICK s \in Seq(AnyName) : s = SubSeq(names, 1, i)
  BY <1>3
<1>5. /\ at \o s \in Seq(AnyName) /\ Len(at \o s) = Len(at) + Len(s)
      /\ \A j \in 1..Len(at) + Len(s) :
           (at \o s)[j] = IF j <= Len(at) THEN at[j] ELSE s[j - Len(at)]
  BY <1>4, ConcatProperties
<1>6. ASSUME NEW j \in 1..i PROVE (at \o s)[Len(at) + j] = names[j]
  <2>1. Len(at) + j \in 1..Len(at) + Len(s) /\ ~ (Len(at) + j <= Len(at))
        /\ Len(at) + j - Len(at) = j
    BY <1>1, <1>3, <1>4
  <2> QED
    BY <1>3, <1>4, <1>5, <2>1
<1>7. \A j \in 1..Len(at) : (at \o s)[j] = at[j]
  BY <1>1, <1>3, <1>4, <1>5
<1> QED
  BY <1>3, <1>4, <1>5, <1>6, <1>7 DEF Reached

LEMMA ReachedEnds ==
  ASSUME NEW at \in Seq(AnyName), NEW names \in Seq(AnyName)
  PROVE  Reached(at, names, 0) = at /\ Reached(at, names, Len(names)) = at \o names
<1>1. Len(names) \in Nat /\ 0 \in 0..Len(names) /\ Len(names) \in 0..Len(names)
      /\ Len(at) \in Nat
  BY LenProperties
<1>2. Reached(at, names, 0) = at
  <2>1. PICK r : r = Reached(at, names, 0)
    OBVIOUS
  <2>2. r \in Seq(AnyName) /\ Len(r) = Len(at) /\ \A j \in 1..Len(at) : r[j] = at[j]
    <3>1. /\ Reached(at, names, 0) \in Seq(AnyName)
          /\ Len(Reached(at, names, 0)) = Len(at) + 0
          /\ \A j \in 1..Len(at) : Reached(at, names, 0)[j] = at[j]
      BY <1>1, ReachedFacts
    <3> QED
      BY <1>1, <2>1, <3>1
  <2> QED
    BY <2>1, <2>2, SeqEqual
<1>3. SubSeq(names, 1, Len(names)) = names
  <2>1. PICK s : s = SubSeq(names, 1, Len(names))
    OBVIOUS
  <2>2. \A j \in 1..Len(names) : names[j] \in AnyName
    BY ElementOfSeq
  <2>3. s \in Seq(AnyName) /\ Len(s) = Len(names) /\ \A j \in 1..Len(names) : s[j] = names[j]
    BY <1>1, <2>1, <2>2, SubSeqProperties
  <2> QED
    BY <2>1, <2>3, SeqEqual
<1> QED
  BY <1>2, <1>3 DEF Reached

LEMMA ReachedNext ==
  ASSUME NEW at \in Seq(AnyName), NEW names \in Seq(AnyName), NEW i \in 1..Len(names)
  PROVE  /\ Reached(at, names, i) = Append(Reached(at, names, i - 1), names[i])
         /\ Front(Reached(at, names, i)) = Reached(at, names, i - 1)
<1>1. Len(names) \in Nat /\ i - 1 \in 0..Len(names) /\ i \in 0..Len(names) /\ Len(at) \in Nat
  BY LenProperties
<1>2. PICK r, b : r = Reached(at, names, i) /\ b = Reached(at, names, i - 1)
  OBVIOUS
<1>3. /\ r \in Seq(AnyName) /\ Len(r) = Len(at) + i
      /\ \A j \in 1..Len(at) : r[j] = at[j]
      /\ \A j \in 1..i : r[Len(at) + j] = names[j]
  <2>1. /\ Reached(at, names, i) \in Seq(AnyName)
        /\ Len(Reached(at, names, i)) = Len(at) + i
        /\ \A j \in 1..Len(at) : Reached(at, names, i)[j] = at[j]
        /\ \A j \in 1..i : Reached(at, names, i)[Len(at) + j] = names[j]
    BY <1>1, ReachedFacts
  <2> QED
    BY <1>2, <2>1
<1>4. /\ b \in Seq(AnyName) /\ Len(b) = Len(at) + i - 1
      /\ \A j \in 1..Len(at) : b[j] = at[j]
      /\ \A j \in 1..i - 1 : b[Len(at) + j] = names[j]
  <2>1. PICK m \in 0..Len(names) : m = i - 1
    BY <1>1
  <2>2. /\ Reached(at, names, m) \in Seq(AnyName)
        /\ Len(Reached(at, names, m)) = Len(at) + m
        /\ \A j \in 1..Len(at) : Reached(at, names, m)[j] = at[j]
        /\ \A j \in 1..m : Reached(at, names, m)[Len(at) + j] = names[j]
    BY ReachedFacts
  <2>3. b = Reached(at, names, m) /\ Len(at) + m = Len(at) + i - 1
    BY <1>1, <1>2, <2>1
  <2> QED
    BY <2>1, <2>2, <2>3
<1>5. ASSUME NEW j \in 1..Len(at) + i - 1 PROVE b[j] = r[j]
  <2>1. CASE j <= Len(at)
    BY <1>1, <1>3, <1>4, <2>1
  <2>2. CASE ~ (j <= Len(at))
    <3>1. PICK m \in 1..i - 1 : j = Len(at) + m
      <4>1. j - Len(at) \in 1..i - 1 /\ j = Len(at) + (j - Len(at))
        BY <1>1, <2>2
      <4> QED
        BY <4>1
    <3>2. m \in 1..i
      BY <1>1
    <3> QED
      BY <1>3, <1>4, <3>1, <3>2
  <2> QED
    BY <2>1, <2>2
<1>6. names[i] \in AnyName
  BY ElementOfSeq
<1>7. r = Append(b, names[i])
  <2>1. PICK a : a = Append(b, names[i])
    OBVIOUS
  <2>2. /\ a \in Seq(AnyName) /\ Len(a) = Len(b) + 1 /\ a[Len(b) + 1] = names[i]
        /\ \A j \in 1..Len(b) : a[j] = b[j]
    BY <1>4, <1>6, <2>1, AppendProperties
  <2>3. ASSUME NEW j \in 1..Len(r) PROVE r[j] = a[j]
    <3>1. CASE j = Len(b) + 1
      <4>1. j = Len(at) + i /\ i \in 1..i
        BY <1>1, <1>4, <3>1
      <4> QED
        BY <1>3, <2>2, <3>1, <4>1
    <3>2. CASE j # Len(b) + 1
      <4>1. j \in 1..Len(at) + i - 1 /\ j \in 1..Len(b)
        BY <1>1, <1>3, <1>4, <3>2
      <4> QED
        BY <1>5, <2>2, <4>1
    <3> QED
      BY <3>1, <3>2
  <2>4. Len(r) = Len(a)
    BY <1>1, <1>3, <1>4, <2>2
  <2> QED
    BY <1>3, <2>1, <2>2, <2>3, <2>4, SeqEqual
<1>8. Front(r) = b
  <2>1. r # <<>>
    BY <1>1, <1>3, EmptySeq
  <2>2. PICK f : f = Front(r)
    OBVIOUS
  <2>3. f \in Seq(AnyName) /\ Len(f) = Len(r) - 1 /\ \A j \in 1..Len(r) - 1 : f[j] = r[j]
    BY <1>3, <2>1, <2>2, FrontProperties
  <2>4. Len(f) = Len(b) /\ \A j \in 1..Len(f) : f[j] = b[j]
    BY <1>1, <1>3, <1>4, <1>5, <2>3
  <2> QED
    BY <1>4, <2>2, <2>3, <2>4, SeqEqual
<1> QED
  BY <1>2, <1>7, <1>8
-----------------------------------------------------------------------------
(* What a document promises of its tree; a marker is no path.              *)
LEMMA TreeFacts ==
  ASSUME doc \in Docs
  PROVE  /\ doc.tree.nodes \subseteq Seq(Names) /\ doc.tree.nodes \subseteq Seq(AnyName)
         /\ doc.tree.regions \subseteq Names
         /\ \A n \in doc.tree.nodes :
              /\ n # <<>> /\ n # <<Reserved>>
              /\ Len(n) > 1 => \/ Front(n) \in doc.tree.nodes
                               \/ \E r \in doc.tree.regions : Front(n) = <<Reserved, r>>
         /\ \A p \in Seq(AnyName) : p \notin Stopped /\ p # Invalid
         /\ None \in Stopped /\ Panic \in Stopped /\ Names \subseteq AnyName
         /\ Reserved \in Names /\ None # Panic
<1>1. doc.tree \in Trees
  BY DEF Docs
<1>2. doc.tree.nodes \subseteq Seq(Names) /\ doc.tree.regions \subseteq Names
      /\ IsTree(doc.tree.nodes, doc.tree.regions)
  BY <1>1, DocsAssumption
<1>3. Names \subseteq AnyName
  BY DEF AnyName
<1>4. Seq(Names) \subseteq Seq(AnyName)
  <2> HIDE DEF AnyName
  <2> QED
    BY <1>3, SeqMonotonic
<1> QED
  BY <1>2, <1>3, <1>4, NamesAssumption, MarkersAssumption DEF IsTree, Stopped

(* After each name the walk is where the names lead, or it has stopped.    *)
LEMMA WalkGoesAlong ==
  ASSUME doc \in Docs, NEW at \in Seq(AnyName), NEW names \in Seq(AnyName),
         NEW i \in 0..Len(names)
  PROVE  \/ Walk(at, names)[i] \in Stopped
         \/ /\ Walk(at, names)[i] = Reached(at, names, i)
            /\ i # 0 => Reached(at, names, i) \in doc.tree.nodes
<1> DEFINE Right(k) == \/ Walk(at, names)[k] \in Stopped
                       \/ /\ Walk(at, names)[k] = Reached(at, names, k)
                          /\ k # 0 => Reached(at, names, k) \in doc.tree.nodes
           T == {k \in 0..Len(names) : ~ Right(k)}
<1>1. Len(names) \in Nat
  BY LenProperties
<1>2. \A k \in 0..Len(names) : Walk(at, names)[k] = Step(at, names, k, Walk(at, names)[k - 1])
  BY <1>1, WalkSteps
<1>3. SUFFICES ASSUME T # {} PROVE FALSE
  OBVIOUS
<1>4. PICK k \in T : \A m \in T : k <= m
  <2>1. T \subseteq Nat
    BY <1>1
  <2> HIDE DEF T
  <2> QED
    BY <1>3, <2>1, LeastNatural
<1>5. k \in 0..Len(names) /\ ~ Right(k)
  OBVIOUS
<1>6. CASE k = 0
  <2>1. Walk(at, names)[0] = at
    BY <1>2, <1>5, <1>6 DEF Step
  <2> QED
    BY <1>5, <1>6, <2>1, ReachedEnds
<1>7. CASE k # 0
  <2>1. k \in 1..Len(names) /\ k - 1 \in 0..Len(names) /\ ~ (k <= k - 1)
    BY <1>1, <1>5, <1>7
  <2>2. Right(k - 1)
    BY <1>4, <2>1
  <2>3. PICK before : before = Walk(at, names)[k - 1]
    OBVIOUS
  <2>4. Walk(at, names)[k] = IF before \in Stopped THEN before ELSE Descend(before, names[k])
    BY <1>2, <1>5, <1>7, <2>3 DEF Step
  <2>5. before \notin Stopped /\ before = Reached(at, names, k - 1)
    BY <1>5, <2>2, <2>3, <2>4
  <2>6. Walk(at, names)[k] = Descend(Reached(at, names, k - 1), names[k])
    BY <2>4, <2>5
  <2>7. Append(Reached(at, names, k - 1), names[k]) = Reached(at, names, k)
    BY <2>1, ReachedNext
  <2> HIDE DEF Right
  <2>8. \/ Walk(at, names)[k] \in Stopped
        \/ /\ Walk(at, names)[k] = Reached(at, names, k)
           /\ Reached(at, names, k) \in doc.tree.nodes
    BY <2>6, <2>7 DEF Descend, Stopped
  <2> QED
    BY <1>5, <2>8 DEF Right
<1> QED
  BY <1>6, <1>7

(* The names do not pass a region before they are at a node.               *)
StaysOff(at, names) ==
  /\ Len(at) = 0 => names[1] # Reserved
  /\ Len(at) = 1 => at[1] # Reserved

(* Every node that a path passes is one of the tree if its end is.         *)
LEMMA WayIsInTree ==
  ASSUME doc \in Docs, NEW at \in Seq(AnyName), NEW names \in Seq(AnyName),
         StaysOff(at, names), at \o names \in doc.tree.nodes, NEW i \in 1..Len(names)
  PROVE  Reached(at, names, i) \in doc.tree.nodes
<1> DEFINE L == Len(names)
           T == {k \in 0..L - 1 : Reached(at, names, L - k) \notin doc.tree.nodes}
<1>1. L \in Nat /\ Len(at) \in Nat
  BY LenProperties
<1>2. ASSUME T # {} PROVE FALSE
  <2>1. PICK k \in T : \A m \in T : k <= m
    <3>1. T \subseteq Nat
      BY <1>1
    <3> HIDE DEF T
    <3> QED
      BY <1>2, <3>1, LeastNatural
  <2>2. k \in 0..L - 1 /\ Reached(at, names, L - k) \notin doc.tree.nodes
    OBVIOUS
  <2>3. k # 0
    <3>1. L - 0 = L
      BY <1>1
    <3> QED
      BY <2>2, <3>1, ReachedEnds
  <2>4. PICK j \in 1..L : j = L - k
    BY <1>1, <2>2
  <2>5. j + 1 \in 1..L /\ j + 1 = L - (k - 1) /\ k - 1 \in 0..L - 1 /\ ~ (k <= k - 1)
        /\ j + 1 - 1 = j /\ j \in 0..L /\ j + 1 \in 0..L
    BY <1>1, <2>2, <2>3, <2>4
  <2>6. Reached(at, names, j + 1) \in doc.tree.nodes
    BY <2>1, <2>5
  <2>7. Front(Reached(at, names, j + 1)) = Reached(at, names, j)
    BY <2>5, ReachedNext
  <2>8. Len(Reached(at, names, j + 1)) = Len(at) + (j + 1)
    BY <2>5, ReachedFacts
  <2>9. PICK r \in doc.tree.regions : Reached(at, names, j) = <<Reserved, r>>
    BY <1>1, <2>2, <2>4, <2>5, <2>6, <2>7, <2>8, TreeFacts
  <2>10. /\ Len(Reached(at, names, j)) = Len(at) + j
         /\ \A m \in 1..Len(at) : Reached(at, names, j)[m] = at[m]
         /\ \A m \in 1..j : Reached(at, names, j)[Len(at) + m] = names[m]
    <3>1. j \in 0..Len(names)
      BY <2>5
    <3> HIDE DEF L
    <3> QED
      BY <3>1, ReachedFacts
  <2>11. Len(Reached(at, names, j)) = 2 /\ Reached(at, names, j)[1] = Reserved
    BY <2>9
  <2>12. Len(at) = 0 \/ Len(at) = 1
    <3>1. PICK n \in Nat, a \in Nat : n = Len(names) /\ a = Len(at)
      BY <1>1
    <3>2. j \in 1..n
      BY <3>1
    <3>3. a + j = 2
      BY <2>10, <2>11, <3>1
    <3>4. a = 0 \/ a = 1
      BY <3>2, <3>3
    <3> QED
      BY <3>1, <3>4
  <2>13. CASE Len(at) = 0
    <3>1. 1 \in 1..j /\ Len(at) + 1 = 1
      BY <1>1, <2>4, <2>13
    <3>2. Reached(at, names, j)[1] = names[1]
      BY <2>10, <3>1
    <3> QED
      BY <2>11, <2>13, <3>2 DEF StaysOff
  <2>14. CASE Len(at) = 1
    <3>1. Reached(at, names, j)[1] = at[1]
      BY <2>10, <2>14
    <3> QED
      BY <2>11, <2>14, <3>1 DEF StaysOff
  <2> QED
    BY <2>12, <2>13, <2>14
<1>3. L - i \in 0..L - 1 /\ L - (L - i) = i
  BY <1>1
<1> QED
  BY <1>2, <1>3

(* So the walk to a node of the tree does not stop.                        *)
LEMMA WalkArrives ==
  ASSUME doc \in Docs, NEW at \in Seq(AnyName), NEW names \in Seq(AnyName),
         StaysOff(at, names), at \o names \in doc.tree.nodes, NEW i \in 0..Len(names)
  PROVE  Walk(at, names)[i] \notin Stopped
<1> DEFINE T == {k \in 0..Len(names) : Walk(at, names)[k] \in Stopped}
<1>1. Len(names) \in Nat /\ Len(at) \in Nat
  BY LenProperties
<1>2. \A k \in 0..Len(names) : Walk(at, names)[k] = Step(at, names, k, Walk(at, names)[k - 1])
  BY <1>1, WalkSteps
<1>3. ASSUME T # {} PROVE FALSE
  <2>1. PICK k \in T : \A m \in T : k <= m
    <3>1. T \subseteq Nat
      BY <1>1
    <3> HIDE DEF T
    <3> QED
      BY <1>3, <3>1, LeastNatural
  <2>2. k \in 0..Len(names) /\ Walk(at, names)[k] \in Stopped
    OBVIOUS
  <2>3. k # 0
    BY <1>2, <2>2, TreeFacts DEF Step
  <2>4. k \in 1..Len(names) /\ k - 1 \in 0..Len(names) /\ ~ (k <= k - 1)
    BY <1>1, <2>2, <2>3
  <2>5. Walk(at, names)[k - 1] \notin Stopped
    BY <2>1, <2>4
  <2>6. Walk(at, names)[k - 1] = Reached(at, names, k - 1)
    BY <2>4, <2>5, WalkGoesAlong
  <2>7. Reached(at, names, k) \in doc.tree.nodes
    BY <2>4, WayIsInTree
  <2>8. Append(Reached(at, names, k - 1), names[k]) = Reached(at, names, k)
    BY <2>4, ReachedNext
  <2>9. names[k] \in Names
    <3>1. PICK r \in Seq(Names) : r = Reached(at, names, k)
      BY <2>7, TreeFacts
    <3>2. Len(r) = Len(at) + k /\ \A m \in 1..k : r[Len(at) + m] = names[m]
      BY <2>2, <3>1, ReachedFacts
    <3>3. Len(at) + k \in 1..Len(r) /\ k \in 1..k
      BY <1>1, <2>4, <3>2
    <3>4. r[Len(at) + k] \in Names
      BY <3>3, ElementOfSeq
    <3> QED
      BY <3>2, <3>3, <3>4
  <2>10. Walk(at, names)[k] = Descend(Reached(at, names, k - 1), names[k])
    BY <1>2, <2>2, <2>3, <2>5, <2>6 DEF Step
  <2>11. Walk(at, names)[k] = Reached(at, names, k)
    BY <2>7, <2>8, <2>9, <2>10 DEF Descend
  <2>12. Reached(at, names, k) \in Seq(AnyName)
    BY <2>7, TreeFacts
  <2> QED
    BY <2>2, <2>11, <2>12, TreeFacts
<1> QED
  BY <1>3

(* node::Node::find finds the node at the end of the path, or none.        *)
LEMMA FindFromIs ==
  ASSUME doc \in Docs, NEW at \in Seq(AnyName), NEW names \in Seq(AnyName)
  PROVE  /\ Len(names) = 0 => FindFrom(at, names) = at
         /\ Len(names) # 0 => \/ FindFrom(at, names) \in Stopped
                              \/ /\ FindFrom(at, names) = at \o names
                                 /\ at \o names \in doc.tree.nodes
         /\ StaysOff(at, names) /\ at \o names \in doc.tree.nodes
              => FindFrom(at, names) = at \o names
<1>1. Len(names) \in Nat /\ Len(names) \in 0..Len(names)
  BY LenProperties
<1>2. Reached(at, names, Len(names)) = at \o names
  BY ReachedEnds
<1>3. \/ FindFrom(at, names) \in Stopped
      \/ /\ FindFrom(at, names) = at \o names
         /\ Len(names) # 0 => at \o names \in doc.tree.nodes
  BY <1>1, <1>2, WalkGoesAlong DEF FindFrom
<1>4. StaysOff(at, names) /\ at \o names \in doc.tree.nodes
        => FindFrom(at, names) \notin Stopped
  BY <1>1, WalkArrives DEF FindFrom
<1>5. Len(names) = 0 => FindFrom(at, names) = at
  BY <1>1, WalkSteps DEF FindFrom, Step
<1> QED
  BY <1>3, <1>4, <1>5
-----------------------------------------------------------------------------
(* The first name of a path and the others.                                *)
LEMMA HeadAndTail ==
  ASSUME NEW path \in Seq(AnyName), path # <<>>
  PROVE  /\ Len(path) \in Nat \ {0} /\ Head(path) = path[1] /\ Head(path) \in AnyName
         /\ Tail(path) \in Seq(AnyName) /\ Len(Tail(path)) = Len(path) - 1
         /\ \A i \in 1..Len(path) - 1 : Tail(path)[i] = path[i + 1]
         /\ Tail(path) = SubSeq(path, 2, Len(path))
         /\ <<Head(path)>> \o Tail(path) = path
<1>1. Len(path) \in Nat \ {0} /\ Len(path) \in Nat /\ 1 \in 1..Len(path)
  BY EmptySeq
<1>2. Head(path) = path[1] /\ Head(path) \in AnyName
  BY <1>1, ElementOfSeq
<1>3. PICK rest : rest = Tail(path)
  OBVIOUS
<1>4. /\ rest \in Seq(AnyName) /\ Len(rest) = Len(path) - 1
      /\ \A i \in 1..Len(path) - 1 : rest[i] = path[i + 1]
  BY <1>1, <1>3, HeadTailProperties
<1>5. rest = SubSeq(path, 2, Len(path))
  <2>1. PICK s : s = SubSeq(path, 2, Len(path))
    OBVIOUS
  <2>2. \A i \in 2..Len(path) : path[i] \in AnyName
    BY <1>1, ElementOfSeq
  <2>3. PICK n \in Nat \ {0} : n = Len(path)
    BY <1>1
  <2>4. /\ SubSeq(path, 2, n) \in Seq(AnyName)
        /\ Len(SubSeq(path, 2, n)) = IF 2 <= n THEN n - 2 + 1 ELSE 0
        /\ \A i \in 1..n - 2 + 1 : SubSeq(path, 2, n)[i] = path[2 + i - 1]
    BY <2>2, <2>3, SubSeqProperties
  <2>5. s \in Seq(AnyName) /\ Len(s) = n - 1
    BY <2>1, <2>3, <2>4
  <2>6. ASSUME NEW i \in 1..n - 1 PROVE s[i] = path[i + 1]
    BY <2>1, <2>3, <2>4
  <2> QED
    BY <1>4, <2>1, <2>3, <2>5, <2>6, SeqEqual
<1>6. <<Head(path)>> \o rest = path
  <2>1. PICK h \in Seq(AnyName) : h = <<Head(path)>> /\ Len(h) = 1 /\ h[1] = path[1]
    <3>1. PICK x \in AnyName : x = Head(path)
      BY <1>2
    <3>2. <<x>> \in Seq(AnyName) /\ Len(<<x>>) = 1 /\ <<x>>[1] = x
      OBVIOUS
    <3> QED
      BY <1>2, <3>1, <3>2
  <2>2. /\ h \o rest \in Seq(AnyName) /\ Len(h \o rest) = Len(h) + Len(rest)
        /\ \A i \in 1..Len(h) + Len(rest) :
             (h \o rest)[i] = IF i <= Len(h) THEN h[i] ELSE rest[i - Len(h)]
    BY <1>4, ConcatProperties
  <2>3. PICK s : s = h \o rest
    OBVIOUS
  <2>4. s \in Seq(AnyName) /\ Len(s) = Len(path)
    BY <1>1, <1>4, <2>1, <2>2, <2>3
  <2>5. ASSUME NEW i \in 1..Len(path) PROVE s[i] = path[i]
    BY <1>1, <1>4, <2>1, <2>2, <2>3
  <2> QED
    BY <2>1, <2>3, <2>4, <2>5, SeqEqual
<1> QED
  BY <1>1, <1>2, <1>3, <1>4, <1>5, <1>6

(* A node under the name of the reserved memory is below a region.         *)
LEMMA UnderReserved ==
  ASSUME doc \in Docs, NEW path \in doc.tree.nodes, path[1] = Reserved
  PROVE  Len(path) > 2 /\ path[2] \in doc.tree.regions
<1> DEFINE Below(p) == Len(p) > 2 /\ p[2] \in doc.tree.regions
           T == {n \in Nat : \E p \in doc.tree.nodes :
                               Len(p) = n /\ p[1] = Reserved /\ ~ Below(p)}
<1>1. ASSUME T # {} PROVE FALSE
  <2>1. PICK n \in T : \A m \in T : n <= m
    <3>1. T \subseteq Nat
      OBVIOUS
    <3> HIDE DEF T
    <3> QED
      BY <1>1, <3>1, LeastNatural
  <2>2. PICK p \in doc.tree.nodes : Len(p) = n /\ p[1] = Reserved /\ ~ Below(p)
    OBVIOUS
  <2>3. p \in Seq(AnyName) /\ p # <<>> /\ p # <<Reserved>>
    BY TreeFacts
  <2>4. PICK l \in Nat : l = Len(p)
    BY <2>3, LenProperties
  <2>5. l # 0
    BY <2>3, <2>4, EmptySeq
  <2>6. l # 1
    <3>1. PICK o : o = <<Reserved>>
      OBVIOUS
    <3>2. o \in Seq(AnyName) /\ Len(o) = 1 /\ o[1] = Reserved
      BY <3>1, TreeFacts
    <3> QED
      BY <2>2, <2>3, <2>4, <3>1, <3>2, SeqEqual
  <2>7. PICK f : f = Front(p)
    OBVIOUS
  <2>8. /\ f \in Seq(AnyName) /\ Len(f) = Len(p) - 1
        /\ \A i \in 1..Len(p) - 1 : f[i] = p[i]
    BY <2>3, <2>7, FrontProperties
  <2>9. Len(f) = l - 1 /\ l > 1 /\ f[1] = Reserved
    BY <2>2, <2>4, <2>5, <2>6, <2>8
  <2>10. CASE f \in doc.tree.nodes
    <3>1. l - 1 \in Nat /\ ~ (n <= l - 1)
      BY <2>2, <2>4, <2>5
    <3>2. l - 1 \notin T
      BY <2>1, <3>1
    <3>3. Below(f)
      BY <2>9, <2>10, <3>1, <3>2
    <3>4. l - 1 > 2 /\ 2 \in 1..l - 1
      BY <2>9, <3>3
    <3>5. f[2] = p[2]
      BY <2>4, <2>8, <3>4
    <3> QED
      BY <2>2, <2>4, <3>3, <3>4, <3>5
  <2>11. CASE f \notin doc.tree.nodes
    <3>1. PICK r \in doc.tree.regions : f = <<Reserved, r>>
      BY <2>4, <2>7, <2>9, <2>11, TreeFacts
    <3>2. Len(f) = 2 /\ f[2] = r
      BY <3>1
    <3>3. PICK m : m = Len(f)
      OBVIOUS
    <3>4. m = 2 /\ m = l - 1
      BY <2>9, <3>2, <3>3
    <3>5. l > 2 /\ 2 \in 1..l - 1
      BY <3>4
    <3> QED
      BY <2>2, <2>4, <2>8, <3>1, <3>2, <3>5
  <2> QED
    BY <2>10, <2>11
<1>2. Len(path) \in Nat
  BY TreeFacts, LenProperties
<1> QED
  BY <1>1, <1>2
-----------------------------------------------------------------------------
(* The path with its first name replaced by what a map has for it.         *)
LEMMA FullPathIs ==
  ASSUME NEW map, NEW path \in Seq(AnyName)
  PROVE  FullPath(path, map) = IF path # <<>> /\ path[1] \in DOMAIN map
                               THEN map[path[1]] \o Tail(path) ELSE path
<1>1. path # <<>> => Tail(path) = SubSeq(path, 2, Len(path))
  BY HeadAndTail
<1> QED
  BY <1>1 DEF FullPath

(* Maps of names to device nodes.                                          *)
LeadsToNodes(map) ==
  DOMAIN map \subseteq Names /\ \A name \in DOMAIN map : map[name] \in doc.tree.nodes

(* A lookup through an alias.                                              *)
LEMMA FindByAlias ==
  ASSUME doc \in Docs, LeadsToNodes(aliases), NEW path \in Seq(AnyName), path # <<>>,
         path[1] \in DOMAIN aliases
  PROVE  LET full == aliases[path[1]] \o Tail(path)
         IN  IF full \in doc.tree.nodes THEN FindStr(path) = full
             ELSE FindStr(path) \in Stopped
<1>1. PICK at \in doc.tree.nodes : at = aliases[path[1]] /\ path[1] \in Names
  BY DEF LeadsToNodes
<1>2. at \in Seq(AnyName) /\ at # <<>> /\ at # <<Reserved>>
  BY TreeFacts
<1>3. PICK rest \in Seq(AnyName) : rest = Tail(path)
  BY HeadAndTail
<1>4. FindStr(path) = IF rest # <<>> /\ Head(rest) \notin Names THEN Panic
                      ELSE FindFrom(at, rest)
  BY <1>1, <1>3, HeadAndTail DEF FindStr, Find
<1>5. Len(rest) \in Nat /\ Len(at) \in Nat /\ (Len(rest) = 0 <=> rest = <<>>)
      /\ Len(at) # 0
  BY <1>2, <1>3, EmptySeq, LenProperties
<1>6. StaysOff(at, rest)
  <2>1. ASSUME Len(at) = 1, at[1] = Reserved PROVE FALSE
    <3>1. PICK o : o = <<Reserved>>
      OBVIOUS
    <3>2. o \in Seq(AnyName) /\ Len(o) = 1 /\ o[1] = Reserved
      BY <3>1, TreeFacts
    <3> QED
      BY <1>2, <2>1, <3>1, <3>2, SeqEqual
  <2> QED
    BY <1>5, <2>1 DEF StaysOff
<1>7. CASE at \o rest \in doc.tree.nodes
  <2>1. rest # <<>> => Head(rest) \in Names
    <3>1. SUFFICES ASSUME rest # <<>> PROVE Head(rest) \in Names
      OBVIOUS
    <3>2. Len(rest) \in Nat \ {0} /\ Head(rest) = rest[1]
      BY <3>1, HeadAndTail
    <3>3. PICK s \in Seq(Names) : s = at \o rest
      BY <1>7, TreeFacts
    <3>4. Len(s) = Len(at) + Len(rest) /\ \A i \in 1..Len(at) + Len(rest) :
            s[i] = IF i <= Len(at) THEN at[i] ELSE rest[i - Len(at)]
      BY <1>2, <3>3, ConcatProperties
    <3>5. Len(at) + 1 \in 1..Len(at) + Len(rest) /\ ~ (Len(at) + 1 <= Len(at))
          /\ Len(at) + 1 - Len(at) = 1
      BY <1>5, <3>2
    <3>6. s[Len(at) + 1] = rest[1]
      BY <3>4, <3>5
    <3>7. s[Len(at) + 1] \in Names
      BY <3>4, <3>5, ElementOfSeq
    <3> QED
      BY <3>2, <3>6, <3>7
  <2>2. FindFrom(at, rest) = at \o rest
    BY <1>2, <1>6, <1>7, FindFromIs
  <2> QED
    BY <1>1, <1>3, <1>4, <1>7, <2>1, <2>2
<1>8. CASE at \o rest \notin doc.tree.nodes
  <2>1. Len(rest) # 0
    <3>1. SUFFICES ASSUME Len(rest) = 0 PROVE FALSE
      OBVIOUS
    <3>2. rest = <<>>
      BY <1>5, <3>1
    <3>3. at \o <<>> = at
      BY <1>2, ConcatEmptySeq
    <3> QED
      BY <1>8, <3>2, <3>3
  <2>2. FindFrom(at, rest) \in Stopped
    BY <1>2, <1>8, <2>1, FindFromIs
  <2> QED
    BY <1>1, <1>3, <1>4, <1>8, <2>2 DEF Stopped
<1> QED
  BY <1>1, <1>3, <1>7, <1>8

(* A lookup under `/reserved-memory`.                                      *)
LEMMA FindInReserved ==
  ASSUME doc \in Docs, NEW path \in Seq(AnyName), path # <<>>, path[1] = Reserved
  PROVE  IF path \in doc.tree.nodes THEN FindReserved(Tail(path)) = path
         ELSE FindReserved(Tail(path)) \in Stopped
<1>1. PICK rest \in Seq(AnyName) : rest = Tail(path)
  BY HeadAndTail
<1>2. Len(path) \in Nat \ {0} /\ Len(rest) = Len(path) - 1
      /\ \A i \in 1..Len(path) - 1 : rest[i] = path[i + 1]
  BY <1>1, HeadAndTail
<1>3. CASE rest = <<>> \/ Head(rest) \notin doc.tree.regions
  <2>1. ASSUME path \in doc.tree.nodes PROVE FALSE
    <3>1. Len(path) > 2 /\ path[2] \in doc.tree.regions
      BY <2>1, UnderReserved
    <3>2. rest # <<>>
      <4>1. PICK l \in Nat : l = Len(path)
        BY <1>2
      <4>2. Len(rest) # 0
        BY <1>2, <3>1, <4>1
      <4> QED
        BY <4>2
    <3>3. Head(rest) = rest[1]
      BY <1>1, <3>2, HeadAndTail
    <3>4. rest[1] = path[2]
      BY <1>2, <3>1
    <3> QED
      BY <1>3, <3>1, <3>2, <3>3, <3>4
  <2>2. FindReserved(rest) \in Stopped
    BY <1>3 DEF FindReserved, Stopped
  <2> QED
    BY <1>1, <2>1, <2>2
<1>4. CASE rest # <<>> /\ Head(rest) \in doc.tree.regions
  <2>1. PICK names \in Seq(AnyName) : names = Tail(rest)
    BY <1>1, <1>4, HeadAndTail
  <2>2. PICK region \in Names : region = Head(rest)
    BY <1>4, TreeFacts
  <2>3. rest = <<region>> \o names
    BY <1>1, <1>4, <2>1, <2>2, HeadAndTail
  <2>4. path = <<Reserved>> \o rest
    BY <1>1, HeadAndTail
  <2>5. PICK at : at = <<Reserved, region>>
    OBVIOUS
  <2>6. at \in Seq(AnyName) /\ Len(at) = 2
    BY <2>2, <2>5, TreeFacts
  <2>7. at \o names = path
    <3>1. PICK r \in Seq(AnyName), g \in Seq(AnyName) : r = <<Reserved>> /\ g = <<region>>
      <4>1. <<Reserved>> \in Seq(AnyName) /\ <<region>> \in Seq(AnyName)
        BY <2>2, TreeFacts
      <4> QED
        BY <4>1
    <3>2. r \o (g \o names) = (r \o g) \o names
      BY <2>1, <3>1, ConcatAssociative
    <3>3. r \o g = at
      <4>1. /\ r \o g \in Seq(AnyName) /\ Len(r \o g) = Len(r) + Len(g)
            /\ \A i \in 1..Len(r) + Len(g) :
                 (r \o g)[i] = IF i <= Len(r) THEN r[i] ELSE g[i - Len(r)]
        BY <3>1, ConcatProperties
      <4>2. Len(r) = 1 /\ Len(g) = 1 /\ r[1] = Reserved /\ g[1] = region
        BY <3>1
      <4>3. at[1] = Reserved /\ at[2] = region
        BY <2>5
      <4>4. PICK s \in Seq(AnyName) : s = r \o g
        BY <4>1
      <4>5. Len(s) = 2 /\ s[1] = at[1] /\ s[2] = at[2]
        BY <4>1, <4>2, <4>3, <4>4
      <4>6. \A i \in 1..Len(s) : s[i] = at[i]
        BY <4>5
      <4> QED
        BY <2>6, <4>4, <4>5, <4>6, SeqEqual
    <3> QED
      BY <2>3, <2>4, <3>1, <3>2, <3>3
  <2>8. FindReserved(rest) = IF names = <<>> THEN Panic ELSE FindFrom(at, names)
    BY <1>4, <2>1, <2>2, <2>5 DEF FindReserved
  <2>9. Len(names) \in Nat /\ (Len(names) = 0 <=> names = <<>>)
    BY <2>1, EmptySeq, LenProperties
  <2>10. CASE names = <<>>
    <3>1. Len(path) = 2
      <4>1. at \o <<>> = at
        BY <2>6, ConcatEmptySeq
      <4> QED
        BY <2>6, <2>7, <2>10, <4>1
    <3>2. path \notin doc.tree.nodes
      <4>1. ~ (2 > 2)
        OBVIOUS
      <4> QED
        BY <3>1, <4>1, UnderReserved
    <3> QED
      BY <1>1, <2>8, <2>10, <3>2, TreeFacts
  <2>11. CASE names # <<>>
    <3>1. StaysOff(at, names)
      BY <2>6 DEF StaysOff
    <3>2. IF path \in doc.tree.nodes THEN FindFrom(at, names) = path
          ELSE FindFrom(at, names) \in Stopped
      BY <2>1, <2>6, <2>7, <2>9, <2>11, <3>1, FindFromIs
    <3> QED
      BY <1>1, <2>8, <2>11, <3>2
  <2> QED
    BY <2>10, <2>11
<1> QED
  BY <1>3, <1>4

(* A lookup of a path whose first name is no alias.                        *)
LEMMA FindByPath ==
  ASSUME doc \in Docs, LeadsToNodes(aliases), NEW path \in Seq(AnyName), path # <<>>,
         path[1] \notin DOMAIN aliases
  PROVE  IF path \in doc.tree.nodes THEN FindStr(path) = path ELSE FindStr(path) \in Stopped
<1>1. /\ Head(path) = path[1] /\ Len(path) \in Nat \ {0}
      /\ <<Head(path)>> \o Tail(path) = path
  BY HeadAndTail
<1>2. PICK rest \in Seq(AnyName) : rest = Tail(path)
  BY HeadAndTail
<1>3. Len(rest) = Len(path) - 1 /\ \A i \in 1..Len(path) - 1 : rest[i] = path[i + 1]
  BY <1>2, HeadAndTail
<1>4. FindStr(path) = IF path[1] \notin Names THEN Panic
                      ELSE IF rest # <<>> /\ Head(rest) \notin Names THEN Panic
                      ELSE IF path[1] = Reserved THEN FindReserved(rest)
                      ELSE FindFrom(<<>>, path)
  BY <1>1, <1>2 DEF FindStr, Find
<1>5. ASSUME path \in doc.tree.nodes
      PROVE  path[1] \in Names /\ (rest # <<>> => Head(rest) \in Names)
  <2>1. path \in Seq(Names) /\ 1 \in 1..Len(path)
    BY <1>1, <1>5, TreeFacts
  <2>2. path[1] \in Names
    BY <2>1, ElementOfSeq
  <2>3. ASSUME rest # <<>> PROVE Head(rest) \in Names
    <3>1. Head(rest) = rest[1] /\ Len(rest) \in Nat \ {0}
      BY <1>2, <2>3, HeadAndTail
    <3>2. 2 \in 1..Len(path) /\ rest[1] = path[2]
      BY <1>1, <1>3, <3>1
    <3> QED
      BY <2>1, <3>1, <3>2, ElementOfSeq
  <2> QED
    BY <2>2, <2>3
<1>6. CASE path[1] = Reserved
  <2>1. IF path \in doc.tree.nodes THEN FindReserved(rest) = path
        ELSE FindReserved(rest) \in Stopped
    BY <1>2, <1>6, FindInReserved
  <2> QED
    BY <1>4, <1>5, <1>6, <2>1 DEF Stopped
<1>7. CASE path[1] # Reserved
  <2>1. PICK at : at = <<>>
    OBVIOUS
  <2>2. at \in Seq(AnyName) /\ Len(at) = 0 /\ at \o path = path
    BY <2>1, ConcatEmptySeq
  <2>3. StaysOff(at, path)
    BY <1>7, <2>2 DEF StaysOff
  <2>4. IF path \in doc.tree.nodes THEN FindFrom(<<>>, path) = path
        ELSE FindFrom(<<>>, path) \in Stopped
    BY <1>1, <2>1, <2>2, <2>3, FindFromIs
  <2> QED
    BY <1>4, <1>5, <1>7, <2>4 DEF Stopped
<1> QED
  BY <1>6, <1>7

(* The tree's lookup, and what it makes of a path, whatever the aliases:   *)
(* the node at the full path if there is one, and else none.               *)
LEMMA FindStrFollows ==
  ASSUME doc \in Docs, LeadsToNodes(aliases), NEW path \in Seq(AnyName)
  PROVE  IF FullPath(path, aliases) \in doc.tree.nodes
         THEN FindStr(path) = FullPath(path, aliases)
         ELSE FindStr(path) \in Stopped
<1>1. FullPath(path, aliases) = IF path # <<>> /\ path[1] \in DOMAIN aliases
                                THEN aliases[path[1]] \o Tail(path) ELSE path
  BY FullPathIs
<1>2. CASE path = <<>>
  BY <1>1, <1>2, TreeFacts DEF FindStr, Stopped
<1>3. CASE path # <<>> /\ path[1] \in DOMAIN aliases
  BY <1>1, <1>3, FindByAlias
<1>4. CASE path # <<>> /\ path[1] \notin DOMAIN aliases
  BY <1>1, <1>4, FindByPath
<1> QED
  BY <1>2, <1>3, <1>4

(* The value of a property.                                                *)
LEMMA NodeAtFollows ==
  ASSUME doc \in Docs, LeadsToNodes(aliases), NEW value \in Strings \cup {None}
  PROVE  /\ value \in {None, Invalid} => NodeAt(value) = None
         /\ value \notin {None, Invalid} =>
              IF Leads(value, aliases)
              THEN /\ NodeAt(value) = FullPath(value, aliases)
                   /\ NodeAt(value) \in doc.tree.nodes /\ NodeAt(value) \notin Stopped
              ELSE NodeAt(value) \in Stopped
<1>1. CASE value \in {None, Invalid}
  BY <1>1 DEF NodeAt
<1>2. CASE value \notin {None, Invalid}
  <2>1. value \in Seq(AnyName)
    BY <1>2 DEF Strings
  <2>2. NodeAt(value) = FindStr(value)
    BY <1>2 DEF NodeAt
  <2>3. Leads(value, aliases) <=> FullPath(value, aliases) \in doc.tree.nodes
    BY <1>2 DEF Leads
  <2>4. \A n \in doc.tree.nodes : n \notin Stopped
    BY TreeFacts
  <2> QED
    BY <1>2, <2>1, <2>2, <2>3, <2>4, FindStrFollows
<1> QED
  BY <1>1, <1>2
-----------------------------------------------------------------------------
(***************************************************************************)
(* The inductive invariant.  While a list is read, the new entries are     *)
(* those read so far, each at the full path that the aliases in force give *)
(* it, and nothing is said of an order or of two entries of one name but   *)
(* that two of the list have that name; the client has looked up nothing   *)
(* yet until the tree is ready.                                            *)
(***************************************************************************)
Pairs == [name : Names, node : doc.tree.nodes]

Shape ==
  /\ doc \in Docs /\ phase \in {"aliases", "symbols", "chosen", "ready"}
  /\ read \in 0..Len(List)
  /\ fresh \in Seq(Pairs) /\ stored \in Seq(Pairs) /\ LeadsToNodes(aliases)
  /\ console \in [stdout : doc.tree.nodes \cup {None}, stdin : doc.tree.nodes \cup {None}]
  /\ last \in [path : Paths \cup {<<>>}, node : doc.tree.nodes \cup {None, Panic}]
  /\ out \in Errors \cup {"parsing", "Ok"}

Unasked == [path |-> <<>>, node |-> None]

Stage ==
  IF phase = "ready" THEN out \in {"Ok", "panic"} ELSE out # "Ok" /\ last = Unasked

UsedBy(list, n) == {i \in 1..n : list[i].name \in Names /\ list[i].path # Invalid}

AtFullPath(entry, map) == [name |-> entry.name, node |-> FullPath(entry.path, map)]

(* The entries of a list that were made of its first n.                    *)
AreOf(entries, list, n, map) ==
  /\ \A k \in 1..Len(entries) : \E i \in UsedBy(list, n) : entries[k] = AtFullPath(list[i], map)
  /\ \A i \in UsedBy(list, n) : \E k \in 1..Len(entries) : entries[k] = AtFullPath(list[i], map)
  /\ \A k, l \in 1..Len(entries) : k # l /\ entries[k].name = entries[l].name =>
       \E i, j \in UsedBy(list, n) : i # j /\ {list[i].name, list[j].name} = {entries[k].name}

Gathered ==
  /\ phase = "aliases" => aliases = <<>>
  /\ phase \in {"aliases", "symbols"} => AreOf(fresh, List, read, aliases)
  /\ phase = "symbols" => AreOf(stored, doc.aliases, Len(doc.aliases), <<>>)

Inv ==
  /\ Shape /\ Stage /\ Gathered /\ AliasesAreFullPaths /\ LookupsFollowThePath
  /\ ConsoleIsWhatChosenSays /\ VerdictIsExact

LEMMA ShapeIsType == Shape => TypeOK
<1> SUFFICES ASSUME Shape PROVE TypeOK
  OBVIOUS
<1>1. DOMAIN aliases \subseteq Names /\ Range(aliases) \subseteq doc.tree.nodes
  BY DEF Shape, LeadsToNodes, Range
<1>2. {fresh, stored} \subseteq Seq([name : Names, node : doc.tree.nodes])
  BY DEF Shape, Pairs
<1> QED
  BY <1>1, <1>2 DEF Shape, TypeOK

(* The lists of a document.                                                *)
LEMMA ListFacts ==
  ASSUME doc \in Docs, NEW list, list \in {doc.aliases, doc.symbols}
  PROVE  /\ list \in Entries /\ Len(list) \in Nat /\ DOMAIN list = 1..Len(list)
         /\ \A i \in 1..Len(list) : list[i].name \in AnyName /\ list[i].path \in Strings
<1>1. list \in Lists
  BY DEF Docs
<1>2. list \in Entries
  BY <1>1, DocsAssumption
<1>3. Len(list) \in Nat /\ DOMAIN list = 1..Len(list)
  BY <1>2, LenProperties DEF Entries
<1>4. ASSUME NEW i \in 1..Len(list)
      PROVE  list[i].name \in AnyName /\ list[i].path \in Strings
  <2> DEFINE Pair == [name : AnyName, path : Strings]
  <2>1. list \in Seq(Pair)
    BY <1>2 DEF Entries
  <2> HIDE DEF Pair
  <2>2. list[i] \in Pair
    BY <2>1, ElementOfSeq
  <2> QED
    BY <2>2 DEF Pair
<1> QED
  BY <1>2, <1>3, <1>4

(* The entries of a list that are used are those at the indexes used.      *)
LEMMA UsedIs ==
  ASSUME doc \in Docs, NEW list, list \in {doc.aliases, doc.symbols}, NEW e
  PROVE  e \in Used(list) <=> \E i \in UsedBy(list, Len(list)) : e = list[i]
<1>1. DOMAIN list = 1..Len(list)
  BY ListFacts
<1> QED
  BY <1>1 DEF Used, UsedBy, ToSet

(* The list being read.                                                    *)
LEMMA ListIs ==
  ASSUME phase \in {"aliases", "symbols", "chosen", "ready"}
  PROVE  /\ phase = "aliases" => List = doc.aliases
         /\ phase = "symbols" => List = doc.symbols
         /\ phase \notin {"aliases", "symbols"} => List = <<>> /\ Len(List) = 0
BY DEF List

(* Without aliases a path stands for itself.                               *)
LEMMA NoAliases ==
  ASSUME NEW path PROVE FullPath(path, <<>>) = path
BY DEF FullPath

(* Before the first lookup nothing has been found.                         *)
LEMMA NothingAsked ==
  ASSUME doc \in Docs, last = Unasked, NEW map PROVE ~ Leads(last.path, map) /\ last.node = None
<1>1. FullPath(last.path, map) = <<>> /\ last.node = None
  BY DEF Unasked, FullPath
<1>2. <<>> \notin doc.tree.nodes
  BY TreeFacts
<1> QED
  BY <1>1, <1>2 DEF Leads

LEMMA InitInv == Init => Inv
<1> SUFFICES ASSUME Init PROVE Inv
  OBVIOUS
<1>1. /\ doc \in Docs /\ phase = "aliases" /\ read = 0 /\ fresh = <<>> /\ stored = <<>>
      /\ aliases = <<>> /\ console = Nowhere /\ last = Unasked /\ out = "parsing"
  BY DEF Init, Unasked
<1>2. List = doc.aliases /\ Len(List) \in Nat
  BY <1>1, ListIs, ListFacts
<1>3. DOMAIN aliases = {} /\ <<>> \in Seq(Pairs)
  BY <1>1
<1>4. Shape
  BY <1>1, <1>2, <1>3 DEF Shape, LeadsToNodes, Unasked, Nowhere
<1>5. Stage
  BY <1>1 DEF Stage
<1>6. Gathered
  <2>1. UsedBy(List, read) = {} /\ 1..Len(fresh) = {}
    BY <1>1 DEF UsedBy
  <2>2. AreOf(fresh, List, read, aliases)
    BY <2>1 DEF AreOf
  <2> QED
    BY <1>1, <2>2 DEF Gathered
<1>7. LookupsFollowThePath
  BY <1>1, NothingAsked DEF LookupsFollowThePath
<1>8. VerdictIsExact
  BY <1>1 DEF VerdictIsExact, AllLead
<1>9. AliasesAreFullPaths /\ ConsoleIsWhatChosenSays
  BY <1>1 DEF AliasesAreFullPaths, ConsoleIsWhatChosenSays
<1> QED
  BY <1>4, <1>5, <1>6, <1>7, <1>8, <1>9 DEF Inv
-----------------------------------------------------------------------------
(* What is known of the entry that is read next.                           *)
LEMMA NextEntry ==
  ASSUME Inv, phase \in {"aliases", "symbols"}, read < Len(List)
  PROVE  LET entry == List[read + 1]
             node  == NodeAt(entry.path)
         IN  /\ read \in Nat /\ Len(List) \in Nat /\ read + 1 \in 1..Len(List)
             /\ entry.name \in AnyName /\ entry.path \in Strings
             /\ entry.path # Invalid =>
                  IF Leads(entry.path, aliases)
                  THEN /\ node = FullPath(entry.path, aliases) /\ node \in doc.tree.nodes
                       /\ node \notin Stopped
                  ELSE node \in Stopped
<1>1. doc \in Docs /\ LeadsToNodes(aliases) /\ read \in 0..Len(List)
  BY DEF Inv, Shape
<1>2. List \in {doc.aliases, doc.symbols}
  BY ListIs
<1>3. PICK list : list = List
  OBVIOUS
<1>4. /\ Len(list) \in Nat
      /\ \A i \in 1..Len(list) : list[i].name \in AnyName /\ list[i].path \in Strings
  BY <1>1, <1>2, <1>3, ListFacts
<1>5. read \in Nat /\ read + 1 \in 1..Len(list)
  BY <1>1, <1>3, <1>4
<1>6. PICK entry : entry = list[read + 1]
  OBVIOUS
<1>7. entry.name \in AnyName /\ entry.path \in Strings
  BY <1>4, <1>5, <1>6
<1>8. entry.path # Invalid => entry.path \notin {None, Invalid}
  BY <1>7, MarkersAssumption DEF Strings
<1>9. entry.path # Invalid =>
        IF Leads(entry.path, aliases)
        THEN /\ NodeAt(entry.path) = FullPath(entry.path, aliases)
             /\ NodeAt(entry.path) \in doc.tree.nodes /\ NodeAt(entry.path) \notin Stopped
        ELSE NodeAt(entry.path) \in Stopped
  BY <1>1, <1>7, <1>8, NodeAtFollows
<1> QED
  BY <1>3, <1>4, <1>5, <1>6, <1>7, <1>9

(* The verdict while a list is read.                                       *)
LEMMA VerdictOfList ==
  ASSUME phase \in {"aliases", "symbols"}, phase = "aliases" => aliases = <<>>
  PROVE  VerdictIsExact <=>
           /\ out = "parsing" <=>
                AllLead(List, IF out = "parsing" THEN read ELSE read + 1, aliases)
           /\ phase = "symbols" => AllLead(doc.aliases, Len(doc.aliases), <<>>)
<1>1. CASE phase = "aliases"
  BY <1>1, ListIs DEF VerdictIsExact
<1>2. CASE phase = "symbols"
  BY <1>2, ListIs DEF VerdictIsExact
<1> QED
  BY <1>1, <1>2

LEMMA AtFullPathIs ==
  ASSUME NEW entry, NEW map
  PROVE  /\ AtFullPath(entry, map).name = entry.name
         /\ AtFullPath(entry, map).node = FullPath(entry.path, map)
BY DEF AtFullPath

(* One more entry of a list.                                               *)
LEMMA OneMore ==
  ASSUME NEW list, NEW n \in Nat, NEW map
  PROVE  /\ AllLead(list, n + 1, map) <=>
              /\ AllLead(list, n, map)
              /\ list[n + 1].name \notin Commas
              /\ list[n + 1].path = Invalid \/ Leads(list[n + 1].path, map)
         /\ UsedBy(list, n + 1) =
              UsedBy(list, n) \cup IF list[n + 1].name \in Names /\ list[n + 1].path # Invalid
                                   THEN {n + 1} ELSE {}
<1>1. 1..n + 1 = 1..n \cup {n + 1}
  OBVIOUS
<1>2. AllLead(list, n + 1, map) <=>
        /\ AllLead(list, n, map)
        /\ list[n + 1].name \notin Commas
        /\ list[n + 1].path = Invalid \/ Leads(list[n + 1].path, map)
  BY <1>1 DEF AllLead
<1>3. ASSUME NEW i
      PROVE  i \in UsedBy(list, n + 1) <=>
               i \in UsedBy(list, n) \cup
                       IF list[n + 1].name \in Names /\ list[n + 1].path # Invalid
                       THEN {n + 1} ELSE {}
  BY <1>1 DEF UsedBy
<1> QED
  BY <1>2, <1>3

(* An entry that is used adds its name and node, one that is not nothing.  *)
LEMMA OneMoreIsOf ==
  ASSUME NEW list, NEW n \in Nat, NEW map, NEW P, NEW entries \in Seq(P),
         AreOf(entries, list, n, map), AtFullPath(list[n + 1], map) \in P
  PROVE  AreOf(IF list[n + 1].name \in Names /\ list[n + 1].path # Invalid
               THEN Append(entries, AtFullPath(list[n + 1], map)) ELSE entries,
               list, n + 1, map)
<1>1. CASE list[n + 1].name \in Names /\ list[n + 1].path # Invalid
  <2>1. UsedBy(list, n + 1) = UsedBy(list, n) \cup {n + 1}
    BY <1>1, OneMore
  <2>2. PICK more, made : made = AtFullPath(list[n + 1], map) /\ more = Append(entries, made)
    OBVIOUS
  <2>3. PICK len \in Nat : len = Len(entries)
    BY LenProperties
  <2>4. /\ Len(more) = len + 1 /\ more[len + 1] = made
        /\ \A k \in 1..len : more[k] = entries[k]
    BY <2>2, <2>3, AppendProperties
  <2>5. 1..len + 1 = 1..len \cup {len + 1}
    OBVIOUS
  <2>6. \A i \in UsedBy(list, n) : i # n + 1
    BY DEF UsedBy
  <2>7. /\ \A k \in 1..len : \E i \in UsedBy(list, n) : entries[k] = AtFullPath(list[i], map)
        /\ \A i \in UsedBy(list, n) : \E k \in 1..len : entries[k] = AtFullPath(list[i], map)
        /\ \A k, l \in 1..len : k # l /\ entries[k].name = entries[l].name =>
             \E i, j \in UsedBy(list, n) :
               i # j /\ {list[i].name, list[j].name} = {entries[k].name}
    BY <2>3 DEF AreOf
  <2>8. \A k \in 1..len + 1 :
          \E i \in UsedBy(list, n + 1) : more[k] = AtFullPath(list[i], map)
    <3>1. \A k \in 1..len : \E i \in UsedBy(list, n + 1) : more[k] = AtFullPath(list[i], map)
      BY <2>1, <2>4, <2>7
    <3>2. n + 1 \in UsedBy(list, n + 1) /\ more[len + 1] = AtFullPath(list[n + 1], map)
      BY <2>1, <2>2, <2>4
    <3> QED
      BY <2>5, <3>1, <3>2
  <2>9. \A i \in UsedBy(list, n + 1) :
          \E k \in 1..len + 1 : more[k] = AtFullPath(list[i], map)
    BY <2>1, <2>2, <2>4, <2>5, <2>7
  <2>10. ASSUME NEW k \in 1..len, more[k].name = made.name
         PROVE  \E i, j \in UsedBy(list, n + 1) :
                  i # j /\ {list[i].name, list[j].name} = {made.name}
    <3>1. PICK i \in UsedBy(list, n) : more[k] = AtFullPath(list[i], map)
      BY <2>4, <2>7
    <3>2. list[i].name = more[k].name /\ list[n + 1].name = made.name
      BY <2>2, <3>1, AtFullPathIs
    <3>3. i \in UsedBy(list, n + 1) /\ n + 1 \in UsedBy(list, n + 1) /\ i # n + 1
      BY <2>1, <2>6
    <3>4. {list[i].name, list[n + 1].name} = {made.name}
      BY <2>10, <3>2
    <3> QED
      BY <3>3, <3>4
  <2>11. ASSUME NEW k \in 1..len + 1, NEW l \in 1..len + 1, k # l, more[k].name = more[l].name
         PROVE  \E i, j \in UsedBy(list, n + 1) :
                  i # j /\ {list[i].name, list[j].name} = {more[k].name}
    <3>1. CASE k = len + 1
      <4>1. l \in 1..len
        BY <2>5, <2>11, <3>1
      <4> QED
        BY <2>4, <2>10, <2>11, <3>1, <4>1
    <3>2. CASE l = len + 1
      <4>1. k \in 1..len
        BY <2>5, <2>11, <3>2
      <4> QED
        BY <2>4, <2>10, <2>11, <3>2, <4>1
    <3>3. CASE k \in 1..len /\ l \in 1..len
      <4>1. PICK i \in UsedBy(list, n), j \in UsedBy(list, n) :
              i # j /\ {list[i].name, list[j].name} = {entries[k].name}
        BY <2>4, <2>7, <2>11, <3>3
      <4> QED
        BY <2>1, <2>4, <3>3, <4>1
    <3> QED
      BY <2>5, <3>1, <3>2, <3>3
  <2>12. AreOf(more, list, n + 1, map)
    BY <2>4, <2>8, <2>9, <2>11 DEF AreOf
  <2> QED
    BY <1>1, <2>2, <2>12
<1>2. CASE ~ (list[n + 1].name \in Names /\ list[n + 1].path # Invalid)
  <2>1. UsedBy(list, n + 1) = UsedBy(list, n)
    BY <1>2, OneMore
  <2>2. AreOf(entries, list, n + 1, map)
    BY <2>1 DEF AreOf
  <2> QED
    BY <1>2, <2>2
<1> QED
  BY <1>1, <1>2

LEMMA ParseAliasKeeps ==
  ASSUME Inv, ParseAlias
  PROVE  Inv'
<1>1. out = "parsing" /\ read < Len(List) /\ phase \in {"aliases", "symbols"}
  <2>1. phase \in {"aliases", "symbols", "chosen", "ready"} /\ read \in 0..Len(List)
    BY DEF Inv, Shape
  <2> QED
    BY <2>1, ListIs DEF ParseAlias
<1>2. PICK list, entry, node :
        list = List /\ entry = list[read + 1] /\ node = NodeAt(entry.path)
  OBVIOUS
<1>3. /\ read \in Nat /\ Len(list) \in Nat /\ read + 1 \in 1..Len(list)
      /\ entry.name \in AnyName
      /\ entry.path # Invalid =>
           IF Leads(entry.path, aliases)
           THEN node = FullPath(entry.path, aliases) /\ node \in doc.tree.nodes
                /\ node \notin Stopped
           ELSE node \in Stopped
  BY <1>1, <1>2, NextEntry
<1>4. /\ doc' = doc /\ phase' = phase /\ aliases' = aliases /\ console' = console
      /\ last' = last /\ stored' = stored /\ List' = List
  BY DEF ParseAlias, List
<1>5. Shape /\ Stage /\ Gathered /\ VerdictIsExact
  BY DEF Inv
<1>6. AllLead(list, read, aliases)
      /\ (phase = "symbols" => AllLead(doc.aliases, Len(doc.aliases), <<>>))
  <2>1. phase = "aliases" => aliases = <<>>
    BY <1>5 DEF Gathered
  <2> QED
    BY <1>1, <1>2, <1>5, <2>1, VerdictOfList
<1>7. \/ /\ entry.name \in Commas \/ (entry.path # Invalid /\ node \in Stopped)
         /\ out' = "panic" /\ read' = read /\ fresh' = fresh
      \/ /\ entry.name \notin Commas
         /\ entry.path = Invalid \/ node \notin Stopped
         /\ fresh' = IF entry.name \in Names /\ entry.path # Invalid
                     THEN Append(fresh, [name |-> entry.name, node |-> node]) ELSE fresh
         /\ read' = read + 1 /\ out' = out
  BY <1>2 DEF ParseAlias, Stopped
<1>8. ASSUME read' # read, entry.name \in Names, entry.path # Invalid
      PROVE  /\ [name |-> entry.name, node |-> node] = AtFullPath(entry, aliases)
             /\ AtFullPath(entry, aliases) \in Pairs
             /\ fresh' = Append(fresh, AtFullPath(entry, aliases))
  <2>1. node = FullPath(entry.path, aliases) /\ node \in doc.tree.nodes
    BY <1>3, <1>7, <1>8
  <2> QED
    BY <1>3, <1>7, <1>8, <2>1 DEF AtFullPath, Pairs
<1>9. fresh' \in Seq(Pairs)
  <2>1. fresh \in Seq(Pairs)
    BY <1>5 DEF Shape
  <2>2. CASE fresh' = fresh
    BY <2>1, <2>2
  <2>3. CASE fresh' # fresh
    <3>1. read' # read /\ entry.name \in Names /\ entry.path # Invalid
      BY <1>3, <1>7, <2>3
    <3>2. AtFullPath(entry, aliases) \in Pairs /\ fresh' = Append(fresh, AtFullPath(entry, aliases))
      BY <1>8, <3>1
    <3>3. \A P : \A s \in Seq(P), x \in P : Append(s, x) \in Seq(P)
      BY AppendProperties
    <3> QED
      BY <2>1, <3>2, <3>3
  <2> QED
    BY <2>2, <2>3
<1>10. Shape'
  <2>1. fresh' \in Seq(Pairs)' /\ stored' \in Seq(Pairs)'
    BY <1>4, <1>5, <1>9 DEF Shape, Pairs
  <2>2. LeadsToNodes(aliases)'
    BY <1>4, <1>5 DEF LeadsToNodes, Shape
  <2>3. read' \in 0..Len(List)
    BY <1>2, <1>3, <1>7
  <2>4. out' \in Errors \cup {"parsing", "Ok"}
    BY <1>5, <1>7 DEF Shape, Errors
  <2> QED
    BY <1>4, <1>5, <2>1, <2>2, <2>3, <2>4 DEF Shape
<1>11. Stage'
  BY <1>1, <1>4, <1>5, <1>7 DEF Stage, Unasked
<1>12. Gathered'
  <2>1. AreOf(fresh, list, read, aliases)
    BY <1>1, <1>2, <1>5 DEF Gathered
  <2>2. AreOf(fresh', list, read', aliases)
    <3>1. CASE read' = read
      <4>1. fresh' = fresh
        BY <1>3, <1>7, <3>1
      <4> QED
        BY <2>1, <3>1, <4>1
    <3>2. CASE read' # read
      <4>1. fresh \in Seq(Pairs) /\ read' = read + 1
        BY <1>5, <1>7, <3>2 DEF Shape
      <4>2. CASE entry.name \in Names /\ entry.path # Invalid
        <5>1. AtFullPath(list[read + 1], aliases) \in Pairs
              /\ fresh' = Append(fresh, AtFullPath(list[read + 1], aliases))
          BY <1>2, <1>8, <3>2, <4>2
        <5> HIDE DEF Pairs
        <5> QED
          BY <1>2, <1>3, <2>1, <4>1, <4>2, <5>1, OneMoreIsOf
      <4>3. CASE ~ (entry.name \in Names /\ entry.path # Invalid)
        <5>1. UsedBy(list, read + 1) = UsedBy(list, read)
          <6>1. PICK n \in Nat : n = read
            BY <1>3
          <6>2. UsedBy(list, n + 1) =
                  UsedBy(list, n) \cup IF list[n + 1].name \in Names /\ list[n + 1].path # Invalid
                                       THEN {n + 1} ELSE {}
            BY OneMore
          <6> QED
            BY <1>2, <4>3, <6>1, <6>2
        <5>2. fresh' = fresh
          BY <1>3, <1>7, <3>2, <4>3
        <5>3. AreOf(fresh, list, read + 1, aliases)
          BY <2>1, <5>1 DEF AreOf
        <5> QED
          BY <4>1, <5>2, <5>3
      <4> QED
        BY <4>2, <4>3
    <3> QED
      BY <3>1, <3>2
  <2>3. phase = "aliases" => aliases = <<>>
    BY <1>5 DEF Gathered
  <2>4. phase = "symbols" => AreOf(stored, doc.aliases, Len(doc.aliases), <<>>)
    BY <1>5 DEF Gathered
  <2>5. AreOf(fresh, List, read, aliases)' <=> AreOf(fresh', List', read', aliases')
    BY DEF AreOf, UsedBy, AtFullPath, FullPath
  <2>6. AreOf(stored, doc.aliases, Len(doc.aliases), <<>>)'
          <=> AreOf(stored', doc'.aliases, Len(doc'.aliases), <<>>)
    BY DEF AreOf, UsedBy, AtFullPath, FullPath
  <2> QED
    BY <1>2, <1>4, <2>2, <2>3, <2>4, <2>5, <2>6 DEF Gathered
<1>13. AliasesAreFullPaths' /\ ConsoleIsWhatChosenSays'
  <2>1. AliasesAreFullPaths
    BY DEF Inv
  <2>2. Literal' = Literal /\ \A name : SymbolPaths(name)' = SymbolPaths(name)
    BY <1>4 DEF Literal, SymbolPaths, FullPaths, LiteralPaths
  <2> QED
    BY <1>1, <1>4, <2>1, <2>2 DEF AliasesAreFullPaths, ConsoleIsWhatChosenSays, LiteralPaths
<1>14. LookupsFollowThePath'
  <2>1. LookupsFollowThePath
    BY DEF Inv
  <2> QED
    BY <1>4, <2>1 DEF LookupsFollowThePath, Leads
<1>15. VerdictIsExact'
  <2>1. AllLead(list, read + 1, aliases) <=>
          /\ AllLead(list, read, aliases)
          /\ entry.name \notin Commas
          /\ entry.path = Invalid \/ Leads(entry.path, aliases)
    BY <1>2, <1>3, OneMore
  <2>2. out' = "parsing" <=> AllLead(list, read + 1, aliases)
    BY <1>1, <1>3, <1>6, <1>7, <2>1
  <2>3. out' = "parsing" => read' = read + 1
    BY <1>1, <1>7
  <2>4. out' # "parsing" => read' = read
    BY <1>1, <1>7
  <2>5. \A l, n, m : AllLead(l, n, m)' <=> AllLead(l, n, m)
    BY <1>4 DEF AllLead, Leads
  <2>6. phase = "aliases" => aliases = <<>>
    BY <1>5 DEF Gathered
  <2> QED
    BY <1>1, <1>2, <1>4, <1>6, <2>2, <2>3, <2>4, <2>5, <2>6 DEF VerdictIsExact, List
<1> QED
  BY <1>10, <1>11, <1>12, <1>13, <1>14, <1>15 DEF Inv
-----------------------------------------------------------------------------
(* At its end a list has given the entries that are used, and only those.  *)
LEMMA EntriesOfList ==
  ASSUME doc \in Docs, NEW list, list \in {doc.aliases, doc.symbols}, NEW map, NEW entries,
         AreOf(entries, list, Len(list), map)
  PROVE  /\ NamesOf(entries) = {e.name : e \in Used(list)}
         /\ \A name : NodesOf(entries, name) =
              {FullPath(e.path, map) : e \in {e \in Used(list) : e.name = name}}
<1>1. \A e : e \in Used(list) <=> \E i \in UsedBy(list, Len(list)) : e = list[i]
  BY UsedIs
<1>2. ASSUME NEW k \in 1..Len(entries)
      PROVE  \E e \in Used(list) : entries[k] = AtFullPath(e, map)
  BY <1>1 DEF AreOf
<1>3. ASSUME NEW e \in Used(list)
      PROVE  \E k \in 1..Len(entries) : entries[k] = AtFullPath(e, map)
  BY <1>1 DEF AreOf
<1>4. NamesOf(entries) = {e.name : e \in Used(list)}
  <2>1. \A k \in 1..Len(entries) : \E e \in Used(list) : entries[k].name = e.name
    BY <1>2, AtFullPathIs
  <2>2. \A e \in Used(list) : \E k \in 1..Len(entries) : entries[k].name = e.name
    BY <1>3, AtFullPathIs
  <2> QED
    BY <2>1, <2>2 DEF NamesOf
<1>5. ASSUME NEW name, NEW node
      PROVE  node \in NodesOf(entries, name) <=>
               node \in {FullPath(e.path, map) : e \in {e \in Used(list) : e.name = name}}
  <2>1. ASSUME node \in NodesOf(entries, name)
        PROVE  \E e \in Used(list) : e.name = name /\ node = FullPath(e.path, map)
    <3>1. PICK k \in 1..Len(entries) : entries[k].name = name /\ entries[k].node = node
      BY <2>1 DEF NodesOf
    <3>2. PICK e \in Used(list) : entries[k] = AtFullPath(e, map)
      BY <1>2
    <3> QED
      BY <3>1, <3>2, AtFullPathIs
  <2>2. ASSUME NEW e \in Used(list), e.name = name, node = FullPath(e.path, map)
        PROVE  node \in NodesOf(entries, name)
    <3>1. PICK k \in 1..Len(entries) : entries[k] = AtFullPath(e, map)
      BY <1>3
    <3>2. entries[k].name = name /\ entries[k].node = node
      BY <2>2, <3>1, AtFullPathIs
    <3> QED
      BY <3>2 DEF NodesOf
  <2> QED
    BY <2>1, <2>2
<1> QED
  BY <1>4, <1>5

(* The names and nodes of entries are names and nodes.                     *)
LEMMA PairsOf ==
  ASSUME NEW entries \in Seq(Pairs)
  PROVE  NamesOf(entries) \subseteq Names
         /\ \A name : NodesOf(entries, name) \subseteq doc.tree.nodes
<1>1. ASSUME NEW k \in 1..Len(entries)
      PROVE  entries[k].name \in Names /\ entries[k].node \in doc.tree.nodes
  <2>1. entries[k] \in Pairs
    <3> HIDE DEF Pairs
    <3> QED
      BY ElementOfSeq
  <2> QED
    BY <2>1 DEF Pairs
<1> QED
  BY <1>1 DEF NamesOf, NodesOf

LEMMA AliasesParsedKeeps ==
  ASSUME Inv, AliasesParsed
  PROVE  Inv'
<1>1. /\ out = "parsing" /\ phase = "aliases" /\ read = Len(List)
      /\ aliases' \in Collected /\ stored' = fresh /\ fresh' = <<>> /\ read' = 0
      /\ phase' = "symbols" /\ doc' = doc /\ console' = console /\ last' = last /\ out' = out
  BY DEF AliasesParsed
<1>2. Shape /\ Stage /\ Gathered /\ VerdictIsExact
  BY DEF Inv
<1>3. /\ doc \in Docs /\ fresh \in Seq(Pairs) /\ last = Unasked /\ List = doc.aliases
      /\ List' = doc.symbols /\ aliases = <<>>
  BY <1>1, <1>2 DEF Shape, Stage, List, Gathered
<1>4. AreOf(fresh, doc.aliases, Len(doc.aliases), <<>>)
  BY <1>1, <1>2, <1>3 DEF Gathered
<1>5. /\ NamesOf(fresh) = {e.name : e \in Literal}
      /\ \A name : NodesOf(fresh, name) = LiteralPaths(name)
  <2>1. /\ NamesOf(fresh) = {e.name : e \in Literal}
        /\ \A name : NodesOf(fresh, name) =
             {FullPath(e.path, <<>>) : e \in {e \in Literal : e.name = name}}
    BY <1>3, <1>4, EntriesOfList DEF Literal
  <2>2. \A e : FullPath(e.path, <<>>) = e.path
    BY NoAliases
  <2> QED
    BY <2>1, <2>2 DEF LiteralPaths
<1>6. /\ DOMAIN aliases' = NamesOf(fresh)
      /\ \A name \in NamesOf(fresh) : aliases'[name] \in NodesOf(fresh, name)
      /\ \A name \in NamesOf(fresh) : aliases'[name] \in doc.tree.nodes
  BY <1>1 DEF Collected
<1>7. Shape'
  <2>1. LeadsToNodes(aliases)'
    BY <1>1, <1>3, <1>6, PairsOf DEF LeadsToNodes
  <2>2. fresh' \in Seq(Pairs)' /\ stored' \in Seq(Pairs)'
    BY <1>1, <1>3 DEF Pairs
  <2>3. read' \in 0..Len(List')
    BY <1>1, <1>3, ListFacts
  <2> QED
    BY <1>1, <1>2, <2>1, <2>2, <2>3 DEF Shape
<1>8. Stage'
  BY <1>1, <1>2 DEF Stage, Unasked
<1>9. Gathered'
  <2>1. UsedBy(doc.symbols, 0) = {} /\ 1..Len(fresh') = {}
    BY <1>1 DEF UsedBy
  <2>2. AreOf(fresh', doc.symbols, 0, aliases')
    BY <2>1 DEF AreOf
  <2>3. AreOf(fresh, List, read, aliases)' <=> AreOf(fresh', List', read', aliases')
    BY DEF AreOf, UsedBy, AtFullPath, FullPath
  <2>4. AreOf(stored, doc.aliases, Len(doc.aliases), <<>>)'
          <=> AreOf(stored', doc'.aliases, Len(doc'.aliases), <<>>)
    BY DEF AreOf, UsedBy, AtFullPath, FullPath
  <2> QED
    BY <1>1, <1>3, <1>4, <2>2, <2>3, <2>4 DEF Gathered
<1>10. Literal' = Literal /\ \A name : LiteralPaths(name)' = LiteralPaths(name)
  BY <1>1 DEF Literal, LiteralPaths
<1>11. AliasesAreFullPaths'
  BY <1>1, <1>5, <1>6, <1>10 DEF AliasesAreFullPaths
<1>12. LookupsFollowThePath'
  BY <1>1, <1>3, NothingAsked DEF LookupsFollowThePath, Leads
<1>13. ConsoleIsWhatChosenSays'
  BY <1>1 DEF ConsoleIsWhatChosenSays
<1>14. VerdictIsExact'
  <2>1. AllLead(doc.aliases, Len(doc.aliases), <<>>)
    BY <1>1, <1>2, <1>3, VerdictOfList
  <2>2. AllLead(doc.symbols, 0, aliases')
    BY DEF AllLead
  <2>3. \A l, n, m : AllLead(l, n, m)' <=> AllLead(l, n, m)
    BY <1>1 DEF AllLead, Leads
  <2> QED
    BY <1>1, <2>1, <2>2, <2>3 DEF VerdictIsExact
<1> QED
  BY <1>7, <1>8, <1>9, <1>11, <1>12, <1>13, <1>14 DEF Inv
-----------------------------------------------------------------------------
(* With the aliases stored, a path stands for one of its full paths.       *)
LEMMA FullPathIsOne ==
  ASSUME phase = "symbols", AliasesAreFullPaths, NEW path
  PROVE  FullPath(path, aliases) \in FullPaths(path)
<1>1. /\ DOMAIN aliases = {e.name : e \in Literal}
      /\ \A name \in DOMAIN aliases : aliases[name] \in LiteralPaths(name)
  BY DEF AliasesAreFullPaths
<1>2. path[1] \in DOMAIN aliases <=> LiteralPaths(path[1]) # {}
  BY <1>1 DEF LiteralPaths
<1>3. CASE path # <<>> /\ path[1] \in DOMAIN aliases
  BY <1>1, <1>2, <1>3 DEF FullPath, FullPaths
<1>4. CASE ~ (path # <<>> /\ path[1] \in DOMAIN aliases)
  BY <1>2, <1>4 DEF FullPath, FullPaths
<1> QED
  BY <1>3, <1>4

(* An entry that a search did not find has a name with two spellings.      *)
LEMMA HiddenIs ==
  ASSUME Inv, phase = "symbols", NEW name, NEW node \in Hidden(name)
  PROVE  node \in LiteralPaths(name) /\ IsRespelled(name)
<1>1. doc \in Docs /\ AreOf(stored, doc.aliases, Len(doc.aliases), <<>>)
  BY DEF Inv, Shape, Gathered
<1>2. PICK k \in 1..Len(stored), l \in 1..Len(stored) :
        k # l /\ stored[k].name = name /\ stored[k].node = node /\ stored[l].name = name
  <2>1. PICK k \in {k \in 1..Len(stored) :
                      stored[k].name = name /\ \E l \in 1..Len(stored) :
                        l # k /\ stored[l] = [name |-> name, node |-> aliases[name]]} :
          node = stored[k].node
    BY DEF Hidden
  <2>2. PICK l \in 1..Len(stored) :
          l # k /\ stored[l] = [name |-> name, node |-> aliases[name]]
    BY <2>1
  <2>3. stored[l].name = name
    BY <2>2
  <2> QED
    BY <2>1, <2>2, <2>3
<1>3. node \in LiteralPaths(name)
  <2>1. node \in NodesOf(stored, name)
    BY <1>2 DEF NodesOf
  <2>2. NodesOf(stored, name) =
          {FullPath(e.path, <<>>) : e \in {e \in Literal : e.name = name}}
    BY <1>1, EntriesOfList DEF Literal
  <2>3. \A e : FullPath(e.path, <<>>) = e.path
    BY NoAliases
  <2> QED
    BY <2>1, <2>2, <2>3 DEF LiteralPaths
<1>4. IsRespelled(name)
  <2>1. PICK i \in UsedBy(doc.aliases, Len(doc.aliases)),
             j \in UsedBy(doc.aliases, Len(doc.aliases)) :
          i # j /\ {doc.aliases[i].name, doc.aliases[j].name} = {name}
    BY <1>1, <1>2 DEF AreOf
  <2>2. doc.aliases[i].name = name /\ doc.aliases[j].name = name
    BY <2>1
  <2>3. i \in 1..Len(doc.aliases) /\ j \in 1..Len(doc.aliases)
    BY <2>1 DEF UsedBy
  <2>4. doc.aliases[i] \in Literal /\ doc.aliases[j] \in Literal
    BY <1>1, <2>1, UsedIs DEF Literal
  <2>5. \A n \in {i, j} : doc.aliases[n] \in Literal /\ doc.aliases[n].name = name
    BY <2>2, <2>4
  <2> QED
    BY <2>1, <2>3, <2>5 DEF IsRespelled
<1> QED
  BY <1>3, <1>4

LEMMA SymbolsParsedKeeps ==
  ASSUME Inv, SymbolsParsed
  PROVE  Inv'
<1>1. /\ out = "parsing" /\ phase = "symbols" /\ read = Len(List)
      /\ aliases' \in Extended /\ stored' = stored /\ fresh' = <<>> /\ read' = 0
      /\ phase' = "chosen" /\ doc' = doc /\ console' = console /\ last' = last /\ out' = out
  BY DEF SymbolsParsed
<1>2. Shape /\ Stage /\ Gathered /\ AliasesAreFullPaths /\ VerdictIsExact
  BY DEF Inv
<1>3. /\ doc \in Docs /\ fresh \in Seq(Pairs) /\ stored \in Seq(Pairs) /\ last = Unasked
      /\ LeadsToNodes(aliases) /\ List = doc.symbols /\ List' = <<>>
  BY <1>1, <1>2 DEF Shape, Stage, List
<1>4. /\ NamesOf(fresh) = {e.name : e \in Used(doc.symbols)}
      /\ \A name : NodesOf(fresh, name) =
           {FullPath(e.path, aliases) : e \in {e \in Used(doc.symbols) : e.name = name}}
  <2>1. AreOf(fresh, doc.symbols, Len(doc.symbols), aliases)
    BY <1>1, <1>2, <1>3 DEF Gathered
  <2> QED
    BY <1>3, <2>1, EntriesOfList
<1>5. /\ DOMAIN aliases = {e.name : e \in Literal}
      /\ \A name \in DOMAIN aliases : aliases[name] \in LiteralPaths(name)
  BY <1>1, <1>2 DEF AliasesAreFullPaths
<1>6. /\ DOMAIN aliases' = DOMAIN aliases \cup NamesOf(fresh)
      /\ \A name \in DOMAIN aliases' :
           /\ aliases'[name] \in doc.tree.nodes
           /\ aliases'[name] \in Inserted(name) \cup Uncovered(name)
  BY <1>1 DEF Extended
<1>7. ASSUME NEW name \in DOMAIN aliases'
      PROVE  \/ aliases'[name] \in SymbolPaths(name)
             \/ /\ aliases'[name] \in LiteralPaths(name)
                /\ SymbolPaths(name) = {} \/ IsRespelled(name)
  <2>1. CASE aliases'[name] \in Uncovered(name)
    <3>1. aliases'[name] \in Hidden(name)
      BY <2>1 DEF Uncovered
    <3> QED
      BY <1>1, <3>1, HiddenIs
  <2>2. CASE name \in NamesOf(fresh) /\ aliases'[name] \in Inserted(name)
    <3>1. PICK e \in Used(doc.symbols) :
            e.name = name /\ aliases'[name] = FullPath(e.path, aliases)
      BY <1>4, <2>2 DEF Inserted
    <3>2. FullPath(e.path, aliases) \in FullPaths(e.path)
      BY <1>1, <1>2, FullPathIsOne
    <3>3. aliases'[name] \in SymbolPaths(name)
      BY <3>1, <3>2 DEF SymbolPaths
    <3> QED
      BY <3>3
  <2>3. CASE name \notin NamesOf(fresh) /\ aliases'[name] \in Inserted(name)
    <3>1. aliases'[name] = aliases[name] /\ name \in DOMAIN aliases
      BY <1>6, <2>3 DEF Inserted
    <3>2. {e \in Used(doc.symbols) : e.name = name} = {}
      BY <1>4, <2>3
    <3>3. SymbolPaths(name) = {}
      BY <3>2 DEF SymbolPaths
    <3> QED
      BY <1>5, <3>1, <3>3
  <2> QED
    BY <1>6, <2>1, <2>2, <2>3
<1>8. Shape'
  <2>1. LeadsToNodes(aliases)'
    BY <1>1, <1>3, <1>6, PairsOf DEF LeadsToNodes
  <2>2. fresh' \in Seq(Pairs)' /\ stored' \in Seq(Pairs)'
    BY <1>1, <1>3 DEF Pairs
  <2>3. read' \in 0..Len(List')
    BY <1>1, <1>3
  <2> QED
    BY <1>1, <1>2, <2>1, <2>2, <2>3 DEF Shape
<1>9. Stage'
  BY <1>1, <1>2 DEF Stage, Unasked
<1>10. Gathered'
  BY <1>1 DEF Gathered
<1>11. AliasesAreFullPaths'
  <2>1. /\ Literal' = Literal /\ Used(doc.symbols)' = Used(doc.symbols)
        /\ \A name : LiteralPaths(name)' = LiteralPaths(name)
        /\ \A name : SymbolPaths(name)' = SymbolPaths(name)
        /\ \A name : IsRespelled(name)' <=> IsRespelled(name)
    BY <1>1 DEF Literal, Used, LiteralPaths, SymbolPaths, FullPaths, IsRespelled
  <2>2. DOMAIN aliases' = {e.name : e \in Literal \cup Used(doc.symbols)}
    BY <1>4, <1>5, <1>6
  <2> QED
    BY <1>1, <1>7, <2>1, <2>2 DEF AliasesAreFullPaths
<1>12. LookupsFollowThePath'
  BY <1>1, <1>3, NothingAsked DEF LookupsFollowThePath, Leads
<1>13. ConsoleIsWhatChosenSays'
  BY <1>1 DEF ConsoleIsWhatChosenSays
<1>14. VerdictIsExact'
  <2>1. AllLead(doc.symbols, Len(doc.symbols), aliases)
    BY <1>1, <1>2, <1>3, VerdictOfList
  <2>2. SymbolsLead
    <3>1. SUFFICES ASSUME NEW e \in ToSet(doc.symbols)
                   PROVE  e.name \notin Commas
                          /\ (e.path = Invalid \/ FullPaths(e.path) \cap doc.tree.nodes # {})
      BY DEF SymbolsLead
    <3>2. PICK i \in 1..Len(doc.symbols) : e = doc.symbols[i]
      BY <1>3, ListFacts DEF ToSet
    <3>3. e.name \notin Commas /\ (e.path = Invalid \/ Leads(e.path, aliases))
      BY <2>1, <3>2 DEF AllLead
    <3>4. FullPath(e.path, aliases) \in FullPaths(e.path)
      BY <1>1, <1>2, FullPathIsOne
    <3> QED
      BY <3>3, <3>4 DEF Leads
  <2>3. SymbolsLead' <=> SymbolsLead
    BY <1>1 DEF SymbolsLead, FullPaths, LiteralPaths, Literal
  <2> QED
    BY <1>1, <2>2, <2>3 DEF VerdictIsExact
<1> QED
  BY <1>8, <1>9, <1>10, <1>11, <1>12, <1>13, <1>14 DEF Inv
-----------------------------------------------------------------------------
(* The checks of `/chosen`: chains of which each failure is an error.      *)
SomeCheck ==
  {c \in [error : Errors \cup {"valid"}, ok : BOOLEAN] : c.ok \/ c.error \in Errors}

AllHold(checks) == \A i \in 1..Len(checks) : checks[i].ok

LEMMA BothHold ==
  ASSUME NEW s \in Seq(SomeCheck), NEW t \in Seq(SomeCheck)
  PROVE  s \o t \in Seq(SomeCheck) /\ (AllHold(s \o t) <=> AllHold(s) /\ AllHold(t))
<1>1. /\ s \o t \in Seq(SomeCheck) /\ Len(s \o t) = Len(s) + Len(t)
      /\ \A i \in 1..Len(s) + Len(t) :
           (s \o t)[i] = IF i <= Len(s) THEN s[i] ELSE t[i - Len(s)]
  BY ConcatProperties
<1>2. PICK m \in Nat, n \in Nat : m = Len(s) /\ n = Len(t)
  BY LenProperties
<1>3. PICK b : b = s \o t
  OBVIOUS
<1>4. ASSUME AllHold(s), AllHold(t) PROVE AllHold(b)
  <2>1. ASSUME NEW i \in 1..m + n PROVE b[i].ok
    BY <1>1, <1>2, <1>3, <1>4 DEF AllHold
  <2> QED
    BY <1>1, <1>2, <1>3, <2>1 DEF AllHold
<1>5. ASSUME AllHold(b) PROVE AllHold(s)
  <2>1. ASSUME NEW i \in 1..m PROVE s[i].ok
    <3>1. i \in 1..m + n /\ i <= m
      OBVIOUS
    <3> QED
      BY <1>1, <1>2, <1>3, <1>5, <3>1 DEF AllHold
  <2> QED
    BY <1>2, <2>1 DEF AllHold
<1>6. ASSUME AllHold(b) PROVE AllHold(t)
  <2>1. ASSUME NEW i \in 1..n PROVE t[i].ok
    <3>1. m + i \in 1..m + n /\ ~ (m + i <= m) /\ m + i - m = i
      OBVIOUS
    <3>2. b[m + i] = t[i]
      BY <1>1, <1>2, <1>3, <3>1
    <3> QED
      BY <1>1, <1>2, <1>3, <1>6, <3>1, <3>2 DEF AllHold
  <2> QED
    BY <1>2, <2>1 DEF AllHold
<1> QED
  BY <1>1, <1>3, <1>4, <1>5, <1>6

LEMMA PathChecksHold ==
  ASSUME doc \in Docs, LeadsToNodes(aliases), NEW value \in Strings \cup {None}
  PROVE  /\ PathChecks(value) \in Seq(SomeCheck)
         /\ AllHold(PathChecks(value)) <=> value = None \/ Leads(value, aliases)
<1>1. PICK a \in SomeCheck, b \in SomeCheck, c \in SomeCheck :
        /\ a = Check("StdoutPathInvalid", value # Invalid)
        /\ b = Check("panic", NodeAt(value) # Panic)
        /\ c = Check("StdoutDanglingPath", value = None \/ NodeAt(value) # None)
  <2>1. Check("StdoutPathInvalid", value # Invalid) \in SomeCheck
    BY DEF SomeCheck, Check, Errors
  <2>2. Check("panic", NodeAt(value) # Panic) \in SomeCheck
    BY DEF SomeCheck, Check, Errors
  <2>3. Check("StdoutDanglingPath", value = None \/ NodeAt(value) # None) \in SomeCheck
    BY DEF SomeCheck, Check, Errors
  <2> QED
    BY <2>1, <2>2, <2>3
<1>2. PathChecks(value) = <<a, b, c>>
  BY <1>1 DEF PathChecks
<1>3. /\ <<a, b, c>> \in Seq(SomeCheck) /\ Len(<<a, b, c>>) = 3
      /\ <<a, b, c>>[1] = a /\ <<a, b, c>>[2] = b /\ <<a, b, c>>[3] = c
  <2> HIDE DEF SomeCheck
  <2> QED
    OBVIOUS
<1>4. AllHold(PathChecks(value)) <=> a.ok /\ b.ok /\ c.ok
  <2>1. 1..3 = {1, 2, 3}
    OBVIOUS
  <2> QED
    BY <1>2, <1>3, <2>1 DEF AllHold
<1>5. /\ a.ok <=> value # Invalid
      /\ b.ok <=> NodeAt(value) # Panic
      /\ c.ok <=> value = None \/ NodeAt(value) # None
  BY <1>1 DEF Check
<1>6. CASE value \in {None, Invalid}
  <2>1. NodeAt(value) = None
    BY <1>6 DEF NodeAt
  <2> QED
    BY <1>2, <1>3, <1>4, <1>5, <1>6, <2>1, MarkersAssumption DEF Leads
<1>7. CASE value \notin {None, Invalid}
  <2>1. IF Leads(value, aliases) THEN NodeAt(value) \notin Stopped
        ELSE NodeAt(value) \in Stopped
    BY <1>7, NodeAtFollows
  <2> QED
    BY <1>2, <1>3, <1>4, <1>5, <1>7, <2>1 DEF Stopped
<1> QED
  BY <1>6, <1>7

LEMMA ChosenChecksHold ==
  ASSUME doc \in Docs, LeadsToNodes(aliases), NEW chosen \in Chosen
  PROVE  /\ ChosenChecks(chosen) \in Seq(SomeCheck)
         /\ AllHold(ChosenChecks(chosen)) <=> IsSound(chosen)
<1>1. /\ chosen.children \in BOOLEAN
      /\ chosen.stdout \in Strings \cup {None} /\ chosen.stdin \in Strings \cup {None}
      /\ chosen.others \in {"valid", "OverlayPrefix", "OsPrefix", "RpiBoardrevExt"}
  BY DEF Chosen
<1>2. PICK a \in SomeCheck, b \in SomeCheck, z \in SomeCheck :
        /\ a = Check("panic", ~ chosen.children)
        /\ b = Check("BootArg", chosen.bootargs # Invalid)
        /\ z = Check(chosen.others, chosen.others = "valid")
  <2>1. Check("panic", ~ chosen.children) \in SomeCheck
    BY <1>1 DEF SomeCheck, Check, Errors
  <2>2. Check("BootArg", chosen.bootargs # Invalid) \in SomeCheck
    BY DEF SomeCheck, Check, Errors
  <2>3. Check(chosen.others, chosen.others = "valid") \in SomeCheck
    BY <1>1 DEF SomeCheck, Check, Errors
  <2> QED
    BY <2>1, <2>2, <2>3
<1>3. PICK first, output, input, end :
        /\ first = <<a, b>> /\ output = PathChecks(chosen.stdout)
        /\ input = PathChecks(chosen.stdin) /\ end = <<z>>
  OBVIOUS
<1>4. ChosenChecks(chosen) = ((first \o output) \o input) \o end
  BY <1>2, <1>3 DEF ChosenChecks
<1>5. first \in Seq(SomeCheck) /\ (AllHold(first) <=> a.ok /\ b.ok)
  <2> HIDE DEF SomeCheck
  <2>1. first \in Seq(SomeCheck) /\ Len(first) = 2 /\ first[1] = a /\ first[2] = b
    BY <1>3
  <2>2. 1..2 = {1, 2}
    OBVIOUS
  <2> QED
    BY <2>1, <2>2 DEF AllHold
<1>6. end \in Seq(SomeCheck) /\ (AllHold(end) <=> z.ok)
  <2> HIDE DEF SomeCheck
  <2>1. end \in Seq(SomeCheck) /\ Len(end) = 1 /\ end[1] = z
    BY <1>3
  <2>2. 1..1 = {1}
    OBVIOUS
  <2> QED
    BY <2>1, <2>2 DEF AllHold
<1>7. /\ output \in Seq(SomeCheck)
      /\ AllHold(output) <=> chosen.stdout = None \/ Leads(chosen.stdout, aliases)
  BY <1>1, <1>3, PathChecksHold
<1>8. /\ input \in Seq(SomeCheck)
      /\ AllHold(input) <=> chosen.stdin = None \/ Leads(chosen.stdin, aliases)
  BY <1>1, <1>3, PathChecksHold
<1>9. PICK one \in Seq(SomeCheck) :
        one = first \o output /\ (AllHold(one) <=> AllHold(first) /\ AllHold(output))
  BY <1>5, <1>7, BothHold
<1>10. PICK two \in Seq(SomeCheck) :
        two = one \o input /\ (AllHold(two) <=> AllHold(one) /\ AllHold(input))
  BY <1>8, <1>9, BothHold
<1>11. PICK all \in Seq(SomeCheck) :
        all = two \o end /\ (AllHold(all) <=> AllHold(two) /\ AllHold(end))
  BY <1>6, <1>10, BothHold
<1>12. /\ a.ok <=> ~ chosen.children
       /\ b.ok <=> chosen.bootargs # Invalid
       /\ z.ok <=> chosen.others = "valid"
  BY <1>2 DEF Check
<1> QED
  BY <1>4, <1>5, <1>6, <1>7, <1>8, <1>9, <1>10, <1>11, <1>12 DEF IsSound

(* `/chosen` is accepted exactly when it is sound; what rejects it is one  *)
(* of the errors.                                                          *)
LEMMA ChosenVerdict ==
  ASSUME doc \in Docs, LeadsToNodes(aliases), NEW chosen \in Chosen
  PROVE  IF IsSound(chosen) THEN FirstError(ChosenChecks(chosen)) = "none"
         ELSE FirstError(ChosenChecks(chosen)) \in Errors
<1>1. PICK checks \in Seq(SomeCheck) :
        checks = ChosenChecks(chosen) /\ (AllHold(checks) <=> IsSound(chosen))
  BY ChosenChecksHold
<1>2. \/ AllHold(checks) /\ FirstError(checks) = "none"
      \/ \E i \in 1..Len(checks) :
           IsFirstFailure(checks, i) /\ FirstError(checks) = checks[i].error
  <2> HIDE DEF SomeCheck
  <2> QED
    BY FirstErrorProperties DEF AllHold
<1>3. ASSUME NEW i \in 1..Len(checks), IsFirstFailure(checks, i),
             FirstError(checks) = checks[i].error
      PROVE  ~ AllHold(checks) /\ FirstError(checks) \in Errors
  <2>1. checks[i] \in SomeCheck
    BY ElementOfSeq
  <2> QED
    BY <1>3, <2>1 DEF SomeCheck, IsFirstFailure, AllHold
<1> QED
  BY <1>1, <1>2, <1>3

LEMMA FromNodeKeeps ==
  ASSUME Inv, FromNode
  PROVE  Inv'
<1>1. PICK error :
        /\ error = IF doc.chosen = None THEN "none" ELSE FirstError(ChosenChecks(doc.chosen))
        /\ out = "parsing" /\ phase = "chosen"
        /\ IF error # "none" THEN out' = error /\ UNCHANGED <<phase, console>>
           ELSE /\ out' = "Ok" /\ phase' = "ready"
                /\ console' = IF doc.chosen = None THEN Nowhere ELSE ConsoleOf(doc.chosen)
        /\ UNCHANGED <<doc, read, fresh, stored, aliases, last>>
  BY DEF FromNode
<1>2. /\ doc \in Docs /\ LeadsToNodes(aliases) /\ last = Unasked
      /\ Shape /\ Stage /\ AliasesAreFullPaths /\ LookupsFollowThePath
      /\ VerdictIsExact
  BY <1>1 DEF Inv, Shape, Stage
<1>3. doc' = doc /\ read' = read /\ fresh' = fresh /\ stored' = stored
      /\ aliases' = aliases /\ last' = last
      /\ phase' \in {"chosen", "ready"} /\ phase = "chosen"
  BY <1>1
<1>4. /\ List' = <<>> /\ List = <<>> /\ Literal' = Literal
      /\ Used(doc.symbols)' = Used(doc.symbols)
      /\ \A name : LiteralPaths(name)' = LiteralPaths(name)
      /\ \A name : SymbolPaths(name)' = SymbolPaths(name)
      /\ \A name : IsRespelled(name)' <=> IsRespelled(name)
  BY <1>3 DEF List, Literal, Used, LiteralPaths, SymbolPaths, FullPaths, IsRespelled
<1>5. doc.chosen # None =>
        /\ doc.chosen \in Chosen
        /\ IF IsSound(doc.chosen) THEN error = "none" ELSE error \in Errors
  <2>1. doc.chosen \in Chosen \cup {None}
    BY <1>2, DocsAssumption DEF Docs
  <2> QED
    BY <1>1, <1>2, <2>1, ChosenVerdict
<1>6. error # "none" => doc.chosen # None /\ error \in Errors /\ ~ IsSound(doc.chosen)
  BY <1>1, <1>5
<1>7. error = "none" => doc.chosen = None \/ IsSound(doc.chosen)
  BY <1>5 DEF Errors
<1>8. \A value \in Strings \cup {None} :
        value = None \/ Leads(value, aliases) =>
          NodeAt(value) = IF value = None THEN None ELSE FullPath(value, aliases)
  <2>1. SUFFICES ASSUME NEW value \in Strings \cup {None},
                        value = None \/ Leads(value, aliases)
                 PROVE  NodeAt(value) = IF value = None THEN None
                                        ELSE FullPath(value, aliases)
    OBVIOUS
  <2>2. CASE value = None
    BY <2>2 DEF NodeAt
  <2>3. CASE value # None
    <3>1. value \notin {None, Invalid}
      BY <2>1, <2>3 DEF Leads
    <3> QED
      BY <1>2, <2>1, <2>3, <3>1, NodeAtFollows
  <2> QED
    BY <2>2, <2>3
<1>9. doc.chosen # None /\ IsSound(doc.chosen) =>
        LET end(value) == IF value = None THEN None ELSE FullPath(value, aliases)
        IN  /\ ConsoleOf(doc.chosen).stdout = end(doc.chosen.stdout)
            /\ ConsoleOf(doc.chosen).stdin =
                 IF doc.chosen.stdin = None THEN end(doc.chosen.stdout)
                 ELSE end(doc.chosen.stdin)
            /\ ConsoleOf(doc.chosen) \in [stdout : doc.tree.nodes \cup {None},
                                          stdin : doc.tree.nodes \cup {None}]
  <2>1. SUFFICES ASSUME doc.chosen # None, IsSound(doc.chosen)
                 PROVE  LET end(value) == IF value = None THEN None
                                          ELSE FullPath(value, aliases)
                        IN  /\ ConsoleOf(doc.chosen).stdout = end(doc.chosen.stdout)
                            /\ ConsoleOf(doc.chosen).stdin =
                                 IF doc.chosen.stdin = None THEN end(doc.chosen.stdout)
                                 ELSE end(doc.chosen.stdin)
                            /\ ConsoleOf(doc.chosen) \in
                                 [stdout : doc.tree.nodes \cup {None},
                                  stdin : doc.tree.nodes \cup {None}]
    OBVIOUS
  <2>2. PICK o \in Strings \cup {None}, i \in Strings \cup {None} :
          o = doc.chosen.stdout /\ i = doc.chosen.stdin
    BY <1>5, <2>1 DEF Chosen
  <2>3. /\ o = None \/ Leads(o, aliases)
        /\ i = None \/ Leads(i, aliases)
    BY <2>1, <2>2 DEF IsSound
  <2>4. /\ NodeAt(o) = IF o = None THEN None ELSE FullPath(o, aliases)
        /\ NodeAt(i) = IF i = None THEN None ELSE FullPath(i, aliases)
    BY <1>8, <2>3
  <2>5. NodeAt(o) \in doc.tree.nodes \cup {None} /\ NodeAt(i) \in doc.tree.nodes \cup {None}
    BY <2>3, <2>4 DEF Leads
  <2>6. ConsoleOf(doc.chosen) =
          [stdout |-> NodeAt(o), stdin |-> NodeAt(IF i = None THEN o ELSE i)]
    BY <2>2 DEF ConsoleOf
  <2> QED
    BY <2>2, <2>4, <2>5, <2>6
<1>10. Shape'
  <2>1. console' \in [stdout : doc.tree.nodes \cup {None}, stdin : doc.tree.nodes \cup {None}]
    <3>1. console' = console \/ console' = Nowhere
          \/ (error = "none" /\ doc.chosen # None /\ console' = ConsoleOf(doc.chosen))
      BY <1>1
    <3>2. Nowhere \in [stdout : doc.tree.nodes \cup {None}, stdin : doc.tree.nodes \cup {None}]
      BY DEF Nowhere
    <3>3. console \in [stdout : doc.tree.nodes \cup {None}, stdin : doc.tree.nodes \cup {None}]
      BY <1>2 DEF Shape
    <3> QED
      BY <1>7, <1>9, <3>1, <3>2, <3>3
  <2>2. out' \in Errors \cup {"parsing", "Ok"}
    BY <1>1, <1>6
  <2>3. LeadsToNodes(aliases)' /\ fresh' \in Seq(Pairs)' /\ stored' \in Seq(Pairs)'
    BY <1>2, <1>3 DEF LeadsToNodes, Shape, Pairs
  <2>4. read' \in 0..Len(List)'
    BY <1>2, <1>3, <1>4 DEF Shape
  <2>5. last' \in [path : Paths \cup {<<>>}, node : doc'.tree.nodes \cup {None, Panic}]
    BY <1>2, <1>3 DEF Shape
  <2> QED
    BY <1>2, <1>3, <2>1, <2>2, <2>3, <2>4, <2>5 DEF Shape
<1>11. Stage'
  <2>1. error # "none" => error # "Ok"
    BY <1>6 DEF Errors
  <2> QED
    BY <1>1, <1>2, <2>1 DEF Stage, Unasked
<1>12. Gathered'
  BY <1>3 DEF Gathered
<1>13. AliasesAreFullPaths'
  BY <1>2, <1>3, <1>4 DEF AliasesAreFullPaths
<1>14. LookupsFollowThePath'
  BY <1>2, <1>3, <1>4 DEF LookupsFollowThePath, Leads
<1>15. ConsoleIsWhatChosenSays'
  <2>1. CASE error # "none"
    BY <1>1, <2>1 DEF ConsoleIsWhatChosenSays
  <2>2. CASE error = "none" /\ doc.chosen = None
    BY <1>1, <2>2 DEF ConsoleIsWhatChosenSays, Nowhere
  <2>3. CASE error = "none" /\ doc.chosen # None
    <3>1. console' = ConsoleOf(doc.chosen)
      BY <1>1, <2>3
    <3> QED
      BY <1>3, <1>4, <1>7, <1>9, <2>3, <3>1 DEF ConsoleIsWhatChosenSays
  <2> QED
    BY <2>1, <2>2, <2>3
<1>16. VerdictIsExact'
  <2>1. SymbolsLead
    BY <1>2, <1>3 DEF VerdictIsExact
  <2>2. SymbolsLead' <=> SymbolsLead
    BY <1>3 DEF SymbolsLead, FullPaths, LiteralPaths, Literal
  <2>3. \A chosen : IsSound(chosen)' <=> IsSound(chosen)
    BY <1>3, <1>4 DEF IsSound, Leads
  <2>4. CASE error # "none"
    BY <1>1, <1>3, <1>4, <1>6, <2>1, <2>2, <2>3, <2>4 DEF VerdictIsExact
  <2>5. CASE error = "none"
    BY <1>1, <1>3, <1>7, <2>3, <2>5 DEF VerdictIsExact
  <2> QED
    BY <2>4, <2>5
<1> QED
  BY <1>10, <1>11, <1>12, <1>13, <1>14, <1>15, <1>16 DEF Inv

LEMMA LookUpKeeps ==
  ASSUME Inv, NEW path \in Paths, LookUp(path)
  PROVE  Inv'
<1>1. /\ phase = "ready" /\ out = "Ok"
      /\ last' = [path |-> path, node |-> FindStr(path)]
      /\ out' = IF last'.node = Panic THEN "panic" ELSE out
      /\ doc' = doc /\ phase' = phase /\ read' = read /\ fresh' = fresh /\ stored' = stored
      /\ aliases' = aliases /\ console' = console
  BY DEF LookUp
<1>2. /\ doc \in Docs /\ LeadsToNodes(aliases)
      /\ Shape /\ AliasesAreFullPaths
      /\ ConsoleIsWhatChosenSays /\ VerdictIsExact
  BY DEF Inv, Shape
<1>3. /\ List' = List /\ Literal' = Literal
      /\ Used(doc.symbols)' = Used(doc.symbols)
      /\ \A name : LiteralPaths(name)' = LiteralPaths(name)
      /\ \A name : SymbolPaths(name)' = SymbolPaths(name)
      /\ \A name : IsRespelled(name)' <=> IsRespelled(name)
  BY <1>1 DEF List, Literal, Used, LiteralPaths, SymbolPaths, FullPaths, IsRespelled
<1>4. path \in Seq(AnyName)
  BY PathsAssumption
<1>5. IF FullPath(path, aliases) \in doc.tree.nodes
      THEN FindStr(path) = FullPath(path, aliases)
      ELSE FindStr(path) \in Stopped
  BY <1>2, <1>4, FindStrFollows
<1>6. Shape'
  <2>1. last' \in [path : Paths \cup {<<>>}, node : doc.tree.nodes \cup {None, Panic}]
    BY <1>1, <1>5 DEF Stopped
  <2>2. out' \in Errors \cup {"parsing", "Ok"}
    BY <1>1 DEF Errors
  <2>3. LeadsToNodes(aliases)' /\ fresh' \in Seq(Pairs)' /\ stored' \in Seq(Pairs)'
    BY <1>1, <1>2 DEF LeadsToNodes, Shape, Pairs
  <2> QED
    BY <1>1, <1>2, <1>3, <2>1, <2>2, <2>3 DEF Shape
<1>7. Stage'
  BY <1>1 DEF Stage
<1>8. Gathered'
  BY <1>1 DEF Gathered
<1>9. AliasesAreFullPaths'
  BY <1>1, <1>2, <1>3 DEF AliasesAreFullPaths
<1>10. LookupsFollowThePath'
  <2>1. path # Invalid
    BY <1>4, TreeFacts, <1>2
  <2> QED
    BY <1>1, <1>3, <1>5, <2>1 DEF LookupsFollowThePath, Leads, Stopped
<1>11. ConsoleIsWhatChosenSays'
  BY <1>1, <1>2, <1>3 DEF ConsoleIsWhatChosenSays
<1>12. VerdictIsExact'
  <2>1. \A chosen : IsSound(chosen)' <=> IsSound(chosen)
    BY <1>1, <1>3 DEF IsSound, Leads
  <2>2. doc.chosen = None \/ IsSound(doc.chosen)
    BY <1>1, <1>2 DEF VerdictIsExact
  <2> QED
    BY <1>1, <2>1, <2>2 DEF VerdictIsExact
<1> QED
  BY <1>6, <1>7, <1>8, <1>9, <1>10, <1>11, <1>12 DEF Inv
-----------------------------------------------------------------------------
LEMMA NextInv == Inv /\ [Next]_vars => Inv'
<1> SUFFICES ASSUME Inv, [Next]_vars PROVE Inv'
  OBVIOUS
<1>1. CASE ParseAlias
  BY <1>1, ParseAliasKeeps
<1>2. CASE AliasesParsed
  BY <1>2, AliasesParsedKeeps
<1>3. CASE SymbolsParsed
  BY <1>3, SymbolsParsedKeeps
<1>4. CASE FromNode
  BY <1>4, FromNodeKeeps
<1>5. ASSUME NEW path \in Paths, LookUp(path) PROVE Inv'
  BY <1>5, LookUpKeeps
<1>6. CASE UNCHANGED vars
  <2>1. /\ doc' = doc /\ phase' = phase /\ read' = read /\ fresh' = fresh /\ stored' = stored
        /\ aliases' = aliases /\ console' = console /\ last' = last /\ out' = out
    BY <1>6 DEF vars
  <2>2. /\ List' = List /\ Literal' = Literal
        /\ Used(doc.symbols)' = Used(doc.symbols)
        /\ \A name : LiteralPaths(name)' = LiteralPaths(name)
        /\ \A name : SymbolPaths(name)' = SymbolPaths(name)
        /\ \A name : IsRespelled(name)' <=> IsRespelled(name)
    BY <2>1 DEF List, Literal, Used, LiteralPaths, SymbolPaths, FullPaths, IsRespelled
  <2>3. \A l, n, m : AllLead(l, n, m)' <=> AllLead(l, n, m)
    BY <2>1 DEF AllLead, Leads
  <2>4. \A chosen : IsSound(chosen)' <=> IsSound(chosen)
    BY <2>1, <2>2 DEF IsSound, Leads
  <2>5. SymbolsLead' <=> SymbolsLead
    BY <2>1 DEF SymbolsLead, FullPaths, LiteralPaths, Literal
  <2>6. Shape' /\ Stage'
    BY <2>1, <2>2 DEF Inv, Shape, Stage, LeadsToNodes, Pairs, Unasked
  <2>7. Gathered'
    <3>1. AreOf(fresh, List, read, aliases)' <=> AreOf(fresh', List', read', aliases')
      BY DEF AreOf, UsedBy, AtFullPath, FullPath
    <3>2. AreOf(stored, doc.aliases, Len(doc.aliases), <<>>)'
            <=> AreOf(stored', doc'.aliases, Len(doc'.aliases), <<>>)
      BY DEF AreOf, UsedBy, AtFullPath, FullPath
    <3> QED
      BY <2>1, <2>2, <3>1, <3>2 DEF Inv, Gathered
  <2>8. AliasesAreFullPaths' /\ ConsoleIsWhatChosenSays'
    BY <2>1, <2>2 DEF Inv, AliasesAreFullPaths, ConsoleIsWhatChosenSays
  <2>9. LookupsFollowThePath'
    BY <2>1, <2>2 DEF Inv, LookupsFollowThePath, Leads
  <2>10. VerdictIsExact'
    BY <2>1, <2>2, <2>3, <2>4, <2>5 DEF Inv, VerdictIsExact
  <2> QED
    BY <2>6, <2>7, <2>8, <2>9, <2>10 DEF Inv
<1> QED
  BY <1>1, <1>2, <1>3, <1>4, <1>5, <1>6 DEF Next

LEMMA SpecInv == Spec => []Inv
BY InitInv, NextInv, PTL DEF Spec

(* Aliases, console and finds are device nodes of the tree                 *)
(* (src/src/node/root.rs:209, src/src/node/root.rs:255).                   *)
THEOREM TypeCorrect == Spec => []TypeOK
<1>1. Inv => TypeOK
  BY ShapeIsType DEF Inv
<1> QED
  BY <1>1, SpecInv, PTL

(* Each alias is the node at its own literal path, and each symbol the one *)
(* its path leads to through the aliases, whatever order the entries are   *)
(* in (src/src/node/root.rs:55, src/src/node/root.rs:400).                 *)
THEOREM AliasesAlwaysFullPaths == Spec => []AliasesAreFullPaths
<1>1. Inv => AliasesAreFullPaths
  BY DEF Inv
<1> QED
  BY <1>1, SpecInv, PTL

(* `find_str` of a finished tree is exactly the lookup in the set of its   *)
(* paths, the first name replaced if it is an alias                        *)
(* (src/src/node/root.rs:255, src/src/node/mod.rs:191).                    *)
THEOREM LookupsAlwaysFollowThePath == Spec => []LookupsFollowThePath
<1>1. Inv => LookupsFollowThePath
  BY DEF Inv
<1> QED
  BY <1>1, SpecInv, PTL

(* The console is where `/chosen` says, input at output's node by default  *)
(* (src/src/node/chosen.rs:78).                                            *)
THEOREM ConsoleAlwaysWhatChosenSays == Spec => []ConsoleIsWhatChosenSays
<1>1. Inv => ConsoleIsWhatChosenSays
  BY DEF Inv
<1> QED
  BY <1>1, SpecInv, PTL

(* Parsing fails at the first entry that leads nowhere, or at `/chosen`,   *)
(* and only then (src/src/node/root.rs:55, src/src/node/chosen.rs:78).     *)
THEOREM VerdictAlwaysExact == Spec => []VerdictIsExact
<1>1. Inv => VerdictIsExact
  BY DEF Inv
<1> QED
  BY <1>1, SpecInv, PTL
=============================================================================
