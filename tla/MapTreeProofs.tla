-------------------------- MODULE MapTreeProofs --------------------------
(***************************************************************************)
(* Proofs about the sorted array (SortedMap), for every set of keys and    *)
(* values and every collection of batches, and about the loop over the     *)
(* tokens (StructBlock), which sorts the children of a node the same way,  *)
(* for every set of names and property names and every bound.              *)
(***************************************************************************)
EXTENDS SortedMap, StructBlock, CommonLemmas, FiniteSetTheorems

-----------------------------------------------------------------------------
(* Every entry has an integer for a key.                                   *)
LEMMA KeysAreIntegers ==
  ASSUME NEW c \in Seq(Entries)
  PROVE  Len(c) \in Nat /\ \A j \in 1..Len(c) : c[j] \in Entries /\ c[j].key \in Int
<1>1. Len(c) \in Nat
  OBVIOUS
<1>2. ASSUME NEW j \in 1..Len(c) PROVE c[j] \in Entries /\ c[j].key \in Int
  <2>1. c[j] \in Entries
    BY ElementOfSeq
  <2>2. c[j].key \in Keys
    BY <2>1 DEF Entries
  <2> QED
    BY <2>1, <2>2, KeysAssumption
<1> QED
  BY <1>1, <1>2

(* Every key on its left is smaller and every key on its right is larger:  *)
(* an entry added in a gap keeps the order and is the only one of its key. *)
LEMMA AddKeepsOrder ==
  ASSUME NEW c \in Seq(Entries), IsSortedByKey(c),
         NEW k \in Keys, NEW v \in Vals, NEW i \in Gaps(c, k)
  PROVE  /\ InsertAt(c, i, Entry(k, v)) \in Seq(Entries)
         /\ Len(InsertAt(c, i, Entry(k, v))) = Len(c) + 1
         /\ IsSortedByKey(InsertAt(c, i, Entry(k, v)))
         /\ HasUniqueKeys(c) => HasUniqueKeys(InsertAt(c, i, Entry(k, v)))
<1> DEFINE e == Entry(k, v)
           d == InsertAt(c, i, e)
<1>1. e \in Entries /\ e.key = k /\ k \in Int
  BY KeysAssumption DEF Entry, Entries
<1>2. /\ i \in 1..Len(c) + 1
      /\ \A j \in 1..Len(c) : j < i => c[j].key < k
      /\ \A j \in 1..Len(c) : i <= j => k < c[j].key
  BY DEF Gaps
<1>3. /\ Len(c) \in Nat
      /\ \A j \in 1..Len(c) : c[j].key \in Int
  BY KeysAreIntegers
<1> HIDE DEF e
<1>4. /\ d \in Seq(Entries) /\ Len(d) = Len(c) + 1
      /\ \A j \in 1..Len(c) + 1 :
           d[j] = IF j < i THEN c[j] ELSE IF j = i THEN e ELSE c[j - 1]
  <2> HIDE DEF d
  <2>1. e \in Entries
    BY <1>1
  <2>2. i \in 1..Len(c) + 1
    BY <1>2
  <2>3. d = InsertAt(c, i, e)
    BY DEF d
  <2>4. /\ InsertAt(c, i, e) \in Seq(Entries)
        /\ Len(InsertAt(c, i, e)) = Len(c) + 1
        /\ \A j \in 1..Len(c) + 1 :
             InsertAt(c, i, e)[j] = IF j < i THEN c[j] ELSE IF j = i THEN e ELSE c[j - 1]
    BY <2>1, <2>2, InsertAtProperties, SMTT(60)
  <2> QED
    BY <2>3, <2>4
<1> HIDE DEF d
<1>5. \A a \in 1..Len(c) + 1 :
        d[a].key = IF a < i THEN c[a].key ELSE IF a = i THEN k ELSE c[a - 1].key
  BY <1>1, <1>4
<1>6. \A a, b \in 1..Len(c) : a < b => c[a].key <= c[b].key
  BY DEF IsSortedByKey
<1>7. ASSUME NEW a \in 1..Len(c) + 1, NEW b \in 1..Len(c) + 1, a < b
      PROVE  d[a].key <= d[b].key
  <2>1. CASE b < i
    BY <1>2, <1>3, <1>5, <1>6, <1>7, <2>1
  <2>2. CASE b = i
    <3>1. a \in 1..Len(c) /\ a < i
      BY <1>2, <1>3, <1>7, <2>2
    <3>2. c[a].key < k /\ c[a].key \in Int
      BY <1>2, <1>3, <3>1
    <3>3. d[a].key = c[a].key /\ d[b].key = k
      BY <1>2, <1>5, <2>2, <3>1
    <3> QED
      BY <1>1, <3>2, <3>3
  <2>3. CASE b > i
    <3>1. b - 1 \in 1..Len(c) /\ i <= b - 1 /\ d[b].key = c[b - 1].key
      BY <1>2, <1>3, <1>5, <2>3
    <3>2. k < c[b - 1].key
      BY <1>2, <3>1
    <3>3. CASE a < i
      <4>1. a \in 1..Len(c) /\ d[a].key = c[a].key /\ c[a].key < k
        BY <1>2, <1>3, <1>5, <3>3
      <4> QED
        BY <1>1, <1>3, <3>1, <3>2, <4>1
    <3>4. CASE a = i
      <4>1. d[a].key = k
        BY <1>2, <1>5, <3>4
      <4> QED
        BY <1>1, <1>3, <3>1, <3>2, <4>1
    <3>5. CASE a > i
      <4>1. a - 1 \in 1..Len(c) /\ a - 1 < b - 1 /\ d[a].key = c[a - 1].key
        BY <1>2, <1>3, <1>5, <1>7, <3>5
      <4> QED
        BY <1>6, <3>1, <4>1
    <3> QED
      BY <1>2, <3>3, <3>4, <3>5
  <2> QED
    BY <1>2, <2>1, <2>2, <2>3
<1>8. ASSUME HasUniqueKeys(c),
             NEW a \in 1..Len(c) + 1, NEW b \in 1..Len(c) + 1,
             d[a].key = d[b].key
      PROVE  a = b
  <2>1. \A x, y \in 1..Len(c) : c[x].key = c[y].key => x = y
    BY <1>8 DEF HasUniqueKeys
  <2>2. \A x \in 1..Len(c) : c[x].key # k
    <3> SUFFICES ASSUME NEW x \in 1..Len(c) PROVE c[x].key # k
      OBVIOUS
    <3>1. CASE x < i
      BY <1>1, <1>2, <1>3, <3>1
    <3>2. CASE i <= x
      BY <1>1, <1>2, <1>3, <3>2
    <3> QED
      BY <1>2, <3>1, <3>2
  <2>3. CASE a < i
    BY <1>2, <1>3, <1>5, <1>8, <2>1, <2>2, <2>3
  <2>4. CASE a = i
    BY <1>2, <1>3, <1>5, <1>8, <2>2, <2>4
  <2>5. CASE a > i
    BY <1>2, <1>3, <1>5, <1>8, <2>1, <2>2, <2>5
  <2> QED
    BY <1>2, <2>3, <2>4, <2>5
<1> QED
  BY <1>4, <1>7, <1>8 DEF IsSortedByKey, HasUniqueKeys, d, e

LEMMA RemoveKeepsOrder ==
  ASSUME NEW c \in Seq(Entries), IsSortedByKey(c), NEW i \in 1..Len(c)
  PROVE  /\ RemoveAt(c, i) \in Seq(Entries)
         /\ Len(RemoveAt(c, i)) = Len(c) - 1
         /\ IsSortedByKey(RemoveAt(c, i))
         /\ HasUniqueKeys(c) => HasUniqueKeys(RemoveAt(c, i))
<1> DEFINE d == RemoveAt(c, i)
<1> HIDE DEF d
<1>1. /\ d \in Seq(Entries) /\ Len(d) = Len(c) - 1
      /\ \A j \in 1..Len(c) - 1 : d[j] = IF j < i THEN c[j] ELSE c[j + 1]
  BY RemoveAtProperties DEF d
<1>2. Len(c) \in Nat
  OBVIOUS
<1>3. ASSUME NEW a \in 1..Len(d), NEW b \in 1..Len(d), a < b
      PROVE  d[a].key <= d[b].key
  <2> DEFINE x == IF a < i THEN a ELSE a + 1
             y == IF b < i THEN b ELSE b + 1
  <2>1. x \in 1..Len(c) /\ y \in 1..Len(c) /\ x < y
    BY <1>1, <1>2, <1>3
  <2>2. d[a] = c[x] /\ d[b] = c[y]
    BY <1>1, <1>2
  <2> HIDE DEF x, y
  <2> QED
    BY <2>1, <2>2 DEF IsSortedByKey
<1>4. ASSUME HasUniqueKeys(c),
             NEW a \in 1..Len(d), NEW b \in 1..Len(d), d[a].key = d[b].key
      PROVE  a = b
  BY <1>1, <1>2, <1>4 DEF HasUniqueKeys
<1> QED
  BY <1>1, <1>3, <1>4 DEF IsSortedByKey, HasUniqueKeys, d

LEMMA ReplaceKeepsOrder ==
  ASSUME NEW c \in Seq(Entries), IsSortedByKey(c),
         NEW i \in 1..Len(c), NEW v \in Vals
  PROVE  /\ [c EXCEPT ![i].val = v] \in Seq(Entries)
         /\ Len([c EXCEPT ![i].val = v]) = Len(c)
         /\ IsSortedByKey([c EXCEPT ![i].val = v])
         /\ HasUniqueKeys(c) => HasUniqueKeys([c EXCEPT ![i].val = v])
<1> DEFINE e == [c[i] EXCEPT !.val = v]
           d == [c EXCEPT ![i] = e]
<1>1. e \in Entries /\ e.key = c[i].key
  <2>1. c[i] \in [key : Keys, val : Vals]
    BY KeysAreIntegers DEF Entries
  <2> QED
    BY <2>1 DEF Entries
<1>2. d = [c EXCEPT ![i].val = v]
  OBVIOUS
<1> HIDE DEF e
<1>3. /\ d \in Seq(Entries) /\ Len(d) = Len(c)
      /\ \A j \in 1..Len(c) : d[j] = IF j = i THEN e ELSE c[j]
  BY <1>1, ExceptSeq
<1> HIDE DEF d
<1>4. \A j \in 1..Len(c) : d[j].key = c[j].key
  BY <1>1, <1>3
<1> QED
  BY <1>2, <1>3, <1>4 DEF IsSortedByKey, HasUniqueKeys
-----------------------------------------------------------------------------
(* What the two arms of an insertion do to the array.                      *)
LEMMA ReplaceStep ==
  ASSUME MapTypeOK, ContentsSorted,
         NEW k \in Keys, NEW v \in Vals, NEW i \in Matches(contents, k),
         ReplaceAtIndex(i, v)
  PROVE  /\ contents' \in Seq(Entries)
         /\ Len(contents') = Len(contents)
         /\ IsSortedByKey(contents')
         /\ HasUniqueKeys(contents) => HasUniqueKeys(contents')
<1>1. i \in 1..Len(contents)
  BY DEF Matches
<1>2. contents \in Seq(Entries) /\ IsSortedByKey(contents)
  BY DEF MapTypeOK, ContentsSorted
<1>3. contents' = [contents EXCEPT ![i].val = v]
  BY DEF ReplaceAtIndex
<1> QED
  BY <1>1, <1>2, <1>3, ReplaceKeepsOrder

LEMMA AddStep ==
  ASSUME MapTypeOK, ContentsSorted, NEW k \in Keys, NEW v \in Vals, Add(k, v)
  PROVE  /\ contents' \in Seq(Entries)
         /\ Len(contents') = Len(contents) + 1
         /\ IsSortedByKey(contents')
         /\ HasUniqueKeys(contents) => HasUniqueKeys(contents')
<1>1. contents \in Seq(Entries) /\ IsSortedByKey(contents)
  BY DEF MapTypeOK, ContentsSorted
<1>2. PICK i \in Gaps(contents, k) :
        contents' = InsertAt(contents, i, Entry(k, v))
  BY DEF Add
<1> QED
  BY <1>1, <1>2, AddKeepsOrder

(* What removing the element at an index does to it.                       *)
LEMMA RemoveStep ==
  ASSUME MapTypeOK, ContentsSorted,
         NEW i \in 1..Len(contents), contents' = RemoveAt(contents, i)
  PROVE  /\ contents' \in Seq(Entries)
         /\ Len(contents') = Len(contents) - 1
         /\ IsSortedByKey(contents')
         /\ HasUniqueKeys(contents) => HasUniqueKeys(contents')
<1>1. contents \in Seq(Entries) /\ IsSortedByKey(contents)
  BY DEF MapTypeOK, ContentsSorted
<1> QED
  BY <1>1, RemoveKeepsOrder

(* The element a loop is about to insert is an entry.                      *)
LEMMA HeadIsEntry ==
  ASSUME MapTypeOK, loop.todo # <<>>
  PROVE  /\ Head(loop.todo) \in Entries
         /\ Head(loop.todo).key \in Keys /\ Head(loop.todo).val \in Vals
<1>1. loop.todo \in Seq(Entries)
  BY DEF MapTypeOK, Loops
<1>2. Head(loop.todo) \in Entries
  BY <1>1, HeadTailProperties
<1> QED
  BY <1>2 DEF Entries

LEMMA NextTodoShape ==
  ASSUME MapTypeOK, loop.todo # <<>>, loop' = NextTodo
  PROVE  loop' \in Loops /\ (loop'.at = 1 \/ loop'.at = loop.at)
<1>1. loop \in Loops /\ loop.todo \in Seq(Entries)
  BY DEF MapTypeOK, Loops
<1>2. Tail(loop.todo) \in Seq(Entries)
  BY <1>1, HeadTailProperties
<1>3. Idle \in Loops /\ Idle.at = 1
  BY DEF Idle, Loop, Loops
<1> DEFINE t == Tail(loop.todo)
<1>4. [loop EXCEPT !.todo = t] \in Loops /\ [loop EXCEPT !.todo = t].at = loop.at
  <2> HIDE DEF t
  <2>1. t \in Seq(Entries)
    BY <1>2 DEF t
  <2> QED
    BY <1>1, <2>1 DEF Loops
<1> QED
  BY <1>3, <1>4 DEF NextTodo
-----------------------------------------------------------------------------
BatchesDistinct == \A batch \in Batches : HasUniqueKeys(batch)

(* The inductive invariant: sortedness is what makes the next search land  *)
(* on a gap that keeps the array sorted.                                   *)
MapInv == MapTypeOK /\ ContentsSorted

LEMMA MapInitInv == MapInit => MapInv /\ KeysDistinct
  BY DEF MapInit, MapInv, MapTypeOK, ContentsSorted, KeysDistinct, Idle, Loop, Loops,
         IsSortedByKey, HasUniqueKeys

(* No step breaks the inductive invariant; distinct keys stay distinct if  *)
(* whatever is collected has distinct keys.                                *)
LEMMA MapNextInv ==
  ASSUME MapInv, MapNext
  PROVE  MapInv' /\ (BatchesDistinct /\ KeysDistinct => KeysDistinct')
<1> USE DEF MapInv
<1>0. /\ contents \in Seq(Entries) /\ Len(contents) \in Nat
      /\ \A i \in 1..Len(contents) : contents[i].val \in Vals
      /\ IsSortedByKey(contents)
      /\ loop \in Loops /\ loop.at \in Nat \ {0} /\ loop.at <= Len(contents) + 1
      /\ ret \in Vals \cup {None}
      /\ Idle \in Loops /\ Idle.at = 1
  <2>1. ASSUME NEW i \in 1..Len(contents) PROVE contents[i].val \in Vals
    <3>1. contents[i] \in Entries
      BY KeysAreIntegers DEF MapTypeOK
    <3> QED
      BY <3>1 DEF Entries
  <2>2. Idle \in Loops /\ Idle.at = 1
    BY DEF Idle, Loop, Loops
  <2> QED
    BY <2>1, <2>2 DEF MapTypeOK, ContentsSorted, Loops
<1> DEFINE Good == /\ contents' \in Seq(Entries)
                   /\ IsSortedByKey(contents')
                   /\ BatchesDistinct /\ HasUniqueKeys(contents)
                        => HasUniqueKeys(contents')
           Shape == /\ ret' \in Vals \cup {None}
                    /\ loop' \in Loops
                    /\ loop'.at <= Len(contents') + 1
<1>1. ASSUME Good, Shape
      PROVE  MapInv' /\ (BatchesDistinct /\ KeysDistinct => KeysDistinct')
  BY <1>1 DEF MapTypeOK, ContentsSorted, KeysDistinct
<1>2. ASSUME NEW k \in Keys, NEW v \in Vals, Insert(k, v) PROVE Good /\ Shape
  <2>1. loop = Idle /\ loop' = Idle
    BY <1>2 DEF Insert, Fits
  <2>2. ASSUME NEW i \in Matches(contents, k),
               ReplaceAtIndex(i, v), ret' = contents[i].val
        PROVE  Good /\ Shape
    <3>1. i \in 1..Len(contents)
      BY DEF Matches
    <3> QED
      BY <1>0, <2>1, <2>2, <3>1, ReplaceStep
  <2>3. ASSUME Add(k, v), ret' = None PROVE Good /\ Shape
    BY <1>0, <2>1, <2>3, AddStep
  <2> QED
    BY <1>2, <2>2, <2>3 DEF Insert
<1>3. ASSUME NEW k \in Keys, RemoveKey(k) PROVE Good /\ Shape
  <2>1. loop = Idle /\ loop' = Idle
    BY <1>3 DEF RemoveKey, Fits
  <2>2. ASSUME NEW i \in Matches(contents, k),
               contents' = RemoveAt(contents, i), ret' = contents[i].val
        PROVE  Good /\ Shape
    <3>1. i \in 1..Len(contents)
      BY DEF Matches
    <3> QED
      BY <1>0, <2>1, <2>2, <3>1, RemoveStep
  <2>3. CASE contents' = contents /\ ret' = None
    BY <1>0, <2>1, <2>3
  <2> QED
    BY <1>3, <2>2, <2>3 DEF RemoveKey
<1>4. ASSUME NEW k \in Keys, Get(k) PROVE Good /\ Shape
  <2>1. contents' = contents /\ loop' = loop
    BY <1>4 DEF Get
  <2>2. ret' \in Vals \cup {None}
    BY <1>0, <1>4 DEF Get, Matches
  <2> QED
    BY <1>0, <2>1, <2>2
<1>5. ASSUME NEW batch \in Batches, FromIter(batch) PROVE Good /\ Shape
  <2>1. batch \in Seq(Entries)
    BY BatchesAssumption
  <2>2. /\ contents' \in Seq(Entries) /\ Len(contents') = Len(batch)
        /\ IsSortedByKey(contents')
        /\ HasUniqueKeys(batch) => HasUniqueKeys(contents')
    BY <1>5, <2>1, SortedPermutationProperties DEF FromIter
  <2>3. loop = Idle /\ loop' = Idle /\ ret' = None
    BY <1>5 DEF FromIter, Fits
  <2> QED
    BY <1>0, <2>1, <2>2, <2>3 DEF BatchesDistinct
<1>6. ASSUME NEW batch \in Batches, ExtendStart(batch) PROVE Good /\ Shape
  <2>1. loop' \in Loops /\ loop'.at = 1
    BY <1>6, BatchesAssumption DEF ExtendStart, Loop, Loops
  <2>2. contents' = contents /\ ret' = ret
    BY <1>6 DEF ExtendStart
  <2> QED
    BY <1>0, <2>1, <2>2
<1>7. ASSUME NEW batch \in Batches, PreserveStart(batch) PROVE Good /\ Shape
  <2>1. PICK other \in SortedPermutations(batch) :
          loop' = Loop("preserve", other, {})
    BY <1>7 DEF PreserveStart
  <2>2. other \in Seq(Entries)
    BY BatchesAssumption, SortedPermutationProperties
  <2>3. loop' \in Loops /\ loop'.at = 1
    BY <2>1, <2>2 DEF Idle, Loop, Loops
  <2>4. contents' = contents /\ ret' = ret
    BY <1>7 DEF PreserveStart
  <2> QED
    BY <1>0, <2>3, <2>4
<1>8. ASSUME NEW drop \in SUBSET Keys, ExtractStart(drop) PROVE Good /\ Shape
  <2>1. loop' \in Loops /\ loop'.at = 1
    BY <1>8 DEF ExtractStart, Loop, Loops
  <2>2. contents' = contents /\ ret' = ret
    BY <1>8 DEF ExtractStart
  <2> QED
    BY <1>0, <2>1, <2>2
<1>9. ASSUME ExtendStep PROVE Good /\ Shape
  <2> DEFINE e == Head(loop.todo)
  <2>1. loop.todo # <<>> /\ loop' = NextTodo /\ ret' = ret
    BY <1>9 DEF ExtendStep
  <2>2. e.key \in Keys /\ e.val \in Vals
    BY <2>1, HeadIsEntry
  <2>3. loop' \in Loops /\ (loop'.at = 1 \/ loop'.at = loop.at)
    BY <2>1, NextTodoShape
  <2>4. \/ \E i \in Matches(contents, e.key) : ReplaceAtIndex(i, e.val)
        \/ Add(e.key, e.val)
    BY <1>9 DEF ExtendStep
  <2> HIDE DEF e
  <2>5. Good /\ Len(contents') \in {Len(contents), Len(contents) + 1}
    BY <2>2, <2>4, ReplaceStep, AddStep
  <2> QED
    BY <1>0, <2>1, <2>3, <2>5
<1>10. ASSUME PreserveStep PROVE Good /\ Shape
  <2> DEFINE e == Head(loop.todo)
  <2>1. loop.todo # <<>> /\ loop' = NextTodo /\ ret' = ret
    BY <1>10 DEF PreserveStep
  <2>2. e.key \in Keys /\ e.val \in Vals
    BY <2>1, HeadIsEntry
  <2>3. loop' \in Loops /\ (loop'.at = 1 \/ loop'.at = loop.at)
    BY <2>1, NextTodoShape
  <2>4. contents' = contents \/ Add(e.key, e.val)
    BY <1>10 DEF PreserveStep
  <2> HIDE DEF e
  <2>5. Good /\ Len(contents') \in {Len(contents), Len(contents) + 1}
    BY <1>0, <2>2, <2>4, AddStep
  <2> QED
    BY <1>0, <2>1, <2>3, <2>5
<1>11. ASSUME LoopOverNothing PROVE Good /\ Shape
  BY <1>0, <1>11 DEF LoopOverNothing
<1>12. ASSUME ExtractStep PROVE Good /\ Shape
  <2>1. loop.at \in 1..Len(contents)
    BY <1>0, <1>12 DEF ExtractStep
  <2>2. CASE contents[loop.at].key \in loop.drop
    <3>1. /\ contents' = RemoveAt(contents, loop.at)
          /\ ret' = contents[loop.at].val /\ loop' = loop
      BY <1>12, <2>2 DEF ExtractStep
    <3>2. Good /\ Len(contents') = Len(contents) - 1
      BY <2>1, <3>1, RemoveStep
    <3> QED
      BY <1>0, <2>1, <3>1, <3>2
  <2>3. CASE contents[loop.at].key \notin loop.drop
    <3>1. /\ contents' = contents /\ ret' = ret
          /\ loop' = [loop EXCEPT !.at = loop.at + 1]
      BY <1>12, <2>3 DEF ExtractStep
    <3> DEFINE n == loop.at + 1
    <3>2. loop' = [loop EXCEPT !.at = n] /\ n \in Nat \ {0}
      BY <1>0, <3>1
    <3> HIDE DEF n
    <3>3. loop' \in Loops /\ loop'.at = n
      BY <1>0, <3>2 DEF Loops
    <3> USE DEF n
    <3> QED
      BY <1>0, <2>1, <3>1, <3>3
  <2> QED
    BY <2>2, <2>3
<1>13. ASSUME ExtractEnd PROVE Good /\ Shape
  BY <1>0, <1>13 DEF ExtractEnd
<1> HIDE DEF Good, Shape
<1> QED
  BY <1>1, <1>2, <1>3, <1>4, <1>5, <1>6, <1>7, <1>8, <1>9, <1>10, <1>11,
     <1>12, <1>13 DEF MapNext

LEMMA MapStutterInv ==
  MapInv /\ UNCHANGED mapVars => MapInv' /\ (KeysDistinct => KeysDistinct')
  BY DEF MapInv, mapVars, MapTypeOK, ContentsSorted, KeysDistinct

LEMMA MapSpecInv == MapSpec => []MapInv
<1>1. MapInv /\ [MapNext]_mapVars => MapInv'
  BY MapNextInv, MapStutterInv
<1> QED
  BY MapInitInv, <1>1, PTL DEF MapSpec

(* The variables keep their types and `extract_if` stays in range.         *)
THEOREM MapTypeCorrect == MapSpec => []MapTypeOK
<1>1. MapInv => MapTypeOK
  BY DEF MapInv
<1> QED
  BY MapSpecInv, <1>1, PTL

(* The array is sorted after every step of every method, whatever the      *)
(* iterators yield: every search the code makes is of a sorted array.      *)
THEOREM AlwaysSorted == MapSpec => []ContentsSorted
<1>1. MapInv => ContentsSorted
  BY DEF MapInv
<1> QED
  BY MapSpecInv, <1>1, PTL

(* If what is collected has pairwise distinct keys, no method ever stores  *)
(* a key twice.                                                            *)
THEOREM AlwaysDistinct == BatchesDistinct /\ MapSpec => []KeysDistinct
<1> SUFFICES ASSUME BatchesDistinct PROVE MapSpec => []KeysDistinct
  OBVIOUS
<1>1. MapInv /\ KeysDistinct /\ [MapNext]_mapVars => KeysDistinct'
  BY MapNextInv, MapStutterInv
<1> QED
  BY MapInitInv, MapSpecInv, <1>1, PTL DEF MapSpec
-----------------------------------------------------------------------------
(* An array without repeated keys, read as the map it stands for.          *)
LEMMA FunctionOfProperties ==
  ASSUME NEW c \in Seq(Entries), HasUniqueKeys(c)
  PROVE  /\ DOMAIN FunctionOf(c) = KeysOf(c)
         /\ FunctionOf(c) = [k \in KeysOf(c) |-> FunctionOf(c)[k]]
         /\ \A i \in 1..Len(c) : c[i].key \in KeysOf(c) /\ FunctionOf(c)[c[i].key] = c[i].val
<1>1. ASSUME NEW i \in 1..Len(c)
      PROVE  c[i].key \in KeysOf(c) /\ FunctionOf(c)[c[i].key] = c[i].val
  <2> DEFINE j == CHOOSE j \in 1..Len(c) : c[j].key = c[i].key
  <2>1. j \in 1..Len(c) /\ c[j].key = c[i].key
    OBVIOUS
  <2>2. j = i
    BY <2>1 DEF HasUniqueKeys
  <2>3. c[i].key \in KeysOf(c)
    BY DEF KeysOf
  <2>4. FunctionOf(c)[c[i].key] = c[j].val
    BY <2>3 DEF FunctionOf
  <2> QED
    BY <2>2, <2>3, <2>4
<1>2. DOMAIN FunctionOf(c) = KeysOf(c)
  BY DEF FunctionOf
<1>3. FunctionOf(c) = [k \in KeysOf(c) |-> FunctionOf(c)[k]]
  <2> DEFINE val(k) == c[CHOOSE i \in 1..Len(c) : c[i].key = k].val
  <2>1. FunctionOf(c) = [k \in KeysOf(c) |-> val(k)]
    BY DEF FunctionOf
  <2> HIDE DEF val
  <2> QED
    BY <2>1
<1> QED
  BY <1>1, <1>2, <1>3

(* It is the only function that holds the array's entries and no others.   *)
LEMMA FunctionOfIs ==
  ASSUME NEW c \in Seq(Entries), HasUniqueKeys(c),
         NEW f, f = [k \in DOMAIN f |-> f[k]],
         \A i \in 1..Len(c) : c[i].key \in DOMAIN f /\ f[c[i].key] = c[i].val,
         \A k \in DOMAIN f : \E i \in 1..Len(c) : c[i].key = k
  PROVE  FunctionOf(c) = f
<1> DEFINE g == FunctionOf(c)
<1>1. /\ DOMAIN g = KeysOf(c) /\ g = [k \in KeysOf(c) |-> g[k]]
      /\ \A i \in 1..Len(c) : g[c[i].key] = c[i].val
  BY FunctionOfProperties
<1>2. KeysOf(c) = DOMAIN f
  BY DEF KeysOf
<1> HIDE DEF g
<1>3. \A k \in DOMAIN f : g[k] = f[k]
  BY <1>1
<1>4. g = f
  BY <1>1, <1>2, <1>3
<1> QED
  BY <1>4 DEF g

(* A binary search that finds an entry says the key is known, and one that *)
(* finds a gap says it is not.                                             *)
LEMMA SearchIsExact ==
  ASSUME NEW c \in Seq(Entries), IsSortedByKey(c), HasUniqueKeys(c), NEW k \in Keys
  PROVE  /\ \A i \in Matches(c, k) : k \in KeysOf(c) /\ FunctionOf(c)[k] = c[i].val
         /\ Gaps(c, k) # {} => k \notin KeysOf(c)
<1>1. ASSUME NEW i \in Matches(c, k)
      PROVE  k \in KeysOf(c) /\ FunctionOf(c)[k] = c[i].val
  <2>1. i \in 1..Len(c) /\ c[i].key = k
    BY DEF Matches
  <2> QED
    BY <2>1, FunctionOfProperties
<1>2. ASSUME NEW g \in Gaps(c, k) PROVE k \notin KeysOf(c)
  <2>1. /\ g \in Int
        /\ \A j \in 1..Len(c) : j < g => c[j].key < k
        /\ \A j \in 1..Len(c) : g <= j => k < c[j].key
    BY KeysAreIntegers DEF Gaps
  <2>2. ASSUME NEW j \in 1..Len(c), c[j].key = k PROVE FALSE
    BY <2>1, <2>2, KeysAreIntegers
  <2> QED
    BY <2>2 DEF KeysOf
<1> QED
  BY <1>1, <1>2

LEMMA ReplaceIsUpdate ==
  ASSUME NEW c \in Seq(Entries), IsSortedByKey(c), HasUniqueKeys(c),
         NEW k \in Keys, NEW v \in Vals, NEW i \in Matches(c, k)
  PROVE  FunctionOf([c EXCEPT ![i].val = v]) = With(FunctionOf(c), k, v)
<1> DEFINE e == [c[i] EXCEPT !.val = v]
           d == [c EXCEPT ![i] = e]
           f == With(FunctionOf(c), k, v)
<1>1. i \in 1..Len(c) /\ c[i].key = k
  BY DEF Matches
<1>2. e \in Entries /\ e.key = k /\ e.val = v
  <2>1. c[i] \in [key : Keys, val : Vals]
    BY <1>1, KeysAreIntegers DEF Entries
  <2> QED
    BY <1>1, <2>1 DEF Entries
<1>3. d = [c EXCEPT ![i].val = v]
  OBVIOUS
<1>4. d \in Seq(Entries) /\ HasUniqueKeys(d)
  BY <1>1, <1>3, ReplaceKeepsOrder
<1> HIDE DEF e
<1>5. Len(d) = Len(c) /\ \A j \in 1..Len(c) : d[j] = IF j = i THEN e ELSE c[j]
  BY <1>1, <1>2, ExceptSeq
<1> HIDE DEF d
<1>6. /\ DOMAIN f = KeysOf(c) /\ f = [x \in DOMAIN f |-> f[x]]
      /\ \A x \in KeysOf(c) : f[x] = IF x = k THEN v ELSE FunctionOf(c)[x]
  <2>1. DOMAIN FunctionOf(c) = KeysOf(c) /\ k \in KeysOf(c)
    BY <1>1, FunctionOfProperties
  <2> QED
    BY <2>1 DEF With
<1> HIDE DEF f
<1>7. ASSUME NEW j \in 1..Len(d)
      PROVE  d[j].key \in DOMAIN f /\ f[d[j].key] = d[j].val /\ d[j].key = c[j].key
  <2>1. c[j].key \in KeysOf(c) /\ FunctionOf(c)[c[j].key] = c[j].val
    BY <1>5, FunctionOfProperties
  <2>2. CASE j = i
    BY <1>1, <1>2, <1>5, <1>6, <2>1, <2>2
  <2>3. CASE j # i
    <3>1. c[j].key # k
      BY <1>1, <1>5, <2>3 DEF HasUniqueKeys
    <3> QED
      BY <1>5, <1>6, <2>1, <2>3, <3>1
  <2> QED
    BY <2>2, <2>3
<1>8. \A x \in DOMAIN f : \E j \in 1..Len(d) : d[j].key = x
  BY <1>5, <1>6, <1>7 DEF KeysOf
<1>9. FunctionOf(d) = f
  BY <1>4, <1>6, <1>7, <1>8, FunctionOfIs
<1> QED
  BY <1>3, <1>9 DEF f

LEMMA AddIsUpdate ==
  ASSUME NEW c \in Seq(Entries), IsSortedByKey(c), HasUniqueKeys(c),
         NEW k \in Keys, NEW v \in Vals, NEW i \in Gaps(c, k)
  PROVE  FunctionOf(InsertAt(c, i, Entry(k, v))) = With(FunctionOf(c), k, v)
<1> DEFINE e == Entry(k, v)
           d == InsertAt(c, i, e)
           f == With(FunctionOf(c), k, v)
<1>1. d \in Seq(Entries) /\ Len(d) = Len(c) + 1 /\ HasUniqueKeys(d)
  BY AddKeepsOrder
<1>2. i \in 1..Len(c) + 1 /\ k \notin KeysOf(c)
  BY SearchIsExact DEF Gaps
<1>3. e \in Entries /\ e.key = k /\ e.val = v
  BY DEF Entry, Entries
<1> HIDE DEF e
<1>4. \A j \in 1..Len(c) + 1 :
        d[j] = IF j < i THEN c[j] ELSE IF j = i THEN e ELSE c[j - 1]
  BY <1>2, <1>3, InsertAtProperties
<1> HIDE DEF d
<1>5. /\ DOMAIN f = KeysOf(c) \cup {k} /\ f = [x \in DOMAIN f |-> f[x]] /\ f[k] = v
      /\ \A x \in KeysOf(c) : f[x] = FunctionOf(c)[x]
  <2>1. DOMAIN FunctionOf(c) = KeysOf(c)
    BY FunctionOfProperties
  <2> QED
    BY <1>2, <2>1 DEF With
<1> HIDE DEF f
<1>6. \A j \in 1..Len(c) : c[j].key \in KeysOf(c) /\ FunctionOf(c)[c[j].key] = c[j].val
  BY FunctionOfProperties
<1>7. ASSUME NEW j \in 1..Len(d)
      PROVE  d[j].key \in DOMAIN f /\ f[d[j].key] = d[j].val
  <2>1. CASE j < i
    <3>1. j \in 1..Len(c) /\ d[j] = c[j]
      BY <1>1, <1>2, <1>4, <2>1
    <3> QED
      BY <1>5, <1>6, <3>1
  <2>2. CASE j = i
    BY <1>1, <1>2, <1>3, <1>4, <1>5, <2>2
  <2>3. CASE j > i
    <3>1. j - 1 \in 1..Len(c) /\ d[j] = c[j - 1]
      BY <1>1, <1>2, <1>4, <2>3
    <3> QED
      BY <1>5, <1>6, <3>1
  <2> QED
    BY <1>2, <2>1, <2>2, <2>3
<1>8. ASSUME NEW x \in DOMAIN f PROVE \E j \in 1..Len(d) : d[j].key = x
  <2>1. CASE x = k
    BY <1>1, <1>2, <1>3, <1>4, <2>1
  <2>2. CASE x \in KeysOf(c)
    <3>1. PICK j \in 1..Len(c) : c[j].key = x
      BY <2>2 DEF KeysOf
    <3>2. CASE j < i
      BY <1>1, <1>2, <1>4, <3>1, <3>2
    <3>3. CASE j >= i
      <4>1. j + 1 \in 1..Len(d) /\ d[j + 1] = c[j]
        BY <1>1, <1>2, <1>4, <3>3
      <4> QED
        BY <3>1, <4>1
    <3> QED
      BY <1>2, <3>2, <3>3
  <2> QED
    BY <1>5, <2>1, <2>2
<1>9. FunctionOf(d) = f
  BY <1>1, <1>5, <1>7, <1>8, FunctionOfIs
<1> QED
  BY <1>9 DEF d, e, f

Less(f, k) == [x \in DOMAIN f \ {k} |-> f[x]]

LEMMA RemoveIsRemoval ==
  ASSUME NEW c \in Seq(Entries), IsSortedByKey(c), HasUniqueKeys(c),
         NEW i \in 1..Len(c)
  PROVE  FunctionOf(RemoveAt(c, i)) = Less(FunctionOf(c), c[i].key)
<1> DEFINE d == RemoveAt(c, i)
           f == Less(FunctionOf(c), c[i].key)
<1>1. d \in Seq(Entries) /\ Len(d) = Len(c) - 1 /\ HasUniqueKeys(d)
  BY RemoveKeepsOrder
<1>2. \A j \in 1..Len(c) - 1 : d[j] = IF j < i THEN c[j] ELSE c[j + 1]
  BY RemoveAtProperties
<1> HIDE DEF d
<1>3. /\ DOMAIN f = KeysOf(c) \ {c[i].key} /\ f = [x \in DOMAIN f |-> f[x]]
      /\ \A x \in DOMAIN f : f[x] = FunctionOf(c)[x]
  <2>1. DOMAIN FunctionOf(c) = KeysOf(c)
    BY FunctionOfProperties
  <2> QED
    BY <2>1 DEF Less
<1> HIDE DEF f
<1>4. ASSUME NEW j \in 1..Len(c), j # i
      PROVE  c[j].key \in DOMAIN f /\ f[c[j].key] = c[j].val
  <2>1. c[j].key # c[i].key
    BY <1>4 DEF HasUniqueKeys
  <2>2. c[j].key \in KeysOf(c) /\ FunctionOf(c)[c[j].key] = c[j].val
    BY FunctionOfProperties
  <2> QED
    BY <1>3, <2>1, <2>2
<1>5. ASSUME NEW j \in 1..Len(d)
      PROVE  d[j].key \in DOMAIN f /\ f[d[j].key] = d[j].val
  <2>1. CASE j < i
    BY <1>1, <1>2, <1>4, <2>1
  <2>2. CASE j >= i
    <3>1. j + 1 \in 1..Len(c) /\ j + 1 # i /\ d[j] = c[j + 1]
      BY <1>1, <1>2, <2>2
    <3> QED
      BY <1>4, <3>1
  <2> QED
    BY <2>1, <2>2
<1>6. ASSUME NEW x \in DOMAIN f PROVE \E j \in 1..Len(d) : d[j].key = x
  <2>1. PICK j \in 1..Len(c) : c[j].key = x /\ j # i
    BY <1>3 DEF KeysOf
  <2>2. CASE j < i
    BY <1>1, <1>2, <2>1, <2>2
  <2>3. CASE j > i
    <3>1. j - 1 \in 1..Len(d) /\ d[j - 1] = c[j]
      BY <1>1, <1>2, <2>3
    <3> QED
      BY <2>1, <3>1
  <2> QED
    BY <2>1, <2>2, <2>3
<1>7. FunctionOf(d) = f
  BY <1>1, <1>3, <1>5, <1>6, FunctionOfIs
<1> QED
  BY <1>7 DEF d, f
-----------------------------------------------------------------------------
(* What each change of the array does to the map it stands for.            *)
LEMMA InsertionAsUpdate ==
  ASSUME MapInv, KeysDistinct, NEW k \in Keys, NEW v \in Vals
  PROVE  /\ \A i \in Matches(contents, k) :
              ReplaceAtIndex(i, v) =>
                FunctionOf(contents') = With(FunctionOf(contents), k, v)
         /\ Add(k, v) => FunctionOf(contents') = With(FunctionOf(contents), k, v)
<1>1. contents \in Seq(Entries) /\ IsSortedByKey(contents) /\ HasUniqueKeys(contents)
  BY DEF MapInv, MapTypeOK, ContentsSorted, KeysDistinct
<1>2. ASSUME NEW i \in Matches(contents, k), ReplaceAtIndex(i, v)
      PROVE  FunctionOf(contents') = With(FunctionOf(contents), k, v)
  BY <1>1, <1>2, ReplaceIsUpdate DEF ReplaceAtIndex
<1>3. ASSUME Add(k, v)
      PROVE  FunctionOf(contents') = With(FunctionOf(contents), k, v)
  BY <1>1, <1>3, AddIsUpdate DEF Add
<1> QED
  BY <1>2, <1>3

(* What a search and the map it stands for say of a key.                   *)
LEMMA SearchFacts ==
  ASSUME MapInv, KeysDistinct, NEW k \in Keys
  PROVE  /\ DOMAIN FunctionOf(contents) = KeysOf(contents)
         /\ \A i \in Matches(contents, k) :
              k \in KeysOf(contents) /\ FunctionOf(contents)[k] = contents[i].val
         /\ Gaps(contents, k) # {} => k \notin KeysOf(contents)
         /\ \A v : Add(k, v) => Gaps(contents, k) # {}
<1>1. contents \in Seq(Entries) /\ IsSortedByKey(contents) /\ HasUniqueKeys(contents)
  BY DEF MapInv, MapTypeOK, ContentsSorted, KeysDistinct
<1>2. \A v : Add(k, v) => Gaps(contents, k) # {}
  BY DEF Add
<1> QED
  BY <1>1, <1>2, FunctionOfProperties, SearchIsExact

LEMMA RemovalAsRemoval ==
  ASSUME MapInv, KeysDistinct, NEW i \in 1..Len(contents),
         contents' = RemoveAt(contents, i)
  PROVE  FunctionOf(contents') = Less(FunctionOf(contents), contents[i].key)
<1>1. contents \in Seq(Entries) /\ IsSortedByKey(contents) /\ HasUniqueKeys(contents)
  BY DEF MapInv, MapTypeOK, ContentsSorted, KeysDistinct
<1> QED
  BY <1>1, RemoveIsRemoval

LEMMA MapInitRefines == MapInit => Abstract!Init
<1> SUFFICES ASSUME MapInit PROVE Abstract!Init
  OBVIOUS
<1>1. contents = <<>> /\ ret = None /\ loop.op = "none"
  BY DEF MapInit, Idle, Loop
<1>2. KeysOf(contents) = {}
  BY <1>1 DEF KeysOf
<1>3. FunctionOf(contents) = [k \in {} |-> None]
  BY <1>2 DEF FunctionOf
<1> QED
  BY <1>1, <1>3 DEF Abstract!Init

LEMMA EntryParts ==
  ASSUME NEW c \in Seq(Entries), NEW i \in 1..Len(c)
  PROVE  c[i].key \in Keys /\ c[i].val \in Vals
<1>1. c[i] \in Entries
  BY ElementOfSeq
<1> QED
  BY <1>1 DEF Entries

(* The loops over entries go on, or are over.                              *)
LEMMA NextTodoOp ==
  ASSUME MapTypeOK, loop' = NextTodo
  PROVE  loop'.op \in {loop.op, "none"}
<1> DEFINE t == Tail(loop.todo)
<1>1. loop' \in {Idle, [loop EXCEPT !.todo = t]}
  BY DEF NextTodo
<1> HIDE DEF t
<1> QED
  BY <1>1 DEF MapTypeOK, Loops, Idle, Loop

(* Every step is one of the abstract map's, or leaves it as it is.         *)
LEMMA MapStepRefines ==
  ASSUME BatchesDistinct, MapInv, KeysDistinct, [MapNext]_mapVars
  PROVE  [Abstract!Next]_(Abstract!vars)
<1> DEFINE F == FunctionOf(contents)
           G == FunctionOf(contents')
<1>1. F' = G
  BY DEF FunctionOf, KeysOf
<1>2. contents' = contents => G = F
  OBVIOUS
<1>3. \A k \in Keys, v \in Vals : Abstract!Updated(k, v) = With(F, k, v)
  BY DEF Abstract!Updated, With
<1>4. \A k \in Keys : Abstract!Without(k) = Less(F, k)
  BY DEF Abstract!Without, Less
<1>5. \A k \in Keys : Abstract!ValueAt(k) = IF k \in KeysOf(contents) THEN F[k] ELSE None
  BY SearchFacts DEF Abstract!ValueAt
<1>6. loop = Idle => loop.op = "none"
  BY DEF Idle, Loop
<1> USE DEF Abstract!Next, Abstract!vars, Abstract!Call
<1>7. CASE UNCHANGED mapVars
  BY <1>1, <1>2, <1>7 DEF mapVars
<1>8. ASSUME NEW k \in Keys, NEW v \in Vals, Insert(k, v) PROVE Abstract!Put(k, v)
  <2>1. loop.op = "none" /\ loop' = loop
    BY <1>6, <1>8 DEF Insert, Fits
  <2>2. G = With(F, k, v)
    BY <1>8, InsertionAsUpdate DEF Insert
  <2>3. ret' = IF k \in KeysOf(contents) THEN F[k] ELSE None
    BY <1>8, SearchFacts DEF Insert
  <2> HIDE DEF F, G
  <2> QED
    BY <1>1, <1>3, <1>5, <2>1, <2>2, <2>3 DEF Abstract!Put, F
<1>9. ASSUME NEW k \in Keys, RemoveKey(k) PROVE Abstract!Delete(k)
  <2>1. loop.op = "none" /\ loop' = loop
    BY <1>6, <1>9 DEF RemoveKey, Fits
  <2>2. CASE \E i \in Matches(contents, k) :
               contents' = RemoveAt(contents, i) /\ ret' = contents[i].val
    <3>1. PICK i \in Matches(contents, k) :
            contents' = RemoveAt(contents, i) /\ ret' = contents[i].val
      BY <2>2
    <3>2. i \in 1..Len(contents) /\ contents[i].key = k
      BY DEF Matches
    <3>3. G = Less(F, k)
      BY <3>1, <3>2, RemovalAsRemoval
    <3>4. k \in KeysOf(contents) /\ F[k] = contents[i].val
      BY SearchFacts
    <3> HIDE DEF F, G
    <3> QED
      BY <1>1, <1>4, <1>5, <2>1, <3>1, <3>3, <3>4 DEF Abstract!Delete, F
  <2>3. CASE Gaps(contents, k) # {} /\ contents' = contents /\ ret' = None
    <3>1. k \notin KeysOf(contents)
      BY <2>3, SearchFacts
    <3>2. Less(F, k) = F
      <4>1. DOMAIN F = KeysOf(contents) /\ F = [x \in DOMAIN F |-> F[x]]
        BY SearchFacts, FunctionOfProperties DEF MapInv, MapTypeOK, KeysDistinct
      <4> HIDE DEF F
      <4>2. DOMAIN F \ {k} = DOMAIN F
        BY <3>1, <4>1
      <4> QED
        BY <4>1, <4>2 DEF Less
    <3> HIDE DEF F, G
    <3> QED
      BY <1>1, <1>2, <1>4, <1>5, <2>1, <2>3, <3>1, <3>2 DEF Abstract!Delete, F
  <2> QED
    BY <1>9, <2>2, <2>3 DEF RemoveKey
<1>10. ASSUME NEW k \in Keys, Get(k) PROVE Abstract!Lookup(k)
  <2>1. loop.op = "none" /\ loop' = loop /\ contents' = contents
    BY <1>6, <1>10 DEF Get, Fits
  <2>2. ret' = IF k \in KeysOf(contents) THEN F[k] ELSE None
    BY <1>10, SearchFacts DEF Get
  <2> HIDE DEF F, G
  <2> QED
    BY <1>1, <1>2, <1>5, <2>1, <2>2 DEF Abstract!Lookup, F
<1>11. ASSUME NEW batch \in Batches, FromIter(batch)
       PROVE  \E K \in SUBSET Keys : \E f \in [K -> Vals] : Abstract!Collect(f)
  <2>1. loop.op = "none" /\ loop' = loop /\ ret' = None
    BY <1>6, <1>11 DEF FromIter, Fits
  <2>2. contents' \in Seq(Entries) /\ HasUniqueKeys(contents')
    <3>1. batch \in Seq(Entries) /\ HasUniqueKeys(batch)
      BY BatchesAssumption DEF BatchesDistinct
    <3> QED
      BY <1>11, <3>1, SortedPermutationProperties DEF FromIter
  <2>3. KeysOf(contents') \in SUBSET Keys
    BY <2>2, EntryParts DEF KeysOf
  <2>4. G \in [KeysOf(contents') -> Vals]
    <3>1. /\ G = [x \in KeysOf(contents') |-> G[x]]
          /\ \A i \in 1..Len(contents') : G[contents'[i].key] = contents'[i].val
      BY <2>2, FunctionOfProperties
    <3> HIDE DEF G
    <3>2. \A x \in KeysOf(contents') : G[x] \in Vals
      BY <2>2, <3>1, EntryParts DEF KeysOf
    <3> QED
      BY <3>1, <3>2
  <2> HIDE DEF F, G
  <2>5. Abstract!Collect(G)
    BY <1>1, <2>1 DEF Abstract!Collect, F
  <2> QED
    BY <2>3, <2>4, <2>5
<1>12. ASSUME NEW batch \in Batches, ExtendStart(batch) PROVE Abstract!Begin("extend")
  <2>1. loop.op = "none" /\ loop'.op = "extend" /\ contents' = contents /\ ret' = ret
    BY <1>6, <1>12 DEF ExtendStart, Fits, Loop
  <2> HIDE DEF F, G
  <2> QED
    BY <1>1, <1>2, <2>1 DEF Abstract!Begin, F
<1>13. ASSUME NEW batch \in Batches, PreserveStart(batch) PROVE Abstract!Begin("preserve")
  <2>1. loop.op = "none" /\ loop'.op = "preserve" /\ contents' = contents /\ ret' = ret
    BY <1>6, <1>13 DEF PreserveStart, Fits, Loop
  <2> HIDE DEF F, G
  <2> QED
    BY <1>1, <1>2, <2>1 DEF Abstract!Begin, F
<1>14. ASSUME NEW drop \in SUBSET Keys, ExtractStart(drop) PROVE Abstract!Begin("extract")
  <2>1. loop.op = "none" /\ loop'.op = "extract" /\ contents' = contents /\ ret' = ret
    BY <1>6, <1>14 DEF ExtractStart, Fits, Loop
  <2> HIDE DEF F, G
  <2> QED
    BY <1>1, <1>2, <2>1 DEF Abstract!Begin, F
<1>15. ASSUME ExtendStep PROVE \E k \in Keys, v \in Vals : Abstract!Overwrite(k, v)
  <2> DEFINE e == Head(loop.todo)
  <2>1. /\ loop.op = "extend" /\ loop'.op \in {loop.op, "none"} /\ ret' = ret
        /\ e.key \in Keys /\ e.val \in Vals
    BY <1>15, HeadIsEntry, NextTodoOp DEF ExtendStep, MapInv
  <2>2. \/ \E i \in Matches(contents, e.key) : ReplaceAtIndex(i, e.val)
        \/ Add(e.key, e.val)
    BY <1>15 DEF ExtendStep
  <2> HIDE DEF e
  <2>3. G = With(F, e.key, e.val)
    BY <2>1, <2>2, InsertionAsUpdate
  <2> HIDE DEF F, G
  <2>4. Abstract!Overwrite(e.key, e.val)
    BY <1>1, <1>3, <2>1, <2>3 DEF Abstract!Overwrite, F
  <2> QED
    BY <2>1, <2>4
<1>16. ASSUME PreserveStep PROVE \E k \in Keys, v \in Vals : Abstract!Preserve(k, v)
  <2> DEFINE e == Head(loop.todo)
  <2>1. /\ loop.op = "preserve" /\ loop'.op \in {loop.op, "none"} /\ ret' = ret
        /\ e.key \in Keys /\ e.val \in Vals
    BY <1>16, HeadIsEntry, NextTodoOp DEF PreserveStep, MapInv
  <2>2. \/ Matches(contents, e.key) # {} /\ contents' = contents
        \/ Add(e.key, e.val)
    BY <1>16 DEF PreserveStep
  <2> HIDE DEF e
  <2>3. G = IF e.key \in DOMAIN F THEN F ELSE With(F, e.key, e.val)
    <3>1. CASE Matches(contents, e.key) # {} /\ contents' = contents
      BY <1>2, <2>1, <3>1, SearchFacts
    <3>2. CASE Add(e.key, e.val)
      BY <2>1, <3>2, SearchFacts, InsertionAsUpdate
    <3> QED
      BY <2>2, <3>1, <3>2
  <2> HIDE DEF F, G
  <2>4. Abstract!Preserve(e.key, e.val)
    BY <1>1, <1>3, <2>1, <2>3 DEF Abstract!Preserve, F
  <2> QED
    BY <2>1, <2>4
<1>17. ASSUME LoopOverNothing PROVE Abstract!Stop
  <2>1. loop.op # "none" /\ loop'.op = "none" /\ contents' = contents /\ ret' = ret
    BY <1>17 DEF LoopOverNothing, Idle, Loop
  <2> HIDE DEF F, G
  <2> QED
    BY <1>1, <1>2, <2>1 DEF Abstract!Stop, F
<1>18. ASSUME ExtractStep
       PROVE  (\E k \in Keys : Abstract!Extract(k)) \/ UNCHANGED Abstract!vars
  <2>1. /\ loop.op = "extract" /\ loop.at \in 1..Len(contents)
        /\ loop \in Loops /\ contents \in Seq(Entries)
    BY <1>18 DEF ExtractStep, MapInv, MapTypeOK, Loops
  <2>2. CASE contents[loop.at].key \in loop.drop
    <3> DEFINE k == contents[loop.at].key
    <3>1. /\ contents' = RemoveAt(contents, loop.at)
          /\ ret' = contents[loop.at].val /\ loop' = loop
      BY <1>18, <2>2 DEF ExtractStep
    <3>2. k \in Keys /\ loop.at \in Matches(contents, k)
      BY <2>1, EntryParts DEF Matches
    <3>3. k \in DOMAIN F /\ F[k] = contents[loop.at].val
      BY <3>2, SearchFacts
    <3>4. G = Less(F, k)
      BY <2>1, <3>1, RemovalAsRemoval
    <3> HIDE DEF F, G, k
    <3>5. Abstract!Extract(k)
      BY <1>1, <1>4, <2>1, <3>1, <3>2, <3>3, <3>4 DEF Abstract!Extract, F
    <3> QED
      BY <3>2, <3>5
  <2>3. CASE contents[loop.at].key \notin loop.drop
    <3>1. /\ contents' = contents /\ ret' = ret
          /\ loop' = [loop EXCEPT !.at = loop.at + 1]
      BY <1>18, <2>3 DEF ExtractStep
    <3>2. loop'.op = loop.op
      BY <2>1, <3>1 DEF Loops
    <3> HIDE DEF F, G
    <3> QED
      BY <1>1, <1>2, <3>1, <3>2 DEF F
  <2> QED
    BY <2>2, <2>3
<1>19. ASSUME ExtractEnd PROVE Abstract!Stop
  <2>1. loop.op # "none" /\ loop'.op = "none" /\ contents' = contents /\ ret' = ret
    BY <1>19 DEF ExtractEnd, Idle, Loop
  <2> HIDE DEF F, G
  <2> QED
    BY <1>1, <1>2, <2>1 DEF Abstract!Stop, F
<1> QED
  BY <1>7, <1>8, <1>9, <1>10, <1>11, <1>12, <1>13, <1>14, <1>15, <1>16,
     <1>17, <1>18, <1>19 DEF MapNext

(* With pairwise distinct keys collected, the sorted array is the map it   *)
(* stands for, through every step of its loops too.                        *)
THEOREM MapRefinement == BatchesDistinct /\ MapSpec => ImplementsAbstractMap
<1> SUFFICES ASSUME BatchesDistinct PROVE MapSpec => ImplementsAbstractMap
  OBVIOUS
<1>1. MapInv /\ KeysDistinct /\ [MapNext]_mapVars => [Abstract!Next]_(Abstract!vars)
  BY MapStepRefines
<1> QED
  BY <1>1, AlwaysDistinct, MapSpecInv, MapInitRefines, PTL
     DEF MapSpec, ImplementsAbstractMap, Abstract!Spec

-----------------------------------------------------------------------------
(* A node adopted by the last level leaves the others as they are.         *)
LEMMA AdoptProperties ==
  ASSUME NEW S, NEW s \in Seq(Seq(S)), s # <<>>, NEW n \in S
  PROVE  /\ Adopt(s, n) \in Seq(Seq(S))
         /\ Len(Adopt(s, n)) = Len(s)
         /\ Len(s) = 1 => Len(Adopt(s, n)[1]) = Len(s[1]) + 1
         /\ Len(s) > 1 => Adopt(s, n)[1] = s[1]
<1>1. Len(s) \in 1..Len(s) /\ 1 \in 1..Len(s)
  BY EmptySeq
<1>2. s[Len(s)] \in Seq(S)
  BY <1>1, ElementOfSeq
<1> DEFINE e == Append(s[Len(s)], n)
<1>3. e \in Seq(S) /\ Len(e) = Len(s[Len(s)]) + 1
  BY <1>2, AppendProperties
<1> HIDE DEF e
<1>4. Adopt(s, n) = [s EXCEPT ![Len(s)] = e]
  BY DEF Adopt, e
<1>5. /\ Adopt(s, n) \in Seq(Seq(S)) /\ Len(Adopt(s, n)) = Len(s)
      /\ \A i \in 1..Len(s) : Adopt(s, n)[i] = IF i = Len(s) THEN e ELSE s[i]
  BY <1>1, <1>3, <1>4, ExceptSeq
<1>6. ASSUME Len(s) = 1 PROVE Len(Adopt(s, n)[1]) = Len(s[1]) + 1
  <2>1. Adopt(s, n)[1] = e
    BY <1>1, <1>5, <1>6
  <2> QED
    BY <1>3, <1>6, <2>1
<1>7. ASSUME Len(s) > 1 PROVE Adopt(s, n)[1] = s[1]
  BY <1>1, <1>5, <1>7
<1> QED
  BY <1>5, <1>6, <1>7

(* The inductive invariant.                                                *)
Inv == TypeOK /\ StacksInSync

(* What the invariant says of the stacks, in the words the steps use.      *)
LEMMA StackFacts ==
  ASSUME Inv
  PROVE  /\ names \in Seq(Children) /\ Len(names) \in Nat
         /\ properties \in Seq(PropertyMaps) /\ Len(properties) = Len(names)
         /\ children \in Seq(Seq(Children))
         /\ ~ Complete => Len(children) = Len(names) + 1
         /\ Complete => Len(children) = Len(names)
         /\ names = <<>> <=> Len(names) = 0
         /\ properties = <<>> <=> Len(names) = 0
         /\ children = <<>> <=> Len(children) = 0
  BY EmptySeq DEF Inv, TypeOK, StacksInSync

(* The token just read is one, and its place is a position.                *)
LEMMA ReadFacts ==
  ASSUME Inv, NEW token \in Tokens, Read(token)
  PROVE  block' \in Seq(Tokens) /\ Here \in Positions
<1>1. block \in Seq(Tokens) /\ Len(block) \in Nat /\ Len(block) < MaxTokens
  BY DEF Inv, TypeOK, Read
<1> QED
  BY <1>1, MaxTokensAssumption, AppendProperties DEF Read, Here, Positions

LEMMA InitInv == Init => Inv
<1> SUFFICES ASSUME Init PROVE Inv
  OBVIOUS
<1>1. <<>> \in Seq(Children) /\ Len(<<>>) = 0
  OBVIOUS
<1>2. << <<>> >> \in Seq(Seq(Children)) /\ Len(<< <<>> >>) = 1
  BY <1>1
<1> QED
  BY <1>1, <1>2 DEF Init, Inv, TypeOK, StacksInSync, Complete, Results

(* A step that returns, or reads a token and keeps the stacks.             *)
LEMMA QuietStepInv ==
  ASSUME Inv, block' \in Seq(Tokens), result' \in Results, UNCHANGED stacks
  PROVE  Inv'
  BY DEF Inv, TypeOK, StacksInSync, Complete, stacks
-----------------------------------------------------------------------------
(* A node begun is one level more on each stack.                           *)
LEMMA BeginNodeInv ==
  ASSUME Inv, NEW name \in Names, BeginNode(name)
  PROVE  /\ Inv'
         /\ Len(names') = Len(names) + 1
         /\ ~ Complete => Len(children'[1]) = Len(children[1])
<1> DEFINE token == [kind |-> "BeginNode", name |-> name]
<1>1. token \in Tokens
  BY DEF Tokens
<1>2. Read(token)
  BY DEF BeginNode
<1> HIDE DEF token
<1>3. block' \in Seq(Tokens) /\ Here \in Positions
  BY <1>1, <1>2, ReadFacts
<1>4. Entry(name, Here) \in Children
  BY <1>3 DEF Entry, Children
<1>5. names' \in Seq(Children) /\ Len(names') = Len(names) + 1
  BY <1>4, StackFacts, AppendProperties DEF BeginNode
<1>6. <<>> \in PropertyMaps
  <2>1. <<>> \in [{} -> Positions]
    OBVIOUS
  <2> QED
    BY <2>1 DEF PropertyMaps
<1>7. properties' \in Seq(PropertyMaps) /\ Len(properties') = Len(properties) + 1
  BY <1>6, StackFacts, AppendProperties DEF BeginNode
<1>8. /\ children' \in Seq(Seq(Children)) /\ Len(children') = Len(children) + 1
      /\ \A i \in 1..Len(children) : children'[i] = children[i]
  BY StackFacts, AppendProperties DEF BeginNode
<1>9. root' = root /\ result' = result
  BY DEF BeginNode
<1>10. Inv'
  BY <1>3, <1>5, <1>7, <1>8, <1>9, StackFacts
     DEF Inv, TypeOK, StacksInSync, Complete
<1>11. ASSUME ~ Complete PROVE Len(children'[1]) = Len(children[1])
  BY <1>8, <1>11, StackFacts
<1> QED
  BY <1>5, <1>10, <1>11

(* A node ended is one level less, and one child more of the level below.  *)
LEMMA EndNodeInv ==
  ASSUME Inv, EndNode
  PROVE  /\ Inv' /\ result' = result /\ root' = root
         /\ Len(names) > 0 /\ Len(names') = Len(names) - 1
         /\ Complete => Len(names) > 1
         /\ ~ Complete =>
              Len(children'[1])
                = IF Len(names) = 1 THEN Len(children[1]) + 1 ELSE Len(children[1])
<1> DEFINE token == [kind |-> "EndNode"]
<1>1. token \in Tokens /\ Read(token) /\ names # <<>>
  BY DEF Tokens, EndNode
<1> HIDE DEF token
<1>2. block' \in Seq(Tokens)
  BY <1>1, ReadFacts
<1>3. InSync
  BY <1>1, StackFacts DEF InSync
<1>4. /\ Len(children) > 1
      /\ names' = Front(names)
      /\ properties' = Front(properties)
      /\ children' = Adopt(Front(children), Last(names))
      /\ root' = root /\ result' = result
  BY <1>3 DEF EndNode
<1>5. names' \in Seq(Children) /\ Len(names') = Len(names) - 1
  BY <1>1, <1>4, FrontProperties, StackFacts
<1>6. properties' \in Seq(PropertyMaps) /\ Len(properties') = Len(properties) - 1
  BY <1>3, <1>4, FrontProperties, StackFacts DEF InSync
<1> DEFINE below == Front(children)
<1>7. /\ below \in Seq(Seq(Children)) /\ Len(below) = Len(children) - 1
      /\ \A i \in 1..Len(children) - 1 : below[i] = children[i]
  BY <1>3, FrontProperties, StackFacts DEF InSync
<1>8. Last(names) \in Children
  <2>1. Len(names) \in 1..Len(names)
    BY <1>1, StackFacts
  <2> QED
    BY <2>1, ElementOfSeq, StackFacts DEF Last
<1> HIDE DEF below
<1>9. below # <<>> /\ 1 \in 1..Len(children) - 1
  BY <1>4, <1>7, StackFacts
<1>10. children' = Adopt(below, Last(names))
  BY <1>4 DEF below
<1>11. /\ children' \in Seq(Seq(Children)) /\ Len(children') = Len(below)
       /\ Len(below) = 1 => Len(children'[1]) = Len(below[1]) + 1
       /\ Len(below) > 1 => children'[1] = below[1]
  BY <1>7, <1>8, <1>9, <1>10, AdoptProperties
<1>12. below[1] = children[1]
  BY <1>7, <1>9
<1>13. Inv'
  BY <1>2, <1>4, <1>5, <1>6, <1>7, <1>11, StackFacts
     DEF Inv, TypeOK, StacksInSync, Complete
<1>14. Len(names) > 0 /\ (Complete => Len(names) > 1)
  BY <1>1, <1>4, StackFacts
<1>15. ASSUME ~ Complete
       PROVE  Len(children'[1])
                = IF Len(names) = 1 THEN Len(children[1]) + 1 ELSE Len(children[1])
  <2>1. Len(below) = Len(names) /\ Len(names) \in Nat
    BY <1>7, <1>15, StackFacts
  <2>2. children[1] \in Seq(Children) /\ Len(children[1]) \in Nat
    BY <1>4, <1>9, ElementOfSeq, StackFacts
  <2>3. CASE Len(names) = 1
    BY <1>11, <1>12, <2>1, <2>3
  <2>4. CASE Len(names) # 1
    <3>1. Len(below) > 1
      BY <1>14, <2>1, <2>4
    <3>2. children'[1] = children[1]
      BY <1>11, <1>12, <3>1
    <3> QED
      BY <2>2, <2>4, <3>2
  <2> QED
    BY <2>3, <2>4
<1> QED
  BY <1>4, <1>5, <1>13, <1>14, <1>15

(* A property needs a node to join, and changes no length.                 *)
LEMMA PropInv ==
  ASSUME Inv, NEW key \in PropKeys, Prop(key)
  PROVE  Inv' /\ Len(names) > 0
<1> DEFINE token == [kind |-> "Prop", key |-> key]
<1>1. token \in Tokens /\ Read(token) /\ properties # <<>>
  BY DEF Tokens, Prop
<1> HIDE DEF token
<1>2. block' \in Seq(Tokens) /\ Here \in Positions
  BY <1>1, ReadFacts
<1> DEFINE n == Len(properties)
<1>3. n \in 1..Len(properties)
  BY <1>1, StackFacts
<1>4. properties[n] \in PropertyMaps
  BY <1>3, ElementOfSeq, StackFacts
<1>5. PICK K \in SUBSET PropKeys : properties[n] \in [K -> Positions]
  BY <1>4 DEF PropertyMaps
<1> DEFINE m == With(properties[n], key, Here)
<1>6. m \in [K \cup {key} -> Positions]
  BY <1>2, <1>5 DEF With
<1>7. m \in PropertyMaps
  BY <1>6 DEF PropertyMaps
<1>8. properties' = [properties EXCEPT ![n] = m]
  BY DEF Prop
<1> HIDE DEF m, n
<1>9. properties' \in Seq(PropertyMaps) /\ Len(properties') = Len(properties)
  BY <1>3, <1>7, <1>8, ExceptSeq, StackFacts
<1>10. UNCHANGED <<names, children, root, result>>
  BY DEF Prop
<1>11. Inv'
  BY <1>2, <1>9, <1>10, StackFacts DEF Inv, TypeOK, StacksInSync, Complete
<1> QED
  BY <1>1, <1>11, StackFacts

(* Only with no node unfinished, and one child at the top, the top is      *)
(* taken.                                                                  *)
LEMMA EndInv ==
  ASSUME Inv, End
  PROVE  Inv' /\ Complete' /\ Len(names) = 0 /\ Len(children[1]) = 1
<1> DEFINE token == [kind |-> "End"]
<1>1. token \in Tokens /\ Read(token) /\ ~ Complete /\ EndError = "none"
  BY DEF Tokens, End
<1> HIDE DEF token
<1>2. block' \in Seq(Tokens)
  BY <1>1, ReadFacts
<1>3. Len(children) = 1 /\ Len(children[1]) = 1
  BY <1>1 DEF EndError
<1>4. children[1] \in Seq(Children)
  BY <1>3, ElementOfSeq, StackFacts
<1>5. children[1][1] \in Children
  BY <1>3, <1>4, ElementOfSeq
<1>6. root' = children[1][1].val
  BY DEF End
<1>7. root' \in Positions
  BY <1>5, <1>6 DEF Children
<1>8. root' # 0
  BY <1>7, MaxTokensAssumption DEF Positions
<1>9. /\ children' = <<>> /\ Len(children') = 0 /\ children' \in Seq(Seq(Children))
      /\ UNCHANGED <<names, properties, result>>
  BY EmptySeq DEF End
<1>10. Len(names) = 0
  BY <1>1, <1>3, StackFacts
<1>11. Inv'
  BY <1>2, <1>7, <1>8, <1>9, <1>10, StackFacts
     DEF Inv, TypeOK, StacksInSync, Complete
<1> QED
  BY <1>3, <1>8, <1>10, <1>11 DEF Complete

(* What reading a token that changes no stack comes to.                    *)
LEMMA ReturnInv ==
  ASSUME Inv, NEW token \in Tokens, Read(token), NEW r \in Results, Return(r)
  PROVE  Inv'
  BY ReadFacts, QuietStepInv DEF Return
-----------------------------------------------------------------------------
(* Every step that returns without a change to the stacks keeps the        *)
(* invariant.                                                              *)
LEMMA ReturningInv ==
  ASSUME Inv,
         \/ EndNodeTooMany \/ EndRejected \/ Malformed \/ StreamEnds \/ Nop
         \/ \E key \in PropKeys : PropDuplicate(key) \/ PropOutside(key)
  PROVE  Inv'
<1>1. CASE EndNodeTooMany
  <2>1. [kind |-> "EndNode"] \in Tokens /\ "TooManyEnds" \in Results
    BY DEF Tokens, Results
  <2> QED
    BY <1>1, <2>1, ReturnInv DEF EndNodeTooMany
<1>2. CASE EndRejected
  <2>1. [kind |-> "End"] \in Tokens /\ "TooManyEnds" \in Results
    BY DEF Tokens, Results
  <2>2. EndError # "none" => EndError \in Results
    BY DEF EndError, Results
  <2>3. ConversionErrors \subseteq Results
    BY DEF Results
  <2> QED
    BY <1>2, <2>1, <2>2, <2>3, ReturnInv DEF EndRejected
<1>3. CASE Malformed
  <2>1. [kind |-> "Malformed"] \in Tokens /\ "Token" \in Results
    BY DEF Tokens, Results
  <2> QED
    BY <1>3, <2>1, ReturnInv DEF Malformed
<1>4. CASE StreamEnds
  <2>1. block' \in Seq(Tokens) /\ UNCHANGED stacks
    BY <1>4 DEF StreamEnds, Return, Inv, TypeOK
  <2>2. result' \in Results
    BY <1>4 DEF StreamEnds, Return, Results
  <2> QED
    BY <2>1, <2>2, QuietStepInv
<1>5. CASE Nop
  <2>1. [kind |-> "Nop"] \in Tokens
    BY DEF Tokens
  <2>2. block' \in Seq(Tokens)
    BY <1>5, <2>1, ReadFacts DEF Nop
  <2>3. UNCHANGED stacks /\ result' \in Results
    BY <1>5 DEF Nop, Inv, TypeOK
  <2> QED
    BY <2>2, <2>3, QuietStepInv
<1>6. CASE \E key \in PropKeys : PropDuplicate(key) \/ PropOutside(key)
  <2>1. PICK key \in PropKeys : PropDuplicate(key) \/ PropOutside(key)
    BY <1>6
  <2>2. [kind |-> "Prop", key |-> key] \in Tokens
    BY DEF Tokens
  <2>3. "Parsing" \in Results /\ "InvalidProp" \in Results
    BY DEF Results
  <2> QED
    BY <2>1, <2>2, <2>3, ReturnInv DEF PropDuplicate, PropOutside
<1> QED
  BY <1>1, <1>2, <1>3, <1>4, <1>5, <1>6

LEMMA NextInv == Inv /\ [Next]_vars => Inv'
<1> SUFFICES ASSUME Inv, [Next]_vars PROVE Inv'
  OBVIOUS
<1>1. CASE UNCHANGED vars
  BY <1>1 DEF vars, Inv, TypeOK, StacksInSync, Complete
<1>2. CASE Next
  BY <1>2, BeginNodeInv, EndNodeInv, PropInv, EndInv, ReturningInv DEF Next
<1> QED
  BY <1>1, <1>2

LEMMA SpecInv == Spec => []Inv
  BY InitInv, NextInv, PTL DEF Spec

(* The variables keep their types, whatever the tokens.                    *)
THEOREM TypeCorrect == Spec => []TypeOK
<1>1. Inv => TypeOK
  BY DEF Inv
<1> QED
  BY SpecInv, <1>1, PTL

(* The three stacks stay in step for a structure block of any length and   *)
(* nesting: neither `expect` of the `EndNode` arm can fail.                *)
THEOREM AlwaysInSync == Spec => []StacksInSync
<1>1. Inv => StacksInSync
  BY DEF Inv
<1> QED
  BY SpecInv, <1>1, PTL
-----------------------------------------------------------------------------
(* Each step of the stacks is a step of the automaton.                     *)
LEMMA StepRefines == Inv /\ [Next]_vars => [Grammar!Next]_(Grammar!vars)
<1> SUFFICES ASSUME Inv, [Next]_vars PROVE [Grammar!Next]_(Grammar!vars)
  OBVIOUS
<1> USE DEF Grammar!vars, Grammar!Next
<1>1. CASE UNCHANGED vars
  BY <1>1 DEF vars, Complete
<1>2. ASSUME NEW name \in Names, BeginNode(name) PROVE Grammar!Begin
  <2>1. /\ Len(names') = Len(names) + 1
        /\ ~ Complete => Len(children'[1]) = Len(children[1])
    BY <1>2, BeginNodeInv
  <2>2. result = "reading" /\ root' = root /\ result' = result
    BY <1>2 DEF BeginNode, Read
  <2> QED
    BY <2>1, <2>2 DEF Grammar!Begin, Complete
<1>3. ASSUME EndNode PROVE Grammar!End
  <2>1. /\ result' = result /\ root' = root
        /\ Len(names) > 0 /\ Len(names') = Len(names) - 1
        /\ Complete => Len(names) > 1
        /\ ~ Complete =>
             Len(children'[1])
               = IF Len(names) = 1 THEN Len(children[1]) + 1 ELSE Len(children[1])
    BY <1>3, EndNodeInv
  <2>2. result = "reading"
    BY <1>3 DEF EndNode, Read
  <2>3. CASE Complete
    BY <2>1, <2>2, <2>3 DEF Grammar!End, Complete
  <2>4. CASE ~ Complete
    <3>1. Len(children'[1])
            = IF Len(names) = 1 THEN Len(children[1]) + 1 ELSE Len(children[1])
      BY <2>1, <2>4
    <3> QED
      BY <2>1, <2>2, <2>4, <3>1 DEF Grammar!End, Complete
  <2> QED
    BY <2>3, <2>4
<1>4. ASSUME EndNodeTooMany PROVE Grammar!EndTooMany
  <2>1. result = "reading" /\ result' = "TooManyEnds" /\ UNCHANGED stacks
    BY <1>4 DEF EndNodeTooMany, Read, Return
  <2>2. Len(names) = 0 \/ Len(children) = 1
    BY <1>4, StackFacts DEF EndNodeTooMany
  <2>3. Len(names) = 0 \/ (Complete /\ Len(names) = 1)
    <3>1. CASE Complete
      BY <2>2, <3>1, StackFacts DEF Complete
    <3>2. CASE ~ Complete
      <4>1. Len(names) \in Nat /\ Len(children) = Len(names) + 1
        BY <3>2, StackFacts
      <4> QED
        BY <2>2, <4>1
    <3> QED
      BY <3>1, <3>2
  <2> QED
    BY <2>1, <2>3 DEF Grammar!EndTooMany, Grammar!Reject, Complete, stacks
<1>5. ASSUME NEW key \in PropKeys, Prop(key) PROVE Grammar!Property
  <2>1. Len(names) > 0
    BY <1>5, PropInv
  <2>2. result = "reading" /\ UNCHANGED <<names, children, root, result>>
    BY <1>5 DEF Prop, Read
  <2> QED
    BY <2>1, <2>2 DEF Grammar!Property, Complete
<1>6. ASSUME NEW key \in PropKeys, PropDuplicate(key) PROVE Grammar!Property
  <2>1. Len(names) > 0
    BY <1>6, StackFacts DEF PropDuplicate
  <2>2. result = "reading" /\ result' = "Parsing" /\ UNCHANGED stacks
    BY <1>6 DEF PropDuplicate, Read, Return
  <2> QED
    BY <2>1, <2>2 DEF Grammar!Property, Grammar!Reject, Complete, stacks
<1>7. ASSUME NEW key \in PropKeys, PropOutside(key) PROVE Grammar!PropertyOutside
  <2>1. Len(names) = 0
    BY <1>7, StackFacts DEF PropOutside
  <2>2. result = "reading" /\ result' = "InvalidProp" /\ UNCHANGED stacks
    BY <1>7 DEF PropOutside, Read, Return
  <2> QED
    BY <2>1, <2>2 DEF Grammar!PropertyOutside, Grammar!Reject, Complete, stacks
<1>8. ASSUME Nop PROVE UNCHANGED Grammar!vars
  BY <1>8 DEF Nop, stacks, Complete
<1>9. ASSUME End PROVE Grammar!Seal
  <2>1. Complete' /\ Len(names) = 0 /\ Len(children[1]) = 1
    BY <1>9, EndInv
  <2>2. /\ result = "reading" /\ ~ Complete
        /\ UNCHANGED <<names, result>>
    BY <1>9 DEF End, Read
  <2> QED
    BY <2>1, <2>2 DEF Grammar!Seal, Complete
<1>10. ASSUME EndRejected PROVE Grammar!SealRejected
  <2>1. result = "reading" /\ UNCHANGED stacks
    BY <1>10 DEF EndRejected, Read, Return
  <2>2. CASE Complete /\ result' = "TooManyEnds"
    BY <2>1, <2>2 DEF Grammar!SealRejected, Grammar!Reject, Complete, stacks
  <2>3. CASE ~ Complete /\ EndError # "none" /\ result' = EndError
    <3>1. Len(children) = Len(names) + 1
      BY <2>3, StackFacts
    <3>2. CASE Len(children) # 1
      <4>1. result' = "BadDepth" /\ Len(names) # 0
        BY <2>3, <3>1, <3>2, StackFacts DEF EndError
      <4> QED
        BY <2>1, <2>3, <4>1
           DEF Grammar!SealRejected, Grammar!Reject, Complete, stacks
    <3>3. CASE Len(children) = 1 /\ Len(children[1]) # 1
      <4>1. result' = "BadRoots" /\ Len(names) = 0
        BY <2>3, <3>1, <3>3, StackFacts DEF EndError
      <4> QED
        BY <2>1, <2>3, <3>3, <4>1
           DEF Grammar!SealRejected, Grammar!Reject, Complete, stacks
    <3>4. CASE Len(children) = 1 /\ Len(children[1]) = 1
      <4>1. result' = "BadRootName" /\ Len(names) = 0
        BY <2>3, <3>1, <3>4, StackFacts DEF EndError
      <4> QED
        BY <2>1, <2>3, <3>4, <4>1
           DEF Grammar!SealRejected, Grammar!Reject, Complete, stacks
    <3> QED
      BY <3>2, <3>3, <3>4
  <2>4. ASSUME ~ Complete, EndError = "none",
               NEW why \in ConversionErrors, result' = why
        PROVE  Grammar!SealRejected
    <3>1. Len(children) = 1 /\ Len(children[1]) = 1
      BY <2>4 DEF EndError
    <3>2. Len(names) = 0
      BY <2>4, <3>1, StackFacts
    <3> QED
      BY <2>1, <2>4, <3>1, <3>2
         DEF Grammar!SealRejected, Grammar!Reject, Complete, stacks,
             ConversionErrors
  <2> QED
    BY <1>10, <2>2, <2>3, <2>4 DEF EndRejected, Return
<1>11. ASSUME Malformed PROVE Grammar!Malformed
  BY <1>11 DEF Malformed, Read, Return, Grammar!Malformed, Grammar!Reject,
               Complete, stacks
<1>12. ASSUME StreamEnds PROVE Grammar!Stop
  BY <1>12 DEF StreamEnds, Return, Grammar!Stop, Grammar!Reject, Complete, stacks
<1> QED
  BY <1>1, <1>2, <1>3, <1>4, <1>5, <1>6, <1>7, <1>8, <1>9, <1>10, <1>11, <1>12
     DEF Next

(* The loop of `from_bytes` accepts and rejects exactly as the one-counter *)
(* automaton does, for a structure block of any length and nesting.        *)
THEOREM Refinement == Spec => ImplementsGrammar
<1>1. Init => Grammar!Init
  BY DEF Init, Grammar!Init, Complete
<1> QED
  BY <1>1, SpecInv, StepRefines, PTL DEF Spec, ImplementsGrammar, Grammar!Spec
-----------------------------------------------------------------------------
(***************************************************************************)
(* What the tokens describe, as one more is read.                          *)
(***************************************************************************)
LEMMA PlacesFacts ==
  ASSUME NEW kind, NEW n \in Nat
  PROVE  Places(kind, n) \subseteq 1..n /\ Cardinality(Places(kind, n)) \in Nat
         /\ IsFiniteSet(Places(kind, n))
<1>1. Places(kind, n) \subseteq 1..n
  BY DEF Places
<1>2. IsFiniteSet(Places(kind, n))
  BY <1>1, FS_Interval, FS_Subset
<1> QED
  BY <1>1, <1>2, FS_CardinalityType

(* The depth is a difference of two numbers of tokens.                     *)
LEMMA DepthIsInt ==
  ASSUME NEW n \in Nat
  PROVE  DepthAfter(n) \in Int
  BY PlacesFacts DEF DepthAfter

(* The places, the depths and the owners of the tokens read stay as they   *)
(* were, and the token read changes the depth as its kind says.            *)
LEMMA TokenRead ==
  ASSUME block \in Seq(Tokens), NEW t \in Tokens, block' = Append(block, t),
         NEW n, n = Len(block)
  PROVE  /\ n \in Nat /\ Len(block') = n + 1 /\ block'[n + 1] = t
         /\ \A p \in 1..n : block'[p] = block[p]
         /\ \A kind : \A m \in 0..n : Places(kind, m)' = Places(kind, m)
         /\ \A kind : t.kind = kind => Places(kind, n + 1)' = Places(kind, n) \cup {n + 1}
         /\ \A kind : t.kind # kind => Places(kind, n + 1)' = Places(kind, n)
         /\ \A m \in 0..n : DepthAfter(m)' = DepthAfter(m)
         /\ DepthAfter(n + 1)' = IF t.kind = "BeginNode" THEN DepthAfter(n) + 1
                                 ELSE IF t.kind = "EndNode" THEN DepthAfter(n) - 1
                                 ELSE DepthAfter(n)
         /\ \A p \in 1..n + 1 : Owner(p)' = Owner(p)
<1>1. n \in Nat /\ 1..n + 1 = (1..n) \cup {n + 1} /\ n + 1 \notin 1..n
  BY LenProperties
<1>2. /\ Len(block') = n + 1 /\ block'[n + 1] = t
      /\ \A p \in 1..n : block'[p] = block[p]
  <2> HIDE DEF Tokens
  <2> QED
    BY AppendProperties
<1>3. \A kind : \A m \in 0..n : Places(kind, m)' = Places(kind, m)
  <2>1. \A m \in 0..n : 1..m \subseteq 1..n
    BY <1>1
  <2> QED
    BY <1>2, <2>1 DEF Places, Kind
<1>4. /\ \A kind : t.kind = kind => Places(kind, n + 1)' = Places(kind, n) \cup {n + 1}
      /\ \A kind : t.kind # kind => Places(kind, n + 1)' = Places(kind, n)
  BY <1>1, <1>2 DEF Places, Kind
<1>5. \A m \in 0..n : DepthAfter(m)' = DepthAfter(m)
  BY <1>3 DEF DepthAfter
<1>6. \A kind : t.kind = kind =>
        Cardinality(Places(kind, n + 1)') = Cardinality(Places(kind, n)) + 1
  <2> TAKE kind
  <2>1. SUFFICES ASSUME t.kind = kind
                 PROVE  Cardinality(Places(kind, n + 1)') = Cardinality(Places(kind, n)) + 1
    OBVIOUS
  <2>2. IsFiniteSet(Places(kind, n)) /\ n + 1 \notin Places(kind, n)
    BY <1>1, PlacesFacts
  <2>3. PICK S : S = Places(kind, n)
    OBVIOUS
  <2>4. Places(kind, n + 1)' = S \cup {n + 1}
    BY <1>4, <2>1, <2>3
  <2>5. Cardinality(S \cup {n + 1}) = Cardinality(S) + 1
    BY <2>2, <2>3, FS_AddElement, Zenon
  <2> QED
    BY <2>3, <2>4, <2>5
<1>7. \A kind : t.kind # kind =>
        Cardinality(Places(kind, n + 1)') = Cardinality(Places(kind, n))
  BY <1>4
<1>8. /\ Cardinality(Places("BeginNode", n)) \in Nat
      /\ Cardinality(Places("EndNode", n)) \in Nat
  BY <1>1, PlacesFacts
<1>9. DepthAfter(n + 1)' = IF t.kind = "BeginNode" THEN DepthAfter(n) + 1
                           ELSE IF t.kind = "EndNode" THEN DepthAfter(n) - 1
                           ELSE DepthAfter(n)
  BY <1>6, <1>7, <1>8 DEF DepthAfter
<1>10. ASSUME NEW p \in 1..n + 1 PROVE Owner(p)' = Owner(p)
  <2> DEFINE begun == {k \in Places("BeginNode", p - 1) : DepthAfter(k) = DepthAfter(p - 1)}
  <2>1. p - 1 \in 0..n /\ p - 1 \in Nat
    BY <1>1
  <2>2. Places("BeginNode", p - 1) \subseteq 0..n
    BY <1>1, <2>1, PlacesFacts
  <2>3. begun' = begun
    BY <1>3, <1>5, <2>1, <2>2
  <2>4. DepthAfter(p - 1)' = DepthAfter(p - 1)
    BY <1>5, <2>1
  <2>5. Owner(p) = IF DepthAfter(p - 1) <= 0 THEN 0 ELSE Max(begun)
    BY DEF Owner
  <2>6. Owner(p)' = IF DepthAfter(p - 1)' <= 0 THEN 0 ELSE Max(begun')
    BY DEF Owner
  <2> HIDE DEF begun
  <2> QED
    BY <2>3, <2>4, <2>5, <2>6
<1> QED
  BY <1>1, <1>2, <1>3, <1>4, <1>5, <1>9, <1>10
-----------------------------------------------------------------------------
(***************************************************************************)
(* The inductive invariant, while tokens are read.                         *)
(***************************************************************************)
PlaceAt(d) == IF d = 0 THEN 0 ELSE names[d].val

(* The unfinished nodes, and the top unless it was taken; where the        *)
(* children of each are.                                                   *)
Levels   == (IF Complete THEN 1 ELSE 0)..Len(names)
Level(d) == IF Complete THEN d ELSE d + 1

(* A child belongs to a node before it.                                    *)
Depths ==
  /\ DepthAfter(Len(block)) = Len(names)
  /\ \A k \in 1..Len(block) : Owner(k) \in 0..k - 1

(* The stack of names is the path from the top to where the tokens are.    *)
IsOnPath(d) ==
  LET p == names[d].val
  IN  /\ p \in Places("BeginNode", Len(block)) /\ names[d].key = block[p].name
      /\ DepthAfter(p) = d /\ IsUnfinished(p) /\ Owner(p) = PlaceAt(d - 1)
      /\ \A k \in Places("BeginNode", Len(block)) : DepthAfter(k) = d => k <= p

Spine == \A d \in 1..Len(names) : IsOnPath(d)

OnlyThoseUnfinished ==
  \A k \in Places("BeginNode", Len(block)) :
    IsUnfinished(k) => \E d \in 1..Len(names) : names[d].val = k

(* A list of all the finished children of a node, each once.               *)
ListsChildrenOf(list, p) ==
  /\ ToSet(list) = FinishedChildrenOf(p)
  /\ \A i, j \in 1..Len(list) : list[i].val = list[j].val => i = j

ChildrenListed == \A d \in Levels : ListsChildrenOf(children[Level(d)], PlaceAt(d))

(* A map from the keys of the properties of a node to their places.        *)
RecordsPropertiesOf(map, p) ==
  /\ map = [key \in DOMAIN map |-> map[key]]
  /\ DOMAIN map = {block[k].key : k \in PropertiesOf(p)}
  /\ \A k \in PropertiesOf(p) : map[block[k].key] = k

PropertiesRecorded ==
  \A d \in 1..Len(names) : RecordsPropertiesOf(properties[d], names[d].val)

FinishedRecorded ==
  /\ DOMAIN nodes = {k \in Places("BeginNode", Len(block)) : ~ IsUnfinished(k)}
  /\ \A p \in DOMAIN nodes :
       /\ ToSet(nodes[p].children) = FinishedChildrenOf(p)
       /\ Len(nodes[p].children) = Cardinality(ChildrenOf(p))
       /\ IsSortedByKey(nodes[p].children)
       /\ RecordsPropertiesOf(nodes[p].properties, p)

Nested ==
  /\ Depths /\ Spine /\ OnlyThoseUnfinished
  /\ ChildrenListed /\ PropertiesRecorded /\ FinishedRecorded

(* The next token belongs to the innermost unfinished node.                *)
LEMMA NextOwner ==
  ASSUME Inv, Depths, Spine, NEW n, n = Len(block)
  PROVE  /\ Owner(n + 1) = PlaceAt(Len(names)) /\ Owner(n + 1) \in 0..n
         /\ \A d \in 1..Len(names) : names[d].val \in 1..n
         /\ Len(names) \in Nat /\ n \in Nat
<1> DEFINE D == Len(names)
           begun == {k \in Places("BeginNode", n) : DepthAfter(k) = D}
<1>1. D \in Nat /\ n \in Nat /\ DepthAfter(n) = D
  BY StackFacts DEF Depths, Inv, TypeOK
<1>2. Places("BeginNode", n) \subseteq 1..n
  BY <1>1, PlacesFacts
<1>3. \A d \in 1..D : names[d].val \in 1..n
  BY <1>2 DEF Spine, IsOnPath
<1>4. Owner(n + 1) = IF D <= 0 THEN 0 ELSE Max(begun)
  <2>1. PICK m : m = n + 1 - 1
    OBVIOUS
  <2>2. m = n
    BY <1>1, <2>1
  <2>3. Owner(n + 1) =
          IF DepthAfter(m) <= 0 THEN 0
          ELSE Max({k \in Places("BeginNode", m) : DepthAfter(k) = DepthAfter(m)})
    BY <2>1 DEF Owner
  <2> QED
    BY <1>1, <2>2, <2>3
<1>5. ASSUME D # 0 PROVE Owner(n + 1) = names[D].val
  <2>1. D \in 1..D
    BY <1>1, <1>5
  <2> DEFINE last == names[D].val
  <2>2. last \in begun /\ \A k \in begun : k <= last
    BY <2>1 DEF Spine, IsOnPath
  <2>3. begun \subseteq Int
    BY <1>2
  <2> HIDE DEF begun, last
  <2>4. Max(begun) = last
    <3>1. \A k \in begun : last >= k
      BY <2>2, <2>3
    <3>2. \A x \in begun : (\A y \in begun : x >= y) => x = last
      BY <2>2, <2>3
    <3> QED
      BY <2>2, <3>1, <3>2 DEF Max
  <2> QED
    BY <1>1, <1>4, <1>5, <2>4 DEF last
<1>6. D = 0 => Owner(n + 1) = 0
  BY <1>4
<1> QED
  BY <1>1, <1>3, <1>5, <1>6 DEF PlaceAt

(* What a token more changes in the tree described: which nodes are        *)
(* finished, and the children and the properties of the node it belongs to.*)
LEMMA Described ==
  ASSUME Inv, NEW t \in Tokens, block' = Append(block, t), NEW n, n = Len(block)
  PROVE  /\ \A p \in 1..n :
              IsUnfinished(p)' <=> IsUnfinished(p) /\ DepthAfter(n + 1)' >= DepthAfter(p)
         /\ IsUnfinished(n + 1)'
         /\ \A p : t.kind = "BeginNode" /\ Owner(n + 1) = p =>
                     ChildrenOf(p)' = ChildrenOf(p) \cup {n + 1}
         /\ \A p : t.kind # "BeginNode" \/ Owner(n + 1) # p => ChildrenOf(p)' = ChildrenOf(p)
         /\ \A p : t.kind = "Prop" /\ Owner(n + 1) = p =>
                     PropertiesOf(p)' = PropertiesOf(p) \cup {n + 1}
         /\ \A p : t.kind # "Prop" \/ Owner(n + 1) # p => PropertiesOf(p)' = PropertiesOf(p)
         /\ \A p : ChildrenOf(p) \subseteq 1..n /\ PropertiesOf(p) \subseteq 1..n
<1>1. block \in Seq(Tokens)
  BY DEF Inv, TypeOK
<1>2. /\ n \in Nat /\ Len(block') = n + 1
      /\ \A kind : t.kind = kind => Places(kind, n + 1)' = Places(kind, n) \cup {n + 1}
      /\ \A kind : t.kind # kind => Places(kind, n + 1)' = Places(kind, n)
      /\ \A m \in 0..n : DepthAfter(m)' = DepthAfter(m)
      /\ \A p \in 1..n + 1 : Owner(p)' = Owner(p)
  BY <1>1, TokenRead
<1>3. \A kind : Places(kind, n) \subseteq 1..n
  BY <1>2, PlacesFacts
<1>4. \A p \in 1..n :
        IsUnfinished(p)' <=> IsUnfinished(p) /\ DepthAfter(n + 1)' >= DepthAfter(p)
  <2> TAKE p \in 1..n
  <2>1. p..n + 1 = (p..n) \cup {n + 1} /\ p..n \subseteq 0..n /\ p \in 0..n
    BY <1>2
  <2>2. IsUnfinished(p)' <=> \A m \in p..n + 1 : DepthAfter(m)' >= DepthAfter(p)'
    BY <1>2 DEF IsUnfinished
  <2>3. IsUnfinished(p) <=> \A m \in p..n : DepthAfter(m) >= DepthAfter(p)
    BY DEF IsUnfinished
  <2> QED
    BY <1>2, <2>1, <2>2, <2>3
<1>5. IsUnfinished(n + 1)'
  <2>1. DepthAfter(n + 1)' \in Int
    <3>1. DepthAfter(n) \in Int
      BY <1>2, DepthIsInt
    <3> QED
      BY <1>1, <3>1, TokenRead
  <2>2. n + 1..n + 1 = {n + 1}
    BY <1>2
  <2> QED
    BY <1>2, <2>1, <2>2 DEF IsUnfinished
<1>6. /\ n + 1 \in 1..n + 1 /\ 1..n + 1 = (1..n) \cup {n + 1} /\ n + 1 \notin 1..n
      /\ \A kind : Places(kind, n + 1)' \subseteq 1..n + 1
  <2>1. n + 1 \in 1..n + 1 /\ 1..n + 1 = (1..n) \cup {n + 1} /\ n + 1 \notin 1..n
    BY <1>2
  <2> QED
    BY <1>2, <1>3, <2>1
<1>7. ASSUME NEW p
      PROVE  /\ ChildrenOf(p) \subseteq 1..n
             /\ t.kind = "BeginNode" /\ Owner(n + 1) = p =>
                  ChildrenOf(p)' = ChildrenOf(p) \cup {n + 1}
             /\ t.kind # "BeginNode" \/ Owner(n + 1) # p => ChildrenOf(p)' = ChildrenOf(p)
  <2>1. ChildrenOf(p) = {k \in Places("BeginNode", n) : Owner(k) = p}
    BY DEF ChildrenOf
  <2>2. ChildrenOf(p)' \subseteq 1..n + 1 /\ ChildrenOf(p) \subseteq 1..n
    BY <1>2, <1>3, <1>6, <2>1 DEF ChildrenOf
  <2>3. ASSUME NEW k \in 1..n + 1
        PROVE  k \in ChildrenOf(p)' <=> k \in Places("BeginNode", n + 1)' /\ Owner(k) = p
    BY <1>2 DEF ChildrenOf
  <2>4. \A k \in 1..n : k \in ChildrenOf(p)' <=> k \in ChildrenOf(p)
    BY <1>2, <1>6, <2>1, <2>3
  <2>5. n + 1 \in ChildrenOf(p)' <=> t.kind = "BeginNode" /\ Owner(n + 1) = p
    BY <1>2, <1>3, <1>6, <2>3
  <2> QED
    BY <1>6, <2>2, <2>4, <2>5
<1>8. ASSUME NEW p
      PROVE  /\ PropertiesOf(p) \subseteq 1..n
             /\ t.kind = "Prop" /\ Owner(n + 1) = p =>
                  PropertiesOf(p)' = PropertiesOf(p) \cup {n + 1}
             /\ t.kind # "Prop" \/ Owner(n + 1) # p => PropertiesOf(p)' = PropertiesOf(p)
  <2>1. PropertiesOf(p) = {k \in Places("Prop", n) : Owner(k) = p}
    BY DEF PropertiesOf
  <2>2. PropertiesOf(p)' \subseteq 1..n + 1 /\ PropertiesOf(p) \subseteq 1..n
    BY <1>2, <1>3, <1>6, <2>1 DEF PropertiesOf
  <2>3. ASSUME NEW k \in 1..n + 1
        PROVE  k \in PropertiesOf(p)' <=> k \in Places("Prop", n + 1)' /\ Owner(k) = p
    BY <1>2 DEF PropertiesOf
  <2>4. \A k \in 1..n : k \in PropertiesOf(p)' <=> k \in PropertiesOf(p)
    BY <1>2, <1>6, <2>1, <2>3
  <2>5. n + 1 \in PropertiesOf(p)' <=> t.kind = "Prop" /\ Owner(n + 1) = p
    BY <1>2, <1>3, <1>6, <2>3
  <2> QED
    BY <1>6, <2>2, <2>4, <2>5
<1> QED
  BY <1>4, <1>5, <1>7, <1>8

(* The nodes that are finished, and the children that are, do not change   *)
(* as long as the depth does not fall.                                     *)
LEMMA UnfinishedStay ==
  ASSUME Inv, NEW t \in Tokens, block' = Append(block, t), NEW n, n = Len(block),
         t.kind # "EndNode"
  PROVE  \A p \in 1..n : IsUnfinished(p)' <=> IsUnfinished(p)
<1>1. block \in Seq(Tokens)
  BY DEF Inv, TypeOK
<1>2. n \in Nat /\ DepthAfter(n) \in Int /\ DepthAfter(n + 1)' >= DepthAfter(n)
  <2>1. n \in Nat /\ DepthAfter(n) \in Int
    BY <1>1, TokenRead, DepthIsInt
  <2> QED
    BY <1>1, <2>1, TokenRead
<1>3. ASSUME NEW p \in 1..n, IsUnfinished(p) PROVE DepthAfter(n + 1)' >= DepthAfter(p)
  <2>1. n \in p..n /\ p \in Nat
    BY <1>2
  <2>2. DepthAfter(n) >= DepthAfter(p) /\ DepthAfter(p) \in Int
    BY <1>3, <2>1, DepthIsInt DEF IsUnfinished
  <2>3. PICK e : e = DepthAfter(n + 1)'
    OBVIOUS
  <2>4. e \in Int
    BY <1>1, <1>2, <2>3, TokenRead
  <2> QED
    BY <1>2, <2>2, <2>3, <2>4
<1> QED
  BY <1>3, Described

(* A node whose children stay finished or not keeps its finished children. *)
LEMMA FinishedChildrenStay ==
  ASSUME Inv, NEW t \in Tokens, block' = Append(block, t), NEW n, n = Len(block),
         NEW p, \A k \in ChildrenOf(p) : IsUnfinished(k)' <=> IsUnfinished(k)
  PROVE  FinishedChildrenOf(p)' = FinishedChildrenOf(p)
<1>1. /\ ChildrenOf(p) \subseteq 1..n /\ IsUnfinished(n + 1)'
      /\ ChildrenOf(p)' = ChildrenOf(p) \/ ChildrenOf(p)' = ChildrenOf(p) \cup {n + 1}
  BY Described
<1>2. \A k \in 1..n : block'[k] = block[k]
  BY TokenRead DEF Inv, TypeOK
<1>3. {c \in ChildrenOf(p) : ~ IsUnfinished(c)}' = {c \in ChildrenOf(p) : ~ IsUnfinished(c)}
  <2>1. ASSUME NEW c PROVE c \in {k \in ChildrenOf(p) : ~ IsUnfinished(k)}'
                            <=> c \in {k \in ChildrenOf(p) : ~ IsUnfinished(k)}
    BY <1>1
  <2> QED
    BY <2>1
<1> QED
  BY <1>1, <1>2, <1>3 DEF FinishedChildrenOf

(* The node that ends joins the finished children of its own.              *)
LEMMA FinishedChildGained ==
  ASSUME Inv, NEW t \in Tokens, block' = Append(block, t), NEW n, n = Len(block),
         t.kind = "EndNode", NEW p, NEW q \in ChildrenOf(p), ~ IsUnfinished(q)',
         \A k \in ChildrenOf(p) \ {q} : IsUnfinished(k)' <=> IsUnfinished(k)
  PROVE  FinishedChildrenOf(p)' = FinishedChildrenOf(p) \cup {Entry(block[q].name, q)}
<1>1. ChildrenOf(p) \subseteq 1..n /\ ChildrenOf(p)' = ChildrenOf(p)
  BY Described
<1>2. \A k \in 1..n : block'[k] = block[k]
  BY TokenRead DEF Inv, TypeOK
<1>3. {c \in ChildrenOf(p) : ~ IsUnfinished(c)}'
        = {c \in ChildrenOf(p) : ~ IsUnfinished(c)} \cup {q}
  <2>1. ASSUME NEW c PROVE c \in {k \in ChildrenOf(p) : ~ IsUnfinished(k)}'
                            <=> c \in {k \in ChildrenOf(p) : ~ IsUnfinished(k)} \cup {q}
    BY <1>1
  <2> QED
    BY <2>1
<1> QED
  BY <1>1, <1>2, <1>3 DEF FinishedChildrenOf

(* A token that is no property of a node leaves its record of them true.   *)
LEMMA RecordsStay ==
  ASSUME Inv, NEW t \in Tokens, block' = Append(block, t), NEW n, n = Len(block),
         NEW p, t.kind # "Prop" \/ Owner(n + 1) # p, NEW map, RecordsPropertiesOf(map, p)
  PROVE  RecordsPropertiesOf(map, p)'
<1>1. PropertiesOf(p) \subseteq 1..n /\ PropertiesOf(p)' = PropertiesOf(p)
  BY Described
<1>2. \A k \in 1..n : block'[k] = block[k]
  BY TokenRead DEF Inv, TypeOK
<1> QED
  BY <1>1, <1>2 DEF RecordsPropertiesOf

(* A token that is neither the begin nor the end of a node keeps the path. *)
LEMMA PathStays ==
  ASSUME Inv, Nested, NEW t \in Tokens, block' = Append(block, t), NEW n, n = Len(block),
         t.kind \notin {"BeginNode", "EndNode"}, names' = names
  PROVE  Depths' /\ Spine' /\ OnlyThoseUnfinished'
<1>1. block \in Seq(Tokens) /\ Depths /\ Spine /\ OnlyThoseUnfinished
  BY DEF Inv, TypeOK, Nested
<1>2. /\ n \in Nat /\ Len(block') = n + 1 /\ \A p \in 1..n : block'[p] = block[p]
      /\ Places("BeginNode", n + 1)' = Places("BeginNode", n)
      /\ \A m \in 0..n : DepthAfter(m)' = DepthAfter(m)
      /\ DepthAfter(n + 1)' = DepthAfter(n)
      /\ \A p \in 1..n + 1 : Owner(p)' = Owner(p)
  BY <1>1, TokenRead
<1>3. Places("BeginNode", n) \subseteq 1..n /\ 1..n + 1 = (1..n) \cup {n + 1}
  BY <1>2, PlacesFacts
<1>4. \A p \in 1..n : IsUnfinished(p)' <=> IsUnfinished(p)
  BY UnfinishedStay
<1>5. /\ Owner(n + 1) \in 0..n /\ \A d \in 1..Len(names) : names[d].val \in 1..n
  BY <1>1, NextOwner
<1>6. Depths'
  BY <1>1, <1>2, <1>3, <1>5 DEF Depths
<1>7. ASSUME NEW d \in 1..Len(names) PROVE IsOnPath(d)'
  <2>1. IsOnPath(d) /\ names[d].val \in 1..n
    BY <1>1, <1>5 DEF Spine
  <2>2. PlaceAt(d - 1)' = PlaceAt(d - 1)
    BY DEF PlaceAt
  <2>3. \A k \in Places("BeginNode", n) : DepthAfter(k)' = DepthAfter(k)
    BY <1>2, <1>3
  <2> QED
    BY <1>2, <1>3, <1>4, <2>1, <2>2, <2>3 DEF IsOnPath
<1>8. Spine'
  BY <1>7 DEF Spine
<1>9. OnlyThoseUnfinished'
  BY <1>1, <1>2, <1>3, <1>4 DEF OnlyThoseUnfinished
<1> QED
  BY <1>6, <1>8, <1>9

(* Unless a node ends, the lists and what is finished stay true.           *)
LEMMA ListsStay ==
  ASSUME Inv, NEW t \in Tokens, block' = Append(block, t), t.kind # "EndNode",
         NEW list, NEW p, ListsChildrenOf(list, p)
  PROVE  ListsChildrenOf(list, p)'
<1>1. PICK n : n = Len(block)
  OBVIOUS
<1>2. FinishedChildrenOf(p)' = FinishedChildrenOf(p)
  BY <1>1, Described, UnfinishedStay, FinishedChildrenStay
<1> QED
  BY <1>2 DEF ListsChildrenOf

(* So does the record of the finished nodes: only unfinished nodes get     *)
(* children or properties.                                                 *)
LEMMA FinishedStays ==
  ASSUME Inv, Nested, NEW t \in Tokens, block' = Append(block, t), t.kind # "EndNode",
         nodes' = nodes
  PROVE  FinishedRecorded'
<1>1. PICK n : n = Len(block)
  OBVIOUS
<1>2. block \in Seq(Tokens) /\ Depths /\ Spine /\ FinishedRecorded
  BY DEF Inv, TypeOK, Nested
<1>3. n \in Nat /\ Len(block') = n + 1 /\ Places("BeginNode", n) \subseteq 1..n
  BY <1>1, <1>2, TokenRead, PlacesFacts
<1>4. \/ Places("BeginNode", n + 1)' = Places("BeginNode", n)
      \/ Places("BeginNode", n + 1)' = Places("BeginNode", n) \cup {n + 1}
  BY <1>1, <1>2, TokenRead
<1>5. /\ \A p \in 1..n : IsUnfinished(p)' <=> IsUnfinished(p)
      /\ IsUnfinished(n + 1)'
  BY <1>1, UnfinishedStay, Described
<1>6. DOMAIN nodes = {k \in Places("BeginNode", n + 1)' : ~ IsUnfinished(k)'}
  <2>1. DOMAIN nodes = {k \in Places("BeginNode", n) : ~ IsUnfinished(k)}
    BY <1>1, <1>2 DEF FinishedRecorded
  <2>2. ASSUME NEW k PROVE k \in DOMAIN nodes
                            <=> k \in Places("BeginNode", n + 1)' /\ ~ IsUnfinished(k)'
    BY <1>3, <1>4, <1>5, <2>1
  <2> QED
    BY <2>2
<1>7. ASSUME NEW p \in DOMAIN nodes
      PROVE  /\ ToSet(nodes[p].children) = FinishedChildrenOf(p)'
             /\ Len(nodes[p].children) = Cardinality(ChildrenOf(p)')
             /\ IsSortedByKey(nodes[p].children)
             /\ RecordsPropertiesOf(nodes[p].properties, p)'
  <2>1. p \in 1..n /\ ~ IsUnfinished(p)
    BY <1>1, <1>2, <1>3 DEF FinishedRecorded
  <2>2. Owner(n + 1) # p
    <3>1. Owner(n + 1) = PlaceAt(Len(names)) /\ Len(names) \in Nat
      BY <1>1, <1>2, NextOwner
    <3>2. Len(names) = 0 \/ IsUnfinished(names[Len(names)].val)
      BY <1>2, <3>1 DEF Spine, IsOnPath
    <3> QED
      BY <2>1, <3>1, <3>2 DEF PlaceAt
  <2>3. ChildrenOf(p)' = ChildrenOf(p)
    BY <1>1, <2>2, Described
  <2>4. FinishedChildrenOf(p)' = FinishedChildrenOf(p)
    BY <1>1, <1>5, Described, FinishedChildrenStay
  <2>5. RecordsPropertiesOf(nodes[p].properties, p)'
    BY <1>1, <1>2, <2>2, RecordsStay DEF FinishedRecorded
  <2> QED
    BY <1>2, <2>3, <2>4, <2>5 DEF FinishedRecorded
<1> QED
  BY <1>3, <1>6, <1>7 DEF FinishedRecorded
-----------------------------------------------------------------------------
LEMMA ListedStay ==
  ASSUME Inv, Nested, NEW t \in Tokens, block' = Append(block, t), t.kind # "EndNode",
         UNCHANGED <<names, children, root>>
  PROVE  ChildrenListed'
<1>1. ASSUME NEW d \in Levels PROVE ListsChildrenOf(children[Level(d)], PlaceAt(d))'
  <2>1. PICK list, p : list = children[Level(d)] /\ p = PlaceAt(d)
    OBVIOUS
  <2>2. ListsChildrenOf(list, p)'
    BY <1>1, <2>1, ListsStay DEF Nested, ChildrenListed
  <2>3. list = children[Level(d)]' /\ p = PlaceAt(d)'
    BY <2>1 DEF Level, Complete, PlaceAt
  <2> QED
    BY <2>2, <2>3
<1>2. Levels' = Levels
  BY DEF Levels, Complete
<1> QED
  BY <1>1, <1>2 DEF ChildrenListed

(* One lemma for each action that goes on reading.                         *)
LEMMA NopNested ==
  ASSUME Inv, Nested, Nop
  PROVE  Nested'
<1>1. PICK t : t = [kind |-> "Nop"]
  OBVIOUS
<1>2. t \in Tokens /\ t.kind = "Nop"
  BY <1>1 DEF Tokens
<1>3. /\ block' = Append(block, t) /\ names' = names /\ properties' = properties
      /\ children' = children /\ nodes' = nodes /\ root' = root
  BY <1>1 DEF Nop, Read, stacks
<1>4. Depths' /\ Spine' /\ OnlyThoseUnfinished'
  BY <1>2, <1>3, PathStays
<1>5. FinishedRecorded'
  BY <1>2, <1>3, FinishedStays
<1>6. ChildrenListed'
  BY <1>2, <1>3, ListedStay
<1>7. PropertiesRecorded'
  <2>1. ASSUME NEW d \in 1..Len(names) PROVE RecordsPropertiesOf(properties[d], names[d].val)'
    <3>1. PICK map, p : map = properties[d] /\ p = names[d].val
      OBVIOUS
    <3>2. RecordsPropertiesOf(map, p)'
      BY <1>2, <1>3, <3>1, RecordsStay DEF Nested, PropertiesRecorded
    <3> QED
      BY <1>3, <3>1, <3>2
  <2> QED
    BY <1>3, <2>1 DEF PropertiesRecorded
<1> QED
  BY <1>4, <1>5, <1>6, <1>7 DEF Nested

LEMMA EndNested ==
  ASSUME Inv, Nested, End
  PROVE  Nested'
<1>1. PICK t : t = [kind |-> "End"]
  OBVIOUS
<1>2. t \in Tokens /\ t.kind = "End"
  BY <1>1 DEF Tokens
<1>3. block' = Append(block, t) /\ names' = names /\ properties' = properties /\ nodes' = nodes
  BY <1>1 DEF End, Read
<1>4. Depths' /\ Spine' /\ OnlyThoseUnfinished'
  BY <1>2, <1>3, PathStays
<1>5. FinishedRecorded'
  BY <1>2, <1>3, FinishedStays
<1>6. Complete' /\ Len(names') = 0
  BY <1>3, EndInv
<1>7. ChildrenListed'
  BY <1>6 DEF ChildrenListed, Levels
<1>8. PropertiesRecorded'
  BY <1>6 DEF PropertiesRecorded
<1> QED
  BY <1>4, <1>5, <1>7, <1>8 DEF Nested

LEMMA PropNested ==
  ASSUME Inv, Nested, NEW key \in PropKeys, Prop(key)
  PROVE  Nested'
<1>1. PICK t, n : t = [kind |-> "Prop", key |-> key] /\ n = Len(block)
  OBVIOUS
<1>2. t \in Tokens /\ t.kind = "Prop" /\ t.key = key
  BY <1>1 DEF Tokens
<1> DEFINE D == Len(names)
<1>3. /\ block' = Append(block, t) /\ names' = names /\ children' = children
      /\ nodes' = nodes /\ root' = root
      /\ key \notin DOMAIN properties[D]
      /\ properties' = [properties EXCEPT ![D] = With(@, key, n + 1)]
  BY <1>1, StackFacts DEF Prop, Read, Last, Here
<1>4. Depths' /\ Spine' /\ OnlyThoseUnfinished'
  BY <1>2, <1>3, PathStays
<1>5. FinishedRecorded'
  BY <1>2, <1>3, FinishedStays
<1>6. ChildrenListed'
  BY <1>2, <1>3, ListedStay
<1>7. /\ D \in 1..D /\ D > 0 /\ Len(properties) = D
      /\ DOMAIN properties = 1..D
  BY PropInv, StackFacts, LenProperties
<1>8. /\ Depths /\ Spine /\ PropertiesRecorded /\ n \in Nat
      /\ Owner(n + 1) = names[D].val
  BY <1>1, <1>7, NextOwner DEF Nested, PlaceAt
<1>9. /\ \A d \in 1..D : d # D => properties'[d] = properties[d]
      /\ properties'[D] = With(properties[D], key, n + 1)
  BY <1>3, <1>7
<1>10. ASSUME NEW d \in 1..D, d # D PROVE RecordsPropertiesOf(properties[d], names[d].val)'
  <2>1. PICK map, p : map = properties[d] /\ p = names[d].val
    OBVIOUS
  <2>2. Owner(n + 1) # p
    BY <1>7, <1>8, <1>10, <2>1 DEF Spine, IsOnPath
  <2>3. RecordsPropertiesOf(map, p)'
    BY <1>1, <1>2, <1>3, <1>8, <2>1, <2>2, RecordsStay DEF PropertiesRecorded
  <2> QED
    BY <1>3, <1>9, <1>10, <2>1, <2>3
<1>11. RecordsPropertiesOf(properties[D], names[D].val)'
  <2>1. PICK map, q : map = properties[D] /\ q = names[D].val
    OBVIOUS
  <2>2. RecordsPropertiesOf(map, q) /\ key \notin DOMAIN map
    BY <1>3, <1>7, <1>8, <2>1 DEF PropertiesRecorded
  <2>3. /\ PropertiesOf(q) \subseteq 1..n
        /\ PropertiesOf(q)' = PropertiesOf(q) \cup {n + 1}
    BY <1>1, <1>2, <1>3, <1>8, <2>1, Described
  <2>4. /\ \A k \in 1..n : block'[k] = block[k]
        /\ block'[n + 1].key = key /\ n + 1 \notin 1..n
    BY <1>1, <1>2, <1>3, <1>8, TokenRead DEF Inv, TypeOK
  <2> DEFINE m == With(map, key, n + 1)
  <2>5. /\ DOMAIN m = DOMAIN map \cup {key} /\ m[key] = n + 1
        /\ \A x \in DOMAIN map : m[x] = map[x]
        /\ m = [x \in DOMAIN m |-> m[x]]
    BY <2>2 DEF With
  <2> HIDE DEF m
  <2>6. {block'[k].key : k \in PropertiesOf(q)'}
          = {block[k].key : k \in PropertiesOf(q)} \cup {key}
    BY <2>3, <2>4
  <2>7. \A k \in PropertiesOf(q)' : m[block'[k].key] = k
    BY <2>2, <2>3, <2>4, <2>5 DEF RecordsPropertiesOf
  <2>8. RecordsPropertiesOf(m, q)'
    BY <2>2, <2>5, <2>6, <2>7 DEF RecordsPropertiesOf
  <2> QED
    BY <1>3, <1>9, <2>1, <2>8 DEF m
<1>12. PropertiesRecorded'
  BY <1>3, <1>10, <1>11 DEF PropertiesRecorded
<1> QED
  BY <1>4, <1>5, <1>6, <1>12 DEF Nested

LEMMA BeginNodeNested ==
  ASSUME Inv, Nested, NEW name \in Names, BeginNode(name)
  PROVE  Nested'
<1>1. PICK t, n, D : /\ t = [kind |-> "BeginNode", name |-> name]
                     /\ n = Len(block) /\ D = Len(names)
  OBVIOUS
<1>2. t \in Tokens /\ t.kind = "BeginNode" /\ t.name = name
  BY <1>1 DEF Tokens
<1> DEFINE e == Entry(name, n + 1)
<1>3. /\ block' = Append(block, t) /\ names' = Append(names, e)
      /\ properties' = Append(properties, <<>>) /\ children' = Append(children, <<>>)
      /\ nodes' = nodes /\ root' = root
  BY <1>1 DEF BeginNode, Read, Here
<1>4. /\ block \in Seq(Tokens) /\ Depths /\ Spine /\ OnlyThoseUnfinished
      /\ ChildrenListed /\ PropertiesRecorded
  BY DEF Inv, TypeOK, Nested
<1>5. /\ D \in Nat /\ n \in Nat /\ Owner(n + 1) = PlaceAt(D) /\ Owner(n + 1) \in 0..n
      /\ \A d \in 1..D : names[d].val \in 1..n
  BY <1>1, <1>4, NextOwner
<1>6. /\ Len(names') = D + 1 /\ names'[D + 1] = e /\ \A d \in 1..D : names'[d] = names[d]
      /\ Len(properties) = D /\ properties'[D + 1] = <<>>
      /\ \A d \in 1..D : properties'[d] = properties[d]
  BY <1>1, <1>3, <1>5, StackFacts, AppendProperties
<1>7. e.key = name /\ e.val = n + 1
  BY DEF Entry
<1> HIDE DEF e
<1>8. /\ Len(block') = n + 1 /\ block'[n + 1] = t /\ \A p \in 1..n : block'[p] = block[p]
      /\ Places("BeginNode", n + 1)' = Places("BeginNode", n) \cup {n + 1}
      /\ \A m \in 0..n : DepthAfter(m)' = DepthAfter(m)
      /\ DepthAfter(n + 1)' = D + 1
      /\ \A p \in 1..n + 1 : Owner(p)' = Owner(p)
  <2>1. DepthAfter(n) = D
    BY <1>1, <1>4 DEF Depths
  <2>2. DepthAfter(n + 1)' = DepthAfter(n) + 1
    BY <1>1, <1>2, <1>3, <1>4, TokenRead
  <2>3. Places("BeginNode", n + 1)' = Places("BeginNode", n) \cup {n + 1}
    BY <1>1, <1>2, <1>3, <1>4, TokenRead
  <2> QED
    BY <1>1, <1>2, <1>3, <1>4, <2>1, <2>2, <2>3, TokenRead
<1>9. /\ Places("BeginNode", n) \subseteq 1..n /\ 1..n + 1 = (1..n) \cup {n + 1}
      /\ n + 1 \notin 1..n /\ 1..D + 1 = (1..D) \cup {D + 1} /\ D + 1 \notin 1..D
  BY <1>5, PlacesFacts
<1>10. /\ \A p \in 1..n : IsUnfinished(p)' <=> IsUnfinished(p)
       /\ IsUnfinished(n + 1)'
  BY <1>1, <1>2, <1>3, UnfinishedStay, Described
<1>11. Depths'
  BY <1>1, <1>4, <1>5, <1>6, <1>8, <1>9 DEF Depths
<1>12. \A d \in 0..D : PlaceAt(d)' = PlaceAt(d)
  BY <1>1, <1>5, <1>6 DEF PlaceAt
<1>13. ASSUME NEW d \in 1..D PROVE IsOnPath(d)'
  <2>1. IsOnPath(d) /\ names'[d] = names[d] /\ names[d].val \in 1..n /\ d \in Nat
    BY <1>1, <1>4, <1>5, <1>6 DEF Spine
  <2>2. PlaceAt(d - 1)' = PlaceAt(d - 1)
    BY <1>5, <1>12
  <2>3. d # D + 1 /\ \A k \in Places("BeginNode", n) : DepthAfter(k)' = DepthAfter(k)
    BY <1>5, <1>8, <1>9
  <2> QED
    BY <1>1, <1>5, <1>8, <1>9, <1>10, <2>1, <2>2, <2>3 DEF IsOnPath
<1>14. IsOnPath(D + 1)'
  <2>1. D + 1 - 1 = D /\ PlaceAt(D)' = PlaceAt(D)
    BY <1>5, <1>12
  <2>2. PlaceAt(D + 1 - 1)' = PlaceAt(D)
    <3>1. PICK m : m = D + 1 - 1
      OBVIOUS
    <3> QED
      BY <2>1, <3>1
  <2>3. \A k \in Places("BeginNode", n + 1)' : k <= n + 1
    BY <1>5, <1>8, <1>9
  <2> QED
    BY <1>1, <1>2, <1>5, <1>6, <1>7, <1>8, <1>9, <1>10, <2>2, <2>3 DEF IsOnPath
<1>15. Spine'
  BY <1>1, <1>6, <1>9, <1>13, <1>14 DEF Spine
<1>16. OnlyThoseUnfinished'
  BY <1>1, <1>4, <1>5, <1>6, <1>7, <1>8, <1>9, <1>10 DEF OnlyThoseUnfinished
<1>17. FinishedRecorded'
  BY <1>2, <1>3, FinishedStays
<1>18. /\ ChildrenOf(n + 1)' = {} /\ PropertiesOf(n + 1)' = {}
  <2>1. \A k \in 1..n + 1 : Owner(k)' # n + 1
    BY <1>1, <1>4, <1>5, <1>8, <1>9 DEF Depths
  <2>2. \A kind : Places(kind, n + 1)' \subseteq 1..n + 1
    <3>1. Len(block') = n + 1
      BY <1>8
    <3> QED
      BY <3>1 DEF Places
  <2> QED
    BY <1>8, <2>1, <2>2 DEF ChildrenOf, PropertiesOf
<1>19. ChildrenListed'
  <2>1. Levels' = Levels \cup {D + 1}
    BY <1>1, <1>3, <1>5, <1>6 DEF Levels, Complete
  <2>2. ASSUME NEW d \in Levels PROVE ListsChildrenOf(children[Level(d)], PlaceAt(d))'
    <3>1. PICK list, p : list = children[Level(d)] /\ p = PlaceAt(d)
      OBVIOUS
    <3>2. ListsChildrenOf(list, p)'
      BY <1>2, <1>3, <1>4, <2>2, <3>1, ListsStay DEF ChildrenListed
    <3>3. p = PlaceAt(d)' /\ d \in 0..D
      BY <1>1, <1>5, <1>12, <2>2, <3>1 DEF Levels
    <3>4. Level(d)' = Level(d) /\ Level(d) \in 1..Len(children)
      BY <1>1, <1>3, <1>5, <2>2, StackFacts DEF Level, Levels, Complete
    <3>5. children'[Level(d)] = list
      BY <1>3, <3>1, <3>4, StackFacts, AppendProperties
    <3> QED
      BY <3>2, <3>3, <3>4, <3>5
  <2>3. ListsChildrenOf(children[Level(D + 1)], PlaceAt(D + 1))'
    <3>1. PlaceAt(D + 1)' = n + 1
      BY <1>5, <1>6, <1>7 DEF PlaceAt
    <3>2. Level(D + 1)' = Len(children) + 1 /\ children'[Len(children) + 1] = <<>>
      BY <1>1, <1>3, <1>5, StackFacts, AppendProperties DEF Level, Complete
    <3>3. FinishedChildrenOf(n + 1)' = {}
      BY <1>18 DEF FinishedChildrenOf
    <3>4. ToSet(<<>>) = {} /\ Len(<<>>) = 0
      BY DEF ToSet
    <3>5. ListsChildrenOf(<<>>, n + 1)'
      BY <3>3, <3>4 DEF ListsChildrenOf
    <3> QED
      BY <3>1, <3>2, <3>5
  <2> QED
    BY <2>1, <2>2, <2>3 DEF ChildrenListed
<1>20. PropertiesRecorded'
  <2>1. ASSUME NEW d \in 1..D PROVE RecordsPropertiesOf(properties[d], names[d].val)'
    <3>1. PICK map, p : map = properties[d] /\ p = names[d].val
      OBVIOUS
    <3>2. RecordsPropertiesOf(map, p)'
      BY <1>1, <1>2, <1>3, <1>4, <2>1, <3>1, RecordsStay DEF PropertiesRecorded
    <3> QED
      BY <1>6, <2>1, <3>1, <3>2
  <2>2. RecordsPropertiesOf(<<>>, n + 1)'
    BY <1>18 DEF RecordsPropertiesOf
  <2> QED
    BY <1>1, <1>6, <1>7, <1>9, <2>1, <2>2 DEF PropertiesRecorded
<1> QED
  BY <1>11, <1>15, <1>16, <1>17, <1>19, <1>20 DEF Nested
-----------------------------------------------------------------------------
(* A list of all the children of a node is as long as there are children.  *)
LEMMA ChildrenCounted ==
  ASSUME NEW list \in Seq(Children), NEW q, ListsChildrenOf(list, q),
         \A k \in ChildrenOf(q) : ~ IsUnfinished(k)
  PROVE  Len(list) = Cardinality(ChildrenOf(q))
<1> DEFINE n == Len(list)
           S == ChildrenOf(q)
           f == [i \in 1..n |-> list[i].val]
<1>1. n \in Nat /\ DOMAIN list = 1..n
  BY LenProperties
<1>2. ToSet(list) = {Entry(block[k].name, k) : k \in S}
  BY DEF ListsChildrenOf, FinishedChildrenOf
<1> HIDE DEF n, S
<1>3. \A i \in 1..n : list[i].val \in S
  BY <1>1, <1>2 DEF ToSet, Entry
<1>4. ASSUME NEW k \in S PROVE \E i \in 1..n : list[i].val = k
  <2>1. Entry(block[k].name, k) \in ToSet(list)
    BY <1>2
  <2>2. PICK i \in 1..n : list[i] = Entry(block[k].name, k)
    BY <1>1, <2>1 DEF ToSet
  <2> QED
    BY <2>2 DEF Entry
<1>5. \A i, j \in 1..n : list[i].val = list[j].val => i = j
  BY DEF ListsChildrenOf, n
<1>6. f \in [1..n -> S] /\ \A i \in 1..n : f[i] = list[i].val
  BY <1>3
<1> HIDE DEF f
<1>7. f \in Bijection(1..n, S)
  BY <1>4, <1>5, <1>6 DEF Bijection, Injection, Surjection, IsInjective
<1>8. Cardinality(S) = n
  <2>1. ExistsBijection(1..n, S)
    BY <1>7 DEF ExistsBijection
  <2> QED
    BY <1>1, <2>1, FS_CountingElements
<1> QED
  BY <1>8 DEF n, S

(* What ending the innermost node does to the stacks.                      *)
LEMMA StacksPopped ==
  ASSUME Inv, EndNode, NEW D, D = Len(names), NEW q, q = names[D].val
  PROVE  /\ D \in Nat \ {0} /\ D \in 1..D
         /\ names[D] \in Children
         /\ Len(names') = D - 1 /\ \A d \in 1..D - 1 : names'[d] = names[d]
         /\ Len(properties') = D - 1 /\ \A d \in 1..D - 1 : properties'[d] = properties[d]
         /\ Complete' <=> Complete
         /\ Levels' = Levels \ {D} /\ D \in Levels /\ D - 1 \in Levels /\ Levels \subseteq 0..D
         /\ \A d \in Levels : children[Level(d)] \in Seq(Children)
         /\ \A d \in Levels : d < D - 1 => children[Level(d)]' = children[Level(d)]
         /\ children[Level(D - 1)]' = Append(children[Level(D - 1)], names[D])
         /\ \E kids \in SortedPermutations(children[Level(D)]) :
              nodes' = With(nodes, q, [children |-> kids, properties |-> properties[D]])
<1>1. names # <<>> /\ InSync
  BY StackFacts DEF EndNode, InSync
<1>2. /\ Len(children) > 1 /\ root' = root
      /\ names' = Front(names) /\ properties' = Front(properties)
      /\ children' = Adopt(Front(children), Last(names))
      /\ \E kids \in SortedPermutations(Last(children)) :
           nodes' = With(nodes, Last(names).val,
                         [children |-> kids, properties |-> Last(properties)])
  BY <1>1 DEF EndNode
<1>3. /\ D \in Nat \ {0} /\ D \in 1..D /\ Last(names) = names[D] /\ names[D] \in Children
      /\ Len(names') = D - 1 /\ \A d \in 1..D - 1 : names'[d] = names[d]
  <2>1. names \in Seq(Children) /\ names # <<>>
    BY <1>1, StackFacts
  <2> HIDE DEF Children
  <2>2. /\ Len(Front(names)) = D - 1 /\ D \in Nat \ {0} /\ Last(names) = names[D]
        /\ \A d \in 1..D - 1 : Front(names)[d] = names[d]
        /\ Last(names) \in Children
    BY <2>1, FrontProperties
  <2> QED
    BY <1>2, <2>2
<1>4. /\ Len(properties) = D /\ Last(properties) = properties[D]
      /\ Len(properties') = D - 1 /\ \A d \in 1..D - 1 : properties'[d] = properties[d]
  BY <1>1, <1>2, StackFacts, FrontProperties DEF InSync
<1>5. Complete' <=> Complete
  BY <1>2 DEF Complete
<1> DEFINE L == Len(children)
           below == Front(children)
<1>6. /\ L \in Nat /\ L = IF Complete THEN D ELSE D + 1
      /\ \A i \in 1..L : children[i] \in Seq(Children)
  BY <1>3, ElementOfSeq, StackFacts
<1>7. /\ below \in Seq(Seq(Children)) /\ Len(below) = L - 1 /\ Last(children) = children[L]
      /\ \A i \in 1..L - 1 : below[i] = children[i]
  BY <1>1, StackFacts, FrontProperties DEF InSync
<1> HIDE DEF below
<1>8. children' = [below EXCEPT ![L - 1] = Append(@, names[D])]
  BY <1>2, <1>3, <1>7 DEF Adopt, below
<1>9. DOMAIN below = 1..L - 1 /\ L - 1 \in 1..L - 1
  BY <1>2, <1>6, <1>7, LenProperties
<1>10. /\ \A i \in 1..L - 1 : i # L - 1 => children'[i] = children[i]
       /\ children'[L - 1] = Append(children[L - 1], names[D])
  BY <1>7, <1>8, <1>9
<1>11. /\ Levels' = Levels \ {D} /\ D \in Levels /\ D - 1 \in Levels /\ Levels \subseteq 0..D
  BY <1>2, <1>3, <1>5, <1>6 DEF Levels
<1>12. /\ \A d \in Levels : Level(d)' = Level(d) /\ Level(d) \in 1..L
       /\ \A d \in Levels : d < D - 1 => Level(d) \in 1..L - 1 /\ Level(d) # L - 1
       /\ Level(D - 1) = L - 1 /\ Level(D) = L /\ Level(D - 1)' = L - 1
  BY <1>3, <1>5, <1>6 DEF Levels, Level
<1>13. \A d \in Levels : d < D - 1 => children[Level(d)]' = children[Level(d)]
  BY <1>10, <1>12
<1>14. children[Level(D - 1)]' = Append(children[Level(D - 1)], names[D])
  BY <1>10, <1>12
<1>15. \E kids \in SortedPermutations(children[Level(D)]) :
         nodes' = With(nodes, q, [children |-> kids, properties |-> properties[D]])
  BY <1>2, <1>3, <1>4, <1>7, <1>12
<1> QED
  BY <1>3, <1>4, <1>5, <1>6, <1>11, <1>12, <1>13, <1>14, <1>15

LEMMA EndNodeNested ==
  ASSUME Inv, Nested, EndNode
  PROVE  Nested'
<1>1. PICK t, n, D, q : /\ t = [kind |-> "EndNode"] /\ n = Len(block)
                        /\ D = Len(names) /\ q = names[D].val
  OBVIOUS
<1>2. t \in Tokens /\ t.kind = "EndNode"
  BY <1>1 DEF Tokens
<1>3. block' = Append(block, t)
  BY <1>1 DEF EndNode, Read
<1>4. /\ block \in Seq(Tokens) /\ Depths /\ Spine /\ OnlyThoseUnfinished
      /\ ChildrenListed /\ PropertiesRecorded /\ FinishedRecorded
  BY DEF Inv, TypeOK, Nested
<1>5. /\ D \in Nat \ {0} /\ D \in 1..D /\ names[D] \in Children
      /\ Len(names') = D - 1 /\ \A d \in 1..D - 1 : names'[d] = names[d]
      /\ \A d \in 1..D - 1 : properties'[d] = properties[d]
      /\ Levels' = Levels \ {D} /\ D \in Levels /\ D - 1 \in Levels /\ Levels \subseteq 0..D
  BY <1>1, StacksPopped
<1>6. /\ \A d \in Levels : children[Level(d)] \in Seq(Children)
      /\ \A d \in Levels : d < D - 1 => children[Level(d)]' = children[Level(d)]
      /\ children[Level(D - 1)]' = Append(children[Level(D - 1)], names[D])
  BY <1>1, StacksPopped
<1>7. PICK kids, map : /\ kids \in SortedPermutations(children[Level(D)])
                       /\ map = properties[D]
                       /\ nodes' = With(nodes, q, [children |-> kids, properties |-> map])
  <2>1. PICK map : map = properties[D]
    OBVIOUS
  <2>2. PICK kids \in SortedPermutations(children[Level(D)]) :
          nodes' = With(nodes, q, [children |-> kids, properties |-> map])
    BY <1>1, <2>1, StacksPopped
  <2> QED
    BY <2>1, <2>2
<1>8. /\ n \in Nat /\ Owner(n + 1) \in 0..n /\ \A d \in 1..D : names[d].val \in 1..n
  BY <1>1, <1>4, NextOwner
<1>9. /\ Len(block') = n + 1 /\ \A p \in 1..n : block'[p] = block[p]
      /\ Places("BeginNode", n + 1)' = Places("BeginNode", n)
      /\ \A m \in 0..n : DepthAfter(m)' = DepthAfter(m)
      /\ DepthAfter(n + 1)' = D - 1
      /\ \A p \in 1..n + 1 : Owner(p)' = Owner(p)
  <2>1. DepthAfter(n) = D
    BY <1>1, <1>4 DEF Depths
  <2>2. DepthAfter(n + 1)' = DepthAfter(n) - 1
    BY <1>1, <1>2, <1>3, <1>4, TokenRead
  <2>3. Places("BeginNode", n + 1)' = Places("BeginNode", n)
    BY <1>1, <1>2, <1>3, <1>4, TokenRead
  <2> QED
    BY <1>1, <1>2, <1>3, <1>4, <2>1, <2>2, <2>3, TokenRead
<1>10. Places("BeginNode", n) \subseteq 1..n /\ 1..n + 1 = (1..n) \cup {n + 1}
  BY <1>8, PlacesFacts
<1>11. /\ q \in Places("BeginNode", n) /\ q \in 1..n /\ DepthAfter(q) = D /\ IsUnfinished(q)
       /\ names[D].key = block[q].name /\ Owner(q) = PlaceAt(D - 1) /\ PlaceAt(D) = q
  BY <1>1, <1>4, <1>5, <1>8 DEF Spine, IsOnPath, PlaceAt
<1>12. ~ IsUnfinished(q)'
  BY <1>1, <1>2, <1>3, <1>5, <1>9, <1>11, Described
<1>13. ASSUME NEW p \in Places("BeginNode", n), p # q
       PROVE  IsUnfinished(p)' <=> IsUnfinished(p)
  <2>1. IsUnfinished(p)' <=> IsUnfinished(p) /\ D - 1 >= DepthAfter(p)
    BY <1>1, <1>2, <1>3, <1>9, <1>10, Described
  <2>2. ASSUME IsUnfinished(p) PROVE D - 1 >= DepthAfter(p)
    <3>1. PICK d \in 1..D : names[d].val = p
      BY <1>1, <1>4, <2>2 DEF OnlyThoseUnfinished
    <3>2. d # D /\ DepthAfter(p) = d
      BY <1>1, <1>4, <1>13, <3>1 DEF Spine, IsOnPath
    <3> QED
      BY <1>5, <3>2
  <2> QED
    BY <2>1, <2>2
<1>14. \A p : ChildrenOf(p) \subseteq Places("BeginNode", n) /\ ChildrenOf(p)' = ChildrenOf(p)
  <2>1. \A p : ChildrenOf(p)' = ChildrenOf(p)
    BY <1>1, <1>2, <1>3, Described
  <2> QED
    BY <1>1, <2>1 DEF ChildrenOf
<1>15. \A p : q \in ChildrenOf(p) <=> p = PlaceAt(D - 1)
  BY <1>1, <1>11 DEF ChildrenOf
<1>16. ASSUME NEW p, p # PlaceAt(D - 1)
       PROVE  FinishedChildrenOf(p)' = FinishedChildrenOf(p)
  <2>1. \A k \in ChildrenOf(p) : IsUnfinished(k)' <=> IsUnfinished(k)
    BY <1>13, <1>14, <1>15, <1>16
  <2> QED
    BY <1>1, <1>2, <1>3, <2>1, FinishedChildrenStay
<1>17. \A d \in 0..D - 1 : PlaceAt(d)' = PlaceAt(d) /\ PlaceAt(d) # q
  <2>1. ASSUME NEW d \in 0..D - 1 PROVE PlaceAt(d)' = PlaceAt(d) /\ PlaceAt(d) # q
    <3>1. CASE d = 0
      BY <1>11, <3>1 DEF PlaceAt
    <3>2. CASE d # 0
      <4>1. d \in 1..D - 1 /\ d \in 1..D /\ d # D
        BY <1>5, <3>2
      <4>2. names[d].val # q
        BY <1>1, <1>4, <1>11, <4>1 DEF Spine, IsOnPath
      <4> QED
        BY <1>5, <3>2, <4>1, <4>2 DEF PlaceAt
    <3> QED
      BY <3>1, <3>2
  <2> QED
    BY <2>1
<1>18. Depths'
  BY <1>1, <1>4, <1>5, <1>8, <1>9, <1>10 DEF Depths
<1>19. ASSUME NEW d \in 1..D - 1 PROVE IsOnPath(d)'
  <2>1. /\ IsOnPath(d) /\ names'[d] = names[d] /\ names[d].val \in 1..n
        /\ d \in Nat \ {0} /\ d \in 0..D - 1
    BY <1>1, <1>4, <1>5, <1>8 DEF Spine
  <2>2. PlaceAt(d - 1)' = PlaceAt(d - 1)
    <3>1. d - 1 \in 0..D - 1
      BY <1>5, <2>1
    <3> QED
      BY <1>17, <3>1
  <2>3. \A k \in Places("BeginNode", n) : DepthAfter(k)' = DepthAfter(k)
    BY <1>9, <1>10
  <2>4. PlaceAt(d) = names[d].val
    BY <2>1 DEF PlaceAt
  <2>5. names[d].val # q /\ names[d].val \in Places("BeginNode", n)
    BY <1>1, <1>17, <2>1, <2>4 DEF IsOnPath
  <2>6. IsUnfinished(names[d].val)
    BY <2>1 DEF IsOnPath
  <2>7. PICK p : p = names[d].val
    OBVIOUS
  <2>8. IsUnfinished(p)' /\ p = names[d].val'
    BY <1>13, <2>1, <2>5, <2>6, <2>7
  <2>9. IsUnfinished(names[d].val)'
    BY <2>8
  <2> QED
    BY <1>1, <1>8, <1>9, <1>10, <2>1, <2>2, <2>3, <2>9 DEF IsOnPath
<1>20. Spine'
  BY <1>5, <1>19 DEF Spine
<1>21. OnlyThoseUnfinished'
  <2>1. ASSUME NEW k \in Places("BeginNode", n), IsUnfinished(k)'
        PROVE  \E d \in 1..D - 1 : names'[d].val = k
    <3>1. k # q
      BY <1>12, <2>1
    <3>2. IsUnfinished(k)
      BY <1>13, <2>1, <3>1
    <3>3. PICK d \in 1..D : names[d].val = k
      BY <1>1, <1>4, <3>2 DEF OnlyThoseUnfinished
    <3>4. d \in 1..D - 1
      BY <1>1, <1>5, <3>1, <3>3
    <3> QED
      BY <1>5, <3>3, <3>4
  <2> QED
    BY <1>5, <1>9, <2>1 DEF OnlyThoseUnfinished
<1>22. PropertiesRecorded'
  <2>1. ASSUME NEW d \in 1..D - 1 PROVE RecordsPropertiesOf(properties[d], names[d].val)'
    <3>1. PICK record, p : record = properties[d] /\ p = names[d].val
      OBVIOUS
    <3>2. d \in 1..D
      BY <1>5
    <3>3. RecordsPropertiesOf(record, p)'
      BY <1>1, <1>2, <1>3, <1>4, <3>1, <3>2, RecordsStay DEF PropertiesRecorded
    <3> QED
      BY <1>5, <2>1, <3>1, <3>3
  <2> QED
    BY <1>5, <2>1 DEF PropertiesRecorded
<1>23. ASSUME NEW d \in Levels, d < D - 1
       PROVE  ListsChildrenOf(children[Level(d)], PlaceAt(d))'
  <2>1. PICK list, p : list = children[Level(d)] /\ p = PlaceAt(d)
    OBVIOUS
  <2>2. d \in 0..D - 1 /\ d \in Int
    BY <1>5, <1>23
  <2>3. p # PlaceAt(D - 1)
    <3>1. CASE d = 0
      <4>1. p = 0 /\ D - 1 \in 1..D /\ D - 1 # 0
        BY <1>5, <1>23, <2>1, <3>1 DEF PlaceAt
      <4>2. names[D - 1].val \in 1..n
        BY <1>8, <4>1
      <4> QED
        BY <1>8, <4>1, <4>2 DEF PlaceAt
    <3>2. CASE d # 0
      <4>1. d \in 1..D /\ D - 1 \in 1..D /\ D - 1 # 0 /\ d # D - 1
        BY <1>5, <1>23, <2>2, <3>2
      <4>2. DepthAfter(names[d].val) = d /\ DepthAfter(names[D - 1].val) = D - 1
        BY <1>1, <1>4, <4>1 DEF Spine, IsOnPath
      <4> QED
        BY <2>1, <3>2, <4>1, <4>2 DEF PlaceAt
    <3> QED
      BY <3>1, <3>2
  <2>4. FinishedChildrenOf(p)' = FinishedChildrenOf(p)
    BY <1>16, <2>3
  <2>5. ListsChildrenOf(list, p)
    BY <1>4, <1>23, <2>1 DEF ChildrenListed
  <2>6. ListsChildrenOf(list, p)'
    BY <2>4, <2>5 DEF ListsChildrenOf
  <2>7. PlaceAt(d)' = p /\ children[Level(d)]' = list
    BY <1>6, <1>17, <1>23, <2>1, <2>2
  <2> QED
    BY <2>6, <2>7
<1>24. ListsChildrenOf(children[Level(D - 1)], PlaceAt(D - 1))'
  <2>1. PICK list, p, e : list = children[Level(D - 1)] /\ p = PlaceAt(D - 1) /\ e = names[D]
    OBVIOUS
  <2>2. list \in Seq(Children) /\ ListsChildrenOf(list, p) /\ e \in Children
    BY <1>4, <1>5, <1>6, <2>1 DEF ChildrenListed
  <2>3. e = Entry(block[q].name, q) /\ e.val = q
    BY <1>1, <1>11, <2>1, <2>2 DEF Children, Entry
  <2>4. FinishedChildrenOf(p)' = FinishedChildrenOf(p) \cup {e}
    <3>1. q \in ChildrenOf(p)
      BY <1>15, <2>1
    <3>2. \A k \in ChildrenOf(p) \ {q} : IsUnfinished(k)' <=> IsUnfinished(k)
      BY <1>13, <1>14
    <3> QED
      BY <1>1, <1>2, <1>3, <1>12, <2>3, <3>1, <3>2, FinishedChildGained
  <2>5. ToSet(Append(list, e)) = ToSet(list) \cup {e}
    <3> HIDE DEF Children
    <3> QED
      BY <2>2, ToSetAppend
  <2>6. /\ Len(list) \in Nat /\ Len(Append(list, e)) = Len(list) + 1
        /\ Append(list, e)[Len(list) + 1] = e
        /\ \A i \in 1..Len(list) : Append(list, e)[i] = list[i]
        /\ DOMAIN list = 1..Len(list)
    <3> HIDE DEF Children
    <3> QED
      BY <2>2, AppendProperties, LenProperties
  <2>7. \A i \in 1..Len(list) : list[i].val # q
    <3>1. \A i \in 1..Len(list) : list[i] \in FinishedChildrenOf(p)
      BY <2>2, <2>6 DEF ListsChildrenOf, ToSet
    <3>2. \A x \in FinishedChildrenOf(p) : x.val # q
      BY <1>11 DEF FinishedChildrenOf, Entry
    <3> QED
      BY <3>1, <3>2
  <2> DEFINE longer == Append(list, e)
  <2> HIDE DEF longer
  <2>8. ListsChildrenOf(longer, p)'
    <3>1. ToSet(longer) = FinishedChildrenOf(p)'
      BY <2>2, <2>4, <2>5 DEF longer, ListsChildrenOf
    <3>2. ASSUME NEW i \in 1..Len(longer), NEW j \in 1..Len(longer),
                 longer[i].val = longer[j].val
          PROVE  i = j
      BY <2>2, <2>3, <2>6, <2>7, <3>2 DEF longer, ListsChildrenOf
    <3> QED
      BY <3>1, <3>2 DEF ListsChildrenOf
  <2>9. PlaceAt(D - 1)' = p /\ children[Level(D - 1)]' = longer
    <3>1. D - 1 \in 0..D - 1
      BY <1>5
    <3> QED
      BY <1>6, <1>17, <2>1, <3>1 DEF longer
  <2> QED
    BY <2>8, <2>9
<1>25. ChildrenListed'
  <2>1. ASSUME NEW d \in Levels \ {D} PROVE ListsChildrenOf(children[Level(d)], PlaceAt(d))'
    <3>1. d \in Int /\ d <= D - 1
      BY <1>5
    <3>2. CASE d = D - 1
      BY <1>24, <3>2
    <3>3. CASE d # D - 1
      BY <1>5, <1>23, <3>1, <3>3
    <3> QED
      BY <3>2, <3>3
  <2> QED
    BY <1>5, <2>1 DEF ChildrenListed
<1> DEFINE node == [children |-> kids, properties |-> map]
<1>26. /\ DOMAIN nodes' = DOMAIN nodes \cup {q} /\ nodes'[q] = node
       /\ \A p \in DOMAIN nodes : p # q => nodes'[p] = nodes[p]
  BY <1>7 DEF With
<1>27. node.children = kids /\ node.properties = map
  OBVIOUS
<1> HIDE DEF node
<1>28. DOMAIN nodes' = {k \in Places("BeginNode", n) : ~ IsUnfinished(k)'}
  <2>1. DOMAIN nodes = {k \in Places("BeginNode", n) : ~ IsUnfinished(k)}
    BY <1>1, <1>4 DEF FinishedRecorded
  <2>2. ASSUME NEW k
        PROVE  k \in DOMAIN nodes' <=> k \in Places("BeginNode", n) /\ ~ IsUnfinished(k)'
    BY <1>11, <1>12, <1>13, <1>26, <2>1
  <2> QED
    BY <2>2
<1>29. ASSUME NEW p \in DOMAIN nodes, p # q
       PROVE  (/\ ToSet(nodes[p].children) = FinishedChildrenOf(p)
               /\ Len(nodes[p].children) = Cardinality(ChildrenOf(p))
               /\ IsSortedByKey(nodes[p].children)
               /\ RecordsPropertiesOf(nodes[p].properties, p))'
  <2>1. p \in 1..n /\ ~ IsUnfinished(p)
    BY <1>1, <1>4, <1>10 DEF FinishedRecorded
  <2>2. p # PlaceAt(D - 1)
    <3>1. CASE D = 1
      BY <2>1, <3>1 DEF PlaceAt
    <3>2. CASE D # 1
      <4>1. D - 1 \in 1..D /\ D - 1 # 0
        BY <1>5, <3>2
      <4>2. IsUnfinished(names[D - 1].val)
        BY <1>1, <1>4, <4>1 DEF Spine, IsOnPath
      <4> QED
        BY <2>1, <4>1, <4>2 DEF PlaceAt
    <3> QED
      BY <3>1, <3>2
  <2>3. FinishedChildrenOf(p)' = FinishedChildrenOf(p)
    BY <1>16, <2>2
  <2>4. nodes'[p] = nodes[p]
    BY <1>26, <1>29
  <2>5. RecordsPropertiesOf(nodes[p].properties, p)'
    <3>1. PICK record : record = nodes[p].properties
      OBVIOUS
    <3>2. RecordsPropertiesOf(record, p)'
      BY <1>1, <1>2, <1>3, <1>4, <3>1, RecordsStay DEF FinishedRecorded
    <3> QED
      BY <2>4, <3>1, <3>2
  <2> QED
    BY <1>4, <1>14, <2>3, <2>4, <2>5 DEF FinishedRecorded
<1>30. /\ ToSet(node.children) = FinishedChildrenOf(q)'
       /\ Len(node.children) = Cardinality(ChildrenOf(q)')
       /\ IsSortedByKey(node.children)
       /\ RecordsPropertiesOf(node.properties, q)'
  <2>1. PICK list : list = children[Level(D)]
    OBVIOUS
  <2>2. list \in Seq(Children) /\ kids \in SortedPermutations(list)
    BY <1>5, <1>6, <1>7, <2>1
  <2>3. ListsChildrenOf(list, q)
    BY <1>4, <1>5, <1>11, <2>1 DEF ChildrenListed
  <2>4. Len(kids) = Len(list) /\ IsSortedByKey(kids) /\ ToSet(kids) = ToSet(list)
    <3> HIDE DEF Children
    <3> QED
      BY <2>2, SortedPermutationProperties, SortedPermutationElements
  <2>5. ASSUME NEW k \in ChildrenOf(q) PROVE ~ IsUnfinished(k)
    <3>1. SUFFICES ASSUME IsUnfinished(k) PROVE FALSE
      OBVIOUS
    <3>2. PICK d \in 1..D : names[d].val = k
      BY <1>1, <1>4, <1>14, <3>1 DEF OnlyThoseUnfinished
    <3>3. PlaceAt(d - 1) = q
      BY <1>1, <1>4, <2>5, <3>2 DEF Spine, IsOnPath, ChildrenOf
    <3>4. d - 1 \in 0..D - 1
      BY <1>5
    <3> QED
      BY <1>17, <3>3, <3>4
  <2>6. Len(list) = Cardinality(ChildrenOf(q))
    BY <2>2, <2>3, <2>5, ChildrenCounted
  <2>7. FinishedChildrenOf(q)' = FinishedChildrenOf(q)
    <3>1. D - 1 \in 0..D - 1
      BY <1>5
    <3> QED
      BY <1>16, <1>17, <3>1
  <2>8. RecordsPropertiesOf(map, q)'
    <3>1. RecordsPropertiesOf(map, q)
      BY <1>1, <1>4, <1>5, <1>7 DEF PropertiesRecorded
    <3> QED
      BY <1>1, <1>2, <1>3, <3>1, RecordsStay
  <2> QED
    BY <1>14, <1>27, <2>3, <2>4, <2>6, <2>7, <2>8 DEF ListsChildrenOf
<1>31. FinishedRecorded'
  <2>1. ASSUME NEW p \in DOMAIN nodes'
        PROVE  (/\ ToSet(nodes[p].children) = FinishedChildrenOf(p)
                /\ Len(nodes[p].children) = Cardinality(ChildrenOf(p))
                /\ IsSortedByKey(nodes[p].children)
                /\ RecordsPropertiesOf(nodes[p].properties, p))'
    <3>1. CASE p = q
      BY <1>26, <1>30, <3>1
    <3>2. CASE p # q
      BY <1>26, <1>29, <3>2
    <3> QED
      BY <3>1, <3>2
  <2> QED
    BY <1>9, <1>28, <2>1 DEF FinishedRecorded
<1> QED
  BY <1>18, <1>20, <1>21, <1>22, <1>25, <1>31 DEF Nested
-----------------------------------------------------------------------------
(* What the steps keep: a step that stops the reading promises nothing of  *)
(* the stacks, which the function then drops.                              *)
NestedWhileReading == result = "reading" => Nested

(* Nothing read describes nothing.                                         *)
LEMMA InitNested == Init => NestedWhileReading
<1> SUFFICES ASSUME Init PROVE Nested
  BY DEF NestedWhileReading
<1>1. /\ block = <<>> /\ names = <<>> /\ properties = <<>> /\ children = << <<>> >>
      /\ nodes = <<>> /\ root = 0 /\ Len(block) = 0 /\ Len(names) = 0
  BY DEF Init
<1>2. \A kind : Places(kind, 0) = {}
  BY DEF Places
<1>3. DepthAfter(0) = 0
  BY <1>2, FS_EmptySet DEF DepthAfter
<1>4. \A p : ChildrenOf(p) = {}
  BY <1>1, <1>2 DEF ChildrenOf
<1>5. Levels = {0} /\ Level(0) = 1 /\ PlaceAt(0) = 0
  BY <1>1 DEF Levels, Level, Complete, PlaceAt
<1>6. FinishedChildrenOf(0) = {} /\ ToSet(<<>>) = {} /\ Len(<<>>) = 0
  BY <1>4 DEF FinishedChildrenOf, ToSet
<1>7. children[1] = <<>>
  BY <1>1
<1>8. ListsChildrenOf(<<>>, 0)
  <2>1. ToSet(<<>>) = FinishedChildrenOf(0)
    BY <1>6, Zenon
  <2>2. 1..Len(<<>>) = {}
    BY <1>6
  <2> QED
    BY <2>1, <2>2, Zenon DEF ListsChildrenOf
<1>9. ChildrenListed
  BY <1>5, <1>7, <1>8 DEF ChildrenListed
<1>10. Depths /\ Spine /\ OnlyThoseUnfinished /\ PropertiesRecorded
  BY <1>1, <1>2, <1>3 DEF Depths, Spine, OnlyThoseUnfinished, PropertiesRecorded
<1>11. FinishedRecorded
  BY <1>1, <1>2 DEF FinishedRecorded
<1> QED
  BY <1>9, <1>10, <1>11 DEF Nested

(* A step that ends the reading.                                           *)
Stops ==
  \/ EndNodeTooMany \/ EndRejected \/ Malformed \/ StreamEnds
  \/ \E key \in PropKeys : PropDuplicate(key) \/ PropOutside(key)

LEMMA StopsReading ==
  ASSUME Stops
  PROVE  result = "reading" /\ result' # "reading" /\ UNCHANGED stacks
  BY DEF Stops, EndNodeTooMany, EndRejected, Malformed, StreamEnds, PropDuplicate,
         PropOutside, Read, Return, EndError, ConversionErrors

(* Every other step, and one that changes nothing.                         *)
LEMMA StepCases ==
  ASSUME [Next]_vars
  PROVE  \/ UNCHANGED vars
         \/ Stops
         \/ EndNode \/ Nop \/ End
         \/ \E name \in Names : BeginNode(name)
         \/ \E key \in PropKeys : Prop(key)
  BY DEF Next, Stops

(* What the tokens describe changes only with them.                        *)
LEMMA DescriptionStays ==
  ASSUME block' = block
  PROVE  /\ \A n : DepthAfter(n)' = DepthAfter(n)
         /\ \A kind : \A n : Places(kind, n)' = Places(kind, n)
         /\ \A p : Owner(p)' = Owner(p)
         /\ \A p : ChildrenOf(p)' = ChildrenOf(p) /\ PropertiesOf(p)' = PropertiesOf(p)
         /\ \A p : IsUnfinished(p)' = IsUnfinished(p)
         /\ \A p : FinishedChildrenOf(p)' = FinishedChildrenOf(p)
<1>1. /\ \A n : DepthAfter(n)' = DepthAfter(n)
      /\ \A kind : \A n : Places(kind, n)' = Places(kind, n)
      /\ \A p : Owner(p)' = Owner(p)
  BY DEF DepthAfter, Places, Kind, Owner
<1>2. /\ \A p : ChildrenOf(p)' = ChildrenOf(p) /\ PropertiesOf(p)' = PropertiesOf(p)
      /\ \A p : IsUnfinished(p)' = IsUnfinished(p)
  BY <1>1 DEF ChildrenOf, PropertiesOf, IsUnfinished
<1>3. \A p : FinishedChildrenOf(p)' = FinishedChildrenOf(p)
  BY <1>2 DEF FinishedChildrenOf
<1> QED
  BY <1>1, <1>2, <1>3

(* The invariant is inductive.                                             *)
LEMMA NextNested == Inv /\ NestedWhileReading /\ [Next]_vars => NestedWhileReading'
<1> SUFFICES ASSUME Inv, NestedWhileReading, [Next]_vars, result' = "reading"
             PROVE  Nested'
  BY DEF NestedWhileReading
<1>1. CASE UNCHANGED vars
  <2>1. Nested
    BY <1>1 DEF vars, NestedWhileReading
  <2>2. /\ block' = block /\ names' = names /\ properties' = properties
        /\ children' = children /\ nodes' = nodes /\ root' = root
    BY <1>1 DEF vars
  <2>3. /\ \A n : DepthAfter(n)' = DepthAfter(n)
        /\ \A kind : \A n : Places(kind, n)' = Places(kind, n)
        /\ \A p : Owner(p)' = Owner(p)
    BY <2>2, DescriptionStays
  <2>4. /\ \A p : ChildrenOf(p)' = ChildrenOf(p) /\ PropertiesOf(p)' = PropertiesOf(p)
        /\ \A p : IsUnfinished(p)' = IsUnfinished(p)
    BY <2>2, DescriptionStays
  <2>5. \A p : FinishedChildrenOf(p)' = FinishedChildrenOf(p)
    BY <2>2, DescriptionStays
  <2>6. Depths' /\ Spine' /\ OnlyThoseUnfinished'
    BY <2>1, <2>2, <2>3, <2>4
       DEF Nested, Depths, Spine, IsOnPath, PlaceAt, OnlyThoseUnfinished
  <2>7. ChildrenListed'
    BY <2>1, <2>2, <2>5
       DEF Nested, ChildrenListed, ListsChildrenOf, Levels, Level, Complete, PlaceAt
  <2>8. PropertiesRecorded' /\ FinishedRecorded'
    BY <2>1, <2>2, <2>3, <2>4, <2>5
       DEF Nested, PropertiesRecorded, FinishedRecorded, RecordsPropertiesOf
  <2> QED
    BY <2>6, <2>7, <2>8 DEF Nested
<1>2. CASE Stops
  BY <1>2, StopsReading
<1>3. CASE EndNode
  BY <1>3, EndNodeNested DEF NestedWhileReading, EndNode, Read
<1>4. CASE Nop
  BY <1>4, NopNested DEF NestedWhileReading, Nop, Read
<1>5. CASE End
  BY <1>5, EndNested DEF NestedWhileReading, End, Read
<1>6. CASE \E name \in Names : BeginNode(name)
  BY <1>6, BeginNodeNested DEF NestedWhileReading, BeginNode, Read
<1>7. CASE \E key \in PropKeys : Prop(key)
  BY <1>7, PropNested DEF NestedWhileReading, Prop, Read
<1> QED
  BY <1>1, <1>2, <1>3, <1>4, <1>5, <1>6, <1>7, StepCases

(* A record of the properties is the map the specification speaks of.      *)
LEMMA RecordedIsHeld ==
  ASSUME NEW map, NEW p, RecordsPropertiesOf(map, p)
  PROVE  HoldsPropertiesOf(map, p)
<1> DEFINE P == PropertiesOf(p)
<1>1. /\ map = [key \in DOMAIN map |-> map[key]]
      /\ DOMAIN map = {block[k].key : k \in P}
      /\ \A k \in P : map[block[k].key] = k
  BY DEF RecordsPropertiesOf
<1> HIDE DEF P
<1>2. ASSUME NEW key \in DOMAIN map
      PROVE  map[key] = CHOOSE k \in P : block[k].key = key
  <2>1. PICK k \in P : block[k].key = key
    BY <1>1
  <2>2. \A l \in P : block[l].key = key => l = map[key]
    BY <1>1
  <2> QED
    BY <2>1, <2>2
<1>3. map = [key \in {block[k].key : k \in P} |-> CHOOSE k \in P : block[k].key = key]
  BY <1>1, <1>2
<1> QED
  BY <1>3 DEF HoldsPropertiesOf, P

(* The stacks and the finished nodes hold exactly the tree that the tokens *)
(* read so far describe, whatever the names, their nesting and their       *)
(* number: nothing is lost, repeated or put under another node by the loop *)
(* of `from_bytes`.                                                        *)
THEOREM AlwaysNesting == Spec => []TreeIsNesting
<1>1. NestedWhileReading => TreeIsNesting
  <2> SUFFICES ASSUME Nested PROVE TreeIsNesting
    BY DEF NestedWhileReading, TreeIsNesting
  <2>1. Spine /\ ChildrenListed /\ PropertiesRecorded /\ FinishedRecorded
    BY DEF Nested
  <2>2. ASSUME NEW d \in 1..Len(names)
        PROVE  LET p == names[d].val
               IN  /\ names[d].key = block[p].name
                   /\ IsUnfinished(p) /\ DepthAfter(p) = d
                   /\ ToSet(children[IF Complete THEN d ELSE d + 1]) = FinishedChildrenOf(p)
                   /\ HoldsPropertiesOf(properties[d], p)
    <3>1. d \in Levels /\ PlaceAt(d) = names[d].val
      BY DEF Levels, PlaceAt
    <3>2. ToSet(children[Level(d)]) = FinishedChildrenOf(names[d].val)
      BY <2>1, <3>1 DEF ChildrenListed, ListsChildrenOf
    <3>3. HoldsPropertiesOf(properties[d], names[d].val)
      BY <2>1, RecordedIsHeld DEF PropertiesRecorded
    <3> QED
      BY <2>1, <3>2, <3>3 DEF Spine, IsOnPath, Level
  <2>3. \A p \in DOMAIN nodes : HoldsPropertiesOf(nodes[p].properties, p)
    BY <2>1, RecordedIsHeld DEF FinishedRecorded
  <2> QED
    BY <2>1, <2>2, <2>3 DEF TreeIsNesting, FinishedRecorded
<1>2. Spec => []NestedWhileReading
  BY InitNested, NextNested, SpecInv, PTL DEF Spec
<1> QED
  BY <1>1, <1>2, PTL
-----------------------------------------------------------------------------
(***************************************************************************)
(* The rules of `Acceptable`, and what a token more makes of each.         *)
(***************************************************************************)
RootsBefore(e) == {k \in Places("BeginNode", e) : Owner(k) = 0}
SealedBefore(p, n) == \E e \in Places("End", n) : e < p

NoneMalformed(n) == Places("Malformed", n) = {}

EndsMatched(n) ==
  \A p \in Places("EndNode", n) : DepthAfter(p) >= (IF SealedBefore(p, n) THEN 1 ELSE 0)

PropertiesInside(n) == \A p \in Places("Prop", n) : DepthAfter(p - 1) > 0

AreRepeated(p, q) == Owner(p) = Owner(q) /\ block[p].key = block[q].key

PropertiesDistinct(n) == \A p, q \in Places("Prop", n) : AreRepeated(p, q) => p = q

(* Where the `End` token is, there is one root, and it is finished.        *)
Seals(e) ==
  DepthAfter(e) = 0 /\ \E r \in 1..e : RootsBefore(e) = {r} /\ block[r].name = Root

OneSeals(n) ==
  Cardinality(Places("End", n)) <= 1 /\ \A e \in Places("End", n) : Seals(e)

(* The rules together are those of the specification.                      *)
LEMMA AcceptableParts ==
  ASSUME NEW n
  PROVE  Acceptable(n) <=> /\ NoneMalformed(n) /\ EndsMatched(n) /\ PropertiesInside(n)
                           /\ PropertiesDistinct(n) /\ OneSeals(n)
  BY DEF Acceptable, NoneMalformed, EndsMatched, SealedBefore, PropertiesInside,
         PropertiesDistinct, AreRepeated, OneSeals, Seals, RootsBefore

(* What was read stays as good as it was.                                  *)
LEMMA PartsStay ==
  ASSUME block \in Seq(Tokens), NEW t \in Tokens, block' = Append(block, t),
         NEW n, n = Len(block)
  PROVE  /\ EndsMatched(n)' <=> EndsMatched(n)
         /\ PropertiesInside(n)' <=> PropertiesInside(n)
         /\ PropertiesDistinct(n)' <=> PropertiesDistinct(n)
         /\ \A e \in 1..n : Seals(e)' <=> Seals(e)
         /\ \A e \in 0..n : RootsBefore(e)' = RootsBefore(e)
         /\ Acceptable(n)' <=> Acceptable(n)
<1>1. /\ n \in Nat /\ \A p \in 1..n : block'[p] = block[p]
      /\ \A kind : \A m \in 0..n : Places(kind, m)' = Places(kind, m)
      /\ \A m \in 0..n : DepthAfter(m)' = DepthAfter(m)
      /\ \A p \in 1..n + 1 : Owner(p)' = Owner(p)
  BY TokenRead
<1>2. /\ n \in 0..n /\ 1..n \subseteq 0..n /\ 1..n \subseteq 1..n + 1
      /\ \A p \in 1..n : p - 1 \in 0..n
  BY <1>1
<1>3. \A kind : \A m \in 0..n : Places(kind, m) \subseteq 1..n
  <2>1. \A kind : \A m \in 0..n : Places(kind, m) \subseteq 1..m /\ 1..m \subseteq 1..n
    BY <1>1 DEF Places
  <2> QED
    BY <2>1
<1>4. NoneMalformed(n)' <=> NoneMalformed(n)
  BY <1>1, <1>2 DEF NoneMalformed
<1>5. \A p : SealedBefore(p, n)' <=> SealedBefore(p, n)
  BY <1>1, <1>2 DEF SealedBefore
<1>6. EndsMatched(n)' <=> EndsMatched(n)
  BY <1>1, <1>2, <1>3, <1>5 DEF EndsMatched
<1>7. PropertiesInside(n)' <=> PropertiesInside(n)
  <2>1. \A p \in Places("Prop", n) : DepthAfter(p - 1)' = DepthAfter(p - 1)
    BY <1>1, <1>2, <1>3
  <2> QED
    BY <1>1, <1>2, <2>1 DEF PropertiesInside
<1>8. PropertiesDistinct(n)' <=> PropertiesDistinct(n)
  <2>1. \A p \in Places("Prop", n) : Owner(p)' = Owner(p) /\ block'[p] = block[p]
    BY <1>1, <1>2, <1>3
  <2>2. Places("Prop", n)' = Places("Prop", n)
    BY <1>1, <1>2
  <2>3. \A p, q \in Places("Prop", n) : AreRepeated(p, q)' <=> AreRepeated(p, q)
    BY <2>1 DEF AreRepeated
  <2> QED
    BY <2>2, <2>3 DEF PropertiesDistinct
<1>9. ASSUME NEW e \in 0..n PROVE RootsBefore(e)' = RootsBefore(e)
  <2>1. \A k \in Places("BeginNode", e) : Owner(k)' = Owner(k)
    BY <1>1, <1>2, <1>3
  <2> QED
    BY <1>1, <2>1 DEF RootsBefore
<1>10. ASSUME NEW e \in 1..n PROVE Seals(e)' <=> Seals(e)
  <2>1. e \in 0..n /\ \A r \in 1..e : r \in 1..n
    BY <1>1
  <2>2. \A r \in 1..e : block'[r] = block[r]
    BY <1>1, <2>1
  <2>3. RootsBefore(e)' = RootsBefore(e) /\ DepthAfter(e)' = DepthAfter(e)
    BY <1>1, <1>9, <2>1
  <2> QED
    BY <2>2, <2>3 DEF Seals
<1>11. OneSeals(n)' <=> OneSeals(n)
  BY <1>1, <1>2, <1>3, <1>10 DEF OneSeals
<1>12. Acceptable(n)' <=> /\ NoneMalformed(n)' /\ EndsMatched(n)' /\ PropertiesInside(n)'
                          /\ PropertiesDistinct(n)' /\ OneSeals(n)'
  BY DEF Acceptable, NoneMalformed, EndsMatched, SealedBefore, PropertiesInside,
         PropertiesDistinct, AreRepeated, OneSeals, Seals, RootsBefore
<1> QED
  BY <1>4, <1>6, <1>7, <1>8, <1>9, <1>10, <1>11, <1>12, AcceptableParts

(* A token more is acceptable as the rule for its kind says.               *)
LEMMA TokenJudged ==
  ASSUME block \in Seq(Tokens), NEW t \in Tokens, block' = Append(block, t),
         NEW n, n = Len(block)
  PROVE  /\ t.kind \in {"BeginNode", "Nop"} => (Acceptable(n + 1)' <=> Acceptable(n))
         /\ t.kind = "Malformed" => ~ Acceptable(n + 1)'
         /\ t.kind = "EndNode" =>
              (Acceptable(n + 1)' <=>
                 /\ Acceptable(n)
                 /\ DepthAfter(n) - 1 >= (IF Places("End", n) = {} THEN 0 ELSE 1))
         /\ t.kind = "Prop" =>
              (Acceptable(n + 1)' <=>
                 /\ Acceptable(n) /\ DepthAfter(n) > 0
                 /\ \A p \in Places("Prop", n) :
                      Owner(p) = Owner(n + 1) => block[p].key # t.key)
         /\ t.kind = "End" =>
              (Acceptable(n + 1)' <=>
                 /\ Acceptable(n) /\ Places("End", n) = {} /\ DepthAfter(n) = 0
                 /\ \E r \in 1..n : RootsBefore(n) = {r} /\ block[r].name = Root)
<1>1. /\ n \in Nat /\ block'[n + 1] = t /\ \A p \in 1..n : block'[p] = block[p]
      /\ \A kind : \A m \in 0..n : Places(kind, m)' = Places(kind, m)
      /\ \A kind : t.kind = kind => Places(kind, n + 1)' = Places(kind, n) \cup {n + 1}
      /\ \A kind : t.kind # kind => Places(kind, n + 1)' = Places(kind, n)
      /\ \A m \in 0..n : DepthAfter(m)' = DepthAfter(m)
      /\ t.kind = "EndNode" => DepthAfter(n + 1)' = DepthAfter(n) - 1
      /\ t.kind = "End" => DepthAfter(n + 1)' = DepthAfter(n)
      /\ \A p \in 1..n + 1 : Owner(p)' = Owner(p)
  BY TokenRead
<1>2. /\ \A kind : Places(kind, n) \subseteq 1..n /\ n + 1 \notin Places(kind, n)
      /\ n + 1 \in 1..n + 1 /\ n \in 0..n /\ 1..n \subseteq 1..n + 1 /\ 1..n \subseteq 0..n
  <2>1. \A kind : Places(kind, n) \subseteq 1..n
    BY <1>1, PlacesFacts
  <2> QED
    BY <1>1, <2>1
<1>3. Acceptable(n + 1)' <=>
        /\ NoneMalformed(n + 1)' /\ EndsMatched(n + 1)' /\ PropertiesInside(n + 1)'
        /\ PropertiesDistinct(n + 1)' /\ OneSeals(n + 1)'
  BY DEF Acceptable, NoneMalformed, EndsMatched, SealedBefore, PropertiesInside,
         PropertiesDistinct, AreRepeated, OneSeals, Seals, RootsBefore
<1>4. /\ t.kind # "Malformed" => (NoneMalformed(n + 1)' <=> NoneMalformed(n))
      /\ t.kind = "Malformed" => ~ NoneMalformed(n + 1)'
  BY <1>1 DEF NoneMalformed
<1>5. /\ \A p \in 1..n + 1 : SealedBefore(p, n + 1)' <=> SealedBefore(p, n)
      /\ SealedBefore(n + 1, n) <=> Places("End", n) # {}
  <2>1. \/ Places("End", n + 1)' = Places("End", n)
        \/ Places("End", n + 1)' = Places("End", n) \cup {n + 1}
    BY <1>1
  <2>2. \A p \in 1..n + 1 : ~ (n + 1 < p)
    BY <1>1
  <2>3. \A p : SealedBefore(p, n + 1)' <=> \E e \in Places("End", n + 1)' : e < p
    BY DEF SealedBefore
  <2>4. \A e \in 1..n : e < n + 1
    BY <1>1
  <2> QED
    BY <1>2, <2>1, <2>2, <2>3, <2>4 DEF SealedBefore
<1>6. /\ t.kind # "EndNode" => (EndsMatched(n + 1)' <=> EndsMatched(n))
      /\ t.kind = "EndNode" =>
           (EndsMatched(n + 1)' <=>
              EndsMatched(n) /\ DepthAfter(n) - 1 >= (IF Places("End", n) = {} THEN 0 ELSE 1))
  <2>1. \A p \in Places("EndNode", n) :
          /\ DepthAfter(p)' = DepthAfter(p)
          /\ SealedBefore(p, n + 1)' <=> SealedBefore(p, n)
    BY <1>1, <1>2, <1>5
  <2>2. CASE t.kind # "EndNode"
    BY <1>1, <2>1, <2>2 DEF EndsMatched
  <2>3. CASE t.kind = "EndNode"
    <3>1. /\ DepthAfter(n + 1)' = DepthAfter(n) - 1
          /\ SealedBefore(n + 1, n + 1)' <=> Places("End", n) # {}
      BY <1>1, <1>2, <1>5, <2>3
    <3>2. Places("EndNode", n + 1)' = Places("EndNode", n) \cup {n + 1}
      BY <1>1, <2>3
    <3>3. EndsMatched(n + 1)' <=>
            /\ \A p \in Places("EndNode", n) :
                 DepthAfter(p)' >= (IF SealedBefore(p, n + 1)' THEN 1 ELSE 0)
            /\ DepthAfter(n + 1)' >= (IF SealedBefore(n + 1, n + 1)' THEN 1 ELSE 0)
      BY <3>2 DEF EndsMatched
    <3> QED
      BY <2>1, <2>3, <3>1, <3>3 DEF EndsMatched
  <2> QED
    BY <2>2, <2>3
<1>7. /\ t.kind # "Prop" => (PropertiesInside(n + 1)' <=> PropertiesInside(n))
      /\ t.kind = "Prop" =>
           (PropertiesInside(n + 1)' <=> PropertiesInside(n) /\ DepthAfter(n) > 0)
  <2>1. \A p \in Places("Prop", n) : DepthAfter(p - 1)' = DepthAfter(p - 1)
    <3>1. \A p \in 1..n : p - 1 \in 0..n
      BY <1>1
    <3> QED
      BY <1>1, <1>2, <3>1
  <2>2. CASE t.kind # "Prop"
    BY <1>1, <2>1, <2>2 DEF PropertiesInside
  <2>3. CASE t.kind = "Prop"
    <3>1. PICK m : m = n + 1 - 1
      OBVIOUS
    <3>2. m = n
      BY <1>1, <3>1
    <3>3. DepthAfter(m)' = DepthAfter(n)
      BY <1>1, <1>2, <3>2
    <3>4. Places("Prop", n + 1)' = Places("Prop", n) \cup {n + 1}
      BY <1>1, <2>3
    <3>5. PropertiesInside(n + 1)' <=>
            \A p \in Places("Prop", n) \cup {n + 1} : DepthAfter(p - 1)' > 0
      BY <3>4 DEF PropertiesInside
    <3>6. \A p \in {n + 1} : DepthAfter(p - 1)' = DepthAfter(m)'
      <4>1. ASSUME NEW p \in {n + 1} PROVE DepthAfter(p - 1)' = DepthAfter(m)'
        <5>1. p - 1 = m
          BY <3>1, <4>1
        <5> QED
          BY <5>1
      <4> QED
        BY <4>1
    <3> QED
      BY <2>1, <2>3, <3>3, <3>5, <3>6 DEF PropertiesInside
  <2> QED
    BY <2>2, <2>3
<1>8. /\ t.kind # "Prop" => (PropertiesDistinct(n + 1)' <=> PropertiesDistinct(n))
      /\ t.kind = "Prop" =>
           (PropertiesDistinct(n + 1)' <=>
              /\ PropertiesDistinct(n)
              /\ \A p \in Places("Prop", n) : Owner(p) = Owner(n + 1) => block[p].key # t.key)
  <2>1. /\ \A p \in Places("Prop", n) :
             Owner(p)' = Owner(p) /\ block'[p] = block[p] /\ p # n + 1
        /\ Owner(n + 1)' = Owner(n + 1)
    BY <1>1, <1>2
  <2>2. ASSUME NEW p \in Places("Prop", n), NEW q \in Places("Prop", n)
        PROVE  AreRepeated(p, q)' <=> AreRepeated(p, q)
    <3>1. /\ Owner(p)' = Owner(p) /\ Owner(q)' = Owner(q)
          /\ block'[p] = block[p] /\ block'[q] = block[q]
      BY <2>1
    <3> QED
      BY <3>1 DEF AreRepeated
  <2>3. CASE t.kind # "Prop"
    <3>1. Places("Prop", n + 1)' = Places("Prop", n)
      BY <1>1, <2>3
    <3> QED
      BY <2>2, <2>3, <3>1 DEF PropertiesDistinct
  <2>4. CASE t.kind = "Prop"
    <3>1. Places("Prop", n + 1)' = Places("Prop", n) \cup {n + 1}
      BY <1>1, <2>4
    <3>2. block'[n + 1].key = t.key
      BY <1>1
    <3>3. \A p \in Places("Prop", n) :
            /\ AreRepeated(p, n + 1)' <=> Owner(p) = Owner(n + 1) /\ block[p].key = t.key
            /\ AreRepeated(n + 1, p)' <=> Owner(p) = Owner(n + 1) /\ block[p].key = t.key
      BY <2>1, <3>2 DEF AreRepeated
    <3> QED
      BY <2>1, <2>2, <2>4, <3>1, <3>3 DEF PropertiesDistinct
  <2> QED
    BY <2>3, <2>4
<1>9. \A e \in Places("End", n) : Seals(e)' <=> Seals(e)
  BY <1>2, PartsStay
<1>10. t.kind # "End" => (OneSeals(n + 1)' <=> OneSeals(n))
  BY <1>1, <1>9 DEF OneSeals
<1>11. t.kind = "End" =>
         (OneSeals(n + 1)' <=>
            /\ Places("End", n) = {} /\ DepthAfter(n) = 0
            /\ \E r \in 1..n : RootsBefore(n) = {r} /\ block[r].name = Root)
  <2> SUFFICES ASSUME t.kind = "End"
               PROVE  OneSeals(n + 1)' <=>
                        /\ Places("End", n) = {} /\ DepthAfter(n) = 0
                        /\ \E r \in 1..n : RootsBefore(n) = {r} /\ block[r].name = Root
    OBVIOUS
  <2>1. PICK E : E = Places("End", n)
    OBVIOUS
  <2>2. Places("End", n + 1)' = E \cup {n + 1} /\ n + 1 \notin E
    BY <1>1, <1>2, <2>1
  <2>3. Cardinality(E \cup {n + 1}) = Cardinality(E) + 1 /\ Cardinality(E) \in Nat
        /\ IsFiniteSet(E)
    <3>1. IsFiniteSet(E) /\ Cardinality(E) \in Nat
      BY <1>1, <2>1, PlacesFacts
    <3> QED
      BY <2>2, <3>1, FS_AddElement, Zenon
  <2>4. Cardinality(E \cup {n + 1}) <= 1 <=> E = {}
    <3>1. Cardinality(E) = 0 <=> E = {}
      BY <2>3, FS_EmptySet
    <3> QED
      BY <2>3, <3>1
  <2>5. RootsBefore(n + 1)' = RootsBefore(n) /\ RootsBefore(n) \subseteq 1..n
    <3>1. Places("BeginNode", n + 1)' = Places("BeginNode", n)
      BY <1>1
    <3>2. \A k \in Places("BeginNode", n) : Owner(k)' = Owner(k)
      BY <1>1, <1>2
    <3> QED
      BY <1>2, <3>1, <3>2 DEF RootsBefore
  <2>6. DepthAfter(n + 1)' = DepthAfter(n)
    BY <1>1
  <2>7. Seals(n + 1)' <=> /\ DepthAfter(n) = 0
                          /\ \E r \in 1..n : RootsBefore(n) = {r} /\ block[r].name = Root
    <3>1. Seals(n + 1)' <=> /\ DepthAfter(n) = 0
                            /\ \E r \in 1..n + 1 :
                                 RootsBefore(n) = {r} /\ block'[r].name = Root
      BY <2>5, <2>6 DEF Seals
    <3>2. \A r : RootsBefore(n) = {r} => r \in 1..n /\ r \in 1..n + 1 /\ block'[r] = block[r]
      BY <1>1, <1>2, <2>5
    <3> QED
      BY <3>1, <3>2
  <2>8. OneSeals(n + 1)' <=>
          Cardinality(E \cup {n + 1}) <= 1 /\ \A e \in E \cup {n + 1} : Seals(e)'
    BY <2>2 DEF OneSeals
  <2> QED
    BY <2>1, <2>4, <2>7, <2>8
<1>12. ASSUME Places("End", n) = {} PROVE OneSeals(n)
  <2>1. Cardinality(Places("End", n)) = 0
    BY <1>12, FS_EmptySet, Zenon
  <2> QED
    BY <1>12, <2>1 DEF OneSeals
<1> QED
  BY <1>3, <1>4, <1>6, <1>7, <1>8, <1>10, <1>11, <1>12, AcceptableParts
-----------------------------------------------------------------------------
(* The checks of the `End` arm, in terms of the tokens.                    *)
LEMMA EndExplained ==
  ASSUME Inv, Nested, ~ Complete, NEW n, n = Len(block)
  PROVE  /\ EndError = "none" <=>
              /\ DepthAfter(n) = 0
              /\ \E r \in 1..n : RootsBefore(n) = {r} /\ block[r].name = Root
         /\ EndError = "none" => RootsBefore(n) = {children[1][1].val}
<1> DEFINE D == Len(names)
           list == children[1]
<1>1. D \in Nat /\ n \in Nat /\ DepthAfter(n) = D /\ Len(children) = D + 1
  BY StackFacts DEF Nested, Depths, Inv, TypeOK
<1>2. ChildrenOf(0) = RootsBefore(n) /\ RootsBefore(n) \subseteq 1..n
  BY <1>1, PlacesFacts DEF ChildrenOf, RootsBefore
<1>3. CASE D # 0
  BY <1>1, <1>3 DEF EndError
<1>4. CASE D = 0
  <2>1. 0 \in Levels /\ Level(0) = 1 /\ PlaceAt(0) = 0
    BY <1>4 DEF Levels, Level, PlaceAt
  <2>2. ListsChildrenOf(list, 0)
    BY <2>1 DEF Nested, ChildrenListed
  <2>3. list \in Seq(Children)
    <3>1. children \in Seq(Seq(Children)) /\ 1 \in 1..Len(children)
      BY <1>1, <1>4, StackFacts
    <3> HIDE DEF Children
    <3> QED
      BY <3>1, ElementOfSeq
  <2>4. \A k \in ChildrenOf(0) : ~ IsUnfinished(k)
    BY <1>1, <1>4 DEF Nested, OnlyThoseUnfinished, ChildrenOf
  <2>5. Len(list) = Cardinality(ChildrenOf(0)) /\ Len(list) \in Nat
    BY <2>2, <2>3, <2>4, ChildrenCounted
  <2>6. ToSet(list) = {Entry(block[k].name, k) : k \in ChildrenOf(0)}
    <3>1. {k \in ChildrenOf(0) : ~ IsUnfinished(k)} = ChildrenOf(0)
      BY <2>4
    <3> QED
      BY <2>2, <3>1 DEF ListsChildrenOf, FinishedChildrenOf
  <2>7. ASSUME Len(list) = 1
        PROVE  /\ list[1].val \in 1..n /\ RootsBefore(n) = {list[1].val}
               /\ list[1].key = block[list[1].val].name
    <3>1. ToSet(list) = {list[1]}
      <4>1. DOMAIN list = {1}
        BY <2>3, <2>7, LenProperties
      <4> QED
        BY <4>1 DEF ToSet
    <3>2. PICK r \in ChildrenOf(0) : list[1] = Entry(block[r].name, r)
      BY <2>6, <3>1
    <3>3. list[1].val = r /\ list[1].key = block[r].name
      BY <3>2 DEF Entry
    <3>4. ASSUME NEW k \in ChildrenOf(0) PROVE k = r
      <4>1. Entry(block[k].name, k) \in ToSet(list)
        BY <2>6
      <4>2. Entry(block[k].name, k) = Entry(block[r].name, r)
        BY <3>1, <3>2, <4>1
      <4> QED
        BY <4>2 DEF Entry
    <3> QED
      BY <1>2, <3>2, <3>3, <3>4
  <2>8. ASSUME NEW r, RootsBefore(n) = {r} PROVE Len(list) = 1
    BY <1>2, <2>5, <2>8, FS_Singleton
  <2>9. EndError = "none" <=> Len(list) = 1 /\ list[1].key = Root
    BY <1>1, <1>4 DEF EndError
  <2>10. ASSUME EndError = "none"
         PROVE  /\ \E r \in 1..n : RootsBefore(n) = {r} /\ block[r].name = Root
                /\ RootsBefore(n) = {list[1].val}
    BY <2>7, <2>9, <2>10
  <2>11. ASSUME NEW r \in 1..n, RootsBefore(n) = {r}, block[r].name = Root
         PROVE  EndError = "none"
    <3>1. Len(list) = 1
      BY <2>8, <2>11
    <3>2. list[1].val = r
      BY <2>7, <2>11, <3>1
    <3> QED
      BY <2>7, <2>9, <2>11, <3>1, <3>2
  <2> QED
    BY <1>1, <1>4, <2>10, <2>11
<1> QED
  BY <1>3, <1>4

(* The inductive invariant of the verdict: the tree is there exactly from  *)
(* the `End` token on, and is the root there was then.                     *)
TheRootIsThat == Complete => \E e \in Places("End", Len(block)) : RootsBefore(e) = {root}

Accepting == {"reading", "Ok", "EoF"} \cup ConversionErrors

Judged ==
  /\ result \in Accepting => Acceptable(Len(block))
  /\ result = "Ok" => Places("End", Len(block)) # {}
  /\ result = "EoF" => Places("End", Len(block)) = {}
  /\ result \in Results \ Accepting => Acceptable(Len(block) - 1) /\ ~ Acceptable(Len(block))
  /\ TheRootIsThat
  /\ result = "reading" => (Complete <=> Places("End", Len(block)) # {})

(* Nothing read breaks no rule.                                            *)
LEMMA InitJudged == Init => Judged
<1> SUFFICES ASSUME Init PROVE Judged
  OBVIOUS
<1>1. Len(block) = 0 /\ result = "reading" /\ ~ Complete
  BY DEF Init, Complete
<1>2. \A kind : Places(kind, 0) = {}
  BY DEF Places
<1>3. Cardinality(Places("End", 0)) = 0
  BY <1>2, FS_EmptySet, Zenon
<1>4. Acceptable(0)
  BY <1>2, <1>3 DEF Acceptable
<1> QED
  BY <1>1, <1>2, <1>4 DEF Judged, TheRootIsThat, Accepting

(* A step that reads a token, keeps the root and returns as it is judged.  *)
LEMMA StepJudged ==
  ASSUME Inv, Judged, result = "reading",
         NEW t \in Tokens, block' = Append(block, t), NEW n, n = Len(block), root' = root,
         result' \notin {"Ok", "EoF"}, result' \in Accepting <=> Acceptable(n + 1)',
         result' = "reading" => t.kind # "End"
  PROVE  Judged'
<1>1. block \in Seq(Tokens)
  BY DEF Inv, TypeOK
<1>2. /\ n \in Nat /\ Len(block') = n + 1
      /\ \/ Places("End", n + 1)' = Places("End", n)
         \/ Places("End", n + 1)' = Places("End", n) \cup {n + 1}
      /\ t.kind # "End" => Places("End", n + 1)' = Places("End", n)
  BY <1>1, TokenRead
<1>3. Acceptable(n)'
  BY <1>1, PartsStay DEF Judged, Accepting
<1>4. TheRootIsThat'
  <2> SUFFICES ASSUME Complete'
               PROVE  \E e \in Places("End", n + 1)' : RootsBefore(e)' = {root'}
    BY <1>2 DEF TheRootIsThat
  <2>1. PICK e \in Places("End", n) : RootsBefore(e) = {root}
    BY DEF Judged, TheRootIsThat, Complete
  <2>2. e \in 0..n
    BY <1>2, PlacesFacts
  <2>3. RootsBefore(e)' = {root'}
    BY <1>1, <2>1, <2>2, PartsStay
  <2> QED
    BY <1>2, <2>3
<1>5. Acceptable(Len(block) - 1)'
  <2>1. Len(block') - 1 = n
    BY <1>2
  <2> QED
    BY <1>3, <2>1
<1>6. result' = "reading" => (Complete' <=> Places("End", n + 1)' # {})
  BY <1>2 DEF Judged, Complete
<1> QED
  BY <1>2, <1>4, <1>5, <1>6 DEF Judged

(* Every step that reads a token, and is neither the one that completes    *)
(* the tree nor the end of the stream.                                     *)
LEMMA TokensJudged ==
  ASSUME Inv, Nested, Judged, result = "reading",
         \/ EndNode \/ EndNodeTooMany \/ Nop \/ EndRejected \/ Malformed
         \/ \E name \in Names : BeginNode(name)
         \/ \E key \in PropKeys : Prop(key) \/ PropDuplicate(key) \/ PropOutside(key)
  PROVE  Judged'
<1>1. PICK n, D : n = Len(block) /\ D = Len(names)
  OBVIOUS
<1>2. /\ block \in Seq(Tokens) /\ D \in Nat /\ n \in Nat /\ DepthAfter(n) = D
      /\ Acceptable(n) /\ (Complete <=> Places("End", n) # {})
      /\ Depths /\ Spine /\ PropertiesRecorded
  BY <1>1, StackFacts DEF Nested, Depths, Inv, TypeOK, Judged, Accepting
<1>3. \A r \in {"TooManyEnds", "InvalidProp", "Parsing", "Token", "BadDepth", "BadRoots",
                "BadRootName"} : r \notin Accepting
  BY DEF Accepting, ConversionErrors
<1>4. "reading" \in Accepting /\ ConversionErrors \subseteq Accepting
      /\ \A r \in ConversionErrors : r \notin {"reading", "Ok", "EoF"}
  BY DEF Accepting, ConversionErrors
<1>5. CASE EndNode
  <2>1. PICK t : t = [kind |-> "EndNode"]
    OBVIOUS
  <2>2. t \in Tokens /\ t.kind = "EndNode" /\ block' = Append(block, t)
    BY <1>5, <2>1 DEF Tokens, EndNode, Read
  <2>3. result' = "reading" /\ root' = root /\ D > 0 /\ (Complete => D > 1)
    BY <1>1, <1>5, EndNodeInv
  <2>4. Acceptable(n + 1)'
    BY <1>1, <1>2, <2>2, <2>3, TokenJudged
  <2> QED
    BY <1>1, <1>4, <2>2, <2>3, <2>4, StepJudged
<1>6. CASE EndNodeTooMany
  <2>1. PICK t : t = [kind |-> "EndNode"]
    OBVIOUS
  <2>2. t \in Tokens /\ t.kind = "EndNode" /\ block' = Append(block, t)
    BY <1>6, <2>1 DEF Tokens, EndNodeTooMany, Read
  <2>3. result' = "TooManyEnds" /\ root' = root
    BY <1>6 DEF EndNodeTooMany, Return, stacks
  <2>4. D = 0 \/ (Complete /\ D = 1)
    <3>1. CASE names = <<>>
      BY <1>1, <3>1
    <3>2. CASE Len(children) = 1
      <4>1. /\ ~ Complete => Len(children) = D + 1
            /\ Complete => Len(children) = D
        BY <1>1, StackFacts
      <4> QED
        BY <1>2, <3>2, <4>1
    <3> QED
      BY <1>6, <3>1, <3>2 DEF EndNodeTooMany
  <2>5. ~ Acceptable(n + 1)'
    BY <1>1, <1>2, <2>2, <2>4, TokenJudged
  <2> QED
    BY <1>1, <1>3, <2>2, <2>3, <2>5, StepJudged
<1>7. CASE Nop
  <2>1. PICK t : t = [kind |-> "Nop"]
    OBVIOUS
  <2>2. t \in Tokens /\ t.kind = "Nop" /\ block' = Append(block, t)
    BY <1>7, <2>1 DEF Tokens, Nop, Read
  <2>3. result' = "reading" /\ root' = root
    BY <1>7 DEF Nop, stacks
  <2>4. Acceptable(n + 1)'
    BY <1>1, <1>2, <2>2, TokenJudged
  <2> QED
    BY <1>1, <1>4, <2>2, <2>3, <2>4, StepJudged
<1>8. CASE EndRejected
  <2>1. PICK t : t = [kind |-> "End"]
    OBVIOUS
  <2>2. t \in Tokens /\ t.kind = "End" /\ block' = Append(block, t)
    BY <1>8, <2>1 DEF Tokens, EndRejected, Read
  <2>3. root' = root
    BY <1>8 DEF EndRejected, Return, stacks
  <2>4. CASE Complete /\ Return("TooManyEnds")
    <3>1. result' = "TooManyEnds" /\ ~ Acceptable(n + 1)'
      BY <1>1, <1>2, <2>2, <2>4, TokenJudged DEF Return
    <3> QED
      BY <1>1, <1>3, <2>2, <2>3, <3>1, StepJudged
  <2>5. CASE ~ Complete /\ EndError # "none" /\ Return(EndError)
    <3>1. ~ Acceptable(n + 1)'
      BY <1>1, <1>2, <2>2, <2>5, TokenJudged, EndExplained
    <3>2. result' \in {"BadDepth", "BadRoots", "BadRootName"}
      BY <2>5 DEF Return, EndError
    <3> QED
      BY <1>1, <1>3, <2>2, <2>3, <3>1, <3>2, StepJudged
  <2>6. CASE ~ Complete /\ EndError = "none" /\ \E why \in ConversionErrors : Return(why)
    <3>1. Acceptable(n + 1)'
      BY <1>1, <1>2, <2>2, <2>6, TokenJudged, EndExplained
    <3>2. result' \in ConversionErrors
      BY <2>6 DEF Return
    <3> QED
      BY <1>1, <1>4, <2>2, <2>3, <3>1, <3>2, StepJudged
  <2> QED
    BY <1>8, <2>4, <2>5, <2>6 DEF EndRejected
<1>9. CASE Malformed
  <2>1. PICK t : t = [kind |-> "Malformed"]
    OBVIOUS
  <2>2. t \in Tokens /\ t.kind = "Malformed" /\ block' = Append(block, t)
    BY <1>9, <2>1 DEF Tokens, Malformed, Read
  <2>3. result' = "Token" /\ root' = root
    BY <1>9 DEF Malformed, Return, stacks
  <2>4. ~ Acceptable(n + 1)'
    BY <1>1, <1>2, <2>2, TokenJudged
  <2> QED
    BY <1>1, <1>3, <2>2, <2>3, <2>4, StepJudged
<1>10. CASE \E name \in Names : BeginNode(name)
  <2>1. PICK name \in Names : BeginNode(name)
    BY <1>10
  <2>2. PICK t : t = [kind |-> "BeginNode", name |-> name]
    OBVIOUS
  <2>3. t \in Tokens /\ t.kind = "BeginNode" /\ block' = Append(block, t)
    BY <2>1, <2>2 DEF Tokens, BeginNode, Read
  <2>4. result' = "reading" /\ root' = root
    BY <2>1 DEF BeginNode
  <2>5. Acceptable(n + 1)'
    BY <1>1, <1>2, <2>3, TokenJudged
  <2> QED
    BY <1>1, <1>4, <2>3, <2>4, <2>5, StepJudged
<1>11. CASE \E key \in PropKeys : Prop(key) \/ PropDuplicate(key) \/ PropOutside(key)
  <2>1. PICK key \in PropKeys : Prop(key) \/ PropDuplicate(key) \/ PropOutside(key)
    BY <1>11
  <2>2. PICK t : t = [kind |-> "Prop", key |-> key]
    OBVIOUS
  <2>3. t \in Tokens /\ t.kind = "Prop" /\ t.key = key /\ block' = Append(block, t)
    BY <2>1, <2>2 DEF Tokens, Prop, PropDuplicate, PropOutside, Read
  <2>4. root' = root
    BY <2>1 DEF Prop, PropDuplicate, PropOutside, Return, stacks
  <2>5. Owner(n + 1) = PlaceAt(D)
    BY <1>1, <1>2, NextOwner
  <2>6. properties # <<>> <=> D # 0
    BY <1>1, StackFacts
  <2>7. ASSUME D # 0
        PROVE  /\ Last(properties) = properties[D]
               /\ key \in DOMAIN properties[D] <=>
                    \E p \in Places("Prop", n) : Owner(p) = Owner(n + 1) /\ block[p].key = key
    <3>1. Last(properties) = properties[D]
      BY <1>1, <1>2, <2>7, StackFacts DEF Last
    <3>2. RecordsPropertiesOf(properties[D], Owner(n + 1))
      BY <1>1, <1>2, <2>5, <2>7 DEF PropertiesRecorded, PlaceAt
    <3> QED
      BY <1>1, <3>1, <3>2 DEF RecordsPropertiesOf, PropertiesOf
  <2>8. CASE Prop(key)
    <3>1. result' = "reading" /\ D > 0 /\ key \notin DOMAIN properties[D]
      BY <1>2, <2>6, <2>7, <2>8 DEF Prop
    <3>2. Acceptable(n + 1)'
      BY <1>1, <1>2, <2>3, <2>7, <3>1, TokenJudged
    <3> QED
      BY <1>1, <1>4, <2>3, <2>4, <3>1, <3>2, StepJudged
  <2>9. CASE PropDuplicate(key)
    <3>1. result' = "Parsing" /\ D > 0 /\ key \in DOMAIN properties[D]
      BY <1>2, <2>6, <2>7, <2>9 DEF PropDuplicate, Return
    <3>2. ~ Acceptable(n + 1)'
      BY <1>1, <1>2, <2>3, <2>7, <3>1, TokenJudged
    <3> QED
      BY <1>1, <1>3, <2>3, <2>4, <3>1, <3>2, StepJudged
  <2>10. CASE PropOutside(key)
    <3>1. result' = "InvalidProp" /\ D = 0
      BY <2>6, <2>10 DEF PropOutside, Return
    <3>2. ~ Acceptable(n + 1)'
      BY <1>1, <1>2, <2>3, <3>1, TokenJudged
    <3> QED
      BY <1>1, <1>3, <2>3, <2>4, <3>1, <3>2, StepJudged
  <2> QED
    BY <2>1, <2>8, <2>9, <2>10
<1> QED
  BY <1>5, <1>6, <1>7, <1>8, <1>9, <1>10, <1>11

(* The `End` token that completes the tree.                                *)
LEMMA EndJudged ==
  ASSUME Inv, Nested, Judged, End
  PROVE  Judged'
<1>1. PICK n, t : n = Len(block) /\ t = [kind |-> "End"]
  OBVIOUS
<1>2. /\ t \in Tokens /\ t.kind = "End" /\ block' = Append(block, t) /\ result = "reading"
      /\ ~ Complete /\ EndError = "none" /\ root' = children[1][1].val /\ result' = "reading"
  BY <1>1 DEF Tokens, End, Read
<1>3. block \in Seq(Tokens) /\ Acceptable(n) /\ Places("End", n) = {}
  BY <1>1, <1>2 DEF Inv, TypeOK, Judged, Accepting
<1>4. /\ n \in Nat /\ Len(block') = n + 1
      /\ Places("End", n + 1)' = Places("End", n) \cup {n + 1}
      /\ Places("BeginNode", n + 1)' = Places("BeginNode", n)
      /\ \A p \in 1..n + 1 : Owner(p)' = Owner(p)
  <2>1. Places("BeginNode", n + 1)' = Places("BeginNode", n)
    BY <1>1, <1>2, <1>3, TokenRead
  <2> QED
    BY <1>1, <1>2, <1>3, <2>1, TokenRead
<1>5. Acceptable(n + 1)' /\ RootsBefore(n) = {root'}
  BY <1>1, <1>2, <1>3, TokenJudged, EndExplained
<1>6. RootsBefore(n + 1)' = RootsBefore(n)
  <2>1. Places("BeginNode", n) \subseteq 1..n + 1
    <3>1. Places("BeginNode", n) \subseteq 1..n /\ 1..n \subseteq 1..n + 1
      BY <1>4, PlacesFacts
    <3> QED
      BY <3>1
  <2> QED
    BY <1>4, <2>1 DEF RootsBefore
<1>7. Complete'
  BY EndInv
<1>8. TheRootIsThat'
  BY <1>4, <1>5, <1>6 DEF TheRootIsThat
<1> QED
  BY <1>2, <1>4, <1>5, <1>7, <1>8 DEF Judged, Accepting

(* The verdict stays exact.                                                *)
LEMMA NextJudged == Inv /\ NestedWhileReading /\ Judged /\ [Next]_vars => Judged'
<1> SUFFICES ASSUME Inv, NestedWhileReading, Judged, [Next]_vars PROVE Judged'
  OBVIOUS
<1>1. ASSUME block' = block
      PROVE  /\ \A n : Acceptable(n)' <=> Acceptable(n)
             /\ \A kind : Places(kind, Len(block))' = Places(kind, Len(block))
             /\ root' = root => TheRootIsThat'
  <2>1. /\ \A n : DepthAfter(n)' = DepthAfter(n)
        /\ \A kind : \A n : Places(kind, n)' = Places(kind, n)
        /\ \A p : Owner(p)' = Owner(p)
    BY <1>1, DescriptionStays
  <2>2. \A n : Acceptable(n)' <=> Acceptable(n)
    BY <1>1, <2>1 DEF Acceptable
  <2>3. \A n : RootsBefore(n)' = RootsBefore(n)
    BY <2>1 DEF RootsBefore
  <2>4. root' = root => TheRootIsThat'
    BY <1>1, <2>1, <2>3 DEF Judged, TheRootIsThat, Complete
  <2> QED
    BY <1>1, <2>1, <2>2, <2>4
<1>2. CASE UNCHANGED vars
  <2>1. block' = block /\ root' = root /\ result' = result
    BY <1>2 DEF vars
  <2>2. Complete' <=> Complete
    BY <2>1 DEF Complete
  <2>3. (result = "reading" => (Complete <=> Places("End", Len(block)) # {}))'
    BY <1>1, <2>1, <2>2 DEF Judged
  <2>4. (/\ result \in Accepting => Acceptable(Len(block))
         /\ result = "Ok" => Places("End", Len(block)) # {}
         /\ result = "EoF" => Places("End", Len(block)) = {})'
    BY <1>1, <2>1 DEF Judged
  <2>5. (result \in Results \ Accepting =>
           Acceptable(Len(block) - 1) /\ ~ Acceptable(Len(block)))'
    BY <1>1, <2>1 DEF Judged
  <2>6. TheRootIsThat'
    BY <1>1, <2>1
  <2> QED
    BY <2>3, <2>4, <2>5, <2>6, Zenon DEF Judged
<1>3. CASE StreamEnds
  <2>1. block' = block /\ root' = root /\ result' = IF Complete THEN "Ok" ELSE "EoF"
    BY <1>3 DEF StreamEnds, Return, stacks
  <2>2. Acceptable(Len(block)) /\ (Complete <=> Places("End", Len(block)) # {})
    BY <1>3 DEF StreamEnds, Judged, Accepting
  <2> QED
    BY <1>1, <2>1, <2>2 DEF Judged, Accepting
<1>4. CASE Next /\ ~ StreamEnds
  <2>1. result = "reading"
    BY <1>4 DEF Next, BeginNode, EndNode, EndNodeTooMany, Prop, PropDuplicate, PropOutside,
                Nop, End, EndRejected, Malformed, Read
  <2>2. Nested
    BY <2>1 DEF NestedWhileReading
  <2> QED
    BY <1>4, <2>1, <2>2, TokensJudged, EndJudged DEF Next
<1> QED
  BY <1>2, <1>3, <1>4

(* A blob is accepted only if its tokens keep every rule, rejected for its *)
(* structure only where the first rule is broken, and the tree converted   *)
(* is the only one there was before the `End` token: for structure blocks  *)
(* of any length, whatever they name.                                      *)
THEOREM VerdictAlwaysExact == Spec => []VerdictIsExact
<1>1. Judged => VerdictIsExact
  BY DEF Judged, VerdictIsExact, Accepting, TheRootIsThat, RootsBefore
<1>2. Spec => [](Inv /\ NestedWhileReading /\ Judged)
  <2>1. Init => Inv /\ NestedWhileReading /\ Judged
    BY InitInv, InitNested, InitJudged
  <2>2. Inv /\ NestedWhileReading /\ Judged /\ [Next]_vars
          => Inv' /\ NestedWhileReading' /\ Judged'
    BY NextInv, NextNested, NextJudged
  <2> QED
    BY <2>1, <2>2, PTL DEF Spec
<1> QED
  BY <1>1, <1>2, PTL
=============================================================================
