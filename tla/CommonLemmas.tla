---------------------------- MODULE CommonLemmas ----------------------------
(***************************************************************************)
(* What the proofs about the components share: the sequence operators the  *)
(* modules are built from, the rearrangements of MapContents, and chains   *)
(* of checks.                                                              *)
(***************************************************************************)
EXTENDS MapContents, Checks, SequenceTheorems, WellFoundedInduction, TLAPS

-----------------------------------------------------------------------------
(* A set of natural numbers that is not empty has a least element.         *)
LEMMA LeastNatural ==
  ASSUME NEW T, T \subseteq Nat, T # {}
  PROVE  \E n \in T : \A m \in T : n <= m
<1> DEFINE R == OpToRel(<, Nat)
<1>1. PICK n \in T : \A m \in T : ~ (<<m, n>> \in R)
  <2>1. IsWellFoundedOn(R, Nat)
    BY NatLessThanWellFounded
  <2> HIDE DEF R
  <2> QED
    BY <2>1, WFMin
<1>2. ASSUME NEW m \in T PROVE n <= m
  <2>1. ~ (<<m, n>> \in R)
    BY <1>1
  <2>2. ~ (m < n)
    BY <2>1 DEF OpToRel
  <2> QED
    BY <2>2
<1> QED
  BY <1>1, <1>2

(* The first error of a chain of checks is "none" if all succeed, else the *)
(* error of one that fails and before which all succeed.                   *)
LEMMA FirstErrorProperties ==
  ASSUME NEW S, NEW checks \in Seq(S)
  PROVE  \/ /\ \A i \in 1..Len(checks) : checks[i].ok
            /\ FirstError(checks) = "none"
         \/ \E i \in 1..Len(checks) :
              IsFirstFailure(checks, i) /\ FirstError(checks) = checks[i].error
<1>1. DOMAIN checks = 1..Len(checks) /\ Len(checks) \in Nat
  BY LenProperties
<1>2. CASE \A i \in 1..Len(checks) : checks[i].ok
  BY <1>1, <1>2 DEF FirstError
<1>3. CASE ~ \A i \in 1..Len(checks) : checks[i].ok
  <2> DEFINE failed == {i \in 1..Len(checks) : ~ checks[i].ok}
  <2>1. failed \subseteq Nat /\ failed # {}
    BY <1>1, <1>3
  <2>2. PICK n \in failed : \A m \in failed : n <= m
    <3> HIDE DEF failed
    <3> QED
      BY <2>1, LeastNatural
  <2>3. n \in 1..Len(checks) /\ IsFirstFailure(checks, n)
    BY <1>1, <2>2 DEF IsFirstFailure
  <2> DEFINE first == CHOOSE i \in DOMAIN checks : IsFirstFailure(checks, i)
  <2>4. first \in DOMAIN checks /\ IsFirstFailure(checks, first)
    BY <1>1, <2>3
  <2>5. FirstError(checks) = checks[first].error
    BY <1>1, <1>3 DEF FirstError
  <2> HIDE DEF first
  <2> QED
    BY <1>1, <2>4, <2>5
<1> QED
  BY <1>2, <1>3
-----------------------------------------------------------------------------
(* What the stack operators do to a sequence.                              *)
LEMMA FrontProperties ==
  ASSUME NEW S, NEW s \in Seq(S), s # <<>>
  PROVE  /\ Front(s) \in Seq(S)
         /\ Len(Front(s)) = Len(s) - 1
         /\ \A i \in 1..Len(s) - 1 : Front(s)[i] = s[i]
         /\ Len(s) \in Nat \ {0} /\ Last(s) = s[Len(s)] /\ Last(s) \in S
<1> DEFINE n == Len(s) - 1
<1>1. n \in Nat /\ Len(s) \in Nat \ {0} /\ Len(s) \in 1..Len(s)
  BY EmptySeq
<1>2. Front(s) = SubSeq(s, 1, n)
  BY DEF Front
<1>3. \A i \in 1..n : s[i] \in S
  BY <1>1, ElementOfSeq
<1> HIDE DEF n
<1>4. /\ SubSeq(s, 1, n) \in Seq(S)
      /\ Len(SubSeq(s, 1, n)) = IF 1 <= n THEN n - 1 + 1 ELSE 0
      /\ \A i \in 1..n - 1 + 1 : SubSeq(s, 1, n)[i] = s[1 + i - 1]
  BY <1>1, <1>3, SubSeqProperties
<1>5. Len(SubSeq(s, 1, n)) = n /\ \A i \in 1..n : SubSeq(s, 1, n)[i] = s[i]
  BY <1>1, <1>4
<1>6. Last(s) = s[Len(s)] /\ Last(s) \in S
  BY <1>1, ElementOfSeq DEF Last
<1> USE DEF n
<1> QED
  BY <1>1, <1>2, <1>4, <1>5, <1>6

(* A set of elements of a sequence that grows by one.                      *)
LEMMA ToSetAppend ==
  ASSUME NEW S, NEW s \in Seq(S), NEW e \in S
  PROVE  ToSet(Append(s, e)) = ToSet(s) \cup {e}
<1> DEFINE t == Append(s, e)
<1>1. /\ t \in Seq(S) /\ Len(t) = Len(s) + 1 /\ t[Len(s) + 1] = e
      /\ \A i \in 1..Len(s) : t[i] = s[i]
  BY AppendProperties
<1> HIDE DEF t
<1>2. DOMAIN t = 1..Len(s) + 1 /\ DOMAIN s = 1..Len(s) /\ Len(s) \in Nat
  BY <1>1, LenProperties
<1>3. ToSet(t) = ToSet(s) \cup {e}
  BY <1>1, <1>2 DEF ToSet
<1> QED
  BY <1>3 DEF t
-----------------------------------------------------------------------------
(* What inserting at an index does to a sequence.                          *)
LEMMA InsertAtProperties ==
  ASSUME NEW S, NEW s \in Seq(S), NEW i \in 1..Len(s) + 1, NEW e \in S
  PROVE  /\ InsertAt(s, i, e) \in Seq(S)
         /\ Len(InsertAt(s, i, e)) = Len(s) + 1
         /\ \A j \in 1..Len(s) + 1 :
              InsertAt(s, i, e)[j] =
                IF j < i THEN s[j] ELSE IF j = i THEN e ELSE s[j - 1]
<1> DEFINE left == SubSeq(s, 1, i - 1)
           right == SubSeq(s, i, Len(s))
<1>1. /\ left \in Seq(S) /\ Len(left) = i - 1
      /\ \A j \in 1..i - 1 : left[j] = s[j]
  BY SubSeqProperties
<1>2. /\ right \in Seq(S) /\ Len(right) = Len(s) - i + 1
      /\ \A j \in 1..Len(s) - i + 1 : right[j] = s[i + j - 1]
  BY SubSeqProperties
<1>3. <<e>> \in Seq(S) /\ Len(<<e>>) = 1 /\ <<e>>[1] = e
  OBVIOUS
<1> HIDE DEF left, right
<1>4. /\ left \o <<e>> \in Seq(S) /\ Len(left \o <<e>>) = i
      /\ \A j \in 1..i : (left \o <<e>>)[j] = IF j < i THEN left[j] ELSE e
  BY <1>1, <1>3, ConcatProperties
<1> DEFINE start == left \o <<e>>
<1> HIDE DEF start
<1>5. /\ start \in Seq(S) /\ Len(start) = i
      /\ \A j \in 1..i : start[j] = IF j < i THEN s[j] ELSE e
  BY <1>1, <1>4 DEF start
<1>6. /\ start \o right \in Seq(S) /\ Len(start \o right) = Len(s) + 1
      /\ \A j \in 1..Len(s) + 1 :
           (start \o right)[j] = IF j <= i THEN start[j] ELSE right[j - i]
  BY <1>2, <1>5, ConcatProperties
<1>7. InsertAt(s, i, e) = start \o right
  BY DEF InsertAt, start, left, right
<1>8. ASSUME NEW j \in 1..Len(s) + 1
      PROVE  (start \o right)[j] =
               IF j < i THEN s[j] ELSE IF j = i THEN e ELSE s[j - 1]
  BY <1>2, <1>5, <1>6
<1> QED
  BY <1>6, <1>7, <1>8

(* What removing an index does to a sequence.                              *)
LEMMA RemoveAtProperties ==
  ASSUME NEW S, NEW s \in Seq(S), NEW i \in 1..Len(s)
  PROVE  /\ RemoveAt(s, i) \in Seq(S)
         /\ Len(RemoveAt(s, i)) = Len(s) - 1
         /\ \A j \in 1..Len(s) - 1 :
              RemoveAt(s, i)[j] = IF j < i THEN s[j] ELSE s[j + 1]
<1> DEFINE left == SubSeq(s, 1, i - 1)
           right == SubSeq(s, i + 1, Len(s))
<1>1. /\ left \in Seq(S) /\ Len(left) = i - 1
      /\ \A j \in 1..i - 1 : left[j] = s[j]
  BY SubSeqProperties
<1>2. /\ right \in Seq(S) /\ Len(right) = Len(s) - i
      /\ \A j \in 1..Len(s) - i : right[j] = s[i + j]
  BY SubSeqProperties
<1> HIDE DEF left, right
<1>3. Len(s) \in Nat /\ i \in Int /\ Len(left) + Len(right) = Len(s) - 1
  BY <1>1, <1>2
<1>4. /\ left \o right \in Seq(S)
      /\ Len(left \o right) = Len(left) + Len(right)
      /\ \A j \in 1..Len(left) + Len(right) :
           (left \o right)[j] =
             IF j <= Len(left) THEN left[j] ELSE right[j - Len(left)]
  BY <1>1, <1>2, ConcatProperties
<1>5. RemoveAt(s, i) = left \o right
  BY DEF RemoveAt, left, right
<1>6. ASSUME NEW j \in 1..Len(s) - 1
      PROVE  (left \o right)[j] = IF j < i THEN s[j] ELSE s[j + 1]
  <2>1. (left \o right)[j] = IF j < i THEN left[j] ELSE right[j - (i - 1)]
    BY <1>1, <1>3, <1>4
  <2>2. CASE j < i
    BY <1>1, <2>1, <2>2
  <2>3. CASE ~ (j < i)
    <3>1. j - (i - 1) \in 1..Len(s) - i /\ i + (j - (i - 1)) = j + 1
      BY <2>3
    <3>2. right[j - (i - 1)] = s[j + 1]
      BY <1>2, <3>1
    <3> QED
      BY <2>1, <2>3, <3>2
  <2> QED
    BY <2>2, <2>3
<1> QED
  BY <1>3, <1>4, <1>5, <1>6
-----------------------------------------------------------------------------
(* A sorted permutation has the length of the sequence it permutes, is     *)
(* sorted, and repeats a key only if the sequence does.                    *)
LEMMA SortedPermutationProperties ==
  ASSUME NEW S, NEW s \in Seq(S), NEW p \in SortedPermutations(s)
  PROVE  /\ p \in Seq(S)
         /\ Len(p) = Len(s)
         /\ IsSortedByKey(p)
         /\ HasUniqueKeys(s) => HasUniqueKeys(p)
<1>1. IsSortedByKey(p)
  BY DEF SortedPermutations
<1>2. PICK f \in Bijection(1..Len(s), 1..Len(s)) :
        p = [i \in 1..Len(s) |-> s[f[i]]]
  BY DEF SortedPermutations
<1>3. /\ f \in [1..Len(s) -> 1..Len(s)]
      /\ \A a, b \in 1..Len(s) : f[a] = f[b] => a = b
  BY <1>2 DEF Bijection, Injection, IsInjective
<1>4. Len(s) \in Nat /\ \A i \in 1..Len(s) : s[i] \in S
  BY ElementOfSeq, LenProperties
<1>5. p \in [1..Len(s) -> S]
  BY <1>2, <1>3, <1>4
<1>6. p \in Seq(S) /\ Len(p) = Len(s)
  BY <1>4, <1>5
<1>7. ASSUME HasUniqueKeys(s),
             NEW a \in 1..Len(p), NEW b \in 1..Len(p), p[a].key = p[b].key
      PROVE  a = b
  <2>1. a \in 1..Len(s) /\ b \in 1..Len(s)
    BY <1>6
  <2>2. f[a] \in 1..Len(s) /\ f[b] \in 1..Len(s)
    BY <1>3, <2>1
  <2>3. p[a] = s[f[a]] /\ p[b] = s[f[b]]
    BY <1>2, <2>1
  <2>4. f[a] = f[b]
    BY <1>7, <2>2, <2>3 DEF HasUniqueKeys
  <2> QED
    BY <1>3, <2>1, <2>4
<1> QED
  BY <1>1, <1>6, <1>7 DEF HasUniqueKeys

(* A sorted permutation has the elements of what it permutes.              *)
LEMMA SortedPermutationElements ==
  ASSUME NEW S, NEW s \in Seq(S), NEW p \in SortedPermutations(s)
  PROVE  ToSet(p) = ToSet(s)
<1> DEFINE n == Len(s)
<1>1. n \in Nat /\ DOMAIN s = 1..n
  BY LenProperties
<1>2. PICK f \in Bijection(1..n, 1..n) : p = [i \in 1..n |-> s[f[i]]]
  BY DEF SortedPermutations
<1> HIDE DEF n
<1>3. /\ f \in [1..n -> 1..n] /\ \A k \in 1..n : \E i \in 1..n : f[i] = k
  BY <1>2 DEF Bijection, Injection, Surjection
<1>4. /\ DOMAIN p = 1..n /\ \A i \in 1..n : f[i] \in 1..n /\ p[i] = s[f[i]]
  BY <1>2, <1>3
<1>5. ASSUME NEW k \in 1..n PROVE \E i \in 1..n : p[i] = s[k]
  <2>1. PICK i \in 1..n : f[i] = k
    BY <1>3
  <2> QED
    BY <1>4, <2>1
<1>6. ASSUME NEW i \in 1..n PROVE \E k \in 1..n : p[i] = s[k]
  BY <1>4
<1>7. ToSet(p) = {p[i] : i \in 1..n} /\ ToSet(s) = {s[i] : i \in 1..n}
  BY <1>1, <1>4 DEF ToSet
<1>8. ASSUME NEW e \in ToSet(p) PROVE e \in ToSet(s)
  <2>1. PICK i \in 1..n : e = p[i]
    BY <1>7
  <2>2. PICK k \in 1..n : p[i] = s[k]
    BY <1>6
  <2> QED
    BY <1>7, <2>1, <2>2
<1>9. ASSUME NEW e \in ToSet(s) PROVE e \in ToSet(p)
  <2>1. PICK k \in 1..n : e = s[k]
    BY <1>7
  <2>2. PICK i \in 1..n : p[i] = s[k]
    BY <1>5
  <2> QED
    BY <1>7, <2>1, <2>2
<1> QED
  BY <1>8, <1>9
=============================================================================
