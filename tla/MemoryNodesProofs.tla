------------------------- MODULE MemoryNodesProofs -------------------------
(***************************************************************************)
(* Proofs about MemoryNodes, for any nodes and any base of the words.      *)
(***************************************************************************)
EXTENDS MemoryNodes, CommonLemmas

-----------------------------------------------------------------------------
(* Division by the number of words of a pair, of which there are at most   *)
(* four.                                                                   *)
LEMMA SmallDivision ==
  ASSUME NEW a \in Nat, NEW k \in 1..4
  PROVE  /\ a \div k \in Nat /\ a % k \in 0..k - 1
         /\ a = (a \div k) * k + (a % k)
<1>1. CASE k = 1
  BY <1>1
<1>2. CASE k = 2
  BY <1>2
<1>3. CASE k = 3
  BY <1>3
<1>4. CASE k = 4
  BY <1>4
<1> QED
  BY <1>1, <1>2, <1>3, <1>4

LEMMA SmallMultiple ==
  ASSUME NEW n \in Nat, NEW k \in 1..4, NEW r \in 0..k - 1
  PROVE  (n * k + r) \div k = n /\ (n * k + r) % k = r /\ n * k + r \in Nat
<1>1. CASE k = 1
  BY <1>1
<1>2. CASE k = 2
  BY <1>2
<1>3. CASE k = 3
  BY <1>3
<1>4. CASE k = 4
  BY <1>4
<1> QED
  BY <1>1, <1>2, <1>3, <1>4

(* The two digits of a number.                                             *)
LEMMA TwoDigits ==
  ASSUME NEW a \in 0..Base - 1, NEW b \in 0..Base - 1
  PROVE  /\ a * Base + b \in Nat
         /\ (a * Base + b) \div Base = a /\ (a * Base + b) % Base = b
         /\ a % Base = a /\ a \div 1 = a
  BY BoundsAssumption

LEMMA TwoDigitsBack ==
  ASSUME NEW n \in Nat, n < Base * Base
  PROVE  /\ n \div Base \in 0..Base - 1 /\ n % Base \in 0..Base - 1
         /\ (n \div Base) % Base = n \div Base
         /\ n = (n \div Base) * Base + (n % Base) /\ n \div 1 = n
  BY BoundsAssumption
-----------------------------------------------------------------------------
(***************************************************************************)
(* The integer that at most two words make, and its words.                 *)
(***************************************************************************)
IsSums(sums, words, n) ==
  sums = [i \in 0..n |-> IF i = 0 THEN 0 ELSE sums[i - 1] * Base + words[i]]

LEMMA NumberIs ==
  ASSUME NEW words \in Words, Len(words) \in 0..2
  PROVE  /\ Len(words) = 0 => Number(words) = 0
         /\ Len(words) = 1 => Number(words) = words[1]
         /\ Len(words) = 2 => Number(words) = words[1] * Base + words[2]
         /\ \A i \in 1..Len(words) : words[i] \in 0..Base - 1
         /\ Number(words) \in Nat
<1>1. PICK n \in 0..2 : n = Len(words)
  OBVIOUS
<1>2. \A i \in 1..n : words[i] \in 0..Base - 1
  BY <1>1, ElementOfSeq DEF Words
<1>3. \E sums : IsSums(sums, words, n)
  <2> DEFINE sums == [i \in 0..n |-> IF i = 0 THEN 0 ELSE IF i = 1 THEN words[1]
                                     ELSE words[1] * Base + words[2]]
  <2>1. ASSUME NEW i \in 0..n
        PROVE  sums[i] = IF i = 0 THEN 0 ELSE sums[i - 1] * Base + words[i]
    <3>1. CASE i = 0
      BY <3>1
    <3>2. CASE i = 1
      <4>1. sums[0] = 0 /\ words[1] \in Int /\ Base \in Int
        BY <1>2, <3>2, BoundsAssumption
      <4>2. 0 * Base + words[1] = words[1]
        BY <4>1
      <4> QED
        BY <3>2, <4>1, <4>2
    <3>3. CASE i = 2
      BY <3>3
    <3> QED
      BY <3>1, <3>2, <3>3
  <2> HIDE DEF sums
  <2>2. sums = [i \in 0..n |-> sums[i]]
    BY DEF sums
  <2> QED
    BY <2>1, <2>2 DEF IsSums
<1>4. PICK sums : IsSums(sums, words, n) /\ Number(words) = sums[n]
  <2>1. Number(words) = (CHOOSE sums : IsSums(sums, words, n))[n]
    BY <1>1 DEF Number, IsSums
  <2> QED
    BY <1>3, <2>1
<1>5. \A i \in 0..n : sums[i] = IF i = 0 THEN 0 ELSE sums[i - 1] * Base + words[i]
  BY <1>4 DEF IsSums
<1>6. CASE n = 0
  BY <1>1, <1>2, <1>4, <1>5, <1>6
<1>7. CASE n = 1
  <2>1. sums[0] = 0 /\ sums[1] = sums[0] * Base + words[1]
    BY <1>5, <1>7
  <2>2. words[1] \in Nat /\ Base \in Nat
    BY <1>2, <1>7, BoundsAssumption
  <2>3. sums[1] = words[1]
    BY <2>1, <2>2
  <2> QED
    BY <1>1, <1>2, <1>4, <1>7, <2>2, <2>3
<1>8. CASE n = 2
  <2>1. sums[0] = 0 /\ sums[1] = sums[0] * Base + words[1]
        /\ sums[2] = sums[1] * Base + words[2]
    BY <1>5, <1>8
  <2>2. words[1] \in 0..Base - 1 /\ words[2] \in 0..Base - 1
    BY <1>2, <1>8
  <2>3. sums[1] = words[1]
    BY <2>1, <2>2, BoundsAssumption
  <2>4. words[1] * Base + words[2] \in Nat
    BY <2>2, TwoDigits
  <2> QED
    BY <1>1, <1>2, <1>4, <1>8, <2>1, <2>3, <2>4
<1> QED
  BY <1>1, <1>6, <1>7, <1>8

(* A number written back is the words it was read from.                    *)
LEMMA NumberComesBack ==
  ASSUME NEW words \in Words, NEW n \in 0..2, Len(words) = n
  PROVE  /\ Digits(Number(words), n) = words
         /\ \A i \in 1..n : Digits(Number(words), n)[i] = words[i]
         /\ Number(words) < Power(n)
<1>1. /\ n = 0 => Number(words) = 0
      /\ n = 1 => Number(words) = words[1]
      /\ n = 2 => Number(words) = words[1] * Base + words[2]
      /\ \A i \in 1..n : words[i] \in 0..Base - 1
  BY NumberIs
<1>2. \A i \in 1..n : (Number(words) \div Power(n - i)) % Base = words[i]
  <2>1. CASE n = 1
    <3>1. words[1] \in 0..Base - 1 /\ Number(words) = words[1]
      BY <1>1, <2>1
    <3>2. words[1] \div 1 = words[1] /\ words[1] % Base = words[1]
      BY <3>1, TwoDigits
    <3>3. Power(0) = 1
      BY DEF Power
    <3> QED
      BY <2>1, <3>1, <3>2, <3>3
  <2>2. CASE n = 2
    <3>1. words[1] \in 0..Base - 1 /\ words[2] \in 0..Base - 1
          /\ Number(words) = words[1] * Base + words[2]
      BY <1>1, <2>2
    <3>2. PICK m \in Nat : m = words[1] * Base + words[2] /\ m \div Base = words[1]
                           /\ m % Base = words[2]
      BY <3>1, TwoDigits
    <3>3. m \div 1 = m /\ words[1] % Base = words[1]
      BY <3>1, <3>2, TwoDigits
    <3>4. Power(0) = 1 /\ Power(1) = Base
      BY DEF Power
    <3>5. (m \div Power(1)) % Base = words[1] /\ (m \div Power(0)) % Base = words[2]
      BY <3>2, <3>3, <3>4
    <3>6. \A i \in 1..2 : i = 1 \/ i = 2
      OBVIOUS
    <3> QED
      BY <2>2, <3>1, <3>2, <3>5, <3>6
  <2>3. CASE n = 0
    BY <2>3
  <2> QED
    BY <2>1, <2>2, <2>3
<1>3. Number(words) < Power(n)
  <2>1. CASE n = 0
    BY <1>1, <2>1 DEF Power
  <2>2. CASE n = 1
    BY <1>1, <2>2, BoundsAssumption DEF Power
  <2>3. CASE n = 2
    <3>1. PICK a \in 0..Base - 1, b \in 0..Base - 1 :
            a = words[1] /\ b = words[2] /\ Number(words) = a * Base + b
      BY <1>1, <2>3
    <3>2. a * Base + b < Base * Base
      BY BoundsAssumption
    <3> QED
      BY <2>3, <3>1, <3>2 DEF Power
  <2> QED
    BY <2>1, <2>2, <2>3
<1>4. words = [i \in 1..n |-> words[i]]
  BY DEF Words
<1> QED
  BY <1>2, <1>3, <1>4 DEF Digits

(* The words of a number that has no more are those it is read from.       *)
LEMMA DigitsComeBack ==
  ASSUME NEW m \in Nat, NEW n \in 0..2, m < Power(n), NEW words \in Words,
         words = Digits(m, n)
  PROVE  Number(words) = m
<1>1. Len(words) = n /\ \A i \in 1..n : words[i] = (m \div Power(n - i)) % Base
  BY DEF Digits
<1>2. /\ n = 0 => Number(words) = 0
      /\ n = 1 => Number(words) = words[1]
      /\ n = 2 => Number(words) = words[1] * Base + words[2]
  BY <1>1, NumberIs
<1>3. Power(0) = 1 /\ Power(1) = Base /\ Power(2) = Base * Base
  BY DEF Power
<1>4. CASE n = 0
  BY <1>2, <1>3, <1>4
<1>5. CASE n = 1
  <2>1. words[1] = (m \div 1) % Base
    BY <1>1, <1>3, <1>5
  <2>2. m \in 0..Base - 1
    BY <1>3, <1>5, BoundsAssumption
  <2> QED
    BY <1>2, <1>5, <2>1, <2>2, TwoDigits
<1>6. CASE n = 2
  <2>1. words[1] = (m \div Base) % Base /\ words[2] = (m \div 1) % Base
    BY <1>1, <1>3, <1>6
  <2>2. m < Base * Base
    BY <1>3, <1>6
  <2>3. words[1] * Base + words[2] = m
    BY <2>1, <2>2, TwoDigitsBack
  <2> QED
    BY <1>2, <1>6, <2>3
<1> QED
  BY <1>4, <1>5, <1>6
-----------------------------------------------------------------------------
(* The cells of a root.                                                    *)
LEMMA CellsFacts ==
  ASSUME cells \in RootCells
  PROVE  /\ cells[1] \in 0..2 /\ cells[2] \in 1..2
         /\ PairWords = cells[1] + cells[2] /\ PairWords \in 1..4
         /\ DOMAIN cells = 1..2
<1>1. cells \in (0..2) \X (1..2)
  BY RootCellsAssumption
<1>2. cells[1] \in 0..2 /\ cells[2] \in 1..2 /\ cells = <<cells[1], cells[2]>>
  BY <1>1
<1>3. DOMAIN cells = 1..2
  BY <1>2
<1> QED
  BY <1>2, <1>3 DEF PairWords

(* The words of the address and those of the size of a pair.               *)
Start(list, i) ==
  SubSeq(list, (i - 1) * PairWords + 1, (i - 1) * PairWords + cells[1])

Size(list, i) ==
  SubSeq(list, (i - 1) * PairWords + cells[1] + 1, (i - 1) * PairWords + PairWords)

LEMMA Slice ==
  ASSUME NEW list \in Words, NEW a \in Nat, NEW n \in Nat, a + n <= Len(list)
  PROVE  /\ SubSeq(list, a + 1, a + n) \in Words /\ Len(SubSeq(list, a + 1, a + n)) = n
         /\ \A i \in 1..n : SubSeq(list, a + 1, a + n)[i] = list[a + i]
<1> DEFINE D == 0..Base - 1
<1>1. Len(list) \in Nat
  BY LenProperties DEF Words
<1>2. list \in Seq(D)
  BY DEF Words
<1> HIDE DEF D
<1>3. PICK first \in Int, end \in Int : first = a + 1 /\ end = a + n
  OBVIOUS
<1>4. \A i \in first..end : list[i] \in D
  BY <1>1, <1>2, <1>3, ElementOfSeq
<1>5. /\ SubSeq(list, first, end) \in Seq(D)
      /\ Len(SubSeq(list, first, end)) = IF first <= end THEN end - first + 1 ELSE 0
      /\ \A i \in 1..end - first + 1 : SubSeq(list, first, end)[i] = list[first + i - 1]
  BY <1>4, SubSeqProperties
<1>6. PICK s : s = SubSeq(list, first, end)
  OBVIOUS
<1>7. Len(s) = n
  BY <1>3, <1>5, <1>6
<1>8. ASSUME NEW i \in 1..n PROVE s[i] = list[a + i]
  BY <1>3, <1>5, <1>6
<1>9. s \in Words
  BY <1>5, <1>6 DEF Words, D
<1> QED
  BY <1>3, <1>6, <1>7, <1>8, <1>9

LEMMA PairWordsOf ==
  ASSUME cells \in RootCells, NEW list \in Words, NEW i \in 1..Len(list) \div PairWords
  PROVE  /\ i \in Nat /\ (i - 1) * PairWords \in Nat
         /\ (i - 1) * PairWords + PairWords <= Len(list)
         /\ Start(list, i) \in Words /\ Len(Start(list, i)) = cells[1]
         /\ \A j \in 1..cells[1] : Start(list, i)[j] = list[(i - 1) * PairWords + j]
         /\ Size(list, i) \in Words /\ Len(Size(list, i)) = cells[2]
         /\ \A j \in 1..cells[2] :
              Size(list, i)[j] = list[(i - 1) * PairWords + cells[1] + j]
<1>1. /\ cells[1] \in 0..2 /\ cells[2] \in 1..2 /\ PairWords = cells[1] + cells[2]
      /\ PairWords \in 1..4
  BY CellsFacts
<1>2. PICK l \in Nat : l = Len(list)
  BY LenProperties DEF Words
<1>3. l \div PairWords \in Nat /\ l = (l \div PairWords) * PairWords + (l % PairWords)
      /\ l % PairWords \in 0..PairWords - 1
  BY <1>1, <1>2, SmallDivision
<1>4. PICK at \in Nat : at = (i - 1) * PairWords
  <2>1. i \in Nat \ {0}
    BY <1>2, <1>3
  <2> QED
    BY <1>1, <2>1
<1>5. i \in Nat /\ at + PairWords <= l
  <2>1. PICK k \in 1..4, q \in Nat : k = PairWords /\ q = l \div PairWords
    BY <1>1, <1>3
  <2>2. i \in 1..q /\ q * k <= l /\ at = (i - 1) * k
    BY <1>2, <1>3, <1>4, <2>1
  <2>3. CASE k = 1
    BY <2>1, <2>2, <2>3
  <2>4. CASE k = 2
    BY <2>1, <2>2, <2>4
  <2>5. CASE k = 3
    BY <2>1, <2>2, <2>5
  <2>6. CASE k = 4
    BY <2>1, <2>2, <2>6
  <2> QED
    BY <2>3, <2>4, <2>5, <2>6
<1>6. /\ SubSeq(list, at + 1, at + cells[1]) \in Words
      /\ Len(SubSeq(list, at + 1, at + cells[1])) = cells[1]
      /\ \A j \in 1..cells[1] : SubSeq(list, at + 1, at + cells[1])[j] = list[at + j]
  <2>1. PICK n \in Nat : n = cells[1]
    BY <1>1
  <2>2. at + n <= Len(list)
    BY <1>1, <1>2, <1>5, <2>1
  <2> QED
    BY <2>1, <2>2, Slice
<1>7. PICK mid \in Nat : mid = at + cells[1]
  BY <1>1
<1>8. mid + cells[2] = at + PairWords
  BY <1>1, <1>7
<1>9. /\ SubSeq(list, mid + 1, mid + cells[2]) \in Words
      /\ Len(SubSeq(list, mid + 1, mid + cells[2])) = cells[2]
      /\ \A j \in 1..cells[2] : SubSeq(list, mid + 1, mid + cells[2])[j] = list[mid + j]
  <2>1. PICK n \in Nat : n = cells[2]
    BY <1>1
  <2>2. mid + n <= Len(list)
    BY <1>2, <1>5, <1>8, <2>1
  <2> QED
    BY <2>1, <2>2, Slice
<1>10. Start(list, i) = SubSeq(list, at + 1, at + cells[1])
  BY <1>4 DEF Start
<1>11. Size(list, i) = SubSeq(list, mid + 1, mid + cells[2])
  BY <1>4, <1>7, <1>8 DEF Size
<1> QED
  BY <1>2, <1>4, <1>5, <1>6, <1>7, <1>9, <1>10, <1>11

(* The pairs read from a list.                                             *)
LEMMA PairsAre ==
  ASSUME cells \in RootCells, NEW list \in Words
  PROVE  /\ Pairs(list) \in PairSeqs /\ Len(Pairs(list)) = Len(list) \div PairWords
         /\ \A i \in 1..Len(list) \div PairWords :
              /\ Pairs(list)[i][1] = Number(Start(list, i))
              /\ Pairs(list)[i][2] = Number(Size(list, i))
<1>1. PICK n \in Nat : n = Len(list) \div PairWords
  <2>1. Len(list) \in Nat
    BY LenProperties DEF Words
  <2> QED
    BY <2>1, CellsFacts, SmallDivision
<1>2. Pairs(list) = [i \in 1..n |-> <<Number(Start(list, i)), Number(Size(list, i))>>]
  BY <1>1 DEF Pairs, Start, Size
<1>3. ASSUME NEW i \in 1..n
      PROVE  Number(Start(list, i)) \in Nat /\ Number(Size(list, i)) \in Nat
  <2>1. /\ Start(list, i) \in Words /\ Len(Start(list, i)) = cells[1]
        /\ Size(list, i) \in Words /\ Len(Size(list, i)) = cells[2]
    BY <1>1, PairWordsOf
  <2>2. Len(Start(list, i)) \in 0..2 /\ Len(Size(list, i)) \in 0..2
    BY <2>1, CellsFacts
  <2> QED
    BY <2>1, <2>2, NumberIs
<1>4. Pairs(list) \in [1..n -> Nat \X Nat]
  BY <1>2, <1>3
<1>5. Pairs(list) \in PairSeqs /\ Len(Pairs(list)) = n
  BY <1>4 DEF PairSeqs
<1> QED
  BY <1>1, <1>2, <1>5

(* A list of whole pairs written back is the list.                         *)
LEMMA PairsComeBack ==
  ASSUME cells \in RootCells, NEW list \in Words, IsPairs(list)
  PROVE  AsWords(Pairs(list)) = list
<1>1. /\ cells[1] \in 0..2 /\ cells[2] \in 1..2 /\ PairWords = cells[1] + cells[2]
      /\ PairWords \in 1..4
  BY CellsFacts
<1>2. PICK l \in Nat : l = Len(list)
  BY LenProperties DEF Words
<1>3. PICK q \in Nat : q = l \div PairWords /\ l = q * PairWords
  <2>1. PICK q \in Nat : q = l \div PairWords /\ l = q * PairWords + (l % PairWords)
    BY <1>1, <1>2, SmallDivision
  <2>2. l % PairWords = 0
    BY <1>2 DEF IsPairs
  <2>3. q * PairWords + 0 = q * PairWords
    BY <1>1, <2>1
  <2> QED
    BY <2>1, <2>2, <2>3
<1>4. PICK pairs : pairs = Pairs(list)
  OBVIOUS
<1>5. Len(pairs) = q /\ \A i \in 1..q : /\ pairs[i][1] = Number(Start(list, i))
                                        /\ pairs[i][2] = Number(Size(list, i))
  BY <1>2, <1>3, <1>4, PairsAre
<1>6. ASSUME NEW w \in 1..l
      PROVE  list[w] = LET pair == pairs[((w - 1) \div PairWords) + 1]
                           at   == ((w - 1) % PairWords) + 1
                       IN  IF at <= cells[1] THEN Digits(pair[1], cells[1])[at]
                           ELSE Digits(pair[2], cells[2])[at - cells[1]]
  <2>1. PICK d \in Nat, r \in Nat :
          /\ d = (w - 1) \div PairWords /\ r = (w - 1) % PairWords
          /\ w - 1 = d * PairWords + r /\ r \in 0..PairWords - 1
    <3>1. PICK m \in Nat : m = w - 1
      OBVIOUS
    <3>2. /\ m \div PairWords \in Nat /\ m % PairWords \in 0..PairWords - 1
          /\ m = (m \div PairWords) * PairWords + (m % PairWords)
      BY <1>1, SmallDivision
    <3>3. m % PairWords \in Nat
      BY <1>1, <3>2
    <3> QED
      BY <3>1, <3>2, <3>3
  <2>2. PICK i \in 1..q : i = d + 1
    <3>1. PICK k \in 1..4 : k = PairWords
      BY <1>1
    <3>2. d * k + r < q * k /\ r \in 0..k - 1
      BY <1>3, <2>1, <3>1
    <3>3. d < q
      <4>1. CASE k = 1
        BY <3>2, <4>1
      <4>2. CASE k = 2
        BY <3>2, <4>2
      <4>3. CASE k = 3
        BY <3>2, <4>3
      <4>4. CASE k = 4
        BY <3>2, <4>4
      <4> QED
        BY <4>1, <4>2, <4>3, <4>4
    <3> QED
      BY <3>3
  <2>3. /\ Start(list, i) \in Words /\ Len(Start(list, i)) = cells[1]
        /\ \A j \in 1..cells[1] : Start(list, i)[j] = list[(i - 1) * PairWords + j]
        /\ Size(list, i) \in Words /\ Len(Size(list, i)) = cells[2]
        /\ \A j \in 1..cells[2] :
             Size(list, i)[j] = list[(i - 1) * PairWords + cells[1] + j]
    BY <1>2, <1>3, PairWordsOf
  <2>4. PICK base \in Nat : base = (i - 1) * PairWords /\ w = base + r + 1
    <3>1. i - 1 = d
      BY <2>2
    <3>2. d * PairWords \in Nat
      BY <1>1
    <3> QED
      BY <2>1, <3>1, <3>2
  <2>5. CASE r + 1 <= cells[1]
    <3>1. PICK j \in 1..cells[1] : j = r + 1
      BY <1>1, <2>5
    <3>2. Digits(pairs[i][1], cells[1])[j] = Start(list, i)[j]
      BY <1>1, <1>5, <2>3, NumberComesBack
    <3>3. Start(list, i)[j] = list[base + j]
      BY <2>3, <2>4
    <3>4. base + j = w
      BY <2>4, <3>1
    <3> QED
      <4>1. ((w - 1) \div PairWords) + 1 = i /\ ((w - 1) % PairWords) + 1 = j
        BY <2>1, <2>2, <3>1
      <4> QED
        BY <2>5, <3>1, <3>2, <3>3, <3>4, <4>1
  <2>6. CASE ~ (r + 1 <= cells[1])
    <3>1. PICK j \in 1..cells[2] : j = r + 1 - cells[1]
      <4>1. r \in 0..PairWords - 1
        BY <2>1
      <4>2. r + 1 - cells[1] \in 1..cells[2]
        BY <1>1, <2>6, <4>1
      <4> QED
        BY <4>2
    <3>2. Digits(pairs[i][2], cells[2])[j] = Size(list, i)[j]
      <4>1. cells[2] \in 0..2
        BY <1>1
      <4> QED
        BY <1>5, <2>3, <4>1, NumberComesBack
    <3>3. Size(list, i)[j] = list[base + cells[1] + j]
      BY <2>3, <2>4
    <3>4. base + cells[1] + j = w /\ (r + 1) - cells[1] = j
      BY <1>1, <2>4, <3>1
    <3> QED
      <4>1. ((w - 1) \div PairWords) + 1 = i /\ ((w - 1) % PairWords) + 1 = r + 1
        BY <2>1, <2>2
      <4> QED
        BY <2>6, <3>2, <3>3, <3>4, <4>1
  <2> QED
    BY <2>5, <2>6
<1>7. list = [w \in 1..l |-> list[w]]
  BY <1>2 DEF Words
<1>8. Len(pairs) * PairWords = l
  BY <1>3, <1>5
<1> QED
  BY <1>4, <1>6, <1>7, <1>8 DEF AsWords
-----------------------------------------------------------------------------
(* A list fits the cells exactly when it is whole pairs.                   *)
LEMMA FitsIsPairs ==
  ASSUME cells \in RootCells, NEW list \in Lists
  PROVE  FitsCells(list) <=> list = None \/ IsPairs(list)
<1>1. CASE list = None
  BY <1>1 DEF FitsCells
<1>2. CASE list # None
  <2>1. PICK l \in Nat : l = Len(list)
    BY <1>2, LenProperties DEF Lists, Words
  <2>2. PICK a \in 0..2, b \in 1..2, k \in 1..4 :
          a = cells[1] /\ b = cells[2] /\ k = PairWords /\ k = a + b
    BY CellsFacts
  <2>3. ASSUME NEW n \in Nat, l = n * a + n * b PROVE l % k = 0
    <3>1. n * a + n * b = n * k + 0 /\ 0 \in 0..k - 1
      BY <2>2
    <3>2. (n * k + 0) % k = 0
      BY <3>1, SmallMultiple
    <3> QED
      BY <2>3, <3>1, <3>2
  <2>4. ASSUME l % k = 0 PROVE \E n \in 0..l : l = n * a + n * b
    <3>1. PICK n \in Nat : l = n * k + (l % k)
      BY SmallDivision
    <3>2. n * k + 0 = n * a + n * b /\ n <= n * k
      <4>1. n * k + 0 = n * a + n * b
        BY <2>2
      <4>2. CASE k = 1
        BY <4>1, <4>2
      <4>3. CASE k = 2
        BY <4>1, <4>3
      <4>4. CASE k = 3
        BY <4>1, <4>4
      <4>5. CASE k = 4
        BY <4>1, <4>5
      <4> QED
        BY <4>2, <4>3, <4>4, <4>5
    <3>3. n \in 0..l /\ l = n * a + n * b
      BY <2>4, <3>1, <3>2
    <3> QED
      BY <3>3
  <2>5. FitsCells(list) <=> \E n \in 0..l : l = n * a + n * b
    BY <1>2, <2>1, <2>2 DEF FitsCells
  <2>6. IsPairs(list) <=> l % k = 0
    BY <2>1, <2>2 DEF IsPairs
  <2> QED
    BY <1>2, <2>1, <2>3, <2>4, <2>5, <2>6
<1> QED
  BY <1>1, <1>2

(* Pairs sorted by start are the same pairs, in another order.             *)
LEMMA SortedPairs ==
  ASSUME NEW pairs \in PairSeqs, NEW p \in SortedByStart(pairs)
  PROVE  /\ p \in PairSeqs /\ InOrder(p) /\ DOMAIN p = 1..Len(p)
         /\ \E f \in Bijection(1..Len(p), 1..Len(p)) : [i \in DOMAIN p |-> p[f[i]]] = pairs
<1>1. InOrder(p)
  BY DEF SortedByStart
<1>2. PICK n \in Nat : n = Len(pairs)
  BY LenProperties DEF PairSeqs
<1>3. PICK g \in Bijection(1..n, 1..n) : p = [i \in 1..n |-> pairs[g[i]]]
  BY <1>2 DEF SortedByStart
<1>4. /\ g \in [1..n -> 1..n] /\ \A i, j \in 1..n : g[i] = g[j] => i = j
      /\ \A j \in 1..n : \E i \in 1..n : g[i] = j
  BY <1>3 DEF Bijection, Injection, Surjection, IsInjective
<1>5. /\ pairs = [i \in 1..n |-> pairs[i]] /\ \A i \in 1..n : pairs[i] \in Nat \X Nat
  BY <1>2, ElementOfSeq DEF PairSeqs
<1>6. p \in [1..n -> Nat \X Nat]
  BY <1>3, <1>4, <1>5
<1>7. p \in PairSeqs /\ Len(p) = n /\ DOMAIN p = 1..n
  BY <1>6 DEF PairSeqs
<1> DEFINE f == [j \in 1..n |-> CHOOSE i \in 1..n : g[i] = j]
<1>8. \A j \in 1..n : f[j] \in 1..n /\ g[f[j]] = j
  BY <1>4
<1>9. f \in [1..n -> 1..n]
  BY <1>8
<1> HIDE DEF f
<1>10. \A i, j \in 1..n : f[i] = f[j] => i = j
  BY <1>8
<1>11. \A i \in 1..n : \E j \in 1..n : f[j] = i
  <2>1. ASSUME NEW i \in 1..n PROVE f[g[i]] = i
    BY <1>4, <1>8
  <2> QED
    BY <1>4, <2>1
<1>12. f \in Bijection(1..n, 1..n)
  BY <1>9, <1>10, <1>11 DEF Bijection, Injection, Surjection, IsInjective
<1>13. [i \in 1..n |-> p[f[i]]] = [i \in 1..n |-> pairs[i]]
  BY <1>3, <1>8
<1> QED
  BY <1>1, <1>5, <1>7, <1>12, <1>13
-----------------------------------------------------------------------------
(* A child of `/reserved-memory`, and one called `memory`.                 *)
LEMMA ReservedKid ==
  ASSUME NEW kid \in ReservedKids
  PROVE  /\ kid.size \in Lists /\ kid.alignment \in Lists /\ kid.reg \in Lists
         /\ kid.alloc \in Lists /\ kid.noMap \in BOOLEAN /\ kid.reusable \in BOOLEAN
         /\ kid.compatible \in {"valid", Invalid, None}
         /\ kid.below \in {"done", "Cells", "Child", "panic"}
BY KidsAssumption

LEMMA MemoryKid ==
  ASSUME NEW kid \in MemoryKids
  PROVE  /\ kid.address \in Nat \cup {None} /\ kid.children \in BOOLEAN
         /\ kid.isMemory \in BOOLEAN /\ kid.reg \in Lists
BY KidsAssumption

(* A single integer of the width of a size.                                *)
LEMMA SizeComesBack ==
  ASSUME cells \in RootCells, NEW list \in Lists, list # None, IsSize(list)
  PROVE  Number(list) \in Nat /\ Digits(Number(list), cells[2]) = list
<1>1. PICK n \in 1..2 : n = cells[2]
  BY CellsFacts
<1>2. list \in Words /\ Len(list) = n /\ n \in 0..2
  BY <1>1 DEF Lists, IsSize
<1> QED
  BY <1>1, <1>2, NumberIs, NumberComesBack

(* A static range, or a dynamic one, whose ranges are sorted.              *)
Ranges ==
  [static : PairSeqs]
    \cup {r \in [size : Nat, alignment : Nat \cup {None}, alloc : PairSeqs \cup {None}] :
            r.alloc # None => InOrder(r.alloc)}

(* The range of a sound node is what the node says.                        *)
LEMMA RangeIsRight ==
  ASSUME cells \in RootCells, NEW kid \in ReservedKids, IsSoundReserved(kid),
         NEW range \in RangeOf(kid)
  PROVE  range \in Ranges /\ IsRangeOf(range, kid)
<1>1. /\ kid.reg \in Lists /\ kid.alloc \in Lists /\ kid.size \in Lists
      /\ kid.alignment \in Lists
  BY ReservedKid
<1>2. /\ kid.reg = None \/ IsPairs(kid.reg)
      /\ kid.alloc = None \/ IsPairs(kid.alloc)
      /\ kid.size = None \/ IsSize(kid.size)
      /\ kid.alignment = None \/ IsSize(kid.alignment)
      /\ kid.reg # None \/ kid.size # None
  BY <1>1, FitsIsPairs DEF IsSoundReserved, IsSize
<1>3. CASE kid.reg # None
  <2>1. kid.reg \in Words
    BY <1>1, <1>3 DEF Lists
  <2>2. range = [static |-> Pairs(kid.reg)]
    BY <1>3 DEF RangeOf
  <2>3. Pairs(kid.reg) \in PairSeqs /\ AsWords(Pairs(kid.reg)) = kid.reg
    BY <1>2, <1>3, <2>1, PairsAre, PairsComeBack
  <2> QED
    BY <1>3, <2>2, <2>3 DEF Ranges, IsRangeOf
<1>4. CASE kid.reg = None
  <2>1. PICK a \in IF kid.alloc = None THEN {None} ELSE SortedByStart(Pairs(kid.alloc)) :
          range = [size |-> Number(kid.size), alloc |-> a,
                   alignment |-> IF kid.alignment = None THEN None
                                 ELSE Number(kid.alignment)]
    BY <1>4 DEF RangeOf
  <2>2. Number(kid.size) \in Nat /\ Digits(Number(kid.size), cells[2]) = kid.size
    BY <1>1, <1>2, <1>4, SizeComesBack
  <2>3. kid.alignment # None =>
          /\ Number(kid.alignment) \in Nat
          /\ Digits(Number(kid.alignment), cells[2]) = kid.alignment
    BY <1>1, <1>2, SizeComesBack
  <2>4. kid.alloc # None =>
          /\ a \in PairSeqs /\ InOrder(a)
          /\ \E f \in Bijection(1..Len(a), 1..Len(a)) :
               AsWords([i \in DOMAIN a |-> a[f[i]]]) = kid.alloc
    <3>1. SUFFICES ASSUME kid.alloc # None
                   PROVE  /\ a \in PairSeqs /\ InOrder(a)
                          /\ \E f \in Bijection(1..Len(a), 1..Len(a)) :
                               AsWords([i \in DOMAIN a |-> a[f[i]]]) = kid.alloc
      OBVIOUS
    <3>2. kid.alloc \in Words /\ IsPairs(kid.alloc)
      BY <1>1, <1>2, <3>1 DEF Lists
    <3>3. Pairs(kid.alloc) \in PairSeqs /\ AsWords(Pairs(kid.alloc)) = kid.alloc
      BY <3>2, PairsAre, PairsComeBack
    <3>4. PICK pairs \in PairSeqs : pairs = Pairs(kid.alloc) /\ AsWords(pairs) = kid.alloc
      BY <3>3
    <3>5. a \in SortedByStart(pairs)
      BY <2>1, <3>1, <3>4
    <3>6. a \in PairSeqs /\ InOrder(a)
      BY <3>5, SortedPairs
    <3>7. PICK f \in Bijection(1..Len(a), 1..Len(a)) :
            [i \in DOMAIN a |-> a[f[i]]] = pairs
      BY <3>5, SortedPairs
    <3>8. AsWords([i \in DOMAIN a |-> a[f[i]]]) = kid.alloc
      BY <3>4, <3>7
    <3> QED
      BY <3>6, <3>8
  <2>5. range \in Ranges
    BY <2>1, <2>2, <2>3, <2>4 DEF Ranges
  <2>6. IsRangeOf(range, kid)
    BY <1>4, <2>1, <2>2, <2>3, <2>4 DEF IsRangeOf
  <2> QED
    BY <2>5, <2>6
<1> QED
  BY <1>3, <1>4
-----------------------------------------------------------------------------
(* The checks of a node: a chain of which each failure is an error.        *)
Errors ==
  {"Cells", "Usage", "Compatible", "Child", "InvalidMemory", "Children", "Type", "Reg",
   "panic"}

SomeCheck ==
  {c \in [error : Errors \cup {"done"}, ok : BOOLEAN] : c.ok \/ c.error \in Errors}

AllHold(checks) == \A i \in 1..Len(checks) : checks[i].ok

LEMMA ReservedChecksHold ==
  ASSUME cells \in RootCells, NEW kid \in ReservedKids
  PROVE  /\ ReservedChecks(kid) \in Seq(SomeCheck)
         /\ AllHold(ReservedChecks(kid)) <=> IsSoundReserved(kid)
<1>1. /\ kid.size \in Lists /\ kid.alignment \in Lists /\ kid.reg \in Lists
      /\ kid.alloc \in Lists /\ kid.noMap \in BOOLEAN /\ kid.reusable \in BOOLEAN
      /\ kid.below \in {"done", "Cells", "Child", "panic"}
  BY ReservedKid
<1>2. PICK a \in SomeCheck, b \in SomeCheck, c \in SomeCheck, d \in SomeCheck :
        /\ a = Check("Cells", kid.size = None \/ IsSize(kid.size))
        /\ b = Check("Cells", kid.alignment = None \/ IsSize(kid.alignment))
        /\ c = Check("Cells", kid.reg = None \/ IsPairs(kid.reg))
        /\ d = Check("Usage", ~ (kid.noMap /\ kid.reusable))
  <2>1. Check("Cells", kid.size = None \/ IsSize(kid.size)) \in SomeCheck
    BY DEF SomeCheck, Check, Errors
  <2>2. Check("Cells", kid.alignment = None \/ IsSize(kid.alignment)) \in SomeCheck
    BY DEF SomeCheck, Check, Errors
  <2>3. Check("Cells", kid.reg = None \/ IsPairs(kid.reg)) \in SomeCheck
    BY DEF SomeCheck, Check, Errors
  <2>4. Check("Usage", ~ (kid.noMap /\ kid.reusable)) \in SomeCheck
    BY DEF SomeCheck, Check, Errors
  <2> QED
    BY <2>1, <2>2, <2>3, <2>4
<1>3. PICK e \in SomeCheck, f \in SomeCheck, g \in SomeCheck, h \in SomeCheck :
        /\ e = Check("Cells", kid.alloc = None \/ IsPairs(kid.alloc))
        /\ f = Check("Compatible", kid.compatible # Invalid)
        /\ g = Check(kid.below, kid.below = "done")
        /\ h = Check("InvalidMemory", kid.reg # None \/ kid.size # None)
  <2>1. Check("Cells", kid.alloc = None \/ IsPairs(kid.alloc)) \in SomeCheck
    BY DEF SomeCheck, Check, Errors
  <2>2. Check("Compatible", kid.compatible # Invalid) \in SomeCheck
    BY DEF SomeCheck, Check, Errors
  <2>3. Check(kid.below, kid.below = "done") \in SomeCheck
    BY <1>1 DEF SomeCheck, Check, Errors
  <2>4. Check("InvalidMemory", kid.reg # None \/ kid.size # None) \in SomeCheck
    BY DEF SomeCheck, Check, Errors
  <2> QED
    BY <2>1, <2>2, <2>3, <2>4
<1>4. ReservedChecks(kid) = <<a, b, c, d, e, f, g, h>>
  BY <1>2, <1>3 DEF ReservedChecks
<1>5. PICK checks \in Seq(SomeCheck) :
        /\ checks = ReservedChecks(kid) /\ Len(checks) = 8
        /\ checks[1] = a /\ checks[2] = b /\ checks[3] = c /\ checks[4] = d
        /\ checks[5] = e /\ checks[6] = f /\ checks[7] = g /\ checks[8] = h
  <2> HIDE DEF SomeCheck
  <2> DEFINE all == <<a, b, c, d, e, f, g, h>>
  <2>1. /\ all \in Seq(SomeCheck) /\ Len(all) = 8
        /\ all[1] = a /\ all[2] = b /\ all[3] = c /\ all[4] = d
        /\ all[5] = e /\ all[6] = f /\ all[7] = g /\ all[8] = h
    OBVIOUS
  <2> HIDE DEF all
  <2>2. all = ReservedChecks(kid)
    BY <1>4 DEF all
  <2> QED
    BY <2>1, <2>2
<1>6. AllHold(checks) <=> /\ a.ok /\ b.ok /\ c.ok /\ d.ok
                          /\ e.ok /\ f.ok /\ g.ok /\ h.ok
  <2>1. 1..8 = {1, 2, 3, 4, 5, 6, 7, 8}
    OBVIOUS
  <2> QED
    BY <1>5, <2>1 DEF AllHold
<1>7. /\ a.ok <=> kid.size = None \/ IsSize(kid.size)
      /\ b.ok <=> kid.alignment = None \/ IsSize(kid.alignment)
      /\ c.ok <=> kid.reg = None \/ IsPairs(kid.reg)
      /\ d.ok <=> ~ (kid.noMap /\ kid.reusable)
      /\ e.ok <=> kid.alloc = None \/ IsPairs(kid.alloc)
      /\ f.ok <=> kid.compatible # Invalid
      /\ g.ok <=> kid.below = "done"
      /\ h.ok <=> kid.reg # None \/ kid.size # None
  BY <1>2, <1>3 DEF Check
<1>8. /\ FitsCells(kid.reg) <=> kid.reg = None \/ IsPairs(kid.reg)
      /\ FitsCells(kid.alloc) <=> kid.alloc = None \/ IsPairs(kid.alloc)
  BY <1>1, FitsIsPairs
<1> QED
  BY <1>5, <1>6, <1>7, <1>8 DEF IsSoundReserved, IsSize

(* Each pair starts at an address exactly when each of its first words are *)
(* the address's.                                                          *)
LEMMA StartsAtIsEachPair ==
  ASSUME cells \in RootCells, NEW list \in Words, IsPairs(list), NEW address \in Nat
  PROVE  StartsAt(list, address)
           <=> \A i \in 1..Len(Pairs(list)) : address = Pairs(list)[i][1]
<1>1. PICK m \in 0..2, b \in 1..2, k \in 1..4 :
        m = cells[1] /\ b = cells[2] /\ k = PairWords /\ k = m + b
  BY CellsFacts
<1>2. PICK l \in Nat : l = Len(list)
  BY LenProperties DEF Words
<1>3. PICK q \in Nat : q = l \div k /\ l = q * k
  <2>1. PICK q \in Nat : q = l \div k /\ l = q * k + (l % k)
    BY SmallDivision
  <2>2. l % k = 0
    BY <1>1, <1>2 DEF IsPairs
  <2>3. q * k + 0 = q * k
    BY <2>1
  <2> QED
    BY <2>1, <2>2, <2>3
<1>4. Len(Pairs(list)) = q /\ \A i \in 1..q : Pairs(list)[i][1] = Number(Start(list, i))
  BY <1>1, <1>2, <1>3, PairsAre
<1>5. \A i \in 1..q : Start(list, i) \in Words /\ Len(Start(list, i)) = m
  BY <1>1, <1>2, <1>3, PairWordsOf
<1>6. ASSUME NEW i \in 1..q
      PROVE  /\ (i - 1) * k \in 0..l - 1 /\ ((i - 1) * k) % k = 0
             /\ Start(list, i) = SubSeq(list, (i - 1) * k + 1, (i - 1) * k + m)
  <2>1. PICK j \in Nat : j = i - 1 /\ j < q
    BY <1>3
  <2>2. (j * k + 0) % k = 0 /\ j * k + 0 \in Nat
    <3>1. 0 \in 0..k - 1
      OBVIOUS
    <3> QED
      BY <3>1, SmallMultiple
  <2>3. j * k + 0 = j * k /\ j * k < q * k
    <3>1. CASE k = 1
      BY <2>1, <3>1
    <3>2. CASE k = 2
      BY <2>1, <3>2
    <3>3. CASE k = 3
      BY <2>1, <3>3
    <3>4. CASE k = 4
      BY <2>1, <3>4
    <3> QED
      BY <3>1, <3>2, <3>3, <3>4
  <2>4. PICK at \in Nat : at = (i - 1) * k /\ at < l /\ at % k = 0
    BY <1>3, <2>1, <2>2, <2>3
  <2>5. Start(list, i) = SubSeq(list, (i - 1) * k + 1, (i - 1) * k + m)
    BY <1>1 DEF Start
  <2> QED
    BY <2>4, <2>5
<1>7. ASSUME NEW n \in 0..l - 1, n % k = 0
      PROVE  \E i \in 1..q : n = (i - 1) * k
  <2>1. PICK p \in Nat : n = p * k + (n % k)
    <3>1. PICK v \in Nat : v = n
      OBVIOUS
    <3>2. v \div k \in Nat /\ v = (v \div k) * k + (v % k)
      BY SmallDivision
    <3> QED
      BY <3>1, <3>2
  <2>2. n = p * k
    <3>1. p * k + 0 = p * k
      BY <2>1
    <3> QED
      BY <1>7, <2>1, <3>1
  <2>3. p < q
    <3>1. p * k < q * k
      BY <1>3, <2>2
    <3>2. CASE k = 1
      BY <3>1, <3>2
    <3>3. CASE k = 2
      BY <3>1, <3>3
    <3>4. CASE k = 3
      BY <3>1, <3>4
    <3>5. CASE k = 4
      BY <3>1, <3>5
    <3> QED
      BY <3>2, <3>3, <3>4, <3>5
  <2>4. PICK i \in 1..q : i = p + 1
    BY <2>3
  <2>5. i - 1 = p
    BY <2>4
  <2> QED
    BY <2>2, <2>5
<1>8. StartsAt(list, address) <=>
        /\ l # 0 => address < Power(m)
        /\ \A i \in 1..q : Start(list, i) = Digits(address, m)
  <2>1. list # <<>> <=> l # 0
    BY <1>2, EmptySeq DEF Words
  <2>2. StartsAt(list, address) <=>
          /\ l # 0 => address < Power(m)
          /\ \A n \in 0..l - 1 : n % k = 0 =>
               SubSeq(list, n + 1, n + m) = Digits(address, m)
    BY <1>1, <1>2, <2>1 DEF StartsAt
  <2>3. ASSUME \A n \in 0..l - 1 : n % k = 0 =>
                 SubSeq(list, n + 1, n + m) = Digits(address, m),
               NEW i \in 1..q
        PROVE  Start(list, i) = Digits(address, m)
    BY <1>6, <2>3
  <2>4. ASSUME \A i \in 1..q : Start(list, i) = Digits(address, m),
               NEW n \in 0..l - 1, n % k = 0
        PROVE  SubSeq(list, n + 1, n + m) = Digits(address, m)
    <3>1. PICK i \in 1..q : n = (i - 1) * k
      BY <1>7, <2>4
    <3>2. Start(list, i) = SubSeq(list, n + 1, n + m)
      BY <1>6, <3>1
    <3> QED
      BY <2>4, <3>2
  <2> QED
    BY <2>2, <2>3, <2>4
<1>9. ASSUME StartsAt(list, address), NEW i \in 1..q
      PROVE  address = Pairs(list)[i][1]
  <2>1. l # 0
    <3>1. (i - 1) * k \in 0..l - 1
      BY <1>6
    <3> QED
      BY <3>1
  <2>2. address < Power(m) /\ Start(list, i) = Digits(address, m)
    BY <1>8, <1>9, <2>1
  <2>3. Start(list, i) \in Words
    BY <1>5
  <2>4. Number(Start(list, i)) = address
    BY <2>2, <2>3, DigitsComeBack
  <2> QED
    BY <1>4, <2>4
<1>10. ASSUME \A i \in 1..q : address = Pairs(list)[i][1] PROVE StartsAt(list, address)
  <2>1. ASSUME NEW i \in 1..q
        PROVE  Start(list, i) = Digits(address, m) /\ address < Power(m)
    <3>1. PICK words \in Words : words = Start(list, i) /\ Len(words) = m
      BY <1>5
    <3>2. Number(words) = address
      BY <1>4, <1>10, <3>1
    <3>3. Digits(Number(words), m) = words /\ Number(words) < Power(m)
      BY <3>1, NumberComesBack
    <3> QED
      BY <3>1, <3>2, <3>3
  <2>2. l # 0 => 1 \in 1..q
    BY <1>3
  <2> QED
    BY <1>8, <2>1, <2>2
<1> QED
  BY <1>4, <1>9, <1>10

LEMMA MemoryChecksHold ==
  ASSUME cells \in RootCells, NEW kid \in MemoryKids
  PROVE  /\ MemoryChecks(kid) \in Seq(SomeCheck)
         /\ AllHold(MemoryChecks(kid)) <=> IsSoundMemory(kid)
<1>1. /\ kid.address \in Nat \cup {None} /\ kid.children \in BOOLEAN
      /\ kid.isMemory \in BOOLEAN /\ kid.reg \in Lists
  BY MemoryKid
<1> DEFINE starts == kid.reg # None /\ \A i \in 1..Len(Pairs(kid.reg)) :
                       kid.address \in {None, Pairs(kid.reg)[i][1]}
<1>2. PICK a \in SomeCheck, b \in SomeCheck, c \in SomeCheck, d \in SomeCheck :
        /\ a = Check("Children", ~ kid.children)
        /\ b = Check("Type", kid.isMemory)
        /\ c = Check("Reg", kid.reg # None /\ IsPairs(kid.reg))
        /\ d = Check("Reg", starts)
  <2>1. Check("Children", ~ kid.children) \in SomeCheck
    BY <1>1 DEF SomeCheck, Check, Errors
  <2>2. Check("Type", kid.isMemory) \in SomeCheck
    BY <1>1 DEF SomeCheck, Check, Errors
  <2>3. Check("Reg", kid.reg # None /\ IsPairs(kid.reg)) \in SomeCheck
    BY DEF SomeCheck, Check, Errors
  <2>4. Check("Reg", starts) \in SomeCheck
    BY DEF SomeCheck, Check, Errors
  <2> QED
    BY <2>1, <2>2, <2>3, <2>4
<1>3. MemoryChecks(kid) = <<a, b, c, d>>
  BY <1>2 DEF MemoryChecks
<1>4. PICK checks \in Seq(SomeCheck) :
        /\ checks = MemoryChecks(kid) /\ Len(checks) = 4
        /\ checks[1] = a /\ checks[2] = b /\ checks[3] = c /\ checks[4] = d
  <2> HIDE DEF SomeCheck
  <2> DEFINE all == <<a, b, c, d>>
  <2>1. /\ all \in Seq(SomeCheck) /\ Len(all) = 4
        /\ all[1] = a /\ all[2] = b /\ all[3] = c /\ all[4] = d
    OBVIOUS
  <2> HIDE DEF all
  <2>2. all = MemoryChecks(kid)
    BY <1>3 DEF all
  <2> QED
    BY <2>1, <2>2
<1>5. AllHold(checks) <=> a.ok /\ b.ok /\ c.ok /\ d.ok
  <2>1. 1..4 = {1, 2, 3, 4}
    OBVIOUS
  <2> QED
    BY <1>4, <2>1 DEF AllHold
<1>6. /\ a.ok <=> ~ kid.children
      /\ b.ok <=> kid.isMemory
      /\ c.ok <=> kid.reg # None /\ IsPairs(kid.reg)
      /\ d.ok <=> starts
  BY <1>2 DEF Check
<1>7. FitsCells(kid.reg) <=> kid.reg = None \/ IsPairs(kid.reg)
  BY <1>1, FitsIsPairs
<1>8. ASSUME kid.reg # None, IsPairs(kid.reg)
      PROVE  starts <=> (kid.address # None => StartsAt(kid.reg, kid.address))
  <2>1. kid.reg \in Words
    BY <1>1, <1>8 DEF Lists
  <2>2. CASE kid.address = None
    BY <1>8, <2>2
  <2>3. CASE kid.address # None
    <3>1. PICK address \in Nat : address = kid.address
      BY <1>1, <2>3
    <3>2. StartsAt(kid.reg, address)
            <=> \A i \in 1..Len(Pairs(kid.reg)) : address = Pairs(kid.reg)[i][1]
      BY <1>8, <2>1, StartsAtIsEachPair
    <3> QED
      BY <1>8, <2>3, <3>1, <3>2
  <2> QED
    BY <2>2, <2>3
<1> HIDE DEF starts
<1>9. AllHold(checks) <=> IsSoundMemory(kid)
  BY <1>5, <1>6, <1>7, <1>8 DEF IsSoundMemory
<1> QED
  BY <1>4, <1>9

(* A node is accepted exactly when it is sound; what rejects it is one of  *)
(* the errors.                                                             *)
LEMMA VerdictOf ==
  ASSUME NEW checks \in Seq(SomeCheck)
  PROVE  IF AllHold(checks) THEN FirstError(checks) = "none"
         ELSE FirstError(checks) \in Errors
<1>1. \/ AllHold(checks) /\ FirstError(checks) = "none"
      \/ \E i \in 1..Len(checks) :
           IsFirstFailure(checks, i) /\ FirstError(checks) = checks[i].error
  <2> HIDE DEF SomeCheck
  <2> QED
    BY FirstErrorProperties DEF AllHold
<1>2. ASSUME NEW i \in 1..Len(checks), IsFirstFailure(checks, i),
             FirstError(checks) = checks[i].error
      PROVE  ~ AllHold(checks) /\ FirstError(checks) \in Errors
  <2>1. checks[i] \in SomeCheck
    BY ElementOfSeq
  <2> QED
    BY <1>2, <2>1 DEF SomeCheck, IsFirstFailure, AllHold
<1> QED
  BY <1>1, <1>2

LEMMA ReservedVerdict ==
  ASSUME cells \in RootCells, NEW kid \in ReservedKids
  PROVE  IF IsSoundReserved(kid) THEN FirstError(ReservedChecks(kid)) = "none"
         ELSE FirstError(ReservedChecks(kid)) \in Errors
<1>1. PICK checks \in Seq(SomeCheck) :
        checks = ReservedChecks(kid) /\ (AllHold(checks) <=> IsSoundReserved(kid))
  BY ReservedChecksHold
<1> QED
  BY <1>1, VerdictOf

LEMMA MemoryVerdict ==
  ASSUME cells \in RootCells, NEW kid \in MemoryKids
  PROVE  IF IsSoundMemory(kid) THEN FirstError(MemoryChecks(kid)) = "none"
         ELSE FirstError(MemoryChecks(kid)) \in Errors
<1>1. PICK checks \in Seq(SomeCheck) :
        checks = MemoryChecks(kid) /\ (AllHold(checks) <=> IsSoundMemory(kid))
  BY MemoryChecksHold
<1> QED
  BY <1>1, VerdictOf
-----------------------------------------------------------------------------
(***************************************************************************)
(* The inductive invariant.                                                *)
(***************************************************************************)
Regions == [range : Ranges, usage : {"NoMap", "Reusable", "Other"}]

Shape ==
  /\ cells \in RootCells /\ parent \in Parents \cup {None}
  /\ phase \in {"parent", "reserved", "memory", "done"}
  /\ reservedSeen \in Seq(ReservedKids) /\ memorySeen \in Seq(MemoryKids)
  /\ reserved \in Seq(Regions) /\ memory \in Seq(PairSeqs)
  /\ out \in {"parsing", "Ok", "CellsMismatch"} \cup Errors

(* Nothing is read before `/reserved-memory` itself, nor its children when *)
(* there is no such node.                                                  *)
Stage ==
  /\ out = "Ok" <=> phase = "done"
  /\ phase = "parent" => /\ reservedSeen = <<>> /\ memorySeen = <<>>
                         /\ reserved = <<>> /\ memory = <<>>
  /\ phase = "reserved" => parent # None
  /\ out = "CellsMismatch" => phase = "parent"

Inv == Shape /\ Stage /\ RegionsAreWhatTheNodesSay /\ VerdictIsExact

LEMMA InvTypeOK ==
  ASSUME Shape
  PROVE  TypeOK
<1>1. ASSUME NEW i \in 1..Len(reserved)
      PROVE  /\ reserved[i].usage \in {"NoMap", "Reusable", "Other"}
             /\ reserved[i].range \in Ranges
  <2>1. reserved[i] \in Regions
    BY ElementOfSeq DEF Shape
  <2> QED
    BY <2>1 DEF Regions
<1>2. ASSUME NEW range \in Ranges
      PROVE  \/ range \in [static : PairSeqs]
             \/ /\ range \in [size : Nat, alignment : Nat \cup {None},
                              alloc : PairSeqs \cup {None}]
                /\ range.alloc # None => InOrder(range.alloc)
  BY DEF Ranges
<1> QED
  BY <1>1, <1>2 DEF Shape, TypeOK, Errors

(* What a step changes is not the cells.                                   *)
LEMMA SameWords ==
  ASSUME cells' = cells
  PROVE  /\ \A range, kid : IsRangeOf(range, kid)' <=> IsRangeOf(range, kid)
         /\ \A pairs : AsWords(pairs)' = AsWords(pairs)
         /\ \A kid : IsSoundReserved(kid)' <=> IsSoundReserved(kid)
         /\ \A kid : IsSoundMemory(kid)' <=> IsSoundMemory(kid)
         /\ \A node : InRootSpace(node)' <=> InRootSpace(node)
<1>1. \A pairs : AsWords(pairs)' = AsWords(pairs)
  BY DEF AsWords, PairWords
<1>2. \A range, kid : IsRangeOf(range, kid)' <=> IsRangeOf(range, kid)
  BY <1>1 DEF IsRangeOf
<1>3. \A list : FitsCells(list)' <=> FitsCells(list)
  BY DEF FitsCells
<1>4. \A list, address : StartsAt(list, address)' <=> StartsAt(list, address)
  BY DEF StartsAt, PairWords
<1>5. \A kid : IsSoundReserved(kid)' <=> IsSoundReserved(kid)
  BY <1>3 DEF IsSoundReserved
<1>6. \A kid : IsSoundMemory(kid)' <=> IsSoundMemory(kid)
  BY <1>3, <1>4 DEF IsSoundMemory
<1>7. \A node : InRootSpace(node)' <=> InRootSpace(node)
  BY DEF InRootSpace
<1> QED
  BY <1>1, <1>2, <1>5, <1>6, <1>7

LEMMA InitInv ==
  ASSUME Init
  PROVE  Inv
<1>1. Shape
  BY DEF Init, Shape
<1>2. Stage
  BY DEF Init, Stage
<1>3. RegionsAreWhatTheNodesSay
  BY DEF Init, RegionsAreWhatTheNodesSay
<1>4. VerdictIsExact
  BY DEF Init, VerdictIsExact, Going
<1> QED
  BY <1>1, <1>2, <1>3, <1>4 DEF Inv
-----------------------------------------------------------------------------
(* What holds when a step reads no node.                                   *)
LEMMA NothingReadKeeps ==
  ASSUME Inv, UNCHANGED <<cells, reservedSeen, memorySeen, reserved, memory>>,
         Going' => Going
  PROVE  RegionsAreWhatTheNodesSay'
<1>1. \A range, kid : IsRangeOf(range, kid)' <=> IsRangeOf(range, kid)
  BY SameWords
<1>2. \A pairs : AsWords(pairs)' = AsWords(pairs)
  BY SameWords
<1> QED
  BY <1>1, <1>2 DEF Inv, RegionsAreWhatTheNodesSay

(* The nodes read so far are all sound.                                    *)
LEMMA SoundSoFar ==
  ASSUME Inv, out = "parsing"
  PROVE  /\ \A i \in 1..Len(reservedSeen) : IsSoundReserved(reservedSeen[i])
         /\ \A i \in 1..Len(memorySeen) : IsSoundMemory(memorySeen[i])
         /\ Len(reserved) = Len(reservedSeen) /\ Len(memory) = Len(memorySeen)
         /\ \A i \in 1..Len(reserved) : IsRangeOf(reserved[i].range, reservedSeen[i])
         /\ \A i \in 1..Len(memory) : AsWords(memory[i]) = memorySeen[i].reg
         /\ reservedSeen # <<>> => parent # None
         /\ parent # None /\ phase # "parent" => InRootSpace(parent)
  BY DEF Inv, Going, VerdictIsExact, RegionsAreWhatTheNodesSay

(* The verdict when a step reads no node and refuses none.                 *)
LEMMA VerdictKept ==
  ASSUME Inv, out = "parsing", UNCHANGED <<cells, parent, reservedSeen, memorySeen>>,
         out' \in {"parsing", "Ok"}, phase' = "parent" => out' = "parsing",
         parent # None /\ phase' # "parent" => InRootSpace(parent)
  PROVE  VerdictIsExact'
<1>1. /\ \A i \in 1..Len(reservedSeen) : IsSoundReserved(reservedSeen[i])
      /\ \A i \in 1..Len(memorySeen) : IsSoundMemory(memorySeen[i])
      /\ reservedSeen # <<>> => parent # None
  BY SoundSoFar
<1>2. /\ \A kid : IsSoundReserved(kid)' <=> IsSoundReserved(kid)
      /\ \A kid : IsSoundMemory(kid)' <=> IsSoundMemory(kid)
      /\ \A node : InRootSpace(node)' <=> InRootSpace(node)
  BY SameWords
<1> QED
  BY <1>1, <1>2 DEF VerdictIsExact, Going

(* The node is in the address space of the root exactly when its cells are *)
(* the root's and its `ranges` is empty.                                   *)
LEMMA SpaceOfParent ==
  ASSUME Inv, parent # None
  PROVE  InRootSpace(parent) <=> SameCells(parent) /\ parent.ranges = <<>>
<1>1. parent \in Parents
  BY DEF Inv, Shape
<1>2. parent.cells \in (Nat \cup {Invalid}) \X (Nat \cup {Invalid})
  BY <1>1, ParentsAssumption
<1>3. cells \in (0..2) \X (1..2)
  BY RootCellsAssumption DEF Inv, Shape
<1>4. parent.cells = cells <=> parent.cells[1] = cells[1] /\ parent.cells[2] = cells[2]
  BY <1>2, <1>3
<1> QED
  BY <1>4 DEF InRootSpace, SameCells

LEMMA CheckParentKeeps ==
  ASSUME Inv, CheckParent
  PROVE  Inv'
<1>1. /\ phase = "parent" /\ out = "parsing"
      /\ UNCHANGED <<cells, parent, reservedSeen, memorySeen, reserved, memory>>
      /\ IF parent = None THEN phase' = "memory" /\ UNCHANGED out
         ELSE IF SameCells(parent) /\ parent.ranges = <<>>
         THEN phase' = "reserved" /\ UNCHANGED out
         ELSE out' = "CellsMismatch" /\ UNCHANGED phase
  BY DEF CheckParent, seen
<1>2. Shape'
  BY <1>1 DEF Inv, Shape
<1>3. Stage'
  BY <1>1 DEF Inv, Stage
<1>4. RegionsAreWhatTheNodesSay'
  BY <1>1, NothingReadKeeps DEF Going
<1>5. parent # None => (InRootSpace(parent) <=> SameCells(parent) /\ parent.ranges = <<>>)
  BY SpaceOfParent
<1>6. CASE out' = "parsing"
  BY <1>1, <1>2, <1>3, <1>4, <1>5, <1>6, VerdictKept DEF Inv
<1>7. CASE out' # "parsing"
  <2>1. out' = "CellsMismatch" /\ phase' = "parent" /\ ~ InRootSpace(parent)
    BY <1>1, <1>5, <1>7
  <2>2. /\ reservedSeen' = <<>> /\ memorySeen' = <<>>
        /\ \A node : InRootSpace(node)' <=> InRootSpace(node)
    BY <1>1, SameWords DEF Inv, Stage
  <2>3. VerdictIsExact'
    BY <1>1, <2>1, <2>2 DEF VerdictIsExact, Going
  <2> QED
    BY <1>2, <1>3, <1>4, <2>3 DEF Inv
<1> QED
  BY <1>6, <1>7

LEMMA ReservedReadKeeps ==
  ASSUME Inv, ReservedRead
  PROVE  Inv'
<1>1. /\ phase = "reserved" /\ out = "parsing" /\ phase' = "memory" /\ out' = out
      /\ UNCHANGED <<cells, parent, reservedSeen, memorySeen, reserved, memory>>
  BY DEF ReservedRead, seen
<1>2. Shape' /\ Stage'
  BY <1>1 DEF Inv, Shape, Stage
<1>3. RegionsAreWhatTheNodesSay'
  BY <1>1, NothingReadKeeps DEF Going
<1>4. VerdictIsExact'
  BY <1>1, SoundSoFar, VerdictKept
<1> QED
  BY <1>2, <1>3, <1>4 DEF Inv

LEMMA MemoryReadKeeps ==
  ASSUME Inv, MemoryRead
  PROVE  Inv'
<1>1. /\ phase = "memory" /\ out = "parsing" /\ phase' = "done" /\ out' = "Ok"
      /\ UNCHANGED <<cells, parent, reservedSeen, memorySeen, reserved, memory>>
  BY DEF MemoryRead, seen
<1>2. Shape' /\ Stage'
  BY <1>1 DEF Inv, Shape, Stage
<1>3. RegionsAreWhatTheNodesSay'
  BY <1>1, NothingReadKeeps DEF Going
<1>4. VerdictIsExact'
  BY <1>1, SoundSoFar, VerdictKept
<1> QED
  BY <1>2, <1>3, <1>4 DEF Inv

LEMMA ReadReservedKeeps ==
  ASSUME Inv, NEW kid \in ReservedKids, ReadReserved(kid)
  PROVE  Inv'
<1>1. PICK error :
        /\ error = FirstError(ReservedChecks(kid))
        /\ phase = "reserved" /\ out = "parsing"
        /\ out' = IF error = "none" THEN out ELSE error
        /\ UNCHANGED <<cells, parent, phase, memorySeen, memory>>
        /\ reservedSeen' = Append(reservedSeen, kid)
        /\ IF out' = "parsing"
           THEN \E range \in RangeOf(kid) :
                  reserved' = Append(reserved, [range |-> range, usage |-> UsageOf(kid)])
           ELSE reserved' = reserved
  BY DEF ReadReserved, ReadKid
<1>2. /\ Shape /\ Stage /\ cells \in RootCells /\ reservedSeen \in Seq(ReservedKids)
      /\ reserved \in Seq(Regions) /\ parent # None
  BY <1>1 DEF Inv, Shape, Stage
<1>3. /\ \A i \in 1..Len(reservedSeen) : IsSoundReserved(reservedSeen[i])
      /\ \A i \in 1..Len(memorySeen) : IsSoundMemory(memorySeen[i])
      /\ Len(reserved) = Len(reservedSeen) /\ Len(memory) = Len(memorySeen)
      /\ \A i \in 1..Len(reserved) : IsRangeOf(reserved[i].range, reservedSeen[i])
      /\ \A i \in 1..Len(memory) : AsWords(memory[i]) = memorySeen[i].reg
      /\ parent # None /\ phase # "parent" => InRootSpace(parent)
  BY <1>1, SoundSoFar
<1>4. PICK n \in Nat : n = Len(reservedSeen)
  BY <1>2, LenProperties
<1>5. /\ reservedSeen' \in Seq(ReservedKids) /\ Len(reservedSeen') = n + 1
      /\ reservedSeen'[n + 1] = kid /\ \A i \in 1..n : reservedSeen'[i] = reservedSeen[i]
  BY <1>1, <1>2, <1>4, AppendProperties
<1>6. /\ \A range, k : IsRangeOf(range, k)' <=> IsRangeOf(range, k)
      /\ \A pairs : AsWords(pairs)' = AsWords(pairs)
      /\ \A k : IsSoundReserved(k)' <=> IsSoundReserved(k)
      /\ \A k : IsSoundMemory(k)' <=> IsSoundMemory(k)
      /\ \A node : InRootSpace(node)' <=> InRootSpace(node)
  BY <1>1, SameWords
<1>7. parent' # None /\ InRootSpace(parent)'
  BY <1>1, <1>2, <1>3, <1>6
<1>8. CASE IsSoundReserved(kid)
  <2>1. out' = "parsing"
    BY <1>1, <1>2, <1>8, ReservedVerdict
  <2>2. PICK range \in RangeOf(kid) :
          reserved' = Append(reserved, [range |-> range, usage |-> UsageOf(kid)])
    BY <1>1, <2>1
  <2>3. range \in Ranges /\ IsRangeOf(range, kid)
    BY <1>2, <1>8, RangeIsRight
  <2>4. PICK region \in Regions :
          region.range = range /\ reserved' = Append(reserved, region)
    <3>1. UsageOf(kid) \in {"NoMap", "Reusable", "Other"}
      BY DEF UsageOf
    <3>2. [range |-> range, usage |-> UsageOf(kid)] \in Regions
      BY <2>3, <3>1 DEF Regions
    <3> QED
      BY <2>2, <3>2
  <2>5. /\ reserved' \in Seq(Regions) /\ Len(reserved') = n + 1
        /\ reserved'[n + 1] = region /\ \A i \in 1..n : reserved'[i] = reserved[i]
    BY <1>2, <1>3, <1>4, <2>4, AppendProperties
  <2>6. Shape' /\ Stage'
    BY <1>1, <1>2, <1>5, <2>1, <2>5 DEF Shape, Stage
  <2>7. RegionsAreWhatTheNodesSay'
    <3>1. ASSUME NEW i \in 1..n + 1
          PROVE  IsRangeOf(reserved'[i].range, reservedSeen'[i])
      <4>1. CASE i = n + 1
        BY <1>5, <2>3, <2>4, <2>5, <4>1
      <4>2. CASE i \in 1..n
        BY <1>3, <1>4, <1>5, <2>5, <4>2
      <4> QED
        BY <4>1, <4>2
    <3> QED
      BY <1>1, <1>3, <1>5, <1>6, <2>5, <3>1 DEF RegionsAreWhatTheNodesSay
  <2>8. VerdictIsExact'
    <3>1. ASSUME NEW i \in 1..n + 1 PROVE IsSoundReserved(reservedSeen'[i])
      <4>1. CASE i = n + 1
        BY <1>5, <1>8, <4>1
      <4>2. CASE i \in 1..n
        BY <1>3, <1>4, <1>5, <4>2
      <4> QED
        BY <4>1, <4>2
    <3> QED
      BY <1>1, <1>3, <1>5, <1>6, <1>7, <2>1, <3>1 DEF VerdictIsExact, Going
  <2> QED
    BY <2>6, <2>7, <2>8 DEF Inv
<1>9. CASE ~ IsSoundReserved(kid)
  <2>1. out' \in Errors
    BY <1>1, <1>2, <1>9, ReservedVerdict DEF Errors
  <2>2. out' \notin {"parsing", "Ok", "CellsMismatch"} /\ reserved' = reserved
    BY <1>1, <2>1 DEF Errors
  <2>3. Shape' /\ Stage'
    BY <1>1, <1>2, <1>5, <2>1, <2>2 DEF Shape, Stage
  <2>4. RegionsAreWhatTheNodesSay'
    BY <2>2 DEF RegionsAreWhatTheNodesSay, Going
  <2>5. n + 1 \in 1..Len(reservedSeen') /\ ~ IsSoundReserved(reservedSeen'[n + 1])
    BY <1>5, <1>9
  <2>6. VerdictIsExact'
    BY <1>1, <1>6, <1>7, <2>2, <2>5 DEF VerdictIsExact, Going
  <2> QED
    BY <2>3, <2>4, <2>6 DEF Inv
<1> QED
  BY <1>8, <1>9

LEMMA ReadMemoryKeeps ==
  ASSUME Inv, NEW kid \in MemoryKids, ReadMemory(kid)
  PROVE  Inv'
<1>1. PICK error :
        /\ error = FirstError(MemoryChecks(kid))
        /\ phase = "memory" /\ out = "parsing"
        /\ out' = IF error = "none" THEN out ELSE error
        /\ UNCHANGED <<cells, parent, phase, reservedSeen, reserved>>
        /\ memorySeen' = Append(memorySeen, kid)
        /\ memory' = IF out' = "parsing" THEN Append(memory, Pairs(kid.reg)) ELSE memory
  BY DEF ReadMemory, ReadKid
<1>2. /\ Shape /\ Stage /\ cells \in RootCells /\ memorySeen \in Seq(MemoryKids)
      /\ memory \in Seq(PairSeqs)
  BY <1>1 DEF Inv, Shape
<1>3. /\ \A i \in 1..Len(reservedSeen) : IsSoundReserved(reservedSeen[i])
      /\ \A i \in 1..Len(memorySeen) : IsSoundMemory(memorySeen[i])
      /\ Len(reserved) = Len(reservedSeen) /\ Len(memory) = Len(memorySeen)
      /\ \A i \in 1..Len(reserved) : IsRangeOf(reserved[i].range, reservedSeen[i])
      /\ \A i \in 1..Len(memory) : AsWords(memory[i]) = memorySeen[i].reg
      /\ reservedSeen # <<>> => parent # None
      /\ parent # None /\ phase # "parent" => InRootSpace(parent)
  BY <1>1, SoundSoFar
<1>4. PICK n \in Nat : n = Len(memorySeen)
  BY <1>2, LenProperties
<1>5. /\ memorySeen' \in Seq(MemoryKids) /\ Len(memorySeen') = n + 1
      /\ memorySeen'[n + 1] = kid /\ \A i \in 1..n : memorySeen'[i] = memorySeen[i]
  BY <1>1, <1>2, <1>4, AppendProperties
<1>6. /\ \A range, k : IsRangeOf(range, k)' <=> IsRangeOf(range, k)
      /\ \A pairs : AsWords(pairs)' = AsWords(pairs)
      /\ \A k : IsSoundReserved(k)' <=> IsSoundReserved(k)
      /\ \A k : IsSoundMemory(k)' <=> IsSoundMemory(k)
      /\ \A node : InRootSpace(node)' <=> InRootSpace(node)
  BY <1>1, SameWords
<1>7. CASE IsSoundMemory(kid)
  <2>1. out' = "parsing"
    BY <1>1, <1>2, <1>7, MemoryVerdict
  <2>2. PICK pairs \in PairSeqs :
          pairs = Pairs(kid.reg) /\ AsWords(pairs) = kid.reg
    <3>1. kid.reg \in Words /\ IsPairs(kid.reg)
      <4>1. kid.reg \in Lists /\ kid.reg # None /\ FitsCells(kid.reg)
        BY <1>7, MemoryKid DEF IsSoundMemory
      <4> QED
        BY <1>2, <4>1, FitsIsPairs DEF Lists
    <3> QED
      BY <1>2, <3>1, PairsAre, PairsComeBack
  <2>3. memory' = Append(memory, pairs)
    BY <1>1, <2>1, <2>2
  <2>4. /\ memory' \in Seq(PairSeqs) /\ Len(memory') = n + 1
        /\ memory'[n + 1] = pairs /\ \A i \in 1..n : memory'[i] = memory[i]
    BY <1>2, <1>3, <1>4, <2>3, AppendProperties
  <2>5. Shape' /\ Stage'
    BY <1>1, <1>2, <1>5, <2>1, <2>4 DEF Shape, Stage
  <2>6. RegionsAreWhatTheNodesSay'
    <3>1. ASSUME NEW i \in 1..n + 1
          PROVE  AsWords(memory'[i]) = memorySeen'[i].reg
      <4>1. CASE i = n + 1
        BY <1>5, <2>2, <2>4, <4>1
      <4>2. CASE i \in 1..n
        BY <1>3, <1>4, <1>5, <2>4, <4>2
      <4> QED
        BY <4>1, <4>2
    <3> QED
      BY <1>1, <1>3, <1>5, <1>6, <2>4, <3>1 DEF RegionsAreWhatTheNodesSay
  <2>7. VerdictIsExact'
    <3>1. ASSUME NEW i \in 1..n + 1 PROVE IsSoundMemory(memorySeen'[i])
      <4>1. CASE i = n + 1
        BY <1>5, <1>7, <4>1
      <4>2. CASE i \in 1..n
        BY <1>3, <1>4, <1>5, <4>2
      <4> QED
        BY <4>1, <4>2
    <3> QED
      BY <1>1, <1>3, <1>5, <1>6, <2>1, <3>1 DEF VerdictIsExact, Going
  <2> QED
    BY <2>5, <2>6, <2>7 DEF Inv
<1>8. CASE ~ IsSoundMemory(kid)
  <2>1. out' \in Errors
    BY <1>1, <1>2, <1>8, MemoryVerdict DEF Errors
  <2>2. out' \notin {"parsing", "Ok", "CellsMismatch"} /\ memory' = memory
    BY <1>1, <2>1 DEF Errors
  <2>3. Shape' /\ Stage'
    BY <1>1, <1>2, <1>5, <2>1, <2>2 DEF Shape, Stage
  <2>4. RegionsAreWhatTheNodesSay'
    BY <2>2 DEF RegionsAreWhatTheNodesSay, Going
  <2>5. n + 1 \in 1..Len(memorySeen') /\ ~ IsSoundMemory(memorySeen'[n + 1])
    BY <1>5, <1>8
  <2>6. VerdictIsExact'
    BY <1>1, <1>3, <1>6, <2>2, <2>5 DEF VerdictIsExact, Going
  <2> QED
    BY <2>3, <2>4, <2>6 DEF Inv
<1> QED
  BY <1>7, <1>8
-----------------------------------------------------------------------------
LEMMA NextInv ==
  ASSUME Inv, [Next]_vars
  PROVE  Inv'
<1>1. CASE CheckParent
  BY <1>1, CheckParentKeeps
<1>2. CASE \E kid \in ReservedKids : ReadReserved(kid)
  BY <1>2, ReadReservedKeeps
<1>3. CASE ReservedRead
  BY <1>3, ReservedReadKeeps
<1>4. CASE \E kid \in MemoryKids : ReadMemory(kid)
  BY <1>4, ReadMemoryKeeps
<1>5. CASE MemoryRead
  BY <1>5, MemoryReadKeeps
<1>6. CASE UNCHANGED vars
  <2>1. UNCHANGED <<cells, parent, phase, reservedSeen, memorySeen, reserved, memory, out>>
    BY <1>6 DEF vars, seen
  <2>2. Shape' /\ Stage'
    BY <2>1 DEF Inv, Shape, Stage
  <2>3. RegionsAreWhatTheNodesSay'
    BY <2>1, NothingReadKeeps DEF Going
  <2>4. /\ \A kid : IsSoundReserved(kid)' <=> IsSoundReserved(kid)
        /\ \A kid : IsSoundMemory(kid)' <=> IsSoundMemory(kid)
        /\ \A node : InRootSpace(node)' <=> InRootSpace(node)
    BY <2>1, SameWords
  <2>5. VerdictIsExact'
    BY <2>1, <2>4 DEF Inv, VerdictIsExact, Going
  <2> QED
    BY <2>2, <2>3, <2>5 DEF Inv
<1> QED
  BY <1>1, <1>2, <1>3, <1>4, <1>5, <1>6 DEF Next

LEMMA SpecInv == Spec => []Inv
<1>1. Init => Inv
  BY InitInv
<1>2. Inv /\ [Next]_vars => Inv'
  BY NextInv
<1> QED
  BY <1>1, <1>2, PTL DEF Spec
-----------------------------------------------------------------------------
(* The type invariant: the ranges of a dynamic region are sorted           *)
(* (src/src/node/reserved_memory.rs).                                      *)
THEOREM TypeCorrect == Spec => []TypeOK
<1>1. Inv => TypeOK
  BY InvTypeOK DEF Inv
<1> QED
  BY <1>1, SpecInv, PTL

(* Whatever the nodes and the base of the words, the regions written back  *)
(* with the root's cells are word for word what the nodes say, and no node *)
(* is left out.                                                            *)
THEOREM RegionsAlwaysWhatTheNodesSay == Spec => []RegionsAreWhatTheNodesSay
<1>1. Inv => RegionsAreWhatTheNodesSay
  BY DEF Inv
<1> QED
  BY <1>1, SpecInv, PTL

(* The memory of a system is refused exactly when a node that was read is  *)
(* not right, or `/reserved-memory` is not in the root's address space.    *)
THEOREM VerdictAlwaysExact == Spec => []VerdictIsExact
<1>1. Inv => VerdictIsExact
  BY DEF Inv
<1> QED
  BY <1>1, SpecInv, PTL
=============================================================================
