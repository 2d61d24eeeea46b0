---------------------------- MODULE BytesProofs ----------------------------
(***************************************************************************)
(* Proofs about what is read of bytes: the header and the tokens of a blob *)
(* (Blob), for words, blocks and names of any length, and the values of    *)
(* properties (PropertyValues), for values and groups of any length.       *)
(***************************************************************************)
EXTENDS Blob, PropertyValues, CommonLemmas, FiniteSetTheorems

-----------------------------------------------------------------------------
(* The bytes of a word, and the numbers they make.                         *)
LEMMA WordFacts ==
  ASSUME NEW w \in Word
  PROVE  /\ \A i \in 1..4 : w[i] \in Byte /\ w[i] \in 0..255
         /\ Number(w) \in Nat
         /\ LengthWord(Number(w)) = w
<1>1. \A i \in 1..4 : w[i] \in Byte /\ w[i] \in 0..255
  BY ByteAssumption DEF Word, ElementWidth
<1>2. PICK a \in 0..255, b \in 0..255, c \in 0..255, d \in 0..255 :
        w[1] = a /\ w[2] = b /\ w[3] = c /\ w[4] = d
  <2>1. w[1] \in 0..255 /\ w[2] \in 0..255 /\ w[3] \in 0..255 /\ w[4] \in 0..255
    BY <1>1
  <2> QED
    BY <2>1
<1>3. Number(w) = ((a * 256 + b) * 256 + c) * 256 + d
  BY <1>2 DEF Number
<1>4. Number(w) \in Nat
  BY <1>3
<1> DEFINE n == Number(w)
<1>5. n % 256 = d /\ n \div 256 = (a * 256 + b) * 256 + c
  BY <1>3
<1>6. (n \div 256) % 256 = c /\ (n \div 256) \div 256 = a * 256 + b
  BY <1>5
<1>7. (a * 256 + b) \div 256 = a /\ (a * 256 + b) % 256 = b
  OBVIOUS
<1> HIDE DEF n
<1>8. LengthWord(n) = <<a, b, c, d>>
  BY <1>5, <1>6, <1>7 DEF LengthWord
<1>9. w = <<a, b, c, d>>
  BY <1>2 DEF Word, ElementWidth
<1> QED
  BY <1>1, <1>4, <1>8, <1>9 DEF n

LEMMA FieldIsNat ==
  ASSUME NEW d \in Seq(Word), NEW i \in 1..10
  PROVE  /\ Field(d, i) \in Nat
         /\ Field(d, i) > 0 => i <= Len(d) /\ Field(d, i) = Number(d[i])
<1>1. Len(d) \in Nat
  BY LenProperties
<1>2. CASE i <= Len(d)
  <2>1. d[i] \in Word
    BY <1>1, <1>2, ElementOfSeq
  <2> QED
    BY <2>1, <1>2, WordFacts DEF Field
<1>3. CASE ~ (i <= Len(d))
  BY <1>3 DEF Field
<1> QED
  BY <1>2, <1>3

(* The fields of a header are numbers.                                     *)
LEMMA FieldsAreNumbers ==
  ASSUME NEW d \in Seq(Word)
  PROVE  /\ TotalSize(d) \in Nat /\ StructOffset(d) \in Nat /\ StringsOffset(d) \in Nat
         /\ MemRsvmapOffset(d) \in Nat /\ LastCompatible(d) \in Nat
         /\ StringsSize(d) \in Nat /\ StructSize(d) \in Nat
  BY FieldIsNat DEF TotalSize, StructOffset, StringsOffset, MemRsvmapOffset,
                    LastCompatible, StringsSize, StructSize

(* Where a byte of a slice is: the bytes that a whole number of words      *)
(* precede are the bytes of the words after those.                         *)
LEMMA ByteOfWords ==
  ASSUME NEW ws \in Seq(Word), NEW i \in 1..Len(ws) * 4
  PROVE  /\ ((i - 1) \div 4) + 1 \in 1..Len(ws)
         /\ ((i - 1) % 4) + 1 \in 1..4
         /\ ByteAt([bytes |-> ws, padding |-> 0], i)
              = ws[((i - 1) \div 4) + 1][((i - 1) % 4) + 1]
         /\ ByteAt([bytes |-> ws, padding |-> 0], i) \in Byte
<1>1. Len(ws) \in Nat
  BY LenProperties
<1>2. ((i - 1) \div 4) + 1 \in 1..Len(ws) /\ ((i - 1) % 4) + 1 \in 1..4
  BY <1>1
<1>3. ByteAt([bytes |-> ws, padding |-> 0], i)
        = ws[((i - 1) \div 4) + 1][((i - 1) % 4) + 1]
  BY DEF ByteAt, ElementWidth
<1>4. ws[((i - 1) \div 4) + 1] \in Word
  BY <1>2, ElementOfSeq
<1> QED
  BY <1>2, <1>3, <1>4, WordFacts

LEMMA BytesAfterWords ==
  ASSUME NEW k \in Nat, NEW i \in Nat \ {0}
  PROVE  /\ (4 * k + i - 1) \div 4 = k + ((i - 1) \div 4)
         /\ (4 * k + i - 1) % 4 = (i - 1) % 4
  OBVIOUS

(* Dividing by the width of a word or of an element, rounding up.          *)
LEMMA RoundedUp ==
  ASSUME NEW n \in Nat
  PROVE  /\ DivCeil(n, 4) \in Nat
         /\ n <= DivCeil(n, 4) * 4 /\ DivCeil(n, 4) * 4 < n + 4
         /\ 2 * DivCeil(n, 8) \in Nat
         /\ 2 * DivCeil(n, 8) * 4 = n + ((8 - (n % 8)) % 8)
  BY DEF DivCeil
-----------------------------------------------------------------------------
(* The tests of the header, one by one.                                    *)
HeaderCheck == [error : HeaderErrors, ok : BOOLEAN]

HeaderTests(d) ==
  /\ d # <<>> /\ d[1] = Magic
  /\ IsUsize(TotalSize(d))
  /\ DtWords(d) <= Len(d) /\ HeaderWords <= DtWords(d)
  /\ IsUsize(StructOffset(d)) /\ IsUsize(StringsOffset(d)) /\ IsUsize(MemRsvmapOffset(d))
  /\ LastCompatible(d) <= VersionParsed
  /\ IsUsize(StringsSize(d)) /\ IsUsize(StructSize(d))
  /\ IsAligned(d)
  /\ StructIndex(d) + StructElems(d) <= DtWords(d)
  /\ IsUsize(StringsOffset(d) + StringsSize(d))
  /\ StringsFit(d)

(* The first of them that fails, if one does, is one of these.             *)
LEMMA HeaderVerdict ==
  ASSUME NEW d \in Seq(Word), NEW e, e = FirstError(HeaderChecks(d))
  PROVE  \/ e = "none" /\ HeaderTests(d)
         \/ e = "EoF" /\ d = <<>>
         \/ e = "Magic" /\ d # <<>> /\ d[1] # Magic
         \/ e = "Size" /\ ~ IsUsize(TotalSize(d))
         \/ e = "EoF" /\ ~ (DtWords(d) <= Len(d))
         \/ e = "EoF" /\ ~ (HeaderWords <= DtWords(d))
         \/ e = "Size" /\ ~ (/\ IsUsize(StructOffset(d)) /\ IsUsize(StringsOffset(d))
                             /\ IsUsize(MemRsvmapOffset(d)))
         \/ e = "NewerVersion" /\ ~ (LastCompatible(d) <= VersionParsed)
         \/ e = "Size" /\ ~ (IsUsize(StringsSize(d)) /\ IsUsize(StructSize(d)))
         \/ e = "Alignment" /\ ~ IsAligned(d)
         \/ /\ e = "StructIndex" /\ IsAligned(d)
            /\ ~ (StructIndex(d) + StructElems(d) <= DtWords(d))
         \/ e = "Size" /\ ~ IsUsize(StringsOffset(d) + StringsSize(d))
         \/ e = "StringsIndex" /\ ~ StringsFit(d)
<1> DEFINE c1 == Check("EoF", d # <<>>)
           c2 == Check("Magic", d # <<>> => d[1] = Magic)
           c3 == Check("Size", IsUsize(TotalSize(d)))
           c4 == Check("EoF", DtWords(d) <= Len(d))
           c5 == Check("EoF", HeaderWords <= DtWords(d))
           c6 == Check("Size", /\ IsUsize(StructOffset(d)) /\ IsUsize(StringsOffset(d))
                               /\ IsUsize(MemRsvmapOffset(d)))
           c7 == Check("NewerVersion", LastCompatible(d) <= VersionParsed)
           c8 == Check("Size", IsUsize(StringsSize(d)) /\ IsUsize(StructSize(d)))
           c9 == Check("Alignment", IsAligned(d))
           c10 == Check("StructIndex", StructIndex(d) + StructElems(d) <= DtWords(d))
           c11 == Check("Size", IsUsize(StringsOffset(d) + StringsSize(d)))
           c12 == Check("StringsIndex", StringsFit(d))
<1>1. /\ c1 \in HeaderCheck /\ c2 \in HeaderCheck /\ c3 \in HeaderCheck
      /\ c4 \in HeaderCheck /\ c5 \in HeaderCheck /\ c6 \in HeaderCheck
  BY DEF Check, HeaderCheck, HeaderErrors, IsUsize
<1>2. /\ c7 \in HeaderCheck /\ c8 \in HeaderCheck /\ c9 \in HeaderCheck
      /\ c10 \in HeaderCheck /\ c11 \in HeaderCheck /\ c12 \in HeaderCheck
  BY DEF Check, HeaderCheck, HeaderErrors, IsUsize, IsAligned, StringsFit
<1>3. HeaderChecks(d) = <<c1, c2, c3, c4, c5, c6, c7, c8, c9, c10, c11, c12>>
  BY DEF HeaderChecks
<1>4. /\ c1.error = "EoF" /\ c2.error = "Magic" /\ c3.error = "Size" /\ c4.error = "EoF"
      /\ c5.error = "EoF" /\ c6.error = "Size" /\ c7.error = "NewerVersion"
      /\ c8.error = "Size" /\ c9.error = "Alignment" /\ c10.error = "StructIndex"
      /\ c11.error = "Size" /\ c12.error = "StringsIndex"
  BY DEF Check
<1>5. /\ c1.ok <=> d # <<>>
      /\ c2.ok <=> (d # <<>> => d[1] = Magic)
      /\ c3.ok <=> IsUsize(TotalSize(d))
      /\ c4.ok <=> DtWords(d) <= Len(d)
      /\ c5.ok <=> HeaderWords <= DtWords(d)
      /\ c6.ok <=> /\ IsUsize(StructOffset(d)) /\ IsUsize(StringsOffset(d))
                   /\ IsUsize(MemRsvmapOffset(d))
  BY DEF Check
<1>6. /\ c7.ok <=> LastCompatible(d) <= VersionParsed
      /\ c8.ok <=> IsUsize(StringsSize(d)) /\ IsUsize(StructSize(d))
      /\ c9.ok <=> IsAligned(d)
      /\ c10.ok <=> StructIndex(d) + StructElems(d) <= DtWords(d)
      /\ c11.ok <=> IsUsize(StringsOffset(d) + StringsSize(d))
      /\ c12.ok <=> StringsFit(d)
  BY DEF Check
<1> HIDE DEF c1, c2, c3, c4, c5, c6, c7, c8, c9, c10, c11, c12
<1>7. PICK s \in Seq(HeaderCheck) :
        /\ s = HeaderChecks(d) /\ Len(s) = 12
        /\ s[1] = c1 /\ s[2] = c2 /\ s[3] = c3 /\ s[4] = c4 /\ s[5] = c5 /\ s[6] = c6
        /\ s[7] = c7 /\ s[8] = c8 /\ s[9] = c9 /\ s[10] = c10 /\ s[11] = c11 /\ s[12] = c12
  <2> HIDE DEF HeaderCheck
  <2> DEFINE t == <<c1, c2, c3, c4, c5, c6, c7, c8, c9, c10, c11, c12>>
  <2>1. t \in Seq(HeaderCheck) /\ Len(t) = 12
    BY <1>1, <1>2
  <2>2. /\ t[1] = c1 /\ t[2] = c2 /\ t[3] = c3 /\ t[4] = c4 /\ t[5] = c5 /\ t[6] = c6
        /\ t[7] = c7 /\ t[8] = c8 /\ t[9] = c9 /\ t[10] = c10 /\ t[11] = c11 /\ t[12] = c12
    OBVIOUS
  <2>3. t = HeaderChecks(d)
    BY <1>3
  <2> HIDE DEF t
  <2> QED
    BY <2>1, <2>2, <2>3
<1>8. 1..12 = {1, 2, 3, 4, 5, 6, 7, 8, 9, 10, 11, 12}
  OBVIOUS
<1>9. CASE e = "none" /\ \A i \in 1..Len(s) : s[i].ok
  <2>1. /\ c1.ok /\ c2.ok /\ c3.ok /\ c4.ok /\ c5.ok /\ c6.ok
        /\ c7.ok /\ c8.ok /\ c9.ok /\ c10.ok /\ c11.ok /\ c12.ok
    BY <1>7, <1>8, <1>9
  <2>2. HeaderTests(d)
    BY <1>5, <1>6, <2>1 DEF HeaderTests
  <2> QED
    BY <1>9, <2>2
<1>10. CASE \E i \in 1..Len(s) : IsFirstFailure(s, i) /\ e = s[i].error
  <2>1. PICK i \in 1..12 : IsFirstFailure(s, i) /\ e = s[i].error
    BY <1>7, <1>10
  <2>2. ~ s[i].ok /\ (i > 1 => s[1].ok) /\ (i > 9 => s[9].ok)
    BY <2>1 DEF IsFirstFailure
  <2>3. \/ ~ c1.ok /\ e = "EoF"
        \/ c1.ok /\ ~ c2.ok /\ e = "Magic"
        \/ (~ c3.ok \/ ~ c6.ok \/ ~ c8.ok \/ ~ c11.ok) /\ e = "Size"
        \/ (~ c4.ok \/ ~ c5.ok) /\ e = "EoF"
        \/ ~ c7.ok /\ e = "NewerVersion"
        \/ ~ c9.ok /\ e = "Alignment"
        \/ c9.ok /\ ~ c10.ok /\ e = "StructIndex"
        \/ ~ c12.ok /\ e = "StringsIndex"
    BY <1>4, <1>7, <1>8, <2>1, <2>2
  <2> QED
    BY <1>5, <1>6, <2>3
<1>11. \/ e = "none" /\ \A i \in 1..Len(s) : s[i].ok
       \/ \E i \in 1..Len(s) : IsFirstFailure(s, i) /\ e = s[i].error
  <2> HIDE DEF HeaderCheck
  <2> QED
    BY <1>7, FirstErrorProperties
<1> QED
  BY <1>9, <1>10, <1>11
-----------------------------------------------------------------------------
(* The end of the total size, rounded up to an element of the blob.        *)
EndOf(d) == TotalSize(d) + ((8 - (TotalSize(d) % 8)) % 8)

LEMMA EndIsWords ==
  ASSUME NEW d \in Seq(Word)
  PROVE  /\ EndOf(d) = DtWords(d) * 4 /\ DtWords(d) \in Nat
         /\ DtWords(d) % 2 = 0 /\ TotalSize(d) <= EndOf(d) /\ EndOf(d) < TotalSize(d) + 8
<1>1. PICK n \in Nat : n = TotalSize(d)
  BY FieldsAreNumbers
<1>2. 2 * DivCeil(n, 8) * 4 = n + ((8 - (n % 8)) % 8) /\ 2 * DivCeil(n, 8) \in Nat
  BY RoundedUp
<1>3. (2 * DivCeil(n, 8)) % 2 = 0
  BY DEF DivCeil
<1>4. 0 <= (8 - (n % 8)) % 8 /\ (8 - (n % 8)) % 8 < 8
  OBVIOUS
<1> QED
  BY <1>1, <1>2, <1>3, <1>4 DEF EndOf, DtWords, ElementWidth

(* The structure block begins and ends with a word.                        *)
LEMMA StructWords ==
  ASSUME NEW d \in Seq(Word), IsAligned(d)
  PROVE  /\ StructIndex(d) \in Nat /\ StructElems(d) \in Nat
         /\ StructOffset(d) = 4 * StructIndex(d) /\ StructSize(d) = 4 * StructElems(d)
<1>1. PICK o \in Nat, n \in Nat : o = StructOffset(d) /\ n = StructSize(d)
  BY FieldsAreNumbers
<1>2. o % 4 = 0 /\ n % 4 = 0
  BY <1>1 DEF IsAligned, ElementWidth
<1>3. StructIndex(d) = o \div 4 /\ StructElems(d) = n \div 4
  BY <1>1 DEF StructIndex, StructElems, ElementWidth
<1>4. o = 4 * (o \div 4) /\ n = 4 * (n \div 4) /\ o \div 4 \in Nat /\ n \div 4 \in Nat
  BY <1>2
<1> QED
  BY <1>1, <1>3, <1>4

(* An accepted header cuts the structure block out of the blob.            *)
LEMMA StructBlockCut ==
  ASSUME NEW d \in Seq(Word), HeaderTests(d)
  PROVE  /\ StructBlock(d) \in Seq(Word)
         /\ Len(StructBlock(d)) * 4 = StructSize(d)
         /\ StructOffset(d) + StructSize(d) <= EndOf(d)
         /\ EndOf(d) <= Len(d) * 4
         /\ \A i \in 1..StructSize(d) :
              ByteAt([bytes |-> StructBlock(d), padding |-> 0], i)
                = ByteAt([bytes |-> d, padding |-> 0], StructOffset(d) + i)
<1>1. PICK k \in Nat, n \in Nat : k = StructIndex(d) /\ n = StructElems(d)
  BY StructWords DEF HeaderTests
<1>2. StructOffset(d) = 4 * k /\ StructSize(d) = 4 * n
  BY <1>1, StructWords DEF HeaderTests
<1>3. /\ Len(d) \in Nat /\ k + n <= DtWords(d) /\ DtWords(d) <= Len(d)
      /\ DtWords(d) \in Nat /\ EndOf(d) = DtWords(d) * 4
  BY <1>1, EndIsWords, LenProperties DEF HeaderTests
<1>4. \A i \in k + 1..k + n : d[i] \in Word
  BY <1>3, ElementOfSeq
<1>5. /\ SubSeq(d, k + 1, k + n) \in Seq(Word)
      /\ Len(SubSeq(d, k + 1, k + n)) = IF k + 1 <= k + n THEN k + n - (k + 1) + 1 ELSE 0
      /\ \A i \in 1..k + n - (k + 1) + 1 : SubSeq(d, k + 1, k + n)[i] = d[k + 1 + i - 1]
  BY <1>4, SubSeqProperties
<1>6. PICK b \in Seq(Word) : b = StructBlock(d)
  BY <1>1, <1>5 DEF StructBlock
<1>7. Len(b) = n /\ \A i \in 1..n : b[i] = d[k + i]
  <2>1. b = SubSeq(d, k + 1, k + n)
    BY <1>1, <1>6 DEF StructBlock
  <2>2. k + n - (k + 1) + 1 = n /\ (IF k + 1 <= k + n THEN n ELSE 0) = n
    OBVIOUS
  <2>3. \A i \in 1..n : k + 1 + i - 1 = k + i
    OBVIOUS
  <2> QED
    BY <1>5, <2>1, <2>2, <2>3
<1>8. ASSUME NEW i \in 1..4 * n
      PROVE  ByteAt([bytes |-> b, padding |-> 0], i)
               = ByteAt([bytes |-> d, padding |-> 0], 4 * k + i)
  <2>1. /\ (4 * k + i - 1) \div 4 = k + ((i - 1) \div 4)
        /\ (4 * k + i - 1) % 4 = (i - 1) % 4
    BY BytesAfterWords
  <2>2. PICK w \in Int : w = (i - 1) \div 4
    OBVIOUS
  <2>3. ((i - 1) \div 4) + 1 \in 1..n
    BY <1>7, ByteOfWords
  <2>4. ByteAt([bytes |-> b, padding |-> 0], i) = b[w + 1][((i - 1) % 4) + 1]
    BY <2>2 DEF ByteAt, ElementWidth
  <2>5. ByteAt([bytes |-> d, padding |-> 0], 4 * k + i) = d[k + w + 1][((i - 1) % 4) + 1]
    BY <2>1, <2>2 DEF ByteAt, ElementWidth
  <2>6. w + 1 \in 1..n /\ k + (w + 1) = k + w + 1
    BY <2>2, <2>3
  <2>7. b[w + 1] = d[k + w + 1]
    BY <1>7, <2>6
  <2> QED
    BY <2>4, <2>5, <2>7
<1> QED
  BY <1>2, <1>3, <1>6, <1>7, <1>8

(* ... and the strings block, to the byte.                                 *)
LEMMA StringsCut ==
  ASSUME NEW d \in Seq(Word), HeaderTests(d)
  PROVE  /\ Strings(d) \in Seq(Byte)
         /\ Len(Strings(d)) = StringsSize(d)
         /\ StringsOffset(d) + StringsSize(d) <= EndOf(d)
         /\ \A i \in 1..StringsSize(d) :
              Strings(d)[i] = ByteAt([bytes |-> d, padding |-> 0], StringsOffset(d) + i)
<1>1. PICK o \in Nat, n \in Nat : o = StringsOffset(d) /\ n = StringsSize(d)
  BY FieldsAreNumbers
<1>2. /\ Len(d) \in Nat /\ DtWords(d) <= Len(d) /\ DtWords(d) \in Nat
      /\ EndOf(d) = DtWords(d) * 4 /\ o + n <= DtWords(d) * 4
  BY <1>1, EndIsWords, LenProperties DEF HeaderTests, StringsFit, ElementWidth
<1> DEFINE byte(i) == ByteAt([bytes |-> d, padding |-> 0], o + i)
<1>3. ASSUME NEW i \in 1..n PROVE byte(i) \in Byte
  <2>1. o + i \in 1..Len(d) * 4
    BY <1>2
  <2> QED
    BY <2>1, ByteOfWords
<1>4. Strings(d) = [i \in 1..n |-> byte(i)]
  BY <1>1 DEF Strings
<1> HIDE DEF byte
<1>5. [i \in 1..n |-> byte(i)] \in Seq(Byte) /\ Len([i \in 1..n |-> byte(i)]) = n
  BY <1>3
<1>6. \A i \in 1..n : Strings(d)[i] = byte(i)
  BY <1>4
<1> QED
  BY <1>1, <1>2, <1>4, <1>5, <1>6 DEF byte
-----------------------------------------------------------------------------
(* What is wrong with a header that is refused, in terms of its bytes.     *)
Explained(d, e) ==
  CASE e = "none"         -> TRUE
    [] e = "Magic"        -> d[1] # Magic
    [] e = "EoF"          -> Len(d) * 4 < 40 \/ TotalSize(d) <= 32
                             \/ Len(d) * 4 < TotalSize(d)
    [] e = "Size"         -> \/ \E i \in {2, 3, 4, 5, 9, 10} : Number(d[i]) > UsizeMax
                             \/ StringsOffset(d) + StringsSize(d) > UsizeMax
    [] e = "NewerVersion" -> LastCompatible(d) > VersionParsed
    [] e = "Alignment"    -> StructOffset(d) % 4 # 0 \/ StructSize(d) % 4 # 0
    [] e = "StructIndex"  -> StructOffset(d) + StructSize(d) > EndOf(d)
    [] e = "StringsIndex" -> StringsOffset(d) + StringsSize(d) > EndOf(d)

(* A field that is too large is there.                                     *)
LEMMA LargeField ==
  ASSUME NEW d \in Seq(Word), NEW i \in 1..10, ~ IsUsize(Field(d, i))
  PROVE  Number(d[i]) > UsizeMax
<1>1. /\ Field(d, i) \in Nat
      /\ Field(d, i) > 0 => i <= Len(d) /\ Field(d, i) = Number(d[i])
  BY FieldIsNat
<1>2. PICK f \in Nat, u \in Nat : f = Field(d, i) /\ u = UsizeMax
  BY <1>1, HeaderAssumption
<1>3. f > u /\ f > 0
  BY <1>2 DEF IsUsize
<1> QED
  BY <1>1, <1>2, <1>3

LEMMA RefusalExplained ==
  ASSUME NEW d \in Seq(Word), Len(d) % 2 = 0, NEW e, e = FirstError(HeaderChecks(d))
  PROVE  e \in HeaderErrors \cup {"none"} /\ Explained(d, e)
<1>1. /\ Len(d) \in Nat /\ EndOf(d) = DtWords(d) * 4 /\ DtWords(d) \in Nat
      /\ DtWords(d) % 2 = 0 /\ TotalSize(d) <= EndOf(d) /\ EndOf(d) < TotalSize(d) + 8
  BY EndIsWords, LenProperties
<1>2. /\ TotalSize(d) \in Nat /\ StringsOffset(d) \in Nat /\ StringsSize(d) \in Nat
      /\ LastCompatible(d) \in Nat /\ StructOffset(d) \in Nat /\ StructSize(d) \in Nat
  BY FieldsAreNumbers
<1>3. CASE e = "none"
  BY <1>3 DEF Explained
<1>4. CASE e = "Magic" /\ d[1] # Magic
  BY <1>4 DEF Explained, HeaderErrors
<1>5. CASE e = "EoF" /\ (d = <<>> \/ ~ (DtWords(d) <= Len(d)) \/ ~ (HeaderWords <= DtWords(d)))
  <2>1. Len(d) * 4 < 40 \/ TotalSize(d) <= 32 \/ Len(d) * 4 < TotalSize(d)
    <3>1. PICK m \in Nat, n \in Nat : m = Len(d) /\ n = DtWords(d)
      BY <1>1
    <3>2. m % 2 = 0 /\ n % 2 = 0
      BY <1>1, <3>1
    <3>3. CASE d = <<>>
      BY <3>3
    <3>4. CASE ~ (n <= m)
      <4>1. n >= m + 2
        BY <3>2, <3>4
      <4> QED
        BY <1>1, <1>2, <3>1, <4>1
    <3>5. CASE ~ (10 <= n)
      <4>1. n <= 8
        BY <3>2, <3>5
      <4> QED
        BY <1>1, <1>2, <3>1, <4>1
    <3> QED
      BY <1>5, <3>1, <3>3, <3>4, <3>5 DEF HeaderWords
  <2> QED
    BY <1>5, <2>1 DEF Explained, HeaderErrors
<1>6. CASE e = "Size" /\ \/ ~ IsUsize(TotalSize(d)) \/ ~ IsUsize(StructOffset(d))
                         \/ ~ IsUsize(StringsOffset(d)) \/ ~ IsUsize(MemRsvmapOffset(d))
                         \/ ~ IsUsize(StringsSize(d)) \/ ~ IsUsize(StructSize(d))
  <2>1. \E i \in {2, 3, 4, 5, 9, 10} : ~ IsUsize(Field(d, i))
    BY <1>6
       DEF TotalSize, StructOffset, StringsOffset, MemRsvmapOffset, StringsSize, StructSize
  <2>2. PICK i \in {2, 3, 4, 5, 9, 10} : ~ IsUsize(Field(d, i))
    BY <2>1
  <2>3. Number(d[i]) > UsizeMax
    BY <2>2, LargeField
  <2> QED
    BY <1>6, <2>3 DEF Explained, HeaderErrors
<1>7. CASE e = "Size" /\ ~ IsUsize(StringsOffset(d) + StringsSize(d))
  <2>1. StringsOffset(d) + StringsSize(d) > UsizeMax
    BY <1>2, <1>7, HeaderAssumption DEF IsUsize
  <2> QED
    BY <1>7, <2>1 DEF Explained, HeaderErrors
<1>8. CASE e = "NewerVersion" /\ ~ (LastCompatible(d) <= VersionParsed)
  <2>1. LastCompatible(d) > VersionParsed
    BY <1>2, <1>8, HeaderAssumption
  <2> QED
    BY <1>8, <2>1 DEF Explained, HeaderErrors
<1>9. CASE e = "Alignment" /\ ~ IsAligned(d)
  BY <1>9 DEF Explained, HeaderErrors, IsAligned, ElementWidth
<1>10. CASE e = "StructIndex" /\ IsAligned(d)
            /\ ~ (StructIndex(d) + StructElems(d) <= DtWords(d))
  <2>1. StructOffset(d) + StructSize(d) > EndOf(d)
    BY <1>1, <1>10, StructWords
  <2> QED
    BY <1>10, <2>1 DEF Explained, HeaderErrors
<1>11. CASE e = "StringsIndex" /\ ~ StringsFit(d)
  <2>1. StringsOffset(d) + StringsSize(d) > EndOf(d)
    BY <1>1, <1>2, <1>11 DEF StringsFit, ElementWidth
  <2> QED
    BY <1>11, <2>1 DEF Explained, HeaderErrors
<1> QED
  BY <1>3, <1>4, <1>5, <1>6, <1>7, <1>8, <1>9, <1>10, <1>11, HeaderVerdict
-----------------------------------------------------------------------------
(* Slices of whole words, and what consuming leaves of them.               *)
Whole(s) == s \in Slices /\ s.padding = 0

(* The words `ws` were consumed from `s`, and `t` is left.                 *)
Took(s, ws, t) == Whole(t) /\ ws \in Seq(Word) /\ s.bytes = ws \o t.bytes

LEMMA WholeFacts ==
  ASSUME NEW s, Whole(s)
  PROVE  /\ s.bytes \in Seq(Word) /\ s.padding = 0 /\ Len(s.bytes) \in Nat
         /\ s = [bytes |-> s.bytes, padding |-> 0]
         /\ LenBytes(s) = Len(s.bytes) * 4 /\ RemainingU32s(s) = Len(s.bytes)
         /\ IsEmpty(s) <=> Len(s.bytes) = 0
<1>1. s.bytes \in Seq(Word) /\ s.padding = 0 /\ s = [bytes |-> s.bytes, padding |-> 0]
  BY DEF Whole, Slices
<1>2. Len(s.bytes) \in Nat /\ (s.bytes = <<>> <=> Len(s.bytes) = 0)
  BY <1>1, EmptySeq, LenProperties
<1> QED
  BY <1>1, <1>2 DEF LenBytes, RemainingU32s, IsEmpty, ElementWidth

LEMMA WholeSlice ==
  ASSUME NEW ws \in Seq(Word)
  PROVE  Whole([bytes |-> ws, padding |-> 0])
  BY DEF Whole, Slices, ElementWidth

(* A slice of whole words can be made of any words.                        *)
LEMMA NewWhole ==
  ASSUME NEW ws \in Seq(Word)
  PROVE  New(ws, Len(ws) * ElementWidth) = [bytes |-> ws, padding |-> 0]
<1>1. PICK n \in Nat : n = Len(ws)
  BY LenProperties
<1>2. n * 4 - n * 4 = 0 /\ DivCeil(n * 4, 4) = n
  BY DEF DivCeil
<1>3. EndsInZeros(Last(ws), 0)
  BY DEF EndsInZeros, ElementWidth
<1> QED
  BY <1>1, <1>2, <1>3 DEF New, ElementWidth

(* What is left after some words, and the words before that.               *)
LEMMA DropWords ==
  ASSUME NEW s, Whole(s), NEW n \in 0..Len(s.bytes)
  PROVE  /\ Took(s, SubSeq(s.bytes, 1, n), Drop(s, n))
         /\ Len(SubSeq(s.bytes, 1, n)) = n
         /\ \A i \in 1..n : SubSeq(s.bytes, 1, n)[i] = s.bytes[i]
         /\ Len(Drop(s, n).bytes) = Len(s.bytes) - n
         /\ \A i \in 1..Len(s.bytes) - n : Drop(s, n).bytes[i] = s.bytes[n + i]
<1>1. PICK ws \in Seq(Word) : ws = s.bytes /\ s = [bytes |-> ws, padding |-> 0]
  BY WholeFacts
<1>2. PICK l \in Nat : l = Len(ws)
  BY LenProperties
<1>3. \A i \in 1..l : ws[i] \in Word
  BY <1>2, ElementOfSeq
<1>4. n \in Nat /\ n <= l
  BY <1>1, <1>2
<1>5. /\ SubSeq(ws, 1, n) \in Seq(Word) /\ Len(SubSeq(ws, 1, n)) = n
      /\ \A i \in 1..n : SubSeq(ws, 1, n)[i] = ws[i]
  <2>1. \A i \in 1..n : ws[i] \in Word
    BY <1>3, <1>4
  <2>2. /\ SubSeq(ws, 1, n) \in Seq(Word)
        /\ Len(SubSeq(ws, 1, n)) = IF 1 <= n THEN n - 1 + 1 ELSE 0
        /\ \A i \in 1..n - 1 + 1 : SubSeq(ws, 1, n)[i] = ws[1 + i - 1]
    BY <1>4, <2>1, SubSeqProperties
  <2> QED
    BY <1>4, <2>2
<1>6. /\ SubSeq(ws, n + 1, l) \in Seq(Word) /\ Len(SubSeq(ws, n + 1, l)) = l - n
      /\ \A i \in 1..l - n : SubSeq(ws, n + 1, l)[i] = ws[n + i]
  <2>1. \A i \in n + 1..l : ws[i] \in Word
    BY <1>3, <1>4
  <2>2. /\ SubSeq(ws, n + 1, l) \in Seq(Word)
        /\ Len(SubSeq(ws, n + 1, l)) = IF n + 1 <= l THEN l - (n + 1) + 1 ELSE 0
        /\ \A i \in 1..l - (n + 1) + 1 : SubSeq(ws, n + 1, l)[i] = ws[n + 1 + i - 1]
    BY <1>4, <2>1, SubSeqProperties
  <2>3. l - (n + 1) + 1 = l - n /\ (IF n + 1 <= l THEN l - (n + 1) + 1 ELSE 0) = l - n
    BY <1>4
  <2>4. \A i \in 1..l - n : n + 1 + i - 1 = n + i
    BY <1>4
  <2> QED
    BY <2>2, <2>3, <2>4
<1>7. PICK a \in Seq(Word), b \in Seq(Word) : a = SubSeq(ws, 1, n) /\ b = SubSeq(ws, n + 1, l)
  BY <1>5, <1>6
<1>8. ws = a \o b
  <2>1. /\ a \o b \in Seq(Word) /\ Len(a \o b) = Len(a) + Len(b)
        /\ \A i \in 1..Len(a) + Len(b) :
             (a \o b)[i] = IF i <= Len(a) THEN a[i] ELSE b[i - Len(a)]
    BY ConcatProperties
  <2>2. Len(a) = n /\ Len(b) = l - n /\ n + (l - n) = l
    BY <1>4, <1>5, <1>6, <1>7
  <2>3. ASSUME NEW i \in 1..l PROVE ws[i] = (a \o b)[i]
    <3>1. CASE i <= n
      BY <1>5, <1>7, <2>1, <2>2, <3>1
    <3>2. CASE ~ (i <= n)
      <4>1. i - n \in 1..l - n /\ n + (i - n) = i
        BY <1>4, <3>2
      <4>2. b[i - n] = ws[i]
        BY <1>6, <1>7, <4>1
      <4> QED
        BY <2>1, <2>2, <3>2, <4>2
    <3> QED
      BY <3>1, <3>2
  <2> QED
    BY <1>2, <2>1, <2>2, <2>3, SeqEqual
<1>9. Drop(s, n) = [bytes |-> b, padding |-> 0]
  <2>1. Drop(s, n) = [s EXCEPT !.bytes = b]
    BY <1>1, <1>2, <1>7 DEF Drop
  <2>2. [[bytes |-> ws, padding |-> 0] EXCEPT !.bytes = b] = [bytes |-> b, padding |-> 0]
    OBVIOUS
  <2> QED
    BY <1>1, <2>1, <2>2
<1>10. Whole(Drop(s, n)) /\ Drop(s, n).bytes = b
  BY <1>9, WholeSlice
<1>11. Took(s, a, Drop(s, n))
  BY <1>1, <1>8, <1>10 DEF Took
<1>12. /\ a = SubSeq(s.bytes, 1, n) /\ Len(a) = n /\ \A i \in 1..n : a[i] = s.bytes[i]
       /\ Len(b) = Len(s.bytes) - n
       /\ \A i \in 1..Len(s.bytes) - n : b[i] = s.bytes[n + i]
  BY <1>1, <1>2, <1>5, <1>6, <1>7
<1> QED
  BY <1>10, <1>11, <1>12

LEMMA TookTwice ==
  ASSUME NEW s, NEW t, NEW u, NEW v, NEW w, Took(s, v, t), Took(t, w, u)
  PROVE  Took(s, v \o w, u)
<1>1. /\ v \in Seq(Word) /\ w \in Seq(Word) /\ u.bytes \in Seq(Word) /\ Whole(u)
      /\ s.bytes = v \o (w \o u.bytes)
  BY WholeFacts DEF Took
<1>2. PICK a \in Seq(Word), b \in Seq(Word), c \in Seq(Word) : a = v /\ b = w /\ c = u.bytes
  BY <1>1
<1>3. a \o b \in Seq(Word)
  BY ConcatProperties
<1>4. (a \o b) \o c = a \o (b \o c)
  BY ConcatAssociative
<1> QED
  BY <1>1, <1>2, <1>3, <1>4 DEF Took

(* consume_u32 takes the first word if there is one.                       *)
LEMMA U32Taken ==
  ASSUME NEW s, Whole(s)
  PROVE  \/ IsEmpty(s) /\ ConsumeU32(s) = Answer(None, s)
         \/ \E w \in Word : \E t :
              /\ ~ IsEmpty(s) /\ ConsumeU32(s) = Answer(w, t) /\ w = s.bytes[1]
              /\ Took(s, <<w>>, t)
<1>1. PICK n \in Nat :
        n = Len(s.bytes) /\ (IsEmpty(s) <=> n = 0) /\ RemainingU32s(s) = n /\ s.bytes \in Seq(Word)
  BY WholeFacts
<1>2. CASE n = 0
  BY <1>1, <1>2 DEF ConsumeU32
<1>3. CASE n # 0
  <2>1. 1 \in 0..n /\ 1 \in 1..n /\ n >= 1
    BY <1>3
  <2>2. PICK a \in Seq(Word) :
          /\ Took(s, a, Drop(s, 1)) /\ Len(a) = 1 /\ \A i \in 1..1 : a[i] = s.bytes[i]
    <3>1. PICK ws : ws = SubSeq(s.bytes, 1, 1)
      OBVIOUS
    <3>2. Took(s, ws, Drop(s, 1)) /\ Len(ws) = 1 /\ \A i \in 1..1 : ws[i] = s.bytes[i]
      BY <1>1, <2>1, <3>1, DropWords
    <3> QED
      BY <3>2 DEF Took
  <2>3. PICK w \in Word : w = s.bytes[1]
    BY <1>1, <2>1, ElementOfSeq
  <2>4. a = <<w>>
    <3>1. a[1] = w
      BY <2>2, <2>3
    <3>2. <<w>> \in Seq(Word) /\ Len(<<w>>) = 1 /\ <<w>>[1] = w
      <4> HIDE DEF Word
      <4> QED
        OBVIOUS
    <3>3. \A i \in 1..1 : i = 1
      OBVIOUS
    <3> QED
      BY <2>2, <3>1, <3>2, <3>3, SeqEqual
  <2>5. ConsumeU32(s) = Answer(s.bytes[1], Drop(s, 1))
    BY <1>1, <2>1 DEF ConsumeU32
  <2> QED
    BY <1>1, <1>3, <2>2, <2>3, <2>4, <2>5
<1> QED
  BY <1>2, <1>3
-----------------------------------------------------------------------------
(* A byte of a word is that byte of the slice.                             *)
LEMMA ByteOfWord ==
  ASSUME NEW s, Whole(s), NEW w \in 1..Len(s.bytes), NEW i \in 1..4
  PROVE  /\ (w - 1) * 4 + i \in 1..Len(s.bytes) * 4
         /\ ByteAt(s, (w - 1) * 4 + i) = s.bytes[w][i]
<1>1. Len(s.bytes) \in Nat
  BY WholeFacts
<1>2. PICK k \in Nat, n \in Nat : k = w - 1 /\ n = Len(s.bytes) /\ k < n
  <2>1. w - 1 \in Nat /\ w - 1 < Len(s.bytes)
    BY <1>1
  <2> QED
    BY <1>1, <2>1
<1>3. (4 * k + i - 1) \div 4 = k + ((i - 1) \div 4) /\ (4 * k + i - 1) % 4 = (i - 1) % 4
  BY BytesAfterWords
<1>4. (i - 1) \div 4 = 0 /\ (i - 1) % 4 = i - 1
  OBVIOUS
<1>5. k * 4 + i \in 1..n * 4 /\ k * 4 + i - 1 = 4 * k + i - 1
  BY <1>2
<1>6. ByteAt(s, k * 4 + i) = s.bytes[(k + 0) + 1][(i - 1) + 1]
  BY <1>3, <1>4, <1>5 DEF ByteAt, ElementWidth
<1>7. (k + 0) + 1 = w /\ (i - 1) + 1 = i
  BY <1>2
<1> QED
  BY <1>2, <1>5, <1>6, <1>7

IsFirstZero(s, nul) == ByteAt(s, nul) = 0 /\ \A j \in 1..nul - 1 : ByteAt(s, j) # 0

(* The bytes before the first zero and the zero, padded with zeros, are    *)
(* the words that hold them.                                               *)
LEMMA StringTaken ==
  ASSUME NEW s, Whole(s), NEW nul \in 1..Len(s.bytes) * 4, IsFirstZero(s, nul),
         NEW used, used = DivCeil(nul, 4), EndsInZeros(s.bytes[used], used * 4 - nul)
  PROVE  LET string == [i \in 1..nul - 1 |-> ByteAt(s, i)]
         IN  /\ string \in Seq(Byte \ {0}) /\ Len(string) = nul - 1
             /\ Took(s, StringWords(string), Drop(s, used))
<1> DEFINE string == [i \in 1..nul - 1 |-> ByteAt(s, i)]
<1>1. \A i \in 1..nul - 1 : string[i] = ByteAt(s, i)
  OBVIOUS
<1> HIDE DEF string
<1>2. PICK ws \in Seq(Word), n \in Nat : ws = s.bytes /\ n = Len(ws)
  BY WholeFacts
<1>3. nul \in Nat \ {0} /\ nul <= n * 4
  BY <1>2
<1>4. ASSUME NEW w \in 1..n, NEW i \in 1..4
       PROVE  (w - 1) * 4 + i \in 1..n * 4 /\ ByteAt(s, (w - 1) * 4 + i) = ws[w][i]
  BY <1>2, ByteOfWord
<1>5. /\ used \in 1..n /\ nul <= used * 4 /\ used * 4 < nul + 4
  <2>1. PICK z \in Nat : z = nul /\ z > 0 /\ z <= n * 4
    BY <1>3
  <2>2. DivCeil(z, 4) \in Nat /\ z <= DivCeil(z, 4) * 4 /\ DivCeil(z, 4) * 4 < z + 4
    BY RoundedUp
  <2>3. PICK u \in Nat : u = used /\ z <= u * 4 /\ u * 4 < z + 4
    BY <2>1, <2>2
  <2>4. u >= 1 /\ u <= n
    BY <2>1, <2>3
  <2> QED
    BY <2>1, <2>3, <2>4
<1>6. s = [bytes |-> ws, padding |-> 0]
  BY <1>2, WholeFacts
<1>7. ASSUME NEW i \in 1..nul - 1 PROVE ByteAt(s, i) \in Byte \ {0}
  <2>1. i \in 1..n * 4
    BY <1>3
  <2> QED
    BY <1>2, <1>6, <2>1, ByteOfWords DEF IsFirstZero
<1>8. string \in Seq(Byte \ {0}) /\ Len(string) = nul - 1
  <2> DEFINE byte(i) == ByteAt(s, i)
  <2>1. /\ string = [i \in 1..nul - 1 |-> byte(i)]
        /\ \A i \in 1..nul - 1 : byte(i) \in Byte \ {0}
    BY <1>7 DEF string
  <2>2. nul - 1 \in Nat
    BY <1>3
  <2> HIDE DEF byte
  <2> QED
    BY <2>1, <2>2
<1>9. StringWords(string) = [w \in 1..used |-> [i \in 1..4 |->
        IF (w - 1) * 4 + i <= nul - 1 THEN string[(w - 1) * 4 + i] ELSE 0]]
  <2>1. Len(string) + 1 = nul
    BY <1>3, <1>8
  <2> QED
    BY <1>8, <2>1 DEF StringWords, ElementWidth
<1>10. ASSUME NEW w \in 1..used
      PROVE  [i \in 1..4 |-> IF (w - 1) * 4 + i <= nul - 1 THEN string[(w - 1) * 4 + i] ELSE 0]
               = ws[w]
  <2>1. w \in 1..n /\ ws[w] \in [1..4 -> Byte]
    BY <1>2, <1>5, ElementOfSeq DEF Word, ElementWidth
  <2>2. ASSUME NEW i \in 1..4
        PROVE  ws[w][i] = IF (w - 1) * 4 + i <= nul - 1 THEN string[(w - 1) * 4 + i] ELSE 0
    <3>1. PICK at \in 1..n * 4 : at = (w - 1) * 4 + i /\ ByteAt(s, at) = ws[w][i]
      BY <1>4, <2>1
    <3>2. CASE at <= nul - 1
      <4>1. at \in 1..nul - 1
        BY <3>2
      <4> QED
        BY <1>1, <3>1, <3>2, <4>1
    <3>3. CASE at = nul
      BY <3>1, <3>3, <1>3 DEF IsFirstZero
    <3>4. CASE at > nul
      <4>1. PICK v \in Int, u \in Int, z \in Int : v = w /\ u = used /\ z = nul
        <5>1. used \in Int /\ nul \in Int
          BY <1>3, <1>5
        <5>2. w \in Int
          BY <5>1
        <5> QED
          BY <5>1, <5>2
      <4>2. v <= u /\ u * 4 < z + 4 /\ z < (v - 1) * 4 + i /\ i <= 4
        BY <1>5, <3>1, <3>4, <4>1
      <4>3. v = u /\ i >= 4 - (u * 4 - z) + 1
        BY <4>2
      <4>4. w = used
        BY <4>1, <4>3
      <4>5. i \in 4 - (used * 4 - nul) + 1..4
        BY <4>1, <4>3
      <4>6. ws[w][i] = 0
        BY <1>2, <4>4, <4>5 DEF EndsInZeros, ElementWidth
      <4> QED
        BY <3>1, <3>4, <4>6
    <3> QED
      BY <3>1, <3>2, <3>3, <3>4, <1>3
  <2> QED
    BY <2>1, <2>2
<1>11. /\ used \in 0..Len(s.bytes)
      /\ Took(s, SubSeq(s.bytes, 1, used), Drop(s, used))
      /\ Len(SubSeq(s.bytes, 1, used)) = used
      /\ \A i \in 1..used : SubSeq(s.bytes, 1, used)[i] = s.bytes[i]
  BY <1>2, <1>5, DropWords
<1>12. PICK a \in Seq(Word) :
         /\ Took(s, a, Drop(s, used)) /\ Len(a) = used /\ \A w \in 1..used : a[w] = ws[w]
  BY <1>2, <1>11 DEF Took
<1>13. a = [w \in 1..used |-> a[w]]
  BY <1>12, LenProperties
<1>14. StringWords(string) = a
  <2> DEFINE written(w) == [i \in 1..4 |-> IF (w - 1) * 4 + i <= nul - 1
                                          THEN string[(w - 1) * 4 + i] ELSE 0]
  <2>1. StringWords(string) = [w \in 1..used |-> written(w)]
    BY <1>9
  <2>2. \A w \in 1..used : written(w) = a[w]
    BY <1>10, <1>12
  <2> HIDE DEF written
  <2> QED
    BY <1>13, <2>1, <2>2
<1> QED
  BY <1>8, <1>12, <1>14 DEF string

(* consume_c_str takes the words of a string, or it fails.                 *)
LEMMA CStrTaken ==
  ASSUME NEW s, Whole(s)
  PROVE  \/ ConsumeCStr(s).out = None /\ Whole(ConsumeCStr(s).rest)
         \/ \E string \in Seq(Byte \ {0}) : \E t :
              ConsumeCStr(s) = Answer(string, t) /\ Took(s, StringWords(string), t)
<1> DEFINE nuls == {i \in 1..LenBytes(s) : ByteAt(s, i) = 0}
           nul  == CHOOSE i \in nuls : \A j \in nuls : i <= j
           used == DivCeil(nul, ElementWidth)
<1>1. PICK n \in Nat : n = Len(s.bytes) /\ LenBytes(s) = n * 4
  BY WholeFacts
<1>2. CASE nuls = {}
  BY <1>2 DEF ConsumeCStr, Answer
<1>3. CASE nuls # {}
  <2>1. nuls \subseteq Nat
    BY <1>1
  <2>2. nul \in nuls /\ \A j \in nuls : nul <= j
    <3>1. \E i \in nuls : \A j \in nuls : i <= j
      <4> HIDE DEF nuls
      <4> QED
        BY <1>3, <2>1, LeastNatural
    <3> HIDE DEF nuls
    <3> QED
      BY <3>1
  <2>3. PICK z \in 1..n * 4 : z = nul /\ ByteAt(s, z) = 0
    BY <1>1, <2>2
  <2>4. ASSUME NEW j \in 1..z - 1 PROVE ByteAt(s, j) # 0
    <3>1. j \in 1..LenBytes(s) /\ ~ (z <= j)
      BY <1>1
    <3>2. j \notin nuls
      BY <2>2, <2>3, <3>1
    <3> QED
      BY <3>1, <3>2
  <2>5. PICK u \in 0..n : u = DivCeil(z, 4) /\ u = used
    <3>1. z \in Nat /\ z <= n * 4
      BY <1>1
    <3>2. DivCeil(z, 4) \in Nat /\ DivCeil(z, 4) * 4 < z + 4
      BY <3>1, RoundedUp
    <3>3. DivCeil(z, 4) \in 0..n
      BY <3>1, <3>2
    <3> QED
      BY <2>3, <3>3 DEF ElementWidth
  <2>6. Whole(Drop(s, u))
    BY <1>1, DropWords DEF Took
  <2>7. ConsumeCStr(s) = IF EndsInZeros(s.bytes[u], u * 4 - z)
                         THEN Answer([i \in 1..z - 1 |-> ByteAt(s, i)], Drop(s, u))
                         ELSE Answer(None, Drop(s, u))
    BY <1>3, <2>3, <2>5 DEF ConsumeCStr, ElementWidth
  <2>8. CASE EndsInZeros(s.bytes[u], u * 4 - z)
    <3>1. PICK string : string = [i \in 1..z - 1 |-> ByteAt(s, i)]
      OBVIOUS
    <3>2. string \in Seq(Byte \ {0}) /\ Took(s, StringWords(string), Drop(s, u))
      <4>1. IsFirstZero(s, z)
        BY <2>3, <2>4 DEF IsFirstZero
      <4> QED
        BY <1>1, <2>5, <2>8, <3>1, <4>1, StringTaken
    <3> QED
      BY <2>7, <2>8, <3>1, <3>2
  <2>9. CASE ~ EndsInZeros(s.bytes[u], u * 4 - z)
    BY <2>6, <2>7, <2>9 DEF Answer
  <2> QED
    BY <2>8, <2>9
<1> QED
  BY <1>2, <1>3

(* take(count) takes the words that hold as many bytes.                    *)
LEMMA BytesTaken ==
  ASSUME NEW s, Whole(s), NEW count \in Nat
  PROVE  \/ Take(s, count).out \in {None, Panic} /\ Whole(Take(s, count).rest)
         \/ \E v \in Slices : \E t :
              Take(s, count) = Answer(v, t) /\ LenBytes(v) = count /\ Took(s, v.bytes, t)
<1>1. PICK n \in Nat : n = Len(s.bytes) /\ LenBytes(s) = n * 4
  BY WholeFacts
<1>2. CASE ~ (count <= n * 4)
  BY <1>1, <1>2 DEF Take, Answer
<1>3. CASE count <= n * 4
  <2>1. /\ DivCeil(count, 4) \in Nat
        /\ count <= DivCeil(count, 4) * 4 /\ DivCeil(count, 4) * 4 < count + 4
    BY RoundedUp
  <2>2. PICK u \in Nat : u = DivCeil(count, 4)
    BY <2>1
  <2>3. u \in 0..n /\ u * 4 - count \in 0..3
    BY <1>3, <2>1, <2>2
  <2>4. PICK a : a = SubSeq(s.bytes, 1, u)
    OBVIOUS
  <2>5. Took(s, a, Drop(s, u)) /\ Len(a) = u
    BY <1>1, <2>3, <2>4, DropWords
  <2>6. a \in Seq(Word) /\ Whole(Drop(s, u))
    BY <2>5 DEF Took
  <2> DEFINE v == [bytes |-> a, padding |-> u * 4 - count]
  <2>7. v \in Slices /\ v.bytes = a /\ v.padding = u * 4 - count
    BY <2>3, <2>6 DEF Slices, ElementWidth
  <2>8. LenBytes(v) = count
    BY <2>5, <2>7 DEF LenBytes, ElementWidth
  <2> HIDE DEF v
  <2>9. New(a, count) = v \/ New(a, count) = None
    BY <2>2, <2>5 DEF New, v, ElementWidth
  <2>10. Take(s, count) = Answer(IF New(a, count) = None THEN Panic ELSE New(a, count), Drop(s, u))
    BY <1>1, <1>3, <2>2, <2>4 DEF Take, ElementWidth
  <2> QED
    BY <2>5, <2>6, <2>7, <2>8, <2>9, <2>10 DEF Answer
<1> QED
  BY <1>2, <1>3
-----------------------------------------------------------------------------
(* The first step: what the header names is cut out, or the header is      *)
(* refused.                                                                *)
HeaderInv ==
  /\ dtb \in Blobs /\ phase \in {"header", "tokens"}
  /\ strings \in Seq(Byte) /\ dt_struct \in Seq(Word) /\ Whole(bytes)
  /\ error \in IF phase = "header" THEN HeaderErrors \cup {"none"} ELSE TokenErrors
  /\ phase = "tokens" => BlocksAreWhereTheHeaderSays
  /\ phase = "header" => Explained(dtb, error)

LEMMA BlobFacts ==
  ASSUME dtb \in Blobs
  PROVE  dtb \in Seq(Word) /\ Len(dtb) % 2 = 0
  BY BlobsAssumption

LEMMA NewEmpty == New(<<>>, 0) = [bytes |-> <<>>, padding |-> 0]
<1>1. <<>> \in Seq(Word) /\ Len(<<>>) = 0
  OBVIOUS
<1>2. New(<<>>, Len(<<>>) * ElementWidth) = [bytes |-> <<>>, padding |-> 0]
  BY <1>1, NewWhole
<1>3. Len(<<>>) * ElementWidth = 0
  BY <1>1 DEF ElementWidth
<1> QED
  BY <1>2, <1>3

LEMMA InitHeader == BlobInit => HeaderInv
<1> SUFFICES ASSUME BlobInit PROVE HeaderInv
  OBVIOUS
<1>1. <<>> \in Seq(Word) /\ <<>> \in Seq(Byte) /\ Len(<<>>) = 0
  OBVIOUS
<1>2. Whole(bytes)
  BY <1>1, NewEmpty, WholeSlice DEF BlobInit
<1>3. Explained(dtb, "none")
  BY DEF Explained
<1> QED
  BY <1>1, <1>2, <1>3 DEF BlobInit, HeaderInv, HeaderErrors

LEMMA ReadHeaderHeader == HeaderInv /\ ReadHeader => HeaderInv'
<1> SUFFICES ASSUME HeaderInv, ReadHeader PROVE HeaderInv'
  OBVIOUS
<1>1. dtb \in Seq(Word) /\ Len(dtb) % 2 = 0 /\ dtb' = dtb
  BY BlobFacts DEF HeaderInv, ReadHeader
<1>2. PICK failed \in {FirstError(HeaderChecks(dtb))} :
        \/ /\ failed = "none" /\ phase' = "tokens"
           /\ IterateBytes(StructBlock(dtb), Strings(dtb))
        \/ /\ failed # "none" /\ error' = failed
           /\ UNCHANGED <<phase, dt_struct, strings, bytes, tokens>>
  BY DEF ReadHeader
<1>3. CASE failed = "none"
  <2>1. phase' = "tokens" /\ IterateBytes(StructBlock(dtb), Strings(dtb))
    BY <1>2, <1>3
  <2>2. HeaderTests(dtb)
    BY <1>1, <1>3, HeaderVerdict
  <2>3. PICK b \in Seq(Word) : b = StructBlock(dtb)
    BY <1>1, <2>2, StructBlockCut
  <2>4. dt_struct' = b /\ strings' = Strings(dtb) /\ bytes' = New(b, Len(b) * ElementWidth)
        /\ error' = "none"
    BY <2>1, <2>3 DEF IterateBytes, ReadHeader
  <2>5. Whole(bytes)'
    BY <2>4, NewWhole, WholeSlice
  <2>6. BlocksAreWhereTheHeaderSays'
    <3>1. EndOf(dtb) = End8'
      BY <1>1 DEF EndOf, End8
    <3>2. \A i : BlobByte(i)' = ByteAt([bytes |-> dtb, padding |-> 0], i)
      BY <1>1 DEF BlobByte
    <3> QED
      BY <1>1, <2>2, <2>3, <2>4, <3>1, <3>2, StructBlockCut, StringsCut
      DEF BlocksAreWhereTheHeaderSays, ElementWidth
  <2>7. strings' \in Seq(Byte)
    BY <1>1, <2>2, <2>4, StringsCut
  <2> QED
    BY <1>1, <2>1, <2>4, <2>5, <2>6, <2>7 DEF HeaderInv, TokenErrors
<1>4. CASE failed # "none"
  <2>1. /\ error' = failed /\ UNCHANGED <<phase, dt_struct, strings, bytes, tokens>>
        /\ phase = "header"
    BY <1>2, <1>4 DEF ReadHeader
  <2>2. failed \in HeaderErrors /\ Explained(dtb, failed)
    BY <1>1, <1>2, <1>4, RefusalExplained
  <2> QED
    BY <1>1, <2>1, <2>2 DEF HeaderInv, Whole
<1> QED
  BY <1>3, <1>4
-----------------------------------------------------------------------------
(* The tests of a name, one by one.                                        *)
NameErrors == {"panic", "TooLong", "InvalidCharacters"}

NameCheck == [error : NameErrors, ok : BOOLEAN]

HasNoComma(text) == HasAddress(text) => Comma \notin ToSet(PartsOf(text)[2])
IsShort(text) == Len(PartsOf(text)[1]) <= MaxNodeNameLength
HasGoodParts(text) ==
  /\ ToSet(PartsOf(text)[1]) \subseteq Chars
  /\ HasAddress(text) => FromStrRadix(PartsOf(text)[2]) # None

LEMMA NameVerdict ==
  ASSUME NEW text, NEW e, e = FirstError(NameChecks(text))
  PROVE  \/ e = "none" /\ HasNoComma(text) /\ IsShort(text) /\ HasGoodParts(text)
         \/ e = "panic" /\ ~ HasNoComma(text)
         \/ e = "TooLong" /\ HasNoComma(text) /\ ~ IsShort(text)
         \/ e = "InvalidCharacters" /\ HasNoComma(text) /\ ~ HasGoodParts(text)
<1> DEFINE c1 == Check("panic", HasNoComma(text))
           c2 == Check("TooLong", IsShort(text))
           c3 == Check("InvalidCharacters", HasGoodParts(text))
<1>1. c1 \in NameCheck /\ c2 \in NameCheck /\ c3 \in NameCheck
  BY DEF Check, NameCheck, NameErrors, HasNoComma, IsShort, HasGoodParts
<1>2. NameChecks(text) = <<c1, c2, c3>>
  BY DEF NameChecks, HasNoComma, IsShort, HasGoodParts
<1>3. /\ c1.error = "panic" /\ c2.error = "TooLong" /\ c3.error = "InvalidCharacters"
      /\ c1.ok <=> HasNoComma(text)
      /\ c2.ok <=> IsShort(text)
      /\ c3.ok <=> HasGoodParts(text)
  BY DEF Check
<1> HIDE DEF c1, c2, c3, NameCheck
<1>4. PICK s \in Seq(NameCheck) :
        s = NameChecks(text) /\ Len(s) = 3 /\ s[1] = c1 /\ s[2] = c2 /\ s[3] = c3
  <2> DEFINE t == <<c1, c2, c3>>
  <2>1. t \in Seq(NameCheck) /\ Len(t) = 3
    BY <1>1
  <2>2. t[1] = c1 /\ t[2] = c2 /\ t[3] = c3
    OBVIOUS
  <2>3. t = NameChecks(text)
    BY <1>2
  <2> HIDE DEF t
  <2> QED
    BY <2>1, <2>2, <2>3
<1>5. \/ e = "none" /\ \A i \in 1..Len(s) : s[i].ok
      \/ \E i \in 1..Len(s) : IsFirstFailure(s, i) /\ e = s[i].error
  BY <1>4, FirstErrorProperties
<1>6. 1..3 = {1, 2, 3}
  OBVIOUS
<1>7. CASE e = "none" /\ \A i \in 1..Len(s) : s[i].ok
  BY <1>3, <1>4, <1>6, <1>7
<1>8. CASE \E i \in 1..Len(s) : IsFirstFailure(s, i) /\ e = s[i].error
  <2>1. PICK i \in 1..3 : IsFirstFailure(s, i) /\ e = s[i].error
    BY <1>4, <1>8
  <2>2. ~ s[i].ok /\ (i > 1 => s[1].ok)
    BY <2>1 DEF IsFirstFailure
  <2> QED
    BY <1>3, <1>4, <1>6, <2>1, <2>2
<1> QED
  BY <1>5, <1>7, <1>8
-----------------------------------------------------------------------------
(* The tokens that are yielded.                                            *)
NameTexts == {text \in Seq(Byte \ {0}) : FirstError(NameChecks(text)) = "none"}
BeginToken(text) == [kind |-> "BeginNode", text |-> text, name |-> NameRef(text)]
BeginTokens == {BeginToken(text) : text \in NameTexts}
PropTokens ==
  [kind : {"Prop"}, offset : Word, name : Seq(Byte \ {0}), value : Slices]
AnyToken == BeginTokens \cup PropTokens \cup [kind : {"EndNode", "Nop", "End"}]

-----------------------------------------------------------------------------
(* The first of some bytes is the least index at which it is.              *)
LEMMA FirstIndexFacts ==
  ASSUME NEW S, NEW s \in Seq(S), NEW b
  PROVE  \/ FirstIndex(s, b) = 0 /\ \A i \in 1..Len(s) : s[i] # b
         \/ /\ FirstIndex(s, b) \in 1..Len(s) /\ s[FirstIndex(s, b)] = b
            /\ \A i \in 1..FirstIndex(s, b) - 1 : s[i] # b
<1> DEFINE I == {i \in 1..Len(s) : s[i] = b}
<1>1. FirstIndex(s, b) = IF I # {} THEN Min(I) ELSE 0
  BY DEF FirstIndex, SelectInSeq
<1>2. CASE I = {}
  BY <1>1, <1>2
<1>3. CASE I # {}
  <2>1. I \subseteq Nat
    BY LenProperties
  <2>2. Min(I) \in I /\ \A j \in I : Min(I) <= j
    <3>1. \E i \in I : \A j \in I : i <= j
      <4> HIDE DEF I
      <4> QED
        BY <1>3, <2>1, LeastNatural
    <3> HIDE DEF I
    <3> QED
      BY <3>1 DEF Min
  <2>3. PICK m \in Nat : m = Min(I)
    BY <2>1, <2>2
  <2>4. m \in 1..Len(s) /\ s[m] = b
    BY <2>2, <2>3
  <2>5. ASSUME NEW i \in 1..m - 1 PROVE s[i] # b
    <3>1. i \in 1..Len(s) /\ ~ (m <= i)
      BY <2>4, LenProperties
    <3> QED
      BY <2>2, <2>3, <3>1
  <2> QED
    BY <1>1, <1>3, <2>3, <2>4, <2>5
<1> QED
  BY <1>2, <1>3

(* A C string is what comes before the first zero.                         *)
LEMMA CStrFacts ==
  ASSUME NEW s \in Seq(Byte)
  PROVE  \/ CStr(s) = None /\ \A i \in 1..Len(s) : s[i] # 0
         \/ \E n \in 1..Len(s) :
              /\ s[n] = 0 /\ \A i \in 1..n - 1 : s[i] # 0
              /\ CStr(s) \in Seq(Byte \ {0}) /\ Len(CStr(s)) = n - 1
              /\ \A i \in 1..n - 1 : CStr(s)[i] = s[i]
<1>1. \/ FirstIndex(s, 0) = 0 /\ \A i \in 1..Len(s) : s[i] # 0
      \/ /\ FirstIndex(s, 0) \in 1..Len(s) /\ s[FirstIndex(s, 0)] = 0
         /\ \A i \in 1..FirstIndex(s, 0) - 1 : s[i] # 0
  BY FirstIndexFacts
<1>2. CASE FirstIndex(s, 0) = 0 /\ \A i \in 1..Len(s) : s[i] # 0
  BY <1>2 DEF CStr
<1>3. CASE /\ FirstIndex(s, 0) \in 1..Len(s) /\ s[FirstIndex(s, 0)] = 0
           /\ \A i \in 1..FirstIndex(s, 0) - 1 : s[i] # 0
  <2>1. PICK n \in 1..Len(s) : n = FirstIndex(s, 0)
    BY <1>3
  <2>2. CStr(s) = SubSeq(s, 1, n - 1) /\ n # 0
    BY <2>1 DEF CStr
  <2>3. n - 1 \in Nat /\ n - 1 < Len(s)
    BY LenProperties
  <2>4. \A i \in 1..n - 1 : s[i] \in Byte \ {0}
    BY <1>3, <2>1, <2>3, ElementOfSeq
  <2>5. PICK m \in Nat : m = n - 1
    BY <2>3
  <2>6. /\ SubSeq(s, 1, m) \in Seq(Byte \ {0})
        /\ Len(SubSeq(s, 1, m)) = IF 1 <= m THEN m - 1 + 1 ELSE 0
        /\ \A i \in 1..m - 1 + 1 : SubSeq(s, 1, m)[i] = s[1 + i - 1]
    BY <2>4, <2>5, SubSeqProperties
  <2>7. Len(SubSeq(s, 1, m)) = m /\ \A i \in 1..m : SubSeq(s, 1, m)[i] = s[i]
    BY <2>6
  <2> QED
    BY <1>3, <2>1, <2>2, <2>5, <2>6, <2>7
<1> QED
  BY <1>1, <1>2, <1>3

LEMMA NameAtFacts ==
  ASSUME HeaderInv, NEW offset \in Nat, NameAt(offset) # None
  PROVE  /\ NameAt(offset) \in Seq(Byte \ {0})
         /\ offset + Len(NameAt(offset)) < Len(strings)
         /\ \A i \in 1..Len(NameAt(offset)) : NameAt(offset)[i] = strings[offset + i]
         /\ strings[offset + Len(NameAt(offset)) + 1] = 0
<1>1. PICK s \in Seq(Byte), l \in Nat : s = strings /\ l = Len(s)
  BY LenProperties DEF HeaderInv
<1>2. \A i \in offset + 1..l : s[i] \in Byte
  BY <1>1, ElementOfSeq
<1>3. /\ SubSeq(s, offset + 1, l) \in Seq(Byte)
      /\ Len(SubSeq(s, offset + 1, l)) = IF offset + 1 <= l THEN l - (offset + 1) + 1 ELSE 0
      /\ \A i \in 1..l - (offset + 1) + 1 :
           SubSeq(s, offset + 1, l)[i] = s[offset + 1 + i - 1]
  BY <1>2, SubSeqProperties
<1>4. PICK t \in Seq(Byte) : t = SubSeq(s, offset + 1, l)
  BY <1>3
<1>5. CStr(t) = NameAt(offset) /\ CStr(t) # None
  BY <1>1, <1>4 DEF NameAt
<1>6. PICK n \in 1..Len(t) :
        /\ t[n] = 0 /\ CStr(t) \in Seq(Byte \ {0}) /\ Len(CStr(t)) = n - 1
        /\ \A i \in 1..n - 1 : CStr(t)[i] = t[i]
  BY <1>5, CStrFacts
<1>7. offset + n <= l /\ Len(t) = l - offset /\ n \in Nat \ {0}
  BY <1>3, <1>4
<1>8. ASSUME NEW i \in 1..n PROVE t[i] = s[offset + i]
  <2>1. i \in 1..l - (offset + 1) + 1 /\ offset + 1 + i - 1 = offset + i
    BY <1>7
  <2> QED
    BY <1>3, <1>4, <2>1
<1>9. offset + Len(CStr(t)) < l /\ offset + Len(CStr(t)) + 1 = offset + n /\ n \in 1..n
  BY <1>6, <1>7
<1> QED
  BY <1>1, <1>5, <1>6, <1>7, <1>8, <1>9
-----------------------------------------------------------------------------
(* What reading a token does: it takes the words of the token, or it is    *)
(* the error that ends the reading.                                        *)
Yielded ==
  \E t \in AnyToken :
    /\ tokens' = Append(tokens, t) /\ error' = error /\ Took(bytes, Encode(t), bytes')
    /\ t.kind = "Prop" => t.name = NameAt(Number(t.offset))

Failed ==
  /\ error' \in TokenErrors \ {"none"} /\ tokens' = tokens /\ Whole(bytes')
  /\ error' \in {"TooLong", "InvalidCharacters"} =>
       \E text \in Seq(Byte \ {0}) :
         /\ ConsumeCStr(Body).out = text /\ HasNoComma(text)
         /\ ~ (IsShort(text) /\ HasGoodParts(text))

(* The answers of the methods are no words or strings.                     *)
LEMMA NoAnswer ==
  /\ None # Panic
  /\ {None, Panic} \cap (Nat \cup Word \cup (Word \X Word) \cup Slices
                           \cup Seq(Byte) \cup Seq(Seq(Byte))) = {}
<1>1. Seq(Byte) \subseteq Seq(0..255)
  BY ByteAssumption, SeqMonotonic
<1>2. Seq(Seq(Byte)) \subseteq Seq(Seq(0..255))
  BY <1>1, SeqMonotonic
<1>3. \A s \in Seq(Byte) \cup Seq(Seq(Byte)) : s \in Seq(0..255) \cup Seq(Seq(0..255))
  BY <1>1, <1>2
<1> QED
  BY <1>3, AnswerAssumption

LEMMA AnswersDiffer ==
  /\ None # Panic
  /\ \A w \in Word : w # None /\ w # Panic
  /\ \A s \in Seq(Byte \ {0}) : s # None /\ s # Panic
  /\ \A v \in Slices : v # None /\ v # Panic
  /\ \A n \in Nat : n # None /\ n # Panic
<1>1. \A s \in Seq(Byte \ {0}) : s \in Seq(Byte)
  OBVIOUS
<1>2. \A x \in Nat \cup Seq(Byte) \cup Word \cup Slices : x \notin {None, Panic}
  BY NoAnswer
<1> QED
  BY <1>1, <1>2, NoAnswer

(* A word was read, and what it left.                                      *)
LEMMA WordRead ==
  ASSUME HeaderInv, ~ IsEmpty(bytes)
  PROVE  /\ Whole(Body) /\ ConsumeU32(bytes).out \in Word
         /\ Took(bytes, <<ConsumeU32(bytes).out>>, Body)
         /\ Body.bytes = Tail(bytes.bytes)
<1>1. Whole(bytes)
  BY DEF HeaderInv
<1>2. PICK w \in Word : \E t : ConsumeU32(bytes) = Answer(w, t) /\ Took(bytes, <<w>>, t)
  BY <1>1, U32Taken
<1>3. PICK t : ConsumeU32(bytes) = Answer(w, t) /\ Took(bytes, <<w>>, t)
  BY <1>2
<1>4. Whole(t) /\ bytes.bytes = <<w>> \o t.bytes
  BY <1>3 DEF Took
<1>5. PICK ws \in Seq(Word) : ws = t.bytes
  BY <1>4, WholeFacts
<1>6. Tail(<<w>> \o ws) = ws
  <2> HIDE DEF Word
  <2> QED
    OBVIOUS
<1>7. ConsumeU32(bytes).out = w /\ Body = t
  BY <1>3 DEF Answer, Body
<1> QED
  BY <1>3, <1>4, <1>5, <1>6, <1>7

LEMMA BeginRead ==
  ASSUME HeaderInv, ReadBeginNode
  PROVE  Yielded \/ Failed
<1>1. error = "none" /\ ~ IsEmpty(bytes) /\ ConsumeU32(bytes).out = BEGIN_NODE
  BY DEF ReadBeginNode, Reads
<1>2. Whole(Body) /\ BEGIN_NODE \in Word /\ Took(bytes, <<BEGIN_NODE>>, Body)
  BY <1>1, WordRead
<1>3. PICK name \in {ConsumeCStr(Body)} :
        \E failed \in {IF name.out = None THEN "NodeNameMalformed"
                       ELSE FirstError(NameChecks(name.out))} :
          IF failed # "none" THEN YieldError(failed, name.rest)
          ELSE Yield([kind |-> "BeginNode", text |-> name.out, name |-> NameRef(name.out)],
                     name.rest)
  BY DEF ReadBeginNode
<1>4. PICK failed : /\ failed = IF name.out = None THEN "NodeNameMalformed"
                                ELSE FirstError(NameChecks(name.out))
                    /\ IF failed # "none" THEN YieldError(failed, name.rest)
                       ELSE Yield([kind |-> "BeginNode", text |-> name.out,
                                   name |-> NameRef(name.out)], name.rest)
  BY <1>3
<1>5. CASE name.out = None /\ Whole(name.rest)
  <2>1. failed = "NodeNameMalformed" /\ YieldError(failed, name.rest)
    BY <1>4, <1>5
  <2> QED
    BY <1>5, <2>1 DEF YieldError, Failed, TokenErrors
<1>6. ASSUME NEW string \in Seq(Byte \ {0}), NEW t,
             name = Answer(string, t), Took(Body, StringWords(string), t)
      PROVE  Yielded \/ Failed
  <2>1. name.out = string /\ name.rest = t /\ string # None
    BY <1>6, AnswersDiffer DEF Answer
  <2>2. failed = FirstError(NameChecks(string))
    BY <1>4, <2>1
  <2>3. CASE failed = "none"
    <3>1. Yield(BeginToken(string), t)
      BY <1>4, <2>1, <2>3 DEF BeginToken
    <3>2. BeginToken(string) \in AnyToken
      BY <2>2, <2>3 DEF AnyToken, BeginTokens, NameTexts
    <3>3. Encode(BeginToken(string)) = <<BEGIN_NODE>> \o StringWords(string)
      BY DEF Encode, BeginToken
    <3>4. Took(bytes, Encode(BeginToken(string)), t)
      BY <1>2, <1>6, <3>3, TookTwice
    <3>5. BeginToken(string).kind # "Prop"
      BY DEF BeginToken
    <3> QED
      BY <3>1, <3>2, <3>4, <3>5 DEF Yield, Yielded
  <2>4. CASE failed # "none"
    <3>1. YieldError(failed, t)
      BY <1>4, <2>1, <2>4
    <3>2. \/ failed = "panic"
          \/ /\ failed \in {"TooLong", "InvalidCharacters"} /\ HasNoComma(string)
             /\ ~ (IsShort(string) /\ HasGoodParts(string))
      BY <2>2, <2>4, NameVerdict
    <3>3. ConsumeCStr(Body).out = string
      BY <1>3, <2>1
    <3>4. Whole(t)
      BY <1>6 DEF Took
    <3> QED
      BY <3>1, <3>2, <3>3, <3>4 DEF YieldError, Failed, TokenErrors
  <2> QED
    BY <2>3, <2>4
<1> QED
  BY <1>2, <1>3, <1>5, <1>6, CStrTaken

LEMMA MarkRead ==
  ASSUME HeaderInv, ReadMark
  PROVE  Yielded
<1>1. PICK mark \in {<<END_NODE, "EndNode">>, <<NOP, "Nop">>, <<END, "End">>} :
        Reads(mark[1]) /\ Yield([kind |-> mark[2]], Body)
  BY DEF ReadMark
<1>2. Took(bytes, <<mark[1]>>, Body)
  BY <1>1, WordRead DEF Reads
<1>3. [kind |-> mark[2]] \in AnyToken /\ [kind |-> mark[2]].kind # "Prop"
  BY DEF AnyToken
<1>4. Encode([kind |-> mark[2]]) = <<mark[1]>>
  BY DEF Encode
<1> QED
  BY <1>1, <1>2, <1>3, <1>4 DEF Yield, Yielded

LEMMA InvalidRead ==
  ASSUME HeaderInv, ReadInvalid
  PROVE  Failed
<1>1. YieldError("InvalidToken", Body) /\ Whole(Body)
  BY WordRead DEF ReadInvalid
<1> QED
  BY <1>1 DEF YieldError, Failed, TokenErrors

(* Three words one after the other.                                        *)
LEMMA ThreeWords ==
  ASSUME NEW S, NEW a \in S, NEW b \in S, NEW c \in S
  PROVE  (<<a>> \o <<b>>) \o <<c>> = <<a, b, c>>
<1>1. <<a>> \in Seq(S) /\ Len(<<a>>) = 1 /\ <<a>>[1] = a
  OBVIOUS
<1>2. <<b>> \in Seq(S) /\ Len(<<b>>) = 1 /\ <<b>>[1] = b
  OBVIOUS
<1>3. <<c>> \in Seq(S) /\ Len(<<c>>) = 1 /\ <<c>>[1] = c
  OBVIOUS
<1>4. PICK x \in Seq(S), y \in Seq(S), z \in Seq(S) :
        /\ x = <<a>> /\ y = <<b>> /\ z = <<c>>
        /\ Len(x) = 1 /\ x[1] = a /\ Len(y) = 1 /\ y[1] = b /\ Len(z) = 1 /\ z[1] = c
  BY <1>1, <1>2, <1>3
<1>5. PICK s \in Seq(S) : s = x \o y /\ Len(s) = 2 /\ s[1] = a /\ s[2] = b
  <2>1. /\ x \o y \in Seq(S) /\ Len(x \o y) = Len(x) + Len(y)
        /\ \A i \in 1..Len(x) + Len(y) :
             (x \o y)[i] = IF i <= Len(x) THEN x[i] ELSE y[i - Len(x)]
    BY ConcatProperties
  <2>2. Len(x \o y) = 2 /\ (x \o y)[1] = a /\ (x \o y)[2] = b
    BY <1>4, <2>1
  <2> QED
    BY <2>1, <2>2
<1>6. /\ s \o z \in Seq(S) /\ Len(s \o z) = 3
      /\ (s \o z)[1] = a /\ (s \o z)[2] = b /\ (s \o z)[3] = c
  <2>1. /\ s \o z \in Seq(S) /\ Len(s \o z) = Len(s) + Len(z)
        /\ \A i \in 1..Len(s) + Len(z) :
             (s \o z)[i] = IF i <= Len(s) THEN s[i] ELSE z[i - Len(s)]
    BY ConcatProperties
  <2> QED
    BY <1>4, <1>5, <2>1
<1>7. <<a, b, c>> \in Seq(S) /\ Len(<<a, b, c>>) = 3
  OBVIOUS
<1>8. <<a, b, c>>[1] = a /\ <<a, b, c>>[2] = b /\ <<a, b, c>>[3] = c
  OBVIOUS
<1>9. PICK t \in Seq(S) :
        t = <<a, b, c>> /\ Len(t) = 3 /\ t[1] = a /\ t[2] = b /\ t[3] = c
  BY <1>7, <1>8
<1>10. \A i \in 1..3 : (s \o z)[i] = t[i]
  <2>1. 1..3 = {1, 2, 3}
    OBVIOUS
  <2> QED
    BY <1>6, <1>9, <2>1
<1>11. s \o z = t
  BY <1>6, <1>9, <1>10, SeqEqual
<1> QED
  BY <1>4, <1>5, <1>9, <1>11

(* The length, the offset of the name and the value are taken in order.    *)
LEMMA PropRead ==
  ASSUME HeaderInv, ReadProp
  PROVE  Yielded \/ Failed
<1> DEFINE len == ConsumeU32(Body)
           nameoff == ConsumeU32(len.rest)
           taken == Take(nameoff.rest, Number(len.out))
<1>1. error = "none" /\ ~ IsEmpty(bytes) /\ ConsumeU32(bytes).out = PROP
  BY DEF ReadProp, Reads
<1>2. Whole(Body) /\ PROP \in Word /\ Took(bytes, <<PROP>>, Body)
  BY <1>1, WordRead
<1>3. IF len.out = None THEN YieldError("EoF", len.rest)
      ELSE IF ~ IsUsize(Number(len.out)) THEN YieldError("Size", len.rest)
      ELSE IF nameoff.out = None THEN YieldError("EoF", nameoff.rest)
      ELSE IF ~ IsUsize(Number(nameoff.out)) THEN YieldError("Size", nameoff.rest)
      ELSE IF taken.out = None THEN YieldError("PropValue", taken.rest)
      ELSE IF taken.out = Panic THEN YieldError("panic", taken.rest)
      ELSE IF NameAt(Number(nameoff.out)) = None THEN YieldError("PropName", taken.rest)
      ELSE Yield([kind |-> "Prop", offset |-> nameoff.out,
                  name |-> NameAt(Number(nameoff.out)), value |-> taken.out], taken.rest)
  BY DEF ReadProp
<1>4. ASSUME NEW e \in {"EoF", "Size", "PropValue", "panic", "PropName"}, NEW t,
             Whole(t), YieldError(e, t)
      PROVE  Failed
  BY <1>4 DEF YieldError, Failed, TokenErrors
<1>5. CASE len.out = None /\ Whole(len.rest)
  BY <1>3, <1>4, <1>5
<1>6. ASSUME NEW l \in Word, NEW t, len = Answer(l, t), Took(Body, <<l>>, t)
      PROVE  Yielded \/ Failed
  <2>1. len.out = l /\ len.rest = t /\ l # None /\ Whole(t) /\ Number(l) \in Nat
    BY <1>6, AnswersDiffer, WordFacts DEF Answer, Took
  <2>2. CASE ~ IsUsize(Number(l))
    BY <1>3, <1>4, <2>1, <2>2
  <2>3. CASE IsUsize(Number(l)) /\ nameoff.out = None /\ Whole(nameoff.rest)
    BY <1>3, <1>4, <2>1, <2>3
  <2>4. ASSUME NEW o \in Word, NEW u, nameoff = Answer(o, u), Took(t, <<o>>, u),
               IsUsize(Number(l))
        PROVE  Yielded \/ Failed
    <3>1. /\ nameoff.out = o /\ nameoff.rest = u /\ o # None /\ Whole(u) /\ Number(o) \in Nat
          /\ taken = Take(u, Number(l))
      BY <2>1, <2>4, AnswersDiffer, WordFacts DEF Answer, Took
    <3>2. CASE ~ IsUsize(Number(o))
      BY <1>3, <1>4, <2>1, <2>4, <3>1, <3>2
    <3>3. CASE IsUsize(Number(o)) /\ taken.out \in {None, Panic} /\ Whole(taken.rest)
      BY <1>3, <1>4, <2>1, <2>4, <3>1, <3>3
    <3>4. ASSUME NEW v \in Slices, NEW r, taken = Answer(v, r), LenBytes(v) = Number(l),
                 Took(u, v.bytes, r), IsUsize(Number(o))
          PROVE  Yielded \/ Failed
      <4>1. taken.out = v /\ taken.rest = r /\ v # None /\ v # Panic /\ Whole(r)
        BY <3>4, AnswersDiffer DEF Answer, Took
      <4>2. CASE NameAt(Number(o)) = None
        BY <1>3, <1>4, <2>1, <2>4, <3>1, <3>4, <4>1, <4>2
      <4>3. CASE NameAt(Number(o)) # None
        <5> DEFINE token == [kind |-> "Prop", offset |-> o, name |-> NameAt(Number(o)), value |-> v]
        <5>1. Yield(token, r)
          BY <1>3, <2>1, <2>4, <3>1, <3>4, <4>1, <4>3
        <5>2. NameAt(Number(o)) \in Seq(Byte \ {0})
          BY <3>1, <4>3, NameAtFacts
        <5>3. /\ token \in AnyToken /\ token.kind = "Prop"
              /\ token.name = NameAt(Number(token.offset))
          BY <5>2 DEF AnyToken, PropTokens
        <5>4. Encode(token) = <<PROP, LengthWord(LenBytes(v)), o>> \o v.bytes
          BY DEF Encode
        <5>5. LengthWord(LenBytes(v)) = l
          BY <3>4, WordFacts
        <5> HIDE DEF token
        <5>6. Took(bytes, Encode(token), r)
          <6>1. Took(bytes, <<PROP>> \o <<l>>, t)
            BY <1>2, <1>6, TookTwice
          <6>2. Took(bytes, (<<PROP>> \o <<l>>) \o <<o>>, u)
            BY <2>4, <6>1, TookTwice
          <6>3. Took(bytes, ((<<PROP>> \o <<l>>) \o <<o>>) \o v.bytes, r)
            BY <3>4, <6>2, TookTwice
          <6>4. (<<PROP>> \o <<l>>) \o <<o>> = <<PROP, l, o>>
            BY <1>2, ThreeWords
          <6> QED
            BY <5>4, <5>5, <6>3, <6>4
        <5> QED
          BY <5>1, <5>3, <5>6 DEF Yield, Yielded
      <4> QED
        BY <4>2, <4>3
    <3>5. \/ taken.out \in {None, Panic} /\ Whole(taken.rest)
          \/ \E v \in Slices : \E r :
               taken = Answer(v, r) /\ LenBytes(v) = Number(l) /\ Took(u, v.bytes, r)
      BY <2>1, <3>1, BytesTaken
    <3> QED
      BY <3>2, <3>3, <3>4, <3>5
  <2>5. \/ nameoff.out = None /\ Whole(nameoff.rest)
        \/ \E o \in Word : \E u : nameoff = Answer(o, u) /\ Took(t, <<o>>, u)
    <3>1. nameoff = ConsumeU32(t)
      BY <2>1
    <3>2. \/ ConsumeU32(t) = Answer(None, t)
          \/ \E o \in Word : \E u : ConsumeU32(t) = Answer(o, u) /\ Took(t, <<o>>, u)
      BY <2>1, U32Taken
    <3> QED
      BY <2>1, <3>1, <3>2 DEF Answer
  <2> QED
    BY <2>2, <2>3, <2>4, <2>5
<1>7. \/ len.out = None /\ Whole(len.rest)
      \/ \E l \in Word : \E t : len = Answer(l, t) /\ Took(Body, <<l>>, t)
  <2>1. \/ ConsumeU32(Body) = Answer(None, Body)
        \/ \E o \in Word : \E u : ConsumeU32(Body) = Answer(o, u) /\ Took(Body, <<o>>, u)
    BY <1>2, U32Taken
  <2> QED
    BY <1>2, <2>1 DEF Answer
<1> QED
  BY <1>5, <1>6, <1>7

LEMMA TokenRead ==
  ASSUME HeaderInv, ReadToken
  PROVE  /\ Yielded \/ Failed
         /\ phase = "tokens" /\ UNCHANGED <<dtb, phase, dt_struct, strings>>
         /\ error = "none" /\ ~ IsEmpty(bytes)
<1>1. phase = "tokens" /\ NextToken /\ UNCHANGED <<dtb, phase>>
  BY DEF ReadToken
<1>2. CASE ReadBeginNode
  BY <1>1, <1>2, BeginRead DEF ReadBeginNode, Reads
<1>3. CASE ReadProp
  BY <1>1, <1>3, PropRead DEF ReadProp, Reads
<1>4. CASE ReadMark
  BY <1>1, <1>4, MarkRead DEF ReadMark, Reads
<1>5. CASE ReadInvalid
  BY <1>1, <1>5, InvalidRead DEF ReadInvalid
<1> QED
  BY <1>1, <1>2, <1>3, <1>4, <1>5 DEF NextToken

LEMMA ReadTokenHeader == HeaderInv /\ ReadToken => HeaderInv'
<1> SUFFICES ASSUME HeaderInv, ReadToken PROVE HeaderInv'
  OBVIOUS
<1>1. /\ Yielded \/ Failed
      /\ phase = "tokens" /\ UNCHANGED <<dtb, phase, dt_struct, strings>>
      /\ error = "none"
  BY TokenRead
<1>2. Whole(bytes') /\ error' \in TokenErrors
  BY <1>1 DEF Yielded, Failed, Took, TokenErrors
<1>3. Whole(bytes)'
  BY <1>2 DEF Whole
<1>4. BlocksAreWhereTheHeaderSays'
  BY <1>1 DEF HeaderInv, BlocksAreWhereTheHeaderSays, End8, BlobByte
<1> QED
  BY <1>1, <1>2, <1>3, <1>4 DEF HeaderInv

LEMMA HeaderStutters == HeaderInv /\ UNCHANGED blobVars => HeaderInv'
<1> SUFFICES ASSUME HeaderInv, UNCHANGED blobVars PROVE HeaderInv'
  OBVIOUS
<1>1. UNCHANGED <<dtb, phase, dt_struct, strings, bytes, error>>
  BY DEF blobVars, tokenVars
<1>2. Whole(bytes)'
  BY <1>1 DEF HeaderInv, Whole
<1>3. phase = "tokens" => BlocksAreWhereTheHeaderSays'
  BY <1>1 DEF HeaderInv, BlocksAreWhereTheHeaderSays, End8, BlobByte
<1>4. phase = "header" => Explained(dtb, error)'
  BY <1>1 DEF HeaderInv
<1> QED
  BY <1>1, <1>2, <1>3, <1>4 DEF HeaderInv

LEMMA HeaderHolds == BlobSpec => []HeaderInv
<1>1. HeaderInv /\ [BlobNext]_blobVars => HeaderInv'
  BY ReadHeaderHeader, ReadTokenHeader, HeaderStutters DEF BlobNext
<1> QED
  BY <1>1, InitHeader, PTL DEF BlobSpec

(* The slices keep their shape whatever the blob, and only the errors of a *)
(* phase are found in it (src/src/dtb.rs, src/src/parse.rs).               *)
THEOREM BlobTypeCorrect == BlobSpec => []BlobTypeOK
<1>1. HeaderInv => BlobTypeOK
  BY BlobFacts DEF HeaderInv, BlobTypeOK, Whole
<1> QED
  BY <1>1, HeaderHolds, PTL

(* A header is accepted only if both blocks are where it says, to the byte *)
(* and within the blob, and is refused only for the reason that is given,  *)
(* whatever the fields, the blob and the width of a `usize` are            *)
(* (`from_bytes`, src/src/dtb.rs).                                         *)
THEOREM HeaderVerdictExact == BlobSpec => []HeaderVerdictIsExact
<1>1. HeaderInv => HeaderVerdictIsExact
  <2>1. EndOf(dtb) = End8
    BY DEF EndOf, End8
  <2> QED
    BY <2>1 DEF HeaderInv, HeaderVerdictIsExact, Explained, HeaderErrors, ElementWidth
<1> QED
  BY <1>1, HeaderHolds, PTL
-----------------------------------------------------------------------------
(* FlattenSeq puts sequences one after the other.  That the recursive      *)
(* function exists is shown for one more of its values at a time.          *)
Longer(seqs, i, before) == IF i = 1 THEN seqs[i] ELSE before \o seqs[i]

IsFlattening(f, seqs, n) == f = [i \in 1..n |-> Longer(seqs, i, f[i - 1])]

LEMMA FlatteningExists ==
  ASSUME NEW seqs, NEW n \in Nat
  PROVE  \E f : IsFlattening(f, seqs, n)
<1> DEFINE T == {k \in Nat : ~ \E f : IsFlattening(f, seqs, k)}
<1>1. SUFFICES ASSUME T # {} PROVE FALSE
  OBVIOUS
<1>2. PICK k \in T : \A m \in T : k <= m
  <2>1. T \subseteq Nat
    OBVIOUS
  <2> HIDE DEF T
  <2> QED
    BY <1>1, <2>1, LeastNatural
<1>3. k \in Nat /\ ~ \E f : IsFlattening(f, seqs, k)
  OBVIOUS
<1>4. CASE k = 0
  <2>1. IsFlattening(<<>>, seqs, 0)
    BY DEF IsFlattening
  <2> QED
    BY <1>3, <1>4, <2>1
<1>5. CASE k # 0
  <2>1. k - 1 \in Nat /\ ~ (k <= k - 1)
    BY <1>3, <1>5
  <2>2. k - 1 \notin T
    BY <1>2, <2>1
  <2>3. PICK shorter : IsFlattening(shorter, seqs, k - 1)
    BY <2>1, <2>2
  <2> DEFINE f == [i \in 1..k |-> IF i = k THEN Longer(seqs, k, shorter[k - 1]) ELSE shorter[i]]
  <2>4. \A i \in 1..k - 1 : shorter[i] = Longer(seqs, i, shorter[i - 1])
    BY <2>3 DEF IsFlattening
  <2>5. ASSUME NEW i \in 1..k PROVE f[i] = Longer(seqs, i, f[i - 1])
    <3>1. CASE i = 1
      <4>1. f[1] = Longer(seqs, 1, shorter[1 - 1])
        BY <1>3, <2>1, <2>4, <3>1
      <4> QED
        BY <3>1, <4>1 DEF Longer
    <3>2. CASE i # 1
      <4>1. i - 1 \in 1..k /\ i - 1 # k
        BY <1>3, <3>2
      <4>2. f[i - 1] = shorter[i - 1]
        BY <4>1
      <4> QED
        BY <1>3, <2>4, <4>2
    <3> QED
      BY <3>1, <3>2
  <2>6. IsFlattening(f, seqs, k)
    BY <2>5 DEF IsFlattening
  <2> QED
    BY <1>3, <2>6
<1> QED
  BY <1>4, <1>5

LEMMA FlatteningSteps ==
  ASSUME NEW seqs, Len(seqs) \in Nat \ {0}
  PROVE  \E f : /\ FlattenSeq(seqs) = f[Len(seqs)]
                /\ \A i \in 1..Len(seqs) : f[i] = Longer(seqs, i, f[i - 1])
<1>1. PICK n \in Nat : n = Len(seqs) /\ n # 0
  OBVIOUS
<1> DEFINE f == CHOOSE g : IsFlattening(g, seqs, n)
<1>2. FlattenSeq(seqs) = f[n]
  BY <1>1 DEF FlattenSeq, IsFlattening, Longer
<1>3. IsFlattening(f, seqs, n)
  BY FlatteningExists
<1> QED
  BY <1>1, <1>2, <1>3 DEF IsFlattening

LEMMA FlattenInSeq ==
  ASSUME NEW S, NEW seqs \in Seq(Seq(S))
  PROVE  FlattenSeq(seqs) \in Seq(S)
<1>1. PICK n \in Nat : n = Len(seqs)
  BY LenProperties
<1>2. CASE n = 0
  <2>1. seqs = <<>>
    BY <1>1, <1>2, EmptySeq
  <2> QED
    BY <1>1, <1>2, <2>1, EmptySeq DEF FlattenSeq
<1>3. CASE n # 0
  <2>1. PICK f : FlattenSeq(seqs) = f[n] /\ \A i \in 1..n : f[i] = Longer(seqs, i, f[i - 1])
    BY <1>1, <1>3, FlatteningSteps
  <2> DEFINE T == {i \in 1..n : f[i] \notin Seq(S)}
  <2>2. ASSUME T # {} PROVE FALSE
    <3>1. PICK k \in T : \A m \in T : k <= m
      <4>1. T \subseteq Nat
        OBVIOUS
      <4> HIDE DEF T
      <4> QED
        BY <2>2, <4>1, LeastNatural
    <3>2. k \in 1..n /\ f[k] \notin Seq(S) /\ f[k] = Longer(seqs, k, f[k - 1])
      BY <2>1
    <3>3. seqs[k] \in Seq(S)
      BY <1>1, <3>2, ElementOfSeq
    <3>4. CASE k = 1
      BY <3>2, <3>3, <3>4 DEF Longer
    <3>5. CASE k # 1
      <4>1. k - 1 \in 1..n /\ ~ (k <= k - 1)
        BY <3>2, <3>5
      <4>2. k - 1 \notin T
        BY <3>1, <4>1
      <4>3. f[k - 1] \in Seq(S)
        BY <4>1, <4>2
      <4>4. f[k] = f[k - 1] \o seqs[k]
        BY <3>2, <3>5 DEF Longer
      <4> QED
        BY <3>2, <3>3, <4>3, <4>4, ConcatProperties
    <3> QED
      BY <3>4, <3>5
  <2>3. n \in 1..n
    BY <1>3
  <2> QED
    BY <2>1, <2>2, <2>3
<1> QED
  BY <1>2, <1>3

LEMMA FlattenAppend ==
  ASSUME NEW S, NEW seqs \in Seq(Seq(S)), NEW s \in Seq(S)
  PROVE  FlattenSeq(Append(seqs, s)) = FlattenSeq(seqs) \o s
<1>1. PICK n \in Nat : n = Len(seqs)
  BY LenProperties
<1>2. PICK all : all = Append(seqs, s)
  OBVIOUS
<1>3. Len(all) = n + 1 /\ all[n + 1] = s /\ \A i \in 1..n : all[i] = seqs[i]
  BY <1>1, <1>2, AppendProperties
<1>4. PICK g :
        /\ FlattenSeq(all) = g[n + 1]
        /\ \A i \in 1..n + 1 : g[i] = Longer(all, i, g[i - 1])
  <2>1. n + 1 \in Nat \ {0}
    OBVIOUS
  <2> QED
    BY <1>3, <2>1, FlatteningSteps
<1>5. CASE n = 0
  <2>1. FlattenSeq(seqs) = <<>>
    BY <1>1, <1>5, EmptySeq DEF FlattenSeq
  <2>2. g[1] = s
    BY <1>3, <1>4, <1>5 DEF Longer
  <2>3. g[n + 1] = s
    BY <1>5, <2>2
  <2>4. <<>> \o s = s
    BY ConcatEmptySeq
  <2> QED
    BY <1>2, <1>4, <2>1, <2>3, <2>4
<1>6. CASE n # 0
  <2>1. PICK f : FlattenSeq(seqs) = f[n] /\ \A i \in 1..n : f[i] = Longer(seqs, i, f[i - 1])
    BY <1>1, <1>6, FlatteningSteps
  <2> DEFINE T == {i \in 1..n : f[i] # g[i]}
  <2>2. ASSUME T # {} PROVE FALSE
    <3>1. PICK k \in T : \A m \in T : k <= m
      <4>1. T \subseteq Nat
        OBVIOUS
      <4> HIDE DEF T
      <4> QED
        BY <2>2, <4>1, LeastNatural
    <3>2. k \in 1..n /\ f[k] # g[k] /\ k \in 1..n + 1
      OBVIOUS
    <3>3. /\ f[k] = Longer(seqs, k, f[k - 1]) /\ g[k] = Longer(all, k, g[k - 1])
          /\ all[k] = seqs[k]
      BY <1>3, <1>4, <2>1, <3>2
    <3>4. CASE k = 1
      BY <3>2, <3>3, <3>4 DEF Longer
    <3>5. CASE k # 1
      <4>1. k - 1 \in 1..n /\ ~ (k <= k - 1)
        BY <3>2, <3>5
      <4>2. k - 1 \notin T
        BY <3>1, <4>1
      <4>3. f[k - 1] = g[k - 1]
        BY <4>1, <4>2
      <4> QED
        BY <3>2, <3>3, <3>5, <4>3 DEF Longer
    <3> QED
      BY <3>4, <3>5
  <2>3. n \in 1..n /\ n + 1 \in 1..n + 1 /\ n + 1 # 1 /\ n + 1 - 1 = n
    BY <1>6
  <2>4. f[n] = g[n]
    BY <2>2, <2>3
  <2>5. g[n + 1] = g[n] \o s
    <3>1. g[n + 1] = Longer(all, n + 1, g[n + 1 - 1])
      BY <1>4, <2>3
    <3> QED
      BY <1>3, <2>3, <3>1 DEF Longer
  <2> QED
    BY <1>2, <1>4, <2>1, <2>4, <2>5
<1> QED
  BY <1>5, <1>6
-----------------------------------------------------------------------------
(* The tokens that can be written back, and what was written of the block  *)
(* so far.                                                                 *)
ReadTokens == {t \in AnyToken : Encode(t) \in Seq(Word)}

LEMMA WrittenBack ==
  ASSUME NEW ts \in Seq(ReadTokens)
  PROVE  \E s \in Seq(Seq(Word)) :
           /\ Len(s) = Len(ts) /\ \A i \in 1..Len(ts) : s[i] = Encode(ts[i])
           /\ EncodeAll(ts) = FlattenSeq(s)
<1>1. PICK n \in Nat : n = Len(ts) /\ DOMAIN ts = 1..n
  BY LenProperties
<1>2. \A i \in 1..n : Encode(ts[i]) \in Seq(Word)
  <2>1. \A i \in 1..n : ts[i] \in ReadTokens
    BY <1>1, ElementOfSeq
  <2> QED
    BY <2>1 DEF ReadTokens
<1> DEFINE written(i) == Encode(ts[i])
<1>3. PICK s : s = [i \in 1..n |-> written(i)]
  OBVIOUS
<1>4. s \in Seq(Seq(Word)) /\ Len(s) = n /\ \A i \in 1..n : s[i] = written(i)
  <2>1. \A i \in 1..n : written(i) \in Seq(Word)
    BY <1>2
  <2> HIDE DEF written, Word
  <2> QED
    BY <1>3, <2>1
<1>5. EncodeAll(ts) = FlattenSeq(s)
  BY <1>1, <1>3 DEF EncodeAll
<1> QED
  BY <1>1, <1>4, <1>5

LEMMA EncodeAllInSeq ==
  ASSUME NEW ts \in Seq(ReadTokens)
  PROVE  EncodeAll(ts) \in Seq(Word)
  BY WrittenBack, FlattenInSeq

LEMMA EncodeAllAppend ==
  ASSUME NEW ts \in Seq(ReadTokens), NEW t \in ReadTokens
  PROVE  EncodeAll(Append(ts, t)) = EncodeAll(ts) \o Encode(t)
<1>1. PICK n \in Nat : n = Len(ts)
  BY LenProperties
<1>2. PICK more \in Seq(ReadTokens) :
        /\ more = Append(ts, t) /\ Len(more) = n + 1 /\ more[n + 1] = t
        /\ \A i \in 1..n : more[i] = ts[i]
  <2>1. /\ Append(ts, t) \in Seq(ReadTokens) /\ Len(Append(ts, t)) = Len(ts) + 1
        /\ \A i \in 1..Len(ts) : Append(ts, t)[i] = ts[i]
        /\ Append(ts, t)[Len(ts) + 1] = t
    BY AppendProperties
  <2> QED
    BY <1>1, <2>1
<1>3. PICK s \in Seq(Seq(Word)) :
        /\ Len(s) = n /\ \A i \in 1..n : s[i] = Encode(ts[i])
        /\ EncodeAll(ts) = FlattenSeq(s)
  BY <1>1, WrittenBack
<1>4. PICK u \in Seq(Seq(Word)) :
        /\ Len(u) = n + 1 /\ \A i \in 1..n + 1 : u[i] = Encode(more[i])
        /\ EncodeAll(more) = FlattenSeq(u)
  BY <1>2, WrittenBack
<1>5. PICK e \in Seq(Word) : e = Encode(t)
  BY DEF ReadTokens
<1>6. PICK v \in Seq(Seq(Word)) :
        /\ v = Append(s, e) /\ Len(v) = n + 1 /\ v[n + 1] = e /\ \A i \in 1..n : v[i] = s[i]
  <2>1. /\ Append(s, e) \in Seq(Seq(Word)) /\ Len(Append(s, e)) = Len(s) + 1
        /\ \A i \in 1..Len(s) : Append(s, e)[i] = s[i]
        /\ Append(s, e)[Len(s) + 1] = e
    BY AppendProperties
  <2> QED
    BY <1>3, <2>1
<1>7. \A i \in 1..n + 1 : u[i] = v[i]
  <2>1. ASSUME NEW i \in 1..n + 1 PROVE u[i] = v[i]
    <3>1. CASE i = n + 1
      BY <1>2, <1>4, <1>5, <1>6, <3>1
    <3>2. CASE i # n + 1
      <4>1. i \in 1..n
        BY <3>2
      <4> QED
        BY <1>2, <1>3, <1>4, <1>6, <4>1
    <3> QED
      BY <3>1, <3>2
  <2> QED
    BY <2>1
<1>8. u = v
  BY <1>4, <1>6, <1>7, SeqEqual
<1>9. FlattenSeq(Append(s, e)) = FlattenSeq(s) \o e
  BY FlattenAppend
<1> QED
  BY <1>2, <1>3, <1>4, <1>5, <1>6, <1>8, <1>9

LEMMA EncodeNothing == EncodeAll(<<>>) = <<>>
<1>1. DOMAIN <<>> = {} /\ Len(<<>>) = 0
  OBVIOUS
<1>2. [i \in DOMAIN <<>> |-> Encode(<<>>[i])] = <<>>
  BY <1>1
<1> QED
  BY <1>1, <1>2 DEF EncodeAll, FlattenSeq
-----------------------------------------------------------------------------
(* The block is what was written back and what is left of it.  After an    *)
(* error it is what was written back and the words that were not a token.  *)
BadName(ws) ==
  \E text \in Seq(Byte \ {0}) :
    /\ ConsumeCStr([bytes |-> Tail(ws), padding |-> 0]).out = text /\ HasNoComma(text)
    /\ ~ (IsShort(text) /\ HasGoodParts(text))

StoppedAt(ts, block, e) ==
  \E ws \in Seq(Word) : /\ EncodeAll(ts) \o ws = block
                        /\ e \in {"TooLong", "InvalidCharacters"} => BadName(ws)

(* The names of the properties are strings of the strings block.           *)
NameIn(names, offset) == CStr(SubSeq(names, offset + 1, Len(names)))

NamesFrom(ts, names) ==
  \A i \in 1..Len(ts) :
    ts[i].kind = "Prop" => ts[i].name = NameIn(names, Number(ts[i].offset))

StreamInv ==
  /\ HeaderInv /\ tokens \in Seq(ReadTokens)
  /\ error = "none" => EncodeAll(tokens) \o bytes.bytes = dt_struct
  /\ error # "none" => StoppedAt(tokens, dt_struct, error)
  /\ NamesFrom(tokens, strings)
  /\ phase = "header" => tokens = <<>> /\ dt_struct = <<>> /\ bytes.bytes = <<>>

LEMMA InitStream == BlobInit => StreamInv
<1> SUFFICES ASSUME BlobInit PROVE StreamInv
  OBVIOUS
<1>1. HeaderInv
  BY InitHeader
<1>2. tokens = <<>> /\ dt_struct = <<>> /\ error = "none" /\ bytes = New(<<>>, 0)
  BY DEF BlobInit
<1>3. bytes.bytes = <<>>
  BY <1>2, NewEmpty
<1>4. EncodeAll(tokens) = <<>> /\ <<>> \o <<>> = <<>>
  <2>1. <<>> \in Seq(Word)
    OBVIOUS
  <2>2. <<>> \o <<>> = <<>>
    BY <2>1, ConcatEmptySeq
  <2> QED
    BY <1>2, <2>2, EncodeNothing
<1>5. tokens \in Seq(ReadTokens) /\ Len(tokens) = 0
  BY <1>2, EmptySeq
<1> QED
  BY <1>1, <1>2, <1>3, <1>4, <1>5 DEF StreamInv, NamesFrom

LEMMA ReadHeaderStream == StreamInv /\ ReadHeader => StreamInv'
<1> SUFFICES ASSUME StreamInv, ReadHeader PROVE StreamInv'
  OBVIOUS
<1>1. HeaderInv'
  BY ReadHeaderHeader DEF StreamInv
<1>2. /\ phase = "header" /\ error = "none" /\ tokens = <<>> /\ dt_struct = <<>>
      /\ bytes.bytes = <<>> /\ tokens' = tokens
  BY DEF StreamInv, ReadHeader, IterateBytes
<1>3. tokens' \in Seq(ReadTokens) /\ Len(tokens') = 0
  BY <1>2, EmptySeq
<1>4. EncodeAll(tokens') = <<>>
  BY <1>2, EncodeNothing
<1>5. PICK failed \in {FirstError(HeaderChecks(dtb))} :
        \/ /\ failed = "none" /\ phase' = "tokens"
           /\ IterateBytes(StructBlock(dtb), Strings(dtb))
        \/ /\ failed # "none" /\ error' = failed
           /\ UNCHANGED <<phase, dt_struct, strings, bytes, tokens>>
  BY DEF ReadHeader
<1>6. CASE failed = "none"
  <2>1. /\ phase' = "tokens" /\ error' = "none" /\ dt_struct' \in Seq(Word)
        /\ bytes' = New(dt_struct', Len(dt_struct') * ElementWidth)
    BY <1>1, <1>2, <1>5, <1>6 DEF IterateBytes, HeaderInv
  <2>2. bytes'.bytes = dt_struct'
    <3>1. PICK b \in Seq(Word) : b = dt_struct'
      BY <2>1
    <3>2. bytes' = [bytes |-> b, padding |-> 0]
      BY <2>1, <3>1, NewWhole
    <3> QED
      BY <3>1, <3>2
  <2>3. <<>> \o dt_struct' = dt_struct'
    BY <2>1, ConcatEmptySeq
  <2> QED
    BY <1>1, <1>3, <1>4, <2>1, <2>2, <2>3 DEF StreamInv, NamesFrom
<1>7. CASE failed # "none"
  <2>1. error' = failed /\ UNCHANGED <<phase, dt_struct, strings, bytes, tokens>>
    BY <1>5, <1>7
  <2>2. failed \in HeaderErrors
    BY <1>5, <1>7, BlobFacts, RefusalExplained DEF StreamInv, HeaderInv
  <2>3. failed \notin {"TooLong", "InvalidCharacters"}
    BY <2>2 DEF HeaderErrors
  <2>4. <<>> \in Seq(Word) /\ <<>> \o <<>> = <<>>
    <3>1. <<>> \in Seq(Word)
      OBVIOUS
    <3> QED
      BY <3>1, ConcatEmptySeq
  <2>5. StoppedAt(tokens', dt_struct', error')
    BY <1>2, <1>4, <2>1, <2>3, <2>4 DEF StoppedAt
  <2>6. error' # "none" /\ phase' = "header" /\ bytes'.bytes = <<>> /\ dt_struct' = <<>>
    BY <1>2, <1>7, <2>1
  <2> QED
    BY <1>1, <1>2, <1>3, <2>5, <2>6 DEF StreamInv, NamesFrom
<1> QED
  BY <1>6, <1>7

LEMMA ReadTokenStream == StreamInv /\ ReadToken => StreamInv'
<1> SUFFICES ASSUME StreamInv, ReadToken PROVE StreamInv'
  OBVIOUS
<1>1. HeaderInv /\ HeaderInv'
  BY ReadTokenHeader DEF StreamInv
<1>2. /\ Yielded \/ Failed
      /\ phase = "tokens" /\ UNCHANGED <<dtb, phase, dt_struct, strings>>
      /\ error = "none" /\ ~ IsEmpty(bytes)
  BY <1>1, TokenRead
<1>3. /\ tokens \in Seq(ReadTokens) /\ EncodeAll(tokens) \o bytes.bytes = dt_struct
      /\ NamesFrom(tokens, strings) /\ strings' = strings
  BY <1>2 DEF StreamInv
<1>4. \A o : NameAt(o) = NameIn(strings, o)
  BY DEF NameAt, NameIn
<1>5. CASE Yielded
  <2>1. PICK t \in AnyToken :
          /\ tokens' = Append(tokens, t) /\ error' = error /\ Took(bytes, Encode(t), bytes')
          /\ t.kind = "Prop" => t.name = NameAt(Number(t.offset))
    BY <1>5 DEF Yielded
  <2>2. t \in ReadTokens
    BY <2>1 DEF ReadTokens, Took
  <2>3. /\ tokens' \in Seq(ReadTokens) /\ Len(tokens') = Len(tokens) + 1
        /\ tokens'[Len(tokens) + 1] = t /\ \A i \in 1..Len(tokens) : tokens'[i] = tokens[i]
    BY <1>3, <2>1, <2>2, AppendProperties
  <2>4. EncodeAll(tokens') = EncodeAll(tokens) \o Encode(t)
    BY <1>3, <2>1, <2>2, EncodeAllAppend
  <2>5. PICK a \in Seq(Word), b \in Seq(Word), c \in Seq(Word) :
          a = EncodeAll(tokens) /\ b = Encode(t) /\ c = bytes'.bytes
    <3>1. EncodeAll(tokens) \in Seq(Word) /\ Encode(t) \in Seq(Word)
      BY <1>3, <2>2, EncodeAllInSeq DEF ReadTokens
    <3>2. bytes'.bytes \in Seq(Word)
      BY <2>1, WholeFacts DEF Took
    <3> QED
      BY <3>1, <3>2
  <2>6. bytes.bytes = b \o c
    BY <2>1, <2>5 DEF Took
  <2>7. (a \o b) \o c = a \o (b \o c)
    BY ConcatAssociative
  <2>8. EncodeAll(tokens') \o bytes'.bytes = dt_struct'
    BY <1>2, <1>3, <2>4, <2>5, <2>6, <2>7
  <2>9. NamesFrom(tokens', strings)
    <3> SUFFICES ASSUME NEW i \in 1..Len(tokens'), tokens'[i].kind = "Prop"
                 PROVE  tokens'[i].name = NameIn(strings, Number(tokens'[i].offset))
      BY DEF NamesFrom
    <3>1. Len(tokens) \in Nat
      BY <1>3, LenProperties
    <3>2. CASE i = Len(tokens) + 1
      <4>1. tokens'[i] = t
        BY <2>3, <3>2
      <4> QED
        BY <1>4, <2>1, <4>1
    <3>3. CASE i # Len(tokens) + 1
      <4>1. i \in 1..Len(tokens)
        BY <2>3, <3>1, <3>3
      <4>2. tokens'[i] = tokens[i]
        BY <2>3, <4>1
      <4> QED
        BY <1>3, <4>1, <4>2 DEF NamesFrom
    <3> QED
      BY <3>2, <3>3
  <2> QED
    BY <1>1, <1>2, <1>3, <2>1, <2>3, <2>8, <2>9 DEF StreamInv
<1>6. CASE Failed
  <2>1. error' \in TokenErrors \ {"none"} /\ tokens' = tokens
    BY <1>6 DEF Failed
  <2>2. PICK ws \in Seq(Word) : ws = bytes.bytes /\ Body.bytes = Tail(ws) /\ Whole(Body)
    BY <1>1, <1>2, WordRead, WholeFacts DEF HeaderInv
  <2>3. Body = [bytes |-> Tail(ws), padding |-> 0]
    BY <2>2, WholeFacts
  <2>4. error' \in {"TooLong", "InvalidCharacters"} => BadName(ws)
    BY <1>6, <2>3 DEF Failed, BadName
  <2>5. EncodeAll(tokens') \o ws = dt_struct'
    BY <1>2, <1>3, <2>1, <2>2
  <2>6. error' # "none" /\ phase' = "tokens"
    BY <1>2, <2>1
  <2>7. StoppedAt(tokens', dt_struct', error')
    BY <2>2, <2>4, <2>5 DEF StoppedAt
  <2> QED
    BY <1>1, <1>3, <2>1, <2>6, <2>7 DEF StreamInv
<1> QED
  BY <1>2, <1>5, <1>6

LEMMA StreamStutters == StreamInv /\ UNCHANGED blobVars => StreamInv'
<1> SUFFICES ASSUME StreamInv, UNCHANGED blobVars PROVE StreamInv'
  OBVIOUS
<1>1. HeaderInv'
  BY HeaderStutters DEF StreamInv
<1>2. UNCHANGED <<dtb, phase, dt_struct, strings, bytes, error, tokens>>
  BY DEF blobVars, tokenVars
<1> QED
  BY <1>1, <1>2 DEF StreamInv

LEMMA StreamHolds == BlobSpec => []StreamInv
<1>1. StreamInv /\ [BlobNext]_blobVars => StreamInv'
  BY ReadHeaderStream, ReadTokenStream, StreamStutters DEF BlobNext
<1> QED
  BY <1>1, InitStream, PTL DEF BlobSpec

LEMMA PrefixOfConcat ==
  ASSUME NEW S, NEW s \in Seq(S), NEW t \in Seq(S)
  PROVE  IsPrefix(s, s \o t)
<1>1. PICK n \in Nat, m \in Nat : n = Len(s) /\ m = Len(t)
  BY LenProperties
<1>2. PICK u \in Seq(S) : /\ u = s \o t /\ Len(u) = n + m
                          /\ \A i \in 1..n + m : u[i] = IF i <= n THEN s[i] ELSE t[i - n]
  <2>1. /\ s \o t \in Seq(S) /\ Len(s \o t) = Len(s) + Len(t)
        /\ \A i \in 1..Len(s) + Len(t) :
             (s \o t)[i] = IF i <= Len(s) THEN s[i] ELSE t[i - Len(s)]
    BY ConcatProperties
  <2> QED
    BY <1>1, <2>1
<1>3. \A i \in 1..n : u[i] \in S /\ s[i] \in S
  <2>1. \A i \in 1..n : s[i] \in S
    BY <1>1, ElementOfSeq
  <2> QED
    BY <1>2, <2>1
<1>4. /\ SubSeq(s, 1, n) \in Seq(S) /\ Len(SubSeq(s, 1, n)) = IF 1 <= n THEN n - 1 + 1 ELSE 0
      /\ \A i \in 1..n - 1 + 1 : SubSeq(s, 1, n)[i] = s[1 + i - 1]
  BY <1>3, SubSeqProperties
<1>5. /\ SubSeq(u, 1, n) \in Seq(S) /\ Len(SubSeq(u, 1, n)) = IF 1 <= n THEN n - 1 + 1 ELSE 0
      /\ \A i \in 1..n - 1 + 1 : SubSeq(u, 1, n)[i] = u[1 + i - 1]
  BY <1>3, SubSeqProperties
<1>6. PICK a \in Seq(S), b \in Seq(S) : a = SubSeq(s, 1, n) /\ b = SubSeq(u, 1, n)
  BY <1>4, <1>5
<1>7. Len(a) = n /\ Len(b) = n /\ \A i \in 1..n : a[i] = s[i] /\ b[i] = u[i] /\ u[i] = s[i]
  BY <1>2, <1>4, <1>5, <1>6
<1>8. a = b
  BY <1>7, SeqEqual
<1> QED
  BY <1>1, <1>2, <1>6, <1>8 DEF IsPrefix

(* Whatever the blob, written back in order the tokens that were read are, *)
(* word for word, the part of the structure block that is gone; no token   *)
(* takes a word that is not its own, an error not one more                 *)
(* (`Token::consume_token`, src/src/dtb.rs).                               *)
THEOREM TokensRoundTrip == BlobSpec => []RoundTrip
<1>1. StreamInv => RoundTrip
  <2> SUFFICES ASSUME StreamInv PROVE RoundTrip
    OBVIOUS
  <2>1. CASE error = "none"
    BY <2>1 DEF StreamInv, RoundTrip
  <2>2. CASE error # "none"
    <3>1. PICK ws \in Seq(Word) : EncodeAll(tokens) \o ws = dt_struct
      BY <2>2 DEF StreamInv, StoppedAt
    <3>2. EncodeAll(tokens) \in Seq(Word)
      BY EncodeAllInSeq DEF StreamInv
    <3>3. IsPrefix(EncodeAll(tokens), EncodeAll(tokens) \o ws)
      BY <3>2, PrefixOfConcat
    <3> QED
      BY <2>2, <3>1, <3>3 DEF RoundTrip
  <2> QED
    BY <2>1, <2>2
<1> QED
  BY <1>1, StreamHolds, PTL
-----------------------------------------------------------------------------
(* A sequence of values of which each is made of the one before.  It is    *)
(* shown to exist for its first values, one more at a time.                *)
IsRecursion(f, V, n, start, step) ==
  /\ f \in [0..n -> V] /\ f[0] = start
  /\ \A i \in 1..n : f[i] = step[i][f[i - 1]]

LEMMA RecursionExists ==
  ASSUME NEW V, NEW n \in Nat, NEW start \in V, NEW step,
         \A i \in 1..n : \A v \in V : step[i][v] \in V
  PROVE  \E f : IsRecursion(f, V, n, start, step)
<1> DEFINE T == {k \in 0..n : ~ \E f : IsRecursion(f, V, k, start, step)}
<1>1. ASSUME T # {} PROVE FALSE
  <2>1. PICK k \in T : \A m \in T : k <= m
    <3>1. T \subseteq Nat
      OBVIOUS
    <3> HIDE DEF T
    <3> QED
      BY <1>1, <3>1, LeastNatural
  <2>2. k \in 0..n /\ ~ \E f : IsRecursion(f, V, k, start, step)
    OBVIOUS
  <2>3. CASE k = 0
    <3> DEFINE f == [i \in 0..0 |-> start]
    <3>1. \A i \in 1..0 : FALSE
      OBVIOUS
    <3>2. IsRecursion(f, V, 0, start, step)
      BY <3>1 DEF IsRecursion
    <3> QED
      BY <2>2, <2>3, <3>2
  <2>4. CASE k # 0
    <3>1. k - 1 \in 0..n /\ ~ (k <= k - 1)
      BY <2>2, <2>4
    <3>2. k - 1 \notin T
      BY <2>1, <3>1
    <3>3. PICK shorter : IsRecursion(shorter, V, k - 1, start, step)
      BY <3>1, <3>2
    <3>4. /\ shorter \in [0..k - 1 -> V] /\ shorter[0] = start
          /\ \A i \in 1..k - 1 : shorter[i] = step[i][shorter[i - 1]]
      BY <3>3 DEF IsRecursion
    <3>5. k \in 1..n /\ k - 1 \in 0..k - 1
      BY <2>2, <2>4
    <3>6. shorter[k - 1] \in V
      BY <3>4, <3>5
    <3>7. step[k][shorter[k - 1]] \in V
      BY <3>5, <3>6
    <3> DEFINE f == [i \in 0..k |-> IF i = k THEN step[k][shorter[k - 1]] ELSE shorter[i]]
    <3>8. f \in [0..k -> V]
      <4>1. ASSUME NEW i \in 0..k PROVE f[i] \in V
        <5>1. CASE i = k
          BY <3>7, <5>1
        <5>2. CASE i # k
          <6>1. i \in 0..k - 1
            BY <2>2, <5>2
          <6> QED
            BY <3>4, <5>2, <6>1
        <5> QED
          BY <5>1, <5>2
      <4> QED
        BY <4>1
    <3>9. f[0] = start
      BY <2>2, <2>4, <3>4
    <3>10. ASSUME NEW i \in 1..k PROVE f[i] = step[i][f[i - 1]]
      <4>1. i - 1 \in 0..k /\ i - 1 # k /\ i \in 0..k
        BY <2>2
      <4>2. f[i - 1] = shorter[i - 1]
        BY <4>1
      <4>3. CASE i = k
        BY <4>1, <4>2, <4>3
      <4>4. CASE i # k
        <5>1. i \in 1..k - 1
          BY <2>2, <4>4
        <5> QED
          BY <3>4, <4>1, <4>2, <4>4, <5>1
      <4> QED
        BY <4>3, <4>4
    <3>11. IsRecursion(f, V, k, start, step)
      BY <3>8, <3>9, <3>10 DEF IsRecursion
    <3> QED
      BY <2>2, <3>11
  <2> QED
    BY <2>3, <2>4
<1>2. n \in 0..n
  OBVIOUS
<1> QED
  BY <1>1, <1>2
-----------------------------------------------------------------------------
(* What dropping words leaves of a slice, padded or not.                   *)
LEMMA SliceFacts ==
  ASSUME NEW s \in Slices
  PROVE  /\ s.bytes \in Seq(Word) /\ s.padding \in 0..3 /\ Len(s.bytes) \in Nat
         /\ RemainingU32s(s) \in Nat /\ RemainingU32s(s) <= Len(s.bytes)
         /\ s.padding = 0 \/ Len(s.bytes) = 0 => RemainingU32s(s) = Len(s.bytes)
         /\ s.padding # 0 /\ Len(s.bytes) # 0 => RemainingU32s(s) = Len(s.bytes) - 1
         /\ IsEmpty(s) <=> Len(s.bytes) = 0
         /\ s = [bytes |-> s.bytes, padding |-> s.padding]
<1>1. /\ s.bytes \in Seq(Word) /\ s.padding \in 0..3
      /\ s = [bytes |-> s.bytes, padding |-> s.padding]
  BY DEF Slices, ElementWidth
<1>2. Len(s.bytes) \in Nat /\ (s.bytes = <<>> <=> Len(s.bytes) = 0)
  BY <1>1, EmptySeq, LenProperties
<1> QED
  BY <1>1, <1>2 DEF RemainingU32s, IsEmpty

LEMMA FirstOfSeq ==
  ASSUME NEW S, NEW ws \in Seq(S), NEW n \in 0..Len(ws)
  PROVE  /\ SubSeq(ws, 1, n) \in Seq(S) /\ Len(SubSeq(ws, 1, n)) = n
         /\ \A i \in 1..n : SubSeq(ws, 1, n)[i] = ws[i]
<1>1. PICK l \in Nat, m \in Nat : l = Len(ws) /\ m = n /\ m <= l
  BY LenProperties
<1>2. \A i \in 1..m : ws[i] \in S
  BY <1>1, ElementOfSeq
<1>3. /\ SubSeq(ws, 1, m) \in Seq(S)
      /\ Len(SubSeq(ws, 1, m)) = IF 1 <= m THEN m - 1 + 1 ELSE 0
      /\ \A i \in 1..m - 1 + 1 : SubSeq(ws, 1, m)[i] = ws[1 + i - 1]
  BY <1>2, SubSeqProperties
<1> QED
  BY <1>1, <1>3

LEMMA LastOfSeq ==
  ASSUME NEW S, NEW ws \in Seq(S), NEW n \in 0..Len(ws)
  PROVE  /\ SubSeq(ws, n + 1, Len(ws)) \in Seq(S)
         /\ Len(SubSeq(ws, n + 1, Len(ws))) = Len(ws) - n
         /\ \A i \in 1..Len(ws) - n : SubSeq(ws, n + 1, Len(ws))[i] = ws[n + i]
<1>1. PICK l \in Nat, m \in Nat : l = Len(ws) /\ m = n /\ m <= l
  BY LenProperties
<1>2. \A i \in m + 1..l : ws[i] \in S
  BY <1>1, ElementOfSeq
<1>3. /\ SubSeq(ws, m + 1, l) \in Seq(S)
      /\ Len(SubSeq(ws, m + 1, l)) = IF m + 1 <= l THEN l - (m + 1) + 1 ELSE 0
      /\ \A i \in 1..l - (m + 1) + 1 : SubSeq(ws, m + 1, l)[i] = ws[m + 1 + i - 1]
  BY <1>2, SubSeqProperties
<1>4. l - (m + 1) + 1 = l - m /\ (IF m + 1 <= l THEN l - (m + 1) + 1 ELSE 0) = l - m
  BY <1>1
<1>5. \A i \in 1..l - m : m + 1 + i - 1 = m + i
  OBVIOUS
<1> QED
  BY <1>1, <1>3, <1>4, <1>5

LEMMA DropFacts ==
  ASSUME NEW s \in Slices, NEW n \in 0..Len(s.bytes)
  PROVE  /\ Drop(s, n) \in Slices /\ Drop(s, n).padding = s.padding
         /\ Drop(s, n) = [bytes |-> SubSeq(s.bytes, n + 1, Len(s.bytes)), padding |-> s.padding]
         /\ Len(Drop(s, n).bytes) = Len(s.bytes) - n
         /\ \A i \in 1..Len(s.bytes) - n : Drop(s, n).bytes[i] = s.bytes[n + i]
<1>1. PICK ws \in Seq(Word), p \in 0..3 :
        ws = s.bytes /\ p = s.padding /\ s = [bytes |-> ws, padding |-> p]
  BY SliceFacts
<1>2. PICK b : b = SubSeq(ws, n + 1, Len(ws))
  OBVIOUS
<1>3. /\ b \in Seq(Word) /\ Len(b) = Len(ws) - n /\ \A i \in 1..Len(ws) - n : b[i] = ws[n + i]
  BY <1>1, <1>2, LastOfSeq
<1>4. Drop(s, n) = [bytes |-> b, padding |-> p]
  <2>1. Drop(s, n) = [s EXCEPT !.bytes = b]
    BY <1>1, <1>2 DEF Drop
  <2>2. [[bytes |-> ws, padding |-> p] EXCEPT !.bytes = b] = [bytes |-> b, padding |-> p]
    OBVIOUS
  <2> QED
    BY <1>1, <2>1, <2>2
<1>5. [bytes |-> b, padding |-> p] \in Slices
  BY <1>3 DEF Slices, ElementWidth
<1>6. PICK d : d = Drop(s, n)
  OBVIOUS
<1>7. d.bytes = b /\ d.padding = p
  BY <1>4, <1>6
<1>8. Len(d.bytes) = Len(ws) - n /\ \A i \in 1..Len(ws) - n : d.bytes[i] = ws[n + i]
  BY <1>3, <1>7
<1>9. d \in Slices /\ d.padding = s.padding
  BY <1>1, <1>4, <1>5, <1>6, <1>7
<1>10. d = [bytes |-> SubSeq(s.bytes, n + 1, Len(s.bytes)), padding |-> s.padding]
  BY <1>1, <1>2, <1>4, <1>6
<1> QED
  BY <1>1, <1>6, <1>8, <1>9, <1>10

(* Dropping twice.                                                         *)
LEMMA DropTwice ==
  ASSUME NEW s \in Slices, NEW m \in 0..Len(s.bytes), NEW n \in 0..Len(s.bytes) - m
  PROVE  Drop(Drop(s, m), n) = Drop(s, m + n)
<1>1. PICK l \in Nat, h \in Nat, k \in Nat : l = Len(s.bytes) /\ h = m /\ k = n /\ h + k <= l
  BY SliceFacts
<1>2. PICK t \in Slices :
        /\ t = Drop(s, h) /\ t.padding = s.padding /\ Len(t.bytes) = l - h
        /\ \A i \in 1..l - h : t.bytes[i] = s.bytes[h + i]
  <2>1. h \in 0..l
    BY <1>1
  <2>2. /\ Drop(s, h) \in Slices /\ Drop(s, h).padding = s.padding
        /\ Len(Drop(s, h).bytes) = Len(s.bytes) - h
        /\ \A i \in 1..Len(s.bytes) - h : Drop(s, h).bytes[i] = s.bytes[h + i]
    BY <1>1, <2>1, DropFacts
  <2> QED
    BY <1>1, <2>2
<1>3. PICK u \in Slices :
        /\ u = Drop(t, k) /\ u.padding = t.padding /\ Len(u.bytes) = l - h - k
        /\ \A i \in 1..l - h - k : u.bytes[i] = t.bytes[k + i]
  <2>1. k \in 0..l - h
    BY <1>1
  <2>2. /\ Drop(t, k) \in Slices /\ Drop(t, k).padding = t.padding
        /\ Len(Drop(t, k).bytes) = Len(t.bytes) - k
        /\ \A i \in 1..Len(t.bytes) - k : Drop(t, k).bytes[i] = t.bytes[k + i]
    BY <1>2, <2>1, DropFacts
  <2> QED
    BY <1>2, <2>2
<1>4. PICK v \in Slices :
        /\ v = Drop(s, h + k) /\ v.padding = s.padding /\ Len(v.bytes) = l - (h + k)
        /\ \A i \in 1..l - (h + k) : v.bytes[i] = s.bytes[h + k + i]
  <2>1. PICK j \in Nat : j = h + k /\ j \in 0..l
    BY <1>1
  <2>2. /\ Drop(s, j) \in Slices /\ Drop(s, j).padding = s.padding
        /\ Len(Drop(s, j).bytes) = Len(s.bytes) - j
        /\ \A i \in 1..Len(s.bytes) - j : Drop(s, j).bytes[i] = s.bytes[j + i]
    BY <1>1, <2>1, DropFacts
  <2> QED
    BY <1>1, <2>1, <2>2
<1>5. ASSUME NEW i \in 1..l - h - k PROVE u.bytes[i] = v.bytes[i]
  <2>1. k + i \in 1..l - h /\ i \in 1..l - (h + k) /\ h + (k + i) = h + k + i
    BY <1>1
  <2>2. u.bytes[i] = s.bytes[h + (k + i)]
    BY <1>2, <1>3, <2>1
  <2> QED
    BY <1>4, <2>1, <2>2
<1>6. u.bytes = v.bytes
  <2>1. u.bytes \in Seq(Word) /\ v.bytes \in Seq(Word)
    BY SliceFacts
  <2>2. PICK a \in Seq(Word), b \in Seq(Word) : a = u.bytes /\ b = v.bytes
    BY <2>1
  <2>3. Len(a) = Len(b) /\ \A i \in 1..Len(a) : a[i] = b[i]
    BY <1>1, <1>3, <1>4, <1>5, <2>2
  <2> QED
    BY <2>2, <2>3, SeqEqual
<1>7. u = v
  BY <1>2, <1>3, <1>4, <1>6, SliceFacts
<1> QED
  BY <1>1, <1>2, <1>3, <1>4, <1>7
-----------------------------------------------------------------------------
(* What consume_cells answers: the cells it took, None, or a panic.        *)
LEMMA DropNothing ==
  ASSUME NEW s \in Slices
  PROVE  Drop(s, 0) = s
<1>1. PICK ws \in Seq(Word), p \in 0..3 :
        ws = s.bytes /\ p = s.padding /\ s = [bytes |-> ws, padding |-> p]
  BY SliceFacts
<1>2. PICK b : b = SubSeq(s.bytes, 0 + 1, Len(s.bytes))
  OBVIOUS
<1>3. b \in Seq(Word) /\ Len(b) = Len(ws) - 0 /\ \A i \in 1..Len(ws) - 0 : b[i] = ws[0 + i]
  <2>1. 0 \in 0..Len(ws)
    BY <1>1
  <2> QED
    BY <1>1, <1>2, <2>1, LastOfSeq
<1>4. b = ws
  <2>1. PICK c \in Seq(Word) : c = b
    BY <1>3
  <2>2. Len(c) = Len(ws) /\ \A i \in 1..Len(c) : c[i] = ws[i]
    <3> HIDE DEF Word
    <3> QED
      BY <1>3, <2>1
  <2> QED
    BY <2>1, <2>2, SeqEqual
<1>5. 0 \in 0..Len(s.bytes)
  BY SliceFacts
<1>6. Drop(s, 0) = [bytes |-> b, padding |-> s.padding]
  BY <1>2, <1>5, DropFacts
<1> QED
  BY <1>1, <1>4, <1>6

LEMMA CellsAreWords ==
  ASSUME NEW ws \in Seq(Word), NEW n \in 2..Len(ws), \A i \in 3..n : ws[i] = ZeroWord
  PROVE  <<ws[1], ws[2]>> \o [i \in 1..n - 2 |-> ZeroWord] = SubSeq(ws, 1, n)
<1>1. PICK l \in Nat, m \in Nat : l = Len(ws) /\ m = n /\ m >= 2 /\ m <= l
  BY LenProperties
<1>2. 1 \in 1..l /\ 2 \in 1..l /\ m \in 0..l /\ m - 2 \in Nat
  BY <1>1
<1>3. ZeroWord \in Word
  BY ByteAssumption DEF ZeroWord, Word, ElementWidth
<1>4. PICK z \in Word, a \in Word, b \in Word : z = ZeroWord /\ a = ws[1] /\ b = ws[2]
  <2>1. ws[1] \in Word /\ ws[2] \in Word
    BY <1>1, <1>2, ElementOfSeq
  <2> HIDE DEF Word
  <2> QED
    BY <1>3, <2>1
<1> HIDE DEF Word
<1>5. PICK k \in Nat : k = m - 2
  BY <1>2
<1> DEFINE two == <<a, b>>
           zeros == [i \in 1..k |-> z]
<1>6. two \in Seq(Word) /\ Len(two) = 2 /\ two[1] = a /\ two[2] = b
  OBVIOUS
<1>7. zeros \in Seq(Word) /\ Len(zeros) = m - 2 /\ \A i \in 1..m - 2 : zeros[i] = z
  BY <1>5
<1> HIDE DEF two, zeros
<1>8. /\ two \o zeros \in Seq(Word) /\ Len(two \o zeros) = m
      /\ \A i \in 1..m : (two \o zeros)[i] = IF i <= 2 THEN two[i] ELSE zeros[i - 2]
  <2>1. /\ two \o zeros \in Seq(Word) /\ Len(two \o zeros) = Len(two) + Len(zeros)
        /\ \A i \in 1..Len(two) + Len(zeros) :
             (two \o zeros)[i] = IF i <= Len(two) THEN two[i] ELSE zeros[i - Len(two)]
    BY <1>6, <1>7, ConcatProperties
  <2>2. Len(two) = 2 /\ Len(two) + Len(zeros) = m
    BY <1>6, <1>7
  <2> QED
    BY <2>1, <2>2
<1>9. PICK first \in Seq(Word) : first = SubSeq(ws, 1, m) /\ Len(first) = m
                                 /\ \A i \in 1..m : first[i] = ws[i]
  <2>1. m \in 0..Len(ws)
    BY <1>1, <1>2
  <2>2. /\ SubSeq(ws, 1, m) \in Seq(Word) /\ Len(SubSeq(ws, 1, m)) = m
        /\ \A i \in 1..m : SubSeq(ws, 1, m)[i] = ws[i]
    BY <2>1, FirstOfSeq
  <2> QED
    BY <2>2
<1>10. ASSUME NEW i \in 1..m PROVE (two \o zeros)[i] = first[i]
  <2>1. CASE i <= 2
    <3>1. i = 1 \/ i = 2
      BY <2>1
    <3>2. (two \o zeros)[i] = two[i]
      BY <1>8, <2>1
    <3>3. two[i] = ws[i]
      BY <1>4, <1>6, <3>1
    <3> QED
      BY <1>9, <3>2, <3>3
  <2>2. CASE ~ (i <= 2)
    <3>1. i \in 3..n /\ i - 2 \in 1..m - 2 /\ ~ (i <= 2)
      BY <1>1, <2>2
    <3>2. (two \o zeros)[i] = z
      BY <1>7, <1>8, <3>1
    <3>3. first[i] = z
      BY <1>4, <1>9, <3>1
    <3> QED
      BY <3>2, <3>3
  <2> QED
    BY <2>1, <2>2
<1>11. two \o zeros = first
  BY <1>8, <1>9, <1>10, SeqEqual
<1>12. two = <<ws[1], ws[2]>> /\ zeros = [i \in 1..n - 2 |-> ZeroWord]
  BY <1>1, <1>4, <1>5 DEF two, zeros
<1> QED
  BY <1>1, <1>9, <1>11, <1>12

TookCells(s, c, r) ==
  /\ r.out \in Word \X Word /\ c <= RemainingU32s(s) /\ r.rest = Drop(s, c)
  /\ Cells(r.out, c) = SubSeq(s.bytes, 1, c)
  /\ c < 2 => r.out[1] = ZeroWord

NoCells(s, c, r) == r.out = None /\ RemainingU32s(s) < c /\ r.rest \in Slices

WideCells(s, c, r) ==
  /\ r.out = Panic /\ c > 2 /\ r.rest \in Slices
  /\ RemainingU32s(s) < c \/ \E i \in 3..c : s.bytes[i] # ZeroWord

LEMMA CellsTaken ==
  ASSUME NEW s \in Slices, NEW c \in 0..255
  PROVE  \/ TookCells(s, c, ConsumeCells(s, c))
         \/ NoCells(s, c, ConsumeCells(s, c))
         \/ WideCells(s, c, ConsumeCells(s, c))
<1>1. PICK ws \in Seq(Word), l \in Nat, u \in Nat :
        ws = s.bytes /\ l = Len(ws) /\ u = RemainingU32s(s) /\ u <= l
  <2>1. s.bytes \in Seq(Word) /\ Len(s.bytes) \in Nat /\ RemainingU32s(s) \in Nat
        /\ RemainingU32s(s) <= Len(s.bytes)
    BY SliceFacts
  <2> QED
    BY <2>1
<1>2. ZeroWord \in Word /\ None \notin Word \X Word /\ None \notin Word /\ None # Panic
  BY NoAnswer, ByteAssumption DEF ZeroWord, Word, ElementWidth
<1>3. \A i \in 1..u : ws[i] \in Word
  BY <1>1, ElementOfSeq
<1>4. \A n \in 0..l : Drop(s, n) \in Slices
  BY <1>1, DropFacts
<1> HIDE DEF Word, ZeroWord
<1>5. CASE c = 0
  <2>1. ConsumeCells(s, c) = Answer(<<ZeroWord, ZeroWord>>, s)
    BY <1>5 DEF ConsumeCells
  <2>2. SubSeq(ws, 1, 0) = <<>>
    BY SubSeqEmpty
  <2>3. TookCells(s, 0, Answer(<<ZeroWord, ZeroWord>>, s))
    BY <1>1, <1>2, <2>2, DropNothing DEF TookCells, Answer, Cells
  <2> QED
    BY <1>5, <2>1, <2>3
<1>6. CASE c = 1
  <2>1. ConsumeCells(s, c) = ConsumeOne(s)
    BY <1>6 DEF ConsumeCells
  <2>2. CASE u >= 1
    <3>1. ConsumeU32(s) = Answer(ws[1], Drop(s, 1)) /\ ws[1] \in Word
      BY <1>1, <1>3, <2>2 DEF ConsumeU32
    <3>2. ConsumeOne(s) = Answer(<<ZeroWord, ws[1]>>, Drop(s, 1))
      BY <1>2, <3>1 DEF ConsumeOne, Answer
    <3>3. <<ws[1]>> = SubSeq(ws, 1, 1)
      <4>1. 1 \in 0..Len(ws)
        BY <1>1, <2>2
      <4>2. PICK first \in Seq(Word) :
              first = SubSeq(ws, 1, 1) /\ Len(first) = 1 /\ \A i \in 1..1 : first[i] = ws[i]
        <5>1. ws \in Seq(Word)
          BY <1>1
        <5>2. /\ SubSeq(ws, 1, 1) \in Seq(Word) /\ Len(SubSeq(ws, 1, 1)) = 1
              /\ \A i \in 1..1 : SubSeq(ws, 1, 1)[i] = ws[i]
          BY <4>1, <5>1, FirstOfSeq
        <5> QED
          BY <5>2
      <4>3. PICK w \in Word : w = first[1]
        BY <4>2, ElementOfSeq
      <4>4. <<w>> \in Seq(Word) /\ Len(<<w>>) = 1 /\ <<w>>[1] = w
        OBVIOUS
      <4>5. \A i \in 1..Len(first) : first[i] = <<w>>[i]
        BY <4>2, <4>3, <4>4
      <4>6. first = <<w>>
        BY <4>2, <4>4, <4>5, SeqEqual
      <4>7. w = ws[1]
        BY <4>2, <4>3
      <4> QED
        BY <4>2, <4>6, <4>7
    <3>4. TookCells(s, 1, Answer(<<ZeroWord, ws[1]>>, Drop(s, 1)))
      BY <1>1, <1>2, <2>2, <3>1, <3>3 DEF TookCells, Answer, Cells
    <3> QED
      BY <1>6, <2>1, <3>2, <3>4
  <2>3. CASE ~ (u >= 1)
    <3>1. ConsumeOne(s) = Answer(None, s)
      BY <1>1, <2>3 DEF ConsumeU32, ConsumeOne, Answer
    <3>2. NoCells(s, 1, Answer(None, s))
      BY <1>1, <2>3 DEF NoCells, Answer
    <3> QED
      BY <1>6, <2>1, <3>1, <3>2
  <2> QED
    BY <2>2, <2>3
<1>7. ASSUME u >= 2 PROVE ConsumeU64(s) = Answer(<<ws[1], ws[2]>>, Drop(s, 2))
                          /\ ws[1] \in Word /\ ws[2] \in Word
  BY <1>1, <1>3, <1>7 DEF ConsumeU64
<1>8. ASSUME ~ (u >= 2) PROVE ConsumeU64(s) = Answer(None, s)
  BY <1>1, <1>8 DEF ConsumeU64
<1>9. CASE c = 2
  <2>1. ConsumeCells(s, c) = ConsumeU64(s)
    BY <1>9 DEF ConsumeCells
  <2>2. CASE u >= 2
    <3>1. <<ws[1], ws[2]>> \o [i \in 1..2 - 2 |-> ZeroWord] = SubSeq(ws, 1, 2)
      <4>1. 2 \in 2..Len(ws) /\ \A i \in 3..2 : ws[i] = ZeroWord
        BY <1>1, <2>2
      <4> QED
        BY <4>1, CellsAreWords
    <3>2. Cells(<<ws[1], ws[2]>>, 2) = SubSeq(ws, 1, 2)
      BY <3>1 DEF Cells
    <3>3. TookCells(s, 2, Answer(<<ws[1], ws[2]>>, Drop(s, 2)))
      BY <1>1, <1>7, <2>2, <3>2 DEF TookCells, Answer
    <3> QED
      BY <1>7, <1>9, <2>1, <2>2, <3>3
  <2>3. CASE ~ (u >= 2)
    <3>1. NoCells(s, 2, Answer(None, s))
      BY <1>1, <2>3 DEF NoCells, Answer
    <3> QED
      BY <1>8, <1>9, <2>1, <2>3, <3>1
  <2> QED
    BY <2>2, <2>3
<1>10. CASE c > 2
  <2>1. ConsumeCells(s, c) = ConsumeMany(s, c)
    BY <1>10 DEF ConsumeCells
  <2>2. CASE u >= 2
    <3>1. PICK t \in Slices :
            /\ t = Drop(s, 2) /\ t.padding = s.padding /\ Len(t.bytes) = l - 2
            /\ \A i \in 1..l - 2 : t.bytes[i] = ws[2 + i]
      <4>1. 2 \in 0..Len(s.bytes)
        BY <1>1, <2>2
      <4>2. /\ Drop(s, 2) \in Slices /\ Drop(s, 2).padding = s.padding
            /\ Len(Drop(s, 2).bytes) = Len(s.bytes) - 2
            /\ \A i \in 1..Len(s.bytes) - 2 : Drop(s, 2).bytes[i] = s.bytes[2 + i]
        BY <4>1, DropFacts
      <4> QED
        BY <1>1, <4>2
    <3>2. RemainingU32s(t) = u - 2
      BY <1>1, <2>2, <3>1, SliceFacts
    <3>3. PICK more \in Nat : more = c - 2
      BY <1>10
    <3>4. ConsumeMany(s, c) = IF u - 2 >= more /\ \A i \in 1..more : t.bytes[i] = ZeroWord
                              THEN Answer(<<ws[1], ws[2]>>, Drop(t, more)) ELSE Answer(Panic, t)
      BY <1>7, <2>2, <3>1, <3>2, <3>3 DEF ConsumeMany, Answer
    <3>5. ASSUME u - 2 >= more, NEW i \in 3..c
          PROVE  t.bytes[i - 2] = ws[i] /\ i - 2 \in 1..more
      BY <1>1, <3>1, <3>3, <3>5
    <3>6. CASE u - 2 >= more /\ \A i \in 1..more : t.bytes[i] = ZeroWord
      <4>1. c \in 2..Len(ws)
        BY <1>1, <1>10, <3>3, <3>6
      <4>2. ASSUME NEW i \in 3..c PROVE ws[i] = ZeroWord
        BY <3>5, <3>6
      <4>3. <<ws[1], ws[2]>> \o [i \in 1..c - 2 |-> ZeroWord] = SubSeq(ws, 1, c)
        BY <4>1, <4>2, CellsAreWords
      <4>4. Cells(<<ws[1], ws[2]>>, c) = SubSeq(ws, 1, c)
        <5>1. c # 0 /\ c # 1
          BY <1>10
        <5> QED
          BY <4>3, <5>1, Zenon DEF Cells
      <4>5. Drop(t, more) = Drop(s, c)
        <5>1. 2 \in 0..Len(s.bytes) /\ more \in 0..Len(s.bytes) - 2 /\ 2 + more = c
          BY <1>1, <3>3, <3>6
        <5> QED
          BY <3>1, <5>1, DropTwice
      <4>6. c <= u
        BY <3>3, <3>6
      <4>7. <<ws[1], ws[2]>> \in Word \X Word /\ ~ (c < 2)
        BY <1>7, <1>10, <2>2
      <4>8. TookCells(s, c, Answer(<<ws[1], ws[2]>>, Drop(s, c)))
        BY <1>1, <4>4, <4>6, <4>7 DEF TookCells, Answer
      <4> QED
        BY <2>1, <3>4, <3>6, <4>5, <4>8
    <3>7. CASE ~ (u - 2 >= more /\ \A i \in 1..more : t.bytes[i] = ZeroWord)
      <4>1. u < c \/ \E i \in 3..c : ws[i] # ZeroWord
        <5>1. CASE ~ (u - 2 >= more)
          BY <3>3, <5>1
        <5>2. CASE u - 2 >= more
          <6>1. PICK i \in 1..more : t.bytes[i] # ZeroWord
            BY <3>7, <5>2
          <6>2. i + 2 \in 3..c /\ i + 2 - 2 = i
            BY <3>3
          <6> QED
            BY <3>5, <5>2, <6>1, <6>2
        <5> QED
          BY <5>1, <5>2
      <4>2. WideCells(s, c, Answer(Panic, t))
        BY <1>1, <1>10, <3>1, <4>1 DEF WideCells, Answer
      <4> QED
        BY <2>1, <3>4, <3>7, <4>2
    <3> QED
      BY <3>6, <3>7
  <2>3. CASE ~ (u >= 2)
    <3>1. ConsumeMany(s, c) \in {Answer(None, Drop(s, c - 2)), Answer(Panic, s)}
      BY <1>8, <2>3 DEF ConsumeMany, Answer
    <3>2. u >= c - 2 \/ ConsumeMany(s, c) = Answer(Panic, s)
      BY <1>1, <1>8, <2>3 DEF ConsumeMany, Answer
    <3>3. CASE ConsumeMany(s, c) = Answer(Panic, s)
      <4>1. RemainingU32s(s) < c
        BY <1>1, <1>10, <2>3
      <4>2. WideCells(s, c, Answer(Panic, s))
        BY <1>10, <4>1 DEF WideCells, Answer
      <4> QED
        BY <2>1, <3>3, <4>2
    <3>4. CASE ConsumeMany(s, c) # Answer(Panic, s)
      <4>1. c - 2 \in 0..l
        BY <1>1, <1>10, <3>2, <3>4
      <4>2. Drop(s, c - 2) \in Slices
        BY <1>4, <4>1
      <4>3. NoCells(s, c, Answer(None, Drop(s, c - 2)))
        BY <1>1, <1>10, <2>3, <4>2 DEF NoCells, Answer
      <4> QED
        BY <2>1, <3>1, <3>4, <4>3
    <3> QED
      BY <3>3, <3>4
  <2> QED
    BY <2>2, <2>3
<1> QED
  BY <1>5, <1>6, <1>9, <1>10
-----------------------------------------------------------------------------
(* What the widths of a group are.                                         *)
LEMMA CountsFacts ==
  ASSUME counts \in Seq(0..255)
  PROVE  /\ Len(counts) \in Nat
         /\ \A i \in 1..Len(counts) : counts[i] \in 0..255 /\ counts[i] \in Nat
<1> DEFINE Width == 0..255
<1>1. Width \subseteq Nat
  OBVIOUS
<1>2. counts \in Seq(Width)
  OBVIOUS
<1> HIDE DEF Width
<1>3. Len(counts) \in Nat /\ counts \in [1..Len(counts) -> Width]
  BY <1>2, LenProperties
<1>4. \A i \in 1..Len(counts) : counts[i] \in Width /\ counts[i] \in Nat
  BY <1>1, <1>3
<1> QED
  BY <1>3, <1>4 DEF Width

(* The cells of the first integers of a group: the widths, summed up.      *)
LEMMA CellsOfSteps ==
  ASSUME counts \in Seq(0..255)
  PROVE  /\ CellsOf \in [0..Len(counts) -> Nat] /\ CellsOf[0] = 0
         /\ \A i \in 1..Len(counts) : CellsOf[i] = CellsOf[i - 1] + counts[i]
<1>1. PICK k \in Nat : k = Len(counts)
  BY LenProperties
<1>2. \A i \in 1..k : counts[i] \in Nat
  BY <1>1, CountsFacts
<1> DEFINE step == [i \in 1..k |-> [n \in Nat |-> n + counts[i]]]
<1>3. \A i \in 1..k : \A n \in Nat : step[i][n] = n + counts[i] /\ step[i][n] \in Nat
  BY <1>2
<1>4. 0 \in Nat
  OBVIOUS
<1> HIDE DEF step
<1>5. PICK f : IsRecursion(f, Nat, k, 0, step)
  BY <1>3, <1>4, RecursionExists
<1>6. f \in [0..k -> Nat] /\ f[0] = 0 /\ \A i \in 1..k : f[i] = f[i - 1] + counts[i]
  <2>1. /\ f \in [0..k -> Nat] /\ f[0] = 0
        /\ \A i \in 1..k : f[i] = step[i][f[i - 1]]
    BY <1>5 DEF IsRecursion
  <2>2. \A i \in 1..k : i - 1 \in 0..k
    OBVIOUS
  <2> QED
    BY <1>3, <2>1, <2>2
<1>7. f = [n \in 0..k |-> IF n = 0 THEN 0 ELSE f[n - 1] + counts[n]]
  <2>1. ASSUME NEW n \in 0..k PROVE f[n] = IF n = 0 THEN 0 ELSE f[n - 1] + counts[n]
    <3>1. n = 0 \/ n \in 1..k
      OBVIOUS
    <3> QED
      BY <1>6, <3>1
  <2>2. f = [n \in 0..k |-> f[n]]
    BY <1>6
  <2> QED
    BY <2>1, <2>2
<1>8. CellsOf = [n \in 0..k |-> IF n = 0 THEN 0 ELSE CellsOf[n - 1] + counts[n]]
  BY <1>1, <1>7 DEF CellsOf
<1>9. PICK h : h = CellsOf
  OBVIOUS
<1>10. h = [n \in 0..k |-> IF n = 0 THEN 0 ELSE h[n - 1] + counts[n]]
  BY <1>8, <1>9
<1> DEFINE Wrong == {n \in 0..k : h[n] # f[n]}
<1>11. ASSUME Wrong # {} PROVE FALSE
  <2>1. PICK n \in Wrong : \A m \in Wrong : n <= m
    <3>1. Wrong \subseteq Nat
      OBVIOUS
    <3> HIDE DEF Wrong
    <3> QED
      BY <1>11, <3>1, LeastNatural
  <2>2. n \in 0..k /\ h[n] # f[n]
    OBVIOUS
  <2>3. n # 0
    BY <1>6, <1>10, <2>2
  <2>4. n - 1 \in 0..k /\ ~ (n <= n - 1) /\ n \in 1..k
    BY <2>2, <2>3
  <2>5. h[n - 1] = f[n - 1]
    BY <2>1, <2>4
  <2> QED
    BY <1>6, <1>10, <2>2, <2>4, <2>5
<1>12. h = f
  <2>1. \A n \in 0..k : h[n] = f[n]
    BY <1>11
  <2>2. h = [n \in 0..k |-> h[n]]
    BY <1>10
  <2>3. f = [n \in 0..k |-> f[n]]
    BY <1>6
  <2> QED
    BY <2>1, <2>2, <2>3
<1> QED
  BY <1>1, <1>6, <1>9, <1>12

LEMMA CellsOfStay == counts' = counts => CellsOf' = CellsOf
  BY DEF CellsOf

(* The sums only grow.                                                     *)
LEMMA CellsOfGrow ==
  ASSUME counts \in Seq(0..255), NEW i \in 0..Len(counts)
  PROVE  CellsOf[i] \in Nat /\ CellsOf[i] <= Total
<1>1. PICK k \in Nat : k = Len(counts)
  BY LenProperties
<1>2. PICK h : h = CellsOf
  OBVIOUS
<1>3. h \in [0..k -> Nat] /\ \A j \in 1..k : h[j] = h[j - 1] + counts[j]
  BY <1>1, <1>2, CellsOfSteps
<1>4. \A j \in 1..k : counts[j] \in Nat
  BY <1>1, CountsFacts
<1> DEFINE Wrong == {d \in 0..k : ~ (h[k - d] <= h[k])}
<1>5. ASSUME Wrong # {} PROVE FALSE
  <2>1. PICK d \in Wrong : \A m \in Wrong : d <= m
    <3>1. Wrong \subseteq Nat
      OBVIOUS
    <3> HIDE DEF Wrong
    <3> QED
      BY <1>5, <3>1, LeastNatural
  <2>2. d \in 0..k /\ ~ (h[k - d] <= h[k])
    OBVIOUS
  <2>3. h[k] \in Nat
    BY <1>3
  <2>4. d # 0
    BY <2>2, <2>3
  <2>5. d - 1 \in 0..k /\ ~ (d <= d - 1) /\ k - d + 1 \in 1..k /\ k - d \in 0..k
        /\ k - (d - 1) = k - d + 1 /\ k - d + 1 - 1 = k - d
    BY <2>2, <2>4
  <2>6. h[k - d + 1] <= h[k]
    BY <2>1, <2>5
  <2>7. h[k - d + 1] = h[k - d] + counts[k - d + 1] /\ counts[k - d + 1] \in Nat
    BY <1>3, <1>4, <2>5
  <2>8. h[k - d] \in Nat
    BY <1>3, <2>5
  <2>9. PICK a \in Nat, b \in Nat, c \in Nat :
          a = h[k - d] /\ b = h[k] /\ c = counts[k - d + 1]
    BY <2>3, <2>7, <2>8
  <2>10. a + c <= b /\ ~ (a <= b)
    BY <2>2, <2>6, <2>7, <2>9
  <2> QED
    BY <2>10
<1>6. k - i \in 0..k /\ k - (k - i) = i
  BY <1>1
<1>7. h[i] <= h[k]
  BY <1>5, <1>6
<1> QED
  BY <1>1, <1>3, <1>7, <1>2 DEF Total

(* Multiples of the width of a group.                                      *)
LEMMA MultipleDivides ==
  ASSUME NEW T \in Nat \ {0}, NEW g \in Nat
  PROVE  (g * T) % T = 0
  OBVIOUS

LEMMA NextMultiple ==
  ASSUME NEW T \in Nat \ {0}, NEW g \in Nat, NEW l \in Nat, l % T = 0, g * T < l
  PROVE  g * T + T <= l
<1>1. PICK q \in Nat : l = q * T
  <2>1. l \div T \in Nat /\ l = (l \div T) * T + (l % T)
    OBVIOUS
  <2> QED
    BY <2>1
<1>2. CASE q <= g
  <2>1. q * T <= g * T
    BY <1>2
  <2> QED
    BY <1>1, <2>1
<1>3. CASE q >= g + 1
  <2>1. (g + 1) * T <= q * T
    BY <1>3
  <2>2. (g + 1) * T = g * T + T
    OBVIOUS
  <2> QED
    BY <1>1, <2>1, <2>2
<1> QED
  BY <1>2, <1>3

LEMMA TakeAfterDrop ==
  ASSUME NEW s \in Slices, NEW m \in 0..Len(s.bytes), NEW n \in 0..Len(s.bytes) - m
  PROVE  /\ SubSeq(Drop(s, m).bytes, 1, n) = SubSeq(s.bytes, m + 1, m + n)
         /\ \A i \in 1..n : SubSeq(s.bytes, m + 1, m + n)[i] = Drop(s, m).bytes[i]
<1>1. PICK ws \in Seq(Word), l \in Nat, h \in Nat, k \in Nat :
        ws = s.bytes /\ l = Len(ws) /\ h = m /\ k = n /\ h + k <= l
  <2>1. s.bytes \in Seq(Word) /\ Len(s.bytes) \in Nat
    BY SliceFacts
  <2> QED
    BY <2>1
<1>2. /\ Drop(s, h).bytes \in Seq(Word) /\ Len(Drop(s, h).bytes) = l - h
      /\ \A i \in 1..l - h : Drop(s, h).bytes[i] = ws[h + i]
  <2>1. h \in 0..Len(s.bytes)
    BY <1>1
  <2>2. /\ Drop(s, h) \in Slices /\ Len(Drop(s, h).bytes) = Len(s.bytes) - h
        /\ \A i \in 1..Len(s.bytes) - h : Drop(s, h).bytes[i] = s.bytes[h + i]
    BY <2>1, DropFacts
  <2> QED
    BY <1>1, <2>2, SliceFacts
<1>3. PICK ds \in Seq(Word) : ds = Drop(s, h).bytes
  BY <1>2
<1>4. PICK a \in Seq(Word) :
        a = SubSeq(ds, 1, k) /\ Len(a) = k /\ \A i \in 1..k : a[i] = ds[i]
  <2>1. k \in 0..Len(ds)
    BY <1>1, <1>2, <1>3
  <2> QED
    BY <2>1, FirstOfSeq
<1>5. /\ SubSeq(ws, h + 1, h + k) \in Seq(Word) /\ Len(SubSeq(ws, h + 1, h + k)) = k
      /\ \A i \in 1..k : SubSeq(ws, h + 1, h + k)[i] = ws[h + i]
  <2>1. PICK p \in Int, q \in Int : p = h + 1 /\ q = h + k
    OBVIOUS
  <2>2. \A i \in p..q : ws[i] \in Word
    BY <1>1, <2>1, ElementOfSeq
  <2>3. /\ SubSeq(ws, p, q) \in Seq(Word)
        /\ Len(SubSeq(ws, p, q)) = IF p <= q THEN q - p + 1 ELSE 0
        /\ \A i \in 1..q - p + 1 : SubSeq(ws, p, q)[i] = ws[p + i - 1]
    BY <2>2, SubSeqProperties
  <2>4. /\ q - p + 1 = k /\ (IF p <= q THEN q - p + 1 ELSE 0) = k
        /\ \A i \in 1..k : p + i - 1 = h + i
    BY <2>1
  <2> QED
    BY <2>1, <2>3, <2>4
<1>6. PICK b \in Seq(Word) : b = SubSeq(ws, h + 1, h + k)
  BY <1>5
<1>7. Len(a) = Len(b) /\ \A i \in 1..k : a[i] = b[i] /\ b[i] = ds[i]
  BY <1>1, <1>2, <1>3, <1>4, <1>5, <1>6
<1>8. a = b
  BY <1>4, <1>7, SeqEqual
<1> QED
  BY <1>1, <1>3, <1>4, <1>6, <1>7, <1>8
-----------------------------------------------------------------------------
(* The words read so far: those of whole groups and of the first integers  *)
(* of another.                                                             *)
Position == Len(list) * Total + CellsOf[Len(group)]

IsInPlace(integer, i, start) ==
  /\ Cells(integer, counts[i]) = WordsAt(start + CellsOf[i - 1], counts[i])
  /\ counts[i] < 2 => integer[1] = ZeroWord

(* While it reads, the reader is where the widths say, not beyond the      *)
(* words it may take, and a group is begun only if a word is left for it.  *)
Positioned ==
  /\ Position <= Len(value.bytes) /\ rest = Drop(value, Position)
  /\ value.padding > 0 => Position < Len(value.bytes)
  /\ group # <<>> => Len(list) * Total < Len(value.bytes)
  /\ \A i \in 1..Len(group) : IsInPlace(group[i], i, Len(list) * Total)

ReaderInv ==
  /\ TypeOK /\ loop \in {"checked", "pairs"}
  /\ loop = "pairs" => Len(counts) = 2 /\ counts[2] > 0
  /\ CellsInPlace /\ CellVerdictIsExact
  /\ out = "reading" => Positioned

LEMMA ReaderFacts ==
  ASSUME TypeOK
  PROVE  /\ value \in Slices /\ Len(value.bytes) \in Nat
         /\ value.padding > 0 => Len(value.bytes) > 0
         /\ counts \in Seq(0..255) /\ Len(counts) \in Nat
         /\ Len(group) \in Nat /\ Len(list) \in Nat /\ Total \in Nat
         /\ Len(counts) = 0 => Total = 0
<1>1. value \in NewSlices
  BY ValuesAssumption DEF TypeOK
<1>2. value \in Slices /\ (value.bytes = <<>> => value.padding = 0)
  BY <1>1 DEF NewSlices
<1>3. /\ Len(value.bytes) \in Nat /\ (Len(value.bytes) = 0 => value.bytes = <<>>)
      /\ value.padding \in 0..3
  BY <1>2, SliceFacts DEF IsEmpty
<1>4. counts \in Seq(0..255)
  BY CellCountsAssumption DEF TypeOK
<1>5. Len(counts) \in Nat
  BY <1>4, CountsFacts
<1>6. Len(group) \in Nat /\ Len(list) \in Nat
  BY LenProperties DEF TypeOK
<1>7. Len(counts) \in 0..Len(counts)
  BY <1>5
<1>8. Total \in Nat /\ (Len(counts) = 0 => Total = 0)
  BY <1>4, <1>7, CellsOfGrow, CellsOfSteps DEF Total
<1> QED
  BY <1>2, <1>3, <1>4, <1>5, <1>6, <1>8

LEMMA ReaderStarts ==
  ASSUME Init
  PROVE  ReaderInv
<1>1. value \in Values /\ counts \in CellCounts /\ value \in Slices
  BY ValuesAssumption DEF Init, NewSlices
<1>2. group = <<>> /\ list = <<>> /\ out = "reading" /\ rest = value
  BY DEF Init
<1>3. /\ <<>> \in Seq(Word \X Word) /\ <<>> \in Seq([1..Len(counts) -> Word \X Word])
      /\ Len(<<>>) = 0
  BY EmptySeq
<1>4. TypeOK
  BY <1>1, <1>2, <1>3 DEF TypeOK
<1>5. /\ value.padding > 0 => Len(value.bytes) > 0
      /\ Len(value.bytes) \in Nat /\ counts \in Seq(0..255) /\ Total \in Nat
  BY <1>4, ReaderFacts
<1>6. Position = 0
  <2>1. CellsOf[0] = 0 /\ 0 * Total = 0
    BY <1>5, CellsOfSteps
  <2> QED
    BY <1>2, <1>3, <2>1 DEF Position
<1>7. Positioned
  <2>1. rest = Drop(value, 0)
    BY <1>1, <1>2, DropNothing
  <2>2. \A i \in 1..0 : FALSE
    OBVIOUS
  <2> QED
    BY <1>2, <1>3, <1>5, <1>6, <2>1, <2>2 DEF Positioned
<1>8. CellsInPlace
  <2>1. \A i \in 1..0 : FALSE
    OBVIOUS
  <2> QED
    BY <1>2, <1>3, <2>1 DEF CellsInPlace
<1>9. CellVerdictIsExact
  BY <1>2 DEF CellVerdictIsExact
<1> QED
  BY <1>4, <1>7, <1>8, <1>9 DEF Init, ReaderInv

LEMMA ReaderRefuses ==
  ASSUME ReaderInv, Refuse
  PROVE  ReaderInv'
<1>1. /\ TypeOK /\ loop = "checked" /\ out = "reading" /\ ~ LengthChecked
      /\ CellsInPlace
      /\ UNCHANGED <<value, counts, loop, rest, group, list>>
      /\ out' = IF value.padding = 0 /\ Total = 0 /\ IsEmpty(value) THEN "Some" ELSE "None"
  BY DEF ReaderInv, Refuse, LengthChecked, inputs
<1>2. TypeOK'
  BY <1>1 DEF TypeOK
<1>3. CellsOf' = CellsOf /\ Total' = Total
  BY <1>1, CellsOfStay DEF Total
<1>4. CellsInPlace'
  BY <1>1, <1>3 DEF CellsInPlace, WordsAt
<1>5. /\ Len(value.bytes) \in Nat /\ Len(list) \in Nat /\ Total \in Nat
      /\ (IsEmpty(value) <=> Len(value.bytes) = 0)
  BY <1>1, ReaderFacts, SliceFacts
<1>6. WholeGroups' <=> WholeGroups
  BY <1>1, <1>3 DEF WholeGroups, IsEmpty
<1>7. CellVerdictIsExact'
  <2>1. CASE value.padding = 0 /\ Total = 0 /\ IsEmpty(value)
    <3>1. out' = "Some" /\ Len(value.bytes) = 0 /\ Len(list) * 0 = 0 /\ WholeGroups
      BY <1>1, <1>5, <2>1 DEF WholeGroups
    <3> QED
      BY <1>1, <1>3, <1>6, <2>1, <3>1 DEF CellVerdictIsExact
  <2>2. CASE ~ (value.padding = 0 /\ Total = 0 /\ IsEmpty(value))
    <3>1. ASSUME WholeGroups PROVE FALSE
      <4>1. CASE Total > 0
        BY <1>1, <3>1, <4>1 DEF WholeGroups, LengthChecked
      <4>2. CASE ~ (Total > 0)
        <5>1. Total = 0
          BY <1>5, <4>2
        <5> QED
          BY <2>2, <3>1, <5>1 DEF WholeGroups
      <4> QED
        BY <4>1, <4>2
    <3>2. out' = "None"
      BY <1>1, <2>2
    <3> QED
      BY <1>6, <3>1, <3>2 DEF CellVerdictIsExact
  <2> QED
    BY <2>1, <2>2
<1> QED
  BY <1>1, <1>2, <1>4, <1>7 DEF ReaderInv

LEMMA GroupsHaveCells ==
  ASSUME TypeOK, loop \in {"checked", "pairs"}, LengthChecked,
         loop = "pairs" => Len(counts) = 2 /\ counts[2] > 0
  PROVE  Total > 0 /\ Len(counts) > 0
<1>1. counts \in Seq(0..255) /\ Len(counts) \in Nat /\ (Len(counts) = 0 => Total = 0)
  BY ReaderFacts
<1>2. Total > 0
  <2>1. CASE loop = "checked"
    BY <2>1 DEF LengthChecked
  <2>2. CASE loop = "pairs"
    <3>1. Len(counts) = 2 /\ counts[2] > 0 /\ counts[2] \in Nat
      <4>1. Len(counts) = 2 /\ counts[2] > 0
        BY <2>2
      <4>2. \A i \in 1..2 : counts[i] \in Nat
        BY <1>1, <4>1, CountsFacts
      <4> QED
        BY <4>1, <4>2
    <3>2. CellsOf[2] = CellsOf[1] + counts[2] /\ CellsOf[1] \in Nat
      BY <1>1, <3>1, CellsOfSteps
    <3> QED
      BY <3>1, <3>2 DEF Total
  <2> QED
    BY <2>1, <2>2
<1> QED
  BY <1>1, <1>2

LEMMA ReaderFinishes ==
  ASSUME ReaderInv, Finish
  PROVE  ReaderInv'
<1>1. /\ TypeOK /\ loop \in {"checked", "pairs"} /\ out = "reading" /\ LengthChecked
      /\ loop = "pairs" => Len(counts) = 2 /\ counts[2] > 0
      /\ CellsInPlace /\ Positioned /\ IsEmpty(rest) /\ group = <<>>
      /\ UNCHANGED <<value, counts, loop, rest, group, list>>
      /\ out' = "Some"
  BY DEF ReaderInv, Finish, Looping, inputs
<1>2. TypeOK'
  BY <1>1 DEF TypeOK
<1>3. CellsOf' = CellsOf /\ Total' = Total
  BY <1>1, CellsOfStay DEF Total
<1>4. CellsInPlace'
  BY <1>1, <1>3 DEF CellsInPlace, WordsAt
<1>5. /\ value \in Slices /\ Len(value.bytes) \in Nat /\ Len(list) \in Nat /\ Total \in Nat
      /\ counts \in Seq(0..255) /\ value.padding \in 0..3
  BY <1>1, ReaderFacts, SliceFacts
<1>6. Position = Len(list) * Total
  <2>1. CellsOf[0] = 0 /\ Len(list) * Total \in Nat /\ Len(group) = 0
    BY <1>1, <1>5, CellsOfSteps, EmptySeq
  <2> QED
    BY <2>1 DEF Position
<1>7. PICK p \in Nat : p = Len(list) * Total /\ p <= Len(value.bytes) /\ rest = Drop(value, p)
  <2>1. Len(list) * Total \in Nat
    BY <1>5
  <2> QED
    BY <1>1, <1>6, <2>1 DEF Positioned
<1>8. Len(value.bytes) = p
  <2>1. p \in 0..Len(value.bytes)
    BY <1>5, <1>7
  <2>2. Drop(value, p) \in Slices /\ Len(Drop(value, p).bytes) = Len(value.bytes) - p
    BY <1>5, <2>1, DropFacts
  <2>3. Len(rest.bytes) = 0
    BY <1>1, <1>7, <2>2, SliceFacts
  <2>4. PICK l \in Nat : l = Len(value.bytes)
    BY <1>5
  <2>5. l - p = 0
    BY <1>7, <2>2, <2>3, <2>4
  <2> QED
    BY <2>4, <2>5
<1>9. value.padding = 0
  BY <1>1, <1>5, <1>6, <1>7, <1>8 DEF Positioned
<1>10. Total > 0
  BY <1>1, GroupsHaveCells
<1>11. WholeGroups
  <2>1. (Len(list) * Total) % Total = 0
    BY <1>5, <1>10, MultipleDivides
  <2> QED
    BY <1>7, <1>8, <1>9, <1>10, <2>1 DEF WholeGroups
<1>12. WholeGroups'
  BY <1>1, <1>3, <1>11 DEF WholeGroups, IsEmpty
<1>13. CellVerdictIsExact'
  BY <1>1, <1>3, <1>7, <1>8, <1>12 DEF CellVerdictIsExact
<1> QED
  BY <1>1, <1>2, <1>4, <1>13 DEF ReaderInv

(* What is left when an integer is to be read: enough for it, if the value *)
(* is whole groups.                                                        *)
LEMMA NextInteger ==
  ASSUME ReaderInv, Looping, ~ IsEmpty(rest) \/ group # <<>>
  PROVE  /\ Len(group) + 1 \in 1..Len(counts) /\ Len(group) \in Nat
         /\ counts[Len(group) + 1] \in 0..255 /\ counts[Len(group) + 1] \in Nat
         /\ Position \in 0..Len(value.bytes) /\ rest = Drop(value, Position)
         /\ rest \in Slices
         /\ RemainingU32s(value) \in Nat
         /\ RemainingU32s(value) = RemainingU32s(rest) + Position
         /\ Len(list) * Total \in Nat /\ Len(list) * Total < Len(value.bytes)
         /\ CellsOf[Len(group) + 1] = CellsOf[Len(group)] + counts[Len(group) + 1]
         /\ CellsOf[Len(group)] \in Nat /\ CellsOf[Len(group) + 1] <= Total
<1>1. /\ TypeOK /\ loop \in {"checked", "pairs"} /\ LengthChecked /\ Positioned
      /\ loop = "pairs" => Len(counts) = 2 /\ counts[2] > 0
  BY DEF ReaderInv, Looping
<1>2. Len(counts) > 0
  BY <1>1, GroupsHaveCells
<1>3. /\ value \in Slices /\ counts \in Seq(0..255) /\ Len(counts) \in Nat
      /\ Len(group) \in Nat /\ Len(list) \in Nat /\ Total \in Nat
  BY <1>1, ReaderFacts
<1>4. Len(group) + 1 \in 1..Len(counts)
  <2>1. group = <<>> => Len(group) = 0
    BY EmptySeq
  <2>2. group = <<>> \/ Len(group) < Len(counts)
    BY <1>1 DEF TypeOK
  <2> QED
    BY <1>2, <1>3, <2>1, <2>2
<1>5. PICK k \in Nat : k = Len(group) /\ k + 1 \in 1..Len(counts) /\ k \in 0..Len(counts)
  BY <1>3, <1>4
<1>6. /\ CellsOf[k + 1] = CellsOf[k] + counts[k + 1] /\ CellsOf[k] \in Nat
      /\ counts[k + 1] \in 0..255 /\ counts[k + 1] \in Nat
  <2>1. k + 1 - 1 = k
    OBVIOUS
  <2>2. CellsOf[k + 1] = CellsOf[k + 1 - 1] + counts[k + 1]
    BY <1>3, <1>5, CellsOfSteps
  <2> QED
    BY <1>3, <1>5, <2>1, <2>2, CellsOfSteps, CountsFacts
<1>7. CellsOf[k + 1] <= Total
  <2>1. k + 1 \in 0..Len(counts)
    BY <1>5
  <2> QED
    BY <1>3, <2>1, CellsOfGrow
<1>8. Len(list) * Total \in Nat
  BY <1>3
<1>9. PICK p \in Nat, l \in Nat :
        p = Position /\ l = Len(value.bytes) /\ p <= l /\ rest = Drop(value, p)
  <2>1. Position \in Nat
    BY <1>5, <1>6, <1>8 DEF Position
  <2> QED
    BY <1>1, <1>3, <2>1, SliceFacts DEF Positioned
<1>10. /\ rest \in Slices /\ rest.padding = value.padding /\ Len(rest.bytes) = l - p
  <2>1. p \in 0..Len(value.bytes)
    BY <1>9
  <2> QED
    BY <1>3, <1>9, <2>1, DropFacts
<1>11. Len(list) * Total < l
  <2>1. CASE group # <<>>
    BY <1>1, <1>9, <2>1 DEF Positioned
  <2>2. CASE group = <<>>
    <3>1. k = 0 /\ CellsOf[0] = 0
      BY <1>3, <1>5, <2>2, EmptySeq, CellsOfSteps
    <3>2. p = Len(list) * Total
      BY <1>5, <1>8, <1>9, <3>1 DEF Position
    <3>3. Len(rest.bytes) # 0
      BY <1>10, <2>2, SliceFacts
    <3> QED
      BY <1>9, <1>10, <3>2, <3>3
  <2> QED
    BY <2>1, <2>2
<1>12. RemainingU32s(value) \in Nat /\ RemainingU32s(value) = RemainingU32s(rest) + p
  <2>1. /\ RemainingU32s(value) \in Nat /\ RemainingU32s(rest) \in Nat
        /\ value.padding \in 0..3
        /\ value.padding = 0 \/ l = 0 => RemainingU32s(value) = l
        /\ value.padding # 0 /\ l # 0 => RemainingU32s(value) = l - 1
        /\ rest.padding = 0 \/ l - p = 0 => RemainingU32s(rest) = l - p
        /\ rest.padding # 0 /\ l - p # 0 => RemainingU32s(rest) = l - p - 1
    BY <1>3, <1>9, <1>10, SliceFacts
  <2>2. value.padding > 0 => p < l
    BY <1>1, <1>9 DEF Positioned
  <2>3. CASE value.padding = 0
    BY <1>10, <2>1, <2>3
  <2>4. CASE value.padding # 0
    <3>1. value.padding > 0
      BY <2>1, <2>4
    <3>2. l # 0 /\ l - p # 0
      BY <2>2, <3>1
    <3> QED
      BY <1>10, <2>1, <2>4, <3>2
  <2> QED
    BY <2>3, <2>4
<1>13. p \in 0..l
  BY <1>9
<1> QED
  BY <1>5, <1>6, <1>7, <1>8, <1>9, <1>10, <1>11, <1>12, <1>13

LEMMA IntegerFits ==
  ASSUME ReaderInv, Looping, ~ IsEmpty(rest) \/ group # <<>>, WholeGroups
  PROVE  counts[Len(group) + 1] <= RemainingU32s(rest)
<1>1. TypeOK /\ Total \in Nat /\ Total > 0 /\ Len(list) \in Nat /\ value \in Slices
  BY GroupsHaveCells, ReaderFacts DEF ReaderInv, Looping
<1>2. value.padding = 0 /\ Len(value.bytes) % Total = 0
  BY <1>1 DEF WholeGroups
<1>3. RemainingU32s(value) = Len(value.bytes) /\ Len(value.bytes) \in Nat
  BY <1>1, <1>2, SliceFacts
<1>4. Len(list) * Total + Total <= Len(value.bytes)
  <2>1. PICK t \in Nat \ {0}, n \in Nat, l \in Nat :
          t = Total /\ n = Len(list) /\ l = Len(value.bytes)
    <3>1. Total \in Nat \ {0} /\ Len(list) \in Nat /\ Len(value.bytes) \in Nat
      BY <1>1, <1>3
    <3> QED
      BY <3>1, Zenon
  <2>2. l % t = 0 /\ n * t < l
    BY <1>2, <2>1, NextInteger
  <2>3. n * t + t <= l
    BY <2>2, NextMultiple
  <2> QED
    BY <2>1, <2>3
<1>5. PICK a \in Nat, c \in Nat, g \in Nat, l \in Nat, u \in Nat, t \in Nat :
        /\ a = CellsOf[Len(group)] /\ c = counts[Len(group) + 1] /\ g = Len(list) * Total
        /\ l = Len(value.bytes) /\ u = RemainingU32s(rest) /\ t = Total
        /\ l = u + (g + a) /\ a + c <= t /\ g + t <= l
  <2>1. /\ CellsOf[Len(group)] \in Nat /\ counts[Len(group) + 1] \in Nat
        /\ Len(list) * Total \in Nat
        /\ CellsOf[Len(group)] + counts[Len(group) + 1] <= Total
        /\ rest \in Slices
        /\ RemainingU32s(value) = RemainingU32s(rest) + Position
    BY NextInteger
  <2>2. RemainingU32s(rest) \in Nat
    BY <2>1, SliceFacts
  <2>3. Position = Len(list) * Total + CellsOf[Len(group)]
    BY DEF Position
  <2> QED
    BY <1>1, <1>3, <1>4, <2>1, <2>2, <2>3
<1>6. c <= u
  <2>1. c \in Nat /\ l = u + (g + a) /\ a + c <= t /\ g + t <= l
    BY <1>5
  <2>2. g + (a + c) <= u + (g + a)
    BY <2>1
  <2> QED
    BY <2>1, <2>2
<1> QED
  BY <1>5, <1>6

(* An integer that cannot be read ends the reading, for the right reason.  *)
LEMMA ReaderStops ==
  ASSUME ReaderInv, Looping, ~ IsEmpty(rest) \/ group # <<>>,
         NEW r, NEW c, c = counts[Len(group) + 1],
         NoCells(rest, c, r) \/ WideCells(rest, c, r),
         UNCHANGED <<value, counts, loop, group, list>>, rest' = r.rest,
         out' = IF r.out = None /\ loop = "pairs" THEN "None" ELSE "panic"
  PROVE  ReaderInv'
<1>1. /\ TypeOK /\ loop \in {"checked", "pairs"} /\ LengthChecked /\ CellsInPlace
      /\ loop = "pairs" => Len(counts) = 2 /\ counts[2] > 0
  BY DEF ReaderInv, Looping
<1>2. TypeOK' /\ out' # "reading"
  BY <1>1 DEF TypeOK, NoCells, WideCells
<1>3. CellsOf' = CellsOf /\ Total' = Total
  BY CellsOfStay DEF Total
<1>4. CellsInPlace'
  BY <1>1, <1>3 DEF CellsInPlace, WordsAt
<1>5. WholeGroups' <=> WholeGroups
  BY <1>3 DEF WholeGroups, IsEmpty
<1>6. Unreadable' <=> Unreadable
  BY <1>3 DEF Unreadable, WordsAt, RemainingU32s
<1>7. CASE NoCells(rest, c, r)
  <2>1. ~ WholeGroups
    <3>1. ASSUME WholeGroups PROVE FALSE
      <4>1. c <= RemainingU32s(rest)
        BY <3>1, IntegerFits
      <4>2. RemainingU32s(rest) < c /\ RemainingU32s(rest) \in Nat /\ c \in Nat
        BY <1>7, NextInteger, SliceFacts DEF NoCells
      <4> QED
        BY <4>1, <4>2
    <3> QED
      BY <3>1
  <2>2. loop # "checked"
    <3>1. ASSUME loop = "checked" PROVE WholeGroups
      BY <1>1, <3>1 DEF LengthChecked, WholeGroups
    <3> QED
      BY <2>1, <3>1
  <2>3. out' = "None"
    BY <1>1, <1>7, <2>2 DEF NoCells
  <2>4. CellVerdictIsExact'
    BY <1>5, <2>1, <2>3 DEF CellVerdictIsExact
  <2> QED
    BY <1>1, <1>2, <1>4, <2>4 DEF ReaderInv
<1>8. CASE WideCells(rest, c, r)
  <2>1. out' = "panic"
    BY <1>8, NoAnswer DEF WideCells
  <2>2. Unreadable
    <3>1. /\ Position \in 0..Len(value.bytes) /\ rest = Drop(value, Position)
          /\ RemainingU32s(value) = RemainingU32s(rest) + Position
          /\ rest \in Slices /\ value \in Slices /\ c \in Nat
      BY <1>1, NextInteger, ReaderFacts
    <3>2. PICK p \in Nat, l \in Nat, n \in Nat, u \in Nat :
            /\ p = Position /\ l = Len(value.bytes) /\ n = Len(rest.bytes)
            /\ u = RemainingU32s(rest) /\ u <= n /\ p <= l
      <4>1. /\ Len(value.bytes) \in Nat /\ Len(rest.bytes) \in Nat
            /\ RemainingU32s(rest) \in Nat
            /\ RemainingU32s(rest) <= Len(rest.bytes)
        BY <3>1, SliceFacts
      <4>2. Position \in Nat /\ Position <= Len(value.bytes)
        BY <3>1, <4>1
      <4> QED
        BY <4>1, <4>2
    <3>3. n = l - p
      BY <3>1, <3>2, DropFacts
    <3>4. CASE u < c
      <4>1. p + c > RemainingU32s(value)
        BY <3>1, <3>2, <3>4
      <4> QED
        BY <1>8, <3>2, <4>1 DEF Unreadable, Position, WideCells
    <3>5. CASE ~ (u < c)
      <4>1. PICK i \in 3..c : rest.bytes[i] # ZeroWord
        BY <1>8, <3>2, <3>5 DEF WideCells
      <4>2. c \in 0..Len(value.bytes) - p /\ p \in 0..Len(value.bytes) /\ i \in 1..c
        BY <3>1, <3>2, <3>3, <3>5
      <4>3. SubSeq(value.bytes, p + 1, p + c)[i] = Drop(value, p).bytes[i]
        BY <3>1, <4>2, TakeAfterDrop
      <4>4. WordsAt(p, c)[i] # ZeroWord
        BY <3>1, <3>2, <4>1, <4>3 DEF WordsAt
      <4> QED
        BY <1>8, <3>2, <4>1, <4>4 DEF Unreadable, Position, WideCells
    <3> QED
      BY <3>4, <3>5
  <2>3. CellVerdictIsExact'
    BY <1>6, <2>1, <2>2 DEF CellVerdictIsExact
  <2> QED
    BY <1>1, <1>2, <1>4, <2>3 DEF ReaderInv
<1> QED
  BY <1>7, <1>8

(* An integer that is taken stands where the widths before it say, and     *)
(* leaves the reader where they say.                                       *)
LEMMA IntegerInPlace ==
  ASSUME ReaderInv, Looping, ~ IsEmpty(rest) \/ group # <<>>,
         NEW r, TookCells(rest, counts[Len(group) + 1], r)
  PROVE  /\ r.out \in Word \X Word
         /\ IsInPlace(r.out, Len(group) + 1, Len(list) * Total)
         /\ r.rest \in Slices
         /\ r.rest = Drop(value, Len(list) * Total + CellsOf[Len(group) + 1])
         /\ Len(list) * Total + CellsOf[Len(group) + 1] <= Len(value.bytes)
         /\ value.padding > 0 =>
              Len(list) * Total + CellsOf[Len(group) + 1] < Len(value.bytes)
<1>1. /\ counts[Len(group) + 1] \in Nat /\ Len(group) \in Nat
      /\ Position \in 0..Len(value.bytes) /\ rest = Drop(value, Position)
      /\ RemainingU32s(value) = RemainingU32s(rest) + Position
      /\ rest \in Slices /\ value \in Slices /\ Len(list) * Total \in Nat
      /\ CellsOf[Len(group) + 1] = CellsOf[Len(group)] + counts[Len(group) + 1]
      /\ CellsOf[Len(group)] \in Nat
      /\ value.padding > 0 => Len(value.bytes) > 0
  BY NextInteger, ReaderFacts DEF ReaderInv
<1>2. PICK c \in Nat, p \in Nat, l \in Nat, n \in Nat, u \in Nat, k \in Nat, a \in Nat, g \in Nat :
        /\ c = counts[Len(group) + 1] /\ p = Position /\ l = Len(value.bytes)
        /\ n = Len(rest.bytes) /\ u = RemainingU32s(rest) /\ u <= n /\ p <= l
        /\ k = Len(group) /\ a = CellsOf[Len(group)] /\ g = Len(list) * Total
  <2>1. /\ Len(value.bytes) \in Nat /\ Len(rest.bytes) \in Nat /\ RemainingU32s(rest) \in Nat
        /\ RemainingU32s(rest) <= Len(rest.bytes)
    BY <1>1, SliceFacts
  <2>2. Position \in Nat /\ Position <= Len(value.bytes)
    BY <1>1, <2>1
  <2> QED
    BY <1>1, <2>1, <2>2
<1>3. /\ r.out \in Word \X Word /\ c <= u /\ r.rest = Drop(rest, c)
      /\ Cells(r.out, c) = SubSeq(rest.bytes, 1, c) /\ (c < 2 => r.out[1] = ZeroWord)
  BY <1>2 DEF TookCells
<1>4. n = l - p /\ p = g + a
  <2>1. n = l - p
    BY <1>1, <1>2, DropFacts
  <2> QED
    BY <1>2, <2>1 DEF Position
<1>5. c \in 0..Len(value.bytes) - p /\ p \in 0..Len(value.bytes) /\ p + c <= l
  BY <1>2, <1>3, <1>4
<1>6. IsInPlace(r.out, k + 1, g)
  <2>1. SubSeq(rest.bytes, 1, c) = SubSeq(value.bytes, p + 1, p + c)
    BY <1>1, <1>2, <1>5, TakeAfterDrop
  <2>2. Cells(r.out, c) = WordsAt(g + a, c)
    BY <1>3, <1>4, <2>1 DEF WordsAt
  <2>3. k + 1 - 1 = k
    OBVIOUS
  <2>4. counts[k + 1] = c /\ CellsOf[k] = a
    BY <1>2
  <2> QED
    BY <1>3, <2>2, <2>3, <2>4 DEF IsInPlace
<1>7. g + CellsOf[k + 1] = p + c
  <2>1. CellsOf[k + 1] = a + c
    BY <1>1, <1>2, Zenon
  <2>2. g + (a + c) = p + c
    BY <1>4
  <2> QED
    BY <2>1, <2>2
<1>8. r.rest = Drop(value, p + c)
  <2>1. Drop(Drop(value, p), c) = Drop(value, p + c)
    BY <1>1, <1>5, DropTwice
  <2> QED
    BY <1>1, <1>2, <1>3, <2>1
<1>9. r.rest \in Slices
  <2>1. p + c \in 0..Len(value.bytes)
    BY <1>2, <1>5
  <2> QED
    BY <1>1, <1>8, <2>1, DropFacts
<1>10. value.padding > 0 => p + c < l
  <2>1. ASSUME value.padding > 0 PROVE p + c < l
    <3>1. RemainingU32s(value) = l - 1
      BY <1>1, <1>2, <2>1, SliceFacts
    <3> QED
      BY <1>1, <1>2, <1>3, <3>1
  <2> QED
    BY <2>1
<1> QED
  BY <1>2, <1>3, <1>5, <1>6, <1>7, <1>8, <1>9, <1>10

(* The last integer of a group ends it.                                    *)
LEMMA GroupEnds ==
  ASSUME ReaderInv, Looping, ~ IsEmpty(rest) \/ group # <<>>,
         NEW r, TookCells(rest, counts[Len(group) + 1], r),
         UNCHANGED <<value, counts, loop, out>>, rest' = r.rest,
         IsGroup(Append(group, r.out)),
         group' = <<>>, list' = Append(list, Append(group, r.out))
  PROVE  ReaderInv'
<1>1. /\ TypeOK /\ loop \in {"checked", "pairs"} /\ CellsInPlace /\ out = "reading"
      /\ Positioned
      /\ loop = "pairs" => Len(counts) = 2 /\ counts[2] > 0
      /\ counts \in Seq(0..255) /\ Len(counts) \in Nat /\ Len(list) \in Nat /\ Total \in Nat
      /\ Len(group) \in Nat
  BY ReaderFacts DEF ReaderInv, Looping
<1>2. /\ r.out \in Word \X Word
      /\ IsInPlace(r.out, Len(group) + 1, Len(list) * Total)
      /\ r.rest \in Slices
      /\ r.rest = Drop(value, Len(list) * Total + CellsOf[Len(group) + 1])
      /\ Len(list) * Total + CellsOf[Len(group) + 1] <= Len(value.bytes)
      /\ value.padding > 0 => Len(list) * Total + CellsOf[Len(group) + 1] < Len(value.bytes)
  BY IntegerInPlace
<1>3. CellsOf' = CellsOf /\ Total' = Total
  BY CellsOfStay DEF Total
<1>4. PICK k \in Nat, g \in Nat : k = Len(group) /\ g = Len(list)
  BY <1>1
<1>5. PICK more \in Seq(Word \X Word) :
        /\ more = Append(group, r.out) /\ Len(more) = k + 1 /\ more[k + 1] = r.out
        /\ \A i \in 1..k : more[i] = group[i]
  <2>1. group \in Seq(Word \X Word)
    BY <1>1 DEF TypeOK
  <2>2. /\ Append(group, r.out) \in Seq(Word \X Word)
        /\ Len(Append(group, r.out)) = Len(group) + 1
        /\ Append(group, r.out)[Len(group) + 1] = r.out
        /\ \A i \in 1..Len(group) : Append(group, r.out)[i] = group[i]
    BY <1>2, <2>1, AppendProperties
  <2> QED
    BY <1>4, <2>2
<1>6. k + 1 = Len(counts)
  BY <1>4, <1>5 DEF IsGroup
<1>7. more \in [1..Len(counts) -> Word \X Word]
  BY <1>4, <1>5, <1>6, LenProperties
<1>8. /\ list' \in Seq([1..Len(counts) -> Word \X Word]) /\ Len(list') = g + 1
      /\ list'[g + 1] = more /\ \A i \in 1..g : list'[i] = list[i]
  <2>1. list \in Seq([1..Len(counts) -> Word \X Word])
    BY <1>1 DEF TypeOK
  <2> QED
    BY <1>4, <1>5, <1>7, <2>1, AppendProperties
<1>9. TypeOK'
  BY <1>1, <1>2, <1>8, EmptySeq DEF TypeOK
<1>10. \A i \in 1..Len(counts) : IsInPlace(more[i], i, g * Total)
  <2>1. ASSUME NEW i \in 1..Len(counts) PROVE IsInPlace(more[i], i, g * Total)
    <3>1. CASE i = k + 1
      BY <1>2, <1>4, <1>5, <3>1
    <3>2. CASE i # k + 1
      <4>1. i \in 1..Len(group) /\ more[i] = group[i]
        BY <1>4, <1>5, <1>6, <3>2
      <4> QED
        BY <1>1, <1>4, <1>5, <4>1 DEF Positioned
    <3> QED
      BY <3>1, <3>2
  <2> QED
    BY <2>1
<1>11. CellsInPlace'
  <2>1. ASSUME NEW j \in 1..g + 1, NEW i \in 1..Len(counts)
        PROVE  IsInPlace(list'[j][i], i, (j - 1) * Total)
    <3>1. CASE j = g + 1
      <4>1. j - 1 = g /\ list'[j] = more
        BY <1>8, <3>1
      <4> QED
        BY <1>10, <4>1
    <3>2. CASE j # g + 1
      <4>1. j \in 1..Len(list) /\ list'[j] = list[j]
        BY <1>4, <1>5, <1>8, <3>2
      <4> QED
        BY <1>1, <4>1 DEF CellsInPlace, IsInPlace
    <3> QED
      BY <3>1, <3>2
  <2> QED
    BY <1>3, <1>8, <2>1 DEF CellsInPlace, IsInPlace, WordsAt
<1>12. CellVerdictIsExact'
  BY <1>1 DEF CellVerdictIsExact
<1>13. Position' = g * Total + CellsOf[k + 1]
  <2>1. CellsOf[k + 1] = Total /\ CellsOf[0] = 0 /\ Len(<<>>) = 0
    BY <1>1, <1>6, CellsOfSteps DEF Total
  <2>2. (g + 1) * Total + 0 = g * Total + Total
    BY <1>1
  <2> QED
    BY <1>3, <1>8, <2>1, <2>2 DEF Position
<1>14. Positioned'
  <2>1. \A i \in 1..0 : FALSE
    OBVIOUS
  <2>2. Len(group') = 0
    BY EmptySeq
  <2>3. /\ Position' <= Len(value'.bytes) /\ rest' = Drop(value', Position')
        /\ value'.padding > 0 => Position' < Len(value'.bytes)
    BY <1>2, <1>4, <1>5, <1>13
  <2> QED
    BY <2>1, <2>2, <2>3 DEF Positioned
<1> QED
  BY <1>1, <1>9, <1>11, <1>12, <1>14 DEF ReaderInv

(* Any other integer goes to the group.                                    *)
LEMMA GroupGrows ==
  ASSUME ReaderInv, Looping, ~ IsEmpty(rest) \/ group # <<>>,
         NEW r, TookCells(rest, counts[Len(group) + 1], r),
         UNCHANGED <<value, counts, loop, list, out>>, rest' = r.rest,
         ~ IsGroup(Append(group, r.out)), group' = Append(group, r.out)
  PROVE  ReaderInv'
<1>1. /\ TypeOK /\ loop \in {"checked", "pairs"} /\ CellsInPlace /\ out = "reading"
      /\ Positioned
      /\ loop = "pairs" => Len(counts) = 2 /\ counts[2] > 0
      /\ counts \in Seq(0..255) /\ Len(counts) \in Nat /\ Len(list) \in Nat /\ Total \in Nat
      /\ Len(group) \in Nat
  BY ReaderFacts DEF ReaderInv, Looping
<1>2. /\ r.out \in Word \X Word
      /\ IsInPlace(r.out, Len(group) + 1, Len(list) * Total)
      /\ r.rest \in Slices
      /\ r.rest = Drop(value, Len(list) * Total + CellsOf[Len(group) + 1])
      /\ Len(list) * Total + CellsOf[Len(group) + 1] <= Len(value.bytes)
      /\ value.padding > 0 => Len(list) * Total + CellsOf[Len(group) + 1] < Len(value.bytes)
  BY IntegerInPlace
<1>3. CellsOf' = CellsOf /\ Total' = Total
  BY CellsOfStay DEF Total
<1>4. PICK k \in Nat :
        /\ k = Len(group) /\ group' \in Seq(Word \X Word) /\ Len(group') = k + 1
        /\ group'[k + 1] = r.out /\ \A i \in 1..k : group'[i] = group[i]
  <2>1. group \in Seq(Word \X Word)
    BY <1>1 DEF TypeOK
  <2>2. /\ group' \in Seq(Word \X Word) /\ Len(group') = Len(group) + 1
        /\ group'[Len(group) + 1] = r.out /\ \A i \in 1..Len(group) : group'[i] = group[i]
    BY <1>2, <2>1, AppendProperties
  <2> QED
    BY <1>1, <2>2
<1>5. k + 1 < Len(counts)
  <2>1. k + 1 # Len(counts) /\ k + 1 \in 1..Len(counts)
    BY <1>4, NextInteger DEF IsGroup
  <2> QED
    BY <1>1, <2>1
<1>6. TypeOK'
  BY <1>1, <1>2, <1>4, <1>5 DEF TypeOK
<1>7. CellsInPlace'
  BY <1>1, <1>3 DEF CellsInPlace, WordsAt
<1>8. CellVerdictIsExact'
  BY <1>1 DEF CellVerdictIsExact
<1>9. Position' = Len(list) * Total + CellsOf[k + 1]
  BY <1>3, <1>4 DEF Position
<1>10. \A i \in 1..k + 1 : IsInPlace(group'[i], i, Len(list) * Total)
  <2>1. ASSUME NEW i \in 1..k + 1 PROVE IsInPlace(group'[i], i, Len(list) * Total)
    <3>1. CASE i = k + 1
      BY <1>2, <1>4, <3>1
    <3>2. CASE i # k + 1
      <4>1. i \in 1..Len(group) /\ group'[i] = group[i]
        BY <1>4, <3>2
      <4> QED
        BY <1>1, <4>1 DEF Positioned
    <3> QED
      BY <3>1, <3>2
  <2> QED
    BY <2>1
<1>11. (\A i \in 1..Len(group) : IsInPlace(group[i], i, Len(list) * Total))'
  BY <1>3, <1>4, <1>10 DEF IsInPlace, WordsAt
<1>12. Positioned'
  <2>1. /\ Position' <= Len(value'.bytes) /\ rest' = Drop(value', Position')
        /\ value'.padding > 0 => Position' < Len(value'.bytes)
    BY <1>2, <1>4, <1>9
  <2>2. (Len(list) * Total < Len(value.bytes))'
    BY <1>3, NextInteger
  <2> QED
    BY <1>11, <2>1, <2>2 DEF Positioned
<1> QED
  BY <1>1, <1>6, <1>7, <1>8, <1>12 DEF ReaderInv

LEMMA ReaderReads ==
  ASSUME ReaderInv, ReadCells
  PROVE  ReaderInv'
<1> DEFINE c == counts[Len(group) + 1]
           r == ConsumeCells(rest, c)
           more == Append(group, r.out)
<1>1. /\ Looping /\ (~ IsEmpty(rest) \/ group # <<>>) /\ UNCHANGED <<value, counts, loop>>
      /\ rest' = r.rest
      /\ IF r.out \in {None, Panic}
         THEN /\ out' = IF r.out = None /\ loop = "pairs" THEN "None" ELSE "panic"
              /\ group' = group /\ list' = list
         ELSE /\ group' = IF IsGroup(more) THEN <<>> ELSE more
              /\ list' = IF IsGroup(more) THEN Append(list, more) ELSE list
              /\ out' = out
  BY DEF ReadCells, inputs
<1>2. rest \in Slices /\ c \in 0..255
  BY <1>1, NextInteger
<1> HIDE DEF c
<1>3. TookCells(rest, c, r) \/ NoCells(rest, c, r) \/ WideCells(rest, c, r)
  BY <1>2, CellsTaken
<1>4. CASE NoCells(rest, c, r) \/ WideCells(rest, c, r)
  <2>1. r.out \in {None, Panic}
    BY <1>4 DEF NoCells, WideCells
  <2> HIDE DEF r
  <2> QED
    BY <1>1, <1>4, <2>1, ReaderStops DEF c
<1>5. CASE TookCells(rest, c, r)
  <2>1. r.out \notin {None, Panic}
    <3>1. r.out \in Word \X Word
      BY <1>5 DEF TookCells
    <3> HIDE DEF r
    <3> QED
      BY <3>1, NoAnswer
  <2> HIDE DEF r
  <2>2. CASE IsGroup(more)
    BY <1>1, <1>5, <2>1, <2>2, GroupEnds DEF c
  <2>3. CASE ~ IsGroup(more)
    BY <1>1, <1>5, <2>1, <2>3, GroupGrows DEF c
  <2> QED
    BY <2>2, <2>3
<1> QED
  BY <1>3, <1>4, <1>5

LEMMA ReaderStays ==
  ASSUME ReaderInv, UNCHANGED vars
  PROVE  ReaderInv'
<1>1. UNCHANGED <<value, counts, loop, rest, group, list, out>>
  BY DEF vars, inputs
<1>2. CellsOf' = CellsOf /\ Total' = Total
  BY <1>1, CellsOfStay DEF Total
<1>3. TypeOK'
  BY <1>1 DEF ReaderInv, TypeOK
<1>4. CellsInPlace'
  BY <1>1, <1>2 DEF ReaderInv, CellsInPlace, WordsAt
<1>5. (WholeGroups' <=> WholeGroups) /\ (Unreadable' <=> Unreadable)
  BY <1>1, <1>2 DEF WholeGroups, Unreadable, IsEmpty, WordsAt, RemainingU32s
<1>6. CellVerdictIsExact'
  BY <1>1, <1>2, <1>5 DEF ReaderInv, CellVerdictIsExact
<1>7. Positioned' <=> Positioned
  BY <1>1, <1>2 DEF Positioned, Position, IsInPlace, WordsAt
<1> QED
  BY <1>1, <1>3, <1>4, <1>6, <1>7 DEF ReaderInv

LEMMA ReaderSteps ==
  ASSUME ReaderInv, [Next]_vars
  PROVE  ReaderInv'
<1> QED
  BY ReaderRefuses, ReaderReads, ReaderFinishes, ReaderStays DEF Next
-----------------------------------------------------------------------------
(* One number and nothing after it: all of the value, or none of it.       *)
IsWhole(s, c, integer) ==
  integer \in Word \X Word /\ s.padding = 0 /\ s.bytes = Cells(integer, c)

IsOfOtherWidth(s, c, answer) == answer = None /\ (s.padding # 0 \/ Len(s.bytes) # c)

IsTooWide(s, c, answer) ==
  /\ answer = Panic /\ c > 2
  /\ RemainingU32s(s) < c \/ \E i \in 3..c : s.bytes[i] # ZeroWord

LEMMA IntoCellsFacts ==
  ASSUME NEW s \in NewSlices, NEW c \in 0..255
  PROVE  \/ IsWhole(s, c, IntoCells(s, c))
         \/ IsOfOtherWidth(s, c, IntoCells(s, c))
         \/ IsTooWide(s, c, IntoCells(s, c))
<1>1. s \in Slices /\ (s.bytes = <<>> => s.padding = 0)
  BY DEF NewSlices
<1>2. PICK ws \in Seq(Word), l \in Nat, u \in Nat :
        /\ ws = s.bytes /\ l = Len(ws) /\ u = RemainingU32s(s) /\ u <= l
        /\ s.padding = 0 \/ l = 0 => u = l
        /\ s.padding # 0 /\ l # 0 => u = l - 1
        /\ l = 0 => s.padding = 0
  BY <1>1, SliceFacts DEF IsEmpty
<1> DEFINE r == ConsumeCells(s, c)
<1>3. TookCells(s, c, r) \/ NoCells(s, c, r) \/ WideCells(s, c, r)
  BY <1>1, CellsTaken
<1>4. IntoCells(s, c) = IF IsEmpty(r.rest) \/ r.out = Panic THEN r.out ELSE None
  BY DEF IntoCells
<1> HIDE DEF r
<1>5. CASE TookCells(s, c, r)
  <2>1. /\ r.out \in Word \X Word /\ c <= u /\ r.rest = Drop(s, c)
        /\ Cells(r.out, c) = SubSeq(ws, 1, c)
    BY <1>2, <1>5 DEF TookCells
  <2>2. r.out # Panic /\ c \in 0..Len(s.bytes) /\ c \in 0..Len(ws)
    <3>1. r.out # Panic
      BY <2>1, NoAnswer
    <3> QED
      BY <1>2, <2>1, <3>1
  <2>3. r.rest \in Slices /\ Len(r.rest.bytes) = l - c
    BY <1>1, <1>2, <2>1, <2>2, DropFacts
  <2>4. IsEmpty(r.rest) <=> l = c
    <3>1. IsEmpty(r.rest) <=> Len(r.rest.bytes) = 0
      BY <2>3, SliceFacts
    <3>2. l - c = 0 <=> l = c
      BY <1>2
    <3> QED
      BY <2>3, <3>1, <3>2
  <2>5. CASE l = c
    <3>1. IntoCells(s, c) = r.out /\ s.padding = 0
      BY <1>2, <1>4, <2>1, <2>4, <2>5
    <3>2. SubSeq(ws, 1, c) = ws
      <4>1. PICK t \in Seq(Word) :
              t = SubSeq(ws, 1, c) /\ Len(t) = c /\ \A i \in 1..c : t[i] = ws[i]
        <5>1. /\ SubSeq(ws, 1, c) \in Seq(Word) /\ Len(SubSeq(ws, 1, c)) = c
              /\ \A i \in 1..c : SubSeq(ws, 1, c)[i] = ws[i]
          BY <2>2, FirstOfSeq
        <5> QED
          BY <5>1
      <4>2. Len(t) = Len(ws) /\ \A i \in 1..Len(t) : t[i] = ws[i]
        BY <1>2, <2>5, <4>1
      <4> QED
        BY <4>1, <4>2, SeqEqual
    <3> QED
      BY <1>2, <2>1, <3>1, <3>2 DEF IsWhole
  <2>6. CASE l # c
    BY <1>2, <1>4, <2>2, <2>4, <2>6 DEF IsOfOtherWidth
  <2> QED
    BY <2>5, <2>6
<1>6. CASE NoCells(s, c, r)
  <2>1. IntoCells(s, c) = None /\ u < c
    BY <1>2, <1>4, <1>6 DEF NoCells
  <2>2. s.padding = 0 => l # c
    BY <1>2, <2>1
  <2> QED
    BY <1>2, <2>1, <2>2 DEF IsOfOtherWidth
<1>7. CASE WideCells(s, c, r)
  BY <1>4, <1>7 DEF WideCells, IsTooWide
<1> QED
  BY <1>3, <1>5, <1>6, <1>7

(* The conversions to numbers are those to one and to two cells.           *)
LEMMA NumberFacts ==
  ASSUME NEW s \in NewSlices
  PROVE  /\ \/ TryIntoU32(s) \in Word /\ IsWhole(s, 1, <<ZeroWord, TryIntoU32(s)>>)
            \/ IsOfOtherWidth(s, 1, TryIntoU32(s))
         /\ IsWhole(s, 2, TryIntoU64(s)) \/ IsOfOtherWidth(s, 2, TryIntoU64(s))
<1>1. s \in Slices
  BY DEF NewSlices
<1>2. PICK ws \in Seq(Word), l \in Nat, u \in Nat :
        ws = s.bytes /\ l = Len(ws) /\ u = RemainingU32s(s) /\ u <= l
  BY <1>1, SliceFacts
<1>3. \A i \in 1..u : ws[i] \in Word
  BY <1>2, ElementOfSeq
<1>4. IsWhole(s, 2, TryIntoU64(s)) \/ IsOfOtherWidth(s, 2, TryIntoU64(s))
  <2>1. ConsumeU64(s).out # Panic
    <3>1. CASE u >= 2
      <4>1. /\ ConsumeU64(s) = Answer(<<ws[1], ws[2]>>, Drop(s, 2)) /\ ws[1] \in Word
            /\ ws[2] \in Word
        BY <1>2, <1>3, <3>1 DEF ConsumeU64
      <4>2. <<ws[1], ws[2]>> \in Word \X Word
        BY <4>1
      <4> QED
        BY <4>1, <4>2, NoAnswer DEF Answer
    <3>2. CASE ~ (u >= 2)
      <4>1. ConsumeU64(s) = Answer(None, s)
        BY <1>2, <3>2 DEF ConsumeU64
      <4> QED
        BY <4>1, NoAnswer DEF Answer
    <3> QED
      BY <3>1, <3>2
  <2>2. ConsumeCells(s, 2) = ConsumeU64(s)
    BY DEF ConsumeCells
  <2>3. TryIntoU64(s) = IntoCells(s, 2)
    BY <2>1, <2>2 DEF TryIntoU64, IntoCells
  <2>4. ~ IsTooWide(s, 2, IntoCells(s, 2)) /\ 2 \in 0..255
    BY DEF IsTooWide
  <2> QED
    BY <2>3, <2>4, IntoCellsFacts
<1>5. \/ TryIntoU32(s) \in Word /\ IsWhole(s, 1, <<ZeroWord, TryIntoU32(s)>>)
      \/ IsOfOtherWidth(s, 1, TryIntoU32(s))
  <2>1. ConsumeCells(s, 1) = ConsumeOne(s) /\ 1 \in 0..255
    BY DEF ConsumeCells
  <2>2. CASE u >= 1
    <3>1. PICK w \in Word : w = ws[1]
      BY <1>2, <1>3, <2>2
    <3>2. w # None /\ w # Panic /\ <<ZeroWord, w>> # Panic /\ <<ZeroWord, w>> # None
      <4>1. ZeroWord \in Word
        BY ByteAssumption DEF ZeroWord, Word, ElementWidth
      <4>2. <<ZeroWord, w>> \in Word \X Word
        BY <4>1
      <4> QED
        BY <4>2, NoAnswer
    <3>3. ConsumeU32(s) = Answer(w, Drop(s, 1))
      BY <1>2, <2>2, <3>1 DEF ConsumeU32
    <3>4. ConsumeOne(s) = Answer(<<ZeroWord, w>>, Drop(s, 1))
      BY <3>2, <3>3 DEF ConsumeOne, Answer
    <3>5. CASE IsEmpty(Drop(s, 1))
      <4>1. TryIntoU32(s) = w /\ IntoCells(s, 1) = <<ZeroWord, w>>
        BY <2>1, <3>3, <3>4, <3>5 DEF TryIntoU32, IntoCells, Answer
      <4>2. IsWhole(s, 1, <<ZeroWord, w>>)
        BY <2>1, <3>2, <4>1, IntoCellsFacts DEF IsOfOtherWidth, IsTooWide
      <4> QED
        BY <4>1, <4>2
    <3>6. CASE ~ IsEmpty(Drop(s, 1))
      <4>1. TryIntoU32(s) = None /\ IntoCells(s, 1) = None
        BY <2>1, <3>2, <3>3, <3>4, <3>6 DEF TryIntoU32, IntoCells, Answer
      <4>2. None \notin Word \X Word /\ None # Panic
        BY NoAnswer
      <4> QED
        BY <2>1, <4>1, <4>2, IntoCellsFacts DEF IsWhole, IsOfOtherWidth, IsTooWide
    <3> QED
      BY <3>5, <3>6
  <2>3. CASE ~ (u >= 1)
    <3>1. ConsumeU32(s) = Answer(None, s) /\ ConsumeOne(s) = Answer(None, s)
      BY <1>2, <2>3 DEF ConsumeU32, ConsumeOne, Answer
    <3>2. None \notin Word \X Word /\ None # Panic
      BY NoAnswer
    <3>3. TryIntoU32(s) = None /\ IntoCells(s, 1) = None
      BY <2>1, <3>1, <3>2 DEF TryIntoU32, IntoCells, Answer
    <3> QED
      BY <2>1, <3>2, <3>3, IntoCellsFacts DEF IsWhole, IsOfOtherWidth, IsTooWide
  <2> QED
    BY <2>2, <2>3
<1> QED
  BY <1>4, <1>5
-----------------------------------------------------------------------------
(* A value that is read as one number.                                     *)
NumberInv ==
  /\ value \in Values /\ loop \in Numbers /\ counts \in CellCounts /\ Len(counts) = 1
  /\ loop # "cells" => counts[1] = (IF loop = "u32" THEN 1 ELSE 2)
  /\ rest = value /\ group = <<>> /\ list = <<>> /\ left = <<>>
  /\ out \in {"reading", "Some", "None", "panic"}
  /\ read \in Seq(Word \cup (Word \X Word))
  /\ out = "Some" =>
       /\ value.padding = 0
       /\ value.bytes = Cells(IF loop = "u32" THEN <<ZeroWord, read[1]>> ELSE read[1], counts[1])
  /\ out = "None" => value.padding # 0 \/ Len(value.bytes) # counts[1]
  /\ out = "panic" => Unreadable

LEMMA NumberStarts ==
  ASSUME ValuesInit, loop \in Numbers
  PROVE  NumberInv
<1>1. ~ Init /\ loop \notin Kinds
  BY DEF Init, Kinds, Numbers
<1>2. <<>> \in Seq(Word \cup (Word \X Word))
  BY EmptySeq
<1> QED
  BY <1>1, <1>2 DEF ValuesInit, NumberInv

LEMMA NumberIsRead ==
  ASSUME NumberInv, ReadNumber
  PROVE  NumberInv'
<1>1. /\ value \in NewSlices /\ value \in Slices /\ counts \in Seq(0..255) /\ Len(counts) = 1
      /\ loop \in Numbers /\ (loop # "cells" => counts[1] = (IF loop = "u32" THEN 1 ELSE 2))
      /\ UNCHANGED <<value, counts, loop, rest, group, list, left>>
  BY ValuesAssumption, CellCountsAssumption DEF NumberInv, ReadNumber, inputs, NewSlices
<1>2. PICK c \in 0..255 : c = counts[1]
  <2>1. 1 \in 1..Len(counts)
    BY <1>1
  <2> QED
    BY <1>1, <2>1, CountsFacts
<1> DEFINE number == CASE loop = "u32"   -> TryIntoU32(value)
                       [] loop = "u64"   -> TryIntoU64(value)
                       [] loop = "cells" -> IntoCells(value, counts[1])
           pair == IF loop = "u32" THEN <<ZeroWord, number>> ELSE number
<1>3. IF number \in {None, Panic}
      THEN out' = (IF number = None THEN "None" ELSE "panic") /\ read' = read
      ELSE out' = "Some" /\ read' = <<number>>
  BY DEF ReadNumber
<1>4. \/ number \in Word \cup (Word \X Word) /\ IsWhole(value, c, pair)
      \/ IsOfOtherWidth(value, c, number)
      \/ IsTooWide(value, c, number)
  <2>1. CASE loop = "u32"
    <3>1. number = TryIntoU32(value) /\ c = 1 /\ pair = <<ZeroWord, TryIntoU32(value)>>
      BY <1>1, <1>2, <2>1
    <3> QED
      BY <1>1, <3>1, NumberFacts
  <2>2. CASE loop = "u64"
    <3>1. number = TryIntoU64(value) /\ c = 2 /\ pair = TryIntoU64(value)
      BY <1>1, <1>2, <2>2
    <3> QED
      BY <1>1, <3>1, NumberFacts DEF IsWhole
  <2>3. CASE loop = "cells"
    <3>1. number = IntoCells(value, c) /\ pair = IntoCells(value, c)
      BY <1>1, <1>2, <2>3
    <3> QED
      BY <1>1, <1>2, <3>1, IntoCellsFacts DEF IsWhole
  <2> QED
    BY <1>1, <2>1, <2>2, <2>3 DEF Numbers
<1> HIDE DEF number
<1>5. CASE number \in Word \cup (Word \X Word) /\ IsWhole(value, c, pair)
  <2>1. number \notin {None, Panic}
    BY <1>5, NoAnswer
  <2>2. out' = "Some" /\ read' = <<number>>
    BY <1>3, <2>1
  <2>3. read' \in Seq(Word \cup (Word \X Word)) /\ read'[1] = number
    BY <1>5, <2>2
  <2> QED
    BY <1>1, <1>2, <1>5, <2>2, <2>3 DEF NumberInv, IsWhole
<1>6. CASE IsOfOtherWidth(value, c, number)
  <2>1. out' = "None" /\ read' = read
    BY <1>3, <1>6 DEF IsOfOtherWidth
  <2> QED
    BY <1>1, <1>2, <1>6, <2>1 DEF NumberInv, IsOfOtherWidth
<1>7. CASE IsTooWide(value, c, number)
  <2>1. out' = "panic" /\ read' = read
    BY <1>3, <1>7, NoAnswer DEF IsTooWide
  <2>2. Unreadable
    <3>1. Len(group) = 0 /\ Len(list) = 0 /\ Total \in Nat /\ CellsOf[0] = 0
      BY <1>1, CellsOfSteps, CellsOfGrow, EmptySeq DEF NumberInv, Total
    <3>2. Len(group) + 1 = 1 /\ Len(list) * Total + CellsOf[Len(group)] = 0
      BY <3>1
    <3>3. 0 + c = c /\ 0 + 1 = 1
      OBVIOUS
    <3>4. PICK l \in Nat, u \in Nat :
            l = Len(value.bytes) /\ u = RemainingU32s(value) /\ u <= l
      BY <1>1, SliceFacts
    <3>5. CASE u < c
      <4>1. 0 + c > RemainingU32s(value)
        BY <3>4, <3>5
      <4> QED
        BY <1>2, <1>7, <3>2, <4>1 DEF Unreadable, IsTooWide
    <3>6. CASE ~ (u < c)
      <4>1. PICK i \in 3..c : value.bytes[i] # ZeroWord
        BY <1>7, <3>4, <3>6 DEF IsTooWide
      <4>2. c \in 0..Len(value.bytes) /\ i \in 1..c
        <5>1. PICK n \in Nat : n = c
          OBVIOUS
        <5>2. n <= l /\ i \in 3..n
          BY <3>4, <3>6, <4>1, <5>1
        <5> QED
          BY <3>4, <5>1, <5>2
      <4>3. SubSeq(value.bytes, 1, c)[i] = value.bytes[i]
        <5>1. value.bytes \in Seq(Word)
          BY <1>1, SliceFacts
        <5> QED
          BY <4>2, <5>1, FirstOfSeq
      <4>4. WordsAt(0, c)[i] # ZeroWord
        BY <3>3, <4>1, <4>3 DEF WordsAt
      <4> QED
        BY <1>2, <1>7, <3>2, <4>1, <4>4 DEF Unreadable, IsTooWide
    <3> QED
      BY <3>5, <3>6
  <2>3. Unreadable'
    <3>1. CellsOf' = CellsOf /\ Total' = Total
      BY <1>1, CellsOfStay DEF Total
    <3> QED
      BY <1>1, <2>2, <3>1 DEF Unreadable, WordsAt, RemainingU32s
  <2> QED
    BY <1>1, <2>1, <2>3 DEF NumberInv
<1> QED
  BY <1>4, <1>5, <1>6, <1>7

LEMMA NumberStays ==
  ASSUME NumberInv, UNCHANGED valuesVars
  PROVE  NumberInv'
<1>1. UNCHANGED <<value, counts, loop, rest, group, list, out, left, read>>
  BY DEF valuesVars, vars, inputs
<1>2. CellsOf' = CellsOf /\ Total' = Total
  BY <1>1, CellsOfStay DEF Total
<1>3. Unreadable' <=> Unreadable
  BY <1>1, <1>2 DEF Unreadable, WordsAt, RemainingU32s
<1> QED
  BY <1>1, <1>3 DEF NumberInv

LEMMA NumberHolds ==
  ASSUME NumberInv
  PROVE  ValuesTypeOK /\ CellsInPlace /\ ValuesComeBack /\ VerdictIsExact
<1>1. value \in Slices /\ loop \notin {"checked", "pairs"} /\ loop \notin Kinds
  BY ValuesAssumption DEF NumberInv, Numbers, Kinds, NewSlices
<1>2. TypeOK
  <2>1. /\ <<>> \in Seq(Word \X Word) /\ <<>> \in Seq([1..Len(counts) -> Word \X Word])
    BY EmptySeq
  <2> QED
    BY <1>1, <2>1 DEF NumberInv, TypeOK
<1>3. CellsInPlace
  <2>1. Len(list) = 0 /\ \A i \in 1..0 : FALSE
    BY EmptySeq DEF NumberInv
  <2> QED
    BY <2>1 DEF CellsInPlace
<1>4. ValuesTypeOK
  BY <1>2 DEF NumberInv, ValuesTypeOK
<1>5. ValuesComeBack
  <2>1. "models" \in Kinds
    BY DEF Kinds
  <2> QED
    BY <1>1, <2>1 DEF NumberInv, ValuesComeBack
<1>6. VerdictIsExact
  BY <1>1 DEF NumberInv, VerdictIsExact, CellVerdictIsExact
<1> QED
  BY <1>3, <1>4, <1>5, <1>6

LEMMA CellsHold ==
  ASSUME ReaderInv, left = <<>>, read = <<>>
  PROVE  ValuesTypeOK /\ CellsInPlace /\ ValuesComeBack /\ VerdictIsExact
<1>1. /\ loop \in {"checked", "pairs"} /\ loop \notin Numbers /\ loop \notin Kinds
      /\ loop # "models"
  BY DEF ReaderInv, Numbers, Kinds
<1>2. ValuesTypeOK
  BY <1>1 DEF ReaderInv, ValuesTypeOK
<1>3. ValuesComeBack
  BY <1>1 DEF ValuesComeBack
<1>4. VerdictIsExact
  BY <1>1 DEF ReaderInv, VerdictIsExact
<1> QED
  BY <1>2, <1>3, <1>4 DEF ReaderInv
-----------------------------------------------------------------------------
(* The bytes of a slice.                                                   *)
LEMMA BytesFacts ==
  ASSUME NEW s \in NewSlices
  PROVE  LenBytes(s) \in Nat /\ BytesOf(s) \in Seq(Byte) /\ Len(BytesOf(s)) = LenBytes(s)
<1>1. s \in Slices /\ (s.bytes = <<>> => s.padding = 0)
  BY DEF NewSlices
<1>2. PICK ws \in Seq(Word), l \in Nat, p \in 0..3 :
        ws = s.bytes /\ l = Len(ws) /\ p = s.padding /\ (l = 0 => p = 0)
  BY <1>1, SliceFacts DEF IsEmpty
<1>3. PICK n \in Nat : n = LenBytes(s) /\ n <= l * 4
  <2>1. l * 4 - p \in Nat /\ l * 4 - p <= l * 4
    BY <1>2
  <2>2. LenBytes(s) = l * 4 - p
    BY <1>2 DEF LenBytes, ElementWidth
  <2> QED
    BY <2>1, <2>2
<1>4. ASSUME NEW i \in 1..n PROVE ByteAt(s, i) \in Byte
  <2>1. ((i - 1) \div 4) + 1 \in 1..l /\ ((i - 1) % 4) + 1 \in 1..4
    BY <1>3
  <2>2. ws[((i - 1) \div 4) + 1] \in Word
    BY <1>2, <2>1, ElementOfSeq
  <2>3. ws[((i - 1) \div 4) + 1][((i - 1) % 4) + 1] \in Byte
    BY <2>1, <2>2 DEF Word, ElementWidth
  <2> QED
    BY <1>2, <2>3 DEF ByteAt, ElementWidth
<1>5. BytesOf(s) \in [1..n -> Byte]
  BY <1>3, <1>4 DEF BytesOf
<1> QED
  BY <1>3, <1>5

(* The string before the first zero is what `from_bytes_until_nul` finds.  *)
LEMMA FirstZero ==
  ASSUME NEW s \in Seq(Byte), NEW n \in 1..Len(s), s[n] = 0, \A i \in 1..n - 1 : s[i] # 0
  PROVE  CStr(s) = SubSeq(s, 1, n - 1) /\ CStr(s) # None
<1>1. PICK l \in Nat, m \in Nat : l = Len(s) /\ m = n /\ m \in 1..l
  BY LenProperties
<1>2. PICK f : f = FirstIndex(s, 0)
  OBVIOUS
<1>3. \/ f = 0 /\ \A i \in 1..l : s[i] # 0
      \/ f \in 1..l /\ s[f] = 0 /\ \A i \in 1..f - 1 : s[i] # 0
  BY <1>1, <1>2, FirstIndexFacts
<1>4. f \in 1..l /\ f = m
  <2>1. f \in 1..l /\ s[f] = 0 /\ \A i \in 1..f - 1 : s[i] # 0
    BY <1>1, <1>3
  <2>2. ~ (m \in 1..f - 1) /\ ~ (f \in 1..m - 1)
    BY <1>1, <2>1
  <2> QED
    BY <1>1, <2>1, <2>2
<1>5. CStr(s) = SubSeq(s, 1, m - 1)
  <2>1. FirstIndex(s, 0) = m /\ m # 0
    BY <1>1, <1>2, <1>4
  <2> QED
    BY <2>1 DEF CStr
<1>6. CStr(s) # None
  <2>1. CStr(s) \in Seq(Byte \ {0})
    <3>1. \A i \in 1..m - 1 : s[i] \in Byte \ {0}
      BY <1>1, ElementOfSeq
    <3>2. m - 1 \in Int
      OBVIOUS
    <3> QED
      BY <1>5, <3>1, <3>2, SubSeqProperties
  <2>2. CStr(s) \in Seq(Byte)
    BY <2>1
  <2> QED
    BY <2>2, NoAnswer
<1> QED
  BY <1>1, <1>5, <1>6
-----------------------------------------------------------------------------
(* A string is what comes before one of its bytes, that byte and the rest. *)
LEMMA PutTogether ==
  ASSUME NEW S, NEW s \in Seq(S), NEW p \in Seq(S), NEW q \in Seq(S), NEW at \in 1..Len(s),
         Len(p) = at - 1, \A i \in 1..at - 1 : p[i] = s[i],
         Len(q) = Len(s) - at, \A i \in 1..Len(s) - at : q[i] = s[at + i]
  PROVE  p \o <<s[at]>> \o q = s
<1>1. PICK l \in Nat, f \in Nat : l = Len(s) /\ f = at /\ f \in 1..l
  BY LenProperties
<1>2. PICK b \in S : b = s[at]
  BY <1>1, ElementOfSeq
<1>3. <<b>> \in Seq(S) /\ Len(<<b>>) = 1 /\ <<b>>[1] = b
  OBVIOUS
<1>4. PICK h \in Seq(S) : /\ h = p \o <<b>> /\ Len(h) = f
                          /\ \A i \in 1..f - 1 : h[i] = p[i]
                          /\ h[f] = b
  <2>1. /\ p \o <<b>> \in Seq(S) /\ Len(p \o <<b>>) = Len(p) + Len(<<b>>)
        /\ \A i \in 1..Len(p) + Len(<<b>>) :
             (p \o <<b>>)[i] = IF i <= Len(p) THEN p[i] ELSE <<b>>[i - Len(p)]
    BY <1>3, ConcatProperties
  <2>2. f - 1 + 1 = f /\ f - (f - 1) = 1 /\ ~ (f <= f - 1) /\ f \in 1..f
    BY <1>1
  <2>3. \A i \in 1..f - 1 : i <= f - 1 /\ i \in 1..f
    BY <1>1
  <2>4. \A i \in 1..f : (p \o <<b>>)[i] = IF i <= f - 1 THEN p[i] ELSE <<b>>[i - (f - 1)]
    BY <1>1, <1>3, <2>1, <2>2
  <2>5. (p \o <<b>>)[f] = b /\ \A i \in 1..f - 1 : (p \o <<b>>)[i] = p[i]
    BY <1>3, <2>2, <2>3, <2>4
  <2>6. Len(p \o <<b>>) = f
    BY <1>1, <1>3, <2>1, <2>2
  <2> QED
    BY <2>1, <2>5, <2>6
<1>5. /\ h \o q \in Seq(S) /\ Len(h \o q) = Len(h) + Len(q)
      /\ \A i \in 1..Len(h) + Len(q) :
           (h \o q)[i] = IF i <= Len(h) THEN h[i] ELSE q[i - Len(h)]
  BY ConcatProperties
<1>6. PICK t \in Seq(S) : /\ t = h \o q /\ Len(t) = l
                          /\ \A i \in 1..l : t[i] = IF i <= f THEN h[i] ELSE q[i - f]
  <2>1. f + (l - f) = l
    BY <1>1
  <2>2. Len(h \o q) = l /\ \A i \in 1..l : (h \o q)[i] = IF i <= f THEN h[i] ELSE q[i - f]
    BY <1>1, <1>4, <1>5, <2>1
  <2> QED
    BY <1>5, <2>2
<1>7. ASSUME NEW i \in 1..l PROVE t[i] = s[i]
  <2>1. CASE i = f
    BY <1>1, <1>2, <1>4, <1>6, <2>1
  <2>2. CASE i < f
    <3>1. i \in 1..f - 1 /\ i <= f
      BY <1>1, <2>2
    <3> QED
      BY <1>1, <1>4, <1>6, <3>1
  <2>3. CASE i > f
    <3>1. i - f \in 1..l - f /\ ~ (i <= f) /\ f + (i - f) = i
      BY <1>1, <2>3
    <3> QED
      BY <1>1, <1>6, <3>1
  <2> QED
    BY <1>1, <2>1, <2>2, <2>3
<1>8. t = s
  BY <1>1, <1>6, <1>7, SeqEqual
<1> QED
  BY <1>1, <1>2, <1>4, <1>6, <1>8

(* The two sides of the first of some bytes, and it, are the string.       *)
AreSides(s, b, at, p, q) ==
  /\ at \in 1..Len(s) /\ p \in CStrings /\ q \in CStrings
  /\ SplitAtFirst(s, b) = <<p, q>> /\ SplitAtFirst(s, b) # None
  /\ s[at] = b /\ \A i \in 1..at - 1 : s[i] # b
  /\ Len(p) = at - 1 /\ Len(q) = Len(s) - at
  /\ \A i \in 1..Len(s) - at : q[i] = s[at + i]
  /\ p \o <<b>> \o q = s

LEMMA SplitFacts ==
  ASSUME NEW s \in CStrings, NEW b
  PROVE  \/ SplitAtFirst(s, b) = None /\ \A i \in 1..Len(s) : s[i] # b
         \/ \E at, p, q : AreSides(s, b, at, p, q)
<1>1. PICK l \in Nat, f \in Nat :
        /\ l = Len(s) /\ f = FirstIndex(s, b)
        /\ \/ f = 0 /\ \A i \in 1..l : s[i] # b
           \/ f \in 1..l /\ s[f] = b /\ \A i \in 1..f - 1 : s[i] # b
  <2>1. Len(s) \in Nat /\ s \in Seq(Byte \ {0})
    BY DEF CStrings
  <2>2. \/ FirstIndex(s, b) = 0 /\ \A i \in 1..Len(s) : s[i] # b
        \/ /\ FirstIndex(s, b) \in 1..Len(s) /\ s[FirstIndex(s, b)] = b
           /\ \A i \in 1..FirstIndex(s, b) - 1 : s[i] # b
    BY <2>1, FirstIndexFacts
  <2>3. FirstIndex(s, b) \in Nat
    BY <2>1, <2>2
  <2> QED
    BY <2>1, <2>2, <2>3
<1>2. CASE f = 0
  BY <1>1, <1>2 DEF SplitAtFirst
<1>3. CASE f # 0
  <2>1. f \in 1..l /\ s[f] = b /\ \A i \in 1..f - 1 : s[i] # b
    BY <1>1, <1>3
  <2> DEFINE S == Byte \ {0}
  <2>2. s \in Seq(S) /\ \A i \in 1..l : s[i] \in S
    <3>1. s \in Seq(S)
      BY DEF CStrings
    <3> HIDE DEF S
    <3> QED
      BY <1>1, <3>1, ElementOfSeq
  <2> HIDE DEF S
  <2>3. PICK p \in Seq(S) :
          /\ p = SubSeq(s, 1, f - 1) /\ Len(p) = f - 1
          /\ \A i \in 1..f - 1 : p[i] = s[i]
    <3>1. f - 1 \in 0..Len(s)
      BY <1>1, <2>1
    <3> QED
      BY <2>2, <3>1, FirstOfSeq
  <2>4. PICK q \in Seq(S) : /\ q = SubSeq(s, f + 1, l) /\ Len(q) = l - f
                            /\ \A i \in 1..l - f : q[i] = s[f + i]
    <3>1. f \in 0..Len(s)
      BY <1>1, <2>1
    <3>2. /\ SubSeq(s, f + 1, l) \in Seq(S) /\ Len(SubSeq(s, f + 1, l)) = l - f
          /\ \A i \in 1..l - f : SubSeq(s, f + 1, l)[i] = s[f + i]
      BY <1>1, <2>2, <3>1, LastOfSeq
    <3> QED
      BY <3>2
  <2>5. SplitAtFirst(s, b) = <<p, q>>
    BY <1>1, <1>3, <2>3, <2>4 DEF SplitAtFirst, Split
  <2>6. p \in CStrings /\ q \in CStrings
    BY DEF CStrings, S
  <2>7. <<p, q>> # None
    <3>1. CStrings \subseteq Seq(Byte)
      BY DEF CStrings
    <3>2. <<p, q>> \in Seq(Seq(Byte))
      BY <2>6, <3>1
    <3> QED
      BY <3>2, NoAnswer
  <2>8. p \o <<b>> \o q = s
    <3>1. /\ f \in 1..Len(s) /\ Len(p) = f - 1 /\ \A i \in 1..f - 1 : p[i] = s[i]
          /\ Len(q) = Len(s) - f
          /\ \A i \in 1..Len(s) - f : q[i] = s[f + i]
      BY <1>1, <2>1, <2>3, <2>4
    <3>2. p \o <<s[f]>> \o q = s
      BY <2>2, <3>1, PutTogether
    <3> QED
      BY <2>1, <3>2
  <2>9. /\ SplitAtFirst(s, b) = <<p, q>> /\ SplitAtFirst(s, b) # None
        /\ s[f] = b /\ \A i \in 1..f - 1 : s[i] # b
    BY <2>1, <2>5, <2>7
  <2>10. f \in 1..Len(s) /\ Len(q) = Len(s) - f /\ \A i \in 1..Len(s) - f : q[i] = s[f + i]
    BY <1>1, <2>1, <2>4
  <2> QED
    <3>1. AreSides(s, b, f, p, q)
      BY <2>3, <2>6, <2>8, <2>9, <2>10 DEF AreSides
    <3> QED
      BY <3>1
<1> QED
  BY <1>2, <1>3
-----------------------------------------------------------------------------
(* A model keeps its string.                                               *)
ModelsOfOne == [1..1 -> CStrings] \cup [1..2 -> CStrings]

LEMMA TextsAreTexts ==
  ASSUME NEW s \in CStrings
  PROVE  /\ s \in Seq(Byte) /\ s # None /\ Len(s) \in Nat
         /\ <<s>> # None /\ <<s>> \in [1..1 -> CStrings]
         /\ \A t \in CStrings : <<s, t>> # None /\ <<s, t>> \in [1..2 -> CStrings]
<1>1. CStrings \subseteq Seq(Byte)
  BY DEF CStrings
<1>2. <<s>> \in Seq(Seq(Byte)) /\ \A t \in CStrings : <<s, t>> \in Seq(Seq(Byte))
  BY <1>1
<1>3. s \in Seq(Byte) /\ Len(s) \in Nat
  BY <1>1
<1>4. <<s>> # None /\ \A t \in CStrings : <<s, t>> # None
  BY <1>2, NoAnswer
<1>5. s # None
  BY <1>3, NoAnswer
<1> HIDE DEF CStrings
<1>6. <<s>> \in [1..1 -> CStrings]
  OBVIOUS
<1>7. \A t \in CStrings : <<s, t>> \in [1..2 -> CStrings]
  OBVIOUS
<1> QED
  BY <1>3, <1>4, <1>5, <1>6, <1>7

LEMMA ModelFacts ==
  ASSUME NEW s \in CStrings
  PROVE  /\ Model(s) \in ModelsOfOne /\ Model(s) # None /\ Len(Model(s)) \in 1..2
         /\ Joined(Model(s), Comma) = s /\ LengthOf(Model(s)) = Len(s)
<1>1. CASE SplitAtFirst(s, Comma) = None
  <2>1. Model(s) = <<s>> /\ Len(<<s>>) = 1 /\ <<s>>[1] = s
    BY <1>1 DEF Model
  <2>2. Joined(<<s>>, Comma) = s /\ LengthOf(<<s>>) = Len(s)
    BY <2>1 DEF Joined, LengthOf
  <2> QED
    BY <2>1, <2>2, TextsAreTexts DEF ModelsOfOne
<1>2. CASE SplitAtFirst(s, Comma) # None
  <2>1. PICK at, p, q : AreSides(s, Comma, at, p, q)
    BY <1>2, SplitFacts
  <2>2. /\ at \in 1..Len(s) /\ p \in CStrings /\ q \in CStrings
        /\ SplitAtFirst(s, Comma) = <<p, q>> /\ Len(p) = at - 1 /\ Len(q) = Len(s) - at
        /\ p \o <<Comma>> \o q = s
    BY <2>1 DEF AreSides
  <2>3. Model(s) = <<p, q>> /\ Len(<<p, q>>) = 2 /\ <<p, q>>[1] = p /\ <<p, q>>[2] = q
    BY <1>2, <2>2 DEF Model
  <2>4. Joined(<<p, q>>, Comma) = s /\ LengthOf(<<p, q>>) = Len(p) + 1 + Len(q)
    BY <2>2, <2>3 DEF Joined, LengthOf
  <2>5. Len(p) + 1 + Len(q) = Len(s)
    BY <2>2, TextsAreTexts
  <2>6. <<p, q>> # None /\ <<p, q>> \in ModelsOfOne
    BY <2>2, TextsAreTexts DEF ModelsOfOne
  <2> QED
    BY <2>2, <2>3, <2>4, <2>5, <2>6
<1> QED
  BY <1>1, <1>2

(* One string begins another if the first bytes of that one are its own.   *)
LEMMA IsPrefixFacts ==
  ASSUME NEW S, NEW a \in Seq(S), NEW b \in Seq(S)
  PROVE  IsPrefix(a, b) <=> Len(a) <= Len(b) /\ \A i \in 1..Len(a) : a[i] = b[i]
<1>1. PICK k \in Nat, l \in Nat : k = Len(a) /\ l = Len(b)
  BY LenProperties
<1>2. CASE k <= l
  <2>1. k \in 0..Len(a) /\ k \in 0..Len(b)
    BY <1>1, <1>2
  <2>2. PICK x \in Seq(S), y \in Seq(S) :
          /\ x = SubSeq(a, 1, k) /\ Len(x) = k /\ \A i \in 1..k : x[i] = a[i]
          /\ y = SubSeq(b, 1, k) /\ Len(y) = k /\ \A i \in 1..k : y[i] = b[i]
    <3>1. /\ SubSeq(a, 1, k) \in Seq(S) /\ Len(SubSeq(a, 1, k)) = k
          /\ \A i \in 1..k : SubSeq(a, 1, k)[i] = a[i]
      BY <2>1, FirstOfSeq
    <3>2. /\ SubSeq(b, 1, k) \in Seq(S) /\ Len(SubSeq(b, 1, k)) = k
          /\ \A i \in 1..k : SubSeq(b, 1, k)[i] = b[i]
      BY <2>1, FirstOfSeq
    <3> QED
      BY <3>1, <3>2
  <2>3. x = y <=> \A i \in 1..k : a[i] = b[i]
    <3>1. ASSUME \A i \in 1..k : a[i] = b[i] PROVE x = y
      <4>1. Len(x) = Len(y) /\ \A i \in 1..Len(x) : x[i] = y[i]
        BY <2>2, <3>1
      <4> QED
        BY <4>1, SeqEqual
    <3>2. ASSUME x = y PROVE \A i \in 1..k : a[i] = b[i]
      BY <2>2, <3>2
    <3> QED
      BY <3>1, <3>2
  <2> QED
    BY <1>1, <1>2, <2>2, <2>3 DEF IsPrefix
<1>3. CASE ~ (k <= l)
  BY <1>1, <1>3 DEF IsPrefix
<1> QED
  BY <1>2, <1>3

(* A status is known or begins with "fail", and keeps its string.          *)
LEMMA StatusFacts ==
  ASSUME NEW s \in CStrings
  PROVE  /\ Status(s) # None <=>
              s \in {Okay, Disabled, Reserved, Fail} \/ IsPrefix(Append(Fail, Dash), s)
         /\ Status(s) # None => Len(Status(s)) \in 1..2 /\ Joined(Status(s), Dash) = s
<1> DEFINE S == 0..255
<1>1. Byte \ {0} \subseteq S /\ Dash \in S
  BY ByteAssumption DEF Dash
<1> HIDE DEF S
<1>2. s \in Seq(S) /\ Fail \in Seq(S) /\ Fail \in CStrings
  BY <1>1, KeywordsAssumption DEF CStrings
<1>3. PICK f \in Seq(S) : f = Fail
  BY <1>2
<1>4. PICK k \in Nat, l \in Nat : k = Len(f) /\ l = Len(s)
  BY <1>2, LenProperties
<1>5. PICK d \in Seq(S) : /\ d = Append(f, Dash) /\ Len(d) = k + 1 /\ d[k + 1] = Dash
                          /\ \A i \in 1..k : d[i] = f[i]
  <2>1. /\ Append(f, Dash) \in Seq(S) /\ Len(Append(f, Dash)) = Len(f) + 1
        /\ Append(f, Dash)[Len(f) + 1] = Dash
        /\ \A i \in 1..Len(f) : Append(f, Dash)[i] = f[i]
    BY <1>1, AppendProperties
  <2> QED
    BY <1>4, <2>1
<1>6. IsPrefix(f, s) <=> k <= l /\ \A i \in 1..k : f[i] = s[i]
  <2>1. IsPrefix(f, s) <=> Len(f) <= Len(s) /\ \A i \in 1..Len(f) : f[i] = s[i]
    BY <1>2, IsPrefixFacts
  <2> QED
    BY <1>4, <2>1
<1>7. IsPrefix(d, s) <=> k + 1 <= l /\ \A i \in 1..k + 1 : d[i] = s[i]
  <2>1. IsPrefix(d, s) <=> Len(d) <= Len(s) /\ \A i \in 1..Len(d) : d[i] = s[i]
    BY <1>2, IsPrefixFacts
  <2> QED
    BY <1>4, <1>5, <2>1
<1>8. CASE ~ IsPrefix(f, s)
  <2>1. s # f
    <3>1. s = f => k <= l /\ \A i \in 1..k : f[i] = s[i]
      BY <1>4
    <3> QED
      BY <1>6, <1>8, <3>1
  <2>2. ~ IsPrefix(d, s)
    <3>1. IsPrefix(d, s) => k <= l /\ \A i \in 1..k : f[i] = s[i]
      BY <1>5, <1>7
    <3> QED
      BY <1>6, <1>8, <3>1
  <2>3. Status(s) = IF s \in {Okay, Disabled, Reserved} THEN <<s>> ELSE None
    BY <1>3, <1>8 DEF Status
  <2>4. Len(<<s>>) = 1 /\ Joined(<<s>>, Dash) = s /\ <<s>> # None
    BY TextsAreTexts DEF Joined
  <2> QED
    BY <1>3, <1>5, <2>1, <2>2, <2>3, <2>4
<1>9. CASE IsPrefix(f, s)
  <2>1. s \notin {Okay, Disabled, Reserved}
    BY <1>3, <1>9, KeywordsAssumption
  <2>2. k <= l /\ \A i \in 1..k : f[i] = s[i]
    BY <1>6, <1>9
  <2>3. PICK c \in Seq(S) : /\ c = SubSeq(s, k + 1, l) /\ Len(c) = l - k
                            /\ \A i \in 1..l - k : c[i] = s[k + i]
    <3>1. k \in 0..Len(s)
      BY <1>4, <2>2
    <3>2. /\ SubSeq(s, k + 1, l) \in Seq(S) /\ Len(SubSeq(s, k + 1, l)) = l - k
          /\ \A i \in 1..l - k : SubSeq(s, k + 1, l)[i] = s[k + i]
      BY <1>2, <1>4, <3>1, LastOfSeq
    <3> QED
      BY <3>2
  <2>4. Status(s) = IF c = <<>> THEN <<f>> ELSE IF c[1] = Dash THEN <<f, Tail(c)>> ELSE None
    BY <1>3, <1>4, <1>9, <2>3 DEF Status
  <2>5. CASE l = k
    <3>1. s = f
      BY <1>2, <1>4, <2>2, <2>5, SeqEqual
    <3>2. Status(s) = <<s>>
      BY <2>3, <2>4, <2>5, <3>1, EmptySeq
    <3>3. Len(<<s>>) = 1 /\ Joined(<<s>>, Dash) = s /\ <<s>> # None
      BY TextsAreTexts DEF Joined
    <3> QED
      BY <1>3, <3>1, <3>2, <3>3
  <2>6. CASE l # k
    <3>1. k + 1 <= l /\ 1 \in 1..l - k /\ c # <<>>
      <4>1. k + 1 <= l /\ 1 \in 1..l - k /\ l - k # 0
        BY <2>2, <2>6
      <4> QED
        BY <2>3, <4>1, EmptySeq
    <3>2. c[1] = s[k + 1]
      BY <2>3, <3>1
    <3>3. s # f
      BY <1>4, <2>6
    <3>4. IsPrefix(d, s) <=> s[k + 1] = Dash
      <4>1. \A i \in 1..k : d[i] = s[i]
        BY <1>5, <2>2
      <4>2. k + 1 \in 1..k + 1 /\ \A i \in 1..k + 1 : i \in 1..k \/ i = k + 1
        OBVIOUS
      <4> QED
        BY <1>5, <1>7, <3>1, <4>1, <4>2
    <3>5. CASE c[1] = Dash
      <4>1. Status(s) = <<f, Tail(c)>>
        BY <2>4, <3>1, <3>5
      <4>2. PICK t \in Seq(S) : /\ t = Tail(c) /\ Len(t) = l - (k + 1)
                                /\ \A i \in 1..l - (k + 1) : t[i] = s[(k + 1) + i]
        <5>1. PICK t \in Seq(S) :
                /\ t = Tail(c) /\ Len(t) = Len(c) - 1
                /\ \A i \in 1..Len(t) : t[i] = c[i + 1]
          BY <3>1, HeadTailProperties
        <5>2. Len(t) = l - (k + 1)
          BY <2>3, <5>1
        <5>3. ASSUME NEW i \in 1..l - (k + 1) PROVE t[i] = s[(k + 1) + i]
          <6>1. i \in 1..Len(t) /\ i + 1 \in 1..l - k /\ k + (i + 1) = (k + 1) + i
            BY <5>2
          <6> QED
            BY <2>3, <5>1, <6>1
        <5> QED
          BY <5>1, <5>2, <5>3
      <4>3. f \o <<s[k + 1]>> \o t = s
        <5>1. PICK at \in Int : at = k + 1
          OBVIOUS
        <5>2. /\ at \in 1..Len(s) /\ Len(f) = at - 1 /\ \A i \in 1..at - 1 : f[i] = s[i]
              /\ Len(t) = Len(s) - at
              /\ \A i \in 1..Len(s) - at : t[i] = s[at + i]
          <6>1. at \in 1..l /\ at - 1 = k
            BY <3>1, <5>1
          <6> QED
            BY <1>4, <2>2, <4>2, <5>1, <6>1
        <5> QED
          BY <1>2, <5>1, <5>2, PutTogether
      <4>4. Len(<<f, t>>) = 2 /\ Joined(<<f, t>>, Dash) = s
        BY <3>2, <3>5, <4>3 DEF Joined
      <4>5. <<f, t>> # None
        <5>1. t \in CStrings
          <6>1. ASSUME NEW i \in 1..Len(t) PROVE t[i] \in Byte \ {0}
            <7>1. (k + 1) + i \in 1..l /\ t[i] = s[(k + 1) + i]
              BY <4>2
            <7>2. s \in Seq(Byte \ {0})
              BY DEF CStrings
            <7> QED
              BY <1>4, <7>1, <7>2, ElementOfSeq
          <6> DEFINE B == Byte \ {0}
          <6>2. t \in [1..Len(t) -> B]
            <7>1. t \in [1..Len(t) -> S]
              BY LenProperties
            <7> HIDE DEF B
            <7>2. \A i \in 1..Len(t) : t[i] \in B
              BY <6>1 DEF B
            <7> QED
              BY <7>1, <7>2
          <6>3. Len(t) \in Nat
            BY LenProperties
          <6> HIDE DEF B
          <6>4. t \in Seq(B)
            BY <6>2, <6>3
          <6> QED
            BY <6>4 DEF CStrings, B
        <5> QED
          BY <1>2, <1>3, <5>1, TextsAreTexts
      <4> QED
        BY <1>3, <1>5, <2>1, <3>2, <3>3, <3>4, <3>5, <4>1, <4>2, <4>4, <4>5
    <3>6. CASE c[1] # Dash
      BY <1>3, <1>5, <2>1, <2>4, <3>1, <3>2, <3>3, <3>4, <3>6
    <3> QED
      BY <3>5, <3>6
  <2> QED
    BY <2>5, <2>6
<1> QED
  BY <1>8, <1>9

(* A method is the one known or has one comma, and keeps its string.       *)
LEMMA CommasFacts ==
  ASSUME NEW s \in CStrings
  PROVE  /\ Commas(s) = {i \in 1..Len(s) : s[i] = Comma} /\ IsFiniteSet(Commas(s))
         /\ Cardinality(Commas(s)) = 1 <=> \E m : Commas(s) = {m}
<1>1. DOMAIN s = 1..Len(s) /\ Len(s) \in Nat
  BY LenProperties DEF CStrings
<1>2. Commas(s) = {i \in 1..Len(s) : s[i] = Comma}
  BY <1>1 DEF Commas
<1>3. IsFiniteSet(Commas(s))
  <2>1. IsFiniteSet(1..Len(s))
    BY <1>1, FS_Interval
  <2>2. Commas(s) \subseteq 1..Len(s)
    BY <1>2
  <2> QED
    BY <2>1, <2>2, FS_Subset
<1> QED
  BY <1>2, <1>3, FS_Singleton

LEMMA MethodFacts ==
  ASSUME NEW s \in CStrings
  PROVE  /\ EnableMethod(s) # None <=> s = SpinTable \/ Cardinality(Commas(s)) = 1
         /\ EnableMethod(s) # None =>
              Len(EnableMethod(s)) \in 1..2 /\ Joined(EnableMethod(s), Comma) = s
<1>1. CASE s = SpinTable
  <2>1. EnableMethod(s) = <<s>>
    BY <1>1 DEF EnableMethod
  <2>2. Len(<<s>>) = 1 /\ Joined(<<s>>, Comma) = s /\ <<s>> # None
    BY TextsAreTexts DEF Joined
  <2> QED
    BY <1>1, <2>1, <2>2
<1>2. CASE s # SpinTable /\ SplitAtFirst(s, Comma) = None
  <2>1. EnableMethod(s) = None
    BY <1>2 DEF EnableMethod
  <2>2. Commas(s) = {}
    <3>1. \A i \in 1..Len(s) : s[i] # Comma
      BY <1>2, SplitFacts DEF AreSides
    <3> QED
      BY <3>1, CommasFacts
  <2> QED
    BY <1>2, <2>1, <2>2, CommasFacts
<1>3. CASE s # SpinTable /\ SplitAtFirst(s, Comma) # None
  <2>1. PICK at, p, q : AreSides(s, Comma, at, p, q)
    BY <1>3, SplitFacts
  <2>2. /\ at \in 1..Len(s) /\ p \in CStrings /\ q \in CStrings
        /\ SplitAtFirst(s, Comma) = <<p, q>>
        /\ s[at] = Comma /\ \A i \in 1..at - 1 : s[i] # Comma
        /\ Len(q) = Len(s) - at /\ \A i \in 1..Len(s) - at : q[i] = s[at + i]
        /\ p \o <<Comma>> \o q = s
    BY <2>1 DEF AreSides
  <2>3. PICK l \in Nat, f \in Nat : l = Len(s) /\ f = at /\ f \in 1..l
    BY <2>2, TextsAreTexts
  <2>4. EnableMethod(s) = IF SplitAtFirst(q, Comma) = None THEN <<p, q>> ELSE None
    BY <1>3, <2>2 DEF EnableMethod
  <2>5. CASE SplitAtFirst(q, Comma) = None
    <3>1. \A i \in 1..Len(q) : q[i] # Comma
      BY <2>2, <2>5, SplitFacts DEF AreSides
    <3>2. ASSUME NEW i \in 1..l, s[i] = Comma PROVE i = f
      <4>1. ~ (i \in 1..f - 1)
        BY <2>2, <2>3, <3>2
      <4>2. ASSUME i > f PROVE FALSE
        <5>1. i - f \in 1..l - f /\ f + (i - f) = i
          BY <2>3, <4>2
        <5>2. q[i - f] = s[i] /\ i - f \in 1..Len(q)
          BY <2>2, <2>3, <5>1
        <5> QED
          BY <3>1, <3>2, <5>2
      <4> QED
        BY <2>3, <4>1, <4>2
    <3>3. Commas(s) = {f}
      BY <2>2, <2>3, <3>2, CommasFacts
    <3>4. Len(<<p, q>>) = 2 /\ Joined(<<p, q>>, Comma) = s /\ <<p, q>> # None
      BY <2>2, TextsAreTexts DEF Joined
    <3>5. EnableMethod(s) = <<p, q>>
      BY <2>4, <2>5
    <3>6. Cardinality(Commas(s)) = 1
      BY <3>3, CommasFacts
    <3> QED
      BY <3>4, <3>5, <3>6
  <2>6. CASE SplitAtFirst(q, Comma) # None
    <3>1. PICK i \in 1..Len(q) : q[i] = Comma
      <4>1. PICK x, y, z : AreSides(q, Comma, x, y, z)
        BY <2>2, <2>6, SplitFacts
      <4> QED
        BY <4>1 DEF AreSides
    <3>2. f + i \in 1..l /\ f + i # f /\ i \in 1..l - f
      BY <2>2, <2>3, <3>1
    <3>3. s[f + i] = Comma
      BY <2>2, <2>3, <3>1, <3>2
    <3>4. f \in Commas(s) /\ f + i \in Commas(s)
      BY <2>2, <2>3, <3>2, <3>3, CommasFacts
    <3>5. Cardinality(Commas(s)) # 1
      BY <3>2, <3>4, CommasFacts
    <3> QED
      BY <1>3, <2>4, <2>6, <3>5
  <2> QED
    BY <2>5, <2>6
<1> QED
  BY <1>1, <1>2, <1>3

(* A string is converted if its type allows it, and nothing of it is lost. *)
Separator == IF loop = "status" THEN Dash ELSE Comma

LEMMA ConvertedFacts ==
  ASSUME NEW s \in CStrings, loop \in Kinds \ {"models"}
  PROVE  /\ Converted(s) # None <=> IsGood(s)
         /\ Converted(s) # None =>
              Len(Converted(s)) \in 1..2 /\ Joined(Converted(s), Separator) = s
<1>1. CASE loop = "model"
  <2>1. Converted(s) = Model(s) /\ IsGood(s) /\ Separator = Comma
    BY <1>1 DEF Converted, IsGood, Separator
  <2> QED
    BY <2>1, ModelFacts
<1>2. CASE loop = "status"
  <2>1. /\ Converted(s) = Status(s) /\ Separator = Dash
        /\ IsGood(s) <=> s \in {Okay, Disabled, Reserved, Fail} \/ IsPrefix(Append(Fail, Dash), s)
    BY <1>2 DEF Converted, IsGood, Separator
  <2> QED
    BY <2>1, StatusFacts
<1>3. CASE loop = "method"
  <2>1. /\ Converted(s) = EnableMethod(s) /\ Separator = Comma
        /\ IsGood(s) <=> s = SpinTable \/ Cardinality(Commas(s)) = 1
    BY <1>3 DEF Converted, IsGood, Separator
  <2> QED
    BY <2>1, MethodFacts
<1>4. CASE loop = "chassis"
  <2>1. /\ Converted(s) = ChassisType(s) /\ Separator = Comma
        /\ IsGood(s) <=> s \in ChassisTypes
    BY <1>4 DEF Converted, IsGood, Separator
  <2>2. Len(<<s>>) = 1 /\ Joined(<<s>>, Comma) = s /\ <<s>> # None
    BY TextsAreTexts DEF Joined
  <2> QED
    BY <2>1, <2>2 DEF ChassisType
<1> QED
  BY <1>1, <1>2, <1>3, <1>4 DEF Kinds
-----------------------------------------------------------------------------
(* A value that is read as one string.                                     *)
TextAnswer == IF CStr(left) = None THEN None ELSE Converted(CStr(left))

TextInv ==
  /\ value \in Texts /\ loop \in Kinds \ {"models"} /\ counts = <<>> /\ list = <<>>
  /\ left = BytesOf(value) /\ out \in {"reading", "Some", "None"}
  /\ IF out = "Some" THEN TextAnswer # None /\ read = TextAnswer ELSE read = <<>>
  /\ out = "None" => TextAnswer = None

LEMMA TextStarts ==
  ASSUME ValuesInit, loop \in Kinds \ {"models"}
  PROVE  TextInv
<1>1. ~ Init /\ loop \notin Numbers
  BY DEF Init, Kinds, Numbers
<1> QED
  BY <1>1 DEF ValuesInit, TextInv

LEMMA TextIsRead ==
  ASSUME TextInv, ReadString
  PROVE  TextInv'
<1>1. /\ UNCHANGED <<value, counts, loop, rest, group, list, left>>
      /\ loop \in Kinds \ {"models"} /\ out = "reading" /\ read = <<>>
  BY DEF TextInv, ReadString, inputs
<1>2. IF TextAnswer = None THEN out' = "None" /\ read' = read
                           ELSE out' = "Some" /\ read' = TextAnswer
  BY DEF ReadString, TextAnswer
<1>3. TextAnswer' = TextAnswer
  BY <1>1 DEF TextAnswer, Converted
<1> QED
  BY <1>1, <1>2, <1>3 DEF TextInv

LEMMA TextStays ==
  ASSUME TextInv, UNCHANGED valuesVars
  PROVE  TextInv'
<1>1. UNCHANGED <<value, counts, loop, rest, group, list, out, left, read>>
  BY DEF valuesVars, vars, inputs
<1>2. TextAnswer' = TextAnswer
  BY <1>1 DEF TextAnswer, Converted
<1> QED
  BY <1>1, <1>2 DEF TextInv

(* All of the bytes.                                                       *)
LEMMA WholeSubSeq ==
  ASSUME NEW S, NEW s \in Seq(S)
  PROVE  SubSeq(s, 0 + 1, Len(s)) = s
<1>1. PICK l \in Nat : l = Len(s) /\ 0 \in 0..l
  BY LenProperties
<1>2. PICK t \in Seq(S) : /\ t = SubSeq(s, 0 + 1, l) /\ Len(t) = l - 0
                          /\ \A i \in 1..l - 0 : t[i] = s[0 + i]
  BY <1>1, LastOfSeq
<1>3. Len(t) = Len(s) /\ \A i \in 1..Len(t) : t[i] = s[i]
  BY <1>1, <1>2
<1> QED
  BY <1>1, <1>2, <1>3, SeqEqual

LEMMA TextHolds ==
  ASSUME TextInv
  PROVE  ValuesTypeOK /\ CellsInPlace /\ ValuesComeBack /\ VerdictIsExact
<1>1. /\ value \in Texts /\ value \in NewSlices /\ loop \in Kinds /\ loop # "models"
      /\ loop \notin Numbers /\ loop \notin {"checked", "pairs"}
      /\ left = BytesOf(value) /\ list = <<>>
  BY TextsAssumption DEF TextInv, Kinds, Numbers
<1>2. /\ left \in Seq(Byte) /\ Len(left) \in Nat /\ LenBytes(value) = Len(left)
      /\ DOMAIN left = 1..Len(left)
  BY <1>1, BytesFacts, LenProperties
<1>3. CellsInPlace
  <2>1. Len(list) = 0 /\ \A i \in 1..0 : FALSE
    BY <1>1, EmptySeq
  <2> QED
    BY <2>1 DEF CellsInPlace
<1>4. ASSUME NEW n \in 1..Len(left), left[n] = 0, \A i \in 1..n - 1 : left[i] # 0
      PROVE  CStr(left) = SubSeq(left, 1, n - 1) /\ CStr(left) # None
  BY <1>2, <1>4, FirstZero
<1>5. ASSUME CStr(left) # None
      PROVE  \E n \in 1..Len(left) :
               /\ left[n] = 0 /\ \A i \in 1..n - 1 : left[i] # 0
               /\ CStr(left) \in CStrings /\ Len(CStr(left)) = n - 1
               /\ \A i \in 1..n - 1 : CStr(left)[i] = left[i]
  BY <1>2, <1>5, CStrFacts DEF CStrings
<1>6. ASSUME CStr(left) # None
      PROVE  /\ Converted(CStr(left)) # None <=> IsGood(CStr(left))
             /\ Converted(CStr(left)) # None =>
                  /\ Len(Converted(CStr(left))) \in 1..2
                  /\ Joined(Converted(CStr(left)), Separator) = CStr(left)
  <2>1. CStr(left) \in CStrings
    BY <1>5, <1>6
  <2> QED
    BY <1>1, <2>1, ConvertedFacts
<1>7. ValuesTypeOK
  <2>1. 0 \in 0..LenBytes(value) /\ left = SubSeq(BytesOf(value), 0 + 1, LenBytes(value))
    BY <1>1, <1>2, WholeSubSeq
  <2>2. read = <<>> \/ Len(read) \in 1..2
    BY <1>6 DEF TextInv, TextAnswer
  <2> QED
    BY <1>1, <2>1, <2>2 DEF ValuesTypeOK, TextInv
<1>8. ValuesComeBack
  <2>1. ASSUME out = "Some" PROVE IsPrefix(Append(Joined(read, Separator), 0), left)
    <3>1. CStr(left) # None /\ Converted(CStr(left)) # None /\ read = Converted(CStr(left))
      BY <2>1 DEF TextInv, TextAnswer
    <3>2. PICK n \in 1..Len(left) :
            /\ left[n] = 0 /\ CStr(left) \in CStrings /\ Len(CStr(left)) = n - 1
            /\ \A i \in 1..n - 1 : CStr(left)[i] = left[i]
      BY <1>5, <3>1
    <3>3. PICK s \in Seq(Byte) : s = CStr(left)
      BY <3>2, TextsAreTexts
    <3>4. PICK t \in Seq(Byte) : /\ t = Append(s, 0) /\ Len(t) = n /\ t[n] = 0
                                 /\ \A i \in 1..n - 1 : t[i] = s[i]
      <4>1. /\ Append(s, 0) \in Seq(Byte) /\ Len(Append(s, 0)) = Len(s) + 1
            /\ Append(s, 0)[Len(s) + 1] = 0 /\ \A i \in 1..Len(s) : Append(s, 0)[i] = s[i]
        BY ByteAssumption, AppendProperties
      <4>2. n - 1 + 1 = n
        BY <1>2
      <4> QED
        BY <3>2, <3>3, <4>1, <4>2
    <3>5. ASSUME NEW i \in 1..n PROVE t[i] = left[i]
      <4>1. i = n \/ i \in 1..n - 1
        BY <1>2
      <4> QED
        BY <3>2, <3>3, <3>4, <4>1
    <3>6. IsPrefix(t, left)
      <4>1. Len(t) <= Len(left) /\ \A i \in 1..Len(t) : t[i] = left[i]
        BY <1>2, <3>4, <3>5
      <4> QED
        BY <1>2, <4>1, IsPrefixFacts
    <3> QED
      BY <1>6, <3>1, <3>3, <3>4, <3>6
  <2> QED
    BY <1>1, <2>1 DEF ValuesComeBack, Separator
<1>9. VerdictIsExact
  <2>1. ASSUME out # "reading" PROVE out = "Some" <=> IsGoodText
    <3>1. IsGoodText <=> \E n \in 1..Len(left) :
                           /\ left[n] = 0 /\ \A i \in 1..n - 1 : left[i] # 0
                           /\ IsGood(SubSeq(left, 1, n - 1))
      BY <1>1, <1>2 DEF IsGoodText
    <3>2. IsGoodText <=> CStr(left) # None /\ IsGood(CStr(left))
      <4>1. ASSUME IsGoodText PROVE CStr(left) # None /\ IsGood(CStr(left))
        BY <1>4, <3>1, <4>1
      <4>2. ASSUME CStr(left) # None, IsGood(CStr(left)) PROVE IsGoodText
        BY <1>4, <1>5, <3>1, <4>2
      <4> QED
        BY <4>1, <4>2
    <3>3. out = "Some" <=> TextAnswer # None
      BY <2>1 DEF TextInv
    <3> QED
      BY <1>6, <3>2, <3>3 DEF TextAnswer
  <2> QED
    BY <1>1, <2>1 DEF VerdictIsExact, CellVerdictIsExact, TextInv
<1> QED
  BY <1>3, <1>7, <1>8, <1>9
-----------------------------------------------------------------------------
(* What a list of strings is made of, one byte at a time.                  *)
IsKept(bs, i) == bs[i] # 0 \/ (i > 1 /\ bs[i - 1] # 0)

LEMMA KeptSteps ==
  ASSUME NEW bs \in Seq(Byte)
  PROVE  /\ WithoutEmpty(bs) \in [0..Len(bs) -> Seq(Byte)] /\ WithoutEmpty(bs)[0] = <<>>
         /\ \A i \in 1..Len(bs) :
              WithoutEmpty(bs)[i] = IF IsKept(bs, i) THEN Append(WithoutEmpty(bs)[i - 1], bs[i])
                                    ELSE WithoutEmpty(bs)[i - 1]
<1>1. PICK k \in Nat : k = Len(bs) /\ \A i \in 1..k : bs[i] \in Byte
  BY LenProperties, ElementOfSeq
<1> DEFINE ByteStrs == Seq(Byte)
           next(i, t) == IF IsKept(bs, i) THEN Append(t, bs[i]) ELSE t
           step == [i \in 1..k |-> [t \in ByteStrs |-> next(i, t)]]
<1>2. \A i \in 1..k : \A t \in ByteStrs : step[i][t] = next(i, t) /\ step[i][t] \in ByteStrs
  <2>1. ASSUME NEW i \in 1..k, NEW t \in ByteStrs PROVE next(i, t) \in ByteStrs
    BY <1>1
  <2> HIDE DEF next, ByteStrs
  <2> QED
    BY <2>1
<1>3. <<>> \in ByteStrs
  OBVIOUS
<1> HIDE DEF step, ByteStrs
<1>4. PICK f : IsRecursion(f, ByteStrs, k, <<>>, step)
  BY <1>2, <1>3, RecursionExists
<1>5. f \in [0..k -> ByteStrs] /\ f[0] = <<>> /\ \A i \in 1..k : f[i] = next(i, f[i - 1])
  <2>1. /\ f \in [0..k -> ByteStrs] /\ f[0] = <<>>
        /\ \A i \in 1..k : f[i] = step[i][f[i - 1]]
    BY <1>4 DEF IsRecursion
  <2>2. \A i \in 1..k : i - 1 \in 0..k
    OBVIOUS
  <2> HIDE DEF next
  <2> QED
    BY <1>2, <2>1, <2>2
<1> HIDE DEF next
<1>6. f = [n \in 0..k |-> IF n = 0 THEN <<>> ELSE next(n, f[n - 1])]
  <2>1. ASSUME NEW n \in 0..k PROVE f[n] = IF n = 0 THEN <<>> ELSE next(n, f[n - 1])
    <3>1. n = 0 \/ n \in 1..k
      OBVIOUS
    <3> QED
      BY <1>5, <3>1
  <2>2. f = [n \in 0..k |-> f[n]]
    BY <1>5
  <2> QED
    BY <2>1, <2>2
<1>7. PICK h : h = WithoutEmpty(bs)
  OBVIOUS
<1>8. h = [n \in 0..k |-> IF n = 0 THEN <<>> ELSE next(n, h[n - 1])]
  <2> DEFINE Is(g) == g = [n \in 0..k |-> IF n = 0 THEN <<>> ELSE next(n, g[n - 1])]
  <2>1. WithoutEmpty(bs) = CHOOSE g : Is(g)
    BY <1>1 DEF WithoutEmpty, next, IsKept
  <2>2. Is(f)
    BY <1>6
  <2> HIDE DEF Is
  <2>3. Is(h)
    BY <1>7, <2>1, <2>2
  <2> QED
    BY <2>3 DEF Is
<1> DEFINE Wrong == {n \in 0..k : h[n] # f[n]}
<1>9. ASSUME Wrong # {} PROVE FALSE
  <2>1. PICK n \in Wrong : \A m \in Wrong : n <= m
    <3>1. Wrong \subseteq Nat
      OBVIOUS
    <3> HIDE DEF Wrong
    <3> QED
      BY <1>9, <3>1, LeastNatural
  <2>2. n \in 0..k /\ h[n] # f[n]
    OBVIOUS
  <2>3. n # 0
    BY <1>5, <1>8, <2>2
  <2>4. n - 1 \in 0..k /\ ~ (n <= n - 1) /\ n \in 1..k
    BY <2>2, <2>3
  <2>5. h[n - 1] = f[n - 1]
    BY <2>1, <2>4
  <2> QED
    BY <1>5, <1>8, <2>2, <2>4, <2>5
<1>10. h = f
  <2>1. \A n \in 0..k : h[n] = f[n]
    BY <1>9
  <2>2. h = [n \in 0..k |-> h[n]]
    BY <1>8
  <2>3. f = [n \in 0..k |-> f[n]]
    BY <1>5
  <2> QED
    BY <2>1, <2>2, <2>3
<1> QED
  BY <1>1, <1>5, <1>7, <1>10 DEF next, ByteStrs

(* An empty string adds nothing to it, and another string itself and its   *)
(* zero.                                                                   *)
LEMMA NothingKept ==
  ASSUME NEW bs \in Seq(Byte), NEW n \in 1..Len(bs), bs[n] = 0, n = 1 \/ bs[n - 1] = 0
  PROVE  WithoutEmpty(bs)[n] = WithoutEmpty(bs)[n - 1]
<1>1. ~ IsKept(bs, n)
  BY LenProperties DEF IsKept
<1> QED
  BY <1>1, KeptSteps

LEMMA StringKept ==
  ASSUME NEW bs \in Seq(Byte), NEW n \in Nat, NEW t \in Seq(Byte),
         Len(t) > 1, n + Len(t) <= Len(bs),
         \A i \in 1..Len(t) : t[i] = bs[n + i],
         \A i \in 1..Len(t) - 1 : t[i] # 0
  PROVE  WithoutEmpty(bs)[n + Len(t)] = WithoutEmpty(bs)[n] \o t
<1>1. PICK l \in Nat, m \in Nat : l = Len(bs) /\ m = Len(t) /\ m > 1 /\ n + m <= l
  BY LenProperties
<1>2. PICK w : w = WithoutEmpty(bs)
  OBVIOUS
<1>3. /\ w \in [0..l -> Seq(Byte)]
      /\ \A i \in 1..l : w[i] = IF IsKept(bs, i) THEN Append(w[i - 1], bs[i]) ELSE w[i - 1]
  BY <1>1, <1>2, KeptSteps
<1>4. ASSUME NEW i \in 1..m PROVE n + i \in 1..l /\ bs[n + i] \in Byte /\ IsKept(bs, n + i)
  <2>1. n + i \in 1..l
    BY <1>1
  <2>2. bs[n + i] \in Byte
    BY <1>1, <2>1, ElementOfSeq
  <2>3. CASE i # m
    <3>1. i \in 1..m - 1
      BY <1>1, <2>3
    <3> QED
      BY <1>1, <2>1, <2>2, <3>1 DEF IsKept
  <2>4. CASE i = m
    <3>1. m - 1 \in 1..m - 1 /\ m - 1 \in 1..m /\ n + (m - 1) = n + m - 1 /\ n + m > 1
      BY <1>1
    <3>2. bs[n + m - 1] # 0
      BY <1>1, <3>1
    <3> QED
      BY <2>1, <2>2, <2>4, <3>1, <3>2 DEF IsKept
  <2> QED
    BY <2>3, <2>4
<1>5. n \in 0..l
  BY <1>1
<1>6. PICK u \in Seq(Byte), k \in Nat : u = w[n] /\ k = Len(u)
  <2>1. w[n] \in Seq(Byte)
    BY <1>3, <1>5
  <2> QED
    BY <2>1, LenProperties
<1> DEFINE IsSum(v, j) ==
             /\ Len(v) = k + j /\ \A i \in 1..k : v[i] = u[i]
             /\ \A i \in 1..j : v[k + i] = bs[n + i]
           Wrong == {j \in 0..m : ~ IsSum(w[n + j], j)}
<1>7. ASSUME Wrong # {} PROVE FALSE
  <2>1. PICK j \in Wrong : \A x \in Wrong : j <= x
    <3>1. Wrong \subseteq Nat
      OBVIOUS
    <3> HIDE DEF Wrong
    <3> QED
      BY <1>7, <3>1, LeastNatural
  <2>2. j \in 0..m /\ ~ IsSum(w[n + j], j)
    OBVIOUS
  <2>3. j # 0
    <3>1. IsSum(u, 0)
      BY <1>6
    <3>2. w[n + 0] = u
      BY <1>6
    <3> HIDE DEF IsSum
    <3> QED
      BY <2>2, <3>1, <3>2
  <2>4. /\ j - 1 \in 0..m /\ ~ (j <= j - 1) /\ j \in 1..m
        /\ n + j - 1 = n + (j - 1) /\ n + (j - 1) \in 0..l
    BY <1>1, <2>2, <2>3
  <2>5. IsSum(w[n + (j - 1)], j - 1)
    <3> HIDE DEF IsSum
    <3> QED
      BY <2>1, <2>4
  <2>6. PICK v \in Seq(Byte) : v = w[n + (j - 1)]
    BY <1>3, <2>4
  <2>7. PICK e \in 1..l, b \in Byte : e = n + j /\ b = bs[e] /\ IsKept(bs, e)
    BY <1>4, <2>4
  <2>8. w[e] = Append(v, b)
    <3>1. w[e] = IF IsKept(bs, e) THEN Append(w[e - 1], bs[e]) ELSE w[e - 1]
      BY <1>3
    <3>2. e - 1 = n + (j - 1)
      BY <2>4, <2>7
    <3>3. w[e - 1] = v
      BY <2>6, <3>2
    <3> QED
      BY <2>7, <3>1, <3>3
  <2>9. /\ Len(v) = k + (j - 1) /\ \A i \in 1..k : v[i] = u[i]
        /\ \A i \in 1..j - 1 : v[k + i] = bs[n + i]
    BY <2>5, <2>6
  <2>10. PICK x \in Seq(Byte) :
           /\ x = Append(v, b) /\ Len(x) = Len(v) + 1 /\ x[Len(v) + 1] = b
           /\ \A i \in 1..Len(v) : x[i] = v[i]
    <3>1. /\ Append(v, b) \in Seq(Byte) /\ Len(Append(v, b)) = Len(v) + 1
          /\ Append(v, b)[Len(v) + 1] = b /\ \A i \in 1..Len(v) : Append(v, b)[i] = v[i]
      BY AppendProperties
    <3> QED
      BY <3>1
  <2>11. Len(x) = k + j /\ x[k + j] = b
    <3>1. k + (j - 1) + 1 = k + j
      BY <2>4
    <3> QED
      BY <2>9, <2>10, <3>1
  <2>12. \A i \in 1..k : x[i] = u[i]
    <3>1. \A i \in 1..k : i \in 1..k + (j - 1)
      BY <2>4
    <3> QED
      BY <2>9, <2>10, <3>1
  <2>13. ASSUME NEW i \in 1..j PROVE x[k + i] = bs[n + i]
    <3>1. CASE i = j
      BY <2>7, <2>11, <3>1
    <3>2. CASE i # j
      <4>1. i \in 1..j - 1 /\ k + i \in 1..k + (j - 1)
        BY <2>4, <3>2
      <4> QED
        BY <2>9, <2>10, <4>1
    <3> QED
      BY <3>1, <3>2
  <2>14. IsSum(x, j)
    BY <2>11, <2>12, <2>13
  <2> HIDE DEF IsSum
  <2> QED
    BY <2>2, <2>7, <2>8, <2>10, <2>14
<1>8. m \in 0..m /\ n + m \in 0..l
  BY <1>1
<1>9. IsSum(w[n + m], m)
  <2> HIDE DEF IsSum
  <2> QED
    BY <1>7, <1>8
<1>10. PICK v \in Seq(Byte) : v = w[n + m]
  BY <1>3, <1>8
<1>11. PICK c \in Seq(Byte) : /\ c = u \o t /\ Len(c) = k + m
                              /\ \A i \in 1..k + m : c[i] = IF i <= k THEN u[i] ELSE t[i - k]
  <2>1. /\ u \o t \in Seq(Byte) /\ Len(u \o t) = Len(u) + Len(t)
        /\ \A i \in 1..Len(u) + Len(t) :
             (u \o t)[i] = IF i <= Len(u) THEN u[i] ELSE t[i - Len(u)]
    BY ConcatProperties
  <2>2. /\ Len(u \o t) = k + m
        /\ \A i \in 1..k + m : (u \o t)[i] = IF i <= k THEN u[i] ELSE t[i - k]
    BY <1>1, <1>6, <2>1
  <2> QED
    BY <2>1, <2>2
<1>12. ASSUME NEW i \in 1..k + m PROVE v[i] = c[i]
  <2>1. CASE i <= k
    <3>1. i \in 1..k
      BY <2>1
    <3> QED
      BY <1>9, <1>10, <1>11, <2>1, <3>1
  <2>2. CASE ~ (i <= k)
    <3>1. i - k \in 1..m /\ k + (i - k) = i
      BY <2>2
    <3>2. v[k + (i - k)] = bs[n + (i - k)]
      BY <1>9, <1>10, <3>1
    <3> QED
      BY <1>1, <1>11, <2>2, <3>1, <3>2
  <2> QED
    BY <2>1, <2>2
<1>13. v = c
  <2>1. Len(v) = k + m
    BY <1>9, <1>10
  <2> QED
    BY <1>11, <1>12, <2>1, SeqEqual
<1> QED
  BY <1>1, <1>2, <1>6, <1>10, <1>11, <1>13
-----------------------------------------------------------------------------
(* A value that is read as a list of strings: what is left are its last    *)
(* bytes, from the start of a string on, and what was read is written back *)
(* as what was taken, without the empty strings.                           *)
AreLastBytes(bs, n, last) ==
  /\ n \in 0..Len(bs) /\ last \in Seq(Byte) /\ Len(last) = Len(bs) - n
  /\ \A i \in 1..Len(bs) - n : last[i] = bs[n + i]

ReadModels == {model \in ModelsOfOne : Joined(model, Comma) \in CStrings}

Written(models) == FlattenSeq([i \in DOMAIN models |-> Append(Joined(models[i], Comma), 0)])

Reached(n) ==
  /\ AreLastBytes(BytesOf(value), n, left)
  /\ n = 0 \/ BytesOf(value)[n] = 0
  /\ Written(read) = WithoutEmpty(BytesOf(value))[n]

ModelsInv ==
  /\ value \in Texts /\ loop = "models" /\ counts = <<>> /\ list = <<>>
  /\ out \in {"reading", "Some", "None"} /\ read \in Seq(ReadModels)
  /\ \E n : Reached(n)
  /\ out = "Some" => left = <<>>
  /\ out = "None" => left # <<>> /\ CStr(left) = None

LEMMA LastBytesFacts ==
  ASSUME NEW bs \in Seq(Byte), NEW n, NEW last, AreLastBytes(bs, n, last)
  PROVE  last = SubSeq(bs, n + 1, Len(bs))
<1>1. n \in 0..Len(bs) /\ last \in Seq(Byte) /\ Len(last) = Len(bs) - n
      /\ \A i \in 1..Len(bs) - n : last[i] = bs[n + i]
  BY DEF AreLastBytes
<1>2. PICK l \in Nat, m \in Nat : l = Len(bs) /\ m = n /\ m <= l
  BY <1>1, LenProperties
<1>3. /\ SubSeq(bs, n + 1, Len(bs)) \in Seq(Byte)
      /\ Len(SubSeq(bs, n + 1, Len(bs))) = Len(bs) - n
      /\ \A i \in 1..Len(bs) - n : SubSeq(bs, n + 1, Len(bs))[i] = bs[n + i]
  BY <1>1, LastOfSeq
<1>4. PICK t \in Seq(Byte) : /\ t = SubSeq(bs, n + 1, Len(bs)) /\ Len(t) = l - m
                             /\ \A i \in 1..l - m : t[i] = bs[m + i]
  BY <1>2, <1>3
<1>5. Len(last) = Len(t) /\ \A i \in 1..Len(last) : last[i] = t[i]
  BY <1>1, <1>2, <1>4
<1> QED
  BY <1>1, <1>4, <1>5, SeqEqual

(* Fewer of the last bytes.                                                *)
LEMMA FewerLastBytes ==
  ASSUME NEW bs \in Seq(Byte), NEW n, NEW last, AreLastBytes(bs, n, last),
         NEW k \in 0..Len(last), NEW fewer \in Seq(Byte), Len(fewer) = Len(last) - k,
         \A i \in 1..Len(last) - k : fewer[i] = last[k + i]
  PROVE  AreLastBytes(bs, n + k, fewer)
<1>1. n \in 0..Len(bs) /\ last \in Seq(Byte) /\ Len(last) = Len(bs) - n
      /\ \A i \in 1..Len(bs) - n : last[i] = bs[n + i]
  BY DEF AreLastBytes
<1>2. PICK l \in Nat, m \in Nat, j \in Nat : l = Len(bs) /\ m = n /\ j = k /\ j <= l - m
  <2>1. Len(bs) \in Nat /\ Len(last) \in Nat
    BY <1>1, LenProperties
  <2>2. n \in Nat /\ k \in Nat /\ k <= Len(bs) - n
    BY <1>1, <2>1
  <2> QED
    BY <2>1, <2>2
<1>3. m + j \in 0..l /\ Len(fewer) = l - (m + j) /\ Len(last) - j = l - (m + j)
  BY <1>1, <1>2
<1>4. ASSUME NEW i \in 1..l - (m + j) PROVE fewer[i] = bs[m + j + i]
  <2>1. j + i \in 1..l - m /\ m + (j + i) = m + j + i
    BY <1>2
  <2>2. fewer[i] = last[j + i] /\ last[j + i] = bs[m + (j + i)]
    BY <1>1, <1>2, <1>3, <2>1
  <2> QED
    BY <2>1, <2>2
<1> QED
  BY <1>2, <1>3, <1>4 DEF AreLastBytes

(* One more model is written after the others.                             *)
LEMMA WrittenAppend ==
  ASSUME NEW models \in Seq(ReadModels), NEW model \in ReadModels
  PROVE  Written(Append(models, model)) = Written(models) \o Append(Joined(model, Comma), 0)
<1> DEFINE text(m) == Append(Joined(m, Comma), 0)
<1>1. \A m \in ReadModels : text(m) \in Seq(Byte)
  <2>1. \A m \in ReadModels : Joined(m, Comma) \in Seq(Byte)
    BY TextsAreTexts DEF ReadModels
  <2> QED
    BY <2>1, ByteAssumption
<1> HIDE DEF text
<1>2. PICK n \in Nat :
        /\ n = Len(models) /\ DOMAIN models = 1..n
        /\ \A i \in 1..n : models[i] \in ReadModels
  BY LenProperties, ElementOfSeq
<1>3. PICK more :
        /\ more = Append(models, model) /\ more \in Seq(ReadModels)
        /\ Len(more) = n + 1 /\ more[n + 1] = model
        /\ \A i \in 1..n : more[i] = models[i]
  <2>1. /\ Append(models, model) \in Seq(ReadModels)
        /\ Len(Append(models, model)) = Len(models) + 1
        /\ Append(models, model)[Len(models) + 1] = model
        /\ \A i \in 1..Len(models) : Append(models, model)[i] = models[i]
    BY AppendProperties
  <2> QED
    BY <1>2, <2>1
<1>4. DOMAIN more = 1..n + 1
  BY <1>3, LenProperties
<1> DEFINE before == [i \in 1..n |-> text(models[i])]
           after  == [i \in 1..n + 1 |-> text(more[i])]
<1>5. before \in Seq(Seq(Byte)) /\ Len(before) = n
  BY <1>1, <1>2
<1>6. after = Append(before, text(model))
  <2>1. after \in Seq(Seq(Byte)) /\ Len(after) = n + 1
    <3>1. \A i \in 1..n + 1 : more[i] \in ReadModels
      BY <1>3, ElementOfSeq
    <3> QED
      BY <1>1, <3>1
  <2>2. /\ Append(before, text(model)) \in Seq(Seq(Byte))
        /\ Len(Append(before, text(model))) = n + 1
        /\ Append(before, text(model))[n + 1] = text(model)
        /\ \A i \in 1..n : Append(before, text(model))[i] = before[i]
    <3>1. text(model) \in Seq(Byte)
      BY <1>1
    <3> HIDE DEF before
    <3> QED
      BY <1>5, <3>1, AppendProperties
  <2>3. PICK a \in Seq(Seq(Byte)) : /\ a = Append(before, text(model)) /\ Len(a) = n + 1
                                    /\ a[n + 1] = text(model)
                                    /\ \A i \in 1..n : a[i] = before[i]
    BY <2>2
  <2>4. ASSUME NEW i \in 1..n + 1 PROVE after[i] = a[i]
    <3>1. i = n + 1 \/ i \in 1..n
      OBVIOUS
    <3> QED
      BY <1>3, <2>3, <3>1
  <2>5. after = a
    <3> HIDE DEF after
    <3> QED
      BY <2>1, <2>3, <2>4, SeqEqual
  <2> QED
    BY <2>3, <2>5
<1>7. Written(models) = FlattenSeq(before) /\ Written(more) = FlattenSeq(after)
  BY <1>2, <1>4 DEF Written, text
<1>8. text(model) \in Seq(Byte)
  BY <1>1
<1> HIDE DEF before, after
<1>9. FlattenSeq(after) = FlattenSeq(before) \o text(model)
  BY <1>5, <1>6, <1>8, FlattenAppend
<1> QED
  BY <1>3, <1>7, <1>9 DEF text

LEMMA ModelsStart ==
  ASSUME ValuesInit, loop = "models"
  PROVE  ModelsInv
<1>1. ~ Init /\ loop \notin Numbers
  BY DEF Init, Numbers
<1>2. /\ value \in Texts /\ counts = <<>> /\ list = <<>> /\ out = "reading"
      /\ left = BytesOf(value) /\ read = <<>>
  BY <1>1 DEF ValuesInit
<1>3. BytesOf(value) \in Seq(Byte) /\ Len(BytesOf(value)) \in Nat
  BY <1>2, TextsAssumption, BytesFacts, LenProperties
<1>4. Written(read) = <<>>
  <2>1. DOMAIN read = {} /\ <<>> = [i \in {} |-> Append(Joined(read[i], Comma), 0)]
    BY <1>2
  <2> QED
    BY <2>1 DEF Written, FlattenSeq
<1>5. Reached(0)
  <2>1. AreLastBytes(BytesOf(value), 0, left)
    BY <1>2, <1>3 DEF AreLastBytes
  <2> QED
    BY <1>3, <1>4, <2>1, KeptSteps DEF Reached
<1>6. read \in Seq(ReadModels)
  BY <1>2, EmptySeq
<1> QED
  BY <1>2, <1>5, <1>6 DEF ModelsInv

(* An empty string is passed over.                                         *)
LEMMA EmptyPassed ==
  ASSUME value \in NewSlices, NEW n, Reached(n), left # <<>>, CStr(left) = <<>>,
         left' = Tail(left), read' = read, value' = value
  PROVE  Reached(n + 1)'
<1>1. PICK bs \in Seq(Byte) : bs = BytesOf(value)
  BY BytesFacts
<1>2. /\ AreLastBytes(bs, n, left) /\ (n = 0 \/ bs[n] = 0)
      /\ Written(read) = WithoutEmpty(bs)[n]
  BY <1>1 DEF Reached
<1>3. /\ n \in 0..Len(bs) /\ left \in Seq(Byte) /\ Len(left) = Len(bs) - n
      /\ \A i \in 1..Len(bs) - n : left[i] = bs[n + i]
      /\ Len(bs) \in Nat
  BY <1>2, LenProperties DEF AreLastBytes
<1>4. 1 \in 1..Len(left) /\ left[1] = 0
  <2>1. <<>> \in Seq(Byte) /\ Len(<<>>) = 0
    BY EmptySeq
  <2>2. CStr(left) # None
    BY <2>1, NoAnswer
  <2>3. PICK m \in 1..Len(left) : left[m] = 0 /\ Len(CStr(left)) = m - 1
    BY <1>3, <2>2, CStrFacts
  <2>4. m = 1
    BY <2>1, <2>3
  <2> QED
    BY <2>3, <2>4
<1>5. n + 1 \in 1..Len(bs) /\ bs[n + 1] = 0 /\ n + 1 - 1 = n
  BY <1>3, <1>4
<1>6. AreLastBytes(bs, n + 1, left')
  <2>1. PICK t \in Seq(Byte) :
          /\ t = Tail(left) /\ Len(t) = Len(left) - 1
          /\ \A i \in 1..Len(t) : t[i] = left[i + 1]
    <3>1. /\ Tail(left) \in Seq(Byte) /\ Len(Tail(left)) = Len(left) - 1
          /\ \A i \in 1..Len(Tail(left)) : Tail(left)[i] = left[i + 1]
      BY <1>3, HeadTailProperties
    <3> QED
      BY <3>1
  <2>2. 1 \in 0..Len(left) /\ \A i \in 1..Len(left) - 1 : t[i] = left[1 + i]
    BY <1>3, <1>4, <2>1
  <2>3. AreLastBytes(bs, n + 1, t)
    BY <1>2, <2>1, <2>2, FewerLastBytes
  <2> QED
    BY <2>1, <2>3
<1>7. WithoutEmpty(bs)[n + 1] = WithoutEmpty(bs)[n]
  <2>1. PICK m \in 1..Len(bs) : m = n + 1 /\ m - 1 = n
    BY <1>3, <1>5
  <2>2. bs[m] = 0 /\ (m = 1 \/ bs[m - 1] = 0)
    <3>1. n = 0 \/ bs[n] = 0
      BY <1>1 DEF Reached
    <3> QED
      BY <1>5, <2>1, <3>1
  <2>3. WithoutEmpty(bs)[m] = WithoutEmpty(bs)[m - 1]
    BY <2>2, NothingKept
  <2> QED
    BY <2>1, <2>3
<1>8. AreLastBytes(BytesOf(value'), n + 1, left') /\ BytesOf(value')[n + 1] = 0
  BY <1>1, <1>5, <1>6
<1>9. Written(read') = WithoutEmpty(BytesOf(value'))[n + 1]
  BY <1>1, <1>2, <1>7
<1> QED
  BY <1>8, <1>9 DEF Reached

(* A string is taken with its zero.                                        *)
LEMMA ModelTaken ==
  ASSUME value \in NewSlices, NEW n, Reached(n), read \in Seq(ReadModels), value' = value,
         NEW s, s = CStr(left), s \notin {None, <<>>},
         left' = SubSeq(left, LengthOf(Model(s)) + 2, Len(left)),
         read' = Append(read, Model(s))
  PROVE  (\E m : Reached(m))' /\ read' \in Seq(ReadModels)
<1>1. PICK bs \in Seq(Byte) : bs = BytesOf(value)
  BY BytesFacts
<1>2. /\ AreLastBytes(bs, n, left) /\ Written(read) = WithoutEmpty(bs)[n]
  BY <1>1 DEF Reached
<1>3. /\ n \in 0..Len(bs) /\ left \in Seq(Byte) /\ Len(left) = Len(bs) - n
      /\ \A i \in 1..Len(bs) - n : left[i] = bs[n + i]
      /\ Len(bs) \in Nat
  BY <1>2, LenProperties DEF AreLastBytes
<1>4. PICK k \in Nat :
        /\ k + 1 \in 1..Len(left) /\ left[k + 1] = 0
        /\ \A i \in 1..k : left[i] # 0
        /\ s \in CStrings /\ Len(s) = k /\ \A i \in 1..k : s[i] = left[i]
  <2>1. PICK m \in 1..Len(left) :
          /\ left[m] = 0 /\ \A i \in 1..m - 1 : left[i] # 0
          /\ s \in Seq(Byte \ {0}) /\ Len(s) = m - 1 /\ \A i \in 1..m - 1 : s[i] = left[i]
    BY <1>3, CStrFacts
  <2>2. m - 1 \in Nat /\ m - 1 + 1 = m
    BY <1>3
  <2> QED
    BY <2>1, <2>2 DEF CStrings
<1>5. k # 0
  <2>1. s \in Seq(Byte) /\ s # <<>>
    BY <1>4, TextsAreTexts
  <2> QED
    BY <1>4, <2>1, EmptySeq
<1>6. Model(s) \in ReadModels /\ Joined(Model(s), Comma) = s /\ LengthOf(Model(s)) = k
  BY <1>4, ModelFacts DEF ReadModels
<1>7. PICK j \in Nat : j = k + 1 /\ j \in 0..Len(left)
  BY <1>3, <1>4
<1>8. AreLastBytes(bs, n + j, left')
  <2>1. k + 2 = j + 1
    BY <1>7
  <2>2. left' = SubSeq(left, j + 1, Len(left))
    BY <1>6, <2>1
  <2>3. /\ SubSeq(left, j + 1, Len(left)) \in Seq(Byte)
        /\ Len(SubSeq(left, j + 1, Len(left))) = Len(left) - j
        /\ \A i \in 1..Len(left) - j : SubSeq(left, j + 1, Len(left))[i] = left[j + i]
    BY <1>3, <1>7, LastOfSeq
  <2>4. PICK t \in Seq(Byte) : /\ t = left' /\ Len(t) = Len(left) - j
                               /\ \A i \in 1..Len(left) - j : t[i] = left[j + i]
    BY <2>2, <2>3
  <2>5. AreLastBytes(bs, n + j, t)
    BY <1>2, <1>7, <2>4, FewerLastBytes
  <2> QED
    BY <2>4, <2>5
<1>9. PICK t \in Seq(Byte) : /\ t = Append(s, 0) /\ Len(t) = j /\ t[j] = 0
                             /\ \A i \in 1..k : t[i] = s[i]
  <2>1. s \in Seq(Byte)
    BY <1>4, TextsAreTexts
  <2>2. /\ Append(s, 0) \in Seq(Byte) /\ Len(Append(s, 0)) = Len(s) + 1
        /\ Append(s, 0)[Len(s) + 1] = 0 /\ \A i \in 1..Len(s) : Append(s, 0)[i] = s[i]
    BY <2>1, ByteAssumption, AppendProperties
  <2> QED
    BY <1>4, <1>7, <2>2
<1>10. ASSUME NEW i \in 1..j PROVE t[i] = bs[n + i]
  <2>1. i \in 1..Len(bs) - n /\ (i = j \/ i \in 1..k)
    BY <1>3, <1>7
  <2>2. left[i] = bs[n + i]
    BY <1>3, <2>1
  <2> QED
    BY <1>4, <1>7, <1>9, <2>1, <2>2
<1>11. WithoutEmpty(bs)[n + j] = WithoutEmpty(bs)[n] \o t
  <2>1. n \in Nat /\ Len(t) > 1 /\ n + Len(t) <= Len(bs)
    BY <1>3, <1>5, <1>7, <1>9
  <2>2. \A i \in 1..Len(t) - 1 : t[i] # 0
    <3>1. Len(t) - 1 = k
      BY <1>7, <1>9
    <3> QED
      BY <1>4, <1>9, <3>1
  <2>3. \A i \in 1..Len(t) : t[i] = bs[n + i]
    BY <1>9, <1>10
  <2>4. WithoutEmpty(bs)[n + Len(t)] = WithoutEmpty(bs)[n] \o t
    BY <2>1, <2>2, <2>3, StringKept
  <2> QED
    BY <1>9, <2>4
<1>12. Written(read') = WithoutEmpty(bs)[n + j] /\ read' \in Seq(ReadModels)
  <2>1. Written(read') = Written(read) \o t
    BY <1>6, <1>9, WrittenAppend
  <2> QED
    BY <1>2, <1>6, <1>11, <2>1, AppendProperties
<1>13. bs[n + j] = 0
  <2>1. j \in 1..j
    BY <1>7
  <2> QED
    BY <1>9, <1>10, <2>1
<1>14. Reached(n + j)'
  <2>1. bs = BytesOf(value')
    BY <1>1
  <2> QED
    BY <1>8, <1>12, <1>13, <2>1 DEF Reached
<1> QED
  BY <1>12, <1>14

LEMMA ModelIsRead ==
  ASSUME ModelsInv, ReadModel
  PROVE  ModelsInv'
<1>1. /\ UNCHANGED <<value, counts, loop, rest, group, list>>
      /\ left # <<>> /\ value \in Texts /\ value \in NewSlices /\ loop = "models"
      /\ counts = <<>> /\ list = <<>> /\ out = "reading" /\ read \in Seq(ReadModels)
  BY TextsAssumption DEF ModelsInv, ReadModel, inputs
<1>2. PICK n : Reached(n)
  BY DEF ModelsInv
<1>3. PICK s : s = CStr(left)
  OBVIOUS
<1>4. \/ s = None /\ out' = "None" /\ UNCHANGED <<left, read>>
      \/ s = <<>> /\ left' = Tail(left) /\ UNCHANGED <<read, out>>
      \/ /\ s \notin {None, <<>>} /\ read' = Append(read, Model(s)) /\ UNCHANGED out
         /\ left' = SubSeq(left, LengthOf(Model(s)) + 2, Len(left))
  BY <1>3 DEF ReadModel
<1>5. CASE s = None /\ out' = "None" /\ UNCHANGED <<left, read>>
  <2>1. Reached(n)'
    BY <1>1, <1>2, <1>5 DEF Reached
  <2> QED
    BY <1>1, <1>3, <1>5, <2>1 DEF ModelsInv
<1>6. CASE s = <<>> /\ left' = Tail(left) /\ UNCHANGED <<read, out>>
  <2>1. Reached(n + 1)'
    BY <1>1, <1>2, <1>3, <1>6, EmptyPassed
  <2> QED
    BY <1>1, <1>6, <2>1 DEF ModelsInv
<1>7. CASE /\ s \notin {None, <<>>} /\ read' = Append(read, Model(s)) /\ UNCHANGED out
           /\ left' = SubSeq(left, LengthOf(Model(s)) + 2, Len(left))
  <2>1. (\E m : Reached(m))' /\ read' \in Seq(ReadModels)
    BY <1>1, <1>2, <1>3, <1>7, ModelTaken
  <2> QED
    BY <1>1, <1>7, <2>1 DEF ModelsInv
<1> QED
  BY <1>4, <1>5, <1>6, <1>7

LEMMA ModelsEnd ==
  ASSUME ModelsInv, ModelsRead
  PROVE  ModelsInv'
<1>1. /\ UNCHANGED <<value, counts, loop, rest, group, list, left, read>>
      /\ out' = "Some" /\ left = <<>>
  BY DEF ModelsRead, inputs
<1>2. (\E n : Reached(n))'
  BY <1>1 DEF ModelsInv, Reached
<1> QED
  BY <1>1, <1>2 DEF ModelsInv

LEMMA ModelsStay ==
  ASSUME ModelsInv, UNCHANGED valuesVars
  PROVE  ModelsInv'
<1>1. UNCHANGED <<value, counts, loop, rest, group, list, out, left, read>>
  BY DEF valuesVars, vars, inputs
<1>2. (\E n : Reached(n))'
  BY <1>1 DEF ModelsInv, Reached
<1> QED
  BY <1>1, <1>2 DEF ModelsInv

LEMMA ModelsHold ==
  ASSUME ModelsInv
  PROVE  ValuesTypeOK /\ CellsInPlace /\ ValuesComeBack /\ VerdictIsExact
<1>1. /\ value \in Texts /\ value \in NewSlices /\ loop = "models" /\ loop \in Kinds
      /\ loop \notin Numbers /\ loop \notin {"checked", "pairs"} /\ list = <<>>
  BY TextsAssumption DEF ModelsInv, Kinds, Numbers
<1>2. PICK bs \in Seq(Byte), l \in Nat :
        bs = BytesOf(value) /\ l = Len(bs) /\ l = LenBytes(value)
  <2>1. /\ Len(BytesOf(value)) = LenBytes(value) /\ LenBytes(value) \in Nat
        /\ BytesOf(value) \in Seq(Byte)
    BY <1>1, BytesFacts
  <2> QED
    BY <2>1
<1>3. PICK n : Reached(n)
  BY DEF ModelsInv
<1>4. /\ AreLastBytes(bs, n, left) /\ (n = 0 \/ bs[n] = 0)
      /\ Written(read) = WithoutEmpty(bs)[n]
  BY <1>2, <1>3 DEF Reached
<1>5. /\ n \in 0..l /\ left \in Seq(Byte) /\ Len(left) = l - n
      /\ \A i \in 1..l - n : left[i] = bs[n + i]
  BY <1>2, <1>4 DEF AreLastBytes
<1>6. CellsInPlace
  <2>1. Len(list) = 0 /\ \A i \in 1..0 : FALSE
    BY <1>1, EmptySeq
  <2> QED
    BY <2>1 DEF CellsInPlace
<1>7. ValuesTypeOK
  <2>1. left = SubSeq(bs, n + 1, l)
    BY <1>2, <1>4, LastBytesFacts
  <2>2. read \in Seq([1..1 -> CStrings] \cup [1..2 -> CStrings])
    <3>1. read \in Seq(ReadModels) /\ ReadModels \subseteq ModelsOfOne
      BY DEF ModelsInv, ReadModels
    <3> HIDE DEF ReadModels
    <3>2. read \in Seq(ModelsOfOne)
      BY <3>1
    <3> QED
      BY <3>2 DEF ModelsOfOne
  <2>3. \E m \in 0..LenBytes(value) : left = SubSeq(BytesOf(value), m + 1, LenBytes(value))
    BY <1>2, <1>5, <2>1
  <2> QED
    BY <1>1, <2>2, <2>3 DEF ValuesTypeOK, ModelsInv
<1>8. ValuesComeBack
  <2>1. Consumed = n
    <3>1. l - (l - n) = n
      BY <1>5
    <3> QED
      BY <1>2, <1>5, <3>1 DEF Consumed
  <2> QED
    BY <1>1, <1>2, <1>4, <2>1 DEF ValuesComeBack, Written
<1>9. VerdictIsExact
  <2>1. IsGoodText <=> bs = <<>> \/ bs[l] = 0
    BY <1>1, <1>2 DEF IsGoodText, Last
  <2>2. ASSUME out = "Some" PROVE IsGoodText
    <3>1. n = l
      <4>1. Len(left) = 0
        BY <2>2, EmptySeq DEF ModelsInv
      <4> QED
        BY <1>5, <4>1
    <3> QED
      BY <1>2, <1>4, <2>1, <3>1, EmptySeq
  <2>3. ASSUME out = "None" PROVE ~ IsGoodText
    <3>1. left # <<>> /\ CStr(left) = None
      BY <2>3 DEF ModelsInv
    <3>2. \A i \in 1..Len(left) : left[i] # 0
      <4>1. ASSUME NEW m \in 1..Len(left), CStr(left) \in Seq(Byte \ {0}) PROVE FALSE
        BY <3>1, <4>1, TextsAreTexts DEF CStrings
      <4> QED
        BY <1>5, <4>1, CStrFacts
    <3>3. Len(left) # 0
      BY <1>5, <3>1, EmptySeq
    <3>4. l - n \in 1..l - n /\ n + (l - n) = l /\ l # 0
      BY <1>5, <3>3
    <3>5. bs[l] # 0
      BY <1>5, <3>2, <3>4
    <3>6. bs # <<>>
      BY <1>2, <3>4, EmptySeq
    <3> QED
      BY <2>1, <3>5, <3>6
  <2> QED
    BY <1>1, <2>2, <2>3 DEF VerdictIsExact, CellVerdictIsExact, ModelsInv
<1> QED
  BY <1>6, <1>7, <1>8, <1>9
-----------------------------------------------------------------------------
(* Each reader has its invariant.                                          *)
ValuesInv ==
  \/ ReaderInv /\ left = <<>> /\ read = <<>>
  \/ NumberInv
  \/ TextInv
  \/ ModelsInv

LEMMA ValuesStart ==
  ASSUME ValuesInit
  PROVE  ValuesInv
<1>1. \/ loop \in {"checked", "pairs"} \/ loop \in Numbers
      \/ loop \in Kinds \ {"models"} \/ loop = "models"
  BY DEF ValuesInit, Init, Kinds
<1>2. CASE loop \in {"checked", "pairs"}
  <2>1. loop \notin Numbers /\ loop \notin Kinds
    BY <1>2 DEF Numbers, Kinds
  <2>2. Init /\ left = <<>> /\ read = <<>>
    BY <2>1 DEF ValuesInit
  <2> QED
    BY <2>2, ReaderStarts DEF ValuesInv
<1> QED
  BY <1>1, <1>2, NumberStarts, TextStarts, ModelsStart DEF ValuesInv

LEMMA ValuesStep ==
  ASSUME ValuesInv, [ValuesNext]_valuesVars
  PROVE  ValuesInv'
<1>1. CASE ReaderInv /\ left = <<>> /\ read = <<>>
  <2>1. /\ loop \in {"checked", "pairs"} /\ loop \notin Numbers /\ loop \notin Kinds
        /\ loop # "models"
    BY <1>1 DEF ReaderInv, Numbers, Kinds
  <2>2. [Next]_vars /\ UNCHANGED <<left, read>>
    BY <2>1
       DEF ValuesNext, ReadList, ReadNumber, ReadString, ReadModel, ModelsRead, valuesVars
  <2> QED
    BY <1>1, <2>2, ReaderSteps DEF ValuesInv
<1>2. CASE NumberInv
  <2>1. loop \notin {"checked", "pairs"} /\ loop \notin Kinds /\ loop # "models"
    BY <1>2 DEF NumberInv, Numbers, Kinds
  <2>2. ReadNumber \/ UNCHANGED valuesVars
    BY <2>1 DEF ValuesNext, ReadList, ReadString, ReadModel, ModelsRead
  <2> QED
    BY <1>2, <2>2, NumberIsRead, NumberStays DEF ValuesInv
<1>3. CASE TextInv
  <2>1. loop \notin {"checked", "pairs"} /\ loop \notin Numbers /\ loop # "models"
    BY <1>3 DEF TextInv, Numbers, Kinds
  <2>2. ReadString \/ UNCHANGED valuesVars
    BY <2>1 DEF ValuesNext, ReadList, ReadNumber, ReadModel, ModelsRead
  <2> QED
    BY <1>3, <2>2, TextIsRead, TextStays DEF ValuesInv
<1>4. CASE ModelsInv
  <2>1. loop = "models" /\ loop \notin {"checked", "pairs"} /\ loop \notin Numbers
    BY <1>4 DEF ModelsInv, Numbers
  <2>2. ReadModel \/ ModelsRead \/ UNCHANGED valuesVars
    BY <2>1 DEF ValuesNext, ReadList, ReadNumber, ReadString
  <2> QED
    BY <1>4, <2>2, ModelIsRead, ModelsEnd, ModelsStay DEF ValuesInv
<1> QED
  BY <1>1, <1>2, <1>3, <1>4 DEF ValuesInv

LEMMA ValuesHold == ValuesSpec => []ValuesInv
<1>1. ValuesInit => ValuesInv
  BY ValuesStart
<1>2. ValuesInv /\ [ValuesNext]_valuesVars => ValuesInv'
  BY ValuesStep
<1> QED
  BY <1>1, <1>2, PTL DEF ValuesSpec

LEMMA ValuesImply ==
  ASSUME ValuesInv
  PROVE  ValuesTypeOK /\ CellsInPlace /\ ValuesComeBack /\ VerdictIsExact
<1> QED
  BY CellsHold, NumberHolds, TextHolds, ModelsHold DEF ValuesInv

(* The variables of a conversion keep their shape, and what is left of a   *)
(* list of strings are always the last bytes of the value, whatever the    *)
(* value, the widths and the strings are.                                  *)
THEOREM ValuesTypeCorrect == ValuesSpec => []ValuesTypeOK
<1>1. ValuesInv => ValuesTypeOK
  BY ValuesImply
<1> QED
  BY <1>1, ValuesHold, PTL

(* Both loops over groups of cells read every integer where the widths     *)
(* before it say, for groups of any number of integers of any widths and   *)
(* values of any length (`into_cells_slice`, src/src/parse.rs, and the     *)
(* loops of src/src/node/memory_region.rs and reserved_memory.rs).         *)
THEOREM IntegersInPlace == ValuesSpec => []CellsInPlace
<1>1. ValuesInv => CellsInPlace
  BY ValuesImply
<1> QED
  BY <1>1, ValuesHold, PTL

(* What a conversion reads, written back, is the value: no cell, string or *)
(* part of a string is lost but empty strings of a list, whatever the      *)
(* bytes are (src/src/parse.rs, src/src/property.rs).                      *)
THEOREM ValuesReadBack == ValuesSpec => []ValuesComeBack
<1>1. ValuesInv => ValuesComeBack
  BY ValuesImply
<1> QED
  BY <1>1, ValuesHold, PTL

(* A conversion accepts exactly the values that its type allows, and only  *)
(* an integer that nothing can hold makes it panic: the `expect` inside    *)
(* the loop of `into_cells_slice` (src/src/parse.rs) never fails.          *)
THEOREM ValueVerdictsExact == ValuesSpec => []VerdictIsExact
<1>1. ValuesInv => VerdictIsExact
  BY ValuesImply
<1> QED
  BY <1>1, ValuesHold, PTL
-----------------------------------------------------------------------------
(* What holds of 0 and of every number whose predecessor it holds of holds *)
(* of all.                                                                 *)
LEMMA OneByOne ==
  ASSUME NEW n \in Nat, NEW G, 0 \in G, \A i \in 1..n : i - 1 \in G => i \in G
  PROVE  \A i \in 0..n : i \in G
<1> DEFINE T == {i \in 0..n : i \notin G}
<1>1. ASSUME T # {} PROVE FALSE
  <2>1. PICK k \in T : \A m \in T : k <= m
    <3>1. T \subseteq Nat
      OBVIOUS
    <3> HIDE DEF T
    <3> QED
      BY <1>1, <3>1, LeastNatural
  <2>2. k \in 1..n /\ k \notin G
    OBVIOUS
  <2>3. k - 1 \in 0..n /\ ~ (k <= k - 1)
    BY <2>2
  <2>4. k - 1 \in G
    BY <2>1, <2>3
  <2> QED
    BY <2>2, <2>4
<1> QED
  BY <1>1

(* The digits of base 16 and what they stand for.                          *)
LEMMA DigitFacts ==
  /\ \A d \in HexDigits : /\ ValueOf(d) \in 0..15 /\ (ValueOf(d) = 0 <=> d = 48)
                          /\ Lower(d) \in HexDigits /\ ValueOf(Lower(d)) = ValueOf(d)
                          /\ DigitOf(ValueOf(d)) = Lower(d)
                          /\ d # Comma /\ d # Plus /\ d # At
  /\ DigitOf(0) = 48 /\ 48 \in HexDigits /\ ValueOf(48) = 0
<1>1. ASSUME NEW d \in HexDigits
      PROVE  \/ d \in 48..57 /\ ValueOf(d) = d - 48 /\ Lower(d) = d
             \/ d \in 65..70 /\ ValueOf(d) = d - 55 /\ Lower(d) = d + 32
             \/ d \in 97..102 /\ ValueOf(d) = d - 87 /\ Lower(d) = d
  <2>1. CASE d \in 48..57
    <3>1. d \notin 65..70
      BY <2>1
    <3> QED
      BY <2>1, <3>1 DEF ValueOf, Digits, Lower
  <2>2. CASE d \in 65..70
    <3>1. d \notin 48..57 /\ d \notin 97..102
      BY <2>2
    <3> QED
      BY <2>2, <3>1 DEF ValueOf, Digits, Lower
  <2>3. CASE d \in 97..102
    <3>1. d \notin 48..57 /\ d \notin 65..70
      BY <2>3
    <3> QED
      BY <2>3, <3>1 DEF ValueOf, Digits, Lower
  <2> QED
    BY <2>1, <2>2, <2>3 DEF HexDigits, Digits
<1>2. ASSUME NEW d \in HexDigits
      PROVE  ValueOf(Lower(d)) = ValueOf(d) /\ Lower(d) \in HexDigits
  <2>1. CASE d \in 65..70
    <3>1. ValueOf(d) = d - 55 /\ Lower(d) = d + 32
      BY <2>1, <1>1
    <3>2. Lower(d) \in 97..102 /\ Lower(d) \notin 48..57 /\ Lower(d) \notin 65..70
      BY <2>1, <3>1
    <3>3. ValueOf(Lower(d)) = Lower(d) - 87
      BY <3>2 DEF ValueOf, Digits
    <3> QED
      BY <2>1, <3>1, <3>2, <3>3 DEF HexDigits
  <2>2. CASE d \notin 65..70
    BY <1>1, <2>2
  <2> QED
    BY <2>1, <2>2
<1>3. \A d \in HexDigits : /\ ValueOf(d) \in 0..15 /\ (ValueOf(d) = 0 <=> d = 48)
                           /\ DigitOf(ValueOf(d)) = Lower(d)
                           /\ d # Comma /\ d # Plus /\ d # At
  BY <1>1 DEF DigitOf, Comma, Plus, At
<1>4. DigitOf(0) = 48 /\ 48 \in HexDigits
  BY DEF DigitOf, HexDigits, Digits
<1> QED
  BY <1>2, <1>3, <1>4

(* The numbers that the first digits stand for, one more digit at a time.  *)
IsReading(f, digits) ==
  /\ f \in [0..Len(digits) -> Nat] /\ f[0] = 0
  /\ \A i \in 1..Len(digits) : f[i] = 16 * f[i - 1] + ValueOf(digits[i])

LEMMA ReadingExists ==
  ASSUME NEW digits \in Seq(HexDigits)
  PROVE  \E f : IsReading(f, digits) /\ InBase(16, digits) = f[Len(digits)]
<1>1. PICK k \in Nat : k = Len(digits) /\ \A i \in 1..k : digits[i] \in HexDigits
  BY LenProperties, ElementOfSeq
<1>2. \A i \in 1..k : ValueOf(digits[i]) \in Nat
  BY <1>1, DigitFacts
<1> DEFINE next(i, v) == 16 * v + ValueOf(digits[i])
           step == [i \in 1..k |-> [v \in Nat |-> next(i, v)]]
<1>3. \A i \in 1..k : \A v \in Nat : step[i][v] = next(i, v) /\ step[i][v] \in Nat
  <2>1. \A i \in 1..k : \A v \in Nat : next(i, v) \in Nat
    BY <1>2
  <2> HIDE DEF next
  <2> QED
    BY <2>1
<1> HIDE DEF step
<1>4. PICK f : IsRecursion(f, Nat, k, 0, step)
  BY <1>3, RecursionExists
<1>5. f \in [0..k -> Nat] /\ f[0] = 0 /\ \A i \in 1..k : f[i] = next(i, f[i - 1])
  <2>1. f \in [0..k -> Nat] /\ f[0] = 0 /\ \A i \in 1..k : f[i] = step[i][f[i - 1]]
    BY <1>4 DEF IsRecursion
  <2>2. \A i \in 1..k : i - 1 \in 0..k
    OBVIOUS
  <2> HIDE DEF next
  <2> QED
    BY <1>3, <2>1, <2>2
<1> DEFINE Is(g) == g = [n \in 0..k |-> IF n = 0 THEN 0 ELSE next(n, g[n - 1])]
           h == CHOOSE g : Is(g)
<1>6. Is(f)
  <2> HIDE DEF next
  <2>1. ASSUME NEW n \in 0..k PROVE f[n] = IF n = 0 THEN 0 ELSE next(n, f[n - 1])
    <3>1. n = 0 \/ n \in 1..k
      OBVIOUS
    <3> QED
      BY <1>5, <3>1
  <2>2. f = [n \in 0..k |-> f[n]]
    BY <1>5
  <2> QED
    BY <2>1, <2>2
<1>7. InBase(16, digits) = h[k]
  BY <1>1 DEF InBase
<1>8. Is(h)
  <2> HIDE DEF Is
  <2> QED
    BY <1>6
<1> HIDE DEF h, next
<1>9. h[0] = 0 /\ \A i \in 1..k : h[i] = next(i, h[i - 1])
  <2>1. 0 \in 0..k /\ \A i \in 1..k : i \in 0..k /\ i # 0
    OBVIOUS
  <2> QED
    BY <1>8, <2>1
<1> DEFINE G == {i \in 0..k : h[i] = f[i]}
<1>10. \A i \in 0..k : i \in G
  <2>1. 0 \in G
    BY <1>5, <1>9
  <2>2. \A i \in 1..k : i - 1 \in G => i \in G
    BY <1>5, <1>9
  <2> HIDE DEF G
  <2> QED
    BY <2>1, <2>2, OneByOne
<1>11. h[k] = f[k]
  BY <1>10
<1>12. IsReading(f, digits)
  BY <1>1, <1>5 DEF IsReading, next
<1> QED
  BY <1>1, <1>7, <1>11, <1>12

LEMMA ReadingIsNumber ==
  ASSUME NEW digits \in Seq(HexDigits), NEW g, IsReading(g, digits)
  PROVE  InBase(16, digits) = g[Len(digits)]
<1>1. PICK k \in Nat : k = Len(digits)
  BY LenProperties
<1>2. PICK f : IsReading(f, digits) /\ InBase(16, digits) = f[k]
  BY <1>1, ReadingExists
<1> DEFINE G == {i \in 0..k : f[i] = g[i]}
<1>3. \A i \in 0..k : i \in G
  <2>1. 0 \in G
    BY <1>2 DEF IsReading
  <2>2. \A i \in 1..k : i - 1 \in G => i \in G
    BY <1>1, <1>2 DEF IsReading
  <2> HIDE DEF G
  <2> QED
    BY <2>1, <2>2, OneByOne
<1> QED
  BY <1>1, <1>2, <1>3

LEMMA PowerSteps ==
  /\ PowerOf16 \in [0..AddressDigits -> Nat] /\ PowerOf16[0] = 1
  /\ \A i \in 1..AddressDigits : PowerOf16[i] = 16 * PowerOf16[i - 1]
<1>1. PICK k \in Nat : k = AddressDigits
  BY NameBoundsAssumption
<1> DEFINE next(v) == 16 * v
           step == [i \in 1..k |-> [v \in Nat |-> next(v)]]
<1>2. \A i \in 1..k : \A v \in Nat : step[i][v] = next(v) /\ step[i][v] \in Nat
  <2>1. \A v \in Nat : next(v) \in Nat
    OBVIOUS
  <2> HIDE DEF next
  <2> QED
    BY <2>1
<1> HIDE DEF step
<1>3. PICK f : IsRecursion(f, Nat, k, 1, step)
  BY <1>2, RecursionExists
<1>4. f \in [0..k -> Nat] /\ f[0] = 1 /\ \A i \in 1..k : f[i] = next(f[i - 1])
  <2>1. f \in [0..k -> Nat] /\ f[0] = 1 /\ \A i \in 1..k : f[i] = step[i][f[i - 1]]
    BY <1>3 DEF IsRecursion
  <2>2. \A i \in 1..k : i - 1 \in 0..k
    OBVIOUS
  <2> HIDE DEF next
  <2> QED
    BY <1>2, <2>1, <2>2
<1> DEFINE Is(g) == g = [n \in 0..k |-> IF n = 0 THEN 1 ELSE next(g[n - 1])]
           h == CHOOSE g : Is(g)
<1>5. Is(f)
  <2> HIDE DEF next
  <2>1. ASSUME NEW n \in 0..k PROVE f[n] = IF n = 0 THEN 1 ELSE next(f[n - 1])
    <3>1. n = 0 \/ n \in 1..k
      OBVIOUS
    <3> QED
      BY <1>4, <3>1
  <2>2. f = [n \in 0..k |-> f[n]]
    BY <1>4
  <2> QED
    BY <2>1, <2>2
<1>6. PowerOf16 = h
  BY <1>1 DEF PowerOf16
<1>7. Is(h)
  <2> HIDE DEF Is
  <2> QED
    BY <1>5
<1> HIDE DEF h, next
<1>8. h[0] = 1 /\ \A i \in 1..k : h[i] = next(h[i - 1])
  <2>1. 0 \in 0..k /\ \A i \in 1..k : i \in 0..k /\ i # 0
    OBVIOUS
  <2> QED
    BY <1>7, <2>1
<1> DEFINE G == {i \in 0..k : h[i] = f[i]}
<1>9. \A i \in 0..k : i \in G
  <2>1. 0 \in G
    BY <1>4, <1>8
  <2>2. \A i \in 1..k : i - 1 \in G => i \in G
    BY <1>4, <1>8
  <2> HIDE DEF G
  <2> QED
    BY <2>1, <2>2, OneByOne
<1>10. h = [n \in 0..k |-> h[n]]
  BY <1>7
<1>11. \A i \in 0..k : h[i] \in Nat
  BY <1>4, <1>9
<1>12. h \in [0..k -> Nat]
  BY <1>10, <1>11
<1> QED
  BY <1>1, <1>6, <1>8, <1>12 DEF next

(* A number without leading zeros needs as many digits as it has.          *)
LEMMA ReadingBounds ==
  ASSUME NEW digits \in Seq(HexDigits), NEW f, IsReading(f, digits)
  PROVE  /\ \A i \in 0..AddressDigits : i <= Len(digits) => f[i] < PowerOf16[i]
         /\ Len(digits) > 0 /\ digits[1] # 48 =>
              /\ \A i \in 1..Len(digits) : f[i] > 0
              /\ Len(digits) > AddressDigits => f[Len(digits)] >= PowerOf16[AddressDigits]
<1>1. PICK k \in Nat, a \in Nat \ {0} : k = Len(digits) /\ a = AddressDigits
  BY LenProperties, NameBoundsAssumption
<1>2. \A i \in 1..k : ValueOf(digits[i]) \in 0..15
  <2>1. \A i \in 1..k : digits[i] \in HexDigits
    BY <1>1, ElementOfSeq
  <2> QED
    BY <2>1, DigitFacts
<1>3. /\ \A i \in 0..k : f[i] \in Nat
      /\ f[0] = 0 /\ \A i \in 1..k : f[i] = 16 * f[i - 1] + ValueOf(digits[i])
  BY <1>1 DEF IsReading
<1>4. /\ \A i \in 0..a : PowerOf16[i] \in Nat
      /\ PowerOf16[0] = 1 /\ \A i \in 1..a : PowerOf16[i] = 16 * PowerOf16[i - 1]
  BY <1>1, PowerSteps
<1>5. \A i \in 0..a : i <= k => f[i] < PowerOf16[i]
  <2> DEFINE G == {i \in 0..a : i <= k => f[i] < PowerOf16[i]}
  <2>1. 0 \in G
    BY <1>3, <1>4
  <2>2. ASSUME NEW i \in 1..a, i - 1 \in G PROVE i \in G
    <3> SUFFICES ASSUME i <= k PROVE f[i] < PowerOf16[i]
      OBVIOUS
    <3>1. PICK v \in 0..15, n \in Nat, p \in Nat :
            v = ValueOf(digits[i]) /\ n = f[i - 1] /\ p = PowerOf16[i - 1]
      <4>1. i \in 1..k /\ i - 1 \in 0..k /\ i - 1 \in 0..a
        BY <2>2
      <4>2. ValueOf(digits[i]) \in 0..15 /\ f[i - 1] \in Nat /\ PowerOf16[i - 1] \in Nat
        BY <1>2, <1>3, <1>4, <4>1
      <4> QED
        BY <4>2
    <3>2. n < p
      BY <2>2, <3>1
    <3>3. f[i] = 16 * n + v /\ PowerOf16[i] = 16 * p
      BY <1>3, <1>4, <3>1
    <3> QED
      BY <3>2, <3>3
  <2>3. \A i \in 0..a : i \in G
    <3> HIDE DEF G
    <3> QED
      BY <2>1, <2>2, OneByOne
  <2> QED
    BY <2>3
<1>6. ASSUME k > 0, digits[1] # 48
      PROVE  \A i \in 1..k : f[i] > 0
  <2> DEFINE G == {i \in 0..k : i = 0 \/ f[i] > 0}
  <2>1. f[1] > 0
    <3>1. 1 \in 1..k /\ digits[1] \in HexDigits
      BY <1>1, <1>6, ElementOfSeq
    <3>2. ValueOf(digits[1]) # 0
      BY <1>6, <3>1, DigitFacts
    <3> QED
      BY <1>2, <1>3, <3>1, <3>2
  <2>2. ASSUME NEW i \in 1..k, i - 1 \in G PROVE i \in G
    <3>1. CASE i = 1
      BY <2>1, <3>1
    <3>2. CASE i # 1
      <4>1. PICK v \in 0..15, n \in Nat : v = ValueOf(digits[i]) /\ n = f[i - 1]
        <5>1. i - 1 \in 0..k
          OBVIOUS
        <5>2. ValueOf(digits[i]) \in 0..15 /\ f[i - 1] \in Nat
          BY <1>2, <1>3, <5>1
        <5> QED
          BY <5>2
      <4>2. n > 0
        BY <2>2, <3>2, <4>1
      <4>3. f[i] = 16 * n + v /\ 16 * n + v > 0
        BY <1>3, <4>1, <4>2
      <4> QED
        BY <4>3
    <3> QED
      BY <3>1, <3>2
  <2>3. \A i \in 0..k : i \in G
    <3>1. 0 \in G
      OBVIOUS
    <3> HIDE DEF G
    <3> QED
      BY <2>2, <3>1, OneByOne
  <2> QED
    BY <2>3
<1>7. ASSUME k > a, digits[1] # 48
      PROVE  f[k] >= PowerOf16[a]
  <2> DEFINE G == {i \in 0..a : f[i + 1] >= PowerOf16[i]}
  <2>1. 0 \in G
    <3>1. 1 \in 1..k
      BY <1>7
    <3>2. f[1] > 0 /\ f[1] \in Nat
      BY <1>3, <1>6, <1>7, <3>1
    <3> QED
      BY <1>4, <3>2
  <2>2. ASSUME NEW i \in 1..a, i - 1 \in G PROVE i \in G
    <3>1. i + 1 \in 1..k /\ i \in 0..k /\ i - 1 \in 0..a /\ (i + 1) - 1 = i /\ (i - 1) + 1 = i
      BY <1>7
    <3>2. PICK v \in 0..15, n \in Nat, p \in Nat :
            v = ValueOf(digits[i + 1]) /\ n = f[i] /\ p = PowerOf16[i - 1]
      <4>1. ValueOf(digits[i + 1]) \in 0..15 /\ f[i] \in Nat /\ PowerOf16[i - 1] \in Nat
        BY <1>2, <1>3, <1>4, <3>1
      <4> QED
        BY <4>1
    <3>3. n >= p
      BY <2>2, <3>1, <3>2
    <3>4. f[i + 1] = 16 * n + v
      BY <1>3, <3>1, <3>2
    <3>5. PowerOf16[i] = 16 * p
      BY <1>4, <3>2
    <3> QED
      BY <3>3, <3>4, <3>5
  <2>3. f[a + 1] >= PowerOf16[a]
    <3>1. \A i \in 0..a : i \in G
      <4> HIDE DEF G
      <4> QED
        BY <2>1, <2>2, OneByOne
    <3> QED
      BY <3>1
  <2> DEFINE H == {i \in 0..k : i > a => f[i] >= PowerOf16[a]}
  <2>4. ASSUME NEW i \in 1..k, i - 1 \in H PROVE i \in H
    <3>1. CASE i <= a
      BY <3>1
    <3>2. CASE i = a + 1
      BY <2>3, <3>2
    <3>3. CASE i > a + 1
      <4>1. PICK v \in 0..15, n \in Nat, p \in Nat :
              v = ValueOf(digits[i]) /\ n = f[i - 1] /\ p = PowerOf16[a]
        <5>1. i - 1 \in 0..k /\ a \in 0..a
          OBVIOUS
        <5>2. ValueOf(digits[i]) \in 0..15 /\ f[i - 1] \in Nat /\ PowerOf16[a] \in Nat
          BY <1>2, <1>3, <1>4, <5>1
        <5> QED
          BY <5>2
      <4>2. n >= p
        BY <2>4, <3>3, <4>1
      <4>3. f[i] = 16 * n + v
        BY <1>3, <4>1
      <4>4. 16 * n + v >= p
        BY <4>2
      <4>5. f[i] >= PowerOf16[a]
        BY <4>1, <4>3, <4>4
      <4> QED
        BY <4>5
    <3> QED
      BY <3>1, <3>2, <3>3
  <2>5. \A i \in 0..k : i \in H
    <3>1. 0 \in H
      OBVIOUS
    <3> HIDE DEF H
    <3> QED
      BY <2>4, <3>1, OneByOne
  <2>6. k \in 0..k
    OBVIOUS
  <2> QED
    BY <1>7, <2>5, <2>6
<1> QED
  BY <1>1, <1>5, <1>6, <1>7

(* The digits that are printed are those that were read.                   *)
LEMMA HexOfReading ==
  ASSUME NEW digits \in Seq(HexDigits), NEW f, IsReading(f, digits),
         Len(digits) <= AddressDigits, Len(digits) > 0 => digits[1] # 48
  PROVE  Hex(f[Len(digits)]) =
           IF digits = <<>> THEN <<48>> ELSE [i \in DOMAIN digits |-> Lower(digits[i])]
<1>1. PICK k \in Nat, a \in Nat \ {0} :
        k = Len(digits) /\ a = AddressDigits /\ DOMAIN digits = 1..k
  BY LenProperties, NameBoundsAssumption
<1>2. \A i \in 1..k : digits[i] \in HexDigits /\ ValueOf(digits[i]) \in 0..15
  <2>1. \A i \in 1..k : digits[i] \in HexDigits
    BY <1>1, ElementOfSeq
  <2> QED
    BY <2>1, DigitFacts
<1>3. /\ \A i \in 0..k : f[i] \in Nat
      /\ f[0] = 0 /\ \A i \in 1..k : f[i] = 16 * f[i - 1] + ValueOf(digits[i])
  BY <1>1 DEF IsReading
<1>4. \A i \in 1..k : f[i] > 0
  BY <1>1, ReadingBounds
<1>5. \A i \in 1..k : f[i] \div 16 = f[i - 1] /\ f[i] % 16 = ValueOf(digits[i])
  <2>1. ASSUME NEW i \in 1..k
        PROVE  f[i] \div 16 = f[i - 1] /\ f[i] % 16 = ValueOf(digits[i])
    <3>1. PICK v \in 0..15, n \in Nat : v = ValueOf(digits[i]) /\ n = f[i - 1]
      <4>1. i - 1 \in 0..k
        OBVIOUS
      <4>2. ValueOf(digits[i]) \in 0..15 /\ f[i - 1] \in Nat
        BY <1>2, <1>3, <4>1
      <4> QED
        BY <4>2
    <3>2. f[i] = 16 * n + v
      BY <1>3, <3>1
    <3>3. (16 * n + v) \div 16 = n /\ (16 * n + v) % 16 = v
      OBVIOUS
    <3> QED
      BY <3>1, <3>2, <3>3
  <2> QED
    BY <2>1
<1> DEFINE number == f[k]
           Is(g) == g = [i \in 0..a |-> IF i = 0 THEN number ELSE g[i - 1] \div 16]
           quotient == CHOOSE g : Is(g)
           Ends(w) == quotient[w] = 0 /\ (w = 1 \/ quotient[w - 1] # 0)
           width == CHOOSE w \in 1..a : Ends(w)
<1>6. Hex(number) = [i \in 1..width |-> DigitOf(quotient[width - i] % 16)]
  BY <1>1 DEF Hex
<1> HIDE DEF number
(* The quotients are the numbers of fewer and fewer digits.                *)
<1>7. Is([i \in 0..a |-> IF i <= k THEN f[k - i] ELSE 0])
  <2> DEFINE g == [i \in 0..a |-> IF i <= k THEN f[k - i] ELSE 0]
  <2>1. ASSUME NEW i \in 0..a
        PROVE  (IF i <= k THEN f[k - i] ELSE 0) = IF i = 0 THEN number ELSE g[i - 1] \div 16
    <3>1. CASE i = 0
      BY <3>1 DEF number
    <3>2. CASE i # 0 /\ i <= k
      <4>1. g[i - 1] = f[k - (i - 1)]
        BY <3>2
      <4>2. k - (i - 1) \in 1..k /\ (k - (i - 1)) - 1 = k - i
        BY <3>2
      <4>3. f[k - (i - 1)] \div 16 = f[k - i]
        BY <1>5, <4>2
      <4> QED
        BY <3>2, <4>1, <4>3
    <3>3. CASE i = k + 1
      <4>1. g[i - 1] = f[0]
        BY <3>3
      <4> QED
        BY <1>3, <3>3, <4>1
    <3>4. CASE i > k + 1
      <4>1. g[i - 1] = 0
        BY <3>4
      <4> QED
        BY <3>4, <4>1
    <3> QED
      BY <3>1, <3>2, <3>3, <3>4
  <2>2. g = [i \in 0..a |-> IF i = 0 THEN number ELSE g[i - 1] \div 16]
    BY <2>1
  <2> QED
    BY <2>2
<1>8. Is(quotient)
  <2> HIDE DEF Is
  <2> QED
    BY <1>7
<1> HIDE DEF quotient
<1>9. quotient[0] = number /\ \A i \in 1..a : quotient[i] = quotient[i - 1] \div 16
  <2>1. 0 \in 0..a /\ \A i \in 1..a : i \in 0..a /\ i # 0
    OBVIOUS
  <2> QED
    BY <1>8, <2>1
<1> DEFINE G == {i \in 0..a : quotient[i] = IF i <= k THEN f[k - i] ELSE 0}
<1>10. \A i \in 0..a : i \in G
  <2>1. 0 \in G
    BY <1>9 DEF number
  <2>2. ASSUME NEW i \in 1..a, i - 1 \in G PROVE i \in G
    <3>1. CASE i <= k
      <4>1. quotient[i - 1] = f[k - (i - 1)]
        BY <2>2, <3>1
      <4>2. k - (i - 1) \in 1..k /\ (k - (i - 1)) - 1 = k - i
        BY <3>1
      <4>3. f[k - (i - 1)] \div 16 = f[k - i]
        BY <1>5, <4>2
      <4> QED
        BY <1>9, <3>1, <4>1, <4>3
    <3>2. CASE i = k + 1
      <4>1. quotient[i - 1] = f[0]
        BY <2>2, <3>2
      <4> QED
        BY <1>3, <1>9, <3>2, <4>1
    <3>3. CASE i > k + 1
      <4>1. quotient[i - 1] = 0
        BY <2>2, <3>3
      <4> QED
        BY <1>9, <3>3, <4>1
    <3> QED
      BY <3>1, <3>2, <3>3
  <2> HIDE DEF G
  <2> QED
    BY <2>1, <2>2, OneByOne
<1>11. \A i \in 0..a : quotient[i] = IF i <= k THEN f[k - i] ELSE 0
  BY <1>10
<1>12. CASE k = 0
  <2>1. \A w \in 1..a : quotient[w] = 0 /\ (w # 1 => quotient[w - 1] = 0)
    BY <1>11, <1>12
  <2>2. 1 \in 1..a
    OBVIOUS
  <2>3. width = 1
    BY <2>1, <2>2
  <2>4. quotient[0] = 0
    BY <1>3, <1>11, <1>12
  <2> HIDE DEF width
  <2>5. [i \in 1..width |-> DigitOf(quotient[width - i] % 16)] = [i \in 1..1 |-> 48]
    <3>1. ASSUME NEW i \in 1..1 PROVE DigitOf(quotient[1 - i] % 16) = 48
      <4>1. quotient[1 - i] % 16 = 0
        BY <2>4
      <4> QED
        BY <4>1, DigitFacts
    <3> QED
      BY <2>3, <3>1
  <2>6. digits = <<>>
    BY <1>1, <1>12, EmptySeq
  <2>7. [i \in 1..1 |-> 48] = <<48>>
    OBVIOUS
  <2> QED
    BY <1>1, <1>6, <2>5, <2>6, <2>7 DEF number
<1>13. CASE k # 0
  <2>1. k \in 1..a /\ k \in 1..k
    BY <1>1, <1>13
  <2>2. Ends(k)
    <3>1. quotient[k] = 0
      BY <1>3, <1>11, <2>1
    <3>2. k # 1 => quotient[k - 1] = f[1] /\ f[1] # 0
      BY <1>4, <1>11, <2>1
    <3> QED
      BY <3>1, <3>2
  <2>3. ASSUME NEW w \in 1..a, Ends(w) PROVE w = k
    <3>1. CASE w < k
      <4>1. quotient[w] = f[k - w] /\ k - w \in 1..k
        BY <1>11, <3>1
      <4> QED
        BY <1>4, <2>3, <4>1
    <3>2. CASE w > k
      <4>1. quotient[w - 1] = 0
        BY <1>3, <1>11, <3>2
      <4> QED
        BY <1>13, <2>3, <3>2, <4>1
    <3> QED
      BY <3>1, <3>2
  <2>4. width = k
    <3> HIDE DEF Ends
    <3> QED
      BY <2>1, <2>2, <2>3
  <2> HIDE DEF width
  <2>5. ASSUME NEW i \in 1..k
        PROVE  DigitOf(quotient[k - i] % 16) = Lower(digits[i])
    <3>1. k - i \in 0..a /\ k - i <= k /\ k - (k - i) = i
      BY <2>1
    <3>2. quotient[k - i] = f[i]
      BY <1>11, <3>1
    <3> QED
      BY <1>2, <1>5, <3>2, DigitFacts
  <2>6. digits # <<>>
    BY <1>1, <1>13, EmptySeq
  <2>7. [i \in 1..width |-> DigitOf(quotient[width - i] % 16)]
          = [i \in 1..k |-> Lower(digits[i])]
    BY <2>4, <2>5
  <2> QED
    BY <1>1, <1>6, <2>6, <2>7 DEF number
<1> QED
  BY <1>12, <1>13

LEMMA PowersGrow ==
  \A i \in 0..AddressDigits : /\ PowerOf16[i] \in Nat /\ PowerOf16[AddressDigits] \in Nat
                              /\ PowerOf16[i] <= PowerOf16[AddressDigits]
<1>1. PICK a \in Nat : a = AddressDigits
  BY NameBoundsAssumption
<1>2. /\ \A i \in 0..a : PowerOf16[i] \in Nat
      /\ \A i \in 1..a : PowerOf16[i] = 16 * PowerOf16[i - 1]
  BY <1>1, PowerSteps
<1> DEFINE G == {j \in 0..a : \A i \in 0..j : PowerOf16[i] <= PowerOf16[j]}
<1>3. \A j \in 0..a : j \in G
  <2>1. 0 \in G
    BY <1>2
  <2>2. ASSUME NEW j \in 1..a, j - 1 \in G PROVE j \in G
    <3>1. PICK p \in Nat : p = PowerOf16[j - 1] /\ PowerOf16[j] = 16 * p
      <4>1. j - 1 \in 0..a
        OBVIOUS
      <4> QED
        BY <1>2, <4>1
    <3>2. ASSUME NEW i \in 0..j PROVE PowerOf16[i] <= PowerOf16[j]
      <4>1. CASE i = j
        BY <1>2, <4>1
      <4>2. CASE i # j
        <5>1. i \in 0..j - 1 /\ i \in 0..a
          BY <4>2
        <5>2. PICK q \in Nat : q = PowerOf16[i]
          BY <1>2, <5>1
        <5>3. q <= p
          BY <2>2, <3>1, <5>1, <5>2
        <5> QED
          BY <3>1, <5>2, <5>3
      <4> QED
        BY <4>1, <4>2
    <3> QED
      BY <3>2
  <2> HIDE DEF G
  <2> QED
    BY <2>1, <2>2, OneByOne
<1>4. a \in 0..a
  OBVIOUS
<1> QED
  BY <1>1, <1>2, <1>3, <1>4

(* Leading zeros do not count.                                             *)
LEMMA SignificantFacts ==
  ASSUME NEW digits \in Seq(HexDigits)
  PROVE  /\ Significant(digits) \in Seq(HexDigits)
         /\ Len(Significant(digits)) > 0 => Significant(digits)[1] # 48
         /\ InBase(16, digits) = InBase(16, Significant(digits))
<1>1. PICK k \in Nat : k = Len(digits) /\ DOMAIN digits = 1..k
  BY LenProperties
<1>2. \A i \in 1..k : digits[i] \in HexDigits
  BY <1>1, ElementOfSeq
<1>3. PICK f : IsReading(f, digits) /\ InBase(16, digits) = f[k]
  BY <1>1, ReadingExists
<1>4. /\ f \in [0..k -> Nat] /\ f[0] = 0
      /\ \A i \in 1..k : f[i] = 16 * f[i - 1] + ValueOf(digits[i])
  BY <1>1, <1>3 DEF IsReading
<1> DEFINE I == {i \in 1..k : digits[i] # 48}
<1>5. SelectInSeq(digits, LAMBDA d : d # 48) = IF I # {} THEN Min(I) ELSE 0
  BY <1>1 DEF SelectInSeq
(* As long as all digits are zeros, so is the number.                      *)
<1>6. ASSUME NEW m \in 0..k, \A i \in 1..m : digits[i] = 48
      PROVE  f[m] = 0
  <2> DEFINE G == {i \in 0..m : f[i] = 0}
  <2>1. \A i \in 0..m : i \in G
    <3>1. 0 \in G
      BY <1>4
    <3>2. ASSUME NEW i \in 1..m, i - 1 \in G PROVE i \in G
      <4>1. f[i] = 16 * f[i - 1] + ValueOf(digits[i])
        BY <1>4
      <4>2. digits[i] = 48 /\ f[i - 1] = 0 /\ ValueOf(48) = 0
        BY <1>6, <3>2, DigitFacts
      <4>3. f[i] = 0
        BY <4>1, <4>2
      <4> QED
        BY <4>3
    <3> HIDE DEF G
    <3> QED
      BY <3>1, <3>2, OneByOne
  <2>2. m \in 0..m
    OBVIOUS
  <2> QED
    BY <2>1, <2>2
<1>7. CASE I = {}
  <2>1. Significant(digits) = <<>>
    BY <1>5, <1>7 DEF Significant
  <2>2. <<>> \in Seq(HexDigits) /\ Len(<<>>) = 0
    OBVIOUS
  <2>3. f[k] = 0
    BY <1>6, <1>7
  <2> DEFINE g == [i \in 0..0 |-> 0]
  <2>4. IsReading(g, <<>>) /\ g[0] = 0
    BY <2>2 DEF IsReading
  <2>5. InBase(16, <<>>) = 0
    <3> HIDE DEF g
    <3> QED
      BY <2>2, <2>4, ReadingIsNumber
  <2> QED
    BY <1>3, <2>1, <2>2, <2>3, <2>5
<1>8. CASE I # {}
  <2>1. Min(I) \in I /\ \A j \in I : Min(I) <= j
    <3>1. I \subseteq Nat
      OBVIOUS
    <3>2. \E i \in I : \A j \in I : i <= j
      <4> HIDE DEF I
      <4> QED
        BY <1>8, <3>1, LeastNatural
    <3> HIDE DEF I
    <3> QED
      BY <3>2 DEF Min
  <2>2. PICK n \in Nat : Min(I) = n + 1
    <3>1. PICK m \in 1..k : m = Min(I)
      BY <2>1
    <3>2. m - 1 \in Nat /\ m = (m - 1) + 1
      OBVIOUS
    <3> QED
      BY <3>1, <3>2
  <2>3. n + 1 \in 1..k /\ digits[n + 1] # 48
    BY <2>1, <2>2
  <2>4. \A i \in 1..n : digits[i] = 48
    BY <2>1, <2>2, <2>3
  <2>5. Significant(digits) = SubSeq(digits, n + 1, k)
    BY <1>1, <1>5, <1>8, <2>2 DEF Significant
  <2>6. PICK sig \in Seq(HexDigits) :
          /\ sig = SubSeq(digits, n + 1, k) /\ Len(sig) = k - n
          /\ \A i \in 1..k - n : sig[i] = digits[n + i]
    <3>1. n \in 0..Len(digits)
      BY <1>1, <2>3
    <3>2. /\ SubSeq(digits, n + 1, k) \in Seq(HexDigits)
          /\ Len(SubSeq(digits, n + 1, k)) = k - n
          /\ \A i \in 1..k - n : SubSeq(digits, n + 1, k)[i] = digits[n + i]
      BY <1>1, <3>1, LastOfSeq
    <3> QED
      BY <3>2
  <2>7. sig[1] # 48
    <3>1. 1 \in 1..k - n
      BY <2>3
    <3> QED
      BY <2>3, <2>6, <3>1
  <2> DEFINE g == [i \in 0..k - n |-> f[n + i]]
  <2>8. IsReading(g, sig) /\ g[k - n] = f[k]
    <3>1. ASSUME NEW i \in 0..k - n PROVE n + i \in 0..k
      BY <2>3
    <3>2. g \in [0..k - n -> Nat]
      BY <1>4, <3>1
    <3>3. g[0] = 0
      <4>1. n \in 0..k /\ 0 \in 0..k - n
        BY <2>3
      <4> QED
        BY <1>6, <2>4, <4>1
    <3>4. ASSUME NEW i \in 1..k - n PROVE g[i] = 16 * g[i - 1] + ValueOf(sig[i])
      <4>1. /\ n + i \in 1..k /\ i \in 0..k - n /\ i - 1 \in 0..k - n
            /\ n + (i - 1) = (n + i) - 1
        BY <2>3
      <4>2. g[i] = f[n + i] /\ g[i - 1] = f[(n + i) - 1]
        BY <4>1
      <4>3. f[n + i] = 16 * f[(n + i) - 1] + ValueOf(digits[n + i])
        BY <1>4, <4>1
      <4> QED
        BY <2>6, <4>2, <4>3
    <3>5. g[k - n] = f[k]
      BY <2>3
    <3> HIDE DEF g
    <3> QED
      BY <2>6, <3>2, <3>3, <3>4, <3>5 DEF IsReading
  <2>9. InBase(16, sig) = f[k]
    <3> HIDE DEF g
    <3> QED
      BY <2>6, <2>8, ReadingIsNumber
  <2> QED
    BY <1>3, <2>5, <2>6, <2>7, <2>9
<1> QED
  BY <1>7, <1>8

(* A number fits if its significant digits are no more than the width, and *)
(* then they, in small letters, are how it is printed.                     *)
Printed(sig) == IF sig = <<>> THEN <<48>> ELSE [i \in DOMAIN sig |-> Lower(sig[i])]

LEMMA NumberIsPrinted ==
  ASSUME NEW digits \in Seq(HexDigits)
  PROVE  /\ InBase(16, digits) \in Nat
         /\ InBase(16, digits) < PowerOf16[AddressDigits]
              <=> Len(Significant(digits)) <= AddressDigits
         /\ Len(Significant(digits)) <= AddressDigits =>
              Hex(InBase(16, digits)) = Printed(Significant(digits))
         /\ Printed(Significant(digits)) \in Seq(HexDigits)
         /\ Len(Printed(Significant(digits))) > 0
         /\ InBase(16, Printed(Significant(digits))) = InBase(16, digits)
<1>1. PICK sig \in Seq(HexDigits), k \in Nat, a \in Nat :
        /\ sig = Significant(digits) /\ k = Len(sig) /\ a = AddressDigits
        /\ k > 0 => sig[1] # 48
        /\ InBase(16, digits) = InBase(16, sig)
  <2>1. Len(Significant(digits)) \in Nat /\ AddressDigits \in Nat
    BY SignificantFacts, LenProperties, NameBoundsAssumption
  <2> QED
    BY <2>1, SignificantFacts
<1>2. PICK f : IsReading(f, sig) /\ InBase(16, sig) = f[k]
  BY <1>1, ReadingExists
<1>3. f[k] \in Nat
  <2>1. f \in [0..k -> Nat] /\ k \in 0..k
    BY <1>1, <1>2 DEF IsReading
  <2> QED
    BY <2>1
<1>4. f[k] < PowerOf16[a] <=> k <= a
  <2>1. CASE k <= a
    <3>1. k \in 0..a
      BY <2>1
    <3>2. f[k] < PowerOf16[k]
      BY <1>1, <1>2, <3>1, ReadingBounds
    <3>3. PowerOf16[k] \in Nat /\ PowerOf16[a] \in Nat /\ PowerOf16[k] <= PowerOf16[a]
      BY <1>1, <3>1, PowersGrow
    <3> QED
      BY <1>3, <2>1, <3>2, <3>3
  <2>2. CASE k > a
    <3>1. f[k] >= PowerOf16[a]
      BY <1>1, <1>2, <2>2, ReadingBounds
    <3>2. PowerOf16[a] \in Nat
      BY <1>1, PowersGrow
    <3> QED
      BY <1>3, <2>2, <3>1, <3>2
  <2> QED
    BY <2>1, <2>2
<1>5. k <= a => Hex(f[k]) = Printed(sig)
  BY <1>1, <1>2, HexOfReading DEF Printed
<1>6. DOMAIN sig = 1..k /\ \A i \in 1..k : sig[i] \in HexDigits
  BY <1>1, LenProperties, ElementOfSeq
<1>7. /\ Printed(sig) \in Seq(HexDigits) /\ Len(Printed(sig)) > 0
      /\ InBase(16, Printed(sig)) = f[k]
  <2>1. CASE sig = <<>>
    <3>1. k = 0 /\ f[k] = 0
      BY <1>1, <1>2, <2>1, EmptySeq DEF IsReading
    <3>2. <<48>> \in Seq(HexDigits) /\ Len(<<48>>) = 1 /\ <<48>>[1] = 48
      BY DigitFacts
    <3> DEFINE g == [i \in 0..1 |-> 0]
    <3>3. IsReading(g, <<48>>) /\ g[1] = 0
      <4>1. g \in [0..1 -> Nat] /\ g[0] = 0 /\ g[1] = 0
        OBVIOUS
      <4>2. 1..1 = {1} /\ 1 - 1 = 0
        OBVIOUS
      <4>3. \A i \in 1..1 : g[i] = 16 * g[i - 1] + ValueOf(<<48>>[i])
        BY <3>2, <4>1, <4>2, DigitFacts
      <4> HIDE DEF g
      <4> QED
        BY <3>2, <4>1, <4>3 DEF IsReading
    <3>4. InBase(16, <<48>>) = 0
      <4> HIDE DEF g
      <4> QED
        BY <3>2, <3>3, ReadingIsNumber
    <3>5. Printed(sig) = <<48>>
      BY <2>1 DEF Printed
    <3> QED
      BY <3>1, <3>2, <3>4, <3>5
  <2>2. CASE sig # <<>>
    <3>1. k > 0
      BY <1>1, <2>2, EmptySeq
    <3>2. PICK p : p = [i \in 1..k |-> Lower(sig[i])]
      OBVIOUS
    <3>3. \A i \in 1..k : Lower(sig[i]) \in HexDigits /\ ValueOf(Lower(sig[i])) = ValueOf(sig[i])
      BY <1>6, DigitFacts
    <3>4. p \in Seq(HexDigits) /\ Len(p) = k /\ \A i \in 1..k : p[i] = Lower(sig[i])
      BY <3>2, <3>3
    <3>5. IsReading(f, p)
      BY <1>1, <1>2, <3>3, <3>4 DEF IsReading
    <3>6. InBase(16, p) = f[k]
      BY <3>4, <3>5, ReadingIsNumber
    <3>7. Printed(sig) = p
      BY <1>6, <2>2, <3>2 DEF Printed
    <3> QED
      BY <3>1, <3>4, <3>6, <3>7
  <2> QED
    BY <2>1, <2>2
<1> QED
  BY <1>1, <1>2, <1>3, <1>4, <1>5, <1>7

(* What is read as a unit address.                                         *)
LEMMA AddressFacts ==
  ASSUME NEW text \in CStrings
  PROVE  /\ IsUnitAddress(text) <=> FromStrRadix(text) # None
         /\ IsUnitAddress(text) =>
              /\ FromStrRadix(text) \in Nat /\ Hex(FromStrRadix(text)) = Shortest(text)
              /\ Shortest(text) \in Seq(HexDigits)
              /\ FromStrRadix(Shortest(text)) = FromStrRadix(text)
<1> DEFINE digits == WithoutSign(text)
<1>1. digits \in CStrings
  <2>1. text # <<>> => Tail(text) \in Seq(Byte \ {0})
    BY DEF CStrings
  <2> QED
    BY <2>1 DEF WithoutSign, CStrings
<1>2. ToSet(digits) \subseteq HexDigits <=> \A i \in DOMAIN digits : digits[i] \in HexDigits
  BY DEF ToSet
<1>3. IsUnitAddress(text) <=> /\ digits # <<>> /\ \A i \in DOMAIN digits : digits[i] \in HexDigits
                              /\ Len(Significant(digits)) <= AddressDigits
  BY DEF IsUnitAddress, WithoutSign
<1>4. FromStrRadix(text) =
        IF digits = <<>> \/ ~ ToSet(digits) \subseteq HexDigits THEN None
        ELSE IF InBase(16, digits) < PowerOf16[AddressDigits] THEN InBase(16, digits) ELSE None
  BY DEF FromStrRadix
<1>5. digits # <<>> => Shortest(text) = Printed(Significant(digits))
  <2>1. text # <<>> \/ digits = <<>>
    BY DEF WithoutSign
  <2>2. text # <<>> => digits = IF text[1] = Plus THEN Tail(text) ELSE text
    BY DEF WithoutSign
  <2> HIDE DEF digits
  <2> QED
    BY <2>1, <2>2 DEF Shortest, Printed
<1> HIDE DEF digits
<1>6. CASE digits = <<>> \/ ~ ToSet(digits) \subseteq HexDigits
  BY <1>2, <1>3, <1>4, <1>6
<1>7. CASE digits # <<>> /\ ToSet(digits) \subseteq HexDigits
  <2>1. digits \in Seq(HexDigits)
    <3>1. \A i \in 1..Len(digits) : digits[i] \in HexDigits
      BY <1>1, <1>2, <1>7 DEF CStrings
    <3> QED
      BY <1>1, <3>1 DEF CStrings
  <2>2. PICK n \in Nat, p \in Seq(HexDigits) :
          /\ n = InBase(16, digits) /\ p = Printed(Significant(digits))
          /\ n < PowerOf16[AddressDigits] <=> Len(Significant(digits)) <= AddressDigits
          /\ Len(Significant(digits)) <= AddressDigits => Hex(n) = p
          /\ Len(p) > 0 /\ InBase(16, p) = n
    <3>1. InBase(16, digits) \in Nat /\ Printed(Significant(digits)) \in Seq(HexDigits)
      BY <2>1, NumberIsPrinted
    <3> QED
      BY <2>1, <3>1, NumberIsPrinted
  <2>3. n # None
    BY AnswersDiffer
  <2>4. IsUnitAddress(text) <=> n < PowerOf16[AddressDigits]
    BY <1>2, <1>3, <1>7, <2>2
  <2>5. FromStrRadix(text) = IF n < PowerOf16[AddressDigits] THEN n ELSE None
    BY <1>4, <1>7, <2>2
  <2>6. FromStrRadix(p) = IF n < PowerOf16[AddressDigits] THEN n ELSE None
    <3>1. 1 \in 1..Len(p) /\ p # <<>>
      BY <2>2
    <3>2. p[1] # Plus
      <4>1. p[1] \in HexDigits
        BY <2>2, <3>1, ElementOfSeq
      <4> QED
        BY <4>1, DigitFacts
    <3>3. WithoutSign(p) = p
      BY <3>2 DEF WithoutSign
    <3>4. ToSet(p) \subseteq HexDigits
      <4>1. DOMAIN p = 1..Len(p) /\ \A i \in 1..Len(p) : p[i] \in HexDigits
        BY <2>2, ElementOfSeq, LenProperties
      <4> QED
        BY <4>1 DEF ToSet
    <3> QED
      BY <2>2, <3>1, <3>3, <3>4 DEF FromStrRadix
  <2> QED
    BY <1>5, <1>7, <2>2, <2>3, <2>4, <2>5, <2>6
<1> QED
  BY <1>6, <1>7

(* The two parts of a name.                                                *)
LEMMA PartsFacts ==
  ASSUME NEW text \in CStrings
  PROVE  \/ /\ ~ HasAddress(text) /\ PartsOf(text) = <<text>> /\ PartsOf(text)[1] = text
            /\ \A i \in 1..Len(text) : text[i] # At
         \/ /\ HasAddress(text)
            /\ \E at : AreSides(text, At, at, PartsOf(text)[1], PartsOf(text)[2])
<1>1. CASE SplitAtFirst(text, At) = None /\ \A i \in 1..Len(text) : text[i] # At
  BY <1>1 DEF PartsOf, HasAddress
<1>2. ASSUME NEW at, NEW p, NEW q, AreSides(text, At, at, p, q)
      PROVE  HasAddress(text) /\ AreSides(text, At, at, PartsOf(text)[1], PartsOf(text)[2])
  <2>1. PartsOf(text) = <<p, q>>
    BY <1>2 DEF AreSides, PartsOf
  <2> QED
    BY <1>2, <2>1 DEF HasAddress
<1> QED
  BY <1>1, <1>2, SplitFacts

LEMMA CharFacts == At \notin Chars /\ At \notin HexDigits /\ HexDigits \subseteq 48..102
  BY DEF At, Chars, HexDigits, Digits, Comma, Plus, Dash

LEMMA NodeNameFacts ==
  ASSUME NEW s \in CStrings
  PROVE  IsNodeName(s) <=> Len(s) <= MaxNodeNameLength /\ ToSet(s) \subseteq Chars
  BY DEF IsNodeName, ToSet

(* Only what is not a name is refused, and nothing that is one.            *)
LEMMA NameIsJudged ==
  ASSUME NEW text \in CStrings
  PROVE  IsName(text) <=> IsShort(text) /\ HasGoodParts(text)
<1>1. CASE ~ HasAddress(text)
  <2>1. PartsOf(text)[1] = text /\ \A i \in 1..Len(text) : text[i] # At
    BY <1>1, PartsFacts
  <2>2. DOMAIN text = 1..Len(text)
    BY DEF CStrings
  <2>3. IsName(text) <=> IsNodeName(text)
    BY <2>1, <2>2 DEF IsName
  <2> QED
    BY <1>1, <2>1, <2>3, NodeNameFacts DEF IsShort, HasGoodParts
<1>2. CASE HasAddress(text)
  <2>1. PICK at, p, q :
          /\ AreSides(text, At, at, p, q) /\ p = PartsOf(text)[1]
          /\ q = PartsOf(text)[2]
    BY <1>2, PartsFacts
  <2>2. PICK l \in Nat : l = Len(text) /\ DOMAIN text = 1..l /\ at \in 1..l
    <3>1. text \in Seq(Byte \ {0}) /\ at \in 1..Len(text)
      BY <2>1 DEF AreSides, CStrings
    <3>2. Len(text) \in Nat /\ DOMAIN text = 1..Len(text)
      BY <3>1, LenProperties
    <3> QED
      BY <3>1, <3>2
  <2>3. p \in CStrings /\ q \in CStrings /\ text[at] = At /\ \A i \in 1..at - 1 : text[i] # At
    BY <2>1 DEF AreSides
  <2>4. p = SubSeq(text, 1, at - 1) /\ q = SubSeq(text, at + 1, l)
    <3>1. SplitAtFirst(text, At) = <<p, q>> /\ SplitAtFirst(text, At) # None
      BY <2>1 DEF AreSides
    <3>2. <<p, q>> = Split(text, FirstIndex(text, At))
      BY <3>1 DEF SplitAtFirst
    <3>3. FirstIndex(text, At) = at
      <4>1. text \in Seq(Byte \ {0})
        BY DEF CStrings
      <4>2. PICK f : f = FirstIndex(text, At)
        OBVIOUS
      <4>3. \/ f = 0 /\ \A i \in 1..l : text[i] # At
            \/ f \in 1..l /\ text[f] = At /\ \A i \in 1..f - 1 : text[i] # At
        BY <2>2, <4>1, <4>2, FirstIndexFacts
      <4>4. f \in 1..l /\ text[f] = At /\ \A i \in 1..f - 1 : text[i] # At
        BY <2>2, <2>3, <4>3
      <4>5. ~ (f < at) /\ ~ (at < f)
        BY <2>2, <2>3, <4>4
      <4> QED
        BY <2>2, <4>2, <4>4, <4>5
    <3>4. p = SubSeq(text, 1, at - 1) /\ q = SubSeq(text, at + 1, Len(text))
      BY <3>2, <3>3 DEF Split
    <3> QED
      BY <2>2, <3>4
  <2>5. IsName(text) <=> IsNodeName(p) /\ IsUnitAddress(q)
    <3>1. ~ IsNodeName(text)
      BY <2>2, <2>3, CharFacts DEF IsNodeName
    <3>2. ASSUME NEW i \in 1..l, text[i] = At, IsNodeName(SubSeq(text, 1, i - 1))
          PROVE  i = at
      <4>1. ~ (i < at)
        BY <2>2, <2>3, <3>2
      <4>2. CASE at < i
        <5>1. i - 1 \in 0..Len(text) /\ text \in Seq(Byte)
          BY <2>2 DEF CStrings
        <5>2. PICK s \in Seq(Byte) : /\ s = SubSeq(text, 1, i - 1) /\ Len(s) = i - 1
                                     /\ \A j \in 1..i - 1 : s[j] = text[j]
          <6>1. /\ SubSeq(text, 1, i - 1) \in Seq(Byte) /\ Len(SubSeq(text, 1, i - 1)) = i - 1
                /\ \A j \in 1..i - 1 : SubSeq(text, 1, i - 1)[j] = text[j]
            BY <5>1, FirstOfSeq
          <6> QED
            BY <6>1
        <5>3. at \in 1..i - 1 /\ DOMAIN s = 1..i - 1
          BY <2>2, <4>2, <5>2
        <5>4. s[at] \in Chars
          BY <3>2, <5>2, <5>3 DEF IsNodeName
        <5> QED
          BY <2>3, <5>2, <5>3, <5>4, CharFacts
      <4> QED
        BY <2>2, <4>1, <4>2
    <3> QED
      BY <2>2, <2>3, <2>4, <3>1, <3>2 DEF IsName
  <2> QED
    BY <1>2, <2>1, <2>3, <2>5, NodeNameFacts, AddressFacts DEF IsShort, HasGoodParts
<1> QED
  BY <1>1, <1>2

(* A node-name and a text after an "@" are the parts of what they make.    *)
LEMMA PartsOfJoined ==
  ASSUME NEW p \in Seq(0..255), NEW q \in Seq(0..255), \A i \in 1..Len(p) : p[i] # At
  PROVE  PartsOf(Append(p, At) \o q) = <<p, q>>
<1> DEFINE S == 0..255
<1>1. PICK n \in Nat, m \in Nat : n = Len(p) /\ m = Len(q)
  BY LenProperties
<1>2. At \in S
  BY DEF At
<1> HIDE DEF S
<1>3. PICK a \in Seq(S) : a = Append(p, At) /\ Len(a) = n + 1 /\ a[n + 1] = At
                          /\ \A i \in 1..n : a[i] = p[i]
  <2>1. p \in Seq(S)
    BY DEF S
  <2>2. /\ Append(p, At) \in Seq(S) /\ Len(Append(p, At)) = Len(p) + 1
        /\ \A i \in 1..Len(p) : Append(p, At)[i] = p[i]
        /\ Append(p, At)[Len(p) + 1] = At
    BY <1>2, <2>1, AppendProperties
  <2> QED
    BY <1>1, <2>2
<1>4. PICK d \in Seq(S) : /\ d = a \o q /\ Len(d) = (n + 1) + m
                          /\ \A i \in 1..(n + 1) + m :
                               d[i] = IF i <= n + 1 THEN a[i] ELSE q[i - (n + 1)]
  <2>1. q \in Seq(S)
    BY DEF S
  <2>2. /\ a \o q \in Seq(S) /\ Len(a \o q) = Len(a) + Len(q)
        /\ \A i \in 1..Len(a) + Len(q) :
             (a \o q)[i] = IF i <= Len(a) THEN a[i] ELSE q[i - Len(a)]
    BY <2>1, ConcatProperties
  <2>3. /\ a \o q \in Seq(S) /\ Len(a \o q) = (n + 1) + m
        /\ \A i \in 1..(n + 1) + m : (a \o q)[i] = IF i <= n + 1 THEN a[i] ELSE q[i - (n + 1)]
    BY <1>1, <1>3, <2>2
  <2> QED
    BY <2>3
<1>5. d[n + 1] = At /\ \A i \in 1..n : d[i] = p[i] /\ d[i] # At
  BY <1>1, <1>3, <1>4
<1>6. \A i \in 1..m : d[(n + 1) + i] = q[i]
  <2>1. ASSUME NEW i \in 1..m PROVE d[(n + 1) + i] = q[i]
    <3>1. /\ (n + 1) + i \in 1..(n + 1) + m /\ ~ ((n + 1) + i <= n + 1)
          /\ ((n + 1) + i) - (n + 1) = i
      OBVIOUS
    <3> QED
      BY <1>4, <3>1
  <2> QED
    BY <2>1
<1>7. FirstIndex(d, At) = n + 1
  <2>1. PICK f : f = FirstIndex(d, At)
    OBVIOUS
  <2>2. \/ f = 0 /\ \A i \in 1..Len(d) : d[i] # At
        \/ f \in 1..Len(d) /\ d[f] = At /\ \A i \in 1..f - 1 : d[i] # At
    BY <2>1, FirstIndexFacts
  <2>3. n + 1 \in 1..Len(d)
    BY <1>4
  <2>4. f \in 1..Len(d) /\ d[f] = At /\ \A i \in 1..f - 1 : d[i] # At
    BY <1>5, <2>2, <2>3
  <2>5. ~ (f < n + 1)
    BY <1>4, <1>5, <2>4
  <2>6. ~ (n + 1 < f)
    BY <1>4, <1>5, <2>4
  <2>7. f \in Nat
    BY <1>4, <2>4
  <2> QED
    BY <2>1, <2>5, <2>6, <2>7
<1>8. SubSeq(d, 1, n) = p
  <2>1. n \in 0..Len(d)
    BY <1>4
  <2>2. /\ SubSeq(d, 1, n) \in Seq(S) /\ Len(SubSeq(d, 1, n)) = n
        /\ \A i \in 1..n : SubSeq(d, 1, n)[i] = d[i]
    BY <2>1, FirstOfSeq
  <2>3. PICK b \in Seq(S) : b = SubSeq(d, 1, n) /\ Len(b) = n /\ \A i \in 1..n : b[i] = d[i]
    BY <2>2
  <2>4. p \in Seq(S) /\ Len(b) = Len(p) /\ \A i \in 1..Len(b) : b[i] = p[i]
    BY <1>1, <1>5, <2>3 DEF S
  <2>5. b = p
    BY <2>4, SeqEqual
  <2> QED
    BY <2>3, <2>5
<1>9. SubSeq(d, (n + 1) + 1, Len(d)) = q
  <2>1. n + 1 \in 0..Len(d) /\ Len(d) - (n + 1) = m
    BY <1>4
  <2>2. PICK k \in Nat : k = n + 1
    OBVIOUS
  <2>3. /\ SubSeq(d, k + 1, Len(d)) \in Seq(S) /\ Len(SubSeq(d, k + 1, Len(d))) = Len(d) - k
        /\ \A i \in 1..Len(d) - k : SubSeq(d, k + 1, Len(d))[i] = d[k + i]
    BY <2>1, <2>2, LastOfSeq
  <2>4. PICK b \in Seq(S) : /\ b = SubSeq(d, k + 1, Len(d)) /\ Len(b) = m
                            /\ \A i \in 1..m : b[i] = d[k + i]
    BY <2>1, <2>2, <2>3
  <2>5. q \in Seq(S) /\ Len(b) = Len(q) /\ \A i \in 1..Len(b) : b[i] = q[i]
    BY <1>1, <1>6, <2>2, <2>4 DEF S
  <2>6. b = q
    BY <2>5, SeqEqual
  <2> QED
    BY <2>2, <2>4, <2>6
<1>10. <<p, q>> # None
  <2>1. <<p, q>> \in Seq(Seq(0..255))
    OBVIOUS
  <2> QED
    BY <2>1, AnswerAssumption
<1>11. SplitAtFirst(d, At) = <<p, q>>
  <2>1. (n + 1) - 1 = n /\ n + 1 # 0
    OBVIOUS
  <2> QED
    BY <1>7, <1>8, <1>9, <2>1 DEF SplitAtFirst, Split
<1> QED
  BY <1>3, <1>4, <1>10, <1>11 DEF PartsOf

(* A name that was read, printed and read again, is the same name.         *)
NameComesBack(text) ==
  /\ IsName(text)
  /\ Display(NameRef(text)) =
       IF HasAddress(text)
       THEN Append(PartsOf(text)[1], At) \o Shortest(PartsOf(text)[2]) ELSE text
  /\ FirstError(NameChecks(Display(NameRef(text)))) = "none"
  /\ NameRef(Display(NameRef(text))) = NameRef(text)

LEMMA NameIsItsText ==
  ASSUME NEW text \in CStrings, FirstError(NameChecks(text)) = "none"
  PROVE  NameComesBack(text)
<1>1. HasNoComma(text) /\ IsShort(text) /\ HasGoodParts(text) /\ IsName(text)
  <2>1. HasNoComma(text) /\ IsShort(text) /\ HasGoodParts(text)
    BY NameVerdict
  <2> QED
    BY <2>1, NameIsJudged
<1>2. CASE ~ HasAddress(text)
  <2>1. NameRef(text) = [node_name |-> text, unit_address |-> None]
    BY <1>2, PartsFacts DEF NameRef
  <2>2. Display(NameRef(text)) = text
    BY <2>1 DEF Display
  <2> QED
    BY <1>1, <1>2, <2>2 DEF NameComesBack
<1>3. CASE HasAddress(text)
  <2>1. PICK at, p, q :
          /\ AreSides(text, At, at, p, q) /\ p = PartsOf(text)[1]
          /\ q = PartsOf(text)[2]
    BY <1>3, PartsFacts
  <2>2. p \in CStrings /\ q \in CStrings
    BY <2>1 DEF AreSides
  <2>3. /\ Len(p) <= MaxNodeNameLength /\ ToSet(p) \subseteq Chars
        /\ FromStrRadix(q) # None
    BY <1>1, <1>3, <2>1 DEF IsShort, HasGoodParts
  <2>4. PICK n \in Nat, s \in Seq(HexDigits) :
          /\ n = FromStrRadix(q) /\ s = Shortest(q) /\ Hex(n) = s /\ FromStrRadix(s) = n
    <3>1. FromStrRadix(q) \in Nat /\ Shortest(q) \in Seq(HexDigits)
      BY <2>2, <2>3, AddressFacts
    <3> QED
      BY <2>2, <2>3, <3>1, AddressFacts
  <2>5. n # None
    BY AnswersDiffer
  <2>6. NameRef(text) = [node_name |-> p, unit_address |-> n]
    BY <1>3, <2>1, <2>4 DEF NameRef
  <2>7. PICK d : d = Append(p, At) \o s
    OBVIOUS
  <2>8. Display(NameRef(text)) = d
    BY <2>4, <2>5, <2>6, <2>7 DEF Display
  <2>9. PartsOf(d) = <<p, s>>
    <3>1. p \in Seq(0..255)
      <4>1. p \in Seq(Byte \ {0}) /\ Byte \ {0} \subseteq 0..255
        BY <2>2, ByteAssumption DEF CStrings
      <4> QED
        BY <4>1, SeqMonotonic
    <3>2. s \in Seq(0..255)
      <4>1. HexDigits \subseteq 0..255
        BY CharFacts
      <4> QED
        BY <4>1, SeqMonotonic
    <3>3. \A i \in 1..Len(p) : p[i] # At
      <4>1. DOMAIN p = 1..Len(p)
        BY <2>2 DEF CStrings
      <4>2. \A i \in 1..Len(p) : p[i] \in ToSet(p)
        BY <4>1 DEF ToSet
      <4> QED
        BY <2>3, <4>2, CharFacts
    <3> QED
      BY <2>7, <3>1, <3>2, <3>3, PartsOfJoined
  <2>10. HasAddress(d) /\ PartsOf(d)[1] = p /\ PartsOf(d)[2] = s
    BY <2>9 DEF HasAddress
  <2>11. Comma \notin ToSet(s)
    <3>1. DOMAIN s = 1..Len(s) /\ \A i \in 1..Len(s) : s[i] \in HexDigits
      BY ElementOfSeq, LenProperties
    <3> QED
      BY <3>1, DigitFacts DEF ToSet
  <2>12. HasNoComma(d) /\ IsShort(d) /\ HasGoodParts(d)
    BY <2>3, <2>4, <2>5, <2>10, <2>11 DEF HasNoComma, IsShort, HasGoodParts
  <2>13. FirstError(NameChecks(d)) = "none"
    BY <2>12, NameVerdict
  <2>14. NameRef(d) = [node_name |-> p, unit_address |-> n]
    BY <2>4, <2>10 DEF NameRef
  <2>15. d = Append(PartsOf(text)[1], At) \o Shortest(PartsOf(text)[2])
    BY <2>1, <2>4, <2>7
  <2> QED
    BY <1>1, <1>3, <2>6, <2>8, <2>13, <2>14, <2>15 DEF NameComesBack
<1> QED
  BY <1>2, <1>3

(* What is left of the block where the reading stopped.                    *)
LEMMA NextWordsFacts ==
  ASSUME NEW ws \in Seq(Word), tokens \in Seq(ReadTokens),
         EncodeAll(tokens) \o ws = dt_struct
  PROVE  NextWords = ws
<1>1. PICK a \in Seq(Word), n \in Nat : a = EncodeAll(tokens) /\ n = Len(a)
  <2>1. EncodeAll(tokens) \in Seq(Word)
    BY EncodeAllInSeq
  <2> QED
    BY <2>1, LenProperties
<1>2. PICK m \in Nat : m = Len(ws)
  BY LenProperties
<1> DEFINE S == Word
<1>3. a \in Seq(S) /\ ws \in Seq(S)
  OBVIOUS
<1> HIDE DEF S
<1>4. PICK d \in Seq(S) : /\ d = dt_struct /\ Len(d) = n + m
                          /\ \A i \in 1..n + m : d[i] = IF i <= n THEN a[i] ELSE ws[i - n]
  <2>1. /\ a \o ws \in Seq(S) /\ Len(a \o ws) = Len(a) + Len(ws)
        /\ \A i \in 1..Len(a) + Len(ws) :
             (a \o ws)[i] = IF i <= Len(a) THEN a[i] ELSE ws[i - Len(a)]
    BY <1>3, ConcatProperties
  <2>2. a \o ws = dt_struct
    BY <1>1
  <2> QED
    BY <1>1, <1>2, <2>1, <2>2
<1>5. PICK b \in Seq(S) : /\ b = SubSeq(d, n + 1, Len(d)) /\ Len(b) = m
                          /\ \A i \in 1..m : b[i] = d[n + i]
  <2>1. n \in 0..Len(d) /\ Len(d) - n = m
    BY <1>4
  <2>2. /\ SubSeq(d, n + 1, Len(d)) \in Seq(S) /\ Len(SubSeq(d, n + 1, Len(d))) = Len(d) - n
        /\ \A i \in 1..Len(d) - n : SubSeq(d, n + 1, Len(d))[i] = d[n + i]
    BY <2>1, LastOfSeq
  <2> QED
    BY <2>1, <2>2
<1>6. \A i \in 1..m : b[i] = ws[i]
  <2>1. ASSUME NEW i \in 1..m PROVE b[i] = ws[i]
    <3>1. n + i \in 1..n + m /\ ~ (n + i <= n) /\ (n + i) - n = i
      OBVIOUS
    <3> QED
      BY <1>4, <1>5, <3>1
  <2> QED
    BY <2>1
<1>7. b = ws
  BY <1>2, <1>3, <1>5, <1>6, SeqEqual
<1> QED
  BY <1>1, <1>4, <1>5, <1>7 DEF NextWords

(* A property has the name that begins at its offset.                      *)
LEMMA PropertyNames ==
  ASSUME StreamInv, NEW t \in ToSet(tokens), t.kind = "Prop"
  PROVE  /\ Number(t.offset) + Len(t.name) < Len(strings)
         /\ IsPrefix(Append(t.name, 0), SubSeq(strings, Number(t.offset) + 1, Len(strings)))
         /\ 0 \notin ToSet(t.name)
<1>1. PICK i \in 1..Len(tokens) : t = tokens[i]
  BY DEF StreamInv, ToSet
<1>2. t \in PropTokens
  <2>1. t \in AnyToken
    BY <1>1, ElementOfSeq DEF StreamInv, ReadTokens
  <2> QED
    BY <2>1 DEF AnyToken, BeginTokens, BeginToken
<1>3. PICK o \in Nat, s \in Seq(Byte \ {0}) :
        o = Number(t.offset) /\ s = t.name /\ s = NameAt(o)
  <2>1. t.name = NameAt(Number(t.offset))
    BY <1>1 DEF StreamInv, NamesFrom, NameIn, NameAt
  <2>2. t.name \in Seq(Byte \ {0}) /\ Number(t.offset) \in Nat
    BY <1>2, WordFacts DEF PropTokens
  <2> QED
    BY <2>1, <2>2
<1>4. s # None
  BY AnswersDiffer
<1>5. PICK n \in Nat, l \in Nat : n = Len(s) /\ l = Len(strings) /\ strings \in Seq(Byte)
  BY LenProperties DEF StreamInv, HeaderInv
<1>6. /\ o + n < l /\ \A j \in 1..n : s[j] = strings[o + j]
      /\ strings[o + n + 1] = 0
  BY <1>3, <1>4, <1>5, NameAtFacts DEF StreamInv
<1>7. PICK a \in Seq(Byte) : /\ a = Append(s, 0) /\ Len(a) = n + 1 /\ a[n + 1] = 0
                             /\ \A j \in 1..n : a[j] = s[j]
  <2>1. s \in Seq(Byte) /\ 0 \in Byte
    BY ByteAssumption
  <2>2. /\ Append(s, 0) \in Seq(Byte) /\ Len(Append(s, 0)) = Len(s) + 1
        /\ \A j \in 1..Len(s) : Append(s, 0)[j] = s[j]
        /\ Append(s, 0)[Len(s) + 1] = 0
    BY <2>1, AppendProperties
  <2> QED
    BY <1>5, <2>2
<1>8. PICK b \in Seq(Byte) : /\ b = SubSeq(strings, o + 1, l) /\ Len(b) = l - o
                             /\ \A j \in 1..l - o : b[j] = strings[o + j]
  <2>1. o \in 0..Len(strings)
    BY <1>5, <1>6
  <2>2. /\ SubSeq(strings, o + 1, l) \in Seq(Byte) /\ Len(SubSeq(strings, o + 1, l)) = l - o
        /\ \A j \in 1..l - o : SubSeq(strings, o + 1, l)[j] = strings[o + j]
    BY <1>5, <2>1, LastOfSeq
  <2> QED
    BY <2>2
<1>9. Len(a) <= Len(b) /\ \A j \in 1..Len(a) : a[j] = b[j]
  <2>1. n + 1 <= l - o
    BY <1>6
  <2>2. ASSUME NEW j \in 1..n + 1 PROVE a[j] = b[j]
    <3>1. b[j] = strings[o + j]
      BY <1>8, <2>1
    <3>2. CASE j = n + 1
      BY <1>6, <1>7, <3>1, <3>2
    <3>3. CASE j # n + 1
      <4>1. j \in 1..n
        BY <3>3
      <4> QED
        BY <1>6, <1>7, <3>1, <4>1
    <3> QED
      BY <3>2, <3>3
  <2> QED
    BY <1>7, <1>8, <2>1, <2>2
<1>10. IsPrefix(a, b)
  BY <1>9, IsPrefixFacts
<1>11. 0 \notin ToSet(s)
  BY DEF ToSet
<1> QED
  BY <1>3, <1>5, <1>6, <1>7, <1>8, <1>10, <1>11

(* A name of a node is its text in the structure block but for the sign,   *)
(* zeros and capitals of its address, printed and read again it is itself, *)
(* and it is refused only if it is no name: for names and addresses of any *)
(* length (`NameRef::try_from`, src/src/node_name.rs).  A name of a        *)
(* property is a string of the strings block.                              *)
THEOREM NamesExact == BlobSpec => []NamesAreTheirText
<1>1. StreamInv => NamesAreTheirText
  <2> SUFFICES ASSUME StreamInv PROVE NamesAreTheirText
    OBVIOUS
  <2>1. ASSUME NEW t \in ToSet(tokens), t.kind = "BeginNode"
        PROVE  NameComesBack(t.text) /\ t.name = NameRef(t.text)
    <3>1. PICK i \in 1..Len(tokens) : t = tokens[i]
      BY DEF StreamInv, ToSet
    <3>2. t \in AnyToken
      BY <3>1, ElementOfSeq DEF StreamInv, ReadTokens
    <3>3. PICK text \in NameTexts : t = BeginToken(text)
      BY <2>1, <3>2 DEF AnyToken, BeginTokens, PropTokens
    <3>4. text \in CStrings /\ FirstError(NameChecks(text)) = "none"
      BY <3>3 DEF NameTexts, CStrings
    <3>5. t.text = text /\ t.name = NameRef(text)
      BY <3>3 DEF BeginToken
    <3> QED
      BY <3>4, <3>5, NameIsItsText
  <2>2. ASSUME error \in {"TooLong", "InvalidCharacters"}
        PROVE  ~ IsName(ConsumeCStr([bytes |-> Tail(NextWords), padding |-> 0]).out)
    <3>1. StoppedAt(tokens, dt_struct, error)
      BY <2>2 DEF StreamInv
    <3>2. PICK ws \in Seq(Word) : EncodeAll(tokens) \o ws = dt_struct /\ BadName(ws)
      BY <2>2, <3>1 DEF StoppedAt
    <3>3. NextWords = ws
      BY <3>2, NextWordsFacts DEF StreamInv
    <3>4. PICK text \in Seq(Byte \ {0}) :
            /\ ConsumeCStr([bytes |-> Tail(ws), padding |-> 0]).out = text
            /\ ~ (IsShort(text) /\ HasGoodParts(text))
      BY <3>2 DEF BadName
    <3>5. ~ IsName(text)
      BY <3>4, NameIsJudged DEF CStrings
    <3> QED
      BY <3>3, <3>4, <3>5
  <2>3. NodeNamesAreTheirText
    BY <2>1, <2>2 DEF NodeNamesAreTheirText, NameComesBack
  <2> QED
    BY <2>3, PropertyNames DEF NamesAreTheirText
<1> QED
  BY <1>1, StreamHolds, PTL
-----------------------------------------------------------------------------
(* What is written of a token has at least the word that names its kind.   *)
LEMMA TokensHaveWords ==
  ASSUME NEW t \in AnyToken
  PROVE  \E S : Encode(t) \in Seq(S) /\ Len(Encode(t)) > 0
<1>1. CASE t \in BeginTokens
  <2>1. PICK text \in NameTexts : t = BeginToken(text)
    BY <1>1 DEF BeginTokens
  <2>2. PICK n \in Nat : n = DivCeil(Len(text) + 1, ElementWidth)
    <3>1. text \in Seq(Byte \ {0})
      BY DEF NameTexts
    <3>2. PICK l \in Nat : l = Len(text)
      BY <3>1, LenProperties
    <3>3. DivCeil(l + 1, ElementWidth) = (l + 1 + 4 - 1) \div 4
      BY DEF DivCeil, ElementWidth
    <3>4. (l + 1 + 4 - 1) \div 4 \in Nat
      OBVIOUS
    <3> QED
      BY <3>2, <3>3, <3>4
  <2> DEFINE word(w) == [i \in 1..ElementWidth |->
                           LET at == (w - 1) * ElementWidth + i
                           IN  IF at <= Len(text) THEN text[at] ELSE 0]
             S == {word(w) : w \in 1..n} \cup {BEGIN_NODE}
  <2>3. StringWords(text) = [w \in 1..n |-> word(w)]
    BY <2>2 DEF StringWords
  <2>4. \A w \in 1..n : word(w) \in S
    OBVIOUS
  <2>5. BEGIN_NODE \in S
    OBVIOUS
  <2> HIDE DEF word, S
  <2>6. PICK a \in Seq(S), b \in Seq(S) :
          a = <<BEGIN_NODE>> /\ Len(a) = 1 /\ b = StringWords(text) /\ Len(b) = n
    <3>1. <<BEGIN_NODE>> \in Seq(S) /\ Len(<<BEGIN_NODE>>) = 1
      BY <2>5
    <3>2. StringWords(text) \in Seq(S) /\ Len(StringWords(text)) = n
      BY <2>3, <2>4
    <3> QED
      BY <3>1, <3>2
  <2>7. a \o b \in Seq(S) /\ Len(a \o b) = Len(a) + Len(b)
    BY ConcatProperties
  <2>8. Encode(t) = a \o b
    BY <2>1, <2>6 DEF Encode, BeginToken
  <2>9. Encode(t) \in Seq(S) /\ Len(Encode(t)) > 0
    BY <2>6, <2>7, <2>8
  <2> QED
    BY <2>9
<1>2. CASE t \in PropTokens
  <2> DEFINE front == <<PROP, LengthWord(LenBytes(t.value)), t.offset>>
             S == {front[i] : i \in 1..3} \cup Word
  <2>1. t.value.bytes \in Seq(Word) /\ t.kind = "Prop"
    BY <1>2 DEF PropTokens, Slices
  <2>2. front \in Seq(S) /\ Len(front) = 3
    OBVIOUS
  <2>3. t.value.bytes \in Seq(S)
    BY <2>1, SeqMonotonic
  <2>4. Encode(t) = front \o t.value.bytes
    BY <2>1 DEF Encode
  <2> HIDE DEF front, S
  <2>5. PICK a \in Seq(S), b \in Seq(S) : a = front /\ b = t.value.bytes /\ Len(a) = 3
    BY <2>2, <2>3
  <2>6. a \o b \in Seq(S) /\ Len(a \o b) = Len(a) + Len(b) /\ Len(b) \in Nat
    BY ConcatProperties
  <2>7. Encode(t) \in Seq(S) /\ Len(Encode(t)) > 0
    BY <2>4, <2>5, <2>6
  <2> QED
    BY <2>7
<1>3. CASE t \in [kind : {"EndNode", "Nop", "End"}]
  <2>1. t.kind \in {"EndNode", "Nop", "End"}
    BY <1>3
  <2>2. Encode(t) \in {<<END_NODE>>, <<NOP>>, <<END>>}
    BY <2>1 DEF Encode
  <2>3. PICK x : Encode(t) = <<x>>
    BY <2>2
  <2>4. <<x>> \in Seq({x}) /\ Len(<<x>>) = 1
    OBVIOUS
  <2>5. Encode(t) \in Seq({x}) /\ Len(Encode(t)) > 0
    BY <2>3, <2>4
  <2> QED
    BY <2>5
<1> QED
  BY <1>1, <1>2, <1>3 DEF AnyToken

(* Every step of the loop over tokens takes at least one word of the block *)
(* or is its last, so that it makes no more steps than the block has       *)
(* words: the part of `BlobTerminates` that is not fairness                *)
(* (`iterate_bytes`, src/src/dtb.rs).                                      *)
TakesAWord ==
  phase = "tokens" => error' # "none" \/ Len(bytes'.bytes) < Len(bytes.bytes)

THEOREM TokensAreNotEmpty == BlobSpec => [][TakesAWord]_blobVars
<1>1. HeaderInv /\ [BlobNext]_blobVars => [TakesAWord]_blobVars
  <2> SUFFICES ASSUME HeaderInv, BlobNext, phase = "tokens", error' = "none"
               PROVE  Len(bytes'.bytes) < Len(bytes.bytes)
    BY DEF TakesAWord
  <2>1. ReadToken
    BY DEF BlobNext, ReadHeader
  <2>2. Yielded
    BY <2>1, TokenRead DEF Failed
  <2>3. PICK t \in AnyToken : Took(bytes, Encode(t), bytes')
    BY <2>2 DEF Yielded
  <2>4. PICK a \in Seq(Word), b \in Seq(Word) :
          a = Encode(t) /\ b = bytes'.bytes /\ bytes.bytes = a \o b
    <3>1. Encode(t) \in Seq(Word) /\ bytes'.bytes \in Seq(Word)
      BY <2>3, WholeFacts DEF Took
    <3> QED
      BY <2>3, <3>1 DEF Took
  <2>5. Len(a) > 0
    BY <2>4, TokensHaveWords
  <2>6. Len(a \o b) = Len(a) + Len(b) /\ Len(a) \in Nat /\ Len(b) \in Nat
    BY ConcatProperties, LenProperties
  <2> QED
    BY <2>4, <2>5, <2>6
<1> QED
  BY <1>1, HeaderHolds, PTL DEF BlobSpec

(* The integers read so far.                                               *)
IntegersRead == Len(list) * Len(counts) + Len(group)

LEMMA OneMoreInteger ==
  ASSUME ReaderInv, Next, out' = "reading"
  PROVE  IntegersRead' = IntegersRead + 1
<1> DEFINE r == ConsumeCells(rest, counts[Len(group) + 1])
           more == Append(group, r.out)
<1>1. ReadCells
  BY DEF Next, Refuse, Finish
<1>2. /\ r.out \notin {None, Panic} /\ counts' = counts
      /\ group' = IF IsGroup(more) THEN <<>> ELSE more
      /\ list' = IF IsGroup(more) THEN Append(list, more) ELSE list
  BY <1>1 DEF ReadCells, inputs
<1>3. PICK l \in Nat, n \in Nat, k \in Nat :
        l = Len(list) /\ n = Len(counts) /\ k = Len(group)
  BY ReaderFacts DEF ReaderInv
<1> HIDE DEF r
<1>4. Len(more) = k + 1
  <2>1. group \in Seq(Word \X Word)
    BY DEF ReaderInv, TypeOK
  <2> QED
    BY <1>3, <2>1
<1> HIDE DEF more
<1>5. CASE IsGroup(more)
  <2>1. n = k + 1
    BY <1>3, <1>4, <1>5 DEF IsGroup
  <2>2. Len(list') = l + 1
    <3>1. list \in Seq([1..Len(counts) -> Word \X Word])
      BY DEF ReaderInv, TypeOK
    <3> QED
      BY <1>2, <1>3, <1>5, <3>1
  <2>3. Len(group') = 0
    BY <1>2, <1>5
  <2>4. (l + 1) * n = l * n + n
    OBVIOUS
  <2>5. IntegersRead' = (l + 1) * n
    BY <1>2, <1>3, <2>2, <2>3 DEF IntegersRead
  <2>6. IntegersRead = l * n + k /\ l * n \in Nat
    BY <1>3 DEF IntegersRead
  <2> QED
    BY <2>1, <2>4, <2>5, <2>6
<1>6. CASE ~ IsGroup(more)
  <2>1. list' = list /\ Len(group') = k + 1
    BY <1>2, <1>4, <1>6
  <2>2. IntegersRead' = l * n + (k + 1) /\ IntegersRead = l * n + k /\ l * n \in Nat
    BY <1>2, <1>3, <2>1 DEF IntegersRead
  <2> QED
    BY <2>2
<1> QED
  BY <1>5, <1>6

LEMMA FewerBytes ==
  ASSUME ModelsInv, ReadModel, out' = "reading"
  PROVE  Len(left') < Len(left)
<1>1. PICK bs \in Seq(Byte) : bs = left
  BY DEF ModelsInv, Reached, AreLastBytes
<1> DEFINE s == CStr(bs)
<1>2. bs # <<>> /\ Len(bs) \in Nat \ {0}
  <2>1. bs # <<>>
    BY <1>1 DEF ReadModel
  <2> QED
    BY <2>1, EmptySeq, LenProperties
<1>3. \/ s = <<>> /\ left' = Tail(bs)
      \/ s \notin {None, <<>>} /\ left' = SubSeq(bs, LengthOf(Model(s)) + 2, Len(bs))
  BY <1>1 DEF ReadModel
<1> HIDE DEF s
<1>4. CASE s = <<>> /\ left' = Tail(bs)
  <2>1. Len(Tail(bs)) = Len(bs) - 1
    BY <1>2
  <2> QED
    BY <1>1, <1>2, <1>4, <2>1
<1>5. CASE s \notin {None, <<>>} /\ left' = SubSeq(bs, LengthOf(Model(s)) + 2, Len(bs))
  <2>1. s \in CStrings
    BY <1>5, CStrFacts DEF CStrings, s
  <2>2. PICK k \in Nat : k = LengthOf(Model(s))
    BY <2>1, ModelFacts, TextsAreTexts
  <2>3. Len(SubSeq(bs, k + 2, Len(bs))) < Len(bs)
    <3>1. PICK l \in Nat \ {0} : l = Len(bs)
      BY <1>2
    <3>2. \A i \in k + 2..l : bs[i] \in Byte
      BY <3>1, ElementOfSeq
    <3>3. Len(SubSeq(bs, k + 2, l)) = IF k + 2 <= l THEN l - (k + 2) + 1 ELSE 0
      BY <3>2, SubSeqProperties
    <3>4. (IF k + 2 <= l THEN l - (k + 2) + 1 ELSE 0) < l
      BY <3>1
    <3> QED
      BY <3>1, <3>3, <3>4
  <2> QED
    BY <1>1, <1>5, <2>2, <2>3
<1> QED
  BY <1>3, <1>4, <1>5

(* Every step of a conversion is its last, or reads one more integer, or   *)
(* leaves fewer bytes: also for integers without cells and empty strings.  *)
(* With the bound on the integers below this is the part of `Terminates`   *)
(* that is not fairness (src/src/parse.rs, src/src/property.rs).           *)
Progresses ==
  \/ out' # "reading"
  \/ IntegersRead' = IntegersRead + 1
  \/ Len(left') < Len(left)

THEOREM ConversionsProgress == ValuesSpec => [][Progresses]_valuesVars
<1>1. ValuesInv /\ [ValuesNext]_valuesVars => [Progresses]_valuesVars
  <2> SUFFICES ASSUME ValuesInv, ValuesNext, out' = "reading"
               PROVE  IntegersRead' = IntegersRead + 1 \/ Len(left') < Len(left)
    BY DEF Progresses
  <2>1. CASE ReadList
    <3>1. ReaderInv
      BY <2>1 DEF ReadList, ValuesInv, NumberInv, TextInv, ModelsInv, Numbers, Kinds
    <3> QED
      BY <2>1, <3>1, OneMoreInteger DEF ReadList
  <2>2. CASE ReadModel
    <3>1. ModelsInv
      BY <2>2 DEF ReadModel, ValuesInv, ReaderInv, NumberInv, TextInv, Numbers, Kinds
    <3> QED
      BY <2>2, <3>1, FewerBytes
  <2>3. ~ ReadNumber /\ ~ ReadString /\ ~ ModelsRead
    BY DEF ReadNumber, ReadString, ModelsRead
  <2> QED
    BY <2>1, <2>2, <2>3 DEF ValuesNext
<1> QED
  BY <1>1, ValuesHold, PTL DEF ValuesSpec

(* While a loop over groups of cells goes on, it has read no more groups   *)
(* than the value has words, and one, even if all integers but one of a    *)
(* group have no cells: it comes to an end.                                *)
IntegersBounded ==
  loop \in {"checked", "pairs"} /\ Looping =>
    IntegersRead <= (Len(value.bytes) + 1) * Len(counts)

THEOREM IntegersAlwaysBounded == ValuesSpec => []IntegersBounded
<1>1. ValuesInv => IntegersBounded
  <2> SUFFICES ASSUME ValuesInv, loop \in {"checked", "pairs"}, Looping
               PROVE  IntegersRead <= (Len(value.bytes) + 1) * Len(counts)
    BY DEF IntegersBounded
  <2>1. ReaderInv
    BY DEF ValuesInv, NumberInv, TextInv, ModelsInv, Numbers, Kinds
  <2>2. /\ TypeOK /\ LengthChecked /\ Positioned
        /\ loop = "pairs" => Len(counts) = 2 /\ counts[2] > 0
    BY <2>1 DEF ReaderInv, Looping
  <2>3. PICK l \in Nat, n \in Nat, k \in Nat, b \in Nat, total \in Nat :
          /\ l = Len(list) /\ n = Len(counts) /\ k = Len(group)
          /\ b = Len(value.bytes) /\ total = Total
    BY <2>2, ReaderFacts
  <2>4. total > 0 /\ n > 0
    BY <2>2, <2>3, GroupsHaveCells
  <2>5. l * total <= b
    <3>1. CellsOf[k] \in Nat
      <4>1. counts \in Seq(0..255) /\ k \in 0..n
        BY <2>2, <2>3, ReaderFacts, EmptySeq DEF TypeOK
      <4> QED
        BY <2>3, <4>1, CellsOfSteps
    <3>2. l * total + CellsOf[k] <= b
      BY <2>2, <2>3 DEF Positioned, Position
    <3>3. l * total \in Nat
      OBVIOUS
    <3> QED
      BY <3>1, <3>2, <3>3
  <2>6. l <= b
    <3>1. l <= l * total
      BY <2>4
    <3> QED
      BY <2>5, <3>1
  <2>7. k <= n
    BY <2>2, <2>3, EmptySeq DEF TypeOK
  <2>8. l * n <= b * n
    BY <2>6
  <2>9. (b + 1) * n = b * n + n /\ l * n \in Nat /\ b * n \in Nat
    OBVIOUS
  <2>10. IntegersRead = l * n + k
    BY <2>3 DEF IntegersRead
  <2> QED
    BY <2>3, <2>7, <2>8, <2>9, <2>10
<1> QED
  BY <1>1, ValuesHold, PTL
=============================================================================
