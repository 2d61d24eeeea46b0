----------------------------- MODULE ByteSlice -----------------------------
(***************************************************************************)
(* `U32ByteSlice` (src/src/parse.rs): big-endian 32-bit words, of which    *)
(* the last may end in padding bytes, and the methods that consume them    *)
(* from the front.  A word is the tuple of its four bytes, in memory       *)
(* order.                                                                  *)
(*                                                                         *)
(* A method that takes `&mut self` is an operator that returns what it     *)
(* answers, `out`, and what is left of the slice, `rest`.                  *)
(***************************************************************************)
EXTENDS Integers, Sequences, SequencesExt

CONSTANTS Byte,   (* the values of a byte: 0 and any others                *)
          Panic,  (* the answer of a method that does not return           *)
          None    (* the answer `None`                                     *)

ASSUME ByteAssumption == 0 \in Byte /\ Byte \subseteq 0..255

ElementWidth == 4

Word == [1..ElementWidth -> Byte]
ZeroWord == <<0, 0, 0, 0>>

Slices == [bytes : Seq(Word), padding : 0..ElementWidth - 1]

(* The two answers are no number, word, pair of words, slice, string or    *)
(* list of strings, of whatever bytes.                                     *)
ASSUME AnswerAssumption ==
  /\ None # Panic
  /\ {None, Panic} \cap (Nat \cup Word \cup (Word \X Word) \cup Slices
                           \cup Seq(0..255) \cup Seq(Seq(0..255))) = {}

DivCeil(n, d) == (n + d - 1) \div d

(* Are the last `n` bytes of the word zero?                                *)
EndsInZeros(word, n) == \A i \in ElementWidth - n + 1..ElementWidth : word[i] = 0

(* U32ByteSlice::new.                                                      *)
New(words, length) ==
  LET padding == Len(words) * ElementWidth - length
  IN  IF /\ DivCeil(length, ElementWidth) = Len(words)
         /\ words # <<>> => EndsInZeros(Last(words), padding)
      THEN [bytes |-> words, padding |-> padding]
      ELSE None

(* What `new` makes: the bytes of the padding are zero.                    *)
NewSlices ==
  {s \in Slices : IF s.bytes = <<>> THEN s.padding = 0 ELSE EndsInZeros(Last(s.bytes), s.padding)}

IsEmpty(s) == s.bytes = <<>>
LenBytes(s) == Len(s.bytes) * ElementWidth - s.padding

RemainingU32sPadded(s) == Len(s.bytes)

(* The whole words left, the last one not counted if it is padded.         *)
RemainingU32s(s) ==
  IF s.padding > 0 /\ s.bytes # <<>> THEN Len(s.bytes) - 1 ELSE Len(s.bytes)

(* The byte at index `i`, from one: the conversion to `&[u8]`.             *)
ByteAt(s, i) == s.bytes[((i - 1) \div ElementWidth) + 1][((i - 1) % ElementWidth) + 1]

Answer(out, rest) == [out |-> out, rest |-> rest]

(* What is left after `n` words.                                           *)
Drop(s, n) == [s EXCEPT !.bytes = SubSeq(@, n + 1, Len(@))]

ConsumeU32(s) ==
  IF RemainingU32s(s) >= 1 THEN Answer(s.bytes[1], Drop(s, 1)) ELSE Answer(None, s)

ConsumeU64Swapped(s) ==
  IF RemainingU32s(s) >= 2
  THEN Answer(<<s.bytes[2], s.bytes[1]>>, Drop(s, 2))
  ELSE Answer(None, s)

(* A `u64` is the pair of its halves, the upper one first.                 *)
ConsumeU64(s) ==
  IF RemainingU32s(s) >= 2
  THEN Answer(<<s.bytes[1], s.bytes[2]>>, Drop(s, 2))
  ELSE Answer(None, s)

ConsumeOne(s) ==
  LET one == ConsumeU32(s)
  IN  IF one.out = None THEN one ELSE Answer(<<ZeroWord, one.out>>, one.rest)

(* For more than two cells the cells after the second must all be zero.    *)
ConsumeMany(s, count) ==
  LET two  == ConsumeU64(s)
      more == count - 2
  IN  IF /\ RemainingU32s(two.rest) >= more
         /\ \A i \in 1..more : two.rest.bytes[i] = ZeroWord
      THEN Answer(two.out, Drop(two.rest, more))
      ELSE Answer(Panic, two.rest)

ConsumeCells(s, count) ==
  CASE count = 0 -> Answer(<<ZeroWord, ZeroWord>>, s)
    [] count = 1 -> ConsumeOne(s)
    [] count = 2 -> ConsumeU64(s)
    [] OTHER     -> ConsumeMany(s, count)

IntoCells(s, count) ==
  LET cells == ConsumeCells(s, count)
  IN  IF IsEmpty(cells.rest) \/ cells.out = Panic THEN cells.out ELSE None

TakeKeepingPadding(s, count) ==
  LET words == DivCeil(count, ElementWidth)
      taken == New(SubSeq(s.bytes, 1, words), count)
  IN  IF count <= LenBytes(s)
      THEN Answer(IF taken = None THEN Panic ELSE taken,
                  [Drop(s, words) EXCEPT !.padding = words * ElementWidth - count])
      ELSE Answer(None, s)

(* The words that hold the first `count` bytes; the bytes after those are  *)
(* padding, and the `expect` on `new` wants them to be zero.               *)
Take(s, count) ==
  LET words == DivCeil(count, ElementWidth)
      taken == New(SubSeq(s.bytes, 1, words), count)
  IN  IF count <= LenBytes(s)
      THEN Answer(IF taken = None THEN Panic ELSE taken, Drop(s, words))
      ELSE Answer(None, s)

ConsumeCStrOffByOne(s) ==
  LET nuls == {i \in 1..LenBytes(s) : ByteAt(s, i) = 0}
      nul  == CHOOSE i \in nuls : \A j \in nuls : i <= j
      used == DivCeil(nul - 1, ElementWidth)
  IN  IF nuls = {} THEN Answer(None, s)
      ELSE Answer([i \in 1..nul - 1 |-> ByteAt(s, i)], Drop(s, used))

(* The bytes before the first zero byte, and the words that hold them and  *)
(* it.  The words are gone even if the bytes after the zero are not zero.  *)
ConsumeCStr(s) ==
  LET nuls == {i \in 1..LenBytes(s) : ByteAt(s, i) = 0}
      nul  == CHOOSE i \in nuls : \A j \in nuls : i <= j
      used == DivCeil(nul, ElementWidth)
  IN  IF nuls = {} THEN Answer(None, s)
      ELSE IF EndsInZeros(s.bytes[used], used * ElementWidth - nul)
      THEN Answer([i \in 1..nul - 1 |-> ByteAt(s, i)], Drop(s, used))
      ELSE Answer(None, Drop(s, used))

(* The conversions to numbers want nothing after what they consume.        *)
TryIntoU32(s) ==
  LET one == ConsumeU32(s) IN IF IsEmpty(one.rest) THEN one.out ELSE None

TryIntoU64(s) ==
  LET two == ConsumeU64(s) IN IF IsEmpty(two.rest) THEN two.out ELSE None
=============================================================================
