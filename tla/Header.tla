------------------------------- MODULE Header -------------------------------
(***************************************************************************)
(* The header of a blob (src/src/dtb.rs, the first part of `from_bytes`):  *)
(* ten words that say where the structure block and the strings block are. *)
(* The blob comes as 64-bit elements; it is cut to its total size, rounded *)
(* up to one of them, and the blocks are looked for in what is left.       *)
(***************************************************************************)
EXTENDS ByteSlice, Checks

CONSTANTS Magic,         (* the first word of a blob                       *)
          VersionParsed, (* the newest version that is understood          *)
          UsizeMax       (* the greatest `usize`                           *)

ASSUME HeaderAssumption == Magic \in Word /\ VersionParsed \in Nat /\ UsizeMax \in Nat

HeaderWords == 10

Number(w) == ((w[1] * 256 + w[2]) * 256 + w[3]) * 256 + w[4]

(* A field that is not there is never looked at.                           *)
Field(dtb, i) == IF i <= Len(dtb) THEN Number(dtb[i]) ELSE 0

TotalSize(dtb)       == Field(dtb, 2)
StructOffset(dtb)    == Field(dtb, 3)
StringsOffset(dtb)   == Field(dtb, 4)
MemRsvmapOffset(dtb) == Field(dtb, 5)
LastCompatible(dtb)  == Field(dtb, 7)
StringsSize(dtb)     == Field(dtb, 9)
StructSize(dtb)      == Field(dtb, 10)

DtWordsRoundedDown(dtb) == 2 * (TotalSize(dtb) \div (2 * ElementWidth))

(* The words of the part of the blob that the total size covers.           *)
DtWords(dtb) == 2 * DivCeil(TotalSize(dtb), 2 * ElementWidth)

IsUsize(n) == n <= UsizeMax

StringsFit(dtb) ==
  StringsOffset(dtb) + StringsSize(dtb) <= DtWords(dtb) * ElementWidth

IsAligned(dtb) == StructOffset(dtb) % ElementWidth = 0 /\ StructSize(dtb) % ElementWidth = 0

StructIndex(dtb) == StructOffset(dtb) \div ElementWidth
StructElems(dtb) == StructSize(dtb) \div ElementWidth

(* What is tested, in this order.  The offset of the memory reservations   *)
(* has to be a `usize` and is not used.                                    *)
HeaderChecks(dtb) ==
  <<Check("EoF", dtb # <<>>),
    Check("Magic", dtb # <<>> => dtb[1] = Magic),
    Check("Size", IsUsize(TotalSize(dtb))),
    Check("EoF", DtWords(dtb) <= Len(dtb)),
    Check("EoF", HeaderWords <= DtWords(dtb)),
    Check("Size", /\ IsUsize(StructOffset(dtb)) /\ IsUsize(StringsOffset(dtb))
                  /\ IsUsize(MemRsvmapOffset(dtb))),
    Check("NewerVersion", LastCompatible(dtb) <= VersionParsed),
    Check("Size", IsUsize(StringsSize(dtb)) /\ IsUsize(StructSize(dtb))),
    Check("Alignment", IsAligned(dtb)),
    Check("StructIndex", StructIndex(dtb) + StructElems(dtb) <= DtWords(dtb)),
    Check("Size", IsUsize(StringsOffset(dtb) + StringsSize(dtb))),
    Check("StringsIndex", StringsFit(dtb))>>

StructBlock(dtb) ==
  SubSeq(dtb, StructIndex(dtb) + 1, StructIndex(dtb) + StructElems(dtb))

(* The bytes of the strings block, which need not begin with a word.       *)
Strings(dtb) ==
  [i \in 1..StringsSize(dtb) |->
     ByteAt([bytes |-> dtb, padding |-> 0], StringsOffset(dtb) + i)]
=============================================================================
