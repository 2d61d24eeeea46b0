-------------------------------- MODULE Blob --------------------------------
(***************************************************************************)
(* `DeviceTree::from_bytes` over a blob (src/src/dtb.rs), as far as the    *)
(* bytes go: the header is read, the two blocks are cut out of the blob    *)
(* and the tokens of the structure block are read one by one.  What is     *)
(* made of the tokens is the subject of StructBlock.                       *)
(***************************************************************************)
EXTENDS TokenStream

CONSTANT Blobs (* the blobs: an even number of words                       *)

ASSUME BlobsAssumption == Blobs \subseteq {dtb \in Seq(Word) : Len(dtb) % 2 = 0}

VARIABLES dtb,  (* the blob                                                *)
          phase (* "header" or "tokens"                                    *)

blobVars == <<dtb, phase, tokenVars>>

BlobInit ==
  /\ dtb \in Blobs /\ phase = "header"
  /\ dt_struct = <<>> /\ strings = <<>> /\ bytes = New(<<>>, 0)
  /\ tokens = <<>> /\ error = "none"

ReadHeader ==
  /\ phase = "header" /\ error = "none"
  /\ \E failed \in {FirstError(HeaderChecks(dtb))} :
         \/ /\ failed = "none" /\ phase' = "tokens"
            /\ IterateBytes(StructBlock(dtb), Strings(dtb))
         \/ /\ failed # "none" /\ error' = failed
            /\ UNCHANGED <<phase, dt_struct, strings, bytes, tokens>>
  /\ UNCHANGED dtb

ReadToken == phase = "tokens" /\ NextToken /\ UNCHANGED <<dtb, phase>>

BlobNext == ReadHeader \/ ReadToken

BlobSpec == BlobInit /\ [][BlobNext]_blobVars

(* The loop of `from_bytes` asks for the next token as long as there is    *)
(* one: nothing else runs.                                                 *)
FairBlobSpec == BlobSpec /\ WF_blobVars(BlobNext)
-----------------------------------------------------------------------------
HeaderErrors == {"EoF", "Magic", "Size", "NewerVersion", "Alignment", "StructIndex",
                 "StringsIndex"}

(* The slices keep their shape: the structure block is never padded.       *)
BlobTypeOK ==
  /\ dtb \in Seq(Word) /\ phase \in {"header", "tokens"}
  /\ dt_struct \in Seq(Word) /\ strings \in Seq(Byte)
  /\ bytes \in Slices /\ bytes.padding = 0
  /\ error \in IF phase = "header" THEN HeaderErrors \cup {"none"} ELSE TokenErrors

BlobByte(i) == ByteAt([bytes |-> dtb, padding |-> 0], i)

(* The end of the total size, rounded up to an element of the blob.        *)
End8 == TotalSize(dtb) + ((8 - (TotalSize(dtb) % 8)) % 8)

(* Both blocks are, byte for byte, the parts of the blob that the header   *)
(* names, and end no more than seven bytes after the total size.           *)
BlocksAreWhereTheHeaderSays ==
  /\ Len(dt_struct) * ElementWidth = StructSize(dtb) /\ Len(strings) = StringsSize(dtb)
  /\ StructOffset(dtb) + StructSize(dtb) <= End8 /\ End8 <= Len(dtb) * ElementWidth
  /\ StringsOffset(dtb) + StringsSize(dtb) <= End8
  /\ \A i \in 1..StructSize(dtb) :
       ByteAt([bytes |-> dt_struct, padding |-> 0], i) = BlobByte(StructOffset(dtb) + i)
  /\ \A i \in 1..StringsSize(dtb) : strings[i] = BlobByte(StringsOffset(dtb) + i)

(* A header that is accepted locates both blocks, to the byte; one that is *)
(* refused is refused for a reason, and for that reason: whatever the other*)
(* fields are, an offset and a size that do not lie in the blob are found, *)
(* also when their sum is no `usize`.                                      *)
HeaderVerdictIsExact ==
  /\ phase = "tokens" => BlocksAreWhereTheHeaderSays
  /\ phase = "header" =>
       CASE error = "none"         -> TRUE
         [] error = "Magic"        -> dtb[1] # Magic
         [] error = "EoF"          -> Len(dtb) * ElementWidth < 40 \/ TotalSize(dtb) <= 32
                                      \/ Len(dtb) * ElementWidth < TotalSize(dtb)
         [] error = "Size"         -> \/ \E i \in {2, 3, 4, 5, 9, 10} : Number(dtb[i]) > UsizeMax
                                      \/ StringsOffset(dtb) + StringsSize(dtb) > UsizeMax
         [] error = "NewerVersion" -> LastCompatible(dtb) > VersionParsed
         [] error = "Alignment"    -> StructOffset(dtb) % 4 # 0 \/ StructSize(dtb) % 4 # 0
         [] error = "StructIndex"  -> StructOffset(dtb) + StructSize(dtb) > End8
         [] error = "StringsIndex" -> StringsOffset(dtb) + StringsSize(dtb) > End8

(* The parser comes to the end of the block or to an error: no token is    *)
(* empty.                                                                  *)
BlobTerminates == <>(error # "none" \/ (phase = "tokens" /\ IsEmpty(bytes)))
=============================================================================
