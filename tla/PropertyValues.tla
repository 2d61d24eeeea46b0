--------------------------- MODULE PropertyValues ---------------------------
(***************************************************************************)
(* The conversions of one property value: to lists of cells (CellReader)   *)
(* and, here, to one number (src/src/parse.rs) and to strings and what is  *)
(* made of them (src/src/property.rs).  Of strings all but one take the    *)
(* bytes up to the first zero and look at them; the list of models takes   *)
(* one string after the other until none is left.                          *)
(*                                                                         *)
(* A keyword is a constant: its letters matter only in so far as one       *)
(* string may begin another.                                               *)
(***************************************************************************)
EXTENDS CellReader, ByteStrings, FiniteSets

CONSTANTS Texts,     (* the values that are read as strings                *)
          Okay, Disabled, Reserved, (* the statuses                        *)
          Fail,      (* what the other statuses begin with                 *)
          SpinTable, (* the method that takes an address                   *)
          ChassisTypes (* the chassis types                                *)

ASSUME TextsAssumption == Texts \subseteq NewSlices
ASSUME KeywordsAssumption ==
  /\ {Okay, Disabled, Reserved, Fail, SpinTable} \cup ChassisTypes \subseteq Seq(Byte \ {0})
  /\ \A status \in {Okay, Disabled, Reserved} : ~ IsPrefix(Fail, status)

VARIABLES left, (* the bytes of the value that are left                    *)
          read  (* the strings or the one value read                       *)

valuesVars == <<vars, left, read>>

Kinds   == {"models", "model", "status", "method", "chassis"}
Numbers == {"u32", "u64", "cells"}

(* The conversion of a slice to bytes: those of the padding are left out.  *)
BytesOf(s) == [i \in 1..LenBytes(s) |-> ByteAt(s, i)]

ValuesInit ==
  \/ Init /\ left = <<>> /\ read = <<>>
  \/ /\ value \in Values /\ loop \in Numbers /\ counts \in CellCounts
     /\ Len(counts) = 1
     /\ loop # "cells" => counts[1] = (IF loop = "u32" THEN 1 ELSE 2)
     /\ rest = value /\ group = <<>> /\ list = <<>> /\ out = "reading"
     /\ left = <<>> /\ read = <<>>
  \/ /\ value \in Texts /\ loop \in Kinds /\ counts = <<>>
     /\ rest = value /\ group = <<>> /\ list = <<>> /\ out = "reading"
     /\ left = BytesOf(value) /\ read = <<>>
-----------------------------------------------------------------------------
(* Manufacturer and model, or the one string that has no comma.            *)
Model(string) ==
  LET parts == SplitAtFirst(string, Comma) IN IF parts = None THEN <<string>> ELSE parts

(* What follows "fail" is nothing, or a dash and a code.                   *)
Status(string) ==
  LET code == SubSeq(string, Len(Fail) + 1, Len(string))
  IN  IF ~ IsPrefix(Fail, string)
      THEN IF string \in {Okay, Disabled, Reserved} THEN <<string>> ELSE None
      ELSE IF code = <<>> THEN <<Fail>>
      ELSE IF code[1] = Dash THEN <<Fail, Tail(code)>> ELSE None

(* The part of EnableMethod::extract_from_properties that reads the string:*)
(* the chunk before a comma and the one after it, and no third one.        *)
EnableMethod(string) ==
  LET chunks == SplitAtFirst(string, Comma)
  IN  IF string = SpinTable THEN <<string>>
      ELSE IF chunks = None THEN None
      ELSE IF SplitAtFirst(chunks[2], Comma) = None THEN chunks ELSE None

ChassisType(string) == IF string \in ChassisTypes THEN <<string>> ELSE None

Converted(string) ==
  CASE loop = "model"   -> Model(string)
    [] loop = "status"  -> Status(string)
    [] loop = "method"  -> EnableMethod(string)
    [] loop = "chassis" -> ChassisType(string)
-----------------------------------------------------------------------------
(* A single number and nothing after it; `into_cells` is told its width.   *)
ReadNumber ==
  /\ loop \in Numbers /\ out = "reading"
  /\ LET number == CASE loop = "u32"   -> TryIntoU32(value)
                     [] loop = "u64"   -> TryIntoU64(value)
                     [] loop = "cells" -> IntoCells(value, counts[1])
     IN  IF number \in {None, Panic}
         THEN out' = (IF number = None THEN "None" ELSE "panic") /\ UNCHANGED read
         ELSE out' = "Some" /\ read' = <<number>>
  /\ UNCHANGED <<inputs, rest, group, list, left>>

(* A single string; what follows its zero is not looked at.                *)
ReadString ==
  /\ loop \in Kinds \ {"models"} /\ out = "reading"
  /\ LET string == CStr(left)
         answer == IF string = None THEN None ELSE Converted(string)
     IN  IF answer = None THEN out' = "None" /\ UNCHANGED read
         ELSE out' = "Some" /\ read' = answer
  /\ UNCHANGED <<inputs, rest, group, list, left>>

LengthWithoutComma(model) == IF Len(model) = 2 THEN Len(model[1]) + Len(model[2]) ELSE Len(model[1])

(* The length of a string of the list, counted again from its parts: with  *)
(* the comma between them.                                                 *)
LengthOf(model) ==
  IF Len(model) = 2 THEN Len(model[1]) + 1 + Len(model[2]) ELSE Len(model[1])

ReadModelStuck ==
  /\ loop = "models" /\ out = "reading" /\ left # <<>> /\ CStr(left) # <<>>
  /\ IF CStr(left) = None THEN out' = "None" /\ UNCHANGED <<left, read>>
     ELSE /\ left' = SubSeq(left, LengthOf(Model(CStr(left))) + 2, Len(left))
          /\ read' = Append(read, Model(CStr(left))) /\ UNCHANGED out
  /\ UNCHANGED <<inputs, rest, group, list>>

(* The next string of a list; an empty one is passed over.                 *)
ReadModel ==
  /\ loop = "models" /\ out = "reading" /\ left # <<>>
  /\ LET string == CStr(left)
     IN  \/ /\ string = None /\ out' = "None" /\ UNCHANGED <<left, read>>
         \/ /\ string = <<>> /\ left' = Tail(left) /\ UNCHANGED <<read, out>>
         \/ /\ string \notin {None, <<>>}
            /\ left' = SubSeq(left, LengthOf(Model(string)) + 2, Len(left))
            /\ read' = Append(read, Model(string))
            /\ UNCHANGED out
  /\ UNCHANGED <<inputs, rest, group, list>>

ModelsRead ==
  /\ loop = "models" /\ out = "reading" /\ left = <<>>
  /\ out' = "Some"
  /\ UNCHANGED <<inputs, rest, group, list, left, read>>

ReadList == loop \in {"checked", "pairs"} /\ Next /\ UNCHANGED <<left, read>>

ValuesNext == ReadList \/ ReadNumber \/ ReadString \/ ReadModel \/ ModelsRead

ValuesSpec == ValuesInit /\ [][ValuesNext]_valuesVars

(* A conversion is one call that nothing interrupts.                       *)
FairValuesSpec == ValuesSpec /\ WF_valuesVars(ValuesNext)
-----------------------------------------------------------------------------
CStrings == Seq(Byte \ {0})

(* The variables keep their shape; what is left of a list of strings are   *)
(* the last bytes of the value.                                            *)
ValuesTypeOK ==
  \/ TypeOK /\ loop \in {"checked", "pairs"} /\ left = <<>> /\ read = <<>>
  \/ TypeOK /\ loop \in Numbers /\ left = <<>> /\ read \in Seq(Word \cup (Word \X Word))
  \/ /\ value \in Texts /\ loop \in Kinds /\ out \in {"reading", "Some", "None"}
     /\ \E n \in 0..LenBytes(value) : left = SubSeq(BytesOf(value), n + 1, LenBytes(value))
     /\ IF loop = "models" THEN read \in Seq([1..1 -> CStrings] \cup [1..2 -> CStrings])
        ELSE read = <<>> \/ Len(read) \in 1..2

(* The strings the first bytes of a list are made of: those without the    *)
(* zeros that follow another zero or nothing.                              *)
WithoutEmpty(bytes) ==
  LET IsKept(i) == bytes[i] # 0 \/ (i > 1 /\ bytes[i - 1] # 0)
      kept[n \in 0..Len(bytes)] ==
        IF n = 0 THEN <<>>
        ELSE IF IsKept(n) THEN Append(kept[n - 1], bytes[n]) ELSE kept[n - 1]
  IN  kept

Joined(parts, separator) ==
  IF Len(parts) = 2 THEN parts[1] \o <<separator>> \o parts[2] ELSE parts[1]

Consumed == LenBytes(value) - Len(left)

(* What is read, written back, is the value: a number is all of it; every  *)
(* model of a list stands where it should, though the length of each is    *)
(* counted from its parts, and only empty strings are gone; a status keeps *)
(* its code and a method its vendor.                                       *)
ValuesComeBack ==
  /\ loop \in Numbers /\ out = "Some" =>
       /\ value.padding = 0
       /\ value.bytes = Cells(IF loop = "u32" THEN <<ZeroWord, read[1]>> ELSE read[1], counts[1])
  /\ loop = "models" =>
       FlattenSeq([i \in DOMAIN read |-> Append(Joined(read[i], Comma), 0)])
         = WithoutEmpty(BytesOf(value))[Consumed]
  /\ loop \in Kinds \ {"models"} /\ out = "Some" =>
       IsPrefix(Append(Joined(read, IF loop = "status" THEN Dash ELSE Comma), 0), left)

Commas(string) == {i \in DOMAIN string : string[i] = Comma}

IsGood(string) ==
  CASE loop = "model"   -> TRUE
    [] loop = "status"  -> \/ string \in {Okay, Disabled, Reserved, Fail}
                           \/ IsPrefix(Append(Fail, Dash), string)
    [] loop = "method"  -> string = SpinTable \/ Cardinality(Commas(string)) = 1
    [] loop = "chassis" -> string \in ChassisTypes

(* Has a list of strings an end, or another value one of the strings that  *)
(* its type allows?                                                        *)
IsGoodText ==
  LET bytes == BytesOf(value)
  IN  IF loop = "models" THEN bytes = <<>> \/ Last(bytes) = 0
      ELSE \E n \in DOMAIN bytes : /\ bytes[n] = 0 /\ \A i \in 1..n - 1 : bytes[i] # 0
                                   /\ IsGood(SubSeq(bytes, 1, n - 1))

(* A value is refused exactly when it is not what its reader expects: both *)
(* loops over cells accept the same values and panic only for cells nobody *)
(* can hold, every value of the width of a number is one, and every string *)
(* the type allows is accepted.                                            *)
VerdictIsExact ==
  /\ CellVerdictIsExact
  /\ loop \in Numbers /\ out = "None" => value.padding # 0 \/ Len(value.bytes) # counts[1]
  /\ loop \in Kinds /\ out # "reading" => (out = "Some" <=> IsGoodText)

(* Every conversion ends: every group takes a word and every string, the   *)
(* empty one too, a byte.                                                  *)
Terminates == <>(out # "reading")
=============================================================================
