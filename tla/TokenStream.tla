---------------------------- MODULE TokenStream ----------------------------
(***************************************************************************)
(* `Token::consume_token` and the iterator over the structure block made   *)
(* of it (src/src/dtb.rs): one step reads one token from the words left.   *)
(* The caller, `from_bytes`, stops at the first error (module Blob).       *)
(* What takes long to compute is bound by \E to its one value.             *)
(***************************************************************************)
EXTENDS Header, NodeName, FiniteSets

VARIABLES dt_struct, (* the structure block                                *)
          strings,   (* the bytes of the strings block                     *)
          bytes,     (* what is left of the structure block                *)
          tokens,    (* the tokens yielded                                 *)
          error      (* "none", "panic", or the error the iterator yielded *)

tokenVars == <<dt_struct, strings, bytes, tokens, error>>

BEGIN_NODE == <<0, 0, 0, 1>>
END_NODE   == <<0, 0, 0, 2>>
PROP       == <<0, 0, 0, 3>>
NOP        == <<0, 0, 0, 4>>
END        == <<0, 0, 0, 9>>

(* The iterator over these blocks, of which the first is whole words.      *)
IterateBytes(words, names) ==
  /\ dt_struct' = words /\ strings' = names
  /\ bytes' = New(dt_struct', Len(dt_struct') * ElementWidth)
  /\ UNCHANGED <<tokens, error>>

(* The iterator is asked for its next item, and reads the word `word`.     *)
Reads(word) ==
  /\ error = "none" /\ ~ IsEmpty(bytes)
  /\ ConsumeU32(bytes).out = word
  /\ UNCHANGED <<dt_struct, strings>>

Body == ConsumeU32(bytes).rest

Yield(token, rest) == bytes' = rest /\ tokens' = Append(tokens, token) /\ UNCHANGED error

YieldErrorSilently(e, rest) == UNCHANGED <<bytes, tokens, error>>

YieldError(e, rest) == bytes' = rest /\ error' = e /\ UNCHANGED tokens

(* The name comes with its text, of which it keeps only the meaning.       *)
ReadBeginNode ==
  /\ Reads(BEGIN_NODE)
  /\ \E name \in {ConsumeCStr(Body)} :
     \E failed \in {IF name.out = None THEN "NodeNameMalformed"
                    ELSE FirstError(NameChecks(name.out))} :
       IF failed # "none" THEN YieldError(failed, name.rest)
       ELSE Yield([kind |-> "BeginNode", text |-> name.out, name |-> NameRef(name.out)],
                  name.rest)

(* The string of the strings block that begins at this offset.             *)
NameAt(offset) == CStr(SubSeq(strings, offset + 1, Len(strings)))

(* The length, the offset of the name, the value and its padding.          *)
ReadProp ==
  /\ Reads(PROP)
  /\ LET len     == ConsumeU32(Body)
         nameoff == ConsumeU32(len.rest)
         value   == Take(nameoff.rest, Number(len.out))
     IN  IF len.out = None THEN YieldError("EoF", len.rest)
         ELSE IF ~ IsUsize(Number(len.out)) THEN YieldError("Size", len.rest)
         ELSE IF nameoff.out = None THEN YieldError("EoF", nameoff.rest)
         ELSE IF ~ IsUsize(Number(nameoff.out)) THEN YieldError("Size", nameoff.rest)
         ELSE IF value.out = None THEN YieldError("PropValue", value.rest)
         ELSE IF value.out = Panic THEN YieldError("panic", value.rest)
         ELSE IF NameAt(Number(nameoff.out)) = None THEN YieldError("PropName", value.rest)
         ELSE Yield([kind |-> "Prop", offset |-> nameoff.out,
                     name |-> NameAt(Number(nameoff.out)), value |-> value.out], value.rest)

ReadMark ==
  \E mark \in {<<END_NODE, "EndNode">>, <<NOP, "Nop">>, <<END, "End">>} :
    Reads(mark[1]) /\ Yield([kind |-> mark[2]], Body)

ReadInvalid ==
  /\ error = "none" /\ ~ IsEmpty(bytes)
  /\ ConsumeU32(bytes).out \notin {BEGIN_NODE, END_NODE, PROP, NOP, END}
  /\ YieldError("InvalidToken", Body)
  /\ UNCHANGED <<dt_struct, strings>>

NextToken == ReadBeginNode \/ ReadProp \/ ReadMark \/ ReadInvalid
-----------------------------------------------------------------------------
TokenErrors == {"none", "panic", "EoF", "Size", "InvalidToken", "NodeNameMalformed",
                "TooLong", "InvalidCharacters", "PropValue", "PropName"}

(* How a token is laid out (src/src/dtb.rs:20-43): written back in order,  *)
(* the tokens read are word for word the part of the block that is gone.   *)
StringWords(name) ==
  [w \in 1..DivCeil(Len(name) + 1, ElementWidth) |->
     [i \in 1..ElementWidth |->
        LET at == (w - 1) * ElementWidth + i
        IN  IF at <= Len(name) THEN name[at] ELSE 0]]

LengthWord(n) ==
  LET high == (n \div 256) \div 256
  IN  <<high \div 256, high % 256, (n \div 256) % 256, n % 256>>

Encode(token) ==
  CASE token.kind = "BeginNode" -> <<BEGIN_NODE>> \o StringWords(token.text)
    [] token.kind = "EndNode"   -> <<END_NODE>>
    [] token.kind = "Prop"      -> <<PROP, LengthWord(LenBytes(token.value)), token.offset>>
                                     \o token.value.bytes
    [] token.kind = "Nop"       -> <<NOP>>
    [] token.kind = "End"       -> <<END>>

EncodeAll(ts) == FlattenSeq([i \in DOMAIN ts |-> Encode(ts[i])])

(* As long as there is no error, no word of the block is lost, read twice  *)
(* or given to the wrong token; after an error the tokens already yielded  *)
(* are still a prefix of the block.                                        *)
RoundTrip ==
  IF error = "none" THEN EncodeAll(tokens) \o bytes.bytes = dt_struct
  ELSE IsPrefix(EncodeAll(tokens), dt_struct)

(* Where the next token begins, or the one that was not understood.        *)
NextWords == SubSeq(dt_struct, Len(EncodeAll(tokens)) + 1, Len(dt_struct))

Significant(digits) ==
  LET first == SelectInSeq(digits, LAMBDA d : d # 48)
  IN  IF first = 0 THEN <<>> ELSE SubSeq(digits, first, Len(digits))

IsUnitAddress(text) ==
  LET digits == IF text # <<>> /\ text[1] = Plus THEN Tail(text) ELSE text
  IN  /\ digits # <<>> /\ \A i \in DOMAIN digits : digits[i] \in HexDigits
      /\ Len(Significant(digits)) <= AddressDigits

IsNodeName(text) ==
  Len(text) <= MaxNodeNameLength /\ \A i \in DOMAIN text : text[i] \in Chars

(* What a name is: a node-name, and a unit address after an "@".           *)
IsName(text) ==
  \/ IsNodeName(text)
  \/ \E i \in DOMAIN text : /\ text[i] = At /\ IsNodeName(SubSeq(text, 1, i - 1))
                            /\ IsUnitAddress(SubSeq(text, i + 1, Len(text)))

Lower(digit) == IF digit \in 65..70 THEN digit + 32 ELSE digit

(* A unit address without its sign, leading zeros and capitals.            *)
Shortest(text) ==
  LET digits == Significant(IF text[1] = Plus THEN Tail(text) ELSE text)
  IN  IF digits = <<>> THEN <<48>> ELSE [i \in DOMAIN digits |-> Lower(digits[i])]

(* A name that is read is a name, and prints as its text does but for the  *)
(* zeros, the sign and the capitals of the address; so names are equal     *)
(* exactly when their texts are equal up to those, and a printed name read *)
(* again is the same name.  Only what is not a name is refused.            *)
NodeNamesAreTheirText ==
  /\ \A t \in ToSet(tokens) : t.kind = "BeginNode" =>
       /\ IsName(t.text)
       /\ Display(t.name) =
            IF HasAddress(t.text)
            THEN Append(PartsOf(t.text)[1], At) \o Shortest(PartsOf(t.text)[2]) ELSE t.text
       /\ FirstError(NameChecks(Display(t.name))) = "none" /\ NameRef(Display(t.name)) = t.name
  /\ error \in {"TooLong", "InvalidCharacters"} =>
       ~ IsName(ConsumeCStr([bytes |-> Tail(NextWords), padding |-> 0]).out)

(* The name of a node is the text in the structure block, as above; that   *)
(* of a property is a string of the strings block, in it to its last byte. *)
NamesAreTheirText ==
  /\ NodeNamesAreTheirText
  /\ \A t \in ToSet(tokens) : t.kind = "Prop" =>
       /\ Number(t.offset) + Len(t.name) < Len(strings)
       /\ IsPrefix(Append(t.name, 0), SubSeq(strings, Number(t.offset) + 1, Len(strings)))
       /\ 0 \notin ToSet(t.name)
=============================================================================
