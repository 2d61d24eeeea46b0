------------------------------ MODULE MC_Blob ------------------------------
(* Three families of small blobs.  Tokens: up to four words, or a property *)
(* of up to five, among them every token, the lengths and offsets that the *)
(* same words make, and two words of a string.  Names: every name of up to *)
(* five of five characters.  Headers: one blob with one or two fields      *)
(* changed, and the same cut off.                                          *)
EXTENDS Blob

MCMagic == <<13, 0, 0, 0>>
MCByte  == 0..255

Word4(n) == <<0, 0, 0, n>>
Padded(words) == IF Len(words) % 2 = 0 THEN words ELSE Append(words, ZeroWord)

(* The header, a structure block and the strings block "a", "aa".          *)
MCStrings == <<97, 0, 97, 97>>
MCBlob(words) ==
  LET n == Len(words)
  IN  Padded(<<MCMagic, Word4(44 + 4 * n), Word4(40), Word4(40 + 4 * n), Word4(0), Word4(17),
               Word4(16), Word4(0), Word4(4), Word4(4 * n)>> \o words \o <<MCStrings>>)

MCWords == {BEGIN_NODE, END_NODE, PROP, NOP, END, ZeroWord,
            <<97, 0, 0, 0>>, <<97, 97, 97, 97>>}
MCTokenBlobs ==
  {MCBlob(w) : w \in UNION {[1..n -> MCWords] : n \in 0..4}}
    \cup {MCBlob(<<PROP>> \o w) : w \in [1..4 -> MCWords]}

MCNames == UNION {[1..n -> {97, 64, 48, 43, 44}] : n \in 0..5} \cup {<<97, 64, 70>>, <<32>>}
MCNameBlobs == {MCBlob(<<BEGIN_NODE>> \o StringWords(n)) : n \in MCNames}

MCBase == MCBlob(<<BEGIN_NODE, <<97, 64, 49, 0>>, END_NODE, END>>)
MCSizes == {0, 4, 8, 14, 40, 44, 52, 56, 57, 60, 61, 100, 120, 200}
MCHeaderBlobs ==
  {[MCBase EXCEPT ![3] = Word4(o), ![10] = Word4(s)] : o \in MCSizes, s \in MCSizes}
    \cup {[MCBase EXCEPT ![2] = Word4(t), ![4] = Word4(o), ![9] = Word4(s)] :
            t \in {32, 33, 40, 56, 57, 60, 64, 65, 200}, o \in MCSizes, s \in MCSizes \cup {1, 3, 5}}
    \cup {[MCBase EXCEPT ![i] = Word4(x)] : i \in {1, 5, 6, 7}, x \in {0, 16, 17, 18, 200}}
    \cup {SubSeq(MCBase, 1, n) : n \in {0, 2, 8, 10, 12, 14}}

MCBlobs == MCTokenBlobs \cup MCNameBlobs \cup MCHeaderBlobs
=============================================================================
