------------------------- MODULE MC_PropertyValues -------------------------
(* Lists of cells: up to four words with and without padding, in groups of *)
(* one to three integers of up to three cells; the same words as a number. *)
(* Strings: six bytes of a letter, commas, dashes and zeros, with and      *)
(* without padding; keywords have one or two letters, and some begin like  *)
(* "fail".                                                                 *)
EXTENDS PropertyValues

MCByte == {0, 1, 2, 44, 45, 102, 111}
MCWords == {ZeroWord, <<0, 0, 0, 1>>, <<2, 0, 0, 0>>}
Valued(words, paddings) ==
  ({New(w, 4 * Len(w) - p) : w \in words, p \in paddings} \ {None}) \cup {New(<<>>, 0)}

MCValues == Valued(UNION {[1..n -> MCWords] : n \in 1..4}, 0..3)
MCCellCounts == UNION {[1..n -> 0..3] : n \in 1..2} \cup [1..3 -> 0..2]

MCLetters == {0, 44, 45, 102}
MCTexts ==
  Valued({<<w>> : w \in [1..4 -> MCLetters]}
           \cup {<<v, <<b[1], b[2], 0, 0>> >> : v \in [1..4 -> {0, 44, 102}],
                                               b \in [1..2 -> {0, 102}]}, {0, 1, 3})

MCOkay     == <<111>>
MCDisabled == <<111, 102>>
MCReserved == <<44>>
MCFail     == <<102>>
MCSpinTable == <<102, 102>>
MCChassisTypes == {<<102>>, <<102, 45>>}
=============================================================================
