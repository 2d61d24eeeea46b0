----------------------------- MODULE CellReader -----------------------------
(***************************************************************************)
(* Reading a property value as a list of groups of cells, one integer at a *)
(* time.  Two loops do it: `into_cells_slice` (src/src/parse.rs), which    *)
(* checks the length first and then expects every integer to be there, and *)
(* the loops over `reg` and `alloc-ranges` (src/src/node/memory_region.rs, *)
(* src/src/node/reserved_memory.rs), which check nothing first and         *)
(* propagate the error when an integer is missing.                         *)
(***************************************************************************)
EXTENDS ByteSlice

CONSTANTS Values,     (* the property values: slices                       *)
          CellCounts  (* the widths of the integers of a group             *)

ASSUME ValuesAssumption == Values \subseteq NewSlices
ASSUME CellCountsAssumption == CellCounts \subseteq Seq(0..255)

VARIABLES value,  (* the property value                                    *)
          counts, (* the widths                                            *)
          loop,   (* "checked" for `into_cells_slice`, else "pairs"        *)
          rest,   (* what is left of the value                             *)
          group,  (* the integers read of the current group                *)
          list,   (* the groups read                                       *)
          out     (* "reading", "Some", "None" (or an error) or "panic"    *)

inputs == <<value, counts, loop>>
vars == <<value, counts, loop, rest, group, list, out>>

(* The cells of the first integers of a group, and those of a group.       *)
CellsOf[n \in 0..Len(counts)] == IF n = 0 THEN 0 ELSE CellsOf[n - 1] + counts[n]

Total == CellsOf[Len(counts)]

(* The loops over pairs know that a size takes at least one cell.          *)
Init ==
  /\ value \in Values /\ counts \in CellCounts /\ loop \in {"checked", "pairs"}
  /\ loop = "pairs" => Len(counts) = 2 /\ counts[2] > 0
  /\ rest = value /\ group = <<>> /\ list = <<>> /\ out = "reading"

(* The tests `into_cells_slice` makes before its loop.                     *)
LengthChecked ==
  loop = "checked" => /\ value.padding = 0
                      /\ Total > 0
                      /\ Len(value.bytes) % Total = 0

Looping == out = "reading" /\ LengthChecked

(* The length fits no number of groups; no cells at all fit an empty value.*)
Refuse ==
  /\ out = "reading" /\ ~ LengthChecked
  /\ out' = IF value.padding = 0 /\ Total = 0 /\ IsEmpty(value) THEN "Some" ELSE "None"
  /\ UNCHANGED <<inputs, rest, group, list>>

IsGroupLate(integers) == Len(integers) > Len(counts)

IsGroup(integers) == Len(integers) = Len(counts)

(* The next integer of the group; the last one ends the group.             *)
ReadCells ==
  /\ Looping /\ (~ IsEmpty(rest) \/ group # <<>>)
  /\ LET cells == ConsumeCells(rest, counts[Len(group) + 1])
         more  == Append(group, cells.out)
     IN  /\ rest' = cells.rest
         /\ IF cells.out \in {None, Panic}
            THEN /\ out' = IF cells.out = None /\ loop = "pairs" THEN "None" ELSE "panic"
                 /\ UNCHANGED <<group, list>>
            ELSE /\ group' = IF IsGroup(more) THEN <<>> ELSE more
                 /\ list' = IF IsGroup(more) THEN Append(list, more) ELSE list
                 /\ UNCHANGED out
  /\ UNCHANGED inputs

Finish ==
  /\ Looping /\ IsEmpty(rest) /\ group = <<>>
  /\ out' = "Some"
  /\ UNCHANGED <<inputs, rest, group, list>>

Next == Refuse \/ ReadCells \/ Finish

Spec == Init /\ [][Next]_vars
-----------------------------------------------------------------------------
(* The variables keep their shape, and the current group is unfinished.    *)
TypeOK ==
  /\ value \in Values /\ counts \in CellCounts /\ rest \in Slices
  /\ group \in Seq(Word \X Word)
  /\ list \in Seq([1..Len(counts) -> Word \X Word])
  /\ group = <<>> \/ Len(group) < Len(counts)
  /\ out \in {"reading", "Some", "None", "panic"}

(* The words an integer of `n` cells stands for.  Of a wider one than two  *)
(* the reader keeps the first two words, so the others must be zero.       *)
Cells(integer, n) ==
  CASE n = 0 -> <<>>
    [] n = 1 -> <<integer[2]>>
    [] OTHER -> integer \o [i \in 1..n - 2 |-> ZeroWord]

WordsAt(start, n) == SubSeq(value.bytes, start + 1, start + n)

(* The groups read are the integers of the value, in order: each stands    *)
(* where the widths before it say, whichever loop reads it.  No cell that  *)
(* the reader drops held anything, and it makes nothing up.                *)
CellsInPlace ==
  \A g \in 1..Len(list) : \A i \in 1..Len(counts) :
    /\ Cells(list[g][i], counts[i]) = WordsAt((g - 1) * Total + CellsOf[i - 1], counts[i])
    /\ counts[i] < 2 => list[g][i][1] = ZeroWord

WholeGroups ==
  value.padding = 0 /\ IF Total > 0 THEN Len(value.bytes) % Total = 0 ELSE IsEmpty(value)

(* Is the next integer one that the reader cannot hold: of more than two   *)
(* cells, not all after the second zero, or some beyond the whole words?   *)
Unreadable ==
  LET n     == counts[Len(group) + 1]
      start == Len(list) * Total + CellsOf[Len(group)]
  IN  n > 2 /\ \/ start + n > RemainingU32s(value)
               \/ \E i \in 3..n : WordsAt(start, n)[i] # ZeroWord

(* Both loops accept the same values, though only one of them looks at the *)
(* length: those without padding that are a whole number of groups, of     *)
(* which they leave no word unread.  Only an integer that cannot be held   *)
(* panics: the `expect` inside the loop of `into_cells_slice` never fails, *)
(* "Length should have been properly checked already"                      *)
(* (src/src/parse.rs:140).                                                 *)
CellVerdictIsExact ==
  /\ loop \in {"checked", "pairs"} =>
       /\ out = "Some" => WholeGroups /\ Len(value.bytes) = Len(list) * Total
       /\ out = "None" => ~ WholeGroups
  /\ out = "panic" => Unreadable
=============================================================================
