--------------------------- MODULE MC_DeviceNodes ---------------------------
(* Raw nodes that differ in their phandles, and raw nodes that differ in   *)
(* their cells and lists of cells, which fit a group or not and hold       *)
(* integers that fit 64 bits or not.                                       *)
EXTENDS DeviceNodes

Plain ==
  [cells |-> <<Absent, Absent>>, reg |-> Absent, ranges |-> Absent, strings |-> {},
   phandle |-> Absent, interrupts |-> Absent]

MCHandles ==
  {[Plain EXCEPT !.phandle = p] : p \in {Absent, Invalid, 1, 2}} \cup
  {[Plain EXCEPT !.phandle = 1, !.interrupts = Invalid],
   [Plain EXCEPT !.strings = {"Status"}, !.phandle = 2]}

MCPlainCells == <<Absent, Absent>>
MCBusCells   == {MCPlainCells, <<1, 0>>, <<Absent, Invalid>>}

(* So many words, none of which is zero.                                   *)
Ones(n) == [i \in 1..n |-> 1]

MCBuses ==
  {[Plain EXCEPT !.cells = c, !.reg = r] : c \in MCBusCells, r \in {Absent, Ones(2), Ones(3)}} \cup
  {[Plain EXCEPT !.cells = c, !.ranges = g] : c \in MCBusCells, g \in {<<>>, Ones(5)}} \cup
  {[Plain EXCEPT !.reg = r] : r \in {Padded, <<>>}}

(* A bus whose addresses have three cells, as that of PCI, and nodes on it.*)
(* The third word of an address is zero or not, in the first entry or the  *)
(* second.                                                                 *)
MCWideCells == <<3, 1>>

MCWide ==
  {[Plain EXCEPT !.cells = MCWideCells, !.ranges = g] :
     g \in {Absent, <<1, 1, 0, 1, 1, 1>>, Ones(6)}} \cup
  {[Plain EXCEPT !.reg = r] : r \in {<<1, 1, 0, 1>>, Ones(4), <<1, 1, 0, 1, 1, 1, 1, 1>>}}

MCRaws      == MCHandles \cup MCBuses \cup MCWide
MCCells     == {MCPlainCells, <<1, 0>>, <<Invalid, 1>>}
MCRootCells == {MCPlainCells, <<2, 2>>}
MCOneCells  == {MCPlainCells}
=============================================================================
