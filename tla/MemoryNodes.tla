---------------------------- MODULE MemoryNodes ----------------------------
(***************************************************************************)
(* The memory of the system as the root sees it: the children of           *)
(* `/reserved-memory` (src/src/node/reserved_memory.rs), then the root's   *)
(* children called `memory` (src/src/node/memory_region.rs), one child per *)
(* step, all read with the cells of the root (src/src/node/root.rs).       *)
(*                                                                         *)
(* A list of pairs is a sequence of words, a pair `PairWords` of them;     *)
(* that reading it one cell at a time comes to that is CellReader's.       *)
(***************************************************************************)
EXTENDS Checks, Functions

CONSTANTS RootCells,    (* the cells a root may declare                    *)
          Parents,      (* the `/reserved-memory` nodes it may have        *)
          ReservedKids, (* the children of those                           *)
          MemoryKids,   (* the root's children called `memory`             *)
          MaxKids,      (* bound: children, of both sorts                  *)
          Base,         (* a word is a digit in this base                  *)
          None,         (* no such property, no unit address, no node      *)
          Invalid       (* a value that does not convert                   *)

ASSUME BoundsAssumption == MaxKids \in Nat /\ Base \in Nat \ {0}

(* A root may declare up to 255 cells.  An integer of more than two keeps  *)
(* the first two words or panics, which is the subject of CellReader.      *)
ASSUME RootCellsAssumption == RootCells \subseteq (0..2) \X (1..2)

Words == Seq(0..Base - 1)
Lists == Words \cup {None}

ASSUME ParentsAssumption ==
  Parents \subseteq [cells : (Nat \cup {Invalid}) \X (Nat \cup {Invalid}), ranges : Lists]

ASSUME KidsAssumption ==
  /\ ReservedKids \subseteq
       [size : Lists, alignment : Lists, reg : Lists, alloc : Lists, noMap : BOOLEAN,
        reusable : BOOLEAN, compatible : {"valid", Invalid, None},
        below : {"done", "Cells", "Child", "panic"}]
  /\ MemoryKids \subseteq
       [address : Nat \cup {None}, children : BOOLEAN, isMemory : BOOLEAN, reg : Lists]

VARIABLES cells,        (* the cells of the root                           *)
          parent,       (* `/reserved-memory`, or None                     *)
          phase,        (* "parent", "reserved", "memory" or "done"        *)
          reservedSeen, (* the children of `/reserved-memory` read         *)
          memorySeen,   (* the children called `memory` read               *)
          reserved,     (* what the reserved regions became, in that order *)
          memory,       (* what the memory nodes became                    *)
          out           (* "parsing", "Ok", or the error                   *)

seen == <<reservedSeen, memorySeen>>

vars == <<cells, parent, phase, seen, reserved, memory, out>>

Init ==
  /\ cells \in RootCells /\ parent \in Parents \cup {None}
  /\ phase = "parent" /\ reservedSeen = <<>> /\ memorySeen = <<>>
  /\ reserved = <<>> /\ memory = <<>> /\ out = "parsing"
-----------------------------------------------------------------------------
(* The integer that a few words make.                                      *)
Number(words) ==
  LET first[i \in 0..Len(words)] == IF i = 0 THEN 0 ELSE first[i - 1] * Base + words[i]
  IN  first[Len(words)]

PairWords == cells[1] + cells[2]

IsPairs(list) == Len(list) % PairWords = 0

(* The pairs of an address and a size in a list.                           *)
Pairs(list) ==
  [i \in 1..Len(list) \div PairWords |->
     LET at == (i - 1) * PairWords
     IN  <<Number(SubSeq(list, at + 1, at + cells[1])),
           Number(SubSeq(list, at + cells[1] + 1, at + PairWords))>>]

InOrder(pairs) == \A i, j \in 1..Len(pairs) : i < j => pairs[i][1] <= pairs[j][1]

Unsorted(pairs) == {pairs}

(* `sort_unstable_by_key`: by start; pairs with one start in any order.    *)
SortedByStart(pairs) ==
  {p \in {[i \in 1..Len(pairs) |-> pairs[f[i]]] :
            f \in Bijection(1..Len(pairs), 1..Len(pairs))} : InOrder(p)}

(* One integer and nothing more, of the width of the root's sizes.         *)
IsSize(list) == Len(list) = cells[2]

(* reserved_memory::Node::new, in the order of its tests.                  *)
ReservedChecks(kid) ==
  <<Check("Cells", kid.size = None \/ IsSize(kid.size)),
    Check("Cells", kid.alignment = None \/ IsSize(kid.alignment)),
    Check("Cells", kid.reg = None \/ IsPairs(kid.reg)),
    Check("Usage", ~ (kid.noMap /\ kid.reusable)),
    Check("Cells", kid.alloc = None \/ IsPairs(kid.alloc)),
    Check("Compatible", kid.compatible # Invalid),
    Check(kid.below, kid.below = "done"),
    Check("InvalidMemory", kid.reg # None \/ kid.size # None)>>

UsageOf(kid) ==
  IF kid.noMap THEN "NoMap" ELSE IF kid.reusable THEN "Reusable" ELSE "Other"

DynamicFirst(kid) ==
  IF kid.size = None THEN {[static |-> Pairs(kid.reg)]}
  ELSE {[size      |-> Number(kid.size), alloc |-> a,
         alignment |-> IF kid.alignment = None THEN None ELSE Number(kid.alignment)] :
          a \in IF kid.alloc = None THEN {None} ELSE SortedByStart(Pairs(kid.alloc))}

(* A static range, also when there is a size; otherwise a dynamic one.     *)
RangeOf(kid) ==
  IF kid.reg # None THEN {[static |-> Pairs(kid.reg)]}
  ELSE {[size      |-> Number(kid.size), alloc |-> a,
         alignment |-> IF kid.alignment = None THEN None ELSE Number(kid.alignment)] :
          a \in IF kid.alloc = None THEN {None} ELSE SortedByStart(Pairs(kid.alloc))}

(* MemoryRegion::new; every start is compared with the unit address.       *)
MemoryChecks(kid) ==
  <<Check("Children", ~ kid.children),
    Check("Type", kid.isMemory),
    Check("Reg", kid.reg # None /\ IsPairs(kid.reg)),
    Check("Reg", kid.reg # None /\ \A i \in 1..Len(Pairs(kid.reg)) :
                                     kid.address \in {None, Pairs(kid.reg)[i][1]})>>
-----------------------------------------------------------------------------
SameAddressCells(node) == node.cells[1] = cells[1]

SameCells(node) == node.cells = cells

(* The test at the start of `parse_parent`, if there is such a node.       *)
CheckParent ==
  /\ phase = "parent" /\ out = "parsing"
  /\ IF parent = None THEN phase' = "memory" /\ UNCHANGED out
     ELSE IF SameCells(parent) /\ parent.ranges = <<>>
     THEN phase' = "reserved" /\ UNCHANGED out
     ELSE out' = "CellsMismatch" /\ UNCHANGED phase
  /\ UNCHANGED <<cells, parent, seen, reserved, memory>>

ReadKid(error) ==
  /\ out = "parsing" /\ Len(reservedSeen) + Len(memorySeen) < MaxKids
  /\ out' = IF error = "none" THEN out ELSE error
  /\ UNCHANGED <<cells, parent, phase>>

ReadReserved(kid) ==
  /\ phase = "reserved" /\ ReadKid(FirstError(ReservedChecks(kid)))
  /\ reservedSeen' = Append(reservedSeen, kid)
  /\ IF out' = "parsing"
     THEN \E range \in RangeOf(kid) :
            reserved' = Append(reserved, [range |-> range, usage |-> UsageOf(kid)])
     ELSE UNCHANGED reserved
  /\ UNCHANGED <<memorySeen, memory>>

ReservedRead ==
  /\ phase = "reserved" /\ out = "parsing"
  /\ phase' = "memory"
  /\ UNCHANGED <<cells, parent, seen, reserved, memory, out>>

ReadMemory(kid) ==
  /\ phase = "memory" /\ ReadKid(FirstError(MemoryChecks(kid)))
  /\ memorySeen' = Append(memorySeen, kid)
  /\ memory' = IF out' = "parsing" THEN Append(memory, Pairs(kid.reg)) ELSE memory
  /\ UNCHANGED <<reservedSeen, reserved>>

MemoryRead ==
  /\ phase = "memory" /\ out = "parsing"
  /\ phase' = "done" /\ out' = "Ok"
  /\ UNCHANGED <<cells, parent, seen, reserved, memory>>

Next ==
  \/ CheckParent
  \/ \E kid \in ReservedKids : ReadReserved(kid)
  \/ ReservedRead
  \/ \E kid \in MemoryKids : ReadMemory(kid)
  \/ MemoryRead

Spec == Init /\ [][Next]_vars
-----------------------------------------------------------------------------
Going == out \in {"parsing", "Ok"}

PairSeqs == Seq(Nat \X Nat)

(* The results keep their shape; the ranges of a dynamic region are sorted.*)
TypeOK ==
  /\ cells \in RootCells /\ parent \in Parents \cup {None}
  /\ phase \in {"parent", "reserved", "memory", "done"}
  /\ reservedSeen \in Seq(ReservedKids) /\ memorySeen \in Seq(MemoryKids)
  /\ \A i \in 1..Len(reserved) :
       LET range == reserved[i].range
       IN  /\ reserved[i].usage \in {"NoMap", "Reusable", "Other"}
           /\ \/ range \in [static : PairSeqs]
              \/ /\ range \in [size : Nat, alignment : Nat \cup {None}, alloc : PairSeqs \cup {None}]
                 /\ range.alloc # None => InOrder(range.alloc)
  /\ memory \in Seq(PairSeqs)
  /\ out \in {"parsing", "Ok", "CellsMismatch", "Cells", "Usage", "Compatible", "Child",
              "InvalidMemory", "Children", "Type", "Reg", "panic"}

(* The words of a number, and of a list of pairs.                          *)
Power(n) == CASE n = 0 -> 1 [] n = 1 -> Base [] n = 2 -> Base * Base

Digits(n, width) == [i \in 1..width |-> (n \div Power(width - i)) % Base]

AsWords(pairs) ==
  [w \in 1..Len(pairs) * PairWords |->
     LET pair == pairs[((w - 1) \div PairWords) + 1]
         at   == ((w - 1) % PairWords) + 1
     IN  IF at <= cells[1] THEN Digits(pair[1], cells[1])[at]
         ELSE Digits(pair[2], cells[2])[at - cells[1]]]

IsRangeOf(range, kid) ==
  IF kid.reg # None THEN DOMAIN range = {"static"} /\ AsWords(range.static) = kid.reg
  ELSE /\ Digits(range.size, cells[2]) = kid.size
       /\ IF kid.alignment = None THEN range.alignment = None
          ELSE Digits(range.alignment, cells[2]) = kid.alignment
       /\ IF kid.alloc = None THEN range.alloc = None
          ELSE \E f \in Bijection(1..Len(range.alloc), 1..Len(range.alloc)) :
                 AsWords([i \in DOMAIN range.alloc |-> range.alloc[f[i]]]) = kid.alloc

(* Written back with the root's cells, every region read is word for word  *)
(* what its node says, but for the order of the ranges of a dynamic one;   *)
(* `reg` takes precedence over `size`                                      *)
(* (src/src/node/reserved_memory.rs:95); no node is left out.              *)
RegionsAreWhatTheNodesSay ==
  Going => /\ Len(reserved) = Len(reservedSeen) /\ Len(memory) = Len(memorySeen)
           /\ \A i \in 1..Len(reserved) : IsRangeOf(reserved[i].range, reservedSeen[i])
           /\ \A i \in 1..Len(memory) : AsWords(memory[i]) = memorySeen[i].reg

FitsCells(list) ==
  list = None \/ \E n \in 0..Len(list) : Len(list) = n * cells[1] + n * cells[2]

IsSoundReserved(kid) ==
  /\ FitsCells(kid.reg) /\ FitsCells(kid.alloc)
  /\ \A list \in {kid.size, kid.alignment} : list = None \/ Len(list) = cells[2]
  /\ ~ (kid.noMap /\ kid.reusable) /\ kid.compatible # Invalid /\ kid.below = "done"
  /\ kid.reg # None \/ kid.size # None

StartsAt(list, address) ==
  /\ list # <<>> => address < Power(cells[1])
  /\ \A n \in 0..Len(list) - 1 : n % PairWords = 0 =>
       SubSeq(list, n + 1, n + cells[1]) = Digits(address, cells[1])

IsSoundMemory(kid) ==
  /\ ~ kid.children /\ kid.isMemory /\ kid.reg # None /\ FitsCells(kid.reg)
  /\ kid.address # None => StartsAt(kid.reg, kid.address)

InRootSpace(node) == node.cells[1] = cells[1] /\ node.cells[2] = cells[2] /\ node.ranges = <<>>

(* The memory of the system is refused exactly when a node that was read   *)
(* is not right, or `/reserved-memory` is not in the root's address space; *)
(* a region is read only below a `/reserved-memory` that is.               *)
VerdictIsExact ==
  /\ reservedSeen # <<>> => parent # None
  /\ parent # None /\ phase # "parent" => InRootSpace(parent)
  /\ ~ Going <=> \/ phase = "parent" /\ out # "parsing"
                 \/ \E i \in 1..Len(reservedSeen) : ~ IsSoundReserved(reservedSeen[i])
                 \/ \E i \in 1..Len(memorySeen) : ~ IsSoundMemory(memorySeen[i])
  /\ out = "CellsMismatch" => ~ InRootSpace(parent)

(* "the ranges can be specified in the reg property of a single memory     *)
(* node" (src/src/node/root.rs:40), whose unit address is where they start.*)
OneNodeForManyRanges ==
  out = "Reg" =>
    LET kid == memorySeen[Len(memorySeen)]
    IN  ~ (kid.reg # None /\ FitsCells(kid.reg) /\ Len(kid.reg) > 0 /\ kid.address = Pairs(kid.reg)[1][1])
=============================================================================
