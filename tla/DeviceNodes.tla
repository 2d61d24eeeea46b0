---------------------------- MODULE DeviceNodes ----------------------------
(***************************************************************************)
(* The conversion of raw nodes to device nodes (src/src/node/device.rs):   *)
(* `Node::new` calls itself for every child while `Rc::new_cyclic` builds  *)
(* the parent, and all calls share the map of phandles.  It is entered     *)
(* through `RawNode::into_components` (src/src/node/mod.rs): for the cache *)
(* nodes, then the reserved regions, then the root.                        *)
(*                                                                         *)
(* The raw tree is chosen as it is read: `nodes` and `calls` are the part  *)
(* read so far.  A property value is what the conversion asks of it: an    *)
(* integer, or the words of a list of cells, which are zero or not.        *)
(***************************************************************************)
EXTENDS MapContents, Checks

CONSTANTS Raws,       (* the raw nodes a child may be                      *)
          Cells,      (* the pairs of cell properties a caller may have    *)
          RootCells,  (* those of the root                                 *)
          MaxNodes,   (* bound: device nodes of all calls                  *)
          MaxCalls,   (* bound: calls of `into_components`                 *)
          Absent,     (* no such property                                  *)
          Invalid,    (* a value that is not one small enough integer      *)
          Padded      (* a list of cells that ends within a word           *)

ASSUME BoundsAssumption == MaxNodes \in Nat /\ MaxCalls \in Nat
ASSUME NotNumbersAssumption ==
  /\ {Absent, Invalid, Padded} \cap Int = {}
  /\ {Absent, Padded} \cap Seq(Nat) = {}
  /\ Absent # Invalid /\ Absent # Padded

CellValues == Nat \cup {Absent, Invalid}
Lists      == Seq(Nat) \cup {Absent, Padded}

(* What a node's properties say: its cells, the words of `reg` and         *)
(* `ranges`, which of the three string properties are not valid, and the   *)
(* integers of `phandle` and of the interrupt properties.                  *)
RawNode ==
  [cells : CellValues \X CellValues, reg : Lists, ranges : Lists,
   strings : SUBSET {"Compatible", "Model", "Status"},
   phandle : Int \cup {Absent, Invalid}, interrupts : Int \cup {Absent, Invalid}]

ASSUME RawsAssumption == Raws \subseteq RawNode

(* The root's own cells have been checked by then (src/src/node/root.rs).  *)
ASSUME CellsAssumption ==
  /\ Cells \subseteq CellValues \X CellValues
  /\ \A c \in RootCells : /\ c \in CellValues \X CellValues
                          /\ Invalid \notin {c[1], c[2]} /\ c[2] # 0

Kinds == <<"cache", "region", "root">>
Outs == {"Reg", "Compatible", "Model", "Ranges", "Status", "BadPHandle", "DuplicatePHandle",
         "Cells", "parsing", "Ok", "panic"}

VARIABLES calls,    (* the calls of `into_components`: kind and cells      *)
          calling,  (* is one of them running, the last?                   *)
          given,    (* the cells it hands to the children of its node      *)
          nodes,    (* the raw nodes, and the node each is a child of      *)
          stack,    (* the running calls of `Node::new`, the last on top   *)
          phandles, (* the map of phandles                                 *)
          out       (* how parsing ended                                   *)

vars == <<calls, calling, given, nodes, stack, phandles, out>>

Init ==
  /\ calls = <<>> /\ calling = FALSE /\ given = <<Absent, Absent>>
  /\ nodes = <<>> /\ stack = <<>> /\ phandles = <<>> /\ out = "parsing"
-----------------------------------------------------------------------------
ExtractWithoutDefault(cells) ==
  <<cells[1], IF cells[2] = Absent THEN 1 ELSE cells[2]>>

(* RawNode::extract_cell_counts: the values, or the defaults.              *)
ExtractCellCounts(cells) ==
  <<IF cells[1] = Absent THEN 2 ELSE cells[1], IF cells[2] = Absent THEN 1 ELSE cells[2]>>

(* The words of an integer that has this many cells: which of them are     *)
(* beyond the two that its value is taken from?                            *)
IntegerOf(cells) == [i \in 1..cells |-> i > 2]

(* Does a list consist of whole groups of such integers?                   *)
IsWhole(list, group) ==
  list # Padded /\ IF group # <<>> THEN Len(list) % Len(group) = 0 ELSE list = <<>>

(* Are the words beyond the value of their integer all zero?               *)
IsNarrow(list, group) ==
  \A i \in 1..Len(list) : group[((i - 1) % Len(group)) + 1] => list[i] = 0

IntoCellsSliceSilently(list, group) == IF IsWhole(list, group) THEN "Some" ELSE "None"

(* U32ByteSlice::into_cells_slice: the length is checked first, then every *)
(* integer is read, and `consume_cells` panics at one it cannot hold.      *)
IntoCellsSlice(list, group) ==
  IF ~ IsWhole(list, group) THEN "None"
  ELSE IF IsNarrow(list, group) THEN "Some" ELSE "panic"

(* The cells a node keeps for its children: its own, whatever its bus has. *)
OwnCells(raw) == ExtractCellCounts(raw.cells)

ReadReg(raw, cells) ==
  IF raw.reg = Absent THEN "Some"
  ELSE IF Invalid \in {cells[1], cells[2]} THEN "None"
  ELSE IntoCellsSlice(raw.reg, IntegerOf(cells[1]) \o IntegerOf(cells[2]))

ReadRanges(raw, cells) ==
  LET own == OwnCells(raw)
  IN  IF raw.ranges = Absent THEN "Some"
      ELSE IF Invalid \in {own[1], own[2], cells[1]} THEN "None"
      ELSE IntoCellsSlice(raw.ranges,
                          IntegerOf(own[1]) \o IntegerOf(cells[1]) \o IntegerOf(own[2]))

(* The conversions of the properties of a node on a bus with these cells,  *)
(* in the order they are made.                                             *)
PropertyChecks(raw, cells) ==
  <<Check("Reg", ReadReg(raw, cells) # "None"),
    Check("panic", ReadReg(raw, cells) # "panic"),
    Check("Compatible", "Compatible" \notin raw.strings),
    Check("Model", "Model" \notin raw.strings),
    Check("Ranges", ReadRanges(raw, cells) # "None"),
    Check("panic", ReadRanges(raw, cells) # "panic"),
    Check("Status", "Status" \notin raw.strings),
    Check("BadPHandle", raw.phandle # Invalid)>>

(* The cells the next child gets.                                          *)
CellsForChild == IF stack = <<>> THEN given ELSE Last(stack).cells

(* How an error of a node ends, `depth` calls of `Node::new` below it: the *)
(* parent unwraps it, unless the parent is the caller's node.              *)
Propagate(error, depth) == IF depth = 0 THEN error ELSE "panic"

AnyHandle(handle) == TRUE

(* Map::insert answers nothing, for a key that is new.                     *)
IsNewHandle(handle) == handle \notin DOMAIN phandles
-----------------------------------------------------------------------------
Rank(kind) == SelectInSeq(Kinds, LAMBDA k : k = kind)

(* The root's cell properties are gone when `into_components` looks.       *)
CellsSeen(kind, cells) == IF kind = "root" THEN <<Absent, Absent>> ELSE cells

IntoComponents(kind, cells) ==
  /\ out = "parsing" /\ ~ calling /\ Len(calls) < MaxCalls
  /\ calls # <<>> => Rank(Last(calls).kind) <= Rank(kind)
  /\ calls' = Append(calls, [kind |-> kind, cells |-> cells])
  /\ given' = ExtractCellCounts(CellsSeen(kind, cells))
  /\ IF Invalid \in {given'[1], given'[2]}
     THEN out' = "Cells" /\ UNCHANGED calling
     ELSE calling' = TRUE /\ UNCHANGED out
  /\ UNCHANGED <<nodes, stack, phandles>>

(* The last child of the caller's node has been converted.                 *)
Return ==
  /\ out = "parsing" /\ calling /\ stack = <<>>
  /\ calling' = FALSE
  /\ out' = IF Last(calls).kind = "root" THEN "Ok" ELSE out
  /\ UNCHANGED <<calls, given, nodes, stack, phandles>>

(* Node::new, up to the conversion of the children.                        *)
New(raw) ==
  /\ out = "parsing" /\ calling /\ Len(nodes) < MaxNodes
  /\ LET node   == [raw    |-> raw, call |-> Len(calls),
                    parent |-> IF stack = <<>> THEN 0 ELSE Last(stack).id]
         error  == FirstError(PropertyChecks(raw, CellsForChild))
     IN  /\ nodes' = Append(nodes, node)
         /\ IF error # "none"
            THEN out' = Propagate(error, Len(stack)) /\ UNCHANGED stack
            ELSE /\ stack' = Append(stack, [id    |-> Len(nodes'),
                                            cells |-> OwnCells(raw)])
                 /\ UNCHANGED out
  /\ UNCHANGED <<calls, calling, given, phandles>>

(* Node::new, after it: the interrupt properties, which are unwrapped, and *)
(* the phandle, which is in the map even when the call then fails.         *)
Finish ==
  /\ out = "parsing" /\ stack # <<>>
  /\ LET id     == Last(stack).id
         raw    == nodes[id].raw
         handle == raw.phandle
     IN  /\ stack' = Front(stack)
         /\ \/ /\ raw.interrupts = Invalid
               /\ out' = "panic" /\ UNCHANGED phandles
            \/ /\ raw.interrupts # Invalid /\ handle = Absent
               /\ UNCHANGED <<phandles, out>>
            \/ /\ raw.interrupts # Invalid /\ handle # Absent
               /\ phandles' = With(phandles, handle, id)
               /\ out' = IF IsNewHandle(handle) THEN out
                         ELSE Propagate("DuplicatePHandle", Len(stack'))
  /\ UNCHANGED <<calls, calling, given, nodes>>

Next ==
  \/ \E k \in {"cache", "region"}, c \in Cells : IntoComponents(k, c)
  \/ \E c \in RootCells : IntoComponents("root", c)
  \/ \E raw \in Raws : New(raw)
  \/ Finish
  \/ Return

Spec == Init /\ [][Next]_vars
-----------------------------------------------------------------------------
(* The variables keep their shape; the cells of every running call are     *)
(* integers or known to be invalid, never missing.                         *)
TypeOK ==
  /\ calls \in Seq([kind : Range(Kinds), cells : CellValues \X CellValues])
  /\ calling \in BOOLEAN
  /\ calling => given \in Nat \X Nat
  /\ nodes \in Seq([raw : Raws, call : 1..Len(calls), parent : 0..Len(nodes)])
  /\ stack \in Seq([id : 1..Len(nodes), cells : (CellValues \ {Absent}) \X (CellValues \ {Absent})])
  /\ phandles \in UNION {[H -> 1..Len(nodes)] : H \in SUBSET (Int \cap {n.raw.phandle : n \in Range(nodes)})}
  /\ out \in Outs

Going == out \in {"parsing", "Ok"}

(* The nodes whose call of `Node::new` is over.                            *)
Finished == (1..Len(nodes)) \ {frame.id : frame \in Range(stack)}

HandleOf(i) == nodes[i].raw.phandle

(* The map of phandles, filled by calls at every depth and of every caller,*)
(* holds the nodes that are finished and have a phandle, each under its    *)
(* own, and no two of them have the same.                                  *)
PHandlesFaithful ==
  Going => /\ \A i \in Finished : HandleOf(i) # Absent =>
                HandleOf(i) \in DOMAIN phandles /\ phandles[HandleOf(i)] = i
           /\ \A h \in DOMAIN phandles :
                phandles[h] \in Finished /\ HandleOf(phandles[h]) = h

Or(value, default) == IF value = Absent THEN default ELSE value

IsMultiple(length, unit) == \E k \in 0..length : length = k * unit

(* In no entry of a list has the integer that begins after `start` words   *)
(* and is `width` words long more than its first two words to keep.        *)
Fits64(list, unit, start, width) ==
  \A k \in 0..Len(list), w \in 3..width :
    k * unit + start + w <= Len(list) => list[k * unit + start + w] = 0

(* The cells of the bus a node is on, as they are read.                    *)
Bus(i) ==
  LET call == calls[nodes[i].call]
  IN  IF nodes[i].parent # 0 THEN nodes[nodes[i].parent].raw.cells
      ELSE CellsSeen(call.kind, call.cells)

IsSound(i) ==
  LET raw   == nodes[i].raw
      bus   == Bus(i)
      own   == raw.cells
      unit  == Or(bus[1], 2) + Or(bus[2], 1)
      entry == Or(own[1], 2) + Or(bus[1], 2) + Or(own[2], 1)
  IN  /\ raw.strings = {} /\ raw.phandle # Invalid
      /\ raw.reg # Absent =>
           /\ raw.reg # Padded /\ Invalid \notin {bus[1], bus[2]}
           /\ IsMultiple(Len(raw.reg), unit)
           /\ Fits64(raw.reg, unit, 0, Or(bus[1], 2))
           /\ Fits64(raw.reg, unit, Or(bus[1], 2), Or(bus[2], 1))
      /\ raw.ranges # Absent =>
           /\ raw.ranges # Padded /\ Invalid \notin {own[1], own[2], bus[1]}
           /\ IsMultiple(Len(raw.ranges), entry)
           /\ Fits64(raw.ranges, entry, 0, Or(own[1], 2))
           /\ Fits64(raw.ranges, entry, Or(own[1], 2), Or(bus[1], 2))
           /\ Fits64(raw.ranges, entry, Or(own[1], 2) + Or(bus[1], 2), Or(own[2], 1))

Duplicated ==
  \E i, j \in Finished : i # j /\ HandleOf(i) = HandleOf(j) /\ HandleOf(i) # Absent

(* Parsing goes on exactly as long as nothing is wrong with what was read: *)
(* every node's lists of cells fit the cells its parent declares, also     *)
(* where those are not used by the parent itself, and no integer in them,  *)
(* be it of three cells or more, is too large for 64 bits; a node whose    *)
(* cells are invalid is fine as long as no list needs them; phandles are   *)
(* unique across the calls.                                                *)
VerdictIsExact ==
  Going <=> /\ \A i \in 1..Len(nodes) : IsSound(i)
            /\ \A i \in Finished : nodes[i].raw.interrupts # Invalid
            /\ \A c \in 1..Len(calls) : Invalid \notin {calls[c].cells[1], calls[c].cells[2]}
            /\ ~ Duplicated

(* "the address space defined by its parent bus"                           *)
(* (src/src/node/device.rs:42), for the children of the root.              *)
RootChildrenInRootSpace ==
  out = "Ok" => \A i \in 1..Len(nodes) :
    LET call == calls[nodes[i].call]
    IN  (nodes[i].parent = 0 /\ call.kind = "root" /\ nodes[i].raw.reg # Absent) =>
          IsMultiple(Len(nodes[i].raw.reg), Or(call.cells[1], 2) + Or(call.cells[2], 1))

(* "Returns an error if any part of the parsing process fails"             *)
(* (src/src/dtb.rs:195).                                                   *)
FailuresAreErrors == out # "panic"
=============================================================================
