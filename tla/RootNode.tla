------------------------------ MODULE RootNode ------------------------------
(***************************************************************************)
(* The conversion of the raw root (src/src/node/root.rs, `try_from`): its  *)
(* properties are looked at, its children go to one conversion after the   *)
(* other, by name, and what nobody asked for becomes device nodes.  How a  *)
(* conversion ends is up to the child; the conversions themselves are the  *)
(* subject of CpuNodes, MemoryNodes, DeviceNodes and PathLookup.           *)
(*                                                                         *)
(* The children come in a `Map`, in which two may have the same name.      *)
(***************************************************************************)
EXTENDS MapContents, Checks, FiniteSets

CONSTANTS Roots,     (* the raw roots: properties and a list of children   *)
          Aliases, Symbols, Chosen, Cpus, Memory, ReservedMemory, (* names *)
          MaxUnit,   (* bound: unit addresses                              *)
          Rpi        (* is the feature "rpi" on?                           *)

Stages == <<"cpus", "reserved", "memory", "device", "aliases", "symbols", "chosen">>

(* A node-name is a number, as names are ordered; `unit` is 0 without a    *)
(* unit address and else one more than it.  `ends` is how each conversion  *)
(* of the child would end: that of aliases and symbols has no errors.      *)
Kid == [name : Nat, unit : 0..MaxUnit, ends : [ToSet(Stages) -> {"done", "error", "panic"}]]

Validity == {"valid", "invalid", "absent"}

ASSUME RootAssumption ==
  /\ MaxUnit \in Nat /\ Rpi \in BOOLEAN
  /\ {Aliases, Symbols, Chosen, Cpus, Memory, ReservedMemory} \subseteq Nat
  /\ Cardinality({Aliases, Symbols, Chosen, Cpus, Memory, ReservedMemory}) = 6
  /\ Roots \subseteq [props : [model : Validity, compatible : Validity, serial : Validity,
                               cells : Validity, chassis : Validity],
                      kids : Seq(Kid)]
  /\ \A root \in Roots : \A i \in DOMAIN root.kids :
       "error" \notin {root.kids[i].ends["aliases"], root.kids[i].ends["symbols"]}

VARIABLES props,  (* the properties of the root                            *)
          kids,   (* its children, in the order of the blob                *)
          left,   (* the map of those that are left, by position           *)
          aside,  (* those set aside for later                             *)
          routed, (* the conversions made: of which child, to what         *)
          phase,  (* what comes next                                       *)
          out     (* "parsing", "Ok", or the error                         *)

vars == <<props, kids, left, aside, routed, phase, out>>

KeyOf(name, unit) == name * (MaxUnit + 1) + unit
KeyOfKid(k) == KeyOf(kids[k].name, kids[k].unit)

CollectedUnsorted(entries) == {entries}

(* Map::from_iter, which RawNode::new calls.                               *)
Collected(entries) == SortedPermutations(entries)

Init ==
  /\ \E root \in Roots : props = root.props /\ kids = root.kids
  /\ left \in Collected([k \in 1..Len(kids) |-> Entry(KeyOfKid(k), k)])
  /\ aside = [s \in {"aliases", "symbols", "chosen"} |-> 0]
  /\ routed = <<>> /\ phase = "properties" /\ out = "parsing"
-----------------------------------------------------------------------------
PropertyChecksAllRequired ==
  <<Check("Model", props.model = "valid"),
    Check("Model", props.compatible = "valid"),
    Check("SerialNumber", props.serial = "valid"),
    Check("Cells", props.cells # "invalid")>>

(* The cells are invalid also if sizes have none.                          *)
PropertyChecks ==
  <<Check("Model", props.model = "valid"),
    Check("Model", props.compatible = "valid"),
    Check("SerialNumber", props.serial # "invalid"),
    Check("Cells", props.cells # "invalid")>>

At(p) == phase = p /\ out = "parsing"

Fail(error) == out' = error /\ UNCHANGED <<left, aside, routed, phase>>

GoTo(p) == phase' = p /\ UNCHANGED out

ErrorOf(s) ==
  CASE s = "cpus" -> "Cpu" [] s = "reserved" -> "ReservedMemory" [] s = "memory" -> "Memory"
    [] s = "device" -> "Child" [] s = "chosen" -> "Chosen"

(* The child goes to this conversion, and `try_from` on to `next`.         *)
Convert(k, s, next) ==
  /\ routed' = Append(routed, [kid |-> k, stage |-> s])
  /\ CASE kids[k].ends[s] = "done"  -> GoTo(next)
       [] kids[k].ends[s] = "error" -> out' = ErrorOf(s) /\ UNCHANGED phase
       [] kids[k].ends[s] = "panic" -> out' = "panic" /\ UNCHANGED phase

FoundByNodeName(map, name) == {i \in 1..Len(map) : kids[map[i].val].name = name}

(* The children of this name without unit address.                         *)
Found(map, name) == Matches(map, KeyOf(name, 0))

WithoutNothing(map, i) == map

WithoutSwapping(map, i) == [j \in 1..Len(map) - 1 |-> IF j = i THEN Last(map) ELSE map[j]]

Without(map, i) == RemoveAt(map, i)

(* Map::remove: no child, or any one of those that have the name.          *)
Removals(map, name) ==
  IF Found(map, name) = {} THEN {[kid |-> 0, rest |-> map]}
  ELSE {[kid |-> map[i].val, rest |-> Without(map, i)] : i \in Found(map, name)}

ReadProperties ==
  /\ At("properties")
  /\ IF FirstError(PropertyChecks) = "none"
     THEN GoTo("cpus") /\ UNCHANGED <<left, aside, routed>>
     ELSE Fail(FirstError(PropertyChecks))
  /\ UNCHANGED <<props, kids>>

ReadCpus ==
  /\ At("cpus")
  /\ \E r \in Removals(left, Cpus) :
       IF r.kid = 0 THEN Fail("CpuRoot")
       ELSE left' = r.rest /\ Convert(r.kid, "cpus", "reserved") /\ UNCHANGED aside
  /\ UNCHANGED <<props, kids>>

ReadReserved ==
  /\ At("reserved")
  /\ \E r \in Removals(left, ReservedMemory) :
       /\ left' = r.rest
       /\ IF r.kid = 0 THEN GoTo("memory") /\ UNCHANGED routed
          ELSE Convert(r.kid, "reserved", "memory")
  /\ UNCHANGED <<props, kids, aside>>

IsMemory(i) == kids[left[i].val].name = Memory

(* The next item of `extract_if`, whatever its unit address.               *)
ReadMemory ==
  /\ At("memory")
  /\ \E i \in 1..Len(left) :
       /\ IsMemory(i) /\ \A j \in 1..i - 1 : ~ IsMemory(j)
       /\ left' = Without(left, i) /\ Convert(left[i].val, "memory", "memory")
  /\ UNCHANGED <<props, kids, aside>>

SymbolsRemovals(map) ==
  IF Rpi THEN Removals(map, Symbols) ELSE {[kid |-> 0, rest |-> map]}

(* After the memory: the chassis, and the children whose paths can only be *)
(* followed when there are device nodes.                                   *)
SetAside ==
  /\ At("memory") /\ \A i \in 1..Len(left) : ~ IsMemory(i)
  /\ IF props.chassis = "invalid" THEN Fail("Chassis")
     ELSE \E a \in Removals(left, Aliases) : \E s \in SymbolsRemovals(a.rest) :
          \E c \in Removals(s.rest, Chosen) :
            /\ left' = c.rest
            /\ aside' = [aliases |-> a.kid, symbols |-> s.kid, chosen |-> c.kid]
            /\ GoTo("device") /\ UNCHANGED routed
  /\ UNCHANGED <<props, kids>>

(* The next child that `into_components` converts; then no more are left.  *)
ReadDevice ==
  /\ At("device")
  /\ IF left = <<>> THEN GoTo("aliases") /\ UNCHANGED <<left, routed>>
     ELSE left' = Tail(left) /\ Convert(Head(left).val, "device", "device")
  /\ UNCHANGED <<props, kids, aside>>

Follow(s, next) ==
  /\ At(s)
  /\ IF aside[s] = 0 THEN GoTo(next) /\ UNCHANGED <<aside, routed>>
     ELSE aside' = [aside EXCEPT ![s] = 0] /\ Convert(aside[s], s, next)
  /\ UNCHANGED <<props, kids, left>>

Complete ==
  /\ At("complete") /\ out' = "Ok"
  /\ UNCHANGED <<props, kids, left, aside, routed, phase>>

Next ==
  \/ ReadProperties \/ ReadCpus \/ ReadReserved \/ ReadMemory \/ SetAside \/ ReadDevice
  \/ Follow("aliases", "symbols") \/ Follow("symbols", "chosen") \/ Follow("chosen", "complete")
  \/ Complete

Spec == Init /\ [][Next]_vars
-----------------------------------------------------------------------------
Errors == {"Model", "SerialNumber", "Cells", "CpuRoot", "Cpu", "ReservedMemory", "Memory",
           "Chassis", "Child", "Chosen", "panic"}

(* The variables keep their shape, and what is left is sorted: a name can  *)
(* be looked up at any time.                                               *)
TypeOK ==
  /\ left \in Seq([key : Nat, val : DOMAIN kids]) /\ IsSortedByKey(left)
  /\ aside \in [{"aliases", "symbols", "chosen"} -> 0..Len(kids)]
  /\ routed \in Seq([kid : DOMAIN kids, stage : ToSet(Stages)])
  /\ phase \in ToSet(Stages) \cup {"properties", "complete"}
  /\ out \in Errors \cup {"parsing", "Ok"}

(* No child of the root is lost and none is converted twice: at any time   *)
(* each has been converted, is set aside, or is left, and all have been    *)
(* when parsing succeeds.                                                  *)
EveryChildOnce ==
  /\ \A k \in DOMAIN kids :
       Cardinality({i \in DOMAIN routed : routed[i].kid = k})
         + Cardinality({i \in DOMAIN left : left[i].val = k})
         + Cardinality({s \in DOMAIN aside : aside[s] = k}) = 1
  /\ out = "Ok" => Len(routed) = Len(kids)

(* The conversion that the name of a child stands for.                     *)
StageOf(k) ==
  LET name == kids[k].name
  IN  IF name = Memory THEN "memory"
      ELSE IF kids[k].unit # 0 THEN "device"
      ELSE CASE name = Cpus                -> "cpus"
             [] name = ReservedMemory      -> "reserved"
             [] name = Aliases             -> "aliases"
             [] name = Chosen              -> "chosen"
             [] name = Symbols             -> IF Rpi THEN "symbols" ELSE "device"
             [] OTHER                      -> "device"

Twins(j, k) == j # k /\ KeyOfKid(j) = KeyOfKid(k)

(* A child is converted to what its name says.  The one exception is a     *)
(* child that has the same name as another: one of them is, and the others *)
(* end among the devices; of memory nodes all are memory.                  *)
RoutedByName ==
  \A i \in DOMAIN routed :
    LET k == routed[i].kid
        s == routed[i].stage
    IN  \/ s = StageOf(k)
        \/ /\ s = "device" /\ StageOf(k) # "memory"
           /\ \E j \in DOMAIN kids :
                /\ Twins(j, k)
                /\ \/ [kid |-> j, stage |-> StageOf(k)] \in ToSet(routed)
                   \/ StageOf(k) \in DOMAIN aside /\ aside[StageOf(k)] = j

Rank(s) == CHOOSE n \in DOMAIN Stages : Stages[n] = s

(* Whatever the order of the blob, the map of phandles sees the caches     *)
(* before the reserved regions and those before the devices, memory        *)
(* regions and devices come in the order of their names, and paths are     *)
(* followed only when every device is there.                               *)
OrderOfConversions ==
  \A j \in DOMAIN routed : \A i \in 1..j - 1 :
    \/ Rank(routed[i].stage) < Rank(routed[j].stage)
    \/ /\ routed[i].stage = routed[j].stage
       /\ KeyOfKid(routed[i].kid) <= KeyOfKid(routed[j].kid)

(* Everything that is wrong with a root, and when it is found.             *)
Faults ==
  {f \in {[at |-> <<0, 1>>, error |-> "Model",        is |-> "valid" # props.model],
          [at |-> <<0, 1>>, error |-> "Model",        is |-> "valid" # props.compatible],
          [at |-> <<0, 2>>, error |-> "SerialNumber", is |-> "invalid" = props.serial],
          [at |-> <<0, 3>>, error |-> "Cells",        is |-> "invalid" = props.cells],
          [at |-> <<0, 4>>, error |-> "CpuRoot",
             is |-> \A k \in DOMAIN kids : StageOf(k) # "cpus"],
          [at |-> <<Rank("device"), -1>>, error |-> "Chassis", is |-> "invalid" = props.chassis]} :
     f.is}
    \cup {[at |-> <<Rank(StageOf(k)), KeyOfKid(k)>>, is |-> TRUE,
           error |-> IF kids[k].ends[StageOf(k)] = "panic" THEN "panic" ELSE ErrorOf(StageOf(k))] :
            k \in {k \in DOMAIN kids : kids[k].ends[StageOf(k)] # "done"}}

IsFirst(f) ==
  \A g \in Faults : f.at[1] < g.at[1] \/ (f.at[1] = g.at[1] /\ f.at[2] <= g.at[2])

(* Of several faults the one reported depends on what they are, never on   *)
(* the order of the blob, and every fault is found.                        *)
FirstFaultIsReported ==
  (\A j, k \in DOMAIN kids : ~ Twins(j, k)) /\ out # "parsing" =>
    IF Faults = {} THEN out = "Ok" ELSE \E f \in Faults : IsFirst(f) /\ out = f.error
=============================================================================
