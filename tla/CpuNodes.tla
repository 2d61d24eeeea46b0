------------------------------ MODULE CpuNodes ------------------------------
(***************************************************************************)
(* The `/cpus` node (src/src/node/cpu.rs, src/src/node/cache.rs): first    *)
(* its children that are not named after CPUs become caches, under their   *)
(* phandles, then the others become CPUs, which refer to the caches and    *)
(* take from `/cpus` every property they do not have themselves.  Last,    *)
(* `from_bytes` looks for the boot CPU (src/src/dtb.rs).                   *)
(*                                                                         *)
(* The children are chosen as they are read, caches first; an entry of the *)
(* maps holds the position of its child in `kids`.                         *)
(***************************************************************************)
EXTENDS MapContents, Checks, FiniteSets

CONSTANTS Parents,   (* the `/cpus` nodes: cells and properties            *)
          CacheKids, (* the children that are not named after CPUs         *)
          CpuKids,   (* those that are                                     *)
          BootIds,   (* the boot CPUs a header may name                    *)
          MaxKids,   (* bound: children                                    *)
          None,      (* no such property, no unit address, no cache        *)
          Invalid    (* a value that does not convert                      *)

ASSUME MaxKidsAssumption == MaxKids \in Nat
ASSUME BootIdsAssumption == BootIds \subseteq Nat

Optional(S) == S \cup {None, Invalid}

(* The values of properties that are told apart.                           *)
Words == {"cpu", "other", "address", "spin-table", "vendor", "okay", "disabled", "fail",
          "present", "cache"}

ASSUME NoneAssumption ==
  /\ None \notin Nat /\ None \notin Words
  /\ Invalid \notin Nat /\ Invalid \notin Words /\ Invalid # None

(* What the conversion asks of the properties of a CPU.  `cache`, `icache` *)
(* and `dcache` stand for the four figures of each of three caches, which  *)
(* are all read alike.                                                     *)
CpuProps ==
  [device_type : {"cpu", "other", None}, release : Optional({"address"}),
   method : Optional({"spin-table", "vendor"}), next : Optional(Nat),
   status : Optional({"okay", "disabled", "fail"}), reg : Optional(Nat),
   unified : {"present", None}, cache : Optional(Nat), icache : Optional(Nat),
   dcache : Optional(Nat)]

(* `below` is how the conversion of a cache's own children ends.           *)
CacheNodes == [compatible : {"cache", None}, phandle : Optional(Nat),
               level : Optional(Nat), below : {"done", "Cells", "Child", "panic"}]
CpuNodeSet == [address : Nat \cup {None}, props : CpuProps]

ASSUME KidsAssumption == CacheKids \subseteq CacheNodes /\ CpuKids \subseteq CpuNodeSet
ASSUME ParentsAssumption ==
  Parents \subseteq [cells : (Nat \cup {Invalid}) \X (Nat \cup {Invalid}), base : CpuProps]

VARIABLES parent, (* the `/cpus` node                                      *)
          phase,  (* "cells", "caches", "cpus", "boot" or "done"           *)
          kids,   (* the children read                                     *)
          list,   (* the entries collected in this phase, not yet sorted   *)
          caches, (* the map of caches                                     *)
          cpus,   (* the map of CPUs                                       *)
          linked, (* for each child that is a CPU, its next cache          *)
          l1,     (* and the descriptions of its own cache or two caches   *)
          boot,   (* the entry of `cpus` that is the boot CPU              *)
          out     (* "parsing", "Ok", or the error                         *)

vars == <<parent, phase, kids, list, caches, cpus, linked, l1, boot, out>>

Init ==
  /\ parent \in Parents
  /\ phase = "cells" /\ kids = <<>> /\ list = <<>> /\ caches = <<>> /\ cpus = <<>>
  /\ linked = <<>> /\ l1 = <<>> /\ boot = 0 /\ out = "parsing"
-----------------------------------------------------------------------------
(* HigherLevel::new.                                                       *)
CacheChecks(kid) ==
  <<Check("BadType", kid.compatible = "cache"),
    Check("PHandle", kid.phandle \notin {None, Invalid}),
    Check("Level", kid.level \notin {None, Invalid}),
    Check(kid.below, kid.below = "done")>>

(* Map::extend_preserve with the properties of `/cpus`.                    *)
Inherit(props) ==
  [p \in DOMAIN props |-> IF props[p] = None THEN parent.base[p] ELSE props[p]]

AnyCache(phandle) == 1..Len(caches)

CachesAt(phandle) == Matches(caches, phandle)

(* Description::from_prefix: a figure that is zero or no number is none.   *)
Description(figure) == IF figure \in {Invalid, 0} THEN None ELSE figure

(* L1::extract_from: one cache, or one for instructions and one for data.  *)
L1(p) ==
  IF p.unified # None THEN <<Description(p.cache)>>
  ELSE <<Description(p.icache), Description(p.dcache)>>

MethodChecksUnlessFailed(p) ==
  IF p.status = "fail" THEN <<>>
  ELSE <<Check("EnableMethod", p.method # Invalid),
         Check("ReleaseAddr", p.method = "spin-table" => p.release = "address")>>

(* EnableMethod::extract_from_properties; no method is no error.           *)
MethodChecks(p) ==
  <<Check("EnableMethod", p.method # Invalid),
    Check("ReleaseAddr", p.method = "spin-table" => p.release = "address")>>

(* Node::new, and the test of the unit address that its caller makes.      *)
CpuChecks(address, p) ==
  <<Check("DeviceType", p.device_type = "cpu")>> \o MethodChecks(p) \o
  <<Check("EnableMethod", p.status = "disabled" => p.method # None),
    Check("Status", p.status # Invalid),
    Check("NextLevelCache", p.next = None \/ CachesAt(p.next) # {}),
    Check("Reg", p.reg # None),
    Check("panic", parent.cells[1] = 1),
    Check("Reg", p.reg # Invalid),
    Check("RegMismatch", address = None \/ address = p.reg)>>

CollectedUnsorted(entries) == {entries}

CollectedOnce(entries) ==
  SortedPermutations(FoldSeq(LAMBDA e, kept : IF e.key \in KeysOf(kept) THEN kept
                                              ELSE Append(kept, e), <<>>, entries))

(* Map::from_iter.                                                         *)
Collected(entries) == SortedPermutations(entries)

(* Reads the next child; it becomes an entry under the key, unless one of  *)
(* the checks fails.                                                       *)
ReadKid(kid, key, checks) ==
  /\ out = "parsing" /\ Len(kids) < MaxKids
  /\ kids' = Append(kids, kid)
  /\ IF FirstError(checks) = "none"
     THEN list' = Append(list, Entry(key, Len(kids'))) /\ UNCHANGED out
     ELSE out' = FirstError(checks) /\ UNCHANGED list
  /\ UNCHANGED <<parent, phase, caches, cpus, boot>>

CheckCells ==
  /\ phase = "cells" /\ out = "parsing"
  /\ IF parent.cells[2] = 0 /\ parent.cells[1] \notin {Invalid, 0}
     THEN phase' = "caches" /\ UNCHANGED out
     ELSE out' = "RootReg" /\ UNCHANGED phase
  /\ UNCHANGED <<parent, kids, list, caches, cpus, linked, l1, boot>>

ReadCache(kid) ==
  /\ phase = "caches" /\ ReadKid(kid, kid.phandle, CacheChecks(kid))
  /\ UNCHANGED <<linked, l1>>

CachesRead ==
  /\ phase = "caches" /\ out = "parsing"
  /\ caches' \in Collected(list) /\ list' = <<>> /\ phase' = "cpus"
  /\ UNCHANGED <<parent, kids, cpus, linked, l1, boot, out>>

ReadCpu(kid) ==
  LET p == Inherit(kid.props)
  IN  /\ phase = "cpus" /\ ReadKid(kid, p.reg, CpuChecks(kid.address, p))
      /\ IF out' = "parsing" /\ p.next # None
         THEN \E i \in CachesAt(p.next) : linked' = With(linked, Len(kids'), caches[i].val)
         ELSE UNCHANGED linked
      /\ l1' = IF out' = "parsing" THEN With(l1, Len(kids'), L1(p)) ELSE l1

CpusRead ==
  /\ phase = "cpus" /\ out = "parsing"
  /\ cpus' \in Collected(list) /\ list' = <<>> /\ phase' = "boot"
  /\ UNCHANGED <<parent, kids, caches, linked, l1, boot, out>>

BootAsIndex(id) == {i \in 1..Len(cpus) : i = id + 1}

BootMatches(id) == Matches(cpus, id)

(* The boot CPU, looked up when the rest of the tree has been converted.   *)
FindBootCpu(id) ==
  /\ phase = "boot" /\ out = "parsing"
  /\ \/ \E i \in BootMatches(id) : boot' = i /\ phase' = "done" /\ out' = "Ok"
     \/ BootMatches(id) = {} /\ out' = "BootCpu" /\ UNCHANGED <<boot, phase>>
  /\ UNCHANGED <<parent, kids, list, caches, cpus, linked, l1>>

Next ==
  \/ CheckCells
  \/ \E kid \in CacheKids : ReadCache(kid)
  \/ CachesRead
  \/ \E kid \in CpuKids : ReadCpu(kid)
  \/ CpusRead
  \/ \E id \in BootIds : FindBootCpu(id)

Spec == Init /\ [][Next]_vars
-----------------------------------------------------------------------------
Errors == {"BadType", "PHandle", "Level", "Cells", "Child", "DeviceType", "EnableMethod",
           "ReleaseAddr", "Status", "NextLevelCache", "Reg", "RootReg", "RegMismatch", "BootCpu", "panic"}

IsMapOf(map, S) ==
  /\ map \in Seq([key : Nat, val : 1..Len(kids)]) /\ IsSortedByKey(map)
  /\ \A i \in 1..Len(map) : kids[map[i].val] \in S

(* The two maps are sorted, of children of the right sort; the links of    *)
(* CPUs end at caches.                                                     *)
TypeOK ==
  /\ parent \in Parents /\ phase \in {"cells", "caches", "cpus", "boot", "done"}
  /\ kids \in Seq(CacheKids \cup CpuKids)
  /\ list \in Seq([key : Nat, val : 1..Len(kids)])
  /\ IsMapOf(caches, CacheKids) /\ IsMapOf(cpus, CpuKids)
  /\ linked \in [DOMAIN linked -> {caches[i].val : i \in 1..Len(caches)}]
  /\ boot \in 0..Len(cpus)
  /\ out \in Errors \cup {"parsing", "Ok"}

CpusOf   == {k \in 1..Len(kids) : kids[k] \in CpuKids}
CachesOf == {k \in 1..Len(kids) : kids[k] \in CacheKids}

(* The property of a CPU as `/cpus` and its own node declare it.           *)
Property(k, p) ==
  IF kids[k].props[p] # None THEN kids[k].props[p] ELSE parent.base[p]

(* Every child of `/cpus` is in one map exactly, once, under its own key:  *)
(* also those whose key another child has too.                             *)
NothingLost ==
  out = "Ok" =>
    /\ {<<e.key, e.val>> : e \in ToSet(cpus)} = {<<Property(k, "reg"), k>> : k \in CpusOf}
    /\ {<<e.key, e.val>> : e \in ToSet(caches)} = {<<kids[k].phandle, k>> : k \in CachesOf}
    /\ \A map \in {cpus, caches} :
         \A i, j \in 1..Len(map) : map[i].val = map[j].val => i = j

DeclaredFigure(k, p) ==
  IF Property(k, p) \in {Invalid, 0} THEN None ELSE Property(k, p)

(* A CPU that names a next cache, itself or through `/cpus`, is linked to  *)
(* a cache that has this phandle, wherever among the children it stands,   *)
(* and no other CPU is linked to anything.  Whether a CPU has one          *)
(* first-level cache or two, and each figure of them, is what its own node *)
(* says, else what `/cpus` says: figures for the wrong kind of cache are   *)
(* not used, and an unusable figure of the CPU still hides that of `/cpus`.*)
CachesAreThoseDeclared ==
  /\ phase \in {"boot", "done"} =>
       /\ DOMAIN l1 = CpusOf
       /\ \A k \in CpusOf :
            IF Property(k, "next") = None THEN k \notin DOMAIN linked
            ELSE k \in DOMAIN linked /\ kids[linked[k]].phandle = Property(k, "next")
  /\ \A k \in DOMAIN l1 :
       l1[k] = IF Property(k, "unified") = "present" THEN <<DeclaredFigure(k, "cache")>>
               ELSE <<DeclaredFigure(k, "icache"), DeclaredFigure(k, "dcache")>>

IsSoundCpu(k) ==
  /\ Property(k, "device_type") = "cpu"
  /\ \/ Property(k, "method") = "vendor"
     \/ Property(k, "method") = "spin-table" /\ Property(k, "release") = "address"
     \/ Property(k, "method") = None /\ Property(k, "status") # "disabled"
  /\ Property(k, "status") # Invalid
  /\ Property(k, "reg") \in Nat /\ kids[k].address \in {None, Property(k, "reg")}
  /\ Property(k, "next") \in {None} \cup {kids[c].phandle : c \in CachesOf}

IsSoundCache(k) ==
  /\ kids[k].compatible = "cache" /\ kids[k].below = "done"
  /\ {kids[k].phandle, kids[k].level} \cap {None, Invalid} = {}

CellsAreSound == parent.cells[2] = 0 /\ parent.cells[1] \notin {Invalid, 0}

(* `/cpus` is refused exactly when something in it is wrong: a CPU that is *)
(* not usable as it stands is refused even if its status is "fail", and a  *)
(* property of `/cpus` can be what is missing or what is wrong.            *)
VerdictIsExact ==
  /\ phase # "cells" => CellsAreSound
  /\ (out \notin {"parsing", "Ok", "BootCpu"}) <=>
       \/ out # "parsing" /\ ~ CellsAreSound
       \/ \E k \in CpusOf : ~ IsSoundCpu(k) \/ parent.cells[1] # 1
       \/ \E k \in CachesOf : ~ IsSoundCache(k)

(* "It shall be identical to the physical ID given in the `reg` property   *)
(* of that CPU node" (src/src/dtb.rs:265): the boot CPU is a child of      *)
(* `/cpus` with the number that the header names, if there is one.         *)
BootCpuHasItsId ==
  [][\A id \in BootIds : FindBootCpu(id) =>
       IF \E k \in CpusOf : Property(k, "reg") = id
       THEN out' = "Ok" /\ Property(cpus[boot'].val, "reg") = id
       ELSE out' = "BootCpu"]_vars
=============================================================================
