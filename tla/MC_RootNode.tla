---------------------------- MODULE MC_RootNode ----------------------------
(* Every validity of the properties over a few lists of children, and sound*)
(* properties over lists of up to four children.  A name may have a unit   *)
(* address; a child may fail in any conversion, or only as a device.       *)
EXTENDS RootNode

Sound == [s \in ToSet(Stages) |-> "done"]
Plain(name, unit) == [name |-> name, unit |-> unit, ends |-> Sound]
Failing(name, unit, stages, end) ==
  [Plain(name, unit) EXCEPT !.ends = [s \in ToSet(Stages) |-> IF s \in stages THEN end ELSE "done"]]

Other == 5

MCGood ==
  {Plain(n, 0) : n \in {Symbols, Aliases, Chosen, Cpus, Other, ReservedMemory}}
    \cup {Plain(Memory, u) : u \in {1, 2}} \cup {Plain(Cpus, 1)}
MCBad ==
  {Failing(Cpus, 0, {"cpus"}, "error"), Failing(Cpus, 0, {"device"}, "error"),
   Failing(Cpus, 1, {"device"}, "error"), Failing(ReservedMemory, 0, {"reserved"}, "panic"),
   Failing(Memory, 1, {"memory"}, "error"), Failing(Other, 0, {"device"}, "error"),
   Failing(Aliases, 0, {"aliases"}, "panic"), Failing(Symbols, 0, {"symbols"}, "panic"),
   Failing(Symbols, 0, {"device"}, "error"), Failing(Chosen, 0, {"chosen"}, "error")}

MCLists == UNION {[1..n -> MCGood \cup MCBad] : n \in 0..2}
MCKids  == MCLists \cup {<<Plain(Cpus, 0)>> \o l : l \in MCLists \cup [1..3 -> MCGood \cup MCBad]}
             \cup {l \o <<Plain(Cpus, 0), k>> : l \in MCLists, k \in MCBad}

MCFine  == [model |-> "valid", compatible |-> "valid", serial |-> "absent",
            cells |-> "absent", chassis |-> "valid"]
MCProps == [model : Validity, compatible : Validity, serial : Validity,
            cells : Validity, chassis : Validity]
MCFew   == {<<>>, <<Plain(Cpus, 0)>>, <<Plain(Cpus, 0), Failing(Memory, 1, {"memory"}, "error")>>,
            <<Failing(Other, 0, {"device"}, "error"), Plain(Cpus, 0)>>}

MCRoots == [props : {MCFine}, kids : MCKids] \cup [props : MCProps, kids : MCFew]
=============================================================================
