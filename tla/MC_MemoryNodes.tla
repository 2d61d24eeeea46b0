--------------------------- MODULE MC_MemoryNodes ---------------------------
(* Up to three nodes, over roots with one or two cells for an address or a *)
(* size; lists of up to two pairs, and some that end within a pair.        *)
EXTENDS MemoryNodes

MCRootCells == {<<1, 1>>, <<2, 1>>, <<0, 2>>}
MCParents ==
  {[cells |-> c, ranges |-> r] : c \in MCRootCells \cup {<<1, 2>>, <<2, 2>>, <<Invalid, 1>>},
                                r \in {<<>>, None, <<1>>}}

MCLists == {None, <<>>, <<0>>, <<1, 0>>, <<0, 1, 1>>, <<1, 0, 0, 1>>, <<0, 1, 0, 1>>,
            <<0, 1, 0, 0, 0, 1>>}

Plain ==
  [size |-> None, alignment |-> None, reg |-> None, alloc |-> None, noMap |-> FALSE,
   reusable |-> FALSE, compatible |-> None, below |-> "done"]

MCReservedKids ==
  {[Plain EXCEPT !.reg = l] : l \in MCLists}
    \cup {[Plain EXCEPT !.size = s, !.alignment = <<0>>] : s \in {<<1>>, <<1, 0>>, None}}
    \cup {[Plain EXCEPT !.size = s, !.alloc = l] : s \in {<<1>>, <<1, 0>>}, l \in MCLists}
    \cup {[Plain EXCEPT !.size = <<1>>, !.reg = <<1, 0>>, !.noMap = n, !.reusable = r] :
            n \in BOOLEAN, r \in BOOLEAN}
    \cup {[Plain EXCEPT !.reg = <<>>, !.compatible = Invalid],
          [Plain EXCEPT !.size = <<1, 1>>, !.alignment = <<0, 1>>],
          [Plain EXCEPT !.below = "Child"], [Plain EXCEPT !.below = "panic", !.size = <<1>>]}

MCMemoryKids ==
  [address : {None, 0, 1}, children : {FALSE}, isMemory : {TRUE}, reg : MCLists]
    \cup [address : {None}, children : BOOLEAN, isMemory : BOOLEAN, reg : {<<>>}]
=============================================================================
