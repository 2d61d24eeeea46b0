---------------------------- MODULE MC_PathLookup ----------------------------
(* Small trees in which the names of children, of aliases and of regions   *)
(* overlap, all lists of up to two aliases over a few paths of each sort,  *)
(* also with two spellings of one name.                                    *)
EXTENDS PathLookup

CONSTANTS soc, uart, bad, comma

MCNames  == {soc, uart, Reserved}
MCBad    == {bad}
MCCommas == {comma}

MCTrees ==
  {[nodes |-> {<<soc>>}, regions |-> {}],
   [nodes |-> {<<soc>>, <<soc, uart>>, <<soc, uart, soc>>}, regions |-> {uart}],
   [nodes |-> {<<soc>>, <<uart>>, <<soc, soc>>, <<Reserved, uart, soc>>}, regions |-> {uart}]}

MCPaths ==
  {<<>>, <<soc>>, <<uart>>, <<soc, uart>>, <<uart, soc>>, <<uart, soc, soc>>,
   <<soc, bad>>, <<uart, bad>>, <<bad>>,
   <<Reserved>>, <<Reserved, uart>>, <<Reserved, soc>>, <<Reserved, uart, soc>>}

MCValues == {<<soc>>, <<soc, uart>>, <<uart, soc>>, <<Reserved, uart, soc>>, <<soc, bad>>, Invalid}

Alias(n, p) == [name |-> n, path |-> p]

MCLists ==
  {<<>>, <<Alias(bad, <<soc>>)>>, <<Alias(comma, Invalid)>>}
    \cup {<<Alias(n, p)>> : n \in MCNames, p \in MCValues}
    \cup {<<Alias(uart, p), Alias(soc, q)>> : p \in {<<soc>>, <<soc, uart>>}, q \in MCValues}
    \cup {<<Alias(uart, p), Alias(uart, q)>> : p, q \in {<<soc>>, <<soc, uart>>, Invalid}}

NoChosen == [children |-> FALSE, bootargs |-> None, stdout |-> None, stdin |-> None, others |-> "valid"]

MCChosen ==
  {None, [NoChosen EXCEPT !.children = TRUE], [NoChosen EXCEPT !.bootargs = Invalid],
   [NoChosen EXCEPT !.others = "OsPrefix", !.bootargs = "valid"]}
    \cup {[NoChosen EXCEPT !.stdout = o, !.stdin = i] :
            o \in {None, <<>>, <<soc, uart>>}, i \in {None, <<uart, soc>>, Invalid}}
=============================================================================
