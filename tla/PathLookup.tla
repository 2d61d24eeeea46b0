----------------------------- MODULE PathLookup -----------------------------
(***************************************************************************)
(* Paths through a converted tree: `find` and `find_str` of the root and   *)
(* of its device nodes (src/src/node/root.rs, src/src/node/mod.rs), and    *)
(* who calls them: the parser for `/aliases`, for `/__symbols__` with the  *)
(* feature `rpi`, for `/chosen` (src/src/node/chosen.rs), then the client. *)
(*                                                                         *)
(* A path is a sequence of names, and a device node is known by its own.   *)
(* What became a CPU, a cache or a memory region is no device node.  Two   *)
(* spellings of a unit address are one name ("a@1" and "a@01"): of two     *)
(* entries of one name in a map, a search finds one, which may be either,  *)
(* and the same one until the map changes.                                 *)
(***************************************************************************)
EXTENDS Checks, MapContents

CONSTANTS Names,    (* the names that convert to a NameRef                 *)
          Bad,      (* those that do not                                   *)
          Commas,   (* those whose conversion panics                       *)
          Reserved, (* the name of `/reserved-memory`                      *)
          Trees,    (* the trees of nodes, as converted                    *)
          Lists,    (* the properties of `/aliases` and of `/__symbols__`  *)
          Chosens,  (* the `/chosen` nodes                                 *)
          Paths,    (* the paths a client looks up                         *)
          None,     (* no such node, no such property                      *)
          Invalid,  (* a value that is no string                           *)
          Panic     (* the end of a lookup that panics                     *)

AnyName == Names \cup Bad \cup Commas

ASSUME NamesAssumption ==
  Reserved \in Names /\ Names \cap (Bad \cup Commas) = {} /\ Bad \cap Commas = {}

ASSUME PathsAssumption == Paths \subseteq Seq(AnyName)

(* The three are no paths, and differ.                                     *)
ASSUME MarkersAssumption ==
  /\ {None, Invalid, Panic} \cap Seq(AnyName) = {}
  /\ None # Invalid /\ None # Panic /\ Invalid # Panic

Strings == Seq(AnyName) \cup {Invalid}
Entries == Seq([name : AnyName, path : Strings])
Chosen  == [children : BOOLEAN, bootargs : {"valid", Invalid, None},
            stdout : Strings \cup {None}, stdin : Strings \cup {None},
            others : {"valid", "OverlayPrefix", "OsPrefix", "RpiBoardrevExt"}]

(* The nodes that a search reaches: each is below another, or a reserved   *)
(* region, or a child of the root.                                         *)
IsTree(nodes, regions) ==
  \A n \in nodes : /\ n # <<>> /\ n # <<Reserved>>
                   /\ Len(n) > 1 => \/ Front(n) \in nodes
                                    \/ Front(n) \in {<<Reserved, r>> : r \in regions}

ASSUME DocsAssumption ==
  /\ \A t \in Trees : /\ t.nodes \subseteq Seq(Names) /\ t.regions \subseteq Names
                      /\ IsTree(t.nodes, t.regions)
  /\ Lists \subseteq Entries
  /\ Chosens \subseteq Chosen \cup {None}

Docs == [tree : Trees, aliases : Lists, symbols : Lists, chosen : Chosens]

VARIABLES doc,     (* the document                                         *)
          phase,   (* "aliases", "symbols", "chosen" or "ready"            *)
          read,    (* how many entries of the list have been read          *)
          fresh,   (* the names and nodes made of them                     *)
          stored,  (* those of `/aliases`                                  *)
          aliases, (* the node a search finds for each alias of the root   *)
          console, (* the chosen nodes for output and input                *)
          last,    (* the last path looked up by the client, and its node  *)
          out      (* "parsing", "Ok", or the error                        *)

vars == <<doc, phase, read, fresh, stored, aliases, console, last, out>>

Nowhere == [stdout |-> None, stdin |-> None]

Init ==
  /\ doc \in Docs /\ phase = "aliases" /\ read = 0
  /\ fresh = <<>> /\ stored = <<>> /\ aliases = <<>>
  /\ console = Nowhere /\ last = [path |-> <<>>, node |-> None] /\ out = "parsing"
-----------------------------------------------------------------------------
DescendAnyway(at, name) == IF name \notin Names THEN Panic ELSE Append(at, name)

(* From a node to its child; names are converted as they are needed.       *)
Descend(at, name) ==
  IF name \notin Names THEN Panic
  ELSE IF Append(at, name) \in doc.tree.nodes THEN Append(at, name) ELSE None

(* The nodes passed from `at` on, one for each name.                       *)
Walk(at, names) ==
  LET node[i \in 0..Len(names)] ==
        IF i = 0 THEN at
        ELSE IF node[i - 1] \in {None, Panic} THEN node[i - 1]
        ELSE Descend(node[i - 1], names[i])
  IN  node

FindFromRoot(at, names) == Walk(<<>>, names)[Len(names)]

(* node::Node::find, of the node `at`.                                     *)
FindFrom(at, names) == Walk(at, names)[Len(names)]

(* Children of `/reserved-memory`; they are no device nodes themselves.    *)
FindReserved(names) ==
  IF names = <<>> \/ Head(names) \notin doc.tree.regions THEN None
  ELSE IF Tail(names) = <<>> THEN Panic
  ELSE FindFrom(<<Reserved, Head(names)>>, Tail(names))

(* root::Node::find; the second name is converted before the first is used.*)
Find(name, names) ==
  IF names # <<>> /\ Head(names) \notin Names THEN Panic
  ELSE IF name \in DOMAIN aliases THEN FindFrom(aliases[name], names)
  ELSE IF name = Reserved THEN FindReserved(names)
  ELSE FindFrom(<<>>, <<name>> \o names)

FindStr(path) ==
  IF path = <<>> THEN None
  ELSE IF Head(path) \notin Names THEN Panic ELSE Find(Head(path), Tail(path))

(* What a path that is the value of a property leads to.                   *)
NodeAt(value) == IF value \in {None, Invalid} THEN None ELSE FindStr(value)
-----------------------------------------------------------------------------
List == CASE phase = "aliases" -> doc.aliases
          [] phase = "symbols" -> doc.symbols
          [] OTHER -> <<>>

(* One step of `parse_aliases`: an entry whose name or value does not      *)
(* convert is left out, one that leads nowhere panics.                     *)
ParseAlias ==
  /\ out = "parsing" /\ read < Len(List)
  /\ LET entry == List[read + 1]
         node  == NodeAt(entry.path)
     IN  \/ /\ entry.name \in Commas \/ (entry.path # Invalid /\ node \in {None, Panic})
            /\ out' = "panic" /\ UNCHANGED <<read, fresh>>
         \/ /\ entry.name \notin Commas
            /\ entry.path = Invalid \/ node \notin {None, Panic}
            /\ fresh' = IF entry.name \in Names /\ entry.path # Invalid
                        THEN Append(fresh, [name |-> entry.name, node |-> node]) ELSE fresh
            /\ read' = read + 1 /\ UNCHANGED out
  /\ UNCHANGED <<doc, phase, stored, aliases, console, last>>

NamesOf(entries) == {entries[i].name : i \in 1..Len(entries)}

NodesOf(entries, name) ==
  {entries[i].node : i \in {i \in 1..Len(entries) : entries[i].name = name}}

(* Map::from_iter, which keeps every entry.                                *)
Collected ==
  {map \in [NamesOf(fresh) -> doc.tree.nodes] :
     \A name \in NamesOf(fresh) : map[name] \in NodesOf(fresh, name)}

(* The end of `parse_aliases` for `/aliases`.                              *)
AliasesParsed ==
  /\ out = "parsing" /\ phase = "aliases" /\ read = Len(List)
  /\ aliases' \in Collected /\ stored' = fresh
  /\ phase' = "symbols" /\ fresh' = <<>> /\ read' = 0
  /\ UNCHANGED <<doc, console, last, out>>

InsertedPreserving(name) ==
  IF name \in DOMAIN aliases THEN {aliases[name]} ELSE NodesOf(fresh, name)

(* Map::insert replaces the entry that a search finds.                     *)
Inserted(name) ==
  IF name \in NamesOf(fresh) THEN NodesOf(fresh, name) ELSE {aliases[name]}

(* The entries of `/aliases` that a search has not found so far.           *)
Hidden(name) ==
  {stored[i].node : i \in {i \in 1..Len(stored) :
     stored[i].name = name /\ \E j \in 1..Len(stored) :
       j # i /\ stored[j] = [name |-> name, node |-> aliases[name]]}}

(* A new name moves other entries, and a search may come across those.     *)
Uncovered(name) == IF NamesOf(fresh) \subseteq DOMAIN aliases THEN {} ELSE Hidden(name)

(* Map::extend of the aliases.                                             *)
Extended ==
  {map \in [DOMAIN aliases \cup NamesOf(fresh) -> doc.tree.nodes] :
     \A name \in DOMAIN map : map[name] \in Inserted(name) \cup Uncovered(name)}

(* The end of `parse_aliases` for `/__symbols__`.                          *)
SymbolsParsed ==
  /\ out = "parsing" /\ phase = "symbols" /\ read = Len(List)
  /\ aliases' \in Extended
  /\ phase' = "chosen" /\ fresh' = <<>> /\ read' = 0
  /\ UNCHANGED <<doc, stored, console, last, out>>

(* Extracting one of the two paths; the errors of both are those of stdout.*)
PathChecks(value) ==
  <<Check("StdoutPathInvalid", value # Invalid),
    Check("panic", NodeAt(value) # Panic),
    Check("StdoutDanglingPath", value = None \/ NodeAt(value) # None)>>

ChosenChecksForOutput(chosen) ==
  <<Check("panic", ~ chosen.children), Check("BootArg", chosen.bootargs # Invalid)>>
    \o PathChecks(chosen.stdout) \o <<Check(chosen.others, chosen.others = "valid")>>

ChosenChecks(chosen) ==
  <<Check("panic", ~ chosen.children), Check("BootArg", chosen.bootargs # Invalid)>>
    \o PathChecks(chosen.stdout) \o PathChecks(chosen.stdin)
    \o <<Check(chosen.others, chosen.others = "valid")>>

ConsoleWithoutDefault(chosen) ==
  [stdout |-> NodeAt(chosen.stdout), stdin |-> NodeAt(chosen.stdin)]

ConsoleOf(chosen) ==
  [stdout |-> NodeAt(chosen.stdout),
   stdin  |-> NodeAt(IF chosen.stdin = None THEN chosen.stdout ELSE chosen.stdin)]

FromNode ==
  /\ out = "parsing" /\ phase = "chosen"
  /\ LET error == IF doc.chosen = None THEN "none" ELSE FirstError(ChosenChecks(doc.chosen))
     IN  IF error # "none" THEN out' = error /\ UNCHANGED <<phase, console>>
         ELSE /\ out' = "Ok" /\ phase' = "ready"
              /\ console' = IF doc.chosen = None THEN Nowhere ELSE ConsoleOf(doc.chosen)
  /\ UNCHANGED <<doc, read, fresh, stored, aliases, last>>

(* A client of the finished tree.                                          *)
LookUp(path) ==
  /\ phase = "ready" /\ out = "Ok"
  /\ last' = [path |-> path, node |-> FindStr(path)]
  /\ out' = IF last'.node = Panic THEN "panic" ELSE out
  /\ UNCHANGED <<doc, phase, read, fresh, stored, aliases, console>>

Next ==
  \/ ParseAlias
  \/ AliasesParsed
  \/ SymbolsParsed
  \/ FromNode
  \/ \E path \in Paths : LookUp(path)

Spec == Init /\ [][Next]_vars
-----------------------------------------------------------------------------
Errors == {"BootArg", "StdoutPathInvalid", "StdoutDanglingPath", "OverlayPrefix", "OsPrefix",
           "RpiBoardrevExt", "panic"}

(* Whatever a name, an alias or the console refers to is a device node of  *)
(* the tree.                                                               *)
TypeOK ==
  /\ doc \in Docs /\ phase \in {"aliases", "symbols", "chosen", "ready"}
  /\ read \in 0..Len(List)
  /\ {fresh, stored} \subseteq Seq([name : Names, node : doc.tree.nodes])
  /\ DOMAIN aliases \subseteq Names /\ Range(aliases) \subseteq doc.tree.nodes
  /\ console \in [stdout : doc.tree.nodes \cup {None}, stdin : doc.tree.nodes \cup {None}]
  /\ last \in [path : Paths \cup {<<>>}, node : doc.tree.nodes \cup {None, Panic}]
  /\ out \in Errors \cup {"parsing", "Ok"}

(* The entries of a list that are used.                                    *)
Used(list) == {e \in ToSet(list) : e.name \in Names /\ e.path # Invalid}

Literal == Used(doc.aliases)

(* The paths of the aliases of this name, literally.                       *)
LiteralPaths(name) == {e.path : e \in {e \in Literal : e.name = name}}

(* The full paths that a path stands for, its first name being an alias or *)
(* not.                                                                    *)
FullPaths(path) ==
  IF path # <<>> /\ LiteralPaths(path[1]) # {}
  THEN {p \o SubSeq(path, 2, Len(path)) : p \in LiteralPaths(path[1])}
  ELSE {path}

SymbolPaths(name) ==
  UNION {FullPaths(e.path) : e \in {e \in Used(doc.symbols) : e.name = name}}

IsRespelled(name) ==
  \E i, j \in 1..Len(doc.aliases) :
    i # j /\ \A k \in {i, j} : doc.aliases[k] \in Literal /\ doc.aliases[k].name = name

(* An alias is the node at the end of its full path, whatever other        *)
(* aliases are called; a symbol is too, but for the aliases, and prevails  *)
(* over an alias of its name                                               *)
(* (src/src/node/root.rs:55, src/src/node/root.rs:400).  An alias that has *)
(* two spellings is either, and then it may prevail over a symbol.         *)
AliasesAreFullPaths ==
  /\ phase = "symbols" =>
       /\ DOMAIN aliases = {e.name : e \in Literal}
       /\ \A name \in DOMAIN aliases : aliases[name] \in LiteralPaths(name)
  /\ phase \in {"chosen", "ready"} =>
       /\ DOMAIN aliases = {e.name : e \in Literal \cup Used(doc.symbols)}
       /\ \A name \in DOMAIN aliases :
            \/ aliases[name] \in SymbolPaths(name)
            \/ /\ aliases[name] \in LiteralPaths(name)
               /\ SymbolPaths(name) = {} \/ IsRespelled(name)

(* The full path that a path stands for, given the aliases of the root.    *)
FullPath(path, map) ==
  IF path # <<>> /\ path[1] \in DOMAIN map
  THEN map[path[1]] \o SubSeq(path, 2, Len(path)) ELSE path

Leads(path, map) == path # Invalid /\ FullPath(path, map) \in doc.tree.nodes

(* A client finds a node exactly when the tree has one at the path, with   *)
(* the first name replaced if it is an alias, and it finds that one.       *)
LookupsFollowThePath ==
  IF Leads(last.path, aliases) THEN last.node = FullPath(last.path, aliases)
  ELSE last.node \in {None, Panic}

(* Output goes where `stdout-path` leads; so does input, unless            *)
(* `stdin-path` leads elsewhere (src/src/node/chosen.rs:78).               *)
ConsoleIsWhatChosenSays ==
  phase = "ready" =>
    LET end(value) == IF value = None THEN None ELSE FullPath(value, aliases)
    IN  IF doc.chosen = None THEN console = Nowhere
        ELSE /\ console.stdout = end(doc.chosen.stdout)
             /\ console.stdin = IF doc.chosen.stdin = None THEN console.stdout
                                ELSE end(doc.chosen.stdin)

IsSound(chosen) ==
  /\ ~ chosen.children /\ chosen.bootargs # Invalid /\ chosen.others = "valid"
  /\ \A value \in {chosen.stdout, chosen.stdin} : value = None \/ Leads(value, aliases)

(* The first entries of a list, all of which lead to device nodes.         *)
AllLead(list, n, map) ==
  \A i \in 1..n : /\ list[i].name \notin Commas
                  /\ list[i].path = Invalid \/ Leads(list[i].path, map)

SymbolsLead ==
  \A e \in ToSet(doc.symbols) :
    e.name \notin Commas /\ (e.path = Invalid \/ FullPaths(e.path) \cap doc.tree.nodes # {})

(* Parsing goes on exactly as long as every alias, every symbol and both   *)
(* console paths lead to device nodes, and nothing else is wrong with      *)
(* `/chosen`; a later lookup may panic on a name or at a reserved region.  *)
VerdictIsExact ==
  LET looked == IF out = "parsing" THEN read ELSE read + 1
  IN  CASE phase = "aliases" -> out = "parsing" <=> AllLead(doc.aliases, looked, <<>>)
        [] phase = "symbols" -> /\ AllLead(doc.aliases, Len(doc.aliases), <<>>)
                                /\ out = "parsing" <=> AllLead(doc.symbols, looked, aliases)
        [] phase = "chosen"  -> SymbolsLead /\ (out # "parsing" => ~ IsSound(doc.chosen))
        [] phase = "ready"   -> doc.chosen = None \/ IsSound(doc.chosen)
=============================================================================
