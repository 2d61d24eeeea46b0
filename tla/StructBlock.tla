---------------------------- MODULE StructBlock ----------------------------
(***************************************************************************)
(* The loop of `DeviceTree::from_bytes` over the tokens of the structure   *)
(* block (src/src/dtb.rs), which builds the tree of raw nodes on three     *)
(* stacks: one action per arm of its match, and the end of the stream.     *)
(*                                                                         *)
(* The tokens are chosen as they are read; `block` is what has been read.  *)
(* A property value is the position of its token (in the code, a slice of  *)
(* the blob), and so is a finished node: `nodes` holds its contents.       *)
(* A function that returns drops its locals, so what a rejecting step does *)
(* to the stacks is not recorded.                                          *)
(***************************************************************************)
EXTENDS MapContents, FiniteSets

CONSTANTS Names,     (* node names, integers in the order of `NameRef`     *)
          Root,      (* the empty name without a unit address              *)
          PropKeys,  (* property names                                     *)
          MaxTokens  (* bound: longest structure block read                *)

ASSUME NamesAssumption == Names \subseteq Int /\ Root \in Names
ASSUME MaxTokensAssumption == MaxTokens \in Nat

VARIABLES block,      (* the tokens read                                   *)
          names,      (* unfinished nodes, outermost first: name and place *)
          properties, (* for each, the properties read                     *)
          children,   (* the finished nodes at the top, then of each       *)
                      (* unfinished node; the top is popped by `End`       *)
          nodes,      (* the finished nodes: place -> RawNode              *)
          root,       (* the root handed to the conversion, or 0           *)
          result      (* "reading", or how `from_bytes` returned           *)

stacks == <<names, properties, children, nodes, root>>
vars == <<block, names, properties, children, nodes, root, result>>

Positions == 1..MaxTokens
Children == [key : Names, val : Positions]
PropertyMaps == UNION {[K -> Positions] : K \in SUBSET PropKeys}

Tokens == [kind : {"BeginNode"}, name : Names] \cup [kind : {"Prop"}, key : PropKeys]
            \cup [kind : {"EndNode", "Nop", "End", "Malformed"}]

(* What the conversion of the tree of raw nodes and the search for the     *)
(* boot CPU make of a well-formed tree.                                    *)
ConversionErrors == {"Node", "BootCpu", "panic"}

Init ==
  /\ block = <<>> /\ names = <<>> /\ properties = <<>> /\ children = << <<>> >>
  /\ nodes = <<>> /\ root = 0 /\ result = "reading"

HereOffByOne == Len(block) + 2

Here == Len(block) + 1

Read(token) ==
  /\ result = "reading" /\ Len(block) < MaxTokens
  /\ block' = Append(block, token)

Return(r) == result' = r /\ UNCHANGED stacks

BeginNode(name) ==
  /\ Read([kind |-> "BeginNode", name |-> name])
  /\ properties' = Append(properties, <<>>)
  /\ children' = Append(children, <<>>)
  /\ names' = Append(names, Entry(name, Here))
  /\ UNCHANGED <<nodes, root, result>>

(* The `expect`s on the other two stacks once a name was popped.           *)
InSync == children # <<>> /\ properties # <<>>

AdoptByTop(below, n) == [below EXCEPT ![1] = Append(@, n)]

(* The node `n` goes to the children at the top of the stack below.        *)
Adopt(below, n) == [below EXCEPT ![Len(below)] = Append(@, n)]

EndNode ==
  /\ Read([kind |-> "EndNode"])
  /\ names # <<>>
  /\ IF ~ InSync
     THEN Return("panic")
     ELSE /\ Len(children) > 1
          /\ \E kids \in SortedPermutations(Last(children)) :
               nodes' = With(nodes, Last(names).val,
                          [children |-> kids, properties |-> Last(properties)])
          /\ names' = Front(names)
          /\ properties' = Front(properties)
          /\ children' = Adopt(Front(children), Last(names))
          /\ UNCHANGED <<root, result>>

(* No node to end, or (after `End`) nothing left to receive it.            *)
EndNodeTooMany ==
  /\ Read([kind |-> "EndNode"])
  /\ names = <<>> \/ (InSync /\ Len(children) = 1)
  /\ Return("TooManyEnds")

PropUnguarded(key) ==
  /\ Read([kind |-> "Prop", key |-> key])
  /\ properties # <<>>
  /\ properties' = [properties EXCEPT ![Len(properties)] = With(@, key, Here)]
  /\ UNCHANGED <<names, children, nodes, root, result>>

(* The property joins the innermost unfinished node.                       *)
Prop(key) ==
  /\ Read([kind |-> "Prop", key |-> key])
  /\ properties # <<>>
  /\ key \notin DOMAIN Last(properties)
  /\ properties' = [properties EXCEPT ![Len(properties)] = With(@, key, Here)]
  /\ UNCHANGED <<names, children, nodes, root, result>>

PropDuplicate(key) ==
  /\ Read([kind |-> "Prop", key |-> key])
  /\ properties # <<>>
  /\ key \in DOMAIN Last(properties)
  /\ Return("Parsing")

PropOutside(key) ==
  /\ Read([kind |-> "Prop", key |-> key])
  /\ properties = <<>>
  /\ Return("InvalidProp")

Nop == Read([kind |-> "Nop"]) /\ UNCHANGED <<stacks, result>>

(* `device_tree.is_ok()`: an earlier `End` token completed the tree.       *)
Complete == root # 0

EndErrorRootsUnchecked ==
  IF Len(children) # 1 THEN "BadDepth"
  ELSE IF children[1] = <<>> THEN "BadRoots"
  ELSE IF children[1][1].key # Root THEN "BadRootName"
  ELSE "none"

(* The checks of the `End` arm, in order, once the tree is not complete.   *)
EndError ==
  IF Len(children) # 1 THEN "BadDepth"
  ELSE IF Len(children[1]) # 1 THEN "BadRoots"
  ELSE IF children[1][1].key # Root THEN "BadRootName"
  ELSE "none"

EndKeepingTop ==
  /\ Read([kind |-> "End"])
  /\ ~ Complete /\ EndError = "none"
  /\ root' = children[1][1].val
  /\ UNCHANGED <<children, names, properties, nodes, result>>

End ==
  /\ Read([kind |-> "End"])
  /\ ~ Complete /\ EndError = "none"
  /\ root' = children[1][1].val
  /\ children' = <<>>
  /\ UNCHANGED <<names, properties, nodes, result>>

EndRejected ==
  /\ Read([kind |-> "End"])
  /\ \/ Complete /\ Return("TooManyEnds")
     \/ ~ Complete /\ EndError # "none" /\ Return(EndError)
     \/ /\ ~ Complete /\ EndError = "none"
        /\ \E why \in ConversionErrors : Return(why)

(* `consume_token` fails.                                                  *)
Malformed == Read([kind |-> "Malformed"]) /\ Return("Token")

(* The byte stream is empty: the loop ends and returns `device_tree`.      *)
StreamEnds ==
  /\ result = "reading"
  /\ Return(IF Complete THEN "Ok" ELSE "EoF")
  /\ UNCHANGED block

Next ==
  \/ \E name \in Names : BeginNode(name)
  \/ EndNode \/ EndNodeTooMany
  \/ \E key \in PropKeys : Prop(key) \/ PropDuplicate(key) \/ PropOutside(key)
  \/ Nop
  \/ End \/ EndRejected
  \/ Malformed
  \/ StreamEnds

Spec == Init /\ [][Next]_vars
-----------------------------------------------------------------------------
Results == {"reading", "Ok", "EoF", "Token", "TooManyEnds", "InvalidProp", "Parsing",
            "BadDepth", "BadRoots", "BadRootName"} \cup ConversionErrors

(* The variables keep their shape.                                         *)
TypeOK ==
  /\ block \in Seq(Tokens)
  /\ names \in Seq(Children)
  /\ properties \in Seq(PropertyMaps)
  /\ children \in Seq(Seq(Children))
  /\ root \in Positions \cup {0}
  /\ result \in Results

(* The three stacks move together: whenever a name can be popped there are *)
(* properties and children to pop, so neither `expect` of the `EndNode`    *)
(* arm (src/src/dtb.rs:326-333) can panic.  The children have one level    *)
(* more, the top of the tree, until the `End` token takes it.              *)
StacksInSync ==
  /\ Len(properties) = Len(names)
  /\ Len(children) = Len(names) + (IF Complete THEN 0 ELSE 1)
-----------------------------------------------------------------------------
(***************************************************************************)
(* The tree that a sequence of tokens describes, by counting: a token      *)
(* belongs to the last node that was begun at the depth the token is at.   *)
(***************************************************************************)
Kind(p) == block[p].kind

Places(kind, n) == {p \in 1..n : Kind(p) = kind}

DepthAfter(n) ==
  Cardinality(Places("BeginNode", n)) - Cardinality(Places("EndNode", n))

Owner(p) ==
  LET begun == {k \in Places("BeginNode", p - 1) : DepthAfter(k) = DepthAfter(p - 1)}
  IN  IF DepthAfter(p - 1) <= 0 THEN 0 ELSE Max(begun)

ChildrenOf(p) == {k \in Places("BeginNode", Len(block)) : Owner(k) = p}
PropertiesOf(p) == {k \in Places("Prop", Len(block)) : Owner(k) = p}

IsUnfinished(p) == \A n \in p..Len(block) : DepthAfter(n) >= DepthAfter(p)

(* The finished nodes among the children of `p`, with their names.         *)
FinishedChildrenOf(p) ==
  {Entry(block[k].name, k) : k \in {c \in ChildrenOf(p) : ~ IsUnfinished(c)}}

HoldsPropertiesOf(map, p) ==
  map = [key \in {block[k].key : k \in PropertiesOf(p)} |->
           CHOOSE k \in PropertiesOf(p) : block[k].key = key]

(* While it is read, the stacks and the finished nodes hold exactly what   *)
(* the tokens read so far describe: every node sits under the node that    *)
(* encloses it, sorted by name, none lost and none listed twice, and every *)
(* property sits in the node it was written in.                            *)
TreeIsNesting ==
  result = "reading" =>
    /\ DOMAIN nodes = {k \in Places("BeginNode", Len(block)) : ~ IsUnfinished(k)}
    /\ \A p \in DOMAIN nodes :
         /\ ToSet(nodes[p].children) = FinishedChildrenOf(p)
         /\ Len(nodes[p].children) = Cardinality(ChildrenOf(p))
         /\ IsSortedByKey(nodes[p].children)
         /\ HoldsPropertiesOf(nodes[p].properties, p)
    /\ \A d \in 1..Len(names) :
         LET p == names[d].val
         IN  /\ names[d].key = block[p].name
             /\ IsUnfinished(p) /\ DepthAfter(p) = d
             /\ ToSet(children[IF Complete THEN d ELSE d + 1]) = FinishedChildrenOf(p)
             /\ HoldsPropertiesOf(properties[d], p)

(* The tokens up to `n` break none of the rules the code enforces.         *)
Acceptable(n) ==
  LET ends == Places("End", n)
      isSealed(p) == \E e \in ends : e < p
  IN  /\ Places("Malformed", n) = {}
      /\ \A p \in Places("EndNode", n) :
           DepthAfter(p) >= (IF isSealed(p) THEN 1 ELSE 0)
      /\ \A p \in Places("Prop", n) : DepthAfter(p - 1) > 0
      /\ \A p, q \in Places("Prop", n) :
           Owner(p) = Owner(q) /\ block[p].key = block[q].key => p = q
      /\ Cardinality(ends) <= 1
      /\ \A e \in ends :
           /\ DepthAfter(e) = 0
           /\ \E r \in 1..e : {k \in Places("BeginNode", e) : Owner(k) = 0} = {r}
                              /\ block[r].name = Root

(* The verdict is exact: a blob is accepted only if its tokens keep every  *)
(* rule and contain an `End`, it is rejected for its structure only if the *)
(* last token read breaks a rule the tokens before it kept, and the tree   *)
(* converted is the only one there was before the `End`.                   *)
VerdictIsExact ==
  /\ result \in {"reading", "Ok", "EoF"} \cup ConversionErrors => Acceptable(Len(block))
  /\ result = "Ok" => Places("End", Len(block)) # {}
  /\ result = "EoF" => Places("End", Len(block)) = {}
  /\ result \in Results \ ({"reading", "Ok", "EoF"} \cup ConversionErrors) =>
       Acceptable(Len(block) - 1) /\ ~ Acceptable(Len(block))
  /\ Complete => \E e \in Places("End", Len(block)) :
       {k \in Places("BeginNode", e) : Owner(k) = 0} = {root}

(* The stacks implement the one-counter automaton.                         *)
Grammar == INSTANCE StructGrammar WITH
  depth   <- Len(names),
  roots   <- IF Complete THEN 1 ELSE Len(children[1]),
  sealed  <- Complete,
  verdict <- result
ImplementsGrammar == Grammar!Spec
=============================================================================
