------------------------- MODULE DeviceNodesProofs -------------------------
(***************************************************************************)
(* Proofs about DeviceNodes, for any raw nodes, any cells of the callers   *)
(* and any depth of the tree: the map of phandles is faithful, and parsing *)
(* stops exactly when something read is wrong.                             *)
(***************************************************************************)
EXTENDS DeviceNodes, CommonLemmas

-----------------------------------------------------------------------------
(* What the invariants of the runs need to be inductive: a node is begun   *)
(* after the node it is a child of, so no two running calls are of the     *)
(* same node; the call got past the checks of the properties; and nodes    *)
(* are only made for a caller.                                             *)
FramesOrdered ==
  \A i, j \in 1..Len(stack) : i < j => stack[i].id < stack[j].id

FramesPassed == \A i \in 1..Len(stack) : HandleOf(stack[i].id) # Invalid

CallUnderWay == (calling => calls # <<>>) /\ (stack # <<>> => calling)

Inv == TypeOK /\ FramesOrdered /\ FramesPassed /\ CallUnderWay /\ PHandlesFaithful

(* The parts of the type invariant, by name.                               *)
Call == [kind : Range(Kinds), cells : CellValues \X CellValues]
NodeOf(c, n) == [raw : Raws, call : 1..c, parent : 0..n]
KnownCells == (CellValues \ {Absent}) \X (CellValues \ {Absent})
FrameOf(n) == [id : 1..n, cells : KnownCells]
Handles(list) == Int \cap {list[i].raw.phandle : i \in 1..Len(list)}
-----------------------------------------------------------------------------
(* The members of a set of partial functions.                              *)
LEMMA PartialFunctions ==
  ASSUME NEW X, NEW T, NEW f
  PROVE  f \in UNION {[H -> T] : H \in SUBSET X}
           <=> f \in [DOMAIN f -> T] /\ DOMAIN f \subseteq X
  OBVIOUS

LEMMA TypeParts ==
  ASSUME NEW cs, NEW ns, ns \in Seq(NodeOf(Len(cs), Len(ns)))
  PROVE  /\ Len(ns) \in Nat
         /\ \A i \in 1..Len(ns) : ns[i].raw \in Raws /\ ns[i] \in NodeOf(Len(cs), Len(ns))
         /\ Handles(ns) = Int \cap {n.raw.phandle : n \in Range(ns)}
<1>1. \A i \in 1..Len(ns) : ns[i] \in NodeOf(Len(cs), Len(ns))
  BY ElementOfSeq
<1>2. DOMAIN ns = 1..Len(ns) /\ Len(ns) \in Nat
  BY LenProperties
<1>3. {ns[i].raw.phandle : i \in 1..Len(ns)} = {n.raw.phandle : n \in Range(ns)}
  BY <1>2 DEF Range
<1> QED
  BY <1>1, <1>2, <1>3 DEF NodeOf, Handles

TypeParted ==
  /\ calls \in Seq(Call)
  /\ calling \in BOOLEAN
  /\ calling => given \in Nat \X Nat
  /\ nodes \in Seq(NodeOf(Len(calls), Len(nodes)))
  /\ stack \in Seq(FrameOf(Len(nodes)))
  /\ phandles \in [DOMAIN phandles -> 1..Len(nodes)]
  /\ DOMAIN phandles \subseteq Handles(nodes)
  /\ out \in Outs

LEMMA TypeOKIsParted == TypeOK <=> TypeParted
<1>1. nodes \in Seq(NodeOf(Len(calls), Len(nodes))) =>
        Handles(nodes) = Int \cap {n.raw.phandle : n \in Range(nodes)}
  BY TypeParts
<1> QED
  BY <1>1, PartialFunctions
     DEF TypeOK, TypeParted, Call, NodeOf, KnownCells, FrameOf

(* What the assumptions say of a raw node.                                 *)
LEMMA RawFacts ==
  ASSUME NEW raw \in Raws
  PROVE  /\ raw.cells \in CellValues \X CellValues
         /\ raw.phandle \in Int \cup {Absent, Invalid}
         /\ raw.interrupts \in Int \cup {Absent, Invalid}
  BY RawsAssumption DEF RawNode

(* The cells handed to children are never missing.                         *)
LEMMA CellCounts ==
  ASSUME NEW cells \in CellValues \X CellValues
  PROVE  ExtractCellCounts(cells) \in KnownCells
  BY NotNumbersAssumption DEF ExtractCellCounts, CellValues, KnownCells

NodeErrors == {"Reg", "Compatible", "Model", "Ranges", "Status", "BadPHandle", "panic"}

(* A node whose properties pass the checks has a usable phandle or none.   *)
LEMMA PropertyVerdict ==
  ASSUME NEW raw, NEW cells
  PROVE  \/ FirstError(PropertyChecks(raw, cells)) \in NodeErrors
         \/ /\ FirstError(PropertyChecks(raw, cells)) = "none"
            /\ raw.phandle # Invalid
<1> DEFINE S == [error : NodeErrors, ok : BOOLEAN]
           checks == PropertyChecks(raw, cells)
<1>1. checks \in Seq(S) /\ Len(checks) = 8
  BY DEF PropertyChecks, Check, NodeErrors
<1>2. checks[8].ok <=> raw.phandle # Invalid
  BY DEF PropertyChecks, Check
<1> HIDE DEF checks
<1>3. \/ \A i \in 1..8 : checks[i].ok /\ FirstError(checks) = "none"
      \/ \E i \in 1..8 : FirstError(checks) = checks[i].error
  <2> HIDE DEF S
  <2> QED
    BY <1>1, FirstErrorProperties
<1>4. \A i \in 1..8 : checks[i] \in S
  <2> HIDE DEF S
  <2> QED
    BY <1>1, ElementOfSeq
<1> QED
  BY <1>2, <1>3, <1>4 DEF checks
-----------------------------------------------------------------------------
(* The invariant in the form the steps use.                                *)
LEMMA Facts ==
  ASSUME Inv
  PROVE  /\ TypeParted
         /\ Len(calls) \in Nat /\ Len(nodes) \in Nat /\ Len(stack) \in Nat
         /\ \A i \in 1..Len(nodes) : nodes[i].raw \in Raws
         /\ \A i \in 1..Len(stack) :
              stack[i].id \in 1..Len(nodes) /\ stack[i].cells \in KnownCells
         /\ Finished = (1..Len(nodes)) \ {stack[i].id : i \in 1..Len(stack)}
<1>1. TypeParted
  BY TypeOKIsParted DEF Inv
<1>2. Len(calls) \in Nat /\ Len(nodes) \in Nat /\ Len(stack) \in Nat
  BY <1>1, LenProperties DEF TypeParted
<1>3. \A i \in 1..Len(nodes) : nodes[i].raw \in Raws
  BY <1>1, TypeParts DEF TypeParted
<1>4. \A i \in 1..Len(stack) : stack[i] \in FrameOf(Len(nodes))
  BY <1>1, ElementOfSeq DEF TypeParted
<1>5. DOMAIN stack = 1..Len(stack)
  BY <1>1, LenProperties DEF TypeParted
<1>6. {frame.id : frame \in Range(stack)} = {stack[i].id : i \in 1..Len(stack)}
  BY <1>5 DEF Range
<1> QED
  BY <1>1, <1>2, <1>3, <1>4, <1>6 DEF Finished, FrameOf

LEMMA InitInv == Init => Inv
<1> SUFFICES ASSUME Init PROVE Inv
  OBVIOUS
<1>1. /\ calls = <<>> /\ calling = FALSE /\ nodes = <<>> /\ stack = <<>>
      /\ phandles = <<>> /\ out = "parsing" /\ Len(nodes) = 0 /\ Len(stack) = 0
      /\ DOMAIN phandles = {}
  BY DEF Init
<1>2. phandles \in [{} -> 1..Len(nodes)]
  BY <1>1
<1>3. /\ calls \in Seq(Call) /\ nodes \in Seq(NodeOf(Len(calls), Len(nodes)))
      /\ stack \in Seq(FrameOf(Len(nodes)))
  BY <1>1, EmptySeq
<1>4. TypeParted
  BY <1>1, <1>2, <1>3 DEF TypeParted, Outs
<1> QED
  BY <1>1, <1>4, TypeOKIsParted
     DEF Inv, FramesOrdered, FramesPassed, CallUnderWay, PHandlesFaithful, Finished

LEMMA IntoComponentsInv ==
  ASSUME Inv, NEW kind \in Range(Kinds), NEW cells \in CellValues \X CellValues,
         IntoComponents(kind, cells)
  PROVE  Inv'
<1> DEFINE call == [kind |-> kind, cells |-> cells]
<1>1. /\ out = "parsing" /\ ~ calling /\ stack = <<>>
      /\ calls' = Append(calls, call)
      /\ given' = ExtractCellCounts(CellsSeen(kind, cells))
      /\ \/ Invalid \in {given'[1], given'[2]} /\ out' = "Cells" /\ calling' = calling
         \/ Invalid \notin {given'[1], given'[2]} /\ calling' = TRUE /\ out' = out
      /\ nodes' = nodes /\ stack' = stack /\ phandles' = phandles
  BY DEF IntoComponents, Inv, CallUnderWay
<1>2. CellsSeen(kind, cells) \in CellValues \X CellValues
  BY DEF CellsSeen, CellValues
<1>3. given' \in KnownCells
  BY <1>1, <1>2, CellCounts
<1>4. calling' => given' \in Nat \X Nat
  BY <1>1, <1>3 DEF CellValues, KnownCells
<1>5. calls' \in Seq(Call) /\ calls' # <<>> /\ Len(calls') = Len(calls) + 1
  <2>1. calls \in Seq(Call)
    BY Facts DEF TypeParted
  <2>2. call \in Call
    BY DEF Call
  <2> QED
    BY <1>1, <2>1, <2>2, AppendProperties
<1>6. nodes \in Seq(NodeOf(Len(calls'), Len(nodes)))
  <2>1. NodeOf(Len(calls), Len(nodes)) \subseteq NodeOf(Len(calls'), Len(nodes))
    BY <1>5, Facts DEF NodeOf
  <2> QED
    BY <2>1, Facts, SeqMonotonic DEF TypeParted
<1>7. TypeParted'
  BY <1>1, <1>4, <1>5, <1>6, Facts DEF TypeParted, Outs
<1>8. TypeOK'
  BY <1>7, TypeOKIsParted, PTL
<1> QED
  BY <1>1, <1>5, <1>8
     DEF Inv, FramesOrdered, FramesPassed, CallUnderWay, PHandlesFaithful, Going,
         Finished, HandleOf

LEMMA ReturnInv == ASSUME Inv, Return PROVE Inv'
<1>1. /\ out = "parsing" /\ calling' = FALSE /\ stack = <<>> /\ out' \in {"Ok", "parsing"}
      /\ UNCHANGED <<calls, given, nodes, stack, phandles>>
  BY DEF Return
<1>2. TypeOK'
  BY <1>1 DEF Inv, TypeOK, Outs
<1> QED
  BY <1>1, <1>2 DEF Inv, FramesOrdered, FramesPassed, CallUnderWay,
                    PHandlesFaithful, Going, Finished, HandleOf

LEMMA NewInv ==
  ASSUME Inv, NEW raw \in Raws, New(raw)
  PROVE  Inv' /\ (Going' => Finished' = Finished)
<1> DEFINE node  == [raw    |-> raw, call |-> Len(calls),
                     parent |-> IF stack = <<>> THEN 0 ELSE Last(stack).id]
           frame == [id |-> Len(nodes'), cells |-> OwnCells(raw)]
           error == FirstError(PropertyChecks(raw, CellsForChild))
           n     == Len(nodes)
<1>1. /\ out = "parsing" /\ calling /\ nodes' = Append(nodes, node)
      /\ \/ error # "none" /\ out' = Propagate(error, Len(stack)) /\ stack' = stack
         \/ error = "none" /\ stack' = Append(stack, frame) /\ out' = out
      /\ UNCHANGED <<calls, calling, given, phandles>>
  BY DEF New
<1>2. /\ calls # <<>> /\ Len(calls) \in 1..Len(calls)
      /\ n \in Nat /\ Len(stack) \in Nat /\ nodes \in Seq(NodeOf(Len(calls), n))
      /\ stack \in Seq(FrameOf(n))
  <2>1. calls \in Seq(Call) /\ calls # <<>>
    BY <1>1, Facts DEF Inv, CallUnderWay, TypeParted
  <2> QED
    BY <2>1, EmptySeq, Facts DEF TypeParted
<1>3. node \in NodeOf(Len(calls), n + 1)
  <2>1. stack # <<>> => Last(stack) \in FrameOf(n)
    BY <1>2, FrontProperties
  <2>2. node.parent \in 0..n + 1
    BY <1>2, <2>1 DEF FrameOf
  <2> QED
    BY <1>2, <2>2 DEF NodeOf
<1> HIDE DEF node
<1>4. /\ nodes' \in Seq(NodeOf(Len(calls), n + 1))
      /\ Len(nodes') = n + 1 /\ nodes'[n + 1] = node
      /\ \A i \in 1..n : nodes'[i] = nodes[i]
  <2>1. NodeOf(Len(calls), n) \subseteq NodeOf(Len(calls), n + 1)
    BY <1>2 DEF NodeOf
  <2>2. nodes \in Seq(NodeOf(Len(calls), n + 1))
    BY <1>2, <2>1, SeqMonotonic
  <2> QED
    BY <1>1, <1>3, <2>2, AppendProperties
<1>5. /\ phandles' \in [DOMAIN phandles' -> 1..Len(nodes')]
      /\ DOMAIN phandles' \subseteq Handles(nodes')
  <2>1. Handles(nodes) \subseteq Handles(nodes')
    BY <1>2, <1>4 DEF Handles
  <2> QED
    BY <1>1, <1>2, <1>4, <2>1, Facts DEF TypeParted
<1>6. stack \in Seq(FrameOf(n + 1))
  <2>1. FrameOf(n) \subseteq FrameOf(n + 1)
    BY <1>2 DEF FrameOf
  <2> QED
    BY <1>2, <2>1, SeqMonotonic
<1>7. \A i \in 1..n : HandleOf(i)' = HandleOf(i)
  BY <1>4 DEF HandleOf
<1>8. CASE error # "none"
  <2>1. out' \in Outs /\ ~ Going'
    BY <1>1, <1>8, PropertyVerdict DEF Propagate, NodeErrors, Outs, Going
  <2>2. stack' = stack
    BY <1>1, <1>8
  <2>3. TypeParted'
    BY <1>1, <1>4, <1>5, <1>6, <2>1, <2>2, Facts DEF TypeParted
  <2>4. TypeOK'
    BY <2>3, TypeOKIsParted, PTL
  <2> QED
    BY <1>1, <1>2, <1>7, <2>1, <2>2, <2>4, Facts
       DEF Inv, FramesOrdered, FramesPassed, CallUnderWay, PHandlesFaithful
<1>9. CASE error = "none"
  <2>1. out' = out /\ stack' = Append(stack, frame)
    BY <1>1, <1>9
  <2>2. frame \in FrameOf(n + 1) /\ frame.id = n + 1
    BY <1>2, <1>4, RawFacts, CellCounts DEF OwnCells, FrameOf
  <2> HIDE DEF frame
  <2>3. /\ stack' \in Seq(FrameOf(n + 1)) /\ stack' # <<>>
        /\ Len(stack') = Len(stack) + 1 /\ stack'[Len(stack) + 1] = frame
        /\ \A i \in 1..Len(stack) : stack'[i] = stack[i]
    BY <1>6, <2>1, <2>2, AppendProperties
  <2>4. TypeParted'
    BY <1>1, <1>4, <1>5, <2>1, <2>3, Facts DEF TypeParted
  <2>5. TypeOK'
    BY <2>4, TypeOKIsParted, PTL
  <2>6. FramesOrdered'
    BY <1>2, <2>2, <2>3, Facts DEF Inv, FramesOrdered
  <2>7. raw.phandle # Invalid
    BY <1>9, PropertyVerdict DEF NodeErrors
  <2>8. nodes'[n + 1].raw.phandle # Invalid
    BY <1>4, <2>7 DEF node
  <2>9. FramesPassed'
    <3>1. ASSUME NEW i \in 1..Len(stack) + 1
          PROVE  nodes'[stack'[i].id].raw.phandle # Invalid
      <4>1. CASE i = Len(stack) + 1
        BY <2>2, <2>3, <2>8, <4>1
      <4>2. CASE i \in 1..Len(stack)
        BY <1>4, <2>3, <4>2, Facts DEF Inv, FramesPassed, HandleOf
      <4> QED
        BY <1>2, <4>1, <4>2
    <3> QED
      BY <2>3, <3>1 DEF FramesPassed, HandleOf
  <2>10. Finished' = Finished
    <3>1. Finished' = (1..n + 1) \ {stack'[i].id : i \in 1..Len(stack) + 1}
      BY <1>4, <2>3, LenProperties DEF Finished, Range
    <3>2. {stack'[i].id : i \in 1..Len(stack) + 1}
            = {stack[i].id : i \in 1..Len(stack)} \cup {n + 1}
      <4>1. \A i \in 1..Len(stack) : stack'[i].id = stack[i].id
        BY <2>3
      <4>2. stack'[Len(stack) + 1].id = n + 1
        BY <2>2, <2>3
      <4>3. 1..Len(stack) + 1 = (1..Len(stack)) \cup {Len(stack) + 1}
        BY <1>2
      <4> QED
        BY <4>1, <4>2, <4>3
    <3>3. Finished = (1..n) \ {stack[i].id : i \in 1..Len(stack)}
      BY Facts
    <3>4. (1..n + 1) \ {n + 1} = 1..n
      BY <1>2
    <3> QED
      BY <3>1, <3>2, <3>3, <3>4
  <2>11. PHandlesFaithful'
    <3>1. Finished \subseteq 1..n
      BY Facts
    <3> QED
      BY <1>1, <1>7, <2>1, <2>10, <3>1 DEF Inv, PHandlesFaithful, Going
  <2> QED
    BY <1>1, <1>2, <2>5, <2>6, <2>9, <2>10, <2>11 DEF Inv, CallUnderWay
<1> QED
  BY <1>8, <1>9

LEMMA FinishInv ==
  ASSUME Inv, Finish
  PROVE  /\ Inv'
         /\ Last(stack).id \in 1..Len(nodes)
         /\ Last(stack).id \notin Finished
         /\ Finished' = Finished \cup {Last(stack).id}
<1> DEFINE m      == Len(stack)
           id     == Last(stack).id
           handle == nodes[id].raw.phandle
<1>1. /\ out = "parsing" /\ stack # <<>> /\ stack' = Front(stack)
      /\ UNCHANGED <<calls, calling, given, nodes>>
      /\ \/ out' = "panic" /\ phandles' = phandles
         \/ handle = Absent /\ phandles' = phandles /\ out' = out
         \/ /\ handle # Absent /\ phandles' = With(phandles, handle, id)
            /\ out' = IF IsNewHandle(handle) THEN out
                      ELSE Propagate("DuplicatePHandle", Len(stack'))
  BY DEF Finish
<1>2. /\ m \in Nat \ {0} /\ id = stack[m].id /\ id \in 1..Len(nodes)
      /\ stack' \in Seq(FrameOf(Len(nodes))) /\ Len(stack') = m - 1
      /\ \A i \in 1..m - 1 : stack'[i] = stack[i]
  <2>1. stack \in Seq(FrameOf(Len(nodes)))
    BY Facts DEF TypeParted
  <2>2. /\ m \in Nat \ {0} /\ Last(stack) = stack[m]
        /\ stack' \in Seq(FrameOf(Len(nodes))) /\ Len(stack') = m - 1
        /\ \A i \in 1..m - 1 : stack'[i] = stack[i]
    BY <1>1, <2>1, FrontProperties
  <2> QED
    BY <2>2, Facts
<1>3. handle # Invalid /\ (handle # Absent => handle \in Int)
  <2>1. handle # Invalid
    BY <1>2 DEF Inv, FramesPassed, HandleOf
  <2>2. nodes[id].raw \in Raws
    BY <1>2, Facts
  <2> QED
    BY <2>1, <2>2, RawFacts
<1>4. Finished' = Finished \cup {id} /\ id \notin Finished
  <2>1. Finished' = (1..Len(nodes)) \ {stack'[i].id : i \in 1..m - 1}
    BY <1>1, <1>2, LenProperties DEF Finished, Range
  <2>2. {stack'[i].id : i \in 1..m - 1} = {stack[i].id : i \in 1..m} \ {id}
    <3>1. \A i \in 1..m - 1 : stack'[i].id = stack[i].id /\ stack[i].id # id
      BY <1>2, Facts DEF Inv, FramesOrdered
    <3>2. 1..m = (1..m - 1) \cup {m}
      BY <1>2
    <3> QED
      BY <1>2, <3>1, <3>2
  <2>3. Finished = (1..Len(nodes)) \ {stack[i].id : i \in 1..m}
    BY Facts
  <2>4. id \in {stack[i].id : i \in 1..m}
    BY <1>2
  <2> QED
    BY <1>2, <2>1, <2>2, <2>3, <2>4
<1> HIDE DEF id, handle
<1>5. /\ phandles' \in [DOMAIN phandles' -> 1..Len(nodes)]
      /\ DOMAIN phandles' \subseteq Handles(nodes)
      /\ out' \in Outs
  <2>1. phandles' = phandles \/ (phandles' = With(phandles, handle, id) /\ handle # Absent)
    BY <1>1
  <2>2. handle # Absent => handle \in Handles(nodes)
    BY <1>2, <1>3 DEF Handles, handle
  <2>3. out' \in {"panic", "parsing", "DuplicatePHandle"}
    BY <1>1 DEF Propagate
  <2>4. /\ phandles \in [DOMAIN phandles -> 1..Len(nodes)]
        /\ DOMAIN phandles \subseteq Handles(nodes)
    BY Facts DEF TypeParted
  <2> QED
    BY <1>2, <2>1, <2>2, <2>3, <2>4 DEF With, Outs
<1>6. TypeParted'
  BY <1>1, <1>2, <1>5, Facts DEF TypeParted
<1>7. TypeOK'
  BY <1>6, TypeOKIsParted, PTL
<1>8. FramesOrdered' /\ FramesPassed' /\ CallUnderWay'
  BY <1>1, <1>2, Facts
     DEF Inv, FramesOrdered, FramesPassed, CallUnderWay, HandleOf
<1>9. PHandlesFaithful'
  <2> SUFFICES ASSUME Going' PROVE PHandlesFaithful'
    BY DEF PHandlesFaithful
  <2>1. /\ \A i \in Finished : HandleOf(i) # Absent =>
             HandleOf(i) \in DOMAIN phandles /\ phandles[HandleOf(i)] = i
        /\ \A h \in DOMAIN phandles :
             phandles[h] \in Finished /\ HandleOf(phandles[h]) = h
    BY <1>1 DEF Inv, PHandlesFaithful, Going
  <2>2. /\ HandleOf(id) = handle
        /\ \A i : HandleOf(i)' = HandleOf(i)
    BY <1>1 DEF HandleOf, handle
  <2>3. CASE handle = Absent /\ phandles' = phandles
    BY <1>4, <2>1, <2>2, <2>3 DEF PHandlesFaithful
  <2>4. CASE handle # Absent /\ phandles' = With(phandles, handle, id)
    <3>1. handle \notin DOMAIN phandles
      BY <1>1, <2>4 DEF Going, Propagate, IsNewHandle
    <3>2. /\ DOMAIN phandles' = DOMAIN phandles \cup {handle}
          /\ phandles'[handle] = id
          /\ \A h \in DOMAIN phandles : phandles'[h] = phandles[h]
      BY <2>4, <3>1 DEF With
    <3> QED
      BY <1>4, <2>1, <2>2, <3>1, <3>2 DEF PHandlesFaithful
  <2> QED
    BY <1>1, <2>3, <2>4 DEF Going
<1> QED
  BY <1>2, <1>4, <1>7, <1>8, <1>9 DEF Inv, id

LEMMA NextInv == Inv /\ [Next]_vars => Inv'
<1> SUFFICES ASSUME Inv, [Next]_vars PROVE Inv'
  OBVIOUS
<1>1. ASSUME NEW k \in {"cache", "region"}, NEW c \in Cells, IntoComponents(k, c)
      PROVE  Inv'
  BY <1>1, CellsAssumption, IntoComponentsInv DEF Range, Kinds
<1>2. ASSUME NEW c \in RootCells, IntoComponents("root", c) PROVE Inv'
  BY <1>2, CellsAssumption, IntoComponentsInv DEF Range, Kinds
<1>3. CASE UNCHANGED vars
  BY <1>3 DEF vars, Inv, TypeOK, FramesOrdered, FramesPassed, CallUnderWay,
              PHandlesFaithful, Going, Finished, HandleOf
<1> QED
  BY <1>1, <1>2, <1>3, NewInv, FinishInv, ReturnInv DEF Next

LEMMA SpecInv == Spec => []Inv
  BY InitInv, NextInv, PTL DEF Spec

(* The variables keep their types, whatever the tree and the callers.      *)
THEOREM TypeCorrect == Spec => []TypeOK
<1>1. Inv => TypeOK
  BY DEF Inv
<1> QED
  BY SpecInv, <1>1, PTL

(* The map of phandles is faithful for trees of any size and depth and any *)
(* number of callers that share it.                                        *)
THEOREM PHandlesAlwaysFaithful == Spec => []PHandlesFaithful
<1>1. Inv => PHandlesFaithful
  BY DEF Inv
<1> QED
  BY SpecInv, <1>1, PTL
-----------------------------------------------------------------------------
(* What it takes for the verdict to be exact: the cells that a running     *)
(* call, or the caller, hands to a child are those its properties say.     *)
FrameCells ==
  \A i \in 1..Len(stack) :
    stack[i].cells = ExtractCellCounts(nodes[stack[i].id].raw.cells)

GivenCells ==
  calls # <<>> =>
    given = ExtractCellCounts(CellsSeen(Last(calls).kind, Last(calls).cells))

VerdictInv == FrameCells /\ GivenCells /\ VerdictIsExact

(* A node on a bus with these cells is sound.                              *)
SoundOn(raw, bus) ==
  LET own   == raw.cells
      unit  == Or(bus[1], 2) + Or(bus[2], 1)
      entry == Or(own[1], 2) + Or(bus[1], 2) + Or(own[2], 1)
  IN  /\ raw.strings = {} /\ raw.phandle # Invalid
      /\ raw.reg # Absent =>
           /\ raw.reg # Padded /\ Invalid \notin {bus[1], bus[2]}
           /\ IsMultiple(Len(raw.reg), unit)
           /\ Fits64(raw.reg, unit, 0, Or(bus[1], 2))
           /\ Fits64(raw.reg, unit, Or(bus[1], 2), Or(bus[2], 1))
      /\ raw.ranges # Absent =>
           /\ raw.ranges # Padded /\ Invalid \notin {own[1], own[2], bus[1]}
           /\ IsMultiple(Len(raw.ranges), entry)
           /\ Fits64(raw.ranges, entry, 0, Or(own[1], 2))
           /\ Fits64(raw.ranges, entry, Or(own[1], 2), Or(bus[1], 2))
           /\ Fits64(raw.ranges, entry, Or(own[1], 2) + Or(bus[1], 2), Or(own[2], 1))

(* What is tested by a remainder is that the length is a multiple.         *)
LEMMA Multiples ==
  ASSUME NEW length \in Nat, NEW total \in Nat
  PROVE  (IF total > 0 THEN length % total = 0 ELSE length = 0)
           <=> IsMultiple(length, total)
<1>1. CASE total = 0
  BY <1>1 DEF IsMultiple
<1>2. CASE total > 0
  <2> DEFINE q == length \div total
             r == length % total
  <2>1. q \in Int /\ r \in 0..total - 1 /\ length = total * q + r
    BY <1>2
  <2> HIDE DEF q, r
  <2>2. ASSUME r = 0 PROVE IsMultiple(length, total)
    <3>1. length = q * total /\ q >= 0 /\ q <= length
      BY <1>2, <2>1, <2>2
    <3> QED
      BY <2>1, <3>1 DEF IsMultiple
  <2>3. ASSUME NEW k \in 0..length, length = k * total PROVE r = 0
    <3>1. total * (k - q) = r
      BY <2>1, <2>3
    <3>2. k - q < 1 /\ k - q > -1
      BY <1>2, <2>1, <3>1
    <3> QED
      BY <2>1, <3>1, <3>2
  <2>4. r = 0 <=> IsMultiple(length, total)
    BY <2>2, <2>3 DEF IsMultiple
  <2> QED
    BY <1>2, <2>4 DEF r
<1> QED
  BY <1>1, <1>2

LEMMA RemainderOf ==
  ASSUME NEW unit \in Nat \ {0}, NEW k \in Nat, NEW r \in 0..unit - 1
  PROVE  (unit * k + r) % unit = r
<1> DEFINE q == (unit * k + r) \div unit
           m == (unit * k + r) % unit
<1>1. unit * k + r \in Int
  OBVIOUS
<1>2. q \in Int /\ m \in 0..unit - 1 /\ unit * k + r = unit * q + m
  BY <1>1
<1> HIDE DEF q, m
<1>3. unit * (k - q) = m - r
  BY <1>2
<1>4. k - q < 1 /\ k - q > -1
  BY <1>2, <1>3
<1> QED
  BY <1>2, <1>3, <1>4 DEF m

(* The words of an integer, and of a group of two or three of them.        *)
LEMMA IntegerWords ==
  ASSUME NEW n \in Nat
  PROVE  /\ IntegerOf(n) \in Seq(BOOLEAN) /\ Len(IntegerOf(n)) = n
         /\ \A i \in 1..n : IntegerOf(n)[i] = (i > 2)
<1>1. IntegerOf(n) \in [1..n -> BOOLEAN]
  BY DEF IntegerOf
<1>2. IntegerOf(n) \in Seq(BOOLEAN) /\ Len(IntegerOf(n)) = n
  BY <1>1
<1> QED
  BY <1>2 DEF IntegerOf

LEMMA GroupOfTwo ==
  ASSUME NEW a \in Nat, NEW b \in Nat
  PROVE  LET group == IntegerOf(a) \o IntegerOf(b)
         IN  /\ group \in Seq(BOOLEAN) /\ Len(group) = a + b
             /\ \A i \in 1..a + b : group[i] = IF i <= a THEN i > 2 ELSE i - a > 2
<1> DEFINE x == IntegerOf(a)
           y == IntegerOf(b)
<1>1. /\ x \in Seq(BOOLEAN) /\ Len(x) = a /\ \A i \in 1..a : x[i] = (i > 2)
      /\ y \in Seq(BOOLEAN) /\ Len(y) = b /\ \A i \in 1..b : y[i] = (i > 2)
  BY IntegerWords
<1> HIDE DEF x, y
<1>2. /\ x \o y \in Seq(BOOLEAN) /\ Len(x \o y) = a + b
      /\ \A i \in 1..a + b : (x \o y)[i] = IF i <= a THEN x[i] ELSE y[i - a]
  BY <1>1, ConcatProperties
<1>3. ASSUME NEW i \in 1..a + b
      PROVE  (x \o y)[i] = IF i <= a THEN i > 2 ELSE i - a > 2
  <2>1. CASE i <= a
    BY <1>1, <1>2, <2>1
  <2>2. CASE ~ (i <= a)
    <3>1. i - a \in 1..b
      BY <2>2
    <3> QED
      BY <1>1, <1>2, <2>2, <3>1
  <2> QED
    BY <2>1, <2>2
<1> QED
  BY <1>2, <1>3 DEF x, y

LEMMA GroupOfThree ==
  ASSUME NEW a \in Nat, NEW b \in Nat, NEW c \in Nat
  PROVE  LET group == IntegerOf(a) \o IntegerOf(b) \o IntegerOf(c)
         IN  /\ group \in Seq(BOOLEAN) /\ Len(group) = a + b + c
             /\ \A i \in 1..a + b + c :
                  group[i] = IF i <= a THEN i > 2
                             ELSE IF i <= a + b THEN i - a > 2 ELSE i - (a + b) > 2
<1> DEFINE x == IntegerOf(a) \o IntegerOf(b)
           y == IntegerOf(c)
<1>1. /\ x \in Seq(BOOLEAN) /\ Len(x) = a + b
      /\ \A i \in 1..a + b : x[i] = IF i <= a THEN i > 2 ELSE i - a > 2
  BY GroupOfTwo
<1>2. y \in Seq(BOOLEAN) /\ Len(y) = c /\ \A i \in 1..c : y[i] = (i > 2)
  BY IntegerWords
<1> HIDE DEF x, y
<1>3. Len(x) + Len(y) = a + b + c
  BY <1>1, <1>2
<1>4. /\ x \o y \in Seq(BOOLEAN) /\ Len(x \o y) = Len(x) + Len(y)
      /\ \A i \in 1..Len(x) + Len(y) :
           (x \o y)[i] = IF i <= Len(x) THEN x[i] ELSE y[i - Len(x)]
  BY <1>1, <1>2, ConcatProperties
<1>5. /\ x \o y \in Seq(BOOLEAN) /\ Len(x \o y) = a + b + c
      /\ \A i \in 1..a + b + c : (x \o y)[i] = IF i <= a + b THEN x[i] ELSE y[i - (a + b)]
  BY <1>1, <1>3, <1>4, Zenon
<1>6. ASSUME NEW i \in 1..a + b + c
      PROVE  (x \o y)[i] = IF i <= a THEN i > 2
                           ELSE IF i <= a + b THEN i - a > 2 ELSE i - (a + b) > 2
  <2>1. CASE i <= a + b
    <3>1. i \in 1..a + b
      BY <2>1
    <3> QED
      BY <1>1, <1>5, <2>1, <3>1
  <2>2. CASE ~ (i <= a + b)
    <3>1. i - (a + b) \in 1..c
      BY <2>2
    <3> QED
      BY <1>2, <1>5, <2>2, <3>1
  <2> QED
    BY <2>1, <2>2
<1> QED
  BY <1>5, <1>6 DEF x, y

(* The words at one place of every group are all zero.                     *)
ZeroAt(list, unit, place) ==
  \A k \in 0..Len(list) : k * unit + place <= Len(list) => list[k * unit + place] = 0

(* A list is looked through word by word or place by place.                *)
LEMMA NarrowByPlace ==
  ASSUME NEW list \in Seq(Nat), NEW group \in Seq(BOOLEAN),
         Len(group) = 0 => Len(list) = 0
  PROVE  IsNarrow(list, group)
           <=> \A p \in 1..Len(group) : group[p] => ZeroAt(list, Len(group), p)
<1>1. PICK n \in Nat, unit \in Nat : n = Len(list) /\ unit = Len(group)
  BY LenProperties
<1>2. CASE unit = 0
  BY <1>1, <1>2 DEF IsNarrow
<1>3. CASE unit > 0
  <2>1. ASSUME IsNarrow(list, group), NEW p \in 1..unit, group[p],
               NEW k \in 0..n, k * unit + p <= n
        PROVE  list[k * unit + p] = 0
    <3>1. PICK i \in Nat : i = k * unit + p
      <4>1. k * unit \in Nat
        OBVIOUS
      <4> QED
        BY <4>1
    <3>2. i \in 1..n
      <4>1. k * unit \in Nat
        OBVIOUS
      <4> QED
        BY <2>1, <3>1, <4>1
    <3>3. (i - 1) % unit = p - 1
      <4>1. i - 1 = unit * k + (p - 1) /\ p - 1 \in 0..unit - 1
        BY <3>1
      <4> QED
        BY <1>3, <4>1, RemainderOf
    <3>4. group[((i - 1) % unit) + 1] => list[i] = 0
      BY <1>1, <2>1, <3>2 DEF IsNarrow
    <3>5. ((i - 1) % unit) + 1 = p
      BY <3>3
    <3> QED
      BY <2>1, <3>1, <3>4, <3>5
  <2>2. ASSUME \A p \in 1..unit : group[p] => ZeroAt(list, unit, p),
               NEW i \in 1..n, group[((i - 1) % unit) + 1]
        PROVE  list[i] = 0
    <3> DEFINE k == (i - 1) \div unit
               r == (i - 1) % unit
    <3>1. k \in Int /\ r \in 0..unit - 1 /\ i - 1 = unit * k + r
      BY <1>3
    <3>2. group[r + 1]
      BY <2>2
    <3> HIDE DEF k, r
    <3>3. k \in 0..n
      BY <1>3, <3>1
    <3>4. k * unit + (r + 1) = i
      BY <3>1
    <3>5. ZeroAt(list, unit, r + 1)
      BY <2>2, <3>1, <3>2
    <3>6. k * unit + (r + 1) <= n => list[k * unit + (r + 1)] = 0
      BY <1>1, <3>3, <3>5 DEF ZeroAt
    <3> QED
      BY <3>4, <3>6
  <2>3. IsNarrow(list, group) => \A p \in 1..unit : group[p] => ZeroAt(list, unit, p)
    BY <1>1, <2>1 DEF ZeroAt
  <2>4. (\A p \in 1..unit : group[p] => ZeroAt(list, unit, p)) => IsNarrow(list, group)
    BY <1>1, <2>2 DEF IsNarrow
  <2> QED
    BY <1>1, <2>3, <2>4
<1> QED
  BY <1>1, <1>2, <1>3

LEMMA FitsByPlace ==
  ASSUME NEW list \in Seq(Nat), NEW unit \in Nat, NEW start \in Nat, NEW width \in Nat
  PROVE  Fits64(list, unit, start, width)
           <=> \A w \in 3..width : ZeroAt(list, unit, start + w)
<1>1. ASSUME NEW k \in 0..Len(list), NEW w \in 3..width
      PROVE  k * unit + start + w = k * unit + (start + w)
  <2>1. PICK m \in Nat : m = Len(list)
    BY LenProperties
  <2>2. k \in Int
    BY <2>1
  <2>3. PICK x \in Int : x = k * unit
    BY <2>2
  <2>4. x + start + w = x + (start + w)
    BY <2>3
  <2> QED
    BY <2>3, <2>4
<1>2. ASSUME NEW w \in 3..width
      PROVE  ZeroAt(list, unit, start + w)
               <=> \A k \in 0..Len(list) : k * unit + start + w <= Len(list)
                                            => list[k * unit + start + w] = 0
  <2>1. ASSUME ZeroAt(list, unit, start + w), NEW k \in 0..Len(list),
               k * unit + start + w <= Len(list)
        PROVE  list[k * unit + start + w] = 0
    <3>1. PICK place : place = k * unit + start + w
      OBVIOUS
    <3>2. place = k * unit + (start + w)
      BY <1>1, <3>1
    <3>3. place <= Len(list)
      BY <2>1, <3>1, Zenon
    <3>4. list[place] = 0
      BY <2>1, <3>2, <3>3, Zenon DEF ZeroAt
    <3> QED
      BY <3>1, <3>4, Zenon
  <2>2. ASSUME \A k \in 0..Len(list) : k * unit + start + w <= Len(list)
                                         => list[k * unit + start + w] = 0,
               NEW k \in 0..Len(list), k * unit + (start + w) <= Len(list)
        PROVE  list[k * unit + (start + w)] = 0
    <3>1. PICK place : place = k * unit + start + w
      OBVIOUS
    <3>2. place = k * unit + (start + w)
      BY <1>1, <3>1
    <3>3. place <= Len(list)
      BY <2>2, <3>2, Zenon
    <3>4. list[place] = 0
      BY <2>2, <3>1, <3>3, Zenon
    <3> QED
      BY <3>2, <3>4, Zenon
  <2> QED
    BY <2>1, <2>2, Zenon DEF ZeroAt
<1>3. Fits64(list, unit, start, width) <=>
        \A w \in 3..width : \A k \in 0..Len(list) : k * unit + start + w <= Len(list)
                                                     => list[k * unit + start + w] = 0
  BY Zenon DEF Fits64
<1> QED
  BY <1>2, <1>3, Zenon

(* What the two tests of a list say of it, for either kind of group.       *)
LEMMA WholeLists ==
  ASSUME NEW list \in Lists \ {Absent}, NEW group \in Seq(BOOLEAN)
  PROVE  /\ IsWhole(list, group)
              <=> list # Padded /\ IsMultiple(Len(list), Len(group))
         /\ IsWhole(list, group) => /\ list \in Seq(Nat)
                                    /\ Len(group) = 0 => Len(list) = 0
<1>1. CASE list = Padded
  BY <1>1 DEF IsWhole
<1>2. CASE list # Padded
  <2>1. list \in Seq(Nat) /\ Len(list) \in Nat /\ Len(group) \in Nat
    BY <1>2, LenProperties DEF Lists
  <2>2. (group # <<>> <=> Len(group) > 0) /\ (list = <<>> <=> Len(list) = 0)
    BY <2>1, EmptySeq
  <2>3. IsWhole(list, group) <=>
          IF Len(group) > 0 THEN Len(list) % Len(group) = 0 ELSE Len(list) = 0
    BY <1>2, <2>2 DEF IsWhole
  <2> QED
    BY <1>2, <2>1, <2>3, Multiples
<1> QED
  BY <1>1, <1>2

LEMMA ListsOfPairs ==
  ASSUME NEW list \in Lists \ {Absent}, NEW a \in Nat, NEW b \in Nat
  PROVE  IntoCellsSlice(list, IntegerOf(a) \o IntegerOf(b)) = "Some"
           <=> /\ list # Padded /\ IsMultiple(Len(list), a + b)
               /\ Fits64(list, a + b, 0, a) /\ Fits64(list, a + b, a, b)
<1> DEFINE group == IntegerOf(a) \o IntegerOf(b)
<1>1. /\ group \in Seq(BOOLEAN) /\ Len(group) = a + b
      /\ \A i \in 1..a + b : group[i] = IF i <= a THEN i > 2 ELSE i - a > 2
  BY GroupOfTwo
<1> HIDE DEF group
<1>2. /\ IsWhole(list, group) <=> list # Padded /\ IsMultiple(Len(list), a + b)
      /\ IsWhole(list, group) => list \in Seq(Nat) /\ (Len(group) = 0 => Len(list) = 0)
  BY <1>1, WholeLists
<1>3. ASSUME IsWhole(list, group)
      PROVE  IsNarrow(list, group)
               <=> Fits64(list, a + b, 0, a) /\ Fits64(list, a + b, a, b)
  <2>1. IsNarrow(list, group)
          <=> \A p \in 1..a + b : group[p] => ZeroAt(list, a + b, p)
    BY <1>1, <1>2, <1>3, NarrowByPlace
  <2> HIDE DEF ZeroAt
  <2>2. list \in Seq(Nat) /\ a + b \in Nat /\ 0 \in Nat
    BY <1>2, <1>3
  <2>3. Fits64(list, a + b, 0, a) <=> \A w \in 3..a : ZeroAt(list, a + b, 0 + w)
    BY <2>2, FitsByPlace
  <2>4. Fits64(list, a + b, a, b) <=> \A w \in 3..b : ZeroAt(list, a + b, a + w)
    BY <2>2, FitsByPlace
  <2>5. ASSUME \A w \in 3..a : ZeroAt(list, a + b, 0 + w),
               \A w \in 3..b : ZeroAt(list, a + b, a + w),
               NEW p \in 1..a + b, group[p]
        PROVE  ZeroAt(list, a + b, p)
    <3>1. CASE p <= a
      <4>1. p \in 3..a /\ 0 + p = p
        BY <1>1, <2>5, <3>1
      <4> QED
        BY <2>5, <4>1
    <3>2. CASE p > a
      <4>1. p - a \in 3..b /\ a + (p - a) = p
        BY <1>1, <2>5, <3>2
      <4> QED
        BY <2>5, <4>1
    <3> QED
      BY <3>1, <3>2
  <2>6. ASSUME \A p \in 1..a + b : group[p] => ZeroAt(list, a + b, p), NEW w \in 3..a
        PROVE  ZeroAt(list, a + b, 0 + w)
    <3>1. w \in 1..a + b /\ group[w] /\ 0 + w = w
      BY <1>1
    <3> QED
      BY <2>6, <3>1
  <2>7. ASSUME \A p \in 1..a + b : group[p] => ZeroAt(list, a + b, p), NEW w \in 3..b
        PROVE  ZeroAt(list, a + b, a + w)
    <3>1. a + w \in 1..a + b /\ ~ (a + w <= a) /\ (a + w) - a = w
      OBVIOUS
    <3>2. group[a + w]
      BY <1>1, <3>1
    <3> QED
      BY <2>7, <3>1, <3>2
  <2> QED
    BY <2>1, <2>3, <2>4, <2>5, <2>6, <2>7
<1> QED
  BY <1>2, <1>3 DEF IntoCellsSlice, group

LEMMA ListsOfTriples ==
  ASSUME NEW list \in Lists \ {Absent}, NEW a \in Nat, NEW b \in Nat, NEW c \in Nat
  PROVE  IntoCellsSlice(list, IntegerOf(a) \o IntegerOf(b) \o IntegerOf(c)) = "Some"
           <=> /\ list # Padded /\ IsMultiple(Len(list), a + b + c)
               /\ Fits64(list, a + b + c, 0, a) /\ Fits64(list, a + b + c, a, b)
               /\ Fits64(list, a + b + c, a + b, c)
<1> DEFINE group == IntegerOf(a) \o IntegerOf(b) \o IntegerOf(c)
           unit  == a + b + c
<1>1. /\ group \in Seq(BOOLEAN) /\ Len(group) = unit
      /\ \A i \in 1..unit : group[i] = IF i <= a THEN i > 2
                                       ELSE IF i <= a + b THEN i - a > 2
                                       ELSE i - (a + b) > 2
  BY GroupOfThree
<1> HIDE DEF group
<1>2. /\ IsWhole(list, group) <=> list # Padded /\ IsMultiple(Len(list), unit)
      /\ IsWhole(list, group) => list \in Seq(Nat) /\ (Len(group) = 0 => Len(list) = 0)
  BY <1>1, WholeLists
<1>3. ASSUME IsWhole(list, group)
      PROVE  IsNarrow(list, group)
               <=> /\ Fits64(list, unit, 0, a) /\ Fits64(list, unit, a, b)
                   /\ Fits64(list, unit, a + b, c)
  <2>1. IsNarrow(list, group) <=> \A p \in 1..unit : group[p] => ZeroAt(list, unit, p)
    BY <1>1, <1>2, <1>3, NarrowByPlace
  <2>2. list \in Seq(Nat) /\ unit \in Nat /\ a + b \in Nat /\ 0 \in Nat
    BY <1>2, <1>3
  <2> HIDE DEF unit
  <2>3. Fits64(list, unit, 0, a) <=> \A w \in 3..a : ZeroAt(list, unit, 0 + w)
    BY <2>2, FitsByPlace
  <2>4. Fits64(list, unit, a, b) <=> \A w \in 3..b : ZeroAt(list, unit, a + w)
    BY <2>2, FitsByPlace
  <2>5. Fits64(list, unit, a + b, c) <=> \A w \in 3..c : ZeroAt(list, unit, a + b + w)
    BY <2>2, FitsByPlace
  <2> USE DEF unit
  <2>6. ASSUME \A w \in 3..a : ZeroAt(list, unit, 0 + w),
               \A w \in 3..b : ZeroAt(list, unit, a + w),
               \A w \in 3..c : ZeroAt(list, unit, a + b + w),
               NEW p \in 1..unit, group[p]
        PROVE  ZeroAt(list, unit, p)
    <3>1. CASE p <= a
      <4>1. p \in 3..a /\ 0 + p = p
        BY <1>1, <2>6, <3>1
      <4> QED
        BY <2>6, <4>1
    <3>2. CASE p > a /\ p <= a + b
      <4>1. p - a \in 3..b /\ a + (p - a) = p
        BY <1>1, <2>6, <3>2
      <4> QED
        BY <2>6, <4>1
    <3>3. CASE p > a + b
      <4>1. p - (a + b) \in 3..c /\ a + b + (p - (a + b)) = p
        BY <1>1, <2>6, <3>3
      <4> QED
        BY <2>6, <4>1
    <3> QED
      BY <3>1, <3>2, <3>3
  <2>7. ASSUME \A p \in 1..unit : group[p] => ZeroAt(list, unit, p), NEW w \in 3..a
        PROVE  ZeroAt(list, unit, 0 + w)
    <3>1. w \in 1..unit /\ group[w] /\ 0 + w = w
      BY <1>1
    <3> QED
      BY <2>7, <3>1
  <2>8. ASSUME \A p \in 1..unit : group[p] => ZeroAt(list, unit, p), NEW w \in 3..b
        PROVE  ZeroAt(list, unit, a + w)
    <3>1. a + w \in 1..unit /\ ~ (a + w <= a) /\ a + w <= a + b /\ (a + w) - a = w
      OBVIOUS
    <3>2. group[a + w]
      BY <1>1, <3>1
    <3> QED
      BY <2>8, <3>1, <3>2
  <2>9. ASSUME \A p \in 1..unit : group[p] => ZeroAt(list, unit, p), NEW w \in 3..c
        PROVE  ZeroAt(list, unit, a + b + w)
    <3>1. /\ a + b + w \in 1..unit /\ ~ (a + b + w <= a + b) /\ ~ (a + b + w <= a)
          /\ (a + b + w) - (a + b) = w
      OBVIOUS
    <3>2. group[a + b + w]
      BY <1>1, <3>1
    <3> QED
      BY <2>9, <3>1, <3>2
  <2> QED
    BY <2>1, <2>3, <2>4, <2>5, <2>6, <2>7, <2>8, <2>9
<1> QED
  BY <1>2, <1>3 DEF IntoCellsSlice, group

LEMMA CellValuesRead ==
  ASSUME NEW bus \in CellValues \X CellValues
  PROVE  LET cells == ExtractCellCounts(bus)
         IN  /\ cells[1] = Or(bus[1], 2) /\ cells[2] = Or(bus[2], 1)
             /\ cells[1] = Invalid <=> bus[1] = Invalid
             /\ cells[2] = Invalid <=> bus[2] = Invalid
             /\ cells[1] # Invalid => cells[1] \in Nat
             /\ cells[2] # Invalid => cells[2] \in Nat
<1>1. /\ Absent # Invalid /\ Absent \notin Int /\ Invalid \notin Int
      /\ bus[1] \in CellValues /\ bus[2] \in CellValues
  BY NotNumbersAssumption
<1> QED
  BY <1>1 DEF ExtractCellCounts, Or, CellValues

(* The checks of a node's properties accept the sound nodes.               *)
LEMMA PropertyVerdictIsExact ==
  ASSUME NEW raw \in Raws, NEW bus \in CellValues \X CellValues
  PROVE  FirstError(PropertyChecks(raw, ExtractCellCounts(bus))) = "none"
           <=> SoundOn(raw, bus)
<1> DEFINE cells  == ExtractCellCounts(bus)
           own    == ExtractCellCounts(raw.cells)
           S      == [error : NodeErrors, ok : BOOLEAN]
           checks == PropertyChecks(raw, cells)
<1>1. /\ raw.cells \in CellValues \X CellValues
      /\ raw.reg \in Lists /\ raw.ranges \in Lists
      /\ raw.strings \subseteq {"Compatible", "Model", "Status"}
  BY RawsAssumption DEF RawNode
<1>2. ReadReg(raw, cells) = "Some" <=>
        (raw.reg # Absent =>
           /\ raw.reg # Padded /\ Invalid \notin {bus[1], bus[2]}
           /\ IsMultiple(Len(raw.reg), Or(bus[1], 2) + Or(bus[2], 1))
           /\ Fits64(raw.reg, Or(bus[1], 2) + Or(bus[2], 1), 0, Or(bus[1], 2))
           /\ Fits64(raw.reg, Or(bus[1], 2) + Or(bus[2], 1), Or(bus[1], 2), Or(bus[2], 1)))
  <2>1. /\ cells[1] = Or(bus[1], 2) /\ cells[2] = Or(bus[2], 1)
        /\ Invalid \in {cells[1], cells[2]} <=> Invalid \in {bus[1], bus[2]}
        /\ Invalid \notin {bus[1], bus[2]} => cells[1] \in Nat /\ cells[2] \in Nat
    BY CellValuesRead
  <2> HIDE DEF cells
  <2>2. CASE raw.reg = Absent
    BY <2>2 DEF ReadReg
  <2>3. CASE raw.reg # Absent /\ Invalid \in {bus[1], bus[2]}
    BY <2>1, <2>3 DEF ReadReg
  <2>4. CASE raw.reg # Absent /\ Invalid \notin {bus[1], bus[2]}
    <3>1. ReadReg(raw, cells)
            = IntoCellsSlice(raw.reg, IntegerOf(cells[1]) \o IntegerOf(cells[2]))
      BY <2>1, <2>4 DEF ReadReg
    <3>2. raw.reg \in Lists \ {Absent} /\ cells[1] \in Nat /\ cells[2] \in Nat
      BY <1>1, <2>1, <2>4
    <3>3. IntoCellsSlice(raw.reg, IntegerOf(cells[1]) \o IntegerOf(cells[2])) = "Some"
            <=> /\ raw.reg # Padded /\ IsMultiple(Len(raw.reg), cells[1] + cells[2])
                /\ Fits64(raw.reg, cells[1] + cells[2], 0, cells[1])
                /\ Fits64(raw.reg, cells[1] + cells[2], cells[1], cells[2])
      BY <3>2, ListsOfPairs
    <3> QED
      BY <2>1, <2>4, <3>1, <3>3
  <2> QED
    BY <2>2, <2>3, <2>4
<1>3. ReadRanges(raw, cells) = "Some" <=>
        (raw.ranges # Absent =>
           LET first  == Or(raw.cells[1], 2)
               second == Or(bus[1], 2)
               third  == Or(raw.cells[2], 1)
           IN  /\ raw.ranges # Padded
               /\ Invalid \notin {raw.cells[1], raw.cells[2], bus[1]}
               /\ IsMultiple(Len(raw.ranges), first + second + third)
               /\ Fits64(raw.ranges, first + second + third, 0, first)
               /\ Fits64(raw.ranges, first + second + third, first, second)
               /\ Fits64(raw.ranges, first + second + third, first + second, third))
  <2>1. /\ cells[1] = Or(bus[1], 2)
        /\ cells[1] = Invalid <=> bus[1] = Invalid
        /\ cells[1] # Invalid => cells[1] \in Nat
        /\ own[1] = Or(raw.cells[1], 2) /\ own[2] = Or(raw.cells[2], 1)
        /\ own[1] = Invalid <=> raw.cells[1] = Invalid
        /\ own[2] = Invalid <=> raw.cells[2] = Invalid
        /\ own[1] # Invalid => own[1] \in Nat
        /\ own[2] # Invalid => own[2] \in Nat
        /\ OwnCells(raw) = own
    BY <1>1, CellValuesRead DEF OwnCells
  <2> HIDE DEF cells, own
  <2>2. CASE raw.ranges = Absent
    BY <2>2 DEF ReadRanges
  <2>3. CASE raw.ranges # Absent /\ Invalid \in {raw.cells[1], raw.cells[2], bus[1]}
    <3>1. ReadRanges(raw, cells) = "None"
      BY <2>1, <2>3 DEF ReadRanges
    <3> QED
      BY <2>3, <3>1
  <2>4. CASE raw.ranges # Absent /\ Invalid \notin {raw.cells[1], raw.cells[2], bus[1]}
    <3>1. ReadRanges(raw, cells)
            = IntoCellsSlice(raw.ranges,
                IntegerOf(own[1]) \o IntegerOf(cells[1]) \o IntegerOf(own[2]))
      BY <2>1, <2>4 DEF ReadRanges
    <3>2. /\ raw.ranges \in Lists \ {Absent}
          /\ own[1] \in Nat /\ cells[1] \in Nat /\ own[2] \in Nat
      BY <1>1, <2>1, <2>4
    <3> DEFINE unit == own[1] + cells[1] + own[2]
    <3>3. IntoCellsSlice(raw.ranges,
            IntegerOf(own[1]) \o IntegerOf(cells[1]) \o IntegerOf(own[2])) = "Some"
            <=> /\ raw.ranges # Padded /\ IsMultiple(Len(raw.ranges), unit)
                /\ Fits64(raw.ranges, unit, 0, own[1])
                /\ Fits64(raw.ranges, unit, own[1], cells[1])
                /\ Fits64(raw.ranges, unit, own[1] + cells[1], own[2])
      BY <3>2, ListsOfTriples
    <3> QED
      BY <2>1, <2>4, <3>1, <3>3
  <2> QED
    BY <2>2, <2>3, <2>4
<1>4. /\ ReadReg(raw, cells) \in {"Some", "None", "panic"}
      /\ ReadRanges(raw, cells) \in {"Some", "None", "panic"}
  BY DEF ReadReg, ReadRanges, IntoCellsSlice
<1>5. checks \in Seq(S) /\ Len(checks) = 8
  BY DEF PropertyChecks, Check, NodeErrors
<1>6. (\A i \in 1..8 : checks[i].ok) <=>
        /\ ReadReg(raw, cells) = "Some" /\ ReadRanges(raw, cells) = "Some"
        /\ raw.strings = {} /\ raw.phandle # Invalid
  <2>1. /\ checks[1].ok = (ReadReg(raw, cells) # "None")
        /\ checks[2].ok = (ReadReg(raw, cells) # "panic")
        /\ checks[3].ok = ("Compatible" \notin raw.strings)
        /\ checks[4].ok = ("Model" \notin raw.strings)
        /\ checks[5].ok = (ReadRanges(raw, cells) # "None")
        /\ checks[6].ok = (ReadRanges(raw, cells) # "panic")
        /\ checks[7].ok = ("Status" \notin raw.strings)
        /\ checks[8].ok = (raw.phandle # Invalid)
    BY DEF PropertyChecks, Check
  <2>2. 1..8 = {1, 2, 3, 4, 5, 6, 7, 8}
    OBVIOUS
  <2> HIDE DEF checks, cells
  <2>3. (\A i \in 1..8 : checks[i].ok) <=>
          /\ checks[1].ok /\ checks[2].ok /\ checks[3].ok /\ checks[4].ok
          /\ checks[5].ok /\ checks[6].ok /\ checks[7].ok /\ checks[8].ok
    BY <2>2
  <2>4. raw.strings = {} <=> /\ "Compatible" \notin raw.strings
                            /\ "Model" \notin raw.strings
                            /\ "Status" \notin raw.strings
    BY <1>1
  <2>5. /\ ReadReg(raw, cells) = "Some"
             <=> ReadReg(raw, cells) # "None" /\ ReadReg(raw, cells) # "panic"
        /\ ReadRanges(raw, cells) = "Some"
             <=> ReadRanges(raw, cells) # "None" /\ ReadRanges(raw, cells) # "panic"
    BY <1>4
  <2> QED
    BY <2>1, <2>3, <2>4, <2>5, Zenon
<1> HIDE DEF checks
<1>7. FirstError(checks) = "none" <=> \A i \in 1..8 : checks[i].ok
  <2>1. \A i \in 1..8 : checks[i].error # "none"
    <3>1. \A i \in 1..8 : checks[i] \in S
      <4> HIDE DEF S
      <4> QED
        BY <1>5, ElementOfSeq
    <3> QED
      BY <3>1 DEF NodeErrors
  <2> HIDE DEF S
  <2> QED
    BY <1>5, <2>1, FirstErrorProperties DEF IsFirstFailure
<1> HIDE DEF cells
<1>8. FirstError(PropertyChecks(raw, cells)) = "none"
        <=> /\ ReadReg(raw, cells) = "Some" /\ ReadRanges(raw, cells) = "Some"
            /\ raw.strings = {} /\ raw.phandle # Invalid
  BY <1>6, <1>7 DEF checks
<1>9. SoundOn(raw, bus)
        <=> /\ ReadReg(raw, cells) = "Some" /\ ReadRanges(raw, cells) = "Some"
            /\ raw.strings = {} /\ raw.phandle # Invalid
  BY <1>2, <1>3, Zenon DEF SoundOn
<1> QED
  BY <1>8, <1>9 DEF cells

LEMMA SoundOnItsBus == \A i : IsSound(i) <=> SoundOn(nodes[i].raw, Bus(i))
  BY DEF IsSound, SoundOn

NothingWrong ==
  /\ \A i \in 1..Len(nodes) : IsSound(i)
  /\ \A i \in Finished : nodes[i].raw.interrupts # Invalid
  /\ \A c \in 1..Len(calls) : Invalid \notin {calls[c].cells[1], calls[c].cells[2]}
  /\ ~ Duplicated

LEMMA IntoComponentsVerdict ==
  ASSUME Inv, VerdictInv,
         NEW kind \in Range(Kinds), NEW cells \in CellValues \X CellValues,
         kind = "root" => Invalid \notin {cells[1], cells[2]},
         IntoComponents(kind, cells)
  PROVE  VerdictInv'
<1> DEFINE call == [kind |-> kind, cells |-> cells]
<1>1. /\ out = "parsing" /\ calls' = Append(calls, call)
      /\ given' = ExtractCellCounts(CellsSeen(kind, cells))
      /\ \/ Invalid \in {given'[1], given'[2]} /\ out' = "Cells"
         \/ Invalid \notin {given'[1], given'[2]} /\ out' = out
      /\ nodes' = nodes /\ stack' = stack
  BY DEF IntoComponents
<1>2. /\ calls' \in Seq(Call) /\ Len(calls') = Len(calls) + 1
      /\ calls'[Len(calls) + 1] = call
      /\ \A c \in 1..Len(calls) : calls'[c] = calls[c]
  <2>1. calls \in Seq(Call)
    BY Facts DEF TypeParted
  <2>2. call \in Call
    BY DEF Call
  <2> HIDE DEF call
  <2> QED
    BY <1>1, <2>1, <2>2, AppendProperties
<1>3. FrameCells'
  BY <1>1 DEF VerdictInv, FrameCells
<1>4. GivenCells'
  BY <1>1, <1>2 DEF GivenCells, Last
<1>5. NothingWrong
  BY <1>1 DEF VerdictInv, VerdictIsExact, NothingWrong, Going
<1>6. \A i \in 1..Len(nodes) : IsSound(i)'
  <2> SUFFICES ASSUME NEW i \in 1..Len(nodes) PROVE IsSound(i)'
    OBVIOUS
  <2>1. nodes[i].call \in 1..Len(calls)
    BY Facts, TypeParts DEF TypeParted, NodeOf
  <2>2. Bus(i)' = Bus(i)
    BY <1>1, <1>2, <2>1 DEF Bus
  <2>3. IsSound(i)
    BY <1>5 DEF NothingWrong
  <2> QED
    BY <1>1, <2>2, <2>3 DEF IsSound
<1>7. Going' <=> Invalid \notin {cells[1], cells[2]}
  <2>1. Going' <=> Invalid \notin {given'[1], given'[2]}
    BY <1>1 DEF Going
  <2> DEFINE bus == CellsSeen(kind, cells)
  <2>2. bus \in CellValues \X CellValues
    BY DEF CellsSeen, CellValues
  <2>3. Invalid \in {bus[1], bus[2]} <=> Invalid \in {cells[1], cells[2]}
    BY NotNumbersAssumption DEF CellsSeen
  <2> HIDE DEF bus
  <2>4. given' = ExtractCellCounts(bus)
    BY <1>1 DEF bus
  <2>5. Invalid \in {given'[1], given'[2]} <=> Invalid \in {bus[1], bus[2]}
    BY <2>2, <2>4, CellValuesRead
  <2> QED
    BY <2>1, <2>3, <2>5
<1>8. Finished' = Finished /\ Duplicated' = Duplicated
  BY <1>1 DEF Finished, Duplicated, HandleOf
<1>9. NothingWrong' <=> Invalid \notin {cells[1], cells[2]}
  <2>1. (\A c \in 1..Len(calls') :
           Invalid \notin {calls'[c].cells[1], calls'[c].cells[2]})
          <=> Invalid \notin {cells[1], cells[2]}
    <3>1. \A c \in 1..Len(calls) :
            Invalid \notin {calls'[c].cells[1], calls'[c].cells[2]}
      BY <1>2, <1>5 DEF NothingWrong
    <3>2. calls'[Len(calls) + 1].cells = cells
      BY <1>2
    <3>3. 1..Len(calls') = (1..Len(calls)) \cup {Len(calls) + 1}
      BY <1>2, Facts
    <3> QED
      BY <3>1, <3>2, <3>3
  <2> QED
    BY <1>1, <1>5, <1>6, <1>8, <2>1 DEF NothingWrong
<1> QED
  BY <1>3, <1>4, <1>7, <1>9 DEF VerdictInv, VerdictIsExact, NothingWrong

LEMMA ReturnVerdict == ASSUME VerdictInv, Return PROVE VerdictInv'
<1>1. /\ out = "parsing" /\ out' \in {"Ok", "parsing"}
      /\ UNCHANGED <<calls, given, nodes, stack>>
  BY DEF Return
<1>2. Going /\ Going'
  BY <1>1 DEF Going
<1>3. FrameCells' /\ GivenCells'
  BY <1>1 DEF VerdictInv, FrameCells, GivenCells
<1>4. NothingWrong
  BY <1>2 DEF VerdictInv, VerdictIsExact, NothingWrong
<1>5. \A i : Bus(i)' = Bus(i)
  BY <1>1 DEF Bus
<1>6. \A i : IsSound(i)' <=> IsSound(i)
  BY <1>1, <1>5 DEF IsSound
<1>7. Finished' = Finished /\ Duplicated' = Duplicated
  BY <1>1 DEF Finished, Duplicated, HandleOf
<1>8. NothingWrong'
  BY <1>1, <1>4, <1>6, <1>7 DEF NothingWrong
<1> QED
  BY <1>2, <1>3, <1>8 DEF VerdictInv, VerdictIsExact, NothingWrong

LEMMA NewVerdict ==
  ASSUME Inv, VerdictInv, NEW raw \in Raws, New(raw)
  PROVE  VerdictInv'
<1> DEFINE node  == [raw    |-> raw, call |-> Len(calls),
                     parent |-> IF stack = <<>> THEN 0 ELSE Last(stack).id]
           frame == [id |-> Len(nodes'), cells |-> OwnCells(raw)]
           error == FirstError(PropertyChecks(raw, CellsForChild))
           bus   == IF stack = <<>> THEN CellsSeen(Last(calls).kind, Last(calls).cells)
                    ELSE nodes[Last(stack).id].raw.cells
           n     == Len(nodes)
<1>1. /\ out = "parsing" /\ calling /\ nodes' = Append(nodes, node)
      /\ \/ error # "none" /\ out' = Propagate(error, Len(stack)) /\ stack' = stack
         \/ error = "none" /\ stack' = Append(stack, frame) /\ out' = out
      /\ UNCHANGED <<calls, given>>
  BY DEF New
<1>2. /\ n \in Nat /\ n + 1 \in 1..n + 1 /\ Len(nodes') = n + 1
      /\ nodes'[n + 1] = node /\ \A i \in 1..n : nodes'[i] = nodes[i]
  <2>1. nodes \in Seq(NodeOf(Len(calls), n))
    BY Facts DEF TypeParted
  <2> HIDE DEF node
  <2> QED
    BY <1>1, <2>1, Facts
<1>3. NothingWrong
  BY <1>1 DEF VerdictInv, VerdictIsExact, NothingWrong, Going
<1>4. /\ Last(calls) = calls[Len(calls)] /\ Last(calls) \in Call
      /\ stack # <<>> => /\ Last(stack) = stack[Len(stack)]
                         /\ Len(stack) \in 1..Len(stack)
                         /\ Last(stack).id \in 1..n
      /\ calls # <<>>
  <2>1. calls # <<>> /\ calls \in Seq(Call) /\ stack \in Seq(FrameOf(n))
    BY <1>1, Facts DEF Inv, CallUnderWay, TypeParted
  <2> HIDE DEF n
  <2>2. Last(calls) = calls[Len(calls)] /\ Last(calls) \in Call
    BY <2>1, FrontProperties
  <2>3. CASE stack # <<>>
    <3>1. Last(stack) = stack[Len(stack)] /\ Len(stack) \in Nat \ {0}
      BY <2>1, <2>3, FrontProperties
    <3>2. Len(stack) \in 1..Len(stack)
      BY <3>1
    <3> QED
      BY <2>1, <2>2, <3>1, <3>2, Facts DEF n
  <2> QED
    BY <2>1, <2>2, <2>3
<1>5. bus \in CellValues \X CellValues /\ CellsForChild = ExtractCellCounts(bus)
  <2>1. CASE stack = <<>>
    <3>1. CellsForChild = given /\ bus = CellsSeen(Last(calls).kind, Last(calls).cells)
      BY <2>1 DEF CellsForChild
    <3>2. Last(calls).cells \in CellValues \X CellValues
      BY <1>4 DEF Call
    <3>3. bus \in CellValues \X CellValues
      BY <3>1, <3>2 DEF CellsSeen, CellValues
    <3> QED
      BY <1>4, <3>1, <3>3 DEF VerdictInv, GivenCells
  <2>2. CASE stack # <<>>
    <3>1. nodes[Last(stack).id].raw \in Raws
      BY <1>4, <2>2, Facts
    <3>2. Last(stack).cells = ExtractCellCounts(nodes[Last(stack).id].raw.cells)
      BY <1>4, <2>2 DEF VerdictInv, FrameCells
    <3> QED
      BY <2>2, <3>1, <3>2, RawFacts DEF CellsForChild
  <2> QED
    BY <2>1, <2>2
<1>6. PICK k \in Nat : k = n + 1
  BY <1>2
<1>7. ASSUME NEW i \in 1..n PROVE IsSound(i)' /\ HandleOf(i)' = HandleOf(i)
  <2>1. nodes[i].parent \in 0..n /\ nodes'[i] = nodes[i]
    BY <1>2, Facts, TypeParts DEF TypeParted, NodeOf
  <2>2. nodes[i].parent # 0 => nodes'[nodes[i].parent] = nodes[nodes[i].parent]
    BY <1>2, <2>1
  <2>3. Bus(i)' = Bus(i)
    BY <1>1, <2>1, <2>2 DEF Bus
  <2>4. IsSound(i)
    BY <1>3 DEF NothingWrong
  <2> QED
    BY <2>1, <2>3, <2>4 DEF IsSound, HandleOf
<1>8. IsSound(k)' <=> error = "none"
  <2>1. nodes'[k].raw = raw
    BY <1>2, <1>6
  <2>2. Bus(k)' = bus
    <3>1. CASE stack = <<>>
      <4>1. nodes'[k].parent = 0 /\ nodes'[k].call = Len(calls)
        BY <1>2, <1>6, <3>1
      <4>2. calls' = calls /\ Last(calls) = calls[Len(calls)]
        BY <1>1, <1>4
      <4>3. bus = CellsSeen(calls[Len(calls)].kind, calls[Len(calls)].cells)
        BY <3>1, <4>2
      <4> HIDE DEF bus, node
      <4> QED
        BY <4>1, <4>2, <4>3 DEF Bus
    <3>2. CASE stack # <<>>
      <4>1. nodes'[k].parent = Last(stack).id /\ Last(stack).id \in 1..n
        BY <1>2, <1>4, <1>6, <3>2
      <4>2. nodes'[Last(stack).id] = nodes[Last(stack).id] /\ Last(stack).id # 0
        BY <1>2, <4>1
      <4> QED
        BY <3>2, <4>1, <4>2 DEF Bus
    <3> QED
      BY <3>1, <3>2
  <2> HIDE DEF bus
  <2>3. IsSound(k)' <=> SoundOn(raw, bus)
    BY <2>1, <2>2 DEF IsSound, SoundOn
  <2> QED
    BY <1>5, <2>3, PropertyVerdictIsExact
<1>9. Going' <=> error = "none"
  BY <1>1, PropertyVerdict DEF Going, Propagate, NodeErrors
<1>10. NothingWrong' <=> error = "none"
  <2>1. CASE error = "none"
    <3>1. Finished' = Finished /\ Finished \subseteq 1..n
      BY <1>9, <2>1, NewInv, Facts
    <3>2. ~ Duplicated'
      BY <1>3, <1>7, <3>1 DEF NothingWrong, Duplicated
    <3>3. \A i \in Finished' : nodes'[i].raw.interrupts # Invalid
      BY <1>2, <1>3, <3>1 DEF NothingWrong
    <3>4. \A i \in 1..Len(nodes') : IsSound(i)'
      BY <1>2, <1>6, <1>7, <1>8, <2>1
    <3> QED
      BY <1>1, <1>3, <2>1, <3>2, <3>3, <3>4 DEF NothingWrong
  <2>2. CASE error # "none"
    BY <1>2, <1>6, <1>8, <2>2 DEF NothingWrong
  <2> QED
    BY <2>1, <2>2
<1>11. FrameCells'
  <2>1. \A i \in 1..Len(stack) :
          stack[i].cells = ExtractCellCounts(nodes'[stack[i].id].raw.cells)
    BY <1>2, Facts DEF VerdictInv, FrameCells
  <2>2. CASE stack' = stack
    BY <2>1, <2>2 DEF FrameCells
  <2>3. CASE stack' = Append(stack, frame)
    <3>1. stack \in Seq(FrameOf(n)) /\ Len(stack) \in Nat
      BY Facts DEF TypeParted
    <3>2. /\ Len(stack') = Len(stack) + 1 /\ stack'[Len(stack) + 1] = frame
          /\ \A i \in 1..Len(stack) : stack'[i] = stack[i]
      <4> HIDE DEF frame
      <4> QED
        BY <2>3, <3>1
    <3>3. frame.cells = ExtractCellCounts(nodes'[frame.id].raw.cells)
      BY <1>2 DEF OwnCells
    <3> HIDE DEF frame
    <3> QED
      BY <2>1, <3>1, <3>2, <3>3 DEF FrameCells
  <2> QED
    BY <1>1, <2>2, <2>3
<1>12. GivenCells'
  BY <1>1 DEF VerdictInv, GivenCells
<1> QED
  BY <1>9, <1>10, <1>11, <1>12 DEF VerdictInv, VerdictIsExact, NothingWrong

LEMMA FinishVerdict == ASSUME Inv, VerdictInv, Finish PROVE VerdictInv'
<1> DEFINE id     == Last(stack).id
           raw    == nodes[id].raw
           handle == raw.phandle
<1>1. /\ out = "parsing" /\ stack # <<>> /\ stack' = Front(stack)
      /\ UNCHANGED <<calls, calling, given, nodes>>
      /\ \/ raw.interrupts = Invalid /\ out' = "panic"
         \/ raw.interrupts # Invalid /\ handle = Absent /\ out' = out
         \/ /\ raw.interrupts # Invalid /\ handle # Absent
            /\ out' = IF IsNewHandle(handle) THEN out
                      ELSE Propagate("DuplicatePHandle", Len(stack'))
  BY DEF Finish
<1>2. /\ id \in 1..Len(nodes) /\ id \notin Finished
      /\ Finished' = Finished \cup {id}
  BY FinishInv
<1>3. NothingWrong /\ Going
  BY <1>1 DEF VerdictInv, VerdictIsExact, NothingWrong, Going
<1>4. /\ \A i : HandleOf(i)' = HandleOf(i) /\ (IsSound(i)' <=> IsSound(i))
      /\ HandleOf(id) = handle
  BY <1>1 DEF HandleOf, IsSound, Bus
<1>5. Duplicated' <=> handle # Absent /\ handle \in DOMAIN phandles
  <2>1. /\ \A i \in Finished : HandleOf(i) # Absent =>
             HandleOf(i) \in DOMAIN phandles /\ phandles[HandleOf(i)] = i
        /\ \A h \in DOMAIN phandles :
             phandles[h] \in Finished /\ HandleOf(phandles[h]) = h
    BY <1>3 DEF Inv, PHandlesFaithful
  <2>2. Duplicated' <=> \E i \in Finished : HandleOf(i) = handle /\ handle # Absent
    <3>1. ~ Duplicated
      BY <1>3 DEF NothingWrong
    <3> HIDE DEF id, raw, handle
    <3> QED
      BY <1>2, <1>4, <3>1 DEF Duplicated
  <2> QED
    BY <2>1, <2>2
<1>6. Going' <=> /\ raw.interrupts # Invalid
                 /\ ~ (handle # Absent /\ handle \in DOMAIN phandles)
  BY <1>1 DEF Going, Propagate, IsNewHandle
<1>7. NothingWrong' <=> /\ raw.interrupts # Invalid
                        /\ ~ (handle # Absent /\ handle \in DOMAIN phandles)
  <2>1. (\A i \in Finished' : nodes'[i].raw.interrupts # Invalid)
          <=> raw.interrupts # Invalid
    BY <1>1, <1>2, <1>3 DEF NothingWrong
  <2>2. (\A i \in 1..Len(nodes') : IsSound(i)') /\ calls' = calls
    BY <1>1, <1>3, <1>4 DEF NothingWrong
  <2> QED
    BY <1>3, <1>5, <2>1, <2>2 DEF NothingWrong
<1>8. FrameCells' /\ GivenCells'
  <2>1. stack \in Seq(FrameOf(Len(nodes)))
    BY Facts DEF TypeParted
  <2>2. /\ Len(stack') = Len(stack) - 1 /\ Len(stack) \in Nat
        /\ \A i \in 1..Len(stack) - 1 : stack'[i] = stack[i]
    BY <1>1, <2>1, FrontProperties
  <2> QED
    BY <1>1, <2>2 DEF VerdictInv, FrameCells, GivenCells
<1> QED
  BY <1>6, <1>7, <1>8 DEF VerdictInv, VerdictIsExact, NothingWrong

LEMMA InitVerdict == Init => VerdictInv
<1> SUFFICES ASSUME Init PROVE VerdictInv
  OBVIOUS
<1>1. /\ calls = <<>> /\ nodes = <<>> /\ stack = <<>> /\ out = "parsing"
      /\ Len(calls) = 0 /\ Len(nodes) = 0 /\ Len(stack) = 0
  BY DEF Init
<1>2. Finished = {}
  BY <1>1 DEF Finished
<1> QED
  BY <1>1, <1>2
     DEF VerdictInv, FrameCells, GivenCells, VerdictIsExact, Going, Duplicated

LEMMA NextVerdict == Inv /\ VerdictInv /\ [Next]_vars => VerdictInv'
<1> SUFFICES ASSUME Inv, VerdictInv, [Next]_vars PROVE VerdictInv'
  OBVIOUS
<1>1. ASSUME NEW k \in {"cache", "region"}, NEW c \in Cells, IntoComponents(k, c)
      PROVE  VerdictInv'
  <2>1. k \in Range(Kinds) /\ k # "root" /\ c \in CellValues \X CellValues
    BY CellsAssumption DEF Range, Kinds
  <2> QED
    BY <1>1, <2>1, IntoComponentsVerdict
<1>2. ASSUME NEW c \in RootCells, IntoComponents("root", c) PROVE VerdictInv'
  <2>1. /\ "root" \in Range(Kinds) /\ c \in CellValues \X CellValues
        /\ Invalid \notin {c[1], c[2]}
    BY CellsAssumption DEF Range, Kinds
  <2> QED
    BY <1>2, <2>1, IntoComponentsVerdict
<1>3. CASE UNCHANGED vars
  BY <1>3 DEF vars, VerdictInv, FrameCells, GivenCells, VerdictIsExact, Going,
              IsSound, Bus, Finished, Duplicated, HandleOf
<1> QED
  BY <1>1, <1>2, <1>3, NewVerdict, FinishVerdict, ReturnVerdict DEF Next

(* Parsing goes on exactly as long as nothing is wrong with what was read, *)
(* for trees of any size and depth, any lists and any cells: integers of   *)
(* three cells or more, on which `consume_cells` may panic, included.      *)
THEOREM VerdictAlwaysExact == Spec => []VerdictIsExact
<1>1. VerdictInv => VerdictIsExact
  BY DEF VerdictInv
<1>2. Spec => []VerdictInv
  BY SpecInv, InitVerdict, NextVerdict, PTL DEF Spec
<1> QED
  BY <1>1, <1>2, PTL
=============================================================================
