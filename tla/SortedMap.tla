----------------------------- MODULE SortedMap -----------------------------
(***************************************************************************)
(* One `Map` (src/src/map.rs) and every method that reads or changes it.   *)
(*                                                                         *)
(* `insert`, `remove`, `get` and `from_iter` are one step each; the        *)
(* methods that loop (`extend`, `extend_preserve`) and the lazy iterator   *)
(* of `extract_if`, which its consumer may drop half way, take one step    *)
(* per element.  They hold `&mut self`, so nothing else happens meanwhile. *)
(***************************************************************************)
EXTENDS MapContents

CONSTANTS Keys,     (* the keys used                                       *)
          Vals,     (* the values used                                     *)
          None,     (* stands for the `None` a method returns              *)
          Batches,  (* what the iterators given to `collect`, `extend` and *)
                    (* `extend_preserve` yield: sequences of entries       *)
          MaxLen    (* bound: calls that could grow the map beyond this    *)
                    (* length are not made                                 *)

Entries == [key : Keys, val : Vals]

ASSUME KeysAssumption == Keys \subseteq Int
ASSUME NoneAssumption == None \notin Vals
ASSUME BatchesAssumption == Batches \subseteq Seq(Entries)
ASSUME MaxLenAssumption == MaxLen \in Nat

VARIABLES contents, (* the sorted array                                    *)
          ret,      (* the last value returned or yielded                  *)
          loop      (* the loop in progress: `todo` is what is left of the *)
                    (* other collection, `at` the next index examined by   *)
                    (* `extract_if`, `drop` the keys its closure accepts   *)

mapVars == <<contents, ret, loop>>

Loops == [op : {"none", "extend", "preserve", "extract"},
          todo : Seq(Entries), at : Nat \ {0}, drop : SUBSET Keys]

Loop(op, todo, drop) == [op |-> op, todo |-> todo, at |-> 1, drop |-> drop]

Idle == Loop("none", <<>>, {})

Fits(n) == loop = Idle /\ Len(contents) + n <= MaxLen

(* Map::new.                                                               *)
MapInit == contents = <<>> /\ ret = None /\ loop = Idle

(* The two arms of the match in `Map::insert`: a value replaced at index   *)
(* `i`, and an entry added where the search said.                          *)
ReplaceAtIndex(i, v) == contents' = [contents EXCEPT ![i].val = v]

AddOffByOne(k, v) ==
  \E i \in Gaps(contents, k) :
    contents' = InsertAt(contents, IF i > 1 THEN i - 1 ELSE i, Entry(k, v))

Add(k, v) ==
  \E i \in Gaps(contents, k) : contents' = InsertAt(contents, i, Entry(k, v))

Insert(k, v) ==
  /\ Fits(1)
  /\ \/ \E i \in Matches(contents, k) :
          ReplaceAtIndex(i, v) /\ ret' = contents[i].val
     \/ Add(k, v) /\ ret' = None
  /\ UNCHANGED loop

RemoveKey(k) ==
  /\ Fits(0)
  /\ \/ \E i \in Matches(contents, k) :
          contents' = RemoveAt(contents, i) /\ ret' = contents[i].val
     \/ Gaps(contents, k) # {} /\ contents' = contents /\ ret' = None
  /\ UNCHANGED loop

Get(k) ==
  /\ Fits(0)
  /\ \/ \E i \in Matches(contents, k) : ret' = contents[i].val
     \/ Gaps(contents, k) # {} /\ ret' = None
  /\ UNCHANGED <<contents, loop>>

(* `from_iter`: collect, then sort; the map collected into is a new one.   *)
FromIter(batch) ==
  /\ Fits(0) /\ Len(batch) <= MaxLen
  /\ contents' \in SortedPermutations(batch)
  /\ ret' = None
  /\ UNCHANGED loop

ExtendStart(batch) ==
  /\ Fits(Len(batch))
  /\ loop' = Loop("extend", batch, {})
  /\ UNCHANGED <<contents, ret>>

NextTodo == IF Len(loop.todo) = 1 THEN Idle ELSE [loop EXCEPT !.todo = Tail(@)]

(* One turn of `for (key, value) in iter { self.insert(key, value); }`.    *)
ExtendStep ==
  /\ loop.op = "extend" /\ loop.todo # <<>>
  /\ LET e == Head(loop.todo)
     IN  \/ \E i \in Matches(contents, e.key) : ReplaceAtIndex(i, e.val)
         \/ Add(e.key, e.val)
  /\ loop' = NextTodo
  /\ UNCHANGED ret

(* The other map is one that was itself collected.                         *)
PreserveStart(batch) ==
  /\ Fits(Len(batch))
  /\ \E other \in SortedPermutations(batch) :
       loop' = Loop("preserve", other, {})
  /\ UNCHANGED <<contents, ret>>

PreserveStepOverwriting ==
  /\ loop.op = "preserve" /\ loop.todo # <<>>
  /\ LET e == Head(loop.todo)
     IN  \/ \E i \in Matches(contents, e.key) : ReplaceAtIndex(i, e.val)
         \/ Add(e.key, e.val)
  /\ loop' = NextTodo
  /\ UNCHANGED ret

PreserveStepUnsearched ==
  /\ loop.op = "preserve" /\ loop.todo # <<>>
  /\ \E i \in 1..Len(contents) + 1 :
       /\ contents' = InsertAt(contents, i, Head(loop.todo))
       /\ IsSortedByKey(contents')
  /\ loop' = NextTodo
  /\ UNCHANGED ret

(* One turn of the loop of `extend_preserve`.                              *)
PreserveStep ==
  /\ loop.op = "preserve" /\ loop.todo # <<>>
  /\ LET e == Head(loop.todo)
     IN  \/ Matches(contents, e.key) # {} /\ contents' = contents
         \/ Add(e.key, e.val)
  /\ loop' = NextTodo
  /\ UNCHANGED ret

(* An iterator over nothing: the loop body never runs.                     *)
LoopOverNothing ==
  /\ loop.op \in {"extend", "preserve"} /\ loop.todo = <<>>
  /\ loop' = Idle
  /\ UNCHANGED <<contents, ret>>

(* `extract_if(|key, _| key \in drop)`: nothing happens until it is polled.*)
ExtractStart(drop) ==
  /\ Fits(0)
  /\ loop' = Loop("extract", <<>>, drop)
  /\ UNCHANGED <<contents, ret>>

ExtractStepSkipping ==
  /\ loop.op = "extract" /\ loop.at <= Len(contents)
  /\ IF contents[loop.at].key \in loop.drop
     THEN contents' = RemoveAt(contents, loop.at) /\ ret' = contents[loop.at].val
     ELSE UNCHANGED <<contents, ret>>
  /\ loop' = [loop EXCEPT !.at = @ + 1]

(* Examines one element: yields and removes it, or steps over it.          *)
ExtractStep ==
  /\ loop.op = "extract" /\ loop.at <= Len(contents)
  /\ IF contents[loop.at].key \in loop.drop
     THEN /\ contents' = RemoveAt(contents, loop.at)
          /\ ret' = contents[loop.at].val
          /\ UNCHANGED loop
     ELSE loop' = [loop EXCEPT !.at = @ + 1] /\ UNCHANGED <<contents, ret>>

(* The iterator is exhausted, or its consumer (`try_collect`) stops early. *)
ExtractEnd ==
  /\ loop.op = "extract"
  /\ loop' = Idle
  /\ UNCHANGED <<contents, ret>>

MapNext ==
  \/ \E k \in Keys, v \in Vals : Insert(k, v)
  \/ \E k \in Keys : RemoveKey(k)
  \/ \E k \in Keys : Get(k)
  \/ \E batch \in Batches : FromIter(batch)
  \/ \E batch \in Batches : ExtendStart(batch)
  \/ \E batch \in Batches : PreserveStart(batch)
  \/ \E drop \in SUBSET Keys : ExtractStart(drop)
  \/ ExtendStep
  \/ PreserveStep
  \/ LoopOverNothing
  \/ ExtractStep
  \/ ExtractEnd

MapSpec == MapInit /\ [][MapNext]_mapVars
-----------------------------------------------------------------------------
(* The variables keep their shape, and an `extract_if` under way never     *)
(* looks beyond the element after the last one.                            *)
MapTypeOK ==
  /\ contents \in Seq(Entries)
  /\ ret \in Vals \cup {None}
  /\ loop \in Loops
  /\ loop.at <= Len(contents) + 1

(* The array is sorted by key after every step, those inside the loops     *)
(* included: `search_for` is only ever asked about a sorted array, which   *)
(* is all that makes its answer mean anything (src/src/map.rs:14).         *)
ContentsSorted == IsSortedByKey(contents)

(* As long as nothing collected repeats a key, no key is stored twice.     *)
KeysDistinct == HasUniqueKeys(contents)

(* Collected from pairwise different keys, the sorted array behaves as the *)
(* map it stands for: every method touches the entry of its key alone and  *)
(* answers with that key's value.                                          *)
Abstract == INSTANCE AbstractMap WITH fmap <- FunctionOf(contents), op <- loop.op
ImplementsAbstractMap == Abstract!Spec
=============================================================================
