# Verification of `device-tree`

The crate `device-tree` (`src/src/`) parses a flattened device tree blob into a
tree of typed nodes.  This directory holds TLA+ modules that model its parser,
the TLC configurations that check them on small instances, and proofs of the
facts the rest of the parser leans on.  Everything is translated from the Rust
source; `PROJECT.json` maps every definition to the lines it stands for.

The crate is sequential and keeps nothing on disk: there are no threads,
messages, timeouts or restarts to model.  What is hard in it is of another
kind: long sequences of tokens that reach states nobody wrote a test for, state
that is consumed at one place and read again at another, recursion that shares
a map with all its siblings and callers, calls that fail half way, lists that
end in the middle of a group, and arithmetic at the end of a slice.

## 1. Inventory

| Part | Source | State it keeps | Operations | Model |
|---|---|---|---|---|
| Map | `map.rs` | a vector sorted by key | `insert`, `remove`, `get`, `extract_if`, `extend`, `extend_preserve`, `from_iter` | `SortedMap` (abstract: `AbstractMap`) |
| Byte slices | `parse.rs` | the words left and their padding | `consume_u32`, `consume_u64`, `consume_cells`, `take`, `consume_c_str`, `into_cells_slice`, conversions | `ByteSlice`, `CellReader`, `PropertyValues` |
| Token stream | `dtb.rs:60-135` | the words of the structure block left | `consume_token`, `iterate_bytes` | `TokenStream`, in `Blob` |
| Structure block | `dtb.rs:313-398` | three stacks and the result | one arm per token | `StructBlock` (abstract: `StructGrammar`) |
| Device nodes | `node/device.rs`, `node/mod.rs`, `node/interrupt.rs` | the recursion and the phandle map | `Node::new`, `into_components` | `DeviceNodes` |
| CPUs and caches | `node/cpu.rs`, `node/cache.rs` | two maps and the links between them | `parse_parent`, `Node::new`, `HigherLevel::new`, `L1::extract_from` | `CpuNodes` |
| Memory, reserved memory | `node/memory_region.rs`, `node/reserved_memory.rs` | lists of ranges | `MemoryRegion::new`, `parse_parent`, `Node::new` | `MemoryNodes` |
| Paths, aliases, `/chosen` | `node/root.rs:209-293`, `node/mod.rs:186-219`, `node/chosen.rs` | aliases, console | `find`, `find_str`, `parse_aliases`, `Chosen::from_node` | `PathLookup` |
| Root pipeline | `node/root.rs:300-407` | what is left of the raw root | `try_from` | `RootNode`; each stage in one of the four modules above |
| Header | `dtb.rs:201-311` | offsets and sizes | first part of `from_bytes` | `Header`, in `Blob` |
| Node names | `node_name.rs` | none | `NameRef::try_from`, how a name is printed | `NodeName`, in `Blob`; atoms elsewhere |
| Property values | `property.rs` | none | numbers, models, status, chassis, enable method | `PropertyValues`; valid or not elsewhere |
| Memory reservations | `memory_reservation.rs` | none | `try_from` | not modelled: a private module nothing calls |
| Helpers | `lib.rs` | none | `split_at_first`, slice transmutation | the first in `ByteStrings`; the second is how `Blob` sees one blob as words and as bytes |
| Command line, formatting | `main.rs`, `Debug`/`Display` | none | | not modelled |

How they interact: `from_bytes` reads the header, makes a `U32ByteSlice` of the
structure block and iterates over its tokens; the token loop builds a raw tree
out of Maps; the `End` token hands the root to `root::Node::try_from`, which
takes nodes and properties out of the raw root stage by stage (CPUs and caches,
reserved memory, memory, the other children), every stage converting device
nodes with one shared phandle map; then aliases, symbols and `/chosen` are
resolved by path in the finished tree, and the boot CPU is looked up by number.

What makes each part correct, and hard:

* **Map**: sorted at every moment at which it is searched, also between the steps
  of its loops and after an iterator was dropped half way; answers like a map.
* **Header**: what is accepted locates both blocks inside the blob, to the byte.
* **Slices**: no word lost or read twice, whatever the padding; both loops over
  cells accept the same values; neither runs for ever nor hits its `expect`.
* **Names and values**: what is read, written back, is the text of the blob; two
  texts are one name exactly when they should be; what is refused is wrong.
* **Root**: every child goes to exactly one conversion, the one its name stands
  for; neither the result nor the error depends on the order of the blob.
* **Structure block**: the stacks stay in step for *every* token sequence, those
  after the `End` token included; the tree is the nesting of the tokens.
* **Device nodes**: a node is read with the cells of its parent, at every depth;
  phandles are unique across callers; errors come out as errors.
* **CPUs**: inheritance from `/cpus` neither lost nor winning over a CPU's own
  property; links end at the named caches.
* **Memory**: what is read is what the blob says, in the root's address space.
* **Paths**: an alias means its full path, and does not depend on other aliases.

`PROJECT.json` lists the hazards one by one, each at its line.

## 2. Modules

Shared: `MapContents` (operators on a vector of entries: binary search as *any*
matching index or the gaps where the key fits, unstable sort as *any* sorted
permutation) and `Checks` (a chain of `?`: the first failing check is the error).

* **`SortedMap`**.  `contents` is the vector, `ret` what the last call returned,
  `loop` the loop in progress.  Single-step methods are single actions; the
  three loops take one step per element, as a `&mut self` borrow lets nothing
  else in between.  `extract_if` may end at any point, since its consumer is
  `try_collect`.  Collections are those in `Batches`.
* **`AbstractMap`**: a partial function, the loop under way, and the methods as the
  entry they touch.  `SortedMap` implements it with `fmap <- FunctionOf(contents)`
  and `op <- loop.op`.
* **`ByteSlice`**: the methods of `U32ByteSlice` as operators on
  `[bytes, padding]`; results are `[out, rest]`; a failing method still returns
  what it has consumed, and `Panic` is a result of its own.
* **`ByteStrings`**: the first of some byte in a string, and what is on both sides
  of it: the C string at the front of a slice, and `split_at_first`.
* **`Header`**, **`NodeName`**: the header and the conversion of a name as chains of
  checks over the words and bytes.  A `usize` is at most `UsizeMax`, a unit address
  has `AddressDigits` digits, a node-name `MaxNodeNameLength` characters: the runs
  scale the three down so that the limits are met.
* **`TokenStream`**: one action per kind of token, over real words: names are
  parsed (`NodeName`) and property names are looked up in the strings block.
* **`Blob`**: `from_bytes` as far as the bytes go: the header, the two blocks cut
  out of the blob, and the tokens one by one.
* **`CellReader`**: the loop of `into_cells_slice` ("checked") and the loops over
  pairs ("pairs"), one integer per step; an integer has any number of cells.
* **`PropertyValues`** extends it with the other conversions of a value: a single
  number, a single string and what is made of it, and the list of models, one
  string per step.  Keywords are constants: their letters matter only where one
  string begins another.
* **`StructBlock`**: one action per arm and outcome.  `block` is the history of
  tokens, chosen as they are read.  What the conversion of the root answers is a
  free choice (`ConversionErrors`).
* **`StructGrammar`**: the one-counter automaton the loop is meant to be.
* **`DeviceNodes`**: `stack` is the call stack of `Node::new`, `calls` the calls of
  `into_components` in the order of the pipeline.  `New` is the part of the
  function before the children, `Finish` the part after; the phandle map is the
  only state they share.  Errors below a caller's direct child become panics
  (`Propagate`): the code unwraps them inside `Rc::new_cyclic`.  A list of cells is
  its words, of which only those beyond 64 bits matter: they must be zero.
* **`CpuNodes`**: phases "cells", "caches", "cpus", "boot"; entries of the maps
  are positions of children, so losing or swapping one is visible.
* **`MemoryNodes`**: phases "parent", "reserved", "memory"; lists are sequences of
  words in base `Base`, so that a range can be written back and compared.
  `reservedSeen` and `memorySeen` are the children read, in order.
* **`RootNode`**: the pipeline of `root::Node::try_from`: the properties, then every
  child from the map that is `left` to one conversion (`routed`), by name, or
  first `aside`.  How each conversion of a child would end is part of the child
  (`ends`), so that any of them can fail; `CpuNodes`, `MemoryNodes`, `DeviceNodes`
  and `PathLookup` say how they end.  `Rpi` is the feature of that name.
* **`PathLookup`**: phases "aliases", "symbols", "chosen", "ready".  A device node
  is its path.  `Find`, `FindFrom`, `FindStr` are the lookups, with `Panic` as a
  result where the code unwraps a name or meets a reserved region.  The recursion
  of `node::Node::find` is the recursive function `Walk`.  Without the feature
  `rpi` the list of symbols is empty.  `aliases` is what a search finds: of two
  spellings of one alias (`a@1`, `a@01`) both are `stored`; a search finds either,
  and may find the other after an insertion has moved them.
* **`DeviceNodesProofs`**, **`CpuNodesProofs`**, **`MemoryNodesProofs`**,
  **`RootNodeProofs`**, **`PathLookupProofs`**: the theorems about the module each
  is named after (section 4).  **`MapTreeProofs`**: those about `SortedMap` and
  `StructBlock`.  **`BytesProofs`**: those about `Blob`, with the header, the
  names and the slices it is made of, and about `PropertyValues`, with
  `CellReader`.
  **`CommonLemmas`**: what they share, namely what inserting, removing, popping and
  sorting do to a sequence, the least element of a set of numbers, and the first
  error of a chain of checks.

Definitions that stand directly above another and vary it (`AddOffByOne` above
`Add`, `IntoCellsSliceSilently` above `IntoCellsSlice`) are mutants: no
specification uses them.
For every property `PROJECT.json` names one that breaks it, so that each
property is known to say something about the code.

## 3. Runs

| Run | Configuration | What it shows |
|---|---|---|
| `map_distinct` | `MC_SortedMap_distinct` | the vector stays sorted with unique keys and implements `AbstractMap`, for three keys and collections without repetitions |
| `block_nesting` | `MC_StructBlock_nesting` | stacks in step, exact verdict, tree = nesting, implements `StructGrammar`, for all sequences of up to 7 tokens |
| `blob` | `MC_Blob` | both blocks are where the header says, every refusal has its reason; the tokens written back are the block; names are their text; reading ends |
| `values` | `MC_PropertyValues` | integers from their places, numbers and strings back as they were, exact verdicts, no panic but for wide integers; reading ends |
| `device_tree` | `MC_DeviceNodes_tree` | the phandle map is exact, every node is judged with its parent's cells, also where integers are too wide |
| `device_root_space` (violation) | `MC_DeviceNodes_root_space` | children of the root are read with the default cells |
| `device_errors` (violation) | `MC_DeviceNodes_errors` | a fault below the first level panics |
| `cpu_nodes` | `MC_CpuNodes` | nothing lost, links and first-level caches, verdict, boot CPU |
| `memory_nodes` | `MC_MemoryNodes` | ranges are word for word those of the nodes; exact verdict |
| `memory_ranges` (violation) | `MC_MemoryNodes_ranges` | a unit address and two ranges: refused |
| `paths` | `MC_PathLookup` | aliases, symbols, console and lookups end where the full path does |
| `root` | `MC_RootNode` | every child to one conversion, by its name, in a fixed order; the first fault is reported |

`CHECK_DEADLOCK FALSE` is set where parsing ends: the parser returns and there is
nothing left to do.  A map can always be used again, so its run checks deadlock.

### Bounds

* `MaxLen` 4, three keys: a vector with an entry left and right of every gap, and
  loops that replace, add and skip in one pass.
* `MaxTokens` 7, three names, two keys: three levels; a child and a property on
  each side of it; a whole tree, `End`, and a node begun and ended after it.
* Blobs, three families.  Structure blocks of up to four words out of eight, and
  a property with up to four more: every token, a value with padding, names of
  one or two words, a truncation at every place, an offset into the middle of a
  string and to one without end.  Names of up to five out of five characters:
  two "@", signs, leading zeros, one digit and one character too many.  Headers
  with one field out of range, or sizes and offsets at every limit together, or
  cut off.  `UsizeMax` is 127: only so can a field not fit, as on a machine whose
  `usize` is narrower than 32 bits, and a sum overflow, as on one of 32 bits.
* Values: one to four words with every padding, read as groups of one or two
  integers of 0 to 3 cells or three of 0 to 2, and as one number; strings of up
  to six bytes, in which empty ones, commas at every place and a missing end occur.
* Root: every validity of the properties over four lists of children; sound
  properties over lists of up to four children, any of which may fail, share its
  name with another or carry a unit address.
* `MaxNodes` 3, `MaxCalls` 2: a grandchild, a sibling, and a second caller after
  the first; two phandles, so that a duplicate can be anywhere.  Cells missing,
  (1,0), wrong, and (3,1) as on a PCI bus: then `reg` and `ranges` of one or two
  entries, whose integers fit 64 bits or not, in the first entry or the second.
* `/cpus`: four children: two caches with one phandle and two CPUs, or two CPUs
  of one number and more; every status, "fail" too, alone and with a fault, of a CPU
  and of `/cpus`.
* Memory: three nodes, lists of up to two pairs or ending within one; address
  and size cells (1,1), (2,1), (0,2).
* Paths: three trees in which names of children, aliases and regions coincide,
  lists of up to two aliases and two symbols, also two spellings of one name,
  paths of up to three names.

### Fairness

There are two liveness properties, `BlobTerminates` of
`Blob` and `Terminates` of `PropertyValues`.  Both assume weak fairness of the whole next-state
relation and nothing more: the parser is one sequential call, its loop asks for
the next token or group as long as there is one, and nothing else runs.  What
could go wrong is a step that consumes nothing: a group of integers without
cells, an empty string in a list, an error that does not stop the loop.  All
other properties are safety.

## 4. Proofs

The runs look at small instances; the theorems hold for every value of the
constants that satisfies the assumptions named in the modules: any keys and
values, any tree, any list of children, properties, tokens or words, of any
length.  Bounds such as `MaxTokens` or `MaxKids` are any number.  Every theorem
`Spec => []P` is proved by one inductive invariant per module, which TLC checked
on the module's run before it was proved; it has one lemma per action.

**Map** (`MapTreeProofs`).  `MapInv == MapTypeOK /\ ContentsSorted`.  The type alone
is not enough: an insertion keeps the order only because the gap it uses was found
in a sorted vector (`AddKeepsOrder`); replacing and removing keep every other
entry's place (`ReplaceKeepsOrder`, `RemoveKeepsOrder`).  Nothing is assumed of
what iterators yield.  `AlwaysDistinct` and `MapRefinement` (every step, those inside
a loop too, is a step of `AbstractMap` or a stutter) hold *under the hypothesis*
`BatchesDistinct`: no collected iterator repeats a key.  The code does not ensure
it: `from_iter` keeps repeated keys (section 6).

**Structure block** (`MapTreeProofs`).  `Inv == TypeOK /\ StacksInSync`: neither
`expect` of the `EndNode` arm can fail.  `Refinement`: each action is the action of
the counter with the same outcome, `Nop` a stutter; the mapping of `roots` needs
`StacksInSync`, since the top of the stack of children is gone after `End`.
`AlwaysNesting` needs `Nested`: the names on the stack are the unfinished nodes,
one per depth (`Depths`, `Spine`, `OnlyThoseUnfinished`), and what is kept for
each, and for each finished node, is what the tokens read so far put into it
(`ChildrenListed`, `PropertiesRecorded`, `FinishedRecorded`).  `VerdictAlwaysExact`
needs `Judged`: the tokens up to the last one, or up to the one before it, keep
every rule, according to the result.

**Device nodes** (`DeviceNodesProofs`).  `Inv` adds to `TypeOK` and
`PHandlesFaithful` that a node is begun after its parent (`FramesOrdered`: no two running calls are
of one node, so a handle written after the children cannot be another's), that a
running call got past the checks of its properties (`FramesPassed`), and that
every node below is of the caller under way (`CallUnderWay`).  For the verdict,
`VerdictInv` adds that the cells a call works with are those its bus gives it
(`FrameCells`, `GivenCells`).  Its lists may hold integers of any number of cells:
that no word beyond 64 bits is other than zero is brought from the remainders of
the code's loop to places in the list (`NarrowByPlace`, `WholeLists`), where the
property states it.

**CPUs and caches** (`CpuNodesProofs`).  `Inv` says which children are in which map
in each phase (`Contents`), that links end at caches of the phandle named
(`Links`), which first-level caches were made (`Firsts`), and that a child is
`Accepted` exactly when it is sound (`Verdict`).  One invariant gives all five
properties, the boot CPU included.

**Root** (`RootNodeProofs`).  `Inv`: every child is in exactly one place (`Places`),
what is `aside` is there by its name and until its turn (`AsideByName`), what is
still left when its conversion is over has a twin that went there
(`LeftExplained`), and the conversions made come before those still to be made
(`Before`).  For `FirstFaultAlwaysReported`, `FaultInv` adds that as long as
parsing goes on everything converted was sound (`SoFar`).

**Paths** (`PathLookupProofs`).  The recursion of `find` is shown to exist value by
value and to stop where the longest part of the path that is in the tree ends
(a least counterexample, `LeastNatural`): so a lookup is the membership of one
path in the tree, however deep (`FindStrFollows`).  `Inv` adds `Gathered`: the
new entries are those read, each resolved through the aliases in force before
its list was read, never through each other, and two entries of one name come
from two of the list (`AreOf`).  Nothing is assumed of the names in a list: an
entry that a search did not find can only come to light if its name has two
spellings (`HiddenIs`).

**Memory** (`MemoryNodesProofs`).  The arithmetic first: at most two words are the
digits of their number (`NumberComesBack`, `DigitsComeBack`), a list of whole
pairs written back is the list (`PairsComeBack`), sorting pairs by start only
rearranges them (`SortedPairs`), and the tests of a node all succeed exactly when
it is sound (`ReservedChecksHold`, `MemoryChecksHold`).  `Inv` then is `TypeOK`, the
two properties, and what has been read in each phase (`Stage`).

**Bytes of a blob** (`BytesProofs`).  What each method of a slice takes and leaves,
word for word (`CStrTaken`, `BytesTaken`, `WordRead`), whatever the padding.  For
the header, `BlobTypeOK` and `HeaderVerdictIsExact` are inductive together: the
sums of offsets and sizes are compared with the length of the blob, the division
by four once and for all (`HeaderVerdict`).  For the tokens, `StreamInv`: the tokens
written back are what is gone of the block, also when the iterator has stopped
(`StoppedAt`), and each property has the name at its offset (`NamesFrom`).  The
flattening of the words of the tokens is shown to exist value by value
(`FlatteningExists`), so that one more token adds its own words (`EncodeAllAppend`).

**Names** (`BytesProofs`).  `NamesExact`: a node's name stands for its text, however
long the address.  That takes arithmetic: the number read from digits in base 16
lies between two powers (`ReadingBounds`), so a number without leading zeros has
one text only (`OneByOne`, `HexOfReading`, `NumberIsPrinted`).  From there a printed
name splits at its "@" again (`PartsOfJoined`), so that printing and reading gives
the name back (`NameIsItsText`), and only what is no name is refused
(`NameIsJudged`).

**Values of properties** (`BytesProofs`).  Each kind of reader has its invariant,
and `ValuesInv` is their disjunction.  `ReaderInv`, of the two loops over groups of
cells: what is left is the value without the words read so far, which are not more than
there are (also where the last word has padding), a group is begun only if a word
is left for it, and its integers are from their places (`Positioned`).  `NumberInv`
and `TextInv`: a conversion in one step has the one answer its type allows.
`ModelsInv`, of a list of strings: what is left are the last bytes of the value,
from the beginning of a string, and the models read, written back, are the bytes
before but for empty strings (`Reached`).  The recursive functions on the way
(`CellsOf`, `WithoutEmpty`, the flattening of what was written) are shown to exist
value by value, as above (`RecursionExists`).

**Coming to an end** (`BytesProofs`).  Termination itself needs fairness, but what
it rests on is safety, and proved: no step of the token loop leaves the block as
long as it was unless it is the last (`TokensAreNotEmpty`); a step of a conversion
reads one more integer or leaves fewer bytes (`ConversionsProgress`); and at most one
group more is read than the value has words (`IntegersAlwaysBounded`), even if
only one integer of a group has cells.

Assumptions on constants say what a value is, or that a marker such as `None` is
not also a name, a number or a string (`AnswerAssumption`).  `DocsAssumption` says
that the nodes of a tree hang together.  `KeywordsAssumption` says that no other
status begins with "fail", which holds of the four in `property.rs:147-151`:
without it the order of the code's tests would decide which one is read.  One assumption narrows what the
theorems speak of: `RootCellsAssumption` of `MemoryNodes` leaves out roots whose
addresses or sizes are wider than two cells, which no `u64` holds; what reading
such integers does is in `CellReader` and in `ValueVerdictsExact`.

So every invariant and every refinement that a passing run checks is a theorem.
Two things are not:

* `BlobTerminates` and `Terminates`, the liveness properties, stay with TLC: the
  prover has no rule for fairness.  What is left of them is that a call which can
  go on does.
* The three properties of the runs that expect a violation are false.

## 5. Findings

* `device_root_space` (`node/root.rs:323`): the root's `#address-cells` and
  `#size-cells` are removed when they are read; `into_components` looks for them
  again and finds the defaults 2 and 1 for the root's children.
* `device_errors` (`node/device.rs:156`): errors of grandchildren are unwrapped.
* `memory_ranges` (`node/memory_region.rs:95`): the unit address is compared with
  every range.

## 6. Seen, without a run

* `map.rs:129`: collecting keeps repeated keys, so `remove` (`map.rs:54`) can leave
  its key in the map.  Of two children of the root with one name, two `/cpus` for
  instance, one is what it says and the other becomes a device; so does a
  `cpus@0`.
* `parse.rs:92-100`: of an integer of three or more cells the first two are kept,
  and the later, less significant ones must be zero and there, or the reader
  panics; `parse.rs:84-86` says that it fails silently.  `reg` and `ranges` of the
  devices on a bus with `#address-cells = 3`, such as PCI, get there.
* `dtb.rs:227`: the blocks may reach up to seven bytes beyond the total size, which
  itself may be as small as 33, less than a header.  `dtb.rs:288`: the sum of two
  word indices cannot overflow.
* `node/root.rs:131`: `NodeError::Compatible` is never returned; `compatible` that is
  missing or malformed is reported as `Model`.
* `parse.rs:282`: bytes after the first zero of a single string are ignored.
* `memory_reservation.rs`: nothing calls it, and nothing compares the reservations.
* `parse.rs:157`: property padding that is not zero panics.
* `dtb.rs:351`: tokens after `End` are read and mostly accepted (line 39 says there
  are none); `dtb.rs:339`: a property after a child is accepted (line 25).
* `node/root.rs:229`: an alias of a CPU, a cache, a memory node or a reserved region
  panics, though these are nodes of the tree; `node/root.rs:275` is unimplemented.
* `node/mod.rs:215`: `find_str` unwraps names, so a console path with options
  (`serial0:115200`) panics; `/` leads nowhere.
* `node/chosen.rs:61-63`: errors of `stdin-path` are reported as those of stdout.
* Children of CPUs are dropped; caches are found directly below `/cpus` only
  (against `cache.rs:121`); everything whose name begins with "cpu" is taken for
  a CPU; a blob without memory nodes is accepted (against `root.rs:39`).
* `node_name.rs:222` says 1 to 31 characters, an empty name is accepted;
  `a@1`, `a@01` and `a@+1` are one name.
* `node/root.rs:239`: two spellings of one alias are both kept, and which of them is
  meant is arbitrary; a symbol of that name replaces one, and the other may still
  be found.
* `node/cpu.rs:37` says that a CPU whose status is "fail" "does not affect the system
  in any way": it is converted and kept like any other, and if it is wrong the
  whole blob is refused.  `node/cpu.rs:45` says that `enable_method` is required "if
  `status` is `Fail`": the code wants one for "disabled" only (`node/cpu.rs:128`), as
  `property.rs:169` says.
* `property.rs:170` speaks of "one or more strings": an enable method is one string,
  what follows it is ignored, and a list of models (`property.rs:58`) may be empty.

## 7. Plan

What is left is to compose `Blob` with `StructBlock`, so that the tree is compared
with the bytes; today `RoundTrip` and `TreeIsNesting` meet at the tokens.
