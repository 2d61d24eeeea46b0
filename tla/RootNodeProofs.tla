--------------------------- MODULE RootNodeProofs ---------------------------
(***************************************************************************)
(* Proofs about RootNode, for any properties of the root, any list of      *)
(* children in any order, with any names, repeated or not, and any ends of *)
(* their conversions.                                                      *)
(***************************************************************************)
EXTENDS RootNode, CommonLemmas, FiniteSetTheorems

-----------------------------------------------------------------------------
AsideNames == {"aliases", "symbols", "chosen"}
Phases     == ToSet(Stages) \cup {"properties", "complete"}

(* The phases by their order; `Rank` of a conversion is that of its phase. *)
Step(p) == IF p = "properties" THEN 0 ELSE IF p = "complete" THEN 8 ELSE Rank(p)

LEMMA StageSet ==
  /\ ToSet(Stages)
       = {"cpus", "reserved", "memory", "device", "aliases", "symbols", "chosen"}
  /\ DOMAIN Stages = 1..7
<1>1. DOMAIN Stages = 1..7
  BY DEF Stages
<1>2. 1..7 = {1, 2, 3, 4, 5, 6, 7}
  OBVIOUS
<1>3. /\ Stages[1] = "cpus" /\ Stages[2] = "reserved" /\ Stages[3] = "memory"
      /\ Stages[4] = "device" /\ Stages[5] = "aliases" /\ Stages[6] = "symbols"
      /\ Stages[7] = "chosen"
  BY DEF Stages
<1> QED
  BY <1>1, <1>2, <1>3 DEF ToSet

LEMMA Ranks ==
  /\ Rank("cpus") = 1 /\ Rank("reserved") = 2 /\ Rank("memory") = 3
  /\ Rank("device") = 4 /\ Rank("aliases") = 5 /\ Rank("symbols") = 6
  /\ Rank("chosen") = 7
<1>1. /\ Stages[1] = "cpus" /\ Stages[2] = "reserved" /\ Stages[3] = "memory"
      /\ Stages[4] = "device" /\ Stages[5] = "aliases" /\ Stages[6] = "symbols"
      /\ Stages[7] = "chosen"
  BY DEF Stages
<1>2. \A n \in DOMAIN Stages : n \in {1, 2, 3, 4, 5, 6, 7}
  BY StageSet
<1> QED
  BY <1>1, <1>2, StageSet DEF Rank

LEMMA Steps ==
  /\ Step("properties") = 0 /\ Step("cpus") = 1 /\ Step("reserved") = 2
  /\ Step("memory") = 3 /\ Step("device") = 4 /\ Step("aliases") = 5
  /\ Step("symbols") = 6 /\ Step("chosen") = 7 /\ Step("complete") = 8
  /\ \A s \in ToSet(Stages) : Rank(s) = Step(s)
  BY Ranks, StageSet DEF Step

LEMMA OneMoreElement ==
  ASSUME NEW S, IsFiniteSet(S), NEW x, NEW T, T = S \cup {x}
  PROVE  /\ IsFiniteSet(T) /\ Cardinality(T) <= Cardinality(S) + 1
         /\ Cardinality(S) \in Nat /\ Cardinality(T) \in Nat
<1>1. IsFiniteSet(T) /\ (Cardinality(T) = Cardinality(S) \/ Cardinality(T) = Cardinality(S) + 1)
  BY FS_AddElement, Zenon
<1>2. Cardinality(S) \in Nat /\ Cardinality(T) \in Nat
  BY <1>1, FS_CardinalityType
<1> QED
  BY <1>1, <1>2

(* The six names are different.                                            *)
LEMMA FiveAtMost ==
  ASSUME NEW a, NEW b, NEW c, NEW d, NEW e
  PROVE  Cardinality({a, b, c, d, e}) <= 5
<1> DEFINE S1 == {a}
           S2 == {a, b}
           S3 == {a, b, c}
           S4 == {a, b, c, d}
           S5 == {a, b, c, d, e}
<1>1. IsFiniteSet(S1) /\ Cardinality(S1) <= 1
  BY FS_Singleton
<1>2. S2 = S1 \cup {b}
  OBVIOUS
<1>3. S3 = S2 \cup {c}
  OBVIOUS
<1>4. S4 = S3 \cup {d}
  OBVIOUS
<1>5. S5 = S4 \cup {e}
  OBVIOUS
<1> HIDE DEF S1, S2, S3, S4, S5
<1>6. IsFiniteSet(S2) /\ Cardinality(S2) <= Cardinality(S1) + 1 /\ Cardinality(S1) \in Nat
  BY <1>1, <1>2, OneMoreElement, Zenon
<1>7. IsFiniteSet(S3) /\ Cardinality(S3) <= Cardinality(S2) + 1 /\ Cardinality(S2) \in Nat
  BY <1>3, <1>6, OneMoreElement, Zenon
<1>8. IsFiniteSet(S4) /\ Cardinality(S4) <= Cardinality(S3) + 1 /\ Cardinality(S3) \in Nat
  BY <1>4, <1>7, OneMoreElement, Zenon
<1>9. /\ Cardinality(S5) <= Cardinality(S4) + 1
      /\ Cardinality(S4) \in Nat /\ Cardinality(S5) \in Nat
  BY <1>5, <1>8, OneMoreElement, Zenon
<1>10. Cardinality(S5) <= 5
  BY <1>1, <1>6, <1>7, <1>8, <1>9
<1> QED
  BY <1>10 DEF S5

Different(a, b, c, d, e, f) ==
  /\ a \notin {b, c, d, e, f} /\ b \notin {c, d, e, f} /\ c \notin {d, e, f}
  /\ d \notin {e, f} /\ e # f

LEMMA SixAreDifferent ==
  ASSUME NEW a, NEW b, NEW c, NEW d, NEW e, NEW f,
         Cardinality({a, b, c, d, e, f}) = 6
  PROVE  Different(a, b, c, d, e, f)
<1>1. \A u, v, w, x, y : {a, b, c, d, e, f} # {u, v, w, x, y}
  <2> DEFINE S == {a, b, c, d, e, f}
  <2> SUFFICES ASSUME NEW u, NEW v, NEW w, NEW x, NEW y, S = {u, v, w, x, y}
               PROVE  FALSE
    OBVIOUS
  <2>1. Cardinality(S) = 6
    OBVIOUS
  <2>2. Cardinality({u, v, w, x, y}) <= 5
    BY FiveAtMost
  <2> HIDE DEF S
  <2> QED
    BY <2>1, <2>2
<1>2. a \notin {b, c, d, e, f}
  <2>1. {a, b, c, d, e, f} # {b, c, d, e, f}
    BY <1>1
  <2> QED
    BY <2>1
<1>3. b \notin {c, d, e, f}
  <2>1. {a, b, c, d, e, f} # {a, c, d, e, f}
    BY <1>1
  <2> QED
    BY <2>1
<1>4. c \notin {d, e, f}
  <2>1. {a, b, c, d, e, f} # {a, b, d, e, f}
    BY <1>1
  <2> QED
    BY <2>1
<1>5. d \notin {e, f}
  <2>1. {a, b, c, d, e, f} # {a, b, c, e, f}
    BY <1>1
  <2> QED
    BY <2>1
<1>6. e # f
  <2>1. {a, b, c, d, e, f} # {a, b, c, d, f}
    BY <1>1
  <2> QED
    BY <2>1
<1> QED
  BY <1>2, <1>3, <1>4, <1>5, <1>6 DEF Different

LEMMA NamesDiffer == Different(Aliases, Symbols, Chosen, Cpus, Memory, ReservedMemory)
  BY SixAreDifferent, RootAssumption
-----------------------------------------------------------------------------
(* A key says the name and the unit address.                               *)
LEMMA KeysAreOrdered ==
  ASSUME NEW a \in Nat, NEW b \in Nat, a < b,
         NEW u \in 0..MaxUnit, NEW w \in 0..MaxUnit
  PROVE  KeyOf(a, u) < KeyOf(b, w)
<1> DEFINE m == MaxUnit + 1
           d == b - a - 1
<1>1. m \in Nat /\ d \in Nat /\ u < m /\ w \in Nat /\ u \in Nat /\ b = a + 1 + d
  BY RootAssumption
<1> HIDE DEF m, d
<1>2. b * m = a * m + m + d * m /\ d * m \in Nat /\ a * m \in Nat
  BY <1>1
<1>3. a * m + u < b * m + w
  BY <1>1, <1>2
<1> QED
  BY <1>3 DEF KeyOf, m

LEMMA KeysAreFaithful ==
  ASSUME NEW a \in Nat, NEW b \in Nat, NEW u \in 0..MaxUnit, NEW w \in 0..MaxUnit
  PROVE  /\ KeyOf(a, u) \in Nat
         /\ KeyOf(a, u) = KeyOf(b, w) => a = b /\ u = w
<1>1. KeyOf(a, u) \in Nat
  BY RootAssumption DEF KeyOf
<1>2. KeyOf(b, w) \in Nat
  BY RootAssumption DEF KeyOf
<1>3. ASSUME KeyOf(a, u) = KeyOf(b, w) PROVE a = b /\ u = w
  <2>1. ~ (a < b) /\ ~ (b < a)
    BY <1>1, <1>2, <1>3, KeysAreOrdered
  <2>2. a = b
    BY <2>1
  <2>3. a * (MaxUnit + 1) \in Nat
    BY RootAssumption
  <2> QED
    BY <1>3, <2>2, <2>3 DEF KeyOf
<1> QED
  BY <1>1, <1>3

KidsTyped ==
  /\ kids \in Seq(Kid)
  /\ \A k \in 1..Len(kids) :
       "error" \notin {kids[k].ends["aliases"], kids[k].ends["symbols"]}

LEMMA KidFacts ==
  ASSUME KidsTyped, NEW k \in 1..Len(kids)
  PROVE  /\ kids[k].name \in Nat /\ kids[k].unit \in 0..MaxUnit
         /\ \A s \in ToSet(Stages) : kids[k].ends[s] \in {"done", "error", "panic"}
         /\ KeyOfKid(k) \in Nat
         /\ \A name \in Nat : KeyOfKid(k) = KeyOf(name, 0)
                                <=> kids[k].name = name /\ kids[k].unit = 0
<1>1. kids[k] \in Kid
  BY ElementOfSeq DEF KidsTyped
<1>2. /\ kids[k].name \in Nat /\ kids[k].unit \in 0..MaxUnit
      /\ kids[k].ends \in [ToSet(Stages) -> {"done", "error", "panic"}]
  BY <1>1 DEF Kid
<1>3. 0 \in 0..MaxUnit
  BY RootAssumption
<1> QED
  BY <1>2, <1>3, KeysAreFaithful DEF KeyOfKid

(* What it means for a child to be named for a conversion.                 *)
LEMMA StageMeans ==
  ASSUME KidsTyped, NEW k \in 1..Len(kids)
  PROVE  /\ StageOf(k) \in ToSet(Stages)
         /\ StageOf(k) = "memory" <=> kids[k].name = Memory
         /\ StageOf(k) = "cpus" <=> KeyOfKid(k) = KeyOf(Cpus, 0)
         /\ StageOf(k) = "reserved" <=> KeyOfKid(k) = KeyOf(ReservedMemory, 0)
         /\ StageOf(k) = "aliases" <=> KeyOfKid(k) = KeyOf(Aliases, 0)
         /\ StageOf(k) = "symbols" <=> Rpi /\ KeyOfKid(k) = KeyOf(Symbols, 0)
         /\ StageOf(k) = "chosen" <=> KeyOfKid(k) = KeyOf(Chosen, 0)
<1> DEFINE name == kids[k].name
           unit == kids[k].unit
<1>1. \A n \in {Aliases, Symbols, Chosen, Cpus, Memory, ReservedMemory} :
        KeyOfKid(k) = KeyOf(n, 0) <=> name = n /\ unit = 0
  BY KidFacts, RootAssumption
<1>2. StageOf(k)
        = IF name = Memory THEN "memory"
          ELSE IF unit # 0 THEN "device"
          ELSE CASE name = Cpus           -> "cpus"
                 [] name = ReservedMemory -> "reserved"
                 [] name = Aliases        -> "aliases"
                 [] name = Chosen         -> "chosen"
                 [] name = Symbols        -> IF Rpi THEN "symbols" ELSE "device"
                 [] OTHER                 -> "device"
  BY DEF StageOf
<1> HIDE DEF name, unit
<1>3. CASE name = Memory
  <2>1. StageOf(k) = "memory"
    BY <1>2, <1>3
  <2>2. \A n \in {Aliases, Symbols, Chosen, Cpus, ReservedMemory} :
          KeyOfKid(k) # KeyOf(n, 0)
    BY <1>1, <1>3, NamesDiffer DEF Different
  <2> QED
    BY <1>3, <2>1, <2>2, StageSet DEF name
<1>4. CASE name # Memory /\ unit # 0
  <2>1. StageOf(k) = "device"
    BY <1>2, <1>4
  <2>2. \A n \in {Aliases, Symbols, Chosen, Cpus, Memory, ReservedMemory} :
          KeyOfKid(k) # KeyOf(n, 0)
    BY <1>1, <1>4
  <2> QED
    BY <1>4, <2>1, <2>2, StageSet DEF name
<1>5. CASE name # Memory /\ unit = 0
  <2> DEFINE stage == CASE name = Cpus           -> "cpus"
                        [] name = ReservedMemory -> "reserved"
                        [] name = Aliases        -> "aliases"
                        [] name = Chosen         -> "chosen"
                        [] name = Symbols        -> IF Rpi THEN "symbols" ELSE "device"
                        [] OTHER                 -> "device"
  <2>1. /\ stage = "cpus" <=> name = Cpus
        /\ stage = "reserved" <=> name = ReservedMemory
        /\ stage = "aliases" <=> name = Aliases
        /\ stage = "chosen" <=> name = Chosen
        /\ stage = "symbols" <=> Rpi /\ name = Symbols
        /\ stage \in ToSet(Stages) /\ stage # "memory"
    <3>1. CASE name = Cpus
      BY <3>1, NamesDiffer, StageSet DEF Different
    <3>2. CASE name = ReservedMemory
      BY <3>2, NamesDiffer, StageSet DEF Different
    <3>3. CASE name = Aliases
      BY <3>3, NamesDiffer, StageSet DEF Different
    <3>4. CASE name = Chosen
      BY <3>4, NamesDiffer, StageSet DEF Different
    <3>5. CASE name = Symbols
      BY <3>5, NamesDiffer, StageSet, RootAssumption DEF Different
    <3>6. CASE name \notin {Cpus, ReservedMemory, Aliases, Chosen, Symbols}
      BY <3>6, StageSet
    <3> QED
      BY <3>1, <3>2, <3>3, <3>4, <3>5, <3>6
  <2>2. StageOf(k) = stage
    BY <1>2, <1>5
  <2> HIDE DEF stage
  <2> QED
    BY <1>1, <1>5, <2>1, <2>2 DEF name
<1> QED
  BY <1>3, <1>4, <1>5
-----------------------------------------------------------------------------
(* A map of children: sorted, each child once and under its own key.       *)
ItemOf(n)   == [key : Nat, val : 1..n]
KidsOf(map) == {map[j].val : j \in 1..Len(map)}

Kept(map) ==
  /\ map \in Seq(ItemOf(Len(kids))) /\ IsSortedByKey(map)
  /\ \A j \in 1..Len(map) : map[j].key = KeyOfKid(map[j].val)
  /\ \A i, j \in 1..Len(map) : map[i].val = map[j].val => i = j

LEMMA KeptFacts ==
  ASSUME NEW map, Kept(map)
  PROVE  /\ Len(map) \in Nat
         /\ KidsOf(map) \subseteq 1..Len(kids)
         /\ \A j \in 1..Len(map) : map[j] \in ItemOf(Len(kids)) /\ map[j].val \in KidsOf(map)
<1>1. map \in Seq(ItemOf(Len(kids))) /\ Len(map) \in Nat
  BY LenProperties DEF Kept
<1>2. \A j \in 1..Len(map) : map[j] \in ItemOf(Len(kids))
  BY <1>1, ElementOfSeq
<1> QED
  BY <1>1, <1>2 DEF KidsOf, ItemOf

(* A child removed by its position is gone, and nothing else is.           *)
LEMMA WithoutProperties ==
  ASSUME NEW map, Kept(map), NEW i \in 1..Len(map)
  PROVE  /\ Kept(Without(map, i))
         /\ map[i].val \in KidsOf(map)
         /\ KidsOf(Without(map, i)) = KidsOf(map) \ {map[i].val}
<1> DEFINE rest == Without(map, i)
           Place(j) == IF j < i THEN j ELSE j + 1
<1>1. map \in Seq(ItemOf(Len(kids))) /\ Len(map) \in Nat
  BY LenProperties DEF Kept
<1>2. /\ rest \in Seq(ItemOf(Len(kids))) /\ Len(rest) = Len(map) - 1
      /\ \A j \in 1..Len(map) - 1 : rest[j] = IF j < i THEN map[j] ELSE map[j + 1]
  BY <1>1, RemoveAtProperties DEF Without
<1> HIDE DEF rest
<1>3. \A j \in 1..Len(rest) : /\ Place(j) \in 1..Len(map) /\ Place(j) # i
                              /\ rest[j] = map[Place(j)]
  BY <1>1, <1>2
<1>4. \A j, k \in 1..Len(rest) : /\ j < k => Place(j) < Place(k)
                                 /\ Place(j) = Place(k) => j = k
  BY <1>1, <1>2
<1>5. \A m \in 1..Len(map) : m # i => \E j \in 1..Len(rest) : rest[j] = map[m]
  <2> SUFFICES ASSUME NEW m \in 1..Len(map), m # i
               PROVE  \E j \in 1..Len(rest) : rest[j] = map[m]
    OBVIOUS
  <2>1. CASE m < i
    BY <1>1, <1>2, <2>1
  <2>2. CASE m > i
    <3>1. m - 1 \in 1..Len(rest) /\ rest[m - 1] = map[m]
      BY <1>1, <1>2, <2>2
    <3> QED
      BY <3>1
  <2> QED
    BY <1>1, <2>1, <2>2
<1> HIDE DEF Place
<1>6. IsSortedByKey(rest)
  BY <1>3, <1>4 DEF Kept, IsSortedByKey
<1>7. Kept(rest)
  BY <1>2, <1>3, <1>4, <1>6 DEF Kept
<1>8. KidsOf(rest) = KidsOf(map) \ {map[i].val}
  <2>1. \A m \in 1..Len(map) : m # i => map[m].val # map[i].val
    BY DEF Kept
  <2>2. ASSUME NEW k \in KidsOf(rest) PROVE k \in KidsOf(map) \ {map[i].val}
    BY <1>3, <2>1 DEF KidsOf
  <2>3. ASSUME NEW k \in KidsOf(map) \ {map[i].val} PROVE k \in KidsOf(rest)
    <3>1. PICK m \in 1..Len(map) : k = map[m].val
      BY DEF KidsOf
    <3>2. m # i
      BY <3>1
    <3>3. PICK j \in 1..Len(rest) : rest[j] = map[m]
      BY <1>5, <3>2
    <3> QED
      BY <3>1, <3>3 DEF KidsOf
  <2> QED
    BY <2>2, <2>3
<1>9. map[i].val \in KidsOf(map)
  BY DEF KidsOf
<1> QED
  BY <1>7, <1>8, <1>9 DEF rest

LEMMA TailIsWithout ==
  ASSUME NEW map, Kept(map), map # <<>>
  PROVE  1 \in 1..Len(map) /\ Head(map) = map[1] /\ Tail(map) = Without(map, 1)
<1> DEFINE S == ItemOf(Len(kids))
<1>1. map \in Seq(S)
  BY DEF Kept
<1> HIDE DEF S
<1>2. Len(map) \in Nat /\ 1 \in 1..Len(map) /\ Head(map) = map[1]
  BY <1>1, EmptySeq, HeadTailProperties
<1>3. /\ Tail(map) \in Seq(S) /\ Len(Tail(map)) = Len(map) - 1
      /\ \A j \in 1..Len(map) - 1 : Tail(map)[j] = map[j + 1]
  BY <1>1, HeadTailProperties
<1>4. /\ RemoveAt(map, 1) \in Seq(S) /\ Len(RemoveAt(map, 1)) = Len(map) - 1
      /\ \A j \in 1..Len(map) - 1 : RemoveAt(map, 1)[j] = map[j + 1]
  <2>1. \A j \in 1..Len(map) - 1 : ~ (j < 1)
    BY <1>2
  <2> QED
    BY <1>1, <1>2, <2>1, RemoveAtProperties
<1> DEFINE t == Tail(map)
           r == RemoveAt(map, 1)
<1> HIDE DEF t, r
<1>5. t = r
  BY <1>3, <1>4, SeqEqual DEF t, r
<1> QED
  BY <1>2, <1>5 DEF t, r, Without

(* What `Map::remove` removes, by the name of the child.                   *)
LEMMA RemovalFacts ==
  ASSUME KidsTyped, NEW map, Kept(map), NEW name \in Nat, NEW r \in Removals(map, name)
  PROVE  /\ Kept(r.rest)
         /\ \/ /\ r.kid = 0 /\ r.rest = map
               /\ \A k \in KidsOf(map) : KeyOfKid(k) # KeyOf(name, 0)
            \/ /\ r.kid # 0 /\ r.kid \in KidsOf(map) /\ KeyOfKid(r.kid) = KeyOf(name, 0)
               /\ KidsOf(r.rest) = KidsOf(map) \ {r.kid}
<1>1. CASE Found(map, name) = {}
  <2>1. r.kid = 0 /\ r.rest = map
    BY <1>1 DEF Removals
  <2>2. \A j \in 1..Len(map) : map[j].key # KeyOf(name, 0)
    BY <1>1 DEF Found, Matches
  <2>3. \A k \in KidsOf(map) : KeyOfKid(k) # KeyOf(name, 0)
    BY <2>2 DEF KidsOf, Kept
  <2> QED
    BY <2>1, <2>3
<1>2. CASE Found(map, name) # {}
  <2>1. PICK i \in Found(map, name) : r.kid = map[i].val /\ r.rest = Without(map, i)
    BY <1>2 DEF Removals
  <2>2. i \in 1..Len(map) /\ map[i].key = KeyOf(name, 0)
    BY DEF Found, Matches
  <2>3. KeyOfKid(map[i].val) = KeyOf(name, 0)
    BY <2>2 DEF Kept
  <2>4. map[i].val \in 1..Len(kids)
    BY <2>2, KeptFacts
  <2> QED
    BY <2>1, <2>2, <2>3, <2>4, WithoutProperties
<1> QED
  BY <1>1, <1>2
-----------------------------------------------------------------------------
(* The inductive invariant.                                                *)
RouteOf(n) == [kid : 1..n, stage : ToSet(Stages)]

Shape ==
  /\ KidsTyped /\ Kept(left)
  /\ aside \in [AsideNames -> 0..Len(kids)]
  /\ routed \in Seq(RouteOf(Len(kids)))
  /\ phase \in Phases
  /\ out \in Errors \cup {"parsing", "Ok"}

LeftKids   == KidsOf(left)
RoutedKids == {routed[i].kid : i \in 1..Len(routed)}
AsideKids  == {aside[s] : s \in AsideNames} \ {0}

(* Every child is in one place.                                            *)
Places ==
  /\ \A i, j \in 1..Len(routed) : routed[i].kid = routed[j].kid => i = j
  /\ \A s, t \in AsideNames : aside[s] = aside[t] /\ aside[s] # 0 => s = t
  /\ RoutedKids \cap LeftKids = {}
  /\ RoutedKids \cap AsideKids = {}
  /\ LeftKids \cap AsideKids = {}
  /\ RoutedKids \cup LeftKids \cup AsideKids = 1..Len(kids)

(* What is set aside is what its name says, until its conversion.          *)
AsideByName ==
  \A s \in AsideNames : aside[s] # 0 =>
    StageOf(aside[s]) = s /\ 4 <= Step(phase) /\ Step(phase) <= Rank(s)

LeftEmpty == (Step(phase) > 4 => left = <<>>) /\ (out = "Ok" => phase = "complete")

(* Have the children for this conversion been looked for?                  *)
Selected(s) ==
  IF s \in {"cpus", "reserved", "memory"} THEN Rank(s) < Step(phase)
  ELSE s # "device" /\ Step(phase) >= 4

(* A child of the same name went where this one could have gone.           *)
Taken(k) ==
  \E j \in DOMAIN kids :
    /\ Twins(j, k)
    /\ \/ [kid |-> j, stage |-> StageOf(k)] \in ToSet(routed)
       \/ StageOf(k) \in DOMAIN aside /\ aside[StageOf(k)] = j

LeftExplained ==
  \A k \in LeftKids : Selected(StageOf(k)) => StageOf(k) # "memory" /\ Taken(k)

(* While parsing goes on, the conversions made are of earlier phases, or   *)
(* of children that come before those still to be converted in this one.   *)
Before ==
  out = "parsing" => \A i \in 1..Len(routed) :
    \/ Rank(routed[i].stage) < Step(phase)
    \/ /\ routed[i].stage = phase /\ phase \in {"memory", "device"}
       /\ \A k \in LeftKids : (phase = "memory" => StageOf(k) = "memory") =>
            KeyOfKid(routed[i].kid) <= KeyOfKid(k)

Inv == /\ Shape /\ Places /\ AsideByName /\ LeftEmpty /\ LeftExplained
       /\ RoutedByName /\ Before /\ OrderOfConversions

LEMMA Facts ==
  ASSUME Inv
  PROVE  /\ KidsTyped /\ Kept(left)
         /\ Len(kids) \in Nat /\ Len(left) \in Nat /\ Len(routed) \in Nat
         /\ DOMAIN kids = 1..Len(kids) /\ DOMAIN aside = AsideNames
         /\ DOMAIN left = 1..Len(left) /\ DOMAIN routed = 1..Len(routed)
         /\ \A i \in 1..Len(routed) : routed[i] \in RouteOf(Len(kids))
         /\ LeftKids \subseteq 1..Len(kids)
<1>1. KidsTyped /\ Kept(left) /\ aside \in [AsideNames -> 0..Len(kids)]
  BY DEF Inv, Shape
<1>2. kids \in Seq(Kid) /\ left \in Seq(ItemOf(Len(kids))) /\ routed \in Seq(RouteOf(Len(kids)))
  BY DEF Inv, Shape, KidsTyped, Kept
<1>3. /\ Len(kids) \in Nat /\ Len(left) \in Nat /\ Len(routed) \in Nat
      /\ DOMAIN kids = 1..Len(kids) /\ DOMAIN left = 1..Len(left)
      /\ DOMAIN routed = 1..Len(routed)
  BY <1>2, LenProperties
<1>4. \A i \in 1..Len(routed) : routed[i] \in RouteOf(Len(kids))
  BY <1>2, ElementOfSeq
<1>5. LeftKids \subseteq 1..Len(kids)
  BY <1>1, KeptFacts DEF LeftKids
<1> QED
  BY <1>1, <1>3, <1>4, <1>5

(* A child that went to this conversion went where its name says, or among *)
(* the devices after one of the same name.                                 *)
WellRouted(k, s) ==
  \/ s = StageOf(k)
  \/ s = "device" /\ StageOf(k) # "memory" /\ Taken(k)

AllWellRouted ==
  \A k, s : (\E i \in DOMAIN routed : routed[i].kid = k /\ routed[i].stage = s)
              => WellRouted(k, s)

LEMMA RoutedByNameIs == RoutedByName <=> AllWellRouted
<1>1. RoutedByName <=> \A i \in DOMAIN routed : WellRouted(routed[i].kid, routed[i].stage)
  BY DEF RoutedByName, WellRouted, Taken
<1> QED
  BY <1>1 DEF AllWellRouted

LEMMA KidsStay ==
  ASSUME kids' = kids
  PROVE  /\ KidsTyped' = KidsTyped
         /\ \A k : KeyOfKid(k)' = KeyOfKid(k) /\ StageOf(k)' = StageOf(k)
         /\ \A j, k : Twins(j, k)' = Twins(j, k)
         /\ \A map : KidsOf(map)' = KidsOf(map)
  BY DEF KidsTyped, KeyOfKid, StageOf, Twins, KidsOf

(* The conversion of a child, and its outcome.                             *)
LEMMA ConvertOutcome ==
  ASSUME KidsTyped, NEW k \in 1..Len(kids), NEW s \in ToSet(Stages), NEW next,
         Convert(k, s, next)
  PROVE  /\ routed' = Append(routed, [kid |-> k, stage |-> s])
         /\ \/ kids[k].ends[s] = "done" /\ phase' = next /\ out' = out
            \/ /\ kids[k].ends[s] # "done" /\ phase' = phase /\ out' \in Errors
               /\ out' = IF kids[k].ends[s] = "panic" THEN "panic" ELSE ErrorOf(s)
<1>1. /\ routed' = Append(routed, [kid |-> k, stage |-> s])
      /\ CASE kids[k].ends[s] = "done"  -> phase' = next /\ out' = out
           [] kids[k].ends[s] = "error" -> out' = ErrorOf(s) /\ phase' = phase
           [] kids[k].ends[s] = "panic" -> out' = "panic" /\ phase' = phase
  BY DEF Convert, GoTo
<1>2. kids[k].ends[s] \in {"done", "error", "panic"}
  BY KidFacts
<1>3. CASE kids[k].ends[s] = "done"
  BY <1>1, <1>3
<1>4. CASE kids[k].ends[s] = "panic"
  BY <1>1, <1>4 DEF Errors
<1>5. CASE kids[k].ends[s] = "error"
  <2>1. s \in {"cpus", "reserved", "memory", "device", "chosen"}
    BY <1>5, StageSet DEF KidsTyped
  <2>2. ErrorOf(s) \in Errors
    BY <2>1 DEF ErrorOf, Errors
  <2> QED
    BY <1>1, <1>5, <2>2
<1> QED
  BY <1>2, <1>3, <1>4, <1>5

LEMMA RoutedStep ==
  ASSUME Inv, NEW k \in 1..Len(kids), k \notin RoutedKids, NEW s \in ToSet(Stages),
         routed' = Append(routed, [kid |-> k, stage |-> s])
  PROVE  /\ routed' \in Seq(RouteOf(Len(kids)))
         /\ Len(routed') = Len(routed) + 1
         /\ \A i \in 1..Len(routed) : routed'[i] = routed[i]
         /\ routed'[Len(routed) + 1] = [kid |-> k, stage |-> s]
         /\ \A i, j \in 1..Len(routed') : routed'[i].kid = routed'[j].kid => i = j
         /\ RoutedKids' = RoutedKids \cup {k}
         /\ ToSet(routed') = ToSet(routed) \cup {[kid |-> k, stage |-> s]}
<1> DEFINE r == [kid |-> k, stage |-> s]
           S == RouteOf(Len(kids))
<1>1. r \in S /\ routed \in Seq(S)
  BY DEF RouteOf, Inv, Shape
<1>2. r.kid = k
  OBVIOUS
<1>3. routed' = Append(routed, r)
  OBVIOUS
<1> HIDE DEF r, S
<1>4. /\ routed' \in Seq(S) /\ Len(routed') = Len(routed) + 1 /\ Len(routed) \in Nat
      /\ \A i \in 1..Len(routed) : routed'[i] = routed[i]
      /\ routed'[Len(routed) + 1] = r
  BY <1>1, <1>3, AppendProperties
<1>5. ToSet(routed') = ToSet(routed) \cup {r}
  BY <1>1, <1>3, ToSetAppend
<1>6. 1..Len(routed') = (1..Len(routed)) \cup {Len(routed) + 1}
  BY <1>4
<1>7. RoutedKids' = RoutedKids \cup {k}
  BY <1>2, <1>4, <1>6 DEF RoutedKids
<1>8. ASSUME NEW i \in 1..Len(routed'), NEW j \in 1..Len(routed'),
             routed'[i].kid = routed'[j].kid
      PROVE  i = j
  <2>1. \A m \in 1..Len(routed) : routed'[m].kid # k
    BY <1>4 DEF RoutedKids
  <2>2. CASE i \in 1..Len(routed) /\ j \in 1..Len(routed)
    BY <1>4, <1>8, <2>2 DEF Inv, Places
  <2> QED
    BY <1>2, <1>4, <1>6, <1>8, <2>1, <2>2
<1> QED
  BY <1>4, <1>5, <1>7, <1>8 DEF r, S
-----------------------------------------------------------------------------
(* A child that is left is converted: of those it could have been, where   *)
(* the order matters, the first.                                           *)
Follows(s, next) ==
  /\ s \in {"cpus", "reserved", "memory", "device"}
  /\ s \in {"memory", "device"} => next = s
  /\ s = "cpus" => next = "reserved"
  /\ s = "reserved" => next = "memory"

Took(k, s, next) ==
  /\ out = "parsing" /\ phase = s /\ Follows(s, next)
  /\ k \in LeftKids /\ KidsOf(left') = LeftKids \ {k} /\ Kept(left')
  /\ UNCHANGED <<props, kids, aside>>
  /\ Convert(k, s, next)
  /\ s # "device" => StageOf(k) = s
  /\ s \in {"memory", "device"} =>
       \A other \in LeftKids : (s = "memory" => StageOf(other) = "memory") =>
         KeyOfKid(k) <= KeyOfKid(other)

LEMMA TookInv ==
  ASSUME Inv, NEW k, NEW s, NEW next, Took(k, s, next)
  PROVE  Inv'
<1> DEFINE r == [kid |-> k, stage |-> s]
           n == Len(routed)
<1>1. /\ out = "parsing" /\ phase = s /\ Follows(s, next)
      /\ k \in LeftKids /\ KidsOf(left') = LeftKids \ {k} /\ Kept(left')
      /\ props' = props /\ kids' = kids /\ aside' = aside
      /\ s # "device" => StageOf(k) = s
      /\ s \in {"memory", "device"} =>
           \A other \in LeftKids : (s = "memory" => StageOf(other) = "memory") =>
             KeyOfKid(k) <= KeyOfKid(other)
  BY DEF Took
<1>2. /\ k \in 1..Len(kids) /\ k \notin RoutedKids /\ k \notin AsideKids
      /\ s \in ToSet(Stages) /\ n \in Nat
  BY <1>1, Facts, StageSet DEF Inv, Places, Follows
<1>3. /\ routed' = Append(routed, r)
      /\ \/ phase' = next /\ out' = "parsing"
         \/ phase' = phase /\ out' \in Errors
  BY <1>1, <1>2, Facts, ConvertOutcome DEF Took
<1>4. /\ routed' \in Seq(RouteOf(Len(kids))) /\ Len(routed') = n + 1
      /\ \A i \in 1..n : routed'[i] = routed[i]
      /\ routed'[n + 1] = r
      /\ \A i, j \in 1..Len(routed') : routed'[i].kid = routed'[j].kid => i = j
      /\ RoutedKids' = RoutedKids \cup {k}
      /\ ToSet(routed') = ToSet(routed) \cup {r}
  BY <1>2, <1>3, RoutedStep
<1>5. r.kid = k /\ r.stage = s
  OBVIOUS
<1> HIDE DEF r
<1>6. LeftKids' = LeftKids \ {k} /\ AsideKids' = AsideKids
  BY <1>1 DEF LeftKids, KidsOf, AsideKids
<1>7. /\ Step(phase) \in 1..4 /\ Rank(s) = Step(phase) /\ next \in Phases
      /\ Step(next) = IF next = s THEN Step(phase) ELSE Step(phase) + 1
      /\ s \in {"memory", "device"} <=> next = s
      /\ Step(phase') \in {Step(phase), Step(next)} /\ Step(phase) <= Step(phase')
      /\ phase' \in Phases /\ Step(phase') <= 4
  BY <1>1, <1>3, Steps, StageSet DEF Follows, Phases
<1>8. Shape'
  <2>1. Kept(left)'
    BY <1>1 DEF Kept, KeyOfKid
  <2> QED
    BY <1>1, <1>3, <1>4, <1>7, <2>1, KidsStay DEF Inv, Shape
<1>9. Places'
  BY <1>1, <1>2, <1>4, <1>6 DEF Inv, Places
<1>10. AsideByName'
  <2>1. ASSUME NEW t \in AsideNames, aside[t] # 0
        PROVE  Step(phase) = 4 /\ next = s
    BY <1>1, <1>7, <2>1, Steps DEF Inv, AsideByName, Follows
  <2> QED
    BY <1>1, <1>3, <1>7, <2>1, KidsStay DEF Inv, AsideByName
<1>11. LeftEmpty'
  BY <1>3, <1>7 DEF LeftEmpty, Errors
<1>12. \A other : Taken(other) => Taken(other)'
  BY <1>1, <1>4, KidsStay DEF Taken
<1>13. LeftExplained'
  <2> SUFFICES ASSUME NEW other \in LeftKids', Selected(StageOf(other))'
               PROVE  StageOf(other) # "memory" /\ Taken(other)'
    BY <1>1, KidsStay DEF LeftExplained
  <2> DEFINE t == StageOf(other)
  <2>1. other \in LeftKids /\ other # k /\ other \in 1..Len(kids) /\ t \in ToSet(Stages)
    BY <1>6, Facts, StageMeans
  <2>2. CASE Selected(t)
    BY <1>12, <2>1, <2>2 DEF Inv, LeftExplained
  <2>3. CASE ~ Selected(t)
    <3>1. t = s /\ s \in {"cpus", "reserved"} /\ StageOf(k) = s
      <4>1. IF t \in {"cpus", "reserved", "memory"} THEN Rank(t) < Step(phase')
            ELSE t # "device" /\ Step(phase') >= 4
        BY <1>1, KidsStay DEF Selected
      <4>2. IF t \in {"cpus", "reserved", "memory"} THEN ~ (Rank(t) < Step(phase))
            ELSE t = "device" \/ ~ (Step(phase) >= 4)
        BY <2>3 DEF Selected
      <4>3. Step(phase) \in 1..3 /\ next # s
        BY <1>7, <4>1, <4>2, Steps, StageSet
      <4>4. s \in {"cpus", "reserved"}
        BY <1>1, <1>7, <4>3 DEF Follows
      <4> QED
        BY <1>1, <1>7, <2>1, <4>1, <4>2, <4>4, Steps, StageSet
    <3>2. KeyOfKid(other) = KeyOfKid(k)
      BY <1>2, <2>1, <3>1, Facts, StageMeans
    <3>3. Twins(k, other)' /\ StageOf(other)' = s
      BY <1>1, <2>1, <3>1, <3>2, KidsStay DEF Twins
    <3>4. [kid |-> k, stage |-> s] \in ToSet(routed')
      BY <1>4 DEF r
    <3> QED
      BY <1>1, <1>2, <3>1, <3>3, <3>4, Facts DEF Taken
  <2> QED
    BY <2>2, <2>3
<1>14. RoutedByName'
  <2>1. \A m, t : \A i \in 1..n : routed[i].kid = m /\ routed[i].stage = t => WellRouted(m, t)
    BY Facts, RoutedByNameIs DEF Inv, AllWellRouted
  <2>2. \/ s = StageOf(k)
        \/ s = "device" /\ StageOf(k) # "memory" /\ Taken(k)
    <3>1. CASE s # "device"
      BY <1>1, <3>1
    <3>2. CASE s = "device" /\ StageOf(k) # "device"
      <4>1. StageOf(k) \in ToSet(Stages) /\ Step(phase) = 4
        BY <1>1, <1>2, <3>2, Facts, StageMeans, Steps
      <4>2. Selected(StageOf(k))
        BY <3>2, <4>1, Steps, StageSet DEF Selected
      <4> QED
        BY <1>1, <3>2, <4>2 DEF Inv, LeftExplained
    <3> QED
      BY <3>1, <3>2
  <2>3. \A m, t : WellRouted(m, t) => WellRouted(m, t)'
    BY <1>1, <1>12, KidsStay DEF WellRouted
  <2>4. ASSUME NEW m, NEW t, NEW i \in DOMAIN routed', routed'[i].kid = m, routed'[i].stage = t
        PROVE  WellRouted(m, t)'
    <3>1. DOMAIN routed' = (1..n) \cup {n + 1}
      BY <1>2, <1>4, LenProperties
    <3>2. CASE i \in 1..n
      BY <1>4, <2>1, <2>3, <2>4, <3>2
    <3>3. CASE i = n + 1
      <4>1. m = k /\ t = s
        BY <1>4, <1>5, <2>4, <3>3
      <4>2. WellRouted(k, s)
        BY <2>2 DEF WellRouted
      <4> QED
        BY <2>3, <4>1, <4>2
    <3> QED
      BY <3>1, <3>2, <3>3
  <2>5. AllWellRouted'
    BY <2>4 DEF AllWellRouted
  <2> QED
    BY <2>5, RoutedByNameIs, PTL
<1>15. \A i \in 1..n :
         \/ Rank(routed[i].stage) < Step(phase)
         \/ /\ routed[i].stage = phase /\ phase \in {"memory", "device"}
            /\ \A other \in LeftKids : (phase = "memory" => StageOf(other) = "memory") =>
                 KeyOfKid(routed[i].kid) <= KeyOfKid(other)
  BY <1>1 DEF Inv, Before
<1>16. Before'
  <2> SUFFICES ASSUME out' = "parsing" PROVE Before'
    BY DEF Before
  <2>1. phase' = next
    BY <1>3 DEF Errors
  <2>2. \A i \in 1..n : Rank(routed[i].stage) \in Nat
    BY Facts, Steps, StageSet DEF RouteOf
  <2>3. \A i \in 1..n + 1 :
          \/ Rank(routed'[i].stage) < Step(phase')
          \/ /\ routed'[i].stage = phase' /\ phase' \in {"memory", "device"}
             /\ \A other \in LeftKids' : (phase' = "memory" => StageOf(other) = "memory") =>
                  KeyOfKid(routed'[i].kid) <= KeyOfKid(other)
    <3>1. CASE next = s
      <4>1. ASSUME NEW i \in 1..n
            PROVE  \/ Rank(routed'[i].stage) < Step(phase')
                   \/ /\ routed'[i].stage = phase' /\ phase' \in {"memory", "device"}
                      /\ \A other \in LeftKids' :
                           (phase' = "memory" => StageOf(other) = "memory") =>
                             KeyOfKid(routed'[i].kid) <= KeyOfKid(other)
        BY <1>1, <1>4, <1>6, <1>7, <1>15, <2>1, <3>1
      <4>2. /\ routed'[n + 1].stage = phase' /\ phase' \in {"memory", "device"}
            /\ \A other \in LeftKids' : (phase' = "memory" => StageOf(other) = "memory") =>
                 KeyOfKid(routed'[n + 1].kid) <= KeyOfKid(other)
        BY <1>1, <1>4, <1>5, <1>6, <1>7, <2>1, <3>1
      <4>3. 1..n + 1 = (1..n) \cup {n + 1}
        BY <1>2
      <4> QED
        BY <4>1, <4>2, <4>3
    <3>2. CASE next # s
      BY <1>1, <1>2, <1>4, <1>5, <1>7, <1>15, <2>1, <2>2, <3>2
    <3> QED
      BY <3>1, <3>2
  <2> QED
    BY <1>1, <1>4, <2>3, KidsStay DEF Before
<1>17. OrderOfConversions'
  <2>1. \A j \in 1..n : \A i \in 1..j - 1 :
          \/ Rank(routed[i].stage) < Rank(routed[j].stage)
          \/ /\ routed[i].stage = routed[j].stage
             /\ KeyOfKid(routed[i].kid) <= KeyOfKid(routed[j].kid)
    BY Facts DEF Inv, OrderOfConversions
  <2>2. \A i \in 1..n : \/ Rank(routed[i].stage) < Rank(s)
                        \/ /\ routed[i].stage = s
                           /\ KeyOfKid(routed[i].kid) <= KeyOfKid(k)
    BY <1>1, <1>7, <1>15
  <2>3. \A j \in 1..n + 1 : \A i \in 1..j - 1 :
          \/ Rank(routed'[i].stage) < Rank(routed'[j].stage)
          \/ /\ routed'[i].stage = routed'[j].stage
             /\ KeyOfKid(routed'[i].kid) <= KeyOfKid(routed'[j].kid)
    <3> SUFFICES ASSUME NEW j \in 1..n + 1, NEW i \in 1..j - 1
                 PROVE  \/ Rank(routed'[i].stage) < Rank(routed'[j].stage)
                        \/ /\ routed'[i].stage = routed'[j].stage
                           /\ KeyOfKid(routed'[i].kid) <= KeyOfKid(routed'[j].kid)
      OBVIOUS
    <3>1. i \in 1..n /\ routed'[i] = routed[i]
      BY <1>2, <1>4
    <3>2. CASE j = n + 1
      BY <1>4, <1>5, <2>2, <3>1, <3>2
    <3>3. CASE j \in 1..n
      BY <1>4, <2>1, <3>1, <3>3
    <3> QED
      BY <1>2, <3>2, <3>3
  <2>4. DOMAIN routed' = 1..n + 1
    BY <1>4, LenProperties
  <2> QED
    BY <1>1, <2>3, <2>4, KidsStay DEF OrderOfConversions
<1> QED
  BY <1>8, <1>9, <1>10, <1>11, <1>13, <1>14, <1>16, <1>17 DEF Inv
(* Nothing is converted: parsing ends, or goes on to the next phase, when  *)
(* nothing is left to convert in this one.                                 *)
Rested ==
  /\ out = "parsing" /\ UNCHANGED <<props, kids, left, aside, routed>>
  /\ \/ phase' = phase /\ out' \in Errors
     \/ phase = "complete" /\ phase' = phase /\ out' = "Ok"
     \/ /\ phase' \in Phases /\ Step(phase') = Step(phase) + 1 /\ out' = out
        /\ phase \notin {"cpus", "memory"}
        /\ phase = "reserved" => \A k \in LeftKids : StageOf(k) # "reserved"
        /\ phase = "device" => left = <<>>
        /\ phase \in AsideNames => aside[phase] = 0

LEMMA RestedInv == ASSUME Inv, Rested PROVE Inv'
<1>1. /\ out = "parsing" /\ props' = props /\ kids' = kids /\ left' = left
      /\ aside' = aside /\ routed' = routed
      /\ phase' \in Phases /\ Step(phase) <= Step(phase') /\ Step(phase) \in 0..8
      /\ \/ phase' = phase /\ out' \in Errors
         \/ phase = "complete" /\ phase' = phase /\ out' = "Ok"
         \/ /\ Step(phase') = Step(phase) + 1 /\ out' = out
            /\ phase \notin {"cpus", "memory"}
            /\ phase = "reserved" => \A k \in LeftKids : StageOf(k) # "reserved"
            /\ phase = "device" => left = <<>>
            /\ phase \in AsideNames => aside[phase] = 0
  <2>1. phase \in Phases /\ Step(phase) \in 0..8
    BY Steps, StageSet DEF Inv, Shape, Phases
  <2> QED
    BY <2>1 DEF Rested
<1>2. /\ LeftKids' = LeftKids /\ RoutedKids' = RoutedKids /\ AsideKids' = AsideKids
      /\ Kept(left)'
  BY <1>1 DEF LeftKids, KidsOf, RoutedKids, AsideKids, Kept, KeyOfKid, Inv, Shape
<1>3. Shape'
  BY <1>1, <1>2, KidsStay DEF Inv, Shape
<1>4. Places'
  BY <1>1, <1>2 DEF Inv, Places
<1>5. AsideByName'
  <2> SUFFICES ASSUME NEW s \in AsideNames, aside[s] # 0
               PROVE  4 <= Step(phase') /\ Step(phase') <= Rank(s)
    BY <1>1, KidsStay DEF Inv, AsideByName
  <2>1. 4 <= Step(phase) /\ Step(phase) <= Rank(s) /\ Rank(s) = Step(s) /\ Rank(s) \in 5..7
    BY Steps, Ranks, StageSet DEF Inv, AsideByName, AsideNames
  <2>2. CASE Step(phase') = Step(phase)
    BY <2>1, <2>2
  <2>3. CASE Step(phase') = Step(phase) + 1
    <3>1. phase \notin AsideNames \/ aside[phase] = 0
      BY <1>1, <2>3
    <3>2. phase # s
      BY <3>1
    <3>3. Step(phase) # Step(s)
      BY <2>1, <3>2, Steps, StageSet DEF Inv, Shape, Phases, AsideNames
    <3> QED
      BY <1>1, <2>1, <2>3, <3>3
  <2> QED
    BY <1>1, <2>2, <2>3
<1>6. LeftEmpty'
  <2>1. CASE Step(phase') = Step(phase) + 1 /\ out' = "parsing"
    <3>1. Step(phase') > 4 => phase = "device" \/ Step(phase) > 4
      BY <1>1, <2>1, Steps, StageSet DEF Inv, Shape, Phases
    <3> QED
      BY <1>1, <2>1, <3>1 DEF Inv, LeftEmpty
  <2>2. CASE phase' = phase
    BY <1>1, <2>2 DEF Inv, LeftEmpty, Errors
  <2> QED
    BY <1>1, <2>1, <2>2
<1>7. \A k : Taken(k)' = Taken(k)
  BY <1>1, KidsStay DEF Taken
<1>8. LeftExplained'
  <2> SUFFICES ASSUME NEW k \in LeftKids, Selected(StageOf(k))'
               PROVE  StageOf(k) # "memory" /\ Taken(k)
    BY <1>1, <1>2, <1>7, KidsStay DEF LeftExplained
  <2>1. StageOf(k) \in ToSet(Stages)
    BY Facts, StageMeans
  <2>2. IF StageOf(k) \in {"cpus", "reserved", "memory"} THEN Rank(StageOf(k)) < Step(phase')
        ELSE StageOf(k) # "device" /\ Step(phase') >= 4
    BY <1>1, KidsStay DEF Selected
  <2>3. CASE ~ Selected(StageOf(k))
    <3>1. IF StageOf(k) \in {"cpus", "reserved", "memory"}
          THEN ~ (Rank(StageOf(k)) < Step(phase))
          ELSE StageOf(k) = "device" \/ ~ (Step(phase) >= 4)
      BY <2>3 DEF Selected
    <3>2. /\ Step(phase') = Step(phase) + 1 /\ phase \notin {"cpus", "memory"}
          /\ StageOf(k) # "reserved" \/ phase # "reserved"
      BY <1>1, <2>2, <3>1
    <3>3. phase \in Phases
      BY DEF Inv, Shape
    <3> QED
      BY <2>1, <2>2, <3>1, <3>2, <3>3, Steps, StageSet DEF Phases
  <2> QED
    BY <2>3 DEF Inv, LeftExplained
<1>9. RoutedByName'
  BY <1>1, <1>7, KidsStay DEF Inv, RoutedByName, Taken
<1>10. Before'
  <2> SUFFICES ASSUME out' = "parsing" PROVE Before'
    BY DEF Before
  <2>1. Step(phase') = Step(phase) + 1
    BY <1>1 DEF Errors
  <2>2. \A i \in 1..Len(routed) : Rank(routed[i].stage) < Step(phase')
    <3>1. \A i \in 1..Len(routed) : Rank(routed[i].stage) \in Nat
      BY Facts, Steps, StageSet DEF RouteOf
    <3> QED
      BY <1>1, <2>1, <3>1, Steps, StageSet DEF Inv, Before
  <2> QED
    BY <1>1, <2>2 DEF Before
<1>11. OrderOfConversions'
  BY <1>1, KidsStay DEF Inv, OrderOfConversions
<1> QED
  BY <1>3, <1>4, <1>5, <1>6, <1>8, <1>9, <1>10, <1>11 DEF Inv

(* A child that was set aside is converted.                                *)
Followed(s, next) ==
  /\ s \in AsideNames /\ next \in Phases /\ Step(next) = Rank(s) + 1
  /\ At(s) /\ aside[s] # 0
  /\ aside' = [aside EXCEPT ![s] = 0] /\ Convert(aside[s], s, next)
  /\ UNCHANGED <<props, kids, left>>

LEMMA FollowedInv == ASSUME Inv, NEW s, NEW next, Followed(s, next) PROVE Inv'
<1> DEFINE k == aside[s]
           r == [kid |-> k, stage |-> s]
           n == Len(routed)
<1>1. /\ s \in AsideNames /\ next \in Phases /\ Step(next) = Rank(s) + 1
      /\ out = "parsing" /\ phase = s /\ k # 0
      /\ aside' = [aside EXCEPT ![s] = 0]
      /\ props' = props /\ kids' = kids /\ left' = left
  BY DEF Followed, At
<1>2. /\ aside \in [AsideNames -> 0..Len(kids)] /\ n \in Nat
      /\ k \in 1..Len(kids) /\ k \in AsideKids /\ k \notin RoutedKids /\ k \notin LeftKids
      /\ s \in ToSet(Stages)
  <2>1. aside \in [AsideNames -> 0..Len(kids)] /\ n \in Nat
    BY Facts DEF Inv, Shape
  <2>2. k \in 1..Len(kids) /\ k \in AsideKids
    BY <1>1, <2>1, Facts DEF AsideKids
  <2> QED
    BY <1>1, <2>1, <2>2, StageSet DEF AsideNames, Inv, Places
<1>3. /\ routed' = Append(routed, r)
      /\ \/ phase' = next /\ out' = "parsing"
         \/ phase' = phase /\ out' \in Errors
  BY <1>1, <1>2, Facts, ConvertOutcome DEF Followed
<1>4. /\ routed' \in Seq(RouteOf(Len(kids))) /\ Len(routed') = n + 1
      /\ \A i \in 1..n : routed'[i] = routed[i]
      /\ routed'[n + 1] = r
      /\ \A i, j \in 1..Len(routed') : routed'[i].kid = routed'[j].kid => i = j
      /\ RoutedKids' = RoutedKids \cup {k}
      /\ ToSet(routed') = ToSet(routed) \cup {r}
  BY <1>2, <1>3, RoutedStep
<1>5. r.kid = k /\ r.stage = s /\ r = [kid |-> k, stage |-> s]
  OBVIOUS
<1> HIDE DEF r
<1>6. /\ aside' \in [AsideNames -> 0..Len(kids)] /\ aside'[s] = 0
      /\ \A t \in AsideNames : t # s => aside'[t] = aside[t]
  BY <1>1, <1>2, Facts
<1>7. AsideKids' = AsideKids \ {k} /\ LeftKids' = LeftKids
  <2>1. \A t \in AsideNames : aside[t] = k => t = s
    BY <1>1 DEF Inv, Places
  <2>2. LeftKids' = LeftKids
    BY <1>1 DEF LeftKids, KidsOf
  <2>3. ASSUME NEW x \in AsideKids' PROVE x \in AsideKids \ {k}
    BY <1>6, <2>1 DEF AsideKids
  <2>4. ASSUME NEW x \in AsideKids \ {k} PROVE x \in AsideKids'
    BY <1>6 DEF AsideKids
  <2> QED
    BY <2>2, <2>3, <2>4
<1>8. /\ Rank(s) = Step(phase) /\ Step(phase) \in 5..7
      /\ Step(phase') \in {Step(phase), Step(phase) + 1} /\ phase' \in Phases
  BY <1>1, <1>2, <1>3, Steps, StageSet DEF AsideNames, Phases
<1>9. left = <<>> /\ LeftKids = {}
  BY <1>8 DEF Inv, LeftEmpty, LeftKids, KidsOf
<1>10. Shape'
  <2>1. Kept(left)'
    BY <1>1 DEF Kept, KeyOfKid, Inv, Shape
  <2> QED
    BY <1>1, <1>3, <1>4, <1>6, <1>8, <2>1, KidsStay DEF Inv, Shape
<1>11. Places'
  <2>1. \A t, u \in AsideNames : aside'[t] = aside'[u] /\ aside'[t] # 0 => t = u
    BY <1>6 DEF Inv, Places
  <2> QED
    BY <1>1, <1>2, <1>4, <1>7, <2>1 DEF Inv, Places
<1>12. AsideByName'
  <2> SUFFICES ASSUME NEW t \in AsideNames, aside'[t] # 0
               PROVE  /\ StageOf(aside[t]) = t /\ aside'[t] = aside[t]
                      /\ 4 <= Step(phase') /\ Step(phase') <= Rank(t)
    BY <1>1, KidsStay DEF AsideByName
  <2>1. t # s /\ aside'[t] = aside[t]
    BY <1>6
  <2>2. StageOf(aside[t]) = t /\ Step(phase) <= Rank(t)
    BY <2>1 DEF Inv, AsideByName
  <2>3. Rank(t) # Rank(s) /\ Rank(t) \in 5..7
    BY <1>1, <2>1, Ranks DEF AsideNames
  <2> QED
    BY <1>8, <2>1, <2>2, <2>3
<1>13. LeftEmpty'
  BY <1>1, <1>3, <1>9 DEF LeftEmpty, Errors
<1>14. LeftExplained'
  BY <1>7, <1>9 DEF LeftExplained
<1>15. \A m, t : WellRouted(m, t) => WellRouted(m, t)'
  <2>1. \A m : Taken(m) => Taken(m)'
    <3> SUFFICES ASSUME NEW m, Taken(m) PROVE Taken(m)'
      OBVIOUS
    <3>1. PICK j \in DOMAIN kids :
            /\ Twins(j, m)
            /\ \/ [kid |-> j, stage |-> StageOf(m)] \in ToSet(routed)
               \/ StageOf(m) \in DOMAIN aside /\ aside[StageOf(m)] = j
      BY DEF Taken
    <3>2. \/ [kid |-> j, stage |-> StageOf(m)] \in ToSet(routed')
          \/ StageOf(m) \in DOMAIN aside' /\ aside'[StageOf(m)] = j
      <4>1. CASE [kid |-> j, stage |-> StageOf(m)] \in ToSet(routed)
        BY <1>4, <4>1
      <4>2. CASE StageOf(m) = s /\ aside[s] = j
        BY <1>4, <1>5, <4>2
      <4>3. CASE StageOf(m) \in DOMAIN aside /\ StageOf(m) # s /\ aside[StageOf(m)] = j
        BY <1>2, <1>6, <4>3
      <4> QED
        BY <3>1, <4>1, <4>2, <4>3
    <3> QED
      BY <1>1, <3>1, <3>2, KidsStay DEF Taken
  <2> QED
    BY <1>1, <2>1, KidsStay DEF WellRouted
<1>16. RoutedByName'
  <2>1. StageOf(k) = s
    BY <1>1 DEF Inv, AsideByName
  <2>2. ASSUME NEW m, NEW t, NEW i \in DOMAIN routed', routed'[i].kid = m, routed'[i].stage = t
        PROVE  WellRouted(m, t)'
    <3>1. DOMAIN routed' = (1..n) \cup {n + 1}
      BY <1>2, <1>4, LenProperties
    <3>2. CASE i \in 1..n
      <4>1. WellRouted(m, t)
        BY <1>4, <2>2, <3>2, Facts, RoutedByNameIs DEF Inv, AllWellRouted
      <4> QED
        BY <1>15, <4>1
    <3>3. CASE i = n + 1
      <4>1. m = k /\ t = s
        BY <1>4, <1>5, <2>2, <3>3
      <4>2. WellRouted(m, t)
        BY <2>1, <4>1 DEF WellRouted
      <4> QED
        BY <1>15, <4>2
    <3> QED
      BY <3>1, <3>2, <3>3
  <2>3. AllWellRouted'
    BY <2>2 DEF AllWellRouted
  <2> QED
    BY <2>3, RoutedByNameIs, PTL
<1>17. \A i \in 1..n : Rank(routed[i].stage) < Rank(s) /\ Rank(routed[i].stage) \in Nat
  <2>1. \A i \in 1..n : Rank(routed[i].stage) \in Nat
    BY Facts, Steps, StageSet DEF RouteOf
  <2> QED
    BY <1>1, <1>8, <2>1 DEF Inv, Before, AsideNames
<1>18. Before'
  <2> SUFFICES ASSUME out' = "parsing" PROVE Before'
    BY DEF Before
  <2>1. phase' = next /\ 1..n + 1 = (1..n) \cup {n + 1}
    BY <1>2, <1>3 DEF Errors
  <2>2. \A i \in 1..n + 1 : Rank(routed'[i].stage) < Step(phase')
    BY <1>1, <1>4, <1>5, <1>8, <1>17, <2>1
  <2> QED
    BY <1>4, <2>2 DEF Before
<1>19. OrderOfConversions'
  <2>1. ASSUME NEW j \in 1..n + 1, NEW i \in 1..j - 1
        PROVE  \/ Rank(routed'[i].stage) < Rank(routed'[j].stage)
               \/ /\ routed'[i].stage = routed'[j].stage
                  /\ KeyOfKid(routed'[i].kid) <= KeyOfKid(routed'[j].kid)
    <3>1. i \in 1..n /\ routed'[i] = routed[i]
      BY <1>2, <1>4
    <3>2. CASE j = n + 1
      BY <1>4, <1>5, <1>17, <3>1, <3>2
    <3>3. CASE j \in 1..n
      BY <1>4, <3>1, <3>3, Facts DEF Inv, OrderOfConversions
    <3> QED
      BY <1>2, <3>2, <3>3
  <2>2. DOMAIN routed' = 1..n + 1
    BY <1>4, LenProperties
  <2> QED
    BY <1>1, <2>1, <2>2, KidsStay DEF OrderOfConversions
<1> QED
  BY <1>10, <1>11, <1>12, <1>13, <1>14, <1>16, <1>18, <1>19 DEF Inv
(* What is left after the memory and can only be followed later.           *)
LEMMA SetAsideParts ==
  ASSUME Inv, SetAside
  PROVE  \/ /\ Rested /\ out' = "Chassis" /\ phase = "memory"
            /\ props.chassis = "invalid" /\ \A k \in LeftKids : StageOf(k) # "memory"
         \/ /\ out = "parsing" /\ phase = "memory" /\ phase' = "device" /\ out' = out
            /\ UNCHANGED <<props, kids, routed>> /\ props.chassis # "invalid"
            /\ Kept(left') /\ \A k \in LeftKids : StageOf(k) # "memory"
            /\ aside' \in [AsideNames -> 0..Len(kids)]
            /\ LeftKids' = LeftKids \ AsideKids' /\ AsideKids' \subseteq LeftKids
            /\ \A s, t \in AsideNames : aside'[s] = aside'[t] /\ aside'[s] # 0 => s = t
            /\ \A s \in AsideNames : aside'[s] # 0 => StageOf(aside'[s]) = s
            /\ \A s \in AsideNames, k \in LeftKids' : StageOf(k) = s =>
                 aside'[s] # 0 /\ KeyOfKid(aside'[s]) = KeyOfKid(k)
<1>1. out = "parsing" /\ phase = "memory" /\ props' = props /\ kids' = kids
  BY DEF SetAside, At
<1>2. \A k \in LeftKids : k \in 1..Len(kids) /\ k # 0 /\ StageOf(k) # "memory"
  <2> SUFFICES ASSUME NEW k \in LeftKids
               PROVE  k \in 1..Len(kids) /\ k # 0 /\ StageOf(k) # "memory"
    OBVIOUS
  <2>1. k \in 1..Len(kids)
    BY Facts
  <2>2. kids[k].name # Memory
    BY DEF SetAside, IsMemory, LeftKids, KidsOf
  <2> QED
    BY <2>1, <2>2, Facts, StageMeans
<1>3. CASE props.chassis = "invalid"
  BY <1>1, <1>2, <1>3 DEF SetAside, Fail, Rested, Errors
<1>4. CASE props.chassis # "invalid"
  <2>1. PICK a \in Removals(left, Aliases) : \E s \in SymbolsRemovals(a.rest) :
          \E c \in Removals(s.rest, Chosen) :
            /\ left' = c.rest
            /\ aside' = [aliases |-> a.kid, symbols |-> s.kid, chosen |-> c.kid]
            /\ phase' = "device" /\ out' = out /\ routed' = routed
    BY <1>4 DEF SetAside, GoTo
  <2>2. PICK s \in SymbolsRemovals(a.rest) : \E c \in Removals(s.rest, Chosen) :
          /\ left' = c.rest
          /\ aside' = [aliases |-> a.kid, symbols |-> s.kid, chosen |-> c.kid]
          /\ phase' = "device" /\ out' = out /\ routed' = routed
    BY <2>1
  <2>3. PICK c \in Removals(s.rest, Chosen) :
          /\ left' = c.rest
          /\ aside' = [aliases |-> a.kid, symbols |-> s.kid, chosen |-> c.kid]
          /\ phase' = "device" /\ out' = out /\ routed' = routed
    BY <2>2
  <2>4. KidsTyped /\ Kept(left) /\ {Aliases, Symbols, Chosen} \subseteq Nat
    BY Facts, RootAssumption
  <2>5. /\ Kept(a.rest)
        /\ \/ /\ a.kid = 0 /\ KidsOf(a.rest) = LeftKids
              /\ \A k \in LeftKids : KeyOfKid(k) # KeyOf(Aliases, 0)
           \/ /\ a.kid # 0 /\ a.kid \in LeftKids /\ KeyOfKid(a.kid) = KeyOf(Aliases, 0)
              /\ KidsOf(a.rest) = LeftKids \ {a.kid}
    BY <2>4, RemovalFacts DEF LeftKids
  <2>6. /\ Kept(s.rest)
        /\ \/ /\ s.kid = 0 /\ KidsOf(s.rest) = KidsOf(a.rest)
              /\ Rpi => \A k \in KidsOf(a.rest) : KeyOfKid(k) # KeyOf(Symbols, 0)
           \/ /\ s.kid # 0 /\ s.kid \in KidsOf(a.rest) /\ KeyOfKid(s.kid) = KeyOf(Symbols, 0)
              /\ KidsOf(s.rest) = KidsOf(a.rest) \ {s.kid} /\ Rpi
    <3>1. CASE Rpi
      <4>1. s \in Removals(a.rest, Symbols)
        BY <3>1 DEF SymbolsRemovals
      <4> QED
        BY <2>4, <2>5, <3>1, <4>1, RemovalFacts
    <3>2. CASE ~ Rpi
      BY <2>5, <3>2 DEF SymbolsRemovals
    <3> QED
      BY <3>1, <3>2
  <2>7. /\ Kept(c.rest)
        /\ \/ /\ c.kid = 0 /\ KidsOf(c.rest) = KidsOf(s.rest)
              /\ \A k \in KidsOf(s.rest) : KeyOfKid(k) # KeyOf(Chosen, 0)
           \/ /\ c.kid # 0 /\ c.kid \in KidsOf(s.rest) /\ KeyOfKid(c.kid) = KeyOf(Chosen, 0)
              /\ KidsOf(c.rest) = KidsOf(s.rest) \ {c.kid}
    BY <2>4, <2>6, RemovalFacts
  <2>8. /\ aside'["aliases"] = a.kid /\ aside'["symbols"] = s.kid
        /\ aside'["chosen"] = c.kid /\ DOMAIN aside' = AsideNames
        /\ aside' = [t \in AsideNames |-> aside'[t]]
    BY <2>3 DEF AsideNames
  <2>9. LeftKids' = KidsOf(c.rest)
    BY <2>3 DEF LeftKids, KidsOf
  <2>10. AsideKids' = {a.kid, s.kid, c.kid} \ {0}
    BY <2>8 DEF AsideKids, AsideNames
  <2>11. aside' \in [AsideNames -> 0..Len(kids)]
    <3>1. {a.kid, s.kid, c.kid} \subseteq LeftKids \cup {0}
      BY <2>5, <2>6, <2>7
    <3>2. \A k \in LeftKids : k \in 0..Len(kids)
      BY <1>2
    <3>3. 0 \in 0..Len(kids)
      BY Facts
    <3> QED
      BY <2>8, <3>1, <3>2, <3>3 DEF AsideNames
  <2>12. LeftKids' = LeftKids \ AsideKids' /\ AsideKids' \subseteq LeftKids
    BY <1>2, <2>5, <2>6, <2>7, <2>9, <2>10
  <2>13. \A t, u \in AsideNames : aside'[t] = aside'[u] /\ aside'[t] # 0 => t = u
    <3>1. /\ a.kid # 0 => a.kid # s.kid /\ a.kid # c.kid
          /\ s.kid # 0 => s.kid # c.kid
      BY <2>5, <2>6, <2>7
    <3> QED
      BY <2>8, <3>1 DEF AsideNames
  <2>14. \A t \in AsideNames : aside'[t] # 0 => StageOf(aside'[t]) = t
    <3>1. /\ a.kid # 0 => StageOf(a.kid) = "aliases"
          /\ s.kid # 0 => StageOf(s.kid) = "symbols"
          /\ c.kid # 0 => StageOf(c.kid) = "chosen"
      BY <1>2, <2>4, <2>5, <2>6, <2>7, StageMeans
    <3> QED
      BY <2>8, <3>1 DEF AsideNames
  <2>15. ASSUME NEW t \in AsideNames, NEW k \in LeftKids', StageOf(k) = t
         PROVE  aside'[t] # 0 /\ KeyOfKid(aside'[t]) = KeyOfKid(k)
    <3>1. /\ k \in KidsOf(a.rest) /\ k \in KidsOf(s.rest) /\ k \in LeftKids
          /\ k \in 1..Len(kids)
      BY <1>2, <2>5, <2>6, <2>7, <2>9, <2>15
    <3>2. CASE t = "aliases"
      BY <2>4, <2>5, <2>8, <2>15, <3>1, <3>2, StageMeans
    <3>3. CASE t = "symbols"
      BY <2>4, <2>6, <2>8, <2>15, <3>1, <3>3, StageMeans
    <3>4. CASE t = "chosen"
      BY <2>4, <2>7, <2>8, <2>15, <3>1, <3>4, StageMeans
    <3> QED
      BY <3>2, <3>3, <3>4 DEF AsideNames
  <2> QED
    BY <1>1, <1>2, <1>4, <2>3, <2>7, <2>11, <2>12, <2>13, <2>14, <2>15
<1> QED
  BY <1>3, <1>4

LEMMA SetAsideInv == ASSUME Inv, SetAside PROVE Inv'
<1>1. CASE Rested
  BY <1>1, RestedInv
<1>2. CASE ~ Rested
  <2>1. /\ out = "parsing" /\ phase = "memory" /\ phase' = "device" /\ out' = out
        /\ props' = props /\ kids' = kids /\ routed' = routed
        /\ Kept(left') /\ \A k \in LeftKids : StageOf(k) # "memory"
        /\ aside' \in [AsideNames -> 0..Len(kids)]
        /\ LeftKids' = LeftKids \ AsideKids' /\ AsideKids' \subseteq LeftKids
        /\ \A s, t \in AsideNames : aside'[s] = aside'[t] /\ aside'[s] # 0 => s = t
        /\ \A s \in AsideNames : aside'[s] # 0 => StageOf(aside'[s]) = s
        /\ \A s \in AsideNames, k \in LeftKids' : StageOf(k) = s =>
             aside'[s] # 0 /\ KeyOfKid(aside'[s]) = KeyOfKid(k)
    BY <1>2, SetAsideParts
  <2>2. Step(phase) = 3 /\ Step(phase') = 4 /\ phase' \in Phases
    BY <2>1, Steps, StageSet DEF Phases
  <2>3. \A s \in AsideNames : aside[s] = 0
    BY <2>2 DEF Inv, AsideByName
  <2>4. AsideKids = {} /\ RoutedKids' = RoutedKids
    BY <2>1, <2>3 DEF AsideKids, RoutedKids
  <2>5. Shape'
    <3>1. Kept(left)'
      BY <2>1 DEF Kept, KeyOfKid
    <3> QED
      BY <2>1, <2>2, <3>1, KidsStay DEF Inv, Shape
  <2>6. Places'
    BY <2>1, <2>4 DEF Inv, Places
  <2>7. AsideByName'
    BY <2>1, <2>2, Ranks, KidsStay DEF AsideByName, AsideNames
  <2>8. LeftEmpty'
    BY <2>1, <2>2 DEF LeftEmpty
  <2>9. \A k : Taken(k) => Taken(k)'
    BY <2>1, <2>3, Facts, KidsStay DEF Taken
  <2>10. LeftExplained'
    <3> SUFFICES ASSUME NEW k \in LeftKids' PROVE StageOf(k) # "memory"
                   /\ (Selected(StageOf(k))' => Taken(k)')
      BY <2>1, KidsStay DEF LeftExplained
    <3>1. k \in LeftKids /\ k \in 1..Len(kids) /\ StageOf(k) # "memory" /\ StageOf(k) \in ToSet(Stages)
      BY <2>1, Facts, StageMeans
    <3>2. CASE StageOf(k) \in {"cpus", "reserved"}
      <4>1. Selected(StageOf(k))
        BY <2>2, <3>2, Ranks DEF Selected
      <4> QED
        BY <2>9, <3>1, <4>1 DEF Inv, LeftExplained
    <3>3. CASE StageOf(k) = "device"
      BY <2>1, <3>1, <3>3, KidsStay DEF Selected
    <3>4. CASE StageOf(k) \in AsideNames
      <4> DEFINE j == aside'[StageOf(k)]
      <4>1. j # 0 /\ KeyOfKid(j) = KeyOfKid(k)
        BY <2>1, <3>4
      <4>2. j \in AsideKids' /\ j \in 1..Len(kids) /\ j # k
        BY <2>1, <3>4, <4>1, Facts DEF AsideKids
      <4>3. PICK m \in 1..Len(kids) : m = j
        BY <4>2
      <4>4. Twins(m, k)'
        BY <2>1, <4>1, <4>2, <4>3, KidsStay DEF Twins
      <4>5. StageOf(k)' \in DOMAIN aside' /\ aside'[StageOf(k)'] = m
        BY <2>1, <3>4, <4>3, KidsStay
      <4> QED
        BY <2>1, <3>1, <4>4, <4>5, Facts DEF Taken
    <3> QED
      BY <3>1, <3>2, <3>3, <3>4, StageSet DEF AsideNames
  <2>11. RoutedByName'
    <3>1. AllWellRouted
      BY RoutedByNameIs DEF Inv
    <3>2. \A m, t : WellRouted(m, t) => WellRouted(m, t)'
      BY <2>1, <2>9, KidsStay DEF WellRouted
    <3>3. AllWellRouted'
      BY <2>1, <3>1, <3>2 DEF AllWellRouted
    <3> QED
      BY <3>3, RoutedByNameIs, PTL
  <2>12. Before'
    <3>1. \A i \in 1..Len(routed) : Rank(routed[i].stage) \in Nat
      BY Facts, Steps, StageSet DEF RouteOf
    <3>2. \A i \in 1..Len(routed) : Rank(routed[i].stage) < Step(phase')
      BY <2>1, <2>2, <3>1, Ranks DEF Inv, Before
    <3> QED
      BY <2>1, <3>2 DEF Before
  <2>13. OrderOfConversions'
    BY <2>1, KidsStay DEF Inv, OrderOfConversions
  <2> QED
    BY <2>5, <2>6, <2>7, <2>8, <2>10, <2>11, <2>12, <2>13 DEF Inv
<1> QED
  BY <1>1, <1>2
-----------------------------------------------------------------------------
(* What each of the other steps is.                                        *)
LEMMA PropertyChecksOutcome ==
  \/ /\ FirstError(PropertyChecks) = "none"
     /\ props.model = "valid" /\ props.compatible = "valid"
     /\ props.serial # "invalid" /\ props.cells # "invalid"
  \/ /\ FirstError(PropertyChecks) = "Model"
     /\ props.model # "valid" \/ props.compatible # "valid"
  \/ /\ FirstError(PropertyChecks) = "SerialNumber"
     /\ props.model = "valid" /\ props.compatible = "valid" /\ props.serial = "invalid"
  \/ /\ FirstError(PropertyChecks) = "Cells"
     /\ props.model = "valid" /\ props.compatible = "valid"
     /\ props.serial # "invalid" /\ props.cells = "invalid"
<1> DEFINE S == [error : {"Model", "SerialNumber", "Cells"}, ok : BOOLEAN]
           checks == PropertyChecks
<1>1. checks \in Seq(S) /\ Len(checks) = 4
  BY DEF PropertyChecks, Check
<1>2. /\ checks[1].error = "Model" /\ (checks[1].ok <=> props.model = "valid")
      /\ checks[2].error = "Model" /\ (checks[2].ok <=> props.compatible = "valid")
      /\ checks[3].error = "SerialNumber" /\ (checks[3].ok <=> props.serial # "invalid")
      /\ checks[4].error = "Cells" /\ (checks[4].ok <=> props.cells # "invalid")
  BY DEF PropertyChecks, Check
<1> HIDE DEF S, checks
<1>3. \/ (\A i \in 1..4 : checks[i].ok) /\ FirstError(checks) = "none"
      \/ \E i \in 1..4 : /\ ~ checks[i].ok /\ \A j \in 1..i - 1 : checks[j].ok
                         /\ FirstError(checks) = checks[i].error
  BY <1>1, FirstErrorProperties DEF IsFirstFailure
<1>4. CASE (\A i \in 1..4 : checks[i].ok) /\ FirstError(checks) = "none"
  <2>1. checks[1].ok /\ checks[2].ok /\ checks[3].ok /\ checks[4].ok
    BY <1>4
  <2> QED
    BY <1>2, <1>4, <2>1 DEF checks
<1>5. ASSUME NEW i \in 1..4, ~ checks[i].ok, \A j \in 1..i - 1 : checks[j].ok,
             FirstError(checks) = checks[i].error
      PROVE  \/ FirstError(checks) = "Model" /\ ~ (checks[1].ok /\ checks[2].ok)
             \/ FirstError(checks) = "SerialNumber" /\ checks[1].ok /\ checks[2].ok /\ ~ checks[3].ok
             \/ /\ FirstError(checks) = "Cells"
                /\ checks[1].ok /\ checks[2].ok /\ checks[3].ok /\ ~ checks[4].ok
  <2>1. i \in {1, 2, 3, 4}
    OBVIOUS
  <2> QED
    BY <1>2, <1>5, <2>1
<1> QED
  BY <1>2, <1>3, <1>4, <1>5 DEF checks

LEMMA ReadPropertiesStep ==
  ASSUME Inv, ReadProperties
  PROVE  Rested /\ (out' = "parsing" => FirstError(PropertyChecks) = "none")
<1>1. /\ out = "parsing" /\ phase = "properties"
      /\ \/ FirstError(PropertyChecks) = "none" /\ phase' = "cpus" /\ out' = out
         \/ /\ FirstError(PropertyChecks) # "none" /\ phase' = phase
            /\ out' = FirstError(PropertyChecks)
      /\ UNCHANGED <<props, kids, left, aside, routed>>
  BY DEF ReadProperties, At, GoTo, Fail
<1>2. /\ "cpus" \in Phases /\ Step("cpus") = Step("properties") + 1
      /\ "properties" \notin AsideNames
  BY Steps, StageSet DEF Phases, AsideNames
<1> QED
  BY <1>1, <1>2, PropertyChecksOutcome DEF Rested, Errors

LEMMA ReadCpusStep ==
  ASSUME Inv, ReadCpus
  PROVE  \/ /\ Rested /\ out' = "CpuRoot"
            /\ \A k \in LeftKids : StageOf(k) # "cpus"
         \/ \E k \in LeftKids : Took(k, "cpus", "reserved")
<1>1. out = "parsing" /\ phase = "cpus" /\ props' = props /\ kids' = kids
  BY DEF ReadCpus, At
<1>2. PICK r \in Removals(left, Cpus) :
        IF r.kid = 0 THEN Fail("CpuRoot")
        ELSE left' = r.rest /\ Convert(r.kid, "cpus", "reserved") /\ aside' = aside
  BY DEF ReadCpus
<1>3. /\ Kept(r.rest)
      /\ \/ /\ r.kid = 0 /\ r.rest = left
            /\ \A k \in LeftKids : KeyOfKid(k) # KeyOf(Cpus, 0)
         \/ /\ r.kid # 0 /\ r.kid \in LeftKids /\ KeyOfKid(r.kid) = KeyOf(Cpus, 0)
            /\ KidsOf(r.rest) = LeftKids \ {r.kid}
  BY RemovalFacts, RootAssumption, Facts DEF LeftKids
<1>4. CASE r.kid = 0
  <2>1. \A k \in LeftKids : StageOf(k) # "cpus"
    BY <1>3, <1>4, Facts, StageMeans
  <2> QED
    BY <1>1, <1>2, <1>4, <2>1 DEF Fail, Rested, Errors
<1>5. CASE r.kid # 0
  <2>1. StageOf(r.kid) = "cpus"
    BY <1>3, <1>5, Facts, StageMeans
  <2>2. Took(r.kid, "cpus", "reserved")
    BY <1>1, <1>2, <1>3, <1>5, <2>1 DEF Took, Follows
  <2> QED
    BY <1>3, <1>5, <2>2
<1> QED
  BY <1>4, <1>5

LEMMA ReadReservedStep ==
  ASSUME Inv, ReadReserved
  PROVE  \/ Rested /\ out' = out
         \/ \E k \in LeftKids : Took(k, "reserved", "memory")
<1>1. /\ out = "parsing" /\ phase = "reserved" /\ props' = props /\ kids' = kids
      /\ aside' = aside
  BY DEF ReadReserved, At
<1>2. PICK r \in Removals(left, ReservedMemory) :
        /\ left' = r.rest
        /\ IF r.kid = 0 THEN phase' = "memory" /\ out' = out /\ routed' = routed
           ELSE Convert(r.kid, "reserved", "memory")
  BY DEF ReadReserved, GoTo
<1>3. /\ Kept(r.rest)
      /\ \/ /\ r.kid = 0 /\ r.rest = left
            /\ \A k \in LeftKids : KeyOfKid(k) # KeyOf(ReservedMemory, 0)
         \/ /\ r.kid # 0 /\ r.kid \in LeftKids
            /\ KeyOfKid(r.kid) = KeyOf(ReservedMemory, 0)
            /\ KidsOf(r.rest) = LeftKids \ {r.kid}
  BY RemovalFacts, RootAssumption, Facts DEF LeftKids
<1>4. CASE r.kid = 0
  <2>1. \A k \in LeftKids : StageOf(k) # "reserved"
    BY <1>3, <1>4, Facts, StageMeans
  <2>2. /\ "memory" \in Phases /\ Step("memory") = Step("reserved") + 1
        /\ "reserved" \notin AsideNames
    BY Steps, StageSet DEF Phases, AsideNames
  <2> QED
    BY <1>1, <1>2, <1>3, <1>4, <2>1, <2>2 DEF Rested
<1>5. CASE r.kid # 0
  <2>1. StageOf(r.kid) = "reserved"
    BY <1>3, <1>5, Facts, StageMeans
  <2>2. Took(r.kid, "reserved", "memory")
    BY <1>1, <1>2, <1>3, <1>5, <2>1 DEF Took, Follows
  <2> QED
    BY <1>3, <1>5, <2>2
<1> QED
  BY <1>4, <1>5

LEMMA ReadMemoryStep ==
  ASSUME Inv, ReadMemory
  PROVE  \E k \in LeftKids : Took(k, "memory", "memory")
<1>1. /\ out = "parsing" /\ phase = "memory" /\ props' = props /\ kids' = kids
      /\ aside' = aside
  BY DEF ReadMemory, At
<1>2. PICK i \in 1..Len(left) :
        /\ IsMemory(i) /\ \A j \in 1..i - 1 : ~ IsMemory(j)
        /\ left' = Without(left, i) /\ Convert(left[i].val, "memory", "memory")
  BY DEF ReadMemory
<1> DEFINE k == left[i].val
<1>3. k \in LeftKids /\ k \in 1..Len(kids) /\ Kept(left') /\ KidsOf(left') = LeftKids \ {k}
  BY <1>2, Facts, KeptFacts, WithoutProperties DEF LeftKids
<1>4. StageOf(k) = "memory"
  BY <1>2, <1>3, Facts, StageMeans DEF IsMemory
<1>5. ASSUME NEW other \in LeftKids, StageOf(other) = "memory"
      PROVE  KeyOfKid(k) <= KeyOfKid(other)
  <2>1. PICK j \in 1..Len(left) : other = left[j].val
    BY DEF LeftKids, KidsOf
  <2>2. other \in 1..Len(kids)
    BY Facts
  <2>3. IsMemory(j)
    BY <1>5, <2>1, <2>2, Facts, StageMeans DEF IsMemory
  <2>4. i <= j
    BY <1>2, <2>3, Facts
  <2>5. left[i].key = KeyOfKid(k) /\ left[j].key = KeyOfKid(other)
    BY <2>1, Facts DEF Kept
  <2>6. CASE i = j
    BY <1>3, <2>1, <2>6, Facts, KidFacts
  <2>7. CASE i < j
    BY <2>5, <2>7, Facts DEF Kept, IsSortedByKey
  <2> QED
    BY <2>4, <2>6, <2>7, Facts
<1> QED
  BY <1>1, <1>2, <1>3, <1>4, <1>5 DEF Took, Follows

LEMMA ReadDeviceStep ==
  ASSUME Inv, ReadDevice
  PROVE  \/ Rested /\ out' = out
         \/ \E k \in LeftKids : Took(k, "device", "device")
<1>1. /\ out = "parsing" /\ phase = "device" /\ props' = props /\ kids' = kids
      /\ aside' = aside
  BY DEF ReadDevice, At
<1>2. CASE left = <<>>
  <2>1. /\ "aliases" \in Phases /\ Step("aliases") = Step("device") + 1
        /\ "device" \notin AsideNames
    BY Steps, StageSet DEF Phases, AsideNames
  <2> QED
    BY <1>1, <1>2, <2>1 DEF ReadDevice, GoTo, Rested
<1>3. CASE left # <<>>
  <2> DEFINE k == left[1].val
  <2>1. 1 \in 1..Len(left) /\ Head(left) = left[1] /\ Tail(left) = Without(left, 1)
    BY <1>3, Facts, TailIsWithout
  <2>2. left' = Without(left, 1) /\ Convert(k, "device", "device")
    BY <1>3, <2>1 DEF ReadDevice
  <2>3. k \in LeftKids /\ k \in 1..Len(kids) /\ Kept(left') /\ KidsOf(left') = LeftKids \ {k}
    BY <2>1, <2>2, Facts, KeptFacts, WithoutProperties DEF LeftKids
  <2>4. ASSUME NEW other \in LeftKids PROVE KeyOfKid(k) <= KeyOfKid(other)
    <3>1. PICK j \in 1..Len(left) : other = left[j].val
      BY DEF LeftKids, KidsOf
    <3>2. left[1].key = KeyOfKid(k) /\ left[j].key = KeyOfKid(other)
      BY <2>1, <3>1, Facts DEF Kept
    <3>3. CASE j = 1
      BY <2>3, <3>1, <3>3, Facts, KidFacts
    <3>4. CASE 1 < j
      BY <2>1, <3>2, <3>4, Facts DEF Kept, IsSortedByKey
    <3> QED
      BY <3>3, <3>4, Facts
  <2> QED
    BY <1>1, <2>2, <2>3, <2>4 DEF Took, Follows
<1> QED
  BY <1>2, <1>3

LEMMA FollowStep ==
  ASSUME Inv, NEW s \in AsideNames, NEW next \in Phases, Step(next) = Rank(s) + 1,
         Follow(s, next)
  PROVE  (Rested /\ out' = out) \/ Followed(s, next)
<1>1. CASE aside[s] = 0
  <2>1. Step(s) = Rank(s) /\ s \notin {"cpus", "memory", "reserved", "device"}
    BY Steps, StageSet DEF AsideNames
  <2> QED
    BY <1>1, <2>1 DEF Follow, At, GoTo, Rested
<1>2. CASE aside[s] # 0
  BY <1>2 DEF Follow, Followed
<1> QED
  BY <1>1, <1>2

LEMMA FollowSteps ==
  ASSUME Inv,
         \/ Follow("aliases", "symbols") \/ Follow("symbols", "chosen")
         \/ Follow("chosen", "complete")
  PROVE  \/ Rested /\ out' = out
         \/ \E s \in AsideNames, next \in Phases : Followed(s, next)
<1>1. /\ AsideNames \subseteq Phases /\ "complete" \in Phases
      /\ Step("symbols") = Rank("aliases") + 1 /\ Step("chosen") = Rank("symbols") + 1
      /\ Step("complete") = Rank("chosen") + 1
      /\ {"aliases", "symbols", "chosen"} = AsideNames
  BY Steps, Ranks, StageSet DEF AsideNames, Phases
<1>2. CASE Follow("aliases", "symbols")
  BY <1>1, <1>2, FollowStep
<1>3. CASE Follow("symbols", "chosen")
  BY <1>1, <1>3, FollowStep
<1>4. CASE Follow("chosen", "complete")
  BY <1>1, <1>4, FollowStep
<1> QED
  BY <1>2, <1>3, <1>4

LEMMA CompleteStep == ASSUME Inv, Complete PROVE Rested
  BY DEF Complete, At, Rested
-----------------------------------------------------------------------------
LEMMA InitInv == Init => Inv
<1> SUFFICES ASSUME Init PROVE Inv
  OBVIOUS
<1>1. PICK root \in Roots : props = root.props /\ kids = root.kids
  BY DEF Init
<1>2. KidsTyped
  <2>1. kids \in Seq(Kid)
    BY <1>1, RootAssumption
  <2>2. DOMAIN kids = 1..Len(kids)
    BY <2>1, LenProperties
  <2> QED
    BY <1>1, <2>1, <2>2, RootAssumption DEF KidsTyped
<1> DEFINE n == Len(kids)
           S == ItemOf(n)
           entries == [k \in 1..n |-> Entry(KeyOfKid(k), k)]
<1>3. n \in Nat
  BY <1>2, LenProperties DEF KidsTyped
<1>4. entries \in Seq(S) /\ Len(entries) = n
  <2>1. \A k \in 1..n : Entry(KeyOfKid(k), k) \in S
    BY <1>2, KidFacts DEF Entry, ItemOf
  <2> QED
    BY <1>3, <2>1
<1>5. left \in SortedPermutations(entries)
  BY DEF Init, Collected
<1>6. left \in Seq(S) /\ Len(left) = n /\ IsSortedByKey(left)
  <2> HIDE DEF S, entries
  <2> QED
    BY <1>4, <1>5, SortedPermutationProperties
<1>7. PICK f \in Bijection(1..n, 1..n) : left = [j \in 1..n |-> entries[f[j]]]
  BY <1>4, <1>5 DEF SortedPermutations
<1>8. /\ f \in [1..n -> 1..n] /\ \A i, j \in 1..n : f[i] = f[j] => i = j
      /\ \A k \in 1..n : \E j \in 1..n : f[j] = k
  BY <1>7 DEF Bijection, Injection, Surjection, IsInjective
<1>9. \A j \in 1..n : left[j].val = f[j] /\ left[j].key = KeyOfKid(left[j].val)
  BY <1>7, <1>8 DEF Entry
<1>10. Kept(left)
  <2>1. \A i, j \in 1..n : left[i].val = left[j].val => i = j
    BY <1>8, <1>9
  <2> HIDE DEF entries
  <2>2. \A i, j \in 1..Len(left) : left[i].val = left[j].val => i = j
    BY <1>6, <2>1
  <2>3. \A j \in 1..Len(left) : left[j].key = KeyOfKid(left[j].val)
    BY <1>6, <1>9
  <2> QED
    BY <1>6, <2>2, <2>3 DEF Kept
<1>11. LeftKids = 1..n
  <2>1. LeftKids = {left[j].val : j \in 1..n}
    BY <1>6 DEF LeftKids, KidsOf
  <2>2. \A j \in 1..n : left[j].val \in 1..n
    BY <1>8, <1>9
  <2>3. \A k \in 1..n : \E j \in 1..n : left[j].val = k
    BY <1>8, <1>9
  <2> HIDE DEF n, entries
  <2> QED
    BY <2>1, <2>2, <2>3
<1>12. /\ aside = [s \in AsideNames |-> 0] /\ routed = <<>> /\ Len(routed) = 0
       /\ phase = "properties" /\ out = "parsing"
  BY DEF Init, AsideNames
<1>13. RoutedKids = {} /\ AsideKids = {} /\ \A s \in AsideNames : aside[s] = 0
  BY <1>12 DEF RoutedKids, AsideKids
<1>14. Shape
  <2>1. routed \in Seq(RouteOf(n))
    BY <1>12, EmptySeq
  <2>2. aside \in [AsideNames -> 0..n]
    BY <1>3, <1>12
  <2> QED
    BY <1>2, <1>10, <1>12, <2>1, <2>2 DEF Shape, Phases
<1>15. Places
  BY <1>11, <1>12, <1>13 DEF Places
<1>16. LeftExplained
  <2>1. \A k \in LeftKids : StageOf(k) \in ToSet(Stages)
    BY <1>2, <1>11, StageMeans
  <2> QED
    BY <1>12, <2>1, Steps, Ranks DEF LeftExplained, Selected
<1>17. AsideByName /\ LeftEmpty
  BY <1>12, <1>13, Steps DEF AsideByName, LeftEmpty
<1>18. RoutedByName /\ Before /\ OrderOfConversions
  <2>1. DOMAIN routed = {}
    BY <1>12
  <2> QED
    BY <1>12, <2>1 DEF RoutedByName, Before, OrderOfConversions
<1> QED
  BY <1>14, <1>15, <1>16, <1>17, <1>18 DEF Inv

LEMMA StutterInv == ASSUME Inv, UNCHANGED vars PROVE Inv'
<1>1. /\ props' = props /\ kids' = kids /\ left' = left /\ aside' = aside
      /\ routed' = routed /\ phase' = phase /\ out' = out
  BY DEF vars
<1>2. Shape' /\ Places' /\ AsideByName' /\ LeftEmpty'
  <2>1. Kept(left)'
    BY <1>1 DEF Inv, Shape, Kept, KeyOfKid
  <2>2. LeftKids' = LeftKids /\ RoutedKids' = RoutedKids /\ AsideKids' = AsideKids
    BY <1>1 DEF LeftKids, KidsOf, RoutedKids, AsideKids
  <2>3. Shape'
    BY <1>1, <2>1, KidsStay DEF Inv, Shape
  <2>4. Places'
    BY <1>1, <2>2 DEF Inv, Places
  <2>5. AsideByName' /\ LeftEmpty'
    BY <1>1, KidsStay DEF Inv, AsideByName, LeftEmpty
  <2> QED
    BY <2>3, <2>4, <2>5
<1>3. LeftExplained' /\ RoutedByName' /\ Before' /\ OrderOfConversions'
  BY <1>1, KidsStay
     DEF Inv, LeftExplained, Selected, Taken, RoutedByName, Before, OrderOfConversions,
         LeftKids, KidsOf
<1> QED
  BY <1>2, <1>3 DEF Inv

LEMMA NextInv == Inv /\ [Next]_vars => Inv'
<1> SUFFICES ASSUME Inv, [Next]_vars PROVE Inv'
  OBVIOUS
<1>1. CASE ReadProperties
  BY <1>1, ReadPropertiesStep, RestedInv
<1>2. CASE ReadCpus
  BY <1>2, ReadCpusStep, RestedInv, TookInv
<1>3. CASE ReadReserved
  BY <1>3, ReadReservedStep, RestedInv, TookInv
<1>4. CASE ReadMemory
  BY <1>4, ReadMemoryStep, TookInv
<1>5. CASE ReadDevice
  BY <1>5, ReadDeviceStep, RestedInv, TookInv
<1>6. CASE \/ Follow("aliases", "symbols") \/ Follow("symbols", "chosen")
           \/ Follow("chosen", "complete")
  BY <1>6, FollowSteps, RestedInv, FollowedInv
<1>7. CASE Complete
  BY <1>7, CompleteStep, RestedInv
<1> QED
  BY <1>1, <1>2, <1>3, <1>4, <1>5, <1>6, <1>7, SetAsideInv, StutterInv DEF Next

LEMMA SpecInv == Spec => []Inv
  BY InitInv, NextInv, PTL DEF Spec

(* The variables keep their shape, and the map of those left stays sorted. *)
THEOREM TypeCorrect == Spec => []TypeOK
<1>1. Inv => TypeOK
  <2> SUFFICES ASSUME Inv PROVE TypeOK
    OBVIOUS
  <2>1. DOMAIN kids = 1..Len(kids)
    BY Facts
  <2> QED
    BY <2>1 DEF Inv, Shape, Kept, ItemOf, RouteOf, TypeOK, Phases, AsideNames
<1> QED
  BY <1>1, SpecInv, PTL

(* A child is converted to what its name says; only one that has the name  *)
(* of another can end among the devices instead.                           *)
THEOREM RoutedAlwaysByName == Spec => []RoutedByName
<1>1. Inv => RoutedByName
  BY DEF Inv
<1> QED
  BY <1>1, SpecInv, PTL

(* Caches come before reserved regions and those before devices, regions   *)
(* and devices in the order of their names, and paths after every device.  *)
THEOREM AlwaysInOrder == Spec => []OrderOfConversions
<1>1. Inv => OrderOfConversions
  BY DEF Inv
<1> QED
  BY <1>1, SpecInv, PTL
-----------------------------------------------------------------------------
(* The children counted: each is in one place, and at the end all of them  *)
(* have been converted.                                                    *)
LEMMA AtMostOne ==
  ASSUME NEW S, \A i, j \in S : i = j
  PROVE  IF S = {} THEN Cardinality(S) = 0 ELSE Cardinality(S) = 1
<1>1. CASE S = {}
  BY <1>1, FS_EmptySet
<1>2. CASE S # {}
  <2>1. PICK i : S = {i}
    BY <1>2
  <2> QED
    BY <1>2, <2>1, FS_Singleton
<1> QED
  BY <1>1, <1>2

LEMMA InOnePlace ==
  ASSUME Inv, NEW k \in DOMAIN kids
  PROVE  Cardinality({i \in DOMAIN routed : routed[i].kid = k})
           + Cardinality({i \in DOMAIN left : left[i].val = k})
           + Cardinality({s \in DOMAIN aside : aside[s] = k}) = 1
<1> DEFINE R == {i \in DOMAIN routed : routed[i].kid = k}
           L == {i \in DOMAIN left : left[i].val = k}
           A == {s \in DOMAIN aside : aside[s] = k}
<1>1. k \in 1..Len(kids) /\ k # 0
  BY Facts
<1>2. (R # {} <=> k \in RoutedKids) /\ \A i, j \in R : i = j
  BY Facts DEF Inv, Places, RoutedKids
<1>3. (L # {} <=> k \in LeftKids) /\ \A i, j \in L : i = j
  BY Facts DEF Kept, LeftKids, KidsOf
<1>4. (A # {} <=> k \in AsideKids) /\ \A s, t \in A : s = t
  BY <1>1, Facts DEF Inv, Places, AsideKids
<1>5. \/ R # {} /\ L = {} /\ A = {}
      \/ R = {} /\ L # {} /\ A = {}
      \/ R = {} /\ L = {} /\ A # {}
  BY <1>1, <1>2, <1>3, <1>4 DEF Inv, Places
<1> HIDE DEF R, L, A
<1>6. IF R = {} THEN Cardinality(R) = 0 ELSE Cardinality(R) = 1
  BY <1>2, AtMostOne
<1>7. IF L = {} THEN Cardinality(L) = 0 ELSE Cardinality(L) = 1
  BY <1>3, AtMostOne
<1>8. IF A = {} THEN Cardinality(A) = 0 ELSE Cardinality(A) = 1
  BY <1>4, AtMostOne
<1>9. Cardinality(R) + Cardinality(L) + Cardinality(A) = 1
  BY <1>5, <1>6, <1>7, <1>8
<1> QED
  BY <1>9 DEF R, L, A

LEMMA NoneLeftAtTheEnd ==
  ASSUME Inv, phase = "complete"
  PROVE  RoutedKids = 1..Len(kids)
<1>1. left = <<>> /\ LeftKids = {}
  BY Steps DEF Inv, LeftEmpty, LeftKids, KidsOf
<1>2. AsideKids = {}
  BY Steps, Ranks DEF Inv, AsideByName, AsideKids, AsideNames
<1> QED
  BY <1>1, <1>2 DEF Inv, Places

LEMMA AllRoutedAtTheEnd ==
  ASSUME Inv, phase = "complete"
  PROVE  Len(routed) = Len(kids)
<1> DEFINE n == Len(routed)
           m == Len(kids)
           f == [i \in 1..n |-> routed[i].kid]
<1>1. n \in Nat /\ m \in Nat
  BY Facts
<1>2. \A i \in 1..n : routed[i].kid \in 1..m
  BY Facts DEF RouteOf
<1>3. /\ f \in [1..n -> 1..m] /\ \A i, j \in 1..n : f[i] = f[j] => i = j
      /\ \A k \in 1..m : \E i \in 1..n : f[i] = k
  BY <1>2, NoneLeftAtTheEnd DEF Inv, Places, RoutedKids
<1> HIDE DEF f, n, m
<1>4. /\ IsFiniteSet(1..n) /\ Cardinality(1..n) = n
      /\ IsFiniteSet(1..m) /\ Cardinality(1..m) = m
  BY <1>1, FS_Interval
<1>5. f \in Bijection(1..n, 1..m)
  BY <1>3 DEF Bijection, Injection, Surjection, IsInjective
<1>6. ExistsBijection(1..n, 1..m)
  BY <1>5 DEF ExistsBijection
<1>7. Cardinality(1..m) = Cardinality(1..n)
  BY <1>4, <1>6, FS_Bijection
<1> QED
  BY <1>4, <1>7 DEF n, m

(* No child is lost and none is converted twice, and when parsing succeeds *)
(* all of them have been converted.                                        *)
THEOREM EveryChildAlwaysOnce == Spec => []EveryChildOnce
<1>1. Inv => EveryChildOnce
  BY InOnePlace, AllRoutedAtTheEnd DEF EveryChildOnce, Inv, LeftEmpty
<1> QED
  BY <1>1, SpecInv, PTL
-----------------------------------------------------------------------------
(* The faults of a root, which its properties and children alone decide.   *)
PropertiesFine ==
  /\ props.model = "valid" /\ props.compatible = "valid"
  /\ props.serial # "invalid" /\ props.cells # "invalid"

CpusExist == \E k \in DOMAIN kids : StageOf(k) = "cpus"

Failing(k) == kids[k].ends[StageOf(k)] # "done"

ErrorOfKid(k) ==
  IF kids[k].ends[StageOf(k)] = "panic" THEN "panic" ELSE ErrorOf(StageOf(k))

LEMMA FaultsAre ==
  ASSUME NEW f \in Faults
  PROVE  \/ f.at[1] = 0 /\ f.at[2] = 1 /\ ~ (props.model = "valid" /\ props.compatible = "valid")
         \/ f.at[1] = 0 /\ f.at[2] = 2 /\ props.serial = "invalid"
         \/ f.at[1] = 0 /\ f.at[2] = 3 /\ props.cells = "invalid"
         \/ f.at[1] = 0 /\ f.at[2] = 4 /\ ~ CpusExist
         \/ f.at[1] = 4 /\ f.at[2] = -1 /\ props.chassis = "invalid"
         \/ \E k \in DOMAIN kids :
              Failing(k) /\ f.at[1] = Rank(StageOf(k)) /\ f.at[2] = KeyOfKid(k)
<1>1. CASE \E k \in DOMAIN kids : Failing(k) /\ f.at = <<Rank(StageOf(k)), KeyOfKid(k)>>
  BY <1>1
<1>2. CASE ~ \E k \in DOMAIN kids : Failing(k) /\ f.at = <<Rank(StageOf(k)), KeyOfKid(k)>>
  <2>1. /\ f.is
        /\ \/ f = [at |-> <<0, 1>>, error |-> "Model", is |-> "valid" # props.model]
           \/ f = [at |-> <<0, 1>>, error |-> "Model", is |-> "valid" # props.compatible]
           \/ f = [at |-> <<0, 2>>, error |-> "SerialNumber", is |-> "invalid" = props.serial]
           \/ f = [at |-> <<0, 3>>, error |-> "Cells", is |-> "invalid" = props.cells]
           \/ f = [at |-> <<0, 4>>, error |-> "CpuRoot",
                   is |-> \A k \in DOMAIN kids : StageOf(k) # "cpus"]
           \/ f = [at |-> <<Rank("device"), -1>>, error |-> "Chassis",
                   is |-> "invalid" = props.chassis]
    BY <1>2 DEF Faults, Failing
  <2>2. CASE f = [at |-> <<0, 1>>, error |-> "Model", is |-> "valid" # props.model]
    BY <2>1, <2>2
  <2>3. CASE f = [at |-> <<0, 1>>, error |-> "Model", is |-> "valid" # props.compatible]
    BY <2>1, <2>3
  <2>4. CASE f = [at |-> <<0, 2>>, error |-> "SerialNumber", is |-> "invalid" = props.serial]
    BY <2>1, <2>4
  <2>5. CASE f = [at |-> <<0, 3>>, error |-> "Cells", is |-> "invalid" = props.cells]
    BY <2>1, <2>5
  <2>6. CASE f = [at |-> <<0, 4>>, error |-> "CpuRoot",
                  is |-> \A k \in DOMAIN kids : StageOf(k) # "cpus"]
    BY <2>1, <2>6 DEF CpusExist
  <2>7. CASE f = [at |-> <<Rank("device"), -1>>, error |-> "Chassis",
                  is |-> "invalid" = props.chassis]
    BY <2>1, <2>7, Ranks
  <2> QED
    BY <2>1, <2>2, <2>3, <2>4, <2>5, <2>6, <2>7
<1> QED
  BY <1>1, <1>2

IsFault(a, b, error) == \E f \in Faults : f.at = <<a, b>> /\ f.error = error

LEMMA FaultsExist ==
  /\ ~ (props.model = "valid" /\ props.compatible = "valid") => IsFault(0, 1, "Model")
  /\ props.serial = "invalid" => IsFault(0, 2, "SerialNumber")
  /\ props.cells = "invalid" => IsFault(0, 3, "Cells")
  /\ ~ CpusExist => IsFault(0, 4, "CpuRoot")
  /\ props.chassis = "invalid" => IsFault(4, -1, "Chassis")
  /\ \A k \in DOMAIN kids :
       Failing(k) => IsFault(Rank(StageOf(k)), KeyOfKid(k), ErrorOfKid(k))
<1>1. \A f : /\ f.is
             /\ \/ f = [at |-> <<0, 1>>, error |-> "Model", is |-> "valid" # props.model]
                \/ f = [at |-> <<0, 1>>, error |-> "Model", is |-> "valid" # props.compatible]
                \/ f = [at |-> <<0, 2>>, error |-> "SerialNumber",
                        is |-> "invalid" = props.serial]
                \/ f = [at |-> <<0, 3>>, error |-> "Cells", is |-> "invalid" = props.cells]
                \/ f = [at |-> <<0, 4>>, error |-> "CpuRoot",
                        is |-> \A k \in DOMAIN kids : StageOf(k) # "cpus"]
                \/ f = [at |-> <<Rank("device"), -1>>, error |-> "Chassis",
                        is |-> "invalid" = props.chassis]
             => f \in Faults
  BY DEF Faults
<1>2. ASSUME props.model # "valid" PROVE IsFault(0, 1, "Model")
  <2> DEFINE f == [at |-> <<0, 1>>, error |-> "Model",
                   is |-> "valid" # props.model]
  <2>1. f.is /\ f.at = <<0, 1>> /\ f.error = "Model"
    BY <1>2
  <2>2. f \in Faults
    BY <2>1, <1>1
  <2> QED
    BY <2>1, <2>2 DEF IsFault
<1>3. ASSUME props.compatible # "valid" PROVE IsFault(0, 1, "Model")
  <2> DEFINE f == [at |-> <<0, 1>>, error |-> "Model",
                   is |-> "valid" # props.compatible]
  <2>1. f.is /\ f.at = <<0, 1>> /\ f.error = "Model"
    BY <1>3
  <2>2. f \in Faults
    BY <2>1, <1>1
  <2> QED
    BY <2>1, <2>2 DEF IsFault
<1>4. ASSUME props.serial = "invalid" PROVE IsFault(0, 2, "SerialNumber")
  <2> DEFINE f == [at |-> <<0, 2>>, error |-> "SerialNumber",
                   is |-> "invalid" = props.serial]
  <2>1. f.is /\ f.at = <<0, 2>> /\ f.error = "SerialNumber"
    BY <1>4
  <2>2. f \in Faults
    BY <2>1, <1>1
  <2> QED
    BY <2>1, <2>2 DEF IsFault
<1>5. ASSUME props.cells = "invalid" PROVE IsFault(0, 3, "Cells")
  <2> DEFINE f == [at |-> <<0, 3>>, error |-> "Cells",
                   is |-> "invalid" = props.cells]
  <2>1. f.is /\ f.at = <<0, 3>> /\ f.error = "Cells"
    BY <1>5
  <2>2. f \in Faults
    BY <2>1, <1>1
  <2> QED
    BY <2>1, <2>2 DEF IsFault
<1>6. ASSUME ~ CpusExist PROVE IsFault(0, 4, "CpuRoot")
  <2> DEFINE f == [at |-> <<0, 4>>, error |-> "CpuRoot",
                   is |-> \A k \in DOMAIN kids : StageOf(k) # "cpus"]
  <2>1. f.is /\ f.at = <<0, 4>> /\ f.error = "CpuRoot"
    BY <1>6 DEF CpusExist
  <2>2. f \in Faults
    BY <2>1, <1>1
  <2> QED
    BY <2>1, <2>2 DEF IsFault
<1>7. ASSUME props.chassis = "invalid" PROVE IsFault(4, -1, "Chassis")
  <2> DEFINE f == [at |-> <<Rank("device"), -1>>, error |-> "Chassis",
                   is |-> "invalid" = props.chassis]
  <2>1. f.is /\ f.at = <<4, -1>> /\ f.error = "Chassis"
    BY <1>7, Ranks
  <2>2. f \in Faults
    BY <2>1, <1>1
  <2> QED
    BY <2>1, <2>2 DEF IsFault
<1>8. ASSUME NEW k \in DOMAIN kids, Failing(k)
      PROVE  IsFault(Rank(StageOf(k)), KeyOfKid(k), ErrorOfKid(k))
  <2> DEFINE f == [at |-> <<Rank(StageOf(k)), KeyOfKid(k)>>, is |-> TRUE, error |-> ErrorOfKid(k)]
  <2>1. f \in Faults
    BY <1>8 DEF Faults, Failing, ErrorOfKid
  <2> QED
    BY <2>1 DEF IsFault
<1> QED
  BY <1>2, <1>3, <1>4, <1>5, <1>6, <1>7, <1>8

(* While parsing goes on, nothing looked at so far was wrong.              *)
SoFar ==
  out = "parsing" =>
    /\ phase # "properties" => PropertiesFine
    /\ Step(phase) > 1 => CpusExist
    /\ Step(phase) > 3 => props.chassis # "invalid"
    /\ \A i \in 1..Len(routed) : kids[routed[i].kid].ends[routed[i].stage] = "done"

NoTwins == \A j, k \in DOMAIN kids : ~ Twins(j, k)

(* What fails is still to come.                                            *)
LEMMA FailingAreToCome ==
  ASSUME Inv, SoFar, out = "parsing", NoTwins, NEW k \in DOMAIN kids, Failing(k)
  PROVE  \/ k \in LeftKids /\ ~ Selected(StageOf(k))
         \/ \E s \in AsideNames : aside[s] = k /\ aside[s] # 0 /\ StageOf(k) = s
<1>1. k \in 1..Len(kids) /\ \A m \in DOMAIN kids : ~ Taken(m)
  BY Facts DEF NoTwins, Taken
<1>2. k \notin RoutedKids
  <2> SUFFICES ASSUME NEW i \in 1..Len(routed), routed[i].kid = k PROVE FALSE
    BY DEF RoutedKids
  <2>1. routed[i].stage = StageOf(k)
    BY <1>1, Facts, RoutedByNameIs DEF Inv, AllWellRouted, WellRouted
  <2> QED
    BY <2>1 DEF SoFar, Failing
<1>3. CASE k \in LeftKids
  BY <1>1, <1>3 DEF Inv, LeftExplained
<1>4. CASE k \in AsideKids
  BY <1>4 DEF Inv, AsideByName, AsideKids
<1> QED
  BY <1>1, <1>2, <1>3, <1>4 DEF Inv, Places

(* The error reported is the one of this fault, and no other comes first.  *)
LEMMA ReportedBy ==
  ASSUME NEW f \in Faults, UNCHANGED <<props, kids>>, out' = f.error,
         \A g \in Faults : f.at[1] < g.at[1] \/ (f.at[1] = g.at[1] /\ f.at[2] <= g.at[2])
  PROVE  FirstFaultIsReported'
<1>1. Faults' = Faults
  BY KidsStay DEF Faults
<1>2. f \in Faults' /\ IsFirst(f)'
  BY <1>1 DEF IsFirst
<1>3. \E g \in Faults' : IsFirst(g)' /\ out' = g.error
  BY <1>2
<1> QED
  BY <1>2, <1>3 DEF FirstFaultIsReported

LEMMA ReportedAt ==
  ASSUME NEW a \in Int, NEW b \in Int, NEW error, IsFault(a, b, error),
         UNCHANGED <<props, kids>>, out' = error,
         \A g \in Faults : a < g.at[1] \/ (a = g.at[1] /\ b <= g.at[2])
  PROVE  FirstFaultIsReported'
<1>1. PICK f \in Faults : f.at = <<a, b>> /\ f.error = error
  BY DEF IsFault
<1>2. f.at[1] = a /\ f.at[2] = b
  BY <1>1
<1> QED
  BY <1>1, <1>2, ReportedBy

LEMMA RanksOfKids ==
  ASSUME KidsTyped, NEW k \in 1..Len(kids)
  PROVE  Rank(StageOf(k)) \in 1..7 /\ KeyOfKid(k) \in Nat
<1>1. StageOf(k) \in ToSet(Stages) /\ KeyOfKid(k) \in Nat
  BY KidFacts, StageMeans
<1>2. \A s \in ToSet(Stages) : Rank(s) \in 1..7
  BY StageSet, Ranks
<1> QED
  BY <1>1, <1>2

(* Properties are at fault before anything else is looked at.              *)
LEMMA PropertyReported ==
  ASSUME Inv, ReadProperties, out' # "parsing"
  PROVE  FirstFaultIsReported'
<1>1. /\ UNCHANGED <<props, kids>> /\ FirstError(PropertyChecks) # "none"
      /\ out' = FirstError(PropertyChecks)
  BY DEF ReadProperties, At, GoTo, Fail
<1>2. \A k \in DOMAIN kids : Rank(StageOf(k)) \in 1..7
  BY Facts, RanksOfKids
<1>3. CASE ~ (props.model = "valid" /\ props.compatible = "valid")
  <2>1. out' = "Model" /\ IsFault(0, 1, "Model")
    BY <1>1, <1>3, PropertyChecksOutcome, FaultsExist
  <2>2. \A g \in Faults : 0 < g.at[1] \/ (0 = g.at[1] /\ 1 <= g.at[2])
    BY <1>2, FaultsAre
  <2> QED
    BY <1>1, <2>1, <2>2, ReportedAt
<1>4. CASE props.model = "valid" /\ props.compatible = "valid" /\ props.serial = "invalid"
  <2>1. out' = "SerialNumber" /\ IsFault(0, 2, "SerialNumber")
    BY <1>1, <1>4, PropertyChecksOutcome, FaultsExist
  <2>2. \A g \in Faults : 0 < g.at[1] \/ (0 = g.at[1] /\ 2 <= g.at[2])
    BY <1>2, <1>4, FaultsAre
  <2> QED
    BY <1>1, <2>1, <2>2, ReportedAt
<1>5. CASE /\ props.model = "valid" /\ props.compatible = "valid"
           /\ props.serial # "invalid"
  <2>1. out' = "Cells" /\ props.cells = "invalid" /\ IsFault(0, 3, "Cells")
    BY <1>1, <1>5, PropertyChecksOutcome, FaultsExist
  <2>2. \A g \in Faults : 0 < g.at[1] \/ (0 = g.at[1] /\ 3 <= g.at[2])
    BY <1>2, <1>5, FaultsAre
  <2> QED
    BY <1>1, <2>1, <2>2, ReportedAt
<1> QED
  BY <1>3, <1>4, <1>5

(* Then that there are CPUs, when every child is still left.               *)
LEMMA CpuRootReported ==
  ASSUME Inv, SoFar, ReadCpus, out' = "CpuRoot", UNCHANGED <<props, kids>>,
         \A k \in LeftKids : StageOf(k) # "cpus"
  PROVE  FirstFaultIsReported'
<1>1. out = "parsing" /\ phase = "cpus" /\ Step(phase) = 1
  BY Steps DEF ReadCpus, At
<1>2. \A i \in 1..Len(routed) : Rank(routed[i].stage) \in 1..7
  <2>1. \A s \in ToSet(Stages) : Rank(s) \in 1..7
    BY StageSet, Ranks
  <2> QED
    BY <2>1, Facts DEF RouteOf
<1>3. RoutedKids = {}
  <2>1. \A i \in 1..Len(routed) : FALSE
    BY <1>1, <1>2 DEF Inv, Before
  <2> QED
    BY <2>1 DEF RoutedKids
<1>4. AsideKids = {}
  BY <1>1 DEF Inv, AsideByName, AsideKids
<1>5. ~ CpusExist
  BY <1>3, <1>4, Facts DEF Inv, Places, CpusExist
<1>6. PropertiesFine
  BY <1>1 DEF SoFar
<1>7. \A k \in DOMAIN kids : Rank(StageOf(k)) \in 1..7
  BY Facts, RanksOfKids
<1>8. \A g \in Faults : 0 < g.at[1] \/ (0 = g.at[1] /\ 4 <= g.at[2])
  BY <1>6, <1>7, FaultsAre DEF PropertiesFine
<1> QED
  BY <1>5, <1>8, FaultsExist, ReportedAt

(* The fault of the child being converted: those that come later, in the   *)
(* order of the conversions, are at fault after it.                        *)
LEMMA KidReported ==
  ASSUME Inv, SoFar, out = "parsing", Step(phase) > 0, NEW k \in 1..Len(kids), Failing(k),
         Rank(StageOf(k)) = Step(phase), out' = ErrorOfKid(k), UNCHANGED <<props, kids>>,
         \A j \in DOMAIN kids : Failing(j) =>
           \/ Step(phase) < Rank(StageOf(j))
           \/ Step(phase) = Rank(StageOf(j)) /\ KeyOfKid(k) <= KeyOfKid(j)
  PROVE  FirstFaultIsReported'
<1>1. PropertiesFine /\ CpusExist
  <2>1. Step(phase) = 1 => StageOf(k) = "cpus"
    BY Facts, StageMeans, Ranks, StageSet
  <2>2. Step(phase) \in Nat
    BY Facts, RanksOfKids
  <2> QED
    BY <2>1, <2>2, Facts, Steps DEF SoFar, CpusExist
<1>2. /\ Rank(StageOf(k)) \in 1..7 /\ KeyOfKid(k) \in Nat
      /\ \A j \in DOMAIN kids : KeyOfKid(j) \in Nat
      /\ IsFault(Rank(StageOf(k)), KeyOfKid(k), ErrorOfKid(k))
  BY Facts, RanksOfKids, FaultsExist
<1>3. \A g \in Faults :
        \/ Rank(StageOf(k)) < g.at[1]
        \/ Rank(StageOf(k)) = g.at[1] /\ KeyOfKid(k) <= g.at[2]
  <2> SUFFICES ASSUME NEW g \in Faults
               PROVE  \/ Rank(StageOf(k)) < g.at[1]
                      \/ Rank(StageOf(k)) = g.at[1] /\ KeyOfKid(k) <= g.at[2]
    OBVIOUS
  <2>1. CASE g.at[1] = 4 /\ g.at[2] = -1 /\ props.chassis = "invalid"
    BY <1>2, <2>1 DEF SoFar
  <2>2. CASE \E j \in DOMAIN kids :
              Failing(j) /\ g.at[1] = Rank(StageOf(j)) /\ g.at[2] = KeyOfKid(j)
    BY <2>2
  <2> QED
    BY <1>1, <2>1, <2>2, FaultsAre DEF PropertiesFine
<1> QED
  BY <1>2, <1>3, ReportedAt

(* What is left, where nothing was wrong so far, comes later.              *)
LEMMA LeftComeLater ==
  ASSUME Inv, SoFar, out = "parsing", NoTwins, Step(phase) \in 1..4,
         NEW j \in DOMAIN kids, Failing(j)
  PROVE  \/ Step(phase) < Rank(StageOf(j))
         \/ Step(phase) = Rank(StageOf(j)) /\ j \in LeftKids
<1>1. j \in 1..Len(kids) /\ StageOf(j) \in ToSet(Stages)
  BY Facts, StageMeans
<1>2. CASE j \in LeftKids /\ ~ Selected(StageOf(j))
  BY <1>1, <1>2, StageSet, Ranks DEF Selected
<1>3. CASE \E s \in AsideNames : aside[s] = j /\ aside[s] # 0 /\ StageOf(j) = s
  BY <1>3, Ranks DEF AsideNames
<1> QED
  BY <1>2, <1>3, FailingAreToCome

LEMMA TookReported ==
  ASSUME Inv, SoFar, NoTwins, NEW k, NEW s, NEW next, Took(k, s, next), out' # "parsing"
  PROVE  FirstFaultIsReported'
<1>1. /\ out = "parsing" /\ phase = s /\ s \in {"cpus", "reserved", "memory", "device"}
      /\ UNCHANGED <<props, kids>> /\ k \in LeftKids /\ k \in 1..Len(kids)
      /\ s \in ToSet(Stages) /\ KidsTyped /\ DOMAIN kids = 1..Len(kids)
      /\ Step(phase) = Rank(s) /\ Rank(s) \in 1..4
  BY Facts, Steps, Ranks, StageSet DEF Took, Follows
<1>2. StageOf(k) = s
  <2>1. CASE s # "device"
    BY <2>1 DEF Took
  <2>2. CASE s = "device"
    <3>1. StageOf(k) \in ToSet(Stages) /\ ~ Taken(k)
      BY <1>1, StageMeans DEF NoTwins, Taken
    <3>2. ~ Selected(StageOf(k))
      BY <1>1, <3>1 DEF Inv, LeftExplained
    <3> QED
      BY <1>1, <2>2, <3>1, <3>2, StageSet, Ranks DEF Selected
  <2> QED
    BY <2>1, <2>2
<1>3. Failing(k) /\ out' = ErrorOfKid(k)
  BY <1>1, <1>2, ConvertOutcome DEF Took, Failing, ErrorOfKid
<1>4. ASSUME NEW j \in DOMAIN kids, Failing(j), ~ (Step(phase) < Rank(StageOf(j)))
      PROVE  Step(phase) = Rank(StageOf(j)) /\ KeyOfKid(k) <= KeyOfKid(j)
  <2>1. Step(phase) = Rank(StageOf(j)) /\ j \in LeftKids
    BY <1>1, <1>4, LeftComeLater
  <2>2. StageOf(j) = s
    <3>1. StageOf(j) \in ToSet(Stages)
      BY <1>1, StageMeans
    <3>2. \A t \in ToSet(Stages) : Rank(t) = Rank(s) => t = s
      BY <1>1, StageSet, Ranks
    <3> QED
      BY <1>1, <2>1, <3>1, <3>2
  <2>3. CASE s \in {"memory", "device"}
    BY <2>1, <2>2, <2>3 DEF Took
  <2>4. CASE s \in {"cpus", "reserved"}
    <3>1. KeyOfKid(j) = KeyOfKid(k)
      BY <1>1, <1>2, <2>2, <2>4, StageMeans
    <3> QED
      BY <1>1, <2>1, <3>1, KidFacts
  <2> QED
    BY <1>1, <2>1, <2>3, <2>4
<1> QED
  BY <1>1, <1>2, <1>3, <1>4, KidReported

LEMMA FollowedReported ==
  ASSUME Inv, SoFar, NoTwins, NEW s, NEW next, Followed(s, next), out' # "parsing"
  PROVE  FirstFaultIsReported'
<1> DEFINE k == aside[s]
<1>1. /\ out = "parsing" /\ phase = s /\ s \in AsideNames /\ k # 0
      /\ Convert(k, s, next) /\ UNCHANGED <<props, kids>>
  BY DEF Followed, At
<1>2. /\ k \in 1..Len(kids) /\ s \in ToSet(Stages) /\ StageOf(k) = s
      /\ KidsTyped /\ DOMAIN kids = 1..Len(kids)
      /\ Step(phase) = Rank(s) /\ Rank(s) \in 5..7
  <2>1. k \in 0..Len(kids) /\ Len(kids) \in Nat
    BY <1>1, Facts DEF Inv, Shape
  <2> QED
    BY <1>1, <2>1, Facts, StageSet, Steps, Ranks DEF Inv, AsideByName, AsideNames
<1> HIDE DEF k
<1>3. Failing(k) /\ out' = ErrorOfKid(k)
  BY <1>1, <1>2, ConvertOutcome DEF Failing, ErrorOfKid
<1>4. LeftKids = {}
  BY <1>2 DEF Inv, LeftEmpty, LeftKids, KidsOf
<1>5. ASSUME NEW j \in DOMAIN kids, Failing(j), ~ (Step(phase) < Rank(StageOf(j)))
      PROVE  Step(phase) = Rank(StageOf(j)) /\ KeyOfKid(k) <= KeyOfKid(j)
  <2>1. PICK t \in AsideNames : aside[t] = j /\ aside[t] # 0 /\ StageOf(j) = t
    BY <1>1, <1>4, <1>5, FailingAreToCome
  <2>2. Step(phase) <= Rank(t) /\ Rank(t) \in 5..7
    BY <2>1, Ranks DEF Inv, AsideByName, AsideNames
  <2>3. t = s
    BY <1>1, <1>2, <1>5, <2>1, <2>2, Ranks DEF AsideNames
  <2>4. j = k
    BY <2>1, <2>3 DEF k
  <2> QED
    BY <1>2, <2>1, <2>3, <2>4, KidFacts
<1> QED
  BY <1>1, <1>2, <1>3, <1>5, KidReported

LEMMA ChassisReported ==
  ASSUME Inv, SoFar, NoTwins, out = "parsing", UNCHANGED <<props, kids>>,
         out' = "Chassis", phase = "memory", props.chassis = "invalid",
         \A k \in LeftKids : StageOf(k) # "memory"
  PROVE  FirstFaultIsReported'
<1>1. Step(phase) = 3 /\ PropertiesFine /\ CpusExist
  BY Steps DEF SoFar
<1>2. \A g \in Faults : 4 < g.at[1] \/ (4 = g.at[1] /\ -1 <= g.at[2])
  <2>1. ASSUME NEW j \in DOMAIN kids, Failing(j)
        PROVE  Rank(StageOf(j)) \in 4..7 /\ KeyOfKid(j) \in Nat
    <3>1. /\ j \in 1..Len(kids) /\ KidsTyped /\ StageOf(j) \in ToSet(Stages)
          /\ Rank(StageOf(j)) \in 1..7 /\ KeyOfKid(j) \in Nat
      BY Facts, StageMeans, RanksOfKids
    <3>2. 3 < Rank(StageOf(j)) \/ (j \in LeftKids /\ 3 = Rank(StageOf(j)))
      BY <1>1, <2>1, LeftComeLater
    <3> QED
      BY <3>1, <3>2, StageSet, Ranks
  <2> QED
    BY <1>1, <2>1, FaultsAre DEF PropertiesFine
<1>3. IsFault(4, -1, "Chassis")
  BY FaultsExist
<1>4. 4 \in Int /\ -1 \in Int
  OBVIOUS
<1> QED
  BY <1>2, <1>3, <1>4, ReportedAt

LEMMA NothingReported ==
  ASSUME Inv, SoFar, NoTwins, Complete
  PROVE  FirstFaultIsReported'
<1>1. /\ out = "parsing" /\ phase = "complete" /\ Step(phase) = 8 /\ out' = "Ok"
      /\ UNCHANGED <<props, kids>>
  BY Steps DEF Complete, At
<1>2. PropertiesFine /\ CpusExist /\ props.chassis # "invalid"
  BY <1>1 DEF SoFar
<1>3. LeftKids = {} /\ \A s \in AsideNames : aside[s] = 0
  BY <1>1, Ranks DEF Inv, LeftEmpty, LeftKids, KidsOf, AsideByName, AsideNames
<1>4. \A k \in DOMAIN kids : ~ Failing(k)
  BY <1>1, <1>3, FailingAreToCome
<1>5. Faults = {}
  <2>1. \A f : f \notin Faults
    BY <1>2, <1>4, FaultsAre DEF PropertiesFine
  <2> QED
    BY <2>1
<1>6. Faults' = Faults
  BY <1>1, KidsStay DEF Faults
<1> QED
  BY <1>1, <1>5, <1>6 DEF FirstFaultIsReported

(* Nothing was wrong so far, and what is wrong is reported: an invariant.  *)
FaultInv == SoFar /\ FirstFaultIsReported

LEMMA ReportedThen ==
  ASSUME FirstFaultIsReported, UNCHANGED <<props, kids, out>>
  PROVE  FirstFaultIsReported'
<1>1. Faults' = Faults
  BY KidsStay DEF Faults
<1>2. \A f : IsFirst(f)' = IsFirst(f)
  BY <1>1 DEF IsFirst
<1> QED
  BY <1>1, <1>2, KidsStay DEF FirstFaultIsReported

(* Only what happens without twins is claimed.                             *)
LEMMA WithTwins == ASSUME ~ NoTwins, kids' = kids PROVE FirstFaultIsReported'
  BY KidsStay DEF NoTwins, FirstFaultIsReported

LEMMA TookFaultInv ==
  ASSUME Inv, SoFar, NEW k, NEW s, NEW next, Took(k, s, next)
  PROVE  FaultInv'
<1>1. /\ out = "parsing" /\ phase = s /\ Follows(s, next) /\ k \in LeftKids
      /\ k \in 1..Len(kids) /\ props' = props /\ kids' = kids /\ Convert(k, s, next)
      /\ s # "device" => StageOf(k) = s
      /\ s \in ToSet(Stages) /\ k \notin RoutedKids
  BY Facts, StageSet DEF Took, Follows, Inv, Places
<1>2. FirstFaultIsReported'
  <2>1. CASE NoTwins /\ out' # "parsing"
    BY <2>1, TookReported
  <2>2. CASE out' = "parsing"
    BY <2>2 DEF FirstFaultIsReported
  <2> QED
    BY <1>1, <2>1, <2>2, WithTwins
<1>3. SoFar'
  <2> SUFFICES ASSUME out' = "parsing" PROVE SoFar'
    BY DEF SoFar
  <2>1. /\ kids[k].ends[s] = "done" /\ phase' = next
        /\ routed' = Append(routed, [kid |-> k, stage |-> s])
    BY <1>1, Facts, ConvertOutcome DEF Errors
  <2>2. /\ Len(routed') = Len(routed) + 1 /\ Len(routed) \in Nat
        /\ \A i \in 1..Len(routed) : routed'[i] = routed[i]
        /\ routed'[Len(routed) + 1] = [kid |-> k, stage |-> s]
    BY <1>1, <2>1, Facts, RoutedStep
  <2>3. \A i \in 1..Len(routed') : kids[routed'[i].kid].ends[routed'[i].stage] = "done"
    <3>1. 1..Len(routed') = (1..Len(routed)) \cup {Len(routed) + 1}
      BY <2>2
    <3> QED
      BY <1>1, <2>1, <2>2, <3>1 DEF SoFar
  <2>4. /\ s # "properties" /\ Step(s) \in 1..4
        /\ Step(s) = 1 => s = "cpus"
        /\ Step(next) > 3 => Step(s) > 3
    BY <1>1, Steps DEF Follows
  <2>5. CpusExist
    <3>1. CASE s = "cpus"
      BY <1>1, <3>1, Facts DEF CpusExist
    <3>2. CASE s # "cpus"
      BY <1>1, <2>4, <3>2 DEF SoFar
    <3> QED
      BY <3>1, <3>2
  <2>6. PropertiesFine /\ (Step(next) > 3 => props.chassis # "invalid")
    BY <1>1, <2>4 DEF SoFar
  <2>7. PropertiesFine' /\ CpusExist'
    BY <1>1, <2>5, <2>6, KidsStay DEF PropertiesFine, CpusExist
  <2> QED
    BY <1>1, <2>1, <2>3, <2>6, <2>7 DEF SoFar
<1> QED
  BY <1>2, <1>3 DEF FaultInv

LEMMA FollowedFaultInv ==
  ASSUME Inv, SoFar, NEW s, NEW next, Followed(s, next)
  PROVE  FaultInv'
<1> DEFINE k == aside[s]
<1>1. /\ out = "parsing" /\ phase = s /\ s \in AsideNames /\ k # 0
      /\ Convert(k, s, next) /\ props' = props /\ kids' = kids
  BY DEF Followed, At
<1>2. /\ k \in 1..Len(kids) /\ s \in ToSet(Stages) /\ k \notin RoutedKids
      /\ Step(s) \in 5..7 /\ s # "properties"
  <2>1. k \in 0..Len(kids) /\ Len(kids) \in Nat
    BY <1>1, Facts DEF Inv, Shape
  <2>2. k \in AsideKids
    BY <1>1 DEF AsideKids
  <2> QED
    BY <1>1, <2>1, <2>2, Steps, StageSet DEF Inv, Places, AsideNames
<1> HIDE DEF k
<1>3. FirstFaultIsReported'
  <2>1. CASE NoTwins /\ out' # "parsing"
    BY <2>1, FollowedReported
  <2>2. CASE out' = "parsing"
    BY <2>2 DEF FirstFaultIsReported
  <2> QED
    BY <1>1, <2>1, <2>2, WithTwins
<1>4. SoFar'
  <2> SUFFICES ASSUME out' = "parsing" PROVE SoFar'
    BY DEF SoFar
  <2>1. kids[k].ends[s] = "done" /\ routed' = Append(routed, [kid |-> k, stage |-> s])
    BY <1>1, <1>2, Facts, ConvertOutcome DEF Errors
  <2>2. /\ Len(routed') = Len(routed) + 1 /\ Len(routed) \in Nat
        /\ \A i \in 1..Len(routed) : routed'[i] = routed[i]
        /\ routed'[Len(routed) + 1] = [kid |-> k, stage |-> s]
    BY <1>1, <1>2, <2>1, Facts, RoutedStep
  <2>3. \A i \in 1..Len(routed') : kids[routed'[i].kid].ends[routed'[i].stage] = "done"
    <3>1. 1..Len(routed') = (1..Len(routed)) \cup {Len(routed) + 1}
      BY <2>2
    <3> QED
      BY <1>1, <2>1, <2>2, <3>1 DEF SoFar
  <2>4. PropertiesFine /\ CpusExist /\ props.chassis # "invalid"
    BY <1>1, <1>2 DEF SoFar
  <2>5. PropertiesFine' /\ CpusExist'
    BY <1>1, <2>4, KidsStay DEF PropertiesFine, CpusExist
  <2> QED
    BY <1>1, <2>3, <2>4, <2>5 DEF SoFar
<1> QED
  BY <1>3, <1>4 DEF FaultInv

(* A step that converts nothing.                                           *)
LEMMA RestedSoFar ==
  ASSUME Inv, SoFar, Rested, out' = "parsing", phase = "properties" => PropertiesFine
  PROVE  FaultInv'
<1>1. /\ UNCHANGED <<props, kids, left, aside, routed>> /\ out = "parsing"
      /\ phase' \in Phases /\ Step(phase') = Step(phase) + 1
      /\ phase \notin {"cpus", "memory"} /\ phase \in Phases
  BY DEF Rested, Errors, Inv, Shape
<1>2. /\ Step(phase) \in 0..8 /\ (Step(phase) = 0 => phase = "properties")
      /\ Step(phase) # 1 /\ Step(phase) # 3
  BY <1>1, Steps, StageSet DEF Phases
<1>3. /\ PropertiesFine
      /\ Step(phase') > 1 => CpusExist
      /\ Step(phase') > 3 => props.chassis # "invalid"
      /\ \A i \in 1..Len(routed) : kids[routed[i].kid].ends[routed[i].stage] = "done"
  BY <1>1, <1>2 DEF SoFar
<1>4. PropertiesFine' /\ (CpusExist => CpusExist')
  BY <1>1, <1>3, KidsStay DEF PropertiesFine, CpusExist
<1>5. SoFar'
  BY <1>1, <1>3, <1>4 DEF SoFar
<1> QED
  BY <1>5 DEF FaultInv, FirstFaultIsReported

LEMMA EndFaultInv ==
  ASSUME out' # "parsing", kids' = kids, NoTwins => FirstFaultIsReported'
  PROVE  FaultInv'
  BY WithTwins DEF FaultInv, SoFar

LEMMA SetAsideFaultInv == ASSUME Inv, SoFar, SetAside PROVE FaultInv'
<1>1. UNCHANGED <<props, kids>> /\ out = "parsing" /\ phase = "memory" /\ Step(phase) = 3
  BY Steps DEF SetAside, At
<1>2. CASE /\ Rested /\ out' = "Chassis" /\ phase = "memory"
           /\ props.chassis = "invalid" /\ \A k \in LeftKids : StageOf(k) # "memory"
  BY <1>1, <1>2, ChassisReported, EndFaultInv
<1>3. CASE /\ out = "parsing" /\ phase = "memory" /\ phase' = "device" /\ out' = out
           /\ UNCHANGED <<props, kids, routed>> /\ props.chassis # "invalid"
  <2>1. PropertiesFine /\ CpusExist
    BY <1>1 DEF SoFar
  <2>2. PropertiesFine' /\ CpusExist'
    BY <1>1, <2>1, KidsStay DEF PropertiesFine, CpusExist
  <2>3. SoFar'
    BY <1>1, <1>3, <2>2 DEF SoFar
  <2> QED
    BY <1>3, <2>3 DEF FaultInv, FirstFaultIsReported
<1> QED
  BY <1>2, <1>3, SetAsideParts

LEMMA NextFaultInv == Inv /\ FaultInv /\ [Next]_vars => FaultInv'
<1> SUFFICES ASSUME Inv, FaultInv, [Next]_vars PROVE FaultInv'
  OBVIOUS
<1>1. SoFar
  BY DEF FaultInv
<1>2. CASE ReadProperties
  <2>1. UNCHANGED <<props, kids>>
    BY <1>2 DEF ReadProperties
  <2>2. CASE out' # "parsing"
    BY <1>2, <2>1, <2>2, PropertyReported, EndFaultInv
  <2>3. CASE out' = "parsing"
    <3>1. Rested /\ FirstError(PropertyChecks) = "none"
      BY <1>2, <2>3, ReadPropertiesStep
    <3>2. PropertiesFine
      BY <3>1, PropertyChecksOutcome DEF PropertiesFine
    <3> QED
      BY <1>1, <2>3, <3>1, <3>2, RestedSoFar
  <2> QED
    BY <2>2, <2>3
<1>3. CASE ReadCpus
  <2>1. UNCHANGED <<props, kids>>
    BY <1>3 DEF ReadCpus
  <2>2. CASE out' = "CpuRoot" /\ \A k \in LeftKids : StageOf(k) # "cpus"
    BY <1>1, <1>3, <2>1, <2>2, CpuRootReported, EndFaultInv
  <2>3. CASE \E k \in LeftKids : Took(k, "cpus", "reserved")
    BY <1>1, <2>3, TookFaultInv
  <2> QED
    BY <1>3, <2>2, <2>3, ReadCpusStep
<1>4. ASSUME Rested, out' = out, phase # "properties"
      PROVE  FaultInv'
  <2>1. out' = "parsing"
    BY <1>4 DEF Rested
  <2> QED
    BY <1>1, <1>4, <2>1, RestedSoFar
<1>5. CASE ReadReserved
  <2>1. phase # "properties"
    BY <1>5 DEF ReadReserved, At
  <2> QED
    BY <1>1, <1>4, <1>5, <2>1, ReadReservedStep, TookFaultInv
<1>6. CASE ReadMemory
  BY <1>1, <1>6, ReadMemoryStep, TookFaultInv
<1>7. CASE ReadDevice
  <2>1. phase # "properties"
    BY <1>7 DEF ReadDevice, At
  <2> QED
    BY <1>1, <1>4, <1>7, <2>1, ReadDeviceStep, TookFaultInv
<1>8. CASE \/ Follow("aliases", "symbols") \/ Follow("symbols", "chosen")
           \/ Follow("chosen", "complete")
  <2>1. phase # "properties"
    BY <1>8 DEF Follow, At
  <2> QED
    BY <1>1, <1>4, <1>8, <2>1, FollowSteps, FollowedFaultInv
<1>9. CASE Complete
  <2>1. out' # "parsing" /\ kids' = kids
    BY <1>9 DEF Complete
  <2> QED
    BY <1>1, <1>9, <2>1, NothingReported, EndFaultInv
<1>10. CASE UNCHANGED vars
  <2>1. FirstFaultIsReported'
    BY <1>10, ReportedThen DEF vars, FaultInv
  <2>2. SoFar'
    BY <1>1, <1>10, KidsStay DEF vars, SoFar, PropertiesFine, CpusExist
  <2> QED
    BY <2>1, <2>2 DEF FaultInv
<1> QED
  BY <1>1, <1>2, <1>3, <1>5, <1>6, <1>7, <1>8, <1>9, <1>10, SetAsideFaultInv DEF Next

(* Of several faults the one reported depends on what they are, never on   *)
(* the order of the blob, and every fault is found.                        *)
THEOREM FirstFaultAlwaysReported == Spec => []FirstFaultIsReported
<1>1. Init => FaultInv
  <2> SUFFICES ASSUME Init PROVE FaultInv
    OBVIOUS
  <2>1. phase = "properties" /\ out = "parsing" /\ Len(routed) = 0
    BY DEF Init
  <2> QED
    BY <2>1, Steps DEF FaultInv, SoFar, FirstFaultIsReported
<1>2. FaultInv => FirstFaultIsReported
  BY DEF FaultInv
<1> QED
  BY <1>1, <1>2, NextFaultInv, SpecInv, PTL DEF Spec
=============================================================================
