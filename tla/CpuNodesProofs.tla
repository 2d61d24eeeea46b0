--------------------------- MODULE CpuNodesProofs ---------------------------
(***************************************************************************)
(* Proofs about CpuNodes, for any `/cpus` node and any number of children  *)
(* with any properties, names and phandles.                                *)
(***************************************************************************)
EXTENDS CpuNodes, CommonLemmas

-----------------------------------------------------------------------------
AnyKid == CacheKids \cup CpuKids

PropNames == {"device_type", "release", "method", "next", "status", "reg", "unified",
              "cache", "icache", "dcache"}

LEMMA KidsAreDifferent ==
  /\ CacheKids \cap CpuKids = {}
  /\ \A kid \in CacheKids : kid \in CacheNodes
  /\ \A kid \in CpuKids : kid.props \in CpuProps /\ kid.address \in Nat \cup {None}
  /\ \A p \in Parents : p.base \in CpuProps
<1>1. CacheNodes \cap CpuNodeSet = {}
  BY DEF CacheNodes, CpuNodeSet
<1>2. \A kid \in CpuNodeSet : kid.props \in CpuProps /\ kid.address \in Nat \cup {None}
  BY DEF CpuNodeSet
<1>3. \A p \in Parents : p.base \in CpuProps
  BY ParentsAssumption
<1> QED
  BY <1>1, <1>2, <1>3, KidsAssumption

(* The properties a CPU is converted with.                                 *)
LEMMA InheritedProperties ==
  ASSUME NEW q \in CpuProps, NEW base \in CpuProps, parent.base = base
  PROVE  /\ \A p \in PropNames : /\ Inherit(q)[p] \in {q[p], base[p]}
                                 /\ Inherit(q)[p] = IF q[p] # None THEN q[p] ELSE base[p]
         /\ Inherit(q).method \in Optional({"spin-table", "vendor"})
         /\ Inherit(q).next \in Optional(Nat)
         /\ Inherit(q).status \in Optional({"okay", "disabled", "fail"})
         /\ Inherit(q).reg \in Optional(Nat)
         /\ Inherit(q).unified \in {"present", None}
<1>1. DOMAIN q = PropNames
  BY DEF CpuProps, PropNames
<1>2. \A p \in PropNames : Inherit(q)[p] = IF q[p] = None THEN base[p] ELSE q[p]
  BY <1>1 DEF Inherit
<1>3. \A r \in {q, base} : /\ r.method \in Optional({"spin-table", "vendor"})
                           /\ r.next \in Optional(Nat)
                           /\ r.status \in Optional({"okay", "disabled", "fail"})
                           /\ r.reg \in Optional(Nat)
                           /\ r.unified \in {"present", None}
  BY DEF CpuProps
<1>4. /\ Inherit(q).method \in {q.method, base.method}
      /\ Inherit(q).next \in {q.next, base.next}
      /\ Inherit(q).status \in {q.status, base.status}
      /\ Inherit(q).reg \in {q.reg, base.reg}
      /\ Inherit(q).unified \in {q.unified, base.unified}
  BY <1>2 DEF PropNames
<1> QED
  BY <1>2, <1>3, <1>4

(* What a CPU must be for its checks to succeed.                           *)
CpuIsFine(address, p) ==
  /\ p.device_type = "cpu" /\ p.method # Invalid
  /\ p.method = "spin-table" => p.release = "address"
  /\ p.status = "disabled" => p.method # None
  /\ p.status # Invalid /\ (p.next = None \/ CachesAt(p.next) # {})
  /\ p.reg # None /\ parent.cells[1] = 1 /\ p.reg # Invalid
  /\ (address = None \/ address = p.reg)

CpuErrors == {"DeviceType", "EnableMethod", "ReleaseAddr", "Status", "NextLevelCache", "Reg",
              "RegMismatch", "panic"}

LEMMA CpuChecksOutcome ==
  ASSUME NEW address, NEW p
  PROVE  \/ FirstError(CpuChecks(address, p)) = "none" /\ CpuIsFine(address, p)
         \/ FirstError(CpuChecks(address, p)) \in CpuErrors /\ ~ CpuIsFine(address, p)
<1> DEFINE S == [error : CpuErrors, ok : BOOLEAN]
           a == <<Check("DeviceType", p.device_type = "cpu")>>
           b == MethodChecks(p)
           c == <<Check("EnableMethod", p.status = "disabled" => p.method # None),
                  Check("Status", p.status # Invalid),
                  Check("NextLevelCache", p.next = None \/ CachesAt(p.next) # {}),
                  Check("Reg", p.reg # None),
                  Check("panic", parent.cells[1] = 1),
                  Check("Reg", p.reg # Invalid),
                  Check("RegMismatch", address = None \/ address = p.reg)>>
           checks == CpuChecks(address, p)
<1>1. a \in Seq(S) /\ Len(a) = 1 /\ (a[1].ok <=> p.device_type = "cpu")
  <2>1. a \in Seq(S)
    BY DEF Check, CpuErrors
  <2>2. Len(a) = 1 /\ a[1] = Check("DeviceType", p.device_type = "cpu")
    OBVIOUS
  <2> HIDE DEF a
  <2> QED
    BY <2>1, <2>2 DEF Check
<1>2. /\ b \in Seq(S) /\ Len(b) = 2
      /\ b[1].ok <=> p.method # Invalid
      /\ b[2].ok <=> (p.method = "spin-table" => p.release = "address")
  <2>1. b \in Seq(S)
    BY DEF MethodChecks, Check, CpuErrors
  <2>2. /\ Len(b) = 2 /\ b[1] = Check("EnableMethod", p.method # Invalid)
        /\ b[2] = Check("ReleaseAddr", p.method = "spin-table" => p.release = "address")
    BY DEF MethodChecks
  <2> HIDE DEF b
  <2> QED
    BY <2>1, <2>2 DEF Check
<1>3. c \in Seq(S) /\ Len(c) = 7
  BY DEF Check, CpuErrors
<1>4. /\ c[1].ok <=> (p.status = "disabled" => p.method # None)
      /\ c[2].ok <=> p.status # Invalid
      /\ c[3].ok <=> (p.next = None \/ CachesAt(p.next) # {})
      /\ c[4].ok <=> p.reg # None
      /\ c[5].ok <=> parent.cells[1] = 1
      /\ c[6].ok <=> p.reg # Invalid
      /\ c[7].ok <=> (address = None \/ address = p.reg)
  BY DEF Check
<1> DEFINE ab == a \o b
<1>5. checks = ab \o c
  BY DEF CpuChecks
<1> HIDE DEF S, a, b, c, checks
<1>6. ab \in Seq(S) /\ Len(ab) = 3 /\ ab[1] = a[1] /\ ab[2] = b[1] /\ ab[3] = b[2]
  BY <1>1, <1>2, ConcatProperties
<1> HIDE DEF ab
<1>7. /\ checks \in Seq(S) /\ Len(checks) = 10
      /\ checks[1] = ab[1] /\ checks[2] = ab[2] /\ checks[3] = ab[3]
      /\ checks[4] = c[1] /\ checks[5] = c[2] /\ checks[6] = c[3] /\ checks[7] = c[4]
      /\ checks[8] = c[5] /\ checks[9] = c[6] /\ checks[10] = c[7]
  <2>1. /\ checks \in Seq(S) /\ Len(checks) = 10
        /\ \A i \in 1..10 : checks[i] = IF i <= 3 THEN ab[i] ELSE c[i - 3]
    <3>1. /\ checks \in Seq(S) /\ Len(checks) = Len(ab) + Len(c)
          /\ \A i \in 1..Len(ab) + Len(c) :
               checks[i] = IF i <= Len(ab) THEN ab[i] ELSE c[i - Len(ab)]
      BY <1>3, <1>5, <1>6, ConcatProperties, Zenon
    <3>2. Len(ab) = 3 /\ Len(c) = 7 /\ Len(ab) + Len(c) = 10
      BY <1>3, <1>6
    <3> QED
      BY <3>1, <3>2
  <2>2. checks[1] = ab[1] /\ checks[2] = ab[2] /\ checks[3] = ab[3]
    BY <2>1
  <2>3. checks[4] = c[1] /\ checks[5] = c[2] /\ checks[6] = c[3] /\ checks[7] = c[4]
    BY <2>1
  <2>4. checks[8] = c[5] /\ checks[9] = c[6] /\ checks[10] = c[7]
    BY <2>1
  <2> QED
    BY <2>1, <2>2, <2>3, <2>4
<1>8. /\ checks[1].ok <=> a[1].ok
      /\ checks[2].ok <=> b[1].ok
      /\ checks[3].ok <=> b[2].ok
      /\ checks[4].ok <=> c[1].ok
      /\ checks[5].ok <=> c[2].ok
      /\ checks[6].ok <=> c[3].ok
      /\ checks[7].ok <=> c[4].ok
      /\ checks[8].ok <=> c[5].ok
      /\ checks[9].ok <=> c[6].ok
      /\ checks[10].ok <=> c[7].ok
  BY <1>6, <1>7
<1>9. (\A i \in 1..10 : checks[i].ok) <=> CpuIsFine(address, p)
  <2>1. 1..10 = {1, 2, 3, 4, 5, 6, 7, 8, 9, 10}
    OBVIOUS
  <2> QED
    BY <1>1, <1>2, <1>4, <1>8, <2>1 DEF CpuIsFine
<1>10. \A i \in 1..10 : checks[i] \in S
  BY <1>7, ElementOfSeq
<1>11. \/ (\A i \in 1..10 : checks[i].ok) /\ FirstError(checks) = "none"
       \/ \E i \in 1..10 : ~ checks[i].ok /\ FirstError(checks) = checks[i].error
  BY <1>7, FirstErrorProperties DEF IsFirstFailure
<1> QED
  BY <1>9, <1>10, <1>11 DEF S, checks

(* What a cache must be.                                                   *)
CacheIsFine(kid) ==
  /\ kid.compatible = "cache" /\ kid.below = "done"
  /\ {kid.phandle, kid.level} \cap {None, Invalid} = {}

CacheErrors == {"BadType", "PHandle", "Level", "Cells", "Child", "panic"}

LEMMA CacheChecksOutcome ==
  ASSUME NEW kid \in CacheNodes
  PROVE  \/ FirstError(CacheChecks(kid)) = "none" /\ CacheIsFine(kid)
         \/ FirstError(CacheChecks(kid)) \in CacheErrors /\ ~ CacheIsFine(kid)
<1> DEFINE S == [error : CacheErrors \cup {"done"}, ok : BOOLEAN]
           checks == CacheChecks(kid)
<1>1. kid.below \in {"done", "Cells", "Child", "panic"}
  BY DEF CacheNodes
<1>2. checks \in Seq(S) /\ Len(checks) = 4
  BY <1>1 DEF CacheChecks, Check, CacheErrors
<1>3. /\ checks[1].error = "BadType" /\ checks[2].error = "PHandle"
      /\ checks[3].error = "Level" /\ checks[4].error = kid.below
      /\ checks[1].ok <=> kid.compatible = "cache"
      /\ checks[2].ok <=> kid.phandle \notin {None, Invalid}
      /\ checks[3].ok <=> kid.level \notin {None, Invalid}
      /\ checks[4].ok <=> kid.below = "done"
  BY DEF CacheChecks, Check
<1> HIDE DEF S, checks
<1>4. 1..4 = {1, 2, 3, 4}
  OBVIOUS
<1>5. (\A i \in 1..4 : checks[i].ok) <=> CacheIsFine(kid)
  BY <1>3, <1>4 DEF CacheIsFine
<1>6. \A i \in 1..4 : ~ checks[i].ok => checks[i].error \in CacheErrors
  BY <1>1, <1>3, <1>4 DEF CacheErrors
<1>7. \/ (\A i \in 1..4 : checks[i].ok) /\ FirstError(checks) = "none"
      \/ \E i \in 1..4 : ~ checks[i].ok /\ FirstError(checks) = checks[i].error
  BY <1>2, FirstErrorProperties DEF IsFirstFailure
<1> QED
  BY <1>5, <1>6, <1>7 DEF checks
-----------------------------------------------------------------------------
(* The inductive invariant.                                                *)
ItemOf(n)   == [key : Nat, val : 1..n]
ValsOf(map) == {map[i].val : i \in 1..Len(map)}
Fine        == {"parsing", "Ok", "BootCpu"}

(* The children read without an error.                                     *)
Accepted == IF out \in Fine THEN 1..Len(kids) ELSE 1..Len(kids) - 1

(* The key of a child: that of a CPU may be the one of `/cpus`.            *)
KeyIn(base, kid) ==
  IF kid \in CacheKids THEN kid.phandle
  ELSE IF kid.props.reg # None THEN kid.props.reg ELSE base.reg

Keyed(map) ==
  /\ map \in Seq(ItemOf(Len(kids)))
  /\ \A i \in 1..Len(map) : map[i].key = KeyIn(parent.base, kids[map[i].val])
  /\ \A i, j \in 1..Len(map) : map[i].val = map[j].val => i = j

Shape ==
  /\ parent \in Parents /\ phase \in {"cells", "caches", "cpus", "boot", "done"}
  /\ kids \in Seq(AnyKid)
  /\ Keyed(list) /\ Keyed(caches) /\ Keyed(cpus)
  /\ IsSortedByKey(caches) /\ IsSortedByKey(cpus)
  /\ boot \in 0..Len(cpus) /\ out \in Errors \cup {"parsing", "Ok"}

(* Which children are where.                                               *)
Contents ==
  /\ ValsOf(caches) = IF phase \in {"cells", "caches"} THEN {} ELSE CachesOf
  /\ ValsOf(cpus) = IF phase \in {"boot", "done"} THEN CpusOf ELSE {}
  /\ ValsOf(list) = IF phase = "caches" THEN CachesOf \cap Accepted
                    ELSE IF phase = "cpus" THEN CpusOf \cap Accepted ELSE {}
  /\ phase = "cells" => Len(kids) = 0 /\ out \in {"parsing", "RootReg"}
  /\ phase = "caches" => CpusOf = {}
  /\ phase = "cpus" => \A k \in CachesOf : k \in Accepted
  /\ phase = "boot" => out \in {"parsing", "BootCpu"}
  /\ phase = "done" => out = "Ok"
  /\ phase \in {"caches", "cpus"} => out \notin {"Ok", "BootCpu", "RootReg"}

(* What the CPUs read so far refer to.                                     *)
Links ==
  /\ linked \in [DOMAIN linked -> ValsOf(caches)]
  /\ DOMAIN linked = {k \in CpusOf \cap Accepted : Property(k, "next") # None}
  /\ \A k \in DOMAIN linked : kids[linked[k]].phandle = Property(k, "next")

(* What is known of their first-level caches.                              *)
Firsts ==
  /\ DOMAIN l1 = CpusOf \cap Accepted
  /\ \A k \in DOMAIN l1 :
       l1[k] = IF Property(k, "unified") = "present" THEN <<DeclaredFigure(k, "cache")>>
               ELSE <<DeclaredFigure(k, "icache"), DeclaredFigure(k, "dcache")>>

IsSound(k) ==
  IF kids[k] \in CacheKids THEN IsSoundCache(k)
  ELSE IsSoundCpu(k) /\ parent.cells[1] = 1

(* Nothing is wrong with what was accepted, and something is with what was *)
(* refused.                                                                *)
Verdict ==
  /\ phase # "cells" => CellsAreSound
  /\ out = "RootReg" => ~ CellsAreSound
  /\ \A k \in Accepted : IsSound(k)
  /\ out \notin Fine \cup {"RootReg"} => Len(kids) > 0 /\ ~ IsSound(Len(kids))

Inv == Shape /\ Contents /\ Links /\ Firsts /\ Verdict

LEMMA KeyedFacts ==
  ASSUME NEW map, Keyed(map)
  PROVE  /\ Len(map) \in Nat /\ ValsOf(map) \subseteq 1..Len(kids)
         /\ \A i \in 1..Len(map) : map[i] \in ItemOf(Len(kids)) /\ map[i].val \in ValsOf(map)
<1>1. map \in Seq(ItemOf(Len(kids))) /\ Len(map) \in Nat
  BY LenProperties DEF Keyed
<1>2. \A i \in 1..Len(map) : map[i] \in ItemOf(Len(kids))
  BY <1>1, ElementOfSeq
<1> QED
  BY <1>1, <1>2 DEF ValsOf, ItemOf

LEMMA Facts ==
  ASSUME Shape
  PROVE  /\ Len(kids) \in Nat /\ parent.base \in CpuProps
         /\ \A k \in 1..Len(kids) : kids[k] \in AnyKid
         /\ CpusOf \cup CachesOf = 1..Len(kids) /\ CpusOf \cap CachesOf = {}
         /\ \A k \in 1..Len(kids) : k \in CachesOf <=> kids[k] \in CacheKids
         /\ \A k \in CpusOf : kids[k].props \in CpuProps /\ kids[k].address \in Nat \cup {None}
<1>1. Len(kids) \in Nat /\ \A k \in 1..Len(kids) : kids[k] \in AnyKid
  BY LenProperties, ElementOfSeq DEF Shape
<1>2. parent.base \in CpuProps
  BY KidsAreDifferent DEF Shape
<1> QED
  BY <1>1, <1>2, KidsAreDifferent DEF CpusOf, CachesOf, AnyKid

(* A child more: nothing changes for the others.                           *)
LEMMA Grown ==
  ASSUME Shape, NEW kid \in AnyKid, kids' = Append(kids, kid), parent' = parent,
         NEW n, n = Len(kids) + 1
  PROVE  /\ n \in Nat /\ Len(kids') = n /\ kids' \in Seq(AnyKid)
         /\ 1..n = (1..Len(kids)) \cup {n} /\ 1..n - 1 = 1..Len(kids) /\ n \notin 1..Len(kids)
         /\ kids'[n] = kid /\ \A k \in 1..Len(kids) : kids'[k] = kids[k]
         /\ \A p : \A k \in 1..Len(kids) : Property(k, p)' = Property(k, p)
         /\ CpusOf' = IF kid \in CpuKids THEN CpusOf \cup {n} ELSE CpusOf
         /\ CachesOf' = IF kid \in CpuKids THEN CachesOf ELSE CachesOf \cup {n}
<1>1. Len(kids) \in Nat
  BY Facts
<1>2. /\ kids' \in Seq(AnyKid) /\ Len(kids') = n /\ kids'[n] = kid
      /\ \A k \in 1..Len(kids) : kids'[k] = kids[k]
  <2> HIDE DEF AnyKid
  <2> QED
    BY AppendProperties DEF Shape
<1>3. 1..n = (1..Len(kids)) \cup {n} /\ 1..n - 1 = 1..Len(kids) /\ n \in Nat
  BY <1>1
<1>4. \A p : \A k \in 1..Len(kids) : Property(k, p)' = Property(k, p)
  BY <1>2 DEF Property
<1>5. CpusOf' = IF kid \in CpuKids THEN CpusOf \cup {n} ELSE CpusOf
  BY <1>1, <1>2, <1>3 DEF CpusOf
<1>6. CachesOf' = IF kid \in CpuKids THEN CachesOf ELSE CachesOf \cup {n}
  <2>1. kid \in CacheKids <=> kid \notin CpuKids
    BY KidsAreDifferent DEF AnyKid
  <2> QED
    BY <1>1, <1>2, <1>3, <2>1 DEF CachesOf
<1> QED
  BY <1>1, <1>2, <1>3, <1>4, <1>5, <1>6

LEMMA KeyedStays ==
  ASSUME Shape, NEW kid \in AnyKid, kids' = Append(kids, kid), parent' = parent,
         NEW map, Keyed(map), NEW n, n = Len(kids) + 1
  PROVE  /\ map \in Seq(ItemOf(n))
         /\ \A i \in 1..Len(map) : map[i].key = KeyIn(parent.base, kids'[map[i].val])
<1>1. ItemOf(Len(kids)) \subseteq ItemOf(n)
  BY Grown DEF ItemOf
<1>2. map \in Seq(ItemOf(Len(kids)))
  BY DEF Keyed
<1>3. map \in Seq(ItemOf(n))
  <2> DEFINE A == ItemOf(Len(kids))
             B == ItemOf(n)
  <2>1. A \subseteq B /\ map \in Seq(A)
    BY <1>1, <1>2
  <2> HIDE DEF A, B
  <2>2. Len(map) \in Nat /\ \A i \in 1..Len(map) : map[i] \in B
    BY <2>1, ElementOfSeq, LenProperties
  <2>3. map \in Seq(B)
    BY <2>1
  <2> QED
    BY <2>3 DEF B
<1>4. \A i \in 1..Len(map) : map[i].val \in 1..Len(kids)
  BY KeyedFacts DEF ItemOf
<1> QED
  BY <1>3, <1>4, Grown DEF Keyed
-----------------------------------------------------------------------------
(* A child that is accepted is appended to the list, under its key.        *)
LEMMA KeyedAppend ==
  ASSUME Shape, NEW kid \in AnyKid, kids' = Append(kids, kid), parent' = parent,
         NEW n, n = Len(kids) + 1, KeyIn(parent.base, kid) \in Nat,
         list' = Append(list, Entry(KeyIn(parent.base, kid), n))
  PROVE  Keyed(list)' /\ ValsOf(list)' = ValsOf(list) \cup {n}
<1> DEFINE S == ItemOf(n)
           key == KeyIn(parent.base, kid)
           e == Entry(key, n)
           m == Len(list)
           more == Append(list, e)
<1>1. /\ list \in Seq(S) /\ Keyed(list)
      /\ \A i \in 1..Len(list) : list[i].key = KeyIn(parent.base, kids'[list[i].val])
  BY KeyedStays DEF Shape
<1>2. n \in Nat /\ n \in 1..n /\ kids'[n] = kid /\ n \notin 1..Len(kids) /\ Len(kids') = n
  <2>1. n \in Nat /\ kids'[n] = kid /\ n \notin 1..Len(kids) /\ Len(kids') = n
    BY Grown
  <2> QED
    BY <2>1, Facts
<1>3. e \in S /\ e.key = key /\ e.val = n
  BY <1>2 DEF ItemOf, Entry
<1> HIDE DEF S, e
<1>4. /\ more \in Seq(S) /\ Len(more) = m + 1 /\ m \in Nat
      /\ \A i \in 1..m : more[i] = list[i]
      /\ more[m + 1] = e
  BY <1>1, <1>3, AppendProperties, LenProperties
<1>5. list' = more
  BY DEF e
<1> HIDE DEF more
<1>6. 1..Len(more) = (1..m) \cup {m + 1}
  BY <1>4
<1>7. \A i \in 1..m : list[i].val # n
  BY <1>1, <1>2, KeyedFacts DEF ItemOf
<1>8. \A i \in 1..Len(more) : more[i].key = KeyIn(parent.base, kids'[more[i].val])
  BY <1>1, <1>2, <1>3, <1>4, <1>6
<1>9. \A i, j \in 1..Len(more) : more[i].val = more[j].val => i = j
  <2>1. \A i, j \in 1..m : list[i].val = list[j].val => i = j
    BY <1>1 DEF Keyed
  <2> QED
    BY <1>3, <1>4, <1>6, <1>7, <2>1
<1>10. {more[i].val : i \in 1..Len(more)} = ValsOf(list) \cup {n}
  BY <1>3, <1>4, <1>6 DEF ValsOf
<1>11. ValsOf(list)' = ValsOf(list) \cup {n}
  BY <1>5, <1>10 DEF ValsOf
<1>12. Keyed(list)'
  BY <1>2, <1>4, <1>5, <1>8, <1>9 DEF Keyed, S
<1> QED
  BY <1>11, <1>12

(* Collected into a map, the list is sorted and loses nothing.             *)
LEMMA SortedOfKeyed ==
  ASSUME Shape, NEW p \in SortedPermutations(list)
  PROVE  Keyed(p) /\ IsSortedByKey(p) /\ ValsOf(p) = ValsOf(list)
<1> DEFINE S == ItemOf(Len(kids))
           n == Len(list)
<1>1. list \in Seq(S) /\ Keyed(list) /\ n \in Nat
  BY KeyedFacts DEF Shape, Keyed
<1>2. p \in Seq(S) /\ Len(p) = n /\ IsSortedByKey(p)
  <2> HIDE DEF S
  <2> QED
    BY <1>1, SortedPermutationProperties
<1>3. PICK f \in Bijection(1..n, 1..n) : p = [i \in 1..n |-> list[f[i]]]
  BY DEF SortedPermutations
<1>4. /\ f \in [1..n -> 1..n] /\ \A i, j \in 1..n : f[i] = f[j] => i = j
      /\ \A k \in 1..n : \E i \in 1..n : f[i] = k
  BY <1>3 DEF Bijection, Injection, Surjection, IsInjective
<1>5. \A i \in 1..n : f[i] \in 1..n /\ p[i] = list[f[i]]
  BY <1>3, <1>4
<1>6. Keyed(p)
  <2>1. \A i \in 1..n : p[i].key = KeyIn(parent.base, kids[p[i].val])
    BY <1>1, <1>5 DEF Keyed
  <2>2. \A i, j \in 1..n : list[i].val = list[j].val => i = j
    BY <1>1 DEF Keyed
  <2>3. ASSUME NEW i \in 1..n, NEW j \in 1..n, p[i].val = p[j].val PROVE i = j
    <3>1. f[i] = f[j]
      BY <1>5, <2>2, <2>3
    <3> QED
      BY <1>4, <3>1
  <2> QED
    BY <1>2, <2>1, <2>3 DEF Keyed
<1>7. ValsOf(p) = ValsOf(list)
  <2>1. ValsOf(p) = {p[i].val : i \in 1..n} /\ ValsOf(list) = {list[i].val : i \in 1..n}
    BY <1>2 DEF ValsOf
  <2>2. ASSUME NEW k \in 1..n PROVE \E i \in 1..n : p[i].val = list[k].val
    <3>1. PICK i \in 1..n : f[i] = k
      BY <1>4
    <3> QED
      BY <1>5, <3>1
  <2>3. \A i \in 1..n : \E k \in 1..n : p[i].val = list[k].val
    BY <1>5
  <2> QED
    BY <2>1, <2>2, <2>3
<1> QED
  BY <1>2, <1>6, <1>7

(* What reading a child does to the lists and the maps.                    *)
LEMMA ReadKidKeeps ==
  ASSUME Inv, phase \in {"caches", "cpus"}, NEW kid \in AnyKid,
         kid \in CacheKids <=> phase = "caches",
         NEW key, NEW checks, ReadKid(kid, key, checks),
         FirstError(checks) \in {"none"} \cup CacheErrors \cup CpuErrors,
         FirstError(checks) = "none" => key \in Nat /\ key = KeyIn(parent.base, kid),
         NEW n, n = Len(kids) + 1
  PROVE  /\ kids' = Append(kids, kid) /\ UNCHANGED <<parent, phase, caches, cpus, boot>>
         /\ Shape' /\ Contents'
         /\ out = "parsing" /\ Accepted = 1..Len(kids)
         /\ \/ FirstError(checks) = "none" /\ out' = "parsing" /\ Accepted' = 1..n
            \/ /\ FirstError(checks) # "none" /\ out' \notin Fine \cup {"RootReg"}
               /\ Accepted' = 1..Len(kids)
<1>1. /\ kids' = Append(kids, kid) /\ out = "parsing"
      /\ parent' = parent /\ phase' = phase /\ caches' = caches /\ cpus' = cpus /\ boot' = boot
  BY DEF ReadKid
<1>2. Shape /\ Contents
  BY DEF Inv
<1>3. /\ n \in Nat /\ Len(kids') = n /\ kids' \in Seq(AnyKid)
      /\ 1..n = (1..Len(kids)) \cup {n} /\ 1..n - 1 = 1..Len(kids)
      /\ n \notin 1..Len(kids)
      /\ CpusOf' = IF kid \in CpuKids THEN CpusOf \cup {n} ELSE CpusOf
      /\ CachesOf' = IF kid \in CpuKids THEN CachesOf ELSE CachesOf \cup {n}
      /\ CpusOf \cup CachesOf = 1..Len(kids)
  BY <1>1, <1>2, Grown, Facts
<1>4. kid \in CpuKids <=> phase = "cpus"
  BY KidsAreDifferent DEF AnyKid
<1>5. \/ /\ FirstError(checks) = "none" /\ out' = "parsing"
         /\ list' = Append(list, Entry(key, n))
      \/ /\ FirstError(checks) # "none" /\ out' = FirstError(checks) /\ list' = list
  BY <1>1, <1>3 DEF ReadKid
<1>6. out' \in Errors \cup {"parsing"} /\ out' \notin {"Ok", "BootCpu", "RootReg"}
  BY <1>5 DEF CacheErrors, CpuErrors, Errors
<1>7. Accepted = 1..Len(kids)
  BY <1>1 DEF Accepted, Fine
<1>8. Accepted' = IF out' = "parsing" THEN 1..n ELSE 1..Len(kids)
  BY <1>3, <1>6 DEF Accepted, Fine
<1>9. Keyed(list)' /\ ValsOf(list)' = ValsOf(list) \cup (IF out' = "parsing" THEN {n} ELSE {})
  <2>1. CASE FirstError(checks) = "none"
    <3>1. /\ KeyIn(parent.base, kid) \in Nat
          /\ list' = Append(list, Entry(KeyIn(parent.base, kid), n))
      BY <1>5, <2>1
    <3>2. Keyed(list)' /\ ValsOf(list)' = ValsOf(list) \cup {n}
      BY <1>1, <1>2, <3>1, KeyedAppend
    <3> QED
      BY <1>5, <2>1, <3>2
  <2>2. CASE FirstError(checks) # "none"
    <3>1. /\ list \in Seq(ItemOf(n)) /\ Keyed(list)
          /\ \A i \in 1..Len(list) : list[i].key = KeyIn(parent.base, kids'[list[i].val])
      BY <1>1, <1>2, KeyedStays DEF Shape
    <3>2. out' # "parsing" /\ list' = list
      BY <1>5, <2>2 DEF CacheErrors, CpuErrors
    <3>3. Keyed(list)'
      BY <1>1, <1>3, <3>1, <3>2 DEF Keyed
    <3>4. ValsOf(list)' = ValsOf(list)
      BY <3>2 DEF ValsOf
    <3> QED
      BY <3>2, <3>3, <3>4
  <2> QED
    BY <2>1, <2>2
<1>10. Keyed(caches)' /\ Keyed(cpus)'
  <2>1. ASSUME NEW map, Keyed(map)
        PROVE  /\ map \in Seq(ItemOf(n))
               /\ \A i \in 1..Len(map) : map[i].key = KeyIn(parent.base, kids'[map[i].val])
               /\ \A i, j \in 1..Len(map) : map[i].val = map[j].val => i = j
    BY <1>1, <1>2, <2>1, KeyedStays DEF Keyed
  <2>2. Keyed(caches) /\ Keyed(cpus)
    BY <1>2 DEF Shape
  <2> QED
    BY <1>1, <1>3, <2>1, <2>2 DEF Keyed
<1>11. Shape'
  BY <1>1, <1>2, <1>3, <1>6, <1>9, <1>10 DEF Shape
<1>12. ValsOf(caches)' = ValsOf(caches) /\ ValsOf(cpus)' = ValsOf(cpus)
  BY <1>1 DEF ValsOf
<1>13. Contents'
  BY <1>1, <1>2, <1>3, <1>4, <1>6, <1>7, <1>8, <1>9, <1>12 DEF Contents
<1> QED
  BY <1>1, <1>5, <1>6, <1>7, <1>8, <1>11, <1>13 DEF Fine, CacheErrors, CpuErrors
-----------------------------------------------------------------------------
(* A child that is read is sound when its checks succeed.                  *)
LEMMA CpuIsSoundIfFine ==
  ASSUME Inv, phase = "cpus", NEW kid \in CpuKids, kids' = Append(kids, kid),
         parent' = parent, NEW n, n = Len(kids) + 1
  PROVE  /\ \A p \in PropNames : Property(n, p)' = Inherit(kid.props)[p]
         /\ IsSound(n)' <=> CpuIsFine(kid.address, Inherit(kid.props))
         /\ \A x : \A i \in CachesAt(x) : /\ caches[i].val \in CachesOf
                                        /\ kids[caches[i].val].phandle = x
<1> DEFINE q == Inherit(kid.props)
<1>1. Shape /\ Contents
  BY DEF Inv
<1>2. /\ kid \in AnyKid /\ kid \notin CacheKids /\ kid.props \in CpuProps
      /\ kid.address \in Nat \cup {None} /\ parent.base \in CpuProps
  BY <1>1, KidsAreDifferent DEF AnyKid, Shape
<1>3. /\ kids'[n] = kid /\ CachesOf' = CachesOf
      /\ \A k \in 1..Len(kids) : kids'[k] = kids[k]
  BY <1>1, <1>2, Grown
<1>4. /\ \A p \in PropNames : q[p] = IF kid.props[p] # None THEN kid.props[p]
                                  ELSE parent.base[p]
      /\ q.method \in Optional({"spin-table", "vendor"}) /\ q.reg \in Optional(Nat)
  BY <1>2, InheritedProperties
<1>5. \A p \in PropNames : Property(n, p)' = q[p]
  BY <1>3, <1>4 DEF Property
<1>6. /\ Property(n, "device_type")' = q.device_type /\ Property(n, "method")' = q.method
      /\ Property(n, "release")' = q.release /\ Property(n, "status")' = q.status
      /\ Property(n, "reg")' = q.reg /\ Property(n, "next")' = q.next
  BY <1>5 DEF PropNames
<1>7. Keyed(caches) /\ ValsOf(caches) = CachesOf
  BY <1>1 DEF Shape, Contents
<1>8. \A i \in 1..Len(caches) : /\ caches[i].val \in CachesOf
                               /\ kids[caches[i].val].phandle = caches[i].key
  <2>1. \A i \in 1..Len(caches) : caches[i].val \in CachesOf
    BY <1>7 DEF ValsOf
  <2>2. \A k \in CachesOf : kids[k] \in CacheKids
    BY DEF CachesOf
  <2> QED
    BY <1>7, <2>1, <2>2 DEF Keyed, KeyIn
<1>9. \A x : \A i \in CachesAt(x) : /\ caches[i].val \in CachesOf
                                  /\ kids[caches[i].val].phandle = x
  BY <1>8 DEF CachesAt, Matches
<1>10. ASSUME NEW x PROVE CachesAt(x) # {} <=> x \in {kids[c].phandle : c \in CachesOf}
  <2>1. \A c \in CachesOf : \E i \in 1..Len(caches) : caches[i].val = c
    BY <1>7 DEF ValsOf
  <2>2. ASSUME NEW c \in CachesOf, kids[c].phandle = x PROVE CachesAt(x) # {}
    <3>1. PICK i \in 1..Len(caches) : caches[i].val = c
      BY <2>1
    <3>2. caches[i].key = x
      BY <1>8, <2>2, <3>1
    <3> QED
      BY <3>2 DEF CachesAt, Matches
  <2> QED
    BY <1>9, <2>2
<1>11. {kids'[c].phandle : c \in CachesOf'} = {kids[c].phandle : c \in CachesOf}
  BY <1>3 DEF CachesOf
<1>12. /\ q.reg \in Nat <=> q.reg # None /\ q.reg # Invalid
       /\ kid.address \in {None, q.reg} <=> (kid.address = None \/ kid.address = q.reg)
  BY <1>4, NoneAssumption DEF Optional
<1>13. /\ \/ q.method = "vendor"
          \/ q.method = "spin-table" /\ q.release = "address"
          \/ q.method = None /\ q.status # "disabled"
       <=> /\ q.method # Invalid /\ (q.method = "spin-table" => q.release = "address")
           /\ q.status = "disabled" => q.method # None
  BY <1>4, NoneAssumption DEF Optional, Words
<1>14. q.next \in {None} \cup {kids'[c].phandle : c \in CachesOf'}
       <=> q.next = None \/ CachesAt(q.next) # {}
  BY <1>10, <1>11
<1>15. IsSound(n)' <=> IsSoundCpu(n)' /\ parent.cells[1] = 1
  BY <1>2, <1>3 DEF IsSound
<1>16. IsSoundCpu(n)' <=>
         /\ q.device_type = "cpu"
         /\ \/ q.method = "vendor"
            \/ q.method = "spin-table" /\ q.release = "address"
            \/ q.method = None /\ q.status # "disabled"
         /\ q.status # Invalid
         /\ q.reg \in Nat /\ kid.address \in {None, q.reg}
         /\ q.next \in {None} \cup {kids'[c].phandle : c \in CachesOf'}
  BY <1>3, <1>6 DEF IsSoundCpu
<1>17. IsSound(n)' <=> CpuIsFine(kid.address, q)
  BY <1>12, <1>13, <1>14, <1>15, <1>16 DEF CpuIsFine
<1> QED
  BY <1>5, <1>9, <1>17

LEMMA CacheIsSoundIfFine ==
  ASSUME Shape, NEW kid \in CacheKids, kids' = Append(kids, kid), parent' = parent,
         NEW n, n = Len(kids) + 1
  PROVE  IsSound(n)' <=> CacheIsFine(kid)
<1>1. kids'[n] = kid
  BY Grown DEF AnyKid
<1> QED
  BY <1>1 DEF IsSound, IsSoundCache, CacheIsFine

(* The others stay as sound as they were: no CPU is read before the caches *)
(* are all known.                                                          *)
LEMMA SoundnessStays ==
  ASSUME Shape, NEW kid \in AnyKid, kids' = Append(kids, kid), parent' = parent,
         kid \in CpuKids \/ CpusOf = {}, NEW k \in 1..Len(kids)
  PROVE  IsSound(k)' <=> IsSound(k)
<1>1. /\ \A c \in 1..Len(kids) : kids'[c] = kids[c]
      /\ \A p : Property(k, p)' = Property(k, p)
      /\ kid \in CpuKids => CachesOf' = CachesOf
  <2>1. PICK n : n = Len(kids) + 1
    OBVIOUS
  <2> QED
    BY <2>1, Grown
<1>2. CASE kids[k] \in CacheKids
  BY <1>1, <1>2 DEF IsSound, IsSoundCache
<1>3. CASE kids[k] \notin CacheKids
  <2>1. k \in CpusOf
    BY <1>3, Facts
  <2>2. {kids'[c].phandle : c \in CachesOf'} = {kids[c].phandle : c \in CachesOf}
    BY <1>1, <2>1 DEF CachesOf
  <2>3. IsSoundCpu(k)' <=> IsSoundCpu(k)
    BY <1>1, <2>2 DEF IsSoundCpu
  <2> QED
    BY <1>1, <1>3, <2>3 DEF IsSound
<1> QED
  BY <1>2, <1>3
-----------------------------------------------------------------------------
(* One lemma per step.                                                     *)
LEMMA CheckCellsStep ==
  ASSUME Inv, CheckCells
  PROVE  Inv'
<1>1. /\ phase = "cells" /\ out = "parsing"
      /\ \/ CellsAreSound /\ phase' = "caches" /\ out' = "parsing"
         \/ ~ CellsAreSound /\ phase' = "cells" /\ out' = "RootReg"
      /\ UNCHANGED <<parent, kids, list, caches, cpus, linked, l1, boot>>
  BY DEF CheckCells, CellsAreSound
<1>2. Shape /\ Contents /\ Links /\ Firsts /\ Verdict
  BY DEF Inv
<1>3. Len(kids) = 0 /\ CpusOf = {} /\ CachesOf = {} /\ CpusOf' = {} /\ CachesOf' = {}
  BY <1>1, <1>2 DEF Contents, CpusOf, CachesOf
<1>4. Shape'
  <2>1. Keyed(list)' /\ Keyed(caches)' /\ Keyed(cpus)'
    BY <1>1, <1>2 DEF Shape, Keyed
  <2>2. IsSortedByKey(caches)' /\ IsSortedByKey(cpus)' /\ (kids \in Seq(AnyKid))'
    BY <1>1, <1>2 DEF Shape
  <2>3. /\ parent' \in Parents /\ phase' \in {"cells", "caches", "cpus", "boot", "done"}
        /\ boot' \in 0..Len(cpus') /\ out' \in Errors \cup {"parsing", "Ok"}
    BY <1>1, <1>2 DEF Shape, Errors
  <2> QED
    BY <2>1, <2>2, <2>3 DEF Shape
<1>5. ValsOf(caches)' = {} /\ ValsOf(cpus)' = {} /\ ValsOf(list)' = {}
  BY <1>1, <1>2, <1>3 DEF Contents, ValsOf
<1>6. Contents'
  BY <1>1, <1>3, <1>5 DEF Contents
<1>7. DOMAIN linked = {} /\ DOMAIN l1 = {} /\ ValsOf(caches)' = ValsOf(caches)
  BY <1>1, <1>2, <1>3 DEF Links, Firsts, ValsOf
<1>8. Links' /\ Firsts'
  BY <1>1, <1>2, <1>3, <1>7 DEF Links, Firsts
<1>9. Verdict'
  <2>1. Accepted' = {}
    BY <1>1, <1>3 DEF Accepted
  <2> QED
    BY <1>1, <2>1 DEF Verdict, CellsAreSound, Fine
<1> QED
  BY <1>4, <1>6, <1>8, <1>9 DEF Inv

(* The verdict after a child is read.                                      *)
LEMMA ReadKidVerdict ==
  ASSUME Inv, phase \in {"caches", "cpus"}, NEW kid \in AnyKid, out = "parsing",
         kids' = Append(kids, kid), parent' = parent, phase' = phase,
         kid \in CpuKids \/ CpusOf = {}, NEW n, n = Len(kids) + 1,
         \/ out' = "parsing" /\ IsSound(n)'
         \/ out' \notin Fine \cup {"RootReg"} /\ ~ IsSound(n)'
  PROVE  Verdict'
<1>1. Shape /\ Verdict
  BY DEF Inv
<1>2. /\ n \in Nat /\ Len(kids') = n /\ 1..n = (1..Len(kids)) \cup {n} /\ Len(kids) \in Nat
      /\ 1..n - 1 = 1..Len(kids)
  BY <1>1, Grown, Facts
<1>3. \A k \in 1..Len(kids) : IsSound(k)'
  <2>1. Accepted = 1..Len(kids)
    BY DEF Accepted, Fine
  <2> QED
    BY <1>1, <2>1, SoundnessStays DEF Verdict
<1>4. Accepted' = IF out' = "parsing" THEN 1..n ELSE 1..Len(kids)
  BY <1>2 DEF Accepted, Fine
<1>5. (\A k \in Accepted : IsSound(k))'
  <2>1. ASSUME NEW k, k \in Accepted' PROVE IsSound(k)'
    <3>1. k \in 1..Len(kids) \/ (k = n /\ out' = "parsing")
      BY <1>2, <1>4, <2>1
    <3>2. CASE k \in 1..Len(kids)
      BY <1>3, <3>2
    <3>3. CASE k = n /\ out' = "parsing"
      BY <3>3 DEF Fine
    <3> QED
      BY <3>1, <3>2, <3>3
  <2> QED
    BY <2>1
<1>6. (out \notin Fine \cup {"RootReg"} => Len(kids) > 0 /\ ~ IsSound(Len(kids)))'
  BY <1>2 DEF Fine
<1>7. CellsAreSound' /\ out' # "RootReg"
  BY <1>1 DEF Verdict, CellsAreSound
<1> QED
  BY <1>2, <1>5, <1>6, <1>7 DEF Verdict

LEMMA ReadCacheStep ==
  ASSUME Inv, NEW kid \in CacheKids, ReadCache(kid)
  PROVE  Inv'
<1> DEFINE checks == CacheChecks(kid)
<1>0. PICK n : n = Len(kids) + 1
  OBVIOUS
<1>1. /\ phase = "caches" /\ ReadKid(kid, kid.phandle, checks)
      /\ linked' = linked /\ l1' = l1
  BY DEF ReadCache
<1>2. Shape /\ Contents /\ Links /\ Firsts
  BY DEF Inv
<1>3. kid \in AnyKid /\ kid \in CacheNodes /\ kid \notin CpuKids
  BY KidsAreDifferent DEF AnyKid
<1>4. \/ FirstError(checks) = "none" /\ CacheIsFine(kid)
      \/ FirstError(checks) \in CacheErrors /\ ~ CacheIsFine(kid)
  BY <1>3, CacheChecksOutcome
<1>5. CacheIsFine(kid) => kid.phandle \in Nat /\ kid.phandle = KeyIn(parent.base, kid)
  BY <1>3 DEF CacheIsFine, CacheNodes, Optional, KeyIn
<1> HIDE DEF checks
<1>6. "none" \notin CacheErrors
  BY DEF CacheErrors
<1>7. /\ kids' = Append(kids, kid) /\ UNCHANGED <<parent, phase, caches, cpus, boot>>
      /\ Shape' /\ Contents' /\ out = "parsing"
      /\ \/ FirstError(checks) = "none" /\ out' = "parsing"
         \/ FirstError(checks) # "none" /\ out' \notin Fine \cup {"RootReg"}
  BY <1>1, <1>3, <1>4, <1>5, <1>6, ReadKidKeeps
<1>8. CpusOf = {} /\ CpusOf' = {}
  BY <1>1, <1>2, <1>7 DEF Contents
<1>9. IsSound(n)' <=> CacheIsFine(kid)
  BY <1>0, <1>2, <1>7, CacheIsSoundIfFine
<1>10. Verdict'
  BY <1>0, <1>1, <1>3, <1>4, <1>6, <1>7, <1>8, <1>9, ReadKidVerdict
<1>11. DOMAIN linked = {} /\ DOMAIN l1 = {} /\ ValsOf(caches)' = ValsOf(caches)
  BY <1>2, <1>7, <1>8 DEF Links, Firsts, ValsOf
<1>12. Links' /\ Firsts'
  BY <1>1, <1>2, <1>8, <1>11 DEF Links, Firsts
<1> QED
  BY <1>7, <1>10, <1>12 DEF Inv

(* A list that becomes a map.                                              *)
LEMMA CachesReadStep ==
  ASSUME Inv, CachesRead
  PROVE  Inv'
<1>1. /\ phase = "caches" /\ out = "parsing" /\ phase' = "cpus" /\ list' = <<>>
      /\ UNCHANGED <<parent, kids, cpus, linked, l1, boot, out>>
  BY DEF CachesRead
<1>2. PICK p \in SortedPermutations(list) : caches' = p
  BY DEF CachesRead, Collected
<1>3. Shape /\ Contents /\ Links /\ Firsts /\ Verdict
  BY DEF Inv
<1>4. Keyed(p) /\ IsSortedByKey(p) /\ ValsOf(p) = ValsOf(list)
  BY <1>3, SortedOfKeyed
<1>5. Accepted = 1..Len(kids) /\ Accepted' = 1..Len(kids) /\ CpusOf = {}
  BY <1>1, <1>3 DEF Accepted, Fine, Contents
<1>6. ValsOf(list) = CachesOf /\ CachesOf \subseteq 1..Len(kids)
  BY <1>1, <1>3, <1>5 DEF Contents, CachesOf
<1>7. CpusOf' = {} /\ CachesOf' = CachesOf
  BY <1>1, <1>5 DEF CpusOf, CachesOf
<1>8. ValsOf(caches)' = CachesOf /\ ValsOf(cpus)' = ValsOf(cpus) /\ ValsOf(list)' = {}
  BY <1>1, <1>2, <1>4, <1>6 DEF ValsOf
<1>9. Shape'
  <2>1. Keyed(caches)' /\ Keyed(cpus)' /\ Keyed(list)'
    BY <1>1, <1>2, <1>3, <1>4 DEF Shape, Keyed
  <2>2. IsSortedByKey(caches)' /\ IsSortedByKey(cpus)'
    BY <1>1, <1>2, <1>3, <1>4 DEF Shape
  <2> QED
    BY <1>1, <1>3, <2>1, <2>2 DEF Shape
<1>10. Contents'
  BY <1>1, <1>3, <1>5, <1>6, <1>7, <1>8 DEF Contents
<1>11. DOMAIN linked = {} /\ DOMAIN l1 = {}
  BY <1>3, <1>5 DEF Links, Firsts
<1>12. Links' /\ Firsts'
  BY <1>1, <1>3, <1>7, <1>11 DEF Links, Firsts
<1>13. Verdict'
  <2>1. \A k : IsSound(k)' <=> IsSound(k)
    BY <1>1, <1>7 DEF IsSound, IsSoundCache, IsSoundCpu, Property
  <2> QED
    BY <1>1, <1>3, <1>5, <2>1 DEF Verdict, CellsAreSound, Fine
<1> QED
  BY <1>9, <1>10, <1>12, <1>13 DEF Inv

(* A CPU that is read refers to a cache and has caches of its own.         *)
LEMMA ReadCpuLinks ==
  ASSUME Inv, NEW kid \in CpuKids, ReadCpu(kid), NEW n, n = Len(kids) + 1,
         kids' = Append(kids, kid), UNCHANGED <<parent, phase, caches>>,
         out = "parsing",
         \/ out' = "parsing" /\ Accepted' = 1..n
         \/ out' # "parsing" /\ Accepted' = 1..Len(kids)
  PROVE  Links' /\ Firsts'
<1> DEFINE q == Inherit(kid.props)
<1>1. Shape /\ Contents /\ Links /\ Firsts /\ phase = "cpus" /\ kid \in AnyKid
  BY DEF Inv, ReadCpu, AnyKid
<1>2. /\ n \in Nat /\ Len(kids') = n /\ 1..n = (1..Len(kids)) \cup {n} /\ n \notin 1..Len(kids)
      /\ \A k \in 1..Len(kids) : kids'[k] = kids[k]
      /\ \A p : \A k \in 1..Len(kids) : Property(k, p)' = Property(k, p)
      /\ CpusOf' = CpusOf \cup {n} /\ CpusOf \cup CachesOf = 1..Len(kids)
  BY <1>1, Grown, Facts
<1>3. Accepted = 1..Len(kids)
  BY DEF Accepted, Fine
<1>4. /\ \A p \in PropNames : Property(n, p)' = q[p]
      /\ \A x : \A i \in CachesAt(x) : /\ caches[i].val \in CachesOf
                                       /\ kids[caches[i].val].phandle = x
  BY <1>1, CpuIsSoundIfFine
<1>5. /\ Property(n, "next")' = q.next /\ Property(n, "unified")' = q.unified
      /\ Property(n, "cache")' = q.cache /\ Property(n, "icache")' = q.icache
      /\ Property(n, "dcache")' = q.dcache
  BY <1>4 DEF PropNames
<1>6. q.unified \in {"present", None} /\ None # "present"
  BY <1>1, KidsAreDifferent, InheritedProperties, NoneAssumption DEF Shape, Words
<1>7. CpusOf' \cap Accepted' = IF out' = "parsing" THEN (CpusOf \cap Accepted) \cup {n}
                               ELSE CpusOf \cap Accepted
  BY <1>2, <1>3
<1>8. CpusOf \cap Accepted \subseteq 1..Len(kids)
  BY <1>3
<1>9. /\ IF out' = "parsing" /\ q.next # None
         THEN \E i \in CachesAt(q.next) : linked' = With(linked, n, caches[i].val)
         ELSE linked' = linked
      /\ l1' = IF out' = "parsing" THEN With(l1, n, L1(q)) ELSE l1
  BY <1>2 DEF ReadCpu
<1>10. Links'
  <2>1. /\ \A k \in DOMAIN linked : /\ linked[k] \in ValsOf(caches)
                                    /\ k \in 1..Len(kids) /\ linked[k] \in 1..Len(kids)
        /\ ValsOf(caches)' = ValsOf(caches) /\ ValsOf(caches) = CachesOf
    <3>1. ValsOf(caches)' = ValsOf(caches) /\ ValsOf(caches) = CachesOf
      BY <1>1 DEF ValsOf, Contents
    <3>2. \A k \in DOMAIN linked : linked[k] \in ValsOf(caches) /\ k \in 1..Len(kids)
      BY <1>1, <1>8 DEF Links
    <3> QED
      BY <3>1, <3>2 DEF CachesOf
  <2>2. CASE out' = "parsing" /\ q.next # None
    <3>1. PICK i \in CachesAt(q.next) : linked' = With(linked, n, caches[i].val)
      BY <1>9, <2>2
    <3>2. /\ DOMAIN linked' = DOMAIN linked \cup {n} /\ linked'[n] = caches[i].val
          /\ \A k \in DOMAIN linked : linked'[k] = linked[k]
          /\ linked' \in [DOMAIN linked' -> {linked'[k] : k \in DOMAIN linked'}]
      BY <1>2, <2>1, <3>1 DEF With
    <3>3. caches[i].val \in CachesOf /\ kids[caches[i].val].phandle = q.next
      BY <1>4
    <3>4. /\ \A k \in DOMAIN linked' : linked'[k] \in ValsOf(caches)'
          /\ linked' \in [DOMAIN linked' -> ValsOf(caches)']
      BY <2>1, <3>2, <3>3
    <3>5. DOMAIN linked' = {k \in CpusOf' \cap Accepted' : Property(k, "next")' # None}
      BY <1>1, <1>2, <1>5, <1>7, <1>8, <2>2, <3>2 DEF Links
    <3>6. caches[i].val \in 1..Len(kids)
      BY <3>3 DEF CachesOf
    <3>7. \A k \in DOMAIN linked' : kids'[linked'[k]].phandle = Property(k, "next")'
      BY <1>1, <1>2, <1>5, <2>1, <3>2, <3>3, <3>6 DEF Links
    <3> QED
      BY <3>4, <3>5, <3>7 DEF Links
  <2>3. CASE ~ (out' = "parsing" /\ q.next # None)
    <3>1. linked' = linked
      BY <1>9, <2>3
    <3>2. DOMAIN linked = {k \in CpusOf' \cap Accepted' : Property(k, "next")' # None}
      BY <1>1, <1>2, <1>5, <1>7, <1>8, <2>3 DEF Links
    <3>3. \A k \in DOMAIN linked : kids'[linked[k]].phandle = Property(k, "next")'
      BY <1>1, <1>2, <2>1 DEF Links
    <3> QED
      BY <1>1, <2>1, <3>1, <3>2, <3>3 DEF Links
  <2> QED
    BY <2>2, <2>3
<1>11. Firsts'
  <2>1. DOMAIN l1 = CpusOf \cap Accepted /\ \A k \in DOMAIN l1 : k \in 1..Len(kids)
    BY <1>1, <1>8 DEF Firsts
  <2>2. ASSUME NEW k \in DOMAIN l1
        PROVE  l1[k] = IF Property(k, "unified")' = "present"
                       THEN <<DeclaredFigure(k, "cache")'>>
                       ELSE <<DeclaredFigure(k, "icache")', DeclaredFigure(k, "dcache")'>>
    BY <1>1, <1>2, <2>1 DEF Firsts, DeclaredFigure
  <2>3. CASE out' = "parsing"
    <3>1. l1' = With(l1, n, L1(q))
      BY <1>9, <2>3
    <3>2. /\ DOMAIN l1' = DOMAIN l1 \cup {n} /\ l1'[n] = L1(q)
          /\ \A k \in DOMAIN l1 : l1'[k] = l1[k]
      BY <1>2, <2>1, <3>1 DEF With
    <3>3. L1(q) = IF Property(n, "unified")' = "present"
                  THEN <<DeclaredFigure(n, "cache")'>>
                  ELSE <<DeclaredFigure(n, "icache")', DeclaredFigure(n, "dcache")'>>
      BY <1>5, <1>6 DEF L1, DeclaredFigure, Description
    <3> QED
      BY <1>7, <2>1, <2>2, <2>3, <3>2, <3>3 DEF Firsts
  <2>4. CASE out' # "parsing"
    BY <1>7, <1>9, <2>1, <2>2, <2>4 DEF Firsts
  <2> QED
    BY <2>3, <2>4
<1> QED
  BY <1>10, <1>11

LEMMA ReadCpuStep ==
  ASSUME Inv, NEW kid \in CpuKids, ReadCpu(kid)
  PROVE  Inv'
<1> DEFINE q == Inherit(kid.props)
           checks == CpuChecks(kid.address, q)
<1>1. PICK n : n = Len(kids) + 1
  OBVIOUS
<1>2. phase = "cpus" /\ ReadKid(kid, q.reg, checks)
  BY DEF ReadCpu
<1>3. /\ kid \in AnyKid /\ kid \notin CacheKids /\ kid.props \in CpuProps
      /\ parent.base \in CpuProps /\ Shape
  BY KidsAreDifferent DEF AnyKid, Inv, Shape
<1>4. \/ FirstError(checks) = "none" /\ CpuIsFine(kid.address, q)
      \/ FirstError(checks) \in CpuErrors /\ ~ CpuIsFine(kid.address, q)
  BY CpuChecksOutcome
<1>5. CpuIsFine(kid.address, q) => q.reg \in Nat /\ q.reg = KeyIn(parent.base, kid)
  <2>1. /\ q.reg \in Optional(Nat)
        /\ q["reg"] = IF kid.props["reg"] # None THEN kid.props["reg"] ELSE parent.base["reg"]
    BY <1>3, InheritedProperties DEF PropNames
  <2> QED
    BY <1>3, <2>1 DEF CpuIsFine, Optional, KeyIn
<1> HIDE DEF checks, q
<1>6. "none" \notin CpuErrors
  BY DEF CpuErrors
<1>7. /\ kids' = Append(kids, kid) /\ UNCHANGED <<parent, phase, caches, cpus, boot>>
      /\ Shape' /\ Contents' /\ out = "parsing"
      /\ \/ FirstError(checks) = "none" /\ out' = "parsing" /\ Accepted' = 1..n
         \/ /\ FirstError(checks) # "none" /\ out' \notin Fine \cup {"RootReg"}
            /\ Accepted' = 1..Len(kids)
  BY <1>1, <1>2, <1>3, <1>4, <1>5, <1>6, ReadKidKeeps
<1>8. IsSound(n)' <=> CpuIsFine(kid.address, q)
  BY <1>1, <1>2, <1>7, CpuIsSoundIfFine DEF q
<1>9. Verdict'
  BY <1>1, <1>2, <1>3, <1>4, <1>6, <1>7, <1>8, ReadKidVerdict
<1>10. Links' /\ Firsts'
  <2>1. \/ out' = "parsing" /\ Accepted' = 1..n
        \/ out' # "parsing" /\ Accepted' = 1..Len(kids)
    BY <1>7 DEF Fine
  <2> QED
    BY <1>1, <1>7, <2>1, ReadCpuLinks
<1> QED
  BY <1>7, <1>9, <1>10 DEF Inv

LEMMA CpusReadStep ==
  ASSUME Inv, CpusRead
  PROVE  Inv'
<1>1. /\ phase = "cpus" /\ out = "parsing" /\ phase' = "boot" /\ list' = <<>>
      /\ UNCHANGED <<parent, kids, caches, linked, l1, boot, out>>
  BY DEF CpusRead
<1>2. PICK p \in SortedPermutations(list) : cpus' = p
  BY DEF CpusRead, Collected
<1>3. Shape /\ Contents /\ Links /\ Firsts /\ Verdict
  BY DEF Inv
<1>4. Keyed(p) /\ IsSortedByKey(p) /\ ValsOf(p) = ValsOf(list)
  BY <1>3, SortedOfKeyed
<1>5. Accepted = 1..Len(kids) /\ Accepted' = Accepted
  BY <1>1 DEF Accepted, Fine
<1>6. ValsOf(list) = CpusOf /\ CpusOf \subseteq 1..Len(kids)
  BY <1>1, <1>3, <1>5 DEF Contents, CpusOf
<1>7. CpusOf' = CpusOf /\ CachesOf' = CachesOf
  BY <1>1 DEF CpusOf, CachesOf
<1>8. ValsOf(caches)' = ValsOf(caches) /\ ValsOf(cpus)' = CpusOf /\ ValsOf(list)' = {}
  BY <1>1, <1>2, <1>4, <1>6 DEF ValsOf
<1>9. boot = 0
  <2>1. ValsOf(cpus) = {} /\ Len(cpus) \in Nat
    BY <1>1, <1>3, KeyedFacts DEF Shape, Contents
  <2>2. ASSUME Len(cpus) # 0 PROVE FALSE
    <3>1. 1 \in 1..Len(cpus)
      BY <2>1, <2>2
    <3> QED
      BY <2>1, <3>1 DEF ValsOf
  <2> QED
    BY <1>3, <2>2 DEF Shape
<1>10. Shape'
  <2>1. Keyed(caches)' /\ Keyed(cpus)' /\ Keyed(list)'
    BY <1>1, <1>2, <1>3, <1>4 DEF Shape, Keyed
  <2>2. IsSortedByKey(caches)' /\ IsSortedByKey(cpus)'
    BY <1>1, <1>2, <1>3, <1>4 DEF Shape
  <2>3. boot' \in 0..Len(cpus')
    BY <1>1, <1>2, <1>4, <1>9, KeyedFacts
  <2> QED
    BY <1>1, <1>3, <2>1, <2>2, <2>3 DEF Shape
<1>11. Contents'
  BY <1>1, <1>3, <1>7, <1>8 DEF Contents
<1>12. \A k, name : Property(k, name)' = Property(k, name)
  BY <1>1 DEF Property
<1>13. Links' /\ Firsts'
  BY <1>1, <1>3, <1>5, <1>7, <1>8, <1>12 DEF Links, Firsts, DeclaredFigure
<1>14. Verdict'
  <2>1. \A k : IsSound(k)' <=> IsSound(k)
    BY <1>1, <1>7, <1>12 DEF IsSound, IsSoundCache, IsSoundCpu
  <2> QED
    BY <1>1, <1>3, <1>5, <2>1 DEF Verdict, CellsAreSound, Fine
<1> QED
  BY <1>10, <1>11, <1>13, <1>14 DEF Inv

(* The number of each CPU in the map is the one its child is declared with.*)
LEMMA KeysOfCpus ==
  ASSUME Shape, NEW i \in 1..Len(cpus), cpus[i].val \in CpusOf
  PROVE  cpus[i].key = Property(cpus[i].val, "reg")
<1>1. kids[cpus[i].val] \notin CacheKids
  BY KidsAreDifferent DEF CpusOf
<1> QED
  BY <1>1 DEF Shape, Keyed, KeyIn, Property

LEMMA FindBootCpuStep ==
  ASSUME Inv, NEW id \in BootIds, FindBootCpu(id)
  PROVE  /\ Inv'
         /\ IF \E k \in CpusOf : Property(k, "reg") = id
            THEN out' = "Ok" /\ Property(cpus[boot'].val, "reg") = id
            ELSE out' = "BootCpu"
<1>1. /\ phase = "boot" /\ out = "parsing"
      /\ UNCHANGED <<parent, kids, list, caches, cpus, linked, l1>>
      /\ \/ boot' \in BootMatches(id) /\ phase' = "done" /\ out' = "Ok"
         \/ BootMatches(id) = {} /\ out' = "BootCpu" /\ boot' = boot /\ phase' = "boot"
  BY DEF FindBootCpu
<1>2. Shape /\ Contents /\ Links /\ Firsts /\ Verdict
  BY DEF Inv
<1>3. Accepted = 1..Len(kids) /\ Accepted' = Accepted
  BY <1>1 DEF Accepted, Fine
<1>4. CpusOf' = CpusOf /\ CachesOf' = CachesOf
  BY <1>1 DEF CpusOf, CachesOf
<1>5. /\ ValsOf(caches)' = ValsOf(caches) /\ ValsOf(cpus)' = ValsOf(cpus)
      /\ ValsOf(list)' = ValsOf(list)
  BY <1>1 DEF ValsOf
<1>6. \A k, name : Property(k, name)' = Property(k, name)
  BY <1>1 DEF Property
<1>7. BootMatches(id) \subseteq 1..Len(cpus) /\ Len(cpus) \in Nat
  BY <1>2, KeyedFacts DEF BootMatches, Matches, Shape
<1>8. Shape'
  <2>1. Keyed(caches)' /\ Keyed(cpus)' /\ Keyed(list)'
    BY <1>1, <1>2 DEF Shape, Keyed
  <2>2. IsSortedByKey(caches)' /\ IsSortedByKey(cpus)'
    BY <1>1, <1>2 DEF Shape
  <2>3. boot' \in 0..Len(cpus) /\ out' \in Errors \cup {"parsing", "Ok"}
    BY <1>1, <1>2, <1>7 DEF Shape, Errors
  <2> QED
    BY <1>1, <1>2, <2>1, <2>2, <2>3 DEF Shape
<1>9. Contents'
  BY <1>1, <1>2, <1>3, <1>4, <1>5 DEF Contents
<1>10. Links' /\ Firsts'
  BY <1>1, <1>2, <1>3, <1>4, <1>5, <1>6 DEF Links, Firsts, DeclaredFigure
<1>11. Verdict'
  <2>1. \A k : IsSound(k)' <=> IsSound(k)
    BY <1>1, <1>4, <1>6 DEF IsSound, IsSoundCache, IsSoundCpu
  <2> QED
    BY <1>1, <1>2, <1>3, <2>1 DEF Verdict, CellsAreSound, Fine
<1>12. ValsOf(cpus) = CpusOf
  BY <1>1, <1>2 DEF Contents
<1>13. \A i \in 1..Len(cpus) : cpus[i].val \in CpusOf /\ cpus[i].key = Property(cpus[i].val, "reg")
  BY <1>2, <1>12, KeysOfCpus DEF ValsOf
<1>14. CASE \E k \in CpusOf : Property(k, "reg") = id
  <2>1. PICK i \in 1..Len(cpus) : Property(cpus[i].val, "reg") = id
    BY <1>12, <1>14 DEF ValsOf
  <2>2. i \in BootMatches(id)
    BY <1>13, <2>1 DEF BootMatches, Matches
  <2>3. boot' \in BootMatches(id) /\ out' = "Ok"
    BY <1>1, <2>2
  <2>4. Property(cpus[boot'].val, "reg") = id
    BY <1>13, <2>3 DEF BootMatches, Matches
  <2> QED
    BY <1>8, <1>9, <1>10, <1>11, <1>14, <2>3, <2>4 DEF Inv
<1>15. CASE ~ \E k \in CpusOf : Property(k, "reg") = id
  <2>1. BootMatches(id) = {}
    BY <1>13, <1>15 DEF BootMatches, Matches
  <2> QED
    BY <1>1, <1>8, <1>9, <1>10, <1>11, <1>15, <2>1 DEF Inv
<1> QED
  BY <1>14, <1>15
-----------------------------------------------------------------------------
LEMMA InitInv == Init => Inv
<1> SUFFICES ASSUME Init PROVE Inv
  OBVIOUS
<1>1. /\ parent \in Parents /\ phase = "cells" /\ kids = <<>> /\ list = <<>>
      /\ caches = <<>> /\ cpus = <<>> /\ linked = <<>> /\ l1 = <<>>
      /\ boot = 0 /\ out = "parsing"
  BY DEF Init
<1>2. Len(kids) = 0 /\ Accepted = {} /\ CpusOf = {} /\ CachesOf = {}
  BY <1>1 DEF Accepted, CpusOf, CachesOf, Fine
<1>3. Keyed(<<>>) /\ ValsOf(<<>>) = {} /\ IsSortedByKey(<<>>) /\ kids \in Seq(AnyKid)
  BY <1>1, EmptySeq DEF Keyed, ValsOf, IsSortedByKey
<1>4. Shape
  BY <1>1, <1>3 DEF Shape
<1>5. Contents
  BY <1>1, <1>2, <1>3 DEF Contents
<1>6. Links /\ Firsts
  <2>1. DOMAIN linked = {} /\ DOMAIN l1 = {} /\ linked \in [{} -> ValsOf(caches)]
    BY <1>1
  <2> QED
    BY <1>2, <2>1 DEF Links, Firsts
<1>7. Verdict
  BY <1>1, <1>2 DEF Verdict, Fine
<1> QED
  BY <1>4, <1>5, <1>6, <1>7 DEF Inv

LEMMA StutterInv ==
  ASSUME Inv, UNCHANGED vars
  PROVE  Inv'
<1>1. UNCHANGED <<parent, phase, kids, list, caches, cpus, linked, l1, boot, out>>
  BY DEF vars
<1>2. \A k, name : Property(k, name)' = Property(k, name)
  BY <1>1 DEF Property
<1>3. CpusOf' = CpusOf /\ CachesOf' = CachesOf /\ Accepted' = Accepted
  BY <1>1 DEF CpusOf, CachesOf, Accepted
<1>4. Shape'
  BY <1>1 DEF Inv, Shape, Keyed
<1>5. Contents' /\ Links' /\ Firsts'
  <2>1. /\ ValsOf(caches)' = ValsOf(caches) /\ ValsOf(cpus)' = ValsOf(cpus)
        /\ ValsOf(list)' = ValsOf(list)
    BY <1>1 DEF ValsOf
  <2>2. Contents'
    BY <1>1, <1>3, <2>1 DEF Inv, Contents
  <2>3. Links'
    BY <1>1, <1>2, <1>3, <2>1 DEF Inv, Links
  <2>4. Firsts'
    BY <1>1, <1>2, <1>3 DEF Inv, Firsts, DeclaredFigure
  <2> QED
    BY <2>2, <2>3, <2>4
<1>6. \A k : IsSound(k)' <=> IsSound(k)
  BY <1>1, <1>2, <1>3 DEF IsSound, IsSoundCache, IsSoundCpu
<1>7. Verdict'
  BY <1>1, <1>3, <1>6 DEF Inv, Verdict, CellsAreSound
<1> QED
  BY <1>4, <1>5, <1>7 DEF Inv

LEMMA NextInv == Inv /\ [Next]_vars => Inv'
<1> SUFFICES ASSUME Inv, [Next]_vars PROVE Inv'
  OBVIOUS
<1>1. CASE CheckCells
  BY <1>1, CheckCellsStep
<1>2. CASE \E kid \in CacheKids : ReadCache(kid)
  BY <1>2, ReadCacheStep
<1>3. CASE CachesRead
  BY <1>3, CachesReadStep
<1>4. CASE \E kid \in CpuKids : ReadCpu(kid)
  BY <1>4, ReadCpuStep
<1>5. CASE CpusRead
  BY <1>5, CpusReadStep
<1>6. CASE \E id \in BootIds : FindBootCpu(id)
  BY <1>6, FindBootCpuStep
<1>7. CASE UNCHANGED vars
  BY <1>7, StutterInv
<1> QED
  BY <1>1, <1>2, <1>3, <1>4, <1>5, <1>6, <1>7 DEF Next

LEMMA SpecInv == Spec => []Inv
  BY InitInv, NextInv, PTL DEF Spec
-----------------------------------------------------------------------------
(* Both maps are sorted and hold children of their own sort, and links end *)
(* at caches, after every step (`ParsedCpu::from_node` and its caller).    *)
THEOREM TypeCorrect == Spec => []TypeOK
<1>1. ASSUME Inv PROVE TypeOK
  <2>1. Shape /\ Contents /\ Links
    BY <1>1 DEF Inv
  <2>2. IsMapOf(caches, CacheKids)
    <3>1. ValsOf(caches) \subseteq CachesOf
      BY <2>1 DEF Contents
    <3> QED
      BY <2>1, <3>1 DEF IsMapOf, Shape, Keyed, ItemOf, ValsOf, CachesOf
  <2>3. IsMapOf(cpus, CpuKids)
    <3>1. ValsOf(cpus) \subseteq CpusOf
      BY <2>1 DEF Contents
    <3> QED
      BY <2>1, <3>1 DEF IsMapOf, Shape, Keyed, ItemOf, ValsOf, CpusOf
  <2>4. list \in Seq([key : Nat, val : 1..Len(kids)])
    BY <2>1 DEF Shape, Keyed, ItemOf
  <2> QED
    BY <2>1, <2>2, <2>3, <2>4 DEF TypeOK, Shape, AnyKid, Links, ValsOf
<1> QED
  BY SpecInv, <1>1, PTL

(* No child is lost, however many share a number or a phandle:             *)
(* `Map::from_iter` sorts and removes nothing.                             *)
THEOREM NothingEverLost == Spec => []NothingLost
<1>1. ASSUME Inv PROVE NothingLost
  <2>1. SUFFICES ASSUME out = "Ok"
                 PROVE  /\ {<<e.key, e.val>> : e \in ToSet(cpus)}
                             = {<<Property(k, "reg"), k>> : k \in CpusOf}
                        /\ {<<e.key, e.val>> : e \in ToSet(caches)}
                             = {<<kids[k].phandle, k>> : k \in CachesOf}
                        /\ \A map \in {cpus, caches} :
                             \A i, j \in 1..Len(map) : map[i].val = map[j].val => i = j
    BY DEF NothingLost
  <2>2. Shape /\ ValsOf(cpus) = CpusOf /\ ValsOf(caches) = CachesOf
    BY <1>1, <2>1 DEF Inv, Shape, Contents
  <2>3. DOMAIN cpus = 1..Len(cpus) /\ DOMAIN caches = 1..Len(caches)
    BY <2>2, LenProperties DEF Shape, Keyed
  <2>4. {<<e.key, e.val>> : e \in ToSet(cpus)} = {<<Property(k, "reg"), k>> : k \in CpusOf}
    <3>1. \A i \in 1..Len(cpus) : /\ cpus[i].val \in CpusOf
                                  /\ cpus[i].key = Property(cpus[i].val, "reg")
      BY <2>2, KeysOfCpus DEF ValsOf
    <3>2. \A k \in CpusOf : \E i \in 1..Len(cpus) : cpus[i].val = k
      BY <2>2 DEF ValsOf
    <3> QED
      BY <2>3, <3>1, <3>2 DEF ToSet
  <2>5. {<<e.key, e.val>> : e \in ToSet(caches)} = {<<kids[k].phandle, k>> : k \in CachesOf}
    <3>1. \A i \in 1..Len(caches) : /\ caches[i].val \in CachesOf
                                    /\ caches[i].key = kids[caches[i].val].phandle
      BY <2>2 DEF ValsOf, Shape, Keyed, KeyIn, CachesOf
    <3>2. \A k \in CachesOf : \E i \in 1..Len(caches) : caches[i].val = k
      BY <2>2 DEF ValsOf
    <3> QED
      BY <2>3, <3>1, <3>2 DEF ToSet
  <2>6. /\ \A i, j \in 1..Len(cpus) : cpus[i].val = cpus[j].val => i = j
        /\ \A i, j \in 1..Len(caches) : caches[i].val = caches[j].val => i = j
    BY <2>2 DEF Shape, Keyed
  <2> QED
    BY <2>4, <2>5, <2>6
<1> QED
  BY SpecInv, <1>1, PTL

(* Every CPU refers to a cache that has the phandle it names, or `/cpus`   *)
(* names for it, and its first-level caches are those that they declare.   *)
THEOREM CachesAlwaysThoseDeclared == Spec => []CachesAreThoseDeclared
<1>1. ASSUME Inv PROVE CachesAreThoseDeclared
  <2>1. Shape /\ Contents /\ Links /\ Firsts
    BY <1>1 DEF Inv
  <2>2. ASSUME phase \in {"boot", "done"}
        PROVE  /\ DOMAIN l1 = CpusOf
               /\ \A k \in CpusOf :
                    IF Property(k, "next") = None THEN k \notin DOMAIN linked
                    ELSE k \in DOMAIN linked /\ kids[linked[k]].phandle = Property(k, "next")
    <3>1. Accepted = 1..Len(kids) /\ CpusOf \cap Accepted = CpusOf
      BY <2>1, <2>2 DEF Contents, Accepted, Fine, CpusOf
    <3> QED
      BY <2>1, <3>1 DEF Links, Firsts
  <2> QED
    BY <2>1, <2>2 DEF CachesAreThoseDeclared, Firsts
<1> QED
  BY SpecInv, <1>1, PTL

(* `/cpus` is refused exactly when something in it is wrong.               *)
THEOREM VerdictAlwaysExact == Spec => []VerdictIsExact
<1>1. ASSUME Inv PROVE VerdictIsExact
  <2>1. Shape /\ Contents /\ Verdict
    BY <1>1 DEF Inv
  <2>2. /\ Len(kids) \in Nat /\ CpusOf \cup CachesOf = 1..Len(kids)
        /\ \A k \in 1..Len(kids) : k \in CachesOf <=> kids[k] \in CacheKids
        /\ CpusOf \cap CachesOf = {}
    BY <2>1, Facts
  <2>3. \A k \in 1..Len(kids) :
          ~ IsSound(k) <=> \/ k \in CpusOf /\ (~ IsSoundCpu(k) \/ parent.cells[1] # 1)
                           \/ k \in CachesOf /\ ~ IsSoundCache(k)
    BY <2>2 DEF IsSound
  <2>4. (\E k \in 1..Len(kids) : ~ IsSound(k)) <=>
          \/ \E k \in CpusOf : ~ IsSoundCpu(k) \/ parent.cells[1] # 1
          \/ \E k \in CachesOf : ~ IsSoundCache(k)
    BY <2>2, <2>3
  <2>5. (\E k \in 1..Len(kids) : ~ IsSound(k)) => out \notin Fine
    BY <2>1 DEF Verdict, Accepted
  <2>6. out # "parsing" /\ ~ CellsAreSound => out = "RootReg"
    BY <2>1 DEF Verdict, Contents
  <2>7. out \notin Fine => \/ out # "parsing" /\ ~ CellsAreSound
                           \/ \E k \in 1..Len(kids) : ~ IsSound(k)
    <3>1. CASE out = "RootReg"
      BY <2>1, <3>1 DEF Verdict
    <3>2. CASE out \notin Fine \cup {"RootReg"}
      <4>1. Len(kids) > 0 /\ ~ IsSound(Len(kids))
        BY <2>1, <3>2 DEF Verdict
      <4> QED
        BY <2>2, <4>1
    <3> QED
      BY <3>1, <3>2
  <2>8. phase # "cells" => CellsAreSound
    BY <2>1 DEF Verdict
  <2> QED
    BY <2>4, <2>5, <2>6, <2>7, <2>8 DEF VerdictIsExact, Fine
<1> QED
  BY SpecInv, <1>1, PTL

(* The boot CPU is a child with the number that the header names, if there *)
(* is one, else the tree is refused (`DeviceTree::from_bytes`).            *)
THEOREM BootCpuAlwaysHasItsId == Spec => BootCpuHasItsId
<1> DEFINE A == \A id \in BootIds : FindBootCpu(id) =>
                  IF \E k \in CpusOf : Property(k, "reg") = id
                  THEN out' = "Ok" /\ Property(cpus[boot'].val, "reg") = id
                  ELSE out' = "BootCpu"
<1>1. Inv /\ [Next]_vars => [A]_vars
  BY FindBootCpuStep
<1> QED
  BY <1>1, SpecInv, PTL DEF Spec, BootCpuHasItsId
=============================================================================
