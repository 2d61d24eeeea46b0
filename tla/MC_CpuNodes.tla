----------------------------- MODULE MC_CpuNodes -----------------------------
(* Up to four children of `/cpus`.  Their properties differ from those of *)
(* a plain CPU and a plain cache in one place, sometimes two.              *)
EXTENDS CpuNodes

Nothing == [device_type |-> None, method |-> None, release |-> None, status |-> None,
            next |-> None, reg |-> None, unified |-> None, cache |-> None,
            icache |-> None, dcache |-> None]
Cpu0    == [Nothing EXCEPT !.device_type = "cpu", !.reg = 0]

MCParents ==
  {[cells |-> c, base |-> Nothing] : c \in {<<1, 0>>, <<1, 1>>, <<0, 0>>, <<2, 0>>, <<Invalid, 0>>}}
    \cup {[cells |-> <<1, 0>>, base |-> b] :
            b \in {[Nothing EXCEPT !.device_type = "other"], [Nothing EXCEPT !.reg = 1],
                   [Nothing EXCEPT !.method = "spin-table", !.next = 7],
                   [Nothing EXCEPT !.status = "disabled"], [Nothing EXCEPT !.status = "fail"],
                   [Nothing EXCEPT !.unified = "present", !.dcache = 3],
                   [Nothing EXCEPT !.icache = 2, !.cache = 1]}}

MCCacheKids ==
  {[compatible |-> "cache", phandle |-> p, level |-> 2, below |-> "done"] : p \in {7, 8}}
    \cup {[compatible |-> None, phandle |-> 7, level |-> 2, below |-> "done"],
          [compatible |-> "cache", phandle |-> None, level |-> 2, below |-> "done"],
          [compatible |-> "cache", phandle |-> 7, level |-> Invalid, below |-> "Child"],
          [compatible |-> "cache", phandle |-> 7, level |-> 2, below |-> "panic"]}

MCCpuKids ==
  [address : {None, 1}, props :
     {Cpu0, Nothing, [Cpu0 EXCEPT !.reg = 1], [Cpu0 EXCEPT !.reg = None],
      [Cpu0 EXCEPT !.reg = Invalid], [Cpu0 EXCEPT !.next = 7], [Cpu0 EXCEPT !.next = Invalid],
      [Cpu0 EXCEPT !.status = "disabled"], [Cpu0 EXCEPT !.status = Invalid],
      [Cpu0 EXCEPT !.status = "disabled", !.method = "vendor", !.reg = 1],
      [Cpu0 EXCEPT !.status = "fail"], [Cpu0 EXCEPT !.status = "fail", !.reg = None],
      [Cpu0 EXCEPT !.status = "fail", !.method = "spin-table"],
      [Cpu0 EXCEPT !.method = "spin-table"], [Cpu0 EXCEPT !.method = Invalid],
      [Cpu0 EXCEPT !.method = "spin-table", !.release = "address", !.next = 8],
      [Cpu0 EXCEPT !.icache = 0, !.dcache = 4, !.cache = 5],
      [Cpu0 EXCEPT !.unified = "present", !.dcache = Invalid]}]

MCBootIds == {0, 1}
=============================================================================
