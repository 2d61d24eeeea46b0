---------------------------- MODULE AbstractMap ----------------------------
(***************************************************************************)
(* What a `Map` promises its callers: a partial function from keys to      *)
(* values, each method described by the entry it touches.                  *)
(***************************************************************************)
CONSTANTS Keys,   (* the possible keys                                     *)
          Vals,   (* the possible values                                   *)
          None    (* the answer of a method that returned `None`           *)

VARIABLES fmap,   (* the partial function                                  *)
          ret,    (* what the last call, or the iterator, returned         *)
          op      (* "none", or the loop under way: "extend", "preserve",  *)
                  (* "extract"                                             *)

vars == <<fmap, ret, op>>

ValueAt(k) == IF k \in DOMAIN fmap THEN fmap[k] ELSE None

Updated(k, v) ==
  [x \in DOMAIN fmap \cup {k} |-> IF x = k THEN v ELSE fmap[x]]

Without(k) == [x \in DOMAIN fmap \ {k} |-> fmap[x]]

Init == fmap = [k \in {} |-> None] /\ ret = None /\ op = "none"

Call == op = "none" /\ UNCHANGED op

(* An insertion replaces the value of a known key and returns the old one. *)
Put(k, v) == Call /\ fmap' = Updated(k, v) /\ ret' = ValueAt(k)

(* A removal makes the key unknown and returns the value it had.           *)
Delete(k) == Call /\ fmap' = Without(k) /\ ret' = ValueAt(k)

Lookup(k) == Call /\ UNCHANGED fmap /\ ret' = ValueAt(k)

(* Collecting forgets what was there and holds exactly the collected keys. *)
Collect(f) == Call /\ fmap' = f /\ ret' = None

Begin(o) == op = "none" /\ op' = o /\ UNCHANGED <<fmap, ret>>

(* Extending replaces, extending while preserving keeps, a known key; the  *)
(* loop may be over then.                                                  *)
Overwrite(k, v) ==
  /\ op = "extend" /\ op' \in {op, "none"}
  /\ fmap' = Updated(k, v) /\ UNCHANGED ret

Preserve(k, v) ==
  /\ op = "preserve" /\ op' \in {op, "none"}
  /\ fmap' = (IF k \in DOMAIN fmap THEN fmap ELSE Updated(k, v)) /\ UNCHANGED ret

(* Extracting yields the value of a key it makes unknown.                  *)
Extract(k) ==
  /\ op = "extract" /\ UNCHANGED op
  /\ k \in DOMAIN fmap /\ fmap' = Without(k) /\ ret' = fmap[k]

Stop == op # "none" /\ op' = "none" /\ UNCHANGED <<fmap, ret>>

Next ==
  \/ \E k \in Keys, v \in Vals : Put(k, v) \/ Overwrite(k, v) \/ Preserve(k, v)
  \/ \E k \in Keys : Delete(k) \/ Lookup(k) \/ Extract(k)
  \/ \E K \in SUBSET Keys : \E f \in [K -> Vals] : Collect(f)
  \/ \E o \in {"extend", "preserve", "extract"} : Begin(o)
  \/ Stop

Spec == Init /\ [][Next]_vars
=============================================================================
