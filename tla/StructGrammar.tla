--------------------------- MODULE StructGrammar ---------------------------
(***************************************************************************)
(* What the structure block of a device tree blob must look like for       *)
(* `DeviceTree::from_bytes` (src/src/dtb.rs) to accept it: a one-counter   *)
(* automaton over its tokens.  It knows how deep the nesting is and how    *)
(* many nodes have been closed at the top, and nothing of their contents.  *)
(***************************************************************************)
EXTENDS Naturals

VARIABLES depth,   (* nodes begun and not ended                            *)
          roots,   (* nodes ended at depth zero before the `End` token     *)
          sealed,  (* an `End` token was accepted                          *)
          verdict  (* "reading", "Ok", or why the blob was rejected        *)

vars == <<depth, roots, sealed, verdict>>

Init == depth = 0 /\ roots = 0 /\ sealed = FALSE /\ verdict = "reading"

Reject(why) == verdict' = why /\ UNCHANGED <<depth, roots, sealed>>

Begin ==
  /\ verdict = "reading"
  /\ depth' = depth + 1
  /\ UNCHANGED <<roots, sealed, verdict>>

(* A node ends: some other node, or the top level, receives it; after the  *)
(* `End` token the top level receives nothing any more.                    *)
End ==
  /\ verdict = "reading" /\ depth > 0 /\ ~ (sealed /\ depth = 1)
  /\ depth' = depth - 1
  /\ roots' = IF depth = 1 THEN roots + 1 ELSE roots
  /\ UNCHANGED <<sealed, verdict>>

EndTooMany ==
  /\ verdict = "reading" /\ (depth = 0 \/ (sealed /\ depth = 1))
  /\ Reject("TooManyEnds")

(* A property inside a node is read, or already was in this node.          *)
Property ==
  /\ verdict = "reading" /\ depth > 0
  /\ \/ UNCHANGED vars
     \/ Reject("Parsing")

PropertyOutside ==
  /\ verdict = "reading" /\ depth = 0 /\ Reject("InvalidProp")

(* The `End` token: only the first one, at depth zero, after one root.     *)
Seal ==
  /\ verdict = "reading" /\ ~ sealed /\ depth = 0 /\ roots = 1
  /\ sealed' = TRUE
  /\ UNCHANGED <<depth, roots, verdict>>

SealRejected ==
  /\ verdict = "reading"
  /\ \/ sealed /\ Reject("TooManyEnds")
     \/ ~ sealed /\ depth # 0 /\ Reject("BadDepth")
     \/ ~ sealed /\ depth = 0 /\ roots # 1 /\ Reject("BadRoots")
     \/ /\ ~ sealed /\ depth = 0 /\ roots = 1
        /\ \E why \in {"BadRootName", "Node", "BootCpu", "panic"} : Reject(why)

Malformed == verdict = "reading" /\ Reject("Token")

Stop ==
  /\ verdict = "reading"
  /\ Reject(IF sealed THEN "Ok" ELSE "EoF")

Next ==
  \/ Begin \/ End \/ EndTooMany
  \/ Property \/ PropertyOutside
  \/ Seal \/ SealRejected
  \/ Malformed \/ Stop

Spec == Init /\ [][Next]_vars
=============================================================================
