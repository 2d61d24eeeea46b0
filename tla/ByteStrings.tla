---------------------------- MODULE ByteStrings ----------------------------
(***************************************************************************)
(* Looking for a byte in a string: `CStr::from_bytes_until_nul` and the    *)
(* helper that splits a slice (src/src/lib.rs), of which `split_once` of a *)
(* slice is the counterpart in the library.                                *)
(***************************************************************************)
EXTENDS ByteSlice

Comma == 44
Dash  == 45

(* The index of the first of these bytes, or 0.                            *)
FirstIndex(s, b) == SelectInSeq(s, LAMBDA x : x = b)

(* CStr::from_bytes_until_nul: the bytes before the first zero.            *)
CStr(bytes) ==
  LET nul == FirstIndex(bytes, 0)
  IN  IF nul = 0 THEN None ELSE SubSeq(bytes, 1, nul - 1)

(* The two sides of the element at this index, which is in neither.        *)
Split(s, at) == <<SubSeq(s, 1, at - 1), SubSeq(s, at + 1, Len(s))>>

(* split_at_first (src/src/lib.rs).                                        *)
SplitAtFirst(s, b) ==
  LET at == FirstIndex(s, b) IN IF at = 0 THEN None ELSE Split(s, at)
=============================================================================
