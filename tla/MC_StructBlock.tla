-------------------------- MODULE MC_StructBlock --------------------------
(* Small instances of StructBlock: the root's name and one or two others,  *)
(* one or two property names, blocks of up to seven tokens.                *)
EXTENDS StructBlock

MCRoot == 0
MCNames == {0, 1}
MCThreeNames == 0..2
=============================================================================
