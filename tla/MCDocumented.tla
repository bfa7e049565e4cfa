---------------------------- MODULE MCDocumented ----------------------------
(***************************************************************************)
(* Small inputs for Documented: a and 1, and \x41, in ASCII.               *)
(***************************************************************************)
EXTENDS Documented

MCHexItems == {Item("char", <<97>>), Item("char", <<49>>), Item("hex", <<52, 49>>)}

=============================================================================
