----------------------------- MODULE MCAbiDump -----------------------------
(***************************************************************************)
(* Model-checking instance of AbiDump: two ABIs of the released library.  *)
(***************************************************************************)
EXTENDS AbiDump

CONSTANTS a1, a2

MCABIs == {a1, a2}

=============================================================================
