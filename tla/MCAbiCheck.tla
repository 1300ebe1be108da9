----------------------------- MODULE MCAbiCheck -----------------------------
(***************************************************************************)
(* Model-checking instance of AbiCheck: three library ABIs, where a2 only *)
(* adds to a1 (backward compatible, not forward) and a3 breaks both.       *)
(***************************************************************************)
EXTENDS AbiCheck

CONSTANTS a1, a2, a3

MCABIs == {a1, a2, a3}

MCCompatible == {<<a1, a1>>, <<a2, a2>>, <<a3, a3>>, <<a1, a2>>}

=============================================================================
