------------------------- MODULE MCParticipantBuild -------------------------
(***************************************************************************)
(* ParticipantBuild for TLC: Invocations is the full product of the       *)
(* inputs for one invocation, as ParticipantBuild defines it.              *)
(***************************************************************************)
EXTENDS ParticipantBuild

=============================================================================
