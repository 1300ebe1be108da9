---------------------------- MODULE MCSonarScan ----------------------------
(***************************************************************************)
(* Model-checking instances of SonarScan.  Versions are strings over the  *)
(* characters 3 . + as sequences of one-character strings.                 *)
(***************************************************************************)
EXTENDS SonarScan

\* Every version of one to three characters over 3 . + : none, one and
\* several "+", leading and trailing "+".
MCAllVersions == UNION { [1..n -> {"3", ".", "+"}] : n \in 1..3 }

\* One release version and one with build metadata.
MCTwoVersions == { <<"3", ".", "3">>, <<"3", "+", "3">> }

=============================================================================
