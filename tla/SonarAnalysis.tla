---------------------------- MODULE SonarAnalysis ----------------------------
(***************************************************************************)
(* What the static-analysis workflow promises, without folders or tools:   *)
(* each invocation of build() either raises or ends by uploading one       *)
(* analysis; that analysis describes a complete build of the same          *)
(* invocation and carries the release part of the version, the version     *)
(* without its "+" build metadata.  Nothing else changes what SonarQube    *)
(* shows.                                                                  *)
(***************************************************************************)
EXTENDS Naturals, Sequences, SequencesExt

CONSTANTS
    MaxRuns,    \* how many invocations there are
    Versions,   \* the versions an invocation may carry
    None        \* nothing uploaded yet

VARIABLES
    stage,      \* idle, running or failed
    run,        \* the current (or last) invocation
    version,    \* the version of the current (or last) invocation
    upload      \* the analysis SonarQube shows, None before the first

vars == <<stage, run, version, upload>>

\* The release part of a version: its longest prefix without a "+".
ReleaseVersion(v) ==
    CHOOSE p \in Prefixes(v) :
        /\ ~Contains(p, "+")
        /\ Len(p) = Len(v) \/ v[Len(p) + 1] = "+"

Init ==
    /\ stage = "idle"
    /\ run = 0
    /\ version \in Versions
    /\ upload = None

\* A new invocation starts, after one that returned or raised.
Start ==
    /\ stage \in {"idle", "failed"}
    /\ run < MaxRuns
    /\ run' = run + 1
    /\ version' \in Versions
    /\ stage' = "running"
    /\ UNCHANGED upload

\* The invocation raises; what SonarQube shows stays as it was.
Fail ==
    /\ stage = "running"
    /\ stage' = "failed"
    /\ UNCHANGED <<run, version, upload>>

\* The invocation ends by uploading the analysis of its own complete build.
Upload ==
    /\ stage = "running"
    /\ upload' = [run |-> run, build |-> [run |-> run, complete |-> TRUE],
                  version |-> ReleaseVersion(version)]
    /\ stage' = "idle"
    /\ UNCHANGED <<run, version>>

Next == Start \/ Fail \/ Upload

Spec == Init /\ [][Next]_vars

=============================================================================
