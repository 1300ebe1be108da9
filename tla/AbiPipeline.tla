----------------------------- MODULE AbiPipeline -----------------------------
(***************************************************************************)
(* What the ABI compatibility workflow promises, without files or tools:   *)
(* each invocation runs the dump stage, and the check stage only after a   *)
(* dump stage of the same invocation that reported Ok; every stage that    *)
(* completes leaves a result record (Ok or Error) of its invocation; a     *)
(* hard stop (missing executable, missing dump or baseline, an abort)     *)
(* ends the invocation without packaging; packaging publishes the records. *)
(***************************************************************************)
EXTENDS Naturals

CONSTANTS
    MaxRuns,   \* how many invocations there are
    None       \* no record, nothing published

VARIABLES
    stage,      \* idle, dump, check or package
    run,        \* the current (or last) invocation
    records,    \* per stage name, the last record: [run, ok] or None
    published   \* the last published records, with their invocation

vars == <<stage, run, records, published>>

StageNames == {"abi_dump", "abi_check"}

Init ==
    /\ stage = "idle"
    /\ run = 0
    /\ records = [n \in StageNames |-> None]
    /\ published = None

\* A new invocation starts with the dump stage.
Start ==
    /\ stage = "idle"
    /\ run < MaxRuns
    /\ run' = run + 1
    /\ stage' = "dump"
    /\ UNCHANGED <<records, published>>

\* The dump stage reports; only an Ok leads to the check stage.
RecordDump ==
    /\ stage = "dump"
    /\ \E ok \in BOOLEAN :
          /\ records' = [records EXCEPT !["abi_dump"] = [run |-> run, ok |-> ok]]
          /\ stage' = IF ok THEN "check" ELSE "package"
    /\ UNCHANGED <<run, published>>

\* The check stage reports its verdict.
RecordCheck ==
    /\ stage = "check"
    /\ \E ok \in BOOLEAN :
          records' = [records EXCEPT !["abi_check"] = [run |-> run, ok |-> ok]]
    /\ stage' = "package"
    /\ UNCHANGED <<run, published>>

\* A hard stop while a stage runs.
Stop ==
    /\ stage \in {"dump", "check"}
    /\ stage' = "idle"
    /\ UNCHANGED <<run, records, published>>

\* Packaging publishes the records.
Publish ==
    /\ stage = "package"
    /\ published' = [run |-> run, records |-> records]
    /\ stage' = "idle"
    /\ UNCHANGED <<run, records>>

Next == Start \/ RecordDump \/ RecordCheck \/ Stop \/ Publish

Spec == Init /\ [][Next]_vars

=============================================================================
