------------------------------ MODULE AbiCheck ------------------------------
(***************************************************************************)
(* The ABI compatibility check recipe (conanfile_abi_check.py) together    *)
(* with the helpers it calls: create_dump (scripts/abi/abi_dumper.py) and  *)
(* ResultWriter (scripts/abi/result_writer.py).                            *)
(*                                                                         *)
(* One behaviour is a sequence of at most MaxRuns invocations of the       *)
(* recipe's build() followed by package() on ONE build folder: MaxRuns = 1 *)
(* is `conan create` on a fresh folder, MaxRuns > 1 the local flow or      *)
(* --keep-build, where the files of an earlier invocation are still       *)
(* there.  The files of the build folder are the state; the external      *)
(* tools (abi-dumper, abi-compliance-checker) are nondeterministic        *)
(* outcomes constrained only by their exit-code contract.                 *)
(***************************************************************************)
EXTENDS Naturals, FiniteSets

CONSTANTS
    ABIs,        \* the possible ABIs of libfep_components_plugin.so
    Compatible,  \* <<old, new>> \in Compatible: new is backward compatible with old
    MaxRuns,     \* how many invocations of build() the build folder sees
    None         \* an absent file

ASSUME CompatibleAssumption == Compatible \subseteq ABIs \X ABIs
ASSUME MaxRunsAssumption == MaxRuns \in Nat \ {0}

Runs == 1..MaxRuns

\* The content of fep_components_plugin_dump.dump: the ABI it describes, the
\* invocation that wrote it, and whether the dumper completed it.
DumpFile == [run : Runs, abi : ABIs, complete : BOOLEAN]

\* The content of test/result/test_<name>.xml: write_ok or write_error.
Record == [run : Runs, ok : BOOLEAN]

ASSUME NoneAssumption == None \notin DumpFile \cup Record \cup ABIs \cup Runs

\* The two result files a ResultWriter can be constructed for.
ResultNames == {"abi_dump", "abi_check"}

\* The files that deps_cpp_info/deps_user_info must resolve to existing files.
Tools == {"abi_dumper", "plugin_lib", "abi_compliance_checker"}

VARIABLES
    pc,        \* where the current invocation is: idle, dump, check, package
    run,       \* number of the current (or last) invocation
    lib,       \* ABI of the fep_sdk_participant library the invocation dumps
    deps,      \* the Tools that exist in this invocation's dependencies
    ref,       \* ABI of the reference package's dump file, None if absent
    dumpFile,  \* <build>/abi_check/fep_components_plugin_dump.dump
    results,   \* <build>/test/result/test_<name>.xml, per name
    report,    \* <build>/abi_check/report_plugin.html: invocation that wrote it
    pkg        \* the package folder written by package(), None before

vars == <<pc, run, lib, deps, ref, dumpFile, results, report, pkg>>

Package == [run : Runs, dumpFile : DumpFile \cup {None},
            results : [ResultNames -> Record \cup {None}],
            report : Runs \cup {None}]

\* No package folder is the absent one.
ASSUME NoPackageIsNone == None \notin Package

TypeOK ==
    /\ pc \in {"idle", "dump", "check", "package"}
    /\ run \in 0..MaxRuns
    /\ lib \in ABIs
    /\ deps \subseteq Tools
    /\ ref \in ABIs \cup {None}
    /\ dumpFile \in DumpFile \cup {None}
    /\ results \in [ResultNames -> Record \cup {None}]
    /\ report \in Runs \cup {None}
    /\ pkg \in Package \cup {None}

-----------------------------------------------------------------------------
(***************************************************************************)
(* Helpers.                                                                *)
(***************************************************************************)

\* ResultWriter.__init__: the name, hence the file, a writer is built for.
\* With neither flag the constructor raises: the CASE has no arm for it.
ResultName(abiDump, abiCheck) ==
    CASE abiCheck -> "abi_check"
      [] ~abiCheck /\ abiDump -> "abi_dump"

\* ResultWriter.write_ok / write_error for a writer named n: the whole file
\* is overwritten with the outcome of this invocation.
WriteResult(n, ok) == results' = [results EXCEPT ![n] = [run |-> run, ok |-> ok]]

\* What one run of abi-dumper may do: exit 0 or not, write the -o file or not.
\* A file written by a failing run is incomplete.
DumperOutcomes == [rc : {0, 1}, writes : BOOLEAN]

\* Mutation: the dump is taken of the reference instead of the library.
NewDumpOfRef(rc) == [run |-> run, abi |-> ref, complete |-> rc = 0]

\* The dump file abi-dumper writes for the current library.
NewDump(rc) == [run |-> run, abi |-> lib, complete |-> rc = 0]

\* What one run of abi-compliance-checker -old o -new n may do: exit 0 and
\* write the report only when n is complete and compatible with o, exit 1
\* with a report when it is not, and fail (exit 2, no report) at any time.
CheckerOutcomes(old, new) ==
    { [rc |-> 2, writes |-> FALSE] } \cup
    IF ~new.complete THEN {}
    ELSE IF <<old, new.abi>> \in Compatible THEN { [rc |-> 0, writes |-> TRUE] }
    ELSE { [rc |-> 1, writes |-> TRUE] }

-----------------------------------------------------------------------------
(***************************************************************************)
(* Actions.                                                                *)
(***************************************************************************)

Init ==
    /\ pc = "idle"
    /\ run = 0
    /\ lib \in ABIs
    /\ deps = Tools
    /\ ref \in ABIs \cup {None}
    /\ dumpFile = None
    /\ results = [n \in ResultNames |-> None]
    /\ report = None
    /\ pkg = None

\* Conan invokes build(): the dependencies are resolved anew, and the
\* library under test may have been rebuilt since the last invocation.
StartBuild ==
    /\ pc = "idle"
    /\ run < MaxRuns
    /\ run' = run + 1
    /\ pc' = "dump"
    /\ lib' \in ABIs
    /\ deps' \in SUBSET Tools
    /\ UNCHANGED <<ref, dumpFile, results, report, pkg>>

\* The two assertions of create_dump: the dumper executable and
\* libfep_components_plugin.so exist.
DumpToolsExist == {"abi_dumper", "plugin_lib"} \subseteq deps

\* The three assertions of build() before the checker runs.
CheckInputsExist ==
    /\ dumpFile # None
    /\ ref # None
    /\ "abi_compliance_checker" \in deps

\* Mutation: a failed dump does not return from build().
DumpStageNoReturn ==
    /\ pc = "dump"
    /\ \/ /\ ~DumpToolsExist
          /\ pc' = "idle"
          /\ UNCHANGED <<dumpFile, results>>
       \/ /\ DumpToolsExist
          /\ \E o \in DumperOutcomes :
                /\ dumpFile' = IF o.writes THEN NewDump(o.rc) ELSE dumpFile
                /\ WriteResult(ResultName(TRUE, FALSE), o.rc = 0)
                /\ pc' = "check"
    /\ UNCHANGED <<run, lib, deps, ref, report, pkg>>

\* Mutation: a failed dump is only logged, no error record is written.
DumpStageNoErrorRecord ==
    /\ pc = "dump"
    /\ \/ /\ ~DumpToolsExist
          /\ pc' = "idle"
          /\ UNCHANGED <<dumpFile, results>>
       \/ /\ DumpToolsExist
          /\ \E o \in DumperOutcomes :
                /\ dumpFile' = IF o.writes THEN NewDump(o.rc) ELSE dumpFile
                /\ IF o.rc = 0 THEN WriteResult(ResultName(TRUE, FALSE), TRUE)
                               ELSE UNCHANGED results
                /\ pc' = IF o.rc = 0 THEN "check" ELSE "package"
    /\ UNCHANGED <<run, lib, deps, ref, report, pkg>>

\* build() up to the early return: create_dump asserts that the dumper and
\* the plugin library exist, runs abi-dumper with ignore_errors, and the
\* dump-stage ResultWriter records the exit code.  A failed dump returns
\* from build(), after which Conan calls package().
DumpStage ==
    /\ pc = "dump"
    /\ \/ /\ ~DumpToolsExist
          /\ pc' = "idle"
          /\ UNCHANGED <<dumpFile, results>>
       \/ /\ DumpToolsExist
          /\ \E o \in DumperOutcomes :
                /\ dumpFile' = IF o.writes THEN NewDump(o.rc) ELSE dumpFile
                /\ WriteResult(ResultName(TRUE, FALSE), o.rc = 0)
                /\ pc' = IF o.rc = 0 THEN "check" ELSE "package"
    /\ UNCHANGED <<run, lib, deps, ref, report, pkg>>

\* Mutation: -old and -new swapped on the checker's command line.
CheckStageSwapped ==
    /\ pc = "check"
    /\ \/ /\ ~CheckInputsExist
          /\ pc' = "idle"
          /\ UNCHANGED <<results, report>>
       \/ /\ CheckInputsExist
          /\ \E o \in CheckerOutcomes(dumpFile.abi, [dumpFile EXCEPT !.abi = ref]) :
                /\ report' = IF o.writes THEN run ELSE report
                /\ WriteResult(ResultName(FALSE, TRUE), o.rc = 0)
          /\ pc' = "package"
    /\ UNCHANGED <<run, lib, deps, ref, dumpFile, pkg>>

\* The rest of build(): assert the new dump, the reference dump and the
\* checker exist, run abi-compliance-checker with ignore_errors, and the
\* check-stage ResultWriter records its exit code.
CheckStage ==
    /\ pc = "check"
    /\ \/ /\ ~CheckInputsExist
          /\ pc' = "idle"
          /\ UNCHANGED <<results, report>>
       \/ /\ CheckInputsExist
          /\ \E o \in CheckerOutcomes(ref, dumpFile) :
                /\ report' = IF o.writes THEN run ELSE report
                /\ WriteResult(ResultName(FALSE, TRUE), o.rc = 0)
          /\ pc' = "package"
    /\ UNCHANGED <<run, lib, deps, ref, dumpFile, pkg>>

\* package(): copy abi_check/* and test/* of the build folder into a fresh
\* package folder.
PackageStep ==
    /\ pc = "package"
    /\ pkg' = [run |-> run, dumpFile |-> dumpFile, results |-> results,
               report |-> report]
    /\ pc' = "idle"
    /\ UNCHANGED <<run, lib, deps, ref, dumpFile, results, report>>

\* The environment stops the invocation while a tool runs (a CI timeout or
\* an abort): the recipe has no handler, the files stay as they are.
Interrupt ==
    /\ pc \in {"dump", "check"}
    /\ pc' = "idle"
    /\ UNCHANGED <<run, lib, deps, ref, dumpFile, results, report, pkg>>

\* No further invocation.
Finished ==
    /\ pc = "idle"
    /\ run = MaxRuns
    /\ UNCHANGED vars

Next ==
    \/ StartBuild
    \/ DumpStage
    \/ CheckStage
    \/ PackageStep
    \/ Interrupt
    \/ Finished

Spec == Init /\ [][Next]_vars

-----------------------------------------------------------------------------
(***************************************************************************)
(* Properties.                                                             *)
(***************************************************************************)

\* A step of build() that writes an abi_check verdict (spec section 8: the
\* checker is never run on a missing dump, a failed dump or a missing
\* baseline) happens only in an invocation whose own dump stage reported Ok,
\* with a dump file on disk and the reference dump present.
VerdictStepGuarded ==
    results'["abi_check"] # results["abi_check"] =>
        /\ results["abi_dump"] # None
        /\ results["abi_dump"].run = run
        /\ results["abi_dump"].ok
        /\ dumpFile # None
        /\ ref # None

VerdictNeedsDumpAndBaseline == [][VerdictStepGuarded]_vars

\* Every stage build() invoked in an invocation that reached package() left
\* a result record of that invocation (spec section 3: the absence of a
\* result file is a defect): the dump record always, the check record when
\* the dump succeeded.
RecordForEveryStage ==
    pc = "package" =>
        /\ results["abi_dump"] # None
        /\ results["abi_dump"].run = run
        /\ results["abi_dump"].ok =>
              /\ results["abi_check"] # None
              /\ results["abi_check"].run = run

\* An abi_check record of Ok written by the current invocation means the
\* library this invocation was asked to check is backward compatible with
\* the reference baseline (the check compares the library, not some file).
VerdictSound ==
    /\ results["abi_check"] # None
    /\ results["abi_check"].run = run
    /\ results["abi_check"].ok
    => <<ref, lib>> \in Compatible

-----------------------------------------------------------------------------
(***************************************************************************)
(* Refinement: the recipe implements the workflow of AbiPipeline, with    *)
(* the build folder's files, the dependencies and the tools hidden.       *)
(***************************************************************************)

Pipeline == INSTANCE AbiPipeline
    WITH stage <- pc,
         records <- results,
         published <- IF pkg = None THEN None
                      ELSE [run |-> pkg.run, records |-> pkg.results]

\* Every behaviour of build()/package() is one of the workflow: the checker
\* runs only after this invocation's dump stage reported Ok, every stage
\* that completes leaves its record, a failed assertion or an abort ends
\* the invocation without package(), and package() publishes the records.
ImplementsPipeline == Pipeline!Spec

=============================================================================
