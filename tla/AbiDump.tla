------------------------------- MODULE AbiDump -------------------------------
(***************************************************************************)
(* The reference ABI dump recipe conanfile_abi_dump.py: build() runs       *)
(* create_dump (scripts/abi/abi_dumper.py) on the released library and    *)
(* records the outcome with ResultWriter; package() ships abi_dump/* and  *)
(* test/*; package_info publishes the dump's relative path, which the ABI *)
(* check recipe reads as its baseline.                                     *)
(*                                                                         *)
(* A behaviour is a sequence of at most MaxRuns invocations of build()    *)
(* followed by package() on ONE build folder, as in AbiCheck.             *)
(***************************************************************************)
EXTENDS Naturals

CONSTANTS
    ABIs,        \* the possible ABIs of libfep_components_plugin.so
    MaxRuns,     \* how many invocations of build() the build folder sees
    None         \* an absent file

ASSUME MaxRunsAssumption == MaxRuns \in Nat \ {0}

Runs == 1..MaxRuns

\* fep_components_plugin_dump.dump: the ABI it describes, the invocation
\* that wrote it, and whether the dumper completed it.
DumpFile == [run : Runs, abi : ABIs, complete : BOOLEAN]

\* test/result/test_abi_dump.xml: write_ok or write_error.
Record == [run : Runs, ok : BOOLEAN]

ASSUME NoneAssumption == None \notin DumpFile \cup Record \cup ABIs \cup Runs

\* The files create_dump asserts: the dumper and the plugin library.
Tools == {"abi_dumper", "plugin_lib"}

VARIABLES
    pc,        \* idle, dump (build() running) or package
    run,       \* number of the current (or last) invocation
    lib,       \* ABI of the fep_sdk_participant dependency being dumped
    deps,      \* the Tools that exist in this invocation's dependencies
    dumpFile,  \* <build>/abi_dump/fep_components_plugin_dump.dump
    record,    \* <build>/test/result/test_abi_dump.xml
    pkg        \* the package folder written by package(), None before

vars == <<pc, run, lib, deps, dumpFile, record, pkg>>

Package == [run : Runs, dumpFile : DumpFile \cup {None}, record : Record \cup {None}]

TypeOK ==
    /\ pc \in {"idle", "dump", "package"}
    /\ run \in 0..MaxRuns
    /\ lib \in ABIs
    /\ deps \subseteq Tools
    /\ dumpFile \in DumpFile \cup {None}
    /\ record \in Record \cup {None}
    /\ pkg \in Package \cup {None}

\* What one run of abi-dumper may do: exit 0 or not, write the -o file or
\* not.  A file written by a failing run is incomplete.
DumperOutcomes == [rc : {0, 1}, writes : BOOLEAN]

-----------------------------------------------------------------------------

Init ==
    /\ pc = "idle"
    /\ run = 0
    /\ lib \in ABIs
    /\ deps = Tools
    /\ dumpFile = None
    /\ record = None
    /\ pkg = None

\* Conan invokes build(): build_requirements resolves the dumper and the
\* fep_sdk_participant release anew.
StartBuild ==
    /\ pc = "idle"
    /\ run < MaxRuns
    /\ run' = run + 1
    /\ pc' = "dump"
    /\ lib' \in ABIs
    /\ deps' \in SUBSET Tools
    /\ UNCHANGED <<dumpFile, record, pkg>>

\* Mutation: a failed dump is only logged, no record is written.
BuildNoErrorRecord ==
    /\ pc = "dump"
    /\ \/ /\ ~(Tools \subseteq deps)
          /\ pc' = "idle"
          /\ UNCHANGED <<dumpFile, record>>
       \/ /\ Tools \subseteq deps
          /\ \E o \in DumperOutcomes :
                /\ dumpFile' = IF o.writes
                                 THEN [run |-> run, abi |-> lib, complete |-> o.rc = 0]
                                 ELSE dumpFile
                /\ record' = IF o.rc = 0 THEN [run |-> run, ok |-> TRUE] ELSE record
          /\ pc' = "package"
    /\ UNCHANGED <<run, lib, deps, pkg>>

\* build(): create_dump asserts that the dumper and the plugin library
\* exist (a failed assert ends the invocation without package()), runs
\* abi-dumper with ignore_errors, and ResultWriter records the exit code.
\* There is no early return: package() follows either way.
Build ==
    /\ pc = "dump"
    /\ \/ /\ ~(Tools \subseteq deps)
          /\ pc' = "idle"
          /\ UNCHANGED <<dumpFile, record>>
       \/ /\ Tools \subseteq deps
          /\ \E o \in DumperOutcomes :
                /\ dumpFile' = IF o.writes
                                 THEN [run |-> run, abi |-> lib, complete |-> o.rc = 0]
                                 ELSE dumpFile
                /\ record' = [run |-> run, ok |-> o.rc = 0]
          /\ pc' = "package"
    /\ UNCHANGED <<run, lib, deps, pkg>>

\* The environment stops the invocation while abi-dumper runs.
Interrupt ==
    /\ pc = "dump"
    /\ pc' = "idle"
    /\ UNCHANGED <<run, lib, deps, dumpFile, record, pkg>>

\* package(): copy abi_dump/* and test/* of the build folder.
PackageStep ==
    /\ pc = "package"
    /\ pkg' = [run |-> run, dumpFile |-> dumpFile, record |-> record]
    /\ pc' = "idle"
    /\ UNCHANGED <<run, lib, deps, dumpFile, record>>

\* No further invocation.
Finished ==
    /\ pc = "idle"
    /\ run = MaxRuns
    /\ UNCHANGED vars

Next ==
    \/ StartBuild
    \/ Build
    \/ Interrupt
    \/ PackageStep
    \/ Finished

Spec == Init /\ [][Next]_vars

-----------------------------------------------------------------------------
(***************************************************************************)
(* Properties.                                                             *)
(***************************************************************************)

\* The test_abi_dump.xml a reference package ships tells the outcome of
\* the dump of that package's invocation, never of an earlier invocation
\* in the build folder, whether the dump succeeded or failed.
PackagedRecordCurrent ==
    pkg # None => pkg.record # None /\ pkg.record.run = pkg.run

\* A reference package that ships a dump ships a complete dump made by its
\* own invocation of the library it was built against (spec: a Reference
\* Baseline is an ABI dump of a released version), so that the ABI check,
\* which only asserts that the file exists, compares against it.
PackagedDumpUsable ==
    pkg # None /\ pkg.dumpFile # None =>
        /\ pkg.dumpFile.run = pkg.run
        /\ pkg.dumpFile.complete

=============================================================================
