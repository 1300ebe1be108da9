--------------------------- MODULE AbiCheckProofs ---------------------------
(***************************************************************************)
(* Proofs about the ABI check recipe, for every set of ABIs, every         *)
(* compatibility relation and every number of invocations.                *)
(***************************************************************************)
EXTENDS AbiCheck, TLAPS

\* The facts about a record the invariants below rely on.
DumpRecordOk ==
    /\ results["abi_dump"] # None
    /\ results["abi_dump"].run = run
    /\ results["abi_dump"].ok

(***************************************************************************)
(* The inductive invariant behind RecordForEveryStage and the action      *)
(* property: while the invocation is between its stages, the dump record  *)
(* on disk is the one this invocation wrote, and once the check stage has *)
(* run so is the check record.  RecordForEveryStage alone is not          *)
(* inductive: it says nothing about pc = "check".                          *)
(***************************************************************************)
StageInv ==
    /\ pc = "check" => DumpRecordOk
    /\ pc = "package" =>
          /\ results["abi_dump"] # None
          /\ results["abi_dump"].run = run
          /\ results["abi_dump"].ok =>
                /\ results["abi_check"] # None
                /\ results["abi_check"].run = run

IInv == TypeOK /\ StageInv

\* The writers of the two stages write two different files.
LEMMA ResultNamesDiffer ==
    /\ ResultName(TRUE, FALSE) = "abi_dump"
    /\ ResultName(FALSE, TRUE) = "abi_check"
    /\ "abi_dump" # "abi_check"
BY DEF ResultName

\* The record written for an exit code says Ok exactly for exit code 0.
LEMMA RecordOfExitCode ==
    ASSUME NEW r, NEW c, NEW x, x = [run |-> r, ok |-> c = 0]
    PROVE  x.run = r /\ (x.ok <=> c = 0)
OBVIOUS

\* A record a ResultWriter writes is a file that exists.
LEMMA RecordNotNone ==
    ASSUME NEW r \in Runs, NEW b \in BOOLEAN
    PROVE  [run |-> r, ok |-> b] # None
BY NoneAssumption DEF Record

-----------------------------------------------------------------------------

\* An invocation that is under way has been numbered by StartBuild.
RunStarted == pc # "idle" => run \in Runs

TypeInv == TypeOK /\ RunStarted

LEMMA TypeInvInductive == TypeInv /\ [Next]_vars => TypeInv'
<1> SUFFICES ASSUME TypeOK, RunStarted, [Next]_vars PROVE TypeInv'
  BY DEF TypeInv
<1>1. CASE StartBuild
  BY <1>1, MaxRunsAssumption DEF StartBuild, TypeInv, TypeOK, RunStarted, Runs
<1>2. CASE DumpStage
  <2>1. run \in Runs
    BY <1>2 DEF DumpStage, RunStarted
  <2>2. CASE ~DumpToolsExist
    BY <1>2, <2>2 DEF DumpStage, TypeInv, TypeOK, RunStarted
  <2>3. CASE DumpToolsExist
    <3>1. PICK o \in DumperOutcomes :
               /\ dumpFile' = IF o.writes THEN NewDump(o.rc) ELSE dumpFile
               /\ WriteResult(ResultName(TRUE, FALSE), o.rc = 0)
               /\ pc' = IF o.rc = 0 THEN "check" ELSE "package"
      BY <1>2, <2>3 DEF DumpStage
    <3>2. NewDump(o.rc) \in DumpFile
      BY <2>1 DEF NewDump, DumpFile, TypeOK, DumperOutcomes
    <3>3. results' \in [ResultNames -> Record \cup {None}]
      BY <3>1, <2>1, ResultNamesDiffer DEF WriteResult, Record, TypeOK, ResultNames
    <3> QED
      BY <1>2, <2>1, <3>1, <3>2, <3>3 DEF DumpStage, TypeInv, TypeOK, RunStarted
  <2> QED
    BY <2>2, <2>3
<1>3. CASE CheckStage
  <2>1. run \in Runs
    BY <1>3 DEF CheckStage, RunStarted
  <2>2. CASE ~CheckInputsExist
    BY <1>3, <2>2 DEF CheckStage, TypeInv, TypeOK, RunStarted
  <2>3. CASE CheckInputsExist
    <3>1. PICK o \in CheckerOutcomes(ref, dumpFile) :
               /\ report' = IF o.writes THEN run ELSE report
               /\ WriteResult(ResultName(FALSE, TRUE), o.rc = 0)
      BY <1>3, <2>3 DEF CheckStage
    <3>2. results' \in [ResultNames -> Record \cup {None}]
      BY <3>1, <2>1, ResultNamesDiffer DEF WriteResult, Record, TypeOK, ResultNames
    <3>3. report' \in Runs \cup {None}
      BY <3>1, <2>1 DEF TypeOK
    <3> QED
      BY <1>3, <2>1, <2>3, <3>2, <3>3 DEF CheckStage, TypeInv, TypeOK, RunStarted
  <2> QED
    BY <2>2, <2>3
<1>4. CASE PackageStep
  BY <1>4 DEF PackageStep, TypeInv, TypeOK, RunStarted, Package
<1>5. CASE Interrupt
  BY <1>5 DEF Interrupt, TypeInv, TypeOK, RunStarted
<1>6. CASE Finished \/ UNCHANGED vars
  BY <1>6 DEF Finished, TypeInv, TypeOK, RunStarted, vars
<1> QED
  BY <1>1, <1>2, <1>3, <1>4, <1>5, <1>6 DEF Next

\* Every reachable state is well typed: the variables hold the files and
\* records build() and package() can leave in the build folder.
THEOREM TypeCorrect == Spec => []TypeOK
<1>1. Init => TypeInv
  BY NoneAssumption, MaxRunsAssumption DEF Init, TypeInv, TypeOK, RunStarted
<1>2. []TypeInv => []TypeOK
  BY PTL DEF TypeInv
<1> QED
  BY <1>1, <1>2, TypeInvInductive, PTL DEF Spec

-----------------------------------------------------------------------------

LEMMA StageInvInductive ==
    TypeInv /\ StageInv /\ [Next]_vars => StageInv'
<1> SUFFICES ASSUME TypeInv, StageInv, [Next]_vars PROVE StageInv'
  OBVIOUS
<1> USE DEF TypeInv, TypeOK
<1>1. CASE StartBuild
  BY <1>1 DEF StartBuild, StageInv
<1>2. CASE DumpStage
  <2>1. CASE ~DumpToolsExist
    BY <1>2, <2>1 DEF DumpStage, StageInv
  <2>2. CASE DumpToolsExist
    <3>1. PICK o \in DumperOutcomes :
               /\ dumpFile' = IF o.writes THEN NewDump(o.rc) ELSE dumpFile
               /\ WriteResult(ResultName(TRUE, FALSE), o.rc = 0)
               /\ pc' = IF o.rc = 0 THEN "check" ELSE "package"
      BY <1>2, <2>2 DEF DumpStage
    <3>2. results'["abi_dump"] = [run |-> run, ok |-> o.rc = 0]
      BY <3>1, ResultNamesDiffer DEF WriteResult, ResultNames
    <3>3. run' = run /\ run \in Runs
      BY <1>2 DEF DumpStage, RunStarted
    <3>4. CASE o.rc = 0
      <4>1. pc' = "check"
        BY <3>1, <3>4
      <4>2. results'["abi_dump"] = [run |-> run, ok |-> TRUE]
        BY <3>2, <3>4
      <4>3. results'["abi_dump"] # None
        <5>1. [run |-> run, ok |-> TRUE] # None
          BY <3>3, RecordNotNone
        <5> QED
          BY <4>2, <5>1
      <4>4. DumpRecordOk'
        BY <3>3, <4>2, <4>3 DEF DumpRecordOk
      <4> QED
        BY <4>1, <4>4 DEF StageInv
    <3>5. CASE o.rc # 0
      <4>1. pc' = "package"
        BY <3>1, <3>5
      <4>2. results'["abi_dump"] = [run |-> run, ok |-> FALSE]
        BY <3>2, <3>5
      <4>3. results'["abi_dump"] # None /\ results'["abi_dump"].run = run'
        <5>1. [run |-> run, ok |-> FALSE] # None
          BY <3>3, RecordNotNone
        <5> QED
          BY <3>3, <4>2, <5>1
      <4>4. ~results'["abi_dump"].ok
        BY <4>2
      <4> QED
        BY <4>1, <4>3, RecordOfExitCode, <4>4 DEF StageInv
    <3> QED
      BY <3>4, <3>5
  <2> QED
    BY <2>1, <2>2
<1>3. CASE CheckStage
  <2>1. CASE ~CheckInputsExist
    BY <1>3, <2>1 DEF CheckStage, StageInv
  <2>2. CASE CheckInputsExist
    <3>1. PICK o \in CheckerOutcomes(ref, dumpFile) :
               /\ report' = IF o.writes THEN run ELSE report
               /\ WriteResult(ResultName(FALSE, TRUE), o.rc = 0)
      BY <1>3, <2>2 DEF CheckStage
    <3>2. /\ results'["abi_check"] = [run |-> run, ok |-> o.rc = 0]
          /\ results'["abi_dump"] = results["abi_dump"]
      BY <3>1, ResultNamesDiffer DEF WriteResult, ResultNames
    <3>3. run \in Runs /\ run' = run /\ pc' = "package"
      BY <1>3, <2>2 DEF CheckStage, RunStarted
    <3>4. results'["abi_check"] # None
      <4>1. [run |-> run, ok |-> o.rc = 0] # None
        BY <3>3, RecordNotNone
      <4> QED
        BY <3>2, <4>1
    <3>5. results'["abi_dump"] # None /\ results'["abi_dump"].run = run'
      BY <1>3, <3>2, <3>3 DEF CheckStage, StageInv, DumpRecordOk
    <3> QED
      BY <3>2, <3>3, <3>4, <3>5 DEF StageInv
  <2> QED
    BY <2>1, <2>2
<1>4. CASE PackageStep
  BY <1>4 DEF PackageStep, StageInv
<1>5. CASE Interrupt
  BY <1>5 DEF Interrupt, StageInv
<1>6. CASE Finished \/ UNCHANGED vars
  BY <1>6 DEF Finished, StageInv, DumpRecordOk, vars
<1> QED
  BY <1>1, <1>2, <1>3, <1>4, <1>5, <1>6 DEF Next

\* The invariant TypeInv /\ StageInv holds in every reachable state.
LEMMA StageInvariant == Spec => [](TypeInv /\ StageInv)
<1>1. Init => TypeInv /\ StageInv
  BY NoneAssumption, MaxRunsAssumption DEF Init, TypeInv, TypeOK, RunStarted, StageInv
<1>2. TypeInv /\ StageInv /\ [Next]_vars => (TypeInv /\ StageInv)'
  BY TypeInvInductive, StageInvInductive
<1> QED
  BY <1>1, <1>2, PTL DEF Spec

\* Every stage that an invocation reaching package() invoked left its own
\* result record (spec section 3), for any number of invocations on the
\* same build folder.
THEOREM RecordsWritten == Spec => []RecordForEveryStage
<1>1. StageInv => RecordForEveryStage
  BY DEF StageInv, RecordForEveryStage
<1> QED
  BY <1>1, StageInvariant, PTL

\* A step that writes the abi_check verdict only happens in an invocation
\* whose own dump stage reported Ok, with a dump file and the reference dump
\* on disk: no verdict on a failed dump or a missing baseline (spec 8).
THEOREM VerdictGuarded == Spec => VerdictNeedsDumpAndBaseline
<1>1. TypeInv /\ StageInv /\ [Next]_vars => [VerdictStepGuarded]_vars
  <2> SUFFICES ASSUME TypeInv, StageInv, [Next]_vars,
                      results'["abi_check"] # results["abi_check"]
               PROVE  /\ results["abi_dump"] # None
                      /\ results["abi_dump"].run = run
                      /\ results["abi_dump"].ok
                      /\ dumpFile # None
                      /\ ref # None
    BY DEF VerdictStepGuarded
  <2> USE DEF TypeInv, TypeOK
  <2>1. CASE DumpStage
    <3>1. CASE ~DumpToolsExist
      BY <2>1, <3>1 DEF DumpStage
    <3>2. CASE DumpToolsExist
      <4>1. PICK o \in DumperOutcomes :
                 WriteResult(ResultName(TRUE, FALSE), o.rc = 0)
        BY <2>1, <3>2 DEF DumpStage
      <4> QED
        BY <4>1, ResultNamesDiffer DEF WriteResult, ResultNames
    <3> QED
      BY <3>1, <3>2
  <2>2. CASE CheckStage
    <3>1. CASE ~CheckInputsExist
      BY <2>2, <3>1 DEF CheckStage
    <3>2. CASE CheckInputsExist
      BY <2>2, <3>2 DEF CheckStage, StageInv, DumpRecordOk, CheckInputsExist
    <3> QED
      BY <3>1, <3>2
  <2>3. CASE ~DumpStage /\ ~CheckStage
    BY <2>3 DEF Next, StartBuild, PackageStep, Interrupt, Finished, vars
  <2> QED
    BY <2>1, <2>2, <2>3
<1> QED
  BY <1>1, StageInvariant, PTL DEF Spec, VerdictNeedsDumpAndBaseline

-----------------------------------------------------------------------------
(***************************************************************************)
(* Soundness of the verdict.  The checker compares the reference with     *)
(* whatever fep_components_plugin_dump.dump is on disk; that file is the  *)
(* dump of the current library only when this invocation wrote it.         *)
(* VerdictInv records both halves: an Ok verdict of this invocation is    *)
(* about the dump on disk, and a dump written by this invocation is of    *)
(* its library.  The bounds on the runs of the records are what keep a    *)
(* verdict of an earlier invocation from being mistaken for this one's.   *)
(***************************************************************************)
VerdictOfRun ==
    /\ results["abi_check"] # None
    /\ results["abi_check"].run = run
    /\ results["abi_check"].ok

VerdictInv ==
    /\ dumpFile # None =>
          /\ dumpFile.run <= run
          /\ dumpFile.run = run => dumpFile.abi = lib
    /\ results["abi_check"] # None => results["abi_check"].run <= run
    /\ pc \in {"dump", "check"} /\ results["abi_check"] # None =>
          results["abi_check"].run < run
    /\ VerdictOfRun => dumpFile # None /\ <<ref, dumpFile.abi>> \in Compatible

\* abi-compliance-checker exits 0 only for a compatible pair.
LEMMA CheckerOkMeansCompatible ==
    ASSUME NEW old, NEW new, NEW o \in CheckerOutcomes(old, new), o.rc = 0
    PROVE  <<old, new.abi>> \in Compatible
BY DEF CheckerOutcomes

LEMMA VerdictInvInductive ==
    TypeInv /\ VerdictInv /\ [Next]_vars => VerdictInv'
<1> SUFFICES ASSUME TypeInv, VerdictInv, [Next]_vars PROVE VerdictInv'
  OBVIOUS
<1> USE DEF TypeInv, TypeOK, RunStarted, Runs
<1>1. CASE StartBuild
  <2>1. /\ run' = run + 1
        /\ pc' = "dump"
        /\ UNCHANGED <<ref, dumpFile, results>>
    BY <1>1 DEF StartBuild
  <2>2. dumpFile # None => dumpFile.run \in Nat /\ dumpFile.run <= run
    BY DEF VerdictInv, DumpFile
  <2>3. results["abi_check"] # None =>
           results["abi_check"].run \in Nat /\ results["abi_check"].run <= run
    BY DEF VerdictInv, Record, ResultNames
  <2>4. ~VerdictOfRun'
    BY <2>1, <2>3 DEF VerdictOfRun
  <2> QED
    BY <2>1, <2>2, <2>3, <2>4 DEF VerdictInv
<1>2. CASE DumpStage
  <2>1. CASE ~DumpToolsExist
    BY <1>2, <2>1 DEF DumpStage, VerdictInv, VerdictOfRun
  <2>2. CASE DumpToolsExist
    <3>1. PICK o \in DumperOutcomes :
               /\ dumpFile' = IF o.writes THEN NewDump(o.rc) ELSE dumpFile
               /\ WriteResult(ResultName(TRUE, FALSE), o.rc = 0)
               /\ pc' = IF o.rc = 0 THEN "check" ELSE "package"
      BY <1>2, <2>2 DEF DumpStage
    <3>2. results'["abi_check"] = results["abi_check"]
      BY <3>1, ResultNamesDiffer DEF WriteResult, ResultNames
    <3>3. dumpFile' # None => dumpFile'.run <= run /\ (dumpFile'.run = run => dumpFile'.abi = lib)
      BY <1>2, <3>1 DEF VerdictInv, NewDump, DumpFile, DumpStage
    <3>4. ~VerdictOfRun'
      BY <1>2, <3>2 DEF VerdictInv, VerdictOfRun, DumpStage, Record
    <3> QED
      BY <1>2, <3>1, <3>2, <3>3, <3>4 DEF DumpStage, VerdictInv
  <2> QED
    BY <2>1, <2>2
<1>3. CASE CheckStage
  <2>1. CASE ~CheckInputsExist
    BY <1>3, <2>1 DEF CheckStage, VerdictInv, VerdictOfRun
  <2>2. CASE CheckInputsExist
    <3>1. PICK o \in CheckerOutcomes(ref, dumpFile) :
               /\ report' = IF o.writes THEN run ELSE report
               /\ WriteResult(ResultName(FALSE, TRUE), o.rc = 0)
      BY <1>3, <2>2 DEF CheckStage
    <3>2. /\ results'["abi_check"] # None
          /\ results'["abi_check"].run = run
          /\ results'["abi_check"].ok <=> o.rc = 0
      <4>1. results'["abi_check"] = [run |-> run, ok |-> o.rc = 0]
        BY <3>1, ResultNamesDiffer DEF WriteResult, ResultNames
      <4>2. run \in Runs
        BY <1>3 DEF CheckStage
      <4>3. [run |-> run, ok |-> o.rc = 0] # None
        BY <4>2, RecordNotNone
      <4> QED
        BY <4>1, <4>3, RecordOfExitCode
    <3>3. o.rc = 0 => <<ref, dumpFile.abi>> \in Compatible
      BY <3>1, CheckerOkMeansCompatible
    <3>4. /\ run' = run
          /\ lib' = lib
          /\ ref' = ref
          /\ dumpFile' = dumpFile
          /\ pc' = "package"
      BY <1>3, <2>2 DEF CheckStage
    <3>7. run \in Nat /\ dumpFile # None
      BY <2>2 DEF CheckInputsExist
    <3>5. VerdictOfRun' => dumpFile' # None /\ <<ref', dumpFile'.abi>> \in Compatible
      <4>3. VerdictOfRun' => o.rc = 0
        BY <3>2 DEF VerdictOfRun
      <4> QED
        BY <3>3, <3>4, <3>7, <4>3
    <3>6. results'["abi_check"] # None => results'["abi_check"].run <= run'
      BY <3>2, <3>4, <3>7
    <3> QED
      BY <3>4, <3>5, <3>6, <3>7 DEF VerdictInv
  <2> QED
    BY <2>1, <2>2
<1>4. CASE PackageStep
  BY <1>4 DEF PackageStep, VerdictInv, VerdictOfRun
<1>5. CASE Interrupt
  BY <1>5 DEF Interrupt, VerdictInv, VerdictOfRun
<1>6. CASE Finished \/ UNCHANGED vars
  BY <1>6 DEF Finished, VerdictInv, VerdictOfRun, vars
<1> QED
  BY <1>1, <1>2, <1>3, <1>4, <1>5, <1>6 DEF Next

LEMMA VerdictInvariant == Spec => [](TypeInv /\ VerdictInv)
<1>1. Init => TypeInv
  BY NoneAssumption, MaxRunsAssumption DEF Init, TypeInv, TypeOK, RunStarted
<1>2. Init => VerdictInv
  <2> SUFFICES ASSUME Init PROVE VerdictInv
    OBVIOUS
  <2>1. results["abi_check"] = None /\ dumpFile = None
    BY DEF Init, ResultNames
  <2> QED
    BY <2>1 DEF VerdictInv, VerdictOfRun
<1>3. TypeInv /\ VerdictInv /\ [Next]_vars => (TypeInv /\ VerdictInv)'
  BY TypeInvInductive, VerdictInvInductive
<1> QED
  BY <1>1, <1>2, <1>3, PTL DEF Spec

\* On a fresh build folder, as `conan create` uses, the abi_check verdict
\* Ok means the library checked is backward compatible with the reference:
\* the dump the checker read can only be the one this invocation wrote.
THEOREM FreshFolderVerdictSound ==
    ASSUME MaxRuns = 1
    PROVE  Spec => []VerdictSound
<1>1. TypeInv /\ VerdictInv => VerdictSound
  <2> SUFFICES ASSUME TypeInv, VerdictInv, VerdictOfRun
               PROVE  <<ref, lib>> \in Compatible
    BY DEF VerdictSound, VerdictOfRun
  <2>1. dumpFile # None /\ <<ref, dumpFile.abi>> \in Compatible
    BY DEF VerdictInv
  <2>2. run = 1
    BY DEF VerdictOfRun, TypeInv, TypeOK, Record, Runs, ResultNames
  <2>3. dumpFile.run = 1
    BY <2>1 DEF TypeInv, TypeOK, DumpFile, Runs
  <2>4. dumpFile.abi = lib
    BY <2>1, <2>2, <2>3 DEF VerdictInv
  <2> QED
    BY <2>1, <2>4
<1> QED
  BY <1>1, VerdictInvariant, PTL


-----------------------------------------------------------------------------
(***************************************************************************)
(* Refinement of AbiPipeline.  Under the mapping of AbiCheck (stage is pc, *)
(* the records are the result files, the published records those of the  *)
(* package folder) every step of the recipe is a step of the workflow or *)
(* leaves the mapped state alone; no invariant is needed, because each    *)
(* action's guard is the abstract action's guard.                         *)
(***************************************************************************)

\* The mapped state of a step that only moves pc from a stage to idle.
LEMMA StopStep ==
    ASSUME pc \in {"dump", "check"}, pc' = "idle",
           UNCHANGED <<run, results, pkg>>
    PROVE  Pipeline!Stop
BY DEF Pipeline!Stop

\* Every step of build() and package() is a step of AbiPipeline or a
\* stutter of it.
LEMMA StepRefines == TypeInv /\ [Next]_vars => [Pipeline!Next]_Pipeline!vars
<1> SUFFICES ASSUME TypeInv, [Next]_vars PROVE [Pipeline!Next]_Pipeline!vars
  OBVIOUS
<1>1. CASE StartBuild
  BY <1>1 DEF StartBuild, Pipeline!Next, Pipeline!Start
<1>2. CASE DumpStage
  <2>1. CASE ~DumpToolsExist
    BY <1>2, <2>1, StopStep DEF DumpStage, Pipeline!Next
  <2>2. CASE DumpToolsExist
    <3>1. PICK o \in DumperOutcomes :
               /\ WriteResult(ResultName(TRUE, FALSE), o.rc = 0)
               /\ pc' = IF o.rc = 0 THEN "check" ELSE "package"
      BY <1>2, <2>2 DEF DumpStage
    <3>2. results' = [results EXCEPT !["abi_dump"] = [run |-> run, ok |-> o.rc = 0]]
      BY <3>1, ResultNamesDiffer DEF WriteResult
    <3>3. Pipeline!RecordDump
      BY <1>2, <3>1, <3>2 DEF DumpStage, Pipeline!RecordDump
    <3> QED
      BY <3>3 DEF Pipeline!Next
  <2> QED
    BY <2>1, <2>2
<1>3. CASE CheckStage
  <2>1. CASE ~CheckInputsExist
    BY <1>3, <2>1, StopStep DEF CheckStage, Pipeline!Next
  <2>2. CASE CheckInputsExist
    <3>1. PICK o \in CheckerOutcomes(ref, dumpFile) :
               WriteResult(ResultName(FALSE, TRUE), o.rc = 0)
      BY <1>3, <2>2 DEF CheckStage
    <3>2. results' = [results EXCEPT !["abi_check"] = [run |-> run, ok |-> o.rc = 0]]
      BY <3>1, ResultNamesDiffer DEF WriteResult
    <3>3. Pipeline!RecordCheck
      BY <1>3, <2>2, <3>2 DEF CheckStage, Pipeline!RecordCheck
    <3> QED
      BY <3>3 DEF Pipeline!Next
  <2> QED
    BY <2>1, <2>2
<1>4. CASE PackageStep
  <2>1. pkg' \in Package
    BY <1>4 DEF PackageStep, Package, TypeInv, TypeOK, RunStarted
  <2>2. pkg' # None
    BY <2>1, NoPackageIsNone
  <2>3. Pipeline!Publish
    BY <1>4, <2>2 DEF PackageStep, Pipeline!Publish
  <2> QED
    BY <2>3 DEF Pipeline!Next
<1>5. CASE Interrupt
  BY <1>5, StopStep DEF Interrupt, Pipeline!Next
<1>6. CASE Finished \/ UNCHANGED vars
  BY <1>6 DEF Finished, vars, Pipeline!vars
<1> QED
  BY <1>1, <1>2, <1>3, <1>4, <1>5, <1>6 DEF Next

\* The recipe implements the ABI workflow of AbiPipeline: the checker runs
\* only after an Ok dump of the same invocation, every completed stage
\* leaves its record, and package() publishes exactly the records on disk.
THEOREM RefinesPipeline == Spec => ImplementsPipeline
<1>1. Init => Pipeline!Init
  BY NoneAssumption DEF Init, Pipeline!Init, ResultNames, Pipeline!StageNames
<1>2. Init => TypeInv
  BY NoneAssumption, MaxRunsAssumption DEF Init, TypeInv, TypeOK, RunStarted
<1> QED
  BY <1>1, <1>2, TypeInvInductive, StepRefines, PTL
  DEF Spec, ImplementsPipeline, Pipeline!Spec

=====
