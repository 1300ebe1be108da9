---------------------------- MODULE AbiDumpProofs ----------------------------
(***************************************************************************)
(* Proofs about the reference ABI dump recipe, for every set of ABIs and  *)
(* every number of invocations on one build folder.                       *)
(***************************************************************************)
EXTENDS AbiDump, TLAPS

\* An invocation that is under way has been numbered by StartBuild.
RunStarted == pc # "idle" => run \in Runs

\* Between build() and package(), test_abi_dump.xml is the record build()
\* of this invocation just wrote.  PackagedRecordCurrent alone is not
\* inductive: it says nothing about the record package() is about to copy.
RecordOfRun == pc = "package" => record # None /\ record.run = run

IInv == TypeOK /\ RunStarted /\ RecordOfRun /\ PackagedRecordCurrent

\* A record a ResultWriter writes is a file that exists.
LEMMA RecordNotNone ==
    ASSUME NEW r \in Runs, NEW b \in BOOLEAN
    PROVE  [run |-> r, ok |-> b] # None
BY NoneAssumption DEF Record

LEMMA InitIInv == Init => IInv
BY NoneAssumption, MaxRunsAssumption
DEF Init, IInv, TypeOK, RunStarted, RecordOfRun, PackagedRecordCurrent, Tools

LEMMA IInvInductive == IInv /\ [Next]_vars => IInv'
<1> SUFFICES ASSUME IInv, [Next]_vars PROVE IInv'
  OBVIOUS
<1> USE DEF IInv
<1>1. CASE StartBuild
  BY <1>1, MaxRunsAssumption
  DEF StartBuild, TypeOK, RunStarted, RecordOfRun, PackagedRecordCurrent, Runs
<1>2. CASE Build
  <2>1. run \in Runs
    BY <1>2 DEF Build, RunStarted
  <2>2. CASE ~(Tools \subseteq deps)
    BY <1>2, <2>2
    DEF Build, TypeOK, RunStarted, RecordOfRun, PackagedRecordCurrent
  <2>3. CASE Tools \subseteq deps
    <3>1. PICK o \in DumperOutcomes :
               /\ dumpFile' = IF o.writes
                                THEN [run |-> run, abi |-> lib, complete |-> o.rc = 0]
                                ELSE dumpFile
               /\ record' = [run |-> run, ok |-> o.rc = 0]
      BY <1>2, <2>3 DEF Build
    <3>2. pc' = "package" /\ UNCHANGED <<run, lib, deps, pkg>>
      BY <1>2, <2>3 DEF Build
    <3>3. record' \in Record /\ record' # None
      BY <2>1, <3>1, RecordNotNone DEF Record
    <3>4. dumpFile' \in DumpFile \cup {None}
      BY <2>1, <3>1 DEF TypeOK, DumpFile, DumperOutcomes
    <3>5. TypeOK'
      BY <3>2, <3>3, <3>4 DEF TypeOK
    <3>6. (RunStarted /\ RecordOfRun /\ PackagedRecordCurrent)'
      BY <2>1, <3>1, <3>2, <3>3 DEF RunStarted, RecordOfRun, PackagedRecordCurrent
    <3> QED
      BY <3>5, <3>6
  <2> QED
    BY <2>2, <2>3
<1>3. CASE Interrupt
  BY <1>3 DEF Interrupt, TypeOK, RunStarted, RecordOfRun, PackagedRecordCurrent
<1>4. CASE PackageStep
  <2>1. run \in Runs /\ record # None /\ record.run = run
    BY <1>4 DEF PackageStep, RunStarted, RecordOfRun
  <2>2. pkg' \in Package
    BY <1>4, <2>1 DEF PackageStep, Package, TypeOK
  <2> QED
    BY <1>4, <2>1, <2>2
    DEF PackageStep, TypeOK, RunStarted, RecordOfRun, PackagedRecordCurrent
<1>5. CASE Finished \/ UNCHANGED vars
  BY <1>5 DEF Finished, vars, TypeOK, RunStarted, RecordOfRun, PackagedRecordCurrent
<1> QED
  BY <1>1, <1>2, <1>3, <1>4, <1>5 DEF Next

\* Every reachable state is well typed: the build folder holds only dump
\* files and records of invocations that ran.
THEOREM TypeCorrect == Spec => []TypeOK
BY InitIInv, IInvInductive, PTL DEF Spec, IInv

\* For every number of invocations on one build folder, the
\* test_abi_dump.xml a reference package ships is the record of that
\* package's own dump: conanfile_abi_dump.py writes a record, Ok or error,
\* in every invocation that reaches package().
THEOREM RecordAlwaysCurrent == Spec => []PackagedRecordCurrent
BY InitIInv, IInvInductive, PTL DEF Spec, IInv

=============================================================================
