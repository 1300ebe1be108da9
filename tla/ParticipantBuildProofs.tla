------------------------ MODULE ParticipantBuildProofs ------------------------
(***************************************************************************)
(* Proofs about ParticipantBuild for every MaxRuns: type correctness, and *)
(* that pop_env_var restores CONAN_CMAKE_GENERATOR (GeneratorRestored).   *)
(***************************************************************************)
EXTENDS ParticipantBuild, TLAPS

\* What pop_env_var keeps about the variable while build() is inside the
\* with-block: the saved value is the one the invocation started with, and
\* the variable is absent exactly when a value was saved.
EnvInv ==
    /\ pc \in {"cmake", "restore"} =>
          /\ saved = GetEnv(envStart)
          /\ env = IF saved # "empty" THEN "absent" ELSE envStart
    /\ pc \notin {"cmake", "restore"} => env = envStart

\* The CMake loop index stays inside CMakeSteps while steps are pending.
IdxInv == idx \in 1..(Len(CMakeSteps) + 1)

-----------------------------------------------------------------------------
(***************************************************************************)
(* Lemmas about the helpers.                                               *)
(***************************************************************************)

\* Every way conan and the environment can start an invocation is an Opts.
LEMMA InvocationsTyped == Invocations \subseteq Opts
BY DEF Invocations

\* The ctest folder OpenCppCoverage is given is one of the two it knows.
LEMMA CTestFolderTyped ==
    ASSUME NEW hasTest \in BOOLEAN, NEW cd
    PROVE  CTestFolder(hasTest, cd) \in {"build", "ctest_dir"}
<1>1. ~PyIn(PyStr("test"), Iterdir(hasTest))
  <2>1. CASE hasTest
    <3>1. Iterdir(hasTest) = {PyPath("test")}
      BY <2>1 DEF Iterdir
    <3>2. DOMAIN PyStr("test") # DOMAIN PyPath("test")
      BY DEF PyStr, PyPath
    <3> QED
      BY <3>1, <3>2 DEF PyIn, PyEq
  <2>2. CASE ~hasTest
    BY <2>2 DEF Iterdir, PyIn
  <2> QED
    BY <2>1, <2>2
<1> QED
  BY <1>1 DEF CTestFolder

-----------------------------------------------------------------------------
(***************************************************************************)
(* Type correctness.                                                       *)
(***************************************************************************)

\* The CMake steps, by position.
LEMMA CMakeStepsFacts ==
    /\ Len(CMakeSteps) = 4
    /\ \A i \in 1..Len(CMakeSteps) : CMakeSteps[i] \in StepNames
<1>1. Len(CMakeSteps) = 4
  BY DEF CMakeSteps
<1>2. ASSUME NEW i \in 1..4 PROVE CMakeSteps[i] \in StepNames
  <2>1. i = 1 \/ i = 2 \/ i = 3 \/ i = 4
    OBVIOUS
  <2> QED
    BY <2>1 DEF CMakeSteps, StepNames
<1> QED
  BY <1>1, <1>2

\* Once build() has been called, run numbers an invocation.
RunStarted == pc # "idle" => run \in Runs

TypeInv == TypeOK /\ RunStarted

LEMMA TypeInvInductive == TypeInv /\ [Next]_vars => TypeInv'
<1> SUFFICES ASSUME TypeOK, RunStarted, [Next]_vars PROVE TypeInv'
  BY DEF TypeInv
<1> USE DEF TypeInv, TypeOK, RunStarted
<1>1. CASE StartBuild
  <2>1. /\ run' = run + 1 /\ run < MaxRuns
        /\ opts' \in Invocations
        /\ envStart' \in EnvValues /\ env' = envStart'
        /\ saved' = "empty" /\ idx' = 1 /\ steps' = {} /\ failed' = FALSE
        /\ mm' = None /\ coverage' = None /\ blackDuck' = "not_run"
        /\ pc' = "metamodel"
        /\ UNCHANGED <<testFolder, changelogFile, pkg>>
    BY <1>1, Zenon DEF StartBuild
  <2>2. run' \in Runs
    BY <2>1, MaxRunsAssumption DEF Runs
  <2>3. opts' \in Opts
    BY <2>1, InvocationsTyped
  <2>4. idx' \in 1..(Len(CMakeSteps) + 1)
    BY <2>1, CMakeStepsFacts
  <2>5. pc' \in PCs /\ RunStarted'
    BY <2>1, <2>2 DEF PCs
  <2>6. /\ envStart' \in EnvValues /\ env' \in EnvValues
        /\ saved' \in {"empty", "Ninja"}
    BY <2>1
  <2>7. /\ steps' \subseteq StepNames /\ failed' \in BOOLEAN
        /\ mm' \in BOOLEAN \cup {None}
    BY <2>1
  <2>8. /\ coverage' \in CoverageRun \cup {None}
        /\ blackDuck' \in {"not_run", "scanned", "warned"}
    BY <2>1
  <2>9. /\ testFolder' \in BOOLEAN /\ changelogFile' \in Runs \cup {None}
        /\ pkg' \in Package \cup {None}
    BY <2>1
  <2> QED
    BY <2>2, <2>3, <2>4, <2>5, <2>6, <2>7, <2>8, <2>9 DEF Runs
<1>2. CASE ValidateMetamodel
  BY <1>2 DEF ValidateMetamodel, MetamodelResults, PCs
<1>3. CASE PopEnvVar
  BY <1>3 DEF PopEnvVar, GetEnv, EnvValues, PCs
<1>4. CASE CMakeStep
  <2>1. idx <= Len(CMakeSteps) /\ pc = "cmake"
    BY <1>4, Zenon DEF CMakeStep
  <2>2. idx \in 1..Len(CMakeSteps) /\ CMakeSteps[idx] \in StepNames
    BY <2>1, CMakeStepsFacts
  <2> DEFINE s == CMakeSteps[idx]
  <2>3. UNCHANGED <<run, opts, envStart, env, saved, mm,
                   changelogFile, coverage, blackDuck, pkg>>
    BY <1>4, Zenon DEF CMakeStep
  <2> DEFINE Advance == /\ idx' = idx + 1
                        /\ UNCHANGED <<failed, pc>>
                        /\ steps' \in {steps, steps \cup {s}}
                        /\ testFolder' \in BOOLEAN
               Raise == /\ failed' = TRUE
                        /\ pc' = "restore"
                        /\ UNCHANGED <<idx, steps, testFolder>>
  <2>4. Advance \/ Raise
    BY <1>4, Zenon DEF CMakeStep
  <2>5. /\ idx' \in 1..(Len(CMakeSteps) + 1)
        /\ steps' \subseteq StepNames
        /\ testFolder' \in BOOLEAN /\ failed' \in BOOLEAN
        /\ pc' \in PCs /\ pc' # "idle"
    <3>1. CASE Advance
      BY <2>1, <2>2, <3>1 DEF PCs
    <3>2. CASE Raise
      BY <3>2 DEF PCs
    <3> QED
      BY <2>4, <3>1, <3>2
  <2> QED
    BY <2>1, <2>3, <2>5
<1>5. CASE CMakeDone
  BY <1>5 DEF CMakeDone, PCs
<1>6. CASE RestoreEnvVar
  BY <1>6 DEF RestoreEnvVar, EnvValues, PCs
<1>7. CASE WriteChangeLog
  BY <1>7 DEF WriteChangeLog, PCs
<1>8. CASE RunCoverage
  <2>1. run \in Runs
    BY <1>8 DEF RunCoverage
  <2>2. /\ CTestFolder(testFolder, opts.ctestDir) \in {"build", "ctest_dir"}
        /\ ClaimsNoTests(testFolder, opts.ctestDir) \in BOOLEAN
    BY CTestFolderTyped DEF ClaimsNoTests
  <2>3. coverage' \in CoverageRun \cup {None}
    BY <1>8, <2>1, <2>2 DEF RunCoverage, CoverageRun
  <2> QED
    BY <1>8, <2>3 DEF RunCoverage, PCs
<1>9. CASE BlackDuckScan
  BY <1>9 DEF BlackDuckScan, PCs
<1>10. CASE PackageStep
  BY <1>10 DEF PackageStep, Package, PCs
<1>11. CASE Finished \/ UNCHANGED vars
  BY <1>11 DEF Finished, vars
<1> QED
  BY <1>1, <1>2, <1>3, <1>4, <1>5, <1>6, <1>7, <1>8, <1>9, <1>10, <1>11
  DEF Next

LEMMA InitTyped == Init => TypeInv
<1> SUFFICES ASSUME Init PROVE TypeInv
  OBVIOUS
<1>1. opts \in Opts
  <2>1. NoOpts \in Opts
    BY DEF NoOpts, Opts
  <2> QED
    BY <2>1 DEF Init
<1>2. idx \in 1..(Len(CMakeSteps) + 1)
  BY CMakeStepsFacts DEF Init
<1>3. /\ pc \in PCs /\ run \in 0..MaxRuns /\ RunStarted
      /\ envStart \in EnvValues /\ env \in EnvValues
      /\ saved \in {"empty", "Ninja"}
  BY MaxRunsAssumption DEF Init, PCs, EnvValues, RunStarted
<1>4. /\ steps \subseteq StepNames /\ failed \in BOOLEAN
      /\ mm \in BOOLEAN \cup {None} /\ testFolder \in BOOLEAN
      /\ changelogFile \in Runs \cup {None}
      /\ coverage \in CoverageRun \cup {None}
      /\ blackDuck \in {"not_run", "scanned", "warned"}
      /\ pkg \in Package \cup {None}
  BY DEF Init
<1> QED
  BY <1>1, <1>2, <1>3, <1>4 DEF TypeInv, TypeOK

\* Every reachable state is well typed: the variables hold the values the
\* recipe's calls and the files of the build folder can take.
THEOREM TypeCorrect == Spec => []TypeOK
<1>1. Init => TypeInv
  BY InitTyped
<1>2. TypeInv => TypeOK
  BY DEF TypeInv
<1> QED
  BY <1>1, <1>2, TypeInvInductive, PTL DEF Spec

-----------------------------------------------------------------------------
(***************************************************************************)
(* pop_env_var.                                                            *)
(***************************************************************************)

LEMMA EnvInvInductive == TypeOK /\ EnvInv /\ [Next]_vars => EnvInv'
<1> SUFFICES ASSUME TypeOK, EnvInv, [Next]_vars PROVE EnvInv'
  OBVIOUS
<1>1. CASE StartBuild
  BY <1>1 DEF StartBuild, EnvInv
<1>2. CASE ValidateMetamodel
  BY <1>2 DEF ValidateMetamodel, EnvInv
<1>3. CASE PopEnvVar
  <2>1. env = envStart
    BY <1>3 DEF PopEnvVar, EnvInv
  <2> QED
    BY <1>3, <2>1 DEF PopEnvVar, EnvInv
<1>4. CASE CMakeStep
  <2>1. /\ pc = "cmake" /\ pc' \in {"cmake", "restore"}
        /\ UNCHANGED <<env, envStart, saved>>
    BY <1>4 DEF CMakeStep
  <2> QED
    BY <2>1 DEF EnvInv
<1>5. CASE CMakeDone
  BY <1>5 DEF CMakeDone, EnvInv
<1>6. CASE RestoreEnvVar
  <2>1. /\ saved = GetEnv(envStart)
        /\ env = IF saved # "empty" THEN "absent" ELSE envStart
    BY <1>6 DEF RestoreEnvVar, EnvInv
  <2>2. saved # "empty" => saved = envStart
    BY <2>1 DEF GetEnv
  <2>3. env' = envStart /\ pc' \notin {"cmake", "restore"}
    BY <1>6, <2>1, <2>2 DEF RestoreEnvVar
  <2> QED
    BY <1>6, <2>3 DEF RestoreEnvVar, EnvInv
<1>7. CASE WriteChangeLog
  BY <1>7 DEF WriteChangeLog, EnvInv
<1>8. CASE RunCoverage
  BY <1>8 DEF RunCoverage, EnvInv
<1>9. CASE BlackDuckScan
  BY <1>9 DEF BlackDuckScan, EnvInv
<1>10. CASE PackageStep
  BY <1>10 DEF PackageStep, EnvInv
<1>11. CASE Finished \/ UNCHANGED vars
  BY <1>11 DEF Finished, vars, EnvInv
<1> QED
  BY <1>1, <1>2, <1>3, <1>4, <1>5, <1>6, <1>7, <1>8, <1>9, <1>10, <1>11
  DEF Next

\* For every number of invocations: no CMake step of _build_and_test sees
\* the CONAN_CMAKE_GENERATOR conan injected, and pop_env_var's finally
\* clause gives every later call of build(), and the next invocation's
\* caller, the value the invocation started with, also after a CMake
\* step raised.
THEOREM GeneratorAlwaysRestored == Spec => []GeneratorRestored
<1>1. Init => TypeInv /\ EnvInv
  BY InitTyped DEF Init, EnvInv
<1>2. TypeInv /\ EnvInv /\ [Next]_vars => (TypeInv /\ EnvInv)'
  BY TypeInvInductive, EnvInvInductive DEF TypeInv
<1>3. TypeInv /\ EnvInv => GeneratorRestored
  <2> SUFFICES ASSUME TypeInv, EnvInv PROVE GeneratorRestored
    OBVIOUS
  <2>1. pc = "cmake" => env # "Ninja"
    <3> SUFFICES ASSUME pc = "cmake" PROVE env # "Ninja"
      OBVIOUS
    <3>1. saved = GetEnv(envStart)
          /\ env = IF saved # "empty" THEN "absent" ELSE envStart
      BY DEF EnvInv
    <3>2. envStart \in EnvValues
      BY DEF TypeInv, TypeOK
    <3> QED
      BY <3>1, <3>2 DEF GetEnv, EnvValues
  <2>2. pc \notin {"cmake", "restore"} => env = envStart
    BY DEF EnvInv
  <2> QED
    BY <2>1, <2>2 DEF GeneratorRestored
<1> QED
  BY <1>1, <1>2, <1>3, PTL DEF Spec


-----------------------------------------------------------------------------
(***************************************************************************)
(* build() does what it was asked: PipelineComplete.                      *)
(***************************************************************************)

\* The calls of build() between StartBuild and package(), in order.
InInvocation == {"metamodel", "pop", "cmake", "restore", "changelog",
                 "coverage", "blackduck", "built"}

\* _build_and_test has run exactly the enabled CMake steps before idx.
StepsBeforeIdx ==
    \A i \in 1..Len(CMakeSteps) :
        CMakeSteps[i] \in steps <=> i < idx /\ opts[CMakeSteps[i]]

\* What build() has done so far in this invocation, by where it is.  The
\* changelog of an earlier invocation may still be in the build folder,
\* numbered below run; the coverage run is reset by StartBuild.
CompleteInv ==
    /\ pc \in InInvocation => StepsBeforeIdx
    /\ pc \in {"changelog", "coverage", "blackduck", "built"}
          \/ (pc = "restore" /\ ~failed)
          => idx = Len(CMakeSteps) + 1
    /\ pc \in InInvocation \ {"metamodel"} /\ opts.build => mm # None
    /\ changelogFile # None => changelogFile <= run
    /\ pc \in {"metamodel", "pop", "cmake", "restore", "changelog"}
          => changelogFile # run
    /\ pc \in {"coverage", "blackduck", "built"}
          => (changelogFile = run <=> opts.jenkins)
    /\ pc \in {"metamodel", "pop", "cmake", "restore", "changelog", "coverage"}
          => coverage = None
    /\ pc \in {"blackduck", "built"}
          => (coverage # None <=> opts.coverage /\ opts.build)

\* Every step name has one position in CMakeSteps.
LEMMA CMakeStepsPositions ==
    /\ \A s \in StepNames : \E i \in 1..Len(CMakeSteps) : CMakeSteps[i] = s
    /\ \A i, j \in 1..Len(CMakeSteps) : CMakeSteps[i] = CMakeSteps[j] => i = j
<1>1. \A s \in StepNames : \E i \in 1..4 : CMakeSteps[i] = s
  BY DEF StepNames, CMakeSteps
<1>2. ASSUME NEW i \in 1..4, NEW j \in 1..4, CMakeSteps[i] = CMakeSteps[j]
      PROVE  i = j
  <2>1. (i = 1 \/ i = 2 \/ i = 3 \/ i = 4) /\ (j = 1 \/ j = 2 \/ j = 3 \/ j = 4)
    OBVIOUS
  <2> QED
    BY <1>2, <2>1 DEF CMakeSteps
<1> QED
  BY <1>1, <1>2, CMakeStepsFacts

\* Every step of build() and package() keeps what CompleteInv says.
LEMMA CompleteInvInductive ==
    TypeInv /\ CompleteInv /\ [Next]_vars => CompleteInv'
<1> SUFFICES ASSUME TypeInv, CompleteInv, [Next]_vars PROVE CompleteInv'
  OBVIOUS
<1> USE DEF TypeInv, TypeOK, RunStarted
<1>1. CASE StartBuild
  <2>1. changelogFile # None => changelogFile < run'
    BY <1>1 DEF StartBuild, CompleteInv, Runs
  <2>2. StepsBeforeIdx'
    BY <1>1 DEF StartBuild, StepsBeforeIdx
  <2>3. /\ pc' = "metamodel" /\ coverage' = None
        /\ changelogFile' = changelogFile
    BY <1>1 DEF StartBuild
  <2>4. run' \in Runs /\ run' = run + 1
    BY <1>1, MaxRunsAssumption DEF StartBuild, Runs
  <2>5. changelogFile \in Runs \cup {None}
    BY DEF TypeOK
  <2>6. /\ changelogFile' # None => changelogFile' <= run'
        /\ changelogFile' # run'
    BY <2>1, <2>3, <2>4, <2>5, NoneAssumption DEF Runs
  <2> QED
    BY <2>2, <2>3, <2>6 DEF CompleteInv, InInvocation
<1>2. CASE ValidateMetamodel
  <2>1. opts.build => mm' \in BOOLEAN
    BY <1>2 DEF ValidateMetamodel, MetamodelResults
  <2>2. opts.build => mm' # None
    BY <2>1, NoneAssumption
  <2>3. StepsBeforeIdx'
    BY <1>2 DEF ValidateMetamodel, CompleteInv, StepsBeforeIdx, InInvocation
  <2> QED
    BY <1>2, <2>2, <2>3 DEF ValidateMetamodel, CompleteInv, InInvocation
<1>3. CASE PopEnvVar
  BY <1>3 DEF PopEnvVar, CompleteInv, StepsBeforeIdx, InInvocation
<1>4. CASE CMakeStep
  <2> DEFINE s == CMakeSteps[idx]
  <2>1. idx \in 1..Len(CMakeSteps) /\ pc = "cmake"
    BY <1>4, CMakeStepsFacts DEF CMakeStep
  <2>2. StepsBeforeIdx
    BY <2>1 DEF CompleteInv, InInvocation
  <2>3. CASE ~opts[s] /\ idx' = idx + 1 /\ UNCHANGED <<steps, failed, testFolder, pc>>
    <3>1. StepsBeforeIdx'
      BY <1>4, <2>1, <2>2, <2>3 DEF CMakeStep, StepsBeforeIdx
    <3> QED
      BY <1>4, <2>3, <3>1 DEF CMakeStep, CompleteInv, InInvocation
  <2>4. CASE /\ opts[s] /\ idx' = idx + 1 /\ steps' = steps \cup {s}
             /\ UNCHANGED <<failed, pc>>
    <3>1. StepsBeforeIdx'
      <4> SUFFICES ASSUME NEW i \in 1..Len(CMakeSteps)
                   PROVE  CMakeSteps[i] \in steps' <=> i < idx' /\ opts'[CMakeSteps[i]]
        BY DEF StepsBeforeIdx
      <4>1. CMakeSteps[i] = s <=> i = idx
        BY <2>1, CMakeStepsPositions
      <4> QED
        BY <1>4, <2>2, <2>4, <4>1, <2>1 DEF CMakeStep, StepsBeforeIdx
    <3> QED
      BY <1>4, <2>4, <3>1 DEF CMakeStep, CompleteInv, InInvocation
  <2>5. CASE /\ failed' = TRUE /\ pc' = "restore"
             /\ UNCHANGED <<idx, steps, testFolder>>
    BY <1>4, <2>2, <2>5 DEF CMakeStep, CompleteInv, StepsBeforeIdx, InInvocation
  <2> QED
    BY <1>4, <2>3, <2>4, <2>5 DEF CMakeStep
<1>5. CASE CMakeDone
  BY <1>5 DEF CMakeDone, CompleteInv, StepsBeforeIdx, InInvocation
<1>6. CASE RestoreEnvVar
  BY <1>6 DEF RestoreEnvVar, CompleteInv, StepsBeforeIdx, InInvocation
<1>7. CASE WriteChangeLog
  <2>1. pc = "changelog" /\ changelogFile # run /\ run \in Runs
    BY <1>7 DEF WriteChangeLog, CompleteInv
  <2> QED
    BY <1>7, <2>1 DEF WriteChangeLog, CompleteInv, StepsBeforeIdx, InInvocation
<1>8. CASE RunCoverage
  <2>1. pc = "coverage" /\ run \in Runs
    BY <1>8 DEF RunCoverage
  <2>2. CASE opts.coverage /\ opts.build
    <3>0. /\ CTestFolder(testFolder, opts.ctestDir) \in {"build", "ctest_dir"}
          /\ ClaimsNoTests(testFolder, opts.ctestDir) \in BOOLEAN
      BY CTestFolderTyped DEF ClaimsNoTests
    <3>1. coverage' \in CoverageRun
      BY <1>8, <2>1, <2>2, <3>0 DEF RunCoverage, CoverageRun
    <3>2. coverage' # None
      BY <3>1, NoneAssumption
    <3> QED
      BY <1>8, <2>1, <2>2, <3>2
      DEF RunCoverage, CompleteInv, StepsBeforeIdx, InInvocation
  <2>3. CASE ~(opts.coverage /\ opts.build)
    BY <1>8, <2>1, <2>3 DEF RunCoverage, CompleteInv, StepsBeforeIdx, InInvocation
  <2> QED
    BY <2>2, <2>3
<1>9. CASE BlackDuckScan
  BY <1>9 DEF BlackDuckScan, CompleteInv, StepsBeforeIdx, InInvocation
<1>10. CASE PackageStep
  BY <1>10 DEF PackageStep, CompleteInv, StepsBeforeIdx, InInvocation
<1>11. CASE Finished \/ UNCHANGED vars
  BY <1>11 DEF Finished, vars, CompleteInv, StepsBeforeIdx, InInvocation
<1> QED
  BY <1>1, <1>2, <1>3, <1>4, <1>5, <1>6, <1>7, <1>8, <1>9, <1>10, <1>11
  DEF Next

\* For every number of invocations on one build folder, a build() that
\* returns has run every CMake step whose should_* flag is set and no
\* other, validated the metamodel when building, written the changelog in
\* this invocation exactly when JENKINS_URL is set, and run OpenCppCoverage
\* exactly when the tester exists and conan builds.
THEOREM BuildComplete == Spec => []PipelineComplete
<1>1. Init => TypeInv /\ CompleteInv
  BY InitTyped DEF Init, CompleteInv, InInvocation
<1>2. TypeInv /\ CompleteInv /\ [Next]_vars => (TypeInv /\ CompleteInv)'
  BY TypeInvInductive, CompleteInvInductive
<1>3. TypeInv /\ CompleteInv => PipelineComplete
  <2> SUFFICES ASSUME TypeInv, CompleteInv, pc = "built"
               PROVE  PipelineComplete
    BY DEF PipelineComplete
  <2>1. StepsBeforeIdx /\ idx = Len(CMakeSteps) + 1
    BY DEF CompleteInv, InInvocation
  <2>2. steps = {s \in StepNames : opts[s]}
    <3>1. ASSUME NEW s \in StepNames PROVE s \in steps <=> opts[s]
      <4>1. PICK i \in 1..Len(CMakeSteps) : CMakeSteps[i] = s
        BY CMakeStepsPositions
      <4> QED
        BY <2>1, <4>1 DEF StepsBeforeIdx
    <3> QED
      BY <3>1 DEF TypeInv, TypeOK
  <2> QED
    BY <2>2 DEF CompleteInv, PipelineComplete, InInvocation
<1> QED
  BY <1>1, <1>2, <1>3, PTL DEF Spec

\* The step relation of StepsInOrder.
StepInOrder ==
    \A s \in steps' \ steps :
        \E i \in 1..Len(CMakeSteps) :
            /\ s = CMakeSteps[i]
            /\ \A j \in 1..i - 1 : opts[CMakeSteps[j]] => CMakeSteps[j] \in steps

\* Only a CMake step that runs adds to steps, and it is the step at idx,
\* before which StepsBeforeIdx has every enabled step run.
LEMMA StepKeepsOrder ==
    TypeInv /\ CompleteInv /\ [Next]_vars => [StepInOrder]_vars
<1> SUFFICES ASSUME TypeInv, CompleteInv, [Next]_vars PROVE StepInOrder
  OBVIOUS
<1>1. CASE CMakeStep
  <2>1. idx \in 1..Len(CMakeSteps) /\ StepsBeforeIdx
    BY <1>1 DEF CMakeStep, CompleteInv, InInvocation, TypeInv, TypeOK
  <2>2. steps' \subseteq steps \cup {CMakeSteps[idx]}
    BY <1>1 DEF CMakeStep
  <2>3. \A j \in 1..idx - 1 : opts[CMakeSteps[j]] => CMakeSteps[j] \in steps
    BY <2>1, CMakeStepsFacts DEF StepsBeforeIdx
  <2> QED
    BY <2>1, <2>2, <2>3 DEF StepInOrder
<1>2. CASE ~CMakeStep
  <2>1. steps' \subseteq steps
    BY <1>2
    DEF Next, vars, StartBuild, ValidateMetamodel, PopEnvVar, CMakeDone,
        RestoreEnvVar, WriteChangeLog, RunCoverage, BlackDuckScan, PackageStep,
        Finished
  <2> QED
    BY <2>1 DEF StepInOrder
<1> QED
  BY <1>1, <1>2

\* For every number of invocations, _build_and_test runs its CMake steps
\* in the order configure, build, install, ctest, and a raise in one ends
\* the sequence: a step runs only after every earlier enabled step ran in
\* the same invocation.
THEOREM StepsRunInOrder == Spec => StepsInOrder
<1>1. Init => TypeInv /\ CompleteInv
  BY InitTyped DEF Init, CompleteInv, InInvocation
<1>2. TypeInv /\ CompleteInv /\ [Next]_vars => (TypeInv /\ CompleteInv)'
  BY TypeInvInductive, CompleteInvInductive
<1> QED
  BY <1>1, <1>2, StepKeepsOrder, PTL DEF Spec, StepsInOrder, StepInOrder

=============================================================================
