--------------------------- MODULE ParticipantBuild ---------------------------
(***************************************************************************)
(* The main recipe's build() and package() (conanfile.py, class           *)
(* FepParticipant) with the helpers build() calls: validate_metamodel_file *)
(* (components_metamodel_helper.py), pop_env_var, _build_and_test         *)
(* (conanfile_fep_participant_base.py), __write_change_log,               *)
(* CppCodeCoverageTester.run (open_cpp_coverage.py) and                   *)
(* _scan_with_black_duck.                                                  *)
(*                                                                         *)
(* build() is a straight sequence of blocking calls, any of which may     *)
(* raise; each call is one action, so that an exception can end the       *)
(* invocation after any of them.  A behaviour is at most MaxRuns          *)
(* invocations on one build folder: what they leave in the folder (the    *)
(* CMake test tree, doc/changelog.md) is seen by the next one.  The       *)
(* environment variables and the should_* flags conan sets are chosen    *)
(* when an invocation starts.                                              *)
(***************************************************************************)
EXTENDS Naturals, Sequences

CONSTANTS
    MaxRuns,   \* how many invocations of build() the build folder sees
    None       \* an absent file or a call not made

ASSUME MaxRunsAssumption == MaxRuns \in Nat \ {0}

Runs == 1..MaxRuns

\* The value of CONAN_CMAKE_GENERATOR in os.environ: absent, set to the
\* empty string (written "empty"), or the generator conan injects.
EnvValues == {"absent", "empty", "Ninja"}

\* tools.get_env(env_var, ""): the value, the empty string when the
\* variable is absent.
GetEnv(e) == IF e = "absent" THEN "empty" ELSE e

\* The order in which _build_and_test calls the CMake helpers and ctest.
CMakeSteps == <<"configure", "build", "install", "test">>
StepNames == {"configure", "build", "install", "test"}

\* What an invocation is started with: the should_* flags of conan, whether
\* JENKINS_URL is set, whether cpp_code_coverage_tester and
\* should_run_black_duck are truthy, the arch, and CTEST_TEST_DIR.
Opts == [configure : BOOLEAN, build : BOOLEAN, install : BOOLEAN,
         test : BOOLEAN, jenkins : BOOLEAN, coverage : BOOLEAN,
         blackDuck : BOOLEAN, x86 : BOOLEAN,
         ctestDir : {"unset", "valid", "invalid"}]

NoOpts == [configure |-> FALSE, build |-> FALSE, install |-> FALSE,
           test |-> FALSE, jenkins |-> FALSE, coverage |-> FALSE,
           blackDuck |-> FALSE, x86 |-> FALSE, ctestDir |-> "unset"]

\* One run of OpenCppCoverage: the invocation, the folder given to ctest,
\* whether the "does not contain a subfolder test" error was logged, and
\* whether the build folder had that subfolder.
CoverageRun == [run : Runs, folder : {"build", "ctest_dir"},
                claimedNoTests : BOOLEAN, hadTests : BOOLEAN]

\* The package folder: the invocation that packaged it and the invocation
\* that generated the changelog copied into it, None for the template.
Package == [run : Runs, changelog : Runs \cup {None}]

ASSUME NoneAssumption ==
    None \notin BOOLEAN /\ None \notin Runs /\ None \notin CoverageRun

VARIABLES
    pc,            \* the call build()/package() is at
    run,           \* number of the current (or last) invocation
    opts,          \* the Opts of the current invocation
    envStart,      \* CONAN_CMAKE_GENERATOR when the invocation started
    env,           \* CONAN_CMAKE_GENERATOR now
    saved,         \* env_var_val, the local of pop_env_var
    idx,           \* next element of CMakeSteps _build_and_test considers
    steps,         \* the CMake steps this invocation completed
    failed,        \* an exception is propagating through pop_env_var
    mm,            \* the result of validate_metamodel_file, None if not called
    testFolder,    \* <build>/test exists (CMake configure creates it)
    changelogFile, \* <build>/doc/changelog.md: invocation that wrote it
    coverage,      \* this invocation's OpenCppCoverage run, None if none
    blackDuck,     \* outcome of this invocation's Black Duck scan
    pkg            \* the package folder, None before package()

vars == <<pc, run, opts, envStart, env, saved, idx, steps, failed, mm,
          testFolder, changelogFile, coverage, blackDuck, pkg>>

PCs == {"idle", "metamodel", "pop", "cmake", "restore", "changelog",
        "coverage", "blackduck", "built", "failed"}

TypeOK ==
    /\ pc \in PCs
    /\ run \in 0..MaxRuns
    /\ opts \in Opts
    /\ envStart \in EnvValues
    /\ env \in EnvValues
    /\ saved \in {"empty", "Ninja"}
    /\ idx \in 1..(Len(CMakeSteps) + 1)
    /\ steps \subseteq StepNames
    /\ failed \in BOOLEAN
    /\ mm \in BOOLEAN \cup {None}
    /\ testFolder \in BOOLEAN
    /\ changelogFile \in Runs \cup {None}
    /\ coverage \in CoverageRun \cup {None}
    /\ blackDuck \in {"not_run", "scanned", "warned"}
    /\ pkg \in Package \cup {None}

-----------------------------------------------------------------------------
(***************************************************************************)
(* Helpers.                                                                *)
(***************************************************************************)

\* FepParticipant.cpp_code_coverage_tester is truthy for Debug builds on
\* Windows with RUN_CODE_COVERAGE_CHECK set.
CodeCoverageTester(buildType, os, runCheck) ==
    buildType = "Debug" /\ os = "Windows" /\ runCheck

\* FepParticipant.should_run_black_duck.
ShouldRunBlackDuck(channel, runCheck, nodeSet) ==
    (channel \in {"stable", "integration"} \/ runCheck) /\ nodeSet

\* Python values compared with ==: a str and a pathlib.Path are never equal,
\* whatever they spell.
PyStr(s) == [str |-> s]
PyPath(s) == [path |-> s]
PyEq(a, b) == DOMAIN a = DOMAIN b /\ a = b
PyIn(x, S) == \E y \in S : PyEq(x, y)

\* Path(build_folder).iterdir(): the entries, as Path objects.
Iterdir(hasTest) == IF hasTest THEN {PyPath("test")} ELSE {}

\* The options conan and the environment can start an invocation with: at
\* least one should_* flag (conan build --configure/--build/--install/--test,
\* all of them for conan create), the coverage tester as CMAKE_BUILD_TYPE,
\* the OS and RUN_CODE_COVERAGE_CHECK make it, should_run_black_duck as the
\* channel, RUN_BLACK_DUCK_CHECK and JENKINS_NODE_TO_RUN_BLACK_DUCK_CHECK
\* make it.
Invocations ==
    { o \in Opts :
        /\ \E s \in StepNames : o[s]
        /\ \E bt \in {"Debug", "Release"}, os \in {"Windows", "Linux"},
              cc \in BOOLEAN :
              o.coverage = CodeCoverageTester(bt, os, cc)
        /\ \E ch \in {"testing", "stable", "integration"}, bd \in BOOLEAN,
              node \in BOOLEAN :
              o.blackDuck = ShouldRunBlackDuck(ch, bd, node) }

-----------------------------------------------------------------------------
(***************************************************************************)
(* Actions.                                                                *)
(***************************************************************************)

Init ==
    /\ pc = "idle"
    /\ run = 0
    /\ opts = NoOpts
    /\ envStart = "absent"
    /\ env = "absent"
    /\ saved = "empty"
    /\ idx = 1
    /\ steps = {}
    /\ failed = FALSE
    /\ mm = None
    /\ testFolder = FALSE
    /\ changelogFile = None
    /\ coverage = None
    /\ blackDuck = "not_run"
    /\ pkg = None

\* conan calls build(); the should_configure block only computes the CMake
\* definitions and logs which scans will run.
StartBuild ==
    /\ pc \in {"idle", "failed"}
    /\ run < MaxRuns
    /\ run' = run + 1
    /\ opts' \in Invocations
    /\ envStart' \in EnvValues
    /\ env' = envStart'
    /\ saved' = "empty"
    /\ idx' = 1
    /\ steps' = {}
    /\ failed' = FALSE
    /\ mm' = None
    /\ coverage' = None
    /\ blackDuck' = "not_run"
    /\ pc' = "metamodel"
    /\ UNCHANGED <<testFolder, changelogFile, pkg>>

\* What validate_metamodel_file may return: True on x86, where it does not
\* validate; otherwise True when mm3_validator succeeds and False when
\* conanfile.run raises.
MetamodelResults(x86) == IF x86 THEN {TRUE} ELSE BOOLEAN

\* if should_build: validate_metamodel_file.  On x86 it returns True
\* without validating; otherwise mm3_validator runs and any exception makes
\* it return False.  build() only logs the False and goes on.
ValidateMetamodel ==
    /\ pc = "metamodel"
    /\ \/ /\ ~opts.build
          /\ mm' = None
       \/ /\ opts.build
          /\ mm' \in MetamodelResults(opts.x86)
    /\ pc' = "pop"
    /\ UNCHANGED <<run, opts, envStart, env, saved, idx, steps, failed,
                   testFolder, changelogFile, coverage, blackDuck, pkg>>

\* Mutant: the value read with os.environ.get, so an absent variable is
\* saved as "absent" rather than as the empty string.
PopEnvVarRaw ==
    /\ pc = "pop"
    /\ saved' = env
    /\ env' = IF saved' # "empty" THEN "absent" ELSE env
    /\ pc' = "cmake"
    /\ UNCHANGED <<run, opts, envStart, idx, steps, failed, mm, testFolder,
                   changelogFile, coverage, blackDuck, pkg>>

\* Entering pop_env_var("CONAN_CMAKE_GENERATOR"): a non-empty value is
\* saved and removed from os.environ.
PopEnvVar ==
    /\ pc = "pop"
    /\ saved' = GetEnv(env)
    /\ env' = IF saved' # "empty" THEN "absent" ELSE env
    /\ pc' = "cmake"
    /\ UNCHANGED <<run, opts, envStart, idx, steps, failed, mm, testFolder,
                   changelogFile, coverage, blackDuck, pkg>>

\* Mutant: a configure, build or install that fails does not raise, and
\* _build_and_test goes on with the next step.
CMakeStepFailContinues ==
    /\ pc = "cmake"
    /\ idx <= Len(CMakeSteps)
    /\ LET s == CMakeSteps[idx] IN
         \/ /\ ~opts[s]
            /\ idx' = idx + 1
            /\ UNCHANGED <<steps, failed, testFolder, pc>>
         \/ /\ opts[s]
            /\ idx' = idx + 1
            /\ steps' = steps \cup {s}
            /\ testFolder' = (testFolder \/ s = "configure")
            /\ UNCHANGED <<failed, pc>>
         \/ /\ opts[s]
            /\ s # "test"
            /\ failed' = TRUE
            /\ idx' = idx + 1
            /\ UNCHANGED <<steps, testFolder, pc>>
    /\ UNCHANGED <<run, opts, envStart, env, saved, mm, changelogFile,
                   coverage, blackDuck, pkg>>

\* One call of _build_and_test: the CMake step at idx if its should_* flag
\* is set.  configure, build and install raise on failure; ctest runs with
\* ignore_errors and never raises.  configure creates <build>/test.
CMakeStep ==
    /\ pc = "cmake"
    /\ idx <= Len(CMakeSteps)
    /\ LET s == CMakeSteps[idx] IN
         \/ /\ ~opts[s]
            /\ idx' = idx + 1
            /\ UNCHANGED <<steps, failed, testFolder, pc>>
         \/ /\ opts[s]
            /\ idx' = idx + 1
            /\ steps' = steps \cup {s}
            /\ testFolder' = (testFolder \/ s = "configure")
            /\ UNCHANGED <<failed, pc>>
         \/ /\ opts[s]
            /\ s # "test"
            /\ failed' = TRUE
            /\ pc' = "restore"
            /\ UNCHANGED <<idx, steps, testFolder>>
    /\ UNCHANGED <<run, opts, envStart, env, saved, mm, changelogFile,
                   coverage, blackDuck, pkg>>

\* Mutant: the loop over CMakeSteps stops one step early.
CMakeDoneEarly ==
    /\ pc = "cmake"
    /\ idx >= Len(CMakeSteps)
    /\ pc' = "restore"
    /\ UNCHANGED <<run, opts, envStart, env, saved, idx, steps, failed, mm,
                   testFolder, changelogFile, coverage, blackDuck, pkg>>

\* _build_and_test returns after its last step.
CMakeDone ==
    /\ pc = "cmake"
    /\ idx = Len(CMakeSteps) + 1
    /\ pc' = "restore"
    /\ UNCHANGED <<run, opts, envStart, env, saved, idx, steps, failed, mm,
                   testFolder, changelogFile, coverage, blackDuck, pkg>>

\* Mutant: the value is put back after the yield, not in a finally
\* clause, so a raise skips it.
RestoreEnvVarNoFinally ==
    /\ pc = "restore"
    /\ env' = IF saved # "empty" /\ ~failed THEN saved ELSE env
    /\ pc' = IF failed THEN "failed" ELSE "changelog"
    /\ UNCHANGED <<run, opts, envStart, saved, idx, steps, failed, mm,
                   testFolder, changelogFile, coverage, blackDuck, pkg>>

\* Leaving pop_env_var, in its finally clause: a saved value is put back,
\* whether _build_and_test returned or raised.  A raise ends build().
RestoreEnvVar ==
    /\ pc = "restore"
    /\ env' = IF saved # "empty" THEN saved ELSE env
    /\ pc' = IF failed THEN "failed" ELSE "changelog"
    /\ UNCHANGED <<run, opts, envStart, saved, idx, steps, failed, mm,
                   testFolder, changelogFile, coverage, blackDuck, pkg>>

\* __write_change_log: with JENKINS_URL set the changelog generator writes
\* <build>/doc/changelog.md, and an exception of it ends build().  Without
\* JENKINS_URL nothing is written and nothing is removed.
WriteChangeLog ==
    /\ pc = "changelog"
    /\ \/ /\ opts.jenkins
          /\ changelogFile' = run
          /\ pc' = "coverage"
       \/ /\ opts.jenkins
          /\ pc' = "failed"
          /\ UNCHANGED changelogFile
       \/ /\ ~opts.jenkins
          /\ pc' = "coverage"
          /\ UNCHANGED changelogFile
    /\ UNCHANGED <<run, opts, envStart, env, saved, idx, steps, failed, mm,
                   testFolder, coverage, blackDuck, pkg>>

\* The ctest folder __run_open_cpp_coverage picks: the build folder if the
\* str "test" is among the Path entries of its iterdir(), else CTEST_TEST_DIR
\* when set, else the build folder with an error logged.
CTestFolder(hasTest, ctestDir) ==
    CASE PyIn(PyStr("test"), Iterdir(hasTest)) -> "build"
      [] ~PyIn(PyStr("test"), Iterdir(hasTest)) /\ ctestDir # "unset" -> "ctest_dir"
      [] ~PyIn(PyStr("test"), Iterdir(hasTest)) /\ ctestDir = "unset" -> "build"

ClaimsNoTests(hasTest, ctestDir) ==
    ~PyIn(PyStr("test"), Iterdir(hasTest)) /\ ctestDir = "unset"

\* if cpp_code_coverage_tester: CppCodeCoverageTester.run, which does
\* nothing unless should_build; OpenCppCoverage is started with
\* conanfile.run, which raises on a non-zero exit code.
RunCoverage ==
    /\ pc = "coverage"
    /\ \/ /\ ~(opts.coverage /\ opts.build)
          /\ pc' = "blackduck"
          /\ UNCHANGED coverage
       \/ /\ opts.coverage /\ opts.build
          /\ coverage' = [run |-> run,
                          folder |-> CTestFolder(testFolder, opts.ctestDir),
                          claimedNoTests |-> ClaimsNoTests(testFolder, opts.ctestDir),
                          hadTests |-> testFolder]
          /\ pc' \in {"blackduck", "failed"}
    /\ UNCHANGED <<run, opts, envStart, env, saved, idx, steps, failed, mm,
                   testFolder, changelogFile, blackDuck, pkg>>

\* if should_run_black_duck: _scan_with_black_duck, which catches every
\* exception of the scan and only warns.  build() returns.
BlackDuckScan ==
    /\ pc = "blackduck"
    /\ \/ /\ ~opts.blackDuck
          /\ UNCHANGED blackDuck
       \/ /\ opts.blackDuck
          /\ blackDuck' \in {"scanned", "warned"}
    /\ pc' = "built"
    /\ UNCHANGED <<run, opts, envStart, env, saved, idx, steps, failed, mm,
                   testFolder, changelogFile, coverage, pkg>>

\* package(): copies doc/changelog.md of the build folder when it exists,
\* the template of the source folder otherwise.
PackageStep ==
    /\ pc = "built"
    /\ pkg' = [run |-> run, changelog |-> changelogFile]
    /\ pc' = "idle"
    /\ UNCHANGED <<run, opts, envStart, env, saved, idx, steps, failed, mm,
                   testFolder, changelogFile, coverage, blackDuck>>

\* No invocation is left.
Finished ==
    /\ pc \in {"idle", "failed"}
    /\ run = MaxRuns
    /\ UNCHANGED vars

Next ==
    \/ StartBuild
    \/ ValidateMetamodel
    \/ PopEnvVar
    \/ CMakeStep
    \/ CMakeDone
    \/ RestoreEnvVar
    \/ WriteChangeLog
    \/ RunCoverage
    \/ BlackDuckScan
    \/ PackageStep
    \/ Finished

Spec == Init /\ [][Next]_vars

-----------------------------------------------------------------------------
(***************************************************************************)
(* Properties.                                                             *)
(***************************************************************************)

\* pop_env_var hides an injected CONAN_CMAKE_GENERATOR from every CMake
\* step and, in its finally clause, gives the caller back the environment
\* it had, also when a CMake step raised: outside the with-block of
\* build() the variable has the value the invocation started with.
GeneratorRestored ==
    /\ pc = "cmake" => env # "Ninja"
    /\ pc \notin {"cmake", "restore"} => env = envStart

\* A build() that returns has done everything it was asked to: every
\* CMake step whose should_* flag is set, the metamodel validation when
\* building, the changelog exactly when JENKINS_URL is set, and the
\* coverage run exactly when the tester exists and should_build is set.
PipelineComplete ==
    pc = "built" =>
        /\ steps = {s \in StepNames : opts[s]}
        /\ opts.build => mm # None
        /\ changelogFile = run <=> opts.jenkins
        /\ coverage # None <=> opts.coverage /\ opts.build

\* build() logs "FEP Component Description is invalid. Skipping build
\* process." when validate_metamodel_file returns False: after that log
\* no CMake build step runs in the invocation.
InvalidMetamodelSkipsBuild ==
    mm = FALSE => "build" \notin steps

\* OpenCppCoverage runs ctest on the build folder when that folder has a
\* test subfolder, and logs "does not contain a subfolder test" only when
\* it has none.
CoverageUsesBuiltTests ==
    coverage # None /\ coverage.hadTests =>
        /\ coverage.folder = "build"
        /\ ~coverage.claimedNoTests

\* _build_and_test runs configure, build, install and ctest in this order,
\* and a raise in one ends it: a CMake step that runs finds every earlier
\* step whose should_* flag is set already run in this invocation.
StepsInOrder ==
    [][\A s \in steps' \ steps :
         \E i \in 1..Len(CMakeSteps) :
            /\ s = CMakeSteps[i]
            /\ \A j \in 1..i - 1 : opts[CMakeSteps[j]] => CMakeSteps[j] \in steps]_vars

=============================================================================
