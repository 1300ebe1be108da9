# Verification project for the fep3_participant Conan recipes

The repository's code under `src/` is a set of Conan recipes and helper scripts. They
build, test, measure, scan and package the FEP SDK participant library, and they check
its ABI against a reference release. The state these recipes act on is the **build
folder** (dump files, XML test records, the changelog) and the **process environment**
(`CONAN_CMAKE_GENERATOR`, `JENKINS_URL`, `CTEST_TEST_DIR`, ...). The code under test is
the control of each recipe method: its guards, early returns, `assert`s,
`try/finally`, and the order of the external tool calls (CMake, ctest, abi-dumper,
abi-compliance-checker, OpenCppCoverage, Black Duck). Conan calls a recipe's methods
one after the other, so nothing runs concurrently inside one invocation. The
interesting behaviours come from three sources:

- the nondeterministic outcomes of the external tools (exit code, file written or not);
- exceptions and interrupts between the steps;
- **several invocations on one build folder** (`conan create` on a fresh folder, or
  repeated `conan build` / `conan package` on a reused one). Files from an earlier
  invocation can be picked up by a later one.

## Parts of the system and their modules

| Part | Source | Module | Status |
|---|---|---|---|
| ABI check recipe | `conanfile_abi_check.py`, `scripts/abi/abi_dumper.py`, `scripts/abi/result_writer.py` | `AbiCheck`, abstract workflow `AbiPipeline`, proofs in `AbiCheckProofs` | modelled |
| Main library recipe | `conanfile.py`, `conanfile_fep_participant_base.py`, `components_metamodel_helper.py`, `open_cpp_coverage.py` (CppCodeCoverageTester) | `ParticipantBuild`, proofs in `ParticipantBuildProofs` | partly |
| ABI reference dump recipe | `conanfile_abi_dump.py`, `abi_dumper.py` | `AbiDump`, proofs in `AbiDumpProofs` | modelled |
| Coverage recipe / OpenCppCoverage package | `conanfile_test_coverage.py`, `open_cpp_coverage.py`, the coverage part of `conanfile.py` | `CoveragePipeline`, proofs in `CoveragePipelineProofs` | partly |
| SonarQube analysis | `conanfile_sca.py`, `sonar_helper.py` | `SonarScan`, abstract workflow `SonarAnalysis`, proofs in `SonarScanProofs` | modelled |
| Result record text (XML) | `result_writer.py` | only the outcome is modelled | planned |
| Functional tests, QA, ARC, test_package, check_build_requirements | the remaining recipes | not modelled | delegation only, or a pure function |

`PROJECT.json` gives each part, and the reason for each part that is left out.

### AbiCheck (`AbiCheck.tla`)

**Constants**

- `ABIs`: the library versions, as model values.
- `Compatible`: the backward-compatibility relation between them, which the checker
  decides.
- `MaxRuns`: the number of invocations on one build folder.
- `None`: an "absent" marker.

**State**

| Variable | What it holds |
|---|---|
| `pc` | where `build()` is |
| `run` | the invocation number |
| `lib`, `ref`, `deps` | the library this invocation builds, the reference dump, and which dependencies exist |
| `dumpFile` | `fep_components_plugin_dump.dump`, with the ABI and the invocation that wrote it; it survives across invocations |
| `results` | `test/result/*.xml`, a record per result name |
| `report` | the compatibility report |
| `pkg` | what `package()` copied |

**Actions and the code they follow**

- `StartBuild`: `build_requirements`, then the choice of the tool outcomes.
- `DumpToolsExist`: the two asserts of `create_dump`.
- `DumpStage`: `create_dump`, then `write_ok` or `write_error` and the early
  `return` (lines 66-77).
- `CheckInputsExist`: the `isfile` and reference asserts (79-93).
- `CheckStage`: the checker run and the Ok/error record (89-106).
- `Interrupt`: a tool call that never returns to the recipe (CI abort).
- `PackageStep`: `package()` (62-64).
- `Finished`: stutters when the run bound is reached.

The dumper's outcomes (`DumperOutcomes`) follow what the code observes:

- the exit code;
- whether it wrote a file;
- a non-zero exit with or without a partial dump.

### ParticipantBuild (`ParticipantBuild.tla`)

The options an invocation runs with are one record of `Opts`:

- the `should_configure/build/install/test` flags;
- `JENKINS_URL`;
- the results of `cpp_code_coverage_tester` and `should_run_black_duck`;
- `x86`;
- the state of `CTEST_TEST_DIR`.

`Invocations` is the set of those the code can produce. At least one step is enabled,
and the coverage and Black Duck flags are values the two predicates can return. The
`Environment` class caches each variable on first read, so the values are fixed per
invocation and chosen once in `StartBuild`.

**State**

| Variable | What it holds |
|---|---|
| `env`, `envStart`, `saved` | `CONAN_CMAKE_GENERATOR` now, at the start, and as saved by `pop_env_var` |
| `idx`, `steps`, `failed` | the `_build_and_test` loop |
| `mm` | the metamodel validation result |
| `testFolder` | whether the build folder has `test/` |
| `changelogFile` | which invocation wrote `doc/changelog.md`; it persists |
| `coverage` | what `CppCodeCoverageTester.run` used and logged |
| `blackDuck` | the scan outcome |
| `pkg` | what `package()` shipped |

**Actions, one per piece of `build()` in order**

1. `ValidateMetamodel`
2. `PopEnvVar`: the entry of the context manager.
3. `CMakeStep`: one step of `_build_and_test`; it may skip, advance or raise.
4. `CMakeDone`
5. `RestoreEnvVar`: the `finally`, which also runs after a raise.
6. `WriteChangeLog`
7. `RunCoverage`
8. `BlackDuckScan`
9. `PackageStep`

Python's `"test" in Path(x).iterdir()` is modelled by what it does:

- `PyStr` and `PyPath` are different kinds of value.
- `PyEq` is false across kinds, so `PyIn` of a string in a set of paths is FALSE.
- `CTestFolder` and `ClaimsNoTests` take the branches lines 65-77 take as a result.

### AbiPipeline (`AbiPipeline.tla`) and the refinement

`AbiPipeline` is what the ABI workflow promises, with no files, dependencies or tools.
Its state is `stage`, `run`, `records` (the last record per stage) and `published`.
Its actions are:

- `Start`: a new invocation starts with the dump stage.
- `RecordDump`: the dump stage records Ok or Error; only Ok leads to the check.
- `RecordCheck`: the check stage records its verdict.
- `Stop`: a hard stop, such as an assert or an abort.
- `Publish`: packaging publishes the records.

`AbiCheck` maps onto it as `Pipeline == INSTANCE AbiPipeline WITH ...`:

- `stage` is `pc`;
- `records` are the result files;
- `published` is the run and records of the package folder.

`ImplementsPipeline == Pipeline!Spec` is checked as a PROPERTY and proved.

### AbiDump (`AbiDump.tla`)

`conanfile_abi_dump.py` builds the reference baseline that the ABI check reads.

- **State:** `dumpFile` and `record` in the build folder, the package `pkg`, the
  library ABI `lib`, and the tools `deps`.
- **`Build`:** `create_dump`'s two asserts (a failure ends the invocation), the
  dumper run with `ignore_errors`, then `write_ok` or `write_error` for the exit
  code. There is no early return, so `package()` always follows.
- **`PackageStep`:** copies `abi_dump/*` and `test/*`.
- **`Interrupt`:** a CI abort while the dumper runs.

### SonarScan (`SonarScan.tla`)

This module covers `build()` of `conanfile_sca.py` with `sonar_scan`. There is one
action per piece, in order:

1. `ClangFormat`: only with `ENABLE_FILE_FORMATTING` and `should_build`; a
   violation raises.
2. `Download`: the scanner and the build wrapper; either may raise.
3. `Configure`
4. `WrappedBuild`: it rewrites the capture in `sonar_build_output`, then raises
   when the build fails.
5. `CoverageStep`: with `run_code_coverage_check`, ctest writes the junit file and
   gcov writes `.gcov` files into `code_coverage`; gcov may raise after writing
   some of them.
6. `Scan`: it uploads the capture, the `.gcov` files it finds, and
   `_base_version(version)`.

`BaseVersion` translates `version.split("+")[0]` with `SelectInSeq` and `SubSeq`.
The property compares it with `ReferenceBaseVersion`, which is defined by meaning:
the longest `+`-free prefix. The comparison covers every version string of length up
to 3 over `{"3", ".", "+"}`. The `sonar_build_output` and `code_coverage` folders
persist across invocations. The assumption `VersionsAssumption`
(`Versions \subseteq Seq(STRING)`) records that a conan version is a string, seen
as the sequence of its characters.

`SonarAnalysis.tla` is what the workflow promises, with no folders or tools:
- `Start` begins an invocation;
- `Fail` is a raise at any step, and leaves the upload alone;
- `Upload` ends the invocation with the analysis of its own complete build,
  under `ReleaseVersion`, the longest prefix without a `+`.

`SonarScan` instantiates it as `Analysis`. The mapping:
- every `pc` between `format` and `scan` is `"running"`;
- `opts.version` is the version;
- an upload is mapped to its run, its capture and its version, and its `.gcov`
  files are hidden.

`ImplementsAnalysis == Analysis!Spec`.

### CoveragePipeline (`CoveragePipeline.tla`)

This module composes the two recipes of one CI pipeline that measure coverage.

- The library's `build()` ends with `CppCodeCoverageTester.run` (`MainBuildCoverage`)
  for Windows Debug with `RUN_CODE_COVERAGE_CHECK`.
- `conanfile_test_coverage.py` delegates to `OpenCppCoverage`:
  - `CovRequirements`: `test_coverage_tool` raises on Linux.
  - `CovBuild`: skipped on Jenkins, where coverage "was run in build stage".
  - `CovPackage`: copies `coverage_report_folder`.

`CoverageReportFolder` is `OPENCPPCOVERAGE_OUTPUT` when it is set. That folder
outlives the pipeline. Otherwise it is a folder in the asking recipe's own package
folder, which is new in every pipeline. `reports` records which pipeline last wrote
each folder.

## Runs

There are twelve runs.

- Deadlock is checked: `Finished` lets a run stutter only once the run bound is
  reached.
- No run assumes fairness, and no liveness property is checked (see below).
- `MC*.tla` modules give the constants model values and small sets.

**AbiCheck** (`MCAbiCheck`)

- **`abicheck_reruns`** (MaxRuns 2, 3 ABIs, pass) checks three properties:
  - `TypeOK`;
  - `RecordForEveryStage`: every stage that ran has left its record by the time
    `package()` runs;
  - `VerdictNeedsDumpAndBaseline`: no step writes a check record unless this
    invocation's dump succeeded and both dumps exist.
- **`abicheck_fresh`** (MaxRuns 1, pass) checks two properties:
  - `VerdictSound`: an Ok record means `lib` is compatible with `ref`;
  - `ImplementsPipeline`: the recipe refines `AbiPipeline`.
- **`abicheck_stale_verdict`** (two runs) finds `VerdictSound` violated:
  1. a first invocation dumps a compatible library;
  2. the second dumper exits 0 without writing;
  3. the old dump is checked, and the verdict is Ok for an incompatible library.

**ParticipantBuild** (`MCParticipantBuild`)

- **`participant_create`** (MaxRuns 1, every invocation, pass) checks four
  properties:
  - `TypeOK`;
  - `GeneratorRestored`: CMake never sees the Ninja generator, and the environment
    is back to its start value outside the context manager, also after a raise;
  - `PipelineComplete`: a `build()` that returns ran exactly the enabled steps,
    validated the metamodel, wrote the changelog iff on Jenkins, and ran coverage
    iff asked;
  - `StepsInOrder` (action property): a CMake step runs only after every earlier
    step whose flag is set ran in the same invocation, so a raise in configure,
    build or install ends `_build_and_test`;
- **`participant_metamodel`** (violation of `InvalidMetamodelSkipsBuild`): the log
  says the build is skipped, but the build step still runs.
- **`participant_coverage`** (violation of `CoverageUsesBuiltTests`): with a `test/`
  subfolder present, OpenCppCoverage still reports it missing.

**AbiDump** (`MCAbiDump`)

- **`abidump_reruns`** (MaxRuns 3, pass) checks `PackagedRecordCurrent`.
  `PackagedRecordCurrent`: the shipped `test_abi_dump.xml` is the record of the
  packaged invocation, Ok or error.
- **`abidump_fresh`** (violation of `PackagedDumpUsable`): a failing dumper that wrote
  a partial dump still has it packaged as the reference baseline.

**SonarScan** (`MCSonarScan`)

- **`sonar_fresh`** (MaxRuns 1, every version string up to length 3, pass) checks
  three properties:
  - `ScanUsesCompleteBuild`: an upload read the capture of a complete build of its
    own invocation;
  - `ScanCoversRequestedChecks`: when `build()` returns, the clang-format check
    passed if it was requested, the tests and gcov ran if coverage was requested,
    and the project version is the base version;
  - `ImplementsAnalysis` (PROPERTY): every behaviour is one of `SonarAnalysis`.
- **`sonar_reruns`** (MaxRuns 2, violation of `ScanCoverageCurrent`): a second
  invocation without coverage, or one whose gcov failed, scans the `.gcov` files the
  first left in `code_coverage`.

**CoveragePipeline** (`MCCoveragePipeline`, two pipelines)

- **`coverage_shared`** (pass) checks `CoveragePackageCurrentWhenShared`. The coverage package ships its own pipeline's
  report in two cases:
  - off Jenkins;
  - on Jenkins, when `OPENCPPCOVERAGE_OUTPUT` is set and the library's build ran
    coverage.
- **`coverage_jenkins`** (violation of `CoveragePackageCurrent`). On Jenkins without
  one of those two conditions, the package is one of these:
  - empty;
  - an earlier pipeline's report left in `OPENCPPCOVERAGE_OUTPUT`.

  This contradicts the comment "was run in build stage".

The violations are the six findings in `PROJECT.json`.

Each property of a passing run is broken by a mutant of the code it is about.
Examples:

- dropping the `return` after a failed dump (this also breaks the refinement);
- swapping the checker's Ok/error branches;
- leaving out the `finally`;
- `_base_version` keeping the `+`;
- a failing configure, build or install that does not raise (breaks
  `StepsInOrder`);
- a wrapped build or clang-format run with `ignore_errors` (the wrapped build also
  breaks `ImplementsAnalysis`);
- `coverage_report_folder` ignoring `OPENCPPCOVERAGE_OUTPUT`.

**Bounds**

- Two invocations, or pipelines, are the least that exposes state carried over in a
  build folder or in `OPENCPPCOVERAGE_OUTPUT`. `abidump_reruns` uses three.
- Three ABIs give a compatible pair, an incompatible pair and a distinct reference.
- Four CMake steps with all subsets of flags are the code's full input space.
- The versions of `sonar_fresh` include strings with no `+`, with a `+` first, with a
  `+` last, and with two `+`. `sonar_reruns` fixes two versions to keep two
  invocations small; the version plays no part in the stale `.gcov` files.

**Fairness and liveness**

No run assumes fairness, and no liveness property is claimed. Every recipe is
straight-line code that conan calls once, so "an invocation ends" would only hold
if every external tool returned: cmake, ctest, OpenCppCoverage, the ABI dumper and
checker, the SonarQube scanner. They all run without a timeout (spec section 5).
Weak fairness on the recipe's steps would assume exactly what the code does not
guarantee. A hung tool is a hazard of the environment, not of the recipe.

**Type invariants**

`TypeOK` is checked by a run only where a plausible code bug breaks it:
- `abicheck_reruns` (dumping the wrong library);
- `participant_create` (`os.environ.get` without a default).

For `AbiDump`, `SonarScan` and `CoveragePipeline`, the only change that leaves the
type is exceeding the model's own run bound, which no bug in the recipe can do.
So their `TypeOK` is not a run property. It is proved for every instance by
`TypeCorrect` in their proof modules, where it is a conjunct of the inductive
invariant.

## Proofs (TLAPS)

Five modules hold theorems. Each proof module EXTENDS its component and `TLAPS`.

`AbiCheckProofs`:

- **`TypeCorrect`** (`Spec => []TypeOK`) from `TypeInv == TypeOK /\ RunStarted`.
- **`RecordsWritten`**: from the inductive `StageInv`, which relates `pc` to the
  records already written in this invocation.
- **`VerdictGuarded`** (`[][VerdictStepGuarded]_vars`).
- **`FreshFolderVerdictSound`** (`MaxRuns = 1 => (Spec => []VerdictSound)`): from
  `VerdictInv`, an Ok check record of run `r` was written when `dumpFile` held
  run `r`'s dump of `lib` and the checker said compatible.
- **`RefinesPipeline`** (`Spec => ImplementsPipeline`):
  - `Init` maps to `Pipeline!Init`.
  - Lemma `StepRefines`: under `TypeInv`, every step maps to one abstract step, or
    to a stutter of the mapped variables:
    - a failed assert and `Interrupt` map to `Stop`;
    - `DumpStage` and `CheckStage` map to `RecordDump` and `RecordCheck`, with the
      witness `o.rc = 0`;
    - `PackageStep` maps to `Publish`;
    - `Finished` is a stutter.
  - `TypeInv` is needed only to show that the new package is a `Package`, hence not
    `None` (assumption `NoPackageIsNone`).

`ParticipantBuildProofs`:

- **`TypeCorrect`**.
- **`GeneratorAlwaysRestored`** from `EnvInv`: inside the context manager, `saved` is
  the start value.
- **`BuildComplete`** (`Spec => []PipelineComplete`), from the inductive
  `CompleteInv`. It holds under `TypeInv` and relates the stage to what the
  invocation has done so far:
  - `StepsBeforeIdx`: during an invocation, a CMake step has run exactly when it
    comes before `idx` and its flag is set;
  - from `changelog` on, or at `restore` without a failure, `idx` is past the last
    step;
  - after `metamodel`, a building invocation has a validation result;
  - the changelog file carries at most the current run number, not yet the current
    one before `WriteChangeLog`, and it is this run's from `coverage` on exactly on
    Jenkins;
  - the coverage record is `None` until `RunCoverage`, and afterwards set exactly
    when the tester exists and conan builds.

  `PipelineComplete` alone is not inductive: it says nothing about an invocation
  that has not yet reached `built`. The lemma `CMakeStepsPositions` turns the
  positions of `CMakeSteps` into the set of step names. TLC checked `CompleteInv`
  as an invariant of both `ParticipantBuild` instances before the proof.
- **`StepsRunInOrder`** (`Spec => StepsInOrder`). Lemma `StepKeepsOrder`: only
  `CMakeStep` adds to `steps`, and only the step at `idx`. Before `idx`,
  `StepsBeforeIdx` of `CompleteInv` has already run every enabled step.

`AbiDumpProofs`:

- **`TypeCorrect`** and **`RecordAlwaysCurrent`** (`Spec => []PackagedRecordCurrent`).
- The inductive invariant adds `RecordOfRun`: while `pc = "package"`, the record on
  disk is this invocation's. `PackagedRecordCurrent` alone says nothing about the
  record `package()` is about to copy.

`SonarScanProofs`:

- **`ScanAlwaysUsesCompleteBuild`** (`Spec => []ScanUsesCompleteBuild`).
  The strengthening is `CaptureOfRun`: in the `coverage` and `scan` stages, the
  capture is this invocation's complete build. It needs no type invariant.
- **`TypeCorrect`** and **`ScanChecksCovered`** (`Spec => []ScanCoversRequestedChecks`),
  from `ChecksInv`, which conjoins `TypeOK` with four facts:
  - `RunStarted`;
  - `FormatChecked`: from `download` on, a requested clang-format check passed in
    this run;
  - `CoverageChecked`: at `scan` with coverage, junit and gcov are this run's;
  - `EarlierUpload`: the last upload is of a run no later than the current one,
    and of an earlier run while an invocation is under way or has failed. Without
    it, a failing scan would leave an old upload that the property, on the next
    return to `idle`, would read as this run's.
- Three lemmas about `_base_version`:
  - `FirstPlus`: the set of `+` positions has a least element, from `WFMin` and
    `NatLessThanWellFounded` of the library;
  - `BaseVersionPrefix`: `BaseVersion(v)` is `SubSeq(v, 1, n)` for an `n` with no
    `+` up to it, and `n` is the whole length or followed by a `+`;
  - `BaseVersionIsReference`: such a prefix is unique, so for every sequence of
    strings `BaseVersion(v) = ReferenceBaseVersion(v)`. TLC compares the two on
    short strings only; the lemma covers every version.
- **`RefinesAnalysis`** (`Spec => ImplementsAnalysis`), under `IInv /\ ChecksInv`:
  - `StartBuild` maps to `Start`;
  - a raise at any stage maps to `Fail`, by lemma `RunningStep`;
  - a stage that goes on before the scanner is a stutter;
  - a `Scan` that returns maps to `Upload`: `CaptureOfRun` gives the complete
    capture of this run, and `BaseVersionIsReference` gives the release version.
    The upload is not `None` by the assumption `NoUploadIsNone`.

`CoveragePipelineProofs`:

- **`TypeCorrect`** and **`SharedReportCurrent`**
  (`Spec => []CoveragePackageCurrentWhenShared`).
- The inductive invariant adds four facts:
  - `PipeStarted`;
  - `MainReportOfPipe`: after the library's coverage run, its report folder holds
    this pipeline's number;
  - `CovReportOfPipe`: off Jenkins, at packaging, the coverage recipe's folder holds
    this pipeline's number;
  - `PackageOfPipe`: a package of the current pipeline was written by its last step.
- Lemma `RunWrites` says that a coverage run only ever writes the current pipeline
  number.
- TLC checked the strengthening as an invariant on three pipelines before it was
  proved.

**Assumptions**

- `MaxRuns` or `MaxPipelines` is in `Nat \ {0}`.
- `None` lies outside the value sets, including `NoPackageIsNone` for AbiCheck and
  `NoUploadIsNone` for SonarScan.
- For SonarScan, `Versions \subseteq Seq(STRING)`.
- For AbiCheck, `Compatible \subseteq ABIs \X ABIs`.

TLC evaluates every assumption in the MC module of a passing run.

**Only TLC checks:**

- the violation runs.

Liveness and `ENABLED` are beyond TLAPS, but the project claims no liveness (see
"Fairness and liveness").

Every invariant and action property of a passing run has a theorem.

## Not modelled, and the plan

- **Not modelled:**
  - the XML text of the records;
  - the CMake definitions dictionary;
  - the `package_info`/`requirements` declarations;
  - the QA, ARC and test_package recipes (delegation to external helpers);
  - the functional-tests recipe (`_build_and_test` with fixed definitions, already
    in `ParticipantBuild`);
  - `scripts/test_coverage/open_cpp_coverage.py`, a copy of the helper;
  - `check_build_requirements`, a pure function;
  - concurrent invocations on one folder, which the spec calls unsafe;
  - a raise of `_copy_buildinfo` at the start of `build()` (`conanfile.py:95-97`,
    `conanfile_sca.py:63-65`). It copies a file of the recipe's own sources and
    fails only when those are incomplete. `StartBuild` includes these lines but
    lets them pass.
- **Hazards with no run:** PROJECT.json lists them with a note.
  - `package()` shipping a check record next to an earlier invocation's failed dump
    record, and a stale `doc/changelog.md`. Both are the stale-folder effect that
    `abicheck_stale_verdict`, `abidump_reruns` and `sonar_reruns` show; the project
    keeps to twelve runs.
  - tool hangs.
  - concurrent invocations on one folder.
- **Next sittings:**
  - a composition of `AbiDump` with `AbiCheck`, in which the reference dump comes
    from an earlier release's package;
  - the result-writer text against spec section 6;
  - an abstract workflow for `CoveragePipeline` or `ParticipantBuild`, with its
    refinement proved.
