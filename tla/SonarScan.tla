------------------------------ MODULE SonarScan ------------------------------
(***************************************************************************)
(* The static-analysis recipe conanfile_sca.py: its build() with the       *)
(* ClangFormatTester and sonar_scan (scripts/conan_helper/sonar_helper.py) *)
(* which downloads the SonarQube scanner and build wrapper, configures,    *)
(* builds under the build wrapper, optionally runs ctest and gcov, and     *)
(* uploads the analysis with the SonarQube scanner.                        *)
(*                                                                         *)
(* A behaviour is a sequence of at most MaxRuns invocations of build() on  *)
(* ONE build folder.  Every conanfile.run without ignore_errors and every  *)
(* tools.get may raise; the exception ends the invocation.  The folders    *)
(* sonar_build_output and code_coverage of the build folder persist.       *)
(***************************************************************************)
EXTENDS Naturals, Sequences, SequencesExt

CONSTANTS
    MaxRuns,     \* how many invocations of build() the build folder sees
    Versions,    \* the package versions (strings, as sequences of chars)
    None         \* an absent file or upload

ASSUME MaxRunsAssumption == MaxRuns \in Nat \ {0}

Runs == 1..MaxRuns

ASSUME NoneAssumption == None \notin Runs

\* _base_version(version: str): a conan version is a string, modelled as
\* the sequence of its one-character strings.
ASSUME VersionsAssumption == Versions \subseteq Seq(STRING)

\* What one invocation reads from its settings and Environment: the OS,
\* conan's should_build, ENABLE_FILE_FORMATTING, RUN_CODE_COVERAGE_CHECK and
\* the recipe version.  Environment caches each value on first read.
Opts == [os : {"Linux", "Windows"}, build : BOOLEAN, formatting : BOOLEAN,
         coverageEnv : BOOLEAN, version : Versions]

\* The build wrapper's capture in sonar_build_output: the invocation whose
\* wrapped build wrote it and whether that build completed.
Capture == [run : Runs, complete : BOOLEAN]

\* What the SonarQube scanner uploads: the invocation, the capture it read,
\* the invocation whose .gcov files it found in code_coverage, and the
\* -Dsonar.projectVersion it passed.
Upload == [run : Runs, capture : Capture, gcov : Runs \cup {None},
           version : Seq(STRING)]

\* None stands for "nothing uploaded yet", which no analysis is.
ASSUME NoUploadIsNone == None \notin Upload

VARIABLES
    pc,        \* where build() is
    run,       \* number of the current (or last) invocation
    opts,      \* the invocation's Opts
    formatted, \* invocation whose clang-format check passed, None if none
    capture,   \* <build>/sonar_build_output, None before the first build
    junit,     \* <build>/test/results/function/tester_result_functional_tests.xml
    gcov,      \* invocation that last wrote .gcov files to <build>/code_coverage
    upload     \* the last analysis the scanner uploaded, None before

vars == <<pc, run, opts, formatted, capture, junit, gcov, upload>>

PCs == {"idle", "format", "download", "configure", "wrapped_build",
        "coverage", "scan", "failed"}

TypeOK ==
    /\ pc \in PCs
    /\ run \in 0..MaxRuns
    /\ opts \in Opts
    /\ formatted \in Runs \cup {None}
    /\ capture \in Capture \cup {None}
    /\ junit \in Runs \cup {None}
    /\ gcov \in Runs \cup {None}
    /\ upload \in Upload \cup {None}

-----------------------------------------------------------------------------
(***************************************************************************)
(* Helpers.                                                                *)
(***************************************************************************)

\* FepParticipant.run_code_coverage_check of conanfile_sca.py.
RunCodeCoverageCheck(o) == o.os = "Linux" /\ o.coverageEnv

\* Mutation: the split index is taken one too far, keeping the "+".
BaseVersionKeepPlus(v) ==
    LET i == SelectInSeq(v, LAMBDA c : c = "+")
    IN  IF i # 0 THEN SubSeq(v, 1, i) ELSE v

\* _base_version: version.split("+")[0] when "+" occurs in the version.
BaseVersion(v) ==
    LET i == SelectInSeq(v, LAMBDA c : c = "+")
    IN  IF i # 0 THEN SubSeq(v, 1, i - 1) ELSE v

\* ClangFormatTester.run runs the formatting target only when conan builds;
\* build() creates the tester only with ENABLE_FILE_FORMATTING.
FormattingRequested(o) == o.formatting /\ o.build

\* Outcome of a conanfile.run or tools.get that raises on failure.
Raises == BOOLEAN

-----------------------------------------------------------------------------
(***************************************************************************)
(* Actions: one per piece of build(), in the order build() runs them.      *)
(***************************************************************************)

Init ==
    /\ pc = "idle"
    /\ run = 0
    /\ opts \in Opts
    /\ formatted = None
    /\ capture = None
    /\ junit = None
    /\ gcov = None
    /\ upload = None

\* Conan invokes build() on the build folder.
StartBuild ==
    /\ pc \in {"idle", "failed"}
    /\ run < MaxRuns
    /\ run' = run + 1
    /\ opts' \in Opts
    /\ pc' = "format"
    /\ UNCHANGED <<formatted, capture, junit, gcov, upload>>

\* Mutation: the formatting target is run with ignore_errors.
ClangFormatIgnoreErrors ==
    /\ pc = "format"
    /\ IF FormattingRequested(opts)
          THEN \E fails \in Raises :
                 /\ formatted' = IF fails THEN formatted ELSE run
                 /\ pc' = "download"
          ELSE /\ pc' = "download"
                /\ UNCHANGED formatted
    /\ UNCHANGED <<run, opts, capture, junit, gcov, upload>>

\* The clang-format check: ClangFormatTester.run runs the formatting
\* target with --Werror --dry-run when ENABLE_FILE_FORMATTING is set and
\* conan builds; a formatting violation makes conanfile.run raise.
ClangFormat ==
    /\ pc = "format"
    /\ IF FormattingRequested(opts)
          THEN \E fails \in Raises :
                 /\ formatted' = IF fails THEN formatted ELSE run
                 /\ pc' = IF fails THEN "failed" ELSE "download"
          ELSE /\ pc' = "download"
                /\ UNCHANGED formatted
    /\ UNCHANGED <<run, opts, capture, junit, gcov, upload>>

\* sonar_scan: tools.get of the scanner and of the build wrapper (either
\* may raise) and, on Linux, _make_executable of java, the scanner and
\* the wrapper.
Download ==
    /\ pc = "download"
    /\ \E fails \in Raises : pc' = IF fails THEN "failed" ELSE "configure"
    /\ UNCHANGED <<run, opts, formatted, capture, junit, gcov, upload>>

\* build__cmake_configure with the additional definitions, among them
\* fep3_participant_enable_code_coverage when run_code_coverage_check.
Configure ==
    /\ pc = "configure"
    /\ \E fails \in Raises : pc' = IF fails THEN "failed" ELSE "wrapped_build"
    /\ UNCHANGED <<run, opts, formatted, capture, junit, gcov, upload>>

\* Mutation: the wrapped build is run with ignore_errors.
WrappedBuildIgnoreErrors ==
    /\ pc = "wrapped_build"
    /\ \E fails \in Raises :
          /\ capture' = [run |-> run, complete |-> ~fails]
          /\ pc' = "coverage"
    /\ UNCHANGED <<run, opts, formatted, junit, gcov, upload>>

\* cmake --build under the build wrapper, which (re)writes its capture in
\* sonar_build_output; a failing build raises after the capture is written.
WrappedBuild ==
    /\ pc = "wrapped_build"
    /\ \E fails \in Raises :
          /\ capture' = [run |-> run, complete |-> ~fails]
          /\ pc' = IF fails THEN "failed" ELSE "coverage"
    /\ UNCHANGED <<run, opts, formatted, junit, gcov, upload>>

\* makedirs(code_coverage, exist_ok=True); with run_code_coverage_check,
\* ctest with ignore_errors writes the junit file, then gcov translates
\* the .gcda files into .gcov files in code_coverage and may raise after
\* writing some of them.
CoverageStep ==
    /\ pc = "coverage"
    /\ IF RunCodeCoverageCheck(opts)
          THEN /\ junit' = run
               /\ \E fails \in Raises :
                     /\ gcov' \in IF fails THEN {gcov, run} ELSE {run}
                     /\ pc' = IF fails THEN "failed" ELSE "scan"
          ELSE /\ pc' = "scan"
               /\ UNCHANGED <<junit, gcov>>
    /\ UNCHANGED <<run, opts, formatted, capture, upload>>

\* The SonarQube scanner reads sonar_build_output and every .gcov file in
\* code_coverage and uploads the analysis under the base version; it may
\* raise.  build() then returns.
Scan ==
    /\ pc = "scan"
    /\ \E fails \in Raises :
          /\ upload' = IF fails THEN upload
                       ELSE [run |-> run, capture |-> capture, gcov |-> gcov,
                             version |-> BaseVersion(opts.version)]
          /\ pc' = IF fails THEN "failed" ELSE "idle"
    /\ UNCHANGED <<run, opts, formatted, capture, junit, gcov>>

\* No further invocation.
Finished ==
    /\ pc \in {"idle", "failed"}
    /\ run = MaxRuns
    /\ UNCHANGED vars

Next ==
    \/ StartBuild
    \/ ClangFormat
    \/ Download
    \/ Configure
    \/ WrappedBuild
    \/ CoverageStep
    \/ Scan
    \/ Finished

Spec == Init /\ [][Next]_vars

-----------------------------------------------------------------------------
(***************************************************************************)
(* Properties.                                                             *)
(***************************************************************************)

\* _base_version by its meaning: the longest prefix of the version that
\* holds no "+", i.e. the version without its build metadata.
ReferenceBaseVersion(v) ==
    CHOOSE p \in Prefixes(v) :
        /\ ~Contains(p, "+")
        /\ Len(p) = Len(v) \/ v[Len(p) + 1] = "+"

\* An analysis that sonar_scan uploads describes a complete build of the
\* same invocation: the build wrapper's capture is never one of an earlier
\* invocation left in sonar_build_output, nor of a build that failed.
ScanUsesCompleteBuild ==
    upload # None => upload.capture = [run |-> upload.run, complete |-> TRUE]

\* When build() of conanfile_sca.py returns after uploading, every check
\* the invocation asked for ran in it: the clang-format check passed when
\* ENABLE_FILE_FORMATTING is set and conan builds, and with
\* run_code_coverage_check the tests ran and their .gcov files are the
\* ones uploaded; the project version is the base version.
ScanCoversRequestedChecks ==
    pc = "idle" /\ upload # None /\ upload.run = run =>
        /\ FormattingRequested(opts) => formatted = run
        /\ RunCodeCoverageCheck(opts) => junit = run /\ upload.gcov = run
        /\ upload.version = ReferenceBaseVersion(opts.version)

\* The coverage SonarQube shows for an analysis was measured by the tests
\* of that invocation: the scanner never reads .gcov files an earlier
\* invocation left in code_coverage.
ScanCoverageCurrent ==
    upload # None /\ upload.gcov # None => upload.gcov = upload.run

-----------------------------------------------------------------------------
(***************************************************************************)
(* Refinement: build() of conanfile_sca.py implements SonarAnalysis, with  *)
(* every stage between StartBuild and the scanner seen as "running", the   *)
(* build wrapper's capture as the build an upload describes, and the       *)
(* folders, the junit file and the .gcov files hidden.                     *)
(***************************************************************************)

Analysis == INSTANCE SonarAnalysis
    WITH stage <- IF pc \in {"idle", "failed"} THEN pc ELSE "running",
         version <- opts.version,
         upload <- IF upload = None THEN None
                   ELSE [run |-> upload.run, build |-> upload.capture,
                         version |-> upload.version]

\* Every behaviour of build() is one of the workflow: an invocation that
\* raises at any step (clang-format, tools.get, configure, the wrapped
\* build, gcov, the scanner) uploads nothing, and one that returns
\* uploads exactly once, the analysis of its own complete build under
\* _base_version of its version.
ImplementsAnalysis == Analysis!Spec

=============================================================================
