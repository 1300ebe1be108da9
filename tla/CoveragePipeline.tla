--------------------------- MODULE CoveragePipeline ---------------------------
(***************************************************************************)
(* The Windows code-coverage flow across two recipes of one CI pipeline:   *)
(* conan create of the library (conanfile.py, whose build() ends with      *)
(* CppCodeCoverageTester.run when cpp_code_coverage_tester exists), then   *)
(* conan create of conanfile_test_coverage.py, which delegates to the      *)
(* OpenCppCoverage class of scripts/conan_helper/open_cpp_coverage.py: it  *)
(* skips the run on Jenkins ("was run in build stage") and packages the    *)
(* coverage_report_folder.                                                 *)
(*                                                                         *)
(* The coverage report folder is OPENCPPCOVERAGE_OUTPUT when set, a path   *)
(* that outlives the pipeline, else <package_folder>/test/results/         *)
(* opencppcoverage of the recipe that asks, a folder new to the pipeline.  *)
(* A behaviour is a sequence of at most MaxPipelines pipelines.            *)
(***************************************************************************)
EXTENDS Naturals

CONSTANTS
    MaxPipelines,  \* how many pipelines run one after the other
    None           \* no report

ASSUME MaxPipelinesAssumption == MaxPipelines \in Nat \ {0}

Pipelines == 1..MaxPipelines

ASSUME NoneAssumption == None \notin Pipelines

\* What a pipeline's recipes read: settings.os and settings.build_type,
\* JENKINS_URL, RUN_CODE_COVERAGE_CHECK and OPENCPPCOVERAGE_OUTPUT.
Envs == [os : {"Windows", "Linux"}, buildType : {"Debug", "Release"},
         jenkins : BOOLEAN, runCheck : BOOLEAN, outputSet : BOOLEAN]

\* The folders a report may be written to.
Folders == {"output", "mainPkg", "covPkg"}

VARIABLES
    pc,       \* the pipeline's stage
    pipe,     \* number of the current (or last) pipeline
    env,      \* the pipeline's Envs
    reports,  \* per folder, the pipeline whose coverage run wrote it last
    covPkg    \* the package of the coverage recipe, None before

vars == <<pc, pipe, env, reports, covPkg>>

TypeOK ==
    /\ pc \in {"idle", "main_build", "cov_reqs", "cov_build", "cov_package", "failed"}
    /\ pipe \in 0..MaxPipelines
    /\ env \in Envs
    /\ reports \in [Folders -> Pipelines \cup {None}]
    /\ covPkg \in [pipe : Pipelines, report : Pipelines \cup {None}] \cup {None}

-----------------------------------------------------------------------------
(***************************************************************************)
(* Helpers.                                                                *)
(***************************************************************************)

\* FepParticipant.cpp_code_coverage_tester of conanfile.py: coverage in the
\* library's build() runs only for Windows Debug with RUN_CODE_COVERAGE_CHECK.
MainRunsCoverage(e) ==
    e.buildType = "Debug" /\ e.os = "Windows" /\ e.runCheck

\* OpenCppCoverage._is_jenkins_build.
IsJenkinsBuild(e) == e.jenkins

\* Mutation: OPENCPPCOVERAGE_OUTPUT is not consulted.
ReportFolderOwn(e, owner) == owner

\* CppCodeCoverageTester.coverage_report_folder for the recipe whose
\* package folder is owner.
CoverageReportFolder(e, owner) == IF e.outputSet THEN "output" ELSE owner

\* One run of OpenCppCoverage by the recipe owning package folder owner:
\* the report is written to the report folder, and conanfile.run raises
\* when the tests fail, after the report is written or before.
CoverageRun(owner, fails) ==
    LET f == CoverageReportFolder(env, owner)
    IN  reports' \in IF fails THEN {reports, [reports EXCEPT ![f] = pipe]}
                              ELSE {[reports EXCEPT ![f] = pipe]}

-----------------------------------------------------------------------------
(***************************************************************************)
(* Actions.                                                                *)
(***************************************************************************)

Init ==
    /\ pc = "idle"
    /\ pipe = 0
    /\ env \in Envs
    /\ reports = [f \in Folders |-> None]
    /\ covPkg = None

\* A pipeline starts: both recipes get new package folders, the folder
\* named by OPENCPPCOVERAGE_OUTPUT keeps what it holds.
StartPipeline ==
    /\ pc \in {"idle", "failed"}
    /\ pipe < MaxPipelines
    /\ pipe' = pipe + 1
    /\ env' \in Envs
    /\ reports' = [reports EXCEPT !["mainPkg"] = None, !["covPkg"] = None]
    /\ pc' = "main_build"
    /\ UNCHANGED covPkg

\* The end of the library's build(): cpp_code_coverage_tester.run() when
\* the tester exists; a raise fails conan create and the pipeline.
MainBuildCoverage ==
    /\ pc = "main_build"
    /\ IF MainRunsCoverage(env)
          THEN \E fails \in BOOLEAN :
                 /\ CoverageRun("mainPkg", fails)
                 /\ pc' = IF fails THEN "failed" ELSE "cov_reqs"
          ELSE /\ pc' = "cov_reqs"
               /\ UNCHANGED reports
    /\ UNCHANGED <<pipe, env, covPkg>>

\* build_requirements of the coverage recipe: test_coverage_tool raises
\* on Linux; off Jenkins cmake and opencppcoverage are required.
CovRequirements ==
    /\ pc = "cov_reqs"
    /\ pc' = IF env.os = "Linux" THEN "failed" ELSE "cov_build"
    /\ UNCHANGED <<pipe, env, reports, covPkg>>

\* OpenCppCoverage.build: skipped on Jenkins, else the coverage run.
CovBuild ==
    /\ pc = "cov_build"
    /\ IF IsJenkinsBuild(env)
          THEN /\ pc' = "cov_package"
               /\ UNCHANGED reports
          ELSE \E fails \in BOOLEAN :
                 /\ CoverageRun("covPkg", fails)
                 /\ pc' = IF fails THEN "failed" ELSE "cov_package"
    /\ UNCHANGED <<pipe, env, covPkg>>

\* OpenCppCoverage.package: copy the coverage report folder into
\* test_coverage_report.
CovPackage ==
    /\ pc = "cov_package"
    /\ covPkg' = [pipe |-> pipe,
                  report |-> reports[CoverageReportFolder(env, "covPkg")]]
    /\ pc' = "idle"
    /\ UNCHANGED <<pipe, env, reports>>

\* No further pipeline.
Finished ==
    /\ pc \in {"idle", "failed"}
    /\ pipe = MaxPipelines
    /\ UNCHANGED vars

Next ==
    \/ StartPipeline
    \/ MainBuildCoverage
    \/ CovRequirements
    \/ CovBuild
    \/ CovPackage
    \/ Finished

Spec == Init /\ [][Next]_vars

-----------------------------------------------------------------------------
(***************************************************************************)
(* Properties.                                                             *)
(***************************************************************************)

\* When the coverage package's report can be current, it is: off Jenkins
\* the coverage recipe measures and packages its own run, and on Jenkins
\* with OPENCPPCOVERAGE_OUTPUT set and a library build that runs coverage,
\* it packages the report the library's build() wrote in this pipeline.
CoveragePackageCurrentWhenShared ==
    covPkg # None /\ covPkg.pipe = pipe
    /\ (~IsJenkinsBuild(env) \/ (env.outputSet /\ MainRunsCoverage(env)))
    => covPkg.report = pipe

\* The test_coverage package of a pipeline ships the report of a coverage
\* run of that pipeline (the comment of OpenCppCoverage.build: on Jenkins
\* the coverage "was run in build stage").
CoveragePackageCurrent ==
    covPkg # None => covPkg.report = covPkg.pipe

=============================================================================
