------------------------ MODULE CoveragePipelineProofs ------------------------
(***************************************************************************)
(* Proofs about the Windows coverage flow of a CI pipeline, for every      *)
(* number of pipelines.                                                    *)
(***************************************************************************)
EXTENDS CoveragePipeline, TLAPS

\* A pipeline that is under way has been numbered by StartPipeline.
PipeStarted == pc # "idle" => pipe \in Pipelines

\* Once the library's build() has run coverage in this pipeline, the report
\* folder it chose holds this pipeline's report, until the pipeline ends.
MainReportOfPipe ==
    pc \in {"cov_reqs", "cov_build", "cov_package"} /\ MainRunsCoverage(env)
        => reports[CoverageReportFolder(env, "mainPkg")] = pipe

\* Off Jenkins, when the coverage recipe is about to package, the report
\* folder it copies holds the report of its own run in this pipeline.
CovReportOfPipe ==
    pc = "cov_package" /\ ~IsJenkinsBuild(env)
        => reports[CoverageReportFolder(env, "covPkg")] = pipe

\* A coverage package of the current pipeline was written by its last
\* step; packages of earlier pipelines are numbered below pipe.
PackageOfPipe ==
    covPkg # None => covPkg.pipe <= pipe /\ (covPkg.pipe = pipe => pc = "idle")

IInv == /\ TypeOK /\ PipeStarted /\ MainReportOfPipe /\ CovReportOfPipe
        /\ PackageOfPipe /\ CoveragePackageCurrentWhenShared


\* The report folder of a recipe is one of the folders.
LEMMA FolderOfRecipe ==
    ASSUME NEW e \in Envs, NEW owner \in Folders
    PROVE  CoverageReportFolder(e, owner) \in Folders
BY DEF CoverageReportFolder, Folders

\* A coverage run writes this pipeline's number into its report folder,
\* always when it passes, and nothing else.
LEMMA RunWrites ==
    ASSUME TypeOK, pipe \in Pipelines,
           NEW owner \in Folders, NEW fails \in BOOLEAN,
           CoverageRun(owner, fails)
    PROVE  /\ reports' \in [Folders -> Pipelines \cup {None}]
           /\ \A g \in Folders : reports'[g] = reports[g] \/ reports'[g] = pipe
           /\ ~fails => reports'[CoverageReportFolder(env, owner)] = pipe
<1> DEFINE f == CoverageReportFolder(env, owner)
<1>1. f \in Folders
  BY FolderOfRecipe DEF TypeOK
<1>2. reports' = reports \/ reports' = [reports EXCEPT ![f] = pipe]
  BY DEF CoverageRun
<1>3. ~fails => reports' = [reports EXCEPT ![f] = pipe]
  BY DEF CoverageRun
<1> QED
  BY <1>1, <1>2, <1>3 DEF TypeOK

LEMMA InitIInv == Init => IInv
BY NoneAssumption, MaxPipelinesAssumption
DEF Init, IInv, TypeOK, PipeStarted, MainReportOfPipe, CovReportOfPipe,
    PackageOfPipe, CoveragePackageCurrentWhenShared

LEMMA IInvInductive == IInv /\ [Next]_vars => IInv'
<1> SUFFICES ASSUME IInv, [Next]_vars PROVE IInv'
  OBVIOUS
<1> USE DEF IInv
<1>1. CASE StartPipeline
  <2>1. pipe' \in Pipelines /\ pipe' > pipe
    BY <1>1, MaxPipelinesAssumption DEF StartPipeline, TypeOK, Pipelines
  <2>2. TypeOK'
    <3>1. reports' \in [Folders -> Pipelines \cup {None}]
      BY <1>1 DEF StartPipeline, TypeOK, Folders
    <3>2. pc' = "main_build" /\ env' \in Envs /\ covPkg' = covPkg
      BY <1>1 DEF StartPipeline
    <3>3. pipe' \in 0..MaxPipelines
      BY <2>1 DEF Pipelines
    <3> QED
      BY <3>1, <3>2, <3>3 DEF TypeOK
  <2>3. (PackageOfPipe /\ CoveragePackageCurrentWhenShared)'
    BY <1>1, <2>1 DEF StartPipeline, TypeOK, Pipelines, PackageOfPipe,
                      CoveragePackageCurrentWhenShared
  <2> QED
    BY <1>1, <2>1, <2>2, <2>3
    DEF StartPipeline, PipeStarted, MainReportOfPipe, CovReportOfPipe
<1>2. CASE MainBuildCoverage
  <2>1. pipe \in Pipelines /\ UNCHANGED <<pipe, env, covPkg>>
    BY <1>2 DEF MainBuildCoverage, PipeStarted
  <2>2. covPkg # None => covPkg.pipe # pipe
    BY <1>2 DEF MainBuildCoverage, PackageOfPipe
  <2>3. CASE MainRunsCoverage(env)
    <3>1. PICK fails \in BOOLEAN :
               /\ CoverageRun("mainPkg", fails)
               /\ pc' = IF fails THEN "failed" ELSE "cov_reqs"
      BY <1>2, <2>3 DEF MainBuildCoverage
    <3>2. /\ reports' \in [Folders -> Pipelines \cup {None}]
          /\ ~fails => reports'[CoverageReportFolder(env, "mainPkg")] = pipe
      BY <2>1, <3>1, RunWrites DEF Folders
    <3> QED
      BY <2>1, <2>2, <3>1, <3>2
      DEF TypeOK, PipeStarted, MainReportOfPipe, CovReportOfPipe,
          PackageOfPipe, CoveragePackageCurrentWhenShared
  <2>4. CASE ~MainRunsCoverage(env)
    BY <1>2, <2>1, <2>2, <2>4
    DEF MainBuildCoverage, TypeOK, PipeStarted, MainReportOfPipe,
        CovReportOfPipe, PackageOfPipe, CoveragePackageCurrentWhenShared
  <2> QED
    BY <2>3, <2>4
<1>3. CASE CovRequirements
  <2>1. covPkg # None => covPkg.pipe # pipe
    BY <1>3 DEF CovRequirements, PackageOfPipe
  <2> QED
    BY <1>3, <2>1
    DEF CovRequirements, TypeOK, PipeStarted, MainReportOfPipe, CovReportOfPipe,
        PackageOfPipe, CoveragePackageCurrentWhenShared
<1>4. CASE CovBuild
  <2>1. pipe \in Pipelines /\ UNCHANGED <<pipe, env, covPkg>>
    BY <1>4 DEF CovBuild, PipeStarted
  <2>2. covPkg # None => covPkg.pipe # pipe
    BY <1>4 DEF CovBuild, PackageOfPipe
  <2>3. CASE IsJenkinsBuild(env)
    BY <1>4, <2>1, <2>2, <2>3
    DEF CovBuild, TypeOK, PipeStarted, MainReportOfPipe, CovReportOfPipe,
        PackageOfPipe, CoveragePackageCurrentWhenShared
  <2>4. CASE ~IsJenkinsBuild(env)
    <3>1. PICK fails \in BOOLEAN :
               /\ CoverageRun("covPkg", fails)
               /\ pc' = IF fails THEN "failed" ELSE "cov_package"
      BY <1>4, <2>4 DEF CovBuild
    <3>2. /\ reports' \in [Folders -> Pipelines \cup {None}]
          /\ \A g \in Folders : reports'[g] = reports[g] \/ reports'[g] = pipe
          /\ ~fails => reports'[CoverageReportFolder(env, "covPkg")] = pipe
      BY <2>1, <3>1, RunWrites DEF Folders
    <3>3. MainReportOfPipe'
      <4>1. CoverageReportFolder(env, "mainPkg") \in Folders
        BY FolderOfRecipe DEF TypeOK, Folders
      <4> QED
        BY <1>4, <2>1, <3>1, <3>2, <4>1 DEF MainReportOfPipe, CovBuild
    <3> QED
      BY <2>1, <2>2, <2>4, <3>1, <3>2, <3>3
      DEF TypeOK, PipeStarted, CovReportOfPipe, PackageOfPipe,
          CoveragePackageCurrentWhenShared
  <2> QED
    BY <2>3, <2>4
<1>5. CASE CovPackage
  <2> DEFINE fc == CoverageReportFolder(env, "covPkg")
  <2>1. pipe \in Pipelines /\ fc \in Folders
    BY <1>5, FolderOfRecipe DEF CovPackage, PipeStarted, TypeOK, Folders
  <2>2. TypeOK'
    BY <1>5, <2>1 DEF CovPackage, TypeOK
  <2>3. ~IsJenkinsBuild(env) => reports[fc] = pipe
    BY <1>5 DEF CovPackage, CovReportOfPipe
  <2>4. env.outputSet /\ MainRunsCoverage(env) => reports[fc] = pipe
    BY <1>5 DEF CovPackage, MainReportOfPipe, CoverageReportFolder
  <2>5. CoveragePackageCurrentWhenShared'
    BY <1>5, <2>3, <2>4 DEF CovPackage, CoveragePackageCurrentWhenShared
  <2>6. pc' = "idle" /\ pipe' = pipe /\ covPkg'.pipe = pipe
    BY <1>5 DEF CovPackage
  <2>7. (PipeStarted /\ MainReportOfPipe /\ CovReportOfPipe)'
    BY <2>6 DEF PipeStarted, MainReportOfPipe, CovReportOfPipe
  <2>8. PackageOfPipe'
    BY <2>1, <2>6 DEF PackageOfPipe, Pipelines
  <2> QED
    BY <2>2, <2>5, <2>7, <2>8
<1>6. CASE Finished \/ UNCHANGED vars
  BY <1>6
  DEF Finished, vars, TypeOK, PipeStarted, MainReportOfPipe, CovReportOfPipe,
      PackageOfPipe, CoveragePackageCurrentWhenShared
<1> QED
  BY <1>1, <1>2, <1>3, <1>4, <1>5, <1>6 DEF Next

\* Every reachable state is well typed: report folders and the coverage
\* package only name pipelines that ran.
THEOREM TypeCorrect == Spec => []TypeOK
BY InitIInv, IInvInductive, PTL DEF Spec, IInv

\* For every number of pipelines, the test_coverage package ships the
\* report of its own pipeline whenever the code lets it: off Jenkins
\* (OpenCppCoverage.build runs the tests itself), and on Jenkins when
\* OPENCPPCOVERAGE_OUTPUT is set and the library's build() ran coverage.
THEOREM SharedReportCurrent == Spec => []CoveragePackageCurrentWhenShared
BY InitIInv, IInvInductive, PTL DEF Spec, IInv

=============================================================================
