--------------------------- MODULE SonarScanProofs ---------------------------
(***************************************************************************)
(* Proofs about the static-analysis recipe, for every number of           *)
(* invocations on one build folder and every set of versions.             *)
(***************************************************************************)
EXTENDS SonarScan, TLAPS, SequenceTheorems, WellFoundedInduction

\* After the wrapped build returned, until the scanner has run, the
\* capture in sonar_build_output is this invocation's complete build.
\* ScanUsesCompleteBuild alone is not inductive: it says nothing about the
\* capture the scanner is about to read.
CaptureOfRun ==
    pc \in {"coverage", "scan"} => capture = [run |-> run, complete |-> TRUE]

IInv == CaptureOfRun /\ ScanUsesCompleteBuild

\* The steps between StartBuild and the wrapped build leave capture, run
\* and upload alone and never enter the coverage or scan stage.
LEMMA BeforeBuildStep ==
    ASSUME IInv,
           pc' \notin {"coverage", "scan"},
           UNCHANGED upload
    PROVE  IInv'
BY DEF IInv, CaptureOfRun, ScanUsesCompleteBuild

LEMMA IInvInductive == IInv /\ [Next]_vars => IInv'
<1> SUFFICES ASSUME IInv, [Next]_vars PROVE IInv'
  OBVIOUS
<1>1. CASE StartBuild
  BY <1>1, BeforeBuildStep DEF StartBuild
<1>2. CASE ClangFormat
  BY <1>2, BeforeBuildStep DEF ClangFormat
<1>3. CASE Download
  BY <1>3, BeforeBuildStep DEF Download
<1>4. CASE Configure
  BY <1>4, BeforeBuildStep DEF Configure
<1>5. CASE WrappedBuild
  <2>1. PICK fails \in Raises :
             /\ capture' = [run |-> run, complete |-> ~fails]
             /\ pc' = IF fails THEN "failed" ELSE "coverage"
    BY <1>5 DEF WrappedBuild
  <2>2. CaptureOfRun'
    BY <1>5, <2>1 DEF WrappedBuild, CaptureOfRun, Raises
  <2>3. ScanUsesCompleteBuild'
    BY <1>5 DEF WrappedBuild, IInv, ScanUsesCompleteBuild
  <2> QED
    BY <2>2, <2>3 DEF IInv
<1>6. CASE CoverageStep
  BY <1>6 DEF CoverageStep, IInv, CaptureOfRun, ScanUsesCompleteBuild
<1>7. CASE Scan
  <2>1. capture = [run |-> run, complete |-> TRUE]
    BY <1>7 DEF Scan, IInv, CaptureOfRun
  <2>2. PICK fails \in Raises :
             /\ upload' = IF fails THEN upload
                          ELSE [run |-> run, capture |-> capture, gcov |-> gcov,
                                version |-> BaseVersion(opts.version)]
             /\ pc' = IF fails THEN "failed" ELSE "idle"
    BY <1>7 DEF Scan
  <2>3. CaptureOfRun'
    BY <2>2 DEF CaptureOfRun, Raises
  <2>4. UNCHANGED <<run, capture>>
    BY <1>7 DEF Scan
  <2>5. ScanUsesCompleteBuild'
    <3>1. CASE fails
      <4>1. upload' = upload
        BY <2>2, <3>1, Zenon
      <4> QED
        BY <2>4, <4>1 DEF IInv, ScanUsesCompleteBuild
    <3>2. CASE ~fails
      <4>1. upload' = [run |-> run, capture |-> capture, gcov |-> gcov,
                       version |-> BaseVersion(opts.version)]
        BY <2>2, <3>2, Zenon
      <4> QED
        BY <2>1, <2>4, <4>1 DEF ScanUsesCompleteBuild
    <3> QED
      BY <3>1, <3>2
  <2> QED
    BY <2>3, <2>5 DEF IInv
<1>8. CASE Finished \/ UNCHANGED vars
  BY <1>8 DEF Finished, vars, IInv, CaptureOfRun, ScanUsesCompleteBuild
<1> QED
  BY <1>1, <1>2, <1>3, <1>4, <1>5, <1>6, <1>7, <1>8 DEF Next

\* For every number of invocations on one build folder, an analysis that
\* sonar_scan uploads read the build wrapper's capture of a complete build
\* of its own invocation: a failing wrapped build raises before the scanner
\* runs, and every invocation rewrites the capture before it scans.
THEOREM ScanAlwaysUsesCompleteBuild == Spec => []ScanUsesCompleteBuild
<1>1. Init => IInv
  BY DEF Init, IInv, CaptureOfRun, ScanUsesCompleteBuild
<1> QED
  BY <1>1, IInvInductive, PTL DEF Spec, IInv

-----------------------------------------------------------------------------
(***************************************************************************)
(* The checks an upload stands for.                                        *)
(***************************************************************************)

\* An invocation that is under way has been numbered by StartBuild.
RunStarted == pc # "idle" => run \in Runs

\* From the download on, a requested clang-format check passed in this
\* invocation: a failing check raises and never reaches sonar_scan.
FormatChecked ==
    pc \in {"download", "configure", "wrapped_build", "coverage", "scan"}
    /\ FormattingRequested(opts) => formatted = run

\* When the scanner is about to run with run_code_coverage_check, ctest
\* and gcov ran in this invocation and gcov wrote all its files.
CoverageChecked ==
    pc = "scan" /\ RunCodeCoverageCheck(opts) => junit = run /\ gcov = run

\* The last upload is one of an invocation that ran, and one of an
\* earlier invocation while an invocation is under way or has failed.
\* Without it ScanCoversRequestedChecks is not inductive: a scan that
\* raises leaves an older upload behind under the same run number.
EarlierUpload ==
    upload # None => /\ upload.run <= run
                     /\ pc # "idle" => upload.run < run

ChecksInv ==
    /\ TypeOK /\ RunStarted /\ FormatChecked /\ CoverageChecked
    /\ EarlierUpload /\ ScanCoversRequestedChecks

-----------------------------------------------------------------------------
(***************************************************************************)
(* _base_version.                                                          *)
(***************************************************************************)

\* The "+" positions of a version have a least element: SelectInSeq takes
\* the Min of a non-empty set of naturals, which exists since < is well
\* founded on Nat.
LEMMA FirstPlus ==
    ASSUME NEW v \in Seq(STRING),
           {i \in 1..Len(v) : v[i] = "+"} # {}
    PROVE  LET I == {i \in 1..Len(v) : v[i] = "+"}
           IN  Min(I) \in I /\ \A y \in I : Min(I) <= y
<1> DEFINE I == {i \in 1..Len(v) : v[i] = "+"}
<1> DEFINE R == OpToRel(<, Nat)
<1>0. I \subseteq Nat /\ I # {}
  OBVIOUS
<1>1. IsWellFoundedOn(R, Nat)
  BY NatLessThanWellFounded DEF R
<1>2. PICK x \in I : \A y \in I : ~(<<y, x>> \in R)
  BY <1>0, <1>1, WFMin, Zenon
<1>3. \A y \in I : <<y, x>> \in R <=> y < x
  BY <1>0 DEF R, OpToRel
<1>5. \A y \in I : x <= y
  <2>1. TAKE y \in I
  <2>2. ~(y < x) /\ x \in Nat /\ y \in Nat
    BY <1>0, <1>2, <1>3
  <2> QED
    BY <2>2
<1>4. \E m \in I : \A y \in I : m <= y
  BY <1>5
<1> QED
  BY <1>4 DEF Min

\* version.split("+")[0] is the prefix before the first "+", and the whole
\* version when it holds no "+".
LEMMA BaseVersionPrefix ==
    ASSUME NEW v \in Seq(STRING)
    PROVE  \E n \in 0..Len(v) :
               /\ BaseVersion(v) = SubSeq(v, 1, n)
               /\ \A j \in 1..n : v[j] # "+"
               /\ n = Len(v) \/ v[n + 1] = "+"
<1> DEFINE I == {i \in 1..Len(v) : v[i] = "+"}
<1>1. SelectInSeq(v, LAMBDA c : c = "+") = IF I # {} THEN Min(I) ELSE 0
  BY DEF SelectInSeq
<1>2. CASE I = {}
  <2>1. BaseVersion(v) = v
    BY <1>1, <1>2 DEF BaseVersion
  <2>2. SubSeq(v, 1, Len(v)) = v
    OBVIOUS
  <2>3. \A j \in 1..Len(v) : v[j] # "+"
    BY <1>2
  <2> WITNESS Len(v) \in 0..Len(v)
  <2> QED
    BY <2>1, <2>2, <2>3
<1>3. CASE I # {}
  <2>1. Min(I) \in I /\ \A y \in I : Min(I) <= y
    BY <1>3, FirstPlus
  <2>2. SelectInSeq(v, LAMBDA c : c = "+") = Min(I) /\ Min(I) # 0
    BY <1>1, <1>3, <2>1
  <2>3. BaseVersion(v) = SubSeq(v, 1, Min(I) - 1)
    BY <2>2, Zenon DEF BaseVersion
  <2>4. \A j \in 1..Min(I) - 1 : v[j] # "+"
    BY <2>1
  <2> USE <2>1
  <2> WITNESS Min(I) - 1 \in 0..Len(v)
  <2> QED
    BY <2>1, <2>3, <2>4
<1> QED
  BY <1>2, <1>3

\* _base_version meets its meaning: for every version, it is the longest
\* prefix that holds no "+".  The prefix with no "+" that is the whole
\* version or stops at a "+" is unique.
LEMMA BaseVersionIsReference ==
    ASSUME NEW v \in Seq(STRING)
    PROVE  /\ BaseVersion(v) = ReferenceBaseVersion(v)
           /\ BaseVersion(v) \in Seq(STRING)
<1>1. PICK n \in 0..Len(v) :
           /\ BaseVersion(v) = SubSeq(v, 1, n)
           /\ \A j \in 1..n : v[j] # "+"
           /\ n = Len(v) \/ v[n + 1] = "+"
  BY BaseVersionPrefix
<1> DEFINE b == BaseVersion(v)
           Good(p) == /\ ~Contains(p, "+")
                      /\ Len(p) = Len(v) \/ v[Len(p) + 1] = "+"
<1>2. \A l \in 0..Len(v) :
           /\ SubSeq(v, 1, l) \in Seq(STRING)
           /\ Len(SubSeq(v, 1, l)) = l
           /\ \A j \in 1..l : SubSeq(v, 1, l)[j] = v[j]
  BY SubSeqProperties
<1>3. b \in Prefixes(v) /\ Good(b) /\ b \in Seq(STRING)
  BY <1>1, <1>2 DEF Prefixes, Contains
<1>4. ASSUME NEW p \in Prefixes(v), Good(p) PROVE p = b
  <2>1. PICK l \in 0..Len(v) : p = SubSeq(v, 1, l)
    BY DEF Prefixes
  <2>2. Len(p) = l /\ \A j \in 1..l : p[j] = v[j]
    BY <1>2, <2>1
  <2>3. ~(l < n)
    BY <1>1, <1>4, <2>2
  <2>4. ~(n < l)
    BY <1>1, <1>4, <2>2 DEF Contains
  <2> QED
    BY <1>1, <2>1, <2>3, <2>4
<1> QED
  BY <1>3, <1>4 DEF ReferenceBaseVersion

-----------------------------------------------------------------------------
(***************************************************************************)
(* The checks are inductive.                                               *)
(***************************************************************************)

LEMMA InitChecks == Init => ChecksInv
BY MaxRunsAssumption
DEF Init, ChecksInv, TypeOK, PCs, RunStarted, FormatChecked, CoverageChecked,
    EarlierUpload, ScanCoversRequestedChecks

\* The download, configure and wrapped-build steps leave every check
\* result alone and stay before the scanner.
LEMMA MiddleStep ==
    ASSUME ChecksInv,
           pc \in {"download", "configure", "wrapped_build"},
           pc' \in {"configure", "wrapped_build", "coverage", "failed"},
           capture' \in Capture \cup {None},
           UNCHANGED <<run, opts, formatted, junit, gcov, upload>>
    PROVE  ChecksInv'
BY DEF ChecksInv, TypeOK, PCs, RunStarted, FormatChecked, CoverageChecked,
       EarlierUpload, ScanCoversRequestedChecks

LEMMA ChecksInductive == IInv /\ ChecksInv /\ [Next]_vars => ChecksInv'
<1> SUFFICES ASSUME IInv, ChecksInv, [Next]_vars PROVE ChecksInv'
  OBVIOUS
<1>1. CASE StartBuild
  <2>1. run' \in Runs /\ run' = run + 1 /\ pc' = "format"
    BY <1>1, MaxRunsAssumption DEF StartBuild, ChecksInv, TypeOK, Runs
  <2>2. EarlierUpload'
    BY <1>1, <2>1 DEF StartBuild, ChecksInv, TypeOK, EarlierUpload, Upload, Runs
  <2> QED
    BY <1>1, <2>1, <2>2
    DEF StartBuild, ChecksInv, TypeOK, PCs, Runs, RunStarted, FormatChecked,
        CoverageChecked, ScanCoversRequestedChecks
<1>2. CASE ClangFormat
  <2>1. run \in Runs /\ UNCHANGED <<run, opts, upload>>
    BY <1>2 DEF ClangFormat, ChecksInv, RunStarted
  <2>2. /\ formatted' \in Runs \cup {None}
        /\ pc' \in {"download", "failed"}
        /\ pc' = "download" /\ FormattingRequested(opts) => formatted' = run
    <3>1. CASE FormattingRequested(opts)
      <4>1. PICK fails \in Raises :
                 /\ formatted' = IF fails THEN formatted ELSE run
                 /\ pc' = IF fails THEN "failed" ELSE "download"
        BY <1>2, <3>1 DEF ClangFormat
      <4>2. formatted \in Runs \cup {None}
        BY DEF ChecksInv, TypeOK
      <4> QED
        BY <2>1, <4>1, <4>2, Zenon DEF Raises
    <3>2. CASE ~FormattingRequested(opts)
      BY <1>2, <3>2 DEF ClangFormat, ChecksInv, TypeOK
    <3> QED
      BY <3>1, <3>2
  <2> QED
    BY <1>2, <2>1, <2>2
    DEF ClangFormat, ChecksInv, TypeOK, PCs, RunStarted, FormatChecked,
        CoverageChecked, EarlierUpload, ScanCoversRequestedChecks
<1>3. CASE Download
  BY <1>3, MiddleStep DEF Download, ChecksInv, TypeOK
<1>4. CASE Configure
  BY <1>4, MiddleStep DEF Configure, ChecksInv, TypeOK
<1>5. CASE WrappedBuild
  <2>1. run \in Runs
    BY <1>5 DEF WrappedBuild, ChecksInv, RunStarted
  <2>2. PICK fails \in Raises :
             /\ capture' = [run |-> run, complete |-> ~fails]
             /\ pc' = IF fails THEN "failed" ELSE "coverage"
    BY <1>5 DEF WrappedBuild
  <2>3. capture' \in Capture /\ pc' \in {"coverage", "failed"}
    BY <2>1, <2>2 DEF Capture, Raises
  <2> QED
    BY <1>5, <2>3, MiddleStep DEF WrappedBuild
<1>6. CASE CoverageStep
  <2>1. run \in Runs /\ UNCHANGED <<run, opts, formatted, upload>>
    BY <1>6 DEF CoverageStep, ChecksInv, RunStarted
  <2>2. /\ junit' \in Runs \cup {None} /\ gcov' \in Runs \cup {None}
        /\ pc' \in {"scan", "failed"}
        /\ pc' = "scan" /\ RunCodeCoverageCheck(opts) => junit' = run /\ gcov' = run
    <3>1. CASE RunCodeCoverageCheck(opts)
      <4>1. PICK fails \in Raises :
                 /\ gcov' \in IF fails THEN {gcov, run} ELSE {run}
                 /\ pc' = IF fails THEN "failed" ELSE "scan"
        BY <1>6, <3>1 DEF CoverageStep
      <4>2. junit' = run /\ gcov \in Runs \cup {None}
        BY <1>6, <3>1 DEF CoverageStep, ChecksInv, TypeOK
      <4>3. CASE fails
        BY <2>1, <4>1, <4>2, <4>3
      <4>4. CASE ~fails
        BY <2>1, <4>1, <4>2, <4>4
      <4> QED
        BY <4>3, <4>4 DEF Raises
    <3>2. CASE ~RunCodeCoverageCheck(opts)
      BY <1>6, <3>2 DEF CoverageStep, ChecksInv, TypeOK
    <3> QED
      BY <3>1, <3>2
  <2> QED
    BY <1>6, <2>1, <2>2
    DEF CoverageStep, ChecksInv, TypeOK, PCs, RunStarted, FormatChecked,
        CoverageChecked, EarlierUpload, ScanCoversRequestedChecks
<1>7. CASE Scan
  <2>0. pc = "scan" /\ run \in Runs
    BY <1>7 DEF Scan, ChecksInv, RunStarted
  <2>1. /\ capture \in Capture /\ gcov \in Runs \cup {None}
        /\ opts.version \in Seq(STRING)
        /\ FormattingRequested(opts) => formatted = run
        /\ RunCodeCoverageCheck(opts) => junit = run /\ gcov = run
    <3>0. capture = [run |-> run, complete |-> TRUE]
      BY <2>0 DEF IInv, CaptureOfRun
    <3>1. capture \in Capture
      BY <2>0, <3>0 DEF Capture
    <3>2. opts.version \in Seq(STRING)
      BY VersionsAssumption DEF ChecksInv, TypeOK, Opts
    <3> QED
      BY <2>0, <3>1, <3>2 DEF ChecksInv, TypeOK, FormatChecked, CoverageChecked
  <2>2. PICK fails \in Raises :
             /\ upload' = IF fails THEN upload
                          ELSE [run |-> run, capture |-> capture, gcov |-> gcov,
                                version |-> BaseVersion(opts.version)]
             /\ pc' = IF fails THEN "failed" ELSE "idle"
    BY <1>7 DEF Scan
  <2>3. UNCHANGED <<run, opts, formatted, capture, junit, gcov>>
    BY <1>7 DEF Scan
  <2>4. CASE fails
    <3>1. upload' = upload /\ pc' = "failed"
      BY <2>2, <2>4, Zenon
    <3> QED
      BY <2>0, <2>3, <3>1
      DEF ChecksInv, TypeOK, PCs, RunStarted, FormatChecked, CoverageChecked,
          EarlierUpload, ScanCoversRequestedChecks
  <2>5. CASE ~fails
    <3> DEFINE u == [run |-> run, capture |-> capture, gcov |-> gcov,
                     version |-> BaseVersion(opts.version)]
    <3>1. upload' = u /\ pc' = "idle"
      BY <2>2, <2>5, Zenon
    <3>2. /\ BaseVersion(opts.version) \in Seq(STRING)
          /\ BaseVersion(opts.version) = ReferenceBaseVersion(opts.version)
      BY <2>1, BaseVersionIsReference
    <3>3. u \in Upload
      BY <2>0, <2>1, <3>2 DEF Upload
    <3>4. TypeOK'
      BY <2>3, <3>1, <3>3 DEF ChecksInv, TypeOK, PCs
    <3>5. ScanCoversRequestedChecks'
      BY <2>1, <2>3, <3>1, <3>2 DEF ScanCoversRequestedChecks
    <3> QED
      BY <2>0, <2>3, <3>1, <3>4, <3>5
      DEF Runs, ChecksInv, RunStarted, FormatChecked, CoverageChecked, EarlierUpload
  <2> QED
    BY <2>4, <2>5
<1>8. CASE Finished \/ UNCHANGED vars
  BY <1>8
  DEF Finished, vars, ChecksInv, TypeOK, RunStarted, FormatChecked,
      CoverageChecked, EarlierUpload, ScanCoversRequestedChecks
<1> QED
  BY <1>1, <1>2, <1>3, <1>4, <1>5, <1>6, <1>7, <1>8 DEF Next

\* Every reachable state is well typed: the build folder holds only
\* captures, junit and .gcov files of invocations that ran, and an upload
\* names a capture and a version string.
THEOREM TypeCorrect == Spec => []TypeOK
<1>1. Init => IInv /\ ChecksInv
  BY InitChecks DEF Init, IInv, CaptureOfRun, ScanUsesCompleteBuild
<1>2. IInv /\ ChecksInv /\ [Next]_vars => (IInv /\ ChecksInv)'
  BY IInvInductive, ChecksInductive
<1> QED
  BY <1>1, <1>2, PTL DEF Spec, ChecksInv

\* For every number of invocations on one build folder and every set of
\* version strings, when conanfile_sca.py's build() returns after its
\* upload, the clang-format check passed in it when requested, ctest and
\* gcov ran in it and wrote the .gcov files the scanner read when
\* run_code_coverage_check holds, and _base_version passed the version
\* without its "+" build metadata.
THEOREM ScanChecksCovered == Spec => []ScanCoversRequestedChecks
<1>1. Init => IInv /\ ChecksInv
  BY InitChecks DEF Init, IInv, CaptureOfRun, ScanUsesCompleteBuild
<1>2. IInv /\ ChecksInv /\ [Next]_vars => (IInv /\ ChecksInv)'
  BY IInvInductive, ChecksInductive
<1> QED
  BY <1>1, <1>2, PTL DEF Spec, ChecksInv

-----------------------------------------------------------------------------
(***************************************************************************)
(* Refinement of SonarAnalysis.                                            *)
(***************************************************************************)

\* A step of an invocation under way that raises is the workflow's Fail;
\* one that goes on to the next stage before the scanner is a stutter.
LEMMA RunningStep ==
    ASSUME pc \notin {"idle", "failed"}, pc' \in {"failed"} \cup (PCs \ {"idle"}),
           UNCHANGED <<run, opts, upload>>
    PROVE  [Analysis!Next]_Analysis!vars
<1>1. CASE pc' = "failed"
  BY <1>1 DEF Analysis!Next, Analysis!Fail
<1>2. CASE pc' # "failed"
  BY <1>2 DEF Analysis!vars, PCs
<1> QED
  BY <1>1, <1>2

\* Every step of build() is a step of SonarAnalysis or a stutter of it.
LEMMA StepRefines ==
    IInv /\ ChecksInv /\ [Next]_vars => [Analysis!Next]_Analysis!vars
<1> SUFFICES ASSUME IInv, ChecksInv, [Next]_vars
             PROVE  [Analysis!Next]_Analysis!vars
  OBVIOUS
<1>1. CASE StartBuild
  <2>1. opts'.version \in Versions
    BY <1>1 DEF StartBuild, Opts
  <2> QED
    BY <1>1, <2>1 DEF StartBuild, Analysis!Next, Analysis!Start
<1>2. CASE ClangFormat
  <2>1. pc' \in {"download", "failed"}
    <3>1. CASE FormattingRequested(opts)
      <4>1. PICK fails \in Raises :
                 pc' = IF fails THEN "failed" ELSE "download"
        BY <1>2, <3>1 DEF ClangFormat
      <4> QED
        BY <4>1, Zenon DEF Raises
    <3>2. CASE ~FormattingRequested(opts)
      BY <1>2, <3>2 DEF ClangFormat
    <3> QED
      BY <3>1, <3>2
  <2> QED
    BY <1>2, <2>1, RunningStep DEF ClangFormat, PCs
<1>3. CASE Download
  BY <1>3, RunningStep DEF Download, PCs
<1>4. CASE Configure
  BY <1>4, RunningStep DEF Configure, PCs
<1>5. CASE WrappedBuild
  <2>1. PICK fails \in Raises : pc' = IF fails THEN "failed" ELSE "coverage"
    BY <1>5 DEF WrappedBuild
  <2>2. pc' \in {"coverage", "failed"}
    BY <2>1, Zenon DEF Raises
  <2> QED
    BY <1>5, <2>2, RunningStep DEF WrappedBuild, PCs
<1>6. CASE CoverageStep
  <2>1. pc' \in {"scan", "failed"}
    <3>1. CASE RunCodeCoverageCheck(opts)
      <4>1. PICK fails \in Raises : pc' = IF fails THEN "failed" ELSE "scan"
        BY <1>6, <3>1 DEF CoverageStep
      <4> QED
        BY <4>1, Zenon DEF Raises
    <3>2. CASE ~RunCodeCoverageCheck(opts)
      BY <1>6, <3>2 DEF CoverageStep
    <3> QED
      BY <3>1, <3>2
  <2> QED
    BY <1>6, <2>1, RunningStep DEF CoverageStep, PCs
<1>7. CASE Scan
  <2>1. PICK fails \in Raises :
             /\ upload' = IF fails THEN upload
                          ELSE [run |-> run, capture |-> capture, gcov |-> gcov,
                                version |-> BaseVersion(opts.version)]
             /\ pc' = IF fails THEN "failed" ELSE "idle"
    BY <1>7 DEF Scan
  <2>2. pc = "scan" /\ UNCHANGED <<run, opts>>
    BY <1>7 DEF Scan
  <2>3. CASE fails
    <3>1. upload' = upload /\ pc' = "failed"
      BY <2>1, <2>3, Zenon
    <3> QED
      BY <2>2, <3>1 DEF Analysis!Next, Analysis!Fail
  <2>4. CASE ~fails
    <3> DEFINE u == [run |-> run, capture |-> capture, gcov |-> gcov,
                     version |-> BaseVersion(opts.version)]
    <3>1. upload' = u /\ pc' = "idle"
      BY <2>1, <2>4, Zenon
    <3>2. /\ run \in Runs
          /\ capture = [run |-> run, complete |-> TRUE]
          /\ gcov \in Runs \cup {None}
          /\ opts.version \in Seq(STRING)
      BY <2>2, VersionsAssumption
      DEF IInv, CaptureOfRun, ChecksInv, TypeOK, RunStarted, Opts
    <3>3. /\ BaseVersion(opts.version) \in Seq(STRING)
          /\ BaseVersion(opts.version) = Analysis!ReleaseVersion(opts.version)
      <4>1. ReferenceBaseVersion(opts.version)
              = Analysis!ReleaseVersion(opts.version)
        BY DEF ReferenceBaseVersion, Analysis!ReleaseVersion, Prefixes,
               Contains, Analysis!Prefixes, Analysis!Contains
      <4> QED
        BY <3>2, <4>1, BaseVersionIsReference
    <3>4. u \in Upload
      BY <3>2, <3>3 DEF Upload, Capture
    <3>5. u # None
      BY <3>4, NoUploadIsNone
    <3>6. Analysis!Upload
      BY <2>2, <3>1, <3>2, <3>3, <3>5 DEF Analysis!Upload
    <3> QED
      BY <3>6 DEF Analysis!Next
  <2> QED
    BY <2>3, <2>4
<1>8. CASE Finished \/ UNCHANGED vars
  BY <1>8 DEF Finished, vars, Analysis!vars
<1> QED
  BY <1>1, <1>2, <1>3, <1>4, <1>5, <1>6, <1>7, <1>8 DEF Next

\* For every number of invocations and every set of versions, build() of
\* conanfile_sca.py implements SonarAnalysis: an invocation that raises
\* at any step uploads nothing, and one that returns uploads once, the
\* analysis of its own complete build under the release version.
THEOREM RefinesAnalysis == Spec => ImplementsAnalysis
<1>1. Init => Analysis!Init
  BY DEF Init, Analysis!Init, Opts
<1>2. Init => IInv /\ ChecksInv
  BY InitChecks DEF Init, IInv, CaptureOfRun, ScanUsesCompleteBuild
<1>3. IInv /\ ChecksInv /\ [Next]_vars => (IInv /\ ChecksInv)'
  BY IInvInductive, ChecksInductive
<1> QED
  BY <1>1, <1>2, <1>3, StepRefines, PTL
  DEF Spec, ImplementsAnalysis, Analysis!Spec

=============================================================================
