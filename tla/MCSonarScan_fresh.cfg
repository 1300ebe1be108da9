\* One invocation of conanfile_sca.py build() on a fresh build folder, for
\* every option combination and every short version string.
SPECIFICATION Spec
CONSTANTS
    None = None
    MaxRuns = 1
    Versions <- MCAllVersions
INVARIANT ScanUsesCompleteBuild
INVARIANT ScanCoversRequestedChecks
PROPERTY ImplementsAnalysis
