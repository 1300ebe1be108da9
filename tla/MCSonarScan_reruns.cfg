\* Two invocations of conanfile_sca.py build() on the same build folder.
SPECIFICATION Spec
CONSTANTS
    None = None
    MaxRuns = 2
    Versions <- MCTwoVersions
INVARIANT ScanCoverageCurrent
