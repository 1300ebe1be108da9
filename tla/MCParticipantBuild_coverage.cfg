\* One invocation on a fresh folder: does OpenCppCoverage find the tests
\* CMake configured into the build folder?
SPECIFICATION Spec
CONSTANTS
    None = None
    MaxRuns = 1
INVARIANT CoverageUsesBuiltTests
