\* One invocation on a fresh build folder, as `conan create` does.
SPECIFICATION Spec
CONSTANTS
    a1 = a1
    a2 = a2
    a3 = a3
    None = None
    ABIs <- MCABIs
    Compatible <- MCCompatible
    MaxRuns = 1
INVARIANT VerdictSound
PROPERTY ImplementsPipeline
