\* Two invocations on the same build folder: is VerdictSound kept?
SPECIFICATION Spec
CONSTANTS
    a1 = a1
    a2 = a2
    a3 = a3
    None = None
    ABIs <- MCABIs
    Compatible <- MCCompatible
    MaxRuns = 2
INVARIANT VerdictSound
