\* One invocation of conanfile_abi_dump.py build()/package() on a fresh
\* build folder.
SPECIFICATION Spec
CONSTANTS
    a1 = a1
    a2 = a2
    None = None
    ABIs <- MCABIs
    MaxRuns = 1
INVARIANT PackagedDumpUsable
