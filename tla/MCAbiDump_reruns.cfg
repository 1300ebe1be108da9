\* Three invocations of conanfile_abi_dump.py build()/package() on the same
\* build folder.
SPECIFICATION Spec
CONSTANTS
    a1 = a1
    a2 = a2
    None = None
    ABIs <- MCABIs
    MaxRuns = 3
INVARIANT PackagedRecordCurrent
