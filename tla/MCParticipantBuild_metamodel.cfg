\* One invocation: does an invalid component description stop the build?
SPECIFICATION Spec
CONSTANTS
    None = None
    MaxRuns = 1
INVARIANT InvalidMetamodelSkipsBuild
