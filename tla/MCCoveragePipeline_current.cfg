\* Two pipelines, every environment.
SPECIFICATION Spec
CONSTANTS
    None = None
    MaxPipelines = 2
INVARIANT CoveragePackageCurrentWhenShared
