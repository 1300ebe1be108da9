\* Two pipelines, every environment: is the coverage package always current?
SPECIFICATION Spec
CONSTANTS
    None = None
    MaxPipelines = 2
INVARIANT CoveragePackageCurrent
