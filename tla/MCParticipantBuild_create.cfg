\* One invocation of build() and package() on a fresh build folder, over
\* every combination of flags and environment.
SPECIFICATION Spec
CONSTANTS
    None = None
    MaxRuns = 1
INVARIANT TypeOK
INVARIANT GeneratorRestored
INVARIANT PipelineComplete
PROPERTY StepsInOrder
