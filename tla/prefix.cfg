\* Hook processes on the probe, mapping and statistics files, overlapping or not,
\* dying and failing to write.
SPECIFICATION Spec
CONSTANTS
    build = build
    fmt = fmt
    loop = loop
    while = while
    cargo = cargo
    mise = mise
    Calls = {c1, c2, c3}
    Bare = {build, fmt, loop}
    Key <- MCKey
    PrefixKey = mise
    Learnable = {cargo, mise}
    MaxPrefixes = 2
    None = None
    MaxSkipped = 1
SYMMETRY CallSymmetry
INVARIANTS
    OneProbePerCommand
    MappingJustified
    ProbesAccounted
    ProbingHasRetry
