\* Three sessions, roots and children in any arrangement, each known to the plugin from
\* its creation or not.
SPECIFICATION Spec
CONSTANTS
    Sessions = {s1, s2, s3}
    None = None
    MaxEvents = 8
SYMMETRY SessionSymmetry
INVARIANTS
    EndsAtMostOnce
    EndsAfterDisposal
    OneStopPerCycle
    StartsOnceAndFirst
