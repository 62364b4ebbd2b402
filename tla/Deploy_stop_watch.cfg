\* A stop while the late watch of an earlier deploy looks at the kernel.
SPECIFICATION Spec
CONSTANTS
    Budgets <- StopAndWatch
    MaxWatches = 1
CHECK_DEADLOCK FALSE
INVARIANT
    StopIsFinal
