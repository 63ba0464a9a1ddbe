SPECIFICATION Spec
CONSTANT NumThreads = 6
INVARIANT MutualExclusion
CHECK_DEADLOCK FALSE
