SPECIFICATION ExSpec
INVARIANT RetriedOnce
CHECK_DEADLOCK FALSE
