SPECIFICATION ContextsSpec
CHECK_DEADLOCK FALSE
INVARIANT LongjmpDeliversValue
