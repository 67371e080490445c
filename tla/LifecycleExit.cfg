\* Docker does all it is asked to do.
SPECIFICATION Spec
CONSTANT Docker <- NoneFail
INVARIANT ExitsCleanly
CHECK_DEADLOCK FALSE
