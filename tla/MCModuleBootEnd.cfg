\* The error path of init, with a booted and a late module.
CONSTANT NumModules = 2
SPECIFICATION Spec
INVARIANT CspCallsBeforeEnd
CHECK_DEADLOCK FALSE
