SPECIFICATION Spec
INVARIANT DoneOnce
