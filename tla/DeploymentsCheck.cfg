SPECIFICATION Spec
CONSTANT Sites <- ForcedRelayer
INVARIANT CheckedOutputsCorrespond
CHECK_DEADLOCK FALSE
