CONSTANT Programs <- Streams
SPECIFICATION Spec
CHECK_DEADLOCK FALSE
INVARIANTS EmitterTypeOK RightWithoutCause CausesAreReal IrStaysInStep
