SPECIFICATION Spec
INVARIANT NegotiationAsSpecified
CHECK_DEADLOCK FALSE
