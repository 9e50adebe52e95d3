\* RoundTrip over the inputs of MsgInit.
CONSTANT Build = "release"
INIT MsgInit
NEXT Stay
INVARIANT RoundTrip
