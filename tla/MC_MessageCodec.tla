------------------------- MODULE MC_MessageCodec -------------------------
(* Each state holds one input of the codec: the messages that Message::new *)
(* builds for every protocol, two message types and the payloads of up to  *)
(* two bytes over {0, 7, 255}; or a 12-byte frame whose bytes are 0 or    *)
(* 255.  The properties are statements about that input.                   *)
EXTENDS MessageCodec

VARIABLE input

Payloads == UNION {[1..n -> {0, 7, 255}] : n \in 0..2}

TestMessages ==
    {MessageNew(p, t, pl) : p \in 0..6, t \in {1, 258}, pl \in Payloads}

Frames == [1..12 -> {0, 255}]

MsgInit == input \in TestMessages
FrameInit == input \in Frames
Stay == UNCHANGED input

\* Spec property 1, and the test test_message_serialization (tests.rs:29):
\* deserialize(serialize(m)) gives back m.
RoundTrip == Deserialize(Serialize(input)) = [kind |-> "Ok", msg |-> input]

\* Spec property 1: a byte string that is not a valid frame makes
\* deserialize return an error; it never panics, whatever a peer sends.
DeserializeNeverPanics == Deserialize(input).kind # "Panic"

\* Spec section 3 and 9: the message fingerprint tells messages apart, so
\* dedup never suppresses a message that was not sent before.
NoHashCollision ==
    \A m \in TestMessages : m # input => HashMessage(m) # HashMessage(input)
=============================================================================
