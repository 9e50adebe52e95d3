--------------------------- MODULE MessageCodec ---------------------------
(***************************************************************************)
(* network/message.rs: Message::new, serialize, deserialize and            *)
(* hash_message, as operators on byte sequences (bytes are 0..255).  A     *)
(* message is a record of its header fields and its payload.              *)
(***************************************************************************)
EXTENDS Naturals, Sequences, Bitwise

CONSTANT Build      \* "debug" or "release": whether u32 + panics

\* Protocol as u16: the discriminant, Discovery = 0 ... Identity = 6.
ProtocolDiscriminant(i) == i

\* Message::new(protocol, message_type, payload): version 1, no flags, the
\* length of the payload.
MessageNew(protocol, messageType, payload) ==
    [protocolId |-> ProtocolDiscriminant(protocol), messageType |-> messageType,
     length |-> Len(payload), version |-> 1, flags |-> 0, payload |-> payload]

\* n.to_le_bytes() for an unsigned integer of k bytes.
LeBytes(n, k) == [i \in 1..k |-> (n \div 256^(i - 1)) % 256]

\* uN::from_le_bytes(b).
FromLe(b) ==
    LET f[i \in 0..Len(b)] == IF i = 0 THEN 0 ELSE f[i - 1] + b[i] * 256^(i - 1)
    IN  f[Len(b)]

\* serialize: protocol_id, message_type, length, version and flags, then
\* the payload.
Serialize(m) ==
    LeBytes(m.protocolId, 2) \o LeBytes(m.messageType, 2) \o LeBytes(m.length, 4)
        \o <<m.version, m.flags>> \o m.payload

\* 12 + length overflows a u32: length > u32::MAX - 12, from the four
\* little-endian bytes of the field (TLC's integers stop short of 2^32).
LengthOverflows(lb) == lb[2] = 255 /\ lb[3] = 255 /\ lb[4] = 255 /\ lb[1] >= 244

\* deserialize(bytes): at least 12 bytes, the fields at offsets 0, 2, 4, 8
\* and 9, then exactly 12 + length bytes, the payload being bytes[12..].
\* The error message formats 12 + length as a u32, which overflows for a
\* length field above u32::MAX - 12: a panic in a debug build.
Deserialize(b) ==
    IF Len(b) < 12 THEN [kind |-> "TooShort"]
    ELSE LET lb == SubSeq(b, 5, 8)
         IN  IF lb # LeBytes(Len(b) - 12, 4)
             THEN IF Build = "debug" /\ LengthOverflows(lb)
                  THEN [kind |-> "Panic"]
                  ELSE [kind |-> "InvalidLength"]
             ELSE [kind |-> "Ok",
                   msg |-> [protocolId |-> FromLe(SubSeq(b, 1, 2)),
                            messageType |-> FromLe(SubSeq(b, 3, 4)),
                            length |-> Len(b) - 12,
                            version |-> b[9], flags |-> b[10],
                            payload |-> SubSeq(b, 13, Len(b))]]

\* hash_message: bytes 0..3 are protocol_id and message_type (low byte
\* first), and payload byte i is XORed into byte 4 + i % 28 of the 32.
HashMessage(m) ==
    LET XorAt(j) ==
          LET f[i \in 0..Len(m.payload)] ==
                IF i = 0 THEN 0
                ELSE IF (i - 1) % 28 = j - 5
                     THEN f[i - 1] ^^ m.payload[i] ELSE f[i - 1]
          IN  f[Len(m.payload)]
    IN  [j \in 1..32 |->
           CASE j = 1 -> m.protocolId % 256
             [] j = 2 -> m.protocolId \div 256
             [] j = 3 -> m.messageType % 256
             [] j = 4 -> m.messageType \div 256
             [] OTHER -> XorAt(j)]
=============================================================================
