------------------------------ MODULE MsgCodec ------------------------------
(***************************************************************************)
(* The two byte layouts of a transfer: the message on the wire             *)
(* (msg_codec.rs) and the message left for the composer of the recipient   *)
(* (compose_msg_codec.rs).  A message is a sequence of bytes; how many      *)
(* values a byte has (256 in the program) is a parameter.  The writers put *)
(* fields of their types' widths one after the other, the readers go by    *)
(* the literal offsets of the two files, and nothing but the length tells  *)
(* a composed message from a plain one.                                    *)
(*                                                                         *)
(* Option<Vec<u8>> is a sequence of at most one message: <<>> is None,     *)
(* <<m>> is Some(m), and m may be empty.                                   *)
(***************************************************************************)
EXTENDS Integers, Sequences

CONSTANT ByteValues

ASSUME MsgCodecAssumption == ByteValues \in Nat \ {0, 1}

Bytes == 0 .. ByteValues - 1

(* What [u8; 32] and a Pubkey, a u64 and a u32 take.                       *)
AddressLen == 32
U64Len == 8
U32Len == 4

(* The numbers of len bytes: the count of k bytes is ByteValues ^ k.       *)
unsigned(len) ==
    LET count[k \in 0 .. len] == IF k = 0 THEN 1 ELSE count[k - 1] * ByteValues
    IN  0 .. count[len] - 1

(* What is left of n when its last k bytes are taken away.                 *)
rest_of(n, len) ==
    LET rest[k \in 0 .. len] == IF k = 0 THEN n ELSE rest[k - 1] \div ByteValues
    IN  rest

(* The number that the first k bytes are.                                  *)
value_of(bytes) ==
    LET number[k \in 0 .. Len(bytes)] ==
            IF k = 0 THEN 0 ELSE number[k - 1] * ByteValues + bytes[k]
    IN  number

to_be_bytes(n, len) == [i \in 1 .. len |-> rest_of(n, len)[len - i] % ByteValues]
from_be_bytes(bytes) == value_of(bytes)[Len(bytes)]

(* message[from..to], which panics when the message is shorter than to.    *)
slice(message, from, to) == SubSeq(message, from + 1, to)

-----------------------------------------------------------------------------
(* msg_codec                                                               *)
SEND_TO_OFFSET == 0
SEND_AMOUNT_SD_OFFSET == 32
COMPOSE_MSG_OFFSET == 40

encode(send_to, amount_sd, sender, compose_msg) ==
    send_to \o to_be_bytes(amount_sd, U64Len)
        \o IF compose_msg = <<>> THEN <<>> ELSE sender \o compose_msg[1]

send_to_of(message) == slice(message, SEND_TO_OFFSET, SEND_AMOUNT_SD_OFFSET)
amount_sd_of(message) ==
    from_be_bytes(slice(message, SEND_AMOUNT_SD_OFFSET, COMPOSE_MSG_OFFSET))

(* Mutant: a plain message passes for a composed one.                      *)
compose_msg_from_offset(message) ==
    IF Len(message) >= COMPOSE_MSG_OFFSET
      THEN <<slice(message, COMPOSE_MSG_OFFSET, Len(message))>> ELSE <<>>

compose_msg_of(message) ==
    IF Len(message) > COMPOSE_MSG_OFFSET
      THEN <<slice(message, COMPOSE_MSG_OFFSET, Len(message))>> ELSE <<>>

-----------------------------------------------------------------------------
(* compose_msg_codec: compose_msg is [composeFrom][composeMsg].  Its       *)
(* COMPOSE_MSG_OFFSET has the name of msg_codec's and another value.       *)
NONCE_OFFSET == 0
SRC_EID_OFFSET == 8
AMOUNT_LD_OFFSET == 12
COMPOSE_FROM_OFFSET == 20

(* Mutant: the offset of the same name in the other file.                  *)
offset_of_wire == COMPOSE_MSG_OFFSET

COMPOSED_MSG_OFFSET == 52

encode_composed(nonce, src_eid, amount_ld, compose_msg) ==
    to_be_bytes(nonce, U64Len) \o to_be_bytes(src_eid, U32Len)
        \o to_be_bytes(amount_ld, U64Len) \o compose_msg

nonce_of(message) == from_be_bytes(slice(message, NONCE_OFFSET, SRC_EID_OFFSET))
src_eid_of(message) == from_be_bytes(slice(message, SRC_EID_OFFSET, AMOUNT_LD_OFFSET))
amount_ld_of(message) ==
    from_be_bytes(slice(message, AMOUNT_LD_OFFSET, COMPOSE_FROM_OFFSET))
compose_from_of(message) == slice(message, COMPOSE_FROM_OFFSET, COMPOSED_MSG_OFFSET)
composed_msg_of(message) ==
    IF Len(message) > COMPOSED_MSG_OFFSET
      THEN slice(message, COMPOSED_MSG_OFFSET, Len(message)) ELSE <<>>

=============================================================================
