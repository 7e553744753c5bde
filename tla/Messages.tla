------------------------------ MODULE Messages ------------------------------
(***************************************************************************)
(* One message from its quote to its composer: quote_send prices it, the   *)
(* admin may change the enforced options, send puts it on the wire,        *)
(* lz_receive reads it on the other side and leaves the composed part for  *)
(* the recipient.  The amounts were split already (OFTMath): followed here *)
(* are the bytes and the options the executor is paid for.                 *)
(*                                                                         *)
(* Options are sequences of executor options, without their type-3 header: *)
(* the endpoint's combine_options appends the caller's to the enforced.    *)
(***************************************************************************)
EXTENDS MsgCodec

CONSTANTS
    Keys,               \* the recipients and signers to try
    ComposeMsgs,        \* the compose_msg parameters to try
    ExtraOptions,       \* the options a caller may pass
    SendOptions, SendAndCallOptions,    \* what the admin may enforce
    Quantities,         \* amounts, in shared or local decimals
    Nonces, SrcEids

Addresses == [1 .. AddressLen -> Bytes]
DefaultKey == [i \in 1 .. AddressLen |-> 0]

ASSUME MessagesAssumption ==
    /\ Keys \subseteq Addresses
    /\ Quantities \subseteq unsigned(U64Len) /\ Nonces \subseteq unsigned(U64Len)
    /\ SrcEids \subseteq unsigned(U32Len)
    /\ \A msg \in ComposeMsgs : msg \in Seq(Seq(Bytes)) /\ Len(msg) <= 1

VARIABLES
    stage,              \* "start", "sent" or "received"
    call,               \* SendParams, and the signer
    enforced_options,   \* of the peer
    quote,              \* what quote_send handed to the endpoint, if anything,
                        \* with the enforced options that it read
    sent,               \* what send handed to the endpoint
    received            \* what lz_receive read and composed

transfer == <<stage, call, enforced_options, quote, sent, received>>

Calls == [to: Keys, signer: Keys, amount_sd: Quantities, amount_received_ld: Quantities,
          compose_msg: ComposeMsgs, options: ExtraOptions]

Nothing == [message |-> <<>>, options |-> <<>>]

MessagesInit ==
    /\ stage = "start"
    /\ call \in Calls
    /\ enforced_options \in [send: SendOptions, send_and_call: SendAndCallOptions]
    /\ quote = <<>> /\ sent = Nothing
    /\ received = [amount_ld |-> 0, nonce |-> 0, src_eid |-> 0, composed |-> <<>>]

(* Mutant: an empty compose_msg counts as none.                            *)
options_if_any(compose_msg) ==
    IF compose_msg \in {<<>>, << <<>> >>} THEN enforced_options.send
                                          ELSE enforced_options.send_and_call

get_enforced_options(compose_msg) ==
    IF compose_msg = <<>> THEN enforced_options.send
                          ELSE enforced_options.send_and_call

combine_options(compose_msg, extra_options) ==
    get_enforced_options(compose_msg) \o extra_options

(* Mutant: the quote leaves the composed part out.                         *)
quoted_plain(c) == encode(c.to, c.amount_received_ld, DefaultKey, <<>>)

(* The quoted message carries amount_received_ld itself, not the shared    *)
(* decimals, and no signer: neither changes its length.                    *)
quoted(c) == encode(c.to, c.amount_received_ld, DefaultKey, c.compose_msg)

QuoteSend ==
    /\ stage = "start"
    /\ quote' = <<[message |-> quoted(call),
                   options |-> combine_options(call.compose_msg, call.options),
                   read |-> enforced_options]>>
    /\ UNCHANGED <<stage, call, enforced_options, sent, received>>

(* set_peer_config with EnforcedOptions, before or after a quote.          *)
SetEnforcedOptions ==
    /\ stage = "start"
    /\ enforced_options' \in [send: SendOptions, send_and_call: SendAndCallOptions]
    /\ UNCHANGED <<stage, call, quote, sent, received>>

Send ==
    /\ stage = "start"
    /\ stage' = "sent"
    /\ sent' = [message |-> encode(call.to, call.amount_sd, call.signer, call.compose_msg),
                options |-> combine_options(call.compose_msg, call.options)]
    /\ UNCHANGED <<call, enforced_options, quote, received>>

LzReceive ==
    LET compose_msg == compose_msg_of(sent.message)
    IN  /\ stage = "sent"
        /\ stage' = "received"
        /\ \E amount_ld \in Quantities, nonce \in Nonces, src_eid \in SrcEids :
              received' = [amount_ld |-> amount_ld, nonce |-> nonce, src_eid |-> src_eid,
                           composed |->
                             IF compose_msg = <<>> THEN <<>>
                             ELSE <<encode_composed(nonce, src_eid, amount_ld,
                                                    compose_msg[1])>>]
        /\ UNCHANGED <<call, enforced_options, quote, sent>>

MessagesNext == QuoteSend \/ SetEnforcedOptions \/ Send \/ LzReceive

MessagesSpec == MessagesInit /\ [][MessagesNext]_transfer

-----------------------------------------------------------------------------
(* The receiving side reads what the sender asked for: its address, the    *)
(* amount, and a composed message exactly when one was passed, headed by   *)
(* the signer.  An empty compose_msg is still one.                         *)
MessageIsRead ==
    stage \in {"sent", "received"} =>
        /\ Len(sent.message) >= COMPOSE_MSG_OFFSET
        /\ send_to_of(sent.message) = call.to
        /\ amount_sd_of(sent.message) = call.amount_sd
        /\ compose_msg_of(sent.message) =
              IF call.compose_msg = <<>> THEN <<>>
              ELSE <<call.signer \o call.compose_msg[1]>>

(* The composer reads, at the offsets it is told, who sent the message,    *)
(* from which chain, and the amount the recipient was credited with.       *)
ComposerReads ==
    \A i \in DOMAIN received.composed :
        LET message == received.composed[i]
        IN  /\ nonce_of(message) = received.nonce
            /\ src_eid_of(message) = received.src_eid
            /\ amount_ld_of(message) = received.amount_ld
            /\ compose_from_of(message) = call.signer
            /\ composed_msg_of(message) = call.compose_msg[1]

(* The options paid for are those of the kind of message the other side    *)
(* will see: with send's alone the composer would not be executed, with    *)
(* send_and_call's a plain transfer would pay for a call.                  *)
OptionsFitMessage ==
    stage = "sent" =>
        sent.options =
            (IF compose_msg_of(sent.message) = <<>> THEN enforced_options.send
             ELSE enforced_options.send_and_call) \o call.options

(* The fee quoted covers the send: the endpoint prices the length of the   *)
(* message and the options.  The length never differs, although the quoted *)
(* message carries another amount and no signer; the options differ only   *)
(* when the admin has changed, since the quote, what is enforced for the   *)
(* kind of message the other side will see.                                *)
QuoteIsSend ==
    stage = "sent" =>
        \A i \in DOMAIN quote :
            LET read == quote[i].read
            IN  /\ Len(quote[i].message) = Len(sent.message)
                /\ \/ quote[i].options = sent.options
                   \/ IF compose_msg_of(sent.message) = <<>>
                        THEN read.send # enforced_options.send
                        ELSE read.send_and_call # enforced_options.send_and_call

=============================================================================
