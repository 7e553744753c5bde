\* The program's widths, bytes of one bit: numbers up to 255, eids up to 15.
CONSTANTS
    ByteValues = 2
    gas = gas
    compose = compose
    value = value
    Keys <- MCKeys
    ComposeMsgs <- MCComposeMsgs
    ExtraOptions <- MCExtraOptions
    SendOptions <- MCSendOptions
    SendAndCallOptions <- MCSendAndCallOptions
    Quantities = {0, 1, 200}
    Nonces = {1, 77}
    SrcEids = {0, 5}
SPECIFICATION MessagesSpec
INVARIANTS
    MessageIsRead
    ComposerReads
    OptionsFitMessage
    QuoteIsSend
\* A message ends with its composer.
CHECK_DEADLOCK FALSE
