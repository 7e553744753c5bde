----------------------------- MODULE MCMessages -----------------------------
(* Messages with the program's widths and bytes of one bit: addresses that *)
(* differ at either end and in between, numbers that are not their own     *)
(* reverse, composed messages of up to two bytes.                          *)
EXTENDS Messages

CONSTANTS gas, compose, value
MCKeys == { [i \in 1 .. 32 |-> 0],
            [i \in 1 .. 32 |-> IF i \in {1, 13, 20} THEN 1 ELSE 0],
            [i \in 1 .. 32 |-> IF i = 32 THEN 0 ELSE 1] }
MCComposeMsgs == { <<>>, << <<>> >>, << <<0>> >>, << <<1, 0>> >> }
MCExtraOptions == { <<>>, <<value>> }
MCSendOptions == { <<>>, <<gas>> }
MCSendAndCallOptions == { <<gas>>, <<gas, compose>> }

=============================================================================
