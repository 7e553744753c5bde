------------------------------- MODULE U64 --------------------------------
(***************************************************************************)
(* The unsigned 64-bit arithmetic of the OFT program.  Every amount, rate  *)
(* and timestamp of programs/oft/src is a u64.  U64Max is 2^64 - 1 in the  *)
(* program and a small number in the instances TLC checks.                 *)
(*                                                                         *)
(* The release profile sets overflow-checks = true (Cargo.toml), so a      *)
(* plain +, -, * that leaves the range panics and the whole transaction is *)
(* rolled back: in the state machine that is a guard, never a wrap-around. *)
(***************************************************************************)
EXTENDS Integers

CONSTANT U64Max

ASSUME U64MaxAssumption == U64Max \in Nat \ {0}

U64 == 0 .. U64Max

(* Rust's Option::None wherever the program has an Option<u64> or          *)
(* Option<u16>.                                                            *)
None == -1

(* checked_add, checked_mul, u64::try_from(..).ok(): None out of range.    *)
checked(n) == IF n \in U64 THEN n ELSE None

(* saturating_add and saturating_mul of two naturals.                      *)
saturating(n) == IF n <= U64Max THEN n ELSE U64Max

min(a, b) == IF a <= b THEN a ELSE b

===========================================================================
