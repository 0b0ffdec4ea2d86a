---------------------------- MODULE MCTransmitter ----------------------------
(***************************************************************************)
(* Instances of Transmitter for TLC: a source of three blocks, the last    *)
(* one short, and counters small enough that a failed read wraps them.     *)
(***************************************************************************)
EXTENDS Transmitter

ThreeBlocks == <<2, 2, 1>>
TwoBlocks   == <<2, 1>>
===============================================================================
