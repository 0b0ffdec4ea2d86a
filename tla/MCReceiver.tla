------------------------------ MODULE MCReceiver ------------------------------
(***************************************************************************)
(* Instances of Receiver for TLC.  Sizes are scaled down: a header of 1    *)
(* byte, blocks of 2 bytes with a last block of 1, control data of 4 bytes *)
(* and a packet buffer of 8 bytes, so that two or three frames fill it.    *)
(***************************************************************************)
EXTENDS Receiver

Data(number, len) == [len |-> len, number |-> number, eot |-> 0, preamble |-> 0]
Preamble  == [len |-> 5, number |-> 0, eot |-> 0, preamble |-> 4]
Eot       == [len |-> 5, number |-> 0, eot |-> 4, preamble |-> 0]

\* Three of the four blocks of a file, the last one short, and a preamble: block 2
\* never comes, the others come in any order and any number of times.
OrderedFrames == {Data(0, 3), Data(1, 3), Data(3, 2), Preamble}

\* Blocks whose numbers do not matter, and both control frames.
StreamFrames == {Data(0, 3), Preamble, Eot}

\* Control data of 5 bytes, of which one was damaged: 0.8 of them still match.
DamagedFrames == {Data(0, 3), [len |-> 6, number |-> 0, eot |-> 0, preamble |-> 4]}
===============================================================================
