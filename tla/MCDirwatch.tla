------------------------------ MODULE MCDirwatch ------------------------------
(***************************************************************************)
(* Instances of Dirwatch for TLC: three files, two of which match the      *)
(* filter, a directory, a table of two slots, so that stale names fill it, *)
(* and a buffer of two events.                                             *)
(***************************************************************************)
EXTENDS Dirwatch

CONSTANTS a, b, c, d
TwoFiles == {a, b}
ThreeFiles == {a, b, c}
OneDir   == {d}
===============================================================================
