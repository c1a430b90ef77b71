---------------------------- MODULE MCModelProxy ----------------------------
(* Instances of ModelProxy for TLC.                                        *)
EXTENDS ModelProxy

CONSTANT c1
=============================================================================
