--------------------------- MODULE MCHostWrappers ---------------------------
(* Instances of HostWrappers for TLC.                                      *)
EXTENDS HostWrappers

CONSTANT c1

(* A service without an archive, one that stays up while it is archived,   *)
(* and one that stops and has a database besides.                          *)
MCPlans == {[saves |-> FALSE, stops |-> FALSE, dumps |-> FALSE],
            [saves |-> TRUE, stops |-> FALSE, dumps |-> FALSE],
            [saves |-> TRUE, stops |-> TRUE, dumps |-> TRUE]}
=============================================================================
