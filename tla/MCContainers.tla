---------------------------- MODULE MCContainers ----------------------------
(* Instances of Containers for TLC.                                        *)
EXTENDS Containers

CONSTANT web

(* Nothing to save, a database that is dumped, one that cannot be.         *)
MCPlans == {[files |-> FALSE, dumps |-> FALSE, stops |-> FALSE],
            [files |-> TRUE, dumps |-> TRUE, stops |-> FALSE],
            [files |-> TRUE, dumps |-> FALSE, stops |-> TRUE]}
=============================================================================
