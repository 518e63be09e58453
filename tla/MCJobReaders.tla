---------------------------- MODULE MCJobReaders ----------------------------
(* Instances of JobReaders for TLC.                                        *)
EXTENDS JobReaders

CONSTANTS a, b, w1, k1

MCSubject == [r \in Runs |-> "model"]
=============================================================================
