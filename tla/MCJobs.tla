------------------------------- MODULE MCJobs -------------------------------
(* Instances of Jobs for TLC.                                              *)
EXTENDS Jobs

CONSTANTS a, b, c

(* a and b compete for one subject; c works on another.                    *)
MCSubject == [r \in Runs |-> IF r = c THEN "other" ELSE "shared"]
=============================================================================
