---------------------------- MODULE MCPolledPages ----------------------------
(* A launch with two test cases, and two pages of one item, for TLC. *)
EXTENDS PolledPages

MCIds == 1 .. 3
MCBegin == 1 .. 2
MCFilters == [all |-> 1 .. 3, some |-> {1, 3}]
=============================================================================
