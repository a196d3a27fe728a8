---------------------------- MODULE MCWitnessClient ----------------------------
(***************************************************************************)
(* Values of the constants of WitnessClient for TLC.                       *)
(***************************************************************************)
EXTENDS WitnessClient, TLC

CONSTANTS a, b, p1, p2

\* One caller repeats a payload; the other uses the same one or another.
Overlapping == (a :> {p1}) @@ (b :> {p1, p2})
================================================================================
