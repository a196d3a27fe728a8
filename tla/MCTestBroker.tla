------------------------------ MODULE MCTestBroker ------------------------------
(***************************************************************************)
(* Values of the constants of TestBroker for TLC.                          *)
(***************************************************************************)
EXTENDS TestBroker

CONSTANTS t1, t2, t3, t4, path1, path2, port1

\* Two tasks with a socket path in common, one with its own, one with TCP.
Mixed == [t \in {t1, t2, t3, t4} |->
            CASE t = t1 -> path1 [] t = t2 -> path1 [] t = t3 -> path2 [] t = t4 -> port1]

\* Two tasks with the same socket path.
Same == [t \in {t1, t2} |-> path1]

\* The default configuration: each task has a socket path of its own.
Distinct == [t \in {t1, t2} |-> IF t = t1 THEN path1 ELSE path2]
================================================================================
