--------------------------- MODULE MCValidationSuite ---------------------------
(***************************************************************************)
(* Values of the constants of ValidationSuite for TLC: the two topics of   *)
(* the suite's subscriptions, which other callers use as well.             *)
(***************************************************************************)
EXTENDS ValidationSuite, TLC

MCTestTopic == <<"test", "topic">>
MCCycleTopic == <<"test", "subscribe">>
BothTopics == {MCTestTopic, MCCycleTopic}
================================================================================
