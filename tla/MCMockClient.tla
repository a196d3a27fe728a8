------------------------------ MODULE MCMockClient ------------------------------
(***************************************************************************)
(* Values of the constants of MockClient for TLC: one topic, a filter      *)
(* without wildcard and one that takes everything.                         *)
(***************************************************************************)
EXTENDS MockClient, TLC

OneTopic == {<<"a">>}

LiteralFilter == {<<"a">>}
LiteralAndAll == {<<"a">>, <<"#">>}

\* Callers, channels and payloads are only ever compared.  Not for liveness.
Interchangeable ==
    Permutations(Deliverers) \cup Permutations(Callers \ Deliverers)
        \cup Permutations(Channels) \cup Permutations(Payloads)
================================================================================
