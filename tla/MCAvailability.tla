---------------------------- MODULE MCAvailability -----------------------------
(***************************************************************************)
(* Values of the constants of Availability for TLC: two topics, one of     *)
(* which carries availability messages.                                    *)
(***************************************************************************)
EXTENDS Availability, TLC

TwoTopics == {<<"a">>, <<"a", "b">>}
SystemTopic == {<<"a", "b">>}
Wildcards == {<<"a", "+">>, <<"#">>}

\* Subscribers are only ever compared, and so are payloads that say the same.
Interchangeable ==
    Permutations(Callers \ Deliverers)
        \cup Permutations(OnlinePayloads) \cup Permutations(Payloads \ OnlinePayloads)
================================================================================
