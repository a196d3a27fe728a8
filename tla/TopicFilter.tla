------------------------------ MODULE TopicFilter ------------------------------
(***************************************************************************)
(* What it means for an MQTT topic to match a subscription filter: Matches *)
(* is the rule that the documentation comment of MockClient::topic_matches *)
(* states, "+" stands for exactly one level, "#" for zero or more levels   *)
(* and "must appear as the last character"; topic_matches is the answer of *)
(* the function.  The two differ for filters with a "#" inside, which the  *)
(* function accepts.  A filter and a topic are sequences of levels (the    *)
(* strings split at "/"), so neither is ever empty: splitting the empty    *)
(* string gives one empty level.                                           *)
(***************************************************************************)
EXTENDS Naturals, Sequences

\* Levels 1..last of the filter are not "#" and each stands for the level
\* of the topic in the same place.
Covers(filter, topic, last) ==
    /\ last <= Len(topic)
    /\ \A i \in 1..last : /\ filter[i] # "#"
                          /\ filter[i] \in {"+", topic[i]}

\* No "#" before the last level.
WellFormed(filter) == \A i \in 1..(Len(filter) - 1) : filter[i] # "#"

\* Every level of the filter stands for a level of the topic and the topic has
\* no other, or all levels but a "#" at the end stand for a prefix of it.
Matches(filter, topic) ==
    \/ Len(filter) = Len(topic) /\ Covers(filter, topic, Len(filter))
    \/ /\ Len(filter) > 0 /\ filter[Len(filter)] = "#"
       /\ Covers(filter, topic, Len(filter) - 1)

\* The function stops at the first "#", wherever it is.
topic_matches(filter, topic) ==
    \/ Len(filter) = Len(topic) /\ Covers(filter, topic, Len(filter))
    \/ \E n \in 1..Len(filter) : /\ filter[n] = "#"
                                 /\ Covers(filter, topic, n - 1)
================================================================================
