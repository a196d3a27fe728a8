------------------------------ MODULE TopicMatches ------------------------------
(***************************************************************************)
(* MockClient::topic_matches, one step per iteration of its loop.  The two *)
(* iterators are the numbers of levels they have already returned.         *)
(***************************************************************************)
EXTENDS TopicFilter

CONSTANTS
    Levels,      \* the texts between slashes, "+" and "#" included
    MaxLevels    \* bound on the number of levels of the calls TLC explores

ASSUME LevelsAssumption == MaxLevels \in Nat \ {0}

VARIABLES
    filter, topic,   \* the arguments of the call
    filter_parts,    \* levels of the filter the loop has consumed
    topic_parts,     \* levels of the topic the loop has consumed
    result           \* what the call returned, or "looping"

vars == <<filter, topic, filter_parts, topic_parts, result>>

Arguments == {s \in Seq(Levels) : Len(s) \in 1..MaxLevels}

TypeOK ==
    /\ filter \in Arguments
    /\ topic \in Arguments
    /\ filter_parts \in 0..Len(filter)
    /\ topic_parts \in 0..Len(topic)
    /\ result \in {"looping", "matches", "differs"}

Calls == UNION {[1..n -> Levels] : n \in 1..MaxLevels}

Init ==
    /\ filter \in Calls
    /\ topic \in Calls
    /\ filter_parts = 0
    /\ topic_parts = 0
    /\ result = "looping"

--------------------------------------------------------------------------------
\* What topic_parts.next() finds.
TopicEnds == topic_parts = Len(topic)

\* filter_parts.next() returned Some(level).
NextFilterLevel(level) ==
    /\ result = "looping"
    /\ filter_parts < Len(filter)
    /\ filter[filter_parts + 1] = level
    /\ filter_parts' = filter_parts + 1
    /\ UNCHANGED <<filter, topic>>

\* Both iterators move on; the loop goes round.
Continue ==
    /\ topic_parts' = topic_parts + 1
    /\ UNCHANGED result

Return(answer) ==
    /\ result' = answer
    /\ UNCHANGED topic_parts

\* A "#" that insists on one level at least, as "+" does.
MultiLevelNeedsALevel ==
    /\ NextFilterLevel("#")
    /\ Return(IF TopicEnds THEN "differs" ELSE "matches")

\* The arm Some("#"): whatever is left of the topic, even nothing, matches.
MultiLevel ==
    /\ NextFilterLevel("#")
    /\ Return("matches")

\* A "+" that does not look whether the topic has ended.
SingleLevelUnchecked == NextFilterLevel("+") /\ Continue

\* The arm Some("+"): one level, whatever it is, but there must be one.
SingleLevel ==
    /\ NextFilterLevel("+")
    /\ \/ TopicEnds /\ Return("differs")
       \/ ~TopicEnds /\ Continue

\* The arm Some(f): the same level, or the filter does not match.  A level of
\* the topic that was read and differs is not read again: the call returns.
Literal ==
    \E f \in Levels \ {"+", "#"} :
        /\ NextFilterLevel(f)
        /\ \/ TopicEnds /\ Return("differs")
           \/ ~TopicEnds /\ topic[topic_parts + 1] # f /\ Return("differs")
           \/ ~TopicEnds /\ topic[topic_parts + 1] = f /\ Continue

\* The arm None: the filter is used up, so the topic has to be.
EndOfFilter ==
    /\ result = "looping"
    /\ filter_parts = Len(filter)
    /\ \/ TopicEnds /\ Return("matches")
       \/ ~TopicEnds /\ Return("differs")
    /\ UNCHANGED <<filter, topic, filter_parts>>

Step == MultiLevel \/ SingleLevel \/ Literal \/ EndOfFilter

\* The call has returned; it is over and changes nothing more.
Returned == result # "looping" /\ UNCHANGED vars

Next == Step \/ Returned

Spec == Init /\ [][Next]_vars
--------------------------------------------------------------------------------
\* For a filter that has "#" at most at its end, the loop returns true when the
\* filter matches the topic by the rules of the doc comment (client.rs:105-111),
\* and false when it does not: no early return of the four arms (client.rs:117,
\* 120, 125, 127) is too early or wrong.
AnswerIsMatches ==
    WellFormed(filter) =>
        /\ result = "matches" => Matches(filter, topic)
        /\ result = "differs" => ~Matches(filter, topic)

\* "simple exact topic matching (wildcards not supported)"
\* (src/src/mock/README.md:131): the call returns true for equal texts only.
ExactMatchingOnly == result = "matches" => filter = topic
================================================================================
