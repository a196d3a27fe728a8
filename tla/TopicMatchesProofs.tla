--------------------------- MODULE TopicMatchesProofs ---------------------------
(***************************************************************************)
(* What the loop of MockClient::topic_matches decides, for filters and     *)
(* topics of any length over any texts: topic_matches for every filter,    *)
(* and so the documented rule for filters with "#" at the end only.        *)
(***************************************************************************)
EXTENDS TopicMatches, TopicFilterProofs

\* The loop invariant: while it goes on, the two iterators are at the same
\* level and the part of the filter behind them covers that of the topic.
LoopInv ==
    result = "looping" =>
        /\ topic_parts = filter_parts
        /\ Covers(filter, topic, filter_parts)

\* What the call returns, for every filter.
AnswerInv ==
    /\ result = "matches" => topic_matches(filter, topic)
    /\ result = "differs" => ~topic_matches(filter, topic)

IInv == TypeOK /\ LoopInv /\ AnswerInv

--------------------------------------------------------------------------------
\* A filter that covers a prefix of the topic covers every shorter prefix.
LEMMA CoversShorter ==
    ASSUME NEW f, NEW t, NEW n \in Nat, NEW k \in Nat, k <= n,
           Len(t) \in Nat, Covers(f, t, n)
    PROVE  Covers(f, t, k)
BY SMT DEF Covers

\* A filter whose next level is not "#" and does not stand for the next level
\* of the topic matches the topic in neither of the two ways.
LEMMA NoMatch ==
    ASSUME NEW f \in Seq(Levels), NEW t \in Seq(Levels), NEW k \in Nat, k < Len(f),
           Covers(f, t, k), f[k + 1] # "#", ~Covers(f, t, k + 1)
    PROVE  ~topic_matches(f, t)
<1>1. Len(f) \in Nat /\ Len(t) \in Nat
    OBVIOUS
<1>2. ~Covers(f, t, Len(f))
    BY <1>1, CoversShorter, k + 1 <= Len(f), k + 1 \in Nat
<1>3. ASSUME NEW n \in 1..Len(f), f[n] = "#", Covers(f, t, n - 1)
      PROVE  FALSE
    <2>1. n <= k + 1
        BY <1>1, <1>3, CoversShorter, n - 1 \in Nat, k + 1 \in Nat
    <2>2. CASE n = k + 1
        BY <2>2, <1>3
    <2>3. CASE n <= k
        BY <2>3, <1>3 DEF Covers
    <2>4. QED
        BY <2>1, <2>2, <2>3
<1>4. QED
    BY <1>2, <1>3 DEF topic_matches

LEMMA InitIInv == Init => IInv
<1> SUFFICES ASSUME Init PROVE IInv
    OBVIOUS
<1>1. ASSUME NEW s \in Calls PROVE s \in Arguments
    BY LevelsAssumption DEF Calls, Arguments
<1>2. TypeOK
    BY <1>1 DEF Init, TypeOK, Arguments
<1>3. Covers(filter, topic, 0)
    BY <1>2 DEF Covers, TypeOK, Arguments
<1>4. QED
    BY <1>2, <1>3 DEF Init, IInv, LoopInv, AnswerInv

\* An arm that goes round the loop needs only that the filter covers the topic
\* one level further.
LEMMA ContinueIInv ==
    ASSUME IInv, result = "looping", filter_parts < Len(filter), topic_parts < Len(topic),
           filter_parts' = filter_parts + 1, UNCHANGED <<filter, topic>>, Continue,
           Covers(filter, topic, filter_parts + 1)
    PROVE  IInv'
BY DEF IInv, TypeOK, LoopInv, AnswerInv, Continue, Covers, topic_matches, Arguments

\* An arm that returns needs only that the answer is right.
LEMMA ReturnIInv ==
    ASSUME IInv, filter_parts' \in 0..Len(filter), UNCHANGED <<filter, topic>>,
           NEW answer \in {"matches", "differs"}, Return(answer),
           answer = "matches" <=> topic_matches(filter, topic)
    PROVE  IInv'
<1>1. topic_matches(filter, topic)' <=> topic_matches(filter, topic)
    BY DEF topic_matches, Covers
<1>2. QED
    BY <1>1 DEF IInv, TypeOK, LoopInv, AnswerInv, Return, Arguments

LEMMA NextIInv == IInv /\ [Next]_vars => IInv'
<1> SUFFICES ASSUME IInv, [Next]_vars PROVE IInv'
    OBVIOUS
<1> USE DEF TopicEnds
<1>0. /\ filter \in Seq(Levels) /\ topic \in Seq(Levels)
      /\ filter_parts \in 0..Len(filter) /\ topic_parts \in 0..Len(topic)
      /\ result = "looping" => topic_parts = filter_parts /\ Covers(filter, topic, filter_parts)
    BY DEF IInv, TypeOK, LoopInv, Arguments
<1>1. CASE MultiLevel
    <2>1. topic_matches(filter, topic)
        BY <1>0, <1>1 DEF MultiLevel, NextFilterLevel, topic_matches, Covers
    <2>2. QED
        BY <1>0, <1>1, <2>1, ReturnIInv DEF MultiLevel, NextFilterLevel
<1>2. CASE SingleLevel
    <2>1. CASE TopicEnds
        <3>1. ~Covers(filter, topic, filter_parts + 1)
            BY <1>0, <1>2, <2>1 DEF SingleLevel, NextFilterLevel, Covers
        <3>2. ~topic_matches(filter, topic)
            BY <1>0, <1>2, <3>1, NoMatch DEF SingleLevel, NextFilterLevel
        <3>3. QED
            BY <1>0, <1>2, <2>1, <3>2, ReturnIInv DEF SingleLevel, NextFilterLevel
    <2>2. CASE ~TopicEnds
        <3>1. Covers(filter, topic, filter_parts + 1)
            BY <1>0, <1>2, <2>2 DEF SingleLevel, NextFilterLevel, Covers
        <3>2. QED
            BY <1>0, <1>2, <2>2, <3>1, ContinueIInv DEF SingleLevel, NextFilterLevel
    <2>3. QED
        BY <2>1, <2>2
<1>3. CASE Literal
    <2> PICK f \in Levels \ {"+", "#"} :
            /\ NextFilterLevel(f)
            /\ \/ TopicEnds /\ Return("differs")
               \/ ~TopicEnds /\ topic[topic_parts + 1] # f /\ Return("differs")
               \/ ~TopicEnds /\ topic[topic_parts + 1] = f /\ Continue
        BY <1>3 DEF Literal
    <2>1. CASE TopicEnds \/ topic[topic_parts + 1] # f
        <3>1. ~Covers(filter, topic, filter_parts + 1)
            BY <1>0, <2>1 DEF NextFilterLevel, Covers
        <3>2. ~topic_matches(filter, topic)
            BY <1>0, <3>1, NoMatch DEF NextFilterLevel
        <3>3. QED
            BY <1>0, <2>1, <3>2, ReturnIInv DEF NextFilterLevel
    <2>2. CASE ~TopicEnds /\ topic[topic_parts + 1] = f
        <3>1. Covers(filter, topic, filter_parts + 1)
            BY <1>0, <2>2 DEF NextFilterLevel, Covers
        <3>2. QED
            BY <1>0, <2>2, <3>1, ContinueIInv DEF NextFilterLevel
    <2>3. QED
        BY <2>1, <2>2
<1>4. CASE EndOfFilter
    <2>1. topic_matches(filter, topic) <=> TopicEnds
        BY <1>0, <1>4 DEF EndOfFilter, topic_matches, Covers
    <2>2. QED
        BY <1>0, <1>4, <2>1, ReturnIInv DEF EndOfFilter
<1>5. CASE UNCHANGED vars
    BY <1>5 DEF vars, IInv, TypeOK, LoopInv, AnswerInv, Covers, topic_matches
<1>6. QED
    BY <1>1, <1>2, <1>3, <1>4, <1>5 DEF Next, Step, Returned

--------------------------------------------------------------------------------
\* For every filter, a "#" inside included, the loop returns what topic_matches
\* says: MockClient, which calls the function in one step, is written with it.
LEMMA LoopAnswers == Spec => []AnswerInv
<1>1. IInv => AnswerInv
    BY DEF IInv
<1>2. QED
    BY InitIInv, NextIInv, <1>1, PTL DEF Spec

\* For every filter with "#" at most at its end and every topic, of any length,
\* the loop answers by the documented rules (client.rs:105-131).
THEOREM AnswerCorrect == Spec => []AnswerIsMatches
<1>1. IInv => AnswerIsMatches
    BY WellFormedAnswer DEF IInv, TypeOK, Arguments, AnswerInv, AnswerIsMatches
<1>2. QED
    BY InitIInv, NextIInv, <1>1, PTL DEF Spec

\* The two iterators stay within the filter and the topic.
THEOREM TypeCorrect == Spec => []TypeOK
<1>1. IInv => TypeOK
    BY DEF IInv
<1>2. QED
    BY InitIInv, NextIInv, <1>1, PTL DEF Spec
================================================================================
