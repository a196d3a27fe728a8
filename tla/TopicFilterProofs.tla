--------------------------- MODULE TopicFilterProofs ---------------------------
(***************************************************************************)
(* For which filters the answer of topic_matches is the documented one.    *)
(***************************************************************************)
EXTENDS TopicFilter, TLAPS

\* For a filter that has "#" at most as its last level, what the function
\* answers is the rule of its doc comment (client.rs:105-131).
LEMMA WellFormedAnswer ==
    ASSUME NEW Texts, NEW f \in Seq(Texts), WellFormed(f), NEW t
    PROVE  topic_matches(f, t) <=> Matches(f, t)
<1>1. Len(f) \in Nat
    OBVIOUS
<1>2. ASSUME NEW n \in 1..Len(f), f[n] = "#" PROVE n = Len(f)
    BY <1>1, <1>2 DEF WellFormed
<1>3. (\E n \in 1..Len(f) : f[n] = "#" /\ Covers(f, t, n - 1))
          <=> Len(f) > 0 /\ f[Len(f)] = "#" /\ Covers(f, t, Len(f) - 1)
    BY <1>1, <1>2
<1>4. QED
    BY <1>3 DEF topic_matches, Matches
================================================================================
