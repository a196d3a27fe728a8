\* Filters and topics of up to three levels; "a" and "b" stand for any two texts.
CONSTANTS
    Levels = {"a", "b", "+", "#"}
    MaxLevels = 3
SPECIFICATION Spec
INVARIANT
    ExactMatchingOnly
