SPECIFICATION Spec
CONSTANTS
    N = 3
    M = 2
    Units = {"s", "ms"}
    Misread = {"ms"}
    Polarity <- MCPolarity
    ScoresOf <- MCScoresOf
CHECK_DEADLOCK FALSE
INVARIANT SomeoneSurvives
INVARIANT FrontSpeaksForAll
INVARIANT NoDominatedOnFront
