CONSTANTS
    g1 = g1
    g2 = g2
    g3 = g3
    c1 = c1
    t1 = t1
    k1 = k1
    k2 = k2
    Sessions = {t1}
    Fields = {k1, k2}
    Guests <- MCGuests
    Of <- MCOf
    Wants <- MCWants
    Keys <- MCKeys
    Cons = {c1}
    Numbers = {"1"}
    Texts = {"x"}
SPECIFICATION FairSpec
INVARIANTS
    AnswersInStep
PROPERTIES
    FreshAnswers
    EveryQueryEnds
