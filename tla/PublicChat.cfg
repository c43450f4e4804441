\* Free questions, rate limit and cleanup while handlers wait for a model.
SPECIFICATION ChatSpec
CONSTANTS
    Workers = {w1}
    Sids = {s1}
    Objs = {o1, o2}
    Handlers = {r1, r2}
    QuestionMax = 2
    RateMax = 3
    RateWindow = 2
    SessionAge = 1
    ClockMax = 3
    Nothing = Nothing
INVARIANTS
    QuestionsBounded
    RateKept
    CountedInSession
PROPERTIES
    SessionsExpire
