CONSTANTS
    None = None
    Sessions = {s1}
    Scopes = {c1}
    Turns = {t1, t2, t3}
    Questions = {q1}
    Texts = {x1}
    MaxMessages = 5
SPECIFICATION Spec
SYMMETRY Symmetry
INVARIANTS FollowUpsReadOneExchange
