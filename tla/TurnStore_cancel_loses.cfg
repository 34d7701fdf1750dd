CONSTANTS
    None = None
    Sessions = {s1, s2}
    Scopes = {c1}
    Turns = {t1}
    Questions = {q1}
    Texts = {x1}
    MaxMessages = 2
SPECIFICATION Spec
SYMMETRY Symmetry
PROPERTIES CancellationWins
