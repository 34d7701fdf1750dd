CONSTANTS
    None = None
    Sessions = {s1, s2}
    Scopes = {c1}
    Turns = {t1, t2}
    Questions = {q1}
    Texts = {x1}
    MaxMessages = 3
SPECIFICATION Spec
SYMMETRY Symmetry
VIEW WithoutResults
INVARIANTS OneExchangePerTurn NoOrphanRows SupersededByItsReplay HistoryAgreesWithTurns
PROPERTIES OnlyStaleCallsUndoOutcomes KeepsLifecycle
