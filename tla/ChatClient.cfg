CONSTANTS
    Surfaces = {s1, s2}
    Conversations = {c1, c2}
    NoConversation = NoConversation
    MaxTurns = 2
SPECIFICATION Spec
SYMMETRY Symmetry
INVARIANTS
    PanelsDoNotMixThreads
    DeletedIsAborted
PROPERTY ThreadsOnlyGrow
CHECK_DEADLOCK FALSE
