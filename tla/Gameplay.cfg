CONSTANTS
    Stories = {s1, s2}
    None = None
    MaxPanics = 2
SPECIFICATION Spec
INVARIANTS QuietAfterDispose CommandsAnswered
PROPERTY ExitCompletes
