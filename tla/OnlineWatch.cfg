CONSTANTS
    Nodes = {n1, n2}
    SeqWrap = 3
    MaxChanges = 2
    Unusual = {}
SPECIFICATION Spec
INVARIANTS OnePhase
PROPERTY BecomesRight
CHECK_DEADLOCK FALSE
