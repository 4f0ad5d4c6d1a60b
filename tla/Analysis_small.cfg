\* Three authors of one problem.
SPECIFICATION Spec
CONSTANTS
    First = a1
    Second = a2
    Third = a3
    Problem = p
    None = None
    NoLang = None
    Exports <- MCExports
    Similarities = {0, 6994, 6996}
SYMMETRY MCSymmetry
INVARIANTS RowsByDefinition FastAreFew SentIsLatest ScoreExplained
