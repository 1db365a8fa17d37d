SPECIFICATION Spec
CONSTANTS
    NoThread = NoThread
    Null = Null
    a1 = a1
    a2 = a2
    d1 = d1
    s1 = s1
    s2 = s2
    Adders = {a1}
    Deleters = {d1}
    Getters = {}
    Setters = {s1}
    Sizers = {}
    Name = {n1, n2}
    Listened = {n1, n2}
    Word = {0, 1}
    Words = 2
    Node = {m1}
    MaxChanges = 2
SYMMETRY Sym
INVARIANTS NoFault ListenersUpToDate
CHECK_DEADLOCK FALSE
