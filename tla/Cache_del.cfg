SPECIFICATION Spec
CONSTANTS
    NoThread = NoThread
    Null = Null
    a1 = a1
    a2 = a2
    d1 = d1
    s1 = s1
    s2 = s2
    Adders = {a1}
    Deleters = {a1}
    Getters = {}
    Setters = {}
    Sizers = {}
    Name = {n1, n2}
    Listened = {n1, n2}
    Word = {0}
    Words = 1
    Node = {m1, m2}
    MaxChanges = 0
PROPERTY OnlyNamedDeleted
CHECK_DEADLOCK FALSE
