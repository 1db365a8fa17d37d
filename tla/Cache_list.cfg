SPECIFICATION Spec
CONSTANTS
    NoThread = NoThread
    Null = Null
    a1 = a1
    a2 = a2
    d1 = d1
    s1 = s1
    s2 = s2
    Adders = {a1, a2}
    Deleters = {d1, a2}
    Getters = {d1}
    Setters = {}
    Sizers = {a2}
    Name = {n1, n2, n3, n4}
    Listened = {n1, n2, n3, n4}
    Word = {0}
    Words = 1
    Node = {m1, m2, m3, m4}
    MaxChanges = 0
SYMMETRY Sym
INVARIANTS TypeOK ListWellFormed NoFault SizeWasTrue
PROPERTY DelTakesOne
CHECK_DEADLOCK FALSE
