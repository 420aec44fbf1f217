SPECIFICATION Spec
CONSTANTS
    n1 = n1
    n2 = n2
    n3 = n3
    Nodes <- ThreeNodes
    Root = Root
    Null = Null
    ClientMax = 3
    AddFails = TRUE
INVARIANTS
    ListsExact
