SPECIFICATION Spec
CONSTANTS
    Syms = {s1, s2}
    SymMemSize = 3
    LoadSize = 2
    ListCap = 2
    Layouts <- MCLayouts
    Lines = {0, 1}
INVARIANT AllSymbolsListed
