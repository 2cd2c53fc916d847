SPECIFICATION Spec
CONSTANTS
    Syms = {s1, s2, s3}
    SymMemSize = 5
    LoadSize = 2
    ListCap = 2
    Layouts <- MCLayouts
    Lines = {0, 1, 2}
SYMMETRY SymmetricSyms
INVARIANTS
    GetSymbolsOnePerAddress
    LoadedWindowsComplete
    RangesExact
    OnlyCrowdedAddressHangs
    LabelsComplete
