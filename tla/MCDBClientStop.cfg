SPECIFICATION DBClientSpec
CONSTANTS
    Reg = {r1, r2, r3}
    Val = {v1, v2}
    NoVal = NoVal
INVARIANT StopDiscardsValues
