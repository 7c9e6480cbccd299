\* Round-robin over lists whose length divides 2^Width: the wrap is harmless.
CONSTANTS
    b1 = b1
    b2 = b2
    b3 = b3
    b4 = b4
    Width = 7
    Backends <- FourBackends
SPECIFICATION Spec
INVARIANT TypeOK
INVARIANT Balanced
