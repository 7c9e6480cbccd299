\* Round-robin over three backends: the counter's wrap-around breaks the rotation.
CONSTANTS
    b1 = b1
    b2 = b2
    b3 = b3
    b4 = b4
    Width = 2
    Backends <- ThreeBackends
SPECIFICATION Spec
INVARIANT Balanced
