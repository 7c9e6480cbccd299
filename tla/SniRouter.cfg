\* sni-router: each route keeps its own rotation while SNIs interleave.
CONSTANTS
    a = a
    b = b
    u = u
    b1 = b1
    b2 = b2
    b3 = b3
    b4 = b4
    NoHello = NoHello
    Width = 4
    Routes <- MCRoutes
    Offered <- MCOffered
SPECIFICATION Spec
INVARIANT TypeOK
INVARIANT RoutesBalanced
