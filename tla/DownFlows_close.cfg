SPECIFICATION Spec
CONSTANTS
    a1 = a1
    a2 = a2
    b1 = b1
    ipA = ipA
    ipB = ipB
    Source = {a1, a2, b1}
    Ip = {ipA, ipB}
    IpOf <- MCIpOf
    Session = {s1}
    Flow = {f1, f2}
    NoFlow = NoFlow
    NoCookie = NoCookie
CHECK_DEADLOCK FALSE
INVARIANTS CloseQuiesces
