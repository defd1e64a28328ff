CONSTANTS
    r1 = r1
    r2 = r2
    r3 = r3
    Requests <- ThreeRequests
    Targets = {"dns1", "dns2"}
    UdpPorts = {53, 54}
SPECIFICATION Spec
INVARIANTS
    TargetsAgree
    ListComplete
SYMMETRY Permuted
CHECK_DEADLOCK FALSE
