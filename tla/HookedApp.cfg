CONSTANTS
    Targets = {"dns1", "dns2"}
    Words = {"ipv4", "ipv6", "COLON"}
    BufSize = 16
    Slots = 5
    Names = {"name", "address"}
    ProxyPorts <- Numbers
    MaxErrors = 2
    Address <- AddressOf
    TcpPort <- PortOf
SPECIFICATION Spec
INVARIANTS
    TypeOK
    HeadConsumed
    HostExplained
    SocketRestored

    
CHECK_DEADLOCK FALSE
