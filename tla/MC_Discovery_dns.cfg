CONSTANTS
    a1 = a1
    a2 = a2
    a3 = a3
    n1 = n1
    n2 = n2
    s1 = s1
    Addrs <- MCAddrs
    BootstrapNodes <- MCBootstrapNodes
    Resolved <- MCResolved
    DnsSeeds <- MCDnsSeeds
    DnsAnswers <- MCDnsAnswers
    DnsInterval = 1
    ClockMax = 3
SPECIFICATION Spec
PROPERTY DnsRateLimited
