\* Two timed-out lookups make a failure.
CONSTANTS
    Resolvers = {"system", "public"}
    Wants = {"any", "ipv4", "ipv6"}
SPECIFICATION DNSSpec
INVARIANT TimeoutIsTimeout
CHECK_DEADLOCK FALSE
