SPECIFICATION Spec
CONSTANTS
    Addrs = {a1, a2}
    ANY = ANY
    LeaseTimes <- FiveMinutes
    Grace = 3
    MaxFaults = 1
INVARIANTS AddressHasLease
