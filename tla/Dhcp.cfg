SPECIFICATION FairSpec
CONSTANTS
    Addrs = {a1, a2}
    ANY = ANY
    LeaseTimes <- TwoAndFiveMinutes
    Grace = 3
    MaxFaults = 3
INVARIANTS BoundIsLeased TakenIsDeclined
PROPERTIES RenewedInTime 
