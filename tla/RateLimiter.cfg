\* Six settings of the limits, two clients, a proxy and two addresses.
CONSTANTS
    Clients = {c1, c2}
    Proxy = proxy
    Emails = {m1, m2}
    NoHeader = NoHeader
    Configurations <- Settings
    Second = 2
    Minute = 1
    Hour = 3
    MaxLog = 4
SPECIFICATION Spec
SYMMETRY Symmetry
INVARIANTS LimiterTypeOK WithinQuota RetryAfterExact
