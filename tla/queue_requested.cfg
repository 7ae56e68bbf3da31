SPECIFICATION Spec
CONSTANTS
    m1 = m1  m2 = m2  d1 = d1  d2 = d2  r1 = r1
    Malformed = Malformed  NoRequest = NoRequest  NoMsg = NoMsg
    Messages = {m1, m2}
    Deliveries = {d1, d2}
    Requests = {r1}
    JobOf <- OwnDeliveries
    RequestOf <- AllRequested
    FaultKinds = {"crash", "stop", "store", "net", "lease", "policy"}
    MaxFaults = 2
INVARIANTS SettledForAReason
PROPERTIES NotReviewedAgain StoreNeverRegresses
