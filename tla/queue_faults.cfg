SPECIFICATION FairSpec
CONSTANTS
    m1 = m1  m2 = m2  d1 = d1  d2 = d2  r1 = r1
    Malformed = Malformed  NoRequest = NoRequest  NoMsg = NoMsg
    Messages = {m1, m2}
    Deliveries = {d1}
    Requests = {r1}
    JobOf <- SecondMalformed
    RequestOf <- AllRequested
    FaultKinds = {"crash", "stop", "store", "net", "lease", "policy"}
    MaxFaults = 4
INVARIANTS TypeInvariant SavedStatesValid AttemptBudget ChargesAreDurable
PROPERTIES EverySettles
