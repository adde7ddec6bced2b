CONSTANTS
    root = root
    managarm = managarm
    daemon = daemon
    guest = guest
    wheel = wheel
    h1 = h1
    h2 = h2
    stable = stable
    nightly = nightly
    None = None
    Locked = Locked
    Name <- MCName
    Hash <- MCHash
    Channel <- MCChannel
    Shipment <- MCShipment
    Request <- MCRequest
    FirstUid <- Uid
    AsRoot = TRUE
    MaxDay = 1
SPECIFICATION FairSpec
INVARIANTS
    Identities
    SuccessMeansProvisioned
    HomesOwned
    NoSelfRefusal
PROPERTIES
    OnlyAdds
    RerunIsNoOp
    Recovers
