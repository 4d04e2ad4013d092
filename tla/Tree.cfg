SPECIFICATION VectorSpec
CONSTANTS
    from = from  con = con  new = new  zero = zero
    calldata = calldata  hash = hash  h1 = h1  h2 = h2
    c0 = c0  c1 = c1  c2 = c2
    None = None
    Address <- Addresses
    Key <- Keys
    Data <- Values
    Code <- Codes
    NoCode = c0
    Zero = zero
    Created = new
    Width = 4
    Inputs <- Transactions
    NoData = NoData
    Scale = 1000000
    Half = 8388608
    Builds = {TRUE, FALSE}
    Malformed = Malformed
INVARIANTS
    TypeOK
    PreTreeMirrors
    PostTreeMirrors
    OneActorPerAddress
    SelfContained
    NeverPanics
    AllCompared
    ReadsBack
    VectorRuns
    OnlyNumbersPanic
    SlotsReadBack
CHECK_DEADLOCK FALSE
