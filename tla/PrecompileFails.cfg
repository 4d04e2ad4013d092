SPECIFICATION ExtractSpec
CONSTANTS
    snd = snd  p = p  q = q  n1 = n1  n2 = n2  burn = burn  zero = zero
    k = k  d0 = d0  d1 = d1  c0 = c0  c1 = c1  h0 = h0  h1 = h1
    None = None  One = One
    Zero = zero
    Stranger = burn
    Created = n1
    NoCode = c0
    Address <- MCAddress
    Key <- MCKey
    Data <- MCData
    Code <- MCCode
    Word <- MCWord
    CreateAddress <- MCCreateAddress
    BlockHash <- MCBlockHash
    ThisBlock <- MCBlock
    Transactions <- PayTransactions
    Program <- PrecompileProgram
    Prestate <- MCPrestate
    Faults <- Visible
    FailingPrecompiles = {q}
    Deployed <- NothingDeployed
    MaxLogs = 5
    MaxCallDepth = 2
CHECK_DEADLOCK FALSE
INVARIANT
    AgreesWithGeth
