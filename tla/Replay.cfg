SPECIFICATION Spec
CONSTANTS
    snd = snd  p = p  stranger = stranger  zero = zero
    k = k  k2 = k2  d0 = d0  d1 = d1  c0 = c0  c1 = c1  word = word
    None = None
    Zero = zero
    Stranger = stranger
    Created = p
    NoCode = c0
    Address <- MCAddress
    Key <- MCKey
    Data <- MCData
    Code <- MCCode
    Word <- MCWord
    MaxCallDepth = 2
    Answers <- MCAnswers
    MaxTrace = 3
CHECK_DEADLOCK FALSE
INVARIANTS
    TypeOK
    ContextPerCall
    KeepsAccounts
    SnapshotAvailable
    ConservesMoney
