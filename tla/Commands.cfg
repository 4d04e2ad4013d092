SPECIFICATION FairSpec
CONSTANTS
    p1 = p1  p2 = p2
    t1 = t1  t2 = t2  t3 = t3
    in = in  sub = sub  outdir = outdir
    n1 = n1  n2 = n2  txt = txt
    None = None  Directory = Directory
    Process = {p1, p2}
    Tx = {t1, t2, t3}
    Unbuildable = {t2}
    Dir <- Directories
    Tree <- TreeOf
    Name <- Names
    JsonName <- Jsons
    Hash <- HashOf
    Command <- Given
    InitialFiles <- Start0
    Pieces = 2
    MaxStarts = 2
    MaxKills = 1
INVARIANTS
    TypeOK
    TextsHaveOrigins
    OnlyInterruptionsTear
    HandledAreWritten
    FailuresHaveReasons
PROPERTIES
    CommandsEnd
CHECK_DEADLOCK FALSE
