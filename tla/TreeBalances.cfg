SPECIFICATION Spec
CONSTANTS
    from = from  con = con  new = new  zero = zero
    c0 = c0  c1 = c1  c2 = c2
    None = None
    Address <- Addresses
    Key <- Keys
    Data <- Values
    Code <- Codes
    NoCode = c0
    Zero = zero
    Created = new
    Width = 4
    Inputs <- SmallInputs
INVARIANTS
    BalancesKept
CHECK_DEADLOCK FALSE
