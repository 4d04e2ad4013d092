----------------------------- MODULE MCExtract -----------------------------
(***************************************************************************)
(* Small instances of Extract.  An externally owned account snd calls the  *)
(* contract p, which calls q; n1 and n2 are the addresses of creations by  *)
(* p; burn is an account no transaction knows.                             *)
(***************************************************************************)
EXTENDS Extract

CONSTANTS snd, p, q, n1, n2, burn, zero, k, d0, d1, c0, c1, h0, h1

MCAddress == {snd, p, q, n1, n2, burn, zero}
MCWord    == MCAddress \cup {One, h0, h1}
MCKey     == {k}
MCData    == {d0, d1}
MCCode    == {c0, c1}

Account(nonce, balance, code) ==
    [nonce |-> nonce, balance |-> balance, code |-> code,
     storage |-> [x \in {k} |-> d0]]
Empty == [nonce |-> 0, balance |-> 0, code |-> c0, storage |-> <<>>]

(* what every run starts from; a creation address is in the prestate *)
MCPrestate ==
    [a \in {snd, p, q, n1, n2} |->
        CASE a = snd -> Account(0, 4, c0)
          [] a = p   -> Account(1, 1, c1)
          [] a = q   -> Account(1, 0, c1)
          [] OTHER   -> Empty]

MCPrestateWithZero ==
    [a \in DOMAIN MCPrestate \cup {zero} |->
        IF a = zero THEN Empty ELSE MCPrestate[a]]

(* the sender's creation is n1; p's first is n1 and its second n2 *)
MCCreateAddress(creator, nonce) ==
    IF creator = p /\ nonce = 2 THEN n2 ELSE n1

MCBlock == [number |-> 3, hash |-> h1]
MCBlockHash == (2 :> h0)

Tx(to, value, gas) == [from |-> snd, to |-> to, value |-> value, gas |-> gas,
                       gas_price |-> 1]

(* instructions: of a call or a creation, and of an assignment to k *)
Do(op, a, v) == [op |-> op, address |-> a, amount |-> v, key |-> k, data |-> d0]
Set(d) == [op |-> "SSTORE", address |-> zero, amount |-> 0, key |-> k, data |-> d]

Programs(ofP, ofQ, ofNew) ==
    [a \in MCAddress |-> CASE a = p        -> ofP
                           [] a = q        -> ofQ
                           [] a \in {n1, n2} -> ofNew
                           [] OTHER        -> {}]

Visible == {<<"REVERT", FALSE>>, <<"INVALID", FALSE>>, <<"OTHER", TRUE>>,
            <<"SSTORE", TRUE>>, <<"SELFDESTRUCT", TRUE>>}

NothingDeployed == [a \in MCAddress |-> c0]
OneDeployed == [a \in MCAddress |-> IF a = n2 THEN c1 ELSE c0]

-----------------------------------------------------------------------------
(* calls, storage and failures *)
CallsTransactions == {Tx(p, 1, 2), Tx(q, 0, 1), Tx(snd, 1, 1)}
CallsProgram ==
    Programs({Do("CALL", q, 0), Do("CALL", q, 1), Do("DELEGATECALL", q, 0),
              Do("STATICCALL", q, 0), Do("CALL", snd, 1), Set(d1),
              Do("REVERT", zero, 0)},
             {Set(d1), Set(d0), Do("CALL", p, 1), Do("CALLCODE", p, 0),
              Do("INVALID", zero, 0), Do("OTHER", zero, 0)},
             {Do("REVERT", zero, 0), Set(d1)})

(* contract creation *)
CreatesTransactions == {Tx(p, 1, 2), Tx(None, 1, 1)}
CreatesProgram ==
    Programs({Do("CREATE", zero, 0), Do("CREATE", zero, 1), Do("CREATE2", zero, 2),
              Do("CALL", n1, 1), Do("REVERT", zero, 0)},
             {},
             {Set(d1), Do("CALL", p, 0), Do("REVERT", zero, 0)})

(* self-destruction, block hashes - of a known block, of this one, of one   *)
(* that is too old - and calls that fail in every way                       *)
DestructTransactions == {Tx(p, 1, 2)}
DestructProgram ==
    Programs({Do("CALL", q, 0), Do("CALL", q, 1), Do("CALL", snd, 0),
              Do("SELFDESTRUCT", snd, 0), Do("DELEGATECALL", q, 0),
              Do("BLOCKHASH", zero, 2), Do("BLOCKHASH", zero, 3),
              Do("REVERT", zero, 0)},
             {Do("SELFDESTRUCT", p, 0), Do("SELFDESTRUCT", q, 0),
              Do("CALL", p, 0), Do("BLOCKHASH", zero, 1), Do("INVALID", zero, 0)},
             {})

-----------------------------------------------------------------------------
(* the failures and programs of the runs that find a disagreement *)
CallRunsOutOfGas   == Visible \cup {<<"CALL", TRUE>>}
RevertRunsOutOfGas == Visible \cup {<<"REVERT", TRUE>>}
StaticWriteFails   == Visible \cup {<<"SSTORE", FALSE>>}

PayTransactions == {Tx(p, 1, 2)}
PrecompileProgram ==
    Programs({Do("CALL", snd, 1), Do("CALL", q, 1), Do("REVERT", zero, 0)}, {}, {})
CreationTransactions == {Tx(None, 1, 1)}
CreationProgram == Programs({}, {}, {Set(d1), Do("REVERT", zero, 0)})
CreationDeploys == [a \in MCAddress |-> IF a = n1 THEN c1 ELSE c0]
=============================================================================
