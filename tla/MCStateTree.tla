----------------------------- MODULE MCStateTree -----------------------------
(***************************************************************************)
(* Small transactions: a sender, a contract with up to two slots, and an   *)
(* address that is either a third account or the contract being created.   *)
(***************************************************************************)
EXTENDS StateTree

CONSTANTS from, con, new, zero, c1, c2, c0

Addresses == {from, con, new, zero}

(* words of four bytes, with digits of every place and above 9 *)
k1 == <<0, 0, 0, 1>>
k2 == <<1, 0, 160, 0>>
d0 == <<0, 0, 0, 0>>
d1 == <<0, 0, 0, 10>>
d2 == <<16, 0, 1, 0>>
Keys      == {k1, k2}
Values    == {d0, d1, d2}
Codes     == {c0, c1, c2}

Account(nonce, balance, code, storage) ==
    [nonce |-> nonce, balance |-> balance, code |-> code, storage |-> storage]

(* What the contract may hold.  10 and 16 are 0x0a and 0x10. *)
ConAccounts ==
    {Account(1, 16, c1, storage) :
        storage \in UNION {[S -> Values] : S \in {{}, {k1}, {k1, k2}}}}

(* as it was, paid from, after a creation of its own, destroyed *)
ConChanged ==
    {Account(kept[1], kept[2], kept[3], storage) :
        kept \in {<<1, 16, c1>>, <<1, 10, c1>>, <<2, 10, c1>>, <<0, 0, c0>>},
        storage \in {[k \in {} |-> d0]} \cup [{k1} -> {d0, d1}]
                      \cup {[k \in Keys |-> d0], [k \in Keys |-> d2]}}

(* the third account: empty, funded, or deployed *)
NewAccounts == {Account(0, 0, c0, [k \in {} |-> d0]), Account(0, 7, c0, [k \in {} |-> d0])}
NewChanged  == {Account(0, 7, c0, [k \in {} |-> d0]), Account(1, 0, c2, [k \in {k1} |-> d1])}

Sender == Account(3, 9, c0, [k \in {} |-> d0])

State(A, x, y) ==
    [a \in A |-> CASE a = from -> Sender [] a = con -> x [] a = new -> y]

(***************************************************************************)
(* The account sets: what the extraction gives, and poststates that lack   *)
(* an account or have one more, as a hand-written transaction file may.    *)
(***************************************************************************)
Domains == {<<{from, con, new}, {from, con, new}>>, <<{from, con}, {from, con}>>,
            <<{from, con}, {from, con, new}>>, <<{from, con, new}, {from, con}>>}

SmallInputs ==
    {[from |-> from, to |-> to, nonce |-> 3,
      prestate  |-> State(domains[1], x, y),
      poststate |-> State(domains[2], x2, y2)] :
        to \in {con, zero}, domains \in Domains,
        x \in ConAccounts, x2 \in ConChanged, y \in NewAccounts, y2 \in NewChanged}
=============================================================================
