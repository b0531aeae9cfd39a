------------------------------- MODULE MCRuntime ------------------------------
(***************************************************************************)
(* Instances of Runtime.                                                   *)
(***************************************************************************)
EXTENDS Runtime

CONSTANTS alice, bob, erc20, here, elsewhere

GenesisBook ==
    [free |-> [a \in Accounts |-> IF a = alice THEN 4 ELSE 0], issuance |-> 4]

Names ==
    {[pallet |-> "System", function |-> "remark"],
     [pallet |-> "TransactionPauser", function |-> "unpause_transaction"],
     [pallet |-> "not UTF-8", function |-> "remark"]}

Pauser == "TransactionPauser"

NamesThatDecode == {"System", "TransactionPauser"}

ByAlice(domain, nonce, value, deadline) ==
    [domain |-> domain, owner |-> alice, spender |-> bob, value |-> value,
     nonce |-> nonce, deadline |-> deadline]

SignedByAlice ==
    {ByAlice(here, 0, 2, 0), ByAlice(here, 1, 5, 1), ByAlice(elsewhere, 0, 3, 1)}

SomeFees ==
    {[max |-> 2, fee |-> 1, tip |-> 0], [max |-> 2, fee |-> 1, tip |-> 1]}
=============================================================================
