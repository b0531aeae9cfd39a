# Verification of the Ferrum quantum portal

This directory holds TLA+ models of the Ferrum network node, the TLC
configurations that check them and the TLAPS proofs about them. The centre is
the quantum portal: the offchain worker that relays blocks between
Ethereum-compatible chains, the place in this repository where time, storage,
remote chains and several worker invocations meet.

    tlasany M.tla                          parse a module
    tlc -workers 2 -config X.cfg MCmodule  model-check a run
    tlapm M.tla                            check the proofs of a module

`PROJECT.json` lists the runs, the mutants, the source lines of every definition,
the findings, the hazards and the theorems.

## The system and its parts

| Part | Source | Role |
|---|---|---|
| Offchain worker hook | `pallets/quantum-portal/src/lib.rs` | started at every imported block; takes a leased lock, reads the configuration, processes each pair of chains |
| Portal service | `quantum_portal_service.rs` | process lock and one pending-transaction slot per local chain, both in persistent offchain storage; decides whether to wait, mine or finalize |
| Portal client | `quantum_portal_client.rs` | `mine` and `finalize`: reads ledger contracts over JSON-RPC, decodes blocks, sends transactions |
| Contract client, chain queries | `contract_client.rs`, `chain_queries.rs` | eth_call, eth_sendRawTransaction, receipts, RPC timeout |
| Finalizer registry | `lib.rs` (extrinsics), `precompiles/quantum-portal` | registered finalizers, signatures, thresholds |
| ABI codec | `libraries/ethabi-nostd` | encoding and decoding of Solidity values |
| Chain utilities | `chain_utils.rs`, `eip_712_utils.rs`, `qp_types.rs` | hex, RLP, signatures, JSON text, typed-data hashes |
| ERC-20 precompile | `precompiles/balances-erc20` | native balance as a token, allowances, permits |
| Transaction pauser | `pallets/transaction-pauser` | pauses calls by pallet and function name |
| Runtime glue | `runtime/*/src/impls.rs`, `runtime/*/src/lib.rs`, `xcm_config.rs` | fees, call filter, XCM configuration |
| XCM primitives | `primitives/src` | types, and a conversion of XCM transactions to Ethereum ones |
| Ink contracts | `contracts/*` | example ERC-20 caller and multi-chain staking |
| Node | `node/src` | services, RPC, command line |
| Docs site, scripts | `docs`, `examples`, `utils` | documentation with its search scripts, example requests |

## The portal service (`PortalService`)

One node. Several invocations of the hook (`Workers`) may be alive at once; they
share the persistent offchain storage and nothing else.

| State | Code |
|---|---|
| `lease` | deadline of the `StorageLock` taken at `lib.rs:178` |
| `store[LockKey]` | the process lock, slot 9999 |
| `store[c]` | the pending-transaction slot of local chain `c` |
| `txs` | what became of each transaction sent (external: the chains) |
| `pc, pair, now, live, hash` | a worker's position and its local values |

Every storage access and every RPC round trip is one action, so two workers
interleave between `lock_is_open` and `lock`, and between sending and `save_tx`.
What `mine` and `finalize` decide is open here: they return Err, None or a hash.
The results therefore hold for every client; what the client does is the
subject of `PortalRelay`.

`Faults` selects what the environment may do: `overlap` (a worker outlives its
lease), `crash`, `panic`, `lostReply` (the chain took the transaction, the answer
was lost) and `drop` (a mempool forgets a transaction).

### Runs

| Run | Faults | Result |
|---|---|---|
| `service_safety` | crash, panic, drop | `TypeOK`, `MutualExclusion`, `ProcessLockKept`, `OneOutstanding`, `RecordKeptWhilePending` hold; implements `SingleFlight` |
| `service_overlap_safe` | overlap, lostReply, drop | `LockHasOwner`, `RecordMatchesSent` hold even so, and a miner waits only while something is pending |
| `service_liveness` | drop | records are cleared; every pair keeps being processed |
| `service_overlap` | overlap | violation: two transactions outstanding on one chain |
| `service_lost_reply` | lostReply | violation: a transaction whose answer is lost is not recorded, and the next round sends another |
| `service_panic` | panic | violation: the process lock is left behind for ever |

Bounds: two workers are enough for every race between two invocations; two
hashes allow a second transaction while the first is outstanding; `MaxTime` 2
with `Timeout` 1 lets a transaction be sent, time out and be replaced.
`service_safety` has both directions between two chains. `service_overlap_safe`
and `service_liveness` have a third chain, whose pair shares its slot with
another (`SharedSlot`).
`service_overlap_safe` has the miner role only: a finalizer records the zero
hash, which no chain confirms, and waits for it until the timeout
(`quantum_portal_client.rs:403`). `service_liveness` has one hash. Workers and
hashes are interchangeable, and symmetry is used in the runs without liveness
properties.

Fairness: blocks keep being imported, so some worker keeps trying the lease; a
running worker goes on; a chain executes or drops what is in its mempool; time
passes. The clock is bounded, so `RecordIsCleared` speaks only of records whose
timeout lies within the bound.

### Proofs (`PortalServiceProofs`)

For all constants: `TypeCorrect`; and, when no worker outlives its lease,
`MutualExclusionHolds`, `ProcessLockKeptHolds` (nobody else removes the lock of a
worker that is inside `process_pair`) and `RecordKept`; and, when moreover no
answer is lost, `OneOutstandingHolds` and `SingleFlightRefinement`. The provisos
are needed, and nothing in the code guarantees them: `service_overlap` shows what
a worker that outlives its lease does, `service_lost_reply` what a lost answer
does.

`OneOutstanding` is not inductive. `IInv` adds that one worker runs at a time
and within its lease (`LeaseInv`), what a worker knows of the storage at each
step (`StoreInv`), and that each outstanding transaction is recorded or about to
be (`Tracked`), unless the process lock was left behind (`Stuck`). `Stuck` is
why a crash between sending and recording does no harm here: the lock that is
left behind keeps the node from sending at all. TLC checked `IInv` on the
`service_safety` instance before it was proved. Liveness is model-checked only.

### Proofs about records (`PortalRecordProofs`)

What holds even when workers outlive their leases, for any number of them:

- `LockHasOwnerHolds`, when workers do not panic and the node does not stop. With
  types it is inductive as it stands: whoever leaves `process_pair` removes the
  lock, even one that another worker set.
- `RecordMatchesSentHolds`, under every fault. `SentInv` follows a hash from the
  moment it is sent, through the worker that has it in hand, into the slot and
  back to a worker that asks for its status.
- `WaitsOnlyWhilePendingHolds`, on nodes without the finalizer role, which never
  record the zero hash (`HashInv`). With the role it is false, as said above, so
  the proviso is needed.

## The finalizer registry (`FinalizerRegistry`)

The three storage maps of the pallet and every extrinsic that changes them. The
precompile's two calls dispatch the same extrinsics with the caller as the
finalizer, whomever they are given. `ever` is a history variable: who has been
registered. An absent entry and an empty list are the same value, since no
reader tells them apart. `relay_safety` checks the types and
`SignersWereRegistered` on the registry composed with the relay. Two runs are
about the registry alone, and both end in a violation.

| Run | Instance | Result |
|---|---|---|
| `registry_signers` | two accounts, two signatures, thresholds 0 and 1 | violation of `EnoughSigners`: one finalizer signs twice, and its signatures pass the threshold that one signer does not |
| `registry_removal` | two accounts, two entries in the list | violation of `RemovedIsNoFinalizer`: a finalizer registered twice is removed and still is one |

`finalize` is the reader of the number of signatures. With the layouts in the
source it returns Err before it compares them (see `Layout` below).

`FinalizerRegistryProofs` proves `RegistryTypeCorrect` and `OnlyFinalizersSign`
for all constants. The invariant adds that each list holds only accounts in
`ever`, which is what makes the lookup in `submit_signature` sufficient.

## The relay (`PortalRelay`)

`mine` and `finalize` by several nodes, composed with the registry, which
`PortalRelay` extends. A *route* `<<r, l>>` leads from chain r to chain l.

| State | Code |
|---|---|
| `source`, `open` | the blocks that chain r collects for l; whether the last still takes transactions (external) |
| `mined`, `finalized`, `invalid` | what the ledger contract on l holds for r (external) |
| `pool` | transactions sent and not executed |
| `node` | a node's position in `mine` or `finalize` and the values it has read |

Each RPC is an action, so that blocks open, close and are mined between two
reads. A finalizer reads the registry as it was at the block it runs at
(`at`). The service in front is abstracted to what `SingleFlight` promises. The
ledger contract is not in this repository: it takes only the next block to mine,
only a mined block that is not finalized, and only a signature for its own
chain, as the calls made to it suggest. All transactions differ. A signature is
assumed to have the 96 bytes that `generate_multi_signature` makes, and stands
for the chain it was made for, or to be empty (`NoSignature`): `submit_signature`
takes any bytes. The first 64 bytes of all signatures joined are those of the
first that is not empty (`FirstWithBytes`), and with none the slice at
`quantum_portal_client.rs:353` panics (`SliceTraps`). A panic ends the round as an
error does; that the worker does not start again is the subject of
`PortalService`, and left out here.

`Layout` needs explaining. In the source, `mined_block_by_nonce` asks for six
fields and `decode_mined_block_from_tuple` takes five, so `mine` and `finalize`
return Err before they send anything ("shipped"). "repaired" is not the program
in the source: it is that program once the layouts agree, five fields in a mined
block and the method of a transaction as bytes wherever it is read and sent.
Since an RPC may fail in `relay_safety`, its behaviours contain those of the
source, and what is safe in them is safe in the source. They also say that the
races in the rest of the code do no harm once the layouts are repaired. No
liveness is claimed of the repaired client.

| Run | Instance | Result |
|---|---|---|
| `relay_safety` | repaired; 2 miners, finalizer, account, 2 transactions, threshold 0 or 1, RPC errors, drops, empty signatures | `RelayTypeOK`, `SignersWereRegistered`, `MinesInOrder`, `FinalizesOnlySigned` hold; implements `BlockRelay` |
| `relay_shipped` | shipped; miner, fair | violation: nothing is ever mined |

`BlockRelay` is the promise: blocks are mined in order, none skipped or twice,
each with transactions the source block *starts with*. "Starts with" is as much
as holds: `is_local_block_ready` and `last_local_block` are two calls
(`quantum_portal_client.rs:816`), and a block that opens between them would be
mined while it still collects transactions.

Bounds: two transactions give two blocks or a block of two, so that a backlog of
two, two miners racing for one block and a block that opens at the wrong moment
all happen. `finalize` compares strictly, so a block needs one signature at
threshold 0, and at threshold 1 the single signature of this instance is
not enough: raising it holds finalization up.

Fairness, which only `relay_shipped` uses, so that its counterexample is not a
system that stops: pairs are taken in turn, so a node that is idle again and
again starts a round for each pair (strong fairness); a round goes on; block
periods end; a chain executes what each node sent.

### Proofs (`PortalRelayProofs`)

For any nodes, routes, accounts, transactions and thresholds: `RelayTypeCorrect`,
`MinesInOrderHolds`, `FinalizesOnlySignedHolds` and `RelayImplementsBlockRelay`.
They rest on one inductive invariant, `RelayInv`. None of the properties is
inductive, because a node acts on answers that are out of date: the chains have
moved on since. `RelayInv` says what is still true of them.

- What a miner has read is old but not wrong (`MinerInv`): source blocks only grow
  at their end, so the transactions it holds still are the start of the block, and
  a nonce that was mined stays mined.
- A `mine` on its way has a nonce at most one above what is mined, and the start
  of that source block (`PoolInv`): one that comes too late is refused by the
  contract, and none leaves a gap.
- A finalizer works on a mined block, and the signatures it saw still are in the
  registry (`FinalizerInv`); what it has sent names signers who are there.
- Every block has a transaction, so that there are no more blocks than
  transactions (`LedgerInv`), which is what bounds the nonces.

The refinement then goes action by action: executing a `mine` or a `finalize` is
the step of `BlockRelay`, a new transaction is a step of the source, everything
else is a stutter. `RelayInv` was checked by TLC on the `relay_safety` instance
first. Liveness is model-checked only.

## The answers of the contracts (`AbiCodec`)

Every value that `PortalRelay` reads has come as hexadecimal text and through
`decode`, every argument has gone through `encode`. `AbiCodec` has the encoder,
the decoder, the type checks and the conversions of text, function by function.
A request is encoded (`Call`); or a contract answers, whole, cut after any word
or with nothing (`Answer`, external: it uses an encoder written from the ABI,
`AbiEncode`), and the answer is decoded with any of the layouts (`ReadAnswer`)
or as the address at its end (`ReadAddress`). A decoder's outcome is a value, an
error or a panic. A count of more than `MaxElements` elements panics, as
`Vec::with_capacity` does when there is no memory for them (`decoder.rs:161`).

Words have `WordBytes` bytes (32 in the code), of which the last `CountBytes`
(4) may hold a count or an offset; an address has `AddressBytes` (20). The run
has words of two bytes, so that bytes of 0 to 3 give no word, less than one and
more than one, and 8 layouts: those of the portal's methods in small, and the
nestings of the codec's tests. `take_bytes` rounds up in a `usize`, which has 32
bits in a WebAssembly runtime and wraps in the release profile: so it does in
the model.

| `abi_codec` checks | |
|---|---|
| `CallIsCompliant` | a request is what the ABI says, offsets and padding included |
| `AnswerIsRead` | a whole answer, read with its layout, gives back its values |
| `ShortIsNeverMisread` | a cut answer gives an error, a panic or the right values, never others |
| `AnswerFitsLayout` | whatever is decoded, with whatever layout, has the layout asked for |

`CallIsCompliant` leaves out static tuples with a part of more than one word:
`head_len` (`encoder.rs:57`) counts the parts of a tuple, not their words, and
the offsets after it are too small. TLC finds this at once without the
exclusion. The portal's own calls encode dynamic tuples only
(`quantum_portal_client.rs:618`). A panic on a short answer is real:
`decode_address_response` slices before it looks at the length
(`chain_utils.rs:161`), and what a panic does to the node is `service_panic`.

The conversions of text are a module of their own, `HexText`, which `HexTextProofs`
is about, for byte strings and addresses of any length: `HexRoundTrip`
(`hex_to_bytes` gives back what `bytes_to_hex` and `hex_add_0x` made),
`AddressIsRead` (an answer with at least the bytes of an address gives the last of
them) and `ShortAddressPanics` (one with fewer never passes for an address; one
byte short it has as many characters as an address has digits, and only the x of
its 0x is not one). The encoder and the decoder are recursive over nested kinds:
what they compute is for TLC.

## The runtime (`Runtime`)

`Runtime` composes the ERC-20 precompile (`Erc20Precompile`), the pauser
(`TransactionPauser`), fees and blocks over one book of balances (`Balances`:
pallet_balances, external).

| State | Code |
|---|---|
| `book` | free balances and total issuance |
| `approves`, `nonces` | `ApprovesStorage`, `NoncesStorage` |
| `evm` | the call being executed, with the storage to go back to |
| `moment`, `author` | pallet_timestamp, pallet_authorship |
| `payment` | the fee that is withdrawn and not yet dealt with |
| `paused` | `PausedTransactions` |

Nothing runs in parallel in a runtime; what can go wrong is a call that fails
half-way, and an account that changes between two steps. A precompile call is
one action per write, and `Revert` may follow each. An extrinsic pays
(`WithdrawFee`), does something or fails, and then `DepositFee` returns the
rest to whatever has become of the payer and gives the fee to `DealWithFees`.
Permits are records of what was signed; a signature is good for exactly its
record, with the nonce and the domain in it.

`Erc20` is the promise: balances, allowances, nonces and time, one step per call,
and what each call may change. `runtime_safety` checks that `Runtime` implements
it (`ImplementsErc20`), that every unit of the issuance is in an account or in the
fee being dealt with (`SupplyIsBalances`), and the types, among them that an
allowance fits a balance (`RuntimeTypeOK`). Of the pauser the model has the list
and the two calls that change it; the filters that ask the list change nothing,
and no runtime installs them.

Bounds: two users and the precompile's account; a supply of 4 with an existential
deposit of 2, so that every account can be reaped, left with dust or refused;
values 1, 2 and one above `MaxBalance`; odd fees, with and without a tip and a
refund; permits for nonces 0 and 1, and one for another domain; two ticks a
second, of which two pass. The two domains, both kinds of author and each way of
failing occur. The fees of EVM transactions (which pallet_evm burns) and gas are
left out; so are calls that fail before they write anything, and events.

No fairness is assumed of the runtime, the codec or the calls they serve: no
property of theirs is a liveness property.

### Proofs (`RuntimeProofs`)

For any finite set of accounts, and any existential deposit, values, permits, fees
and call names: `RuntimeTypeCorrect`, `SupplyIsBalancesHolds` and
`RuntimeImplementsErc20`.

The invariant is `RuntimeInv`. Two parts of it carry the argument.

- `Sound`: the issuance is the sum of all balances and the fee in flight, *and* no
  account has dust. The second half is needed: `deposit_into_existing` refunds an
  account that has anything, and a transfer reckons with a sender that exists.
- `Stands`: what a call that is running has done so far, relative to the storage
  it started from. Before `transferFrom` dispatches, only the allowance is lower;
  before `permit` approves, only the nonce is higher; when all is written, the
  whole is one step of `Erc20` (`Did`). So `Return` maps to that step, `Revert` and
  every write to a stutter.

The sum of all balances is `SumFunction` of the community modules. `DataLemmas`
proves what a change of one value does to it, by looking at a least set of
indices for which it would fail: the library's induction theorems cannot be used
here, their statement for a least number can.

Assumptions: accounts are finite in number; the genesis book has no dust and its
issuance is the sum of its balances (pallet_balances refuses any other genesis);
the withdrawn amount covers fee and tip (`pallet_transaction_payment` computes all
three from one length and weight).

## Where the code and its documentation differ

Besides the six violations above, modelling met these. The models follow the
code; where `PortalRelay` does not, it is said.

- Every miner sends: the answer of `get_miner_for_block` is not used
  (`quantum_portal_client.rs:858`), while `docs/docs/learn/quantum-portal.md:19` has
  miners take turns.
- `finalize` reads the source block from the chain the block was mined on
  (`quantum_portal_client.rs:766`), where the transactions of the way back are, and
  would find a good block invalid. It returns Err one line before.
- Only the newest mined block is compared with a source, and finalizing it
  finalizes the older ones (`quantum_portal_client.rs:765`).
- Signatures are kept without their destination chain (line 771), and only the
  first 64 bytes of them are posted (line 353).
- The node's own signature is an unsigned extrinsic (line 303), which the
  runtime refuses; `CreateFinalizeTransaction` therefore changes nothing.
- The precompile registers and removes its caller, not the finalizer it is
  given.
- One pending slot serves all pairs with the same local chain
  (`quantum_portal_service.rs:156`), while its comment speaks of a pair.
- `create_mine_transaction` names the method of a transaction `bytes`
  (`quantum_portal_client.rs:606`) and encodes a `bytes[]` of one (line 625);
  answers are asked for with a `bytes[]` (line 95) and read as `bytes` (line 144).
  Nothing of this is reached with the shipped layouts; the repaired ones of
  `PortalRelay` have bytes throughout.
- The comment of `DealWithFees` gives half of the fees to the treasury
  (`runtime/testnet/src/impls.rs:27`); the line that would do so is commented out,
  and the half is burned. Without an author the other half is, too.
- `deposit` "returns funds to sender" (`precompiles/balances-erc20/ERC20.sol:102`).
  A caller left with less than the existential deposit while the precompile has
  the funds loses that rest.
- `approve` and `permit` store at most the largest balance and log the value
  they were given.
- No runtime installs `FerrumCallFilter` (`runtime/testnet/src/lib.rs:294` has
  `BaseCallFilter = ()`), and the models take it that every call is let through:
  pausing refuses nothing.

## What is proved, what is only checked

Every safety property and both kinds of refinement that the service, the registry,
the relay and the runtime are checked for is also proved, for all constants. The
following stay with TLC:

- liveness (`RecordIsCleared`, `PairsKeepBeingProcessed`): fairness and ENABLED are out of the prover's reach;
- the ABI codec's properties: they need induction over nested tokens, and its
  operators are RECURSIVE, which the prover's backends do not take;
- the violations, which are counterexamples.

## Not modelled

- The HTTP and JSON layers: text in, text out. What they do to the portal is
  modelled: a request fails, or its answer is lost or late.
- Hashing, signing and RLP are library calls; the models say what a hash or a
  signature binds.
- Account nonces and gas. The nonce is read at "latest"
  (`contract_client.rs:308`), which is right as long as one transaction per chain
  is outstanding (`OneOutstanding`).
- The node's wiring and the XCM and pallet configuration of the runtimes: they
  only choose library code. `node/src/service.rs:359` starts the offchain workers
  with `enable_http_requests: false`; the models assume that requests are
  possible.
- The XCM primitives: types and one conversion, which nothing calls.
- The ink contracts forward cross-VM calls, and no runtime here can run them.
- Reorganisations of the remote chains, which the code does not handle, and
  `post_finalizer_transaction`, which nothing calls.
- The documentation site's search scripts (third-party JavaScript, by lines most
  of the JavaScript in the repository), the example scripts and `utils`.
