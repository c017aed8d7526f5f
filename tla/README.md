# A verification project for caminojs

caminojs is the client library of the Camino network. Wallets and services use it
to keep keys, to read UTXOs from a node, to select coins, to build and sign
transactions, and to issue them. It is TypeScript and runs in one thread. What is
hard in it is

- accounting: coin selection and the builders divide tokens, with locks on some of
  them, between destinations, change and burn;
- the evaluation of nested multi-signature aliases, with a hand-written stack and a
  rollback, and the agreement between the owners a builder attaches and the
  credentials a transaction has to be signed with;
- promises: a call to a node is an `await` at which other calls of the application
  run and change the client, the URL, the registry of networks or the local store;
- state kept between calls: caches, the store of UTXOs, the index of a UTXO set.

Paths below are relative to `src/` of the repository, so that
`src/common/utxos.ts` is that file of the library.

## 1. Inventory

| component | state | operations | interacts by | what is hard | what makes it correct |
|---|---|---|---|---|---|
| **Multisig keychain** `src/common/multisigkeychain.ts` | keys, alias map, owners of the inputs, `sigIdxs`; stack, counters and selection of the walk | `addKey`, `removeKey`, `buildSignatureIndices`, `getCredentials` | is made of the owners a builder attached; a transaction's `sign()` takes its credentials | rollback of a failed alias, cycles, a failing call after part of the result is there, keys that go between build and use | what is accepted satisfies every nested threshold and spares no signature; a refusal is justified |
| **Coin selection of the P-chain** `src/common/assetamount.ts`, `src/apis/platformvm/utxos.ts` | accumulators per asset, the UTXOs not visited, inputs, outputs | `addAssetAmount`, `spendAmount`, `getMinimumSpendable` | is called by the builder | the last UTXO makes the change, which may be locked; locks that end at the time of the call; two modes | tokens under a lock go back under it; amount, change and burn add up; no spare input |
| **P-chain builder** `src/apis/platformvm/builder.ts`, `spender.ts` | arguments, the spender's answer, the transaction with its owners | 18 build functions and `sign()` | asks the UTXO set, or in Camino the node, for funds | the same ten lines copied per function; fees in one or two assets; imports that pay part of the fee; owners in the order of signatures | the transaction burns its fee; the named amount arrives; one owner per credential, in order |
| **Client and network settings** `src/index.ts`, `src/camino.ts`, `src/utils/networks.ts` | URL, network id, network, the APIs, the registry shared by all clients | `setNetwork`, `fetchNetworkSettings`, `setupAPIs` | awaits up to two answers of a node | overlapping calls, failures after half of the APIs were replaced, a registry written after an await | the network in use is that of the node; predefined networks are never replaced; APIs fit the network |
| **UTXO sets and persistence** `src/common/utxos.ts`, `apibase.ts`, `output.ts`, `getUTXOs` of both APIs | UTXOs and their index by address, the local store by base URL | `add`, `remove`, `filter`, `merge...`, `getBalance`, `getUTXOs`, `setBaseURL` | the store is shared by API objects and survives them | the index beside the set, reads and writes of the store after an await, encodings | index and set agree; what the node answers is returned; a balance is what can be spent |
| **Inputs, outputs, credentials, transactions** `src/common/{input,output,credentials,tx,evmtx}.ts` and per chain | the fields of an object | `toBuffer`, `fromBuffer`, `serialize`, `deserialize`, `sign` | everything builds on them; objects are passed on as bytes or JSON between programs | every class is written and read by two functions; lists are sorted in place while they are written; readers of used objects; signing after any of this | what is read is what was written; what is signed is what is sent, with the credentials in the order of its inputs |
| **X-chain builder** `src/apis/avm/{utxos,ops,initialstates,minterset}.ts` | the UTXO set, the caller's `InitialStates` | base, export, import, create asset, mint, create NFT asset, mint NFT, transfer NFT | X-chain API; shared memory with the C-chain | fees paid by imports, by other UTXOs or by both; operation objects shared or used again; thresholds and locks | no token is lost or made; the network accepts it; what was asked for arrives |
| **C-chain builder** `src/apis/evm/{utxos,importtx,exporttx,api}.ts` | the account's nonce and balance, as given | import to an address, export from UTXOs, export from a balance | the shared memory, the node | the fee is taken from imported amounts; the inputs are sorted after their owners were listed | as above; owners in the order of the inputs |
| **Build wrappers of the APIs** `src/apis/{platformvm,avm,evm}/api.ts` | cached asset id, fees, stake, alias; the base URL | 18 + 8 + 3 build functions, `issueTx`, getters with caches | client, network, node; calls overlap at each await | caches filled by calls for the network before; a URL changed during a request; checks whose error is lost | one call is about one network; no Goose Egg is returned; a request goes to its chain |
| Requests and API base classes `src/common/jrpcapi.ts`, `restapi.ts`, `apibase.ts` | request id, base URL | `callMethod`, `setBaseURL` | all APIs extend them | a request that fails | a failure changes nothing but what the caller did before it |
| Keychains `src/common/{keychain,secp256k1}.ts` | address to key | add, remove, clone, union, sign | `sign()` | copies of a keychain | a copy has the keys |
| Node service APIs (admin, auth, health, index, info, keystore, metrics) | none | one request each | node | - | - |
| Socket and subscriptions | none | messages | node | - | - |
| Utilities `src/utils/*` | none | conversions, key derivation | - | - | conversions are inverse |

`PROJECT.json` lists the same components with what is modelled of each, and the
hazards, each at its line.

## 2. Modules

### Multisig keychain

`MultisigKeyChain` is `_traverseOwner` iteration by iteration: a frame of its
`stack` is a record (`index`, `verified`, `addrVerifiedTotal`, `parentVerified`,
`owners`), `selected`, `addrVisited`, `addrVerified` and `cycleCheck` are the
locals of that name. Visiting an address selects or skips it (`SelectSignature`,
`SkipAddress`), visiting an alias pushes a frame (`PushAlias`), and a frame that is
exhausted is counted in the one below (`AliasMet`), rolled back (`AliasUnmet`), or
ends the owner (`OwnerMet`, `OwnerUnmet`). The three errors release the locals and
leave `sigIdxs` as it is, which is what the code does. Keys are added and removed
between two calls only: the walk is synchronous. Addresses are numbers, since the
code sorts them; `MaxSignatures` is a constant.

`MultisigPromise` says what a caller may expect, with the recursive reading of
nested thresholds and without stack, counter or rollback: a call returns one exact
selection for each owner, or refuses for a stated reason.

### Coin selection

`AssetAmount` is the accumulator: operators on a record with the fields of the
class. `PlatformSpend` is `getMinimumSpendable`: the selection loop
(`SkipUtxo`, `SpendUtxo`, in the order the code sorts the UTXOs in), then per asset
the loop over locked outputs (`RelockOutput`) and the unlocked ones
(`UnlockedOutputs`). Outputs are kept as amounts: a UTXO gives rise to at most one
relocked output and one locked change output, an asset to at most one change and
one destination output.

`SpendContract` is what a builder may rely on (`Honours`), `SpendPromise` the call
as one step that keeps the contract or refuses. `PlatformSpend` is shown to
implement `SpendPromise`; `PlatformBuilder` is built on the same `Honours`. This is
how the two are composed: the builder is checked against any answer the contract
allows, and not against one algorithm, since in Camino the answer comes from the
node.

### P-chain builder

`PlatformBuilder`: a call goes through `Build...` (the function up to its await:
the checks, and the amounts asked for), `SpenderAnswers` or `SpenderRefuses`, then
`Finish...` (what comes after the await: inputs, outputs, and owners), and
`SignWithKeys` or `SignWithOwners`. Outputs are totals per asset; an owner is what
it owns, its number of addresses and its threshold. The functions that differ only
in the class of transaction they make share an action.

### Client and network settings

`NetworkSettings`: each call of `fetchNetworkSettings` is a member of `Fetch` with a
state (`configuring`, `identifying`, `pricing` are its awaits) and its locals. A
request goes to the node of the URL at the moment it is made (`asked`), and its
answer is that node's, whatever the URL is by then. A `Network` is where its
configuration and its fees come from; an API is the network it was made for.
`SetNetwork` may come in at any moment; a call whose answer is awaited then is
`overtaken`, and the history variable `late` says whether such a call has gone on
with an answer.

### UTXO sets and persistence

`UtxoSet` has the operations of `StandardUTXOSet` as operators from set to set,
with the index `addressUTXOs` as a function whose domain only grows. `UtxoStore` has
the calls of `getUTXOs` (`GetUTXOs` up to the await, `AnswerArrives` or
`RequestFails` after it), the store by namespace, `SetBaseURL`, and a wallet on
which the application uses the operators. A list of UTXOs is its ids and its
encoding: what `addArray` makes of strings depends on it (`Parsed`, `Converted`).

### Inputs, outputs, credentials and transactions

`Wire` has the vocabulary: a class is described by its parts, in the order in which
`toBuffer` concatenates them (a value of so many bytes, an object, an object behind
its type id, a list with its count, an optional upgrade version), by how its reader
differs, if it does, by what its JSON carries, and by what `sign` asks it for.
`CommonObjects`, `PlatformObjects`, `PlatformTxs`, `AvmObjects` and `EvmObjects`
describe the classes of the source in this vocabulary, each from its own two
functions. `Codec` gives the descriptions their meaning: `Put` is `toBuffer`,
`FromBuffer` and `Restored` are `fromBuffer` and `deserialize`, `Arranged` is what
`toBuffer` does to the object it writes (lists are sorted in place), `Credentials`
what `sign` makes. Bytes are tokens, one for each value of fixed width, and a reader
that arrives between two values, or finds one of another width, fails: an offset
that is wrong by any number of bytes is noticed, the value of a byte is not modelled.
The one value that is converted is the delegation fee, a double written as an integer
(`Rate`, `WrittenRate`): which ten-thousandths lose a unit is a constant (`LosesUnit`).

`TxRelay` follows one object: `Sign`, `SignMultisig`, `ToBuffer`, `FromBuffer1`,
`FromBufferUsed` (into an object that held something else), `Deserialize`, in any
order.

### X- and C-chain wallet

`CoinSelection` is `getMinimumSpendable` of the X- and the C-chain (the same text
twice) and the choice of spenders and signature indices; `AvmBuilder` and
`EvmBuilder` are the build functions, each an operator from a sequence of UTXOs, the
arguments, and the time to a transaction, or to `Failed` or `Undefined`. `Failed` is
a throw. `AtomicWallet` is a wallet that calls them: one action per function, on the
set of UTXOs that it fetched last, in the order the node gave them, and then `Accept`
or `Refuse` by the chains, which are external: they check existence, signatures,
locks, owners, nonce and sums, as any UTXO chain does, and the accepted
transaction's outputs become UTXOs, under ids that have never been used (`lastId`).
Exports go to the shared memory and are imported on the other side. Whatever the
wallet holds is a stale copy until it fetches again: `utxoset` changes in
`FetchUTXOs` only.

### Build wrappers

`ApiCalls` writes each function of `api.ts` that builds or sends a transaction as its
sequence of steps (`PBuildImportTx == <<"Args", "Check", "Utxos", ...>>`), in the
order of the source. `Begin` is a step up to its first await, `Complete` what it does
with the answer; `Call`, `Resume` and `AnswerFails` run a call from await to await.
Values are known by the network they come from. `SetNetwork` and
`FetchNetworkSettings` are the transitions of `NetworkSettings` reduced to what a
call can see of them. Objects that were replaced are still in the hands of callers
and of calls in flight.

### Model values and instances

`MC...` modules give the constants values, and hold the properties that need a
recursive definition or another module with one. `RECURSIVE` operators are only in
modules without theorems. `..._proofs` modules hold the theorems about the module of
that name; sums are `SumFunctionOnSet` of the community modules, about which
`SumTheorems` has the lemmas, with those about sequences. In `CoinSelection`, `EvmBuilder` and `AtomicWallet`
filters and sorts are written with `FlattenSeq` and a chosen permutation, which the
prover can unfold; it cannot unfold `SelectSeq` and `SortSeq`.

## 3. Runs

Deadlock is checked where the system always has a next step (the keychain); in the
others a call ends, and the `.cfg` says so.

| run | instance | distinct states | shows |
|---|---|---|---|
| `multisig_walk` | owners of 1 or 2 of 4 addresses with every threshold, up to 2 aliases of them, which may refer to themselves and to each other; and an alias of 3 beside another or nested in it, under two owners; and a circle of three; `MaxSignatures` 3, 3 keys that come and go | 1 264 997 | the counters agree with the selection at every step, rolled back or not; nothing is added below a satisfied level; an accepted selection is exact (`BuiltIsExact`), a refusal justified; the walk implements `MultisigPromise`, and ends, over cycles too; credentials taken later are signed |
| `platform_spend` | every set of 4 UTXOs out of 9 kinds (unlocked, locks that ended, end now, end later, not spendable, without an amount, of another asset), 4 requests, both modes | 398 565 | locked tokens are relocked, burn and amount are exact but for what locked tokens pay of the burn, no input is superfluous, the longest lock goes first; the call keeps `SpendPromise` |
| `platform_builder` | every build function with fees 0 to 3, one or two assets, import lists in and out of the order of their bytes, claims with faults, with and without Camino, any answer of the contract | 2 056 | what is burned is the fee; the named amount arrives; owners follow the signatures, in the order of the serialised inputs and imports |
| `network_settings` | 3 nodes of 3 networks, one predefined, one node without `getConfiguration`; 3 fetches, 2 changes of the network at any time | 2 035 396 | network and registry are right until an overtaken call goes on with an answer; the APIs agree with the network |
| `utxo_store` | 3 UTXOs (shared by two, under a lock, without an amount), 2 clients, 2 URLs, 2 calls in cb58 or in hex | 312 268 | index and set agree; what the node answers is returned, unless it is hex to be merged; a balance is what can be spent |
| `tx_relay` | three samples of every class, transactions also wrapped as unsigned ones and in both codecs of the X-chain; two steps of six kinds | 3 437 | what is read has the bytes that were written, also by a used object; JSON keeps bytes and signers; signatures are for what is sent, in its order; the bytes do not depend on the order in which an object was put together; `getBurn` is what leaves |
| `atomic_wallet` | three transactions, seven UTXOs at first (1 of 1, 2 of 2, 1 of 2 with another asset, mint, NFT, two kinds of NFT mint outputs), 52 calls of the eleven builders, locks that end before, at and after two moments | 275 077 | no token appears or disappears but what is minted and burned; the chain accepts what is built; the amount arrives where it was sent; a refusal is justified |
| `api_calls` | two calls of any two functions of one API, eight things that may be wrong with one of them, two networks with and without bonds, any request may fail, two changes of the network | 868 984 | a call that was not overtaken by `setNetwork` has everything from its network; no Goose Egg is returned; requests go to their chain |

Four runs show where the code does something else than its comments say
(`findings` in `PROJECT.json`):

| run | property | what happens |
|---|---|---|
| `multisig_diamond` | `CyclicMeansCycle` | an alias that is referred to twice is rejected as cyclic although the keys satisfy the owner: `cycleCheck` is not cleared when a level is popped |
| `network_overtaken` | `CurrentNetwork` | `setNetwork` while an answer is awaited: the client of the new URL has the settings of the old node; the registry, which all clients share, may have them under the new id (`src/index.ts:215`) |
| `utxo_hex` | `AnswerIsReturned` | with hex, the default, and a list in the store, the node's answer is dropped |
| `tx_decode` | `SignedCanBeRead` | a signed transaction of the P-chain that claims a reward, adds a validator in Camino, or carries an upgraded proposal or vote cannot be read from its bytes; three classes are not known to the reader at all |

### Other places where the code departs from its comments

Found while modelling. They are exceptions of the properties named, or, where no
property speaks of them, only described here.

- The outputs of an import are replaced by the change of the fee's inputs when the
  sender pays part of the fee (`platformvm/builder.ts:339`, although the comment at
  line 301 says that imports are kept): imported tokens of other assets are burned
  (`DropsImports` in `PlatformBuilder`). The X-chain has the same lines
  (`avm/utxos.ts:1011`; `Burns` in `AtomicWallet`).
- `MultisigAliasTx.sign` reads signature indices as lists of them and throws
  (`SignWithKeys` of `PlatformBuilder`; the signer "nobody" in `PlatformTxs`).
- Replacing a node by a consortium member who is a multisig alias pushes an owner of
  nobody (`platformvm/builder.ts:1217`, "single or multi-sig").
- A deposit with owners of its offer takes their number from an index
  (`platformvm/builder.ts:1404`).
- `MultisigKeyChain.clone` writes into an empty array and throws
  (`multisigkeychain.ts:150`); an owner after the last input throws at line 173.
- In Stake mode tokens under a lock count towards amount and burn alike
  (`platformvm/utxos.ts:423`) and are all put back under their locks: if they cover the
  burn too, `unlockedAmount` is negative, and less is burned than "must be burn"
  (`platformvm/utxos.ts:567-573`; `BurnFallsShortByLocks`).
- `buildImportTx` sets owners only when a fee is left to be paid, and those of the
  imports come in the order given, not that of the bytes (`platformvm/builder.ts:341-360`;
  `basetx.ts:76` says "The outputOwners of inputs, one per input"; `HasItsOwners`). The
  import of the C-chain sorts its inputs after it has listed their owners
  (`evm/utxos.ts:419`, `common/evmtx.ts:87`; `Excepted` in `AtomicWallet`).
- A delegation fee is written times 10000 without its fraction: 0.0003 arrives as 0.0002
  (`platformvm/validationtx.ts:472`, although line 508 allows four decimals;
  `WrittenRate`).
- The result of `mergeByRule` is dropped (`platformvm/api.ts:1482`): with any rule the
  store gets what was read from it. `NothingFetchedIsLost` is about what is returned.
- The balance as of a later moment leaves out what is locked now
  (`common/utxos.ts:513`; line 504 says "asOf The timestamp to verify the transaction
  against").
- `buildBaseTx` of the P-chain makes the Goose Egg error and does not throw it
  (`platformvm/api.ts:1610`).
- `getAssetDescription` of the C-chain does not put the base URL back when its request
  fails, and puts back the wrong one when two overlap (`evm/api.ts:138-145`; the comment
  at line 144 says "set base url back what it originally was"). Since `setBaseURL` moves
  the namespace of the store, it may move a store of the X-chain to the C-chain.
- Thresholds other than that of `to` are never handed to outputs (`avm/utxos.ts:346`
  documents one, line 408 leaves it out).
- An `InitialStates` the caller passes in is changed: creating another asset with it
  adds the minters a second time (`avm/utxos.ts:482`).

### Bounds, and why they are enough

- The keychain: an alias in an alias in an owner is the deepest nesting the walk
  distinguishes (a level, the one it is rolled back to, the one that inherits
  satisfaction); two owners show what is left over from one to the next.
  `MaxSignatures` 3 is reached and exceeded. Cycles are of one alias, of two,
  and of three, where the limit is reached before the first one is met again. `RefusalIsJustified` and
  `BuiltIsExact` are checked for thresholds from 1: the constructor of
  `OutputOwners` turns 0 into 1.
- Coin selection: four UTXOs are enough for two locked ones, an unlocked one and one
  left over, in every order. Amounts are such that the total is missed, met and
  exceeded by locked and by unlocked UTXOs. `AsOf` lies between locks that ended, end
  then, and end later.
- The builder: any fee from nothing to more than the imports. The spender's answer is
  any subset of three inputs of two assets that honours the contract.
- Network settings: three fetches let one be refused while a second waits and a third
  finishes; `MaxChanges` is 2: away while an answer is awaited, and back.
- UTXO store: two calls and two clients give every order of two reads and writes of a
  store; a third call would repeat one of them. Symmetry is over clients, URLs and
  calls; no property names one, and none is temporal.
- Objects and their bytes: `Seeds` 3 gives each class three samples in which every field
  has a value of its own, lists have two elements out of order, and optional parts are
  absent and present; `MaxHops` 2 lets every step follow every other. A class is
  described once: the third sample is there for the classes within a list, which vary
  with it (with two, no transaction that exports spends unlocked inputs only).
- The wallet: `MaxTxs` 3 is the length of a way from one chain to the other and back, or
  of minting what was created and sending it. `MaxTime` 2 puts locks before, at and
  after the time of a call. `MaxStates` 3 bounds the outputs of an `InitialStates` that
  is used again. Fees of 0, 1 and 2 are missed, met and exceeded by the imports.
- API calls: two calls make every pair of functions overlap at every await; two networks
  and `MaxSwitches` 2 lead away and back, so that a call may be in flight for the
  network that is current again. The bound of ten AVAX for a Goose Egg is that of the
  source; a transaction burns 1 or 20, with outputs of 30 or none, on networks where a
  new asset costs 0 and 25.

### Exceptions named by the properties

Where the code departs from a rule at a known place, the property says so instead of
being weakened everywhere.

- P-chain builder: `BurnsTheFee` excepts imports that cannot pay their fee
  and bring another asset (`DropsImports`); `AlignedKinds` excepts `AddressState` and
  `UnlockDeposit` (owners of the inputs missing, although `basetx.ts:76` promises one
  per input), deposits with offer owners and `RegisterNode` without a new node;
  `HasItsOwners` excepts imports that pay their own fee (no owners) and imports given
  out of the order of their bytes;
  `AmountGoesWhereItShould` excepts a deposit without a fee, which asks for nothing;
  `NobodySigns` is a call that leaves `subnetAuth` at its default, an owner without
  addresses, which nobody can satisfy.
- Coin selection: `BurnsExactly` speaks of Unlocked mode, since
  in Stake mode locked tokens count towards the burn and can only be staked;
  `BurnFallsShortByLocks` says by how much less is burned.
- Client: `ApisAreBound` excepts clients with a refused fetch; `NetworkIsCurrent` and
  `RegistryIsTrue` hold until a call that `setNetwork` has overtaken goes on with an
  answer (`late`).
- UTXO store: `NothingFetchedIsLost` excepts answers in hex that are merged with a
  stored list (`Unparsed`); `BalanceIsSpendable` speaks of balances as of now.
- Objects: `Unreadable` lists what a reader does not understand (codec 1, which the
  object made by the reader does not know; an upgrade version before the base
  transaction; the offset behind an authorisation that is added twice; more than nine
  feature extensions; classes that `SelectTxClass` does not know; a `StakeableLockIn`;
  a delegation fee that loses a unit when it is written again).
  `Remembers` lists the classes whose readers add to what the object held, and
  `JsonComplete` those whose JSON carries all of them. A C-chain export read from bytes
  has forgotten its signers and is signed by nobody (`SignaturesHold`).
  `CountsAll`: `getBurn` counts no imported and no locked input.
- Wallet: `Excepted` lists a UTXO set that is out of date; an address given twice,
  which counts as two spenders (`output.ts:302`); the export of a C-chain UTXO, which
  has no inputs; one operation for several NFT mint outputs (`avm/utxos.ts:745`);
  operations on UTXOs the senders cannot spend; imports of locked UTXOs, which get no
  signatures; an import of as much as its fee, which credits 0; imports whose inputs
  are sorted when the owners are not (`evm/utxos.ts:419`); calls for outputs to nobody
  or of nothing (`AsksForNothing`); operations without a fee and without a UTXO, which
  consume nothing; and what a caller of an
  export says wrong of nonce, balance or amount. All but the first and the last are
  behaviour of the library, which builds what the network refuses.
- API calls: those that `setNetwork` has overtaken may mix two networks; requests made
  while a description of an asset is in flight, or after one has failed or overlapped
  with another, go astray; `buildBaseTx` of the P-chain is not checked.

## 4. Fairness

Only synchronous code is assumed to be fair: `buildSignatureIndices` and
`getMinimumSpendable` run to their end once called, so the walk has
`WF_vars(Walk)` and the selection `WF_vars(Next)`. A node need not answer and an
application need not call anything: the modules with awaits (`PlatformBuilder`,
`NetworkSettings`, `UtxoStore`, `ApiCalls`), the wallet, and the objects that are
passed on have no fairness, and no liveness is claimed of
them. The only liveness property is `WalkTerminates`, over aliases with cycles. The
abstract specifications have no fairness either.

## 5. Theorems

Checked by the TLA+ proof system for all values of the constants. The assumptions
are those of the modules: sets of values are what their names say, addresses of
owners are in `Address`, a request asks for something of every asset it names
(the builders do not add an asset otherwise), times and limits are natural numbers,
and values like `NoList` are not among the values they stand beside. For the wallet:
calls are of the types their functions have, with one UTXO id where `buildSECPMintTx`
takes one; UTXOs of the genesis have ids of their own and outputs that a chain lets
exist (`SpendableOut`); only outputs that can be transferred have an amount; fees of
the C-chain are paid in AVAX, as `EVMAPI` does it; and `Failed` and `Undefined` are
neither transactions nor selections.

- `MultisigKeyChain_proofs`: `TypeCorrect`, `CountersAlwaysConsistent`,
  `NothingAddedBelowSatisfied`, `CredentialsWellFormed`, `ThresholdNeverExceeded`.
  The inductive invariant is `TypeOK /\ WalkInvariant`. They cannot be separated:
  the rollback restores a snapshot of `addrVerified` and cuts the selection at it,
  which yields a sequence of the right length only because snapshots grow along the
  stack and never exceed the selection (`CountersConsistent`). That nothing is added
  below a satisfied level needs `CoverageInherited`: whoever is below a covered level
  is covered.
- `PlatformSpend_proofs`: `SpendTypeCorrect`, `LockedAlwaysRelocked`,
  `PlainCallBurnsExactly`. The inductive invariant `Inv` has
  the accumulators (`AllAccounted`: no change before the total is reached, then it is
  the excess, and change that is not locked comes from unlocked tokens), the locked
  outputs (`LocksKnown`: distinct UTXOs, visited; locked change comes from the last
  one and is less than its amount), the inputs (`InputsMatch`), that a plain call
  touches no lock (`NothingLockedInPlain`), and what has been produced so far
  (`UnlockedProduced`, `LockedProduced`). Its centre is `SpendAccounted`: the amount
  that reaches the total exceeds the change it leaves, which is why no relocked
  output is empty or negative, as the comment in the code assumes. TLC has checked
  `Inv` on the instance of `platform_spend`.
- In the same module, the promise: `InputsAreNeeded`, `LocksAlwaysHonoured`,
  `RefusalsAreJustified`, `LongestLocksGoFirst`, `BurnShortOnlyByLocks`, and
  `SpendKeepsPromise`, the refinement of `SpendPromise`. To `Inv` it adds `Selection`: each input was needed when it was taken
  (`AllPickedWell`), a usable UTXO is passed over only if its asset is covered
  (`PassedOver`), the accumulators hold what the inputs add up to (`Counted`), the
  longest lock went first so far, and a refusal comes after all UTXOs. The
  refinement maps every step of the loops to a stutter, and the last one to `Keep` or
  `Refuse`; that `Honours` holds there is the sum of what was relocked, sent and
  given back, asset by asset.
- `PlatformBuilder_proofs`: `BuilderBurnsTheFee`, `AmountGoesRight`,
  `OwnersAreAligned`, for all calls, funds and assets, and
  any answer of a spender that keeps the contract. The inductive invariant `BInv`
  follows a call: what was asked for is what is due (`AskOK`: the fee, or what the
  imports leave of it, and the amount), what was answered burns no more and sends no
  less than that, with inputs in the order of their ids (`AnswerOK`), and what is made
  of it balances and is owned by those who sign it, in their order (`TxOK`). One lemma
  per build function shows that it asks for what is due, and one per `Finish...` that
  it makes a transaction which is `TxOK`. The loop over the imports is a fold:
  `ImportFeeFacts` shows that outputs and fee are together what was imported, however
  the fee is spread over the imports.
- `NetworkSettings_proofs`: `TypeCorrect`, `ApisCorrect`, `NetworkCorrect` and
  `RegistryCorrect`, with `setNetwork` at any moment. As long as no overtaken call has
  gone on (`~late`), the inductive invariant says that a pending call which was not
  overtaken asked the node of the URL and that a network known meanwhile is that
  node's (`PendingIsCurrent`), and which networks the registry has (`Registered`);
  `ApisFollow` ties the APIs to the network whatever calls are pending. Without
  `~late` both fail (`network_overtaken` shows the first).
- `UtxoStore_proofs`: `StoreTypeCorrect`, `IndexAlwaysAgrees`,
  `BalancesAreSpendable`, `FetchedIsReturned`. The inductive invariant is
  `TypeOK /\ IndexAgrees`; the lemmas show for each operator of `UtxoSet` that it keeps
  a set sound. A balance is read through the index, so it is exact only because the
  index agrees: what the index finds and the addresses meet is what they can spend
  (`FoundIsSpendable`). For `FetchedIsReturned` the invariant is extended by what
  each finished call has returned: all of the answer, unless it is in hex and there was
  a list to merge it with, in which case it is lost.
- `ApiCalls_proofs`: `TypeCorrect`, `CallsStayOnOneNetwork`, `NoGooseEgg`,
  `RequestsGoToTheirChain`, for all networks, any number of calls, and every program.
  A call runs over several steps at once, which is a fold over the rest of its program:
  `BeginStep` says what one step may do, `RunWalks` carries it through the fold, and
  `CompleteStep` says what an answer does. The inductive invariant `Inv` ties calls to
  objects: a steady call knows only the network of now and is on the newest object
  (`CallFits`), which knows no other network (`NewestIsPure`); a call that awaits has
  what the steps behind it find, and what it awaits is of some network (`Awaits`); and
  an object is at its own URL unless exactly one call describes an asset on it and has
  that URL to put back, or it is adrift (`UrlsFit`). That the last step of a builder
  is the check of its own asset is read off the programs (`Checked`).
- `AtomicWallet_proofs`: `Conservation`, `RefusalsAreJustified`, `AskedArrives`,
  `BuiltIsAccepted`, `StaleUtxosAreTrue`, `TypeCorrect`, for any calls, genesis, assets
  and time: all the invariants of the wallet's run. `Conserved` is not inductive: a
  transaction is built from UTXOs that may be out of date, and accepted later. The inductive invariant adds
  `IdsDistinct` (a UTXO is in one place, once, so that taking it away takes its amount
  once), `IdsKnown` (ids that are new have never been seen, so that an id of a stale
  set is never that of another UTXO), `StaleButTrue` (what was fetched and is still
  there is the same, so that the amount an input claims is the amount the chain takes
  away) and `TxFits` (what has been built spends UTXOs that were fetched, imports what
  is in the shared memory, and its inputs are its outputs and what the call `Burns`).
  From below: `FlatInduction` and `FlatType` (in `SumTheorems`) and `FlatAmount` say what
  is put together of sequences; `Removed`, `WithoutAmount` and `NewAre` what the chains hold after
  some UTXOs are taken away and others are put in; `SelectionSettles`, by a loop
  invariant over the fold of `getMinimumSpendable`, that inputs are outputs, change and
  burn; `FeePaidIs` and `KeptAll` that the loop of `buildImportTx` keeps all but the
  fee, in whatever order the UTXOs come; one lemma per build function (`BaseFits`,
  `ImportFits`, `EvmImportFits`, ...) that its result `Fits` the call, or is a failure;
  and `AcceptConserves` that a transaction that fits and is valid moves what it takes.
  What fails and what arrives depends on the call that was made: `BuiltInv` adds
  `BuiltAsCalled`, that the transaction is what the function of the call makes of the
  UTXOs that were fetched. The loop is then read twice more. For what fails: an asset
  is lacking at the end only if all that can be spent of it was visited and taken
  (`OneAskFails`, `RefusalHolds`). For what arrives: at the end each asset has at most
  one output that is sent and one of change, of the amounts asked for (`FlatOne`,
  `OutPiecesAre`, `SelectionDelivers`), and each function adds its own
  (`BaseArrives`, `ImportArrivesX`, `NFTsArrive`, `MintersHave`, ...).
  That what is built is accepted (`NodeAccepts`) needs one thing more of what there is:
  `SoundInv` adds `UtxosSound`, that the UTXOs of both chains and of the shared memory
  can be spent (as many addresses as the threshold, each once, and an amount), that what
  is shared is tokens, and that what waits for the C-chain is in the order of its ids.
  It is inductive because `Valid` asks it of all new outputs, because an export is
  the output that was asked for (`AskedArrives` is used here), and because taking UTXOs
  away keeps the order of the others (`WithoutAscends`). From it: `getSpenders` gives
  exactly the signatures an output asks for when enough senders are among its addresses
  (`Signed`, `SignedOwn`); the loop takes no UTXO twice and none without its
  signatures (`ChosenOpens`); what is new is spendable unless the call asks for an
  output that is not (`NewSpendable`); and a transaction with such parts is `Valid`
  (`ValidFrom`), one lemma per build function (`BaseAccepted`, `EvmImportAccepted`, ...).
- `SumTheorems`: what `SumFunctionOnSet` is for the empty set, one element more or
  less, a union, a part, two functions added, terms numbered in another way, and steps
  that add up to their change. And sequences: their elements, permutations
  that sort, and `FlattenSeq` (`FlatInduction`, `FlatType`). The induction theorems of the library
  take an operator and cannot be used; `SubsetInduction` and `NumberInduction` are
  theirs with a set in the place of the operator, proved from the well-foundedness of
  the strict subset ordering, and carry every sum and fold here.

The type invariants of the modules with proofs are not among the properties of the
runs: they are proved. TLC has checked each inductive invariant on the instance of the
component's run.

Only model-checked: the exactness of the keychain's selections and that its refusals
are justified (they need the recursive reading of thresholds), with the refinement
`ImplementsPromise`; termination (liveness is out of reach
of the prover); and the objects and their bytes (`Codec` is recursive in the nesting of
objects, and recursive operators are out of reach of the prover).

## 6. Not modelled

- Cryptography, and the bytes of keys and signatures: a signature is the address it is
  for, and what it is a signature of. Strings, formatting and logging.
- Bytes below the level of a value: endianness, and lengths that do not fit their width.
- Keychains other than the multisig one: maps from address to key without rules between
  entries; signing is modelled by who signs.
- The serialization of UTXOs and UTXO sets, and of P-chain UTXOs in coin selection.
- Methods of the APIs that send one request and convert its answer; APIs without state;
  the web socket; utilities; examples and tests.
- The checks of the content of proposals and offers.
- HTTP: a request is answered by the node it went to, or fails.
- The network's rules beyond those of `Valid` in `AtomicWallet`.

