# citadel-runtime in TLA+

TLA+ models of the MyCitadel runtime daemon, the TLC runs that check them on
small instances and the proofs, checked by TLAPS, of what matters most for
every instance. `PROJECT.json` maps each definition to the lines it models and
lists runs, variants of the code that break each property, findings, hazards
and theorems.

## 1. The system

`citadeld` (`runtime::Runtime`) is one thread: it takes a request from a ZeroMQ
REP socket, processes it to the end, and sends a reply. It owns two stores,
each held in memory and in one file, and talks to an Electrum server and to an
RGB node. Clients (`client::Client`) are processes of their own which send one
request and block.

| component | state | operations | source |
|---|---|---|---|
| request loop and client | what the daemon serves; a client's outstanding request | receive, process, reply; `Client::request` | `runtime/service.rs`, `runtime/rpc_server.rs`, `client/client.rs` |
| contract storage | contracts by id: invoices, blinding factors, tweaks, operations | add, rename, delete, add_invoice, add_p2c_tweak, register_operation | `storage/file.rs`, `model/contract.rs` |
| contract cache | per contract: coins, asset allocations, used addresses; for all: `mine_info` | update, use and forget an address, next unused index | `cache/file/*.rs` |
| file driver (in both) | data in memory, one file | open, create, load, store | `storage/file.rs`, `cache/file/internal.rs` |
| synchronisation | locals of the handler; it replaces a contract's cache | `Runtime::chain_sync` | `runtime/processor/chain_sync.rs` |
| transfer | locals of the handler; it writes to the cache, the storage and the RGB node | `Runtime::transfer` | `runtime/processor/transfer.rs` |
| invoices and acceptance | in the storage and in the client between two requests | BlindUtxo, AddInvoice, AcceptTransfer, `invoice_create` | `rpc_server.rs`, `client.rs` |
| publication | none: the transaction goes to the network | `FinalizeTransfer` | `runtime/rpc_server.rs` |
| policies | none | scripts and addresses of index ranges | `model/policy.rs` |
| chain API, chain watcher, embedded start-up, configuration, errors, message types | none used by the daemon | – | not modelled, section 8 |

How they interact. Requests are serialised by the one thread, so a handler sees
no other handler's steps. What does change under it is outside: the chain and
the mempool between two Electrum calls, any of the calls and of the file
operations failing, and the process ending. Across requests everything
interleaves: a client operation made of two requests (`invoice_create`,
`address_list`) has other clients' requests between them; a transfer uses what
an earlier sync cached.

What is hard, and what makes each component correct:

* **File driver** – `store` truncates the file and writes it anew, after memory
  was changed. Failures and crashes fall between these steps. An acknowledged
  change must survive; a change that was not acknowledged may go either way;
  a torn file must never be taken for an empty or an older state.
* **Synchronisation** – scripts are searched in batches whose end conditions
  depend on the last used index, on gaps and on the saturating offset. It must
  miss no coin it has to find, bring back no spent one, lose no asset when
  coins are paired with outpoints, and end.
* **Address book** – indexes are chosen as "greatest used plus one" from a set
  that requests, failing stores and restarts shrink and grow; no index may be
  handed out while somebody holds an address of it.
* **Transfer** – reads two views of the cache, adds and subtracts `u64`
  amounts, then writes to three stores in turn, each of which may fail. Bitcoin
  must be conserved, no asset be lost, and nothing be handed out which the
  wallet cannot follow afterwards.
* **A contract's life** – coins are not reserved, publication changes no store,
  deletion leaves the cache, and failed stores and restarts bring back older
  files. Still, no transfer composed after a sync may spend what a published one
  spent, and a sync must find what clients were told to expect: payments to the
  addresses they hold, and the change of their transfers.
* **Invoices** – the blinding of a seal passes through the client before it is
  stored, and is needed when the consignment arrives, perhaps much later.
* **Request loop** – a client has no timeout, so every request must be answered
  or be known to be lost, and none may run twice.

## 2. Plan: modules, order, composition

Written, in this order (the wallet's money first, then what it rests on, then
the composition):

| module | models | composed with |
|---|---|---|
| `CoinSearch` | abstract: what a sync promises to the rest of the daemon | implemented by `ChainSync`, relied on by `Wallet` |
| `ChainSync`, `MCChainSync` | one contract's sync against a moving chain | refines `CoinSearch`; the store's failure is `FileDriver`'s |
| `DurableStore` | abstract: what a file driver promises | implemented by `FileDriver`, relied on by the others |
| `FileDriver` | both file drivers, every file operation a step | refines `DurableStore` |
| `AddressBook` | used addresses and the requests on them | stores with `DurableStore!Outcomes` and refines it; implemented by `Wallet` |
| `Transfer`, `MCTransfer` | `Runtime::transfer` over cache, storage and RGB node | stores likewise, in two files, and refines it for each; change index as `AddressBook` shows |
| `Wallet`, `MCWallet` | one contract's life: addresses, syncs, transfers, publication, deletion, over cache, storage, files and chain | syncs with `CoinSearch!Finds`; refines `AddressBook` and `CoinSearch` |
| `Invoices` | contracts, `invoice_create` in two requests, acceptance | stores likewise |
| `Server` | request loop, clients, panics, restarts | the handlers are the other modules |

`*_proofs` modules hold the theorems, `SumTheorems` those about sums over finite
sets on which two of them rest. The two abstract modules cut the system
where its parts meet: `ChainSync` has every Electrum call and lookup depth and
no other request, `Wallet` has all requests of a contract and takes from the
sync only the sets of outputs `CoinSearch!Finds` allows.

What could follow: amounts in `Wallet`, that is an abstract ledger (what the
contract owns, what it has promised) which `Wallet` and `Transfer` implement
together; several contracts of one policy's keys; an abstract server (each
request answered once) that `Server` implements.

## 3. How the models correspond to the code

**ChainSync.** `Start` is the head of `chain_sync` (last used derivation, first
batch of tweaked scripts); `List` is `batch_script_list_unspent`; `Resolve` and
`MerkleFails` are one turn of the loop over the batch's map, with
`transaction_get_merkle` succeeding or failing; `NextBatch`/`StopSearch` are the
loop's end conditions and `checked_add(..).unwrap_or(largest)`; `Update` pairs
coins with the assets of outpoints by position (`zip`) and replaces the cache;
`Fail` is every `?`. `conf`, `tip`, `spent` are the chain as Electrum reports it
(external): blocks, broadcasts, spends and replaced blocks come between any two
of these steps. Outputs may pay to native, nested and tweaked scripts and hold
several assets; `assets` is the cache's map from asset to coins. `steady`, `seen`
and `skipped` are history variables: outputs mined and unspent since the sync
began, at any moment of it, and those whose look-up failed.

**CoinSearch.** A sync `Begin`s, may `Skip` outputs, and ends in `Finish`, with a
set that `Finds` allows, or in `Fail`. `Due` outputs have to be found: known
tweaked scripts, and native scripts up to the last used index, below the largest
one. `Derivable` ones may be: any native script, never a nested one. `Serve` is any
other request: not while a sync is under way. `Stop` and `Start` are the daemon's.

**FileDriver / DurableStore.** `Open`, `Create`, `Load` are `with`; `Begin`
changes memory; `Truncate` and `Write` are `set_len(0)` and the serialisation;
`StoreFails` is an error of either, `Stop` the end of the process anywhere. A
file that is empty or partly written is `Torn`: it does not parse.
`DurableStore` is the promise: an operation changes the view and stores it, as one
step; the durable value is then the new view if the operation was acknowledged,
else the old value or nothing readable (`Outcomes`, which the other modules use for
their stores). A driver's operation takes several steps; in the refinement it takes
place at the last one, when it answers or fails, and until then memory and file
are seen as they were before it (history variable `before`). Stores of contracts
and caches are abstract sets of entries here; the other modules give them meaning.

**AddressBook.** `NextAddress` and `AddressAt` are the request with and without
an index (`mark_used`), `UnuseAddress` the request that forgets an address,
`ChangeAddress` the one place where a transfer takes one, `StoreAgain` the end of a
sync, which stores the whole cache. `NextUnused` is
`max().checked_inc().unwrap_or_default()`. Without `mark_used` nothing changes,
so there is no action for it, nor for the refusal of an address that is there with another
index (`WrongDerivation`), which changes nothing and which no derived address meets.

**Transfer.** `Compose` is everything that only reads: selection (`Picks`), the
first coin left over, the two changes, and every refusal before the change
address. A transfer to a PSBT panics there (`unimplemented!()`, line 188) and is, with all
other panics, `Stop`. Then one action per step that leaves memory: `TakeChange`, `Connect`,
`RgbTransfer`, `AddTweak`, `Enclose`, `Register`; `Fail` is an error of Electrum
or the RGB node. Amounts wrap modulo `Word`, as in a release build (the manifest sets no
overflow checks; in a debug build such an addition panics, which is `Stop`).
Selection is stated as the set of outcomes of sorting, reversing and taking
until the target is met, equal coins in any order (they come from a HashSet).

**Wallet.** `coins` and `used` are the contract's cache, `exists` and `tweaks` its
storage, `cacheDisk` and `storeDisk` the two files. `CreateContract`,
`DeleteContract`, `NextAddress`, `UnuseAddress` and `FinalizeTransfer` are the requests
of those names; `StoreContractAgain` is any request that stores the storage and
leaves this state alone (RenameContract, AddInvoice). ComposeTransfer is two
steps, `ComposeTransfer` (selection and change index) and `RecordTransfer` (tweak and
record), with `TransferFails` between them: the order of the steps in between is
`Transfer`'s. SyncContract is `SyncStart`, `SyncSkips` and one of `SyncEnds`
(`Driver::update`) and `SyncFails`; blocks and broadcasts come in between. The chain
(external) has outputs that are broadcast, mined and spent: `Deposit` pays an
address a client holds, `Broadcast` is a node's acceptance of a transaction whose
inputs are there and unspent, `PublishElsewhere` the same through another node
while the daemon syncs. Amounts are left out: a transfer spends any non-empty set of
cached coins. A transfer knows what was `settled` when it was composed: the
published transfers whose inputs no longer were mature when the last acknowledged
sync began.

**Invoices.** A secret stands for one call of `invoice_create`. `BlindUtxo` and
`AddInvoice` are its two requests; anything may happen between them. `Note` is
the loop of AddInvoice over its contracts, in key order, one store each, ended by
the first unknown contract or failing store. `AcceptTransfer` reveals what any
contract knows of the consignment's seals; the RGB node's `accept` takes it in with that or
fails, and the same consignment may come again. `Create`, `Rename`, `Delete` are the
storage's operations; `Sync` only says whether a contract has a coin to blind.

**Server.** Requests are classified by what becomes of them: served (with success
or an error), not parsed, endless (a sync with depth 0), unimplemented (a
panic: signers, identities, an asset transfer to a PSBT). `End` is common to panics, socket errors and kills; which of the queued
requests survive is ZeroMQ's choice.

## 4. Runs

| run | bounds | shows |
|---|---|---|
| `chain_sync` | 4 outputs in 2 transactions, one on a tweaked and one on a nested script; 2 assets; indexes 0–2; depths 0 and 3; height 2 | `TypeOK`, `SearchIsComplete`, `NoSpentCoins`, `AssetTotal`, `CoinsAreLocated`, `ZeroDepthNeverUpdates`, refinement of `CoinSearch` |
| `chain_sync_reorg` | 2 outputs, indexes 0–2, depth 1, one replaced block, a fair handler | `SearchIsComplete`, `NoSpentCoins` with the tip replaced in mid-sync; `SyncAdvances`: each step of a sync ends it or leaves less to do; `SyncReplies`: the sync ends |
| `chain_sync_asset_free` | as `chain_sync`, depth 1 | **violated**: a coin offered for bitcoin holds an asset |
| `file_driver` | 3 entries | `TypeOK`, `AcknowledgedIsKept`, `FileIsCurrent`, refinement of `DurableStore` |
| `address_book` | indexes 0–2, native and nested | `TypeOK`, `FreshIndex`, `GivenIsUsed`, refinement of `DurableStore` (`BookIsStored`) |
| `transfer` | 5 coins, one transfer, amounts up to the type's limit and sums beyond it (Word 32) | `BitcoinConserved`, `AssetChangeIsSealed`, `FewestCoins` |
| `transfer_stores` | 2 coins, two transfers | `TypeOK`, `HandedOutIsRecorded`, `OneChangePerIndex`, refinement of `DurableStore` by both files (`FilesKeepUp`) |
| `wallet` | indexes 0–2, of which 0 and 1 are used; 2 payments or transfers; 1 failed store or look-up; 1 coin to begin with | `TypeOK`, `NoCoinIsSpentTwice`, `ClientsCoinsAreFound`, refinement of `AddressBook` and of `CoinSearch` (`SyncsAsPromised`) |
| `transfer_fee` | 2 coins | **violated**: an asset transfer whose fee is not covered is handed out |
| `invoices` | 2 contracts, 2 invoices | `TypeOK`, `AcknowledgedIsListed`, `PaidIsRevealed` |
| `invoices_replaced` | same | **violated**: a contract created again is emptied |
| `server` | 3 clients | `TypeOK`, `RunsOnce`, `Answered` |

Why these bounds are enough for the cases that matter. `chain_sync`: its
outputs are the fewest with two of one transaction, an order of discovery that
differs from outpoint order, a tweaked script, and a nested one that must not be
found; two assets share a coin. With depth 3 the offset saturates at once, with
depth 0 it never moves; depth 1, with a batch for each script and gaps before the
last used index, is in the other two runs. The run with a replaced block keeps two outputs,
since one replaced block already moves a transaction back to the mempool or to
another offset. `file_driver`: three entries give states of four sizes, so that
a shorter text is written over a longer one. `address_book`: three indexes are
used up and the search wraps; nested and native addresses share an index.
`transfer`: five coins include equal worths, with and without the asset, and the
amounts lie below, at and above their sums and at the type's limit; in
`transfer_stores` the second transfer meets what the first left in the two
files. `wallet`: two transfers, or a payment and a transfer, are the fewest for a coin
that could be spent twice, and two used indexes for a last index that falls when an address
is returned; one failure, of a store or of a look-up, and any number of restarts and
deletions meet each of them. Nested addresses (`Nestable`) double the addresses
and are never found, so they stay out of this run; `address_book` and
`chain_sync` have them, and the theorems about `Wallet` hold for both.
`invoices`: two contracts are the fewest for a request that stops halfway,
two secrets for one invoice lost beside one kept.

`CHECK_DEADLOCK FALSE` stands in the configurations of `AddressBook`, `Transfer`,
`Wallet` and `Invoices` because the system really may stop: once a file is torn the daemon
cannot start again until somebody repairs it.

Every property of a passing run has a variant of the code, written beside the
definition it replaces and marked "Variant", which breaks it.

## 5. Fairness

Safety needs none. `ChainSync!FairSpec` has weak fairness of the handler as a
whole: its thread keeps running, each Electrum call returns or fails. Nothing is
assumed of clients, chain or which of success and failure comes.
`Server!Spec` has weak fairness of the daemon's own steps, for the same reason,
and strong fairness of receiving each client's request: a REP socket takes
requests from its peers in turn. A restart of the daemon is never assumed;
`Answered` therefore excuses a daemon that is down, or stuck in a handler.

## 6. Findings

* `chain_sync.rs:198` pairs coins, in the order they were found, with outpoints,
  in set order. Totals are right (`AssetTotal`), but an asset may be recorded on
  another coin, and the coin that holds it is then offered to a bitcoin transfer,
  against the comment at `transfer.rs:52` (`BitcoinOnlyIsAssetFree`).
* `transfer.rs:206`: for an asset transfer the bitcoins of the selected coins may be
  less than giveaway plus fee; the transaction is handed out. The TODO at
  `transfer.rs:120` names the missing step, in a branch such transfers do not
  enter (`FeeIsPaid`). Asset transfers without a bitcoin change
  are one of two ways to this; the overflow below is the other, and `BitcoinConserved`, which
  covers every transfer composed or handed out, rules out a third.
* `storage/file.rs:160` replaces a contract of the same policy; the error documented
  at `storage/mod.rs:89` is never returned (`ExistingIsKept`).

Further observations:

* `transfer.rs:87`, `118`, `123` and `208` add value and fee without a check. In a release
  build a request whose sum exceeds `u64` is not refused: it is composed for a sum 2^64
  lower. With `Word = 32`, a bitcoin transfer of 31 with fee 1 has the target 0, selects no
  coin and is handed out, paying 31 from no inputs; the same happens to giveaway and fee of
  an asset transfer, whose change is then computed from the lower sum. The network would
  accept neither. `BitcoinConserved` says of every request what its transaction pays: the
  inputs' worth exactly, or, when the sum exceeds the type and then only, 2^64 more
  (`Overflow`). The run `transfer` includes such requests, and `FeeIsPaid` fails for them too
  (`Amounts = {31}`, `Fees = {1}` in `TransferFee.cfg` shows it).
* A sync with depth 0 never ends, and the daemon serves nobody after it
  (`ZeroDepthNeverUpdates`, `Server!Loop`).
* `invoice_create` drops the reply of AddInvoice, so an invoice can be handed out
  that was not acknowledged, whose seal nobody can open later (no property covers such
  an invoice). `AcknowledgedIsListed`
  and `PaidIsRevealed` hold for acknowledged invoices only.
* Entries of `mine_info` are never removed, so after a replaced block one transaction
  has two positions there. `CoinsAreLocated` is therefore stated, and proved, without
  replaced blocks.
* Payments to a nested address that NextAddress handed out are never found, and
  neither are those to the largest index; `Due` and `Owed` leave both out.
* Two transfers composed before the next sync may spend the same coin: only one of them
  can be published. A contract that is deleted and created again keeps its used
  addresses and coins but has lost its tweaks, and with them the change of earlier
  transfers on tweaked scripts.

## 7. Proofs

All for any values of the constants, under the assumptions named in the modules.

* **SumTheorems**: what `SumFunctionOnSet` is on finite sets. The library defines it by
  a recursive fold whose induction theorems take operators as parameters, which the
  provers cannot instantiate. So induction is over a set of sets instead of a predicate (`SubsetInduction`, from the
  minimal element that a well-founded order has), with which the recursion is shown to have
  a solution and only one. From there `SumAdd`, `SumSplit`, `SumZero`, `SumBijection`
  (renaming the summands) and `SumOutweighs` (no more elements, none of them heavier, weigh no more).
* **ChainSync_proofs**: `TypeCorrect`, `SearchComplete`, `NoCoinIsSpent`,
  `ZeroDepthIsStuck`, `Located`, `AssetsAddUp`, `Advances`, `Refinement`.
  `SearchIsComplete` is not inductive: it speaks of the end of the search only. `SearchInv` says during the search that every steady coin of a
  script searched so far is collected, skipped or still in the current batch's
  answer (`Coverage`), and that ranges up to the offset have been searched; the end
  conditions then give the rest. `Refinement` adds that what is collected was seen and
  can be derived; at the end of a sync that is `CoinSearch!Finds`. `Located` assumes
  `MaxReorgs = 0`; its invariant (`LocationInv`) says that transactions of one height
  have different positions which never change, since a block is complete when
  it appears (`PositionIsUnique`), so that the entries one sync adds to `mine_info`
  replace none but their equals. `AssetsAddUp` needs that `unspent` lists each of `outpoints`
  once (`OneCoinEach`): pairing the two by position is then a bijection from what is cached to
  what is held, whichever coin gets which asset. `Advances` is the safety part of
  `SyncReplies`: `Left` is a natural number that every step of a sync lowers, and
  `SomeKeyIsNext` says that a sync with outputs left is not stuck.
  Assumptions: outpoints are numbered in the order of their transactions, finitely many.
* **FileDriver_proofs**: `TypeCorrect`, `Acknowledged`, `Current`, `Refinement`. The
  invariant says of memory and of the file, each, that they agree with what clients
  were told (`MemoryAgrees`, `FileAgrees`), with the one request under way excepted, and
  that a file being written is torn (`WritesTorn`). For `Refinement`, `FileBefore` says that
  the file under an operation is the one before it or torn, and `BootIsFresh` that what
  a first start stores is the fresh state; then every step is one of `DurableStore` or leaves
  its variables alone.
* **AddressBook_proofs**: `TypeCorrect`, `Fresh`, `Kept`, `Refinement`. `FreshIndex` needs
  that what is given is used in memory and in the file (`GivenIsUsed`), and that the largest
  index is not in use as long as it was never reached (`NotExhausted`).
* **Transfer_proofs**: `TypeCorrect`, `Recorded`, `ChangeOnce`, `Conserved`, `Sealed`,
  `Fewest`, `KeepUp`. The stores' part rests on `IndexKept`, `TweakKept` (what the transfer
  under way has already written is in memory and file) and `IndexIsNew`; the amounts' part on
  `Funded`, stated at composition, untouched later and true of what is handed out.
  `Fewest` rests on `SumOutweighs`: a smaller set of coins is worth no more than the selection
  without its last coin, which does not reach the target. `Conserved` holds for every
  request, those whose value and fee overflow included: `PlusWraps` says by how much the sum
  is then off. `SupplyAssumption`: the coins' sums fit the type (value and fee need not).
* **Wallet_proofs**: `TypeCorrect`, `NotTwice`, `ClientsCoins`, `KeepUp`, `SyncRefinement`,
  `Refinement`, `FreshInWallet`.
  `NoCoinIsSpentTwice` is not inductive: a restart brings back the coins in the file.
  `IInv` says of memory and of the file, each, that they hold no coin a settled
  transfer spent (`SettledIsGone`), that settled transfers are published and their
  inputs spent (`SettledIsPublished`, `PublishedSpent`), and that what is composed or handed
  out respects what was settled before it (`NotSpentAgain`, with `Numbered` telling a
  transfer from those before it). `ClientsCoinsAreFound` is an action property: it
  needs that given addresses are used (`GivenIsUsed`), promised tweaks kept
  (`PromisedIsKept`), both in memory and file, and that a sync's range reaches the
  greatest used index (`LastIsGreatest`). The rest is `CoinSearch!Finds`.
  `SyncRefinement` needs `SyncSees`: what was mature throughout still is, and all that is
  mature has been seen.
* **Invoices_proofs**: `TypeCorrect`, `Listed`, `Revealed`. `Listed` is
  inductive because it speaks of memory and file together; `NotedGrows` shows that
  noting an invoice takes nothing away, and `NoteShape` that whichever way AddInvoice
  ends, memory and file hold what was there with the invoice noted for some contracts.
* **Server_proofs**: `TypeCorrect`, `Once`. What is queued or received has not run
  (`RunInv`).

How the theorems fit together. The parts meet in two abstract modules, and each
meeting is proved from both sides where a step of one is a step of the other.
`FileDriver` implements `DurableStore`; `AddressBook`, `Transfer` and `Wallet` take from it
what a store may leave behind and are shown to ask nothing else of their files
(`BookIsStored`, `FilesKeepUp`, `Wallet_proofs!KeepUp`): no handler changes memory without storing it.
`ChainSync` implements `CoinSearch`; `Wallet` takes `Finds` from it and is shown to
give a sync the circumstances it counts on (`SyncsAsPromised`). `Wallet`
implements `AddressBook`, so that AddressBook's own theorem holds in a contract's
life (`FreshInWallet`, by instantiating the proofs). `Invoices` uses `Outcomes` for single
stores; AddInvoice stores once for each contract within one action, which is several steps of
`DurableStore`, so that its refinement is not stated. That a transfer in `Wallet` is the one of
`Transfer` is read off the two modules, not proved: their data differ (amounts
in one, the chain in the other).

Model-checked only: `SyncReplies` and `Answered`. They are liveness
properties under fairness, whose proofs need ENABLED and well-founded
recurrence, beyond the prover; what it can prove of the first is `SyncAdvances`.
The theorems hold for every value of the bounds (`MaxTx`, `MaxFaults`,
`MaxTransfers` and the like) that the runs keep small; only `Located` fixes one, `MaxReorgs = 0`.

## 8. What is not modelled, and why

* Loss of power: the code never calls `fsync`; only the end of the process is
  modelled, after which the operating system still has what was written.
* `known_height` and `updated_height`: nothing reads them. `block_info` and
  `tx_cache`: nothing writes them.
* Amounts in `Wallet`, and more than one asset in `Transfer`: a transfer moves one
  asset, and selects from the coins of that asset only.
* Invoices in `Wallet`, and several contracts there: contracts share nothing but the
  two files, and a file is stored and lost as a whole in `FileDriver` and `Invoices`.
* ListAssets, ContractUnspent, UsedAddresses and the other requests that only read:
  they change no state.
* The truncation of block positions and output numbers to `u16` in `chain_sync.rs`
  (107, 128, 147): a block has no room for 2^16 transactions, and a transaction that nodes
  relay none for as many outputs.
* What ZeroMQ does with a request whose daemon ended after receiving it: it is assumed not
  to deliver it again. `RunsOnce` is about the daemon's side.
* Keys, signatures, blinding and consignments are what the libraries say they are:
  a secret is fresh, its hash determines it, and validity is the RGB node's answer.
* `chainapi`, `chainwatch`: declared and unused. `embedded`, `config`, `error`, the message
  types: start-up plumbing, data and conversions.
