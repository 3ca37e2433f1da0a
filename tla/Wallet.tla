--------------------------------- MODULE Wallet ---------------------------------
(***************************************************************************)
(* One contract through its life: the requests of its clients, which give  *)
(* addresses, synchronise it, compose transfers and publish them, over the *)
(* cache and the storage the daemon keeps in memory and in two files, and  *)
(* over the chain its coins live on.  A sync is what CoinSearch promises   *)
(* and ChainSync implements; the addresses behave as AddressBook says; a   *)
(* transfer is Transfer's, without its amounts.  The daemon may fail to    *)
(* store a file and may stop at any time.                                  *)
(***************************************************************************)
EXTENDS Integers

CONSTANTS
  Largest,    \* UnhardenedIndex::largest()
  Nestable,   \* the policy's descriptor has a nested (legacy) form
  Funds,      \* outputs mined before the contract is created
  MaxTx,      \* bound on the transfers and payments that are made
  MaxUsed,    \* bound on the indexes of the used addresses
  MaxFaults   \* bound on the stores and the merkle look-ups that fail

ASSUME LargestAssumption  == Largest \in Nat \ {0}
ASSUME NestableAssumption == Nestable \in BOOLEAN
ASSUME BoundAssumption    == MaxTx \in Nat /\ MaxUsed \in Nat /\ MaxFaults \in Nat

Index    == 0 .. Largest
Address  == [index : Index, nested : BOOLEAN]
Outpoint == [tx : 0 .. MaxTx, index : Index, kind : {"policy", "nested", "tweak"}]

ASSUME FundsAssumption == Funds \subseteq Outpoint /\ \A o \in Funds : o.kind = "policy"

\* A tweaked script is that of one output; the others are those of an address.
ScriptOf == [o \in Outpoint |->
  [kind |-> o.kind, index |-> o.index, tx |-> IF o.kind = "tweak" THEN o.tx ELSE 0]]

VARIABLES
  pc,                             \* what the daemon does
  coins, used,                    \* the contract's cache in memory
  exists, tweaks,                 \* the contract's storage in memory
  cacheDisk, storeDisk,           \* their files: {} once unreadable, or one state
  plan,                           \* the transfer being composed: {} or one
  outs, mined, spent,             \* outputs broadcast, mined and spent
  txs, faults,                    \* transactions made, stores and look-ups that failed
  published,                      \* transfers that are broadcast
  last, steady, seen, skipped,    \* of the sync, as in CoinSearch
  given, clash, exhausted,        \* histories, as in AddressBook
  handed, promised,               \* transfers clients have; their tweaked change
  settled                         \* transfers a sync was told of (history)

cache   == <<coins, used, cacheDisk>>
store   == <<exists, tweaks, storeDisk>>
chain   == <<outs, mined, spent, published>>
sync    == <<last, steady, seen, skipped>>
book    == <<given, clash, exhausted>>
clients == <<handed, promised, settled>>
vars    == <<pc, cache, store, plan, chain, txs, faults, sync, book, clients>>

\* `inputs` are the coins it spends, `change` its output to the contract.
Transfer   == [id : 1 .. MaxTx, inputs : SUBSET Outpoint, change : SUBSET Outpoint,
               settled : SUBSET (1 .. MaxTx)]
CacheState == [coins : SUBSET Outpoint, used : SUBSET Address]
StoreState == [exists : BOOLEAN, tweaks : SUBSET Outpoint]

Optional(S) == \A x, y \in S : x = y
Mature      == mined \ spent

Search == INSTANCE CoinSearch WITH
  up <- pc # "down", mature <- Mature, used <- {a.index : a \in used}, busy <- pc = "sync", utxo <- coins
Book == INSTANCE AddressBook WITH
  up <- pc # "down", book <- used, disk <- {c.used : c \in cacheDisk}

TypeOK ==
  /\ pc \in {"idle", "sync", "transfer", "down"}
  /\ coins \subseteq Outpoint /\ used \subseteq Address
  /\ exists \in BOOLEAN /\ tweaks \subseteq Outpoint
  /\ cacheDisk \subseteq CacheState /\ Optional(cacheDisk)
  /\ storeDisk \subseteq StoreState /\ Optional(storeDisk)
  /\ plan \subseteq Transfer /\ Optional(plan) /\ (plan # {} <=> pc = "transfer")
  /\ outs \subseteq Outpoint /\ mined \subseteq outs /\ spent \subseteq outs
  /\ txs \in 0 .. MaxTx /\ faults \in 0 .. MaxFaults /\ published \subseteq handed
  /\ last \in Index /\ skipped \subseteq Outpoint
  /\ steady \subseteq Outpoint /\ seen \subseteq Outpoint
  /\ given \subseteq Address /\ clash \subseteq Index /\ exhausted \in BOOLEAN
  /\ handed \subseteq Transfer /\ promised \subseteq Outpoint
  /\ settled \subseteq 1 .. MaxTx

NoCache == [coins |-> {}, used |-> {}]
NoStore == [exists |-> FALSE, tweaks |-> {}]

\* The two files, which keep what DurableStore promises (FileDriver shows it).
CacheFile   == INSTANCE DurableStore WITH Fresh <- NoCache, durable <- cacheDisk,
  view <- IF pc = "down" THEN {} ELSE {[coins |-> coins, used |-> used]}
StorageFile == INSTANCE DurableStore WITH Fresh <- NoStore, durable <- storeDisk,
  view <- IF pc = "down" THEN {} ELSE {[exists |-> exists, tweaks |-> tweaks]}

Init ==
  /\ pc = "idle" /\ plan = {}
  /\ coins = {} /\ used = {} /\ cacheDisk = {NoCache}
  /\ exists = FALSE /\ tweaks = {} /\ storeDisk = {NoStore}
  /\ outs = Funds /\ mined = Funds /\ spent = {} /\ txs = 0 /\ faults = 0 /\ published = {}
  /\ last = 0 /\ steady = {} /\ seen = {} /\ skipped = {}
  /\ given = {} /\ clash = {} /\ exhausted = FALSE
  /\ handed = {} /\ promised = {} /\ settled = {}

-----------------------------------------------------------------------------
(* The chain (external). *)

\* Somebody pays to an address that a client was given.
Deposit(a) ==
  /\ a \in given /\ txs < MaxTx
  /\ txs' = txs + 1
  /\ outs' = outs \cup {[tx |-> txs + 1, index |-> a.index,
                         kind |-> IF a.nested THEN "nested" ELSE "policy"]}
  /\ UNCHANGED <<pc, cache, store, plan, mined, spent, published, sync, book, clients, faults>>

Mine(tx) ==
  /\ \E o \in outs \ mined : o.tx = tx
  /\ mined' = mined \cup {o \in outs : o.tx = tx}
  /\ seen' = IF pc = "sync" THEN seen \cup (mined' \ spent) ELSE seen
  /\ UNCHANGED <<pc, cache, store, plan, outs, spent, published, txs,
                 last, steady, skipped, book, clients, faults>>

\* A node accepts a transaction whose inputs are there and unspent.
Broadcast(t) ==
  /\ t \in handed \ published /\ t.inputs \subseteq outs \ spent
  /\ published' = published \cup {t}
  /\ outs' = outs \cup t.change
  /\ spent' = spent \cup t.inputs
  /\ steady' = steady \ t.inputs
  /\ UNCHANGED <<pc, cache, store, plan, mined, txs, last, seen, skipped, book, clients, faults>>

\* A client has another node broadcast the transaction while the daemon syncs.
PublishElsewhere(t) == pc = "sync" /\ Broadcast(t)

-----------------------------------------------------------------------------
(* Requests that the daemon serves. *)

\* FileDriver::store of the cache and of the storage, as its callers see it.
Counted(answered) ==
  /\ answered \/ faults < MaxFaults
  /\ faults' = IF answered THEN faults ELSE faults + 1
StoreCache(answered) ==
  /\ cacheDisk' \in CacheFile!Outcomes({[coins |-> coins', used |-> used']}, answered)
  /\ Counted(answered)
StoreContract(answered) ==
  /\ storeDisk' \in StorageFile!Outcomes({[exists |-> exists', tweaks |-> tweaks']}, answered)
  /\ Counted(answered)

\* CreateSingleSig: storage.add_contract, which replaces a contract that is there.
CreateContract ==
  /\ pc = "idle"
  /\ exists' = TRUE /\ tweaks' = {} /\ promised' = {}
  /\ \E answered \in BOOLEAN : StoreContract(answered)
  /\ UNCHANGED <<pc, cache, plan, chain, txs, sync, book, handed, settled>>

\* Variant: the contract's cache is dropped with it.
DeleteAll ==
  /\ pc = "idle" /\ exists
  /\ exists' = FALSE /\ tweaks' = {} /\ promised' = {} /\ coins' = {} /\ used' = {}
  /\ \E answered \in BOOLEAN : StoreContract(answered) /\ StoreCache(answered)
  /\ UNCHANGED <<pc, plan, chain, txs, sync, book, handed, settled>>

\* DeleteContract: storage.delete_contract.  The contract's cache is left.
DeleteContract ==
  /\ pc = "idle" /\ exists
  /\ exists' = FALSE /\ tweaks' = {} /\ promised' = {}
  /\ \E answered \in BOOLEAN : StoreContract(answered)
  /\ UNCHANGED <<pc, cache, plan, chain, txs, sync, book, handed, settled>>

\* RenameContract and AddInvoice change nothing of this model, but they store it.
StoreContractAgain ==
  /\ pc = "idle" /\ exists
  /\ UNCHANGED <<exists, tweaks>>
  /\ \E answered \in BOOLEAN : StoreContract(answered)
  /\ UNCHANGED <<pc, cache, plan, chain, txs, sync, book, clients>>

\* cache.use_address_derivation for the address of index i, and its histories.
UseAddress(i, legacy, auto, answered) ==
  LET a == Book!Derived(i, legacy) IN
    /\ i < MaxUsed
    /\ used' = used \cup {a} /\ coins' = coins
    /\ StoreCache(answered)
    /\ given' = IF answered THEN given \cup {a} ELSE given
    /\ clash' = IF answered /\ auto /\ \E g \in given : g.index = i
                THEN clash \cup {i} ELSE clash
    /\ exhausted' = (exhausted \/ i = Largest)

\* NextAddress with mark_used, for the next index or for one the client names.
NextAddress(i, legacy, auto) ==
  /\ pc = "idle" /\ exists
  /\ auto => i \in Book!NextUnused(used)
  /\ \E answered \in BOOLEAN : UseAddress(i, legacy, auto, answered)
  /\ UNCHANGED <<pc, store, plan, chain, txs, sync, clients>>

\* Variant: it is served beside a sync.
UnuseAnytime(a) ==
  /\ pc \in {"idle", "sync"}
  /\ used' = used \ {a} /\ given' = given \ {a} /\ coins' = coins
  /\ \E answered \in BOOLEAN : StoreCache(answered)
  /\ UNCHANGED <<pc, store, plan, chain, txs, sync, clash, exhausted, clients>>

\* UnuseAddress: cache.forget_address, which asks for no contract.
UnuseAddress(a) ==
  /\ pc = "idle"
  /\ used' = used \ {a} /\ given' = given \ {a} /\ coins' = coins
  /\ \E answered \in BOOLEAN : StoreCache(answered)
  /\ UNCHANGED <<pc, store, plan, chain, txs, sync, clash, exhausted, clients>>

\* The start of Runtime::transfer: coins are selected and, for a bitcoin change,
\* the next index is taken.  Requests for nothing are left out.
ComposeTransfer ==
  /\ pc = "idle" /\ exists /\ txs < MaxTx
  /\ txs' = txs + 1
  /\ \E I \in SUBSET coins \ {{}} :
       LET t == [id |-> txs + 1, inputs |-> I, change |-> {}, settled |-> settled] IN
       \/ /\ plan' = {t} /\ pc' = "transfer"
          /\ UNCHANGED <<cache, book, faults>>
       \/ \E i \in Book!NextUnused(used), kind \in {"policy", "tweak"}, answered \in BOOLEAN :
            /\ UseAddress(i, FALSE, TRUE, answered)
            /\ pc' = IF answered THEN "transfer" ELSE "idle"
            /\ plan' = IF answered
                 THEN {[t EXCEPT !.change = {[tx |-> txs + 1, index |-> i, kind |-> kind]}]}
                 ELSE {}
  /\ UNCHANGED <<store, chain, sync, clients>>

TweaksOf(t) == {o \in t.change : o.kind = "tweak"}

\* Variant: the client is answered whatever becomes of the file.
RecordSilently ==
  /\ pc = "transfer"
  /\ \E t \in plan, answered \in BOOLEAN :
       /\ tweaks' = tweaks \cup TweaksOf(t) /\ exists' = exists
       /\ StoreContract(answered)
       /\ handed' = handed \cup {t} /\ promised' = promised \cup TweaksOf(t)
  /\ pc' = "idle" /\ plan' = {}
  /\ UNCHANGED <<cache, chain, txs, sync, book, settled>>

\* Its end: the tweak of the change is stored, then the operation, and the client
\* has the transaction unless a step fails after the tweak is there.  (Transfer
\* parts these steps.)
RecordTransfer ==
  /\ pc = "transfer"
  /\ \E t \in plan, stored, answered \in BOOLEAN :
       /\ answered => stored
       /\ tweaks' = tweaks \cup TweaksOf(t) /\ exists' = exists
       /\ StoreContract(stored)
       /\ handed' = IF answered THEN handed \cup {t} ELSE handed
       /\ promised' = IF answered THEN promised \cup TweaksOf(t) ELSE promised
  /\ pc' = "idle" /\ plan' = {}
  /\ UNCHANGED <<cache, chain, txs, sync, book, settled>>

\* Variant: what the transfer was doing is not dropped.
FailKeepsPlan ==
  /\ pc = "transfer"
  /\ pc' = "idle" /\ plan' = plan
  /\ UNCHANGED <<cache, store, chain, txs, sync, book, clients, faults>>

\* The Electrum server or the RGB node fails.
TransferFails ==
  /\ pc = "transfer"
  /\ pc' = "idle" /\ plan' = {}
  /\ UNCHANGED <<cache, store, chain, txs, sync, book, clients, faults>>

\* FinalizeTransfer: the transaction is broadcast; no store is changed.
FinalizeTransfer(t) == pc = "idle" /\ Broadcast(t)

\* SyncContract: chain_sync begins.
SyncStart ==
  /\ pc = "idle" /\ exists
  /\ pc' = "sync"
  /\ last' \in Search!LastUsed /\ steady' = Mature /\ seen' = Mature /\ skipped' = {}
  /\ UNCHANGED <<cache, store, plan, chain, txs, book, clients, faults>>

\* A merkle look-up fails, and the sync passes the output over.
SyncSkips(o) ==
  /\ pc = "sync" /\ faults < MaxFaults
  /\ skipped' = skipped \cup {o} /\ faults' = faults + 1
  /\ UNCHANGED <<pc, cache, store, plan, chain, txs, last, steady, seen, book, clients>>

SyncOver ==
  /\ pc = "sync" /\ pc' = "idle"
  /\ last' = 0 /\ steady' = {} /\ seen' = {} /\ skipped' = {}
  /\ used' = used
  /\ UNCHANGED <<store, plan, chain, txs, book, handed, promised>>

\* Variant: what is found is added to what is cached.
SyncAdds(answered) ==
  /\ SyncOver
  /\ \E S \in SUBSET seen : Search!Finds(S) /\ coins' = coins \cup S
  /\ StoreCache(answered)
  /\ settled' = IF answered THEN settled \cup
       {t.id : t \in {u \in published : u.inputs \cap seen = {}}} ELSE settled

\* Driver::update with what was found, and the answer.  The transfers published
\* before the sync began, whose inputs it cannot have seen, are settled.
SyncEnds(answered) ==
  /\ SyncOver
  /\ \E S \in SUBSET seen : Search!Finds(S) /\ coins' = S
  /\ StoreCache(answered)
  /\ settled' = IF answered THEN settled \cup
       {t.id : t \in {u \in published : u.inputs \cap seen = {}}} ELSE settled

SyncFails == SyncOver /\ UNCHANGED <<coins, cacheDisk, settled, faults>>

-----------------------------------------------------------------------------

\* The daemon stops at any time, and what is only in memory is lost.
Stop ==
  /\ pc # "down" /\ pc' = "down"
  /\ coins' = {} /\ used' = {} /\ exists' = FALSE /\ tweaks' = {} /\ plan' = {}
  /\ last' = 0 /\ steady' = {} /\ seen' = {} /\ skipped' = {}
  /\ UNCHANGED <<cacheDisk, storeDisk, chain, txs, book, clients, faults>>

\* It starts when both files can be read.
Start ==
  /\ pc = "down" /\ pc' = "idle"
  /\ \E c \in cacheDisk : coins' = c.coins /\ used' = c.used
  /\ \E s \in storeDisk : exists' = s.exists /\ tweaks' = s.tweaks
  /\ UNCHANGED <<cacheDisk, storeDisk, plan, chain, txs, sync, book, clients, faults>>

Environment ==
  \/ \E a \in Address : Deposit(a)
  \/ \E tx \in 1 .. MaxTx : Mine(tx)
  \/ \E t \in handed : PublishElsewhere(t)

Requests ==
  \/ CreateContract \/ DeleteContract \/ StoreContractAgain
  \/ \E i \in Index, legacy, auto \in BOOLEAN : NextAddress(i, legacy, auto)
  \/ \E a \in Address : UnuseAddress(a)
  \/ ComposeTransfer \/ RecordTransfer \/ TransferFails
  \/ \E t \in handed : FinalizeTransfer(t)
  \/ SyncStart \/ \E o \in steady \ skipped : SyncSkips(o)
  \/ \E answered \in BOOLEAN : SyncEnds(answered)
  \/ SyncFails

Next == Environment \/ Requests \/ Stop \/ Start

Spec == Init /\ [][Next]_vars

-----------------------------------------------------------------------------

\* What a client may expect a sync to find: payments to the addresses it was
\* given and has not returned, in their native form and below the largest index,
\* and the tweaked change of the transfers it was given since the contract was
\* last created.
Owed(o) ==
  \/ o.kind = "policy" /\ o.index < Largest /\ \E a \in given : a.index = o.index
  \/ o \in promised

\* A sync finds every output that a client may expect and that stays mined and
\* unspent while it runs, except those whose transaction the server could not
\* locate: whatever stores failed and restarts, deletions and returned addresses
\* came before, the range it searches and the tweaks it knows cover them.
ClientsCoinsAreFound ==
  [][\A answered \in BOOLEAN : SyncEnds(answered) =>
       \A o \in steady \ skipped : Owed(o) => o \in coins']_vars

\* Coins are not reserved, so two transfers composed before the next sync may
\* spend the same one; but none composed after a sync has been told of a published
\* transfer spends its coins again, through failed stores and restarts, which
\* bring back the cache of an earlier time.
NoCoinIsSpentTwice ==
  \A t, u \in handed : t.id \in u.settled => t.inputs \cap u.inputs = {}

\* The used addresses, seen alone, are an address book: what the contract's other
\* requests do to the cache never takes one away or brings one back.
ImplementsAddressBook == Book!Spec

\* A sync meets the circumstances under which CoinSearch makes its promise: no
\* request changes the used addresses, the tweaks or the coins while it runs, the
\* chain only takes away from what was mature throughout and only adds to what was
\* seen, whoever mines or publishes, and no sync is left over after a restart.
SyncsAsPromised == Search!Spec
=============================================================================
