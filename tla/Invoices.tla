-------------------------------- MODULE Invoices --------------------------------
(***************************************************************************)
(* Contracts in storage::FileDriver and the invoices sent for them.  To    *)
(* create an invoice for an asset a client has one of the contract's coins *)
(* blinded with a random secret (BlindUtxo), puts the hash into the        *)
(* invoice and has it noted with the secret (AddInvoice); whoever is paid  *)
(* hands the consignment in (AcceptTransfer), and the daemon reveals the   *)
(* noted secrets to the RGB node.  Requests of other clients, failing      *)
(* stores and restarts come between these steps.                           *)
(*                                                                         *)
(* A secret stands for one call of invoice_create: for the blinding, its   *)
(* hash and the invoice that carries it.  The storage file behaves as      *)
(* DurableStore promises.                                                  *)
(***************************************************************************)
EXTENDS Integers

CONSTANTS
  Contracts,   \* how many policies clients create contracts for
  Secret       \* blinding secrets

ASSUME ContractsAssumption == Contracts \in Nat \ {0}

\* ContractId, in the order of a BTreeMap's keys
Contract == 1 .. Contracts

\* ContractData: sent_invoices and blinding_factors
Data == [invoices : SUBSET Secret, factors : SUBSET Secret]
NoData == [invoices |-> {}, factors |-> {}]

\* Citadel::contracts: {} for no contract, or the set of its data
Citadel(v) == v \in [Contract -> SUBSET Data] /\ \A c \in Contract : \A d, e \in v[c] : d = e
NoStore == [c \in Contract |-> {}]

VARIABLES
  up,        \* the daemon runs
  store,     \* self.data in memory
  disk,      \* in the storage file: {} once unreadable, or the set of one store
  funded,    \* contracts with a coin in the cache
  fundedDisk,\* in the cache file: {} once unreadable, or one set of contracts
  owner,     \* the contract whose coin a secret blinds: {} or one
  kept,      \* the contracts that acknowledged the invoice (history variable)
  missed     \* acknowledged, yet not revealed with a consignment that the RGB node
             \* accepted (history variable)

cache == <<funded, fundedDisk>>
clients == <<owner, kept, missed>>
vars == <<up, store, disk, cache, clients>>

\* The two files, which keep what DurableStore promises (FileDriver shows it).
StorageFile == INSTANCE DurableStore WITH
  Fresh <- NoStore, view <- IF up THEN {store} ELSE {}, durable <- disk
CacheFile   == INSTANCE DurableStore WITH
  Fresh <- {}, view <- IF up THEN {funded} ELSE {}, durable <- fundedDisk

\* Nothing is acknowledged of a secret before it blinds a coin.  No blinding is in
\* memory or in the file without its invoice, nor with a contract whose coin it does
\* not blind.
TypeOK ==
  /\ up \in BOOLEAN
  /\ Citadel(store) /\ \A v, w \in disk : Citadel(v) /\ v = w
  /\ funded \subseteq Contract /\ \A f, g \in fundedDisk : f \subseteq Contract /\ f = g
  /\ owner \in [Secret -> SUBSET Contract]
  /\ kept \in [Secret -> SUBSET Contract] /\ \A s \in Secret : owner[s] = {} => kept[s] = {}
  /\ missed \subseteq Secret
  /\ \A c \in Contract : \A v \in disk \cup {store} : \A d \in v[c] :
       d.factors \subseteq {s \in d.invoices : c \in owner[s]}

Init ==
  /\ up = TRUE
  /\ store = NoStore /\ disk = {NoStore}
  /\ funded = {} /\ fundedDisk = {{}}
  /\ owner = [s \in Secret |-> {}] /\ kept = [s \in Secret |-> {}]
  /\ missed = {}

-----------------------------------------------------------------------------

\* FileDriver::store of the storage and of the cache; a request that fails here is
\* answered with an error.
StorageStored == \E answered \in BOOLEAN : disk' \in StorageFile!Outcomes({store'}, answered)
CacheStored   == \E answered \in BOOLEAN : fundedDisk' \in CacheFile!Outcomes({funded'}, answered)

Known(c) == store[c] # {}

\* What is acknowledged about a contract ends with it.
Without(c) == [s \in Secret |-> kept[s] \ {c}]

\* CreateSingleSig, Driver::add_contract: a contract of the same policy is replaced.
Create(c) ==
  /\ up
  /\ store' = [store EXCEPT ![c] = {NoData}]
  /\ StorageStored
  /\ kept' = Without(c)
  /\ UNCHANGED <<up, cache, owner, missed>>

\* RenameContract: the name is no part of this model, but the store is.
Rename(c) ==
  /\ up /\ Known(c)
  /\ store' = store /\ StorageStored
  /\ UNCHANGED <<up, cache, clients>>

\* DeleteContract: what the cache holds of the contract stays.
Delete(c) ==
  /\ up /\ Known(c)
  /\ store' = [store EXCEPT ![c] = {}]
  /\ StorageStored
  /\ kept' = Without(c)
  /\ UNCHANGED <<up, cache, owner, missed>>

\* SyncContract, of which BlindUtxo sees whether there are coins: chain_sync asks
\* the storage for the contract's policy first.
Sync(c) ==
  /\ up /\ Known(c)
  /\ funded' \in {funded \cup {c}, funded \ {c}}
  /\ CacheStored
  /\ UNCHANGED <<up, store, disk, clients>>

\* BlindUtxo: a coin of the cache and a new secret.  Whether the storage still
\* knows the contract is not asked.
BlindUtxo(s, c) ==
  /\ up /\ owner[s] = {} /\ c \in funded
  /\ owner' = [owner EXCEPT ![s] = {c}]
  /\ UNCHANGED <<up, store, disk, cache, kept, missed>>

\* Variant: the blinding is added for whatever contract is named.
NotedForAll(v, s, C) ==
  [c \in Contract |->
    IF c \notin C THEN v[c]
    ELSE {[invoices |-> d.invoices \cup {s}, factors |-> d.factors \cup {s}] : d \in v[c]}]

\* Contract::add_invoice and add_blinding for the contracts C; the blinding goes
\* with the contract whose coin it is.
Noted(v, s, C) ==
  [c \in Contract |->
    IF c \notin C THEN v[c]
    ELSE {[invoices |-> d.invoices \cup {s},
           factors  |-> d.factors \cup (IF c \in owner[s] THEN {s} ELSE {})] : d \in v[c]}]

\* Variant: an unknown contract is passed over.
NoteSkips(s, C, reached) ==
  /\ reached = {c \in C : Known(c)}
  /\ store' = Noted(store, s, reached) /\ disk' = {store'}
  /\ kept' = [kept EXCEPT ![s] = @ \cup C]

\* AddInvoice: one store for each contract in turn, to the end or to the first
\* that is unknown or whose store fails; `reached` are the ones changed in memory.
Note(s, C, reached) ==
  LET Before(c) == {b \in C : b < c}
      Sofar(B) == IF B = {} THEN disk ELSE {Noted(store, s, B)} IN
  /\ \A c \in reached : Known(c) /\ Before(c) \subseteq reached
  /\ store' = Noted(store, s, reached)
  /\ \/ /\ reached = C
        /\ disk' = Sofar(C)
        /\ kept' = [kept EXCEPT ![s] = @ \cup C]
     \/ /\ \E c \in C \ reached : ~Known(c) /\ Before(c) = reached
        /\ disk' = Sofar(reached) /\ kept' = kept
     \/ /\ \E c \in reached : reached \ {c} = Before(c) /\ disk' \in {Sofar(Before(c)), {}}
        /\ kept' = kept

\* The reply goes to invoice_create, which drops it.  It names the one contract;
\* the request may name others, without the blinding, and may be sent again.
AddInvoice(s) ==
  /\ up /\ owner[s] # {}
  /\ \E C \in SUBSET Contract : owner[s] \subseteq C /\ \E reached \in SUBSET C : Note(s, C, reached)
  /\ UNCHANGED <<up, cache, owner, missed>>

\* Variant: the blindings of the first contract only.
RevealFirst(H) == {s \in H : \E d \in store[1] : s \in d.factors}

\* revel_outpoints: what any contract knows of the seals H
Reveal(H) == {s \in H : \E c \in Contract : \E d \in store[c] : s \in d.factors}

\* AcceptTransfer of a consignment whose endpoints conceal the seals H, found
\* valid by the RGB node; nothing happens to any other consignment.  The node
\* accepts it with what Reveal finds, or the call fails before that.  Either way
\* the daemon keeps nothing of it, and the client may hand it in again.
AcceptTransfer(H) ==
  /\ up /\ \A s \in H : owner[s] # {}
  /\ \/ missed' = missed \cup {s \in H \ Reveal(H) : owner[s] \cap kept[s] # {}}
     \/ UNCHANGED missed
  /\ UNCHANGED <<up, store, disk, cache, owner, kept>>

Stop ==
  /\ up
  /\ up' = FALSE /\ store' = NoStore /\ funded' = {}
  /\ UNCHANGED <<disk, fundedDisk, clients>>

Start ==
  /\ ~up
  /\ \E v \in disk : store' = v
  /\ \E f \in fundedDisk : funded' = f
  /\ up' = TRUE
  /\ UNCHANGED <<disk, fundedDisk, clients>>

Next ==
  \/ \E c \in Contract : Create(c) \/ Rename(c) \/ Delete(c) \/ Sync(c)
  \/ \E s \in Secret, c \in Contract : BlindUtxo(s, c)
  \/ \E s \in Secret : AddInvoice(s)
  \/ \E H \in SUBSET Secret : AcceptTransfer(H)
  \/ Stop \/ Start

Spec == Init /\ [][Next]_vars

-----------------------------------------------------------------------------

\* v lists every invoice that was acknowledged, with the blinding where it belongs.
Lists(v) ==
  \A s \in Secret : \A c \in kept[s] : \E d \in v[c] :
    s \in d.invoices /\ (c \in owner[s] => s \in d.factors)

\* An invoice whose AddInvoice succeeded stays listed by every contract it named,
\* with its blinding, in memory and in the file, until the contract is deleted or
\* created anew: no failed store, request of another client or restart loses it.
AcknowledgedIsListed ==
  /\ up => Lists(store)
  /\ \A v \in disk : Lists(v)

\* A consignment that pays an acknowledged invoice is accepted with the blinding
\* revealed, at whichever attempt the RGB node accepts it; otherwise the asset would
\* be on a seal that nobody can open.
PaidIsRevealed == missed = {}

\* storage::Error::ContractExists: a contract whose policy already exists is
\* refused, so no step takes invoices or blindings from a contract that stays.
ExistingIsKept ==
  [][\A c \in Contract : \A d \in store[c], e \in store'[c] :
       d.invoices \subseteq e.invoices /\ d.factors \subseteq e.factors]_vars
=============================================================================
