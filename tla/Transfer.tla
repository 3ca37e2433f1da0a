-------------------------------- MODULE Transfer --------------------------------
(***************************************************************************)
(* Runtime::transfer, the ComposeTransfer request of one contract: coins   *)
(* are selected, a change address is taken from the cache, the RGB node    *)
(* moves the asset, and a tweak, a disclosure and a history record are     *)
(* kept in the contract storage and the RGB node before the client is      *)
(* given the transaction.  Every step that leaves the daemon's memory is   *)
(* an action: it may fail, and the daemon may stop before and after it.    *)
(*                                                                         *)
(* The daemon serves one request at a time, so the cache changes during a  *)
(* transfer by its own steps only.  There is one RGB asset.  Addition and  *)
(* subtraction of amounts wrap, as in a release build.                     *)
(***************************************************************************)
EXTENDS Integers, FiniteSets, Functions

CONSTANTS
  Coin,          \* outpoints of the contract
  Sats,          \* their values in bitcoin
  Asset,         \* the amounts of the asset cached for them
  Index,         \* change indexes in reach (a bound)
  Amounts,       \* asset_value of the requests
  Fees,          \* bitcoin_fee of the requests
  Giveaways,     \* giveaway of the requests paid to a descriptor
  Word,          \* 2^64: the number of values of the amounts' type
  MaxTransfers   \* bound on the number of composed transfers

ASSUME CoinAssumption ==
  /\ IsFiniteSet(Coin)
  /\ Sats \in [Coin -> Nat \ {0}] /\ Asset \in [Coin -> Nat]
ASSUME AmountAssumption ==
  /\ Word \in Nat \ {0} /\ MaxTransfers \in Nat
  /\ Amounts \cup Fees \cup Giveaways \subseteq 0 .. Word - 1

VARIABLES
  pc,          \* the next step of the handler
  plan,        \* the transfer it works on: {} or one
  count,       \* transfers begun
  cache,       \* the contract's cache in memory
  cacheDisk,   \* in its file: {} once unreadable, or the set of one state
  store,       \* the contract's storage in memory
  storeDisk,   \* in its file, likewise
  enclosed,    \* transfers whose disclosure the RGB node holds
  handed       \* transfers a client was given (history variable)

vars == <<pc, plan, count, cache, cacheDisk, store, storeDisk, enclosed, handed>>

\* TransferInfo: bitcoins, an asset to a blinded output, or an asset to a
\* descriptor, with a bitcoin giveaway.
Request ==
       [kind : {"bitcoin", "blind"}, value : Amounts, fee : Fees, giveaway : {0}]
  \cup [kind : {"descriptor"}, value : Amounts, fee : Fees, giveaway : Giveaways]
IsRgb(r) == r.kind # "bitcoin"

\* `inputs` are selected_utxos, `leftover` asset_change_outpoint, `index` the
\* change index, once taken, and `tweak` is there when the RGB node has put its
\* commitment into the change output.
Composed == [id : 1 .. MaxTransfers, req : Request, inputs : SUBSET Coin,
             leftover : SUBSET Coin, index : SUBSET Index, tweak : BOOLEAN]

\* `synced` says that unspent has its bitcoin entry.
CacheState == [synced : BOOLEAN, coins : SUBSET Coin, used : SUBSET Index]
StoreState == [tweaks : SUBSET (1 .. MaxTransfers), ops : SUBSET Composed]
NoCache    == [synced |-> FALSE, coins |-> {}, used |-> {}]
NoStore    == [tweaks |-> {}, ops |-> {}]

Optional(S) == \A x, y \in S : x = y

\* The two files, which keep what DurableStore promises (FileDriver shows it).
CacheFile   == INSTANCE DurableStore WITH
  Fresh <- NoCache, view <- IF pc = "down" THEN {} ELSE {cache}, durable <- cacheDisk
StorageFile == INSTANCE DurableStore WITH
  Fresh <- NoStore, view <- IF pc = "down" THEN {} ELSE {store}, durable <- storeDisk

TypeOK ==
  /\ pc \in {"idle", "change", "connect", "rgb", "tweak", "enclose", "register", "down"}
  /\ plan \subseteq Composed /\ Optional(plan)
  /\ pc \in {"idle", "down"} <=> plan = {}
  /\ count \in 0 .. MaxTransfers
  /\ cache \in CacheState /\ cacheDisk \subseteq CacheState /\ Optional(cacheDisk)
  /\ store \in StoreState /\ storeDisk \subseteq StoreState /\ Optional(storeDisk)
  /\ enclosed \subseteq 1 .. MaxTransfers
  /\ handed \subseteq Composed

Init ==
  /\ pc = "idle" /\ plan = {} /\ count = 0
  /\ cache = NoCache /\ cacheDisk = {NoCache}
  /\ store = NoStore /\ storeDisk = {NoStore}
  /\ enclosed = {} /\ handed = {}

-----------------------------------------------------------------------------
(* Amounts, and the selection of coins. *)

Plus(x, y) == (x + y) % Word

\* The coins a transfer selects from, and what they are worth to it:
\* Driver::unspent for the asset, Driver::unspent_bitcoin_only otherwise.
Pool(r)     == {c \in cache.coins : IsRgb(r) <=> Asset[c] > 0}
Worth(r, c) == IF IsRgb(r) THEN Asset[c] ELSE Sats[c]

AssetSum(S)    == SumFunctionOnSet(Asset, S)
SatSum(S)      == SumFunctionOnSet(Sats, S)
WorthSum(r, S) == IF IsRgb(r) THEN AssetSum(S) ELSE SatSum(S)

\* Bitcoins and assets in existence are counted by the type: adding up coins
\* does not wrap.
ASSUME SupplyAssumption ==
  \A S \in SUBSET Coin : AssetSum(S) \in 0 .. Word - 1 /\ SatSum(S) \in 0 .. Word - 1

\* asset_value + asset_fee
Target(r) == Plus(r.value, IF IsRgb(r) THEN 0 ELSE r.fee)

\* Variant: the coins are not reversed, so the smallest are taken first.
PicksSmallest(r) ==
  {I \in SUBSET Pool(r) :
     /\ \A c \in I, d \in Pool(r) \ I : Worth(r, c) <= Worth(r, d)
     /\ WorthSum(r, I) >= Target(r)
     /\ \A c \in I : (\A d \in I : Worth(r, c) >= Worth(r, d))
                       => WorthSum(r, I \ {c}) < Target(r)}

\* Coins are taken in descending order until their sum reaches the target; equal
\* ones are in any order.  There is no such set when the funds are insufficient.
Picks(r) ==
  {I \in SUBSET Pool(r) :
     /\ \A c \in I, d \in Pool(r) \ I : Worth(r, c) >= Worth(r, d)
     /\ WorthSum(r, I) >= Target(r)
     /\ \A c \in I : (\A d \in I : Worth(r, c) <= Worth(r, d))
                       => WorthSum(r, I \ {c}) < Target(r)}

\* Variant: the last coin that is taken, instead of the first one that is not.
LastTaken(r, I) ==
  IF I = {} THEN {{}}
  ELSE {{c} : c \in {d \in I : \A e \in I : Worth(r, d) <= Worth(r, e)}}

\* The first coin that is not taken, as a set: empty when all are.
Leftovers(r, I) ==
  IF I = Pool(r) THEN {{}}
  ELSE {{c} : c \in {d \in Pool(r) \ I : \A e \in Pool(r) \ I : Worth(r, d) >= Worth(r, e)}}

\* bitcoin_value: what the output to the beneficiary pays.
BitcoinValue(r) == IF IsRgb(r) THEN r.giveaway ELSE r.value

\* Variant: the fee is left out of the change.
ChangeWithFee(t) ==
  IF SatSum(t.inputs) > Plus(BitcoinValue(t.req), t.req.fee)
  THEN SatSum(t.inputs) - BitcoinValue(t.req) ELSE 0

\* bitcoin_input_amount - bitcoin_value - bitcoin_fee, when it is positive.
BitcoinChange(t) ==
  IF SatSum(t.inputs) > Plus(BitcoinValue(t.req), t.req.fee)
  THEN SatSum(t.inputs) - Plus(BitcoinValue(t.req), t.req.fee) ELSE 0

\* asset_input_amount - asset_value
RgbChange(t) == IF IsRgb(t.req) THEN AssetSum(t.inputs) - t.req.value ELSE 0

-----------------------------------------------------------------------------
(* The handler. *)

Kept == <<cache, cacheDisk, store, storeDisk, enclosed, handed>>

\* FileDriver::store of the cache and of the storage, as its callers see it.
CacheStored(answered)   == cacheDisk' \in CacheFile!Outcomes({cache'}, answered)
StorageStored(answered) == storeDisk' \in StorageFile!Outcomes({store'}, answered)

\* Driver::update, by a sync between two transfers (ChainSync models it).
Sync(S) ==
  /\ pc = "idle"
  /\ cache' = [cache EXCEPT !.synced = TRUE, !.coins = S]
  /\ \E answered \in BOOLEAN : CacheStored(answered)
  /\ UNCHANGED <<pc, plan, count, store, storeDisk, enclosed, handed>>

\* Everything up to the change address reads the cache only.  Requests that lack
\* funds, have no bitcoin entry in the cache or nowhere to put an RGB change are
\* refused, and change nothing.
Compose(r) ==
  /\ pc = "idle" /\ cache.synced
  /\ count < MaxTransfers /\ cache.used # Index
  /\ \E I \in Picks(r) : \E l \in Leftovers(r, I) :
       LET t == [id |-> count + 1, req |-> r, inputs |-> I, leftover |-> l,
                 index |-> {}, tweak |-> FALSE] IN
         /\ RgbChange(t) > 0 => l # {} \/ BitcoinChange(t) > 0
         /\ plan' = {t}
         /\ pc' = IF BitcoinChange(t) > 0 THEN "change" ELSE "connect"
  /\ count' = count + 1
  /\ UNCHANGED Kept

\* Variant: the transfer goes on when the index could not be stored.
TakeChangeAnyway ==
  /\ pc = "change"
  /\ \E t \in plan, i \in Index \ cache.used, answered \in BOOLEAN :
       /\ cache' = [cache EXCEPT !.used = @ \cup {i}]
       /\ CacheStored(answered)
       /\ plan' = {[t EXCEPT !.index = {i}]}
       /\ pc'   = "connect"
  /\ UNCHANGED <<count, store, storeDisk, enclosed, handed>>

\* Variant: the index is noted in memory when the cache is stored already.
TakeChangeLater ==
  /\ pc = "change"
  /\ \E t \in plan, i \in Index \ cache.used, answered \in BOOLEAN :
       /\ cache' = [cache EXCEPT !.used = @ \cup {i}]
       /\ cacheDisk' \in CacheFile!Outcomes({cache}, answered)
       /\ plan' = IF answered THEN {[t EXCEPT !.index = {i}]} ELSE {}
       /\ pc'   = IF answered THEN "connect" ELSE "idle"
  /\ UNCHANGED <<count, store, storeDisk, enclosed, handed>>

\* next_unused_derivation and use_address_derivation: an index no transfer holds
\* (AddressBook shows that it is one).
TakeChange ==
  /\ pc = "change"
  /\ \E t \in plan, i \in Index \ cache.used, answered \in BOOLEAN :
       /\ cache' = [cache EXCEPT !.used = @ \cup {i}]
       /\ CacheStored(answered)
       /\ plan' = IF answered THEN {[t EXCEPT !.index = {i}]} ELSE {}
       /\ pc'   = IF answered THEN "connect" ELSE "idle"
  /\ UNCHANGED <<count, store, storeDisk, enclosed, handed>>

\* ElectrumClient::new.  Previous transactions that cannot be had are left out of
\* the PSBT without an error.
Connect ==
  /\ pc = "connect"
  /\ pc' = IF \E t \in plan : IsRgb(t.req) THEN "rgb" ELSE "register"
  /\ UNCHANGED <<plan, count, Kept>>

\* rgb20_client.transfer: the node puts its commitment into our change output, or
\* into one of another kind.
RgbTransfer ==
  /\ pc = "rgb"
  /\ \E t \in plan, w \in BOOLEAN :
       /\ w => t.index # {}
       /\ plan' = {[t EXCEPT !.tweak = w]}
       /\ pc' = IF w THEN "tweak" ELSE "enclose"
  /\ UNCHANGED <<count, Kept>>

\* storage.add_p2c_tweak
AddTweak ==
  /\ pc = "tweak"
  /\ \E t \in plan, answered \in BOOLEAN :
       /\ store' = [store EXCEPT !.tweaks = @ \cup {t.id}]
       /\ StorageStored(answered)
       /\ plan' = IF answered THEN plan ELSE {}
       /\ pc'   = IF answered THEN "enclose" ELSE "idle"
  /\ UNCHANGED <<count, cache, cacheDisk, enclosed, handed>>

\* rgb20_client.enclose
Enclose ==
  /\ pc = "enclose"
  /\ enclosed' = enclosed \cup {t.id : t \in plan}
  /\ pc' = "register"
  /\ UNCHANGED <<plan, count, cache, cacheDisk, store, storeDisk, handed>>

\* Variant: the client is answered whether or not the record could be stored.
RegisterAnyway ==
  /\ pc = "register"
  /\ \E t \in plan, answered \in BOOLEAN :
       /\ store' = [store EXCEPT !.ops = @ \cup {t}]
       /\ StorageStored(answered)
       /\ handed' = handed \cup {t}
  /\ pc' = "idle" /\ plan' = {}
  /\ UNCHANGED <<count, cache, cacheDisk, enclosed>>

\* storage.register_operation, and the reply with the PSBT.
Register ==
  /\ pc = "register"
  /\ \E t \in plan, answered \in BOOLEAN :
       /\ store' = [store EXCEPT !.ops = @ \cup {t}]
       /\ StorageStored(answered)
       /\ handed' = IF answered THEN handed \cup {t} ELSE handed
  /\ pc' = "idle" /\ plan' = {}
  /\ UNCHANGED <<count, cache, cacheDisk, enclosed>>

\* Variant: what the transfer was doing is not dropped.
FailKeepsPlan ==
  /\ pc \in {"connect", "rgb", "enclose"}
  /\ pc' = "idle"
  /\ UNCHANGED <<plan, count, Kept>>

\* The Electrum server or the RGB node (transfer, enclose) fails: `?` ends the
\* handler.  The node may have enclosed the disclosure before the call fails.
Fail ==
  /\ pc \in {"connect", "rgb", "enclose"}
  /\ pc' = "idle" /\ plan' = {}
  /\ \/ UNCHANGED enclosed
     \/ pc = "enclose" /\ enclosed' = enclosed \cup {t.id : t \in plan}
  /\ UNCHANGED <<count, cache, cacheDisk, store, storeDisk, handed>>

Stop ==
  /\ pc # "down"
  /\ pc' = "down" /\ plan' = {}
  /\ cache' = NoCache /\ store' = NoStore
  /\ UNCHANGED <<count, cacheDisk, storeDisk, enclosed, handed>>

Start ==
  /\ pc = "down"
  /\ \E c \in cacheDisk, s \in storeDisk : cache' = c /\ store' = s
  /\ pc' = "idle"
  /\ UNCHANGED <<plan, count, cacheDisk, storeDisk, enclosed, handed>>

Next ==
  \/ \E S \in SUBSET Coin : Sync(S)
  \/ \E r \in Request : Compose(r)
  \/ TakeChange \/ Connect \/ RgbTransfer \/ AddTweak \/ Enclose \/ Register
  \/ Fail \/ Stop \/ Start

Spec == Init /\ [][Next]_vars

-----------------------------------------------------------------------------

\* What a request's value and fee lose when they are added up: the type's size if
\* they exceed it, which nothing checks.
Overflow(r) == IF BitcoinValue(r) + r.fee < Word THEN 0 ELSE Word

\* What comes in goes out: the inputs of a transfer of bitcoins, and of any that
\* has a bitcoin change, pay the beneficiary, the fee and the change, no more and
\* no less (two look-ups of the cache: coin selection adds up unspent_bitcoin_only
\* or the asset's coins, the change is taken from unspent).  Of a request whose
\* value and fee exceed the type nothing is refused: its transaction pays out what
\* the addition lost, exactly 2^64 more than it takes in.
BitcoinConserved ==
  \A t \in plan \cup handed : ~IsRgb(t.req) \/ BitcoinChange(t) > 0 =>
    SatSum(t.inputs) + Overflow(t.req) =
      BitcoinValue(t.req) + t.req.fee + BitcoinChange(t)

\* No asset is lost: the inputs hold what is paid, and what they hold beyond it
\* is sealed to a coin that the transaction does not spend, or to its own change.
AssetChangeIsSealed ==
  \A t \in plan \cup handed : IsRgb(t.req) =>
    /\ RgbChange(t) >= 0
    /\ t.leftover \cap t.inputs = {}
    /\ RgbChange(t) > 0 => t.leftover # {} \/ BitcoinChange(t) > 0

\* Taking the most valuable coins first, no selection with fewer coins would do.
FewestCoins ==
  \A t \in plan : \A J \in SUBSET Pool(t.req) :
    WorthSum(t.req, J) >= Target(t.req) => Cardinality(t.inputs) <= Cardinality(J)

\* A client is given a transaction only when all that is needed to follow it is
\* kept, in memory and in the files, through any failure and restart: its history
\* record, the tweak without which its change cannot be found or spent, the used
\* index of the change, and the disclosure of the asset's transfer.
HandedOutIsRecorded ==
  \A t \in handed :
    /\ \A s \in storeDisk \cup {u \in {store} : pc # "down"} :
         t \in s.ops /\ (t.tweak => t.id \in s.tweaks)
    /\ \A c \in cacheDisk \cup {d \in {cache} : pc # "down"} : t.index \subseteq c.used
    /\ IsRgb(t.req) => t.id \in enclosed

\* Both files keep up with memory through every step of a transfer: what changes
\* in one of the two stores is stored there and then, as it is in memory; the other
\* one is left alone; a daemon that starts has what each file had last.
FilesKeepUp == CacheFile!Spec /\ StorageFile!Spec

\* Transactions that clients were given pay their change to different addresses,
\* whatever fails and restarts between them.
OneChangePerIndex ==
  \A t, u \in handed : t.index \cap u.index # {} => t = u

\* What the comment on missing bitcoin inputs asks for: the inputs are enough for
\* the outputs and for the fee that the history record calls paid_bitcoin_fee.
FeeIsPaid ==
  \A t \in handed : SatSum(t.inputs) >= BitcoinValue(t.req) + t.req.fee
=============================================================================
