------------------------------- MODULE ChainSync -------------------------------
(***************************************************************************)
(* Runtime::chain_sync of one contract: the search for the contract's      *)
(* unspent outputs over an Electrum connection, the look-up of the RGB     *)
(* assets allocated to them, and the replacement of the contract's cache.  *)
(* Every Electrum call is a step of its own: between two of them the       *)
(* chain, the mempool and the wallet's coins may change.                   *)
(*                                                                         *)
(* Outpoints and transactions are numbers, in the order of the BTree maps  *)
(* and sets of the code.                                                   *)
(***************************************************************************)
EXTENDS Integers, SequencesExt

CONSTANTS
  Outpoint,    \* outputs that pay to a script of the contract
  TxOf,        \* the transaction of each outpoint
  ScriptOf,    \* the script each outpoint pays to
  Value,       \* bitcoin value of each outpoint
  Asset,       \* RGB assets
  Amount,      \* what the RGB node says of each outpoint: amounts of the assets
  Tweaks,      \* outpoints recorded in ContractData::p2c_tweaks
  Largest,     \* UnhardenedIndex::largest()
  Depths,      \* lookup_depth values clients ask for
  MaxHeight,   \* bound on the chain's height
  MaxReorgs    \* bound on the number of reorganisations

Index  == 0 .. Largest
Script == [kind : {"policy", "nested", "tweak"}, index : Index]
Tx     == {TxOf[o] : o \in Outpoint}
Unseen == -1

ASSUME OutpointAssumption ==
  /\ Outpoint \subseteq Nat /\ IsFiniteSet(Outpoint)
  /\ TxOf \in [Outpoint -> Nat]
  /\ \A o, p \in Outpoint : o < p => TxOf[o] <= TxOf[p]
  /\ ScriptOf \in [Outpoint -> Script]
  /\ Value \in [Outpoint -> Nat] /\ Amount \in [Outpoint -> [Asset -> Nat]]
  /\ Tweaks \subseteq Outpoint
ASSUME BoundAssumption ==
  /\ Largest \in Nat \ {0} /\ Depths \subseteq Nat
  /\ MaxHeight \in Nat \ {0} /\ MaxReorgs \in Nat

VARIABLES
  conf, tip, spent, reorgs,                 \* the chain, as Electrum reports it
  used,                                     \* used_address_derivations' indexes
  pc, depth, last, offset, batch, found,    \* locals of chain_sync
  empty, unspent, outpoints, mineInfo,
  coins, assets, utxo, mined,               \* the contract's cache and mine_info
  steady, seen, skipped               \* history variables

chain == <<conf, tip, spent, reorgs>>
cache == <<coins, assets, utxo, mined>>
vars  == <<conf, tip, spent, reorgs, used, pc, depth, last, offset, batch,
           found, empty, unspent, outpoints, mineInfo, coins, assets, utxo,
           mined, steady, seen, skipped>>

Coin == [out : Outpoint, height : Nat, pos : Nat, value : Nat]
Mine == [height : Nat, pos : Nat, tx : Tx]

TypeOK ==
  /\ conf \in [Tx -> {Unseen} \cup (0 .. MaxHeight)]
  /\ tip \in 1 .. MaxHeight /\ reorgs \in 0 .. MaxReorgs
  /\ spent \subseteq Outpoint /\ used \subseteq Index
  /\ pc \in {"idle", "list", "resolve", "assets"}
  /\ depth \in Depths \cup {0} /\ last \in Index /\ offset \in Index
  /\ batch \subseteq Script
  /\ found \subseteq [height : 0 .. MaxHeight, out : Outpoint]
  /\ empty \in BOOLEAN
  /\ unspent \in Seq(Coin) /\ outpoints \subseteq Outpoint
  /\ mineInfo \subseteq Mine /\ mined \subseteq Mine
  /\ coins \subseteq Coin /\ assets \subseteq [asset : Asset, coin : Coin]
  /\ utxo \subseteq Outpoint
  /\ steady \subseteq Outpoint /\ seen \subseteq Outpoint
  /\ skipped \subseteq Outpoint

Init ==
  /\ conf \in [Tx -> {Unseen, 0, 1}]
  /\ tip = 1 /\ spent = {} /\ reorgs = 0
  /\ used = {}
  /\ pc = "idle" /\ depth = 0 /\ last = 0 /\ offset = 0
  /\ batch = {} /\ found = {} /\ empty = FALSE
  /\ unspent = <<>> /\ outpoints = {} /\ mineInfo = {}
  /\ coins = {} /\ assets = {} /\ utxo = {} /\ mined = {}
  /\ steady = {} /\ seen = {} /\ skipped = {}

-----------------------------------------------------------------------------
(* The chain as Electrum serves it (external). *)

\* Position of a transaction among the wallet's transactions of its block.
BlockPos(tx) == Cardinality({t \in Tx : conf[t] = conf[tx] /\ t < tx})

\* Variant: outputs are listed by history, spent or not.
ListHistory(scripts) ==
  {[height |-> conf[TxOf[o]], out |-> o] :
     o \in {p \in Outpoint : ScriptOf[p] \in scripts /\ conf[TxOf[p]] # Unseen}}

\* blockchain.scripthash.listunspent for every script of the batch.
ListUnspent(scripts) ==
  {[height |-> conf[TxOf[o]], out |-> o] :
     o \in {p \in Outpoint \ spent : ScriptOf[p] \in scripts /\ conf[TxOf[p]] # Unseen}}

Mature(o) == conf[TxOf[o]] > 0 /\ o \notin spent
AllMature == {o \in Outpoint : Mature(o)}

\* What has been mature while the sync was under way (history).
Watch == seen' = IF pc = "idle" THEN seen ELSE seen \cup AllMature'

SyncVars == <<used, pc, depth, last, offset, batch, found, empty, unspent,
              outpoints, mineInfo, coins, assets, utxo, mined, skipped>>

Broadcast(tx) ==
  /\ conf[tx] = Unseen
  /\ conf' = [conf EXCEPT ![tx] = 0]
  /\ UNCHANGED <<tip, spent, reorgs, steady, seen, SyncVars>>

MineBlock(txs) ==
  /\ tip < MaxHeight
  /\ \A t \in txs : conf[t] = 0
  /\ tip' = tip + 1
  /\ conf' = [t \in Tx |-> IF t \in txs THEN tip + 1 ELSE conf[t]]
  /\ UNCHANGED <<spent, reorgs, steady, SyncVars>> /\ Watch

\* The block at the tip is replaced by one that holds other transactions.
Reorg(txs) ==
  /\ reorgs < MaxReorgs
  /\ \A t \in txs : conf[t] \in {0, tip}
  /\ reorgs' = reorgs + 1
  /\ conf' = [t \in Tx |-> IF t \in txs THEN tip
                          ELSE IF conf[t] = tip THEN 0 ELSE conf[t]]
  /\ steady' = {o \in steady : conf[TxOf[o]] = tip => TxOf[o] \in txs}
  /\ UNCHANGED <<tip, spent, SyncVars>> /\ Watch

\* A published transfer, or another device with the same keys, spends a coin.
Spend(o) ==
  /\ o \notin spent /\ conf[TxOf[o]] # Unseen
  /\ spent' = spent \cup {o}
  /\ steady' = steady \ {o}
  /\ UNCHANGED <<conf, tip, reorgs, seen, SyncVars>>

Environment ==
  \/ \E tx \in Tx : Broadcast(tx)
  \/ \E txs \in SUBSET Tx : MineBlock(txs) \/ Reorg(txs)
  \/ \E o \in Outpoint : Spend(o)

-----------------------------------------------------------------------------
(* The handler. *)

\* Driver::last_used_derivation(..).unwrap_or_default(): the one greatest index.
LastUsed == {i \in used \cup {0} : \A j \in used : j <= i}

\* Driver::use_address_derivation and Driver::forget_address, of NextAddress and
\* UnuseAddress requests (AddressBook models them).
UseAddress(i) ==
  /\ pc = "idle" /\ i \notin used
  /\ used' = used \cup {i}
  /\ UNCHANGED <<chain, cache, pc, depth, last, offset, batch, found, empty,
                 unspent, outpoints, mineInfo, steady, seen, skipped>>

ForgetAddress(i) ==
  /\ pc = "idle" /\ i \in used
  /\ used' = used \ {i}
  /\ UNCHANGED <<chain, cache, pc, depth, last, offset, batch, found, empty,
                 unspent, outpoints, mineInfo, steady, seen, skipped>>

\* A SyncContract request: the first batch holds the known tweaked scripts.
Start(d) ==
  /\ pc = "idle"
  /\ pc' = "list" /\ depth' = d /\ last' \in LastUsed /\ offset' = 0
  /\ batch' = {ScriptOf[o] : o \in Tweaks}
  /\ unspent' = <<>> /\ outpoints' = {} /\ mineInfo' = {}
  /\ found' = {} /\ empty' = FALSE
  /\ steady' = AllMature /\ seen' = AllMature /\ skipped' = {}
  /\ UNCHANGED <<chain, cache, used>>

\* batch_script_list_unspent
List ==
  /\ pc = "list"
  /\ found' = ListUnspent(batch)
  /\ empty' = (ListUnspent(batch) = {})
  /\ pc' = "resolve"
  /\ UNCHANGED <<chain, cache, used, depth, last, offset, batch, unspent,
                 outpoints, mineInfo, steady, seen, skipped>>

\* Keys of the batch's map, (height, txid), are visited in increasing order.
Key(f)     == <<f.height, TxOf[f.out]>>
Keys       == {Key(f) : f \in found}
KeyLeq(k, l) == k[1] < l[1] \/ (k[1] = l[1] /\ k[2] <= l[2])
IsNext(k)  == \A l \in Keys : KeyLeq(k, l)
Group(k)   == {f.out : f \in {g \in found : Key(g) = k}}
Rest(k)    == {f \in found : Key(f) # k}

\* Outputs of one transaction are pushed in the order of the batch's scripts.
Rank(o) == IF ScriptOf[o].kind = "policy" THEN ScriptOf[o].index ELSE 0
PushOrder(o, p) == Rank(o) < Rank(p) \/ (Rank(o) = Rank(p) /\ o < p)
Orders(S) == {s \in [1 .. Cardinality(S) -> S] :
                \A i, j \in 1 .. Cardinality(S) : i < j => PushOrder(s[i], s[j])}

\* extend/insert of a map from (height, pos): the new entries replace.
Extended(m, new) ==
  {e \in m : \A n \in new : <<e.height, e.pos>> # <<n.height, n.pos>>} \cup new

\* Variant: the position of the transaction in its block is not asked for.
NoPosition(tx) == 0

\* res.pos of the merkle proof.  Its truncation to u16 is left out, as that of output
\* numbers is: no block has room for 2^16 transactions, nor a transaction that nodes
\* relay for as many outputs.
Position(tx) == BlockPos(tx)

\* transaction_get_merkle answers: the outputs not met before become coins.
Resolve(k) ==
  /\ pc = "resolve" /\ IsNext(k)
  /\ k[1] > 0 /\ conf[k[2]] = k[1]
  /\ LET pos == Position(k[2]) IN
       /\ mineInfo' = Extended(mineInfo, {[height |-> k[1], pos |-> pos, tx |-> k[2]]})
       /\ \E new \in Orders(Group(k) \ outpoints) :
            unspent' = unspent \o [i \in 1 .. Cardinality(Group(k) \ outpoints) |->
              [out |-> new[i], height |-> k[1], pos |-> pos, value |-> Value[new[i]]]]
  /\ outpoints' = outpoints \cup Group(k)
  /\ found' = Rest(k)
  /\ UNCHANGED <<chain, cache, used, pc, depth, last, offset, batch, empty,
                 steady, seen, skipped>>

\* Variant: what could not be located is asked for again.
MerkleRetries(k) ==
  /\ pc = "resolve" /\ IsNext(k)
  /\ skipped' = skipped \cup Group(k)
  /\ UNCHANGED <<chain, cache, used, pc, depth, last, offset, batch, found, empty,
                 unspent, outpoints, mineInfo, steady, seen>>

\* transaction_get_merkle fails (an unmined transaction, a reorganised one, a
\* server error): a warning is logged and the outputs are passed over.
MerkleFails(k) ==
  /\ pc = "resolve" /\ IsNext(k)
  /\ skipped' = skipped \cup Group(k)
  /\ found' = Rest(k)
  /\ UNCHANGED <<chain, cache, used, pc, depth, last, offset, batch, empty,
                 unspent, outpoints, mineInfo, steady, seen>>

\* Variants: the first empty batch ends the search; a range that ends at the last
\* used index ends it; the largest index does not.
EndsAtGap     == empty \/ offset = Largest
EndsAtLast    == (empty /\ offset >= last) \/ offset = Largest
EndsOnlyEmpty == empty /\ offset > last

\* The two `break`s of the loop.
SearchEnds == (empty /\ offset > last) \/ offset = Largest

\* Variant: the addition is not checked.
AdvanceUnchecked == offset + depth

\* index_offset.checked_add(lookup_depth).unwrap_or(largest)
Advance == IF offset + depth <= Largest THEN offset + depth ELSE Largest

\* Variant: the nested forms are derived beside the native ones.
DeriveBoth(from, to) == [kind : {"policy", "nested"}, index : from .. to - 1]

\* Policy::derive_scripts(from..index_offset): the native forms only.
DeriveScripts(from, to) == {[kind |-> "policy", index |-> i] : i \in from .. to - 1}

NextBatch ==
  /\ pc = "resolve" /\ found = {} /\ ~SearchEnds
  /\ offset' = Advance
  /\ batch' = DeriveScripts(offset, Advance)
  /\ pc' = "list"
  /\ UNCHANGED <<chain, cache, used, depth, last, found, empty, unspent,
                 outpoints, mineInfo, steady, seen, skipped>>

StopSearch ==
  /\ pc = "resolve" /\ found = {} /\ SearchEnds
  /\ pc' = "assets"
  /\ UNCHANGED <<chain, cache, used, depth, last, offset, batch, found, empty,
                 unspent, outpoints, mineInfo, steady, seen, skipped>>

\* Variant: pairs are numbered from one.
ZippedFromOne == {z \in (1 .. Len(unspent)) \X outpoints :
                    Cardinality({p \in outpoints : p < z[2]}) = z[1]}

\* unspent.iter_mut().zip(outpoints.iter()): the i-th coin found is given the
\* assets of the i-th outpoint in order.
Zipped == {z \in (1 .. Len(unspent)) \X outpoints :
             Cardinality({p \in outpoints : p < z[2]}) = z[1] - 1}

\* The coins recorded for each asset.
CoinsOf(a) == {[unspent[z[1]] EXCEPT !.value = Amount[z[2]][a]] :
                 z \in {y \in Zipped : Amount[y[2]][a] > 0}}
AssetCoins == UNION {{[asset |-> a, coin |-> u] : u \in CoinsOf(a)} : a \in Asset}

\* The handler's locals go out of scope.
Return ==
  /\ pc' = "idle" /\ depth' = 0 /\ last' = 0 /\ offset' = 0
  /\ batch' = {} /\ found' = {} /\ empty' = FALSE
  /\ unspent' = <<>> /\ outpoints' = {} /\ mineInfo' = {}
  /\ steady' = {} /\ seen' = {} /\ skipped' = {}

\* outpoint_assets of every pair, then Driver::update of the cache.  It changes
\* the cache in memory before it stores it, so a failing store changes it too
\* (FileDriver models the store).
Update ==
  /\ pc = "assets"
  /\ coins' = {u \in ToSet(unspent) : u.value > 0}
  /\ assets' = AssetCoins
  /\ utxo' = outpoints
  /\ mined' = Extended(mined, mineInfo)
  /\ Return /\ UNCHANGED <<chain, used>>

\* The connection, listunspent, the RGB node or what is read of the storage before
\* them fails: `?` ends the handler.
Fail ==
  /\ pc \in {"list", "assets"}
  /\ Return /\ UNCHANGED <<chain, cache, used>>

Handler ==
  \/ List
  \/ \E k \in Keys : Resolve(k) \/ MerkleFails(k)
  \/ NextBatch \/ StopSearch \/ Update \/ Fail

Next ==
  \/ Environment
  \/ \E i \in Index : UseAddress(i) \/ ForgetAddress(i)
  \/ \E d \in Depths : Start(d)
  \/ Handler

Spec == Init /\ [][Next]_vars

\* The handler's thread runs on; nothing is assumed of clients or the chain.
FairSpec == Spec /\ WF_vars(Handler)

-----------------------------------------------------------------------------
(* What the search is for. *)

\* The outputs a search has to look at whatever the lookup depth is: those of
\* known tweaked scripts, and those of the policy's scripts up to the last used
\* index.  Index Largest itself ends the last range, which excludes it.
Due(o) ==
  \/ \E t \in Tweaks : ScriptOf[o] = ScriptOf[t]
  \/ /\ ScriptOf[o].kind = "policy"
     /\ ScriptOf[o].index <= last /\ ScriptOf[o].index < Largest

\* A search that ends has found every due output that was mined and unspent
\* from its start to now, except those whose merkle look-up failed: no gap in
\* the coins makes it stop before the last used derivation, and no batch is
\* passed over (chain_sync, the stop conditions against the ranges).
SearchIsComplete ==
  pc = "assets" => \A o \in steady : Due(o) => o \in outpoints \cup skipped

\* No sync brings back a coin that was spent before it started, or one that never
\* was mined, whatever an earlier sync found: each output it collects was mined
\* and unspent at some moment of this very sync.
NoSpentCoins == outpoints \subseteq seen

\* Pairing coins with outpoints by position loses and duplicates no asset: the
\* amounts cached add up to what the RGB node holds on the contract's outpoints.
AssetTotal ==
  \A a \in Asset :
    SumFunction([r \in {q \in assets : q.asset = a} |-> r.coin.value])
      = SumFunction([o \in utxo |-> Amount[o][a]])

\* Every cached coin can be located: the merged mine_info maps its recorded
\* height and offset to its own transaction (blockpos_to_txid), across syncs
\* and while blocks are found during a sync, as long as no block is replaced.
CoinsAreLocated ==
  \A u \in coins : u.height > 0 /\
    \E m \in mined : m = [height |-> u.height, pos |-> u.pos, tx |-> TxOf[u.out]]

\* A bound on what a sync has yet to do: for each index that is left, and for the
\* batch at hand, one step to list it, one for each output and one to go on.
Left ==
  (Largest - offset) * (Cardinality(Outpoint) + 3) +
    CASE pc = "list"    -> Cardinality(Outpoint) + 2
      [] pc = "resolve" -> Cardinality(found) + 1
      [] OTHER          -> 0

\* Every step of a sync with a lookup depth ends it or leaves less to do, whatever
\* is found, fails or is listed at the largest index; no step of the chain adds to
\* what is left.  So a sync asks the servers a bounded number of times.
SyncAdvances ==
  [][pc # "idle" /\ depth > 0 =>
       pc' = "idle" \/ (0 <= Left' /\ Left' < Left) \/ UNCHANGED SyncVars]_vars

\* A sync with a lookup depth ends in a reply, however the chain moves and
\* whatever is found: the offset reaches the last used index and an empty batch,
\* or the largest index.
SyncReplies == (pc # "idle" /\ depth > 0) ~> (pc = "idle")

\* A sync with lookup depth 0 never updates the cache: its ranges are empty and
\* neither stop condition becomes true.
ZeroDepthNeverUpdates == depth = 0 => pc # "assets"

\* Driver::unspent_bitcoin_only: the coins whose outpoint no cached asset names.
UnspentBitcoinOnly == {u \in coins : \A r \in assets : r.coin.out # u.out}

\* What the transfer's comment asks of coin selection: a coin picked for a pure
\* bitcoin transfer carries no RGB asset.
BitcoinOnlyIsAssetFree ==
  \A u \in UnspentBitcoinOnly, a \in Asset : Amount[u.out][a] = 0

\* Whatever the depth, the gaps and the answers, a sync does what CoinSearch
\* promises: the rest of the daemon needs to know no more of it.
Search == INSTANCE CoinSearch WITH
  up <- TRUE, mature <- AllMature, tweaks <- Tweaks, busy <- pc # "idle"
ImplementsCoinSearch == Search!Spec
=============================================================================
