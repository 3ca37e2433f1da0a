---------------------------- MODULE ChainSync_proofs ----------------------------
(***************************************************************************)
(* ChainSync keeps its types, a search that ends is complete, and every    *)
(* sync does what CoinSearch promises, for any set of outpoints, any       *)
(* largest index, any lookup depths and any number of blocks and           *)
(* reorganisations.  Without reorganisations the cached coins are located. *)
(***************************************************************************)
EXTENDS ChainSync, SumTheorems, TLAPS

USE DEF Unseen

LEMMA TxIsFinite == IsFiniteSet(Tx)
<1>1. TxOf \in Surjection(Outpoint, Tx)
  BY OutpointAssumption DEF Tx, Surjection
<1> QED BY <1>1, OutpointAssumption, FS_Surjection

LEMMA BlockPosType == ASSUME NEW tx PROVE BlockPos(tx) \in Nat
<1>1. {t \in Tx : conf[t] = conf[tx] /\ t < tx} \subseteq Tx
  OBVIOUS
<1> QED BY <1>1, TxIsFinite, FS_Subset, FS_CardinalityType DEF BlockPos

LEMMA ConstantTypes ==
  ASSUME NEW o \in Outpoint
  PROVE  /\ TxOf[o] \in Tx /\ TxOf[o] \in Nat /\ ScriptOf[o] \in Script
         /\ Value[o] \in Nat /\ Amount[o] \in [Asset -> Nat]
  BY OutpointAssumption DEF Tx

-----------------------------------------------------------------------------
(* What one pass of the loop works on. *)

LEMMA FoundType ==
  ASSUME TypeOK, NEW scripts
  PROVE  ListUnspent(scripts) \subseteq [height : 0 .. MaxHeight, out : Outpoint]
<1> SUFFICES ASSUME NEW o \in Outpoint, conf[TxOf[o]] # Unseen
             PROVE  conf[TxOf[o]] \in 0 .. MaxHeight
  BY DEF ListUnspent
<1> QED BY ConstantTypes DEF TypeOK

LEMMA KeyType ==
  ASSUME TypeOK, NEW k \in Keys
  PROVE  k[1] \in 0 .. MaxHeight /\ k[2] \in Tx
  BY ConstantTypes DEF TypeOK, Keys, Key

LEMMA GroupType ==
  ASSUME TypeOK, NEW k
  PROVE  Group(k) \subseteq Outpoint /\ Rest(k) \subseteq found
  BY DEF TypeOK, Group, Rest

\* Every listed output is in the group taken next or is left for later.
LEMMA GroupOrRest ==
  ASSUME NEW k, NEW f \in found
  PROVE  f.out \in Group(k) \/ f \in Rest(k)
  BY DEF Group, Rest

-----------------------------------------------------------------------------
(* Types. *)

LEMMA ZeroIsIndex == 0 \in Index
  BY BoundAssumption DEF Index

LEMMA NoCoins == <<>> \in Seq(Coin)
  OBVIOUS

LEMMA InitTypes == Init => TypeOK
<1> SUFFICES ASSUME Init PROVE TypeOK
  OBVIOUS
<1>1. conf \in [Tx -> {Unseen} \cup (0 .. MaxHeight)] /\ tip \in 1 .. MaxHeight
      /\ reorgs \in 0 .. MaxReorgs
  BY BoundAssumption DEF Init
<1> QED BY <1>1, ZeroIsIndex, NoCoins DEF Init, TypeOK

LEMMA EnvironmentTypes == TypeOK /\ Environment => TypeOK'
<1> SUFFICES ASSUME TypeOK, Environment PROVE TypeOK'
  OBVIOUS
<1> USE BoundAssumption DEF TypeOK, SyncVars, Watch, AllMature
<1>1. CASE \E tx \in Tx : Broadcast(tx)
  BY <1>1 DEF Broadcast
<1>2. CASE \E txs \in SUBSET Tx : MineBlock(txs)
  BY <1>2 DEF MineBlock
<1>3. CASE \E txs \in SUBSET Tx : Reorg(txs)
  BY <1>3 DEF Reorg
<1>4. CASE \E o \in Outpoint : Spend(o)
  BY <1>4 DEF Spend
<1> QED BY <1>1, <1>2, <1>3, <1>4 DEF Environment

LEMMA ClientTypes ==
  ASSUME TypeOK, (\E i \in Index : UseAddress(i) \/ ForgetAddress(i)) \/ (\E d \in Depths : Start(d))
  PROVE  TypeOK'
<1> USE DEF TypeOK, chain, cache
<1>1. CASE \E i \in Index : UseAddress(i) \/ ForgetAddress(i)
  BY <1>1 DEF UseAddress, ForgetAddress
<1>2. CASE \E d \in Depths : Start(d)
  <2> PICK d \in Depths : Start(d)
    BY <1>2
  <2>1. last' \in Index /\ offset' \in Index
    <3>1. used \cup {0} \subseteq Index
      BY ZeroIsIndex
    <3> QED BY <3>1, ZeroIsIndex DEF Start, LastUsed
  <2>2. batch' \subseteq Script
    BY OutpointAssumption, ConstantTypes DEF Start
  <2> QED BY <2>1, <2>2, NoCoins DEF Start, AllMature
<1> QED BY <1>1, <1>2

LEMMA ResolveTypes ==
  ASSUME TypeOK, NEW k \in Keys, Resolve(k)
  PROVE  TypeOK'
<1> DEFINE pos == Position(k[2])
           new == Group(k) \ outpoints
<1>1. k[1] \in 0 .. MaxHeight /\ k[1] \in Nat /\ k[2] \in Tx /\ pos \in Nat
  BY KeyType, BlockPosType, BoundAssumption DEF Position
<1>2. mineInfo' \subseteq Mine
  BY <1>1 DEF Resolve, Extended, Mine, TypeOK
<1>3. unspent' \in Seq(Coin)
  <2>1. IsFiniteSet(new) /\ Cardinality(new) \in Nat /\ new \subseteq Outpoint
    BY GroupType, OutpointAssumption, FS_Subset, FS_CardinalityType
  <2>2. PICK s \in Orders(new) : unspent' = unspent \o [i \in 1 .. Cardinality(new) |->
              [out |-> s[i], height |-> k[1], pos |-> pos, value |-> Value[s[i]]]]
    BY DEF Resolve
  <2>3. [i \in 1 .. Cardinality(new) |->
              [out |-> s[i], height |-> k[1], pos |-> pos, value |-> Value[s[i]]]]
          \in Seq(Coin)
    <3> SUFFICES ASSUME NEW i \in 1 .. Cardinality(new)
                 PROVE  [out |-> s[i], height |-> k[1], pos |-> pos, value |-> Value[s[i]]] \in Coin
      <4> HIDE DEF new, pos
      <4> QED BY <2>1
    <3>1. s[i] \in Outpoint
      BY <2>1 DEF Orders
    <3> QED BY <1>1, <3>1, ConstantTypes DEF Coin
  <2> QED BY <2>2, <2>3 DEF TypeOK
<1>4. outpoints' \subseteq Outpoint /\ found' \subseteq found
  BY GroupType DEF Resolve, TypeOK
<1> QED BY <1>2, <1>3, <1>4 DEF Resolve, TypeOK, chain, cache

LEMMA UpdateTypes ==
  ASSUME TypeOK, Update
  PROVE  TypeOK'
<1>1. coins' \subseteq Coin
  BY DEF TypeOK, Update, ToSet
<1>2. assets' \subseteq [asset : Asset, coin : Coin]
  <2>1. \A a \in Asset : CoinsOf(a) \subseteq Coin
    <3> SUFFICES ASSUME NEW a \in Asset, NEW z \in Zipped
                 PROVE  [unspent[z[1]] EXCEPT !.value = Amount[z[2]][a]] \in Coin
      BY DEF CoinsOf
    <3>1. unspent[z[1]] \in Coin /\ Amount[z[2]][a] \in Nat
      BY ConstantTypes DEF TypeOK, Zipped
    <3> QED BY <3>1 DEF Coin
  <2> QED BY <2>1 DEF Update, AssetCoins
<1>3. mined' \subseteq Mine
  BY DEF TypeOK, Update, Extended
<1> QED BY <1>1, <1>2, <1>3, ZeroIsIndex, NoCoins DEF TypeOK, Update, Return, chain

LEMMA HandlerTypes == ASSUME TypeOK, Handler PROVE TypeOK'
<1>1. CASE List
  BY <1>1, FoundType DEF List, TypeOK, chain, cache
<1>2. CASE \E k \in Keys : Resolve(k)
  BY <1>2, ResolveTypes
<1>3. CASE \E k \in Keys : MerkleFails(k)
  BY <1>3, GroupType DEF MerkleFails, TypeOK, chain, cache
<1>4. CASE NextBatch
  <2>1. Advance \in Index
    BY BoundAssumption DEF Advance, TypeOK, Index
  <2>2. DeriveScripts(offset, Advance) \subseteq Script
    BY <2>1, BoundAssumption DEF DeriveScripts, TypeOK, Index, Script
  <2> QED BY <1>4, <2>1, <2>2 DEF NextBatch, TypeOK, chain, cache
<1>5. CASE StopSearch
  BY <1>5 DEF StopSearch, TypeOK, chain, cache
<1>6. CASE Update
  BY <1>6, UpdateTypes
<1>7. CASE Fail
  BY <1>7, ZeroIsIndex, NoCoins DEF Fail, Return, TypeOK, chain, cache
<1> QED BY <1>1, <1>2, <1>3, <1>4, <1>5, <1>6, <1>7 DEF Handler

\* The types of every variable, in every reachable state.
THEOREM TypeCorrect == Spec => []TypeOK
<1>1. TypeOK /\ [Next]_vars => TypeOK'
  <2> SUFFICES ASSUME TypeOK, [Next]_vars PROVE TypeOK'
    OBVIOUS
  <2>1. CASE UNCHANGED vars
    BY <2>1 DEF vars, TypeOK
  <2> QED BY <2>1, EnvironmentTypes, ClientTypes, HandlerTypes DEF Next
<1> QED BY <1>1, InitTypes, PTL DEF Spec
-----------------------------------------------------------------------------
(* The search.  What makes its completeness inductive is what has been asked  *)
(* for so far: the tweaked scripts and the indexes below the offset.          *)

Searched(o) ==
  \/ \E t \in Tweaks : ScriptOf[o] = ScriptOf[t]
  \/ ScriptOf[o].kind = "policy" /\ ScriptOf[o].index < offset

Listed == {f.out : f \in found}

SteadyIsMature == \A o \in steady : Mature(o)
MatureIsSeen   == pc # "idle" => AllMature \subseteq seen
FoundIsSeen    == outpoints \subseteq seen /\ \A f \in found : f.height > 0 => f.out \in seen
FoundIsDerivable ==
  /\ \A s \in batch : s.kind = "policy" \/ \E t \in Tweaks : s = ScriptOf[t]
  /\ \A o \in outpoints \cup Listed : Search!Derivable(o)
NothingPending == pc \in {"idle", "list", "assets"} => found = {}
Coverage ==
  pc # "idle" => \A o \in steady : Searched(o) =>
    o \in outpoints \cup skipped \cup Listed \/ (pc = "list" /\ ScriptOf[o] \in batch)
SearchEnded == pc = "assets" => offset > last \/ offset = Largest
ZeroOffset  == (depth = 0 => offset = 0 /\ pc # "assets")

SearchInv ==
  /\ SteadyIsMature /\ MatureIsSeen /\ FoundIsSeen /\ FoundIsDerivable /\ NothingPending
  /\ Coverage /\ SearchEnded /\ ZeroOffset

LEMMA InitSearch == Init => SearchInv
  BY DEF Init, SearchInv, SteadyIsMature, MatureIsSeen, FoundIsSeen, FoundIsDerivable,
         NothingPending, Listed, Coverage, SearchEnded, ZeroOffset

\* The chain moves on: nothing the search has done is undone, an output that stays
\* among the steady ones stays mined and unspent, and what becomes so is seen.
LEMMA EnvironmentSearch ==
  ASSUME TypeOK, SearchInv, Environment
  PROVE  /\ SearchInv'
         /\ AllMature' \subseteq Outpoint /\ steady' \subseteq steady \cap AllMature'
         /\ seen' = IF pc # "idle" THEN seen \cup AllMature' ELSE seen
         /\ UNCHANGED <<used, pc, last, skipped, utxo>>
<1>1. steady' \subseteq steady
      /\ UNCHANGED <<pc, depth, last, offset, batch, found, outpoints, skipped, used, utxo>>
  BY DEF Environment, Broadcast, MineBlock, Reorg, Spend, SyncVars
<1>2. SteadyIsMature'
  <2> SUFFICES ASSUME NEW o \in steady' PROVE Mature(o)'
    BY DEF SteadyIsMature
  <2>1. o \in Outpoint /\ TxOf[o] \in Tx /\ conf[TxOf[o]] \in Nat /\ conf[TxOf[o]] > 0 /\ o \notin spent
    BY <1>1, ConstantTypes DEF TypeOK, SearchInv, SteadyIsMature, Mature
  <2>2. CASE \E tx \in Tx : Broadcast(tx)
    BY <2>1, <2>2 DEF Broadcast, Mature, TypeOK
  <2>3. CASE \E txs \in SUBSET Tx : MineBlock(txs)
    BY <2>1, <2>3 DEF MineBlock, Mature, TypeOK
  <2>4. CASE \E txs \in SUBSET Tx : Reorg(txs)
    BY <2>1, <2>4 DEF Reorg, Mature, TypeOK
  <2>5. CASE \E p \in Outpoint : Spend(p)
    BY <2>1, <2>5 DEF Spend, Mature
  <2> QED BY <2>2, <2>3, <2>4, <2>5 DEF Environment
<1>3. seen' = IF pc # "idle" THEN seen \cup AllMature' ELSE seen
  <2>1. CASE (\E tx \in Tx : Broadcast(tx)) \/ (\E o \in Outpoint : Spend(o))
    <3>1. AllMature' \subseteq AllMature
      <4> SUFFICES ASSUME NEW o \in Outpoint, Mature(o)' PROVE Mature(o)
        BY DEF AllMature
      <4>1. TxOf[o] \in Tx
        BY ConstantTypes
      <4>2. CASE \E tx \in Tx : Broadcast(tx)
        BY <4>1, <4>2 DEF Broadcast, Mature, TypeOK
      <4>3. CASE \E q \in Outpoint : Spend(q)
        BY <4>3 DEF Spend, Mature
      <4> QED BY <2>1, <4>2, <4>3
    <3>2. seen' = seen
      BY <2>1 DEF Broadcast, Spend
    <3> QED BY <3>1, <3>2 DEF SearchInv, MatureIsSeen
  <2>2. CASE \E txs \in SUBSET Tx : MineBlock(txs) \/ Reorg(txs)
    BY <2>2 DEF MineBlock, Reorg, Watch
  <2> QED BY <2>1, <2>2 DEF Environment
<1>4. AllMature' \subseteq Outpoint /\ steady' \subseteq AllMature'
  BY <1>1, <1>2 DEF AllMature, SteadyIsMature, TypeOK
<1> QED
  BY <1>1, <1>2, <1>3, <1>4 DEF SearchInv, MatureIsSeen, FoundIsSeen, FoundIsDerivable,
     Search!Derivable, Search!Tweaked, NothingPending, Listed, Coverage, Searched, SearchEnded,
     ZeroOffset

LEMMA ClientSearch ==
  ASSUME TypeOK, SearchInv,
         (\E i \in Index : UseAddress(i) \/ ForgetAddress(i)) \/ (\E d \in Depths : Start(d))
  PROVE  SearchInv'
<1> USE DEF SearchInv, SteadyIsMature, MatureIsSeen, FoundIsSeen, FoundIsDerivable, NothingPending,
            Listed, Coverage, Searched, SearchEnded, ZeroOffset, chain, cache, Mature, AllMature,
            Search!Derivable, Search!Tweaked
<1>1. CASE \E i \in Index : UseAddress(i) \/ ForgetAddress(i)
  BY <1>1 DEF UseAddress, ForgetAddress
<1>2. CASE \E d \in Depths : Start(d)
  <2>1. \A o \in Outpoint : ScriptOf[o].index \in Nat
    BY ConstantTypes, BoundAssumption DEF Script, Index
  <2> QED BY <1>2, <2>1 DEF Start
<1> QED BY <1>1, <1>2

\* The answer of the server holds every steady output of the batch; what it holds
\* that is mined is unspent now, and all of it pays to a script of the batch.
LEMMA ListSearch == ASSUME TypeOK, SearchInv, List PROVE SearchInv'
<1>1. \A o \in steady : ScriptOf[o] \in batch => o \in Listed'
  <2> SUFFICES ASSUME NEW o \in steady, ScriptOf[o] \in batch PROVE o \in Listed'
    OBVIOUS
  <2>1. o \in Outpoint \ spent /\ conf[TxOf[o]] # Unseen
    BY DEF SearchInv, SteadyIsMature, Mature, TypeOK
  <2>2. [height |-> conf[TxOf[o]], out |-> o] \in found'
    BY <2>1 DEF List, ListUnspent
  <2> QED BY <2>2 DEF Listed
<1>2. Listed = {}
  BY DEF List, Listed, SearchInv, NothingPending
<1>3. FoundIsSeen'
  <2>1. \A f \in found' : f.height > 0 => f.out \in AllMature
    BY DEF List, ListUnspent, AllMature, Mature
  <2> QED BY <2>1 DEF SearchInv, FoundIsSeen, MatureIsSeen, List
<1>4. FoundIsDerivable'
  <2>1. \A o \in Listed' : ScriptOf[o] \in batch
    BY DEF List, ListUnspent, Listed
  <2> QED BY <2>1 DEF SearchInv, FoundIsDerivable, Search!Derivable, Search!Tweaked, List
<1> QED
  BY <1>1, <1>2, <1>3, <1>4 DEF List, SearchInv, SteadyIsMature, Mature, AllMature, MatureIsSeen,
     NothingPending, Coverage, Searched, SearchEnded, ZeroOffset, chain, cache

LEMMA GroupSearch ==
  ASSUME TypeOK, SearchInv, NEW k \in Keys, Resolve(k) \/ MerkleFails(k)
  PROVE  SearchInv'
<1>1. Group(k) \subseteq Listed /\ Listed' \subseteq Listed /\ Listed \subseteq Group(k) \cup Listed'
      /\ found' \subseteq found
  BY GroupOrRest DEF Group, Rest, Listed, Resolve, MerkleFails
<1>2. outpoints \subseteq outpoints' /\ skipped \subseteq skipped'
      /\ Group(k) \subseteq outpoints' \cup skipped' /\ outpoints' \subseteq outpoints \cup Group(k)
      /\ pc = "resolve"
      /\ UNCHANGED <<conf, spent, pc, depth, last, offset, batch, steady, seen>>
  BY DEF Resolve, MerkleFails, chain, cache
<1>3. FoundIsSeen'
  <2>1. Resolve(k) => Group(k) \subseteq seen
    <3>1. \A f \in found : Key(f) = k => f.height = k[1]
      BY DEF Key
    <3> QED BY <3>1 DEF Resolve, Group, SearchInv, FoundIsSeen
  <2>2. MerkleFails(k) => outpoints' = outpoints
    BY DEF MerkleFails
  <2> QED BY <1>1, <1>2, <2>1, <2>2 DEF SearchInv, FoundIsSeen
<1>4. FoundIsDerivable'
  BY <1>1, <1>2 DEF SearchInv, FoundIsDerivable, Search!Derivable, Search!Tweaked
<1> QED
  BY <1>1, <1>2, <1>3, <1>4 DEF SearchInv, SteadyIsMature, Mature, AllMature, MatureIsSeen,
     NothingPending, Coverage, Searched, SearchEnded, ZeroOffset

\* The next range starts where the last one ended.
LEMMA NextBatchSearch == ASSUME TypeOK, SearchInv, NextBatch PROVE SearchInv'
<1>1. \A o \in steady : Searched(o)' => Searched(o) \/ ScriptOf[o] \in batch'
  <2> SUFFICES ASSUME NEW o \in steady, ScriptOf[o].kind = "policy",
                      ScriptOf[o].index >= offset, ScriptOf[o].index < offset'
               PROVE  ScriptOf[o] \in batch'
    <3>1. \A o \in steady : ScriptOf[o].index \in Nat /\ offset \in Nat
      BY ConstantTypes, BoundAssumption DEF TypeOK, Script, Index
    <3> QED BY <3>1 DEF Searched
  <2>1. ScriptOf[o] \in Script /\ offset \in Nat /\ offset' = Advance /\ Advance \in Nat
    <3>1. o \in Outpoint /\ offset \in Index /\ depth \in Depths \cup {0}
      BY DEF TypeOK
    <3>2. offset \in Nat /\ depth \in Nat
      BY <3>1, BoundAssumption DEF Index
    <3> QED BY <3>1, <3>2, ConstantTypes, BoundAssumption DEF NextBatch, Advance
  <2>2. ScriptOf[o].index \in offset .. Advance - 1
    BY <2>1, BoundAssumption DEF Script, Index
  <2>3. ScriptOf[o] = [kind |-> "policy", index |-> ScriptOf[o].index]
    BY <2>1 DEF Script
  <2> QED BY <2>2, <2>3 DEF NextBatch, DeriveScripts
<1>2. depth = 0 => offset' = 0
  BY BoundAssumption DEF NextBatch, Advance, SearchInv, ZeroOffset, TypeOK, Index
<1>3. FoundIsDerivable'
  BY DEF NextBatch, DeriveScripts, SearchInv, FoundIsDerivable, Listed, Search!Derivable, Search!Tweaked
<1> QED
  BY <1>1, <1>2, <1>3 DEF NextBatch, SearchInv, SteadyIsMature, Mature, AllMature, MatureIsSeen,
     FoundIsSeen, Listed, NothingPending, Coverage, SearchEnded, ZeroOffset, chain, cache

LEMMA StopSearchInv == ASSUME TypeOK, SearchInv, StopSearch PROVE SearchInv'
<1>1. depth # 0
  <2>1. last \in 0 .. Largest /\ Largest \in Nat /\ Largest # 0 /\ (offset > last \/ offset = Largest)
    BY BoundAssumption DEF StopSearch, SearchEnds, TypeOK, Index
  <2>2. offset # 0
    BY <2>1
  <2> QED BY <2>2 DEF SearchInv, ZeroOffset
<1>2. Coverage' /\ SearchEnded'
  BY DEF StopSearch, SearchEnds, SearchInv, Coverage, Searched, SearchEnded, Listed
<1>3. (SteadyIsMature /\ MatureIsSeen /\ FoundIsSeen /\ FoundIsDerivable /\ NothingPending)'
  BY DEF StopSearch, SearchInv, SteadyIsMature, Mature, AllMature, MatureIsSeen, FoundIsSeen,
         FoundIsDerivable, Search!Derivable, Search!Tweaked, Listed, NothingPending, chain
<1> QED BY <1>1, <1>2, <1>3 DEF StopSearch, SearchInv, ZeroOffset

LEMMA ReturnSearch == ASSUME Return PROVE SearchInv'
  BY DEF Return, SearchInv, SteadyIsMature, MatureIsSeen, FoundIsSeen, FoundIsDerivable, Listed,
     NothingPending, Coverage, SearchEnded, ZeroOffset

LEMMA SearchStep == TypeOK /\ SearchInv /\ [Next]_vars => SearchInv'
<1> SUFFICES ASSUME TypeOK, SearchInv, [Next]_vars PROVE SearchInv'
  OBVIOUS
<1>1. CASE UNCHANGED vars
  BY <1>1 DEF vars, SearchInv, SteadyIsMature, Mature, AllMature, MatureIsSeen, FoundIsSeen,
     FoundIsDerivable, Search!Derivable, Search!Tweaked, Listed, NothingPending, Coverage, Searched,
     SearchEnded, ZeroOffset
<1>2. CASE Handler
  <2>1. CASE List        BY <2>1, ListSearch
  <2>2. CASE \E k \in Keys : Resolve(k) \/ MerkleFails(k)
    BY <2>2, GroupSearch
  <2>3. CASE NextBatch   BY <2>3, NextBatchSearch
  <2>4. CASE StopSearch  BY <2>4, StopSearchInv
  <2>5. CASE Update \/ Fail
    BY <2>5, ReturnSearch DEF Update, Fail
  <2> QED BY <1>2, <2>1, <2>2, <2>3, <2>4, <2>5 DEF Handler
<1> QED BY <1>1, <1>2, EnvironmentSearch, ClientSearch DEF Next

LEMMA SearchInvariance == Spec => [](TypeOK /\ SearchInv)
<1>1. Spec => []TypeOK
  BY TypeCorrect
<1>2. Spec /\ []TypeOK => []SearchInv
  BY InitSearch, SearchStep, PTL DEF Spec
<1> QED BY <1>1, <1>2, PTL

LEMMA SearchIsEnough == TypeOK /\ SearchInv => SearchIsComplete
<1> SUFFICES ASSUME TypeOK, SearchInv, pc = "assets", NEW o \in steady, Due(o)
             PROVE  o \in outpoints \cup skipped
  BY DEF SearchIsComplete
<1>1. Listed = {}
  BY DEF SearchInv, NothingPending, Listed
<1>2. ScriptOf[o].index \in Nat /\ last \in Nat /\ offset \in Nat
  BY ConstantTypes, BoundAssumption DEF TypeOK, Script, Index
<1>3. Searched(o)
  BY <1>2, BoundAssumption DEF Due, Searched, SearchInv, SearchEnded
<1> QED BY <1>1, <1>3 DEF SearchInv, Coverage

\* A search that ends has found, or passed over after a failed look-up, every
\* due output that was mined and unspent all along.
THEOREM SearchComplete == Spec => []SearchIsComplete
<1> QED BY SearchIsEnough, SearchInvariance, PTL

\* Whatever a sync collects was mined and unspent at some moment of it.
THEOREM NoCoinIsSpent == Spec => []NoSpentCoins
<1>1. SearchInv => NoSpentCoins
  BY DEF SearchInv, FoundIsSeen, NoSpentCoins
<1> QED BY <1>1, SearchInvariance, PTL

\* A sync with lookup depth 0 never gets to updating the cache.
THEOREM ZeroDepthIsStuck == Spec => []ZeroDepthNeverUpdates
<1>1. SearchInv => ZeroDepthNeverUpdates
  BY DEF SearchInv, ZeroOffset, ZeroDepthNeverUpdates
<1> QED BY <1>1, SearchInvariance, PTL
-----------------------------------------------------------------------------
(* CoinSearch. *)

\* Every step of a sync is a step of CoinSearch, or changes nothing of it.
THEOREM Refinement == Spec => ImplementsCoinSearch
<1>1. Init => Search!Init
  BY DEF Init, Search!Init, Search!Nothing, AllMature
<1>2. TypeOK /\ SearchInv /\ [Next]_vars => [Search!Next]_(Search!vars)
  <2> SUFFICES ASSUME TypeOK, SearchInv, [Next]_vars PROVE Search!Next \/ UNCHANGED Search!vars
    OBVIOUS
  <2> USE DEF Search!Next, Search!vars, AllMature, Mature, chain, cache
  <2>1. CASE UNCHANGED vars
    BY <2>1 DEF vars
  <2>2. CASE Environment
    BY <2>2, EnvironmentSearch DEF Search!ChainMoves
  <2>3. CASE \E i \in Index : UseAddress(i) \/ ForgetAddress(i)
    BY <2>3 DEF UseAddress, ForgetAddress, Search!Serve
  <2>4. CASE \E d \in Depths : Start(d)
    BY <2>4 DEF Start, LastUsed, Search!Begin, Search!LastUsed
  <2>5. CASE List
    BY <2>5 DEF List
  <2>6. CASE \E k \in Keys : Resolve(k)
    BY <2>6 DEF Resolve
  <2>7. CASE \E k \in Keys : MerkleFails(k)
    BY <2>7 DEF MerkleFails, Search!Skip
  <2>8. CASE NextBatch \/ StopSearch
    BY <2>8 DEF NextBatch, StopSearch
  <2>9. CASE Update
    <3>1. Search!Over
      BY <2>9 DEF Update, Return, Search!Over, Search!Nothing
    <3>2. Search!Finds(utxo')
      <4>1. utxo' = outpoints /\ pc = "assets"
        BY <2>9 DEF Update
      <4>2. {o \in steady : Search!Due(o)} \subseteq outpoints \cup skipped
        BY <4>1, SearchIsEnough DEF SearchIsComplete, Due, Search!Due, Search!Tweaked
      <4>3. outpoints \subseteq {o \in seen : Search!Derivable(o)}
        BY DEF SearchInv, FoundIsSeen, FoundIsDerivable
      <4> QED BY <4>1, <4>2, <4>3 DEF Search!Finds
    <3> QED BY <3>1, <3>2 DEF Search!Finish
  <2>10. CASE Fail
    BY <2>10 DEF Fail, Return, Search!Fail, Search!Over, Search!Nothing
  <2> QED BY <2>1, <2>2, <2>3, <2>4, <2>5, <2>6, <2>7, <2>8, <2>9, <2>10 DEF Next, Handler
<1> QED BY <1>1, <1>2, SearchInvariance, PTL DEF Spec, ImplementsCoinSearch, Search!Spec
-----------------------------------------------------------------------------
(* Locations.  Without reorganisations a mined transaction stays where it is, *)
(* so two entries with one height and position are of one transaction.        *)

NoReorgs  == reorgs = MaxReorgs
Confirmed == \A t \in Tx : conf[t] <= tip
Placed(m) == conf[m.tx] = m.height /\ m.height > 0 /\ m.pos = BlockPos(m.tx)
EntryOf(u) == [height |-> u.height, pos |-> u.pos, tx |-> TxOf[u.out]]

LocationInv ==
  /\ NoReorgs /\ Confirmed
  /\ \A m \in mineInfo \cup mined : Placed(m)
  /\ \A i \in 1 .. Len(unspent) : unspent[i].height > 0 /\ EntryOf(unspent[i]) \in mineInfo
  /\ \A u \in coins : u.height > 0 /\ EntryOf(u) \in mined

Before(tx) == {t \in Tx : conf[t] = conf[tx] /\ t < tx}

LEMMA TxIsNat == Tx \subseteq Nat
  BY ConstantTypes DEF Tx

LEMMA PositionIsLess ==
  ASSUME NEW t \in Tx, NEW u \in Tx, conf[t] = conf[u], t < u
  PROVE  BlockPos(t) < BlockPos(u)
<1>1. Before(t) \cup {t} \subseteq Before(u) /\ t \notin Before(t)
  <2>1. \A v \in Tx : v \in Nat
    BY TxIsNat
  <2>2. \A v \in Before(t) : v \in Tx /\ conf[v] = conf[u] /\ v < u
    BY <2>1 DEF Before
  <2>3. t \in Before(u) /\ ~ t < t
    BY <2>1 DEF Before
  <2> QED BY <2>2, <2>3 DEF Before
<1>2. IsFiniteSet(Before(u)) /\ IsFiniteSet(Before(t))
  BY TxIsFinite, FS_Subset DEF Before
<1>3. /\ Cardinality(Before(t) \cup {t}) = Cardinality(Before(t)) + 1
      /\ Cardinality(Before(t) \cup {t}) <= Cardinality(Before(u))
      /\ Cardinality(Before(t)) \in Nat /\ Cardinality(Before(u)) \in Nat
  BY <1>1, <1>2, FS_AddElement, FS_Subset, FS_CardinalityType
<1> QED BY <1>3 DEF BlockPos, Before

LEMMA PositionIsUnique ==
  ASSUME NEW t \in Tx, NEW u \in Tx, conf[t] = conf[u], BlockPos(t) = BlockPos(u)
  PROVE  t = u
<1>1. t < u \/ u < t \/ t = u
  BY TxIsNat
<1>2. BlockPos(t) \in Nat /\ BlockPos(u) \in Nat
  BY BlockPosType
<1> QED BY <1>1, <1>2, PositionIsLess

\* Merging entries of transactions that are where they say loses none.
LEMMA ExtendedLosesNone ==
  ASSUME NEW m \in SUBSET Mine, NEW new \in SUBSET Mine, \A e \in m \cup new : Placed(e)
  PROVE  Extended(m, new) = m \cup new
<1> SUFFICES ASSUME NEW e \in m, NEW n \in new, <<e.height, e.pos>> = <<n.height, n.pos>>
             PROVE  e = n
  BY DEF Extended
<1>1. e \in Mine /\ n \in Mine /\ e.height = n.height /\ e.pos = n.pos
  OBVIOUS
<1>2. e.tx = n.tx
  BY <1>1, PositionIsUnique DEF Placed, Mine
<1> QED BY <1>1, <1>2 DEF Mine

LEMMA InitLocation == ASSUME MaxReorgs = 0, Init PROVE LocationInv
  BY DEF Init, LocationInv, NoReorgs, Confirmed

\* New transactions and new blocks move no mined transaction.
LEMMA EnvironmentLocation ==
  ASSUME TypeOK, LocationInv, Environment
  PROVE  LocationInv'
<1>1. ~\E txs \in SUBSET Tx : Reorg(txs)
  BY DEF Reorg, LocationInv, NoReorgs, TypeOK
<1>2. UNCHANGED <<reorgs, mineInfo, mined, unspent, coins>>
  BY <1>1 DEF Environment, Broadcast, MineBlock, Spend, SyncVars
<1>3. Confirmed' /\ \A t, u \in Tx : conf[t] > 0 =>
        conf'[t] = conf[t] /\ (conf'[u] = conf[t] <=> conf[u] = conf[t])
  <2>1. \A t \in Tx : conf[t] \in Int /\ conf[t] <= tip /\ tip \in Nat
    BY BoundAssumption DEF TypeOK, LocationInv, Confirmed
  <2>2. ASSUME NEW tx \in Tx, Broadcast(tx) PROVE <1>3
    BY <2>1, <2>2 DEF Broadcast, Confirmed, TypeOK
  <2>3. ASSUME NEW txs \in SUBSET Tx, MineBlock(txs) PROVE <1>3
    BY <2>1, <2>3 DEF MineBlock, Confirmed, TypeOK
  <2>4. ASSUME NEW o \in Outpoint, Spend(o) PROVE <1>3
    BY <2>1, <2>4 DEF Spend, Confirmed
  <2> QED BY <1>1, <2>2, <2>3, <2>4 DEF Environment
<1>4. \A m \in mineInfo \cup mined : Placed(m)'
  <2> SUFFICES ASSUME NEW m \in mineInfo \cup mined PROVE Placed(m)'
    OBVIOUS
  <2>1. m.tx \in Tx /\ Placed(m)
    BY DEF TypeOK, Mine, LocationInv
  <2>2. Before(m.tx)' = Before(m.tx) /\ conf'[m.tx] = conf[m.tx]
    BY <1>3, <2>1 DEF Before, Placed
  <2>3. BlockPos(m.tx)' = BlockPos(m.tx)
    BY <2>2 DEF BlockPos, Before
  <2> QED BY <2>1, <2>2, <2>3 DEF Placed
<1> QED BY <1>2, <1>3, <1>4 DEF LocationInv, NoReorgs, EntryOf

LEMMA ResolveLocation ==
  ASSUME TypeOK, LocationInv, NEW k \in Keys, Resolve(k)
  PROVE  LocationInv'
<1> DEFINE pos == Position(k[2])
           new == Group(k) \ outpoints
           entry == [height |-> k[1], pos |-> pos, tx |-> k[2]]
<1>1. entry \in Mine /\ Placed(entry)
  BY KeyType, BlockPosType, BoundAssumption DEF Resolve, Placed, Position, Mine
<1>2. mineInfo' = mineInfo \cup {entry}
  <2>1. mineInfo' = Extended(mineInfo, {entry})
    BY DEF Resolve
  <2> HIDE DEF entry
  <2> QED BY <1>1, <2>1, ExtendedLosesNone DEF LocationInv, TypeOK
<1>3. \A i \in 1 .. Len(unspent') :
        unspent'[i].height > 0 /\ EntryOf(unspent'[i]) \in mineInfo'
  <2>1. IsFiniteSet(new) /\ Cardinality(new) \in Nat
    BY GroupType, OutpointAssumption, FS_Subset, FS_CardinalityType
  <2>2. PICK s \in Orders(new) : unspent' = unspent \o [i \in 1 .. Cardinality(new) |->
              [out |-> s[i], height |-> k[1], pos |-> pos, value |-> Value[s[i]]]]
    BY DEF Resolve
  <2> DEFINE tail == [i \in 1 .. Cardinality(new) |->
              [out |-> s[i], height |-> k[1], pos |-> pos, value |-> Value[s[i]]]]
  <2>3. \A i \in 1 .. Cardinality(new) :
          /\ tail[i].height = k[1] /\ EntryOf(tail[i]) = entry
    <3> SUFFICES ASSUME NEW i \in 1 .. Cardinality(new) PROVE TxOf[s[i]] = k[2]
      BY DEF EntryOf
    <3>1. s[i] \in Group(k)
      BY <2>1 DEF Orders
    <3> QED BY <3>1 DEF Group, Key
  <2> DEFINE Later == {tail[i] : i \in 1 .. Cardinality(new)}
  <2>4. Len(tail) = Cardinality(new) /\ unspent \in Seq(Coin) /\ tail \in Seq(Later)
    <3>1. unspent \in Seq(Coin)
      BY DEF TypeOK
    <3>2. tail \in [1 .. Cardinality(new) -> Later]
      OBVIOUS
    <3> HIDE DEF Later, tail, new
    <3> QED BY <2>1, <3>1, <3>2
  <2>5. k[1] > 0
    BY DEF Resolve
  <2> HIDE DEF tail, new, entry, pos
  <2>6. \A i \in 1 .. Len(unspent') :
          \/ i \in 1 .. Len(unspent) /\ unspent'[i] = unspent[i]
          \/ i - Len(unspent) \in 1 .. Cardinality(new) /\ unspent'[i] = tail[i - Len(unspent)]
    BY <2>1, <2>2, <2>4 DEF tail
  <2> QED BY <1>2, <2>3, <2>5, <2>6 DEF LocationInv
<1>4. UNCHANGED <<conf, tip, reorgs, mined, coins>>
  BY DEF Resolve, chain, cache
<1> HIDE DEF entry
<1> QED BY <1>1, <1>2, <1>3, <1>4 DEF LocationInv, NoReorgs, Confirmed, Placed, BlockPos, EntryOf

LEMMA UpdateLocation ==
  ASSUME TypeOK, LocationInv, Update
  PROVE  LocationInv'
<1>1. mined' = mined \cup mineInfo
  BY ExtendedLosesNone DEF Update, LocationInv, TypeOK
<1>2. \A u \in coins' : u.height > 0 /\ EntryOf(u) \in mineInfo
  BY DEF Update, ToSet, LocationInv, TypeOK
<1>3. unspent' = <<>> /\ mineInfo' = {} /\ UNCHANGED <<conf, tip, reorgs>>
  BY DEF Update, Return, chain
<1> QED BY <1>1, <1>2, <1>3 DEF LocationInv, NoReorgs, Confirmed, Placed, BlockPos, EntryOf

LEMMA LocationStep == TypeOK /\ LocationInv /\ [Next]_vars => LocationInv'
<1> SUFFICES ASSUME TypeOK, LocationInv, [Next]_vars PROVE LocationInv'
  OBVIOUS
<1> USE DEF chain, cache
<1>1. CASE /\ UNCHANGED <<conf, tip, reorgs, mined, coins>>
           /\ UNCHANGED <<unspent, mineInfo>> \/ (unspent' = <<>> /\ mineInfo' = {})
  BY <1>1 DEF LocationInv, NoReorgs, Confirmed, Placed, BlockPos, EntryOf
<1>2. CASE UNCHANGED vars
  BY <1>1, <1>2 DEF vars
<1>3. CASE \E i \in Index : UseAddress(i) \/ ForgetAddress(i)
  BY <1>1, <1>3 DEF UseAddress, ForgetAddress
<1>4. CASE \E d \in Depths : Start(d)
  BY <1>1, <1>4 DEF Start
<1>5. CASE List \/ NextBatch \/ StopSearch \/ Fail \/ \E k \in Keys : MerkleFails(k)
  BY <1>1, <1>5 DEF List, NextBatch, StopSearch, Fail, Return, MerkleFails
<1> QED BY <1>2, <1>3, <1>4, <1>5, EnvironmentLocation, ResolveLocation, UpdateLocation
    DEF Next, Handler

\* As long as no block is replaced, every cached coin can be located.
THEOREM Located == ASSUME MaxReorgs = 0 PROVE Spec => []CoinsAreLocated
<1>1. LocationInv => CoinsAreLocated
  BY DEF LocationInv, CoinsAreLocated, EntryOf
<1>2. Init => LocationInv
  BY InitLocation
<1> QED BY <1>1, <1>2, LocationStep, TypeCorrect, PTL DEF Spec
-----------------------------------------------------------------------------
(* Assets.  The coins found are as many as the outpoints, and no two are of    *)
(* one outpoint; so each outpoint's assets go to a coin of their own.          *)

OneCoinEach ==
  /\ Len(unspent) = Cardinality(outpoints)
  /\ \A i, j \in 1 .. Len(unspent) : unspent[i].out = unspent[j].out => i = j
  /\ \A i \in 1 .. Len(unspent) : unspent[i].out \in outpoints

\* The outputs of a transaction are pushed once each.
LEMMA OrdersAreInjective ==
  ASSUME NEW S \in SUBSET Outpoint, NEW s \in Orders(S), NEW n \in Nat, n = Cardinality(S)
  PROVE  /\ s \in [1 .. n -> S]
         /\ \A i, j \in 1 .. n : s[i] = s[j] => i = j
<1>1. s \in [1 .. n -> S] /\ \A i, j \in 1 .. n : i < j => PushOrder(s[i], s[j])
  BY DEF Orders
<1>2. \A o \in Outpoint : ~PushOrder(o, o)
  <2> TAKE o \in Outpoint
  <2>1. Rank(o) \in Nat /\ o \in Nat
    BY ConstantTypes, OutpointAssumption, BoundAssumption DEF Rank, Script, Index
  <2> QED BY <2>1 DEF PushOrder
<1>3. ASSUME NEW i \in 1 .. n, NEW j \in 1 .. n, s[i] = s[j] PROVE i = j
  <2>1. s[i] \in Outpoint /\ ~(i < j) /\ ~(j < i)
    BY <1>1, <1>2, <1>3
  <2> QED BY <2>1
<1> QED BY <1>1, <1>3

LEMMA ResolveCoins ==
  ASSUME TypeOK, OneCoinEach, NEW k \in Keys, Resolve(k)
  PROVE  OneCoinEach'
<1> DEFINE pos == Position(k[2])
           new == Group(k) \ outpoints
           n   == Cardinality(new)
<1>1. IsFiniteSet(new) /\ n \in Nat /\ new \subseteq Outpoint
  BY GroupType, OutpointAssumption, FS_Subset, FS_CardinalityType
<1>2. PICK s \in Orders(new) : unspent' = unspent \o [i \in 1 .. n |->
            [out |-> s[i], height |-> k[1], pos |-> pos, value |-> Value[s[i]]]]
  BY DEF Resolve
<1> DEFINE more == [i \in 1 .. n |->
            [out |-> s[i], height |-> k[1], pos |-> pos, value |-> Value[s[i]]]]
<1>3. s \in [1 .. n -> new] /\ \A i, j \in 1 .. n : s[i] = s[j] => i = j
  BY <1>1, OrdersAreInjective
<1>4. \A i \in 1 .. n : more[i].out = s[i]
  OBVIOUS
<1>5. outpoints' = outpoints \cup new
  BY DEF Resolve
<1>6. /\ IsFiniteSet(outpoints) /\ Cardinality(outpoints) \in Nat
      /\ Cardinality(outpoints \cup new) = Cardinality(outpoints) + n
  <2>1. IsFiniteSet(outpoints)
    BY OutpointAssumption, FS_Subset DEF TypeOK
  <2>2. outpoints \cap new = {} /\ Cardinality({}) = 0
    BY FS_EmptySet
  <2>3. Cardinality(outpoints \cup new) =
          Cardinality(outpoints) + Cardinality(new) - Cardinality(outpoints \cap new)
    BY <1>1, <2>1, FS_Union
  <2>4. Cardinality(outpoints) \in Nat
    BY <2>1, FS_CardinalityType
  <2>5. Cardinality(outpoints \cap new) = 0
    BY <2>2
  <2> HIDE DEF new
  <2> QED BY <1>1, <2>1, <2>3, <2>4, <2>5
<1> DEFINE Later == {more[i] : i \in 1 .. n}
<1>7. unspent \in Seq(Coin) /\ more \in Seq(Later) /\ Len(more) = n
  <2>1. unspent \in Seq(Coin)
    BY DEF TypeOK
  <2>2. more \in [1 .. n -> Later]
    OBVIOUS
  <2> HIDE DEF Later, more, new, n
  <2> QED BY <1>1, <2>1, <2>2
<1> HIDE DEF more, n, new, pos, Later
<1>8. /\ Len(unspent') = Len(unspent) + n
      /\ \A i \in 1 .. Len(unspent') :
           \/ i \in 1 .. Len(unspent) /\ unspent'[i] = unspent[i]
           \/ i - Len(unspent) \in 1 .. n /\ unspent'[i] = more[i - Len(unspent)]
  BY <1>1, <1>2, <1>7 DEF more
<1>9. \A o \in new : o \notin outpoints
  BY DEF new
<1>10. ASSUME NEW i \in 1 .. Len(unspent')
       PROVE  \/ i \in 1 .. Len(unspent) /\ unspent'[i] = unspent[i] /\ unspent'[i].out \in outpoints
              \/ /\ i - Len(unspent) \in 1 .. n /\ unspent'[i].out = s[i - Len(unspent)]
                 /\ unspent'[i].out \in new
  BY <1>3, <1>4, <1>8 DEF OneCoinEach
<1>11. ASSUME NEW i \in 1 .. Len(unspent'), NEW j \in 1 .. Len(unspent'),
              unspent'[i].out = unspent'[j].out
       PROVE  i = j
  <2>1. CASE i \in 1 .. Len(unspent) /\ unspent'[i] = unspent[i] /\ unspent'[i].out \in outpoints
    BY <1>9, <1>10, <1>11, <2>1 DEF OneCoinEach
  <2>2. CASE /\ i - Len(unspent) \in 1 .. n /\ unspent'[i].out = s[i - Len(unspent)]
             /\ unspent'[i].out \in new
    <3>1. j - Len(unspent) \in 1 .. n /\ unspent'[j].out = s[j - Len(unspent)]
      BY <1>9, <1>10, <1>11, <2>2
    <3>2. i - Len(unspent) = j - Len(unspent)
      BY <1>3, <1>11, <2>2, <3>1
    <3>3. Len(unspent) \in Nat
      BY <1>7
    <3> QED BY <3>2, <3>3
  <2> QED BY <1>10, <2>1, <2>2
<1>12. \A i \in 1 .. Len(unspent') : unspent'[i].out \in outpoints'
  BY <1>5, <1>10
<1>13. Len(unspent') = Cardinality(outpoints')
  BY <1>5, <1>6, <1>8 DEF OneCoinEach
<1> QED BY <1>11, <1>12, <1>13 DEF OneCoinEach

\* No coins and no outpoints, at the start of a sync and when it has ended.
LEMMA NoCoinsEach == ASSUME unspent = <<>>, outpoints = {} PROVE OneCoinEach
<1>1. Len(unspent) = 0 /\ Cardinality(outpoints) = 0
  BY FS_EmptySet
<1> QED BY <1>1 DEF OneCoinEach

LEMMA CoinsStep == TypeOK /\ OneCoinEach /\ [Next]_vars => OneCoinEach'
<1> SUFFICES ASSUME TypeOK, OneCoinEach, [Next]_vars PROVE OneCoinEach'
  OBVIOUS
<1>1. CASE UNCHANGED <<unspent, outpoints>>
  BY <1>1 DEF OneCoinEach
<1>2. CASE unspent' = <<>> /\ outpoints' = {}
  <2>1. Len(unspent') = 0 /\ Cardinality(outpoints') = 0
    BY <1>2, FS_EmptySet
  <2> QED BY <2>1 DEF OneCoinEach
<1>3. CASE Environment
  BY <1>1, <1>3 DEF Environment, Broadcast, MineBlock, Reorg, Spend, SyncVars
<1>4. CASE (\E i \in Index : UseAddress(i) \/ ForgetAddress(i)) \/ UNCHANGED vars
  BY <1>1, <1>4 DEF UseAddress, ForgetAddress, vars
<1>5. CASE (\E d \in Depths : Start(d)) \/ Update \/ Fail
  BY <1>2, <1>5 DEF Start, Update, Fail, Return
<1>6. CASE List \/ NextBatch \/ StopSearch \/ \E k \in Keys : MerkleFails(k)
  BY <1>1, <1>6 DEF List, NextBatch, StopSearch, MerkleFails
<1>7. CASE \E k \in Keys : Resolve(k)
  BY <1>7, ResolveCoins
<1> QED BY <1>3, <1>4, <1>5, <1>6, <1>7 DEF Next, Handler

LEMMA InitCoins == Init => OneCoinEach
  BY NoCoinsEach DEF Init

\* The place of an outpoint among the others gives it a coin that no other has.
Place(o) == Cardinality({p \in outpoints : p < o}) + 1

LEMMA Places ==
  ASSUME TypeOK, OneCoinEach
  PROVE  /\ \A o \in outpoints : Place(o) \in 1 .. Len(unspent)
         /\ \A o, p \in outpoints : Place(o) = Place(p) => o = p
         /\ Zipped = {<<Place(o), o>> : o \in outpoints}
<1> DEFINE Below(o) == {p \in outpoints : p < o}
<1>1. outpoints \subseteq Nat /\ IsFiniteSet(outpoints)
  BY OutpointAssumption, FS_Subset DEF TypeOK
<1>2. \A o \in outpoints : IsFiniteSet(Below(o)) /\ Cardinality(Below(o)) \in Nat
  BY <1>1, FS_Subset, FS_CardinalityType
<1>3. ASSUME NEW o \in outpoints, NEW S \in SUBSET outpoints, o \in S, Below(o) \subseteq S
      PROVE  Cardinality(Below(o)) + 1 <= Cardinality(S)
  <2>1. Below(o) \cup {o} \in SUBSET S /\ o \notin Below(o) /\ IsFiniteSet(S)
    <3>1. o \notin Below(o)
      BY <1>1
    <3> HIDE DEF Below
    <3> QED BY <1>1, <1>3, <3>1, FS_Subset
  <2> HIDE DEF Below
  <2>2. Cardinality(Below(o) \cup {o}) = Cardinality(Below(o)) + 1
    BY <1>2, <2>1, FS_AddElement
  <2>3. Cardinality(Below(o) \cup {o}) <= Cardinality(S)
    BY <2>1, FS_Subset
  <2> QED BY <2>2, <2>3
<1>4. \A o \in outpoints : Place(o) \in Nat /\ Place(o) >= 1 /\ Place(o) <= Len(unspent)
  <2> TAKE o \in outpoints
  <2>1. Cardinality(Below(o)) + 1 <= Cardinality(outpoints)
    BY <1>3
  <2>2. Place(o) = Cardinality(Below(o)) + 1
    BY DEF Place
  <2> HIDE DEF Below
  <2> QED BY <1>2, <2>1, <2>2 DEF OneCoinEach
<1>5. ASSUME NEW o \in outpoints, NEW p \in outpoints, o < p PROVE Place(o) < Place(p)
  <2>1. o \in Below(p) /\ Below(o) \subseteq Below(p) /\ Below(p) \in SUBSET outpoints
    <3>1. \A q \in outpoints : q < o => q < p
      BY <1>1, <1>5
    <3> QED BY <1>5, <3>1
  <2>2. Cardinality(Below(o)) + 1 <= Cardinality(Below(p))
    BY <1>3, <2>1
  <2>3. Place(o) = Cardinality(Below(o)) + 1 /\ Place(p) = Cardinality(Below(p)) + 1
    BY DEF Place
  <2> HIDE DEF Below
  <2> QED BY <1>2, <2>2, <2>3
<1>6. ASSUME NEW o \in outpoints, NEW p \in outpoints, Place(o) = Place(p) PROVE o = p
  <2>1. o < p \/ p < o \/ o = p
    BY <1>1
  <2> QED BY <1>4, <1>5, <1>6, <2>1
<1>7. \A o \in outpoints : Place(o) \in 1 .. Len(unspent)
  <2>1. Len(unspent) \in Nat
    BY DEF TypeOK
  <2> QED BY <1>4, <2>1
<1>8. Zipped = {<<Place(o), o>> : o \in outpoints}
  <2>1. ASSUME NEW z \in Zipped PROVE z = <<Place(z[2]), z[2]>> /\ z[2] \in outpoints
    <3>1. z \in (1 .. Len(unspent)) \X outpoints /\ Place(z[2]) = (z[1] - 1) + 1
      BY DEF Zipped, Place
    <3> QED BY <3>1
  <2>2. ASSUME NEW o \in outpoints PROVE <<Place(o), o>> \in Zipped
    <3>1. Cardinality({p \in outpoints : p < o}) = Place(o) - 1
      BY <1>2 DEF Place
    <3> QED BY <1>7, <3>1 DEF Zipped
  <2> QED BY <2>1, <2>2
<1> QED BY <1>6, <1>7, <1>8

\* What Update caches of an asset are the records of the outpoints that hold some.
LEMMA UpdateTotal == ASSUME TypeOK, OneCoinEach, Update PROVE AssetTotal'
<1> SUFFICES ASSUME NEW a \in Asset
             PROVE  SumFunction([r \in {q \in assets' : q.asset = a} |-> r.coin.value])
                      = SumFunction([o \in utxo' |-> Amount[o][a]])
  BY DEF AssetTotal
<1> DEFINE Holders == {o \in outpoints : Amount[o][a] > 0}
           record  == [o \in Holders |->
                        [asset |-> a, coin |-> [unspent[Place(o)] EXCEPT !.value = Amount[o][a]]]]
           Records == {q \in assets' : q.asset = a}
           worth   == [r \in Records |-> r.coin.value]
           holds   == [o \in outpoints |-> Amount[o][a]]
<1>1. assets' = AssetCoins /\ utxo' = outpoints
  BY DEF Update
<1>2. /\ IsFiniteSet(outpoints) /\ IsFiniteSet(Holders)
      /\ \A o \in outpoints : Amount[o][a] \in Nat
  BY OutpointAssumption, ConstantTypes, FS_Subset DEF TypeOK
<1>3. \A o \in outpoints : unspent[Place(o)] \in Coin
  BY Places DEF TypeOK
<1>4. \A o \in Holders : /\ record[o].asset = a /\ record[o].coin.value = Amount[o][a]
                          /\ record[o].coin.out = unspent[Place(o)].out
  BY <1>3 DEF Coin
<1>5. Records = {record[o] : o \in Holders}
  <2>1. Records = {[asset |-> a, coin |-> u] : u \in CoinsOf(a)}
    BY <1>1 DEF AssetCoins
  <2>2. CoinsOf(a) = {[unspent[Place(o)] EXCEPT !.value = Amount[o][a]] : o \in Holders}
    <3> DEFINE Given(z) == [unspent[z[1]] EXCEPT !.value = Amount[z[2]][a]]
               given(o) == [unspent[Place(o)] EXCEPT !.value = Amount[o][a]]
    <3>1. CoinsOf(a) = {Given(z) : z \in {y \in Zipped : Amount[y[2]][a] > 0}}
      BY DEF CoinsOf
    <3>2. {y \in Zipped : Amount[y[2]][a] > 0} = {<<Place(o), o>> : o \in Holders}
      <4>1. \A y : y \in Zipped <=> \E o \in outpoints : y = <<Place(o), o>>
        BY Places
      <4> QED BY <4>1
    <3>3. \A o \in Holders : Given(<<Place(o), o>>) = given(o)
      OBVIOUS
    <3>4. CoinsOf(a) = {Given(<<Place(o), o>>) : o \in Holders}
      <4> HIDE DEF Holders, Given
      <4> QED BY <3>1, <3>2
    <3> HIDE DEF Holders, Given, given
    <3>5. CoinsOf(a) = {given(o) : o \in Holders}
      BY <3>3, <3>4
    <3> QED BY <3>5 DEF given
  <2> HIDE DEF Records
  <2> QED BY <2>1, <2>2
<1> HIDE DEF Records
<1>6. record \in Bijection(Holders, Records)
  <2>1. record \in [Holders -> Records] /\ \A r \in Records : \E o \in Holders : record[o] = r
    BY <1>5
  <2>2. ASSUME NEW o \in Holders, NEW p \in Holders, record[o] = record[p] PROVE o = p
    <3>1. unspent[Place(o)].out = unspent[Place(p)].out
      <4> HIDE DEF record, Holders
      <4> QED BY <1>4, <2>2
    <3>2. Place(o) = Place(p)
      BY <3>1, Places DEF OneCoinEach
    <3> QED BY <3>2, Places
  <2> HIDE DEF record, Holders
  <2>3. IsInjective(record)
    BY <2>1, <2>2 DEF IsInjective
  <2> QED BY <2>1, <2>3 DEF Bijection, Injection, Surjection
<1>7. /\ \A o \in Holders : holds[o] \in Nat /\ worth[record[o]] = holds[o]
      /\ \A o \in outpoints : holds[o] \in Nat
      /\ \A o \in outpoints \ Holders : holds[o] = 0
  <2>1. \A o \in Holders : worth[record[o]] = holds[o]
    <3> TAKE o \in Holders
    <3>1. record[o] \in Records /\ record[o].coin.value = Amount[o][a]
      <4> HIDE DEF record, Holders
      <4> QED BY <1>4, <1>5
    <3>2. worth[record[o]] = record[o].coin.value /\ holds[o] = Amount[o][a]
      <4> HIDE DEF record
      <4> QED BY <3>1
    <3> QED BY <3>1, <3>2
  <2>2. \A o \in outpoints : holds[o] \in Nat /\ (o \notin Holders => holds[o] = 0)
    BY <1>2
  <2> HIDE DEF record, worth, holds
  <2> QED BY <2>1, <2>2
<1>8. outpoints \cap Holders = Holders
  OBVIOUS
<1>9. DOMAIN worth = Records /\ DOMAIN holds = outpoints
  OBVIOUS
<1> HIDE DEF record, worth, holds, Holders
<1>10. SumFunctionOnSet(worth, Records) = SumFunctionOnSet(holds, Holders)
  BY <1>2, <1>6, <1>7, SumBijection
<1>11. SumFunctionOnSet(holds, outpoints) = SumFunctionOnSet(holds, Holders)
  <2>1. SumFunctionOnSet(holds, outpoints \ Holders) = 0
    <3>1. IsFiniteSet(outpoints \ Holders)
      BY <1>2, FS_Difference
    <3> QED BY <1>7, <3>1, SumZero
  <2>2. SumFunctionOnSet(holds, Holders) \in Nat
    BY <1>2, <1>7, SumType
  <2>3. SumFunctionOnSet(holds, outpoints) =
          SumFunctionOnSet(holds, outpoints \cap Holders) + SumFunctionOnSet(holds, outpoints \ Holders)
    BY <1>2, <1>7, SumSplit
  <2> QED BY <1>8, <2>1, <2>2, <2>3
<1>12. SumFunction(worth) = SumFunction(holds)
  BY <1>9, <1>10, <1>11 DEF SumFunction
<1> QED BY <1>1, <1>12 DEF worth, holds, Records

\* Pairing coins and outpoints by their places loses and duplicates no asset.
THEOREM AssetsAddUp == Spec => []AssetTotal
<1>1. Init => AssetTotal
  <2> SUFFICES ASSUME Init, NEW a \in Asset
               PROVE  SumFunction([r \in {q \in assets : q.asset = a} |-> r.coin.value])
                        = SumFunction([o \in utxo |-> Amount[o][a]])
    BY DEF AssetTotal
  <2>1. \A w : DOMAIN w = {} => SumFunction(w) = 0
    BY SumEmpty DEF SumFunction
  <2> QED BY <2>1 DEF Init
<1>2. TypeOK /\ OneCoinEach /\ AssetTotal /\ [Next]_vars => AssetTotal'
  <2> SUFFICES ASSUME TypeOK, OneCoinEach, AssetTotal, [Next]_vars, ~Update PROVE AssetTotal'
    BY UpdateTotal
  <2>1. UNCHANGED <<assets, utxo>>
    BY DEF Next, vars, Environment, Broadcast, MineBlock, Reorg, Spend, SyncVars, UseAddress,
           ForgetAddress, Start, Handler, List, Resolve, MerkleFails, NextBatch, StopSearch, Fail,
           Return, cache
  <2> QED BY <2>1 DEF AssetTotal
<1> QED BY <1>1, <1>2, InitCoins, CoinsStep, TypeCorrect, PTL DEF Spec
-----------------------------------------------------------------------------
(* Progress.  A batch is bounded by the outputs there are, a group taken from  *)
(* it is not empty, and the offset grows with every batch.                     *)

LEMMA FoundIsFinite == ASSUME TypeOK PROVE IsFiniteSet(found)
<1> DEFINE Pairs   == (0 .. MaxHeight) \X Outpoint
           Records == [height : 0 .. MaxHeight, out : Outpoint]
           record  == [p \in Pairs |-> [height |-> p[1], out |-> p[2]]]
<1>1. IsFiniteSet(Pairs)
  <2>1. IsFiniteSet(0 .. MaxHeight)
    BY BoundAssumption, FS_Interval
  <2>2. IsFiniteSet(Outpoint)
    BY OutpointAssumption
  <2>3. \A S, T : IsFiniteSet(S) /\ IsFiniteSet(T) => IsFiniteSet(S \X T)
    BY FS_Product
  <2> QED BY <2>1, <2>2, <2>3
<1>2. record \in Surjection(Pairs, Records)
  <2>1. \A r \in Records : record[<<r.height, r.out>>] = r
    OBVIOUS
  <2>2. \A r \in Records : <<r.height, r.out>> \in Pairs
    OBVIOUS
  <2>3. record \in [Pairs -> Records]
    OBVIOUS
  <2> HIDE DEF record, Records, Pairs
  <2> QED BY <2>1, <2>2, <2>3 DEF Surjection
<1>3. IsFiniteSet(Records)
  <2> HIDE DEF record, Records, Pairs
  <2> QED BY <1>1, <1>2, FS_Surjection
<1> QED BY <1>3, FS_Subset DEF TypeOK

\* A server lists each output once.
LEMMA ListIsBounded ==
  ASSUME NEW scripts
  PROVE  /\ IsFiniteSet(ListUnspent(scripts)) /\ Cardinality(ListUnspent(scripts)) \in Nat
         /\ Cardinality(ListUnspent(scripts)) <= Cardinality(Outpoint)
<1> DEFINE Outs   == {p \in Outpoint \ spent : ScriptOf[p] \in scripts /\ conf[TxOf[p]] # Unseen}
           record == [o \in Outs |-> [height |-> conf[TxOf[o]], out |-> o]]
<1>1. /\ IsFiniteSet(Outs) /\ Cardinality(Outs) <= Cardinality(Outpoint)
      /\ Cardinality(Outs) \in Nat /\ Cardinality(Outpoint) \in Nat
  BY OutpointAssumption, FS_Subset, FS_CardinalityType
<1>2. record \in Surjection(Outs, ListUnspent(scripts))
  <2>1. ListUnspent(scripts) = {record[o] : o \in Outs}
    BY DEF ListUnspent
  <2>2. DOMAIN record = Outs /\ record \in [Outs -> {record[o] : o \in Outs}]
    OBVIOUS
  <2> HIDE DEF record, Outs
  <2> QED BY <2>1, <2>2 DEF Surjection
<1> HIDE DEF record, Outs
<1>3. /\ IsFiniteSet(ListUnspent(scripts))
      /\ Cardinality(ListUnspent(scripts)) <= Cardinality(Outs)
  BY <1>1, <1>2, FS_Surjection
<1>4. Cardinality(ListUnspent(scripts)) \in Nat
  BY <1>3, FS_CardinalityType
<1> QED BY <1>1, <1>3, <1>4

\* What is left after a group is less than what there was.
LEMMA RestIsLess ==
  ASSUME TypeOK, NEW k \in Keys
  PROVE  /\ Cardinality(found) \in Nat /\ Cardinality(Rest(k)) \in Nat
         /\ Cardinality(Rest(k)) < Cardinality(found)
<1>1. PICK f \in found : Key(f) = k
  BY DEF Keys
<1>2. Rest(k) \subseteq found /\ f \notin Rest(k)
  BY <1>1 DEF Rest
<1>3. IsFiniteSet(found) /\ IsFiniteSet(Rest(k)) /\ Rest(k) # found
  BY <1>2, FoundIsFinite, FS_Subset
<1>4. Cardinality(Rest(k)) <= Cardinality(found)
      /\ (Cardinality(Rest(k)) = Cardinality(found) => Rest(k) = found)
  BY <1>2, <1>3, FS_Subset
<1> QED BY <1>3, <1>4, FS_CardinalityType

LEMMA OneBatchLess ==
  ASSUME NEW a \in Nat, NEW b \in Nat, NEW w \in Nat, b < a
  PROVE  a * w \in Nat /\ b * w \in Nat /\ b * w + w <= a * w
<1> DEFINE c == a - b - 1
<1>1. c \in Nat /\ a = b + 1 + c
  OBVIOUS
<1> HIDE DEF c
<1>2. c * w \in Nat /\ b * w \in Nat
  BY <1>1
<1>3. a * w = b * w + w + c * w
  BY <1>1
<1> QED BY <1>2, <1>3

\* The offset, the size of a batch and a height are numbers.
LEMMA LeftTypes ==
  ASSUME TypeOK
  PROVE  /\ Largest - offset \in Nat /\ Cardinality(Outpoint) \in Nat
         /\ (Largest - offset) * (Cardinality(Outpoint) + 3) \in Nat
<1>1. Largest - offset \in Nat
  BY BoundAssumption DEF TypeOK, Index
<1>2. Cardinality(Outpoint) \in Nat
  BY OutpointAssumption, FS_CardinalityType
<1>3. \A a, w \in Nat : a * w \in Nat
  OBVIOUS
<1>4. Cardinality(Outpoint) + 3 \in Nat
  BY <1>2
<1> QED BY <1>1, <1>2, <1>3, <1>4

LEMMA GroupAdvances ==
  ASSUME TypeOK, NEW k \in Keys, Resolve(k) \/ MerkleFails(k)
  PROVE  0 <= Left' /\ Left' < Left
<1>1. pc = "resolve" /\ pc' = "resolve" /\ offset' = offset /\ found' = Rest(k)
  BY DEF Resolve, MerkleFails
<1> DEFINE ahead == (Largest - offset) * (Cardinality(Outpoint) + 3)
<1>2. Left = ahead + (Cardinality(found) + 1) /\ Left' = ahead + (Cardinality(Rest(k)) + 1)
  BY <1>1 DEF Left
<1>3. ahead \in Nat
  BY LeftTypes
<1> HIDE DEF ahead
<1> QED BY <1>2, <1>3, RestIsLess

LEMMA ListAdvances ==
  ASSUME TypeOK, List
  PROVE  0 <= Left' /\ Left' < Left
<1>1. pc = "list" /\ pc' = "resolve" /\ offset' = offset /\ found' = ListUnspent(batch)
  BY DEF List
<1> DEFINE ahead == (Largest - offset) * (Cardinality(Outpoint) + 3)
<1>2. /\ Left = ahead + (Cardinality(Outpoint) + 2)
      /\ Left' = ahead + (Cardinality(ListUnspent(batch)) + 1)
  BY <1>1 DEF Left
<1>3. ahead \in Nat /\ Cardinality(Outpoint) \in Nat
  BY LeftTypes
<1> HIDE DEF ahead
<1> QED BY <1>2, <1>3, ListIsBounded

LEMMA BatchAdvances ==
  ASSUME TypeOK, depth > 0, NextBatch
  PROVE  0 <= Left' /\ Left' < Left
<1>1. /\ pc = "resolve" /\ pc' = "list" /\ offset' = Advance /\ offset # Largest
      /\ Cardinality(found) = 0
  BY FS_EmptySet DEF NextBatch, SearchEnds
<1> DEFINE n == Cardinality(Outpoint)
           a == Largest - offset
           b == Largest - Advance
<1>2. a \in Nat /\ b \in Nat /\ b < a
  <2>1. depth \in Nat /\ offset \in 0 .. Largest /\ Largest \in Nat
    BY BoundAssumption DEF TypeOK, Index
  <2> QED BY <1>1, <2>1 DEF Advance
<1>3. n \in Nat
  BY LeftTypes
<1>4. Left = a * (n + 3) + (0 + 1) /\ Left' = b * (n + 3) + (n + 2)
  BY <1>1 DEF Left
<1> HIDE DEF n, a, b
<1>5. /\ a * (n + 3) \in Nat /\ b * (n + 3) \in Nat
      /\ b * (n + 3) + (n + 3) <= a * (n + 3)
  BY <1>2, <1>3, OneBatchLess
<1> DEFINE A == a * (n + 3)
           B == b * (n + 3)
<1>6. A \in Nat /\ B \in Nat /\ B + (n + 3) <= A /\ Left = A + 1 /\ Left' = B + (n + 2)
  BY <1>4, <1>5
<1> HIDE DEF A, B
<1> QED BY <1>3, <1>6

LEMMA StopAdvances ==
  ASSUME TypeOK, StopSearch
  PROVE  0 <= Left' /\ Left' < Left
<1>1. pc = "resolve" /\ pc' = "assets" /\ offset' = offset /\ Cardinality(found) = 0
  BY FS_EmptySet DEF StopSearch
<1> DEFINE ahead == (Largest - offset) * (Cardinality(Outpoint) + 3)
<1>2. Left = ahead + (0 + 1) /\ Left' = ahead + 0
  BY <1>1 DEF Left
<1>3. ahead \in Nat
  BY LeftTypes
<1> HIDE DEF ahead
<1> QED BY <1>2, <1>3

\* Every step of a sync ends it or leaves it less to do: with any outputs, any
\* lookup depth but zero and a chain that moves as it likes.
THEOREM Advances == Spec => SyncAdvances
<1>1. ASSUME TypeOK, [Next]_vars, pc # "idle", depth > 0
      PROVE  pc' = "idle" \/ (0 <= Left' /\ Left' < Left) \/ UNCHANGED SyncVars
  <2>1. CASE Environment
    BY <2>1 DEF Environment, Broadcast, MineBlock, Reorg, Spend
  <2>2. CASE UNCHANGED vars
    BY <2>2 DEF vars, SyncVars
  <2>3. CASE (\E i \in Index : UseAddress(i) \/ ForgetAddress(i)) \/ (\E d \in Depths : Start(d))
    BY <1>1, <2>3 DEF UseAddress, ForgetAddress, Start
  <2>4. CASE List
    BY <1>1, <2>4, ListAdvances
  <2>5. CASE \E k \in Keys : Resolve(k) \/ MerkleFails(k)
    BY <1>1, <2>5, GroupAdvances
  <2>6. CASE NextBatch
    BY <1>1, <2>6, BatchAdvances
  <2>7. CASE StopSearch
    BY <1>1, <2>7, StopAdvances
  <2>8. CASE Update \/ Fail
    BY <2>8 DEF Update, Fail, Return
  <2> QED BY <1>1, <2>1, <2>2, <2>3, <2>4, <2>5, <2>6, <2>7, <2>8 DEF Next, Handler
<1>2. TypeOK /\ [Next]_vars
        => [pc # "idle" /\ depth > 0 =>
              pc' = "idle" \/ (0 <= Left' /\ Left' < Left) \/ UNCHANGED SyncVars]_vars
  BY <1>1
<1> QED BY <1>2, TypeCorrect, PTL DEF Spec, SyncAdvances

\* Among the outputs that are left one comes next, by height and by transaction:
\* a sync that resolves is never stuck with some of them.
LEMMA SomeKeyIsNext ==
  ASSUME TypeOK, found # {}
  PROVE  \E k \in Keys : IsNext(k)
<1> DEFINE Heights == {k[1] : k \in Keys}
<1>1. Heights \subseteq Nat /\ Heights # {}
  <2>1. \A k \in Keys : k[1] \in Nat
    BY KeyType, BoundAssumption
  <2>2. Keys # {}
    BY DEF Keys
  <2> QED BY <2>1, <2>2
<1>2. PICK h \in Heights : \A g \in Heights : h <= g
  <2> HIDE DEF Heights
  <2> QED BY <1>1, LeastNumber
<1> DEFINE Txs == {k[2] : k \in {l \in Keys : l[1] = h}}
<1>3. Txs \subseteq Nat /\ Txs # {}
  <2>1. \A k \in Keys : k[2] \in Nat
    BY KeyType, OutpointAssumption DEF Tx
  <2>2. \E k \in Keys : k[1] = h
    BY <1>2
  <2> QED BY <2>1, <2>2
<1>4. PICK t \in Txs : \A u \in Txs : t <= u
  <2> HIDE DEF Txs
  <2> QED BY <1>3, LeastNumber
<1>5. PICK k \in Keys : k[1] = h /\ k[2] = t
  BY <1>4
<1>6. \A l \in Keys : KeyLeq(k, l)
  <2> TAKE l \in Keys
  <2>1. h <= l[1] /\ (l[1] = h => t <= l[2])
    BY <1>2, <1>4
  <2>2. h \in Nat /\ l[1] \in Nat
    BY <1>1, <1>2
  <2> QED BY <1>5, <2>1, <2>2 DEF KeyLeq
<1> QED BY <1>5, <1>6 DEF IsNext
=============================================================================
