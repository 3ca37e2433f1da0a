------------------------------ MODULE Wallet_proofs ------------------------------
(***************************************************************************)
(* The coins clients may expect are found, coins of settled transfers are  *)
(* not spent again, and the used addresses are an address book, for any    *)
(* largest index and any number of transactions, failures and restarts.    *)
(***************************************************************************)
EXTENDS Wallet, TLAPS

-----------------------------------------------------------------------------
(* The inductive invariant. *)

\* Addresses clients hold are used, in memory and in the file.
GivenIsUsed ==
  /\ pc # "down" => given \subseteq used
  /\ \A c \in cacheDisk : given \subseteq c.used

\* Tweaks of changes clients expect are known, in memory and in the file.
PromisedIsKept ==
  /\ pc # "down" => promised \subseteq tweaks
  /\ \A s \in storeDisk : promised \subseteq s.tweaks

\* A sync searches up to the greatest used index.
LastIsGreatest == pc = "sync" => \A a \in used : a.index <= last

\* Transfers have numbers of their own.
Numbered ==
  /\ \A t, u \in handed \cup plan : t.id = u.id => t = u
  /\ \A t \in handed \cup plan : t.id <= txs

\* Published transfers have spent their coins.
PublishedSpent == \A t \in published : t.inputs \subseteq spent

\* Only published transfers are settled.
SettledIsPublished ==
  /\ \A n \in settled : \E t \in published : t.id = n
  /\ \A u \in handed \cup plan : u.settled \subseteq settled

\* Coins of settled transfers are neither cached, in memory or in the file, nor
\* seen by a sync.
SettledIsGone ==
  \A t \in published : t.id \in settled =>
    /\ t.inputs \cap coins = {} /\ t.inputs \cap seen = {}
    /\ \A c \in cacheDisk : t.inputs \cap c.coins = {}

\* No transfer spends a coin of those that were settled when it was composed.
NotSpentAgain ==
  \A t \in published, u \in handed \cup plan : t.id \in u.settled => t.inputs \cap u.inputs = {}

IInv ==
  /\ TypeOK /\ GivenIsUsed /\ PromisedIsKept /\ LastIsGreatest
  /\ Numbered /\ PublishedSpent /\ SettledIsPublished /\ SettledIsGone /\ NotSpentAgain

LEMMA InitIInv == Init => IInv
<1> SUFFICES ASSUME Init PROVE IInv
  OBVIOUS
<1>1. NoCache \in CacheState /\ NoStore \in StoreState
  BY DEF NoCache, NoStore, CacheState, StoreState
<1>2. /\ cacheDisk \subseteq CacheState /\ Optional(cacheDisk)
      /\ storeDisk \subseteq StoreState /\ Optional(storeDisk)
  BY <1>1 DEF Init, Optional
<1>3. 0 \in Index /\ 0 \in 0 .. MaxTx /\ 0 \in 0 .. MaxFaults
  BY LargestAssumption, BoundAssumption DEF Index
<1>4. Funds \subseteq Outpoint
  BY FundsAssumption
<1>5. TypeOK
  BY <1>2, <1>3, <1>4 DEF Init, TypeOK, Optional
<1> QED BY <1>5
  DEF Init, IInv, GivenIsUsed, PromisedIsKept, LastIsGreatest, Numbered,
      PublishedSpent, SettledIsPublished, SettledIsGone, NotSpentAgain

-----------------------------------------------------------------------------
(* What a store leaves in its file. *)

LEMMA CacheStored ==
  ASSUME TypeOK, NEW answered \in BOOLEAN, StoreCache(answered),
         coins' \subseteq Outpoint, used' \subseteq Address
  PROVE  /\ cacheDisk' \subseteq CacheState /\ Optional(cacheDisk')
         /\ \A c \in cacheDisk' : c \in cacheDisk \/ (c.coins = coins' /\ c.used = used')
         /\ answered => \A c \in cacheDisk' : c.coins = coins' /\ c.used = used'
         /\ faults' \in 0 .. MaxFaults
<1> DEFINE v == [coins |-> coins', used |-> used']
<1>1. v \in CacheState /\ v.coins = coins' /\ v.used = used'
  BY DEF CacheState
<1>2. cacheDisk' \in {cacheDisk, {}, {v}} /\ (answered => cacheDisk' = {v})
  BY DEF StoreCache, CacheFile!Outcomes, CacheFile!Lost
<1>3. faults' \in 0 .. MaxFaults
  BY BoundAssumption DEF StoreCache, Counted, TypeOK
<1> HIDE DEF v
<1> QED BY <1>1, <1>2, <1>3 DEF TypeOK, Optional

LEMMA ContractStored ==
  ASSUME TypeOK, NEW answered \in BOOLEAN, StoreContract(answered),
         exists' \in BOOLEAN, tweaks' \subseteq Outpoint
  PROVE  /\ storeDisk' \subseteq StoreState /\ Optional(storeDisk')
         /\ \A s \in storeDisk' : s \in storeDisk \/ s.tweaks = tweaks'
         /\ answered => \A s \in storeDisk' : s.tweaks = tweaks'
         /\ faults' \in 0 .. MaxFaults
<1> DEFINE v == [exists |-> exists', tweaks |-> tweaks']
<1>1. v \in StoreState /\ v.tweaks = tweaks'
  BY DEF StoreState
<1>2. storeDisk' \in {storeDisk, {}, {v}} /\ (answered => storeDisk' = {v})
  BY DEF StoreContract, StorageFile!Outcomes, StorageFile!Lost
<1>3. faults' \in 0 .. MaxFaults
  BY BoundAssumption DEF StoreContract, Counted, TypeOK
<1> HIDE DEF v
<1> QED BY <1>1, <1>2, <1>3 DEF TypeOK, Optional

-----------------------------------------------------------------------------
(* The chain. *)

LEMMA DepositStep ==
  ASSUME IInv, NEW a \in Address, Deposit(a)
  PROVE  IInv'
<1>1. [tx |-> txs + 1, index |-> a.index, kind |-> IF a.nested THEN "nested" ELSE "policy"] \in Outpoint
  BY BoundAssumption DEF Deposit, IInv, TypeOK, Address, Outpoint
<1>2. /\ UNCHANGED <<pc, cache, store, plan, mined, spent, published, faults, sync, book, clients>>
      /\ txs' = txs + 1 /\ txs' \in 0 .. MaxTx /\ txs \in Int
  BY BoundAssumption DEF Deposit, IInv, TypeOK
<1>3. outs \subseteq outs' /\ outs' \subseteq Outpoint
  BY <1>1 DEF Deposit, IInv, TypeOK
<1>4. TypeOK'
  BY <1>2, <1>3 DEF cache, store, book, clients, sync, IInv, TypeOK, Optional
<1>5. Numbered'
  <2>1. \A t \in handed \cup plan : t.id \in Int
    BY DEF IInv, TypeOK, Transfer
  <2> QED BY <1>2, <2>1 DEF clients, IInv, Numbered
<1> QED BY <1>2, <1>4, <1>5 DEF cache, store, book, clients, sync, IInv,
      GivenIsUsed, PromisedIsKept, LastIsGreatest,
      PublishedSpent, SettledIsPublished, SettledIsGone, NotSpentAgain

LEMMA MineStep ==
  ASSUME IInv, NEW tx, Mine(tx)
  PROVE  IInv'
  BY DEF Mine, cache, store, book, clients, sync, IInv, TypeOK,
      GivenIsUsed, PromisedIsKept, LastIsGreatest, Numbered,
      PublishedSpent, SettledIsPublished, SettledIsGone, NotSpentAgain, Optional

LEMMA BroadcastStep ==
  ASSUME IInv, NEW t \in handed, Broadcast(t)
  PROVE  IInv'
  BY DEF Broadcast, cache, store, book, clients, sync, IInv, TypeOK, Transfer,
      GivenIsUsed, PromisedIsKept, LastIsGreatest, Numbered,
      PublishedSpent, SettledIsPublished, SettledIsGone, NotSpentAgain, Optional

-----------------------------------------------------------------------------
(* The requests. *)

\* Creating or deleting the contract: its tweaks are forgotten with what clients
\* expect of them.
LEMMA ContractStep ==
  ASSUME IInv, CreateContract \/ DeleteContract
  PROVE  IInv'
<1>1. PICK answered \in BOOLEAN : StoreContract(answered)
  BY DEF CreateContract, DeleteContract
<1>2. /\ exists' \in BOOLEAN /\ tweaks' = {} /\ promised' = {}
      /\ UNCHANGED <<pc, cache, plan, chain, txs, sync, book, handed, settled>>
  BY DEF CreateContract, DeleteContract
<1>3. /\ storeDisk' \subseteq StoreState /\ Optional(storeDisk')
      /\ faults' \in 0 .. MaxFaults
  BY <1>1, <1>2, ContractStored DEF IInv
<1>4. TypeOK'
  BY <1>2, <1>3 DEF cache, chain, sync, book, IInv, TypeOK, Optional
<1> QED BY <1>2, <1>4 DEF cache, chain, sync, book, IInv,
      GivenIsUsed, PromisedIsKept, LastIsGreatest, Numbered,
      PublishedSpent, SettledIsPublished, SettledIsGone, NotSpentAgain

LEMMA StoreAgainStep ==
  ASSUME IInv, StoreContractAgain
  PROVE  IInv'
<1>1. PICK answered \in BOOLEAN : StoreContract(answered)
  BY DEF StoreContractAgain
<1>2. UNCHANGED <<exists, tweaks, pc, cache, plan, chain, txs, sync, book, clients>>
  BY DEF StoreContractAgain
<1>3. /\ storeDisk' \subseteq StoreState /\ Optional(storeDisk')
      /\ \A s \in storeDisk' : s \in storeDisk \/ s.tweaks = tweaks'
      /\ faults' \in 0 .. MaxFaults
  BY <1>1, <1>2, ContractStored DEF IInv, TypeOK
<1>4. PromisedIsKept'
  BY <1>2, <1>3 DEF StoreContractAgain, clients, IInv, PromisedIsKept
<1>5. TypeOK'
  BY <1>2, <1>3 DEF cache, chain, sync, book, clients, IInv, TypeOK, Optional
<1> QED BY <1>2, <1>4, <1>5 DEF cache, chain, sync, book, clients, IInv,
      GivenIsUsed, LastIsGreatest, Numbered,
      PublishedSpent, SettledIsPublished, SettledIsGone, NotSpentAgain

\* Taking an address: the cached coins stay, the used addresses grow.
LEMMA UseAddressStep ==
  ASSUME IInv, pc # "sync", NEW i \in Index, NEW legacy \in BOOLEAN, NEW auto \in BOOLEAN,
         NEW answered \in BOOLEAN, UseAddress(i, legacy, auto, answered)
  PROVE  /\ coins' = coins /\ used' \subseteq Address /\ used \subseteq used'
         /\ cacheDisk' \subseteq CacheState /\ Optional(cacheDisk')
         /\ faults' \in 0 .. MaxFaults
         /\ given' \subseteq Address /\ clash' \subseteq Index /\ exhausted' \in BOOLEAN
         /\ given' \subseteq used' \/ pc = "down"
         /\ \A c \in cacheDisk' : given' \subseteq c.used \/ pc = "down"
         /\ \A c \in cacheDisk' : c.coins = coins \/ c \in cacheDisk
<1> DEFINE a == Book!Derived(i, legacy)
<1>1. a \in Address
  BY NestableAssumption DEF Book!Derived, Address, Index
<1>2. /\ used' = used \cup {a} /\ coins' = coins /\ StoreCache(answered)
      /\ given' = IF answered THEN given \cup {a} ELSE given
      /\ clash' \in {clash, clash \cup {i}} /\ exhausted' = (exhausted \/ i = Largest)
  BY DEF UseAddress
<1> HIDE DEF a
<1>3. used' \subseteq Address /\ coins' \subseteq Outpoint
  BY <1>1, <1>2 DEF IInv, TypeOK
<1>4. /\ cacheDisk' \subseteq CacheState /\ Optional(cacheDisk')
      /\ \A c \in cacheDisk' : c \in cacheDisk \/ (c.coins = coins' /\ c.used = used')
      /\ answered => \A c \in cacheDisk' : c.coins = coins' /\ c.used = used'
      /\ faults' \in 0 .. MaxFaults
  BY <1>2, <1>3, CacheStored DEF IInv
<1>5. given' \subseteq used' \/ pc = "down"
  BY <1>2 DEF IInv, GivenIsUsed
<1>6. \A c \in cacheDisk' : given' \subseteq c.used \/ pc = "down"
  BY <1>2, <1>4, <1>5 DEF IInv, GivenIsUsed
<1>7. given' \subseteq Address /\ clash' \subseteq Index /\ exhausted' \in BOOLEAN
  BY <1>1, <1>2 DEF IInv, TypeOK
<1> QED BY <1>2, <1>3, <1>4, <1>5, <1>6, <1>7

LEMMA NextAddressStep ==
  ASSUME IInv, NEW i \in Index, NEW legacy \in BOOLEAN, NEW auto \in BOOLEAN,
         NextAddress(i, legacy, auto)
  PROVE  IInv'
<1>1. PICK answered \in BOOLEAN : UseAddress(i, legacy, auto, answered)
  BY DEF NextAddress
<1>2. pc = "idle" /\ UNCHANGED <<pc, store, plan, chain, txs, sync, clients>>
  BY DEF NextAddress
<1>3. /\ coins' = coins /\ used' \subseteq Address /\ used \subseteq used'
      /\ cacheDisk' \subseteq CacheState /\ Optional(cacheDisk')
      /\ faults' \in 0 .. MaxFaults
      /\ given' \subseteq Address /\ clash' \subseteq Index /\ exhausted' \in BOOLEAN
      /\ given' \subseteq used' /\ \A c \in cacheDisk' : given' \subseteq c.used
      /\ \A c \in cacheDisk' : c.coins = coins \/ c \in cacheDisk
  BY <1>1, <1>2, UseAddressStep
<1>4. TypeOK'
  BY <1>2, <1>3 DEF store, chain, sync, clients, IInv, TypeOK, Optional
<1> QED BY <1>2, <1>3, <1>4 DEF store, chain, sync, clients, IInv,
      GivenIsUsed, PromisedIsKept, LastIsGreatest, Numbered,
      PublishedSpent, SettledIsPublished, SettledIsGone, NotSpentAgain

LEMMA UnuseAddressStep ==
  ASSUME IInv, NEW a \in Address, UnuseAddress(a)
  PROVE  IInv'
<1>1. PICK answered \in BOOLEAN : StoreCache(answered)
  BY DEF UnuseAddress
<1>2. /\ pc = "idle" /\ used' = used \ {a} /\ given' = given \ {a} /\ coins' = coins
      /\ UNCHANGED <<pc, store, plan, chain, txs, sync, clash, exhausted, clients>>
  BY DEF UnuseAddress
<1>3. /\ cacheDisk' \subseteq CacheState /\ Optional(cacheDisk')
      /\ \A c \in cacheDisk' : c \in cacheDisk \/ (c.coins = coins' /\ c.used = used')
      /\ faults' \in 0 .. MaxFaults
  BY <1>1, <1>2, CacheStored DEF IInv, TypeOK
<1>4. TypeOK'
  BY <1>2, <1>3 DEF store, chain, sync, clients, IInv, TypeOK, Optional
<1>5. GivenIsUsed'
  BY <1>2, <1>3 DEF IInv, GivenIsUsed
<1> QED BY <1>2, <1>3, <1>4, <1>5 DEF store, chain, sync, clients, IInv,
      PromisedIsKept, LastIsGreatest, Numbered,
      PublishedSpent, SettledIsPublished, SettledIsGone, NotSpentAgain

LEMMA FinalizeStep ==
  ASSUME IInv, NEW t \in handed, FinalizeTransfer(t) \/ PublishElsewhere(t)
  PROVE  IInv'
  BY BroadcastStep DEF FinalizeTransfer, PublishElsewhere

\* Composing a transfer: it spends cached coins, and knows what is settled.
LEMMA ComposeStep ==
  ASSUME IInv, ComposeTransfer
  PROVE  IInv'
<1>1. PICK I \in SUBSET coins \ {{}} :
        LET t == [id |-> txs + 1, inputs |-> I, change |-> {}, settled |-> settled] IN
        \/ /\ plan' = {t} /\ pc' = "transfer"
           /\ UNCHANGED <<cache, book, faults>>
        \/ \E i \in Book!NextUnused(used), kind \in {"policy", "tweak"}, answered \in BOOLEAN :
             /\ UseAddress(i, FALSE, TRUE, answered)
             /\ pc' = IF answered THEN "transfer" ELSE "idle"
             /\ plan' = IF answered
                  THEN {[t EXCEPT !.change = {[tx |-> txs + 1, index |-> i, kind |-> kind]}]}
                  ELSE {}
  BY DEF ComposeTransfer
<1>2. /\ pc = "idle" /\ exists /\ txs < MaxTx /\ txs' = txs + 1
      /\ UNCHANGED <<store, chain, sync, clients>>
  BY DEF ComposeTransfer
<1>3. txs' \in 1 .. MaxTx /\ txs \in Int /\ plan = {}
  BY <1>2, BoundAssumption DEF IInv, TypeOK
<1>4. /\ coins' = coins /\ used' \subseteq Address
      /\ cacheDisk' \subseteq CacheState /\ Optional(cacheDisk')
      /\ faults' \in 0 .. MaxFaults
      /\ given' \subseteq Address /\ clash' \subseteq Index /\ exhausted' \in BOOLEAN
      /\ given' \subseteq used' /\ \A c \in cacheDisk' : given' \subseteq c.used
      /\ \A c \in cacheDisk' : c.coins = coins \/ c \in cacheDisk
  <2>1. CASE UNCHANGED <<cache, book, faults>>
    BY <1>2, <2>1 DEF cache, book, IInv, TypeOK, GivenIsUsed
  <2>2. ASSUME NEW i \in Book!NextUnused(used), NEW answered \in BOOLEAN,
               UseAddress(i, FALSE, TRUE, answered)
        PROVE  <1>4
    <3>1. i \in Index
      BY DEF Book!NextUnused, Book!Index, Index
    <3> QED BY <1>2, <2>2, <3>1, UseAddressStep
  <2> QED BY <1>1, <2>1, <2>2
<1>5. \/ plan' = {} /\ pc' = "idle"
      \/ /\ pc' = "transfer"
         /\ \E C \in SUBSET Outpoint :
              plan' = {[id |-> txs + 1, inputs |-> I, change |-> C, settled |-> settled]}
  <2>1. ASSUME NEW i \in Book!NextUnused(used), NEW kind \in {"policy", "tweak"}
        PROVE  {[tx |-> txs + 1, index |-> i, kind |-> kind]} \subseteq Outpoint
    <3>1. i \in Index
      BY DEF Book!NextUnused, Book!Index, Index
    <3> QED BY <1>2, <1>3, <3>1 DEF Outpoint
  <2>2. ASSUME NEW C
        PROVE  [[id |-> txs + 1, inputs |-> I, change |-> {}, settled |-> settled]
                  EXCEPT !.change = C]
                 = [id |-> txs + 1, inputs |-> I, change |-> C, settled |-> settled]
    OBVIOUS
  <2>3. CASE /\ plan' = {[id |-> txs + 1, inputs |-> I, change |-> {}, settled |-> settled]}
             /\ pc' = "transfer"
    BY <2>3
  <2>4. ASSUME NEW i \in Book!NextUnused(used), NEW kind \in {"policy", "tweak"},
               NEW answered \in BOOLEAN,
               pc' = IF answered THEN "transfer" ELSE "idle",
               plan' = IF answered
                 THEN {[[id |-> txs + 1, inputs |-> I, change |-> {}, settled |-> settled]
                          EXCEPT !.change = {[tx |-> txs + 1, index |-> i, kind |-> kind]}]}
                 ELSE {}
        PROVE  <1>5
    <3>1. CASE answered
      BY <2>1, <2>2, <2>4, <3>1
    <3>2. CASE ~answered
      BY <2>4, <3>2
    <3> QED BY <3>1, <3>2
  <2> QED BY <1>1, <2>3, <2>4
<1>6. \A t \in plan' :
        /\ t \in Transfer /\ t.id = txs + 1 /\ t.inputs \subseteq coins /\ t.settled = settled
  <2> SUFFICES ASSUME NEW C \in SUBSET Outpoint,
                      NEW t, t = [id |-> txs + 1, inputs |-> I, change |-> C, settled |-> settled]
               PROVE  /\ t \in Transfer /\ t.id = txs + 1
                      /\ t.inputs \subseteq coins /\ t.settled = settled
    BY <1>5
  <2>1. I \subseteq Outpoint /\ settled \subseteq 1 .. MaxTx /\ txs + 1 \in 1 .. MaxTx
    BY <1>2, <1>3 DEF IInv, TypeOK
  <2> QED BY <2>1 DEF Transfer
<1>7. Optional(plan') /\ (plan' # {} <=> pc' = "transfer") /\ pc' \in {"idle", "transfer"}
  BY <1>5 DEF Optional
<1>8. TypeOK'
  BY <1>2, <1>3, <1>4, <1>6, <1>7 DEF store, chain, sync, clients, IInv, TypeOK
<1>9. Numbered'
  <2>1. \A t \in handed : t.id \in Int /\ t.id <= txs
    BY DEF IInv, TypeOK, Transfer, Numbered
  <2> QED BY <1>2, <1>3, <1>6, <1>7, <2>1 DEF clients, IInv, Numbered, Optional
<1>10. NotSpentAgain' /\ SettledIsPublished'
  BY <1>2, <1>3, <1>6 DEF chain, clients, IInv, NotSpentAgain, SettledIsPublished, SettledIsGone
<1> QED BY <1>2, <1>4, <1>7, <1>8, <1>9, <1>10 DEF store, chain, sync, clients, IInv,
      GivenIsUsed, PromisedIsKept, LastIsGreatest, PublishedSpent, SettledIsGone

\* Its end: the client has it once its tweak is in the file.
LEMMA RecordStep ==
  ASSUME IInv, RecordTransfer
  PROVE  IInv'
<1>1. PICK t \in plan, stored \in BOOLEAN, answered \in BOOLEAN :
        /\ answered => stored
        /\ tweaks' = tweaks \cup TweaksOf(t) /\ exists' = exists
        /\ StoreContract(stored)
        /\ handed' = IF answered THEN handed \cup {t} ELSE handed
        /\ promised' = IF answered THEN promised \cup TweaksOf(t) ELSE promised
  BY DEF RecordTransfer
<1>2. /\ pc = "transfer" /\ pc' = "idle" /\ plan' = {}
      /\ UNCHANGED <<cache, chain, txs, sync, book, settled>>
  BY DEF RecordTransfer
<1>3. TweaksOf(t) \subseteq Outpoint /\ t \in Transfer
  BY DEF TweaksOf, IInv, TypeOK, Transfer
<1>4. exists' \in BOOLEAN /\ tweaks' \subseteq Outpoint
  BY <1>1, <1>3 DEF IInv, TypeOK
<1>5. /\ storeDisk' \subseteq StoreState /\ Optional(storeDisk')
      /\ \A s \in storeDisk' : s \in storeDisk \/ s.tweaks = tweaks'
      /\ stored => \A s \in storeDisk' : s.tweaks = tweaks'
      /\ faults' \in 0 .. MaxFaults
  BY <1>1, <1>4, ContractStored DEF IInv
<1>6. TypeOK'
  BY <1>1, <1>2, <1>3, <1>4, <1>5 DEF cache, chain, sync, book, IInv, TypeOK, Optional
<1>7. PromisedIsKept'
  BY <1>1, <1>2, <1>5 DEF IInv, PromisedIsKept
<1>8. handed' \cup plan' \subseteq handed \cup plan
  BY <1>1, <1>2
<1> QED BY <1>2, <1>6, <1>7, <1>8 DEF cache, chain, sync, book, IInv,
      GivenIsUsed, LastIsGreatest, Numbered,
      PublishedSpent, SettledIsPublished, SettledIsGone, NotSpentAgain

LEMMA FailsStep ==
  ASSUME IInv, TransferFails
  PROVE  IInv'
  BY DEF TransferFails, cache, store, chain, sync, book, clients, IInv, TypeOK, Optional,
      GivenIsUsed, PromisedIsKept, LastIsGreatest, Numbered,
      PublishedSpent, SettledIsPublished, SettledIsGone, NotSpentAgain

-----------------------------------------------------------------------------
(* Synchronisation. *)

LEMMA SyncStartStep ==
  ASSUME IInv, SyncStart
  PROVE  IInv'
<1>1. last' \in Index /\ \A a \in used : a.index <= last'
  <2>1. 0 \in Index
    BY LargestAssumption DEF Index
  <2>2. \A a \in used : a.index \in Index
    BY DEF IInv, TypeOK, Address
  <2> QED BY <2>1, <2>2 DEF SyncStart, Search!LastUsed
<1>2. \A t \in published : t.inputs \cap seen' = {}
  BY DEF SyncStart, Mature, IInv, PublishedSpent
<1>3. /\ pc' = "sync" /\ pc = "idle" /\ skipped' = {}
      /\ steady' \subseteq mined /\ seen' \subseteq mined
      /\ UNCHANGED <<cache, store, plan, chain, txs, book, clients, faults>>
  BY DEF SyncStart, Mature
<1>4. TypeOK'
  BY <1>1, <1>3 DEF cache, store, chain, book, clients, IInv, TypeOK, Optional
<1> QED BY <1>1, <1>2, <1>3, <1>4 DEF cache, store, chain, book, clients, IInv,
      GivenIsUsed, PromisedIsKept, LastIsGreatest, Numbered,
      PublishedSpent, SettledIsPublished, SettledIsGone, NotSpentAgain

LEMMA SyncSkipsStep ==
  ASSUME IInv, NEW o \in steady, SyncSkips(o)
  PROVE  IInv'
<1>1. faults' \in 0 .. MaxFaults
  BY BoundAssumption DEF SyncSkips, IInv, TypeOK
<1> QED
  BY <1>1 DEF SyncSkips, cache, store, chain, book, clients, IInv, TypeOK, Optional,
      GivenIsUsed, PromisedIsKept, LastIsGreatest, Numbered,
      PublishedSpent, SettledIsPublished, SettledIsGone, NotSpentAgain

\* What is found was seen, and no coin of a settled transfer was.
LEMMA SyncEndsStep ==
  ASSUME IInv, NEW answered \in BOOLEAN, SyncEnds(answered)
  PROVE  IInv'
<1>1. /\ coins' \subseteq seen /\ coins' \subseteq Outpoint /\ StoreCache(answered)
      /\ settled' = IF answered THEN settled \cup
           {t.id : t \in {u \in published : u.inputs \cap seen = {}}} ELSE settled
  BY DEF SyncEnds, IInv, TypeOK
<1>2. /\ pc = "sync" /\ pc' = "idle" /\ used' = used
      /\ last' = 0 /\ steady' = {} /\ seen' = {} /\ skipped' = {}
      /\ UNCHANGED <<store, plan, chain, txs, book, handed, promised>>
  BY DEF SyncEnds, SyncOver
<1>3. /\ cacheDisk' \subseteq CacheState /\ Optional(cacheDisk')
      /\ \A c \in cacheDisk' : c \in cacheDisk \/ (c.coins = coins' /\ c.used = used')
      /\ answered => \A c \in cacheDisk' : c.coins = coins' /\ c.used = used'
      /\ faults' \in 0 .. MaxFaults
  BY <1>1, <1>2, CacheStored DEF IInv, TypeOK
<1>4. settled' \subseteq 1 .. MaxTx /\ settled \subseteq settled'
  <2>1. \A t \in published : t.id \in 1 .. MaxTx
    BY DEF IInv, TypeOK, Transfer
  <2> QED BY <1>1, <2>1 DEF IInv, TypeOK
<1>5. 0 \in Index
  BY LargestAssumption DEF Index
<1>6. TypeOK'
  BY <1>1, <1>2, <1>3, <1>4, <1>5 DEF store, chain, book, IInv, TypeOK, Optional
<1>7. \A t \in published : t.id \in settled' => t.inputs \cap seen = {}
  <2> SUFFICES ASSUME NEW t \in published, t.id \in settled', t.id \notin settled
               PROVE  t.inputs \cap seen = {}
    BY DEF IInv, SettledIsGone
  <2>1. PICK u \in published : u.inputs \cap seen = {} /\ u.id = t.id
    BY <1>1
  <2>2. u = t
    BY <2>1 DEF IInv, TypeOK, Numbered
  <2> QED BY <2>1, <2>2
<1>8. SettledIsGone'
  <2> SUFFICES ASSUME NEW t \in published, t.id \in settled'
               PROVE  /\ t.inputs \cap coins' = {}
                      /\ \A c \in cacheDisk' : t.inputs \cap c.coins = {}
    BY <1>2 DEF chain, SettledIsGone
  <2>1. t.inputs \cap coins' = {}
    BY <1>1, <1>7
  <2>2. CASE answered
    BY <1>3, <2>1, <2>2
  <2>3. CASE ~answered
    BY <1>1, <1>3, <2>1, <2>3 DEF IInv, SettledIsGone
  <2> QED BY <2>1, <2>2, <2>3
<1>9. SettledIsPublished'
  <2>1. \A n \in settled' : \E t \in published : t.id = n
    BY <1>1 DEF IInv, SettledIsPublished
  <2> QED BY <1>2, <1>4, <2>1 DEF chain, IInv, SettledIsPublished
<1> QED BY <1>2, <1>3, <1>6, <1>8, <1>9 DEF store, chain, book, IInv,
      GivenIsUsed, PromisedIsKept, LastIsGreatest, Numbered, PublishedSpent, NotSpentAgain

LEMMA SyncFailsStep ==
  ASSUME IInv, SyncFails
  PROVE  IInv'
<1>1. 0 \in Index
  BY LargestAssumption DEF Index
<1> QED BY <1>1 DEF SyncFails, SyncOver, store, chain, book, IInv, TypeOK, Optional,
      GivenIsUsed, PromisedIsKept, LastIsGreatest, Numbered,
      PublishedSpent, SettledIsPublished, SettledIsGone, NotSpentAgain

-----------------------------------------------------------------------------
(* Restarts. *)

LEMMA StopStep ==
  ASSUME IInv, Stop
  PROVE  IInv'
<1>1. 0 \in Index
  BY LargestAssumption DEF Index
<1> QED BY <1>1 DEF Stop, chain, book, clients, IInv, TypeOK, Optional,
      GivenIsUsed, PromisedIsKept, LastIsGreatest, Numbered,
      PublishedSpent, SettledIsPublished, SettledIsGone, NotSpentAgain

LEMMA StartStep ==
  ASSUME IInv, Start
  PROVE  IInv'
<1>1. PICK c \in cacheDisk : coins' = c.coins /\ used' = c.used
  BY DEF Start
<1>2. PICK s \in storeDisk : exists' = s.exists /\ tweaks' = s.tweaks
  BY DEF Start
<1>3. /\ pc = "down" /\ pc' = "idle"
      /\ UNCHANGED <<cacheDisk, storeDisk, plan, chain, txs, sync, book, clients, faults>>
  BY DEF Start
<1>4. /\ coins' \subseteq Outpoint /\ used' \subseteq Address
      /\ exists' \in BOOLEAN /\ tweaks' \subseteq Outpoint
  BY <1>1, <1>2 DEF IInv, TypeOK, CacheState, StoreState
<1>5. TypeOK'
  BY <1>3, <1>4 DEF chain, sync, book, clients, IInv, TypeOK, Optional
<1> QED BY <1>1, <1>2, <1>3, <1>5 DEF chain, sync, book, clients, IInv,
      GivenIsUsed, PromisedIsKept, LastIsGreatest, Numbered,
      PublishedSpent, SettledIsPublished, SettledIsGone, NotSpentAgain

-----------------------------------------------------------------------------

LEMMA IInvStep == IInv /\ [Next]_vars => IInv'
<1> SUFFICES ASSUME IInv, [Next]_vars PROVE IInv'
  OBVIOUS
<1>1. CASE Environment
  BY <1>1, DepositStep, MineStep, FinalizeStep DEF Environment
<1>2. CASE Requests
  <2>1. ASSUME NEW i \in Index, NEW legacy \in BOOLEAN, NEW auto \in BOOLEAN,
               NextAddress(i, legacy, auto)
        PROVE  IInv'
    BY <2>1, NextAddressStep
  <2> QED BY <1>2, <2>1, ContractStep, StoreAgainStep, UnuseAddressStep, ComposeStep, RecordStep, FailsStep,
        FinalizeStep, SyncStartStep, SyncSkipsStep, SyncEndsStep, SyncFailsStep DEF Requests
<1>3. CASE Stop \/ Start
  BY <1>3, StopStep, StartStep
<1>4. CASE UNCHANGED vars
  BY <1>4 DEF vars, cache, store, chain, sync, book, clients, IInv, TypeOK, Optional,
      GivenIsUsed, PromisedIsKept, LastIsGreatest, Numbered,
      PublishedSpent, SettledIsPublished, SettledIsGone, NotSpentAgain
<1> QED BY <1>1, <1>2, <1>3, <1>4 DEF Next

LEMMA Invariance == Spec => []IInv
  BY InitIInv, IInvStep, PTL DEF Spec

\* Memory, files and the ledger hold what they should, through failures and restarts.
THEOREM TypeCorrect == Spec => []TypeOK
<1>1. IInv => TypeOK
  BY DEF IInv
<1> QED BY <1>1, Invariance, PTL

\* A transfer composed after a sync was told of a published one spends none of
\* its coins.
THEOREM NotTwice == Spec => []NoCoinIsSpentTwice
<1>1. IInv => NoCoinIsSpentTwice
  <2> SUFFICES ASSUME IInv, NEW t \in handed, NEW u \in handed, t.id \in u.settled
               PROVE  t.inputs \cap u.inputs = {}
    BY DEF NoCoinIsSpentTwice
  <2>1. PICK v \in published : v.id = t.id
    BY DEF IInv, SettledIsPublished
  <2>2. v = t
    BY <2>1 DEF IInv, TypeOK, Numbered
  <2> QED BY <2>1, <2>2 DEF IInv, NotSpentAgain
<1> QED BY <1>1, Invariance, PTL

\* What a client may expect of a sync is due.
LEMMA OwedIsDue ==
  ASSUME IInv, pc = "sync", NEW o \in Outpoint, Owed(o)
  PROVE  Search!Due(o)
<1>1. CASE o \in promised
  BY <1>1 DEF IInv, PromisedIsKept, Search!Due, Search!Tweaked
<1>2. CASE o.kind = "policy" /\ o.index < Largest /\ \E a \in given : a.index = o.index
  <2>1. ScriptOf[o].kind = "policy" /\ ScriptOf[o].index = o.index
    BY <1>2 DEF ScriptOf
  <2>2. o.index <= last
    BY <1>2 DEF IInv, GivenIsUsed, LastIsGreatest
  <2> QED BY <1>2, <2>1, <2>2 DEF Search!Due
<1> QED BY <1>1, <1>2 DEF Owed

\* Every sync that ends finds the coins that clients may expect.
THEOREM ClientsCoins == Spec => ClientsCoinsAreFound
<1>1. IInv => [\A answered \in BOOLEAN : SyncEnds(answered) =>
                 \A o \in steady \ skipped : Owed(o) => o \in coins']_vars
  <2> SUFFICES ASSUME IInv, NEW answered \in BOOLEAN, SyncEnds(answered),
                      NEW o \in steady \ skipped, Owed(o)
               PROVE  o \in coins'
    OBVIOUS
  <2>1. o \in Outpoint /\ pc = "sync"
    BY DEF SyncEnds, SyncOver, IInv, TypeOK
  <2>2. Search!Due(o)
    BY <2>1, OwedIsDue
  <2>3. {p \in steady : Search!Due(p)} \subseteq coins' \cup skipped
    BY DEF SyncEnds, Search!Finds
  <2> QED BY <2>2, <2>3
<1> QED BY <1>1, Invariance, PTL DEF ClientsCoinsAreFound

-----------------------------------------------------------------------------
(* The files. *)

LEMMA FileOfCache ==
  ASSUME pc # "down", pc' # "down", NEW answered \in BOOLEAN, StoreCache(answered)
  PROVE  CacheFile!Next
<1>1. CacheFile!Store(answered)
  BY DEF StoreCache, CacheFile!Store, CacheFile!Outcomes, CacheFile!One, CacheFile!Down,
         CacheFile!Lost
<1> QED BY <1>1 DEF CacheFile!Next

LEMMA FileOfStorage ==
  ASSUME pc # "down", pc' # "down", NEW answered \in BOOLEAN, StoreContract(answered)
  PROVE  StorageFile!Next
<1>1. StorageFile!Store(answered)
  BY DEF StoreContract, StorageFile!Store, StorageFile!Outcomes, StorageFile!One,
         StorageFile!Down, StorageFile!Lost
<1> QED BY <1>1 DEF StorageFile!Next

\* The steps outside of both files.
LEMMA NoFileSteps ==
  ASSUME \/ Environment \/ \E t \in handed : FinalizeTransfer(t)
         \/ SyncStart \/ SyncFails \/ TransferFails \/ UNCHANGED vars
         \/ \E o \in steady \ skipped : SyncSkips(o)
  PROVE  /\ pc = "down" <=> pc' = "down"
         /\ UNCHANGED <<coins, used, cacheDisk, exists, tweaks, storeDisk>>
BY DEF Environment, Deposit, Mine, PublishElsewhere, FinalizeTransfer, Broadcast, SyncStart,
       SyncFails, SyncOver, TransferFails, SyncSkips, vars, cache, store

LEMMA CacheSteps == IInv /\ [Next]_vars => [CacheFile!Next]_(CacheFile!vars)
<1> SUFFICES ASSUME IInv, [Next]_vars PROVE CacheFile!Next \/ UNCHANGED CacheFile!vars
  OBVIOUS
<1>1. CASE (pc = "down" <=> pc' = "down") /\ UNCHANGED <<coins, used, cacheDisk>>
  BY <1>1 DEF CacheFile!vars
<1>2. CASE CreateContract \/ DeleteContract \/ StoreContractAgain \/ RecordTransfer
  BY <1>1, <1>2 DEF CreateContract, DeleteContract, StoreContractAgain, RecordTransfer, cache
<1>3. CASE \E i \in Index, legacy, auto \in BOOLEAN : NextAddress(i, legacy, auto)
  BY <1>3, FileOfCache DEF NextAddress, UseAddress
<1>4. CASE (\E a \in Address : UnuseAddress(a)) \/ \E answered \in BOOLEAN : SyncEnds(answered)
  BY <1>4, FileOfCache DEF UnuseAddress, SyncEnds, SyncOver
<1>5. CASE ComposeTransfer
  <2>1. pc # "down" /\ pc' # "down"
    BY <1>5 DEF ComposeTransfer
  <2>2. UNCHANGED cache \/ \E answered \in BOOLEAN : StoreCache(answered)
    BY <1>5 DEF ComposeTransfer, UseAddress
  <2> QED BY <1>1, <2>1, <2>2, FileOfCache DEF cache
<1>6. CASE Stop
  <2>1. CacheFile!Stop
    BY <1>6 DEF Stop, CacheFile!Stop, CacheFile!Down, CacheFile!Lost
  <2> QED BY <2>1 DEF CacheFile!Next
<1>7. CASE Start
  <2>1. PICK c \in cacheDisk : coins' = c.coins /\ used' = c.used
    BY <1>7 DEF Start
  <2>2. cacheDisk = {[coins |-> coins', used |-> used']}
    BY <2>1 DEF IInv, TypeOK, Optional, CacheState
  <2>3. CacheFile!Recover
    BY <1>7, <2>2 DEF Start, CacheFile!Recover, CacheFile!Down, CacheFile!Lost
  <2> QED BY <2>3 DEF CacheFile!Next
<1> QED BY <1>1, <1>2, <1>3, <1>4, <1>5, <1>6, <1>7, NoFileSteps DEF Next, Requests

LEMMA StorageSteps == IInv /\ [Next]_vars => [StorageFile!Next]_(StorageFile!vars)
<1> SUFFICES ASSUME IInv, [Next]_vars PROVE StorageFile!Next \/ UNCHANGED StorageFile!vars
  OBVIOUS
<1>1. CASE (pc = "down" <=> pc' = "down") /\ UNCHANGED <<exists, tweaks, storeDisk>>
  BY <1>1 DEF StorageFile!vars
<1>2. CASE CreateContract \/ DeleteContract \/ StoreContractAgain
  BY <1>2, FileOfStorage DEF CreateContract, DeleteContract, StoreContractAgain
<1>3. CASE RecordTransfer
  BY <1>3, FileOfStorage DEF RecordTransfer
<1>4. CASE \/ \E i \in Index, legacy, auto \in BOOLEAN : NextAddress(i, legacy, auto)
           \/ (\E a \in Address : UnuseAddress(a)) \/ \E answered \in BOOLEAN : SyncEnds(answered)
  BY <1>1, <1>4 DEF NextAddress, UnuseAddress, SyncEnds, SyncOver, store
<1>5. CASE ComposeTransfer
  <2>1. pc # "down" /\ pc' # "down" /\ UNCHANGED store
    BY <1>5 DEF ComposeTransfer
  <2> QED BY <1>1, <2>1 DEF store
<1>6. CASE Stop
  <2>1. StorageFile!Stop
    BY <1>6 DEF Stop, StorageFile!Stop, StorageFile!Down, StorageFile!Lost
  <2> QED BY <2>1 DEF StorageFile!Next
<1>7. CASE Start
  <2>1. PICK s \in storeDisk : exists' = s.exists /\ tweaks' = s.tweaks
    BY <1>7 DEF Start
  <2>2. storeDisk = {[exists |-> exists', tweaks |-> tweaks']}
    BY <2>1 DEF IInv, TypeOK, Optional, StoreState
  <2>3. StorageFile!Recover
    BY <1>7, <2>2 DEF Start, StorageFile!Recover, StorageFile!Down, StorageFile!Lost
  <2> QED BY <2>3 DEF StorageFile!Next
<1> QED BY <1>1, <1>2, <1>3, <1>4, <1>5, <1>6, <1>7, NoFileSteps DEF Next, Requests

\* Over a contract's whole life, every request treats each of the two files as
\* DurableStore says: memory and file never part but by a failed store.
THEOREM KeepUp == Spec => CacheFile!Spec /\ StorageFile!Spec
<1>1. Init => CacheFile!Init /\ StorageFile!Init
  BY DEF Init, CacheFile!Init, StorageFile!Init, NoCache, NoStore
<1> QED BY <1>1, CacheSteps, StorageSteps, Invariance, PTL
        DEF Spec, CacheFile!Spec, StorageFile!Spec

-----------------------------------------------------------------------------
(* The sync keeps to CoinSearch. *)

\* What was mature throughout still is, and what is mature has been seen.
SyncSees == steady \subseteq Mature /\ (pc = "sync" => Mature \subseteq seen)

LEMMA SeesStep == SyncSees /\ [Next]_vars => SyncSees'
<1> SUFFICES ASSUME SyncSees, [Next]_vars PROVE SyncSees'
  OBVIOUS
<1> USE DEF SyncSees, Mature
<1>1. CASE UNCHANGED <<chain, sync>> /\ (pc' = "sync" => pc = "sync")
  BY <1>1 DEF chain, sync
<1>2. ASSUME NEW a \in Address, Deposit(a) PROVE SyncSees'
  BY <1>2 DEF Deposit, sync
<1>3. ASSUME NEW tx, Mine(tx) PROVE SyncSees'
  BY <1>3 DEF Mine
<1>4. ASSUME NEW t \in handed, Broadcast(t) PROVE SyncSees'
  BY <1>4 DEF Broadcast
<1>5. CASE SyncStart
  BY <1>5 DEF SyncStart, chain
<1>6. ASSUME NEW o, SyncSkips(o) PROVE SyncSees'
  BY <1>6 DEF SyncSkips, chain
<1>7. CASE SyncOver \/ Stop
  BY <1>7 DEF SyncOver, Stop, chain
<1>8. CASE Environment
  BY <1>2, <1>3, <1>4, <1>8 DEF Environment, PublishElsewhere
<1>9. CASE Requests
  <2>1. CASE \/ CreateContract \/ DeleteContract \/ StoreContractAgain
             \/ \E i \in Index, legacy, auto \in BOOLEAN : NextAddress(i, legacy, auto)
             \/ \E a \in Address : UnuseAddress(a)
             \/ ComposeTransfer \/ RecordTransfer \/ TransferFails
    BY <1>1, <2>1 DEF CreateContract, DeleteContract, StoreContractAgain, NextAddress,
       UnuseAddress, ComposeTransfer, RecordTransfer, TransferFails
  <2>2. CASE \E t \in handed : FinalizeTransfer(t)
    BY <1>4, <2>2 DEF FinalizeTransfer
  <2>3. CASE SyncFails \/ \E answered \in BOOLEAN : SyncEnds(answered)
    BY <1>7, <2>3 DEF SyncFails, SyncEnds
  <2> QED BY <1>5, <1>6, <1>9, <2>1, <2>2, <2>3 DEF Requests
<1>10. CASE Start \/ UNCHANGED vars
  BY <1>1, <1>10 DEF Start, vars
<1> QED BY <1>7, <1>8, <1>9, <1>10 DEF Next

LEMMA Sees == Spec => []SyncSees
<1>1. Init => SyncSees
  BY DEF Init, SyncSees, Mature
<1> QED BY <1>1, SeesStep, PTL DEF Spec

\* Requests between two syncs leave what a sync works on alone.
LEMMA SearchServes ==
  ASSUME pc \in {"idle", "transfer"}, pc' \in {"idle", "transfer"}, UNCHANGED <<chain, sync, coins>>
  PROVE  Search!Serve
  BY DEF Search!Serve, chain, sync, Mature

\* Blocks and publications are moves of the chain, at any time.
LEMMA SearchChain ==
  ASSUME IInv, SyncSees, Environment \/ \E t \in handed : FinalizeTransfer(t)
  PROVE  Search!ChainMoves
<1>1. mined' \subseteq Outpoint /\ UNCHANGED <<pc, cache, store, last, skipped>>
  <2>1. IInv'
    BY DepositStep, MineStep, FinalizeStep DEF Environment
  <2> QED BY <2>1 DEF IInv, TypeOK, Environment, Deposit, Mine, PublishElsewhere, FinalizeTransfer,
         Broadcast, sync, chain
<1>2. Mature' \subseteq Outpoint
  BY <1>1 DEF Mature
<1>3. steady' \subseteq steady \cap Mature'
  BY DEF SyncSees, Mature, Environment, Deposit, Mine, PublishElsewhere, FinalizeTransfer,
         Broadcast, sync
<1>4. seen' = IF pc = "sync" THEN seen \cup Mature' ELSE seen
  BY DEF SyncSees, Mature, Environment, Deposit, Mine, PublishElsewhere, FinalizeTransfer,
         Broadcast, sync
<1> QED BY <1>1, <1>2, <1>3, <1>4 DEF Search!ChainMoves, cache, store

LEMMA SearchStep ==
  ASSUME IInv, SyncSees, Next
  PROVE  Search!Next
<1> USE DEF Search!Next
<1>1. CASE Environment \/ \E t \in handed : FinalizeTransfer(t)
  BY <1>1, SearchChain
<1>2. CASE \/ CreateContract \/ DeleteContract \/ StoreContractAgain
           \/ \E a \in Address : UnuseAddress(a)
           \/ RecordTransfer \/ TransferFails
  BY <1>2, SearchServes DEF CreateContract, DeleteContract, StoreContractAgain, UnuseAddress,
     RecordTransfer, TransferFails, cache
<1>3. CASE \/ ComposeTransfer
           \/ \E i \in Index, legacy, auto \in BOOLEAN : NextAddress(i, legacy, auto)
  BY <1>3, SearchServes DEF ComposeTransfer, NextAddress, UseAddress, cache
<1>4. CASE SyncStart
  BY <1>4 DEF SyncStart, Search!Begin, cache, store, chain, Mature
<1>5. ASSUME NEW o, SyncSkips(o) PROVE Search!Skip
  BY <1>5 DEF SyncSkips, Search!Skip, cache, store, chain, Mature
<1>6. SyncOver => Search!Over
  BY DEF SyncOver, Search!Over, Search!Nothing, store, chain, Mature
<1>7. CASE SyncFails
  BY <1>6, <1>7 DEF SyncFails, Search!Fail
<1>8. ASSUME NEW answered \in BOOLEAN, SyncEnds(answered) PROVE Search!Finish
  <2>1. Search!Over
    BY <1>6, <1>8 DEF SyncEnds
  <2>2. Search!Finds(coins')
    BY <1>8 DEF SyncEnds
  <2> QED BY <2>1, <2>2 DEF Search!Finish
<1>9. CASE Stop
  BY <1>9 DEF Stop, Search!Stop, Search!Nothing, chain, Mature
<1>10. CASE Start
  <2>1. coins' \subseteq Outpoint
    BY <1>10, StartStep DEF IInv, TypeOK
  <2> QED BY <1>10, <2>1 DEF Start, Search!Start, chain, sync, Mature
<1> QED BY <1>1, <1>2, <1>3, <1>4, <1>5, <1>7, <1>8, <1>9, <1>10 DEF Next, Requests

\* Every step of the daemon, its clients and the chain is one that CoinSearch allows
\* for: what ChainSync was proved to promise, it promises in a contract's life.
THEOREM SyncRefinement == Spec => SyncsAsPromised
<1>1. Init => Search!Init
  <2>1. Init => Mature \subseteq Outpoint
    BY FundsAssumption DEF Init, Mature
  <2> QED BY <2>1 DEF Init, Search!Init, Search!Nothing
<1>2. IInv /\ SyncSees /\ [Next]_vars => [Search!Next]_(Search!vars)
  <2>1. ASSUME UNCHANGED vars PROVE UNCHANGED Search!vars
    BY <2>1 DEF vars, cache, store, chain, sync, Search!vars, Mature
  <2> QED BY <2>1, SearchStep
<1> QED BY <1>1, <1>2, Invariance, Sees, PTL DEF Spec, Search!Spec, SyncsAsPromised

-----------------------------------------------------------------------------
(* The used addresses are an address book. *)

BookDisk == {c.used : c \in cacheDisk}

LEMMA BookStored ==
  ASSUME NEW answered \in BOOLEAN, StoreCache(answered)
  PROVE  Book!Stored(used', answered)
<1>1. cacheDisk' = {[coins |-> coins', used |-> used']} => BookDisk' = {used'}
  BY DEF BookDisk
<1>2. cacheDisk' = {} => BookDisk' = {}
  BY DEF BookDisk
<1>3. cacheDisk' = cacheDisk => BookDisk' = BookDisk
  BY DEF BookDisk
<1> QED BY <1>1, <1>2, <1>3 DEF StoreCache, CacheFile!Outcomes, CacheFile!Lost, Book!Stored,
    Book!File!Outcomes, Book!File!Lost, BookDisk

LEMMA BookUse ==
  ASSUME NEW i \in Index, NEW legacy \in BOOLEAN, NEW auto \in BOOLEAN,
         NEW answered \in BOOLEAN, UseAddress(i, legacy, auto, answered),
         pc # "down", pc' # "down"
  PROVE  Book!Use(i, legacy, auto)
<1>1. Book!Stored(used', answered)
  BY BookStored DEF UseAddress
<1>2. (\E g \in given : g.index = i) <=> i \in Book!Used(given)
  BY DEF Book!Used
<1> QED BY <1>1, <1>2 DEF UseAddress, Book!Use

LEMMA BookStutters ==
  ASSUME UNCHANGED <<used, cacheDisk, given, clash, exhausted>>, pc = "down" <=> pc' = "down"
  PROVE  UNCHANGED Book!vars
  BY DEF Book!vars

LEMMA BookStep ==
  ASSUME IInv, Next
  PROVE  Book!Next \/ UNCHANGED Book!vars
<1>1. CASE Environment
  BY <1>1, BookStutters
  DEF Environment, Deposit, Mine, PublishElsewhere, Broadcast, cache, book
<1>2. ASSUME NEW i \in Index, NEW legacy \in BOOLEAN, NEW auto \in BOOLEAN,
             NextAddress(i, legacy, auto)
      PROVE  Book!Next
  <2>1. PICK answered \in BOOLEAN : UseAddress(i, legacy, auto, answered)
    BY <1>2 DEF NextAddress
  <2>2. Book!Use(i, legacy, auto) /\ pc # "down"
    BY <1>2, <2>1, BookUse DEF NextAddress
  <2>3. CASE auto
    BY <1>2, <2>2, <2>3 DEF NextAddress, Book!NextAddress, Book!Next
  <2>4. CASE ~auto
    <3>1. auto = FALSE
      BY <2>4
    <3>2. i \in Book!Index
      BY DEF Book!Index, Index
    <3> QED BY <2>2, <3>1, <3>2 DEF Book!AddressAt, Book!Next
  <2> QED BY <2>3, <2>4
<1>3. ASSUME NEW a \in Address, UnuseAddress(a) PROVE Book!Next
  <2>1. \E answered \in BOOLEAN : Book!Stored(used \ {a}, answered)
    BY <1>3, BookStored DEF UnuseAddress
  <2>2. Book!UnuseAddress(a)
    BY <1>3, <2>1 DEF UnuseAddress, Book!UnuseAddress
  <2>3. a \in Book!Address
    BY DEF Address, Index, Book!Address, Book!Index
  <2> QED BY <2>2, <2>3 DEF Book!Next
<1>4. CASE ComposeTransfer
  <2>1. CASE UNCHANGED <<cache, book, faults>> /\ pc' = "transfer"
    BY <1>4, <2>1, BookStutters DEF ComposeTransfer, cache, book
  <2>2. ASSUME NEW i \in Book!NextUnused(used), NEW answered \in BOOLEAN,
               UseAddress(i, FALSE, TRUE, answered), pc' \in {"idle", "transfer"}
        PROVE  Book!Next
    <3>1. i \in Index
      BY DEF Book!NextUnused, Book!Index, Index
    <3>2. Book!Use(i, FALSE, TRUE) /\ pc # "down"
      BY <1>4, <2>2, <3>1, BookUse DEF ComposeTransfer
    <3> QED BY <3>2 DEF Book!ChangeAddress, Book!Next
  <2> QED BY <1>4, <2>1, <2>2 DEF ComposeTransfer
<1>5. CASE CreateContract \/ DeleteContract \/ StoreContractAgain \/ RecordTransfer \/ TransferFails
             \/ SyncStart \/ SyncFails \/ (\E t \in handed : FinalizeTransfer(t))
             \/ \E o \in steady : SyncSkips(o)
  BY <1>5, BookStutters
  DEF CreateContract, DeleteContract, StoreContractAgain, RecordTransfer, TransferFails,
      SyncStart, SyncFails,
      SyncOver, SyncSkips, FinalizeTransfer, Broadcast, cache, book
<1>6. ASSUME NEW answered \in BOOLEAN, SyncEnds(answered) PROVE Book!Next
  <2>1. Book!Stored(used, answered)
    BY <1>6, BookStored DEF SyncEnds, SyncOver
  <2> QED BY <1>6, <2>1 DEF SyncEnds, SyncOver, book, Book!StoreAgain, Book!Next
<1>7. CASE Stop
  BY <1>7 DEF Stop, book, Book!Stop, Book!Next
<1>8. CASE Start
  <2>1. PICK c \in cacheDisk : used' = c.used
    BY <1>8 DEF Start
  <2>2. BookDisk = {c.used}
    BY DEF BookDisk, IInv, TypeOK, Optional
  <2>3. used' = UNION BookDisk /\ BookDisk # {}
    BY <2>1, <2>2
  <2> QED BY <1>8, <2>3 DEF Start, book, BookDisk, Book!Start, Book!Next
<1> QED BY <1>1, <1>2, <1>3, <1>4, <1>5, <1>6, <1>7, <1>8 DEF Next, Requests

\* Whatever the contract's other requests do, its used addresses are an address book.
THEOREM Refinement == Spec => ImplementsAddressBook
<1>1. Init => Book!Init
  BY DEF Init, NoCache, Book!Init
<1>2. IInv /\ [Next]_vars => [Book!Next]_(Book!vars)
  <2>1. ASSUME UNCHANGED vars PROVE UNCHANGED Book!vars
    BY <2>1, BookStutters DEF vars, cache, book
  <2> QED BY <2>1, BookStep
<1> QED BY <1>1, <1>2, Invariance, PTL DEF Spec, Book!Spec, ImplementsAddressBook

-----------------------------------------------------------------------------
(* What is proved of the address book holds in the wallet. *)

BookProofs == INSTANCE AddressBook_proofs WITH
  up <- pc # "down", book <- used, disk <- {c.used : c \in cacheDisk}

LEMMA SameBook ==
  /\ Book!Init => BookProofs!Init
  /\ [Book!Next]_(Book!vars) => [BookProofs!Next]_(BookProofs!vars)
<1>1. Book!Init => BookProofs!Init
  BY DEF Book!Init, BookProofs!Init
<1>2. Book!Next => BookProofs!Next
  BY DEF Book!Next, BookProofs!Next, Book!NextAddress, BookProofs!NextAddress,
     Book!AddressAt, BookProofs!AddressAt, Book!ChangeAddress, BookProofs!ChangeAddress,
     Book!UnuseAddress, BookProofs!UnuseAddress, Book!StoreAgain, BookProofs!StoreAgain,
     Book!Stop, BookProofs!Stop, Book!Start, BookProofs!Start, Book!Use, BookProofs!Use,
     Book!NextUnused, BookProofs!NextUnused, Book!Stored, BookProofs!Stored,
     Book!File!Outcomes, BookProofs!File!Outcomes, Book!File!Lost, BookProofs!File!Lost,
     Book!Used, BookProofs!Used, Book!Derived, BookProofs!Derived,
     Book!Address, BookProofs!Address, Book!Index, BookProofs!Index
<1> QED BY <1>1, <1>2 DEF Book!vars, BookProofs!vars

LEMMA BookBehaves == Spec => BookProofs!Spec
<1>1. Spec => Book!Spec
  BY Refinement DEF ImplementsAddressBook
<1> QED BY <1>1, SameBook, PTL DEF Book!Spec, BookProofs!Spec

\* In the life of a contract, with its syncs, transfers, deletions and faults, no
\* address is taken as unused while one of its index is held.
THEOREM FreshInWallet == Spec => []Book!FreshIndex
<1>1. BookProofs!Spec => []BookProofs!FreshIndex
  BY BookProofs!Fresh, LargestAssumption, NestableAssumption, PTL
<1>2. BookProofs!FreshIndex => Book!FreshIndex
  BY DEF Book!FreshIndex, BookProofs!FreshIndex
<1> QED BY <1>1, <1>2, BookBehaves, PTL
=============================================================================
