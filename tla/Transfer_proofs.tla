----------------------------- MODULE Transfer_proofs -----------------------------
(***************************************************************************)
(* For any coins, requests and indexes: a transfer that a client was given *)
(* is recorded wherever it has to be, change addresses are not shared, and *)
(* bitcoins and assets are conserved but for what adding amounts loses.    *)
(***************************************************************************)
EXTENDS Transfer, SumTheorems, TLAPS

\* What the steps so far have kept for the transfer being composed.
IndexKept ==
  \A t \in plan :
    /\ pc = "change" => t.index = {}
    /\ t.index \subseteq cache.used
    /\ \A c \in cacheDisk : t.index \subseteq c.used
TweakKept ==
  \A t \in plan :
    /\ t.tweak => pc \in {"tweak", "enclose", "register"}
    /\ t.tweak /\ pc \in {"enclose", "register"} =>
         t.id \in store.tweaks /\ \A s \in storeDisk : t.id \in s.tweaks
    /\ IsRgb(t.req) /\ pc = "register" => t.id \in enclosed

\* The index of the plan is nobody's; the files never fall behind what was handed out.
IndexIsNew == \A t \in plan, u \in handed : t.index \cap u.index = {}

IInv ==
  TypeOK /\ IndexKept /\ TweakKept /\ IndexIsNew /\ HandedOutIsRecorded /\ OneChangePerIndex

LEMMA InitIInv == Init => IInv
  BY AmountAssumption
  DEF Init, IInv, TypeOK, IndexKept, TweakKept, IndexIsNew, HandedOutIsRecorded,
      OneChangePerIndex, Optional, CacheState, StoreState, NoCache, NoStore

LEMMA RequestFields ==
  ASSUME NEW r \in Request
  PROVE  r.value \in 0 .. Word - 1 /\ r.fee \in 0 .. Word - 1 /\ BitcoinValue(r) \in 0 .. Word - 1
  BY AmountAssumption DEF Request, BitcoinValue, IsRgb

\* What a store leaves in each file.
LEMMA CacheIsStored ==
  ASSUME TypeOK, cache' \in CacheState, NEW answered \in BOOLEAN, CacheStored(answered)
  PROVE  /\ cacheDisk' \subseteq CacheState /\ Optional(cacheDisk')
         /\ \A c \in cacheDisk' : c \in cacheDisk \/ c = cache'
         /\ answered => cacheDisk' = {cache'}
  BY DEF CacheStored, CacheFile!Outcomes, CacheFile!Lost, Optional, TypeOK

LEMMA StorageIsStored ==
  ASSUME TypeOK, store' \in StoreState, NEW answered \in BOOLEAN, StorageStored(answered)
  PROVE  /\ storeDisk' \subseteq StoreState /\ Optional(storeDisk')
         /\ \A s \in storeDisk' : s \in storeDisk \/ s = store'
         /\ answered => storeDisk' = {store'}
<1>1. /\ answered => storeDisk' = {store'}
      /\ ~answered => storeDisk' = storeDisk \/ storeDisk' = {}
  BY DEF StorageStored, StorageFile!Outcomes, StorageFile!Lost
<1>2. storeDisk \in SUBSET StoreState /\ Optional(storeDisk)
  BY DEF TypeOK
<1> QED BY <1>1, <1>2 DEF Optional

\* A composed transfer is new in every field.
LEMMA ComposeStep == ASSUME IInv, NEW r \in Request, Compose(r) PROVE IInv'
<1> PICK I \in Picks(r) : \E l \in Leftovers(r, I) :
      LET t == [id |-> count + 1, req |-> r, inputs |-> I, leftover |-> l,
                index |-> {}, tweak |-> FALSE] IN
        plan' = {t} /\ pc' = IF BitcoinChange(t) > 0 THEN "change" ELSE "connect"
  BY DEF Compose
<1> PICK l \in Leftovers(r, I) :
      LET t == [id |-> count + 1, req |-> r, inputs |-> I, leftover |-> l,
                index |-> {}, tweak |-> FALSE] IN
        plan' = {t} /\ pc' = IF BitcoinChange(t) > 0 THEN "change" ELSE "connect"
  OBVIOUS
<1> DEFINE t == [id |-> count + 1, req |-> r, inputs |-> I, leftover |-> l,
                 index |-> {}, tweak |-> FALSE]
<1>1. plan' = {t} /\ pc' \in {"change", "connect"}
  OBVIOUS
<1>2. I \in SUBSET Coin /\ l \in SUBSET Coin
  BY DEF IInv, TypeOK, CacheState, Picks, Leftovers, Pool
<1>3. count' \in 1 .. MaxTransfers /\ count' = count + 1
  BY AmountAssumption DEF Compose, IInv, TypeOK
<1>4. t \in Composed
  BY <1>2, <1>3 DEF Composed
<1>5. t.index = {} /\ ~t.tweak
  OBVIOUS
<1> HIDE DEF t
<1>6. pc = "idle" /\ UNCHANGED Kept
  BY DEF Compose
<1>7. TypeOK'
  BY <1>1, <1>3, <1>4, <1>6 DEF IInv, TypeOK, Optional, Kept
<1>8. IndexKept' /\ TweakKept' /\ IndexIsNew'
  BY <1>1, <1>5, <1>6 DEF IInv, IndexKept, TweakKept, IndexIsNew, Kept
<1>9. HandedOutIsRecorded' /\ OneChangePerIndex'
  BY <1>1, <1>6 DEF IInv, HandedOutIsRecorded, OneChangePerIndex, Kept
<1> QED BY <1>7, <1>8, <1>9 DEF IInv

LEMMA SyncStep == ASSUME IInv, NEW S \in SUBSET Coin, Sync(S) PROVE IInv'
<1> PICK answered \in BOOLEAN : CacheStored(answered)
  BY DEF Sync
<1>1. cache' \in CacheState /\ cache'.used = cache.used
  BY DEF Sync, IInv, TypeOK, CacheState
<1>2. /\ cacheDisk' \subseteq CacheState /\ Optional(cacheDisk')
      /\ \A c \in cacheDisk' : c \in cacheDisk \/ c = cache'
  BY <1>1, CacheIsStored DEF IInv
<1>3. UNCHANGED <<pc, plan, count, store, storeDisk, enclosed, handed>> /\ pc = "idle"
  BY DEF Sync
<1>4. TypeOK'
  BY <1>1, <1>2, <1>3 DEF IInv, TypeOK, Optional
<1>5. plan' = {}
  BY <1>3 DEF IInv, TypeOK
<1>6. HandedOutIsRecorded'
  BY <1>1, <1>2, <1>3 DEF IInv, HandedOutIsRecorded
<1> QED BY <1>3, <1>4, <1>5, <1>6 DEF IInv, IndexKept, TweakKept, IndexIsNew, OneChangePerIndex

LEMMA TakeChangeStep == ASSUME IInv, TakeChange PROVE IInv'
<1> PICK t \in plan, i \in Index \ cache.used, answered \in BOOLEAN :
      /\ cache' = [cache EXCEPT !.used = @ \cup {i}]
      /\ CacheStored(answered)
      /\ plan' = IF answered THEN {[t EXCEPT !.index = {i}]} ELSE {}
      /\ pc'   = IF answered THEN "connect" ELSE "idle"
  BY DEF TakeChange
<1> DEFINE u == [t EXCEPT !.index = {i}]
<1>1. cache' \in CacheState /\ cache'.used = cache.used \cup {i}
  BY DEF IInv, TypeOK, CacheState
<1>2. /\ cacheDisk' \subseteq CacheState /\ Optional(cacheDisk')
      /\ \A c \in cacheDisk' : c \in cacheDisk \/ c = cache'
      /\ answered => cacheDisk' = {cache'}
  BY <1>1, CacheIsStored DEF IInv
<1>3. UNCHANGED <<count, store, storeDisk, enclosed, handed>> /\ pc = "change"
  BY DEF TakeChange
<1>4. u \in Composed /\ u.index = {i} /\ u.tweak = t.tweak
  BY DEF IInv, TypeOK, Composed
<1>5. ~t.tweak
  BY <1>3 DEF IInv, TweakKept
<1> HIDE DEF u
<1>6. plan' = (IF answered THEN {u} ELSE {})
  BY DEF u
<1>7. TypeOK'
  BY <1>1, <1>2, <1>3, <1>4, <1>6 DEF IInv, TypeOK, Optional
<1>8. IndexKept'
  BY <1>1, <1>2, <1>4, <1>6 DEF IndexKept
<1>9. TweakKept'
  BY <1>4, <1>5, <1>6 DEF TweakKept
<1>10. IndexIsNew'
  <2>1. \A h \in handed : i \notin h.index
    BY <1>3 DEF IInv, HandedOutIsRecorded
  <2> QED BY <1>3, <1>4, <1>6, <2>1 DEF IndexIsNew
<1>11. HandedOutIsRecorded' /\ OneChangePerIndex'
  BY <1>1, <1>2, <1>3 DEF IInv, HandedOutIsRecorded, OneChangePerIndex
<1> QED BY <1>7, <1>8, <1>9, <1>10, <1>11 DEF IInv

LEMMA RgbTransferStep == ASSUME IInv, RgbTransfer PROVE IInv'
<1> PICK t \in plan, w \in BOOLEAN :
      /\ plan' = {[t EXCEPT !.tweak = w]}
      /\ pc' = IF w THEN "tweak" ELSE "enclose"
  BY DEF RgbTransfer
<1> DEFINE u == [t EXCEPT !.tweak = w]
<1>1. u \in Composed /\ u.index = t.index /\ u.tweak = w
  BY DEF IInv, TypeOK, Composed
<1> HIDE DEF u
<1>2. plan' = {u}
  BY DEF u
<1>3. UNCHANGED <<count, cache, cacheDisk, store, storeDisk, enclosed, handed>> /\ pc = "rgb"
  BY DEF RgbTransfer, Kept
<1>4. TypeOK'
  BY <1>1, <1>2, <1>3 DEF IInv, TypeOK, Optional
<1>5. IndexKept' /\ TweakKept' /\ IndexIsNew'
  BY <1>1, <1>2, <1>3 DEF IInv, IndexKept, TweakKept, IndexIsNew
<1> QED BY <1>3, <1>4, <1>5 DEF IInv, HandedOutIsRecorded, OneChangePerIndex

LEMMA AddTweakStep == ASSUME IInv, AddTweak PROVE IInv'
<1> PICK t \in plan, answered \in BOOLEAN :
      /\ store' = [store EXCEPT !.tweaks = @ \cup {t.id}]
      /\ StorageStored(answered)
      /\ plan' = IF answered THEN plan ELSE {}
      /\ pc'   = IF answered THEN "enclose" ELSE "idle"
  BY DEF AddTweak
<1>1. /\ store' \in StoreState /\ store'.tweaks = store.tweaks \cup {t.id}
      /\ store'.ops = store.ops
  BY DEF IInv, TypeOK, StoreState, Composed
<1>2. /\ storeDisk' \subseteq StoreState /\ Optional(storeDisk')
      /\ \A s \in storeDisk' : s \in storeDisk \/ s = store'
      /\ answered => storeDisk' = {store'}
  BY <1>1, StorageIsStored DEF IInv
<1>3. UNCHANGED <<count, cache, cacheDisk, enclosed, handed>> /\ pc = "tweak"
  BY DEF AddTweak
<1>4. TypeOK'
  BY <1>1, <1>2, <1>3 DEF IInv, TypeOK, Optional
<1>5. \A u \in plan' : u = t
  BY DEF IInv, TypeOK, Optional
<1>6. IndexKept' /\ IndexIsNew'
  BY <1>3 DEF IInv, IndexKept, IndexIsNew
<1>7. TweakKept'
  BY <1>1, <1>2, <1>3, <1>5 DEF IInv, TweakKept
<1>8. HandedOutIsRecorded' /\ OneChangePerIndex'
  BY <1>1, <1>2, <1>3 DEF IInv, HandedOutIsRecorded, OneChangePerIndex
<1> QED BY <1>4, <1>6, <1>7, <1>8 DEF IInv

LEMMA RegisterStep == ASSUME IInv, Register PROVE IInv'
<1> PICK t \in plan, answered \in BOOLEAN :
      /\ store' = [store EXCEPT !.ops = @ \cup {t}]
      /\ StorageStored(answered)
      /\ handed' = IF answered THEN handed \cup {t} ELSE handed
  BY DEF Register
<1>1. /\ store' \in StoreState /\ store'.ops = store.ops \cup {t}
      /\ store'.tweaks = store.tweaks
  BY DEF IInv, TypeOK, StoreState
<1>2. /\ storeDisk' \subseteq StoreState /\ Optional(storeDisk')
      /\ \A s \in storeDisk' : s \in storeDisk \/ s = store'
      /\ answered => storeDisk' = {store'}
  BY <1>1, StorageIsStored DEF IInv
<1>3. /\ UNCHANGED <<count, cache, cacheDisk, enclosed>>
      /\ pc = "register" /\ pc' = "idle" /\ plan' = {}
  BY DEF Register
<1>4. TypeOK'
  BY <1>1, <1>2, <1>3 DEF IInv, TypeOK, Optional
<1>5. HandedOutIsRecorded'
  <2> SUFFICES ASSUME NEW h \in handed'
               PROVE  /\ \A s \in storeDisk' \cup {store'} :
                            h \in s.ops /\ (h.tweak => h.id \in s.tweaks)
                      /\ \A c \in cacheDisk' \cup {cache'} : h.index \subseteq c.used
                      /\ IsRgb(h.req) => h.id \in enclosed'
    BY <1>3 DEF HandedOutIsRecorded
  <2>1. CASE h \in handed
    BY <1>1, <1>2, <1>3, <2>1 DEF IInv, HandedOutIsRecorded
  <2>2. CASE h = t /\ answered
    BY <1>1, <1>2, <1>3, <2>2 DEF IInv, IndexKept, TweakKept
  <2> QED BY <2>1, <2>2
<1>6. OneChangePerIndex'
  BY DEF IInv, IndexIsNew, OneChangePerIndex
<1> QED BY <1>3, <1>4, <1>5, <1>6 DEF IInv, IndexKept, TweakKept, IndexIsNew

LEMMA IInvStep == IInv /\ [Next]_vars => IInv'
<1> SUFFICES ASSUME IInv, [Next]_vars PROVE IInv'
  OBVIOUS
<1> USE DEF IInv, IndexKept, TweakKept, IndexIsNew, HandedOutIsRecorded, OneChangePerIndex
<1>1. CASE \E S \in SUBSET Coin : Sync(S)
  BY <1>1, SyncStep
<1>2. CASE \E r \in Request : Compose(r)
  BY <1>2, ComposeStep
<1>3. CASE TakeChange
  BY <1>3, TakeChangeStep
<1>4. CASE Connect
  BY <1>4 DEF Connect, Kept, TypeOK, Optional
<1>5. CASE RgbTransfer
  BY <1>5, RgbTransferStep
<1>6. CASE AddTweak
  BY <1>6, AddTweakStep
<1>7. CASE Enclose
  BY <1>7 DEF Enclose, TypeOK, Optional, Composed
<1>8. CASE Register
  BY <1>8, RegisterStep
<1>9. CASE Fail
  BY <1>9 DEF Fail, TypeOK, Optional, Composed
<1>10. CASE Stop
  BY <1>10 DEF Stop, TypeOK, Optional, CacheState, StoreState, NoCache, NoStore
<1>11. CASE Start
  BY <1>11 DEF Start, TypeOK, Optional
<1>12. CASE UNCHANGED vars
  BY <1>12 DEF vars, TypeOK
<1> QED BY <1>1, <1>2, <1>3, <1>4, <1>5, <1>6, <1>7, <1>8, <1>9, <1>10, <1>11, <1>12 DEF Next

LEMMA Invariance == Spec => []IInv
  BY InitIInv, IInvStep, PTL DEF Spec

\* Every variable stays in its type, and a transfer is under way in its states only.
THEOREM TypeCorrect == Spec => []TypeOK
<1>1. IInv => TypeOK
  BY DEF IInv
<1> QED BY <1>1, Invariance, PTL

\* No transaction is handed out before all that follows it up is kept.
THEOREM Recorded == Spec => []HandedOutIsRecorded
<1>1. IInv => HandedOutIsRecorded
  BY DEF IInv
<1> QED BY <1>1, Invariance, PTL

\* No two transactions handed out share a change address.
THEOREM ChangeOnce == Spec => []OneChangePerIndex
<1>1. IInv => OneChangePerIndex
  BY DEF IInv
<1> QED BY <1>1, Invariance, PTL

-----------------------------------------------------------------------------
(* The amounts.  They depend on the request and the coins only, which no step *)
(* after the selection changes.                                               *)

\* What coin selection, and the refusal of an RGB change without a place, give.
IsFunded(t) ==
  /\ WorthSum(t.req, t.inputs) >= Target(t.req)
  /\ t.leftover \cap t.inputs = {}
  /\ RgbChange(t) > 0 => t.leftover # {} \/ BitcoinChange(t) > 0
Funded == \A t \in plan \cup handed : IsFunded(t)

LEMMA SameFunds ==
  ASSUME NEW t, NEW u, u.req = t.req, u.inputs = t.inputs, u.leftover = t.leftover, IsFunded(t)
  PROVE  IsFunded(u)
<1>1. RgbChange(u) = RgbChange(t) /\ BitcoinChange(u) = BitcoinChange(t)
  BY DEF RgbChange, BitcoinChange
<1> QED BY <1>1 DEF IsFunded

LEMMA FundedStep == TypeOK /\ Funded /\ [Next]_vars => Funded'
<1> SUFFICES ASSUME TypeOK, Funded, [Next]_vars, NEW u \in plan' \cup handed' PROVE IsFunded(u)
  BY DEF Funded
<1>1. CASE u \in plan \cup handed
  BY <1>1 DEF Funded
<1>2. ASSUME NEW r \in Request, Compose(r) PROVE IsFunded(u)
  <2> PICK I \in Picks(r) : \E l \in Leftovers(r, I) :
        LET t == [id |-> count + 1, req |-> r, inputs |-> I, leftover |-> l,
                  index |-> {}, tweak |-> FALSE] IN
          plan' = {t} /\ (RgbChange(t) > 0 => l # {} \/ BitcoinChange(t) > 0)
    BY <1>2 DEF Compose
  <2> PICK l \in Leftovers(r, I) :
        LET t == [id |-> count + 1, req |-> r, inputs |-> I, leftover |-> l,
                  index |-> {}, tweak |-> FALSE] IN
          plan' = {t} /\ (RgbChange(t) > 0 => l # {} \/ BitcoinChange(t) > 0)
    OBVIOUS
  <2> DEFINE t == [id |-> count + 1, req |-> r, inputs |-> I, leftover |-> l,
                   index |-> {}, tweak |-> FALSE]
  <2>1. plan' = {t} /\ (RgbChange(t) > 0 => l # {} \/ BitcoinChange(t) > 0)
    OBVIOUS
  <2>2. t.req = r /\ t.inputs = I /\ t.leftover = l
    OBVIOUS
  <2> HIDE DEF t
  <2> SUFFICES ASSUME u \in plan' PROVE IsFunded(u)
    BY <1>1, <1>2 DEF Compose, Kept
  <2>3. /\ u.req = r /\ u.inputs = I /\ u.leftover = l
        /\ RgbChange(u) > 0 => l # {} \/ BitcoinChange(u) > 0
    BY <2>1, <2>2
  <2>4. WorthSum(r, I) >= Target(r)
    BY DEF Picks
  <2>5. l \cap I = {}
    <3>1. CASE I = {}
      BY <3>1
    <3>2. CASE I # {}
      BY <3>2 DEF Leftovers
    <3> QED BY <3>1, <3>2
  <2> QED BY <2>3, <2>4, <2>5 DEF IsFunded
<1>3. CASE TakeChange \/ RgbTransfer
  <2> SUFFICES ASSUME u \in plan' PROVE IsFunded(u)
    BY <1>1, <1>3 DEF TakeChange, RgbTransfer, Kept
  <2>1. \E t \in plan : u.req = t.req /\ u.inputs = t.inputs /\ u.leftover = t.leftover
    BY <1>3 DEF TakeChange, RgbTransfer, TypeOK, Composed
  <2> QED BY <2>1, SameFunds DEF Funded
<1>4. CASE Connect \/ AddTweak \/ Enclose \/ Register \/ Fail \/ Stop \/ Start
  BY <1>1, <1>4 DEF Connect, AddTweak, Enclose, Register, Fail, Stop, Start, Kept
<1>5. CASE (\E S \in SUBSET Coin : Sync(S)) \/ UNCHANGED vars
  BY <1>1, <1>5 DEF Sync, vars
<1> QED BY <1>2, <1>3, <1>4, <1>5 DEF Next

LEMMA FundedInvariance == Spec => []Funded
<1>1. Init => Funded
  BY DEF Init, Funded
<1>2. IInv => TypeOK
  BY DEF IInv
<1> QED BY <1>1, <1>2, FundedStep, Invariance, PTL DEF Spec

LEMMA SumsAreAmounts ==
  ASSUME NEW t \in Composed
  PROVE  AssetSum(t.inputs) \in 0 .. Word - 1 /\ SatSum(t.inputs) \in 0 .. Word - 1
  BY SupplyAssumption DEF Composed

\* A sum of two amounts is off by what it loses, nothing or the type's size.
LEMMA PlusWraps ==
  ASSUME NEW x \in 0 .. Word - 1, NEW y \in 0 .. Word - 1
  PROVE  /\ x + y < Word => Plus(x, y) = x + y
         /\ x + y >= Word => Plus(x, y) = x + y - Word
<1>1. Word \in Nat \ {0}
  BY AmountAssumption
<1>2. CASE x + y < Word
  <2>1. x + y \in 0 .. Word - 1
    BY <1>1, <1>2
  <2>2. (x + y) % Word = x + y
    BY <1>1, <2>1
  <2> QED BY <1>1, <1>2, <2>2 DEF Plus
<1>3. CASE x + y >= Word
  <2>1. x + y = Word * 1 + (x + y - Word) /\ x + y - Word \in 0 .. Word - 1
    BY <1>1, <1>3
  <2>2. (x + y) % Word = x + y - Word
    BY <1>1, <2>1
  <2> QED BY <1>1, <1>3, <2>2 DEF Plus
<1>4. x + y < Word \/ x + y >= Word
  BY <1>1
<1> QED BY <1>2, <1>3, <1>4

\* Inputs are worth the payment, the fee and the change, less what adding the first
\* two lost, for every request.
THEOREM Conserved == Spec => []BitcoinConserved
<1>1. TypeOK /\ Funded => BitcoinConserved
  <2> SUFFICES ASSUME TypeOK, Funded, NEW t \in plan \cup handed,
                      ~IsRgb(t.req) \/ BitcoinChange(t) > 0
               PROVE  SatSum(t.inputs) + Overflow(t.req) =
                        BitcoinValue(t.req) + t.req.fee + BitcoinChange(t)
    BY DEF BitcoinConserved
  <2> DEFINE sum == Plus(BitcoinValue(t.req), t.req.fee)
  <2>1. t \in Composed /\ t.req \in Request /\ IsFunded(t)
    BY DEF TypeOK, Composed, Funded
  <2>2. /\ SatSum(t.inputs) \in Nat /\ BitcoinValue(t.req) \in 0 .. Word - 1
        /\ t.req.fee \in 0 .. Word - 1 /\ Word \in Nat
    BY <2>1, SumsAreAmounts, RequestFields, AmountAssumption
  <2>3. sum + Overflow(t.req) = BitcoinValue(t.req) + t.req.fee /\ sum \in Nat
    BY <2>2, PlusWraps DEF Overflow
  <2>4. SatSum(t.inputs) = sum + BitcoinChange(t)
    <3>1. CASE SatSum(t.inputs) > sum
      BY <2>2, <2>3, <3>1 DEF BitcoinChange
    <3>2. CASE ~(SatSum(t.inputs) > sum)
      <4>1. BitcoinChange(t) = 0 /\ ~IsRgb(t.req)
        BY <3>2 DEF BitcoinChange
      <4>2. SatSum(t.inputs) >= sum
        BY <2>1, <4>1 DEF IsFunded, WorthSum, Target, BitcoinValue
      <4> QED BY <2>2, <2>3, <3>2, <4>1, <4>2
    <3> QED BY <3>1, <3>2
  <2>5. BitcoinChange(t) \in Int /\ Overflow(t.req) \in Int
    BY <2>2, <2>3 DEF BitcoinChange, Overflow
  <2> HIDE DEF sum
  <2> QED BY <2>2, <2>3, <2>4, <2>5
<1>2. IInv => TypeOK
  BY DEF IInv
<1> QED BY <1>1, <1>2, Invariance, FundedInvariance, PTL

\* What the inputs hold beyond the payment has a place that is not spent.
THEOREM Sealed == Spec => []AssetChangeIsSealed
<1>1. TypeOK /\ Funded => AssetChangeIsSealed
  <2> SUFFICES ASSUME TypeOK, Funded, NEW t \in plan \cup handed, IsRgb(t.req) PROVE RgbChange(t) >= 0
    BY DEF AssetChangeIsSealed, Funded, IsFunded
  <2>1. t \in Composed /\ t.req \in Request /\ IsFunded(t)
    BY DEF TypeOK, Composed, Funded
  <2>2. AssetSum(t.inputs) \in Nat /\ t.req.value \in Nat /\ t.req.value < Word
    BY <2>1, SumsAreAmounts, RequestFields, AmountAssumption
  <2>3. Plus(t.req.value, 0) = t.req.value
    BY <2>2, PlusWraps, AmountAssumption
  <2>4. AssetSum(t.inputs) >= t.req.value
    BY <2>1, <2>3 DEF IsFunded, WorthSum, Target
  <2> QED BY <2>2, <2>4 DEF RgbChange
<1>2. IInv => TypeOK
  BY DEF IInv
<1> QED BY <1>1, <1>2, Invariance, FundedInvariance, PTL

-----------------------------------------------------------------------------
(* The selection.  The cache's coins stay as they are while a transfer is     *)
(* composed: what was picked from them is still one of their picks.           *)

Picked == \A t \in plan : t.inputs \in Picks(t.req)

LEMMA SamePicks ==
  ASSUME NEW r, cache'.coins = cache.coins
  PROVE  Picks(r)' = Picks(r)
  BY DEF Picks, Pool, IsRgb, Worth, WorthSum, AssetSum, SatSum, Target, Plus

LEMMA PickedStep == TypeOK /\ Picked /\ [Next]_vars => Picked'
<1> SUFFICES ASSUME TypeOK, Picked, [Next]_vars, NEW u \in plan'
             PROVE  (u.inputs \in Picks(u.req))'
  BY DEF Picked
<1>1. CASE \E r \in Request : Compose(r)
  <2>1. cache'.coins = cache.coins /\ u.inputs \in Picks(u.req)
    BY <1>1 DEF Compose, Kept
  <2> QED BY <2>1, SamePicks
<1>2. CASE TakeChange \/ RgbTransfer \/ Connect \/ AddTweak \/ Enclose \/ UNCHANGED vars
  <2>1. cache'.coins = cache.coins /\ \E t \in plan : u.req = t.req /\ u.inputs = t.inputs
    BY <1>2 DEF vars, TakeChange, RgbTransfer, Connect, AddTweak, Enclose, Kept, TypeOK, Composed,
                 CacheState
  <2> QED BY <2>1, SamePicks DEF Picked
<1>3. CASE Register \/ Fail \/ Stop \/ Start \/ \E S \in SUBSET Coin : Sync(S)
  BY <1>3 DEF Register, Fail, Stop, Start, Sync, TypeOK
<1> QED BY <1>1, <1>2, <1>3 DEF Next

\* Fewer coins than were picked are worth no more than the picked ones without the
\* least of them, and those fall short of the target.
LEMMA PicksAreFewest ==
  ASSUME TypeOK, NEW r \in Request, NEW I \in Picks(r), NEW J \in SUBSET Pool(r),
         WorthSum(r, J) >= Target(r)
  PROVE  Cardinality(I) <= Cardinality(J)
<1> DEFINE w == IF IsRgb(r) THEN Asset ELSE Sats
<1>1. /\ \A c \in Coin : w[c] \in Nat /\ Worth(r, c) = w[c]
      /\ \A S : WorthSum(r, S) = SumFunctionOnSet(w, S)
  BY CoinAssumption DEF Worth, WorthSum, AssetSum, SatSum
<1> HIDE DEF w
<1>2. Pool(r) \subseteq Coin /\ I \subseteq Pool(r) /\ Target(r) \in Int
  BY RequestFields, AmountAssumption DEF TypeOK, CacheState, Pool, Picks, Target, Plus
<1>3. \A S \in SUBSET Coin : IsFiniteSet(S) /\ Cardinality(S) \in Nat /\ SumFunctionOnSet(w, S) \in Nat
  BY <1>1, CoinAssumption, FS_Subset, FS_CardinalityType, SumType
<1> SUFFICES ASSUME Cardinality(J) < Cardinality(I) PROVE FALSE
  BY <1>2, <1>3
<1>4. I # {}
  BY <1>2, <1>3, FS_EmptySet
<1>5. PICK c \in I : \A d \in I : w[c] <= w[d]
  BY <1>1, <1>2, <1>4, Lightest
<1> DEFINE K == I \ {c}
<1>6. SumFunctionOnSet(w, K) < Target(r)
  BY <1>1, <1>2, <1>5 DEF Picks
<1>7. Cardinality(J) <= Cardinality(K)
  <2>1. Cardinality(K) = Cardinality(I) - 1
    BY <1>2, <1>3, FS_RemoveElement
  <2> QED BY <1>2, <1>3, <2>1
<1>8. \A x \in J \ K, y \in K \ J : w[x] <= w[y]
  BY <1>1, <1>2, <1>5 DEF Picks
<1> HIDE DEF K
<1>9. K \subseteq Coin /\ J \subseteq Coin
  BY <1>2 DEF K
<1>10. SumFunctionOnSet(w, J \ K) <= SumFunctionOnSet(w, K \ J)
  <2>1. /\ Cardinality(J \ K) = Cardinality(J) - Cardinality(J \cap K)
        /\ Cardinality(K \ J) = Cardinality(K) - Cardinality(K \cap J)
    BY <1>3, <1>9, FS_Difference
  <2>2. J \cap K = K \cap J
    OBVIOUS
  <2>3. Cardinality(J \ K) <= Cardinality(K \ J)
    BY <1>3, <1>7, <1>9, <2>1, <2>2
  <2> QED BY <1>1, <1>3, <1>8, <1>9, <2>3, SumOutweighs
<1>11. /\ SumFunctionOnSet(w, J) = SumFunctionOnSet(w, J \cap K) + SumFunctionOnSet(w, J \ K)
       /\ SumFunctionOnSet(w, K) = SumFunctionOnSet(w, J \cap K) + SumFunctionOnSet(w, K \ J)
  <2>1. K \cap J = J \cap K
    OBVIOUS
  <2>2. \A S \in SUBSET Coin : \A T :
          SumFunctionOnSet(w, S) = SumFunctionOnSet(w, S \cap T) + SumFunctionOnSet(w, S \ T)
    BY <1>1, <1>3, SumSplit
  <2> QED BY <1>9, <2>1, <2>2
<1>12. SumFunctionOnSet(w, J) <= SumFunctionOnSet(w, K)
  BY <1>3, <1>9, <1>10, <1>11
<1> QED BY <1>1, <1>2, <1>3, <1>6, <1>9, <1>12

\* No selection with fewer coins than the transfer's would do.
THEOREM Fewest == Spec => []FewestCoins
<1>1. Init => Picked
  BY DEF Init, Picked
<1>2. IInv => TypeOK
  BY DEF IInv
<1>3. TypeOK /\ Picked => FewestCoins
  <2> SUFFICES ASSUME TypeOK, Picked, NEW t \in plan, NEW J \in SUBSET Pool(t.req),
                      WorthSum(t.req, J) >= Target(t.req)
               PROVE  Cardinality(t.inputs) <= Cardinality(J)
    BY DEF FewestCoins
  <2>1. t.req \in Request /\ t.inputs \in Picks(t.req)
    BY DEF TypeOK, Composed, Picked
  <2> QED BY <2>1, PicksAreFewest
<1> QED BY <1>1, <1>2, <1>3, PickedStep, Invariance, PTL DEF Spec
-----------------------------------------------------------------------------
(* The files. *)

LEMMA StoreOfCache ==
  ASSUME pc # "down", pc' # "down", NEW answered \in BOOLEAN, CacheStored(answered)
  PROVE  CacheFile!Next
<1>1. CacheFile!Store(answered)
  BY DEF CacheStored, CacheFile!Store, CacheFile!Outcomes, CacheFile!One, CacheFile!Down,
         CacheFile!Lost
<1> QED BY <1>1 DEF CacheFile!Next

LEMMA StoreOfStorage ==
  ASSUME pc # "down", pc' # "down", NEW answered \in BOOLEAN, StorageStored(answered)
  PROVE  StorageFile!Next
<1>1. StorageFile!Store(answered)
  BY DEF StorageStored, StorageFile!Store, StorageFile!Outcomes, StorageFile!One,
         StorageFile!Down, StorageFile!Lost
<1> QED BY <1>1 DEF StorageFile!Next

\* The steps of the handler outside of both files.
LEMMA OtherSteps ==
  ASSUME IInv, \/ \E r \in Request : Compose(r)
               \/ Connect \/ RgbTransfer \/ Enclose \/ Fail
  PROVE  pc # "down" /\ pc' # "down" /\ UNCHANGED <<cache, cacheDisk, store, storeDisk>>
<1>1. CASE \E r \in Request : Compose(r)
  <2>1. pc' # "down"
    BY <1>1 DEF Compose
  <2> QED BY <1>1, <2>1 DEF Compose, Kept
<1>2. CASE Connect \/ RgbTransfer \/ Enclose \/ Fail
  BY <1>2 DEF Connect, RgbTransfer, Enclose, Fail, Kept
<1> QED BY <1>1, <1>2

LEMMA CacheSteps == IInv /\ [Next]_vars => [CacheFile!Next]_(CacheFile!vars)
<1> SUFFICES ASSUME IInv, [Next]_vars PROVE CacheFile!Next \/ UNCHANGED CacheFile!vars
  OBVIOUS
<1>1. CASE (pc = "down" <=> pc' = "down") /\ UNCHANGED <<cache, cacheDisk>>
  BY <1>1 DEF CacheFile!vars
<1>2. CASE \E S \in SUBSET Coin : Sync(S)
  BY <1>2, StoreOfCache DEF Sync
<1>3. CASE TakeChange
  BY <1>3, StoreOfCache DEF TakeChange
<1>4. CASE AddTweak \/ Register \/ UNCHANGED vars
  BY <1>1, <1>4 DEF AddTweak, Register, vars
<1>5. CASE Stop
  <2>1. CacheFile!Stop
    BY <1>5 DEF Stop, CacheFile!Stop, CacheFile!Down, CacheFile!Lost
  <2> QED BY <2>1 DEF CacheFile!Next
<1>6. CASE Start
  <2>1. cacheDisk = {cache'}
    BY <1>6 DEF Start, IInv, TypeOK, Optional
  <2>2. CacheFile!Recover
    BY <1>6, <2>1 DEF Start, CacheFile!Recover, CacheFile!Down, CacheFile!Lost
  <2> QED BY <2>2 DEF CacheFile!Next
<1> QED BY <1>1, <1>2, <1>3, <1>4, <1>5, <1>6, OtherSteps DEF Next

LEMMA StorageSteps == IInv /\ [Next]_vars => [StorageFile!Next]_(StorageFile!vars)
<1> SUFFICES ASSUME IInv, [Next]_vars PROVE StorageFile!Next \/ UNCHANGED StorageFile!vars
  OBVIOUS
<1>1. CASE (pc = "down" <=> pc' = "down") /\ UNCHANGED <<store, storeDisk>>
  BY <1>1 DEF StorageFile!vars
<1>2. CASE AddTweak
  BY <1>2, StoreOfStorage DEF AddTweak
<1>3. CASE Register
  BY <1>3, StoreOfStorage DEF Register
<1>4. CASE (\E S \in SUBSET Coin : Sync(S)) \/ TakeChange \/ UNCHANGED vars
  BY <1>1, <1>4 DEF Sync, TakeChange, vars
<1>5. CASE Stop
  <2>1. StorageFile!Stop
    BY <1>5 DEF Stop, StorageFile!Stop, StorageFile!Down, StorageFile!Lost
  <2> QED BY <2>1 DEF StorageFile!Next
<1>6. CASE Start
  <2>1. storeDisk = {store'}
    BY <1>6 DEF Start, IInv, TypeOK, Optional
  <2>2. StorageFile!Recover
    BY <1>6, <2>1 DEF Start, StorageFile!Recover, StorageFile!Down, StorageFile!Lost
  <2> QED BY <2>2 DEF StorageFile!Next
<1> QED BY <1>1, <1>2, <1>3, <1>4, <1>5, <1>6, OtherSteps DEF Next

\* A transfer treats each of the two files as DurableStore says.
THEOREM KeepUp == Spec => FilesKeepUp
<1>1. Init => CacheFile!Init /\ StorageFile!Init
  BY DEF Init, CacheFile!Init, StorageFile!Init
<1> QED BY <1>1, CacheSteps, StorageSteps, Invariance, PTL
        DEF Spec, FilesKeepUp, CacheFile!Spec, StorageFile!Spec
=============================================================================
