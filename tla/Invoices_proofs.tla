---------------------------- MODULE Invoices_proofs ----------------------------
(***************************************************************************)
(* Theorems about Invoices, for any number of contracts and any set of     *)
(* secrets.                                                                *)
(***************************************************************************)
EXTENDS Invoices, TLAPS

\* What TypeOK says of blindings, for one store.
Owned(v) ==
  \A c \in Contract : \A d \in v[c] : d.factors \subseteq {s \in d.invoices : c \in owner[s]}

\* Noting an invoice makes a store of a store, takes nothing out of it, and puts
\* the invoice, with the blinding where it belongs, into the contracts named.
LEMMA NotedGrows ==
  ASSUME NEW v, Citadel(v), NEW s \in Secret, NEW B \in SUBSET Contract
  PROVE  /\ Citadel(Noted(v, s, B))
         /\ \A c \in Contract : \A d \in v[c] : \E e \in Noted(v, s, B)[c] :
              d.invoices \subseteq e.invoices /\ d.factors \subseteq e.factors
         /\ \A c \in B : \A d \in v[c] : \E e \in Noted(v, s, B)[c] :
              s \in e.invoices /\ (c \in owner[s] => s \in e.factors)
         /\ Owned(v) => Owned(Noted(v, s, B))
<1> DEFINE N == Noted(v, s, B)
           More(c, d) == [invoices |-> d.invoices \cup {s},
                          factors |-> d.factors \cup (IF c \in owner[s] THEN {s} ELSE {})]
<1>1. v \in [Contract -> SUBSET Data] /\ \A c \in Contract : \A d, e \in v[c] : d = e
  BY DEF Citadel
<1>2. N = [c \in Contract |-> IF c \notin B THEN v[c] ELSE {More(c, d) : d \in v[c]}]
  BY DEF Noted
<1>3. \A c \in Contract : \A d \in Data : More(c, d) \in Data
  BY DEF Data
<1>4. \A c \in Contract \ B : N[c] = v[c]
  BY <1>2
<1>5. \A c \in B : N[c] = {More(c, d) : d \in v[c]}
  BY <1>2
<1>6. \A c \in Contract, d \in Data :
        /\ d.invoices \subseteq More(c, d).invoices /\ d.factors \subseteq More(c, d).factors
        /\ s \in More(c, d).invoices /\ (c \in owner[s] => s \in More(c, d).factors)
        /\ d.factors \subseteq {t \in d.invoices : c \in owner[t]} =>
             More(c, d).factors \subseteq {t \in More(c, d).invoices : c \in owner[t]}
  BY DEF Data
<1> HIDE DEF N, More
<1>7. N \in [Contract -> SUBSET Data]
  BY <1>1, <1>2, <1>3
<1>8. \A c \in Contract : \A d, e \in N[c] : d = e
  BY <1>1, <1>4, <1>5
<1>9. \A c \in Contract : \A d \in v[c] : \E e \in N[c] :
        d.invoices \subseteq e.invoices /\ d.factors \subseteq e.factors
  BY <1>1, <1>4, <1>5, <1>6
<1>10. \A c \in B : \A d \in v[c] : \E e \in N[c] :
         s \in e.invoices /\ (c \in owner[s] => s \in e.factors)
  BY <1>1, <1>5, <1>6
<1>11. Owned(v) => Owned(N)
  BY <1>1, <1>4, <1>5, <1>6 DEF Owned
<1> QED
  BY <1>7, <1>8, <1>9, <1>10, <1>11 DEF Citadel, N

-----------------------------------------------------------------------------

\* A contract created or deleted leaves the rest of a store as it is.
LEMMA OneContract ==
  ASSUME NEW v, Citadel(v), Owned(v), NEW c \in Contract, NEW new \in {{}, {NoData}}
  PROVE  Citadel([v EXCEPT ![c] = new]) /\ Owned([v EXCEPT ![c] = new])
<1>1. NoData \in Data /\ NoData.factors = {}
  BY DEF NoData, Data
<1> QED
  BY <1>1 DEF Citadel, Owned

LEMMA InitTypeOK == Init => TypeOK
BY DEF Init, TypeOK, Citadel, NoStore

\* The parts of TypeOK that steps treat alike.
LEMMA Parts ==
  TypeOK <=>
    /\ up \in BOOLEAN /\ funded \subseteq Contract
    /\ \A f, g \in fundedDisk : f \subseteq Contract /\ f = g
    /\ owner \in [Secret -> SUBSET Contract]
    /\ kept \in [Secret -> SUBSET Contract] /\ \A s \in Secret : owner[s] = {} => kept[s] = {}
    /\ missed \subseteq Secret
    /\ Citadel(store) /\ Owned(store)
    /\ \A v \in disk : Citadel(v) /\ Owned(v)
    /\ \A v, w \in disk : v = w
BY DEF TypeOK, Owned

\* AddInvoice, as far as the invariants see it: memory and file hold what was there
\* with the invoice noted for some contracts; success means for all that are named.
LEMMA NoteShape ==
  ASSUME TypeOK, NEW s \in Secret, AddInvoice(s)
  PROVE  /\ \E B \in SUBSET Contract : store' = Noted(store, s, B)
         /\ \A w \in disk' : w \in disk \/ \E B \in SUBSET Contract : w = Noted(store, s, B)
         /\ \A w, x \in disk' : w = x
         /\ \/ kept' = kept
            \/ \E C \in SUBSET Contract :
                 /\ \A c \in C : store[c] # {}
                 /\ store' = Noted(store, s, C) /\ disk' = {store'}
                 /\ kept' = [kept EXCEPT ![s] = @ \cup C]
<1>1. PICK C \in SUBSET Contract : owner[s] \subseteq C /\ \E r \in SUBSET C : Note(s, C, r)
  BY DEF AddInvoice
<1>2. PICK r \in SUBSET C : Note(s, C, r)
  BY <1>1
<1>3. C # {} /\ r \subseteq Contract
  BY <1>1, <1>2 DEF AddInvoice
<1> DEFINE Before(c) == {b \in C : b < c}
           Sofar(B) == IF B = {} THEN disk ELSE {Noted(store, s, B)}
<1>4. /\ \A c \in r : store[c] # {}
      /\ store' = Noted(store, s, r)
      /\ \/ r = C /\ disk' = Sofar(C) /\ kept' = [kept EXCEPT ![s] = @ \cup C]
         \/ disk' = Sofar(r) /\ kept' = kept
         \/ (\E c \in r : disk' \in {Sofar(Before(c)), {}}) /\ kept' = kept
  BY <1>2 DEF Note, Known
<1>5. \A w, x \in disk : w = x
  BY DEF TypeOK
<1>6. \A B \in SUBSET Contract :
        /\ \A w, x \in Sofar(B) : w = x
        /\ \A w \in Sofar(B) : w \in disk \/ w = Noted(store, s, B)
  BY <1>5
<1>7. \A c \in r : Before(c) \in SUBSET Contract
  OBVIOUS
<1>8. r = C => Sofar(C) = {Noted(store, s, C)}
  BY <1>3
<1> HIDE DEF Before, Sofar
<1>9. \E B \in SUBSET Contract : disk' \in {Sofar(B), {}}
  BY <1>3, <1>4, <1>7
<1>10. \A w \in disk' : w \in disk \/ \E B \in SUBSET Contract : w = Noted(store, s, B)
  BY <1>6, <1>9
<1>11. \A w, x \in disk' : w = x
  BY <1>6, <1>9
<1> QED
  BY <1>1, <1>3, <1>4, <1>8, <1>10, <1>11

\* Whether or not a store is answered, the file holds the new state, the old one or
\* nothing that can be read.
LEMMA Outcomes ==
  /\ StorageStored => disk' \in {{store'}, disk, {}}
  /\ CacheStored => fundedDisk' \in {{funded'}, fundedDisk, {}}
BY DEF StorageStored, CacheStored, StorageFile!Outcomes, CacheFile!Outcomes,
       StorageFile!Lost, CacheFile!Lost

LEMMA StepTypeOK == TypeOK /\ [Next]_vars => TypeOK'
<1> SUFFICES ASSUME TypeOK, [Next]_vars PROVE TypeOK'
  OBVIOUS
<1> USE Parts
<1>1. ASSUME NEW c \in Contract, Create(c) PROVE TypeOK'
  <2>1. Citadel(store') /\ Owned(store')
    BY <1>1, OneContract DEF Create
  <2> QED
    BY <1>1, <2>1, Outcomes DEF Create, TypeOK, Owned, Without, cache
<1>2. ASSUME NEW c \in Contract, Rename(c) PROVE TypeOK'
  BY <1>2, Outcomes DEF Rename, TypeOK, cache, clients
<1>3. ASSUME NEW c \in Contract, Delete(c) PROVE TypeOK'
  <2>1. Citadel(store') /\ Owned(store')
    BY <1>3, OneContract DEF Delete
  <2> QED
    BY <1>3, <2>1, Outcomes DEF Delete, TypeOK, Owned, Without, cache
<1>4. ASSUME NEW c \in Contract, Sync(c) PROVE TypeOK'
  BY <1>4, Outcomes DEF Sync, TypeOK, clients
<1>5. ASSUME NEW s \in Secret, NEW c \in Contract, BlindUtxo(s, c) PROVE TypeOK'
  BY <1>5 DEF BlindUtxo, TypeOK, cache
<1>6. ASSUME NEW s \in Secret, AddInvoice(s) PROVE TypeOK'
  <2>1. Citadel(store) /\ Owned(store)
    OBVIOUS
  <2>2. \A B \in SUBSET Contract : Citadel(Noted(store, s, B)) /\ Owned(Noted(store, s, B))
    BY <2>1, NotedGrows
  <2>3. Citadel(store') /\ Owned(store')
    BY <1>6, <2>2, NoteShape
  <2>4. \A w \in disk' : Citadel(w) /\ Owned(w)
    BY <1>6, <2>2, NoteShape
  <2>5. \A w, x \in disk' : w = x
    BY <1>6, NoteShape
  <2>6. kept' \in [Secret -> SUBSET Contract] /\ \A t \in Secret : owner[t] = {} => kept'[t] = {}
    BY <1>6, NoteShape DEF TypeOK, AddInvoice
  <2>7. UNCHANGED <<up, cache, owner, missed>>
    BY <1>6 DEF AddInvoice
  <2> QED
    BY <2>3, <2>4, <2>5, <2>6, <2>7 DEF TypeOK, Owned, cache
<1>7. ASSUME NEW H \in SUBSET Secret, AcceptTransfer(H) PROVE TypeOK'
  BY <1>7 DEF AcceptTransfer, Reveal, TypeOK, cache
<1>8. CASE Stop
  <2>1. Citadel(NoStore) /\ Owned(NoStore)
    BY DEF Citadel, Owned, NoStore
  <2> QED
    BY <1>8, <2>1 DEF Stop, TypeOK, Owned, clients
<1>9. CASE Start
  BY <1>9 DEF Start, TypeOK, clients
<1>10. CASE UNCHANGED vars
  BY <1>10 DEF vars, cache, clients, TypeOK
<1> QED
  BY <1>1, <1>2, <1>3, <1>4, <1>5, <1>6, <1>7, <1>8, <1>9, <1>10 DEF Next

\* Type correctness, with every blinding stored beside its invoice and with the
\* contract whose coin it blinds.
THEOREM TypeCorrect == Spec => []TypeOK
BY InitTypeOK, StepTypeOK, PTL DEF Spec

-----------------------------------------------------------------------------

\* A store that holds at least as much lists at least as much.
LEMMA ListsGrows ==
  ASSUME kept \in [Secret -> SUBSET Contract],
         NEW v, Lists(v), NEW w,
         \A c \in Contract : \A d \in v[c] : \E e \in w[c] :
           d.invoices \subseteq e.invoices /\ d.factors \subseteq e.factors
  PROVE  Lists(w)
<1> SUFFICES ASSUME NEW s \in Secret, NEW c \in kept[s]
             PROVE  \E e \in w[c] : s \in e.invoices /\ (c \in owner[s] => s \in e.factors)
  BY DEF Lists
<1>1. PICK d \in v[c] : s \in d.invoices /\ (c \in owner[s] => s \in d.factors)
  BY DEF Lists
<1>2. c \in Contract
  OBVIOUS
<1>3. PICK e \in w[c] : d.invoices \subseteq e.invoices /\ d.factors \subseteq e.factors
  BY <1>2
<1> QED
  BY <1>1, <1>3

\* Memory and file list what was acknowledged.  Both are needed: the file is what
\* memory becomes at the next start.
LEMMA StepListed == TypeOK /\ AcknowledgedIsListed /\ [Next]_vars => AcknowledgedIsListed'
<1> SUFFICES ASSUME TypeOK, AcknowledgedIsListed, [Next]_vars PROVE AcknowledgedIsListed'
  OBVIOUS
<1> USE Parts
<1>1. ASSUME NEW c \in Contract, NEW new,
             up, UNCHANGED owner, store' = [store EXCEPT ![c] = new],
             StorageStored, kept' = Without(c)
      PROVE  AcknowledgedIsListed'
  <2>1. \A v : Citadel(v) /\ Lists(v) => Lists(v)' /\ Lists([v EXCEPT ![c] = new])'
    BY <1>1 DEF Lists, Without, Citadel
  <2>2. Citadel(store) /\ Lists(store) /\ \A v \in disk : Citadel(v) /\ Lists(v)
    BY <1>1 DEF AcknowledgedIsListed
  <2>3. Lists(store)'
    BY <1>1, <2>1, <2>2 DEF Lists
  <2>4. \A v \in disk' : v \in disk \/ v = store'
    BY <1>1, Outcomes
  <2>5. \A v \in disk' : Lists(v)'
    BY <2>1, <2>2, <2>3, <2>4 DEF Lists
  <2> QED
    BY <2>3, <2>5 DEF AcknowledgedIsListed
<1>2. ASSUME NEW c \in Contract, Create(c) PROVE AcknowledgedIsListed'
  BY <1>1, <1>2 DEF Create
<1>3. ASSUME NEW c \in Contract, Delete(c) PROVE AcknowledgedIsListed'
  BY <1>1, <1>3 DEF Delete
<1>4. ASSUME NEW c \in Contract, Rename(c) PROVE AcknowledgedIsListed'
  BY <1>4, Outcomes DEF Rename, clients, AcknowledgedIsListed, Lists
<1>5. ASSUME NEW c \in Contract, Sync(c) PROVE AcknowledgedIsListed'
  BY <1>5 DEF Sync, clients, AcknowledgedIsListed, Lists
<1>6. ASSUME NEW s \in Secret, NEW c \in Contract, BlindUtxo(s, c) PROVE AcknowledgedIsListed'
  \* Nothing was acknowledged for a secret that is new.
  <2>1. kept[s] = {}
    BY <1>6 DEF BlindUtxo
  <2>2. \A t \in Secret : t # s => owner'[t] = owner[t]
    BY <1>6 DEF BlindUtxo
  <2>3. UNCHANGED <<up, store, disk, kept>>
    BY <1>6 DEF BlindUtxo
  <2>4. \A v : Lists(v) => Lists(v)'
    BY <2>1, <2>2, <2>3 DEF Lists
  <2>5. Lists(store) => Lists(store)'
    BY <2>1, <2>2, <2>3 DEF Lists
  <2> QED
    BY <2>3, <2>4, <2>5 DEF AcknowledgedIsListed
<1>7. ASSUME NEW s \in Secret, AddInvoice(s) PROVE AcknowledgedIsListed'
  <2>1. /\ UNCHANGED <<up, owner>> /\ up
        /\ Citadel(store) /\ Lists(store)
        /\ \A v \in disk : Citadel(v) /\ Lists(v)
    BY <1>7 DEF AddInvoice, AcknowledgedIsListed
  <2>2. \A B \in SUBSET Contract : Lists(Noted(store, s, B))
    <3> SUFFICES ASSUME NEW B \in SUBSET Contract PROVE Lists(Noted(store, s, B))
      OBVIOUS
    <3>1. \A c \in Contract : \A d \in store[c] : \E e \in Noted(store, s, B)[c] :
            d.invoices \subseteq e.invoices /\ d.factors \subseteq e.factors
      BY <2>1, NotedGrows
    <3> QED
      BY <2>1, <3>1, ListsGrows
  <2>3. CASE kept' = kept
    <3>1. \A v : Lists(v) => Lists(v)'
      BY <2>1, <2>3 DEF Lists
    <3>2. Lists(store)'
      <4>1. PICK B \in SUBSET Contract : store' = Noted(store, s, B)
        BY <1>7, NoteShape
      <4> QED
        BY <2>1, <2>2, <2>3, <4>1 DEF Lists
    <3>3. \A v \in disk' : Lists(v)
      BY <1>7, <2>1, <2>2, NoteShape
    <3> QED
      BY <3>1, <3>2, <3>3 DEF AcknowledgedIsListed
  <2>4. CASE kept' # kept
    <3>1. PICK C \in SUBSET Contract :
            /\ \A c \in C : store[c] # {}
            /\ store' = Noted(store, s, C) /\ disk' = {store'}
            /\ kept' = [kept EXCEPT ![s] = @ \cup C]
      BY <1>7, <2>4, NoteShape
    <3>2. \A c \in C : \E e \in store'[c] : s \in e.invoices /\ (c \in owner[s] => s \in e.factors)
      BY <2>1, <3>1, NotedGrows
    <3>3. Lists(store)'
      <4>1. \A t \in Secret : \A c \in kept[t] : \E d \in store'[c] :
              t \in d.invoices /\ (c \in owner[t] => t \in d.factors)
        BY <2>2, <3>1 DEF Lists
      <4>2. \A t \in Secret : \A c \in kept'[t] : c \in kept[t] \/ (t = s /\ c \in C)
        BY <3>1
      <4> QED
        BY <2>1, <3>2, <4>1, <4>2 DEF Lists
    <3>4. \A v \in disk' : Lists(v)'
      BY <3>1, <3>3 DEF Lists
    <3> QED
      BY <3>3, <3>4 DEF AcknowledgedIsListed
  <2> QED
    BY <2>3, <2>4
<1>8. ASSUME NEW H \in SUBSET Secret, AcceptTransfer(H) PROVE AcknowledgedIsListed'
  BY <1>8 DEF AcceptTransfer, cache, AcknowledgedIsListed, Lists
<1>9. CASE Stop
  BY <1>9 DEF Stop, clients, AcknowledgedIsListed, Lists
<1>10. CASE Start
  BY <1>10 DEF Start, clients, AcknowledgedIsListed, Lists
<1>11. CASE UNCHANGED vars
  BY <1>11 DEF vars, cache, clients, AcknowledgedIsListed, Lists
<1> QED
  BY <1>2, <1>3, <1>4, <1>5, <1>6, <1>7, <1>8, <1>9, <1>10, <1>11 DEF Next

\* What the invariant about payments rests on.
PaidInv == TypeOK /\ AcknowledgedIsListed /\ PaidIsRevealed

LEMMA InitPaidInv == Init => PaidInv
BY InitTypeOK DEF Init, PaidInv, AcknowledgedIsListed, Lists, PaidIsRevealed

\* A seal whose invoice is acknowledged is among what Reveal finds in memory.
LEMMA StepPaidInv == PaidInv /\ [Next]_vars => PaidInv'
<1> SUFFICES ASSUME PaidInv, [Next]_vars PROVE PaidIsRevealed'
  BY StepTypeOK, StepListed DEF PaidInv
<1>1. ASSUME NEW H \in SUBSET Secret, AcceptTransfer(H) PROVE PaidIsRevealed'
  <2>1. \A s \in H : owner[s] \cap kept[s] # {} => s \in Reveal(H)
    <3> SUFFICES ASSUME NEW s \in H, NEW c \in owner[s] \cap kept[s] PROVE s \in Reveal(H)
      OBVIOUS
    <3>1. Lists(store) /\ c \in Contract
      BY <1>1, Parts DEF AcceptTransfer, PaidInv, AcknowledgedIsListed
    <3>2. \E d \in store[c] : s \in d.factors
      BY <3>1 DEF Lists
    <3> QED
      BY <3>1, <3>2 DEF Reveal
  <2> QED
    BY <1>1, <2>1 DEF AcceptTransfer, PaidInv, PaidIsRevealed
<1>2. CASE UNCHANGED missed
  BY <1>2 DEF PaidInv, PaidIsRevealed
<1>3. (\E H \in SUBSET Secret : AcceptTransfer(H)) \/ UNCHANGED missed
  BY DEF Next, Create, Rename, Delete, Sync, BlindUtxo, AddInvoice, Stop, Start, clients, vars
<1> QED
  BY <1>1, <1>2, <1>3

THEOREM PaidInvariant == Spec => []PaidInv
BY InitPaidInv, StepPaidInv, PTL DEF Spec

\* Acknowledged invoices are listed, with their blindings, through failed stores,
\* other clients' requests and restarts.
THEOREM Listed == Spec => []AcknowledgedIsListed
BY PaidInvariant, PTL DEF PaidInv

\* Consignments for acknowledged invoices are accepted with the blinding revealed.
THEOREM Revealed == Spec => []PaidIsRevealed
BY PaidInvariant, PTL DEF PaidInv
=============================================================================
