--------------------------- MODULE AddressBook_proofs ---------------------------
(***************************************************************************)
(* For any largest index: used addresses outlive failures and restarts,    *)
(* and an index taken as unused is held by nobody.                         *)
(***************************************************************************)
EXTENDS AddressBook, TLAPS

\* Until the largest index is used, neither copy of the book has an address of it.
NotExhausted ==
  ~exhausted => /\ Largest \notin Used(book)
                /\ \A b \in disk : Largest \notin Used(b)

IInv == TypeOK /\ GivenIsUsed /\ NotExhausted /\ FreshIndex

LEMMA InitIInv == Init => IInv
  BY DEF Init, IInv, TypeOK, GivenIsUsed, NotExhausted, FreshIndex, Used

LEMMA UsedAdd == ASSUME NEW b \in SUBSET Address, NEW a \in Address
                 PROVE  Used(b \cup {a}) = Used(b) \cup {a.index}
  BY DEF Used

LEMMA UsedMonotone == ASSUME NEW b, NEW c, b \subseteq c PROVE Used(b) \subseteq Used(c)
  BY DEF Used

LEMMA UsedIndexes == ASSUME NEW b \in SUBSET Address PROVE Used(b) \subseteq Index
  BY DEF Used, Address

\* The search finds an index below the bound that no address of the book has.
LEMMA NextUnusedIsFresh ==
  ASSUME NEW b \in SUBSET Address, NEW i \in NextUnused(b), Largest \notin Used(b)
  PROVE  i \in Index /\ i \notin Used(b)
<1>1. CASE b = {}
  BY <1>1 DEF NextUnused, Used
<1>2. CASE i > 0 /\ i - 1 \in Used(b) /\ \A j \in Used(b) : j < i
  BY <1>2, UsedIndexes DEF NextUnused, Index
<1> QED BY <1>1, <1>2 DEF NextUnused

\* What a failing or succeeding store leaves in the file.
LEMMA StoredContent ==
  ASSUME NEW b \in SUBSET Address, NEW answered \in BOOLEAN, TypeOK, Stored(b, answered)
  PROVE  /\ disk' = {} \/ disk' = disk \/ disk' = {b}
         /\ answered => disk' = {b}
         /\ disk' = {} \/ \E c \in SUBSET Address : disk' = {c}
  BY DEF Stored, TypeOK, File!Outcomes, File!Lost

\* Taking an address into use, whoever chose its index.
LEMMA UseStep ==
  ASSUME NEW i \in Index, NEW legacy \in BOOLEAN, NEW auto \in BOOLEAN,
         IInv, up, Use(i, legacy, auto), auto => i \in NextUnused(book)
  PROVE  IInv'
<1> DEFINE a == Derived(i, legacy)
<1>1. a \in Address /\ a.index = i
  BY NestableAssumption DEF Derived, Address
<1> PICK answered \in BOOLEAN :
      /\ book' = book \cup {a} /\ Stored(book \cup {a}, answered)
      /\ given' = IF answered THEN given \cup {a} ELSE given
      /\ clash' = IF answered /\ auto /\ i \in Used(given) THEN clash \cup {i} ELSE clash
      /\ exhausted' = (exhausted \/ i = Largest) /\ up' = up
  BY DEF Use
<1> HIDE DEF a
<1>2. book' \in SUBSET Address
  BY <1>1 DEF IInv, TypeOK
<1>3. /\ disk' = {} \/ disk' = disk \/ disk' = {book'}
      /\ answered => disk' = {book'}
      /\ disk' = {} \/ \E c \in SUBSET Address : disk' = {c}
  BY <1>2, StoredContent DEF IInv
<1>4. TypeOK'
  BY <1>1, <1>2, <1>3 DEF IInv, TypeOK
<1>5. GivenIsUsed'
  BY <1>3 DEF IInv, GivenIsUsed
<1>6. Used(book') = Used(book) \cup {i}
  BY <1>1, UsedAdd DEF IInv, TypeOK
<1>7. NotExhausted'
  BY <1>3, <1>6 DEF IInv, NotExhausted
<1>8. FreshIndex'
  <2> SUFFICES ASSUME ~exhausted' PROVE clash' = {}
    BY DEF FreshIndex
  <2>1. ~exhausted /\ clash = {} /\ Largest \notin Used(book)
    BY DEF IInv, FreshIndex, NotExhausted
  <2>2. auto => i \notin Used(given)
    BY <2>1, NextUnusedIsFresh, UsedMonotone DEF IInv, TypeOK, GivenIsUsed
  <2> QED BY <2>1, <2>2
<1> QED BY <1>4, <1>5, <1>7, <1>8 DEF IInv

LEMMA IInvStep == IInv /\ [Next]_vars => IInv'
<1> SUFFICES ASSUME IInv, [Next]_vars PROVE IInv'
  OBVIOUS
<1>0. NextUnused(book) \subseteq Index
  BY DEF NextUnused
<1>1. ASSUME NEW l \in BOOLEAN, NextAddress(l) PROVE IInv'
  BY <1>0, <1>1, UseStep DEF NextAddress
<1>2. ASSUME NEW l \in BOOLEAN, NEW i \in Index, AddressAt(i, l) PROVE IInv'
  BY <1>2, UseStep DEF AddressAt
<1>3. CASE ChangeAddress
  BY <1>0, <1>3, UseStep DEF ChangeAddress
<1>4. ASSUME NEW a \in Address, UnuseAddress(a) PROVE IInv'
  <2>1. PICK answered \in BOOLEAN : Stored(book \ {a}, answered)
    BY <1>4 DEF UnuseAddress
  <2>2. /\ up /\ book' = book \ {a} /\ given' = given \ {a}
        /\ UNCHANGED <<up, clash, exhausted>>
    BY <1>4 DEF UnuseAddress
  <2>3. book \ {a} \in SUBSET Address
    BY DEF IInv, TypeOK
  <2>4. /\ disk' = {} \/ disk' = disk \/ disk' = {book'}
        /\ disk' = {} \/ \E c \in SUBSET Address : disk' = {c}
    BY <2>1, <2>2, <2>3, StoredContent DEF IInv
  <2>5. Used(book') \subseteq Used(book)
    BY <2>2, UsedMonotone
  <2>6. TypeOK'
    BY <2>2, <2>3, <2>4 DEF IInv, TypeOK
  <2>7. GivenIsUsed'
    BY <2>2, <2>4 DEF IInv, GivenIsUsed
  <2>8. NotExhausted'
    BY <2>2, <2>4, <2>5 DEF IInv, NotExhausted
  <2>9. FreshIndex'
    BY <2>2 DEF IInv, FreshIndex
  <2> QED BY <2>6, <2>7, <2>8, <2>9 DEF IInv
<1>5. CASE Stop
  BY <1>5 DEF Stop, IInv, TypeOK, GivenIsUsed, NotExhausted, FreshIndex, Used
<1>6. CASE Start
  <2>1. disk = {book'}
    BY <1>6 DEF Start, IInv, TypeOK
  <2>2. book' \in SUBSET Address
    BY <2>1 DEF IInv, TypeOK
  <2> QED BY <1>6, <2>1, <2>2 DEF Start, IInv, TypeOK, GivenIsUsed, NotExhausted, FreshIndex
<1>7. CASE StoreAgain
  <2>1. PICK answered \in BOOLEAN : Stored(book, answered)
    BY <1>7 DEF StoreAgain
  <2>2. book \in SUBSET Address
    BY DEF IInv, TypeOK
  <2>3. /\ disk' = {} \/ disk' = disk \/ disk' = {book}
        /\ disk' = {} \/ \E c \in SUBSET Address : disk' = {c}
    BY <2>1, <2>2, StoredContent DEF IInv
  <2> QED BY <1>7, <2>3 DEF StoreAgain, IInv, TypeOK, GivenIsUsed, NotExhausted, FreshIndex
<1>8. CASE UNCHANGED vars
  BY <1>8 DEF vars, IInv, TypeOK, GivenIsUsed, NotExhausted, FreshIndex
<1> QED BY <1>1, <1>2, <1>3, <1>4, <1>5, <1>6, <1>7, <1>8 DEF Next

LEMMA Invariance == Spec => []IInv
  BY InitIInv, IInvStep, PTL DEF Spec

\* Every index in memory, in the file and in an answer is an unhardened index.
THEOREM TypeCorrect == Spec => []TypeOK
<1>1. IInv => TypeOK
  BY DEF IInv
<1> QED BY <1>1, Invariance, PTL

\* No address is taken as unused while one of its index is held.
THEOREM Fresh == Spec => []FreshIndex
<1>1. IInv => FreshIndex
  BY DEF IInv
<1> QED BY <1>1, Invariance, PTL

\* Addresses handed out as used stay used, through failures and restarts.
THEOREM Kept == Spec => []GivenIsUsed
<1>1. IInv => GivenIsUsed
  BY DEF IInv
<1> QED BY <1>1, Invariance, PTL

\* An operation that changes the book, or stores it again, is a store of the file.
LEMMA StoreOfBook ==
  ASSUME up, up' = up, NEW answered \in BOOLEAN, Stored(book', answered)
  PROVE  File!Next
<1>1. File!Store(answered)
  BY DEF Stored, File!Store, File!Outcomes, File!One, File!Down, File!Lost
<1> QED BY <1>1 DEF File!Next

\* Every request, a restart included, treats the file as DurableStore says.
THEOREM Refinement == Spec => BookIsStored
<1>1. Init => File!Init
  BY DEF Init, File!Init
<1>2. IInv /\ [Next]_vars => [File!Next]_(File!vars)
  <2>0. UNCHANGED vars => UNCHANGED File!vars
    BY DEF vars, File!vars
  <2> SUFFICES ASSUME IInv, Next PROVE File!Next \/ UNCHANGED File!vars
    BY <2>0
  <2>1. ASSUME up, NEW i, NEW legacy, NEW auto, Use(i, legacy, auto) PROVE File!Next
    BY <2>1, StoreOfBook DEF Use
  <2>2. CASE \E l \in BOOLEAN : NextAddress(l) \/ \E i \in Index : AddressAt(i, l)
    BY <2>1, <2>2 DEF NextAddress, AddressAt
  <2>3. CASE ChangeAddress
    BY <2>1, <2>3 DEF ChangeAddress
  <2>4. CASE (\E a \in Address : UnuseAddress(a)) \/ StoreAgain
    BY <2>4, StoreOfBook DEF UnuseAddress, StoreAgain
  <2>5. CASE Stop
    <3>1. File!Stop
      BY <2>5 DEF Stop, File!Stop, File!Down, File!Lost
    <3> QED BY <3>1 DEF File!Next
  <2>6. CASE Start
    <3>1. disk = {book'}
      BY <2>6 DEF Start, IInv, TypeOK
    <3>2. File!Recover
      BY <2>6, <3>1 DEF Start, File!Recover, File!Down, File!Lost
    <3> QED BY <3>2 DEF File!Next
  <2> QED BY <2>2, <2>3, <2>4, <2>5, <2>6 DEF Next
<1> QED BY <1>1, <1>2, Invariance, PTL DEF Spec, BookIsStored, File!Spec
=============================================================================
