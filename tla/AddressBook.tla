------------------------------ MODULE AddressBook ------------------------------
(***************************************************************************)
(* The used addresses of one contract (ContractCache::                     *)
(* used_address_derivations) and the requests that read and change them:   *)
(* NextAddress, UnuseAddress and the change address of a ComposeTransfer.  *)
(* The cache file behaves as DurableStore promises (FileDriver shows that  *)
(* the driver keeps the promise): a change is made in memory, then stored; *)
(* the store may fail with the old content or with none, and the daemon    *)
(* may stop at any time.                                                   *)
(***************************************************************************)
EXTENDS Integers

CONSTANTS
  Largest,    \* UnhardenedIndex::largest()
  Nestable    \* the policy's descriptor has a nested (legacy) form

ASSUME LargestAssumption == Largest \in Nat \ {0}
ASSUME NestableAssumption == Nestable \in BOOLEAN

Index   == 0 .. Largest
Address == [index : Index, nested : BOOLEAN]

VARIABLES
  up,         \* the daemon runs
  book,       \* the used addresses in memory
  disk,       \* in the cache file: {} once unreadable, or the set of one book
  given,      \* addresses clients hold as used (history variable)
  clash,      \* indexes taken as unused while given (history variable)
  exhausted   \* the largest index was once in use (history variable)

vars == <<up, book, disk, given, clash, exhausted>>

\* The contract's cache in the file driver, seen through the used addresses.
File == INSTANCE DurableStore WITH
  Fresh <- {}, view <- IF up THEN {book} ELSE {}, durable <- disk

TypeOK ==
  /\ up \in BOOLEAN
  /\ book \subseteq Address
  /\ disk = {} \/ \E b \in SUBSET Address : disk = {b}
  /\ given \subseteq Address /\ clash \subseteq Index
  /\ exhausted \in BOOLEAN

Init ==
  /\ up = TRUE /\ book = {} /\ disk = {{}}
  /\ given = {} /\ clash = {} /\ exhausted = FALSE

-----------------------------------------------------------------------------

Used(b) == {a.index : a \in b}

\* Variants: the greatest used index itself; a successor that is not checked.
NextIsLast(b) == {n \in Index : n \in Used(b) \cup {0} /\ \A j \in Used(b) : j <= n}
NextUnchecked(b) ==
  {n \in 0 .. Largest + 1 :
     \/ n = 0 /\ b = {}
     \/ n > 0 /\ n - 1 \in Used(b) /\ \A j \in Used(b) : j < n}

\* Driver::next_unused_derivation: one above the greatest used index; zero when
\* none is used, and when the greatest one has no successor.
NextUnused(b) ==
  {n \in Index :
     \/ n = 0 /\ (b = {} \/ Largest \in Used(b))
     \/ n > 0 /\ n - 1 \in Used(b) /\ \A j \in Used(b) : j < n}

\* Policy::derive_descriptor: descriptors with no nested form ignore `legacy`.
Derived(i, legacy) == [index |-> i, nested |-> legacy /\ Nestable]

\* Variant: a failing store is not reported.
StoredSilently(b, answered) ==
  \/ answered /\ disk' = {b}
  \/ disk' \in {disk, {}}

\* FileDriver::store, as its callers see it.
Stored(b, answered) == disk' \in File!Outcomes({b}, answered)

\* Driver::use_address_derivation for the address of index i, and the answer.
\* The refusal of an address that is there with another index (WrongDerivation) has
\* no action: it changes nothing, and Derived gives an address one index only.
Use(i, legacy, auto) ==
  LET a == Derived(i, legacy) IN
  \E answered \in BOOLEAN :
    /\ book' = book \cup {a}
    /\ Stored(book \cup {a}, answered)
    /\ given' = IF answered THEN given \cup {a} ELSE given
    /\ clash' = IF answered /\ auto /\ i \in Used(given) THEN clash \cup {i} ELSE clash
    /\ exhausted' = (exhausted \/ i = Largest)
    /\ up' = up

\* NextAddress with mark_used; without it nothing changes.
NextAddress(legacy) == up /\ \E i \in NextUnused(book) : Use(i, legacy, TRUE)

\* NextAddress for an index that the client names.
AddressAt(i, legacy) == up /\ Use(i, legacy, FALSE)

\* Runtime::transfer takes a change address; if a later step of the transfer
\* fails the index stays used.
ChangeAddress == up /\ \E i \in NextUnused(book) : Use(i, FALSE, TRUE)

\* Variant: the address is forgotten in memory when it is stored already.
UnuseLater(a) ==
  /\ up
  /\ book' = book \ {a}
  /\ \E answered \in BOOLEAN : Stored(book, answered)
  /\ given' = given \ {a}
  /\ UNCHANGED <<up, clash, exhausted>>

\* UnuseAddress: Driver::forget_address.
UnuseAddress(a) ==
  /\ up
  /\ book' = book \ {a}
  /\ \E answered \in BOOLEAN : Stored(book \ {a}, answered)
  /\ given' = given \ {a}
  /\ UNCHANGED <<up, clash, exhausted>>

\* Driver::update at the end of a sync stores the cache again, addresses included.
StoreAgain ==
  /\ up /\ \E answered \in BOOLEAN : Stored(book, answered)
  /\ UNCHANGED <<up, book, given, clash, exhausted>>

Stop ==
  /\ up
  /\ up' = FALSE /\ book' = {}
  /\ UNCHANGED <<disk, given, clash, exhausted>>

Start ==
  /\ ~up /\ disk # {}
  /\ up' = TRUE /\ book' = UNION disk
  /\ UNCHANGED <<disk, given, clash, exhausted>>

Next ==
  \/ \E l \in BOOLEAN : NextAddress(l) \/ \E i \in Index : AddressAt(i, l)
  \/ ChangeAddress
  \/ \E a \in Address : UnuseAddress(a)
  \/ StoreAgain \/ Stop \/ Start

Spec == Init /\ [][Next]_vars

-----------------------------------------------------------------------------

\* No address is taken as unused while a client, or a transfer, holds one with
\* the same index, in any order of requests, failed stores and restarts, until
\* the largest index is used (then the search wraps to index zero).
FreshIndex == ~exhausted => clash = {}

\* An address that was handed out as used is known as used after any failed
\* store and any restart, so that chain_sync searches up to its index.
GivenIsUsed ==
  /\ up => given \subseteq book
  /\ \A b \in disk : given \subseteq b

\* The used addresses keep to what the file promises, whatever the order of the
\* requests: no step changes them in memory and leaves the file with anything but
\* the new ones, the old ones or nothing, and only a step that fails leaves it
\* behind; a daemon that starts has what the file has.
BookIsStored == File!Spec
=============================================================================
