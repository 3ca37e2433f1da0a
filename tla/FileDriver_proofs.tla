---------------------------- MODULE FileDriver_proofs ----------------------------
(***************************************************************************)
(* For any set of entries: the file driver keeps what it acknowledged and  *)
(* implements DurableStore.                                                *)
(***************************************************************************)
EXTENDS FileDriver, TLAPS

\* What is known of an entry, against a state of the wallet.
Agrees(e, v) == (known[e] = "add" => e \in v) /\ (known[e] = "remove" => e \notin v)

Busy == pc \in {"truncate", "write"} /\ request # NoChange

\* Each state agrees with what is known: the one in memory except for the entry
\* being changed, and the one in the file.  Before the file exists nothing is known.
MemoryAgrees ==
  pc \notin {"down", "load"} =>
    \A e \in Entry : (Busy /\ e = request.entry) \/ Agrees(e, data)
FileAgrees == \A v \in file : \A e \in Entry : Agrees(e, v)
FreshFile  == ~exists => file = Torn /\ \A e \in Entry : known[e] = "remove"
Requested  == Busy => (request.entry \in data <=> request.op = "add")
WritesTorn == pc = "write" => file = Torn

\* While a store is under way the file is what it was before, or torn; the first
\* store, of a file just created, starts from an empty one.
FileBefore ==
  /\ pc = "truncate" => file = IF boot THEN Torn ELSE before.file
  /\ boot /\ Storing => before = Created
BootIsFresh == (boot /\ pc # "load" => data = Fresh) /\ (pc = "create" => ~exists)

IInv == /\ TypeOK /\ MemoryAgrees /\ FileAgrees /\ FreshFile /\ Requested /\ WritesTorn
        /\ FileIsCurrent /\ FileBefore /\ BootIsFresh

LEMMA InitIInv == Init => IInv
<1> SUFFICES ASSUME Init PROVE IInv
  OBVIOUS
<1> USE DEF Init, Torn, Fresh, Nothing
<1>1. TypeOK
  BY DEF TypeOK, Value
<1>2. MemoryAgrees /\ FileAgrees /\ FreshFile /\ Requested /\ WritesTorn /\ FileIsCurrent
  BY DEF MemoryAgrees, FileAgrees, FreshFile, Requested, WritesTorn, FileIsCurrent, Busy, Agrees
<1>3. FileBefore /\ BootIsFresh
  BY DEF FileBefore, BootIsFresh, Storing
<1> QED BY <1>1, <1>2, <1>3 DEF IInv

LEMMA RequestFields == ASSUME NEW r \in Change PROVE r.entry \in Entry /\ r.op \in {"add", "remove"} /\ r # NoChange
  BY DEF Change, NoChange

LEMMA TypeStep == TypeOK /\ WritesTorn /\ [Next]_vars => TypeOK'
<1> SUFFICES ASSUME TypeOK, WritesTorn, [Next]_vars PROVE TypeOK'
  OBVIOUS
<1> USE DEF TypeOK, Value, Torn, Fresh, Created, Nothing
<1>1. CASE Open   BY <1>1 DEF Open
<1>2. CASE Create BY <1>2 DEF Create
<1>3. CASE Load   BY <1>3 DEF Load
<1>4. CASE Stop   BY <1>4 DEF Stop
<1>5. CASE \E r \in Change : Begin(r)
  BY <1>5, RequestFields DEF Begin, Mutated
<1>6. CASE Truncate BY <1>6 DEF Truncate
<1>7. CASE Write
  BY <1>7, RequestFields DEF Write, Written, WritesTorn
<1>8. CASE StoreFails
  BY <1>8, RequestFields DEF StoreFails
<1>9. CASE UNCHANGED vars
  BY <1>9 DEF vars
<1> QED BY <1>1, <1>2, <1>3, <1>4, <1>5, <1>6, <1>7, <1>8, <1>9 DEF Next

LEMMA IInvStep == IInv /\ [Next]_vars => IInv'
<1> SUFFICES ASSUME IInv, [Next]_vars PROVE IInv'
  OBVIOUS
<1>0. TypeOK'
  BY TypeStep DEF IInv
<1> USE DEF IInv, MemoryAgrees, FileAgrees, FreshFile, Requested, WritesTorn, FileIsCurrent,
            FileBefore, BootIsFresh, Storing, Settled, Busy, Agrees, Torn, Fresh, Created, Nothing
<1>1. CASE Open
  BY <1>0, <1>1 DEF Open, TypeOK
<1>2. CASE Create
  BY <1>0, <1>2 DEF Create, TypeOK
<1>3. CASE Load
  <2>1. file = {data'}
    BY <1>3 DEF Load, TypeOK
  <2> QED BY <1>0, <1>3, <2>1 DEF Load, TypeOK
<1>4. CASE Stop
  <2>1. \A e \in Entry : known'[e] = known[e] \/ known'[e] = "unknown"
    BY <1>4 DEF Stop, TypeOK
  <2>2. ~exists => known' = known
    BY <1>4 DEF Stop, TypeOK
  <2> QED BY <1>0, <1>4, <2>1, <2>2 DEF Stop, TypeOK
<1>5. CASE \E r \in Change : Begin(r)
  <2> PICK r \in Change : Begin(r)
    BY <1>5
  <2>1. /\ \A e \in Entry : e # r.entry => (e \in data' <=> e \in data)
        /\ r.entry \in data' <=> r.op = "add"
    BY RequestFields DEF Begin, Mutated, TypeOK
  <2> QED BY <1>0, <2>1, RequestFields DEF Begin, TypeOK
<1>6. CASE Truncate
  BY <1>0, <1>6 DEF Truncate, TypeOK
<1>7. CASE Write
  <2>1. file' = {data}
    BY <1>7 DEF Write, Written
  <2>2. \A e \in Entry : Agrees(e, data)'
    <3>1. CASE request = NoChange
      BY <1>7, <3>1 DEF Write, TypeOK
    <3>2. CASE request # NoChange
      <4>1. request \in Change
        BY <3>2 DEF TypeOK
      <4> QED BY <1>7, <3>2, <4>1, RequestFields DEF Write, TypeOK
    <3> QED BY <3>1, <3>2
  <2> QED BY <1>0, <1>7, <2>1, <2>2 DEF Write, TypeOK
<1>8. CASE StoreFails
  <2>1. request \in Change /\ request.entry \in Entry
    BY <1>8, RequestFields DEF StoreFails, TypeOK
  <2>2. /\ known'[request.entry] = "unknown"
        /\ \A e \in Entry : known'[e] = known[e] \/ known'[e] = "unknown"
    BY <1>8, <2>1 DEF StoreFails, TypeOK
  <2>3. \A e \in Entry : e # request.entry => known'[e] = known[e]
    BY <1>8, <2>1 DEF StoreFails, TypeOK
  <2> QED BY <1>0, <1>8, <2>1, <2>2, <2>3 DEF StoreFails, TypeOK
<1>9. CASE UNCHANGED vars
  BY <1>0, <1>9 DEF vars
<1> QED BY <1>1, <1>2, <1>3, <1>4, <1>5, <1>6, <1>7, <1>8, <1>9 DEF Next

LEMMA Invariance == Spec => []IInv
  BY InitIInv, IInvStep, PTL DEF Spec

\* The types, and the states in which a request or the opening is under way.
THEOREM TypeCorrect == Spec => []TypeOK
<1>1. IInv => TypeOK
  BY DEF IInv
<1> QED BY <1>1, Invariance, PTL

\* Acknowledged changes outlive failures and restarts.
THEOREM Acknowledged == Spec => []AcknowledgedIsKept
<1>1. IInv => AcknowledgedIsKept
  BY DEF IInv, AcknowledgedIsKept, MemoryAgrees, Agrees, Busy
<1> QED BY <1>1, Invariance, PTL

\* Without a failure the file is what is in memory between requests.
THEOREM Current == Spec => []FileIsCurrent
<1>1. IInv => FileIsCurrent
  BY DEF IInv
<1> QED BY <1>1, Invariance, PTL

\* Every step of the driver is a step of DurableStore, or changes nothing of it.
THEOREM Refinement == Spec => ImplementsDurableStore
<1> USE DEF Promise!Down, Promise!Lost, Promise!vars, Promise!One, Promise!Outcomes,
            Storing, Torn, Fresh, Created
<1>1. Init => Promise!Init
  BY DEF Init, Promise!Init
<1>2. IInv /\ [Next]_vars => [Promise!Next]_(Promise!vars)
  <2>0. UNCHANGED vars => UNCHANGED Promise!vars
    BY DEF vars
  <2> SUFFICES ASSUME IInv, Next PROVE Promise!Next \/ UNCHANGED Promise!vars
    BY <2>0
  <2> USE DEF IInv, TypeOK, Promise!Next, FileBefore, BootIsFresh, FreshFile, WritesTorn
  <2>1. CASE Open
    <3>1. CASE exists
      BY <2>1, <3>1 DEF Open
    <3>2. CASE ~exists
      <4>1. Promise!Recover
        BY <2>1, <3>2 DEF Open, Promise!Recover
      <4> QED BY <4>1
    <3> QED BY <3>1, <3>2
  <2>2. CASE Create BY <2>2 DEF Create
  <2>3. CASE Load
    <3>1. file = {data'}
      BY <2>3 DEF Load
    <3> QED BY <2>3, <3>1 DEF Load, Promise!Recover
  <2>4. CASE Stop
    <3>1. CASE Storing
      <4>1. file = before.file \/ file = Torn
        BY <3>1
      <4> QED BY <2>4, <3>1, <4>1 DEF Stop, Promise!Stop
    <3>2. CASE ~Storing
      BY <2>4, <3>2 DEF Stop, Promise!Stop
    <3> QED BY <3>1, <3>2
  <2>5. CASE \E r \in Change : Begin(r)
    BY <2>5 DEF Begin
  <2>6. CASE Truncate BY <2>6 DEF Truncate
  <2>7. CASE Write
    <3>1. file' = {data}
      BY <2>7 DEF Write, Written
    <3> QED BY <2>7, <3>1 DEF Write, Promise!Store
  <2>8. CASE StoreFails
    <3>1. file = before.file \/ file = Torn
      BY <2>8 DEF StoreFails
    <3> QED BY <2>8, <3>1 DEF StoreFails, Promise!Store
  <2> QED BY <2>1, <2>2, <2>3, <2>4, <2>5, <2>6, <2>7, <2>8 DEF Next
<1> QED BY <1>1, <1>2, Invariance, PTL DEF Spec, ImplementsDurableStore, Promise!Spec
=============================================================================
