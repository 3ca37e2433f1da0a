------------------------------- MODULE FileDriver -------------------------------
(***************************************************************************)
(* storage::FileDriver and cache::FileDriver: the whole state is kept in   *)
(* memory and in one file.  Every change is made in memory first and then  *)
(* stored: the file is truncated and rewritten in place.  File operations  *)
(* may fail, and the process may end between any two of them.              *)
(*                                                                         *)
(* A state is a set of entries (contracts, invoices, tweaks, operations;   *)
(* used addresses).  A file that is empty or partly written is Torn: the   *)
(* last field of both YAML documents is required, so no proper prefix of   *)
(* one parses.                                                             *)
(***************************************************************************)
EXTENDS FiniteSets, Naturals

CONSTANT Entry

Value == SUBSET Entry

ASSUME EntryAssumption == IsFiniteSet(Entry)

VARIABLES
  pc,        \* where the process is in the driver
  boot,      \* it is still in FileDriver::with
  data,      \* self.data, self.cache
  exists,    \* the file exists
  file,      \* what it parses to: {} when Torn, or the set of one state
  request,   \* the change being stored
  known,     \* what clients were told of each entry (history variable)
  before     \* memory and file before what is being stored (history variable)

vars == <<pc, boot, data, exists, file, request, known, before>>

Torn == {}

Change == [entry : Entry, op : {"add", "remove"}]
NoChange == [op |-> "none"]

\* The state a driver creates, and the history when nothing is being stored.
Fresh   == {}
Created == [data |-> Fresh, file |-> {Fresh}]
Nothing == [data |-> Fresh, file |-> Torn]

TypeOK ==
  /\ pc \in {"down", "create", "load", "ready", "truncate", "write"}
  /\ boot \in BOOLEAN
  /\ data \in Value /\ exists \in BOOLEAN
  /\ file = Torn \/ \E v \in Value : file = {v}
  /\ request \in Change \cup {NoChange}
  /\ known \in [Entry -> {"add", "remove", "unknown"}]
  /\ before.data \in Value /\ (before.file = Torn \/ \E v \in Value : before.file = {v})
  /\ boot <=> pc \in {"create", "load"} \/ (pc \in {"truncate", "write"} /\ request = NoChange)
  /\ pc \in {"down", "create", "load", "ready"} => request = NoChange
  /\ pc \in {"load", "ready", "truncate", "write"} => exists

Init ==
  /\ pc = "down" /\ boot = FALSE /\ data = Fresh
  /\ exists = FALSE /\ file = Torn
  /\ request = NoChange
  /\ known = [e \in Entry |-> "remove"] /\ before = Nothing

-----------------------------------------------------------------------------
(* FileDriver::with *)

\* Variant: `create` and an empty state whether or not the file exists.
OpenAfresh ==
  /\ pc = "down"
  /\ boot' = TRUE /\ data' = Fresh /\ pc' = "create"
  /\ UNCHANGED <<exists, file, request, known, before>>

\* filename.exists(): an empty state is created or the file is read.
Open ==
  /\ pc = "down"
  /\ boot' = TRUE /\ data' = Fresh
  /\ pc' = IF exists THEN "load" ELSE "create"
  /\ UNCHANGED <<exists, file, request, known, before>>

\* OpenOptions::open makes an empty file; then store() fills it.
Create ==
  /\ pc = "create"
  /\ exists' = TRUE /\ file' = Torn
  /\ pc' = "truncate" /\ before' = Created
  /\ UNCHANGED <<boot, data, request, known>>

\* Variant: a file that does not parse is an empty state.
LoadOrDefault ==
  /\ pc = "load"
  /\ data' = UNION file
  /\ boot' = FALSE /\ pc' = "ready"
  /\ UNCHANGED <<exists, file, request, known, before>>

Load ==
  /\ pc = "load" /\ file # Torn
  /\ data' = UNION file
  /\ boot' = FALSE /\ pc' = "ready"
  /\ UNCHANGED <<exists, file, request, known, before>>

\* The process ends: no file that cannot be created or read, nor one that does
\* not parse, is got over by `with`.  It may also be stopped at any point.
Stop ==
  /\ pc # "down"
  /\ pc' = "down" /\ boot' = FALSE /\ data' = Fresh
  /\ request' = NoChange /\ before' = Nothing
  /\ known' = IF request = NoChange THEN known
              ELSE [known EXCEPT ![request.entry] = "unknown"]
  /\ UNCHANGED <<exists, file>>

-----------------------------------------------------------------------------
(* An operation of the driver: change the state, store it, answer. *)

Mutated(d, r) == IF r.op = "add" THEN d \cup {r.entry} ELSE d \ {r.entry}

Begin(r) ==
  /\ pc = "ready"
  /\ request' = r
  /\ data' = Mutated(data, r)
  /\ pc' = "truncate" /\ before' = [data |-> data, file |-> file]
  /\ UNCHANGED <<boot, exists, file, known>>

\* Variant: the file keeps its length.
TruncateNothing ==
  /\ pc = "truncate"
  /\ pc' = "write"
  /\ UNCHANGED <<boot, data, exists, file, request, known, before>>

\* seek and set_len(0)
Truncate ==
  /\ pc = "truncate"
  /\ file' = Torn
  /\ pc' = "write"
  /\ UNCHANGED <<boot, data, exists, request, known, before>>

\* The serialised state is written over what the file holds; the end of a longer
\* text would stay behind it.
Written ==
  IF \E v \in file : Cardinality(v) > Cardinality(data) THEN Torn ELSE {data}

\* Every byte is written: the operation answers with success.
Write ==
  /\ pc = "write"
  /\ file' = Written
  /\ boot' = FALSE /\ pc' = "ready"
  /\ request' = NoChange /\ before' = Nothing
  /\ known' = IF request = NoChange THEN known
              ELSE [known EXCEPT ![request.entry] = request.op]
  /\ UNCHANGED <<data, exists>>

\* Variant: the error is returned before the request is done with.
StoreHangs ==
  /\ pc \in {"truncate", "write"} /\ ~boot
  /\ pc' = "ready"
  /\ known' = [known EXCEPT ![request.entry] = "unknown"]
  /\ UNCHANGED <<boot, data, exists, file, request, before>>

\* A file operation fails: `?` returns the error and the state stays changed.
\* An error in `with` ends the process (Stop).
StoreFails ==
  /\ pc \in {"truncate", "write"} /\ ~boot
  /\ pc' = "ready" /\ request' = NoChange /\ before' = Nothing
  /\ known' = [known EXCEPT ![request.entry] = "unknown"]
  /\ UNCHANGED <<boot, data, exists, file>>

Next ==
  \/ Open \/ Create \/ Load \/ Stop
  \/ \E r \in Change : Begin(r)
  \/ Truncate \/ Write \/ StoreFails

Spec == Init /\ [][Next]_vars

-----------------------------------------------------------------------------

\* What clients were told holds after every restart: an entry whose addition was
\* acknowledged is there, one whose removal was acknowledged is not, until a
\* later operation on it fails or is cut short (the order of the in-memory change,
\* set_len, write and the reply).
AcknowledgedIsKept ==
  pc = "ready" => \A e \in Entry :
    /\ known[e] = "add" => e \in data
    /\ known[e] = "remove" => e \notin data

\* Only an operation that failed or was cut short leaves a file that is torn or
\* behind: as long as every operation was answered with success, the file is
\* what is in memory whenever the driver waits for a request (seek, set_len,
\* write, whatever the lengths of the old and the new state).
Settled == \A e \in Entry : known[e] # "unknown"
FileIsCurrent == pc = "ready" /\ Settled => file = {data}

\* However a store is cut short, the driver keeps what DurableStore promises.  An
\* operation takes place when it is answered or fails: what it has done to memory
\* and file before is not seen.  A first start is up as soon as it decides to
\* create the file.
Storing == pc \in {"truncate", "write"}
Promise == INSTANCE DurableStore WITH
  view    <- IF pc \in {"down", "load"} THEN {} ELSE IF Storing THEN {before.data} ELSE {data},
  durable <- IF Storing THEN before.file ELSE IF exists THEN file ELSE {Fresh}
ImplementsDurableStore == Promise!Spec
=============================================================================
