----------------------------- MODULE Server_proofs -----------------------------
(***************************************************************************)
(* Theorems about Server, for any set of clients.                          *)
(***************************************************************************)
EXTENDS Server, TLAPS

\* Why nothing runs twice: what is queued, or was received and not yet processed,
\* has not run; what is being answered has run once if the answer is success.
RunInv ==
  /\ \A c \in queue : ran[c] = 0
  /\ daemon = "process" => \A c \in serving : ran[c] = 0
  /\ daemon = "reply" /\ result = "success" => \A c \in serving : ran[c] = 1
  /\ RunsOnce

IInv == TypeOK /\ RunInv

LEMMA InitIInv == Init => IInv
BY DEF Init, IInv, TypeOK, RunInv, RunsOnce, Kind, Result

LEMMA EndIInv == IInv /\ End => IInv'
BY DEF End, IInv, TypeOK, RunInv, RunsOnce, Result

LEMMA StepIInv == IInv /\ [Next]_vars => IInv'
<1> SUFFICES ASSUME IInv, [Next]_vars PROVE IInv'
  OBVIOUS
<1> USE DEF IInv, TypeOK, RunInv, RunsOnce, Result
<1>1. ASSUME NEW c \in Client, NEW k \in Kind, Request(c, k) PROVE IInv'
  BY <1>1 DEF Request
<1>2. ASSUME NEW c \in Client, Abandon(c) PROVE IInv'
  BY <1>2 DEF Abandon
<1>3. ASSUME NEW c \in Client, Receive(c) PROVE IInv'
  BY <1>3 DEF Receive
<1>4. ASSUME NEW c \in Client, Process(c) PROVE IInv'
  BY <1>4 DEF Process, Answer, Ran, Kind
<1>5. ASSUME NEW c \in Client, Loop(c) PROVE IInv'
  BY <1>5 DEF Loop
<1>6. ASSUME NEW c \in Client, Reply(c) PROVE IInv'
  BY <1>6 DEF Reply
<1>7. CASE Panic \/ Stop
  BY <1>7, EndIInv DEF Panic, Stop
<1>8. CASE Start
  BY <1>8 DEF Start
<1>9. CASE UNCHANGED vars
  BY <1>9 DEF vars
<1> QED
  BY <1>1, <1>2, <1>3, <1>4, <1>5, <1>6, <1>7, <1>8, <1>9 DEF Next, Step

THEOREM Invariant == Spec => []IInv
BY InitIInv, StepIInv, PTL DEF Spec

\* A waiting client's request is in exactly one place: queued, served or lost.
THEOREM TypeCorrect == Spec => []TypeOK
BY Invariant, PTL DEF IInv

\* No request runs twice, and success is answered only to one that ran.
THEOREM Once == Spec => []RunsOnce
BY Invariant, PTL DEF IInv, RunInv
=============================================================================
