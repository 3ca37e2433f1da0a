--------------------------------- MODULE Server ---------------------------------
(***************************************************************************)
(* The daemon's request loop (Runtime::run) and its clients                *)
(* (Client::request).  The daemon has one REP socket and one thread; every *)
(* client has a REQ socket, sends one request and blocks, with no timeout, *)
(* until the reply comes.  An error of the daemon's socket, a panic in a   *)
(* handler or a kill ends the daemon; requests it had taken in are gone,   *)
(* and a client that sent one waits for ever.                              *)
(***************************************************************************)
EXTENDS Naturals

CONSTANT Client

\* Requests by what becomes of them in rpc_process: one that a handler serves or
\* refuses, one that does not parse, one whose handler loops (SyncContract with
\* lookup_depth 0) and one whose handler is unimplemented!().
Kind == {"served", "garbled", "endless", "unimplemented"}

VARIABLES
  daemon,    \* where Runtime::run is
  serving,   \* whose request it has: {} or one client
  result,    \* the reply it will send
  queue,     \* clients whose request waits in a socket
  client,    \* what each client is doing
  kind,      \* the last request of each
  ran,       \* how often its handler ran (history variable)
  got,       \* the reply it got (history variable)
  lost       \* clients whose request ended with a daemon (history variable)

vars == <<daemon, serving, result, queue, client, kind, ran, got, lost>>

Result == {"none", "success", "failure"}

\* A client waits exactly when its request is queued, served or lost.
TypeOK ==
  /\ daemon \in {"receive", "process", "reply", "stuck", "down"}
  /\ serving \subseteq Client /\ \A c, d \in serving : c = d
  /\ daemon \in {"process", "reply", "stuck"} <=> serving # {}
  /\ result \in Result /\ (daemon = "reply" <=> result # "none")
  /\ queue \subseteq Client /\ lost \subseteq Client
  /\ client \in [Client -> {"idle", "waiting", "gone"}]
  /\ kind \in [Client -> Kind] /\ ran \in [Client -> Nat]
  /\ got \in [Client -> Result]
  /\ queue \cap serving = {} /\ queue \cap lost = {} /\ serving \cap lost = {}
  /\ \A c \in Client : client[c] = "waiting" => c \in queue \cup serving \cup lost
  /\ \A c \in Client : client[c] = "idle" => c \notin queue \cup serving \cup lost

Init ==
  /\ daemon = "receive" /\ serving = {} /\ result = "none"
  /\ queue = {} /\ lost = {}
  /\ client = [c \in Client |-> "idle"] /\ kind = [c \in Client |-> "served"]
  /\ ran = [c \in Client |-> 0] /\ got = [c \in Client |-> "none"]

-----------------------------------------------------------------------------
(* Clients *)

\* Client::request: send_raw_message.  ZeroMQ holds the request while no daemon runs.
Request(c, k) ==
  /\ client[c] = "idle"
  /\ client' = [client EXCEPT ![c] = "waiting"]
  /\ kind' = [kind EXCEPT ![c] = k]
  /\ ran' = [ran EXCEPT ![c] = 0] /\ got' = [got EXCEPT ![c] = "none"]
  /\ queue' = queue \cup {c}
  /\ UNCHANGED <<daemon, serving, result, lost>>

\* The user ends a client that waits; its request may be on its way.
Abandon(c) ==
  /\ client[c] = "waiting"
  /\ client' = [client EXCEPT ![c] = "gone"]
  /\ UNCHANGED <<daemon, serving, result, queue, kind, ran, got, lost>>

-----------------------------------------------------------------------------
(* Runtime::run *)

\* Variant: the request stays in the socket until it is answered.
Peek(c) ==
  /\ daemon = "receive" /\ c \in queue
  /\ daemon' = "process" /\ serving' = {c} /\ queue' = queue
  /\ UNCHANGED <<result, client, kind, ran, got, lost>>

\* recv_raw_message
Receive(c) ==
  /\ daemon = "receive" /\ c \in queue
  /\ daemon' = "process" /\ serving' = {c} /\ queue' = queue \ {c}
  /\ UNCHANGED <<result, client, kind, ran, got, lost>>

\* A handler runs, to the end or to its first error.
Ran(c) == ran' = [ran EXCEPT ![c] = IF kind[c] = "served" THEN @ + 1 ELSE @]

\* Variant: a request that fails is not answered.
AnswerSuccess(c) ==
  /\ kind[c] \in {"served", "garbled"}
  /\ \/ kind[c] = "served" /\ daemon' = "reply" /\ result' = "success" /\ serving' = serving
     \/ daemon' = "receive" /\ result' = "none" /\ serving' = {}

\* rpc_process: a Result of two replies, so what fails is answered as well.
Answer(c) ==
  /\ kind[c] \in {"served", "garbled"}
  /\ daemon' = "reply" /\ serving' = serving
  /\ result' \in IF kind[c] = "served" THEN {"success", "failure"} ELSE {"failure"}

\* Variant: a request that fails is tried again.
ProcessAgain(c) ==
  /\ daemon = "process" /\ c \in serving
  /\ \/ Answer(c)
     \/ kind[c] = "served" /\ UNCHANGED <<daemon, serving, result>>
  /\ Ran(c)
  /\ UNCHANGED <<queue, client, kind, got, lost>>

Process(c) ==
  /\ daemon = "process" /\ c \in serving
  /\ Answer(c)
  /\ Ran(c)
  /\ UNCHANGED <<queue, client, kind, got, lost>>

\* A handler that loops: this request is never answered, nor any other.
Loop(c) ==
  /\ daemon = "process" /\ c \in serving /\ kind[c] = "endless"
  /\ daemon' = "stuck"
  /\ UNCHANGED <<serving, result, queue, client, kind, ran, got, lost>>

\* send_raw_message; a reply to a client that has gone is dropped.
Reply(c) ==
  /\ daemon = "reply" /\ c \in serving
  /\ daemon' = "receive" /\ serving' = {} /\ result' = "none"
  /\ client' = [client EXCEPT ![c] = IF @ = "waiting" THEN "idle" ELSE @]
  /\ got' = [got EXCEPT ![c] = result]
  /\ UNCHANGED <<queue, kind, ran, lost>>

\* The daemon ends, with the request it serves and those its socket took in.
End ==
  /\ daemon' = "down" /\ serving' = {} /\ result' = "none"
  /\ queue' \in SUBSET queue
  /\ lost' = lost \cup serving \cup (queue \ queue')
  /\ UNCHANGED <<client, kind, ran, got>>

\* A handler panics at an unimplemented!(): signers and identities, and an asset
\* transfer to a PSBT (transfer.rs:188), before it has changed anything.
Panic == daemon = "process" /\ (\E c \in serving : kind[c] = "unimplemented") /\ End

\* The socket fails or the process is killed.
Stop == daemon # "down" /\ End

\* Runtime::init
Start ==
  /\ daemon = "down"
  /\ daemon' = "receive"
  /\ UNCHANGED <<serving, result, queue, client, kind, ran, got, lost>>

Step == \E c \in Client : Process(c) \/ Loop(c) \/ Reply(c)

Next ==
  \/ \E c \in Client : Abandon(c) \/ Receive(c) \/ \E k \in Kind : Request(c, k)
  \/ Step \/ Panic \/ Stop \/ Start

\* The daemon goes on; its socket takes requests from its peers in turn.
Fairness == WF_vars(Step \/ Panic) /\ \A c \in Client : SF_vars(Receive(c))

Spec == Init /\ [][Next]_vars /\ Fairness

-----------------------------------------------------------------------------

\* No request is executed twice; one that was answered with success was executed,
\* whatever failed, ended or was started again in between.
RunsOnce ==
  \A c \in Client :
    /\ ran[c] <= 1
    /\ got[c] = "success" => ran[c] = 1

\* A client that waits gets a reply, be it a failure, unless a daemon ended with
\* its request, or is down, or is stuck in an endless handler.
Answered ==
  \A c \in Client :
    (client[c] = "waiting") ~> (client[c] # "waiting" \/ c \in lost \/ daemon \in {"down", "stuck"})
=============================================================================
