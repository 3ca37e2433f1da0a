------------------------------- MODULE CoinSearch -------------------------------
(***************************************************************************)
(* What the synchronisation of a contract promises to the rest of the      *)
(* daemon, whatever the lookup depth, the order of the batches and the     *)
(* answers of the Electrum server.  A sync that ends with success caches   *)
(* a set of outputs:                                                       *)
(*   - all that were mined and unspent from its start to its end and that  *)
(*     pay to a script it has to look at, except those it skipped because  *)
(*     the server could not locate their transaction;                      *)
(*   - none but outputs which were mined and unspent at some moment of it  *)
(*     and which pay to a script that it can derive.                       *)
(* A sync that fails caches nothing.  It may count on what it reads of the *)
(* contract staying as it is until it ends: requests are served between    *)
(* syncs, and only the chain moves during one.                             *)
(***************************************************************************)
EXTENDS Integers

CONSTANTS
  Outpoint,   \* outputs that pay to the contract
  ScriptOf,   \* the script each pays to: its kind and its index
  Largest     \* UnhardenedIndex::largest()

VARIABLES
  up,         \* the daemon runs
  mature,     \* outputs that are mined and unspent
  tweaks,     \* outputs whose tweaked scripts the contract knows
  used,       \* indexes of the used addresses
  busy,       \* a sync is under way
  last,       \* the last used index when it began
  steady,     \* outputs mature from its beginning to now
  seen,       \* outputs mature at any moment since its beginning
  skipped,    \* outputs it has passed over
  utxo        \* the cached outputs

vars == <<up, mature, tweaks, used, busy, last, steady, seen, skipped, utxo>>

\* No sync is under way.
Nothing == busy = FALSE /\ last = 0 /\ steady = {} /\ seen = {} /\ skipped = {}

Init == up = TRUE /\ mature \subseteq Outpoint /\ utxo = {} /\ used = {} /\ Nothing

-----------------------------------------------------------------------------

LastUsed == {i \in used \cup {0} : \A j \in used : j <= i}

Tweaked(o) == \E t \in tweaks : ScriptOf[o] = ScriptOf[t]

\* Scripts a sync can derive.  The nested forms of the policy's scripts, which
\* NextAddress hands out on request, are not among them.
Derivable(o) == Tweaked(o) \/ ScriptOf[o].kind = "policy"

\* Scripts a sync has to look at.  The last range of indexes excludes Largest.
Due(o) ==
  \/ Tweaked(o)
  \/ ScriptOf[o].kind = "policy" /\ ScriptOf[o].index <= last /\ ScriptOf[o].index < Largest

\* The sets of outputs that a sync may end with.
Finds(S) ==
  /\ {o \in steady : Due(o)} \subseteq S \cup skipped
  /\ S \subseteq {o \in seen : Derivable(o)}

-----------------------------------------------------------------------------

\* Blocks and spends, at any time.
ChainMoves ==
  /\ mature' \subseteq Outpoint
  /\ steady' \subseteq steady \cap mature'
  /\ seen' = IF busy THEN seen \cup mature' ELSE seen
  /\ UNCHANGED <<up, tweaks, used, busy, last, skipped, utxo>>

\* Other requests, which the daemon serves between two syncs.
Serve == up /\ ~busy /\ UNCHANGED <<up, mature, busy, last, steady, seen, skipped, utxo>>

Begin ==
  /\ up /\ ~busy /\ busy' = TRUE
  /\ last' \in LastUsed /\ steady' = mature /\ seen' = mature /\ skipped' = {}
  /\ UNCHANGED <<up, mature, tweaks, used, utxo>>

Skip ==
  /\ busy /\ skipped \subseteq skipped'
  /\ UNCHANGED <<up, mature, tweaks, used, busy, last, steady, seen, utxo>>

Over == busy /\ Nothing' /\ UNCHANGED <<up, mature, tweaks, used>>

Finish == Over /\ Finds(utxo')
Fail   == Over /\ UNCHANGED utxo

\* The daemon ends, in the middle of a sync or not, and later starts with what its
\* files have.
Stop  == up /\ up' = FALSE /\ Nothing' /\ utxo' = {} /\ UNCHANGED mature
Start == ~up /\ up' = TRUE /\ utxo' \subseteq Outpoint
           /\ UNCHANGED <<mature, busy, last, steady, seen, skipped>>

Next == ChainMoves \/ Serve \/ Begin \/ Skip \/ Finish \/ Fail \/ Stop \/ Start

Spec == Init /\ [][Next]_vars
=============================================================================
