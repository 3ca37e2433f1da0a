------------------------------ MODULE DurableStore ------------------------------
(***************************************************************************)
(* What a file driver promises to the daemon.  The daemon works on a view  *)
(* of a durable value.  An operation changes the view and stores it: when  *)
(* it is answered the durable value is the new view; when it fails, the    *)
(* view is changed and the durable value is the old one, or is lost.  A    *)
(* daemon that starts sees the durable value, never an older one and never *)
(* a part of one.                                                          *)
(***************************************************************************)
CONSTANT Fresh  \* the value a driver creates

VARIABLES
  view,     \* {} while no daemon runs, or the set of its one value
  durable   \* {} once it cannot be read, or the set of its one value
vars == <<view, durable>>

Down == {}
Lost == {}
One(S) == \E v \in S : S = {v}

Init == durable = {Fresh} /\ view \in {Down, durable}

\* What a store of the view `new` leaves behind.
Outcomes(new, answered) == IF answered THEN {new} ELSE {durable, Lost}

Store(answered) ==
  view # Down /\ One(view') /\ durable' \in Outcomes(view', answered)

\* The daemon may end while it stores.
Stop    == view # Down /\ view' = Down /\ durable' \in {durable, Lost}
Recover == view = Down /\ durable # Lost /\ view' = durable /\ durable' = durable

Next == Store(TRUE) \/ Store(FALSE) \/ Stop \/ Recover

Spec == Init /\ [][Next]_vars
=============================================================================
