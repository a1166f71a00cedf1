-------------------------- MODULE SessionRegistry --------------------------
(***************************************************************************)
(* What the multi-session registry promises its callers, without sockets,  *)
(* timers or errors: an id is added once, stays until it is removed and    *)
(* never comes back; sessions leave one at a time; the current connection  *)
(* is the last one added, and moves only when it is itself removed, to a   *)
(* session that remains.                                                   *)
(***************************************************************************)
CONSTANTS Session, None

VARIABLES
  live,  \* ids in the Map
  used,  \* ids that ever were
  cur    \* the id of window.curConn

vars == <<live, used, cur>>

Init == live = {} /\ used = {} /\ cur = None

Add(s) ==
  /\ s \notin used
  /\ live' = live \cup {s}
  /\ used' = used \cup {s}
  /\ cur' = s

Remove(s) ==
  /\ s \in live
  /\ live' = live \ {s}
  /\ used' = used
  /\ IF cur # s THEN cur' = cur
     ELSE IF live' = {} THEN cur' = None
     ELSE cur' \in live'

Next == \E s \in Session : Add(s) \/ Remove(s)

Spec == Init /\ [][Next]_vars

=============================================================================
