------------------------------- MODULE Viewer -------------------------------
(***************************************************************************)
(* The Flutter half of the viewer over the JavaScript session registry:    *)
(* the navigator's routes, the event handler each page registers, and the  *)
(* ways a file-manager page is closed.  The engine is represented by       *)
(* SessionRegistry, which Sessions is shown to implement, and by the       *)
(* connections whose start() still runs, registered or not.                *)
(*                                                                         *)
(* An event of the engine is a synchronous call into Dart and is handled   *)
(* in the turn that pushes it.  FFI.close() is not atomic: its session_close*)
(* is a timer event, and what follows it (the handler's removal and the    *)
(* caller's pop) runs in that later turn.                                  *)
(***************************************************************************)
EXTENDS FiniteSets, Sequences, SequencesExt

CONSTANTS
  Rd,   \* the session id of the remote desktop, given by the parent
  Ft,   \* session ids of file transfers, a new UUID for each page
  None  \* JavaScript's undefined

ASSUME ViewerAssumption == Rd \notin Ft /\ None \notin Ft \cup {Rd}

Session == Ft \cup {Rd}

(* Who awaits an FFI.close(): closeFileTransfer of the page,               *)
(* closeWebFileTransferSession of the model, or the page's dispose().      *)
Closer == {"back", "ended", "dispose"}

VARIABLES
  live, used, cur,  \* the registry of the engine
  running,   \* connections whose start() or message loop has not returned
  routes,    \* the navigator's pages above "/", the visible one last
  leaving,   \* pages popped whose exit transition still runs
  menu,      \* the file-manager page over which a popup menu is open, itself a route
  handlers,  \* keys of _sessionEventHandlers
  closed,    \* file-manager pages with _sessionClosed
  pending,   \* pending[s]: the FFI.close() calls of s that have not finished
  ways,      \* history: ways[f], the closings of page f that popped or will pop
  missed,    \* history: pages of which a pop took the menu and not the page
  handledBy, \* history: <<s, h>> when h's handler was given an event of s
  open       \* the popup is open

registry == <<live, used, cur>>
stack == <<routes, leaving, menu, missed>>
vars == <<registry, running, stack, handlers, closed, pending, ways, handledBy, open>>

Registry == INSTANCE SessionRegistry

TypeOK ==
  /\ live \subseteq used /\ used \subseteq Session /\ cur \in Session \cup {None}
  /\ running \subseteq used
  /\ routes \in Seq(used) /\ IsInjective(routes)
  /\ leaving \subseteq used
  /\ menu \in Ft \cup {None} /\ missed \subseteq Ft
  /\ handlers \subseteq used
  /\ closed \subseteq Ft
  /\ pending \in [Session -> SUBSET Closer]
  /\ ways \in [Ft -> SUBSET {"back", "again", "ended"}]
  /\ handledBy \subseteq Session \X Session
  /\ open \in BOOLEAN

Init ==
  /\ Registry!Init
  /\ running = {} /\ routes = <<>> /\ leaving = {} /\ menu = None /\ missed = {} /\ handlers = {} /\ closed = {}
  /\ pending = [s \in Session |-> {}]
  /\ ways = [f \in Ft |-> {}]
  /\ handledBy = {}
  /\ open = TRUE

Top == IF routes = <<>> THEN None ELSE Last(routes)

(* State.mounted: a page stays mounted until its exit transition is over.  *)
Mounted(s) == s \in ToSet(routes) \cup leaving

-----------------------------------------------------------------------------
(* Navigator.pop: the topmost route that is not already on its way out,    *)
(* which is the popup menu while one is open.                              *)
Pop ==
  IF menu # None
  THEN /\ menu' = None
       /\ missed' = missed \cup {menu}
       /\ UNCHANGED <<routes, leaving>>
  ELSE /\ routes' = IF routes = <<>> THEN routes ELSE Front(routes)
       /\ leaving' = IF routes = <<>> THEN leaving ELSE leaving \cup {Top}
       /\ UNCHANGED <<menu, missed>>

(* showMenu of the file-manager page, and the choice or the tap beside it  *)
(* that closes the menu.                                                   *)
OpenMenu(f) ==
  /\ Top = f /\ menu = None
  /\ menu' = f
  /\ UNCHANGED <<registry, running, routes, leaving, missed, handlers, closed, pending, ways, handledBy, open>>

DismissMenu ==
  /\ menu # None
  /\ menu' = None
  /\ UNCHANGED <<registry, running, routes, leaving, missed, handlers, closed, pending, ways, handledBy, open>>

(* Mutant: events are only delivered while a single page listens. *)
DispatchToSingle(s) == IF Cardinality(handlers) = 1 THEN handlers ELSE {}

(* Who handles an event of session s: its own handler, or the only one     *)
(* there is.                                                               *)
DispatchGlobalEvent(s) ==
  IF s \in handlers THEN {s}
  ELSE IF Cardinality(handlers) = 1 THEN handlers ELSE {}

(* initState of a page: FFI.start adds and starts the session, and         *)
(* updateEventListener registers the handler.                              *)
InitPage(s) ==
  /\ Registry!Add(s)
  /\ running' = running \cup {s}
  /\ routes' = Append(routes, s)
  /\ handlers' = handlers \cup {s}
  /\ UNCHANGED <<leaving, menu, missed, closed, pending, ways, handledBy, open>>

(* window.connect, called once by the bootstrap. *)
Connect == routes = <<>> /\ InitPage(Rd)

(* "Transfer file" on the toolbar of the visible remote-desktop page. *)
OpenFileManager(f) == Top = Rd /\ InitPage(f)

(* Mutant: the page takes its handler down before the session is closed. *)
CloseFileTransferDeaf(f) ==
  /\ Top = f /\ f \notin closed
  /\ closed' = closed \cup {f}
  /\ pending' = [pending EXCEPT ![f] = @ \cup {"back"}]
  /\ ways' = [ways EXCEPT ![f] = @ \cup {"back"}]
  /\ handlers' = handlers \ {f}
  /\ UNCHANGED <<registry, running, stack, handledBy, open>>

(* closeFileTransfer: the page's back button, or "Cancel" of its dialog.   *)
CloseFileTransfer(f) ==
  /\ Top = f
  /\ IF f \in closed
     THEN /\ Pop
          /\ ways' = [ways EXCEPT ![f] = @ \cup {"again"}]
          /\ UNCHANGED <<closed, pending>>
     ELSE /\ closed' = closed \cup {f}
          /\ pending' = [pending EXCEPT ![f] = @ \cup {"back"}]
          /\ ways' = [ways EXCEPT ![f] = @ \cup {"back"}]
          /\ UNCHANGED stack
  /\ UNCHANGED <<registry, running, handlers, handledBy, open>>

(* endFileTransferSession, whoever calls it: the session leaves the Map    *)
(* and the handler of ft-session-ended begins to close its own session,    *)
(* when that is a file transfer.                                           *)
EndFileTransferSession(f) ==
  /\ Registry!Remove(f)
  /\ LET told == DispatchGlobalEvent(f) IN
     /\ pending' = [s \in Session |->
                      pending[s] \cup IF s \in told \cap Ft THEN {"ended"} ELSE {}]
     /\ ways' = [s \in Ft |-> ways[s] \cup IF s \in told THEN {"ended"} ELSE {}]
     /\ handledBy' = handledBy \cup ({f} \X told)
  /\ UNCHANGED <<running, stack, handlers, closed, open>>

(* A running connection pushes an event of its session: connection_ready,  *)
(* peer_info, a job's progress.                                            *)
PushEvent(s) ==
  /\ s \in running
  /\ handledBy' = handledBy \cup ({s} \X DispatchGlobalEvent(s))
  /\ UNCHANGED <<registry, running, stack, handlers, closed, pending, ways, open>>

(* A connection that was removed notices it and its start() returns.       *)
StartReturns(s) ==
  /\ s \in running \ live
  /\ running' = running \ {s}
  /\ UNCHANGED <<registry, stack, handlers, closed, pending, ways, handledBy, open>>

(* A fatal error of the remote desktop, or its "Close": the parent is told *)
(* and the popup closes.                                                   *)
CloseConnection ==
  /\ Rd \in live
  /\ open' = FALSE
  /\ UNCHANGED <<registry, running, stack, handlers, closed, pending, ways, handledBy>>

(* Mutant: every close pops the top route, dispose()'s too. *)
FinishClosePops(s, k) ==
  /\ k \in pending[s]
  /\ IF s \in live THEN Registry!Remove(s) ELSE UNCHANGED registry
  /\ handlers' = handlers \ {s}
  /\ pending' = [pending EXCEPT ![s] = @ \ {k}]
  /\ Pop
  /\ UNCHANGED <<running, closed, ways, handledBy, open>>

(* The rest of FFI.close(): session_close, the handler's removal, and the  *)
(* caller's pop (of the page if it is mounted, or of whatever is on top).  *)
FinishClose(s, k) ==
  /\ k \in pending[s]
  /\ IF s \in live THEN Registry!Remove(s) ELSE UNCHANGED registry
  /\ handlers' = handlers \ {s}
  /\ pending' = [pending EXCEPT ![s] = @ \ {k}]
  /\ IF k = "ended" \/ (k = "back" /\ Mounted(s))
     THEN Pop
     ELSE UNCHANGED stack
  /\ UNCHANGED <<running, closed, ways, handledBy, open>>

(* Mutant: dispose() leaves the session to the one who popped the page. *)
DisposeOnly(s) ==
  /\ s \in leaving
  /\ leaving' = leaving \ {s}
  /\ UNCHANGED <<registry, running, routes, menu, missed, handlers, closed, pending, ways, handledBy, open>>

(* The exit transition of a popped page ends: dispose(). *)
Dispose(s) ==
  /\ s \in leaving
  /\ leaving' = leaving \ {s}
  /\ closed' = closed \cup ({s} \cap Ft)
  /\ pending' = IF s \in closed THEN pending
                ELSE [pending EXCEPT ![s] = @ \cup {"dispose"}]
  /\ UNCHANGED <<registry, running, routes, menu, missed, handlers, ways, handledBy, open>>

Step(s) ==
  \/ PushEvent(s)
  \/ StartReturns(s)
  \/ \E k \in Closer : FinishClose(s, k)
  \/ Dispose(s)

Next ==
  /\ open
  /\ \/ Connect
     \/ CloseConnection
     \/ DismissMenu
     \/ \E f \in Ft : OpenFileManager(f) \/ OpenMenu(f) \/ CloseFileTransfer(f) \/ EndFileTransferSession(f)
     \/ \E s \in Session : Step(s)

Spec == Init /\ [][Next]_vars

(* Dart's timers fire and transitions end while the popup is open. *)
FairSpec ==
  /\ Spec
  /\ \A s \in Session :
       /\ \A k \in Closer : WF_vars(open /\ FinishClose(s, k))
       /\ WF_vars(open /\ Dispose(s))

-----------------------------------------------------------------------------
(* No session runs on without a page: whatever closed its page, a session  *)
(* in the Map and a registered event handler have a mounted page or a      *)
(* close of theirs under way (file_manager_page.dart dispose()).  The      *)
(* state has its type.                                                     *)
SessionHasPage ==
  /\ TypeOK
  /\ \A s \in live \cup handlers : Mounted(s) \/ pending[s] # {}

(* A file-manager page that is closed in one way only, by the user or by   *)
(* the end of its session, leaves the remote desktop's page in place       *)
(* (model.dart closeWebFileTransferSession, closeFileTransfer).            *)
OneClosingSparesRd ==
  (Rd \in used /\ \A f \in Ft : Cardinality(ways[f]) <= 1) => Rd \in ToSet(routes)

(* The page of a file transfer that ended goes away, with its handler, as  *)
(* long as the viewer stays open (sessions.ts FT_SESSION_ENDED: "Flutter   *)
(* handleMsgBox closes the file-manager route on this type").  A page over *)
(* which a popup menu is open at that moment may stay: the pop takes the   *)
(* menu (model.dart:660).                                                  *)
EndedPageLeaves ==
  \A f \in Ft : (f \in used \ live)
                 ~> (~open \/ (f \notin handlers /\ (~Mounted(f) \/ f \in missed)))

(* README.md:14: concurrent sessions are keyed by their UUID.  No page is   *)
(* given an event of another session that is in the Map: the fallback to   *)
(* the only handler (web_model.dart:179) meets only sessions that were     *)
(* closed.                                                                 *)
EventsKeyedBySession ==
  [][\A p \in handledBy' \ handledBy : p[1] \in live => p[1] = p[2]]_vars

=============================================================================
