------------------------------ MODULE Sessions ------------------------------
(***************************************************************************)
(* The session layer of the viewer's JavaScript engine: the registry       *)
(* connections/sessions.ts, the shared connection lifecycle of             *)
(* session_base.ts and session_connect.ts, the two connection classes      *)
(* (RdConnection, FtConnection) as far as they open, read, lose and close  *)
(* their relay socket, and the error routing of bridge/errors.js.          *)
(*                                                                         *)
(* JavaScript runs to completion, so an action is one turn of the event    *)
(* loop: from the resumption of an async function to its next await.  The  *)
(* synchronous functions of the code are operators that map the value R of *)
(* the shared state to its next value, composed as the code calls them.    *)
(***************************************************************************)
EXTENDS Naturals, Sequences

CONSTANTS
  Rd,         \* ids of remote-desktop sessions (RdConnection)
  Ft,         \* ids of file-transfer sessions (FtConnection)
  None,       \* JavaScript's undefined
  MaxStarts,  \* bound: start() calls of one connection (restart() starts it again)
  MaxBuf      \* bound: undelivered messages of one socket

ASSUME SessionsAssumption ==
  /\ Rd \cap Ft = {}
  /\ None \notin Rd \cup Ft
  /\ MaxStarts \in Nat \ {0}
  /\ MaxBuf \in Nat

Session == Rd \cup Ft
Attempt == 1..MaxStarts

(***************************************************************************)
(* Where the async call chain of one start() is suspended.                 *)
(***************************************************************************)
Connecting == {"id_open", "id_wait", "relay_open", "handshake"}
Phase == {"idle", "done", "loop", "handler"} \cup Connecting

(***************************************************************************)
(* _status of a relay Websock.  "connecting" and "closed" are both "" in   *)
(* the code: before onopen, and after close().  "event" is the CloseEvent  *)
(* or error Event a socket handler stored.                                 *)
(***************************************************************************)
Status == {"none", "connecting", "open", "closed", "event"}

(***************************************************************************)
(* What a peer message makes the message loop do:                          *)
(*   benign        handled without leaving the turn (a hash answered by a  *)
(*                 login, peer_info, video, cursor, ...)                   *)
(*   fatal         a login error, a hash with no password to answer it, a  *)
(*                 peer without displays: a message box the parent handles *)
(*   close_reason  misc.close_reason                                       *)
(*   slow          the handler awaits (decompression, a file block)        *)
(***************************************************************************)
Msg == {"benign", "fatal", "close_reason", "slow"}

VARIABLES
  js,       \* the state shared by the synchronous functions, see JsState
  starts,   \* starts[s]: how often start() of connection s was called
  phase,    \* phase[s][k]: where the k-th start() of s is suspended
  reading,  \* reading[s][k]: the socket whose next() that message loop awaits
  buf       \* buf[s][k]: Websock._buf of the k-th relay socket of s

vars == <<js, starts, phase, reading, buf>>

JsState ==
  [sessions : [Session -> Nat],    \* the Map: 0 = no key, else its insertion number
   adds     : Nat,                 \* insertions so far
   curConn  : Session \cup {None}, \* window.curConn
   ws       : [Session -> 0..MaxStarts],            \* _ws, 0 = undefined
   status   : [Session -> [Attempt -> Status]],     \* _status of each relay socket
   pump     : [Session -> BOOLEAN],                 \* _interval is set
   closing  : [Ft -> BOOLEAN],                      \* FtConnection._closing
   ended    : [Ft -> BOOLEAN],                      \* FtConnection._ftSessionEnded
   endedEvents : [Ft -> Nat],                       \* ft-session-ended events pushed
   raised   : SUBSET Rd,           \* sessions that raised a parent-handled box
   reported : SUBSET Rd]           \* those whose box became a VIEWER_ERROR

TypeOK ==
  /\ js \in JsState
  /\ starts \in [Session -> 0..MaxStarts]
  /\ phase \in [Session -> [Attempt -> Phase]]
  /\ reading \in [Session -> [Attempt -> 0..MaxStarts]]
  /\ buf \in [Session -> [Attempt -> Seq(Msg)]]

Init ==
  /\ js = [sessions |-> [s \in Session |-> 0],
           adds     |-> 0,
           curConn  |-> None,
           ws       |-> [s \in Session |-> 0],
           status   |-> [s \in Session |-> [k \in Attempt |-> "none"]],
           pump     |-> [s \in Session |-> FALSE],
           closing  |-> [f \in Ft |-> FALSE],
           ended    |-> [f \in Ft |-> FALSE],
           endedEvents |-> [f \in Ft |-> 0],
           raised   |-> {},
           reported |-> {}]
  /\ starts = [s \in Session |-> 0]
  /\ phase = [s \in Session |-> [k \in Attempt |-> "idle"]]
  /\ reading = [s \in Session |-> [k \in Attempt |-> 0]]
  /\ buf = [s \in Session |-> [k \in Attempt |-> << >>]]

-----------------------------------------------------------------------------
(* The registry and the synchronous functions, over a value R of js. *)

InMap(R, s) == R.sessions[s] > 0

AddSession(R, s) ==
  [R EXCEPT !.sessions[s] = R.adds + 1, !.adds = R.adds + 1, !.curConn = s]

GetSession(R, s) == IF InMap(R, s) THEN s ELSE R.curConn

(* sessions.values().next(): the Map iterates in insertion order. *)
FirstSession(R) ==
  IF \E s \in Session : InMap(R, s)
  THEN CHOOSE s \in Session :
         InMap(R, s) /\ \A t \in Session : InMap(R, t) => R.sessions[s] <= R.sessions[t]
  ELSE None

AdvanceCurConn(R, closedConn) ==
  IF R.curConn # closedConn THEN R ELSE [R EXCEPT !.curConn = FirstSession(R)]

DeleteSession(R, s) == [R EXCEPT !.sessions[s] = 0]

PrepareConnect(R, s) == [R EXCEPT !.pump[s] = TRUE]

(* Websock.close(): _status becomes "", the buffer is kept. *)
WsClose(R, s) ==
  IF R.ws[s] = 0 THEN R ELSE [R EXCEPT !.status[s][R.ws[s]] = "closed"]

(* Fault: clearInterval is forgotten. *)
BaseCloseKeepsPump(R, s) == WsClose(R, s)

BaseClose(R, s) == WsClose([R EXCEPT !.pump[s] = FALSE], s)

CloseConn(R, s) ==
  IF s \in Rd THEN BaseClose(R, s)
  ELSE IF R.closing[s] THEN R
  ELSE BaseClose([R EXCEPT !.closing[s] = TRUE], s)

(* Fault: curConn is left on the removed connection. *)
RemoveWithoutAdvance(R, s) ==
  IF InMap(R, s) THEN DeleteSession(CloseConn(R, s), s) ELSE R

RemoveSession(R, s) ==
  IF InMap(R, s)
  THEN AdvanceCurConn(DeleteSession(CloseConn(R, s), s), s)
  ELSE AdvanceCurConn(R, None)

IsOpen(R, s) == R.ws[s] # 0 /\ R.status[s][R.ws[s]] = "open"

HasOpenRemoteDesktopSession(R) == \E r \in Rd : InMap(R, r) /\ IsOpen(R, r)

PushFtSessionEnded(R, f) == [R EXCEPT !.endedEvents[f] = @ + 1]

(* Fault: the ended session stays in the Map. *)
EndWithoutDelete(R, f) ==
  IF ~InMap(R, f) \/ R.ended[f] THEN R
  ELSE PushFtSessionEnded(CloseConn([R EXCEPT !.ended[f] = TRUE], f), f)

EndFileTransferSession(R, f) ==
  IF ~InMap(R, f) \/ R.ended[f] THEN R
  ELSE PushFtSessionEnded(
         AdvanceCurConn(
           DeleteSession(CloseConn([R EXCEPT !.ended[f] = TRUE], f), f), f), f)

(* close() of conn_registry.js: whatever connection is current. *)
CloseCurrent(R) == IF R.curConn = None THEN R ELSE RemoveSession(R, R.curConn)

(* A parent-handled message box of the remote-desktop connection r. *)
ShowFatalError(R, r) ==
  IF R.curConn \in Ft /\ HasOpenRemoteDesktopSession(R)
  THEN [EndFileTransferSession(R, R.curConn) EXCEPT !.raised = @ \cup {r}]
  ELSE [CloseCurrent(R) EXCEPT !.raised = @ \cup {r}, !.reported = @ \cup {r}]

(* The guard FtConnection puts around its own end. *)
EndUnlessClosed(R, f) ==
  IF R.closing[f] \/ R.ended[f] THEN R ELSE EndFileTransferSession(R, f)

(* Fault: errors of a file transfer take the way of the remote desktop's. *)
FailedAlwaysFatal(R, s) == ShowFatalError(R, s)

(* What an exception does that leaves start() or the message loop. *)
Failed(R, s) == IF s \in Rd THEN ShowFatalError(R, s) ELSE EndUnlessClosed(R, s)

-----------------------------------------------------------------------------
(* Bridge calls. *)

(* start() up to its first await: the pump runs, the rendezvous socket opens. *)
Start(R, s) ==
  /\ starts[s] < MaxStarts
  /\ js' = PrepareConnect(R, s)
  /\ starts' = [starts EXCEPT ![s] = @ + 1]
  /\ phase' = [phase EXCEPT ![s][starts[s] + 1] = "id_open"]
  /\ UNCHANGED <<reading, buf>>

(* FFI.start: session_add_sync and session_start in one turn, under a new UUID. *)
SessionStart(s) ==
  /\ starts[s] = 0
  /\ Start(AddSession(js, s), s)

(* session_close, for any id Flutter ever used. *)
SessionClose(s) ==
  /\ starts[s] > 0
  /\ js' = RemoveSession(js, s)
  /\ UNCHANGED <<starts, phase, reading, buf>>

(* The bridge's close, which names no session. *)
BridgeClose ==
  /\ js' = CloseCurrent(js)
  /\ UNCHANGED <<starts, phase, reading, buf>>

(* restart: the handler resolves the id, and falls back to curConn. *)
Restart(s) ==
  /\ starts[s] > 0
  /\ LET c == GetSession(js, s) IN
       /\ c \in Rd
       /\ Start(CloseConn(js, c), c)

(* select_files on a folder without files: an error box of FtConnection. *)
SelectEmptyFolder(f) ==
  /\ starts[f] > 0
  /\ js' = EndFileTransferSession(js, f)
  /\ UNCHANGED <<starts, phase, reading, buf>>

-----------------------------------------------------------------------------
(* Connecting: startPunchHole, then connectRelay. *)

GoTo(s, k, p) == phase' = [phase EXCEPT ![s][k] = p]

(* Fault: the socket handler stores a status no reader knows. *)
SetStatusUnknown(R, s, k, v) ==
  [R EXCEPT !.status[s][k] = IF v = "event" THEN "error" ELSE v]

SetStatus(R, s, k, v) == [R EXCEPT !.status[s][k] = v]

SetWs(R, s, k) == [R EXCEPT !.ws[s] = k]

RendezvousOpened(s, k) ==
  /\ phase[s][k] = "id_open"
  /\ GoTo(s, k, "id_wait")
  /\ UNCHANGED <<js, starts, reading, buf>>

(* Fault: open() has no time-out. *)
ConnectRejectedOnlyByNext(s, k) ==
  /\ phase[s][k] \in {"id_wait", "handshake"}
  /\ GoTo(s, k, "done")
  /\ js' = Failed(js, s)
  /\ UNCHANGED <<starts, reading, buf>>

(* open() or next() rejects: refused, reset, or 12 seconds without an answer. *)
ConnectRejected(s, k) ==
  /\ phase[s][k] \in Connecting
  /\ GoTo(s, k, "done")
  /\ js' = Failed(js, s)
  /\ UNCHANGED <<starts, reading, buf>>

(* A punch_hole_response with a failure, or a peer that is too old. *)
PunchHoleRefused(s, k) ==
  /\ phase[s][k] = "id_wait"
  /\ GoTo(s, k, "done")
  /\ js' = IF s \in Rd THEN ShowFatalError(js, s) ELSE EndFileTransferSession(js, s)
  /\ UNCHANGED <<starts, reading, buf>>

(* Fault: the file transfer trusts startPunchHole to have reported. *)
PunchHoleUnansweredSilent(s, k) ==
  /\ phase[s][k] = "id_wait"
  /\ GoTo(s, k, "done")
  /\ UNCHANGED <<js, starts, reading, buf>>

(* Neither a failure nor a relay: startPunchHole returns false. *)
PunchHoleUnanswered(s, k) ==
  /\ phase[s][k] = "id_wait"
  /\ GoTo(s, k, "done")
  /\ js' = IF s \in Ft /\ js.ws[s] = 0 THEN EndUnlessClosed(js, s) ELSE js
  /\ UNCHANGED <<starts, reading, buf>>

RelayOffered(s, k) ==
  /\ phase[s][k] = "id_wait"
  /\ GoTo(s, k, "relay_open")
  /\ js' = SetStatus(js, s, k, "connecting")
  /\ UNCHANGED <<starts, reading, buf>>

RelayOpened(s, k) ==
  /\ phase[s][k] = "relay_open"
  /\ GoTo(s, k, "handshake")
  /\ js' = SetStatus(js, s, k, "open")
  /\ UNCHANGED <<starts, reading, buf>>

(* onReady: nothing asks whether the session was closed meanwhile. *)
HandshakeDone(s, k) ==
  /\ phase[s][k] = "handshake"
  /\ GoTo(s, k, "loop")
  /\ js' = SetWs(js, s, k)
  /\ reading' = [reading EXCEPT ![s][k] = k]
  /\ UNCHANGED <<starts, buf>>

-----------------------------------------------------------------------------
(* The relay socket. *)

(* onclose or onerror: of an open socket, or late, after close(). *)
SocketEvent(s, k) ==
  /\ js.status[s][k] \in {"open", "closed"}
  /\ js' = SetStatus(js, s, k, "event")
  /\ UNCHANGED <<starts, phase, reading, buf>>

Receive(s, k, m) ==
  /\ js.status[s][k] = "open"
  /\ phase[s][k] \in {"loop", "handler"}
  /\ Len(buf[s][k]) < MaxBuf
  /\ buf' = [buf EXCEPT ![s][k] = Append(@, m)]
  /\ UNCHANGED <<js, starts, phase, reading>>

-----------------------------------------------------------------------------
(* The message loop: _ws.next(0) delivers the buffer first, then rejects *)
(* unless the socket is open.                                            *)

Dequeue(s, k, M) ==
  LET j == reading[s][k] IN
  /\ phase[s][k] = "loop"
  /\ j # 0
  /\ buf[s][j] # << >>
  /\ Head(buf[s][j]) \in M
  /\ buf' = [buf EXCEPT ![s][j] = Tail(@)]
  /\ UNCHANGED starts

(* The loop awaits next() of whatever _ws is now. *)
AwaitNext(s, k) ==
  /\ GoTo(s, k, "loop")
  /\ reading' = [reading EXCEPT ![s][k] = js'.ws[s]]

LoopBenign(s, k) ==
  /\ Dequeue(s, k, {"benign"} \cup (IF s \in Ft THEN {"close_reason"} ELSE {}))
  /\ js' = js
  /\ AwaitNext(s, k)

LoopFatal(s, k) ==
  /\ Dequeue(s, k, {"fatal"})
  /\ js' = IF s \in Rd THEN ShowFatalError(js, s) ELSE EndFileTransferSession(js, s)
  /\ AwaitNext(s, k)

LoopCloseReason(r, k) ==
  /\ Dequeue(r, k, {"close_reason"})
  /\ js' = CloseConn(ShowFatalError(js, r), r)
  /\ GoTo(r, k, "done")
  /\ UNCHANGED reading

LoopSlow(s, k) ==
  /\ Dequeue(s, k, {"slow"})
  /\ GoTo(s, k, "handler")
  /\ UNCHANGED <<js, reading>>

HandlerDone(s, k) ==
  /\ phase[s][k] = "handler"
  /\ js' = js
  /\ AwaitNext(s, k)
  /\ UNCHANGED <<starts, buf>>

HandlerThrows(s, k) ==
  /\ phase[s][k] = "handler"
  /\ js' = Failed(js, s)
  /\ GoTo(s, k, "done")
  /\ UNCHANGED <<starts, reading, buf>>

(* Fault: next() rejects only after close(), not after a socket event. *)
LoopRejectedOnlyClosed(s, k) ==
  LET j == reading[s][k] IN
  /\ phase[s][k] = "loop"
  /\ j # 0
  /\ buf[s][j] = << >>
  /\ js.status[s][j] = "closed"
  /\ js' = IF s \in Rd THEN js ELSE Failed(js, s)
  /\ GoTo(s, k, "done")
  /\ UNCHANGED <<starts, reading, buf>>

(* Fault: the loop of a remote desktop ends without a word. *)
LoopRejectedSilent(s, k) ==
  LET j == reading[s][k] IN
  /\ phase[s][k] = "loop"
  /\ j # 0
  /\ buf[s][j] = << >>
  /\ js.status[s][j] # "open"
  /\ js' = IF s \in Rd THEN js ELSE Failed(js, s)
  /\ GoTo(s, k, "done")
  /\ UNCHANGED <<starts, reading, buf>>

(* next() rejects with _status; an empty text raises no box. *)
LoopRejected(s, k) ==
  LET j == reading[s][k] IN
  /\ phase[s][k] = "loop"
  /\ j # 0
  /\ buf[s][j] = << >>
  /\ js.status[s][j] # "open"
  /\ js' = IF s \in Rd /\ js.status[s][j] = "closed" THEN js ELSE Failed(js, s)
  /\ GoTo(s, k, "done")
  /\ UNCHANGED <<starts, reading, buf>>

-----------------------------------------------------------------------------
(* One turn in which connection s runs, in its k-th start(). *)
ConnTurn(s, k) ==
  \/ RendezvousOpened(s, k) \/ ConnectRejected(s, k)
  \/ PunchHoleRefused(s, k) \/ PunchHoleUnanswered(s, k)
  \/ RelayOffered(s, k) \/ RelayOpened(s, k) \/ HandshakeDone(s, k)
  \/ LoopBenign(s, k) \/ LoopFatal(s, k) \/ LoopSlow(s, k)
  \/ s \in Rd /\ LoopCloseReason(s, k)
  \/ HandlerDone(s, k) \/ HandlerThrows(s, k) \/ LoopRejected(s, k)

Next ==
  \/ \E s \in Session :
       SessionStart(s) \/ SessionClose(s) \/ Restart(s)
  \/ \E f \in Ft : SelectEmptyFolder(f)
  \/ BridgeClose
  \/ \E s \in Session, k \in Attempt :
       \/ ConnTurn(s, k)
       \/ SocketEvent(s, k)
       \/ \E m \in Msg : Receive(s, k, m)

Spec == Init /\ [][Next]_vars

-----------------------------------------------------------------------------
(* Safety *)

(* window.curConn is undefined exactly when the Map is empty, and otherwise a  *)
(* registered connection: the fallback of getSession, the close() of a fatal   *)
(* error and every bridge call without a live id act on a connection that the  *)
(* registry can still close.                                                   *)
CurConnRegistered ==
  IF js.curConn = None
  THEN \A s \in Session : ~InMap(js, s)
  ELSE InMap(js, js.curConn)

(* No timer outlives its session: the 1 ms pump that prepareConnect starts     *)
(* runs only while the connection is in the Map, whichever of the paths        *)
(* through session_close, a fatal error, an ended transfer or a restart the    *)
(* connection has taken.                                                       *)
PumpsOwned == \A s \in Session : js.pump[s] => InMap(js, s)

(* Flutter hears once that a file-transfer session ended, and only after the   *)
(* session left the Map; a closed FtConnection is never found there again.     *)
FtEndNotifiedOnce ==
  \A f \in Ft :
    /\ js.endedEvents[f] = (IF js.ended[f] THEN 1 ELSE 0)
    /\ js.ended[f] => js.closing[f]
    /\ js.closing[f] => ~InMap(js, f)

(* A registered file-transfer session is always being worked on: whichever way *)
(* its start() ends (rejection, refusal, no answer, lost socket, a handler     *)
(* that throws), the session has left the Map by then, so the file manager is  *)
(* never left open on a connection that nobody reads.                          *)
RegisteredFtIsServed ==
  \A f \in Ft : InMap(js, f) => phase[f][1] \in Connecting \cup {"loop", "handler"}

(* Every error box of a remote-desktop connection reaches the parent window    *)
(* (README: fatal errors are reported via VIEWER_ERROR).                       *)
FatalErrorsReported == js.raised \subseteq js.reported

(* The registry the connections share is the one of SessionRegistry: none of   *)
(* the error paths removes two sessions in a turn, moves curConn away from a   *)
(* session that stays, or brings an id back.                                   *)
Registry == INSTANCE SessionRegistry WITH
  live <- {s \in Session : InMap(js, s)},
  used <- {s \in Session : starts[s] > 0},
  cur <- js.curConn

RegistrySpec == Registry!Spec

(* What the viewer keeps of the remote-desktop sessions. *)
RdState(R) ==
  [r \in Rd |-> <<R.sessions[r], R.ws[r], R.status[r], R.pump[r]>>]

FtTurn(f) ==
  \/ SessionClose(f) \/ SelectEmptyFolder(f)
  \/ \E k \in Attempt : ConnTurn(f, k) \/ SocketEvent(f, k)

(* Whatever a file-transfer session runs into, no step of its own closes,      *)
(* removes or disturbs a remote-desktop session, nor reports an error to the   *)
(* parent (README: the remote desktop keeps running).                          *)
FtFailureSparesRd ==
  [][\A f \in Ft : FtTurn(f) =>
        RdState(js') = RdState(js) /\ js'.reported = js.reported]_vars

-----------------------------------------------------------------------------
(* Liveness *)

(* Timers fire and settled promises resume their functions: the 12 s time-outs *)
(* of open() and next(), the 1 ms poll of next(), the end of an awaited        *)
(* handler.  Nothing is assumed of the peer, the servers or the user.          *)
LoopTurn(s, k) ==
  \/ LoopBenign(s, k) \/ LoopFatal(s, k) \/ LoopSlow(s, k)
  \/ s \in Rd /\ LoopCloseReason(s, k)
  \/ LoopRejected(s, k)

Fairness ==
  \A s \in Session, k \in Attempt :
    /\ WF_vars(ConnectRejected(s, k))
    /\ WF_vars(LoopTurn(s, k))
    /\ WF_vars(HandlerDone(s, k) \/ HandlerThrows(s, k))

FairSpec == Spec /\ Fairness

(* The file manager never shows "Connecting..." for ever: a file-transfer      *)
(* session that was started gets its socket or is ended.                       *)
FtConnectSettles ==
  \A f \in Ft : starts[f] > 0 ~> (js.ws[f] # 0 \/ ~InMap(js, f))

(* A file-transfer session whose socket is lost is ended, even if its message  *)
(* loop was inside a handler at the time or had messages left to read.         *)
LostFtEnds ==
  \A f \in Ft : (InMap(js, f) /\ js.status[f][1] = "event") ~> ~InMap(js, f)

(* The loss of the current socket of a remote-desktop session is noticed: an   *)
(* error is raised, unless the session is closed or restarted first, or an     *)
(* earlier start() that was still connecting replaces _ws by its own socket.   *)
LostRdNoticed ==
  \A r \in Rd, k \in Attempt :
    (phase[r][k] \in {"loop", "handler"} /\ js.ws[r] = k /\ js.status[r][k] = "event")
      ~> (r \in js.raised \/ ~InMap(js, r) \/ starts[r] > k \/ js.ws[r] # k)

=============================================================================
