# A TLA+ model of the Fort RC web viewer

The repository is a session-only RustDesk web client. A Flutter UI talks to a
JavaScript protocol engine (`flutter/js/src`) over a bridge of two functions,
`setByName` and `getByName`; the engine opens WebSockets to a rendezvous and a
relay server and speaks the RustDesk protocol to the peer. One viewer runs a
remote-desktop (RD) session and, beside it, file-transfer (FT) sessions. The
parent window that opened the viewer starts it and hears of its errors.

Everything in the engine runs on one JavaScript thread. What makes it hard is
what happens between two `await`s: bridge calls, socket events, timers and the
continuations of other sessions run there, and the code resumes on state they
have changed. The models take one *turn* (from a resumption to the next
`await`) as one step.

## 1. Inventory

| Component | State | Operations | Hard behaviour | What makes it correct | Module |
| --- | --- | --- | --- | --- | --- |
| Session registry (`connections/sessions.ts`, `bridge/conn_registry.js`) | the `sessions` Map, `window.curConn` | add, get (with fallback), remove, end a file transfer, close current | every error path changes it; ids may be stale | `curConn` names a registered session; sessions leave one at a time and once | `Sessions`, `SessionRegistry` |
| Connection lifecycle (`session_base.ts`, `session_connect.ts`) | `_ws`, `_interval`, the suspended `start()` | start, punch hole, relay, handshake, close | nothing cancels a `start()` that is under way | a connect settles; no timer survives its session | `Sessions`, `Websock`, `PeerOptions` |
| Socket (`websock.ts`) | `_status`, `_buf`, nonce counters | open, next, send, close, socket events | late events, buffered messages after close, time-outs | losses are noticed; messages in order; counters in step | `Sessions`, `Websock`, `Channel` |
| RD connection (`rd_connection.ts`) | decoder, options, last key, peer info | message loop, restart, input | a restart while the old chains run | an error ends in a report; keys arrive and are released | `Sessions`, `RdInput`, `RdVideo`, `PeerOptions` |
| FT connection and jobs (`ft_connection.ts`, `ft/*`) | `_closing`, `_ftSessionEnded`, jobs, `_msgs`, download queue | message loop, uploads, downloads, cancel | handlers that await, pumps, pickers, the host's waits | ends once; files arrive whole; jobs settle | `Sessions`, `FtUpload`, `FtDownload` |
| Error routing (`bridge/errors.js`) | none | `msgbox`, `showFatalError` | decides by `curConn`, not by who failed | fatal errors reach the parent | `Sessions` |
| Bridge (`bridge/handlers/*`, `session_handlers.js`) | none | dispatch by id | stale ids fall back to `curConn` | see registry | with each component |
| Bootstrap (`bridge/init.js`, `web/index.html`, `viewer-crypto.js`) | key pair, `__sessionStarted`, the connect promise | READY, SESSION_READY, ACK, reload | messages before Flutter is ready, twice, for an old key | one start, one ACK | `ViewerBootstrap` |
| Flutter on web (`web_model.dart`, `model.dart`, pages) | event handlers per session, routes | start, close, dispatch events | events for sessions that are gone, two closers of one page, popup menus | only the right page is closed | `Viewer` |
| Keyboard (`input_model.dart`, `helpers/common.ts`, `rd_connection.ts`) | modifiers, `_lastKeyDownEvent` | key down, repeat, up, release on focus loss | up events sent under another key | nothing typed twice; what is left down is known | `RdInput` |
| Video (`rd_video.ts`) | decoder, frame counters | frame, ack, reload, restart | decode callbacks after restart, a buffer that outlives its socket | acks are earned and follow | `RdVideo` |
| Peer store and options (`peer_store.js`, `rd_options.ts`) | one localStorage record per peer, a copy per session, the host's options | load, save, toggle, login | whole-record writes of two sessions; a host that waits before it authorizes | the host follows; a password by consent; no lost update | `PeerOptions` |
| Generated protobuf (`proto/message.ts`, `proto/rendezvous.ts`), `KEY_MAP` | none | encode, decode | hosts of other versions, 64-bit numbers | decode inverts encode | `Protobuf`, `MessageProto`, `RendezvousProto`, `Wire` |
| Upstream client and host (`src/src`, `libs`), native runners, libsodium | | | | outside the web build or third party; the host is the environment of the models | |

Calls between components are synchronous, also the events the engine pushes
into Dart (`pushEvent` calls the handler in the same turn). Asynchronous are
bridge calls from Dart (timer events), sockets, workers and dialogs of the
browser, and the parent window (`postMessage`).

`PROJECT.json` lists the hazards at the lines where they bite.

## 2. How the models fit together

- `Sessions` is the session layer in detail and implements `SessionRegistry`.
- `Viewer` puts the Flutter side on top of `SessionRegistry`, that is, on what
  `Sessions` is proved to implement.
- `Websock` is one relay socket with the host at the other end and implements
  `Channel` in both directions. `FtUpload`, `FtDownload`, `RdInput`, `RdVideo`
  and `PeerOptions` each use such channels (sequences `toHost`, `toWeb`,
  `wire`) and compose a part of the engine with the host's half of that part.
- `Wire` is what happens to one message between `fromPartial` and the end of
  `decode()`; the others take a message as a record.
- `MCFtUpload` and `MCFtDownload` give the two transfer modules their files;
  every other run checks its module directly, with constants from the cfg.

The host's half is translated from `src/src/server` and `libs` where the viewer
depends on it, and mapped to the lines it translates. Marked external are only
what has no code in the repository: the parent window, the browser's and
Flutter's navigation, and the other ends of the wire format.

### Runs

| Run | Instance | Distinct states | Properties |
| --- | --- | --- | --- |
| `sessions` | 1 RD, 1 FT, 1 buffered message, fair | 22,874 | `TypeOK`, `FtEndNotifiedOnce`, `RegisteredFtIsServed`, `CurConnRegistered`, `FtFailureSparesRd`, `RegistrySpec`, `FtConnectSettles`, `LostFtEnds` |
| `sessions_restart` | 1 RD started twice, 1 message, fair | 14,561 | `PumpsOwned`, `LostRdNoticed` |
| `sessions_fatal` | 1 RD, 1 FT, 1 message | (violated) | `FatalErrorsReported` is violated |
| `ftupload` | a folder of files of 1, 0 and 1 blocks beside a file of 2, every answer and failure, fair | 756,833 | `HostFilesWhole`, `BlocksAwaitConfirm`, `CancelStopsUpload`, `UploadSettles` |
| `ftdownload` | a folder of 2 files beside an empty file and a request, every failure, fair | 1,489,776 | `SavedFilesWhole`, `DoneMeansSaved`, `DownloadSettles` |
| `viewer` | 1 RD, 2 FT with popup menus, fair | 609,509 | `SessionHasPage`, `OneClosingSparesRd`, `EventsKeyedBySession`, `EndedPageLeaves` |
| `bootstrap` | 3 messages of the parent, 2 loads, fair | 255,285 | `OneSessionPerLoad`, `TakenOnIsAnswered`, `AckedSessionOpens` |
| `websock` | 4 messages of the viewer, 4 of the host, fair | 29,513 | `CountersAgree`, `FifoBothWays`, `PingsAnswered` |
| `rdinput` | a letter, a symbol, a control key, both Control keys, the right Alt key, both modes, 3 platforms, 5 calls | 3,205,535 | `TypedInOrder`, `ShortcutsArrive`, `KeysReleased` |
| `rdvideo` | 2 starts, 3 messages of up to 2 frames, fair | 148,356 | `AcksAreEarned`, `DrawnInOrder`, `AckFollows`, `PictureFollows` |
| `peeroptions` | 1 RD and 1 FT to one peer, 5 bridge calls, every answer of the host | 4,512,488 | `HostFollowsOptions`, `PasswordByConsent`, `UpdatesKept` |
| `wire` | every type, up to 2 fields set, 1 difference of the host's encoder | 906,879 | `RoundTrip`, `KeysArrive` |

Each module has a `TypeOK`. Outside `Sessions` it is the first conjunct of the
module's first invariant (`HostFilesWhole`, `SavedFilesWhole`, `SessionHasPage`,
`OneSessionPerLoad`, `CountersAgree`, `KeysReleased`, `AcksAreEarned`,
`HostFollowsOptions`, `RoundTrip`), so that every run checks it.

No symmetry is declared: liveness is checked in most runs, and the sets are
small. `CHECK_DEADLOCK FALSE` stands where the system may stop: all transfers
over and the session closed, the popup closed, a message decoded, or a bound on
the user's calls used up. `sessions`, `sessions_restart` and `rdvideo` keep the
check.

## 3. Sessions

### State

`js` is one record with the state that the synchronous functions share: the
Map (`sessions[s]` is 0, or the insertion number that gives the Map its
order), `curConn`, and per connection `_ws`, the `_status` of each relay socket
it opened, whether its pump runs, and for file transfers `_closing`,
`_ftSessionEnded` and the number of `ft-session-ended` events. `raised` and
`reported` record which remote desktops raised a parent-handled box and for
which a `VIEWER_ERROR` was posted. Besides `js` there are, per connection and
per call of its `start()`, the place where that call is suspended (`phase`), the
socket whose `next()` its loop awaits (`reading`) and the socket's `_buf`
(`buf`).

The synchronous functions (`removeSession`, `endFileTransferSession`,
`showFatalError`, `close`...) are operators from a value `R` of `js` to the next
value and are composed as the code calls them, so that an action is the whole
turn: `LoopCloseReason`, for example, is
`CloseConn(ShowFatalError(js, r), r)`.

### Actions

| Action | Code |
| --- | --- |
| `SessionStart` | `FFI.start` on web: `session_add_sync`, then `session_start`, up to the first `await` of `start()` |
| `SessionClose`, `BridgeClose` | `session_close` with an id, `close` |
| `Restart` | `restart` through the id-or-`curConn` lookup: `close()` then `start()` |
| `SelectEmptyFolder` | an error box of `FtConnection` outside its message loop |
| `RendezvousOpened` ... `HandshakeDone` | `startPunchHole` and `connectRelay`, one action per `await` and outcome |
| `ConnectRejected` | `open()` or `next()` rejects: error, reset or 12 s time-out |
| `SocketEvent`, `Receive` | `onclose`/`onerror`; `onmessage` |
| `LoopBenign`, `LoopFatal`, `LoopCloseReason`, `LoopSlow`, `HandlerDone`, `HandlerThrows`, `LoopRejected` | one turn of `msgLoop`, by what the message makes it do, or by `next()` rejecting |

A message is one of four classes (handled at once, fatal, `close_reason`,
handled by an awaiting handler); the login, the hash, frames and options differ
only within a class. Every id is started once because Flutter takes a new UUID
for each FT session and the parent's session id for the RD session. Two details
are kept because outcomes depend on them: `_status` after `close()` is the empty
string, for which the message box of an RD connection shows nothing, while a
CloseEvent that arrives first makes it a fatal error; and `next()` delivers
buffered messages before it looks at `_status`.

Left out of `Sessions`: what is sent, the FT jobs, the video decoder, peer
options.

### Bounds and fairness

`MaxStarts` bounds restarts: two starts give an old and a new chain, which is
what the interference needs. `MaxBuf` bounds a socket's backlog: one message
behind the one that is being handled lets a loop find something to do after the
socket is gone. File transfers are never restarted by the code (`restart`
requires a remote desktop), so `MaxStarts = 1` is no restriction for them. The
instances are small because the proofs remove every bound, the number of
sessions included, for everything but liveness. The deadlock check is on; the
bridge's `close` can always be called.

`FairSpec` assumes weak fairness of what the browser guarantees: the time-outs
of `open()` and `next()` fire (`ConnectRejected`), the 1 ms poll of `next()`
resumes a loop that has a message or a dead socket (`LoopTurn`), and an awaited
handler returns or throws. Nothing is assumed of peer, servers, user or parent:
no message, socket event or bridge call ever has to happen.

### What the runs show

A file transfer ends in every way the code knows exactly once, before Flutter is
told, and without touching the remote desktop; its connect cannot hang. Closing
a session while it connects leaves a zombie that finishes its handshake and
opens its loop outside the Map: the runs include it, and show that it disturbs
none of these properties (its pump is stopped and it is never registered again).
A remote desktop's lost socket is noticed, with the exceptions `LostRdNoticed`
names: the session was closed or restarted, or an earlier `start()` finished its
handshake late and took over `_ws`.

`sessions_fatal` shows a disagreement with the repository's README ("Fatal
errors are also reported via `VIEWER_ERROR`"): `showFatalError` looks at
`curConn`. If the remote desktop raises an error while a file transfer is in
front and a remote-desktop socket counts as open (a login error, a
`close_reason`), the file transfer is ended with the remote desktop's message
and the parent is not told.

### Proofs

`SessionsProofs` proves, for all sets of sessions and all bounds, from
`SessionsAssumption` alone (the two kinds of id are disjoint, `None` is no id,
`MaxStarts` is positive):

| Theorem | Statement |
| --- | --- |
| `TypeCorrect` | `Spec => []TypeOK` |
| `CurConnAlwaysRegistered` | `Spec => []CurConnRegistered` |
| `PumpsAlwaysOwned` | `Spec => []PumpsOwned` |
| `FtEndAlwaysNotifiedOnce` | `Spec => []FtEndNotifiedOnce` |
| `RegisteredFtAlwaysServed` | `Spec => []RegisteredFtIsServed` |
| `ImplementsRegistry` | `Spec => RegistrySpec` |
| `FtFailureAlwaysSparesRd` | `Spec => FtFailureSparesRd` |

The inductive invariant `Inv` is the conjunction of

- `TypeOK`;
- `JsOK(js)`: `curConn`, pumps and the end flags agree with the Map. The three
  are needed together: `endFileTransferSession` may drop a session only because
  it is not yet closing (else `close()` would return early and leave the pump
  running), and it is not closing because it is in the Map;
- `StartedOK`: what is registered or closing was started, so that a new id is
  neither, and a restart changes no id's status as used;
- `FtOK`: a file transfer is started once and has no socket before its
  handshake is done, so that the test `!this._ws` of `_start` never hides a
  failed connect.

The lemmas treat the synchronous functions first. `FirstSessionRegistered` is
the one place that needs well-foundedness: a non-empty Map has an oldest entry.
`CloseConnFacts`, `DropSessionFacts`, `CloseAndDrop`, `RemoveSessionFacts`,
`EndFileTransferSessionFacts`, `ShowFatalErrorFacts` and `FailedFacts` state what
each function keeps; each amounts to `RegistryStep`, at most one removal.
`TurnInv`, `BridgeInv` and `StartInv` then say which turns preserve `Inv`, and
`ConnTurnInv` and `NextInv` go through the actions. `NextInv` also classifies
each step as an addition or at most one removal, from which the refinement
follows.

Only model-checked in this module: the three liveness properties (fairness is
beyond the prover) and the violated property.

## 4. Viewer

State: the registry (`live`, `used`, `cur`), the connections whose `start()` still
runs, the navigator's routes with the popup menu that may be open on the top one,
popped pages whose exit transition runs
(`leaving`, still mounted), `_sessionEventHandlers`, the pages with
`_sessionClosed`, and the `FFI.close()` calls that have not come back, by who
awaits them. `FFI.close()` is split at its bridge call, because `session_close`
is a timer event and what follows (removing the handler, the caller's `pop`)
runs after it; everything else is one turn.

`InitPage` is `initState` with `FFI.start`; `CloseFileTransfer` the user's way out;
`EndFileTransferSession` the engine's, with the dispatch of `ft-session-ended`
to the handler `DispatchGlobalEvent` picks (the session's own, or the only one);
`FinishClose` and `Dispose` are the two continuations; `OpenMenu` and
`DismissMenu` the menus of the file manager, which are routes of their own and are
what `Pop` takes while one is open; `PushEvent` any other event
of a connection that runs, registered or not.

`SessionHasPage`: nothing stays registered without a page or a close under way.
`OneClosingSparesRd`: as long as each file-manager page is closed in one way, the
remote desktop's page stays. `EventsKeyedBySession`: the fallback to the only
handler meets closed sessions only. `EndedPageLeaves`: the page and the handler
of an ended transfer go, unless a menu was open and the pop took that instead
(`missed`). Fairness: Dart's timers fire and transitions end while
the popup is open.

Two file managers are needed for a pop to hit a page that is neither the
remote desktop's nor the one meant.

Proved in `ViewerProofs`, for any set of file-transfer ids, from
`ViewerAssumption` (the ids differ from the remote desktop's, and `None` is no
id): `SessionAlwaysHasPage`, `EventsAlwaysKeyed` and `RdAlwaysSpared`. The first
needs `PageInv`: besides the property itself, that a session in the Map has its
own handler, and that a page told to close has a close under way as long as
anything of it is left (else the second way out, which returns early on
`_sessionClosed`, would leave the session behind). `EventsAlwaysKeyed`, an action
property, is a consequence of the same invariant: the fallback applies only when
a session has no handler, and then it is not in the Map. `RdAlwaysSpared` needs
`StackInv`: as long as no page was closed in two ways, at most one file manager
lies above the remote desktop's page, and a close that will still pop finds its own
page on top. `EndedPageLeaves` is liveness and stays with TLC.

## 5. ViewerBootstrap

One listener per REMOTE_SESSION_READY with its three awaits (`decryptToken`,
`_connectReadyPromise`, `_connectImpl`), the key of `index.html`, the two stages of
Flutter's boot (`window.connect`, navigator), the calls of `connect()` that wait
for the navigator, ACKs, VIEWER_ERROR, and a reload that loses all of it. The
parent encrypts for any key it has heard of, may repeat itself, and may name an
id that is no UUID. `ConnectResult` is TRUE because a Dart Future given to
JavaScript is an object, and `await` leaves it as it is.

`Fail` is `showFatalError` followed by the negative ACK. It posts VIEWER_ERROR
first; then, if Dart's `init` has not run, `onGlobalEvent` is not defined, the call
throws, and neither the popup's close nor the ACK happens (`CloseAndRefuse`).

`OneSessionPerLoad`: one ACK and one page, however often the parent repeats, and
never for the key of an earlier load. `TakenOnIsAnswered`: of a message that was
taken on the parent hears, by an ACK or, in the case just named, by its
VIEWER_ERROR. `AckedSessionOpens`: the page follows also when the ACK was
first. The last two assume that Flutter boots; `init.js` has no
time-out of its own there. Three messages and two loads give one message before,
one during and one after the handling of another, and an answer to a key that is
gone. The names of its specification start with `Boot`, so that one proof module
can extend it and `Viewer`.

Proved in `ViewerProofs`, with the pages of section 4, for any number of messages and loads, from
`BootstrapAssumption`: `OneSessionAlways`. `BootInv` adds to the property that at
most one listener is past the flag `__sessionStarted` and has page and ACK to itself
until it is through (`Taken`), that what is opened or will be opened belongs to the
load's own key (`OwnToken`), and that a load which took nothing on has opened
nothing (`Fresh`). The two liveness properties stay with TLC.

## 6. Websock and Channel

A frame is its body and the nonce it was encrypted with. `web` is the viewer's
end (handshake phase, `_secretKey` with its two counters, `_status`, `_buf`,
ingress handler), `host` the other (`create_tcp_connection`). One action per
`await` of `secureHandshake` and outcome, `_recv_message` as a whole (decrypt,
ingress handler with its echo, buffer), `next()`, the end of the message loop,
`close()`, and loss. The last three are apart: a loop that ends takes the ingress
handler off, but its socket stays open when the error was charged to a file
transfer in front, and a closed socket's buffer is still read by a loop that
runs.

`CountersAgree`: every frame under way will be decrypted with the nonce it was
made with, including those sent while the switch to encryption has not reached
the host. `FifoBothWays` is the refinement of `Channel`, once per
direction: pings aside, both are FIFO. `PingsAnswered` holds although the message loop is
under no fairness, because the ingress handler answers, until the socket is lost
or closed or the loop has returned; assumed is that the relay delivers while the
socket is open.

The host sends a ping once the one before was echoed. Its pings are numbered by
themselves and are in neither history, because
the ingress handler takes them out of the channel. The handshake has at most
three messages; four of the host, pings included, and four of the viewer reach
past it in both directions, with pings between.

Proved in `WebsockProofs`, for any number of messages: `NoncesAgree`
(`Spec => []CountersAgree`) and `SocketIsFifo` (`Spec => FifoBothWays`, the two
refinements of `Channel`). `CountersAgree` is not inductive. `KeyInv` follows
the key exchange: while neither end encrypts, everything is in the clear
(`Clear`); while only the viewer does, its public key is the head of what is
under way, numbered from there on, and the host has sent nothing since its signed
id (`Switching`); when both do, what was sent is what was received and what is
under way (`Switched`). That the host is silent while it waits, and that a
message which is no signed id can only come from a host that does not wait
(`Signed`), is what makes the switch safe. The refinement needs `FifoInv` on top of
it: pings aside, what was taken, what is buffered and what is under way are
consecutive stretches of what was sent. `PingsAnswered` stays with TLC.

## 7. FtUpload

State: the read jobs (Map entry, file number, offset, active), what the message
loop awaits (the next message or a pump, at its read or at its pause), the queue
`_msgs` that a timer flushes, the channel in both directions, and the host's
write jobs with the blocks of every file. A message sent with `sendMessage`
overtakes `_msgs`, as in the code.

Handlers: `LoopConfirm`, `LoopSkip`, `LoopAsk`, `LoopError`, `LoopDone` are
`handleFileResponse` by message; `PumpRead` and `PumpResume` the two awaits of
`pumpUploadBlocks`; `SendFiles`, `SendNothing`, `CancelJob`, `ConfirmOverrideFile`
and `Close` the bridge calls. `HostDigest` answers in each of the host's ways,
resume included.

`HostFilesWhole`: a file of a job the host closed has every block once and in
order unless it was there before or failed. `BlocksAwaitConfirm`: no block of a
file the host has not asked for, on the way or queued. `CancelStopsUpload`: at
most the one block whose read was under way follows a cancel. `UploadSettles`:
again and again every started upload has ended, was cancelled, or stands on an
overwrite question. Fairness: timers, reads, the loop's poll, and the host
working off what it receives.

The empty file in the middle of the folder and the file of two blocks are the
cases the pump distinguishes (nothing to send, more to send, next file, last
file); a resume of one block starts a file at its end or in its middle.

Proved in `FtUploadProofs`, for any jobs, files, sizes and answers, from
`FtUploadAssumption` (every job has a file): `HostFilesAlwaysWhole`,
`BlocksAlwaysAwaitConfirm`, `CancelAlwaysStops`. All three follow from
`UploadsInOrder` (`Spec => []UploadInv`). The argument of `UploadInv` is a token
per job: a digest or Done on its way to the host, the host's answer on its way
back, or the pump. There is at most one of them (`Tokens`, `Sole`), it is about the
current file, and nothing of the job follows it in the queues (`Sorted`, `Across`).
`Sent` is what makes files whole: for every job the host works on or will, each
file before the current one is covered, that is, the host's copy and the blocks
under way together are the file's blocks in order, and the current one as far as
it was read or is to be read. Done is sent when the last file is covered and comes
behind every block, so at its arrival the copies are complete. What makes the
invariant delicate is the
link: after a loss, what is still in `_msgs` will never arrive, so coverage is
claimed then only for a Done that was already sent; and a cancel that overtakes
the queue may make the host forget a job whose blocks are still to come, which is
why coverage is claimed only of jobs that are alive at the host. The queues are
treated as sets wherever order does not matter; one lemma per kind of step
(`FlowDigest`, `FlowDone`, `FlowPump`, `FlowBlock`, `FlowStart`, `FlowTaken`,
`FlowAnswer`, `FlowWrite`, `FlowEnd`, `FlowSkip`, `FlowKept`, `FlowLost`) says what it does to
the flow, and one lemma per action applies it. `UploadSettles` stays with TLC.

## 8. FtDownload

State: the download queue with its flag, open dialogs, write jobs with the place
each block went to (disk, streamed zip, `fileChunks`, `chunks`), what was saved,
the ends that were pushed; the loop's await (`appendBlock`, `finalizeDownload`);
the host's read jobs. `HostReadFails` is the host's error for one file, of which it
leaves out the rest and goes on with the next, up to Done; the web side has dropped
the job at the error. A file without blocks is taken as readable. Requests (remove, create, rename) are here because their
answers share `handleDone` and `handleError`.

`SavedFilesWhole`: a closed file has every block of the host once and in order,
whichever place they were collected in. `DoneMeansSaved`: Flutter hears of an end
only after the file was closed, unless the download was cancelled, its session
closed, or a file of it refused by the host, whose Done comes all the same
(`refused`). `DownloadSettles`: the queue goes on behind an aborted or failing
dialog, and every download and request ends. Fairness: as above, and the user
closes a modal dialog. The run lets each dialog end in the ways that differ for its
kind (`Dialogs`): in a target or unsupported for the folder, in a target or aborted
for the file.

Proved in `FtDownloadProofs`, for any downloads, requests, files and blocks, from
`FtDownloadAssumption` (ids are distinct, a download that is no folder has one
file): `SavedFilesAlwaysWhole` and `DoneAlwaysMeansSaved`, both from
`DownloadsInOrder` (`Spec => []DownloadInv`). The host speaks of a download in the
order of `Rank`: the listing, the blocks by number, Done. `DownloadInv` says that
this order is kept on the way (`Sorted`, `Reads`), that a download is in the queue,
in its dialog or asked for at most once (`Distinct`, `Turns`, `Sole`), and that
nothing has come of it before (`Waits`). `Flows` is what makes files whole: of a
download with a job and no reported error, whatever is on its way is next to what
the loop has received, follows a block that is on its way too, or comes behind an
error that will end the job first (`Fault`); so there is no gap, and Done finds
all blocks stored or no job. `Stores` is why the place
matters: the listing comes before the first block and the dialog before both, so
all blocks of a download lie in one place, and what `finalizeDownload` selects
(`BlksAt`) is the whole store (`BlksOfAll`, from the lemmas on counting the
positions). After a loss of the link the host's reads are no longer claimed to
follow, since nothing of them arrives. `Lives` gives `DoneMeansSaved`: a Done that
may still come belongs to a download that has its job, so that it is finalized,
unless the user cancelled it, the host refused a file of it, or the session was
closed. `DownloadSettles` stays
with TLC.

## 9. RdInput

A bridge call is what Flutter's `InputModel` makes of a key event; `InputKey` is
`inputKey` with `mapKey` and `_lastKeyDownEvent`; `Replay` is what
`legacy_keyboard_mode` makes of one KeyEvent in a state of the host's keyboard, for
each platform (`SyncModifiers` with the AltGr exception of `fix_modifier`,
`ToRelease` for the modifiers it presses itself), and `HostKey` replays the next one.
Keys are characters, the control keys of `KEY_MAP` (`Special`: Return, arrows,
function keys) and modifiers, of which the two sides are different keys of one
`Kind`. Modes, platform and browser are fixed in `Init` or by constants. A keyboard
repeats the key that went down last, and goes on with the one before if that was
a modifier.

What the user did is recorded apart from what `InputModel` thinks: `held` is the
keys under the user's fingers, `strokes` the keys struck with the Control and Alt
then held. `hidden` are the modifiers `InputModel` was made to forget, by the
pointer leaving the page or by the other side of a pair going up; `lost` the control
keys and modifiers whose up event went out under the `chr` of a character that
had just gone down.

`TypedInOrder`: what is typed is what was struck, in order. `ShortcutsArrive` (legacy
mode): a key is typed with Control exactly when the user held it, but while it is
`hidden` and but for AltGr at a Windows host. `KeysReleased`: what is down at the
host is held or `lost`; no character ever stays down, no modifier in map mode, only
modifiers at a Linux host. Five calls are a modifier, a control key and a
character with two releases, or a focus change between two strokes.

Proved in `RdInputProofs`, for any keys and any number of calls, from
`RdInputAssumption` (keys of different sorts have different names):
`TypedAlwaysInOrder`, `ShortcutsAlwaysArrive` and `KeysAlwaysReleased`. None of the
three is inductive: what the host has pressed and typed depends on the events it
has still to replay. `InputInv` says that there is a run of host states, one per
event on the wire, from the host's present state to a last state, each the `Replay`
of the one before (`Replays`); in every one of them what is typed agrees with what
was struck (`Fits`); and in the last one the two keyboards are in step (`InStep`):
as many keys typed as struck, nothing down that is neither held nor lost, no
character down that is not held, and in map mode no modifier down while an up event
may be sent under the `chr` of another key. `UserInv` ties the histories to the code:
`InputModel` has the modifiers held but the hidden ones, and a character is
remembered as the last key down exactly while an up event would be lost (`typing`).
A new event lengthens the run by one state (`ReplaysMore`), a focus change by
several (`ReplaysBatch`), and `HostKey` drops the first (`ReplaysTail`), so no
induction over the wire is needed. In map mode the substituted up event does no
harm to modifiers: the down event of the character made the host let go of all of
them, since it listed none.

The first two theorems assume `Desktop`. In a mobile browser `TypedInOrder` is false
(section 13); TLC confirms it, and confirms `InputInv`, whose clauses about typing
are conditional on `Desktop`, for both browsers. `KeysAlwaysReleased` needs no such
hypothesis.

## 10. RdVideo

Decoders (one per `start()`) load, replace, answer and close independently of the
connection; `count` is the counter of `handleVideoFrame`; the host sends a message,
waits for an acknowledgement of any message or its time-out, and makes a key
frame for a new connection or on refresh. `wire` is what is on its way or in `_buf`:
`Restart` keeps any first part of it, since `close()` leaves the buffer and the old
loop goes on with it, until `Connected` sets the new `_ws` and only a `next()` that
had begun may bring one more message.

`AcksAreEarned`: on this socket there are no more acknowledgements than messages
taken since the last start, kept ones included. (Such a message was sent on the
old socket; its acknowledgement may go out on the new one.) It and `DrawnInOrder`
hold unless a restart came while a decoder was loading (`overlap`); `AckFollows` and
`PictureFollows` say that what a decoder was given of this socket is acknowledged
and drawn. Fairness: worker, event loop, a connection attempt that succeeds, and
a host that captures. Two starts give an old and a new decoder; two packets and
three messages give a counter that runs past and a callback that is late.

Proved in `RdVideoProofs`, for any number of starts, messages and packets, from
`RdVideoAssumption` (at least one start, at least one packet in a message):
`AcksAlwaysEarned` and `AlwaysDrawnInOrder`. `VideoInv` describes the decoders' queues: the packets of a
message stay together, as many as the counter has left to see (`Runs`), no message
is in two queues, and acknowledgements are at most the messages that are over.
Without an overlap there is one working decoder (`Single`), what it works on
was taken since the last start (`SinceStart`) and follows all that was drawn
(`Forward`); what is on the wire or kept is in the order it was sent (`Numbered`).
`AckFollows` and `PictureFollows` stay with TLC.

## 11. PeerOptions

The peer's record in localStorage, the copy of each of two sessions, messages to
the host, its login responses and its options. A record is the set of fields that
are set; the image quality is left out. The host takes a login request
(`HostTakesLogin`), keeps its options unless it has none, and authorizes the
connection, answers "Wrong Password", or waits for a click or a second factor
(`HostAuthorizes`); until it has authorized, it drops option messages
(`HostTakesOption`). After "Wrong Password" the user may log in again; the connection
survives it only with a file transfer in front, to which the error is charged.

`HostFollowsOptions`: an authorized host has the options the session shows, but for
`touched` (set without being saved) and `missed`, those whose last message
found the host waiting: the session has saved them and the host never hears of them.
`PasswordByConsent`; `UpdatesKept`, the last only as long as
no session wrote back a copy that was out of date (`stale`). Five bridge calls
cover two sessions started, one change each and a login.

Proved in `PeerOptionsProofs`, for any number of bridge calls: `HostAlwaysFollows`,
`PasswordAlwaysByConsent`, `UpdatesAlwaysKept`. `HostFollowsOptions` speaks of an
empty wire; the invariant `Follows` says that there is a `Trail`: the session's options
before each message on the wire and now, each message leading from one to the next
(`Carries`), the first of them agreeing with what the host has or, while it
waits, with what it will apply (`Base`). `Ordered` puts a login first, since the
host drops what comes before it. `Consented` is stronger than `PasswordByConsent`:
without consent nothing that could be written back, no copy and no flag of a
session, says "remember".

## 12. Wire, Protobuf, MessageProto, RendezvousProto

`Protobuf` is the code generator's scheme: what `fromPartial`, `encode`, `decode` and
the enum converters do for a type given as two lists, the fields `encode` writes and those `decode` reads. `MessageProto` and
`RendezvousProto` are the types, one definition per message and enum, the two
lists taken from the two functions separately, so that a number, wire type or
reader that differs between them would show. `Wire` sends one message of any type
and decodes it element by element. The host's encoder may differ in one way:
order, unpacked numbers, or an element this schema does not know.

Setting one or two fields is enough: `decode` handles elements one by one and
fields interact only through order. Values are small integers: the default, an
ordinary value, and for 64-bit fields both sides of `MAX_SAFE_INTEGER` and, where
they are signed, of `MIN_SAFE_INTEGER` (scaled down), the two tests of
`longToNumber`; a sub-message is one value, its own type being checked by itself.
`RoundTrip`: what comes out is what went in, and `decode` throws exactly for an
unsafe number. `KeysArrive` runs every entry of `KEY_MAP` through `mapKey` and the `ControlKey`
enum.

In the map a type names its whole generated object. Its `toJSON` and `fromJSON`,
which the viewer never calls, lie in those lines and are not modelled.

## 13. Departures the models have

The properties above hold with the exceptions their definitions name. What lies
behind the exceptions, each a behaviour of the code that the models contain:

- **Overwrite question** (`ft_connection.ts:586`): `confirmOverrideFile` sends a
  confirmation the host's write job ignores and marks the job active; no pump
  starts and no next file is asked for. The upload stands after either answer.
- **Two ways out of a page** (`model.dart:657`): back and `ft-session-ended`, each
  awaiting its close and then popping the top route, together also pop the
  remote desktop's page.
- **Popup menu** (`model.dart:660`): a transfer that ends while a menu is open pops
  the menu, and its page stays without session and handler.
- **Events of closed sessions** (`web_model.dart:179`): a transfer closed while it
  connects goes on connecting, and its events reach the only handler left, the
  remote desktop's.
- **ACK for an unusable id** (`init.js:53`): `connect()` opens nothing for an id that
  is no UUID, and the ACK is positive all the same.
- **Failure before Flutter** (`errors.js:46`): `showFatalError` throws after its
  VIEWER_ERROR; the popup stays open and the parent gets no ACK.
- **Remote desktop fails behind a transfer** (`errors.js:37`): its loop ends and the
  ingress handler goes, its socket stays open, and pings go unanswered until the
  host closes the connection.
- **File refused by the host** (`ft_connection.ts:307`): the download is dropped with
  an error, and `job_done` follows for it when the host comes to its end.
- **Option while the host waits** (`connection.rs:1981`): saved by the viewer, dropped by
  the host; and a second login without options leaves those of the first.
- **Frame of the old socket** (`websock.ts:131`): acknowledged on the new one.
- **Map mode** (`bridge.dart:397`): keys carry no modifiers, and a host that syncs its
  modifiers to the event's releases Control before it types.
- **Lost up event** (`rd_connection.ts:273`): the up event of a control key or modifier
  that follows the down event of a character is sent under that character's `chr`.
  The key stays down at a Windows or macOS host, a modifier of the legacy mode at any.
- **Forgotten Control** (`input_model.dart:818`): after the pointer left the page, or
  one of two Control keys went up, the other is held and keys go out without it.
- **Mobile browser** (`common.ts:53`): a character outside a to z goes as unicode on
  down and on up, and is typed twice. The run is for a desktop browser.
- **Key frame before the decoder** (`rd_video.ts:29`): it is dropped, neither
  acknowledged nor asked for again, and what follows cannot be decoded until a
  refresh.
- **Restart while a decoder loads** (`rd_video.ts:7`): the loaded decoder replaces
  another that nobody closes.
- **Stale record** (`session_base.ts:172`): a session writes its whole copy of the
  peer's record over what was stored since.
- **Two windows** (`init.js:47`): server and key are stored in localStorage, which all
  viewer windows of the origin share. The models have one window.
- **Options**: privacy mode is sent and never saved; leaving view-only turns
  lock-after-session-end on at the host.
- **Cancel** overtakes messages of its job in `_msgs`, so the host may open a write
  job that nobody ends; a late Done of a cancelled download is passed on.
- **Silent start** (`session_connect.ts:196`): a rendezvous message that is neither
  refusal nor relay offer ends the `start()` of a remote desktop without a
  message. The code only logs it and no document says more.

## 14. Not modelled

- Tables: `LANGS` of `gen_js_from_hbb.ts`, some 27,900 lines of translations.
- Parsing of configuration and of version strings; the plan of a picked folder
  (names, hidden files): functions of their input, called once.
- Audio, mouse, clipboard and cursor messages, image quality and codec
  preference: passed on, with no state that a later step of the models reads.
- The host's release of keys that were down for minutes, its translate mode.
- The JSON forms of messages, which nothing in the viewer uses.
- Drawing (`video_draw.js`, `yuv-canvas`), and what the pages show.
- `addJob` and `resumeJob`, which the web build never reaches; compression and
  progress figures of jobs.
- libsodium and WebCrypto (assumed correct), upstream client and native runners
  (not part of the web build), the host beyond its half of each protocol.

## 15. What is proved and what is left

| Module | Theorems | Only model-checked |
| --- | --- | --- |
| `Sessions` | all safety and action properties, the refinement of `SessionRegistry` | `FtConnectSettles`, `LostFtEnds`, `LostRdNoticed` (liveness); `FatalErrorsReported` (violated) |
| `Viewer` | `SessionHasPage`, `OneClosingSparesRd`, `EventsKeyedBySession` | `EndedPageLeaves` (liveness) |
| `ViewerBootstrap` | `OneSessionPerLoad` | `TakenOnIsAnswered`, `AckedSessionOpens` (liveness) |
| `Websock` | `CountersAgree`, the two refinements of `Channel` | `PingsAnswered` (liveness) |
| `FtUpload` | `HostFilesWhole`, `BlocksAwaitConfirm`, `CancelStopsUpload` | `UploadSettles` (liveness) |
| `FtDownload` | `SavedFilesWhole`, `DoneMeansSaved` | `DownloadSettles` (liveness) |
| `RdVideo` | `AcksAreEarned`, `DrawnInOrder` | `AckFollows`, `PictureFollows` (liveness) |
| `PeerOptions` | `HostFollowsOptions`, `PasswordByConsent`, `UpdatesKept` | |
| `RdInput` | `TypedInOrder` and `ShortcutsArrive` (desktop browser), `KeysReleased` | |
| `Wire` | | `RoundTrip`, `KeysArrive` |

The theorems hold for all values of the constants under the named assumptions of
the modules. The assumptions are about the constants only (ids and names differ, a
bound is a number); what the models themselves leave out, section 14 and the heads
of the modules say, and the exceptions of section 13 are in the statements. The
two theorems about typing have the hypothesis `Desktop` in their statement. Liveness is beyond the prover. `Wire`
decodes with recursive operators over the generated tables; what it says is about
those tables, which TLC goes through completely. The inductive invariants were
checked by TLC on small instances before they were proved.
