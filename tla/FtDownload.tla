----------------------------- MODULE FtDownload -----------------------------
(***************************************************************************)
(* Downloads of one file-transfer session: the download queue with its     *)
(* save dialogs, the write jobs of ft_jobs.ts with the four places a block *)
(* can go to, finalizeDownload, and the requests (remove, create, rename)  *)
(* whose answers share handleDone and handleError; the host's read jobs.   *)
(*                                                                         *)
(* Dialogs, writes and decompression are awaits: bridge calls run there.   *)
(* The message loop awaits its handlers, the queue awaits only its dialog. *)
(***************************************************************************)
EXTENDS Naturals, Sequences, FiniteSets

CONSTANTS
  Job,      \* ids of downloads
  Request,  \* ids of remove_file, create_dir, rename_file, remove_all_empty_dirs
  Folder,   \* the downloads that are folders
  Blocks,   \* Blocks[j]: the file number of each block of j, in the host's order
  None,
  Dialogs,  \* Dialogs[j]: how the save dialog of j may end
  Failures  \* what may fail: "block", "zip", "save", "host"

ASSUME FtDownloadAssumption ==
  /\ Blocks \in [Job -> Seq(Nat)]
  /\ Folder \subseteq Job
  /\ \A j \in Job \ Folder : \A b \in 1..Len(Blocks[j]) : Blocks[j][b] = 0
  /\ Job \cap Request = {}
  /\ None \notin Job \cup Request
  /\ Dialogs \in [Job -> SUBSET {"target", "abort", "unsupported"}]
  /\ Failures \subseteq {"block", "zip", "save", "host"}

Id == Job \cup Request

VARIABLES
  web,    \* jobs and queue of the web side, see WebState
  loop,   \* what the message loop awaits
  toHost, \* sent and not yet handled by the host
  toWeb,  \* sent by the host and not yet handled by the message loop
  host,   \* host[j]: the next block the host sends of j, 0 without a read job
  link    \* "open", "down" (lost), "ended" (close() was called)

vars == <<web, loop, toHost, toWeb, host, link>>

(* What appendBlock did with a block: the file on disk, the zip being streamed *)
(* to disk, fileChunks, chunks.                                                *)
Stored == [blk : Nat, place : {"disk", "zip", "fileChunks", "chunks"}]

WebState ==
  [queue     : Seq(Job),            \* _downloadQueue
   running   : BOOLEAN,             \* _downloadQueueRunning
   dialogs   : SUBSET Job,          \* save dialogs on the screen
   asked     : SUBSET Id,           \* ids handed to send_files or a request
   writeJobs : SUBSET Job,
   target    : SUBSET Job,          \* jobs with a saveTarget
   listed    : SUBSET Job,          \* jobs whose files came from the host's listing
   store     : [Job -> Seq(Stored)],
   broken    : SUBSET Job,          \* zips of which a chunk could not be written
   saved     : [Job -> Seq(Nat)],   \* the blocks in the finished file
   closed    : SUBSET Job,          \* finished files
   cancelled : SUBSET Id,
   refused   : SUBSET Id,           \* history: handleError took an error of the host
   done      : SUBSET Id,           \* job_done was pushed
   failed    : SUBSET Id]           \* job_error was pushed

Message == [kind : {"send", "cancel", "request", "dir", "block", "done", "error"},
            job : Id, blk : Nat]

Msg(k, j, b) == [kind |-> k, job |-> j, blk |-> b]

Awaiting == [stage : {"append", "finalize"}, job : Job, blk : Nat]
NextMsg == [stage |-> "next", job |-> None, blk |-> 0]
LoopOver == [stage |-> "over", job |-> None, blk |-> 0]

TypeOK ==
  /\ web \in WebState
  /\ loop \in Awaiting \cup {NextMsg, LoopOver}
  /\ toHost \in Seq(Message) /\ toWeb \in Seq(Message)
  /\ host \in [Job -> Nat]
  /\ link \in {"open", "down", "ended"}

Init ==
  /\ web = [queue |-> << >>, running |-> FALSE, dialogs |-> {}, asked |-> {},
            writeJobs |-> {}, target |-> {}, listed |-> {},
            store |-> [j \in Job |-> << >>], broken |-> {},
            saved |-> [j \in Job |-> << >>], closed |-> {},
            cancelled |-> {}, refused |-> {}, done |-> {}, failed |-> {}]
  /\ loop = NextMsg
  /\ toHost = << >> /\ toWeb = << >>
  /\ host = [j \in Job |-> 0]
  /\ link = "open"

-----------------------------------------------------------------------------
(* The synchronous functions, over a value W of web. *)

RemoveJob(W, j) == [W EXCEPT !.writeJobs = @ \ {j}]

JobDone(W, j) == [W EXCEPT !.done = @ \cup {j}]

PushJobError(W, J) == [W EXCEPT !.failed = @ \cup J]

(* createDownloadJob and the dialog: startRemoteDownload to its await. *)
StartRemoteDownload(W, j) ==
  [W EXCEPT !.writeJobs = @ \cup {j}, !.dialogs = @ \cup {j}]

(* One round of the loop in processDownloadQueue, to its await or its end. *)
NextInQueue(W) ==
  IF W.queue = << >> THEN [W EXCEPT !.running = FALSE]
  ELSE StartRemoteDownload([W EXCEPT !.queue = Tail(@), !.running = TRUE], Head(W.queue))

ProcessDownloadQueue(W) == IF W.running THEN W ELSE NextInQueue(W)

(* Where appendBlock puts a block. *)
Place(W, j) ==
  IF j \in W.target THEN IF j \in Folder THEN "zip" ELSE "disk"
  ELSE IF j \in Folder \/ j \in W.listed THEN "fileChunks" ELSE "chunks"

FileOf(j, b) == Blocks[j][b]

(* concatChunks: the blocks at the positions I of s, in the order of s. *)
BlksAt(s, I) ==
  [n \in 1..Cardinality(I) |->
     s[CHOOSE i \in I : Cardinality({k \in I : k <= i}) = n].blk]

(* What finalizeDownload writes: the zip of a folder, streamed or made of all  *)
(* files; the file streamed to disk; or the chunks of the last file, else the  *)
(* loose ones.                                                                 *)
FinalBlocks(W, j) ==
  LET s == W.store[j]
      At(p) == {i \in DOMAIN s : s[i].place = p}
      last == FileOf(j, s[Len(s)].blk)
  IN
  BlksAt(s, IF (j \in Folder /\ j \in W.listed) \/ At("disk") # {} THEN DOMAIN s
            ELSE IF At("fileChunks") # {}
                 THEN {i \in At("fileChunks") : FileOf(j, s[i].blk) = last}
                 ELSE At("chunks"))

-----------------------------------------------------------------------------
(* Bridge calls. *)

Send(m) == toHost' = IF link = "open" THEN Append(toHost, m) ELSE toHost

SendFiles(j) ==
  /\ link # "ended"
  /\ j \notin web.asked
  /\ web' = ProcessDownloadQueue([web EXCEPT !.asked = @ \cup {j}, !.queue = Append(@, j)])
  /\ UNCHANGED <<loop, toHost, toWeb, host, link>>

(* The queue and the dialog know nothing of a cancel. *)
CancelJob(j) ==
  /\ link # "ended"
  /\ j \in web.asked
  /\ j \notin web.cancelled
  /\ web' = [RemoveJob(web, j) EXCEPT !.cancelled = @ \cup {j}]
  /\ Send(Msg("cancel", j, 0))
  /\ UNCHANGED <<loop, toWeb, host, link>>

(* remove_file, create_dir, rename_file, remove_all_empty_dirs on the host. *)
RemoteRequest(r) ==
  /\ link # "ended"
  /\ r \notin web.asked
  /\ web' = [web EXCEPT !.asked = @ \cup {r}]
  /\ Send(Msg("request", r, 0))
  /\ UNCHANGED <<loop, toWeb, host, link>>

(* The same on the local side, which a browser does not have. *)
LocalRequest(r) ==
  /\ link # "ended"
  /\ r \notin web.asked
  /\ web' = JobDone([web EXCEPT !.asked = @ \cup {r}], r)
  /\ UNCHANGED <<loop, toHost, toWeb, host, link>>

(* Fault: an aborted dialog ends the queue's loop. *)
DialogClosedStopsQueue(j, how) ==
  LET W == [web EXCEPT !.dialogs = @ \ {j}] IN
  /\ how \in Dialogs[j]
  /\ j \in web.dialogs
  /\ IF how = "abort"
     THEN /\ web' = [PushJobError(RemoveJob(W, j), {j}) EXCEPT !.running = FALSE]
          /\ UNCHANGED toHost
     ELSE /\ web' = NextInQueue(IF how = "target" THEN [W EXCEPT !.target = @ \cup {j}] ELSE W)
          /\ Send(Msg("send", j, 0))
  /\ UNCHANGED <<loop, toWeb, host, link>>

(* The save dialog of j is over: the download is asked for, or given up, and   *)
(* the queue goes on.  Nothing asks whether j or the session is still wanted.  *)
DialogClosed(j, how) ==
  LET W == [web EXCEPT !.dialogs = @ \ {j}] IN
  /\ how \in Dialogs[j]
  /\ j \in web.dialogs
  /\ IF how = "abort"
     THEN /\ web' = NextInQueue(PushJobError(RemoveJob(W, j), {j}))
          /\ UNCHANGED toHost
     ELSE /\ web' = NextInQueue(IF how = "target" THEN [W EXCEPT !.target = @ \cup {j}] ELSE W)
          /\ Send(Msg("send", j, 0))
  /\ UNCHANGED <<loop, toWeb, host, link>>

(* What close() leaves of the socket: what was received by then. *)
CloseSocket ==
  /\ link' = "ended"
  /\ \E n \in 0..Len(toWeb) : toWeb' = SubSeq(toWeb, 1, n)

(* close(): the jobs are dropped, the queue and its dialog stay.  The host's   *)
(* jobs end with the connection, so the cancels need no message here.          *)
Close ==
  /\ link # "ended"
  /\ web' = [web EXCEPT !.writeJobs = {}]
  /\ toHost' = << >>
  /\ CloseSocket
  /\ UNCHANGED <<loop, host>>

-----------------------------------------------------------------------------
(* The message loop. *)

Dequeue(kind) ==
  /\ loop = NextMsg
  /\ toWeb # << >>
  /\ Head(toWeb).kind = kind
  /\ toWeb' = Tail(toWeb)
  /\ UNCHANGED <<toHost, host, link>>

LoopDir ==
  LET j == Head(toWeb).job IN
  /\ Dequeue("dir")
  /\ web' = IF j \in web.writeJobs /\ Blocks[j] # << >>
            THEN [web EXCEPT !.listed = @ \cup {j}] ELSE web
  /\ UNCHANGED loop

(* handleBlock, to the await of appendBlock. *)
LoopBlock ==
  LET m == Head(toWeb) IN
  /\ Dequeue("block")
  /\ loop' = IF m.job \in web.writeJobs
             THEN [stage |-> "append", job |-> m.job, blk |-> m.blk] ELSE NextMsg
  /\ UNCHANGED web

(* appendBlock is over.  In the zip the block is only handed to a chain of     *)
(* writes; one that fails is remembered for the end.                           *)
AppendDone ==
  LET j == loop.job
      p == Place(web, j)
      W == [web EXCEPT !.store[j] = Append(@, [blk |-> loop.blk, place |-> p])]
  IN
  /\ loop.stage = "append"
  /\ \/ web' = W
     \/ /\ "zip" \in Failures
        /\ p = "zip"
        /\ web' = [W EXCEPT !.broken = @ \cup {j}]
  /\ loop' = NextMsg
  /\ UNCHANGED <<toHost, toWeb, host, link>>

(* Fault: the exception is only logged. *)
AppendFailsSilently ==
  /\ "block" \in Failures
  /\ loop.stage = "append"
  /\ loop' = NextMsg
  /\ UNCHANGED <<web, toHost, toWeb, host, link>>

(* A block that cannot be decompressed or written: the job goes on without it. *)
AppendFails ==
  /\ "block" \in Failures
  /\ loop.stage = "append"
  /\ web' = PushJobError(web, {loop.job})
  /\ loop' = NextMsg
  /\ UNCHANGED <<toHost, toWeb, host, link>>

(* handleDone: a download is finalized; for anything else it is the answer. *)
LoopDone ==
  LET j == Head(toWeb).job IN
  /\ Dequeue("done")
  /\ IF j \in web.writeJobs
     THEN /\ loop' = [stage |-> "finalize", job |-> j, blk |-> 0]
          /\ UNCHANGED web
     ELSE /\ web' = JobDone(web, j)
          /\ UNCHANGED loop

FinalizeDone ==
  LET j == loop.job IN
  /\ loop.stage = "finalize"
  /\ j \notin web.broken
  /\ web' = JobDone([RemoveJob(web, j) EXCEPT !.saved[j] = FinalBlocks(web, j),
                                              !.closed = @ \cup {j}], j)
  /\ loop' = NextMsg
  /\ UNCHANGED <<toHost, toWeb, host, link>>

(* Fault: the catch falls through to the success path. *)
FinalizeFailsThrough ==
  LET j == loop.job IN
  /\ loop.stage = "finalize"
  /\ j \in web.broken \/ "save" \in Failures
  /\ web' = JobDone(PushJobError(RemoveJob(web, j), {j}), j)
  /\ loop' = NextMsg
  /\ UNCHANGED <<toHost, toWeb, host, link>>

(* The second save dialog is aborted, or the file cannot be written. *)
FinalizeFails ==
  LET j == loop.job IN
  /\ loop.stage = "finalize"
  /\ j \in web.broken \/ "save" \in Failures
  /\ web' = PushJobError(RemoveJob(web, j), {j})
  /\ loop' = NextMsg
  /\ UNCHANGED <<toHost, toWeb, host, link>>

(* handleError: the job is dropped although the host may go on with it. *)
LoopError ==
  LET j == Head(toWeb).job IN
  /\ Dequeue("error")
  /\ web' = [PushJobError(RemoveJob(web, j), {j}) EXCEPT !.refused = @ \cup {j}]
  /\ UNCHANGED loop

(* next() rejects: the jobs fail and the session ends, unless it has ended. *)
LoopRejected ==
  /\ link # "open"
  /\ loop = NextMsg
  /\ toWeb = << >>
  /\ loop' = LoopOver
  /\ IF link = "ended" THEN UNCHANGED <<web, toWeb, link>>
     ELSE /\ web' = [PushJobError(web, web.writeJobs) EXCEPT !.writeJobs = {}]
          /\ CloseSocket
  /\ UNCHANGED <<toHost, host>>

SocketLost ==
  /\ link = "open"
  /\ link' = "down"
  /\ \E n \in 0..Len(toWeb) : toWeb' = SubSeq(toWeb, 1, n)
  /\ toHost' = << >>
  /\ UNCHANGED <<web, loop, host>>

-----------------------------------------------------------------------------
(* The host. *)

HostTakes(kind, j) ==
  /\ link = "open"
  /\ toHost # << >>
  /\ Head(toHost) = Msg(kind, j, 0)
  /\ toHost' = Tail(toHost)
  /\ UNCHANGED <<web, loop, link>>

(* The listing at once, the blocks by a timer; or the path cannot be read. *)
HostSend(j) ==
  /\ HostTakes("send", j)
  /\ \/ /\ host' = [host EXCEPT ![j] = 1]
        /\ toWeb' = Append(toWeb, Msg("dir", j, 0))
     \/ /\ "host" \in Failures
        /\ toWeb' = Append(toWeb, Msg("error", j, 0))
        /\ UNCHANGED host

HostReads(j) ==
  /\ link = "open"
  /\ host[j] > 0
  /\ IF host[j] <= Len(Blocks[j])
     THEN /\ toWeb' = Append(toWeb, Msg("block", j, host[j]))
          /\ host' = [host EXCEPT ![j] = @ + 1]
     ELSE /\ toWeb' = Append(toWeb, Msg("done", j, 0))
          /\ host' = [host EXCEPT ![j] = 0]
  /\ UNCHANGED <<web, loop, toHost, link>>

(* A file cannot be opened, or a read of it fails: the host says so, leaves    *)
(* the rest of the file out and goes on with the next one, up to Done.         *)
HostReadFails(j) ==
  /\ link = "open"
  /\ "host" \in Failures
  /\ host[j] \in 1..Len(Blocks[j])
  /\ toWeb' = Append(toWeb, Msg("error", j, host[j]))
  /\ \E c \in (host[j] + 1)..(Len(Blocks[j]) + 1) :
       /\ \A b \in host[j]..(c - 1) : FileOf(j, b) = FileOf(j, host[j])
       /\ c <= Len(Blocks[j]) => FileOf(j, c) # FileOf(j, host[j])
       /\ host' = [host EXCEPT ![j] = c]
  /\ UNCHANGED <<web, loop, toHost, link>>

HostCancel(j) ==
  /\ HostTakes("cancel", j)
  /\ host' = [host EXCEPT ![j] = 0]
  /\ UNCHANGED toWeb

HostAnswers(r) ==
  /\ HostTakes("request", r)
  /\ \/ toWeb' = Append(toWeb, Msg("done", r, 0))
     \/ "host" \in Failures /\ toWeb' = Append(toWeb, Msg("error", r, 0))
  /\ UNCHANGED host

-----------------------------------------------------------------------------
HostStep ==
  \/ \E j \in Job : HostSend(j) \/ HostReads(j) \/ HostReadFails(j) \/ HostCancel(j)
  \/ \E r \in Request : HostAnswers(r)

LoopStep ==
  \/ LoopDir \/ LoopBlock \/ LoopDone \/ LoopError \/ LoopRejected
  \/ AppendDone \/ AppendFails \/ FinalizeDone \/ FinalizeFails

DialogStep == \E j \in Job : \E how \in Dialogs[j] : DialogClosed(j, how)

Next ==
  \/ \E j \in Job : SendFiles(j) \/ CancelJob(j)
  \/ \E r \in Request : RemoteRequest(r) \/ LocalRequest(r)
  \/ DialogStep
  \/ Close
  \/ LoopStep
  \/ SocketLost
  \/ HostStep

Spec == Init /\ [][Next]_vars

-----------------------------------------------------------------------------
(* Safety *)

(* A finished download holds every block of the host once and in order, in     *)
(* whichever of the four places they were collected and however many downloads *)
(* ran beside it, unless job_error said before that a block was lost.  The     *)
(* state has its type.                                                         *)
SavedFilesWhole ==
  /\ TypeOK
  /\ \A j \in web.closed \ web.failed : web.saved[j] = [b \in 1..Len(Blocks[j]) |-> b]

(* job_done is pushed for a download only when its file was closed on disk.    *)
(* The exceptions, whose late Done is passed on although nothing was saved: a  *)
(* cancelled job, a closed session, and a job that was dropped at the host's   *)
(* error for one of its files, after which the host goes on to Done.           *)
DoneMeansSaved ==
  \A j \in Job : j \in web.done =>
    j \in web.closed \/ j \in web.cancelled \/ j \in web.refused \/ link = "ended"

-----------------------------------------------------------------------------
(* Liveness *)

(* The user closes a dialog that blocks the page, awaited writes come to an    *)
(* end, the loop's poll finds a message, and the host works off its jobs.      *)
Fairness ==
  /\ WF_vars(DialogStep)
  /\ WF_vars(LoopStep)
  /\ WF_vars(HostStep)

FairSpec == Spec /\ Fairness

(* Every download and every request comes to an end that Flutter hears of, as  *)
(* long as the session lives, also behind an aborted dialog or a failed one.   *)
(* What was asked stays asked and what ended stays ended, so it is enough that *)
(* again and again nothing is left open.                                       *)
DownloadSettles ==
  []<>(web.asked \subseteq web.done \cup web.failed \cup web.cancelled \/ link # "open")

=============================================================================
