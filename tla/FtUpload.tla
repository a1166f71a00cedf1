------------------------------ MODULE FtUpload ------------------------------
(***************************************************************************)
(* Uploads of one file-transfer session: the read jobs of ft_jobs.ts, the  *)
(* block pump and the handlers of ft_connection.ts, the two ways a message *)
(* leaves (the queue _msgs that a timer flushes, and sendMessage, which    *)
(* overtakes it), and the host's write jobs.                               *)
(*                                                                         *)
(* The message loop awaits its handlers, so while the pump sends a file no *)
(* other message of the host is looked at.  Bridge calls and timers run at *)
(* every await.  Files and blocks are counted from 1 and sizes in blocks.  *)
(***************************************************************************)
EXTENDS Naturals, SequencesExt

CONSTANTS
  Job,       \* ids of upload jobs
  Files,     \* Files[j]: the sizes of the files of job j
  None,
  Answers,   \* how the host may answer a digest
  MaxResume, \* bound: blocks of a file a resuming host already has
  Failures   \* what may fail: "read" of a local file, "write" of a block

ASSUME FtUploadAssumption ==
  /\ Files \in [Job -> Seq(Nat)]
  /\ \A j \in Job : Files[j] # << >>
  /\ None \notin Job
  /\ Answers \subseteq {"absent", "same", "different", "error"}
  /\ MaxResume \in Nat
  /\ Failures \subseteq {"read", "write"}

File == UNION {{j} \X (1..Len(Files[j])) : j \in Job}
Size(f) == Files[f[1]][f[2]]

VARIABLES
  web,    \* the jobs of the web side, see WebState
  loop,   \* what the message loop awaits: the next message or the pump
  msgs,   \* _msgs
  toHost, \* sent and not yet handled by the host
  toWeb,  \* sent by the host and not yet handled by the message loop
  host,   \* the host's write jobs, see HostState
  link    \* "open", "down" (lost), "ended" (close() was called)

vars == <<web, loop, msgs, toHost, toWeb, host, link>>

Message ==
  [kind : {"receive", "digest", "block", "done", "cancel", "confirm", "skip", "ask", "error"},
   file : File,
   blk  : Nat]

Msg(k, f, b) == [kind |-> k, file |-> f, blk |-> b]

(* readJobs is the Map's key set; a job object outlives its entry, because the *)
(* pump holds on to it across its awaits.                                      *)
WebState ==
  [readJobs  : SUBSET Job,
   fileNum   : [Job -> Nat \ {0}],
   offset    : [Job -> Nat],         \* blocks read of the current file
   active    : [Job -> BOOLEAN],
   started   : SUBSET Job,           \* ids given to an upload so far
   asked     : SUBSET Job,           \* an overwrite question is on the screen
   answered  : SUBSET Job,           \* one was answered with Skip or OK
   cancelled : SUBSET Job,           \* cancel_job was called
   ended     : SUBSET Job,           \* job_done or job_error was pushed
   late      : [Job -> Nat]]         \* blocks queued for a job without entry

HostState ==
  [writeJobs : SUBSET Job,
   done      : SUBSET Job,           \* ended by WriteDone
   got       : [File -> Seq(Nat)],   \* the blocks in each file
   confirmed : SUBSET File,          \* files it asked for
   skipped   : SUBSET File,          \* files it has already
   failed    : SUBSET File]          \* files a block of which was not written

Pump == [job : Job, stage : {"read", "pause"}]
NoPump == [job |-> None, stage |-> "next"]
LoopOver == [job |-> None, stage |-> "over"]

TypeOK ==
  /\ web \in WebState
  /\ \A j \in Job : <<j, web.fileNum[j]>> \in File
  /\ loop \in Pump \cup {NoPump, LoopOver}
  /\ msgs \in Seq(Message) /\ toHost \in Seq(Message) /\ toWeb \in Seq(Message)
  /\ host \in HostState
  /\ link \in {"open", "down", "ended"}

Init ==
  /\ web = [readJobs |-> {},
            fileNum |-> [j \in Job |-> 1], offset |-> [j \in Job |-> 0],
            active |-> [j \in Job |-> FALSE],
            started |-> {}, asked |-> {}, answered |-> {}, cancelled |-> {},
            ended |-> {}, late |-> [j \in Job |-> 0]]
  /\ loop = NoPump
  /\ msgs = << >> /\ toHost = << >> /\ toWeb = << >>
  /\ host = [writeJobs |-> {}, done |-> {}, got |-> [f \in File |-> << >>],
             confirmed |-> {}, skipped |-> {}, failed |-> {}]
  /\ link = "open"

-----------------------------------------------------------------------------
(* The synchronous functions, over a value W of web. *)

Current(W, j) == <<j, W.fileNum[j]>>

RemoveJob(W, j) == [W EXCEPT !.readJobs = @ \ {j}]

PushEnd(W, J) == [W EXCEPT !.ended = @ \cup J]

CreateUploadJob(W, j) ==
  [W EXCEPT !.readJobs = @ \cup {j}, !.started = @ \cup {j}]

(* Fault: the new file is read from where the last one ended. *)
NextFileKeepsOffset(W, j, n) ==
  [W EXCEPT !.fileNum[j] = n, !.active[j] = FALSE]

NextFile(W, j, n) ==
  [W EXCEPT !.fileNum[j] = n, !.offset[j] = 0, !.active[j] = FALSE]

HasFile(j, n) == n <= Len(Files[j])

(* Fault: the next file is not announced to the host. *)
AdvanceWithoutDigest(W, j, n) ==
  IF HasFile(j, n + 1)
  THEN [web |-> NextFile(W, j, n + 1), out |-> << >>]
  ELSE [web |-> PushEnd(RemoveJob(W, j), {j}), out |-> << >>]

(* advanceUploadAfterFile(j, n): the web side and what it queues. *)
AdvanceUploadAfterFile(W, j, n) ==
  IF HasFile(j, n + 1)
  THEN [web |-> NextFile(W, j, n + 1), out |-> <<Msg("digest", <<j, n + 1>>, 0)>>]
  ELSE [web |-> PushEnd(RemoveJob(W, j), {j}), out |-> << >>]

(* The end of a file inside the pump: only the last one is followed by Done. *)
FinishFile(W, j) ==
  LET n == W.fileNum[j] IN
  IF HasFile(j, n + 1)
  THEN AdvanceUploadAfterFile(W, j, n)
  ELSE [web |-> PushEnd(RemoveJob(W, j), {j}), out |-> <<Msg("done", <<j, n>>, 0)>>]

FailActiveJobs(W) == [PushEnd(W, W.readJobs) EXCEPT !.readJobs = {}]

-----------------------------------------------------------------------------
(* Sending. *)

Send(m) == toHost' = IF link = "open" THEN Append(toHost, m) ELSE toHost

(* One tick of the message pump sends the whole queue. *)
FlushMsgs ==
  /\ link # "ended"
  /\ msgs # << >>
  /\ toHost' = IF link = "open" THEN toHost \o msgs ELSE toHost
  /\ msgs' = << >>
  /\ UNCHANGED <<web, loop, toWeb, host, link>>

-----------------------------------------------------------------------------
(* Bridge calls. *)

(* send_local_files, send_files or send_folder_upload with a picked file. *)
SendFiles(j) ==
  /\ link # "ended"
  /\ j \notin web.started
  /\ web' = CreateUploadJob(web, j)
  /\ msgs' = msgs \o <<Msg("receive", <<j, 1>>, 0), Msg("digest", <<j, 1>>, 0)>>
  /\ UNCHANGED <<loop, toHost, toWeb, host, link>>

(* The same without one: the pick was replaced or taken by another job. *)
SendNothing(j) ==
  /\ link # "ended"
  /\ j \notin web.started
  /\ web' = PushEnd([web EXCEPT !.started = @ \cup {j}], {j})
  /\ UNCHANGED <<loop, msgs, toHost, toWeb, host, link>>

CancelJob(j) ==
  /\ link # "ended"
  /\ j \in web.started
  /\ j \notin web.cancelled
  /\ web' = [RemoveJob(web, j) EXCEPT !.cancelled = @ \cup {j}, !.asked = @ \ {j}]
  /\ Send(Msg("cancel", <<j, 1>>, 0))
  /\ UNCHANGED <<loop, msgs, toWeb, host, link>>

(* The overwrite question answered with OK (overwrite) or Skip. *)
ConfirmOverrideFile(j, overwrite) ==
  /\ link # "ended"
  /\ j \in web.asked
  /\ web' = [web EXCEPT !.asked = @ \ {j}, !.answered = @ \cup {j},
                        !.active[j] = @ \/ (overwrite /\ j \in web.readJobs)]
  /\ Send(Msg(IF overwrite THEN "confirm" ELSE "skip", Current(web, j), 0))
  /\ UNCHANGED <<loop, msgs, toWeb, host, link>>

(* What close() leaves of the socket: no queue, and what was received by then. *)
CloseSocket ==
  /\ msgs' = << >>
  /\ link' = "ended"
  /\ \E n \in 0..Len(toWeb) : toWeb' = SubSeq(toWeb, 1, n)

(* session_close, or the end of the session by an error elsewhere: every job   *)
(* with an entry is cancelled, past the queue.                                 *)
Close ==
  /\ link # "ended"
  /\ web' = [web EXCEPT !.readJobs = {}, !.asked = {}]
  /\ toHost' = IF link = "open"
               THEN toHost \o [i \in 1..Len(SetToSeq(web.readJobs)) |->
                                 Msg("cancel", <<SetToSeq(web.readJobs)[i], 1>>, 0)]
               ELSE toHost
  /\ CloseSocket
  /\ UNCHANGED <<loop, host>>

-----------------------------------------------------------------------------
(* The message loop and the pump it runs. *)

(* What the loop does when a file of job j is over: one turn, queue included. *)
Advance(r) ==
  /\ web' = r.web
  /\ msgs' = msgs \o r.out

Dequeue(kinds) ==
  /\ loop = NoPump
  /\ toWeb # << >>
  /\ Head(toWeb).kind \in kinds
  /\ toWeb' = Tail(toWeb)
  /\ UNCHANGED <<toHost, host, link>>

(* A confirmation starts the pump; an empty file is over without an await. *)
LoopConfirm ==
  LET f == Head(toWeb).file
      j == f[1]
      W == [web EXCEPT !.active[j] = TRUE,
                       !.offset[j] = IF Head(toWeb).blk > 0 THEN Head(toWeb).blk ELSE @]
      pumped == W.offset[j] < Size(Current(W, j))
  IN
  /\ Dequeue({"confirm"})
  /\ IF j \notin web.readJobs THEN UNCHANGED <<web, msgs, loop>>
     ELSE IF pumped
     THEN /\ web' = W
          /\ loop' = [job |-> j, stage |-> "read"]
          /\ UNCHANGED msgs
     ELSE /\ Advance(FinishFile(W, j))
          /\ UNCHANGED loop

(* Fault: the flag skip is overlooked, and the pump started. *)
LoopSkipPumps ==
  LET j == Head(toWeb).file[1] IN
  /\ Dequeue({"skip"})
  /\ IF j \in web.readJobs /\ web.offset[j] < Size(Current(web, j))
     THEN loop' = [job |-> j, stage |-> "read"]
     ELSE UNCHANGED loop
  /\ UNCHANGED <<web, msgs>>

LoopSkip ==
  LET f == Head(toWeb).file
      j == f[1]
  IN
  /\ Dequeue({"skip"})
  /\ IF j \in web.readJobs
     THEN Advance(AdvanceUploadAfterFile(web, j, f[2]))
     ELSE UNCHANGED <<web, msgs>>
  /\ UNCHANGED loop

(* The host's digest: Flutter is asked to ask the user. *)
LoopAsk ==
  LET j == Head(toWeb).file[1] IN
  /\ Dequeue({"ask"})
  /\ web' = IF j \in web.readJobs THEN [web EXCEPT !.asked = @ \cup {j}] ELSE web
  /\ UNCHANGED <<loop, msgs>>

LoopError ==
  LET j == Head(toWeb).file[1] IN
  /\ Dequeue({"error"})
  /\ web' = PushEnd(RemoveJob(web, j), {j})
  /\ UNCHANGED <<loop, msgs>>

(* The echo of Done, ignored while the job has an entry. *)
LoopDone ==
  LET j == Head(toWeb).file[1] IN
  /\ Dequeue({"done"})
  /\ web' = IF j \in web.readJobs THEN web ELSE PushEnd(web, {j})
  /\ UNCHANGED <<loop, msgs>>

(* The slice was read: the job is not looked up again before it is used. *)
PumpRead ==
  LET j == loop.job
      f == Current(web, j)
      b == web.offset[j] + 1
      W == [web EXCEPT !.offset[j] = b,
                       !.late[j] = IF j \in web.readJobs THEN @ ELSE @ + 1]
      block == Msg("block", f, b)
  IN
  /\ loop.stage = "read"
  /\ IF b >= Size(f)
     THEN /\ web' = FinishFile(W, j).web
          /\ msgs' = Append(msgs, block) \o FinishFile(W, j).out
          /\ loop' = NoPump
     ELSE /\ web' = W
          /\ msgs' = Append(msgs, block)
          /\ loop' = [loop EXCEPT !.stage = "pause"]
  /\ UNCHANGED <<toHost, toWeb, host, link>>

(* Fault: the next round goes on with the job it already holds. *)
PumpResumeUnchecked ==
  /\ loop.stage = "pause"
  /\ loop' = [loop EXCEPT !.stage = "read"]
  /\ UNCHANGED <<web, msgs, toHost, toWeb, host, link>>

(* The next round, 1 ms later, looks the job up again. *)
PumpResume ==
  /\ loop.stage = "pause"
  /\ loop' = IF loop.job \in web.readJobs /\ web.active[loop.job]
             THEN [loop EXCEPT !.stage = "read"]
             ELSE NoPump
  /\ UNCHANGED <<web, msgs, toHost, toWeb, host, link>>

(* An exception leaves the loop: unless the session was closed before, every   *)
(* job fails and the session ends.                                             *)
EndLoop ==
  /\ loop' = LoopOver
  /\ IF link = "ended" THEN UNCHANGED <<web, msgs, toWeb, link>>
     ELSE /\ web' = [FailActiveJobs(web) EXCEPT !.asked = {}]
          /\ CloseSocket
  /\ UNCHANGED <<toHost, host>>

PumpReadFails ==
  /\ "read" \in Failures
  /\ loop.stage = "read"
  /\ EndLoop

LoopRejected ==
  /\ link # "open"
  /\ loop = NoPump
  /\ toWeb = << >>
  /\ EndLoop

(* The socket is lost, and with it a part of what was under way. *)
SocketLost ==
  /\ link = "open"
  /\ link' = "down"
  /\ \E n \in 0..Len(toWeb) : toWeb' = SubSeq(toWeb, 1, n)
  /\ toHost' = << >>
  /\ UNCHANGED <<web, loop, msgs, host>>

-----------------------------------------------------------------------------
(* The host. *)

HostTakes(kind, f) ==
  /\ link # "down"
  /\ toHost # << >>
  /\ Head(toHost).kind = kind
  /\ f = Head(toHost).file
  /\ toHost' = Tail(toHost)
  /\ UNCHANGED <<web, loop, msgs, link>>

Known(f) == f[1] \in host.writeJobs

HostReceive(f) ==
  /\ HostTakes("receive", f)
  /\ host' = [host EXCEPT !.writeJobs = @ \cup {f[1]}]
  /\ UNCHANGED toWeb

HostCancel(f) ==
  /\ HostTakes("cancel", f)
  /\ host' = [host EXCEPT !.writeJobs = @ \ {f[1]}]
  /\ UNCHANGED toWeb

Prefix(n) == [b \in 1..n |-> b]

(* CheckDigest: the file is missing, identical, another one.  This host asks   *)
(* for a missing file from block 0; the web side takes any offset_blk, so one  *)
(* that has the first blocks of it is allowed for, up to MaxResume.            *)
HostDigest(f) ==
  /\ HostTakes("digest", f)
  /\ IF ~Known(f) THEN UNCHANGED <<host, toWeb>>
     ELSE \/ /\ "absent" \in Answers
             /\ \E n \in 0..MaxResume :
                  /\ n <= Size(f)
                  /\ host' = [host EXCEPT !.confirmed = @ \cup {f}, !.got[f] = Prefix(n)]
                  /\ toWeb' = Append(toWeb, Msg("confirm", f, n))
          \/ /\ "same" \in Answers
             /\ host' = [host EXCEPT !.skipped = @ \cup {f}]
             /\ toWeb' = Append(toWeb, Msg("skip", f, 0))
          \/ /\ "different" \in Answers
             /\ toWeb' = Append(toWeb, Msg("ask", f, 0))
             /\ UNCHANGED host
          \/ /\ "error" \in Answers
             /\ toWeb' = Append(toWeb, Msg("error", f, 0))
             /\ UNCHANGED host

HostBlock(f) ==
  /\ HostTakes("block", f)
  /\ IF ~Known(f) THEN UNCHANGED <<host, toWeb>>
     ELSE \/ /\ host' = [host EXCEPT !.got[f] = Append(@, Head(toHost).blk)]
             /\ UNCHANGED toWeb
          \/ /\ "write" \in Failures
             /\ host' = [host EXCEPT !.failed = @ \cup {f}]
             /\ toWeb' = Append(toWeb, Msg("error", f, 0))

HostDone(f) ==
  /\ HostTakes("done", f)
  /\ IF ~Known(f) THEN UNCHANGED <<host, toWeb>>
     ELSE /\ host' = [host EXCEPT !.writeJobs = @ \ {f[1]}, !.done = @ \cup {f[1]}]
          /\ toWeb' = Append(toWeb, Msg("done", f, 0))

(* SendConfirm is looked up among the jobs the host reads, not these. *)
HostIgnores(f) ==
  /\ \/ HostTakes("confirm", f)
     \/ HostTakes("skip", f)
  /\ UNCHANGED <<host, toWeb>>

HostStep(f) ==
  \/ HostReceive(f) \/ HostCancel(f) \/ HostDigest(f) \/ HostBlock(f)
  \/ HostDone(f) \/ HostIgnores(f)

-----------------------------------------------------------------------------
LoopStep ==
  \/ LoopConfirm \/ LoopSkip \/ LoopAsk \/ LoopError \/ LoopDone \/ LoopRejected

PumpStep == PumpRead \/ PumpResume

UserStep ==
  \/ \E j \in Job :
       \/ SendFiles(j) \/ SendNothing(j) \/ CancelJob(j)
       \/ \E overwrite \in BOOLEAN : ConfirmOverrideFile(j, overwrite)
  \/ Close

Next ==
  \/ UserStep
  \/ FlushMsgs
  \/ LoopStep
  \/ PumpStep \/ PumpReadFails
  \/ SocketLost
  \/ \E f \in File : HostStep(f)

Spec == Init /\ [][Next]_vars

-----------------------------------------------------------------------------
(* Safety *)

(* A file of a job the host closed is the file the user picked: every block    *)
(* once and in order, also after a resumed start, a skipped neighbour or with  *)
(* another upload under way.  The exceptions are files the host has already    *)
(* and files it could not write, which it reported.  The state has its type.   *)
HostFilesWhole ==
  /\ TypeOK
  /\ \A f \in File : f[1] \in host.done =>
       \/ f \in host.skipped \cup host.failed
       \/ host.got[f] = Prefix(Size(f))

(* No block travels for a file the host has not asked for: the pump stops at   *)
(* the end of each file until the host has answered its digest, so that an     *)
(* existing file is never overwritten before it was compared.                  *)
BlocksAwaitConfirm ==
  \A i \in 1..Len(msgs \o toHost) :
    LET m == (msgs \o toHost)[i] IN m.kind = "block" => m.file \in host.confirmed

(* A cancelled job, or one whose session was closed, stops after the one block *)
(* whose read was under way.                                                   *)
CancelStopsUpload == \A j \in Job : web.late[j] <= 1

-----------------------------------------------------------------------------
(* Liveness *)

(* The timers of pump and queue fire, reads of a slice come to an end, the     *)
(* loop's poll finds a message, and the host handles what it receives.         *)
Fairness ==
  /\ WF_vars(FlushMsgs)
  /\ WF_vars(LoopStep)
  /\ WF_vars(PumpStep)
  /\ WF_vars(\E f \in File : HostStep(f))

FairSpec == Spec /\ Fairness

Over(j) == j \in web.ended \cup web.cancelled \/ link # "open"

(* An upload comes to an end that Flutter hears of, although one upload's      *)
(* blocks hold up the answers to all others and a job on which the host asks   *)
(* the user, before or after his answer, stands still.  What was started stays *)
(* started and what ended stays ended, so it is enough that again and again    *)
(* nothing else is left.                                                       *)
UploadSettles ==
  []<>(\A j \in web.started : Over(j) \/ j \in web.asked \cup web.answered)

=============================================================================
