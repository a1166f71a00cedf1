------------------------------ MODULE RdVideo ------------------------------
(***************************************************************************)
(* Video of a remote-desktop session: rd_video.ts hands the VP9 frames of  *)
(* a VideoFrame message to an ogv.js decoder in a worker, draws the last   *)
(* one and acknowledges the message; the host's video service sends the    *)
(* next message on an acknowledgement or after a timeout.  start() loads a *)
(* decoder while it connects, restart() closes the decoder of the          *)
(* connection and starts again, and a load ends whenever it ends.          *)
(*                                                                         *)
(* The host encodes VP9 for this viewer (getOptionMessage announces no     *)
(* other codec) and, not recording, makes a key frame only for a new       *)
(* connection and on refresh_video.                                        *)
(***************************************************************************)
EXTENDS Naturals, Sequences, FiniteSets

CONSTANTS
  MaxStarts,  \* bound: start() of the connection, restarts included
  MaxFrames,  \* bound: VideoFrame messages of the host
  MaxPackets  \* bound: VP9 frames in one message

ASSUME RdVideoAssumption ==
  MaxStarts \in Nat \ {0} /\ MaxFrames \in Nat /\ MaxPackets \in Nat \ {0}

Start == 1..MaxStarts
Id == 1..MaxFrames
Frame == [id : Id, n : 1..MaxPackets, key : BOOLEAN]

(* A decoder: the one it replaces when it is loaded, whether it has        *)
(* decoded a key frame, the packets its worker has not answered yet.       *)
Decoder ==
  [phase : {"none", "loading", "open", "closed"}, old : 0..MaxStarts, reference : BOOLEAN,
   jobs : Seq(Frame)]

VARIABLES
  starts,      \* start() calls so far: the number of the decoder loaded last
  up,          \* _ws is the socket of the last start()
  videoDecoder,\* _videoDecoder: a decoder's number, 0 when undefined
  decoder,     \* the decoders
  firstFrame,  \* _firstFrame
  count,       \* handleVideoFrame's i, for each message
  wire,        \* VideoFrame messages on their way or in _buf
  host,        \* the host's video service: messages sent, and sent on earlier
               \* connections; waiting, key frame next
  acks,        \* video_received messages on their way or not yet waited for
  taken,       \* history: messages the loop took since the last start()
  acked,       \* history: acknowledgements sent on this socket
  dropped,     \* history: messages not given to a decoder
  drawn,       \* history: messages drawn
  overlap      \* history: a restart while a decoder was being loaded

vars == <<starts, up, videoDecoder, decoder, firstFrame, count, wire, host, acks,
          taken, acked, dropped, drawn, overlap>>

TypeOK ==
  /\ starts \in Start /\ up \in BOOLEAN /\ firstFrame \in BOOLEAN
  /\ videoDecoder \in 0..MaxStarts /\ decoder \in [Start -> Decoder]
  /\ count \in [Id -> 0..MaxPackets]
  /\ wire \in Seq(Frame)
  /\ host \in [sent : 0..MaxFrames, before : 0..MaxFrames, waiting : BOOLEAN, key : BOOLEAN]
  /\ acks \in 0..MaxFrames /\ acked \in 0..MaxFrames
  /\ taken \subseteq Id /\ dropped \subseteq Id
  /\ drawn \in Seq(Id) /\ overlap \in BOOLEAN

NoDecoder == [phase |-> "none", old |-> 0, reference |-> FALSE, jobs |-> <<>>]

(* loadVideoDecoder: the decoder to close is read before the load.         *)
LoadVideoDecoder(old) == [NoDecoder EXCEPT !.phase = "loading", !.old = old]

Init ==
  /\ starts = 1 /\ up = FALSE /\ videoDecoder = 0
  /\ decoder = [[d \in Start |-> NoDecoder] EXCEPT ![1] = LoadVideoDecoder(0)]
  /\ firstFrame = FALSE /\ count = [f \in Id |-> 0]
  /\ wire = <<>> /\ acks = 0
  /\ host = [sent |-> 0, before |-> 0, waiting |-> FALSE, key |-> TRUE]
  /\ taken = {} /\ acked = 0 /\ dropped = {} /\ drawn = <<>> /\ overlap = FALSE

\* mutant: the callbacks of a closed decoder still come
CloseDecoderLate(ds, d) == IF d = 0 THEN ds ELSE [ds EXCEPT ![d].phase = "closed"]

(* ogv.js: close() ends the worker and forgets its callbacks.              *)
CloseDecoder(ds, d) ==
  IF d = 0 THEN ds ELSE [ds EXCEPT ![d].phase = "closed", ![d].jobs = <<>>]

(* loadVp9's callback in loadVideoDecoder                                  *)
DecoderLoaded(d) ==
  /\ decoder[d].phase = "loading"
  /\ videoDecoder' = d
  /\ decoder' = CloseDecoder([decoder EXCEPT ![d].phase = "open"], decoder[d].old)
  /\ UNCHANGED <<starts, up, firstFrame, count, wire, host, acks, taken, acked, dropped, drawn, overlap>>

(* connectRelay sets _ws, and the host's login follows.  The loop of the   *)
(* socket before goes on with the new one; only a next() it had begun may  *)
(* still bring it one message of the old buffer, before any of the new     *)
(* socket (the timer of that next() was set first).                        *)
Connected ==
  /\ ~up
  /\ up' = TRUE
  /\ \E k \in {0, 1} : k <= Len(wire) /\ wire' = SubSeq(wire, 1, k)
  /\ UNCHANGED <<starts, videoDecoder, decoder, firstFrame, count, host, acks,
                 taken, acked, dropped, drawn, overlap>>

(* close() and start(): the frames that reached the buffer stay there for  *)
(* the loop of the old socket, which runs until it finds it empty; later   *)
(* ones and the acknowledgements under way are lost.  The decoder of the   *)
(* connection is closed but not forgotten.                                 *)
Restart ==
  /\ starts < MaxStarts
  /\ starts' = starts + 1
  /\ decoder' = [CloseDecoder(decoder, videoDecoder) EXCEPT
                   ![starts + 1] = LoadVideoDecoder(videoDecoder)]
  /\ up' = FALSE /\ acks' = 0
  /\ \E k \in 0..Len(wire) : wire' = SubSeq(wire, 1, k)
  /\ host' = [host EXCEPT !.before = host.sent, !.waiting = FALSE, !.key = TRUE]
  /\ taken' = {} /\ acked' = 0
  /\ overlap' = (overlap \/ \E d \in Start : decoder[d].phase = "loading")
  /\ UNCHANGED <<videoDecoder, firstFrame, count, dropped, drawn>>

(* refresh(): the host's next frame is a key frame.                        *)
Refresh ==
  /\ up
  /\ host' = [host EXCEPT !.key = TRUE]
  /\ UNCHANGED <<starts, up, videoDecoder, decoder, firstFrame, count, wire, acks,
                 taken, acked, dropped, drawn, overlap>>

(* sendVideoReceived: lost when the socket is not open.                    *)
SendVideoReceived(times) ==
  /\ acks' = IF up THEN acks + times ELSE acks
  /\ acked' = IF up THEN acked + times ELSE acked

(* handleVideoFrame, with the decoder the connection has by then.          *)
(* processFrame of a closed decoder throws, which counts like an answer.   *)
HandleVideoFrame ==
  LET f == Head(wire)
  IN  /\ wire # <<>>
      /\ wire' = Tail(wire)
      /\ firstFrame' = TRUE
      /\ taken' = taken \cup {f.id}
      /\ \/ /\ videoDecoder = 0
            /\ dropped' = dropped \cup {f.id}
            /\ UNCHANGED <<decoder, count, acks, acked>>
         \/ /\ videoDecoder # 0 /\ decoder[videoDecoder].phase = "open"
            /\ decoder' = [decoder EXCEPT ![videoDecoder].jobs = @ \o [i \in 1..f.n |-> f]]
            /\ UNCHANGED <<count, acks, acked, dropped>>
         \/ /\ videoDecoder # 0 /\ decoder[videoDecoder].phase = "closed"
            /\ count' = [count EXCEPT ![f.id] = f.n]
            /\ SendVideoReceived(1)
            /\ dropped' = dropped \cup {f.id}
            /\ UNCHANGED decoder
      /\ UNCHANGED <<starts, up, videoDecoder, host, drawn, overlap>>

(* processFrame's callback: the last answer for a message acknowledges it  *)
(* and, if the packet decoded, draws it.                                   *)
Answered(f) == count[f.id] + 1
CompletePast(f) == Answered(f) > f.n  \* mutant: off by one
Complete(f) == Answered(f) = f.n

\* mutant: every packet is drawn, not the last of its message only
FrameProcessedDrawsEach(d) ==
  LET f == Head(decoder[d].jobs)
  IN  /\ decoder[d].jobs # <<>>
      /\ decoder' = [decoder EXCEPT ![d].jobs = Tail(@)]
      /\ count' = [count EXCEPT ![f.id] = Answered(f)]
      /\ SendVideoReceived(IF Complete(f) THEN 1 ELSE 0)
      /\ drawn' = Append(drawn, f.id)
      /\ UNCHANGED <<starts, up, videoDecoder, firstFrame, wire, host, taken, dropped, overlap>>

\* mutant: the test before drawing uses the count before it was increased
FrameProcessedDrawsLate(d) ==
  LET f == Head(decoder[d].jobs)
      ok == f.key \/ decoder[d].reference
  IN  /\ decoder[d].jobs # <<>>
      /\ decoder' = [decoder EXCEPT ![d].jobs = Tail(@), ![d].reference = @ \/ f.key]
      /\ count' = [count EXCEPT ![f.id] = Answered(f)]
      /\ SendVideoReceived(IF Complete(f) THEN 1 ELSE 0)
      /\ drawn' = IF count[f.id] = f.n /\ ok THEN Append(drawn, f.id) ELSE drawn
      /\ UNCHANGED <<starts, up, videoDecoder, firstFrame, wire, host, taken, dropped, overlap>>

FrameProcessed(d) ==
  LET f == Head(decoder[d].jobs)
      ok == f.key \/ decoder[d].reference
  IN  /\ decoder[d].jobs # <<>>
      /\ decoder' = [decoder EXCEPT ![d].jobs = Tail(@), ![d].reference = @ \/ f.key]
      /\ count' = [count EXCEPT ![f.id] = Answered(f)]
      /\ SendVideoReceived(IF Complete(f) THEN 1 ELSE 0)
      /\ drawn' = IF Complete(f) /\ ok THEN Append(drawn, f.id) ELSE drawn
      /\ UNCHANGED <<starts, up, videoDecoder, firstFrame, wire, host, taken, dropped, overlap>>

(* The host's capture loop: one message, then try_wait_next until an       *)
(* acknowledgement of any message, or the timeout.                         *)
HostSends(n) ==
  /\ up /\ ~host.waiting /\ host.sent < MaxFrames
  /\ host' = [host EXCEPT !.sent = @ + 1, !.waiting = TRUE, !.key = FALSE]
  /\ wire' = Append(wire, [id |-> host.sent + 1, n |-> n, key |-> host.key])
  /\ UNCHANGED <<starts, up, videoDecoder, decoder, firstFrame, count, acks,
                 taken, acked, dropped, drawn, overlap>>

HostFetched ==
  /\ host.waiting /\ acks > 0
  /\ acks' = acks - 1
  /\ host' = [host EXCEPT !.waiting = FALSE]
  /\ UNCHANGED <<starts, up, videoDecoder, decoder, firstFrame, count, wire,
                 taken, acked, dropped, drawn, overlap>>

HostTimeout ==
  /\ host.waiting
  /\ host' = [host EXCEPT !.waiting = FALSE]
  /\ UNCHANGED <<starts, up, videoDecoder, decoder, firstFrame, count, wire, acks,
                 taken, acked, dropped, drawn, overlap>>

Decoding == \E d \in Start : DecoderLoaded(d) \/ FrameProcessed(d)
HostSteps == (\E n \in 1..MaxPackets : HostSends(n)) \/ HostFetched \/ HostTimeout

Next == Decoding \/ HostSteps \/ HandleVideoFrame \/ Connected \/ Restart \/ Refresh

Spec == Init /\ [][Next]_vars

(* The worker answers and loads end, the event loop takes messages, a      *)
(* connection attempt succeeds, the host keeps capturing.  Restart and     *)
(* Refresh are the user's.                                                 *)
FairSpec ==
  /\ Spec
  /\ \A d \in Start : WF_vars(DecoderLoaded(d)) /\ WF_vars(FrameProcessed(d))
  /\ WF_vars(HandleVideoFrame) /\ WF_vars(Connected)
  /\ WF_vars(HostSteps)

----------------------------------------------------------------------------
(* The host is never told of more frames than the viewer took since this   *)
(* connection began, although sendVideoReceived reads conn._ws when the    *)
(* decoder answers: an acknowledgement stands for one message of several   *)
(* packets, and none for what a decoder had in hand at a restart reaches   *)
(* the new socket.  A frame that was left in the old socket's buffer       *)
(* counts: the old loop hands it to the new decoder, and its               *)
(* acknowledgement may go out on a socket that never carried it.  (A       *)
(* restart during a load leaves a decoder that nobody closes, whose        *)
(* answers are no longer counted.)  The state has its type.                *)
AcksAreEarned ==
  /\ TypeOK
  /\ overlap \/ acked <= Cardinality(taken)

(* The messages of this socket the loop took. *)
Own == {id \in taken : id > host.before}

(* The picture never goes back: messages are drawn in the order they were  *)
(* sent, once each, across restarts that replace the decoder               *)
(* (handleVideoFrame draws from a callback).                               *)
DrawnInOrder == overlap \/ \A i, j \in DOMAIN drawn : i < j => drawn[i] < drawn[j]

(* A message the viewer took from this socket and gave to a decoder is     *)
(* acknowledged unless a restart comes first: the count that triggers it   *)
(* is reached (handleVideoFrame's i and n).                                *)
AckFollows ==
  \A id \in Id : (id \in Own \ dropped) ~>
    (id \notin Own \/ acked >= Cardinality({x \in Own \ dropped : x <= id}))

(* Every message the viewer takes from this socket comes on the screen,    *)
(* unless a restart comes first, in a connection whose decoder was there   *)
(* in time: no frame was dropped before the load was through               *)
(* (handleVideoFrame returns without a decoder, and the key frame is not   *)
(* sent again).                                                            *)
PictureFollows ==
  \A id \in Id : (dropped = {} /\ id \in Own) ~>
    (id \notin Own \/ overlap \/ id \in {drawn[i] : i \in DOMAIN drawn})
============================================================================
