------------------------------ MODULE Websock ------------------------------
(***************************************************************************)
(* One relay socket (connections/websock.ts) between the viewer and the    *)
(* host, from the key exchange of session_connect.ts on: the switch to     *)
(* encryption, the two nonce counters of each end, the receive buffer, and *)
(* the ingress handler of session_base.ts that answers the host's pings    *)
(* before the message loop sees them.  The host's half is                  *)
(* create_tcp_connection of src/server.rs; its secret-box stream counts    *)
(* like the viewer's.                                                      *)
(*                                                                         *)
(* A frame on the wire is its body and the nonce it is encrypted with, 0   *)
(* in the clear.  Decrypting with another nonce fails.                     *)
(***************************************************************************)
EXTENDS Naturals, Sequences, SequencesExt

CONSTANTS
  MaxWeb,   \* bound: messages of the viewer; it answers pings beyond it
  MaxHost   \* bound: messages of the host

ASSUME WebsockAssumption == MaxWeb \in Nat /\ MaxHost \in Nat

Kind == {"signed_id", "public_key", "no_key", "data", "ping", "echo"}
Body == [kind : Kind, n : Nat]
Frame == [body : Body, nonce : Nat]

(* secureHandshake of the viewer, then the session, whose message loop may *)
(* be over before its socket is closed; and the host's                     *)
(* create_tcp_connection, then its connection loop.                        *)
WebPhase == {"opening", "signed_id", "verify", "loop", "failed"}
HostPhase == {"start", "public_key", "loop", "failed"}
End == [on : BOOLEAN, sent : Nat, recv : Nat]  \* _secretKey: set, k[1], k[2]

VARIABLES
  web,      \* the viewer's end: phase, key, _status, _buf, whether the ingress handler
            \* is set, whether msgLoop() has returned
  host,     \* the host's end: phase, key
  toHost, toWeb,     \* frames on their way
  webSent, hostSent, \* history: bodies the two ends sent, the host's pings aside
  webGot, hostGot,   \* history: bodies the two ends took, the host's pings aside
  pings,    \* history: the number of pings the host sent
  echoes    \* history: pings the ingress handler answered

vars == <<web, host, toHost, toWeb, webSent, hostSent, webGot, hostGot, pings, echoes>>

WebState ==
  [phase : WebPhase, key : End, status : {"", "open", "event", "closed"},
   buf : Seq(Body), ingress : BOOLEAN, over : BOOLEAN]
HostState == [phase : HostPhase, key : End]

TypeOK ==
  /\ web \in WebState
  /\ host \in HostState
  /\ toHost \in Seq(Frame) /\ toWeb \in Seq(Frame)
  /\ webSent \in Seq(Body) /\ hostSent \in Seq(Body)
  /\ webGot \in Seq(Body) /\ hostGot \in Seq(Body)
  /\ pings \in Nat /\ echoes \subseteq Nat

NoKey == [on |-> FALSE, sent |-> 0, recv |-> 0]

Init ==
  /\ web = [phase |-> "opening", key |-> NoKey, status |-> "", buf |-> <<>>,
            ingress |-> FALSE, over |-> FALSE]
  /\ host = [phase |-> "start", key |-> NoKey]
  /\ toHost = <<>> /\ toWeb = <<>>
  /\ webSent = <<>> /\ hostSent = <<>> /\ webGot = <<>> /\ hostGot = <<>>
  /\ pings = 0 /\ echoes = {}

Data(n) == [kind |-> "data", n |-> n]
Control(kind) == [kind |-> kind, n |-> 0]

(* setSecretKey: both counters start again. *)
SetSecretKey == [on |-> TRUE, sent |-> 0, recv |-> 0]

(* The counter after one more message in a direction, and the frame.       *)
CountSent(k) == IF k.on THEN [k EXCEPT !.sent = @ + 1] ELSE k
CountRecv(k) == IF k.on THEN [k EXCEPT !.recv = @ + 1] ELSE k
Encrypt(k, body) == [body |-> body, nonce |-> CountSent(k).sent]
Decrypts(k, frame) == frame.nonce = CountRecv(k).recv

-----------------------------------------------------------------------------
(* Websock.sendMessage by code of the viewer that holds W as its state;    *)
(* the browser discards what is sent on a socket that is not open.         *)
Transmit(W, body) ==
  /\ toHost' = IF W.status = "open" THEN Append(toHost, Encrypt(W.key, body)) ELSE toHost
  /\ webSent' = IF W.status = "open" THEN Append(webSent, body) ELSE webSent

WebSends(W, body) == Transmit(W, body) /\ web' = [W EXCEPT !.key = CountSent(@)]

Got(body) == webGot' = IF body.kind = "ping" THEN webGot ELSE Append(webGot, body)

(* onReady: _ws is set, the ingress handler installed, the loop entered. *)
Ready(W) == [W EXCEPT !.phase = "loop", !.ingress = TRUE]

(* onopen, then secureHandshake: without a public key from the rendezvous  *)
(* server the viewer gives up encryption at once.                          *)
WebOpened ==
  /\ web.phase = "opening" /\ web.status = ""
  /\ \/ /\ web' = [web EXCEPT !.phase = "signed_id", !.status = "open"]
        /\ UNCHANGED <<toHost, webSent>>
     \/ WebSends(Ready([web EXCEPT !.status = "open"]), Control("no_key"))
  /\ UNCHANGED <<host, toWeb, hostSent, webGot, hostGot, pings, echoes>>

(* `await ws.next()` of the handshake. *)
HandshakeTakes ==
  /\ web.phase = "signed_id" /\ web.buf # <<>>
  /\ LET W == [web EXCEPT !.buf = Tail(@)] IN
     IF Head(web.buf).kind = "signed_id"
     THEN web' = [W EXCEPT !.phase = "verify"] /\ UNCHANGED <<toHost, webSent>>
     ELSE WebSends(Ready(W), Control("no_key"))
  /\ Got(Head(web.buf))
  /\ UNCHANGED <<host, toWeb, hostSent, hostGot, pings, echoes>>

(* Mutant: the key is set before the message that tells the host of it. *)
KeyBeforePublicKey ==
  /\ web.phase = "verify"
  /\ WebSends(Ready([web EXCEPT !.key = SetSecretKey]), Control("public_key"))
  /\ UNCHANGED <<host, toWeb, hostSent, webGot, hostGot, pings, echoes>>

(* The signature is good: the sealed key goes out in the clear, and        *)
(* everything after it is encrypted.                                       *)
HandshakeVerified ==
  /\ web.phase = "verify"
  /\ Transmit(web, Control("public_key"))
  /\ web' = [Ready(web) EXCEPT !.key = SetSecretKey]
  /\ UNCHANGED <<host, toWeb, hostSent, webGot, hostGot, pings, echoes>>

(* A bad signature, another id or a key of the wrong length. *)
HandshakeRefused ==
  /\ web.phase = "verify"
  /\ WebSends(Ready(web), Control("no_key"))
  /\ UNCHANGED <<host, toWeb, hostSent, webGot, hostGot, pings, echoes>>

(* open() or next() rejects: error, loss or 12 s. *)
HandshakeRejected ==
  /\ web.phase \in {"opening", "signed_id"} /\ web.buf = <<>>
  /\ web' = [web EXCEPT !.phase = "failed"]
  /\ UNCHANGED <<host, toHost, toWeb, webSent, hostSent, webGot, hostGot, pings, echoes>>

(* A login, an input event, a queued message...: the message pump sends    *)
(* until the socket is closed, whatever became of the loop.                *)
WebData ==
  /\ web.phase = "loop" /\ web.status = "open"
  /\ Len(webSent) < MaxWeb
  /\ WebSends(web, Data(Len(webSent) + 1))
  /\ UNCHANGED <<host, toWeb, hostSent, webGot, hostGot, pings, echoes>>

(* Mutant: the newest buffered message is taken first. *)
LoopTakesLast ==
  /\ web.phase = "loop" /\ ~web.over /\ web.buf # <<>>
  /\ web' = [web EXCEPT !.buf = Front(@)]
  /\ Got(Last(web.buf))
  /\ UNCHANGED <<host, toHost, toWeb, webSent, hostSent, hostGot, pings, echoes>>

(* The message loop's next(). *)
LoopTakes ==
  /\ web.phase = "loop" /\ ~web.over /\ web.buf # <<>>
  /\ web' = [web EXCEPT !.buf = Tail(@)]
  /\ Got(Head(web.buf))
  /\ UNCHANGED <<host, toHost, toWeb, webSent, hostSent, hostGot, pings, echoes>>

(* msgLoop() returns: a handler threw, the host closed the session, or     *)
(* next() found the buffer empty and the socket not open.  connectRelay's  *)
(* finally takes the ingress handler off.  The socket stays open when the  *)
(* error was charged to a file transfer in front (errors.js:37-43).        *)
LoopEnds ==
  /\ web.phase = "loop" /\ ~web.over
  /\ web' = [web EXCEPT !.over = TRUE, !.ingress = FALSE]
  /\ UNCHANGED <<host, toHost, toWeb, webSent, hostSent, webGot, hostGot, pings, echoes>>

(* Websock.close: what is buffered stays, for a loop that still runs. *)
Close ==
  /\ web.phase = "loop" /\ web.status # "closed"
  /\ web' = [web EXCEPT !.status = "closed", !.ingress = FALSE]
  /\ toWeb' = <<>>
  /\ UNCHANGED <<host, toHost, webSent, hostSent, webGot, hostGot, pings, echoes>>

(* Mutant: a ping waits in the buffer until the message loop comes to it. *)
RecvQueuesAll ==
  /\ web.status = "open" /\ toWeb # <<>>
  /\ toWeb' = Tail(toWeb)
  /\ web' = [web EXCEPT !.key = CountRecv(@), !.buf = Append(@, Head(toWeb).body)]
  /\ UNCHANGED <<host, toHost, webSent, hostSent, webGot, hostGot, pings, echoes>>

(* Websock._recv_message: a frame that cannot be decrypted is lost with    *)
(* the exception it throws; a ping is echoed; the rest is buffered.        *)
RecvMessage ==
  /\ web.status = "open" /\ toWeb # <<>>
  /\ toWeb' = Tail(toWeb)
  /\ LET f == Head(toWeb)
         W == [web EXCEPT !.key = CountRecv(@)]
     IN IF ~Decrypts(web.key, f)
        THEN web' = W /\ UNCHANGED <<toHost, webSent, echoes>>
        ELSE IF web.ingress /\ f.body.kind = "ping"
        THEN WebSends(W, [kind |-> "echo", n |-> f.body.n]) /\ echoes' = echoes \cup {f.body.n}
        ELSE web' = [W EXCEPT !.buf = Append(@, f.body)] /\ UNCHANGED <<toHost, webSent, echoes>>
  /\ UNCHANGED <<host, hostSent, webGot, hostGot, pings>>

-----------------------------------------------------------------------------
(* A message of the host other than a ping is numbered in their order. *)
FromHost(kind) == [kind |-> kind, n |-> Len(hostSent) + 1]

HostSends(body) ==
  /\ toWeb' = IF web.status \in {"", "open"} THEN Append(toWeb, Encrypt(host.key, body)) ELSE toWeb
  /\ host' = [host EXCEPT !.key = CountSent(@)]

(* create_tcp_connection: with a key pair the host signs its id and waits. *)
HostStart ==
  /\ host.phase = "start"
  /\ \/ /\ toWeb' = Append(toWeb, Encrypt(host.key, FromHost("signed_id")))
        /\ hostSent' = Append(hostSent, FromHost("signed_id"))
        /\ host' = [host EXCEPT !.phase = "public_key"]
     \/ host' = [host EXCEPT !.phase = "loop"] /\ UNCHANGED <<toWeb, hostSent>>
  /\ UNCHANGED <<web, toHost, webSent, webGot, hostGot, pings, echoes>>

(* The host's first message switches to encryption if it is the public key *)
(* it waits for; a message it cannot decrypt ends the connection.          *)
HostRecv ==
  /\ host.phase \in {"public_key", "loop"} /\ toHost # <<>>
  /\ toHost' = Tail(toHost)
  /\ LET f == Head(toHost) IN
     IF ~Decrypts(host.key, f)
     THEN host' = [host EXCEPT !.phase = "failed"] /\ UNCHANGED hostGot
     ELSE /\ hostGot' = Append(hostGot, f.body)
          /\ host' = [host EXCEPT
               !.phase = "loop",
               !.key = IF host.phase = "public_key" /\ f.body.kind = "public_key"
                       THEN SetSecretKey ELSE CountRecv(@)]
  /\ UNCHANGED <<web, toWeb, webSent, hostSent, webGot, pings, echoes>>

HostData ==
  /\ host.phase = "loop"
  /\ Len(hostSent) + pings < MaxHost
  /\ HostSends(FromHost("data"))
  /\ hostSent' = Append(hostSent, FromHost("data"))
  /\ UNCHANGED <<web, toHost, webSent, webGot, hostGot, pings, echoes>>

(* The host's test_delay, sent once the last one was echoed; pings are     *)
(* numbered by themselves.                                                 *)
HostPing ==
  /\ host.phase = "loop"
  /\ pings = 0 \/ [kind |-> "echo", n |-> pings] \in ToSet(hostGot)
  /\ Len(hostSent) + pings < MaxHost
  /\ HostSends([kind |-> "ping", n |-> pings + 1])
  /\ pings' = pings + 1
  /\ UNCHANGED <<web, toHost, webSent, hostSent, webGot, hostGot, echoes>>

(* onclose, onerror: what was under way is lost. *)
SocketLost ==
  /\ web.status = "open"
  /\ web' = [web EXCEPT !.status = "event"]
  /\ toWeb' = <<>>
  /\ UNCHANGED <<host, toHost, webSent, hostSent, webGot, hostGot, pings, echoes>>

Next ==
  \/ WebOpened \/ HandshakeTakes \/ HandshakeVerified \/ HandshakeRefused \/ HandshakeRejected
  \/ WebData \/ LoopTakes \/ LoopEnds \/ Close \/ RecvMessage
  \/ HostStart \/ HostRecv \/ HostData \/ HostPing \/ SocketLost

Spec == Init /\ [][Next]_vars

(* The relay delivers while the socket is open, and the browser calls      *)
(* onmessage; the message loop may be stuck in a handler for ever.         *)
FairSpec == Spec /\ WF_vars(RecvMessage) /\ WF_vars(HostRecv)

-----------------------------------------------------------------------------
(* The two ends agree on every nonce: whatever was sent, answered or       *)
(* dropped since setSecretKey, the frames under way are exactly the ones   *)
(* the receiver will decrypt next (websock.ts:47 and :170).  The state has *)
(* its type.                                                               *)
InStep(k, frames) ==
  \A i \in 1..Len(frames) : frames[i].nonce = IF k.on THEN k.recv + i ELSE 0

SwitchPending == Len(toHost) > 0 /\ Head(toHost).body.kind = "public_key"

CountersAgree ==
  /\ TypeOK
  /\ web.status = "open" => InStep(web.key, toWeb)
  /\ host.phase # "failed"
  /\ IF SwitchPending
     THEN Head(toHost).nonce = 0 /\ InStep(SetSecretKey, Tail(toHost))
     ELSE InStep(host.key, toHost)

(* Both directions are FIFO channels, through the handshake, the switch to *)
(* encryption and the ingress handler: the host's pings aside, the viewer's*)
(* loop takes what the host sent, and the host what the viewer sent.       *)
ToViewer == INSTANCE Channel WITH sent <- hostSent, got <- webGot
ToPeer == INSTANCE Channel WITH sent <- webSent, got <- hostGot
FifoBothWays == ToViewer!Spec /\ ToPeer!Spec

(* A ping of the host is answered without waiting for the message loop     *)
(* (session_base.ts:107), unless the socket is lost or closed, or the loop *)
(* has returned and taken the handler with it: an RD loop that fails while *)
(* a file transfer is in front leaves an open socket that answers nothing. *)
PingsAnswered ==
  \A n \in 1..MaxHost :
    (\E i \in 1..Len(toWeb) : web.phase = "loop" /\ toWeb[i].body = [kind |-> "ping", n |-> n])
      ~> (n \in echoes \/ web.status # "open" \/ web.over)

=============================================================================
