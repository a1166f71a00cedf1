--------------------------- MODULE WebsockProofs ---------------------------
(***************************************************************************)
(* Proofs about Websock, for any number of messages: the nonce counters of *)
(* the two ends agree, and both directions are FIFO channels.              *)
(***************************************************************************)
EXTENDS Websock, TLAPS

(* A key that is not set counts nothing. *)
KeyOK(k) == ~k.on => k.sent = 0 /\ k.recv = 0

(* Before its message loop the viewer has sent nothing. *)
Quiet ==
  web.phase # "loop" => ~web.key.on /\ ~web.ingress /\ toHost = <<>>

(* What the host may have sent by then: its signed id, and then nothing    *)
(* until it is answered, or messages that are no signed id.                *)
Signed ==
  web.phase # "loop" =>
    /\ host.phase = "start" => toWeb = <<>> /\ web.buf = <<>>
    /\ host.phase = "public_key" => Len(toWeb) + Len(web.buf) <= 1
    /\ host.phase = "loop" =>
         /\ \A i \in 1..Len(toWeb) : toWeb[i].body.kind # "signed_id"
         /\ \A i \in 1..Len(web.buf) : web.buf[i].kind # "signed_id"
    /\ web.phase = "verify" => host.phase = "public_key" /\ toWeb = <<>>

(* Neither end encrypts. *)
Clear ==
  ~web.key.on =>
    /\ ~host.key.on
    /\ \A i \in 1..Len(toHost) : toHost[i].nonce = 0 /\ toHost[i].body.kind # "public_key"
    /\ \A i \in 1..Len(toWeb) : toWeb[i].nonce = 0

(* The viewer encrypts and the host does not know it yet, or never will. *)
Switching ==
  web.key.on /\ ~host.key.on =>
    /\ host.phase = "public_key" /\ toWeb = <<>> /\ web.key.recv = 0
    /\ toHost = <<>> => web.status # "open"
    /\ toHost # <<>> =>
         /\ Head(toHost).body.kind = "public_key" /\ Head(toHost).nonce = 0
         /\ web.key.sent = Len(toHost) - 1
         /\ \A i \in 2..Len(toHost) :
              toHost[i].nonce = i - 1 /\ toHost[i].body.kind # "public_key"

(* Both encrypt. *)
Switched ==
  host.key.on =>
    /\ web.key.on /\ host.phase = "loop"
    /\ web.key.sent = host.key.recv + Len(toHost)
    /\ \A i \in 1..Len(toHost) :
         toHost[i].nonce = host.key.recv + i /\ toHost[i].body.kind # "public_key"
    /\ web.status = "open" =>
         /\ host.key.sent = web.key.recv + Len(toWeb)
         /\ \A i \in 1..Len(toWeb) : toWeb[i].nonce = web.key.recv + i

KeyInv ==
  /\ TypeOK
  /\ host.phase # "failed"
  /\ KeyOK(web.key) /\ KeyOK(host.key)
  /\ Quiet /\ Signed /\ Clear /\ Switching /\ Switched

-----------------------------------------------------------------------------
(* What Transmit puts on the wire, and what a counter does. *)
LEMMA CountType ==
  ASSUME NEW k \in End
  PROVE  /\ CountSent(k) \in End /\ CountRecv(k) \in End
         /\ CountSent(k).on = k.on /\ CountRecv(k).on = k.on
         /\ k.on => /\ CountSent(k).sent = k.sent + 1 /\ CountSent(k).recv = k.recv
                    /\ CountRecv(k).recv = k.recv + 1 /\ CountRecv(k).sent = k.sent
         /\ ~k.on => CountSent(k) = k /\ CountRecv(k) = k
         /\ \A b \in Body : Encrypt(k, b) \in Frame
  BY DEF CountSent, CountRecv, End, Encrypt, Frame

(* Every step keeps the types. *)
LEMMA TypeInv == TypeOK /\ [Next]_vars => TypeOK'
<1> SUFFICES ASSUME TypeOK, [Next]_vars PROVE TypeOK'
  OBVIOUS
<1> USE DEF TypeOK
<1>k. /\ web.key \in End /\ host.key \in End /\ SetSecretKey \in End
      /\ \A kind \in Kind : Control(kind) \in Body
      /\ \A n \in Nat : Data(n) \in Body
  BY DEF WebState, HostState, SetSecretKey, End, Control, Body, Data, Kind
<1>t. ASSUME NEW W \in WebState, NEW b \in Body, Transmit(W, b)
      PROVE  toHost' \in Seq(Frame) /\ webSent' \in Seq(Body)
  <2>1. W.key \in End
    BY DEF WebState
  <2>2. Encrypt(W.key, b) \in Frame
    BY <2>1, CountType
  <2> QED
    BY <1>t, <2>2 DEF Transmit
<1>s. ASSUME NEW W \in WebState, NEW b \in Body, WebSends(W, b)
      PROVE  toHost' \in Seq(Frame) /\ webSent' \in Seq(Body) /\ web' \in WebState
  <2>1. W.key \in End /\ CountSent(W.key) \in End
    BY CountType DEF WebState
  <2> QED
    BY <1>s, <1>t, <2>1 DEF WebSends, WebState
<1>1. CASE WebOpened
  <2>1. /\ Ready([web EXCEPT !.status = "open"]) \in WebState
        /\ [web EXCEPT !.phase = "signed_id", !.status = "open"] \in WebState
    BY DEF Ready, WebState, WebPhase
  <2> QED
    BY <1>1, <2>1, <1>s, <1>k DEF WebOpened, Kind
<1>2. CASE HandshakeTakes
  <2> DEFINE W == [web EXCEPT !.buf = Tail(@)]
  <2>1. web.buf \in Seq(Body) /\ web.buf # <<>>
    BY <1>2 DEF HandshakeTakes, WebState
  <2>2. Tail(web.buf) \in Seq(Body) /\ Head(web.buf) \in Body
    BY <2>1
  <2>3. /\ W \in WebState /\ Ready(W) \in WebState
        /\ [W EXCEPT !.phase = "verify"] \in WebState
    BY <2>2 DEF Ready, WebState, WebPhase
  <2>4. webGot' \in Seq(Body)
    BY <1>2, <2>2 DEF HandshakeTakes, Got
  <2> QED
    BY <1>2, <2>3, <2>4, <1>s, <1>k DEF HandshakeTakes, Kind
<1>3. CASE HandshakeVerified
  <2>1. [Ready(web) EXCEPT !.key = SetSecretKey] \in WebState
    BY <1>k DEF Ready, WebState, WebPhase
  <2> QED
    BY <1>3, <2>1, <1>t, <1>k DEF HandshakeVerified, Kind
<1>4. CASE HandshakeRefused
  <2>1. Ready(web) \in WebState
    BY DEF Ready, WebState, WebPhase
  <2> QED
    BY <1>4, <2>1, <1>s, <1>k DEF HandshakeRefused, Kind
<1>5. CASE HandshakeRejected
  BY <1>5 DEF HandshakeRejected, WebState, WebPhase
<1>6. CASE WebData
  <2>1. Data(Len(webSent) + 1) \in Body
    BY <1>k
  <2> QED
    BY <1>6, <1>s, <2>1 DEF WebData
<1>7. CASE LoopTakes
  <2>1. web.buf \in Seq(Body) /\ web.buf # <<>>
    BY <1>7 DEF LoopTakes, WebState
  <2>2. Tail(web.buf) \in Seq(Body) /\ Head(web.buf) \in Body
    BY <2>1
  <2>3. [web EXCEPT !.buf = Tail(@)] \in WebState
    BY <2>2 DEF WebState
  <2>4. webGot' \in Seq(Body)
    BY <1>7, <2>2 DEF LoopTakes, Got
  <2> QED
    BY <1>7, <2>3, <2>4 DEF LoopTakes
<1>8. CASE Close
  <2>1. [web EXCEPT !.status = "closed", !.ingress = FALSE] \in WebState
    BY DEF WebState
  <2> QED
    BY <1>8, <2>1 DEF Close
<1>e. CASE LoopEnds
  <2>1. [web EXCEPT !.over = TRUE, !.ingress = FALSE] \in WebState
    BY DEF WebState
  <2> QED
    BY <1>e, <2>1 DEF LoopEnds
<1>9. CASE RecvMessage
  <2> DEFINE f == Head(toWeb)
             W == [web EXCEPT !.key = CountRecv(@)]
  <2>1. f \in Frame /\ Tail(toWeb) \in Seq(Frame)
    BY <1>9 DEF RecvMessage
  <2>2. W \in WebState
    BY <1>k, CountType DEF WebState
  <2>3. f.body \in Body /\ f.body.n \in Nat /\ [kind |-> "echo", n |-> f.body.n] \in Body
    BY <2>1 DEF Frame, Body, Kind
  <2>4. [W EXCEPT !.buf = Append(@, f.body)] \in WebState
    <3> HIDE DEF f, W
    <3>1. W.buf \in Seq(Body)
      BY <2>2 DEF WebState
    <3>2. Append(W.buf, f.body) \in Seq(Body)
      BY <3>1, <2>3
    <3> QED
      BY <2>2, <3>2 DEF WebState
  <2> HIDE DEF f, W
  <2>5. CASE ~Decrypts(web.key, f)
    BY <1>9, <2>1, <2>2, <2>5 DEF RecvMessage, f, W
  <2>6. CASE Decrypts(web.key, f) /\ web.ingress /\ f.body.kind = "ping"
    <3>1. WebSends(W, [kind |-> "echo", n |-> f.body.n]) /\ echoes' = echoes \cup {f.body.n}
      BY <1>9, <2>6 DEF RecvMessage, f, W
    <3>2. toHost' \in Seq(Frame) /\ webSent' \in Seq(Body) /\ web' \in WebState
      BY <3>1, <2>2, <2>3, <1>s
    <3> QED
      BY <1>9, <2>1, <2>3, <3>1, <3>2 DEF RecvMessage, f
  <2>7. CASE Decrypts(web.key, f) /\ ~(web.ingress /\ f.body.kind = "ping")
    <3>1. web' = [W EXCEPT !.buf = Append(@, f.body)] /\ UNCHANGED <<toHost, webSent, echoes>>
      BY <1>9, <2>7 DEF RecvMessage, f, W
    <3> QED
      BY <1>9, <2>1, <2>4, <3>1 DEF RecvMessage, f
  <2> QED
    BY <2>5, <2>6, <2>7
<1>h. ASSUME NEW b \in Body, HostSends(b)
      PROVE  toWeb' \in Seq(Frame) /\ host' \in HostState
  <2>1. Encrypt(host.key, b) \in Frame /\ CountSent(host.key) \in End
    BY <1>k, CountType
  <2>2. [host EXCEPT !.key = CountSent(@)] \in HostState
    BY <2>1 DEF HostState
  <2>3. host' \in HostState
    BY <1>h, <2>2 DEF HostSends
  <2>4. toWeb' \in Seq(Frame)
    <3>1. Append(toWeb, Encrypt(host.key, b)) \in Seq(Frame)
      BY <2>1
    <3> QED
      BY <1>h, <3>1 DEF HostSends
  <2> QED
    BY <2>3, <2>4
<1>f. \A kind \in Kind : FromHost(kind) \in Body
  BY DEF FromHost, Body
<1>10. CASE HostStart
  <2>1. Encrypt(host.key, FromHost("signed_id")) \in Frame /\ FromHost("signed_id") \in Body
    BY <1>k, <1>f, CountType DEF Kind
  <2>2. \A p \in HostPhase : [host EXCEPT !.phase = p] \in HostState
    BY DEF HostState
  <2>3. host' \in HostState
    BY <1>10, <2>2 DEF HostStart, HostPhase
  <2>4. toWeb' \in Seq(Frame) /\ hostSent' \in Seq(Body)
    <3>1. /\ Append(toWeb, Encrypt(host.key, FromHost("signed_id"))) \in Seq(Frame)
          /\ Append(hostSent, FromHost("signed_id")) \in Seq(Body)
      BY <2>1
    <3> QED
      BY <1>10, <3>1 DEF HostStart
  <2> QED
    BY <1>10, <2>3, <2>4 DEF HostStart
<1>11. CASE HostRecv
  <2>1. Head(toHost) \in Frame /\ Tail(toHost) \in Seq(Frame)
    BY <1>11 DEF HostRecv
  <2>2. Head(toHost).body \in Body /\ CountRecv(host.key) \in End
    BY <2>1, <1>k, CountType DEF Frame
  <2>3. /\ [host EXCEPT !.phase = "failed"] \in HostState
        /\ \A k \in End : [host EXCEPT !.phase = "loop", !.key = k] \in HostState
    BY DEF HostState, HostPhase
  <2>4. host' \in HostState
    BY <1>11, <2>2, <2>3, <1>k DEF HostRecv
  <2>5. toHost' \in Seq(Frame) /\ hostGot' \in Seq(Body)
    <3>1. Append(hostGot, Head(toHost).body) \in Seq(Body)
      BY <2>2
    <3> QED
      BY <1>11, <2>1, <3>1 DEF HostRecv
  <2> QED
    BY <1>11, <2>4, <2>5 DEF HostRecv
<1>12. CASE HostData
  BY <1>12, <1>h, <1>f DEF HostData, Kind
<1>13. CASE HostPing
  <2>1. [kind |-> "ping", n |-> pings + 1] \in Body
    BY DEF Body, Kind
  <2> QED
    BY <1>13, <2>1, <1>h DEF HostPing
<1>14. CASE SocketLost
  <2>1. [web EXCEPT !.status = "event"] \in WebState
    BY DEF WebState
  <2> QED
    BY <1>14, <2>1 DEF SocketLost
<1>15. CASE UNCHANGED vars
  BY <1>15 DEF vars
<1> QED
  BY <1>1, <1>2, <1>3, <1>4, <1>5, <1>6, <1>7, <1>8, <1>e, <1>9, <1>10, <1>11, <1>12, <1>13,
     <1>14, <1>15 DEF Next

-----------------------------------------------------------------------------
(* Sequences at their two ends. *)
LEMMA AppendAt ==
  ASSUME NEW S, NEW s \in Seq(S), NEW x \in S
  PROVE  /\ Append(s, x) \in Seq(S) /\ Append(s, x) # <<>>
         /\ Len(s) \in Nat /\ Len(Append(s, x)) = Len(s) + 1
         /\ \A i \in 1..Len(s) : Append(s, x)[i] = s[i]
         /\ Append(s, x)[Len(s) + 1] = x
         /\ s = <<>> => Head(Append(s, x)) = x
         /\ s # <<>> => Head(Append(s, x)) = Head(s)
<1>1. /\ Append(s, x) \in Seq(S) /\ Len(s) \in Nat /\ Len(Append(s, x)) = Len(s) + 1
      /\ \A i \in 1..Len(s) : Append(s, x)[i] = s[i]
      /\ Append(s, x)[Len(s) + 1] = x
  OBVIOUS
<1>2. s = <<>> => Len(s) = 0
  OBVIOUS
<1>3. s # <<>> => Len(s) > 0 /\ Head(s) = s[1]
  OBVIOUS
<1>4. Append(s, x) # <<>>
  BY <1>1
<1>5. Head(Append(s, x)) = Append(s, x)[1]
  BY <1>1, <1>4
<1> QED
  BY <1>1, <1>2, <1>3, <1>4, <1>5

(* Taking the head of a queue moves the others one place forward. *)
LEMMA TailAt ==
  ASSUME NEW S, NEW s \in Seq(S), s # <<>>
  PROVE  /\ Tail(s) \in Seq(S) /\ Head(s) \in S /\ Head(s) = s[1]
         /\ Len(s) \in Nat /\ Len(s) > 0 /\ Len(Tail(s)) = Len(s) - 1
         /\ \A i \in 1..Len(Tail(s)) : Tail(s)[i] = s[i + 1]
  OBVIOUS

(* A message of the viewer, sent when W is its state, keeps the nonces of  *)
(* its direction in step.                                                  *)
LEMMA WebSendsInStep ==
  ASSUME KeyInv, NEW W \in WebState, NEW b \in Body, WebSends(W, b),
         W.key.on = web.key.on, W.key.sent = web.key.sent, KeyOK(W.key),
         web.key.on => W.status = "open" /\ web.status = "open",
         b.kind # "public_key"
  PROVE  /\ web'.phase = W.phase /\ web'.status = W.status /\ web'.ingress = W.ingress
         /\ web'.buf = W.buf
         /\ web'.key.on = web.key.on /\ web'.key.recv = W.key.recv /\ KeyOK(web'.key)
         /\ ~web.key.on =>
              \A i \in 1..Len(toHost') : toHost'[i].nonce = 0 /\ toHost'[i].body.kind # "public_key"
         /\ web.key.on /\ ~host.key.on =>
              /\ toHost' # <<>>
              /\ Head(toHost').body.kind = "public_key" /\ Head(toHost').nonce = 0
              /\ web'.key.sent = Len(toHost') - 1
              /\ \A i \in 2..Len(toHost') :
                   toHost'[i].nonce = i - 1 /\ toHost'[i].body.kind # "public_key"
         /\ host.key.on =>
              /\ web'.key.sent = host.key.recv + Len(toHost')
              /\ \A i \in 1..Len(toHost') :
                   toHost'[i].nonce = host.key.recv + i /\ toHost'[i].body.kind # "public_key"
<1> DEFINE k == W.key
           f == Encrypt(k, b)
<1>1. /\ k \in End /\ web.key \in End /\ host.key \in End /\ toHost \in Seq(Frame)
      /\ k.on \in BOOLEAN /\ k.sent \in Nat /\ k.recv \in Nat /\ host.key.recv \in Nat
  BY DEF KeyInv, TypeOK, WebState, HostState, End
<1>n. k.sent \in Nat /\ host.key.recv \in Nat
  BY <1>1
<1>2. /\ f \in Frame /\ f.body = b
      /\ k.on => f.nonce = k.sent + 1
      /\ ~k.on => f.nonce = 0
  BY <1>1, CountType DEF Encrypt, KeyOK
<1>3. /\ web'.phase = W.phase /\ web'.status = W.status /\ web'.ingress = W.ingress
      /\ web'.buf = W.buf /\ web'.key = CountSent(k)
  BY DEF WebSends, WebState
<1>4. /\ web'.key.on = web.key.on /\ web'.key.recv = W.key.recv /\ KeyOK(web'.key)
      /\ k.on => web'.key.sent = k.sent + 1
  BY <1>1, <1>3, CountType DEF KeyOK
<1>5. toHost' = IF W.status = "open" THEN Append(toHost, f) ELSE toHost
  BY DEF WebSends, Transmit
<1> HIDE DEF k, f
<1>6. /\ Append(toHost, f) # <<>> /\ Len(toHost) \in Nat /\ Len(Append(toHost, f)) = Len(toHost) + 1
      /\ \A i \in 1..Len(toHost) : Append(toHost, f)[i] = toHost[i]
      /\ Append(toHost, f)[Len(toHost) + 1] = f
      /\ toHost # <<>> => Head(Append(toHost, f)) = Head(toHost)
  BY <1>1, <1>2, AppendAt
<1>7. CASE ~web.key.on
  <2>1. ~host.key.on /\ \A i \in 1..Len(toHost) : toHost[i].nonce = 0 /\ toHost[i].body.kind # "public_key"
    BY <1>7 DEF KeyInv, Clear
  <2>2. f.nonce = 0 /\ f.body.kind # "public_key"
    BY <1>2, <1>7 DEF k
  <2>3. \A i \in 1..Len(toHost') : toHost'[i].nonce = 0 /\ toHost'[i].body.kind # "public_key"
    BY <2>1, <2>2, <1>5, <1>6
  <2> QED
    BY <2>1, <2>3, <1>3, <1>4, <1>7
<1>8. CASE web.key.on /\ ~host.key.on
  <2>1. toHost' = Append(toHost, f) /\ f.nonce = web.key.sent + 1 /\ f.body.kind # "public_key"
    BY <1>2, <1>5, <1>8 DEF k
  <2>2. /\ toHost # <<>>
        /\ Head(toHost).body.kind = "public_key" /\ Head(toHost).nonce = 0
        /\ web.key.sent = Len(toHost) - 1
        /\ \A i \in 2..Len(toHost) : toHost[i].nonce = i - 1 /\ toHost[i].body.kind # "public_key"
    BY <1>8 DEF KeyInv, Switching
  <2>3. web'.key.sent = Len(toHost') - 1
    BY <1>4, <1>6, <1>8, <2>1, <2>2 DEF k
  <2>4. \A i \in 2..Len(toHost') : toHost'[i].nonce = i - 1 /\ toHost'[i].body.kind # "public_key"
    BY <1>6, <2>1, <2>2
  <2> QED
    BY <2>1, <2>2, <2>3, <2>4, <1>3, <1>4, <1>6, <1>8
<1>9. CASE host.key.on
  <2>1. /\ web.key.on /\ web.key.sent = host.key.recv + Len(toHost)
        /\ \A i \in 1..Len(toHost) :
             toHost[i].nonce = host.key.recv + i /\ toHost[i].body.kind # "public_key"
    BY <1>9 DEF KeyInv, Switched
  <2>2. toHost' = Append(toHost, f) /\ f.nonce = web.key.sent + 1 /\ f.body.kind # "public_key"
    BY <1>2, <1>5, <2>1 DEF k
  <2>3. web'.key.sent = host.key.recv + Len(toHost')
    <3>1. web'.key.sent = web.key.sent + 1
      BY <1>4, <2>1 DEF k
    <3>2. Len(toHost') = Len(toHost) + 1 /\ Len(toHost) \in Nat
      BY <1>6, <2>2
    <3>3. host.key.recv \in Nat
      BY <1>n
    <3>4. web.key.sent = host.key.recv + Len(toHost)
      BY <2>1
    <3> QED
      BY <3>1, <3>2, <3>3, <3>4
  <2>4. \A i \in 1..Len(toHost') :
           toHost'[i].nonce = host.key.recv + i /\ toHost'[i].body.kind # "public_key"
    <3> TAKE i \in 1..Len(toHost')
    <3>1. CASE i \in 1..Len(toHost)
      <4>1. toHost'[i] = toHost[i]
        BY <3>1, <1>6, <2>2
      <4> QED
        BY <3>1, <4>1, <2>1
    <3>2. CASE i = Len(toHost) + 1
      <4>1. toHost'[i] = f /\ i \in Nat
        BY <3>2, <1>6, <2>2
      <4>2. f.nonce = host.key.recv + i
        <5>1. web.key.sent = host.key.recv + Len(toHost) /\ f.nonce = web.key.sent + 1
          BY <2>1, <2>2
        <5>2. host.key.recv \in Nat /\ Len(toHost) \in Nat
          BY <1>n, <1>6
        <5> QED
          BY <3>2, <5>1, <5>2
      <4> QED
        BY <4>1, <4>2, <2>2
    <3> QED
      BY <3>1, <3>2, <1>6, <2>2
  <2> QED
    BY <2>1, <2>3, <2>4, <1>3, <1>4, <1>9
<1> QED
  BY <1>7, <1>8, <1>9

(* No key is set and nothing was sent when the socket is made. *)
LEMMA KeyInit == Init => KeyInv
<1> SUFFICES ASSUME Init PROVE KeyInv
  OBVIOUS
<1>1. TypeOK
  <2>1. NoKey \in End
    BY DEF NoKey, End
  <2>e. <<>> \in Seq(Body) /\ <<>> \in Seq(Frame)
    OBVIOUS
  <2>2. web \in WebState
    <3>1. /\ "opening" \in WebPhase /\ "" \in {"", "open", "event", "closed"}
      BY DEF WebPhase
    <3> QED
      BY <2>1, <2>e, <3>1, Zenon DEF Init, WebState
  <2>3. host \in HostState
    BY <2>1 DEF Init, HostState, HostPhase
  <2> QED
    BY <2>2, <2>3, <2>e DEF Init, TypeOK
<1>2. /\ web.phase = "opening" /\ host.phase = "start" /\ ~web.key.on /\ ~host.key.on
      /\ web.buf = <<>> /\ ~web.ingress /\ toHost = <<>> /\ toWeb = <<>>
      /\ KeyOK(web.key) /\ KeyOK(host.key) /\ Len(toHost) = 0 /\ Len(toWeb) = 0
  BY DEF Init, NoKey, KeyOK
<1> QED
  BY <1>1, <1>2 DEF KeyInv, Quiet, Signed, Clear, Switching, Switched

(* Every step of the viewer, the peer and the wire keeps the nonces in     *)
(* step with the frames between them.                                      *)
LEMMA KeyStep == KeyInv /\ [Next]_vars => KeyInv'
<1> SUFFICES ASSUME KeyInv, [Next]_vars PROVE KeyInv'
  OBVIOUS
<1>0. TypeOK /\ TypeOK'
  BY TypeInv DEF KeyInv
<1>k. /\ web \in WebState /\ host \in HostState /\ toWeb \in Seq(Frame) /\ toHost \in Seq(Frame)
      /\ web.buf \in Seq(Body) /\ web.key \in End /\ host.key \in End
  BY <1>0 DEF TypeOK, WebState, HostState
(* The viewer gives up encryption and enters its message loop. *)
<1>r. ASSUME NEW W \in WebState, W.key = web.key, web.phase # "loop",
             WebSends(Ready(W), Control("no_key")), UNCHANGED <<host, toWeb>>
      PROVE  KeyInv'
  <2>1. /\ Ready(W) \in WebState /\ Ready(W).key = web.key
        /\ Ready(W).phase = "loop" /\ Control("no_key") \in Body
        /\ Control("no_key").kind # "public_key"
    BY <1>r DEF Ready, WebState, WebPhase, Control, Body, Kind
  <2>2. ~web.key.on /\ ~host.key.on /\ KeyOK(web.key) /\ KeyOK(host.key)
    BY <1>r DEF KeyInv, Quiet, Clear
  <2>3. /\ web'.phase = "loop" /\ ~web'.key.on /\ KeyOK(web'.key)
        /\ \A i \in 1..Len(toHost') : toHost'[i].nonce = 0 /\ toHost'[i].body.kind # "public_key"
    BY <1>r, <2>1, <2>2, WebSendsInStep
  <2>4. \A i \in 1..Len(toWeb) : toWeb[i].nonce = 0
    BY <2>2 DEF KeyInv, Clear
  <2> QED
    BY <1>0, <1>r, <2>2, <2>3, <2>4 DEF KeyInv, Quiet, Signed, Clear, Switching, Switched
(* The viewer takes a message, or its socket goes: nothing is sent. *)
<1>q. ASSUME NEW ph \in WebPhase, NEW st, web'.phase = ph, web'.key = web.key, web'.status = st,
             web'.ingress = web.ingress \/ ph = "loop",
             UNCHANGED <<host, toHost>>, toWeb' = toWeb \/ toWeb' = <<>>,
             ph = "loop" <=> web.phase = "loop",
             st = "open" => toWeb' = toWeb /\ (web.status = "open" \/ web.phase # "loop"),
             Signed'
      PROVE  KeyInv'
  <2>1. Quiet'
    BY <1>q DEF KeyInv, Quiet
  <2>2. Len(<<>>) = 0
    OBVIOUS
  <2>3. Clear'
    BY <1>q, <2>2 DEF KeyInv, Clear
  <2>4. Switching'
    BY <1>q, <2>2 DEF KeyInv, Quiet, Switching
  <2>5. Switched'
    BY <1>q, <2>2 DEF KeyInv, Quiet, Switched
  <2> QED
    BY <1>0, <1>q, <2>1, <2>3, <2>4, <2>5 DEF KeyInv
<1>1. CASE WebOpened
  <2>1. CASE WebSends(Ready([web EXCEPT !.status = "open"]), Control("no_key"))
    <3>1. [web EXCEPT !.status = "open"] \in WebState /\ [web EXCEPT !.status = "open"].key = web.key
      BY <1>k DEF WebState
    <3> QED
      BY <1>1, <1>r, <2>1, <3>1 DEF WebOpened
  <2>2. CASE web' = [web EXCEPT !.phase = "signed_id", !.status = "open"] /\ UNCHANGED <<toHost, webSent>>
    <3>1. /\ web'.phase = "signed_id" /\ web'.key = web.key /\ web'.status = "open"
          /\ web'.buf = web.buf /\ web'.ingress = web.ingress
      BY <1>k, <2>2 DEF WebState
    <3>2. UNCHANGED <<host, toWeb, toHost>> /\ web.phase = "opening" /\ web.status = ""
      BY <1>1, <2>2 DEF WebOpened
    <3>3. Signed'
      BY <3>1, <3>2 DEF KeyInv, Signed
    <3> QED
      BY <3>1, <3>2, <3>3, <1>q DEF WebPhase
  <2> QED
    BY <1>1, <2>1, <2>2 DEF WebOpened
<1>2. CASE HandshakeTakes
  <2> DEFINE W == [web EXCEPT !.buf = Tail(@)]
  <2>1. /\ web.phase = "signed_id" /\ web.buf # <<>> /\ UNCHANGED <<host, toWeb>>
    BY <1>2 DEF HandshakeTakes
  <2>2. /\ Tail(web.buf) \in Seq(Body) /\ Head(web.buf) = web.buf[1]
        /\ Len(web.buf) \in Nat /\ Len(web.buf) > 0
    BY <1>k, <2>1, TailAt
  <2>3. W \in WebState /\ W.key = web.key
    BY <1>k, <2>2 DEF WebState
  <2>4. CASE Head(web.buf).kind = "signed_id"
    <3>1. web' = [W EXCEPT !.phase = "verify"] /\ UNCHANGED toHost
      BY <1>2, <2>4 DEF HandshakeTakes
    <3>2. /\ web'.phase = "verify" /\ web'.key = web.key /\ web'.status = web.status
          /\ web'.ingress = web.ingress
      BY <1>k, <3>1 DEF WebState
    <3>3. host.phase # "start" /\ host.phase # "loop" /\ host.phase # "failed"
      BY <2>1, <2>2, <2>4 DEF KeyInv, Signed
    <3>4. host.phase = "public_key"
      BY <3>3, <1>k DEF HostState, HostPhase
    <3>5. Len(toWeb) + Len(web.buf) <= 1
      BY <3>4, <2>1 DEF KeyInv, Signed
    <3>6. toWeb = <<>> /\ Len(toWeb) = 0
      BY <3>5, <2>2, <1>k
    <3>7. Len(web'.buf) = Len(web.buf) - 1
      BY <1>k, <2>1, <3>1, TailAt DEF WebState
    <3>8. Signed'
      BY <2>1, <2>2, <3>2, <3>4, <3>5, <3>6, <3>7 DEF Signed
    <3> QED
      BY <2>1, <3>1, <3>2, <3>8, <1>q DEF WebPhase
  <2>5. CASE Head(web.buf).kind # "signed_id"
    <3>1. WebSends(Ready(W), Control("no_key"))
      BY <1>2, <2>5 DEF HandshakeTakes
    <3> HIDE DEF W
    <3> QED
      BY <1>r, <2>1, <2>3, <3>1
  <2> QED
    BY <2>4, <2>5
<1>3. CASE HandshakeVerified
  <2> DEFINE f == Encrypt(web.key, Control("public_key"))
  <2>1. web.phase = "verify" /\ UNCHANGED <<host, toWeb>>
    BY <1>3 DEF HandshakeVerified
  <2>2. /\ host.phase = "public_key" /\ toWeb = <<>> /\ toHost = <<>>
        /\ ~web.key.on /\ ~host.key.on /\ KeyOK(web.key) /\ KeyOK(host.key)
    BY <2>1 DEF KeyInv, Quiet, Signed, Clear
  <2>3. /\ web'.key.on /\ web'.key.sent = 0 /\ web'.key.recv = 0
        /\ web'.phase = "loop" /\ web'.status = web.status
    BY <1>3, <1>k DEF HandshakeVerified, Ready, SetSecretKey, WebState
  <2>4. Control("public_key") \in Body /\ Control("public_key").kind = "public_key"
    BY DEF Control, Body, Kind
  <2>5. f \in Frame /\ f.body.kind = "public_key" /\ f.nonce = 0
    BY <1>k, <2>2, <2>4, CountType DEF Encrypt, KeyOK
  <2>6. toHost' = IF web.status = "open" THEN Append(toHost, f) ELSE toHost
    BY <1>3 DEF HandshakeVerified, Transmit
  <2> HIDE DEF f
  <2>7. /\ Append(toHost, f) # <<>> /\ Len(Append(toHost, f)) = 1 /\ Head(Append(toHost, f)) = f
    <3>1. Len(toHost) = 0
      BY <2>2
    <3> QED
      BY <1>k, <2>2, <2>5, <3>1, AppendAt
  <2>8. Switching'
    BY <2>1, <2>2, <2>3, <2>5, <2>6, <2>7 DEF Switching
  <2> QED
    BY <1>0, <2>1, <2>2, <2>3, <2>8 DEF KeyInv, KeyOK, Quiet, Signed, Clear, Switched
<1>4. CASE HandshakeRefused
  BY <1>4, <1>k, <1>r DEF HandshakeRefused
<1>5. CASE HandshakeRejected
  <2>1. /\ web'.phase = "failed" /\ web'.key = web.key /\ web'.status = web.status
        /\ web'.buf = web.buf /\ web'.ingress = web.ingress
    BY <1>5, <1>k DEF HandshakeRejected, WebState
  <2>2. UNCHANGED <<host, toHost, toWeb>> /\ web.phase # "loop"
    BY <1>5 DEF HandshakeRejected
  <2>3. Signed'
    BY <2>1, <2>2 DEF KeyInv, Signed
  <2> QED
    BY <2>1, <2>2, <2>3, <1>q DEF WebPhase
<1>6. CASE WebData
  <2>1. /\ web.phase = "loop" /\ web.status = "open" /\ UNCHANGED <<host, toWeb>>
        /\ WebSends(web, Data(Len(webSent) + 1))
    BY <1>6 DEF WebData
  <2>2. Data(Len(webSent) + 1) \in Body /\ Data(Len(webSent) + 1).kind # "public_key"
    BY <1>0 DEF TypeOK, Data, Body, Kind
  <2>3. KeyOK(web.key)
    BY DEF KeyInv
  <2> DEFINE b == Data(Len(webSent) + 1)
  <2> HIDE DEF b
  <2>4. b \in Body /\ b.kind # "public_key" /\ WebSends(web, b)
    BY <2>1, <2>2 DEF b
  <2>5. /\ web'.phase = "loop" /\ web'.status = "open"
        /\ web'.key.on = web.key.on /\ web'.key.recv = web.key.recv /\ KeyOK(web'.key)
        /\ ~web.key.on =>
             \A i \in 1..Len(toHost') : toHost'[i].nonce = 0 /\ toHost'[i].body.kind # "public_key"
        /\ web.key.on /\ ~host.key.on =>
             /\ toHost' # <<>>
             /\ Head(toHost').body.kind = "public_key" /\ Head(toHost').nonce = 0
             /\ web'.key.sent = Len(toHost') - 1
             /\ \A i \in 2..Len(toHost') :
                  toHost'[i].nonce = i - 1 /\ toHost'[i].body.kind # "public_key"
        /\ host.key.on =>
             /\ web'.key.sent = host.key.recv + Len(toHost')
             /\ \A i \in 1..Len(toHost') :
                  toHost'[i].nonce = host.key.recv + i /\ toHost'[i].body.kind # "public_key"
    BY <1>k, <2>1, <2>3, <2>4, WebSendsInStep
  <2>6. Quiet' /\ Signed'
    BY <2>5 DEF Quiet, Signed
  <2>7. Clear'
    BY <2>1, <2>5 DEF KeyInv, Clear
  <2>8. Switching'
    BY <2>1, <2>5 DEF KeyInv, Switching
  <2>9. Switched'
    BY <2>1, <2>5 DEF KeyInv, Switched
  <2> QED
    BY <1>0, <2>1, <2>5, <2>6, <2>7, <2>8, <2>9 DEF KeyInv
<1>7. CASE LoopTakes
  <2>1. web.phase = "loop" /\ UNCHANGED <<host, toHost, toWeb>>
    BY <1>7 DEF LoopTakes
  <2>2. /\ web'.phase = "loop" /\ web'.key = web.key /\ web'.status = web.status
    BY <1>7, <1>k, <2>1 DEF LoopTakes, WebState
  <2>3. Signed'
    BY <2>2 DEF Signed
  <2> QED
    BY <2>1, <2>2, <2>3, <1>q DEF WebPhase
<1>e. CASE LoopEnds
  <2>1. web.phase = "loop" /\ UNCHANGED <<host, toHost, toWeb>>
    BY <1>e DEF LoopEnds
  <2>2. web'.phase = "loop" /\ web'.key = web.key /\ web'.status = web.status
    BY <1>e, <1>k, <2>1 DEF LoopEnds, WebState
  <2>3. Signed'
    BY <2>2 DEF Signed
  <2> QED
    BY <2>1, <2>2, <2>3, <1>q DEF WebPhase
<1>8. CASE Close
  <2>1. web.phase = "loop" /\ UNCHANGED <<host, toHost>> /\ toWeb' = <<>>
    BY <1>8 DEF Close
  <2>2. web'.phase = "loop" /\ web'.key = web.key /\ web'.status = "closed"
    BY <1>8, <1>k, <2>1 DEF Close, WebState
  <2>3. Signed'
    BY <2>2 DEF Signed
  <2> QED
    BY <2>1, <2>2, <2>3, <1>q DEF WebPhase
<1>14. CASE SocketLost
  <2>1. UNCHANGED <<host, toHost>> /\ toWeb' = <<>>
    BY <1>14 DEF SocketLost
  <2>2. /\ web'.phase = web.phase /\ web'.key = web.key /\ web'.status = "event"
        /\ web'.buf = web.buf /\ web'.ingress = web.ingress /\ web.phase \in WebPhase
    BY <1>14, <1>k DEF SocketLost, WebState
  <2>3. Len(<<>>) = 0 /\ Len(toWeb) \in Nat /\ Len(web.buf) \in Nat
    BY <1>k
  <2>4. Signed'
    BY <2>1, <2>2, <2>3 DEF KeyInv, Signed
  <2> QED
    BY <2>1, <2>2, <2>4, <1>q
<1>9. CASE RecvMessage
  <2> DEFINE f == Head(toWeb)
             W == [web EXCEPT !.key = CountRecv(@)]
             e == [kind |-> "echo", n |-> f.body.n]
  <2>1. /\ web.status = "open" /\ toWeb # <<>> /\ toWeb' = Tail(toWeb) /\ UNCHANGED host
    BY <1>9 DEF RecvMessage
  <2>2. /\ f \in Frame /\ f = toWeb[1] /\ Len(toWeb) \in Nat /\ Len(toWeb) > 0
        /\ Len(toWeb') = Len(toWeb) - 1
        /\ \A i \in 1..Len(toWeb') : toWeb'[i] = toWeb[i + 1]
    BY <1>k, <2>1, TailAt
  <2>3. f.body \in Body /\ e \in Body /\ e.kind # "public_key"
    BY <2>2 DEF Frame, Body, Kind
  <2>4. /\ CountRecv(web.key) \in End /\ CountRecv(web.key).on = web.key.on
        /\ CountRecv(web.key).sent = web.key.sent
        /\ web.key.on => CountRecv(web.key).recv = web.key.recv + 1
        /\ ~web.key.on => CountRecv(web.key) = web.key
        /\ KeyOK(CountRecv(web.key))
    BY <1>k, CountType DEF KeyInv, KeyOK
  <2>5. /\ W \in WebState /\ W.key = CountRecv(web.key) /\ W.phase = web.phase /\ W.buf = web.buf
        /\ W.status = web.status /\ W.ingress = web.ingress
    BY <1>k, <2>4 DEF WebState
  <2>6. ~(web.key.on /\ ~host.key.on)
    BY <2>1 DEF KeyInv, Switching
  <2>n. web.key.recv \in Nat /\ host.key.recv \in Nat
    BY <1>k DEF End
  <2>7. Decrypts(web.key, f)
    <3>1. CASE web.key.on
      <4>1. \A i \in 1..Len(toWeb) : toWeb[i].nonce = web.key.recv + i
        BY <2>1, <2>6, <3>1 DEF KeyInv, Switched
      <4>2. f.nonce = web.key.recv + 1
        BY <2>2, <4>1
      <4> QED
        BY <2>4, <3>1, <4>2 DEF Decrypts
    <3>2. CASE ~web.key.on
      <4>1. f.nonce = 0
        BY <2>2, <3>2 DEF KeyInv, Clear
      <4> QED
        BY <2>4, <3>2, <4>1 DEF Decrypts, KeyInv, KeyOK
    <3> QED
      BY <3>1, <3>2
  (* What both outcomes come to. *)
  <2>8. ASSUME web'.phase = web.phase, web'.status = "open", web'.ingress = web.ingress,
               web'.key.on = web.key.on, web'.key.recv = CountRecv(web.key).recv, KeyOK(web'.key),
               ~web.key.on => \A i \in 1..Len(toHost') :
                  toHost'[i].nonce = 0 /\ toHost'[i].body.kind # "public_key",
               host.key.on =>
                 /\ web'.key.sent = host.key.recv + Len(toHost')
                 /\ \A i \in 1..Len(toHost') :
                      toHost'[i].nonce = host.key.recv + i /\ toHost'[i].body.kind # "public_key",
               web.phase # "loop" => toHost' = toHost /\ web'.buf = Append(web.buf, f.body)
        PROVE  KeyInv'
    <3> HIDE DEF f, W, e
    <3>1. Quiet'
      BY <2>1, <2>8 DEF KeyInv, Quiet
    <3>2. Signed'
      <4> SUFFICES ASSUME web'.phase # "loop" PROVE Signed'
        BY DEF Signed
      <4>1. web'.buf = Append(web.buf, f.body) /\ web.phase # "loop"
        BY <2>8
      <4>2. /\ Len(web.buf) \in Nat /\ Len(web'.buf) = Len(web.buf) + 1
            /\ \A i \in 1..Len(web.buf) : web'.buf[i] = web.buf[i]
            /\ web'.buf[Len(web.buf) + 1] = f.body
        BY <1>k, <2>3, <4>1, AppendAt
      <4>3. host.phase # "start" /\ web.phase # "verify"
        BY <2>1, <4>1 DEF KeyInv, Signed
      <4>4. host.phase = "public_key" => Len(toWeb') + Len(web'.buf) <= 1
        BY <2>2, <4>1, <4>2 DEF KeyInv, Signed
      <4>5. ASSUME host.phase = "loop"
            PROVE  /\ \A i \in 1..Len(toWeb') : toWeb'[i].body.kind # "signed_id"
                   /\ \A i \in 1..Len(web'.buf) : web'.buf[i].kind # "signed_id"
        BY <2>2, <4>1, <4>2, <4>5 DEF KeyInv, Signed
      <4> QED
        BY <2>1, <2>8, <4>3, <4>4, <4>5 DEF Signed
    <3>3. Clear'
      BY <2>1, <2>2, <2>8 DEF KeyInv, Clear
    <3>4. Switching'
      BY <2>1, <2>6, <2>8 DEF Switching
    <3>5. Switched'
      <4> SUFFICES ASSUME host.key.on PROVE Switched'
        BY <2>1 DEF Switched
      <4>1. /\ web.key.on /\ host.phase = "loop" /\ host.key.sent = web.key.recv + Len(toWeb)
            /\ \A i \in 1..Len(toWeb) : toWeb[i].nonce = web.key.recv + i
        BY <2>1 DEF KeyInv, Switched
      <4>2. web'.key.recv = web.key.recv + 1
        BY <2>4, <2>8, <4>1
      <4>3. host.key.sent = web'.key.recv + Len(toWeb')
        BY <2>2, <2>n, <4>1, <4>2
      <4>4. ASSUME NEW i \in 1..Len(toWeb') PROVE toWeb'[i].nonce = web'.key.recv + i
        <5>1. toWeb'[i] = toWeb[i + 1] /\ i + 1 \in 1..Len(toWeb)
          BY <2>2
        <5>2. toWeb[i + 1].nonce = web.key.recv + (i + 1)
          BY <4>1, <5>1
        <5> QED
          BY <2>n, <4>2, <5>1, <5>2
      <4> QED
        BY <2>1, <2>8, <4>1, <4>3, <4>4 DEF Switched
    <3> QED
      BY <1>0, <2>1, <2>8, <3>1, <3>2, <3>3, <3>4, <3>5 DEF KeyInv
  <2>9. CASE web.ingress /\ f.body.kind = "ping"
    <3>1. WebSends(W, e)
      BY <1>9, <2>7, <2>9 DEF RecvMessage
    <3>2. web.phase = "loop"
      BY <2>9 DEF KeyInv, Quiet
    <3> HIDE DEF W, e, f
    <3> QED
      BY <2>1, <2>3, <2>4, <2>5, <2>8, <3>1, <3>2, WebSendsInStep
  <2>10. CASE ~(web.ingress /\ f.body.kind = "ping")
    <3>1. web' = [W EXCEPT !.buf = Append(@, f.body)] /\ UNCHANGED toHost
      BY <1>9, <2>7, <2>10 DEF RecvMessage
    <3> HIDE DEF W, e, f
    <3>2. /\ web'.phase = web.phase /\ web'.status = "open" /\ web'.ingress = web.ingress
          /\ web'.key = CountRecv(web.key) /\ web'.buf = Append(web.buf, f.body)
      BY <2>1, <2>5, <3>1 DEF WebState
    <3>3. ~web.key.on => \A i \in 1..Len(toHost') :
                  toHost'[i].nonce = 0 /\ toHost'[i].body.kind # "public_key"
      BY <3>1 DEF KeyInv, Clear
    <3>4. host.key.on =>
                 /\ web'.key.sent = host.key.recv + Len(toHost')
                 /\ \A i \in 1..Len(toHost') :
                      toHost'[i].nonce = host.key.recv + i /\ toHost'[i].body.kind # "public_key"
      BY <2>4, <3>1, <3>2 DEF KeyInv, Switched
    <3> QED
      BY <2>4, <2>8, <3>1, <3>2, <3>3, <3>4
  <2> QED
    BY <2>9, <2>10
<1>10. CASE HostStart
  <2> DEFINE b == FromHost("signed_id")
             f == Encrypt(host.key, b)
  <2>1. host.phase = "start" /\ UNCHANGED <<web, toHost>>
    BY <1>10 DEF HostStart
  <2>2. ~host.key.on /\ ~web.key.on /\ KeyOK(host.key)
    BY <2>1 DEF KeyInv, Switching, Switched
  <2>3. b \in Body
    BY <1>0 DEF TypeOK, FromHost, Body, Kind
  <2>4. f \in Frame /\ f.nonce = 0
    BY <1>k, <2>2, <2>3, CountType DEF Encrypt, KeyOK
  <2>5. /\ host'.key = host.key
        /\ \/ host'.phase = "public_key" /\ toWeb' = Append(toWeb, f)
           \/ host'.phase = "loop" /\ toWeb' = toWeb
    BY <1>10, <1>k DEF HostStart, HostState
  <2> HIDE DEF f, b
  <2>6. /\ Len(toWeb) \in Nat /\ Len(Append(toWeb, f)) = Len(toWeb) + 1
        /\ \A i \in 1..Len(toWeb) : Append(toWeb, f)[i] = toWeb[i]
        /\ Append(toWeb, f)[Len(toWeb) + 1] = f
    BY <1>k, <2>4, AppendAt
  <2>7. Clear'
    BY <2>1, <2>2, <2>4, <2>5, <2>6 DEF KeyInv, Clear
  <2>8. Signed'
    <3>1. web.phase # "loop" => toWeb = <<>> /\ web.buf = <<>> /\ web.phase # "verify"
      BY <2>1 DEF KeyInv, Signed
    <3>2. Len(<<>>) = 0
      OBVIOUS
    <3> QED
      BY <2>1, <2>5, <2>6, <3>1, <3>2 DEF Signed
  <2> QED
    BY <1>0, <2>1, <2>2, <2>5, <2>7, <2>8 DEF KeyInv, KeyOK, Quiet, Switching, Switched
<1>11. CASE HostRecv
  <2> DEFINE f == Head(toHost)
  <2>1. /\ host.phase \in {"public_key", "loop"} /\ toHost # <<>> /\ toHost' = Tail(toHost)
        /\ UNCHANGED <<web, toWeb>>
    BY <1>11 DEF HostRecv
  <2>2. web.phase = "loop"
    BY <2>1 DEF KeyInv, Quiet
  <2>3. /\ f \in Frame /\ f = toHost[1] /\ Len(toHost) \in Nat /\ Len(toHost) > 0
        /\ Len(toHost') = Len(toHost) - 1
        /\ \A i \in 1..Len(toHost') : toHost'[i] = toHost[i + 1]
    BY <1>k, <2>1, TailAt
  <2>4. /\ CountRecv(host.key) \in End /\ CountRecv(host.key).on = host.key.on
        /\ CountRecv(host.key).sent = host.key.sent
        /\ host.key.on => CountRecv(host.key).recv = host.key.recv + 1
        /\ ~host.key.on => CountRecv(host.key) = host.key
        /\ KeyOK(CountRecv(host.key)) /\ host.key.recv \in Nat /\ KeyOK(web.key)
        /\ ~host.key.on => host.key.recv = 0
    BY <1>k, CountType DEF KeyInv, KeyOK, End
  (* What the host does with a frame it can decrypt. *)
  <2>5. ASSUME f.nonce = CountRecv(host.key).recv
        PROVE  /\ host'.phase = "loop"
               /\ host'.key = IF host.phase = "public_key" /\ f.body.kind = "public_key"
                              THEN SetSecretKey ELSE CountRecv(host.key)
    BY <1>11, <1>k, <2>5 DEF HostRecv, Decrypts, HostState
  <2> HIDE DEF f
  <2>6. CASE ~web.key.on
    <3>1. ~host.key.on /\ f.nonce = 0 /\ f.body.kind # "public_key"
      BY <2>3, <2>6 DEF KeyInv, Clear
    <3>2. host'.phase = "loop" /\ host'.key = host.key
      BY <2>4, <2>5, <3>1
    <3>3. Clear'
      BY <2>1, <2>3, <3>1, <3>2 DEF KeyInv, Clear
    <3> QED
      BY <1>0, <2>1, <2>2, <2>4, <2>6, <3>1, <3>2, <3>3
      DEF KeyInv, KeyOK, Quiet, Signed, Switching, Switched
  <2>7. CASE web.key.on /\ ~host.key.on
    <3>1. /\ host.phase = "public_key" /\ toWeb = <<>> /\ web.key.recv = 0
          /\ f.body.kind = "public_key" /\ f.nonce = 0
          /\ web.key.sent = Len(toHost) - 1
          /\ \A i \in 2..Len(toHost) : toHost[i].nonce = i - 1 /\ toHost[i].body.kind # "public_key"
      BY <2>1, <2>7 DEF KeyInv, Switching, f
    <3>2. host'.phase = "loop" /\ host'.key.on /\ host'.key.sent = 0 /\ host'.key.recv = 0
      BY <2>4, <2>5, <2>7, <3>1 DEF SetSecretKey
    <3>3. \A i \in 1..Len(toHost') : i + 1 \in 2..Len(toHost) /\ toHost'[i] = toHost[i + 1]
      BY <2>3
    <3>4. \A i \in 1..Len(toHost') : toHost'[i].nonce = 0 + i /\ toHost'[i].body.kind # "public_key"
      BY <3>1, <3>3
    <3>5. Len(toWeb) = 0 /\ web.key.sent = 0 + Len(toHost')
      BY <2>3, <3>1
    <3>6. Switched'
      BY <2>1, <2>7, <3>1, <3>2, <3>4, <3>5 DEF Switched
    <3> QED
      BY <1>0, <2>1, <2>2, <2>4, <2>7, <3>2, <3>6
      DEF KeyInv, KeyOK, Quiet, Signed, Clear, Switching
  <2>8. CASE host.key.on
    <3>1. /\ web.key.on /\ host.phase = "loop"
          /\ web.key.sent = host.key.recv + Len(toHost)
      BY <2>8 DEF KeyInv, Switched
    <3>2. \A i \in 1..Len(toHost) :
            toHost[i].nonce = host.key.recv + i /\ toHost[i].body.kind # "public_key"
      BY <2>8 DEF KeyInv, Switched
    <3>3. f.nonce = host.key.recv + 1
      BY <2>3, <3>2
    <3>4. host'.phase = "loop" /\ host'.key = CountRecv(host.key)
      BY <2>4, <2>5, <2>8, <3>1, <3>3
    <3>5. host'.key.on /\ host'.key.recv = host.key.recv + 1 /\ host'.key.sent = host.key.sent
      BY <2>4, <2>8, <3>4
    <3>6. web.key.sent = host'.key.recv + Len(toHost')
      BY <2>3, <2>4, <3>1, <3>5
    <3>7. ASSUME NEW i \in 1..Len(toHost')
          PROVE  toHost'[i].nonce = host'.key.recv + i /\ toHost'[i].body.kind # "public_key"
      <4>1. toHost'[i] = toHost[i + 1] /\ i + 1 \in 1..Len(toHost)
        BY <2>3
      <4>2. toHost[i + 1].nonce = host.key.recv + (i + 1) /\ toHost[i + 1].body.kind # "public_key"
        BY <3>2, <4>1
      <4>3. host.key.recv \in Nat /\ host'.key.recv = host.key.recv + 1
        BY <2>4, <3>5
      <4>4. host.key.recv + (i + 1) = host'.key.recv + i /\ i \in Nat
        BY <4>3
      <4> QED
        BY <4>1, <4>2, <4>4
    <3>8. web.status = "open" =>
            /\ host.key.sent = web.key.recv + Len(toWeb)
            /\ \A i \in 1..Len(toWeb) : toWeb[i].nonce = web.key.recv + i
      BY <2>8 DEF KeyInv, Switched
    <3>9. Switched'
      BY <2>1, <3>1, <3>4, <3>5, <3>6, <3>7, <3>8 DEF Switched
    <3> QED
      BY <1>0, <2>1, <2>2, <2>4, <3>1, <3>4, <3>5, <3>9
      DEF KeyInv, KeyOK, Quiet, Signed, Clear, Switching
  <2> QED
    BY <2>6, <2>7, <2>8
(* A message of the host's connection loop. *)
<1>h. ASSUME NEW b \in Body, HostSends(b), b.kind # "signed_id", host.phase = "loop",
             UNCHANGED <<web, toHost>>
      PROVE  KeyInv'
  <2> DEFINE f == Encrypt(host.key, b)
  <2>1. /\ CountSent(host.key).on = host.key.on /\ CountSent(host.key).recv = host.key.recv
        /\ host.key.on => CountSent(host.key).sent = host.key.sent + 1
        /\ KeyOK(CountSent(host.key)) /\ KeyOK(web.key)
        /\ web.key.recv \in Nat /\ host.key.recv \in Nat
    BY <1>k, CountType DEF KeyInv, KeyOK, End
  <2>2. /\ f \in Frame /\ f.body = b /\ (~host.key.on => f.nonce = 0)
        /\ host.key.on => f.nonce = host.key.sent + 1
    BY <1>k, CountType DEF Encrypt, KeyInv, KeyOK
  <2>3. /\ host'.phase = "loop" /\ host'.key = CountSent(host.key)
        /\ toWeb' = IF web.status \in {"", "open"} THEN Append(toWeb, f) ELSE toWeb
    BY <1>h, <1>k DEF HostSends, HostState
  <2> HIDE DEF f
  <2>4. /\ Len(toWeb) \in Nat /\ Len(Append(toWeb, f)) = Len(toWeb) + 1
        /\ \A i \in 1..Len(toWeb) : Append(toWeb, f)[i] = toWeb[i]
        /\ Append(toWeb, f)[Len(toWeb) + 1] = f
    BY <1>k, <2>2, AppendAt
  <2>s. toWeb' = toWeb \/ toWeb' = Append(toWeb, f)
    BY <2>3
  <2>5. Signed'
    <3>1. web.phase # "loop" =>
            /\ web.phase # "verify"
            /\ \A i \in 1..Len(toWeb) : toWeb[i].body.kind # "signed_id"
            /\ \A i \in 1..Len(web.buf) : web.buf[i].kind # "signed_id"
      BY <1>h DEF KeyInv, Signed
    <3>2. f.body.kind # "signed_id"
      BY <1>h, <2>2
    <3>3. web.phase # "loop" => \A i \in 1..Len(toWeb') : toWeb'[i].body.kind # "signed_id"
      BY <2>s, <2>4, <3>1, <3>2
    <3> QED
      BY <1>h, <2>3, <3>1, <3>3 DEF Signed
  <2>6. Clear'
    <3>1. ~web.key.on =>
            /\ ~host.key.on
            /\ \A i \in 1..Len(toHost) : toHost[i].nonce = 0 /\ toHost[i].body.kind # "public_key"
            /\ \A i \in 1..Len(toWeb) : toWeb[i].nonce = 0
      BY DEF KeyInv, Clear
    <3>2. ~web.key.on => f.nonce = 0
      BY <2>2, <3>1
    <3>3. ~web.key.on => \A i \in 1..Len(toWeb') : toWeb'[i].nonce = 0
      BY <2>s, <2>4, <3>1, <3>2
    <3>4. ~web.key.on => ~host'.key.on
      BY <2>1, <2>3, <3>1
    <3> QED
      BY <1>h, <3>1, <3>3, <3>4 DEF Clear
  <2>7. ~(web.key.on /\ ~host.key.on)
    BY <1>h DEF KeyInv, Switching
  <2>8. Switched'
    <3> SUFFICES ASSUME host.key.on PROVE Switched'
      BY <2>1, <2>3 DEF Switched
    <3>1. /\ web.key.on /\ web.key.sent = host'.key.recv + Len(toHost)
          /\ \A i \in 1..Len(toHost) :
               toHost[i].nonce = host'.key.recv + i /\ toHost[i].body.kind # "public_key"
      BY <2>1, <2>3 DEF KeyInv, Switched
    <3>2. ASSUME web.status = "open"
          PROVE  /\ host'.key.sent = web.key.recv + Len(toWeb')
                 /\ \A i \in 1..Len(toWeb') : toWeb'[i].nonce = web.key.recv + i
      <4>1. host.key.sent = web.key.recv + Len(toWeb)
        BY <3>2 DEF KeyInv, Switched
      <4>2. \A i \in 1..Len(toWeb) : toWeb[i].nonce = web.key.recv + i
        BY <3>2 DEF KeyInv, Switched
      <4>3. toWeb' = Append(toWeb, f)
        BY <2>3, <3>2
      <4>4. host'.key.sent = host.key.sent + 1 /\ Len(toWeb') = Len(toWeb) + 1
        BY <2>1, <2>3, <2>4, <4>3
      <4>5. host'.key.sent = web.key.recv + Len(toWeb')
        BY <2>1, <2>4, <4>1, <4>4
      <4>6. ASSUME NEW i \in 1..Len(toWeb') PROVE toWeb'[i].nonce = web.key.recv + i
        <5>1. CASE i \in 1..Len(toWeb)
          BY <5>1, <2>4, <4>2, <4>3
        <5>2. CASE i = Len(toWeb) + 1
          <6>1. toWeb'[i].nonce = host.key.sent + 1
            BY <5>2, <2>2, <2>4, <4>3
          <6> QED
            BY <5>2, <6>1, <4>1, <2>1, <2>4
        <5> QED
          BY <5>1, <5>2, <2>4, <4>4
      <4> QED
        BY <4>5, <4>6
    <3> QED
      BY <1>h, <2>3, <3>1, <3>2 DEF Switched
  <2> QED
    BY <1>0, <1>h, <2>1, <2>3, <2>5, <2>6, <2>7, <2>8 DEF KeyInv, Quiet, Switching
<1>12. CASE HostData
  <2>1. FromHost("data") \in Body /\ FromHost("data").kind # "signed_id"
    BY <1>0 DEF TypeOK, FromHost, Body, Kind
  <2> QED
    BY <1>12, <1>h, <2>1 DEF HostData
<1>13. CASE HostPing
  <2> DEFINE b == [kind |-> "ping", n |-> pings + 1]
  <2>1. b \in Body /\ b.kind # "signed_id"
    BY <1>0 DEF TypeOK, Body, Kind
  <2>2. HostSends(b) /\ host.phase = "loop" /\ UNCHANGED <<web, toHost>>
    BY <1>13 DEF HostPing
  <2> HIDE DEF b
  <2> QED
    BY <1>h, <2>1, <2>2
<1>15. CASE UNCHANGED vars
  <2>1. UNCHANGED <<web, host, toHost, toWeb>>
    BY <1>15 DEF vars
  <2> QED
    BY <1>0, <2>1 DEF KeyInv, KeyOK, Quiet, Signed, Clear, Switching, Switched
<1> QED
  BY <1>1, <1>2, <1>3, <1>4, <1>5, <1>6, <1>7, <1>8, <1>e, <1>9, <1>10, <1>11, <1>12, <1>13,
     <1>14, <1>15 DEF Next

(* Then the next frame is readable, and the counters agree when none is on *)
(* its way.                                                                *)
LEMMA KeyAgrees == KeyInv => CountersAgree
<1> SUFFICES ASSUME KeyInv PROVE CountersAgree
  OBVIOUS
<1>1. /\ toHost \in Seq(Frame) /\ toWeb \in Seq(Frame) /\ TypeOK /\ host.phase # "failed"
      /\ web.key \in End /\ host.key \in End
  BY DEF KeyInv, TypeOK, WebState, HostState
<1>2. web.status = "open" => InStep(web.key, toWeb)
  <2>1. CASE ~web.key.on
    BY <2>1 DEF KeyInv, Clear, InStep
  <2>2. CASE web.key.on /\ ~host.key.on
    <3>1. Len(toWeb) = 0
      BY <2>2 DEF KeyInv, Switching
    <3> QED
      BY <3>1 DEF InStep
  <2>3. CASE host.key.on
    BY <2>3 DEF KeyInv, Switched, InStep
  <2> QED
    BY <2>1, <2>2, <2>3
<1>3. IF SwitchPending THEN Head(toHost).nonce = 0 /\ InStep(SetSecretKey, Tail(toHost))
                       ELSE InStep(host.key, toHost)
  <2>1. CASE toHost = <<>>
    <3>1. Len(toHost) = 0
      BY <2>1
    <3> QED
      BY <3>1 DEF SwitchPending, InStep
  <2> SUFFICES ASSUME toHost # <<>>
               PROVE  IF SwitchPending THEN Head(toHost).nonce = 0 /\ InStep(SetSecretKey, Tail(toHost))
                                       ELSE InStep(host.key, toHost)
    BY <2>1
  <2>2. /\ Head(toHost) = toHost[1] /\ Len(toHost) \in Nat /\ Len(toHost) > 0
        /\ Len(Tail(toHost)) = Len(toHost) - 1
        /\ \A i \in 1..Len(Tail(toHost)) : Tail(toHost)[i] = toHost[i + 1]
    BY <1>1, TailAt
  <2>3. CASE ~web.key.on
    <3>1. /\ \A i \in 1..Len(toHost) : toHost[i].nonce = 0 /\ toHost[i].body.kind # "public_key"
          /\ ~host.key.on
      BY <2>3 DEF KeyInv, Clear
    <3>2. ~SwitchPending
      BY <2>2, <3>1 DEF SwitchPending
    <3> QED
      BY <3>1, <3>2 DEF InStep
  <2>4. CASE web.key.on /\ ~host.key.on
    <3>1. /\ Head(toHost).body.kind = "public_key" /\ Head(toHost).nonce = 0
          /\ \A i \in 2..Len(toHost) : toHost[i].nonce = i - 1
      BY <2>4 DEF KeyInv, Switching
    <3>2. SwitchPending
      BY <2>2, <3>1 DEF SwitchPending
    <3>3. \A i \in 1..Len(Tail(toHost)) : i + 1 \in 2..Len(toHost) /\ Tail(toHost)[i] = toHost[i + 1]
      BY <2>2
    <3>4. \A i \in 1..Len(Tail(toHost)) : Tail(toHost)[i].nonce = 0 + i
      BY <3>1, <3>3
    <3> QED
      BY <3>1, <3>2, <3>4 DEF InStep, SetSecretKey
  <2>5. CASE host.key.on
    <3>1. \A i \in 1..Len(toHost) :
            toHost[i].nonce = host.key.recv + i /\ toHost[i].body.kind # "public_key"
      BY <2>5 DEF KeyInv, Switched
    <3>2. ~SwitchPending
      BY <2>2, <3>1 DEF SwitchPending
    <3> QED
      BY <2>5, <3>1, <3>2 DEF InStep
  <2> QED
    BY <2>3, <2>4, <2>5
<1> QED
  BY <1>1, <1>2, <1>3 DEF CountersAgree

(* The two ends of a relay socket agree on every nonce, however many       *)
(* messages they exchange: across the switch to encryption, with pings     *)
(* answered from inside the receive handler, and whatever is lost with the *)
(* socket, no frame is ever decrypted with a counter it was not made with. *)
THEOREM NoncesAgree == Spec => []CountersAgree
<1>1. Init => KeyInv
  BY KeyInit
<1>2. KeyInv /\ [Next]_vars => KeyInv'
  BY KeyStep
<1>3. KeyInv => CountersAgree
  BY KeyAgrees
<1> QED
  BY <1>1, <1>2, <1>3, PTL DEF Spec

-----------------------------------------------------------------------------
(* Both directions are FIFO.  What the viewer sent is what the host took   *)
(* and what is on its way.                                                 *)
PeerOrder ==
  /\ Len(webSent) = Len(hostGot) + Len(toHost)
  /\ \A i \in 1..Len(toHost) : toHost[i].body = webSent[Len(hostGot) + i]

(* A message of the host carries its number, its pings aside; the numbers  *)
(* in a queue q run from a + 1 to z.                                       *)
Counts(c, q, a, z) ==
  /\ c \in [0..Len(q) -> Nat] /\ c[0] = a /\ c[Len(q)] = z
  /\ \A i \in 1..Len(q) :
       /\ q[i].kind = "ping" => c[i] = c[i - 1]
       /\ q[i].kind # "ping" => c[i] = c[i - 1] + 1 /\ q[i].n = c[i]
Counting(q, a, z) == \E c : Counts(c, q, a, z)

Bodies(frames) == [i \in 1..Len(frames) |-> frames[i].body]
Genuine(b) == b.kind # "ping" => b.n \in 1..Len(hostSent) /\ hostSent[b.n] = b

ViewerOrder ==
  /\ \A i \in 1..Len(web.buf) : Genuine(web.buf[i])
  /\ \A i \in 1..Len(toWeb) : Genuine(toWeb[i].body)
  /\ \E mid \in Nat :
       /\ Counting(web.buf, Len(webGot), mid)
       /\ web.status \in {"", "open"} => Counting(Bodies(toWeb), mid, Len(hostSent))

FifoInv == KeyInv /\ PeerOrder /\ ViewerOrder

(* An empty queue carries no messages. *)
LEMMA CountEmpty == ASSUME NEW a \in Nat PROVE Counting(<<>>, a, a)
<1> DEFINE c == [i \in 0..0 |-> a]
<1>1. Len(<<>>) = 0
  OBVIOUS
<1>2. Counts(c, <<>>, a, a)
  BY <1>1 DEF Counts
<1> QED
  BY <1>2 DEF Counting

(* A ping appended to a queue does not count, another message does. *)
LEMMA CountAppend ==
  ASSUME NEW q \in Seq(Body), NEW b \in Body, NEW a \in Nat, NEW z \in Nat, Counting(q, a, z)
  PROVE  /\ b.kind = "ping" => Counting(Append(q, b), a, z)
         /\ b.kind # "ping" /\ b.n = z + 1 => Counting(Append(q, b), a, z + 1)
<1>1. PICK c : Counts(c, q, a, z)
  BY DEF Counting
<1> DEFINE r == Append(q, b)
           y == IF b.kind = "ping" THEN z ELSE z + 1
           d == [i \in 0..Len(q) + 1 |-> IF i = Len(q) + 1 THEN y ELSE c[i]]
<1>2. /\ Len(q) \in Nat /\ Len(r) = Len(q) + 1 /\ r[Len(q) + 1] = b
      /\ \A i \in 1..Len(q) : r[i] = q[i]
  BY AppendAt
<1>3. /\ c \in [0..Len(q) -> Nat] /\ c[0] = a /\ c[Len(q)] = z
      /\ \A i \in 1..Len(q) :
           /\ q[i].kind = "ping" => c[i] = c[i - 1]
           /\ q[i].kind # "ping" => c[i] = c[i - 1] + 1 /\ q[i].n = c[i]
  BY <1>1 DEF Counts
<1> HIDE DEF r
<1>4. d \in [0..Len(r) -> Nat] /\ d[0] = a /\ d[Len(r)] = y
  BY <1>2, <1>3
<1>5. \A i \in 1..Len(q) : d[i] = c[i] /\ d[i - 1] = c[i - 1]
  BY <1>2, <1>3
<1>6. d[Len(q) + 1] = y /\ d[(Len(q) + 1) - 1] = z
  BY <1>2, <1>3
<1> HIDE DEF d, y
<1>7. ASSUME b.kind # "ping" => b.n = z + 1 PROVE Counts(d, r, a, y)
  <2>1. ASSUME NEW i \in 1..Len(r)
        PROVE  /\ r[i].kind = "ping" => d[i] = d[i - 1]
               /\ r[i].kind # "ping" => d[i] = d[i - 1] + 1 /\ r[i].n = d[i]
    <3>1. CASE i \in 1..Len(q)
      BY <3>1, <1>2, <1>3, <1>5
    <3>2. CASE i = Len(q) + 1
      BY <3>2, <1>2, <1>6, <1>7 DEF y
    <3> QED
      BY <3>1, <3>2, <1>2
  <2> QED
    BY <1>4, <2>1 DEF Counts
<1> QED
  BY <1>7 DEF Counting, y, r

(* The head of a queue that is no ping is the next message. *)
LEMMA CountTail ==
  ASSUME NEW q \in Seq(Body), NEW a \in Nat, NEW z \in Nat, Counting(q, a, z), q # <<>>
  PROVE  /\ Head(q).kind = "ping" => Counting(Tail(q), a, z)
         /\ Head(q).kind # "ping" => Head(q).n = a + 1 /\ Counting(Tail(q), a + 1, z)
<1>1. PICK c : Counts(c, q, a, z)
  BY DEF Counting
<1> DEFINE r == Tail(q)
           d == [i \in 0..Len(q) - 1 |-> c[i + 1]]
<1>2. /\ Head(q) = q[1] /\ Len(q) \in Nat /\ Len(q) > 0 /\ Len(r) = Len(q) - 1
      /\ \A i \in 1..Len(r) : r[i] = q[i + 1]
  BY TailAt
<1>3. /\ c \in [0..Len(q) -> Nat] /\ c[0] = a /\ c[Len(q)] = z
      /\ \A i \in 1..Len(q) :
           /\ q[i].kind = "ping" => c[i] = c[i - 1]
           /\ q[i].kind # "ping" => c[i] = c[i - 1] + 1 /\ q[i].n = c[i]
  BY <1>1 DEF Counts
<1> HIDE DEF r
<1>4. d \in [0..Len(r) -> Nat] /\ d[0] = c[1] /\ d[Len(r)] = z
  BY <1>2, <1>3
<1>5. \A i \in 1..Len(r) : d[i] = c[i + 1] /\ d[i - 1] = c[i]
  BY <1>2, <1>3
<1> HIDE DEF d
<1>6. Counts(d, r, c[1], z)
  <2>1. ASSUME NEW i \in 1..Len(r)
        PROVE  /\ r[i].kind = "ping" => d[i] = d[i - 1]
               /\ r[i].kind # "ping" => d[i] = d[i - 1] + 1 /\ r[i].n = d[i]
    <3>1. i + 1 \in 1..Len(q) /\ (i + 1) - 1 = i
      BY <1>2
    <3>2. /\ q[i + 1].kind = "ping" => c[i + 1] = c[i]
          /\ q[i + 1].kind # "ping" => c[i + 1] = c[i] + 1 /\ q[i + 1].n = c[i + 1]
      BY <3>1, <1>3
    <3>3. r[i] = q[i + 1] /\ d[i] = c[i + 1] /\ d[i - 1] = c[i]
      BY <1>2, <1>5
    <3> QED
      BY <3>2, <3>3
  <2> QED
    BY <1>4, <2>1 DEF Counts
<1>7. /\ Head(q).kind = "ping" => c[1] = a
      /\ Head(q).kind # "ping" => c[1] = a + 1 /\ Head(q).n = c[1]
  BY <1>2, <1>3
<1> QED
  BY <1>6, <1>7 DEF Counting, r

(* The bodies of the frames on a wire are as many as the frames. *)
LEMMA BodiesType ==
  ASSUME NEW t \in Seq(Frame)
  PROVE  Bodies(t) \in Seq(Body) /\ Len(Bodies(t)) = Len(t)
<1>1. Len(t) \in Nat /\ \A i \in 1..Len(t) : t[i] \in Frame
  OBVIOUS
<1>2. \A i \in 1..Len(t) : t[i].body \in Body
  BY <1>1 DEF Frame
<1>3. [i \in 1..Len(t) |-> t[i].body] \in Seq(Body)
  BY <1>1, <1>2
<1>4. Len([i \in 1..Len(t) |-> t[i].body]) = Len(t)
  BY <1>1, <1>3
<1> QED
  BY <1>3, <1>4 DEF Bodies

(* They are appended and taken with their frames. *)
LEMMA BodiesEnds ==
  ASSUME NEW t \in Seq(Frame)
  PROVE  /\ \A f \in Frame : Bodies(Append(t, f)) = Append(Bodies(t), f.body)
         /\ t # <<>> => /\ Bodies(t) # <<>> /\ Head(Bodies(t)) = Head(t).body
                        /\ Bodies(Tail(t)) = Tail(Bodies(t))
<1>1. Bodies(t) \in Seq(Body) /\ Len(Bodies(t)) = Len(t) /\ Len(t) \in Nat
  BY BodiesType
<1>2. ASSUME NEW f \in Frame PROVE Bodies(Append(t, f)) = Append(Bodies(t), f.body)
  <2>1. f.body \in Body /\ Append(t, f) \in Seq(Frame)
    BY DEF Frame
  <2> QED
    BY <1>1, <2>1 DEF Bodies
<1>3. ASSUME t # <<>>
      PROVE  /\ Bodies(t) # <<>> /\ Head(Bodies(t)) = Head(t).body
             /\ Bodies(Tail(t)) = Tail(Bodies(t))
  <2>1. Len(t) > 0 /\ Head(t) = t[1] /\ Len(Tail(t)) = Len(t) - 1
    BY <1>3
  <2>2. Bodies(t) # <<>>
    BY <1>1, <2>1
  <2>3. Head(Bodies(t)) = Bodies(t)[1]
    BY <1>1, <2>2
  <2> QED
    BY <1>1, <1>3, <2>1, <2>2, <2>3 DEF Bodies
<1> QED
  BY <1>2, <1>3

-----------------------------------------------------------------------------
(* What a step may do to the viewer's direction... *)
PeerKeeps == UNCHANGED <<toHost, webSent, hostGot>>
PeerSends(f) ==
  toHost' = Append(toHost, f) /\ webSent' = Append(webSent, f.body) /\ UNCHANGED hostGot
PeerTakes ==
  /\ toHost # <<>> /\ toHost' = Tail(toHost)
  /\ hostGot' = Append(hostGot, Head(toHost).body) /\ UNCHANGED webSent

(* What a step can do to the wire towards the peer: nothing, a message of  *)
(* the viewer appended, or the peer taking the first frame.                *)
LEMMA PeerSteps ==
  ASSUME KeyInv, [Next]_vars
  PROVE  PeerKeeps \/ (\E f \in Frame : PeerSends(f)) \/ PeerTakes
<1>0. TypeOK
  BY DEF KeyInv
<1>k. web \in WebState /\ web.key \in End /\ \A kind \in Kind : Control(kind) \in Body
  BY <1>0 DEF TypeOK, WebState, Control, Body
<1>t. ASSUME NEW W, NEW b \in Body, W.key \in End, Transmit(W, b), UNCHANGED hostGot
      PROVE  PeerKeeps \/ \E f \in Frame : PeerSends(f)
  <2> DEFINE f == Encrypt(W.key, b)
  <2>1. f \in Frame /\ f.body = b
    BY <1>t, CountType DEF Encrypt
  <2> QED
    BY <1>t, <2>1 DEF Transmit, PeerKeeps, PeerSends
<1>1. CASE WebOpened
  <2> DEFINE W == Ready([web EXCEPT !.status = "open"])
  <2>1. W.key \in End
    BY <1>k DEF Ready, WebState
  <2> HIDE DEF W
  <2> QED
    BY <1>1, <1>t, <1>k, <2>1 DEF WebOpened, WebSends, PeerKeeps, Kind, W
<1>2. CASE HandshakeTakes
  <2> DEFINE W == Ready([web EXCEPT !.buf = Tail(@)])
  <2>1. W.key \in End
    BY <1>k DEF Ready, WebState
  <2> HIDE DEF W
  <2> QED
    BY <1>2, <1>t, <1>k, <2>1 DEF HandshakeTakes, WebSends, PeerKeeps, Kind, W
<1>3. CASE HandshakeVerified
  BY <1>3, <1>t, <1>k DEF HandshakeVerified, Kind
<1>4. CASE HandshakeRefused
  <2>1. Ready(web).key \in End
    BY <1>k DEF Ready, WebState
  <2> QED
    BY <1>4, <1>t, <1>k, <2>1 DEF HandshakeRefused, WebSends, Kind
<1>6. CASE WebData
  <2>1. Data(Len(webSent) + 1) \in Body
    BY <1>0 DEF TypeOK, Data, Body, Kind
  <2> QED
    BY <1>6, <1>t, <1>k, <2>1 DEF WebData, WebSends
<1>9. CASE RecvMessage
  <2> DEFINE W == [web EXCEPT !.key = CountRecv(@)]
             b == [kind |-> "echo", n |-> Head(toWeb).body.n]
  <2>1. W.key \in End
    BY <1>k, CountType DEF WebState
  <2>2. b \in Body
    <3>1. Head(toWeb) \in Frame
      BY <1>0, <1>9 DEF RecvMessage, TypeOK
    <3> QED
      BY <3>1 DEF Frame, Body, Kind
  <2>3. UNCHANGED hostGot /\ (UNCHANGED <<toHost, webSent>> \/ Transmit(W, b))
    BY <1>9 DEF RecvMessage, WebSends
  <2> HIDE DEF W, b
  <2> QED
    BY <1>t, <2>1, <2>2, <2>3 DEF PeerKeeps
<1>11. CASE HostRecv
  <2>1. KeyInv' /\ host \in HostState
    BY <1>0, KeyStep DEF TypeOK
  <2>2. host'.phase # "failed"
    BY <2>1 DEF KeyInv
  <2>3. Decrypts(host.key, Head(toHost))
    BY <1>11, <2>1, <2>2 DEF HostRecv, HostState
  <2> QED
    BY <1>11, <2>3 DEF HostRecv, PeerTakes
<1>12. CASE \/ HandshakeRejected \/ LoopTakes \/ LoopEnds \/ Close
            \/ HostStart \/ HostData \/ HostPing \/ SocketLost
  BY <1>12
  DEF HandshakeRejected, LoopTakes, LoopEnds, Close, HostStart, HostData, HostPing, SocketLost, PeerKeeps
<1>13. CASE UNCHANGED vars
  BY <1>13 DEF vars, PeerKeeps
<1> QED
  BY <1>1, <1>2, <1>3, <1>4, <1>6, <1>9, <1>11, <1>12, <1>13 DEF Next

(* ... and to the host's. *)
Alive(status) == status \in {"", "open"}
ViewerKeeps ==
  /\ UNCHANGED <<webGot, hostSent>> /\ web'.buf = web.buf
  /\ toWeb' = toWeb \/ toWeb' = <<>>
  /\ Alive(web'.status) => Alive(web.status) /\ toWeb' = toWeb
HostSendsFrame(f) ==
  /\ UNCHANGED <<web, webGot>>
  /\ toWeb' = Append(toWeb, f) \/ (toWeb' = toWeb /\ ~Alive(web.status))
  /\ \/ f.body.kind = "ping" /\ UNCHANGED hostSent
     \/ /\ f.body.kind # "ping" /\ f.body.n = Len(hostSent) + 1
        /\ hostSent' = Append(hostSent, f.body)
ViewerTakes ==
  /\ web.buf # <<>> /\ web'.buf = Tail(web.buf) /\ web'.status = web.status
  /\ Got(Head(web.buf)) /\ UNCHANGED <<toWeb, hostSent>>
ViewerReceives ==
  /\ Alive(web.status) /\ toWeb # <<>> /\ toWeb' = Tail(toWeb) /\ Alive(web'.status)
  /\ \/ web'.buf = Append(web.buf, Head(toWeb).body)
     \/ Head(toWeb).body.kind = "ping" /\ web'.buf = web.buf
  /\ UNCHANGED <<webGot, hostSent>>

(* What a step can do to the wire towards the viewer and to its buffer. *)
LEMMA ViewerSteps ==
  ASSUME KeyInv, [Next]_vars
  PROVE  ViewerKeeps \/ (\E f \in Frame : HostSendsFrame(f)) \/ ViewerTakes \/ ViewerReceives
<1>0. TypeOK
  BY DEF KeyInv
<1>k. web \in WebState /\ host.key \in End /\ toWeb \in Seq(Frame) /\ web.key \in End
  BY <1>0 DEF TypeOK, WebState, HostState
<1>1. CASE WebOpened
  <2>1. web'.buf = web.buf
    BY <1>1, <1>k DEF WebOpened, WebSends, Ready, WebState
  <2> QED
    BY <1>1, <2>1 DEF WebOpened, ViewerKeeps, Alive
<1>2. CASE HandshakeTakes
  <2>1. web'.buf = Tail(web.buf) /\ web'.status = web.status
    BY <1>2, <1>k DEF HandshakeTakes, WebSends, Ready, WebState
  <2> QED
    BY <1>2, <2>1 DEF HandshakeTakes, ViewerTakes
<1>3. CASE HandshakeVerified \/ HandshakeRefused \/ HandshakeRejected \/ WebData
  <2>1. web'.buf = web.buf /\ web'.status = web.status
    BY <1>3, <1>k
    DEF HandshakeVerified, HandshakeRefused, HandshakeRejected, WebData, WebSends, Ready, WebState
  <2> QED
    BY <1>3, <2>1 DEF HandshakeVerified, HandshakeRefused, HandshakeRejected, WebData, ViewerKeeps
<1>7. CASE LoopTakes
  <2>1. web'.buf = Tail(web.buf) /\ web'.status = web.status
    BY <1>7, <1>k DEF LoopTakes, WebState
  <2> QED
    BY <1>7, <2>1 DEF LoopTakes, ViewerTakes
<1>15. CASE LoopEnds
  <2>1. web'.buf = web.buf /\ web'.status = web.status
    BY <1>15, <1>k DEF LoopEnds, WebState
  <2> QED
    BY <1>15, <2>1 DEF LoopEnds, ViewerKeeps
<1>8. CASE Close \/ SocketLost
  <2>1. web'.buf = web.buf /\ web'.status \in {"closed", "event"}
    BY <1>8, <1>k DEF Close, SocketLost, WebState
  <2> QED
    BY <1>8, <2>1 DEF Close, SocketLost, ViewerKeeps, Alive
<1>9. CASE RecvMessage
  <2> DEFINE f == Head(toWeb)
             W == [web EXCEPT !.key = CountRecv(@)]
  <2>1. Decrypts(web.key, f)
    <3>1. InStep(web.key, toWeb) /\ web.status = "open" /\ toWeb # <<>>
      BY <1>9, KeyAgrees DEF RecvMessage, CountersAgree
    <3>2. f = toWeb[1] /\ Len(toWeb) \in Nat /\ Len(toWeb) > 0
      BY <1>k, <3>1, TailAt
    <3>3. f.nonce = IF web.key.on THEN web.key.recv + 1 ELSE 0
      BY <3>1, <3>2 DEF InStep
    <3> HIDE DEF f
    <3> QED
      BY <1>k, <3>3, CountType DEF Decrypts, KeyInv, KeyOK
  <2>2. W \in WebState /\ W.status = web.status /\ W.buf = web.buf
    BY <1>k, CountType DEF WebState
  <2>3. web.status = "open" /\ toWeb # <<>> /\ toWeb' = Tail(toWeb) /\ UNCHANGED <<webGot, hostSent>>
    BY <1>9 DEF RecvMessage
  <2>4. CASE web.ingress /\ f.body.kind = "ping"
    <3>1. web' = [W EXCEPT !.key = CountSent(@)]
      BY <1>9, <2>1, <2>4 DEF RecvMessage, WebSends
    <3> HIDE DEF W
    <3>2. web'.buf = web.buf /\ web'.status = web.status
      BY <2>2, <3>1 DEF WebState
    <3> QED
      BY <2>3, <2>4, <3>2 DEF ViewerReceives, Alive
  <2>5. CASE ~(web.ingress /\ f.body.kind = "ping")
    <3>1. web' = [W EXCEPT !.buf = Append(@, f.body)]
      BY <1>9, <2>1, <2>5 DEF RecvMessage
    <3> HIDE DEF W
    <3>2. web'.buf = Append(web.buf, f.body) /\ web'.status = web.status
      BY <2>2, <3>1 DEF WebState
    <3> QED
      BY <2>3, <3>2 DEF ViewerReceives, Alive
  <2> QED
    BY <2>4, <2>5
<1>f. ASSUME NEW kind \in Kind, kind # "ping"
      PROVE  /\ FromHost(kind) \in Body /\ FromHost(kind).kind # "ping"
             /\ FromHost(kind).n = Len(hostSent) + 1
  BY <1>0, <1>f DEF TypeOK, FromHost, Body
<1>e. \A b \in Body : Encrypt(host.key, b) \in Frame /\ Encrypt(host.key, b).body = b
  BY <1>k, CountType DEF Encrypt
<1>10. CASE HostStart
  <2> DEFINE b == FromHost("signed_id")
             f == Encrypt(host.key, b)
  <2>1. b \in Body /\ b.kind # "ping" /\ b.n = Len(hostSent) + 1
    BY <1>f DEF Kind
  <2>2. f \in Frame /\ f.body = b
    BY <1>e, <2>1
  <2>3. /\ UNCHANGED <<web, webGot>>
        /\ \/ toWeb' = Append(toWeb, f) /\ hostSent' = Append(hostSent, b)
           \/ UNCHANGED <<toWeb, hostSent>>
    BY <1>10 DEF HostStart
  <2> HIDE DEF f, b
  <2>4. HostSendsFrame(f) \/ ViewerKeeps
    BY <2>1, <2>2, <2>3 DEF HostSendsFrame, ViewerKeeps
  <2> QED
    BY <2>2, <2>4
<1>12. CASE HostData
  <2> DEFINE b == FromHost("data")
             f == Encrypt(host.key, b)
  <2>1. b \in Body /\ b.kind # "ping" /\ b.n = Len(hostSent) + 1
    BY <1>f DEF Kind
  <2>2. f \in Frame /\ f.body = b
    BY <1>e, <2>1
  <2>3. /\ UNCHANGED <<web, webGot>> /\ hostSent' = Append(hostSent, b)
        /\ toWeb' = IF web.status \in {"", "open"} THEN Append(toWeb, f) ELSE toWeb
    BY <1>12 DEF HostData, HostSends
  <2> HIDE DEF f, b
  <2>4. HostSendsFrame(f)
    BY <2>1, <2>2, <2>3 DEF HostSendsFrame, Alive
  <2> QED
    BY <2>2, <2>4
<1>13. CASE HostPing
  <2> DEFINE b == [kind |-> "ping", n |-> pings + 1]
             f == Encrypt(host.key, b)
  <2>1. b \in Body /\ b.kind = "ping"
    BY <1>0 DEF TypeOK, Body, Kind
  <2>2. f \in Frame /\ f.body = b
    BY <1>e, <2>1
  <2>3. /\ UNCHANGED <<web, webGot, hostSent>>
        /\ toWeb' = IF web.status \in {"", "open"} THEN Append(toWeb, f) ELSE toWeb
    BY <1>13 DEF HostPing, HostSends
  <2> HIDE DEF f, b
  <2>4. HostSendsFrame(f)
    BY <2>1, <2>2, <2>3 DEF HostSendsFrame, Alive
  <2> QED
    BY <2>2, <2>4
<1>14. CASE HostRecv \/ UNCHANGED vars
  BY <1>14 DEF HostRecv, vars, ViewerKeeps
<1> QED
  BY <1>1, <1>2, <1>3, <1>7, <1>8, <1>15, <1>9, <1>10, <1>12, <1>13, <1>14 DEF Next

-----------------------------------------------------------------------------
(* An appended message leaves the earlier ones where they were. *)
LEMMA SendAppends ==
  ASSUME NEW S, NEW s \in Seq(S), NEW x \in S
  PROVE  Len(Append(s, x)) = Len(s) + 1 /\ SubSeq(Append(s, x), 1, Len(s)) = s
  OBVIOUS

(* Towards the peer every step sends, delivers the oldest message that was *)
(* not delivered, or changes nothing.                                      *)
LEMMA PeerStep ==
  ASSUME FifoInv, [Next]_vars
  PROVE  PeerOrder' /\ [ToPeer!Send \/ ToPeer!Get]_(ToPeer!vars)
<1>0. /\ toHost \in Seq(Frame) /\ webSent \in Seq(Body) /\ hostGot \in Seq(Body)
      /\ Len(webSent) \in Nat /\ Len(hostGot) \in Nat /\ Len(toHost) \in Nat
  BY DEF FifoInv, KeyInv, TypeOK
<1>n. Len(webSent) \in Nat /\ Len(hostGot) \in Nat /\ Len(toHost) \in Nat
  BY <1>0
<1>o. /\ Len(webSent) = Len(hostGot) + Len(toHost)
      /\ \A i \in 1..Len(toHost) : toHost[i].body = webSent[Len(hostGot) + i]
  BY DEF FifoInv, PeerOrder
<1>1. CASE PeerKeeps
  BY <1>1 DEF PeerKeeps, FifoInv, PeerOrder, ToPeer!vars
<1>2. ASSUME NEW f \in Frame, PeerSends(f)
      PROVE  PeerOrder' /\ ToPeer!Send
  <2>1. f.body \in Body /\ toHost' = Append(toHost, f) /\ webSent' = Append(webSent, f.body)
        /\ hostGot' = hostGot
    BY <1>2 DEF Frame, PeerSends
  <2>2. /\ Len(toHost') = Len(toHost) + 1 /\ toHost'[Len(toHost) + 1] = f
        /\ \A i \in 1..Len(toHost) : toHost'[i] = toHost[i]
    BY <1>0, <2>1, AppendAt
  <2>3. /\ Len(webSent') = Len(webSent) + 1 /\ webSent'[Len(webSent) + 1] = f.body
        /\ \A i \in 1..Len(webSent) : webSent'[i] = webSent[i]
        /\ SubSeq(webSent', 1, Len(webSent)) = webSent
    BY <1>0, <2>1, AppendAt, SendAppends
  <2>4. Len(webSent') = Len(hostGot') + Len(toHost')
    BY <1>n, <1>o, <2>1, <2>2, <2>3
  <2>5. ASSUME NEW i \in 1..Len(toHost') PROVE toHost'[i].body = webSent'[Len(hostGot') + i]
    <3>1. CASE i \in 1..Len(toHost)
      <4>1. toHost'[i].body = webSent[Len(hostGot) + i]
        BY <3>1, <1>o, <2>2
      <4>2. Len(hostGot) + i \in 1..Len(webSent)
        BY <3>1, <1>n, <1>o
      <4> QED
        BY <4>1, <4>2, <2>1, <2>3
    <3>2. CASE i = Len(toHost) + 1
      <4>1. Len(hostGot) + i = Len(webSent) + 1
        BY <3>2, <1>n, <1>o
      <4> QED
        BY <3>2, <4>1, <2>1, <2>2, <2>3
    <3> QED
      BY <3>1, <3>2, <1>n, <2>2
  <2> QED
    BY <2>1, <2>3, <2>4, <2>5 DEF PeerOrder, ToPeer!Send
<1>3. CASE PeerTakes
  <2>1. /\ toHost # <<>> /\ toHost' = Tail(toHost) /\ webSent' = webSent
        /\ hostGot' = Append(hostGot, Head(toHost).body)
    BY <1>3 DEF PeerTakes
  <2>2. /\ Head(toHost) \in Frame /\ Head(toHost) = toHost[1] /\ Len(toHost) > 0
        /\ Len(toHost') = Len(toHost) - 1
        /\ \A i \in 1..Len(toHost') : toHost'[i] = toHost[i + 1]
    BY <1>0, <2>1, TailAt
  <2>3. Head(toHost).body \in Body /\ Head(toHost).body = webSent[Len(hostGot) + 1]
    BY <1>n, <1>o, <2>2 DEF Frame
  <2>4. Len(hostGot') = Len(hostGot) + 1
    BY <1>0, <2>1, <2>3, AppendAt
  <2>5. Len(webSent') = Len(hostGot') + Len(toHost')
    <3>1. Len(webSent) = Len(hostGot) + Len(toHost)
      BY <1>o
    <3> QED
      BY <1>n, <2>1, <2>2, <2>4, <3>1
  <2>6. ASSUME NEW i \in 1..Len(toHost') PROVE toHost'[i].body = webSent'[Len(hostGot') + i]
    <3>1. toHost'[i] = toHost[i + 1] /\ i + 1 \in 1..Len(toHost)
      BY <1>n, <2>2
    <3>2. toHost[i + 1].body = webSent[Len(hostGot) + (i + 1)]
      BY <3>1, <1>o
    <3>3. Len(hostGot) + (i + 1) = Len(hostGot') + i
      BY <1>n, <2>4
    <3> QED
      BY <3>1, <3>2, <3>3, <2>1
  <2>7. Len(hostGot) < Len(webSent)
    BY <1>n, <1>o, <2>2
  <2> QED
    BY <2>1, <2>3, <2>5, <2>6, <2>7 DEF PeerOrder, ToPeer!Get
<1> QED
  BY <1>1, <1>2, <1>3, PeerSteps DEF FifoInv

(* The same towards the viewer, where pings are answered and not           *)
(* delivered, and messages wait in the buffer until next() asks.           *)
LEMMA ViewerStep ==
  ASSUME FifoInv, [Next]_vars
  PROVE  ViewerOrder' /\ [ToViewer!Send \/ ToViewer!Get]_(ToViewer!vars)
<1>0. /\ toWeb \in Seq(Frame) /\ hostSent \in Seq(Body) /\ webGot \in Seq(Body)
      /\ web.buf \in Seq(Body)
  BY DEF FifoInv, KeyInv, TypeOK, WebState
<1>n. Len(hostSent) \in Nat /\ Len(webGot) \in Nat /\ Len(toWeb) \in Nat /\ Len(web.buf) \in Nat
  BY <1>0
<1>g. /\ \A i \in 1..Len(web.buf) : Genuine(web.buf[i])
      /\ \A i \in 1..Len(toWeb) : Genuine(toWeb[i].body)
  BY DEF FifoInv, ViewerOrder
<1>m. PICK mid \in Nat : /\ Counting(web.buf, Len(webGot), mid)
                         /\ Alive(web.status) => Counting(Bodies(toWeb), mid, Len(hostSent))
  BY DEF FifoInv, ViewerOrder, Alive
<1>b. Bodies(toWeb) \in Seq(Body)
  BY <1>0, BodiesType
(* The form in which the invariant is shown to hold again. *)
<1>v. ASSUME NEW m \in Nat, \A i \in 1..Len(web'.buf) : Genuine(web.buf[i])',
             \A i \in 1..Len(toWeb') : Genuine(toWeb[i].body)',
             Counting(web'.buf, Len(webGot'), m),
             Alive(web'.status) => Counting(Bodies(toWeb'), m, Len(hostSent'))
      PROVE  ViewerOrder'
  BY <1>v DEF ViewerOrder, Alive
<1>1. CASE ViewerKeeps
  <2>1. /\ webGot' = webGot /\ hostSent' = hostSent /\ web'.buf = web.buf
        /\ toWeb' = toWeb \/ toWeb' = <<>>
        /\ Alive(web'.status) => Alive(web.status) /\ toWeb' = toWeb
    BY <1>1 DEF ViewerKeeps
  <2>2. Len(<<>>) = 0
    OBVIOUS
  <2>3. /\ \A i \in 1..Len(web'.buf) : Genuine(web.buf[i])'
        /\ \A i \in 1..Len(toWeb') : Genuine(toWeb[i].body)'
    BY <1>g, <2>1, <2>2 DEF Genuine
  <2>4. Counting(web'.buf, Len(webGot'), mid)
    BY <1>m, <2>1
  <2>5. Alive(web'.status) => Counting(Bodies(toWeb'), mid, Len(hostSent'))
    BY <1>m, <2>1
  <2> QED
    BY <1>v, <2>1, <2>3, <2>4, <2>5 DEF ToViewer!vars
(* What was genuine stays so when the host sends more. *)
<1>h. ASSUME NEW b, Genuine(b), NEW x \in Body, hostSent' = Append(hostSent, x)
      PROVE  b.kind # "ping" => b.n \in 1..Len(hostSent') /\ hostSent'[b.n] = b
  <2>1. /\ Len(hostSent') = Len(hostSent) + 1
        /\ \A i \in 1..Len(hostSent) : hostSent'[i] = hostSent[i]
    BY <1>0, <1>h, AppendAt
  <2>2. b.kind # "ping" => b.n \in 1..Len(hostSent) /\ hostSent[b.n] = b
    BY <1>h DEF Genuine
  <2> QED
    BY <1>n, <2>1, <2>2
<1>2. ASSUME NEW f \in Frame, HostSendsFrame(f)
      PROVE  ViewerOrder' /\ [ToViewer!Send]_(ToViewer!vars)
  <2>1. /\ web' = web /\ webGot' = webGot /\ f.body \in Body
        /\ toWeb' = Append(toWeb, f) \/ (toWeb' = toWeb /\ ~Alive(web.status))
    BY <1>2 DEF HostSendsFrame, Frame
  <2>2. /\ Len(Append(toWeb, f)) = Len(toWeb) + 1 /\ Append(toWeb, f)[Len(toWeb) + 1] = f
        /\ \A i \in 1..Len(toWeb) : Append(toWeb, f)[i] = toWeb[i]
    BY <1>0, AppendAt
  <2>3. /\ Bodies(Append(toWeb, f)) = Append(Bodies(toWeb), f.body)
        /\ Alive(web.status) => Counting(Bodies(toWeb), mid, Len(hostSent))
    BY <1>0, <1>m, BodiesEnds
  <2>4. Counting(web'.buf, Len(webGot'), mid)
    BY <1>m, <2>1
  <2>5. CASE f.body.kind = "ping" /\ UNCHANGED hostSent
    <3>1. Alive(web'.status) => Counting(Bodies(toWeb'), mid, Len(hostSent'))
      BY <1>n, <1>b, <2>1, <2>3, <2>5, CountAppend
    <3>2. \A i \in 1..Len(web'.buf) : Genuine(web.buf[i])'
      BY <1>g, <2>1, <2>5 DEF Genuine
    <3>3. Genuine(f.body)
      BY <2>5 DEF Genuine
    <3>4. \A i \in 1..Len(toWeb') : Genuine(toWeb'[i].body)
      <4>1. CASE toWeb' = toWeb
        BY <4>1, <1>g
      <4>2. CASE toWeb' = Append(toWeb, f)
        BY <4>2, <1>g, <1>n, <2>2, <3>3
      <4> QED
        BY <4>1, <4>2, <2>1
    <3>5. \A i \in 1..Len(toWeb') : Genuine(toWeb[i].body)'
      BY <2>5, <3>4 DEF Genuine
    <3> QED
      BY <1>v, <2>1, <2>4, <2>5, <3>1, <3>2, <3>5 DEF ToViewer!vars
  <2>6. CASE /\ f.body.kind # "ping" /\ f.body.n = Len(hostSent) + 1
             /\ hostSent' = Append(hostSent, f.body)
    <3>1. /\ Len(hostSent') = Len(hostSent) + 1 /\ hostSent'[Len(hostSent) + 1] = f.body
          /\ SubSeq(hostSent', 1, Len(hostSent)) = hostSent
      BY <1>0, <2>1, <2>6, AppendAt, SendAppends
    <3>2. Alive(web'.status) => Counting(Bodies(toWeb'), mid, Len(hostSent'))
      <4> SUFFICES ASSUME Alive(web.status) PROVE Counting(Bodies(toWeb'), mid, Len(hostSent'))
        BY <2>1
      <4>1. Bodies(toWeb') = Append(Bodies(toWeb), f.body)
        BY <2>1, <2>3
      <4>2. Counting(Append(Bodies(toWeb), f.body), mid, Len(hostSent) + 1)
        BY <1>n, <1>b, <2>1, <2>3, <2>6, CountAppend
      <4> QED
        BY <3>1, <4>1, <4>2
    <3>3. \A i \in 1..Len(web'.buf) : Genuine(web.buf[i])'
      BY <1>g, <1>h, <2>1, <2>6 DEF Genuine
    <3>4. f.body.n \in 1..Len(hostSent') /\ hostSent'[f.body.n] = f.body
      BY <1>n, <2>6, <3>1
    <3>5. ASSUME NEW i \in 1..Len(toWeb') PROVE Genuine(toWeb[i].body)'
      <4>1. CASE i \in 1..Len(toWeb)
        <5>1. toWeb'[i] = toWeb[i]
          BY <4>1, <2>1, <2>2
        <5>2. toWeb[i].body.kind # "ping" =>
                toWeb[i].body.n \in 1..Len(hostSent') /\ hostSent'[toWeb[i].body.n] = toWeb[i].body
          BY <4>1, <1>g, <1>h, <2>1, <2>6
        <5> QED
          BY <5>1, <5>2 DEF Genuine
      <4>2. CASE i = Len(toWeb) + 1 /\ toWeb' = Append(toWeb, f)
        BY <4>2, <2>2, <3>4 DEF Genuine
      <4> QED
        BY <4>1, <4>2, <1>n, <2>1, <2>2
    <3>6. ToViewer!Send
      BY <2>1, <3>1 DEF ToViewer!Send
    <3> QED
      BY <1>v, <2>4, <3>2, <3>3, <3>5, <3>6
  <2> QED
    BY <1>2, <2>5, <2>6 DEF HostSendsFrame
<1>3. CASE ViewerTakes
  <2> DEFINE b == Head(web.buf)
  <2>1. /\ web.buf # <<>> /\ web'.buf = Tail(web.buf) /\ web'.status = web.status
        /\ toWeb' = toWeb /\ hostSent' = hostSent /\ Got(b)
    BY <1>3 DEF ViewerTakes
  <2>2. /\ b \in Body /\ b = web.buf[1] /\ Len(web.buf) > 0 /\ Len(web'.buf) = Len(web.buf) - 1
        /\ \A i \in 1..Len(web'.buf) : web'.buf[i] = web.buf[i + 1]
    BY <1>0, <2>1, TailAt
  <2>3. /\ b.kind = "ping" => Counting(web'.buf, Len(webGot), mid)
        /\ b.kind # "ping" => b.n = Len(webGot) + 1 /\ Counting(web'.buf, Len(webGot) + 1, mid)
    BY <1>0, <1>n, <1>m, <2>1, CountTail
  <2>4. Genuine(b)
    BY <1>g, <1>n, <2>2
  <2> HIDE DEF b
  <2>5. \A i \in 1..Len(web'.buf) : Genuine(web.buf[i])'
    <3>1. \A i \in 1..Len(web'.buf) : i + 1 \in 1..Len(web.buf)
      BY <1>n, <2>2
    <3> QED
      BY <1>g, <2>1, <2>2, <3>1 DEF Genuine
  <2>6. \A i \in 1..Len(toWeb') : Genuine(toWeb[i].body)'
    BY <1>g, <2>1 DEF Genuine
  <2>7. Alive(web'.status) => Counting(Bodies(toWeb'), mid, Len(hostSent'))
    BY <1>m, <2>1
  <2>8. CASE b.kind = "ping"
    <3>1. webGot' = webGot
      BY <2>1, <2>8 DEF Got
    <3> QED
      BY <1>v, <2>1, <2>3, <2>5, <2>6, <2>7, <2>8, <3>1 DEF ToViewer!vars
  <2>9. CASE b.kind # "ping"
    <3>1. webGot' = Append(webGot, b)
      BY <2>1, <2>9 DEF Got
    <3>2. Len(webGot') = Len(webGot) + 1
      BY <1>0, <2>2, <3>1, AppendAt
    <3>3. Counting(web'.buf, Len(webGot'), mid)
      BY <2>3, <2>9, <3>2
    <3>4. b = hostSent[Len(webGot) + 1] /\ Len(webGot) < Len(hostSent)
      BY <1>n, <2>3, <2>4, <2>9 DEF Genuine
    <3>5. ToViewer!Get
      BY <2>1, <3>1, <3>4 DEF ToViewer!Get
    <3> QED
      BY <1>v, <2>5, <2>6, <2>7, <3>3, <3>5
  <2> QED
    BY <2>8, <2>9
<1>4. CASE ViewerReceives
  <2> DEFINE b == Head(toWeb).body
             m == IF b.kind = "ping" THEN mid ELSE mid + 1
  <2>1. /\ Alive(web.status) /\ toWeb # <<>> /\ toWeb' = Tail(toWeb) /\ Alive(web'.status)
        /\ web'.buf = Append(web.buf, b) \/ (b.kind = "ping" /\ web'.buf = web.buf)
        /\ webGot' = webGot /\ hostSent' = hostSent
    BY <1>4 DEF ViewerReceives
  <2>2. /\ Head(toWeb) \in Frame /\ Head(toWeb) = toWeb[1] /\ Len(toWeb) > 0
        /\ Len(toWeb') = Len(toWeb) - 1
        /\ \A i \in 1..Len(toWeb') : toWeb'[i] = toWeb[i + 1]
    BY <1>0, <2>1, TailAt
  <2>3. b \in Body /\ Genuine(b)
    BY <1>g, <1>n, <2>2 DEF Frame
  <2>4. /\ Bodies(toWeb) # <<>> /\ Head(Bodies(toWeb)) = b /\ Bodies(toWeb') = Tail(Bodies(toWeb))
    BY <1>0, <2>1, BodiesEnds
  <2> HIDE DEF b
  <2>5. /\ b.kind = "ping" => Counting(Bodies(toWeb'), mid, Len(hostSent))
        /\ b.kind # "ping" => b.n = mid + 1 /\ Counting(Bodies(toWeb'), mid + 1, Len(hostSent))
    BY <1>b, <1>n, <1>m, <2>1, <2>4, CountTail
  <2>6. /\ b.kind = "ping" => Counting(Append(web.buf, b), Len(webGot), mid)
        /\ b.kind # "ping" => Counting(Append(web.buf, b), Len(webGot), mid + 1)
    BY <1>0, <1>n, <1>m, <2>3, <2>5, CountAppend
  <2>7. /\ m \in Nat /\ Counting(web'.buf, Len(webGot'), m)
        /\ Counting(Bodies(toWeb'), m, Len(hostSent'))
    <3>1. CASE b.kind = "ping"
      <4>1. m = mid /\ Counting(web'.buf, Len(webGot'), mid)
        BY <1>m, <2>1, <2>6, <3>1
      <4> QED
        BY <1>m, <2>1, <2>5, <3>1, <4>1
    <3>2. CASE b.kind # "ping"
      <4>1. m = mid + 1 /\ web'.buf = Append(web.buf, b)
        BY <2>1, <3>2
      <4> QED
        BY <1>m, <2>1, <2>5, <2>6, <3>2, <4>1
    <3> QED
      BY <3>1, <3>2
  <2>8. \A i \in 1..Len(toWeb') : Genuine(toWeb[i].body)'
    <3>1. \A i \in 1..Len(toWeb') : i + 1 \in 1..Len(toWeb)
      BY <1>n, <2>2
    <3> QED
      BY <1>g, <2>1, <2>2, <3>1 DEF Genuine
  <2>9. \A i \in 1..Len(web'.buf) : Genuine(web.buf[i])'
    <3>1. /\ Len(Append(web.buf, b)) = Len(web.buf) + 1 /\ Append(web.buf, b)[Len(web.buf) + 1] = b
          /\ \A i \in 1..Len(web.buf) : Append(web.buf, b)[i] = web.buf[i]
      BY <1>0, <2>3, AppendAt
    <3>2. \A i \in 1..Len(web'.buf) : Genuine(web'.buf[i])
      <4>1. CASE web'.buf = web.buf
        BY <4>1, <1>g
      <4>2. CASE web'.buf = Append(web.buf, b)
        BY <4>2, <1>g, <1>n, <2>3, <3>1
      <4> QED
        BY <4>1, <4>2, <2>1
    <3> QED
      BY <2>1, <3>2 DEF Genuine
  <2> HIDE DEF m
  <2> QED
    BY <1>v, <2>1, <2>7, <2>8, <2>9 DEF ToViewer!vars
<1> QED
  BY <1>1, <1>2, <1>3, <1>4, ViewerSteps DEF FifoInv

(* Both directions of an encrypted relay socket are FIFO channels, for any *)
(* number of messages: what the message loop takes is what the host sent,  *)
(* in that order and without a gap, its pings aside, and the other way     *)
(* round, through the handshake and the switch to encryption.              *)
THEOREM SocketIsFifo == Spec => FifoBothWays
<1>1. Init => FifoInv /\ ToPeer!Init /\ ToViewer!Init
  <2> SUFFICES ASSUME Init PROVE FifoInv /\ ToPeer!Init /\ ToViewer!Init
    OBVIOUS
  <2>1. /\ KeyInv /\ webSent = <<>> /\ hostSent = <<>> /\ webGot = <<>> /\ hostGot = <<>>
        /\ toHost = <<>> /\ toWeb = <<>> /\ web.buf = <<>>
    BY KeyInit DEF Init
  <2>2. Len(<<>>) = 0 /\ Bodies(<<>>) = <<>>
    <3>1. <<>> \in Seq(Frame) /\ Len(<<>>) = 0
      OBVIOUS
    <3>2. Bodies(<<>>) \in Seq(Body) /\ Len(Bodies(<<>>)) = 0
      BY <3>1, BodiesType
    <3> QED
      BY <3>1, <3>2
  <2>3. Counting(<<>>, 0, 0)
    BY CountEmpty
  <2>4. ViewerOrder
    <3>1. /\ Counting(web.buf, Len(webGot), 0) /\ Counting(Bodies(toWeb), 0, Len(hostSent))
          /\ Len(web.buf) = 0 /\ Len(toWeb) = 0
      BY <2>1, <2>2, <2>3
    <3>2. /\ \A i \in 1..Len(web.buf) : Genuine(web.buf[i])
          /\ \A i \in 1..Len(toWeb) : Genuine(toWeb[i].body)
      BY <3>1
    <3>3. 0 \in Nat
      OBVIOUS
    <3> QED
      BY <3>1, <3>2, <3>3, Zenon DEF ViewerOrder
  <2> QED
    BY <2>1, <2>2, <2>4 DEF FifoInv, PeerOrder, ToPeer!Init, ToViewer!Init
<1>2. FifoInv /\ [Next]_vars => FifoInv'
  BY KeyStep, PeerStep, ViewerStep DEF FifoInv
<1>3. FifoInv /\ [Next]_vars => [ToPeer!Send \/ ToPeer!Get]_(ToPeer!vars)
  BY PeerStep
<1>4. FifoInv /\ [Next]_vars => [ToViewer!Send \/ ToViewer!Get]_(ToViewer!vars)
  BY ViewerStep
<1> QED
  BY <1>1, <1>2, <1>3, <1>4, PTL DEF Spec, FifoBothWays, ToPeer!Spec, ToViewer!Spec

=============================================================================
