-------------------------- MODULE FtDownloadProofs --------------------------
(***************************************************************************)
(* Proofs about downloads: a finished download holds every block of the    *)
(* host, in order, and job_done means that the file was saved, for any     *)
(* number of downloads, files and blocks.                                  *)
(*                                                                         *)
(* The argument: a download is asked for once, so what the host says of it *)
(* (the listing, the blocks, Done) is on its way in the order of Rank, and *)
(* the blocks on their way continue those the job has received.            *)
(*                                                                         *)
(* What is said of the contents of the queues is said of sets of messages: *)
(* S of those sent to the host, M of those sent by it.  W is the web side, *)
(* l the message loop, H the host's read jobs and L the link.              *)
(***************************************************************************)
EXTENDS FtDownload, FiniteSetTheorems, TLAPS

Elems(q) == {q[i] : i \in 1..Len(q)}

Count(j) == Len(Blocks[j])

(* The order in which the host speaks of a download. *)
Rank(m) ==
  IF m.kind = "dir" THEN 0
  ELSE IF m.kind \in {"block", "error"} THEN m.blk
  ELSE IF m.kind = "done" THEN Count(m.job) + 1
  ELSE Count(m.job) + 2

(* The messages about a download come in this order. *)
InLine(m, n) == m.job = n.job /\ m.job \in Job => Rank(m) < Rank(n)

Sorted(q) == \A i, k \in 1..Len(q) : i < k => InLine(q[i], q[k])

(* A download is asked for once. *)
Sole(q) ==
  \A i, k \in 1..Len(q) : i < k /\ q[i].kind = "send" /\ q[k].kind = "send" => q[i].job # q[k].job

(* A download is in the queue once. *)
Distinct(q) == \A i, k \in 1..Len(q) : i < k => q[i] # q[k]

-----------------------------------------------------------------------------
(* The host's next message about a download comes after those on their way. *)
Reads(M, H) ==
  /\ \A j \in Job : H[j] > 0 =>
       H[j] <= Count(j) + 1 /\ \A m \in M : m.job = j => Rank(m) < H[j]
  /\ \A m \in M : m.job \in Job /\ m.kind = "block" => m.blk \in 1..Count(m.job)

Asks(S, j) == \E m \in S : m.kind = "send" /\ m.job = j

(* A download waits in the queue, then for its dialog, then for the host. *)
Turns(W, S) ==
  /\ Elems(W.queue) \cup W.dialogs \subseteq W.asked
  /\ Elems(W.queue) \cap W.dialogs = {}
  /\ \A m \in S : m.kind = "send" => /\ m.job \in W.asked
                                     /\ m.job \notin Elems(W.queue) \cup W.dialogs

Waiting(W, S, j) ==
  j \notin W.asked \/ j \in Elems(W.queue) \/ j \in W.dialogs \/ Asks(S, j)

Untouched(W, l, M, H, j) ==
  H[j] = 0 /\ l.job # j /\ W.store[j] = << >> /\ \A m \in M : m.job # j

(* Nothing has come of a download that waits. *)
Waits(W, l, S, M, H) ==
  \A j \in Job : Waiting(W, S, j) => Untouched(W, l, M, H, j)

(* What is stored was listed before, lies in one place, and has no gap that    *)
(* job_error did not report.                                                   *)
Stores(W) ==
  \A j \in Job :
    /\ W.store[j] # << >> => j \in W.listed
    /\ \A i \in 1..Len(W.store[j]) :
         /\ W.store[j][i].place = Place(W, j)
         /\ j \notin W.failed => W.store[j][i].blk = i

(* The block being appended is the next one; what is finalized is complete,    *)
(* and the host has nothing more to say of it.                                 *)
Handles(W, l, M, H) ==
  /\ l.stage = "append" =>
       l.job \in W.listed /\ (l.job \notin W.failed => l.blk = Len(W.store[l.job]) + 1)
  /\ l.stage = "finalize" =>
       /\ H[l.job] = 0
       /\ \A m \in M : m.job = l.job => Rank(m) > Count(l.job) + 1
       /\ l.job \notin W.failed => Len(W.store[l.job]) = Count(l.job)

(* The blocks of j that the loop has taken. *)
Received(W, l, j) ==
  Len(W.store[j]) + (IF l.stage = "append" /\ l.job = j THEN 1 ELSE 0)

Fault(M, j, r) == \E n \in M : n.kind = "error" /\ n.job = j /\ Rank(n) < r

(* What has the rank r is next, or comes after the block before it, or after   *)
(* an error that ends the job first.                                           *)
Follows(M, j, a, r) ==
  r > a /\ (r = a + 1 \/ Msg("block", j, r - 1) \in M \/ Fault(M, j, r))

(* Of a download that has its job and no error, what is on its way continues   *)
(* what was received; and its listing comes before its blocks.                 *)
Flows(W, l, M, H, L) ==
  \A j \in W.writeJobs :
    /\ j \notin W.failed =>
         /\ \A m \in M : m.job = j /\ m.kind \in {"block", "done"} =>
              Follows(M, j, Received(W, l, j), Rank(m))
         /\ H[j] > 0 /\ L = "open" => Follows(M, j, Received(W, l, j), H[j])
    /\ (\E m \in M : m.job = j /\ m.kind = "block") \/ (H[j] \in 1..Count(j) /\ L = "open") =>
         j \in W.listed \/ Msg("dir", j, 0) \in M

(* A download that may still get its Done has its job, or was given up. *)
Lives(W, S, M, H, L) ==
  \A j \in Job :
    j \in W.dialogs \/ Asks(S, j) \/ H[j] > 0 \/ (\E m \in M : m.job = j /\ m.kind = "done") =>
      j \in W.writeJobs \/ j \in W.cancelled \/ j \in W.refused \/ L = "ended"

Whole(W) ==
  \A j \in W.closed \ W.failed : W.saved[j] = [b \in 1..Count(j) |-> b]

Good(W, l, S, M, H, L) ==
  /\ Reads(M, H)
  /\ Turns(W, S)
  /\ Waits(W, l, S, M, H)
  /\ Stores(W)
  /\ Handles(W, l, M, H)
  /\ Flows(W, l, M, H, L)
  /\ Lives(W, S, M, H, L)
  /\ Whole(W)

(* The inductive invariant. *)
DownloadInv ==
  /\ TypeOK
  /\ Sorted(toWeb) /\ Sole(toHost) /\ Distinct(web.queue)
  /\ Good(web, loop, Elems(toHost), Elems(toWeb), host, link)
  /\ DoneMeansSaved

-----------------------------------------------------------------------------
(* Messages and queues. *)

(* The messages and the number of blocks have their types. *)
LEMMA MessageShape ==
  ASSUME NEW m \in Message
  PROVE /\ m.job \in Id /\ m.blk \in Nat /\ m = Msg(m.kind, m.job, m.blk)
        /\ m.job \in Job => Rank(m) \in Nat
<1>1. m.job \in Id /\ m.blk \in Nat /\ m = Msg(m.kind, m.job, m.blk)
  BY DEF Message, Msg
<1>2. ASSUME m.job \in Job PROVE Rank(m) \in Nat
  <2>1. Count(m.job) \in Nat
    BY <1>2, FtDownloadAssumption DEF Count
  <2> QED
    BY <1>1, <2>1 DEF Rank
<1> QED
  BY <1>1, <1>2

(* Downloads and requests are different things. *)
LEMMA Ids ==
  /\ Job \subseteq Id /\ Request \subseteq Id /\ None \notin Job
  /\ \A r \in Request : r \notin Job
  /\ \A j \in Job : Count(j) \in Nat /\ Blocks[j] \in Seq(Nat)
BY FtDownloadAssumption DEF Id, Count

(* What Msg makes is a message with these fields. *)
LEMMA MessageMade ==
  ASSUME NEW k \in {"send", "cancel", "request", "dir", "block", "done", "error"},
         NEW j \in Id, NEW b \in Nat
  PROVE /\ Msg(k, j, b) \in Message
        /\ Msg(k, j, b).kind = k /\ Msg(k, j, b).job = j /\ Msg(k, j, b).blk = b
BY DEF Message, Msg

(* The elements of a sequence. *)
LEMMA ElemsOf ==
  ASSUME NEW A, NEW q \in Seq(A)
  PROVE /\ Elems(q) \subseteq A
        /\ Elems(<< >>) = {}
        /\ \A i \in 1..Len(q) : q[i] \in Elems(q)
        /\ \A e \in Elems(q) : \E i \in 1..Len(q) : e = q[i]
<1>1. \A i \in 1..Len(q) : q[i] \in A
  OBVIOUS
<1>2. Elems(<< >>) = {}
  BY DEF Elems
<1> QED
  BY <1>1, <1>2 DEF Elems

(* The elements of a sequence and one more. *)
LEMMA ElemsMore ==
  ASSUME NEW A, NEW q \in Seq(A), NEW e \in A
  PROVE /\ Append(q, e) \in Seq(A)
        /\ Elems(Append(q, e)) = Elems(q) \cup {e}
<1>1. /\ Append(q, e) \in Seq(A) /\ Len(Append(q, e)) = Len(q) + 1 /\ Len(q) \in Nat
      /\ Append(q, e)[Len(q) + 1] = e
      /\ \A i \in 1..Len(q) : Append(q, e)[i] = q[i]
  OBVIOUS
<1>2. ASSUME NEW d \in Elems(Append(q, e)) PROVE d \in Elems(q) \cup {e}
  <2>1. PICK i \in 1..(Len(q) + 1) : d = Append(q, e)[i]
    BY <1>1, <1>2 DEF Elems
  <2>2. i = Len(q) + 1 \/ i \in 1..Len(q)
    BY <1>1
  <2> QED
    BY <1>1, <2>1, <2>2 DEF Elems
<1>3. ASSUME NEW d \in Elems(q) PROVE d \in Elems(Append(q, e))
  <2>1. PICK i \in 1..Len(q) : d = q[i]
    BY <1>3 DEF Elems
  <2>2. i \in 1..(Len(q) + 1) /\ d = Append(q, e)[i]
    BY <1>1, <2>1
  <2> QED
    BY <1>1, <2>2 DEF Elems
<1>4. e \in Elems(Append(q, e))
  <2>1. Len(q) + 1 \in 1..(Len(q) + 1)
    BY <1>1
  <2> QED
    BY <1>1, <2>1 DEF Elems
<1> QED
  BY <1>1, <1>2, <1>3, <1>4

(* The first element and those behind it. *)
LEMMA ElemsTail ==
  ASSUME NEW A, NEW q \in Seq(A), q # << >>
  PROVE /\ Head(q) \in A /\ Head(q) \in Elems(q)
        /\ Tail(q) \in Seq(A)
        /\ Elems(q) = {Head(q)} \cup Elems(Tail(q))
<1>1. /\ Head(q) \in A /\ Head(q) = q[1] /\ Tail(q) \in Seq(A)
      /\ Len(q) \in Nat /\ 1 \in 1..Len(q) /\ Len(Tail(q)) = Len(q) - 1
      /\ \A i \in 1..Len(Tail(q)) : Tail(q)[i] = q[i + 1]
  OBVIOUS
<1>2. Head(q) \in Elems(q)
  BY <1>1 DEF Elems
<1>3. ASSUME NEW d \in Elems(q), d # Head(q) PROVE d \in Elems(Tail(q))
  <2>1. PICK i \in 1..Len(q) : d = q[i]
    BY <1>3 DEF Elems
  <2>2. i - 1 \in 1..Len(Tail(q)) /\ (i - 1) + 1 = i
    BY <1>1, <1>3, <2>1
  <2>3. d = Tail(q)[i - 1]
    BY <1>1, <2>1, <2>2
  <2> QED
    BY <2>2, <2>3 DEF Elems
<1>4. ASSUME NEW d \in Elems(Tail(q)) PROVE d \in Elems(q)
  <2>1. PICK i \in 1..Len(Tail(q)) : d = Tail(q)[i]
    BY <1>4 DEF Elems
  <2>2. i + 1 \in 1..Len(q) /\ d = q[i + 1]
    BY <1>1, <2>1
  <2> QED
    BY <2>2 DEF Elems
<1> QED
  BY <1>1, <1>2, <1>3, <1>4

(* Behind the first message the order is the same, and what is there comes     *)
(* after the first one.                                                        *)
LEMMA OrderTail ==
  ASSUME NEW A, NEW q \in Seq(A), q # << >>
  PROVE /\ Sorted(q) => Sorted(Tail(q)) /\ \A n \in Elems(Tail(q)) : InLine(Head(q), n)
        /\ Sole(q) => /\ Sole(Tail(q))
                      /\ \A n \in Elems(Tail(q)) :
                           Head(q).kind = "send" /\ n.kind = "send" => Head(q).job # n.job
        /\ Distinct(q) => Distinct(Tail(q)) /\ Head(q) \notin Elems(Tail(q))
<1>1. /\ Head(q) = q[1] /\ Tail(q) \in Seq(A)
      /\ Len(q) \in Nat /\ 1 \in 1..Len(q) /\ Len(Tail(q)) = Len(q) - 1
      /\ \A i \in 1..Len(Tail(q)) : Tail(q)[i] = q[i + 1]
  OBVIOUS
<1>2. /\ \A i \in 1..Len(Tail(q)) : i + 1 \in 1..Len(q) /\ 1 < i + 1
      /\ \A i, k \in 1..Len(Tail(q)) : i < k => i + 1 < k + 1
  BY <1>1
<1>3. ASSUME NEW n \in Elems(Tail(q)) PROVE \E i \in 1..Len(q) : 1 < i /\ n = q[i]
  <2>1. PICK i \in 1..Len(Tail(q)) : n = Tail(q)[i]
    BY <1>3 DEF Elems
  <2> QED
    BY <1>1, <1>2, <2>1
<1>4. ASSUME Sorted(q) PROVE Sorted(Tail(q)) /\ \A n \in Elems(Tail(q)) : InLine(Head(q), n)
  <2>1. Sorted(Tail(q))
    BY <1>1, <1>2, <1>4 DEF Sorted
  <2>2. \A n \in Elems(Tail(q)) : InLine(Head(q), n)
    BY <1>1, <1>3, <1>4 DEF Sorted
  <2> QED
    BY <2>1, <2>2
<1>5. ASSUME Sole(q)
      PROVE /\ Sole(Tail(q))
            /\ \A n \in Elems(Tail(q)) :
                 Head(q).kind = "send" /\ n.kind = "send" => Head(q).job # n.job
  <2>1. Sole(Tail(q))
    BY <1>1, <1>2, <1>5 DEF Sole
  <2>2. ASSUME NEW n \in Elems(Tail(q)), Head(q).kind = "send", n.kind = "send"
        PROVE Head(q).job # n.job
    BY <1>1, <1>3, <1>5, <2>2 DEF Sole
  <2> QED
    BY <2>1, <2>2
<1>6. ASSUME Distinct(q) PROVE Distinct(Tail(q)) /\ Head(q) \notin Elems(Tail(q))
  <2>1. Distinct(Tail(q))
    BY <1>1, <1>2, <1>6 DEF Distinct
  <2>2. Head(q) \notin Elems(Tail(q))
    BY <1>1, <1>3, <1>6 DEF Distinct
  <2> QED
    BY <2>1, <2>2
<1> QED
  BY <1>4, <1>5, <1>6

(* A message that comes after the others keeps the order. *)
LEMMA OrderMore ==
  ASSUME NEW A, NEW q \in Seq(A), NEW e \in A
  PROVE /\ Sorted(q) /\ (\A n \in Elems(q) : InLine(n, e)) => Sorted(Append(q, e))
        /\ Sole(q) /\ (\A n \in Elems(q) : n.kind = "send" /\ e.kind = "send" => n.job # e.job)
             => Sole(Append(q, e))
        /\ Distinct(q) /\ e \notin Elems(q) => Distinct(Append(q, e))
<1> DEFINE p == Append(q, e)
<1>1. /\ Len(p) = Len(q) + 1 /\ Len(q) \in Nat
      /\ p[Len(q) + 1] = e
      /\ \A i \in 1..Len(q) : p[i] = q[i]
  OBVIOUS
<1> HIDE DEF p
<1>2. ASSUME NEW i \in 1..Len(p), NEW k \in 1..Len(p), i < k
      PROVE /\ i \in 1..Len(q) /\ p[i] = q[i] /\ q[i] \in Elems(q)
            /\ (k \in 1..Len(q) /\ p[k] = q[k]) \/ (k = Len(q) + 1 /\ p[k] = e)
  <2>1. i \in 1..Len(q) /\ (k \in 1..Len(q) \/ k = Len(q) + 1)
    BY <1>1, <1>2
  <2>2. q[i] \in Elems(q)
    BY <2>1 DEF Elems
  <2> QED
    BY <1>1, <2>1, <2>2
<1>3. ASSUME Sorted(q), \A n \in Elems(q) : InLine(n, e) PROVE Sorted(p)
  BY <1>2, <1>3 DEF Sorted
<1>4. ASSUME Sole(q), \A n \in Elems(q) : n.kind = "send" /\ e.kind = "send" => n.job # e.job
      PROVE Sole(p)
  BY <1>2, <1>4 DEF Sole
<1>5. ASSUME Distinct(q), e \notin Elems(q) PROVE Distinct(p)
  BY <1>2, <1>5 DEF Distinct
<1> QED
  BY <1>3, <1>4, <1>5 DEF p

(* The beginning of a queue in order holds, with a message, what comes before  *)
(* it.                                                                         *)
LEMMA OrderStart ==
  ASSUME NEW q \in Seq(Message), NEW n \in 0..Len(q), Sorted(q)
  PROVE /\ SubSeq(q, 1, n) \in Seq(Message) /\ Sorted(SubSeq(q, 1, n))
        /\ Elems(SubSeq(q, 1, n)) \subseteq Elems(q)
        /\ \A m \in Elems(SubSeq(q, 1, n)), d \in Elems(q) :
             m.job = d.job /\ m.job \in Job /\ Rank(d) < Rank(m) => d \in Elems(SubSeq(q, 1, n))
<1> DEFINE p == SubSeq(q, 1, n)
<1>1. /\ p \in Seq(Message) /\ Len(p) = n /\ Len(q) \in Nat /\ 1..n \subseteq 1..Len(q)
      /\ \A i \in 1..n : p[i] = q[i]
  OBVIOUS
<1> HIDE DEF p
<1>2. Sorted(p)
  BY <1>1 DEF Sorted
<1>3. Elems(p) \subseteq Elems(q)
  BY <1>1 DEF Elems
<1>4. ASSUME NEW m \in Elems(p), NEW d \in Elems(q), m.job = d.job, m.job \in Job, Rank(d) < Rank(m)
      PROVE d \in Elems(p)
  <2>1. PICK i \in 1..n : m = q[i]
    BY <1>1, <1>4 DEF Elems
  <2>2. PICK k \in 1..Len(q) : d = q[k]
    BY <1>4 DEF Elems
  <2>3. m \in Message /\ d \in Message
    BY <1>3, ElemsOf
  <2>4. Rank(d) \in Nat /\ Rank(m) \in Nat
    BY <1>4, <2>3, MessageShape
  <2>5. ~(i < k)
    <3>1. SUFFICES ASSUME i < k PROVE FALSE
      OBVIOUS
    <3>2. InLine(m, d)
      BY <1>1, <2>1, <2>2, <3>1 DEF Sorted
    <3> QED
      BY <1>4, <2>4, <3>2 DEF InLine
  <2>6. k \in 1..n
    BY <1>1, <2>5
  <2> QED
    BY <1>1, <2>2, <2>6 DEF Elems
<1> QED
  BY <1>1, <1>2, <1>3, <1>4 DEF p

-----------------------------------------------------------------------------
(* The invariant under what the steps do to the parts of the state. *)

Loop == Awaiting \cup {NextMsg, LoopOver}

(* What the loop awaits has its fields. *)
LEMMA LoopShape ==
  ASSUME NEW l \in Loop
  PROVE /\ NextMsg.stage = "next" /\ NextMsg.job \notin Job /\ LoopOver.stage = "over"
        /\ LoopOver.job \notin Job /\ NextMsg \in Loop /\ LoopOver \in Loop
        /\ l.stage \in {"append", "finalize"} => l.job \in Job /\ l.blk \in Nat
        /\ l.job \in Job => l.stage \in {"append", "finalize"}
BY Ids DEF Loop, Awaiting, NextMsg, LoopOver

(* A cancelled download leaves its job, a request is asked or answered, and    *)
(* nothing but a dialog asks the host for a download.                          *)
LEMMA GoodAside ==
  ASSUME NEW W \in WebState, NEW V \in WebState, NEW l, NEW S, NEW T, NEW M, NEW H, NEW L,
         Good(W, l, S, M, H, L),
         V.queue = W.queue, V.dialogs = W.dialogs, V.target = W.target, V.listed = W.listed,
         V.store = W.store, V.failed = W.failed, V.closed = W.closed, V.saved = W.saved,
         NEW Z, V.asked = W.asked \cup Z, Z \cap Job = {},
         V.writeJobs \subseteq W.writeJobs, W.writeJobs \ V.writeJobs \subseteq V.cancelled,
         W.cancelled \subseteq V.cancelled, W.refused \subseteq V.refused,
         \A m \in T : m.kind = "send" => m \in S
  PROVE Good(V, l, T, M, H, L)
<1>1. Reads(M, H)
  BY DEF Good
<1>2. Turns(V, T)
  BY DEF Good, Turns
<1>3. Waits(V, l, T, M, H)
  BY DEF Good, Waits, Waiting, Untouched, Asks
<1>4. Stores(V)
  BY DEF Good, Stores, Place
<1>5. Handles(V, l, M, H)
  BY DEF Good, Handles
<1>6. Flows(V, l, M, H, L)
  BY DEF Good, Flows, Received
<1>7. Lives(V, T, M, H, L)
  BY DEF Good, Lives, Asks
<1>8. Whole(V)
  BY DEF Good, Whole
<1> QED
  BY <1>1, <1>2, <1>3, <1>4, <1>5, <1>6, <1>7, <1>8 DEF Good

(* The host takes a message: fewer are on their way to it. *)
LEMMA GoodHeard ==
  ASSUME NEW W \in WebState, NEW l, NEW S, NEW T, NEW M, NEW H, NEW L,
         Good(W, l, S, M, H, L), T \subseteq S
  PROVE Good(W, l, T, M, H, L)
<1>1. W.asked = W.asked \cup {} /\ {} \cap Job = {} /\ W.writeJobs \ W.writeJobs \subseteq W.cancelled
  OBVIOUS
<1> QED
  BY <1>1, GoodAside

(* The block before a message is still there when messages behind it are lost. *)
LEMMA FollowsStart ==
  ASSUME NEW M \in SUBSET Message, NEW N \in SUBSET M, NEW j \in Job, NEW a \in Nat, NEW m \in N,
         m.job = j, m.kind \in {"block", "done"}, Follows(M, j, a, Rank(m)),
         \A n \in N, d \in M :
           n.job = d.job /\ n.job \in Job /\ Rank(d) < Rank(n) => d \in N
  PROVE Follows(N, j, a, Rank(m))
<1>1. Rank(m) \in Nat /\ Rank(m) > a
  BY MessageShape DEF Follows
<1>2. CASE Fault(M, j, Rank(m))
  BY <1>1, <1>2 DEF Follows, Fault
<1>3. CASE Rank(m) # a + 1 /\ ~Fault(M, j, Rank(m))
  <2> DEFINE d == Msg("block", j, Rank(m) - 1)
  <2>1. d \in M /\ Rank(m) - 1 \in Nat
    BY <1>1, <1>3 DEF Follows
  <2>2. d.kind = "block" /\ d.job = j /\ d.blk = Rank(m) - 1
    BY <2>1, Ids, MessageMade
  <2>3. Rank(d) < Rank(m)
    BY <1>1, <2>2 DEF Rank
  <2> QED
    BY <1>1, <2>1, <2>2, <2>3 DEF Follows
<1> QED
  BY <1>1, <1>2, <1>3 DEF Follows

(* A number of blocks was received. *)
LEMMA ReceivedShape ==
  ASSUME NEW W \in WebState, NEW l, NEW j \in Job
  PROVE /\ W.store[j] \in Seq(Stored) /\ Len(W.store[j]) \in Nat
        /\ Received(W, l, j) \in Nat
        /\ l.stage = "append" /\ l.job = j => Received(W, l, j) = Len(W.store[j]) + 1
        /\ l.stage # "append" \/ l.job # j => Received(W, l, j) = Len(W.store[j])
<1>1. W.store[j] \in Seq(Stored)
  BY DEF WebState
<1>2. Len(W.store[j]) \in Nat
  BY <1>1
<1>3. CASE l.stage = "append" /\ l.job = j
  <2>1. Received(W, l, j) = Len(W.store[j]) + 1
    BY <1>3 DEF Received
  <2> QED
    BY <1>1, <1>2, <1>3, <2>1
<1>4. CASE ~(l.stage = "append" /\ l.job = j)
  <2>1. Received(W, l, j) = Len(W.store[j]) + 0
    BY <1>4 DEF Received
  <2> QED
    BY <1>1, <1>2, <1>4, <2>1
<1> QED
  BY <1>3, <1>4

(* The session ends or its socket is lost: what was received by then stays.    *)
LEMMA GoodLost ==
  ASSUME NEW W \in WebState, NEW V \in WebState, NEW l \in Loop, NEW k \in Loop, NEW S,
         NEW T \in SUBSET S, NEW M \in SUBSET Message, NEW N \in SUBSET M,
         NEW H \in [Job -> Nat], NEW L, NEW K,
         Good(W, l, S, M, H, L),
         V.queue = W.queue, V.dialogs = W.dialogs, V.target = W.target, V.listed = W.listed,
         V.store = W.store, V.closed = W.closed, V.saved = W.saved, V.asked = W.asked,
         V.cancelled = W.cancelled, V.refused = W.refused,
         V.writeJobs \subseteq W.writeJobs, W.failed \subseteq V.failed,
         K # "open", V.writeJobs = W.writeJobs \/ K = "ended", L = "ended" => K = "ended",
         k = l \/ (l = NextMsg /\ k = LoopOver),
         \A n \in N, d \in M :
           n.job = d.job /\ n.job \in Job /\ Rank(d) < Rank(n) => d \in N
  PROVE Good(V, k, T, N, H, K)
<1>1. Reads(N, H)
  BY DEF Good, Reads
<1>2. Turns(V, T)
  BY DEF Good, Turns
<1>3. Waits(V, k, T, N, H)
  BY LoopShape DEF Good, Waits, Waiting, Untouched, Asks
<1>4. Stores(V)
  BY DEF Good, Stores, Place
<1>5. Handles(V, k, N, H)
  BY LoopShape DEF Good, Handles
<1>6. Flows(V, k, N, H, K)
  <2>1. SUFFICES ASSUME NEW j \in V.writeJobs
                 PROVE /\ j \notin V.failed =>
                            \A m \in N : m.job = j /\ m.kind \in {"block", "done"} =>
                              Follows(N, j, Received(V, k, j), Rank(m))
                       /\ \A m \in N : m.job = j /\ m.kind = "block" =>
                            j \in V.listed \/ Msg("dir", j, 0) \in N
    BY DEF Flows
  <2>2. j \in Job /\ j \in W.writeJobs
    BY DEF WebState
  <2>3. Received(V, k, j) = Received(W, l, j) /\ Received(W, l, j) \in Nat
    <3>1. (l.stage = "append" /\ l.job = j) <=> (k.stage = "append" /\ k.job = j)
      BY LoopShape
    <3>2. Received(V, k, j) = Received(W, l, j)
      BY <3>1 DEF Received
    <3> QED
      BY <2>2, <3>2, ReceivedShape
  <2>4. ASSUME j \notin V.failed, NEW m \in N, m.job = j, m.kind \in {"block", "done"}
        PROVE Follows(N, j, Received(V, k, j), Rank(m))
    <3>1. Follows(M, j, Received(W, l, j), Rank(m))
      BY <2>2, <2>4 DEF Good, Flows
    <3> QED
      BY <2>2, <2>3, <2>4, <3>1, FollowsStart
  <2>5. ASSUME NEW m \in N, m.job = j, m.kind = "block"
        PROVE j \in V.listed \/ Msg("dir", j, 0) \in N
    <3>1. j \in W.listed \/ Msg("dir", j, 0) \in M
      BY <2>2, <2>5 DEF Good, Flows
    <3>2. Msg("dir", j, 0).job = j /\ Rank(Msg("dir", j, 0)) = 0
      BY <2>2, Ids, MessageMade DEF Rank
    <3>3. Rank(m) > 0
      BY <2>2, <2>5, Ids DEF Rank, Good, Reads
    <3> QED
      BY <2>2, <2>5, <3>1, <3>2, <3>3
  <2> QED
    BY <2>4, <2>5
<1>7. Lives(V, T, N, H, K)
  BY DEF Good, Lives, Asks
<1>8. Whole(V)
  BY DEF Good, Whole
<1> QED
  BY <1>1, <1>2, <1>3, <1>4, <1>5, <1>6, <1>7, <1>8 DEF Good

(* The loop takes a message that the downloads with a job do not wait for. *)
LEMMA GoodTaken ==
  ASSUME NEW W \in WebState, NEW l \in Loop, NEW S, NEW M \in SUBSET Message,
         NEW h \in Message, NEW N \in SUBSET Message, NEW H \in [Job -> Nat], NEW L,
         Good(W, l, S, M, H, L), M = {h} \cup N,
         h.kind \notin {"block", "dir", "error"} \/ h.job \notin W.writeJobs
  PROVE Good(W, l, S, N, H, L)
<1>1. Reads(N, H)
  BY DEF Good, Reads
<1>2. Turns(W, S) /\ Stores(W) /\ Whole(W)
  BY DEF Good
<1>3. Waits(W, l, S, N, H)
  BY DEF Good, Waits, Untouched
<1>4. Handles(W, l, N, H)
  BY DEF Good, Handles
<1>5. Flows(W, l, N, H, L)
  <2>1. SUFFICES ASSUME NEW j \in W.writeJobs
                 PROVE /\ \A r \in Nat : Msg("block", j, r) \in M => Msg("block", j, r) \in N
                       /\ Msg("dir", j, 0) \in M => Msg("dir", j, 0) \in N
    <3>1. ASSUME NEW j \in W.writeJobs, NEW a \in Nat, NEW r \in Nat, Follows(M, j, a, r)
          PROVE Follows(N, j, a, r)
      BY <2>1, <3>1 DEF Follows, Fault
    <3>2. ASSUME NEW j \in W.writeJobs
          PROVE Received(W, l, j) \in Nat /\ H[j] \in Nat /\ j \in Job
      <4>1. j \in Job
        BY <3>2 DEF WebState
      <4> QED
        BY <4>1, ReceivedShape
    <3>3. ASSUME NEW j \in W.writeJobs, NEW m \in N, m.job = j PROVE Rank(m) \in Nat
      BY <3>2, <3>3, MessageShape
    <3>4. ASSUME NEW j \in W.writeJobs, j \notin W.failed
          PROVE /\ \A m \in N : m.job = j /\ m.kind \in {"block", "done"} =>
                     Follows(N, j, Received(W, l, j), Rank(m))
                /\ H[j] > 0 /\ L = "open" => Follows(N, j, Received(W, l, j), H[j])
      BY <3>1, <3>2, <3>3, <3>4 DEF Good, Flows
    <3>5. ASSUME NEW j \in W.writeJobs,
                 (\E m \in N : m.job = j /\ m.kind = "block") \/ (H[j] \in 1..Count(j) /\ L = "open")
          PROVE j \in W.listed \/ Msg("dir", j, 0) \in N
      BY <2>1, <3>5 DEF Good, Flows
    <3> QED
      BY <3>4, <3>5 DEF Flows
  <2>2. j \in Id
    BY Ids DEF WebState
  <2>3. ASSUME NEW r \in Nat, Msg("block", j, r) \in M PROVE Msg("block", j, r) \in N
    <3>1. Msg("block", j, r).kind = "block" /\ Msg("block", j, r).job = j
      BY <2>2, MessageMade
    <3> QED
      BY <2>3, <3>1
  <2>4. ASSUME Msg("dir", j, 0) \in M PROVE Msg("dir", j, 0) \in N
    <3>1. Msg("dir", j, 0).kind = "dir" /\ Msg("dir", j, 0).job = j
      BY <2>2, MessageMade
    <3> QED
      BY <2>4, <3>1
  <2> QED
    BY <2>3, <2>4
<1>6. Lives(W, S, N, H, L)
  BY DEF Good, Lives
<1> QED
  BY <1>1, <1>2, <1>3, <1>4, <1>5, <1>6 DEF Good

(* A download of which nothing more can come leaves its job. *)
LEMMA GoodOver ==
  ASSUME NEW W \in WebState, NEW V \in WebState, NEW l \in Loop, NEW S,
         NEW M, NEW H, NEW L, NEW j,
         Good(W, l, S, M, H, L), l.stage # "append",
         V.queue = W.queue, V.dialogs = W.dialogs, V.target = W.target, V.listed = W.listed,
         V.store = W.store, V.asked = W.asked, V.cancelled = W.cancelled, V.refused = W.refused,
         V.writeJobs = W.writeJobs \ {j}, W.failed \subseteq V.failed,
         j \in Job => /\ j \notin W.dialogs /\ ~Asks(S, j) /\ H[j] = 0
                      /\ \A m \in M : m.kind = "done" => m.job # j,
         Whole(V)
  PROVE Good(V, NextMsg, S, M, H, L)
<1>1. Reads(M, H)
  BY DEF Good
<1>2. Turns(V, S)
  BY DEF Good, Turns
<1>3. Waits(V, NextMsg, S, M, H)
  BY LoopShape DEF Good, Waits, Waiting, Untouched
<1>4. Stores(V)
  BY DEF Good, Stores, Place
<1>5. Handles(V, NextMsg, M, H)
  BY LoopShape DEF Handles
<1>6. Flows(V, NextMsg, M, H, L)
  <2>1. \A i \in V.writeJobs : Received(V, NextMsg, i) = Received(W, l, i)
    BY LoopShape DEF Received
  <2> QED
    BY <2>1 DEF Good, Flows
<1>7. Lives(V, S, M, H, L)
  <2>1. ASSUME NEW i \in Job,
               i \in V.dialogs \/ Asks(S, i) \/ H[i] > 0 \/ (\E m \in M : m.job = i /\ m.kind = "done")
        PROVE i # j
    BY <2>1
  <2> QED
    BY <2>1 DEF Good, Lives
<1> QED
  BY <1>1, <1>2, <1>3, <1>4, <1>5, <1>6, <1>7 DEF Good

(* The loop takes an error of the host, and the download leaves its job,       *)
(* whatever the host still says of it.                                         *)
LEMMA GoodRefused ==
  ASSUME NEW W \in WebState, NEW V \in WebState, NEW S, NEW M \in SUBSET Message,
         NEW h \in Message, NEW N \in SUBSET Message, NEW H \in [Job -> Nat], NEW L,
         Good(W, NextMsg, S, M, H, L), M = {h} \cup N,
         V.queue = W.queue, V.dialogs = W.dialogs, V.target = W.target, V.listed = W.listed,
         V.store = W.store, V.asked = W.asked, V.cancelled = W.cancelled,
         V.refused = W.refused \cup {h.job},
         V.writeJobs = W.writeJobs \ {h.job}, W.failed \subseteq V.failed,
         Whole(V)
  PROVE Good(V, NextMsg, S, N, H, L)
<1>1. Reads(N, H)
  BY DEF Good, Reads
<1>2. Turns(V, S)
  BY DEF Good, Turns
<1>3. Waits(V, NextMsg, S, N, H)
  BY DEF Good, Waits, Waiting, Untouched
<1>4. Stores(V)
  BY DEF Good, Stores, Place
<1>5. Handles(V, NextMsg, N, H)
  BY DEF Handles, NextMsg
<1>6. Flows(V, NextMsg, N, H, L)
  <2>1. ASSUME NEW i \in V.writeJobs
        PROVE /\ i \in W.writeJobs /\ i # h.job
              /\ Received(V, NextMsg, i) = Received(W, NextMsg, i)
    BY <2>1 DEF Received
  <2>2. ASSUME NEW i \in V.writeJobs, NEW r, Msg("block", i, r) \in M
        PROVE Msg("block", i, r) \in N
    <3>1. Msg("block", i, r).job = i
      BY DEF Msg
    <3> QED
      BY <2>1, <2>2, <3>1
  <2>3. ASSUME NEW i \in V.writeJobs, Msg("dir", i, 0) \in M PROVE Msg("dir", i, 0) \in N
    <3>1. Msg("dir", i, 0).job = i
      BY DEF Msg
    <3> QED
      BY <2>1, <2>3, <3>1
  <2>4. ASSUME NEW i \in V.writeJobs, NEW a, NEW r, Follows(M, i, a, r)
        PROVE Follows(N, i, a, r)
    <3>1. Fault(M, i, r) => Fault(N, i, r)
      BY <2>1 DEF Fault
    <3> QED
      BY <2>2, <2>4, <3>1 DEF Follows
  <2>5. ASSUME NEW i \in V.writeJobs, i \notin V.failed
        PROVE /\ \A m \in N : m.job = i /\ m.kind \in {"block", "done"} =>
                   Follows(N, i, Received(V, NextMsg, i), Rank(m))
              /\ H[i] > 0 /\ L = "open" => Follows(N, i, Received(V, NextMsg, i), H[i])
    <3>1. /\ \A m \in M : m.job = i /\ m.kind \in {"block", "done"} =>
               Follows(M, i, Received(W, NextMsg, i), Rank(m))
          /\ H[i] > 0 /\ L = "open" => Follows(M, i, Received(W, NextMsg, i), H[i])
      BY <2>1, <2>5 DEF Good, Flows
    <3> QED
      BY <2>1, <2>4, <3>1
  <2>6. ASSUME NEW i \in V.writeJobs,
               \/ \E m \in N : m.job = i /\ m.kind = "block"
               \/ H[i] \in 1..Count(i) /\ L = "open"
        PROVE i \in V.listed \/ Msg("dir", i, 0) \in N
    BY <2>1, <2>3, <2>6 DEF Good, Flows
  <2> QED
    BY <2>5, <2>6 DEF Flows
<1>7. Lives(V, S, N, H, L)
  BY DEF Good, Lives
<1> QED
  BY <1>1, <1>2, <1>3, <1>4, <1>5, <1>6, <1>7 DEF Good

(* The loop begins to finalize a download. *)
LEMMA GoodFinalize ==
  ASSUME NEW W \in WebState, NEW S, NEW M, NEW H, NEW L, NEW j \in Job, NEW k \in Loop,
         Good(W, NextMsg, S, M, H, L),
         k.stage = "finalize", k.job = j,
         ~Waiting(W, S, j), H[j] = 0,
         \A m \in M : m.job = j => Rank(m) > Count(j) + 1,
         j \notin W.failed => Len(W.store[j]) = Count(j)
  PROVE Good(W, k, S, M, H, L)
<1>1. Reads(M, H) /\ Turns(W, S) /\ Stores(W) /\ Lives(W, S, M, H, L) /\ Whole(W)
  BY DEF Good
<1>2. Waits(W, k, S, M, H)
  BY DEF Good, Waits, Untouched
<1>3. Handles(W, k, M, H)
  BY DEF Handles
<1>4. Flows(W, k, M, H, L)
  <2>1. \A i \in W.writeJobs : Received(W, k, i) = Received(W, NextMsg, i)
    BY LoopShape DEF Received
  <2> QED
    BY <2>1 DEF Good, Flows
<1> QED
  BY <1>1, <1>2, <1>3, <1>4 DEF Good

(* The loop takes a listing. *)
LEMMA GoodListed ==
  ASSUME NEW W \in WebState, NEW V \in WebState, NEW l \in Loop, NEW S, NEW M \in SUBSET Message,
         NEW h \in Message, NEW N \in SUBSET Message, NEW H \in [Job -> Nat], NEW L,
         Good(W, l, S, M, H, L), M = {h} \cup N, h.kind = "dir",
         V.queue = W.queue, V.dialogs = W.dialogs, V.target = W.target, V.store = W.store,
         V.failed = W.failed, V.closed = W.closed, V.saved = W.saved, V.asked = W.asked,
         V.cancelled = W.cancelled, V.refused = W.refused, V.writeJobs = W.writeJobs,
         W.listed \subseteq V.listed, V.listed \subseteq W.listed \cup {h.job},
         h.job \notin W.writeJobs \/ h.job \in V.listed \/ Count(h.job) = 0
  PROVE Good(V, l, S, N, H, L)
<1>1. Reads(N, H)
  BY DEF Good, Reads
<1>2. Turns(V, S)
  BY DEF Good, Turns
<1>3. Waits(V, l, S, N, H)
  BY DEF Good, Waits, Waiting, Untouched
<1>4. Stores(V)
  <2>1. SUFFICES ASSUME NEW j \in Job, NEW i \in 1..Len(W.store[j])
                 PROVE W.store[j][i].place = Place(V, j)
    BY DEF Good, Stores
  <2>2. W.store[j] # << >>
    OBVIOUS
  <2>3. j \in W.listed /\ j \in V.listed
    BY <2>2 DEF Good, Stores
  <2>4. Place(V, j) = Place(W, j)
    BY <2>3 DEF Place
  <2> QED
    BY <2>1, <2>4 DEF Good, Stores
<1>5. Handles(V, l, N, H)
  BY DEF Good, Handles
<1>6. Flows(V, l, N, H, L)
  <2>1. SUFFICES ASSUME NEW j \in W.writeJobs
                 PROVE /\ j \notin V.failed =>
                            /\ \A m \in N : m.job = j /\ m.kind \in {"block", "done"} =>
                                 Follows(N, j, Received(V, l, j), Rank(m))
                            /\ H[j] > 0 /\ L = "open" => Follows(N, j, Received(V, l, j), H[j])
                       /\ (\E m \in N : m.job = j /\ m.kind = "block")
                            \/ (H[j] \in 1..Count(j) /\ L = "open") =>
                          j \in V.listed \/ Msg("dir", j, 0) \in N
    BY DEF Flows
  <2>2. j \in Job /\ j \in Id /\ H[j] \in Nat
    BY Ids DEF WebState
  <2>3. Received(V, l, j) = Received(W, l, j) /\ Received(W, l, j) \in Nat
    BY <2>2, ReceivedShape DEF Received
  <2>4. ASSUME NEW a \in Nat, NEW r \in Nat, Follows(M, j, a, r) PROVE Follows(N, j, a, r)
    <3>1. CASE r # a + 1 /\ ~Fault(M, j, r)
      <4>1. Msg("block", j, r - 1) \in M /\ r > a /\ r - 1 \in Nat
        BY <2>4, <3>1 DEF Follows
      <4>2. Msg("block", j, r - 1).kind = "block"
        BY <2>2, <4>1, MessageMade
      <4> QED
        BY <4>1, <4>2 DEF Follows
    <3>2. CASE Fault(M, j, r)
      BY <2>4, <3>2 DEF Follows, Fault
    <3> QED
      BY <2>4, <3>1, <3>2 DEF Follows
  <2>5. ASSUME NEW m \in N, m.job = j PROVE Rank(m) \in Nat
    BY <2>2, <2>5, MessageShape
  <2>6. ASSUME j \notin V.failed
        PROVE /\ \A m \in N : m.job = j /\ m.kind \in {"block", "done"} =>
                   Follows(N, j, Received(V, l, j), Rank(m))
              /\ H[j] > 0 /\ L = "open" => Follows(N, j, Received(V, l, j), H[j])
    BY <2>2, <2>3, <2>4, <2>5, <2>6 DEF Good, Flows
  <2>7. ASSUME (\E m \in N : m.job = j /\ m.kind = "block") \/ (H[j] \in 1..Count(j) /\ L = "open")
        PROVE j \in V.listed \/ Msg("dir", j, 0) \in N
    <3>1. j \in W.listed \/ Msg("dir", j, 0) \in M
      BY <2>7 DEF Good, Flows
    <3>2. Msg("dir", j, 0).job = j
      BY <2>2, MessageMade
    <3>3. Count(j) # 0
      BY <2>2, <2>7, Ids DEF Good, Reads
    <3> QED
      BY <3>1, <3>2, <3>3
  <2> QED
    BY <2>6, <2>7
<1>7. Lives(V, S, N, H, L)
  BY DEF Good, Lives
<1>8. Whole(V)
  BY DEF Good, Whole
<1> QED
  BY <1>1, <1>2, <1>3, <1>4, <1>5, <1>6, <1>7, <1>8 DEF Good

(* The loop takes the next block of a download that has its job. *)
LEMMA GoodBlock ==
  ASSUME NEW W \in WebState, NEW S, NEW M \in SUBSET Message,
         NEW h \in Message, NEW N \in SUBSET Message, NEW H \in [Job -> Nat], NEW L, NEW k \in Loop,
         Good(W, NextMsg, S, M, H, L), M = {h} \cup N, \A n \in N : InLine(h, n),
         h.kind = "block", h.job \in W.writeJobs,
         k.stage = "append", k.job = h.job, k.blk = h.blk
  PROVE Good(W, k, S, N, H, L)
<1> DEFINE j == h.job
           a == Received(W, NextMsg, j)
<1>1. j \in Job /\ j \in Id /\ H[j] \in Nat /\ h.blk \in Nat /\ Rank(h) = h.blk
  BY Ids, MessageShape DEF WebState, Rank
<1>2. a = Len(W.store[j]) /\ a \in Nat /\ Received(W, k, j) = a + 1
  BY <1>1, LoopShape, ReceivedShape
<1>3. h.blk >= 1
  BY <1>1, Ids DEF Good, Reads
<1>4. ASSUME NEW r \in Nat, r < h.blk, NEW m \in M, m.job = j, Rank(m) = r PROVE FALSE
  BY <1>1, <1>4 DEF InLine
<1>5. j \in W.listed
  <2>1. j \in W.listed \/ Msg("dir", j, 0) \in M
    BY DEF Good, Flows
  <2>2. Msg("dir", j, 0).job = j /\ Rank(Msg("dir", j, 0)) = 0
    BY <1>1, MessageMade DEF Rank
  <2>3. 0 \in Nat /\ 0 < h.blk
    BY <1>1, <1>3
  <2> QED
    BY <1>4, <2>1, <2>2, <2>3
<1>6. ASSUME NEW r \in Nat, Msg("block", j, r) \in M
      PROVE Rank(Msg("block", j, r)) = r /\ Msg("block", j, r).job = j /\ r >= h.blk
  <2>1. Rank(Msg("block", j, r)) = r /\ Msg("block", j, r).job = j
    BY <1>1, MessageMade DEF Rank
  <2> QED
    BY <1>1, <1>4, <1>6, <2>1
<1>7. ASSUME j \notin W.failed PROVE h.blk = a + 1
  <2>1. Follows(M, j, a, h.blk)
    BY <1>1, <1>7 DEF Good, Flows
  <2>2. CASE h.blk # a + 1
    <3>1. ~Fault(M, j, h.blk)
      <4>1. SUFFICES ASSUME NEW n \in M, n.job = j, Rank(n) < h.blk PROVE FALSE
        BY DEF Fault
      <4>2. Rank(n) \in Nat
        BY <1>1, <4>1, MessageShape
      <4> QED
        BY <1>4, <4>1, <4>2
    <3>2. h.blk - 1 \in Nat /\ Msg("block", j, h.blk - 1) \in M
      BY <1>1, <1>3, <2>1, <2>2, <3>1 DEF Follows
    <3> QED
      BY <1>1, <1>6, <3>2
  <2> QED
    BY <2>2
<1>8. Reads(N, H)
  BY DEF Good, Reads
<1>9. Turns(W, S) /\ Stores(W) /\ Whole(W)
  BY DEF Good
<1>10. Waits(W, k, S, N, H)
  <2>1. ~Waiting(W, S, j)
    BY <1>1 DEF Good, Waits, Untouched
  <2> QED
    BY <2>1 DEF Good, Waits, Untouched
<1>11. Handles(W, k, N, H)
  BY <1>2, <1>5, <1>7 DEF Handles
<1>12. Flows(W, k, N, H, L)
  <2>1. ASSUME NEW r \in Nat, j \notin W.failed, r > h.blk, Follows(M, j, a, r)
        PROVE Follows(N, j, a + 1, r)
    <3>1. h.blk = a + 1
      BY <1>7, <2>1
    <3>2. CASE r # a + 2 /\ ~Fault(M, j, r)
      <4>1. Msg("block", j, r - 1) \in M /\ r - 1 \in Nat /\ r - 1 # h.blk
        BY <1>2, <2>1, <3>1, <3>2 DEF Follows
      <4>2. Msg("block", j, r - 1).blk = r - 1
        BY <1>1, <4>1, MessageMade
      <4> QED
        BY <1>2, <2>1, <3>1, <4>1, <4>2 DEF Follows
    <3>3. CASE Fault(M, j, r)
      BY <1>2, <2>1, <3>1, <3>3 DEF Follows, Fault
    <3> QED
      BY <1>2, <2>1, <3>1, <3>2, <3>3 DEF Follows
  <2>2. ASSUME j \notin W.failed, NEW m \in N, m.job = j, m.kind \in {"block", "done"}
        PROVE Follows(N, j, a + 1, Rank(m))
    <3>1. Rank(m) \in Nat /\ Rank(m) > h.blk
      BY <1>1, <2>2, MessageShape DEF InLine
    <3>2. Follows(M, j, a, Rank(m))
      BY <2>2 DEF Good, Flows
    <3> QED
      BY <2>1, <2>2, <3>1, <3>2
  <2>3. ASSUME j \notin W.failed, H[j] > 0, L = "open" PROVE Follows(N, j, a + 1, H[j])
    <3>1. H[j] > h.blk
      BY <1>1, <2>3 DEF Good, Reads
    <3>2. Follows(M, j, a, H[j])
      BY <2>3 DEF Good, Flows
    <3> QED
      BY <1>1, <2>1, <2>3, <3>1, <3>2
  <2>4. ASSUME NEW i \in W.writeJobs, i # j
        PROVE /\ Received(W, k, i) = Received(W, NextMsg, i)
              /\ \A r \in Nat : Msg("block", i, r) \in M => Msg("block", i, r) \in N
              /\ Msg("dir", i, 0) \in M => Msg("dir", i, 0) \in N
              /\ \A r \in Nat : Fault(M, i, r) => Fault(N, i, r)
    <3>1. i \in Job /\ i \in Id
      BY Ids DEF WebState
    <3>2. Received(W, k, i) = Received(W, NextMsg, i)
      BY <2>4, <3>1, LoopShape, ReceivedShape
    <3>3. /\ \A r \in Nat : Msg("block", i, r).job = i
          /\ Msg("dir", i, 0).job = i
      BY <3>1, MessageMade
    <3>4. \A r \in Nat : Fault(M, i, r) => Fault(N, i, r)
      BY <2>4 DEF Fault
    <3> QED
      BY <2>4, <3>2, <3>3, <3>4
  <2>5. ASSUME NEW i \in W.writeJobs, i # j, i \notin W.failed,
               NEW r \in Nat, Follows(M, i, Received(W, NextMsg, i), r)
        PROVE Follows(N, i, Received(W, k, i), r)
    <3>1. Received(W, NextMsg, i) \in Nat
      BY ReceivedShape DEF WebState
    <3>2. r > Received(W, NextMsg, i) /\ r - 1 \in Nat
      BY <2>5, <3>1 DEF Follows
    <3>3. Msg("block", i, r - 1) \in M => Msg("block", i, r - 1) \in N
      BY <2>4, <2>5, <3>2
    <3> QED
      BY <2>4, <2>5, <3>2, <3>3 DEF Follows
  <2>6. ASSUME NEW i \in W.writeJobs
        PROVE i \in Job /\ H[i] \in Nat /\ \A m \in N : m.job = i => Rank(m) \in Nat
    BY MessageShape DEF WebState
  <2>7. ASSUME NEW i \in W.writeJobs, i \notin W.failed
        PROVE /\ \A m \in N : m.job = i /\ m.kind \in {"block", "done"} =>
                   Follows(N, i, Received(W, k, i), Rank(m))
              /\ H[i] > 0 /\ L = "open" => Follows(N, i, Received(W, k, i), H[i])
    <3>1. CASE i = j
      BY <1>2, <2>2, <2>3, <2>7, <3>1
    <3>2. CASE i # j
      BY <2>5, <2>6, <2>7, <3>2 DEF Good, Flows
    <3> QED
      BY <3>1, <3>2
  <2>8. ASSUME NEW i \in W.writeJobs,
               (\E m \in N : m.job = i /\ m.kind = "block") \/ (H[i] \in 1..Count(i) /\ L = "open")
        PROVE i \in W.listed \/ Msg("dir", i, 0) \in N
    BY <1>5, <2>4, <2>8 DEF Good, Flows
  <2> QED
    BY <2>7, <2>8 DEF Flows
<1>13. Lives(W, S, N, H, L)
  BY DEF Good, Lives
<1> QED
  BY <1>8, <1>9, <1>10, <1>11, <1>12, <1>13 DEF Good

(* The block is appended. *)
LEMMA GoodAppended ==
  ASSUME NEW W \in WebState, NEW V \in WebState, NEW l \in Loop, NEW S, NEW M, NEW H, NEW L,
         Good(W, l, S, M, H, L), l.stage = "append",
         V.queue = W.queue, V.dialogs = W.dialogs, V.target = W.target, V.listed = W.listed,
         V.failed = W.failed, V.closed = W.closed, V.saved = W.saved, V.asked = W.asked,
         V.cancelled = W.cancelled, V.refused = W.refused, V.writeJobs = W.writeJobs,
         V.store[l.job] = Append(W.store[l.job], [blk |-> l.blk, place |-> Place(W, l.job)]),
         \A i \in Job \ {l.job} : V.store[i] = W.store[i]
  PROVE Good(V, NextMsg, S, M, H, L)
<1> DEFINE j == l.job
           e == [blk |-> l.blk, place |-> Place(W, j)]
<1>1. j \in Job /\ l.blk \in Nat
  BY LoopShape
<1>2. W.store[j] \in Seq(Stored) /\ Len(W.store[j]) \in Nat
  BY <1>1, ReceivedShape
<1>3. /\ Len(V.store[j]) = Len(W.store[j]) + 1
      /\ V.store[j][Len(W.store[j]) + 1] = e
      /\ \A i \in 1..Len(W.store[j]) : V.store[j][i] = W.store[j][i]
  BY <1>2
<1>4. j \in W.listed /\ (j \notin W.failed => l.blk = Len(W.store[j]) + 1)
  BY DEF Good, Handles
<1>5. \A i \in Job : Place(V, i) = Place(W, i)
  BY DEF Place
<1>6. Reads(M, H)
  BY DEF Good
<1>7. Turns(V, S)
  BY DEF Good, Turns
<1>8. Waits(V, NextMsg, S, M, H)
  <2>1. ~Waiting(W, S, j)
    BY <1>1 DEF Good, Waits, Untouched
  <2>2. ASSUME NEW i \in Job, Waiting(V, S, i)
        PROVE Waiting(W, S, i) /\ i # j
    BY <2>1, <2>2 DEF Waiting
  <2> QED
    BY <2>2, LoopShape DEF Good, Waits, Untouched
<1>9. Stores(V)
  <2>1. ASSUME NEW i \in 1..Len(V.store[j])
        PROVE V.store[j][i].place = Place(V, j) /\ (j \notin V.failed => V.store[j][i].blk = i)
    <3>1. CASE i \in 1..Len(W.store[j])
      BY <1>1, <1>3, <1>5, <3>1 DEF Good, Stores
    <3>2. CASE i = Len(W.store[j]) + 1
      <4>1. V.store[j][i].place = Place(W, j) /\ V.store[j][i].blk = l.blk
        BY <1>3, <3>2
      <4> QED
        BY <1>1, <1>4, <1>5, <3>2, <4>1
    <3> QED
      BY <1>2, <1>3, <3>1, <3>2
  <2>2. ASSUME NEW i \in Job, i # j
        PROVE /\ V.store[i] # << >> => i \in V.listed
              /\ \A n \in 1..Len(V.store[i]) :
                   /\ V.store[i][n].place = Place(V, i)
                   /\ i \notin V.failed => V.store[i][n].blk = n
    BY <1>5, <2>2 DEF Good, Stores
  <2> QED
    BY <1>4, <2>1, <2>2 DEF Stores
<1>10. Handles(V, NextMsg, M, H)
  BY LoopShape DEF Handles
<1>11. Flows(V, NextMsg, M, H, L)
  <2>1. ASSUME NEW i \in W.writeJobs PROVE Received(V, NextMsg, i) = Received(W, l, i)
    <3>1. i \in Job /\ NextMsg.stage # "append"
      BY LoopShape DEF WebState
    <3>2. CASE i = j
      BY <1>1, <1>3, <3>1, <3>2, ReceivedShape
    <3>3. CASE i # j
      BY <3>1, <3>3, ReceivedShape
    <3> QED
      BY <3>2, <3>3
  <2> QED
    BY <2>1 DEF Good, Flows
<1>12. Lives(V, S, M, H, L)
  BY DEF Good, Lives
<1>13. Whole(V)
  BY DEF Good, Whole
<1> QED
  BY <1>6, <1>7, <1>8, <1>9, <1>10, <1>11, <1>12, <1>13 DEF Good

(* The block is lost, and job_error says so. *)
LEMMA GoodAppendFails ==
  ASSUME NEW W \in WebState, NEW V \in WebState, NEW l \in Loop, NEW S, NEW M, NEW H, NEW L,
         Good(W, l, S, M, H, L), l.stage = "append",
         V.queue = W.queue, V.dialogs = W.dialogs, V.target = W.target, V.listed = W.listed,
         V.store = W.store, V.closed = W.closed, V.saved = W.saved, V.asked = W.asked,
         V.cancelled = W.cancelled, V.refused = W.refused, V.writeJobs = W.writeJobs,
         V.failed = W.failed \cup {l.job}
  PROVE Good(V, NextMsg, S, M, H, L)
<1>1. Reads(M, H)
  BY DEF Good
<1>2. Turns(V, S)
  BY DEF Good, Turns
<1>3. Waits(V, NextMsg, S, M, H)
  BY LoopShape DEF Good, Waits, Waiting, Untouched
<1>4. Stores(V)
  BY DEF Good, Stores, Place
<1>5. Handles(V, NextMsg, M, H)
  BY LoopShape DEF Handles
<1>6. Flows(V, NextMsg, M, H, L)
  <2>1. ASSUME NEW i \in W.writeJobs, i # l.job PROVE Received(V, NextMsg, i) = Received(W, l, i)
    <3>1. i \in Job /\ NextMsg.stage # "append"
      BY LoopShape DEF WebState
    <3>2. Received(V, NextMsg, i) = Len(V.store[i]) /\ Received(W, l, i) = Len(W.store[i])
      BY <2>1, <3>1, ReceivedShape
    <3> QED
      BY <3>2
  <2> QED
    BY <2>1 DEF Good, Flows
<1>7. Lives(V, S, M, H, L)
  BY DEF Good, Lives
<1>8. Whole(V)
  BY DEF Good, Whole
<1> QED
  BY <1>1, <1>2, <1>3, <1>4, <1>5, <1>6, <1>7, <1>8 DEF Good

(* What precedes stays when more messages are on their way. *)
LEMMA FollowsMore ==
  ASSUME NEW M, NEW N, M \subseteq N, NEW j, NEW a, NEW r, Follows(M, j, a, r)
  PROVE Follows(N, j, a, r)
BY DEF Follows, Fault

(* The host answers a download: it lists the files and starts, or refuses. *)
LEMMA GoodStarted ==
  ASSUME NEW W \in WebState, NEW l \in Loop, NEW S, NEW T \in SUBSET S, NEW M \in SUBSET Message,
         NEW H \in [Job -> Nat], NEW G \in [Job -> Nat], NEW L, NEW j \in Job, NEW m \in Message,
         Good(W, l, S, M, H, L), Asks(S, j), ~Asks(T, j), m.job = j,
         \A i \in Job \ {j} : G[i] = H[i],
         \/ m = Msg("dir", j, 0) /\ G[j] = 1
         \/ m = Msg("error", j, 0) /\ G[j] = H[j]
  PROVE Good(W, l, T, M \cup {m}, G, L)
<1>1. Untouched(W, l, M, H, j) /\ H[j] = 0 /\ l.job # j /\ \A n \in M : n.job # j
  BY DEF Good, Waits, Waiting, Untouched
<1>2. (m.kind = "dir" /\ Rank(m) = 0 /\ G[j] = 1) \/ (m.kind = "error" /\ G[j] = 0)
  <2>1. CASE m = Msg("dir", j, 0) /\ G[j] = 1
    BY <2>1, Ids, MessageMade DEF Rank
  <2>2. CASE m = Msg("error", j, 0) /\ G[j] = H[j]
    BY <1>1, <2>2, Ids, MessageMade
  <2> QED
    BY <2>1, <2>2
<1>3. m.kind \notin {"block", "done"}
  BY <1>2
<1>4. Count(j) \in Nat /\ G[j] \in {0, 1}
  BY <1>2, Ids
<1>5. Reads(M \cup {m}, G)
  <2>1. ASSUME NEW i \in Job, G[i] > 0
        PROVE G[i] <= Count(i) + 1 /\ \A n \in M \cup {m} : n.job = i => Rank(n) < G[i]
    <3>1. CASE i = j
      BY <1>1, <1>2, <1>4, <2>1, <3>1
    <3>2. CASE i # j
      BY <2>1, <3>2 DEF Good, Reads
    <3> QED
      BY <3>1, <3>2
  <2>2. \A n \in M \cup {m} : n.job \in Job /\ n.kind = "block" => n.blk \in 1..Count(n.job)
    BY <1>3 DEF Good, Reads
  <2> QED
    BY <2>1, <2>2 DEF Reads
<1>6. Turns(W, T)
  BY DEF Good, Turns
<1>7. ~Waiting(W, T, j)
  BY DEF Good, Turns, Waiting, Asks
<1>8. Waits(W, l, T, M \cup {m}, G)
  <2>1. \A i \in Job : Waiting(W, T, i) => Waiting(W, S, i) /\ i # j
    BY <1>7 DEF Waiting, Asks
  <2> QED
    BY <2>1 DEF Good, Waits, Untouched
<1>9. Stores(W) /\ Whole(W)
  BY DEF Good
<1>10. Handles(W, l, M \cup {m}, G)
  <2>1. l.stage = "finalize" => l.job \in Job \ {j}
    BY <1>1, LoopShape
  <2> QED
    BY <1>1, <2>1 DEF Good, Handles
<1>11. Flows(W, l, M \cup {m}, G, L)
  <2>1. ASSUME NEW i \in W.writeJobs, i \notin W.failed
        PROVE /\ \A n \in M \cup {m} : n.job = i /\ n.kind \in {"block", "done"} =>
                   Follows(M \cup {m}, i, Received(W, l, i), Rank(n))
              /\ G[i] > 0 /\ L = "open" => Follows(M \cup {m}, i, Received(W, l, i), G[i])
    <3>1. CASE i = j
      <4>1. Received(W, l, j) = 0
        BY <1>1, ReceivedShape DEF Untouched
      <4>2. G[j] > 0 => Follows(M \cup {m}, j, 0, G[j])
        BY <1>2 DEF Follows
      <4> QED
        BY <1>1, <1>3, <3>1, <4>1, <4>2
    <3>2. CASE i # j
      <4>1. i \in Job /\ G[i] = H[i]
        BY <3>2 DEF WebState
      <4>2. /\ \A n \in M : n.job = i /\ n.kind \in {"block", "done"} =>
                 Follows(M, i, Received(W, l, i), Rank(n))
            /\ H[i] > 0 /\ L = "open" => Follows(M, i, Received(W, l, i), H[i])
        BY <2>1 DEF Good, Flows
      <4> QED
        BY <1>3, <4>1, <4>2, FollowsMore
    <3> QED
      BY <3>1, <3>2
  <2>2. ASSUME NEW i \in W.writeJobs,
               (\E n \in M \cup {m} : n.job = i /\ n.kind = "block")
                 \/ (G[i] \in 1..Count(i) /\ L = "open")
        PROVE i \in W.listed \/ Msg("dir", i, 0) \in M \cup {m}
    <3>1. i \in Job
      BY DEF WebState
    <3>2. CASE i = j
      BY <1>1, <1>2, <1>3, <1>4, <2>2, <3>2
    <3>3. CASE i # j
      BY <1>3, <2>2, <3>1, <3>3 DEF Good, Flows
    <3> QED
      BY <3>2, <3>3
  <2> QED
    BY <2>1, <2>2 DEF Flows
<1>12. Lives(W, T, M \cup {m}, G, L)
  <2>1. j \in W.writeJobs \/ j \in W.cancelled \/ j \in W.refused \/ L = "ended"
    BY DEF Good, Lives
  <2> QED
    BY <1>3, <2>1 DEF Good, Lives, Asks
<1> QED
  BY <1>5, <1>6, <1>8, <1>9, <1>10, <1>11, <1>12 DEF Good

(* The host answers a request. *)
LEMMA GoodAnswered ==
  ASSUME NEW W \in WebState, NEW l \in Loop, NEW S, NEW M \in SUBSET Message,
         NEW H, NEW L, NEW m \in Message,
         Good(W, l, S, M, H, L), m.job \notin Job
  PROVE Good(W, l, S, M \cup {m}, H, L)
<1>1. Reads(M \cup {m}, H)
  BY DEF Good, Reads
<1>2. Turns(W, S) /\ Stores(W) /\ Whole(W)
  BY DEF Good
<1>3. Waits(W, l, S, M \cup {m}, H)
  BY DEF Good, Waits, Untouched
<1>4. Handles(W, l, M \cup {m}, H)
  BY LoopShape DEF Good, Handles
<1>5. Flows(W, l, M \cup {m}, H, L)
  <2>1. \A i \in W.writeJobs : m.job # i
    BY DEF WebState
  <2>2. ASSUME NEW i \in W.writeJobs, i \notin W.failed
        PROVE /\ \A n \in M \cup {m} : n.job = i /\ n.kind \in {"block", "done"} =>
                   Follows(M \cup {m}, i, Received(W, l, i), Rank(n))
              /\ H[i] > 0 /\ L = "open" => Follows(M \cup {m}, i, Received(W, l, i), H[i])
    BY <2>1, <2>2, FollowsMore DEF Good, Flows
  <2>3. ASSUME NEW i \in W.writeJobs,
               (\E n \in M \cup {m} : n.job = i /\ n.kind = "block")
                 \/ (H[i] \in 1..Count(i) /\ L = "open")
        PROVE i \in W.listed \/ Msg("dir", i, 0) \in M \cup {m}
    BY <2>1, <2>3 DEF Good, Flows
  <2> QED
    BY <2>2, <2>3 DEF Flows
<1>6. Lives(W, S, M \cup {m}, H, L)
  BY DEF Good, Lives
<1> QED
  BY <1>1, <1>2, <1>3, <1>4, <1>5, <1>6 DEF Good

(* The host sends the next block, or Done behind the last one. *)
LEMMA GoodRead ==
  ASSUME NEW W \in WebState, NEW l \in Loop, NEW S, NEW M \in SUBSET Message,
         NEW H \in [Job -> Nat], NEW G \in [Job -> Nat], NEW j \in Job, NEW m \in Message,
         Good(W, l, S, M, H, "open"), H[j] > 0, m.job = j,
         \A i \in Job \ {j} : G[i] = H[i],
         \/ m = Msg("block", j, H[j]) /\ H[j] <= Count(j) /\ G[j] = H[j] + 1
         \/ m.kind = "done" /\ H[j] > Count(j) /\ G[j] = 0
  PROVE Good(W, l, S, M \cup {m}, G, "open")
<1>1. Count(j) \in Nat /\ H[j] \in Nat /\ H[j] <= Count(j) + 1
  BY Ids DEF Good, Reads
<1>2. /\ Rank(m) = H[j] /\ m.kind \in {"block", "done"}
      /\ m.kind = "block" => H[j] \in 1..Count(j) /\ m.blk = H[j] /\ G[j] = H[j] + 1
      /\ m.kind = "done" => G[j] = 0
  <2>1. CASE m = Msg("block", j, H[j]) /\ H[j] <= Count(j) /\ G[j] = H[j] + 1
    BY <1>1, <2>1, Ids, MessageMade DEF Rank
  <2>2. CASE m.kind = "done" /\ H[j] > Count(j) /\ G[j] = 0
    BY <1>1, <2>2 DEF Rank
  <2> QED
    BY <2>1, <2>2
<1>3. ~Waiting(W, S, j)
  BY DEF Good, Waits, Untouched
<1>4. Reads(M \cup {m}, G)
  <2>1. ASSUME NEW i \in Job, G[i] > 0
        PROVE G[i] <= Count(i) + 1 /\ \A n \in M \cup {m} : n.job = i => Rank(n) < G[i]
    <3>1. CASE i = j
      <4>1. G[j] = H[j] + 1 /\ H[j] <= Count(j)
        BY <1>1, <1>2, <2>1, <3>1
      <4>2. ASSUME NEW n \in M, n.job = j PROVE Rank(n) \in Nat /\ Rank(n) < H[j]
        BY <4>2, MessageShape DEF Good, Reads
      <4> QED
        BY <1>1, <1>2, <3>1, <4>1, <4>2
    <3>2. CASE i # j
      BY <2>1, <3>2 DEF Good, Reads
    <3> QED
      BY <3>1, <3>2
  <2>2. \A n \in M \cup {m} : n.job \in Job /\ n.kind = "block" => n.blk \in 1..Count(n.job)
    BY <1>2 DEF Good, Reads
  <2> QED
    BY <2>1, <2>2 DEF Reads
<1>5. Turns(W, S) /\ Stores(W) /\ Whole(W)
  BY DEF Good
<1>6. Waits(W, l, S, M \cup {m}, G)
  BY <1>3 DEF Good, Waits, Untouched
<1>7. Handles(W, l, M \cup {m}, G)
  <2>1. l.stage = "finalize" => l.job \in Job \ {j}
    BY LoopShape DEF Good, Handles
  <2> QED
    BY <2>1 DEF Good, Handles
<1>8. Flows(W, l, M \cup {m}, G, "open")
  <2>1. ASSUME NEW i \in W.writeJobs, i \notin W.failed
        PROVE /\ \A n \in M \cup {m} : n.job = i /\ n.kind \in {"block", "done"} =>
                   Follows(M \cup {m}, i, Received(W, l, i), Rank(n))
              /\ G[i] > 0 => Follows(M \cup {m}, i, Received(W, l, i), G[i])
    <3>1. i \in Job
      BY DEF WebState
    <3>2. /\ \A n \in M : n.job = i /\ n.kind \in {"block", "done"} =>
               Follows(M \cup {m}, i, Received(W, l, i), Rank(n))
          /\ H[i] > 0 => Follows(M \cup {m}, i, Received(W, l, i), H[i])
      BY <2>1, FollowsMore DEF Good, Flows
    <3>3. CASE i = j
      <4>1. Follows(M \cup {m}, j, Received(W, l, j), Rank(m))
        BY <1>2, <3>2, <3>3
      <4>2. ASSUME G[j] > 0 PROVE Follows(M \cup {m}, j, Received(W, l, j), G[j])
        <5>1. m = Msg("block", j, G[j] - 1) /\ G[j] = H[j] + 1
          BY <1>1, <1>2, <4>2
        <5>2. Received(W, l, j) \in Nat
          BY ReceivedShape
        <5> QED
          BY <1>1, <1>2, <4>1, <5>1, <5>2 DEF Follows
      <4> QED
        BY <3>2, <3>3, <4>1, <4>2
    <3>4. CASE i # j
      BY <3>1, <3>2, <3>4
    <3> QED
      BY <3>3, <3>4
  <2>2. ASSUME NEW i \in W.writeJobs,
               (\E n \in M \cup {m} : n.job = i /\ n.kind = "block") \/ G[i] \in 1..Count(i)
        PROVE i \in W.listed \/ Msg("dir", i, 0) \in M \cup {m}
    <3>1. i \in Job
      BY DEF WebState
    <3>2. CASE i = j
      <4>1. (\E n \in M : n.job = j /\ n.kind = "block") \/ H[j] \in 1..Count(j)
        BY <1>1, <1>2, <2>2, <3>2
      <4> QED
        BY <3>2, <4>1 DEF Good, Flows
    <3>3. CASE i # j
      BY <2>2, <3>1, <3>3 DEF Good, Flows
    <3> QED
      BY <3>2, <3>3
  <2> QED
    BY <2>1, <2>2 DEF Flows
<1>9. Lives(W, S, M \cup {m}, G, "open")
  <2>1. j \in W.writeJobs \/ j \in W.cancelled \/ j \in W.refused
    BY DEF Good, Lives
  <2> QED
    BY <2>1 DEF Good, Lives
<1> QED
  BY <1>4, <1>5, <1>6, <1>7, <1>8, <1>9 DEF Good

(* The host reports a file that it cannot read and goes on behind it: what     *)
(* follows comes after the error.                                              *)
LEMMA GoodReadFails ==
  ASSUME NEW W \in WebState, NEW l \in Loop, NEW S, NEW M \in SUBSET Message,
         NEW H \in [Job -> Nat], NEW G \in [Job -> Nat], NEW j \in Job, NEW m \in Message,
         Good(W, l, S, M, H, "open"), H[j] \in 1..Count(j), m = Msg("error", j, H[j]),
         \A i \in Job \ {j} : G[i] = H[i],
         G[j] > H[j], G[j] <= Count(j) + 1
  PROVE Good(W, l, S, M \cup {m}, G, "open")
<1>1. Count(j) \in Nat /\ H[j] \in Nat /\ G[j] \in Nat /\ H[j] > 0
  BY Ids
<1>2. m.kind = "error" /\ m.job = j /\ Rank(m) = H[j]
  BY <1>1, Ids, MessageMade DEF Rank
<1>3. ~Waiting(W, S, j)
  BY <1>1 DEF Good, Waits, Untouched
<1>4. Reads(M \cup {m}, G)
  <2>1. ASSUME NEW i \in Job, G[i] > 0
        PROVE G[i] <= Count(i) + 1 /\ \A n \in M \cup {m} : n.job = i => Rank(n) < G[i]
    <3>1. CASE i = j
      <4>1. ASSUME NEW n \in M, n.job = j PROVE Rank(n) \in Nat /\ Rank(n) < H[j]
        BY <1>1, <4>1, MessageShape DEF Good, Reads
      <4> QED
        BY <1>1, <1>2, <3>1, <4>1
    <3>2. CASE i # j
      BY <1>2, <2>1, <3>2 DEF Good, Reads
    <3> QED
      BY <3>1, <3>2
  <2>2. \A n \in M \cup {m} : n.job \in Job /\ n.kind = "block" => n.blk \in 1..Count(n.job)
    BY <1>2 DEF Good, Reads
  <2> QED
    BY <2>1, <2>2 DEF Reads
<1>5. Turns(W, S) /\ Stores(W) /\ Whole(W)
  BY DEF Good
<1>6. Waits(W, l, S, M \cup {m}, G)
  BY <1>2, <1>3 DEF Good, Waits, Untouched
<1>7. Handles(W, l, M \cup {m}, G)
  <2>1. l.stage = "finalize" => l.job \in Job \ {j}
    BY <1>1, LoopShape DEF Good, Handles
  <2> QED
    BY <1>2, <2>1 DEF Good, Handles
<1>8. Flows(W, l, M \cup {m}, G, "open")
  <2>1. ASSUME NEW i \in W.writeJobs, i \notin W.failed
        PROVE /\ \A n \in M \cup {m} : n.job = i /\ n.kind \in {"block", "done"} =>
                   Follows(M \cup {m}, i, Received(W, l, i), Rank(n))
              /\ G[i] > 0 => Follows(M \cup {m}, i, Received(W, l, i), G[i])
    <3>1. i \in Job
      BY DEF WebState
    <3>2. /\ \A n \in M : n.job = i /\ n.kind \in {"block", "done"} =>
               Follows(M \cup {m}, i, Received(W, l, i), Rank(n))
          /\ H[i] > 0 => Follows(M \cup {m}, i, Received(W, l, i), H[i])
      BY <2>1, FollowsMore DEF Good, Flows
    <3>3. CASE i = j
      <4>1. Received(W, l, j) \in Nat /\ H[j] > Received(W, l, j)
        BY <1>1, <3>2, <3>3, ReceivedShape DEF Follows
      <4>2. Fault(M \cup {m}, j, G[j])
        BY <1>2 DEF Fault
      <4>3. Follows(M \cup {m}, j, Received(W, l, j), G[j])
        BY <1>1, <4>1, <4>2 DEF Follows
      <4> QED
        BY <1>2, <3>2, <3>3, <4>3
    <3>4. CASE i # j
      BY <1>2, <3>1, <3>2, <3>4
    <3> QED
      BY <3>3, <3>4
  <2>2. ASSUME NEW i \in W.writeJobs,
               (\E n \in M \cup {m} : n.job = i /\ n.kind = "block") \/ G[i] \in 1..Count(i)
        PROVE i \in W.listed \/ Msg("dir", i, 0) \in M \cup {m}
    <3>1. i \in Job
      BY DEF WebState
    <3>2. (\E n \in M : n.job = i /\ n.kind = "block") \/ H[i] \in 1..Count(i)
      BY <1>2, <2>2, <3>1
    <3> QED
      BY <3>2 DEF Good, Flows
  <2> QED
    BY <2>1, <2>2 DEF Flows
<1>9. Lives(W, S, M \cup {m}, G, "open")
  <2>1. j \in W.writeJobs \/ j \in W.cancelled \/ j \in W.refused
    BY <1>1 DEF Good, Lives
  <2> QED
    BY <1>2, <2>1 DEF Good, Lives
<1> QED
  BY <1>4, <1>5, <1>6, <1>7, <1>8, <1>9 DEF Good

(* The host drops its job. *)
LEMMA GoodDropped ==
  ASSUME NEW W \in WebState, NEW l \in Loop, NEW S, NEW M, NEW H \in [Job -> Nat],
         NEW G \in [Job -> Nat], NEW L, NEW j \in Job,
         Good(W, l, S, M, H, L), G[j] = 0, \A i \in Job \ {j} : G[i] = H[i]
  PROVE Good(W, l, S, M, G, L)
<1>1. \A i \in Job : G[i] = 0 \/ G[i] = H[i]
  OBVIOUS
<1>2. Reads(M, G)
  BY <1>1 DEF Good, Reads
<1>3. Turns(W, S) /\ Stores(W) /\ Whole(W)
  BY DEF Good
<1>4. Waits(W, l, S, M, G)
  BY <1>1 DEF Good, Waits, Untouched
<1>5. Handles(W, l, M, G)
  BY <1>1, LoopShape DEF Good, Handles
<1>6. Flows(W, l, M, G, L)
  <2>1. \A i \in W.writeJobs : G[i] = 0 \/ G[i] = H[i]
    BY <1>1 DEF WebState
  <2> QED
    BY <2>1, Ids DEF Good, Flows
<1>7. Lives(W, S, M, G, L)
  BY <1>1 DEF Good, Lives
<1> QED
  BY <1>2, <1>3, <1>4, <1>5, <1>6, <1>7 DEF Good

(* A download enters the queue, and the queue may go on to a dialog. *)
LEMMA GoodQueued ==
  ASSUME NEW W \in WebState, NEW V \in WebState, NEW l, NEW S, NEW M, NEW H \in [Job -> Nat], NEW L,
         NEW j \in Job, NEW X,
         Good(W, l, S, M, H, L), j \notin W.asked,
         V.target = W.target, V.listed = W.listed, V.store = W.store, V.failed = W.failed,
         V.closed = W.closed, V.saved = W.saved, V.cancelled = W.cancelled, V.refused = W.refused,
         V.asked = W.asked \cup {j}, X \subseteq Elems(W.queue) \cup {j},
         Elems(V.queue) = (Elems(W.queue) \cup {j}) \ X,
         V.dialogs = W.dialogs \cup X, V.writeJobs = W.writeJobs \cup X
  PROVE Good(V, l, S, M, H, L)
<1>1. Reads(M, H)
  BY DEF Good
<1>2. Turns(V, S)
  BY DEF Good, Turns
<1>3. \A i \in Job : Waiting(V, S, i) => Waiting(W, S, i)
  BY DEF Waiting
<1>4. Waits(V, l, S, M, H)
  BY <1>3 DEF Good, Waits, Untouched
<1>5. Stores(V)
  BY DEF Good, Stores, Place
<1>6. Handles(V, l, M, H)
  BY DEF Good, Handles
<1>7. ASSUME NEW x \in X PROVE x \in Job /\ H[x] = 0 /\ \A m \in M : m.job # x
  <2>1. x \in Job
    BY DEF WebState
  <2>2. Waiting(W, S, x)
    BY DEF Waiting
  <2> QED
    BY <2>1, <2>2 DEF Good, Waits, Untouched
<1>8. Flows(V, l, M, H, L)
  <2>1. \A i : Received(V, l, i) = Received(W, l, i)
    BY DEF Received
  <2>2. ASSUME NEW i \in V.writeJobs, i \notin V.failed
        PROVE /\ \A m \in M : m.job = i /\ m.kind \in {"block", "done"} =>
                   Follows(M, i, Received(V, l, i), Rank(m))
              /\ H[i] > 0 /\ L = "open" => Follows(M, i, Received(V, l, i), H[i])
    <3>1. CASE i \in X
      BY <1>7, <3>1
    <3>2. CASE i \in W.writeJobs
      BY <2>1, <2>2, <3>2 DEF Good, Flows
    <3> QED
      BY <3>1, <3>2
  <2>3. ASSUME NEW i \in V.writeJobs,
               (\E m \in M : m.job = i /\ m.kind = "block") \/ (H[i] \in 1..Count(i) /\ L = "open")
        PROVE i \in V.listed \/ Msg("dir", i, 0) \in M
    <3>1. CASE i \in X
      BY <1>7, <2>3, <3>1, Ids
    <3>2. CASE i \in W.writeJobs
      BY <2>3, <3>2 DEF Good, Flows
    <3> QED
      BY <3>1, <3>2
  <2> QED
    BY <2>2, <2>3 DEF Flows
<1>9. Lives(V, S, M, H, L)
  BY DEF Good, Lives
<1>10. Whole(V)
  BY DEF Good, Whole
<1> QED
  BY <1>1, <1>2, <1>4, <1>5, <1>6, <1>8, <1>9, <1>10 DEF Good

(* The dialog of a download is over: the host is asked for it, unless the      *)
(* link is lost or the dialog was aborted, and the queue may go on.            *)
LEMMA GoodDialog ==
  ASSUME NEW W \in WebState, NEW V \in WebState, NEW l, NEW S, NEW T, NEW M,
         NEW H \in [Job -> Nat], NEW L, NEW j \in Job, NEW X, NEW m \in Message,
         Good(W, l, S, M, H, L), j \in W.dialogs,
         V.listed = W.listed, V.store = W.store, V.closed = W.closed, V.saved = W.saved,
         V.cancelled = W.cancelled, V.refused = W.refused, V.asked = W.asked,
         X \subseteq Elems(W.queue), Elems(V.queue) = Elems(W.queue) \ X,
         V.dialogs = (W.dialogs \ {j}) \cup X,
         W.target \subseteq V.target, V.target \subseteq W.target \cup {j},
         W.failed \subseteq V.failed,
         m.kind = "send", m.job = j,
         \/ V.writeJobs = (W.writeJobs \ {j}) \cup X /\ T = S
         \/ V.writeJobs = W.writeJobs \cup X /\ (T = S \/ T = S \cup {m})
  PROVE Good(V, l, T, M, H, L)
<1>1. Waiting(W, S, j) /\ Untouched(W, l, M, H, j) /\ ~Asks(S, j) /\ j \in W.asked
  BY DEF Waiting, Good, Waits, Turns, Asks
<1>2. T \subseteq S \cup {m}
  OBVIOUS
<1>3. \A i \in Job : Asks(T, i) => Asks(S, i) \/ i = j
  BY <1>2 DEF Asks
<1>4. Reads(M, H)
  BY DEF Good
<1>5. Turns(V, T)
  <2>1. j \notin Elems(W.queue)
    BY DEF Good, Turns
  <2>2. ASSUME NEW n \in T, n.kind = "send"
        PROVE n.job \in V.asked /\ n.job \notin Elems(V.queue) \cup V.dialogs
    <3>1. CASE n \in S
      BY <2>2, <3>1 DEF Good, Turns
    <3>2. CASE n = m
      BY <1>1, <2>1, <3>2
    <3> QED
      BY <1>2, <3>1, <3>2
  <2> QED
    BY <2>2 DEF Good, Turns
<1>6. \A i \in Job : Waiting(V, T, i) => Waiting(W, S, i)
  BY <1>1, <1>3 DEF Waiting
<1>7. Waits(V, l, T, M, H)
  BY <1>6 DEF Good, Waits, Untouched
<1>8. Stores(V)
  <2>1. ASSUME NEW i \in Job, i # j PROVE Place(V, i) = Place(W, i)
    BY <2>1 DEF Place
  <2>2. W.store[j] = << >>
    BY <1>1 DEF Untouched
  <2> QED
    BY <2>1, <2>2 DEF Good, Stores
<1>9. Handles(V, l, M, H)
  BY DEF Good, Handles
<1>10. ASSUME NEW x \in X PROVE x \in Job /\ H[x] = 0 /\ \A n \in M : n.job # x
  <2>1. x \in Job
    BY DEF WebState
  <2>2. Waiting(W, S, x)
    BY DEF Waiting
  <2> QED
    BY <2>1, <2>2 DEF Good, Waits, Untouched
<1>11. Flows(V, l, M, H, L)
  <2>1. \A i : Received(V, l, i) = Received(W, l, i)
    BY DEF Received
  <2>2. ASSUME NEW i \in V.writeJobs PROVE i \in X \/ i \in W.writeJobs
    BY <2>2
  <2>3. ASSUME NEW i \in V.writeJobs, i \notin V.failed
        PROVE /\ \A n \in M : n.job = i /\ n.kind \in {"block", "done"} =>
                   Follows(M, i, Received(V, l, i), Rank(n))
              /\ H[i] > 0 /\ L = "open" => Follows(M, i, Received(V, l, i), H[i])
    <3>1. CASE i \in X
      BY <1>10, <3>1
    <3>2. CASE i \in W.writeJobs
      BY <2>1, <2>3, <3>2 DEF Good, Flows
    <3> QED
      BY <2>2, <3>1, <3>2
  <2>4. ASSUME NEW i \in V.writeJobs,
               (\E n \in M : n.job = i /\ n.kind = "block") \/ (H[i] \in 1..Count(i) /\ L = "open")
        PROVE i \in V.listed \/ Msg("dir", i, 0) \in M
    <3>1. CASE i \in X
      BY <1>10, <2>4, <3>1, Ids
    <3>2. CASE i \in W.writeJobs
      BY <2>4, <3>2 DEF Good, Flows
    <3> QED
      BY <2>2, <3>1, <3>2
  <2> QED
    BY <2>3, <2>4 DEF Flows
<1>12. Lives(V, T, M, H, L)
  <2>1. SUFFICES ASSUME NEW i \in Job,
                        \/ i \in V.dialogs \/ Asks(T, i) \/ H[i] > 0
                        \/ \E n \in M : n.job = i /\ n.kind = "done"
                 PROVE i \in V.writeJobs \/ i \in V.cancelled \/ i \in V.refused \/ L = "ended"
    BY DEF Lives
  <2>2. CASE i = j /\ j \notin X
    <3>1. Asks(T, j)
      BY <1>1, <2>1, <2>2 DEF Untouched
    <3>2. T # S
      BY <1>1, <3>1
    <3> QED
      BY <2>2, <3>2 DEF Good, Lives
  <2>3. CASE i # j \/ j \in X
    BY <1>3, <2>1, <2>3 DEF Good, Lives
  <2> QED
    BY <2>2, <2>3
<1>13. Whole(V)
  BY DEF Good, Whole
<1> QED
  BY <1>4, <1>5, <1>7, <1>8, <1>9, <1>11, <1>12, <1>13 DEF Good

-----------------------------------------------------------------------------
(* What finalizeDownload writes. *)

(* All positions, in their order, are the whole sequence. *)
LEMMA BlksOfAll ==
  ASSUME NEW s \in Seq(Stored)
  PROVE BlksAt(s, 1..Len(s)) = [i \in 1..Len(s) |-> s[i].blk]
<1> DEFINE I == 1..Len(s)
           Nth(n) == CHOOSE i \in I : Cardinality({k \in I : k <= i}) = n
<1>1. Len(s) \in Nat
  OBVIOUS
<1>2. ASSUME NEW i \in 0..Len(s) PROVE Cardinality(1..i) = i
  <2>1. Cardinality(1..i) = IF 1 > i THEN 0 ELSE i - 1 + 1
    BY FS_Interval
  <2> QED
    BY <1>1, <2>1
<1>3. ASSUME NEW i \in I PROVE Cardinality({k \in I : k <= i}) = i
  <2>1. {k \in I : k <= i} = 1..i
    BY <1>1
  <2>2. i \in 0..Len(s)
    BY <1>1
  <2>3. Cardinality(1..i) = i
    BY <1>2, <2>2
  <2> QED
    BY <2>1, <2>3
<1>4. ASSUME NEW n \in I PROVE Nth(n) = n
  BY <1>3
<1>5. Cardinality(I) = Len(s)
  <2>1. Len(s) \in 0..Len(s)
    BY <1>1
  <2> QED
    BY <1>2, <2>1
<1>6. BlksAt(s, I) = [n \in 1..Cardinality(I) |-> s[Nth(n)].blk]
  BY Zenon DEF BlksAt
<1> HIDE DEF Nth
<1>7. [n \in I |-> s[Nth(n)].blk] = [n \in I |-> s[n].blk]
  BY <1>4
<1> QED
  BY <1>5, <1>6, <1>7

(* The n-th of some numbers is the last of n of them. *)
LEMMA Counted ==
  ASSUME NEW m \in Nat, NEW I \in SUBSET (1..m), NEW n \in 1..Cardinality(I)
  PROVE \E i \in I : Cardinality({k \in I : k <= i}) = n
<1> DEFINE Low(i) == {k \in I : k <= i}
           T == 1..Cardinality(I)
           r == [i \in I |-> Cardinality(Low(i))]
<1>1. IsFiniteSet(I) /\ Cardinality(I) \in Nat
  <2>1. IsFiniteSet(1..m)
    BY FS_Interval
  <2>2. IsFiniteSet(I)
    BY <2>1, FS_Subset
  <2> QED
    BY <2>2, FS_CardinalityType
<1>2. IsFiniteSet(T) /\ Cardinality(T) = Cardinality(I)
  <2>1. IsFiniteSet(T) /\ Cardinality(T) = IF 1 > Cardinality(I) THEN 0 ELSE Cardinality(I) - 1 + 1
    BY <1>1, FS_Interval
  <2> QED
    BY <1>1, <2>1
<1>3. ASSUME NEW i \in I
      PROVE /\ Low(i) \in SUBSET I /\ i \in Low(i) /\ IsFiniteSet(Low(i))
            /\ Cardinality(Low(i)) \in T
  <2>1. Low(i) \in SUBSET I /\ i \in Low(i)
    OBVIOUS
  <2> HIDE DEF Low
  <2>2. IsFiniteSet(Low(i)) /\ Cardinality(Low(i)) <= Cardinality(I)
    BY <1>1, <2>1, FS_Subset
  <2>3. Cardinality(Low(i)) \in Nat /\ Cardinality(Low(i)) # 0
    BY <2>1, <2>2, FS_CardinalityType, FS_EmptySet
  <2> QED
    BY <1>1, <2>1, <2>2, <2>3
<1>4. ASSUME NEW i \in I, NEW k \in I, i < k PROVE Cardinality(Low(i)) # Cardinality(Low(k))
  <2>1. k <= k /\ ~(k <= i) /\ \A x \in I : x <= i => x <= k
    BY <1>4
  <2>2. Low(i) \in SUBSET Low(k) /\ k \notin Low(i) /\ k \in Low(k)
    BY <2>1, Zenon
  <2>3. IsFiniteSet(Low(k))
    BY <1>3
  <2> HIDE DEF Low
  <2> QED
    BY <2>2, <2>3, FS_Subset
<1> HIDE DEF Low
<1>5. r \in [I -> T]
  BY <1>3
<1>6. r \in Injection(I, T)
  <2>1. ASSUME NEW i \in I, NEW k \in I, r[i] = r[k] PROVE i = k
    <3>1. Cardinality(Low(i)) = Cardinality(Low(k))
      BY <2>1
    <3>2. i \in Nat /\ k \in Nat
      OBVIOUS
    <3> QED
      BY <1>4, <3>1, <3>2
  <2>2. DOMAIN r = I
    OBVIOUS
  <2> HIDE DEF r
  <2> QED
    BY <1>5, <2>1, <2>2 DEF Injection, IsInjective
<1>7. r \in Surjection(I, T)
  <2> HIDE DEF r, T
  <2> QED
    BY <1>2, <1>6, FS_Injection
<1>8. PICK i \in I : r[i] = n
  BY <1>7 DEF Surjection
<1> QED
  BY <1>8 DEF Low

(* The blocks at some positions are a sequence of blocks. *)
LEMMA BlksType ==
  ASSUME NEW s \in Seq(Stored), NEW I \in SUBSET (1..Len(s))
  PROVE BlksAt(s, I) \in Seq(Nat)
<1> DEFINE Nth(n) == CHOOSE i \in I : Cardinality({k \in I : k <= i}) = n
<1>1. IsFiniteSet(I) /\ Cardinality(I) \in Nat /\ Len(s) \in Nat
  <2>1. IsFiniteSet(1..Len(s))
    BY FS_Interval
  <2>2. IsFiniteSet(I)
    BY <2>1, FS_Subset
  <2> QED
    BY <2>2, FS_CardinalityType
<1>2. ASSUME NEW n \in 1..Cardinality(I) PROVE s[Nth(n)].blk \in Nat
  <2>1. \E i \in I : Cardinality({k \in I : k <= i}) = n
    BY <1>1, Counted
  <2>2. Nth(n) \in I
    BY <2>1
  <2>3. Nth(n) \in 1..Len(s)
    BY <2>2
  <2> HIDE DEF Nth
  <2>4. s[Nth(n)] \in Stored
    BY <2>3
  <2> QED
    BY <2>4 DEF Stored
<1>3. BlksAt(s, I) = [n \in 1..Cardinality(I) |-> s[Nth(n)].blk]
  BY Zenon DEF BlksAt
<1> HIDE DEF Nth
<1> QED
  BY <1>1, <1>2, <1>3

(* A complete download is written whole. *)
LEMMA WrittenWhole ==
  ASSUME NEW W \in WebState, NEW j \in Job, Stores(W), j \notin W.failed,
         Len(W.store[j]) = Count(j)
  PROVE FinalBlocks(W, j) = [b \in 1..Count(j) |-> b]
<1> DEFINE s == W.store[j]
           At(p) == {i \in DOMAIN s : s[i].place = p}
           last == FileOf(j, s[Len(s)].blk)
           Mapped == {i \in At("fileChunks") : FileOf(j, s[i].blk) = last}
<1>1. s \in Seq(Stored) /\ DOMAIN s = 1..Len(s) /\ Len(s) \in Nat
  BY DEF WebState
<1>2. \A i \in 1..Len(s) : s[i].place = Place(W, j) /\ s[i].blk = i
  BY DEF Stores
<1>3. BlksAt(s, DOMAIN s) = [b \in 1..Count(j) |-> b]
  <2>1. BlksAt(s, DOMAIN s) = [i \in 1..Len(s) |-> s[i].blk]
    BY <1>1, BlksOfAll
  <2> QED
    BY <1>2, <2>1
<1>4. CASE s = << >>
  <2>1. At("disk") = {} /\ At("fileChunks") = {} /\ At("chunks") = {} /\ DOMAIN s = {}
    BY <1>1, <1>4
  <2>2. FinalBlocks(W, j) = BlksAt(s, DOMAIN s)
    BY <2>1 DEF FinalBlocks
  <2> QED
    BY <1>3, <2>2
<1>5. CASE s # << >>
  <2>1. j \in W.listed
    BY <1>5 DEF Stores
  <2>2. 1 \in DOMAIN s
    BY <1>1, <1>5
  <2>3. CASE j \in Folder \/ j \in W.target
    <3>1. (j \in Folder /\ j \in W.listed) \/ At("disk") # {}
      BY <1>1, <1>2, <2>1, <2>2, <2>3 DEF Place
    <3>2. FinalBlocks(W, j) = BlksAt(s, DOMAIN s)
      BY <3>1 DEF FinalBlocks
    <3> QED
      BY <1>3, <3>2
  <2>4. CASE j \notin Folder /\ j \notin W.target
    <3>1. \A i \in DOMAIN s : s[i].place = "fileChunks"
      BY <1>1, <1>2, <2>1, <2>4 DEF Place
    <3>2. At("disk") = {} /\ At("fileChunks") = DOMAIN s /\ At("fileChunks") # {}
      BY <2>2, <3>1
    <3>3. \A i \in DOMAIN s : FileOf(j, s[i].blk) = 0
      BY <1>1, <1>2, <2>4, FtDownloadAssumption DEF FileOf, Count
    <3>4. Mapped = DOMAIN s
      BY <1>1, <2>2, <3>2, <3>3
    <3>5. FinalBlocks(W, j) = BlksAt(s, Mapped)
      BY <2>4, <3>2 DEF FinalBlocks
    <3> QED
      BY <1>3, <3>4, <3>5
  <2> QED
    BY <2>3, <2>4
<1> QED
  BY <1>4, <1>5

-----------------------------------------------------------------------------
(* The functions of the web side. *)

(* RemoveJob. *)
LEMMA RemoveJobShape ==
  ASSUME NEW W \in WebState, NEW j, NEW V, V = RemoveJob(W, j)
  PROVE /\ V \in WebState /\ V.writeJobs = W.writeJobs \ {j}
        /\ V.queue = W.queue /\ V.running = W.running /\ V.dialogs = W.dialogs
        /\ V.asked = W.asked /\ V.target = W.target /\ V.listed = W.listed
        /\ V.store = W.store /\ V.broken = W.broken /\ V.saved = W.saved
        /\ V.closed = W.closed /\ V.cancelled = W.cancelled /\ V.refused = W.refused
        /\ V.done = W.done /\ V.failed = W.failed
BY DEF RemoveJob, WebState

(* JobDone. *)
LEMMA JobDoneShape ==
  ASSUME NEW W \in WebState, NEW j \in Id, NEW V, V = JobDone(W, j)
  PROVE /\ V \in WebState /\ V.done = W.done \cup {j}
        /\ V.queue = W.queue /\ V.running = W.running /\ V.dialogs = W.dialogs
        /\ V.asked = W.asked /\ V.target = W.target /\ V.listed = W.listed
        /\ V.store = W.store /\ V.broken = W.broken /\ V.saved = W.saved
        /\ V.closed = W.closed /\ V.cancelled = W.cancelled /\ V.refused = W.refused
        /\ V.writeJobs = W.writeJobs /\ V.failed = W.failed
BY DEF JobDone, WebState

(* PushJobError. *)
LEMMA PushJobErrorShape ==
  ASSUME NEW W \in WebState, NEW J \in SUBSET Id, NEW V, V = PushJobError(W, J)
  PROVE /\ V \in WebState /\ V.failed = W.failed \cup J
        /\ V.queue = W.queue /\ V.running = W.running /\ V.dialogs = W.dialogs
        /\ V.asked = W.asked /\ V.target = W.target /\ V.listed = W.listed
        /\ V.store = W.store /\ V.broken = W.broken /\ V.saved = W.saved
        /\ V.closed = W.closed /\ V.cancelled = W.cancelled /\ V.refused = W.refused
        /\ V.writeJobs = W.writeJobs /\ V.done = W.done
BY DEF PushJobError, WebState

(* The queue may have gone on to a dialog: X holds the download it is for. *)
Advanced(W, V) ==
  /\ V \in WebState /\ Distinct(V.queue)
  /\ \E X : /\ X \subseteq Elems(W.queue) /\ Elems(V.queue) = Elems(W.queue) \ X
            /\ V.dialogs = W.dialogs \cup X /\ V.writeJobs = W.writeJobs \cup X
  /\ V.asked = W.asked /\ V.target = W.target /\ V.listed = W.listed
  /\ V.store = W.store /\ V.broken = W.broken /\ V.saved = W.saved
  /\ V.closed = W.closed /\ V.cancelled = W.cancelled /\ V.refused = W.refused
  /\ V.done = W.done /\ V.failed = W.failed

(* NextInQueue opens a dialog for the first download, if there is one. *)
LEMMA NextInQueueShape ==
  ASSUME NEW W \in WebState, Distinct(W.queue)
  PROVE Advanced(W, NextInQueue(W))
<1> DEFINE V == NextInQueue(W)
<1> SUFFICES Advanced(W, V)
  OBVIOUS
<1>1. W.queue \in Seq(Job)
  BY DEF WebState
<1>2. CASE W.queue = << >>
  <2>1. V = [W EXCEPT !.running = FALSE]
    BY <1>2 DEF NextInQueue
  <2>2. /\ V \in WebState /\ V.queue = W.queue /\ V.dialogs = W.dialogs /\ V.writeJobs = W.writeJobs
        /\ V.asked = W.asked /\ V.target = W.target /\ V.listed = W.listed
        /\ V.store = W.store /\ V.broken = W.broken /\ V.saved = W.saved
        /\ V.closed = W.closed /\ V.cancelled = W.cancelled /\ V.refused = W.refused
        /\ V.done = W.done /\ V.failed = W.failed
    BY <2>1 DEF WebState
  <2> HIDE DEF V
  <2>3. /\ {} \subseteq Elems(W.queue) /\ Elems(V.queue) = Elems(W.queue) \ {}
        /\ V.dialogs = W.dialogs \cup {} /\ V.writeJobs = W.writeJobs \cup {}
    BY <2>2
  <2> QED
    BY <2>2, <2>3 DEF Advanced
<1>3. CASE W.queue # << >>
  <2> DEFINE h == Head(W.queue)
  <2>1. V = [[W EXCEPT !.queue = Tail(@), !.running = TRUE]
               EXCEPT !.writeJobs = @ \cup {h}, !.dialogs = @ \cup {h}]
    BY <1>3 DEF NextInQueue, StartRemoteDownload
  <2>2. /\ h \in Job /\ h \in Elems(W.queue) /\ Tail(W.queue) \in Seq(Job)
        /\ Elems(W.queue) = {h} \cup Elems(Tail(W.queue))
    BY <1>1, <1>3, ElemsTail
  <2>3. Distinct(Tail(W.queue)) /\ h \notin Elems(Tail(W.queue))
    BY <1>1, <1>3, OrderTail
  <2> DEFINE U == [W EXCEPT !.queue = Tail(@), !.running = TRUE]
             A == U.writeJobs \cup {h}
             B == U.dialogs \cup {h}
  <2> HIDE DEF h
  <2>4. /\ U \in WebState /\ U.queue = Tail(W.queue)
        /\ U.dialogs = W.dialogs /\ U.writeJobs = W.writeJobs
        /\ U.asked = W.asked /\ U.target = W.target /\ U.listed = W.listed
        /\ U.store = W.store /\ U.broken = W.broken /\ U.saved = W.saved
        /\ U.closed = W.closed /\ U.cancelled = W.cancelled /\ U.refused = W.refused
        /\ U.done = W.done /\ U.failed = W.failed
    BY <2>2 DEF WebState
  <2>5. V = [U EXCEPT !.writeJobs = A, !.dialogs = B]
    BY <2>1
  <2> HIDE DEF U, V
  <2>6. A \in SUBSET Job /\ B \in SUBSET Job
    BY <2>2, <2>4 DEF WebState
  <2> HIDE DEF A, B
  <2>7. /\ V \in WebState /\ V.queue = U.queue /\ V.dialogs = B /\ V.writeJobs = A
        /\ V.asked = U.asked /\ V.target = U.target /\ V.listed = U.listed
        /\ V.store = U.store /\ V.broken = U.broken /\ V.saved = U.saved
        /\ V.closed = U.closed /\ V.cancelled = U.cancelled /\ V.refused = U.refused
        /\ V.done = U.done /\ V.failed = U.failed
    BY <2>4, <2>5, <2>6 DEF WebState
  <2>8. /\ {h} \subseteq Elems(W.queue) /\ Elems(V.queue) = Elems(W.queue) \ {h}
        /\ V.dialogs = W.dialogs \cup {h} /\ V.writeJobs = W.writeJobs \cup {h}
    BY <2>2, <2>3, <2>4, <2>7 DEF A, B
  <2> QED
    BY <2>3, <2>4, <2>7, <2>8 DEF Advanced
<1> QED
  BY <1>2, <1>3

(* The parts of the invariant. *)
LEMMA InvParts ==
  ASSUME DownloadInv
  PROVE /\ web \in WebState /\ loop \in Loop /\ toHost \in Seq(Message) /\ toWeb \in Seq(Message)
        /\ host \in [Job -> Nat] /\ link \in {"open", "down", "ended"}
        /\ Elems(toHost) \in SUBSET Message /\ Elems(toWeb) \in SUBSET Message
        /\ Sorted(toWeb) /\ Sole(toHost) /\ Distinct(web.queue)
        /\ Good(web, loop, Elems(toHost), Elems(toWeb), host, link)
        /\ DoneMeansSaved
BY ElemsOf DEF DownloadInv, TypeOK, Loop

(* What the invariant says without the order of the queues. *)
LEMMA GoodNow ==
  ASSUME DownloadInv
  PROVE /\ web \in WebState /\ loop \in Loop /\ host \in [Job -> Nat]
        /\ Elems(toHost) \in SUBSET Message /\ Elems(toWeb) \in SUBSET Message
        /\ Good(web, loop, Elems(toHost), Elems(toWeb), host, link)
BY InvParts

(* What is sent reaches toHost while the link is open. *)
LEMMA SendShape ==
  ASSUME toHost \in Seq(Message), NEW m \in Message, Send(m), Sole(toHost),
         m.kind = "send" => ~Asks(Elems(toHost), m.job)
  PROVE /\ toHost' \in Seq(Message) /\ Sole(toHost')
        /\ Elems(toHost') = Elems(toHost) \/ Elems(toHost') = Elems(toHost) \cup {m}
        /\ \A n \in Elems(toHost') : n \in Elems(toHost) \/ n = m
<1>1. CASE link = "open"
  <2>1. toHost' = Append(toHost, m)
    BY <1>1 DEF Send
  <2>2. \A n \in Elems(toHost) : n.kind = "send" /\ m.kind = "send" => n.job # m.job
    BY DEF Asks
  <2> QED
    BY <2>1, <2>2, ElemsMore, OrderMore
<1>2. CASE link # "open"
  BY <1>2 DEF Send
<1> QED
  BY <1>1, <1>2

-----------------------------------------------------------------------------
(* The steps. *)

(* The invariant from its parts. *)
LEMMA InvMade ==
  ASSUME web' \in WebState, loop' \in Loop, toHost' \in Seq(Message), toWeb' \in Seq(Message),
         host' \in [Job -> Nat], link' \in {"open", "down", "ended"},
         Sorted(toWeb'), Sole(toHost'), Distinct(web'.queue),
         Good(web', loop', Elems(toHost'), Elems(toWeb'), host', link'), DoneMeansSaved'
  PROVE DownloadInv'
BY DEF DownloadInv, TypeOK, Loop

(* send_files. *)
LEMMA SendFilesStep ==
  ASSUME DownloadInv, NEW j \in Job, SendFiles(j)
  PROVE DownloadInv'
<1> DEFINE A == web.asked \cup {j}
           Q == Append(web.queue, j)
           W == [web EXCEPT !.asked = A, !.queue = Q]
<1>1. /\ j \notin web.asked /\ web' = ProcessDownloadQueue(W)
      /\ UNCHANGED <<loop, toHost, toWeb, host, link>>
  BY DEF SendFiles
<1>2. web.queue \in Seq(Job) /\ A \in SUBSET Id
  BY InvParts, Ids DEF WebState
<1>3. j \notin Elems(web.queue)
  BY <1>1, InvParts DEF Good, Turns
<1>4. Q \in Seq(Job) /\ Elems(Q) = Elems(web.queue) \cup {j} /\ Distinct(Q)
  BY <1>2, <1>3, InvParts, ElemsMore, OrderMore
<1> HIDE DEF A, Q
<1>5. /\ W \in WebState /\ W.asked = A /\ W.queue = Q
      /\ W.dialogs = web.dialogs /\ W.target = web.target /\ W.listed = web.listed
      /\ W.store = web.store /\ W.saved = web.saved /\ W.writeJobs = web.writeJobs
      /\ W.closed = web.closed /\ W.cancelled = web.cancelled /\ W.refused = web.refused
      /\ W.done = web.done /\ W.failed = web.failed
  BY <1>2, <1>4, InvParts DEF WebState
<1> HIDE DEF W
<1>6. Advanced(W, web')
  <2>1. CASE web' = W
    <3>1. /\ {} \subseteq Elems(W.queue) /\ Elems(W.queue) = Elems(W.queue) \ {}
          /\ W.dialogs = W.dialogs \cup {} /\ W.writeJobs = W.writeJobs \cup {}
      OBVIOUS
    <3> QED
      BY <1>4, <1>5, <2>1, <3>1 DEF Advanced
  <2>2. CASE web' = NextInQueue(W)
    BY <1>4, <1>5, <2>2, NextInQueueShape
  <2> QED
    BY <1>1, <2>1, <2>2 DEF ProcessDownloadQueue
<1>7. PICK X : /\ X \subseteq Elems(W.queue) /\ Elems(web'.queue) = Elems(W.queue) \ X
               /\ web'.dialogs = W.dialogs \cup X /\ web'.writeJobs = W.writeJobs \cup X
  BY <1>6 DEF Advanced
<1>8. /\ web' \in WebState /\ Distinct(web'.queue) /\ web'.asked = web.asked \cup {j}
      /\ web'.target = web.target /\ web'.listed = web.listed /\ web'.store = web.store
      /\ web'.saved = web.saved /\ web'.closed = web.closed /\ web'.cancelled = web.cancelled
      /\ web'.refused = web.refused
      /\ web'.done = web.done /\ web'.failed = web.failed
  BY <1>5, <1>6 DEF Advanced, A
<1>9. Good(web', loop, Elems(toHost), Elems(toWeb), host, link)
  <2>1. /\ X \subseteq Elems(web.queue) \cup {j}
        /\ Elems(web'.queue) = (Elems(web.queue) \cup {j}) \ X
        /\ web'.dialogs = web.dialogs \cup X /\ web'.writeJobs = web.writeJobs \cup X
    BY <1>4, <1>5, <1>7
  <2> QED
    BY <1>1, <1>8, <2>1, GoodNow, GoodQueued
<1>10. DoneMeansSaved'
  BY <1>1, <1>8, InvParts DEF DoneMeansSaved
<1> QED
  BY <1>1, <1>8, <1>9, <1>10, InvParts, InvMade

(* cancel_job. *)
LEMMA CancelJobStep ==
  ASSUME DownloadInv, NEW j \in Job, CancelJob(j)
  PROVE DownloadInv'
<1> DEFINE m == Msg("cancel", j, 0)
           W == RemoveJob(web, j)
<1>1. /\ web' = [W EXCEPT !.cancelled = @ \cup {j}] /\ Send(m)
      /\ UNCHANGED <<loop, toWeb, host, link>>
  BY DEF CancelJob
<1>2. m \in Message /\ m.kind = "cancel"
  BY Ids, MessageMade
<1>3. /\ toHost' \in Seq(Message) /\ Sole(toHost')
      /\ \A n \in Elems(toHost') : n.kind = "send" => n \in Elems(toHost)
  BY <1>1, <1>2, InvParts, SendShape
<1>4. /\ W \in WebState /\ W.writeJobs = web.writeJobs \ {j} /\ W.cancelled = web.cancelled
      /\ W.refused = web.refused
      /\ W.queue = web.queue /\ W.dialogs = web.dialogs /\ W.asked = web.asked
      /\ W.target = web.target /\ W.listed = web.listed /\ W.store = web.store
      /\ W.saved = web.saved /\ W.closed = web.closed
      /\ W.done = web.done /\ W.failed = web.failed
  BY InvParts, RemoveJobShape
<1> HIDE DEF W
<1>5. /\ web' \in WebState /\ web'.writeJobs = W.writeJobs /\ web'.cancelled = W.cancelled \cup {j}
      /\ web'.refused = W.refused
      /\ web'.queue = W.queue /\ web'.dialogs = W.dialogs /\ web'.asked = W.asked
      /\ web'.target = W.target /\ web'.listed = W.listed /\ web'.store = W.store
      /\ web'.saved = W.saved /\ web'.closed = W.closed
      /\ web'.done = W.done /\ web'.failed = W.failed
  BY <1>1, <1>4, Ids DEF WebState
<1>6. /\ web' \in WebState /\ web'.asked = web.asked \cup {} /\ {} \cap Job = {}
      /\ web'.queue = web.queue /\ web'.dialogs = web.dialogs
      /\ web'.target = web.target /\ web'.listed = web.listed /\ web'.store = web.store
      /\ web'.saved = web.saved /\ web'.closed = web.closed /\ web'.failed = web.failed
      /\ web'.writeJobs \subseteq web.writeJobs
      /\ web.writeJobs \ web'.writeJobs \subseteq web'.cancelled
      /\ web.cancelled \subseteq web'.cancelled /\ web.refused \subseteq web'.refused
  BY <1>4, <1>5
<1>7. Good(web', loop, Elems(toHost'), Elems(toWeb), host, link)
  BY <1>3, <1>6, GoodNow, GoodAside
<1>8. DoneMeansSaved'
  BY <1>1, <1>4, <1>5, InvParts DEF DoneMeansSaved
<1> QED
  BY <1>1, <1>3, <1>4, <1>5, <1>7, <1>8, InvParts, InvMade

(* A request to the host. *)
LEMMA RemoteRequestStep ==
  ASSUME DownloadInv, NEW r \in Request, RemoteRequest(r)
  PROVE DownloadInv'
<1> DEFINE m == Msg("request", r, 0)
<1>1. /\ web' = [web EXCEPT !.asked = @ \cup {r}] /\ Send(m)
      /\ UNCHANGED <<loop, toWeb, host, link>>
  BY DEF RemoteRequest
<1>2. m \in Message /\ m.kind = "request"
  BY Ids, MessageMade
<1>3. /\ toHost' \in Seq(Message) /\ Sole(toHost')
      /\ \A n \in Elems(toHost') : n.kind = "send" => n \in Elems(toHost)
  BY <1>1, <1>2, InvParts, SendShape
<1>4. /\ web' \in WebState /\ web'.asked = web.asked \cup {r}
      /\ web'.writeJobs = web.writeJobs /\ web'.cancelled = web.cancelled
      /\ web'.refused = web.refused
      /\ web'.queue = web.queue /\ web'.dialogs = web.dialogs
      /\ web'.target = web.target /\ web'.listed = web.listed /\ web'.store = web.store
      /\ web'.saved = web.saved /\ web'.closed = web.closed
      /\ web'.done = web.done /\ web'.failed = web.failed
  BY <1>1, InvParts, Ids DEF WebState
<1>5. /\ {r} \cap Job = {} /\ web'.writeJobs \subseteq web.writeJobs
      /\ web.writeJobs \ web'.writeJobs \subseteq web'.cancelled
      /\ web.cancelled \subseteq web'.cancelled /\ web.refused \subseteq web'.refused
  BY <1>4, Ids
<1>6. Good(web', loop, Elems(toHost'), Elems(toWeb), host, link)
  BY <1>3, <1>4, <1>5, GoodNow, GoodAside
<1>7. DoneMeansSaved'
  BY <1>1, <1>4, InvParts DEF DoneMeansSaved
<1> QED
  BY <1>1, <1>3, <1>4, <1>6, <1>7, InvParts, InvMade

(* Only job_done is pushed, for something that is no download or was given up. *)
LEMMA JobDoneStep ==
  ASSUME DownloadInv, NEW W \in WebState, NEW r \in Id, web' = JobDone(W, r),
         W.writeJobs = web.writeJobs, W.cancelled = web.cancelled, W.refused = web.refused,
         W.queue = web.queue, W.dialogs = web.dialogs, W.target = web.target,
         W.listed = web.listed, W.store = web.store, W.saved = web.saved, W.closed = web.closed,
         W.done = web.done, W.failed = web.failed,
         NEW Z, W.asked = web.asked \cup Z, Z \cap Job = {}, link' = link,
         r \in Job => r \in web.cancelled \/ r \in web.refused \/ link = "ended",
         NEW M, Good(web, loop, Elems(toHost), M, host, link)
  PROVE /\ web' \in WebState /\ DoneMeansSaved' /\ Distinct(web'.queue)
        /\ Good(web', loop, Elems(toHost), M, host, link)
<1>1. /\ web' \in WebState /\ web'.done = W.done \cup {r}
      /\ web'.asked = W.asked /\ web'.writeJobs = W.writeJobs /\ web'.cancelled = W.cancelled
      /\ web'.refused = W.refused
      /\ web'.queue = W.queue /\ web'.dialogs = W.dialogs
      /\ web'.target = W.target /\ web'.listed = W.listed /\ web'.store = W.store
      /\ web'.saved = W.saved /\ web'.closed = W.closed /\ web'.failed = W.failed
  BY JobDoneShape
<1>2. DoneMeansSaved'
  BY <1>1, InvParts DEF DoneMeansSaved
<1>3. /\ web'.asked = web.asked \cup Z
      /\ web'.queue = web.queue /\ web'.dialogs = web.dialogs
      /\ web'.target = web.target /\ web'.listed = web.listed /\ web'.store = web.store
      /\ web'.saved = web.saved /\ web'.closed = web.closed /\ web'.failed = web.failed
      /\ web'.writeJobs \subseteq web.writeJobs
      /\ web.writeJobs \ web'.writeJobs \subseteq web'.cancelled
      /\ web.cancelled \subseteq web'.cancelled /\ web.refused \subseteq web'.refused
      /\ \A m \in Elems(toHost) : m.kind = "send" => m \in Elems(toHost)
  BY <1>1
<1>4. Good(web', loop, Elems(toHost), M, host, link)
  BY <1>1, <1>3, GoodNow, GoodAside
<1> QED
  BY <1>1, <1>2, <1>4, InvParts

(* A request to the local side. *)
LEMMA LocalRequestStep ==
  ASSUME DownloadInv, NEW r \in Request, LocalRequest(r)
  PROVE DownloadInv'
<1> DEFINE W == [web EXCEPT !.asked = @ \cup {r}]
<1>1. web' = JobDone(W, r) /\ UNCHANGED <<loop, toHost, toWeb, host, link>>
  BY DEF LocalRequest
<1>2. /\ W \in WebState /\ W.asked = web.asked \cup {r}
      /\ W.writeJobs = web.writeJobs /\ W.cancelled = web.cancelled /\ W.refused = web.refused
      /\ W.queue = web.queue /\ W.dialogs = web.dialogs
      /\ W.target = web.target /\ W.listed = web.listed /\ W.store = web.store
      /\ W.saved = web.saved /\ W.closed = web.closed
      /\ W.done = web.done /\ W.failed = web.failed
  BY InvParts, Ids DEF WebState
<1> HIDE DEF W
<1>3. {r} \cap Job = {} /\ r \in Id /\ r \notin Job
  BY Ids
<1>4. /\ web' \in WebState /\ DoneMeansSaved' /\ Distinct(web'.queue)
      /\ Good(web', loop, Elems(toHost), Elems(toWeb), host, link)
  BY <1>1, <1>2, <1>3, InvParts, JobDoneStep
<1> QED
  BY <1>1, <1>4, InvParts, InvMade

(* The end of a save dialog. *)
LEMMA DialogClosedStep ==
  ASSUME DownloadInv, NEW j \in Job, NEW how \in Dialogs[j], DialogClosed(j, how)
  PROVE DownloadInv'
<1> DEFINE m == Msg("send", j, 0)
           B == web.dialogs \ {j}
           W == [web EXCEPT !.dialogs = B]
<1>1. j \in web.dialogs /\ UNCHANGED <<loop, toWeb, host, link>>
  BY DEF DialogClosed
<1>2. m \in Message /\ m.kind = "send" /\ m.job = j
  BY Ids, MessageMade
<1>3. ~Asks(Elems(toHost), j)
  BY <1>1, InvParts DEF Good, Turns, Asks
<1>4. /\ W \in WebState /\ W.dialogs = web.dialogs \ {j}
      /\ W.queue = web.queue /\ W.asked = web.asked /\ W.writeJobs = web.writeJobs
      /\ W.target = web.target /\ W.listed = web.listed /\ W.store = web.store
      /\ W.saved = web.saved /\ W.closed = web.closed /\ W.cancelled = web.cancelled
      /\ W.refused = web.refused
      /\ W.done = web.done /\ W.failed = web.failed
  <2>1. B \in SUBSET Job
    BY InvParts DEF WebState
  <2> HIDE DEF B
  <2>2. /\ W \in WebState /\ W.dialogs = B
        /\ W.queue = web.queue /\ W.asked = web.asked /\ W.writeJobs = web.writeJobs
        /\ W.target = web.target /\ W.listed = web.listed /\ W.store = web.store
        /\ W.saved = web.saved /\ W.closed = web.closed /\ W.cancelled = web.cancelled
        /\ W.refused = web.refused
        /\ W.done = web.done /\ W.failed = web.failed
    BY <2>1, InvParts DEF WebState
  <2> QED
    BY <2>2 DEF B
<1>5. /\ how = "abort" => /\ web' = NextInQueue(PushJobError(RemoveJob(W, j), {j}))
                          /\ toHost' = toHost
      /\ how # "abort" => /\ web' = NextInQueue(IF how = "target"
                                               THEN [W EXCEPT !.target = @ \cup {j}] ELSE W)
                          /\ Send(m)
  BY DEF DialogClosed
<1> HIDE DEF W
<1> DEFINE Before(U) ==
      /\ U \in WebState /\ U.dialogs = web.dialogs \ {j} /\ U.queue = web.queue
      /\ U.asked = web.asked /\ U.listed = web.listed /\ U.store = web.store
      /\ U.saved = web.saved /\ U.closed = web.closed /\ U.cancelled = web.cancelled
      /\ U.refused = web.refused
      /\ U.done = web.done /\ web.failed \subseteq U.failed
      /\ web.target \subseteq U.target /\ U.target \subseteq web.target \cup {j}
<1>6. /\ toHost' \in Seq(Message) /\ Sole(toHost')
      /\ Elems(toHost') = Elems(toHost) \/ Elems(toHost') = Elems(toHost) \cup {m}
  BY <1>2, <1>3, <1>5, InvParts, SendShape
<1>7. \E U : /\ Before(U) /\ web' = NextInQueue(U)
             /\ \/ U.writeJobs = web.writeJobs \ {j} /\ Elems(toHost') = Elems(toHost)
                \/ U.writeJobs = web.writeJobs
  <2>1. CASE how = "abort"
    <3> DEFINE R == RemoveJob(W, j)
               U == PushJobError(R, {j})
    <3>1. /\ R \in WebState /\ R.writeJobs = W.writeJobs \ {j}
          /\ R.queue = W.queue /\ R.dialogs = W.dialogs
          /\ R.asked = W.asked /\ R.target = W.target /\ R.listed = W.listed
          /\ R.store = W.store /\ R.saved = W.saved
          /\ R.closed = W.closed /\ R.cancelled = W.cancelled /\ R.refused = W.refused
          /\ R.done = W.done /\ R.failed = W.failed
      BY <1>4, RemoveJobShape
    <3> HIDE DEF R
    <3>2. /\ U \in WebState /\ U.failed = R.failed \cup {j} /\ U.writeJobs = R.writeJobs
          /\ U.queue = R.queue /\ U.dialogs = R.dialogs
          /\ U.asked = R.asked /\ U.target = R.target /\ U.listed = R.listed
          /\ U.store = R.store /\ U.saved = R.saved
          /\ U.closed = R.closed /\ U.cancelled = R.cancelled
          /\ U.refused = R.refused /\ U.done = R.done
      BY <3>1, Ids, PushJobErrorShape
    <3>3. web' = NextInQueue(U) /\ toHost' = toHost
      BY <1>5, <2>1 DEF R
    <3> HIDE DEF U
    <3>4. Before(U) /\ U.writeJobs = web.writeJobs \ {j}
      BY <1>4, <3>1, <3>2
    <3> QED
      BY <3>3, <3>4
  <2>2. CASE how = "target"
    <3> DEFINE A == W.target \cup {j}
               U == [W EXCEPT !.target = A]
    <3>1. A \in SUBSET Job
      BY <1>4 DEF WebState
    <3>2. web' = NextInQueue(U)
      BY <1>5, <2>2
    <3> HIDE DEF A
    <3>3. /\ U \in WebState /\ U.target = A /\ U.writeJobs = W.writeJobs
          /\ U.queue = W.queue /\ U.dialogs = W.dialogs
          /\ U.asked = W.asked /\ U.listed = W.listed
          /\ U.store = W.store /\ U.saved = W.saved
          /\ U.closed = W.closed /\ U.cancelled = W.cancelled /\ U.refused = W.refused
          /\ U.done = W.done /\ U.failed = W.failed
      BY <1>4, <3>1 DEF WebState
    <3> HIDE DEF U
    <3>4. Before(U) /\ U.writeJobs = web.writeJobs
      BY <1>4, <3>3 DEF A
    <3> QED
      BY <3>2, <3>4
  <2>3. CASE how \notin {"abort", "target"}
    <3>1. web' = NextInQueue(W) /\ Before(W) /\ W.writeJobs = web.writeJobs
      BY <1>4, <1>5, <2>3
    <3> QED
      BY <3>1
  <2> QED
    BY <2>1, <2>2, <2>3
<1>8. PICK U : /\ Before(U) /\ web' = NextInQueue(U)
               /\ \/ U.writeJobs = web.writeJobs \ {j} /\ Elems(toHost') = Elems(toHost)
                  \/ U.writeJobs = web.writeJobs
  BY <1>7
<1>9. Advanced(U, web')
  <2>1. U \in WebState /\ Distinct(U.queue)
    BY <1>8, InvParts
  <2> QED
    BY <1>8, <2>1, NextInQueueShape
<1>10. PICK X : /\ X \subseteq Elems(U.queue) /\ Elems(web'.queue) = Elems(U.queue) \ X
                /\ web'.dialogs = U.dialogs \cup X /\ web'.writeJobs = U.writeJobs \cup X
  BY <1>9 DEF Advanced
<1>11. /\ web' \in WebState /\ Distinct(web'.queue) /\ web'.asked = web.asked
       /\ web.target \subseteq web'.target /\ web'.target \subseteq web.target \cup {j}
       /\ web'.listed = web.listed /\ web'.store = web.store
       /\ web'.saved = web.saved /\ web'.closed = web.closed /\ web'.cancelled = web.cancelled
       /\ web'.refused = web.refused
       /\ web'.done = web.done /\ web.failed \subseteq web'.failed
  BY <1>8, <1>9 DEF Advanced
<1>12. /\ X \subseteq Elems(web.queue) /\ Elems(web'.queue) = Elems(web.queue) \ X
       /\ web'.dialogs = (web.dialogs \ {j}) \cup X
       /\ \/ web'.writeJobs = (web.writeJobs \ {j}) \cup X /\ Elems(toHost') = Elems(toHost)
          \/ /\ web'.writeJobs = web.writeJobs \cup X
             /\ Elems(toHost') = Elems(toHost) \/ Elems(toHost') = Elems(toHost) \cup {m}
  BY <1>6, <1>8, <1>10
<1> HIDE DEF m
<1>13. Good(web', loop, Elems(toHost'), Elems(toWeb), host, link)
  BY <1>1, <1>2, <1>11, <1>12, GoodNow, GoodDialog
<1>14. DoneMeansSaved'
  BY <1>1, <1>11, InvParts DEF DoneMeansSaved
<1> QED
  BY <1>1, <1>6, <1>11, <1>13, <1>14, InvParts, InvMade

(* close(). *)
LEMMA CloseStep ==
  ASSUME DownloadInv, Close
  PROVE DownloadInv'
<1>1. /\ web' = [web EXCEPT !.writeJobs = {}] /\ toHost' = << >> /\ link' = "ended"
      /\ UNCHANGED <<loop, host>>
  BY DEF Close, CloseSocket
<1>2. PICK n \in 0..Len(toWeb) : toWeb' = SubSeq(toWeb, 1, n)
  BY DEF Close, CloseSocket
<1>3. /\ toWeb' \in Seq(Message) /\ Sorted(toWeb') /\ Elems(toWeb') \subseteq Elems(toWeb)
      /\ \A m \in Elems(toWeb'), d \in Elems(toWeb) :
           m.job = d.job /\ m.job \in Job /\ Rank(d) < Rank(m) => d \in Elems(toWeb')
  BY <1>2, InvParts, OrderStart
<1>4. toHost' \in Seq(Message) /\ Sole(toHost') /\ Elems(toHost') = {}
  BY <1>1 DEF Sole, Elems
<1>5. /\ web' \in WebState /\ web'.writeJobs = {} /\ web'.cancelled = web.cancelled
      /\ web'.refused = web.refused
      /\ web'.queue = web.queue /\ web'.dialogs = web.dialogs /\ web'.asked = web.asked
      /\ web'.target = web.target /\ web'.listed = web.listed /\ web'.store = web.store
      /\ web'.saved = web.saved /\ web'.closed = web.closed
      /\ web'.done = web.done /\ web'.failed = web.failed
  BY <1>1, InvParts DEF WebState
<1>6. Good(web', loop, Elems(toHost'), Elems(toWeb'), host, "ended")
  BY <1>3, <1>4, <1>5, GoodNow, GoodLost
<1>7. DoneMeansSaved'
  BY <1>1 DEF DoneMeansSaved
<1> QED
  BY <1>1, <1>3, <1>4, <1>5, <1>6, <1>7, InvParts, InvMade

(* The socket is lost. *)
LEMMA SocketLostStep ==
  ASSUME DownloadInv, SocketLost
  PROVE DownloadInv'
<1>1. link = "open" /\ link' = "down" /\ toHost' = << >> /\ UNCHANGED <<web, loop, host>>
  BY DEF SocketLost
<1>2. PICK n \in 0..Len(toWeb) : toWeb' = SubSeq(toWeb, 1, n)
  BY DEF SocketLost
<1>3. /\ toWeb' \in Seq(Message) /\ Sorted(toWeb') /\ Elems(toWeb') \subseteq Elems(toWeb)
      /\ \A m \in Elems(toWeb'), d \in Elems(toWeb) :
           m.job = d.job /\ m.job \in Job /\ Rank(d) < Rank(m) => d \in Elems(toWeb')
  BY <1>2, InvParts, OrderStart
<1>4. toHost' \in Seq(Message) /\ Sole(toHost') /\ Elems(toHost') = {}
  BY <1>1 DEF Sole, Elems
<1>5. Good(web, loop, Elems(toHost'), Elems(toWeb'), host, "down")
  BY <1>1, <1>3, <1>4, GoodNow, GoodLost
<1>6. DoneMeansSaved'
  BY <1>1, InvParts DEF DoneMeansSaved
<1> QED
  BY <1>1, <1>3, <1>4, <1>5, <1>6, InvParts, InvMade

(* next() rejects. *)
LEMMA LoopRejectedStep ==
  ASSUME DownloadInv, LoopRejected
  PROVE DownloadInv'
<1>1. link # "open" /\ loop = NextMsg /\ loop' = LoopOver /\ UNCHANGED <<toHost, host>>
  BY DEF LoopRejected
<1>2. CASE link = "ended"
  <2>1. UNCHANGED <<web, toWeb, link>>
    BY <1>2 DEF LoopRejected
  <2>2. Good(web, loop', Elems(toHost), Elems(toWeb), host, link)
    BY <1>1, <1>2, InvParts, LoopShape, GoodLost
  <2>3. DoneMeansSaved'
    BY <2>1, InvParts DEF DoneMeansSaved
  <2> QED
    BY <1>1, <2>1, <2>2, <2>3, InvParts, LoopShape, InvMade
<1>3. CASE link # "ended"
  <2> DEFINE J == web.writeJobs
             W == PushJobError(web, J)
  <2>1. web' = [W EXCEPT !.writeJobs = {}] /\ link' = "ended"
    BY <1>3 DEF LoopRejected, CloseSocket
  <2>2. PICK n \in 0..Len(toWeb) : toWeb' = SubSeq(toWeb, 1, n)
    BY <1>3 DEF LoopRejected, CloseSocket
  <2>3. /\ toWeb' \in Seq(Message) /\ Sorted(toWeb') /\ Elems(toWeb') \subseteq Elems(toWeb)
        /\ \A m \in Elems(toWeb'), d \in Elems(toWeb) :
             m.job = d.job /\ m.job \in Job /\ Rank(d) < Rank(m) => d \in Elems(toWeb')
    BY <2>2, InvParts, OrderStart
  <2>4. /\ W \in WebState /\ W.failed = web.failed \cup J
        /\ W.cancelled = web.cancelled /\ W.refused = web.refused
        /\ W.queue = web.queue /\ W.dialogs = web.dialogs /\ W.asked = web.asked
        /\ W.target = web.target /\ W.listed = web.listed /\ W.store = web.store
        /\ W.saved = web.saved /\ W.closed = web.closed /\ W.done = web.done
    <3>1. J \in SUBSET Id
      BY InvParts, Ids DEF WebState
    <3> QED
      BY <3>1, InvParts, PushJobErrorShape
  <2> HIDE DEF W
  <2>5. /\ web' \in WebState /\ web'.writeJobs = {} /\ web'.cancelled = W.cancelled
        /\ web'.refused = W.refused
        /\ web'.queue = W.queue /\ web'.dialogs = W.dialogs /\ web'.asked = W.asked
        /\ web'.target = W.target /\ web'.listed = W.listed /\ web'.store = W.store
        /\ web'.saved = W.saved /\ web'.closed = W.closed
        /\ web'.done = W.done /\ web'.failed = W.failed
    BY <2>1, <2>4 DEF WebState
  <2>6. /\ web'.cancelled = web.cancelled /\ web'.refused = web.refused
        /\ web'.queue = web.queue /\ web'.dialogs = web.dialogs /\ web'.asked = web.asked
        /\ web'.target = web.target /\ web'.listed = web.listed /\ web'.store = web.store
        /\ web'.saved = web.saved /\ web'.closed = web.closed
        /\ web.failed \subseteq web'.failed /\ web'.writeJobs \subseteq web.writeJobs
    BY <2>4, <2>5
  <2>7. Good(web', loop', Elems(toHost), Elems(toWeb'), host, "ended")
    <3>1. web' \in WebState /\ loop' \in Loop /\ (loop' = loop \/ (loop = NextMsg /\ loop' = LoopOver))
      BY <1>1, <2>5, GoodNow, LoopShape
    <3> QED
      BY <2>3, <2>6, <3>1, GoodNow, GoodLost
  <2>8. DoneMeansSaved'
    BY <2>1 DEF DoneMeansSaved
  <2> QED
    BY <1>1, <2>1, <2>3, <2>5, <2>6, <2>7, <2>8, InvParts, LoopShape, InvMade
<1> QED
  BY <1>2, <1>3

(* The loop takes the first message; what is left about the same download      *)
(* comes after it.                                                             *)
LEMMA DequeueShape ==
  ASSUME DownloadInv, NEW kind, Dequeue(kind)
  PROVE /\ loop = NextMsg /\ Head(toWeb) \in Message /\ Head(toWeb).kind = kind
        /\ Head(toWeb).job \in Id
        /\ toWeb' \in Seq(Message) /\ Sorted(toWeb') /\ Elems(toWeb') \in SUBSET Message
        /\ Elems(toWeb) = {Head(toWeb)} \cup Elems(toWeb')
        /\ \A n \in Elems(toWeb') : InLine(Head(toWeb), n)
        /\ UNCHANGED <<toHost, host, link>>
<1>1. /\ loop = NextMsg /\ toWeb # << >> /\ Head(toWeb).kind = kind /\ toWeb' = Tail(toWeb)
      /\ UNCHANGED <<toHost, host, link>>
  BY DEF Dequeue
<1>2. /\ Head(toWeb) \in Message /\ Tail(toWeb) \in Seq(Message)
      /\ Elems(toWeb) = {Head(toWeb)} \cup Elems(Tail(toWeb))
  BY <1>1, InvParts, ElemsTail
<1>3. Sorted(Tail(toWeb)) /\ \A n \in Elems(Tail(toWeb)) : InLine(Head(toWeb), n)
  BY <1>1, InvParts, OrderTail
<1>4. Elems(Tail(toWeb)) \in SUBSET Message
  BY <1>2, ElemsOf
<1> QED
  BY <1>1, <1>2, <1>3, <1>4, MessageShape

(* handleDir. *)
LEMMA LoopDirStep ==
  ASSUME DownloadInv, LoopDir
  PROVE DownloadInv'
<1> DEFINE h == Head(toWeb)
           A == web.listed \cup {h.job}
<1>1. /\ Dequeue("dir") /\ loop' = loop
      /\ web' = IF h.job \in web.writeJobs /\ Blocks[h.job] # << >>
                THEN [web EXCEPT !.listed = A] ELSE web
  BY DEF LoopDir
<1>2. /\ h \in Message /\ h.kind = "dir"
      /\ toWeb' \in Seq(Message) /\ Sorted(toWeb') /\ Elems(toWeb') \in SUBSET Message
      /\ Elems(toWeb) = {h} \cup Elems(toWeb')
      /\ UNCHANGED <<toHost, host, link>>
  BY <1>1, DequeueShape
<1> HIDE DEF h
<1>3. /\ web' \in WebState /\ web.listed \subseteq web'.listed /\ web'.listed \subseteq A
      /\ h.job \notin web.writeJobs \/ h.job \in web'.listed \/ Count(h.job) = 0
      /\ web'.queue = web.queue /\ web'.dialogs = web.dialogs /\ web'.asked = web.asked
      /\ web'.target = web.target /\ web'.store = web.store
      /\ web'.writeJobs = web.writeJobs /\ web'.cancelled = web.cancelled
      /\ web'.refused = web.refused
      /\ web'.saved = web.saved /\ web'.closed = web.closed
      /\ web'.done = web.done /\ web'.failed = web.failed
  <2>1. CASE h.job \in web.writeJobs /\ Blocks[h.job] # << >>
    <3>1. A \in SUBSET Job
      BY <2>1, InvParts DEF WebState
    <3>2. web.listed \subseteq A /\ h.job \in A
      OBVIOUS
    <3> HIDE DEF A
    <3>3. web' = [web EXCEPT !.listed = A]
      BY <1>1, <2>1
    <3>4. /\ web' \in WebState /\ web'.listed = A
          /\ web'.queue = web.queue /\ web'.dialogs = web.dialogs /\ web'.asked = web.asked
          /\ web'.target = web.target /\ web'.store = web.store
          /\ web'.writeJobs = web.writeJobs /\ web'.cancelled = web.cancelled
          /\ web'.refused = web.refused
          /\ web'.saved = web.saved /\ web'.closed = web.closed
          /\ web'.done = web.done /\ web'.failed = web.failed
      BY <3>1, <3>3, InvParts DEF WebState
    <3> QED
      BY <3>2, <3>4
  <2>2. CASE ~(h.job \in web.writeJobs /\ Blocks[h.job] # << >>)
    <3>1. web' = web
      BY <1>1, <2>2
    <3>2. h.job \notin web.writeJobs \/ Count(h.job) = 0
      BY <2>2 DEF Count
    <3> QED
      BY <3>1, <3>2, InvParts
  <2> QED
    BY <2>1, <2>2
<1>4. Good(web', loop, Elems(toHost), Elems(toWeb'), host, link)
  BY <1>2, <1>3, GoodNow, GoodListed
<1>5. DoneMeansSaved'
  BY <1>2, <1>3, InvParts DEF DoneMeansSaved
<1> QED
  BY <1>1, <1>2, <1>3, <1>4, <1>5, InvParts, InvMade

(* handleBlock. *)
LEMMA LoopBlockStep ==
  ASSUME DownloadInv, LoopBlock
  PROVE DownloadInv'
<1> DEFINE h == Head(toWeb)
<1>1. /\ Dequeue("block") /\ web' = web
      /\ loop' = IF h.job \in web.writeJobs
                 THEN [stage |-> "append", job |-> h.job, blk |-> h.blk] ELSE NextMsg
  BY DEF LoopBlock
<1>2. /\ loop = NextMsg /\ h \in Message /\ h.kind = "block"
      /\ toWeb' \in Seq(Message) /\ Sorted(toWeb') /\ Elems(toWeb') \in SUBSET Message
      /\ Elems(toWeb) = {h} \cup Elems(toWeb') /\ \A n \in Elems(toWeb') : InLine(h, n)
      /\ UNCHANGED <<toHost, host, link>>
  BY <1>1, DequeueShape
<1> HIDE DEF h
<1>3. loop' \in Loop /\ Good(web, loop', Elems(toHost), Elems(toWeb'), host, link)
  <2>1. CASE h.job \in web.writeJobs
    <3>1. h.job \in Job /\ h.blk \in Nat
      BY <1>2, <2>1, InvParts, MessageShape DEF WebState
    <3>2. loop' \in Loop /\ loop'.stage = "append" /\ loop'.job = h.job /\ loop'.blk = h.blk
      BY <1>1, <2>1, <3>1 DEF Loop, Awaiting
    <3> QED
      BY <1>2, <2>1, <3>2, GoodNow, GoodBlock
  <2>2. CASE h.job \notin web.writeJobs
    <3>1. loop' = loop
      BY <1>1, <1>2, <2>2
    <3> QED
      BY <1>2, <2>2, <3>1, GoodNow, GoodTaken
  <2> QED
    BY <2>1, <2>2
<1>4. DoneMeansSaved'
  BY <1>1, <1>2, InvParts DEF DoneMeansSaved
<1> QED
  BY <1>1, <1>2, <1>3, <1>4, InvParts, InvMade

(* handleDone. *)
LEMMA LoopDoneStep ==
  ASSUME DownloadInv, LoopDone
  PROVE DownloadInv'
<1> DEFINE h == Head(toWeb)
           j == h.job
           M == Elems(toWeb')
<1>1. /\ Dequeue("done")
      /\ j \in web.writeJobs => loop' = [stage |-> "finalize", job |-> j, blk |-> 0] /\ web' = web
      /\ j \notin web.writeJobs => web' = JobDone(web, j) /\ loop' = loop
  BY DEF LoopDone
<1>2. /\ loop = NextMsg /\ h \in Message /\ h.kind = "done" /\ j \in Id
      /\ toWeb' \in Seq(Message) /\ Sorted(toWeb') /\ M \in SUBSET Message
      /\ Elems(toWeb) = {h} \cup M /\ \A n \in M : InLine(h, n)
      /\ UNCHANGED <<toHost, host, link>>
  BY <1>1, DequeueShape
<1> HIDE DEF h
<1>3. Good(web, loop, Elems(toHost), M, host, link)
  BY <1>2, GoodNow, GoodTaken
<1>4. CASE j \in web.writeJobs
  <2>1. j \in Job
    BY <1>4, InvParts DEF WebState
  <2>2. loop' \in Loop /\ loop'.stage = "finalize" /\ loop'.job = j
    BY <1>1, <1>4, <2>1 DEF Loop, Awaiting
  <2>3. ~Waiting(web, Elems(toHost), j)
    BY <1>2, <2>1, InvParts DEF Good, Waits, Untouched
  <2>4. Rank(h) = Count(j) + 1 /\ Count(j) \in Nat /\ host[j] \in Nat
    BY <1>2, <2>1, InvParts, Ids DEF Rank
  <2>5. host[j] = 0
    BY <1>2, <2>1, <2>4, InvParts DEF Good, Reads
  <2>6. \A n \in M : n.job = j => Rank(n) > Count(j) + 1
    <3>1. ASSUME NEW n \in M, n.job = j PROVE Rank(n) > Count(j) + 1
      <4>1. Rank(n) \in Nat /\ Rank(h) < Rank(n)
        BY <1>2, <2>1, <3>1, MessageShape DEF InLine
      <4> QED
        BY <2>4, <4>1
    <3> QED
      BY <3>1
  <2>7. ASSUME j \notin web.failed PROVE Len(web.store[j]) = Count(j)
    <3>1. Received(web, loop, j) = Len(web.store[j]) /\ Len(web.store[j]) \in Nat
      BY <1>2, <2>1, InvParts, LoopShape, ReceivedShape
    <3>2. Follows(Elems(toWeb), j, Len(web.store[j]), Count(j) + 1)
      BY <1>2, <1>4, <2>4, <2>7, <3>1, InvParts DEF Good, Flows
    <3>3. ~Fault(Elems(toWeb), j, Count(j) + 1)
      <4>1. SUFFICES ASSUME NEW n \in Elems(toWeb), n.kind = "error", n.job = j,
                            Rank(n) < Count(j) + 1
                     PROVE FALSE
        BY DEF Fault
      <4>2. n \in M /\ Rank(n) \in Nat
        BY <1>2, <2>1, <4>1, MessageShape
      <4> QED
        BY <2>4, <2>6, <4>1, <4>2
    <3>4. CASE Count(j) + 1 # Len(web.store[j]) + 1
      <4> DEFINE d == Msg("block", j, Count(j) + 1 - 1)
      <4>1. d \in Elems(toWeb) /\ Count(j) + 1 - 1 = Count(j)
        BY <2>4, <3>2, <3>3, <3>4 DEF Follows
      <4>2. d.kind = "block" /\ d.job = j /\ Rank(d) = Count(j)
        BY <1>2, <2>4, <4>1, MessageMade DEF Rank
      <4>3. d \in M
        BY <1>2, <4>1, <4>2
      <4> QED
        BY <2>4, <2>6, <4>2, <4>3
    <3> QED
      BY <2>4, <3>1, <3>4
  <2>8. Good(web, loop', Elems(toHost), M, host, link)
    BY <1>2, <1>3, <2>1, <2>2, <2>3, <2>5, <2>6, <2>7, GoodNow, GoodFinalize
  <2>9. DoneMeansSaved'
    BY <1>1, <1>2, <1>4, InvParts DEF DoneMeansSaved
  <2> QED
    BY <1>1, <1>2, <1>4, <2>2, <2>8, <2>9, InvParts, InvMade
<1>5. CASE j \notin web.writeJobs
  <2>1. web' = JobDone(web, j) /\ loop' = loop
    BY <1>1, <1>5
  <2>2. j \in Job => j \in web.cancelled \/ j \in web.refused \/ link = "ended"
    BY <1>2, <1>5, InvParts DEF Good, Lives
  <2>3. web.asked = web.asked \cup {} /\ {} \cap Job = {} /\ link' = link
    BY <1>2
  <2>4. /\ web' \in WebState /\ DoneMeansSaved' /\ Distinct(web'.queue)
        /\ Good(web', loop, Elems(toHost), M, host, link)
    BY <1>2, <1>3, <2>1, <2>2, <2>3, InvParts, JobDoneStep
  <2> QED
    BY <1>2, <2>1, <2>4, InvParts, InvMade
<1> QED
  BY <1>4, <1>5

(* What leaves its job with an error. *)
LEMMA Errored ==
  ASSUME DownloadInv, NEW j \in Id, NEW U, U = PushJobError(RemoveJob(web, j), {j})
  PROVE /\ U \in WebState /\ U.writeJobs = web.writeJobs \ {j}
        /\ U.failed = web.failed \cup {j} /\ U.done = web.done
        /\ U.queue = web.queue /\ U.dialogs = web.dialogs /\ U.asked = web.asked
        /\ U.target = web.target /\ U.listed = web.listed /\ U.store = web.store
        /\ U.saved = web.saved /\ U.closed = web.closed
        /\ U.cancelled = web.cancelled /\ U.refused = web.refused
        /\ Whole(U)
<1> DEFINE R == RemoveJob(web, j)
<1>1. /\ R \in WebState /\ R.writeJobs = web.writeJobs \ {j}
      /\ R.queue = web.queue /\ R.dialogs = web.dialogs
      /\ R.asked = web.asked /\ R.target = web.target /\ R.listed = web.listed
      /\ R.store = web.store /\ R.saved = web.saved
      /\ R.closed = web.closed /\ R.cancelled = web.cancelled /\ R.refused = web.refused
      /\ R.done = web.done /\ R.failed = web.failed
  BY InvParts, RemoveJobShape
<1>2. U = PushJobError(R, {j}) /\ {j} \in SUBSET Id
  OBVIOUS
<1> HIDE DEF R
<1>3. /\ U \in WebState /\ U.failed = R.failed \cup {j} /\ U.writeJobs = R.writeJobs
      /\ U.queue = R.queue /\ U.dialogs = R.dialogs
      /\ U.asked = R.asked /\ U.target = R.target /\ U.listed = R.listed
      /\ U.store = R.store /\ U.saved = R.saved
      /\ U.closed = R.closed /\ U.cancelled = R.cancelled /\ U.refused = R.refused
      /\ U.done = R.done
  <2> DEFINE P == PushJobError(R, {j})
  <2>1. /\ P \in WebState /\ P.failed = R.failed \cup {j} /\ P.writeJobs = R.writeJobs
        /\ P.queue = R.queue /\ P.dialogs = R.dialogs
        /\ P.asked = R.asked /\ P.target = R.target /\ P.listed = R.listed
        /\ P.store = R.store /\ P.saved = R.saved
        /\ P.closed = R.closed /\ P.cancelled = R.cancelled /\ P.refused = R.refused
        /\ P.done = R.done
    BY <1>1, <1>2, PushJobErrorShape
  <2>2. U = P
    BY <1>2
  <2> HIDE DEF P
  <2> QED
    BY <2>1, <2>2
<1>4. Whole(U)
  <2>1. U.closed = web.closed /\ U.saved = web.saved /\ web.failed \subseteq U.failed
    BY <1>1, <1>3
  <2>2. Whole(web)
    BY InvParts DEF Good
  <2> QED
    BY <2>1, <2>2 DEF Whole
<1> QED
  BY <1>1, <1>3, <1>4

(* handleError. *)
LEMMA LoopErrorStep ==
  ASSUME DownloadInv, LoopError
  PROVE DownloadInv'
<1> DEFINE h == Head(toWeb)
           j == h.job
           M == Elems(toWeb')
           U == PushJobError(RemoveJob(web, j), {j})
           A == U.refused \cup {j}
<1>1. Dequeue("error") /\ web' = [U EXCEPT !.refused = A] /\ loop' = loop
  BY DEF LoopError
<1>2. /\ loop = NextMsg /\ h \in Message /\ h.kind = "error" /\ j \in Id
      /\ toWeb' \in Seq(Message) /\ Sorted(toWeb') /\ M \in SUBSET Message
      /\ Elems(toWeb) = {h} \cup M
      /\ UNCHANGED <<toHost, host, link>>
  BY <1>1, DequeueShape
<1> HIDE DEF h
<1>3. /\ U \in WebState /\ U.writeJobs = web.writeJobs \ {j}
      /\ U.failed = web.failed \cup {j} /\ U.done = web.done
      /\ U.queue = web.queue /\ U.dialogs = web.dialogs /\ U.asked = web.asked
      /\ U.target = web.target /\ U.listed = web.listed /\ U.store = web.store
      /\ U.saved = web.saved /\ U.closed = web.closed
      /\ U.cancelled = web.cancelled /\ U.refused = web.refused
      /\ Whole(U)
  BY <1>2, Errored
<1>4. A \in SUBSET Id /\ A = web.refused \cup {j}
  BY <1>2, <1>3 DEF WebState
<1> HIDE DEF U, A
<1>5. /\ web' \in WebState /\ web'.writeJobs = U.writeJobs
      /\ web'.failed = U.failed /\ web'.done = U.done
      /\ web'.queue = U.queue /\ web'.dialogs = U.dialogs /\ web'.asked = U.asked
      /\ web'.target = U.target /\ web'.listed = U.listed /\ web'.store = U.store
      /\ web'.saved = U.saved /\ web'.closed = U.closed
      /\ web'.cancelled = U.cancelled /\ web'.refused = A
  BY <1>1, <1>3, <1>4 DEF WebState
<1>6. /\ web'.writeJobs = web.writeJobs \ {j} /\ web.failed \subseteq web'.failed
      /\ web'.done = web.done /\ web'.closed = web.closed
      /\ web'.queue = web.queue /\ web'.dialogs = web.dialogs /\ web'.asked = web.asked
      /\ web'.target = web.target /\ web'.listed = web.listed /\ web'.store = web.store
      /\ web'.cancelled = web.cancelled /\ web'.refused = web.refused \cup {j}
  BY <1>3, <1>4, <1>5
<1>7. Whole(web')
  BY <1>3, <1>5 DEF Whole
<1>8. Good(web', NextMsg, Elems(toHost), M, host, link)
  <2>1. Good(web, NextMsg, Elems(toHost), Elems(toWeb), host, link)
    BY <1>2, InvParts
  <2>2. /\ web \in WebState /\ Elems(toWeb) \in SUBSET Message /\ host \in [Job -> Nat]
    BY InvParts
  <2> HIDE DEF j
  <2> QED
    BY <1>2, <1>5, <1>6, <1>7, <2>1, <2>2, GoodRefused DEF j
<1>9. DoneMeansSaved'
  BY <1>2, <1>6, InvParts DEF DoneMeansSaved
<1> QED
  BY <1>1, <1>2, <1>5, <1>6, <1>8, <1>9, InvParts, InvMade

(* appendBlock is over. *)
LEMMA AppendDoneStep ==
  ASSUME DownloadInv, AppendDone
  PROVE DownloadInv'
<1> DEFINE j == loop.job
           e == [blk |-> loop.blk, place |-> Place(web, j)]
           A == [web.store EXCEPT ![j] = Append(web.store[j], e)]
           B == web.broken \cup {j}
           W == [web EXCEPT !.store = A]
<1>1. /\ loop.stage = "append" /\ loop' = NextMsg /\ UNCHANGED <<toHost, toWeb, host, link>>
      /\ web' = W \/ web' = [W EXCEPT !.broken = @ \cup {j}]
  BY DEF AppendDone
<1>2. j \in Job /\ loop.blk \in Nat
  BY <1>1, InvParts, LoopShape
<1>3. web.store \in [Job -> Seq(Stored)]
  BY InvParts DEF WebState
<1>4. e \in Stored
  BY <1>2 DEF Stored, Place
<1>5. A[j] = Append(web.store[j], e) /\ \A i \in Job \ {j} : A[i] = web.store[i]
  BY <1>2, <1>3
<1>6. A \in [Job -> Seq(Stored)]
  BY <1>2, <1>3, <1>4
<1> HIDE DEF A
<1>7. /\ W \in WebState /\ W.store = A /\ W.broken = web.broken
      /\ W.queue = web.queue /\ W.dialogs = web.dialogs /\ W.asked = web.asked
      /\ W.target = web.target /\ W.listed = web.listed /\ W.writeJobs = web.writeJobs
      /\ W.saved = web.saved /\ W.closed = web.closed /\ W.cancelled = web.cancelled
      /\ W.refused = web.refused
      /\ W.done = web.done /\ W.failed = web.failed
  BY <1>6, InvParts DEF WebState
<1> HIDE DEF W
<1>8. /\ web' \in WebState /\ web'.store = W.store
      /\ web'.queue = W.queue /\ web'.dialogs = W.dialogs /\ web'.asked = W.asked
      /\ web'.target = W.target /\ web'.listed = W.listed /\ web'.writeJobs = W.writeJobs
      /\ web'.saved = W.saved /\ web'.closed = W.closed /\ web'.cancelled = W.cancelled
      /\ web'.refused = W.refused
      /\ web'.done = W.done /\ web'.failed = W.failed
  <2>1. CASE web' = W
    BY <1>7, <2>1
  <2>2. CASE web' = [W EXCEPT !.broken = @ \cup {j}]
    <3>1. web' = [W EXCEPT !.broken = B] /\ B \in SUBSET Job
      BY <1>2, <1>7, <2>2, InvParts DEF WebState
    <3> HIDE DEF B
    <3> QED
      BY <1>7, <3>1 DEF WebState
  <2> QED
    BY <1>1, <2>1, <2>2
<1>9. /\ web'.store[loop.job] = Append(web.store[loop.job],
                                       [blk |-> loop.blk, place |-> Place(web, loop.job)])
      /\ \A i \in Job \ {loop.job} : web'.store[i] = web.store[i]
  BY <1>5, <1>7, <1>8
<1>10. /\ web'.queue = web.queue /\ web'.dialogs = web.dialogs /\ web'.asked = web.asked
       /\ web'.target = web.target /\ web'.listed = web.listed /\ web'.writeJobs = web.writeJobs
       /\ web'.saved = web.saved /\ web'.closed = web.closed /\ web'.cancelled = web.cancelled
       /\ web'.refused = web.refused
       /\ web'.done = web.done /\ web'.failed = web.failed
  BY <1>7, <1>8
<1> HIDE DEF e
<1>11. Good(web', NextMsg, Elems(toHost), Elems(toWeb), host, link)
  BY <1>1, <1>8, <1>9, <1>10, GoodNow, GoodAppended
<1>12. DoneMeansSaved'
  BY <1>1, <1>10, InvParts DEF DoneMeansSaved
<1> QED
  BY <1>1, <1>8, <1>10, <1>11, <1>12, InvParts, LoopShape, InvMade

(* appendBlock fails. *)
LEMMA AppendFailsStep ==
  ASSUME DownloadInv, AppendFails
  PROVE DownloadInv'
<1>1. /\ loop.stage = "append" /\ loop' = NextMsg /\ UNCHANGED <<toHost, toWeb, host, link>>
      /\ web' = PushJobError(web, {loop.job})
  BY DEF AppendFails
<1>2. {loop.job} \in SUBSET Id
  BY <1>1, InvParts, LoopShape, Ids
<1>3. /\ web' \in WebState /\ web'.failed = web.failed \cup {loop.job}
      /\ web'.queue = web.queue /\ web'.dialogs = web.dialogs /\ web'.asked = web.asked
      /\ web'.target = web.target /\ web'.listed = web.listed /\ web'.store = web.store
      /\ web'.writeJobs = web.writeJobs /\ web'.cancelled = web.cancelled
      /\ web'.refused = web.refused
      /\ web'.saved = web.saved /\ web'.closed = web.closed /\ web'.done = web.done
  BY <1>1, <1>2, InvParts, PushJobErrorShape
<1>4. Good(web', NextMsg, Elems(toHost), Elems(toWeb), host, link)
  BY <1>1, <1>3, GoodNow, GoodAppendFails
<1>5. DoneMeansSaved'
  BY <1>1, <1>3, InvParts DEF DoneMeansSaved
<1> QED
  BY <1>1, <1>3, <1>4, <1>5, InvParts, LoopShape, InvMade

(* The host has nothing more to say of a download that is finalized. *)
LEMMA Finalizing ==
  ASSUME DownloadInv, loop.stage = "finalize"
  PROVE /\ loop.job \in Job /\ loop.job \in Id
        /\ loop.job \notin web.dialogs /\ ~Asks(Elems(toHost), loop.job) /\ host[loop.job] = 0
        /\ \A m \in Elems(toWeb) : m.kind = "done" => m.job # loop.job
<1>1. loop.job \in Job /\ Count(loop.job) \in Nat
  BY InvParts, LoopShape, Ids
<1>2. ~Waiting(web, Elems(toHost), loop.job)
  BY <1>1, InvParts DEF Good, Waits, Untouched
<1>3. /\ host[loop.job] = 0
      /\ \A m \in Elems(toWeb) : m.job = loop.job => Rank(m) > Count(loop.job) + 1
  BY InvParts DEF Good, Handles
<1>4. ASSUME NEW m \in Elems(toWeb), m.kind = "done", m.job = loop.job PROVE FALSE
  <2>1. Rank(m) = Count(loop.job) + 1
    BY <1>4 DEF Rank
  <2> QED
    BY <1>1, <1>3, <1>4, <2>1
<1> QED
  BY <1>1, <1>2, <1>3, <1>4, Ids DEF Waiting

(* finalizeDownload fails. *)
LEMMA FinalizeFailsStep ==
  ASSUME DownloadInv, FinalizeFails
  PROVE DownloadInv'
<1> DEFINE j == loop.job
<1>1. /\ loop.stage = "finalize" /\ loop' = NextMsg /\ UNCHANGED <<toHost, toWeb, host, link>>
      /\ web' = PushJobError(RemoveJob(web, j), {j})
  BY DEF FinalizeFails
<1>2. /\ j \in Job /\ j \in Id
      /\ j \notin web.dialogs /\ ~Asks(Elems(toHost), j) /\ host[j] = 0
      /\ \A m \in Elems(toWeb) : m.kind = "done" => m.job # j
  BY <1>1, Finalizing
<1>3. /\ web' \in WebState /\ web'.writeJobs = web.writeJobs \ {j}
      /\ web.failed \subseteq web'.failed
      /\ web'.queue = web.queue /\ web'.dialogs = web.dialogs /\ web'.asked = web.asked
      /\ web'.target = web.target /\ web'.listed = web.listed /\ web'.store = web.store
      /\ web'.cancelled = web.cancelled /\ web'.refused = web.refused
      /\ web'.done = web.done /\ web'.closed = web.closed /\ Whole(web')
  BY <1>1, <1>2, Errored
<1>4. Good(web', NextMsg, Elems(toHost), Elems(toWeb), host, link)
  <2>1. loop.stage # "append"
    BY <1>1
  <2> HIDE DEF j
  <2> QED
    BY <1>2, <1>3, <2>1, GoodNow, GoodOver
<1>5. DoneMeansSaved'
  BY <1>1, <1>3, InvParts DEF DoneMeansSaved
<1> QED
  BY <1>1, <1>3, <1>4, <1>5, InvParts, LoopShape, InvMade

(* What is written is a sequence of blocks. *)
LEMMA FinalType ==
  ASSUME NEW W \in WebState, NEW j \in Job
  PROVE FinalBlocks(W, j) \in Seq(Nat)
<1> DEFINE s == W.store[j]
           At(p) == {i \in DOMAIN s : s[i].place = p}
           last == FileOf(j, s[Len(s)].blk)
           I == IF (j \in Folder /\ j \in W.listed) \/ At("disk") # {} THEN DOMAIN s
                ELSE IF At("fileChunks") # {}
                     THEN {i \in At("fileChunks") : FileOf(j, s[i].blk) = last}
                     ELSE At("chunks")
<1>1. s \in Seq(Stored) /\ DOMAIN s = 1..Len(s) /\ Len(s) \in Nat
  BY DEF WebState
<1>2. I \in SUBSET (1..Len(s))
  BY <1>1
<1>3. FinalBlocks(W, j) = BlksAt(s, I)
  BY DEF FinalBlocks
<1> HIDE DEF I
<1> QED
  BY <1>1, <1>2, <1>3, BlksType

(* finalizeDownload is over. *)
LEMMA FinalizeDoneStep ==
  ASSUME DownloadInv, FinalizeDone
  PROVE DownloadInv'
<1> DEFINE j == loop.job
           R == RemoveJob(web, j)
           F == FinalBlocks(web, j)
           A == [web.saved EXCEPT ![j] = F]
           C == web.closed \cup {j}
           W == [R EXCEPT !.saved = A, !.closed = C]
<1>1. /\ loop.stage = "finalize" /\ loop' = NextMsg /\ UNCHANGED <<toHost, toWeb, host, link>>
  BY DEF FinalizeDone
<1>2. /\ j \in Job /\ j \in Id
      /\ j \notin web.dialogs /\ ~Asks(Elems(toHost), j) /\ host[j] = 0
      /\ \A m \in Elems(toWeb) : m.kind = "done" => m.job # j
  BY <1>1, Finalizing
<1>3. /\ R \in WebState /\ R.writeJobs = web.writeJobs \ {j}
      /\ R.queue = web.queue /\ R.dialogs = web.dialogs
      /\ R.asked = web.asked /\ R.target = web.target /\ R.listed = web.listed
      /\ R.store = web.store /\ R.saved = web.saved
      /\ R.closed = web.closed /\ R.cancelled = web.cancelled /\ R.refused = web.refused
      /\ R.done = web.done /\ R.failed = web.failed
  BY InvParts, RemoveJobShape
<1>4. web' = JobDone(W, j)
  BY <1>3 DEF FinalizeDone
<1> HIDE DEF R
<1>5. F \in Seq(Nat)
  BY InvParts, <1>2, FinalType
<1>6. j \notin web.failed => F = [b \in 1..Count(j) |-> b]
  <2>1. j \notin web.failed => Len(web.store[j]) = Count(j)
    BY <1>1, InvParts DEF Good, Handles
  <2>2. Stores(web)
    BY InvParts DEF Good
  <2> QED
    BY <1>2, <2>1, <2>2, InvParts, WrittenWhole
<1> HIDE DEF F
<1>7. A \in [Job -> Seq(Nat)] /\ A[j] = F /\ \A i \in Job \ {j} : A[i] = web.saved[i]
  BY <1>2, <1>5, InvParts DEF WebState
<1>8. C \in SUBSET Job
  BY <1>2, InvParts DEF WebState
<1> HIDE DEF A, C
<1>9. /\ W \in WebState /\ W.writeJobs = R.writeJobs
      /\ W.queue = R.queue /\ W.dialogs = R.dialogs
      /\ W.asked = R.asked /\ W.target = R.target /\ W.listed = R.listed
      /\ W.store = R.store /\ W.saved = A
      /\ W.closed = C /\ W.cancelled = R.cancelled /\ W.refused = R.refused
      /\ W.done = R.done /\ W.failed = R.failed
  BY <1>3, <1>7, <1>8 DEF WebState
<1> HIDE DEF W
<1>10. /\ web' \in WebState /\ web'.writeJobs = web.writeJobs \ {j}
       /\ web'.queue = web.queue /\ web'.dialogs = web.dialogs
       /\ web'.asked = web.asked /\ web'.target = web.target /\ web'.listed = web.listed
       /\ web'.store = web.store /\ web'.saved = A
       /\ web'.closed = C /\ web'.cancelled = web.cancelled /\ web'.refused = web.refused
       /\ web'.done = web.done \cup {j} /\ web'.failed = web.failed
  <2> DEFINE V == JobDone(W, j)
  <2>1. /\ V \in WebState /\ V.writeJobs = W.writeJobs
        /\ V.queue = W.queue /\ V.dialogs = W.dialogs
        /\ V.asked = W.asked /\ V.target = W.target /\ V.listed = W.listed
        /\ V.store = W.store /\ V.saved = W.saved
        /\ V.closed = W.closed /\ V.cancelled = W.cancelled /\ V.refused = W.refused
        /\ V.done = W.done \cup {j} /\ V.failed = W.failed
    BY <1>2, <1>9, JobDoneShape
  <2> HIDE DEF V
  <2>2. web' = V
    BY <1>4 DEF V
  <2> QED
    BY <1>3, <1>9, <2>1, <2>2
<1>11. Whole(web')
  <2>1. ASSUME NEW i \in web'.closed \ web'.failed
        PROVE web'.saved[i] = [b \in 1..Count(i) |-> b]
    <3>1. CASE i = j
      BY <1>6, <1>7, <1>10, <2>1, <3>1
    <3>2. CASE i # j
      <4>1. i \in web.closed \ web.failed /\ i \in Job
        BY <1>8, <1>10, <2>1, <3>2 DEF C
      <4>2. web.saved[i] = [b \in 1..Count(i) |-> b]
        BY <4>1, InvParts DEF Good, Whole
      <4> QED
        BY <1>7, <1>10, <3>2, <4>1, <4>2
    <3> QED
      BY <3>1, <3>2
  <2> QED
    BY <2>1 DEF Whole
<1>12. Good(web', NextMsg, Elems(toHost), Elems(toWeb), host, link)
  BY <1>1, <1>2, <1>10, <1>11, GoodNow, GoodOver
<1>13. DoneMeansSaved'
  <2>1. web.closed \subseteq C /\ j \in C
    BY DEF C
  <2> QED
    BY <1>1, <1>10, <2>1, InvParts DEF DoneMeansSaved
<1> QED
  BY <1>1, <1>10, <1>12, <1>13, InvParts, LoopShape, InvMade

(* The host takes the first message sent to it. *)
LEMMA HostTakesShape ==
  ASSUME DownloadInv, NEW kind, NEW j, HostTakes(kind, j)
  PROVE /\ link = "open" /\ Msg(kind, j, 0) \in Elems(toHost)
        /\ toHost' \in Seq(Message) /\ Sole(toHost') /\ Elems(toHost') \subseteq Elems(toHost)
        /\ \A n \in Elems(toHost') : kind = "send" /\ n.kind = "send" => n.job # j
        /\ UNCHANGED <<web, loop, link>>
<1>1. /\ link = "open" /\ toHost # << >> /\ Head(toHost) = Msg(kind, j, 0)
      /\ toHost' = Tail(toHost) /\ UNCHANGED <<web, loop, link>>
  BY DEF HostTakes
<1>2. /\ Head(toHost) \in Elems(toHost) /\ Tail(toHost) \in Seq(Message)
      /\ Elems(toHost) = {Head(toHost)} \cup Elems(Tail(toHost))
  BY <1>1, InvParts, ElemsTail
<1>3. /\ Sole(Tail(toHost))
      /\ \A n \in Elems(Tail(toHost)) :
           Head(toHost).kind = "send" /\ n.kind = "send" => Head(toHost).job # n.job
  BY <1>1, InvParts, OrderTail
<1>4. Head(toHost).kind = kind /\ Head(toHost).job = j
  BY <1>1 DEF Msg
<1> QED
  BY <1>1, <1>2, <1>3, <1>4

(* One more message is on its way to the web side. *)
LEMMA Told ==
  ASSUME DownloadInv, NEW m \in Message, toWeb' = Append(toWeb, m),
         \A n \in Elems(toWeb) : InLine(n, m)
  PROVE /\ toWeb' \in Seq(Message) /\ Sorted(toWeb')
        /\ Elems(toWeb') = Elems(toWeb) \cup {m}
BY InvParts, ElemsMore, OrderMore

(* The host starts a read job, or refuses. *)
LEMMA HostSendStep ==
  ASSUME DownloadInv, NEW j \in Job, HostSend(j)
  PROVE DownloadInv'
<1>1. HostTakes("send", j)
  BY DEF HostSend
<1>2. /\ link = "open" /\ Msg("send", j, 0) \in Elems(toHost)
      /\ toHost' \in Seq(Message) /\ Sole(toHost') /\ Elems(toHost') \subseteq Elems(toHost)
      /\ \A n \in Elems(toHost') : n.kind = "send" => n.job # j
      /\ UNCHANGED <<web, loop, link>>
  BY <1>1, HostTakesShape
<1>3. Asks(Elems(toHost), j) /\ ~Asks(Elems(toHost'), j)
  BY <1>2, Ids, MessageMade DEF Asks
<1>4. \A n \in Elems(toWeb) : n.job # j
  BY <1>3, InvParts DEF Good, Waits, Waiting, Untouched
<1>5. \E m \in Message :
        /\ m.job = j /\ toWeb' = Append(toWeb, m)
        /\ \/ m = Msg("dir", j, 0) /\ host' = [host EXCEPT ![j] = 1]
           \/ m = Msg("error", j, 0) /\ host' = host
  <2>1. \/ toWeb' = Append(toWeb, Msg("dir", j, 0)) /\ host' = [host EXCEPT ![j] = 1]
        \/ toWeb' = Append(toWeb, Msg("error", j, 0)) /\ host' = host
    BY DEF HostSend
  <2>2. /\ Msg("dir", j, 0) \in Message /\ Msg("dir", j, 0).job = j
        /\ Msg("error", j, 0) \in Message /\ Msg("error", j, 0).job = j
        /\ Msg("error", j, 0).kind = "error"
    BY Ids, MessageMade
  <2> QED
    BY <2>1, <2>2
<1>6. PICK m \in Message :
        /\ m.job = j /\ toWeb' = Append(toWeb, m)
        /\ \/ m = Msg("dir", j, 0) /\ host' = [host EXCEPT ![j] = 1]
           \/ m = Msg("error", j, 0) /\ host' = host
  BY <1>5
<1>7. /\ toWeb' \in Seq(Message) /\ Sorted(toWeb') /\ Elems(toWeb') = Elems(toWeb) \cup {m}
  <2>1. \A n \in Elems(toWeb) : InLine(n, m)
    BY <1>4, <1>6 DEF InLine
  <2> QED
    BY <1>6, <2>1, Told
<1>8. /\ host' \in [Job -> Nat] /\ \A i \in Job \ {j} : host'[i] = host[i]
      /\ \/ m = Msg("dir", j, 0) /\ host'[j] = 1
         \/ m = Msg("error", j, 0) /\ host'[j] = host[j]
  <2>1. CASE m = Msg("dir", j, 0) /\ host' = [host EXCEPT ![j] = 1]
    BY <2>1, InvParts
  <2>2. CASE m = Msg("error", j, 0) /\ host' = host
    BY <2>2, InvParts
  <2> QED
    BY <1>6, <2>1, <2>2
<1>9. Good(web, loop, Elems(toHost'), Elems(toWeb) \cup {m}, host', link)
  <2>1. /\ web \in WebState /\ Elems(toWeb) \in SUBSET Message /\ host \in [Job -> Nat]
        /\ Elems(toHost) \in SUBSET Message /\ loop \in Loop
        /\ Good(web, loop, Elems(toHost), Elems(toWeb), host, link)
    BY InvParts
  <2> QED
    BY <1>2, <1>3, <1>6, <1>8, <2>1, GoodStarted
<1>10. DoneMeansSaved'
  BY <1>2, InvParts DEF DoneMeansSaved
<1> QED
  BY <1>2, <1>7, <1>8, <1>9, <1>10, InvParts, InvMade

(* The host sends a block or Done. *)
LEMMA HostReadsStep ==
  ASSUME DownloadInv, NEW j \in Job, HostReads(j)
  PROVE DownloadInv'
<1>1. link = "open" /\ host[j] > 0 /\ UNCHANGED <<web, loop, toHost, link>>
  BY DEF HostReads
<1>2. host[j] \in Nat /\ Count(j) \in Nat /\ j \in Id
  BY InvParts, Ids
<1>3. \E m \in Message :
        /\ m.job = j /\ Rank(m) >= host[j] /\ toWeb' = Append(toWeb, m)
        /\ \/ m = Msg("block", j, host[j]) /\ host[j] <= Count(j) /\ host' = [host EXCEPT ![j] = @ + 1]
           \/ m.kind = "done" /\ host[j] > Count(j) /\ host' = [host EXCEPT ![j] = 0]
  <2>1. CASE host[j] <= Count(j)
    <3>1. toWeb' = Append(toWeb, Msg("block", j, host[j])) /\ host' = [host EXCEPT ![j] = @ + 1]
      BY <2>1 DEF HostReads, Count
    <3>2. /\ Msg("block", j, host[j]) \in Message /\ Msg("block", j, host[j]).job = j
          /\ Rank(Msg("block", j, host[j])) >= host[j]
      BY <1>2, MessageMade DEF Rank
    <3> QED
      BY <2>1, <3>1, <3>2
  <2>2. CASE host[j] > Count(j)
    <3>1. toWeb' = Append(toWeb, Msg("done", j, 0)) /\ host' = [host EXCEPT ![j] = 0]
      BY <1>2, <2>2 DEF HostReads, Count
    <3>2. /\ Msg("done", j, 0) \in Message /\ Msg("done", j, 0).job = j
          /\ Msg("done", j, 0).kind = "done" /\ Rank(Msg("done", j, 0)) = Count(j) + 1
      BY <1>2, MessageMade DEF Rank
    <3>3. host[j] <= Count(j) + 1
      BY <1>1, InvParts DEF Good, Reads
    <3> QED
      BY <1>2, <2>2, <3>1, <3>2, <3>3
  <2> QED
    BY <1>2, <2>1, <2>2
<1>4. PICK m \in Message :
        /\ m.job = j /\ Rank(m) >= host[j] /\ toWeb' = Append(toWeb, m)
        /\ \/ m = Msg("block", j, host[j]) /\ host[j] <= Count(j) /\ host' = [host EXCEPT ![j] = @ + 1]
           \/ m.kind = "done" /\ host[j] > Count(j) /\ host' = [host EXCEPT ![j] = 0]
  BY <1>3
<1>5. toWeb' \in Seq(Message) /\ Sorted(toWeb') /\ Elems(toWeb') = Elems(toWeb) \cup {m}
  <2>1. ASSUME NEW n \in Elems(toWeb), n.job = j PROVE Rank(n) < Rank(m)
    <3>1. Rank(n) < host[j]
      BY <1>1, <2>1, InvParts DEF Good, Reads
    <3>2. Rank(n) \in Nat /\ Rank(m) \in Nat
      BY <1>4, <2>1, InvParts, MessageShape
    <3> QED
      BY <1>2, <1>4, <3>1, <3>2
  <2>2. \A n \in Elems(toWeb) : InLine(n, m)
    BY <1>4, <2>1 DEF InLine
  <2> QED
    BY <1>4, <2>2, Told
<1>6. /\ host' \in [Job -> Nat] /\ \A i \in Job \ {j} : host'[i] = host[i]
      /\ \/ m = Msg("block", j, host[j]) /\ host[j] <= Count(j) /\ host'[j] = host[j] + 1
         \/ m.kind = "done" /\ host[j] > Count(j) /\ host'[j] = 0
  <2>1. CASE m = Msg("block", j, host[j]) /\ host[j] <= Count(j) /\ host' = [host EXCEPT ![j] = @ + 1]
    BY <1>2, <2>1, InvParts
  <2>2. CASE m.kind = "done" /\ host[j] > Count(j) /\ host' = [host EXCEPT ![j] = 0]
    BY <2>2, InvParts
  <2> QED
    BY <1>4, <2>1, <2>2
<1>7. Good(web, loop, Elems(toHost), Elems(toWeb) \cup {m}, host', "open")
  <2>1. /\ web \in WebState /\ loop \in Loop /\ Elems(toWeb) \in SUBSET Message
        /\ host \in [Job -> Nat] /\ Good(web, loop, Elems(toHost), Elems(toWeb), host, "open")
    BY <1>1, InvParts
  <2> QED
    BY <1>1, <1>4, <1>6, <2>1, GoodRead
<1>8. DoneMeansSaved'
  BY <1>1, InvParts DEF DoneMeansSaved
<1> QED
  BY <1>1, <1>5, <1>6, <1>7, <1>8, InvParts, InvMade

(* The host cannot read a file. *)
LEMMA HostReadFailsStep ==
  ASSUME DownloadInv, NEW j \in Job, HostReadFails(j)
  PROVE DownloadInv'
<1> DEFINE m == Msg("error", j, host[j])
<1>1. /\ link = "open" /\ host[j] \in 1..Count(j) /\ toWeb' = Append(toWeb, m)
      /\ UNCHANGED <<web, loop, toHost, link>>
  BY DEF HostReadFails, Count
<1>2. PICK c \in (host[j] + 1)..(Count(j) + 1) : host' = [host EXCEPT ![j] = c]
  BY DEF HostReadFails, Count
<1>3. host[j] \in Nat /\ Count(j) \in Nat /\ j \in Id /\ c \in Nat
  BY <1>2, InvParts, Ids
<1>4. m \in Message /\ m.job = j /\ m.kind = "error" /\ Rank(m) = host[j]
  BY <1>3, MessageMade DEF Rank
<1> HIDE DEF m
<1>5. toWeb' \in Seq(Message) /\ Sorted(toWeb') /\ Elems(toWeb') = Elems(toWeb) \cup {m}
  <2>1. ASSUME NEW n \in Elems(toWeb), n.job = j PROVE Rank(n) < Rank(m)
    BY <1>1, <1>3, <1>4, <2>1, InvParts DEF Good, Reads
  <2>2. \A n \in Elems(toWeb) : InLine(n, m)
    BY <1>4, <2>1 DEF InLine
  <2> QED
    BY <1>1, <1>4, <2>2, Told
<1>6. /\ host' \in [Job -> Nat] /\ \A i \in Job \ {j} : host'[i] = host[i]
      /\ host'[j] > host[j] /\ host'[j] <= Count(j) + 1
  BY <1>2, <1>3, InvParts
<1>7. Good(web, loop, Elems(toHost), Elems(toWeb) \cup {m}, host', "open")
  <2>1. /\ web \in WebState /\ loop \in Loop /\ Elems(toWeb) \in SUBSET Message
        /\ host \in [Job -> Nat] /\ Good(web, loop, Elems(toHost), Elems(toWeb), host, "open")
    BY <1>1, InvParts
  <2>2. m = Msg("error", j, host[j])
    BY DEF m
  <2> QED
    BY <1>1, <1>4, <1>6, <2>1, <2>2, GoodReadFails
<1>8. DoneMeansSaved'
  BY <1>1, InvParts DEF DoneMeansSaved
<1> QED
  BY <1>1, <1>5, <1>6, <1>7, <1>8, InvParts, InvMade

(* The host drops a read job. *)
LEMMA HostCancelStep ==
  ASSUME DownloadInv, NEW j \in Job, HostCancel(j)
  PROVE DownloadInv'
<1>1. HostTakes("cancel", j) /\ host' = [host EXCEPT ![j] = 0] /\ toWeb' = toWeb
  BY DEF HostCancel
<1>2. /\ toHost' \in Seq(Message) /\ Sole(toHost') /\ Elems(toHost') \subseteq Elems(toHost)
      /\ UNCHANGED <<web, loop, link>>
  BY <1>1, HostTakesShape
<1>3. host' \in [Job -> Nat] /\ host'[j] = 0 /\ \A i \in Job \ {j} : host'[i] = host[i]
  BY <1>1, InvParts
<1>4. Good(web, loop, Elems(toHost'), Elems(toWeb), host, link)
  BY <1>2, GoodNow, GoodHeard
<1>5. Good(web, loop, Elems(toHost'), Elems(toWeb), host', link)
  BY <1>3, <1>4, GoodNow, GoodDropped
<1>6. DoneMeansSaved'
  BY <1>2, InvParts DEF DoneMeansSaved
<1> QED
  BY <1>1, <1>2, <1>3, <1>5, <1>6, InvParts, InvMade

(* The host answers a request. *)
LEMMA HostAnswersStep ==
  ASSUME DownloadInv, NEW r \in Request, HostAnswers(r)
  PROVE DownloadInv'
<1>1. HostTakes("request", r) /\ host' = host
  BY DEF HostAnswers
<1>2. /\ toHost' \in Seq(Message) /\ Sole(toHost') /\ Elems(toHost') \subseteq Elems(toHost)
      /\ UNCHANGED <<web, loop, link>>
  BY <1>1, HostTakesShape
<1>3. \E m \in Message : m.job = r /\ toWeb' = Append(toWeb, m)
  <2>1. /\ Msg("done", r, 0) \in Message /\ Msg("done", r, 0).job = r
        /\ Msg("error", r, 0) \in Message /\ Msg("error", r, 0).job = r
    BY Ids, MessageMade
  <2> QED
    BY <2>1 DEF HostAnswers
<1>4. PICK m \in Message : m.job = r /\ toWeb' = Append(toWeb, m)
  BY <1>3
<1>5. m.job \notin Job
  BY <1>4, Ids
<1>6. toWeb' \in Seq(Message) /\ Sorted(toWeb') /\ Elems(toWeb') = Elems(toWeb) \cup {m}
  <2>1. \A n \in Elems(toWeb) : InLine(n, m)
    BY <1>5 DEF InLine
  <2> QED
    BY <1>4, <2>1, Told
<1>7. Good(web, loop, Elems(toHost'), Elems(toWeb), host, link)
  BY <1>2, GoodNow, GoodHeard
<1>8. Good(web, loop, Elems(toHost'), Elems(toWeb'), host, link)
  BY <1>5, <1>6, <1>7, GoodNow, GoodAnswered
<1>9. DoneMeansSaved'
  BY <1>2, InvParts DEF DoneMeansSaved
<1> QED
  BY <1>1, <1>2, <1>6, <1>8, <1>9, InvParts, InvMade

-----------------------------------------------------------------------------
(* Nothing is under way at first. *)
LEMMA DownloadInit ==
  ASSUME Init
  PROVE DownloadInv
<1>1. /\ web = [queue |-> << >>, running |-> FALSE, dialogs |-> {}, asked |-> {},
                writeJobs |-> {}, target |-> {}, listed |-> {},
                store |-> [j \in Job |-> << >>], broken |-> {},
                saved |-> [j \in Job |-> << >>], closed |-> {},
                cancelled |-> {}, refused |-> {}, done |-> {}, failed |-> {}]
      /\ loop = NextMsg /\ toHost = << >> /\ toWeb = << >>
      /\ host = [j \in Job |-> 0] /\ link = "open"
  BY DEF Init
<1>2. /\ << >> \in Seq(Message) /\ << >> \in Seq(Job) /\ << >> \in Seq(Stored) /\ << >> \in Seq(Nat)
      /\ Len(<< >>) = 0
  OBVIOUS
<1>3. Elems(<< >>) = {}
  BY <1>2, ElemsOf
<1>4. /\ web \in WebState /\ web.queue = << >> /\ web.dialogs = {} /\ web.writeJobs = {}
      /\ web.closed = {} /\ web.done = {} /\ \A j \in Job : web.store[j] = << >>
  BY <1>1, <1>2 DEF WebState
<1>5. loop.stage = "next" /\ loop.job \notin Job /\ loop \in Loop
  BY <1>1, Ids DEF NextMsg, Loop
<1>6. TypeOK
  BY <1>1, <1>2, <1>4, <1>5 DEF TypeOK, Loop
<1>7. Sorted(toWeb) /\ Sole(toHost) /\ Distinct(web.queue)
  BY <1>1, <1>2, <1>4 DEF Sorted, Sole, Distinct
<1>8. Good(web, loop, {}, {}, host, link)
  <2>1. Reads({}, host)
    BY <1>1 DEF Reads
  <2>2. Turns(web, {})
    BY <1>3, <1>4 DEF Turns
  <2>3. Waits(web, loop, {}, {}, host)
    BY <1>1, <1>4, <1>5 DEF Waits, Untouched
  <2>4. Stores(web)
    BY <1>2, <1>4 DEF Stores
  <2>5. Handles(web, loop, {}, host)
    BY <1>5 DEF Handles
  <2>6. Flows(web, loop, {}, host, link) /\ Whole(web)
    BY <1>4 DEF Flows, Whole
  <2>7. Lives(web, {}, {}, host, link)
    BY <1>1, <1>4 DEF Lives, Asks
  <2> QED
    BY <2>1, <2>2, <2>3, <2>4, <2>5, <2>6, <2>7 DEF Good
<1>9. DoneMeansSaved
  BY <1>4 DEF DoneMeansSaved
<1> QED
  BY <1>1, <1>3, <1>6, <1>7, <1>8, <1>9 DEF DownloadInv

(* Every step of a user, of a dialog, of the loop, of the link and of the      *)
(* host keeps the invariant.                                                   *)
LEMMA DownloadNext ==
  ASSUME DownloadInv, [Next]_vars
  PROVE DownloadInv'
<1>1. ASSUME NEW j \in Job, SendFiles(j) PROVE DownloadInv'
  BY <1>1, SendFilesStep
<1>2. ASSUME NEW j \in Job, CancelJob(j) PROVE DownloadInv'
  BY <1>2, CancelJobStep
<1>3. ASSUME NEW r \in Request, RemoteRequest(r) PROVE DownloadInv'
  BY <1>3, RemoteRequestStep
<1>4. ASSUME NEW r \in Request, LocalRequest(r) PROVE DownloadInv'
  BY <1>4, LocalRequestStep
<1>5. CASE DialogStep
  BY <1>5, DialogClosedStep DEF DialogStep
<1>6. CASE Close
  BY <1>6, CloseStep
<1>7. CASE LoopStep
  <2>1. CASE LoopDir
    BY <2>1, LoopDirStep
  <2>2. CASE LoopBlock
    BY <2>2, LoopBlockStep
  <2>3. CASE LoopDone
    BY <2>3, LoopDoneStep
  <2>4. CASE LoopError
    BY <2>4, LoopErrorStep
  <2>5. CASE LoopRejected
    BY <2>5, LoopRejectedStep
  <2>6. CASE AppendDone
    BY <2>6, AppendDoneStep
  <2>7. CASE AppendFails
    BY <2>7, AppendFailsStep
  <2>8. CASE FinalizeDone
    BY <2>8, FinalizeDoneStep
  <2>9. CASE FinalizeFails
    BY <2>9, FinalizeFailsStep
  <2> QED
    BY <1>7, <2>1, <2>2, <2>3, <2>4, <2>5, <2>6, <2>7, <2>8, <2>9 DEF LoopStep
<1>8. CASE SocketLost
  BY <1>8, SocketLostStep
<1>9. CASE HostStep
  <2>1. ASSUME NEW j \in Job, HostSend(j) PROVE DownloadInv'
    BY <2>1, HostSendStep
  <2>2. ASSUME NEW j \in Job, HostReads(j) PROVE DownloadInv'
    BY <2>2, HostReadsStep
  <2>3. ASSUME NEW j \in Job, HostCancel(j) PROVE DownloadInv'
    BY <2>3, HostCancelStep
  <2>4. ASSUME NEW j \in Job, HostReadFails(j) PROVE DownloadInv'
    BY <2>4, HostReadFailsStep
  <2>5. ASSUME NEW r \in Request, HostAnswers(r) PROVE DownloadInv'
    BY <2>5, HostAnswersStep
  <2> QED
    BY <1>9, <2>1, <2>2, <2>3, <2>4, <2>5 DEF HostStep
<1>10. CASE UNCHANGED vars
  <2>1. UNCHANGED <<web, loop, toHost, toWeb, host, link>>
    BY <1>10 DEF vars
  <2>2. DoneMeansSaved'
    BY <2>1, InvParts DEF DoneMeansSaved
  <2> QED
    BY <2>1, <2>2, InvParts, InvMade
<1> QED
  BY <1>1, <1>2, <1>3, <1>4, <1>5, <1>6, <1>7, <1>8, <1>9, <1>10 DEF Next

(* The invariant holds throughout: the blocks of a download that are under way *)
(* continue what its job has stored, and nothing has come of one that waits.   *)
THEOREM DownloadsInOrder == Spec => []DownloadInv
<1>1. Init => DownloadInv
  BY DownloadInit
<1>2. DownloadInv /\ [Next]_vars => DownloadInv'
  BY DownloadNext
<1> QED
  BY <1>1, <1>2, PTL DEF Spec

(* A finished download that reported no error is the host's file or folder,    *)
(* every block once and in order, wherever appendBlock collected them.         *)
THEOREM SavedFilesAlwaysWhole == Spec => []SavedFilesWhole
<1>1. DownloadInv => SavedFilesWhole
  <2> SUFFICES ASSUME DownloadInv PROVE SavedFilesWhole
    OBVIOUS
  <2>1. TypeOK /\ Whole(web)
    BY DEF DownloadInv, Good
  <2> QED
    BY <2>1 DEF SavedFilesWhole, Whole, Count
<1> QED
  BY <1>1, DownloadsInOrder, PTL

(* job_done of a download that was not cancelled, did not end with its session *)
(* and got no error of the host comes after its file was closed on disk.       *)
THEOREM DoneAlwaysMeansSaved == Spec => []DoneMeansSaved
<1>1. DownloadInv => DoneMeansSaved
  BY DEF DownloadInv
<1> QED
  BY <1>1, DownloadsInOrder, PTL

=============================================================================
