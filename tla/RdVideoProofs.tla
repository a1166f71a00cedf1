--------------------------- MODULE RdVideoProofs ---------------------------
(***************************************************************************)
(* Proofs about the video of a session: acknowledgements are earned and    *)
(* the picture never goes back, for any number of restarts, messages and   *)
(* packets.                                                                *)
(***************************************************************************)
EXTENDS RdVideo, FiniteSetTheorems, TLAPS

(* The messages whose packets are in a decoder's queue. *)
Ids(q) == {q[i].id : i \in 1..Len(q)}

(* The packets of f are the stretch lo..hi of the queue, and as many as    *)
(* the count c has left to answer.                                         *)
Stretch(q, c, f, lo, hi) ==
  /\ lo <= hi /\ hi - lo + 1 = f.n - c[f.id]
  /\ \A j \in 1..Len(q) : /\ q[j].id = f.id <=> lo <= j /\ j <= hi
                          /\ q[j].id = f.id => q[j] = f

(* A decoder's queue: the packets of each message stay together, in the    *)
(* order of the messages, as many as handleVideoFrame still waits for.     *)
Runs(q, c) ==
  /\ \A i, j \in 1..Len(q) : i < j => q[i].id <= q[j].id
  /\ \A i \in 1..Len(q) : \E lo, hi \in 1..Len(q) : Stretch(q, c, q[i], lo, hi)

(* The number of the last message the viewer took or lost, before the ones *)
(* it may still take.                                                      *)
Low == IF wire = <<>> THEN host.sent ELSE wire[1].id - 1

(* The messages a decoder, and any decoder, still has packets of; and the  *)
(* messages that are over.                                                 *)
Jobs(d) == Ids(decoder[d].jobs)
Pending == UNION {Jobs(d) : d \in Start}
Past == (1..Low) \ Pending

(* The messages on the wire and in the buffer are in the order the host    *)
(* sent them.                                                              *)
Numbered ==
  /\ \A i \in 1..Len(wire) : wire[i].id <= host.sent
  /\ \A i, j \in 1..Len(wire) : i < j => wire[i].id < wire[j].id

(* Nothing was done yet with the messages that are still to come. *)
Fresh ==
  /\ \A id \in Id : id > Low => count[id] = 0 /\ id \notin taken
  /\ \A i \in 1..Len(drawn) : drawn[i] <= Low
  /\ \A x \in Pending : x <= Low

(* Every decoder's queue is in order, and no message is in two of them. *)
Queued ==
  /\ \A d \in Start : Runs(decoder[d].jobs, count)
  /\ \A d, e \in Start : d # e => Jobs(d) \cap Jobs(e) = {}

(* No more acknowledgements than messages that are over. *)
Earned == acks <= acked /\ acked <= Cardinality(Past)

(* Without a restart during a load, only the connection's decoder works,   *)
(* and at most one is being loaded, to replace that one.                   *)
Single ==
  /\ \A d \in Start : Jobs(d) # {} => d = videoDecoder
  /\ \A d \in Start : decoder[d].phase = "loading" => decoder[d].old = videoDecoder
  /\ \A d, e \in Start : decoder[d].phase = "loading" /\ decoder[e].phase = "loading" => d = e

(* Then what it works on was taken since the last start, and each          *)
(* acknowledgement on this socket is for a message it is through with;     *)
SinceStart == Pending \subseteq taken /\ acked <= Cardinality(taken \ Pending)

(* and what is still to be drawn comes after all that was drawn.           *)
Forward ==
  /\ \A i, j \in 1..Len(drawn) : i < j => drawn[i] < drawn[j]
  /\ \A i \in 1..Len(drawn) : \A x \in Pending : drawn[i] < x

VideoInv ==
  /\ TypeOK /\ Numbered /\ Fresh /\ Queued /\ Earned
  /\ ~overlap => Single /\ SinceStart /\ Forward

-----------------------------------------------------------------------------
(* An empty queue, and a queue none of whose messages was counted. *)
LEMMA RunsOther ==
  ASSUME NEW q \in Seq(Frame), NEW c, NEW b, Runs(q, c), \A x \in Ids(q) : b[x] = c[x]
  PROVE  Runs(q, b)
<1>1. \A i \in 1..Len(q) : b[q[i].id] = c[q[i].id]
  BY DEF Ids
<1>2. ASSUME NEW i \in 1..Len(q), NEW lo, NEW hi, Stretch(q, c, q[i], lo, hi)
      PROVE  Stretch(q, b, q[i], lo, hi)
  BY <1>1, <1>2 DEF Stretch
<1> QED
  BY <1>2 DEF Runs

(* An empty queue is in order. *)
LEMMA RunsEmpty == \A c : Runs(<<>>, c) /\ Ids(<<>>) = {}
<1>1. 1..Len(<<>>) = {}
  OBVIOUS
<1> QED
  BY <1>1 DEF Runs, Ids

(* The worker answers for the first packet: the queue stays in order, and  *)
(* the message leaves it with the answer that completes its count.         *)
LEMMA RunsTail ==
  ASSUME NEW q \in Seq(Frame), q # <<>>, NEW c \in [Id -> Nat], Runs(q, c)
  PROVE  LET f == Head(q)
             b == [c EXCEPT ![f.id] = c[f.id] + 1]
         IN  /\ f \in Frame /\ f.id \in Ids(q)
             /\ c[f.id] + 1 <= f.n
             /\ Runs(Tail(q), b)
             /\ Ids(q) = Ids(Tail(q)) \cup {f.id}
             /\ \A x \in Ids(Tail(q)) : f.id <= x
             /\ c[f.id] + 1 = f.n => f.id \notin Ids(Tail(q))
<1> DEFINE f == Head(q)
           b == [c EXCEPT ![f.id] = c[f.id] + 1]
           t == Tail(q)
           n == Len(q)
<1>1. /\ f \in Frame /\ f = q[1] /\ n \in Nat /\ n >= 1 /\ t \in Seq(Frame) /\ Len(t) = n - 1
      /\ \A j \in 1..n - 1 : t[j] = q[j + 1]
      /\ \A j \in 1..n : q[j] \in Frame
  OBVIOUS
<1>2. f.id \in Id /\ f.n \in Nat /\ c[f.id] \in Nat /\ \A j \in 1..n : q[j].id \in Id /\ q[j].n \in Nat
  BY <1>1, RdVideoAssumption DEF Frame, Id
<1>i. \A j \in 1..n : q[j].id \in Nat /\ c[q[j].id] \in Nat
  BY <1>2 DEF Id
<1>b. b[f.id] = c[f.id] + 1 /\ \A x \in Id : x # f.id => b[x] = c[x]
  BY <1>2
<1> HIDE DEF f, b, t, n
<1>r. /\ \A i, j \in 1..n : i < j => q[i].id <= q[j].id
      /\ \A i \in 1..n : \E lo, hi \in 1..n : Stretch(q, c, q[i], lo, hi)
  BY DEF Runs, n
<1>s. \A g, lo, hi : Stretch(q, c, g, lo, hi) <=>
        /\ lo <= hi /\ hi - lo + 1 = g.n - c[g.id]
        /\ \A j \in 1..n : /\ q[j].id = g.id <=> lo <= j /\ j <= hi
                           /\ q[j].id = g.id => q[j] = g
  BY DEF Stretch, n
<1>3. PICK last \in 1..n : Stretch(q, c, f, 1, last)
  <2>1. 1 \in 1..n
    BY <1>1
  <2>2. PICK lo \in 1..n, hi \in 1..n : Stretch(q, c, f, lo, hi)
    BY <1>1, <1>r, <2>1
  <2>3. lo <= 1
    BY <1>1, <1>s, <2>1, <2>2
  <2>4. lo = 1
    BY <1>1, <2>3
  <2> QED
    BY <2>2, <2>4
<1>4. /\ last \in Nat /\ last >= 1 /\ last = f.n - c[f.id]
      /\ \A j \in 1..n : /\ q[j].id = f.id <=> j <= last
                         /\ q[j].id = f.id => q[j] = f
  <2>1. /\ 1 <= last /\ last - 1 + 1 = f.n - c[f.id]
        /\ \A j \in 1..n : /\ q[j].id = f.id <=> 1 <= j /\ j <= last
                           /\ q[j].id = f.id => q[j] = f
    BY <1>3, <1>s
  <2> QED
    BY <1>1, <1>2, <2>1
<1>5. Ids(q) = Ids(t) \cup {f.id}
  <2>1. Ids(q) = {q[i].id : i \in 1..n} /\ Ids(t) = {t[i].id : i \in 1..n - 1}
    BY <1>1 DEF Ids, n
  <2>2. ASSUME NEW i \in 1..n PROVE q[i].id \in Ids(t) \cup {f.id}
    <3>1. CASE i = 1
      BY <1>1, <3>1
    <3>2. CASE i > 1
      <4>1. i - 1 \in 1..n - 1 /\ t[i - 1] = q[i]
        BY <1>1, <3>2
      <4> QED
        BY <2>1, <4>1
    <3> QED
      BY <1>1, <3>1, <3>2
  <2>3. ASSUME NEW i \in 1..n - 1 PROVE t[i].id \in Ids(q)
    <3>1. i + 1 \in 1..n /\ t[i] = q[i + 1]
      BY <1>1
    <3> QED
      BY <2>1, <3>1
  <2>4. f.id \in Ids(q)
    BY <1>1, <2>1
  <2> QED
    BY <2>1, <2>2, <2>3, <2>4
<1>6. \A x \in Ids(t) : f.id <= x
  <2> SUFFICES ASSUME NEW i \in 1..n - 1 PROVE f.id <= t[i].id
    BY <1>1 DEF Ids
  <2>1. i + 1 \in 1..n /\ 1 \in 1..n /\ 1 < i + 1 /\ t[i] = q[i + 1]
    BY <1>1
  <2> QED
    BY <1>1, <1>r, <2>1
<1>7. ASSUME c[f.id] + 1 = f.n PROVE f.id \notin Ids(t)
  <2>1. last = 1
    BY <1>2, <1>4, <1>7
  <2> SUFFICES ASSUME NEW i \in 1..n - 1 PROVE t[i].id # f.id
    BY <1>1 DEF Ids
  <2>2. i + 1 \in 1..n /\ ~(i + 1 <= 1) /\ t[i] = q[i + 1]
    BY <1>1
  <2> QED
    BY <1>4, <2>1, <2>2
<1>8. \A i, j \in 1..n - 1 : i < j => t[i].id <= t[j].id
  <2> SUFFICES ASSUME NEW i \in 1..n - 1, NEW j \in 1..n - 1, i < j PROVE t[i].id <= t[j].id
    OBVIOUS
  <2>1. i + 1 \in 1..n /\ j + 1 \in 1..n /\ i + 1 < j + 1 /\ t[i] = q[i + 1] /\ t[j] = q[j + 1]
    BY <1>1
  <2> QED
    BY <1>r, <2>1
<1>9. ASSUME NEW i \in 1..n - 1
      PROVE  \E lo, hi \in 1..n - 1 : Stretch(t, b, t[i], lo, hi)
  <2>0. i + 1 \in 1..n /\ t[i] = q[i + 1]
    BY <1>1
  <2> DEFINE g == t[i]
  <2>g. g.id \in Id /\ g.n \in Nat /\ c[g.id] \in Nat
    BY <1>2, <2>0
  <2>1. \A lo, hi : Stretch(t, b, g, lo, hi) <=>
        /\ lo <= hi /\ hi - lo + 1 = g.n - b[g.id]
        /\ \A j \in 1..n - 1 : /\ t[j].id = g.id <=> lo <= j /\ j <= hi
                               /\ t[j].id = g.id => t[j] = g
    BY <1>1 DEF Stretch
  <2> HIDE DEF g
  <2>2. CASE g.id = f.id
    <3>1. g = f /\ i + 1 <= last
      BY <1>4, <2>0, <2>2 DEF g
    <3>2. last - 1 \in 1..n - 1 /\ 1 \in 1..n - 1 /\ 1 <= last - 1
      <4>1. n \in Nat /\ i \in 1..n - 1 /\ last \in 1..n /\ i + 1 <= last
        BY <1>1, <3>1
      <4> QED
        BY <4>1
    <3>3. last - 1 - 1 + 1 = g.n - b[g.id]
      <4>1. /\ last \in Nat /\ f.n \in Nat /\ c[f.id] \in Nat
            /\ last = f.n - c[f.id] /\ b[f.id] = c[f.id] + 1
        BY <1>2, <1>4, <1>b
      <4>2. last - 1 - 1 + 1 = f.n - b[f.id]
        BY <4>1
      <4> QED
        BY <3>1, <4>2
    <3>4. ASSUME NEW j \in 1..n - 1
          PROVE  /\ t[j].id = g.id <=> 1 <= j /\ j <= last - 1
                 /\ t[j].id = g.id => t[j] = g
      <4>1. j + 1 \in 1..n /\ t[j] = q[j + 1]
        BY <1>1
      <4>2. /\ q[j + 1].id = f.id <=> j + 1 <= last
            /\ q[j + 1].id = f.id => q[j + 1] = f
        BY <1>4, <4>1
      <4>3. j + 1 <= last <=> 1 <= j /\ j <= last - 1
        BY <1>1, <1>4
      <4> QED
        BY <3>1, <4>1, <4>2, <4>3
    <3>5. Stretch(t, b, g, 1, last - 1)
      BY <2>1, <3>2, <3>3, <3>4
    <3> QED
      BY <3>2, <3>5 DEF g
  <2>3. CASE g.id # f.id
    <3>1. PICK lo \in 1..n, hi \in 1..n : Stretch(q, c, g, lo, hi)
      BY <1>r, <2>0 DEF g
    <3>2. /\ lo <= hi /\ hi - lo + 1 = g.n - c[g.id]
          /\ \A j \in 1..n : /\ q[j].id = g.id <=> lo <= j /\ j <= hi
                             /\ q[j].id = g.id => q[j] = g
      BY <3>1, <1>s
    <3>3. ~(lo <= 1 /\ 1 <= hi)
      <4>1. 1 \in 1..n /\ q[1].id # g.id
        BY <1>1, <2>3
      <4> QED
        BY <3>2, <4>1
    <3>4. lo - 1 \in 1..n - 1 /\ hi - 1 \in 1..n - 1 /\ lo - 1 <= hi - 1
      BY <1>1, <3>2, <3>3
    <3>5. (hi - 1) - (lo - 1) + 1 = g.n - b[g.id]
      BY <1>b, <2>g, <2>3, <3>2
    <3>6. ASSUME NEW j \in 1..n - 1
          PROVE  /\ t[j].id = g.id <=> lo - 1 <= j /\ j <= hi - 1
                 /\ t[j].id = g.id => t[j] = g
      <4>1. j + 1 \in 1..n /\ t[j] = q[j + 1]
        BY <1>1
      <4>2. lo <= j + 1 /\ j + 1 <= hi <=> lo - 1 <= j /\ j <= hi - 1
        BY <1>1
      <4> QED
        BY <3>2, <4>1, <4>2
    <3>7. Stretch(t, b, g, lo - 1, hi - 1)
      BY <2>1, <3>4, <3>5, <3>6
    <3> QED
      BY <3>4, <3>7 DEF g
  <2> QED
    BY <2>2, <2>3
<1>10. Runs(t, b)
  BY <1>1, <1>8, <1>9 DEF Runs
<1>11. c[f.id] + 1 <= f.n
  BY <1>2, <1>4
<1>12. f.id \in Ids(q)
  BY <1>5
<1> QED
  BY <1>1, <1>5, <1>6, <1>7, <1>10, <1>11, <1>12 DEF f, b, t

(* The elements of a concatenation. *)
LEMMA ConcatAt ==
  ASSUME NEW S, NEW q \in Seq(S), NEW a \in Seq(S)
  PROVE  /\ q \o a \in Seq(S) /\ Len(q) \in Nat /\ Len(q \o a) = Len(q) + Len(a)
         /\ \A j \in 1..Len(q) + Len(a) :
              (q \o a)[j] = IF j <= Len(q) THEN q[j] ELSE a[j - Len(q)]
  OBVIOUS

(* The packets of a new message are appended: handleVideoFrame hands them  *)
(* to the worker one after the other, and none was answered.               *)
LEMMA RunsAppend ==
  ASSUME NEW q \in Seq(Frame), NEW c \in [Id -> Nat], Runs(q, c),
         NEW f \in Frame, c[f.id] = 0, \A x \in Ids(q) : x < f.id
  PROVE  LET r == q \o [i \in 1..f.n |-> f]
         IN  r \in Seq(Frame) /\ Runs(r, c) /\ Ids(r) = Ids(q) \cup {f.id}
<1> DEFINE a == [i \in 1..f.n |-> f]
           r == q \o a
           m == Len(q)
           k == f.n
<1>0. k \in Nat /\ k >= 1 /\ f.id \in Nat /\ f.id \in Id
  BY RdVideoAssumption DEF Frame, Id
<1>1. a \in Seq(Frame) /\ Len(a) = k
  BY <1>0
<1> HIDE DEF k
<1>2. /\ r \in Seq(Frame) /\ m \in Nat /\ Len(r) = m + k
      /\ \A j \in 1..m : r[j] = q[j]
      /\ \A j \in m + 1..m + k : r[j] = f
  <2>1. /\ r \in Seq(Frame) /\ m \in Nat /\ Len(r) = m + k
        /\ \A j \in 1..m + k : r[j] = IF j <= m THEN q[j] ELSE a[j - m]
    <3> HIDE DEF a
    <3> QED
      BY <1>1, ConcatAt
  <2>2. \A j \in m + 1..m + k : j - m \in 1..k /\ ~(j <= m) /\ j \in 1..m + k
    BY <1>0, <2>1
  <2>3. \A j \in 1..k : a[j] = f
    BY DEF k
  <2>4. \A j \in 1..m : j <= m /\ j \in 1..m + k
    BY <1>0, <2>1
  <2> HIDE DEF a, r, m
  <2>5. ASSUME NEW j \in m + 1..m + k PROVE r[j] = f
    <3>1. r[j] = a[j - m] /\ j - m \in 1..k
      BY <2>1, <2>2
    <3> QED
      BY <2>3, <3>1
  <2>6. ASSUME NEW j \in 1..m PROVE r[j] = q[j]
    BY <2>1, <2>4
  <2> QED
    BY <2>1, <2>5, <2>6
<1> HIDE DEF a, r, m
<1>3. \A j \in 1..m : q[j].id < f.id /\ q[j].id \in Nat
  <2>1. \A j \in 1..m : q[j] \in Frame
    BY DEF m
  <2> QED
    BY <2>1 DEF m, Ids, Frame, Id
<1>4. \A j \in 1..m + k : j \in 1..m \/ j \in m + 1..m + k
  BY <1>0, <1>2
<1>r. /\ \A i, j \in 1..m : i < j => q[i].id <= q[j].id
      /\ \A i \in 1..m : \E lo, hi \in 1..m : Stretch(q, c, q[i], lo, hi)
  BY DEF Runs, m
<1>5. ASSUME NEW i \in 1..m + k, NEW j \in 1..m + k, i < j PROVE r[i].id <= r[j].id
  <2>1. CASE i \in 1..m /\ j \in 1..m
    BY <1>2, <1>r, <1>5, <2>1
  <2>2. CASE i \in 1..m /\ j \in m + 1..m + k
    BY <1>0, <1>2, <1>3, <2>2
  <2>3. CASE i \in m + 1..m + k
    <3>1. j \in m + 1..m + k
      BY <1>0, <1>2, <1>5, <2>3
    <3> QED
      BY <1>0, <1>2, <2>3, <3>1
  <2> QED
    BY <1>4, <2>1, <2>2, <2>3
<1>s. \A g, lo, hi : Stretch(r, c, g, lo, hi) <=>
        /\ lo <= hi /\ hi - lo + 1 = g.n - c[g.id]
        /\ \A j \in 1..m + k : /\ r[j].id = g.id <=> lo <= j /\ j <= hi
                               /\ r[j].id = g.id => r[j] = g
  BY <1>2 DEF Stretch
<1>6. ASSUME NEW i \in 1..m + k
      PROVE  \E lo, hi \in 1..m + k : Stretch(r, c, r[i], lo, hi)
  <2>1. CASE i \in 1..m
    <3> DEFINE g == q[i]
    <3>0. r[i] = g /\ g.id < f.id /\ g.id \in Nat
      BY <1>2, <1>3, <2>1
    <3>1. PICK lo \in 1..m, hi \in 1..m : Stretch(q, c, g, lo, hi)
      BY <1>r, <2>1
    <3> HIDE DEF g
    <3>2. /\ lo <= hi /\ hi - lo + 1 = g.n - c[g.id]
          /\ \A j \in 1..m : /\ q[j].id = g.id <=> lo <= j /\ j <= hi
                             /\ q[j].id = g.id => q[j] = g
      BY <3>1 DEF Stretch, m
    <3>3. ASSUME NEW j \in 1..m + k
          PROVE  /\ r[j].id = g.id <=> lo <= j /\ j <= hi
                 /\ r[j].id = g.id => r[j] = g
      <4>1. CASE j \in 1..m
        BY <1>2, <3>2, <4>1
      <4>2. CASE j \in m + 1..m + k
        <5>1. r[j].id # g.id
          BY <1>0, <1>2, <3>0, <4>2
        <5>2. ~(j <= hi)
          BY <1>0, <1>2, <4>2
        <5> QED
          BY <5>1, <5>2
      <4> QED
        BY <1>4, <4>1, <4>2
    <3>4. lo \in 1..m + k /\ hi \in 1..m + k
      BY <1>0, <1>2
    <3>5. Stretch(r, c, g, lo, hi)
      BY <1>s, <3>2, <3>3
    <3> QED
      BY <3>0, <3>4, <3>5
  <2>2. CASE i \in m + 1..m + k
    <3>1. r[i] = f
      BY <1>2, <2>2
    <3>2. ASSUME NEW j \in 1..m + k
          PROVE  /\ r[j].id = f.id <=> m + 1 <= j /\ j <= m + k
                 /\ r[j].id = f.id => r[j] = f
      <4>1. CASE j \in 1..m
        <5>1. r[j].id # f.id
          BY <1>0, <1>2, <1>3, <4>1
        <5>2. ~(m + 1 <= j)
          BY <1>0, <1>2, <4>1
        <5> QED
          BY <5>1, <5>2
      <4>2. CASE j \in m + 1..m + k
        <5>1. m + 1 <= j /\ j <= m + k
          BY <1>0, <1>2, <4>2
        <5> QED
          BY <1>2, <4>2, <5>1
      <4> QED
        BY <1>4, <4>1, <4>2
    <3>3. m + 1 \in 1..m + k /\ m + k \in 1..m + k /\ m + 1 <= m + k
      <4>1. m \in Nat
        BY <1>2
      <4> QED
        BY <1>0, <4>1
    <3>4. (m + k) - (m + 1) + 1 = f.n - c[f.id]
      <4>1. (m + k) - (m + 1) + 1 = k - 0
        BY <1>0, <1>2
      <4> QED
        BY <4>1 DEF k
    <3>5. ASSUME NEW lo, NEW hi, lo = m + 1, hi = m + k PROVE Stretch(r, c, f, lo, hi)
      <4>1. lo <= hi /\ hi - lo + 1 = f.n - c[f.id]
        BY <3>3, <3>4, <3>5
      <4>2. \A j \in 1..m + k : /\ r[j].id = f.id <=> lo <= j /\ j <= hi
                                /\ r[j].id = f.id => r[j] = f
        BY <3>2, <3>5
      <4> QED
        BY <1>s, <4>1, <4>2
    <3> QED
      BY <3>1, <3>3, <3>5
  <2> QED
    BY <1>4, <2>1, <2>2
<1>7. Runs(r, c)
  BY <1>2, <1>5, <1>6 DEF Runs
<1>8. Ids(r) = Ids(q) \cup {f.id}
  <2>1. Ids(r) = {r[i].id : i \in 1..m + k} /\ Ids(q) = {q[i].id : i \in 1..m}
    BY <1>2 DEF Ids, m
  <2>2. m + 1 \in 1..m + k /\ m + 1 \in m + 1..m + k /\ \A i \in 1..m : i \in 1..m + k
    BY <1>0, <1>2
  <2>3. \A x : x \in Ids(r) => x \in Ids(q) \cup {f.id}
    BY <1>2, <1>4, <2>1
  <2>4. f.id \in Ids(r)
    BY <1>2, <2>1, <2>2
  <2>5. \A x \in Ids(q) : x \in Ids(r)
    BY <1>2, <2>1, <2>2
  <2> QED
    BY <2>3, <2>4, <2>5
<1> QED
  BY <1>2, <1>7, <1>8 DEF r, a

-----------------------------------------------------------------------------
(* What the types say of the parts of the state. *)
LEMMA Basics ==
  ASSUME TypeOK, Numbered
  PROVE  /\ Low \in Nat /\ Low <= host.sent /\ Low <= MaxFrames
         /\ host.sent \in 0..MaxFrames /\ host.waiting \in BOOLEAN /\ host.key \in BOOLEAN
         /\ Len(wire) \in Nat /\ Len(drawn) \in Nat /\ acks \in Nat /\ acked \in Nat
         /\ \A d \in Start : decoder[d] \in Decoder /\ decoder[d].jobs \in Seq(Frame)
                             /\ Jobs(d) \subseteq Id
         /\ Pending \subseteq Id /\ Id \subseteq Nat
         /\ count \in [Id -> Nat] /\ \A i \in 1..Len(drawn) : drawn[i] \in Nat
<1>1. /\ host.sent \in 0..MaxFrames /\ host.waiting \in BOOLEAN /\ host.key \in BOOLEAN
      /\ acks \in Nat /\ acked \in Nat
  BY RdVideoAssumption DEF TypeOK
<1>2. Len(wire) \in Nat /\ Len(drawn) \in Nat /\ \A i \in 1..Len(drawn) : drawn[i] \in Id
  BY DEF TypeOK
<1>3. /\ Low \in Nat /\ Low <= host.sent /\ Low <= MaxFrames
  <2>1. host.sent \in 0..MaxFrames /\ MaxFrames \in Nat
    BY <1>1, RdVideoAssumption
  <2>2. CASE wire = <<>>
    BY <2>1, <2>2 DEF Low
  <2>3. CASE wire # <<>>
    <3>1. wire[1] \in Frame /\ 1 \in 1..Len(wire)
      BY <2>3 DEF TypeOK
    <3>2. wire[1].id \in Id /\ wire[1].id <= host.sent
      BY <3>1 DEF Frame, Numbered
    <3>3. wire[1].id \in Nat /\ wire[1].id >= 1
      BY <3>2 DEF Id
    <3> QED
      BY <2>1, <2>3, <3>2, <3>3 DEF Low
  <2> QED
    BY <2>2, <2>3
<1>4. \A d \in Start : decoder[d] \in Decoder
  BY DEF TypeOK
<1>5. \A d \in Start : decoder[d].jobs \in Seq(Frame)
  BY <1>4 DEF Decoder
<1>6. ASSUME NEW d \in Start PROVE Jobs(d) \subseteq Id
  <2> DEFINE q == decoder[d].jobs
  <2>1. q \in Seq(Frame)
    BY <1>5
  <2> HIDE DEF q
  <2>2. \A k \in 1..Len(q) : q[k] \in Frame
    BY <2>1
  <2>3. \A k \in 1..Len(q) : q[k].id \in Id
    BY <2>2 DEF Frame
  <2> QED
    BY <2>3 DEF Jobs, Ids, q
<1>7. Id \subseteq Nat
  BY DEF Id
<1>8. count \in [Id -> Nat]
  BY DEF TypeOK
<1> QED
  BY <1>1, <1>2, <1>3, <1>4, <1>5, <1>6, <1>7, <1>8 DEF Pending

(* Finitely many messages are over, and no more than were sent. *)
LEMMA PastCard ==
  ASSUME NEW L \in Nat, L <= MaxFrames, NEW P
  PROVE  /\ IsFiniteSet((1..L) \ P) /\ Cardinality((1..L) \ P) \in Nat
         /\ Cardinality((1..L) \ P) <= MaxFrames
<1>1. IsFiniteSet(1..L) /\ Cardinality(1..L) = L
  BY FS_Interval
<1>2. IsFiniteSet((1..L) \ P) /\ Cardinality((1..L) \ P) <= L
  BY <1>1, FS_Subset
<1>3. Cardinality((1..L) \ P) \in Nat
  BY <1>2, FS_CardinalityType
<1> QED
  BY <1>2, <1>3, RdVideoAssumption

(* A set that grows has no fewer members, and one more if a member came.   *)
LEMMA CardGrows ==
  ASSUME NEW S, NEW T, IsFiniteSet(T), S \subseteq T
  PROVE  /\ Cardinality(S) \in Nat /\ Cardinality(T) \in Nat
         /\ Cardinality(S) <= Cardinality(T)
         /\ \A x : x \in T \ S => Cardinality(S) + 1 <= Cardinality(T)
<1>1. IsFiniteSet(S) /\ Cardinality(S) <= Cardinality(T)
  BY FS_Subset
<1>2. Cardinality(S) \in Nat /\ Cardinality(T) \in Nat
  BY <1>1, FS_CardinalityType
<1>3. ASSUME NEW x, x \in T \ S PROVE Cardinality(S) + 1 <= Cardinality(T)
  <2>1. Cardinality(S \cup {x}) = Cardinality(S) + 1
    BY <1>1, <1>3, FS_AddElement
  <2>2. Cardinality(S \cup {x}) <= Cardinality(T)
    BY <1>3, FS_Subset
  <2> QED
    BY <2>1, <2>2
<1> QED
  BY <1>1, <1>2, <1>3

(* The messages taken are finitely many. *)
LEMMA TakenFinite ==
  ASSUME NEW T, T \subseteq Id PROVE IsFiniteSet(T)
<1>1. IsFiniteSet(Id)
  BY RdVideoAssumption, FS_Interval DEF Id
<1> QED
  BY <1>1, FS_Subset

(* A step that leaves decoders, counts and pictures alone. *)
LEMMA QuietStep ==
  ASSUME VideoInv, TypeOK', Numbered', Low' = Low, acks' <= acks,
         UNCHANGED <<videoDecoder, decoder, count, taken, acked, drawn, overlap>>
  PROVE  VideoInv'
<1>1. Pending' = Pending /\ Past' = Past /\ \A d \in Start : Jobs(d)' = Jobs(d)
  BY DEF Pending, Jobs, Past
<1>2. Fresh'
  BY <1>1 DEF VideoInv, Fresh
<1>3. Queued'
  BY <1>1 DEF VideoInv, Queued
<1>4. Earned'
  <2>1. acks \in Nat /\ acks' \in Nat /\ acked \in Nat /\ acks <= acked
    BY RdVideoAssumption DEF VideoInv, TypeOK, Earned
  <2>2. acks' <= acked'
    BY <2>1
  <2> QED
    BY <1>1, <2>2 DEF VideoInv, Earned
<1>5. (~overlap => Single /\ SinceStart /\ Forward)'
  BY <1>1 DEF VideoInv, Single, SinceStart, Forward
<1> QED
  BY <1>2, <1>3, <1>4, <1>5 DEF VideoInv

(* A step that only clears queues of decoders. *)
LEMMA ClearStep ==
  ASSUME VideoInv, TypeOK', Numbered', Low <= Low', acks' <= acked', acked' <= acked,
         taken' \subseteq taken, UNCHANGED <<count, drawn>>,
         \A d \in Start : decoder'[d].jobs = decoder[d].jobs \/ decoder'[d].jobs = <<>>
  PROVE  /\ Fresh' /\ Queued' /\ Earned'
         /\ Pending' \subseteq Pending
         /\ \A d \in Start : Jobs(d)' = Jobs(d) \/ Jobs(d)' = {}
<1>1. /\ Low \in Nat /\ Low' \in Nat /\ Low' <= MaxFrames /\ acked \in Nat /\ acked' \in Nat
      /\ Pending \subseteq Nat /\ \A i \in 1..Len(drawn) : drawn[i] \in Nat
  <2>1. TypeOK /\ Numbered
    BY DEF VideoInv
  <2>2. Low \in Nat /\ acked \in Nat /\ Pending \subseteq Nat /\ \A i \in 1..Len(drawn) : drawn[i] \in Nat
    BY <2>1, Basics
  <2>3. Low' \in Nat /\ Low' <= MaxFrames /\ acked' \in Nat
    <3>1. (TypeOK /\ Numbered => Low \in Nat /\ Low <= MaxFrames /\ acked \in Nat)'
      BY Basics, PTL
    <3> QED
      BY <3>1
  <2> QED
    BY <2>2, <2>3
<1>2. \A d \in Start : Jobs(d)' = Jobs(d) \/ Jobs(d)' = {}
  BY RunsEmpty DEF Jobs
<1>3. Pending' \subseteq Pending
  BY <1>2 DEF Pending
<1>4. Fresh'
  <2>1. \A id \in Id : id > Low' => id > Low
    BY <1>1 DEF Id
  <2>2. \A x \in Pending' : x <= Low'
    BY <1>1, <1>3 DEF VideoInv, Fresh
  <2>3. \A i \in 1..Len(drawn) : drawn[i] <= Low'
    BY <1>1 DEF VideoInv, Fresh
  <2>4. \A id \in Id : id > Low => count[id] = 0 /\ id \notin taken
    BY DEF VideoInv, Fresh
  <2> QED
    BY <2>1, <2>2, <2>3, <2>4 DEF Fresh
<1>5. Queued'
  <2>1. /\ \A d \in Start : Runs(decoder[d].jobs, count)
        /\ \A d, e \in Start : d # e => Jobs(d) \cap Jobs(e) = {}
    BY DEF VideoInv, Queued
  <2>2. \A d \in Start : Runs(decoder'[d].jobs, count')
    BY <2>1, RunsEmpty
  <2>3. \A d, e \in Start : d # e => Jobs(d)' \cap Jobs(e)' = {}
    BY <1>2, <2>1
  <2> QED
    BY <2>2, <2>3 DEF Queued
<1>6. Earned'
  <2>1. Past \subseteq Past'
    <3>1. 1..Low \subseteq 1..Low'
      BY <1>1
    <3> QED
      BY <1>3, <3>1 DEF Past
  <2>2. IsFiniteSet(Past')
    BY <1>1, PastCard DEF Past
  <2>3. /\ Cardinality(Past) \in Nat /\ Cardinality(Past') \in Nat
        /\ Cardinality(Past) <= Cardinality(Past')
    BY <2>1, <2>2, CardGrows
  <2>4. acked <= Cardinality(Past)
    BY DEF VideoInv, Earned
  <2> QED
    BY <1>1, <2>3, <2>4 DEF Earned
<1> QED
  BY <1>2, <1>3, <1>4, <1>5, <1>6

-----------------------------------------------------------------------------
(* A decoder before and during its load. *)
LEMMA NewDecoders ==
  /\ NoDecoder \in Decoder /\ NoDecoder.jobs = <<>> /\ NoDecoder.phase = "none"
  /\ \A o \in 0..MaxStarts : /\ LoadVideoDecoder(o) \in Decoder /\ LoadVideoDecoder(o).jobs = <<>>
                             /\ LoadVideoDecoder(o).phase = "loading" /\ LoadVideoDecoder(o).old = o
<1>1. <<>> \in Seq(Frame) /\ 0 \in 0..MaxStarts
  BY RdVideoAssumption
<1>2. NoDecoder \in Decoder /\ NoDecoder.jobs = <<>> /\ NoDecoder.phase = "none"
  BY <1>1 DEF NoDecoder, Decoder
<1>3. ASSUME NEW o \in 0..MaxStarts
      PROVE  /\ LoadVideoDecoder(o) \in Decoder /\ LoadVideoDecoder(o).jobs = NoDecoder.jobs
             /\ LoadVideoDecoder(o).phase = "loading" /\ LoadVideoDecoder(o).old = o
  BY <1>2 DEF LoadVideoDecoder, Decoder
<1> QED
  BY <1>2, <1>3

(* Initially one decoder is being loaded and nothing was sent. *)
LEMMA VideoInit == Init => VideoInv
<1> SUFFICES ASSUME Init PROVE VideoInv
  OBVIOUS
<1>1. /\ NoDecoder \in Decoder /\ LoadVideoDecoder(0) \in Decoder
      /\ NoDecoder.jobs = <<>> /\ LoadVideoDecoder(0).jobs = <<>>
      /\ NoDecoder.phase = "none" /\ LoadVideoDecoder(0).old = 0
  <2>1. 0 \in 0..MaxStarts
    BY RdVideoAssumption
  <2> QED
    BY <2>1, NewDecoders
<1>2. 1 \in Start
  BY RdVideoAssumption DEF Start
<1>3. /\ decoder \in [Start -> Decoder]
      /\ \A d \in Start : decoder[d] = IF d = 1 THEN LoadVideoDecoder(0) ELSE NoDecoder
  BY <1>1, <1>2 DEF Init
<1>4. \A d \in Start : decoder[d].jobs = <<>> /\ (decoder[d].phase = "loading" => d = 1)
  BY <1>1, <1>3
<1>5. Pending = {} /\ \A d \in Start : Jobs(d) = {}
  BY <1>4, RunsEmpty DEF Jobs, Pending
<1>6. Low = 0 /\ host.sent = 0 /\ Len(wire) = 0 /\ Len(drawn) = 0
  BY DEF Init, Low
<1>7. TypeOK
  <2>1. host \in [sent : 0..MaxFrames, before : 0..MaxFrames, waiting : BOOLEAN, key : BOOLEAN]
    BY RdVideoAssumption DEF Init
  <2>2. count \in [Id -> 0..MaxPackets]
    BY RdVideoAssumption DEF Init
  <2>3. wire \in Seq(Frame) /\ drawn \in Seq(Id)
    BY DEF Init
  <2>4. acks \in 0..MaxFrames /\ acked \in 0..MaxFrames /\ videoDecoder \in 0..MaxStarts
    BY RdVideoAssumption DEF Init
  <2>5. starts \in Start /\ up \in BOOLEAN /\ firstFrame \in BOOLEAN /\ overlap \in BOOLEAN
        /\ taken \subseteq Id /\ dropped \subseteq Id
    BY <1>2 DEF Init
  <2> QED
    BY <1>3, <2>1, <2>2, <2>3, <2>4, <2>5 DEF TypeOK
<1>8. Numbered
  BY <1>6 DEF Numbered
<1>9. Fresh
  BY <1>5, <1>6 DEF Init, Fresh
<1>10. Queued
  BY <1>4, <1>5, RunsEmpty DEF Queued
<1>11. IsFiniteSet({}) /\ Cardinality({}) = 0
  BY FS_EmptySet
<1>12. Earned
  <2>1. Past = {}
    BY <1>6 DEF Past
  <2> QED
    BY <1>11, <2>1 DEF Init, Earned
<1>13. Single
  BY <1>1, <1>3, <1>4, <1>5 DEF Single, Init
<1>14. SinceStart
  <2>1. taken \ Pending = {}
    BY DEF Init
  <2> QED
    BY <1>5, <1>11, <2>1 DEF Init, SinceStart
<1>15. Forward
  BY <1>5, <1>6 DEF Forward
<1> QED
  BY <1>7, <1>8, <1>9, <1>10, <1>12, <1>13, <1>14, <1>15 DEF VideoInv

(* The host sends a message, after all it sent before. *)
LEMMA HostSendsStep ==
  ASSUME VideoInv, NEW n \in 1..MaxPackets, HostSends(n)
  PROVE  VideoInv'
<1> DEFINE m == [id |-> host.sent + 1, n |-> n, key |-> host.key]
<1>0. TypeOK /\ Numbered
  BY DEF VideoInv
<1>1. /\ host.sent < MaxFrames /\ host' = [host EXCEPT !.sent = @ + 1, !.waiting = TRUE, !.key = FALSE]
      /\ wire' = Append(wire, m)
      /\ UNCHANGED <<starts, up, videoDecoder, decoder, firstFrame, count, acks,
                     taken, acked, dropped, drawn, overlap>>
  BY DEF HostSends
<1>2. host.sent \in Nat /\ host.key \in BOOLEAN /\ MaxFrames \in Nat /\ Len(wire) \in Nat
      /\ acks \in Nat
  BY <1>0, Basics, RdVideoAssumption
<1>3. m \in Frame /\ m.id = host.sent + 1
  <2>1. host.sent + 1 \in Id
    BY <1>1, <1>2 DEF Id
  <2> QED
    BY <1>2, <2>1 DEF Frame
<1> HIDE DEF m
<1>4. /\ wire' \in Seq(Frame) /\ Len(wire') = Len(wire) + 1
      /\ \A i \in 1..Len(wire) : wire'[i] = wire[i]
      /\ wire'[Len(wire) + 1] = m
  BY <1>0, <1>1, <1>3 DEF TypeOK
<1>5. /\ host' \in [sent : 0..MaxFrames, before : 0..MaxFrames, waiting : BOOLEAN, key : BOOLEAN]
      /\ host'.sent = host.sent + 1
  <2>1. host.sent + 1 \in 0..MaxFrames
    BY <1>1, <1>2
  <2> QED
    BY <1>0, <1>1, <2>1 DEF TypeOK
<1>6. TypeOK'
  BY <1>0, <1>1, <1>4, <1>5 DEF TypeOK
<1>7. Low' = Low
  <2>1. CASE wire = <<>>
    <3>1. wire'[1] = m /\ wire' # <<>>
      BY <1>4, <2>1
    <3>2. m.id - 1 = host.sent
      BY <1>2, <1>3
    <3> QED
      BY <2>1, <3>1, <3>2 DEF Low
  <2>2. CASE wire # <<>>
    <3>1. 1 \in 1..Len(wire)
      BY <1>0, <2>2 DEF TypeOK
    <3>2. wire'[1] = wire[1] /\ wire' # <<>>
      BY <1>1, <1>4, <3>1
    <3> QED
      BY <2>2, <3>2 DEF Low
  <2> QED
    BY <2>1, <2>2
<1>8. Numbered'
  <2>0. \A i \in 1..Len(wire') : i \in 1..Len(wire) \/ i = Len(wire) + 1
    BY <1>2, <1>4
  <2>1. \A i \in 1..Len(wire) : wire[i].id \in Nat /\ wire[i].id <= host.sent
    <3>1. \A i \in 1..Len(wire) : wire[i] \in Frame
      BY <1>0 DEF TypeOK
    <3> QED
      BY <1>0, <3>1 DEF Frame, Id, Numbered
  <2>2. ASSUME NEW i \in 1..Len(wire') PROVE wire'[i].id <= host'.sent
    <3>1. CASE i \in 1..Len(wire)
      BY <1>2, <1>4, <1>5, <2>1, <3>1
    <3>2. CASE i = Len(wire) + 1
      BY <1>2, <1>3, <1>4, <1>5, <3>2
    <3> QED
      BY <2>0, <3>1, <3>2
  <2>3. ASSUME NEW i \in 1..Len(wire'), NEW j \in 1..Len(wire'), i < j
        PROVE  wire'[i].id < wire'[j].id
    <3>1. i \in 1..Len(wire)
      BY <1>2, <1>4, <2>3
    <3>2. CASE j \in 1..Len(wire)
      BY <1>0, <1>4, <2>3, <3>1, <3>2 DEF Numbered
    <3>3. CASE j = Len(wire) + 1
      BY <1>2, <1>3, <1>4, <2>1, <3>1, <3>3
    <3> QED
      BY <2>0, <3>2, <3>3
  <2> QED
    BY <2>2, <2>3 DEF Numbered
<1>9. acks' <= acks
  BY <1>1, <1>2
<1> QED
  BY <1>1, <1>6, <1>7, <1>8, <1>9, QuietStep

(* The other steps that leave wire and decoders alone. *)
LEMMA IdleStep ==
  ASSUME VideoInv, Refresh \/ HostFetched \/ HostTimeout \/ UNCHANGED vars
  PROVE  VideoInv'
<1>0. TypeOK /\ Numbered
  BY DEF VideoInv
<1>1. /\ UNCHANGED <<starts, videoDecoder, decoder, firstFrame, count, wire, taken, acked,
                     dropped, drawn, overlap>>
      /\ up' \in BOOLEAN
  BY <1>0 DEF Refresh, HostFetched, HostTimeout, vars, TypeOK
<1>2. /\ host' \in [sent : 0..MaxFrames, before : 0..MaxFrames, waiting : BOOLEAN, key : BOOLEAN]
      /\ host'.sent = host.sent
  BY <1>0 DEF Refresh, HostFetched, HostTimeout, vars, TypeOK
<1>3. acks' \in 0..MaxFrames /\ acks' <= acks
  <2>1. acks \in 0..MaxFrames /\ MaxFrames \in Nat
    BY <1>0, RdVideoAssumption DEF TypeOK
  <2>2. acks' = acks \/ (acks > 0 /\ acks' = acks - 1)
    BY DEF Refresh, HostFetched, HostTimeout, vars
  <2> QED
    BY <2>1, <2>2
<1>4. TypeOK'
  BY <1>0, <1>1, <1>2, <1>3 DEF TypeOK
<1>5. Low' = Low
  BY <1>1, <1>2 DEF Low
<1>6. Numbered'
  BY <1>0, <1>1, <1>2, <1>5 DEF Numbered
<1> QED
  BY <1>1, <1>3, <1>4, <1>5, <1>6, QuietStep

(* The end of the wire is lost: what is left is in order. *)
LEMMA WireCut ==
  ASSUME TypeOK, Numbered, NEW k \in 0..Len(wire), wire' = SubSeq(wire, 1, k),
         host'.sent = host.sent
  PROVE  wire' \in Seq(Frame) /\ Numbered' /\ Low <= Low'
<1>1. wire \in Seq(Frame) /\ Len(wire) \in Nat
  BY DEF TypeOK
<1>2. /\ wire' \in Seq(Frame) /\ Len(wire') = k
      /\ \A i \in 1..k : wire'[i] = wire[i] /\ i \in 1..Len(wire)
  BY <1>1
<1>3. Low \in Nat /\ host.sent \in Nat /\ Low <= host.sent
  BY Basics
<1>4. Numbered'
  BY <1>2 DEF Numbered
<1>5. CASE k = 0
  <2>1. wire' = <<>>
    BY <1>2, <1>5
  <2> QED
    BY <1>2, <1>3, <1>4, <2>1 DEF Low
<1>6. CASE k # 0
  <2>1. 1 \in 1..k
    BY <1>1, <1>6
  <2>2. wire' # <<>> /\ wire # <<>> /\ wire'[1] = wire[1]
    BY <1>1, <1>2, <2>1
  <2>3. Low' = Low
    BY <2>2 DEF Low
  <2> QED
    BY <1>2, <1>3, <1>4, <2>3
<1> QED
  BY <1>5, <1>6

(* The socket of a new start is there: at most one message of the old      *)
(* buffer is still to be taken.                                            *)
LEMMA ConnectedStep ==
  ASSUME VideoInv, Connected
  PROVE  VideoInv'
<1>0. TypeOK /\ Numbered
  BY DEF VideoInv
<1>1. /\ up' = TRUE
      /\ UNCHANGED <<starts, videoDecoder, decoder, firstFrame, count, host, acks,
                     taken, acked, dropped, drawn, overlap>>
  BY DEF Connected
<1>2. PICK k \in {0, 1} : k <= Len(wire) /\ wire' = SubSeq(wire, 1, k)
  BY DEF Connected
<1>3. k \in 0..Len(wire)
  BY <1>0, <1>2 DEF TypeOK
<1>4. wire' \in Seq(Frame) /\ Numbered' /\ Low <= Low'
  BY <1>0, <1>1, <1>2, <1>3, WireCut
<1>5. TypeOK'
  BY <1>0, <1>1, <1>4 DEF TypeOK
<1>6. acks' <= acked' /\ acked' <= acked
  BY <1>0, <1>1, Basics DEF VideoInv, Earned
<1>7. Fresh' /\ Queued' /\ Earned'
  BY <1>1, <1>4, <1>5, <1>6, ClearStep
<1>8. Pending' = Pending /\ \A d \in Start : Jobs(d)' = Jobs(d)
  BY <1>1 DEF Pending, Jobs
<1>9. (~overlap => Single /\ SinceStart /\ Forward)'
  BY <1>1, <1>8 DEF VideoInv, Single, SinceStart, Forward
<1> QED
  BY <1>4, <1>5, <1>7, <1>9 DEF VideoInv

(* Closing a decoder clears its queue. *)
LEMMA Closes ==
  ASSUME NEW ds \in [Start -> Decoder], NEW d \in 0..MaxStarts
  PROVE  /\ CloseDecoder(ds, d) \in [Start -> Decoder]
         /\ \A e \in Start : e # d => CloseDecoder(ds, d)[e] = ds[e]
         /\ d \in Start => /\ CloseDecoder(ds, d)[d].jobs = <<>>
                           /\ CloseDecoder(ds, d)[d].phase = "closed"
<1>1. CASE d = 0
  BY <1>1 DEF CloseDecoder, Start
<1>2. CASE d # 0
  <2>1. d \in Start
    BY <1>2, RdVideoAssumption DEF Start
  <2>2. /\ CloseDecoder(ds, d) = [ds EXCEPT ![d] = [ds[d] EXCEPT !.phase = "closed", !.jobs = <<>>]]
    BY <1>2, <2>1 DEF CloseDecoder
  <2>3. [ds[d] EXCEPT !.phase = "closed", !.jobs = <<>>] \in Decoder
    <3>1. <<>> \in Seq(Frame) /\ ds[d] \in Decoder
      BY <2>1
    <3> QED
      BY <3>1 DEF Decoder
  <2>4. /\ [ds[d] EXCEPT !.phase = "closed", !.jobs = <<>>].phase = "closed"
        /\ [ds[d] EXCEPT !.phase = "closed", !.jobs = <<>>].jobs = <<>>
    BY <2>1 DEF Decoder
  <2> QED
    BY <2>1, <2>2, <2>3, <2>4
<1> QED
  BY <1>1, <1>2

(* A load ends: the decoder it replaces is closed. *)
LEMMA LoadedStep ==
  ASSUME VideoInv, NEW d \in Start, DecoderLoaded(d)
  PROVE  VideoInv'
<1> DEFINE ds == [decoder EXCEPT ![d].phase = "open"]
<1>0. TypeOK /\ Numbered
  BY DEF VideoInv
<1>1. /\ decoder[d].phase = "loading" /\ videoDecoder' = d
      /\ decoder' = CloseDecoder(ds, decoder[d].old)
      /\ UNCHANGED <<starts, up, firstFrame, count, wire, host, acks, taken, acked, dropped, drawn, overlap>>
  BY DEF DecoderLoaded
<1>2. decoder[d] \in Decoder /\ decoder[d].old \in 0..MaxStarts /\ decoder \in [Start -> Decoder]
  BY <1>0 DEF TypeOK, Decoder
<1>3. [decoder[d] EXCEPT !.phase = "open"] \in Decoder
  BY <1>2 DEF Decoder
<1>4. /\ ds \in [Start -> Decoder] /\ ds[d].phase = "open" /\ ds[d].jobs = decoder[d].jobs
      /\ \A e \in Start : e # d => ds[e] = decoder[e]
  BY <1>2, <1>3 DEF Decoder
<1> HIDE DEF ds
<1>5. /\ decoder' \in [Start -> Decoder]
      /\ \A e \in Start : e # decoder[d].old => decoder'[e] = ds[e]
      /\ decoder[d].old \in Start => /\ decoder'[decoder[d].old].jobs = <<>>
                                     /\ decoder'[decoder[d].old].phase = "closed"
  BY <1>1, <1>2, <1>4, Closes
<1>6. \A e \in Start : decoder'[e].jobs = decoder[e].jobs \/ decoder'[e].jobs = <<>>
  BY <1>4, <1>5
<1>7. TypeOK'
  <2>1. d \in 0..MaxStarts
    BY DEF Start
  <2> QED
    BY <1>0, <1>1, <1>5, <2>1 DEF TypeOK
<1>8. Low' = Low /\ Numbered'
  BY <1>0, <1>1 DEF Low, Numbered
<1>9. /\ Fresh' /\ Queued' /\ Earned' /\ Pending' \subseteq Pending
      /\ \A e \in Start : Jobs(e)' = Jobs(e) \/ Jobs(e)' = {}
  <2>1. Low <= Low' /\ acks' <= acked' /\ acked' <= acked
    BY <1>0, <1>1, <1>8, Basics DEF VideoInv, Earned
  <2> QED
    BY <1>1, <1>6, <1>7, <1>8, <2>1, ClearStep
<1>10. ASSUME ~overlap PROVE Single' /\ SinceStart' /\ Forward'
  <2>1. Single /\ SinceStart /\ Forward
    BY <1>10 DEF VideoInv
  <2>2. decoder[d].old = videoDecoder
    BY <1>1, <2>1 DEF Single
  <2>3. \A e \in Start : Jobs(e)' = {}
    <3> TAKE e \in Start
    <3>1. CASE e = videoDecoder
      <4>1. decoder'[e].jobs = <<>>
        BY <1>5, <2>2, <3>1
      <4> QED
        BY <4>1, RunsEmpty DEF Jobs
    <3>2. CASE e # videoDecoder
      BY <1>9, <2>1, <3>2 DEF Single
    <3> QED
      BY <3>1, <3>2
  <2>4. \A e \in Start : decoder'[e].phase # "loading"
    <3> TAKE e \in Start
    <3>1. CASE e = videoDecoder
      BY <1>5, <2>2, <3>1
    <3>2. CASE e # videoDecoder /\ e = d
      BY <1>4, <1>5, <2>2, <3>2
    <3>3. CASE e # videoDecoder /\ e # d
      BY <1>1, <1>4, <1>5, <2>1, <2>2, <3>3 DEF Single
    <3> QED
      BY <3>1, <3>2, <3>3
  <2>5. Single'
    BY <2>3, <2>4 DEF Single
  <2>6. SinceStart'
    <3>1. IsFiniteSet(taken)
      BY <1>0, TakenFinite DEF TypeOK
    <3>2. taken \ Pending \subseteq taken \ Pending' /\ IsFiniteSet(taken \ Pending')
      BY <1>9, <3>1, FS_Subset
    <3>3. /\ Cardinality(taken \ Pending) \in Nat /\ Cardinality(taken \ Pending') \in Nat
          /\ Cardinality(taken \ Pending) <= Cardinality(taken \ Pending')
      BY <3>2, CardGrows
    <3>4. acked <= Cardinality(taken \ Pending') /\ Pending' \subseteq taken
      BY <1>0, <1>9, <2>1, <3>3, Basics DEF SinceStart
    <3> QED
      BY <1>1, <3>4 DEF SinceStart
  <2>7. Forward'
    BY <1>1, <1>9, <2>1 DEF Forward
  <2> QED
    BY <2>5, <2>6, <2>7
<1> QED
  BY <1>1, <1>7, <1>8, <1>9, <1>10 DEF VideoInv

(* A restart: nothing a decoder has in hand counts for the new socket. *)
LEMMA RestartStep ==
  ASSUME VideoInv, Restart
  PROVE  VideoInv'
<1> DEFINE ds == CloseDecoder(decoder, videoDecoder)
           n == starts + 1
           N == LoadVideoDecoder(videoDecoder)
<1>0. TypeOK /\ Numbered
  BY DEF VideoInv
<1>1. /\ starts < MaxStarts /\ starts' = n /\ decoder' = [ds EXCEPT ![n] = N]
      /\ up' = FALSE /\ acks' = 0
      /\ host' = [host EXCEPT !.before = host.sent, !.waiting = FALSE, !.key = TRUE]
      /\ taken' = {} /\ acked' = 0
      /\ UNCHANGED <<videoDecoder, firstFrame, count, dropped, drawn>>
  BY DEF Restart
<1>w. PICK k \in 0..Len(wire) : wire' = SubSeq(wire, 1, k)
  BY DEF Restart
<1>o. /\ overlap' \in BOOLEAN
      /\ ~overlap' => ~overlap /\ \A d \in Start : decoder[d].phase # "loading"
  <2> DEFINE L == \E d \in Start : decoder[d].phase = "loading"
  <2>1. overlap' = (overlap \/ L) /\ overlap \in BOOLEAN
    BY <1>0 DEF Restart, TypeOK
  <2>2. L \/ ~L
    OBVIOUS
  <2>3. CASE L
    <3>1. (overlap \/ L) = TRUE
      BY <2>3
    <3> QED
      BY <2>1, <3>1
  <2>4. CASE ~L
    <3>1. (overlap \/ L) = overlap
      BY <2>1, <2>4, Zenon
    <3>2. overlap' = overlap
      BY <2>1, <3>1
    <3> QED
      BY <2>1, <2>4, <3>2
  <2> QED
    BY <2>2, <2>3, <2>4
<1>2. n \in Start /\ videoDecoder \in 0..MaxStarts /\ decoder \in [Start -> Decoder]
  BY <1>0, <1>1, RdVideoAssumption DEF TypeOK, Start
<1>3. /\ ds \in [Start -> Decoder]
      /\ \A e \in Start : e # videoDecoder => ds[e] = decoder[e]
      /\ videoDecoder \in Start => ds[videoDecoder].jobs = <<>> /\ ds[videoDecoder].phase = "closed"
  BY <1>2, Closes
<1>4. N \in Decoder /\ N.jobs = <<>> /\ N.phase = "loading" /\ N.old = videoDecoder
  BY <1>2, NewDecoders
<1> HIDE DEF ds, n, N
<1>5. decoder' \in [Start -> Decoder] /\ decoder'[n] = N /\ \A e \in Start : e # n => decoder'[e] = ds[e]
  BY <1>1, <1>2, <1>3, <1>4
<1>6. \A e \in Start : decoder'[e].jobs = decoder[e].jobs \/ decoder'[e].jobs = <<>>
  <2> TAKE e \in Start
  <2>1. CASE e = n
    BY <1>4, <1>5, <2>1
  <2>2. CASE e # n /\ e # videoDecoder
    BY <1>3, <1>5, <2>2
  <2>3. CASE e # n /\ e = videoDecoder
    BY <1>3, <1>5, <2>3
  <2> QED
    BY <2>1, <2>2, <2>3
<1>7. /\ host' \in [sent : 0..MaxFrames, before : 0..MaxFrames, waiting : BOOLEAN, key : BOOLEAN]
      /\ host'.sent = host.sent
  BY <1>0, <1>1 DEF TypeOK
<1>9. wire' \in Seq(Frame) /\ Numbered' /\ Low <= Low'
  BY <1>0, <1>7, <1>w, WireCut
<1>8. TypeOK'
  <2>1. acks' \in 0..MaxFrames /\ acked' \in 0..MaxFrames
    BY <1>1, RdVideoAssumption
  <2> QED
    BY <1>0, <1>1, <1>2, <1>5, <1>7, <1>9, <1>o, <2>1 DEF TypeOK
<1>10. /\ Fresh' /\ Queued' /\ Earned' /\ Pending' \subseteq Pending
       /\ \A e \in Start : Jobs(e)' = Jobs(e) \/ Jobs(e)' = {}
  <2>1. acks' <= acked' /\ acked' <= acked
    BY <1>0, <1>1, Basics
  <2>2. taken' \subseteq taken
    BY <1>1
  <2> QED
    BY <1>1, <1>6, <1>8, <1>9, <2>1, <2>2, ClearStep
<1>11. ASSUME ~overlap' PROVE Single' /\ SinceStart' /\ Forward'
  <2>1. Single /\ SinceStart /\ Forward /\ \A d \in Start : decoder[d].phase # "loading"
    BY <1>11, <1>o DEF VideoInv
  <2>2. \A e \in Start : Jobs(e)' = {}
    <3> TAKE e \in Start
    <3>1. CASE e = videoDecoder
      <4>1. decoder'[e].jobs = <<>>
        BY <1>3, <1>4, <1>5, <3>1
      <4> QED
        BY <4>1, RunsEmpty DEF Jobs
    <3>2. CASE e # videoDecoder
      BY <1>10, <2>1, <3>2 DEF Single
    <3> QED
      BY <3>1, <3>2
  <2>3. \A e \in Start : decoder'[e].phase = "loading" => e = n /\ decoder'[e].old = videoDecoder
    <3> TAKE e \in Start
    <3>1. CASE e = n
      BY <1>4, <1>5, <3>1
    <3>2. CASE e # n /\ e = videoDecoder
      BY <1>3, <1>5, <3>2
    <3>3. CASE e # n /\ e # videoDecoder
      BY <1>3, <1>5, <2>1, <3>3
    <3> QED
      BY <3>1, <3>2, <3>3
  <2>4. Single'
    BY <1>1, <2>2, <2>3 DEF Single
  <2>5. SinceStart'
    <3>1. Pending' = {}
      BY <2>2 DEF Pending
    <3>2. Cardinality({}) = 0 /\ taken' \ Pending' = {}
      BY <1>1, FS_EmptySet
    <3> QED
      BY <1>1, <3>1, <3>2 DEF SinceStart
  <2>6. Forward'
    BY <1>1, <1>10, <2>1 DEF Forward
  <2> QED
    BY <2>4, <2>5, <2>6
<1> QED
  BY <1>8, <1>9, <1>10, <1>11 DEF VideoInv

(* sendVideoReceived: an acknowledgement at most. *)
LEMMA SentOnce ==
  ASSUME NEW times \in {0, 1}, TypeOK, Earned, SendVideoReceived(times)
  PROVE  /\ acks' \in Nat /\ acked' \in Nat
         /\ acks' <= acked' /\ acked' <= acked + times
<1>1. acks \in Nat /\ acked \in Nat /\ acks <= acked
  BY RdVideoAssumption DEF TypeOK, Earned
<1>2. CASE up
  BY <1>1, <1>2 DEF SendVideoReceived
<1>3. CASE ~up
  BY <1>1, <1>3 DEF SendVideoReceived
<1> QED
  BY <1>2, <1>3

(* The message loop takes the next message: nothing was done with it.      *)
LEMMA NextMessage ==
  ASSUME VideoInv, wire # <<>>, wire' = Tail(wire), host' = host
  PROVE  LET f == Head(wire)
         IN  /\ f \in Frame /\ f.id = Low + 1 /\ f.id \in Id
             /\ wire' \in Seq(Frame) /\ f.id <= Low' /\ Low' \in Nat /\ Low' <= MaxFrames /\ Numbered'
             /\ count[f.id] = 0 /\ f.id \notin taken /\ f.id \notin Pending
             /\ \A x \in Pending : x < f.id
             /\ \A i \in 1..Len(drawn) : drawn[i] < f.id
<1> DEFINE f == Head(wire)
<1>0. TypeOK /\ Numbered /\ Fresh
  BY DEF VideoInv
<1>1. /\ f \in Frame /\ f = wire[1] /\ wire' \in Seq(Frame) /\ Len(wire) >= 1
      /\ Len(wire') = Len(wire) - 1 /\ \A i \in 1..Len(wire') : wire'[i] = wire[i + 1]
  BY <1>0 DEF TypeOK
<1>2. /\ Low \in Nat /\ host.sent \in 0..MaxFrames /\ Len(wire) \in Nat
      /\ Pending \subseteq Nat /\ \A i \in 1..Len(drawn) : drawn[i] \in Nat
  BY <1>0, Basics
<1> HIDE DEF f
<1>3. f.id = Low + 1 /\ f.id \in Id /\ f.id <= host.sent
  <2>1. f.id \in Id
    BY <1>1 DEF Frame
  <2>2. f.id - 1 = Low
    BY <1>1 DEF Low
  <2>3. f.id \in Nat
    BY <2>1 DEF Id
  <2>4. 1 \in 1..Len(wire)
    BY <1>1, <1>2
  <2>5. f.id <= host.sent
    BY <1>0, <1>1, <2>4 DEF Numbered
  <2> QED
    BY <1>2, <2>1, <2>2, <2>3, <2>5
<1>n. \A i \in 1..Len(wire') : i + 1 \in 1..Len(wire) /\ wire'[i] = wire[i + 1]
  BY <1>1, <1>2
<1>6. Numbered'
  <2>1. \A i \in 1..Len(wire') : wire'[i].id <= host'.sent
    BY <1>0, <1>n DEF Numbered
  <2>2. ASSUME NEW i \in 1..Len(wire'), NEW j \in 1..Len(wire'), i < j
        PROVE  wire'[i].id < wire'[j].id
    <3>1. i + 1 < j + 1
      BY <2>2
    <3> QED
      BY <1>0, <1>n, <3>1 DEF Numbered
  <2> QED
    BY <2>1, <2>2 DEF Numbered
<1>4. f.id <= Low'
  <2>1. CASE wire' = <<>>
    BY <1>3, <2>1 DEF Low
  <2>2. CASE wire' # <<>>
    <3>0. Len(wire') \in Nat /\ Len(wire') # 0
      BY <1>1, <2>2
    <3>1. 1 \in 1..Len(wire') /\ 1 \in 1..Len(wire) /\ 2 \in 1..Len(wire)
      BY <1>1, <1>2, <3>0
    <3>2. wire'[1] = wire[2] /\ wire[2] \in Frame
      BY <1>0, <1>1, <3>1 DEF TypeOK
    <3>3. f.id < wire[2].id
      BY <1>0, <1>1, <3>1 DEF Numbered
    <3>4. f.id \in Nat /\ wire[2].id \in Nat
      BY <1>3, <3>2 DEF Frame, Id
    <3>5. f.id <= wire[2].id - 1
      BY <3>3, <3>4
    <3> QED
      BY <2>2, <3>2, <3>5 DEF Low
  <2> QED
    BY <2>1, <2>2
<1>5. Low' \in Nat /\ Low' <= MaxFrames
  <2>2. CASE wire' = <<>>
    BY <1>2, <2>2, RdVideoAssumption DEF Low
  <2>3. CASE wire' # <<>>
    <3>1. 1 \in 1..Len(wire') /\ wire'[1] \in Frame
      BY <1>1, <2>3
    <3>2. wire'[1].id \in Id
      BY <3>1 DEF Frame
    <3>i. \A x \in Id : x - 1 \in Nat /\ x - 1 <= MaxFrames
      BY RdVideoAssumption DEF Id
    <3>3. wire'[1].id - 1 \in Nat /\ wire'[1].id - 1 <= MaxFrames
      BY <3>2, <3>i
    <3> QED
      BY <2>3, <3>3 DEF Low
  <2> QED
    BY <2>2, <2>3
<1>7. f.id > Low
  BY <1>2, <1>3
<1>8. count[f.id] = 0 /\ f.id \notin taken
  BY <1>0, <1>3, <1>7 DEF Fresh
<1>9. /\ \A x \in Pending : x < f.id
      /\ \A i \in 1..Len(drawn) : drawn[i] < f.id
  <2>1. \A x \in Pending : x <= Low /\ x \in Nat
    BY <1>0, <1>2 DEF Fresh
  <2>2. \A i \in 1..Len(drawn) : drawn[i] <= Low /\ drawn[i] \in Nat
    BY <1>0, <1>2 DEF Fresh
  <2>3. ASSUME NEW x \in Pending PROVE x < f.id
    BY <1>2, <1>3, <2>1
  <2>4. ASSUME NEW i \in 1..Len(drawn) PROVE drawn[i] < f.id
    BY <1>2, <1>3, <2>2
  <2> QED
    BY <2>3, <2>4
<1>10. f.id \notin Pending
  <2>1. f.id \in Nat
    BY <1>2, <1>3
  <2>2. ~(f.id < f.id)
    BY <2>1
  <2> QED
    BY <1>9, <2>2
<1> QED
  BY <1>1, <1>3, <1>4, <1>5, <1>6, <1>8, <1>9, <1>10 DEF f

(* A message that is not handed to a worker: without a decoder it is       *)
(* dropped, by a closed one it is acknowledged at once.                    *)
LEMMA PassedStep ==
  ASSUME VideoInv, wire # <<>>, wire' = Tail(wire),
         UNCHANGED <<starts, up, videoDecoder, decoder, host, drawn, overlap>>,
         firstFrame' = TRUE, taken' = taken \cup {Head(wire).id},
         dropped' = dropped \cup {Head(wire).id},
         \/ UNCHANGED <<count, acks, acked>>
         \/ /\ count' = [count EXCEPT ![Head(wire).id] = Head(wire).n]
            /\ SendVideoReceived(1)
  PROVE  VideoInv'
<1> DEFINE f == Head(wire)
<1>0. TypeOK /\ Numbered /\ Fresh /\ Queued /\ Earned
  BY DEF VideoInv
<1>b. /\ Low \in Nat /\ acks \in Nat /\ acked \in Nat /\ \A d \in Start : decoder[d].jobs \in Seq(Frame)
      /\ \A i \in 1..Len(drawn) : drawn[i] \in Nat
      /\ Pending \subseteq Nat
  BY <1>0, Basics
<1>1. /\ f \in Frame /\ f.id = Low + 1 /\ f.id \in Id
      /\ wire' \in Seq(Frame) /\ f.id <= Low' /\ Low' \in Nat /\ Low' <= MaxFrames /\ Numbered'
      /\ count[f.id] = 0 /\ f.id \notin taken /\ f.id \notin Pending
      /\ \A x \in Pending : x < f.id
      /\ \A i \in 1..Len(drawn) : drawn[i] < f.id
  BY NextMessage
<1>2. taken' = taken \cup {f.id} /\ dropped' = dropped \cup {f.id}
  OBVIOUS
<1>3. /\ count' \in [Id -> 0..MaxPackets]
      /\ \A x \in Id : x # f.id => count'[x] = count[x]
  <2>1. count \in [Id -> 0..MaxPackets] /\ f.n \in 0..MaxPackets
    BY <1>0, <1>1, RdVideoAssumption DEF TypeOK, Frame
  <2>2. count' = count \/ count' = [count EXCEPT ![f.id] = f.n]
    OBVIOUS
  <2> HIDE DEF f
  <2> QED
    BY <2>1, <2>2
<1>4. acks' \in Nat /\ acked' \in Nat /\ acks' <= acked' /\ acked' <= acked + 1
  <2>1. CASE UNCHANGED <<count, acks, acked>>
    BY <1>0, <1>b, <2>1 DEF Earned
  <2>2. CASE SendVideoReceived(1)
    BY <1>0, <2>2, SentOnce
  <2> QED
    BY <2>1, <2>2
<1> HIDE DEF f
<1>5. Pending' = Pending /\ \A d \in Start : Jobs(d)' = Jobs(d)
  BY DEF Pending, Jobs
<1>6. Earned'
  <2>1. Past \subseteq Past' /\ f.id \in Past' \ Past
    <3>1. /\ 1..Low \subseteq 1..Low' /\ f.id \in 1..Low' /\ f.id \notin 1..Low
      BY <1>1, <1>b
    <3> QED
      BY <1>1, <1>5, <3>1 DEF Past
  <2>2. IsFiniteSet(Past')
    BY <1>1, PastCard DEF Past
  <2>3. /\ Cardinality(Past) \in Nat /\ Cardinality(Past') \in Nat
        /\ Cardinality(Past) + 1 <= Cardinality(Past')
    BY <2>1, <2>2, CardGrows
  <2>4. acked <= Cardinality(Past)
    BY <1>0 DEF Earned
  <2>5. acked' <= Cardinality(Past')
    BY <1>4, <1>b, <2>3, <2>4
  <2> QED
    BY <1>4, <2>5 DEF Earned
<1>7. TypeOK'
  <2>1. acks' \in 0..MaxFrames /\ acked' \in 0..MaxFrames
    <3>1. Cardinality(Past') \in Nat /\ Cardinality(Past') <= MaxFrames
      BY <1>1, PastCard DEF Past
    <3>2. acked' <= Cardinality(Past')
      BY <1>6 DEF Earned
    <3> QED
      BY <1>4, <3>1, <3>2, RdVideoAssumption
  <2>2. taken' \subseteq Id /\ dropped' \subseteq Id
    BY <1>0, <1>1, <1>2 DEF TypeOK
  <2> QED
    BY <1>0, <1>1, <1>3, <2>1, <2>2 DEF TypeOK
<1>8. Fresh'
  <2>1. \A id \in Id : id > Low' => id > Low /\ id # f.id
    BY <1>1, <1>b DEF Id
  <2>2. \A id \in Id : id > Low' => count'[id] = 0 /\ id \notin taken'
    BY <1>0, <1>1, <1>2, <1>3, <2>1 DEF Fresh
  <2>3. \A x \in Pending : x <= Low'
    BY <1>0, <1>1, <1>b DEF Fresh
  <2>4. \A i \in 1..Len(drawn) : drawn[i] <= Low'
    BY <1>0, <1>1, <1>b DEF Fresh
  <2> QED
    BY <1>1, <1>5, <2>2, <2>3, <2>4 DEF Fresh
<1>9. Queued'
  <2>1. ASSUME NEW d \in Start PROVE Runs(decoder'[d].jobs, count')
    <3>1. Jobs(d) \subseteq Id /\ f.id \notin Jobs(d)
      BY <1>0, <1>1, Basics DEF Pending
    <3>2. \A x \in Ids(decoder[d].jobs) : count'[x] = count[x]
      BY <1>3, <3>1 DEF Jobs
    <3>3. Runs(decoder[d].jobs, count)
      BY <1>0 DEF Queued
    <3> QED
      BY <1>b, <3>2, <3>3, RunsOther
  <2> QED
    BY <1>0, <1>5, <2>1 DEF Queued
<1>10. ASSUME ~overlap PROVE Single' /\ SinceStart' /\ Forward'
  <2>1. Single /\ SinceStart /\ Forward
    BY <1>10 DEF VideoInv
  <2>2. Single'
    BY <1>5, <2>1 DEF Single
  <2>3. Forward'
    BY <1>5, <2>1 DEF Forward
  <2>4. SinceStart'
    <3>1. IsFiniteSet(taken')
      BY <1>7, TakenFinite DEF TypeOK
    <3>2. /\ taken \ Pending \subseteq taken' \ Pending /\ IsFiniteSet(taken' \ Pending)
          /\ f.id \in (taken' \ Pending) \ (taken \ Pending)
      BY <1>1, <1>2, <3>1, FS_Subset
    <3>3. /\ Cardinality(taken \ Pending) \in Nat /\ Cardinality(taken' \ Pending) \in Nat
          /\ Cardinality(taken \ Pending) + 1 <= Cardinality(taken' \ Pending)
      BY <3>2, CardGrows
    <3>4. acked' <= Cardinality(taken' \ Pending)
      BY <1>4, <1>b, <2>1, <3>3 DEF SinceStart
    <3> QED
      BY <1>2, <1>5, <2>1, <3>4 DEF SinceStart
  <2> QED
    BY <2>2, <2>3, <2>4
<1> QED
  BY <1>1, <1>6, <1>7, <1>8, <1>9, <1>10 DEF VideoInv

(* A message handed to the worker of the open decoder. *)
LEMMA HandedStep ==
  ASSUME VideoInv, wire # <<>>, wire' = Tail(wire), videoDecoder # 0,
         UNCHANGED <<starts, up, videoDecoder, host, drawn, overlap, count, acks, acked, dropped>>,
         firstFrame' = TRUE, taken' = taken \cup {Head(wire).id},
         decoder' = [decoder EXCEPT ![videoDecoder].jobs = @ \o [i \in 1..Head(wire).n |-> Head(wire)]]
  PROVE  VideoInv'
<1> DEFINE f == Head(wire)
<1>0. TypeOK /\ Numbered /\ Fresh /\ Queued /\ Earned
  BY DEF VideoInv
<1>b. /\ Low \in Nat /\ acks \in Nat /\ acked \in Nat /\ count \in [Id -> Nat]
      /\ \A e \in Start : decoder[e] \in Decoder /\ decoder[e].jobs \in Seq(Frame)
      /\ \A i \in 1..Len(drawn) : drawn[i] \in Nat
      /\ Pending \subseteq Nat
  BY <1>0, Basics
<1>1. /\ f \in Frame /\ f.id = Low + 1 /\ f.id \in Id
      /\ wire' \in Seq(Frame) /\ f.id <= Low' /\ Low' \in Nat /\ Low' <= MaxFrames /\ Numbered'
      /\ count[f.id] = 0 /\ f.id \notin taken /\ f.id \notin Pending
      /\ \A x \in Pending : x < f.id
      /\ \A i \in 1..Len(drawn) : drawn[i] < f.id
  BY NextMessage
<1>2. PICK d \in Start : d = videoDecoder
  BY <1>0, RdVideoAssumption DEF TypeOK, Start
<1> DEFINE q == decoder[d].jobs
           r == q \o [i \in 1..f.n |-> f]
<1>d. decoder \in [Start -> Decoder]
  BY <1>0 DEF TypeOK
<1>3. taken' = taken \cup {f.id} /\ decoder' = [decoder EXCEPT ![d].jobs = r]
  BY <1>2
<1>4. q \in Seq(Frame) /\ Runs(q, count) /\ Jobs(d) = Ids(q) /\ \A x \in Ids(q) : x < f.id
  BY <1>0, <1>1, <1>2, <1>b DEF Queued, Jobs, Pending
<1> HIDE DEF f, q
<1>5. r \in Seq(Frame) /\ Runs(r, count) /\ Ids(r) = Ids(q) \cup {f.id}
  BY <1>1, <1>4, <1>b, RunsAppend
<1> HIDE DEF r
<1>6. /\ decoder' \in [Start -> Decoder]
      /\ \A e \in Start : /\ e # d => decoder'[e] = decoder[e]
                          /\ decoder'[e].phase = decoder[e].phase /\ decoder'[e].old = decoder[e].old
      /\ decoder'[d].jobs = r
  <2> DEFINE N == [decoder[d] EXCEPT !.jobs = r]
  <2>1. decoder' = [decoder EXCEPT ![d] = N]
    BY <1>3
  <2>2. decoder[d] \in Decoder
    BY <1>d
  <2>3. N \in Decoder /\ N.jobs = r /\ N.phase = decoder[d].phase /\ N.old = decoder[d].old
    BY <1>5, <2>2 DEF Decoder
  <2> HIDE DEF N
  <2> QED
    BY <1>d, <2>1, <2>3
<1>7. /\ Jobs(d)' = Jobs(d) \cup {f.id}
      /\ \A e \in Start : e # d => Jobs(e)' = Jobs(e)
  BY <1>4, <1>5, <1>6 DEF Jobs
<1>8. Pending' = Pending \cup {f.id}
  BY <1>7 DEF Pending
<1>9. TypeOK'
  <2>1. taken' \subseteq Id
    BY <1>0, <1>1, <1>3 DEF TypeOK
  <2> QED
    BY <1>0, <1>1, <1>6, <2>1 DEF TypeOK
<1>10. Earned'
  <2>1. Past \subseteq Past'
    <3>1. 1..Low \subseteq 1..Low' /\ f.id \notin 1..Low
      BY <1>1, <1>b
    <3> QED
      BY <1>8, <3>1 DEF Past
  <2>2. IsFiniteSet(Past')
    BY <1>1, PastCard DEF Past
  <2>3. /\ Cardinality(Past) \in Nat /\ Cardinality(Past') \in Nat
        /\ Cardinality(Past) <= Cardinality(Past')
    BY <2>1, <2>2, CardGrows
  <2> QED
    BY <1>0, <1>b, <2>3 DEF Earned
<1>11. Fresh'
  <2>1. \A id \in Id : id > Low' => id > Low /\ id # f.id
    BY <1>1, <1>b DEF Id
  <2>2. \A id \in Id : id > Low' => count'[id] = 0 /\ id \notin taken'
    BY <1>0, <1>1, <1>3, <2>1 DEF Fresh
  <2>3. \A x \in Pending : x <= Low'
    BY <1>0, <1>1, <1>b DEF Fresh
  <2>4. \A i \in 1..Len(drawn) : drawn[i] <= Low'
    BY <1>0, <1>1, <1>b DEF Fresh
  <2>5. f.id <= Low'
    BY <1>1
  <2> QED
    BY <1>1, <1>8, <2>2, <2>3, <2>4, <2>5 DEF Fresh
<1>12. Queued'
  <2>1. \A e \in Start : Runs(decoder'[e].jobs, count')
    BY <1>0, <1>5, <1>6 DEF Queued
  <2>2. \A e \in Start : f.id \notin Jobs(e)
    BY <1>1 DEF Pending
  <2>3. \A e, g \in Start : e # g => Jobs(e)' \cap Jobs(g)' = {}
    <3> TAKE e, g \in Start
    <3>1. e # g => Jobs(e) \cap Jobs(g) = {}
      BY <1>0 DEF Queued
    <3>2. CASE e = d
      BY <1>7, <2>2, <3>1, <3>2
    <3>3. CASE g = d
      BY <1>7, <2>2, <3>1, <3>3
    <3>4. CASE e # d /\ g # d
      BY <1>7, <3>1, <3>4
    <3> QED
      BY <3>2, <3>3, <3>4
  <2> QED
    BY <2>1, <2>3 DEF Queued
<1>13. ASSUME ~overlap PROVE Single' /\ SinceStart' /\ Forward'
  <2>1. Single /\ SinceStart /\ Forward
    BY <1>13 DEF VideoInv
  <2>2. Single'
    BY <1>2, <1>6, <1>7, <2>1 DEF Single
  <2>3. Forward'
    BY <1>1, <1>8, <2>1 DEF Forward
  <2>4. SinceStart'
    <3>1. taken' \ Pending' = taken \ Pending
      BY <1>1, <1>3, <1>8
    <3> QED
      BY <1>3, <1>8, <2>1, <3>1 DEF SinceStart
  <2> QED
    BY <2>2, <2>3, <2>4
<1> QED
  BY <1>1, <1>9, <1>10, <1>11, <1>12, <1>13 DEF VideoInv

(* The worker answers for a packet; the last answer for a message          *)
(* acknowledges it and draws it.                                           *)
LEMMA ProcessedStep ==
  ASSUME VideoInv, NEW d \in Start, FrameProcessed(d)
  PROVE  VideoInv'
<1> DEFINE q == decoder[d].jobs
           f == Head(q)
           c == count[f.id] + 1
           times == IF c = f.n THEN 1 ELSE 0
           ok == f.key \/ decoder[d].reference
<1>0. TypeOK /\ Numbered /\ Fresh /\ Queued /\ Earned
  BY DEF VideoInv
<1>b. /\ Low \in Nat /\ Low <= MaxFrames /\ acks \in Nat /\ acked \in Nat /\ count \in [Id -> Nat]
      /\ \A e \in Start : decoder[e] \in Decoder /\ decoder[e].jobs \in Seq(Frame) /\ Jobs(e) \subseteq Id
      /\ \A i \in 1..Len(drawn) : drawn[i] \in Nat
      /\ Pending \subseteq Id /\ Id \subseteq Nat /\ Len(drawn) \in Nat
  BY <1>0, Basics
<1>1. /\ q # <<>>
      /\ decoder' = [decoder EXCEPT ![d].jobs = Tail(@), ![d].reference = @ \/ f.key]
      /\ count' = [count EXCEPT ![f.id] = c]
      /\ SendVideoReceived(times)
      /\ drawn' = IF c = f.n /\ ok THEN Append(drawn, f.id) ELSE drawn
      /\ UNCHANGED <<starts, up, videoDecoder, firstFrame, wire, host, taken, dropped, overlap>>
  BY DEF FrameProcessed, Answered, Complete
<1>2. q \in Seq(Frame) /\ Runs(q, count) /\ Jobs(d) = Ids(q)
  BY <1>0, <1>b DEF Queued, Jobs
<1> HIDE DEF q
<1>3. /\ f \in Frame /\ f.id \in Ids(q)
      /\ c <= f.n
      /\ Runs(Tail(q), count')
      /\ Ids(q) = Ids(Tail(q)) \cup {f.id}
      /\ \A x \in Ids(Tail(q)) : f.id <= x
      /\ c = f.n => f.id \notin Ids(Tail(q))
  BY <1>1, <1>2, <1>b, RunsTail
<1>4. Tail(q) \in Seq(Frame)
  BY <1>1, <1>2
<1>5. f.id \in Id /\ f.id \in Nat /\ f.n \in 1..MaxPackets /\ f.key \in BOOLEAN /\ count[f.id] \in Nat
  BY <1>3, <1>b DEF Frame
<1>6. f.id \in Jobs(d) /\ f.id \in Pending /\ f.id <= Low
  BY <1>0, <1>2, <1>3 DEF Pending, Fresh
<1>t. times \in {0, 1}
  OBVIOUS
<1>7. acks' \in Nat /\ acked' \in Nat /\ acks' <= acked' /\ acked' <= acked + times
  <2> HIDE DEF times
  <2> QED
    BY <1>0, <1>1, <1>t, SentOnce
<1>c. /\ c \in 0..MaxPackets /\ count' \in [Id -> 0..MaxPackets]
      /\ \A x \in Id : x # f.id => count'[x] = count[x]
  <2>1. c \in 0..MaxPackets
    BY <1>3, <1>5, RdVideoAssumption
  <2>2. count \in [Id -> 0..MaxPackets]
    BY <1>0 DEF TypeOK
  <2> HIDE DEF c, f
  <2> QED
    BY <1>1, <1>5, <2>1, <2>2
<1>8. /\ decoder' \in [Start -> Decoder]
      /\ \A e \in Start : /\ e # d => decoder'[e] = decoder[e]
                          /\ decoder'[e].phase = decoder[e].phase /\ decoder'[e].old = decoder[e].old
      /\ decoder'[d].jobs = Tail(q)
  <2> DEFINE R == decoder[d].reference \/ f.key
             N == [decoder[d] EXCEPT !.jobs = Tail(q), !.reference = R]
  <2>1. decoder' = [decoder EXCEPT ![d] = N]
    BY <1>1 DEF q
  <2>2. decoder[d] \in Decoder /\ decoder[d].reference \in BOOLEAN
    BY <1>b DEF Decoder
  <2>3. R \in BOOLEAN
    BY <1>5, <2>2
  <2> HIDE DEF R, f
  <2>4. N \in Decoder /\ N.jobs = Tail(q) /\ N.phase = decoder[d].phase /\ N.old = decoder[d].old
    BY <1>4, <2>2, <2>3 DEF Decoder
  <2>5. decoder \in [Start -> Decoder]
    BY <1>0 DEF TypeOK
  <2> HIDE DEF N
  <2> QED
    BY <2>1, <2>4, <2>5
<1> HIDE DEF f, c, times, ok
<1>9. /\ Jobs(d)' = Ids(Tail(q)) /\ Jobs(d)' \subseteq Jobs(d)
      /\ \A e \in Start : e # d => Jobs(e)' = Jobs(e) /\ f.id \notin Jobs(e)
  <2>1. \A e \in Start : e # d => Jobs(d) \cap Jobs(e) = {}
    BY <1>0 DEF Queued
  <2> QED
    BY <1>2, <1>3, <1>6, <1>8, <2>1 DEF Jobs
<1>10. /\ Pending' \subseteq Pending
       /\ c = f.n => f.id \notin Pending'
       /\ \A x \in Pending : x \in Pending' \/ x = f.id
  <2>1. \A e \in Start : Jobs(e)' \subseteq Jobs(e)
    BY <1>9
  <2>2. ASSUME c = f.n, NEW e \in Start PROVE f.id \notin Jobs(e)'
    BY <1>3, <1>9, <2>2
  <2>3. ASSUME NEW e \in Start, NEW x \in Jobs(e) PROVE x \in Jobs(e)' \/ x = f.id
    BY <1>2, <1>3, <1>9, <2>3
  <2> QED
    BY <2>1, <2>2, <2>3 DEF Pending
<1>11. Low' = Low /\ Numbered'
  BY <1>0, <1>1 DEF Low, Numbered
<1>12. Earned'
  <2>1. Past \subseteq Past' /\ (c = f.n => f.id \in Past' \ Past)
    <3>1. f.id \in 1..Low
      BY <1>5, <1>6, <1>b DEF Id
    <3> QED
      BY <1>6, <1>10, <1>11, <3>1 DEF Past
  <2>2. IsFiniteSet(Past')
    BY <1>11, <1>b, PastCard DEF Past
  <2>3. /\ Cardinality(Past) \in Nat /\ Cardinality(Past') \in Nat
        /\ Cardinality(Past) <= Cardinality(Past')
        /\ c = f.n => Cardinality(Past) + 1 <= Cardinality(Past')
    BY <2>1, <2>2, CardGrows
  <2>4. acked <= Cardinality(Past)
    BY <1>0 DEF Earned
  <2>5. acked' <= Cardinality(Past')
    <3>1. CASE c = f.n
      <4>1. times = 1
        BY <3>1 DEF times
      <4> QED
        BY <1>7, <1>b, <2>3, <2>4, <3>1, <4>1
    <3>2. CASE c # f.n
      <4>1. times = 0
        BY <3>2 DEF times
      <4> QED
        BY <1>7, <1>b, <2>3, <2>4, <4>1
    <3> QED
      BY <3>1, <3>2
  <2> QED
    BY <1>7, <2>5 DEF Earned
<1>d. /\ drawn' \in Seq(Id)
      /\ \/ drawn' = drawn
         \/ /\ c = f.n /\ Len(drawn') = Len(drawn) + 1 /\ drawn'[Len(drawn) + 1] = f.id
            /\ \A i \in 1..Len(drawn) : drawn'[i] = drawn[i]
  <2>1. drawn \in Seq(Id)
    BY <1>0 DEF TypeOK
  <2>2. CASE c = f.n /\ ok
    <3>1. drawn' = Append(drawn, f.id)
      BY <1>1, <2>2
    <3> QED
      BY <1>5, <2>1, <2>2, <3>1
  <2>3. CASE ~(c = f.n /\ ok)
    BY <1>1, <2>1, <2>3
  <2> QED
    BY <2>2, <2>3
<1>13. TypeOK'
  <2>1. acks' \in 0..MaxFrames /\ acked' \in 0..MaxFrames
    <3>1. Cardinality(Past') \in Nat /\ Cardinality(Past') <= MaxFrames
      BY <1>11, <1>b, PastCard DEF Past
    <3>2. acked' <= Cardinality(Past')
      BY <1>12 DEF Earned
    <3> QED
      BY <1>7, <3>1, <3>2, RdVideoAssumption
  <2> QED
    BY <1>0, <1>1, <1>8, <1>c, <1>d, <2>1 DEF TypeOK
<1>14. Fresh'
  <2>1. \A id \in Id : id > Low => id # f.id
    BY <1>5, <1>6, <1>b DEF Id
  <2>2. \A id \in Id : id > Low => count'[id] = 0 /\ id \notin taken
    BY <1>0, <1>c, <2>1 DEF Fresh
  <2>3. \A i \in 1..Len(drawn') : drawn'[i] <= Low
    <3>1. \A i \in 1..Len(drawn) : drawn[i] <= Low
      BY <1>0 DEF Fresh
    <3>2. CASE drawn' = drawn
      BY <3>1, <3>2
    <3>3. CASE /\ Len(drawn') = Len(drawn) + 1 /\ drawn'[Len(drawn) + 1] = f.id
               /\ \A i \in 1..Len(drawn) : drawn'[i] = drawn[i]
      <4> TAKE i \in 1..Len(drawn')
      <4>1. i \in 1..Len(drawn) \/ i = Len(drawn) + 1
        BY <1>b, <3>3
      <4> QED
        BY <1>6, <3>1, <3>3, <4>1
    <3> QED
      BY <1>d, <3>2, <3>3
  <2> QED
    BY <1>0, <1>1, <1>10, <1>11, <2>2, <2>3 DEF Fresh
<1>15. Queued'
  <2>1. ASSUME NEW e \in Start PROVE Runs(decoder'[e].jobs, count')
    <3>1. CASE e = d
      BY <1>3, <1>8, <3>1
    <3>2. CASE e # d
      <4>1. \A x \in Ids(decoder[e].jobs) : count'[x] = count[x]
        BY <1>9, <1>b, <1>c, <3>2 DEF Jobs
      <4>2. Runs(decoder[e].jobs, count) /\ decoder[e].jobs \in Seq(Frame)
        BY <1>0, <1>b DEF Queued
      <4>3. Runs(decoder[e].jobs, count')
        BY <4>1, <4>2, RunsOther
      <4> QED
        BY <1>8, <3>2, <4>3
    <3> QED
      BY <3>1, <3>2
  <2>2. \A e \in Start : Jobs(e)' \subseteq Jobs(e)
    BY <1>9
  <2>3. \A e, g \in Start : e # g => Jobs(e)' \cap Jobs(g)' = {}
    BY <1>0, <2>2 DEF Queued
  <2> QED
    BY <2>1, <2>3 DEF Queued
<1>16. ASSUME ~overlap PROVE Single' /\ SinceStart' /\ Forward'
  <2>1. Single /\ SinceStart /\ Forward
    BY <1>16 DEF VideoInv
  <2>2. Single'
    <3>1. \A e \in Start : Jobs(e)' \subseteq Jobs(e)
      BY <1>9
    <3> QED
      BY <1>1, <1>8, <2>1, <3>1 DEF Single
  <2>3. SinceStart'
    <3>1. IsFiniteSet(taken)
      BY <1>0, TakenFinite DEF TypeOK
    <3>2. /\ taken \ Pending \subseteq taken \ Pending' /\ IsFiniteSet(taken \ Pending')
          /\ c = f.n => f.id \in (taken \ Pending') \ (taken \ Pending)
      BY <1>6, <1>10, <2>1, <3>1, FS_Subset DEF SinceStart
    <3>3. /\ Cardinality(taken \ Pending) \in Nat /\ Cardinality(taken \ Pending') \in Nat
          /\ Cardinality(taken \ Pending) <= Cardinality(taken \ Pending')
          /\ c = f.n => Cardinality(taken \ Pending) + 1 <= Cardinality(taken \ Pending')
      BY <3>2, CardGrows
    <3>4. acked <= Cardinality(taken \ Pending) /\ Pending' \subseteq taken
      BY <1>10, <2>1 DEF SinceStart
    <3>5. acked' <= Cardinality(taken \ Pending')
      <4>1. CASE c = f.n
        <5>1. times = 1
          BY <4>1 DEF times
        <5> QED
          BY <1>7, <1>b, <3>3, <3>4, <4>1, <5>1
      <4>2. CASE c # f.n
        <5>1. times = 0
          BY <4>2 DEF times
        <5> QED
          BY <1>7, <1>b, <3>3, <3>4, <5>1
      <4> QED
        BY <4>1, <4>2
    <3> QED
      BY <1>1, <3>4, <3>5 DEF SinceStart
  <2>4. ASSUME c = f.n, NEW x \in Pending' PROVE f.id < x
    <3>1. PICK e \in Start : x \in Jobs(e)'
      BY <2>4 DEF Pending
    <3>2. e = d
      BY <1>6, <1>9, <2>1, <3>1 DEF Single
    <3>3. f.id <= x /\ x # f.id
      BY <1>3, <1>9, <2>4, <3>1, <3>2
    <3>4. x \in Nat
      BY <1>10, <1>b
    <3> QED
      BY <1>5, <3>3, <3>4
  <2>5. Forward'
    <3>1. /\ \A i, j \in 1..Len(drawn) : i < j => drawn[i] < drawn[j]
          /\ \A i \in 1..Len(drawn) : \A x \in Pending : drawn[i] < x
      BY <2>1 DEF Forward
    <3>2. CASE drawn' = drawn
      BY <1>10, <3>1, <3>2 DEF Forward
    <3>3. CASE /\ c = f.n /\ Len(drawn') = Len(drawn) + 1 /\ drawn'[Len(drawn) + 1] = f.id
               /\ \A i \in 1..Len(drawn) : drawn'[i] = drawn[i]
      <4>1. \A i \in 1..Len(drawn') : i \in 1..Len(drawn) \/ i = Len(drawn) + 1
        BY <1>b, <3>3
      <4>2. ASSUME NEW i \in 1..Len(drawn'), NEW j \in 1..Len(drawn'), i < j
            PROVE  drawn'[i] < drawn'[j]
        <5>1. i \in 1..Len(drawn)
          BY <1>b, <3>3, <4>2
        <5>2. CASE j \in 1..Len(drawn)
          BY <3>1, <3>3, <4>2, <5>1, <5>2
        <5>3. CASE j = Len(drawn) + 1
          BY <1>6, <3>1, <3>3, <5>1, <5>3
        <5> QED
          BY <4>1, <5>2, <5>3
      <4>3. ASSUME NEW i \in 1..Len(drawn'), NEW x \in Pending' PROVE drawn'[i] < x
        <5>1. CASE i \in 1..Len(drawn)
          BY <1>10, <3>1, <3>3, <5>1
        <5>2. CASE i = Len(drawn) + 1
          BY <2>4, <3>3, <5>2
        <5> QED
          BY <4>1, <5>1, <5>2
      <4> QED
        BY <4>2, <4>3 DEF Forward
    <3> QED
      BY <1>d, <3>2, <3>3
  <2> QED
    BY <2>2, <2>3, <2>5
<1> QED
  BY <1>1, <1>11, <1>12, <1>13, <1>14, <1>15, <1>16 DEF VideoInv

(* Every step keeps the inductive invariant. *)
LEMMA VideoStep == VideoInv /\ [Next]_vars => VideoInv'
<1> SUFFICES ASSUME VideoInv, [Next]_vars PROVE VideoInv'
  OBVIOUS
<1>1. ASSUME NEW d \in Start, DecoderLoaded(d) PROVE VideoInv'
  BY <1>1, LoadedStep
<1>2. ASSUME NEW d \in Start, FrameProcessed(d) PROVE VideoInv'
  BY <1>2, ProcessedStep
<1>3. ASSUME NEW n \in 1..MaxPackets, HostSends(n) PROVE VideoInv'
  BY <1>3, HostSendsStep
<1>4. CASE HandleVideoFrame
  <2>1. /\ wire # <<>> /\ wire' = Tail(wire) /\ firstFrame' = TRUE
        /\ taken' = taken \cup {Head(wire).id}
        /\ UNCHANGED <<starts, up, videoDecoder, host, drawn, overlap>>
    BY <1>4 DEF HandleVideoFrame
  <2>2. CASE /\ decoder' = decoder /\ dropped' = dropped \cup {Head(wire).id}
             /\ \/ UNCHANGED <<count, acks, acked>>
                \/ /\ count' = [count EXCEPT ![Head(wire).id] = Head(wire).n]
                   /\ SendVideoReceived(1)
    BY <2>1, <2>2, PassedStep
  <2>3. CASE /\ videoDecoder # 0 /\ UNCHANGED <<count, acks, acked, dropped>>
             /\ decoder' = [decoder EXCEPT ![videoDecoder].jobs =
                              @ \o [i \in 1..Head(wire).n |-> Head(wire)]]
    BY <2>1, <2>3, HandedStep
  <2> QED
    BY <1>4, <2>2, <2>3 DEF HandleVideoFrame
<1>7. CASE Connected
  BY <1>7, ConnectedStep
<1>5. CASE Refresh \/ HostFetched \/ HostTimeout \/ UNCHANGED vars
  BY <1>5, IdleStep
<1>6. CASE Restart
  BY <1>6, RestartStep
<1> QED
  BY <1>1, <1>2, <1>3, <1>4, <1>5, <1>6, <1>7 DEF Next, Decoding, HostSteps

(* The host is never told of more messages than the viewer took since this *)
(* connection began, those left in the old socket's buffer included,       *)
(* whatever the number of restarts, messages and packets: the count in     *)
(* handleVideoFrame acknowledges each message once, and a closed decoder   *)
(* answers no more.                                                        *)
THEOREM AcksAlwaysEarned == Spec => []AcksAreEarned
<1>1. VideoInv => AcksAreEarned
  <2> SUFFICES ASSUME VideoInv PROVE AcksAreEarned
    OBVIOUS
  <2>1. TypeOK /\ IsFiniteSet(taken)
    BY TakenFinite DEF VideoInv, TypeOK
  <2>2. ASSUME ~overlap PROVE acked <= Cardinality(taken)
    <3>1. /\ Cardinality(taken \ Pending) \in Nat /\ Cardinality(taken) \in Nat
          /\ Cardinality(taken \ Pending) <= Cardinality(taken)
      BY <2>1, CardGrows
    <3>2. acked <= Cardinality(taken \ Pending) /\ acked \in Nat
      BY <2>1, <2>2, Basics DEF VideoInv, SinceStart
    <3> QED
      BY <3>1, <3>2
  <2> QED
    BY <2>1, <2>2 DEF AcksAreEarned
<1> QED
  BY <1>1, VideoInit, VideoStep, PTL DEF Spec

(* The picture never goes back: messages are drawn in the order they were  *)
(* sent and once each, although handleVideoFrame draws from a callback of  *)
(* a worker, for any number of restarts, messages and packets.             *)
THEOREM AlwaysDrawnInOrder == Spec => []DrawnInOrder
<1>1. VideoInv => DrawnInOrder
  <2> SUFFICES ASSUME VideoInv, ~overlap
               PROVE  \A i, j \in DOMAIN drawn : i < j => drawn[i] < drawn[j]
    BY DEF DrawnInOrder
  <2>1. DOMAIN drawn = 1..Len(drawn)
    BY DEF VideoInv, TypeOK
  <2> QED
    BY <2>1 DEF VideoInv, Forward
<1> QED
  BY <1>1, VideoInit, VideoStep, PTL DEF Spec

============================================================================
