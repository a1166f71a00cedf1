--------------------------- MODULE FtUploadProofs ---------------------------
(***************************************************************************)
(* Proofs about uploads: a file of a job the host closed is whole, no      *)
(* block travels for a file the host did not ask for, and a cancelled job  *)
(* stops, for any number of jobs, files and blocks.                        *)
(*                                                                         *)
(* The argument: of each job at most one thing is under way, its token (a  *)
(* digest or Done on the way to the host, the host's answer, or the pump), *)
(* and the blocks of a file that are under way continue those the host has *)
(* got, up to where the job has read.                                      *)
(*                                                                         *)
(* What is said of the contents of the queues is said of sets of messages: *)
(* T of those sent to the host, M of those still in _msgs, B of those on   *)
(* the way back.  J is the job of the pump, N and O the current files and  *)
(* offsets, H the host and L the link.                                     *)
(***************************************************************************)
EXTENDS FtUpload, FiniteSetTheorems, TLAPS

Ask == {"digest", "done"}               \* tokens on the way to the host
Answer == {"confirm", "skip", "ask"}    \* tokens on the way back
Content == {"digest", "block", "done"}  \* what the host needs the job for
Neutral == {"cancel", "confirm", "skip"}  \* what is sent past the queue

(* The message n may follow m: a token is the last message about its job,  *)
(* a job is announced first, and the blocks of a file are in order.        *)
InLine(m, n) ==
  m.file[1] = n.file[1] =>
    /\ m.kind \in Ask => n.kind \notin Content
    /\ n.kind = "receive" => m.kind \notin Content
    /\ m.kind = "block" /\ n.kind = "block" /\ m.file = n.file => m.blk < n.blk

Sorted(q) == \A i, k \in 1..Len(q) : i < k => InLine(q[i], q[k])

(* One answer at most is on its way back for each job. *)
Sole(q) ==
  \A i, k \in 1..Len(q) :
    i < k /\ q[i].file[1] = q[k].file[1] /\ q[i].kind \in Answer => q[k].kind \notin Answer

-----------------------------------------------------------------------------
Across(T, M) == \A m \in T, n \in M : InLine(m, n)

(* A token is about the current file of its job, and there is no other one. *)
Tokens(U, B, J, N) ==
  /\ \A m \in U : m.kind \in Ask => m.file[1] # J /\ m.file[2] = N[m.file[1]]
  /\ \A n \in B : n.kind \in Answer => n.file[1] # J /\ n.file[2] = N[n.file[1]]
  /\ \A m \in U, n \in B : m.kind \in Ask /\ n.kind \in Answer => m.file[1] # n.file[1]

(* Reading of a file starts with its confirmation and ends with the file. *)
Offsets(U, B, J, N, O) ==
  /\ \A m \in U : m.kind = "digest" => O[m.file[1]] = 0
  /\ \A n \in B : n.kind \in Answer => O[n.file[1]] = 0
  /\ J \in Job => O[J] <= Size(<<J, N[J]>>)

(* The host's answers are about what it recorded. *)
Answered(B, J, N, H) ==
  /\ \A n \in B : /\ n.kind = "confirm" => n.file \in H.confirmed /\ n.blk <= Size(n.file)
                  /\ n.kind = "skip" => n.file \in H.skipped
  /\ J \in Job => <<J, N[J]>> \in H.confirmed

(* Blocks under way are of confirmed files, and were read. *)
Blocks(U, N, O, H) ==
  \A m \in U : m.kind = "block" =>
    /\ m.file \in H.confirmed
    /\ m.file[2] <= N[m.file[1]]
    /\ m.file[2] = N[m.file[1]] => m.blk \in 1..O[m.file[1]]

Exempt(f, H) == f \in H.skipped \/ f \in H.failed

(* The host's copy of f and the blocks under way are the first z blocks. *)
Fill(U, H, f, z) ==
  \E a \in Nat :
    /\ a <= z
    /\ H.got[f] = Prefix(a)
    /\ \A b \in Nat : Msg("block", f, b) \in U <=> a < b /\ b <= z

Covered(U, H, f, z) == Exempt(f, H) \/ Fill(U, H, f, z)

(* The host works on the job, or will. *)
Alive(U, H, j) ==
  j \in H.writeJobs \/ \E m \in U : m.kind = "receive" /\ m.file[1] = j

(* Of a job the host works on: when Done is on its way, so is the rest of  *)
(* every file; otherwise the files before the current one are on their way *)
(* and the current one as far as it was read or is to be read.  What is    *)
(* still in _msgs counts while the link is open.                           *)
SentFile(T, U, B, J, N, O, H, L, f) ==
  /\ \A m \in U : m.kind = "done" /\ m.file[1] = f[1] /\ (L = "open" \/ m \in T) =>
       Covered(U, H, f, Size(f))
  /\ L = "open" =>
       /\ f[2] < N[f[1]] => Covered(U, H, f, Size(f))
       /\ J = f[1] /\ f[2] = N[f[1]] => Covered(U, H, f, O[f[1]])
       /\ \A n \in B : n.kind = "confirm" /\ n.file = f => Covered(U, H, f, n.blk)

Sent(T, U, B, J, N, O, H, L) ==
  \A f \in File : Alive(U, H, f[1]) => SentFile(T, U, B, J, N, O, H, L, f)

(* A job the host closed is closed for good, and its files are whole. *)
Closed(U, H) ==
  /\ \A j \in H.done : ~Alive(U, H, j)
  /\ \A f \in File : f[1] \in H.done => Exempt(f, H) \/ H.got[f] = Prefix(Size(f))

Flow(T, M, B, J, N, O, H, L) ==
  /\ Across(T, M)
  /\ Tokens(T \cup M, B, J, N)
  /\ Offsets(T \cup M, B, J, N, O)
  /\ Answered(B, J, N, H)
  /\ Blocks(T \cup M, N, O, H)
  /\ Sent(T, T \cup M, B, J, N, O, H, L)
  /\ Closed(T \cup M, H)

(* Nothing is under way of a job that was not started. *)
Begun(U, B, J, N, O, H, S) ==
  /\ \A m \in U \cup B : m.file[1] \in S
  /\ J \in Job => J \in S
  /\ H.done \subseteq S
  /\ H.writeJobs \subseteq S
  /\ \A j \in Job \ S : N[j] = 1 /\ O[j] = 0

-----------------------------------------------------------------------------
(* The queues are in order, and a lost link carries nothing. *)
Queues ==
  /\ Sorted(toHost) /\ Sorted(msgs) /\ Sole(toWeb)
  /\ link = "down" => toHost = << >>

Flows ==
  Flow(ToSet(toHost), ToSet(msgs), ToSet(toWeb), loop.job, web.fileNum, web.offset, host, link)

Beginnings ==
  /\ Begun(ToSet(toHost) \cup ToSet(msgs), ToSet(toWeb), loop.job, web.fileNum, web.offset,
           host, web.started)
  /\ web.readJobs \subseteq web.started /\ web.asked \subseteq web.started
  /\ IsFiniteSet(web.readJobs)

(* The pump has something left to read. *)
Reading == loop.job \in Job => web.offset[loop.job] < Size(Current(web, loop.job))

(* A job without entry has at most one block to come: the one being read. *)
Stops ==
  \A j \in Job :
    /\ web.late[j] <= 1
    /\ loop.job = j /\ loop.stage = "read" => web.late[j] = 0
    /\ j \in web.readJobs \/ j \notin web.started => web.late[j] = 0

UploadInv == TypeOK /\ Queues /\ Flows /\ Beginnings /\ Reading /\ Stops

-----------------------------------------------------------------------------
(* Messages, files and queues. *)

(* A file is a pair of a job and a number, and its size is a number. *)
LEMMA FileShape ==
  ASSUME NEW f \in File
  PROVE /\ f = <<f[1], f[2]>> /\ f[1] \in Job /\ f[2] \in 1..Len(Files[f[1]]) /\ f[2] \in Nat \ {0}
        /\ Size(f) \in Nat
<1>1. PICK j \in Job : f \in {j} \X (1..Len(Files[j]))
  BY DEF File
<1>2. f = <<f[1], f[2]>> /\ f[1] = j /\ f[2] \in 1..Len(Files[j])
  BY <1>1
<1>3. Files[j] \in Seq(Nat)
  BY FtUploadAssumption
<1>4. Files[j][f[2]] \in Nat /\ Len(Files[j]) \in Nat
  BY <1>2, <1>3
<1> QED
  BY <1>2, <1>4 DEF Size

(* A number of a file of the job, with the job, is a file. *)
LEMMA FileMade ==
  ASSUME NEW j \in Job, NEW n \in Nat \ {0}, n <= Len(Files[j])
  PROVE <<j, n>> \in File
<1>1. Len(Files[j]) \in Nat
  BY FtUploadAssumption
<1>2. <<j, n>> \in {j} \X (1..Len(Files[j]))
  BY <1>1
<1> QED
  BY <1>2 DEF File

(* Every job has a first file. *)
LEMMA FirstFile ==
  ASSUME NEW j \in Job
  PROVE <<j, 1>> \in File
<1>1. Files[j] \in Seq(Nat) /\ Files[j] # << >>
  BY FtUploadAssumption
<1>2. 1 <= Len(Files[j])
  BY <1>1
<1> QED
  BY <1>2, FileMade

(* A message has its fields, and its fields are all of it. *)
LEMMA MessageShape ==
  ASSUME NEW m \in Message
  PROVE /\ m.file \in File /\ m.blk \in Nat /\ m = Msg(m.kind, m.file, m.blk)
        /\ m.file[1] \in Job /\ m.file[2] \in Nat \ {0}
        /\ m.kind \in {"receive", "digest", "block", "done", "cancel", "confirm", "skip", "ask", "error"}
<1>1. m.file \in File /\ m.blk \in Nat /\ m = Msg(m.kind, m.file, m.blk)
      /\ m.kind \in {"receive", "digest", "block", "done", "cancel", "confirm", "skip", "ask", "error"}
  BY DEF Message, Msg
<1> QED
  BY <1>1, FileShape

(* What Msg makes is a message with these fields. *)
LEMMA MessageMade ==
  ASSUME NEW k \in {"receive", "digest", "block", "done", "cancel", "confirm", "skip", "ask", "error"},
         NEW f \in File, NEW b \in Nat
  PROVE /\ Msg(k, f, b) \in Message
        /\ Msg(k, f, b).kind = k /\ Msg(k, f, b).file = f /\ Msg(k, f, b).blk = b
BY DEF Message, Msg

(* Appending a block to the first ones. *)
LEMMA PrefixGrows ==
  ASSUME NEW a \in Nat
  PROVE /\ Prefix(a) \in Seq(Nat) /\ Append(Prefix(a), a + 1) = Prefix(a + 1)
<1>1. Prefix(a) \in Seq(Nat) /\ Len(Prefix(a)) = a
  BY DEF Prefix
<1>2. Prefix(a + 1) \in Seq(Nat) /\ Len(Prefix(a + 1)) = a + 1
  BY DEF Prefix
<1>3. Append(Prefix(a), a + 1) \in Seq(Nat) /\ Len(Append(Prefix(a), a + 1)) = a + 1
  BY <1>1
<1>4. \A i \in 1..(a + 1) : Append(Prefix(a), a + 1)[i] = Prefix(a + 1)[i]
  <2> TAKE i \in 1..(a + 1)
  <2>1. CASE i <= a
    <3>1. Append(Prefix(a), a + 1)[i] = Prefix(a)[i] /\ i \in 1..a
      BY <1>1, <2>1
    <3> QED
      BY <3>1 DEF Prefix
  <2>2. CASE i = a + 1
    <3>1. Append(Prefix(a), a + 1)[i] = a + 1
      BY <1>1, <2>2
    <3> QED
      BY <3>1, <2>2 DEF Prefix
  <2>3. i <= a \/ i = a + 1
    OBVIOUS
  <2> QED
    BY <2>1, <2>2, <2>3
<1> QED
  BY <1>1, <1>2, <1>3, <1>4

(* The messages of a queue are messages. *)
LEMMA SetOf ==
  ASSUME NEW q \in Seq(Message)
  PROVE /\ ToSet(q) \subseteq Message
        /\ ToSet(<< >>) = {}
        /\ \A i \in 1..Len(q) : q[i] \in ToSet(q)
<1>1. DOMAIN q = 1..Len(q) /\ \A i \in 1..Len(q) : q[i] \in Message
  OBVIOUS
<1>2. ToSet(<< >>) = {}
  BY DEF ToSet
<1>3. ASSUME NEW i \in 1..Len(q) PROVE q[i] \in ToSet(q)
  BY <1>1 DEF ToSet
<1>4. ToSet(q) \subseteq Message
  BY <1>1 DEF ToSet
<1> QED
  BY <1>2, <1>3, <1>4

(* Each has its place. *)
LEMMA PlaceOf ==
  ASSUME NEW q \in Seq(Message), NEW m \in ToSet(q)
  PROVE \E i \in 1..Len(q) : m = q[i]
<1>1. DOMAIN q = 1..Len(q)
  OBVIOUS
<1> QED
  BY <1>1 DEF ToSet

(* The messages of two queues in a row. *)
LEMMA SetOfBoth ==
  ASSUME NEW q \in Seq(Message), NEW r \in Seq(Message)
  PROVE q \o r \in Seq(Message) /\ ToSet(q \o r) = ToSet(q) \cup ToSet(r)
<1>1. q \o r \in Seq(Message) /\ Len(q \o r) = Len(q) + Len(r) /\ Len(q) \in Nat /\ Len(r) \in Nat
      /\ \A i \in 1..(Len(q) + Len(r)) : (q \o r)[i] = IF i <= Len(q) THEN q[i] ELSE r[i - Len(q)]
  OBVIOUS
<1>2. ASSUME NEW m \in ToSet(q \o r) PROVE m \in ToSet(q) \cup ToSet(r)
  <2>1. PICK i \in 1..(Len(q) + Len(r)) : m = (q \o r)[i]
    BY <1>1, <1>2, PlaceOf
  <2>2. CASE i <= Len(q)
    <3>1. i \in 1..Len(q) /\ m = q[i]
      BY <1>1, <2>1, <2>2
    <3> QED
      BY <3>1, SetOf
  <2>3. CASE ~(i <= Len(q))
    <3>1. i - Len(q) \in 1..Len(r) /\ m = r[i - Len(q)]
      BY <1>1, <2>1, <2>3
    <3> QED
      BY <3>1, SetOf
  <2> QED
    BY <2>2, <2>3
<1>3. ASSUME NEW m \in ToSet(q) PROVE m \in ToSet(q \o r)
  <2>1. PICK i \in 1..Len(q) : m = q[i]
    BY <1>3, PlaceOf
  <2>2. i \in 1..Len(q \o r) /\ m = (q \o r)[i]
    BY <1>1, <2>1
  <2> QED
    BY <1>1, <2>2, SetOf
<1>4. ASSUME NEW m \in ToSet(r) PROVE m \in ToSet(q \o r)
  <2>1. PICK i \in 1..Len(r) : m = r[i]
    BY <1>4, PlaceOf
  <2>2. Len(q) + i \in 1..Len(q \o r) /\ m = (q \o r)[Len(q) + i]
    BY <1>1, <2>1
  <2> QED
    BY <1>1, <2>2, SetOf
<1> QED
  BY <1>1, <1>2, <1>3, <1>4

(* The messages of a queue and one more. *)
LEMMA SetOfMore ==
  ASSUME NEW q \in Seq(Message), NEW m \in Message
  PROVE /\ Append(q, m) \in Seq(Message) /\ ToSet(Append(q, m)) = ToSet(q) \cup {m}
        /\ Append(q, m) = q \o <<m>>
<1>1. <<m>> \in Seq(Message) /\ Append(q, m) = q \o <<m>> /\ Len(<<m>>) = 1 /\ <<m>>[1] = m
  OBVIOUS
<1>2. ToSet(<<m>>) = {m}
  BY DEF ToSet
<1> QED
  BY <1>1, <1>2, SetOfBoth

(* The messages behind the first one. *)
LEMMA SetOfTail ==
  ASSUME NEW q \in Seq(Message), q # << >>
  PROVE /\ Head(q) \in Message /\ Head(q) \in ToSet(q)
        /\ Tail(q) \in Seq(Message) /\ ToSet(q) = {Head(q)} \cup ToSet(Tail(q))
<1>1. /\ Head(q) \in Message /\ Head(q) = q[1] /\ Tail(q) \in Seq(Message)
      /\ Len(q) \in Nat /\ Len(q) >= 1 /\ Len(Tail(q)) = Len(q) - 1
      /\ \A i \in 1..Len(Tail(q)) : Tail(q)[i] = q[i + 1]
  OBVIOUS
<1>2. Head(q) \in ToSet(q)
  <2>1. 1 \in 1..Len(q)
    BY <1>1
  <2> QED
    BY <1>1, <2>1, SetOf
<1>3. ASSUME NEW m \in ToSet(q), m # Head(q) PROVE m \in ToSet(Tail(q))
  <2>1. PICK i \in 1..Len(q) : m = q[i]
    BY PlaceOf
  <2>2. i # 1 /\ i - 1 \in 1..Len(Tail(q))
    BY <1>1, <1>3, <2>1
  <2>3. m = Tail(q)[i - 1]
    BY <1>1, <2>1, <2>2
  <2> QED
    BY <1>1, <2>2, <2>3, SetOf
<1>4. ASSUME NEW m \in ToSet(Tail(q)) PROVE m \in ToSet(q)
  <2>1. PICK i \in 1..Len(Tail(q)) : m = Tail(q)[i]
    BY <1>1, PlaceOf
  <2>2. i + 1 \in 1..Len(q) /\ m = q[i + 1]
    BY <1>1, <2>1
  <2> QED
    BY <2>2, SetOf
<1> QED
  BY <1>1, <1>2, <1>3, <1>4

(* The messages of the beginning of a queue. *)
LEMMA SetOfStart ==
  ASSUME NEW q \in Seq(Message), NEW n \in 0..Len(q)
  PROVE /\ SubSeq(q, 1, n) \in Seq(Message) /\ ToSet(SubSeq(q, 1, n)) \subseteq ToSet(q)
        /\ Sole(q) => Sole(SubSeq(q, 1, n))
<1>1. /\ SubSeq(q, 1, n) \in Seq(Message) /\ Len(SubSeq(q, 1, n)) = n /\ Len(q) \in Nat
      /\ \A i \in 1..n : SubSeq(q, 1, n)[i] = q[i]
  OBVIOUS
<1>2. ASSUME NEW m \in ToSet(SubSeq(q, 1, n)) PROVE m \in ToSet(q)
  <2>1. PICK i \in 1..Len(SubSeq(q, 1, n)) : m = SubSeq(q, 1, n)[i]
    BY <1>1, PlaceOf
  <2>2. i \in 1..Len(q) /\ m = q[i]
    BY <1>1, <2>1
  <2> QED
    BY <2>2, SetOf
<1>3. ASSUME Sole(q) PROVE Sole(SubSeq(q, 1, n))
  <2>1. 1..n \subseteq 1..Len(q)
    BY <1>1
  <2> QED
    BY <1>1, <1>3, <2>1 DEF Sole
<1> QED
  BY <1>1, <1>2, <1>3

(* Order, and the one answer, behind the first message; and what follows it. *)
LEMMA OrderOfTail ==
  ASSUME NEW q \in Seq(Message), q # << >>
  PROVE /\ Sorted(q) => Sorted(Tail(q)) /\ \A n \in ToSet(Tail(q)) : InLine(Head(q), n)
        /\ Sole(q) => /\ Sole(Tail(q))
                      /\ \A n \in ToSet(Tail(q)) :
                           Head(q).kind \in Answer /\ Head(q).file[1] = n.file[1] => n.kind \notin Answer
<1>1. /\ Head(q) = q[1] /\ Tail(q) \in Seq(Message)
      /\ Len(q) \in Nat /\ Len(q) >= 1 /\ Len(Tail(q)) = Len(q) - 1
      /\ \A i \in 1..Len(Tail(q)) : Tail(q)[i] = q[i + 1]
  OBVIOUS
<1>2. ASSUME NEW i \in 1..Len(Tail(q)) PROVE i + 1 \in 1..Len(q) /\ 1 < i + 1
  BY <1>1
<1>3. 1 \in 1..Len(q)
  BY <1>1
<1>4. ASSUME Sorted(q), NEW i \in 1..Len(Tail(q)), NEW k \in 1..Len(Tail(q)), i < k
      PROVE InLine(Tail(q)[i], Tail(q)[k])
  <2>1. i + 1 < k + 1
    BY <1>1, <1>4
  <2> QED
    BY <1>1, <1>2, <1>4, <2>1 DEF Sorted
<1>5. ASSUME Sorted(q), NEW n \in ToSet(Tail(q)) PROVE InLine(Head(q), n)
  <2>1. PICK i \in 1..Len(Tail(q)) : n = Tail(q)[i]
    BY <1>1, PlaceOf
  <2> QED
    BY <1>1, <1>2, <1>3, <1>5, <2>1 DEF Sorted
<1>6. ASSUME Sole(q) PROVE Sole(Tail(q))
  <2>1. ASSUME NEW i \in 1..Len(Tail(q)), NEW k \in 1..Len(Tail(q)), i < k
        PROVE i + 1 < k + 1
    BY <1>1, <2>1
  <2> QED
    BY <1>1, <1>2, <1>6, <2>1 DEF Sole
<1>7. ASSUME Sole(q), NEW n \in ToSet(Tail(q)), Head(q).kind \in Answer, Head(q).file[1] = n.file[1]
      PROVE n.kind \notin Answer
  <2>1. PICK i \in 1..Len(Tail(q)) : n = Tail(q)[i]
    BY <1>1, PlaceOf
  <2> QED
    BY <1>1, <1>2, <1>3, <1>7, <2>1 DEF Sole
<1>8. Sorted(q) => Sorted(Tail(q))
  BY <1>4 DEF Sorted
<1> QED
  BY <1>5, <1>6, <1>7, <1>8

(* Two ordered queues in a row, when the second may follow the first. *)
LEMMA OrderOfBoth ==
  ASSUME NEW q \in Seq(Message), NEW r \in Seq(Message), Sorted(q), Sorted(r), Across(ToSet(q), ToSet(r))
  PROVE Sorted(q \o r)
<1>1. /\ q \o r \in Seq(Message) /\ Len(q \o r) = Len(q) + Len(r) /\ Len(q) \in Nat /\ Len(r) \in Nat
      /\ \A i \in 1..(Len(q) + Len(r)) : (q \o r)[i] = IF i <= Len(q) THEN q[i] ELSE r[i - Len(q)]
  OBVIOUS
<1>2. SUFFICES ASSUME NEW i \in 1..(Len(q) + Len(r)), NEW k \in 1..(Len(q) + Len(r)), i < k
               PROVE InLine((q \o r)[i], (q \o r)[k])
  BY <1>1 DEF Sorted
<1>3. CASE k <= Len(q)
  <2>1. i \in 1..Len(q) /\ k \in 1..Len(q) /\ (q \o r)[i] = q[i] /\ (q \o r)[k] = q[k]
    BY <1>1, <1>2, <1>3
  <2> QED
    BY <1>2, <2>1 DEF Sorted
<1>4. CASE i <= Len(q) /\ ~(k <= Len(q))
  <2>1. i \in 1..Len(q) /\ k - Len(q) \in 1..Len(r) /\ (q \o r)[i] = q[i] /\ (q \o r)[k] = r[k - Len(q)]
    BY <1>1, <1>2, <1>4
  <2>2. q[i] \in ToSet(q) /\ r[k - Len(q)] \in ToSet(r)
    BY <2>1, SetOf
  <2> QED
    BY <2>1, <2>2 DEF Across
<1>5. CASE ~(i <= Len(q))
  <2>1. /\ i - Len(q) \in 1..Len(r) /\ k - Len(q) \in 1..Len(r) /\ i - Len(q) < k - Len(q)
        /\ (q \o r)[i] = r[i - Len(q)] /\ (q \o r)[k] = r[k - Len(q)]
    BY <1>1, <1>2, <1>5
  <2> QED
    BY <2>1 DEF Sorted
<1> QED
  BY <1>1, <1>3, <1>4, <1>5

(* Messages that are sent past the queue may be anywhere in it. *)
LEMMA OrderOfNeutral ==
  ASSUME NEW q \in Seq(Message), \A m \in ToSet(q) : m.kind \in Neutral
  PROVE Sorted(q)
<1>1. ASSUME NEW i \in 1..Len(q), NEW k \in 1..Len(q) PROVE InLine(q[i], q[k])
  <2>1. q[i].kind \in Neutral /\ q[k].kind \in Neutral
    BY SetOf
  <2> QED
    BY <2>1 DEF Neutral, InLine, Ask, Content
<1> QED
  BY <1>1 DEF Sorted

(* An empty queue. *)
LEMMA OrderOfNone ==
  << >> \in Seq(Message) /\ ToSet(<< >>) = {} /\ Sorted(<< >>)
<1>1. << >> \in Seq(Message)
  OBVIOUS
<1>2. ToSet(<< >>) = {}
  BY DEF ToSet
<1>3. Sorted(<< >>)
  BY DEF Sorted
<1> QED
  BY <1>1, <1>2, <1>3

(* A queue of one. *)
LEMMA OrderOfOne ==
  ASSUME NEW m \in Message
  PROVE <<m>> \in Seq(Message) /\ ToSet(<<m>>) = {m} /\ Sorted(<<m>>)
<1>1. Sorted(<<m>>)
  BY DEF Sorted
<1>2. ToSet(<<m>>) = {m}
  BY DEF ToSet
<1> QED
  BY <1>1, <1>2

(* The queue toWeb with one more message. *)
LEMMA SoleMore ==
  ASSUME NEW q \in Seq(Message), NEW m \in Message, Sole(q),
         m.kind \in Answer => \A n \in ToSet(q) : n.kind \in Answer => n.file[1] # m.file[1]
  PROVE Sole(Append(q, m))
<1>1. /\ Len(Append(q, m)) = Len(q) + 1 /\ Len(q) \in Nat
      /\ \A i \in 1..Len(q) : Append(q, m)[i] = q[i]
      /\ Append(q, m)[Len(q) + 1] = m
  OBVIOUS
<1>2. SUFFICES ASSUME NEW i \in 1..(Len(q) + 1), NEW k \in 1..(Len(q) + 1), i < k,
                      Append(q, m)[i].file[1] = Append(q, m)[k].file[1],
                      Append(q, m)[i].kind \in Answer
               PROVE Append(q, m)[k].kind \notin Answer
  BY <1>1 DEF Sole
<1>3. i \in 1..Len(q) /\ (k \in 1..Len(q) \/ k = Len(q) + 1)
  BY <1>1, <1>2
<1>4. CASE k \in 1..Len(q)
  BY <1>1, <1>2, <1>3, <1>4 DEF Sole
<1>5. CASE k = Len(q) + 1
  <2>1. q[i] \in ToSet(q)
    BY <1>3, SetOf
  <2> QED
    BY <1>1, <1>2, <1>3, <1>5, <2>1
<1> QED
  BY <1>3, <1>4, <1>5

-----------------------------------------------------------------------------
(* What the steps do to the flow of a job. *)

(* A file is covered as before when its blocks under way and the host's    *)
(* copy are the same.                                                      *)
LEMMA CoverKept ==
  ASSUME NEW U, NEW V, NEW H, NEW K, NEW f, NEW z,
         Covered(U, H, f, z),
         \A b \in Nat : Msg("block", f, b) \in U <=> Msg("block", f, b) \in V,
         K.got[f] = H.got[f],
         Exempt(f, H) => Exempt(f, K)
  PROVE Covered(V, K, f, z)
<1>1. CASE Exempt(f, H)
  BY <1>1 DEF Covered
<1>2. CASE Fill(U, H, f, z)
  <2>1. PICK a \in Nat : /\ a <= z
                         /\ H.got[f] = Prefix(a)
                         /\ \A b \in Nat : Msg("block", f, b) \in U <=> a < b /\ b <= z
    BY <1>2 DEF Fill
  <2>2. Fill(V, K, f, z)
    BY <2>1 DEF Fill
  <2> QED
    BY <2>2 DEF Covered
<1> QED
  BY <1>1, <1>2 DEF Covered

(* Nothing about the flow changes when only neutral messages are added,    *)
(* the queue is sent while the link is open, an answer is dropped or the   *)
(* pump stops.                                                             *)
LEMMA FlowKept ==
  ASSUME NEW T \in SUBSET Message, NEW M \in SUBSET Message, NEW B \in SUBSET Message,
         NEW T2 \in SUBSET Message, NEW M2 \in SUBSET Message, NEW B2 \in SUBSET Message,
         NEW J, NEW J2, NEW N, NEW O, NEW H, NEW L,
         Flow(T, M, B, J, N, O, H, L),
         T \cup M \subseteq T2 \cup M2,
         \A m \in T2 \cup M2 : m \in T \cup M \/ m.kind \in Neutral,
         L = "open" \/ \A m \in T2 : m \in T \/ m.kind \in Neutral,
         Across(T2, M2), B2 \subseteq B, J2 = J \/ J2 = None
  PROVE Flow(T2, M2, B2, J2, N, O, H, L)
<1> DEFINE U == T \cup M
           V == T2 \cup M2
<1>1. /\ Tokens(U, B, J, N) /\ Offsets(U, B, J, N, O) /\ Answered(B, J, N, H)
      /\ Blocks(U, N, O, H) /\ Sent(T, U, B, J, N, O, H, L) /\ Closed(U, H)
  BY DEF Flow
<1>2. None \notin Job /\ \A m \in V \cup B : m.file[1] \in Job
  BY FtUploadAssumption, MessageShape
<1>3. ASSUME NEW m \in V, m.kind \in Ask \cup {"receive", "block"} PROVE m \in U
  BY <1>3 DEF Neutral, Ask
<1>4. Tokens(V, B2, J2, N)
  BY <1>1, <1>2, <1>3 DEF Tokens, Ask
<1>5. Offsets(V, B2, J2, N, O)
  BY <1>1, <1>2, <1>3 DEF Offsets, Ask
<1>6. Answered(B2, J2, N, H)
  BY <1>1, <1>2 DEF Answered
<1>7. Blocks(V, N, O, H)
  BY <1>1, <1>3 DEF Blocks
<1>8. ASSUME NEW j, Alive(V, H, j) PROVE Alive(U, H, j)
  BY <1>3, <1>8 DEF Alive
<1>9. ASSUME NEW f \in File, NEW z, Covered(U, H, f, z) PROVE Covered(V, H, f, z)
  <2>1. ASSUME NEW b \in Nat PROVE Msg("block", f, b) \in U <=> Msg("block", f, b) \in V
    BY <1>3 DEF Msg
  <2> QED
    BY <1>9, <2>1, CoverKept
<1>10. ASSUME NEW f \in File, Alive(V, H, f[1]) PROVE SentFile(T2, V, B2, J2, N, O, H, L, f)
  <2>1. SentFile(T, U, B, J, N, O, H, L, f)
    BY <1>1, <1>8, <1>10 DEF Sent
  <2>2. f[1] \in Job
    BY FileShape
  <2>3. ASSUME NEW m \in V, m.kind = "done", m.file[1] = f[1], L = "open" \/ m \in T2
        PROVE Covered(V, H, f, Size(f))
    <3>1. m \in U
      BY <1>3, <2>3 DEF Ask
    <3>2. L = "open" \/ m \in T
      BY <2>3 DEF Neutral
    <3> QED
      BY <1>9, <2>1, <2>3, <3>1, <3>2 DEF SentFile
  <2>4. ASSUME L = "open", f[2] < N[f[1]] PROVE Covered(V, H, f, Size(f))
    BY <1>9, <2>1, <2>4 DEF SentFile
  <2>5. ASSUME L = "open", J2 = f[1], f[2] = N[f[1]] PROVE Covered(V, H, f, O[f[1]])
    BY <1>2, <1>9, <2>1, <2>2, <2>5 DEF SentFile
  <2>6. ASSUME L = "open", NEW n \in B2, n.kind = "confirm", n.file = f PROVE Covered(V, H, f, n.blk)
    BY <1>9, <2>1, <2>6 DEF SentFile
  <2> QED
    BY <2>3, <2>4, <2>5, <2>6 DEF SentFile
<1>11. Sent(T2, V, B2, J2, N, O, H, L)
  BY <1>10 DEF Sent
<1>12. Closed(V, H)
  BY <1>1, <1>8 DEF Closed
<1> QED
  BY <1>4, <1>5, <1>6, <1>7, <1>11, <1>12 DEF Flow

(* Nor when the link is lost or ended, and with it the queue, or what was  *)
(* sent, or both.                                                          *)
LEMMA FlowLost ==
  ASSUME NEW T \in SUBSET Message, NEW M \in SUBSET Message, NEW B \in SUBSET Message,
         NEW T2 \in SUBSET Message, NEW M2 \in SUBSET Message, NEW B2 \in SUBSET Message,
         NEW J, NEW J2, NEW N, NEW O, NEW H, NEW L, NEW L2,
         Flow(T, M, B, J, N, O, H, L),
         T2 = {} \/ (T \subseteq T2 /\ \A m \in T2 : m \in T \/ m.kind \in Neutral),
         M2 \subseteq M, L2 # "open",
         B2 \subseteq B, J2 = J \/ J2 = None
  PROVE Flow(T2, M2, B2, J2, N, O, H, L2)
<1> DEFINE U == T \cup M
           V == T2 \cup M2
<1>1. /\ Tokens(U, B, J, N) /\ Offsets(U, B, J, N, O) /\ Answered(B, J, N, H)
      /\ Blocks(U, N, O, H) /\ Sent(T, U, B, J, N, O, H, L) /\ Closed(U, H) /\ Across(T, M)
  BY DEF Flow
<1>2. None \notin Job /\ \A m \in V \cup B : m.file[1] \in Job
  BY FtUploadAssumption, MessageShape
<1>3. ASSUME NEW m \in V, m.kind \in Ask \cup {"receive", "block"} PROVE m \in U /\ (m \in T2 => m \in T)
  BY <1>3 DEF Neutral, Ask
<1>4. Tokens(V, B2, J2, N)
  BY <1>1, <1>2, <1>3 DEF Tokens, Ask
<1>5. Offsets(V, B2, J2, N, O)
  BY <1>1, <1>2, <1>3 DEF Offsets, Ask
<1>6. Answered(B2, J2, N, H)
  BY <1>1, <1>2 DEF Answered
<1>7. Blocks(V, N, O, H)
  BY <1>1, <1>3 DEF Blocks
<1>8. ASSUME NEW j, Alive(V, H, j) PROVE Alive(U, H, j)
  BY <1>3, <1>8 DEF Alive
<1>9. Across(T2, M2)
  <2>1. ASSUME NEW m \in T2, NEW n \in M2 PROVE InLine(m, n)
    <3>1. CASE m \in T
      BY <1>1, <3>1 DEF Across
    <3>2. CASE m.kind \in Neutral
      BY <3>2 DEF Neutral, InLine, Ask, Content
    <3> QED
      BY <3>1, <3>2
  <2> QED
    BY <2>1 DEF Across
<1>10. ASSUME NEW f \in File, Alive(V, H, f[1]) PROVE SentFile(T2, V, B2, J2, N, O, H, L2, f)
  <2>1. SentFile(T, U, B, J, N, O, H, L, f)
    BY <1>1, <1>8, <1>10 DEF Sent
  <2>2. ASSUME NEW m \in V, m.kind = "done", m.file[1] = f[1], m \in T2
        PROVE Covered(V, H, f, Size(f))
    <3>1. m \in T
      BY <1>3, <2>2 DEF Ask
    <3>2. Covered(U, H, f, Size(f))
      BY <2>1, <2>2, <3>1 DEF SentFile
    <3>3. ASSUME NEW b \in Nat PROVE Msg("block", f, b) \in U <=> Msg("block", f, b) \in V
      <4>1. Msg("block", f, b).kind = "block" /\ Msg("block", f, b).file = f
        BY DEF Msg
      <4>2. Msg("block", f, b) \notin M
        <5>1. ASSUME Msg("block", f, b) \in M PROVE FALSE
          <6>1. InLine(m, Msg("block", f, b))
            BY <1>1, <3>1, <5>1 DEF Across
          <6> QED
            BY <2>2, <4>1, <6>1 DEF InLine, Ask, Content
        <5> QED
          BY <5>1
      <4> QED
        BY <1>3, <2>2, <4>1, <4>2
    <3> QED
      BY <3>2, <3>3, CoverKept
  <2> QED
    BY <2>2 DEF SentFile
<1>11. Sent(T2, V, B2, J2, N, O, H, L2)
  BY <1>10 DEF Sent
<1>12. Closed(V, H)
  BY <1>1, <1>8 DEF Closed
<1> QED
  BY <1>4, <1>5, <1>6, <1>7, <1>9, <1>11, <1>12 DEF Flow

(* A message other than a block leaves every file covered. *)
LEMMA CoverPast ==
  ASSUME NEW U, NEW H, NEW f, NEW z, NEW d, d.kind # "block", Covered(U, H, f, z)
  PROVE Covered(U \cup {d}, H, f, z)
<1>1. ASSUME NEW b \in Nat PROVE Msg("block", f, b) \in U <=> Msg("block", f, b) \in U \cup {d}
  BY DEF Msg
<1> QED
  BY <1>1, CoverKept

About(m, j) == m.file[1] = j

(* No answer is on its way for the job. *)
Unanswered(B, j) == \A n \in B : n.kind \in Answer => n.file[1] # j

(* The job has no token. *)
Free(U, B, J, j) ==
  /\ J # j
  /\ \A m \in U : m.kind \in Ask => m.file[1] # j
  /\ Unanswered(B, j)

(* All of its current file is sent, if that still matters. *)
Through(U, N, H, L, j) ==
  L = "open" /\ Alive(U, H, j) => Covered(U, H, <<j, N[j]>>, Size(<<j, N[j]>>))

(* A job without token whose current file is sent announces its next one. *)
LEMMA FlowDigest ==
  ASSUME NEW T \in SUBSET Message, NEW M \in SUBSET Message, NEW B \in SUBSET Message,
         NEW J, NEW N \in [Job -> Nat \ {0}], NEW O \in [Job -> Nat], NEW H, NEW L, NEW j \in Job, NEW d,
         Flow(T, M, B, J, N, O, H, L),
         Free(T \cup M, B, J, j), Through(T \cup M, N, H, L, j),
         d \in Message, d.kind = "digest", d.file = <<j, N[j] + 1>>
  PROVE /\ Flow(T, M \cup {d}, B, J, [N EXCEPT ![j] = N[j] + 1], [O EXCEPT ![j] = 0], H, L)
        /\ \A m \in T \cup M : InLine(m, d)
<1> DEFINE U == T \cup M
           V == T \cup (M \cup {d})
           N2 == [N EXCEPT ![j] = N[j] + 1]
           O2 == [O EXCEPT ![j] = 0]
<1>1. /\ Tokens(U, B, J, N) /\ Offsets(U, B, J, N, O) /\ Answered(B, J, N, H)
      /\ Blocks(U, N, O, H) /\ Sent(T, U, B, J, N, O, H, L) /\ Closed(U, H) /\ Across(T, M)
  BY DEF Flow
<1>2. /\ N[j] \in Nat \ {0} /\ N2[j] = N[j] + 1 /\ O2[j] = 0
      /\ \A i \in Job : i # j => N2[i] = N[i] /\ O2[i] = O[i]
  OBVIOUS
<1>3. /\ d.file[1] = j /\ d.file[2] = N[j] + 1 /\ J # j
      /\ \A m \in U : m.kind \in Ask => m.file[1] # j
      /\ \A n \in B : n.kind \in Answer => n.file[1] # j
  BY DEF Free, Unanswered
<1>4. /\ \A m \in U \cup B : m.file[1] \in Job /\ m.file[2] \in Nat
      /\ V = U \cup {d}
  BY MessageShape
<1>5. \A m \in U : InLine(m, d)
  BY <1>3 DEF InLine
<1>6. Tokens(V, B, J, N2)
  BY <1>1, <1>2, <1>3, <1>4 DEF Tokens
<1>7. Offsets(V, B, J, N2, O2)
  BY <1>1, <1>2, <1>3, <1>4 DEF Offsets, Ask
<1>8. Answered(B, J, N2, H)
  BY <1>1, <1>2, <1>3 DEF Answered
<1>9. Blocks(V, N2, O2, H)
  <2>1. ASSUME NEW m \in V, m.kind = "block"
        PROVE /\ m.file \in H.confirmed
              /\ m.file[2] <= N2[m.file[1]]
              /\ m.file[2] = N2[m.file[1]] => m.blk \in 1..O2[m.file[1]]
    <3>1. m \in U /\ m.file[1] \in Job /\ m.file[2] \in Nat
      BY <1>4, <2>1
    <3>2. /\ m.file \in H.confirmed
          /\ m.file[2] <= N[m.file[1]]
          /\ m.file[2] = N[m.file[1]] => m.blk \in 1..O[m.file[1]]
      BY <1>1, <2>1, <3>1 DEF Blocks
    <3>3. CASE m.file[1] = j
      <4>1. m.file[2] <= N[j]
        BY <3>2, <3>3
      <4>2. m.file[2] < N[j] + 1
        BY <1>2, <3>1, <4>1
      <4> QED
        BY <1>2, <3>1, <3>2, <3>3, <4>2
    <3>4. CASE m.file[1] # j
      BY <1>2, <3>1, <3>2, <3>4
    <3> QED
      BY <3>3, <3>4
  <2> QED
    BY <2>1 DEF Blocks
<1>10. ASSUME NEW i, Alive(V, H, i) PROVE Alive(U, H, i)
  BY <1>4, <1>10 DEF Alive
<1>11. ASSUME NEW f \in File, NEW z, Covered(U, H, f, z) PROVE Covered(V, H, f, z)
  BY <1>4, <1>11, CoverPast
<1>12. ASSUME NEW f \in File, Alive(V, H, f[1]) PROVE SentFile(T, V, B, J, N2, O2, H, L, f)
  <2>1. SentFile(T, U, B, J, N, O, H, L, f) /\ Alive(U, H, f[1])
    BY <1>1, <1>10, <1>12 DEF Sent
  <2>2. f = <<f[1], f[2]>> /\ f[1] \in Job /\ f[2] \in Nat
    BY FileShape
  <2>3. ASSUME NEW m \in V, m.kind = "done", m.file[1] = f[1], L = "open" \/ m \in T
        PROVE Covered(V, H, f, Size(f))
    BY <1>4, <1>11, <2>1, <2>3 DEF SentFile
  <2>4. ASSUME L = "open", f[2] < N2[f[1]] PROVE Covered(V, H, f, Size(f))
    <3>1. CASE f[1] = j /\ f[2] = N[j]
      BY <1>11, <2>1, <2>2, <2>4, <3>1 DEF Through
    <3>2. CASE ~(f[1] = j /\ f[2] = N[j])
      <4>1. f[2] < N[f[1]]
        BY <1>2, <2>2, <2>4, <3>2
      <4> QED
        BY <1>11, <2>1, <2>4, <4>1 DEF SentFile
    <3> QED
      BY <3>1, <3>2
  <2>5. ASSUME L = "open", J = f[1], f[2] = N2[f[1]] PROVE Covered(V, H, f, O2[f[1]])
    BY <1>2, <1>3, <1>11, <2>1, <2>2, <2>5 DEF SentFile
  <2>6. ASSUME L = "open", NEW n \in B, n.kind = "confirm", n.file = f PROVE Covered(V, H, f, n.blk)
    BY <1>11, <2>1, <2>6 DEF SentFile
  <2> QED
    BY <2>3, <2>4, <2>5, <2>6 DEF SentFile
<1>13. Sent(T, V, B, J, N2, O2, H, L)
  BY <1>12 DEF Sent
<1>14. Closed(V, H)
  BY <1>1, <1>10 DEF Closed
<1>15. Across(T, M \cup {d})
  BY <1>1, <1>5 DEF Across
<1> QED
  BY <1>5, <1>6, <1>7, <1>8, <1>9, <1>13, <1>14, <1>15 DEF Flow

(* One whose last file is sent announces its end. *)
LEMMA FlowDone ==
  ASSUME NEW T \in SUBSET Message, NEW M \in SUBSET Message, NEW B \in SUBSET Message,
         NEW J, NEW N \in [Job -> Nat \ {0}], NEW O \in [Job -> Nat], NEW H, NEW L, NEW j \in Job, NEW d,
         Flow(T, M, B, J, N, O, H, L),
         Free(T \cup M, B, J, j), Through(T \cup M, N, H, L, j), ~HasFile(j, N[j] + 1),
         d \in Message, d.kind = "done", d.file = <<j, N[j]>>
  PROVE /\ Flow(T, M \cup {d}, B, J, N, O, H, L)
        /\ \A m \in T \cup M : InLine(m, d)
<1> DEFINE U == T \cup M
           V == T \cup (M \cup {d})
<1>1. /\ Tokens(U, B, J, N) /\ Offsets(U, B, J, N, O) /\ Answered(B, J, N, H)
      /\ Blocks(U, N, O, H) /\ Sent(T, U, B, J, N, O, H, L) /\ Closed(U, H) /\ Across(T, M)
  BY DEF Flow
<1>2. N[j] \in Nat \ {0}
  OBVIOUS
<1>3. /\ d.file[1] = j /\ d.file[2] = N[j] /\ J # j
      /\ \A m \in U : m.kind \in Ask => m.file[1] # j
      /\ \A n \in B : n.kind \in Answer => n.file[1] # j
  BY DEF Free, Unanswered
<1>4. /\ \A m \in U \cup B : m.file[1] \in Job /\ m.file[2] \in Nat
      /\ V = U \cup {d}
  BY MessageShape
<1>5. \A m \in U : InLine(m, d)
  BY <1>3 DEF InLine
<1>6. Tokens(V, B, J, N)
  BY <1>1, <1>2, <1>3, <1>4 DEF Tokens
<1>7. Offsets(V, B, J, N, O)
  BY <1>1, <1>4 DEF Offsets
<1>8. Blocks(V, N, O, H)
  BY <1>1, <1>4 DEF Blocks
<1>9. ASSUME NEW i, Alive(V, H, i) PROVE Alive(U, H, i)
  BY <1>4, <1>9 DEF Alive
<1>10. ASSUME NEW f \in File, NEW z, Covered(U, H, f, z) PROVE Covered(V, H, f, z)
  BY <1>4, <1>10, CoverPast
<1>11. ASSUME NEW f \in File, Alive(V, H, f[1]) PROVE SentFile(T, V, B, J, N, O, H, L, f)
  <2>1. SentFile(T, U, B, J, N, O, H, L, f) /\ Alive(U, H, f[1])
    BY <1>1, <1>9, <1>11 DEF Sent
  <2>2. f = <<f[1], f[2]>> /\ f[1] \in Job /\ f[2] \in Nat /\ f[2] \in 1..Len(Files[f[1]])
    BY FileShape
  <2>3. ASSUME NEW m \in V, m.kind = "done", m.file[1] = f[1], L = "open" \/ m \in T
        PROVE Covered(V, H, f, Size(f))
    <3>1. CASE m \in U
      BY <1>10, <2>1, <2>3, <3>1 DEF SentFile
    <3>2. CASE m \notin U
      <4>1. m = d /\ L = "open" /\ f[1] = j
        BY <1>3, <1>4, <2>3, <3>2
      <4>2. Len(Files[j]) \in Nat
        BY FtUploadAssumption
      <4>3. f[2] < N[j] \/ f[2] = N[j]
        BY <1>2, <2>2, <4>1, <4>2 DEF HasFile
      <4>4. CASE f[2] = N[j]
        BY <1>10, <2>1, <2>2, <4>1, <4>4 DEF Through
      <4>5. CASE f[2] < N[j]
        BY <1>10, <2>1, <4>1, <4>5 DEF SentFile
      <4> QED
        BY <4>3, <4>4, <4>5
    <3> QED
      BY <3>1, <3>2
  <2> QED
    BY <1>10, <2>1, <2>3 DEF SentFile
<1>12. Sent(T, V, B, J, N, O, H, L)
  BY <1>11 DEF Sent
<1>13. Closed(V, H)
  BY <1>1, <1>9 DEF Closed
<1>14. Across(T, M \cup {d})
  BY <1>1, <1>5 DEF Across
<1> QED
  BY <1>1, <1>5, <1>6, <1>7, <1>8, <1>12, <1>13, <1>14 DEF Flow

(* A confirmation becomes the pump, which starts where the host said. *)
LEMMA FlowPump ==
  ASSUME NEW T \in SUBSET Message, NEW M \in SUBSET Message, NEW B \in SUBSET Message,
         NEW J, NEW N \in [Job -> Nat \ {0}], NEW O \in [Job -> Nat], NEW H, NEW L, NEW B2 \in SUBSET B,
         NEW c \in B, NEW j \in Job,
         Flow(T, M, B, J, N, O, H, L),
         J = None, c.kind = "confirm", About(c, j), Unanswered(B2, j)
  PROVE /\ Flow(T, M, B2, j, N, [O EXCEPT ![j] = c.blk], H, L)
        /\ O[j] = 0
<1> DEFINE U == T \cup M
           O2 == [O EXCEPT ![j] = c.blk]
<1>1. /\ Tokens(U, B, J, N) /\ Offsets(U, B, J, N, O) /\ Answered(B, J, N, H)
      /\ Blocks(U, N, O, H) /\ Sent(T, U, B, J, N, O, H, L) /\ Closed(U, H) /\ Across(T, M)
  BY DEF Flow
<1>2. N[j] \in Nat \ {0} /\ O2[j] = c.blk /\ \A i \in Job : i # j => O2[i] = O[i]
  OBVIOUS
<1>13. c.file[1] = j
  BY DEF About
<1>3. /\ \A m \in U \cup B : m.file[1] \in Job /\ m.file[2] \in Nat /\ m.blk \in Nat
      /\ c.file \in File
  BY MessageShape
<1>4. c.kind \in Answer
  BY DEF Answer
<1>5. c.file = <<j, N[j]>> /\ O[j] = 0
  <2>1. c.file = <<c.file[1], c.file[2]>>
    BY <1>3, FileShape
  <2> QED
    BY <1>1, <1>4, <1>13, <2>1 DEF Tokens, Offsets
<1>6. \A m \in U : m.kind \in Ask => m.file[1] # j
  BY <1>1, <1>4, <1>13 DEF Tokens
<1>7. Tokens(U, B2, j, N)
  BY <1>1, <1>6 DEF Tokens, Unanswered
<1>8. Offsets(U, B2, j, N, O2)
  <2>1. c.blk <= Size(c.file)
    BY <1>1 DEF Answered
  <2>2. O2[j] <= Size(<<j, N[j]>>)
    BY <1>2, <1>5, <2>1
  <2> QED
    BY <1>1, <1>2, <1>3, <1>6, <2>2 DEF Offsets, Ask, Unanswered
<1>9. Answered(B2, j, N, H)
  BY <1>1, <1>5, <1>13 DEF Answered
<1>10. Blocks(U, N, O2, H)
  <2>1. ASSUME NEW m \in U, m.kind = "block"
        PROVE /\ m.file \in H.confirmed
              /\ m.file[2] <= N[m.file[1]]
              /\ m.file[2] = N[m.file[1]] => m.blk \in 1..O2[m.file[1]]
    <3>1. /\ m.file \in H.confirmed
          /\ m.file[2] <= N[m.file[1]]
          /\ m.file[2] = N[m.file[1]] => m.blk \in 1..O[m.file[1]]
      BY <1>1, <2>1 DEF Blocks
    <3>2. CASE m.file[1] = j
      <4>1. 1..O[m.file[1]] = {}
        BY <1>5, <3>2
      <4> QED
        BY <3>1, <4>1
    <3>3. CASE m.file[1] # j
      BY <1>2, <1>3, <3>1, <3>3
    <3> QED
      BY <3>2, <3>3
  <2> QED
    BY <2>1 DEF Blocks
<1>11. ASSUME NEW f \in File, Alive(U, H, f[1]) PROVE SentFile(T, U, B2, j, N, O2, H, L, f)
  <2>1. SentFile(T, U, B, J, N, O, H, L, f)
    BY <1>1, <1>11 DEF Sent
  <2>2. f = <<f[1], f[2]>> /\ f[1] \in Job
    BY FileShape
  <2>3. ASSUME L = "open", j = f[1], f[2] = N[f[1]] PROVE Covered(U, H, f, O2[f[1]])
    <3>1. c.file = f /\ O2[f[1]] = c.blk
      BY <1>2, <1>5, <2>2, <2>3
    <3> QED
      BY <2>1, <2>3, <3>1 DEF SentFile
  <2> QED
    BY <2>1, <2>3 DEF SentFile
<1>12. Sent(T, U, B2, j, N, O2, H, L)
  BY <1>11 DEF Sent
<1> QED
  BY <1>1, <1>5, <1>7, <1>8, <1>9, <1>10, <1>12 DEF Flow

(* The pump queues the next block of its file. *)
LEMMA FlowBlock ==
  ASSUME NEW T \in SUBSET Message, NEW M \in SUBSET Message, NEW B \in SUBSET Message,
         NEW N \in [Job -> Nat \ {0}], NEW O \in [Job -> Nat], NEW H, NEW L, NEW j \in Job, NEW d,
         Flow(T, M, B, j, N, O, H, L),
         d \in Message, d.kind = "block", d.file = <<j, N[j]>>, d.blk = O[j] + 1,
         O[j] < Size(<<j, N[j]>>), Size(<<j, N[j]>>) \in Nat
  PROVE /\ Flow(T, M \cup {d}, B, j, N, [O EXCEPT ![j] = O[j] + 1], H, L)
        /\ \A m \in T \cup M : InLine(m, d)
<1> DEFINE U == T \cup M
           V == T \cup (M \cup {d})
           O2 == [O EXCEPT ![j] = O[j] + 1]
<1>1. /\ Tokens(U, B, j, N) /\ Offsets(U, B, j, N, O) /\ Answered(B, j, N, H)
      /\ Blocks(U, N, O, H) /\ Sent(T, U, B, j, N, O, H, L) /\ Closed(U, H) /\ Across(T, M)
  BY DEF Flow
<1>2. /\ N[j] \in Nat \ {0} /\ O[j] \in Nat /\ O2[j] = O[j] + 1
      /\ \A i \in Job : i # j => O2[i] = O[i]
  OBVIOUS
<1>3. d.file[1] = j /\ d.file[2] = N[j]
  OBVIOUS
<1>4. /\ \A m \in U \cup B : m.file[1] \in Job /\ m.file[2] \in Nat /\ m.blk \in Nat
      /\ V = U \cup {d}
  BY MessageShape
<1>5. \A m \in U : InLine(m, d)
  <2>1. ASSUME NEW m \in U, m.kind = "block", m.file = d.file PROVE m.blk < d.blk
    <3>1. m.blk \in 1..O[j]
      BY <1>1, <1>3, <2>1 DEF Blocks
    <3>2. m.blk < O[j] + 1
      BY <1>2, <3>1
    <3> QED
      BY <3>2
  <2>2. \A m \in U : m.kind \in Ask => m.file[1] # j
    BY <1>1 DEF Tokens
  <2> QED
    BY <1>3, <2>1, <2>2 DEF InLine
<1>6. Tokens(V, B, j, N)
  BY <1>1, <1>4 DEF Tokens, Ask
<1>7. Offsets(V, B, j, N, O2)
  <2>1. O2[j] <= Size(<<j, N[j]>>)
    BY <1>2
  <2> QED
    BY <1>1, <1>2, <1>4, <2>1 DEF Offsets, Tokens, Ask
<1>8. Blocks(V, N, O2, H)
  <2>1. ASSUME NEW m \in U, m.kind = "block"
        PROVE /\ m.file \in H.confirmed
              /\ m.file[2] <= N[m.file[1]]
              /\ m.file[2] = N[m.file[1]] => m.blk \in 1..O2[m.file[1]]
    <3>1. /\ m.file \in H.confirmed
          /\ m.file[2] <= N[m.file[1]]
          /\ m.file[2] = N[m.file[1]] => m.blk \in 1..O[m.file[1]]
      BY <1>1, <2>1 DEF Blocks
    <3>2. CASE m.file[1] = j
      <4>1. 1..O[j] \subseteq 1..O2[j]
        BY <1>2
      <4> QED
        BY <3>1, <3>2, <4>1
    <3>3. CASE m.file[1] # j
      BY <1>2, <1>4, <3>1, <3>3
    <3> QED
      BY <3>2, <3>3
  <2>2. /\ d.file \in H.confirmed /\ d.file[2] <= N[d.file[1]] /\ d.blk \in 1..O2[d.file[1]]
    <3>1. d.file \in H.confirmed
      BY <1>1 DEF Answered
    <3>2. d.blk \in 1..O2[j] /\ N[j] <= N[j]
      BY <1>2
    <3> QED
      BY <1>3, <3>1, <3>2
  <2> QED
    BY <1>4, <2>1, <2>2 DEF Blocks
<1>9. ASSUME NEW i, Alive(V, H, i) PROVE Alive(U, H, i)
  BY <1>4, <1>9 DEF Alive
<1>10. ASSUME NEW f \in File, f # d.file, NEW z, Covered(U, H, f, z) PROVE Covered(V, H, f, z)
  <2>1. ASSUME NEW b \in Nat PROVE Msg("block", f, b) \in U <=> Msg("block", f, b) \in V
    <3>1. Msg("block", f, b).file = f
      BY DEF Msg
    <3> QED
      BY <1>4, <1>10, <3>1
  <2> QED
    BY <1>10, <2>1, CoverKept
<1>11. ASSUME Covered(U, H, d.file, O[j]) PROVE Covered(V, H, d.file, O2[j])
  <2>1. CASE Exempt(d.file, H)
    BY <2>1 DEF Covered
  <2>2. CASE Fill(U, H, d.file, O[j])
    <3>1. PICK a \in Nat :
            /\ a <= O[j]
            /\ H.got[d.file] = Prefix(a)
            /\ \A b \in Nat : Msg("block", d.file, b) \in U <=> a < b /\ b <= O[j]
      BY <2>2 DEF Fill
    <3>2. d = Msg("block", d.file, O[j] + 1)
      BY MessageShape
    <3>3. ASSUME NEW b \in Nat PROVE Msg("block", d.file, b) \in V <=> a < b /\ b <= O[j] + 1
      <4>1. CASE b = O[j] + 1
        <5>1. a < b /\ b <= O[j] + 1
          BY <1>2, <3>1, <4>1
        <5> QED
          BY <1>4, <3>2, <4>1, <5>1
      <4>2. CASE b # O[j] + 1
        <5>1. Msg("block", d.file, b) # d
          <6>1. Msg("block", d.file, b).blk = b
            BY DEF Msg
          <6> QED
            BY <4>2, <6>1
        <5>2. Msg("block", d.file, b) \in V <=> Msg("block", d.file, b) \in U
          BY <1>4, <5>1
        <5>3. b <= O[j] <=> b <= O[j] + 1
          BY <1>2, <4>2
        <5> QED
          BY <3>1, <5>2, <5>3
      <4> QED
        BY <4>1, <4>2
    <3>4. a <= O[j] + 1
      BY <1>2, <3>1
    <3>5. Fill(V, H, d.file, O[j] + 1)
      BY <3>1, <3>3, <3>4 DEF Fill
    <3> QED
      BY <1>2, <3>5 DEF Covered
  <2> QED
    BY <1>11, <2>1, <2>2 DEF Covered
<1>12. ASSUME NEW f \in File, Alive(V, H, f[1]) PROVE SentFile(T, V, B, j, N, O2, H, L, f)
  <2>1. SentFile(T, U, B, j, N, O, H, L, f)
    BY <1>1, <1>9, <1>12 DEF Sent
  <2>2. f = <<f[1], f[2]>> /\ f[1] \in Job /\ f[2] \in Nat
    BY FileShape
  <2>3. ASSUME NEW m \in V, m.kind = "done", m.file[1] = f[1], L = "open" \/ m \in T
        PROVE Covered(V, H, f, Size(f))
    <3>1. m \in U
      BY <1>4, <2>3
    <3>2. f # d.file
      BY <1>1, <1>3, <2>3, <3>1 DEF Tokens, Ask
    <3> QED
      BY <1>10, <2>1, <2>3, <3>1, <3>2 DEF SentFile
  <2>4. ASSUME L = "open", f[2] < N[f[1]] PROVE Covered(V, H, f, Size(f))
    <3>1. f # d.file
      BY <1>2, <1>3, <2>2, <2>4
    <3> QED
      BY <1>10, <2>1, <2>4, <3>1 DEF SentFile
  <2>5. ASSUME L = "open", j = f[1], f[2] = N[f[1]] PROVE Covered(V, H, f, O2[f[1]])
    <3>1. f = d.file
      BY <2>2, <2>5
    <3> QED
      BY <1>11, <2>1, <2>5, <3>1 DEF SentFile
  <2>6. ASSUME L = "open", NEW n \in B, n.kind = "confirm", n.file = f PROVE Covered(V, H, f, n.blk)
    <3>1. f # d.file
      BY <1>1, <1>3, <2>6 DEF Tokens, Answer
    <3> QED
      BY <1>10, <2>1, <2>6, <3>1 DEF SentFile
  <2> QED
    BY <2>3, <2>4, <2>5, <2>6 DEF SentFile
<1>13. Sent(T, V, B, j, N, O2, H, L)
  BY <1>12 DEF Sent
<1>14. Closed(V, H)
  BY <1>1, <1>9 DEF Closed
<1>15. Across(T, M \cup {d})
  BY <1>1, <1>5 DEF Across
<1> QED
  BY <1>1, <1>5, <1>6, <1>7, <1>8, <1>13, <1>14, <1>15 DEF Flow

(* A new job is announced, and its first file. *)
LEMMA FlowStart ==
  ASSUME NEW T \in SUBSET Message, NEW M \in SUBSET Message, NEW B \in SUBSET Message,
         NEW J, NEW N \in [Job -> Nat \ {0}], NEW O \in [Job -> Nat], NEW H, NEW L, NEW S,
         NEW j \in Job, NEW r, NEW d,
         Flow(T, M, B, J, N, O, H, L), Begun(T \cup M, B, J, N, O, H, S), j \notin S,
         r \in Message, r.kind = "receive", r.file = <<j, 1>>,
         d \in Message, d.kind = "digest", d.file = <<j, 1>>
  PROVE /\ Flow(T, M \cup {r, d}, B, J, N, O, H, L)
        /\ \A m \in T \cup M : InLine(m, r) /\ InLine(m, d)
        /\ InLine(r, d)
<1> DEFINE U == T \cup M
           V == T \cup (M \cup {r, d})
<1>1. /\ Tokens(U, B, J, N) /\ Offsets(U, B, J, N, O) /\ Answered(B, J, N, H)
      /\ Blocks(U, N, O, H) /\ Sent(T, U, B, J, N, O, H, L) /\ Closed(U, H) /\ Across(T, M)
  BY DEF Flow
<1>2. /\ N[j] = 1 /\ O[j] = 0 /\ J # j /\ j \notin H.done
      /\ \A m \in U \cup B : m.file[1] # j
  BY DEF Begun
<1>3. V = (U \cup {r}) \cup {d} /\ r.file[1] = j /\ d.file[1] = j /\ d.file[2] = 1
  OBVIOUS
<1>4. (\A m \in U : InLine(m, r) /\ InLine(m, d)) /\ InLine(r, d)
  BY <1>2, <1>3 DEF InLine, Ask, Content
<1>5. Tokens(V, B, J, N)
  BY <1>1, <1>2, <1>3 DEF Tokens, Ask
<1>6. Offsets(V, B, J, N, O)
  BY <1>1, <1>2, <1>3 DEF Offsets
<1>7. Blocks(V, N, O, H)
  BY <1>1, <1>3 DEF Blocks
<1>8. ASSUME NEW i, i # j, Alive(V, H, i) PROVE Alive(U, H, i)
  BY <1>3, <1>8 DEF Alive
<1>9. ASSUME NEW f \in File, NEW z, Covered(U, H, f, z) PROVE Covered(V, H, f, z)
  <2>1. Covered(U \cup {r}, H, f, z)
    BY <1>9, CoverPast
  <2> QED
    BY <1>3, <2>1, CoverPast
<1>10. ASSUME NEW f \in File, Alive(V, H, f[1]) PROVE SentFile(T, V, B, J, N, O, H, L, f)
  <2>1. f = <<f[1], f[2]>> /\ f[2] \in Nat \ {0}
    BY FileShape
  <2>2. CASE f[1] = j
    <3>1. ~(f[2] < N[f[1]])
      BY <1>2, <2>1, <2>2
    <3>2. \A m \in V : ~(m.kind = "done" /\ m.file[1] = f[1])
      BY <1>2, <1>3, <2>2
    <3> QED
      BY <1>2, <2>2, <3>1, <3>2 DEF SentFile
  <2>3. CASE f[1] # j
    <3>1. SentFile(T, U, B, J, N, O, H, L, f)
      BY <1>1, <1>8, <1>10, <2>3 DEF Sent
    <3>2. \A m \in V : m.kind = "done" => m \in U
      BY <1>3
    <3> QED
      BY <1>9, <3>1, <3>2 DEF SentFile
  <2> QED
    BY <2>2, <2>3
<1>11. Sent(T, V, B, J, N, O, H, L)
  BY <1>10 DEF Sent
<1>12. Closed(V, H)
  BY <1>1, <1>2, <1>8 DEF Closed
<1>13. Across(T, M \cup {r, d})
  BY <1>1, <1>4 DEF Across
<1> QED
  BY <1>1, <1>4, <1>5, <1>6, <1>7, <1>11, <1>12, <1>13 DEF Flow

(* The host takes a message that leaves its files alone: the announcement, *)
(* a cancellation, a neutral one, or one for a job it does not work on.    *)
LEMMA FlowTaken ==
  ASSUME NEW T \in SUBSET Message, NEW M \in SUBSET Message, NEW B \in SUBSET Message,
         NEW J, NEW N, NEW O, NEW H, NEW K, NEW L, NEW T2, NEW h,
         Flow(T, M, B, J, N, O, H, L), T = {h} \cup T2,
         K.got = H.got, K.confirmed = H.confirmed, K.skipped = H.skipped, K.failed = H.failed,
         K.done = H.done,
         \A i \in Job : Alive(T2 \cup M, K, i) => Alive(T \cup M, H, i),
         H.done \subseteq Job,
         h.kind = "block" => ~Alive(T2 \cup M, K, h.file[1])
  PROVE Flow(T2, M, B, J, N, O, K, L)
<1> DEFINE U == T \cup M
           V == T2 \cup M
<1>1. /\ Tokens(U, B, J, N) /\ Offsets(U, B, J, N, O) /\ Answered(B, J, N, H)
      /\ Blocks(U, N, O, H) /\ Sent(T, U, B, J, N, O, H, L) /\ Closed(U, H) /\ Across(T, M)
  BY DEF Flow
<1>2. V \subseteq U /\ U = V \cup {h}
  OBVIOUS
<1>3. Tokens(V, B, J, N)
  BY <1>1, <1>2 DEF Tokens
<1>4. Offsets(V, B, J, N, O)
  BY <1>1, <1>2 DEF Offsets
<1>5. Answered(B, J, N, K)
  BY <1>1 DEF Answered
<1>6. Blocks(V, N, O, K)
  BY <1>1, <1>2 DEF Blocks
<1>7. ASSUME NEW f \in File, Alive(V, K, f[1]) PROVE SentFile(T2, V, B, J, N, O, K, L, f)
  <2>1. f[1] \in Job
    BY FileShape
  <2>2. SentFile(T, U, B, J, N, O, H, L, f)
    BY <1>1, <1>7, <2>1 DEF Sent
  <2>3. ASSUME NEW z, Covered(U, H, f, z) PROVE Covered(V, K, f, z)
    <3>1. ASSUME NEW b \in Nat PROVE Msg("block", f, b) \in U <=> Msg("block", f, b) \in V
      <4>1. Msg("block", f, b).kind = "block" /\ Msg("block", f, b).file = f
        BY DEF Msg
      <4>2. Msg("block", f, b) # h
        BY <1>7, <4>1
      <4> QED
        BY <1>2, <4>2
    <3> QED
      BY <2>3, <3>1, CoverKept DEF Exempt
  <2>4. ASSUME NEW m \in V, m.kind = "done", m.file[1] = f[1], L = "open" \/ m \in T2
        PROVE Covered(V, K, f, Size(f))
    BY <1>2, <2>2, <2>3, <2>4 DEF SentFile
  <2> QED
    BY <2>2, <2>3, <2>4 DEF SentFile
<1>8. Sent(T2, V, B, J, N, O, K, L)
  BY <1>7 DEF Sent
<1>9. Closed(V, K)
  BY <1>1 DEF Closed, Exempt
<1>10. Across(T2, M)
  BY <1>1 DEF Across
<1> QED
  BY <1>3, <1>4, <1>5, <1>6, <1>8, <1>9, <1>10 DEF Flow

(* What the answer c to the digest h changes at the host. *)
Replied(h, c, H, K) ==
  /\ K \in HostState
  /\ c.file = h.file /\ c.kind \in Answer \cup {"error"}
  /\ K.writeJobs = H.writeJobs /\ K.done = H.done /\ K.failed = H.failed
  /\ H.confirmed \subseteq K.confirmed /\ H.skipped \subseteq K.skipped
  /\ \A f \in File : f # h.file => K.got[f] = H.got[f]
  /\ c.kind = "confirm" =>
       c.file \in K.confirmed /\ c.blk <= Size(c.file) /\ K.got[c.file] = Prefix(c.blk)
  /\ c.kind = "skip" => c.file \in K.skipped

(* The host answers the digest of a file: the token turns back. *)
LEMMA FlowAnswer ==
  ASSUME NEW T \in SUBSET Message, NEW M \in SUBSET Message, NEW B \in SUBSET Message,
         NEW J, NEW N \in [Job -> Nat \ {0}], NEW O \in [Job -> Nat], NEW H, NEW K, NEW L,
         NEW T2, NEW h, NEW c \in Message,
         Flow(T, M, B, J, N, O, H, L), T = {h} \cup T2, \A n \in T2 \cup M : InLine(h, n),
         h.kind = "digest", h.file[1] \in H.writeJobs, Replied(h, c, H, K)
  PROVE Flow(T2, M, B \cup {c}, J, N, O, K, L)
<1> USE DEF Replied
<1> DEFINE U == T \cup M
           V == T2 \cup M
           j == h.file[1]
           B2 == B \cup {c}
<1>1. /\ Tokens(U, B, J, N) /\ Offsets(U, B, J, N, O) /\ Answered(B, J, N, H)
      /\ Blocks(U, N, O, H) /\ Sent(T, U, B, J, N, O, H, L) /\ Closed(U, H) /\ Across(T, M)
  BY DEF Flow
<1>2. V \subseteq U /\ U = V \cup {h} /\ h \in T /\ h \in Message
  OBVIOUS
<1>3. h.kind \in Ask /\ J # j /\ h.file[2] = N[j] /\ O[j] = 0 /\ j \in Job /\ h.file \in File
  BY <1>1, <1>2, MessageShape DEF Tokens, Offsets, Ask
<1>4. \A n \in B : n.kind \in Answer => n.file[1] # j
  BY <1>1, <1>2, <1>3 DEF Tokens
<1>5. \A m \in V : m.kind \in Content => m.file[1] # j
  BY <1>3 DEF InLine
<1>6. Tokens(V, B2, J, N)
  BY <1>1, <1>2, <1>3, <1>5 DEF Tokens, Ask, Content
<1>7. Offsets(V, B2, J, N, O)
  BY <1>1, <1>2, <1>3 DEF Offsets
<1>8. Answered(B2, J, N, K)
  BY <1>1 DEF Answered
<1>9. Blocks(V, N, O, K)
  BY <1>1, <1>2 DEF Blocks
<1>10. ASSUME NEW i, Alive(V, K, i) PROVE Alive(U, H, i)
  BY <1>2, <1>10 DEF Alive
<1>11. ASSUME NEW f \in File, f # h.file, NEW z, Covered(U, H, f, z) PROVE Covered(V, K, f, z)
  <2>1. ASSUME NEW b \in Nat PROVE Msg("block", f, b) \in U <=> Msg("block", f, b) \in V
    <3>1. Msg("block", f, b).kind = "block"
      BY DEF Msg
    <3> QED
      BY <1>2, <3>1
  <2>2. Exempt(f, H) => Exempt(f, K)
    BY DEF Exempt
  <2> QED
    BY <1>11, <2>1, <2>2, CoverKept
<1>12. ASSUME c.kind = "confirm" PROVE Covered(V, K, h.file, c.blk)
  <2>1. c.blk \in Nat
    BY MessageShape
  <2>2. ASSUME NEW b \in Nat PROVE Msg("block", h.file, b) \notin V
    <3>1. Msg("block", h.file, b).kind = "block" /\ Msg("block", h.file, b).file = h.file
      BY DEF Msg
    <3> QED
      BY <1>5, <3>1 DEF Content
  <2>3. Fill(V, K, h.file, c.blk)
    <3>1. \A b \in Nat : ~(c.blk < b /\ b <= c.blk)
      BY <2>1
    <3>2. c.blk <= c.blk
      BY <2>1
    <3> QED
      BY <1>12, <2>1, <2>2, <3>1, <3>2 DEF Fill
  <2> QED
    BY <2>3 DEF Covered
<1>13. ASSUME NEW f \in File, Alive(V, K, f[1]) PROVE SentFile(T2, V, B2, J, N, O, K, L, f)
  <2>1. SentFile(T, U, B, J, N, O, H, L, f)
    BY <1>1, <1>10, <1>13 DEF Sent
  <2>2. f[1] \in Job /\ f[2] \in Nat
    BY FileShape
  <2>3. ASSUME NEW m \in V, m.kind = "done", m.file[1] = f[1], L = "open" \/ m \in T2
        PROVE Covered(V, K, f, Size(f))
    <3>1. f # h.file
      BY <1>5, <2>3 DEF Content
    <3> QED
      BY <1>2, <1>11, <2>1, <2>3, <3>1 DEF SentFile
  <2>4. ASSUME L = "open", f[2] < N[f[1]] PROVE Covered(V, K, f, Size(f))
    <3>1. f # h.file
      BY <1>3, <2>2, <2>4
    <3> QED
      BY <1>11, <2>1, <2>4, <3>1 DEF SentFile
  <2>5. ASSUME L = "open", J = f[1], f[2] = N[f[1]] PROVE Covered(V, K, f, O[f[1]])
    <3>1. f # h.file
      BY <1>3, <2>5
    <3> QED
      BY <1>11, <2>1, <2>5, <3>1 DEF SentFile
  <2>6. ASSUME L = "open", NEW n \in B2, n.kind = "confirm", n.file = f PROVE Covered(V, K, f, n.blk)
    <3>1. CASE n \in B
      <4>1. f # h.file
        BY <1>4, <2>6, <3>1 DEF Answer
      <4> QED
        BY <1>11, <2>1, <2>6, <3>1, <4>1 DEF SentFile
    <3>2. CASE n = c
      BY <1>12, <2>6, <3>2
    <3> QED
      BY <3>1, <3>2
  <2> QED
    BY <2>3, <2>4, <2>5, <2>6 DEF SentFile
<1>14. Sent(T2, V, B2, J, N, O, K, L)
  BY <1>13 DEF Sent
<1>15. Closed(V, K)
  <2>1. j \notin H.done
    BY <1>1 DEF Closed, Alive
  <2> QED
    BY <1>1, <1>10, <2>1 DEF Closed, Exempt
<1>16. Across(T2, M)
  BY <1>1 DEF Across
<1> QED
  BY <1>4, <1>6, <1>7, <1>8, <1>9, <1>14, <1>15, <1>16 DEF Flow

(* What a block changes at the host: it is written, or its file failed. *)
Wrote(h, H, K) ==
  /\ K \in HostState
  /\ K.writeJobs = H.writeJobs /\ K.done = H.done /\ K.skipped = H.skipped /\ K.confirmed = H.confirmed
  /\ H.failed \subseteq K.failed
  /\ \A f \in File : f # h.file => K.got[f] = H.got[f]
  /\ h.file \in K.failed \/ K.got[h.file] = Append(H.got[h.file], h.blk)

(* The host takes a block: it is the next one of its file. *)
LEMMA FlowWrite ==
  ASSUME NEW T \in SUBSET Message, NEW M \in SUBSET Message, NEW B \in SUBSET Message,
         NEW B2 \in SUBSET Message,
         NEW J, NEW N \in [Job -> Nat \ {0}], NEW O \in [Job -> Nat], NEW H, NEW K, NEW L,
         NEW T2, NEW h,
         Flow(T, M, B, J, N, O, H, L), T = {h} \cup T2, \A n \in T2 \cup M : InLine(h, n),
         h.kind = "block", h.file[1] \in H.writeJobs,
         \A n \in B2 : n \in B \/ n.kind = "error",
         Wrote(h, H, K)
  PROVE Flow(T2, M, B2, J, N, O, K, L)
<1> USE DEF Wrote
<1> DEFINE U == T \cup M
           V == T2 \cup M
           j == h.file[1]
<1>1. /\ Tokens(U, B, J, N) /\ Offsets(U, B, J, N, O) /\ Answered(B, J, N, H)
      /\ Blocks(U, N, O, H) /\ Sent(T, U, B, J, N, O, H, L) /\ Closed(U, H) /\ Across(T, M)
  BY DEF Flow
<1>2. V \subseteq U /\ U = V \cup {h} /\ h \in T /\ h \in Message /\ \A n \in V : InLine(h, n)
  OBVIOUS
<1>3. h.file \in File /\ j \in Job /\ h.blk \in Nat /\ h = Msg("block", h.file, h.blk)
  BY <1>2, MessageShape
<1>4. Tokens(V, B2, J, N)
  BY <1>1, <1>2 DEF Tokens, Answer
<1>5. Offsets(V, B2, J, N, O)
  BY <1>1, <1>2 DEF Offsets, Answer
<1>6. Answered(B2, J, N, K)
  BY <1>1 DEF Answered
<1>7. Blocks(V, N, O, K)
  BY <1>1, <1>2 DEF Blocks
<1>8. ASSUME NEW i, Alive(V, K, i) PROVE Alive(U, H, i)
  BY <1>2, <1>8 DEF Alive
<1>9. ASSUME NEW f \in File, f # h.file, NEW z, Covered(U, H, f, z) PROVE Covered(V, K, f, z)
  <2>1. ASSUME NEW b \in Nat PROVE Msg("block", f, b) \in U <=> Msg("block", f, b) \in V
    <3>1. Msg("block", f, b).file = f
      BY DEF Msg
    <3> QED
      BY <1>2, <1>9, <3>1
  <2>2. Exempt(f, H) => Exempt(f, K)
    BY DEF Exempt
  <2> QED
    BY <1>9, <2>1, <2>2, CoverKept
<1>10. ASSUME NEW z \in Nat, Covered(U, H, h.file, z) PROVE Covered(V, K, h.file, z)
  <2>1. CASE Exempt(h.file, H) \/ h.file \in K.failed
    BY <2>1 DEF Covered, Exempt
  <2>2. CASE Fill(U, H, h.file, z) /\ K.got[h.file] = Append(H.got[h.file], h.blk)
    <3>1. PICK a \in Nat :
            /\ a <= z
            /\ H.got[h.file] = Prefix(a)
            /\ \A b \in Nat : Msg("block", h.file, b) \in U <=> a < b /\ b <= z
      BY <2>2 DEF Fill
    <3>2. a < h.blk /\ h.blk <= z
      BY <1>2, <1>3, <3>1
    <3>3. a + 1 \in Nat /\ a < a + 1 /\ a + 1 <= z
      BY <1>3, <3>2
    <3>4. Msg("block", h.file, a + 1) \in U
      BY <3>1, <3>3
    <3>5. h.blk = a + 1
      <4>1. SUFFICES ASSUME h.blk # a + 1 PROVE FALSE
        OBVIOUS
      <4>2. /\ Msg("block", h.file, a + 1).blk = a + 1 /\ Msg("block", h.file, a + 1).kind = "block"
            /\ Msg("block", h.file, a + 1).file = h.file
        BY DEF Msg
      <4>3. Msg("block", h.file, a + 1) \in V
        BY <1>2, <3>4, <4>1, <4>2
      <4>4. h.blk < a + 1
        BY <1>2, <4>2, <4>3 DEF InLine
      <4> QED
        BY <1>3, <3>2, <4>4
    <3>6. K.got[h.file] = Prefix(a + 1)
      BY <2>2, <3>1, <3>5, PrefixGrows
    <3>7. ASSUME NEW b \in Nat PROVE Msg("block", h.file, b) \in V <=> a + 1 < b /\ b <= z
      <4>1. /\ Msg("block", h.file, b).blk = b /\ Msg("block", h.file, b).kind = "block"
            /\ Msg("block", h.file, b).file = h.file
        BY DEF Msg
      <4>2. CASE b = a + 1
        <5>1. Msg("block", h.file, b) \notin V
          <6>1. SUFFICES ASSUME Msg("block", h.file, b) \in V PROVE FALSE
            OBVIOUS
          <6>2. h.blk < b
            BY <1>2, <4>1, <6>1 DEF InLine
          <6> QED
            BY <3>5, <4>2, <6>2
        <5>2. ~(a + 1 < b)
          BY <4>2
        <5> QED
          BY <5>1, <5>2
      <4>3. CASE b # a + 1
        <5>1. Msg("block", h.file, b) # h
          BY <3>5, <4>1, <4>3
        <5>2. Msg("block", h.file, b) \in V <=> Msg("block", h.file, b) \in U
          BY <1>2, <5>1
        <5>3. a < b <=> a + 1 < b
          BY <4>3
        <5> QED
          BY <3>1, <5>2, <5>3
      <4> QED
        BY <4>2, <4>3
    <3>8. Fill(V, K, h.file, z)
      BY <3>3, <3>6, <3>7 DEF Fill
    <3> QED
      BY <3>8 DEF Covered
  <2> QED
    BY <1>10, <2>1, <2>2 DEF Covered
<1>11. ASSUME NEW f \in File, Alive(V, K, f[1]) PROVE SentFile(T2, V, B2, J, N, O, K, L, f)
  <2>1. SentFile(T, U, B, J, N, O, H, L, f)
    BY <1>1, <1>8, <1>11 DEF Sent
  <2>2. f[1] \in Job /\ f[2] \in Nat /\ Size(f) \in Nat /\ O[f[1]] \in Nat
    BY FileShape
  <2>3. ASSUME NEW z \in Nat, Covered(U, H, f, z) PROVE Covered(V, K, f, z)
    BY <1>9, <1>10, <2>3
  <2>4. ASSUME NEW m \in V, m.kind = "done", m.file[1] = f[1], L = "open" \/ m \in T2
        PROVE Covered(V, K, f, Size(f))
    BY <1>2, <2>1, <2>2, <2>3, <2>4 DEF SentFile
  <2>5. ASSUME L = "open", NEW n \in B2, n.kind = "confirm", n.file = f PROVE Covered(V, K, f, n.blk)
    <3>1. n \in B /\ n.blk \in Nat
      BY <2>5, MessageShape
    <3> QED
      BY <2>1, <2>3, <2>5, <3>1 DEF SentFile
  <2> QED
    BY <2>1, <2>2, <2>3, <2>4, <2>5 DEF SentFile
<1>12. Sent(T2, V, B2, J, N, O, K, L)
  BY <1>11 DEF Sent
<1>13. Closed(V, K)
  <2>1. j \notin H.done
    BY <1>1 DEF Closed, Alive
  <2> QED
    BY <1>1, <1>8, <2>1 DEF Closed, Exempt
<1>14. Across(T2, M)
  BY <1>1 DEF Across
<1> QED
  BY <1>4, <1>5, <1>6, <1>7, <1>12, <1>13, <1>14 DEF Flow

(* The host takes Done: every block has come, and the job is closed. *)
LEMMA FlowEnd ==
  ASSUME NEW T \in SUBSET Message, NEW M \in SUBSET Message, NEW B \in SUBSET Message,
         NEW J, NEW N, NEW O, NEW H, NEW K, NEW L, NEW T2, NEW h, NEW c \in Message,
         Flow(T, M, B, J, N, O, H, L), T = {h} \cup T2, \A n \in T2 \cup M : InLine(h, n),
         h.kind = "done", c.kind = "done", h.file[1] \in H.writeJobs,
         K.got = H.got, K.confirmed = H.confirmed, K.skipped = H.skipped, K.failed = H.failed,
         K.done = H.done \cup {h.file[1]}, K.writeJobs = H.writeJobs \ {h.file[1]}
  PROVE Flow(T2, M, B \cup {c}, J, N, O, K, L)
<1> DEFINE U == T \cup M
           V == T2 \cup M
           j == h.file[1]
           B2 == B \cup {c}
<1>1. /\ Tokens(U, B, J, N) /\ Offsets(U, B, J, N, O) /\ Answered(B, J, N, H)
      /\ Blocks(U, N, O, H) /\ Sent(T, U, B, J, N, O, H, L) /\ Closed(U, H) /\ Across(T, M)
  BY DEF Flow
<1>2. V \subseteq U /\ U = V \cup {h} /\ h \in T /\ h \in Message
  OBVIOUS
<1>3. \A n \in V : n.file[1] = j => n.kind \notin Content /\ n.kind # "receive"
  BY DEF InLine, Ask, Content
<1>4. Tokens(V, B2, J, N)
  BY <1>1, <1>2 DEF Tokens, Answer
<1>5. Offsets(V, B2, J, N, O)
  BY <1>1, <1>2 DEF Offsets, Answer
<1>6. Answered(B2, J, N, K)
  BY <1>1 DEF Answered
<1>7. Blocks(V, N, O, K)
  BY <1>1, <1>2 DEF Blocks
<1>8. ASSUME NEW i, Alive(V, K, i) PROVE Alive(U, H, i) /\ i # j
  BY <1>2, <1>3, <1>8 DEF Alive
<1>9. ASSUME NEW f \in File, NEW z, Covered(U, H, f, z) PROVE Covered(V, K, f, z)
  <2>1. ASSUME NEW b \in Nat PROVE Msg("block", f, b) \in U <=> Msg("block", f, b) \in V
    <3>1. Msg("block", f, b).kind = "block"
      BY DEF Msg
    <3> QED
      BY <1>2, <3>1
  <2> QED
    BY <1>9, <2>1, CoverKept DEF Exempt
<1>10. ASSUME NEW f \in File, Alive(V, K, f[1]) PROVE SentFile(T2, V, B2, J, N, O, K, L, f)
  <2>1. SentFile(T, U, B, J, N, O, H, L, f)
    BY <1>1, <1>8, <1>10 DEF Sent
  <2>2. ASSUME NEW m \in V, m.kind = "done", m.file[1] = f[1], L = "open" \/ m \in T2
        PROVE Covered(V, K, f, Size(f))
    BY <1>2, <1>9, <2>1, <2>2 DEF SentFile
  <2>3. ASSUME L = "open", NEW n \in B2, n.kind = "confirm", n.file = f PROVE Covered(V, K, f, n.blk)
    BY <1>9, <2>1, <2>3 DEF SentFile
  <2> QED
    BY <1>9, <2>1, <2>2, <2>3 DEF SentFile
<1>11. Sent(T2, V, B2, J, N, O, K, L)
  BY <1>10 DEF Sent
<1>12. ASSUME NEW f \in File, f[1] = j PROVE Exempt(f, K) \/ K.got[f] = Prefix(Size(f))
  <2>1. Covered(U, H, f, Size(f)) /\ Size(f) \in Nat
    BY <1>1, <1>2, <1>12, FileShape DEF Sent, SentFile, Alive
  <2>2. CASE Exempt(f, H)
    BY <2>2 DEF Exempt
  <2>3. CASE Fill(U, H, f, Size(f))
    <3>1. PICK a \in Nat :
            /\ a <= Size(f)
            /\ H.got[f] = Prefix(a)
            /\ \A b \in Nat : Msg("block", f, b) \in U <=> a < b /\ b <= Size(f)
      BY <2>3 DEF Fill
    <3>2. ASSUME NEW b \in Nat PROVE Msg("block", f, b) \notin U
      <4>1. Msg("block", f, b).kind = "block" /\ Msg("block", f, b).file = f
        BY DEF Msg
      <4> QED
        BY <1>2, <1>3, <1>12, <4>1 DEF Content
    <3>3. a + 1 \in Nat
      OBVIOUS
    <3>4. ~(a < a + 1 /\ a + 1 <= Size(f))
      BY <3>1, <3>2, <3>3
    <3>5. a = Size(f)
      BY <2>1, <3>1, <3>4
    <3> QED
      BY <3>1, <3>5
  <2> QED
    BY <2>1, <2>2, <2>3 DEF Covered
<1>13. Closed(V, K)
  <2>1. ASSUME NEW i \in K.done PROVE ~Alive(V, K, i)
    BY <1>1, <1>8, <2>1 DEF Closed
  <2>2. ASSUME NEW f \in File, f[1] \in K.done PROVE Exempt(f, K) \/ K.got[f] = Prefix(Size(f))
    <3>1. CASE f[1] = j
      BY <1>12, <3>1
    <3>2. CASE f[1] \in H.done
      BY <1>1, <3>2 DEF Closed, Exempt
    <3> QED
      BY <2>2, <3>1, <3>2
  <2> QED
    BY <2>1, <2>2 DEF Closed
<1>14. Across(T2, M)
  BY <1>1 DEF Across
<1> QED
  BY <1>4, <1>5, <1>6, <1>7, <1>11, <1>13, <1>14 DEF Flow

-----------------------------------------------------------------------------
(* The steps. *)

(* What the queues hold are messages, and the web side has its fields. *)
LEMMA Shapes ==
  ASSUME TypeOK
  PROVE /\ ToSet(toHost) \in SUBSET Message /\ ToSet(msgs) \in SUBSET Message
        /\ ToSet(toWeb) \in SUBSET Message
        /\ web.fileNum \in [Job -> Nat \ {0}] /\ web.offset \in [Job -> Nat]
        /\ web.late \in [Job -> Nat] /\ web.readJobs \subseteq Job
        /\ loop.job \in Job \cup {None}
<1>1. /\ ToSet(toHost) \in SUBSET Message /\ ToSet(msgs) \in SUBSET Message
      /\ ToSet(toWeb) \in SUBSET Message
  BY SetOf DEF TypeOK
<1>2. web \in WebState /\ loop \in Pump \cup {NoPump, LoopOver}
  BY DEF TypeOK
<1>3. /\ web.fileNum \in [Job -> Nat \ {0}] /\ web.offset \in [Job -> Nat]
      /\ web.late \in [Job -> Nat] /\ web.readJobs \subseteq Job
  BY <1>2 DEF WebState
<1>4. loop.job \in Job \cup {None}
  BY <1>2 DEF Pump, NoPump, LoopOver
<1> QED
  BY <1>1, <1>3, <1>4

(* A step that moves no token: jobs lose their entries, the pump stops or  *)
(* goes on, neutral messages are sent, the queue is sent, answers dropped, *)
(* or the link is lost with what it carried.                               *)
LEMMA QuietStep ==
  ASSUME UploadInv,
         web' \in WebState, web'.fileNum = web.fileNum, web'.offset = web.offset, web'.late = web.late,
         web'.readJobs \subseteq web.readJobs, web.started \subseteq web'.started,
         web'.asked \subseteq web.asked \cup web.readJobs, host' = host,
         \/ loop' = loop \/ loop' = NoPump \/ loop' = LoopOver
         \/ loop' = [loop EXCEPT !.stage = "read"] /\ loop \in Pump /\ loop.job \in web.readJobs,
         link' \in {"open", "down", "ended"}, link' = "down" => toHost' = << >>,
         toHost' \in Seq(Message), msgs' \in Seq(Message), toWeb' \in Seq(Message),
         Sorted(toHost'), Sorted(msgs'), Sole(toWeb'),
         ToSet(toWeb') \subseteq ToSet(toWeb),
         \A m \in ToSet(toHost') \cup ToSet(msgs') : m.file[1] \in web'.started,
         \/ /\ link' = link
            /\ ToSet(toHost) \cup ToSet(msgs) \subseteq ToSet(toHost') \cup ToSet(msgs')
            /\ \A m \in ToSet(toHost') \cup ToSet(msgs') :
                 m \in ToSet(toHost) \cup ToSet(msgs) \/ m.kind \in Neutral
            /\ link = "open" \/ \A m \in ToSet(toHost') : m \in ToSet(toHost) \/ m.kind \in Neutral
            /\ Across(ToSet(toHost'), ToSet(msgs'))
         \/ /\ link' # "open"
            /\ \/ ToSet(toHost') = {}
               \/ /\ ToSet(toHost) \subseteq ToSet(toHost')
                  /\ \A m \in ToSet(toHost') : m \in ToSet(toHost) \/ m.kind \in Neutral
            /\ ToSet(msgs') \subseteq ToSet(msgs)
  PROVE UploadInv'
<1>1. TypeOK /\ Queues /\ Flows /\ Beginnings /\ Reading /\ Stops
  BY DEF UploadInv
<1>2. /\ ToSet(toHost) \in SUBSET Message /\ ToSet(msgs) \in SUBSET Message
      /\ ToSet(toWeb) \in SUBSET Message
      /\ ToSet(toHost') \in SUBSET Message /\ ToSet(msgs') \in SUBSET Message
      /\ ToSet(toWeb') \in SUBSET Message
  BY <1>1, Shapes, SetOf
<1>3. loop \in Pump \cup {NoPump, LoopOver} /\ None \notin Job
  BY <1>1, FtUploadAssumption DEF TypeOK
<1>4. /\ loop' \in Pump \cup {NoPump, LoopOver}
      /\ loop'.job = loop.job \/ loop'.job = None
      /\ loop'.stage = "read" => loop'.job = loop.job /\ (loop.stage = "read" \/ loop.job \in web.readJobs)
  <2>1. CASE loop' = loop
    BY <1>3, <2>1
  <2>2. CASE loop' = NoPump \/ loop' = LoopOver
    BY <2>2 DEF NoPump, LoopOver
  <2>3. CASE loop' = [loop EXCEPT !.stage = "read"] /\ loop \in Pump /\ loop.job \in web.readJobs
    BY <2>3 DEF Pump
  <2> QED
    BY <2>1, <2>2, <2>3
<1>5. TypeOK'
  BY <1>1, <1>4 DEF TypeOK
<1>6. Queues'
  BY DEF Queues
<1>7. Flow(ToSet(toHost'), ToSet(msgs'), ToSet(toWeb'), loop'.job, web.fileNum, web.offset, host, link')
  <2>1. Flow(ToSet(toHost), ToSet(msgs), ToSet(toWeb), loop.job, web.fileNum, web.offset, host, link)
    BY <1>1 DEF Flows
  <2>2. CASE /\ link' = link
             /\ ToSet(toHost) \cup ToSet(msgs) \subseteq ToSet(toHost') \cup ToSet(msgs')
             /\ \A m \in ToSet(toHost') \cup ToSet(msgs') :
                  m \in ToSet(toHost) \cup ToSet(msgs) \/ m.kind \in Neutral
             /\ link = "open" \/ \A m \in ToSet(toHost') : m \in ToSet(toHost) \/ m.kind \in Neutral
             /\ Across(ToSet(toHost'), ToSet(msgs'))
    BY <1>2, <1>4, <2>1, <2>2, FlowKept
  <2>3. CASE /\ link' # "open"
             /\ \/ ToSet(toHost') = {}
                \/ /\ ToSet(toHost) \subseteq ToSet(toHost')
                   /\ \A m \in ToSet(toHost') : m \in ToSet(toHost) \/ m.kind \in Neutral
             /\ ToSet(msgs') \subseteq ToSet(msgs)
    BY <1>2, <1>4, <2>1, <2>3, FlowLost
  <2> QED
    BY <2>2, <2>3
<1>8. Flows'
  BY <1>7 DEF Flows
<1>9. Beginnings'
  <2>1. /\ web'.readJobs \subseteq web'.started /\ web'.asked \subseteq web'.started
        /\ IsFiniteSet(web'.readJobs)
    BY <1>1, FS_Subset DEF Beginnings
  <2>2. Begun(ToSet(toHost') \cup ToSet(msgs'), ToSet(toWeb'), loop'.job, web'.fileNum, web'.offset,
              host', web'.started)
    BY <1>1, <1>3, <1>4 DEF Beginnings, Begun
  <2> QED
    BY <2>1, <2>2 DEF Beginnings
<1>10. Reading'
  BY <1>1, <1>3, <1>4 DEF Reading, Current
<1>11. Stops'
  BY <1>1, <1>3, <1>4 DEF Stops
<1> QED
  BY <1>5, <1>6, <1>8, <1>9, <1>10, <1>11 DEF UploadInv

(* Neutral messages sent past the queue leave its order alone. *)
LEMMA PastQueue ==
  ASSUME UploadInv, NEW x \in Seq(Message), NEW t,
         \A m \in ToSet(x) : m.kind \in Neutral /\ m.file[1] \in web.started,
         t = IF link = "open" THEN toHost \o x ELSE toHost
  PROVE /\ t \in Seq(Message) /\ Sorted(t) /\ (link = "down" => t = << >>)
        /\ ToSet(toHost) \subseteq ToSet(t)
        /\ \A m \in ToSet(t) : m \in ToSet(toHost) \/ m.kind \in Neutral
        /\ \A m \in ToSet(t) \cup ToSet(msgs) : m.file[1] \in web.started
        /\ Across(ToSet(t), ToSet(msgs))
<1>1. /\ toHost \in Seq(Message) /\ Sorted(toHost) /\ (link = "down" => toHost = << >>)
      /\ Across(ToSet(toHost), ToSet(msgs))
      /\ \A m \in ToSet(toHost) \cup ToSet(msgs) : m.file[1] \in web.started
  BY DEF UploadInv, TypeOK, Queues, Flows, Flow, Beginnings, Begun
<1>2. CASE link # "open"
  BY <1>1, <1>2
<1>3. CASE link = "open"
  <2>1. t \in Seq(Message) /\ ToSet(t) = ToSet(toHost) \cup ToSet(x)
    BY <1>1, <1>3, SetOfBoth
  <2>2. ASSUME NEW m, NEW n, m.kind \in Neutral \/ n.kind \in Neutral, n.kind \in Neutral => n.kind # "receive"
        PROVE InLine(m, n)
    BY <2>2 DEF InLine, Neutral, Ask, Content
  <2>3. \A n : n.kind \in Neutral => n.kind # "receive"
    BY DEF Neutral
  <2>4. Sorted(x)
    BY OrderOfNeutral
  <2>5. Across(ToSet(toHost), ToSet(x))
    BY <2>2, <2>3 DEF Across
  <2>6. Sorted(t)
    BY <1>1, <1>3, <2>4, <2>5, OrderOfBoth
  <2>7. Across(ToSet(t), ToSet(msgs))
    BY <1>1, <2>1, <2>2, <2>3 DEF Across
  <2> QED
    BY <1>1, <1>3, <2>1, <2>6, <2>7
<1> QED
  BY <1>2, <1>3

(* The same for a queue left as it is. *)
LEMMA SameQueue ==
  ASSUME UploadInv
  PROVE /\ toHost \in Seq(Message) /\ Sorted(toHost) /\ (link = "down" => toHost = << >>)
        /\ msgs \in Seq(Message) /\ Sorted(msgs) /\ toWeb \in Seq(Message) /\ Sole(toWeb)
        /\ \A m \in ToSet(toHost) \cup ToSet(msgs) \cup ToSet(toWeb) : m.file[1] \in web.started
        /\ Across(ToSet(toHost), ToSet(msgs))
        /\ web \in WebState /\ link \in {"open", "down", "ended"}
BY DEF UploadInv, TypeOK, Queues, Flows, Flow, Beginnings, Begun

(* Uploads without a picked file. *)
LEMMA SendNothingStep ==
  ASSUME UploadInv, NEW j \in Job, SendNothing(j)
  PROVE UploadInv'
<1>1. web \in WebState /\ UNCHANGED <<loop, msgs, toHost, toWeb, host, link>>
  BY SameQueue DEF SendNothing
<1>2. web' = PushEnd([web EXCEPT !.started = @ \cup {j}], {j})
  BY DEF SendNothing
<1>3. /\ web' \in WebState /\ web'.fileNum = web.fileNum /\ web'.offset = web.offset
      /\ web'.late = web.late /\ web'.readJobs = web.readJobs /\ web'.started = web.started \cup {j}
      /\ web'.asked = web.asked
  BY <1>1, <1>2 DEF PushEnd, WebState
<1> QED
  BY <1>1, <1>3, SameQueue, QuietStep

(* Cancelling a job. *)
LEMMA CancelJobStep ==
  ASSUME UploadInv, NEW j \in Job, CancelJob(j)
  PROVE UploadInv'
<1>1. web \in WebState /\ UNCHANGED <<loop, msgs, toWeb, host, link>> /\ j \in web.started
  BY SameQueue DEF CancelJob
<1>2. web' = [RemoveJob(web, j) EXCEPT !.cancelled = @ \cup {j}, !.asked = @ \ {j}]
  BY DEF CancelJob
<1>3. /\ web' \in WebState /\ web'.fileNum = web.fileNum /\ web'.offset = web.offset
      /\ web'.late = web.late /\ web'.readJobs \subseteq web.readJobs /\ web'.started = web.started
      /\ web'.asked \subseteq web.asked
  BY <1>1, <1>2 DEF RemoveJob, WebState
<1> DEFINE d == Msg("cancel", <<j, 1>>, 0)
<1>4. d \in Message /\ d.kind = "cancel" /\ d.file = <<j, 1>> /\ d.file[1] = j
  <2>1. <<j, 1>> \in File /\ <<j, 1>>[1] = j
    BY FirstFile
  <2> QED
    BY <2>1, MessageMade
<1>5. <<d>> \in Seq(Message) /\ ToSet(<<d>>) = {d}
  BY <1>4, OrderOfOne
<1>6. toHost' = IF link = "open" THEN toHost \o <<d>> ELSE toHost
  <2>1. toHost' = IF link = "open" THEN Append(toHost, d) ELSE toHost
    BY DEF CancelJob, Send
  <2>2. Append(toHost, d) = toHost \o <<d>>
    BY <1>4, SameQueue, SetOfMore
  <2> QED
    BY <2>1, <2>2
<1> HIDE DEF d
<1>7. \A m \in ToSet(<<d>>) : m.kind \in Neutral /\ m.file[1] \in web.started
  BY <1>1, <1>4, <1>5 DEF Neutral
<1>8. /\ toHost' \in Seq(Message) /\ Sorted(toHost') /\ (link = "down" => toHost' = << >>)
      /\ ToSet(toHost) \subseteq ToSet(toHost')
      /\ \A m \in ToSet(toHost') : m \in ToSet(toHost) \/ m.kind \in Neutral
      /\ \A m \in ToSet(toHost') \cup ToSet(msgs) : m.file[1] \in web.started
      /\ Across(ToSet(toHost'), ToSet(msgs))
  BY <1>5, <1>6, <1>7, PastQueue
<1> QED
  BY <1>1, <1>3, <1>8, SameQueue, QuietStep

(* The user's answer to the overwrite question. *)
LEMMA ConfirmOverrideFileStep ==
  ASSUME UploadInv, NEW j \in Job, NEW overwrite \in BOOLEAN, ConfirmOverrideFile(j, overwrite)
  PROVE UploadInv'
<1>1. /\ web \in WebState /\ UNCHANGED <<loop, msgs, toWeb, host, link>>
      /\ j \in web.started
  BY SameQueue DEF ConfirmOverrideFile, UploadInv, Beginnings
<1>2. web' = [web EXCEPT !.asked = @ \ {j}, !.answered = @ \cup {j},
                         !.active[j] = @ \/ (overwrite /\ j \in web.readJobs)]
  BY DEF ConfirmOverrideFile
<1>3. /\ web' \in WebState /\ web'.fileNum = web.fileNum /\ web'.offset = web.offset
      /\ web'.late = web.late /\ web'.readJobs = web.readJobs /\ web'.started = web.started
      /\ web'.asked \subseteq web.asked
  BY <1>1, <1>2 DEF WebState
<1> DEFINE k == IF overwrite THEN "confirm" ELSE "skip"
           d == Msg(k, Current(web, j), 0)
<1>4. d \in Message /\ d.kind \in {"confirm", "skip"} /\ d.file[1] = j
  <2>1. Current(web, j) \in File /\ Current(web, j)[1] = j
    BY DEF UploadInv, TypeOK, Current
  <2>2. k \in {"confirm", "skip"}
    OBVIOUS
  <2> HIDE DEF k
  <2> QED
    BY <2>1, <2>2, MessageMade
<1>5. <<d>> \in Seq(Message) /\ ToSet(<<d>>) = {d}
  BY <1>4, OrderOfOne
<1>6. toHost' = IF link = "open" THEN toHost \o <<d>> ELSE toHost
  <2>1. toHost' = IF link = "open" THEN Append(toHost, d) ELSE toHost
    BY DEF ConfirmOverrideFile, Send
  <2>2. Append(toHost, d) = toHost \o <<d>>
    BY <1>4, SameQueue, SetOfMore
  <2> QED
    BY <2>1, <2>2
<1> HIDE DEF d
<1>7. \A m \in ToSet(<<d>>) : m.kind \in Neutral /\ m.file[1] \in web.started
  BY <1>1, <1>4, <1>5 DEF Neutral
<1>8. /\ toHost' \in Seq(Message) /\ Sorted(toHost') /\ (link = "down" => toHost' = << >>)
      /\ ToSet(toHost) \subseteq ToSet(toHost')
      /\ \A m \in ToSet(toHost') : m \in ToSet(toHost) \/ m.kind \in Neutral
      /\ \A m \in ToSet(toHost') \cup ToSet(msgs) : m.file[1] \in web.started
      /\ Across(ToSet(toHost'), ToSet(msgs))
  BY <1>5, <1>6, <1>7, PastQueue
<1> QED
  BY <1>1, <1>3, <1>8, SameQueue, QuietStep

(* What close() leaves of the socket. *)
LEMMA Closing ==
  ASSUME UploadInv, CloseSocket
  PROVE /\ msgs' = << >> /\ msgs' \in Seq(Message) /\ ToSet(msgs') = {} /\ Sorted(msgs')
        /\ link' = "ended"
        /\ toWeb' \in Seq(Message) /\ ToSet(toWeb') \subseteq ToSet(toWeb) /\ Sole(toWeb')
<1>1. PICK n \in 0..Len(toWeb) : toWeb' = SubSeq(toWeb, 1, n)
  BY DEF CloseSocket
<1>2. toWeb' \in Seq(Message) /\ ToSet(toWeb') \subseteq ToSet(toWeb) /\ Sole(toWeb')
  BY <1>1, SameQueue, SetOfStart
<1>3. msgs' = << >> /\ link' = "ended"
  BY DEF CloseSocket
<1> QED
  BY <1>2, <1>3, OrderOfNone

(* Closing the session cancels every job that has an entry. *)
LEMMA CloseStep ==
  ASSUME UploadInv, Close
  PROVE UploadInv'
<1> DEFINE R == web.readJobs
           q == SetToSeq(R)
           x == [i \in 1..Len(q) |-> Msg("cancel", <<q[i], 1>>, 0)]
<1>1. web \in WebState /\ loop' = loop /\ host' = host /\ CloseSocket
  BY SameQueue DEF Close
<1>2. web' = [web EXCEPT !.readJobs = {}, !.asked = {}]
  BY DEF Close
<1>3. /\ web' \in WebState /\ web'.fileNum = web.fileNum /\ web'.offset = web.offset
      /\ web'.late = web.late /\ web'.readJobs = {} /\ web'.started = web.started
      /\ web'.asked = {}
  BY <1>1, <1>2 DEF WebState
<1>4. q \in Seq(R)
  <2>1. IsFiniteSet(R)
    BY DEF UploadInv, Beginnings
  <2>2. Cardinality(R) \in Nat /\ ExistsBijection(1..Cardinality(R), R)
    BY <2>1, FS_CardinalityType
  <2>3. PICK f : f \in Bijection(1..Cardinality(R), R)
    BY <2>2 DEF ExistsBijection
  <2>4. f \in [1..Cardinality(R) -> R] /\ IsInjective(f)
    BY <2>3 DEF Bijection, Injection, Surjection, IsInjective
  <2>5. q \in [1..Cardinality(R) -> R]
    BY <2>4 DEF SetToSeq
  <2> QED
    BY <2>2, <2>5
<1>5. R \subseteq Job /\ R \subseteq web.started
  BY Shapes DEF UploadInv, Beginnings
<1>6. ASSUME NEW i \in 1..Len(q)
      PROVE /\ Msg("cancel", <<q[i], 1>>, 0) \in Message /\ Msg("cancel", <<q[i], 1>>, 0).kind = "cancel"
            /\ Msg("cancel", <<q[i], 1>>, 0).file[1] \in web.started
  <2>1. q[i] \in R
    BY <1>4
  <2>2. <<q[i], 1>> \in File /\ <<q[i], 1>>[1] \in web.started
    BY <1>5, <2>1, FirstFile
  <2> QED
    BY <2>2, MessageMade
<1>7. Len(q) \in Nat
  BY <1>4
<1> HIDE DEF q
<1>8. x \in Seq(Message) /\ Len(x) = Len(q) /\ \A i \in 1..Len(q) : x[i] = Msg("cancel", <<q[i], 1>>, 0)
  BY <1>6, <1>7
<1>9. toHost' = IF link = "open" THEN toHost \o x ELSE toHost
  BY DEF Close, q
<1> HIDE DEF x
<1>10. ASSUME NEW m \in ToSet(x) PROVE m.kind \in Neutral /\ m.file[1] \in web.started
  <2>1. PICK i \in 1..Len(x) : m = x[i]
    BY <1>8, PlaceOf
  <2> QED
    BY <1>6, <1>8, <2>1 DEF Neutral
<1>11. /\ toHost' \in Seq(Message) /\ Sorted(toHost')
       /\ ToSet(toHost) \subseteq ToSet(toHost')
       /\ \A m \in ToSet(toHost') : m \in ToSet(toHost) \/ m.kind \in Neutral
       /\ \A m \in ToSet(toHost') \cup ToSet(msgs) : m.file[1] \in web.started
  BY <1>8, <1>9, <1>10, PastQueue
<1>12. /\ msgs' \in Seq(Message) /\ ToSet(msgs') = {} /\ Sorted(msgs') /\ link' = "ended"
       /\ toWeb' \in Seq(Message) /\ ToSet(toWeb') \subseteq ToSet(toWeb) /\ Sole(toWeb')
  BY <1>1, Closing
<1> QED
  BY <1>1, <1>3, <1>11, <1>12, QuietStep

(* The tick of the message pump. *)
LEMMA FlushMsgsStep ==
  ASSUME UploadInv, FlushMsgs
  PROVE UploadInv'
<1>1. /\ UNCHANGED <<web, loop, toWeb, host, link>> /\ msgs' = << >> /\ link # "ended"
      /\ toHost' = IF link = "open" THEN toHost \o msgs ELSE toHost
  BY DEF FlushMsgs
<1>2. msgs' \in Seq(Message) /\ ToSet(msgs') = {} /\ Sorted(msgs')
  BY <1>1, OrderOfNone
<1>3. CASE link = "open"
  <2>1. toHost' \in Seq(Message) /\ ToSet(toHost') = ToSet(toHost) \cup ToSet(msgs) /\ Sorted(toHost')
    BY <1>1, <1>3, SameQueue, SetOfBoth, OrderOfBoth
  <2>2. Across(ToSet(toHost'), ToSet(msgs'))
    BY <1>2 DEF Across
  <2> QED
    BY <1>1, <1>2, <1>3, <2>1, <2>2, SameQueue, QuietStep
<1>4. CASE link # "open"
  <2>1. toHost' = toHost
    BY <1>1, <1>4
  <2> QED
    BY <1>1, <1>2, <1>4, <2>1, SameQueue, QuietStep
<1> QED
  BY <1>3, <1>4

(* The socket is lost. *)
LEMMA SocketLostStep ==
  ASSUME UploadInv, SocketLost
  PROVE UploadInv'
<1>1. UNCHANGED <<web, loop, msgs, host>> /\ link' = "down" /\ toHost' = << >>
  BY DEF SocketLost
<1>2. toHost' \in Seq(Message) /\ ToSet(toHost') = {} /\ Sorted(toHost')
  BY <1>1, OrderOfNone
<1>3. PICK n \in 0..Len(toWeb) : toWeb' = SubSeq(toWeb, 1, n)
  BY DEF SocketLost
<1>4. toWeb' \in Seq(Message) /\ ToSet(toWeb') \subseteq ToSet(toWeb) /\ Sole(toWeb')
  BY <1>3, SameQueue, SetOfStart
<1> QED
  BY <1>1, <1>2, <1>4, SameQueue, QuietStep

(* An exception leaves the loop. *)
LEMMA EndLoopStep ==
  ASSUME UploadInv, EndLoop
  PROVE UploadInv'
<1>1. loop' = LoopOver /\ toHost' = toHost /\ host' = host
  BY DEF EndLoop
<1>2. CASE link = "ended"
  <2>1. UNCHANGED <<web, msgs, toWeb, link>>
    BY <1>2 DEF EndLoop
  <2> QED
    BY <1>1, <1>2, <2>1, SameQueue, QuietStep
<1>3. CASE link # "ended"
  <2>1. web' = [FailActiveJobs(web) EXCEPT !.asked = {}] /\ CloseSocket /\ web \in WebState
    BY <1>3, SameQueue DEF EndLoop
  <2>2. /\ web' \in WebState /\ web'.fileNum = web.fileNum /\ web'.offset = web.offset
        /\ web'.late = web.late /\ web'.readJobs = {} /\ web'.started = web.started
        /\ web'.asked = {}
    BY <2>1 DEF WebState, FailActiveJobs, PushEnd
  <2>3. /\ msgs' \in Seq(Message) /\ ToSet(msgs') = {} /\ Sorted(msgs') /\ link' = "ended"
        /\ toWeb' \in Seq(Message) /\ ToSet(toWeb') \subseteq ToSet(toWeb) /\ Sole(toWeb')
    BY <2>1, Closing
  <2> QED
    BY <1>1, <2>2, <2>3, SameQueue, QuietStep
<1> QED
  BY <1>2, <1>3

(* The pump looks its job up again. *)
LEMMA PumpResumeStep ==
  ASSUME UploadInv, PumpResume
  PROVE UploadInv'
<1>1. UNCHANGED <<web, msgs, toHost, toWeb, host, link>> /\ loop.stage = "pause"
  BY DEF PumpResume
<1>2. loop \in Pump
  BY <1>1 DEF UploadInv, TypeOK, NoPump, LoopOver
<1>3. loop' = NoPump \/ (loop' = [loop EXCEPT !.stage = "read"] /\ loop.job \in web.readJobs)
  BY DEF PumpResume
<1> QED
  BY <1>1, <1>2, <1>3, SameQueue, QuietStep

(* The message loop takes a message that moves no job on. *)
LEMMA LoopIdleStep ==
  ASSUME UploadInv, UNCHANGED <<toHost, host, link, loop, msgs>>, toWeb # << >>, toWeb' = Tail(toWeb),
         web' \in WebState, web'.fileNum = web.fileNum, web'.offset = web.offset, web'.late = web.late,
         web'.readJobs \subseteq web.readJobs, web.started = web'.started,
         web'.asked \subseteq web.asked \cup web.readJobs
  PROVE UploadInv'
<1>1. toWeb' \in Seq(Message) /\ ToSet(toWeb') \subseteq ToSet(toWeb) /\ Sole(toWeb')
  BY SameQueue, SetOfTail, OrderOfTail
<1> QED
  BY <1>1, SameQueue, QuietStep

(* The host's question, its error and its echo of Done. *)
LEMMA LoopOtherStep ==
  ASSUME UploadInv, LoopAsk \/ LoopError \/ LoopDone
  PROVE UploadInv'
<1> DEFINE j == Head(toWeb).file[1]
<1>1. /\ UNCHANGED <<toHost, host, link, loop, msgs>> /\ toWeb # << >> /\ toWeb' = Tail(toWeb)
      /\ \/ web' = web
         \/ web' = [web EXCEPT !.asked = @ \cup {j}] /\ j \in web.readJobs
         \/ web' = PushEnd(RemoveJob(web, j), {j})
         \/ web' = PushEnd(web, {j})
  BY DEF LoopAsk, LoopError, LoopDone, Dequeue
<1>2. web \in WebState /\ j \in Job
  BY <1>1, SameQueue, SetOfTail, MessageShape
<1> HIDE DEF j
<1>3. /\ web' \in WebState /\ web'.fileNum = web.fileNum /\ web'.offset = web.offset
      /\ web'.late = web.late /\ web'.readJobs \subseteq web.readJobs /\ web.started = web'.started
      /\ web'.asked \subseteq web.asked \cup web.readJobs
  <2>1. CASE web' = web
    BY <1>2, <2>1
  <2>2. CASE web' = [web EXCEPT !.asked = @ \cup {j}] /\ j \in web.readJobs
    BY <1>2, <2>2 DEF WebState
  <2>3. CASE web' = PushEnd(RemoveJob(web, j), {j})
    BY <1>2, <2>3 DEF WebState, PushEnd, RemoveJob
  <2>4. CASE web' = PushEnd(web, {j})
    BY <1>2, <2>4 DEF WebState, PushEnd
  <2> QED
    BY <1>1, <2>1, <2>2, <2>3, <2>4
<1> QED
  BY <1>1, <1>3, LoopIdleStep

(* The web side after the next file, and after the last one. *)
LEMMA NextFileShape ==
  ASSUME NEW W \in WebState, NEW j \in Job, NEW n \in Nat \ {0}
  PROVE /\ NextFile(W, j, n) \in WebState
        /\ NextFile(W, j, n).fileNum = [W.fileNum EXCEPT ![j] = n]
        /\ NextFile(W, j, n).offset = [W.offset EXCEPT ![j] = 0]
        /\ NextFile(W, j, n).readJobs = W.readJobs /\ NextFile(W, j, n).started = W.started
        /\ NextFile(W, j, n).asked = W.asked /\ NextFile(W, j, n).late = W.late
BY DEF NextFile, WebState

(* The same of a job whose last file is over. *)
LEMMA EndedShape ==
  ASSUME NEW W \in WebState, NEW j \in Job
  PROVE /\ PushEnd(RemoveJob(W, j), {j}) \in WebState
        /\ PushEnd(RemoveJob(W, j), {j}).fileNum = W.fileNum
        /\ PushEnd(RemoveJob(W, j), {j}).offset = W.offset
        /\ PushEnd(RemoveJob(W, j), {j}).readJobs = W.readJobs \ {j}
        /\ PushEnd(RemoveJob(W, j), {j}).started = W.started
        /\ PushEnd(RemoveJob(W, j), {j}).asked = W.asked
        /\ PushEnd(RemoveJob(W, j), {j}).late = W.late
BY DEF PushEnd, RemoveJob, WebState

(* What the end of a file does: V is the web side after it, d what it queues. *)
Finished(T, M, B, N, O, H, L, W, j, V, d) ==
  /\ FinishFile(W, j).web = V /\ FinishFile(W, j).out = <<d>>
  /\ About(d, j)
  /\ \A m \in T \cup M : InLine(m, d)
  /\ Flow(T, M \cup {d}, B, None, V.fileNum, V.offset, H, L)
  /\ \A i \in Job : <<i, V.fileNum[i]>> \in File
  /\ \A i \in Job : i # j => V.fileNum[i] = N[i] /\ V.offset[i] = O[i]
  /\ V.readJobs \subseteq W.readJobs /\ V.started = W.started /\ V.asked = W.asked
  /\ V.late = W.late

(* The end of a file inside the pump: its token becomes a digest or Done. *)
LEMMA FinishFlow ==
  ASSUME NEW W \in WebState, NEW j \in Job,
         NEW T \in SUBSET Message, NEW M \in SUBSET Message, NEW B \in SUBSET Message, NEW H, NEW L,
         NEW N, NEW O, N = W.fileNum, O = W.offset,
         \A i \in Job : <<i, N[i]>> \in File,
         Flow(T, M, B, j, N, O, H, L),
         O[j] = Size(<<j, N[j]>>)
  PROVE \E V \in WebState, d \in Message : Finished(T, M, B, N, O, H, L, W, j, V, d)
<1> DEFINE n == N[j]
           U == T \cup M
<1>1. N \in [Job -> Nat \ {0}] /\ O \in [Job -> Nat] /\ n \in Nat \ {0}
  BY DEF WebState
<1>2. None \notin Job /\ None # j
  BY FtUploadAssumption
<1>3. Across(T, M) /\ Tokens(U, B, j, N) /\ Sent(T, U, B, j, N, O, H, L)
  BY DEF Flow
<1>4. Flow(T, M, B, None, N, O, H, L)
  BY <1>3, FlowKept
<1>5. Free(T \cup M, B, None, j)
  BY <1>2, <1>3 DEF Tokens, Free, Unanswered
<1>6. Through(T \cup M, N, H, L, j)
  <2>1. <<j, n>> \in File /\ <<j, n>>[1] = j /\ <<j, n>>[2] = n
    OBVIOUS
  <2> QED
    BY <1>3, <2>1 DEF Sent, SentFile, Through
<1>7. CASE HasFile(j, n + 1)
  <2> DEFINE d == Msg("digest", <<j, n + 1>>, 0)
             V == NextFile(W, j, n + 1)
  <2>1. n + 1 \in Nat \ {0} /\ <<j, n + 1>> \in File
    BY <1>1, <1>7, FileMade DEF HasFile
  <2>2. d \in Message /\ d.kind = "digest" /\ d.file = <<j, N[j] + 1>>
    BY <2>1, MessageMade
  <2>3. /\ V \in WebState /\ V.fileNum = [N EXCEPT ![j] = n + 1] /\ V.offset = [O EXCEPT ![j] = 0]
        /\ V.readJobs = W.readJobs /\ V.started = W.started /\ V.asked = W.asked /\ V.late = W.late
    BY <2>1, NextFileShape
  <2>4. FinishFile(W, j).web = V /\ FinishFile(W, j).out = <<d>>
    BY <1>7 DEF FinishFile, AdvanceUploadAfterFile
  <2> HIDE DEF d, V
  <2>5. /\ Flow(T, M \cup {d}, B, None, V.fileNum, V.offset, H, L)
        /\ \A m \in T \cup M : InLine(m, d)
    <3>1. /\ Flow(T, M \cup {d}, B, None, [N EXCEPT ![j] = N[j] + 1], [O EXCEPT ![j] = 0], H, L)
          /\ \A m \in T \cup M : InLine(m, d)
      <4>1. N \in [Job -> Nat \ {0}] /\ O \in [Job -> Nat]
        BY <1>1
      <4> QED
        BY <1>4, <1>5, <1>6, <2>2, <4>1, FlowDigest, Zenon
    <3> QED
      BY <2>3, <3>1
  <2>6. ASSUME NEW i \in Job
        PROVE /\ <<i, V.fileNum[i]>> \in File
              /\ i # j => V.fileNum[i] = N[i] /\ V.offset[i] = O[i]
    BY <1>1, <2>1, <2>3
  <2>7. V.readJobs \subseteq W.readJobs
    BY <2>3
  <2> USE <2>2, <2>3
  <2> WITNESS V \in WebState, d \in Message
  <2> QED
    BY <2>2, <2>3, <2>4, <2>5, <2>6, <2>7 DEF Finished, About
<1>8. CASE ~HasFile(j, n + 1)
  <2> DEFINE d == Msg("done", <<j, n>>, 0)
             V == PushEnd(RemoveJob(W, j), {j})
  <2>1. <<j, n>> \in File
    OBVIOUS
  <2>2. d \in Message /\ d.kind = "done" /\ d.file = <<j, N[j]>>
    BY <2>1, MessageMade
  <2>3. /\ V \in WebState /\ V.fileNum = N /\ V.offset = O
        /\ V.readJobs = W.readJobs \ {j} /\ V.started = W.started /\ V.asked = W.asked /\ V.late = W.late
    BY EndedShape
  <2>4. FinishFile(W, j).web = V /\ FinishFile(W, j).out = <<d>>
    BY <1>8 DEF FinishFile
  <2> HIDE DEF d, V
  <2>5. /\ Flow(T, M \cup {d}, B, None, N, O, H, L)
        /\ \A m \in T \cup M : InLine(m, d)
    BY <1>1, <1>4, <1>5, <1>6, <1>8, <2>2, FlowDone
  <2>6. V.readJobs \subseteq W.readJobs
    BY <2>3
  <2> USE <2>2, <2>3
  <2> WITNESS V \in WebState, d \in Message
  <2> QED
    BY <2>2, <2>3, <2>4, <2>5, <2>6 DEF Finished, About
<1> QED
  BY <1>7, <1>8

(* A step of the web side that moves the token of job j. *)
LEMMA TokenStep ==
  ASSUME UploadInv, NEW j \in Job, UNCHANGED <<toHost, host, link>>,
         web' \in WebState, \A i \in Job : <<i, web'.fileNum[i]>> \in File,
         loop' \in Pump \cup {NoPump, LoopOver}, loop'.job \in {j, None},
         msgs' \in Seq(Message), Sorted(msgs'),
         toWeb' \in Seq(Message), Sole(toWeb'), ToSet(toWeb') \subseteq ToSet(toWeb),
         \A m \in ToSet(msgs') : m \in ToSet(msgs) \/ m.file[1] = j,
         Flow(ToSet(toHost), ToSet(msgs'), ToSet(toWeb'), loop'.job, web'.fileNum, web'.offset, host, link),
         \A i \in Job : i # j => web'.fileNum[i] = web.fileNum[i] /\ web'.offset[i] = web.offset[i],
         web'.started = web.started \cup {j}, web'.readJobs \subseteq web.readJobs \cup {j},
         web'.asked = web.asked, Reading', Stops'
  PROVE UploadInv'
<1>1. TypeOK /\ Queues /\ Beginnings
  BY DEF UploadInv
<1>2. TypeOK'
  BY <1>1 DEF TypeOK
<1>3. Queues'
  BY <1>1 DEF Queues
<1>4. Flows'
  BY DEF Flows
<1>5. Beginnings'
  <2>1. web'.readJobs \subseteq web'.started /\ web'.asked \subseteq web'.started
    BY <1>1 DEF Beginnings
  <2>2. IsFiniteSet(web'.readJobs)
    <3>1. IsFiniteSet(web.readJobs \cup {j})
      BY <1>1, FS_Singleton, FS_Union DEF Beginnings
    <3> QED
      BY <3>1, FS_Subset
  <2>3. None \notin Job
    BY FtUploadAssumption
  <2>4. Begun(ToSet(toHost) \cup ToSet(msgs), ToSet(toWeb), loop.job, web.fileNum, web.offset,
              host, web.started)
    BY <1>1 DEF Beginnings
  <2>5. Begun(ToSet(toHost) \cup ToSet(msgs'), ToSet(toWeb'), loop'.job, web'.fileNum, web'.offset,
              host, web'.started)
    BY <2>3, <2>4 DEF Begun
  <2> QED
    BY <2>1, <2>2, <2>5 DEF Beginnings
<1> QED
  BY <1>2, <1>3, <1>4, <1>5 DEF UploadInv

(* A message that may follow what is under way keeps the queue in order. *)
LEMMA QueueMore ==
  ASSUME NEW q \in Seq(Message), NEW d \in Message, Sorted(q), \A m \in ToSet(q) : InLine(m, d)
  PROVE /\ q \o <<d>> \in Seq(Message) /\ Sorted(q \o <<d>>)
        /\ ToSet(q \o <<d>>) = ToSet(q) \cup {d}
<1>1. <<d>> \in Seq(Message) /\ ToSet(<<d>>) = {d} /\ Sorted(<<d>>)
  BY OrderOfOne
<1>2. Across(ToSet(q), ToSet(<<d>>))
  BY <1>1 DEF Across
<1> QED
  BY <1>1, <1>2, OrderOfBoth, SetOfBoth

(* Two messages are queued one after the other. *)
LEMMA QueueTwo ==
  ASSUME NEW q \in Seq(Message), NEW r \in Message, NEW d \in Message
  PROVE q \o <<r, d>> = (q \o <<r>>) \o <<d>>
<1>1. /\ q \o <<r, d>> \in Seq(Message) /\ (q \o <<r>>) \o <<d>> \in Seq(Message)
      /\ Len(q \o <<r, d>>) = Len(q) + 2 /\ Len((q \o <<r>>) \o <<d>>) = Len(q) + 2
      /\ Len(q) \in Nat
  OBVIOUS
<1>2. ASSUME NEW i \in 1..(Len(q) + 2) PROVE (q \o <<r, d>>)[i] = ((q \o <<r>>) \o <<d>>)[i]
  <2>1. i \in 1..Len(q) \/ i = Len(q) + 1 \/ i = Len(q) + 2
    BY <1>1
  <2> QED
    BY <1>1, <2>1
<1> DEFINE a == q \o <<r, d>>
           b == (q \o <<r>>) \o <<d>>
<1>3. a \in Seq(Message) /\ b \in Seq(Message) /\ Len(a) = Len(b) /\ \A i \in 1..Len(a) : a[i] = b[i]
  BY <1>1, <1>2
<1> HIDE DEF a, b
<1>4. a = b
  BY <1>3
<1> QED
  BY <1>4 DEF a, b

(* A new upload. *)
LEMMA SendFilesStep ==
  ASSUME UploadInv, NEW j \in Job, SendFiles(j)
  PROVE UploadInv'
<1> DEFINE r == Msg("receive", <<j, 1>>, 0)
           d == Msg("digest", <<j, 1>>, 0)
<1>1. /\ UNCHANGED <<loop, toHost, toWeb, host, link>> /\ j \notin web.started
      /\ web' = CreateUploadJob(web, j) /\ msgs' = msgs \o <<r, d>>
  BY DEF SendFiles
<1>2. /\ TypeOK /\ Flows /\ Beginnings /\ Reading /\ Stops /\ web \in WebState
      /\ loop \in Pump \cup {NoPump, LoopOver}
  BY DEF UploadInv, TypeOK
<1>3. /\ web' \in WebState /\ web'.fileNum = web.fileNum /\ web'.offset = web.offset
      /\ web'.late = web.late /\ web'.readJobs = web.readJobs \cup {j}
      /\ web'.started = web.started \cup {j} /\ web'.asked = web.asked
  BY <1>1, <1>2 DEF CreateUploadJob, WebState
<1>4. /\ r \in Message /\ r.kind = "receive" /\ r.file = <<j, 1>>
      /\ d \in Message /\ d.kind = "digest" /\ d.file = <<j, 1>>
  BY FirstFile, MessageMade
<1> HIDE DEF r, d
<1> DEFINE T == ToSet(toHost)
           M == ToSet(msgs)
           B == ToSet(toWeb)
<1>5. /\ T \in SUBSET Message /\ M \in SUBSET Message /\ B \in SUBSET Message
      /\ web.fileNum \in [Job -> Nat \ {0}] /\ web.offset \in [Job -> Nat]
  BY <1>2, Shapes
<1>6. /\ Flow(T, M, B, loop.job, web.fileNum, web.offset, host, link)
      /\ Begun(T \cup M, B, loop.job, web.fileNum, web.offset, host, web.started)
  BY <1>2 DEF Flows, Beginnings
<1> HIDE DEF T, M, B
<1>7. /\ Flow(T, M \cup {r, d}, B, loop.job, web.fileNum, web.offset, host, link)
      /\ \A m \in T \cup M : InLine(m, r) /\ InLine(m, d)
      /\ InLine(r, d)
  <2>1. j \notin web.started
    BY <1>1
  <2>2. PICK N \in [Job -> Nat \ {0}], O \in [Job -> Nat] : N = web.fileNum /\ O = web.offset
    BY <1>5
  <2>3. PICK J, H, L, S : J = loop.job /\ H = host /\ L = link /\ S = web.started
    OBVIOUS
  <2>4. Flow(T, M, B, J, N, O, H, L) /\ Begun(T \cup M, B, J, N, O, H, S) /\ j \notin S
    BY <1>6, <2>1, <2>2, <2>3
  <2>5. /\ Flow(T, M \cup {r, d}, B, J, N, O, H, L)
        /\ \A m \in T \cup M : InLine(m, r) /\ InLine(m, d)
        /\ InLine(r, d)
    BY <1>4, <1>5, <2>4, FlowStart
  <2> QED
    BY <2>2, <2>3, <2>5
<1>8. msgs' \in Seq(Message) /\ Sorted(msgs') /\ ToSet(msgs') = M \cup {r, d}
  <2>1. msgs \in Seq(Message) /\ Sorted(msgs)
    BY SameQueue
  <2>2. /\ msgs \o <<r>> \in Seq(Message) /\ Sorted(msgs \o <<r>>)
        /\ ToSet(msgs \o <<r>>) = M \cup {r}
    BY <1>4, <1>7, <2>1, QueueMore DEF M
  <2>3. \A m \in M \cup {r} : InLine(m, d)
    BY <1>7
  <2>4. /\ (msgs \o <<r>>) \o <<d>> \in Seq(Message) /\ Sorted((msgs \o <<r>>) \o <<d>>)
        /\ ToSet((msgs \o <<r>>) \o <<d>>) = M \cup {r} \cup {d}
    BY <1>4, <2>2, <2>3, QueueMore
  <2>5. msgs' = (msgs \o <<r>>) \o <<d>>
    BY <1>1, <1>4, <2>1, QueueTwo
  <2> QED
    BY <2>4, <2>5
<1>9. loop.job \in Job => loop.job # j
  BY <1>1, <1>6 DEF Begun
<1>10. loop'.job = loop.job
  BY <1>1
<1>11. Reading' /\ Stops'
  <2>1. Reading'
    BY <1>1, <1>2, <1>3 DEF Reading, Current
  <2>2. Stops'
    BY <1>1, <1>2, <1>3 DEF Stops
  <2> QED
    BY <2>1, <2>2
<1>12. TypeOK'
  BY <1>1, <1>2, <1>3, <1>8 DEF TypeOK
<1>13. Queues'
  BY <1>1, <1>8 DEF Queues, UploadInv
<1>14. Flows'
  BY <1>1, <1>3, <1>7, <1>8 DEF Flows, T, B
<1>15. Beginnings'
  <2>1. web'.readJobs \subseteq web'.started /\ web'.asked \subseteq web'.started
    BY <1>2, <1>3 DEF Beginnings
  <2>2. IsFiniteSet(web'.readJobs)
    <3>1. IsFiniteSet(web.readJobs \cup {j})
      BY <1>2, FS_Singleton, FS_Union DEF Beginnings
    <3> QED
      BY <1>3, <3>1
  <2>3. r.file[1] = j /\ d.file[1] = j
    BY <1>4
  <2>4. Begun(T \cup (M \cup {r, d}), B, loop.job, web.fileNum, web.offset, host, web'.started)
    BY <1>3, <1>6, <2>3 DEF Begun
  <2> QED
    BY <1>1, <1>3, <1>8, <2>1, <2>2, <2>4 DEF Beginnings, T, B
<1> QED
  BY <1>11, <1>12, <1>13, <1>14, <1>15 DEF UploadInv

Link == {"open", "down", "ended"}

(* The flow, with names for its parts. *)
LEMMA FlowNow ==
  ASSUME UploadInv
  PROVE \E T, M, B \in SUBSET Message, N \in [Job -> Nat \ {0}], O \in [Job -> Nat],
           J \in Job \cup {None}, H \in HostState, L \in Link :
          /\ T = ToSet(toHost) /\ M = ToSet(msgs) /\ B = ToSet(toWeb)
          /\ N = web.fileNum /\ O = web.offset /\ J = loop.job /\ H = host /\ L = link
          /\ Flow(T, M, B, J, N, O, H, L)
<1>1. TypeOK /\ Flows
  BY DEF UploadInv
<1>2. Flow(ToSet(toHost), ToSet(msgs), ToSet(toWeb), loop.job, web.fileNum, web.offset, host, link)
  BY <1>1 DEF Flows
<1> QED
  <2>1. /\ ToSet(toHost) \in SUBSET Message /\ ToSet(msgs) \in SUBSET Message
        /\ ToSet(toWeb) \in SUBSET Message
        /\ web.fileNum \in [Job -> Nat \ {0}] /\ web.offset \in [Job -> Nat]
        /\ loop.job \in Job \cup {None}
    BY <1>1, Shapes
  <2>2. host \in HostState /\ link \in Link
    BY <1>1 DEF TypeOK, Link
  <2> QED
    BY <1>2, <2>1, <2>2, Zenon

(* The host's confirmation. *)
LEMMA LoopConfirmStep ==
  ASSUME UploadInv, LoopConfirm
  PROVE UploadInv'
<1> DEFINE c == Head(toWeb)
           j == c.file[1]
           W == [web EXCEPT !.active[j] = TRUE, !.offset[j] = IF c.blk > 0 THEN c.blk ELSE @]
<1>1. /\ loop = NoPump /\ toWeb # << >> /\ c.kind = "confirm" /\ toWeb' = Tail(toWeb)
      /\ UNCHANGED <<toHost, host, link>>
  BY DEF LoopConfirm, Dequeue
<1>2. /\ TypeOK /\ Reading /\ Stops /\ Beginnings /\ web \in WebState
      /\ \A i \in Job : <<i, web.fileNum[i]>> \in File
  BY DEF UploadInv, TypeOK
<1>3. c \in Message /\ c \in ToSet(toWeb) /\ j \in Job /\ c.blk \in Nat
  BY <1>1, SameQueue, SetOfTail, MessageShape
<1>4. /\ toWeb' \in Seq(Message) /\ Sole(toWeb') /\ ToSet(toWeb') \subseteq ToSet(toWeb)
      /\ \A n \in ToSet(toWeb') : n.kind \in Answer => n.file[1] # j
  <2>1. c.kind \in Answer
    BY <1>1 DEF Answer
  <2> QED
    BY <1>1, <2>1, SameQueue, SetOfTail, OrderOfTail
<1>5. CASE j \notin web.readJobs
  <2>1. UNCHANGED <<web, msgs, loop>>
    BY <1>5 DEF LoopConfirm
  <2> QED
    BY <1>1, <1>2, <2>1, LoopIdleStep
<1>6. CASE j \in web.readJobs
  <2>1. PICK T, M, B \in SUBSET Message, N \in [Job -> Nat \ {0}], O \in [Job -> Nat],
             J \in Job \cup {None}, H \in HostState, L \in Link :
          /\ T = ToSet(toHost) /\ M = ToSet(msgs) /\ B = ToSet(toWeb)
          /\ N = web.fileNum /\ O = web.offset /\ J = loop.job /\ H = host /\ L = link
          /\ Flow(T, M, B, J, N, O, H, L)
    BY FlowNow
  <2>2. PICK B2 \in SUBSET B : B2 = ToSet(toWeb')
    BY <1>4, <2>1
  <2>3. PICK d0 \in B, jj \in Job : d0 = c /\ jj = j
    BY <1>3, <2>1
  <2>4. J = None /\ d0.kind = "confirm" /\ About(d0, jj) /\ Unanswered(B2, jj)
    BY <1>1, <1>4, <2>1, <2>2, <2>3 DEF NoPump, About, Unanswered
  <2>5. /\ Flow(T, M, B2, jj, N, [O EXCEPT ![jj] = d0.blk], H, L)
        /\ O[jj] = 0
    <3>1. Flow(T, M, B, J, N, O, H, L)
      BY <2>1
    <3>2. Flow(T, M, B2, jj, N, [O EXCEPT ![jj] = d0.blk], H, L)
      BY <2>4, <3>1, FlowPump
    <3>3. O[jj] = 0
      BY <2>4, <3>1 DEF Flow, Offsets, Answer, About
    <3> QED
      BY <3>2, <3>3
  <2>6. PICK O2 \in [Job -> Nat] : O2 = [O EXCEPT ![jj] = d0.blk]
    BY <1>3, <2>3
  <2>7. /\ W \in WebState /\ W.fileNum = N /\ W.offset = O2 /\ W.late = web.late
        /\ W.readJobs = web.readJobs /\ W.started = web.started /\ W.asked = web.asked
    <3>1. /\ W \in WebState /\ W.fileNum = web.fileNum /\ W.late = web.late
          /\ W.offset = [web.offset EXCEPT ![j] = IF c.blk > 0 THEN c.blk ELSE @]
          /\ W.readJobs = web.readJobs /\ W.started = web.started /\ W.asked = web.asked
      BY <1>2, <1>3 DEF WebState
    <3>2. (IF c.blk > 0 THEN c.blk ELSE O[jj]) = d0.blk
      BY <1>3, <2>3, <2>5
    <3>3. [web.offset EXCEPT ![j] = IF c.blk > 0 THEN c.blk ELSE @] = O2
      BY <2>1, <2>3, <2>6, <3>2
    <3> QED
      BY <2>1, <3>1, <3>3
  <2>8. O2[jj] <= Size(<<jj, N[jj]>>) /\ Flow(T, M, B2, jj, N, O2, H, L)
    BY <2>5, <2>6 DEF Flow, Offsets
  <2>9. /\ B2 \in SUBSET Message /\ <<jj, N[jj]>> \in File /\ Size(<<jj, N[jj]>>) \in Nat
        /\ \A i \in Job : i # jj => O2[i] = O[i]
    BY <1>2, <2>1, <2>6, FileShape
  <2>10. jj \in web.started /\ web.late[jj] = 0
    BY <1>2, <1>6, <2>3 DEF Beginnings, Stops
  <2>11. CASE O2[jj] < Size(<<jj, N[jj]>>)
    <3>1. web' = W /\ loop' = [job |-> j, stage |-> "read"] /\ UNCHANGED msgs
      BY <1>6, <2>3, <2>7, <2>11 DEF LoopConfirm, Current
    <3>2. loop' \in Pump /\ loop'.job = jj
      BY <1>3, <2>3, <3>1 DEF Pump
    <3>3. Reading'
      BY <2>3, <2>7, <2>11, <3>1, <3>2 DEF Reading, Current
    <3>4. Stops'
      BY <1>2, <2>7, <2>10, <3>1, <3>2 DEF Stops
    <3>5. Flow(ToSet(toHost), ToSet(msgs'), ToSet(toWeb'), loop'.job, web'.fileNum, web'.offset, host, link)
      BY <2>1, <2>2, <2>7, <2>8, <3>1, <3>2
    <3> HIDE DEF W, c, j
    <3>6. /\ web' \in WebState /\ web'.started = web.started \cup {jj}
          /\ web'.readJobs \subseteq web.readJobs \cup {jj} /\ web'.asked = web.asked
      BY <2>7, <2>10, <3>1
    <3>7. \A i \in Job : <<i, web'.fileNum[i]>> \in File
      BY <1>2, <2>1, <2>7, <3>1
    <3>8. \A i \in Job : i # jj => web'.fileNum[i] = web.fileNum[i] /\ web'.offset[i] = web.offset[i]
      BY <2>1, <2>7, <2>9, <3>1
    <3>9. /\ UNCHANGED <<toHost, host, link>> /\ msgs' \in Seq(Message) /\ Sorted(msgs')
          /\ \A m \in ToSet(msgs') : m \in ToSet(msgs) \/ m.file[1] = jj
      BY <1>1, <3>1, SameQueue
    <3>10. toWeb' \in Seq(Message) /\ Sole(toWeb') /\ ToSet(toWeb') \subseteq ToSet(toWeb)
      BY <1>4
    <3>11. loop' \in Pump \cup {NoPump, LoopOver} /\ loop'.job \in {jj, None}
      BY <3>2
    <3> QED
      BY <3>3, <3>4, <3>5, <3>6, <3>7, <3>8, <3>9, <3>10, <3>11, TokenStep
  <2>12. CASE ~(O2[jj] < Size(<<jj, N[jj]>>))
    <3>1. O2[jj] = Size(<<jj, N[jj]>>)
      BY <2>6, <2>8, <2>9, <2>12
    <3>2. \A i \in Job : <<i, N[i]>> \in File
      BY <1>2, <2>1
    <3>3. PICK X \in WebState : X = W
      BY <2>7
    <3>4. PICK V \in WebState, d \in Message : Finished(T, M, B2, N, O2, H, L, X, jj, V, d)
      <4>1. N = X.fileNum /\ O2 = X.offset
        BY <2>7, <3>3
      <4>2. Flow(T, M, B2, jj, N, O2, H, L) /\ B2 \in SUBSET Message
        BY <2>8, <2>9
      <4> QED
        BY <3>1, <3>2, <4>1, <4>2, FinishFlow
    <3>5. web' = FinishFile(W, j).web /\ msgs' = msgs \o FinishFile(W, j).out /\ UNCHANGED loop
      BY <1>6, <2>3, <2>7, <2>12 DEF LoopConfirm, Current, Advance
    <3> HIDE DEF W
    <3>6. web' = V /\ msgs' = msgs \o <<d>> /\ loop' = NoPump /\ loop'.job = None
      BY <1>1, <2>3, <3>3, <3>4, <3>5 DEF NoPump, Finished
    <3>7. msgs' \in Seq(Message) /\ Sorted(msgs') /\ ToSet(msgs') = M \cup {d}
      BY <2>1, <3>4, <3>6, SameQueue, QueueMore DEF Finished
    <3>8. Reading' /\ Stops'
      <4>1. None \notin Job
        BY FtUploadAssumption
      <4>2. Reading'
        BY <3>6, <4>1 DEF Reading
      <4>3. Stops'
        BY <1>2, <2>7, <3>3, <3>4, <3>6, <4>1 DEF Stops, Finished
      <4> QED
        BY <4>2, <4>3
    <3>9. Flow(ToSet(toHost), ToSet(msgs'), ToSet(toWeb'), loop'.job, web'.fileNum, web'.offset, host, link)
      BY <2>1, <2>2, <3>4, <3>6, <3>7 DEF Finished
    <3>10. /\ web' \in WebState /\ web'.started = web.started \cup {jj}
           /\ web'.readJobs \subseteq web.readJobs \cup {jj} /\ web'.asked = web.asked
      BY <2>7, <2>10, <3>3, <3>4, <3>6 DEF Finished
    <3>11. \A i \in Job : <<i, web'.fileNum[i]>> \in File
      BY <3>4, <3>6 DEF Finished
    <3>12. \A i \in Job : i # jj => web'.fileNum[i] = web.fileNum[i] /\ web'.offset[i] = web.offset[i]
      BY <2>1, <2>7, <2>9, <2>10, <3>3, <3>4, <3>6 DEF Finished
    <3>13. \A m \in ToSet(msgs') : m \in ToSet(msgs) \/ m.file[1] = jj
      BY <2>1, <3>4, <3>7 DEF Finished, About
    <3> HIDE DEF c, j
    <3> QED
      <4>1. loop' \in Pump \cup {NoPump, LoopOver} /\ loop'.job \in {jj, None}
        BY <3>6
      <4>2. UNCHANGED <<toHost, host, link>> /\ msgs' \in Seq(Message) /\ Sorted(msgs')
        BY <1>1, <3>7
      <4>3. toWeb' \in Seq(Message) /\ Sole(toWeb') /\ ToSet(toWeb') \subseteq ToSet(toWeb)
        BY <1>4
      <4> QED
        BY <3>8, <3>9, <3>10, <3>13, <3>11, <3>12, <4>1, <4>2, <4>3, TokenStep
  <2> QED
    BY <2>11, <2>12
<1> QED
  BY <1>5, <1>6

(* The announcement of the file behind that of c. *)
Announces(d, c, j) == d.kind = "digest" /\ d.file = <<j, c.file[2] + 1>>

(* A skipped file is over without a pump. *)
LEMMA FlowSkip ==
  ASSUME NEW T \in SUBSET Message, NEW M \in SUBSET Message, NEW B \in SUBSET Message,
         NEW J, NEW N \in [Job -> Nat \ {0}], NEW O \in [Job -> Nat], NEW H, NEW L, NEW B2 \in SUBSET B,
         NEW c \in B, NEW j \in Job, NEW d \in Message,
         Flow(T, M, B, J, N, O, H, L), J = None,
         c.kind = "skip", About(c, j), Unanswered(B2, j), Announces(d, c, j)
  PROVE /\ Flow(T, M \cup {d}, B2, J, [N EXCEPT ![j] = N[j] + 1], [O EXCEPT ![j] = 0], H, L)
        /\ \A m \in T \cup M : InLine(m, d)
<1>1. Across(T, M) /\ Tokens(T \cup M, B, J, N) /\ Answered(B, J, N, H)
  BY DEF Flow
<1>2. B2 \in SUBSET Message /\ c \in Message /\ None \notin Job
  BY FtUploadAssumption
<1>3. Flow(T, M, B2, J, N, O, H, L)
  BY <1>1, <1>2, FlowKept
<1>4. c.kind \in Answer
  BY DEF Answer
<1>5. c.file = <<j, N[j]>>
  <2>1. c.file = <<c.file[1], c.file[2]>>
    BY <1>2, MessageShape, FileShape
  <2> QED
    BY <1>1, <1>4, <2>1 DEF Tokens, About
<1>6. Free(T \cup M, B2, J, j)
  BY <1>1, <1>2, <1>4 DEF Tokens, Free, About
<1>7. Through(T \cup M, N, H, L, j)
  BY <1>1, <1>5 DEF Through, Covered, Exempt, Answered
<1>8. d.kind = "digest" /\ d.file = <<j, N[j] + 1>>
  BY <1>5 DEF Announces
<1> QED
  BY <1>2, <1>3, <1>6, <1>7, <1>8, FlowDigest, Zenon

(* The host has the file already. *)
LEMMA LoopSkipStep ==
  ASSUME UploadInv, LoopSkip
  PROVE UploadInv'
<1> DEFINE c == Head(toWeb)
           j == c.file[1]
           n == c.file[2]
<1>1. /\ loop = NoPump /\ toWeb # << >> /\ c.kind = "skip" /\ toWeb' = Tail(toWeb)
      /\ UNCHANGED <<toHost, host, link, loop>>
  BY DEF LoopSkip, Dequeue
<1>2. /\ TypeOK /\ Reading /\ Stops /\ Beginnings /\ web \in WebState
      /\ \A i \in Job : <<i, web.fileNum[i]>> \in File
  BY DEF UploadInv, TypeOK
<1>3. c \in Message /\ c \in ToSet(toWeb) /\ j \in Job /\ n \in Nat \ {0}
  BY <1>1, SameQueue, SetOfTail, MessageShape
<1>4. /\ toWeb' \in Seq(Message) /\ Sole(toWeb') /\ ToSet(toWeb') \subseteq ToSet(toWeb)
      /\ Unanswered(ToSet(toWeb'), j)
  <2>1. c.kind \in Answer
    BY <1>1 DEF Answer
  <2> QED
    BY <1>1, <2>1, SameQueue, SetOfTail, OrderOfTail DEF Unanswered
<1>5. CASE j \notin web.readJobs
  <2>1. UNCHANGED <<web, msgs>>
    BY <1>5 DEF LoopSkip
  <2> QED
    BY <1>1, <1>2, <2>1, LoopIdleStep
<1>6. CASE j \in web.readJobs /\ ~HasFile(j, n + 1)
  <2>1. web' = PushEnd(RemoveJob(web, j), {j}) /\ msgs' = msgs \o << >>
    BY <1>6 DEF LoopSkip, Advance, AdvanceUploadAfterFile
  <2>2. msgs' = msgs
    BY <2>1, SameQueue
  <2>3. /\ web' \in WebState /\ web'.fileNum = web.fileNum /\ web'.offset = web.offset
        /\ web'.late = web.late /\ web'.readJobs = web.readJobs \ {j} /\ web'.started = web.started
        /\ web'.asked = web.asked
    BY <1>2, <1>3, <2>1, EndedShape
  <2> QED
    BY <1>1, <2>2, <2>3, LoopIdleStep
<1>7. CASE j \in web.readJobs /\ HasFile(j, n + 1)
  <2>1. PICK T, M, B \in SUBSET Message, N \in [Job -> Nat \ {0}], O \in [Job -> Nat],
             J \in Job \cup {None}, H \in HostState, L \in Link :
          /\ T = ToSet(toHost) /\ M = ToSet(msgs) /\ B = ToSet(toWeb)
          /\ N = web.fileNum /\ O = web.offset /\ J = loop.job /\ H = host /\ L = link
          /\ Flow(T, M, B, J, N, O, H, L)
    BY FlowNow
  <2>2. PICK B2 \in SUBSET B : B2 = ToSet(toWeb')
    BY <1>4, <2>1
  <2>3. PICK d0 \in B, jj \in Job : d0 = c /\ jj = j
    BY <1>3, <2>1
  <2>4. J = None /\ d0.kind = "skip" /\ About(d0, jj) /\ Unanswered(B2, jj)
    BY <1>1, <1>4, <2>1, <2>2, <2>3 DEF NoPump, About
  <2> DEFINE e == Msg("digest", <<j, n + 1>>, 0)
  <2>5. <<j, n + 1>> \in File
    BY <1>3, <1>7, FileMade DEF HasFile
  <2>6. PICK d \in Message : d = e
    BY <2>5, MessageMade
  <2>7. Announces(d, d0, jj) /\ About(d, jj)
    <3>1. d.kind = "digest" /\ d.file = <<j, n + 1>>
      BY <2>6 DEF Msg
    <3>2. d.file[1] = jj /\ d.file = <<jj, d0.file[2] + 1>>
      BY <2>3, <3>1
    <3> QED
      BY <3>1, <3>2 DEF Announces, About
  <2> HIDE DEF e
  <2>8. /\ Flow(T, M \cup {d}, B2, J, [N EXCEPT ![jj] = N[jj] + 1], [O EXCEPT ![jj] = 0], H, L)
        /\ \A m \in T \cup M : InLine(m, d)
        /\ d0.file[2] = N[jj]
    <3>1. Flow(T, M, B, J, N, O, H, L)
      BY <2>1
    <3>2. Flow(T, M \cup {d}, B2, J, [N EXCEPT ![jj] = N[jj] + 1], [O EXCEPT ![jj] = 0], H, L)
      BY <2>4, <2>7, <3>1, FlowSkip, Zenon
    <3>3. \A m \in T \cup M : InLine(m, d)
      BY <2>4, <2>7, <3>1, FlowSkip, Zenon
    <3>4. d0.file[2] = N[jj]
      BY <2>4, <3>1 DEF Flow, Tokens, Answer, About
    <3> QED
      BY <3>2, <3>3, <3>4
  <2>9. PICK N2 \in [Job -> Nat \ {0}], O2 \in [Job -> Nat] :
          N2 = [N EXCEPT ![jj] = N[jj] + 1] /\ O2 = [O EXCEPT ![jj] = 0]
    <3>1. N[jj] + 1 \in Nat \ {0}
      OBVIOUS
    <3> QED
      BY <3>1
  <2>10. /\ Flow(T, M \cup {d}, B2, J, N2, O2, H, L) /\ \A m \in T \cup M : InLine(m, d)
         /\ n = N[jj]
    BY <2>3, <2>8, <2>9
  <2>11. web' = NextFile(web, j, n + 1) /\ msgs' = msgs \o <<e>>
    BY <1>7 DEF LoopSkip, Advance, AdvanceUploadAfterFile, e
  <2>12. /\ web' \in WebState /\ web'.fileNum = N2 /\ web'.offset = O2
         /\ web'.readJobs = web.readJobs /\ web'.started = web.started /\ web'.asked = web.asked
         /\ web'.late = web.late
    <3>1. PICK X \in WebState, k \in Nat \ {0} : X = web /\ k = n + 1
      BY <1>2, <1>3
    <3>2. web' = NextFile(X, jj, k)
      BY <2>3, <2>11, <3>1
    <3>3. /\ web' \in WebState /\ web'.fileNum = [X.fileNum EXCEPT ![jj] = k]
          /\ web'.offset = [X.offset EXCEPT ![jj] = 0]
          /\ web'.readJobs = X.readJobs /\ web'.started = X.started /\ web'.asked = X.asked
          /\ web'.late = X.late
      <4>1. /\ NextFile(X, jj, k) \in WebState
            /\ NextFile(X, jj, k).fileNum = [X.fileNum EXCEPT ![jj] = k]
            /\ NextFile(X, jj, k).offset = [X.offset EXCEPT ![jj] = 0]
            /\ NextFile(X, jj, k).readJobs = X.readJobs /\ NextFile(X, jj, k).started = X.started
            /\ NextFile(X, jj, k).asked = X.asked /\ NextFile(X, jj, k).late = X.late
        BY NextFileShape, Zenon
      <4> QED
        BY <3>2, <4>1, Zenon
    <3>4. k = N[jj] + 1 /\ X.fileNum = N /\ X.offset = O
      BY <2>1, <2>10, <3>1
    <3>5. web'.fileNum = N2 /\ web'.offset = O2
      BY <2>9, <3>3, <3>4
    <3> QED
      BY <3>1, <3>3, <3>5
  <2>13. msgs' \in Seq(Message) /\ Sorted(msgs') /\ ToSet(msgs') = M \cup {d}
    <3>1. \A m \in ToSet(msgs) : InLine(m, d)
      BY <2>1, <2>10
    <3>2. msgs' = msgs \o <<d>> /\ msgs \in Seq(Message) /\ Sorted(msgs)
      BY <2>6, <2>11, SameQueue
    <3> QED
      BY <2>1, <3>1, <3>2, QueueMore
  <2> HIDE DEF c, j, n
  <2>14. Reading' /\ Stops'
    <3>1. Reading'
      <4>1. None \notin Job /\ loop'.job = None
        BY <1>1, FtUploadAssumption DEF NoPump
      <4> QED
        BY <4>1 DEF Reading
    <3>2. Stops'
      BY <1>1, <1>2, <2>12 DEF Stops
    <3> QED
      BY <3>1, <3>2
  <2>15. Flow(ToSet(toHost), ToSet(msgs'), ToSet(toWeb'), loop'.job, web'.fileNum, web'.offset, host, link)
    BY <1>1, <2>1, <2>2, <2>10, <2>12, <2>13
  <2>16. \A i \in Job : <<i, web'.fileNum[i]>> \in File
    BY <1>2, <2>1, <2>3, <2>5, <2>9, <2>10, <2>12
  <2>17. \A i \in Job : i # jj => web'.fileNum[i] = web.fileNum[i] /\ web'.offset[i] = web.offset[i]
    BY <2>1, <2>9, <2>12
  <2>18. web'.started = web.started \cup {jj}
    BY <1>2, <1>7, <2>3, <2>12 DEF Beginnings
  <2>19. \A m \in ToSet(msgs') : m \in ToSet(msgs) \/ m.file[1] = jj
    BY <2>1, <2>7, <2>13 DEF About
  <2>20. loop' \in Pump \cup {NoPump, LoopOver} /\ loop'.job \in {jj, None}
    BY <1>1 DEF NoPump
  <2> QED
    BY <1>1, <1>4, <2>12, <2>13, <2>14, <2>15, <2>16, <2>17, <2>18, <2>19, <2>20, TokenStep
<1> QED
  BY <1>5, <1>6, <1>7

(* The pump has read a block: it is queued, and the file may be over. *)
LEMMA PumpReadStep ==
  ASSUME UploadInv, PumpRead
  PROVE UploadInv'
<1> DEFINE j == loop.job
           f == Current(web, j)
           b == web.offset[j] + 1
           W == [web EXCEPT !.offset[j] = b, !.late[j] = IF j \in web.readJobs THEN @ ELSE @ + 1]
           block == Msg("block", f, b)
<1>1. /\ loop.stage = "read" /\ UNCHANGED <<toHost, toWeb, host, link>>
      /\ IF b >= Size(f)
         THEN /\ web' = FinishFile(W, j).web
              /\ msgs' = Append(msgs, block) \o FinishFile(W, j).out
              /\ loop' = NoPump
         ELSE /\ web' = W
              /\ msgs' = Append(msgs, block)
              /\ loop' = [loop EXCEPT !.stage = "pause"]
  BY DEF PumpRead
<1>2. /\ TypeOK /\ Reading /\ Stops /\ Beginnings /\ web \in WebState
      /\ \A i \in Job : <<i, web.fileNum[i]>> \in File
      /\ loop \in Pump \cup {NoPump, LoopOver}
  BY DEF UploadInv, TypeOK
<1>3. loop \in Pump /\ j \in Job /\ None \notin Job
  BY <1>1, <1>2, FtUploadAssumption DEF Pump, NoPump, LoopOver
<1>4. PICK T, M, B \in SUBSET Message, N \in [Job -> Nat \ {0}], O \in [Job -> Nat],
           J \in Job \cup {None}, H \in HostState, L \in Link :
        /\ T = ToSet(toHost) /\ M = ToSet(msgs) /\ B = ToSet(toWeb)
        /\ N = web.fileNum /\ O = web.offset /\ J = loop.job /\ H = host /\ L = link
        /\ Flow(T, M, B, J, N, O, H, L)
  BY FlowNow
<1>5. PICK jj \in Job : jj = j /\ J = jj
  BY <1>3, <1>4
<1>6. /\ <<jj, N[jj]>> \in File /\ Size(<<jj, N[jj]>>) \in Nat /\ f = <<jj, N[jj]>>
      /\ O[jj] < Size(<<jj, N[jj]>>) /\ b = O[jj] + 1 /\ O[jj] \in Nat /\ b \in Nat
  BY <1>2, <1>4, <1>5, FileShape DEF Reading, Current
<1>7. PICK d \in Message : d = block
  BY <1>6, MessageMade
<1>8. d.kind = "block" /\ d.file = <<jj, N[jj]>> /\ d.blk = O[jj] + 1 /\ About(d, jj)
  BY <1>6, <1>7 DEF Msg, About
<1>9. PICK O2 \in [Job -> Nat] : O2 = [O EXCEPT ![jj] = O[jj] + 1]
  BY <1>6
<1>10. PICK P \in SUBSET Message : P = M \cup {d}
  OBVIOUS
<1>11. Flow(T, P, B, jj, N, O2, H, L) /\ \A m \in T \cup M : InLine(m, d)
  <2>1. Flow(T, M, B, jj, N, O, H, L)
    BY <1>4, <1>5
  <2>2. d.kind = "block" /\ d.file = <<jj, N[jj]>> /\ d.blk = O[jj] + 1
    BY <1>8
  <2>3. O[jj] < Size(<<jj, N[jj]>>) /\ Size(<<jj, N[jj]>>) \in Nat
    BY <1>6
  <2>4. Flow(T, M \cup {d}, B, jj, N, [O EXCEPT ![jj] = O[jj] + 1], H, L)
    BY <2>1, <2>2, <2>3, FlowBlock, Zenon
  <2>5. \A m \in T \cup M : InLine(m, d)
    BY <2>1, <2>2, <2>3, FlowBlock, Zenon
  <2> QED
    BY <1>9, <1>10, <2>4, <2>5
<1>12. /\ W \in WebState /\ W.fileNum = N /\ W.offset = O2
       /\ W.late = [web.late EXCEPT ![jj] = IF jj \in web.readJobs THEN @ ELSE @ + 1]
       /\ W.readJobs = web.readJobs /\ W.started = web.started /\ W.asked = web.asked
  <2>1. /\ W \in WebState /\ W.fileNum = web.fileNum /\ W.offset = [web.offset EXCEPT ![j] = b]
        /\ W.late = [web.late EXCEPT ![j] = IF j \in web.readJobs THEN @ ELSE @ + 1]
        /\ W.readJobs = web.readJobs /\ W.started = web.started /\ W.asked = web.asked
    <3>1. web.late[j] \in Nat
      BY <1>2, <1>3 DEF WebState
    <3>2. PICK l \in Nat : l = IF j \in web.readJobs THEN web.late[j] ELSE web.late[j] + 1
      BY <3>1
    <3>3. W = [web EXCEPT !.offset[j] = b, !.late[j] = l]
      BY <3>2
    <3>4. web.late \in [Job -> Nat]
      BY <1>2 DEF WebState
    <3>5. [web.late EXCEPT ![j] = l] = [web.late EXCEPT ![j] = IF j \in web.readJobs THEN @ ELSE @ + 1]
      BY <3>2, <3>4
    <3>6. PICK X \in WebState, o \in Nat : X = web /\ o = b
      BY <1>2, <1>6
    <3> DEFINE Y == W
    <3> HIDE DEF W, j, b
    <3>7. Y = [X EXCEPT !.offset[jj] = o, !.late[jj] = l]
      BY <1>5, <3>3, <3>6
    <3>8. /\ Y \in WebState /\ Y.fileNum = X.fileNum /\ Y.offset = [X.offset EXCEPT ![jj] = o]
          /\ Y.late = [X.late EXCEPT ![jj] = l]
          /\ Y.readJobs = X.readJobs /\ Y.started = X.started /\ Y.asked = X.asked
      BY <3>7 DEF WebState
    <3> QED
      BY <1>5, <3>5, <3>6, <3>8
  <2> QED
    BY <1>4, <1>5, <1>6, <1>9, <2>1
<1>13. /\ web.late[jj] = 0 /\ W.late[jj] <= 1 /\ jj \in web.started
       /\ jj \in web.readJobs => W.late[jj] = 0
       /\ \A i \in Job : i # jj => W.late[i] = web.late[i]
  <2>1. web.late \in [Job -> Nat]
    BY <1>2 DEF WebState
  <2>2. web.late[jj] = 0 /\ jj \in web.started
    BY <1>1, <1>2, <1>5 DEF Stops, Beginnings, Begun
  <2> QED
    BY <1>12, <2>1, <2>2
<1>14. /\ Append(msgs, d) \in Seq(Message) /\ Sorted(Append(msgs, d)) /\ ToSet(Append(msgs, d)) = P
  <2>1. msgs \in Seq(Message) /\ Sorted(msgs) /\ \A m \in ToSet(msgs) : InLine(m, d)
    BY <1>4, <1>11, SameQueue
  <2>2. Append(msgs, d) = msgs \o <<d>>
    BY <2>1, SetOfMore
  <2> QED
    BY <1>4, <1>10, <2>1, <2>2, QueueMore
<1>15. O2[jj] = b /\ \A i \in Job : i # jj => O2[i] = O[i]
  BY <1>6, <1>9
<1>16. toWeb' \in Seq(Message) /\ Sole(toWeb') /\ ToSet(toWeb') \subseteq ToSet(toWeb)
  BY <1>1, SameQueue
<1>17. CASE ~(b >= Size(f))
  <2>1. web' = W /\ msgs' = Append(msgs, d) /\ loop' = [loop EXCEPT !.stage = "pause"]
    BY <1>1, <1>7, <1>17
  <2>2. loop' \in Pump /\ loop'.job = jj /\ loop'.stage = "pause"
    BY <1>3, <1>5, <2>1 DEF Pump
  <2>3. Reading'
    <3>1. O2[jj] < Size(<<jj, N[jj]>>)
      BY <1>6, <1>15, <1>17
    <3> QED
      BY <1>12, <2>1, <2>2, <3>1 DEF Reading, Current
  <2>4. Stops'
    BY <1>2, <1>12, <1>13, <2>1, <2>2 DEF Stops
  <2> HIDE DEF W, j, f, b, block
  <2>5. Flow(ToSet(toHost), ToSet(msgs'), ToSet(toWeb'), loop'.job, web'.fileNum, web'.offset, host, link)
    BY <1>1, <1>4, <1>11, <1>12, <1>14, <2>1, <2>2
  <2>6. /\ web' \in WebState /\ web'.started = web.started \cup {jj}
        /\ web'.readJobs \subseteq web.readJobs \cup {jj} /\ web'.asked = web.asked
    BY <1>12, <1>13, <2>1
  <2>7. \A i \in Job : <<i, web'.fileNum[i]>> \in File
    BY <1>2, <1>4, <1>12, <2>1
  <2>8. \A i \in Job : i # jj => web'.fileNum[i] = web.fileNum[i] /\ web'.offset[i] = web.offset[i]
    BY <1>4, <1>12, <1>15, <2>1
  <2>9. \A m \in ToSet(msgs') : m \in ToSet(msgs) \/ m.file[1] = jj
    BY <1>4, <1>8, <1>10, <1>14, <2>1 DEF About
  <2>10. UNCHANGED <<toHost, host, link>> /\ msgs' \in Seq(Message) /\ Sorted(msgs')
    BY <1>1, <1>14, <2>1
  <2>11. loop' \in Pump \cup {NoPump, LoopOver} /\ loop'.job \in {jj, None}
    BY <2>2
  <2> QED
    BY <1>16, <2>3, <2>4, <2>5, <2>6, <2>7, <2>8, <2>9, <2>10, <2>11, TokenStep
<1>18. CASE b >= Size(f)
  <2>1. O2[jj] = Size(<<jj, N[jj]>>) /\ \A i \in Job : <<i, N[i]>> \in File
    BY <1>2, <1>4, <1>6, <1>15, <1>18
  <2>2. PICK X \in WebState : X = W
    BY <1>12
  <2>3. PICK V \in WebState, e \in Message : Finished(T, P, B, N, O2, H, L, X, jj, V, e)
    <3>1. N = X.fileNum /\ O2 = X.offset
      BY <1>12, <2>2
    <3>2. Flow(T, P, B, jj, N, O2, H, L)
      BY <1>11
    <3> QED
      BY <2>1, <3>1, <3>2, FinishFlow
  <2>4. /\ web' = FinishFile(W, j).web /\ msgs' = Append(msgs, d) \o FinishFile(W, j).out
        /\ loop' = NoPump
    BY <1>1, <1>7, <1>18
  <2> HIDE DEF W, f, b, block
  <2>5. web' = V /\ msgs' = Append(msgs, d) \o <<e>> /\ loop' = NoPump /\ loop'.job = None
    BY <1>5, <2>2, <2>3, <2>4 DEF NoPump, Finished
  <2> HIDE DEF j
  <2>6. msgs' \in Seq(Message) /\ Sorted(msgs') /\ ToSet(msgs') = P \cup {e}
    <3>1. \A m \in ToSet(Append(msgs, d)) : InLine(m, e)
      BY <1>14, <2>3 DEF Finished
    <3> QED
      BY <1>14, <2>5, <3>1, QueueMore
  <2>7. Reading'
    BY <1>3, <2>5 DEF Reading
  <2>8. Stops'
    <3>1. V.late = W.late /\ V.readJobs \subseteq web.readJobs /\ V.started = web.started
      BY <1>12, <2>2, <2>3 DEF Finished
    <3> QED
      BY <1>2, <1>3, <1>13, <2>5, <3>1 DEF Stops
  <2>9. Flow(ToSet(toHost), ToSet(msgs'), ToSet(toWeb'), loop'.job, web'.fileNum, web'.offset, host, link)
    BY <1>1, <1>4, <2>3, <2>5, <2>6 DEF Finished
  <2>10. /\ web' \in WebState /\ web'.started = web.started \cup {jj}
         /\ web'.readJobs \subseteq web.readJobs \cup {jj} /\ web'.asked = web.asked
    BY <1>12, <1>13, <2>2, <2>3, <2>5 DEF Finished
  <2>11. \A i \in Job : <<i, web'.fileNum[i]>> \in File
    BY <2>3, <2>5 DEF Finished
  <2>12. \A i \in Job : i # jj => web'.fileNum[i] = web.fileNum[i] /\ web'.offset[i] = web.offset[i]
    BY <1>4, <1>15, <2>3, <2>5 DEF Finished
  <2>13. \A m \in ToSet(msgs') : m \in ToSet(msgs) \/ m.file[1] = jj
    BY <1>4, <1>8, <1>10, <2>3, <2>6 DEF Finished, About
  <2>14. UNCHANGED <<toHost, host, link>>
    BY <1>1
  <2>15. loop' \in Pump \cup {NoPump, LoopOver} /\ loop'.job \in {jj, None}
    BY <2>5
  <2> QED
    BY <1>16, <2>6, <2>7, <2>8, <2>9, <2>10, <2>11, <2>12, <2>13, <2>14, <2>15, TokenStep
<1> QED
  BY <1>17, <1>18

-----------------------------------------------------------------------------
(* The host's steps: h is the message it takes, T2 what is behind it. *)

(* The flow, with names for its parts and those of the queue to the host. *)
LEMMA HostNow ==
  ASSUME UploadInv, toHost # << >>
  PROVE \E T, M, B, T2 \in SUBSET Message, N \in [Job -> Nat \ {0}], O \in [Job -> Nat],
           J \in Job \cup {None}, H \in HostState, L \in Link, h \in Message :
          /\ T = ToSet(toHost) /\ M = ToSet(msgs) /\ B = ToSet(toWeb)
          /\ N = web.fileNum /\ O = web.offset /\ J = loop.job /\ H = host /\ L = link
          /\ Flow(T, M, B, J, N, O, H, L)
          /\ h = Head(toHost) /\ T2 = ToSet(Tail(toHost)) /\ T = {h} \cup T2
          /\ \A n \in T2 \cup M : InLine(h, n)
<1>1. host \in HostState /\ Across(ToSet(toHost), ToSet(msgs)) /\ toHost \in Seq(Message) /\ Sorted(toHost)
  BY SameQueue DEF UploadInv, TypeOK
<1>2. /\ Head(toHost) \in Message /\ Head(toHost) \in ToSet(toHost) /\ Tail(toHost) \in Seq(Message)
      /\ ToSet(toHost) = {Head(toHost)} \cup ToSet(Tail(toHost))
  BY <1>1, SetOfTail
<1>3. \A n \in ToSet(Tail(toHost)) \cup ToSet(msgs) : InLine(Head(toHost), n)
  BY <1>1, <1>2, OrderOfTail DEF Across
<1>4. ToSet(Tail(toHost)) \in SUBSET Message
  BY <1>2, SetOf
<1>5. PICK T, M, B \in SUBSET Message, N \in [Job -> Nat \ {0}], O \in [Job -> Nat],
           J \in Job \cup {None}, H \in HostState, L \in Link :
        /\ T = ToSet(toHost) /\ M = ToSet(msgs) /\ B = ToSet(toWeb)
        /\ N = web.fileNum /\ O = web.offset /\ J = loop.job /\ H = host /\ L = link
        /\ Flow(T, M, B, J, N, O, H, L)
  BY FlowNow
<1>6. PICK T2 \in SUBSET Message, h \in Message : T2 = ToSet(Tail(toHost)) /\ h = Head(toHost)
  BY <1>2, <1>4
<1>7. T = {h} \cup T2 /\ (\A n \in T2 \cup M : InLine(h, n)) /\ H \in HostState
  BY <1>1, <1>2, <1>3, <1>5, <1>6
<1> QED
  BY <1>5, <1>6, <1>7, Zenon

(* What remains to be shown of a step of the host. *)
LEMMA HostGlue ==
  ASSUME UploadInv, toHost # << >>, toHost' = Tail(toHost), UNCHANGED <<web, loop, msgs, link>>,
         link # "down", host' \in HostState,
         host'.writeJobs \subseteq host.writeJobs \cup {Head(toHost).file[1]},
         host'.done \subseteq host.done \cup {Head(toHost).file[1]},
         toWeb' \in Seq(Message), Sole(toWeb'),
         \A n \in ToSet(toWeb') : n \in ToSet(toWeb) \/ n.file = Head(toHost).file,
         Flow(ToSet(toHost'), ToSet(msgs), ToSet(toWeb'), loop.job, web.fileNum, web.offset, host', link)
  PROVE UploadInv'
<1>1. TypeOK /\ Queues /\ Beginnings /\ Reading /\ Stops
  BY DEF UploadInv
<1>2. toHost \in Seq(Message) /\ Sorted(toHost)
  BY <1>1 DEF TypeOK, Queues
<1>3. /\ toHost' \in Seq(Message) /\ Head(toHost) \in ToSet(toHost)
      /\ ToSet(toHost') \subseteq ToSet(toHost) /\ Sorted(toHost')
  BY <1>2, SetOfTail, OrderOfTail
<1>4. TypeOK'
  BY <1>1, <1>3 DEF TypeOK
<1>5. Queues'
  BY <1>1, <1>3 DEF Queues
<1>6. Flows'
  BY DEF Flows
<1>7. Beginnings'
  <2>1. Begun(ToSet(toHost) \cup ToSet(msgs), ToSet(toWeb), loop.job, web.fileNum, web.offset,
              host, web.started)
    BY <1>1 DEF Beginnings
  <2>2. Begun(ToSet(toHost') \cup ToSet(msgs), ToSet(toWeb'), loop.job, web.fileNum, web.offset,
              host', web.started)
    BY <1>3, <2>1 DEF Begun
  <2> QED
    BY <1>1, <2>2 DEF Beginnings
<1>8. Reading' /\ Stops'
  BY <1>1 DEF Reading, Stops, Current
<1> QED
  BY <1>4, <1>5, <1>6, <1>7, <1>8 DEF UploadInv

(* The announcement, a cancellation, a neutral message, or one about a job *)
(* the host does not work on.                                              *)
Passes(h, H, K) ==
  \/ h.kind = "receive" /\ K.writeJobs = H.writeJobs \cup {h.file[1]}
  \/ h.kind \in Neutral /\ K.writeJobs \subseteq H.writeJobs
  \/ h.kind \in Content /\ h.file[1] \notin H.writeJobs /\ K.writeJobs = H.writeJobs

(* The host takes such a message. *)
LEMMA FlowPasses ==
  ASSUME NEW T \in SUBSET Message, NEW M \in SUBSET Message, NEW B \in SUBSET Message,
         NEW J, NEW N, NEW O, NEW H \in HostState, NEW K \in HostState, NEW L, NEW T2, NEW h,
         Flow(T, M, B, J, N, O, H, L), T = {h} \cup T2, \A n \in T2 \cup M : InLine(h, n),
         K.got = H.got, K.confirmed = H.confirmed, K.skipped = H.skipped, K.failed = H.failed,
         K.done = H.done, Passes(h, H, K)
  PROVE Flow(T2, M, B, J, N, O, K, L)
<1>1. H.done \subseteq Job
  BY DEF HostState
<1>2. ASSUME NEW i \in Job, Alive(T2 \cup M, K, i) PROVE Alive(T \cup M, H, i)
  <2>1. CASE \E m \in T2 \cup M : m.kind = "receive" /\ m.file[1] = i
    BY <2>1 DEF Alive
  <2>2. CASE i \in K.writeJobs /\ i \in H.writeJobs
    BY <2>2 DEF Alive
  <2>3. CASE i \in K.writeJobs /\ i \notin H.writeJobs
    <3>1. h.kind = "receive" /\ h.file[1] = i /\ h \in T \cup M
      BY <2>3 DEF Passes
    <3> QED
      BY <3>1 DEF Alive
  <2> QED
    BY <1>2, <2>1, <2>2, <2>3 DEF Alive
<1>3. ASSUME h.kind = "block" PROVE ~Alive(T2 \cup M, K, h.file[1])
  <2>1. h.kind \in Content /\ h.file[1] \notin K.writeJobs
    BY <1>3 DEF Passes, Neutral, Content
  <2>2. ASSUME NEW m \in T2 \cup M, m.kind = "receive" PROVE m.file[1] # h.file[1]
    BY <2>1, <2>2 DEF InLine
  <2> QED
    BY <2>1, <2>2 DEF Alive
<1> QED
  BY <1>1, <1>2, <1>3, FlowTaken

(* The host's jobs without and with one, its files left alone. *)
LEMMA JobsShape ==
  ASSUME NEW H \in HostState, NEW i \in Job, NEW K,
         K = [H EXCEPT !.writeJobs = @ \cup {i}] \/ K = [H EXCEPT !.writeJobs = @ \ {i}] \/ K = H
  PROVE /\ K \in HostState /\ K.got = H.got /\ K.confirmed = H.confirmed /\ K.skipped = H.skipped
        /\ K.failed = H.failed /\ K.done = H.done
        /\ K = [H EXCEPT !.writeJobs = @ \cup {i}] => K.writeJobs = H.writeJobs \cup {i}
        /\ K = [H EXCEPT !.writeJobs = @ \ {i}] => K.writeJobs = H.writeJobs \ {i}
        /\ K.writeJobs \subseteq H.writeJobs \cup {i}
BY DEF HostState

(* The host takes a message that leaves its files alone. *)
LEMMA HostPassStep ==
  ASSUME UploadInv, NEW f \in File,
         \/ HostReceive(f) \/ HostCancel(f) \/ HostIgnores(f)
         \/ ~Known(f) /\ (HostDigest(f) \/ HostBlock(f) \/ HostDone(f))
  PROVE UploadInv'
<1>1. /\ toHost # << >> /\ toHost' = Tail(toHost) /\ UNCHANGED <<web, loop, msgs, link, toWeb>>
      /\ link # "down" /\ f = Head(toHost).file
  BY DEF HostReceive, HostCancel, HostIgnores, HostDigest, HostBlock, HostDone, HostTakes
<1>2. PICK T, M, B, T2 \in SUBSET Message, N \in [Job -> Nat \ {0}], O \in [Job -> Nat],
           J \in Job \cup {None}, H \in HostState, L \in Link, h \in Message :
        /\ T = ToSet(toHost) /\ M = ToSet(msgs) /\ B = ToSet(toWeb)
        /\ N = web.fileNum /\ O = web.offset /\ J = loop.job /\ H = host /\ L = link
        /\ Flow(T, M, B, J, N, O, H, L)
        /\ h = Head(toHost) /\ T2 = ToSet(Tail(toHost)) /\ T = {h} \cup T2
        /\ \A n \in T2 \cup M : InLine(h, n)
  BY <1>1, HostNow
<1>3. PICK i \in Job : i = f[1] /\ i = h.file[1]
  BY <1>1, <1>2, FileShape
<1> DEFINE K == host'
<1>4. \/ h.kind = "receive" /\ K = [H EXCEPT !.writeJobs = @ \cup {i}]
      \/ h.kind = "cancel" /\ K = [H EXCEPT !.writeJobs = @ \ {i}]
      \/ h.kind \in {"confirm", "skip"} /\ K = H
      \/ h.kind \in Content /\ i \notin H.writeJobs /\ K = H
  BY <1>2, <1>3
     DEF HostReceive, HostCancel, HostIgnores, HostDigest, HostBlock, HostDone, HostTakes, Known, Content
<1>5. /\ K \in HostState /\ K.got = H.got /\ K.confirmed = H.confirmed /\ K.skipped = H.skipped
      /\ K.failed = H.failed /\ K.done = H.done
      /\ K = [H EXCEPT !.writeJobs = @ \cup {i}] => K.writeJobs = H.writeJobs \cup {i}
      /\ K = [H EXCEPT !.writeJobs = @ \ {i}] => K.writeJobs = H.writeJobs \ {i}
      /\ K.writeJobs \subseteq H.writeJobs \cup {i}
  BY <1>4, JobsShape
<1>6. Passes(h, H, K)
  BY <1>3, <1>4, <1>5 DEF Passes, Neutral
<1>7. Flow(T2, M, B, J, N, O, K, L)
  <2>1. Flow(T, M, B, J, N, O, H, L) /\ T = {h} \cup T2 /\ \A n \in T2 \cup M : InLine(h, n)
    BY <1>2
  <2>2. /\ K \in HostState /\ K.got = H.got /\ K.confirmed = H.confirmed /\ K.skipped = H.skipped
        /\ K.failed = H.failed /\ K.done = H.done
    BY <1>5
  <2> QED
    BY <1>6, <2>1, <2>2, FlowPasses, Zenon
<1>8. Flow(ToSet(toHost'), ToSet(msgs), ToSet(toWeb'), loop.job, web.fileNum, web.offset, host', link)
  BY <1>1, <1>2, <1>3, <1>7
<1>9. /\ host' \in HostState /\ host'.writeJobs \subseteq host.writeJobs \cup {Head(toHost).file[1]}
      /\ host'.done \subseteq host.done \cup {Head(toHost).file[1]}
  BY <1>2, <1>3, <1>5
<1>10. /\ toWeb' \in Seq(Message) /\ Sole(toWeb')
       /\ \A n \in ToSet(toWeb') : n \in ToSet(toWeb) \/ n.file = Head(toHost).file
  BY <1>1, SameQueue
<1> QED
  BY <1>1, <1>8, <1>9, <1>10, HostGlue

(* The host sends an answer about the file of the message it took. *)
LEMMA AnswerSent ==
  ASSUME UploadInv, NEW c \in Message, toWeb' = Append(toWeb, c), c.file = Head(toHost).file,
         c.kind \in Answer => Unanswered(ToSet(toWeb), c.file[1])
  PROVE /\ toWeb' \in Seq(Message) /\ Sole(toWeb') /\ ToSet(toWeb') = ToSet(toWeb) \cup {c}
        /\ \A n \in ToSet(toWeb') : n \in ToSet(toWeb) \/ n.file = Head(toHost).file
<1>1. toWeb \in Seq(Message) /\ Sole(toWeb)
  BY SameQueue
<1>2. toWeb' \in Seq(Message) /\ ToSet(toWeb') = ToSet(toWeb) \cup {c}
  BY <1>1, SetOfMore
<1>3. Sole(toWeb')
  BY <1>1, SoleMore DEF Unanswered
<1> QED
  BY <1>2, <1>3

(* The host takes Done of a job it works on. *)
LEMMA HostDoneStep ==
  ASSUME UploadInv, NEW f \in File, HostDone(f), Known(f)
  PROVE UploadInv'
<1> DEFINE e == Msg("done", f, 0)
<1>1. /\ toHost # << >> /\ toHost' = Tail(toHost) /\ UNCHANGED <<web, loop, msgs, link>>
      /\ link # "down" /\ f = Head(toHost).file /\ Head(toHost).kind = "done"
      /\ host' = [host EXCEPT !.writeJobs = @ \ {f[1]}, !.done = @ \cup {f[1]}]
      /\ toWeb' = Append(toWeb, e) /\ f[1] \in host.writeJobs
  BY DEF HostDone, HostTakes, Known
<1>2. PICK T, M, B, T2 \in SUBSET Message, N \in [Job -> Nat \ {0}], O \in [Job -> Nat],
           J \in Job \cup {None}, H \in HostState, L \in Link, h \in Message :
        /\ T = ToSet(toHost) /\ M = ToSet(msgs) /\ B = ToSet(toWeb)
        /\ N = web.fileNum /\ O = web.offset /\ J = loop.job /\ H = host /\ L = link
        /\ Flow(T, M, B, J, N, O, H, L)
        /\ h = Head(toHost) /\ T2 = ToSet(Tail(toHost)) /\ T = {h} \cup T2
        /\ \A n \in T2 \cup M : InLine(h, n)
  BY <1>1, HostNow
<1>3. PICK c \in Message : c = e /\ c.kind = "done" /\ c.file = f
  BY MessageMade
<1> HIDE DEF e
<1>4. PICK K : K = host'
  OBVIOUS
<1>5. /\ K \in HostState /\ K.got = H.got /\ K.confirmed = H.confirmed /\ K.skipped = H.skipped
      /\ K.failed = H.failed
      /\ K.done = H.done \cup {h.file[1]} /\ K.writeJobs = H.writeJobs \ {h.file[1]}
  <2>1. f[1] \in Job
    BY FileShape
  <2>2. K = [H EXCEPT !.writeJobs = @ \ {f[1]}, !.done = @ \cup {f[1]}] /\ f = h.file
    BY <1>1, <1>2, <1>4
  <2> QED
    BY <2>1, <2>2 DEF HostState
<1>6. Flow(T2, M, B \cup {c}, J, N, O, K, L)
  <2>1. Flow(T, M, B, J, N, O, H, L) /\ T = {h} \cup T2 /\ \A n \in T2 \cup M : InLine(h, n)
    BY <1>2
  <2>2. h.kind = "done" /\ c.kind = "done" /\ h.file[1] \in H.writeJobs
    BY <1>1, <1>2, <1>3
  <2>3. /\ K.got = H.got /\ K.confirmed = H.confirmed /\ K.skipped = H.skipped /\ K.failed = H.failed
        /\ K.done = H.done \cup {h.file[1]} /\ K.writeJobs = H.writeJobs \ {h.file[1]}
    BY <1>5
  <2> QED
    BY <2>1, <2>2, <2>3, FlowEnd, Zenon
<1>7. /\ toWeb' \in Seq(Message) /\ Sole(toWeb') /\ ToSet(toWeb') = ToSet(toWeb) \cup {c}
      /\ \A n \in ToSet(toWeb') : n \in ToSet(toWeb) \/ n.file = Head(toHost).file
  <2>1. toWeb' = Append(toWeb, c) /\ c.file = Head(toHost).file /\ c.kind \notin Answer
    BY <1>1, <1>3 DEF Answer
  <2> QED
    BY <2>1, AnswerSent
<1>8. Flow(ToSet(toHost'), ToSet(msgs), ToSet(toWeb'), loop.job, web.fileNum, web.offset, host', link)
  BY <1>1, <1>2, <1>4, <1>6, <1>7
<1>9. /\ host' \in HostState /\ host'.writeJobs \subseteq host.writeJobs \cup {Head(toHost).file[1]}
      /\ host'.done \subseteq host.done \cup {Head(toHost).file[1]}
  BY <1>2, <1>4, <1>5
<1> QED
  BY <1>1, <1>7, <1>8, <1>9, HostGlue

(* The two outcomes of a block. *)
LEMMA WroteShape ==
  ASSUME NEW H \in HostState, NEW h \in Message, NEW K,
         \/ K = [H EXCEPT !.got[h.file] = Append(@, h.blk)]
         \/ K = [H EXCEPT !.failed = @ \cup {h.file}]
  PROVE Wrote(h, H, K)
<1>1. h.file \in File /\ h.blk \in Nat
  BY MessageShape
<1>2. H.got \in [File -> Seq(Nat)] /\ H.got[h.file] \in Seq(Nat)
  BY <1>1 DEF HostState
<1>3. PICK s \in Seq(Nat) : s = Append(H.got[h.file], h.blk)
  <2>1. PICK g \in Seq(Nat), x \in Nat : g = H.got[h.file] /\ x = h.blk
    BY <1>1, <1>2
  <2>2. Append(g, x) \in Seq(Nat)
    OBVIOUS
  <2> QED
    BY <2>1, <2>2
<1>4. CASE K = [H EXCEPT !.got[h.file] = Append(@, h.blk)]
  <2>1. K = [H EXCEPT !.got[h.file] = s]
    BY <1>3, <1>4
  <2>2. /\ K \in HostState /\ K.got = [H.got EXCEPT ![h.file] = s]
        /\ K.writeJobs = H.writeJobs /\ K.done = H.done /\ K.skipped = H.skipped
        /\ K.confirmed = H.confirmed /\ K.failed = H.failed
    BY <1>1, <2>1 DEF HostState
  <2>3. K.got[h.file] = s /\ \A f \in File : f # h.file => K.got[f] = H.got[f]
    BY <1>1, <1>2, <2>2
  <2> QED
    BY <1>3, <2>2, <2>3 DEF Wrote
<1>5. CASE K = [H EXCEPT !.failed = @ \cup {h.file}]
  <2>1. /\ K \in HostState /\ K.got = H.got
        /\ K.writeJobs = H.writeJobs /\ K.done = H.done /\ K.skipped = H.skipped
        /\ K.confirmed = H.confirmed /\ K.failed = H.failed \cup {h.file}
    BY <1>1, <1>5 DEF HostState
  <2> QED
    BY <2>1 DEF Wrote
<1> QED
  BY <1>4, <1>5

(* The host takes a block of a job it works on. *)
LEMMA HostBlockStep ==
  ASSUME UploadInv, NEW f \in File, HostBlock(f), Known(f)
  PROVE UploadInv'
<1> DEFINE e == Msg("error", f, 0)
<1>1. /\ toHost # << >> /\ toHost' = Tail(toHost) /\ UNCHANGED <<web, loop, msgs, link>>
      /\ link # "down" /\ f = Head(toHost).file /\ Head(toHost).kind = "block"
      /\ f[1] \in host.writeJobs
      /\ \/ host' = [host EXCEPT !.got[f] = Append(@, Head(toHost).blk)] /\ toWeb' = toWeb
         \/ host' = [host EXCEPT !.failed = @ \cup {f}] /\ toWeb' = Append(toWeb, e)
  BY DEF HostBlock, HostTakes, Known
<1>2. PICK T, M, B, T2 \in SUBSET Message, N \in [Job -> Nat \ {0}], O \in [Job -> Nat],
           J \in Job \cup {None}, H \in HostState, L \in Link, h \in Message :
        /\ T = ToSet(toHost) /\ M = ToSet(msgs) /\ B = ToSet(toWeb)
        /\ N = web.fileNum /\ O = web.offset /\ J = loop.job /\ H = host /\ L = link
        /\ Flow(T, M, B, J, N, O, H, L)
        /\ h = Head(toHost) /\ T2 = ToSet(Tail(toHost)) /\ T = {h} \cup T2
        /\ \A n \in T2 \cup M : InLine(h, n)
  BY <1>1, HostNow
<1>3. PICK c \in Message : c = e /\ c.kind = "error" /\ c.file = f
  BY MessageMade
<1> HIDE DEF e
<1>4. /\ toWeb' \in Seq(Message) /\ Sole(toWeb')
      /\ \A n \in ToSet(toWeb') : n \in ToSet(toWeb) \/ n = c
  <2>1. CASE toWeb' = toWeb
    BY <2>1, SameQueue
  <2>2. CASE toWeb' = Append(toWeb, c)
    <3>1. c.file = Head(toHost).file /\ c.kind \notin Answer
      BY <1>1, <1>3 DEF Answer
    <3> QED
      BY <2>2, <3>1, AnswerSent
  <2> QED
    BY <1>1, <1>3, <2>1, <2>2
<1>5. PICK B2 \in SUBSET Message : B2 = ToSet(toWeb')
  BY <1>4, SetOf
<1>6. PICK K \in HostState : K = host' /\ Wrote(h, H, K)
  <2>1. f = h.file
    BY <1>1, <1>2
  <2>2. Wrote(h, H, host')
    BY <1>1, <1>2, <2>1, WroteShape
  <2> QED
    BY <2>2 DEF Wrote
<1>7. Flow(T2, M, B2, J, N, O, K, L)
  <2>1. Flow(T, M, B, J, N, O, H, L) /\ T = {h} \cup T2 /\ \A n \in T2 \cup M : InLine(h, n)
    BY <1>2
  <2>2. h.kind = "block" /\ h.file[1] \in H.writeJobs
    BY <1>1, <1>2
  <2>3. \A n \in B2 : n \in B \/ n.kind = "error"
    BY <1>2, <1>3, <1>4, <1>5
  <2> QED
    BY <1>6, <2>1, <2>2, <2>3, FlowWrite, ZenonT(30)
<1>8. Flow(ToSet(toHost'), ToSet(msgs), ToSet(toWeb'), loop.job, web.fileNum, web.offset, host', link)
  BY <1>1, <1>2, <1>5, <1>6, <1>7
<1>9. /\ host' \in HostState /\ host'.writeJobs \subseteq host.writeJobs \cup {Head(toHost).file[1]}
      /\ host'.done \subseteq host.done \cup {Head(toHost).file[1]}
  BY <1>2, <1>6 DEF Wrote
<1>10. \A n \in ToSet(toWeb') : n \in ToSet(toWeb) \/ n.file = Head(toHost).file
  BY <1>1, <1>3, <1>4
<1> QED
  BY <1>1, <1>4, <1>8, <1>9, <1>10, HostGlue

(* The answers. *)
LEMMA RepliedShape ==
  ASSUME NEW H \in HostState, NEW h \in Message, NEW c \in Message, NEW K, c.file = h.file,
         \/ /\ c.kind = "confirm" /\ c.blk <= Size(h.file)
            /\ K = [H EXCEPT !.confirmed = @ \cup {h.file}, !.got[h.file] = Prefix(c.blk)]
         \/ c.kind = "skip" /\ K = [H EXCEPT !.skipped = @ \cup {h.file}]
         \/ c.kind \in {"ask", "error"} /\ K = H
  PROVE Replied(h, c, H, K)
<1>1. h.file \in File /\ c.blk \in Nat /\ H.got \in [File -> Seq(Nat)]
  BY MessageShape DEF HostState
<1>2. CASE /\ c.kind = "confirm" /\ c.blk <= Size(h.file)
           /\ K = [H EXCEPT !.confirmed = @ \cup {h.file}, !.got[h.file] = Prefix(c.blk)]
  <2>1. PICK s \in Seq(Nat) : s = Prefix(c.blk)
    BY <1>1, PrefixGrows
  <2>2. K = [H EXCEPT !.confirmed = @ \cup {h.file}, !.got[h.file] = s]
    BY <1>2, <2>1
  <2>3. /\ K \in HostState /\ K.got = [H.got EXCEPT ![h.file] = s]
        /\ K.writeJobs = H.writeJobs /\ K.done = H.done /\ K.skipped = H.skipped
        /\ K.confirmed = H.confirmed \cup {h.file} /\ K.failed = H.failed
    BY <1>1, <2>2 DEF HostState
  <2>4. K.got[h.file] = s /\ \A f \in File : f # h.file => K.got[f] = H.got[f]
    BY <1>1, <2>3
  <2>5. c.kind \in Answer /\ c.kind # "skip"
    BY <1>2 DEF Answer
  <2>6. /\ H.confirmed \subseteq K.confirmed /\ H.skipped \subseteq K.skipped
        /\ c.file \in K.confirmed /\ c.blk <= Size(c.file) /\ K.got[c.file] = Prefix(c.blk)
    BY <1>2, <2>1, <2>3, <2>4
  <2> QED
    BY <2>3, <2>4, <2>5, <2>6 DEF Replied
<1>3. CASE c.kind = "skip" /\ K = [H EXCEPT !.skipped = @ \cup {h.file}]
  <2>1. /\ K \in HostState /\ K.got = H.got
        /\ K.writeJobs = H.writeJobs /\ K.done = H.done /\ K.skipped = H.skipped \cup {h.file}
        /\ K.confirmed = H.confirmed /\ K.failed = H.failed
    BY <1>1, <1>3 DEF HostState
  <2> QED
    BY <1>3, <2>1 DEF Replied, Answer
<1>4. CASE c.kind \in {"ask", "error"} /\ K = H
  BY <1>4 DEF Replied, Answer
<1> QED
  BY <1>2, <1>3, <1>4

(* The host answers a digest of a job it works on. *)
LEMMA HostDigestStep ==
  ASSUME UploadInv, NEW f \in File, HostDigest(f), Known(f)
  PROVE UploadInv'
<1>1. /\ toHost # << >> /\ toHost' = Tail(toHost) /\ UNCHANGED <<web, loop, msgs, link>>
      /\ link # "down" /\ f = Head(toHost).file /\ Head(toHost).kind = "digest"
      /\ f[1] \in host.writeJobs
  BY DEF HostDigest, HostTakes, Known
<1>2. PICK T, M, B, T2 \in SUBSET Message, N \in [Job -> Nat \ {0}], O \in [Job -> Nat],
           J \in Job \cup {None}, H \in HostState, L \in Link, h \in Message :
        /\ T = ToSet(toHost) /\ M = ToSet(msgs) /\ B = ToSet(toWeb)
        /\ N = web.fileNum /\ O = web.offset /\ J = loop.job /\ H = host /\ L = link
        /\ Flow(T, M, B, J, N, O, H, L)
        /\ h = Head(toHost) /\ T2 = ToSet(Tail(toHost)) /\ T = {h} \cup T2
        /\ \A n \in T2 \cup M : InLine(h, n)
  BY <1>1, HostNow
<1>3. PICK c \in Message : toWeb' = Append(toWeb, c) /\ Replied(h, c, H, host')
  <2>1. f = h.file /\ 0 \in Nat
    BY <1>1, <1>2
  <2>2. ASSUME NEW n \in 0..MaxResume, n <= Size(f),
               host' = [host EXCEPT !.confirmed = @ \cup {f}, !.got[f] = Prefix(n)],
               toWeb' = Append(toWeb, Msg("confirm", f, n))
        PROVE \E c \in Message : toWeb' = Append(toWeb, c) /\ Replied(h, c, H, host')
    <3>1. n \in Nat
      BY FtUploadAssumption
    <3>2. PICK c \in Message : c = Msg("confirm", f, n) /\ c.kind = "confirm" /\ c.file = f /\ c.blk = n
      BY <3>1, MessageMade
    <3>3. host' = [H EXCEPT !.confirmed = @ \cup {h.file}, !.got[h.file] = Prefix(c.blk)]
      BY <1>2, <2>1, <2>2, <3>2
    <3>4. c.kind = "confirm" /\ c.blk <= Size(h.file) /\ c.file = h.file
      BY <2>1, <2>2, <3>2
    <3>5. Replied(h, c, H, host')
      BY <3>3, <3>4, RepliedShape
    <3> QED
      BY <2>2, <3>2, <3>5
  <2>3. ASSUME NEW k \in {"skip", "ask", "error"}, toWeb' = Append(toWeb, Msg(k, f, 0)),
               IF k = "skip" THEN host' = [host EXCEPT !.skipped = @ \cup {f}] ELSE host' = host
        PROVE \E c \in Message : toWeb' = Append(toWeb, c) /\ Replied(h, c, H, host')
    <3>1. PICK c \in Message : c = Msg(k, f, 0) /\ c.kind = k /\ c.file = f /\ c.blk = 0
      BY <2>1, MessageMade
    <3> QED
      BY <1>2, <2>1, <2>3, <3>1, RepliedShape
  <2> QED
    BY <2>2, <2>3 DEF HostDigest, Known
<1>4. PICK K \in HostState : K = host' /\ Replied(h, c, H, K)
  BY <1>3 DEF Replied
<1>5. Flow(T2, M, B \cup {c}, J, N, O, K, L)
  <2>1. Flow(T, M, B, J, N, O, H, L) /\ T = {h} \cup T2 /\ \A n \in T2 \cup M : InLine(h, n)
    BY <1>2
  <2>2. h.kind = "digest" /\ h.file[1] \in H.writeJobs
    BY <1>1, <1>2
  <2> QED
    BY <1>4, <2>1, <2>2, FlowAnswer, Zenon
<1>6. Unanswered(ToSet(toWeb), c.file[1])
  <2>1. Tokens(T \cup M, B, J, N) /\ h \in T /\ h.kind \in Ask /\ c.file = h.file
    BY <1>1, <1>2, <1>4 DEF Flow, Ask, Replied
  <2>2. Unanswered(B, c.file[1])
    BY <2>1 DEF Tokens, Unanswered
  <2> QED
    BY <1>2, <2>2
<1>7. /\ toWeb' \in Seq(Message) /\ Sole(toWeb') /\ ToSet(toWeb') = ToSet(toWeb) \cup {c}
      /\ \A n \in ToSet(toWeb') : n \in ToSet(toWeb) \/ n.file = Head(toHost).file
  <2>1. c.file = Head(toHost).file
    BY <1>2, <1>4 DEF Replied
  <2> QED
    BY <1>3, <1>6, <2>1, AnswerSent
<1>8. Flow(ToSet(toHost'), ToSet(msgs), ToSet(toWeb'), loop.job, web.fileNum, web.offset, host', link)
  BY <1>1, <1>2, <1>4, <1>5, <1>7
<1>9. /\ host' \in HostState /\ host'.writeJobs \subseteq host.writeJobs \cup {Head(toHost).file[1]}
      /\ host'.done \subseteq host.done \cup {Head(toHost).file[1]}
  BY <1>2, <1>4 DEF Replied
<1> QED
  BY <1>1, <1>7, <1>8, <1>9, HostGlue

-----------------------------------------------------------------------------
(* Nothing is under way at first. *)
LEMMA UploadInit ==
  ASSUME Init
  PROVE UploadInv
<1>1. /\ web = [readJobs |-> {},
                fileNum |-> [j \in Job |-> 1], offset |-> [j \in Job |-> 0],
                active |-> [j \in Job |-> FALSE],
                started |-> {}, asked |-> {}, answered |-> {}, cancelled |-> {},
                ended |-> {}, late |-> [j \in Job |-> 0]]
      /\ loop = NoPump /\ msgs = << >> /\ toHost = << >> /\ toWeb = << >>
      /\ host = [writeJobs |-> {}, done |-> {}, got |-> [f \in File |-> << >>],
                 confirmed |-> {}, skipped |-> {}, failed |-> {}]
      /\ link = "open"
  BY DEF Init
<1>2. None \notin Job /\ loop.job = None /\ loop.stage = "next"
  BY <1>1, FtUploadAssumption DEF NoPump
<1>3. << >> \in Seq(Message) /\ << >> \in Seq(Nat) /\ Len(<< >>) = 0
  OBVIOUS
<1>4. ToSet(msgs) = {} /\ ToSet(toHost) = {} /\ ToSet(toWeb) = {}
  BY <1>1, OrderOfNone
<1>5. /\ web \in WebState /\ web.readJobs = {} /\ web.started = {} /\ web.asked = {}
      /\ \A j \in Job : web.fileNum[j] = 1 /\ web.offset[j] = 0 /\ web.late[j] = 0
  BY <1>1 DEF WebState
<1>6. host \in HostState /\ host.writeJobs = {} /\ host.done = {}
  BY <1>1, <1>3 DEF HostState
<1>7. TypeOK
  BY <1>1, <1>3, <1>5, <1>6, FirstFile DEF TypeOK
<1>8. Queues
  BY <1>1, <1>3 DEF Queues, Sorted, Sole
<1>9. Flows
  <2>1. Across({}, {})
    BY DEF Across
  <2>2. Tokens({} \cup {}, {}, None, web.fileNum)
    BY DEF Tokens
  <2>3. Offsets({} \cup {}, {}, None, web.fileNum, web.offset)
    BY <1>2 DEF Offsets
  <2>4. Answered({}, None, web.fileNum, host) /\ Blocks({} \cup {}, web.fileNum, web.offset, host)
    BY <1>2 DEF Answered, Blocks
  <2>5. \A j : ~Alive({} \cup {}, host, j)
    BY <1>6 DEF Alive
  <2>6. Sent({}, {} \cup {}, {}, None, web.fileNum, web.offset, host, link)
    BY <2>5 DEF Sent
  <2>7. Closed({} \cup {}, host)
    BY <1>6 DEF Closed
  <2> QED
    BY <1>2, <1>4, <2>1, <2>2, <2>3, <2>4, <2>6, <2>7 DEF Flows, Flow
<1>10. Beginnings
  BY <1>2, <1>4, <1>5, <1>6, FS_EmptySet DEF Beginnings, Begun
<1>11. Reading /\ Stops
  BY <1>2, <1>5 DEF Reading, Stops
<1> QED
  BY <1>7, <1>8, <1>9, <1>10, <1>11 DEF UploadInv

(* Every step of a user, of the loop and its pump, of the link and of the  *)
(* host keeps the invariant.                                               *)
LEMMA UploadNext ==
  ASSUME UploadInv, [Next]_vars
  PROVE UploadInv'
<1>1. ASSUME NEW j \in Job, SendFiles(j) PROVE UploadInv'
  BY <1>1, SendFilesStep
<1>2. ASSUME NEW j \in Job, SendNothing(j) PROVE UploadInv'
  BY <1>2, SendNothingStep
<1>3. ASSUME NEW j \in Job, CancelJob(j) PROVE UploadInv'
  BY <1>3, CancelJobStep
<1>4. ASSUME NEW j \in Job, NEW overwrite \in BOOLEAN, ConfirmOverrideFile(j, overwrite) PROVE UploadInv'
  BY <1>4, ConfirmOverrideFileStep
<1>5. CASE Close
  BY <1>5, CloseStep
<1>6. CASE FlushMsgs
  BY <1>6, FlushMsgsStep
<1>7. CASE LoopStep
  <2>1. CASE LoopConfirm
    BY <2>1, LoopConfirmStep
  <2>2. CASE LoopSkip
    BY <2>2, LoopSkipStep
  <2>3. CASE LoopAsk \/ LoopError \/ LoopDone
    BY <2>3, LoopOtherStep
  <2>4. CASE LoopRejected
    BY <2>4, EndLoopStep DEF LoopRejected
  <2> QED
    BY <1>7, <2>1, <2>2, <2>3, <2>4 DEF LoopStep
<1>8. CASE PumpStep \/ PumpReadFails
  <2>1. CASE PumpRead
    BY <2>1, PumpReadStep
  <2>2. CASE PumpResume
    BY <2>2, PumpResumeStep
  <2>3. CASE PumpReadFails
    BY <2>3, EndLoopStep DEF PumpReadFails
  <2> QED
    BY <1>8, <2>1, <2>2, <2>3 DEF PumpStep
<1>9. CASE SocketLost
  BY <1>9, SocketLostStep
<1>10. ASSUME NEW f \in File, HostStep(f) PROVE UploadInv'
  <2>1. CASE \/ HostReceive(f) \/ HostCancel(f) \/ HostIgnores(f)
             \/ ~Known(f) /\ (HostDigest(f) \/ HostBlock(f) \/ HostDone(f))
    BY <2>1, HostPassStep
  <2>2. CASE Known(f) /\ HostDigest(f)
    BY <2>2, HostDigestStep
  <2>3. CASE Known(f) /\ HostBlock(f)
    BY <2>3, HostBlockStep
  <2>4. CASE Known(f) /\ HostDone(f)
    BY <2>4, HostDoneStep
  <2> QED
    BY <1>10, <2>1, <2>2, <2>3, <2>4 DEF HostStep
<1>11. CASE UNCHANGED vars
  BY <1>11
     DEF vars, UploadInv, TypeOK, Queues, Flows, Beginnings, Reading, Stops, Current
<1> QED
  BY <1>1, <1>2, <1>3, <1>4, <1>5, <1>6, <1>7, <1>8, <1>9, <1>10, <1>11 DEF Next, UserStep

(* The invariant holds throughout: of a job at most one token is under     *)
(* way, and the blocks under way continue what the host has of their file. *)
THEOREM UploadsInOrder == Spec => []UploadInv
<1>1. Init => UploadInv
  BY UploadInit
<1>2. UploadInv /\ [Next]_vars => UploadInv'
  BY UploadNext
<1> QED
  BY <1>1, <1>2, PTL DEF Spec

(* A file of a job the host closed is the file the user picked, each block *)
(* once and in order, however many jobs share the queue and whatever was   *)
(* resumed, skipped, cancelled or lost on the way.                         *)
THEOREM HostFilesAlwaysWhole == Spec => []HostFilesWhole
<1>1. UploadInv => HostFilesWhole
  <2> SUFFICES ASSUME UploadInv PROVE HostFilesWhole
    OBVIOUS
  <2>1. TypeOK /\ Closed(ToSet(toHost) \cup ToSet(msgs), host)
    BY DEF UploadInv, Flows, Flow
  <2> QED
    BY <2>1 DEF HostFilesWhole, Closed, Exempt
<1> QED
  BY <1>1, UploadsInOrder, PTL

(* No block is queued or sent for a file the host has not asked for: the   *)
(* answer to a digest is awaited at every file of a job.                   *)
THEOREM BlocksAlwaysAwaitConfirm == Spec => []BlocksAwaitConfirm
<1>1. UploadInv => BlocksAwaitConfirm
  <2> SUFFICES ASSUME UploadInv, NEW i \in 1..Len(msgs \o toHost), (msgs \o toHost)[i].kind = "block"
               PROVE (msgs \o toHost)[i].file \in host.confirmed
    BY DEF BlocksAwaitConfirm
  <2>1. msgs \in Seq(Message) /\ toHost \in Seq(Message)
    BY SameQueue
  <2>2. /\ msgs \o toHost \in Seq(Message)
        /\ ToSet(msgs \o toHost) = ToSet(msgs) \cup ToSet(toHost)
    BY <2>1, SetOfBoth
  <2>3. (msgs \o toHost)[i] \in ToSet(toHost) \cup ToSet(msgs)
    BY <2>2, SetOf
  <2>4. Blocks(ToSet(toHost) \cup ToSet(msgs), web.fileNum, web.offset, host)
    BY DEF UploadInv, Flows, Flow
  <2> QED
    BY <2>3, <2>4 DEF Blocks
<1> QED
  BY <1>1, UploadsInOrder, PTL

(* A job that was cancelled, or whose session was closed, queues no more   *)
(* than the one block whose read was under way.                            *)
THEOREM CancelAlwaysStops == Spec => []CancelStopsUpload
<1>1. UploadInv => CancelStopsUpload
  BY DEF UploadInv, Stops, CancelStopsUpload
<1> QED
  BY <1>1, UploadsInOrder, PTL

=============================================================================
