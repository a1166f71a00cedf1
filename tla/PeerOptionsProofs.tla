------------------------- MODULE PeerOptionsProofs -------------------------
(***************************************************************************)
(* Proofs about PeerOptions, for any number of bridge calls: the host      *)
(* follows the session's options, the password is stored by consent only,  *)
(* and an update is lost to a stale copy only.                             *)
(***************************************************************************)
EXTENDS PeerOptions, TLAPS

rdOptions == session["rd"].options

(* Before its login a connection has sent nothing and the host knows       *)
(* nothing of it; the first message the host takes is a login request.     *)
Ordered ==
  /\ session["rd"].phase \in {"added", "connecting"} =>
       wire = <<>> /\ ~host.asked /\ replies = <<>>
  /\ session["rd"].phase \in {"login", "in"} => wire # <<>> \/ host.asked
  /\ replies # <<>> => host.asked
  /\ host.authorized => host.asked
  /\ ~host.authorized => host.options = {}
  /\ ~host.asked => host.login = {} /\ missed = {} /\ (wire # <<>> => wire[1].login)

(* What the host holds, or will apply when it authorizes the connection.   *)
Base == IF host.authorized THEN host.options ELSE host.login

(* Message m leads from the options a of the session to its options b.     *)
Carries(m, a, b, T) ==
  IF m.login THEN a = m.on /\ b = m.on
  ELSE \A f \in Option \ T : f \in b <=> f \in (a \cup m.on) \ m.off

(* h lists the options of the session before each message on its way, and  *)
(* now: the first agrees with the host, each message leads to the next.    *)
Agrees(a) == \A f \in Option \ (touched \cup missed) : f \in Base <=> f \in a
Trail(h) ==
  /\ Len(h) = Len(wire) + 1
  /\ \A i \in 1..Len(wire) : Carries(wire[i], h[i], h[i + 1], touched)
  /\ h[Len(wire) + 1] = rdOptions \cap Option
  /\ host.asked => Agrees(h[1])
Follows ==
  session["rd"].phase \in {"login", "in"} => \E h \in Seq(SUBSET Option) : Trail(h)

(* Without consent nothing anywhere says that a password is remembered. *)
Secret == {"remember", "password"}
Consented ==
  ~consent => /\ store \cap Secret = {}
              /\ \A s \in Session : session[s].options \cap Secret = {} /\ ~session[s].remember

OptionsInv == TypeOK /\ Ordered /\ Follows /\ Consented /\ UpdatesKept

-----------------------------------------------------------------------------
(* Sequences at their two ends. *)
LEMMA AppendAt ==
  ASSUME NEW S, NEW s \in Seq(S), NEW x \in S
  PROVE  /\ Append(s, x) \in Seq(S) /\ Append(s, x) # <<>>
         /\ Len(s) \in Nat /\ Len(Append(s, x)) = Len(s) + 1
         /\ \A i \in 1..Len(s) : Append(s, x)[i] = s[i]
         /\ Append(s, x)[Len(s) + 1] = x
  OBVIOUS

(* The rest of a sequence, by its elements. *)
LEMMA TailAt ==
  ASSUME NEW S, NEW s \in Seq(S), s # <<>>
  PROVE  /\ Tail(s) \in Seq(S) /\ Head(s) \in S /\ Head(s) = s[1]
         /\ Len(s) \in Nat /\ Len(s) > 0 /\ Len(Tail(s)) = Len(s) - 1
         /\ \A i \in 1..Len(Tail(s)) : Tail(s)[i] = s[i + 1]
  OBVIOUS

(* What a session's record is. *)
LEMMA SessionFields ==
  ASSUME TypeOK, NEW s \in Session
  PROVE  /\ session[s] \in State
         /\ session[s].phase \in {"added", "connecting", "login", "in"}
         /\ session[s].options \subseteq Field
         /\ session[s].remember \in BOOLEAN /\ session[s].password \in BOOLEAN
         /\ "rd" \in Session /\ "ft" \in Session /\ rdOptions \subseteq Field
  BY DEF TypeOK, State, Session, rdOptions

(* setOption keeps the types, and changes one field of one copy. *)
LEMMA SetOptionFacts ==
  ASSUME TypeOK, NEW s \in Session, NEW f \in Field, NEW v \in BOOLEAN, SetOption(s, f, v)
  PROVE  /\ session' \in [Session -> State] /\ store' \subseteq Field /\ stale' \in BOOLEAN
         /\ session'[s].options = Assign(session[s].options, f, v)
         /\ store' = Assign(session[s].options, f, v)
         /\ session'[s].phase = session[s].phase /\ session'[s].remember = session[s].remember
         /\ \A t \in Session \ {s} : session'[t] = session[t]
         /\ ~stale' => ~stale /\ session[s].options = store
<1>1. session[s] \in State /\ session[s].options \subseteq Field
  BY SessionFields
<1>2. session \in [Session -> State] /\ stale \in BOOLEAN
  BY DEF TypeOK
<1>3. Assign(session[s].options, f, v) \subseteq Field
  BY <1>1 DEF Assign
<1>4. [session[s] EXCEPT !.options = Assign(@, f, v)] \in State
  BY <1>1, <1>3 DEF State
<1>5. session' = [session EXCEPT ![s] = [session[s] EXCEPT !.options = Assign(@, f, v)]]
  BY <1>2 DEF SetOption
<1>6. session' \in [Session -> State]
  BY <1>2, <1>4, <1>5
<1>7. session'[s] = [session[s] EXCEPT !.options = Assign(@, f, v)]
  BY <1>2, <1>5
<1>8. \A t \in Session \ {s} : session'[t] = session[t]
  BY <1>2, <1>5
<1>9. /\ session'[s].options = Assign(session[s].options, f, v)
      /\ session'[s].phase = session[s].phase /\ session'[s].remember = session[s].remember
  BY <1>1, <1>7 DEF State
<1>10. store' = session'[s].options /\ stale' = (stale \/ session[s].options # store)
  BY DEF SetOption, SavePeerOptions
<1> QED
  BY <1>2, <1>3, <1>6, <1>8, <1>9, <1>10

(* A session's record is replaced by R. *)
LEMMA Replaced ==
  ASSUME TypeOK, NEW s \in Session, NEW R \in State, session' = [session EXCEPT ![s] = R]
  PROVE  /\ session' \in [Session -> State] /\ session'[s] = R
         /\ \A t \in Session \ {s} : session'[t] = session[t]
  BY DEF TypeOK

(* Fields that matter are fields, and secrets are no options. *)
LEMMA Fields ==
  /\ Option \subseteq Field /\ "custom" \in Field /\ "remember" \in Field /\ "password" \in Field
  /\ "view-only" \in Field /\ "info" \in Field
  /\ ViewOnly \subseteq Option /\ "privacy-mode" \in Option /\ Secret \cap Option = {}
  /\ "lock-after-session-end" \in ViewOnly
  /\ "custom" \notin Option \cup Secret /\ "view-only" \notin Option \cup Secret \cup {"custom"}
  /\ "remember" \notin Option \cup {"custom"} /\ "password" \notin Option \cup {"custom"}
  /\ "info" \notin Option \cup Secret \cup {"custom"}
  BY DEF Option, Field, ViewOnly, Secret

(* A message that is sent, or lost before the login. *)
LEMMA SendType ==
  ASSUME TypeOK, NEW on \in SUBSET Option, NEW off \in SUBSET Option, SendOption(on, off)
  PROVE  /\ wire' \in Seq(Message)
         /\ [login |-> FALSE, on |-> on, off |-> off] \in Message
         /\ session["rd"].phase \in {"login", "in"} =>
              wire' = Append(wire, [login |-> FALSE, on |-> on, off |-> off])
         /\ session["rd"].phase \notin {"login", "in"} => wire' = wire
<1>1. [login |-> FALSE, on |-> on, off |-> off] \in Message /\ wire \in Seq(Message)
  BY DEF Message, TypeOK
<1>2. Append(wire, [login |-> FALSE, on |-> on, off |-> off]) \in Seq(Message)
  BY <1>1
<1> QED
  BY <1>1, <1>2 DEF SendOption

-----------------------------------------------------------------------------
(* What each handler does, in terms of the fields the invariant names. *)
LEMMA StartFacts ==
  ASSUME TypeOK, NEW s \in Session, Start(s)
  PROVE  /\ TypeOK'
         /\ session'[s].phase = "connecting" /\ session'[s].options = store
         /\ session'[s].remember = session[s].remember
         /\ \A t \in Session \ {s} : session'[t] = session[t]
<1> DEFINE w == session[s].password \/ "password" \in store
           R == [session[s] EXCEPT !.phase = "connecting", !.options = store, !.password = w]
<1>1. session[s] \in State /\ store \subseteq Field
  BY SessionFields DEF TypeOK
<1>3. session' = [session EXCEPT ![s] = R]
  BY DEF Start, TypeOK
<1>w. w \in BOOLEAN
  OBVIOUS
<1> HIDE DEF w
<1>2. R \in State
  BY <1>1, <1>w DEF State
<1>4. R.phase = "connecting" /\ R.options = store /\ R.remember = session[s].remember
  BY <1>1 DEF State
<1> HIDE DEF R
<1>5. /\ session' \in [Session -> State] /\ session'[s] = R
      /\ \A t \in Session \ {s} : session'[t] = session[t]
  BY <1>2, <1>3, Replaced
<1>6. /\ wire' \in Seq(Message) /\ host' \in Host /\ replies' \in Seq({"wrong", "peer_info"})
      /\ touched' \subseteq Option /\ missed' \subseteq Option
  <2>1. NewHost \in Host
    BY DEF NewHost, Host
  <2>2. <<>> \in Seq(Message) /\ <<>> \in Seq({"wrong", "peer_info"})
    OBVIOUS
  <2>3. host' \in Host
    BY <2>1, Zenon DEF Start, TypeOK
  <2> QED
    BY <2>2, <2>3 DEF Start, TypeOK
<1>7. steps' \in 0..MaxSteps
  BY PeerOptionsAssumption DEF Start, Count, TypeOK
<1>8. TypeOK'
  BY <1>5, <1>6, <1>7 DEF Start, TypeOK
<1> QED
  BY <1>4, <1>5, <1>8

(* login() with the dialog. *)
LEMMA LoginFacts ==
  ASSUME TypeOK, NEW s \in Session, NEW v \in BOOLEAN, Login(s, v)
  PROVE  /\ TypeOK'
         /\ session[s].phase = "connecting" \/ (s = "rd" /\ session[s].phase = "login")
         /\ session'[s].phase = "login"
         /\ session'[s].options = IF s = "rd" THEN Assign(session[s].options, "remember", v)
                                              ELSE session[s].options
         /\ session'[s].remember = IF s = "ft" THEN v ELSE session[s].remember
         /\ \A t \in Session \ {s} : session'[t] = session[t]
         /\ [login |-> TRUE, on |-> GetOptionMessage(session'[s].options), off |-> {}] \in Message
<1> DEFINE O == IF s = "rd" THEN Assign(session[s].options, "remember", v) ELSE session[s].options
           R == [session[s] EXCEPT !.phase = "login", !.password = TRUE, !.options = O,
                                   !.remember = IF s = "ft" THEN v ELSE @]
           m == [login |-> TRUE, on |-> GetOptionMessage(session'[s].options), off |-> {}]
<1>1. session[s] \in State /\ session[s].options \subseteq Field
  BY SessionFields
<1>2. O \subseteq Field
  BY <1>1, Fields DEF Assign
<1>3. session' = [session EXCEPT ![s] = R]
  BY DEF Login, TypeOK
<1> HIDE DEF O
<1>4. R \in State
  BY <1>1, <1>2 DEF State
<1>5. R.phase = "login" /\ R.options = O /\ R.remember = IF s = "ft" THEN v ELSE session[s].remember
  BY <1>1 DEF State
<1> HIDE DEF R
<1>6. /\ session' \in [Session -> State] /\ session'[s] = R
      /\ \A t \in Session \ {s} : session'[t] = session[t]
  BY <1>3, <1>4, Replaced
<1>7. m \in Message
  BY DEF Message, GetOptionMessage
<1>8. wire' \in Seq(Message)
  <2>1. Append(wire, m) \in Seq(Message)
    BY <1>7 DEF TypeOK
  <2> HIDE DEF m
  <2> QED
    BY <2>1, SMTT(30) DEF Login, TypeOK, m
<1>9. store' \subseteq Field /\ stale' \in BOOLEAN /\ consent' \in BOOLEAN
  <2>1. store' \subseteq Field
    <3>1. store' = session'[s].options \/ store' = store
      BY Zenon DEF Login, SavePeerOptions
    <3>2. session'[s].options \subseteq Field
      BY <1>2, <1>5, <1>6
    <3>3. store \subseteq Field
      BY DEF TypeOK
    <3> QED
      BY <3>1, <3>2, <3>3
  <2>2. stale' \in BOOLEAN
    BY Zenon DEF Login, SavePeerOptions, TypeOK
  <2>3. consent' \in BOOLEAN
    BY Zenon DEF Login, SavePeerOptions, TypeOK
  <2> QED
    BY <2>1, <2>2, <2>3
<1>10. steps' \in 0..MaxSteps
  BY PeerOptionsAssumption DEF Login, Count, TypeOK
<1>11. TypeOK'
  BY <1>6, <1>8, <1>9, <1>10 DEF Login, TypeOK
<1>12. session[s].phase = "connecting" \/ (s = "rd" /\ session[s].phase = "login")
  BY DEF Login
<1> QED
  BY <1>5, <1>6, <1>7, <1>11, <1>12 DEF O

(* login() without it. *)
LEMMA AutoLoginFacts ==
  ASSUME TypeOK, NEW s \in Session, AutoLogin(s)
  PROVE  /\ TypeOK'
         /\ session[s].phase = "connecting" /\ session'[s].phase = "login"
         /\ session'[s].options = session[s].options /\ session'[s].remember = session[s].remember
         /\ \A t \in Session \ {s} : session'[t] = session[t]
         /\ [login |-> TRUE, on |-> GetOptionMessage(session[s].options), off |-> {}] \in Message
<1> DEFINE R == [session[s] EXCEPT !.phase = "login", !.password = TRUE]
           m == [login |-> TRUE, on |-> GetOptionMessage(session[s].options), off |-> {}]
<1>1. session[s] \in State
  BY SessionFields
<1>2. session' = [session EXCEPT ![s] = R]
  BY DEF AutoLogin, TypeOK
<1>3. R \in State /\ R.phase = "login" /\ R.options = session[s].options
      /\ R.remember = session[s].remember
  BY <1>1 DEF State
<1> HIDE DEF R
<1>4. /\ session' \in [Session -> State] /\ session'[s] = R
      /\ \A t \in Session \ {s} : session'[t] = session[t]
  BY <1>2, <1>3, Replaced
<1>5. m \in Message
  BY DEF Message, GetOptionMessage
<1>6. wire' \in Seq(Message)
  <2>1. Append(wire, m) \in Seq(Message)
    BY <1>5 DEF TypeOK
  <2> HIDE DEF m
  <2> QED
    BY <2>1 DEF AutoLogin, TypeOK, m
<1>7. TypeOK'
  BY <1>4, <1>6 DEF AutoLogin, TypeOK
<1>8. session[s].phase = "connecting"
  BY DEF AutoLogin
<1> QED
  BY <1>3, <1>4, <1>5, <1>7, <1>8

(* The end of a login: session s writes the options O. *)
LEMMA PeerInfoFacts ==
  ASSUME TypeOK, NEW s \in Session, NEW O \in SUBSET Field,
         session' = [session EXCEPT ![s].phase = "in", ![s].options = O],
         SavePeerOptions(s), replies' \in Seq({"wrong", "peer_info"}),
         UNCHANGED <<wire, host, touched, missed, latest, consent, steps>>
  PROVE  /\ TypeOK'
         /\ session'[s].phase = "in" /\ session'[s].options = O /\ store' = O
         /\ session'[s].remember = session[s].remember
         /\ \A t \in Session \ {s} : session'[t] = session[t]
         /\ ~stale' => ~stale /\ session[s].options = store
<1> DEFINE R == [session[s] EXCEPT !.phase = "in", !.options = O]
<1>1. session[s] \in State
  BY SessionFields
<1>2. session' = [session EXCEPT ![s] = R]
  BY DEF TypeOK
<1>3. R \in State /\ R.phase = "in" /\ R.options = O /\ R.remember = session[s].remember
  BY <1>1 DEF State
<1> HIDE DEF R
<1>4. /\ session' \in [Session -> State] /\ session'[s] = R
      /\ \A t \in Session \ {s} : session'[t] = session[t]
  BY <1>2, <1>3, Replaced
<1>5. store' = O /\ stale' \in BOOLEAN /\ (~stale' => ~stale /\ session[s].options = store)
  BY <1>3, <1>4 DEF SavePeerOptions, TypeOK
<1>6. TypeOK'
  BY <1>4, <1>5 DEF TypeOK
<1> QED
  BY <1>3, <1>4, <1>5, <1>6

-----------------------------------------------------------------------------
(* The host goes on following the session when nothing is sent and no      *)
(* option changes.                                                         *)
LEMMA FollowsKeep ==
  ASSUME Ordered, Follows, UNCHANGED <<wire, host, missed>>, touched \subseteq touched',
         replies' # <<>> => replies # <<>>,
         \/ session'["rd"].phase = session["rd"].phase
         \/ session["rd"].phase \in {"login", "in"} /\ session'["rd"].phase \in {"login", "in"},
         session["rd"].phase \in {"login", "in"} =>
           \A f \in Option : f \in rdOptions' <=> f \in rdOptions
  PROVE  Ordered' /\ Follows'
<1>1. Ordered'
  BY DEF Ordered
<1>2. Follows'
  <2> SUFFICES ASSUME session'["rd"].phase \in {"login", "in"}
               PROVE  \E h \in Seq(SUBSET Option) : Trail(h)'
    BY DEF Follows
  <2>1. session["rd"].phase \in {"login", "in"}
    OBVIOUS
  <2>2. rdOptions' \cap Option = rdOptions \cap Option
    BY <2>1
  <2>3. PICK h \in Seq(SUBSET Option) : Trail(h)
    BY <2>1 DEF Follows
  <2>4. ASSUME NEW i \in 1..Len(wire) PROVE Carries(wire[i], h[i], h[i + 1], touched')
    BY <2>3, <2>4 DEF Trail, Carries
  <2>5. Agrees(h[1]) => Agrees(h[1])'
    BY DEF Agrees, Base
  <2> QED
    BY <2>2, <2>3, <2>4, <2>5 DEF Trail
<1> QED
  BY <1>1, <1>2

(* ... and when a message says what changed. *)
LEMMA FollowsAppend ==
  ASSUME TypeOK, Ordered, Follows, UNCHANGED <<host, missed, replies>>, touched \subseteq touched',
         session["rd"].phase \in {"login", "in"}, session'["rd"].phase = session["rd"].phase,
         NEW m \in Message, wire' = Append(wire, m),
         Carries(m, rdOptions \cap Option, rdOptions' \cap Option, touched')
  PROVE  Ordered' /\ Follows'
<1>1. /\ Len(wire) \in Nat /\ Len(wire') = Len(wire) + 1 /\ wire' # <<>>
      /\ \A i \in 1..Len(wire) : wire'[i] = wire[i]
      /\ wire'[Len(wire) + 1] = m
  BY AppendAt DEF TypeOK
<1>2. Ordered'
  <2>1. ~host.asked => wire # <<>> /\ Len(wire) > 0
    BY <1>1 DEF Ordered, TypeOK
  <2> QED
    BY <1>1, <2>1 DEF Ordered
<1>3. PICK h \in Seq(SUBSET Option) : Trail(h)
  BY DEF Follows
<1>4. PICK x \in SUBSET Option : x = rdOptions' \cap Option
  OBVIOUS
<1>a. PICK g \in Seq(SUBSET Option) : g = Append(h, x)
  BY <1>3, AppendAt
<1>5. /\ Len(h) = Len(wire) + 1 /\ Len(g) = Len(h) + 1
      /\ \A i \in 1..Len(h) : g[i] = h[i]
      /\ g[Len(h) + 1] = x
  BY <1>3, <1>4, <1>a, AppendAt DEF Trail
<1>6. Carries(m, h[Len(wire) + 1], x, touched')
  BY <1>3, <1>4 DEF Trail
<1>7. ASSUME NEW i \in 1..Len(wire') PROVE Carries(wire'[i], g[i], g[i + 1], touched')
  <2>1. CASE i = Len(wire) + 1
    BY <1>1, <1>5, <1>6, <2>1
  <2>2. CASE i \in 1..Len(wire)
    <3>1. i \in 1..Len(h) /\ i + 1 \in 1..Len(h)
      BY <1>1, <1>5, <2>2
    <3>2. Carries(wire[i], h[i], h[i + 1], touched)
      BY <1>3, <2>2 DEF Trail
    <3>3. Carries(wire[i], h[i], h[i + 1], touched')
      BY <3>2 DEF Carries
    <3> QED
      BY <1>1, <1>5, <2>2, <3>1, <3>3
  <2> QED
    BY <1>1, <2>1, <2>2
<1>8. g[1] = h[1]
  BY <1>1, <1>5
<1>9. host.asked => Agrees(g[1])'
  BY <1>3, <1>8 DEF Trail, Agrees, Base
<1>10. g[Len(wire') + 1] = rdOptions' \cap Option
  BY <1>1, <1>4, <1>5
<1>11. Trail(g)'
  BY <1>1, <1>5, <1>7, <1>9, <1>10 DEF Trail
<1> QED
  BY <1>2, <1>5, <1>11 DEF Follows

(* The first login request says it all. *)
LEMMA FollowsLogin ==
  ASSUME TypeOK, Ordered, UNCHANGED <<host, missed, replies>>, session["rd"].phase = "connecting",
         session'["rd"].phase = "login",
         NEW m \in Message, wire' = Append(wire, m), m.login,
         m.on = rdOptions' \cap Option
  PROVE  Ordered' /\ Follows'
<1>1. wire = <<>> /\ ~host.asked /\ Len(wire) = 0
  BY DEF Ordered
<1>2. wire' # <<>> /\ Len(wire') = 1 /\ wire'[1] = m
  BY <1>1, AppendAt DEF TypeOK
<1>3. Ordered'
  BY <1>1, <1>2 DEF Ordered
<1>4. PICK h \in Seq(SUBSET Option) : Len(h) = 2 /\ h[1] = m.on /\ h[2] = m.on
  <2>1. m.on \in SUBSET Option
    BY DEF Message
  <2>2. <<m.on, m.on>> \in Seq(SUBSET Option)
    BY <2>1
  <2> QED
    BY <2>2
<1>5. \A i \in 1..Len(wire') : i = 1
  BY <1>2
<1>6. ASSUME NEW i \in 1..Len(wire') PROVE Carries(wire'[i], h[i], h[i + 1], touched')
  <2>1. i = 1 /\ i + 1 = 2
    BY <1>5
  <2>2. wire'[i] = m /\ h[i] = m.on /\ h[i + 1] = m.on
    BY <1>2, <1>4, <2>1
  <2>3. Carries(m, m.on, m.on, touched')
    BY DEF Carries
  <2> QED
    BY <2>2, <2>3
<1>7. Trail(h)'
  <2>1. Len(wire') + 1 = 2 /\ h[2] = rdOptions' \cap Option
    BY <1>2, <1>4
  <2>2. ~host'.asked
    BY <1>1
  <2> QED
    BY <1>4, <1>6, <2>1, <2>2 DEF Trail
<1> QED
  BY <1>3, <1>4, <1>7 DEF Follows

(* The host has taken a message, and agrees with what the next starts from. *)
LEMMA FollowsTake ==
  ASSUME TypeOK, Ordered, Follows, wire # <<>>, wire' = Tail(wire),
         UNCHANGED <<session, touched>>, host'.asked,
         ~host'.authorized => host'.options = {},
         \A a, b \in SUBSET Option :
           Carries(Head(wire), a, b, touched) /\ (host.asked => Agrees(a)) => Agrees(b)'
  PROVE  Ordered' /\ Follows'
<1>1. /\ Head(wire) = wire[1] /\ Len(wire) \in Nat /\ Len(wire) > 0
      /\ wire' \in Seq(Message) /\ Len(wire') = Len(wire) - 1
      /\ \A i \in 1..Len(wire') : wire'[i] = wire[i + 1]
  BY TailAt DEF TypeOK
<1>2. session["rd"].phase \in {"login", "in"}
  BY SessionFields DEF Ordered, Session
<1>3. Ordered'
  BY <1>1, <1>2 DEF Ordered
<1>4. PICK h \in Seq(SUBSET Option) : Trail(h)
  BY <1>2 DEF Follows
<1>5. Len(h) = Len(wire) + 1 /\ h # <<>>
  BY <1>1, <1>4 DEF Trail
<1> DEFINE g == Tail(h)
<1>6. /\ g \in Seq(SUBSET Option) /\ Len(g) = Len(h) - 1
      /\ \A i \in 1..Len(g) : g[i] = h[i + 1]
  BY <1>5, TailAt
<1> HIDE DEF g
<1>7. Len(g) = Len(wire') + 1
  BY <1>1, <1>5, <1>6
<1>8. ASSUME NEW i \in 1..Len(wire') PROVE Carries(wire'[i], g[i], g[i + 1], touched')
  <2>1. i \in 1..Len(g) /\ i + 1 \in 1..Len(g) /\ i + 1 \in 1..Len(wire)
    BY <1>1, <1>7
  <2>2. Carries(wire[i + 1], h[i + 1], h[(i + 1) + 1], touched)
    BY <1>4, <2>1 DEF Trail
  <2> QED
    BY <1>1, <1>6, <2>1, <2>2
<1>9. g[Len(wire') + 1] = rdOptions' \cap Option
  <2>1. Len(wire') + 1 \in 1..Len(g) /\ (Len(wire') + 1) + 1 = Len(wire) + 1
    BY <1>1, <1>7
  <2> QED
    BY <1>4, <1>6, <2>1 DEF Trail, rdOptions
<1>10. Agrees(g[1])'
  <2>1. 1 \in 1..Len(wire) /\ 1 \in 1..Len(g) /\ h[1] \in SUBSET Option /\ h[2] \in SUBSET Option
    BY <1>1, <1>5, <1>7
  <2>2. Carries(Head(wire), h[1], h[2], touched) /\ (host.asked => Agrees(h[1]))
    BY <1>1, <1>4, <2>1 DEF Trail
  <2>3. g[1] = h[2]
    BY <1>6, <2>1
  <2> QED
    BY <2>1, <2>2, <2>3
<1>11. Trail(g)'
  BY <1>7, <1>8, <1>9, <1>10 DEF Trail
<1> QED
  BY <1>3, <1>6, <1>11 DEF Follows

(* What the host's record is. *)
LEMMA HostFields ==
  ASSUME TypeOK
  PROVE  /\ host.asked \in BOOLEAN /\ host.authorized \in BOOLEAN
         /\ host.login \subseteq Option /\ host.options \subseteq Option
         /\ host = [asked |-> host.asked, login |-> host.login,
                    authorized |-> host.authorized, options |-> host.options]
  BY DEF TypeOK, Host

(* send_logon_response of a connection not yet authorized. *)
LEMMA LogonFacts ==
  ASSUME TypeOK, NEW H \in Host, SendLogonResponse(H)
  PROVE  /\ host' \in Host /\ replies' \in Seq({"wrong", "peer_info"})
         /\ host'.asked = H.asked /\ host'.authorized /\ host'.options = H.options \cup H.login
<1>1. host' = [H EXCEPT !.authorized = TRUE, !.options = H.options \cup H.login]
  BY DEF SendLogonResponse
<1>2. /\ host' \in Host /\ host'.asked = H.asked /\ host'.authorized
      /\ host'.options = H.options \cup H.login
  BY <1>1 DEF Host
<1>3. replies' \in Seq({"wrong", "peer_info"})
  BY DEF SendLogonResponse, TypeOK
<1> QED
  BY <1>2, <1>3

(* The host takes a login request. *)
LEMMA LoginTaken ==
  ASSUME TypeOK, Ordered, Follows, HostTakesLogin
  PROVE  TypeOK' /\ Ordered' /\ Follows'
<1> DEFINE m == Head(wire)
           L == IF m.on = {} THEN host.login ELSE m.on
           H == [host EXCEPT !.asked = TRUE, !.login = L]
<1>1. /\ wire # <<>> /\ m.login /\ wire' = Tail(wire)
      /\ UNCHANGED <<store, session, touched, latest, stale, consent, steps>>
  BY DEF HostTakesLogin
<1>2. m \in Message /\ wire' \in Seq(Message) /\ m.on \subseteq Option
  <2>1. m \in Message /\ wire' \in Seq(Message)
    BY <1>1, TailAt DEF TypeOK
  <2> QED
    BY <2>1 DEF Message
<1>3. L \subseteq Option
  BY <1>2, HostFields
<1>4. /\ H \in Host /\ H.asked /\ H.login = L /\ H.authorized = host.authorized
      /\ H.options = host.options
  BY <1>3, HostFields DEF TypeOK, Host
<1>5. \/ /\ host.authorized /\ UNCHANGED <<host, replies, missed>>
      \/ /\ ~host.authorized
         /\ missed' = IF m.on = {} THEN missed \cap host.login ELSE {}
         /\ \/ SendLogonResponse(H)
            \/ host' = H /\ replies' = Append(replies, "wrong")
            \/ host' = H /\ UNCHANGED replies
  BY Zenon DEF HostTakesLogin
<1> HIDE DEF H
<1>6. CASE host.authorized /\ UNCHANGED <<host, replies, missed>>
  <2>1. TypeOK'
    BY <1>1, <1>2, <1>6 DEF TypeOK
  <2>2. ASSUME NEW a \in SUBSET Option, NEW b \in SUBSET Option,
               Carries(m, a, b, touched), host.asked => Agrees(a)
        PROVE  Agrees(b)'
    BY <1>1, <1>6, <2>2 DEF Carries, Agrees, Base, Ordered
  <2>3. host'.asked
    BY <1>6 DEF Ordered
  <2> QED
    BY <1>1, <1>6, <2>1, <2>2, <2>3, FollowsTake
<1>7. CASE /\ ~host.authorized
           /\ missed' = IF m.on = {} THEN missed \cap host.login ELSE {}
           /\ \/ SendLogonResponse(H)
              \/ host' = H /\ replies' = Append(replies, "wrong")
              \/ host' = H /\ UNCHANGED replies
  <2>1. /\ host' \in Host /\ replies' \in Seq({"wrong", "peer_info"}) /\ host'.asked
        /\ ~host'.authorized => host'.options = {} /\ host'.login = L
        /\ host'.authorized => host'.options = L
    <3>1. host.options = {} /\ replies \in Seq({"wrong", "peer_info"})
      BY <1>7 DEF Ordered, TypeOK
    <3>2. CASE SendLogonResponse(H)
      BY <1>4, <3>1, <3>2, LogonFacts
    <3>3. CASE host' = H /\ replies' = Append(replies, "wrong")
      BY <1>4, <1>7, <3>1, <3>3
    <3>4. CASE host' = H /\ UNCHANGED replies
      BY <1>4, <1>7, <3>1, <3>4
    <3> QED
      BY <1>7, <3>2, <3>3, <3>4
  <2>2. Base' = L
    BY <2>1 DEF Base
  <2>3. missed' \subseteq Option
    BY <1>7 DEF TypeOK
  <2>4. TypeOK'
    BY <1>1, <1>2, <2>1, <2>3 DEF TypeOK
  <2>5. ASSUME NEW a \in SUBSET Option, NEW b \in SUBSET Option,
               Carries(m, a, b, touched), host.asked => Agrees(a)
        PROVE  Agrees(b)'
    <3>1. a = m.on /\ b = m.on
      BY <1>1, <2>5 DEF Carries
    <3>2. CASE m.on # {}
      BY <1>7, <2>2, <3>1, <3>2 DEF Agrees
    <3>3. CASE m.on = {}
      <4>1. L = host.login /\ missed' = missed \cap host.login
        BY <1>7, <3>3
      <4>2. ~host.asked => host.login = {}
        BY DEF Ordered
      <4>3. host.asked => \A f \in Option \ (touched \cup missed) : f \notin host.login
        BY <1>7, <2>5, <3>1, <3>3 DEF Agrees, Base
      <4> QED
        BY <1>1, <2>2, <3>1, <3>3, <4>1, <4>2, <4>3 DEF Agrees
    <3> QED
      BY <3>2, <3>3
  <2> QED
    BY <1>1, <2>1, <2>4, <2>5, FollowsTake
<1> QED
  BY <1>5, <1>6, <1>7

(* The host takes an option message, or drops it. *)
LEMMA OptionTaken ==
  ASSUME TypeOK, Ordered, Follows, HostTakesOption
  PROVE  TypeOK' /\ Ordered' /\ Follows'
<1> DEFINE m == Head(wire)
<1>1. /\ wire # <<>> /\ ~m.login /\ wire' = Tail(wire)
      /\ UNCHANGED <<store, session, replies, touched, latest, stale, consent, steps>>
  BY DEF HostTakesOption
<1>2. /\ wire' \in Seq(Message) /\ m = wire[1] /\ m.on \subseteq Option /\ m.off \subseteq Option
  <2>1. m \in Message /\ wire' \in Seq(Message) /\ m = wire[1]
    BY <1>1, TailAt DEF TypeOK
  <2> QED
    BY <2>1 DEF Message
<1>3. host.asked
  BY <1>1, <1>2 DEF Ordered
<1>4. CASE host.authorized
  <2>1. /\ host' = [host EXCEPT !.options = (host.options \cup m.on) \ m.off]
        /\ missed' = missed \ (m.on \cup m.off)
    BY <1>4 DEF HostTakesOption, UpdateOptions
  <2>2. /\ host' \in Host /\ host'.asked /\ host'.authorized
        /\ host'.options = (host.options \cup m.on) \ m.off
    BY <1>2, <1>3, <1>4, <2>1, HostFields DEF TypeOK, Host
  <2>3. missed' \subseteq Option
    BY <2>1 DEF TypeOK
  <2>4. TypeOK'
    BY <1>1, <1>2, <2>2, <2>3 DEF TypeOK
  <2>5. ASSUME NEW a \in SUBSET Option, NEW b \in SUBSET Option,
               Carries(m, a, b, touched), host.asked => Agrees(a)
        PROVE  Agrees(b)'
    <3>1. \A f \in Option \ touched : f \in b <=> f \in (a \cup m.on) \ m.off
      BY <1>1, <2>5 DEF Carries
    <3>2. \A f \in Option \ (touched \cup missed) : f \in host.options <=> f \in a
      BY <1>3, <1>4, <2>5 DEF Agrees, Base
    <3>3. Base' = (host.options \cup m.on) \ m.off
      BY <2>2 DEF Base
    <3> QED
      BY <1>1, <2>1, <3>1, <3>2, <3>3 DEF Agrees
  <2> QED
    BY <1>1, <2>2, <2>4, <2>5, FollowsTake
<1>5. CASE ~host.authorized
  <2>1. UNCHANGED host /\ missed' = missed \cup m.on \cup m.off
    BY <1>5 DEF HostTakesOption
  <2>2. TypeOK'
    BY <1>1, <1>2, <2>1 DEF TypeOK
  <2>3. ASSUME NEW a \in SUBSET Option, NEW b \in SUBSET Option,
               Carries(m, a, b, touched), host.asked => Agrees(a)
        PROVE  Agrees(b)'
    <3>1. \A f \in Option \ touched : f \in b <=> f \in (a \cup m.on) \ m.off
      BY <1>1, <2>3 DEF Carries
    <3>2. \A f \in Option \ (touched \cup missed) : f \in Base <=> f \in a
      BY <1>3, <2>3 DEF Agrees
    <3>3. Base' = Base
      BY <2>1 DEF Base
    <3> QED
      BY <1>1, <2>1, <3>1, <3>2, <3>3 DEF Agrees
  <2>4. host'.asked /\ (~host'.authorized => host'.options = {})
    BY <1>3, <2>1 DEF Ordered
  <2> QED
    BY <1>1, <2>2, <2>3, <2>4, FollowsTake
<1> QED
  BY <1>4, <1>5, HostFields

(* The host authorizes a connection that waited. *)
LEMMA AuthorizedLate ==
  ASSUME TypeOK, Ordered, Follows, HostAuthorizes
  PROVE  TypeOK' /\ Ordered' /\ Follows'
<1>1. /\ host.asked /\ ~host.authorized /\ SendLogonResponse(host)
      /\ UNCHANGED <<store, session, wire, touched, missed, latest, stale, consent, steps>>
  BY DEF HostAuthorizes
<1>2. /\ host' \in Host /\ replies' \in Seq({"wrong", "peer_info"})
      /\ host'.asked /\ host'.authorized /\ host'.options = host.options \cup host.login
  BY <1>1, LogonFacts DEF TypeOK
<1>3. TypeOK'
  BY <1>1, <1>2 DEF TypeOK
<1>4. host.options = {} /\ session["rd"].phase \in {"login", "in"}
  BY <1>1, SessionFields DEF Ordered, Session
<1>5. Base' = Base
  BY <1>1, <1>2, <1>4 DEF Base
<1>6. Ordered'
  BY <1>1, <1>2, <1>4 DEF Ordered
<1>7. PICK h \in Seq(SUBSET Option) : Trail(h)
  BY <1>4 DEF Follows
<1>8. Trail(h)'
  BY <1>1, <1>5, <1>7 DEF Trail, Agrees, rdOptions
<1> QED
  BY <1>3, <1>6, <1>7, <1>8 DEF Follows

-----------------------------------------------------------------------------
(* The initial states, with and without a record of an earlier visit. *)
LEMMA OptionsInit == Init => OptionsInv
<1> SUFFICES ASSUME Init PROVE OptionsInv
  OBVIOUS
<1> DEFINE R == [phase |-> "added", options |-> {}, remember |-> FALSE, password |-> FALSE]
<1>1. R \in State
  BY DEF State
<1>2. session \in [Session -> State] /\ \A s \in Session : session[s] = R
  BY <1>1 DEF Init
<1>3. /\ R.phase = "added" /\ R.options = {} /\ ~R.remember
  OBVIOUS
<1>4. <<>> \in Seq(Message) /\ <<>> \in Seq({"wrong", "peer_info"})
  OBVIOUS
<1>5. NewHost \in Host /\ ~NewHost.asked /\ ~NewHost.authorized
      /\ NewHost.options = {} /\ NewHost.login = {}
  BY DEF NewHost, Host
<1>6. store \in {{}, {"remember", "password"}} /\ store \subseteq Field
  BY Fields DEF Init
<1>a. consent \in BOOLEAN /\ stale \in BOOLEAN
  <2>1. consent = ("password" \in store) /\ stale = FALSE
    BY Zenon DEF Init
  <2>2. ("password" \in store) = TRUE \/ ("password" \in store) = FALSE
    OBVIOUS
  <2> QED
    BY <2>1, <2>2, Zenon
<1>b. steps \in 0..MaxSteps
  BY PeerOptionsAssumption DEF Init
<1>c. /\ wire \in Seq(Message)
      /\ host \in Host /\ replies \in Seq({"wrong", "peer_info"})
      /\ touched \subseteq Option /\ missed \subseteq Option /\ latest \subseteq Field
  BY <1>4, <1>5 DEF Init
<1>7. TypeOK
  BY <1>2, <1>6, <1>a, <1>b, <1>c, Zenon DEF TypeOK
<1> HIDE DEF R
<1>8. session["rd"] = R
  BY <1>2 DEF Session
<1>9. Ordered /\ Follows
  BY <1>3, <1>5, <1>8 DEF Init, Ordered, Follows
<1>10. Consented
  BY <1>2, <1>3, <1>6 DEF Init, Consented, Secret
<1>11. UpdatesKept
  BY <1>6, Fields DEF Init, UpdatesKept
<1> QED
  BY <1>7, <1>9, <1>10, <1>11 DEF OptionsInv

(* Every handler keeps the inductive invariant. *)
LEMMA OptionsStep == OptionsInv /\ [Next]_vars => OptionsInv'
<1> SUFFICES ASSUME OptionsInv, [Next]_vars PROVE OptionsInv'
  OBVIOUS
<1>0. TypeOK /\ Ordered /\ Follows /\ Consented /\ UpdatesKept
  BY DEF OptionsInv
<1>s. "rd" \in Session /\ "ft" \in Session /\ session["rd"].phase \in {"added", "connecting", "login", "in"}
  BY <1>0, SessionFields DEF Session
<1>c. ~consent => /\ store \cap Secret = {}
                  /\ \A s \in Session : session[s].options \cap Secret = {} /\ ~session[s].remember
  BY <1>0 DEF Consented
<1>u. ~stale => \A f \in Option \cup {"custom"} : f \in store <=> f \in latest
  BY <1>0 DEF UpdatesKept
<1>n. Count => steps' \in 0..MaxSteps
  BY <1>0, PeerOptionsAssumption DEF Count, TypeOK
<1>1. ASSUME NEW s \in Session, Start(s) PROVE OptionsInv'
  <2>1. /\ TypeOK' /\ session'[s].phase = "connecting" /\ session'[s].options = store
        /\ session'[s].remember = session[s].remember
        /\ \A t \in Session \ {s} : session'[t] = session[t]
    BY <1>0, <1>1, StartFacts
  <2>2. UNCHANGED <<store, latest, stale, consent>>
    BY <1>1 DEF Start
  <2>3. Consented'
    BY <1>c, <2>1, <2>2 DEF Consented
  <2>4. UpdatesKept'
    BY <1>u, <2>2 DEF UpdatesKept
  <2>5. CASE s = "rd"
    <3>1. wire' = <<>> /\ host' = NewHost /\ replies' = <<>> /\ missed' = {}
      BY <1>1, <2>5 DEF Start
    <3>2. Ordered' /\ Follows'
      BY <2>1, <2>5, <3>1 DEF Ordered, Follows, NewHost
    <3> QED
      BY <2>1, <2>3, <2>4, <3>2 DEF OptionsInv
  <2>6. CASE s # "rd"
    <3>1. UNCHANGED <<wire, touched, missed, replies, host>> /\ session'["rd"] = session["rd"]
      BY <1>1, <1>s, <2>1, <2>6 DEF Start
    <3>2. Ordered' /\ Follows'
      BY <1>0, <3>1, FollowsKeep DEF rdOptions
    <3> QED
      BY <2>1, <2>3, <2>4, <3>2 DEF OptionsInv
  <2> QED
    BY <2>5, <2>6
<1>2. ASSUME NEW s \in Session, AutoLogin(s) PROVE OptionsInv'
  <2> DEFINE m == [login |-> TRUE, on |-> GetOptionMessage(session[s].options), off |-> {}]
  <2>1. /\ TypeOK' /\ session[s].phase = "connecting" /\ session'[s].phase = "login"
        /\ session'[s].options = session[s].options /\ session'[s].remember = session[s].remember
        /\ \A t \in Session \ {s} : session'[t] = session[t]
        /\ m \in Message
    BY <1>0, <1>2, AutoLoginFacts
  <2>2. UNCHANGED <<store, host, replies, touched, missed, latest, stale, consent>>
    BY <1>2 DEF AutoLogin
  <2>3. Consented'
    BY <1>c, <2>1, <2>2 DEF Consented
  <2>4. UpdatesKept'
    BY <1>u, <2>2 DEF UpdatesKept
  <2>5. m.login /\ m.on = session[s].options \cap Option /\ m.off = {}
    BY DEF GetOptionMessage
  <2>6. CASE s = "rd"
    <3>1. wire' = Append(wire, m)
      BY <1>2, <2>6 DEF AutoLogin, Session
    <3> HIDE DEF m
    <3>2. Ordered' /\ Follows'
      BY <1>0, <2>1, <2>2, <2>5, <2>6, <3>1, FollowsLogin DEF rdOptions
    <3> QED
      BY <2>1, <2>3, <2>4, <3>2 DEF OptionsInv
  <2>7. CASE s = "ft"
    <3>1. UNCHANGED wire /\ session'["rd"] = session["rd"]
      BY <1>2, <1>s, <2>1, <2>7 DEF AutoLogin
    <3>2. Ordered' /\ Follows'
      BY <1>0, <2>2, <3>1, FollowsKeep DEF rdOptions
    <3> QED
      BY <2>1, <2>3, <2>4, <3>2 DEF OptionsInv
  <2> QED
    BY <2>6, <2>7 DEF Session
<1>3. ASSUME NEW s \in Session, NEW v \in BOOLEAN, Login(s, v) PROVE OptionsInv'
  <2> DEFINE m == [login |-> TRUE, on |-> GetOptionMessage(session'[s].options), off |-> {}]
  <2>1. /\ TypeOK'
        /\ session[s].phase = "connecting" \/ (s = "rd" /\ session[s].phase = "login")
        /\ session'[s].phase = "login"
        /\ session'[s].options = IF s = "rd" THEN Assign(session[s].options, "remember", v)
                                             ELSE session[s].options
        /\ session'[s].remember = IF s = "ft" THEN v ELSE session[s].remember
        /\ \A t \in Session \ {s} : session'[t] = session[t]
        /\ m \in Message
    BY <1>0, <1>3, LoginFacts
  <2>t. TypeOK'
    BY <1>0, <1>3, LoginFacts, Zenon
  <2>2. UNCHANGED <<host, replies, touched, missed, latest>> /\ consent' = (consent \/ v)
    BY <1>3 DEF Login
  <2>3. /\ s = "rd" => store' = session'[s].options /\ (~stale' => ~stale /\ session[s].options = store)
        /\ s = "ft" => UNCHANGED <<store, stale>>
    BY <1>3 DEF Login, SavePeerOptions
  <2>4. Consented'
    <3> SUFFICES ASSUME ~consent, ~v PROVE Consented'
      BY <2>2 DEF Consented
    <3>1. session'[s].options \subseteq session[s].options /\ ~session'[s].remember
      BY <1>c, <2>1 DEF Assign
    <3>2. store' \cap Secret = {}
      BY <1>c, <2>3, <3>1 DEF Session
    <3> QED
      BY <1>c, <2>1, <3>1, <3>2 DEF Consented
  <2>5. UpdatesKept'
    <3> SUFFICES ASSUME ~stale' PROVE UpdatesKept'
      BY DEF UpdatesKept
    <3>1. CASE s = "rd"
      <4>1. store' = Assign(store, "remember", v) /\ ~stale
        BY <2>1, <2>3, <3>1
      <4> QED
        BY <1>u, <2>2, <4>1, Fields DEF UpdatesKept, Assign
    <3>2. CASE s = "ft"
      BY <1>u, <2>2, <2>3, <3>2 DEF UpdatesKept
    <3> QED
      BY <3>1, <3>2 DEF Session
  <2>6. m.login /\ m.on = session'[s].options \cap Option /\ m.off = {}
    BY DEF GetOptionMessage
  <2>7. CASE s = "rd"
    <3>1. wire' = Append(wire, m)
      BY <1>3, <2>7 DEF Login, Session
    <3> HIDE DEF m
    <3>2. m \in Message /\ m.login /\ m.on = rdOptions' \cap Option /\ m.off = {}
      BY <2>1, <2>6, <2>7 DEF rdOptions
    <3>3. CASE session["rd"].phase = "connecting"
      <4>1. Ordered' /\ Follows'
        BY <1>0, <2>1, <2>2, <2>7, <3>1, <3>2, <3>3, FollowsLogin
      <4> QED
        BY <2>4, <2>5, <2>t, <4>1 DEF OptionsInv
    <3>4. CASE session["rd"].phase = "login"
      <4>1. rdOptions' \cap Option = rdOptions \cap Option
        BY <2>1, <2>7, Fields DEF rdOptions, Assign
      <4>2. Carries(m, rdOptions \cap Option, rdOptions' \cap Option, touched')
        BY <3>2, <4>1 DEF Carries
      <4>3. Ordered' /\ Follows'
        BY <1>0, <2>1, <2>2, <2>7, <3>1, <3>2, <3>4, <4>2, FollowsAppend
      <4> QED
        BY <2>4, <2>5, <2>t, <4>3 DEF OptionsInv
    <3> QED
      BY <2>1, <2>7, <3>3, <3>4
  <2>8. CASE s = "ft"
    <3>1. UNCHANGED wire /\ session'["rd"] = session["rd"]
      BY <1>3, <1>s, <2>1, <2>8 DEF Login
    <3>2. Ordered' /\ Follows'
      BY <1>0, <2>2, <3>1, FollowsKeep DEF rdOptions
    <3> QED
      BY <2>4, <2>5, <2>t, <3>2 DEF OptionsInv
  <2> QED
    BY <2>7, <2>8 DEF Session
(* A setOption of no secret field but to unset it, and of no option. *)
<1>o. ASSUME NEW s \in Session, NEW f \in Field, NEW v \in BOOLEAN, SetOption(s, f, v),
             f \in Secret => ~v, UNCHANGED consent,
             latest' = Assign(latest, f, v) \/ (UNCHANGED latest /\ f \notin Option \cup {"custom"}),
             wire' \in Seq(Message), host' = host, replies' = replies, missed' = missed, touched' \subseteq Option, latest' \subseteq Field,
             steps' \in 0..MaxSteps
      PROVE  /\ TypeOK' /\ Consented' /\ UpdatesKept'
             /\ session'["rd"].phase = session["rd"].phase
             /\ \A g \in Field : g \notin {f} \/ s # "rd" => (g \in rdOptions' <=> g \in rdOptions)
             /\ s = "rd" => (f \in rdOptions' <=> v)
  <2>1. /\ session' \in [Session -> State] /\ store' \subseteq Field /\ stale' \in BOOLEAN
        /\ session'[s].options = Assign(session[s].options, f, v)
        /\ store' = Assign(session[s].options, f, v)
        /\ session'[s].phase = session[s].phase /\ session'[s].remember = session[s].remember
        /\ \A t \in Session \ {s} : session'[t] = session[t]
        /\ ~stale' => ~stale /\ session[s].options = store
    BY <1>0, <1>o, SetOptionFacts
  <2>2. TypeOK'
    BY <1>0, <1>o, <2>1 DEF TypeOK
  <2>3. Consented'
    BY <1>c, <1>o, <2>1 DEF Consented, Assign
  <2>4. UpdatesKept'
    BY <1>u, <1>o, <2>1 DEF UpdatesKept, Assign
  <2>5. session'["rd"].phase = session["rd"].phase
    BY <1>s, <2>1
  <2>6. /\ \A g \in Field : g \notin {f} \/ s # "rd" => (g \in rdOptions' <=> g \in rdOptions)
        /\ s = "rd" => (f \in rdOptions' <=> v)
    BY <1>s, <2>1 DEF rdOptions, Assign
  <2> QED
    BY <2>2, <2>3, <2>4, <2>5, <2>6
<1>4. ASSUME NEW s \in Session, Forget(s) PROVE OptionsInv'
  <2>1. UNCHANGED <<wire, host, replies, touched, missed, latest, consent>> /\ Count
    BY <1>4 DEF Forget
  <2>2. CASE s = "rd"
    <3>1. SetOption(s, "remember", FALSE)
      BY <1>4, <2>2 DEF Forget
    <3>2. /\ TypeOK' /\ Consented' /\ UpdatesKept'
          /\ session'["rd"].phase = session["rd"].phase
          /\ \A g \in Option : g \in rdOptions' <=> g \in rdOptions
      BY <1>0, <1>n, <1>o, <2>1, <3>1, Fields DEF TypeOK
    <3>3. Ordered' /\ Follows'
      BY <1>0, <2>1, <3>2, FollowsKeep
    <3> QED
      BY <3>2, <3>3 DEF OptionsInv
  <2>3. CASE s # "rd"
    <3> DEFINE R == [session[s] EXCEPT !.remember = FALSE]
    <3>1. session' = [session EXCEPT ![s] = R] /\ UNCHANGED <<store, stale>>
      BY <1>0, <1>4, <2>3 DEF Forget, TypeOK
    <3>2. R \in State /\ R.options = session[s].options /\ ~R.remember
      BY <1>0, SessionFields DEF State
    <3> HIDE DEF R
    <3>3. /\ session' \in [Session -> State] /\ session'[s] = R
          /\ \A t \in Session \ {s} : session'[t] = session[t]
      BY <1>0, <3>1, <3>2, Replaced
    <3>4. TypeOK'
      BY <1>0, <1>n, <2>1, <3>1, <3>3 DEF TypeOK
    <3>5. Consented' /\ UpdatesKept'
      BY <1>c, <1>u, <2>1, <3>1, <3>2, <3>3 DEF Consented, UpdatesKept
    <3>6. Ordered' /\ Follows'
      BY <1>0, <1>s, <2>1, <2>3, <3>3, FollowsKeep DEF rdOptions
    <3> QED
      BY <3>4, <3>5, <3>6 DEF OptionsInv
  <2> QED
    BY <2>2, <2>3
<1>5. ASSUME NEW s \in Session, NEW v \in BOOLEAN, SetSessionOption(s, v) PROVE OptionsInv'
  <2>1. /\ UNCHANGED <<wire, host, replies, touched, missed, consent>> /\ Count /\ SetOption(s, "custom", v)
        /\ latest' = Assign(latest, "custom", v)
    BY <1>5 DEF SetSessionOption
  <2>2. latest' \subseteq Field
    BY <1>0, <2>1, Fields DEF TypeOK, Assign
  <2>3. /\ TypeOK' /\ Consented' /\ UpdatesKept'
        /\ session'["rd"].phase = session["rd"].phase
        /\ \A g \in Option : g \in rdOptions' <=> g \in rdOptions
    BY <1>0, <1>n, <1>o, <2>1, <2>2, Fields DEF TypeOK
  <2>4. Ordered' /\ Follows'
    BY <1>0, <2>1, <2>3, FollowsKeep
  <2> QED
    BY <2>3, <2>4 DEF OptionsInv
<1>6. CASE HandlePeerInfoRd
  <2> DEFINE w == /\ "remember" \in session["rd"].options
                  /\ session["rd"].password \/ "password" \in session["rd"].options
             O == Assign(session["rd"].options \cup {"info"}, "password", w)
  <2>1. /\ session' = [session EXCEPT !["rd"].phase = "in", !["rd"].options = O]
        /\ SavePeerOptions("rd") /\ UNCHANGED <<wire, host, touched, missed, latest, consent, steps>>
    BY <1>6 DEF HandlePeerInfoRd
  <2>r. /\ replies # <<>> /\ replies' \in Seq({"wrong", "peer_info"})
        /\ session["rd"].phase \in {"login", "in"}
    BY <1>0, <1>6, <1>s, TailAt DEF HandlePeerInfoRd, TypeOK, Ordered
  <2>2. session["rd"].options \subseteq Field
    BY <1>0, <1>s, SessionFields
  <2>3. O \subseteq Field
    BY <2>2, Fields DEF Assign
  <2>4. /\ \A g \in Option \cup {"custom"} : g \in O <=> g \in session["rd"].options
        /\ "remember" \in O <=> "remember" \in session["rd"].options
        /\ "password" \in O => "remember" \in session["rd"].options
    BY Fields DEF Assign
  <2> HIDE DEF O, w
  <2>5. /\ TypeOK'
        /\ session'["rd"].phase = "in" /\ session'["rd"].options = O /\ store' = O
        /\ session'["rd"].remember = session["rd"].remember
        /\ \A t \in Session \ {"rd"} : session'[t] = session[t]
        /\ ~stale' => ~stale /\ session["rd"].options = store
    BY <1>0, <1>s, <2>1, <2>3, <2>r, PeerInfoFacts
  <2>6. Consented'
    BY <1>c, <1>s, <2>1, <2>4, <2>5 DEF Consented, Secret
  <2>7. UpdatesKept'
    BY <1>u, <2>1, <2>4, <2>5 DEF UpdatesKept
  <2>8. Ordered' /\ Follows'
    BY <1>0, <2>1, <2>r, <2>4, <2>5, FollowsKeep DEF rdOptions
  <2> QED
    BY <2>5, <2>6, <2>7, <2>8 DEF OptionsInv
<1>7. CASE HandlePeerInfoFt
  <2> DEFINE ft == session["ft"]
             O == (IF ft.remember /\ ft.password THEN ft.options \cup {"password"} ELSE ft.options) \cup {"info"}
  <2>1. /\ session' = [session EXCEPT !["ft"].phase = "in", !["ft"].options = O]
        /\ SavePeerOptions("ft")
        /\ UNCHANGED <<wire, host, replies, touched, missed, latest, consent, steps>>
    BY <1>7 DEF HandlePeerInfoFt
  <2>r. replies' \in Seq({"wrong", "peer_info"})
    BY <1>0, <2>1 DEF TypeOK
  <2>2. ft.options \subseteq Field
    BY <1>0, <1>s, SessionFields
  <2>3. O \subseteq Field
    BY <2>2, Fields
  <2>4. /\ \A g \in Option \cup {"custom"} : g \in O <=> g \in ft.options
        /\ "remember" \in O <=> "remember" \in ft.options
        /\ "password" \in O => "password" \in ft.options \/ ft.remember
    BY Fields
  <2> HIDE DEF O
  <2>5. /\ TypeOK'
        /\ session'["ft"].phase = "in" /\ session'["ft"].options = O /\ store' = O
        /\ session'["ft"].remember = session["ft"].remember
        /\ \A t \in Session \ {"ft"} : session'[t] = session[t]
        /\ ~stale' => ~stale /\ session["ft"].options = store
    BY <1>0, <1>s, <2>1, <2>3, <2>r, PeerInfoFacts
  <2>6. Consented'
    BY <1>c, <1>s, <2>1, <2>4, <2>5 DEF Consented, Secret
  <2>7. UpdatesKept'
    BY <1>u, <2>1, <2>4, <2>5 DEF UpdatesKept
  <2>8. Ordered' /\ Follows'
    BY <1>0, <1>s, <2>1, <2>5, FollowsKeep DEF rdOptions
  <2> QED
    BY <2>5, <2>6, <2>7, <2>8 DEF OptionsInv
<1>8. ASSUME NEW f \in Option, ToggleOption(f) PROVE OptionsInv'
  <2> DEFINE v == f \notin session["rd"].options
             on == IF v THEN {f} ELSE {}
             off == IF v THEN {} ELSE {f}
             m == [login |-> FALSE, on |-> on, off |-> off]
  <2>1. /\ SetOption("rd", f, v) /\ SendOption(on, off) /\ latest' = Assign(latest, f, v)
        /\ UNCHANGED <<host, replies, touched, missed, consent>> /\ Count
    BY <1>8 DEF ToggleOption
  <2>2. v \in BOOLEAN /\ on \in SUBSET Option /\ off \in SUBSET Option /\ m.on = on /\ m.off = off /\ m.login = FALSE
    OBVIOUS
  <2>3. /\ v => f \in on /\ f \notin off
        /\ ~v => f \in off /\ f \notin on
        /\ on \subseteq {f} /\ off \subseteq {f}
    OBVIOUS
  <2> HIDE DEF v, on, off
  <2>4. /\ wire' \in Seq(Message) /\ m \in Message
        /\ session["rd"].phase \in {"login", "in"} => wire' = Append(wire, m)
        /\ session["rd"].phase \notin {"login", "in"} => wire' = wire
    BY <1>0, <2>1, <2>2, SendType
  <2>5. latest' \subseteq Field
    BY <1>0, <2>1, Fields DEF TypeOK, Assign
  <2> HIDE DEF m
  <2>6. /\ TypeOK' /\ Consented' /\ UpdatesKept'
        /\ session'["rd"].phase = session["rd"].phase
        /\ \A g \in Option : g \notin {f} => (g \in rdOptions' <=> g \in rdOptions)
        /\ f \in rdOptions' <=> v
    BY <1>0, <1>s, <1>n, <1>o, <2>1, <2>2, <2>4, <2>5, Fields DEF TypeOK
  <2>7. CASE session["rd"].phase \in {"login", "in"}
    <3>1. Carries(m, rdOptions \cap Option, rdOptions' \cap Option, touched')
      BY <2>2, <2>3, <2>6 DEF Carries
    <3>2. Ordered' /\ Follows'
      BY <1>0, <2>1, <2>4, <2>6, <2>7, <3>1, FollowsAppend
    <3> QED
      BY <2>6, <3>2 DEF OptionsInv
  <2>8. CASE session["rd"].phase \notin {"login", "in"}
    <3>1. Ordered' /\ Follows'
      BY <1>0, <2>1, <2>4, <2>6, <2>8, FollowsKeep
    <3> QED
      BY <2>6, <3>1 DEF OptionsInv
  <2> QED
    BY <2>7, <2>8
<1>9. CASE ToggleViewOnly
  <2> DEFINE v == "view-only" \notin session["rd"].options
             lock == {"lock-after-session-end"}
             on == IF v THEN ViewOnly ELSE lock
             off == IF v THEN {} ELSE ViewOnly \ lock
             m == [login |-> FALSE, on |-> on, off |-> off]
  <2>1. /\ SetOption("rd", "view-only", v) /\ SendOption(on, off)
        /\ latest' = Assign(latest, "view-only", v) /\ touched' = touched \cup ViewOnly
        /\ UNCHANGED <<host, replies, missed, consent>> /\ Count
    BY <1>9 DEF ToggleViewOnly
  <2>2. v \in BOOLEAN /\ on \in SUBSET Option /\ off \in SUBSET Option /\ m.on = on /\ m.off = off /\ m.login = FALSE
    BY Fields
  <2>3. on \subseteq ViewOnly /\ off \subseteq ViewOnly
    BY Fields
  <2> HIDE DEF v, on, off
  <2>4. /\ wire' \in Seq(Message) /\ m \in Message
        /\ session["rd"].phase \in {"login", "in"} => wire' = Append(wire, m)
        /\ session["rd"].phase \notin {"login", "in"} => wire' = wire
    BY <1>0, <2>1, <2>2, SendType
  <2>5. latest' \subseteq Field /\ touched' \subseteq Option
    BY <1>0, <2>1, Fields DEF TypeOK, Assign
  <2> HIDE DEF m
  <2>6. /\ TypeOK' /\ Consented' /\ UpdatesKept'
        /\ session'["rd"].phase = session["rd"].phase
        /\ \A g \in Option : g \in rdOptions' <=> g \in rdOptions
    BY <1>0, <1>s, <1>n, <1>o, <2>1, <2>2, <2>4, <2>5, Fields DEF TypeOK
  <2>7. CASE session["rd"].phase \in {"login", "in"}
    <3>1. Carries(m, rdOptions \cap Option, rdOptions' \cap Option, touched')
      BY <2>1, <2>2, <2>3, <2>6 DEF Carries
    <3>2. Ordered' /\ Follows'
      BY <1>0, <2>1, <2>4, <2>6, <2>7, <3>1, FollowsAppend
    <3> QED
      BY <2>6, <3>2 DEF OptionsInv
  <2>8. CASE session["rd"].phase \notin {"login", "in"}
    <3>1. Ordered' /\ Follows'
      BY <1>0, <2>1, <2>4, <2>6, <2>8, FollowsKeep
    <3> QED
      BY <2>6, <3>1 DEF OptionsInv
  <2> QED
    BY <2>7, <2>8
<1>10. ASSUME NEW v \in BOOLEAN, TogglePrivacyMode(v) PROVE OptionsInv'
  <2> DEFINE on == IF v THEN {"privacy-mode"} ELSE {}
             off == IF v THEN {} ELSE {"privacy-mode"}
             m == [login |-> FALSE, on |-> on, off |-> off]
  <2>1. /\ SendOption(on, off) /\ touched' = touched \cup {"privacy-mode"} /\ Count
        /\ UNCHANGED <<store, session, host, replies, missed, latest, stale, consent>>
    BY <1>10 DEF TogglePrivacyMode
  <2>2. /\ on \in SUBSET Option /\ off \in SUBSET Option /\ m.on = on /\ m.off = off /\ m.login = FALSE
        /\ on \subseteq {"privacy-mode"} /\ off \subseteq {"privacy-mode"}
    BY Fields
  <2> HIDE DEF on, off
  <2>4. /\ wire' \in Seq(Message) /\ m \in Message
        /\ session["rd"].phase \in {"login", "in"} => wire' = Append(wire, m)
        /\ session["rd"].phase \notin {"login", "in"} => wire' = wire
    BY <1>0, <2>1, <2>2, SendType
  <2> HIDE DEF m
  <2>5. TypeOK'
    BY <1>0, <1>n, <2>1, <2>4, Fields DEF TypeOK
  <2>6. Consented' /\ UpdatesKept' /\ rdOptions' = rdOptions
    BY <1>c, <1>u, <2>1 DEF Consented, UpdatesKept, rdOptions
  <2>7. CASE session["rd"].phase \in {"login", "in"}
    <3>1. Carries(m, rdOptions \cap Option, rdOptions' \cap Option, touched')
      BY <2>1, <2>2, <2>6 DEF Carries
    <3>2. Ordered' /\ Follows'
      BY <1>0, <2>1, <2>4, <2>7, <3>1, FollowsAppend
    <3> QED
      BY <2>5, <2>6, <3>2 DEF OptionsInv
  <2>8. CASE session["rd"].phase \notin {"login", "in"}
    <3>1. Ordered' /\ Follows'
      BY <1>0, <2>1, <2>4, <2>6, <2>8, FollowsKeep
    <3> QED
      BY <2>5, <2>6, <3>1 DEF OptionsInv
  <2> QED
    BY <2>7, <2>8
(* The record alone changes. *)
<1>r. ASSUME UNCHANGED <<session, wire, host, replies, touched, missed, stale, consent>>, TypeOK', UpdatesKept',
             store' \cap Secret \subseteq store
      PROVE  OptionsInv'
  <2>1. Consented'
    BY <1>c, <1>r DEF Consented
  <2>2. Ordered' /\ Follows'
    BY <1>0, <1>r, FollowsKeep DEF rdOptions
  <2> QED
    BY <1>r, <2>1, <2>2 DEF OptionsInv
<1>11. ASSUME NEW v \in BOOLEAN, SetPeerField(v) PROVE OptionsInv'
  <2>1. /\ UNCHANGED <<session, wire, host, replies, touched, missed, stale, consent>> /\ Count
        /\ store' = Assign(store, "custom", v) /\ latest' = Assign(latest, "custom", v)
    BY <1>11 DEF SetPeerField
  <2>2. store' \subseteq Field /\ latest' \subseteq Field /\ store' \cap Secret \subseteq store
    BY <1>0, <2>1, Fields DEF TypeOK, Assign
  <2>3. TypeOK'
    BY <1>0, <1>n, <2>1, <2>2 DEF TypeOK
  <2>4. UpdatesKept'
    BY <1>u, <2>1 DEF UpdatesKept, Assign
  <2> QED
    BY <1>r, <2>1, <2>2, <2>3, <2>4
<1>12. CASE RemovePeer
  <2>1. /\ UNCHANGED <<session, wire, host, replies, touched, missed, stale, consent>> /\ Count
        /\ store' = {} /\ latest' = {}
    BY <1>12 DEF RemovePeer
  <2>2. TypeOK'
    BY <1>0, <1>n, <2>1 DEF TypeOK
  <2>3. UpdatesKept'
    BY <2>1 DEF UpdatesKept
  <2> QED
    BY <1>r, <2>1, <2>2, <2>3
<1>13. CASE HostTakesLogin \/ HostAuthorizes \/ HostTakesOption
  <2>1. TypeOK' /\ Ordered' /\ Follows'
    BY <1>0, <1>13, LoginTaken, AuthorizedLate, OptionTaken
  <2>2. UNCHANGED <<store, session, latest, stale, consent>>
    BY <1>13 DEF HostTakesLogin, HostAuthorizes, HostTakesOption
  <2>3. Consented' /\ UpdatesKept'
    BY <1>c, <1>u, <2>2 DEF Consented, UpdatesKept
  <2> QED
    BY <2>1, <2>3 DEF OptionsInv
<1>15. CASE WrongPassword
  <2> DEFINE R == [session["rd"] EXCEPT !.password = FALSE]
  <2>1. /\ session' = [session EXCEPT !["rd"] = R] /\ replies # <<>> /\ replies' = Tail(replies)
        /\ UNCHANGED <<store, wire, host, touched, missed, latest, stale, consent, steps>>
    BY <1>0, <1>15 DEF WrongPassword, TypeOK
  <2>2. /\ R \in State /\ R.options = session["rd"].options /\ R.phase = session["rd"].phase
        /\ R.remember = session["rd"].remember
    BY <1>0, <1>s, SessionFields DEF State
  <2> HIDE DEF R
  <2>3. /\ session' \in [Session -> State] /\ session'["rd"] = R
        /\ \A t \in Session \ {"rd"} : session'[t] = session[t]
    BY <1>0, <1>s, <2>1, <2>2, Replaced
  <2>4. replies' \in Seq({"wrong", "peer_info"})
    BY <1>0, <2>1, TailAt DEF TypeOK
  <2>5. TypeOK'
    BY <1>0, <2>1, <2>3, <2>4 DEF TypeOK
  <2>6. Consented' /\ UpdatesKept'
    BY <1>c, <1>u, <2>1, <2>2, <2>3 DEF Consented, UpdatesKept
  <2>7. Ordered' /\ Follows'
    BY <1>0, <2>1, <2>2, <2>3, FollowsKeep DEF rdOptions
  <2> QED
    BY <2>5, <2>6, <2>7 DEF OptionsInv
<1>14. CASE UNCHANGED vars
  <2>1. UNCHANGED <<session, wire, host, replies, touched, missed, stale, consent, store, latest, steps>>
    BY <1>14 DEF vars
  <2>2. TypeOK' /\ UpdatesKept'
    BY <1>0, <2>1 DEF TypeOK, UpdatesKept
  <2> QED
    BY <1>r, <2>1, <2>2
<1> QED
  BY <1>1, <1>2, <1>3, <1>4, <1>5, <1>6, <1>7, <1>8, <1>9, <1>10, <1>11, <1>12, <1>13, <1>14, <1>15
  DEF Next, SessionStep

(* The inductive invariant holds always. *)
LEMMA SpecOptionsInv == Spec => []OptionsInv
  BY OptionsInit, OptionsStep, PTL DEF Spec

(* An authorized host that has taken every message holds the options the   *)
(* remote-desktop session shows (getOptionMessage, toggleOption), after    *)
(* any number of toggles, logins, wrong passwords, restarts and writes by  *)
(* other sessions, but for those it was told of while it waited.           *)
THEOREM HostAlwaysFollows == Spec => []HostFollowsOptions
<1>1. OptionsInv => HostFollowsOptions
  <2> SUFFICES ASSUME OptionsInv, host.authorized, wire = <<>>
               PROVE  \A f \in Option \ (touched \cup missed) :
                        f \in session["rd"].options <=> f \in host.options
    BY DEF HostFollowsOptions, OptionsInv
  <2>1. Len(wire) = 0 /\ TypeOK /\ host.asked
    BY DEF OptionsInv, Ordered
  <2>2. session["rd"].phase \in {"login", "in"}
    BY <2>1, SessionFields DEF OptionsInv, Ordered, Session
  <2>3. PICK h \in Seq(SUBSET Option) : Trail(h)
    BY <2>2 DEF OptionsInv, Follows
  <2>4. h[1] = rdOptions \cap Option /\ Agrees(h[1])
    BY <2>1, <2>3 DEF Trail
  <2> QED
    BY <2>4 DEF Agrees, Base, rdOptions
<1> QED
  BY <1>1, SpecOptionsInv, PTL

(* A password is in local storage only if some login asked to remember it: *)
(* not through any copy of the record, nor by the other session's login.   *)
THEOREM PasswordAlwaysByConsent == Spec => []PasswordByConsent
<1>1. OptionsInv => PasswordByConsent
  BY DEF OptionsInv, Consented, Secret, TypeOK, PasswordByConsent
<1> QED
  BY <1>1, SpecOptionsInv, PTL

(* An update of a field of the peer's record survives every other write    *)
(* but that of a copy out of date.                                         *)
THEOREM UpdatesAlwaysKept == Spec => []UpdatesKept
<1>1. OptionsInv => UpdatesKept
  BY DEF OptionsInv
<1> QED
  BY <1>1, SpecOptionsInv, PTL

=============================================================================
