---------------------------- MODULE PeerOptions ----------------------------
(***************************************************************************)
(* The options of a peer: one record in local storage (peer_store.js), a   *)
(* copy in each session to the peer, read by prepareConnect and written    *)
(* back whole by setOption (session_base.ts), and, for remote desktop, the *)
(* options the host holds for the connection (rd_options.ts, and           *)
(* server/connection.rs of the host, which takes a login request but may   *)
(* wait for a better password, a click or a second factor before it        *)
(* authorizes the connection).                                             *)
(*                                                                         *)
(* Values are abstracted to set and unset: false and undefined read alike. *)
(* The record is the set of the fields that are set.  The image quality,   *)
(* which is not a Boolean, is left out.                                    *)
(***************************************************************************)
EXTENDS Naturals, Sequences, FiniteSets

CONSTANTS
  MaxSteps   \* bound: bridge calls

ASSUME PeerOptionsAssumption == MaxSteps \in Nat

Session == {"rd", "ft"}

(* Options getOptionMessage sends, and fields that are the viewer's only.  *)
Option == {"show-remote-cursor", "lock-after-session-end", "privacy-mode",
           "disable-audio", "disable-clipboard"}
Field == Option \cup {"view-only", "remember", "password", "info", "custom"}
ViewOnly == {"disable-clipboard", "show-remote-cursor", "lock-after-session-end"}

(* An OptionMessage: the options it sets, with their values.  The login    *)
(* request carries one unless no option is set, a misc message carries     *)
(* one.                                                                    *)
Message == [login : BOOLEAN, on : SUBSET Option, off : SUBSET Option]

VARIABLES
  store,     \* the peer's record in local storage
  session,   \* per session: phase, _options, _remember, whether _password is set
  wire,      \* option messages from the remote-desktop session to the host
  host,      \* the host's end: a login was taken, options_in_login, authorized, the options
  replies,   \* the host's login responses on their way
  touched,   \* history: options whose value at the host was set for another reason
  missed,    \* history: options whose last message found the host not authorized
  latest,    \* history: the fields as their last change by a user left them
  stale,     \* history: a session wrote a copy that was not the record any more
  consent,   \* history: a login asked to remember the password
  steps      \* counts the bridge calls

vars == <<store, session, wire, host, replies, touched, missed, latest, stale, consent, steps>>

State ==
  [phase : {"added", "connecting", "login", "in"}, options : SUBSET Field,
   remember : BOOLEAN, password : BOOLEAN]

Host ==
  [asked : BOOLEAN, login : SUBSET Option, authorized : BOOLEAN, options : SUBSET Option]

NewHost == [asked |-> FALSE, login |-> {}, authorized |-> FALSE, options |-> {}]

TypeOK ==
  /\ store \subseteq Field
  /\ session \in [Session -> State]
  /\ wire \in Seq(Message)
  /\ host \in Host /\ replies \in Seq({"wrong", "peer_info"})
  /\ touched \subseteq Option /\ missed \subseteq Option /\ latest \subseteq Field
  /\ stale \in BOOLEAN /\ consent \in BOOLEAN /\ steps \in 0..MaxSteps

Init ==
  /\ store \in {{}, {"remember", "password"}}  \* of an earlier visit
  /\ latest = {} /\ stale = FALSE /\ touched = {} /\ missed = {}
  /\ session = [s \in Session |->
       [phase |-> "added", options |-> {}, remember |-> FALSE, password |-> FALSE]]
  /\ wire = <<>> /\ host = NewHost /\ replies = <<>>
  /\ consent = ("password" \in store) /\ steps = 0

Count == steps < MaxSteps /\ steps' = steps + 1

(* The page of a session, which calls the handlers, starts it first.       *)
Started(s) == session[s].phase # "added"

Assign(options, f, v) == IF v THEN options \cup {f} ELSE options \ {f}

(* savePeerOptions: a session writes its whole copy. *)
SavePeerOptions(s) ==
  /\ store' = session'[s].options
  /\ stale' = (stale \/ session[s].options # store)

\* mutant: the copy is written before it is changed
SetOptionLate(s, f, v) ==
  /\ session' = [session EXCEPT ![s].options = Assign(@, f, v)]
  /\ store' = session[s].options
  /\ stale' = (stale \/ session[s].options # store)

(* BaseConnection.setOption: the session's copy is changed and written.    *)
SetOption(s, f, v) ==
  /\ session' = [session EXCEPT ![s].options = Assign(@, f, v)]
  /\ SavePeerOptions(s)

(* prepareConnect; for remote desktop also what a new connection means at  *)
(* the host.                                                               *)
Start(s) ==
  /\ Count
  /\ session' = [session EXCEPT ![s].phase = "connecting", ![s].options = store,
                                ![s].password = @ \/ "password" \in store]
  /\ IF s = "rd" THEN /\ wire' = <<>> /\ host' = NewHost /\ replies' = <<>>
                      /\ touched' = {} /\ missed' = {}
                 ELSE UNCHANGED <<wire, host, replies, touched, missed>>
  /\ UNCHANGED <<store, latest, stale, consent>>

(* getOptionMessage: the options that are set                              *)
GetOptionMessageForgets(options) == options \cap (Option \ {"disable-clipboard"})  \* mutant
GetOptionMessage(options) == options \cap Option

(* The login handler: setRemember, then login with the password, whose     *)
(* request remote desktop completes with the options; once more after      *)
(* "Wrong Password" has emptied _password.                                 *)
Login(s, remember) ==
  /\ Count
  /\ \/ session[s].phase = "connecting"
     \/ s = "rd" /\ session[s].phase = "login" /\ ~session[s].password
  /\ session' = [session EXCEPT
       ![s].phase = "login", ![s].password = TRUE,
       ![s].options = IF s = "rd" THEN Assign(@, "remember", remember) ELSE @,
       ![s].remember = IF s = "ft" THEN remember ELSE @]
  /\ IF s = "rd" THEN SavePeerOptions(s) ELSE UNCHANGED <<store, stale>>
  /\ wire' = IF s = "ft" THEN wire
             ELSE Append(wire, [login |-> TRUE, on |-> GetOptionMessage(session'[s].options),
                                off |-> {}])
  /\ consent' = (consent \/ remember)
  /\ UNCHANGED <<host, replies, touched, missed, latest>>

(* login() without the dialog: the password of the connection, from the    *)
(* parent or from the store.                                               *)
AutoLogin(s) ==
  /\ session[s].phase = "connecting"
  /\ session' = [session EXCEPT ![s].phase = "login", ![s].password = TRUE]
  /\ wire' = IF s = "ft" THEN wire
             ELSE Append(wire, [login |-> TRUE, on |-> GetOptionMessage(session[s].options),
                                off |-> {}])
  /\ UNCHANGED <<store, host, replies, touched, missed, latest, stale, consent, steps>>

(* A login response with the error "Wrong Password".  The connection stays *)
(* when the message box is charged to a file transfer in front.            *)
WrongPassword ==
  /\ replies # <<>> /\ Head(replies) = "wrong"
  /\ replies' = Tail(replies)
  /\ session' = [session EXCEPT !["rd"].password = FALSE]
  /\ UNCHANGED <<store, wire, host, touched, missed, latest, stale, consent, steps>>

(* RdConnection.handlePeerInfo: the information is saved; the password, if *)
(* there is one, is saved if it is to be remembered, and erased if not.    *)
HandlePeerInfoRd ==
  LET rd == session["rd"]
      remember == "remember" \in rd.options
  IN  /\ replies # <<>> /\ Head(replies) = "peer_info"
      /\ replies' = Tail(replies)
      /\ session' = [session EXCEPT !["rd"].phase = "in",
           !["rd"].options =
             Assign(@ \cup {"info"}, "password", remember /\ (rd.password \/ "password" \in @))]
      /\ SavePeerOptions("rd")
      /\ UNCHANGED <<wire, host, touched, missed, latest, consent, steps>>

(* FtConnection.handlePeerInfo: the password is saved if it is to be       *)
(* remembered, then the information.                                       *)
\* mutant: the password is saved whether it is to be remembered or not
HandlePeerInfoFtSaves ==
  /\ session["ft"].phase = "login"
  /\ session' = [session EXCEPT !["ft"].phase = "in", !["ft"].options = @ \cup {"password", "info"}]
  /\ SavePeerOptions("ft")
  /\ UNCHANGED <<wire, host, replies, touched, missed, latest, consent, steps>>

HandlePeerInfoFt ==
  LET ft == session["ft"]
  IN  /\ ft.phase = "login"
      /\ session' = [session EXCEPT !["ft"].phase = "in",
           !["ft"].options = (IF ft.remember /\ ft.password THEN @ \cup {"password"} ELSE @) \cup {"info"}]
      /\ SavePeerOptions("ft")
      /\ UNCHANGED <<wire, host, replies, touched, missed, latest, consent, steps>>

(* A misc message of the remote-desktop session; without an open relay     *)
(* socket it is lost.                                                      *)
SendOption(on, off) ==
  wire' = IF session["rd"].phase \in {"login", "in"}
          THEN Append(wire, [login |-> FALSE, on |-> on, off |-> off])
          ELSE wire

(* toggleOption of an option of the login message                          *)
ToggleOption(f) ==
  LET v == f \notin session["rd"].options
  IN  /\ Started("rd") /\ Count
      /\ SetOption("rd", f, v)
      /\ SendOption(IF v THEN {f} ELSE {}, IF v THEN {} ELSE {f})
      /\ latest' = Assign(latest, f, v)
      /\ UNCHANGED <<host, replies, touched, missed, consent>>

(* toggleOption("view-only"): turned on it sets three of the options at    *)
(* the host, turned off it unsets two and sets lock-after-session-end.     *)
ToggleViewOnly ==
  LET v == "view-only" \notin session["rd"].options
      lock == {"lock-after-session-end"}
  IN  /\ Started("rd") /\ Count
      /\ SetOption("rd", "view-only", v)
      /\ SendOption(IF v THEN ViewOnly ELSE lock, IF v THEN {} ELSE ViewOnly \ lock)
      /\ touched' = touched \cup ViewOnly
      /\ latest' = Assign(latest, "view-only", v)
      /\ UNCHANGED <<host, replies, missed, consent>>

(* togglePrivacyMode: sent, never saved                                    *)
TogglePrivacyMode(v) ==
  /\ Started("rd") /\ Count
  /\ SendOption(IF v THEN {"privacy-mode"} ELSE {}, IF v THEN {} ELSE {"privacy-mode"})
  /\ touched' = touched \cup {"privacy-mode"}
  /\ UNCHANGED <<store, session, host, replies, missed, latest, stale, consent>>

(* The forget handler: setRemember(false)                                  *)
Forget(s) ==
  /\ Started(s) /\ Count
  /\ IF s = "rd" THEN SetOption(s, "remember", FALSE)
     ELSE session' = [session EXCEPT ![s].remember = FALSE] /\ UNCHANGED <<store, stale>>
  /\ UNCHANGED <<wire, host, replies, touched, missed, latest, consent>>

(* The option:session handler, on the session the call names               *)
SetSessionOption(s, v) ==
  /\ Started(s) /\ Count
  /\ SetOption(s, "custom", v)
  /\ latest' = Assign(latest, "custom", v)
  /\ UNCHANGED <<wire, host, replies, touched, missed, consent>>

(* The option:peer handler, setPeerField: the record, not the sessions     *)
SetPeerField(v) ==
  /\ Count
  /\ store' = Assign(store, "custom", v)
  /\ latest' = Assign(latest, "custom", v)
  /\ UNCHANGED <<session, wire, host, replies, touched, missed, stale, consent>>

(* removePeer                                                              *)
RemovePeer ==
  /\ Count
  /\ store' = {} /\ latest' = {}
  /\ UNCHANGED <<session, wire, host, replies, touched, missed, stale, consent>>

-----------------------------------------------------------------------------
(* update_options at the host *)
UpdateOptions(options, m) == (options \cup m.on) \ m.off

(* send_logon_response: the connection H is authorized, and what its login *)
(* requests asked for is applied.                                          *)
SendLogonResponse(H) ==
  /\ host' = [H EXCEPT !.authorized = TRUE, !.options = @ \cup H.login]
  /\ replies' = Append(replies, "peer_info")

(* on_message of a login request: options_in_login is replaced if the      *)
(* request brings options.  The host then authorizes the connection, or    *)
(* waits: the password is wrong, or empty, the user there has to click, or *)
(* a second factor is asked for.                                           *)
HostTakesLogin ==
  LET m == Head(wire)
      none == m.on = {}
      H == [host EXCEPT !.asked = TRUE, !.login = IF none THEN @ ELSE m.on]
  IN  /\ wire # <<>> /\ m.login
      /\ wire' = Tail(wire)
      /\ IF host.authorized THEN UNCHANGED <<host, replies, missed>>
         ELSE /\ missed' = IF none THEN missed \cap host.login ELSE {}
              /\ \/ SendLogonResponse(H)
                 \/ host' = H /\ replies' = Append(replies, "wrong")
                 \/ host' = H /\ UNCHANGED replies
      /\ UNCHANGED <<store, session, touched, latest, stale, consent, steps>>

(* The user of the host clicks, or the second factor arrives. *)
HostAuthorizes ==
  /\ host.asked /\ ~host.authorized
  /\ SendLogonResponse(host)
  /\ UNCHANGED <<store, session, wire, touched, missed, latest, stale, consent, steps>>

(* on_message of an option message, which is dropped unless the connection *)
(* is authorized.                                                          *)
HostTakesOption ==
  LET m == Head(wire)
  IN  /\ wire # <<>> /\ ~m.login
      /\ wire' = Tail(wire)
      /\ IF host.authorized
         THEN /\ host' = [host EXCEPT !.options = UpdateOptions(@, m)]
              /\ missed' = missed \ (m.on \cup m.off)
         ELSE missed' = missed \cup m.on \cup m.off /\ UNCHANGED host
      /\ UNCHANGED <<store, session, replies, touched, latest, stale, consent, steps>>

SessionStep(s) ==
  \/ Start(s) \/ AutoLogin(s) \/ Forget(s)
  \/ \E v \in BOOLEAN : Login(s, v) \/ SetSessionOption(s, v)

Next ==
  \/ \E s \in Session : SessionStep(s)
  \/ WrongPassword \/ HandlePeerInfoRd \/ HandlePeerInfoFt
  \/ \E f \in Option : ToggleOption(f)
  \/ ToggleViewOnly
  \/ \E v \in BOOLEAN : TogglePrivacyMode(v) \/ SetPeerField(v)
  \/ RemovePeer
  \/ HostTakesLogin \/ HostAuthorizes \/ HostTakesOption

Spec == Init /\ [][Next]_vars

----------------------------------------------------------------------------
(* An authorized host, all messages taken, holds the options the           *)
(* remote-desktop session shows, whatever was toggled before, during and   *)
(* after the login, in which connection, through how many logins, and      *)
(* whatever another session wrote meanwhile (getOptionMessage,             *)
(* toggleOption).  Two exceptions are the code's: what view-only and       *)
(* togglePrivacyMode set without saving, and the options that were toggled *)
(* last while the host had a login but had not authorized it: toggleOption *)
(* saves them and the host drops the message, and a later login without    *)
(* any option does not take back the options of an earlier one.  The state *)
(* has its type.                                                           *)
HostFollowsOptions ==
  /\ TypeOK
  /\ host.authorized /\ wire = <<>> =>
       \A f \in Option \ (touched \cup missed) :
         f \in session["rd"].options <=> f \in host.options

(* A password is in local storage only if some login asked to remember it: *)
(* no copy of the record and no login of the other session puts it there   *)
(* (persistPasswordIfRemembered).                                          *)
PasswordByConsent == "password" \in store => consent

(* An update of one field of the peer's record is kept, until the field is *)
(* updated again or the record removed, whoever made it, unless a session  *)
(* wrote back a copy that was out of date (setPeerField, setOption).       *)
UpdatesKept ==
  ~stale => \A f \in Option \cup {"custom"} : f \in store <=> f \in latest
============================================================================
