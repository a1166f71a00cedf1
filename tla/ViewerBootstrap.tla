--------------------------- MODULE ViewerBootstrap ---------------------------
(***************************************************************************)
(* How the popup comes up: the key pair of web/index.html, the parent's    *)
(* REMOTE_SESSION_READY handled by bridge/init.js, the moment Flutter      *)
(* registers window.connect and its navigator appears, and what the parent *)
(* is told.  The parent may answer at any time, again, with a token for    *)
(* the key of an earlier load of the page, or with an id that is no UUID;  *)
(* the page may be reloaded at any time.                                   *)
(***************************************************************************)
EXTENDS Naturals, FiniteSets

CONSTANTS
  MaxReady,  \* bound: REMOTE_SESSION_READY messages the parent sends
  MaxLoads   \* bound: loads of the page

ASSUME BootstrapAssumption == MaxReady \in Nat /\ MaxLoads \in Nat \ {0}

Message == 1..MaxReady
Load == 1..MaxLoads

(***************************************************************************)
(* Where the async listener of one message is: "sent" is not yet           *)
(* delivered; "decrypt", "waiting" and "calling" are its three awaits      *)
(* (decryptToken, _connectReadyPromise, _connectImpl).                     *)
(***************************************************************************)
Phase == {"unsent", "sent", "decrypt", "waiting", "calling", "over"}

VARIABLES
  load,      \* which load of the page this is
  key,       \* __viewerPrivateKey: "none", "ready" or "failed"
  parentKey, \* the load whose VIEWER_READY the parent heard last, 0 = none
  phase,     \* phase[m]: the listener of message m
  body,      \* body[m]: the load its token is encrypted for, 0 = garbage; its id is a UUID
  flutter,   \* "off", "connect" (window.connect is set) or "navigator" (and it can push)
  started,   \* __sessionStarted
  toPush,    \* connect() calls that await the navigator
  pages,     \* pages[n]: messages for which load n pushed a RemotePage
  acks,      \* acks[n]: the set of <<m, result>> posted as ACK by load n
  errors,    \* the <<load, m>> of which a VIEWER_ERROR was posted; m = 0 is the key's failure
  popup      \* the popup is open

bootVars == <<load, key, parentKey, phase, body, flutter, started, toPush, pages, acks, errors, popup>>

BootTypeOK ==
  /\ load \in Load /\ key \in {"none", "ready", "failed"} /\ parentKey \in 0..MaxLoads
  /\ phase \in [Message -> Phase]
  /\ body \in [Message -> [token : 0..MaxLoads, uuid : BOOLEAN]]
  /\ flutter \in {"off", "connect", "navigator"} /\ started \in BOOLEAN
  /\ toPush \subseteq Message
  /\ pages \in [Load -> SUBSET Message]
  /\ acks \in [Load -> SUBSET (Message \X BOOLEAN)]
  /\ errors \subseteq (Load \X (0..MaxReady)) /\ popup \in BOOLEAN

BootInit ==
  /\ load = 1 /\ key = "none" /\ parentKey = 0
  /\ phase = [m \in Message |-> "unsent"]
  /\ body = [m \in Message |-> [token |-> 0, uuid |-> FALSE]]
  /\ flutter = "off" /\ started = FALSE /\ toPush = {}
  /\ pages = [n \in Load |-> {}] /\ acks = [n \in Load |-> {}]
  /\ errors = {} /\ popup = TRUE

-----------------------------------------------------------------------------
(* web/index.html generates the key and posts VIEWER_READY. *)
GenerateKey ==
  /\ key = "none"
  /\ key' = "ready"
  /\ parentKey' = load
  /\ UNCHANGED <<load, phase, body, flutter, started, toPush, pages, acks, errors, popup>>

GenerateKeyFails ==
  /\ key = "none"
  /\ key' = "failed"
  /\ errors' = errors \cup {<<load, 0>>}
  /\ UNCHANGED <<load, parentKey, phase, body, flutter, started, toPush, pages, acks, popup>>

(* The parent encrypts the token for the last key it heard of, which may   *)
(* be one of an earlier load; its server may hand it a token or a session  *)
(* id the viewer cannot use.                                               *)
ParentSends(m) ==
  /\ phase[m] = "unsent"
  /\ phase' = [phase EXCEPT ![m] = "sent"]
  /\ \E t \in 0..parentKey, u \in BOOLEAN :
       body' = [body EXCEPT ![m] = [token |-> t, uuid |-> u]]
  /\ UNCHANGED <<load, key, parentKey, flutter, started, toPush, pages, acks, errors, popup>>

(* Dart's init() sets context['connect']; the first frame completes        *)
(* _navigatorReady, and the calls that wait for it push their page.        *)
FlutterConnect ==
  /\ flutter = "off"
  /\ flutter' = "connect"
  /\ UNCHANGED <<load, key, parentKey, phase, body, started, toPush, pages, acks, errors, popup>>

(* Mutant: the calls that wait for the navigator are forgotten. *)
FlutterNavigatorForgets ==
  /\ flutter = "connect"
  /\ flutter' = "navigator"
  /\ UNCHANGED <<load, key, parentKey, phase, body, started, toPush, pages, acks, errors, popup>>

FlutterNavigator ==
  /\ flutter = "connect"
  /\ flutter' = "navigator"
  /\ pages' = [pages EXCEPT ![load] = @ \cup toPush]
  /\ toPush' = {}
  /\ UNCHANGED <<load, key, parentKey, phase, body, started, acks, errors, popup>>

-----------------------------------------------------------------------------
PostAck(m, result) == acks' = [acks EXCEPT ![load] = @ \cup {<<m, result>>}]

(* What follows the notice to Flutter: the popup closes and the message is *)
(* answered in the negative.  Until Dart's init() ran, onGlobalEvent is    *)
(* not defined and the call throws: the popup stays open, the listener     *)
(* ends there and nothing more is posted.                                  *)
CloseAndRefuse(m) ==
  IF flutter = "off" THEN UNCHANGED <<acks, popup>>
  ELSE popup' = FALSE /\ PostAck(m, FALSE)

(* Mutant: Flutter is told before the parent. *)
FailTellsFlutterFirst(m) ==
  /\ phase' = [phase EXCEPT ![m] = "over"]
  /\ errors' = IF flutter = "off" THEN errors ELSE errors \cup {<<load, m>>}
  /\ CloseAndRefuse(m)
  /\ UNCHANGED <<load, key, parentKey, body, flutter, started, toPush, pages>>

(* showFatalError, whose VIEWER_ERROR comes first, and the negative ACK. *)
Fail(m) ==
  /\ phase' = [phase EXCEPT ![m] = "over"]
  /\ errors' = errors \cup {<<load, m>>}
  /\ CloseAndRefuse(m)
  /\ UNCHANGED <<load, key, parentKey, body, flutter, started, toPush, pages>>

(* Mutant: the flag is set when the session starts, not when it is taken on. *)
OnReadyUnflagged(m) ==
  /\ phase[m] = "sent" /\ ~started /\ key = "ready"
  /\ phase' = [phase EXCEPT ![m] = "decrypt"]
  /\ UNCHANGED <<load, key, parentKey, body, flutter, started, toPush, pages, acks, errors, popup>>

(* The listener takes the message on, up to its first await. *)
OnReady(m) ==
  /\ phase[m] = "sent" /\ ~started /\ key = "ready"
  /\ started' = TRUE
  /\ phase' = [phase EXCEPT ![m] = "decrypt"]
  /\ UNCHANGED <<load, key, parentKey, body, flutter, toPush, pages, acks, errors, popup>>

OnReadyWithoutKey(m) ==
  /\ phase[m] = "sent" /\ ~started /\ key # "ready"
  /\ Fail(m)

(* A message after the session was started, or with fields missing, is     *)
(* dropped without an answer.                                              *)
OnReadyIgnored(m) ==
  /\ phase[m] = "sent"
  /\ phase' = [phase EXCEPT ![m] = "over"]
  /\ UNCHANGED <<load, key, parentKey, body, flutter, started, toPush, pages, acks, errors, popup>>

Decrypted(m) ==
  /\ phase[m] = "decrypt"
  /\ body[m].token = load
  /\ phase' = [phase EXCEPT ![m] = "waiting"]
  /\ UNCHANGED <<load, key, parentKey, body, flutter, started, toPush, pages, acks, errors, popup>>

DecryptFails(m) ==
  /\ phase[m] = "decrypt"
  /\ body[m].token # load
  /\ Fail(m)

(* _connectImpl(clientId, token, remoteSessionId): Dart checks the id and  *)
(* pushes the page now or when the navigator is there.                     *)
CallConnect(m) ==
  /\ phase[m] = "waiting" /\ flutter # "off"
  /\ phase' = [phase EXCEPT ![m] = "calling"]
  /\ toPush' = IF body[m].uuid /\ flutter = "connect" THEN toPush \cup {m} ELSE toPush
  /\ pages' = IF body[m].uuid /\ flutter = "navigator"
              THEN [pages EXCEPT ![load] = @ \cup {m}] ELSE pages
  /\ UNCHANGED <<load, key, parentKey, body, flutter, started, acks, errors, popup>>

(* What `await _connectImpl(...)` gives: dart:js hands a Dart Future to    *)
(* JavaScript as an opaque object, which is no thenable and is truthy.     *)
ConnectResult == TRUE

ConnectReturns(m) ==
  /\ phase[m] = "calling"
  /\ phase' = [phase EXCEPT ![m] = "over"]
  /\ PostAck(m, ConnectResult)
  /\ UNCHANGED <<load, key, parentKey, body, flutter, started, toPush, pages, errors, popup>>

(* The page is loaded again: its state and the messages on their way to it *)
(* are lost, the parent stays.                                             *)
Reload ==
  /\ load < MaxLoads
  /\ load' = load + 1
  /\ key' = "none" /\ flutter' = "off" /\ started' = FALSE /\ toPush' = {}
  /\ phase' = [m \in Message |-> IF phase[m] = "unsent" THEN "unsent" ELSE "over"]
  /\ UNCHANGED <<parentKey, body, pages, acks, errors, popup>>

Listener(m) ==
  \/ OnReady(m) \/ OnReadyWithoutKey(m) \/ OnReadyIgnored(m)
  \/ Decrypted(m) \/ DecryptFails(m) \/ CallConnect(m) \/ ConnectReturns(m)

BootNext ==
  /\ popup
  /\ \/ GenerateKey \/ GenerateKeyFails \/ FlutterConnect \/ FlutterNavigator \/ Reload
     \/ \E m \in Message : ParentSends(m) \/ Listener(m)

BootSpec == BootInit /\ [][BootNext]_bootVars

(* Decryption settles, Flutter's boot comes to its first frame, promises   *)
(* resume: nothing is assumed of the parent, and a message may get lost.   *)
BootFairSpec ==
  /\ BootSpec
  /\ WF_bootVars(popup /\ FlutterConnect) /\ WF_bootVars(popup /\ FlutterNavigator)
  /\ \A m \in Message :
       /\ WF_bootVars(popup /\ (Decrypted(m) \/ DecryptFails(m)))
       /\ WF_bootVars(popup /\ CallConnect(m))
       /\ WF_bootVars(popup /\ ConnectReturns(m))

-----------------------------------------------------------------------------
(* However often the parent repeats REMOTE_SESSION_READY while the token   *)
(* is decrypted or Flutter boots, a load answers at most one of them and   *)
(* opens at most one remote desktop, with a token for its own key: one the *)
(* parent made before it heard of a reload opens none (init.js:33, :46).   *)
(* The state has its type.                                                 *)
OneSessionPerLoad ==
  /\ BootTypeOK
  /\ \A n \in Load :
       /\ Cardinality(acks[n]) <= 1
       /\ Cardinality(pages[n] \cup (IF n = load THEN toPush ELSE {})) <= 1
       /\ \A m \in pages[n] : body[m].token = n

(* The parent hears of every message that was taken on, however slowly     *)
(* Flutter boots, unless the page is loaded again: by an ACK or, when the  *)
(* token is refused before Flutter is there and showFatalError cannot run  *)
(* to its end, by the VIEWER_ERROR alone (errors.js:45, init.js:57).       *)
TakenOnIsAnswered ==
  \A n \in Load, m \in Message :
    (load = n /\ phase[m] = "decrypt")
      ~> \/ load > n
         \/ \E result \in BOOLEAN : <<m, result>> \in acks[n]
         \/ <<n, m>> \in errors

(* An accepted session with a UUID gets its page, even when the ACK is     *)
(* posted before the navigator exists.                                     *)
AckedSessionOpens ==
  \A n \in Load, m \in Message :
    (load = n /\ body[m].uuid /\ <<m, TRUE>> \in acks[n]) ~> (load > n \/ m \in pages[n])

=============================================================================
