------------------------------ MODULE RdInput ------------------------------
(***************************************************************************)
(* The keyboard path of a remote-desktop session: Flutter's InputModel     *)
(* turns key events into bridge calls, inputKey of rd_connection.ts turns  *)
(* those into KeyEvent messages, and the host's input service replays them *)
(* on its keyboard.  The bridge calls are timer events of one isolate and  *)
(* the socket keeps order, so what is sent is one queue.                   *)
(*                                                                         *)
(* A character key is named by itself whatever its case.  Left out: the    *)
(* host's six-minute release of forgotten keys, the super key, which       *)
(* browsers report as Meta, and view-only mode, in which nothing is sent.  *)
(***************************************************************************)
EXTENDS Naturals, Sequences

CONSTANTS
  Letter,     \* keys mapKey sends as chr in every browser: a to z
  Symbol,     \* character keys outside a to z
  Special,    \* other keys, which mapKey sends as control_key: Return, LeftArrow, F1
  Mod,        \* modifier keys
  Modes,      \* keyboard modes the viewer may be in: "map", "legacy"
  Desktop,    \* isDesktop() of helpers/mobile.js
  MaxEvents   \* bound: bridge calls

(* The modifiers as KeyEvent.modifiers lists them; each is also the name   *)
(* of its left key.                                                        *)
Modifier == {"Shift", "Control", "Alt", "Meta"}
Kind(key) ==
  CASE key \in {"Shift", "RShift"} -> "Shift"
    [] key \in {"Control", "RControl"} -> "Control"
    [] key \in {"Alt", "RAlt"} -> "Alt"
    [] OTHER -> "Meta"
Kinds(keys) == {Kind(m) : m \in keys \cap Mod}

Char == Letter \cup Symbol
Key == Mod \cup Char \cup Special
None == "none"

(* Keys of different sorts have different names, and so have text and the  *)
(* two events that no key stands for.                                      *)
ASSUME RdInputAssumption ==
  /\ Modes \subseteq {"map", "legacy"} /\ Desktop \in BOOLEAN /\ MaxEvents \in Nat
  /\ Mod \subseteq Modifier \cup {"RShift", "RControl", "RAlt", "RWin"}
  /\ Char \cap Special = {}
  /\ (Char \cup Special) \cap
       (Modifier \cup {"RShift", "RControl", "RAlt", "RWin", "CtrlAltDelete", "Function", "text", None}) = {}

(* The keys of M in the order ToReleaseKeys.release goes through them.     *)
ReleaseOrder(M) ==
  LET If(m) == IF m \in M THEN <<m>> ELSE <<>>
  IN  If("Shift") \o If("RShift") \o If("Control") \o If("RControl")
        \o If("Alt") \o If("RAlt") \o If("Meta") \o If("RWin")

(* A KeyEvent: its oneof as the three fields the JavaScript object has.    *)
KeyEvent ==
  [control_key : Mod \cup Special \cup {"CtrlAltDelete", "Function", None}, chr : Char \cup {None},
   unicode : Char \cup {None}, seq : BOOLEAN, down : BOOLEAN, press : BOOLEAN,
   modifiers : SUBSET Modifier]

VARIABLES
  keyboardMode, platform,  \* of the viewer, of the host
  held, repeats,     \* keys the user holds down, the one the keyboard repeats
  mods,              \* InputModel's shift, ctrl, alt and command
  toReleaseKeys,     \* the modifier keys InputModel is to release
  lastKeyDownEvent,  \* _lastKeyDownEvent
  wire,              \* KeyEvents on their way
  pressed,           \* keys down on the host's keyboard
  strokes, typed,    \* history: keys struck, and typed at the host
  hidden,            \* history: modifiers held that InputModel was made to forget
  typing,            \* history: the last key event but for ups of characters was a character
  lost,              \* history: other keys that last went up while typing
  events             \* counts the bridge calls

vars == <<keyboardMode, platform, held, repeats, mods, toReleaseKeys, lastKeyDownEvent, wire,
          pressed, strokes, typed, hidden, typing, lost, events>>
hostVars == <<pressed, typed>>
fixed == <<keyboardMode, platform>>
keyVars == <<held, repeats, mods, toReleaseKeys, lastKeyDownEvent, hidden, typing, lost>>

(* A key struck, with the Control and Alt keys the user held, and whether  *)
(* InputModel was made to forget Control; a key typed.                     *)
Stroke == [key : Char \cup Special \cup {"text"}, ctrl : BOOLEAN, alt : BOOLEAN, hidden : BOOLEAN]
Typed == [key : Char \cup Special \cup {"text"}, ctrl : BOOLEAN]

TypeOK ==
  /\ keyboardMode \in Modes /\ platform \in {"windows", "linux", "macos"}
  /\ held \subseteq Key /\ repeats \in Key \cup {None}
  /\ mods \subseteq Modifier /\ toReleaseKeys \subseteq Mod
  /\ lastKeyDownEvent \in Char \cup {None}
  /\ wire \in Seq(KeyEvent)
  /\ pressed \subseteq Key
  /\ strokes \in Seq(Stroke) /\ typed \in Seq(Typed)
  /\ hidden \subseteq Modifier /\ typing \in BOOLEAN /\ lost \subseteq Key
  /\ events \in 0..MaxEvents

Init ==
  /\ keyboardMode \in Modes /\ platform \in {"windows", "linux", "macos"}
  /\ held = {} /\ repeats = None /\ mods = {} /\ toReleaseKeys = {} /\ lastKeyDownEvent = None
  /\ wire = <<>> /\ pressed = {}
  /\ strokes = <<>> /\ typed = <<>> /\ hidden = {} /\ typing = FALSE /\ lost = {} /\ events = 0

NoEvent ==
  [control_key |-> None, chr |-> None, unicode |-> None, seq |-> FALSE,
   down |-> FALSE, press |-> FALSE, modifiers |-> {}]

(* The character keys mapKey sends as chr; its range test sends the others *)
(* of a mobile browser as unicode.                                         *)
Plain == IF Desktop THEN Char ELSE Letter

\* mutant: the range test of mapKey applied in every browser and to letters too
MapKeyUnicode(key) ==
  IF key \in Char THEN [NoEvent EXCEPT !.unicode = key] ELSE [NoEvent EXCEPT !.control_key = key]

MapKey(key) ==
  IF key \notin Char THEN [NoEvent EXCEPT !.control_key = key]
  ELSE IF key \in Plain THEN [NoEvent EXCEPT !.chr = key]
  ELSE [NoEvent EXCEPT !.unicode = key]

(* An up event of a key without chr takes the chr of the last key down.    *)
KeyUpChr(ev, last) == IF ev.chr = None THEN last ELSE ev.chr

\* mutant: a key without chr leaves the last chr in place
InputKeyKeepsChr(key, down, press, modifiers) ==
  LET ev == MapKey(key)
  IN  /\ lastKeyDownEvent' = IF down /\ ev.chr # None THEN ev.chr ELSE lastKeyDownEvent
      /\ wire' = Append(wire, [ev EXCEPT !.chr = IF down THEN @ ELSE KeyUpChr(ev, lastKeyDownEvent),
                                         !.down = down, !.press = press, !.modifiers = modifiers])

(* RdConnection.inputKey                                                   *)
InputKey(key, down, press, modifiers) ==
  LET ev == MapKey(key)
  IN  /\ lastKeyDownEvent' = IF down THEN ev.chr
                             ELSE IF ev.chr = None THEN None ELSE lastKeyDownEvent
      /\ wire' = Append(wire, [ev EXCEPT !.chr = IF down THEN @ ELSE KeyUpChr(ev, lastKeyDownEvent),
                                         !.down = down, !.press = press, !.modifiers = modifiers])

Count == events < MaxEvents /\ events' = events + 1

\* mutant: no bridge call sends modifiers
SendKeyPlain(key, down, repeat, flags) ==
  IF keyboardMode = "map" THEN InputKey(key, down, FALSE, {})
  ELSE InputKey(key, down /\ ~repeat, down /\ repeat, {})

(* The bridge call of a key event: flutter_key_event of the map mode knows *)
(* no modifiers, input_key of the legacy mode sends those of InputModel.   *)
SendKey(key, down, repeat, flags) ==
  IF keyboardMode = "map" THEN InputKey(key, down, FALSE, {})
  ELSE InputKey(key, down /\ ~repeat, down /\ repeat, flags)

(* A key is struck while the user holds H. *)
Struck(key, H) ==
  strokes' = IF key \in Mod THEN strokes
             ELSE Append(strokes, [key |-> key, ctrl |-> "Control" \in Kinds(H),
                                   alt |-> "Alt" \in Kinds(H), hidden |-> "Control" \in hidden])

(* The slots of toReleaseKeys: both Alt keys go to the left one's, which   *)
(* the up event of the right one does not clear.                           *)
AltKeys == {"Alt", "RAlt"}
Remember(key) == IF key \in AltKeys THEN (toReleaseKeys \ AltKeys) \cup {key}
                 ELSE toReleaseKeys \cup ({key} \cap Mod)
Cleared(key) == IF key = "Alt" THEN AltKeys ELSE {key} \ {"RAlt"}

(* handleKeyDownEventModifiers, and the event sent.  The keyboard repeats  *)
(* the new key from now on, or goes on with the old one if the new one is  *)
(* a modifier.                                                             *)
KeyDown(key) ==
  /\ key \notin held /\ Count
  /\ held' = held \cup {key}
  /\ repeats' \in {key} \cup (IF key \in Mod THEN {repeats} ELSE {})
  /\ mods' = mods \cup Kinds({key})
  /\ toReleaseKeys' = Remember(key)
  /\ SendKey(key, TRUE, FALSE, mods')
  /\ Struck(key, held)
  /\ hidden' = hidden \ Kinds({key})
  /\ typing' = (key \in Plain) /\ lost' = lost \ {key}
  /\ UNCHANGED <<fixed, hostVars>>

KeyRepeat(key) ==
  /\ key = repeats /\ Count
  /\ SendKey(key, TRUE, TRUE, mods)
  /\ Struck(key, held)
  /\ typing' = IF keyboardMode = "map" THEN key \in Plain ELSE typing /\ key \in Plain
  /\ UNCHANGED <<fixed, held, repeats, mods, toReleaseKeys, hidden, lost, hostVars>>

(* handleKeyUpEventModifiers, and the event sent *)
KeyUp(key) ==
  /\ key \in held /\ Count
  /\ held' = held \ {key}
  /\ repeats' = IF key = repeats THEN None ELSE repeats
  /\ mods' = mods \ Kinds({key})
  /\ toReleaseKeys' = toReleaseKeys \ Cleared(key)
  /\ SendKey(key, FALSE, FALSE, mods')
  /\ hidden' = (hidden \ Kinds({key})) \cup (Kinds({key}) \cap Kinds(held'))
  /\ typing' = (typing /\ key \in Plain)
  /\ lost' = IF typing /\ key \notin Char THEN lost \cup {key} ELSE lost \ {key}
  /\ UNCHANGED <<fixed, strokes, hostVars>>

(* InputModel.enterOrLeave: the pointer enters or leaves the page.  Each   *)
(* modifier it saw go down is sent an up event, held or not.               *)
EnterOrLeave ==
  LET released == ReleaseOrder(toReleaseKeys)
      Up(i) == [MapKey(released[i]) EXCEPT
                  !.chr = IF i = 1 THEN lastKeyDownEvent ELSE None,
                  !.modifiers = IF keyboardMode = "map" THEN {}
                                ELSE mods \ {Kind(released[j]) : j \in 1..i}]
  IN  /\ toReleaseKeys # {} /\ Count
      /\ wire' = wire \o [i \in DOMAIN released |-> Up(i)]
      /\ lastKeyDownEvent' = None
      /\ mods' = {} /\ toReleaseKeys' = toReleaseKeys \cap {"RAlt"}
      /\ hidden' = Kinds(held)
      /\ typing' = FALSE
      /\ lost' = (lost \ toReleaseKeys) \cup (IF typing THEN {released[1]} ELSE {})
      /\ UNCHANGED <<fixed, held, repeats, strokes, hostVars>>

(* ctrlAltDel and lockScreen                                               *)
SendFunctionKey(delete) ==
  /\ Count
  /\ wire' = Append(wire, [NoEvent EXCEPT !.down = TRUE,
                             !.control_key = IF delete THEN "CtrlAltDelete" ELSE "Function",
                             !.modifiers = IF delete THEN {"Alt", "Control"} ELSE {}])
  /\ UNCHANGED <<fixed, keyVars, strokes, hostVars>>

CtrlAltDel == platform # "macos" /\ SendFunctionKey(platform = "linux")
LockScreen == SendFunctionKey(FALSE)

InputString ==
  /\ Count
  /\ wire' = Append(wire, [NoEvent EXCEPT !.seq = TRUE])
  /\ strokes' = Append(strokes, [key |-> "text", ctrl |-> FALSE, alt |-> FALSE, hidden |-> FALSE])
  /\ UNCHANGED <<fixed, keyVars, hostVars>>

----------------------------------------------------------------------------
(* What is left of a KeyEvent's oneof once encoded and decoded: the field  *)
(* with the greatest number that is set.                                   *)
Union(ev) ==
  IF ev.seq THEN [field |-> "seq", key |-> "text"]
  ELSE IF ev.unicode # None THEN [field |-> "unicode", key |-> ev.unicode]
  ELSE IF ev.chr # None THEN [field |-> "chr", key |-> ev.chr]
  ELSE [field |-> "control_key", key |-> ev.control_key]

(* release_unpressed_modifiers: a modifier the event does not list goes    *)
(* up, but for the key of the event itself and, at a Windows host that has *)
(* Alt down, for Control: the two together are AltGr.                      *)
SyncModifiers(on, down, ev, key) ==
  LET unlisted == {m \in Mod \ {key} : Kind(m) \notin ev.modifiers}
      altGr == on = "windows" /\ "Alt" \in Kinds(down \ unlisted)
  IN  down \ {m \in unlisted : ~(altGr /\ Kind(m) = "Control")}

(* press_modifiers and release_keys: modifiers the event lists are down    *)
(* while it is replayed, and those of which no key was down before go up   *)
(* after it, the left key of each.                                         *)
ToRelease(on, down, ev) == IF on = "macos" THEN {} ELSE ev.modifiers \ Kinds(down)

(* connection.rs: on Linux every key but a modifier is pressed and         *)
(* released at once; input_service.rs: legacy_keyboard_mode.               *)
Replay(on, host, ev) ==
  LET u == Union(ev)
      press == /\ u.field \in {"chr", "control_key"}
               /\ IF on = "linux" THEN (ev.press \/ ev.down) /\ u.key \notin Mod ELSE ev.press
      down == ev.down \/ press
      synced == IF down THEN SyncModifiers(on, host.pressed, ev, u.key) ELSE host.pressed
      key == IF u.field \in {"chr", "control_key"} THEN {u.key} \cap Key ELSE {}
      effective == Kinds(synced) \cup ev.modifiers
  IN  [pressed |-> (IF down /\ ~press THEN synced \cup key ELSE synced \ key)
                     \ (IF down THEN ToRelease(on, host.pressed, ev) ELSE {}),
       typed |-> IF u.field \in {"unicode", "seq"} \/ (u.key \in Char \cup Special /\ down)
                 THEN Append(host.typed, [key |-> u.key, ctrl |-> "Control" \in effective])
                 ELSE host.typed]

Host == [pressed |-> pressed, typed |-> typed]

HostKey ==
  /\ wire # <<>>
  /\ wire' = Tail(wire)
  /\ pressed' = Replay(platform, Host, Head(wire)).pressed
  /\ typed' = Replay(platform, Host, Head(wire)).typed
  /\ UNCHANGED <<fixed, keyVars, strokes, events>>

Next ==
  \/ \E key \in Key : KeyDown(key) \/ KeyRepeat(key) \/ KeyUp(key)
  \/ EnterOrLeave \/ CtrlAltDel \/ LockScreen \/ InputString
  \/ HostKey

Spec == Init /\ [][Next]_vars

----------------------------------------------------------------------------
(* The host types the keys the user struck, once each and in the order     *)
(* they were struck, whatever modifiers, repeats, releases and substituted *)
(* up events come between (inputKey, legacy_keyboard_mode).                *)
TypedInOrder ==
  /\ Len(typed) <= Len(strokes)
  /\ \A i \in DOMAIN typed : typed[i].key = strokes[i].key

(* In legacy mode a key struck with a Control key held is typed with       *)
(* Control down at the host, and one without it without: the modifiers of  *)
(* each event bring the two sides in step (handleKeyDownEventModifiers,    *)
(* fix_modifier of input_service.rs).  In map mode the events carry none.  *)
(* The code's exceptions: when the pointer crosses the edge of the page,   *)
(* or one of two Control keys goes up, InputModel forgets that Control is  *)
(* held until it goes down again (enterOrLeave), and the key is typed      *)
(* without; and a Windows host keeps a Control that is down there when the *)
(* key comes with Alt.                                                     *)
ShortcutsArrive ==
  keyboardMode = "legacy" =>
    \A i \in DOMAIN typed :
      LET struck == strokes[i]
      IN  struck.key # "text" =>
            /\ struck.ctrl /\ ~struck.hidden => typed[i].ctrl
            /\ typed[i].ctrl => \/ struck.ctrl /\ ~struck.hidden
                                \/ platform = "windows" /\ struck.alt

(* With all events replayed (legacy_keyboard_mode), a key is down at the   *)
(* host only while the user holds it, although inputKey sends the up event *)
(* of one key under the chr of another: but for a modifier or another      *)
(* control key that went up right after a character went down, whose up    *)
(* event is lost so.  No character key ever stays down, no key but a       *)
(* modifier at a Linux host, and no modifier in map mode, where the host   *)
(* let go of it before.  The state has its type.                           *)
KeysReleased ==
  /\ TypeOK
  /\ wire = <<>> =>
       /\ pressed \subseteq held \cup lost
       /\ pressed \cap Char \subseteq held
       /\ platform = "linux" => pressed \subseteq Mod
       /\ keyboardMode = "map" => pressed \cap Mod \subseteq held
============================================================================
