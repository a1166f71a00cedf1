--------------------------------------- MODULE Wire ---------------------------------------
(* A message on its way: built by the sender with fromPartial or from a key the user       *)
(* pressed, encoded, decoded element by element by the receiver's loop.  The sender may be *)
(* the host, whose encoder orders fields its own way, may leave repeated numbers unpacked  *)
(* and, when it is newer, writes fields this decoder does not know (Rearrange, external).  *)
(* Checked for every message type of message.ts and rendezvous.ts.                         *)
EXTENDS Integers, Sequences, FiniteSets, SequencesExt

CONSTANTS MaxSafeInteger,       \* the scaled Number.MAX_SAFE_INTEGER
          MaxEdits              \* differences between the host's encoder and this one

M == INSTANCE MessageProto
R == INSTANCE RendezvousProto
P == INSTANCE Protobuf

Types == M!Types @@ R!Types
Enums == M!Enums @@ R!Enums

VARIABLES phase,     \* "start", "coding", "done", "thrown"
          type,      \* the message type
          key,       \* the key it was made from, or "none"
          sent,      \* the message given to encode()
          wire,      \* the elements not yet read
          edits,
          out        \* what decode() has so far

vars == <<phase, type, key, sent, wire, edits, out>>

Unknown == 200                  \* no enum has this value

KEY_MAP ==
  [VK_A |-> "a", VK_B |-> "b", VK_C |-> "c", VK_D |-> "d", VK_E |-> "e", VK_F |-> "f",
   VK_G |-> "g", VK_H |-> "h", VK_I |-> "i", VK_J |-> "j", VK_K |-> "k", VK_L |-> "l",
   VK_M |-> "m", VK_N |-> "n", VK_O |-> "o", VK_P |-> "p", VK_Q |-> "q", VK_R |-> "r",
   VK_S |-> "s", VK_T |-> "t", VK_U |-> "u", VK_V |-> "v", VK_W |-> "w", VK_X |-> "x",
   VK_Y |-> "y", VK_Z |-> "z", VK_0 |-> "0", VK_1 |-> "1", VK_2 |-> "2", VK_3 |-> "3",
   VK_4 |-> "4", VK_5 |-> "5", VK_6 |-> "6", VK_7 |-> "7", VK_8 |-> "8", VK_9 |-> "9",
   VK_COMMA |-> ",", VK_SLASH |-> "/", VK_SEMICOLON |-> ";", VK_QUOTE |-> "'",
   VK_LBRACKET |-> "[", VK_RBRACKET |-> "]", VK_BACKSLASH |-> "\\", VK_MINUS |-> "-",
   VK_PLUS |-> "=", VK_DIVIDE |-> "Divide", VK_MULTIPLY |-> "Multiply",
   VK_SUBTRACT |-> "Subtract", VK_ADD |-> "Add", VK_DECIMAL |-> "Decimal", VK_F1 |-> "F1",
   VK_F2 |-> "F2", VK_F3 |-> "F3", VK_F4 |-> "F4", VK_F5 |-> "F5", VK_F6 |-> "F6",
   VK_F7 |-> "F7", VK_F8 |-> "F8", VK_F9 |-> "F9", VK_F10 |-> "F10", VK_F11 |-> "F11",
   VK_F12 |-> "F12", VK_ENTER |-> "Return", VK_CANCEL |-> "Cancel", VK_BACK |-> "Backspace",
   VK_TAB |-> "Tab", VK_CLEAR |-> "Clear", VK_RETURN |-> "Return", VK_SHIFT |-> "Shift",
   VK_CONTROL |-> "Control", VK_MENU |-> "Alt", VK_PAUSE |-> "Pause", VK_CAPITAL |-> "CapsLock",
   VK_KANA |-> "Kana", VK_HANGUL |-> "Hangul", VK_JUNJA |-> "Junja", VK_FINAL |-> "Final",
   VK_HANJA |-> "Hanja", VK_KANJI |-> "Kanji", VK_ESCAPE |-> "Escape", VK_CONVERT |-> "Convert",
   VK_SPACE |-> "Space", VK_PRIOR |-> "PageUp", VK_NEXT |-> "PageDown", VK_END |-> "End",
   VK_HOME |-> "Home", VK_LEFT |-> "LeftArrow", VK_UP |-> "UpArrow", VK_RIGHT |-> "RightArrow",
   VK_DOWN |-> "DownArrow", VK_SELECT |-> "Select", VK_PRINT |-> "Print",
   VK_EXECUTE |-> "Execute", VK_SNAPSHOT |-> "Snapshot", VK_SCROLL |-> "Scroll",
   VK_INSERT |-> "Insert", VK_DELETE |-> "Delete", VK_HELP |-> "Help", VK_SLEEP |-> "Sleep",
   VK_SEPARATOR |-> "Separator", VK_NUMPAD0 |-> "Numpad0", VK_NUMPAD1 |-> "Numpad1",
   VK_NUMPAD2 |-> "Numpad2", VK_NUMPAD3 |-> "Numpad3", VK_NUMPAD4 |-> "Numpad4",
   VK_NUMPAD5 |-> "Numpad5", VK_NUMPAD6 |-> "Numpad6", VK_NUMPAD7 |-> "Numpad7",
   VK_NUMPAD8 |-> "Numpad8", VK_NUMPAD9 |-> "Numpad9", Apps |-> "Apps", Meta |-> "Meta",
   RAlt |-> "RAlt", RWin |-> "RWin", RControl |-> "RControl", RShift |-> "RShift",
   CTRL_ALT_DEL |-> "CtrlAltDel", LOCK_SCREEN |-> "LockScreen"]

(* The characters of KEY_MAP; the letters, at 1..26, are between aCode and zCode.            *)
Chars == <<"a", "b", "c", "d", "e", "f", "g", "h", "i", "j", "k", "l", "m", "n", "o", "p", "q",
           "r", "s", "t", "u", "v", "w", "x", "y", "z", "0", "1", "2", "3", "4", "5", "6", "7",
           "8", "9", ",", "/", ";", "'", "[", "]", "\\", "-", "=">>
CharCode(c) == CHOOSE i \in DOMAIN Chars : Chars[i] = c

(* Mutant:  the name is taken for the control key's.                                         *)
MapKeyByName(name, desktop) == [control_key |-> <<P!EnumFromJSON(M!ControlKey, name)>>]

(* mapKey: the fields of the key event for a key's name.                                     *)
MapKey(name, desktop) ==
  LET tmp == IF name \in DOMAIN KEY_MAP THEN KEY_MAP[name] ELSE name
  IN IF tmp \notin ToSet(Chars) THEN [control_key |-> <<P!EnumFromJSON(M!ControlKey, tmp)>>]
     ELSE IF ~desktop /\ CharCode(tmp) > 26 THEN [unicode |-> <<CharCode(tmp)>>]
     ELSE [chr |-> <<CharCode(tmp)>>]

(* The names Flutter has for keys that KEY_MAP does not list.                                *)
OtherNames == {"Num Lock"}

(* The values a field is given: defaults, ordinary values, and the edges of its kind.        *)
ValuesOf(kind) ==
  CASE kind = "bool" -> {0, 1}
    [] kind \in DOMAIN Enums -> {Enums[kind][n] : n \in DOMAIN Enums[kind]} \cup {Unknown}
    [] kind = "int64" -> {0} \cup UNION {{v, -v} : v \in {1, MaxSafeInteger, MaxSafeInteger + 1}}
    [] kind = "uint64" -> {0, 1, MaxSafeInteger, MaxSafeInteger + 1}
    [] kind \in DOMAIN Types -> {1}
    [] OTHER -> {0, 1}

Pick(kind) == IF kind \in DOMAIN Enums THEN {0, 2, Unknown} ELSE {1, 2}

Givens(f) == IF P!Repeated(f) THEN SeqOf(Pick(f.kind), 2) ELSE {<<v>> : v \in ValuesOf(f.kind)}

Partials(fs) ==
  {p \in [{f.name : f \in fs} -> UNION {Givens(f) : f \in fs}] : \A f \in fs : p[f.name] \in Givens(f)}

TypeOK ==
  /\ phase \in {"start", "coding", "done", "thrown"}
  /\ type \in DOMAIN Types
  /\ key \in DOMAIN KEY_MAP \cup OtherNames \cup {"none"}
  /\ edits \in 0..MaxEdits
  /\ phase # "start" =>
       /\ DOMAIN sent = {f.name : f \in P!Fields(Types[type])}
       /\ DOMAIN out = DOMAIN sent

Init ==
  /\ phase = "start"
  /\ type \in DOMAIN Types
  /\ key = "none"
  /\ sent = <<>> /\ wire = <<>> /\ out = <<>>
  /\ edits = 0

(* At most two fields are set, which is enough for every field and every pair of fields.     *)
(* X.encode(X.fromPartial(partial)) at the sender, a new message in decode().                *)
Build(partial) ==
  /\ sent' = P!FromPartial(Types[type], partial)
  /\ wire' = P!Encode(Types[type], sent', DOMAIN Enums)
  /\ out' = P!FromPartial(Types[type], <<>>)
  /\ phase' = "coding"

Send ==
  /\ phase = "start"
  /\ \E fs \in {{}} \cup {{f, g} : f, g \in P!Fields(Types[type])} :
       \E p \in Partials(fs) : Build(p)
  /\ UNCHANGED <<type, key, edits>>

SendKey ==
  /\ phase = "start"
  /\ type = "KeyEvent"
  /\ \E name \in DOMAIN KEY_MAP \cup OtherNames, desktop \in BOOLEAN :
       /\ Build(MapKey(name, desktop))
       /\ key' = name
  /\ UNCHANGED <<type, edits>>

Swap(i) == [wire EXCEPT ![i] = wire[i + 1], ![i + 1] = wire[i]]

IsPacked(e) == \E f \in P!Fields(Types[type]) : f.rule = "packed" /\ f.tag = e.tag

Unpacked(e) == [i \in 1..Len(e.vals) |-> [e EXCEPT !.tag = @ - 2, !.vals = <<e.vals[i]>>]]

(* Elements this decoder cannot know: fields of a newer host, of each wire type, and a       *)
(* field of its own whose type the newer host changed.                                       *)
NewField == {8 * 3000 + w : w \in {0, 1, 2, 5}}
Changed == {(t.tag \div 8) * 8 + 5 : t \in P!Fields(Types[type])}
Foreign == {[tag |-> t, kind |-> "new", vals |-> <<1>>] : t \in NewField \cup Changed}

Rearrange ==
  /\ phase = "coding"
  /\ edits < MaxEdits
  /\ out = P!FromPartial(Types[type], <<>>)
  /\ \/ \E i \in 1..(Len(wire) - 1) : wire[i].tag # wire[i + 1].tag /\ wire' = Swap(i)
     \/ \E i \in 1..Len(wire) :
          IsPacked(wire[i]) /\ wire' = SubSeq(wire, 1, i - 1) \o Unpacked(wire[i]) \o SubSeq(wire, i + 1, Len(wire))
     \/ \E i \in 1..(Len(wire) + 1), e \in Foreign : wire' = InsertAt(wire, i, e)
  /\ edits' = edits + 1
  /\ UNCHANGED <<phase, type, key, sent, out>>

(* One round of decode()'s loop.                                                             *)
Decode ==
  /\ phase = "coding"
  /\ wire # <<>>
  /\ IF P!Throws(Types[type], Head(wire))
       THEN phase' = "thrown" /\ UNCHANGED <<wire, out>>
       ELSE /\ out' = P!DecodeElement(Types[type], out, Head(wire))
            /\ wire' = IF P!Ends(Head(wire)) THEN <<>> ELSE Tail(wire)
            /\ UNCHANGED phase
  /\ UNCHANGED <<type, key, sent, edits>>

Finish ==
  /\ phase = "coding"
  /\ wire = <<>>
  /\ phase' = "done"
  /\ UNCHANGED <<type, key, sent, wire, edits, out>>

Next == Send \/ SendKey \/ Rearrange \/ Decode \/ Finish

Spec == Init /\ [][Next]_vars
-------------------------------------------------------------------------------------------
(* What decode() returns is the message encode() was given, field by field, whatever order   *)
(* the host writes them in, packed or not, and with unknown or retyped fields in between:    *)
(* encode and decode of every type agree on numbers, wire types and readers.  decode()       *)
(* throws instead exactly when there is a 64-bit value above Number.MAX_SAFE_INTEGER or      *)
(* below Number.MIN_SAFE_INTEGER.  The state has its type.                                   *)
HasUnsafe(m) ==
  \E f \in P!Fields(Types[type]) :
     P!ReadsLong(f.kind) /\ \E i \in DOMAIN m[f.name] :
        m[f.name][i] \notin (-MaxSafeInteger)..MaxSafeInteger

RoundTrip ==
  /\ TypeOK
  /\ phase = "done" => out = sent /\ ~HasUnsafe(sent)
  /\ phase = "thrown" => HasUnsafe(sent)

(* Every key KEY_MAP names reaches the host as the one character or the one control key      *)
(* KEY_MAP gives it: no name falls through mapKey to UNRECOGNIZED.                           *)
KeysArrive ==
  (phase = "done" /\ key \in DOMAIN KEY_MAP) =>
     {P!EnumToJSON(M!ControlKey, out.control_key[i]) : i \in DOMAIN out.control_key}
     \cup {Chars[out.chr[i]] : i \in DOMAIN out.chr}
     \cup {Chars[out.unicode[i]] : i \in DOMAIN out.unicode} = {KEY_MAP[key]}
===========================================================================================
