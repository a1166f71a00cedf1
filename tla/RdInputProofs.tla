---------------------------- MODULE RdInputProofs ----------------------------
(***************************************************************************)
(* Proofs about the keyboard path, for any keys and any number of events.  *)
(*                                                                         *)
(* The argument: the host's keyboard lags behind the user's by the events  *)
(* on the wire.  The invariant speaks of the states the host will go       *)
(* through when it replays them: what has been typed in each agrees with   *)
(* what was struck, and in the last one the two keyboards are in step.     *)
(***************************************************************************)
EXTENDS RdInput, TLAPS

HostState == [pressed : SUBSET Key, typed : Seq(Typed)]

(* Control was down when t was typed as it was when s was struck, but for  *)
(* the exceptions of the code.                                             *)
Shortcut(on, t, s) ==
  s.key # "text" =>
    /\ s.ctrl /\ ~s.hidden => t.ctrl
    /\ t.ctrl => (s.ctrl /\ ~s.hidden) \/ (on = "windows" /\ s.alt)

(* What was typed is what was struck first, in legacy mode also with the   *)
(* same Control.  On a mobile browser a symbol is typed twice.             *)
Fits(mode, on, T, S) ==
  Desktop =>
    /\ Len(T) <= Len(S)
    /\ \A i \in 1..Len(T) :
         T[i].key = S[i].key /\ (mode = "legacy" => Shortcut(on, T[i], S[i]))

(* The host in state s comes to state e by replaying w.                    *)
Replays(on, mode, w, s, S, e) ==
  \E h \in [0..Len(w) -> HostState] :
    /\ h[0] = s /\ h[Len(w)] = e
    /\ \A i \in 1..Len(w) : h[i] = Replay(on, h[i - 1], w[i])
    /\ \A i \in 0..Len(w) : Fits(mode, on, h[i].typed, S)

(* The keys mapKey sends as unicode.                                       *)
Coded == Char \ Plain

(* The host in state e is in step with a user who holds H, struck S and    *)
(* let go of L under the chr of another key: in map mode no modifier is    *)
(* down when that may happen.                                              *)
InStep(mode, on, e, H, L, last, S) ==
  /\ Desktop => Len(e.typed) = Len(S)
  /\ e.pressed \subseteq H \cup L
  /\ e.pressed \cap Char \subseteq H \ Coded
  /\ on = "linux" => e.pressed \subseteq Mod
  /\ mode = "map" => /\ e.pressed \cap Mod \subseteq H
                     /\ last # None => e.pressed \cap Mod = {}

(* InputModel knows the modifiers held but the hidden ones; a control key  *)
(* repeats only when no chr is left for its events to take.                *)
UserInv ==
  /\ mods = Kinds(held) \ hidden
  /\ typing <=> lastKeyDownEvent # None
  /\ repeats \in held \cup {None}
  /\ repeats \in Mod \cup Special => ~typing

(* The inductive invariant. *)
InputInv ==
  /\ TypeOK /\ UserInv
  /\ \E e \in HostState :
       /\ Replays(platform, keyboardMode, wire, Host, strokes, e)
       /\ InStep(keyboardMode, platform, e, held, lost, lastKeyDownEvent, strokes)

-----------------------------------------------------------------------------
(* The keys. *)

(* Characters, other keys, modifiers and function keys are different things. *)
LEMMA Keys ==
  /\ None \notin Key /\ "text" \notin Key
  /\ \A k \in Char : k \notin Mod /\ k \notin Special
  /\ \A k \in Special : k \notin Mod /\ k \notin Char
  /\ \A k \in Mod : k \notin Char /\ k \notin Special
  /\ {"CtrlAltDelete", "Function"} \cap Key = {}
  /\ Key = Mod \cup Char \cup Special
  /\ Desktop \in BOOLEAN
  /\ Coded \subseteq Char /\ Plain \subseteq Char /\ (Desktop => Coded = {})
BY RdInputAssumption DEF Key, None, Modifier, Coded, Plain, Char

(* The modifiers of a set of keys. *)
LEMMA KindOf ==
  ASSUME NEW A
  PROVE /\ Kinds(A) \subseteq Modifier
        /\ \A x : x \in Kinds(A) <=> \E m \in A \cap Mod : x = Kind(m)
<1>1. \A k : Kind(k) \in Modifier
  BY DEF Kind, Modifier
<1> QED
  BY <1>1 DEF Kinds

(* ... when one key is added or taken away. *)
LEMMA KindsOne ==
  ASSUME NEW A, NEW k
  PROVE /\ Kinds(A \cup {k}) = Kinds(A) \cup Kinds({k})
        /\ k \notin Mod => Kinds({k}) = {}
        /\ Kinds(A \ {k}) \cup Kinds({k}) = Kinds(A) \cup Kinds({k})
        /\ Kinds(A \ {k}) \subseteq Kinds(A)
        /\ Kinds({k}) \subseteq Modifier
<1> DEFINE K(B) == {Kind(m) : m \in B \cap Mod}
<1>1. \A B : Kinds(B) = K(B)
  BY DEF Kinds
<1>2. \A B, x : x \in K(B) <=> \E m \in B \cap Mod : x = Kind(m)
  OBVIOUS
<1> HIDE DEF K
<1>3. K(A \cup {k}) = K(A) \cup K({k})
  BY <1>2
<1>4. k \notin Mod => K({k}) = {}
  BY <1>2
<1>5. K(A \ {k}) \cup K({k}) = K(A) \cup K({k})
  BY <1>2
<1>6. K(A \ {k}) \subseteq K(A)
  BY <1>2
<1> QED
  BY <1>1, <1>3, <1>4, <1>5, <1>6, KindOf

-----------------------------------------------------------------------------
(* Replaying one event. *)

(* What an event comes out as. *)
LEMMA UnionType ==
  ASSUME NEW ev \in KeyEvent
  PROVE /\ Union(ev).field \in {"seq", "unicode", "chr", "control_key"}
        /\ Union(ev).field \in {"seq", "unicode", "chr"} => Union(ev).key \in Char \cup {"text"}
BY DEF Union, KeyEvent

(* What is left down of a keyboard brought in step with an event. *)
LEMMA SyncFacts ==
  ASSUME NEW on, NEW down, NEW ev \in KeyEvent, NEW c
  PROVE /\ SyncModifiers(on, down, ev, c) \subseteq down
        /\ c \notin Mod /\ ev.modifiers = {} => SyncModifiers(on, down, ev, c) \cap Mod = {}
        /\ c \notin Mod /\ "Control" \in Kinds(SyncModifiers(on, down, ev, c)) =>
             "Control" \in ev.modifiers \/ (on = "windows" /\ "Alt" \in ev.modifiers)
<1> DEFINE unlisted == {m \in Mod \ {c} : Kind(m) \notin ev.modifiers}
           altGr == on = "windows" /\ "Alt" \in Kinds(down \ unlisted)
           sync == SyncModifiers(on, down, ev, c)
<1>1. sync = down \ {m \in unlisted : ~(altGr /\ Kind(m) = "Control")}
  BY DEF SyncModifiers
<1>2. ASSUME c \notin Mod, "Alt" \in Kinds(down \ unlisted) PROVE "Alt" \in ev.modifiers
  <2>1. PICK m \in (down \ unlisted) \cap Mod : "Alt" = Kind(m)
    BY <1>2, KindOf
  <2> QED
    BY <1>2, <2>1
<1>3. ASSUME c \notin Mod, ev.modifiers = {} PROVE sync \cap Mod = {}
  <2>1. ~altGr
    BY <1>2, <1>3
  <2>2. unlisted = Mod
    BY <1>3
  <2> HIDE DEF altGr, unlisted, sync
  <2> QED
    BY <1>1, <2>1, <2>2
<1>4. ASSUME c \notin Mod, "Control" \in Kinds(sync)
      PROVE "Control" \in ev.modifiers \/ (on = "windows" /\ "Alt" \in ev.modifiers)
  <2>1. PICK m \in sync \cap Mod : "Control" = Kind(m)
    BY <1>4, KindOf
  <2>2. CASE Kind(m) \in ev.modifiers
    BY <2>1, <2>2
  <2>3. CASE Kind(m) \notin ev.modifiers
    <3>1. m \in unlisted
      BY <1>4, <2>1, <2>3
    <3>2. altGr
      BY <1>1, <2>1, <3>1
    <3> QED
      BY <1>2, <1>4, <3>2
  <2> QED
    BY <2>2, <2>3
<1> QED
  BY <1>1, <1>3, <1>4

(* The host's state keeps its type. *)
LEMMA ReplayType ==
  ASSUME NEW on, NEW s \in HostState, NEW ev \in KeyEvent
  PROVE Replay(on, s, ev) \in HostState
<1> DEFINE u == Union(ev)
           press == /\ u.field \in {"chr", "control_key"}
                    /\ IF on = "linux" THEN (ev.press \/ ev.down) /\ u.key \notin Mod ELSE ev.press
           down == ev.down \/ press
           synced == IF down THEN SyncModifiers(on, s.pressed, ev, u.key) ELSE s.pressed
           key == IF u.field \in {"chr", "control_key"} THEN {u.key} \cap Key ELSE {}
           effective == Kinds(synced) \cup ev.modifiers
           off == IF down THEN ToRelease(on, s.pressed, ev) ELSE {}
           P == (IF down /\ ~press THEN synced \cup key ELSE synced \ key) \ off
           c == [key |-> u.key, ctrl |-> "Control" \in effective]
           T == IF u.field \in {"unicode", "seq"} \/ (u.key \in Char \cup Special /\ down)
                THEN Append(s.typed, c) ELSE s.typed
<1>1. Replay(on, s, ev) = [pressed |-> P, typed |-> T]
  BY Zenon DEF Replay
<1>2. s.pressed \subseteq Key /\ s.typed \in Seq(Typed)
  BY DEF HostState
<1>3. P \subseteq Key
  <2>1. synced \subseteq Key /\ key \subseteq Key
    BY <1>2, SyncFacts
  <2> HIDE DEF synced, key, off, down, press
  <2> QED
    BY <2>1
<1>4. T \in Seq(Typed)
  <2>1. ("Control" \in effective) \in BOOLEAN
    OBVIOUS
  <2>2. u.field \in {"unicode", "seq"} \/ u.key \in Char \cup Special =>
          u.key \in Char \cup Special \cup {"text"}
    BY UnionType
  <2> HIDE DEF effective
  <2>3. u.field \in {"unicode", "seq"} \/ u.key \in Char \cup Special => c \in Typed
    BY <2>1, <2>2 DEF Typed
  <2> HIDE DEF c, down, u
  <2> QED
    BY <1>2, <2>3
<1> QED
  BY <1>1, <1>3, <1>4 DEF HostState

(* The key an up event lets go. *)
UpKey(ev) == IF ev.chr # None THEN ev.chr ELSE ev.control_key
Up(ev) == ~ev.down /\ ~ev.press /\ ~ev.seq /\ ev.unicode = None

(* An up event types nothing and lets one key go. *)
LEMMA ReplayUp ==
  ASSUME NEW on, NEW s \in HostState, NEW ev \in KeyEvent, Up(ev)
  PROVE /\ Replay(on, s, ev).typed = s.typed
        /\ Replay(on, s, ev).pressed = s.pressed \ {UpKey(ev)}
<1>1. /\ Union(ev).field \in {"chr", "control_key"}
      /\ Union(ev).key = UpKey(ev)
  BY DEF Union, UpKey, Up
<1>2. s.pressed \subseteq Key
  BY DEF HostState
<1> QED
  BY <1>1, <1>2 DEF Replay, Up

(* The down event or the press of a key but a modifier types it.           *)
LEMMA ReplayKey ==
  ASSUME NEW on, NEW s \in HostState, NEW ev \in KeyEvent, NEW c \in Char \cup Special,
         ev.down \/ ev.press, ~ev.seq, ev.unicode = None,
         c \in Char => ev.chr = c, c \in Special => ev.chr = None /\ ev.control_key = c
  PROVE /\ \E t \in Typed :
             /\ t.key = c /\ Replay(on, s, ev).typed = Append(s.typed, t)
             /\ t.ctrl <=> "Control" \in Kinds(SyncModifiers(on, s.pressed, ev, c)) \cup ev.modifiers
        /\ Replay(on, s, ev).pressed \subseteq SyncModifiers(on, s.pressed, ev, c) \cup {c}
        /\ on = "linux" => Replay(on, s, ev).pressed \subseteq SyncModifiers(on, s.pressed, ev, c)
<1> DEFINE sync == SyncModifiers(on, s.pressed, ev, c)
           ctrl == "Control" \in Kinds(sync) \cup ev.modifiers
           x == [key |-> c, ctrl |-> ctrl]
<1>1. /\ Union(ev).field \in {"chr", "control_key"} /\ Union(ev).key = c
      /\ c \notin Mod /\ c \in Key
  BY Keys DEF Union
<1>2. ev.down \in BOOLEAN /\ ev.press \in BOOLEAN
  BY DEF KeyEvent
<1>3. Replay(on, s, ev).typed = Append(s.typed, x)
  BY <1>1, <1>2, Zenon DEF Replay
<1>4. ctrl \in BOOLEAN
  OBVIOUS
<1>5. Replay(on, s, ev).pressed \subseteq sync \cup {c}
  BY <1>1, <1>2 DEF Replay
<1>6. on = "linux" => Replay(on, s, ev).pressed \subseteq sync
  BY <1>1, <1>2 DEF Replay
<1> HIDE DEF ctrl
<1>7. x \in Typed /\ x.key = c /\ x.ctrl = ctrl
  BY <1>4 DEF Typed
<1> HIDE DEF x
<1>8. \E t \in Typed : t.key = c /\ Replay(on, s, ev).typed = Append(s.typed, t) /\ (t.ctrl <=> ctrl)
  BY <1>3, <1>7
<1> QED
  BY <1>5, <1>6, <1>8 DEF ctrl

(* A modifier types nothing, and presses itself at most. *)
LEMMA ReplayMod ==
  ASSUME NEW on, NEW s \in HostState, NEW ev \in KeyEvent, NEW m \in Mod,
         ~ev.seq, ev.unicode = None, ev.chr = None, ev.control_key = m
  PROVE /\ Replay(on, s, ev).typed = s.typed
        /\ Replay(on, s, ev).pressed \subseteq s.pressed \cup {m}
<1>1. /\ Union(ev).field = "control_key" /\ Union(ev).key = m
      /\ m \in Key /\ m \notin Char \cup Special
  BY Keys DEF Union
<1>2. SyncModifiers(on, s.pressed, ev, m) \subseteq s.pressed
  BY SyncFacts
<1>3. Replay(on, s, ev).typed = s.typed
  BY <1>1 DEF Replay
<1>4. Replay(on, s, ev).pressed \subseteq s.pressed \cup {m}
  BY <1>1, <1>2 DEF Replay
<1> QED
  BY <1>3, <1>4

(* A function key, text and a key sent as unicode press nothing. *)
LEMMA ReplayOther ==
  ASSUME NEW on, NEW s \in HostState, NEW ev \in KeyEvent,
         \/ ev.seq
         \/ ev.unicode # None
         \/ ev.chr = None /\ ev.control_key \in {"CtrlAltDelete", "Function"}
  PROVE /\ Replay(on, s, ev).pressed \subseteq s.pressed
        /\ ev.seq =>
             \E c \in Typed : c.key = "text" /\ Replay(on, s, ev).typed = Append(s.typed, c)
        /\ ~ev.seq /\ ev.unicode = None => Replay(on, s, ev).typed = s.typed
<1>1. ev.seq => Union(ev).field = "seq" /\ Union(ev).key = "text"
  BY DEF Union
<1>2. ~ev.seq /\ ev.unicode # None => Union(ev).field = "unicode"
  BY DEF Union
<1>3. ~ev.seq /\ ev.unicode = None =>
        Union(ev).field = "control_key" /\ Union(ev).key \notin Key
  BY Keys DEF Union
<1>4. SyncModifiers(on, s.pressed, ev, Union(ev).key) \subseteq s.pressed
  BY SyncFacts
<1>5. Replay(on, s, ev).pressed \subseteq s.pressed
  <2>1. (IF Union(ev).field \in {"chr", "control_key"} THEN {Union(ev).key} \cap Key ELSE {}) = {}
    BY <1>1, <1>2, <1>3
  <2> QED
    BY <1>4, <2>1 DEF Replay
<1>6. ASSUME ev.seq
      PROVE \E c \in Typed : c.key = "text" /\ Replay(on, s, ev).typed = Append(s.typed, c)
  <2> DEFINE u == Union(ev)
             press == /\ u.field \in {"chr", "control_key"}
                      /\ IF on = "linux" THEN (ev.press \/ ev.down) /\ u.key \notin Mod ELSE ev.press
             down == ev.down \/ press
             synced == IF down THEN SyncModifiers(on, s.pressed, ev, u.key) ELSE s.pressed
             effective == Kinds(synced) \cup ev.modifiers
             c == [key |-> u.key, ctrl |-> "Control" \in effective]
  <2>1. Replay(on, s, ev).typed = Append(s.typed, c)
    BY <1>1, <1>6 DEF Replay
  <2>2. u.key = "text"
    BY <1>1, <1>6
  <2> HIDE DEF effective, u
  <2>3. c \in Typed /\ c.key = "text"
    BY <2>2 DEF Typed
  <2> QED
    BY <2>1, <2>3
<1>7. ~ev.seq /\ ev.unicode = None => Replay(on, s, ev).typed = s.typed
  BY <1>3, Keys DEF Replay
<1> QED
  BY <1>5, <1>6, <1>7

-----------------------------------------------------------------------------
(* Replaying what is on the wire. *)

(* What fits still fits when more is struck. *)
LEMMA FitsLonger ==
  ASSUME NEW mode, NEW on, NEW T \in Seq(Typed), NEW S \in Seq(Stroke), NEW x \in Stroke,
         Fits(mode, on, T, S)
  PROVE Fits(mode, on, T, Append(S, x))
<1>1. /\ Len(Append(S, x)) = Len(S) + 1 /\ Len(S) \in Nat /\ Len(T) \in Nat
      /\ \A i \in 1..Len(S) : Append(S, x)[i] = S[i]
  OBVIOUS
<1> QED
  BY <1>1 DEF Fits

(* The stroke that was missing is typed. *)
LEMMA FitsMore ==
  ASSUME NEW mode, NEW on, NEW T \in Seq(Typed), NEW S \in Seq(Stroke),
         NEW c \in Typed, NEW x \in Stroke,
         Fits(mode, on, T, S), Desktop => Len(T) = Len(S),
         c.key = x.key, mode = "legacy" => Shortcut(on, c, x)
  PROVE /\ Fits(mode, on, Append(T, c), Append(S, x))
        /\ Desktop => Len(Append(T, c)) = Len(Append(S, x))
<1>1. /\ Len(Append(S, x)) = Len(S) + 1 /\ Len(S) \in Nat /\ Append(S, x)[Len(S) + 1] = x
      /\ \A i \in 1..Len(S) : Append(S, x)[i] = S[i]
  OBVIOUS
<1>2. /\ Len(Append(T, c)) = Len(T) + 1 /\ Len(T) \in Nat /\ Append(T, c)[Len(T) + 1] = c
      /\ \A i \in 1..Len(T) : Append(T, c)[i] = T[i]
  OBVIOUS
<1> DEFINE U == Append(T, c)
           V == Append(S, x)
<1> HIDE DEF U, V
<1>3. ASSUME Desktop, NEW i \in 1..(Len(T) + 1)
      PROVE U[i].key = V[i].key /\ (mode = "legacy" => Shortcut(on, U[i], V[i]))
  <2>1. CASE i = Len(T) + 1
    <3>1. U[i] = c /\ V[i] = x
      BY <1>1, <1>2, <1>3, <2>1 DEF U, V
    <3> QED
      BY <3>1
  <2>2. CASE i \in 1..Len(T)
    <3>1. U[i] = T[i] /\ V[i] = S[i]
      BY <1>1, <1>2, <1>3, <2>2 DEF U, V
    <3> QED
      BY <1>3, <2>2, <3>1 DEF Fits
  <2> QED
    BY <1>2, <2>1, <2>2
<1>4. Desktop => Len(U) = Len(T) + 1 /\ Len(V) = Len(T) + 1
  BY <1>1, <1>2 DEF U, V
<1>5. ASSUME Desktop PROVE Len(U) <= Len(V) /\ 1..Len(U) = 1..(Len(T) + 1)
  BY <1>2, <1>4, <1>5
<1>6. Fits(mode, on, U, V)
  BY <1>3, <1>5 DEF Fits
<1> QED
  BY <1>4, <1>6 DEF U, V

(* With nothing on the wire the host stays where it is. *)
LEMMA ReplaysNone ==
  ASSUME NEW on, NEW mode, NEW s \in HostState, NEW S, Fits(mode, on, s.typed, S)
  PROVE Replays(on, mode, <<>>, s, S, s)
<1> DEFINE w == <<>>
           h == [i \in 0..0 |-> s]
<1>1. Len(w) = 0 /\ 1..0 = {} /\ 0 \in 0..0
  OBVIOUS
<1>2. h \in [0..0 -> HostState] /\ h[0] = s /\ \A i \in 0..0 : h[i] = s
  BY <1>1
<1> HIDE DEF h, w
<1>3. Replays(on, mode, w, s, S, s)
  BY <1>1, <1>2 DEF Replays
<1> QED
  BY <1>3 DEF w

(* One more event takes the host one step further. *)
LEMMA ReplaysMore ==
  ASSUME NEW on, NEW mode, NEW w \in Seq(KeyEvent), NEW ev \in KeyEvent, NEW s, NEW S,
         NEW e \in HostState, Replays(on, mode, w, s, S, e),
         Fits(mode, on, Replay(on, e, ev).typed, S)
  PROVE Replays(on, mode, Append(w, ev), s, S, Replay(on, e, ev))
<1> DEFINE n == Len(w)
           v == Append(w, ev)
           e2 == Replay(on, e, ev)
<1>1. n \in Nat /\ Len(v) = n + 1 /\ v[n + 1] = ev /\ \A i \in 1..n : v[i] = w[i]
  OBVIOUS
<1>2. PICK h \in [0..n -> HostState] :
        /\ h[0] = s /\ h[n] = e
        /\ \A i \in 1..n : h[i] = Replay(on, h[i - 1], w[i])
        /\ \A i \in 0..n : Fits(mode, on, h[i].typed, S)
  BY DEF Replays
<1>3. e2 \in HostState
  BY ReplayType
<1> HIDE DEF n, v, e2
<1> DEFINE g == [i \in 0..(n + 1) |-> IF i = n + 1 THEN e2 ELSE h[i]]
<1>4. g \in [0..(n + 1) -> HostState] /\ g[n + 1] = e2 /\ \A i \in 0..n : g[i] = h[i]
  BY <1>1, <1>2, <1>3
<1> HIDE DEF g
<1>5. g[0] = s
  BY <1>1, <1>2, <1>4
<1>6. \A i \in 0..(n + 1) : Fits(mode, on, g[i].typed, S)
  <2>1. \A i \in 0..(n + 1) : i \in 0..n \/ i = n + 1
    BY <1>1
  <2> QED
    BY <1>2, <1>4, <2>1 DEF e2
<1>7. ASSUME NEW i \in 1..(n + 1) PROVE g[i] = Replay(on, g[i - 1], v[i])
  <2>1. CASE i = n + 1
    <3>1. g[i - 1] = e
      BY <1>1, <1>2, <1>4, <2>1
    <3> QED
      BY <1>1, <1>4, <2>1, <3>1 DEF e2
  <2>2. CASE i \in 1..n
    <3>1. g[i - 1] = h[i - 1] /\ g[i] = h[i] /\ v[i] = w[i]
      BY <1>1, <1>4, <2>2
    <3> QED
      BY <1>2, <2>2, <3>1
  <2> QED
    BY <1>1, <2>1, <2>2
<1>8. Replays(on, mode, v, s, S, e2)
  BY <1>1, <1>4, <1>5, <1>6, <1>7 DEF Replays
<1> QED
  BY <1>8 DEF v, e2

(* The host takes the first event. *)
LEMMA ReplaysTail ==
  ASSUME NEW on, NEW mode, NEW w \in Seq(KeyEvent), w # <<>>, NEW s, NEW S,
         NEW e, Replays(on, mode, w, s, S, e)
  PROVE /\ Replays(on, mode, Tail(w), Replay(on, s, Head(w)), S, e)
        /\ Replay(on, s, Head(w)) \in HostState
<1> DEFINE n == Len(w)
           v == Tail(w)
<1>1. /\ n \in Nat /\ n > 0 /\ Len(v) = n - 1 /\ Head(w) = w[1]
      /\ \A i \in 1..(n - 1) : v[i] = w[i + 1]
  OBVIOUS
<1>2. PICK h \in [0..n -> HostState] :
        /\ h[0] = s /\ h[n] = e
        /\ \A i \in 1..n : h[i] = Replay(on, h[i - 1], w[i])
        /\ \A i \in 0..n : Fits(mode, on, h[i].typed, S)
  BY DEF Replays
<1> HIDE DEF n, v
<1>3. h[1] = Replay(on, s, Head(w)) /\ h[1] \in HostState
  <2>1. 1 \in 1..n /\ 1 \in 0..n /\ 1 - 1 = 0
    BY <1>1
  <2>2. h[1] = Replay(on, h[1 - 1], w[1])
    BY <1>2, <2>1
  <2> QED
    BY <1>1, <1>2, <2>1, <2>2
<1> DEFINE g == [i \in 0..(n - 1) |-> h[i + 1]]
<1>4. /\ g \in [0..(n - 1) -> HostState] /\ g[0] = h[1] /\ g[n - 1] = e
      /\ \A i \in 0..(n - 1) : g[i] = h[i + 1]
  <2>1. /\ 0 \in 0..(n - 1) /\ n - 1 \in 0..(n - 1) /\ (n - 1) + 1 = n /\ 0 + 1 = 1
        /\ \A i \in 0..(n - 1) : i + 1 \in 0..n
    BY <1>1
  <2> QED
    BY <1>2, <2>1
<1> HIDE DEF g
<1>5. \A i \in 0..(n - 1) : Fits(mode, on, g[i].typed, S)
  <2>1. \A i \in 0..(n - 1) : i + 1 \in 0..n
    BY <1>1
  <2> QED
    BY <1>2, <1>4, <2>1
<1>6. ASSUME NEW i \in 1..(n - 1) PROVE g[i] = Replay(on, g[i - 1], v[i])
  <2>1. /\ i + 1 \in 1..n /\ (i + 1) - 1 = i /\ i \in 0..(n - 1)
        /\ i - 1 \in 0..(n - 1) /\ (i - 1) + 1 = i
    BY <1>1
  <2>2. h[i + 1] = Replay(on, h[(i + 1) - 1], w[i + 1])
    BY <1>2, <2>1
  <2>3. g[i] = h[i + 1] /\ g[i - 1] = h[i] /\ v[i] = w[i + 1]
    BY <1>1, <1>4, <2>1
  <2> QED
    BY <2>1, <2>2, <2>3
<1>7. Replays(on, mode, v, h[1], S, e)
  BY <1>1, <1>4, <1>5, <1>6 DEF Replays
<1> QED
  BY <1>3, <1>7 DEF v

(* More is struck than the wire has events for yet. *)
LEMMA ReplaysLonger ==
  ASSUME NEW on, NEW mode, NEW w \in Seq(KeyEvent), NEW s, NEW S \in Seq(Stroke),
         NEW x \in Stroke, NEW e, Replays(on, mode, w, s, S, e)
  PROVE Replays(on, mode, w, s, Append(S, x), e)
<1>1. PICK h \in [0..Len(w) -> HostState] :
        /\ h[0] = s /\ h[Len(w)] = e
        /\ \A i \in 1..Len(w) : h[i] = Replay(on, h[i - 1], w[i])
        /\ \A i \in 0..Len(w) : Fits(mode, on, h[i].typed, S)
  BY DEF Replays
<1>2. ASSUME NEW i \in 0..Len(w) PROVE Fits(mode, on, h[i].typed, Append(S, x))
  <2>1. h[i].typed \in Seq(Typed)
    BY DEF HostState
  <2> QED
    BY <1>1, <2>1, FitsLonger
<1> QED
  BY <1>1, <1>2 DEF Replays

(* What is typed at the start and at the end of a replay fits. *)
LEMMA ReplaysEnds ==
  ASSUME NEW on, NEW mode, NEW w \in Seq(KeyEvent), NEW s, NEW S, NEW e,
         Replays(on, mode, w, s, S, e)
  PROVE /\ s \in HostState /\ Fits(mode, on, s.typed, S)
        /\ e \in HostState /\ Fits(mode, on, e.typed, S)
        /\ w = <<>> => s = e
<1>1. Len(w) \in Nat /\ 0 \in 0..Len(w) /\ Len(w) \in 0..Len(w) /\ (w = <<>> => Len(w) = 0)
  OBVIOUS
<1> QED
  BY <1>1 DEF Replays

(* A batch of up events lets go of one key after another. *)
After(e, u, k) == [pressed |-> e.pressed \ {UpKey(u[j]) : j \in 1..k}, typed |-> e.typed]

(* Each step of the batch is a replay. *)
LEMMA AfterUp ==
  ASSUME NEW on, NEW e \in HostState, NEW u \in Seq(KeyEvent), \A j \in 1..Len(u) : Up(u[j])
  PROVE /\ After(e, u, 0) = e
        /\ \A k \in 0..Len(u) : After(e, u, k) \in HostState /\ After(e, u, k).typed = e.typed
        /\ \A k \in 1..Len(u) : After(e, u, k) = Replay(on, After(e, u, k - 1), u[k])
<1>1. /\ e.pressed \subseteq Key /\ e.typed \in Seq(Typed)
      /\ e = [pressed |-> e.pressed, typed |-> e.typed]
  BY DEF HostState
<1>2. {UpKey(u[j]) : j \in 1..0} = {}
  OBVIOUS
<1>3. ASSUME NEW k \in 0..Len(u)
      PROVE After(e, u, k) \in HostState /\ After(e, u, k).typed = e.typed
  BY <1>1 DEF After, HostState
<1>4. ASSUME NEW k \in 1..Len(u) PROVE After(e, u, k) = Replay(on, After(e, u, k - 1), u[k])
  <2> DEFINE s == After(e, u, k - 1)
             r == Replay(on, s, u[k])
  <2>1. k - 1 \in 0..Len(u) /\ u[k] \in KeyEvent /\ Up(u[k])
    OBVIOUS
  <2>2. s \in HostState /\ s.typed = e.typed
    BY <1>3, <2>1
  <2>3. s.pressed = e.pressed \ {UpKey(u[j]) : j \in 1..(k - 1)}
    BY DEF After
  <2> HIDE DEF s
  <2>4. r.typed = e.typed /\ r.pressed = s.pressed \ {UpKey(u[k])} /\ r \in HostState
    BY <2>1, <2>2, ReplayUp, ReplayType
  <2> HIDE DEF r
  <2>5. r = [pressed |-> r.pressed, typed |-> r.typed]
    BY <2>4 DEF HostState
  <2>6. \A j : j \in 1..k <=> j \in 1..(k - 1) \/ j = k
    OBVIOUS
  <2>7. {UpKey(u[j]) : j \in 1..k} = {UpKey(u[j]) : j \in 1..(k - 1)} \cup {UpKey(u[k])}
    BY <2>6
  <2>8. r.pressed = e.pressed \ {UpKey(u[j]) : j \in 1..k}
    BY <2>3, <2>4, <2>7
  <2>9. After(e, u, k) = r
    BY <2>4, <2>5, <2>8 DEF After
  <2> QED
    BY <2>9 DEF r, s
<1> QED
  BY <1>1, <1>2, <1>3, <1>4 DEF After

(* The host replays the batch. *)
LEMMA ReplaysBatch ==
  ASSUME NEW on, NEW mode, NEW w \in Seq(KeyEvent), NEW u \in Seq(KeyEvent), NEW s, NEW S,
         NEW e \in HostState, Replays(on, mode, w, s, S, e), \A j \in 1..Len(u) : Up(u[j])
  PROVE /\ Replays(on, mode, w \o u, s, S, After(e, u, Len(u)))
        /\ After(e, u, Len(u)) \in HostState
<1> DEFINE n == Len(w)
           k == Len(u)
           v == w \o u
<1>1. /\ n \in Nat /\ k \in Nat /\ Len(v) = n + k
      /\ \A i \in 1..n : v[i] = w[i]
      /\ \A i \in 1..k : v[n + i] = u[i]
  OBVIOUS
<1>2. PICK h \in [0..n -> HostState] :
        /\ h[0] = s /\ h[n] = e
        /\ \A i \in 1..n : h[i] = Replay(on, h[i - 1], w[i])
        /\ \A i \in 0..n : Fits(mode, on, h[i].typed, S)
  BY DEF Replays
<1>3. /\ After(e, u, 0) = e
      /\ \A i \in 0..k : After(e, u, i) \in HostState /\ After(e, u, i).typed = e.typed
      /\ \A i \in 1..k : After(e, u, i) = Replay(on, After(e, u, i - 1), u[i])
  BY AfterUp
<1> HIDE DEF n, k, v
<1> DEFINE g == [i \in 0..(n + k) |-> IF i <= n THEN h[i] ELSE After(e, u, i - n)]
<1>4. /\ g \in [0..(n + k) -> HostState]
      /\ \A i \in 0..n : g[i] = h[i]
      /\ \A i \in 0..k : g[n + i] = After(e, u, i)
  <2>1. ASSUME NEW i \in 0..(n + k) PROVE g[i] \in HostState
    <3>1. CASE i <= n
      <4>1. i \in 0..n
        BY <1>1, <3>1
      <4> QED
        BY <1>2, <3>1, <4>1
    <3>2. CASE ~(i <= n)
      <4>1. i - n \in 0..k
        BY <1>1, <3>2
      <4> QED
        BY <1>3, <3>2, <4>1
    <3> QED
      BY <3>1, <3>2
  <2>2. ASSUME NEW i \in 0..n PROVE g[i] = h[i]
    BY <1>1
  <2>3. ASSUME NEW i \in 0..k PROVE g[n + i] = After(e, u, i)
    <3>1. n + i \in 0..(n + k) /\ (n + i) - n = i /\ (n + i <= n <=> i = 0) /\ n + 0 = n
      BY <1>1
    <3>2. CASE i = 0
      BY <1>1, <1>2, <1>3, <3>1, <3>2
    <3>3. CASE i # 0
      BY <3>1, <3>3
    <3> QED
      BY <3>2, <3>3
  <2> QED
    BY <2>1, <2>2, <2>3
<1> HIDE DEF g
<1>5. g[0] = s /\ g[n + k] = After(e, u, k)
  BY <1>1, <1>2, <1>4
<1>6. ASSUME NEW i \in 0..(n + k) PROVE Fits(mode, on, g[i].typed, S)
  <2>1. CASE i \in 0..n
    BY <1>2, <1>4, <2>1
  <2>2. CASE i - n \in 0..k
    <3>1. g[n + (i - n)] = After(e, u, i - n) /\ n + (i - n) = i
      BY <1>1, <1>4, <2>2
    <3>2. g[i].typed = e.typed
      BY <1>3, <2>2, <3>1
    <3>3. n \in 0..n
      BY <1>1
    <3> QED
      BY <1>2, <3>2, <3>3
  <2> QED
    BY <1>1, <2>1, <2>2
<1>7. ASSUME NEW i \in 1..(n + k) PROVE g[i] = Replay(on, g[i - 1], v[i])
  <2>1. CASE i \in 1..n
    <3>1. i - 1 \in 0..n /\ i \in 0..n
      BY <1>1, <2>1
    <3> QED
      BY <1>1, <1>2, <1>4, <2>1, <3>1
  <2>2. CASE i - n \in 1..k
    <3> DEFINE j == i - n
    <3>1. j \in 1..k /\ j \in 0..k /\ j - 1 \in 0..k /\ i = n + j /\ i - 1 = n + (j - 1)
      BY <1>1, <2>2
    <3> HIDE DEF j
    <3>2. g[n + j] = After(e, u, j) /\ g[n + (j - 1)] = After(e, u, j - 1) /\ v[n + j] = u[j]
      BY <1>1, <1>4, <3>1
    <3> QED
      BY <1>3, <3>1, <3>2
  <2> QED
    BY <1>1, <2>1, <2>2
<1>8. Replays(on, mode, v, s, S, After(e, u, k))
  <2>1. /\ g \in [0..Len(v) -> HostState] /\ g[0] = s /\ g[Len(v)] = After(e, u, k)
        /\ \A i \in 1..Len(v) : g[i] = Replay(on, g[i - 1], v[i])
        /\ \A i \in 0..Len(v) : Fits(mode, on, g[i].typed, S)
    BY <1>1, <1>4, <1>5, <1>6, <1>7, Zenon
  <2> QED
    BY <2>1, Zenon DEF Replays
<1>9. After(e, u, k) \in HostState
  BY <1>1, <1>3
<1> QED
  BY <1>8, <1>9 DEF v, k

(* What a sequence holds. *)
Holds(q, m) == \E i \in 1..Len(q) : q[i] = m
One(m, M) == IF m \in M THEN <<m>> ELSE <<>>

(* Two sequences put together hold what each holds. *)
LEMMA ConcatHolds ==
  ASSUME NEW M, NEW a \in Seq(M), NEW b \in Seq(M)
  PROVE a \o b \in Seq(M) /\ \A m : Holds(a, m) \/ Holds(b, m) => Holds(a \o b, m)
<1> DEFINE c == a \o b
<1>1. /\ c \in Seq(M) /\ Len(c) = Len(a) + Len(b) /\ Len(a) \in Nat /\ Len(b) \in Nat
      /\ \A i \in 1..Len(a) : c[i] = a[i]
      /\ \A i \in 1..Len(b) : c[Len(a) + i] = b[i]
  OBVIOUS
<1> HIDE DEF c
<1>2. ASSUME NEW m, Holds(a, m) PROVE Holds(c, m)
  <2>1. PICK i \in 1..Len(a) : a[i] = m
    BY <1>2 DEF Holds
  <2>2. i \in 1..Len(c) /\ c[i] = m
    BY <1>1, <2>1
  <2> QED
    BY <2>2 DEF Holds
<1>3. ASSUME NEW m, Holds(b, m) PROVE Holds(c, m)
  <2>1. PICK i \in 1..Len(b) : b[i] = m
    BY <1>3 DEF Holds
  <2>2. Len(a) + i \in 1..Len(c) /\ c[Len(a) + i] = m
    BY <1>1, <2>1
  <2> QED
    BY <2>2 DEF Holds
<1> QED
  BY <1>1, <1>2, <1>3 DEF c

(* A key of M by itself. *)
LEMMA OneHolds ==
  ASSUME NEW M, NEW m
  PROVE One(m, M) \in Seq(M) /\ (m \in M => Holds(One(m, M), m))
<1>1. CASE m \in M
  <2>1. <<m>> \in Seq(M) /\ Len(<<m>>) = 1 /\ <<m>>[1] = m /\ 1 \in 1..1
    BY <1>1
  <2>2. Holds(<<m>>, m)
    BY <2>1 DEF Holds
  <2> QED
    BY <1>1, <2>1, <2>2 DEF One
<1>2. CASE m \notin M
  <2>1. <<>> \in Seq(M)
    OBVIOUS
  <2> QED
    BY <1>2, <2>1 DEF One
<1> QED
  BY <1>1, <1>2

(* Each key to be released is released. *)
LEMMA AllReleased ==
  ASSUME NEW M \in SUBSET Mod, M # {}
  PROVE /\ ReleaseOrder(M) \in Seq(M) /\ Len(ReleaseOrder(M)) > 0
        /\ \A m \in M : Holds(ReleaseOrder(M), m)
<1> DEFINE q1 == One("Shift", M) \o One("RShift", M)
           q2 == q1 \o One("Control", M)
           q3 == q2 \o One("RControl", M)
           q4 == q3 \o One("Alt", M)
           q5 == q4 \o One("RAlt", M)
           q6 == q5 \o One("Meta", M)
           q7 == q6 \o One("RWin", M)
<1>1. ReleaseOrder(M) = q7
  BY Zenon DEF ReleaseOrder, One
<1>2. q1 \in Seq(M) /\ \A m \in M : m \in {"Shift", "RShift"} => Holds(q1, m)
  BY ConcatHolds, OneHolds
<1> HIDE DEF q1
<1>3. q2 \in Seq(M) /\ \A m \in M : m \in {"Shift", "RShift", "Control"} => Holds(q2, m)
  BY <1>2, ConcatHolds, OneHolds
<1> HIDE DEF q2
<1>4. q3 \in Seq(M) /\ \A m \in M : m \in {"Shift", "RShift", "Control", "RControl"} => Holds(q3, m)
  BY <1>3, ConcatHolds, OneHolds
<1> HIDE DEF q3
<1>5. q4 \in Seq(M) /\ \A m \in M : m \in {"Shift", "RShift", "Control", "RControl", "Alt"} => Holds(q4, m)
  BY <1>4, ConcatHolds, OneHolds
<1> HIDE DEF q4
<1>6. q5 \in Seq(M) /\ \A m \in M :
        m \in {"Shift", "RShift", "Control", "RControl", "Alt", "RAlt"} => Holds(q5, m)
  BY <1>5, ConcatHolds, OneHolds
<1> HIDE DEF q5
<1>7. q6 \in Seq(M) /\ \A m \in M :
        m \in {"Shift", "RShift", "Control", "RControl", "Alt", "RAlt", "Meta"} => Holds(q6, m)
  BY <1>6, ConcatHolds, OneHolds
<1> HIDE DEF q6
<1>8. q7 \in Seq(M) /\ \A m \in M :
        m \in {"Shift", "RShift", "Control", "RControl", "Alt", "RAlt", "Meta", "RWin"} => Holds(q7, m)
  BY <1>7, ConcatHolds, OneHolds
<1> HIDE DEF q7
<1>9. \A m \in M : Holds(q7, m)
  BY <1>8, RdInputAssumption DEF Modifier
<1>10. Len(q7) > 0
  <2>1. PICK m \in M : Holds(q7, m)
    BY <1>9
  <2>2. Len(q7) \in Nat
    BY <1>8
  <2> QED
    BY <2>1, <2>2 DEF Holds
<1> QED
  BY <1>1, <1>8, <1>9, <1>10

-----------------------------------------------------------------------------
(* The steps of the viewer. *)

(* The parts of the invariant. *)
LEMMA InvParts ==
  ASSUME InputInv
  PROVE /\ keyboardMode \in {"map", "legacy"} /\ held \subseteq Key /\ mods \subseteq Modifier
        /\ toReleaseKeys \subseteq Mod /\ hidden \subseteq Modifier /\ lost \subseteq Key
        /\ typing \in BOOLEAN /\ repeats \in Key \cup {None}
        /\ lastKeyDownEvent \in Char \cup {None}
        /\ wire \in Seq(KeyEvent) /\ strokes \in Seq(Stroke)
        /\ Host \in HostState
        /\ \E e \in HostState :
             /\ Replays(platform, keyboardMode, wire, Host, strokes, e)
             /\ InStep(keyboardMode, platform, e, held, lost, lastKeyDownEvent, strokes)
BY RdInputAssumption DEF InputInv, TypeOK, Host, HostState

(* One more event on the wire, and no or one more stroke. *)
LEMMA OneEvent ==
  ASSUME InputInv, TypeOK', UserInv', NEW ev \in KeyEvent, wire' = Append(wire, ev),
         UNCHANGED <<fixed, hostVars>>,
         strokes' = strokes \/ \E x \in Stroke : strokes' = Append(strokes, x),
         \A e \in HostState :
           /\ Fits(keyboardMode, platform, e.typed, strokes)
           /\ InStep(keyboardMode, platform, e, held, lost, lastKeyDownEvent, strokes)
           => /\ Fits(keyboardMode, platform, Replay(platform, e, ev).typed, strokes')
              /\ InStep(keyboardMode, platform, Replay(platform, e, ev),
                        held', lost', lastKeyDownEvent', strokes')
  PROVE InputInv'
<1>1. PICK e \in HostState :
        /\ Replays(platform, keyboardMode, wire, Host, strokes, e)
        /\ InStep(keyboardMode, platform, e, held, lost, lastKeyDownEvent, strokes)
  BY InvParts
<1> DEFINE e2 == Replay(platform, e, ev)
<1>2. Fits(keyboardMode, platform, e.typed, strokes)
  BY <1>1, InvParts, ReplaysEnds
<1>3. /\ e2 \in HostState /\ Fits(keyboardMode, platform, e2.typed, strokes')
      /\ InStep(keyboardMode, platform, e2, held', lost', lastKeyDownEvent', strokes')
  BY <1>1, <1>2, ReplayType
<1>4. Replays(platform, keyboardMode, wire, Host, strokes', e)
  BY <1>1, InvParts, ReplaysLonger
<1>5. Replays(platform, keyboardMode, wire', Host, strokes', e2)
  BY <1>3, <1>4, InvParts, ReplaysMore
<1>6. keyboardMode' = keyboardMode /\ platform' = platform /\ Host' = Host
  BY DEF fixed, hostVars, Host
<1> HIDE DEF e2
<1> QED
  BY <1>3, <1>5, <1>6 DEF InputInv

(* The message inputKey sends. *)
Sent(key, down, press, flags) ==
  [MapKey(key) EXCEPT !.chr = IF down THEN @ ELSE KeyUpChr(MapKey(key), lastKeyDownEvent),
                      !.down = down, !.press = press, !.modifiers = flags]

(* Its fields: a modifier or another control key goes as itself or, when   *)
(* it is not a down event, as the chr of the last key down; a character    *)
(* key as chr or as unicode.                                               *)
LEMMA SentShape ==
  ASSUME InputInv, NEW key \in Key, NEW down \in BOOLEAN, NEW press \in BOOLEAN,
         NEW flags \in SUBSET Modifier, InputKey(key, down, press, flags)
  PROVE /\ Sent(key, down, press, flags) \in KeyEvent
        /\ wire' = Append(wire, Sent(key, down, press, flags))
        /\ LET ev == Sent(key, down, press, flags) IN
           /\ ev.down = down /\ ev.press = press /\ ~ev.seq /\ ev.modifiers = flags
           /\ key \notin Char =>
                /\ ev.unicode = None /\ ev.control_key = key
                /\ ev.chr = (IF down THEN None ELSE lastKeyDownEvent)
                /\ lastKeyDownEvent' = None
           /\ key \in Coded => ev.unicode # None /\ lastKeyDownEvent' = None
           /\ key \in Plain =>
                /\ ev.unicode = None /\ ev.chr = key
                /\ lastKeyDownEvent' = (IF down THEN key ELSE lastKeyDownEvent)
<1>1. /\ lastKeyDownEvent \in Char \cup {None} /\ key \in Mod \cup Char \cup Special
      /\ key # None /\ Plain \subseteq Char /\ None \notin Char
  BY InvParts, Keys
<1>2. /\ lastKeyDownEvent' = IF down THEN MapKey(key).chr
                             ELSE IF MapKey(key).chr = None THEN None ELSE lastKeyDownEvent
      /\ wire' = Append(wire, Sent(key, down, press, flags))
  BY DEF InputKey, Sent
<1>3. CASE key \notin Char
  <2>1. MapKey(key) = [NoEvent EXCEPT !.control_key = key]
    BY <1>3 DEF MapKey
  <2>2. key \in Mod \cup Special /\ key \notin Coded /\ key \notin Plain
    BY <1>1, <1>3 DEF Coded
  <2> QED
    BY <1>1, <1>2, <1>3, <2>1, <2>2 DEF Sent, KeyUpChr, NoEvent, KeyEvent
<1>4. CASE key \in Coded
  <2>1. MapKey(key) = [NoEvent EXCEPT !.unicode = key]
    BY <1>4 DEF MapKey, Coded
  <2>2. key \in Char /\ key \notin Plain
    BY <1>4 DEF Coded
  <2> QED
    BY <1>1, <1>2, <1>4, <2>1, <2>2 DEF Sent, KeyUpChr, NoEvent, KeyEvent
<1>5. CASE key \in Plain
  <2>1. MapKey(key) = [NoEvent EXCEPT !.chr = key]
    BY <1>1, <1>5 DEF MapKey
  <2>2. key \in Char /\ key \notin Coded
    BY <1>1, <1>5 DEF Coded
  <2> QED
    BY <1>1, <1>2, <1>5, <2>1, <2>2 DEF Sent, KeyUpChr, NoEvent, KeyEvent
<1> QED
  BY <1>1, <1>3, <1>4, <1>5 DEF Coded

(* The stroke of a key. *)
StrokeOf(key) ==
  [key |-> key, ctrl |-> "Control" \in Kinds(held), alt |-> "Alt" \in Kinds(held),
   hidden |-> "Control" \in hidden]

(* Its fields. *)
LEMMA StrokeFacts ==
  ASSUME NEW key \in Char \cup Special
  PROVE /\ StrokeOf(key) \in Stroke /\ StrokeOf(key).key = key
        /\ StrokeOf(key).ctrl <=> "Control" \in Kinds(held)
        /\ StrokeOf(key).alt <=> "Alt" \in Kinds(held)
        /\ StrokeOf(key).hidden <=> "Control" \in hidden
<1> DEFINE c == "Control" \in Kinds(held)
           a == "Alt" \in Kinds(held)
           h == "Control" \in hidden
<1>1. StrokeOf(key) = [key |-> key, ctrl |-> c, alt |-> a, hidden |-> h]
  BY DEF StrokeOf
<1>2. c \in BOOLEAN /\ a \in BOOLEAN /\ h \in BOOLEAN
  OBVIOUS
<1> HIDE DEF c, a, h
<1>3. /\ StrokeOf(key) \in Stroke /\ StrokeOf(key).key = key
      /\ StrokeOf(key).ctrl = c /\ StrokeOf(key).alt = a /\ StrokeOf(key).hidden = h
  BY <1>1, <1>2 DEF Stroke
<1> QED
  BY <1>3 DEF c, a, h

(* A key but a modifier goes down or repeats: the host will type it, and   *)
(* has no modifier down in map mode.                                       *)
LEMMA StrikeStep ==
  ASSUME InputInv, TypeOK', UserInv', NEW key \in Char \cup Special,
         NEW down \in BOOLEAN, NEW press \in BOOLEAN, NEW flags \in SUBSET Modifier,
         InputKey(key, down, press, flags), UNCHANGED <<fixed, hostVars>>,
         down \/ press, keyboardMode = "legacy" => flags = mods,
         keyboardMode = "map" => flags = {},
         key \in Special => down \/ lastKeyDownEvent = None,
         held \subseteq held', key \in held', lost \ {key} \subseteq lost',
         strokes' = Append(strokes, StrokeOf(key))
  PROVE InputInv'
<1> DEFINE ev == Sent(key, down, press, flags)
           x == StrokeOf(key)
<1>1. key \in Key /\ key \notin Mod /\ key # None /\ Desktop \in BOOLEAN
  BY Keys
<1>2. /\ ev \in KeyEvent /\ wire' = Append(wire, ev)
      /\ ev.down = down /\ ev.press = press /\ ~ev.seq /\ ev.modifiers = flags
      /\ key \notin Char =>
           /\ ev.unicode = None /\ ev.control_key = key
           /\ ev.chr = (IF down THEN None ELSE lastKeyDownEvent)
           /\ lastKeyDownEvent' = None
      /\ key \in Coded => ev.unicode # None /\ lastKeyDownEvent' = None
      /\ key \in Plain => ev.unicode = None /\ ev.chr = key
  BY <1>1, SentShape
<1>3. x \in Stroke
  BY StrokeFacts
<1> HIDE DEF ev
<1>4. ASSUME NEW e \in HostState, Fits(keyboardMode, platform, e.typed, strokes),
             InStep(keyboardMode, platform, e, held, lost, lastKeyDownEvent, strokes)
      PROVE  /\ Fits(keyboardMode, platform, Replay(platform, e, ev).typed, strokes')
             /\ InStep(keyboardMode, platform, Replay(platform, e, ev),
                       held', lost', lastKeyDownEvent', strokes')
  <2> DEFINE r == Replay(platform, e, ev)
             sync == SyncModifiers(platform, e.pressed, ev, key)
  <2>1. /\ Desktop => Len(e.typed) = Len(strokes)
        /\ e.pressed \subseteq held \cup lost
        /\ e.pressed \cap Char \subseteq held \ Coded
        /\ platform = "linux" => e.pressed \subseteq Mod
        /\ keyboardMode = "map" => e.pressed \cap Mod \subseteq held
    BY <1>4 DEF InStep
  <2>2. CASE key \in Coded
    <3>1. ~Desktop
      BY <2>2, Keys
    <3>2. r.pressed \subseteq e.pressed
      BY <1>2, <2>2, ReplayOther
    <3> HIDE DEF r
    <3>3. Fits(keyboardMode, platform, r.typed, strokes')
      BY <3>1 DEF Fits
    <3>4. InStep(keyboardMode, platform, r, held', lost', lastKeyDownEvent', strokes')
      BY <1>2, <2>1, <2>2, <3>1, <3>2 DEF InStep
    <3> QED
      BY <3>3, <3>4 DEF r
  <2>3. CASE key \notin Coded
    <3>1. ev \in KeyEvent /\ ~ev.seq /\ ev.unicode = None /\ (ev.down \/ ev.press)
      BY <1>2, <2>3 DEF Coded
    <3>2. key \in Char => ev.chr = key
      BY <1>2, <2>3 DEF Coded
    <3>3. key \in Special => ev.chr = None /\ ev.control_key = key
      BY <1>2, Keys
    <3>4. PICK t \in Typed :
            /\ t.key = key /\ r.typed = Append(e.typed, t)
            /\ t.ctrl <=> "Control" \in Kinds(sync) \cup ev.modifiers
      BY <3>1, <3>2, <3>3, ReplayKey
    <3>5. /\ r.pressed \subseteq sync \cup {key}
          /\ platform = "linux" => r.pressed \subseteq sync
      BY <3>1, <3>2, <3>3, ReplayKey
    <3>6. /\ sync \subseteq e.pressed
          /\ flags = {} => sync \cap Mod = {}
          /\ "Control" \in Kinds(sync) =>
               "Control" \in flags \/ (platform = "windows" /\ "Alt" \in flags)
      BY <1>1, <1>2, SyncFacts
    <3>7. keyboardMode = "legacy" => Shortcut(platform, t, x)
      <4>1. /\ "Control" \in mods <=> "Control" \in Kinds(held) /\ "Control" \notin hidden
            /\ "Alt" \in mods => "Alt" \in Kinds(held)
        BY DEF InputInv, UserInv
      <4>2. /\ x.ctrl <=> "Control" \in Kinds(held)
            /\ x.alt <=> "Alt" \in Kinds(held)
            /\ x.hidden <=> "Control" \in hidden
        BY StrokeFacts
      <4> HIDE DEF x, sync
      <4> QED
        BY <1>2, <3>4, <3>6, <4>1, <4>2 DEF Shortcut
    <3>8. e.typed \in Seq(Typed) /\ strokes \in Seq(Stroke) /\ t.key = x.key
      BY <3>4, InvParts, StrokeFacts DEF HostState
    <3> HIDE DEF r, x, sync
    <3>9. /\ Fits(keyboardMode, platform, r.typed, strokes')
          /\ Desktop => Len(r.typed) = Len(strokes')
      BY <1>3, <1>4, <2>1, <3>4, <3>7, <3>8, FitsMore DEF x
    <3>10. r.pressed \subseteq held' \cup lost'
      BY <2>1, <3>5, <3>6
    <3>11. r.pressed \cap Char \subseteq held' \ Coded
      BY <2>1, <2>3, <3>5, <3>6
    <3>12. platform = "linux" => r.pressed \subseteq Mod
      BY <2>1, <3>5, <3>6
    <3>13. keyboardMode = "map" => r.pressed \cap Mod = {}
      BY <1>1, <3>5, <3>6
    <3>14. InStep(keyboardMode, platform, r, held', lost', lastKeyDownEvent', strokes')
      BY <3>9, <3>10, <3>11, <3>12, <3>13 DEF InStep
    <3> QED
      BY <3>9, <3>14 DEF r
  <2> QED
    BY <2>2, <2>3
<1> QED
  BY <1>2, <1>3, <1>4, OneEvent

(* A modifier goes down or repeats: it may stay down at the host. *)
LEMMA ModStep ==
  ASSUME InputInv, TypeOK', UserInv', NEW key \in Mod,
         NEW down \in BOOLEAN, NEW press \in BOOLEAN, NEW flags \in SUBSET Modifier,
         InputKey(key, down, press, flags), UNCHANGED <<fixed, hostVars, strokes>>,
         down \/ lastKeyDownEvent = None,
         held \subseteq held', key \in held', lost \ {key} \subseteq lost'
  PROVE InputInv'
<1> DEFINE ev == Sent(key, down, press, flags)
<1>1. key \in Key /\ key \notin Char
  BY Keys
<1>2. /\ ev \in KeyEvent /\ wire' = Append(wire, ev) /\ ~ev.seq
      /\ ev.unicode = None /\ ev.control_key = key /\ ev.chr = None
      /\ lastKeyDownEvent' = None
  BY <1>1, SentShape
<1> HIDE DEF ev
<1>3. ASSUME NEW e \in HostState, Fits(keyboardMode, platform, e.typed, strokes),
             InStep(keyboardMode, platform, e, held, lost, lastKeyDownEvent, strokes)
      PROVE  /\ Fits(keyboardMode, platform, Replay(platform, e, ev).typed, strokes')
             /\ InStep(keyboardMode, platform, Replay(platform, e, ev),
                       held', lost', lastKeyDownEvent', strokes')
  <2> DEFINE r == Replay(platform, e, ev)
  <2>1. r.typed = e.typed /\ r.pressed \subseteq e.pressed \cup {key}
    BY <1>2, ReplayMod
  <2> HIDE DEF r
  <2>2. InStep(keyboardMode, platform, r, held', lost', lastKeyDownEvent', strokes')
    BY <1>1, <1>2, <1>3, <2>1 DEF InStep
  <2> QED
    BY <1>3, <2>1, <2>2 DEF r
<1> QED
  BY <1>2, <1>3, OneEvent

(* Counting a call keeps its bound. *)
LEMMA Counted ==
  ASSUME InputInv, Count
  PROVE events' \in 0..MaxEvents
BY RdInputAssumption DEF Count, InputInv, TypeOK

(* What inputKey sends has its type. *)
LEMMA SentType ==
  ASSUME InputInv, NEW key \in Key, NEW down \in BOOLEAN, NEW press \in BOOLEAN,
         NEW flags \in SUBSET Modifier, InputKey(key, down, press, flags)
  PROVE wire' \in Seq(KeyEvent) /\ lastKeyDownEvent' \in Char \cup {None}
<1>1. /\ Sent(key, down, press, flags) \in KeyEvent
      /\ wire' = Append(wire, Sent(key, down, press, flags))
      /\ key \notin Char => lastKeyDownEvent' = None
      /\ key \in Coded => lastKeyDownEvent' = None
      /\ key \in Plain => lastKeyDownEvent' = (IF down THEN key ELSE lastKeyDownEvent)
  BY SentShape
<1>2. wire' \in Seq(KeyEvent)
  BY <1>1, InvParts
<1>3. lastKeyDownEvent' \in Char \cup {None}
  BY <1>1, InvParts, Keys DEF Coded
<1> QED
  BY <1>2, <1>3

(* A key goes down. *)
LEMMA KeyDownStep ==
  ASSUME InputInv, NEW key \in Key, KeyDown(key)
  PROVE InputInv'
<1>1. /\ UNCHANGED <<fixed, hostVars>> /\ key \notin held
      /\ held' = held \cup {key} /\ mods' = mods \cup Kinds({key})
      /\ repeats' = key \/ (key \in Mod /\ repeats' = repeats)
      /\ toReleaseKeys' = Remember(key) /\ hidden' = hidden \ Kinds({key})
      /\ typing' = (key \in Plain) /\ lost' = lost \ {key}
      /\ strokes' = IF key \in Mod THEN strokes ELSE Append(strokes, StrokeOf(key))
      /\ \/ keyboardMode = "map" /\ InputKey(key, TRUE, FALSE, {})
         \/ keyboardMode = "legacy" /\ InputKey(key, TRUE, FALSE, mods')
  BY InvParts DEF KeyDown, SendKey, Struck, StrokeOf
<1>2. mods' \subseteq Modifier
  BY <1>1, InvParts, KindOf
<1>3. PICK down \in BOOLEAN, press \in BOOLEAN, flags \in SUBSET Modifier :
        /\ InputKey(key, down, press, flags) /\ down /\ ~press
        /\ keyboardMode = "legacy" => flags = mods'
        /\ keyboardMode = "map" => flags = {}
  <2>1. CASE keyboardMode = "map" /\ InputKey(key, TRUE, FALSE, {})
    BY <2>1
  <2>2. CASE keyboardMode = "legacy" /\ InputKey(key, TRUE, FALSE, mods')
    BY <1>2, <2>2
  <2> QED
    BY <1>1, <2>1, <2>2
<1>4. strokes' \in Seq(Stroke)
  <2>1. key \notin Mod => StrokeOf(key) \in Stroke
    BY Keys, StrokeFacts
  <2> QED
    BY <1>1, <2>1, InvParts
<1>5. wire' \in Seq(KeyEvent) /\ lastKeyDownEvent' \in Char \cup {None}
  BY <1>3, SentType
<1>6. toReleaseKeys' \subseteq Mod
  <2>1. key \in AltKeys => key \in Mod
    BY Keys, RdInputAssumption DEF AltKeys, Modifier
  <2> QED
    BY <1>1, <2>1, InvParts DEF Remember
<1>7. TypeOK'
  <2>1. events' \in 0..MaxEvents
    BY Counted DEF KeyDown
  <2>2. (key \in Plain) \in BOOLEAN /\ typing' \in BOOLEAN
    BY <1>1
  <2>3. repeats' \in Key \cup {None} /\ hidden' \subseteq Modifier /\ lost' \subseteq Key /\ held' \subseteq Key
    BY <1>1, InvParts
  <2> QED
    BY <1>1, <1>2, <1>4, <1>5, <1>6, <2>1, <2>2, <2>3 DEF InputInv, TypeOK, fixed, hostVars
<1>8. UserInv'
  <2>1. mods' = Kinds(held') \ hidden'
    <3>1. mods = Kinds(held) \ hidden
      BY DEF InputInv, UserInv
    <3>2. Kinds(held') = Kinds(held) \cup Kinds({key})
      BY <1>1, KindsOne
    <3> QED
      BY <1>1, <3>1, <3>2
  <2>2. typing' <=> lastKeyDownEvent' # None
    <3>1. /\ key \notin Char => lastKeyDownEvent' = None
          /\ key \in Coded => lastKeyDownEvent' = None
          /\ key \in Plain => lastKeyDownEvent' = (IF down THEN key ELSE lastKeyDownEvent)
      <4>1. InputKey(key, down, press, flags)
        BY <1>3
      <4> QED
        BY <4>1, SentShape
    <3> QED
      BY <1>1, <1>3, <3>1, Keys DEF Coded
  <2>3. repeats' \in held' \cup {None}
    BY <1>1 DEF InputInv, UserInv
  <2>4. repeats' \in Mod \cup Special => ~typing'
    BY <1>1, Keys
  <2> QED
    BY <2>1, <2>2, <2>3, <2>4 DEF UserInv
<1>9. CASE key \in Char \cup Special
  <2>1. key \notin Mod
    BY <1>9, Keys
  <2>2. mods' = mods
    BY <1>1, <2>1, KindsOne
  <2> QED
    BY <1>1, <1>3, <1>7, <1>8, <1>9, <2>1, <2>2, StrikeStep
<1>10. CASE key \in Mod
  BY <1>1, <1>3, <1>7, <1>8, <1>10, ModStep
<1> QED
  BY <1>9, <1>10, Keys

(* A key is held: the system repeats it. *)
LEMMA KeyRepeatStep ==
  ASSUME InputInv, NEW key \in Key, KeyRepeat(key)
  PROVE InputInv'
<1>1. /\ key = repeats
      /\ UNCHANGED <<fixed, held, repeats, mods, toReleaseKeys, hidden, lost, hostVars>>
      /\ strokes' = IF key \in Mod THEN strokes ELSE Append(strokes, StrokeOf(key))
      /\ typing' = IF keyboardMode = "map" THEN key \in Plain ELSE typing /\ key \in Plain
      /\ \/ keyboardMode = "map" /\ InputKey(key, TRUE, FALSE, {})
         \/ keyboardMode = "legacy" /\ InputKey(key, FALSE, TRUE, mods)
  BY InvParts DEF KeyRepeat, SendKey, Struck, StrokeOf
<1>2. PICK down \in BOOLEAN, press \in BOOLEAN, flags \in SUBSET Modifier :
        /\ InputKey(key, down, press, flags) /\ (down \/ press)
        /\ keyboardMode = "legacy" => flags = mods /\ ~down
        /\ keyboardMode = "map" => flags = {} /\ down
  BY <1>1, InvParts
<1>3. key \in held /\ (key \notin Char => lastKeyDownEvent = None)
  BY <1>1, Keys DEF InputInv, UserInv
<1>4. strokes' \in Seq(Stroke)
  <2>1. key \notin Mod => StrokeOf(key) \in Stroke
    BY Keys, StrokeFacts
  <2> QED
    BY <1>1, <2>1, InvParts
<1>5. wire' \in Seq(KeyEvent) /\ lastKeyDownEvent' \in Char \cup {None}
  BY <1>2, SentType
<1>6. typing' \in BOOLEAN /\ (typing' <=> lastKeyDownEvent' # None)
  <2>1. /\ key \notin Char => lastKeyDownEvent' = None
        /\ key \in Coded => lastKeyDownEvent' = None
        /\ key \in Plain => lastKeyDownEvent' = (IF down THEN key ELSE lastKeyDownEvent)
    BY <1>2, SentShape
  <2>2. keyboardMode \in {"map", "legacy"} /\ (typing <=> lastKeyDownEvent # None) /\ typing \in BOOLEAN
    BY InvParts DEF InputInv, UserInv
  <2>3. ASSUME keyboardMode = "map" PROVE typing' \in BOOLEAN /\ (typing' <=> key \in Plain)
    <3>1. typing' = (key \in Plain)
      BY <1>1, <2>3, Zenon
    <3>2. (key \in Plain) \in BOOLEAN
      OBVIOUS
    <3> QED
      BY <3>1, <3>2, Zenon
  <2>4. keyboardMode = "legacy" => typing' \in BOOLEAN /\ (typing' <=> typing /\ key \in Plain)
    <3>1. keyboardMode = "legacy" => typing' = (typing /\ key \in Plain)
      <4>1. keyboardMode = "legacy" => keyboardMode # "map"
        OBVIOUS
      <4> QED
        BY <1>1, <4>1, Zenon
    <3> QED
      BY <3>1
  <2> QED
    BY <1>2, <2>1, <2>2, <2>3, <2>4, Keys DEF Coded
<1>7. TypeOK'
  <2>1. events' \in 0..MaxEvents
    BY Counted DEF KeyRepeat
  <2> QED
    BY <1>1, <1>4, <1>5, <1>6, <2>1 DEF InputInv, TypeOK, fixed, hostVars
<1>8. UserInv'
  <2>1. Kinds(held') = Kinds(held)
    BY <1>1
  <2>2. repeats' \in Mod \cup Special => ~typing'
    <3>1. repeats' = key
      BY <1>1
    <3>2. key \in Mod \cup Special => lastKeyDownEvent' = None
      BY <1>2, Keys, SentShape
    <3> QED
      BY <1>6, <3>1, <3>2
  <2> QED
    BY <1>1, <1>6, <2>1, <2>2 DEF InputInv, UserInv
<1>9. CASE key \in Char \cup Special
  BY <1>1, <1>2, <1>3, <1>7, <1>8, <1>9, Keys, StrikeStep
<1>10. CASE key \in Mod
  BY <1>1, <1>2, <1>3, <1>7, <1>8, <1>10, Keys, ModStep
<1> QED
  BY <1>9, <1>10, Keys

(* A key goes up: the host lets it go, or the last character that went     *)
(* down when the event of a control key is sent under its chr.             *)
LEMMA KeyUpStep ==
  ASSUME InputInv, NEW key \in Key, KeyUp(key)
  PROVE InputInv'
<1>1. /\ held' = held \ {key} /\ mods' = mods \ Kinds({key})
      /\ repeats' = IF key = repeats THEN None ELSE repeats
      /\ toReleaseKeys' = toReleaseKeys \ Cleared(key)
      /\ hidden' = (hidden \ Kinds({key})) \cup (Kinds({key}) \cap Kinds(held'))
      /\ typing' = (typing /\ key \in Plain)
      /\ lost' = IF typing /\ key \notin Char THEN lost \cup {key} ELSE lost \ {key}
      /\ UNCHANGED <<fixed, strokes, hostVars>>
      /\ InputKey(key, FALSE, FALSE, {}) \/ InputKey(key, FALSE, FALSE, mods')
  BY InvParts DEF KeyUp, SendKey
<1>2. mods' \subseteq Modifier
  BY <1>1, InvParts
<1>3. PICK down \in BOOLEAN, press \in BOOLEAN, flags \in SUBSET Modifier :
        InputKey(key, down, press, flags) /\ ~down /\ ~press
  <2>1. PICK flags \in SUBSET Modifier : InputKey(key, FALSE, FALSE, flags)
    BY <1>1, <1>2
  <2> QED
    BY <2>1
<1>4. InputKey(key, down, press, flags)
  BY <1>3
<1> DEFINE ev == Sent(key, down, press, flags)
<1>5. /\ ev \in KeyEvent /\ wire' = Append(wire, ev)
      /\ ev.down = down /\ ev.press = press /\ ~ev.seq
      /\ key \notin Char => /\ ev.unicode = None /\ ev.control_key = key
                            /\ ev.chr = (IF down THEN None ELSE lastKeyDownEvent)
                            /\ lastKeyDownEvent' = None
      /\ key \in Coded => ev.unicode # None /\ lastKeyDownEvent' = None
      /\ key \in Plain =>
           /\ ev.unicode = None /\ ev.chr = key
           /\ lastKeyDownEvent' = (IF down THEN key ELSE lastKeyDownEvent)
  BY <1>4, SentShape
<1> HIDE DEF ev
<1>6. wire' \in Seq(KeyEvent) /\ lastKeyDownEvent' \in Char \cup {None}
  BY <1>4, SentType
<1>7. typing' \in BOOLEAN /\ (typing' <=> typing /\ key \in Plain) /\ (typing' <=> lastKeyDownEvent' # None)
  <2>1. typing' \in BOOLEAN /\ (typing' <=> typing /\ key \in Plain)
    BY <1>1
  <2>2. typing <=> lastKeyDownEvent # None
    BY DEF InputInv, UserInv
  <2>3. key \notin Char \/ key \in Coded \/ key \in Plain
    BY DEF Coded
  <2>4. key \in Plain => key \in Char /\ key \notin Coded
    BY Keys DEF Coded
  <2> QED
    BY <1>3, <1>5, <2>1, <2>2, <2>3, <2>4 DEF Coded
<1>8. TypeOK'
  <2>1. events' \in 0..MaxEvents
    BY Counted DEF KeyUp
  <2>2. hidden' \subseteq Modifier /\ lost' \subseteq Key /\ repeats' \in Key \cup {None}
    BY <1>1, InvParts, KindOf
  <2> QED
    BY <1>1, <1>2, <1>6, <1>7, <2>1, <2>2 DEF InputInv, TypeOK, fixed, hostVars
<1>9. UserInv'
  <2>1. mods' = Kinds(held') \ hidden'
    <3>1. mods = Kinds(held) \ hidden
      BY DEF InputInv, UserInv
    <3>2. Kinds(held') \cup Kinds({key}) = Kinds(held) \cup Kinds({key}) /\ Kinds(held') \subseteq Kinds(held)
      BY <1>1, KindsOne
    <3> QED
      BY <1>1, <3>1, <3>2
  <2>2. repeats' \in held' \cup {None}
    BY <1>1 DEF InputInv, UserInv
  <2>3. repeats' \in Mod \cup Special => ~typing'
    <3>1. None \notin Mod \cup Special
      BY Keys
    <3> QED
      BY <1>1, <1>7, <3>1 DEF InputInv, UserInv
  <2> QED
    BY <1>7, <2>1, <2>2, <2>3 DEF UserInv
<1>10. ASSUME NEW e \in HostState, Fits(keyboardMode, platform, e.typed, strokes),
             InStep(keyboardMode, platform, e, held, lost, lastKeyDownEvent, strokes)
      PROVE  /\ Fits(keyboardMode, platform, Replay(platform, e, ev).typed, strokes')
             /\ InStep(keyboardMode, platform, Replay(platform, e, ev),
                       held', lost', lastKeyDownEvent', strokes')
  <2> DEFINE r == Replay(platform, e, ev)
  <2>1. strokes' = strokes /\ held' = held \ {key} /\ key # None
    BY <1>1, Keys
  <2>2. CASE key \in Coded
    <3>1. ~Desktop /\ key \in Char /\ lost' = lost \ {key}
      BY <1>1, <2>2, Keys
    <3>2. r.pressed \subseteq e.pressed
      BY <1>5, <2>2, ReplayOther
    <3> HIDE DEF r
    <3>3. Fits(keyboardMode, platform, r.typed, strokes')
      BY <3>1 DEF Fits
    <3>4. InStep(keyboardMode, platform, r, held', lost', lastKeyDownEvent', strokes')
      BY <1>5, <1>10, <2>1, <2>2, <3>1, <3>2, Keys DEF InStep
    <3> QED
      BY <3>3, <3>4 DEF r
  <2>3. CASE key \notin Coded
    <3>1. /\ r.typed = e.typed
          /\ r.pressed = e.pressed \ {UpKey(ev)}
      <4>1. Up(ev)
        BY <1>3, <1>5, <2>3 DEF Up, Coded
      <4>2. ev \in KeyEvent
        BY <1>5
      <4> QED
        BY <4>1, <4>2, ReplayUp
    <3> HIDE DEF r
    <3>2. InStep(keyboardMode, platform, r, held', lost', lastKeyDownEvent', strokes')
      <4>1. CASE key \notin Char /\ lastKeyDownEvent = None
        <5>1. lastKeyDownEvent' = None /\ UpKey(ev) = key
          BY <1>3, <1>5, <4>1 DEF UpKey
        <5>2. lost' = lost \ {key}
          BY <1>1, <4>1 DEF InputInv, UserInv
        <5> QED
          BY <1>10, <2>1, <3>1, <4>1, <5>1, <5>2 DEF InStep
      <4>2. CASE key \notin Char /\ lastKeyDownEvent # None
        <5>1. lastKeyDownEvent' = None
          BY <1>5, <4>2
        <5>2. lost' = lost \cup {key}
          BY <1>1, <4>2 DEF InputInv, UserInv
        <5> QED
          BY <1>10, <2>1, <3>1, <4>2, <5>1, <5>2 DEF InStep
      <4>3. CASE key \in Char
        <5>1. lastKeyDownEvent' = lastKeyDownEvent /\ UpKey(ev) = key
          BY <1>3, <1>5, <2>1, <2>3, <4>3 DEF UpKey, Coded
        <5>2. lost' = lost \ {key} /\ key \notin Mod
          BY <1>1, <4>3, Keys
        <5> QED
          BY <1>10, <2>1, <3>1, <4>3, <5>1, <5>2 DEF InStep
      <4> QED
        BY <4>1, <4>2, <4>3
    <3> QED
      BY <1>10, <2>1, <3>1, <3>2 DEF r
  <2> QED
    BY <2>2, <2>3
<1>11. strokes' = strokes /\ UNCHANGED <<fixed, hostVars>>
  BY <1>1
<1> QED
  BY <1>5, <1>8, <1>9, <1>10, <1>11, OneEvent

(* The pointer enters or leaves the page: an up event for each modifier    *)
(* seen down, the first under the chr of the last key.                     *)
LEMMA EnterOrLeaveStep ==
  ASSUME InputInv, EnterOrLeave
  PROVE InputInv'
<1> DEFINE released == ReleaseOrder(toReleaseKeys)
           Ev(i) == [MapKey(released[i]) EXCEPT
                       !.chr = IF i = 1 THEN lastKeyDownEvent ELSE None,
                       !.modifiers = IF keyboardMode = "map" THEN {}
                                     ELSE mods \ {Kind(released[j]) : j \in 1..i}]
           ups == [i \in DOMAIN released |-> Ev(i)]
<1>1. /\ toReleaseKeys # {} /\ wire' = wire \o ups /\ lastKeyDownEvent' = None
      /\ mods' = {} /\ toReleaseKeys' = toReleaseKeys \cap {"RAlt"} /\ hidden' = Kinds(held)
      /\ typing' = FALSE
      /\ lost' = (lost \ toReleaseKeys) \cup (IF typing THEN {released[1]} ELSE {})
      /\ UNCHANGED <<fixed, held, repeats, strokes, hostVars>>
  BY DEF EnterOrLeave
<1>2. /\ wire \in Seq(KeyEvent) /\ mods \subseteq Modifier /\ toReleaseKeys \subseteq Mod
      /\ lastKeyDownEvent \in Char \cup {None} /\ (typing <=> lastKeyDownEvent # None)
  BY InvParts DEF InputInv, UserInv
<1>3. /\ released \in Seq(toReleaseKeys) /\ Len(released) > 0
      /\ \A m \in toReleaseKeys : Holds(released, m)
  BY <1>1, <1>2, AllReleased
<1> HIDE DEF released
<1>4. Len(released) \in Nat /\ DOMAIN released = 1..Len(released) /\ 1 \in 1..Len(released)
  BY <1>3
<1>5. ASSUME NEW i \in 1..Len(released)
      PROVE /\ Ev(i) \in KeyEvent /\ Up(Ev(i)) /\ released[i] \in toReleaseKeys
            /\ UpKey(Ev(i)) = IF i = 1 /\ typing THEN lastKeyDownEvent ELSE released[i]
  <2>1. released[i] \in toReleaseKeys /\ released[i] \in Mod /\ released[i] \notin Char
    BY <1>2, <1>3, Keys
  <2>2. MapKey(released[i]) = [NoEvent EXCEPT !.control_key = released[i]]
    BY <2>1 DEF MapKey
  <2>3. mods \ {Kind(released[j]) : j \in 1..i} \subseteq Modifier
    BY <1>2
  <2> QED
    BY <1>2, <2>1, <2>2, <2>3 DEF NoEvent, KeyEvent, Up, UpKey
<1> HIDE DEF Ev
<1>6. /\ ups \in Seq(KeyEvent) /\ Len(ups) = Len(released)
      /\ \A i \in 1..Len(released) : ups[i] = Ev(i)
  BY <1>4, <1>5
<1> HIDE DEF ups
<1>7. \A i \in 1..Len(ups) : Up(ups[i])
  BY <1>5, <1>6
<1>8. PICK e \in HostState :
        /\ Replays(platform, keyboardMode, wire, Host, strokes, e)
        /\ InStep(keyboardMode, platform, e, held, lost, lastKeyDownEvent, strokes)
  BY InvParts
<1>9. PICK r : r = After(e, ups, Len(ups))
  OBVIOUS
<1>10. /\ r \in HostState /\ Replays(platform, keyboardMode, wire', Host, strokes, r)
       /\ r.typed = e.typed
       /\ r.pressed = e.pressed \ {UpKey(ups[j]) : j \in 1..Len(ups)}
  <2>1. Replays(platform, keyboardMode, wire \o ups, Host, strokes, After(e, ups, Len(ups)))
        /\ After(e, ups, Len(ups)) \in HostState
    BY <1>2, <1>6, <1>7, <1>8, ReplaysBatch
  <2> QED
    BY <1>1, <1>9, <2>1 DEF After
<1>11. r.pressed \subseteq held \cup lost'
  <2> SUFFICES ASSUME NEW p \in r.pressed, p \notin held PROVE p \in lost'
    OBVIOUS
  <2>1. p \in e.pressed /\ p \in lost
    BY <1>8, <1>10 DEF InStep
  <2>2. CASE p \notin toReleaseKeys
    BY <1>1, <2>1, <2>2
  <2>3. CASE p \in toReleaseKeys
    <3>1. PICK i \in 1..Len(released) : released[i] = p
      BY <1>3, <2>3 DEF Holds
    <3>2. i \in 1..Len(ups) /\ ups[i] = Ev(i)
      BY <1>6
    <3>3. UpKey(ups[i]) # p
      BY <1>10, <3>2
    <3>4. i = 1 /\ typing
      BY <1>5, <3>1, <3>2, <3>3
    <3> QED
      BY <1>1, <3>1, <3>4
  <2> QED
    BY <2>2, <2>3
<1>12. InStep(keyboardMode, platform, r, held, lost', None, strokes)
  BY <1>8, <1>10, <1>11 DEF InStep
<1>13. TypeOK'
  <2>1. events' \in 0..MaxEvents
    BY Counted DEF EnterOrLeave
  <2>2. wire' \in Seq(KeyEvent)
    BY <1>1, <1>2, <1>6
  <2>3. released[1] \in Key /\ lost' \subseteq Key
    <3>1. released[1] \in toReleaseKeys
      BY <1>4, <1>5
    <3>2. released[1] \in Key
      BY <1>2, <3>1, Keys
    <3> QED
      BY <1>1, <3>2, InvParts
  <2>4. hidden' \subseteq Modifier /\ toReleaseKeys' \subseteq Mod
    BY <1>1, <1>2, KindOf
  <2> QED
    BY <1>1, <2>1, <2>2, <2>3, <2>4 DEF InputInv, TypeOK, fixed, hostVars
<1>14. UserInv'
  <2>1. Kinds(held') = Kinds(held)
    BY <1>1
  <2> QED
    BY <1>1, <2>1 DEF InputInv, UserInv
<1>15. /\ keyboardMode' = keyboardMode /\ platform' = platform /\ Host' = Host
       /\ strokes' = strokes /\ held' = held /\ lastKeyDownEvent' = None
  BY <1>1 DEF fixed, hostVars, Host
<1> QED
  BY <1>10, <1>12, <1>13, <1>14, <1>15 DEF InputInv

(* A function key, and the lock of the screen, press and type nothing. *)
LEMMA FunctionKeyStep ==
  ASSUME InputInv, NEW delete \in BOOLEAN, SendFunctionKey(delete)
  PROVE InputInv'
<1> DEFINE ev == [NoEvent EXCEPT !.down = TRUE,
                    !.control_key = IF delete THEN "CtrlAltDelete" ELSE "Function",
                    !.modifiers = IF delete THEN {"Alt", "Control"} ELSE {}]
<1>1. /\ wire' = Append(wire, ev)
      /\ UNCHANGED <<fixed, keyVars, strokes, hostVars>>
  BY DEF SendFunctionKey
<1>2. /\ ev \in KeyEvent /\ ~ev.seq /\ ev.unicode = None /\ ev.chr = None
      /\ ev.control_key \in {"CtrlAltDelete", "Function"}
  BY DEF NoEvent, KeyEvent, Modifier
<1> HIDE DEF ev
<1>3. TypeOK' /\ UserInv'
  <2>1. events' \in 0..MaxEvents
    BY Counted DEF SendFunctionKey
  <2>2. wire' \in Seq(KeyEvent)
    BY <1>1, <1>2, InvParts
  <2>3. Kinds(held') = Kinds(held)
    BY <1>1 DEF keyVars
  <2> QED
    BY <1>1, <2>1, <2>2, <2>3 DEF InputInv, TypeOK, UserInv, fixed, hostVars, keyVars
<1>4. ASSUME NEW e \in HostState, Fits(keyboardMode, platform, e.typed, strokes),
             InStep(keyboardMode, platform, e, held, lost, lastKeyDownEvent, strokes)
      PROVE  /\ Fits(keyboardMode, platform, Replay(platform, e, ev).typed, strokes')
             /\ InStep(keyboardMode, platform, Replay(platform, e, ev),
                       held', lost', lastKeyDownEvent', strokes')
  <2> DEFINE r == Replay(platform, e, ev)
  <2>1. r.typed = e.typed /\ r.pressed \subseteq e.pressed
    BY <1>2, ReplayOther
  <2> HIDE DEF r
  <2>2. InStep(keyboardMode, platform, r, held', lost', lastKeyDownEvent', strokes')
    BY <1>1, <1>4, <2>1 DEF InStep, keyVars
  <2> QED
    BY <1>1, <1>4, <2>1, <2>2 DEF r
<1> QED
  BY <1>1, <1>2, <1>3, <1>4, OneEvent

(* A string is typed as text. *)
LEMMA InputStringStep ==
  ASSUME InputInv, InputString
  PROVE InputInv'
<1> DEFINE ev == [NoEvent EXCEPT !.seq = TRUE]
           x == [key |-> "text", ctrl |-> FALSE, alt |-> FALSE, hidden |-> FALSE]
<1>1. /\ wire' = Append(wire, ev) /\ strokes' = Append(strokes, x)
      /\ UNCHANGED <<fixed, keyVars, hostVars>>
  BY DEF InputString
<1>2. ev \in KeyEvent /\ ev.seq /\ x \in Stroke /\ x.key = "text"
  BY DEF NoEvent, KeyEvent, Stroke
<1> HIDE DEF ev, x
<1>3. TypeOK' /\ UserInv'
  <2>1. events' \in 0..MaxEvents
    BY Counted DEF InputString
  <2>2. wire' \in Seq(KeyEvent) /\ strokes' \in Seq(Stroke)
    BY <1>1, <1>2, InvParts
  <2>3. Kinds(held') = Kinds(held)
    BY <1>1 DEF keyVars
  <2> QED
    BY <1>1, <2>1, <2>2, <2>3 DEF InputInv, TypeOK, UserInv, fixed, hostVars, keyVars
<1>4. ASSUME NEW e \in HostState, Fits(keyboardMode, platform, e.typed, strokes),
             InStep(keyboardMode, platform, e, held, lost, lastKeyDownEvent, strokes)
      PROVE  /\ Fits(keyboardMode, platform, Replay(platform, e, ev).typed, strokes')
             /\ InStep(keyboardMode, platform, Replay(platform, e, ev),
                       held', lost', lastKeyDownEvent', strokes')
  <2> DEFINE r == Replay(platform, e, ev)
  <2>1. r.pressed \subseteq e.pressed
    BY <1>2, ReplayOther
  <2>2. PICK c \in Typed : c.key = "text" /\ r.typed = Append(e.typed, c)
    BY <1>2, ReplayOther
  <2> HIDE DEF r
  <2>3. e.typed \in Seq(Typed) /\ strokes \in Seq(Stroke)
    BY InvParts DEF HostState
  <2>4. (Desktop => Len(e.typed) = Len(strokes)) /\ Shortcut(platform, c, x)
    BY <1>2, <1>4 DEF InStep, Shortcut
  <2>5. /\ Fits(keyboardMode, platform, r.typed, strokes')
        /\ Desktop => Len(r.typed) = Len(strokes')
    BY <1>1, <1>2, <1>4, <2>2, <2>3, <2>4, FitsMore
  <2>6. InStep(keyboardMode, platform, r, held', lost', lastKeyDownEvent', strokes')
    BY <1>1, <1>4, <2>1, <2>5 DEF InStep, keyVars
  <2> QED
    BY <2>5, <2>6 DEF r
<1> QED
  BY <1>1, <1>2, <1>3, <1>4, OneEvent

(* The host replays an event: it has one state less to go through. *)
LEMMA HostKeyStep ==
  ASSUME InputInv, HostKey
  PROVE InputInv'
<1> DEFINE s == Replay(platform, Host, Head(wire))
<1>1. /\ wire # <<>> /\ wire' = Tail(wire) /\ pressed' = s.pressed /\ typed' = s.typed
      /\ UNCHANGED <<fixed, keyVars, strokes, events>>
  BY DEF HostKey
<1>2. PICK e \in HostState :
        /\ Replays(platform, keyboardMode, wire, Host, strokes, e)
        /\ InStep(keyboardMode, platform, e, held, lost, lastKeyDownEvent, strokes)
  BY InvParts
<1>3. Replays(platform, keyboardMode, Tail(wire), s, strokes, e) /\ s \in HostState
  BY <1>1, <1>2, InvParts, ReplaysTail
<1> HIDE DEF s
<1>4. /\ Host' = s /\ keyboardMode' = keyboardMode /\ platform' = platform
      /\ s.pressed \subseteq Key /\ s.typed \in Seq(Typed)
  BY <1>1, <1>3 DEF Host, HostState, fixed
<1>5. TypeOK' /\ UserInv'
  <2>1. wire' \in Seq(KeyEvent)
    BY <1>1, InvParts
  <2>2. Kinds(held') = Kinds(held)
    BY <1>1 DEF keyVars
  <2> QED
    BY <1>1, <1>4, <2>1, <2>2 DEF InputInv, TypeOK, UserInv, fixed, keyVars
<1>6. held' = held /\ lost' = lost /\ lastKeyDownEvent' = lastKeyDownEvent /\ strokes' = strokes
  BY <1>1 DEF keyVars
<1> QED
  BY <1>1, <1>2, <1>3, <1>4, <1>5, <1>6 DEF InputInv

-----------------------------------------------------------------------------
(* At the start no key is down, nothing is struck and nothing is sent. *)
LEMMA InputInit == Init => InputInv
<1> SUFFICES ASSUME Init PROVE InputInv
  OBVIOUS
<1>1. TypeOK /\ UserInv
  <2>1. Kinds({}) = {}
    BY KindOf
  <2>2. None \notin Mod \cup Special
    BY Keys
  <2>3. Kinds(held) = {}
    BY <2>1 DEF Init
  <2>4. TypeOK
    <3>1. 0 \in 0..MaxEvents
      BY RdInputAssumption
    <3>2. <<>> \in Seq(KeyEvent) /\ <<>> \in Seq(Stroke) /\ <<>> \in Seq(Typed)
      OBVIOUS
    <3>3. typing \in BOOLEAN
      BY DEF Init
    <3> QED
      BY <3>1, <3>2, <3>3 DEF Init, TypeOK
  <2>5. UserInv
    BY <2>2, <2>3 DEF Init, UserInv
  <2> QED
    BY <2>4, <2>5
<1>2. Host \in HostState /\ Host.pressed = {} /\ Host.typed = <<>> /\ strokes = <<>> /\ wire = <<>>
  BY DEF Init, Host, HostState
<1>3. Fits(keyboardMode, platform, Host.typed, strokes)
  BY <1>2 DEF Fits
<1>4. Replays(platform, keyboardMode, wire, Host, strokes, Host)
  BY <1>2, <1>3, ReplaysNone
<1>5. InStep(keyboardMode, platform, Host, held, lost, lastKeyDownEvent, strokes)
  BY <1>2 DEF InStep
<1> QED
  BY <1>1, <1>2, <1>4, <1>5 DEF InputInv

(* Every step keeps the invariant. *)
LEMMA InputNext == InputInv /\ [Next]_vars => InputInv'
<1> SUFFICES ASSUME InputInv, [Next]_vars PROVE InputInv'
  OBVIOUS
<1>1. ASSUME NEW key \in Key, KeyDown(key) \/ KeyRepeat(key) \/ KeyUp(key) PROVE InputInv'
  BY <1>1, KeyDownStep, KeyRepeatStep, KeyUpStep
<1>2. CASE EnterOrLeave
  BY <1>2, EnterOrLeaveStep
<1>3. CASE CtrlAltDel \/ LockScreen
  <2>1. \E delete \in BOOLEAN : SendFunctionKey(delete)
    BY <1>3 DEF CtrlAltDel, LockScreen
  <2> QED
    BY <2>1, FunctionKeyStep
<1>4. CASE InputString
  BY <1>4, InputStringStep
<1>5. CASE HostKey
  BY <1>5, HostKeyStep
<1>6. CASE UNCHANGED vars
  BY <1>6 DEF vars, InputInv, TypeOK, UserInv, Kinds, Host
<1> QED
  BY <1>1, <1>2, <1>3, <1>4, <1>5, <1>6 DEF Next

(* Replaying what inputKey has put on the wire always brings the host's    *)
(* keyboard in step with the user's (InputInv), in either keyboard mode,   *)
(* on every platform and in every browser, for characters, control keys    *)
(* and modifiers of either side: but for the keys in lost.                 *)
THEOREM KeyboardsInStep == Spec => []InputInv
BY InputInit, InputNext, PTL DEF Spec

(* In a desktop browser the host types what was struck, once and in order  *)
(* (inputKey, legacy_keyboard_mode).                                       *)
THEOREM TypedAlwaysInOrder ==
  ASSUME Desktop PROVE Spec => []TypedInOrder
<1>1. InputInv => TypedInOrder
  <2> SUFFICES ASSUME InputInv PROVE TypedInOrder
    OBVIOUS
  <2>1. Fits(keyboardMode, platform, typed, strokes)
    BY InvParts, ReplaysEnds DEF Host
  <2>2. DOMAIN typed = 1..Len(typed)
    BY DEF InputInv, TypeOK
  <2> QED
    BY <2>1, <2>2 DEF Fits, TypedInOrder
<1> QED
  BY <1>1, KeyboardsInStep, PTL

(* In a desktop browser and in legacy mode a key is typed with Control     *)
(* down exactly when the user held it, but for the two exceptions that     *)
(* ShortcutsArrive names (fix_modifier, enterOrLeave).                     *)
THEOREM ShortcutsAlwaysArrive ==
  ASSUME Desktop PROVE Spec => []ShortcutsArrive
<1>1. InputInv => ShortcutsArrive
  <2> SUFFICES ASSUME InputInv PROVE ShortcutsArrive
    OBVIOUS
  <2>1. Fits(keyboardMode, platform, typed, strokes)
    BY InvParts, ReplaysEnds DEF Host
  <2>2. DOMAIN typed = 1..Len(typed)
    BY DEF InputInv, TypeOK
  <2> QED
    BY <2>1, <2>2 DEF Fits, Shortcut, ShortcutsArrive
<1> QED
  BY <1>1, KeyboardsInStep, PTL

(* In every browser, once the host has replayed all events no key is down  *)
(* that the user does not hold, but for control keys whose up event was    *)
(* sent under the chr of another (KeyUpChr of inputKey, legacy_keyboard_   *)
(* mode).                                                                  *)
THEOREM KeysAlwaysReleased == Spec => []KeysReleased
<1>1. InputInv => KeysReleased
  <2> SUFFICES ASSUME InputInv PROVE KeysReleased
    OBVIOUS
  <2>1. PICK e \in HostState :
          /\ Replays(platform, keyboardMode, wire, Host, strokes, e)
          /\ InStep(keyboardMode, platform, e, held, lost, lastKeyDownEvent, strokes)
    BY InvParts
  <2>2. wire = <<>> => e.pressed = pressed
    <3>1. Host.pressed = pressed
      BY DEF Host
    <3>2. wire = <<>> => Host = e
      BY <2>1, InvParts, ReplaysEnds
    <3> QED
      BY <3>1, <3>2
  <2>3. TypeOK
    BY DEF InputInv
  <2> QED
    BY <2>1, <2>2, <2>3 DEF KeysReleased, InStep
<1> QED
  BY <1>1, KeyboardsInStep, PTL

=============================================================================
