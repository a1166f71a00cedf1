------------------------------------- MODULE Protobuf -------------------------------------
(* What the code generated for a protobuf message does, for any message type.               *)
(*                                                                                          *)
(* A type is [encode, decode]: the fields encode() writes, in its order, and the fields     *)
(* decode() knows.  A message maps each field to a sequence of values: <<v>> for a set      *)
(* field, <<>> for one that is undefined, and the elements of a repeated field.  Values     *)
(* are integers: 0 is the default of its kind (false, "", no bytes), any other number one   *)
(* of its values; the value of a sub-message stands for the whole sub-message, whose own    *)
(* type is checked by itself.  The wire is a sequence of elements: a tag, the kind it was   *)
(* written with and its values (more than one only in a packed element).                    *)
EXTENDS Integers, Sequences, SequencesExt

CONSTANT MaxSafeInteger         \* Number.MAX_SAFE_INTEGER, scaled down; MIN_SAFE_INTEGER is its opposite

Type(encode, decode) == [encode |-> encode, decode |-> decode]

(* encode(): written unless it is the default / unless undefined / once per element / as     *)
(* one packed element, an empty one too.                                                     *)
Field(name, tag, kind)  == [name |-> name, tag |-> tag, kind |-> kind, rule |-> "implicit"]
Opt(name, tag, kind)    == [name |-> name, tag |-> tag, kind |-> kind, rule |-> "optional"]
Rep(name, tag, kind)    == [name |-> name, tag |-> tag, kind |-> kind, rule |-> "repeated"]
Packed(name, tag, kind) == [name |-> name, tag |-> tag, kind |-> kind, rule |-> "packed"]

(* decode(): assigns the field / appends to it / appends the values of a packed element, or  *)
(* one value that was written unpacked.                                                      *)
Read(tag, name, kind)       == [name |-> name, tags |-> {tag}, kind |-> kind, push |-> FALSE]
Push(tag, name, kind)       == [name |-> name, tags |-> {tag}, kind |-> kind, push |-> TRUE]
PushPacked(tag, name, kind) == [name |-> name, tags |-> {tag, tag - 2}, kind |-> kind, push |-> TRUE]

Fields(t) == ToSet(t.encode)
Repeated(f) == f.rule \in {"repeated", "packed"}

(* createBase: what a field is before anything is assigned.                                  *)
Default(f) == IF f.rule = "implicit" THEN <<0>> ELSE <<>>

(* fromPartial: the given fields over the defaults.                                          *)
FromPartial(t, partial) ==
  [n \in {f.name : f \in Fields(t)} |->
     IF n \in DOMAIN partial THEN partial[n]
     ELSE Default(CHOOSE f \in Fields(t) : f.name = n)]

(* An enum is written and read as an int32.                                                  *)
WireKind(kind, enums) == IF kind \in enums THEN "int32" ELSE kind

(* The elements encode() writes for one field.                                               *)
EncodeField(f, vals, enums) ==
  LET Element(vs) == [tag |-> f.tag, kind |-> WireKind(f.kind, enums), vals |-> vs]
  IN CASE f.rule = "packed"   -> <<Element(vals)>>
       [] f.rule = "implicit" -> IF vals = <<0>> THEN <<>> ELSE <<Element(vals)>>
       [] OTHER               -> [i \in 1..Len(vals) |-> Element(<<vals[i]>>)]

Encode(t, m, enums) ==
  FlattenSeq([i \in 1..Len(t.encode) |-> EncodeField(t.encode[i], m[t.encode[i].name], enums)])

(* longToNumber: a 64-bit value that a double cannot hold, too large or too small, throws.   *)
LongToNumber(v) == ~(v > MaxSafeInteger) /\ ~(v < -MaxSafeInteger)

ReadsLong(kind) == kind \in {"int64", "uint64"}

(* The field that claims an element: its number is the element's and the whole tag is one    *)
(* that its case accepts.                                                                    *)
Claimed(t, tag) == \E i \in DOMAIN t.decode : tag \in t.decode[i].tags
Claimant(t, tag) == t.decode[CHOOSE i \in DOMAIN t.decode : tag \in t.decode[i].tags]

(* Reading an element with another reader than it was written for gives some other value.    *)
Garbage == -7
ReadValues(d, e) == [i \in 1..Len(e.vals) |-> IF d.kind = e.kind THEN e.vals[i] ELSE Garbage]

Throws(t, e) ==
  Claimed(t, e.tag) /\ LET d == Claimant(t, e.tag)
                       IN ReadsLong(d.kind) /\ \E i \in DOMAIN e.vals : ~LongToNumber(ReadValues(d, e)[i])

(* One round of decode()'s loop: the message after an element.  An element no case claims,   *)
(* of an unknown field or of another wire type, is skipped.                                  *)
DecodeElement(t, m, e) ==
  IF ~Claimed(t, e.tag) THEN m
  ELSE LET d == Claimant(t, e.tag)
       IN [m EXCEPT ![d.name] = IF d.push THEN @ \o ReadValues(d, e) ELSE ReadValues(d, e)]

(* The loop ends at the end of the input, or early at an end-group tag or a zero tag.        *)
Ends(e) == e.tag % 8 = 4 \/ e.tag = 0

(* <enum>FromJSON and <enum>ToJSON: a name or a number the enum has, else UNRECOGNIZED.      *)
Unrecognized == -1
EnumFromJSON(enum, name) == IF name \in DOMAIN enum THEN enum[name] ELSE Unrecognized
EnumToJSON(enum, v) ==
  IF \E n \in DOMAIN enum : enum[n] = v THEN CHOOSE n \in DOMAIN enum : enum[n] = v ELSE "UNRECOGNIZED"
===========================================================================================
