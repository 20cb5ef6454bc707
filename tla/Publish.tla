------------------------------ MODULE Publish -------------------------------
(***************************************************************************)
(* What becomes of a value between publish() and the variable_t that the   *)
(* callback of a subscriber is given. The overload of publish() chooses a  *)
(* conversion to bytes and an encoding, do_publish() hands both to zenoh,  *)
(* and lib_subscribe_callback builds a variable from the sample, as get()  *)
(* does from a reply. A text is a sequence of character codes; the time of *)
(* a variable, a text as well, is kept as its number. Every sample has a   *)
(* stamp of the publisher's session, the next in order: what holds of two  *)
(* stamps that follow each other holds of all.                             *)
(*                                                                         *)
(* The text of a float or double is that of boost::lexical_cast, which is  *)
(* given as a function that tells values apart. Integers are any; those of *)
(* the runs are in the range of TLC's own, which is that of int32.         *)
(***************************************************************************)
EXTENDS Ntp64, SequencesExt

CONSTANTS
    Small,      \* values that are published as std::int8_t
    Whole,      \* values that are published as wider integers
    FloatText,  \* texts of the values published as float or double
    Content     \* contents of strings and buffers

ASSUME SmallAssumption == Small \subseteq -128..127
ASSUME WholeAssumption == Whole \subseteq Int
ASSUME FloatAssumption ==
    /\ \A x \in DOMAIN FloatText : FloatText[x] \in Seq(1..255)
    /\ \A x, y \in DOMAIN FloatText : FloatText[x] = FloatText[y] => x = y
ASSUME ContentAssumption == \A c \in Content : c \in Seq(0..255)

VARIABLES
    connected,  \* is_connected() of the publisher
    call,       \* the last publish() that returned 0: type and value
    sample,     \* what zenoh carries: payload, encoding and stamp
    variable,   \* the variable_t that the running callback is given
    clock,      \* the stamp that the session gives next
    shown       \* for history: the times of the last two variables

vars == <<connected, call, sample, variable, clock, shown>>

CharType == {"int8", "uint8"}
WholeType == {"int16", "uint16", "int32", "uint32", "int64", "uint64"}
FloatType == {"float", "double"}
BufferType == {"raw", "custom"}
Type == CharType \cup WholeType \cup FloatType \cup BufferType \cup {"bool", "string"}

(* Values of a type among those that are published. *)
Value(type) ==
    CASE type = "int8" -> Small
      [] type = "uint8" -> {v % 256 : v \in Small}
      [] type = "int16" -> {v \in Whole : -32768 <= v /\ v <= 32767}
      [] type = "uint16" -> {v \in Whole : 0 <= v /\ v <= 65535}
      [] type \in {"uint32", "uint64"} -> {v \in Whole : 0 <= v}
      [] type \in {"int32", "int64"} -> Whole
      [] type = "bool" -> BOOLEAN
      [] type \in FloatType -> DOMAIN FloatText
      [] OTHER -> Content

None == [encoding |-> "none"]

-----------------------------------------------------------------------------
(* Conversions. *)

NUL == 0
Minus == 45
Zero == 48
True == <<116, 114, 117, 101>>
False == <<102, 97, 108, 115, 101>>

digits[n \in Nat] ==
    IF n < 10 THEN <<Zero + n>> ELSE Append(digits[n \div 10], Zero + (n % 10))

(* lexical_cast of the wider integers. *)
Decimal(v) == IF v < 0 THEN <<Minus>> \o digits[-v] ELSE digits[v]

(* Variant with a bug: a negative char is not a character code. *)
TextSigned(type, v) ==
    CASE type \in CharType -> <<v>>
      [] type \in WholeType -> Decimal(v)
      [] type = "bool" -> IF v THEN True ELSE False
      [] type \in FloatType -> FloatText[v]
      [] OTHER -> v

(* to_string: lexical_cast takes an 8-bit integer for a character. *)
Text(type, v) ==
    CASE type \in CharType -> <<v % 256>>
      [] type \in WholeType -> Decimal(v)
      [] type = "bool" -> IF v THEN True ELSE False
      [] type \in FloatType -> FloatText[v]
      [] OTHER -> v

HasNul(text) == Contains(text, NUL)

(* z_bytes_copy_from_str: up to the first NUL. *)
CutAtNul(text) ==
    IF HasNul(text)
       THEN SubSeq(text, 1, SelectInSeq(text, LAMBDA c : c = NUL) - 1)
       ELSE text

(* to_bytes streams the same text into a C string; publish_raw() and       *)
(* publish_custom() copy the buffer with its length.                       *)
ToBytes(type, v) ==
    IF type \in BufferType THEN v ELSE CutAtNul(Text(type, v))

(* The encodings of publish_bool() ... publish_raw(), and the one that the *)
(* tests give to publish_custom().                                         *)
EncodingNames ==
    [bool |-> "text/plain;bool", string |-> "text/plain",
     int8 |-> "text/plain;int8", uint8 |-> "text/plain;uint8",
     int16 |-> "text/plain;int16", uint16 |-> "text/plain;uint16",
     int32 |-> "text/plain;int32", uint32 |-> "text/plain;uint32",
     int64 |-> "text/plain;int64", uint64 |-> "text/plain;uint64",
     float |-> "text/plain;float32", double |-> "text/plain;float64",
     raw |-> "application/octet-stream",
     custom |-> "application/octet-stream;custom_t"]

(* Variant with a bug: the 8-bit types share an encoding. *)
EncodingShared(type) == EncodingNames[IF type \in CharType THEN "int8" ELSE type]

Encoding(type) == EncodingNames[type]

-----------------------------------------------------------------------------

Init ==
    /\ connected = FALSE
    /\ call = [type |-> "none"]
    /\ sample = None /\ variable = None
    /\ clock = 0 /\ shown = <<0, 0>>

(* connect() or disconnect() of the publisher. *)
SessionChanges ==
    /\ connected' = ~connected
    /\ UNCHANGED <<call, sample, variable, clock, shown>>

(* publish(topic, v): returns -1 without a session, and when z_put fails;  *)
(* neither changes anything.                                               *)
Publish(type, v) ==
    /\ connected
    /\ sample = None /\ variable = None
    /\ clock <= LastStamp /\ clock' = clock + 1
    /\ call' = [type |-> type, value |-> v]
    /\ sample' = [payload |-> ToBytes(type, v), encoding |-> Encoding(type),
                  stamp |-> clock]
    /\ UNCHANGED <<connected, variable, shown>>

(* The overload that the C function flunder_publish_<f> calls, by the type *)
(* of its parameter; and the values that a C caller can give it: a string  *)
(* ends at its NUL, a buffer has a length.                                 *)
OverloadOf(f) ==
    CASE f = "int" -> "int32"
      [] f = "uint" -> "uint32"
      [] OTHER -> f

CFunction == Type \cup {"int", "uint"}

FlunderPublish(f, v) ==
    /\ f = "string" => ~HasNul(v)
    /\ Publish(OverloadOf(f), v)

(* lib_subscribe_callback up to the callback: it is given the payload with *)
(* its length, the encoding as a string and the stamp as a time.           *)
Deliver ==
    /\ sample # None
    /\ variable' = [payload |-> sample.payload, encoding |-> sample.encoding,
                    time |-> UnixTime(sample.stamp)]
    /\ shown' = <<shown[2], variable'.time>>
    /\ sample' = None
    /\ UNCHANGED <<connected, call, clock>>

CallbackReturns ==
    /\ variable # None
    /\ variable' = None /\ call' = [type |-> "none"]
    /\ UNCHANGED <<connected, sample, clock, shown>>

Next ==
    \/ SessionChanges
    \/ \E type \in Type : \E v \in Value(type) : Publish(type, v)
    \/ \E f \in CFunction : \E v \in Value(OverloadOf(f)) : FlunderPublish(f, v)
    \/ Deliver
    \/ CallbackReturns

Spec == Init /\ [][Next]_vars

-----------------------------------------------------------------------------
(* How a subscriber reads a variable: by its encoding, knowing nothing of  *)
(* the call.                                                               *)

NumberOf(text) ==
    LET of[n \in 0..Len(text)] == IF n = 0 THEN 0 ELSE 10 * of[n - 1] + (text[n] - Zero)
    IN  of[Len(text)]

Signed(byte) == IF byte > 127 THEN byte - 256 ELSE byte

Read(var) ==
    CASE var.encoding = "text/plain;int8" -> Signed(var.payload[1])
      [] var.encoding = "text/plain;uint8" -> var.payload[1]
      [] var.encoding = "text/plain;bool" -> var.payload = True
      [] var.encoding \in {Encoding(type) : type \in FloatType} ->
            CHOOSE x \in DOMAIN FloatText : FloatText[x] = var.payload
      [] var.encoding \in {Encoding(type) : type \in WholeType} ->
            IF Head(var.payload) = Minus
               THEN -NumberOf(Tail(var.payload))
               ELSE NumberOf(var.payload)
      [] OTHER -> var.payload

(* The types: payloads are bytes. *)
TypeOK ==
    /\ connected \in BOOLEAN
    /\ clock \in 0..LastStamp + 1 /\ shown \in Nat \X Nat
    /\ \A s \in {sample, variable} \ {None} :
          /\ s.payload \in Seq(0..255)
          /\ s.encoding \in {Encoding(type) : type \in Type}
          /\ call.type \in Type /\ call.value \in Value(call.type)

(* Rounding may make one of two stamps, and the last fraction of a second  *)
(* is shown as the next second, but no sample is shown with a time before  *)
(* that of an older one.                                                   *)
TimeNeverBackwards == shown[1] <= shown[2]

(* What a variable shows as its time is what the clock of its sample was,  *)
(* but for the roundings.                                                  *)
CloseToClock == variable # None => Close(variable.time, clock - 1)

(* A subscriber that reads a variable by its encoding gets the value that  *)
(* was published, whichever overload of publish() the publisher chose; the *)
(* exception is a text with a NUL in it, which publish_raw() is for.       *)
ValueSurvives ==
    variable # None /\ (call.type \in BufferType \/ ~HasNul(Text(call.type, call.value)))
        => Read(variable) = call.value

(* test_flunder.cpp asserts of every type that is not raw or custom that   *)
(* the callback's variable has the length of to_string() of the value.     *)
LengthOfText ==
    variable # None /\ call.type \notin BufferType =>
        Len(variable.payload) = Len(Text(call.type, call.value))
=============================================================================
