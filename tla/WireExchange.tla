---------------------------- MODULE WireExchange ----------------------------
(***************************************************************************)
(* A frame on its way: a value is encoded under the sender's limits, the   *)
(* bytes may be altered once in between, and the receiver decodes them     *)
(* under limits of its own, as the kind of payload that it expects.        *)
(*                                                                         *)
(* wire.md, "Canonicality", promises "one wire identity for one supported  *)
(* semantic value"; "Decode architecture" that nothing but a validated     *)
(* lowering makes core values, within the limits.                          *)
(***************************************************************************)
EXTENDS WireFormat

CONSTANTS
  Messages,       \* the values that are sent
  Limits,         \* the limits a side may have
  Generous,       \* limits that no frame here reaches
  Blocks,         \* lengths of neighbouring blocks that may be exchanged
  Replacements    \* bytes that may stand for another

ASSUME ExchangeAssumption == Generous \in Limits

VARIABLES
  sent,      \* the value
  sender,    \* the sender's limits
  frame,     \* the result of encoding it, altered or not
  altered,   \* whether the bytes are no longer those of the sender
  receiver,  \* the kind and the limits of the receiver
  received   \* the result of decoding

vars == <<sent, sender, frame, altered, receiver, received>>

Init ==
  /\ sent \in Messages
  /\ sender = None
  /\ frame = None
  /\ altered = FALSE
  /\ receiver = None
  /\ received = None

Send(limits) ==
  /\ frame = None
  /\ sender' = limits
  /\ frame' = Encode(sent, limits)
  /\ UNCHANGED <<sent, altered, receiver, received>>

\* A frame of other bytes, whose header says how many they are.
Resized(bytes) == [bytes EXCEPT ![HeaderLen] = Len(bytes) - HeaderLen]

Alter(bytes) ==
  /\ frame # None
  /\ frame.error = None
  /\ sender = Generous
  /\ ~ altered
  /\ received = None
  /\ bytes # frame.bytes
  /\ frame' = [frame EXCEPT !.bytes = bytes]
  /\ altered' = TRUE
  /\ UNCHANGED <<sent, sender, receiver, received>>

Sendable == IF frame = None THEN <<>> ELSE frame.bytes

Replace ==
  \E i \in DOMAIN Sendable :
    \E b \in Replacements \cup {Sendable[i] - 1, Sendable[i] + 1} :
      Alter([Sendable EXCEPT ![i] = b % (2 ^ ByteBits)])

Exchange ==
  \E i \in DOMAIN Sendable, n \in Blocks :
    /\ i > HeaderLen
    /\ i + 2 * n - 1 <= Len(Sendable)
    /\ Alter([j \in DOMAIN Sendable |->
                CASE j \in i .. i + n - 1 -> Sendable[j + n]
                  [] j \in i + n .. i + 2 * n - 1 -> Sendable[j - n]
                  [] OTHER -> Sendable[j]])

Truncate == \E n \in 0 .. Len(Sendable) - 1 : Alter(SubSeq(Sendable, 1, n))

Drop ==
  \E i \in HeaderLen + 1 .. Len(Sendable) : Alter(Resized(RemoveAt(Sendable, i)))

Repeat ==
  \E i \in HeaderLen + 1 .. Len(Sendable) : Alter(Resized(InsertAt(Sendable, i, Sendable[i])))

Receive(kind, limits) ==
  /\ frame # None
  /\ frame.error = None
  /\ received = None
  /\ receiver' = [kind |-> kind, limits |-> limits]
  /\ received' = Decode(frame.bytes, kind, limits)
  /\ UNCHANGED <<sent, sender, frame, altered>>

\* What was altered is read as what it was.
Next ==
  \/ \E limits \in Limits : Send(limits)
  \/ Replace
  \/ Exchange
  \/ Truncate
  \/ Drop
  \/ Repeat
  \/ \E kind \in Range(PayloadKinds), limits \in Limits :
       (altered => kind = sent.kind) /\ Receive(kind, limits)

Spec == Init /\ [][Next]_vars

-----------------------------------------------------------------------------
Errors ==
  {"LimitExceeded", "InvalidMagic", "UnsupportedVersion", "UnsupportedPayload", "InvalidHeader", "LengthMismatch",
   "UnexpectedEof", "InvalidTag", "InvalidUtf8", "InvalidValue", "NonCanonical"}

Accepted == received # None /\ received.error = None

\* All the data in a datum, and itself, with their depths.
RECURSIVE DataIn(_, _)
DataIn(datum, depth) ==
  LET value == datum.value
      Below(items) == FlattenSeq([i \in DOMAIN items |-> DataIn(items[i], depth + 1)])
  IN  <<[datum |-> datum, depth |-> depth]>>
        \o CASE datum.state # "value" -> <<>>
             [] datum.state = "value" /\ value.kind \in {"list", "tuple"} -> Below(value.items)
             [] datum.state = "value" /\ value.kind = "map" -> Below(FlattenSeq(value.entries))
             [] datum.state = "value" /\ value.kind = "record" ->
                  Below([i \in DOMAIN value.entries |-> value.entries[i][2]])
             [] OTHER -> <<>>

Content(message) == IF message.kind = "TypedDatum" THEN DataIn(message.datum, 0) ELSE <<>>

\* A map has each of its keys once, by the equality of values; a record has its names in order.
WellFormed(datum) ==
  datum.state = "value" =>
    /\ datum.value.kind = "map" =>
         \A i, j \in DOMAIN datum.value.entries :
           i # j => Meaning(datum.value.entries[i][1]) # Meaning(datum.value.entries[j][1])
    /\ datum.value.kind = "record" =>
         \A i \in 2 .. Len(datum.value.entries) : Precedes(datum.value.entries[i - 1][1], datum.value.entries[i][1])

(* What the receiver accepts, whatever it was sent, is a value of the core *)
(* within the receiver's limits: at most max_nodes data, none deeper than  *)
(* max_depth, no key of a map twice (0.0 and -0.0 are one key) and the     *)
(* names of a record in order, in a frame of at most max_total_bytes.  An  *)
(* error is one that the decoder has.                                      *)
TypeOK ==
  /\ sent \in Messages
  /\ altered \in BOOLEAN
  /\ received # None => received.error \in Errors \cup {None}
  /\ Accepted =>
       LET data == Content(received.message)
           limits == receiver.limits
       IN  /\ received.message.kind = receiver.kind
           /\ Len(frame.bytes) <= limits.total
           /\ Len(data) <= limits.nodes
           /\ \A i \in DOMAIN data : data[i].depth <= limits.depth /\ WellFormed(data[i].datum)

\* Messages that mean the same.
SameMeaning(a, b) ==
  /\ a.kind = b.kind
  /\ IF a.kind # "TypedDatum" THEN a = b
     ELSE a.ty = b.ty /\ a.optional = b.optional /\ Meaning(a.datum) = Meaning(b.datum)

\* freeze counts the identity, the unique keys and the references of a model together.
WithinConstraints(message, limits) ==
  /\ message.kind = "ModelDef" => ConstraintCount(message.model) <= limits.items
  /\ message.kind = "ModelSet" => \A i \in DOMAIN message.models : ConstraintCount(message.models[i]) <= limits.items

(* What was encoded under some limits is decoded under the same limits,    *)
(* and means the same: no bound that the decoder puts on counts, bytes or  *)
(* nodes is tighter than the encoder's.  (One is: a model's constraints,   *)
(* which are counted together only when it is frozen.)                     *)
EncodedFramesDecode ==
  (received # None /\ ~ altered /\ receiver = [kind |-> sent.kind, limits |-> sender]) =>
    \/ ~ WithinConstraints(sent, sender)
    \/ received.error = None /\ SameMeaning(received.message, sent)

SignlessZeros(message) ==
  \A i \in DOMAIN Content(message) :
    LET datum == Content(message)[i].datum
    IN  datum.state = "value" /\ datum.value.kind \in {"float32", "float64"} => datum.value.n % 2 ^ (ByteBits - 1) # 0

(* wire.md: "This gives one wire identity for one supported semantic       *)
(* value".  Bytes that differ from the frame of a value are refused or     *)
(* mean another value: no order of map entries, record fields, parameters, *)
(* constraints or models, no scale of a decimal and no repetition gives a  *)
(* second frame.  (The zeros of a float do: they are equal, and keep their *)
(* signs on the wire.)                                                     *)
OneIdentity ==
  (Accepted /\ altered /\ SignlessZeros(sent)) => ~ SameMeaning(received.message, sent)

SentTypes ==
  CASE sent.kind \in {"TypeDef", "TypedDatum"} -> {sent.ty}
    [] sent.kind = "ModelDef" -> FieldTypes(sent.model)
    [] sent.kind = "ModelSet" -> UNION {FieldTypes(m) : m \in Range(sent.models)}

(* wire.md: limits are budgets, and never change what a frame means: under *)
(* any limits a frame is refused with LimitExceeded, or has the outcome it *)
(* has under no limits; and the encoder refuses a value for nothing but    *)
(* its limits.  (validate_type's message for a type with too many nodes    *)
(* names no limit, and the wire reports it as an invalid value.)           *)
LimitsOnlyRefuse ==
  /\ (received # None /\ receiver.limits # Generous) =>
       \/ received.error = "LimitExceeded"
       \/ received = Decode(frame.bytes, receiver.kind, Generous)
  /\ (frame # None /\ ~ altered) =>
       \/ frame.error \in {None, "LimitExceeded"}
       \/ frame.error = "InvalidValue" /\ \E ty \in SentTypes : Len(Depths(ty, 0)) > sender.nodes
=============================================================================
