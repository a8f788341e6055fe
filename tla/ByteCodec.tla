----------------------------- MODULE ByteCodec -----------------------------
(***************************************************************************)
(* ByteCodec on one direction of a TCP connection (Framed): the sender     *)
(* encodes messages into length-prefixed frames, the network delivers the  *)
(* bytes in chunks of any size, and the receiver calls decode on its       *)
(* buffer after each chunk until decode asks for more.                     *)
(***************************************************************************)
EXTENDS Integers, Sequences, SequencesExt

CONSTANTS
    Message,        \* messages
    SizeOf,         \* length of the protobuf encoding of each message
    HeaderSize,     \* HEADER_SIZE (4)
    MaxFrameSize,   \* max_frame_size (1 MB)
    MaxSent         \* bound: messages sent

ASSUME CodecAssumption ==
    /\ SizeOf \in [Message -> Nat]
    /\ \A m, n \in Message : SizeOf[m] = 0 /\ SizeOf[n] = 0 => m = n
    /\ HeaderSize \in Nat \ {0}
    /\ {MaxFrameSize, MaxSent} \subseteq Nat

VARIABLES
    sent,       \* messages encode accepted
    wire,       \* bytes on their way
    buf,        \* src: bytes received and not yet consumed
    state,      \* DecodeState: Head, or Body with data_len
    received,   \* messages decode returned
    failed      \* decode returned an error, which ends the connection

vars == <<sent, wire, buf, state, received, failed>>

Head_ == [at |-> "Head", len |-> 0]

BodyOf(n) == [at |-> "Body", len |-> n]

\* A byte of a header says which byte of which length it is, a byte of a body
\* which byte of which message.
Header(n) == [i \in 1 .. HeaderSize |-> [part |-> "header", of |-> n, i |-> i]]

Body(m) == [i \in 1 .. SizeOf[m] |-> [part |-> "body", of |-> m, i |-> i]]

Init ==
    /\ sent = <<>>
    /\ wire = <<>>
    /\ buf = <<>>
    /\ state = Head_
    /\ received = <<>>
    /\ failed = FALSE

\* A variant without the limit.
Encode_Unlimited(m) ==
    /\ Len(sent) < MaxSent
    /\ sent' = Append(sent, m)
    /\ wire' = wire \o Header(SizeOf[m]) \o Body(m)
    /\ UNCHANGED <<buf, state, received, failed>>

\* encode refuses a frame that is too long and leaves the stream as it was.
Encode(m) ==
    /\ Len(sent) < MaxSent
    /\ HeaderSize + SizeOf[m] <= MaxFrameSize
    /\ sent' = Append(sent, m)
    /\ wire' = wire \o Header(SizeOf[m]) \o Body(m)
    /\ UNCHANGED <<buf, state, received, failed>>

\* The receiver reads again only when decode has asked for more.
Hungry ==
    IF state.at = "Head" THEN Len(buf) < HeaderSize ELSE Len(buf) < state.len

Deliver(n) ==
    /\ ~failed /\ Hungry
    /\ buf' = buf \o SubSeq(wire, 1, n)
    /\ wire' = SubSeq(wire, n + 1, Len(wire))
    /\ UNCHANGED <<sent, state, received, failed>>

\* get_u32_le: a number only if the bytes are a header.
IsHeader(bytes) == \E n \in {SizeOf[m] : m \in Message} : bytes = Header(n)

\* Message::decode: an error unless the bytes are the body of a message.
Decoded(bytes) == {m \in Message : Body(m) = bytes}

\* A variant that waits for one byte more than the body.
DecodeBody_OneMore(bytes, n) ==
    IF Len(bytes) <= n
    THEN /\ buf' = bytes
         /\ state' = BodyOf(n)
         /\ UNCHANGED <<received, failed>>
    ELSE /\ buf' = SubSeq(bytes, n + 1, Len(bytes))
         /\ state' = Head_
         /\ LET ms == Decoded(SubSeq(bytes, 1, n)) IN
            IF ms = {}
            THEN failed' = TRUE /\ UNCHANGED received
            ELSE \E m \in ms : received' = Append(received, m) /\ UNCHANGED failed

\* The Body arm of decode with the bytes left and the length it waits for.
DecodeBody(bytes, n) ==
    IF Len(bytes) < n
    THEN /\ buf' = bytes
         /\ state' = BodyOf(n)
         /\ UNCHANGED <<received, failed>>
    ELSE /\ buf' = SubSeq(bytes, n + 1, Len(bytes))
         /\ state' = Head_
         /\ LET ms == Decoded(SubSeq(bytes, 1, n)) IN
            IF ms = {}
            THEN failed' = TRUE /\ UNCHANGED received
            ELSE \E m \in ms : received' = Append(received, m) /\ UNCHANGED failed

\* Variants: the length taken for that of the whole frame, the header left in
\* the buffer, and an empty body taken for no message.
DecodeHead_FrameLength(bytes) ==
    DecodeBody(SubSeq(bytes, HeaderSize + 1, Len(bytes)), bytes[1].of + HeaderSize)
DecodeHead_KeepsHeader(bytes) == DecodeBody(bytes, bytes[1].of)
DecodeHead_SkipsEmpty(bytes) ==
    LET rest == SubSeq(bytes, HeaderSize + 1, Len(bytes)) IN
    IF bytes[1].of = 0
    THEN buf' = rest /\ UNCHANGED <<state, received, failed>>
    ELSE DecodeBody(rest, bytes[1].of)

\* The Head arm, which goes on with the Body arm.  A length above the limit is
\* an error; so may be whatever four bytes that are no header say.
DecodeHead(bytes) ==
    LET n == bytes[1].of
        rest == SubSeq(bytes, HeaderSize + 1, Len(bytes))
    IN  IF IsHeader(SubSeq(bytes, 1, HeaderSize)) /\ n <= MaxFrameSize
        THEN DecodeBody(rest, n)
        ELSE /\ buf' = rest
             /\ failed' = TRUE
             /\ UNCHANGED <<state, received>>

\* A call of decode that does not return Ok(None) at once.
Decode ==
    /\ ~failed /\ ~Hungry
    /\ IF state.at = "Head" THEN DecodeHead(buf) ELSE DecodeBody(buf, state.len)
    /\ UNCHANGED <<sent, wire>>

Next ==
    \/ \E m \in Message : Encode(m)
    \/ \E n \in 1 .. Len(wire) : Deliver(n)
    \/ Decode

Spec == Init /\ [][Next]_vars

\* TCP delivers what was sent, and Framed polls its codec.
FairSpec ==
    Spec /\ WF_vars(\E n \in 1 .. Len(wire) : Deliver(n)) /\ WF_vars(Decode)

-----------------------------------------------------------------------------
\* Every variable has its type, and the decoder never waits for a body longer
\* than encode lets through, though its own limit is larger by the header.
TypeOK ==
    /\ sent \in Seq(Message)
    /\ received \in Seq(Message)
    /\ failed \in BOOLEAN
    /\ state = Head_ \/ state \in {BodyOf(n) : n \in 0 .. MaxFrameSize - HeaderSize}

\* However the frames are cut into chunks, the connection is a stream of
\* messages: nothing is lost, repeated, reordered or altered by the framing.
Stream == INSTANCE MessageStream

StreamSpec == Stream!Spec

\* Whatever encode accepts decode accepts: the two limits agree and the decoder
\* never takes body bytes for a header.
NeverFails == ~failed

\* The decoder is in step with the encoder: what it holds, together with the
\* bytes on the wire, is the encoding of the messages still to be received.
InStep ==
    LET frame(m) == Header(SizeOf[m]) \o Body(m)
        owed == SubSeq(sent, Len(received) + 1, Len(sent))
        head == IF state.at = "Head" THEN <<>> ELSE Header(state.len)
    IN  head \o buf \o wire = FlattenSeq([i \in 1 .. Len(owed) |-> frame(owed[i])])

\* Every message that was sent is received.
AllReceived == <>[](Len(received) = Len(sent))
=============================================================================
