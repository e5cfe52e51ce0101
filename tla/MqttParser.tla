----------------------------- MODULE MqttParser -----------------------------
(***************************************************************************)
(* The stream parser of AsyncMqttClient: _onData and the Packet classes.   *)
(* TCP hands over the broker's bytes in segments cut anywhere, and a        *)
(* connection may end between any two of them.  One action is one round of *)
(* the loop of _onData.                                                    *)
(*                                                                         *)
(* A byte carries, beside the value the parser looks at, what the broker    *)
(* meant by it: the packet, the part of the packet, and its index there.    *)
(***************************************************************************)
EXTENDS Integers, Sequences, SequencesExt

CONSTANTS
    ByteSize,       \* values of a byte: 256, the range of _bytePosition too
    LengthBase,     \* values of a digit of the remaining length: 128
    MaxTopic,       \* _parsingInformation.maxTopicLength
    Publishes,      \* the PUBLISH packets a broker may send
    MaxPackets      \* bound: packets of the broker that are no CONNACK

ASSUME ParserAssumption ==
    /\ {ByteSize, LengthBase, MaxTopic, MaxPackets} \subseteq Nat \ {0}
    /\ LengthBase > 2 /\ MaxTopic + 4 <= ByteSize
    /\ Publishes \subseteq [type: {"PUBLISH"}, qos: 0..2, topic: Nat \ {0}, payload: Nat]

VARIABLES
    budget,         \* packets the broker may still send on later connections
    sent,           \* packets the broker sends on this connection
    stream,         \* their bytes that are not parsed yet
    left,           \* bytes of the current segment that are not parsed yet
    bufferState,    \* _parsingInformation.bufferState
    remaining,      \* _parsingInformation.remainingLength
    digits,         \* _remainingLengthBuffer up to _remainingLengthBufferPosition
    topicBuffer,    \* _parsingInformation.topicBuffer
    current,        \* _currentParsedPacket: all its fields
    message,        \* history: what the callbacks got of the latest PUBLISH
    done,           \* history: the packets whose last callback ran
    misread         \* history: a byte was taken for something else

parserVars == <<budget, sent, stream, left, bufferState, remaining, digits,
          topicBuffer, current, message, done, misread>>

------------------------------------------------------------------------------
(* What the broker sends. *)

IdPackets == {"UNSUBACK", "PUBREL", "PUBACK", "PUBREC", "PUBCOMP"}

Plain(type) == [type |-> type, qos |-> 0, topic |-> 0, payload |-> 0]

Packets == Publishes \cup {Plain(t) : t \in IdPackets \cup {"PINGRESP", "SUBACK"}}

HasId(p) == p.type = "PUBLISH" => p.qos # 0

RemainingLength(p) ==
    CASE p.type = "PINGRESP" -> 0
      [] p.type = "SUBACK"   -> 3
      [] p.type = "PUBLISH"  -> 2 + p.topic + (IF HasId(p) THEN 2 ELSE 0) + p.payload
      [] OTHER               -> 2

\* The digits of n, least significant first, all but the last with the
\* continuation bit.
Encode[n \in Nat] ==
    IF n < LengthBase THEN <<[digit |-> n, more |-> FALSE]>>
    ELSE <<[digit |-> n % LengthBase, more |-> TRUE]>> \o Encode[n \div LengthBase]

\* Bytes of packet number n that belong to one part of it.
Part(n, part, values) ==
    [i \in DOMAIN values |-> [packet |-> n, part |-> part, at |-> i, value |-> values[i]]]

Zeros(n) == [i \in 1..n |-> 0]

Bytes(n, p) ==
    Part(n, "type", <<[type |-> p.type, qos |-> p.qos]>>)
        \o Part(n, "length", Encode[RemainingLength(p)])
        \o CASE p.type = "PINGRESP" -> <<>>
             [] p.type = "CONNACK"  -> Part(n, "code", Zeros(2))
             [] p.type = "SUBACK"   -> Part(n, "id", Zeros(2)) \o Part(n, "status", Zeros(1))
             [] p.type = "PUBLISH"  ->
                    Part(n, "topicLength", <<p.topic \div ByteSize, p.topic % ByteSize>>)
                        \o Part(n, "topic", Zeros(p.topic))
                        \o (IF HasId(p) THEN Part(n, "id", Zeros(2)) ELSE <<>>)
                        \o Part(n, "payload", Zeros(p.payload))
             [] OTHER               -> Part(n, "id", Zeros(2))

------------------------------------------------------------------------------
NoPacket == [type |-> "none"]

Object(type, qos) ==
    [type |-> type, qos |-> qos, position |-> 0, topicLengthMsb |-> 0, topicLength |-> 0,
     ignore |-> FALSE, payloadLength |-> 0, payloadBytesRead |-> 0]

Terminator == [part |-> "end"]

NoMessage == [topic |-> <<>>, payload |-> <<>>, complete |-> FALSE]

\* The broker's first packet on a connection is its CONNACK.
Connections(n) == {<<Plain("CONNACK")>> \o ps : ps \in SeqOf(Packets, n)}

Stream(packets) == FlattenSeq([n \in DOMAIN packets |-> Bytes(n, packets[n])])

ParserInit ==
    /\ sent \in Connections(MaxPackets)
    /\ stream = Stream(sent)
    /\ budget = MaxPackets + 1 - Len(sent)
    /\ left = 0
    /\ bufferState = "NONE" /\ remaining = 0 /\ digits = <<>>
    /\ topicBuffer = [i \in 0..MaxTopic |-> Terminator]
    /\ current = NoPacket
    /\ message = NoMessage /\ done = <<>> /\ misread = FALSE

parser == <<bufferState, remaining, digits, topicBuffer, current, message, done, misread>>

\* AsyncClient::_recv calls _onData with the next n bytes.
Segment(n) ==
    /\ left = 0
    /\ left' = n
    /\ UNCHANGED <<budget, sent, stream, parser>>

------------------------------------------------------------------------------
\* What the parser takes the next bytes for, and how many of them.
HeaderPart ==
    CASE current.type = "CONNACK" -> "code"
      [] current.type = "PUBLISH" /\ current.position \in {0, 1} -> "topicLength"
      [] current.type = "PUBLISH" /\ current.position \in 2..(1 + current.topicLength) -> "topic"
      [] OTHER -> "id"

Expects ==
    CASE bufferState = "NONE" -> "type"
      [] bufferState = "REMAINING_LENGTH" -> "length"
      [] bufferState = "VARIABLE_HEADER" -> HeaderPart
      [] bufferState = "PAYLOAD" -> IF current.type = "SUBACK" THEN "status" ELSE "payload"

ToRead == current.payloadLength - current.payloadBytesRead

Count ==
    IF bufferState = "PAYLOAD" /\ current.type = "PUBLISH"
    THEN IF left > ToRead THEN ToRead ELSE left
    ELSE 1

InStepNow == \A i \in 1..Count : stream[i].part = Expects

\* currentBytePosition moves on.
Take ==
    /\ left > 0 /\ Count > 0 /\ InStepNow
    /\ left' = left - Count
    /\ stream' = SubSeq(stream, Count + 1, Len(stream))
    /\ UNCHANGED <<budget, sent, misread>>

\* The parser takes a byte for what it is not.  What it makes of it is not
\* followed any further.
Misread ==
    /\ left > 0 /\ ~misread /\ ~InStepNow
    /\ misread' = TRUE
    /\ UNCHANGED <<budget, sent, stream, left, bufferState, remaining, digits,
                   topicBuffer, current, message, done>>

Byte == stream[1].value

\* Which packet a completed object was: the number of the packet its last byte
\* came from.
Completed == done' = Append(done, Head(stream).packet)

FreeCurrent == current' = NoPacket

\* case NONE
TypeByte ==
    /\ bufferState = "NONE"
    /\ Take
    /\ bufferState' = "REMAINING_LENGTH"
    /\ current' = Object(Byte.type, Byte.qos)
    /\ UNCHANGED <<remaining, digits, topicBuffer, message, done>>

\* Helpers::decodeRemainingLength
Decode(bytes) ==
    FoldRight(LAMBDA d, value : d.digit + LengthBase * value, bytes, 0)

\* case REMAINING_LENGTH; a packet without more bytes is taken for a PINGRESP.
LengthByte ==
    /\ bufferState = "REMAINING_LENGTH"
    /\ Take
    /\ LET all == Append(digits, Byte) IN
       IF Byte.more
       THEN /\ digits' = all
            /\ UNCHANGED <<bufferState, remaining, current, done>>
       ELSE /\ digits' = <<>>
            /\ remaining' = Decode(all)
            /\ IF remaining' > 0
               THEN bufferState' = "VARIABLE_HEADER" /\ UNCHANGED <<current, done>>
               ELSE bufferState' = "NONE" /\ FreeCurrent /\ Completed
    /\ UNCHANGED <<topicBuffer, message>>

\* uint8_t _bytePosition
NextPosition == (current.position + 1) % ByteSize

\* The packets that end after two bytes: CONNACK and those with an identifier.
TwoByteHeader(types) ==
    /\ bufferState = "VARIABLE_HEADER" /\ current.type \in types
    /\ Take
    /\ IF current.position = 0
       THEN /\ current' = [current EXCEPT !.position = NextPosition]
            /\ UNCHANGED <<bufferState, done>>
       ELSE bufferState' = "NONE" /\ FreeCurrent /\ Completed
    /\ UNCHANGED <<remaining, digits, topicBuffer, message>>

BugConnAckHeader ==
    /\ bufferState = "VARIABLE_HEADER" /\ current.type = "CONNACK"
    /\ Take
    /\ IF current.position + 1 < remaining
       THEN /\ current' = [current EXCEPT !.position = NextPosition]
            /\ UNCHANGED <<bufferState, done>>
       ELSE bufferState' = "NONE" /\ FreeCurrent /\ Completed
    /\ UNCHANGED <<remaining, digits, topicBuffer, message>>

\* ConnAckPacket does not look at the remaining length.
ConnAckHeader == TwoByteHeader({"CONNACK"})

\* A callback that forgets _freeCurrentParsedPacket.
BugIdHeader ==
    /\ bufferState = "VARIABLE_HEADER" /\ current.type \in IdPackets
    /\ Take
    /\ current' = [current EXCEPT !.position = NextPosition]
    /\ IF current.position = 0
       THEN UNCHANGED <<bufferState, done>>
       ELSE bufferState' = "NONE" /\ Completed
    /\ UNCHANGED <<remaining, digits, topicBuffer, message>>

IdHeader == TwoByteHeader(IdPackets)

SubAckHeader ==
    /\ bufferState = "VARIABLE_HEADER" /\ current.type = "SUBACK"
    /\ Take
    /\ current' = [current EXCEPT !.position = NextPosition]
    /\ bufferState' = IF current.position = 0 THEN bufferState ELSE "PAYLOAD"
    /\ UNCHANGED <<remaining, digits, topicBuffer, message, done>>

\* The object is deleted before its callback is called.
BugSubAckPayload ==
    /\ bufferState = "PAYLOAD" /\ current.type = "SUBACK"
    /\ Take
    /\ bufferState' = "NONE" /\ FreeCurrent
    /\ UNCHANGED <<remaining, digits, topicBuffer, message, done>>

SubAckPayload ==
    /\ bufferState = "PAYLOAD" /\ current.type = "SUBACK"
    /\ Take
    /\ bufferState' = "NONE" /\ FreeCurrent /\ Completed
    /\ UNCHANGED <<remaining, digits, topicBuffer, message>>

------------------------------------------------------------------------------
(* PublishPacket *)

\* The C string in the topic buffer.
Topic ==
    LET end == CHOOSE i \in 0..MaxTopic :
                   topicBuffer'[i] = Terminator /\ \A j \in 0..(i - 1) : topicBuffer'[j] # Terminator
    IN [i \in 1..end |-> topicBuffer'[i - 1]]

\* _dataCallback with bytes of the payload, then _completeCallback at its end
Deliver(bytes, complete) ==
    IF current.ignore
    THEN UNCHANGED <<message, done>>
    ELSE /\ message' =
                [topic    |-> Topic,
                 payload  |-> IF current.payloadBytesRead = 0 THEN bytes ELSE message.payload \o bytes,
                 complete |-> complete]
         /\ IF complete THEN Completed ELSE UNCHANGED done

\* An object whose _completeCallback ran is deleted by _onPublish; an ignored one stays.
Finished(object) == IF object.ignore THEN object ELSE NoPacket

InHeader == bufferState = "VARIABLE_HEADER" /\ current.type = "PUBLISH"

\* The terminator is not written: what an earlier, longer topic left behind the
\* new one is read with it.
BugTopicLengthByte ==
    /\ InHeader /\ current.position \in {0, 1}
    /\ Take
    /\ LET length == Byte + current.topicLengthMsb * ByteSize IN
       current' = IF current.position = 0
                  THEN [current EXCEPT !.topicLengthMsb = Byte, !.position = NextPosition]
                  ELSE [current EXCEPT !.topicLength = length, !.position = NextPosition,
                                       !.ignore = @ \/ length > MaxTopic]
    /\ UNCHANGED <<bufferState, remaining, digits, topicBuffer, message, done>>

\* _bytePosition 0 and 1
TopicLengthByte ==
    /\ InHeader /\ current.position \in {0, 1}
    /\ Take
    /\ LET length == Byte + current.topicLengthMsb * ByteSize IN
       IF current.position = 0
       THEN /\ current' = [current EXCEPT !.topicLengthMsb = Byte, !.position = NextPosition]
            /\ UNCHANGED topicBuffer
       ELSE /\ current' = [current EXCEPT !.topicLength = length, !.position = NextPosition,
                                          !.ignore = @ \/ length > MaxTopic]
            /\ topicBuffer' = IF length > MaxTopic THEN topicBuffer
                              ELSE [topicBuffer EXCEPT ![length] = Terminator]
    /\ UNCHANGED <<bufferState, remaining, digits, message, done>>

\* _preparePayloadHandling, called by the byte at the current position
PreparePayload ==
    LET length == remaining - (current.position + 1) IN
    IF length = 0
    THEN /\ current' = Finished(current)
         /\ bufferState' = "NONE"
         /\ Deliver(<<>>, TRUE)
    ELSE /\ current' = [current EXCEPT !.payloadLength = length]
         /\ bufferState' = "PAYLOAD"
         /\ UNCHANGED <<message, done>>

TopicByte ==
    /\ InHeader /\ current.position \in 2..(1 + current.topicLength)
    /\ Take
    /\ topicBuffer' = IF current.ignore THEN topicBuffer
                      ELSE [topicBuffer EXCEPT ![current.position - 2] = Head(stream)]
    /\ IF current.position = 1 + current.topicLength /\ current.qos = 0
       THEN PreparePayload
       ELSE /\ current' = [current EXCEPT !.position = NextPosition]
            /\ UNCHANGED <<bufferState, message, done>>
    /\ UNCHANGED <<remaining, digits>>

\* The last two bytes of the header, where QoS is not 0.  When no payload follows, the
\* code counts _bytePosition in the object that the callback has deleted.
PublishIdByte ==
    /\ InHeader /\ current.position > 1 + current.topicLength
    /\ Take
    /\ UNCHANGED topicBuffer
    /\ IF current.position = 2 + current.topicLength
       THEN /\ current' = [current EXCEPT !.position = NextPosition]
            /\ UNCHANGED <<bufferState, message, done>>
       ELSE PreparePayload
    /\ UNCHANGED <<remaining, digits>>

\* parsePayload takes what the segment still has of the payload.
PublishPayload ==
    /\ bufferState = "PAYLOAD" /\ current.type = "PUBLISH"
    /\ Take
    /\ UNCHANGED topicBuffer
    /\ Deliver(SubSeq(stream, 1, Count), Count = ToRead)
    /\ LET now == [current EXCEPT !.payloadBytesRead = @ + Count] IN
       IF Count = ToRead
       THEN bufferState' = "NONE" /\ current' = Finished(now)
       ELSE current' = now /\ UNCHANGED bufferState
    /\ UNCHANGED <<remaining, digits>>

------------------------------------------------------------------------------
\* The connection ends, anywhere in a segment or packet.  _clear() keeps the digits
\* of the remaining length.
Reconnect ==
    /\ budget > 0
    /\ sent' \in Connections(budget)
    /\ stream' = Stream(sent')
    /\ budget' = budget - Len(sent')
    /\ left' = 0
    /\ bufferState' = "NONE" /\ current' = NoPacket
    /\ done' = <<>> /\ message' = NoMessage /\ misread' = FALSE
    /\ UNCHANGED <<remaining, digits, topicBuffer>>

Parse ==
    \/ TypeByte \/ LengthByte
    \/ ConnAckHeader \/ IdHeader \/ SubAckHeader \/ SubAckPayload
    \/ TopicLengthByte \/ TopicByte \/ PublishIdByte \/ PublishPayload

ParserNext ==
    \/ \E n \in 1..Len(stream) : Segment(n)
    \/ Parse
    \/ Misread
    \/ Reconnect

ParserSpec == ParserInit /\ [][ParserNext]_parserVars

------------------------------------------------------------------------------
(* Properties *)

\* PublishPacket counts the bytes of its header in a uint8_t.
TooLong(p) == p.type = "PUBLISH" /\ p.topic > ByteSize - (IF HasId(p) THEN 4 ELSE 2)

\* Wherever the stream is cut, and wherever the connection before broke off, the
\* parser takes every byte for what the broker meant by it, as long as the header
\* of a PUBLISH fits in _bytePosition.  The digits of the remaining length that
\* _clear() leaves behind do no harm: CONNACK comes first and is as long as it is.
InStep == misread => \E i \in DOMAIN sent : TooLong(sent[i])

\* Of a PUBLISH the callbacks get its topic, whole, and its payload from the start
\* and in order, and the last callback comes with the last byte: nothing of an
\* earlier message is left in the topic buffer.
WholeMessages ==
    message # NoMessage =>
        \E n \in DOMAIN sent :
            LET payload == Part(n, "payload", Zeros(sent[n].payload)) IN
            /\ message.topic = Part(n, "topic", Zeros(sent[n].topic))
            /\ IsPrefix(message.payload, payload)
            /\ message.complete <=> message.payload = payload

Ignored(p) == p.type = "PUBLISH" /\ p.topic > MaxTopic

\* Between two packets, the callbacks of all packets before have run, once each
\* and in order, but for those whose topic is too long.
EveryPacketOnce ==
    bufferState = "NONE" /\ ~misread =>
        LET parsed == IF stream = <<>> THEN Len(sent) ELSE Head(stream).packet - 1 IN
        /\ ToSet(done) = {i \in 1..parsed : ~Ignored(sent[i])}
        /\ \A i, j \in DOMAIN done : i < j => done[i] < done[j]

\* Between two packets no packet object is allocated, but for an ignored PUBLISH,
\* which nobody deletes before the connection ends.
NothingLeaks ==
    bufferState = "NONE" => current = NoPacket \/ (current.type = "PUBLISH" /\ current.ignore)
=============================================================================
