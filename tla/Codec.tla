------------------------------- MODULE Codec -------------------------------
(***************************************************************************)
(* The bytes between a client and the broker, and in the topic's store:    *)
(* the MQTT packets that core/transport/mqtt/packet.go reads and writes,   *)
(* those that sdk/go/brokermq/client.go writes and reads, and the envelope *)
(* of core/envelope around every payload.                                  *)
(*                                                                         *)
(* One client speaks over a stream each way, and is delivered everything   *)
(* that is published: what its handler gets can be compared with what it   *)
(* passed to Publish. A reader waits until a whole packet has come; the    *)
(* stream may break after any byte. Which messages are delivered to whom   *)
(* is in Delivery, acknowledgements and repeats are in SdkLink.            *)
(*                                                                         *)
(* Bytes are numbers. The fields whose width is a limit are scaled: a      *)
(* 16-bit number is two digits of base LenBase (256), a remaining length   *)
(* at most MaxDigits (4) digits of base Digit (128). Identifiers and the   *)
(* time of an envelope are one byte each.                                  *)
(***************************************************************************)
EXTENDS Naturals, SequencesExt

CONSTANTS
    LenBase, Digit, MaxDigits,
    Topics, Payloads,   \* what the program publishes
    Names,              \* client ids, user names and passwords
    Bodies,             \* bodies of packets from other MQTT clients
    MaxSent,            \* bound: packets after CONNECT
    MaxLog              \* bound: messages in the store

Byte == 0..255

ASSUME WidthAssumption == LenBase \in 2..256 /\ MaxDigits \in Nat \ {0}
ASSUME DigitAssumption == Digit \in 3..128
ASSUME BoundsAssumption == MaxSent \in Nat /\ MaxLog \in Nat \ {0}
ASSUME DataAssumption == Topics \cup Payloads \cup Names \cup Bodies \subseteq Seq(Byte)

VARIABLES
    wire,       \* the bytes on their way up and down
    dead,       \* the directions whose reader has given up
    broken,     \* the connection is gone
    phase,      \* of the client: "new", "connecting", "up"
    asked,      \* history: the options of Connect, until it has returned
    greeted,    \* the broker has had its CONNECT
    wants,      \* history: what was published and not yet read by the broker
    log,        \* the topics' stores: the bytes of each message and what they stand for
    told,       \* messages of the log written to the client
    got,        \* history: what reached the handler
    sent,       \* packets sent after CONNECT
    odd,        \* history: something was sent that the broker may refuse
    failed      \* history: a handler of the broker returned an error

vars == <<wire, dead, broken, phase, asked, greeted, wants, log, told, got, sent, odd, failed>>

-----------------------------------------------------------------------------
(* Numbers, strings and frames. *)

U16(n) == <<(n \div LenBase) % LenBase, n % LenBase>>

\* The 16-bit number after the first pos bytes.
Num(b, pos) == b[pos + 1] * LenBase + b[pos + 2]

Bit(n, weight) == (n \div weight) % 2 = 1

\* What digit number n of a remaining length counts.
Weight[n \in Nat] == IF n = 0 THEN 1 ELSE Digit * Weight[n - 1]

\* encodeString: the length is cut to its low 16 bits, the bytes are not.
EncodeString(s) == U16(Len(s)) \o s

\* encodeRemainingLength: the digits of n, the low one first and all but the last one
\* marked; at least one, and there is no upper bound.
Digits(n) == CHOOSE k \in 1..(n + 1) : n < Weight[k] /\ (k = 1 \/ Weight[k - 1] <= n)
EncodeRemainingLength(n) ==
    [i \in 1..Digits(n) |->
        ((n \div Weight[i - 1]) % Digit) + (IF i < Digits(n) THEN Digit ELSE 0)]

Frame(type, flags, body) == <<16 * type + flags>> \o EncodeRemainingLength(Len(body)) \o body

\* readString from position pos.
NoString == [ok |-> FALSE, s |-> <<>>, pos |-> 0]
ReadString(b, pos) ==
    IF pos + 2 > Len(b) THEN NoString
    ELSE LET l == Num(b, pos) IN
        IF pos + 2 + l > Len(b) THEN NoString
        ELSE [ok |-> TRUE, s |-> SubSeq(b, pos + 3, pos + 2 + l), pos |-> pos + 2 + l]

\* Mutant: the digits are put together as if the high one came first.
AddDigit_High(len, b, n) == len * Digit + (b % Digit)

\* length |= digit << shift, for digit number n.
AddDigit(len, b, n) == len + (b % Digit) * Weight[n]

\* What the digits ds stand for.
LengthOf(ds) ==
    LET sum[i \in 0..Len(ds)] == IF i = 0 THEN 0 ELSE AddDigit(sum[i - 1], ds[i], i - 1)
    IN sum[Len(ds)]

\* readRemainingLength, after the header: the length and how many digits it has, or
\* that the bytes end too soon, or that there are more digits than limit (0: no limit).
Marked(w, n) == \A i \in 1..n : w[i + 1] >= Digit
ReadRemainingLength(w, limit) ==
    IF limit > 0 /\ Len(w) > limit /\ Marked(w, limit) THEN [is |-> "overflow"]
    ELSE IF Len(w) = 0 \/ Marked(w, Len(w) - 1) THEN [is |-> "short"]
    ELSE LET n == CHOOSE k \in 1..(Len(w) - 1) : w[k + 1] < Digit /\ Marked(w, k - 1)
         IN [is |-> "whole", len |-> LengthOf(SubSeq(w, 2, n + 1)), digits |-> n]

\* The packet at the front of the bytes w: header, remaining length, body.
ReadFrame(w, limit) ==
    LET r == ReadRemainingLength(w, limit) IN
    IF r.is # "whole" THEN r
    ELSE LET start == 1 + r.digits IN
        IF Len(w) < start + r.len THEN [is |-> "short"]
        ELSE [is |-> "whole", head |-> w[1], body |-> SubSeq(w, start + 1, start + r.len),
              rest |-> SubSeq(w, start + r.len + 1, Len(w))]

-----------------------------------------------------------------------------
(* The envelope around a payload. *)

MagicByte == 77
VersionByte == 1
HeaderLen == 7

\* Encode. Identifier 0 is uuid.Nil.
EncodeEnvelope(e) ==
    <<MagicByte, VersionByte, e.idem, e.srv, e.ts>> \o U16(Len(e.props)) \o e.props \o e.payload

\* Decode, and TryDecode, which has the same conditions.
DecodeEnvelope(d) ==
    IF Len(d) < HeaderLen \/ d[1] # MagicByte \/ d[2] # VersionByte \/ d[3] = 0
    THEN [ok |-> FALSE]
    ELSE LET p == Num(d, 5) IN
        IF Len(d) < HeaderLen + p THEN [ok |-> FALSE]
        ELSE [ok |-> TRUE,
              e |-> [idem |-> d[3], srv |-> d[4], ts |-> d[5],
                     props |-> SubSeq(d, HeaderLen + 1, HeaderLen + p),
                     payload |-> SubSeq(d, HeaderLen + p + 1, Len(d))]]

\* NewPublish. Of an identifier made here only matters that it is not 0.
NewPublish(idem, payload) ==
    [idem |-> idem, srv |-> 0, ts |-> 3, props |-> <<>>, payload |-> payload]

FreshId == 100 + (Len(log) % 100)

\* Topic.Publish: the bytes stored and sent to the subscribers.
StoredWire(e) == EncodeEnvelope([e EXCEPT !.srv = IF @ = 0 THEN FreshId ELSE @])

\* decodeStoredMessage: an envelope, else the older format with its two numbers.
LegacyHeader == <<5, 3>>
DecodeStored(raw) ==
    LET d == DecodeEnvelope(raw) IN
    IF d.ok THEN d
    ELSE IF Len(raw) < Len(LegacyHeader) THEN [ok |-> FALSE]
    ELSE [ok |-> TRUE,
          e |-> [idem |-> 0, srv |-> 0, ts |-> raw[2], props |-> <<>>,
                 payload |-> SubSeq(raw, Len(LegacyHeader) + 1, Len(raw))]]

-----------------------------------------------------------------------------
(* The broker's reading of a body. *)

Refused == [type |-> "refused"]
Protocol == <<1>>       \* "MQTT" or "MQIsdp"

\* The string after r, where the flags say that there is one.
Following(r, present, b) ==
    IF ~r.ok THEN NoString
    ELSE IF present THEN ReadString(b, r.pos)
    ELSE [r EXCEPT !.s = <<>>]

\* Mutant: the will message is not passed over.
ParseConnect_Will(b) ==
    LET proto == ReadString(b, 0) IN
    IF ~proto.ok \/ proto.s # Protocol \/ proto.pos + 4 > Len(b) THEN Refused
    ELSE
    LET flags == b[proto.pos + 2]
        id    == ReadString(b, proto.pos + 4)
        topic == Following(id, Bit(flags, 4), b)
        name  == Following(topic, Bit(flags, 128), b)
        pass  == Following(name, Bit(flags, 64), b)
    IN IF ~pass.ok THEN Refused
       ELSE [type |-> "CONNECT", id |-> id.s, name |-> name.s, pass |-> pass.s]

\* Protocol name, level, flags and keep-alive, then the strings.
ParseConnect(b) ==
    LET proto == ReadString(b, 0) IN
    IF ~proto.ok \/ proto.s # Protocol \/ proto.pos + 4 > Len(b) THEN Refused
    ELSE
    LET flags == b[proto.pos + 2]
        id    == ReadString(b, proto.pos + 4)
        topic == Following(id, Bit(flags, 4), b)
        will  == Following(topic, Bit(flags, 4), b)
        name  == Following(will, Bit(flags, 128), b)
        pass  == Following(name, Bit(flags, 64), b)
    IN IF ~pass.ok THEN Refused
       ELSE [type |-> "CONNECT", id |-> id.s, name |-> name.s, pass |-> pass.s]

ParsePublish(flags, b) ==
    LET qos   == (flags \div 2) % 4
        topic == ReadString(b, 0)
        start == topic.pos + (IF qos > 0 THEN 2 ELSE 0)
    IN IF ~topic.ok \/ start > Len(b) THEN Refused
       ELSE [type |-> "PUBLISH", topic |-> topic.s, qos |-> qos,
             dup |-> Bit(flags, 8), retain |-> Bit(flags, 1),
             id |-> IF qos > 0 THEN Num(b, topic.pos) ELSE 0,
             payload |-> SubSeq(b, start + 1, Len(b))]

\* Where the filters after the packet id end, the first i of them at place i, each
\* with its QoS where width is 1; past the body when they do not fill it.
FilterEnds(b, width) ==
    LET end[i \in 0..Len(b)] ==
            IF i = 0 THEN 2
            ELSE LET f == ReadString(b, end[i - 1]) IN
                 IF f.ok /\ f.pos + width <= Len(b) THEN f.pos + width ELSE Len(b) + 1
    IN end

\* The first n filters.
Filters(b, width, n) ==
    LET end == FilterEnds(b, width) IN
    [i \in 1..n |-> [name |-> ReadString(b, end[i - 1]).s,
                     qos |-> IF width = 1 THEN b[end[i]] % 4 ELSE 0]]

\* Mutant: filters that do not fill the body are accepted without the last one.
ParseFilters_Lax(type, b, width) ==
    IF Len(b) < 2 THEN Refused
    ELSE LET n == CHOOSE i \in 0..Len(b) :
                    /\ FilterEnds(b, width)[i] <= Len(b)
                    /\ i = Len(b) \/ FilterEnds(b, width)[i + 1] > Len(b)
         IN [type |-> type, id |-> Num(b, 0), topics |-> Filters(b, width, n)]

\* parseSubscribe (width 1) and parseUnsubscribe (width 0).
ParseFilters(type, b, width) ==
    IF Len(b) < 2 \/ \A i \in 0..Len(b) : FilterEnds(b, width)[i] # Len(b) THEN Refused
    ELSE LET n == CHOOSE i \in 0..Len(b) : FilterEnds(b, width)[i] = Len(b)
         IN [type |-> type, id |-> Num(b, 0), topics |-> Filters(b, width, n)]

\* ReadPacket once the body is there.
ParsePacket(head, b) ==
    CASE head \div 16 = 1  -> ParseConnect(b)
      [] head \div 16 = 3  -> ParsePublish(head % 16, b)
      [] head \div 16 = 4  -> IF Len(b) < 2 THEN Refused ELSE [type |-> "PUBACK", id |-> Num(b, 0)]
      [] head \div 16 = 8  -> ParseFilters("SUBSCRIBE", b, 1)
      [] head \div 16 = 10 -> ParseFilters("UNSUBSCRIBE", b, 0)
      [] head \div 16 = 12 -> [type |-> "PINGREQ"]
      [] head \div 16 = 14 -> [type |-> "DISCONNECT"]
      [] OTHER             -> Refused

-----------------------------------------------------------------------------
(* What is written. *)

\* WritePublish of the broker and writePublish of the SDK.
PublishBody(topic, qos, id, payload) ==
    EncodeString(topic) \o (IF qos > 0 THEN U16(id) ELSE <<>>) \o payload
PublishPacket(topic, qos, id, dup, payload) ==
    Frame(3, 2 * qos + (IF dup THEN 8 ELSE 0), PublishBody(topic, qos, id, payload))

\* The broker's other packets.
ConnAckPacket(code) == <<32, 2, 0, code>>
PubAckPacket(id) == <<64, 2>> \o U16(id)
SubAckPacket(id, codes) == Frame(9, 0, U16(id) \o codes)
UnsubAckPacket(id) == <<176, 2>> \o U16(id)
PingRespPacket == <<208, 0>>

\* The SDK's. A password without a user name is written and not announced.
ConnectBody(o) ==
    EncodeString(Protocol)
        \o <<4, 2 + (IF o.name # <<>> THEN 128 ELSE 0)
                  + (IF o.name # <<>> /\ o.pass # <<>> THEN 64 ELSE 0)>>
        \o U16(1) \o EncodeString(o.id)
        \o (IF o.name # <<>> THEN EncodeString(o.name) ELSE <<>>)
        \o (IF o.pass # <<>> THEN EncodeString(o.pass) ELSE <<>>)
ConnectPacket(o) == Frame(1, 0, ConnectBody(o))
SubscribeBody(topic, qos) == U16(1) \o EncodeString(topic) \o <<qos % 4>>
SubscribePacket(topic, qos) == Frame(8, 2, SubscribeBody(topic, qos))

\* External: CONNECT of an MQTT client that leaves a will.
WillBody(o) ==
    EncodeString(Protocol) \o <<4, 2 + 4 + 128 + 64>> \o U16(1) \o EncodeString(o.id)
        \o EncodeString(<<0>>) \o EncodeString(<<1>>)
        \o EncodeString(o.name) \o EncodeString(o.pass)
WillPacket(o) == Frame(1, 0, WillBody(o))

-----------------------------------------------------------------------------
Blank == [id |-> <<>>, name |-> <<>>, pass |-> <<>>, will |-> FALSE]
Dirs == {"up", "down"}

\* The store may begin with a message of the older format.
Init ==
    /\ wire = [d \in Dirs |-> <<>>]
    /\ dead = {} /\ broken = FALSE /\ phase = "new"
    /\ asked = Blank /\ greeted = FALSE
    /\ wants = <<>>
    /\ log \in {<<>>, <<[topic |-> <<1>>, raw |-> LegacyHeader \o <<1>>, want |-> Refused]>>}
    /\ told = 0 /\ got = <<>>
    /\ sent = 0 /\ odd = FALSE /\ failed = FALSE

Write(d, bytes) == wire' = [wire EXCEPT ![d] = @ \o bytes]

-----------------------------------------------------------------------------
(* The client. *)

\* connectMQTT up to its wait for CONNACK; another client's CONNECT.
Connect(o, packet) ==
    /\ phase = "new" /\ ~broken
    /\ Write("up", packet)
    /\ phase' = "connecting" /\ asked' = o
    /\ UNCHANGED <<dead, broken, greeted, wants, log, told, got, sent, odd, failed>>

\* connectMQTT: four bytes, of which the last counts.
ReadConnAck ==
    /\ phase = "connecting" /\ Len(wire["down"]) >= 4
    /\ wire' = [wire EXCEPT !["down"] = SubSeq(@, 5, Len(@))]
    /\ phase' = IF wire["down"][4] = 0 THEN "up" ELSE "refused"
    /\ asked' = Blank
    /\ UNCHANGED <<dead, broken, greeted, wants, log, told, got, sent, odd, failed>>

\* A packet goes up; o: the broker may refuse it.
Send(packet, o) ==
    /\ phase = "up" /\ ~broken /\ sent < MaxSent
    /\ Write("up", packet)
    /\ sent' = sent + 1 /\ odd' = (odd \/ o)
    /\ UNCHANGED <<dead, broken, phase, asked, greeted, log, told, got, failed>>

\* The remaining length has a digit too many for the broker.
TooLong(body) == Len(body) >= Weight[MaxDigits]
Overlong(s) == Len(s) >= LenBase * LenBase

Want(topic, payload) == [type |-> "message", topic |-> topic, payload |-> payload]

\* Client.nextPID: it starts at 0, and goes on with 1 when it overflows (here every
\* packet moves it on).
NextPID == IF sent = 0 THEN 0 ELSE 1 + ((sent - 1) % (LenBase * LenBase - 1))

\* Publish: the payload in an envelope with an idempotency id.
Publish(topic, payload, qos) ==
    LET e == EncodeEnvelope(NewPublish(50 + (sent % 50), payload)) IN
    /\ Send(PublishPacket(topic, qos, NextPID, FALSE, e),
            TooLong(PublishBody(topic, qos, NextPID, e)) \/ Overlong(topic))
    /\ wants' = Append(wants, Want(topic, payload))

\* External: an MQTT client publishes a payload as it is, and it is no envelope.
PublishPlain(topic, payload) ==
    /\ ~Overlong(topic) /\ ~TooLong(PublishBody(topic, 0, 0, payload))
    /\ ~DecodeEnvelope(payload).ok
    /\ Send(PublishPacket(topic, 0, 0, FALSE, payload), FALSE)
    /\ wants' = Append(wants, Want(topic, payload))

\* External: an envelope with user properties.
PublishProps(topic, payload) ==
    LET e == EncodeEnvelope([NewPublish(50 + (sent % 50), payload) EXCEPT !.props = <<1>>]) IN
    /\ ~Overlong(topic) /\ ~TooLong(PublishBody(topic, 1, 2, e))
    /\ Send(PublishPacket(topic, 1, 2, FALSE, e), FALSE)
    /\ wants' = Append(wants, Want(topic, payload))

Subscribe(topic, qos) ==
    /\ Send(SubscribePacket(topic, qos),
            TooLong(SubscribeBody(topic, qos)) \/ Overlong(topic))
    /\ UNCHANGED wants

SendPubAck(id) == Send(PubAckPacket(id), FALSE) /\ UNCHANGED wants

\* External: any packet of an MQTT client, the only one that it sends.
SendOther(heads, bodies) ==
    /\ phase = "up" /\ ~broken /\ sent = 0
    /\ \E head \in heads, body \in bodies :
        /\ Write("up", Frame(head \div 16, head % 16, body))
        /\ wants' = IF head \div 16 = 3 THEN Append(wants, Refused) ELSE wants
    /\ sent' = MaxSent /\ odd' = TRUE
    /\ UNCHANGED <<dead, broken, phase, asked, greeted, log, told, got, failed>>

-----------------------------------------------------------------------------
(* Both readers. *)

\* The next packet; only the broker limits its digits. The SDK's loop runs once
\* Connect has returned.
Incoming(d) == ReadFrame(wire[d], IF d = "up" THEN MaxDigits ELSE 0)
Reading(d) == d \notin dead /\ (d = "up" \/ phase = "up")
HasPacket(d) == Reading(d) /\ Incoming(d).is = "whole"

\* The stream ends inside the packet, or its length has too many digits.
ReadFails(d) ==
    /\ Reading(d)
    /\ Incoming(d).is = "overflow" \/ (Incoming(d).is = "short" /\ broken)
    /\ dead' = dead \cup {d}
    /\ UNCHANGED <<wire, broken, phase, asked, greeted, wants, log, told, got, sent, odd, failed>>

\* External: the connection breaks; of what is under way one direction loses the
\* end, the other everything (after it the two have no more to do with each other).
Break(d) ==
    /\ ~broken /\ broken' = TRUE
    /\ \E i \in 0..Len(wire[d]) : wire' = [x \in Dirs |-> IF x = d THEN SubSeq(wire[d], 1, i) ELSE <<>>]
    /\ UNCHANGED <<dead, phase, asked, greeted, wants, log, told, got, sent, odd, failed>>

-----------------------------------------------------------------------------
(* The broker. *)

\* The packet it has before it.
Received == ParsePacket(Incoming("up").head, Incoming("up").body)

\* It answers with the bytes a, and reads on or ends.
Answer(a, next) ==
    /\ wire' = [up |-> Incoming("up").rest,
                down |-> IF broken THEN wire["down"] ELSE wire["down"] \o a]
    /\ dead' = IF next THEN dead ELSE dead \cup {"up"}
    /\ UNCHANGED <<broken, phase, asked, told, got, sent, odd>>

\* The first packet: CONNECT, accepted or not.
HandleConnect ==
    /\ HasPacket("up") /\ ~greeted /\ Received.type = "CONNECT"
    /\ \E code \in {0, 4} : Answer(ConnAckPacket(code), code = 0)
    /\ greeted' = TRUE
    /\ UNCHANGED <<wants, log, failed>>

\* An unreadable packet, or DISCONNECT.
HandleEnd ==
    /\ HasPacket("up") /\ Received.type \in {"refused", "DISCONNECT"}
    /\ Answer(<<>>, FALSE)
    /\ UNCHANGED <<greeted, wants, log, failed>>

\* PUBACK, at QoS 1.
PublishAnswer == IF Received.qos = 1 THEN PubAckPacket(Received.id) ELSE <<>>

\* handlePublish: what is no envelope is put into one.
HandlePublish ==
    /\ HasPacket("up") /\ greeted /\ Received.type = "PUBLISH" /\ Len(log) < MaxLog
    /\ LET d == DecodeEnvelope(Received.payload)
           e == IF d.ok THEN d.e ELSE NewPublish(FreshId, Received.payload)
       IN log' = Append(log, [topic |-> Received.topic, raw |-> StoredWire(e),
                              want |-> Head(wants)])
    /\ wants' = Tail(wants)
    /\ Answer(PublishAnswer, TRUE)
    /\ UNCHANGED <<greeted, failed>>

\* Its idempotency id is one that the broker remembers (which it does is in Dedup):
\* answered as if stored. An id that was made for a plain payload is never known.
HandleDuplicate ==
    /\ HasPacket("up") /\ greeted /\ Received.type = "PUBLISH"
    /\ DecodeEnvelope(Received.payload).ok
    /\ wants' = Tail(wants)
    /\ Answer(PublishAnswer, TRUE)
    /\ UNCHANGED <<greeted, log, failed>>

\* The user may not publish there, the topic cannot be opened, or its store fails:
\* handlePublish returns the error, and the session ends without an answer.
PublishFails ==
    /\ HasPacket("up") /\ greeted /\ Received.type = "PUBLISH"
    /\ wants' = Tail(wants) /\ failed' = TRUE
    /\ Answer(<<>>, FALSE)
    /\ UNCHANGED <<greeted, log>>

\* A topic of a SUBSCRIBE cannot be opened.
SubscribeFails ==
    /\ HasPacket("up") /\ greeted /\ Received.type = "SUBSCRIBE" /\ Received.topics # <<>>
    /\ failed' = TRUE
    /\ Answer(<<>>, FALSE)
    /\ UNCHANGED <<greeted, wants, log>>

\* The answers to the other packets. A filter that the user may not read gets 128.
Replies(p) ==
    CASE p.type = "SUBSCRIBE" ->
            {SubAckPacket(p.id, codes) : codes \in
                {c \in [1..Len(p.topics) -> {0, 1, 128}] :
                    \A i \in 1..Len(p.topics) :
                        c[i] \in {128, IF p.topics[i].qos > 1 THEN 1 ELSE p.topics[i].qos}}}
      [] p.type = "UNSUBSCRIBE" -> {UnsubAckPacket(p.id)}
      [] p.type = "PINGREQ" -> {PingRespPacket}
      [] OTHER -> {<<>>}

HandleOther ==
    /\ HasPacket("up") /\ greeted
    /\ Received.type \in {"CONNECT", "SUBSCRIBE", "UNSUBSCRIBE", "PUBACK", "PINGREQ"}
    /\ \E a \in Replies(Received) : Answer(a, TRUE)
    /\ UNCHANGED <<greeted, wants, log, failed>>

\* Mutant: the place in the log is not moved on.
Deliver_Again(qos, dup) ==
    /\ phase = "up" /\ ~broken /\ "up" \notin dead /\ told < Len(log)
    /\ LET m == log[told + 1] IN
        Write("down", PublishPacket(m.topic, qos, 1, dup, m.raw))
    /\ UNCHANGED <<dead, broken, phase, asked, greeted, wants, log, told, got, sent, odd, failed>>

\* deliverMessage and retransmitLoop: the stored bytes as they are.
Deliver(qos, dup) ==
    /\ phase = "up" /\ ~broken /\ "up" \notin dead /\ told < Len(log)
    /\ LET m == log[told + 1] IN
        Write("down", PublishPacket(m.topic, qos, 1, dup, m.raw))
    /\ told' = told + 1
    /\ UNCHANGED <<dead, broken, phase, asked, greeted, wants, log, got, sent, odd, failed>>

\* handleReplay: a stored message is published again, without its properties.
\* Bound: only while nothing is under way (it has no part in the exchange of bytes).
Replay(n) ==
    /\ \A d \in Dirs : wire[d] = <<>>
    /\ n \in DOMAIN log /\ Len(log) < MaxLog /\ DecodeStored(log[n].raw).ok
    /\ LET e == [DecodeStored(log[n].raw).e EXCEPT !.props = <<>>] IN
        log' = Append(log, [log[n] EXCEPT !.raw = StoredWire(e)])
    /\ UNCHANGED <<wire, dead, broken, phase, asked, greeted, wants, told, got, sent, odd, failed>>

-----------------------------------------------------------------------------
(* The SDK's reading loop. *)

\* Mutant: the packet id is looked for in every PUBLISH.
ParsePublishBody_Id(b, qos) ==
    IF Len(b) < 2 \/ 2 + Num(b, 0) > Len(b) THEN [topic |-> <<>>, payload |-> <<>>]
    ELSE LET pos == 2 + Num(b, 0) IN
        [topic |-> SubSeq(b, 3, pos), payload |-> SubSeq(b, pos + 3, Len(b))]

\* parsePublishBody.
ParsePublishBody(b, qos) ==
    IF Len(b) < 2 \/ 2 + Num(b, 0) > Len(b) THEN [topic |-> <<>>, payload |-> <<>>]
    ELSE LET pos == 2 + Num(b, 0)
             start == IF qos > 0 /\ pos + 2 <= Len(b) THEN pos + 2 ELSE pos
         IN [topic |-> SubSeq(b, 3, pos), payload |-> SubSeq(b, start + 1, Len(b))]

\* A PUBLISH goes to the handler without its envelope, other packets nowhere.
SdkRead ==
    /\ HasPacket("down")
    /\ LET q == Incoming("down")
           m == ParsePublishBody(q.body, ((q.head % 16) \div 2) % 4)
           d == DecodeEnvelope(m.payload)
       IN got' = IF q.head \div 16 = 3
                 THEN Append(got, Want(m.topic, IF d.ok THEN d.e.payload ELSE m.payload))
                 ELSE got
    /\ wire' = [wire EXCEPT !["down"] = Incoming("down").rest]
    /\ UNCHANGED <<dead, broken, phase, asked, greeted, wants, log, told, sent, odd, failed>>

-----------------------------------------------------------------------------
Options(w) == [id : Names, name : Names, pass : Names, will : {w}]

\* What is asked for in Connect fits its fields, and CONNECT the broker's limit.
ASSUME NamesAssumption ==
    /\ \A n \in Names : ~Overlong(n)
    /\ \A o \in Options(FALSE) : ~TooLong(ConnectBody(o))
    /\ \A o \in Options(TRUE) : ~TooLong(WillBody(o))

Heads == {16, 48, 50, 64, 130, 162}     \* CONNECT, PUBLISH twice, PUBACK, SUBSCRIBE, UNSUBSCRIBE
BareHeads == {192, 224}                 \* PINGREQ, DISCONNECT

Next ==
    \/ \E o \in Options(FALSE) : Connect(o, ConnectPacket(o))
    \/ \E o \in Options(TRUE) : Connect(o, WillPacket(o))
    \/ ReadConnAck
    \/ \E t \in Topics, p \in Payloads, qos \in {0, 1} : Publish(t, p, qos)
    \/ \E t \in Topics, p \in Payloads : PublishPlain(t, p)
    \/ \E t \in Topics, p \in Payloads : PublishProps(t, p)
    \/ \E t \in Topics : Subscribe(t, 1)
    \/ SendPubAck(1)
    \/ SendOther(Heads, Bodies)
    \/ SendOther(BareHeads, {<<>>})
    \/ \E d \in Dirs : ReadFails(d)
    \/ \E d \in Dirs : Break(d)
    \/ HandleConnect
    \/ HandleEnd
    \/ HandlePublish
    \/ HandleDuplicate
    \/ PublishFails
    \/ SubscribeFails
    \/ HandleOther
    \/ Deliver(0, FALSE)
    \/ \E dup \in BOOLEAN : Deliver(1, dup)
    \/ \E n \in 1..MaxLog : Replay(n)
    \/ SdkRead

Spec == Init /\ [][Next]_vars

-----------------------------------------------------------------------------
(* Properties. *)

\* Type invariant of the streams and of their readers (ReadPacket of the broker,
\* readPacketFlags of the SDK).
CodecTypeOK ==
    /\ wire \in [Dirs -> Seq(Byte)]
    /\ dead \subseteq Dirs /\ {broken, greeted, odd, failed} \subseteq BOOLEAN
    /\ phase \in {"new", "connecting", "up", "refused"}
    /\ told <= Len(log) /\ Len(got) <= told /\ Len(log) <= MaxLog

\* A message that arrives is the message that was published, topic and payload,
\* through both packet codecs, the envelope, the store and a replay. Left out are
\* a topic whose length does not fit its field, records of the older format and
\* packets of other clients that are no well-formed message.
ArrivesAsPublished ==
    \A n \in DOMAIN got :
        log[n].want.type = "message" /\ ~Overlong(log[n].want.topic) => got[n] = log[n].want

\* CONNECT carries the client id, the user name and, where there is a user name,
\* the password, past the will that another client may leave.
IdentityKept ==
    HasPacket("up") /\ ~greeted /\ ~broken =>
        /\ Received.type = "CONNECT" /\ Received.id = asked.id /\ Received.name = asked.name
        /\ Received.pass = IF asked.name = <<>> /\ ~asked.will THEN <<>> ELSE asked.pass

\* The broker's reader ends a connection only when the stream has broken off, when
\* a handler returned an error (a PUBLISH that the user may not make, a topic or a
\* store that fails), or when the client asked for what it does not take: bad
\* credentials, a packet or a topic over its length, another client's odd packet.
\* Its place in the stream is never lost between one packet and the next.
EndsForCause ==
    "up" \in dead =>
        broken \/ failed \/ odd \/ phase = "refused" \/ (phase = "connecting" /\ greeted)

\* A PUBLISH, SUBSCRIBE or UNSUBSCRIBE that parsePublish, parseSubscribe or
\* parseUnsubscribe accepts, from whatever client, accounts for every byte of
\* its body: nothing is dropped and nothing read twice. Of the byte after a
\* filter parseSubscribe keeps the two low bits.
EveryByteRead ==
    HasPacket("up") =>
        LET p == Received
            b == Incoming("up").body
        IN CASE p.type = "PUBLISH" -> b = PublishBody(p.topic, p.qos, p.id, p.payload)
             [] p.type = "SUBSCRIBE" ->
                    \E options \in [DOMAIN p.topics -> Range(b)] :
                        /\ \A i \in DOMAIN p.topics : options[i] % 4 = p.topics[i].qos
                        /\ b = U16(p.id) \o FlattenSeq([i \in DOMAIN p.topics |->
                                EncodeString(p.topics[i].name) \o <<options[i]>>])
             [] p.type = "UNSUBSCRIBE" ->
                    b = U16(p.id) \o FlattenSeq([i \in DOMAIN p.topics |->
                            EncodeString(p.topics[i].name)])
             [] OTHER -> TRUE
=============================================================================
