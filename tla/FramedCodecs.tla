---------------------------- MODULE FramedCodecs ---------------------------
(***************************************************************************)
(* The codecs whose messages carry their length: LengthHeaderCodec of the  *)
(* chat example, ProtobufCodecLite of the library, ProtobufCodec and       *)
(* FastCgiCodec of the examples.                                           *)
(*                                                                         *)
(* A byte is a number below Radix, and an int32_t is two bytes in two's    *)
(* complement, so that a header can be cut in the middle.  One iteration   *)
(* of an onMessage() loop maps the codec's context and the readable bytes  *)
(* to the context, how many bytes it retrieves, the callbacks it makes and *)
(* whether the loop goes on.  A callback is a tuple that begins with its   *)
(* name; the error callbacks shut the connection down.                     *)
(***************************************************************************)
EXTENDS Buffer

CONSTANTS
    Radix,
    kMaxMessageLen,   \* the longest message of a codec
    Tag,              \* tag_ of ProtobufCodecLite
    TypeName          \* the message type ProtobufCodec knows, one byte

kHeaderLen == 2
kChecksumLen == 2

appendInt32(b, x) == append(b, <<(x \div Radix) % Radix, x % Radix>>)
prependInt32(b, x) == prepend(b, <<(x \div Radix) % Radix, x % Radix>>)

asInt32(s) ==
    LET x == s[1] * Radix + s[2] IN IF s[1] < Radix \div 2 THEN x ELSE x - Radix * Radix

(* adler32(), reduced to its low half: one plus the sum of the bytes.       *)
checksum(s) == FoldLeft(LAMBDA x, y : (x + y) % (Radix * (Radix \div 2)), 1, s)

Iteration(ctx, used, out, more) == [ctx |-> ctx, used |-> used, out |-> out, more |-> more]
Break(ctx) == Iteration(ctx, 0, <<>>, FALSE)
Fail(ctx, error) == Iteration(ctx, 0, <<<<error>>, <<"shutdown">>>>, FALSE)
From(s, i) == SubSeq(s, i, Len(s))

-----------------------------------------------------------------------------
LengthHeaderSend(message) ==
    prependInt32(append(EmptyBuffer, message), Len(message))

LengthHeaderOnMessage_EatsHeader(ctx, s) ==
    LET len == asInt32(s)
    IN CASE Len(s) < kHeaderLen -> Break(ctx)
         [] Len(s) >= kHeaderLen /\ (len > kMaxMessageLen \/ len < 0) -> Fail(ctx, "invalid length")
         [] OTHER ->
              IF Len(s) >= len + kHeaderLen
              THEN Iteration(ctx, kHeaderLen + len,
                             <<<<"message", SubSeq(s, kHeaderLen + 1, kHeaderLen + len)>>>>, TRUE)
              ELSE Iteration(ctx, kHeaderLen, <<>>, FALSE)

LengthHeaderOnMessage(ctx, s) ==
    LET len == asInt32(s)
    IN CASE Len(s) < kHeaderLen -> Break(ctx)
         [] Len(s) >= kHeaderLen /\ (len > kMaxMessageLen \/ len < 0) -> Fail(ctx, "invalid length")
         [] OTHER ->
              IF Len(s) >= len + kHeaderLen
              THEN Iteration(ctx, kHeaderLen + len,
                             <<<<"message", SubSeq(s, kHeaderLen + 1, kHeaderLen + len)>>>>, TRUE)
              ELSE Break(ctx)

-----------------------------------------------------------------------------
(* ProtobufCodecLite: size, tag, payload, checksum.                         *)
LiteFillEmptyBuffer(payload) ==
    LET body == append(append(EmptyBuffer, Tag), payload)
        summed == appendInt32(body, checksum(toStringPiece(body)))
    IN prependInt32(summed, readableBytes(summed))

validateChecksum(s) ==
    LET end == Len(s) - kChecksumLen
    IN asInt32(From(s, end + 1)) = checksum(SubSeq(s, 1, end))

LiteParse(s) ==
    CASE ~validateChecksum(s) -> "kCheckSumError"
      [] validateChecksum(s) /\ ~IsPrefix(Tag, s) -> "kUnknownMessageType"
      [] OTHER -> "kNoError"

(* The onMessage() loop both protobuf codecs share, given what parse() says *)
(* of the body and the payload of a good one; rawCb_ is not set.            *)
Body(s) == SubSeq(s, kHeaderLen + 1, kHeaderLen + asInt32(s))

ProtobufOnMessage(ctx, s, kMinMessageLen, errorCode, payload) ==
    LET len == asInt32(s)
    IN CASE Len(s) < kMinMessageLen + kHeaderLen -> Break(ctx)
         [] /\ Len(s) >= kMinMessageLen + kHeaderLen
            /\ len > kMaxMessageLen \/ len < kMinMessageLen -> Fail(ctx, "kInvalidLength")
         [] OTHER ->
              IF Len(s) < kHeaderLen + len THEN Break(ctx)
              ELSE IF errorCode = "kNoError"
                   THEN Iteration(ctx, kHeaderLen + len, <<<<"message", payload>>>>, TRUE)
                   ELSE Fail(ctx, errorCode)

LitePayload_WithTag(body) == SubSeq(body, Len(Tag), Len(body) - kChecksumLen)

LitePayload(body) == SubSeq(body, Len(Tag) + 1, Len(body) - kChecksumLen)

LiteOnMessage(ctx, s) ==
    ProtobufOnMessage(ctx, s, Len(Tag) + kChecksumLen, LiteParse(Body(s)), LitePayload(Body(s)))

-----------------------------------------------------------------------------
(* ProtobufCodec: size, nameLen, typeName with its NUL, payload, checksum.  *)
FillEmptyBuffer(name, payload) ==
    LET body == append(append(appendInt32(EmptyBuffer, 2), <<name, 0>>), payload)
        summed == appendInt32(body, checksum(toStringPiece(body)))
    IN prependInt32(summed, readableBytes(summed))

Parse(s) ==
    LET nameLen == asInt32(s)
    IN CASE ~validateChecksum(s) -> "kCheckSumError"
         [] validateChecksum(s) /\ ~(nameLen >= 2 /\ nameLen <= Len(s) - 2 * kHeaderLen) ->
              "kInvalidNameLen"
         [] OTHER ->
              IF SubSeq(s, kHeaderLen + 1, kHeaderLen + nameLen - 1) = <<TypeName>>
              THEN "kNoError" ELSE "kUnknownMessageType"

Payload(body) == SubSeq(body, kHeaderLen + asInt32(body) + 1, Len(body) - kHeaderLen)

OnMessage(ctx, s) ==
    ProtobufOnMessage(ctx, s, 2 * kHeaderLen + 2, Parse(Body(s)), Payload(Body(s)))

-----------------------------------------------------------------------------
(* FastCgiCodec: records of type, length and padding, content and padding.  *)
(* A request ends with an empty Stdin record; its callback and the reset of *)
(* the codec follow the loop.                                               *)
kRecordHeader == 3
kFcgiBeginRequest == 1
kFcgiParams == 4
kFcgiStdin == 5
kFcgiResponder == 1
kFcgiKeepConn == 1

FastCgiNew == [gotRequest_ |-> FALSE, keepConn_ |-> FALSE, stdin_ |-> <<>>, paramsStream_ |-> <<>>,
               params_ |-> <<>>]

(* A length is one byte or, with the top bit set, an int32_t.               *)
readLen(s) ==
    CASE s # <<>> /\ s[1] < Radix \div 2 -> [len |-> s[1], rest |-> Tail(s)]
      [] Len(s) >= kHeaderLen /\ s[1] >= Radix \div 2 ->
             [len |-> (s[1] - Radix \div 2) * Radix + s[2], rest |-> From(s, kHeaderLen + 1)]
      [] OTHER -> [len |-> -1, rest |-> s]

(* The parameters so far and what is left of the stream, which is something *)
(* only if a parameter is cut short.                                        *)
RECURSIVE parseAllParams(_, _)
parseAllParams(stream, params) ==
    LET name == readLen(stream)
        value == readLen(name.rest)
        end == name.len + value.len
    IN IF stream = <<>> \/ name.len = -1 THEN [params |-> params, rest |-> stream]
       ELSE IF value.len = -1 \/ Len(value.rest) < end THEN [params |-> params, rest |-> value.rest]
       ELSE parseAllParams(From(value.rest, end + 1), Append(params, SubSeq(value.rest, 1, end)))

FastCgiRecord(ctx, type, content) ==
    CASE type = kFcgiBeginRequest ->
             IF Len(content) >= 2 /\ content[1] = kFcgiResponder
             THEN [ctx EXCEPT !.keepConn_ = (content[2] = kFcgiKeepConn)] ELSE ctx
      [] type = kFcgiParams ->
             IF content # <<>> THEN [ctx EXCEPT !.paramsStream_ = @ \o content]
             ELSE LET all == parseAllParams(ctx.paramsStream_, ctx.params_)
                  IN [ctx EXCEPT !.params_ = all.params, !.paramsStream_ = all.rest]
      [] type = kFcgiStdin ->
             IF content # <<>> THEN [ctx EXCEPT !.stdin_ = @ \o content]
             ELSE [ctx EXCEPT !.gotRequest_ = TRUE]
      [] OTHER -> ctx

FastCgiParseRequest(ctx, s) ==
    LET total == kRecordHeader + s[2] + s[3]
    IN IF Len(s) < kRecordHeader THEN Break(ctx)
       ELSE IF Len(s) < total THEN Break(ctx)
       ELSE Iteration(FastCgiRecord(ctx, s[1], SubSeq(s, kRecordHeader + 1, kRecordHeader + s[2])),
                      total, <<>>, TRUE)

FastCgiCallback(ctx) ==
    IF ctx.gotRequest_
    THEN Iteration([FastCgiNew EXCEPT !.keepConn_ = ctx.keepConn_], 0,
                   <<<<"request", ctx.params_, ctx.stdin_>>>>
                       \o IF ctx.keepConn_ THEN <<>> ELSE <<<<"shutdown">>>>, FALSE)
    ELSE Break(ctx)
=============================================================================
