------------------------------ MODULE Streams ------------------------------
(***************************************************************************)
(* A connection, its input Buffer and the message callback of one of the   *)
(* protocols.  The peer's bytes arrive in pieces of any size; each piece   *)
(* is read with readFd() and then given to the callback, as                *)
(* TcpConnection::handleRead() does.                                       *)
(***************************************************************************)
EXTENDS Memcached

CONSTANTS
    Protocols,
    Scripts(_),  \* Scripts(p): the sequences of requests a peer of p may send
    Messages     \* payloads that are sent with the codecs' own send()

VARIABLES
    proto,
    requests,  \* what the peer sends, one byte sequence a request
    arrived,   \* how many of the bytes have arrived
    buf,       \* inputBuffer_
    retrieved, \* how many bytes the callback has retrieved
    ctx,       \* the connection's context
    out        \* the callbacks made and replies sent, up to shutdown()

vars == <<proto, requests, arrived, buf, retrieved, ctx, out>>

Input == FlattenSeq(requests)

(* A browser and a web server wait for the response to a request before     *)
(* they send the next one.                                                  *)
Waits(p) == p \in {"http", "fastcgi"}

NewContext(p) ==
    CASE p = "http" -> HttpNew
      [] p = "fastcgi" -> FastCgiNew
      [] p = "memcached" -> MemcachedNew
      [] p = "wordcount" -> WordCountNew
      [] OTHER -> [none |-> TRUE]

LoopBody(p, c, s) ==
    CASE p = "length" -> LengthHeaderOnMessage(c, s)
      [] p = "lite" -> LiteOnMessage(c, s)
      [] p = "protobuf" -> OnMessage(c, s)
      [] p = "fastcgi" -> FastCgiParseRequest(c, s)
      [] p = "http" -> HttpParseRequest(c, s)
      [] p = "hub" -> HubOnMessage(c, s)
      [] p = "sudoku" -> SudokuOnMessage(c, s)
      [] p = "wordcount" -> WordCountOnMessage(c, s)
      [] p = "memcached" -> SessionOnMessage(c, s)

AfterLoop(p, c) ==
    CASE p = "http" -> HttpCallback(c)
      [] p = "fastcgi" -> FastCgiCallback(c)
      [] OTHER -> Break(c)

(* The message callback: its loop, and what follows it.                     *)
RECURSIVE Callback(_, _, _)
Callback(p, c, s) ==
    LET Then(i, rest) == [rest EXCEPT !.used = @ + i.used, !.out = i.out \o @]
        After_(i) == IF i.more THEN Callback(p, i.ctx, From(s, i.used + 1)) ELSE AfterLoop(p, i.ctx)
        Run(i) == Then(i, After_(i))
    IN Run(LoopBody(p, c, s))

(* Once it has been shut down, a connection sends no more.                  *)
UpToShutdown(s) ==
    IF \E i \in DOMAIN s : s[i] = <<"shutdown">>
    THEN SubSeq(s, 1, CHOOSE i \in DOMAIN s : /\ s[i] = <<"shutdown">>
                                              /\ \A j \in 1 .. i - 1 : s[j] # <<"shutdown">>)
    ELSE s

-----------------------------------------------------------------------------
Init ==
    /\ proto \in Protocols
    /\ requests \in Scripts(proto)
    /\ arrived = 0
    /\ buf = EmptyBuffer /\ retrieved = 0
    /\ ctx = NewContext(proto)
    /\ out = <<>>

(* The end of the request that byte n + 1 is in.                            *)
RequestEnd(n) ==
    LET ends == {Len(FlattenSeq(SubSeq(requests, 1, i))) : i \in DOMAIN requests}
    IN CHOOSE e \in ends : e > n /\ \A f \in ends : f > n => e <= f

HandleRead(n) ==
    \E read \in {readFd(buf, SubSeq(Input, arrived + 1, arrived + n))} :
    \E result \in {Callback(proto, ctx, toStringPiece(read))} :
        /\ arrived' = arrived + n
        /\ buf' = IF result.used = 0 THEN read ELSE retrieve(read, result.used)
        /\ retrieved' = retrieved + result.used
        /\ ctx' = result.ctx
        /\ out' = UpToShutdown(out \o result.out)
        /\ UNCHANGED <<proto, requests>>

Next ==
    \E n \in 1 .. ReadLimit(buf) :
        /\ arrived + n <= (IF Waits(proto) /\ arrived < Len(Input) THEN RequestEnd(arrived)
                           ELSE Len(Input))
        /\ HandleRead(n)

Spec == Init /\ [][Next]_vars

-----------------------------------------------------------------------------
(* The Buffer is a queue of bytes: however they were read, it holds the     *)
(* bytes that have arrived and not been retrieved, and the assertions of    *)
(* Buffer.h hold (Buffer.h:113-125, :354-408, Buffer.cc:25-56).             *)
BufferIsQueue ==
    /\ buf.ok
    /\ toStringPiece(buf) = SubSeq(Input, retrieved + 1, arrived)

(* Where the stream is cut does not matter: the output and, until           *)
(* shutdown(), context and buffer are those of one callback a request (the  *)
(* onMessage() loops).                                                      *)
RECURSIVE InOnePiece(_, _, _)
InOnePiece(state, i, n) ==
    LET After_(bytes, r) ==
            [ctx |-> r.ctx, out |-> state.out \o r.out, left |-> From(bytes, r.used + 1)]
        Given(bytes) == After_(bytes, Callback(proto, state.ctx, bytes))
    IN IF n = 0 THEN state
       ELSE IF n < Len(requests[i]) THEN Given(state.left \o SubSeq(requests[i], 1, n))
       ELSE InOnePiece(Given(state.left \o requests[i]), i + 1, n - Len(requests[i]))
CutsDoNotMatter ==
    \E whole \in {InOnePiece([ctx |-> NewContext(proto), out |-> <<>>, left |-> <<>>], 1, arrived)} :
        /\ out = UpToShutdown(whole.out)
        /\ \/ <<"shutdown">> \in ToSet(out)
           \/ ctx = whole.ctx /\ toStringPiece(buf) = whole.left

(* What a codec's send() writes, its onMessage() reads: the callbacks made  *)
(* are the messages whose last byte has arrived, in order (the codecs'      *)
(* fillEmptyBuffer(), send() and onMessage()).                              *)
Encoded(p, m) ==
    CASE p = "length" -> toStringPiece(LengthHeaderSend(m))
      [] p = "lite" -> toStringPiece(LiteFillEmptyBuffer(m))
      [] p = "protobuf" -> toStringPiece(FillEmptyBuffer(TypeName, m))
MessagesArrive ==
    proto \in {"length", "lite", "protobuf"} =>
        LET Is(i) == {m \in Messages : Encoded(proto, m) = requests[i]}
            done == {k \in 0 .. Len(requests) :
                        /\ Len(FlattenSeq(SubSeq(requests, 1, k))) <= arrived
                        /\ \A i \in 1 .. k : Is(i) # {}}
            n == CHOOSE k \in done : \A j \in done : j <= k
        IN SelectSeq(out, LAMBDA o : o[1] = "message")
               = [i \in 1 .. n |-> <<"message", CHOOSE m \in Is(i) : TRUE>>]
=============================================================================
