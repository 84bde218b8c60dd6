----------------------------- MODULE TextCodecs ----------------------------
(***************************************************************************)
(* The handlers that read lines: HttpServer with its HttpContext, the hub  *)
(* of the publish/subscribe example, the sudoku server, the word count     *)
(* receiver and the memcached session.  A word of a line is one byte, so   *)
(* that separators that only split words are left out; CR and LF are two.  *)
(* Iterations are those of FramedCodecs.                                   *)
(***************************************************************************)
EXTENDS FramedCodecs, FiniteSets

CR == 13
LF == 10
SP == 32
Colon == 58

(* Buffer::findCRLF(): how many bytes precede the first CR LF from `from`,  *)
(* or -1.                                                                   *)
findCRLF(s, from) ==
    LET found == {i \in from .. Len(s) - 1 : s[i] = CR /\ s[i + 1] = LF}
    IN IF found = {} THEN -1 ELSE (CHOOSE i \in found : \A j \in found : i <= j) - 1

Has(s, byte) == \E i \in DOMAIN s : s[i] = byte
Before(s, byte) == SubSeq(s, 1, (CHOOSE i \in DOMAIN s : s[i] = byte /\ ~Has(SubSeq(s, 1, i - 1), byte)) - 1)
After(s, byte) == From(s, Len(Before(s, byte)) + 2)

-----------------------------------------------------------------------------
(* HttpContext::parseRequest(), and HttpServer::onMessage() after it.       *)
Methods == {71, 80}       \* GET, POST, ...
Http10 == 48
Http11 == 49
Connection == 99          \* the header field
Close == 100              \* its values
KeepAlive == 101

HttpNew == [state_ |-> "kExpectRequestLine", version |-> 0, headers_ |-> <<>>]

processRequestLine(line) ==
    /\ Has(line, SP) /\ Before(line, SP) \in {<<m>> : m \in Methods}
    /\ Has(After(line, SP), SP)
    /\ After(After(line, SP), SP) \in {<<Http10>>, <<Http11>>}

HttpParseRequest(ctx, s) ==
    LET crlf == findCRLF(s, 1)
        line == SubSeq(s, 1, crlf)
    IN CASE ctx.state_ = "kExpectRequestLine" /\ crlf >= 0 ->
              IF processRequestLine(line)
              THEN Iteration([ctx EXCEPT !.state_ = "kExpectHeaders", !.version = line[Len(line)]],
                             crlf + 2, <<>>, TRUE)
              ELSE Fail(ctx, "400")
         [] ctx.state_ = "kExpectHeaders" /\ crlf >= 0 ->
              IF Has(line, Colon)
              THEN Iteration([ctx EXCEPT !.headers_ =
                                  Append(@, <<Before(line, Colon), After(line, Colon)>>)],
                             crlf + 2, <<>>, TRUE)
              ELSE Iteration([ctx EXCEPT !.state_ = "kGotAll"], crlf + 2, <<>>, FALSE)
         [] OTHER -> Break(ctx)

(* onRequest(): a response, and shutdown() for a connection to be closed.   *)
HttpOnRequest(ctx) ==
    LET last == {i \in DOMAIN ctx.headers_ : ctx.headers_[i][1] = <<Connection>>}
        value == IF last = {} THEN <<>>
                 ELSE ctx.headers_[CHOOSE i \in last : \A j \in last : j <= i][2]
        close == value = <<Close>> \/ (ctx.version = Http10 /\ value # <<KeepAlive>>)
    IN <<<<"response">>>> \o IF close THEN <<<<"shutdown">>>> ELSE <<>>

HttpCallback(ctx) ==
    IF ctx.state_ = "kGotAll"
    THEN Iteration(HttpNew, 0, HttpOnRequest(ctx), FALSE)
    ELSE Break(ctx)

-----------------------------------------------------------------------------
(* The hub: parseMessage() and the loop of PubSubServer::onMessage().       *)
Pub == 112
Sub == 115
Unsub == 117

HubOnMessage(ctx, s) ==
    LET crlf == findCRLF(s, 1)
        line == SubSeq(s, 1, crlf)
        cmd == Before(line, SP)
        topic == After(line, SP)
        end == findCRLF(s, crlf + 3)
    IN CASE crlf < 0 -> Break(ctx)
         [] crlf >= 0 /\ ~Has(line, SP) -> Fail(ctx, "no topic")
         [] OTHER ->
              IF cmd = <<Pub>>
              THEN IF end < 0 THEN Break(ctx)
                   ELSE Iteration(ctx, end + 2, <<<<"pub", topic, SubSeq(s, crlf + 3, end)>>>>, TRUE)
              ELSE IF cmd \in {<<Sub>>, <<Unsub>>}
                   THEN Iteration(ctx, crlf + 2, <<<<"sub or unsub", cmd, topic>>>>, TRUE)
                   ELSE Iteration(ctx, crlf + 2, <<<<"shutdown">>>>, FALSE)

-----------------------------------------------------------------------------
(* The sudoku server: "id:puzzle" or "puzzle"; a puzzle is one byte long.   *)
kCells == 1
LongestLine == 8   \* 100 in the code

SudokuOnMessage(ctx, s) ==
    LET crlf == findCRLF(s, 1)
        line == SubSeq(s, 1, crlf)
        id == IF Has(line, Colon) THEN Before(line, Colon) ELSE <<>>
        puzzle == IF Has(line, Colon) THEN After(line, Colon) ELSE line
    IN IF Len(s) < kCells + 2 THEN Break(ctx)
       ELSE IF crlf >= 0
            THEN IF Len(puzzle) = kCells
                 THEN Iteration(ctx, crlf + 2, <<<<"solved", id, puzzle>>>>, TRUE)
                 ELSE Iteration(ctx, crlf + 2, <<<<"Bad Request!">>, <<"shutdown">>>>, FALSE)
            ELSE IF Len(s) > LongestLine THEN Fail(ctx, "Id too long!")
            ELSE Break(ctx)

-----------------------------------------------------------------------------
(* The word count receiver adds up the counts of a word.                    *)
WordCountNew == [w \in {1, 2} |-> 0]

WordCountOnMessage(ctx, s) ==
    LET crlf == findCRLF(s, 1)
        line == SubSeq(s, 1, crlf)
        word == Before(line, 9)
        cnt == After(line, 9)
    IN IF crlf < 0 THEN Break(ctx)
       ELSE IF Has(line, 9)
            THEN Iteration([ctx EXCEPT ![word[1]] = @ + cnt[1]], crlf + 2, <<>>, TRUE)
            ELSE Iteration(ctx, crlf + 2, <<<<"shutdown">>>>, TRUE)
=============================================================================
