----------------------------- MODULE Memcached -----------------------------
(***************************************************************************)
(* examples/memcached/server: a Session reads commands and values from its *)
(* connection, and MemcacheServer keeps the items.  A word of a command    *)
(* line is one byte; flags and expiry times are left out, since the server *)
(* only hands the flags back.                                              *)
(***************************************************************************)
EXTENDS TextCodecs

CONSTANTS
    MaxValue,       \* the longest value that is stored, 1024*1024 in the code
    LongestCommand  \* 1024 in the code

Set == 115
Add == 97
Replace == 114
Append_ == 112
Prepend == 101
Cas == 99
Get == 103
Gets == 71
Delete == 100
Version == 118
Quit == 113
Noreply == 110

Updates == {Set, Add, Replace, Append_, Prepend, Cas}

NoItem == [key |-> 0, needed |-> 0, data |-> <<>>, cas |-> 0]
MemcachedNew ==
    [state_ |-> "kNewCommand", noreply_ |-> FALSE, policy_ |-> 0, currItem_ |-> NoItem,
     bytesToDiscard_ |-> 0, items |-> <<>>, g_cas |-> 0]

resetRequest(ctx) ==
    [ctx EXCEPT !.noreply_ = FALSE, !.policy_ = 0, !.currItem_ = NoItem, !.bytesToDiscard_ = 0]

reply(ctx, msg) == IF ctx.noreply_ THEN <<>> ELSE <<<<msg>>>>

-----------------------------------------------------------------------------
(* MemcacheServer: the items are a function of their keys.                  *)
deleteItem(ctx, key) ==
    [ctx EXCEPT !.items = [k \in DOMAIN @ \ {key} |-> @[k]]]

storeItem(ctx, item, policy) ==
    LET exists == item.key \in DOMAIN ctx.items
        old == ctx.items[item.key]
        Store(value) == [ok |-> TRUE, exists |-> exists,
                         ctx |-> [ctx EXCEPT !.g_cas = @ + 1,
                                             !.items = (item.key :> [value |-> value,
                                                                     cas |-> ctx.g_cas + 1]) @@ @]]
        value == SubSeq(item.data, 1, Len(item.data) - 2)
    IN CASE policy = Set \/ (policy = Add /\ ~exists) \/ (policy = Replace /\ exists) -> Store(value)
         [] policy = Append_ /\ exists -> Store(old.value \o value)
         [] policy = Prepend /\ exists -> Store(value \o old.value)
         [] policy = Cas /\ exists /\ old.cas = item.cas -> Store(value)
         [] OTHER -> [ok |-> FALSE, exists |-> exists, ctx |-> ctx]

-----------------------------------------------------------------------------
(* processRequest(): what the line adds to the output and the context, with *)
(* `done` for its result.                                                   *)
Processed(ctx, out, done) == [ctx |-> ctx, out |-> out, done |-> done]

doUpdate(ctx, args) ==
    LET policy == args[1]
        good == Len(args) >= (IF policy = Cas THEN 4 ELSE 3)
        key == args[2]
        bytes == args[3]
    IN IF ~good THEN Processed(ctx, reply(ctx, "CLIENT_ERROR"), TRUE)
       ELSE IF bytes > MaxValue
       THEN Processed([deleteItem(ctx, key) EXCEPT !.policy_ = policy, !.state_ = "kDiscardValue",
                                                   !.bytesToDiscard_ = bytes + 2],
                      reply(ctx, "SERVER_ERROR"), FALSE)
       ELSE Processed([ctx EXCEPT !.policy_ = policy, !.state_ = "kReceiveValue",
                                  !.currItem_ = [key |-> key, needed |-> bytes + 2, data |-> <<>>,
                                                 cas |-> IF policy = Cas THEN args[4] ELSE 0]],
                      <<>>, FALSE)

doDelete(ctx, args) ==
    IF Len(args) > 2 /\ args[3] # 0 THEN Processed(ctx, reply(ctx, "CLIENT_ERROR"), TRUE)
    ELSE Processed(deleteItem(ctx, args[2]),
                   reply(ctx, IF args[2] \in DOMAIN ctx.items THEN "DELETED" ELSE "NOT_FOUND"), TRUE)

doGet(ctx, args) ==
    LET keys == SelectSeq(Tail(args), LAMBDA k : k \in DOMAIN ctx.items)
    IN [i \in DOMAIN keys |->
            LET item == ctx.items[keys[i]]
            IN <<"VALUE", keys[i], item.value>> \o IF args[1] = Gets THEN <<item.cas>> ELSE <<>>]
       \o <<<<"END">>>>

processRequest(ctx0, line) ==
    LET noreply == line # <<>> /\ Last(line) = Noreply
        ctx == [ctx0 EXCEPT !.noreply_ = noreply]
        args == IF noreply THEN Front(line) ELSE line
    IN IF args = <<>> THEN Processed(ctx, reply(ctx, "ERROR"), TRUE)
       ELSE CASE args[1] \in Updates -> doUpdate(ctx, args)
              [] args[1] \in {Get, Gets} -> Processed(ctx, doGet(ctx, args), TRUE)
              [] args[1] = Delete -> doDelete(ctx, args)
              [] args[1] = Version -> Processed(ctx, reply(ctx, "VERSION"), TRUE)
              [] args[1] = Quit -> Processed(ctx, <<<<"shutdown">>>>, TRUE)
              [] OTHER -> Processed(ctx, reply(ctx, "ERROR"), TRUE)

-----------------------------------------------------------------------------
(* receiveValue() and discardValue() take what has arrived of the value.    *)
receiveValue(ctx, s) ==
    LET avail == IF Len(s) < ctx.currItem_.needed THEN Len(s) ELSE ctx.currItem_.needed
        item == [ctx.currItem_ EXCEPT !.needed = @ - avail, !.data = @ \o SubSeq(s, 1, avail)]
        endsWithCRLF == From(item.data, Len(item.data) - 1) = <<CR, LF>>
        stored == storeItem(ctx, item, ctx.policy_)
        answer == CASE ~endsWithCRLF -> "CLIENT_ERROR"
                    [] endsWithCRLF /\ stored.ok -> "STORED"
                    [] OTHER -> IF ctx.policy_ # Cas THEN "NOT_STORED"
                                ELSE IF stored.exists THEN "EXISTS" ELSE "NOT_FOUND"
        after == IF endsWithCRLF THEN stored.ctx ELSE ctx
    IN IF item.needed > 0 THEN Iteration([ctx EXCEPT !.currItem_ = item], avail, <<>>, TRUE)
       ELSE Iteration([resetRequest(after) EXCEPT !.state_ = "kNewCommand"], avail,
                      reply(ctx, answer), TRUE)

discardValue(ctx, s) ==
    IF Len(s) < ctx.bytesToDiscard_
    THEN Iteration([ctx EXCEPT !.bytesToDiscard_ = @ - Len(s)], Len(s), <<>>, TRUE)
    ELSE Iteration([resetRequest(ctx) EXCEPT !.state_ = "kNewCommand"], ctx.bytesToDiscard_,
                   <<>>, TRUE)

SessionOnMessage(ctx, s) ==
    LET crlf == findCRLF(s, 1)
        p == processRequest(ctx, SubSeq(s, 1, crlf))
    IN IF s = <<>> THEN Break(ctx)
       ELSE CASE ctx.state_ = "kReceiveValue" -> receiveValue(ctx, s)
              [] ctx.state_ = "kDiscardValue" -> discardValue(ctx, s)
              [] OTHER ->
                   IF crlf < 0
                   THEN IF Len(s) > LongestCommand THEN Fail(ctx, "too long") ELSE Break(ctx)
                   ELSE Iteration(IF p.done THEN resetRequest(p.ctx) ELSE p.ctx, crlf + 2, p.out, TRUE)
=============================================================================
