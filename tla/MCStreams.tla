------------------------------ MODULE MCStreams ----------------------------
(* Streams with the requests its peers send.                                *)
EXTENDS Streams

MCTag == <<5, 6>>
MCMessages == {<<>>, <<1>>, <<3, 2, 1>>}

Line(words) == words \o <<CR, LF>>

Bad(p) ==
    CASE p = "length" -> {<<7, 7>>, <<3, 1>>}
      [] p = "lite" -> {<<0, 4, 6, 1, 0, 0>>, <<0, 4, 5, 5, 1, 3>>, <<3, 0, 5, 6, 1, 4>>}
      [] p = "protobuf" -> {<<0, 6, 0, 2, 3, 0, 0, 6>>, <<0, 6, 0, 7, 4, 0, 1, 4>>}

Requests(p) ==
    CASE p \in {"length", "lite", "protobuf"} -> {Encoded(p, m) : m \in MCMessages} \cup Bad(p)
      [] p = "http" -> {Line(<<71, SP, 1, SP, v>>) \o Line(<<>>) : v \in {Http10, Http11}}
            \cup {Line(<<71, SP, 1, SP, Http11>>) \o Line(<<Connection, Colon, Close>>) \o Line(<<>>),
                  Line(<<71, SP, 1, SP, Http10>>) \o Line(<<2, Colon, 1>>)
                      \o Line(<<Connection, Colon, KeepAlive>>) \o Line(<<>>),
                  Line(<<1, SP, 1, SP, Http11>>)}
      [] p = "fastcgi" ->
            {<<1, 2, 0, 1, keep>> \o <<4, 4, 1, 1, 1, 2, 3, 0>> \o <<4, 0, 0>> \o body \o <<5, 0, 0>> :
                 keep \in {0, 1}, body \in {<<>>, <<5, 1, 0, 3>>}}
      [] p = "hub" -> {Line(<<Pub, SP, 1>>) \o Line(<<2>>), Line(<<Sub, SP, 1>>),
                       Line(<<Unsub, SP, 1>>), Line(<<3, SP, 1>>), Line(<<Sub>>)}
      [] p = "sudoku" -> {Line(<<1>>), Line(<<1, Colon, 2>>), Line(<<1, 2, Colon, 3>>), Line(<<1, 2>>),
                          Line(<<>>)}
      [] p = "wordcount" -> {Line(<<w, 9, n>>) : w \in {1, 2}, n \in {1, 3}} \cup {Line(<<1>>)}
      [] p = "memcached" ->
            {Line(<<cmd, 1, 1>>) \o Line(<<5>>) : cmd \in {Set, Add, Replace, Append_, Prepend}}
            \cup {Line(<<Cas, 1, 1, n>>) \o Line(<<6>>) : n \in {1, 2}}
            \cup {Line(<<Gets, 1, 2>>), Line(<<Get, 1>>), Line(<<Delete, 1>>), Line(<<Version>>),
                  Line(<<Quit>>), Line(<<Set, 1>>), Line(<<>>),
                  Line(<<Set, 2, 2, Noreply>>) \o Line(<<CR, LF>>),
                  Line(<<Set, 1, 3>>) \o Line(<<5, 5, 5>>),
                  Line(<<Set, 1, 1>>) \o <<5, 5, 5>>}

MCScripts(p) == UNION {[1 .. n -> Requests(p)] : n \in 1 .. (IF p = "memcached" THEN 2 ELSE 3)}
=============================================================================
