------------------------ MODULE TcpConnection_proof -------------------------
(***************************************************************************)
(* What the functions of a connection make of its record, what a push and  *)
(* a pop make of a queue of functors, and what a step of TcpServer makes of *)
(* each connection: the facts that the other proofs about TcpServer rest on. *)
(***************************************************************************)
EXTENDS TcpServer, SequenceTheorems, TLAPS

(* A message that is cut in two is still the message.                       *)
LEMMA RestOf ==
    ASSUME NEW S, NEW s \in Seq(S), NEW p \in Taken(s)
    PROVE  p \in Seq(S) /\ Rest(s, p) \in Seq(S) /\ p \o Rest(s, p) = s
<1>1. PICK n \in 0 .. Len(s) : p = SubSeq(s, 1, n)
  BY Zenon DEF Taken
<1>2. n \in Nat /\ Len(s) \in Nat /\ n <= Len(s)
  BY LenProperties
<1>3. p \in Seq(S) /\ Len(p) = n
  BY <1>1, <1>2, SubSeqProperties
<1>4. Rest(s, p) = SubSeq(s, n + 1, Len(s))
  BY <1>3, Zenon DEF Rest
<1>5. Rest(s, p) \in Seq(S)
  BY <1>2, <1>4, SubSeqProperties
<1>6. p \o Rest(s, p) = s
  <2>1. p \o Rest(s, p) = SubSeq(s, 1, Len(s))
    BY <1>1, <1>2, <1>4, ConcatAdjacentSubSeq, SMTT(30)
  <2> QED
    BY <2>1, SubSeqFull, Zenon
<1> QED
  BY <1>3, <1>5, <1>6, Zenon

(* Channel::update changes nothing but what the poller is told.             *)
LEMMA UpdateOf ==
    ASSUME NEW D, NEW k \in Connection(D), NEW ev \in SUBSET {"in", "out"}
    PROVE  /\ Update(k, ev) \in Connection(D)
           /\ Update(k, ev).events_ = ev
           /\ k.polled /\ ev = {} => ~Update(k, ev).polled
           /\ ev # {} => Update(k, ev).polled
           /\ Update(k, ev).state_ = k.state_
           /\ Update(k, ev).reading_ = k.reading_
           /\ Update(k, ev).outputBuffer_ = k.outputBuffer_
           /\ Update(k, ev).written = k.written
           /\ Update(k, ev).accepted = k.accepted
           /\ Update(k, ev).shutdown = k.shutdown
           /\ Update(k, ev).callback = k.callback
<1>1. PICK yes \in BOOLEAN : yes = TRUE
  BY Zenon
<1>2. PICK p \in BOOLEAN : p = ~(k.polled /\ ev = {})
  BY Zenon
<1>3. Update(k, ev) = [k EXCEPT !.events_ = ev, !.added = yes, !.polled = p]
  BY <1>1, <1>2, Zenon DEF Update, Connection
<1> QED
  BY <1>2, <1>3 DEF Connection

SameBytes(k, m) ==
    /\ m.outputBuffer_ = k.outputBuffer_ /\ m.written = k.written
    /\ m.accepted = k.accepted /\ m.shutdown = k.shutdown

(* What is in the output buffer is what was accepted and not yet written.   *)
Ordered(k) == k.written \o k.outputBuffer_ = k.accepted

(* The channel waits for POLLOUT exactly when there is output, and the      *)
(* socket was shut down only after it.                                      *)
Drained(k) ==
    /\ k.shutdown => k.outputBuffer_ = <<>>
    /\ "out" \in k.events_ <=> k.outputBuffer_ # <<>>

LEMMA CallbackOf ==
    ASSUME NEW D, NEW k \in Connection(D), NEW up
    PROVE  LET m == IF up THEN CallUp(k) ELSE CallDown(k) IN
           /\ m \in Connection(D)
           /\ SameBytes(k, m) /\ m.state_ = k.state_ /\ m.reading_ = k.reading_
           /\ m.events_ = k.events_ /\ m.polled = k.polled /\ m.added = k.added
           /\ m.callback = IF up THEN (IF k.callback = "none" THEN "up" ELSE "again")
                           ELSE (IF k.callback = "up" THEN "down" ELSE "again")
BY Zenon DEF CallUp, CallDown, Connection, SameBytes

LEMMA StateOf ==
    ASSUME NEW D, NEW k \in Connection(D), NEW s \in States
    PROVE  LET m == [k EXCEPT !.state_ = s] IN
           /\ m \in Connection(D) /\ m.state_ = s
           /\ SameBytes(k, m) /\ m.reading_ = k.reading_ /\ m.events_ = k.events_
           /\ m.polled = k.polled /\ m.added = k.added /\ m.callback = k.callback
BY Zenon DEF Connection, SameBytes

(* connectEstablished(): the channel waits for input.                       *)
LEMMA EstablishOf ==
    ASSUME NEW D, NEW k \in Connection(D)
    PROVE  LET m == ConnectEstablished(k) IN
           /\ m \in Connection(D) /\ m.state_ = kConnected
           /\ SameBytes(k, m) /\ m.reading_ = k.reading_
           /\ m.events_ = k.events_ \cup {"in"} /\ m.polled
           /\ m.callback = IF k.callback = "none" THEN "up" ELSE "again"
<1>1. PICK a \in Connection(D) :
        /\ a = [k EXCEPT !.state_ = kConnected] /\ a.state_ = kConnected
        /\ SameBytes(k, a) /\ a.reading_ = k.reading_ /\ a.events_ = k.events_
        /\ a.callback = k.callback
  BY StateOf, Zenon DEF States
<1>2. a.events_ \cup {"in"} \in SUBSET {"in", "out"}
  BY Zenon DEF Connection
<1>3. PICK b \in Connection(D) :
        /\ b = enableReading(a) /\ b.events_ = a.events_ \cup {"in"} /\ b.polled
        /\ b.state_ = a.state_ /\ SameBytes(a, b) /\ b.reading_ = a.reading_
        /\ b.callback = a.callback
  BY <1>2, UpdateOf DEF enableReading, SameBytes
<1>4. ConnectEstablished(k) = CallUp(b)
  BY <1>1, <1>3, Zenon DEF ConnectEstablished
<1>5. /\ CallUp(b) \in Connection(D)
      /\ SameBytes(b, CallUp(b)) /\ CallUp(b).state_ = b.state_
      /\ CallUp(b).reading_ = b.reading_ /\ CallUp(b).events_ = b.events_
      /\ CallUp(b).polled = b.polled
      /\ CallUp(b).callback = IF b.callback = "none" THEN "up" ELSE "again"
  BY CallbackOf, Zenon
<1>6. CallUp(b).polled
  BY <1>3, <1>5, Zenon
<1>7. CallUp(b).events_ = k.events_ \cup {"in"}
  BY <1>1, <1>3, <1>5, Zenon
<1> QED
  BY <1>1, <1>3, <1>4, <1>5, <1>6, <1>7 DEF SameBytes

(* handleClose(): the channel waits for nothing.                            *)
LEMMA CloseOf ==
    ASSUME NEW D, NEW k \in Connection(D)
    PROVE  LET m == HandleClose(k) IN
           /\ m \in Connection(D) /\ m.state_ = kDisconnected
           /\ SameBytes(k, m) /\ m.reading_ = k.reading_
           /\ m.events_ = {} /\ (k.polled => ~m.polled)
           /\ m.callback = IF k.callback = "up" THEN "down" ELSE "again"
<1>1. PICK a \in Connection(D) :
        /\ a = [k EXCEPT !.state_ = kDisconnected] /\ a.state_ = kDisconnected
        /\ SameBytes(k, a) /\ a.reading_ = k.reading_ /\ a.polled = k.polled
        /\ a.callback = k.callback
  BY StateOf, Zenon DEF States
<1>2. {} \in SUBSET {"in", "out"}
  BY Zenon
<1>3. PICK b \in Connection(D) :
        /\ b = disableAll(a) /\ b.events_ = {} /\ (a.polled => ~b.polled)
        /\ b.state_ = a.state_ /\ SameBytes(a, b) /\ b.reading_ = a.reading_
        /\ b.callback = a.callback
  BY <1>2, UpdateOf DEF disableAll, SameBytes
<1>4. HandleClose(k) = CallDown(b)
  BY <1>1, <1>3, Zenon DEF HandleClose
<1>5. /\ CallDown(b) \in Connection(D)
      /\ SameBytes(b, CallDown(b)) /\ CallDown(b).state_ = b.state_
      /\ CallDown(b).reading_ = b.reading_ /\ CallDown(b).events_ = b.events_
      /\ CallDown(b).polled = b.polled
      /\ CallDown(b).callback = IF b.callback = "up" THEN "down" ELSE "again"
  BY CallbackOf, Zenon
<1> QED
  BY <1>1, <1>3, <1>4, <1>5 DEF SameBytes

(* connectDestroyed() with channel_->remove().                              *)
LEMMA DestroyOf ==
    ASSUME NEW D, NEW k \in Connection(D)
    PROVE  LET m == Removed(ConnectDestroyed(k)) IN
           /\ m \in Connection(D) /\ ConnectDestroyed(k) \in Connection(D)
           /\ SameBytes(k, m) /\ m.reading_ = k.reading_
           /\ ~m.added /\ ~m.polled
           /\ IF k.state_ = kConnected
              THEN /\ m.state_ = kDisconnected /\ m.events_ = {}
                   /\ ConnectDestroyed(k).events_ = {}
                   /\ m.callback = IF k.callback = "up" THEN "down" ELSE "again"
              ELSE /\ m.state_ = k.state_ /\ m.events_ = k.events_ /\ m.callback = k.callback
                   /\ ConnectDestroyed(k).events_ = k.events_
<1>1. PICK a \in Connection(D) :
        /\ a = ConnectDestroyed(k)
        /\ SameBytes(k, a) /\ a.reading_ = k.reading_
        /\ IF k.state_ = kConnected
           THEN /\ a.state_ = kDisconnected /\ a.events_ = {}
                /\ a.callback = IF k.callback = "up" THEN "down" ELSE "again"
           ELSE a = k
  <2>1. CASE k.state_ = kConnected
    BY <2>1, CloseOf, Zenon DEF ConnectDestroyed
  <2>2. CASE k.state_ # kConnected
    BY <2>2, Zenon DEF ConnectDestroyed, SameBytes
  <2> QED
    BY <2>1, <2>2, Zenon
<1>2. PICK no \in BOOLEAN : no = FALSE
  BY Zenon
<1>3. Removed(a) = [[a EXCEPT !.added = no] EXCEPT !.polled = no]
  BY <1>2, Zenon DEF Removed
<1>4. /\ Removed(a) \in Connection(D)
      /\ Removed(a).added = no /\ Removed(a).polled = no
      /\ SameBytes(a, Removed(a)) /\ Removed(a).state_ = a.state_
      /\ Removed(a).reading_ = a.reading_ /\ Removed(a).events_ = a.events_
      /\ Removed(a).callback = a.callback
  BY <1>3, Zenon DEF Connection, SameBytes
<1>5. ~Removed(a).added /\ ~Removed(a).polled
  BY <1>2, <1>4, Zenon
<1> QED
  BY <1>1, <1>4, <1>5, Zenon DEF SameBytes

(* sendInLoop() appends to the bytes that wait, and writes directly only    *)
(* when none do.                                                            *)
LEMMA SendOf ==
    ASSUME NEW S, NEW k \in Connection(Seq(S)), NEW data \in Seq(S), NEW m \in SendInLoop(k, data)
    PROVE  /\ m \in Connection(Seq(S))
           /\ m.state_ = k.state_ /\ m.reading_ = k.reading_ /\ m.callback = k.callback
           /\ m.shutdown = k.shutdown
           /\ "in" \in m.events_ <=> "in" \in k.events_
           /\ k.polled => m.polled
           /\ k.state_ = kDisconnected => m = k
           /\ Ordered(k) => Ordered(m)
           /\ Drained(k) => Drained(m)
<1> DEFINE direct == ~isWriting(k) /\ k.outputBuffer_ = <<>>
<1>1. CASE k.state_ = kDisconnected \/ (direct /\ Broken(k))
  BY <1>1, Zenon DEF SendInLoop
<1>2. CASE ~(k.state_ = kDisconnected \/ (direct /\ Broken(k)))
  <2>1. PICK p \in IF direct THEN Taken(data) ELSE {<<>>} :
          m = LET Sent == [k EXCEPT !.written = @ \o p, !.accepted = @ \o data,
                                    !.outputBuffer_ = @ \o Rest(data, p)]
              IN IF Rest(data, p) # <<>> /\ ~isWriting(k) THEN enableWriting(Sent) ELSE Sent
    BY <1>2, Zenon DEF SendInLoop
  <2>2. p \in Taken(data)
    <3>1. SubSeq(data, 1, 0) = <<>> /\ 0 \in 0 .. Len(data)
      BY SubSeqEmpty, LenProperties
    <3> QED
      BY <2>1, <3>1, Zenon DEF Taken
  <2> DEFINE r == Rest(data, p)
  <2>3. p \in Seq(S) /\ r \in Seq(S) /\ p \o r = data
    BY <2>2, RestOf, Zenon
  <2> HIDE DEF r
  <2>4. /\ k.written \in Seq(S) /\ k.outputBuffer_ \in Seq(S) /\ k.accepted \in Seq(S)
        /\ k.written \o p \in Seq(S) /\ k.accepted \o data \in Seq(S)
        /\ k.outputBuffer_ \o r \in Seq(S)
    BY <2>3, ConcatProperties, Zenon DEF Connection
  <2> DEFINE n == [k EXCEPT !.written = @ \o p, !.accepted = @ \o data, !.outputBuffer_ = @ \o r]
  <2>n. n \in Connection(Seq(S))
    BY <2>4, Zenon DEF Connection
  <2>5. PICK b \in Connection(Seq(S)) : b = n
    BY <2>n, Zenon
  <2>6. /\ b.written = k.written \o p /\ b.accepted = k.accepted \o data
        /\ b.outputBuffer_ = k.outputBuffer_ \o r
        /\ b.state_ = k.state_ /\ b.reading_ = k.reading_ /\ b.callback = k.callback
        /\ b.shutdown = k.shutdown /\ b.events_ = k.events_ /\ b.polled = k.polled
    BY <2>4, <2>5, Zenon DEF Connection
  <2>7. m = IF r # <<>> /\ "out" \notin k.events_ THEN enableWriting(b) ELSE b
    BY <2>1, <2>5, Zenon DEF isWriting, r
  <2>8. PICK ev \in SUBSET {"in", "out"} : ev = b.events_ \cup {"out"}
    <3>1. b.events_ \cup {"out"} \in SUBSET {"in", "out"}
      BY <2>6, Zenon DEF Connection
    <3> QED
      BY <3>1, Zenon
  <2>9. /\ enableWriting(b) \in Connection(Seq(S))
        /\ enableWriting(b).events_ = b.events_ \cup {"out"}
        /\ enableWriting(b).polled
        /\ enableWriting(b).state_ = b.state_ /\ enableWriting(b).reading_ = b.reading_
        /\ enableWriting(b).callback = b.callback
        /\ SameBytes(b, enableWriting(b))
    <3>1. enableWriting(b) = Update(b, ev) /\ ev # {}
      BY <2>8, Zenon DEF enableWriting
    <3>2. /\ Update(b, ev) \in Connection(Seq(S)) /\ Update(b, ev).events_ = ev
          /\ ev # {} => Update(b, ev).polled
          /\ Update(b, ev).state_ = b.state_ /\ Update(b, ev).reading_ = b.reading_
          /\ Update(b, ev).callback = b.callback
          /\ SameBytes(b, Update(b, ev))
      BY UpdateOf DEF SameBytes
    <3> QED
      BY <2>8, <3>1, <3>2, Zenon
  <2>10. SameBytes(b, m)
    BY <2>7, <2>9, Zenon DEF SameBytes
  <2>11. Ordered(k) => Ordered(m)
    <3> SUFFICES ASSUME Ordered(k)
                 PROVE  (k.written \o p) \o (k.outputBuffer_ \o r) = k.accepted \o data
      BY <2>6, <2>10, Zenon DEF SameBytes, Ordered
    <3>1. PICK w \in Seq(S), o \in Seq(S), q \in Seq(S), rest \in Seq(S) :
            w = k.written /\ o = k.outputBuffer_ /\ q = p /\ rest = r
      BY <2>3, <2>4, Zenon
    <3>2. /\ (w \o q) \o rest = w \o (q \o rest)
          /\ w \o <<>> = w /\ <<>> \o rest = rest
      <4>1. (w \o q) \o rest = w \o (q \o rest)
        BY ConcatAssociative, SMTT(60)
      <4> QED
        BY <4>1, ConcatEmptySeq, Zenon
    <3>3. (w \o o) \o rest = w \o (o \o rest)
      BY ConcatAssociative, SMTT(60)
    <3>4. (w \o q) \o (o \o rest) = (w \o o) \o (q \o rest)
      <4>1. CASE o = <<>>
        BY <3>2, <4>1, Zenon
      <4>2. CASE q = <<>>
        BY <3>2, <3>3, <4>2, Zenon
      <4> QED
        BY <2>1, <3>1, <4>1, <4>2, Zenon
    <3> QED
      BY <2>3, <3>1, <3>4, Zenon DEF Ordered
  <2>12. Drained(k) => Drained(m)
    <3> SUFFICES ASSUME Drained(k) PROVE Drained(m)
      BY Zenon
    <3>1. k.outputBuffer_ \o r = <<>> <=> k.outputBuffer_ = <<>> /\ r = <<>>
      BY <2>3, <2>4, ConcatEqualIffEmpty
    <3>2. ~(k.outputBuffer_ = <<>> /\ k.shutdown)
      BY <1>2, Zenon DEF Drained, isWriting, Broken
    <3>3. "out" \in m.events_ <=> k.outputBuffer_ \o r # <<>>
      BY <2>6, <2>7, <2>9, <3>1, Zenon DEF Drained
    <3>4. ~m.shutdown /\ m.outputBuffer_ = k.outputBuffer_ \o r
      BY <2>6, <2>10, <3>2, Zenon DEF SameBytes, Drained
    <3> QED
      BY <3>3, <3>4, Zenon DEF Drained
  <2>13. k.polled => m.polled
    BY <2>6, <2>7, <2>9, Zenon
  <2>14. "in" \in m.events_ <=> "in" \in k.events_
    BY <2>6, <2>7, <2>9, Zenon
  <2>15. /\ m \in Connection(Seq(S))
         /\ m.state_ = k.state_ /\ m.reading_ = k.reading_ /\ m.callback = k.callback
         /\ m.shutdown = k.shutdown
    BY <2>6, <2>7, <2>9, Zenon DEF SameBytes
  <2> QED
    BY <1>2, <2>11, <2>12, <2>13, <2>14, <2>15, Zenon
<1> QED
  BY <1>1, <1>2, Zenon

(* shutdownInLoop() waits for the output.                                   *)
LEMMA ShutOf ==
    ASSUME NEW D, NEW k \in Connection(D)
    PROVE  LET m == ShutdownInLoop(k) IN
           /\ m \in Connection(D)
           /\ m.state_ = k.state_ /\ m.reading_ = k.reading_ /\ m.callback = k.callback
           /\ m.events_ = k.events_ /\ m.polled = k.polled
           /\ m.outputBuffer_ = k.outputBuffer_ /\ m.written = k.written
           /\ m.accepted = k.accepted
           /\ Drained(k) => Drained(m)
<1>1. CASE isWriting(k)
  BY <1>1, Zenon DEF ShutdownInLoop
<1>2. CASE ~isWriting(k)
  <2>1. PICK yes \in BOOLEAN : yes = TRUE
    BY Zenon
  <2>2. ShutdownInLoop(k) = [k EXCEPT !.shutdown = yes]
    BY <1>2, <2>1, Zenon DEF ShutdownInLoop
  <2> QED
    BY <1>2, <2>2, Zenon DEF Connection, Drained, isWriting
<1> QED
  BY <1>1, <1>2, Zenon

(* handleWrite() takes the bytes from the front of the output buffer.       *)
LEMMA WriteOf ==
    ASSUME NEW S, NEW k \in Connection(Seq(S)), NEW m \in HandleWrite(k)
    PROVE  /\ m \in Connection(Seq(S))
           /\ m.state_ = k.state_ /\ m.reading_ = k.reading_ /\ m.callback = k.callback
           /\ "in" \in m.events_ <=> "in" \in k.events_
           /\ k.polled /\ "in" \in k.events_ => m.polled
           /\ Ordered(k) => Ordered(m)
           /\ Drained(k) => Drained(m)
<1>1. PICK p \in Taken(k.outputBuffer_) \ {<<>>} :
        m = LET left == [k EXCEPT !.written = @ \o p, !.outputBuffer_ = Rest(@, p)]
            IN IF left.outputBuffer_ # <<>> THEN left
               ELSE IF k.state_ = kDisconnecting THEN ShutdownInLoop(disableWriting(left))
               ELSE disableWriting(left)
  BY Zenon DEF HandleWrite
<1> DEFINE r == Rest(k.outputBuffer_, p)
<1>2. k.outputBuffer_ \in Seq(S) /\ k.written \in Seq(S)
  BY Zenon DEF Connection
<1>3. p \in Seq(S) /\ r \in Seq(S) /\ p \o r = k.outputBuffer_
  BY <1>1, <1>2, RestOf, Zenon
<1> HIDE DEF r
<1>4. k.written \o p \in Seq(S)
  BY <1>2, <1>3, ConcatProperties, Zenon
<1> DEFINE n == [k EXCEPT !.written = @ \o p, !.outputBuffer_ = r]
<1>5. n \in Connection(Seq(S))
  BY <1>3, <1>4, Zenon DEF Connection
<1>6. PICK b \in Connection(Seq(S)) : b = n
  BY <1>5, Zenon
<1>7. /\ b.written = k.written \o p /\ b.outputBuffer_ = r /\ b.accepted = k.accepted
      /\ b.state_ = k.state_ /\ b.reading_ = k.reading_ /\ b.callback = k.callback
      /\ b.shutdown = k.shutdown /\ b.events_ = k.events_ /\ b.polled = k.polled
  BY <1>6, Zenon DEF Connection
<1>8. m = IF r # <<>> THEN b
          ELSE IF k.state_ = kDisconnecting THEN ShutdownInLoop(disableWriting(b))
          ELSE disableWriting(b)
  BY <1>1, <1>6, <1>7, Zenon DEF r
<1> HIDE DEF n
<1>9. PICK ev \in SUBSET {"in", "out"} : ev = b.events_ \ {"out"}
  <2>1. b.events_ \ {"out"} \in SUBSET {"in", "out"}
    BY Zenon DEF Connection
  <2> QED
    BY <2>1, Zenon
<1>10. PICK d \in Connection(Seq(S)) :
         /\ d = disableWriting(b) /\ d.events_ = ev
         /\ ev # {} => d.polled
         /\ d.state_ = b.state_ /\ d.reading_ = b.reading_ /\ d.callback = b.callback
         /\ SameBytes(b, d)
  BY <1>9, UpdateOf DEF disableWriting, SameBytes
<1>11. PICK e \in Connection(Seq(S)) :
         /\ e = IF k.state_ = kDisconnecting THEN ShutdownInLoop(d) ELSE d
         /\ e.state_ = d.state_ /\ e.reading_ = d.reading_ /\ e.callback = d.callback
         /\ e.events_ = d.events_ /\ e.polled = d.polled
         /\ e.outputBuffer_ = d.outputBuffer_ /\ e.written = d.written /\ e.accepted = d.accepted
  BY ShutOf, Zenon
<1>12. m = IF r # <<>> THEN b ELSE e
  BY <1>8, <1>10, <1>11, Zenon
<1>13. /\ m.state_ = k.state_ /\ m.reading_ = k.reading_ /\ m.callback = k.callback
       /\ m \in Connection(Seq(S))
  BY <1>7, <1>10, <1>11, <1>12, Zenon
<1>14. "in" \in m.events_ <=> "in" \in k.events_
  BY <1>7, <1>9, <1>10, <1>11, <1>12, Zenon
<1>15. k.polled /\ "in" \in k.events_ => m.polled
  <2> SUFFICES ASSUME k.polled, "in" \in k.events_ PROVE m.polled
    BY Zenon
  <2>1. ev # {}
    BY <1>7, <1>9
  <2>2. d.polled
    BY <1>10, <2>1, Zenon
  <2>3. e.polled
    BY <1>11, <2>2, Zenon
  <2>4. b.polled
    BY <1>7, Zenon
  <2> QED
    BY <1>12, <2>3, <2>4, Zenon
<1>16. m.written = k.written \o p /\ m.outputBuffer_ = r /\ m.accepted = k.accepted
  BY <1>7, <1>10, <1>11, <1>12, Zenon DEF SameBytes
<1>17. Ordered(k) => Ordered(m)
  <2>1. PICK w \in Seq(S), q \in Seq(S), rest \in Seq(S) : w = k.written /\ q = p /\ rest = r
    BY <1>2, <1>3, Zenon
  <2>2. (w \o q) \o rest = w \o (q \o rest)
    BY ConcatAssociative
  <2> QED
    BY <1>3, <1>16, <2>1, <2>2, Zenon DEF Ordered
<1>18. k.outputBuffer_ # <<>>
  BY <1>1, <1>2, <1>3, ConcatEqualIffEmpty
<1>19. Drained(k) => Drained(m)
  <2> SUFFICES ASSUME Drained(k) PROVE Drained(m)
    BY Zenon
  <2>1. ~k.shutdown /\ "out" \in k.events_
    BY <1>18, Zenon DEF Drained
  <2>2. CASE r # <<>>
    BY <1>7, <1>12, <2>1, <2>2, Zenon DEF Drained
  <2>3. CASE r = <<>>
    BY <1>7, <1>9, <1>10, <1>11, <1>12, <1>16, <2>3, Zenon DEF Drained
  <2> QED
    BY <2>2, <2>3, Zenon
<1> QED
  BY <1>13, <1>14, <1>15, <1>17, <1>19, Zenon

(* startReadInLoop() and stopReadInLoop() change only whether the channel   *)
(* waits for input, and leave reading_ telling the truth.                   *)
LEMMA ReadOf ==
    ASSUME NEW D, NEW k \in Connection(D), NEW m \in {StartReadInLoop(k), StopReadInLoop(k)}
    PROVE  /\ m \in Connection(D)
           /\ m.state_ = k.state_ /\ m.callback = k.callback
           /\ SameBytes(k, m)
           /\ "out" \in m.events_ <=> "out" \in k.events_
           /\ (k.reading_ <=> "in" \in k.events_) => (m.reading_ <=> "in" \in m.events_)
<1>1. PICK in \in SUBSET {"in", "out"}, un \in SUBSET {"in", "out"} :
        in = k.events_ \cup {"in"} /\ un = k.events_ \ {"in"}
  <2>1. k.events_ \cup {"in"} \in SUBSET {"in", "out"} /\ k.events_ \ {"in"} \in SUBSET {"in", "out"}
    BY Zenon DEF Connection
  <2> QED
    BY <2>1, Zenon
<1>2. PICK yes \in BOOLEAN, no \in BOOLEAN : yes = TRUE /\ no = FALSE
  BY Zenon
<1>3. PICK a \in Connection(D) :
         /\ a = enableReading(k) /\ a.events_ = in
         /\ a.state_ = k.state_ /\ a.callback = k.callback /\ SameBytes(k, a)
  BY <1>1, UpdateOf DEF enableReading, SameBytes
<1>4. PICK b \in Connection(D) :
         /\ b = disableReading(k) /\ b.events_ = un
         /\ b.state_ = k.state_ /\ b.callback = k.callback /\ SameBytes(k, b)
  BY <1>1, UpdateOf DEF disableReading, SameBytes
<1>5. PICK x : x = [a EXCEPT !.reading_ = yes]
  BY Zenon
<1>6. PICK y : y = [b EXCEPT !.reading_ = no]
  BY Zenon
<1>7. m \in {k, x, y}
  BY <1>2, <1>3, <1>4, <1>5, <1>6, Zenon DEF StartReadInLoop, StopReadInLoop
<1>8. /\ x \in Connection(D) /\ x.events_ = in /\ x.reading_ = yes
      /\ x.state_ = k.state_ /\ x.callback = k.callback /\ SameBytes(k, x)
  BY <1>3, <1>5 DEF Connection, SameBytes
<1>9. /\ y \in Connection(D) /\ y.events_ = un /\ y.reading_ = no
      /\ y.state_ = k.state_ /\ y.callback = k.callback /\ SameBytes(k, y)
  BY <1>4, <1>6 DEF Connection, SameBytes
<1>10. (x.reading_ <=> "in" \in x.events_) /\ ("out" \in x.events_ <=> "out" \in k.events_)
  BY <1>1, <1>2, <1>8, Zenon
<1>11. (y.reading_ <=> "in" \in y.events_) /\ ("out" \in y.events_ <=> "out" \in k.events_)
  BY <1>1, <1>2, <1>9, Zenon
<1>12. CASE m = k
  BY <1>12, Zenon DEF SameBytes
<1>13. CASE m = x
  BY <1>8, <1>10, <1>13, Zenon
<1>14. CASE m = y
  BY <1>9, <1>11, <1>14, Zenon
<1> QED
  BY <1>7, <1>12, <1>13, <1>14, Zenon

(* What the peer does is not in what is said of a connection.               *)
LEMMA PeerOf ==
    ASSUME NEW D, NEW k \in Connection(D), NEW m,
           \/ \E i \in BOOLEAN : m = [k EXCEPT !.input = i]
           \/ \E p \in Peer : m = [k EXCEPT !.peer = p]
    PROVE  /\ m \in Connection(D) /\ SameBytes(k, m)
           /\ m.state_ = k.state_ /\ m.reading_ = k.reading_ /\ m.events_ = k.events_
           /\ m.polled = k.polled /\ m.added = k.added /\ m.callback = k.callback
<1>1. ASSUME NEW i \in BOOLEAN, m = [k EXCEPT !.input = i]
      PROVE  /\ m \in Connection(D) /\ SameBytes(k, m)
             /\ m.state_ = k.state_ /\ m.reading_ = k.reading_ /\ m.events_ = k.events_
             /\ m.polled = k.polled /\ m.added = k.added /\ m.callback = k.callback
  BY <1>1, Zenon DEF Connection, SameBytes
<1>2. ASSUME NEW p \in Peer, m = [k EXCEPT !.peer = p]
      PROVE  /\ m \in Connection(D) /\ SameBytes(k, m)
             /\ m.state_ = k.state_ /\ m.reading_ = k.reading_ /\ m.events_ = k.events_
             /\ m.polled = k.polled /\ m.added = k.added /\ m.callback = k.callback
  BY <1>2, Zenon DEF Connection, SameBytes
<1> QED
  BY <1>1, <1>2, Zenon

-----------------------------------------------------------------------------
(***************************************************************************)
(* A queue of functors, each with its name f and its connection c.         *)
(***************************************************************************)

(* Queues: what a push, a pop and both do to the order.                     *)
LEMMA AppendQ ==
    ASSUME NEW F, NEW b \in Seq(F), NEW p \in Seq(F), NEW x \in F
    PROVE  b \o Append(p, x) = Append(b \o p, x) /\ Append(b \o p, x) \in Seq(F)
<1>1. Append(p, x) = p \o <<x>> /\ <<x>> \in Seq(F)
  BY AppendIsConcat
<1>2. b \o (p \o <<x>>) = (b \o p) \o <<x>>
  BY <1>1, ConcatAssociative
<1>3. b \o p \in Seq(F)
  BY ConcatProperties, Zenon
<1> QED
  BY <1>1, <1>2, <1>3, AppendIsConcat, AppendProperties, Zenon

LEMMA TailQ ==
    ASSUME NEW F, NEW b \in Seq(F), NEW p \in Seq(F), b # <<>>
    PROVE  /\ Tail(b) \o p = Tail(b \o p) /\ Head(b \o p) = Head(b) /\ b \o p # <<>>
           /\ Head(b) \in F /\ Tail(b) \in Seq(F)
<1>1. Head(b) \in F /\ Tail(b) \in Seq(F) /\ Len(b) \in Nat \ {0} /\ Len(p) \in Nat
      /\ Len(Tail(b)) = Len(b) - 1 /\ \A i \in 1 .. Len(Tail(b)) : Tail(b)[i] = b[i + 1]
  BY HeadTailProperties, EmptySeq, LenProperties, Zenon
<1>2. /\ b \o p \in Seq(F) /\ Len(b \o p) = Len(b) + Len(p)
      /\ \A i \in 1 .. Len(b) + Len(p) : (b \o p)[i] = IF i <= Len(b) THEN b[i] ELSE p[i - Len(b)]
  BY ConcatProperties, Zenon
<1>3. b \o p # <<>>
  BY ConcatEqualIffEmpty
<1>4. /\ Tail(b \o p) \in Seq(F) /\ Len(Tail(b \o p)) = Len(b) + Len(p) - 1
      /\ \A i \in 1 .. Len(Tail(b \o p)) : Tail(b \o p)[i] = (b \o p)[i + 1]
  BY <1>2, <1>3, HeadTailProperties
<1>5. /\ Tail(b) \o p \in Seq(F) /\ Len(Tail(b) \o p) = Len(b) - 1 + Len(p)
      /\ \A i \in 1 .. Len(b) - 1 + Len(p) :
            (Tail(b) \o p)[i] = IF i <= Len(b) - 1 THEN Tail(b)[i] ELSE p[i - (Len(b) - 1)]
  BY <1>1, ConcatProperties
<1>6. Tail(b) \o p = Tail(b \o p)
  <2>1. ASSUME NEW i \in 1 .. Len(b) - 1 + Len(p)
        PROVE  (Tail(b) \o p)[i] = Tail(b \o p)[i]
    <3>1. Tail(b \o p)[i] = (b \o p)[i + 1] /\ i + 1 \in 1 .. Len(b) + Len(p)
      BY <1>1, <1>4
    <3>2. CASE i <= Len(b) - 1
      BY <1>1, <1>2, <1>5, <3>1, <3>2
    <3>3. CASE ~(i <= Len(b) - 1)
      <4>1. i - (Len(b) - 1) = i + 1 - Len(b) /\ ~(i + 1 <= Len(b))
        BY <1>1, <3>3
      <4> QED
        BY <1>2, <1>5, <3>1, <3>3, <4>1
    <3> QED
      BY <3>2, <3>3, Zenon
  <2> QED
    BY <1>1, <1>4, <1>5, <2>1, SeqEqual
<1>7. Head(b \o p) = Head(b)
  <2>1. Head(b \o p) = (b \o p)[1] /\ Head(b) = b[1]
    BY DEF Head
  <2> QED
    BY <1>1, <1>2, <2>1
<1> QED
  BY <1>1, <1>3, <1>6, <1>7, Zenon

(* The elements of a queue after a step.                                    *)
LEMMA TailElems ==
    ASSUME NEW F, NEW q \in Seq(F), q # <<>>
    PROVE  /\ \A i \in DOMAIN Tail(q) : i \in Nat /\ i + 1 \in DOMAIN q /\ Tail(q)[i] = q[i + 1]
           /\ \A i \in DOMAIN q : i \in Nat /\ (i # 1 => i > 1 /\ i - 1 \in DOMAIN Tail(q))
           /\ 1 \in DOMAIN q /\ q[1] = Head(q)
<1>1. /\ Tail(q) \in Seq(F) /\ Len(q) \in Nat \ {0} /\ DOMAIN q = 1 .. Len(q)
      /\ Len(Tail(q)) = Len(q) - 1 /\ \A i \in 1 .. Len(Tail(q)) : Tail(q)[i] = q[i + 1]
  BY HeadTailProperties, EmptySeq, LenProperties, Zenon
<1>2. DOMAIN Tail(q) = 1 .. Len(q) - 1
  BY <1>1, LenProperties, Zenon
<1>3. Head(q) = q[1]
  BY DEF Head
<1> QED
  BY <1>1, <1>2, <1>3

LEMMA AppendElems ==
    ASSUME NEW F, NEW q \in Seq(F), NEW x \in F
    PROVE  /\ DOMAIN q = 1 .. Len(q) /\ Len(q) \in Nat
           /\ DOMAIN Append(q, x) = 1 .. Len(q) + 1
           /\ \A i \in DOMAIN q : Append(q, x)[i] = q[i]
           /\ Append(q, x)[Len(q) + 1] = x
<1>1. /\ Append(q, x) \in Seq(F) /\ Len(Append(q, x)) = Len(q) + 1
      /\ \A i \in 1 .. Len(q) : Append(q, x)[i] = q[i]
      /\ Append(q, x)[Len(q) + 1] = x
  BY AppendProperties
<1>2. DOMAIN q = 1 .. Len(q) /\ Len(q) \in Nat
  BY LenProperties, Zenon
<1>3. DOMAIN Append(q, x) = 1 .. Len(q) + 1
  BY <1>1, LenProperties, Zenon
<1> QED
  BY <1>1, <1>2, <1>3, Zenon

LEMMA ConcatElems ==
    ASSUME NEW F, NEW q \in Seq(F), NEW r \in Seq(F)
    PROVE  /\ DOMAIN q = 1 .. Len(q) /\ Len(q) \in Nat /\ DOMAIN r = 1 .. Len(r) /\ Len(r) \in Nat
           /\ DOMAIN (q \o r) = 1 .. Len(q) + Len(r)
           /\ \A i \in DOMAIN q : (q \o r)[i] = q[i]
           /\ \A i \in DOMAIN r : (q \o r)[Len(q) + i] = r[i]
           /\ \A i \in DOMAIN (q \o r) : i \in DOMAIN q \/ i - Len(q) \in DOMAIN r
<1>1. DOMAIN q = 1 .. Len(q) /\ Len(q) \in Nat /\ DOMAIN r = 1 .. Len(r) /\ Len(r) \in Nat
  BY LenProperties, Zenon
<1>2. /\ q \o r \in Seq(F) /\ Len(q \o r) = Len(q) + Len(r)
      /\ \A i \in 1 .. Len(q) + Len(r) : (q \o r)[i] = IF i <= Len(q) THEN q[i] ELSE r[i - Len(q)]
  BY ConcatProperties, Zenon
<1>3. DOMAIN (q \o r) = 1 .. Len(q) + Len(r)
  BY <1>2, LenProperties, Zenon
<1>4. \A i \in DOMAIN q : (q \o r)[i] = q[i]
  BY <1>1, <1>2
<1>5. ASSUME NEW i \in DOMAIN r
      PROVE  (q \o r)[Len(q) + i] = r[i]
  <2>1. Len(q) + i \in 1 .. Len(q) + Len(r) /\ ~(Len(q) + i <= Len(q)) /\ (Len(q) + i) - Len(q) = i
    BY <1>1
  <2> QED
    BY <1>2, <2>1, Zenon
<1> QED
  BY <1>1, <1>3, <1>4, <1>5, SMTT(30)

(* Functor f of connection c is in queue q.                                 *)
Has(q, f, c) == \E i \in DOMAIN q : q[i].f = f /\ q[i].c = c

Once(q, f, c) == \A i, j \in DOMAIN q : q[i].f = f /\ q[i].c = c /\ q[j].f = f /\ q[j].c = c => i = j

(* Functor f of connection c is in queue q exactly once, or not at all.     *)
Holds(q, f, c, n) == IF n THEN Has(q, f, c) /\ Once(q, f, c) ELSE ~Has(q, f, c)

(* Which functors are in a queue, after a pop and after a push.             *)
LEMMA HasTail ==
    ASSUME NEW F, NEW q \in Seq(F), q # <<>>, NEW f, NEW c
    PROVE  /\ Has(Tail(q), f, c) => Has(q, f, c)
           /\ Once(q, f, c) => Once(Tail(q), f, c)
           /\ Once(q, f, c) /\ Head(q).f = f /\ Head(q).c = c => ~Has(Tail(q), f, c)
           /\ Has(q, f, c) /\ ~(Head(q).f = f /\ Head(q).c = c) => Has(Tail(q), f, c)
<1>1. /\ \A i \in DOMAIN Tail(q) : i \in Nat /\ i + 1 \in DOMAIN q /\ Tail(q)[i] = q[i + 1]
      /\ \A i \in DOMAIN q : i \in Nat /\ (i # 1 => i > 1 /\ i - 1 \in DOMAIN Tail(q))
      /\ 1 \in DOMAIN q /\ q[1] = Head(q)
  BY TailElems, Zenon
<1>2. Has(Tail(q), f, c) => Has(q, f, c)
  BY <1>1, Zenon DEF Has
<1>3. ASSUME Once(q, f, c), NEW i \in DOMAIN Tail(q), NEW j \in DOMAIN Tail(q),
             Tail(q)[i].f = f, Tail(q)[i].c = c, Tail(q)[j].f = f, Tail(q)[j].c = c
      PROVE  i = j
  <2>1. i + 1 = j + 1
    BY <1>1, <1>3 DEF Once
  <2> QED
    BY <1>1, <2>1
<1>4. ASSUME Once(q, f, c), Head(q).f = f, Head(q).c = c, Has(Tail(q), f, c)
      PROVE  FALSE
  <2>1. PICK i \in DOMAIN Tail(q) : Tail(q)[i].f = f /\ Tail(q)[i].c = c
    BY <1>4, Zenon DEF Has
  <2>2. i + 1 = 1
    BY <1>1, <1>4, <2>1, Zenon DEF Once
  <2>3. i \in DOMAIN Tail(q) /\ i \in Nat /\ i # 0
    <3>1. Tail(q) \in Seq(F)
      BY HeadTailProperties, Zenon
    <3> QED
      BY <3>1, LenProperties
  <2> QED
    BY <2>2, <2>3
<1>5. ASSUME Has(q, f, c), ~(Head(q).f = f /\ Head(q).c = c)
      PROVE  Has(Tail(q), f, c)
  <2>1. PICK i \in DOMAIN q : q[i].f = f /\ q[i].c = c
    BY <1>5, Zenon DEF Has
  <2>2. i # 1
    BY <1>1, <1>5, <2>1, Zenon
  <2>3. i - 1 \in DOMAIN Tail(q) /\ (i - 1) + 1 = i
    BY <1>1, <2>2
  <2>4. Tail(q)[i - 1] = q[i]
    BY <1>1, <2>3, Zenon
  <2> QED
    BY <2>1, <2>3, <2>4, Zenon DEF Has
<1>6. Once(q, f, c) => Once(Tail(q), f, c)
  BY <1>3, Zenon DEF Once
<1> QED
  BY <1>2, <1>4, <1>5, <1>6, Zenon

LEMMA HasAppend ==
    ASSUME NEW F, NEW q \in Seq(F), NEW x \in F, NEW f, NEW c
    PROVE  /\ Has(Append(q, x), f, c) <=> Has(q, f, c) \/ (x.f = f /\ x.c = c)
           /\ Once(q, f, c) /\ ~(x.f = f /\ x.c = c) => Once(Append(q, x), f, c)
           /\ ~Has(q, f, c) => Once(Append(q, x), f, c)
<1>1. /\ DOMAIN q = 1 .. Len(q) /\ Len(q) \in Nat
      /\ DOMAIN Append(q, x) = 1 .. Len(q) + 1
      /\ \A i \in DOMAIN q : Append(q, x)[i] = q[i]
      /\ Append(q, x)[Len(q) + 1] = x
  BY AppendElems
<1>2. PICK r : r = Append(q, x)
  BY Zenon
<1>3. \A i \in DOMAIN r : i \in DOMAIN q \/ i = Len(q) + 1
  BY <1>1, <1>2
<1>4. Has(r, f, c) <=> Has(q, f, c) \/ (x.f = f /\ x.c = c)
  BY <1>1, <1>2, <1>3 DEF Has
<1>5. Once(q, f, c) /\ ~(x.f = f /\ x.c = c) => Once(r, f, c)
  BY <1>1, <1>2, <1>3 DEF Once
<1>6. ~Has(q, f, c) => Once(r, f, c)
  BY <1>1, <1>2, <1>3 DEF Once, Has
<1> QED
  BY <1>2, <1>4, <1>5, <1>6, Zenon

LEMMA HasConcat ==
    ASSUME NEW F, NEW q \in Seq(F), NEW r \in Seq(F), NEW f, NEW c, ~Has(r, f, c)
    PROVE  /\ Has(q \o r, f, c) => Has(q, f, c)
           /\ Once(q, f, c) => Once(q \o r, f, c)
<1>1. /\ DOMAIN q = 1 .. Len(q) /\ Len(q) \in Nat /\ DOMAIN r = 1 .. Len(r) /\ Len(r) \in Nat
      /\ DOMAIN (q \o r) = 1 .. Len(q) + Len(r)
      /\ \A i \in DOMAIN q : (q \o r)[i] = q[i]
      /\ \A i \in DOMAIN r : (q \o r)[Len(q) + i] = r[i]
      /\ \A i \in DOMAIN (q \o r) : i \in DOMAIN q \/ i - Len(q) \in DOMAIN r
  BY ConcatElems, Zenon
<1>2. ASSUME NEW i \in DOMAIN (q \o r), (q \o r)[i].f = f, (q \o r)[i].c = c
      PROVE  i \in DOMAIN q /\ q[i].f = f /\ q[i].c = c
  <2>1. CASE i \in DOMAIN q
    BY <1>1, <1>2, <2>1, Zenon
  <2>2. CASE i - Len(q) \in DOMAIN r
    <3>1. Len(q) + (i - Len(q)) = i
      BY <1>1
    <3>2. r[i - Len(q)] = (q \o r)[i]
      BY <1>1, <2>2, <3>1, Zenon
    <3> QED
      BY <1>2, <2>2, <3>2, Zenon DEF Has
  <2> QED
    BY <1>1, <2>1, <2>2, Zenon
<1> QED
  BY <1>2, Zenon DEF Has, Once

(* What a queue holds after a push, a pop and both.                         *)
LEMMA HoldsTail ==
    ASSUME NEW F, NEW q \in Seq(F), q # <<>>, NEW f, NEW c, NEW n \in BOOLEAN, Holds(q, f, c, n)
    PROVE  /\ ~(Head(q).f = f /\ Head(q).c = c) => Holds(Tail(q), f, c, n)
           /\ Head(q).f = f /\ Head(q).c = c => Holds(Tail(q), f, c, FALSE)
<1>1. /\ Has(Tail(q), f, c) => Has(q, f, c)
      /\ Once(q, f, c) => Once(Tail(q), f, c)
      /\ Once(q, f, c) /\ Head(q).f = f /\ Head(q).c = c => ~Has(Tail(q), f, c)
      /\ Has(q, f, c) /\ ~(Head(q).f = f /\ Head(q).c = c) => Has(Tail(q), f, c)
  BY HasTail, Zenon
<1>2. CASE n = TRUE
  BY <1>1, <1>2, Zenon DEF Holds
<1>3. CASE n = FALSE
  BY <1>1, <1>3, Zenon DEF Holds
<1> QED
  BY <1>2, <1>3, Zenon

LEMMA HoldsAppend ==
    ASSUME NEW F, NEW q \in Seq(F), NEW x \in F, NEW f, NEW c, NEW n \in BOOLEAN, Holds(q, f, c, n)
    PROVE  /\ ~(x.f = f /\ x.c = c) => Holds(Append(q, x), f, c, n)
           /\ x.f = f /\ x.c = c /\ n = FALSE => Holds(Append(q, x), f, c, TRUE)
<1>1. /\ Has(Append(q, x), f, c) <=> Has(q, f, c) \/ (x.f = f /\ x.c = c)
      /\ Once(q, f, c) /\ ~(x.f = f /\ x.c = c) => Once(Append(q, x), f, c)
      /\ ~Has(q, f, c) => Once(Append(q, x), f, c)
  BY HasAppend, Zenon
<1>2. CASE n = TRUE
  BY <1>1, <1>2, Zenon DEF Holds
<1>3. CASE n = FALSE
  BY <1>1, <1>3, Zenon DEF Holds
<1> QED
  BY <1>2, <1>3, Zenon

-----------------------------------------------------------------------------
(***************************************************************************)
(* What a step does to the queues, to a connection and to its users.       *)
(***************************************************************************)
FunctorNames ==
    {"connectEstablished", "connectDestroyed", "removeConnectionInLoop", "forceCloseInLoop",
     "writeComplete", "highWaterMark"} \cup RawFunctors

Functors == [f : FunctorNames, c : Conns, data : Data, late : BOOLEAN]

(* The functors of a loop in the order in which it will run them.           *)
Q(l) == batch[l] \o pending[l]

ConnsOK ==
    /\ DOMAIN conn = Conns
    /\ \A c \in Conns : conn[c] = Absent \/ conn[c] \in Connection(Data)

PoolOK ==
    /\ loopOf \in [Conns -> Loops]
    /\ loops_ \in Pools /\ next_ \in Nat
    /\ loops_ = <<>> => next_ = 0
    /\ loops_ # <<>> => next_ < Len(loops_)
    /\ server \in BOOLEAN
    /\ phase \in [Loops -> {"events", "functors", "joining", "stopped"}]
    /\ quit \in [Loops -> BOOLEAN]
    /\ \A c \in Made : loopOf[c] = Base <=> loops_ = <<>>

UsersOK ==
    /\ connections_ \subseteq Made
    /\ held \subseteq Made /\ timers \subseteq Made
    /\ sends \in 0 .. MaxSends
    /\ DOMAIN calls = Users
    /\ \A u \in Users : calls[u] = Idle \/ (calls[u].call \in ThreadCalls /\ calls[u].c \in Made)

QueuesOK ==
    /\ pending \in [Loops -> Seq(Functors)] /\ batch \in [Loops -> Seq(Functors)]
    /\ DOMAIN spent = Loops
    /\ \A l \in Loops :
          /\ spent[l] \subseteq Made
          /\ phase[l] # "functors" => batch[l] = <<>>
          /\ \A i \in DOMAIN Q(l) :
                /\ Q(l)[i].c \in Made
                /\ IF Q(l)[i].f = "removeConnectionInLoop" THEN l = Base ELSE l = loopOf[Q(l)[i].c]

TypeInv == ConnsOK /\ PoolOK /\ UsersOK /\ QueuesOK

(* Somebody uses the connection: a pointer was kept, a call is under way or *)
(* a call was queued.                                                       *)
Touched(c) ==
    \/ c \in held
    \/ \E u \in Users : calls[u] # Idle /\ calls[u].c = c
    \/ \E l \in Loops : \E i \in DOMAIN Q(l) : Q(l)[i].f \in RawFunctors /\ Q(l)[i].c = c

(* The steps of a connection: connection c may become m.                    *)
Step(c, m) ==
    \/ /\ conn[c] = Absent /\ AcceptConnection(c)
       /\ m \in {NewConnection, ConnectEstablished(NewConnection)}
    \/ /\ c \in Made
       /\ \/ \E i \in BOOLEAN : m = [conn[c] EXCEPT !.input = i]
          \/ \E p \in Peer : m = [conn[c] EXCEPT !.peer = p]
          \/ /\ m = ConnectEstablished(conn[c])
             /\ \E l \in Loops : /\ Has(Q(l), "connectEstablished", c)
                                 /\ \E fn : RunConnectEstablished(l, fn) /\ fn.c = c
          \/ m = HandleClose(conn[c]) /\ (Closable(c) \/ conn[c].polled)
          \/ m = Removed(ConnectDestroyed(conn[c]))
          \/ Touched(c) /\ \E d \in Data : m \in SendInLoop(conn[c], d)
          \/ m \in HandleWrite(conn[c]) /\ conn[c].polled
          \/ Touched(c) /\ m = ShutdownInLoop(conn[c])
          \/ conn[c].state_ = kConnected /\ m = ShutdownInLoop([conn[c] EXCEPT !.state_ = kDisconnecting])
          \/ /\ (Touched(c) /\ {"shutdown", "forceClose"} \cap ThreadCalls # {}) \/ Closable(c)
             /\ m = [conn[c] EXCEPT !.state_ = kDisconnecting]
          \/ Touched(c) /\ m \in {StartReadInLoop(conn[c]), StopReadInLoop(conn[c])}

ConnChange(c) == conn'[c] = conn[c] \/ Step(c, conn'[c])

-----------------------------------------------------------------------------
(* The invariants that a step of a connection keeps.                        *)
BytesInv == \A c \in Made : Ordered(conn[c])

ReadingInv ==
    \A c \in Made :
        /\ conn[c].callback = "none" => conn[c].reading_ /\ ~Touched(c)
        /\ conn[c].callback = "up" => (conn[c].reading_ <=> "in" \in conn[c].events_)

DrainInv ==
    \A c \in Made :
        /\ \A l \in Loops :
              Has(Q(l), "connectEstablished", c) =>
                  /\ conn[c].callback = "none" /\ conn[c].state_ = kConnecting
                  /\ ~conn[c].polled
                  /\ Once(Q(l), "connectEstablished", c)
        /\ conn[c].state_ # kDisconnected => Drained(conn[c])

-----------------------------------------------------------------------------
(* What a push, a pop and both do to the queue of a loop.                   *)
LEMMA FunctorIn ==
    ASSUME NEW f \in FunctorNames, NEW c \in Conns, NEW d \in Data
    PROVE  /\ Functor(f, c, d) \in Functors
           /\ Functor(f, c, d).f = f /\ Functor(f, c, d).c = c /\ Functor(f, c, d).data = d
           /\ Functor(f, c, d).late <=> c \notin connections_
<1>1. PICK b \in BOOLEAN : b = (c \notin connections_)
  BY Zenon
<1>2. Functor(f, c, d) = [f |-> f, c |-> c, data |-> d, late |-> b]
  BY <1>1, Zenon DEF Functor
<1>3. /\ Functor(f, c, d) \in Functors
      /\ Functor(f, c, d).f = f /\ Functor(f, c, d).c = c /\ Functor(f, c, d).data = d
      /\ Functor(f, c, d).late = b
  BY <1>2 DEF Functors
<1> QED
  BY <1>1, <1>3, Zenon

LEMMA QueueOf ==
    ASSUME QueuesOK, NEW l \in Loops
    PROVE  /\ batch[l] \in Seq(Functors) /\ pending[l] \in Seq(Functors) /\ Q(l) \in Seq(Functors)
           /\ DOMAIN Q(l) = 1 .. Len(Q(l)) /\ Len(Q(l)) \in Nat
BY ConcatProperties, LenProperties DEF QueuesOK, Q

(* Every step of the server is a step of its connections, its queues and    *)
(* its users.                                                               *)
LEMMA InData ==
    /\ <<>> \in Data
    /\ sends \in 0 .. MaxSends /\ sends < MaxSends => Message \in Data /\ sends + 1 \in 0 .. MaxSends
<1>1. <<>> \in Data
  BY EmptySeq, Zenon DEF Data
<1>2. ASSUME sends \in 0 .. MaxSends, sends < MaxSends
      PROVE  Message \in Data /\ sends + 1 \in 0 .. MaxSends
  <2>1. MessageLen \in Nat /\ MaxSends \in Nat /\ sends \in Nat
    BY <1>2, SizesAssumption
  <2>2. PICK d \in Nat : MaxSends = (sends + 1) + d
    <3>1. MaxSends - (sends + 1) \in Nat /\ MaxSends = (sends + 1) + (MaxSends - (sends + 1))
      BY <1>2, <2>1
    <3> QED
      BY <3>1, Zenon
  <2>3. MessageLen * MaxSends = sends * MessageLen + MessageLen + d * MessageLen
    BY <2>1, <2>2
  <2>4. sends * MessageLen \in Nat /\ d * MessageLen \in Nat
    BY <2>1
  <2>5. PICK a \in Nat, e \in Nat : a = sends * MessageLen /\ e = d * MessageLen
    BY <2>4, Zenon
  <2>6. \A i \in 1 .. MessageLen : a + i \in 1 .. MessageLen * MaxSends
    BY <2>1, <2>3, <2>5
  <2>7. Message \in [1 .. MessageLen -> 1 .. MessageLen * MaxSends]
    BY <2>5, <2>6, Zenon DEF Message
  <2> QED
    BY <1>2, <2>1, <2>7, SeqDef DEF Data
<1> QED
  BY <1>1, <1>2, Zenon

LEMMA RunHead ==
    ASSUME QueuesOK, NEW l \in Loops, NEW fn, Runs(l, fn)
    PROVE  /\ fn \in Functors /\ fn.c \in Made
           /\ 1 \in DOMAIN Q(l) /\ Q(l)[1] = fn
           /\ IF fn.f = "removeConnectionInLoop" THEN l = Base ELSE l = loopOf[fn.c]
<1>1. batch[l] \in Seq(Functors) /\ pending[l] \in Seq(Functors) /\ Q(l) \in Seq(Functors)
  BY QueueOf, Zenon
<1>2. batch[l] # <<>> /\ fn = Head(batch[l])
  BY Zenon DEF Runs
<1>3. Head(Q(l)) = fn /\ Q(l) # <<>> /\ fn \in Functors
  BY <1>1, <1>2, TailQ, ZenonT(40) DEF Q
<1>4. 1 \in DOMAIN Q(l) /\ Head(Q(l)) = Q(l)[1]
  BY <1>1, <1>3, EmptySeq, LenProperties DEF Head
<1> QED
  BY <1>3, <1>4 DEF QueuesOK

View == DOMAIN conn' = Conns /\ \A c \in Conns : ConnChange(c)

LEMMA StepSet ==
    ASSUME ConnsOK, NEW c \in Conns, NEW m, Step(c, m), conn' = [conn EXCEPT ![c] = m]
    PROVE  View
<1>1. DOMAIN conn' = Conns /\ conn'[c] = m /\ \A d \in Conns : d # c => conn'[d] = conn[d]
  BY Zenon DEF ConnsOK
<1> QED
  BY <1>1, Zenon DEF View, ConnChange

LEMMA StepSame ==
    ASSUME ConnsOK, UNCHANGED conn
    PROVE  View
BY Zenon DEF View, ConnChange, ConnsOK

LEMMA CloseView ==
    ASSUME ConnsOK, NEW c \in Made, Close(c), Closable(c) \/ conn[c].polled
    PROVE  View
<1>1. PICK m : m = HandleClose(conn[c])
  BY Zenon
<1>2. conn' = [conn EXCEPT ![c] = m] /\ c \in Conns
  BY <1>1, Zenon DEF Close, Made
<1>3. Step(c, m)
  BY <1>1, Zenon DEF Step
<1> QED
  BY <1>2, <1>3, StepSet, Zenon

LEMMA DisconnectingView ==
    ASSUME ConnsOK, NEW c \in Made, SetDisconnecting(c),
           (Touched(c) /\ {"shutdown", "forceClose"} \cap ThreadCalls # {}) \/ Closable(c)
    PROVE  View
<1>1. PICK m : m = [conn[c] EXCEPT !.state_ = kDisconnecting]
  BY Zenon
<1>2. conn' = [conn EXCEPT ![c] = m] /\ c \in Conns
  BY <1>1, Zenon DEF SetDisconnecting, Made
<1>3. Step(c, m)
  BY <1>1, Zenon DEF Step
<1> QED
  BY <1>2, <1>3, StepSet, Zenon

LEMMA FunctorView ==
    ASSUME TypeInv, NEW l \in Loops, RunFunctor(l)
    PROVE  View
<1> USE DEF TypeInv
<1>1. PICK fn : \/ RunConnectEstablished(l, fn) \/ RunConnectDestroyed(l, fn)
                \/ RunRemoveConnectionInLoop(l, fn) \/ RunForceCloseInLoop(l, fn)
                \/ RunRawFunctor(l, fn) \/ RunUserCallback(l, fn)
  BY Zenon DEF RunFunctor
<1>2. Runs(l, fn)
  BY <1>1, Zenon DEF RunConnectEstablished, RunConnectDestroyed, RunRemoveConnectionInLoop,
              RunForceCloseInLoop, RunRawFunctor, RunUserCallback
<1>3. /\ fn \in Functors /\ fn.c \in Made /\ 1 \in DOMAIN Q(l) /\ Q(l)[1] = fn
  BY <1>2, RunHead, Zenon
<1>4. PICK c \in Conns : c = fn.c /\ c \in Made
  BY <1>3, Zenon DEF Made
<1>5. CASE RunConnectEstablished(l, fn)
  <2>1. PICK m : m = ConnectEstablished(conn[c])
    BY Zenon
  <2>2. conn' = [conn EXCEPT ![c] = m]
    BY <1>4, <1>5, <2>1, Zenon DEF RunConnectEstablished, Establish
  <2>3. Has(Q(l), "connectEstablished", c)
    BY <1>3, <1>4, <1>5, Zenon DEF Has, RunConnectEstablished
  <2>4. Step(c, m)
    BY <1>4, <1>5, <2>1, <2>3, Zenon DEF Step
  <2> QED
    BY <2>2, <2>4, StepSet, Zenon
<1>6. CASE RunConnectDestroyed(l, fn)
  <2>1. PICK m : m = Removed(ConnectDestroyed(conn[c]))
    BY Zenon
  <2>2. conn' = [conn EXCEPT ![c] = m]
    BY <1>4, <1>6, <2>1, Zenon DEF RunConnectDestroyed
  <2>3. Step(c, m)
    BY <1>4, <2>1, Zenon DEF Step
  <2> QED
    BY <2>2, <2>3, StepSet, Zenon
<1>7. CASE RunRemoveConnectionInLoop(l, fn)
  BY <1>7, StepSame, Zenon DEF RunRemoveConnectionInLoop
<1>8. CASE RunForceCloseInLoop(l, fn)
  <2>1. CASE Closable(c)
    BY <1>4, <1>8, <2>1, CloseView, Zenon DEF RunForceCloseInLoop
  <2>2. CASE ~Closable(c)
    BY <1>4, <1>8, <2>2, StepSame, Zenon DEF RunForceCloseInLoop, connVars
  <2> QED
    BY <2>1, <2>2, Zenon
<1>9. CASE RunRawFunctor(l, fn)
  <2>1. fn.f \in RawFunctors
    BY <1>9, Zenon DEF RunRawFunctor
  <2>2. Touched(c)
    BY <1>3, <1>4, <2>1, Zenon DEF Touched
  <2>3. PICK m \in InLoop(fn) : conn' = [conn EXCEPT ![c] = m]
    BY <1>4, <1>9, Zenon DEF RunRawFunctor
  <2>4. fn.data \in Data
    BY <1>3, Zenon DEF Functors
  <2>5. Step(c, m)
    <3>1. CASE fn.f = "sendInLoop"
      BY <1>4, <2>2, <2>3, <2>4, <3>1, Zenon DEF InLoop, Step
    <3>2. CASE fn.f = "shutdownInLoop"
      BY <1>4, <2>2, <2>3, <3>2, Zenon DEF InLoop, Step
    <3>3. CASE fn.f = "startReadInLoop"
      BY <1>4, <2>2, <2>3, <3>3, Zenon DEF InLoop, Step
    <3>4. CASE fn.f = "stopReadInLoop"
      BY <1>4, <2>2, <2>3, <3>4, Zenon DEF InLoop, Step
    <3> QED
      BY <2>1, <3>1, <3>2, <3>3, <3>4, Zenon DEF RawFunctors
  <2> QED
    BY <2>3, <2>5, StepSet, Zenon
<1>10. CASE RunUserCallback(l, fn)
  BY <1>10, StepSame, Zenon DEF RunUserCallback, connVars
<1> QED
  BY <1>1, <1>5, <1>6, <1>7, <1>8, <1>9, <1>10, Zenon

LEMMA EventView ==
    ASSUME TypeInv, NEW c \in Conns,
           AcceptConnection(c) \/ EventNext(c) \/ PeerSends(c) \/ PeerCloses(c)
    PROVE  View
<1> USE DEF TypeInv
<1>1. CASE AcceptConnection(c)
  <2>1. PICK m \in {NewConnection, ConnectEstablished(NewConnection)} :
          conn' = [conn EXCEPT ![c] = m]
    BY <1>1, Zenon DEF AcceptConnection
  <2>2. conn[c] = Absent
    BY <1>1, Zenon DEF AcceptConnection
  <2>3. Step(c, m)
    BY <1>1, <2>1, <2>2, Zenon DEF Step
  <2> QED
    BY <2>1, <2>3, StepSet, Zenon
<1>2. CASE ReadEvent(c)
  <2>1. PICK no \in BOOLEAN : no = FALSE
    BY Zenon
  <2>2. PICK m : m = [conn[c] EXCEPT !.input = no]
    BY Zenon
  <2>3. conn' = [conn EXCEPT ![c] = m]
    BY <1>2, <2>1, <2>2, Zenon DEF ReadEvent
  <2>4. Step(c, m)
    BY <1>2, <2>2, Zenon DEF Step, ReadEvent, Active
  <2> QED
    BY <2>3, <2>4, StepSet, Zenon
<1>3. CASE CloseEvent(c)
  <2>1. c \in Made /\ Close(c) /\ conn[c].polled
    BY <1>3, Zenon DEF CloseEvent, Active, Closes, Readable, HungUp
  <2> QED
    BY <2>1, CloseView, Zenon
<1>4. CASE WriteEvent(c)
  <2>1. PICK m \in HandleWrite(conn[c]) : conn' = [conn EXCEPT ![c] = m]
    BY <1>4, Zenon DEF WriteEvent
  <2>2. conn[c].polled /\ c \in Made
    BY <1>4, Zenon DEF WriteEvent, Active, Writable
  <2>3. Step(c, m)
    BY <2>1, <2>2, Zenon DEF Step
  <2> QED
    BY <2>1, <2>3, StepSet, Zenon
<1>5. CASE DelayPasses(c)
  <2>1. c \in Made
    BY <1>5, Zenon DEF DelayPasses, UsersOK
  <2>2. CASE Referenced(c) /\ Closable(c)
    BY <1>5, <2>1, <2>2, DisconnectingView, Zenon DEF DelayPasses, ForceClose
  <2>3. CASE ~(Referenced(c) /\ Closable(c))
    BY <1>5, <2>3, StepSame, Zenon DEF DelayPasses
  <2> QED
    BY <2>2, <2>3, Zenon
<1>6. CASE PeerSends(c)
  <2>1. PICK yes \in BOOLEAN : yes = TRUE
    BY Zenon
  <2>2. PICK m : m = [conn[c] EXCEPT !.input = yes]
    BY Zenon
  <2>3. conn' = [conn EXCEPT ![c] = m]
    BY <1>6, <2>1, <2>2, Zenon DEF PeerSends
  <2>4. Step(c, m)
    BY <1>6, <2>2, Zenon DEF Step, PeerSends
  <2> QED
    BY <2>3, <2>4, StepSet, Zenon
<1>7. CASE PeerCloses(c)
  <2>1. PICK p \in {"closed", "reset"} : conn' = [conn EXCEPT ![c].peer = p]
    BY <1>7, Zenon DEF PeerCloses
  <2>2. PICK m : m = [conn[c] EXCEPT !.peer = p]
    BY Zenon
  <2>3. conn' = [conn EXCEPT ![c] = m]
    BY <2>1, <2>2, Zenon
  <2>4. Step(c, m)
    BY <1>7, <2>1, <2>2, Zenon DEF Step, PeerCloses, Peer
  <2> QED
    BY <2>3, <2>4, StepSet, Zenon
<1> QED
  BY <1>1, <1>2, <1>3, <1>4, <1>5, <1>6, <1>7, Zenon DEF EventNext

LEMMA UserView ==
    ASSUME TypeInv, NEW c \in Conns, UserNext(c)
    PROVE  View
<1> USE DEF TypeInv
<1>0. InUserCode(c) => c \in Made /\ Touched(c)
  BY Zenon DEF InUserCode, UsersOK, Touched
<1>1. CASE LoopSend(c)
  <2>1. PICK m \in SendInLoop(conn[c], Message) : conn' = [conn EXCEPT ![c] = m]
    BY <1>1, Zenon DEF LoopSend
  <2>2. Message \in Data
    BY <1>1, InData, Zenon DEF LoopSend, UsersOK
  <2>3. Step(c, m)
    BY <1>0, <1>1, <2>1, <2>2, Zenon DEF Step, LoopSend
  <2> QED
    BY <2>1, <2>3, StepSet, Zenon
<1>2. CASE LoopShutdown(c)
  <2>1. PICK m : m = ShutdownInLoop([conn[c] EXCEPT !.state_ = kDisconnecting])
    BY Zenon
  <2>2. conn' = [conn EXCEPT ![c] = m]
    BY <1>2, <2>1, Zenon DEF LoopShutdown
  <2>3. Step(c, m)
    BY <1>0, <1>2, <2>1, Zenon DEF Step, LoopShutdown
  <2> QED
    BY <2>2, <2>3, StepSet, Zenon
<1>3. CASE LoopForceClose(c)
  BY <1>0, <1>3, DisconnectingView, Zenon DEF LoopForceClose, ForceClose
<1>4. CASE LoopForceCloseWithDelay(c)
  BY <1>0, <1>4, DisconnectingView, Zenon DEF LoopForceCloseWithDelay
<1>5. CASE LoopSetReading(c)
  <2>1. PICK m \in {StartReadInLoop(conn[c]), StopReadInLoop(conn[c])} :
          conn' = [conn EXCEPT ![c] = m]
    BY <1>5, Zenon DEF LoopSetReading
  <2>2. Step(c, m)
    BY <1>0, <1>5, <2>1, Zenon DEF Step, LoopSetReading
  <2> QED
    BY <2>1, <2>2, StepSet, Zenon
<1>6. CASE DropPointer(c)
  BY <1>6, StepSame, Zenon DEF DropPointer, connVars
<1>7. ASSUME NEW u \in Users, NEW call \in ThreadCalls, BeginCall(u, c, call)
      PROVE  View
  BY <1>7, StepSame, Zenon DEF BeginCall, connVars
<1> QED
  BY <1>1, <1>2, <1>3, <1>4, <1>5, <1>6, <1>7, Zenon DEF UserNext

LEMMA ConnView ==
    ASSUME TypeInv, [Next]_vars
    PROVE  View
<1> USE DEF TypeInv
<1>1. ASSUME NEW c \in Conns,
             AcceptConnection(c) \/ EventNext(c) \/ UserNext(c) \/ PeerSends(c) \/ PeerCloses(c)
      PROVE  View
  BY <1>1, EventView, UserView, Zenon
<1>2. ASSUME NEW l \in Loops, LoopNext(l)
      PROVE  View
  BY <1>2, FunctorView, StepSame, Zenon DEF LoopNext, SwapFunctors, BatchDone, connVars
<1>3. ASSUME NEW u \in Users, StoreState(u)
      PROVE  View
  <2>1. calls[u] # Idle /\ calls[u].call \in {"shutdown", "forceClose"} /\ SetDisconnecting(calls[u].c)
    BY <1>3, Zenon DEF StoreState
  <2>2. calls[u].call \in ThreadCalls /\ calls[u].c \in Made
    BY <2>1, Zenon DEF UsersOK
  <2>3. Touched(calls[u].c)
    BY <2>1, Zenon DEF Touched
  <2> QED
    BY <2>1, <2>2, <2>3, DisconnectingView, Zenon
<1>4. ASSUME NEW u \in Users, QueueCall(u)
      PROVE  View
  BY <1>4, StepSame, Zenon DEF QueueCall, connVars
<1>5. CASE DestroyServer
  <2> DEFINE here == {c \in connections_ : loopOf[c] = Base}
  <2>1. conn' = [c \in Conns |-> IF c \in here THEN Removed(ConnectDestroyed(conn[c])) ELSE conn[c]]
    BY <1>5, Zenon DEF DestroyServer
  <2>2. ASSUME NEW c \in Conns
        PROVE  ConnChange(c)
    <3>1. CASE c \in here
      <4>1. c \in Made /\ conn'[c] = Removed(ConnectDestroyed(conn[c]))
        BY <2>1, <3>1, Zenon DEF UsersOK
      <4>2. PICK m : m = Removed(ConnectDestroyed(conn[c]))
        BY Zenon
      <4>3. Step(c, m)
        BY <4>1, <4>2, Zenon DEF Step
      <4> QED
        BY <4>1, <4>2, <4>3, Zenon DEF ConnChange
    <3>2. CASE c \notin here
      BY <2>1, <3>2, Zenon DEF ConnChange
    <3> QED
      BY <3>1, <3>2, Zenon
  <2> QED
    BY <2>1, <2>2, Zenon DEF View
<1>6. CASE Joined \/ Aborted \/ UNCHANGED vars
  BY <1>6, StepSame, Zenon DEF Joined, Aborted, vars, connVars
<1> QED
  BY <1>1, <1>2, <1>3, <1>4, <1>5, <1>6, Zenon DEF Next

-----------------------------------------------------------------------------
(* What a step of a connection keeps.                                       *)
Told(k) ==
    /\ k.callback = "none" => k.reading_
    /\ k.callback = "up" => (k.reading_ <=> "in" \in k.events_)

Dry(k) == k.state_ # kDisconnected => Drained(k)

(* No other thread stores state_.                                           *)
NoStore == {"shutdown", "forceClose"} \cap ThreadCalls = {}

LEMMA NewOf ==
    /\ NewConnection \in Connection(Data) /\ Absent \notin Connection(Data)
    /\ NewConnection.state_ = kConnecting /\ NewConnection.callback = "none"
    /\ NewConnection.events_ = {} /\ NewConnection.reading_ /\ ~NewConnection.polled
    /\ Ordered(NewConnection) /\ Drained(NewConnection)
<1>1. PICK yes \in BOOLEAN, no \in BOOLEAN : yes = TRUE /\ no = FALSE
  BY Zenon
<1>2. PICK k : k =
        [state_ |-> kConnecting, reading_ |-> yes, events_ |-> {}, added |-> no,
         polled |-> no, outputBuffer_ |-> <<>>, written |-> <<>>, accepted |-> <<>>,
         shutdown |-> no, peer |-> "open", input |-> no, callback |-> "none"]
  BY Zenon
<1>3. k = NewConnection
  BY <1>1, <1>2, Zenon DEF NewConnection
<1>4. <<>> \in Data /\ kConnecting \in States /\ "open" \in Peer /\ {} \in SUBSET {"in", "out"}
  BY InData, Zenon DEF States, Peer
<1>5. k \in Connection(Data)
  BY <1>2, <1>4, Zenon DEF Connection
<1>6. /\ k.state_ = kConnecting /\ k.callback = "none" /\ k.events_ = {}
      /\ k.reading_ = yes /\ k.polled = no /\ k.shutdown = no
      /\ k.outputBuffer_ = <<>> /\ k.written = <<>> /\ k.accepted = <<>>
  BY <1>2, Zenon
<1>7. k.reading_ /\ ~k.polled /\ ~k.shutdown
  BY <1>1, <1>6, Zenon
<1>8. Drained(k)
  BY <1>6, <1>7, Zenon DEF Drained
<1>9. Ordered(k)
  BY <1>4, <1>6, ConcatEmptySeq, Zenon DEF Ordered, Data
<1>10. Absent \notin Connection(Data)
  <2>1. Absent = [k EXCEPT !.state_ = "absent"]
    BY <1>3, Zenon DEF Absent
  <2>2. Absent.state_ = "absent"
    BY <1>2, <2>1, Zenon
  <2> QED
    BY <2>2, Zenon DEF Connection, States, kDisconnected, kConnecting, kConnected,
       kDisconnecting
<1> QED
  BY <1>3, <1>5, <1>6, <1>7, <1>8, <1>9, <1>10, Zenon

LEMMA StepOf ==
    ASSUME ConnsOK, NEW c \in Conns, NEW m, Step(c, m)
    PROVE  /\ m \in Connection(Data)
           /\ BytesInv => Ordered(m)
           /\ ReadingInv => Told(m) /\ (c \in Made /\ conn[c].callback # "none" => m.callback # "none")
           /\ DrainInv /\ NoStore => Dry(m)
<1>1. CASE conn[c] = Absent /\ m \in {NewConnection, ConnectEstablished(NewConnection)}
  <2>0. PICK k \in Connection(Data) : k = NewConnection
    BY NewOf, Zenon
  <2>1. /\ k.state_ = kConnecting /\ k.callback = "none"
        /\ k.events_ = {} /\ k.reading_ /\ ~k.polled
        /\ Ordered(k) /\ Drained(k)
    BY <2>0, NewOf, Zenon
  <2>2. c \notin Made
    BY <1>1, Zenon DEF Made
  <2>3. CASE m = k
    BY <2>1, <2>2, <2>3, Zenon DEF Told, Dry
  <2>4. CASE m = ConnectEstablished(k)
    <3>1. /\ m \in Connection(Data) /\ m.state_ = kConnected
          /\ SameBytes(k, m) /\ m.reading_ = k.reading_
          /\ m.events_ = k.events_ \cup {"in"} /\ m.polled
          /\ m.callback = IF k.callback = "none" THEN "up" ELSE "again"
      BY <2>4, EstablishOf, Zenon
    <3>2. Told(m)
      BY <2>1, <3>1, Zenon DEF Told
    <3>3. Drained(m) /\ Ordered(m)
      BY <2>1, <3>1, ZenonT(40) DEF Drained, SameBytes, Ordered
    <3> QED
      BY <2>2, <3>1, <3>2, <3>3, Zenon DEF Dry
  <2> QED
    BY <1>1, <2>0, <2>3, <2>4, Zenon
<1>2. CASE c \in Made
  <2>0. PICK k \in Connection(Data) : k = conn[c]
    BY <1>2, Zenon DEF Made, ConnsOK
  <2>1. BytesInv => Ordered(k)
    BY <1>2, <2>0, Zenon DEF BytesInv
  <2>2. ReadingInv => (k.callback = "none" => k.reading_ /\ ~Touched(c))
                      /\ (k.callback = "up" => (k.reading_ <=> "in" \in k.events_))
    BY <1>2, <2>0, Zenon DEF ReadingInv
  <2>3. DrainInv => Dry(k)
    BY <1>2, <2>0, Zenon DEF DrainInv, Dry
  <2>4. DrainInv => \A l \in Loops : Has(Q(l), "connectEstablished", c) => k.state_ = kConnecting
    BY <1>2, <2>0, Zenon DEF DrainInv
  <2>5. CASE (\E i \in BOOLEAN : m = [k EXCEPT !.input = i]) \/ \E p \in Peer : m = [k EXCEPT !.peer = p]
    <3>1. /\ m \in Connection(Data) /\ SameBytes(k, m)
          /\ m.state_ = k.state_ /\ m.reading_ = k.reading_ /\ m.events_ = k.events_
          /\ m.callback = k.callback
      BY <2>5, PeerOf
    <3>2. (Ordered(k) => Ordered(m)) /\ (Drained(k) => Drained(m))
      BY <3>1, Zenon DEF SameBytes, Ordered, Drained
    <3> QED
      BY <2>0, <2>1, <2>2, <2>3, <3>1, <3>2, Zenon DEF Told, Dry
  <2>6. CASE /\ m = ConnectEstablished(k)
             /\ \E l \in Loops : Has(Q(l), "connectEstablished", c)
    <3>1. /\ m \in Connection(Data) /\ m.state_ = kConnected
          /\ SameBytes(k, m) /\ m.reading_ = k.reading_
          /\ m.events_ = k.events_ \cup {"in"}
          /\ m.callback = IF k.callback = "none" THEN "up" ELSE "again"
      BY <2>6, EstablishOf, Zenon
    <3>2. (Ordered(k) => Ordered(m)) /\ (Drained(k) => Drained(m))
      BY <3>1, Zenon DEF SameBytes, Ordered, Drained
    <3>3. DrainInv => Drained(k)
      BY <2>3, <2>4, <2>6, Zenon DEF Dry, kConnecting, kDisconnected
    <3>4. ReadingInv => Told(m)
      BY <2>2, <3>1, Zenon DEF Told
    <3> QED
      BY <2>1, <3>1, <3>2, <3>3, <3>4, Zenon DEF Dry
  <2>7. CASE m = HandleClose(k)
    <3>1. /\ m \in Connection(Data) /\ m.state_ = kDisconnected /\ SameBytes(k, m)
          /\ m.callback = IF k.callback = "up" THEN "down" ELSE "again"
      BY <2>7, CloseOf, Zenon
    <3>2. (Ordered(k) => Ordered(m))
      BY <3>1, Zenon DEF SameBytes, Ordered
    <3> QED
      BY <2>1, <3>1, <3>2, Zenon DEF Told, Dry
  <2>8. CASE m = Removed(ConnectDestroyed(k))
    <3>1. /\ m \in Connection(Data) /\ SameBytes(k, m) /\ m.reading_ = k.reading_
          /\ IF k.state_ = kConnected
              THEN /\ m.state_ = kDisconnected
                   /\ m.callback = IF k.callback = "up" THEN "down" ELSE "again"
              ELSE m.state_ = k.state_ /\ m.events_ = k.events_ /\ m.callback = k.callback
      BY <2>8, DestroyOf, Zenon
    <3>2. (Ordered(k) => Ordered(m))
      BY <3>1, Zenon DEF SameBytes, Ordered
    <3>3. Dry(k) => Dry(m)
      BY <3>1, Zenon DEF SameBytes, Drained, Dry
    <3>4. ReadingInv => Told(m) /\ (k.callback # "none" => m.callback # "none")
      BY <2>2, <3>1, Zenon DEF Told
    <3> QED
      BY <2>0, <2>1, <2>3, <3>1, <3>2, <3>3, <3>4, Zenon
  <2>9. CASE Touched(c) /\ \E d \in Data : m \in SendInLoop(k, d)
    <3>1. /\ m \in Connection(Data)
          /\ m.state_ = k.state_ /\ m.reading_ = k.reading_ /\ m.callback = k.callback
          /\ "in" \in m.events_ <=> "in" \in k.events_
          /\ Ordered(k) => Ordered(m)
          /\ Drained(k) => Drained(m)
      BY <2>9, SendOf DEF Data
    <3> QED
      BY <2>0, <2>1, <2>2, <2>3, <3>1, Zenon DEF Told, Dry
  <2>10. CASE m \in HandleWrite(k)
    <3>1. /\ m \in Connection(Data)
          /\ m.state_ = k.state_ /\ m.reading_ = k.reading_ /\ m.callback = k.callback
          /\ "in" \in m.events_ <=> "in" \in k.events_
          /\ Ordered(k) => Ordered(m)
          /\ Drained(k) => Drained(m)
      BY <2>10, WriteOf DEF Data
    <3> QED
      BY <2>0, <2>1, <2>2, <2>3, <3>1, Zenon DEF Told, Dry
  <2>11. CASE m = ShutdownInLoop(k)
    <3>1. /\ m \in Connection(Data)
          /\ m.state_ = k.state_ /\ m.reading_ = k.reading_ /\ m.callback = k.callback
          /\ m.events_ = k.events_
          /\ m.outputBuffer_ = k.outputBuffer_ /\ m.written = k.written
          /\ m.accepted = k.accepted
          /\ Drained(k) => Drained(m)
      BY <2>11, ShutOf, Zenon
    <3>2. Ordered(k) => Ordered(m)
      BY <3>1, Zenon DEF Ordered
    <3> QED
      BY <2>0, <2>1, <2>2, <2>3, <3>1, <3>2, Zenon DEF Told, Dry
  <2>12. CASE k.state_ = kConnected /\ m = ShutdownInLoop([k EXCEPT !.state_ = kDisconnecting])
    <3>1. PICK a \in Connection(Data) :
            /\ a = [k EXCEPT !.state_ = kDisconnecting] /\ a.state_ = kDisconnecting
            /\ SameBytes(k, a) /\ a.reading_ = k.reading_ /\ a.events_ = k.events_
            /\ a.callback = k.callback
      BY StateOf, Zenon DEF States
    <3>2. /\ m \in Connection(Data)
          /\ m.state_ = a.state_ /\ m.reading_ = a.reading_ /\ m.callback = a.callback
          /\ m.events_ = a.events_
          /\ m.outputBuffer_ = a.outputBuffer_ /\ m.written = a.written
          /\ m.accepted = a.accepted
          /\ Drained(a) => Drained(m)
      BY <2>12, <3>1, ShutOf, Zenon
    <3>3. Ordered(k) => Ordered(m)
      BY <3>1, <3>2, Zenon DEF Ordered, SameBytes
    <3>4. Dry(k) => Drained(m)
      BY <2>12, <3>1, <3>2, Zenon DEF Dry, Drained, SameBytes, kConnected, kDisconnected
    <3>5. ReadingInv => Told(m)
      BY <2>2, <3>1, <3>2, Zenon DEF Told
    <3> QED
      BY <2>0, <2>1, <2>3, <3>1, <3>2, <3>3, <3>4, <3>5, Zenon DEF Dry
  <2>13. CASE /\ (Touched(c) /\ {"shutdown", "forceClose"} \cap ThreadCalls # {}) \/ Closable(c)
              /\ m = [k EXCEPT !.state_ = kDisconnecting]
    <3>1. /\ m \in Connection(Data) /\ m.state_ = kDisconnecting
          /\ SameBytes(k, m) /\ m.reading_ = k.reading_ /\ m.events_ = k.events_
          /\ m.callback = k.callback
      BY <2>13, StateOf, Zenon DEF States
    <3>2. (Ordered(k) => Ordered(m)) /\ (Drained(k) => Drained(m))
      BY <3>1, Zenon DEF SameBytes, Ordered, Drained
    <3>3. DrainInv /\ NoStore => Drained(k)
      BY <2>0, <2>3, <2>13, Zenon DEF NoStore, Dry, Closable, kConnected, kDisconnecting,
         kDisconnected
    <3>4. ReadingInv => Told(m)
      BY <2>2, <3>1, Zenon DEF Told
    <3> QED
      BY <2>0, <2>1, <3>1, <3>2, <3>3, <3>4, Zenon DEF Dry
  <2>14. CASE Touched(c) /\ m \in {StartReadInLoop(k), StopReadInLoop(k)}
    <3>1. /\ m \in Connection(Data)
          /\ m.state_ = k.state_ /\ m.callback = k.callback
          /\ SameBytes(k, m)
          /\ "out" \in m.events_ <=> "out" \in k.events_
          /\ (k.reading_ <=> "in" \in k.events_) => (m.reading_ <=> "in" \in m.events_)
      BY <2>14, ReadOf, Zenon
    <3>2. (Ordered(k) => Ordered(m)) /\ (Drained(k) => Drained(m))
      BY <3>1, Zenon DEF SameBytes, Ordered, Drained
    <3>3. ReadingInv => Told(m)
      BY <2>2, <2>14, <3>1, Zenon DEF Told
    <3> QED
      BY <2>0, <2>1, <2>3, <3>1, <3>2, <3>3, Zenon DEF Dry
  <2>15. conn[c] # Absent
    BY <1>2, Zenon DEF Made
  <2> QED
    BY <2>0, <2>5, <2>6, <2>7, <2>8, <2>9, <2>10, <2>11, <2>12, <2>13, <2>14, <2>15, Zenon
       DEF Step
<1> QED
  BY <1>1, <1>2, Zenon DEF Step

LEMMA ConnStep ==
    ASSUME TypeInv, [Next]_vars
    PROVE  /\ ConnsOK' /\ Made \subseteq Made'
           /\ BytesInv => BytesInv'
           /\ \A c \in Made' : ReadingInv => Told(conn'[c])
           /\ \A c \in Made : ReadingInv /\ conn[c].callback # "none" => conn'[c].callback # "none"
           /\ \A c \in Made' : DrainInv /\ NoStore => Dry(conn'[c])
<1>1. View /\ ConnsOK
  BY ConnView, Zenon DEF TypeInv
<1>2. ASSUME NEW c \in Conns
      PROVE  \/ conn'[c] = conn[c]
             \/ /\ conn'[c] \in Connection(Data)
                /\ BytesInv => Ordered(conn'[c])
                /\ ReadingInv => Told(conn'[c])
                      /\ (c \in Made /\ conn[c].callback # "none" => conn'[c].callback # "none")
                /\ DrainInv /\ NoStore => Dry(conn'[c])
  <2>1. PICK m : m = conn'[c]
    BY Zenon
  <2>2. CASE Step(c, m)
    BY <1>1, <2>1, <2>2, StepOf, Zenon
  <2>3. CASE conn'[c] = conn[c]
    BY <2>3, Zenon
  <2> QED
    BY <1>1, <2>1, <2>2, <2>3, Zenon DEF View, ConnChange
<1>3. ConnsOK'
  BY <1>1, <1>2, Zenon DEF ConnsOK, View
<1>4. Made \subseteq Made'
  BY <1>1, <1>2, NewOf, Zenon DEF Made, ConnsOK
<1>5. \A c \in Conns : conn'[c] = conn[c] => (c \in Made' <=> c \in Made)
  BY Zenon DEF Made
<1>6. Made' \subseteq Conns
  BY Zenon DEF Made
<1>7. BytesInv => BytesInv'
  BY <1>2, <1>5, <1>6, Zenon DEF BytesInv
<1>8. ReadingInv => \A c \in Made : Told(conn[c])
  BY Zenon DEF ReadingInv, Told
<1>9. DrainInv => \A c \in Made : Dry(conn[c])
  BY Zenon DEF DrainInv, Dry
<1>10. \A c \in Made' : ReadingInv => Told(conn'[c])
  BY <1>2, <1>5, <1>6, <1>8, Zenon
<1>11. \A c \in Made' : DrainInv /\ NoStore => Dry(conn'[c])
  BY <1>2, <1>5, <1>6, <1>9, Zenon
<1>12. \A c \in Made : ReadingInv /\ conn[c].callback # "none" => conn'[c].callback # "none"
  BY <1>2, Zenon DEF Made
<1> QED
  BY <1>3, <1>4, <1>7, <1>10, <1>11, <1>12, Zenon

-----------------------------------------------------------------------------
=============================================================================
