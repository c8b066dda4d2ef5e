--------------------------- MODULE NetworkProofs ---------------------------
(***************************************************************************)
(* The sessions of Network.tla, for every set of nodes and whatever breaks *)
(* and whenever.  First the shape of a session, for every catalog: who     *)
(* waits for what, what is on the way to him, and that nobody waits in a   *)
(* circle, be it through a backlog.  Then the data, when clients append    *)
(* events with their parents and nothing depends on a noop: what either    *)
(* end knows of the other, and so what a sync delivers.                    *)
(***************************************************************************)
EXTENDS Network, DistributedNodesProofs, SequenceTheorems

\* What is on the way: one message of this type, or two of these types in this order.
One(q, t) == Len(q) = 1 /\ q = <<q[1]>> /\ q[1].type = t

Two(q, t, u) == Len(q) = 2 /\ q = <<q[1], q[2]>> /\ q[1].type = t /\ q[2].type = u

\* What may be on the way to a node that is at pc p, whatever has become of the
\* other end.
Scripted(p, q) ==
    \/ q = <<>>
    \/ p \in {"c_HelloAck", "p_HelloAck"} /\ One(q, "HelloAck")
    \/ p = "c_Want" /\ One(q, "Want")
    \/ p = "c_EventsAck" /\ (One(q, "EventsAck") \/ Two(q, "EventsAck", "Events"))
    \/ p = "c_Events" /\ One(q, "Events")
    \/ p = "l_Hello" /\ One(q, "Hello")
    \/ p = "l_Have" /\ (One(q, "Have") \/ One(q, "Push"))
    \/ p = "l_Events" /\ One(q, "Events")
    \/ p = "l_EventsAck" /\ (One(q, "EventsAck") \/ Two(q, "EventsAck", "Bye"))
    \/ p = "l_Bye" /\ One(q, "Bye")

\* Where the ends of a working connection are, the connecting one and the listening
\* one: one of them has something to read.
Joint(p, q, s, r) ==
    \/ p \in {"c_HelloAck", "p_HelloAck"} /\ q = <<>> /\ s = "l_Hello" /\ One(r, "Hello")
    \/ p \in {"c_HelloAck", "p_HelloAck"} /\ One(q, "HelloAck") /\ s = "l_Have" /\ r = <<>>
    \/ p = "c_Want" /\ q = <<>> /\ s = "l_Have" /\ One(r, "Have")
    \/ p = "p_PushAck" /\ q = <<>> /\ s = "l_Have" /\ One(r, "Push")
    \/ p = "c_Want" /\ One(q, "Want") /\ s = "l_Events" /\ r = <<>>
    \/ p = "c_EventsAck" /\ q = <<>> /\ s = "l_Events" /\ One(r, "Events")
    \/ p = "c_EventsAck" /\ Two(q, "EventsAck", "Events") /\ s = "l_EventsAck" /\ r = <<>>
    \/ p = "c_Events" /\ One(q, "Events") /\ s = "l_EventsAck" /\ r = <<>>

\* Either end may be the one that connected.
Agree(p, q, s, r) == Joint(p, q, s, r) \/ Joint(s, r, p, q)

\* Both ends are in this connection and nothing has cut it.
Linked(x) ==
    LET y == link[x].peer
    IN  y # x /\ link[y].peer = x /\ ~link[x].eof /\ ~link[y].eof

\* In the backlog of a listener, or about to find that there is nobody.
Waiting(x) == pc[x] \in {"c_HelloAck", "p_HelloAck"} /\ link[x].in = <<>>

\* A record with the three fields of a link.
IsLink(r) == r = [peer |-> r.peer, in |-> r.in, eof |-> r.eof]

\* The shape of node x's part of a session: it waits for what the script sends, from a
\* peer that is in the same connection, unless the connection is cut or not yet accepted.
SessionOK(x) ==
    LET y == link[x].peer
    IN  /\ pc[x] \in {"idle", "accepting"} \union InSession
        /\ IsLink(link[x])
        /\ y \in Node
        /\ link[x].eof \in BOOLEAN
        /\ pc[x] \notin InSession => link[x] = NoLink(x) /\ peer_ids[x] = {}
        /\ pc[x] \in InSession =>
              /\ y # x
              /\ Scripted(pc[x], link[x].in)
              /\ \/ link[x].eof
                 \/ Waiting(x)
                 \/ Linked(x)
        /\ Linked(x) => Agree(pc[x], link[x].in, pc[y], link[y].in)

\* The sessions have this shape at every node.
SInv ==
    /\ DOMAIN pc = Node /\ DOMAIN link = Node /\ DOMAIN peer_ids = Node
    /\ \A x \in Node : SessionOK(x)

----------------------------------------------------------------------------
\* Reading the only message of a queue.
LEMMA ReadOne ==
    ASSUME NEW q, NEW t, One(q, t)
    PROVE  q # <<>> /\ Head(q) = q[1] /\ Tail(q) = <<>> /\ DOMAIN q = {1}
  <1>1. \A a : <<a>> # <<>> /\ Head(<<a>>) = a /\ Tail(<<a>>) = <<>> /\ DOMAIN <<a>> = {1}
    OBVIOUS
  <1>2. QED
    BY <1>1 DEF One

\* Reading the first of two.
LEMMA ReadTwo ==
    ASSUME NEW q, NEW t, NEW u, Two(q, t, u)
    PROVE  /\ q # <<>> /\ Head(q) = q[1] /\ One(Tail(q), u) /\ Tail(q)[1] = q[2]
           /\ DOMAIN q = {1, 2}
  <1> DEFINE a == q[1]
             b == q[2]
             r == <<b>>
  <1>1. /\ <<a, b>> # <<>> /\ Head(<<a, b>>) = a /\ Tail(<<a, b>>) = r
        /\ DOMAIN <<a, b>> = {1, 2}
    OBVIOUS
  <1>2. r[1] = b /\ Len(r) = 1 /\ r = <<r[1]>>
    OBVIOUS
  <1>3. q = <<a, b>> /\ b.type = u
    BY DEF Two
  <1> HIDE DEF a, b, r
  <1>4. One(r, u) /\ Tail(q) = r
    BY <1>1, <1>2, <1>3 DEF One
  <1>5. QED
    BY <1>1, <1>2, <1>3, <1>4 DEF a, b

\* What a cut leaves of a short queue.
LEMMA CutShort ==
    ASSUME NEW a, NEW b
    PROVE  /\ SubSeq(<<>>, 1, 0) = <<>>
           /\ SubSeq(<<a>>, 1, 0) = <<>>
           /\ SubSeq(<<a>>, 1, 1) = <<a>>
           /\ SubSeq(<<a, b>>, 1, 0) = <<>>
           /\ SubSeq(<<a, b>>, 1, 1) = <<a>>
           /\ SubSeq(<<a, b>>, 1, 2) = <<a, b>>
  <1> DEFINE S == {a, b}
  <1>1. <<>> \in Seq(S) /\ <<a>> \in Seq(S) /\ <<a, b>> \in Seq(S)
    OBVIOUS
  <1>2. SubSeq(<<>>, 1, 0) = <<>> /\ SubSeq(<<a>>, 1, 0) = <<>> /\ SubSeq(<<a, b>>, 1, 0) = <<>>
    BY <1>1, SubSeqEmpty
  <1>3. SubSeq(<<a>>, 1, 1) = <<a>> /\ SubSeq(<<a, b>>, 1, 2) = <<a, b>>
    <2>1. Len(<<a>>) = 1 /\ Len(<<a, b>>) = 2
      OBVIOUS
    <2>2. QED
      BY <1>1, <2>1, SubSeqFull
  <1>4. SubSeq(<<a, b>>, 1, 1) = <<a>>
    <2> DEFINE q == <<a, b>>
               s == SubSeq(q, 1, 1)
    <2>1. /\ s \in Seq(S) /\ Len(s) = IF 1 <= 1 THEN 1-1+1 ELSE 0
          /\ \A i \in 1 .. 1-1+1 : s[i] = q[1+i-1]
      <3>1. \A i \in 1 .. 1 : q[i] \in S
        OBVIOUS
      <3> HIDE DEF q, S
      <3>2. QED
        BY <3>1, SubSeqProperties
    <2>2. Len(s) = 1 /\ s[1] = a
      <3>1. q[1] = a OBVIOUS
      <3> HIDE DEF q, s, S
      <3>2. QED BY <2>1, <3>1
    <2>3. \A t \in Seq(S) : Len(t) = 1 => t = <<t[1]>>
      OBVIOUS
    <2> HIDE DEF s, q, S
    <2>4. QED
      BY <2>1, <2>2, <2>3 DEF s, q
  <1>5. QED
    BY <1>2, <1>3, <1>4

\* The connection of n once n has read a message and written msgs, or has stopped
\* with an error after k of them.
After(n, msgs, next, ids, k) ==
    LET y == link[n].peer
    IN  /\ DOMAIN pc' = Node /\ DOMAIN link' = Node /\ DOMAIN peer_ids' = Node
        /\ \A x \in Node \ {n} :
              /\ pc'[x] = pc[x]
              /\ peer_ids'[x] = peer_ids[x]
              /\ link'[x] = [peer |-> link[x].peer,
                             in   |-> IF x = y /\ Linked(n) THEN SubSeq(msgs, 1, k)
                                                           ELSE link[x].in,
                             eof  |-> IF pc'[n] = "idle" /\ link[x].peer = n
                                      THEN TRUE ELSE link[x].eof]
        /\ \/ /\ pc'[n] = "idle"
              /\ link'[n] = NoLink(n)
              /\ peer_ids'[n] = {}
           \/ /\ next # "idle" /\ k = Len(msgs)
              /\ pc'[n] = next
              /\ link'[n] = [peer |-> y, in |-> Tail(link[n].in), eof |-> link[n].eof]
              /\ peer_ids'[n] = ids

\* A node that has something to read and whose connection works has a partner.
LEMMA ReaderIsLinked ==
    ASSUME SInv, NEW n \in Node, pc[n] \in InSession, link[n].in # <<>>
    PROVE  Connected(n) <=> Linked(n)
  BY DEF SInv, SessionOK, Connected, Linked, Waiting

\* Updating one field of the three.
LEMMA LinkExcept ==
    ASSUME NEW r, IsLink(r), NEW v
    PROVE  /\ [r EXCEPT !.eof = v] = [peer |-> r.peer, in |-> r.in, eof |-> v]
           /\ [r EXCEPT !.in = v] = [peer |-> r.peer, in |-> v, eof |-> r.eof]
  BY DEF IsLink

\* What a reply does to every node: it leaves its sender at its next step, puts the
\* messages on the way to the peer if the connection works, and touches nobody else.
LEMMA ReplyEffect ==
    ASSUME SInv, NEW n \in Node, pc[n] \in InSession, link[n].in # <<>>,
           NEW S, NEW msgs \in Seq(S), NEW next, NEW ids,
           Linked(n) => link[link[n].peer].in = <<>>,
           Reply(n, msgs, next, ids)
    PROVE  \E k \in 0 .. Len(msgs) : After(n, msgs, next, ids, k)
  <1> DEFINE y       == link[n].peer
             read    == [link EXCEPT ![n].in = Tail(@)]
             Sent(k) == IF Connected(n)
                        THEN [read EXCEPT ![y].in = @ \o SubSeq(msgs, 1, k)] ELSE read
             In(x, k) == IF x = y /\ Linked(n) THEN SubSeq(msgs, 1, k) ELSE link[x].in
  <1>1. /\ DOMAIN pc = Node /\ DOMAIN link = Node /\ DOMAIN peer_ids = Node
        /\ \A x \in Node : IsLink(link[x])
        /\ y \in Node /\ y # n
    BY DEF SInv, SessionOK
  <1>2. Connected(n) <=> Linked(n)
    BY ReaderIsLinked
  <1>3. ASSUME NEW k \in 0 .. Len(msgs)
        PROVE  <<>> \o SubSeq(msgs, 1, k) = SubSeq(msgs, 1, k)
    OBVIOUS
  <1>4. ASSUME NEW k \in 0 .. Len(msgs)
        PROVE  /\ DOMAIN Sent(k) = Node
               /\ Sent(k)[n] = [peer |-> y, in |-> Tail(link[n].in), eof |-> link[n].eof]
               /\ \A x \in Node \ {n} :
                     Sent(k)[x] = [peer |-> link[x].peer, in |-> In(x, k), eof |-> link[x].eof]
    <2>1. DOMAIN read = Node /\ read[n] = [peer |-> y, in |-> Tail(link[n].in), eof |-> link[n].eof]
          /\ \A x \in Node \ {n} : read[x] = link[x]
      <3>1. [link[n] EXCEPT !.in = Tail(link[n].in)]
              = [peer |-> y, in |-> Tail(link[n].in), eof |-> link[n].eof]
        BY <1>1, LinkExcept
      <3>2. QED
        BY <1>1, <3>1
    <2>2. CASE ~Connected(n)
      <3>1. \A x \in Node : link[x] = [peer |-> link[x].peer, in |-> link[x].in, eof |-> link[x].eof]
        BY <1>1 DEF IsLink
      <3>2. QED
        BY <1>1, <1>2, <2>1, <2>2, <3>1
    <2>3. CASE Connected(n)
      <3>1. read[y].in = <<>>
        BY <1>1, <1>2, <2>1, <2>3
      <3>2. Sent(k) = [read EXCEPT ![y].in = SubSeq(msgs, 1, k)]
        BY <1>3, <2>3, <3>1
      <3>3. [link[y] EXCEPT !.in = SubSeq(msgs, 1, k)]
              = [peer |-> link[y].peer, in |-> SubSeq(msgs, 1, k), eof |-> link[y].eof]
        BY <1>1, LinkExcept
      <3>4. \A x \in Node \ {n, y} :
               link[x] = [peer |-> link[x].peer, in |-> In(x, k), eof |-> link[x].eof]
        BY <1>1 DEF IsLink
      <3> HIDE DEF read, Sent, In
      <3>5. /\ DOMAIN Sent(k) = Node
            /\ Sent(k)[y] = [read[y] EXCEPT !.in = SubSeq(msgs, 1, k)]
            /\ \A x \in Node \ {y} : Sent(k)[x] = read[x]
        BY <1>1, <2>1, <3>2
      <3>6. Sent(k)[y] = [peer |-> link[y].peer, in |-> In(y, k), eof |-> link[y].eof]
        BY <1>1, <1>2, <2>1, <2>3, <3>3, <3>5 DEF In
      <3>7. QED
        BY <1>1, <2>1, <3>4, <3>5, <3>6
    <2>4. QED
      BY <2>2, <2>3
  <1>5. ASSUME NEW k \in 0 .. Len(msgs), Return(n, Sent(k))
        PROVE  After(n, msgs, next, ids, k)
    <2> HIDE DEF Sent, In
    <2>1. pc'[n] = "idle" /\ DOMAIN pc' = Node /\ \A x \in Node \ {n} : pc'[x] = pc[x]
      BY <1>1, <1>5 DEF Return
    <2>2. /\ DOMAIN peer_ids' = Node /\ peer_ids'[n] = {}
          /\ \A x \in Node \ {n} : peer_ids'[x] = peer_ids[x]
      BY <1>1, <1>5 DEF Return
    <2>3. /\ DOMAIN link' = Node /\ link'[n] = NoLink(n)
          /\ \A x \in Node \ {n} :
                link'[x] = [peer |-> link[x].peer, in |-> In(x, k),
                            eof |-> IF link[x].peer = n THEN TRUE ELSE link[x].eof]
      <3>1. ASSUME NEW x \in Node \ {n}
            PROVE  /\ Sent(k)[x] = [peer |-> link[x].peer, in |-> In(x, k), eof |-> link[x].eof]
                   /\ [Sent(k)[x] EXCEPT !.eof = TRUE]
                        = [peer |-> link[x].peer, in |-> In(x, k), eof |-> TRUE]
                   /\ Sent(k)[x].peer = link[x].peer
        <4> DEFINE l == Sent(k)[x]
        <4>1. l = [peer |-> link[x].peer, in |-> In(x, k), eof |-> link[x].eof]
          BY <1>4
        <4>3. l.peer = link[x].peer /\ l.in = In(x, k) /\ IsLink(l)
          <5> HIDE DEF l, In
          <5>1. QED
            BY <4>1 DEF IsLink
        <4>2. [l EXCEPT !.eof = TRUE] = [peer |-> link[x].peer, in |-> In(x, k), eof |-> TRUE]
          <5> HIDE DEF l, In
          <5>1. QED
            BY <4>3, LinkExcept
        <4> HIDE DEF l
        <4>4. QED
          BY <4>1, <4>2, <4>3 DEF l
      <3>3. link' = [x \in Node |-> IF x = n THEN NoLink(n)
                                    ELSE IF Sent(k)[x].peer = n THEN [Sent(k)[x] EXCEPT !.eof = TRUE]
                                    ELSE Sent(k)[x]]
        BY <1>5 DEF Return, HungUp
      <3>4. QED
        BY <3>1, <3>3
    <2>4. QED
      BY <2>1, <2>2, <2>3 DEF After, In
  <1>6. CASE /\ next # "idle"
             /\ pc' = [pc EXCEPT ![n] = next]
             /\ link' = Sent(Len(msgs))
             /\ peer_ids' = [peer_ids EXCEPT ![n] = ids]
    <2>1. Len(msgs) \in 0 .. Len(msgs)
      OBVIOUS
    <2> HIDE DEF Sent
    <2>2. After(n, msgs, next, ids, Len(msgs))
      BY <1>1, <1>4, <1>6, <2>1 DEF After
    <2>3. QED
      BY <2>1, <2>2
  <1>7. CASE Return(n, Sent(Len(msgs)))
    <2>1. Len(msgs) \in 0 .. Len(msgs)
      OBVIOUS
    <2>2. QED
      BY <1>5, <1>7, <2>1
  <1>8. CASE \E k \in 1 .. Len(msgs) : Return(n, Sent(k - 1))
    <2>1. PICK k \in 1 .. Len(msgs) : Return(n, Sent(k - 1))
      BY <1>8
    <2>2. k - 1 \in 0 .. Len(msgs)
      OBVIOUS
    <2>3. QED
      BY <1>5, <2>1, <2>2
  <1>9. QED
    BY <1>6, <1>7, <1>8 DEF Reply

\* A node that goes back to idle keeps the shape of all sessions: whoever was
\* connected to it, or in its backlog, comes to the end of the stream.
LEMMA LeaveKeepsSInv ==
    ASSUME SInv, NEW n \in Node,
           DOMAIN pc' = Node, DOMAIN link' = Node, DOMAIN peer_ids' = Node,
           pc'[n] = "idle", link'[n] = NoLink(n), peer_ids'[n] = {},
           \A x \in Node \ {n} :
              /\ pc'[x] = pc[x] /\ peer_ids'[x] = peer_ids[x]
              /\ link'[x].peer = link[x].peer
              /\ \/ link'[x].in = link[x].in
                 \/ link[x].peer = n /\ Scripted(pc[x], link'[x].in)
              /\ link'[x].eof = IF link[x].peer = n THEN TRUE ELSE link[x].eof
              /\ IsLink(link'[x])
    PROVE  SInv'
  <1>1. "idle" \notin InSession
    BY DEF InSession, Serving, Expected
  <1>2. link'[n].peer = n /\ link'[n].eof = FALSE /\ IsLink(link'[n])
    BY DEF NoLink, IsLink
  <1>3. SessionOK(n)'
    BY <1>1, <1>2 DEF SessionOK, Linked
  <1>4. ASSUME NEW x \in Node \ {n}
        PROVE  SessionOK(x)'
    <2> DEFINE z == link[x].peer
    <2>1. SessionOK(x)
      BY DEF SInv
    <2>2. CASE z = n
      <3>1. pc[x] \in InSession
        BY <2>1, <2>2 DEF SessionOK, NoLink
      <3>2. link'[x].eof = TRUE
        BY <2>2
      <3>3. Scripted(pc'[x], link'[x].in)
        BY <2>1, <3>1 DEF SessionOK
      <3>4. QED
        BY <2>1, <3>1, <3>2, <3>3 DEF SessionOK, Linked
    <2>3. CASE z # n
      <3>1. /\ pc'[x] = pc[x] /\ peer_ids'[x] = peer_ids[x]
            /\ link'[x].peer = z /\ link'[x].in = link[x].in /\ link'[x].eof = link[x].eof
        BY <2>3
      <3>2. z \in Node
        BY <2>1 DEF SessionOK
      <3>3. link'[x] = link[x]
        BY <2>1, <3>1 DEF SessionOK, IsLink
      <3>4. /\ link'[z].peer = link[z].peer
            /\ link[z].peer # n => link'[z].eof = link[z].eof /\ link'[z].in = link[z].in
        BY <2>3, <3>2
      <3>5. Linked(x) <=> Linked(x)'
        BY <3>1, <3>4 DEF Linked
      <3>6. Linked(x) => link'[z].in = link[z].in
        BY <3>4 DEF Linked
      <3>7. Waiting(x) <=> Waiting(x)'
        BY <3>1 DEF Waiting
      <3>8. Linked(x)' => Agree(pc'[x], link'[x].in, pc'[z], link'[z].in)
        BY <2>1, <2>3, <3>1, <3>2, <3>5, <3>6 DEF SessionOK
      <3>9. QED
        BY <2>1, <3>1, <3>3, <3>5, <3>7, <3>8 DEF SessionOK
    <2>4. QED
      BY <2>2, <2>3
  <1>5. QED
    BY <1>3, <1>4 DEF SInv

\* A step that reads a message keeps the shape of all sessions when what is left to
\* read, what is written and where the node goes on fit the script.
LEMMA ReplyKeepsSInv ==
    ASSUME SInv, NEW n \in Node, pc[n] \in InSession, link[n].in # <<>>,
           NEW S, NEW msgs \in Seq(S), NEW next \in InSession \union {"idle"}, NEW ids,
           Reply(n, msgs, next, ids),
           next # "idle" => Scripted(next, Tail(link[n].in)),
           Linked(n) =>
              LET y == link[n].peer
              IN  /\ link[y].in = <<>>
                  /\ \A k \in 0 .. Len(msgs) : Scripted(pc[y], SubSeq(msgs, 1, k))
                  /\ next # "idle" => Agree(next, Tail(link[n].in), pc[y], msgs)
    PROVE  SInv'
  <1> DEFINE y == link[n].peer
  <1>1. PICK k \in 0 .. Len(msgs) : After(n, msgs, next, ids, k)
    BY ReplyEffect
  <1>2. SubSeq(msgs, 1, Len(msgs)) = msgs
    BY SubSeqFull
  <1>3. /\ y \in Node /\ y # n
        /\ link[n].eof \in BOOLEAN
        /\ link[n].eof \/ Linked(n)
    BY DEF SInv, SessionOK, Waiting
  <1>4. /\ DOMAIN pc' = Node /\ DOMAIN link' = Node /\ DOMAIN peer_ids' = Node
        /\ \A x \in Node \ {n} :
              /\ pc'[x] = pc[x] /\ peer_ids'[x] = peer_ids[x]
              /\ link'[x].peer = link[x].peer
              /\ link'[x].in = IF x = y /\ Linked(n) THEN SubSeq(msgs, 1, k) ELSE link[x].in
              /\ link'[x].eof = IF pc'[n] = "idle" /\ link[x].peer = n
                                THEN TRUE ELSE link[x].eof
              /\ IsLink(link'[x])
    <2>1. ASSUME NEW l, NEW p, NEW q, NEW e, l = [peer |-> p, in |-> q, eof |-> e]
          PROVE  l.peer = p /\ l.in = q /\ l.eof = e /\ IsLink(l)
      BY <2>1 DEF IsLink
    <2>2. ASSUME NEW x \in Node \ {n}
          PROVE  /\ pc'[x] = pc[x] /\ peer_ids'[x] = peer_ids[x]
                 /\ link'[x].peer = link[x].peer
                 /\ link'[x].in = IF x = y /\ Linked(n) THEN SubSeq(msgs, 1, k) ELSE link[x].in
                 /\ link'[x].eof = IF pc'[n] = "idle" /\ link[x].peer = n
                                   THEN TRUE ELSE link[x].eof
                 /\ IsLink(link'[x])
      <3> DEFINE in  == IF x = y /\ Linked(n) THEN SubSeq(msgs, 1, k) ELSE link[x].in
                 eof == IF pc'[n] = "idle" /\ link[x].peer = n THEN TRUE ELSE link[x].eof
      <3>1. link'[x] = [peer |-> link[x].peer, in |-> in, eof |-> eof]
        BY <1>1 DEF After
      <3>2. pc'[x] = pc[x] /\ peer_ids'[x] = peer_ids[x]
        BY <1>1 DEF After
      <3> HIDE DEF in, eof
      <3>3. link'[x].peer = link[x].peer /\ link'[x].in = in /\ link'[x].eof = eof /\ IsLink(link'[x])
        BY <2>1, <3>1
      <3>4. QED
        BY <3>2, <3>3 DEF in, eof
    <2>3. QED
      BY <1>1, <2>2 DEF After
  <1>5. "idle" \notin InSession
    BY DEF InSession, Serving, Expected
  <1>6. CASE pc'[n] = "idle"
    <2>1. link'[n] = NoLink(n) /\ peer_ids'[n] = {}
      BY <1>1, <1>5, <1>6 DEF After
    <2>2. \A x \in Node \ {n} :
             /\ \/ link'[x].in = link[x].in
                \/ link[x].peer = n /\ Scripted(pc[x], link'[x].in)
             /\ link'[x].eof = IF link[x].peer = n THEN TRUE ELSE link[x].eof
      BY <1>4, <1>6 DEF Linked
    <2>3. QED
      BY <1>4, <1>6, <2>1, <2>2, LeaveKeepsSInv
  <1>7. CASE pc'[n] # "idle"
    <2>1. /\ next # "idle" /\ k = Len(msgs) /\ pc'[n] = next
          /\ link'[n] = [peer |-> y, in |-> Tail(link[n].in), eof |-> link[n].eof]
      BY <1>1, <1>7 DEF After
    <2>2. /\ link'[n].peer = y /\ link'[n].in = Tail(link[n].in)
          /\ link'[n].eof = link[n].eof /\ IsLink(link'[n])
      BY <2>1 DEF IsLink
    <2>3. Linked(n)' <=> Linked(n)
      BY <1>3, <1>4, <1>7, <2>2 DEF Linked
    <2>4. Linked(n) => Agree(pc'[n], link'[n].in, pc'[y], link'[y].in)
      <3>1. SUFFICES ASSUME Linked(n)
                     PROVE  Agree(pc'[n], link'[n].in, pc'[y], link'[y].in)
        OBVIOUS
      <3>2. link'[y].in = msgs /\ pc'[y] = pc[y]
        BY <1>2, <1>3, <1>4, <2>1, <3>1
      <3>3. QED
        BY <2>1, <2>2, <3>1, <3>2
    <2>5. SessionOK(n)'
      <3>1. Scripted(pc'[n], link'[n].in)
        BY <2>1, <2>2
      <3>2. link'[n].eof \/ Linked(n)'
        BY <1>3, <2>2, <2>3
      <3>3. QED
        BY <1>3, <1>5, <2>1, <2>2, <2>3, <2>4, <3>1, <3>2 DEF SessionOK
    <2>6. ASSUME NEW x \in Node \ {n}
          PROVE  SessionOK(x)'
      <3> DEFINE z == link[x].peer
      <3>1. SessionOK(x)
        BY DEF SInv
      <3>2. /\ pc'[x] = pc[x] /\ peer_ids'[x] = peer_ids[x]
            /\ link'[x].peer = z /\ link'[x].eof = link[x].eof /\ IsLink(link'[x])
        BY <1>4, <1>7
      <3>3. z \in Node
        BY <3>1 DEF SessionOK
      <3>4. Linked(x) <=> Linked(x)'
        BY <1>4, <1>7, <2>2, <3>2, <3>3 DEF Linked
      <3>5. CASE x = y /\ Linked(n)
        <4>1. z = n /\ Linked(x)
          BY <3>5 DEF Linked
        <4>2. pc[x] \in InSession
          BY <3>1, <4>1 DEF SessionOK, NoLink
        <4>3. link'[x].in = msgs /\ Scripted(pc'[x], link'[x].in)
          BY <1>2, <1>4, <2>1, <3>5
        <4>4. Agree(pc'[x], link'[x].in, pc'[z], link'[z].in)
          BY <2>4, <3>5, <4>1 DEF Agree
        <4>5. QED
          BY <3>1, <3>2, <3>4, <4>1, <4>2, <4>3, <4>4 DEF SessionOK
      <3>6. CASE ~(x = y /\ Linked(n))
        <4>1. link'[x].in = link[x].in
          BY <1>4, <3>6
        <4>2. link'[x] = link[x]
          BY <3>1, <3>2, <4>1 DEF SessionOK, IsLink
        <4>3. Linked(x) => z # n /\ link'[z].in = link[z].in /\ pc'[z] = pc[z]
          BY <1>4, <3>3, <3>6 DEF Linked
        <4>4. Waiting(x) <=> Waiting(x)'
          BY <3>2, <4>1 DEF Waiting
        <4>5. QED
          BY <3>1, <3>2, <3>4, <4>1, <4>2, <4>3, <4>4 DEF SessionOK
      <3>7. QED
        BY <3>5, <3>6
    <2>7. QED
      BY <1>4, <2>5, <2>6 DEF SInv
  <1>8. QED
    BY <1>6, <1>7

\* While one end has something to read, nothing is on the way to the other.
LEMMA HalfDuplex ==
    ASSUME SInv, NEW n \in Node, Linked(n), link[n].in # <<>>
    PROVE  link[link[n].peer].in = <<>>
  <1>1. Agree(pc[n], link[n].in, pc[link[n].peer], link[link[n].peer].in)
    BY DEF SInv, SessionOK
  <1>2. QED
    BY <1>1 DEF Agree, Joint

\* Messages written by hand.
LEMMA WriteOne ==
    ASSUME NEW m
    PROVE  One(<<m>>, m.type) /\ <<m>>[1] = m
  BY DEF One

\* A reply of two messages, and of one.
LEMMA WriteTwo ==
    ASSUME NEW m, NEW w
    PROVE  /\ Two(<<m, w>>, m.type, w.type) /\ <<m, w>>[1] = m /\ <<m, w>>[2] = w
           /\ One(<<m>>, m.type)
  BY DEF One, Two

\* A step that reads a message and writes none, one or two.
LEMMA AnswerNone ==
    ASSUME SInv, NEW n \in Node, pc[n] \in InSession, link[n].in # <<>>,
           NEW next \in InSession \union {"idle"}, NEW ids, Reply(n, <<>>, next, ids),
           next # "idle" => Scripted(next, Tail(link[n].in)),
           Linked(n) /\ next # "idle" =>
              Agree(next, Tail(link[n].in), pc[link[n].peer], <<>>)
    PROVE  SInv'
  <1>1. <<>> \in Seq({}) /\ 0 .. Len(<<>>) = {0}
    OBVIOUS
  <1>2. \A k \in 0 .. Len(<<>>) : Scripted(pc[link[n].peer], SubSeq(<<>>, 1, k))
    BY <1>1, CutShort DEF Scripted
  <1> DEFINE msgs == <<>>
  <1> HIDE DEF msgs
  <1>3. QED
    BY <1>1, <1>2, HalfDuplex, ReplyKeepsSInv DEF msgs

\* A reply of one message keeps the shape of sessions, when the message is what the
\* other end waits for.
LEMMA AnswerOne ==
    ASSUME SInv, NEW n \in Node, pc[n] \in InSession, link[n].in # <<>>,
           NEW m, NEW next \in InSession \union {"idle"}, NEW ids, Reply(n, <<m>>, next, ids),
           next # "idle" => Scripted(next, Tail(link[n].in)),
           Linked(n) =>
              LET y == link[n].peer
              IN  /\ Scripted(pc[y], <<m>>)
                  /\ next # "idle" => Agree(next, Tail(link[n].in), pc[y], <<m>>)
    PROVE  SInv'
  <1> DEFINE msgs == <<m>>
  <1>1. msgs \in Seq({m}) /\ 0 .. Len(msgs) = {0, 1}
    OBVIOUS
  <1>2. SubSeq(msgs, 1, 0) = <<>> /\ SubSeq(msgs, 1, 1) = msgs
    BY CutShort
  <1>3. Reply(n, msgs, next, ids) /\ Scripted(pc[link[n].peer], <<>>)
    BY DEF Scripted
  <1>4. Linked(n) => LET y == link[n].peer
                     IN  /\ Scripted(pc[y], msgs)
                         /\ next # "idle" => Agree(next, Tail(link[n].in), pc[y], msgs)
    OBVIOUS
  <1> HIDE DEF msgs
  <1>5. QED
    BY <1>1, <1>2, <1>3, <1>4, HalfDuplex, ReplyKeepsSInv

\* A reply of two messages keeps it too, when both are in the other end's script.
LEMMA AnswerTwo ==
    ASSUME SInv, NEW n \in Node, pc[n] \in InSession, link[n].in # <<>>,
           NEW m, NEW w, NEW next \in InSession \union {"idle"}, NEW ids,
           Reply(n, <<m, w>>, next, ids),
           next # "idle" => Scripted(next, Tail(link[n].in)),
           Linked(n) =>
              LET y == link[n].peer
              IN  /\ Scripted(pc[y], <<m>>) /\ Scripted(pc[y], <<m, w>>)
                  /\ next # "idle" => Agree(next, Tail(link[n].in), pc[y], <<m, w>>)
    PROVE  SInv'
  <1> DEFINE msgs == <<m, w>>
  <1>1. msgs \in Seq({m, w}) /\ 0 .. Len(msgs) = {0, 1, 2}
    OBVIOUS
  <1>2. SubSeq(msgs, 1, 0) = <<>> /\ SubSeq(msgs, 1, 1) = <<m>> /\ SubSeq(msgs, 1, 2) = msgs
    BY CutShort
  <1>3. Reply(n, msgs, next, ids) /\ Scripted(pc[link[n].peer], <<>>)
    BY DEF Scripted
  <1>4. Linked(n) => LET y == link[n].peer
                     IN  /\ Scripted(pc[y], <<m>>) /\ Scripted(pc[y], msgs)
                         /\ next # "idle" => Agree(next, Tail(link[n].in), pc[y], msgs)
    OBVIOUS
  <1> HIDE DEF msgs
  <1>5. QED
    BY <1>1, <1>2, <1>3, <1>4, HalfDuplex, ReplyKeepsSInv

----------------------------------------------------------------------------
\* What a node that reads its message finds, and where the other end is then.
LEMMA Reads ==
    ASSUME SInv, NEW n \in Node, NEW at \in DOMAIN Expected, Receives(n, at)
    PROVE  /\ pc[n] = at /\ pc[n] \in InSession /\ link[n].in # <<>>
           /\ Scripted(at, link[n].in)
           /\ Msg(n) = link[n].in[1]
           /\ Linked(n) => Agree(at, link[n].in, pc[link[n].peer], link[link[n].peer].in)
  <1>1. pc[n] = at /\ pc[n] \in InSession /\ link[n].in # <<>>
    BY DEF Receives, InSession
  <1>2. /\ Scripted(at, link[n].in)
        /\ Linked(n) => Agree(at, link[n].in, pc[link[n].peer], link[link[n].peer].in)
    BY <1>1 DEF SInv, SessionOK
  <1>3. Msg(n) = link[n].in[1]
    BY <1>1, <1>2, ReadOne, ReadTwo DEF Msg, Scripted
  <1>4. QED
    BY <1>1, <1>2, <1>3

\* The connecting end, step by step.
LEMMA ReceiveHelloAckSInv ==
    ASSUME SInv, NEW n \in Node, ReceiveHelloAck(n)
    PROVE  SInv'
  <1> DEFINE q == link[n].in
             y == link[n].peer
             m == [type |-> "Have", ids |-> Keys(history[n])]
  <1>1. "c_HelloAck" \in DOMAIN Expected /\ "c_Want" \in InSession
    BY DEF Expected, InSession, Serving
  <1>2. Receives(n, "c_HelloAck") /\ Reply(n, <<m>>, "c_Want", {})
    BY DEF ReceiveHelloAck
  <1>3. /\ pc[n] \in InSession /\ q # <<>> /\ Scripted("c_HelloAck", q)
        /\ Linked(n) => Agree("c_HelloAck", q, pc[y], link[y].in)
    BY <1>1, <1>2, Reads
  <1>4. One(q, "HelloAck")
    BY <1>2, <1>3, Reads, <1>1 DEF Scripted, Receives, Expected
  <1>5. Tail(q) = <<>>
    BY <1>4, ReadOne
  <1>6. Linked(n) => pc[y] = "l_Have"
    BY <1>3, <1>4 DEF Agree, Joint
  <1>7. One(<<m>>, "Have")
    BY WriteOne
  <1> HIDE DEF m
  <1>8. /\ Scripted("c_Want", Tail(q))
        /\ Linked(n) => Scripted(pc[y], <<m>>) /\ Agree("c_Want", Tail(q), pc[y], <<m>>)
    BY <1>5, <1>6, <1>7 DEF Scripted, Agree, Joint
  <1>9. QED
    BY <1>1, <1>2, <1>3, <1>8, AnswerOne

\* The connecting side's steps keep the shape of sessions: sync_history on Want,
LEMMA ReceiveWantSInv ==
    ASSUME SInv, NEW n \in Node, ReceiveWant(n)
    PROVE  SInv'
  <1> DEFINE q == link[n].in
             y == link[n].peer
             m == [type   |-> "Events",
                   events |-> {history[n].events[i] :
                                  i \in Msg(n).ids \intersect Keys(history[n])}]
  <1>1. "c_Want" \in DOMAIN Expected /\ "c_EventsAck" \in InSession
    BY DEF Expected, InSession, Serving
  <1>2. Receives(n, "c_Want") /\ Reply(n, <<m>>, "c_EventsAck", {})
    BY DEF ReceiveWant
  <1>3. /\ pc[n] \in InSession /\ q # <<>> /\ Scripted("c_Want", q)
        /\ Linked(n) => Agree("c_Want", q, pc[y], link[y].in)
    BY <1>1, <1>2, Reads
  <1>4. One(q, "Want")
    BY <1>2, <1>3, Reads, <1>1 DEF Scripted, Receives, Expected
  <1>5. Tail(q) = <<>>
    BY <1>4, ReadOne
  <1>6. Linked(n) => pc[y] = "l_Events"
    BY <1>3, <1>4 DEF Agree, Joint
  <1>7. One(<<m>>, "Events")
    BY WriteOne
  <1> HIDE DEF m
  <1>8. /\ Scripted("c_EventsAck", Tail(q))
        /\ Linked(n) => Scripted(pc[y], <<m>>) /\ Agree("c_EventsAck", Tail(q), pc[y], <<m>>)
    BY <1>5, <1>6, <1>7 DEF Scripted, Agree, Joint
  <1>9. QED
    BY <1>1, <1>2, <1>3, <1>8, AnswerOne

\* on EventsAck,
LEMMA ReceiveEventsAckSInv ==
    ASSUME SInv, NEW n \in Node, ReceiveEventsAck(n)
    PROVE  SInv'
  <1> DEFINE q == link[n].in
             y == link[n].peer
  <1>1. "c_EventsAck" \in DOMAIN Expected /\ "c_Events" \in InSession
    BY DEF Expected, InSession
  <1>2. Receives(n, "c_EventsAck") /\ Reply(n, <<>>, "c_Events", {})
    BY DEF ReceiveEventsAck
  <1>3. /\ pc[n] \in InSession /\ q # <<>> /\ Scripted("c_EventsAck", q)
        /\ Linked(n) => Agree("c_EventsAck", q, pc[y], link[y].in)
    BY <1>1, <1>2, Reads
  <1>4. One(q, "EventsAck") \/ Two(q, "EventsAck", "Events")
    BY <1>3 DEF Scripted
  <1>5. Scripted("c_Events", Tail(q))
    BY <1>4, ReadOne, ReadTwo DEF Scripted
  <1>6. ASSUME Linked(n) PROVE Agree("c_Events", Tail(q), pc[y], <<>>)
    <2>1. pc[y] = "l_EventsAck" /\ Two(q, "EventsAck", "Events")
      BY <1>3, <1>6 DEF Agree, Joint
    <2>2. One(Tail(q), "Events")
      BY <2>1, ReadTwo
    <2>3. QED
      BY <2>1, <2>2 DEF Agree, Joint
  <1>7. QED
    BY <1>1, <1>2, <1>3, <1>5, <1>6, AnswerNone

\* on the events that follow it,
LEMMA ReceiveEventsSInv ==
    ASSUME SInv, NEW n \in Node, ReceiveEvents(n)
    PROVE  SInv'
  <1> DEFINE q == link[n].in
             y == link[n].peer
             m == Simple("EventsAck")
             w == Simple("Bye")
  <1>1. "c_Events" \in DOMAIN Expected
    BY DEF Expected
  <1>2. Receives(n, "c_Events") /\ Reply(n, <<m, w>>, "idle", {})
    BY DEF ReceiveEvents
  <1>3. /\ pc[n] \in InSession /\ q # <<>> /\ Scripted("c_Events", q)
        /\ Linked(n) => Agree("c_Events", q, pc[y], link[y].in)
    BY <1>1, <1>2, Reads
  <1>4. Linked(n) => pc[y] = "l_EventsAck"
    BY <1>3 DEF Agree, Joint
  <1>5. Two(<<m, w>>, "EventsAck", "Bye") /\ One(<<m>>, "EventsAck")
    BY WriteTwo DEF Simple
  <1> HIDE DEF m, w
  <1>6. Linked(n) => Scripted(pc[y], <<m>>) /\ Scripted(pc[y], <<m, w>>)
    BY <1>4, <1>5 DEF Scripted
  <1>7. QED
    BY <1>2, <1>3, <1>6, AnswerTwo

\* and push_event on HelloAck.
LEMMA PushReceiveHelloAckSInv ==
    ASSUME SInv, NEW n \in Node, PushReceiveHelloAck(n)
    PROVE  SInv'
  <1> DEFINE q == link[n].in
             y == link[n].peer
             m(i) == [type |-> "Push", events |-> {history[n].events[i]}]
  <1>1. "p_HelloAck" \in DOMAIN Expected /\ "p_PushAck" \in InSession
    BY DEF Expected, InSession
  <1>2. PICK i \in Keys(history[n]) :
           Receives(n, "p_HelloAck") /\ Reply(n, <<m(i)>>, "p_PushAck", {})
    BY DEF PushReceiveHelloAck
  <1>3. /\ pc[n] \in InSession /\ q # <<>> /\ Scripted("p_HelloAck", q)
        /\ Linked(n) => Agree("p_HelloAck", q, pc[y], link[y].in)
    BY <1>1, <1>2, Reads
  <1>4. One(q, "HelloAck")
    BY <1>3 DEF Scripted
  <1>5. Tail(q) = <<>>
    BY <1>4, ReadOne
  <1>6. Linked(n) => pc[y] = "l_Have"
    BY <1>3 DEF Agree, Joint
  <1>7. One(<<m(i)>>, "Push")
    BY WriteOne
  <1> HIDE DEF m
  <1>8. /\ Scripted("p_PushAck", Tail(q))
        /\ Linked(n) => Scripted(pc[y], <<m(i)>>) /\ Agree("p_PushAck", Tail(q), pc[y], <<m(i)>>)
    BY <1>5, <1>6, <1>7 DEF Scripted, Agree, Joint
  <1>9. QED
    BY <1>1, <1>2, <1>3, <1>8, AnswerOne

\* The listening end, step by step.
LEMMA HandleHelloSInv ==
    ASSUME SInv, NEW n \in Node, HandleHello(n)
    PROVE  SInv'
  <1> DEFINE q == link[n].in
             y == link[n].peer
             m == Simple("HelloAck")
  <1>1. "l_Hello" \in DOMAIN Expected /\ "l_Have" \in InSession
    BY DEF Expected, InSession, Serving
  <1>2. Receives(n, "l_Hello") /\ Reply(n, <<m>>, "l_Have", {})
    BY DEF HandleHello
  <1>3. /\ pc[n] \in InSession /\ q # <<>> /\ Scripted("l_Hello", q)
        /\ Linked(n) => Agree("l_Hello", q, pc[y], link[y].in)
    BY <1>1, <1>2, Reads
  <1>4. One(q, "Hello")
    BY <1>2, <1>3, Reads, <1>1 DEF Scripted, Receives, Expected
  <1>5. Tail(q) = <<>>
    BY <1>4, ReadOne
  <1>6. Linked(n) => pc[y] \in {"c_HelloAck", "p_HelloAck"}
    BY <1>3, <1>4 DEF Agree, Joint
  <1>7. One(<<m>>, "HelloAck")
    BY WriteOne DEF Simple
  <1> HIDE DEF m
  <1>8. /\ Scripted("l_Have", Tail(q))
        /\ Linked(n) => Scripted(pc[y], <<m>>) /\ Agree("l_Have", Tail(q), pc[y], <<m>>)
    BY <1>5, <1>6, <1>7 DEF Scripted, Agree, Joint
  <1>9. QED
    BY <1>1, <1>2, <1>3, <1>8, AnswerOne

\* So do the listening side's: handle_connection on Have,
LEMMA HandleHaveSInv ==
    ASSUME SInv, NEW n \in Node, HandleHave(n)
    PROVE  SInv'
  <1> DEFINE q == link[n].in
             y == link[n].peer
             m == [type |-> "Want", ids |-> Msg(n).ids \ Keys(history[n])]
  <1>1. "l_Have" \in DOMAIN Expected /\ "l_Events" \in InSession
    BY DEF Expected, InSession, Serving
  <1>2. Receives(n, "l_Have") /\ Reply(n, <<m>>, "l_Events", Msg(n).ids)
    BY DEF HandleHave
  <1>3. /\ pc[n] \in InSession /\ q # <<>> /\ Scripted("l_Have", q)
        /\ Linked(n) => Agree("l_Have", q, pc[y], link[y].in)
    BY <1>1, <1>2, Reads
  <1>4. One(q, "Have")
    <2>1. q[1].type = "Have"
      BY <1>1, <1>2, Reads DEF Receives, Expected
    <2>2. QED
      BY <1>3, <2>1 DEF Scripted, One
  <1>5. Tail(q) = <<>>
    BY <1>4, ReadOne
  <1>6. Linked(n) => pc[y] = "c_Want"
    <2>1. ~One(q, "Push") /\ ~One(q, "Hello")
      BY <1>4 DEF One
    <2>2. QED
      BY <1>3, <2>1 DEF Agree, Joint
  <1>7. One(<<m>>, "Want")
    BY WriteOne
  <1> HIDE DEF m
  <1>8. /\ Scripted("l_Events", Tail(q))
        /\ Linked(n) => Scripted(pc[y], <<m>>) /\ Agree("l_Events", Tail(q), pc[y], <<m>>)
    BY <1>5, <1>6, <1>7 DEF Scripted, Agree, Joint
  <1>9. QED
    BY <1>1, <1>2, <1>3, <1>8, AnswerOne

\* on Events,
LEMMA HandleEventsSInv ==
    ASSUME SInv, NEW n \in Node, HandleEvents(n)
    PROVE  SInv'
  <1> DEFINE q == link[n].in
             y == link[n].peer
             m == Simple("EventsAck")
             w == [type   |-> "Events",
                   events |-> {history'[n].events[i] : i \in Keys(history'[n]) \ peer_ids[n]}]
  <1>1. "l_Events" \in DOMAIN Expected /\ "l_EventsAck" \in InSession
    BY DEF Expected, InSession
  <1>2. Receives(n, "l_Events") /\ Reply(n, <<m, w>>, "l_EventsAck", peer_ids[n])
    BY DEF HandleEvents
  <1>3. /\ pc[n] \in InSession /\ q # <<>> /\ Scripted("l_Events", q)
        /\ Linked(n) => Agree("l_Events", q, pc[y], link[y].in)
    BY <1>1, <1>2, Reads
  <1>4. One(q, "Events")
    BY <1>3 DEF Scripted
  <1>5. Tail(q) = <<>>
    BY <1>4, ReadOne
  <1>6. Linked(n) => pc[y] = "c_EventsAck"
    BY <1>3 DEF Agree, Joint
  <1>7. Two(<<m, w>>, "EventsAck", "Events") /\ One(<<m>>, "EventsAck")
    BY WriteTwo DEF Simple
  <1> HIDE DEF m, w
  <1>8. /\ Scripted("l_EventsAck", Tail(q))
        /\ Linked(n) => /\ Scripted(pc[y], <<m>>) /\ Scripted(pc[y], <<m, w>>)
                        /\ Agree("l_EventsAck", Tail(q), pc[y], <<m, w>>)
    BY <1>5, <1>6, <1>7 DEF Scripted, Agree, Joint
  <1>9. QED
    BY <1>1, <1>2, <1>3, <1>8, AnswerTwo

\* on EventsAck,
LEMMA HandleEventsAckSInv ==
    ASSUME SInv, NEW n \in Node, HandleEventsAck(n)
    PROVE  SInv'
  <1> DEFINE q == link[n].in
             y == link[n].peer
  <1>1. "l_EventsAck" \in DOMAIN Expected /\ "l_Bye" \in InSession
    BY DEF Expected, InSession, Serving
  <1>2. Receives(n, "l_EventsAck") /\ Reply(n, <<>>, "l_Bye", peer_ids[n])
    BY DEF HandleEventsAck
  <1>3. /\ pc[n] \in InSession /\ q # <<>> /\ Scripted("l_EventsAck", q)
        /\ Linked(n) => Agree("l_EventsAck", q, pc[y], link[y].in)
    BY <1>1, <1>2, Reads
  <1>4. One(q, "EventsAck") \/ Two(q, "EventsAck", "Bye")
    BY <1>3 DEF Scripted
  <1>5. Scripted("l_Bye", Tail(q))
    BY <1>4, ReadOne, ReadTwo DEF Scripted
  <1>6. ~Linked(n)
    BY <1>3 DEF Agree, Joint
  <1>7. QED
    BY <1>1, <1>2, <1>3, <1>5, <1>6, AnswerNone

\* and on Bye.
LEMMA HandleByeSInv ==
    ASSUME SInv, NEW n \in Node, HandleBye(n)
    PROVE  SInv'
  <1>1. pc[n] \in InSession /\ link[n].in # <<>> /\ Reply(n, <<>>, "idle", {})
    BY DEF HandleBye, InSession, Serving
  <1>2. QED
    BY <1>1, AnswerNone

----------------------------------------------------------------------------
\* A call that gives up.
LEMMA ReturnSInv ==
    ASSUME SInv, NEW n \in Node, Return(n, link)
    PROVE  SInv'
  <1>1. /\ DOMAIN pc = Node /\ DOMAIN link = Node /\ DOMAIN peer_ids = Node
        /\ \A x \in Node : IsLink(link[x])
    BY DEF SInv, SessionOK
  <1>2. /\ pc'[n] = "idle" /\ DOMAIN pc' = Node /\ \A x \in Node \ {n} : pc'[x] = pc[x]
        /\ DOMAIN peer_ids' = Node /\ peer_ids'[n] = {}
        /\ \A x \in Node \ {n} : peer_ids'[x] = peer_ids[x]
    BY <1>1 DEF Return
  <1>3. /\ DOMAIN link' = Node /\ link'[n] = NoLink(n)
        /\ \A x \in Node \ {n} :
              link'[x] = IF link[x].peer = n THEN [link[x] EXCEPT !.eof = TRUE] ELSE link[x]
    BY DEF Return, HungUp
  <1>4. ASSUME NEW x \in Node \ {n}
        PROVE  /\ link'[x].peer = link[x].peer /\ link'[x].in = link[x].in
               /\ link'[x].eof = IF link[x].peer = n THEN TRUE ELSE link[x].eof
               /\ IsLink(link'[x])
    <2>1. [link[x] EXCEPT !.eof = TRUE]
             = [peer |-> link[x].peer, in |-> link[x].in, eof |-> TRUE]
      BY <1>1, LinkExcept
    <2>2. CASE link[x].peer = n
      BY <1>3, <2>1, <2>2 DEF IsLink
    <2>3. CASE link[x].peer # n
      BY <1>1, <1>3, <2>3
    <2>4. QED
      BY <2>2, <2>3
  <1>5. QED
    BY <1>2, <1>3, <1>4, LeaveKeepsSInv

\* What a cut leaves is what may be on the way.
LEMMA CutScript ==
    ASSUME NEW p, NEW q, Scripted(p, q), NEW k \in 0 .. Len(q)
    PROVE  Scripted(p, SubSeq(q, 1, k))
  <1> DEFINE s == SubSeq(q, 1, k)
  <1>1. Scripted(p, <<>>)
    BY DEF Scripted
  <1>2. q = <<>> => s = <<>>
    <2>1. q = <<>> => k = 0
      OBVIOUS
    <2>2. QED
      BY <2>1, CutShort
  <1>3. ASSUME NEW t, One(q, t)
        PROVE  s = <<>> \/ s = q
    <2>1. k \in {0, 1} /\ q = <<q[1]>>
      BY <1>3 DEF One
    <2>2. QED
      BY <2>1, CutShort
  <1>4. ASSUME NEW t, NEW u, Two(q, t, u)
        PROVE  s = <<>> \/ s = q \/ One(s, t)
    <2>1. k \in {0, 1, 2} /\ q = <<q[1], q[2]>> /\ q[1].type = t
      BY <1>4 DEF Two
    <2>2. s = <<>> \/ s = q \/ s = <<q[1]>>
      BY <2>1, CutShort
    <2>3. QED
      BY <2>1, <2>2, WriteOne
  <1> SUFFICES Scripted(p, s)
    OBVIOUS
  <1> HIDE DEF s
  <1>5. CASE s = <<>> \/ s = q
    BY <1>1, <1>5
  <1>6. CASE s # <<>> /\ s # q
    <2>1. q # <<>> /\ \A t : ~One(q, t)
      BY <1>2, <1>3, <1>6
    <2>2. \/ p = "c_EventsAck" /\ Two(q, "EventsAck", "Events")
          \/ p = "l_EventsAck" /\ Two(q, "EventsAck", "Bye")
      BY <2>1 DEF Scripted
    <2>3. One(s, "EventsAck")
      BY <1>4, <1>6, <2>2
    <2>4. QED
      BY <2>2, <2>3 DEF Scripted
  <1>7. QED
    BY <1>5, <1>6

\* A cut leaves messages where they were.
LEMMA CutKeeps ==
    ASSUME NEW p, NEW q, Scripted(p, q), NEW k \in 0 .. Len(q)
    PROVE  LET s == SubSeq(q, 1, k)
           IN  /\ \A i \in DOMAIN s : i \in DOMAIN q /\ s[i] = q[i]
               /\ s # <<>> => q # <<>>
  <1> DEFINE s == SubSeq(q, 1, k)
  <1>1. q = <<>> => s = <<>>
    <2>1. q = <<>> => k = 0
      OBVIOUS
    <2>2. QED
      BY <2>1, CutShort
  <1>2. ASSUME NEW t, One(q, t)
        PROVE  s = <<>> \/ s = q
    <2>1. k \in {0, 1} /\ q = <<q[1]>>
      BY <1>2 DEF One
    <2>2. QED
      BY <2>1, CutShort
  <1>3. ASSUME NEW t, NEW u, Two(q, t, u)
        PROVE  s = <<>> \/ s = q \/ (s = <<q[1]>> /\ 1 \in DOMAIN q)
    <2>1. k \in {0, 1, 2} /\ q = <<q[1], q[2]>>
      BY <1>3 DEF Two
    <2>2. 1 \in DOMAIN q
      BY <1>3, ReadTwo
    <2>3. QED
      BY <2>1, <2>2, CutShort
  <1>4. s = <<>> \/ s = q \/ (s = <<q[1]>> /\ 1 \in DOMAIN q)
    BY <1>1, <1>2, <1>3 DEF Scripted
  <1>5. DOMAIN <<>> = {} /\ DOMAIN <<q[1]>> = {1} /\ <<q[1]>>[1] = q[1]
    OBVIOUS
  <1> HIDE DEF s
  <1>6. (\A i \in DOMAIN s : i \in DOMAIN q /\ s[i] = q[i]) /\ (s # <<>> => q # <<>>)
    BY <1>1, <1>4, <1>5
  <1>7. QED
    BY <1>6 DEF s

\* A connection fails: both ends come to the end of the stream.
LEMMA BreakSInv ==
    ASSUME SInv, NEW n \in Node, Break(n)
    PROVE  SInv'
  <1> DEFINE y == link[n].peer
             Cut(k, l) == [l EXCEPT !.eof = TRUE, !.in = SubSeq(@, 1, k)]
  <1>1. PICK i \in 0 .. Len(link[n].in), j \in 0 .. Len(link[y].in) :
           link' = IF Connected(n) THEN [link EXCEPT ![n] = Cut(i, @), ![y] = Cut(j, @)]
                                   ELSE [link EXCEPT ![n] = Cut(i, @)]
    BY DEF Break
  <1>2. y # n /\ y \in Node /\ UNCHANGED <<history, pc, peer_ids>>
    BY DEF Break, SInv, SessionOK
  <1>3. ASSUME NEW x \in Node
        PROVE  IsLink(link[x]) /\ SessionOK(x)
    BY DEF SInv, SessionOK
  <1>4. /\ pc[n] \in InSession
        /\ Connected(n) => pc[y] \in InSession
    <2>1. \A x \in Node : NoLink(x).peer = x
      BY DEF NoLink
    <2>2. QED
      BY <1>2, <1>3, <2>1 DEF SessionOK, Connected
  <1>5. ASSUME NEW x \in Node, NEW k \in 0 .. Len(link[x].in), pc[x] \in InSession,
               link'[x] = Cut(k, link[x])
        PROVE  SessionOK(x)' /\ link'[x].eof = TRUE
    <2>1. [link[x] EXCEPT !.eof = TRUE] = [peer |-> link[x].peer, in |-> link[x].in, eof |-> TRUE]
      BY <1>3, LinkExcept
    <2>2. link'[x] = [peer |-> link[x].peer, in |-> SubSeq(link[x].in, 1, k), eof |-> TRUE]
      BY <1>5, <2>1
    <2>3. /\ link'[x].peer = link[x].peer /\ link'[x].in = SubSeq(link[x].in, 1, k)
          /\ link'[x].eof = TRUE /\ IsLink(link'[x])
      BY <2>2 DEF IsLink
    <2>4. Scripted(pc'[x], link'[x].in)
      BY <1>2, <1>3, <1>5, <2>3, CutScript DEF SessionOK
    <2>5. QED
      BY <1>2, <1>3, <1>5, <2>3, <2>4 DEF SessionOK, Linked
  <1> DEFINE Torn == {n} \union (IF Connected(n) THEN {y} ELSE {})
  <1>6. /\ DOMAIN link' = Node
        /\ \A x \in Node \ Torn : link'[x] = link[x]
        /\ \A x \in Torn : /\ x \in Node /\ pc[x] \in InSession
                          /\ \E k \in 0 .. Len(link[x].in) : link'[x] = Cut(k, link[x])
    <2>1. DOMAIN link = Node
      BY DEF SInv
    <2>2. CASE Connected(n)
      BY <1>1, <1>2, <1>4, <2>1, <2>2
    <2>3. CASE ~Connected(n)
      BY <1>1, <1>2, <1>4, <2>1, <2>3
    <2>4. QED
      BY <2>2, <2>3
  <1>7. \A x \in Node : Linked(x) => (x \in Torn <=> link[x].peer \in Torn)
    BY <1>2 DEF Linked, Connected
  <1> HIDE DEF Cut, Torn
  <1>8. ASSUME NEW x \in Node
        PROVE  SessionOK(x)'
    <2> DEFINE z == link[x].peer
    <2>1. CASE x \in Torn
      BY <1>5, <1>6, <2>1
    <2>2. CASE x \notin Torn
      <3>1. link'[x] = link[x] /\ z \in Node /\ SessionOK(x)
        BY <1>3, <1>6, <2>2 DEF SessionOK
      <3>2. CASE z \in Torn
        <4>1. ~Linked(x) /\ link'[z].eof = TRUE
          BY <1>5, <1>6, <1>7, <2>2, <3>2
        <4>2. QED
          BY <1>2, <3>1, <4>1 DEF SessionOK, Linked, Waiting
      <3>3. CASE z \notin Torn
        <4>1. link'[z] = link[z]
          BY <1>6, <3>1, <3>3
        <4>2. QED
          BY <1>2, <3>1, <4>1 DEF SessionOK, Linked, Waiting
      <3>4. QED
        BY <3>2, <3>3
    <2>3. QED
      BY <2>1, <2>2
  <1>9. QED
    BY <1>2, <1>6, <1>8 DEF SInv

\* Between calls a node has no connection, so nobody is linked to it.
LEMMA NobodyLinked ==
    ASSUME SInv, NEW n \in Node, pc[n] \notin InSession
    PROVE  /\ link[n] = NoLink(n) /\ peer_ids[n] = {} /\ link[n].peer = n
           /\ \A x \in Node : Linked(x) => x # n /\ link[x].peer # n
  <1>1. link[n] = NoLink(n) /\ peer_ids[n] = {}
    BY DEF SInv, SessionOK
  <1>2. link[n].peer = n
    BY <1>1 DEF NoLink
  <1>3. QED
    BY <1>1, <1>2 DEF Linked

\* A node that accepts a connection waits for the Hello in its backlog.
LEMMA AcceptSInv ==
    ASSUME SInv, NEW n \in Node, Accept(n)
    PROVE  SInv'
  <1>1. /\ "idle" \notin InSession /\ "accepting" \notin InSession
    BY DEF InSession, Expected, Serving
  <1>2. /\ pc[n] = "idle" /\ pc' = [pc EXCEPT ![n] = "accepting"]
        /\ UNCHANGED <<link, peer_ids>>
    BY DEF Accept
  <1>3. DOMAIN pc' = Node /\ pc'[n] = "accepting" /\ \A x \in Node \ {n} : pc'[x] = pc[x]
    BY <1>2 DEF SInv
  <1>4. ASSUME NEW x \in Node
        PROVE  SessionOK(x)'
    <2>1. SessionOK(x) /\ (Linked(x) <=> Linked(x)')
      BY <1>2 DEF SInv, Linked
    <2>2. Linked(x) => x # n /\ link[x].peer # n /\ link[x].peer \in Node
      BY <1>1, <1>2, <2>1, NobodyLinked DEF SessionOK
    <2>3. CASE x = n
      BY <1>1, <1>2, <1>3, <2>1, <2>2, <2>3 DEF SessionOK
    <2>4. CASE x # n
      BY <1>2, <1>3, <2>1, <2>2, <2>4 DEF SessionOK, Waiting
    <2>5. QED
      BY <2>3, <2>4
  <1>5. QED
    BY <1>2, <1>3, <1>4 DEF SInv

\* Connecting, to somebody who accepts or into the backlog of somebody who serves.
LEMMA ConnectSInv ==
    ASSUME SInv, NEW n \in Node, NEW m \in Node \ {n},
           NEW next \in {"c_HelloAck", "p_HelloAck"}, Connect(n, m, next)
    PROVE  SInv'
  <1> DEFINE hello == [peer |-> n, in |-> <<Simple("Hello")>>, eof |-> FALSE]
  <1>1. /\ "idle" \notin InSession /\ "accepting" \notin InSession
        /\ next \in InSession /\ "l_Hello" \in InSession
    BY DEF InSession, Expected, Serving
  <1>2. /\ pc[n] = "idle" /\ UNCHANGED peer_ids
        /\ DOMAIN pc = Node /\ DOMAIN link = Node /\ DOMAIN peer_ids = Node
        /\ \A x \in Node : Linked(x) => x # n /\ link[x].peer # n
    BY <1>1, NobodyLinked DEF Connect, SInv
  <1>3. CASE /\ pc[m] = "accepting"
             /\ pc' = [pc EXCEPT ![n] = next, ![m] = "l_Hello"]
             /\ link' = [link EXCEPT ![n] = NoLink(m), ![m] = hello]
    <2>1. /\ DOMAIN pc' = Node /\ pc'[n] = next /\ pc'[m] = "l_Hello"
          /\ DOMAIN link' = Node /\ link'[n] = NoLink(m) /\ link'[m] = hello
          /\ \A x \in Node \ {n, m} : pc'[x] = pc[x] /\ link'[x] = link[x]
      BY <1>2, <1>3
    <2>2. /\ link'[n].peer = m /\ link'[n].in = <<>> /\ link'[n].eof = FALSE /\ IsLink(link'[n])
          /\ link'[m].peer = n /\ link'[m].in = <<Simple("Hello")>> /\ link'[m].eof = FALSE
          /\ IsLink(link'[m])
      BY <2>1 DEF NoLink, IsLink
    <2>3. \A x \in Node : Linked(x) => x # m /\ link[x].peer # m
      BY <1>1, <1>3, NobodyLinked
    <2>4. One(<<Simple("Hello")>>, "Hello")
      BY WriteOne DEF Simple
    <2> HIDE DEF hello
    <2>5. /\ Scripted(pc'[n], link'[n].in) /\ Scripted(pc'[m], link'[m].in)
          /\ Agree(pc'[n], link'[n].in, pc'[m], link'[m].in)
          /\ Agree(pc'[m], link'[m].in, pc'[n], link'[n].in)
      BY <2>1, <2>2, <2>4 DEF Scripted, Agree, Joint
    <2>6. SessionOK(n)' /\ SessionOK(m)'
      BY <1>1, <2>1, <2>2, <2>5 DEF SessionOK, Linked
    <2>7. ASSUME NEW x \in Node \ {n, m}
          PROVE  SessionOK(x)'
      <3> DEFINE z == link[x].peer
      <3>1. /\ SessionOK(x) /\ z \in Node
            /\ link'[x] = link[x] /\ pc'[x] = pc[x] /\ peer_ids'[x] = peer_ids[x]
        BY <1>2, <2>1 DEF SInv, SessionOK
      <3>2. CASE z \in {n, m}
        <4>1. ~Linked(x) /\ ~Linked(x)'
          BY <1>2, <2>2, <2>3, <3>1, <3>2 DEF Linked
        <4>2. QED
          BY <3>1, <4>1 DEF SessionOK, Waiting
      <3>3. CASE z \notin {n, m}
        <4>1. link'[z] = link[z] /\ pc'[z] = pc[z]
          BY <2>1, <3>1, <3>3
        <4>2. QED
          BY <3>1, <4>1 DEF SessionOK, Waiting, Linked
      <3>4. QED
        BY <3>2, <3>3
    <2>8. QED
      BY <1>2, <2>1, <2>6, <2>7 DEF SInv
  <1>4. CASE /\ pc[m] \in Serving
             /\ pc' = [pc EXCEPT ![n] = next]
             /\ link' = [link EXCEPT ![n] = NoLink(m)]
    <2>1. /\ DOMAIN pc' = Node /\ pc'[n] = next
          /\ DOMAIN link' = Node /\ link'[n] = NoLink(m)
          /\ \A x \in Node \ {n} : pc'[x] = pc[x] /\ link'[x] = link[x]
      BY <1>2, <1>4
    <2>2. link'[n].peer = m /\ link'[n].in = <<>> /\ link'[n].eof = FALSE /\ IsLink(link'[n])
      BY <2>1 DEF NoLink, IsLink
    <2>3. ~Linked(n)'
      <3>1. link[m].peer = n => link[m].eof
        BY <1>2, <1>4 DEF SInv, SessionOK, Waiting, Serving, InSession
      <3>2. link'[m] = link[m]
        BY <2>1
      <3>3. QED
        BY <2>2, <3>1, <3>2 DEF Linked
    <2>4. SessionOK(n)'
      BY <1>1, <2>1, <2>2, <2>3 DEF SessionOK, Waiting, Scripted
    <2>5. ASSUME NEW x \in Node \ {n}
          PROVE  SessionOK(x)'
      <3> DEFINE z == link[x].peer
      <3>1. /\ SessionOK(x) /\ z \in Node
            /\ link'[x] = link[x] /\ pc'[x] = pc[x] /\ peer_ids'[x] = peer_ids[x]
        BY <1>2, <2>1 DEF SInv, SessionOK
      <3>2. CASE z = n
        <4>1. ~Linked(x)
          BY <1>2, <3>2
        <4>2. ~Linked(x)'
          BY <2>3, <3>1, <3>2 DEF Linked
        <4>3. QED
          BY <3>1, <4>1, <4>2 DEF SessionOK, Waiting
      <3>3. CASE z # n
        <4>1. link'[z] = link[z] /\ pc'[z] = pc[z]
          BY <2>1, <3>1, <3>3
        <4>2. QED
          BY <3>1, <4>1 DEF SessionOK, Waiting, Linked
      <3>4. QED
        BY <3>2, <3>3
    <2>6. QED
      BY <1>2, <2>1, <2>4, <2>5 DEF SInv
  <1>5. QED
    BY <1>3, <1>4 DEF Connect

\* Steps of others than the sessions.
LEMMA StillSInv ==
    ASSUME SInv, UNCHANGED session
    PROVE  SInv'
  BY DEF SInv, SessionOK, Linked, Waiting, session

----------------------------------------------------------------------------
\* Nobody is in a session at first.
LEMMA InitSInv == NetInit => SInv
  <1> SUFFICES ASSUME NetInit PROVE SInv
    OBVIOUS
  <1>1. "idle" \notin InSession
    BY DEF InSession, Expected, Serving
  <1>2. ASSUME NEW x \in Node
        PROVE  SessionOK(x)
    <2>1. link[x] = NoLink(x) /\ pc[x] = "idle" /\ peer_ids[x] = {}
      BY DEF NetInit
    <2>2. link[x].peer = x /\ link[x].eof = FALSE /\ IsLink(link[x])
      BY <2>1 DEF NoLink, IsLink
    <2>3. QED
      BY <1>1, <2>1, <2>2 DEF SessionOK, Linked
  <1>3. QED
    BY <1>2 DEF NetInit, SInv

\* Every step keeps the shape of all sessions.
LEMMA NextSInv == SInv /\ [NetNext]_vars => SInv'
  <1> SUFFICES ASSUME SInv, [NetNext]_vars
               PROVE  SInv'
    OBVIOUS
  <1>1. CASE UNCHANGED vars
    BY <1>1, StillSInv DEF vars
  <1>2. ASSUME NEW n \in Node, Local(n)
        PROVE  SInv'
    BY <1>2, StillSInv DEF Local
  <1>3. ASSUME NEW n \in Node, Accept(n)
        PROVE  SInv'
    BY <1>3, AcceptSInv
  <1>4. ASSUME NEW n \in Node, NEW m \in Peers[n] \ {n}, StartSync(n, m) \/ StartPush(n, m)
        PROVE  SInv'
    <2>1. m \in Node \ {n}
      BY PeersAssumption
    <2>2. QED
      BY <1>4, <2>1, ConnectSInv DEF StartSync, StartPush
  <1>5. ASSUME NEW n \in Node, Proceed(n)
        PROVE  SInv'
    <2>1. CASE \/ ReceiveHelloAck(n) \/ ReceiveWant(n) \/ ReceiveEventsAck(n)
               \/ ReceiveEvents(n) \/ PushReceiveHelloAck(n)
      BY <2>1, ReceiveHelloAckSInv, ReceiveWantSInv, ReceiveEventsAckSInv,
         ReceiveEventsSInv, PushReceiveHelloAckSInv
    <2>2. CASE \/ HandleHello(n) \/ HandleHave(n) \/ HandleEvents(n)
               \/ HandleEventsAck(n) \/ HandleBye(n)
      BY <2>2, HandleHelloSInv, HandleHaveSInv, HandleEventsSInv,
         HandleEventsAckSInv, HandleByeSInv
    <2>3. CASE Refuse(n) \/ EndOfStream(n)
      BY <2>3, ReturnSInv DEF Refuse, EndOfStream
    <2>4. QED
      BY <1>5, <2>1, <2>2, <2>3 DEF Proceed
  <1>6. ASSUME NEW n \in Node, Break(n)
        PROVE  SInv'
    BY <1>6, BreakSInv
  <1>7. QED
    BY <1>1, <1>2, <1>3, <1>4, <1>5, <1>6 DEF NetNext

\* Neither end of a sync is ever sent something it does not wait for, whatever is
\* cut and whoever waits in a backlog: only a push is turned down.
THEOREM SessionsFollowScript == NetSpec => OnlyPushIsRefused
  <1> DEFINE Fits == \A n \in Node : Refuse(n) => Msg(n).type = "Push"
  <1>1. SInv => Fits
    <2> SUFFICES ASSUME SInv, NEW n \in Node, Refuse(n)
                 PROVE  Msg(n).type = "Push"
      OBVIOUS
    <2> DEFINE q == link[n].in
    <2>1. /\ pc[n] \in DOMAIN Expected /\ q # <<>> /\ Head(q).type # Expected[pc[n]]
      BY DEF Refuse, Msg
    <2>2. Scripted(pc[n], q)
      BY <2>1 DEF SInv, SessionOK, InSession
    <2>3. Head(q) = q[1]
      BY <2>1, <2>2, ReadOne, ReadTwo DEF Scripted
    <2>4. ~One(q, Expected[pc[n]]) /\ \A u : ~Two(q, Expected[pc[n]], u)
      BY <2>1, <2>3 DEF One, Two
    <2>5. One(q, "Push")
      BY <2>1, <2>2, <2>4 DEF Scripted, Expected
    <2>6. QED
      BY <2>3, <2>5 DEF Msg, One
  <1>2. NetInit => SInv
    BY InitSInv
  <1>3. SInv /\ [NetNext]_vars => SInv'
    BY NextSInv
  <1>4. QED
    BY <1>1, <1>2, <1>3, PTL DEF NetSpec, OnlyPushIsRefused

----------------------------------------------------------------------------
\* Whoever has connected and is not accepted yet is in the backlog of a node that serves
\* somebody else.
BInv ==
    \A x \in Node :
        pc[x] \in InSession /\ ~link[x].eof /\ link[link[x].peer].peer # x
            => pc[link[x].peer] \in Serving

\* A node that serves keeps its backlog until its call ends, and then it is told.
LEMMA StepKeepsBacklog ==
    ASSUME SInv, SInv', BInv, NEW n \in Node, pc[n] \in InSession,
           \A x \in Node \ {n} :
              /\ pc'[x] = pc[x] /\ link'[x].peer = link[x].peer
              /\ link'[x].eof = IF pc'[n] = "idle" /\ link[x].peer = n THEN TRUE ELSE link[x].eof,
           \/ pc'[n] = "idle"
           \/ /\ pc[n] \in Serving => pc'[n] \in Serving
              /\ link'[n].peer = link[n].peer /\ link'[n].eof = link[n].eof
    PROVE  BInv'
  <1>1. "idle" \notin InSession
    BY DEF InSession, Serving, Expected
  <1> SUFFICES ASSUME NEW x \in Node, pc'[x] \in InSession, ~link'[x].eof,
                      link'[link'[x].peer].peer # x
               PROVE  pc'[link'[x].peer] \in Serving
    BY DEF BInv
  <1> DEFINE y == link[x].peer
  <1>2. /\ pc[x] \in InSession /\ ~link[x].eof /\ y \in Node /\ link'[x].peer = y
        /\ y = n => pc'[n] # "idle"
    <2>1. y \in Node
      BY DEF SInv, SessionOK
    <2>2. CASE x = n
      <3>1. pc'[n] # "idle"
        BY <1>1, <2>2
      <3>2. QED
        BY <2>1, <2>2, <3>1
    <2>3. CASE x # n
      <3>1. ~(pc'[n] = "idle" /\ y = n)
        BY <2>3
      <3>2. link'[x].eof = link[x].eof
        BY <2>3, <3>1
      <3>3. QED
        BY <2>1, <2>3, <3>1, <3>2
    <2>4. QED
      BY <2>2, <2>3
  <1>3. link'[y].peer = link[y].peer
    <2>1. CASE y # n
      BY <1>2, <2>1
    <2>2. CASE y = n
      BY <1>2, <2>2
    <2>3. QED
      BY <2>1, <2>2
  <1>4. pc[y] \in Serving
    BY <1>2, <1>3 DEF BInv
  <1>5. QED
    BY <1>2, <1>4

\* A reply changes queues, and no connection unless it is the last.
LEMMA ReplyKeepsBacklog ==
    ASSUME SInv, SInv', BInv, NEW n \in Node, pc[n] \in InSession, NEW msgs, NEW next, NEW ids,
           Reply(n, msgs, next, ids), pc[n] \in Serving => next \in Serving \union {"idle"}
    PROVE  BInv'
  <1> DEFINE y       == link[n].peer
             read    == [link EXCEPT ![n].in = Tail(@)]
             Sent(k) == IF Connected(n)
                        THEN [read EXCEPT ![y].in = @ \o SubSeq(msgs, 1, k)] ELSE read
  <1>1. /\ DOMAIN pc = Node /\ DOMAIN link = Node /\ y \in Node
        /\ \A x \in Node : IsLink(link[x])
    BY DEF SInv, SessionOK
  <1>2. ASSUME NEW k
        PROVE  /\ DOMAIN Sent(k) = Node
               /\ \A x \in Node : Sent(k)[x].peer = link[x].peer /\ Sent(k)[x].eof = link[x].eof
               /\ \A x \in Node : IsLink(Sent(k)[x])
    <2>1. /\ DOMAIN read = Node
          /\ \A x \in Node : IsLink(read[x]) /\ read[x].peer = link[x].peer /\ read[x].eof = link[x].eof
      <3>1. [link[n] EXCEPT !.in = Tail(link[n].in)]
              = [peer |-> y, in |-> Tail(link[n].in), eof |-> link[n].eof]
        BY <1>1, LinkExcept
      <3>2. QED
        BY <1>1, <3>1 DEF IsLink
    <2> DEFINE q == read[y].in \o SubSeq(msgs, 1, k)
    <2>2. /\ DOMAIN [read EXCEPT ![y].in = q] = Node
          /\ [read EXCEPT ![y].in = q][y] = [read[y] EXCEPT !.in = q]
          /\ \A x \in Node \ {y} : [read EXCEPT ![y].in = q][x] = read[x]
      <3> HIDE DEF read, q
      <3>1. QED
        BY <1>1, <2>1
    <2>3. [read[y] EXCEPT !.in = q] = [peer |-> read[y].peer, in |-> q, eof |-> read[y].eof]
      <3> HIDE DEF read, q
      <3>1. QED
        BY <1>1, <2>1, LinkExcept
    <2> HIDE DEF read, q
    <2>4. /\ IsLink([read EXCEPT ![y].in = q][y])
          /\ [read EXCEPT ![y].in = q][y].peer = link[y].peer
          /\ [read EXCEPT ![y].in = q][y].eof = link[y].eof
      BY <1>1, <2>1, <2>2, <2>3 DEF IsLink
    <2>5. QED
      BY <1>1, <2>1, <2>2, <2>4 DEF q
  <1> HIDE DEF Sent
  <1>3. ASSUME NEW k, Return(n, Sent(k)) PROVE BInv'
    <2>1. pc'[n] = "idle" /\ \A x \in Node \ {n} : pc'[x] = pc[x]
      BY <1>1, <1>3 DEF Return
    <2>2. ASSUME NEW x \in Node \ {n}
          PROVE  /\ link'[x].peer = link[x].peer
                 /\ link'[x].eof = IF link[x].peer = n THEN TRUE ELSE link[x].eof
      <3>1. link'[x] = IF Sent(k)[x].peer = n THEN [Sent(k)[x] EXCEPT !.eof = TRUE] ELSE Sent(k)[x]
        BY <1>3 DEF Return, HungUp
      <3>2. [Sent(k)[x] EXCEPT !.eof = TRUE] = [peer |-> Sent(k)[x].peer, in |-> Sent(k)[x].in, eof |-> TRUE]
        BY <1>2, LinkExcept
      <3>3. CASE link[x].peer = n
        <4>1. link'[x] = [peer |-> Sent(k)[x].peer, in |-> Sent(k)[x].in, eof |-> TRUE]
          BY <1>2, <3>1, <3>2, <3>3
        <4>2. link'[x].peer = Sent(k)[x].peer /\ link'[x].eof = TRUE
          BY <4>1
        <4>3. QED
          BY <1>2, <3>3, <4>2
      <3>4. CASE link[x].peer # n
        BY <1>2, <3>1, <3>4
      <3>5. QED
        BY <3>3, <3>4
    <2>3. QED
      BY <2>1, <2>2, StepKeepsBacklog
  <1>4. CASE next # "idle" /\ pc' = [pc EXCEPT ![n] = next] /\ link' = Sent(Len(msgs))
    <2>1. pc'[n] = next /\ \A x \in Node \ {n} : pc'[x] = pc[x]
      BY <1>1, <1>4
    <2>2. \A x \in Node : link'[x].peer = link[x].peer /\ link'[x].eof = link[x].eof
      BY <1>2, <1>4
    <2>3. QED
      BY <1>4, <2>1, <2>2, StepKeepsBacklog
  <1>5. QED
    BY <1>3, <1>4 DEF Reply, Sent

\* Every step keeps the backlogs behind those that serve.
LEMMA NextBInv == SInv /\ BInv /\ [NetNext]_vars => BInv'
  <1> SUFFICES ASSUME SInv, BInv, [NetNext]_vars
               PROVE  BInv'
    OBVIOUS
  <1> USE NextSInv
  <1>0. SInv'
    OBVIOUS
  <1>1. /\ DOMAIN pc = Node /\ DOMAIN link = Node
        /\ \A x \in Node : IsLink(link[x]) /\ link[x].peer \in Node
    BY DEF SInv, SessionOK
  <1>2. "idle" \notin InSession /\ "accepting" \notin InSession
    BY DEF InSession, Serving, Expected
  <1>3. CASE UNCHANGED session
    BY <1>3 DEF BInv, session
  <1>4. ASSUME NEW n \in Node, Accept(n)
        PROVE  BInv'
    <2>1. pc[n] = "idle" /\ pc' = [pc EXCEPT ![n] = "accepting"] /\ link' = link
      BY <1>4 DEF Accept
    <2>2. "idle" \notin Serving
      BY DEF Serving
    <2>3. QED
      BY <1>1, <1>2, <2>1, <2>2 DEF BInv
  <1>5. ASSUME NEW n \in Node, NEW m \in Node \ {n}, NEW next \in {"c_HelloAck", "p_HelloAck"},
               Connect(n, m, next)
        PROVE  BInv'
    <2>1. pc[n] = "idle" /\ NoLink(m).peer = m
      BY <1>5 DEF Connect, NoLink
    <2>2. link[n].peer = n
      BY <1>2, <2>1 DEF SInv, SessionOK, NoLink
    <2>3. \A x \in Node : pc[x] \in InSession /\ ~link[x].eof => link[x].peer # n
      BY <2>1, <2>2 DEF BInv, SInv, SessionOK, Serving
    <2>4. CASE pc[m] = "accepting" /\ pc' = [pc EXCEPT ![n] = next, ![m] = "l_Hello"]
               /\ link' = [link EXCEPT ![n] = NoLink(m),
                                       ![m] = [peer |-> n, in |-> <<Simple("Hello")>>, eof |-> FALSE]]
      <3>1. \A x \in Node : pc[x] \in InSession /\ ~link[x].eof => link[x].peer # m
        <4>1. link[m].peer = m /\ "accepting" \notin Serving
          BY <1>2, <2>4 DEF SInv, SessionOK, NoLink, Serving
        <4>2. QED
          BY <2>4, <4>1 DEF BInv, SInv, SessionOK
      <3>2. /\ pc'[n] = next /\ pc'[m] = "l_Hello" /\ \A x \in Node \ {n, m} : pc'[x] = pc[x]
            /\ link'[n].peer = m /\ link'[m].peer = n /\ \A x \in Node \ {n, m} : link'[x] = link[x]
        BY <1>1, <2>1, <2>4
      <3>3. QED
        BY <2>3, <3>1, <3>2 DEF BInv, SInv, SessionOK
    <2>5. CASE pc[m] \in Serving /\ pc' = [pc EXCEPT ![n] = next] /\ link' = [link EXCEPT ![n] = NoLink(m)]
      <3>1. /\ pc'[n] = next /\ \A x \in Node \ {n} : pc'[x] = pc[x]
            /\ link'[n].peer = m /\ \A x \in Node \ {n} : link'[x] = link[x]
        BY <1>1, <2>1, <2>5
      <3>2. QED
        BY <2>3, <2>5, <3>1 DEF BInv, SInv, SessionOK
    <2>6. QED
      BY <1>5, <2>4, <2>5 DEF Connect
  <1>6. ASSUME NEW n \in Node, Proceed(n)
        PROVE  BInv'
    <2>1. CASE \/ ReceiveHelloAck(n) \/ ReceiveWant(n) \/ ReceiveEventsAck(n)
               \/ ReceiveEvents(n) \/ PushReceiveHelloAck(n)
      <3>1. /\ pc[n] \in InSession /\ pc[n] \notin Serving
            /\ \E msgs, next, ids : Reply(n, msgs, next, ids)
        BY <2>1 DEF ReceiveHelloAck, ReceiveWant, ReceiveEventsAck, ReceiveEvents, PushReceiveHelloAck,
                    Receives, InSession, Serving, Expected
      <3>2. QED
        BY <1>0, <3>1, ReplyKeepsBacklog
    <2>2. CASE \/ HandleHello(n) \/ HandleHave(n) \/ HandleEvents(n)
               \/ HandleEventsAck(n) \/ HandleBye(n)
      <3>1. /\ pc[n] \in InSession
            /\ \E msgs, ids : \E next \in Serving \union {"idle"} : Reply(n, msgs, next, ids)
        BY <2>2 DEF HandleHello, HandleHave, HandleEvents, HandleEventsAck, HandleBye,
                    Receives, InSession, Serving, Expected
      <3>2. QED
        BY <1>0, <3>1, ReplyKeepsBacklog
    <2>3. CASE Refuse(n) \/ EndOfStream(n)
      <3>1. pc[n] \in InSession /\ Return(n, link)
        BY <2>3 DEF Refuse, EndOfStream, InSession
      <3>2. pc'[n] = "idle" /\ \A x \in Node \ {n} : pc'[x] = pc[x]
        BY <1>1, <3>1 DEF Return
      <3>3. ASSUME NEW x \in Node \ {n}
            PROVE  /\ link'[x].peer = link[x].peer
                   /\ link'[x].eof = IF link[x].peer = n THEN TRUE ELSE link[x].eof
        <4>1. link'[x] = IF link[x].peer = n THEN [link[x] EXCEPT !.eof = TRUE] ELSE link[x]
          BY <3>1 DEF Return, HungUp
        <4>2. [link[x] EXCEPT !.eof = TRUE] = [peer |-> link[x].peer, in |-> link[x].in, eof |-> TRUE]
          BY <1>1, LinkExcept
        <4>3. QED
          BY <4>1, <4>2
      <3>4. QED
        BY <1>0, <3>1, <3>2, <3>3, StepKeepsBacklog
    <2>4. QED
      BY <1>6, <2>1, <2>2, <2>3 DEF Proceed
  <1>7. ASSUME NEW n \in Node, Break(n)
        PROVE  BInv'
    <2> DEFINE m == link[n].peer
               Cut(k, l) == [l EXCEPT !.eof = TRUE, !.in = SubSeq(@, 1, k)]
    <2>1. \A x \in Node : link'[x].peer = link[x].peer /\ (link[x].eof => link'[x].eof)
      <3>1. PICK i, j : link' = IF Connected(n) THEN [link EXCEPT ![n] = Cut(i, @), ![m] = Cut(j, @)]
                                                ELSE [link EXCEPT ![n] = Cut(i, @)]
        BY <1>7 DEF Break
      <3>2. \A k : \A x \in Node : Cut(k, link[x]).peer = link[x].peer /\ Cut(k, link[x]).eof = TRUE
        BY <1>1 DEF IsLink
      <3> HIDE DEF Cut
      <3>3. QED
        BY <1>1, <3>1, <3>2
    <2>2. pc' = pc
      BY <1>7 DEF Break
    <2>3. QED
      BY <1>1, <2>1, <2>2 DEF BInv
  <1>8. QED
    <2>1. ASSUME NEW n \in Node, NEW m \in Peers[n] \ {n}, StartSync(n, m) \/ StartPush(n, m)
          PROVE  BInv'
      BY <1>5, <2>1, PeersAssumption DEF StartSync, StartPush
    <2>2. UNCHANGED vars \/ (\E n \in Node : Local(n)) => UNCHANGED session
      BY DEF vars, Local
    <2>3. QED
      BY <1>3, <1>4, <1>6, <1>7, <2>1, <2>2 DEF NetNext

\* Nobody waits in a circle, with any number of nodes, in any backlogs, whatever breaks:
\* some call in reach of each call can take its next step.
THEOREM NobodyIsStuck == NetSpec => []SomebodyCanRead
  <1>1. SInv /\ BInv => SomebodyCanRead
    <2> SUFFICES ASSUME SInv, BInv, NEW x \in Node, pc[x] \in InSession
                 PROVE  \E m \in {x, link[x].peer, link[link[x].peer].peer} : CanRead(m)
      BY DEF SomebodyCanRead
    <2>1. ASSUME NEW z \in Node, Linked(z)
          PROVE  CanRead(z) \/ CanRead(link[z].peer)
      <3> DEFINE y == link[z].peer
      <3>1. Agree(pc[z], link[z].in, pc[y], link[y].in)
        BY <2>1 DEF SInv, SessionOK
      <3>2. \A q, t : One(q, t) => q # <<>>
        BY ReadOne
      <3>3. \A q, t, u : Two(q, t, u) => q # <<>>
        BY ReadTwo
      <3>4. QED
        BY <3>1, <3>2, <3>3 DEF Agree, Joint, CanRead, InSession, Serving, Expected
    <2> DEFINE y == link[x].peer
    <2>2. y \in Node
      BY DEF SInv, SessionOK
    <2>3. CASE link[x].eof \/ Linked(x)
      BY <2>1, <2>3 DEF CanRead
    <2>4. CASE ~link[x].eof /\ ~Linked(x) /\ link[y].peer = x
      <3>1. link[y].eof /\ y # x
        BY <2>4 DEF Linked, SInv, SessionOK
      <3>2. pc[y] \in InSession
        BY <2>2, <3>1 DEF SInv, SessionOK, NoLink
      <3>3. QED
        BY <3>1, <3>2 DEF CanRead
    <2>5. CASE ~link[x].eof /\ link[y].peer # x
      <3>1. pc[y] \in Serving /\ pc[y] \in InSession
        BY <2>5 DEF BInv, InSession
      <3>2. link[y].eof \/ Linked(y)
        BY <2>2, <3>1 DEF SInv, SessionOK, Waiting, Serving
      <3>3. QED
        BY <2>1, <2>2, <3>1, <3>2 DEF CanRead
    <2>6. QED
      BY <2>3, <2>4, <2>5
  <1>2. NetInit => SInv /\ BInv
    <2>1. "idle" \notin InSession
      BY DEF InSession, Expected, Serving
    <2>2. QED
      BY <2>1, InitSInv DEF NetInit, BInv
  <1>3. SInv /\ BInv /\ [NetNext]_vars => (SInv /\ BInv)'
    BY NextSInv, NextBInv
  <1>4. QED
    BY <1>1, <1>2, <1>3, PTL DEF NetSpec

----------------------------------------------------------------------------
\* No event of the catalog has a noop among its parents.
NoopsAtTip == \A e \in Catalog : e.parents \intersect Noops(World) = {}

\* The ids of a set of events.
IdsOf(events) == {e.id : e \in events}

\* What a message to a node that holds H may say, of a node that holds K.
Truthful(msg, H, K) ==
    \/ msg.type \in {"Hello", "HelloAck", "EventsAck", "Bye"} /\ msg = Simple(msg.type)
    \/ /\ msg.type \in {"Have", "Want"}
       /\ msg = [type |-> msg.type, ids |-> msg.ids]
       /\ msg.ids \subseteq Real
       /\ msg.type = "Have" => msg.ids \subseteq K
    \/ /\ msg.type \in {"Events", "Push"}
       /\ msg = [type |-> msg.type, events |-> msg.events]
       /\ msg.events \subseteq Catalog
       /\ IdsOf(msg.events) \subseteq K
       /\ msg.type = "Events" =>
             \A e \in msg.events : e.parents \subseteq H \union IdsOf(msg.events)

\* Where the two ends of a working connection are in the exchange: C and L are what
\* the connecting and the listening end hold, known what the listening end was told.
Exchange(p, q, C, s, r, known, L) ==
    /\ p = "c_Want" /\ s = "l_Have" => r[1].ids = C
    /\ s = "l_Events" => known = C
    /\ p = "c_Want" /\ s = "l_Events" => q[1].ids = C \ L
    /\ p = "c_EventsAck" /\ s = "l_Events" => IdsOf(r[1].events) = C \ L
    /\ p = "c_EventsAck" /\ s = "l_EventsAck" => IdsOf(q[2].events) = L \ C
    /\ p = "c_Events" /\ s = "l_EventsAck" => IdsOf(q[1].events) = L \ C
    /\ s = "l_EventsAck" => C \subseteq L

\* x has heard that the other end has taken in what x had for it.
Heard(p, q) ==
    \/ p \in {"c_Events", "l_Bye"}
    \/ p \in {"c_EventsAck", "l_EventsAck"} /\ q # <<>>

\* What is on the way to x is true of x and its peer, and what x remembers of its peer
\* the peer holds.
Informed(x) ==
    LET y == link[x].peer
    IN  /\ \A i \in DOMAIN link[x].in :
              Truthful(link[x].in[i], Keys(history[x]), Keys(history[y]))
        /\ peer_ids[x] \subseteq Real
        /\ Heard(pc[x], link[x].in) => Keys(history[x]) \subseteq Keys(history[y])
        /\ Linked(x) /\ pc[x] \in Serving =>
              Exchange(pc[y], link[y].in, Keys(history[y]),
                       pc[x], link[x].in, peer_ids[x], Keys(history[x]))

\* The inductive invariant: histories as in DistributedNodes, sessions in shape, and all
\* that they say true.
DInv == IInv /\ SInv /\ \A x \in Node : Informed(x)

----------------------------------------------------------------------------
\* With noops only at tips, what a node holds are events of the catalog as they are.
LEMMA HeldIsCatalog ==
    ASSUME NoopsAtTip, NEW d, Normal(d), NEW i \in Keys(d)
    PROVE  LET e == d.events[i]
           IN  e \in Catalog /\ e.id = i /\ i \in Real /\ e.parents \subseteq Keys(d)
  <1> DEFINE e == d.events[i]
             w == World.events[i]
  <1>1. /\ i \in Real /\ e = Bare(World, i) /\ e.id = i
    BY NormalIsPart DEF Normal, KeysMatchIds
  <1>2. w \in Catalog
    BY <1>1, WorldIsCatalog DEF Real
  <1>3. Resolve(World, Noops(World), w.parents) = w.parents
    BY <1>2, ThroughOutside DEF NoopsAtTip, Resolve
  <1>4. Bare(World, i) = w
    <2>1. i \in Keys(World)
      BY <1>1 DEF Real
    <2>2. w = WithParents(w, w.parents)
      BY <2>1, WorldIsCatalog DEF IsWorld
    <2>3. QED
      BY <1>3, <2>2 DEF Bare
  <1>5. e.parents \subseteq Keys(d)
    BY DEF Normal, IsCausallyClosed, MissingAncestors, AllParents
  <1>6. QED
    BY <1>1, <1>2, <1>4, <1>5

\* The events of a node under some of its ids.
LEMMA HeldIds ==
    ASSUME NoopsAtTip, NEW d, Normal(d), NEW I, I \subseteq Keys(d)
    PROVE  LET E == {d.events[i] : i \in I}
           IN  /\ E \subseteq Catalog /\ IdsOf(E) = I /\ I \subseteq Real
               /\ \A e \in E : e.parents \subseteq Keys(d)
  BY HeldIsCatalog DEF IdsOf

\* Making an event of the catalog anew gives the same event.
LEMMA RehashedIsSame ==
    ASSUME NEW B, B \subseteq Catalog
    PROVE  Rehashed(B) = B
  BY CatalogAssumption DEF Rehashed

\* A node takes in what a truthful message brings.
LEMMA TakeInTruthful ==
    ASSUME InOrder, NoopsAtTip, IInv, NEW n \in Node, NEW msg, NEW K, K \subseteq Real,
           msg.type = "Events", Truthful(msg, Keys(history[n]), K),
           TakeIn(n, msg.events)
    PROVE  /\ IInv' /\ Next
           /\ \A x \in Node \ {n} : history'[x] = history[x]
           /\ Keys(history'[n]) = Keys(history[n]) \union IdsOf(msg.events)
  <1> DEFINE B == msg.events
  <1>1. /\ B \subseteq Catalog /\ IdsOf(B) \subseteq Real
        /\ \A e \in B : e.parents \subseteq Keys(history[n]) \union {f.id : f \in B}
    BY DEF Truthful, IdsOf
  <1>2. history' = [history EXCEPT ![n] = Reduce(InsertAll(history[n], B))]
    BY <1>1, RehashedIsSame DEF TakeIn
  <1>3. BatchAppend(n, B)
    BY <1>1, <1>2 DEF BatchAppend
  <1>4. IInv' /\ Next
    BY <1>1, <1>3, BatchKeepsIInv DEF Next
  <1>5. /\ \A x \in Node \ {n} : history'[x] = history[x]
        /\ history'[n] = Reduce(InsertAll(history[n], B))
    BY <1>2 DEF IInv
  <1>6. Keys(history'[n]) = (Keys(history[n]) \union IdsOf(B)) \intersect Real
    BY <1>1, <1>5, TakenBatchIsNormal DEF IInv, IdsOf
  <1>7. Keys(history[n]) \subseteq Real
    BY DEF IInv, Normal
  <1>8. QED
    BY <1>1, <1>4, <1>5, <1>6, <1>7

----------------------------------------------------------------------------
\* What is true of a node that holds H and of one that holds K stays true while both
\* learn more.
LEMMA StillTruthful ==
    ASSUME NEW msg, NEW H, NEW K, NEW H2, NEW K2, H \subseteq H2, K \subseteq K2,
           Truthful(msg, H, K)
    PROVE  Truthful(msg, H2, K2)
  BY DEF Truthful

\* A node that is in no session.
LEMMA IdleInformed ==
    ASSUME NEW x, pc[x] \notin InSession, link[x] = NoLink(x), peer_ids[x] = {}
    PROVE  Informed(x)
  <1>1. link[x].peer = x /\ link[x].in = <<>>
    BY DEF NoLink
  <1>2. ~Heard(pc[x], <<>>)
    BY DEF Heard, InSession, Expected, Serving
  <1>3. QED
    BY <1>1, <1>2 DEF Informed, Linked

\* A node whose session a step leaves alone, but for a cut, while it and the node at
\* the other end, which may have left, keep what they had.
LEMMA BystanderInformed ==
    ASSUME NEW x, Informed(x),
           pc'[x] = pc[x], peer_ids'[x] = peer_ids[x], link'[x].peer = link[x].peer,
           \A i \in DOMAIN link'[x].in : i \in DOMAIN link[x].in /\ link'[x].in[i] = link[x].in[i],
           link'[x].in # <<>> => link[x].in # <<>>,
           history'[x] = history[x],
           Keys(history[link[x].peer]) \subseteq Keys(history'[link[x].peer]),
           Linked(x)' => LET y == link[x].peer
                         IN  /\ Linked(x) /\ link'[x].in = link[x].in
                             /\ link'[y].in = link[y].in /\ pc'[y] = pc[y]
                             /\ Keys(history'[y]) = Keys(history[y])
    PROVE  Informed(x)'
  <1> DEFINE y == link[x].peer
  <1>1. ASSUME NEW i \in DOMAIN link'[x].in
        PROVE  Truthful(link'[x].in[i], Keys(history'[x]), Keys(history'[y]))
    <2>1. Truthful(link[x].in[i], Keys(history[x]), Keys(history[y])) /\ link'[x].in[i] = link[x].in[i]
      BY DEF Informed
    <2>2. QED
      BY <2>1, StillTruthful
  <1>2. Heard(pc'[x], link'[x].in) => Keys(history'[x]) \subseteq Keys(history'[y])
    BY DEF Informed, Heard
  <1>3. Linked(x)' /\ pc'[x] \in Serving =>
           Exchange(pc'[y], link'[y].in, Keys(history'[y]),
                    pc'[x], link'[x].in, peer_ids'[x], Keys(history'[x]))
    BY DEF Informed
  <1>4. QED
    BY <1>1, <1>2, <1>3 DEF Informed

\* What is left of a queue once its first message is read.
LEMMA TailIn ==
    ASSUME NEW p, NEW q, Scripted(p, q), q # <<>>, NEW i \in DOMAIN Tail(q)
    PROVE  \E j \in DOMAIN q : Tail(q)[i] = q[j]
  <1>1. ASSUME NEW t, NEW u, Two(q, t, u)
        PROVE  Tail(q)[i] = q[2] /\ 2 \in DOMAIN q
    <2>1. One(Tail(q), u) /\ Tail(q)[1] = q[2] /\ DOMAIN q = {1, 2}
      BY <1>1, ReadTwo
    <2>2. i = 1
      BY <2>1, ReadOne
    <2>3. QED
      BY <2>1, <2>2
  <1>2. ASSUME NEW t, One(q, t) PROVE FALSE
    <2>1. Tail(q) = <<>>
      BY <1>2, ReadOne
    <2>2. QED
      BY <2>1
  <1>3. QED
    BY <1>1, <1>2 DEF Scripted

\* A step that reads a message and keeps all nodes informed, when what it writes is true,
\* what either end may conclude from it is, and the exchange goes on as it should.
LEMMA ReplyInforms ==
    ASSUME SInv, \A x \in Node : Informed(x),
           NEW n \in Node, pc[n] \in InSession, link[n].in # <<>>,
           NEW S, NEW msgs \in Seq(S), NEW next \in InSession \union {"idle"}, NEW ids,
           Reply(n, msgs, next, ids),
           \A x \in Node \ {n} : history'[x] = history[x],
           Keys(history[n]) \subseteq Keys(history'[n]),
           next # "idle" => ids \subseteq Real,
           LET y == link[n].peer
               q == Tail(link[n].in)
           IN  /\ Heard(next, q) => Keys(history'[n]) \subseteq Keys(history[y])
               /\ Linked(n) =>
                     /\ \A i \in DOMAIN msgs :
                           Truthful(msgs[i], Keys(history[y]), Keys(history'[n]))
                     /\ \A k \in 0 .. Len(msgs) : Heard(pc[y], SubSeq(msgs, 1, k))
                           => Keys(history[y]) \subseteq Keys(history'[n])
                     /\ next \in Serving =>
                           Exchange(pc[y], msgs, Keys(history[y]),
                                    next, q, ids, Keys(history'[n]))
                     /\ next \in InSession /\ pc[y] \in Serving =>
                           Exchange(next, q, Keys(history'[n]),
                                    pc[y], msgs, peer_ids[y], Keys(history[y]))
    PROVE  \A x \in Node : Informed(x)'
  <1> DEFINE y == link[n].peer
             q == Tail(link[n].in)
  <1>1. Linked(n) => link[y].in = <<>>
    BY HalfDuplex
  <1>2. PICK k \in 0 .. Len(msgs) : After(n, msgs, next, ids, k)
    BY <1>1, ReplyEffect
  <1>3. /\ DOMAIN SubSeq(msgs, 1, k) \subseteq DOMAIN msgs
        /\ \A i \in DOMAIN SubSeq(msgs, 1, k) : SubSeq(msgs, 1, k)[i] = msgs[i]
        /\ SubSeq(msgs, 1, Len(msgs)) = msgs
    <2>1. \A i \in 1 .. k : msgs[i] \in S
      OBVIOUS
    <2>2. /\ SubSeq(msgs, 1, k) \in Seq(S)
          /\ Len(SubSeq(msgs, 1, k)) = k
          /\ \A i \in 1 .. k : SubSeq(msgs, 1, k)[i] = msgs[i]
      BY <2>1, SubSeqProperties
    <2>3. SubSeq(msgs, 1, Len(msgs)) = msgs
      BY SubSeqFull
    <2> DEFINE s == SubSeq(msgs, 1, k)
    <2> HIDE DEF s
    <2>4. DOMAIN s = 1 .. k /\ DOMAIN msgs = 1 .. Len(msgs)
      BY <2>2 DEF s
    <2>5. QED
      BY <2>2, <2>3, <2>4 DEF s
  <1>4. /\ y \in Node /\ y # n /\ Scripted(pc[n], link[n].in)
        /\ "idle" \notin InSession
    BY DEF SInv, SessionOK, InSession, Serving, Expected
  <1>5. ASSUME NEW x \in Node \ {n}
        PROVE  /\ pc'[x] = pc[x] /\ peer_ids'[x] = peer_ids[x]
               /\ link'[x].peer = link[x].peer
               /\ link'[x].in = IF x = y /\ Linked(n) THEN SubSeq(msgs, 1, k) ELSE link[x].in
               /\ link'[x].eof = IF pc'[n] = "idle" /\ link[x].peer = n
                                 THEN TRUE ELSE link[x].eof
    <2> DEFINE in  == IF x = y /\ Linked(n) THEN SubSeq(msgs, 1, k) ELSE link[x].in
               eof == IF pc'[n] = "idle" /\ link[x].peer = n THEN TRUE ELSE link[x].eof
    <2>1. link'[x] = [peer |-> link[x].peer, in |-> in, eof |-> eof]
      BY <1>2 DEF After
    <2>2. pc'[x] = pc[x] /\ peer_ids'[x] = peer_ids[x]
      BY <1>2 DEF After
    <2> HIDE DEF in, eof
    <2>3. link'[x].peer = link[x].peer /\ link'[x].in = in /\ link'[x].eof = eof
      BY <2>1
    <2>4. QED
      BY <2>2, <2>3 DEF in, eof
  <1>6. ASSUME NEW x \in Node \ {n}
        PROVE  Informed(x)'
    <2> DEFINE z == link[x].peer
    <2>1. Informed(x) /\ z \in Node
      BY DEF SInv, SessionOK
    <2>2. CASE x = y /\ Linked(n)
      <3>1. /\ z = n /\ link'[x].in = SubSeq(msgs, 1, k) /\ history'[x] = history[x]
            /\ link'[x].peer = n
        BY <1>5, <2>2 DEF Linked
      <3>2. \A i \in DOMAIN link'[x].in :
               Truthful(link'[x].in[i], Keys(history'[x]), Keys(history'[n]))
        BY <1>3, <2>2, <3>1
      <3>3. Heard(pc'[x], link'[x].in) => Keys(history'[x]) \subseteq Keys(history'[n])
        BY <1>5, <2>2, <3>1
      <3>4. ASSUME Linked(x)', pc'[x] \in Serving
            PROVE  Exchange(pc'[n], link'[n].in, Keys(history'[n]),
                            pc'[x], link'[x].in, peer_ids'[x], Keys(history'[x]))
        <4>1. pc'[n] # "idle"
          BY <1>5, <3>1, <3>4 DEF Linked
        <4>2. /\ next # "idle" /\ k = Len(msgs) /\ pc'[n] = next
              /\ link'[n] = [peer |-> y, in |-> q, eof |-> link[n].eof]
          BY <1>2, <4>1 DEF After
        <4>3. link'[n].in = q
          BY <4>2
        <4>4. pc'[x] = pc[y] /\ peer_ids'[x] = peer_ids[y] /\ link'[x].in = msgs
          BY <1>3, <1>5, <2>2, <3>1, <4>2
        <4>5. QED
          BY <2>2, <3>1, <3>4, <4>2, <4>3, <4>4
      <3>5. QED
        BY <1>5, <2>1, <3>1, <3>2, <3>3, <3>4 DEF Informed
    <2>3. CASE ~(x = y /\ Linked(n))
      <3>1. link'[x].in = link[x].in
        BY <1>5, <2>3
      <3>2. Keys(history[z]) \subseteq Keys(history'[z])
        BY <2>1
      <3>3. ASSUME Linked(x)'
            PROVE  /\ Linked(x) /\ link'[z].in = link[z].in
                   /\ pc'[z] = pc[z] /\ history'[z] = history[z]
        <4>1. z # n
          <5>1. SUFFICES ASSUME z = n PROVE FALSE
            OBVIOUS
          <5>2. link'[n].peer = x /\ ~link'[n].eof /\ ~link'[x].eof
            BY <1>5, <3>3, <5>1 DEF Linked
          <5>3. link'[n] # NoLink(n)
            BY <5>2 DEF NoLink
          <5>4. link'[n] = [peer |-> y, in |-> q, eof |-> link[n].eof]
            BY <1>2, <5>3 DEF After
          <5>5. link'[n].peer = y /\ link'[n].eof = link[n].eof
            BY <5>4
          <5>6. ~link[x].eof
            BY <1>5, <5>2
          <5>7. QED
            BY <1>4, <2>3, <5>1, <5>2, <5>5, <5>6 DEF Linked
        <4>2. z = y => ~Linked(n)
          <5>1. link'[z].peer = x
            BY <1>5, <3>3 DEF Linked
          <5>2. link[z].peer = x
            BY <1>5, <2>1, <4>1, <5>1
          <5>3. QED
            BY <5>2 DEF Linked
        <4>3. /\ link'[z].in = link[z].in /\ link'[z].peer = link[z].peer
              /\ ~link'[z].eof => ~link[z].eof
              /\ pc'[z] = pc[z] /\ history'[z] = history[z]
          BY <1>5, <2>1, <4>1, <4>2
        <4>4. ~link'[x].eof => ~link[x].eof
          BY <1>5
        <4>5. QED
          BY <1>5, <3>3, <4>3, <4>4 DEF Linked
      <3>4. QED
        BY <1>5, <2>1, <3>1, <3>2, <3>3, BystanderInformed
    <2>4. QED
      BY <2>2, <2>3
  <1>7. Informed(n)'
    <2>1. CASE pc'[n] = "idle"
      <3>1. link'[n] = NoLink(n) /\ peer_ids'[n] = {}
        BY <1>2, <1>4, <2>1 DEF After
      <3>2. pc'[n] \notin InSession
        BY <1>4, <2>1
      <3>3. link'[n].peer = n /\ link'[n].in = <<>>
        BY <3>1 DEF NoLink
      <3>4. ~Heard("idle", <<>>)
        BY DEF Heard
      <3>5. QED
        BY <2>1, <3>1, <3>2, <3>3, <3>4 DEF Informed, Linked
    <2>2. CASE pc'[n] # "idle"
      <3>1. /\ next # "idle" /\ k = Len(msgs) /\ pc'[n] = next /\ peer_ids'[n] = ids
            /\ link'[n] = [peer |-> y, in |-> q, eof |-> link[n].eof]
        BY <1>2, <2>2 DEF After
      <3>2. link'[n].peer = y /\ link'[n].in = q /\ link'[n].eof = link[n].eof
        BY <3>1
      <3>3. \A i \in DOMAIN q : Truthful(q[i], Keys(history'[n]), Keys(history'[y]))
        <4>1. \A j \in DOMAIN link[n].in :
                 Truthful(link[n].in[j], Keys(history[n]), Keys(history[y]))
          BY DEF Informed
        <4>2. history'[y] = history[y]
          BY <1>4
        <4>3. QED
          BY <1>4, <4>1, <4>2, TailIn, StillTruthful
      <3>4. Heard(pc'[n], q) => Keys(history'[n]) \subseteq Keys(history'[y])
        BY <1>4, <3>1
      <3>5. ASSUME Linked(n)', pc'[n] \in Serving
            PROVE  Exchange(pc'[y], link'[y].in, Keys(history'[y]),
                            pc'[n], q, peer_ids'[n], Keys(history'[n]))
        <4>1. Linked(n)
          BY <1>4, <1>5, <2>2, <3>2, <3>5 DEF Linked
        <4>2. link'[y].in = msgs /\ pc'[y] = pc[y] /\ history'[y] = history[y]
          BY <1>3, <1>4, <1>5, <3>1, <4>1
        <4>3. QED
          BY <3>1, <3>5, <4>1, <4>2
      <3>6. QED
        BY <3>1, <3>2, <3>3, <3>4, <3>5 DEF Informed
    <2>3. QED
      BY <2>1, <2>2
  <1>8. QED
    BY <1>6, <1>7

\* Nothing but what it reads makes the other end of a reader conclude anything.
LEMMA PartnerHeardNothing ==
    ASSUME SInv, NEW n \in Node, Linked(n), link[n].in # <<>>
    PROVE  ~Heard(pc[link[n].peer], <<>>)
  <1>1. Agree(pc[n], link[n].in, pc[link[n].peer], link[link[n].peer].in)
    BY DEF SInv, SessionOK
  <1>2. link[link[n].peer].in = <<>>
    BY HalfDuplex
  <1>3. ~One(<<>>, "Events")
    BY ReadOne
  <1>4. QED
    BY <1>1, <1>2, <1>3 DEF Agree, Joint, Heard

\* The same for steps that write none, one or two messages.
LEMMA NoneInforms ==
    ASSUME SInv, \A x \in Node : Informed(x), UNCHANGED history,
           NEW n \in Node, pc[n] \in InSession, link[n].in # <<>>,
           NEW next \in InSession \union {"idle"}, NEW ids, Reply(n, <<>>, next, ids),
           next # "idle" => ids \subseteq Real,
           LET y == link[n].peer
               q == Tail(link[n].in)
           IN  /\ Heard(next, q) => Keys(history[n]) \subseteq Keys(history[y])
               /\ Linked(n) =>
                     /\ next \notin Serving
                     /\ next \in InSession /\ pc[y] \in Serving =>
                           Exchange(next, q, Keys(history[n]),
                                    pc[y], <<>>, peer_ids[y], Keys(history[y]))
    PROVE  \A x \in Node : Informed(x)'
  <1>1. <<>> \in Seq({}) /\ 0 .. Len(<<>>) = {0} /\ DOMAIN <<>> = {}
    OBVIOUS
  <1>2. Linked(n) => \A k \in 0 .. Len(<<>>) : ~Heard(pc[link[n].peer], SubSeq(<<>>, 1, k))
    BY <1>1, CutShort, PartnerHeardNothing
  <1> DEFINE msgs == <<>>
  <1> HIDE DEF msgs
  <1>3. QED
    BY <1>1, <1>2, ReplyInforms DEF msgs

\* A reply of one true message keeps everybody informed, as histories stay as they are.
LEMMA OneInforms ==
    ASSUME SInv, \A x \in Node : Informed(x), UNCHANGED history,
           NEW n \in Node, pc[n] \in InSession, link[n].in # <<>>, NEW m,
           NEW next \in InSession \union {"idle"}, NEW ids, Reply(n, <<m>>, next, ids),
           next # "idle" => ids \subseteq Real,
           LET y == link[n].peer
               q == Tail(link[n].in)
           IN  /\ ~Heard(next, q)
               /\ Linked(n) =>
                     /\ Truthful(m, Keys(history[y]), Keys(history[n]))
                     /\ ~Heard(pc[y], <<m>>)
                     /\ next \in Serving =>
                           Exchange(pc[y], <<m>>, Keys(history[y]), next, q, ids, Keys(history[n]))
                     /\ next \in InSession /\ pc[y] \in Serving =>
                           Exchange(next, q, Keys(history[n]),
                                    pc[y], <<m>>, peer_ids[y], Keys(history[y]))
    PROVE  \A x \in Node : Informed(x)'
  <1> DEFINE msgs == <<m>>
  <1>1. /\ msgs \in Seq({m}) /\ 0 .. Len(msgs) = {0, 1}
        /\ DOMAIN msgs = {1} /\ msgs[1] = m
    OBVIOUS
  <1>2. SubSeq(msgs, 1, 0) = <<>> /\ SubSeq(msgs, 1, 1) = msgs
    BY CutShort
  <1>3. /\ Reply(n, msgs, next, ids)
        /\ LET y == link[n].peer
               q == Tail(link[n].in)
           IN  /\ ~Heard(next, q)
               /\ Linked(n) =>
                     /\ Truthful(m, Keys(history[y]), Keys(history[n]))
                     /\ ~Heard(pc[y], msgs)
                     /\ next \in Serving =>
                           Exchange(pc[y], msgs, Keys(history[y]), next, q, ids, Keys(history[n]))
                     /\ next \in InSession /\ pc[y] \in Serving =>
                           Exchange(next, q, Keys(history[n]),
                                    pc[y], msgs, peer_ids[y], Keys(history[y]))
    OBVIOUS
  <1> HIDE DEF msgs
  <1>4. Linked(n) => \A k \in 0 .. Len(msgs) : ~Heard(pc[link[n].peer], SubSeq(msgs, 1, k))
    BY <1>1, <1>2, <1>3, PartnerHeardNothing
  <1>5. QED
    BY <1>1, <1>3, <1>4, ReplyInforms

\* So does a reply of two.
LEMMA TwoInform ==
    ASSUME SInv, \A x \in Node : Informed(x),
           NEW n \in Node, pc[n] \in InSession, link[n].in # <<>>, NEW m, NEW w,
           NEW next \in InSession \union {"idle"}, NEW ids, Reply(n, <<m, w>>, next, ids),
           \A x \in Node \ {n} : history'[x] = history[x],
           Keys(history[n]) \subseteq Keys(history'[n]),
           next # "idle" => ids \subseteq Real,
           LET y == link[n].peer
               q == Tail(link[n].in)
           IN  /\ ~Heard(next, q)
               /\ Linked(n) =>
                     /\ Truthful(m, Keys(history[y]), Keys(history'[n]))
                     /\ Truthful(w, Keys(history[y]), Keys(history'[n]))
                     /\ Keys(history[y]) \subseteq Keys(history'[n])
                     /\ next \in Serving =>
                           Exchange(pc[y], <<m, w>>, Keys(history[y]),
                                    next, q, ids, Keys(history'[n]))
                     /\ next \in InSession => pc[y] \notin Serving
    PROVE  \A x \in Node : Informed(x)'
  <1> DEFINE msgs == <<m, w>>
  <1>1. /\ msgs \in Seq({m, w}) /\ DOMAIN msgs = {1, 2} /\ msgs[1] = m /\ msgs[2] = w
    OBVIOUS
  <1>2. /\ Reply(n, msgs, next, ids)
        /\ LET y == link[n].peer
               q == Tail(link[n].in)
           IN  /\ ~Heard(next, q)
               /\ Linked(n) =>
                     /\ Truthful(m, Keys(history[y]), Keys(history'[n]))
                     /\ Truthful(w, Keys(history[y]), Keys(history'[n]))
                     /\ Keys(history[y]) \subseteq Keys(history'[n])
                     /\ next \in Serving =>
                           Exchange(pc[y], msgs, Keys(history[y]),
                                    next, q, ids, Keys(history'[n]))
                     /\ next \in InSession => pc[y] \notin Serving
    OBVIOUS
  <1> HIDE DEF msgs
  <1>3. QED
    BY <1>1, <1>2, ReplyInforms

----------------------------------------------------------------------------
\* What a node that reads its message knows.
LEMMA ReadsTruth ==
    ASSUME DInv, NEW n \in Node, NEW at \in DOMAIN Expected, Receives(n, at)
    PROVE  LET y == link[n].peer
               q == link[n].in
           IN  /\ pc[n] = at /\ pc[n] \in InSession /\ q # <<>>
               /\ y \in Node /\ y # n
               /\ Scripted(at, q)
               /\ Linked(n) => Agree(at, q, pc[y], link[y].in)
               /\ Msg(n) = q[1] /\ q[1].type = Expected[at]
               /\ Truthful(q[1], Keys(history[n]), Keys(history[y]))
               /\ peer_ids[n] \subseteq Real
               /\ Heard(at, q) => Keys(history[n]) \subseteq Keys(history[y])
               /\ Linked(n) /\ at \in Serving =>
                     Exchange(pc[y], link[y].in, Keys(history[y]),
                              at, q, peer_ids[n], Keys(history[n]))
               /\ Linked(n) /\ pc[y] \in Serving =>
                     Exchange(at, q, Keys(history[n]),
                              pc[y], link[y].in, peer_ids[y], Keys(history[y]))
  <1> DEFINE y == link[n].peer
             q == link[n].in
  <1>1. /\ pc[n] = at /\ pc[n] \in InSession /\ q # <<>> /\ Scripted(at, q) /\ Msg(n) = q[1]
        /\ Linked(n) => Agree(at, q, pc[y], link[y].in)
    BY Reads DEF DInv
  <1>2. y \in Node /\ y # n
    BY <1>1 DEF DInv, SInv, SessionOK
  <1>3. q[1].type = Expected[at]
    BY <1>1 DEF Receives
  <1>4. 1 \in DOMAIN q
    BY <1>1, ReadOne, ReadTwo DEF Scripted
  <1>5. /\ Truthful(q[1], Keys(history[n]), Keys(history[y]))
        /\ peer_ids[n] \subseteq Real
        /\ Heard(at, q) => Keys(history[n]) \subseteq Keys(history[y])
        /\ Linked(n) /\ at \in Serving =>
              Exchange(pc[y], link[y].in, Keys(history[y]), at, q, peer_ids[n], Keys(history[n]))
    BY <1>1, <1>4 DEF DInv, Informed
  <1>6. Linked(n) => Linked(y) /\ link[y].peer = n
    BY DEF Linked
  <1>7. Linked(n) /\ pc[y] \in Serving =>
           Exchange(at, q, Keys(history[n]), pc[y], link[y].in, peer_ids[y], Keys(history[y]))
    BY <1>1, <1>2, <1>6 DEF DInv, Informed
  <1>8. QED
    BY <1>1, <1>2, <1>3, <1>5, <1>7

\* The connecting end asks, sends what is wanted, and takes in what comes back.
LEMMA ReceiveHelloAckInforms ==
    ASSUME NoopsAtTip, DInv, NEW n \in Node, ReceiveHelloAck(n)
    PROVE  \A x \in Node : Informed(x)'
  <1> DEFINE q == link[n].in
             y == link[n].peer
             K == Keys(history[n])
             m == [type |-> "Have", ids |-> K]
  <1>1. "c_HelloAck" \in DOMAIN Expected /\ "c_Want" \in InSession /\ "c_Want" \notin Serving
    BY DEF Expected, InSession, Serving
  <1>2. Receives(n, "c_HelloAck") /\ Reply(n, <<m>>, "c_Want", {}) /\ UNCHANGED history
    BY DEF ReceiveHelloAck
  <1>3. /\ pc[n] \in InSession /\ q # <<>> /\ Scripted("c_HelloAck", q)
        /\ Linked(n) => Agree("c_HelloAck", q, pc[y], link[y].in)
    BY <1>1, <1>2, ReadsTruth
  <1>4. Linked(n) => pc[y] = "l_Have"
    BY <1>3 DEF Agree, Joint
  <1>5. <<m>>[1] = m /\ m.type = "Have" /\ m.ids = K /\ K \subseteq Real
    BY DEF DInv, IInv, Normal
  <1>6. Truthful(m, Keys(history[y]), K)
    BY <1>5 DEF Truthful
  <1> HIDE DEF m
  <1>7. /\ ~Heard("c_Want", Tail(q)) /\ ~Heard("l_Have", <<m>>)
        /\ Exchange("c_Want", Tail(q), K, "l_Have", <<m>>, peer_ids[y], Keys(history[y]))
    BY <1>5 DEF Heard, Exchange
  <1>8. QED
    BY <1>1, <1>2, <1>3, <1>4, <1>6, <1>7, OneInforms DEF DInv

\* The connecting side says what is true and remembers what it was told: on Want,
LEMMA ReceiveWantInforms ==
    ASSUME NoopsAtTip, DInv, NEW n \in Node, ReceiveWant(n)
    PROVE  \A x \in Node : Informed(x)'
  <1> DEFINE q == link[n].in
             y == link[n].peer
             K == Keys(history[n])
             L == Keys(history[y])
             wanted == Msg(n).ids \intersect K
             E == {history[n].events[i] : i \in wanted}
             m == [type |-> "Events", events |-> E]
  <1>1. /\ "c_Want" \in DOMAIN Expected /\ "c_EventsAck" \in InSession
        /\ "c_EventsAck" \notin Serving /\ "l_Events" \in Serving
    BY DEF Expected, InSession, Serving
  <1>2. Receives(n, "c_Want") /\ Reply(n, <<m>>, "c_EventsAck", {}) /\ UNCHANGED history
    BY DEF ReceiveWant
  <1>3. /\ pc[n] \in InSession /\ q # <<>> /\ Scripted("c_Want", q) /\ Msg(n) = q[1]
        /\ Linked(n) => Agree("c_Want", q, pc[y], link[y].in)
        /\ Linked(n) /\ pc[y] \in Serving =>
              Exchange("c_Want", q, K, pc[y], link[y].in, peer_ids[y], L)
    BY <1>1, <1>2, ReadsTruth
  <1>4. Tail(q) = <<>>
    BY <1>3, ReadOne DEF Scripted
  <1>5. E \subseteq Catalog /\ IdsOf(E) = wanted /\ \A e \in E : e.parents \subseteq K
    BY HeldIds DEF DInv, IInv
  <1>6. <<m>>[1] = m /\ m.type = "Events" /\ m.events = E
    OBVIOUS
  <1>7. ASSUME Linked(n)
        PROVE  /\ pc[y] = "l_Events" /\ Truthful(m, L, K)
               /\ Exchange("c_EventsAck", Tail(q), K, "l_Events", <<m>>, peer_ids[y], L)
    <2>1. pc[y] = "l_Events"
      BY <1>3, <1>7 DEF Agree, Joint
    <2>2. peer_ids[y] = K /\ q[1].ids = K \ L
      BY <1>1, <1>3, <1>7, <2>1 DEF Exchange
    <2>3. wanted = K \ L
      BY <1>3, <2>2
    <2> HIDE DEF E
    <2>4. Truthful(m, L, K)
      BY <1>5, <1>6, <2>3 DEF Truthful
    <2> HIDE DEF m
    <2>5. Exchange("c_EventsAck", Tail(q), K, "l_Events", <<m>>, peer_ids[y], L)
      BY <1>5, <1>6, <2>2, <2>3 DEF Exchange
    <2>6. QED
      BY <2>1, <2>4, <2>5
  <1> HIDE DEF m
  <1>8. ~Heard("c_EventsAck", Tail(q)) /\ ~Heard("l_Events", <<m>>)
    BY <1>4 DEF Heard
  <1>9. QED
    BY <1>1, <1>2, <1>3, <1>7, <1>8, OneInforms DEF DInv

\* on EventsAck,
LEMMA ReceiveEventsAckInforms ==
    ASSUME DInv, NEW n \in Node, ReceiveEventsAck(n)
    PROVE  \A x \in Node : Informed(x)'
  <1> DEFINE q == link[n].in
             y == link[n].peer
             K == Keys(history[n])
             L == Keys(history[y])
  <1>1. /\ "c_EventsAck" \in DOMAIN Expected /\ "c_Events" \in InSession
        /\ "c_Events" \notin Serving /\ "l_EventsAck" \in Serving
    BY DEF Expected, InSession, Serving
  <1>2. Receives(n, "c_EventsAck") /\ Reply(n, <<>>, "c_Events", {}) /\ UNCHANGED history
    BY DEF ReceiveEventsAck
  <1>3. /\ pc[n] \in InSession /\ q # <<>>
        /\ Linked(n) => Agree("c_EventsAck", q, pc[y], link[y].in)
        /\ Heard("c_EventsAck", q) => K \subseteq L
        /\ Linked(n) /\ pc[y] \in Serving =>
              Exchange("c_EventsAck", q, K, pc[y], link[y].in, peer_ids[y], L)
    BY <1>1, <1>2, ReadsTruth
  <1>4. K \subseteq L
    BY <1>3 DEF Heard
  <1>5. ASSUME Linked(n)
        PROVE  Exchange("c_Events", Tail(q), K, pc[y], <<>>, peer_ids[y], L)
    <2>1. pc[y] = "l_EventsAck" /\ Two(q, "EventsAck", "Events")
      BY <1>3, <1>5 DEF Agree, Joint
    <2>2. IdsOf(q[2].events) = L \ K
      BY <1>1, <1>3, <1>5, <2>1 DEF Exchange
    <2>3. Tail(q)[1] = q[2]
      BY <2>1, ReadTwo
    <2>4. QED
      BY <1>4, <2>1, <2>2, <2>3 DEF Exchange
  <1>6. QED
    BY <1>1, <1>2, <1>3, <1>4, <1>5, NoneInforms DEF DInv

\* on the events that follow it, which it merges,
LEMMA ReceiveEventsInforms ==
    ASSUME InOrder, NoopsAtTip, DInv, NEW n \in Node, ReceiveEvents(n)
    PROVE  /\ IInv' /\ Next /\ \A x \in Node : Informed(x)'
           /\ LET y == link[n].peer
              IN  /\ history'[y] = history[y]
                  /\ Keys(history'[n]) \subseteq Keys(history'[y])
                  /\ Linked(n) => Keys(history'[n]) = Keys(history'[y])
  <1> DEFINE q == link[n].in
             y == link[n].peer
             K == Keys(history[n])
             L == Keys(history[y])
             m == Simple("EventsAck")
             w == Simple("Bye")
  <1>1. /\ "c_Events" \in DOMAIN Expected /\ "l_EventsAck" \in Serving
        /\ Expected["c_Events"] = "Events" /\ "idle" \notin Serving /\ "idle" \notin InSession
    BY DEF Expected, Serving, InSession
  <1>2. /\ Receives(n, "c_Events") /\ TakeIn(n, Msg(n).events)
        /\ Reply(n, <<m, w>>, "idle", {})
    BY DEF ReceiveEvents
  <1>3. /\ pc[n] \in InSession /\ q # <<>> /\ y \in Node /\ y # n
        /\ Msg(n) = q[1] /\ q[1].type = "Events" /\ Truthful(q[1], K, L)
        /\ Linked(n) => Agree("c_Events", q, pc[y], link[y].in)
        /\ Heard("c_Events", q) => K \subseteq L
        /\ Linked(n) /\ pc[y] \in Serving =>
              Exchange("c_Events", q, K, pc[y], link[y].in, peer_ids[y], L)
    BY <1>1, <1>2, ReadsTruth
  <1>4. L \subseteq Real
    BY <1>3 DEF DInv, IInv, Normal
  <1>5. /\ IInv' /\ Next /\ \A x \in Node \ {n} : history'[x] = history[x]
        /\ Keys(history'[n]) = K \union IdsOf(q[1].events)
    BY <1>2, <1>3, <1>4, TakeInTruthful DEF DInv
  <1>6. K \subseteq L /\ IdsOf(q[1].events) \subseteq L
    BY <1>3 DEF Heard, Truthful
  <1>7. ASSUME Linked(n)
        PROVE  pc[y] = "l_EventsAck" /\ IdsOf(q[1].events) = L \ K
    <2>1. pc[y] = "l_EventsAck"
      BY <1>3, <1>7 DEF Agree, Joint
    <2>2. QED
      BY <1>1, <1>3, <1>7, <2>1 DEF Exchange
  <1>8. Linked(n) => Keys(history'[n]) = L
    BY <1>5, <1>6, <1>7
  <1>9. \A H, G : Truthful(m, H, G) /\ Truthful(w, H, G)
    BY DEF Truthful, Simple
  <1>10. ~Heard("idle", Tail(q))
    BY DEF Heard
  <1> HIDE DEF m, w
  <1>11. \A x \in Node : Informed(x)'
    BY <1>1, <1>2, <1>3, <1>5, <1>8, <1>9, <1>10, TwoInform DEF DInv
  <1>12. QED
    BY <1>3, <1>5, <1>6, <1>8, <1>11

\* and on the HelloAck of a push.
LEMMA PushReceiveHelloAckInforms ==
    ASSUME NoopsAtTip, DInv, NEW n \in Node, PushReceiveHelloAck(n)
    PROVE  \A x \in Node : Informed(x)'
  <1> DEFINE q == link[n].in
             y == link[n].peer
             E(i) == {history[n].events[i]}
             m(i) == [type |-> "Push", events |-> E(i)]
  <1>1. /\ "p_HelloAck" \in DOMAIN Expected /\ "p_PushAck" \in InSession
        /\ "p_PushAck" \notin Serving
    BY DEF Expected, InSession, Serving
  <1>2. PICK i \in Keys(history[n]) :
           /\ Receives(n, "p_HelloAck") /\ Reply(n, <<m(i)>>, "p_PushAck", {})
           /\ UNCHANGED history
    BY DEF PushReceiveHelloAck
  <1>3. /\ pc[n] \in InSession /\ q # <<>>
        /\ Linked(n) => Agree("p_HelloAck", q, pc[y], link[y].in)
    BY <1>1, <1>2, ReadsTruth
  <1>4. Linked(n) => pc[y] = "l_Have"
    BY <1>3 DEF Agree, Joint
  <1>5. E(i) \subseteq Catalog /\ IdsOf(E(i)) \subseteq Keys(history[n])
    BY HeldIsCatalog DEF DInv, IInv, IdsOf
  <1>6. Truthful(m(i), Keys(history[y]), Keys(history[n]))
    BY <1>5 DEF Truthful
  <1> HIDE DEF m
  <1>7. /\ ~Heard("p_PushAck", Tail(q)) /\ ~Heard("l_Have", <<m(i)>>)
        /\ Exchange("p_PushAck", Tail(q), Keys(history[n]),
                    "l_Have", <<m(i)>>, peer_ids[y], Keys(history[y]))
    BY DEF Heard, Exchange
  <1>8. QED
    BY <1>1, <1>2, <1>3, <1>4, <1>6, <1>7, OneInforms DEF DInv

\* The listening end answers, takes in what it wanted, and sends what is missing.
LEMMA HandleHelloInforms ==
    ASSUME DInv, NEW n \in Node, HandleHello(n)
    PROVE  \A x \in Node : Informed(x)'
  <1> DEFINE q == link[n].in
             y == link[n].peer
             m == Simple("HelloAck")
  <1>1. /\ "l_Hello" \in DOMAIN Expected /\ "l_Have" \in InSession
        /\ "c_HelloAck" \notin Serving /\ "p_HelloAck" \notin Serving
    BY DEF Expected, InSession, Serving
  <1>2. Receives(n, "l_Hello") /\ Reply(n, <<m>>, "l_Have", {}) /\ UNCHANGED history
    BY DEF HandleHello
  <1>3. /\ pc[n] \in InSession /\ q # <<>>
        /\ Linked(n) => Agree("l_Hello", q, pc[y], link[y].in)
    BY <1>1, <1>2, ReadsTruth
  <1>4. Linked(n) => pc[y] \in {"c_HelloAck", "p_HelloAck"}
    BY <1>3 DEF Agree, Joint
  <1>5. \A H, G : Truthful(m, H, G)
    BY DEF Truthful, Simple
  <1> HIDE DEF m
  <1>6. /\ ~Heard("l_Have", Tail(q)) /\ ~Heard("c_HelloAck", <<m>>) /\ ~Heard("p_HelloAck", <<m>>)
        /\ \A p \in {"c_HelloAck", "p_HelloAck"} :
              Exchange(p, <<m>>, Keys(history[y]), "l_Have", Tail(q), {}, Keys(history[n]))
    BY DEF Heard, Exchange
  <1>7. QED
    BY <1>1, <1>2, <1>3, <1>4, <1>5, <1>6, OneInforms DEF DInv

\* So does the listening side: on Have,
LEMMA HandleHaveInforms ==
    ASSUME DInv, NEW n \in Node, HandleHave(n)
    PROVE  \A x \in Node : Informed(x)'
  <1> DEFINE q == link[n].in
             y == link[n].peer
             L == Keys(history[n])
             C == Keys(history[y])
             ids == Msg(n).ids
             m == [type |-> "Want", ids |-> ids \ L]
  <1>1. /\ "l_Have" \in DOMAIN Expected /\ "l_Events" \in InSession
        /\ "l_Have" \in Serving /\ "c_Want" \notin Serving /\ Expected["l_Have"] = "Have"
    BY DEF Expected, InSession, Serving
  <1>2. Receives(n, "l_Have") /\ Reply(n, <<m>>, "l_Events", ids) /\ UNCHANGED history
    BY DEF HandleHave
  <1>3. /\ pc[n] \in InSession /\ q # <<>> /\ Scripted("l_Have", q)
        /\ Linked(n) => Agree("l_Have", q, pc[y], link[y].in)
        /\ Msg(n) = q[1] /\ q[1].type = "Have" /\ Truthful(q[1], L, C)
        /\ Linked(n) => Exchange(pc[y], link[y].in, C, "l_Have", q, peer_ids[n], L)
    BY <1>1, <1>2, ReadsTruth
  <1>4. /\ ~One(q, "Push") /\ ~One(q, "Hello")
    BY <1>3 DEF One
  <1>5. Tail(q) = <<>>
    BY <1>3, <1>4, ReadOne DEF Scripted
  <1>6. ids \subseteq Real
    BY <1>3 DEF Truthful
  <1>7. <<m>>[1] = m /\ m.type = "Want" /\ m.ids = ids \ L
    OBVIOUS
  <1>8. Truthful(m, C, L)
    BY <1>6 DEF Truthful
  <1> HIDE DEF m
  <1>9. ASSUME Linked(n)
        PROVE  pc[y] = "c_Want" /\ Exchange("c_Want", <<m>>, C, "l_Events", Tail(q), ids, L)
    <2>1. pc[y] = "c_Want"
      BY <1>3, <1>4, <1>9 DEF Agree, Joint
    <2>2. ids = C
      BY <1>3, <1>9, <2>1 DEF Exchange
    <2>3. QED
      BY <1>7, <2>1, <2>2 DEF Exchange
  <1>10. ~Heard("l_Events", Tail(q)) /\ ~Heard("c_Want", <<m>>)
    BY DEF Heard
  <1>11. QED
    BY <1>1, <1>2, <1>3, <1>6, <1>8, <1>9, <1>10, OneInforms DEF DInv

\* on Events, which it merges,
LEMMA HandleEventsInforms ==
    ASSUME InOrder, NoopsAtTip, DInv, NEW n \in Node, HandleEvents(n)
    PROVE  IInv' /\ Next /\ \A x \in Node : Informed(x)'
  <1> DEFINE q == link[n].in
             y == link[n].peer
             L == Keys(history[n])
             M == Keys(history'[n])
             C == Keys(history[y])
             known == peer_ids[n]
             E == {history'[n].events[i] : i \in M \ known}
             m == Simple("EventsAck")
             w == [type |-> "Events", events |-> E]
  <1>1. /\ "l_Events" \in DOMAIN Expected /\ "l_Events" \in Serving
        /\ "l_EventsAck" \in InSession /\ "l_EventsAck" \in Serving
        /\ "c_EventsAck" \notin Serving /\ Expected["l_Events"] = "Events"
    BY DEF Expected, InSession, Serving
  <1>2. /\ Receives(n, "l_Events") /\ TakeIn(n, Msg(n).events)
        /\ Reply(n, <<m, w>>, "l_EventsAck", known)
    BY DEF HandleEvents
  <1>3. /\ pc[n] \in InSession /\ q # <<>> /\ y \in Node /\ y # n /\ Scripted("l_Events", q)
        /\ Msg(n) = q[1] /\ q[1].type = "Events" /\ Truthful(q[1], L, C)
        /\ known \subseteq Real
        /\ Linked(n) => Agree("l_Events", q, pc[y], link[y].in)
        /\ Linked(n) => Exchange(pc[y], link[y].in, C, "l_Events", q, known, L)
    BY <1>1, <1>2, ReadsTruth
  <1>4. C \subseteq Real
    BY <1>3 DEF DInv, IInv, Normal
  <1>5. /\ IInv' /\ Next /\ \A x \in Node \ {n} : history'[x] = history[x]
        /\ M = L \union IdsOf(q[1].events)
    BY <1>2, <1>3, <1>4, TakeInTruthful DEF DInv
  <1>6. Tail(q) = <<>>
    BY <1>3, ReadOne DEF Scripted
  <1>7. E \subseteq Catalog /\ IdsOf(E) = M \ known /\ \A e \in E : e.parents \subseteq M
    <2>1. Normal(history'[n])
      BY <1>5 DEF IInv, Normal
    <2>2. QED
      BY <2>1, HeldIds
  <1>8. /\ \A H, G : Truthful(m, H, G)
        /\ <<m, w>>[2] = w /\ w.events = E /\ w.type = "Events"
    BY DEF Truthful, Simple
  <1>9. ASSUME Linked(n)
        PROVE  /\ pc[y] = "c_EventsAck" /\ Truthful(w, C, M) /\ C \subseteq M
               /\ Exchange("c_EventsAck", <<m, w>>, C, "l_EventsAck", Tail(q), known, M)
    <2>1. pc[y] = "c_EventsAck"
      BY <1>3, <1>9 DEF Agree, Joint
    <2>2. known = C /\ IdsOf(q[1].events) = C \ L
      BY <1>3, <1>9, <2>1 DEF Exchange
    <2>3. C \subseteq M /\ IdsOf(E) = M \ C
      BY <1>5, <1>7, <2>2
    <2> HIDE DEF E
    <2>4. Truthful(w, C, M)
      BY <1>7, <2>3 DEF Truthful
    <2> HIDE DEF m, w
    <2>5. Exchange("c_EventsAck", <<m, w>>, C, "l_EventsAck", Tail(q), known, M)
      BY <1>8, <2>3 DEF Exchange
    <2>6. QED
      BY <2>1, <2>3, <2>4, <2>5
  <1> HIDE DEF m, w
  <1>10. ~Heard("l_EventsAck", Tail(q))
    BY <1>6 DEF Heard
  <1>11. L \subseteq M
    BY <1>5
  <1>12. \A x \in Node : Informed(x)'
    BY <1>1, <1>2, <1>3, <1>5, <1>8, <1>9, <1>10, <1>11, TwoInform DEF DInv
  <1>13. QED
    BY <1>5, <1>12

\* on EventsAck,
LEMMA HandleEventsAckInforms ==
    ASSUME DInv, NEW n \in Node, HandleEventsAck(n)
    PROVE  \A x \in Node : Informed(x)'
  <1> DEFINE q == link[n].in
             y == link[n].peer
  <1>1. "l_EventsAck" \in DOMAIN Expected /\ "l_Bye" \in InSession
    BY DEF Expected, InSession, Serving
  <1>2. Receives(n, "l_EventsAck") /\ Reply(n, <<>>, "l_Bye", peer_ids[n]) /\ UNCHANGED history
    BY DEF HandleEventsAck
  <1>3. /\ pc[n] \in InSession /\ q # <<>> /\ peer_ids[n] \subseteq Real
        /\ Linked(n) => Agree("l_EventsAck", q, pc[y], link[y].in)
        /\ Heard("l_EventsAck", q) => Keys(history[n]) \subseteq Keys(history[y])
    BY <1>1, <1>2, ReadsTruth
  <1>4. ~Linked(n) /\ Keys(history[n]) \subseteq Keys(history[y])
    BY <1>3 DEF Agree, Joint, Heard
  <1>5. QED
    BY <1>1, <1>2, <1>3, <1>4, NoneInforms DEF DInv

\* and on Bye, when all that it holds is at its peer.
LEMMA HandleByeInforms ==
    ASSUME DInv, NEW n \in Node, HandleBye(n)
    PROVE  /\ \A x \in Node : Informed(x)'
           /\ Keys(history[n]) \subseteq Keys(history[link[n].peer])
  <1>1. /\ pc[n] = "l_Bye" /\ pc[n] \in InSession /\ link[n].in # <<>>
        /\ Reply(n, <<>>, "idle", {}) /\ UNCHANGED history
    BY DEF HandleBye, InSession, Serving
  <1>2. "idle" \notin Serving /\ "idle" \notin InSession /\ ~Heard("idle", Tail(link[n].in))
    BY DEF InSession, Serving, Expected, Heard
  <1>3. Keys(history[n]) \subseteq Keys(history[link[n].peer])
    BY <1>1 DEF DInv, Informed, Heard
  <1>4. QED
    BY <1>1, <1>2, <1>3, NoneInforms DEF DInv

----------------------------------------------------------------------------
\* A call that gives up tells nobody anything.
LEMMA ReturnInforms ==
    ASSUME DInv, NEW n \in Node, Return(n, link), UNCHANGED history
    PROVE  \A x \in Node : Informed(x)'
  <1>1. /\ DOMAIN pc = Node /\ DOMAIN peer_ids = Node /\ "idle" \notin InSession
        /\ \A x \in Node : IsLink(link[x])
    BY DEF DInv, SInv, SessionOK, InSession, Expected, Serving
  <1>2. /\ pc'[n] = "idle" /\ peer_ids'[n] = {} /\ link'[n] = NoLink(n)
    BY <1>1 DEF Return, HungUp, DInv, SInv
  <1>3. ASSUME NEW x \in Node \ {n}
        PROVE  /\ pc'[x] = pc[x] /\ peer_ids'[x] = peer_ids[x]
               /\ link'[x].peer = link[x].peer /\ link'[x].in = link[x].in
               /\ ~link'[x].eof => link[x].peer # n /\ ~link[x].eof
    <2>1. link'[x] = IF link[x].peer = n THEN [link[x] EXCEPT !.eof = TRUE] ELSE link[x]
      BY DEF Return, HungUp
    <2>2. [link[x] EXCEPT !.eof = TRUE] = [peer |-> link[x].peer, in |-> link[x].in, eof |-> TRUE]
      BY <1>1, LinkExcept
    <2>3. /\ link'[x].peer = link[x].peer /\ link'[x].in = link[x].in
          /\ ~link'[x].eof => link[x].peer # n /\ ~link[x].eof
      <3>1. CASE link[x].peer = n
        BY <2>1, <2>2, <3>1
      <3>2. CASE link[x].peer # n
        BY <2>1, <3>2
      <3>3. QED
        BY <3>1, <3>2
    <2>4. QED
      BY <1>1, <2>3 DEF Return
  <1>4. ASSUME NEW x \in Node \ {n}
        PROVE  Informed(x)'
    <2> DEFINE z == link[x].peer
    <2>1. Informed(x) /\ z \in Node
      BY DEF DInv, SInv, SessionOK
    <2>2. ASSUME Linked(x)'
          PROVE  Linked(x) /\ link'[z].in = link[z].in /\ pc'[z] = pc[z]
      BY <1>3, <2>1, <2>2 DEF Linked
    <2>3. QED
      BY <1>3, <2>1, <2>2, BystanderInformed
  <1>5. Informed(n)'
    <2>1. link'[n].peer = n /\ link'[n].in = <<>> /\ ~Heard("idle", <<>>)
      BY <1>2 DEF NoLink, Heard
    <2>2. QED
      BY <1>2, <2>1 DEF Informed, Linked
  <1>6. QED
    BY <1>4, <1>5

\* A failing connection takes messages away and tells nobody anything.
LEMMA BreakInforms ==
    ASSUME DInv, NEW n \in Node, Break(n)
    PROVE  \A x \in Node : Informed(x)'
  <1> DEFINE y == link[n].peer
             Cut(k, l) == [l EXCEPT !.eof = TRUE, !.in = SubSeq(@, 1, k)]
  <1>1. PICK r \in 0 .. Len(link[n].in), s \in 0 .. Len(link[y].in) :
           link' = IF Connected(n) THEN [link EXCEPT ![n] = Cut(r, @), ![y] = Cut(s, @)]
                                   ELSE [link EXCEPT ![n] = Cut(r, @)]
    BY DEF Break
  <1>2. /\ UNCHANGED <<history, pc, peer_ids>> /\ y \in Node /\ y # n /\ DOMAIN link = Node
        /\ \A x \in Node : IsLink(link[x])
    BY DEF Break, DInv, SInv, SessionOK
  <1>3. ASSUME NEW x \in Node
        PROVE  \/ link'[x] = link[x]
               \/ \E k \in 0 .. Len(link[x].in) : link'[x] = Cut(k, link[x])
    BY <1>1, <1>2
  <1>4. ASSUME NEW x \in Node
        PROVE  /\ link'[x].peer = link[x].peer
               /\ \A i \in DOMAIN link'[x].in :
                     i \in DOMAIN link[x].in /\ link'[x].in[i] = link[x].in[i]
               /\ link'[x].in # <<>> => link[x].in # <<>>
               /\ ~link'[x].eof => link'[x] = link[x]
    <2> DEFINE q == link[x].in
    <2>1. CASE link'[x] = link[x]
      BY <2>1
    <2>2. CASE \E k \in 0 .. Len(q) : link'[x] = Cut(k, link[x])
      <3>1. PICK k \in 0 .. Len(q) : link'[x] = Cut(k, link[x])
        BY <2>2
      <3>2. [link[x] EXCEPT !.eof = TRUE] = [peer |-> link[x].peer, in |-> q, eof |-> TRUE]
        BY <1>2, LinkExcept
      <3>3. link'[x] = [peer |-> link[x].peer, in |-> SubSeq(q, 1, k), eof |-> TRUE]
        BY <3>1, <3>2
      <3>4. link'[x].peer = link[x].peer /\ link'[x].in = SubSeq(q, 1, k) /\ link'[x].eof = TRUE
        BY <3>3
      <3>5. Scripted(pc[x], q)
        <4>1. CASE pc[x] \in InSession
          BY <4>1 DEF DInv, SInv, SessionOK
        <4>2. CASE pc[x] \notin InSession
          BY <4>2 DEF DInv, SInv, SessionOK, NoLink, Scripted
        <4>3. QED
          BY <4>1, <4>2
      <3>6. QED
        BY <3>4, <3>5, CutKeeps
    <2>3. QED
      BY <1>3, <2>1, <2>2
  <1> HIDE DEF Cut
  <1>5. ASSUME NEW x \in Node
        PROVE  Informed(x)'
    <2> DEFINE z == link[x].peer
    <2>1. Informed(x) /\ z \in Node
      BY DEF DInv, SInv, SessionOK
    <2>2. ASSUME Linked(x)'
          PROVE  Linked(x) /\ link'[x].in = link[x].in /\ link'[z].in = link[z].in
      BY <1>4, <2>1, <2>2 DEF Linked
    <2>3. QED
      BY <1>2, <1>4, <2>1, <2>2, BystanderInformed
  <1>6. QED
    BY <1>5

\* Between calls: a node listens, or learns something by itself.
LEMMA AcceptInforms ==
    ASSUME DInv, NEW n \in Node, Accept(n)
    PROVE  \A x \in Node : Informed(x)'
  <1>1. "idle" \notin InSession /\ "accepting" \notin InSession /\ ~Heard("accepting", <<>>)
    BY DEF InSession, Expected, Serving, Heard
  <1>2. /\ pc[n] = "idle" /\ pc' = [pc EXCEPT ![n] = "accepting"]
        /\ UNCHANGED <<history, link, peer_ids>> /\ DOMAIN pc = Node
    BY DEF Accept, DInv, SInv
  <1>3. ASSUME NEW x \in Node
        PROVE  Informed(x)'
    <2>1. Informed(x) /\ link[x].peer \in Node /\ (Linked(x) <=> Linked(x)')
      BY <1>2 DEF DInv, SInv, SessionOK, Linked
    <2>2. Linked(x) => x # n /\ link[x].peer # n
      BY <1>1, <1>2, NobodyLinked DEF DInv
    <2>3. CASE x = n
      <3>1. link'[n].peer = n /\ link'[n].in = <<>> /\ peer_ids'[n] = {} /\ pc'[n] = "accepting"
        <4>1. link[n] = NoLink(n) /\ peer_ids[n] = {}
          BY <1>1, <1>2, NobodyLinked DEF DInv
        <4>2. link[n].peer = n /\ link[n].in = <<>>
          BY <4>1 DEF NoLink
        <4>3. QED
          BY <1>2, <4>1, <4>2
      <3>2. QED
        BY <1>1, <2>3, <3>1 DEF Informed, Linked
    <2>4. CASE x # n
      <3>1. pc'[x] = pc[x] /\ (Linked(x)' => pc'[link[x].peer] = pc[link[x].peer])
        BY <1>2, <2>1, <2>2, <2>4
      <3>2. QED
        BY <1>2, <2>1, <3>1, BystanderInformed
    <2>5. QED
      BY <2>3, <2>4
  <1>4. QED
    BY <1>3

\* What a node does to its own history between sessions makes nothing untrue that was
\* said of it: histories only grow.
LEMMA LocalInforms ==
    ASSUME InOrder, DInv, NEW n \in Node, Local(n)
    PROVE  IInv' /\ Next /\ \A x \in Node : Informed(x)'
  <1>1. pc[n] = "idle" /\ "idle" \notin InSession /\ UNCHANGED <<pc, link, peer_ids>>
    BY DEF Local, session, InSession, Expected, Serving
  <1>2. IInv' /\ Next /\ [Abstract!Next]_Known
    BY AppendKeepsIInv, BatchKeepsIInv DEF Local, DInv, Next
  <1>3. \A x \in Node \ {n} : history'[x] = history[x]
    BY DEF Local, AppendEvent, BatchAppend, DInv, IInv
  <1>4. \A x \in Node : Keys(history[x]) \subseteq Keys(history'[x])
    BY <1>2, StepGrows DEF DInv
  <1>5. ASSUME NEW x \in Node
        PROVE  Informed(x)'
    <2>1. Informed(x) /\ link[x].peer \in Node /\ (Linked(x) <=> Linked(x)')
      BY <1>1 DEF DInv, SInv, SessionOK, Linked
    <2>2. Linked(x) => x # n /\ link[x].peer # n
      BY <1>1, NobodyLinked DEF DInv
    <2>3. CASE x = n
      <3>1. link'[n] = NoLink(n) /\ peer_ids'[n] = {} /\ pc'[n] = "idle"
        BY <1>1, NobodyLinked DEF DInv
      <3>2. link'[n].peer = n /\ link'[n].in = <<>> /\ ~Heard("idle", <<>>)
        BY <3>1 DEF NoLink, Heard
      <3>3. QED
        BY <2>3, <3>1, <3>2 DEF Informed, Linked
    <2>4. CASE x # n
      BY <1>1, <1>3, <1>4, <2>1, <2>2, <2>4, BystanderInformed
    <2>5. QED
      BY <2>3, <2>4
  <1>6. QED
    BY <1>2, <1>5

\* Who connects has been told nothing yet.
LEMMA ConnectInforms ==
    ASSUME DInv, NEW n \in Node, NEW m \in Node \ {n},
           NEW next \in {"c_HelloAck", "p_HelloAck"}, Connect(n, m, next)
    PROVE  \A x \in Node : Informed(x)'
  <1> DEFINE hello == [peer |-> n, in |-> <<Simple("Hello")>>, eof |-> FALSE]
  <1>1. /\ "idle" \notin InSession /\ "accepting" \notin InSession
        /\ next \in InSession /\ next \notin Serving
        /\ ~Heard(next, <<>>)
    BY DEF InSession, Expected, Serving, Heard
  <1>2. /\ pc[n] = "idle" /\ UNCHANGED <<history, peer_ids>>
        /\ DOMAIN pc = Node /\ DOMAIN link = Node
        /\ peer_ids[n] = {}
        /\ \A x \in Node : Linked(x) => x # n /\ link[x].peer # n
    BY <1>1, NobodyLinked DEF Connect, DInv, SInv
  <1>3. SInv'
    BY ConnectSInv DEF DInv
  <1>4. CASE /\ pc[m] = "accepting"
             /\ pc' = [pc EXCEPT ![n] = next, ![m] = "l_Hello"]
             /\ link' = [link EXCEPT ![n] = NoLink(m), ![m] = hello]
    <2>1. /\ pc'[n] = next /\ pc'[m] = "l_Hello"
          /\ link'[n] = NoLink(m) /\ link'[m] = hello
          /\ \A x \in Node \ {n, m} : pc'[x] = pc[x] /\ link'[x] = link[x]
      BY <1>2, <1>4
    <2>2. /\ link'[n].peer = m /\ link'[n].in = <<>>
          /\ link'[m].peer = n /\ link'[m].in = <<Simple("Hello")>>
      BY <2>1 DEF NoLink
    <2>3. /\ \A x \in Node : Linked(x) => x # m /\ link[x].peer # m
          /\ peer_ids[m] = {}
      BY <1>1, <1>4, NobodyLinked DEF DInv
    <2>4. Informed(n)'
      BY <1>1, <1>2, <2>1, <2>2 DEF Informed
    <2>5. Informed(m)'
      <3>1. /\ DOMAIN <<Simple("Hello")>> = {1}
            /\ <<Simple("Hello")>>[1] = Simple("Hello")
            /\ \A H, G : Truthful(Simple("Hello"), H, G)
            /\ \A q : ~Heard("l_Hello", q)
            /\ \A q, C, r, known, L : Exchange(next, q, C, "l_Hello", r, known, L)
        BY DEF Truthful, Simple, Heard, Exchange
      <3>2. QED
        BY <1>2, <2>1, <2>2, <2>3, <3>1 DEF Informed
    <2>6. ASSUME NEW x \in Node \ {n, m}
          PROVE  Informed(x)'
      <3> DEFINE z == link[x].peer
      <3>1. Informed(x) /\ z \in Node
        BY DEF DInv, SInv, SessionOK
      <3>2. ASSUME Linked(x)'
            PROVE  Linked(x) /\ link'[z].in = link[z].in /\ pc'[z] = pc[z]
        <4>1. z # n /\ z # m
          BY <2>1, <2>2, <3>2 DEF Linked
        <4>2. QED
          BY <2>1, <3>1, <3>2, <4>1 DEF Linked
      <3>3. QED
        BY <1>2, <2>1, <3>1, <3>2, BystanderInformed
    <2>7. QED
      BY <2>4, <2>5, <2>6
  <1>5. CASE /\ pc[m] \in Serving
             /\ pc' = [pc EXCEPT ![n] = next]
             /\ link' = [link EXCEPT ![n] = NoLink(m)]
    <2>1. /\ pc'[n] = next /\ link'[n] = NoLink(m)
          /\ \A x \in Node \ {n} : pc'[x] = pc[x] /\ link'[x] = link[x]
      BY <1>2, <1>5
    <2>2. link'[n].peer = m /\ link'[n].in = <<>>
      BY <2>1 DEF NoLink
    <2>3. Informed(n)'
      BY <1>1, <1>2, <2>1, <2>2 DEF Informed
    <2>4. ASSUME NEW x \in Node \ {n}
          PROVE  Informed(x)'
      <3> DEFINE z == link[x].peer
      <3>1. Informed(x) /\ z \in Node
        BY DEF DInv, SInv, SessionOK
      <3>2. ASSUME Linked(x)'
            PROVE  Linked(x) /\ link'[z].in = link[z].in /\ pc'[z] = pc[z]
        <4>1. CASE z = n
          <5>1. x = m
            BY <2>2, <3>2, <2>1, <4>1 DEF Linked
          <5>2. Agree(pc'[m], link'[m].in, pc'[n], link'[n].in)
            BY <1>3, <2>1, <3>2, <4>1, <5>1 DEF SInv, SessionOK
          <5>3. One(link[m].in, "Hello") /\ pc[m] = "l_Hello"
            BY <2>1, <2>2, <5>1, <5>2, ReadOne, <1>5 DEF Agree, Joint, Serving
          <5>4. link[m].in # <<>> /\ ~link[m].eof /\ link[m].peer = n
            BY <2>1, <3>2, <4>1, <5>1, <5>3, ReadOne DEF Linked
          <5>5. Linked(m)
            BY <1>1, <5>3, <5>4, <1>5 DEF DInv, SInv, SessionOK, Waiting, InSession
          <5>6. QED
            BY <1>2, <5>4, <5>5
        <4>2. CASE z # n
          BY <2>1, <3>1, <3>2, <4>2 DEF Linked
        <4>3. QED
          BY <4>1, <4>2
      <3>3. QED
        BY <1>2, <2>1, <3>1, <3>2, BystanderInformed
    <2>5. QED
      BY <2>3, <2>4
  <1>6. QED
    BY <1>4, <1>5 DEF Connect

----------------------------------------------------------------------------
\* Nothing is on the way at first.
LEMMA InitDInv == NetInit => DInv /\ Init
  <1> SUFFICES ASSUME NetInit PROVE DInv
    BY DEF NetInit
  <1>1. IInv /\ SInv
    BY InitIInv, InitSInv DEF NetInit
  <1>2. ASSUME NEW x \in Node
        PROVE  Informed(x)
    <2>1. pc[x] \notin InSession /\ link[x] = NoLink(x) /\ peer_ids[x] = {}
      BY DEF NetInit, InSession, Expected, Serving
    <2>2. QED
      BY <2>1, IdleInformed
  <1>3. QED
    BY <1>1, <1>2 DEF DInv

\* Every step keeps all nodes informed, and does to histories what nodes do that
\* append batches of events together with their causes.
LEMMA NextDInv ==
    ASSUME InOrder, NoopsAtTip
    PROVE  DInv /\ [NetNext]_vars => DInv' /\ [Next]_history
  <1> SUFFICES ASSUME DInv, [NetNext]_vars
               PROVE  DInv' /\ [Next]_history
    OBVIOUS
  <1>1. SInv'
    BY NextSInv DEF DInv
  <1>2. UNCHANGED history => IInv'
    BY DEF DInv, IInv, Normal
  <1>3. (UNCHANGED history \/ (IInv' /\ Next)) /\ \A x \in Node : Informed(x)'
    <2>1. CASE UNCHANGED vars
      BY <2>1 DEF vars, session, DInv, Informed, Linked
    <2>2. ASSUME NEW n \in Node, Local(n)
          PROVE  IInv' /\ Next /\ \A x \in Node : Informed(x)'
      BY <2>2, LocalInforms
    <2>3. ASSUME NEW n \in Node, Accept(n)
          PROVE  UNCHANGED history /\ \A x \in Node : Informed(x)'
      BY <2>3, AcceptInforms DEF Accept
    <2>4. ASSUME NEW n \in Node, NEW m \in Peers[n] \ {n}, StartSync(n, m) \/ StartPush(n, m)
          PROVE  UNCHANGED history /\ \A x \in Node : Informed(x)'
      <3>1. m \in Node \ {n}
        BY PeersAssumption
      <3>2. PICK next \in {"c_HelloAck", "p_HelloAck"} : Connect(n, m, next)
        BY <2>4 DEF StartSync, StartPush
      <3>3. QED
        BY <3>1, <3>2, ConnectInforms DEF Connect
    <2>5. ASSUME NEW n \in Node, ReceiveEvents(n) \/ HandleEvents(n)
          PROVE  IInv' /\ Next /\ \A x \in Node : Informed(x)'
      BY <2>5, ReceiveEventsInforms, HandleEventsInforms
    <2>6. ASSUME NEW n \in Node,
                 \/ ReceiveHelloAck(n) \/ ReceiveWant(n) \/ ReceiveEventsAck(n)
                 \/ PushReceiveHelloAck(n)
          PROVE  UNCHANGED history /\ \A x \in Node : Informed(x)'
      BY <2>6, ReceiveHelloAckInforms, ReceiveWantInforms, ReceiveEventsAckInforms,
         PushReceiveHelloAckInforms
         DEF ReceiveHelloAck, ReceiveWant, ReceiveEventsAck, PushReceiveHelloAck
    <2>7. ASSUME NEW n \in Node,
                 HandleHello(n) \/ HandleHave(n) \/ HandleEventsAck(n) \/ HandleBye(n)
          PROVE  UNCHANGED history /\ \A x \in Node : Informed(x)'
      BY <2>7, HandleHelloInforms, HandleHaveInforms, HandleEventsAckInforms, HandleByeInforms
         DEF HandleHello, HandleHave, HandleEventsAck, HandleBye
    <2>8. ASSUME NEW n \in Node, Refuse(n) \/ EndOfStream(n)
          PROVE  UNCHANGED history /\ \A x \in Node : Informed(x)'
      BY <2>8, ReturnInforms DEF Refuse, EndOfStream
    <2>9. ASSUME NEW n \in Node, Break(n)
          PROVE  UNCHANGED history /\ \A x \in Node : Informed(x)'
      BY <2>9, BreakInforms DEF Break
    <2>10. QED
      BY <2>1, <2>2, <2>3, <2>4, <2>5, <2>6, <2>7, <2>8, <2>9 DEF NetNext, Proceed
  <1>4. QED
    BY <1>1, <1>2, <1>3 DEF DInv

\* Whatever breaks and whenever, sessions do to histories what nodes do that append
\* batches of events together with their causes.
THEOREM SessionsRefine ==
    ASSUME InOrder, NoopsAtTip
    PROVE  NetSpec => RefinesNodes
  <1>1. NetInit => DInv /\ Init
    BY InitDInv
  <1>2. DInv /\ [NetNext]_vars => DInv' /\ [Next]_history
    BY NextDInv
  <1>3. QED
    BY <1>1, <1>2, PTL DEF NetSpec, RefinesNodes, Spec

\* A node that has taken in what the other end had for it, or has read the last
\* message and returns Ok, knows that the other end has all it has itself.
THEOREM SessionsDeliver ==
    ASSUME InOrder, NoopsAtTip
    PROVE  NetSpec => OkMeansDelivered
  <1> DEFINE Delivered == \A n \in Node : ReceiveEvents(n) \/ HandleBye(n)
                 => Keys(history'[n]) \subseteq Keys(history'[link[n].peer])
  <1>1. NetInit => DInv
    BY InitDInv
  <1>2. DInv /\ [NetNext]_vars => DInv'
    BY NextDInv
  <1>3. DInv => Delivered
    <2>1. ASSUME DInv, NEW n \in Node, ReceiveEvents(n)
          PROVE  Keys(history'[n]) \subseteq Keys(history'[link[n].peer])
      BY <2>1, ReceiveEventsInforms
    <2>2. ASSUME DInv, NEW n \in Node, HandleBye(n)
          PROVE  Keys(history'[n]) \subseteq Keys(history'[link[n].peer])
      BY <2>2, HandleByeInforms DEF HandleBye
    <2>3. QED
      BY <2>1, <2>2
  <1>4. QED
    BY <1>1, <1>2, <1>3, PTL DEF NetSpec, OkMeansDelivered

\* When the connecting end is done, the two ends of a working connection have one
\* history.
THEOREM SessionsUnify ==
    ASSUME InOrder, NoopsAtTip
    PROVE  NetSpec => SyncUnifies
  <1> DEFINE Unified == \A n \in Node : ReceiveEvents(n) /\ Connected(n)
                           => Same(history'[n], history'[link[n].peer])
  <1>1. NetInit => DInv
    BY InitDInv
  <1>2. DInv /\ [NetNext]_vars => DInv'
    BY NextDInv
  <1>3. DInv => Unified
    <2> SUFFICES ASSUME DInv, NEW n \in Node, ReceiveEvents(n), Connected(n)
                 PROVE  Same(history'[n], history'[link[n].peer])
      OBVIOUS
    <2>1. pc[n] \in InSession /\ link[n].in # <<>> /\ link[n].peer \in Node
      BY DEF ReceiveEvents, Receives, InSession, Expected, DInv, SInv, SessionOK
    <2>2. Linked(n)
      BY <2>1, ReaderIsLinked DEF DInv
    <2>3. IInv' /\ Keys(history'[n]) = Keys(history'[link[n].peer])
      BY <2>2, ReceiveEventsInforms
    <2>4. Normal(history'[n]) /\ Normal(history'[link[n].peer])
      BY <2>1, <2>3 DEF IInv, Normal
    <2>5. QED
      BY <2>3, <2>4 DEF Normal, Same
  <1>4. QED
    BY <1>1, <1>2, <1>3, PTL DEF NetSpec, SyncUnifies

\* pc and peer_ids are functions on the nodes, whatever their values.
IsOnNodes(f) == f = [x \in Node |-> f[x]]

\* A change at one node keeps a function a function on nodes.
LEMMA ExceptOnNodes ==
    ASSUME NEW f, IsOnNodes(f), NEW n, NEW v
    PROVE  IsOnNodes([f EXCEPT ![n] = v])
  BY DEF IsOnNodes

\* Every node is somewhere and remembers something.
OnNodes == IsOnNodes(pc) /\ IsOnNodes(peer_ids)

\* Every step changes these functions at nodes only.
LEMMA NextOnNodes == OnNodes /\ [NetNext]_vars => OnNodes'
  <1> SUFFICES ASSUME OnNodes, [NetNext]_vars
               PROVE  OnNodes'
    OBVIOUS
  <1>1. ASSUME NEW n, NEW l, Return(n, l)
        PROVE  OnNodes'
    BY <1>1, ExceptOnNodes DEF Return, OnNodes
  <1>2. ASSUME NEW n, NEW msgs, NEW next, NEW ids, Reply(n, msgs, next, ids)
        PROVE  OnNodes'
    <2>1. CASE pc' = [pc EXCEPT ![n] = next] /\ peer_ids' = [peer_ids EXCEPT ![n] = ids]
      BY <2>1, ExceptOnNodes DEF OnNodes
    <2>2. CASE \E l : Return(n, l)
      BY <1>1, <2>2
    <2>3. QED
      BY <1>2, <2>1, <2>2 DEF Reply
  <1>3. ASSUME NEW n, NEW m, NEW next, Connect(n, m, next)
        PROVE  OnNodes'
    <2>1. IsOnNodes([pc EXCEPT ![n] = next])
      BY ExceptOnNodes DEF OnNodes
    <2>2. IsOnNodes([[pc EXCEPT ![n] = next] EXCEPT ![m] = "l_Hello"])
      BY <2>1, ExceptOnNodes
    <2>3. QED
      BY <1>3, <2>1, <2>2 DEF Connect, OnNodes
  <1>4. ASSUME NEW n \in Node, Accept(n)
        PROVE  OnNodes'
    BY <1>4, ExceptOnNodes DEF Accept, OnNodes
  <1>5. ASSUME UNCHANGED <<pc, peer_ids>>
        PROVE  OnNodes'
    BY <1>5 DEF OnNodes
  <1>6. ASSUME NEW n \in Node, Proceed(n)
        PROVE  OnNodes'
    <2>1. CASE \E msgs, next, ids : Reply(n, msgs, next, ids)
      BY <1>2, <2>1
    <2>2. CASE \E l : Return(n, l)
      BY <1>1, <2>2
    <2>3. QED
      BY <1>6, <2>1, <2>2
         DEF Proceed, ReceiveHelloAck, ReceiveWant, ReceiveEventsAck, ReceiveEvents,
             PushReceiveHelloAck, HandleHello, HandleHave, HandleEvents, HandleEventsAck,
             HandleBye, Refuse, EndOfStream
  <1>7. QED
    BY <1>3, <1>4, <1>5, <1>6
       DEF NetNext, StartSync, StartPush, Local, Break, vars, session

\* What is on the way are messages of the catalog.
LEMMA QueueTyped ==
    ASSUME NEW p, NEW q, Scripted(p, q), NEW H, NEW K,
           \A i \in DOMAIN q : Truthful(q[i], H, K)
    PROVE  q \in Seq(Message)
  <1>1. ASSUME NEW msg, Truthful(msg, H, K)
        PROVE  msg \in Message
    BY <1>1 DEF Truthful, Message, Simple
  <1>2. \A i \in DOMAIN q : q[i] \in Message
    BY <1>1
  <1>3. \A a, b \in Message : <<>> \in Seq(Message) /\ <<a>> \in Seq(Message) /\ <<a, b>> \in Seq(Message)
    OBVIOUS
  <1>4. ASSUME NEW t, One(q, t)
        PROVE  q \in Seq(Message)
    <2>1. q = <<q[1]>> /\ 1 \in DOMAIN q
      BY <1>4, ReadOne DEF One
    <2>2. QED
      BY <1>2, <1>3, <2>1
  <1>5. ASSUME NEW t, NEW u, Two(q, t, u)
        PROVE  q \in Seq(Message)
    <2>1. q = <<q[1], q[2]>> /\ 1 \in DOMAIN q /\ 2 \in DOMAIN q
      BY <1>5, ReadTwo DEF Two
    <2>2. QED
      BY <1>2, <1>3, <2>1
  <1>6. <<>> \in Seq(Message)
    OBVIOUS
  <1>7. QED
    BY <1>4, <1>5, <1>6 DEF Scripted

\* Nodes between calls hold no connection; a listener knows a set of ids; what is on
\* the way are events of the catalog or ids of such events.
THEOREM SessionsTyped ==
    ASSUME InOrder, NoopsAtTip
    PROVE  NetSpec => []NetTypeOK
  <1>1. NetInit => DInv /\ OnNodes
    BY InitDInv DEF NetInit, OnNodes, IsOnNodes
  <1>2. DInv /\ OnNodes /\ [NetNext]_vars => DInv' /\ OnNodes'
    BY NextDInv, NextOnNodes
  <1>3. DInv /\ OnNodes => NetTypeOK
    <2> SUFFICES ASSUME DInv, OnNodes
                 PROVE  NetTypeOK
      OBVIOUS
    <2>1. TypeOK /\ DOMAIN link = Node
      BY IInvImplies DEF DInv, SInv
    <2>2. pc \in [Node -> {"idle", "accepting"} \union InSession]
      BY DEF OnNodes, IsOnNodes, DInv, SInv, SessionOK
    <2>3. peer_ids \in [Node -> SUBSET Real]
      BY DEF OnNodes, IsOnNodes, DInv, Informed
    <2>4. ASSUME NEW n \in Node
          PROVE  /\ link[n] = [peer |-> link[n].peer, in |-> link[n].in, eof |-> link[n].eof]
                 /\ link[n].peer \in Node
                 /\ link[n].peer # n <=> pc[n] \in InSession
                 /\ link[n].in \in Seq(Message)
                 /\ link[n].eof \in BOOLEAN
      <3>1. SessionOK(n) /\ Informed(n)
        BY DEF DInv, SInv
      <3>2. pc[n] \notin InSession => link[n].peer = n /\ link[n].in = <<>>
        <4>1. pc[n] \notin InSession => link[n] = NoLink(n)
          BY <3>1 DEF SessionOK
        <4>2. QED
          BY <4>1 DEF NoLink
      <3>3. Scripted(pc[n], link[n].in)
        BY <3>1, <3>2 DEF SessionOK, Scripted
      <3>4. link[n].in \in Seq(Message)
        BY <3>1, <3>3, QueueTyped DEF Informed
      <3>5. QED
        BY <3>1, <3>2, <3>4 DEF SessionOK, IsLink
    <2>5. QED
      BY <2>1, <2>2, <2>3, <2>4 DEF NetTypeOK
  <1>4. QED
    BY <1>1, <1>2, <1>3, PTL DEF NetSpec
=============================================================================
