------------------------------ MODULE Network ------------------------------
(***************************************************************************)
(* The wire protocol of src/src/network.rs: nodes that listen for one      *)
(* connection (accept_one), connect and sync (sync_with_peer) or connect   *)
(* and push (push_event_to_peer).  Both ends of a connection are machines  *)
(* that wait for one message at a time; pc names the message a node waits  *)
(* for and its role: c_ in sync_with_peer, p_ in push_event_to_peer, l_ in *)
(* handle_incoming.  A node is in one call at a time, as all calls borrow  *)
(* it mutably, and its history changes only by that call.                  *)
(*                                                                         *)
(* Left out, for neither end can make them happen: the Error message and   *)
(* the second Want, which nobody sends.  The counts that EventsAck carries *)
(* are printed only.  A line that arrives in part fails to parse, which is *)
(* an error like the end of the stream.  A refused connect changes nothing.*)
(***************************************************************************)
EXTENDS DistributedNodes, Integers, Sequences, FiniteSets

CONSTANT Peers      \* Peers[n]: the nodes whose address n is given to connect to

ASSUME PeersAssumption == Peers \in [Node -> SUBSET Node]

VARIABLES
    pc,        \* what each node waits for; "idle" between calls, whether the last
               \* one returned Ok or an error
    link,      \* the connection of each node: the other end (itself: none), the
               \* messages that it has not read, whether the stream ends after them
    peer_ids   \* what a listener has been told the other end has

session == <<pc, link, peer_ids>>

vars == <<history, session>>

\* What a node in a call waits for; at l_Bye any last message will do.
Expected == [c_HelloAck |-> "HelloAck", c_Want |-> "Want",
             c_EventsAck |-> "EventsAck", c_Events |-> "Events",
             p_HelloAck |-> "HelloAck", p_PushAck |-> "PushAck",
             l_Hello |-> "Hello", l_Have |-> "Have",
             l_Events |-> "Events", l_EventsAck |-> "EventsAck"]

Serving == {"l_Hello", "l_Have", "l_Events", "l_EventsAck", "l_Bye"}

InSession == DOMAIN Expected \union Serving

NoLink(n) == [peer |-> n, in |-> <<>>, eof |-> FALSE]

NetInit ==
    /\ Init
    /\ pc = [n \in Node |-> "idle"]
    /\ link = [n \in Node |-> NoLink(n)]
    /\ peer_ids = [n \in Node |-> {}]

\* Node n and the node at its other end are in this connection, and it works.
Connected(n) ==
    LET m == link[n].peer IN m # n /\ link[m].peer = n /\ ~link[n].eof

\* A variant in which n keeps its own end open.
HungUpHalf(l, n) ==
    [k \in Node |-> IF l[k].peer = n THEN [l[k] EXCEPT !.eof = TRUE] ELSE l[k]]

\* A variant that closes the connection and leaves the backlog alone.
HungUpOnPeer(l, n) ==
    [k \in Node |-> IF k = n THEN NoLink(n)
                    ELSE IF l[k].peer = n /\ l[n].peer = k THEN [l[k] EXCEPT !.eof = TRUE]
                    ELSE l[k]]

\* n drops its sockets, the listening one included: whoever reads from it, or waits
\* to be accepted by it, comes to the end of the stream.
HungUp(l, n) ==
    [k \in Node |-> IF k = n THEN NoLink(n)
                    ELSE IF l[k].peer = n THEN [l[k] EXCEPT !.eof = TRUE] ELSE l[k]]

Return(n, l) ==
    /\ pc' = [pc EXCEPT ![n] = "idle"]
    /\ link' = HungUp(l, n)
    /\ peer_ids' = [peer_ids EXCEPT ![n] = {}]

----------------------------------------------------------------------------
\* n has read its first message, writes msgs and goes on to next, or an error stops
\* it at one of the writes.  What is written to a connection that is gone is lost,
\* whether the write reports it or not.
Reply(n, msgs, next, ids) ==
    LET m       == link[n].peer
        read    == [link EXCEPT ![n].in = Tail(@)]
        Sent(k) == IF Connected(n)
                   THEN [read EXCEPT ![m].in = @ \o SubSeq(msgs, 1, k)] ELSE read
    IN  \/ /\ next = "idle"
           /\ Return(n, Sent(Len(msgs)))
        \/ /\ next # "idle"
           /\ pc' = [pc EXCEPT ![n] = next]
           /\ link' = Sent(Len(msgs))
           /\ peer_ids' = [peer_ids EXCEPT ![n] = ids]
        \/ \E k \in 1 .. Len(msgs) : Return(n, Sent(k - 1))

Msg(n) == Head(link[n].in)

Receives(n, at) ==
    /\ pc[n] = at
    /\ link[n].in # <<>>
    /\ Msg(n).type = Expected[at]

Simple(type) == [type |-> type]

\* What travels is payload and parents; the receiver makes the events anew.
Rehashed(events) == {NewEvent(e.payload, e.parents) : e \in events}

TakeIn(n, events) ==
    history' = [history EXCEPT ![n] = Reduce(InsertAll(@, Rehashed(events)))]

----------------------------------------------------------------------------
\* accept_one, up to accept
Accept(n) ==
    /\ pc[n] = "idle"
    /\ pc' = [pc EXCEPT ![n] = "accepting"]
    /\ UNCHANGED <<history, link, peer_ids>>

\* Connecting succeeds while the listener of m is bound; m takes up one connection
\* and leaves the others in its backlog.
Connect(n, m, next) ==
    /\ pc[n] = "idle"
    /\ \/ /\ pc[m] = "accepting"
          /\ pc' = [pc EXCEPT ![n] = next, ![m] = "l_Hello"]
          /\ link' = [link EXCEPT ![n] = NoLink(m),
                                  ![m] = [peer |-> n, in |-> <<Simple("Hello")>>, eof |-> FALSE]]
       \/ /\ pc[m] \in Serving
          /\ pc' = [pc EXCEPT ![n] = next]
          /\ link' = [link EXCEPT ![n] = NoLink(m)]
    /\ UNCHANGED <<history, peer_ids>>

StartSync(n, m) == Connect(n, m, "c_HelloAck")

StartPush(n, m) == Connect(n, m, "p_HelloAck")

\* sync_with_peer
ReceiveHelloAck(n) ==
    /\ Receives(n, "c_HelloAck")
    /\ Reply(n, <<[type |-> "Have", ids |-> Keys(history[n])]>>, "c_Want", {})
    /\ UNCHANGED history

\* A variant that sends only tips.
ReceiveWantTips(n) ==
    LET wanted == Msg(n).ids \intersect Frontier(history[n])
    IN  /\ Receives(n, "c_Want")
        /\ Reply(n, <<[type   |-> "Events",
                       events |-> {history[n].events[i] : i \in wanted}]>>, "c_EventsAck", {})
        /\ UNCHANGED history

ReceiveWant(n) ==
    LET wanted == Msg(n).ids \intersect Keys(history[n])
    IN  /\ Receives(n, "c_Want")
        /\ Reply(n, <<[type   |-> "Events",
                       events |-> {history[n].events[i] : i \in wanted}]>>, "c_EventsAck", {})
        /\ UNCHANGED history

ReceiveEventsAck(n) ==
    /\ Receives(n, "c_EventsAck")
    /\ Reply(n, <<>>, "c_Events", {})
    /\ UNCHANGED history

ReceiveEvents(n) ==
    /\ Receives(n, "c_Events")
    /\ TakeIn(n, Msg(n).events)
    /\ Reply(n, <<Simple("EventsAck"), Simple("Bye")>>, "idle", {})

\* push_event_to_peer
PushReceiveHelloAck(n) ==
    /\ Receives(n, "p_HelloAck")
    /\ \E i \in Keys(history[n]) :
          Reply(n, <<[type |-> "Push", events |-> {history[n].events[i]}]>>, "p_PushAck", {})
    /\ UNCHANGED history

\* handle_incoming
HandleHello(n) ==
    /\ Receives(n, "l_Hello")
    /\ Reply(n, <<Simple("HelloAck")>>, "l_Have", {})
    /\ UNCHANGED history

\* A variant that wants nothing from a peer with no more events than it has itself.
HandleHaveCounting(n) ==
    LET ids  == Msg(n).ids
        more == Cardinality(ids) > Cardinality(Keys(history[n]))
    IN  /\ Receives(n, "l_Have")
        /\ Reply(n, <<[type |-> "Want", ids |-> IF more THEN ids \ Keys(history[n]) ELSE {}]>>,
                 "l_Events", ids)
        /\ UNCHANGED history

HandleHave(n) ==
    LET ids == Msg(n).ids
    IN  /\ Receives(n, "l_Have")
        /\ Reply(n, <<[type |-> "Want", ids |-> ids \ Keys(history[n])]>>, "l_Events", ids)
        /\ UNCHANGED history

\* A variant that sends its events ahead of the acknowledgement.
HandleEventsAhead(n) ==
    /\ Receives(n, "l_Events")
    /\ TakeIn(n, Msg(n).events)
    /\ LET missing == Keys(history'[n]) \ peer_ids[n]
       IN  Reply(n, <<[type   |-> "Events",
                       events |-> {history'[n].events[i] : i \in missing}],
                      Simple("EventsAck")>>,
                 "l_EventsAck", peer_ids[n])

\* A variant with the filter inverted.
HandleEventsInverted(n) ==
    /\ Receives(n, "l_Events")
    /\ TakeIn(n, Msg(n).events)
    /\ LET missing == Keys(history'[n]) \intersect peer_ids[n]
       IN  Reply(n, <<Simple("EventsAck"),
                      [type   |-> "Events",
                       events |-> {history'[n].events[i] : i \in missing}]>>,
                 "l_EventsAck", peer_ids[n])

HandleEvents(n) ==
    /\ Receives(n, "l_Events")
    /\ TakeIn(n, Msg(n).events)
    /\ LET missing == Keys(history'[n]) \ peer_ids[n]
       IN  Reply(n, <<Simple("EventsAck"),
                      [type   |-> "Events",
                       events |-> {history'[n].events[i] : i \in missing}]>>,
                 "l_EventsAck", peer_ids[n])

HandleEventsAck(n) ==
    /\ Receives(n, "l_EventsAck")
    /\ Reply(n, <<>>, "l_Bye", peer_ids[n])
    /\ UNCHANGED history

\* Any last message will do, but there must be one.
HandleBye(n) ==
    /\ pc[n] = "l_Bye"
    /\ link[n].in # <<>>
    /\ Reply(n, <<>>, "idle", {})
    /\ UNCHANGED history

----------------------------------------------------------------------------
\* A message that the call does not expect, and the end of the stream.
Refuse(n) ==
    /\ pc[n] \in DOMAIN Expected
    /\ link[n].in # <<>>
    /\ Msg(n).type # Expected[pc[n]]
    /\ Return(n, link)
    /\ UNCHANGED history

EndOfStream(n) ==
    /\ pc[n] \in InSession
    /\ link[n].in = <<>>
    /\ link[n].eof
    /\ Return(n, link)
    /\ UNCHANGED history

\* The connection of n fails, and what is on the way is lost from some message on.
Break(n) ==
    LET m == link[n].peer
        Cut(k, l) == [l EXCEPT !.eof = TRUE, !.in = SubSeq(@, 1, k)]
    IN  /\ m # n
        /\ \E i \in 0 .. Len(link[n].in), j \in 0 .. Len(link[m].in) :
              link' = IF Connected(n) THEN [link EXCEPT ![n] = Cut(i, @), ![m] = Cut(j, @)]
                                      ELSE [link EXCEPT ![n] = Cut(i, @)]
        /\ UNCHANGED <<history, pc, peer_ids>>

\* What a node does by itself between calls.
Local(n) ==
    /\ pc[n] = "idle"
    /\ \/ \E e \in Catalog : AppendEvent(n, e)
       \/ \E B \in SUBSET Catalog : BatchAppend(n, B)
    /\ UNCHANGED session

\* The next step of the call that n is in.
Proceed(n) ==
    \/ ReceiveHelloAck(n)
    \/ ReceiveWant(n)
    \/ ReceiveEventsAck(n)
    \/ ReceiveEvents(n)
    \/ PushReceiveHelloAck(n)
    \/ HandleHello(n)
    \/ HandleHave(n)
    \/ HandleEvents(n)
    \/ HandleEventsAck(n)
    \/ HandleBye(n)
    \/ Refuse(n)
    \/ EndOfStream(n)

NetNext ==
    \E n \in Node :
        \/ Local(n)
        \/ Accept(n)
        \/ \E m \in Peers[n] \ {n} : StartSync(n, m) \/ StartPush(n, m)
        \/ Proceed(n)
        \/ Break(n)

NetSpec == NetInit /\ [][NetNext]_vars

\* A call in progress is a running thread; TCP tells both ends when a connection is
\* gone.  Nothing makes anybody listen, connect or append.
NetFairSpec == NetSpec /\ \A n \in Node : WF_vars(Proceed(n))

----------------------------------------------------------------------------
Message ==
    [type : {"Hello", "HelloAck", "EventsAck", "Bye"}]
        \union [type : {"Have", "Want"}, ids : SUBSET Real]
        \union [type : {"Events", "Push"}, events : SUBSET Catalog]

\* Nodes between calls hold no connection; a listener knows a set of ids; what is
\* on the way are events of the catalog or ids of such events.
NetTypeOK ==
    /\ TypeOK
    /\ pc \in [Node -> {"idle", "accepting"} \union InSession]
    /\ DOMAIN link = Node
    /\ \A n \in Node :
          /\ link[n] = [peer |-> link[n].peer, in |-> link[n].in, eof |-> link[n].eof]
          /\ link[n].peer \in Node
          /\ link[n].peer # n <=> pc[n] \in InSession
          /\ link[n].in \in Seq(Message)
          /\ link[n].eof \in BOOLEAN
    /\ peer_ids \in [Node -> SUBSET Real]

\* A node that has taken in what the other end had for it, or has read the last
\* message and returns Ok, knows that the other end has all it has itself, even if
\* the connection broke meanwhile and one end or both report an error.
OkMeansDelivered ==
    [][\A n \in Node : ReceiveEvents(n) \/ HandleBye(n)
          => Keys(history'[n]) \subseteq Keys(history'[link[n].peer])]_vars

\* "sync(A, B) = { H_A := nf(H_A u H_B), H_B := nf(H_A u H_B) }": when the
\* connecting end is done, the two ends of a working connection have one history.
SyncUnifies ==
    [][\A n \in Node : ReceiveEvents(n) /\ Connected(n)
          => Same(history'[n], history'[link[n].peer])]_vars

\* Neither end of a sync is ever sent something it does not wait for; only a push is
\* turned down.
OnlyPushIsRefused ==
    [][\A n \in Node : Refuse(n) => Msg(n).type = "Push"]_vars

\* Whatever breaks and whenever, what sessions do to histories is what nodes do that
\* append batches of events together with their causes: sessions keep all that holds
\* of DistributedNodes.
RefinesNodes == Spec

\* n is in a call and has something to read, or is at the end of its stream.
CanRead(n) == pc[n] \in InSession /\ (link[n].in # <<>> \/ link[n].eof)

\* Nobody waits in a circle: whoever is in a call can read, or the node he is
\* connected to can, or, when he is in a backlog, the one that keeps its listener.
SomebodyCanRead ==
    \A n \in Node : pc[n] \in InSession =>
        \E m \in {n, link[n].peer, link[link[n].peer].peer} : CanRead(m)

\* No call waits for ever, except for somebody to connect: the ends of a session, and
\* those in the backlog of a listener, never wait for each other.
EveryCallReturns == \A n \in Node : pc[n] \in InSession ~> pc[n] = "idle"
=============================================================================
