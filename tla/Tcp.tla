-------------------------------- MODULE Tcp --------------------------------
(***************************************************************************)
(* kernel/drivers/net/transport_protocols/tcp.c on two hosts that talk to  *)
(* each other: the client calls tcp_connect, the server tcp_listen and     *)
(* tcp_accept, and both may send, receive and close.  A blocking call      *)
(* (tcp_connect, tcp_send) is the step that starts it and the steps that   *)
(* end it; while it waits, segments arrive and timers fire, because it     *)
(* polls and yields.                                                       *)
(*                                                                         *)
(* The network loses at most Losses segments, delivers at most Dups of     *)
(* them twice and keeps no order.  A segment that fails the length or      *)
(* checksum tests of tcp_handle_packet, or that ipv4_send could not send,  *)
(* counts as lost.  Ticks are not counted: a timer that is running may     *)
(* fire at any moment.                                                     *)
(***************************************************************************)
EXTENDS Integers, FiniteSets, FiniteSetsExt, Sequences, SequencesExt

CONSTANTS
    MaxConns,       \* TCP_MAX_CONNS
    RxBufSize,      \* TCP_RX_BUF_SIZE
    MaxSegment,     \* TCP_MAX_SEGMENT
    MaxRetransmits, \* TCP_MAX_RETRANSMITS
    SeqSpace,       \* 2^32 in the code: sequence numbers wrap here
    Bytes,          \* Bytes[h]: how much the program on h wants to send
    Connects,       \* how many connections the client opens
    Losses, Dups,   \* how much the network may misbehave
    SendTimeouts,   \* may tcp_send's five seconds run out?
    EarlyTimers,    \* how often a timer may fire before the answer arrives
    Polite          \* do the programs follow http_get's order of calls?

Client == "client"
Server == "server"
Hosts == {Client, Server}
Other(h) == IF h = Client THEN Server ELSE Client

ServerPort == 80
FirstPort == 49152
Slots == 1 .. MaxConns
NoSlot == 0

VARIABLES
    conns,    \* conns[h][i], a struct tcp_conn
    nextPort, \* pick_ephemeral_port's next_port
    counter,  \* initial_seq's counter
    net,      \* segments in flight
    losses, dups, early,
    call,     \* the blocking call the program on h is in
    handle,   \* the connection it uses
    chunk,    \* tcp_send's chunk: the bytes it waits for
    given,    \* how many bytes it has handed to send_segment
    sent,     \* how many bytes tcp_send has reported as sent
    taken,    \* every byte stored in a receive ring of h, in order
    got       \* every byte tcp_recv returned on h, in order

app == <<call, handle, chunk>>
stream == <<given, sent, taken, got>>
wire == <<net, losses, dups, early>>
vars == <<conns, nextPort, counter, wire, app, stream>>

Plus(a, b) == (a + b) % SeqSpace

(***************************************************************************)
(* Connection control blocks                                               *)
(***************************************************************************)

States == {"CLOSED", "LISTEN", "SYN_SENT", "SYN_RECEIVED", "ESTABLISHED",
           "FIN_WAIT_1", "FIN_WAIT_2", "CLOSE_WAIT", "LAST_ACK"}

Zeroed == [state |-> "CLOSED", local_port |-> 0, remote_port |-> 0,
           send_una |-> 0, send_next |-> 0, recv_next |-> 0,
           unacked_flags |-> {}, unacked_data |-> <<>>, retransmit_count |-> 0,
           rx |-> <<>>, peer_fin_received |-> FALSE, pending_accept |-> FALSE]

Outstanding(c) == c.send_una # c.send_next

\* Sequence numbers a segment consumes: its bytes, and one for SYN or FIN.
SeqLen(flags, data) ==
    Len(data) + Cardinality(flags \cap {"SYN", "FIN"})

\* The connection of h that segment m belongs to, if any.
FindConnection(h, m) ==
    {i \in Slots : /\ conns[h][i].state \notin {"CLOSED", "LISTEN"}
                   /\ conns[h][i].local_port = m.dport
                   /\ conns[h][i].remote_port = m.sport}

FindListener(h, port) ==
    {i \in Slots : conns[h][i].state = "LISTEN" /\ conns[h][i].local_port = port}

ClosedSlots(h) == {i \in Slots : conns[h][i].state = "CLOSED"}

\* The slot alloc_slot returns, and zeroes, when there is one.
AllocSlot(h) == Min(ClosedSlots(h))

\* pit_ticks() ^ counter: all that matters is that no two are alike.
InitialSeq(h) == (SeqSpace - 2 + 3 * counter[h]) % SeqSpace

\* build_and_send.
Segment(h, c, seq, flags, data) ==
    [to |-> Other(h), sport |-> c.local_port, dport |-> c.remote_port,
     seq |-> seq, ack |-> IF "ACK" \in flags THEN c.recv_next ELSE 0,
     flags |-> flags, data |-> data]

Ack(h, c) == Segment(h, c, c.send_next, {"ACK"}, <<>>)


\* send_segment: the control block afterwards; the segment is NewSegment.
Sending(c, flags, data) ==
    [c EXCEPT !.unacked_flags = flags, !.unacked_data = data,
              !.retransmit_count = 0,
              !.send_next = Plus(@, SeqLen(flags, data))]

NewSegment(h, c, flags, data) == Segment(h, c, c.send_next, flags, data)

SetConn(h, i, c) == conns' = [conns EXCEPT ![h][i] = c]

Send(out) == net' = net \cup out /\ UNCHANGED <<losses, dups, early>>

Init ==
    /\ conns = [h \in Hosts |-> [i \in Slots |-> Zeroed]]
    /\ nextPort = FirstPort
    /\ counter = [h \in Hosts |-> 0]
    /\ net = {} /\ losses = 0 /\ dups = 0 /\ early = 0
    /\ call = [h \in Hosts |-> IF h = Server THEN "start" ELSE "none"]
    /\ handle = [h \in Hosts |-> NoSlot]
    /\ chunk = [h \in Hosts |-> 0]
    /\ given = [h \in Hosts |-> 0]
    /\ sent = [h \in Hosts |-> 0]
    /\ taken = [h \in Hosts |-> <<>>]
    /\ got = [h \in Hosts |-> <<>>]

(***************************************************************************)
(* Calls of the program on each host                                       *)
(***************************************************************************)

\* tcp_listen, once.
Listen ==
    /\ call[Server] = "start"
    /\ FindListener(Server, ServerPort) = {} /\ ClosedSlots(Server) # {}
    /\ SetConn(Server, AllocSlot(Server),
               [Zeroed EXCEPT !.local_port = ServerPort, !.state = "LISTEN"])
    /\ call' = [call EXCEPT ![Server] = "none"]
    /\ UNCHANGED <<nextPort, counter, wire, handle, chunk, stream>>

Acceptable(i) == /\ conns[Server][i].state = "ESTABLISHED"
                 /\ conns[Server][i].pending_accept
                 /\ conns[Server][i].local_port = ServerPort

\* tcp_accept, when it returns a connection.
Accept ==
    /\ call[Server] = "none" /\ handle[Server] = NoSlot
    /\ FindListener(Server, ServerPort) # {}
    /\ \E i \in Slots :
        /\ Acceptable(i) /\ \A j \in Slots : Acceptable(j) => i <= j
        /\ conns' = [conns EXCEPT ![Server][i].pending_accept = FALSE]
        /\ handle' = [handle EXCEPT ![Server] = i]
    /\ UNCHANGED <<nextPort, counter, wire, call, chunk, stream>>

\* tcp_connect up to its first wait.
Connect ==
    /\ call[Client] = "none" /\ handle[Client] = NoSlot
    /\ nextPort < FirstPort + Connects
    /\ ClosedSlots(Client) # {}
    /\ LET i == AllocSlot(Client)
           c == [Zeroed EXCEPT !.local_port = nextPort, !.remote_port = ServerPort,
                               !.send_una = InitialSeq(Client),
                               !.send_next = InitialSeq(Client),
                               !.state = "SYN_SENT"]
       IN  /\ SetConn(Client, i, Sending(c, {"SYN"}, <<>>))
           /\ Send({NewSegment(Client, c, {"SYN"}, <<>>)})
           /\ handle' = [handle EXCEPT ![Client] = i]
    /\ nextPort' = nextPort + 1
    /\ counter' = [counter EXCEPT ![Client] = @ + 1]
    /\ call' = [call EXCEPT ![Client] = "connect"]
    /\ UNCHANGED <<chunk, stream>>

\* tcp_connect returns the handle or -1.
ConnectReturns ==
    /\ call[Client] = "connect"
    /\ conns[Client][handle[Client]].state # "SYN_SENT"
    /\ call' = [call EXCEPT ![Client] = "none"]
    /\ handle' = [handle EXCEPT ![Client] =
                    IF conns[Client][@].state = "ESTABLISHED" THEN @ ELSE NoSlot]
    /\ UNCHANGED <<conns, nextPort, counter, wire, chunk, stream>>

ConnectTimesOut ==
    /\ call[Client] = "connect"
    /\ conns[Client][handle[Client]].state = "SYN_SENT"
    /\ conns' = [conns EXCEPT ![Client][handle[Client]].state = "CLOSED"]
    /\ call' = [call EXCEPT ![Client] = "none"]
    /\ handle' = [handle EXCEPT ![Client] = NoSlot]
    /\ UNCHANGED <<nextPort, counter, wire, chunk, stream>>

\* The next chunk of tcp_send's loop on connection i: bytes are numbered.
SendChunk(h, i) ==
    LET n == Min({MaxSegment, Bytes[h] - given[h]})
        data == [k \in 1 .. n |-> given[h] + k]
    IN  /\ SetConn(h, i, Sending(conns[h][i], {"ACK"}, data))
        /\ Send({NewSegment(h, conns[h][i], {"ACK"}, data)})
        /\ given' = [given EXCEPT ![h] = @ + n]
        /\ chunk' = [chunk EXCEPT ![h] = n]

\* tcp_send up to its first wait.
SendStarts(h) ==
    /\ call[h] = "none" /\ handle[h] # NoSlot /\ given[h] < Bytes[h]
    /\ conns[h][handle[h]].state = "ESTABLISHED"
    /\ SendChunk(h, handle[h])
    /\ call' = [call EXCEPT ![h] = "send"]
    /\ UNCHANGED <<nextPort, counter, handle, sent, taken, got>>

\* The wait is over: count the chunk, send the next one or return.
SendAdvances(h) ==
    /\ call[h] = "send" /\ ~Outstanding(conns[h][handle[h]])
    /\ sent' = [sent EXCEPT ![h] = @ + chunk[h]]
    /\ IF given[h] < Bytes[h]
       THEN SendChunk(h, handle[h]) /\ UNCHANGED call
       ELSE /\ call' = [call EXCEPT ![h] = "none"]
            /\ UNCHANGED <<conns, wire, given, chunk>>
    /\ UNCHANGED <<nextPort, counter, handle, taken, got>>

\* tcp_send returns early: the connection died, or five seconds have passed.
SendFails(h) ==
    /\ call[h] = "send" /\ Outstanding(conns[h][handle[h]])
    /\ conns[h][handle[h]].state = "CLOSED" \/ SendTimeouts
    /\ call' = [call EXCEPT ![h] = "none"]
    /\ UNCHANGED <<conns, nextPort, counter, wire, handle, chunk, stream>>

\* tcp_recv with room for n bytes.
Recv(h) ==
    /\ call[h] = "none" /\ handle[h] # NoSlot
    /\ conns[h][handle[h]].state # "CLOSED"
    /\ LET rx == conns[h][handle[h]].rx
       IN \E n \in 1 .. Len(rx) :
            /\ conns' = [conns EXCEPT ![h][handle[h]].rx = SubSeq(rx, n + 1, Len(rx))]
            /\ got' = [got EXCEPT ![h] = @ \o SubSeq(rx, 1, n)]
    /\ UNCHANGED <<nextPort, counter, wire, app, given, sent, taken>>

\* The client program has sent what it could.
RequestOver ==
    /\ call[Client] = "none"
    /\ handle[Client] # NoSlot =>
           (conns[Client][handle[Client]].state = "ESTABLISHED" =>
                given[Client] = Bytes[Client])

\* http_get closes when the server has, or after a time in which a server
\* that is alive has accepted.  The server waits for the request, unless the
\* client is gone, and answers it.
MayClose(h) ==
    Polite =>
        IF h = Client
        THEN \/ conns[h][handle[h]].state \in {"CLOSE_WAIT", "CLOSED"}
             \/ given[h] = Bytes[h] /\ ~\E i \in Slots : Acceptable(i)
        ELSE /\ RequestOver
             /\ conns[h][handle[h]].state = "ESTABLISHED" => given[h] = Bytes[h]

\* tcp_close; the program then forgets the handle.
Close(h) ==
    /\ call[h] = "none" /\ handle[h] # NoSlot /\ MayClose(h)
    /\ LET c == conns[h][handle[h]]
           fin == {"FIN", "ACK"}
           next == IF c.state = "ESTABLISHED" THEN "FIN_WAIT_1" ELSE "LAST_ACK"
       IN  IF c.state \in {"ESTABLISHED", "CLOSE_WAIT"}
           THEN /\ SetConn(h, handle[h], [Sending(c, fin, <<>>) EXCEPT !.state = next])
                /\ Send({NewSegment(h, c, fin, <<>>)})
           ELSE UNCHANGED <<conns, wire>>
    /\ handle' = [handle EXCEPT ![h] = NoSlot]
    /\ UNCHANGED <<nextPort, counter, call, chunk, stream>>

\* tcp_close of the listening handle.
CloseListener ==
    /\ call[Server] = "none"
    /\ Polite => \A i \in Slots : conns[Server][i].state \in {"CLOSED", "LISTEN"}
    /\ \E i \in FindListener(Server, ServerPort) :
        conns' = [conns EXCEPT ![Server][i].state = "CLOSED"]
    /\ UNCHANGED <<nextPort, counter, wire, app, stream>>

(***************************************************************************)
(* tcp_poll: what it does to connection i of h once its timer has run out. *)
(***************************************************************************)

\* A segment of the same connection is still on its way.
AnswerComing(c) ==
    \E m \in net : {m.sport, m.dport} = {c.local_port, c.remote_port}

TimerRunsOut(h, i) ==
    /\ conns[h][i].state \notin {"CLOSED", "LISTEN"}
    /\ Outstanding(conns[h][i])
    /\ IF AnswerComing(conns[h][i])
       THEN early < EarlyTimers /\ early' = early + 1
       ELSE UNCHANGED early

Retransmit(h, i) ==
    /\ TimerRunsOut(h, i) /\ conns[h][i].retransmit_count < MaxRetransmits
    /\ conns' = [conns EXCEPT ![h][i].retransmit_count = @ + 1]
    /\ LET c == conns[h][i]
       IN  net' = net \cup
                {Segment(h, c, c.send_una, c.unacked_flags, c.unacked_data)}
    /\ UNCHANGED <<nextPort, counter, losses, dups, app, stream>>

GiveUp(h, i) ==
    /\ TimerRunsOut(h, i) /\ conns[h][i].retransmit_count >= MaxRetransmits
    /\ conns' = [conns EXCEPT ![h][i].state = "CLOSED"]
    /\ UNCHANGED <<nextPort, counter, net, losses, dups, app, stream>>

(***************************************************************************)
(* tcp_handle_packet                                                       *)
(***************************************************************************)

\* m is consumed, or a second copy of it stays behind; out is sent.
Deliver(m, out) ==
    /\ UNCHANGED <<losses, early>>
    /\ \/ net' = (net \ {m}) \cup out /\ UNCHANGED dups
       \/ dups < Dups /\ dups' = dups + 1 /\ net' = net \cup out

Lose ==
    /\ losses < Losses /\ losses' = losses + 1
    /\ \E m \in net : net' = net \ {m}
    /\ UNCHANGED <<conns, nextPort, counter, dups, early, app, stream>>

\* Nobody wants m: a reset goes back, unless m is one itself.  The reset's
\* numbers are left out, since a receiver never reads them.
Refuse(h, m) ==
    /\ FindConnection(h, m) = {} /\ FindListener(h, m.dport) = {}
    /\ Deliver(m, IF "RST" \in m.flags THEN {}
                  ELSE {[to |-> Other(h), sport |-> m.dport, dport |-> m.sport,
                         seq |-> 0, ack |-> 0, flags |-> {"RST"}, data |-> <<>>]})
    /\ UNCHANGED <<conns, nextPort, counter, app, stream>>

\* A SYN for a listener opens a child if a slot is free; all else is dropped.
Admit(h, m) ==
    /\ FindConnection(h, m) = {} /\ FindListener(h, m.dport) # {}
    /\ IF "SYN" \in m.flags /\ "ACK" \notin m.flags /\ ClosedSlots(h) # {}
       THEN LET c == [Zeroed EXCEPT !.local_port = m.dport, !.remote_port = m.sport,
                                    !.recv_next = Plus(m.seq, 1),
                                    !.send_una = InitialSeq(h),
                                    !.send_next = InitialSeq(h),
                                    !.state = "SYN_RECEIVED"]
            IN  /\ SetConn(h, AllocSlot(h), Sending(c, {"SYN", "ACK"}, <<>>))
                /\ Deliver(m, {NewSegment(h, c, {"SYN", "ACK"}, <<>>)})
                /\ counter' = [counter EXCEPT ![h] = @ + 1]
       ELSE Deliver(m, {}) /\ UNCHANGED <<conns, counter>>
    /\ UNCHANGED <<nextPort, app, stream>>

Abort(h, i, m) ==
    /\ "RST" \in m.flags
    /\ conns' = [conns EXCEPT ![h][i].state = "CLOSED"]
    /\ Deliver(m, {})
    /\ UNCHANGED taken

\* In SYN_SENT only the SYN+ACK that answers our SYN counts.
Establish(h, i, m) ==
    LET c == conns[h][i]
        d == [c EXCEPT !.send_una = c.send_next, !.recv_next = Plus(m.seq, 1),
                       !.state = "ESTABLISHED"]
    IN  /\ "RST" \notin m.flags /\ c.state = "SYN_SENT"
        /\ IF {"SYN", "ACK"} \subseteq m.flags /\ m.ack = c.send_next
           THEN SetConn(h, i, d) /\ Deliver(m, {Ack(h, d)})
           ELSE Deliver(m, {}) /\ UNCHANGED conns
        /\ UNCHANGED taken

\* The state after our outstanding segment is acknowledged.
AckedState(c) ==
    CASE c.state = "SYN_RECEIVED" -> "ESTABLISHED"
      [] c.state = "FIN_WAIT_1" /\ "FIN" \in c.unacked_flags ->
            IF c.peer_fin_received THEN "CLOSED" ELSE "FIN_WAIT_2"
      [] c.state = "LAST_ACK" /\ "FIN" \in c.unacked_flags -> "CLOSED"
      [] OTHER -> c.state

AfterAck(c, m) ==
    IF "ACK" \in m.flags /\ Outstanding(c) /\ m.ack = c.send_next
    THEN [c EXCEPT !.send_una = c.send_next, !.state = AckedState(c),
                   !.pending_accept = @ \/ c.state = "SYN_RECEIVED"]
    ELSE c

\* Mutant of Accepted: no test of the sequence number.
MutAcceptedAnySeq(c, m) ==
    IF c.state \in {"ESTABLISHED", "FIN_WAIT_1", "FIN_WAIT_2"}
    THEN SubSeq(m.data, 1, Min({Len(m.data), RxBufSize - Len(c.rx)}))
    ELSE <<>>

\* The bytes of m that go into the receive ring.
Accepted(c, m) ==
    IF m.seq = c.recv_next /\ c.state \in {"ESTABLISHED", "FIN_WAIT_1", "FIN_WAIT_2"}
    THEN SubSeq(m.data, 1, Min({Len(m.data), RxBufSize - Len(c.rx)}))
    ELSE <<>>

\* Mutant of AfterData: acknowledges the whole segment, not what was stored.
MutAfterData(c, m) ==
    [c EXCEPT !.rx = @ \o Accepted(c, m),
              !.recv_next = IF m.seq = @ THEN Plus(@, Len(m.data)) ELSE @]

AfterData(c, m) ==
    [c EXCEPT !.rx = @ \o Accepted(c, m),
              !.recv_next = Plus(@, Len(Accepted(c, m)))]

FinArrives(c, m) == "FIN" \in m.flags /\ Plus(m.seq, Len(m.data)) = c.recv_next

\* Mutant of AfterFin: FIN_WAIT_2 is forgotten.
MutAfterFin(c, m) ==
    IF FinArrives(c, m)
    THEN [c EXCEPT !.recv_next = Plus(@, 1), !.peer_fin_received = TRUE,
                   !.state = IF c.state = "ESTABLISHED" THEN "CLOSE_WAIT" ELSE @]
    ELSE c

AfterFin(c, m) ==
    IF FinArrives(c, m)
    THEN [c EXCEPT !.recv_next = Plus(@, 1), !.peer_fin_received = TRUE,
                   !.state = CASE c.state = "ESTABLISHED" -> "CLOSE_WAIT"
                               [] c.state = "FIN_WAIT_2" -> "CLOSED"
                               [] OTHER -> c.state]
    ELSE c

\* Every other state: acknowledgement, then data, then FIN.
Receive(h, i, m) ==
    LET c0 == conns[h][i]
        c1 == AfterAck(c0, m)
        c2 == AfterData(c1, m)
        c3 == AfterFin(c2, m)
    IN  /\ "RST" \notin m.flags /\ c0.state # "SYN_SENT"
        /\ IF c1.state = "CLOSED"
           THEN SetConn(h, i, c1) /\ Deliver(m, {}) /\ UNCHANGED taken
           ELSE /\ SetConn(h, i, c3)
                /\ Deliver(m, {Ack(h, c) : c \in
                                 (IF m.data # <<>> THEN {c2} ELSE {}) \cup
                                 (IF FinArrives(c2, m) THEN {c3} ELSE {})})
                /\ taken' = [taken EXCEPT ![h] = @ \o Accepted(c1, m)]

HandlePacket(h) ==
    \E m \in net :
        /\ m.to = h
        /\ \/ Refuse(h, m)
           \/ Admit(h, m)
           \/ /\ FindConnection(h, m) # {}
              /\ LET i == Min(FindConnection(h, m))
                 IN  Abort(h, i, m) \/ Establish(h, i, m) \/ Receive(h, i, m)
              /\ UNCHANGED <<nextPort, counter, app, given, sent, got>>

Poll(h) == \E i \in Slots : Retransmit(h, i) \/ GiveUp(h, i)

Call(h) ==
    \/ SendStarts(h) \/ SendAdvances(h) \/ SendFails(h) \/ Recv(h) \/ Close(h)

Next ==
    \/ Listen \/ Accept \/ CloseListener
    \/ Connect \/ ConnectReturns \/ ConnectTimesOut
    \/ \E h \in Hosts : Call(h) \/ Poll(h) \/ HandlePacket(h)
    \/ Lose

Spec == Init /\ [][Next]_vars

(***************************************************************************)
(* Fairness: the network delivers, timers fire, programs get on.           *)
(***************************************************************************)

Fairness ==
    /\ WF_vars(Listen) /\ WF_vars(Accept) /\ WF_vars(ConnectReturns)
    /\ \A h \in Hosts :
        /\ WF_vars(HandlePacket(h)) /\ WF_vars(Poll(h))
        /\ WF_vars(SendStarts(h)) /\ WF_vars(SendAdvances(h) \/ SendFails(h))
        /\ WF_vars(Recv(h)) /\ WF_vars(Close(h))

FairSpec == Spec /\ Fairness

(***************************************************************************)
(* Properties                                                              *)
(***************************************************************************)

TypeOK ==
    /\ conns \in [Hosts -> [Slots ->
          [state : States, local_port : Nat, remote_port : Nat,
           send_una : 0 .. SeqSpace - 1, send_next : 0 .. SeqSpace - 1,
           recv_next : 0 .. SeqSpace - 1,
           unacked_flags : SUBSET {"SYN", "ACK", "FIN"}, unacked_data : Seq(Nat),
           retransmit_count : 0 .. MaxRetransmits, rx : Seq(Nat),
           peer_fin_received : BOOLEAN, pending_accept : BOOLEAN]]]
    /\ handle \in [Hosts -> Slots \cup {NoSlot}]
    /\ call \in [Hosts -> {"start", "none", "connect", "send"}]
    /\ \A h \in Hosts, i \in Slots : Len(conns[h][i].rx) <= RxBufSize


\* What tcp_recv returns on one host is a prefix of what tcp_send was given
\* on the other: nothing lost in the middle, repeated or out of order,
\* whatever the network does.
StreamPrefix ==
    \A h \in Hosts :
        /\ IsPrefix(got[h], taken[h])
        /\ IsPrefix(taken[h], [k \in 1 .. given[Other(h)] |-> k])

\* Bytes that tcp_send reported as sent are in the peer's receive ring or
\* already read by its program.
SentMeansBuffered == \A h \in Hosts : sent[h] <= Len(taken[Other(h)])

\* Every slot a connection takes is free again in the end, although there is
\* no TIME_WAIT, a bare ACK is never repeated and a FIN that was already seen
\* is not acknowledged again (tcp.c:239-243, 460-487, 624-641).
SlotsFreed ==
    \A h \in Hosts, i \in Slots :
        conns[h][i].state \notin {"CLOSED", "LISTEN"}
            ~> conns[h][i].state \in {"CLOSED", "LISTEN"}

\* tcp.c:41-44: a segment that could not be taken is resent until it can, so
\* tcp_send ends with its bytes delivered as long as nothing is lost.
SendCompletes ==
    \A h \in Hosts :
        call[h] = "send" ~> sent[h] = given[h]

=============================================================================
