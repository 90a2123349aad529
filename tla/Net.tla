-------------------------------- MODULE Net --------------------------------
(***************************************************************************)
(* The network stack below and beside TCP: frames from the card, the ARP   *)
(* cache, IPv4 sends that poll while they wait for an address, echo        *)
(* replies, ping, UDP sockets and the DNS client.  All of it runs in one   *)
(* task at a time: the main loop's net_poll when no program runs, else the *)
(* system call of the program.  A send that misses the ARP cache polls the *)
(* card itself, so a handler can run inside a send, and a send inside that *)
(* handler: stack holds the calls in progress, the innermost last.         *)
(*                                                                         *)
(* The other stations answer what they receive late, never, or again and   *)
(* again: an answer to anything in sent may arrive at any time.  A message *)
(* is its addresses and what identifies it; a corrupt or foreign frame is  *)
(* "other".  A start tick is kept as the age of the wait, and learned_tick *)
(* as the order of the cache entries: all that the code compares.          *)
(***************************************************************************)
EXTENDS Integers, FiniteSetsExt, SequencesExt

CONSTANTS
    Hosts,          \* addresses on the local subnet
    Far,            \* addresses beyond the gateway
    Gateway,        \* gateway_ip, one of Hosts
    Resolver,       \* resolver_ip
    Requests,       \* how many echo requests each address makes
    CacheSize,      \* ARP_CACHE_SIZE
    NumSockets,     \* UDP_MAX_SOCKETS
    NumPorts,       \* ephemeral ports from 50000 to 65535
    IdSpace,        \* transaction identifiers, 2^16
    ArpTimeout,     \* IPV4_ARP_TIMEOUT_TICKS
    PingTimeout,    \* ICMP_PING_TIMEOUT_TICKS
    DnsTimeout,     \* DNS_TIMEOUT_TICKS
    Backlog,        \* frames the card's ring holds
    Names,          \* host names programs look up
    Literals,       \* those of Names that are dotted addresses
    Malformed,      \* those of Names that encode_qname refuses
    AddressOf,      \* the resolver's answer for a name, NoIp for none
    MaxLookups,     \* bound on calls of dns_resolve
    PingRuns,       \* bound on runs of the ping program
    PingCount       \* requests of one run of it

VARIABLES
    rx,             \* frames in the card's ring, oldest first
    cache,          \* arp.c: cache
    ping,           \* icmp.c: ping
    reply_buf,      \* icmp.c: whose request the reply buffer repeats
    sockets,        \* udp.c: sockets
    next_port,      \* dns.c: next_port
    stack,          \* calls in progress
    sent,           \* every message handed to the card so far
    asked,          \* echo requests each address has made
    run,            \* the ping program: runs so far, last sequence number of this one
    lookups,        \* calls of dns_resolve so far
    answer          \* what the last dns_resolve stored for its caller

vars == <<rx, cache, ping, reply_buf, sockets, next_port, stack, sent,
          asked, run, lookups, answer>>

NoIp == "0.0.0.0"
Broadcast == "ff:ff"
Entries == 1..CacheSize
Sockets == 1..NumSockets
Top == Last(stack)

----------------------------------------------------------------------------
(* ARP cache.  age 0 is the current tick; older ticks are numbered 1, 2... *)
(* in the order of their learned_tick.                                     *)

Unused == [ip |-> NoIp, mac |-> NoIp, age |-> 0]

Ranked(c) ==
    [i \in Entries |->
        [c[i] EXCEPT !.age = Cardinality({c[j].age : j \in Entries} \cap 1..c[i].age)]]

Holding(c, ip) == {i \in Entries : c[i].ip = ip}

Oldest(c) == {i \in Entries : \A j \in Entries : c[j].age <= c[i].age}

\* The entry is refreshed, else the first free one taken, else the oldest.
SlotFor(c, ip) ==
    Min(IF Holding(c, ip) # {} THEN Holding(c, ip)
        ELSE IF Holding(c, NoIp) # {} THEN Holding(c, NoIp)
        ELSE Oldest(c))


CacheLearn(c, ip, mac) ==
    IF ip = NoIp THEN c
    ELSE Ranked([c EXCEPT ![SlotFor(c, ip)] = [ip |-> ip, mac |-> mac, age |-> 0]])

----------------------------------------------------------------------------
(* Calls in progress.                                                      *)

\* The subnet test of ipv4_send: which station a frame for ip is handed to.
NextHop(ip) == IF ip \in Hosts THEN ip ELSE Gateway

\* ipv4_send, before its first look in the cache.  body says what is sent;
\* an echo reply is still in reply_buf and is read when the frame is built.
SendCall(dst, body) ==
    [fn |-> "send", pc |-> "resolve", dst |-> dst, body |-> body, age |-> 0]

PingCall == [fn |-> "ping", pc |-> "sending", age |-> 0]

DnsCall(name, sock, port, txid) ==
    [fn |-> "dns", pc |-> "sending", name |-> name, sock |-> sock,
     port |-> port, txid |-> txid, age |-> 0]

\* ipv4_send returns ok to its caller; icmp_handle_packet ignores the result.
SendReturns(ok) ==
    LET below == Front(stack)
    IN  IF Top.body.kind = "echo" THEN below
        ELSE [below EXCEPT ![Len(below)].pc = IF ok THEN "sent" ELSE "failed",
                           ![Len(below)].age = 0]

\* The innermost call goes on at pc.
At(pc) == [stack EXCEPT ![Len(stack)].pc = pc]

\* What the frame built from a call of ipv4_send carries.
Packet(call, mac) ==
    [kind |-> call.body.kind, dst |-> call.dst, mac |-> mac,
     data |-> IF call.body.kind = "echo" THEN reply_buf ELSE call.body.data]

ArpMessage(kind, dst, mac) == [kind |-> kind, dst |-> dst, mac |-> mac, data |-> NoIp]

----------------------------------------------------------------------------
(* UDP sockets.                                                            *)

NoData == [port |-> -1, txid |-> -1, name |-> NoIp]
ClosedSocket == [bound |-> FALSE, port |-> -1, data |-> NoData]

Bound(port) == {i \in Sockets : sockets[i].bound /\ sockets[i].port = port}
FreeSockets == {i \in Sockets : ~sockets[i].bound}

Opens(port) == Bound(port) = {} /\ FreeSockets # {}

UdpSocketOpen(port) ==
    [sockets EXCEPT ![Min(FreeSockets)] = [bound |-> TRUE, port |-> port, data |-> NoData]]

\* The rest of a closed socket is set again by the next open.
UdpSocketClose(i) == [sockets EXCEPT ![i] = ClosedSocket]

\* One datagram per socket: a second one takes the place of the first.
UdpHandlePacket(d) ==
    IF Bound(d.port) = {} THEN sockets
    ELSE [sockets EXCEPT ![Min(Bound(d.port))].data = d]

----------------------------------------------------------------------------
(* Frames received.  calls is the stack of the caller of ethernet_poll,    *)
(* out what it has sent.                                                   *)

\* A request for our address is also answered, which no station reacts to.
ArpHandleFrame(f, calls, out) ==
    /\ cache' = CacheLearn(cache, f.src, f.mac)
    /\ sent' = out
    /\ stack' = calls
    /\ UNCHANGED <<ping, reply_buf, sockets>>


\* A reply is matched by identifier and sequence number.
ReplyMatches(f) == ping.active /\ f.seq = ping.seq

EchoReply(f, calls, out) ==
    /\ ping' = IF ReplyMatches(f)
               THEN [ping EXCEPT !.got_reply = TRUE, !.by = f.by]
               ELSE ping
    /\ stack' = calls
    /\ sent' = out
    /\ UNCHANGED <<cache, reply_buf, sockets>>

EchoRequest(f, calls, out) ==
    /\ reply_buf' = f.src
    /\ stack' = Append(calls, SendCall(f.src, [kind |-> "echo"]))
    /\ sent' = out
    /\ UNCHANGED <<cache, ping, sockets>>

Datagram(f, calls, out) ==
    /\ sockets' = UdpHandlePacket(f.data)
    /\ stack' = calls
    /\ sent' = out
    /\ UNCHANGED <<cache, ping, reply_buf>>

Dropped(calls, out) ==
    /\ stack' = calls
    /\ sent' = out
    /\ UNCHANGED <<cache, ping, reply_buf, sockets>>

EthernetPoll(calls, out) ==
    IF rx = <<>>
    THEN Dropped(calls, out) /\ UNCHANGED rx
    ELSE /\ rx' = Tail(rx)
         /\ LET f == Head(rx)
            IN  CASE f.type = "arp"   -> ArpHandleFrame(f, calls, out)
                  [] f.type = "reply" -> EchoReply(f, calls, out)
                  [] f.type = "echo"  -> EchoRequest(f, calls, out)
                  [] f.type = "udp"   -> Datagram(f, calls, out)
                  [] OTHER            -> Dropped(calls, out)

----------------------------------------------------------------------------
NoAnswer == [name |-> NoIp, addr |-> NoIp]
NoPing == [active |-> FALSE, seq |-> 0, got_reply |-> FALSE, age |-> 0, by |-> 0]

Init ==
    /\ rx = <<>>
    /\ cache = [i \in Entries |-> Unused]
    /\ ping = NoPing
    /\ reply_buf = NoIp
    /\ sockets = [i \in Sockets |-> ClosedSocket]
    /\ next_port = 0
    /\ stack = <<>>
    /\ sent = {}
    /\ asked = [ip \in DOMAIN Requests |-> 0]
    /\ run = [number |-> 0, seq |-> 0]
    /\ lookups = 0
    /\ answer = NoAnswer

----------------------------------------------------------------------------
(* The main loop and ipv4_send.                                            *)

Programs == <<asked, run, lookups, answer, next_port>>

NetPoll ==
    /\ stack = <<>>
    /\ EthernetPoll(stack, sent)
    /\ UNCHANGED Programs

\* A hit sends the frame and returns; a miss asks again and polls the card.
Resolve ==
    /\ stack # <<>> /\ Top.fn = "send" /\ Top.pc = "resolve"
    /\ LET hop == NextHop(Top.dst)
           hit == Holding(cache, hop)
       IN  IF hit # {}
           THEN /\ sent' = sent \cup {Packet(Top, cache[Min(hit)].mac)}
                /\ stack' = SendReturns(TRUE)
                /\ UNCHANGED <<rx, cache, ping, reply_buf, sockets>>
           ELSE EthernetPoll(At("check"), sent \cup {ArpMessage("who-has", hop, Broadcast)})
    /\ UNCHANGED Programs

\* Mutant: the wait for an address has no limit.
MutGivesUp(call) == FALSE

GivesUp(call) == call.age > ArpTimeout

\* After the poll and the yield, the wait for an address may be over.
ResolveCheck ==
    /\ stack # <<>> /\ Top.fn = "send" /\ Top.pc = "check"
    /\ stack' = IF GivesUp(Top) THEN SendReturns(FALSE) ELSE At("resolve")
    /\ UNCHANGED <<rx, cache, ping, reply_buf, sockets, sent, Programs>>

----------------------------------------------------------------------------
(* icmp_ping, called by the ping program with sequence numbers 1, 2...     *)
(* of each of its runs.  by tells the calls apart for the properties.      *)

CallNumber == (run.number - 1) * PingCount + run.seq

\* A run starts with the address its lookup found and makes PingCount calls.
NextRequest ==
    IF run.seq = 0
    THEN [number |-> run.number + 1, seq |-> 1]
    ELSE [run EXCEPT !.seq = @ + 1]

IcmpPing ==
    /\ stack = <<>>
    /\ answer # NoAnswer
    /\ run.seq < PingCount
    /\ run' = NextRequest
    /\ run'.number <= PingRuns
    /\ ping' = [active |-> TRUE, seq |-> run'.seq, got_reply |-> FALSE, age |-> 0, by |-> 0]
    /\ stack' = <<PingCall,
                  SendCall(answer.addr, [kind |-> "ping",
                      data |-> [seq |-> run'.seq, by |-> CallNumber']])>>
    /\ UNCHANGED <<rx, cache, reply_buf, sockets, next_port, sent, asked, lookups, answer>>

PingReturns == ping' = NoPing /\ stack' = Front(stack)

PingFails ==
    /\ stack # <<>> /\ Top.fn = "ping" /\ Top.pc = "failed"
    /\ PingReturns
    /\ UNCHANGED <<rx, cache, reply_buf, sockets, sent, Programs>>

PingPolls ==
    /\ stack # <<>> /\ Top.fn = "ping" /\ Top.pc = "sent"
    /\ IF ping.got_reply
       THEN PingReturns /\ UNCHANGED <<rx, cache, reply_buf, sockets, sent>>
       ELSE EthernetPoll(At("check"), sent)
    /\ UNCHANGED Programs

PingCheck ==
    /\ stack # <<>> /\ Top.fn = "ping" /\ Top.pc = "check"
    /\ IF ping.age > PingTimeout THEN PingReturns
       ELSE stack' = At("sent") /\ UNCHANGED ping
    /\ UNCHANGED <<rx, cache, reply_buf, sockets, sent, Programs>>

----------------------------------------------------------------------------
(* dns_resolve.                                                            *)

\* Mutant: every lookup uses the same port.
MutPickPort(port) == port

\* pick_ephemeral_port: the port after this one, back to the first at the end.
PickPort(port) == (port + 1) % NumPorts

\* A program starts with a lookup; none runs while a ping run goes on.
StartsLookup ==
    /\ stack = <<>>
    /\ run.seq \in {0, PingCount}
    /\ lookups < MaxLookups
    /\ lookups' = lookups + 1
    /\ run' = [run EXCEPT !.seq = 0]

\* parse_ipv4_literal: a dotted address is its own answer.
DnsLiteral(name) ==
    /\ StartsLookup
    /\ name \in Literals
    /\ answer' = [name |-> name, addr |-> AddressOf[name]]
    /\ UNCHANGED <<rx, cache, ping, reply_buf, sockets, next_port, stack, sent, asked>>

\* The identifier is the tick count cut to 16 bits, which may be any.
DnsResolve(name, txid) ==
    /\ StartsLookup
    /\ name \notin Literals
    /\ answer' = NoAnswer
    /\ next_port' = PickPort(next_port)
    /\ IF Opens(next_port) /\ name \notin Malformed
       THEN /\ sockets' = UdpSocketOpen(next_port)
            /\ stack' = <<DnsCall(name, Min(FreeSockets), next_port, txid),
                          SendCall(Resolver, [kind |-> "dns",
                              data |-> [port |-> next_port, txid |-> txid, name |-> name]])>>
       ELSE UNCHANGED <<sockets, stack>>
    /\ UNCHANGED <<rx, cache, ping, reply_buf, sent, asked>>

DnsReturns ==
    /\ sockets' = UdpSocketClose(Top.sock)
    /\ stack' = Front(stack)


DnsFails ==
    /\ stack # <<>> /\ Top.fn = "dns" /\ Top.pc = "failed"
    /\ DnsReturns
    /\ UNCHANGED <<rx, cache, ping, reply_buf, sent, Programs>>

DnsPolls ==
    /\ stack # <<>> /\ Top.fn = "dns" /\ Top.pc = "sent"
    /\ EthernetPoll(At("recv"), sent)
    /\ UNCHANGED Programs

\* A response with another identifier, an error or no address ends the call
\* with 0, as does the timeout.
DnsRecv ==
    /\ stack # <<>> /\ Top.fn = "dns" /\ Top.pc = "recv"
    /\ LET d == sockets[Top.sock].data
       IN  IF d # NoData
           THEN /\ DnsReturns
                /\ answer' = IF d.txid = Top.txid /\ AddressOf[d.name] # NoIp
                             THEN [name |-> Top.name, addr |-> AddressOf[d.name]]
                             ELSE answer
           ELSE /\ UNCHANGED answer
                /\ IF Top.age > DnsTimeout THEN DnsReturns
                   ELSE stack' = At("sent") /\ UNCHANGED sockets
    /\ UNCHANGED <<rx, cache, ping, reply_buf, next_port, sent, asked, run, lookups>>

----------------------------------------------------------------------------
(* The clock and the other stations.                                       *)

Older(age, limit) == IF age > limit THEN age ELSE age + 1

LimitOf(call) == IF call.fn = "dns" THEN DnsTimeout ELSE ArpTimeout

Tick ==
    /\ stack' = [k \in DOMAIN stack |->
           IF stack[k].fn = "ping" \/ stack[k].pc = "sending" THEN stack[k]
           ELSE [stack[k] EXCEPT !.age = Older(@, LimitOf(stack[k]))]]
    /\ ping' = IF ping.active THEN [ping EXCEPT !.age = Older(@, PingTimeout)] ELSE ping
    /\ cache' = Ranked([i \in Entries |->
           IF cache[i].ip = NoIp THEN cache[i] ELSE [cache[i] EXCEPT !.age = @ + 1]])
    /\ UNCHANGED <<rx, reply_buf, sockets, next_port, sent, asked, run, lookups, answer>>

ArpFrame(ip, mac) == [type |-> "arp", src |-> ip, mac |-> mac]

\* The frame with which a station answers a message of ours.
AnswerTo(m) ==
    CASE m.kind = "who-has" -> ArpFrame(m.dst, m.dst)
      [] m.kind = "ping"    -> [type |-> "reply", seq |-> m.data.seq, by |-> m.data.by]
      [] m.kind = "dns"     -> [type |-> "udp", data |-> m.data]

Arrives(f) ==
    /\ Len(rx) < Backlog
    /\ rx' = Append(rx, f)
    /\ UNCHANGED <<cache, ping, reply_buf, sockets, next_port, stack, sent,
                   run, lookups, answer>>

\* A message that reached its station is answered, perhaps not for the first time.
Answered ==
    /\ \E m \in sent :
           /\ m.kind \in {"who-has", "ping", "dns"}
           /\ m.mac \in {NextHop(m.dst), Broadcast}
           /\ Arrives(AnswerTo(m))
    /\ UNCHANGED asked

\* A station asks for our address, or probes with none of its own.  Request and
\* reply teach the cache the same.
ArpAsked ==
    /\ \E f \in {ArpFrame(ip, ip) : ip \in Hosts} \cup {ArpFrame(NoIp, Gateway)} : Arrives(f)
    /\ UNCHANGED asked

EchoAsked ==
    \E ip \in DOMAIN Requests :
        /\ asked[ip] < Requests[ip]
        /\ asked' = [asked EXCEPT ![ip] = @ + 1]
        /\ Arrives([type |-> "echo", src |-> ip])

Stray == Arrives([type |-> "other"]) /\ UNCHANGED asked

----------------------------------------------------------------------------
TaskStep ==
    \/ NetPoll
    \/ Resolve \/ ResolveCheck
    \/ PingFails \/ PingPolls \/ PingCheck
    \/ DnsFails \/ DnsPolls \/ DnsRecv

Next ==
    \/ TaskStep
    \/ IcmpPing
    \/ \E name \in Names : DnsLiteral(name)
    \/ \E name \in Names, txid \in 0..IdSpace-1 : DnsResolve(name, txid)
    \/ Tick
    \/ Answered \/ ArpAsked \/ EchoAsked \/ Stray

Spec == Init /\ [][Next]_vars

\* The timer interrupts for ever, and the task in the stack is scheduled.
FairSpec == Spec /\ WF_vars(Tick) /\ WF_vars(TaskStep)

----------------------------------------------------------------------------


\* An address dns_resolve stores is the one for the name it was called with,
\* whatever old responses are still arriving (dns.c:177, 257).
AnswerIsForName == answer.addr # NoIp => answer.addr = AddressOf[answer.name]


\* Every call into the stack returns, whatever the network does: the waits
\* inside waits all end by an answer or a timeout (ipv4.c:155, icmp.c:129,
\* dns.c:243).
CallReturns == stack # <<>> ~> stack = <<>>
=============================================================================
