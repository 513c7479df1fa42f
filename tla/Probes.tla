-------------------------------- MODULE Probes --------------------------------
(***************************************************************************)
(* Frames and waits in src/libc/network.cpp, over NicRing: what            *)
(* handleFrame does with ARP, ICMP, DNS, TCP and DHCP's acknowledgement,   *)
(* and the calls of arping, ping, traceroute, udp, dns and tcp, which find *)
(* the next hop, then its address, send, and poll until the answer or the  *)
(* deadline is there.                                                      *)
(*                                                                         *)
(* The network is external: an answer may be lost, repeated and as late as *)
(* it likes, and hosts announce themselves when they like.  The hosts are  *)
(* those in the subnet; what is said of them does not depend on whether    *)
(* frames for an address that is given up are dropped (network.cpp:872).   *)
(***************************************************************************)
EXTENDS NicRing

CONSTANTS Far,       \* an address outside the subnet
          MaxSeq,    \* probes of a command: 4 of ping, 8 of traceroute
          MaxCalls   \* bound: calls

ASSUME SeqAssumption == MaxSeq \in 1 .. 100
ASSUME FarAssumption == Far \notin Hosts \cup {None}

VARIABLES
  what,             \* the command: "none", "arping", "ping", "trace", "udp", "dns", "tcp"
  target, seq,      \* whom it asks, and its probe
  hop,              \* nextHop, while its address is looked for
  pc,               \* "idle", "call", "arp" (arping waits), "send", "wait"
  calls,
  lastEchoSeq, lastDnsId,
  echoReplySeen, icmpTimeExceededSeen, dnsReplySeen,  \* 0, or what was answered
  gateway, dhcpXid, \* info.gatewayIp, and the number of the last exchange
  conn,             \* the last connection: with whom, its source port, and whether the cache
                    \* has been cleared since
  asked,            \* what has gone out
  answer,           \* what the last probe was answered with, 0 if it was not
  hung              \* a handler has called poll for the frame it is handling

probeVars == <<what, target, seq, hop, pc, calls, lastEchoSeq, lastDnsId, echoReplySeen,
               icmpTimeExceededSeen, dnsReplySeen, gateway, dhcpXid, conn, asked, answer, hung>>
callVars == <<what, target, seq, hop, pc, calls, asked, answer>>
routeVars == <<gateway, dhcpXid, conn>>
seenVars == <<echoReplySeen, icmpTimeExceededSeen, dnsReplySeen>>
vars == <<ringVars, arpVars, probeVars>>

Init ==
  /\ RingInit /\ ArpInit
  /\ what = "none" /\ target = None /\ seq = 0 /\ hop = None /\ pc = "idle" /\ calls = 0
  /\ lastEchoSeq = 0 /\ lastDnsId = 0
  /\ echoReplySeen = 0 /\ icmpTimeExceededSeen = 0 /\ dnsReplySeen = 0
  /\ gateway = None /\ dhcpXid = 0 /\ conn = [target |-> None, id |-> 0, cleared |-> TRUE]
  /\ asked = {} /\ answer = 0 /\ hung = FALSE

\* routeNextHop
RouteNextHop(t) == IF t = Far /\ gateway # None THEN gateway ELSE t

-------------------------------------------------------------------------------
(* Frames *)

Frame(kind, size) == [NoFrame EXCEPT !.kind = kind, !.size = size]

\* What may come: an ARP packet, or an answer to what went out.  DHCP's ACK names a
\* router, or the offer has named it, or there is none.
Arrives ==
  /\ \/ \E h \in Hosts, m \in Macs : Store([Frame("arp", 1) EXCEPT !.host = h, !.mac = m])
     \/ \E p \in asked :
          \/ p.what \in {"ping", "trace"} /\ Store([Frame("reply", 1) EXCEPT !.id = p.id])
          \/ p.what = "trace" /\ Store([Frame("exceeded", 1) EXCEPT !.id = p.id])
          \/ p.what = "dns" /\ Store([Frame("dns", 2) EXCEPT !.id = p.id])
          \/ p.what = "tcp" /\ Store([Frame("segment", 2) EXCEPT !.id = p.id])
          \/ p.what = "dhcp" /\ \E r \in Hosts \cup {None} :
               Store([Frame("ack", 2) EXCEPT !.id = p.id, !.host = r])
  /\ UNCHANGED <<arpVars, probeVars>>

\* handleDnsResponse: an answer with an address to the query made last.
DnsAnswers(f) == f.kind = "dns" /\ f.id = lastDnsId

\* handleDhcpResponse: an ACK of the last exchange, whatever has become of it; that
\* its number is right is all that is asked.
Acknowledges(f) == f.kind = "ack" /\ f.id = dhcpXid

\* handleFrame, inside poll.  The sender of a request is answered at the address it
\* gave.  An ACK sets the gateway and clears the cache, whatever is waiting.
\* handleTcp acknowledges a segment, also one of a connection that is over, by the
\* route there is now; without the next hop's address the acknowledgement waits in
\* arping, whose poll finds the same frame at rxOffset and handles it again, and so on.
HandleFrame(f) ==
  /\ \/ f.kind = "arp" /\ RememberArp(f.host, f.mac) /\ UNCHANGED <<gateway, conn>>
     \/ /\ Acknowledges(f) /\ Cleared /\ conn' = [conn EXCEPT !.cleared = TRUE]
        /\ gateway' = IF f.host = None THEN gateway ELSE f.host
     \/ f.kind # "arp" /\ ~Acknowledges(f) /\ UNCHANGED <<arpVars, gateway, conn>>
  /\ echoReplySeen' = IF f.kind = "reply" /\ f.id = lastEchoSeq THEN f.id ELSE echoReplySeen
  /\ icmpTimeExceededSeen' = IF f.kind = "exceeded" /\ f.id = lastEchoSeq THEN f.id
                             ELSE icmpTimeExceededSeen
  /\ dnsReplySeen' = IF DnsAnswers(f) THEN f.id ELSE dnsReplySeen
  /\ hung' = (f.kind = "segment" /\ f.id = conn.id /\ ~Known(RouteNextHop(conn.target)))
  /\ UNCHANGED <<callVars, lastEchoSeq, lastDnsId, dhcpXid>>

\* poll, from a wait or from the command of that name
Poll ==
  \/ Take /\ HandleFrame(ring[rxOffset])
  \/ GiveBack /\ UNCHANGED <<arpVars, probeVars>>

-------------------------------------------------------------------------------
(* Calls *)

\* ping and traceroute number their probes from 1 and from 101; dns takes an id that
\* is new for 256 packets, and tcp a port that is new for 4096 connections.
Id == IF what = "ping" THEN seq ELSE IF what = "trace" THEN 100 + seq ELSE 18496 + calls

Command(w) ==
  /\ pc = "idle" /\ calls < MaxCalls /\ calls' = calls + 1
  /\ what' = w /\ target' \in Hosts \cup {Far} /\ seq' = 1 /\ pc' = "call" /\ answer' = 0
  /\ UNCHANGED <<ringVars, arpVars, hop, lastEchoSeq, lastDnsId, seenVars, routeVars, asked, hung>>

\* A mutant: the next hop's address is not waited for.
NoWait(h) == TRUE

\* May a packet for next hop h be made
MaySend(h) == Known(h)

\* The call, by the route there is now: dns sets its id, and tcp its connection,
\* before the address is there.
Call ==
  /\ pc = "call" /\ hop' = (IF what = "arping" THEN target ELSE RouteNextHop(target))
  /\ pc' = IF what # "arping" /\ MaySend(hop') THEN "send" ELSE "arp"
  /\ IF what = "dns" THEN lastDnsId' = Id /\ dnsReplySeen' = 0
                     ELSE UNCHANGED <<lastDnsId, dnsReplySeen>>
  /\ conn' = IF what = "tcp" THEN [target |-> target, id |-> Id, cleared |-> FALSE] ELSE conn
  /\ UNCHANGED <<ringVars, arpVars, what, target, seq, calls, lastEchoSeq, echoReplySeen,
                 icmpTimeExceededSeen, gateway, dhcpXid, asked, answer, hung>>

\* The prompt, or the next probe of the command
Prompt == what' = "none" /\ target' = None /\ seq' = 0 /\ hop' = None /\ pc' = "idle"
Ends == IF what \in {"ping", "trace"} /\ seq < MaxSeq
        THEN seq' = seq + 1 /\ hop' = None /\ pc' = "call" /\ UNCHANGED <<what, target>>
        ELSE Prompt

\* arping: the address is there, or the deadline.
Resolved ==
  /\ pc = "arp" /\ ~handling
  /\ \/ Known(hop) /\ what # "arping" /\ pc' = "send"
        /\ UNCHANGED <<what, target, seq, hop, answer>>
     \/ Known(hop) /\ what = "arping" /\ Ends /\ UNCHANGED answer
     \/ Ends /\ answer' = 0
  /\ UNCHANGED <<ringVars, arpVars, calls, lastEchoSeq, lastDnsId, seenVars, routeVars,
                 asked, hung>>

\* A mutant: an echo keeps the flags of the last one.
EchoKeeps == UNCHANGED <<echoReplySeen, icmpTimeExceededSeen>>

\* What an echo does to the flags
EchoResets == echoReplySeen' = 0 /\ icmpTimeExceededSeen' = 0

\* sendFrame: it may fail, with the frame gone out or not, and an RTL8139 says it
\* has sent a frame that has not.
Send ==
  /\ pc = "send"
  /\ \/ what # "udp" /\ asked' = asked \cup {[what |-> what, id |-> Id]}
     \/ UNCHANGED asked
  /\ IF what \in {"ping", "trace"} THEN lastEchoSeq' = Id /\ EchoResets
     ELSE UNCHANGED <<lastEchoSeq, echoReplySeen, icmpTimeExceededSeen>>
  /\ \/ what # "udp" /\ pc' = "wait" /\ hop' = None /\ UNCHANGED <<what, target, seq>>
     \/ Ends
  /\ answer' = 0
  /\ UNCHANGED <<ringVars, arpVars, calls, lastDnsId, dnsReplySeen, routeVars, hung>>

\* The flag is seen after a poll, or the deadline ends the wait.  traceroute stops
\* at the target.
Answered(s) == s # 0 /\ answer' = s
Waited ==
  /\ pc = "wait" /\ ~handling
  /\ \/ what = "ping" /\ Answered(echoReplySeen) /\ Ends
     \/ what = "trace" /\ Answered(echoReplySeen) /\ Prompt
     \/ what = "trace" /\ echoReplySeen = 0 /\ Answered(icmpTimeExceededSeen) /\ Ends
     \/ what = "dns" /\ Answered(dnsReplySeen) /\ Ends
     \/ Ends /\ answer' = 0
  /\ UNCHANGED <<ringVars, arpVars, calls, lastEchoSeq, lastDnsId, seenVars, routeVars,
                 asked, hung>>

\* What configures the address clears the cache.
Configures ==
  /\ pc = "idle" /\ calls < MaxCalls /\ calls' = calls + 1
  /\ Cleared /\ conn' = [conn EXCEPT !.cleared = TRUE]
  /\ UNCHANGED <<ringVars, what, target, seq, hop, pc, lastEchoSeq, lastDnsId, seenVars,
                 answer, hung>>

\* startDhcp: a new exchange, whose DISCOVER may not go out.  DhcpClient has the rest
\* of it; here it is what its ACK does that counts.
StartDhcp ==
  /\ Configures /\ gateway' = None /\ dhcpXid' = calls + 1
  /\ asked' = asked \cup {[what |-> "dhcp", id |-> dhcpXid']} \/ UNCHANGED asked

\* configureStatic: an ACK of the last exchange may still come, and counts.
ConfigureStatic ==
  Configures /\ gateway' \in Hosts \cup {None} /\ UNCHANGED <<dhcpXid, asked>>

Commands == {"arping", "ping", "trace", "udp", "dns", "tcp"}
Next ==
  /\ ~hung
  /\ \/ Arrives
     \/ pc \in {"idle", "arp", "wait"} /\ Poll
     \/ ~handling /\ (Call \/ Resolved \/ Send \/ Waited \/ StartDhcp \/ ConfigureStatic)
     \/ ~handling /\ \E w \in Commands : Command(w)

Spec == Init /\ [][Next]_vars

-------------------------------------------------------------------------------
\* What a probe is told to be its answer answers an echo or a query of its number
\* that has gone out, and not an earlier probe's, however late that one's answer
\* comes, also while the next one waits for an address (network.cpp:876, :992).  It
\* may answer the probe of that number of an earlier ping.
AnswersMatch ==
  [][answer = 0 /\ answer' # 0 => answer' = Id /\ [what |-> what, id |-> Id] \in asked]_vars

\* A segment is handled to its end unless its next hop has been forgotten since the
\* connection asked for it: pushed out by as many other hosts as there are entries,
\* or, where it has not been heard again, cleared with the cache, which a DHCP ACK may
\* do in the middle of the connection.  Then poll calls itself for the same frame
\* without end (network.cpp:781, :959, :1302).
HangsOnlyWhenForgotten ==
  hung => LET h == RouteNextHop(conn.target)
          IN IF h \in Hosts /\ heard[h] # None THEN Cardinality(since[h]) >= CacheSize
             ELSE conn.cleared
===============================================================================
