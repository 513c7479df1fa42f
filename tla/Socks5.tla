--------------------------------- MODULE Socks5 ---------------------------------
(***************************************************************************)
(* The SOCKS5 client, socks5Connect in src/libc/network.cpp, over one TCP  *)
(* session, which gives the proxy's bytes in order (TcpStream).            *)
(*                                                                         *)
(* The proxy is external: it answers each message, with any method, status *)
(* and reply, and may stop at any byte.  Its bytes are there up to some    *)
(* point when the client looks, and a wait may end by its deadline.        *)
(***************************************************************************)
EXTENDS Naturals, Sequences

CONSTANT DomainLens   \* lengths of a bound address given as a name

\* The length is a byte.
ASSUME DomainAssumption == DomainLens \subseteq 0 .. 255

VARIABLES
  phase,        \* failPhase; 0 when the tunnel is there
  state,        \* "idle", what the call waits for, or "done"
  creds,        \* are there a user name and a password
  arrived,      \* the proxy's bytes in tcpRxBuffer
  coming,       \* its bytes still on the way
  tcpUsed,      \* tcpConsumed
  method, replyCode,
  credsSent, appSent, appGot   \* what has been sent, and got through the tunnel

socksVars == <<phase, state, creds, arrived, coming, tcpUsed, method, replyCode, credsSent,
               appSent, appGot>>

SocksInit ==
  /\ phase = 0 /\ state = "idle" /\ creds = FALSE /\ arrived = <<>> /\ coming = <<>>
  /\ tcpUsed = 0 /\ method = 255 /\ replyCode = 255
  /\ credsSent = FALSE /\ appSent = FALSE /\ appGot = <<>>

\* The reply to CONNECT: an address type, 1, 3 with a length, 4, or another one,
\* and what follows it.
Filler(n) == [i \in 1 .. n |-> 9]
Replies == {<<5, rep, 0, 1>> \o Filler(6) : rep \in {0, 5}}
      \cup {<<5, rep, 0, 4>> \o Filler(18) : rep \in {0, 5}}
      \cup {<<5, rep, 0, 3, n>> \o Filler(n + 2) : rep \in {0, 5}, n \in DomainLens}
      \cup {<<5, 0, 0, 2>> \o Filler(6)}
AppByte == 7

\* A byte behind the ones taken
Byte(i) == arrived[tcpUsed + i + 1]
There(n) == Len(arrived) >= tcpUsed + n

\* The proxy's bytes come in, all that are on the way or a part of them.
Arrive ==
  /\ state \notin {"idle", "done"} /\ coming # <<>>
  /\ \E n \in 1 .. Len(coming) : /\ arrived' = arrived \o SubSeq(coming, 1, n)
                                 /\ coming' = SubSeq(coming, n + 1, Len(coming))
  /\ UNCHANGED <<phase, state, creds, tcpUsed, method, replyCode, credsSent, appSent, appGot>>

\* The session's connection, and the greeting.  An unusable target or no connection
\* leaves phase at 1.
SocksOpen ==
  /\ state = "idle" /\ creds' \in BOOLEAN
  /\ tcpUsed' = 0 /\ arrived' = <<>> /\ method' = 255 /\ replyCode' = 255
  /\ credsSent' = FALSE /\ appSent' = FALSE /\ appGot' = <<>>
  /\ \/ state' = "done" /\ phase' = 1 /\ coming' = <<>>
     \/ state' = "method" /\ phase' = 2
        /\ coming' \in {<<v, m>> : v \in {4, 5}, m \in {0, 2, 3, 255}}

\* A wait that ends without the bytes, a send that fails, and a greeting of
\* another version: the session is closed, phase stays.
SocksGivesUp ==
  /\ state \in {"method", "auth", "connect", "reply", "replyLen", "replyAll"}
  /\ state' = "done"
  /\ UNCHANGED <<phase, creds, arrived, coming, tcpUsed, method, replyCode, credsSent, appSent, appGot>>

Fail(p) == phase' = p /\ state' = "done"

\* A mutant: a reply that has been looked at stays in the buffer.
TwoLeft == tcpUsed

\* Behind a reply of two bytes
TwoTaken == tcpUsed + 2

\* May the client authenticate
MayAuth == creds

\* The method is there.
Method ==
  /\ state = "method" /\ There(2) /\ Byte(0) = 5
  /\ tcpUsed' = TwoTaken /\ method' = Byte(1)
  /\ \/ /\ Byte(1) = 0 /\ state' = "connect" /\ phase' = 7 /\ UNCHANGED <<credsSent, coming>>
     \/ /\ Byte(1) = 2 /\ MayAuth /\ state' = "auth" /\ phase' = 5 /\ credsSent' = TRUE
        /\ \E status \in {0, 1} : coming' = coming \o <<1, status>>
     \/ /\ Byte(1) = 2 /\ ~MayAuth /\ Fail(4) /\ UNCHANGED <<credsSent, coming>>
     \/ /\ Byte(1) \notin {0, 2} /\ Fail(3) /\ UNCHANGED <<credsSent, coming>>
  /\ UNCHANGED <<creds, arrived, replyCode, appSent, appGot>>

Auth ==
  /\ state = "auth" /\ There(2) /\ tcpUsed' = TwoTaken
  /\ IF Byte(1) = 0 THEN state' = "connect" /\ phase' = 7 ELSE Fail(6)
  /\ UNCHANGED <<creds, arrived, coming, method, replyCode, credsSent, appSent, appGot>>

\* The CONNECT request goes out, and the proxy answers it.
Connect ==
  /\ state = "connect" /\ state' = "reply" /\ phase' = 8
  /\ \E r \in Replies : coming' = coming \o r
  /\ UNCHANGED <<creds, arrived, tcpUsed, method, replyCode, credsSent, appSent, appGot>>

\* The length of the reply is told by its address type.
Reply ==
  /\ \/ /\ state = "reply" /\ There(4)
        /\ state' = IF Byte(3) = 3 THEN "replyLen"
                    ELSE IF Byte(3) \in {1, 4} THEN "replyAll" ELSE "done"
     \/ state = "replyLen" /\ There(5) /\ state' = "replyAll"
  /\ UNCHANGED <<phase, creds, arrived, coming, tcpUsed, method, replyCode, credsSent, appSent, appGot>>

\* A mutant: a name's length byte is not counted.
TotalShort == IF Byte(3) = 1 THEN 10 ELSE IF Byte(3) = 4 THEN 22 ELSE 6 + Byte(4)

\* replyTotal
ReplyTotal == IF Byte(3) = 1 THEN 10 ELSE IF Byte(3) = 4 THEN 22 ELSE 7 + Byte(4)

\* Does the reply open the tunnel
Granted(code) == code = 0

ReplyAll ==
  /\ state = "replyAll" /\ There(ReplyTotal) /\ replyCode' = Byte(1)
  /\ tcpUsed' = tcpUsed + ReplyTotal
  /\ IF Granted(Byte(1)) THEN state' = "tunnel" /\ phase' = 0 ELSE Fail(9)
  /\ UNCHANGED <<creds, arrived, coming, method, credsSent, appSent, appGot>>

\* The request through the tunnel, which may not be sent, and what comes back, as
\* far as it comes; then the session is closed.
SendApp ==
  /\ state = "tunnel"
  /\ \/ state' = "drain" /\ appSent' = TRUE /\ coming' = coming \o <<AppByte, AppByte>>
     \/ state' = "done" /\ UNCHANGED <<appSent, coming>>
  /\ UNCHANGED <<phase, creds, arrived, tcpUsed, method, replyCode, credsSent, appGot>>
Drain ==
  /\ state = "drain" /\ state' = "done"
  /\ appGot' = SubSeq(arrived, tcpUsed + 1, Len(arrived)) /\ tcpUsed' = Len(arrived)
  /\ UNCHANGED <<phase, creds, arrived, coming, method, replyCode, credsSent, appSent>>

SocksStep == \/ SocksOpen \/ SocksGivesUp \/ Arrive \/ Method \/ Auth \/ Connect \/ Reply
             \/ ReplyAll \/ SendApp \/ Drain

\* The call returns.
SocksDone == /\ state = "done" /\ state' = "idle" /\ arrived' = <<>> /\ coming' = <<>>
             /\ phase' = 0 /\ creds' = FALSE /\ tcpUsed' = 0 /\ method' = 255
             /\ replyCode' = 255 /\ credsSent' = FALSE /\ appSent' = FALSE /\ appGot' = <<>>

-------------------------------------------------------------------------------
\* The proxy's byte a, counting from 1, where it said what a phase is about.
Said(a) == (arrived \o coming)[a]
ReplyAt == IF credsSent THEN 5 ELSE 3

\* failPhase says where it stopped, as network.hpp:45 lists, told from what the
\* proxy has said and not from where the client looked: every reply is read at
\* its own first byte, whatever the lengths before it and however it came in.
PhaseTellsStop ==
  state = "done" =>
    /\ phase = 3 => Said(2) \notin {0, 2}
    /\ phase = 4 => Said(2) = 2 /\ ~creds
    /\ phase = 6 => Said(4) # 0
    /\ phase = 9 => Said(ReplyAt + 1) # 0
    /\ phase = 0 => Said(ReplyAt + 1) = 0 /\ (Said(2) = 2 => Said(4) = 0)

\* Credentials go only to a proxy that selected their method, the request only
\* through a tunnel the proxy has opened, and what the caller is given as its answer
\* is what the server sent through the tunnel, none of the proxy's own bytes
\* (network.cpp:1733, :1806).
OnlyThroughTunnel ==
  /\ credsSent => creds /\ Said(2) = 2
  /\ appSent => Said(ReplyAt + 1) = 0
  /\ \A i \in DOMAIN appGot : appGot[i] = AppByte
================================================================================
