------------------------------ MODULE DhcpProofs ------------------------------
(***************************************************************************)
(* Theorems about DhcpClient, for every set of servers, every choice of    *)
(* the options they leave out, any number of exchanges and any time-out,   *)
(* and about the terminal's loop that drives it (Shell), for any number of *)
(* keys.                                                                   *)
(*                                                                         *)
(* The network keeps every message for ever, so what must be carried along *)
(* is where a message came from: an ACK stems from a REQUEST of its        *)
(* exchange, the stored offer from an OFFER of the current one.  Of the    *)
(* loop, what must be carried along is which place of which line the next  *)
(* key of the queue is.                                                    *)
(***************************************************************************)
EXTENDS Shell, SequenceTheorems, TLAPS

\* Every ACK on the network answers a REQUEST that named its server.
AcksAnswer ==
  \A m \in net : m.type = "ack" =>
    [type |-> "request", xid |-> m.xid, server |-> m.server] \in net

\* What the client stored of an offer came in an OFFER of this exchange.
OfferOfThisExchange ==
  offer.router # "none" =>
    \E m \in net : /\ m.type = "offer" /\ m.xid = dhcpXid
                   /\ m.router = offer.router

\* An offer with an address names the server that made it.
OfferHasServer == offer.ip # "none" => offer.server \in Servers

\* The flag of an ACK stands for a configuration in place.
AckMeansConfigured ==
  /\ dhcpAckSeen => info.dhcpConfigured
  /\ info.dhcpConfigured => info.ipAddress \in Servers

\* The inductive invariant of the client.
DhcpInv ==
  /\ DhcpTypeOK /\ AcksAnswer /\ OfferOfThisExchange /\ OfferHasServer
  /\ AckMeansConfigured
  /\ AddressGranted /\ DoneMeansConfigured /\ GatewayOfThisExchange

\* The client begins with nothing granted.
LEMMA DhcpInitInv == DhcpInit => DhcpInv
<1> SUFFICES ASSUME DhcpInit
             PROVE  DhcpInv
  OBVIOUS
<1>1. starts \in 0 .. MaxStarts /\ dhcpXid \in Xid /\ waited \in 0 .. Timeout
  BY BoundAssumption DEF DhcpInit, Xid
<1>2. dhcpState \in 0 .. 4 /\ dhcpState # 3
  BY DEF DhcpInit
<1>3. DhcpTypeOK
  BY <1>1, <1>2 DEF DhcpInit, DhcpTypeOK, NoOffer, NoConfig, Address
<1> QED  BY <1>2, <1>3
         DEF DhcpInit, DhcpInv, AcksAnswer, OfferOfThisExchange,
             OfferHasServer, AckMeansConfigured, AddressGranted,
             DoneMeansConfigured,
             GatewayOfThisExchange, NoOffer, NoConfig

\* A step that leaves the exchange, the offer and the configuration alone keeps
\* what their messages vouch for: messages are never taken off the network.
LEMMA NetGrows ==
  ASSUME DhcpInv, net \subseteq net', UNCHANGED <<dhcpXid, offer, info>>
  PROVE  OfferOfThisExchange' /\ AddressGranted' /\ GatewayOfThisExchange'
  BY DEF DhcpInv, OfferOfThisExchange, AddressGranted, GatewayOfThisExchange

\* startDhcp forgets the last exchange altogether.
LEMMA StartInv ==
  ASSUME DhcpInv, UserDhcp
  PROVE  DhcpInv'
<1> PICK sent \in BOOLEAN : StartDhcp(sent)
  BY DEF UserDhcp
<1>1. starts + 1 \in 0 .. MaxStarts /\ starts + 1 \in Xid
  BY BoundAssumption DEF DhcpInv, DhcpTypeOK, UserDhcp, Xid
<1>2. /\ net \subseteq net' /\ net' \subseteq Message
      /\ \A m \in net' : m.type = "ack" => m \in net
  <2>1. [type |-> "discover", xid |-> starts + 1] \in Message
    BY <1>1 DEF Message
  <2>2. net' \in {net, net \cup {[type |-> "discover", xid |-> starts + 1]}}
    BY DEF StartDhcp
  <2> QED  BY <2>1, <2>2 DEF DhcpInv, DhcpTypeOK
<1>3. /\ offer' = NoOffer /\ info' = NoConfig /\ dhcpState' \in {1, 4}
      /\ dhcpOfferSeen' = FALSE /\ dhcpAckSeen' = FALSE /\ at' = "keys"
      /\ starts' = starts + 1 /\ dhcpXid' = starts + 1 /\ waited' \in {0, waited}
  BY DEF StartDhcp
<1>4. DhcpTypeOK'
  <2>1. starts' \in 0 .. MaxStarts /\ dhcpXid' \in Xid /\ waited' \in 0 .. Timeout
        /\ dhcpState' \in 0 .. 4
    BY <1>1, <1>3, BoundAssumption DEF DhcpInv, DhcpTypeOK
  <2> QED  BY <1>2, <1>3, <2>1 DEF DhcpTypeOK, NoOffer, NoConfig, Address
<1>5. AcksAnswer'
  BY <1>2 DEF DhcpInv, AcksAnswer
<1>6. dhcpState' # 3
  BY <1>3
<1> QED  BY <1>3, <1>4, <1>5, <1>6
         DEF DhcpInv, OfferOfThisExchange, OfferHasServer, AckMeansConfigured,
             AddressGranted,
             DoneMeansConfigured, GatewayOfThisExchange, NoOffer, NoConfig

\* configureStatic takes the client out of the exchange.
LEMMA StaticInv ==
  ASSUME DhcpInv, UserIfconfig
  PROVE  DhcpInv'
<1>1. /\ dhcpState' = 0 /\ dhcpOfferSeen' = FALSE /\ dhcpAckSeen' = FALSE
      /\ info' = [ipAddress |-> "static", gatewayIp |-> "static",
                  dhcpConfigured |-> FALSE]
      /\ at' = "keys" /\ UNCHANGED <<net, starts, dhcpXid, offer, waited>>
  BY DEF UserIfconfig, ConfigureStatic
<1>2. dhcpState' \in 0 .. 4 /\ dhcpState' # 3
  BY <1>1
<1>3. DhcpTypeOK'
  BY <1>1, <1>2 DEF DhcpInv, DhcpTypeOK, Address
<1>4. AcksAnswer' /\ OfferOfThisExchange'
  BY <1>1 DEF DhcpInv, AcksAnswer, OfferOfThisExchange
<1> QED  BY <1>1, <1>2, <1>3, <1>4
         DEF DhcpInv, OfferHasServer, AckMeansConfigured, AddressGranted,
             DoneMeansConfigured,
             GatewayOfThisExchange

\* An OFFER of this exchange replaces the stored offer and nothing else.
LEMMA OfferInv ==
  ASSUME DhcpInv, NEW m \in net, m.type = "offer", m.xid = dhcpXid,
         HandleDhcpResponse(m)
  PROVE  DhcpInv'
<1>1. /\ offer' = [ip |-> m.server, server |-> m.server, router |-> m.router]
      /\ dhcpOfferSeen' = TRUE
      /\ UNCHANGED <<net, starts, at, dhcpState, dhcpXid, dhcpAckSeen, info,
                     waited>>
  BY DEF HandleDhcpResponse
<1>2. m.server \in Servers /\ m.server \in Address /\ m.router \in Address
  BY DEF DhcpInv, DhcpTypeOK, Message, Address
<1>3. DhcpTypeOK'
  BY <1>1, <1>2 DEF DhcpInv, DhcpTypeOK
<1>4. OfferOfThisExchange'
  BY <1>1 DEF OfferOfThisExchange
<1> QED  BY <1>1, <1>2, <1>3, <1>4
         DEF DhcpInv, AcksAnswer, OfferHasServer, AckMeansConfigured, AddressGranted,
             DoneMeansConfigured, GatewayOfThisExchange

\* An ACK of this exchange configures the address that was requested; its
\* gateway comes from it, from the stored offer, or stays.
LEMMA AckInv ==
  ASSUME DhcpInv, NEW m \in net, m.type = "ack", m.xid = dhcpXid,
         HandleDhcpResponse(m)
  PROVE  DhcpInv'
<1>1. /\ info'.ipAddress = m.server /\ info'.dhcpConfigured = TRUE
      /\ info'.gatewayIp = IF m.router # "none" THEN m.router
                           ELSE IF offer.router # "none" THEN offer.router
                           ELSE info.gatewayIp
      /\ info' = [ipAddress |-> info'.ipAddress, gatewayIp |-> info'.gatewayIp,
                  dhcpConfigured |-> TRUE]
      /\ dhcpAckSeen' = TRUE
      /\ UNCHANGED <<net, starts, at, dhcpState, dhcpXid, dhcpOfferSeen, offer,
                     waited>>
  BY DEF HandleDhcpResponse
<1>2. m.server \in Servers /\ m.router \in Address
  BY DEF DhcpInv, DhcpTypeOK, Message, Address
<1>3. DhcpTypeOK'
  <2>1. info'.gatewayIp \in Address /\ info'.ipAddress \in Address
    BY <1>1, <1>2 DEF DhcpInv, DhcpTypeOK, Address
  <2> QED  BY <1>1, <2>1 DEF DhcpInv, DhcpTypeOK
<1>4. AddressGranted'
  BY <1>1 DEF DhcpInv, AcksAnswer, AddressGranted
<1>5. GatewayOfThisExchange'
  BY <1>1 DEF DhcpInv, OfferOfThisExchange, GatewayOfThisExchange
<1>6. AcksAnswer' /\ OfferOfThisExchange'
  BY <1>1 DEF DhcpInv, AcksAnswer, OfferOfThisExchange
<1> QED  BY <1>1, <1>2, <1>3, <1>4, <1>5, <1>6
         DEF DhcpInv, OfferHasServer, AckMeansConfigured, DoneMeansConfigured

\* A step that changes nothing keeps the invariant.
LEMMA StutterInv ==
  ASSUME DhcpInv, UNCHANGED dhcpVars
  PROVE  DhcpInv'
  BY DEF DhcpInv, dhcpVars, clientVars, DhcpTypeOK, AcksAnswer,
         OfferOfThisExchange, OfferHasServer, AckMeansConfigured, AddressGranted,
         DoneMeansConfigured, GatewayOfThisExchange

\* A frame taken from the card is one of these, or is ignored.
LEMMA ReceiveInv ==
  ASSUME DhcpInv, ReceiveFrame
  PROVE  DhcpInv'
<1> PICK m \in net : HandleDhcpResponse(m)
  BY DEF ReceiveFrame
<1>1. CASE m.type = "offer" /\ m.xid = dhcpXid
  BY <1>1, OfferInv
<1>2. CASE m.type = "ack" /\ m.xid = dhcpXid
  BY <1>2, AckInv
<1>3. CASE ~(m.type = "offer" /\ m.xid = dhcpXid) /\ ~(m.type = "ack" /\ m.xid = dhcpXid)
  <2>1. UNCHANGED dhcpVars
    BY <1>3 DEF HandleDhcpResponse
  <2> QED  BY <2>1, StutterInv
<1> QED  BY <1>1, <1>2, <1>3

\* tickDhcp may send the REQUEST, and reports success only after an ACK.
LEMMA TickDecideInv ==
  ASSUME DhcpInv, TickDecide
  PROVE  DhcpInv'
<1>1. /\ at' = "ready"
      /\ UNCHANGED <<starts, dhcpXid, dhcpOfferSeen, dhcpAckSeen, offer, info>>
  BY DEF TickDecide
<1>2. /\ net \subseteq net' /\ net' \subseteq Message
      /\ \A m \in net' : m.type = "ack" => m \in net
  <2>1. CASE net' = net
    BY <2>1 DEF DhcpInv, DhcpTypeOK
  <2>2. CASE net' = net \cup {[type |-> "request", xid |-> dhcpXid,
                               server |-> offer.server]}
             /\ offer.server \in Servers
    <3>1. [type |-> "request", xid |-> dhcpXid, server |-> offer.server] \in Message
      BY <2>2 DEF DhcpInv, DhcpTypeOK, Message
    <3> QED  BY <2>2, <3>1 DEF DhcpInv, DhcpTypeOK
  <2> QED  BY <2>1, <2>2 DEF TickDecide, DhcpInv, OfferHasServer
<1>3. waited' \in {0, waited} /\ dhcpState' \in {1, 2, 3, 4}
      /\ (dhcpState' = 3 => dhcpAckSeen)
  BY DEF TickDecide
<1>4. DhcpTypeOK'
  <2>1. waited' \in 0 .. Timeout /\ dhcpState' \in 0 .. 4
    BY <1>3, BoundAssumption DEF DhcpInv, DhcpTypeOK
  <2> QED  BY <1>1, <1>2, <2>1 DEF DhcpInv, DhcpTypeOK
<1>5. OfferOfThisExchange' /\ AddressGranted' /\ GatewayOfThisExchange'
  BY <1>1, <1>2, NetGrows
<1>6. AcksAnswer'
  BY <1>2 DEF DhcpInv, AcksAnswer
<1> QED  BY <1>1, <1>3, <1>4, <1>5, <1>6
         DEF DhcpInv, OfferHasServer, AckMeansConfigured, DoneMeansConfigured

\* The servers' messages are well formed.
LEMMA MessageTypes ==
  ASSUME NEW x \in Xid, NEW t \in Servers
  PROVE  /\ Reply("offer", x, t) \in Message
         /\ Reply("ack", x, t) \in Message
  BY DEF Message, Reply

\* A server adds an OFFER, or an ACK to a REQUEST that is on the network.
LEMMA ServerInv ==
  ASSUME DhcpInv, ServerOffer \/ ServerAnswer
  PROVE  DhcpInv'
<1>1. UNCHANGED <<starts, at, clientVars>>
  BY DEF ServerOffer, ServerAnswer
<1>2. PICK r : /\ net' = net \cup {r} /\ r \in Message
               /\ r.type = "ack" => [type |-> "request", xid |-> r.xid,
                                     server |-> r.server] \in net
  <2>1. CASE ServerOffer
    <3>1. PICK m \in net, t \in Servers :
            m.type = "discover" /\ net' = net \cup {Reply("offer", m.xid, t)}
      BY <2>1 DEF ServerOffer
    <3>2. m.xid \in Xid
      BY DEF DhcpInv, DhcpTypeOK, Message
    <3>3. Reply("offer", m.xid, t) \in Message
          /\ Reply("offer", m.xid, t).type # "ack"
      BY <3>2, MessageTypes DEF Reply
    <3> QED  BY <3>1, <3>3
  <2>2. CASE ServerAnswer
    <3>1. PICK m \in net :
            m.type = "request" /\ net' = net \cup {Reply("ack", m.xid, m.server)}
      BY <2>2 DEF ServerAnswer
    <3>2. /\ m.xid \in Xid /\ m.server \in Servers
          /\ m = [type |-> "request", xid |-> m.xid, server |-> m.server]
      BY <3>1 DEF DhcpInv, DhcpTypeOK, Message
    <3>3. /\ Reply("ack", m.xid, m.server) \in Message
          /\ Reply("ack", m.xid, m.server).xid = m.xid
          /\ Reply("ack", m.xid, m.server).server = m.server
      BY <3>2, MessageTypes DEF Reply
    <3> QED  BY <3>1, <3>2, <3>3
  <2> QED  BY <2>1, <2>2
<1>3. net \subseteq net'
  BY <1>2
<1>4. DhcpTypeOK'
  BY <1>1, <1>2 DEF DhcpInv, DhcpTypeOK, clientVars
<1>5. OfferOfThisExchange' /\ AddressGranted' /\ GatewayOfThisExchange'
  BY <1>1, <1>3, NetGrows DEF clientVars
<1>6. AcksAnswer'
  BY <1>2, <1>3 DEF DhcpInv, AcksAnswer
<1> QED  BY <1>1, <1>4, <1>5, <1>6
         DEF DhcpInv, OfferHasServer, AckMeansConfigured, DoneMeansConfigured,
             clientVars

\* The turns of the loop and the clock touch nothing the invariant is about.
LEMMA QuietInv ==
  ASSUME DhcpInv,
         TickEnter \/ NetCommandBegin \/ NetCommandEnd \/ NoCommand \/ Timer
  PROVE  DhcpInv'
<1>1. /\ at' \in {"keys", "tick", "ready", "command"}
      /\ UNCHANGED <<net, starts, dhcpState, dhcpXid, dhcpOfferSeen, dhcpAckSeen,
                     offer, info>>
  BY DEF TickEnter, NetCommandBegin, NetCommandEnd, NoCommand, Timer, clientVars,
         DhcpInv, DhcpTypeOK
<1>2. waited' \in 0 .. Timeout
  <2>1. waited' = waited \/ (waited < Timeout /\ waited' = waited + 1)
    BY DEF TickEnter, NetCommandBegin, NetCommandEnd, NoCommand, Timer, clientVars
  <2> QED  BY <2>1, BoundAssumption DEF DhcpInv, DhcpTypeOK
<1>3. DhcpTypeOK'
  BY <1>1, <1>2 DEF DhcpInv, DhcpTypeOK
<1> QED  BY <1>1, <1>3
         DEF DhcpInv, AcksAnswer, OfferOfThisExchange, AckMeansConfigured,
             OfferHasServer,
             AddressGranted, DoneMeansConfigured, GatewayOfThisExchange

\* The invariant of the DHCP client, whatever the network does with its messages.
THEOREM DhcpInvariant == DhcpSpec => []DhcpInv
<1>1. DhcpInv /\ [DhcpNext]_dhcpVars => DhcpInv'
  BY StartInv, StaticInv, ReceiveInv, TickDecideInv, ServerInv, QuietInv,
     StutterInv DEF DhcpNext, Loop
<1> QED  BY <1>1, DhcpInitInv, PTL DEF DhcpSpec

\* Losing, repeating, delaying or reordering messages never makes the client
\* take an address its own REQUEST did not ask for (network.cpp:1257-1305).
THEOREM OnlyGrantedAddresses == DhcpSpec => []AddressGranted
<1>1. DhcpInv => AddressGranted
  BY DEF DhcpInv
<1> QED  BY <1>1, DhcpInvariant, PTL

\* "DHCP configured" is reported only with a leased address in force.
THEOREM DoneIsConfigured == DhcpSpec => []DoneMeansConfigured
<1>1. DhcpInv => DoneMeansConfigured
  BY DEF DhcpInv
<1> QED  BY <1>1, DhcpInvariant, PTL

\* A gateway is never carried over from an earlier exchange.
THEOREM GatewayIsCurrent == DhcpSpec => []GatewayOfThisExchange
<1>1. DhcpInv => GatewayOfThisExchange
  BY DEF DhcpInv
<1> QED  BY <1>1, DhcpInvariant, PTL
-------------------------------------------------------------------------------
(* The terminal's loop *)

\* What was typed so far, as one stream: line i ends with the Enter at place a[i],
\* and the first c keys of the stream have been read.  The queue ks is the rest.
Stream(a, c, ks, en, ty) ==
  /\ a \in [0 .. Len(en) -> Nat] /\ c \in Nat
  /\ \A i \in 1 .. Len(en) : a[i] = a[i - 1] + Len(en[i]) + 1 /\ a[i] <= c + Len(ks)
  /\ c + Len(ks) = a[Len(en)] + Len(ty)
  /\ \A i \in 1 .. Len(en) : a[i] > c => ks[a[i] - c] = Enter
  /\ \A i \in 1 .. Len(en) : \A j \in 1 .. Len(en[i]) :
       a[i - 1] + j > c => ks[a[i - 1] + j - c] = en[i][j]
  /\ \A j \in 1 .. Len(ty) : a[Len(en)] + j > c => ks[a[Len(en)] + j - c] = ty[j]

\* The line behind the first n, and how much of it is read.
LineBehind(en, ty, n) == IF n < Len(en) THEN en[n + 1] ELSE ty
Reads(a, c, en, ty, n, ready, ib) ==
  /\ n <= Len(en)
  /\ ready => n < Len(en) /\ c = a[n + 1] /\ Keeps(ib, en[n + 1], Len(en[n + 1]))
  /\ ~ready => a[n] <= c /\ Keeps(ib, LineBehind(en, ty, n), c - a[n])

Typed == /\ keys \in Seq(Char \cup {Enter}) /\ inputBuffer \in Line /\ commandReady \in BOOLEAN
         /\ Len(inputBuffer) <= MaxLine
         /\ executed \in Seq(Line) /\ entered \in Seq(Line) /\ typing \in Line
Counted == /\ pressed \in Nat /\ starts \in Nat
           /\ Len(entered) <= pressed /\ pressed <= MaxKeys /\ starts <= Len(executed)
ShellInv ==
  /\ Typed /\ Counted /\ LinesInOrder
  /\ \E a, c : /\ Stream(a, c, keys, entered, typing)
               /\ Reads(a, c, entered, typing, Len(executed), commandReady, inputBuffer)

LEMMA TypedOnKeys ==
  ASSUME NEW S, NEW ks \in Seq(S), NEW x \in S
  PROVE  /\ Append(ks, x) \in Seq(S) /\ Len(Append(ks, x)) = Len(ks) + 1 /\ Len(ks) \in Nat
         /\ Append(ks, x)[Len(ks) + 1] = x
         /\ \A i \in 1 .. Len(ks) : Append(ks, x)[i] = ks[i]
  OBVIOUS

\* Places in the queue.
LEMMA PlaceIn ==
  ASSUME NEW x \in Nat, NEW y \in Nat, NEW l \in Nat, NEW c \in Nat, NEW k \in Nat,
         NEW j \in 1 .. l, y = x + l + 1, y <= c + k, x + j > c
  PROVE  x + j - c \in 1 .. k /\ x + j \in Nat /\ x + j <= c + k
OBVIOUS
LEMMA PlaceInLast ==
  ASSUME NEW x \in Nat, NEW l \in Nat, NEW c \in Nat, NEW k \in Nat,
         NEW j \in 1 .. l, c + k = x + l
  PROVE  /\ x + j \in Nat /\ x + j <= c + k
         /\ x + j > c => x + j - c \in 1 .. k
OBVIOUS

LEMMA OneMore ==
  ASSUME NEW x \in Nat, NEW y \in Nat, NEW u \in Nat, NEW v \in Nat, x + y = u + v
  PROVE  x + (y + 1) = u + (v + 1)
OBVIOUS

\* A character goes to the end of the queue and of the line being typed.
LEMMA StreamTyped ==
  ASSUME NEW a, NEW c, NEW ks \in Seq(Char \cup {Enter}), NEW en \in Seq(Line), NEW ty \in Line,
         Stream(a, c, ks, en, ty), NEW ch \in Char
  PROVE  Stream(a, c, Append(ks, ch), en, Append(ty, ch))
<1> DEFINE q == Append(ks, ch)
           t == Append(ty, ch)
           n == Len(en)
<1>1. /\ Len(q) = Len(ks) + 1 /\ Len(ks) \in Nat /\ q[Len(ks) + 1] = ch
      /\ \A i \in 1 .. Len(ks) : q[i] = ks[i]
  BY TypedOnKeys
<1>2. /\ Len(t) = Len(ty) + 1 /\ Len(ty) \in Nat /\ t[Len(ty) + 1] = ch
      /\ \A i \in 1 .. Len(ty) : t[i] = ty[i]
  BY TypedOnKeys DEF Line
<1>3. n \in Nat /\ \A i \in 1 .. n : Len(en[i]) \in Nat
  BY DEF Line
<1>4. /\ a \in [0 .. n -> Nat] /\ c \in Nat
      /\ \A i \in 1 .. n : a[i] = a[i - 1] + Len(en[i]) + 1 /\ a[i] <= c + Len(ks)
      /\ c + Len(ks) = a[n] + Len(ty)
      /\ \A i \in 1 .. n : a[i] > c => ks[a[i] - c] = Enter
      /\ \A i \in 1 .. n : \A j \in 1 .. Len(en[i]) :
           a[i - 1] + j > c => ks[a[i - 1] + j - c] = en[i][j]
      /\ \A j \in 1 .. Len(ty) : a[n] + j > c => ks[a[n] + j - c] = ty[j]
  BY DEF Stream
<1> HIDE DEF q, t, n
<1>5. \A i \in 0 .. n : a[i] \in Nat
  BY <1>4
<1>6. \A i \in 1 .. n : a[i] = a[i - 1] + Len(en[i]) + 1 /\ a[i] <= c + Len(q)
  BY <1>1, <1>3, <1>4, <1>5
<1>7. n \in 0 .. n /\ a[n] \in Nat
  BY <1>3, <1>5
<1>8. c + Len(q) = a[n] + Len(t)
  <2>1. c + (Len(ks) + 1) = a[n] + (Len(ty) + 1)
    <3>1. c \in Nat /\ c + Len(ks) = a[n] + Len(ty)
      BY <1>4
    <3>2. Len(ks) \in Nat /\ Len(ty) \in Nat /\ a[n] \in Nat
      BY <1>1, <1>2, <1>7
    <3> QED BY <3>1, <3>2, OneMore, SMTT(30)
  <2> QED BY <1>1, <1>2, <2>1
<1>9. ASSUME NEW i \in 1 .. n, a[i] > c PROVE q[a[i] - c] = Enter
  <2>1. a[i] \in Nat /\ a[i] <= c + Len(ks)
    BY <1>3, <1>4, <1>5
  <2>2. a[i] - c \in 1 .. Len(ks)
    BY <1>1, <1>4, <1>9, <2>1
  <2> QED BY <1>1, <1>4, <1>9, <2>2
<1>10. ASSUME NEW i \in 1 .. n, NEW j \in 1 .. Len(en[i]), a[i - 1] + j > c
       PROVE  q[a[i - 1] + j - c] = en[i][j]
  <2>1. /\ a[i] = a[i - 1] + Len(en[i]) + 1 /\ a[i] <= c + Len(ks)
        /\ a[i - 1] \in Nat /\ a[i] \in Nat /\ Len(en[i]) \in Nat
    <3>1. i - 1 \in 0 .. n /\ i \in 0 .. n
      BY <1>3
    <3>2. a[i - 1] \in Nat /\ a[i] \in Nat
      BY <1>5, <3>1
    <3>3. Len(en[i]) \in Nat
      BY <1>3
    <3>4. a[i] = a[i - 1] + Len(en[i]) + 1 /\ a[i] <= c + Len(ks)
      BY <1>4, Zenon
    <3> QED BY <3>2, <3>3, <3>4
  <2>2. a[i - 1] + j - c \in 1 .. Len(ks)
    BY <1>1, <1>4, <1>10, <2>1, PlaceIn
  <2> QED BY <1>1, <1>4, <1>10, <2>2
<1>11. ASSUME NEW j \in 1 .. Len(t), a[n] + j > c PROVE q[a[n] + j - c] = t[j]
  <2>1. CASE j = Len(ty) + 1
    <3>1. a[n] + j - c = Len(ks) + 1
      BY <1>1, <1>2, <1>4, <1>7, <2>1
    <3> QED BY <1>1, <1>2, <2>1, <3>1
  <2>2. CASE j \in 1 .. Len(ty)
    <3>1. a[n] + j - c \in 1 .. Len(ks)
      BY <1>1, <1>2, <1>4, <1>7, <1>11, <2>2
    <3> QED BY <1>1, <1>2, <1>4, <1>11, <2>2, <3>1
  <2>3. j \in 1 .. Len(ty) + 1
    BY <1>2
  <2> QED BY <1>2, <2>1, <2>2, <2>3
<1>12. Stream(a, c, q, en, t)
  BY <1>4, <1>6, <1>8, <1>9, <1>10, <1>11 DEF Stream, n
<1> QED BY <1>12 DEF q, t

\* Enter ends the line being typed.
OneMoreLine(a, c, ks, en, ty) ==
  \E b : /\ Stream(b, c, Append(ks, Enter), Append(en, ty), <<>>)
         /\ \A i \in 0 .. Len(en) : b[i] = a[i]
LEMMA StreamEntered ==
  ASSUME NEW a, NEW c, NEW ks \in Seq(Char \cup {Enter}), NEW en \in Seq(Line), NEW ty \in Line,
         Stream(a, c, ks, en, ty)
  PROVE  OneMoreLine(a, c, ks, en, ty)
<1> DEFINE q == Append(ks, Enter)
           e == Append(en, ty)
           n == Len(en)
           b == [i \in 0 .. n + 1 |-> IF i = n + 1 THEN a[n] + Len(ty) + 1 ELSE a[i]]
<1>1. /\ Len(q) = Len(ks) + 1 /\ Len(ks) \in Nat /\ q[Len(ks) + 1] = Enter
      /\ \A i \in 1 .. Len(ks) : q[i] = ks[i]
  BY TypedOnKeys
<1>2. /\ Len(e) = n + 1 /\ n \in Nat /\ e[n + 1] = ty /\ \A i \in 1 .. n : e[i] = en[i]
  BY TypedOnKeys
<1>3. Len(ty) \in Nat /\ \A i \in 1 .. n : Len(en[i]) \in Nat
  BY DEF Line
<1>4. /\ a \in [0 .. n -> Nat] /\ c \in Nat
      /\ \A i \in 1 .. n : a[i] = a[i - 1] + Len(en[i]) + 1 /\ a[i] <= c + Len(ks)
      /\ c + Len(ks) = a[n] + Len(ty)
      /\ \A i \in 1 .. n : a[i] > c => ks[a[i] - c] = Enter
      /\ \A i \in 1 .. n : \A j \in 1 .. Len(en[i]) :
           a[i - 1] + j > c => ks[a[i - 1] + j - c] = en[i][j]
      /\ \A j \in 1 .. Len(ty) : a[n] + j > c => ks[a[n] + j - c] = ty[j]
  BY DEF Stream
<1> HIDE DEF q, e, n
<1>5. \A i \in 0 .. n : a[i] \in Nat
  BY <1>4
<1>6. n \in 0 .. n /\ a[n] \in Nat /\ n + 1 \in 0 .. n + 1
  BY <1>2, <1>5
<1>7. b \in [0 .. n + 1 -> Nat]
  <2>1. \A i \in 0 .. n + 1 : i # n + 1 => i \in 0 .. n
    BY <1>2
  <2>2. a[n] + Len(ty) + 1 \in Nat
    BY <1>3, <1>6
  <2> QED BY <1>5, <2>1, <2>2
<1>8. b[n + 1] = a[n] + Len(ty) + 1
  BY <1>6
<1>9. \A i \in 0 .. n : b[i] = a[i]
  <2>1. \A i \in 0 .. n : i \in 0 .. n + 1 /\ i # n + 1
    BY <1>2
  <2> QED BY <2>1
<1> HIDE DEF b
<1>10. \A i \in 1 .. n + 1 : i \in 1 .. n \/ i = n + 1
  BY <1>2
<1>11. n + 1 - 1 = n /\ \A i \in 1 .. n : i - 1 \in 0 .. n /\ i \in 0 .. n
  BY <1>2
<1>12. ASSUME NEW i \in 1 .. n + 1
       PROVE  b[i] = b[i - 1] + Len(e[i]) + 1 /\ b[i] <= c + Len(q)
  <2>1. CASE i = n + 1
    <3>1. b[i - 1] = a[n] /\ e[i] = ty /\ b[i] = a[n] + Len(ty) + 1
      BY <1>2, <1>6, <1>8, <1>9, <1>11, <2>1
    <3> QED BY <1>1, <1>3, <1>4, <1>6, <3>1
  <2>2. CASE i \in 1 .. n
    <3>1. b[i - 1] = a[i - 1] /\ e[i] = en[i] /\ b[i] = a[i]
      BY <1>2, <1>9, <1>11, <2>2
    <3>2. a[i] = a[i - 1] + Len(en[i]) + 1 /\ a[i] <= c + Len(ks) /\ a[i] \in Nat
      BY <1>4, <1>5, <1>11, <2>2
    <3>3. a[i] <= c + Len(q)
      BY <1>1, <1>4, <3>2
    <3> QED BY <3>1, <3>2, <3>3
  <2> QED BY <1>10, <2>1, <2>2
<1>13. c + Len(q) = b[n + 1] + 0
  BY <1>1, <1>3, <1>4, <1>6, <1>8
<1>14. ASSUME NEW i \in 1 .. n + 1, b[i] > c PROVE q[b[i] - c] = Enter
  <2>1. CASE i = n + 1
    <3>1. b[i] - c = Len(ks) + 1
      BY <1>1, <1>3, <1>4, <1>6, <1>8, <2>1
    <3> QED BY <1>1, <3>1
  <2>2. CASE i \in 1 .. n
    <3>1. b[i] = a[i] /\ a[i] \in Nat /\ a[i] <= c + Len(ks) /\ a[i] > c
      BY <1>4, <1>5, <1>9, <1>11, <1>14, <2>2
    <3>2. a[i] - c \in 1 .. Len(ks)
      BY <1>1, <1>4, <3>1
    <3> QED BY <1>1, <1>4, <2>2, <3>1, <3>2
  <2> QED BY <1>10, <2>1, <2>2
<1>15. ASSUME NEW i \in 1 .. n + 1, NEW j \in 1 .. Len(e[i]), b[i - 1] + j > c
       PROVE  q[b[i - 1] + j - c] = e[i][j]
  <2>1. CASE i = n + 1
    <3>1. b[i - 1] = a[n] /\ e[i] = ty
      BY <1>2, <1>6, <1>9, <1>11, <2>1
    <3>2. a[n] + j > c /\ j \in 1 .. Len(ty)
      BY <1>15, <3>1
    <3>3. a[n] + j - c \in 1 .. Len(ks)
      BY <1>1, <1>3, <1>4, <1>6, <3>2, SMTT(30)
    <3>4. ks[a[n] + j - c] = ty[j] /\ q[a[n] + j - c] = ks[a[n] + j - c]
      BY <1>1, <1>4, <3>2, <3>3
    <3> QED BY <3>1, <3>4
  <2>2. CASE i \in 1 .. n
    <3>1. b[i - 1] = a[i - 1] /\ e[i] = en[i] /\ a[i - 1] \in Nat /\ a[i] \in Nat
      BY <1>2, <1>5, <1>9, <1>11, <2>2
    <3>2. a[i - 1] + j > c /\ j \in 1 .. Len(en[i])
      BY <1>15, <3>1
    <3>3. a[i] = a[i - 1] + Len(en[i]) + 1 /\ a[i] <= c + Len(ks) /\ Len(en[i]) \in Nat
      BY <1>3, <1>4, <2>2
    <3>4. a[i - 1] + j - c \in 1 .. Len(ks)
      BY <1>1, <1>4, <3>1, <3>2, <3>3, PlaceIn
    <3> QED BY <1>1, <1>4, <2>2, <3>1, <3>2, <3>4
  <2> QED BY <1>10, <2>1, <2>2
<1>16. Len(<<>>) = 0 /\ 1 .. 0 = {}
  OBVIOUS
<1>17. Stream(b, c, q, e, <<>>)
  BY <1>2, <1>4, <1>7, <1>12, <1>13, <1>14, <1>15, <1>16, SMTT(30) DEF Stream
<1> QED BY <1>9, <1>17 DEF OneMoreLine, q, e, n

LEMMA OnePlaceUp ==
  ASSUME NEW q, NEW ks, NEW c \in Nat, NEW n \in Nat, \A i \in 1 .. n - 1 : q[i] = ks[i + 1],
         NEW d, d = c + 1, NEW x \in Nat, NEW j \in Nat, x + j > d, x + j <= c + n
  PROVE  x + j > c /\ q[x + j - d] = ks[x + j - c]
<1>1. x + j - d \in 1 .. n - 1 /\ x + j - d + 1 = x + j - c /\ x + j > c
  OBVIOUS
<1>2. q[x + j - d] = ks[x + j - d + 1]
  BY <1>1
<1> QED BY <1>1, <1>2

\* Reading takes the first key of the queue, and it is the one the line has next:
\* a character of its own, or its Enter.
LEMMA StreamRead ==
  ASSUME NEW a, NEW c, NEW ks \in Seq(Char \cup {Enter}), NEW en \in Seq(Line), NEW ty \in Line,
         Stream(a, c, ks, en, ty), ks # <<>>
  PROVE  Stream(a, c + 1, Tail(ks), en, ty)
<1> DEFINE q == Tail(ks)
           n == Len(en)
           d == c + 1
<1>1. Len(ks) \in Nat /\ Len(ks) # 0 /\ Len(q) = Len(ks) - 1
      /\ \A i \in 1 .. Len(ks) - 1 : q[i] = ks[i + 1]
  OBVIOUS
<1>2. n \in Nat /\ Len(ty) \in Nat /\ \A i \in 1 .. n : Len(en[i]) \in Nat
  BY DEF Line
<1>4. /\ a \in [0 .. n -> Nat] /\ c \in Nat
      /\ \A i \in 1 .. n : a[i] = a[i - 1] + Len(en[i]) + 1 /\ a[i] <= c + Len(ks)
      /\ c + Len(ks) = a[n] + Len(ty)
      /\ \A i \in 1 .. n : a[i] > c => ks[a[i] - c] = Enter
      /\ \A i \in 1 .. n : \A j \in 1 .. Len(en[i]) :
           a[i - 1] + j > c => ks[a[i - 1] + j - c] = en[i][j]
      /\ \A j \in 1 .. Len(ty) : a[n] + j > c => ks[a[n] + j - c] = ty[j]
  BY DEF Stream
<1>0. d = c + 1 /\ d \in Nat
  BY <1>4
<1> HIDE DEF q, n, d
<1>5. \A i \in 0 .. n : a[i] \in Nat
  BY <1>4
<1>6. d + Len(q) = c + Len(ks)
  BY <1>0, <1>1, <1>4
<1>7. n \in 0 .. n /\ a[n] \in Nat
  BY <1>2, <1>5
<1>8. ASSUME NEW p \in Nat, p > d, p <= c + Len(ks) PROVE q[p - d] = ks[p - c] /\ p > c
  <2>1. p - d \in 1 .. Len(ks) - 1 /\ p - d + 1 = p - c /\ p > c
    BY <1>0, <1>1, <1>4, <1>8
  <2> QED BY <1>1, <2>1
<1>9. ASSUME NEW i \in 1 .. n, a[i] > d PROVE q[a[i] - d] = Enter
  <2>1. a[i] \in Nat /\ a[i] <= c + Len(ks)
    BY <1>2, <1>4, <1>5
  <2> QED BY <1>4, <1>8, <1>9, <2>1
<1>10. ASSUME NEW i \in 1 .. n, NEW j \in 1 .. Len(en[i]), a[i - 1] + j > d
       PROVE  q[a[i - 1] + j - d] = en[i][j]
  <2>1. /\ a[i] = a[i - 1] + Len(en[i]) + 1 /\ a[i] <= c + Len(ks)
        /\ a[i - 1] \in Nat /\ a[i] \in Nat /\ Len(en[i]) \in Nat
    <3>1. i - 1 \in 0 .. n /\ i \in 0 .. n
      BY <1>2
    <3>2. a[i - 1] \in Nat /\ a[i] \in Nat
      BY <1>5, <3>1
    <3>3. Len(en[i]) \in Nat
      BY <1>2
    <3>4. a[i] = a[i - 1] + Len(en[i]) + 1 /\ a[i] <= c + Len(ks)
      BY <1>4, Zenon
    <3> QED BY <3>2, <3>3, <3>4
  <2>2. a[i - 1] + j <= c + Len(ks)
    <3>1. a[i - 1] + j > c
      BY <1>0, <1>4, <1>10, <2>1
    <3> QED BY <1>1, <1>4, <2>1, <3>1, PlaceIn
  <2>3. j \in Nat
    BY <2>1
  <2>4. a[i - 1] + j > c /\ q[a[i - 1] + j - d] = ks[a[i - 1] + j - c]
    <3>1. PICK x : x = a[i - 1]
      OBVIOUS
    <3>2. c \in Nat /\ x \in Nat
      BY <1>4, <2>1, <3>1
    <3>3. x + j > d /\ x + j <= c + Len(ks)
      BY <1>10, <2>2, <3>1
    <3>4. x + j > c /\ q[x + j - d] = ks[x + j - c]
      BY <1>0, <1>1, <2>3, <3>2, <3>3, OnePlaceUp, SMTT(30)
    <3> QED BY <3>1, <3>4
  <2> QED BY <1>4, <2>4
<1>11. ASSUME NEW j \in 1 .. Len(ty), a[n] + j > d PROVE q[a[n] + j - d] = ty[j]
  <2>1. a[n] + j <= c + Len(ks) /\ j \in Nat
    BY <1>1, <1>2, <1>4, <1>7, PlaceInLast
  <2>2. a[n] + j > c /\ q[a[n] + j - d] = ks[a[n] + j - c]
    <3>1. PICK x : x = a[n]
      OBVIOUS
    <3>2. c \in Nat /\ x \in Nat /\ x + j > d /\ x + j <= c + Len(ks)
      BY <1>4, <1>7, <1>11, <2>1, <3>1
    <3>3. PICK l \in Nat : l = Len(ks) /\ \A i \in 1 .. l - 1 : q[i] = ks[i + 1]
      BY <1>1
    <3>4. x + j <= c + l
      BY <3>2, <3>3
    <3>5. x + j > c /\ q[x + j - d] = ks[x + j - c]
      BY <1>0, <2>1, <3>2, <3>3, <3>4, OnePlaceUp, SMTT(30)
    <3> QED BY <3>1, <3>5
  <2> QED BY <1>4, <2>2
<1>12. Stream(a, d, q, en, ty)
  BY <1>0, <1>4, <1>6, <1>9, <1>10, <1>11 DEF Stream, n
<1> QED BY <1>12 DEF q, d

LEMMA NextKey ==
  ASSUME NEW a, NEW c, NEW ks \in Seq(Char \cup {Enter}), NEW en \in Seq(Line), NEW ty \in Line,
         Stream(a, c, ks, en, ty), ks # <<>>, NEW n \in 0 .. Len(en), a[n] <= c,
         c - a[n] <= Len(LineBehind(en, ty, n))
  PROVE  \/ /\ c - a[n] + 1 <= Len(LineBehind(en, ty, n)) /\ Head(ks) \in Char
            /\ Head(ks) = LineBehind(en, ty, n)[c - a[n] + 1]
         \/ /\ c - a[n] = Len(LineBehind(en, ty, n)) /\ Head(ks) = Enter
            /\ n < Len(en) /\ a[n + 1] = c + 1
<1> DEFINE l == LineBehind(en, ty, n)
           k == c - a[n]
           m == Len(en)
<1>1. Len(ks) \in Nat /\ Len(ks) # 0 /\ Head(ks) = ks[1]
  OBVIOUS
<1>2. m \in Nat /\ ty \in Seq(Char) /\ \A i \in 1 .. m : en[i] \in Seq(Char)
  BY DEF Line
<1>3. /\ a \in [0 .. m -> Nat] /\ c \in Nat
      /\ \A i \in 1 .. m : a[i] = a[i - 1] + Len(en[i]) + 1 /\ a[i] <= c + Len(ks)
      /\ c + Len(ks) = a[m] + Len(ty)
      /\ \A i \in 1 .. m : a[i] > c => ks[a[i] - c] = Enter
      /\ \A i \in 1 .. m : \A j \in 1 .. Len(en[i]) :
           a[i - 1] + j > c => ks[a[i - 1] + j - c] = en[i][j]
      /\ \A j \in 1 .. Len(ty) : a[m] + j > c => ks[a[m] + j - c] = ty[j]
  BY DEF Stream
<1>4. n \in 0 .. m /\ n \in Nat /\ a[n] \in Nat
  <2>1. n \in 0 .. m
    OBVIOUS
  <2> HIDE DEF m
  <2> QED BY <1>2, <1>3, <2>1
<1>5. CASE n < m
  <2>1. l = en[n + 1]
    BY <1>5 DEF LineBehind
  <2>2. n + 1 \in 1 .. m /\ n + 1 - 1 = n
    BY <1>2, <1>4, <1>5
  <2>3. l \in Seq(Char)
    BY <1>2, <2>1, <2>2
  <2>4. Len(l) \in Nat /\ \A j \in 1 .. Len(l) : l[j] \in Char
    BY <2>3
  <2>5. /\ a[n + 1] = a[n] + Len(l) + 1
        /\ a[n + 1] > c => ks[a[n + 1] - c] = Enter
        /\ \A j \in 1 .. Len(l) : a[n] + j > c => ks[a[n] + j - c] = l[j]
    BY <1>3, <2>1, <2>2
  <2> HIDE DEF l, m
  <2>6. CASE k = Len(l)
    <3>1. a[n + 1] = c + 1 /\ a[n + 1] - c = 1 /\ a[n + 1] > c
      BY <1>3, <1>4, <2>4, <2>5, <2>6
    <3> QED BY <1>1, <1>5, <2>5, <2>6, <3>1 DEF l, m
  <2>7. CASE k < Len(l)
    <3>1. /\ k + 1 \in 1 .. Len(l) /\ a[n] + (k + 1) > c /\ a[n] + (k + 1) - c = 1
          /\ k + 1 <= Len(l)
      BY <1>3, <1>4, <2>4, <2>7
    <3>2. ks[1] = l[k + 1] /\ l[k + 1] \in Char
      BY <2>4, <2>5, <3>1
    <3> QED BY <1>1, <3>1, <3>2 DEF l
  <2>8. k \in Int /\ k <= Len(l)
    BY <1>3, <1>4 DEF l
  <2> QED BY <2>4, <2>6, <2>7, <2>8
<1>6. CASE ~(n < m)
  <2>1. n = m
    BY <1>2, <1>4, <1>6
  <2>2. l = ty
    BY <1>6 DEF LineBehind
  <2>4. Len(ty) \in Nat /\ \A j \in 1 .. Len(ty) : ty[j] \in Char
    BY <1>2
  <2> HIDE DEF m
  <2>5. /\ k + 1 \in 1 .. Len(ty) /\ a[n] + (k + 1) > c /\ a[n] + (k + 1) - c = 1
        /\ k + 1 <= Len(ty)
    BY <1>1, <1>3, <1>4, <2>1, <2>4
  <2>6. ks[1] = ty[k + 1] /\ ty[k + 1] \in Char
    BY <1>3, <2>1, <2>4, <2>5
  <2> QED BY <1>1, <2>2, <2>5, <2>6
<1> QED BY <1>5, <1>6

\* A line that grows still has what is in the buffer, up to the place read.
LEMMA KeepsLonger ==
  ASSUME NEW ib \in Line, NEW l \in Line, NEW ch \in Char, NEW k \in Int, Keeps(ib, l, k)
  PROVE  Keeps(ib, Append(l, ch), k)
<1> DEFINE t == Append(l, ch)
<1>1. /\ Len(t) = Len(l) + 1 /\ Len(l) \in Nat /\ \A i \in 1 .. Len(l) : t[i] = l[i]
  BY TypedOnKeys DEF Line
<1>2. Len(ib) \in Nat /\ k <= Len(l)
  BY DEF Keeps, Line
<1>3. PICK i \in 0 .. Len(l) : /\ i + Len(ib) = k \/ (i + Len(ib) < k /\ Len(ib) = MaxLine)
                               /\ \A j \in 1 .. Len(ib) : ib[j] = l[i + j]
  BY DEF Keeps
<1> HIDE DEF t
<1>4. k <= Len(t) /\ i \in 0 .. Len(t) /\ \A j \in 1 .. Len(ib) : i + j \in 1 .. Len(l)
  BY <1>1, <1>2, <1>3
<1>5. \A j \in 1 .. Len(ib) : ib[j] = t[i + j]
  BY <1>1, <1>3, <1>4
<1>6. Keeps(ib, t, k)
  BY <1>3, <1>4, <1>5 DEF Keeps
<1> QED BY <1>6 DEF t

\* An emptied buffer keeps nothing of what came so far.
LEMMA KeepsNothing ==
  ASSUME NEW l \in Line, NEW k \in Nat, k <= Len(l)
  PROVE  Keeps(<<>>, l, k)
<1>1. Len(<<>>) = 0 /\ 1 .. 0 = {} /\ Len(l) \in Nat
  BY DEF Line
<1>2. k \in 0 .. Len(l) /\ k + 0 = k
  BY <1>1
<1> QED BY <1>1, <1>2 DEF Keeps

\* The next character of the line is read: it is put into the buffer, or the buffer
\* is full.
LEMMA KeepsNext ==
  ASSUME NEW ib \in Line, NEW l \in Line, NEW k \in Int, Keeps(ib, l, k), k + 1 <= Len(l),
         NEW ch \in Char, ch = l[k + 1], Len(ib) <= MaxLine
  PROVE  Keeps(Longer(ib, ch), l, k + 1) /\ Longer(ib, ch) \in Line
         /\ Len(Longer(ib, ch)) <= MaxLine
<1>1. Len(ib) \in Nat /\ Len(l) \in Nat /\ MaxLine \in Nat /\ k <= Len(l)
  BY LimitsAssumption DEF Line, Keeps
<1>2. PICK i \in 0 .. Len(l) : /\ i + Len(ib) = k \/ (i + Len(ib) < k /\ Len(ib) = MaxLine)
                               /\ \A j \in 1 .. Len(ib) : ib[j] = l[i + j]
  BY DEF Keeps
<1>3. CASE Len(ib) < MaxLine
  <2> DEFINE t == Append(ib, ch)
  <2>1. /\ Len(t) = Len(ib) + 1 /\ t[Len(ib) + 1] = ch
        /\ \A j \in 1 .. Len(ib) : t[j] = ib[j]
        /\ t \in Line
    BY TypedOnKeys DEF Line
  <2>2. Longer(ib, ch) = t
    BY <1>3 DEF Longer
  <2> HIDE DEF t
  <2>3. i + Len(ib) = k /\ i + Len(t) = k + 1 /\ Len(t) <= MaxLine
    BY <1>1, <1>2, <1>3, <2>1
  <2>4. ASSUME NEW j \in 1 .. Len(t) PROVE t[j] = l[i + j]
    <3>1. j \in 1 .. Len(ib) \/ (j = Len(ib) + 1 /\ i + j = k + 1)
      BY <1>1, <1>2, <2>1, <2>3
    <3> QED BY <1>2, <2>1, <3>1
  <2> QED BY <1>2, <2>1, <2>2, <2>3, <2>4 DEF Keeps
<1>4. CASE ~(Len(ib) < MaxLine)
  <2>1. Longer(ib, ch) = ib /\ Len(ib) = MaxLine
    BY <1>1, <1>4 DEF Longer
  <2>2. i + Len(ib) < k + 1
    BY <1>1, <1>2
  <2> QED BY <1>2, <2>1, <2>2 DEF Keeps
<1> QED BY <1>3, <1>4

LEMMA LineBehindIs ==
  ASSUME NEW en \in Seq(Line), NEW ty \in Line, NEW n \in Nat
  PROVE  LineBehind(en, ty, n) \in Line
<1>1. n < Len(en) => n + 1 \in 1 .. Len(en)
  OBVIOUS
<1> QED BY <1>1 DEF LineBehind

-------------------------------------------------------------------------------
LEMMA EmptyTyped ==
  <<>> \in Seq(Char \cup {Enter}) /\ <<>> \in Line /\ <<>> \in Seq(Line)
BY DEF Line

LEMMA ShellInitInv == ShellInit => ShellInv
<1> SUFFICES ASSUME ShellInit PROVE ShellInv
  OBVIOUS
<1>1. /\ keys = <<>> /\ inputBuffer = <<>> /\ executed = <<>> /\ entered = <<>> /\ typing = <<>>
      /\ commandReady = FALSE /\ pressed = 0 /\ starts = 0
  BY DEF ShellInit, DhcpInit
<1>2. Len(<<>>) = 0 /\ 1 .. 0 = {} /\ 0 .. 0 = {0} /\ DOMAIN <<>> = {}
  OBVIOUS
<1>3. Typed
  <2>1. commandReady \in BOOLEAN
    BY <1>1
  <2>2. Len(<<>>) <= MaxLine
    BY LimitsAssumption
  <2> QED BY <1>1, <2>1, <2>2, EmptyTyped DEF Typed
<1>4. Counted
  BY <1>1, <1>2, MaxKeysAssumption DEF Counted
<1>5. LinesInOrder
  BY <1>1, <1>2 DEF LinesInOrder
<1> DEFINE a == [i \in 0 .. 0 |-> 0]
<1>6. a \in [0 .. 0 -> Nat] /\ a[0] = 0
  BY <1>2
<1> HIDE DEF a
<1>7. Stream(a, 0, <<>>, <<>>, <<>>)
  BY <1>2, <1>6 DEF Stream
<1>8. 0 - 0 = 0 /\ ~(0 < 0) /\ 0 <= 0
  OBVIOUS
<1>9. Reads(a, 0, <<>>, <<>>, 0, commandReady, <<>>)
  <2>1. Keeps(<<>>, <<>>, 0)
    BY <1>2, EmptyTyped, KeepsNothing
  <2> QED BY <1>1, <1>2, <1>6, <1>8, <2>1 DEF Reads, LineBehind
<1> QED BY <1>1, <1>2, <1>3, <1>4, <1>5, <1>7, <1>9 DEF ShellInv

LEMMA TypeKeyInv ==
  ASSUME ShellInv, TypeKey
  PROVE  ShellInv'
<1>1. PICK a, c : /\ Stream(a, c, keys, entered, typing)
                  /\ Reads(a, c, entered, typing, Len(executed), commandReady, inputBuffer)
  BY DEF ShellInv
<1>2. UNCHANGED <<inputBuffer, commandReady, executed, starts>>
  BY DEF TypeKey, dhcpVars
<1>3. Typed
  BY DEF ShellInv
<1>4. /\ pressed \in Nat /\ starts \in Nat /\ Len(entered) <= pressed /\ pressed <= MaxKeys
      /\ starts <= Len(executed) /\ MaxKeys \in Nat /\ pressed < MaxKeys /\ pressed' = pressed + 1
      /\ Len(entered) \in Nat /\ Len(executed) \in Nat
  BY <1>3, MaxKeysAssumption DEF ShellInv, Counted, Typed, TypeKey
<1>5. pressed' \in Nat /\ pressed' <= MaxKeys
      /\ (Len(entered') <= Len(entered) + 1 /\ Len(entered') \in Nat => Len(entered') <= pressed')
  BY <1>4
<1>6. CASE /\ \E ch \in Char : keys' = Append(keys, ch) /\ typing' = Append(typing, ch)
           /\ UNCHANGED entered
  <2>1. PICK ch \in Char : /\ keys' = Append(keys, ch) /\ typing' = Append(typing, ch)
                           /\ entered' = entered
    BY <1>6
  <2>2. Typed'
    <3>1. keys' \in Seq(Char \cup {Enter}) /\ typing' \in Seq(Char)
      BY <1>3, <2>1 DEF Typed, Line
    <3> QED BY <1>2, <1>3, <2>1, <3>1 DEF Typed, Line
  <2>3. Counted'
    BY <1>2, <1>4, <1>5, <2>1 DEF Counted
  <2>4. LinesInOrder'
    BY <1>2, <2>1 DEF ShellInv, LinesInOrder
  <2>5. Stream(a, c, keys', entered', typing')
    BY <1>1, <1>3, <2>1, StreamTyped DEF Typed
  <2>6. Reads(a, c, entered', typing', Len(executed'), commandReady', inputBuffer')
    <3>1. ASSUME ~commandReady
          PROVE  a[Len(executed)] <= c
                 /\ Keeps(inputBuffer, LineBehind(entered, typing', Len(executed)),
                           c - a[Len(executed)])
      <4>1. /\ a[Len(executed)] <= c /\ Len(executed) <= Len(entered)
            /\ Keeps(inputBuffer, LineBehind(entered, typing, Len(executed)),
                      c - a[Len(executed)])
        BY <1>1, <3>1 DEF Reads
      <4>2. CASE Len(executed) < Len(entered)
        BY <4>1, <4>2 DEF LineBehind
      <4>3. CASE ~(Len(executed) < Len(entered))
        <5>1. c - a[Len(executed)] \in Int
          <6>1. Len(executed) \in 0 .. Len(entered)
            BY <1>4, <4>1
          <6> QED BY <1>1, <6>1 DEF Stream
        <5>2. Keeps(inputBuffer, typing, c - a[Len(executed)])
          BY <4>1, <4>3 DEF LineBehind
        <5>3. Keeps(inputBuffer, typing', c - a[Len(executed)])
          BY <1>3, <2>1, <5>1, <5>2, KeepsLonger DEF Typed
        <5> QED BY <4>1, <4>3, <5>3 DEF LineBehind
      <4> QED BY <4>2, <4>3
    <3>2. Len(executed) <= Len(entered)
      BY <1>1 DEF Reads
    <3>3. commandReady => /\ Len(executed) < Len(entered) /\ c = a[Len(executed) + 1]
                          /\ Keeps(inputBuffer, entered[Len(executed) + 1],
                                   Len(entered[Len(executed) + 1]))
      BY <1>1 DEF Reads
    <3> QED BY <1>2, <2>1, <3>1, <3>2, <3>3 DEF Reads
  <2> QED BY <2>2, <2>3, <2>4, <2>5, <2>6 DEF ShellInv
<1>7. CASE /\ keys' = Append(keys, Enter) /\ entered' = Append(entered, typing) /\ typing' = <<>>
  <2> DEFINE n == Len(executed)
  <2>1. /\ Len(entered') = Len(entered) + 1 /\ entered'[Len(entered) + 1] = typing
        /\ \A i \in 1 .. Len(entered) : entered'[i] = entered[i]
    BY <1>3, <1>7, TypedOnKeys DEF Typed
  <2>2. Typed'
    <3>1. keys' \in Seq(Char \cup {Enter}) /\ typing' \in Seq(Char) /\ entered' \in Seq(Line)
      BY <1>3, <1>7 DEF Typed, Line
    <3> QED BY <1>2, <1>3, <3>1 DEF Typed, Line
  <2>3. Counted'
    <3>1. Len(entered') \in Nat /\ Len(entered') <= Len(entered) + 1
      BY <1>4, <2>1
    <3> QED BY <1>2, <1>4, <1>5, <3>1 DEF Counted
  <2>4. n <= Len(entered) /\ n \in Nat
    BY <1>1, <1>4 DEF Reads
  <2>5. LinesInOrder'
    <3>1. \A i \in 1 .. n : i \in 1 .. Len(entered)
      BY <1>4, <2>4
    <3>2. n <= Len(entered')
      BY <1>4, <2>1, <2>4
    <3> QED BY <1>2, <2>1, <3>1, <3>2 DEF ShellInv, LinesInOrder
  <2>6. PICK b : /\ Stream(b, c, keys', entered', typing')
                 /\ \A i \in 0 .. Len(entered) : b[i] = a[i]
    <3>1. keys \in Seq(Char \cup {Enter}) /\ entered \in Seq(Line) /\ typing \in Line
      BY <1>3 DEF Typed
    <3>2. OneMoreLine(a, c, keys, entered, typing)
      BY <1>1, <3>1, StreamEntered
    <3> QED BY <1>7, <3>2 DEF OneMoreLine
  <2>7. Reads(b, c, entered', typing', n, commandReady, inputBuffer)
    <3>1. n \in 0 .. Len(entered) /\ b[n] = a[n] /\ n <= Len(entered') /\ n < Len(entered')
      BY <1>4, <2>1, <2>4, <2>6
    <3>2. ASSUME commandReady
          PROVE  c = b[n + 1] /\ Keeps(inputBuffer, entered'[n + 1], Len(entered'[n + 1]))
      <4>1. n < Len(entered) /\ c = a[n + 1] /\ Keeps(inputBuffer, entered[n + 1], Len(entered[n + 1]))
        BY <1>1, <3>2 DEF Reads
      <4>2. n + 1 \in 1 .. Len(entered) /\ n + 1 \in 0 .. Len(entered)
        BY <1>4, <2>4, <4>1
      <4> QED BY <2>1, <2>6, <4>1, <4>2
    <3>3. LineBehind(entered', typing', n) = LineBehind(entered, typing, n)
      <4>1. CASE n < Len(entered)
        <5>1. n + 1 \in 1 .. Len(entered)
          BY <1>4, <2>4, <4>1
        <5> QED BY <2>1, <3>1, <4>1, <5>1 DEF LineBehind
      <4>2. CASE ~(n < Len(entered))
        <5>1. n = Len(entered)
          BY <1>4, <2>4, <4>2
        <5> QED BY <2>1, <3>1, <4>2, <5>1 DEF LineBehind
      <4> QED BY <4>1, <4>2
    <3>4. ~commandReady => a[n] <= c /\ Keeps(inputBuffer, LineBehind(entered, typing, n), c - a[n])
      BY <1>1 DEF Reads
    <3> HIDE DEF n
    <3> QED BY <3>1, <3>2, <3>3, <3>4 DEF Reads
  <2> QED BY <1>2, <2>2, <2>3, <2>5, <2>6, <2>7 DEF ShellInv
<1>8. CASE UNCHANGED <<keys, entered, typing>>
  <2>1. Typed'
    BY <1>2, <1>3, <1>8 DEF Typed
  <2>2. Counted'
    BY <1>2, <1>4, <1>5, <1>8 DEF Counted
  <2>3. LinesInOrder'
    BY <1>2, <1>8 DEF ShellInv, LinesInOrder
  <2>4. /\ Stream(a, c, keys', entered', typing')
        /\ Reads(a, c, entered', typing', Len(executed'), commandReady', inputBuffer')
    BY <1>1, <1>2, <1>8
  <2> QED BY <2>1, <2>2, <2>3, <2>4 DEF ShellInv
<1> QED BY <1>6, <1>7, <1>8 DEF TypeKey

LEMMA ReadsOn ==
  ASSUME NEW a, NEW c, NEW en, NEW ty, NEW n, NEW ready, NEW ib, ~ready, n <= Len(en), a[n] <= c,
         Keeps(ib, LineBehind(en, ty, n), c - a[n])
  PROVE  Reads(a, c, en, ty, n, ready, ib)
  BY DEF Reads

LEMMA HandleKeyInv ==
  ASSUME ShellInv, HandleKey
  PROVE  ShellInv'
<1> DEFINE n == Len(executed)
           l == LineBehind(entered, typing, n)
<1>1. PICK a, c : /\ Stream(a, c, keys, entered, typing)
                  /\ Reads(a, c, entered, typing, n, commandReady, inputBuffer)
  BY DEF ShellInv
<1>2. /\ ~commandReady /\ keys # <<>> /\ keys' = Tail(keys)
      /\ UNCHANGED <<executed, starts, entered, typing, pressed>>
  BY DEF HandleKey, dhcpVars
<1>3. Typed
  BY DEF ShellInv
<1>4. n \in Nat /\ n <= Len(entered) /\ a[n] <= c /\ Keeps(inputBuffer, l, c - a[n])
  BY <1>1, <1>2, <1>3 DEF Reads, Typed
<1>5. n \in 0 .. Len(entered)
  <2>1. Len(entered) \in Nat
    BY <1>3 DEF Typed
  <2> HIDE DEF n
  <2> QED BY <1>4, <2>1
<1>6. c \in Nat /\ a[n] \in Nat
  <2> HIDE DEF n
  <2> QED BY <1>1, <1>5 DEF Stream
<1>7. l \in Line
  BY <1>3, <1>4, LineBehindIs DEF Typed
<1>8. /\ Stream(a, c + 1, keys', entered', typing')
      /\ keys' \in Seq(Char \cup {Enter}) /\ Head(keys) \in Char \cup {Enter}
  BY <1>1, <1>2, <1>3, StreamRead DEF Typed
<1>9. \/ c - a[n] + 1 <= Len(l) /\ Head(keys) \in Char /\ Head(keys) = l[c - a[n] + 1]
      \/ c - a[n] = Len(l) /\ Head(keys) = Enter /\ n < Len(entered) /\ a[n + 1] = c + 1
  <2>1. c - a[n] <= Len(l)
    BY <1>4 DEF Keeps
  <2>2. /\ keys \in Seq(Char \cup {Enter}) /\ entered \in Seq(Line) /\ typing \in Line
        /\ Stream(a, c, keys, entered, typing) /\ keys # <<>> /\ a[n] <= c
    BY <1>1, <1>2, <1>3, <1>4 DEF Typed
  <2> HIDE DEF n, l
  <2>3. l = LineBehind(entered, typing, n)
    BY DEF l
  <2>4. c - a[n] <= Len(LineBehind(entered, typing, n))
    BY <2>1, <2>3
  <2>5. \/ /\ c - a[n] + 1 <= Len(LineBehind(entered, typing, n)) /\ Head(keys) \in Char
           /\ Head(keys) = LineBehind(entered, typing, n)[c - a[n] + 1]
        \/ /\ c - a[n] = Len(LineBehind(entered, typing, n)) /\ Head(keys) = Enter
           /\ n < Len(entered) /\ a[n + 1] = c + 1
    BY <1>5, <2>2, <2>4, NextKey, ZenonT(30)
  <2> QED BY <2>3, <2>5
<1>10. Counted' /\ LinesInOrder'
  BY <1>2 DEF ShellInv, Counted, LinesInOrder
<1>11. Enter \notin Char
  BY DEF Enter, Char
<1> HIDE DEF n, l
<1>12. CASE Head(keys) = Enter
  <2>1. commandReady' = TRUE /\ inputBuffer' = inputBuffer
    BY <1>12 DEF HandleKey
  <2>2. c - a[n] = Len(l) /\ n < Len(entered) /\ a[n + 1] = c + 1
    BY <1>9, <1>11, <1>12
  <2>3. l = entered[n + 1]
    BY <2>2 DEF l, LineBehind
  <2>4. Keeps(inputBuffer, entered[n + 1], Len(entered[n + 1]))
    BY <1>4, <2>2, <2>3
  <2>5. Reads(a, c + 1, entered', typing', n, commandReady', inputBuffer')
    BY <1>2, <1>4, <2>1, <2>2, <2>4 DEF Reads
  <2>6. Typed'
    BY <1>2, <1>3, <1>8, <2>1 DEF Typed
  <2>7. n = Len(executed')
    BY <1>2 DEF n
  <2> QED BY <1>8, <1>10, <2>5, <2>6, <2>7 DEF ShellInv
<1>13. CASE Head(keys) # Enter
  <2>1. commandReady' = commandReady /\ inputBuffer' = Longer(inputBuffer, Head(keys))
    BY <1>13 DEF HandleKey
  <2>2. c - a[n] + 1 <= Len(l) /\ Head(keys) \in Char /\ Head(keys) = l[c - a[n] + 1]
    BY <1>9, <1>13
  <2>3. PICK k \in Int : k = c - a[n]
    BY <1>6
  <2>4. Keeps(inputBuffer', l, k + 1) /\ inputBuffer' \in Line /\ Len(inputBuffer') <= MaxLine
    BY <1>3, <1>4, <1>7, <2>1, <2>2, <2>3, KeepsNext DEF Typed
  <2>5. c + 1 - a[n] = k + 1 /\ a[n] <= c + 1
    BY <1>4, <1>6, <2>3
  <2>6. Reads(a, c + 1, entered', typing', n, commandReady', inputBuffer')
    <3>2. ~commandReady'
      BY <1>2, <2>1
    <3>3. LineBehind(entered', typing', n) = l /\ n <= Len(entered')
      BY <1>2, <1>4 DEF l
    <3>4. PICK d : d = c + 1
      OBVIOUS
    <3>1. d - a[n] = k + 1 /\ a[n] <= d
      BY <1>6, <2>5, <3>4
    <3>6. PICK e : e = k + 1
      OBVIOUS
    <3>7. Keeps(inputBuffer', l, e) /\ d - a[n] = e
      BY <2>4, <3>1, <3>6
    <3>8. Keeps(inputBuffer', LineBehind(entered', typing', n), d - a[n]) /\ a[n] <= d
      BY <3>1, <3>3, <3>7
    <3>5. Reads(a, d, entered', typing', n, commandReady', inputBuffer')
      BY <3>2, <3>3, <3>8, ReadsOn
    <3> QED BY <3>4, <3>5
  <2>7. Typed'
    BY <1>2, <1>3, <1>8, <2>1, <2>4 DEF Typed
  <2>8. n = Len(executed')
    BY <1>2 DEF n
  <2> QED BY <1>8, <1>10, <2>6, <2>7, <2>8 DEF ShellInv
<1> QED BY <1>12, <1>13

\* A command that is run takes the line that was entered.
LEMMA LineDoneInv ==
  ASSUME ShellInv, commandReady, LineDone, starts' \in Nat, starts' <= starts + 1
  PROVE  ShellInv'
<1> DEFINE n == Len(executed)
<1>1. PICK a, c : /\ Stream(a, c, keys, entered, typing)
                  /\ Reads(a, c, entered, typing, n, commandReady, inputBuffer)
  BY DEF ShellInv
<1>2. /\ executed' = Append(executed, inputBuffer) /\ inputBuffer' = <<>> /\ commandReady' = FALSE
      /\ UNCHANGED <<keys, entered, typing, pressed>>
  BY DEF LineDone
<1>3. Typed
  BY DEF ShellInv
<1>4. n < Len(entered) /\ c = a[n + 1] /\ Keeps(inputBuffer, entered[n + 1], Len(entered[n + 1]))
  BY <1>1 DEF Reads
<1>5. /\ executed' \in Seq(Line) /\ Len(executed') = n + 1 /\ n \in Nat
      /\ executed'[n + 1] = inputBuffer /\ \A i \in 1 .. n : executed'[i] = executed[i]
  BY <1>2, <1>3, TypedOnKeys DEF Typed
<1>6. Len(entered) \in Nat /\ c \in Nat
  BY <1>1, <1>3 DEF Stream, Typed
<1>7. Typed'
  <2>1. Len(<<>>) <= MaxLine
    BY LimitsAssumption
  <2> QED BY <1>2, <1>3, <1>5, <2>1, EmptyTyped DEF Typed
<1>8. Counted'
  <2>1. /\ pressed \in Nat /\ starts \in Nat
        /\ Len(entered) <= pressed /\ pressed <= MaxKeys /\ starts <= n
    BY DEF ShellInv, Counted
  <2> HIDE DEF n
  <2>2. starts' <= n + 1
    BY <1>5, <2>1
  <2> QED BY <1>2, <1>5, <2>1, <2>2 DEF Counted
<1>9. LinesInOrder'
  <2>1. n <= Len(entered) /\ \A i \in 1 .. n : Keeps(executed[i], entered[i], Len(entered[i]))
    BY DEF ShellInv, LinesInOrder
  <2> HIDE DEF n
  <2>2. n + 1 <= Len(entered)
    BY <1>4, <1>5, <1>6
  <2>3. \A i \in 1 .. n + 1 : i \in 1 .. n \/ i = n + 1
    BY <1>5
  <2> QED BY <1>2, <1>4, <1>5, <2>1, <2>2, <2>3 DEF LinesInOrder
<1>10. Reads(a, c, entered', typing', Len(executed'), commandReady', inputBuffer')
  <2> HIDE DEF n
  <2> DEFINE m == n + 1
             l == LineBehind(entered, typing, m)
  <2>1. m <= Len(entered) /\ a[m] <= c /\ c - a[m] = 0
    BY <1>4, <1>5, <1>6
  <2>2. l \in Line /\ m \in Nat
    BY <1>3, <1>5, LineBehindIs DEF Typed
  <2>3. Len(<<>>) = 0 /\ 1 .. 0 = {} /\ Len(l) \in Nat
    BY <2>2 DEF Line
  <2> HIDE DEF l, m
  <2>4. Keeps(<<>>, l, 0)
    BY <2>2, <2>3, KeepsNothing
  <2>5. Len(executed') = m
    BY <1>5 DEF m
  <2> QED BY <1>2, <2>1, <2>4, <2>5 DEF Reads, l
<1>11. Stream(a, c, keys', entered', typing')
  BY <1>1, <1>2
<1> QED BY <1>7, <1>8, <1>9, <1>10, <1>11 DEF ShellInv

\* The report of the DHCP client takes what there is of the line.
LEMMA NoticeInv ==
  ASSUME ShellInv, Notice
  PROVE  ShellInv'
<1> DEFINE n == Len(executed)
           l == LineBehind(entered, typing, n)
<1>1. PICK a, c : /\ Stream(a, c, keys, entered, typing)
                  /\ Reads(a, c, entered, typing, n, commandReady, inputBuffer)
  BY DEF ShellInv
<1>2. /\ UNCHANGED <<keys, commandReady, executed, starts, entered, typing, pressed>>
      /\ inputBuffer' = inputBuffer \/ inputBuffer' = <<>>
  BY DEF Notice, dhcpVars
<1>3. Typed /\ n \in Nat
  BY DEF ShellInv, Typed
<1>4. Typed'
  <2>1. Len(<<>>) <= MaxLine
    BY LimitsAssumption
  <2> QED BY <1>2, <1>3, <2>1, EmptyTyped DEF Typed
<1>5. Counted' /\ LinesInOrder'
  BY <1>2 DEF ShellInv, Counted, LinesInOrder
<1>6. n <= Len(entered) /\ Len(entered) \in Nat
  BY <1>1, <1>3 DEF Reads, Typed
<1>7. Reads(a, c, entered, typing, n, commandReady, inputBuffer')
  <2>1. CASE inputBuffer' = inputBuffer
    BY <1>1, <2>1
  <2>2. CASE inputBuffer' = <<>>
    <3>1. ASSUME commandReady PROVE Keeps(inputBuffer', entered[n + 1], Len(entered[n + 1]))
      <4>1. n < Len(entered)
        BY <1>1, <3>1 DEF Reads
      <4>2. n + 1 \in 1 .. Len(entered)
        <5> HIDE DEF n
        <5> QED BY <1>3, <1>6, <4>1
      <4>3. entered[n + 1] \in Line
        BY <1>3, <4>2 DEF Typed
      <4>4. Len(entered[n + 1]) \in Nat
        BY <4>3 DEF Line
      <4> QED BY <2>2, <4>3, <4>4, KeepsNothing
    <3>2. ASSUME ~commandReady PROVE Keeps(inputBuffer', l, c - a[n])
      <4>1. Keeps(inputBuffer, l, c - a[n])
        BY <1>1, <3>2 DEF Reads
      <4>2. c - a[n] \in Nat
        <5> HIDE DEF n
        <5>1. n \in 0 .. Len(entered)
          BY <1>3, <1>6
        <5>2. a \in [0 .. Len(entered) -> Nat] /\ c \in Nat
          BY <1>1 DEF Stream
        <5>3. a[n] \in Nat
          BY <5>1, <5>2
        <5>4. a[n] <= c
          BY <1>1, <3>2 DEF Reads
        <5> QED BY <5>2, <5>3, <5>4
      <4>3. l \in Line /\ c - a[n] <= Len(l)
        BY <1>3, <4>1, LineBehindIs DEF Typed, Keeps
      <4> HIDE DEF l
      <4> QED BY <2>2, <4>2, <4>3, KeepsNothing
    <3> QED BY <1>1, <3>1, <3>2 DEF Reads
  <2> QED BY <1>2, <2>1, <2>2
<1> QED BY <1>1, <1>2, <1>4, <1>5, <1>7 DEF ShellInv

\* Everything else leaves the keys and the lines alone.
LEMMA QuietShellInv ==
  ASSUME ShellInv,
         UNCHANGED <<keys, inputBuffer, commandReady, executed, entered, typing, pressed, starts>>
  PROVE  ShellInv'
<1>1. Typed' /\ Counted' /\ LinesInOrder'
  BY DEF ShellInv, Typed, Counted, LinesInOrder
<1>2. PICK a, c : /\ Stream(a, c, keys, entered, typing)
                  /\ Reads(a, c, entered, typing, Len(executed), commandReady, inputBuffer)
  BY DEF ShellInv
<1>3. /\ Stream(a, c, keys', entered', typing')
      /\ Reads(a, c, entered', typing', Len(executed'), commandReady', inputBuffer')
  BY <1>2
<1> QED BY <1>1, <1>3 DEF ShellInv

LEMMA ShellStepInv == ShellInv /\ [ShellNext]_allVars => ShellInv'
<1> SUFFICES ASSUME ShellInv, [ShellNext]_allVars PROVE ShellInv'
  OBVIOUS
<1>0. starts \in Nat
  BY DEF ShellInv, Counted
<1>1. CASE TypeKey
  BY <1>1, TypeKeyInv
<1>2. CASE HandleKey
  BY <1>2, HandleKeyInv
<1>3. CASE Notice
  BY <1>3, NoticeInv
<1>4. CASE RunDhcp
  <2>1. starts' = starts + 1 /\ commandReady /\ LineDone
    BY <1>4 DEF RunDhcp, StartDhcp
  <2>2. starts' \in Nat /\ starts' <= starts + 1
    BY <1>0, <2>1
  <2> QED BY <2>1, <2>2, LineDoneInv
<1>5. CASE RunNetCommand \/ RunOther
  <2>1. starts' = starts /\ commandReady /\ LineDone
    BY <1>5 DEF RunNetCommand, RunOther, NetCommandBegin, NoCommand
  <2>2. starts' \in Nat /\ starts' <= starts + 1
    BY <1>0, <2>1
  <2> QED BY <2>1, <2>2, LineDoneInv
<1>6. CASE BeginTick \/ EndTick \/ EndNetCommand \/ NextTurn
  <2>1. UNCHANGED shellVars /\ starts' = starts
    BY <1>6 DEF BeginTick, EndTick, EndNetCommand, NextTurn, TickEnter, TickDecide, NetCommandEnd,
                NoCommand
  <2> QED BY <2>1, QuietShellInv DEF shellVars
<1>7. CASE Receive \/ Outside
  <2>1. UNCHANGED shellVars /\ starts' = starts
    BY <1>7 DEF Receive, Outside, ReceiveFrame, HandleDhcpResponse, dhcpVars, Timer, ServerOffer,
                ServerAnswer
  <2> QED BY <2>1, QuietShellInv DEF shellVars
<1>8. CASE UNCHANGED allVars
  BY <1>8, QuietShellInv DEF allVars, shellVars, dhcpVars
<1> QED BY <1>1, <1>2, <1>3, <1>4, <1>5, <1>6, <1>7, <1>8 DEF ShellNext, RunLoop

LEMMA ShellInvariant == ShellSpec => []ShellInv
BY ShellInitInv, ShellStepInv, PTL DEF ShellSpec

\* However the user's keys, the exchange and the commands interleave, Terminal::run
\* runs one command for each Enter the queue took, in their order, and none with
\* characters of another line, whether the queue or the line is full or not.
THEOREM LinesStayInOrder == ShellSpec => []LinesInOrder
<1>1. ShellInv => LinesInOrder
  BY DEF ShellInv
<1> QED BY <1>1, ShellInvariant, PTL

\* The terminal is one of the users DhcpClient allows for: what is proved of the
\* client holds in the composition too.  No more exchanges are started than there
\* were keys to ask for them.
THEOREM ShellUsesDhcp ==
  ASSUME MaxKeys <= MaxStarts
  PROVE  ShellSpec => DhcpSpec
<1>1. ShellInit => DhcpInit
  BY DEF ShellInit
<1>2. ShellInv /\ [ShellNext]_allVars => [DhcpNext]_dhcpVars
  <2> SUFFICES ASSUME ShellInv, [ShellNext]_allVars PROVE [DhcpNext]_dhcpVars
    OBVIOUS
  <2>1. CASE RunDhcp
    <3>1. PICK a, c : Reads(a, c, entered, typing, Len(executed), commandReady, inputBuffer)
      BY DEF ShellInv
    <3>2. Len(executed) < Len(entered)
      BY <2>1, <3>1 DEF Reads, RunDhcp
    <3>3. /\ Len(executed) \in Nat /\ Len(entered) \in Nat /\ MaxKeys \in Nat /\ MaxStarts \in Nat
          /\ pressed \in Nat /\ starts \in Nat
          /\ Len(entered) <= pressed /\ pressed <= MaxKeys /\ starts <= Len(executed)
      BY MaxKeysAssumption, BoundAssumption DEF ShellInv, Typed, Counted
    <3>4. starts < MaxStarts
      BY <3>2, <3>3
    <3> QED BY <2>1, <3>4 DEF RunDhcp, Noticed, UserDhcp, DhcpNext
  <2>2. CASE TypeKey \/ HandleKey \/ Notice
    BY <2>2 DEF TypeKey, HandleKey, Notice
  <2>3. CASE \/ BeginTick \/ EndTick \/ EndNetCommand \/ NextTurn \/ RunNetCommand \/ RunOther
             \/ Receive \/ Outside
    BY <2>3 DEF BeginTick, EndTick, EndNetCommand, NextTurn, RunNetCommand, RunOther, Receive,
                Outside, DhcpNext, Loop
  <2>4. CASE UNCHANGED allVars
    BY <2>4 DEF allVars
  <2> QED BY <2>1, <2>2, <2>3, <2>4 DEF ShellNext, RunLoop
<1> QED BY <1>1, <1>2, ShellInvariant, PTL DEF ShellSpec, DhcpSpec
===============================================================================
