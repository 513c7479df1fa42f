------------------------------ MODULE DhcpClient ------------------------------
(***************************************************************************)
(* The DHCP client of src/libc/network.cpp: startDhcp, tickDhcp,           *)
(* handleDhcpResponse and configureStatic, against DHCP servers on a       *)
(* network that loses, delays, duplicates and reorders messages.           *)
(*                                                                         *)
(* The client is a state machine driven from the terminal's main loop.     *)
(* Frames reach it only while something calls Network::poll: tickDhcp when *)
(* an exchange is running, or any network command (ping, arping, curl...)  *)
(* in whatever state the client is.                                        *)
(*                                                                         *)
(* Data: the address a server leases, and the router, DNS server and       *)
(* netmask it announces, are written as the server's own name; the three   *)
(* options have the same fallback rule, so gatewayIp stands for them all.  *)
(* Addresses typed by the user are the value "static".  0 is "none".       *)
(***************************************************************************)
EXTENDS Naturals

CONSTANTS Servers,      \* the DHCP servers in reach
          Silent,       \* <<type, server>>: the replies that carry no options
          Timeout,      \* clock ticks before the client gives up (5000 ms)
          MaxStarts,    \* bound: exchanges started
          StaticAllowed \* bound: may the user type ifconfig?

ASSUME ServersAssumption == {"none", "static"} \cap Servers = {}
ASSUME SilentAssumption == Silent \subseteq {"offer", "ack"} \X Servers
ASSUME StaticAssumption == StaticAllowed \in BOOLEAN
ASSUME BoundAssumption == Timeout \in Nat \ {0} /\ MaxStarts \in Nat

VARIABLES
  net,            \* every message ever sent: any of them may arrive, at any
                  \* time, any number of times, or never
  starts,         \* exchanges started; transaction ids are never reused
  at,             \* where Terminal::run is: reading "keys", inside the "tick",
                  \* "ready" for a command, or inside a network "command"
  dhcpState,      \* 0 idle, 1 discover sent, 2 request sent, 3 done, 4 failed
  dhcpXid,
  dhcpOfferSeen, dhcpAckSeen,
  offer,          \* dhcpOfferedIp, dhcpServerIp and dhcpRouterIp
  info,           \* the network configuration every command uses
  waited          \* now - dhcpStateStartMs, saturating at Timeout

clientVars == <<dhcpState, dhcpXid, dhcpOfferSeen, dhcpAckSeen, offer, info, waited>>
dhcpVars == <<net, starts, at, clientVars>>

Address == Servers \cup {"none", "static"}
Xid == 0 .. MaxStarts

\* router: the announced gateway, "none" when the option is absent
Message == [type : {"discover"}, xid : Xid] \cup
           [type : {"request"}, xid : Xid, server : Servers] \cup
           [type : {"offer", "ack"}, xid : Xid, server : Servers,
            router : Servers \cup {"none"}]

NoOffer == [ip |-> "none", server |-> "none", router |-> "none"]
NoConfig == [ipAddress |-> "none", gatewayIp |-> "none", dhcpConfigured |-> FALSE]

DhcpInit ==
  /\ net = {} /\ starts = 0 /\ at = "keys"
  /\ dhcpState = 0 /\ dhcpXid = 0
  /\ dhcpOfferSeen = FALSE /\ dhcpAckSeen = FALSE
  /\ offer = NoOffer /\ info = NoConfig
  /\ waited = 0

\* A mutant: the flag of an earlier ACK is not cleared.
StartDhcpKeepsAck(sent) ==
  /\ dhcpOfferSeen' = FALSE /\ offer' = NoOffer /\ UNCHANGED dhcpAckSeen
  /\ starts' = starts + 1 /\ dhcpXid' = starts + 1
  /\ info' = NoConfig
  /\ IF sent
     THEN /\ net' = net \cup {[type |-> "discover", xid |-> starts + 1]}
          /\ dhcpState' = 1 /\ waited' = 0
     ELSE dhcpState' = 4 /\ UNCHANGED <<net, waited>>
  /\ at' = "keys"

\* A mutant: the old gateway is not cleared.
StartDhcpKeepsGateway(sent) ==
  /\ dhcpOfferSeen' = FALSE /\ dhcpAckSeen' = FALSE /\ offer' = NoOffer
  /\ starts' = starts + 1 /\ dhcpXid' = starts + 1
  /\ info' = [NoConfig EXCEPT !.gatewayIp = info.gatewayIp]
  /\ IF sent
     THEN /\ net' = net \cup {[type |-> "discover", xid |-> starts + 1]}
          /\ dhcpState' = 1 /\ waited' = 0
     ELSE dhcpState' = 4 /\ UNCHANGED <<net, waited>>
  /\ at' = "keys"

\* startDhcp: forget the configuration, send DISCOVER under a new id.  sent is
\* whether the NIC took the frame.
StartDhcp(sent) ==
  /\ dhcpOfferSeen' = FALSE /\ dhcpAckSeen' = FALSE /\ offer' = NoOffer
  /\ starts' = starts + 1 /\ dhcpXid' = starts + 1
  /\ info' = NoConfig
  /\ IF sent
     THEN /\ net' = net \cup {[type |-> "discover", xid |-> starts + 1]}
          /\ dhcpState' = 1 /\ waited' = 0
     ELSE dhcpState' = 4 /\ UNCHANGED <<net, waited>>
  /\ at' = "keys"

\* configureStatic, called by the ifconfig command
ConfigureStatic ==
  /\ dhcpState' = 0 /\ dhcpOfferSeen' = FALSE /\ dhcpAckSeen' = FALSE
  /\ info' = [ipAddress |-> "static", gatewayIp |-> "static",
              dhcpConfigured |-> FALSE]
  /\ at' = "keys"
  /\ UNCHANGED <<net, starts, dhcpXid, offer, waited>>

\* A mutant: replies are not matched with the transaction id.
HandleAnyXid(m) ==
  CASE m.type = "offer" ->
         /\ offer' = [ip |-> m.server, server |-> m.server, router |-> m.router]
         /\ dhcpOfferSeen' = TRUE
         /\ UNCHANGED <<net, starts, at, dhcpState, dhcpXid, dhcpAckSeen,
                        info, waited>>
    [] m.type = "ack" ->
         /\ info' = [ipAddress |-> m.server, dhcpConfigured |-> TRUE,
                     gatewayIp |-> IF m.router # "none" THEN m.router
                                   ELSE IF offer.router # "none" THEN offer.router
                                   ELSE info.gatewayIp]
         /\ dhcpAckSeen' = TRUE
         /\ UNCHANGED <<net, starts, at, dhcpState, dhcpXid, dhcpOfferSeen,
                        offer, waited>>
    [] OTHER -> UNCHANGED dhcpVars

\* handleDhcpResponse: the id must be the current one, the state of the client
\* is not looked at; anything but OFFER and ACK is ignored.
HandleDhcpResponse(m) ==
  CASE m.type = "offer" /\ m.xid = dhcpXid ->
         /\ offer' = [ip |-> m.server, server |-> m.server, router |-> m.router]
         /\ dhcpOfferSeen' = TRUE
         /\ UNCHANGED <<net, starts, at, dhcpState, dhcpXid, dhcpAckSeen,
                        info, waited>>
    [] m.type = "ack" /\ m.xid = dhcpXid ->
         /\ info' = [ipAddress |-> m.server, dhcpConfigured |-> TRUE,
                     gatewayIp |-> IF m.router # "none" THEN m.router
                                   ELSE IF offer.router # "none" THEN offer.router
                                   ELSE info.gatewayIp]
         /\ dhcpAckSeen' = TRUE
         /\ UNCHANGED <<net, starts, at, dhcpState, dhcpXid, dhcpOfferSeen,
                        offer, waited>>
    [] OTHER -> UNCHANGED dhcpVars

\* poll takes one frame from the network card
ReceiveFrame ==
  /\ at \in {"tick", "command"}
  /\ \E m \in net : HandleDhcpResponse(m)

\* run calls tickDhcp once per turn.  In a waiting state, poll...
TickEnter ==
  /\ at = "keys"
  /\ at' = IF dhcpState \in {1, 2} THEN "tick" ELSE "ready"
  /\ UNCHANGED <<net, starts, clientVars>>

\* A mutant: the REQUEST does not restart the clock, and its loss is not noticed.
TickDecideNoTimeout ==
  /\ at = "tick" /\ at' = "ready"
  /\ \/ /\ dhcpState = 1 /\ dhcpOfferSeen /\ offer.ip # "none"
        /\ net' = net \cup {[type |-> "request", xid |-> dhcpXid,
                             server |-> offer.server]}
        /\ dhcpState' = 2 /\ UNCHANGED waited
     \/ /\ dhcpState = 1 /\ ~(dhcpOfferSeen /\ offer.ip # "none")
        /\ dhcpState' = IF waited >= Timeout THEN 4 ELSE 1
        /\ UNCHANGED <<net, waited>>
     \/ /\ dhcpState = 2
        /\ dhcpState' = IF dhcpAckSeen THEN 3 ELSE 2
        /\ UNCHANGED <<net, waited>>
  /\ UNCHANGED <<starts, dhcpXid, dhcpOfferSeen, dhcpAckSeen, offer, info>>

\* ... and then act on what has been seen, or on the clock.
TickDecide ==
  /\ at = "tick" /\ at' = "ready"
  /\ \/ /\ dhcpState = 1 /\ dhcpOfferSeen /\ offer.ip # "none"
        /\ \/ /\ net' = net \cup {[type |-> "request", xid |-> dhcpXid,
                                   server |-> offer.server]}
              /\ dhcpState' = 2 /\ waited' = 0
           \/ dhcpState' = 4 /\ UNCHANGED <<net, waited>>
     \/ /\ dhcpState = 1 /\ ~(dhcpOfferSeen /\ offer.ip # "none")
        /\ dhcpState' = IF waited >= Timeout THEN 4 ELSE 1
        /\ UNCHANGED <<net, waited>>
     \/ /\ dhcpState = 2
        /\ dhcpState' = IF dhcpAckSeen THEN 3
                        ELSE IF waited >= Timeout THEN 4 ELSE 2
        /\ UNCHANGED <<net, waited>>
  /\ UNCHANGED <<starts, dhcpXid, dhcpOfferSeen, dhcpAckSeen, offer, info>>

\* A network command of the terminal polls while it waits for its own answer.
NetCommandBegin ==
  /\ at = "ready" /\ at' = "command"
  /\ UNCHANGED <<net, starts, clientVars>>
NetCommandEnd ==
  /\ at = "command" /\ at' = "keys"
  /\ UNCHANGED <<net, starts, clientVars>>

\* No network command is due: the next turn of the loop.
NoCommand ==
  /\ at = "ready" /\ at' = "keys"
  /\ UNCHANGED <<net, starts, clientVars>>

\* IRQ0 advances timerMillis
Timer ==
  /\ waited < Timeout /\ waited' = waited + 1
  /\ UNCHANGED <<net, starts, at, dhcpState, dhcpXid, dhcpOfferSeen,
                 dhcpAckSeen, offer, info>>

\* The DHCP servers (external): answer a DISCOVER with an OFFER; answer a
\* REQUEST that names them with an ACK.  (A NAK is ignored like any other
\* type, so a server that sends one looks like a server whose ACK is lost.)
Reply(type, xid, s) ==
  [type |-> type, xid |-> xid, server |-> s,
   router |-> IF <<type, s>> \in Silent THEN "none" ELSE s]
ServerOffer ==
  /\ \E m \in net, s \in Servers :
       m.type = "discover" /\ net' = net \cup {Reply("offer", m.xid, s)}
  /\ UNCHANGED <<starts, at, clientVars>>
ServerAnswer ==
  /\ \E m \in net :
       m.type = "request" /\ net' = net \cup {Reply("ack", m.xid, m.server)}
  /\ UNCHANGED <<starts, at, clientVars>>

\* The user's commands dhcp and ifconfig.
UserDhcp == /\ at = "ready" /\ starts < MaxStarts
            /\ \E sent \in BOOLEAN : StartDhcp(sent)
UserIfconfig == at = "ready" /\ StaticAllowed /\ ConfigureStatic

Loop == TickEnter \/ TickDecide \/ NetCommandEnd

DhcpNext == \/ UserDhcp \/ UserIfconfig
            \/ NetCommandBegin \/ NoCommand
            \/ ReceiveFrame \/ Loop \/ Timer
            \/ ServerOffer \/ ServerAnswer

DhcpSpec == DhcpInit /\ [][DhcpNext]_dhcpVars

\* The main loop goes round, commands return, IRQ0 keeps ticking.
DhcpFairSpec == /\ DhcpSpec
                /\ WF_dhcpVars(Loop)
                /\ WF_dhcpVars(at = "ready" /\ at' = "keys" /\ DhcpNext)
                /\ WF_dhcpVars(Timer)

-------------------------------------------------------------------------------
DhcpTypeOK ==
  /\ net \subseteq Message
  /\ starts \in 0 .. MaxStarts /\ dhcpXid \in Xid
  /\ at \in {"keys", "tick", "ready", "command"}
  /\ dhcpState \in 0 .. 4
  /\ dhcpOfferSeen \in BOOLEAN /\ dhcpAckSeen \in BOOLEAN
  /\ offer \in [ip : Address, server : Address, router : Address]
  /\ info \in [ipAddress : Address, gatewayIp : Address, dhcpConfigured : BOOLEAN]
  /\ waited \in 0 .. Timeout

\* An address taken from DHCP is one that a server granted in answer to this
\* exchange's own REQUEST, however late, often or out of order its ACK came.
AddressGranted ==
  info.dhcpConfigured =>
    /\ [type |-> "request", xid |-> dhcpXid, server |-> info.ipAddress] \in net
    /\ \E m \in net : /\ m.type = "ack" /\ m.xid = dhcpXid
                      /\ m.server = info.ipAddress

\* The terminal reports success only with a configuration in place.
DoneMeansConfigured ==
  dhcpState = 3 => info.dhcpConfigured /\ info.ipAddress \in Servers

\* A gateway the user did not type was announced by a message of the current
\* exchange, not left over from an earlier one.
GatewayOfThisExchange ==
  info.gatewayIp \notin {"none", "static"} =>
    \E m \in net : /\ m.type \in {"offer", "ack"} /\ m.xid = dhcpXid
                   /\ m.router = info.gatewayIp

\* Every exchange ends: bound, failed, or replaced by a static configuration.
ExchangeEnds == dhcpState \in {1, 2} ~> dhcpState \in {0, 3, 4}
===============================================================================
