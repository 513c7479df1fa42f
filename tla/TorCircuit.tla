------------------------------ MODULE TorCircuit ------------------------------
(***************************************************************************)
(* The Tor client in src/libc/tor.cpp: the TLS link to the guard, the link *)
(* handshake, the circuit, its hops and their ciphers, and one stream.     *)
(* TorCommands makes the calls.                                            *)
(*                                                                         *)
(* The directory and the relays are external.  A relay answers what it is  *)
(* asked, may answer with keys the client cannot use, may send a cell      *)
(* nobody asked for and may destroy the circuit.  TlsClient below gives    *)
(* the cells whole and in order; a read may also fail at any time, and     *)
(* then it may have taken a part of a cell with it.                        *)
(*                                                                         *)
(* Data: the onion key of a relay is the relay's name.  A cipher and a     *)
(* running digest are the number of cells that went through them: a relay  *)
(* cell can be read only where these are the numbers it was made with.     *)
(***************************************************************************)
EXTENDS Naturals, Sequences, FiniteSets

CONSTANTS Relays,    \* the relays of the network
          None,      \* no relay; also a key that is no relay's any more
          NoKey,     \* haveNtorKey is not set
          MaxData    \* bound: cells of a stream's data, and others not asked for

ASSUME RelayAssumption == None \notin Relays

VARIABLES
  link,            \* "closed", "half" (a TCP session the guard has answered, where the
                   \* answer's ACK could not be sent, left so), "tls" (TLS is
                   \* established), "open" (cells may be sent)
  guard,           \* guardIp and orPort, as the relay there, and guardId
  ntorKey,         \* with haveNtorKey
  circIdLen, gotVersions, gotNetinfo,
  hops,            \* the established hops; numHops is their number
  call,            \* the call in progress: "none", or what it waits for
  result,          \* how the last call ended: "none" while none has
  wide,            \* does the guard speak a link version with 4-byte circuit ids
  path,            \* the relays' side of the hops
  asked,           \* what the relays have been asked and not answered
  extra,           \* cells not asked for that may still come, and stream data
  inbox,           \* cells on the TLS stream
  torn,            \* a read has taken a part of a cell
  misread,         \* a cell has been read that does not start where it was read
  strayed          \* a relay cell reached an end that could not read it

clientVars == <<guard, ntorKey, circIdLen, gotVersions, gotNetinfo>>
relayVars == <<wide, path, asked, extra>>
torVars == <<link, clientVars, hops, call, result, relayVars, inbox, torn,
             misread, strayed>>

Hop(relay) == [relay |-> relay, fwd |-> 0, bwd |-> 0, fdig |-> 0, bdig |-> 0]
Ask(what, relay, key) == [what |-> what, relay |-> relay, key |-> key]
NoAsk == Ask("none", None, None)

\* A cell to the client: its command, whether it names the client's circuit, the
\* width of its circuit id; of a relay cell the hop it is from and what the
\* ciphers and the digest were at.
Cell(cmd, ours, width) == [cmd |-> cmd, ours |-> ours, width |-> width, rcmd |-> "none",
                           sid |-> FALSE, auth |-> FALSE, from |-> 0, pos |-> <<>>, dig |-> 0]

TorInit ==
  /\ link = "closed" /\ guard = [addr |-> None, id |-> None]
  /\ ntorKey = NoKey
  /\ circIdLen = 2 /\ gotVersions = FALSE /\ gotNetinfo = FALSE
  /\ hops = <<>> /\ call = "none" /\ result = "none"
  /\ wide = FALSE /\ path = <<>> /\ asked = NoAsk /\ extra = 0 /\ inbox = <<>>
  /\ torn = FALSE /\ misread = FALSE /\ strayed = FALSE

Width == IF wide THEN 4 ELSE 2

-------------------------------------------------------------------------------
(* The relays *)

SendCell(c) == inbox' = Append(inbox, c)

\* A relay cell made by hop k of the path, which all hops up to it encrypt.
RelayCell(k, rcmd, sid, auth) ==
  [Cell("RELAY", TRUE, Width) EXCEPT
     !.rcmd = rcmd, !.sid = sid, !.auth = auth, !.from = k, !.dig = path[k].bdig,
     !.pos = [h \in 1 .. k |-> path[h].bwd]]
AfterRelayCell(k) ==
  [h \in DOMAIN path |->
     IF h > k THEN path[h]
     ELSE [path[h] EXCEPT !.bwd = @ + 1, !.bdig = IF h = k THEN @ + 1 ELSE @]]

otherThanRelays == <<link, clientVars, hops, call, result, torn, misread, strayed>>

\* VERSIONS, with a 2-byte circuit id, and then the rest with the agreed one.
\* The NETINFO may come twice.
GuardVersions ==
  /\ asked.what = "versions" /\ asked' = Ask("flight", None, None)
  /\ wide' \in BOOLEAN /\ SendCell(Cell("VERSIONS", FALSE, 2))
  /\ UNCHANGED <<path, extra, otherThanRelays>>
GuardFlight ==
  /\ asked.what = "flight" /\ Len(inbox) < 2
  /\ \/ /\ extra > 0 /\ extra' = extra - 1 /\ UNCHANGED asked
        /\ \E cmd \in {"CERTS", "NETINFO"} : SendCell(Cell(cmd, FALSE, Width))
     \/ /\ asked' = NoAsk /\ SendCell(Cell("NETINFO", FALSE, Width))
        /\ UNCHANGED extra
  /\ UNCHANGED <<wide, path, otherThanRelays>>

\* CREATE2 and EXTEND2: the relay asked shares keys if it is the one named and the
\* key is its own; otherwise it says no or answers with an AUTH that does not hold.
\* The last hop of the path passes an EXTEND2 on.
Created(ok) ==
  /\ asked.what \in {"create", "extend"} /\ asked' = NoAsk
  /\ ok => asked.relay = asked.key /\ asked.relay # None
  /\ IF asked.what = "create"
     THEN /\ SendCell([Cell("CREATED2", TRUE, Width) EXCEPT !.auth = ok])
          /\ path' = <<Hop(IF ok THEN asked.relay ELSE None)>>
     ELSE /\ SendCell(RelayCell(Len(path), "EXTENDED2", FALSE, ok))
          /\ path' = Append(AfterRelayCell(Len(path)), Hop(IF ok THEN asked.relay ELSE None))
  /\ UNCHANGED <<wide, extra, otherThanRelays>>

\* A stream: CONNECTED or END, then data and END, from the last hop.
Streams ==
  /\ LET k == Len(path)
         Says(rcmd, next) == /\ SendCell(RelayCell(k, rcmd, TRUE, FALSE))
                             /\ path' = AfterRelayCell(k) /\ asked' = next
     IN \/ /\ asked.what = "begin"
           /\ \E rcmd \in {"CONNECTED", "END"} : Says(rcmd, NoAsk)
           /\ UNCHANGED extra
        \/ /\ asked.what = "get" /\ extra > 0 /\ Len(inbox) < 2
           /\ Says("DATA", asked) /\ extra' = extra - 1
        \/ /\ asked.what = "get" /\ Len(inbox) < 2
           /\ Says("END", NoAsk) /\ UNCHANGED extra
  /\ UNCHANGED <<wide, otherThanRelays>>

\* A cell of another circuit, a relay cell of another stream from any hop, or the
\* end of the circuit.
Unasked ==
  /\ link = "open" /\ extra > 0 /\ extra' = extra - 1 /\ Len(inbox) < 2
  /\ \/ SendCell(Cell("DESTROY", FALSE, Width)) /\ UNCHANGED <<path, asked>>
     \/ /\ asked.what # "none" \/ path # <<>>
        /\ SendCell(Cell("DESTROY", TRUE, Width)) /\ asked' = NoAsk /\ UNCHANGED path
     \/ \E k \in DOMAIN path : /\ SendCell(RelayCell(k, "DROP", FALSE, FALSE))
                               /\ path' = AfterRelayCell(k) /\ UNCHANGED asked
  /\ UNCHANGED <<wide, otherThanRelays>>

RelaysStep == \/ GuardVersions \/ GuardFlight \/ (\E ok \in BOOLEAN : Created(ok))
              \/ Streams \/ Unasked

-------------------------------------------------------------------------------
(* The calls *)

\* The width of circuit ids in a VERSIONS cell and behind a reset
FirstWidth == 2

\* reset, setGuard and setNtorKey.
ResetFor(addr, id, key) ==
  /\ guard' = [addr |-> addr, id |-> id] /\ ntorKey' = key
  /\ circIdLen' = FirstWidth /\ gotVersions' = FALSE /\ gotNetinfo' = FALSE
  /\ hops' = <<>>

\* fetchGuardDescriptor: the key the directory has for the guard's identity, which
\* may be one the relay no longer uses.
FetchDescriptor ==
  /\ \/ ntorKey' \in {guard.id, None} /\ result' = "ok"
     \/ result' = "fail" /\ UNCHANGED ntorKey
  /\ UNCHANGED <<link, guard, circIdLen, gotVersions, gotNetinfo, hops, call,
                 relayVars, inbox, torn, misread, strayed>>

\* openTls, with a new session in the place of an earlier one.  Where TLS fails it
\* closes the session itself; where the session could not be opened it does not,
\* and tcpSessionOpen fails behind the SYN-ACK too (network.cpp:1572).
OpenTls ==
  /\ \/ link' = "tls" /\ result' = "ok" /\ extra' = MaxData
     \/ link' \in {"closed", "half"} /\ result' = "fail" /\ extra' = 0
  /\ inbox' = <<>> /\ torn' = FALSE /\ path' = <<>> /\ asked' = NoAsk /\ wide' = FALSE
  /\ UNCHANGED <<clientVars, hops, call, misread, strayed>>

\* linkHandshake and createCircuit, up to what they wait for; a send may fail.
LinkHandshake ==
  /\ circIdLen' = FirstWidth
  /\ \/ asked' = Ask("versions", None, None) /\ call' = "link" /\ UNCHANGED result
     \/ result' = "fail" /\ UNCHANGED <<asked, call>>
  /\ UNCHANGED <<link, guard, ntorKey, gotVersions, gotNetinfo, hops,
                 wide, path, extra, inbox, torn, misread, strayed>>
CreateCircuit ==
  /\ \/ /\ ntorKey # NoKey /\ call' = "create" /\ UNCHANGED result
        /\ asked' = Ask("create", IF guard.addr = guard.id THEN guard.id ELSE None, ntorKey)
     \/ result' = "fail" /\ UNCHANGED <<asked, call>>
  /\ UNCHANGED <<link, clientVars, hops, wide, path, extra, inbox, torn, misread, strayed>>

\* A mutant: only the last hop's cipher runs.
OneLayer(h) == IF h = Len(hops) THEN hops[h].fwd + 1 ELSE hops[h].fwd

\* How far the forward cipher of hop h is behind a relay cell to the last hop
FwdAfter(h) == hops[h].fwd + 1

\* sendRelayCell, to the last hop.  The ciphers and the digest are ahead whether or
\* not the cell could be sent.
SendRelayCell(ask, waits) ==
  LET n == Len(hops)
  IN /\ hops' = [h \in DOMAIN hops |->
                   [hops[h] EXCEPT !.fwd = FwdAfter(h), !.fdig = IF h = n THEN @ + 1 ELSE @]]
     /\ \/ /\ path' = [h \in DOMAIN path |->
                         [path[h] EXCEPT !.fwd = @ + 1, !.fdig = IF h = n THEN @ + 1 ELSE @]]
           /\ strayed' = (strayed \/ Len(path) # n
                          \/ \E h \in 1 .. n : h \in DOMAIN path
                               /\ <<hops[h].fwd, hops[h].fdig>> # <<path[h].fwd, path[h].fdig>>)
           /\ asked' = ask /\ call' = waits /\ UNCHANGED result
        \/ /\ result' = "fail" /\ call' = "none" /\ UNCHANGED <<path, asked, strayed>>

\* extendCircuit, beginDirFetch and beginTcpFetch, up to what they wait for.
ExtendCircuit(relay, key) ==
  /\ hops # <<>> /\ Len(hops) < 3
  /\ SendRelayCell(Ask("extend", relay, key), "extend")
  /\ UNCHANGED <<link, clientVars, wide, extra, inbox, torn, misread>>
BeginFetch(waits) ==
  /\ hops # <<>> /\ SendRelayCell(Ask("begin", None, None), waits)
  /\ UNCHANGED <<link, clientVars, wide, extra, inbox, torn, misread>>

\* close
CloseTor ==
  /\ link' = "closed" /\ hops' = <<>> /\ inbox' = <<>> /\ path' = <<>> /\ asked' = NoAsk
  /\ extra' = 0 /\ torn' = FALSE /\ wide' = FALSE

\* What the next reset and setGuard set anyway, but for the width, is forgotten at
\* the prompt.
Forget ==
  /\ guard' = [addr |-> None, id |-> None] /\ ntorKey' = NoKey
  /\ gotVersions' = FALSE /\ gotNetinfo' = FALSE /\ UNCHANGED circIdLen

-------------------------------------------------------------------------------
(* Cells read while a call waits *)

\* A mutant: a negotiated width is used from the next link on only.
WidthStays(c) == circIdLen

\* The width behind cell c
WidthAfter(c) == IF c.cmd # "VERSIONS" THEN circIdLen ELSE IF wide THEN 4 ELSE 2

RelayCalls == {"extend", "dirConnect", "tcpConnect", "dirData", "tcpData"}
Ends(how) == call' = "none" /\ result' = how
Waits == UNCHANGED <<call, result>>

\* readCell gives c.  Read in the wrong place or with the wrong width it would
\* give something else.
ReadCell(c) ==
  /\ inbox # <<>> /\ c = Head(inbox) /\ inbox' = Tail(inbox)
  /\ misread' = (misread \/ torn \/ c.width # circIdLen)
  /\ UNCHANGED torn

\* The deadline, a closed connection, a send that fails in between, or a loop that
\* has seen its last cell: the call ends, the stream's reader with what it has.
ReadFails ==
  /\ call \in RelayCalls \cup {"link", "create"}
  /\ Ends(IF call \in {"dirData", "tcpData"} THEN "ok" ELSE "fail")
  /\ \/ UNCHANGED <<inbox, torn>>
     \/ inbox # <<>> /\ inbox' = Tail(inbox) /\ torn' = TRUE
  /\ UNCHANGED <<link, clientVars, hops, relayVars, misread, strayed>>

\* linkHandshake: until the NETINFO is there.  Then its own NETINFO goes out.
ReadLinkCell ==
  /\ call = "link"
  /\ \E c \in {inbox[i] : i \in DOMAIN inbox} :
       /\ ReadCell(c)
       /\ gotVersions' = (gotVersions \/ c.cmd = "VERSIONS")
       /\ gotNetinfo' = (gotNetinfo \/ c.cmd = "NETINFO")
       /\ circIdLen' = WidthAfter(c)
       /\ IF gotNetinfo' THEN \/ gotVersions' /\ link' = "open" /\ Ends("ok")
                              \/ Ends("fail") /\ UNCHANGED link
                         ELSE Waits /\ UNCHANGED link
  /\ UNCHANGED <<guard, ntorKey, hops, relayVars, strayed>>

\* ntor_client_finish
Verified(c) == c.auth

\* createCircuit: a CREATED2 or a DESTROY on this circuit.
ReadCreated ==
  /\ call = "create"
  /\ \E c \in {inbox[i] : i \in DOMAIN inbox} :
       /\ ReadCell(c)
       /\ \/ c.cmd = "CREATED2" /\ Verified(c) /\ Ends("ok") /\ hops' = <<Hop(guard.id)>>
          \/ c.cmd = "CREATED2" /\ ~Verified(c) /\ Ends("fail") /\ UNCHANGED hops
          \/ c.cmd = "DESTROY" /\ c.ours /\ Ends("fail") /\ UNCHANGED hops
          \/ c.cmd # "CREATED2" /\ ~(c.cmd = "DESTROY" /\ c.ours) /\ Waits /\ UNCHANGED hops
  /\ UNCHANGED <<link, clientVars, relayVars, strayed>>

\* The hop that recognizes a relay cell: the one it is from, if the layers of the
\* hops before it and its own come off and the digest fits.
Recognizes(c) ==
  {h \in DOMAIN hops : /\ h = c.from /\ hops[h].bdig = c.dig
                       /\ \A j \in 1 .. h : hops[j].bwd = c.pos[j]}

\* Does hop h peel a cell recognized at the hops in at
PeeledBy(h, at) == at = {} \/ \E k \in at : h <= k

\* The hops behind cell c: they peel it up to the one that recognizes it.
Peeled(c) ==
  LET at == Recognizes(c)
  IN [h \in DOMAIN hops |->
        [hops[h] EXCEPT !.bwd = IF PeeledBy(h, at) THEN @ + 1 ELSE @,
                        !.bdig = IF h \in at THEN @ + 1 ELSE @]]

\* extendCircuit: the first relay cell is an EXTENDED2 that verifies, or it fails.
Extended(c, relay) ==
  /\ call = "extend"
  /\ IF c.rcmd = "EXTENDED2" /\ Verified(c)
     THEN Ends("ok") /\ hops' = Append(Peeled(c), Hop(relay))
     ELSE Ends("fail") /\ hops' = Peeled(c)

\* beginDirFetch: the first relay cell, of any stream, is a CONNECTED, or it fails.
\* beginTcpFetch skips those of other streams.
Connected(c) ==
  /\ call \in {"dirConnect", "tcpConnect"} /\ hops' = Peeled(c)
  /\ IF call = "tcpConnect" /\ ~c.sid THEN Waits
     ELSE IF c.rcmd # "CONNECTED" THEN Ends("fail")
     ELSE call' = (IF call = "dirConnect" THEN "dirRequest" ELSE "tcpRequest") /\ UNCHANGED result

\* The reader of the stream: data, or the stream's END.
Streamed(c) ==
  /\ call \in {"dirData", "tcpData"} /\ hops' = Peeled(c)
  /\ IF c.sid /\ c.rcmd = "END" THEN Ends("ok") ELSE Waits

Unrecognized(c) == hops' = Peeled(c) /\ Waits

\* recvRelayCell, one relay cell of the call that waits for it; one that no hop
\* recognizes is ignored.
ReadRelayCell(relay) ==
  /\ call \in RelayCalls
  /\ \E c \in {inbox[i] : i \in DOMAIN inbox} :
       /\ ReadCell(c) /\ c.cmd = "RELAY"
       /\ strayed' = (strayed \/ Recognizes(c) = {})
       /\ IF Recognizes(c) = {} THEN Unrecognized(c)
          ELSE Extended(c, relay) \/ Connected(c) \/ Streamed(c)
  /\ UNCHANGED <<link, clientVars, relayVars>>

\* Another cell: a DESTROY of this circuit ends the call.
ReadOtherCell ==
  /\ call \in RelayCalls
  /\ \E c \in {inbox[i] : i \in DOMAIN inbox} :
       /\ ReadCell(c) /\ c.cmd # "RELAY"
       /\ IF c.cmd = "DESTROY" /\ c.ours
          THEN Ends(IF call \in {"dirData", "tcpData"} THEN "ok" ELSE "fail")
          ELSE Waits
  /\ UNCHANGED <<link, clientVars, hops, relayVars, strayed>>

\* Behind the CONNECTED the request goes out.
SendRequest ==
  /\ \/ call = "dirRequest" /\ SendRelayCell(Ask("get", None, None), "dirData")
     \/ call = "tcpRequest" /\ SendRelayCell(Ask("get", None, None), "tcpData")
  /\ UNCHANGED <<link, clientVars, wide, extra, inbox, torn, misread>>

TorStep(relay) == \/ ReadFails \/ ReadLinkCell \/ ReadCreated \/ ReadOtherCell
                  \/ ReadRelayCell(relay) \/ SendRequest

-------------------------------------------------------------------------------
\* Every cell is read from its first byte on, with the circuit-id width it was
\* written with: no call reads on behind a read that took a part of a cell, and
\* the width changes between the VERSIONS and the cell behind it, on every link
\* anew (tor.cpp:227, :242, :293).
CellsReadWhole == ~misread

\* Every relay cell finds the ciphers and the digest of its end where the other
\* end made it, in both directions, whichever hop it is from and however many
\* hops there are: one counter out of step makes the rest of the circuit noise
\* (tor.cpp:386, :414).  Also behind cells not asked for.
HopsInStep ==
  /\ ~strayed
  /\ call # "none" /\ inbox # <<>> /\ Head(inbox).cmd = "RELAY" => Recognizes(Head(inbox)) # {}
===============================================================================
