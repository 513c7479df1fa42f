------------------------------- MODULE TlsClient -------------------------------
(***************************************************************************)
(* The TLS 1.3 client in src/libc/tls.cpp: the handshake, the record layer *)
(* with its keys and sequence numbers, and write and read of application   *)
(* data, which the Tor client calls.                                       *)
(*                                                                         *)
(* The server is external and keeps to the protocol, but its Finished may  *)
(* not match, it may close at any time and it may change its keys.  The    *)
(* connection below is a byte stream (TcpStream), so records arrive once   *)
(* and in order; a wait may end by its deadline at any time, also inside a *)
(* record, whose first bytes are then gone.  What is read after that is    *)
(* the rest of that record, taken for a header.                            *)
(*                                                                         *)
(* Data: a key is its label and the client random it is derived with, one  *)
(* per connection; a record opens with the key and the sequence number it  *)
(* was sealed with and with no others.  A handshake message is two halves, *)
(* so that it can be spread over records.  Application bytes are numbered. *)
(***************************************************************************)
EXTENDS Naturals, Sequences

CONSTANTS MaxConns,    \* bound: connections
          MaxSeals,    \* bound: records the client sends on a connection
          MaxWire,     \* bound: records of the server not yet read
          MaxRecords,  \* bound: application records of the server
          MaxBytes,    \* bound: application bytes of the server
          Asks         \* how many bytes a caller of read asks for

ASSUME BoundAssumption == /\ MaxConns \in Nat /\ MaxSeals \in Nat /\ MaxWire \in Nat
                          /\ MaxRecords \in Nat /\ MaxBytes \in Nat
ASSUME AskAssumption == Asks \subseteq Nat \ {0}

VARIABLES
  conn,               \* connections made; the number is the client random
  stage,              \* "idle", "server_hello", "flight", "established", "failed"
  skipped,            \* leading ChangeCipherSpec records skipped
  gotServerFinished,
  transcript,         \* the messages hashed since the ClientHello
  hsBuf,              \* g_hs from hsPos on: halves of messages not yet hashed
  send, recv,         \* sendKey with sendSeq, recvKey with recvSeq
  appBuf,             \* g_appBuf from appPos to appLen
  need,               \* what the read in progress still needs; 0: there is none
  sealed, reused,     \* the nonces used for sending, and whether one was twice
  got,                \* the bytes read gave out on this connection, a history
  srv,                \* the server: "wait", "flight", "app", "closed"
  left,               \* what is left of its flight, in halves of messages
  finOk,              \* does its Finished match
  srvKey, srvSeq, wrote,
  wire,               \* its records, sent and not yet read
  cut                 \* has a read ended inside a record

server == <<srv, left, finOk, srvKey, srvSeq, wrote>>
nonces == <<send, sealed, reused>>
vars == <<conn, stage, skipped, gotServerFinished, transcript, hsBuf, recv, appBuf,
          need, got, nonces, server, wire, cut>>

Key(name, c) == [name |-> name, of |-> c]
NoKey == Key("none", 0)
Fresh(key) == [key |-> key, seq |-> 0]

Flight == <<"EE", "EE", "CT", "CT", "FN", "FN">>
BeforeFinished == <<"CH", "SH", "EE", "CT">>

Plain(type, body) == [type |-> type, inner |-> "none", key |-> NoKey, seq |-> 0, body |-> body]
\* What a header read from the middle of a record can say; such a body opens with no key.
Garbage == {Plain(t, <<>>) : t \in {"ccs", "alert", "hs", "app", "other"}}

Init ==
  /\ conn = 0 /\ stage = "idle" /\ skipped = 0 /\ gotServerFinished = FALSE
  /\ transcript = <<>> /\ hsBuf = <<>> /\ send = Fresh(NoKey) /\ recv = Fresh(NoKey)
  /\ appBuf = <<>> /\ need = 0 /\ sealed = {} /\ reused = FALSE /\ got = <<>>
  /\ srv = "closed" /\ left = <<>> /\ finOk = TRUE /\ srvKey = NoKey /\ srvSeq = 0
  /\ wrote = 0 /\ wire = <<>> /\ cut = FALSE

-------------------------------------------------------------------------------
(* The server *)

\* It sends a record under its current key, or a plain one.
Sends(r) == Len(wire) < MaxWire /\ wire' = Append(wire, r)
SealBy(inner, body) ==
  /\ Sends([type |-> "app", inner |-> inner, key |-> srvKey, seq |-> srvSeq, body |-> body])
  /\ srvSeq' = srvSeq + 1

client == <<conn, stage, skipped, gotServerFinished, transcript, hsBuf, recv, appBuf,
            need, got, nonces, cut>>

\* The answer to the ClientHello, behind a ChangeCipherSpec or not: a ServerHello
\* with the one suite and a key share, or another message.
ServerHello ==
  /\ srv = "wait"
  /\ \/ Sends(Plain("ccs", <<>>)) /\ UNCHANGED server
     \/ /\ Sends(Plain("hs", <<"SH">>)) /\ srv' = "flight" /\ left' = Flight
        /\ finOk' \in BOOLEAN /\ srvKey' = Key("shs", conn) /\ srvSeq' = 0
        /\ UNCHANGED wrote
     \/ /\ Sends(Plain("hs", <<"other">>)) /\ srv' = "closed"
        /\ UNCHANGED <<left, finOk, srvKey, srvSeq, wrote>>
  /\ UNCHANGED client

\* Its flight, cut into records anywhere, with a ChangeCipherSpec between them.
ServerFlight ==
  /\ srv = "flight" /\ left # <<>>
  /\ \/ Sends(Plain("ccs", <<>>)) /\ UNCHANGED server
     \/ \E n \in 1 .. Len(left) :
          /\ SealBy("hs", SubSeq(left, 1, n))
          /\ left' = SubSeq(left, n + 1, Len(left))
          /\ UNCHANGED <<srv, finOk, srvKey, wrote>>
  /\ UNCHANGED client

ServerSwitchesKeys ==
  /\ srv = "flight" /\ left = <<>> /\ srv' = "app"
  /\ srvKey' = Key("sap", conn) /\ srvSeq' = 0
  /\ UNCHANGED <<left, finOk, wrote, wire, client>>

\* Application data, a session ticket, a KeyUpdate.
ServerData ==
  /\ srv = "app" /\ srvSeq < MaxRecords
  /\ \/ \E n \in 0 .. MaxBytes - wrote :
          /\ SealBy("app", [i \in 1 .. n |-> wrote + i])
          /\ wrote' = wrote + n /\ UNCHANGED srvKey
     \/ SealBy("hs", <<>>) /\ UNCHANGED <<srvKey, wrote>>
     \/ /\ SealBy("hs", <<>>) /\ srvKey' = Key("sap2", conn) /\ UNCHANGED wrote
  /\ UNCHANGED <<srv, left, finOk, client>>

ServerCloses ==
  /\ srv # "closed" /\ srv' = "closed" /\ (srv = "flight" => left # <<>>)
  /\ \/ srv # "app" /\ Sends(Plain("alert", <<>>)) /\ UNCHANGED srvSeq
     \/ srv # "wait" /\ SealBy("alert", <<>>)
  /\ UNCHANGED <<left, finOk, srvKey, wrote, client>>

-------------------------------------------------------------------------------
(* Records *)

\* readRecord gives r.
ReadRecord(r) ==
  /\ \/ ~cut /\ wire # <<>> /\ r = Head(wire) /\ wire' = Tail(wire)
     \/ cut /\ \E n \in 0 .. Len(wire) :
                 /\ r \in Garbage \cup {wire[i] : i \in {n} \ {0}}
                 /\ wire' = SubSeq(wire, n + 1, Len(wire))
  /\ UNCHANGED cut

\* readRecord fails: no byte has come, or some have and are gone.
ReadFails == \/ UNCHANGED <<wire, cut>>
             \/ wire # <<>> /\ wire' = Tail(wire) /\ cut' = TRUE

\* decryptRecord succeeds.
Opens(r) == r.key = recv.key /\ r.seq = recv.seq

\* A mutant: the number is kept for the next record when this one failed.
AfterSealIfSent(sent) == IF sent THEN send.seq + 1 ELSE send.seq

\* sendSeq behind a record that was sealed, whether or not it could be sent.
AfterSeal(sent) == send.seq + 1

\* A mutant: the keys change and the number goes on.
RekeyKeepsNumber(now, key) == [key |-> key, seq |-> now.seq]

\* setSendKeys, setRecvKeys
Rekey(now, key) == Fresh(key)

\* sendEncryptedRecord
Seal(sent) == /\ sealed' = sealed \cup {send}
              /\ reused' = (reused \/ send \in sealed)
              /\ send' = [send EXCEPT !.seq = AfterSeal(sent)]

-------------------------------------------------------------------------------
(* The handshake *)

\* A mutant: reset forgets this one.
StaleFinished == gotServerFinished

\* What reset leaves of gotServerFinished
NoFinished == FALSE

\* reset, a TCP connection, and handshake up to the ClientHello.  sent is whether
\* the hello could be sent.
Connect(sent) ==
  /\ need = 0 /\ conn < MaxConns /\ stage # "server_hello" /\ stage # "flight"
  /\ conn' = conn + 1 /\ stage' = IF sent THEN "server_hello" ELSE "failed"
  /\ srv' = IF sent THEN "wait" ELSE "closed"
  /\ skipped' = 0 /\ gotServerFinished' = NoFinished /\ transcript' = <<"CH">>
  /\ hsBuf' = <<>> /\ send' = Fresh(NoKey) /\ recv' = Fresh(NoKey) /\ appBuf' = <<>>
  /\ got' = <<>> /\ left' = <<>> /\ finOk' = TRUE /\ srvKey' = NoKey /\ srvSeq' = 0
  /\ wrote' = 0 /\ wire' = <<>> /\ cut' = FALSE
  /\ UNCHANGED <<need, sealed, reused>>

Fail == stage' = "failed"

\* readServerHello, one record, and on success deriveHandshakeKeys.  What becomes
\* of the ChangeCipherSpec sent then is not looked at.
ReadServerHello ==
  /\ stage = "server_hello"
  /\ \/ /\ ReadFails /\ Fail
        /\ UNCHANGED <<skipped, transcript, send, recv>>
     \/ \E r \in {wire[i] : i \in DOMAIN wire} :
          /\ ReadRecord(r)
          /\ \/ /\ r.type = "ccs" /\ skipped < 3 /\ skipped' = skipped + 1
                /\ UNCHANGED <<stage, transcript, send, recv>>
             \/ /\ r.type = "hs" /\ r.body = <<"SH">>
                /\ transcript' = Append(transcript, "SH") /\ stage' = "flight"
                /\ send' = Rekey(send, Key("chs", conn)) /\ recv' = Rekey(recv, Key("shs", conn))
                /\ UNCHANGED skipped
             \/ /\ r.type = "alert" \/ r.body = <<"other">> \/ (r.type = "ccs" /\ skipped = 3)
                /\ Fail /\ UNCHANGED <<skipped, transcript, send, recv>>
  /\ UNCHANGED <<conn, gotServerFinished, hsBuf, appBuf, need, got, sealed, reused, server>>

\* The Finished read is the one over the messages hashed before it.
FinishedMatches(hashed) == finOk /\ hashed = BeforeFinished

\* The complete messages in a buffer of halves
Messages(buf) == [i \in 1 .. Len(buf) \div 2 |-> buf[2 * i]]

\* The handshake bytes of a record: complete messages are hashed, up to a
\* Finished, which is checked before it is; what is behind it is dropped.
Accumulate(body) ==
  LET buf  == hsBuf \o body
      msgs == Messages(buf)
      fin  == {i \in DOMAIN msgs : msgs[i] = "FN"}
  IN \/ /\ fin = {}
        /\ transcript' = transcript \o msgs
        /\ hsBuf' = SubSeq(buf, 2 * Len(msgs) + 1, Len(buf))
        /\ UNCHANGED <<stage, gotServerFinished>>
     \/ \E f \in fin :
          LET hashed == transcript \o SubSeq(msgs, 1, f - 1)
          IN \/ /\ FinishedMatches(hashed) /\ gotServerFinished' = TRUE
                /\ transcript' = Append(hashed, "FN") /\ hsBuf' = <<>> /\ UNCHANGED stage
             \/ /\ ~FinishedMatches(hashed) /\ Fail /\ transcript' = hashed
                /\ UNCHANGED <<hsBuf, gotServerFinished>>

\* readEncryptedFlight, one record
ReadFlight ==
  /\ stage = "flight" /\ ~gotServerFinished
  /\ \/ /\ ReadFails /\ Fail /\ UNCHANGED <<transcript, hsBuf, gotServerFinished, recv>>
     \/ \E r \in {wire[i] : i \in DOMAIN wire} :
          /\ ReadRecord(r)
          /\ \/ /\ r.type \notin {"alert", "app"}
                /\ UNCHANGED <<stage, transcript, hsBuf, gotServerFinished, recv>>
             \/ /\ r.type \in {"alert", "app"} /\ (r.type = "app" => ~Opens(r)) /\ Fail
                /\ UNCHANGED <<transcript, hsBuf, gotServerFinished, recv>>
             \/ /\ r.type = "app" /\ Opens(r) /\ recv' = [recv EXCEPT !.seq = @ + 1]
                /\ \/ r.inner = "hs" /\ Accumulate(r.body)
                   \/ r.inner = "alert" /\ Fail /\ UNCHANGED <<transcript, hsBuf, gotServerFinished>>
  /\ UNCHANGED <<conn, skipped, appBuf, need, got, nonces, server>>

\* deriveApplicationKeys, sendClientFinished, and the keys of both directions
\* change, once a Finished is there.
Finish(sent) ==
  /\ stage = "flight" /\ gotServerFinished
  /\ sealed' = sealed \cup {send} /\ reused' = (reused \/ send \in sealed)
  /\ IF sent
     THEN /\ stage' = "established"
          /\ send' = Rekey(send, Key("cap", conn)) /\ recv' = Rekey(recv, Key("sap", conn))
     ELSE Fail /\ send' = [send EXCEPT !.seq = AfterSeal(sent)] /\ UNCHANGED recv
  /\ UNCHANGED <<conn, skipped, gotServerFinished, transcript, hsBuf, appBuf, need, got,
                 server, wire, cut>>

-------------------------------------------------------------------------------
(* Application data *)

\* write, one record
Write(sent) ==
  /\ stage = "established" /\ need = 0 /\ send.seq < MaxSeals /\ Seal(sent)
  /\ UNCHANGED <<conn, stage, skipped, gotServerFinished, transcript, hsBuf, recv, appBuf,
                 need, got, server, wire, cut>>

StartRead(n) ==
  /\ stage = "established" /\ need = 0 /\ need' = n
  /\ UNCHANGED <<conn, stage, skipped, gotServerFinished, transcript, hsBuf, recv, appBuf,
                 got, nonces, server, wire, cut>>

\* How many bytes of the buffer the caller is given
Given == IF Len(appBuf) > need THEN need ELSE Len(appBuf)

\* A mutant: a read that needs less than the record drops the rest.
RestDropped(n) == <<>>

\* What the buffer keeps when n of its bytes are given out
Rest(n) == SubSeq(appBuf, n + 1, Len(appBuf))

\* read, one turn of its loop: bytes of the buffer
ReadBuffered ==
  /\ need > 0 /\ appBuf # <<>>
  /\ got' = got \o SubSeq(appBuf, 1, Given)
  /\ appBuf' = Rest(Given) /\ need' = need - Given
  /\ UNCHANGED <<conn, stage, skipped, gotServerFinished, transcript, hsBuf, recv,
                 nonces, server, wire, cut>>

\* Another turn: a record that opens.  Data fill the buffer, an alert ends the
\* call, anything else, a KeyUpdate too, is ignored.
ReadOpened ==
  /\ need > 0 /\ appBuf = <<>>
  /\ \E r \in {wire[i] : i \in DOMAIN wire} \cup Garbage :
       /\ ReadRecord(r) /\ r.type = "app" /\ Opens(r)
       /\ appBuf' = IF r.inner = "app" THEN r.body ELSE appBuf
       /\ need' = IF r.inner = "alert" THEN 0 ELSE need
  /\ recv' = [recv EXCEPT !.seq = @ + 1]
  /\ UNCHANGED <<conn, stage, skipped, gotServerFinished, transcript, hsBuf, got,
                 nonces, server>>

\* A record that does not open, or an alert, ends the call; other plain records
\* are skipped.  These come only behind a cut read or a KeyUpdate.
ReadOther ==
  /\ need > 0 /\ appBuf = <<>>
  /\ \E r \in {wire[i] : i \in DOMAIN wire} \cup Garbage :
       /\ ReadRecord(r) /\ (r.type = "app" => ~Opens(r))
       /\ need' = IF r.type \in {"app", "alert"} THEN 0 ELSE need
  /\ UNCHANGED <<conn, stage, skipped, gotServerFinished, transcript, hsBuf, recv, appBuf,
                 got, nonces, server>>

ReadGivesUp ==
  /\ need > 0 /\ appBuf = <<>> /\ ReadFails /\ need' = 0
  /\ UNCHANGED <<conn, stage, skipped, gotServerFinished, transcript, hsBuf, recv, appBuf,
                 got, nonces, server>>

Next ==
  \/ \E sent \in BOOLEAN : Connect(sent) \/ Finish(sent) \/ Write(sent)
  \/ ReadServerHello \/ ReadFlight
  \/ \E n \in Asks : StartRead(n)
  \/ ReadBuffered \/ ReadOpened \/ ReadOther \/ ReadGivesUp
  \/ ServerHello \/ ServerFlight \/ ServerSwitchesKeys \/ ServerData \/ ServerCloses

Spec == Init /\ [][Next]_vars

-------------------------------------------------------------------------------
\* No two records are sealed with the same key and the same number, over any
\* connections, handshakes that stop half way and sends that fail: a nonce used
\* twice gives both plaintexts away (tls.cpp:113, :162).
NoNonceReuse == ~reused

\* What NoNonceReuse needs to be inductive: the numbers from the current one on
\* are unused under the current key, and so is every key still to come.
Behind(n, s) == n.key = s.key => n.seq < s.seq
OfConns(n, c) == n.key.of <= c /\ n.key # NoKey
NonceInv ==
  /\ NoNonceReuse
  /\ \A n \in sealed : OfConns(n, conn) /\ Behind(n, send)
  /\ stage \in {"idle", "server_hello"} => \A n \in sealed : n.key.of < conn
  /\ stage = "flight" => /\ send.key = Key("chs", conn)
                         /\ \A n \in sealed : n.key # Key("cap", conn)
  /\ stage = "established" => send.key = Key("cap", conn)

\* Application data go out and come in only behind this connection's own
\* Finished, over exactly the messages the server sent, whatever an earlier
\* connection left in the flags (tls.cpp:69, :352).
EstablishedBehindFinished ==
  stage = "established" => /\ finOk /\ transcript = Append(BeforeFinished, "FN")
                           /\ recv.key.of = conn

\* What EstablishedBehindFinished needs to be inductive: before the server has
\* answered there is no hello to read, and the Finished it has yet to choose is
\* not taken for read.
FinishedInv ==
  /\ EstablishedBehindFinished
  /\ srv = "wait" => /\ stage \in {"server_hello", "failed"} /\ ~gotServerFinished
                     /\ wire \in Seq({Plain("ccs", <<>>)})
  /\ gotServerFinished => finOk /\ transcript = Append(BeforeFinished, "FN")
  /\ stage \in {"idle", "server_hello"} => ~gotServerFinished

\* As long as no read was cut and the server has not changed its keys, the
\* numbers of both sides agree: the next record opens (tls.cpp:145, :162).
NextRecordOpens ==
  \A i \in DOMAIN wire :
    (/\ stage \in {"flight", "established"} /\ ~cut
     /\ wire[i].type = "app" /\ \A j \in 1 .. i - 1 : wire[j].type # "app") =>
       \/ Opens(wire[i])
       \/ wire[i].key.name = "sap2"
       \/ stage = "flight" /\ gotServerFinished

\* What read gives out is the server's stream from its first byte on, nothing
\* missing, doubled or out of place, also behind reads that ended inside a
\* record: the stream then stops for good.
Reader == INSTANCE ByteStream WITH
            length <- IF conn = 0 THEN 0 ELSE MaxBytes, arrived <- wrote,
            delivered <- got, ended <- FALSE
ReadsAreTheStream == Reader!Spec
===============================================================================
