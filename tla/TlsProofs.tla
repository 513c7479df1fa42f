------------------------------- MODULE TlsProofs -------------------------------
(***************************************************************************)
(* Proofs about TlsClient, for every number of connections and records:    *)
(* no nonce is used twice, application data flow only behind this          *)
(* connection's own Finished, as long as nothing is lost the next record   *)
(* opens, and what a read gives out is the server's stream.                *)
(***************************************************************************)
EXTENDS TlsClient, SequenceTheorems, TLAPS

-------------------------------------------------------------------------------
(* Nonces *)

\* The part of the type invariant the proofs need.
Numbers(n) == n.seq \in Nat /\ n.key.of \in Nat
NonceType ==
  /\ conn \in Nat /\ send.seq \in Nat
  /\ send = [key |-> send.key, seq |-> send.seq]
  /\ \A n \in sealed : Numbers(n)

NonceIInv == NonceType /\ NonceInv

LEMMA KeysDiffer ==
  ASSUME NEW c, NEW d
  PROVE  /\ Key("chs", c) # Key("cap", d)
         /\ Key("chs", c) # NoKey /\ Key("cap", c) # NoKey
         /\ Key("chs", c).of = c /\ Key("cap", c).of = c
         /\ Fresh(NoKey) = [key |-> Fresh(NoKey).key, seq |-> Fresh(NoKey).seq]
         /\ Fresh(NoKey).seq = 0 /\ Fresh(NoKey).key = NoKey
  BY DEF Key, Fresh, NoKey

\* A number that is behind stays behind, and so does the one just used.
LEMMA BehindNext ==
  ASSUME NEW s, s.seq \in Nat, NEW t, t.key = s.key, t.seq = s.seq + 1,
         NEW n, Numbers(n), Behind(n, s) \/ n = s
  PROVE  Behind(n, t)
<1>1. n.key = t.key => n.seq \in Nat /\ (n.seq < s.seq \/ n.seq = s.seq)
  BY DEF Behind, Numbers
<1>2. n.key = t.key => n.seq < t.seq
  BY <1>1
<1> QED BY <1>2 DEF Behind

\* A seal adds a number that was unused and moves on from it.
LEMMA SealNew ==
  ASSUME NonceIInv, stage \in {"flight", "established"}, sealed' = sealed \cup {send},
         NEW t, t.key = send.key, t.seq = send.seq + 1
  PROVE  /\ send \notin sealed /\ t.seq \in Nat
         /\ \A n \in sealed' : Numbers(n) /\ OfConns(n, conn) /\ Behind(n, t)
         /\ stage = "flight" => \A n \in sealed' : n.key # Key("cap", conn)
<1>1. send \notin sealed
  BY DEF NonceIInv, NonceType, NonceInv, Behind
<1>2. send.key = Key("chs", conn) \/ send.key = Key("cap", conn)
  BY DEF NonceIInv, NonceInv
<1>3. send.key # NoKey /\ send.key.of = conn /\ conn \in Nat /\ send.seq \in Nat
  BY <1>2, KeysDiffer DEF NonceIInv, NonceType
<1>4. Numbers(send) /\ OfConns(send, conn) /\ t.seq \in Nat
  BY <1>3 DEF Numbers, OfConns
<1>5. \A n \in sealed : Numbers(n) /\ OfConns(n, conn) /\ Behind(n, send)
  BY DEF NonceIInv, NonceType, NonceInv
<1>6. \A n \in sealed' : Numbers(n) /\ OfConns(n, conn) /\ (Behind(n, send) \/ n = send)
  BY <1>4, <1>5
<1>7. \A n \in sealed' : Behind(n, t)
  BY <1>3, <1>6, BehindNext
<1>8. stage = "flight" => \A n \in sealed' : n.key # Key("cap", conn)
  BY KeysDiffer DEF NonceIInv, NonceInv
<1> QED BY <1>1, <1>4, <1>6, <1>7, <1>8

LEMMA NonceInit == Init => NonceIInv
<1> SUFFICES ASSUME Init PROVE NonceIInv
  OBVIOUS
<1> QED BY KeysDiffer DEF Init, NonceIInv, NonceType, NonceInv, NoNonceReuse

LEMMA ConnectNonce ==
  ASSUME NonceIInv, NEW sent \in BOOLEAN, Connect(sent)
  PROVE  NonceIInv'
<1>1. conn \in Nat /\ conn' = conn + 1 /\ sealed' = sealed /\ ~reused'
      /\ send' = Fresh(NoKey) /\ stage' \in {"server_hello", "failed"}
  BY DEF Connect, NonceIInv, NonceType, NonceInv, NoNonceReuse
<1>2. conn' \in Nat /\ \A k \in Nat : k <= conn => k < conn' /\ k <= conn'
  BY <1>1
<1>3. \A n \in sealed : Numbers(n) /\ OfConns(n, conn)
  BY DEF NonceIInv, NonceType, NonceInv
<1>4. \A n \in sealed : n.key.of < conn' /\ OfConns(n, conn')
  BY <1>2, <1>3 DEF Numbers, OfConns
<1>5. \A n \in sealed : n.key # NoKey
  BY <1>3 DEF OfConns
<1>6. send'.key = NoKey
  BY <1>1, KeysDiffer
<1>7. \A n \in sealed : Behind(n, send')
  BY <1>5, <1>6 DEF Behind
<1>8. NonceType'
  BY <1>1, <1>2, <1>3, KeysDiffer DEF NonceType
<1>9. NonceInv'
  BY <1>1, <1>4, <1>7 DEF NonceInv, NoNonceReuse
<1> QED BY <1>8, <1>9 DEF NonceIInv

\* Nothing of it changes: any step that leaves the nonces, the number of
\* connections and the stage's side alone.
LEMMA QuietNonce ==
  ASSUME NonceIInv, UNCHANGED <<conn, nonces>>,
         stage' = stage \/ (stage' = "failed" /\ stage # "idle")
  PROVE  NonceIInv'
<1>1. conn' = conn /\ send' = send /\ sealed' = sealed /\ reused' = reused
  BY DEF nonces
<1> QED BY <1>1 DEF NonceIInv, NonceType, NonceInv, NoNonceReuse

LEMMA HelloNonce ==
  ASSUME NonceIInv, ReadServerHello
  PROVE  NonceIInv'
<1>1. stage = "server_hello" /\ conn' = conn /\ sealed' = sealed /\ reused' = reused
  BY DEF ReadServerHello
<1>2. CASE send' = send /\ stage' \in {stage, "failed"}
  BY <1>1, <1>2, QuietNonce DEF nonces
<1>3. CASE stage' = "flight" /\ send' = Rekey(send, Key("chs", conn))
  <2>1. send' = [key |-> Key("chs", conn), seq |-> 0]
    BY <1>3 DEF Rekey, Fresh
  <2>2. \A n \in sealed : Numbers(n) /\ n.key.of < conn /\ conn \in Nat
    BY <1>1 DEF NonceIInv, NonceType, NonceInv
  <2>3. \A n \in sealed : n.key.of # conn
    BY <2>2 DEF Numbers
  <2>4. \A n \in sealed : n.key # Key("chs", conn) /\ n.key # Key("cap", conn)
    BY <2>3, KeysDiffer
  <2>5. send'.key = Key("chs", conn) /\ send'.seq = 0
    BY <2>1
  <2>6. \A n \in sealed : Behind(n, send') /\ OfConns(n, conn)
    BY <2>4, <2>5 DEF Behind, NonceIInv, NonceInv
  <2>7. NonceType'
    BY <1>1, <2>1, <2>5 DEF NonceIInv, NonceType
  <2>8. NonceInv'
    BY <1>1, <1>3, <2>4, <2>5, <2>6 DEF NonceIInv, NonceInv, NoNonceReuse
  <2> QED BY <2>7, <2>8 DEF NonceIInv
<1> QED BY <1>2, <1>3 DEF ReadServerHello, Fail

\* The number behind send.
LEMMA SendNext ==
  ASSUME NonceIInv
  PROVE  LET t == [send EXCEPT !.seq = send.seq + 1]
         IN t.key = send.key /\ t.seq = send.seq + 1 /\ t = [key |-> t.key, seq |-> t.seq]
  BY DEF NonceIInv, NonceType

LEMMA FinishNonce ==
  ASSUME NonceIInv, NEW sent \in BOOLEAN, Finish(sent)
  PROVE  NonceIInv'
<1> DEFINE t == [send EXCEPT !.seq = send.seq + 1]
<1>1. stage = "flight" /\ sealed' = sealed \cup {send} /\ conn' = conn
  BY DEF Finish
<1>2. t.key = send.key /\ t.seq = send.seq + 1 /\ t = [key |-> t.key, seq |-> t.seq]
  BY SendNext
<1> HIDE DEF t
<1>3. /\ send \notin sealed /\ t.seq \in Nat
      /\ \A n \in sealed' : Numbers(n) /\ OfConns(n, conn) /\ Behind(n, t)
      /\ \A n \in sealed' : n.key # Key("cap", conn)
  BY <1>1, <1>2, SealNew
<1>4. ~reused'
  BY <1>3 DEF Finish, NonceIInv, NonceInv, NoNonceReuse
<1>5. conn \in Nat
  BY DEF NonceIInv, NonceType
<1>6. CASE sent
  <2>1. stage' = "established" /\ send' = [key |-> Key("cap", conn), seq |-> 0]
    BY <1>6 DEF Finish, Rekey, Fresh
  <2>2. send'.key = Key("cap", conn) /\ send'.seq = 0
    BY <2>1
  <2>3. \A n \in sealed' : Behind(n, send')
    BY <1>3, <2>2 DEF Behind
  <2>4. NonceType'
    BY <1>1, <1>3, <1>5, <2>1, <2>2 DEF NonceType
  <2>5. NonceInv'
    BY <1>1, <1>3, <1>4, <2>1, <2>2, <2>3 DEF NonceInv, NoNonceReuse
  <2> QED BY <2>4, <2>5 DEF NonceIInv
<1>7. CASE ~sent
  <2>1. stage' = "failed" /\ send' = t
    BY <1>7 DEF Finish, Fail, AfterSeal, t
  <2>2. NonceType'
    BY <1>1, <1>2, <1>3, <1>5, <2>1 DEF NonceType
  <2>3. NonceInv'
    BY <1>1, <1>3, <1>4, <2>1 DEF NonceInv, NoNonceReuse
  <2> QED BY <2>2, <2>3 DEF NonceIInv
<1> QED BY <1>6, <1>7

LEMMA WriteNonce ==
  ASSUME NonceIInv, NEW sent \in BOOLEAN, Write(sent)
  PROVE  NonceIInv'
<1> DEFINE t == [send EXCEPT !.seq = send.seq + 1]
<1>1. /\ stage = "established" /\ stage' = stage /\ conn' = conn
      /\ sealed' = sealed \cup {send} /\ send' = t
  BY DEF Write, Seal, AfterSeal
<1>2. t.key = send.key /\ t.seq = send.seq + 1 /\ t = [key |-> t.key, seq |-> t.seq]
  BY SendNext
<1> HIDE DEF t
<1>3. /\ send \notin sealed /\ t.seq \in Nat
      /\ \A n \in sealed' : Numbers(n) /\ OfConns(n, conn) /\ Behind(n, t)
  BY <1>1, <1>2, SealNew
<1>4. ~reused'
  BY <1>3 DEF Write, Seal, NonceIInv, NonceInv, NoNonceReuse
<1>5. send.key = Key("cap", conn) /\ conn \in Nat
  BY <1>1 DEF NonceIInv, NonceType, NonceInv
<1>6. NonceType'
  BY <1>1, <1>2, <1>3, <1>5 DEF NonceType
<1>7. NonceInv'
  BY <1>1, <1>2, <1>3, <1>4, <1>5 DEF NonceInv, NoNonceReuse
<1> QED BY <1>6, <1>7 DEF NonceIInv

\* Every other action leaves them alone.
LEMMA OtherNonce ==
  ASSUME NonceIInv,
         \/ ReadFlight \/ (\E n \in Asks : StartRead(n)) \/ ReadBuffered \/ ReadOpened
         \/ ReadOther \/ ReadGivesUp \/ ServerHello \/ ServerFlight
         \/ ServerSwitchesKeys \/ ServerData \/ ServerCloses \/ UNCHANGED vars
  PROVE  NonceIInv'
<1>1. CASE ReadFlight
  <2>1. stage = "flight" /\ UNCHANGED <<conn, nonces>> /\ stage' \in {stage, "failed"}
    BY <1>1 DEF ReadFlight, Accumulate, Fail
  <2> QED BY <2>1, QuietNonce
<1>2. CASE (\E n \in Asks : StartRead(n)) \/ ReadBuffered \/ ReadOpened \/ ReadOther \/ ReadGivesUp
  <2>1. UNCHANGED <<conn, stage, nonces>>
    BY <1>2 DEF StartRead, ReadBuffered, ReadOpened, ReadOther, ReadGivesUp
  <2> QED BY <2>1, QuietNonce
<1>3. CASE ServerHello \/ ServerFlight \/ ServerSwitchesKeys \/ ServerData \/ ServerCloses
  <2>1. UNCHANGED client
    BY <1>3 DEF ServerHello, ServerFlight, ServerSwitchesKeys, ServerData, ServerCloses
  <2> QED BY <2>1, QuietNonce DEF client
<1>4. CASE UNCHANGED vars
  BY <1>4, QuietNonce DEF vars
<1> QED BY <1>1, <1>2, <1>3, <1>4

LEMMA NonceStep == NonceIInv /\ [Next]_vars => NonceIInv'
<1> SUFFICES ASSUME NonceIInv, [Next]_vars PROVE NonceIInv'
  OBVIOUS
<1>1. CASE \E sent \in BOOLEAN : Connect(sent)
  BY <1>1, ConnectNonce
<1>2. CASE \E sent \in BOOLEAN : Finish(sent)
  BY <1>2, FinishNonce
<1>3. CASE \E sent \in BOOLEAN : Write(sent)
  BY <1>3, WriteNonce
<1>4. CASE ReadServerHello
  BY <1>4, HelloNonce
<1> QED BY <1>1, <1>2, <1>3, <1>4, OtherNonce DEF Next

\* No two records are sealed under one key with one number: the invariant behind
\* it holds in every state, for every number of connections, records and failed
\* sends.
THEOREM NoncesHold == Spec => []NonceInv
<1>1. NonceIInv => NonceInv
  BY DEF NonceIInv
<1> QED BY <1>1, NonceInit, NonceStep, PTL DEF Spec

\* In particular no nonce is ever used twice.
THEOREM NoncesNeverReused == Spec => []NoNonceReuse
<1>1. NonceInv => NoNonceReuse
  BY DEF NonceInv
<1> QED BY <1>1, NoncesHold, PTL

-------------------------------------------------------------------------------
(* The Finished *)

RecvType == recv = [key |-> recv.key, seq |-> recv.seq]
FinishedIInv == RecvType /\ FinishedInv

LEMMA FinishedInit == Init => FinishedIInv
  BY DEF Init, Fresh, FinishedIInv, RecvType, FinishedInv, EstablishedBehindFinished

\* Steps that leave alone what the invariant speaks of.
LEMMA QuietFinished ==
  ASSUME FinishedIInv, UNCHANGED <<conn, gotServerFinished, transcript, srv, finOk, wire>>,
         stage' = stage \/ (stage' = "failed" /\ stage # "idle"),
         recv' = recv
  PROVE  FinishedIInv'
  BY DEF FinishedIInv, RecvType, FinishedInv, EstablishedBehindFinished

\* So do reads: the wire loses records, and only a record that opens counts.
LEMMA ReadFinished ==
  ASSUME FinishedIInv, UNCHANGED <<conn, gotServerFinished, transcript, srv, finOk>>,
         stage' = stage \/ (stage' = "failed" /\ stage # "idle"), srv # "wait",
         recv' = recv \/ recv' = [recv EXCEPT !.seq = @ + 1]
  PROVE  FinishedIInv'
<1>1. RecvType' /\ recv'.key = recv.key
  BY DEF FinishedIInv, RecvType
<1> QED BY <1>1 DEF FinishedIInv, FinishedInv, EstablishedBehindFinished

LEMMA ConnectFinished ==
  ASSUME FinishedIInv, NEW sent \in BOOLEAN, Connect(sent)
  PROVE  FinishedIInv'
<1>1. /\ ~gotServerFinished' /\ stage' \in {"server_hello", "failed"}
      /\ recv' = Fresh(NoKey) /\ wire' = <<>>
  BY DEF Connect, NoFinished
<1>2. RecvType'
  BY <1>1 DEF RecvType, Fresh
<1>3. wire' \in Seq({Plain("ccs", <<>>)})
  BY <1>1
<1> QED BY <1>1, <1>2, <1>3 DEF FinishedIInv, FinishedInv, EstablishedBehindFinished

\* What a read leaves on a wire that holds nothing but ChangeCipherSpec records.
LEMMA WireRest ==
  ASSUME NEW S, wire \in Seq(S)
  PROVE  /\ ReadFails => wire' \in Seq(S)
         /\ \A r : ReadRecord(r) => wire' \in Seq(S)
<1>1. wire # <<>> => Tail(wire) \in Seq(S)
  OBVIOUS
<1>2. \A n \in 0 .. Len(wire) : SubSeq(wire, n + 1, Len(wire)) \in Seq(S)
  <2>1. TAKE n \in 0 .. Len(wire)
  <2>2. \A i \in n + 1 .. Len(wire) : wire[i] \in S
    <3>1. Len(wire) \in Nat /\ n \in Nat
      OBVIOUS
    <3>2. \A i \in n + 1 .. Len(wire) : i \in 1 .. Len(wire)
      BY <3>1
    <3> QED BY <3>2
  <2> QED BY <2>2
<1>3. ReadFails => wire' \in Seq(S)
  BY <1>1 DEF ReadFails
<1>4. \A r : ReadRecord(r) => wire' \in Seq(S)
  BY <1>1, <1>2 DEF ReadRecord
<1> QED BY <1>3, <1>4

LEMMA HelloFinished ==
  ASSUME FinishedIInv, ReadServerHello
  PROVE  FinishedIInv'
<1>1. /\ stage = "server_hello" /\ ~gotServerFinished
      /\ UNCHANGED <<conn, gotServerFinished, srv, finOk>>
  BY DEF ReadServerHello, server, FinishedIInv, FinishedInv
<1>2. srv = "wait" => wire' \in Seq({Plain("ccs", <<>>)})
  BY WireRest DEF ReadServerHello, FinishedIInv, FinishedInv
<1>3. srv = "wait" => stage' # "flight"
  <2>1. SUFFICES ASSUME srv = "wait", stage' = "flight" PROVE FALSE
    OBVIOUS
  <2>2. \A r \in {wire[i] : i \in DOMAIN wire} : r.body = <<>>
    BY <2>1 DEF FinishedIInv, FinishedInv, Plain
  <2>3. \E r \in {wire[i] : i \in DOMAIN wire} : r.body = <<"SH">>
    BY <1>1, <2>1 DEF ReadServerHello, Fail
  <2> QED BY <2>2, <2>3
<1>4. stage' \in {"server_hello", "flight", "failed"}
  BY <1>1 DEF ReadServerHello, Fail
<1>5. RecvType'
  BY DEF ReadServerHello, Rekey, Fresh, FinishedIInv, RecvType
<1> QED BY <1>1, <1>2, <1>3, <1>4, <1>5 DEF FinishedIInv, FinishedInv, EstablishedBehindFinished

LEMMA FlightFinished ==
  ASSUME FinishedIInv, ReadFlight
  PROVE  FinishedIInv'
<1>1. /\ stage = "flight" /\ ~gotServerFinished /\ srv # "wait"
      /\ UNCHANGED <<conn, srv, finOk>> /\ stage' \in {"flight", "failed"}
  BY DEF ReadFlight, Accumulate, Fail, server, FinishedIInv, FinishedInv
<1>2. RecvType'
  BY DEF ReadFlight, FinishedIInv, RecvType
<1>3. gotServerFinished' => finOk /\ transcript' = Append(BeforeFinished, "FN")
  BY <1>1 DEF ReadFlight, Accumulate, FinishedMatches
<1> QED BY <1>1, <1>2, <1>3 DEF FinishedIInv, FinishedInv, EstablishedBehindFinished

LEMMA FinishFinished ==
  ASSUME FinishedIInv, NEW sent \in BOOLEAN, Finish(sent)
  PROVE  FinishedIInv'
<1>1. /\ stage = "flight" /\ gotServerFinished /\ srv # "wait"
      /\ UNCHANGED <<conn, gotServerFinished, transcript, srv, finOk>>
  BY DEF Finish, server, FinishedIInv, FinishedInv
<1>2. CASE ~sent
  BY <1>1, <1>2, ReadFinished DEF Finish, Fail
<1>3. CASE sent
  <2>1. stage' = "established" /\ recv' = [key |-> Key("sap", conn), seq |-> 0]
    BY <1>3 DEF Finish, Rekey, Fresh
  <2>2. RecvType' /\ recv'.key.of = conn
    BY <2>1 DEF RecvType, Key
  <2> QED BY <1>1, <2>1, <2>2 DEF FinishedIInv, FinishedInv, EstablishedBehindFinished
<1> QED BY <1>2, <1>3

\* The server's answer: only a connection that still waits can be given one.
LEMMA ServerHelloFinished ==
  ASSUME FinishedIInv, ServerHello
  PROVE  FinishedIInv'
<1>1. /\ srv = "wait" /\ ~gotServerFinished /\ stage \in {"server_hello", "failed"}
      /\ wire \in Seq({Plain("ccs", <<>>)})
      /\ UNCHANGED <<conn, stage, gotServerFinished, transcript, recv>>
  BY DEF ServerHello, client, FinishedIInv, FinishedInv
<1>2. srv' = "wait" => wire' = Append(wire, Plain("ccs", <<>>))
  BY <1>1 DEF ServerHello, Sends
<1>3. srv' = "wait" => wire' \in Seq({Plain("ccs", <<>>)})
  BY <1>1, <1>2
<1> QED BY <1>1, <1>3 DEF FinishedIInv, RecvType, FinishedInv, EstablishedBehindFinished

LEMMA FinishedStep == FinishedIInv /\ [Next]_vars => FinishedIInv'
<1> SUFFICES ASSUME FinishedIInv, [Next]_vars PROVE FinishedIInv'
  OBVIOUS
<1>1. CASE \E sent \in BOOLEAN : Connect(sent)
  BY <1>1, ConnectFinished
<1>2. CASE \E sent \in BOOLEAN : Finish(sent)
  BY <1>2, FinishFinished
<1>3. CASE (\E sent \in BOOLEAN : Write(sent)) \/ (\E n \in Asks : StartRead(n)) \/ ReadBuffered
  BY <1>3, QuietFinished DEF Write, StartRead, ReadBuffered, server
<1>4. CASE ReadServerHello
  BY <1>4, HelloFinished
<1>5. CASE ReadFlight
  BY <1>5, FlightFinished
<1>6. CASE ReadOpened \/ ReadOther \/ ReadGivesUp
  <2>1. /\ UNCHANGED <<conn, stage, gotServerFinished, transcript, srv, finOk>>
        /\ recv' = recv \/ recv' = [recv EXCEPT !.seq = @ + 1]
    BY <1>6 DEF ReadOpened, ReadOther, ReadGivesUp, server
  <2>2. CASE srv # "wait"
    BY <2>1, <2>2, ReadFinished
  <2>3. CASE srv = "wait"
    <3>1. wire' \in Seq({Plain("ccs", <<>>)})
      BY <1>6, <2>3, WireRest DEF ReadOpened, ReadOther, ReadGivesUp, FinishedIInv, FinishedInv
    <3>2. RecvType' /\ recv'.key = recv.key
      BY <2>1 DEF FinishedIInv, RecvType
    <3> QED BY <2>1, <3>1, <3>2 DEF FinishedIInv, FinishedInv, EstablishedBehindFinished
  <2> QED BY <2>2, <2>3
<1>7. CASE ServerHello
  BY <1>7, ServerHelloFinished
<1>8. CASE ServerFlight \/ ServerSwitchesKeys \/ ServerData
  <2>1. UNCHANGED client /\ srv # "wait" /\ srv' # "wait" /\ finOk' = finOk
    BY <1>8 DEF ServerFlight, ServerSwitchesKeys, ServerData, server
  <2> QED BY <2>1 DEF client, FinishedIInv, RecvType, FinishedInv, EstablishedBehindFinished
<1>9. CASE ServerCloses
  <2>1. UNCHANGED client /\ srv' = "closed" /\ finOk' = finOk
    BY <1>9 DEF ServerCloses
  <2> QED BY <2>1 DEF client, FinishedIInv, RecvType, FinishedInv, EstablishedBehindFinished
<1>10. CASE UNCHANGED vars
  BY <1>10, QuietFinished DEF vars, server
<1> QED BY <1>1, <1>2, <1>3, <1>4, <1>5, <1>6, <1>7, <1>8, <1>9, <1>10 DEF Next

\* Application data flow only behind this connection's Finished, over the
\* messages the server sent, whatever earlier connections left behind.
THEOREM FinishedHolds == Spec => []FinishedInv
<1>1. FinishedIInv => FinishedInv
  BY DEF FinishedIInv
<1> QED BY <1>1, FinishedInit, FinishedStep, PTL DEF Spec

-------------------------------------------------------------------------------
(* The numbers of both sides *)

\* A place in what the server sends: the key and the number of its next record, and
\* how much of its flight is behind.
Place(k, s, p) == [key |-> k, seq |-> s, pos |-> p]
IsPlace(x) == x.seq \in Nat /\ x.pos \in 0 .. 6
Half == {"EE", "CT", "FN"}
\* The halves are those of the flight behind place p.
Halves(b, p) == b \in Seq(Half) /\ \A j \in 1 .. Len(b) : b[j] = Flight[p + j]

\* From place x the next application record has number s.
AppFrom(x, s, c) == \/ x.key = Key("shs", c) /\ x.pos = 6 /\ s = 0
                    \/ x.key = Key("sap", c) /\ x.seq = s

IsHello(r) == r.type = "hs" /\ r.body = <<"SH">>
Silent(r) == r.type # "app" /\ ~IsHello(r)

\* Record r goes from place x to place y.
FlightRecord(x, r, y, c) ==
  /\ r.key = Key("shs", c) /\ x.key = r.key /\ x.seq = r.seq
  /\ x.pos < 6 /\ x.pos + Len(r.body) <= 6 /\ Halves(r.body, x.pos)
  /\ y = Place(r.key, r.seq + 1, x.pos + Len(r.body))
AppRecord(x, r, y, c) ==
  r.key = Key("sap", c) /\ AppFrom(x, r.seq, c) /\ y = Place(r.key, r.seq + 1, 6)
Passes(x, r, y, c) ==
  /\ IsHello(r) => y = Place(Key("shs", c), 0, 0)
  /\ Silent(r) => y = x
  /\ r.type = "app" => \/ FlightRecord(x, r, y, c)
                       \/ AppRecord(x, r, y, c)
                       \/ r.key = Key("sap2", c) /\ y.key = r.key

\* e gives the place behind each record of ws, and in front of the first.
Places(e, ws, c) ==
  /\ \A i \in 0 .. Len(ws) : IsPlace(e[i])
  /\ \A i \in 1 .. Len(ws) : Passes(e[i - 1], ws[i], e[i], c)
  /\ \A i, k \in 0 .. Len(ws) :
       i <= k /\ (\A j \in i + 1 .. k : Silent(ws[j])) => e[k] = e[i]

\* The client's side: what it reads next, and what it keeps of the flight.
InFlight(x) ==
  /\ recv.key = Key("shs", conn) /\ x.key = recv.key /\ x.seq = recv.seq /\ x.pos < 6
  /\ \E m \in 0 .. 2 : x.pos = 2 * m + Len(hsBuf) /\ Halves(hsBuf, 2 * m)
ClientAt(x) ==
  /\ stage = "flight" /\ ~gotServerFinished => InFlight(x)
  /\ stage = "flight" /\ gotServerFinished => x.key = Key("shs", conn) /\ x.pos = 6
  /\ stage = "established" => /\ recv.key = Key("sap", conn)
                              /\ x.key = Key("sap2", conn) \/ AppFrom(x, recv.seq, conn)

\* The server's side: what it sends next, and what is left of its flight.
ServerAt(x) ==
  /\ srv = "flight" => /\ srvKey = Key("shs", conn) /\ x.key = srvKey /\ x.seq = srvSeq
                       /\ x.pos = 6 - Len(left) /\ Halves(left, x.pos)
  /\ srv = "app" => \/ srvKey = Key("sap2", conn)
                    \/ srvKey = Key("sap", conn) /\ AppFrom(x, srvSeq, conn)

\* Of hellos there is one, in front of everything the client has yet to open.
Hellos == /\ \A i, j \in 1 .. Len(wire) : IsHello(wire[i]) /\ IsHello(wire[j]) => i = j
          /\ stage # "server_hello" => \A i \in 1 .. Len(wire) : ~IsHello(wire[i])

Reading == stage \in {"server_hello", "flight", "established"} /\ ~cut
InOrder == \E e : Places(e, wire, conn) /\ ClientAt(e[0]) /\ ServerAt(e[Len(wire)])

\* The inductive invariant of the numbers.
OrderInv ==
  /\ \E S : wire \in Seq(S)
  /\ srvSeq \in Nat /\ srv \in {"wait", "flight", "app", "closed"}
  /\ stage = "server_hello" => hsBuf = <<>>
  /\ need # 0 => stage = "established"
  /\ Reading => Hellos /\ InOrder

LEMMA NamesDiffer ==
  ASSUME NEW c
  PROVE  /\ Key("shs", c) # Key("sap", c) /\ Key("shs", c) # Key("sap2", c)
         /\ Key("sap", c) # Key("sap2", c) /\ Key("sap2", c).name = "sap2"
  BY DEF Key

LEMMA PlaceIs ==
  ASSUME NEW k, NEW s, NEW p
  PROVE  Place(k, s, p).key = k /\ Place(k, s, p).seq = s /\ Place(k, s, p).pos = p
  BY DEF Place

LEMMA WireAppend ==
  ASSUME NEW S, NEW ws \in Seq(S), NEW r
  PROVE  /\ \E T : Append(ws, r) \in Seq(T)
         /\ Len(Append(ws, r)) = Len(ws) + 1 /\ Append(ws, r)[Len(ws) + 1] = r /\ Len(ws) \in Nat
         /\ \A i \in 1 .. Len(ws) : Append(ws, r)[i] = ws[i]
<1> DEFINE T == S \cup {r}
<1>1. ws \in Seq(T)
  BY SeqMonotonic
<1>2. r \in T
  OBVIOUS
<1> HIDE DEF T
<1>3. Append(ws, r) \in Seq(T)
  BY <1>1, <1>2
<1>4. /\ Len(Append(ws, r)) = Len(ws) + 1 /\ Append(ws, r)[Len(ws) + 1] = r /\ Len(ws) \in Nat
      /\ \A i \in 1 .. Len(ws) : Append(ws, r)[i] = ws[i]
  BY <1>1, <1>2
<1> QED BY <1>3, <1>4

\* A new connection has nothing on its wire.
LEMMA PlacesNew ==
  ASSUME NEW x, IsPlace(x), NEW c
  PROVE  \E e : Places(e, <<>>, c) /\ e[0] = x
<1> DEFINE e == [i \in 0 .. 0 |-> x]
<1>1. Len(<<>>) = 0 /\ 0 .. 0 = {0} /\ 1 .. 0 = {}
  OBVIOUS
<1>2. e[0] = x
  BY <1>1
<1> HIDE DEF e
<1>3. Places(e, <<>>, c)
  BY <1>1, <1>2 DEF Places
<1> QED BY <1>2, <1>3

\* A record at the end of the wire goes from the last place to a new one.
GrowsTo(e, ws, c, r, y) ==
  \E f : Places(f, Append(ws, r), c) /\ f[0] = e[0] /\ f[Len(Append(ws, r))] = y
LEMMA PlacesGrow ==
  ASSUME NEW S, NEW ws \in Seq(S), NEW r, NEW c, NEW e, Places(e, ws, c),
         NEW y, IsPlace(y), Passes(e[Len(ws)], r, y, c)
  PROVE  GrowsTo(e, ws, c, r, y)
<1> DEFINE q == Append(ws, r)
           n == Len(ws)
           f == [i \in 0 .. n + 1 |-> IF i = n + 1 THEN y ELSE e[i]]
<1>1. Len(q) = n + 1 /\ q[n + 1] = r /\ n \in Nat /\ \A i \in 1 .. n : q[i] = ws[i]
  BY WireAppend
<1> HIDE DEF q, n
<1>2. f[n + 1] = y /\ \A i \in 0 .. n : f[i] = e[i]
  <2>1. n + 1 \in 0 .. n + 1
    BY <1>1
  <2>2. \A i \in 0 .. n : i \in 0 .. n + 1 /\ i # n + 1
    BY <1>1
  <2> QED BY <2>1, <2>2
<1> HIDE DEF f
<1>3. /\ \A i \in 0 .. n + 1 : i \in 0 .. n \/ i = n + 1
      /\ \A i \in 1 .. n + 1 : i \in 1 .. n \/ i = n + 1
      /\ \A i \in 1 .. n : i - 1 \in 0 .. n /\ i \in 0 .. n
      /\ n + 1 - 1 = n /\ n \in 0 .. n /\ 0 \in 0 .. n
  BY <1>1
<1>4. /\ \A i \in 0 .. n : IsPlace(e[i])
      /\ \A i \in 1 .. n : Passes(e[i - 1], ws[i], e[i], c)
      /\ \A i, k \in 0 .. n : i <= k /\ (\A j \in i + 1 .. k : Silent(ws[j])) => e[k] = e[i]
      /\ Passes(e[n], r, y, c)
  BY DEF Places, n
<1>5. \A i \in 0 .. n + 1 : IsPlace(f[i])
  BY <1>2, <1>3, <1>4
<1>6. ASSUME NEW i \in 1 .. n + 1 PROVE Passes(f[i - 1], q[i], f[i], c)
  <2>1. CASE i \in 1 .. n
    BY <1>1, <1>2, <1>3, <1>4, <2>1
  <2>2. CASE i = n + 1
    BY <1>1, <1>2, <1>3, <1>4, <2>2
  <2> QED BY <1>3, <2>1, <2>2
<1>7. ASSUME NEW i \in 0 .. n + 1, NEW k \in 0 .. n + 1, i <= k,
             \A j \in i + 1 .. k : Silent(q[j])
      PROVE  f[k] = f[i]
  <2>1. CASE k \in 0 .. n
    <3>1. i \in 0 .. n /\ \A j \in i + 1 .. k : j \in 1 .. n
      BY <1>1, <1>7, <2>1
    <3>2. \A j \in i + 1 .. k : Silent(ws[j])
      BY <1>1, <1>7, <3>1
    <3> QED BY <1>2, <1>4, <1>7, <2>1, <3>1, <3>2
  <2>2. CASE k = n + 1 /\ i \in 0 .. n
    <3>1. n + 1 \in i + 1 .. k /\ i <= n
      BY <1>1, <2>2
    <3>2. \A j \in i + 1 .. n : j \in 1 .. n /\ j \in i + 1 .. k
      BY <1>1, <2>2
    <3>3. Silent(r) /\ \A j \in i + 1 .. n : Silent(ws[j])
      BY <1>1, <1>7, <3>1, <3>2
    <3>4. y = e[n] /\ e[n] = e[i]
      BY <1>3, <1>4, <2>2, <3>1, <3>3 DEF Passes
    <3> QED BY <1>2, <2>2, <3>4
  <2> QED BY <1>3, <2>1, <2>2
<1>8. Places(f, q, c)
  BY <1>1, <1>5, <1>6, <1>7 DEF Places
<1>9. f[0] = e[0] /\ f[Len(q)] = y
  BY <1>1, <1>2, <1>3
<1> QED BY <1>8, <1>9 DEF GrowsTo, q

\* Reading takes the first record and goes to the place behind it.
GoesTo(e, ws, c) ==
  \E f : /\ Places(f, Tail(ws), c) /\ f[Len(Tail(ws))] = e[Len(ws)]
         /\ Passes(e[0], Head(ws), f[0], c) /\ IsPlace(f[0]) /\ IsPlace(e[0])
LEMMA PlacesRest ==
  ASSUME NEW S, NEW ws \in Seq(S), ws # <<>>, NEW c, NEW e, Places(e, ws, c)
  PROVE  GoesTo(e, ws, c)
<1> DEFINE q == Tail(ws)
           n == Len(ws)
           m == n - 1
           f == [i \in 0 .. m |-> e[i + 1]]
<1>1. /\ n \in Nat /\ n # 0 /\ Len(q) = n - 1 /\ Head(ws) = ws[1]
      /\ \A i \in 1 .. n - 1 : q[i] = ws[i + 1]
  OBVIOUS
<1>2. /\ \A i \in 0 .. n : IsPlace(e[i])
      /\ \A i \in 1 .. n : Passes(e[i - 1], ws[i], e[i], c)
      /\ \A i, k \in 0 .. n : i <= k /\ (\A j \in i + 1 .. k : Silent(ws[j])) => e[k] = e[i]
  BY DEF Places
<1> HIDE DEF q, n
<1>3. m \in Nat /\ m + 1 = n /\ Len(q) = m /\ \A i \in 1 .. m : q[i] = ws[i + 1]
  BY <1>1
<1> HIDE DEF m
<1>4. \A i \in 0 .. m : f[i] = e[i + 1]
  OBVIOUS
<1> HIDE DEF f
<1>5. \A i \in 0 .. m : i + 1 \in 0 .. n
  BY <1>3
<1>6. \A i \in 0 .. m : IsPlace(f[i])
  BY <1>2, <1>4, <1>5
<1>7. ASSUME NEW i \in 1 .. m PROVE Passes(f[i - 1], q[i], f[i], c)
  <2>1. i \in 0 .. m /\ i - 1 \in 0 .. m /\ i - 1 + 1 = i + 1 - 1 /\ i + 1 \in 1 .. n
    BY <1>3
  <2>2. f[i - 1] = e[i + 1 - 1] /\ f[i] = e[i + 1] /\ q[i] = ws[i + 1]
    BY <1>3, <1>4, <2>1
  <2>3. Passes(e[i + 1 - 1], ws[i + 1], e[i + 1], c)
    BY <1>2, <2>1
  <2> QED BY <2>2, <2>3
<1>8. ASSUME NEW i \in 0 .. m, NEW k \in 0 .. m, i <= k, \A j \in i + 1 .. k : Silent(q[j])
      PROVE  f[k] = f[i]
  <2>1. i + 1 \in 0 .. n /\ k + 1 \in 0 .. n /\ i + 1 <= k + 1
    BY <1>3, <1>8
  <2>2. ASSUME NEW j \in (i + 1) + 1 .. k + 1 PROVE Silent(ws[j])
    <3>1. PICK h \in i + 1 .. k : h + 1 = j
      <4>1. j - 1 \in i + 1 .. k /\ (j - 1) + 1 = j
        OBVIOUS
      <4> QED BY <4>1
    <3>2. h \in 1 .. m
      BY <1>3
    <3>3. q[h] = ws[h + 1]
      BY <1>3, <3>2
    <3> QED BY <1>8, <3>1, <3>3
  <2>3. e[k + 1] = e[i + 1]
    BY <1>2, <2>1, <2>2
  <2> QED BY <1>4, <2>3
<1>9. Places(f, q, c)
  BY <1>3, <1>6, <1>7, <1>8 DEF Places
<1>10. f[m] = e[n] /\ f[0] = e[1] /\ IsPlace(e[0]) /\ IsPlace(f[0])
  <2>1. m \in 0 .. m /\ 0 \in 0 .. m /\ 0 + 1 = 1 /\ 0 \in 0 .. n
    BY <1>1, <1>3
  <2> QED BY <1>2, <1>3, <1>4, <1>6, <2>1
<1>11. Passes(e[0], Head(ws), f[0], c)
  <2>1. 1 \in 1 .. n /\ 1 - 1 = 0
    BY <1>1
  <2> QED BY <1>1, <1>2, <1>10, <2>1
<1> QED BY <1>3, <1>9, <1>10, <1>11 DEF GoesTo, q, n

\* The server sends r: from every place it may be at, r leads to one it is at then.
Sendable(r) ==
  \A x : IsPlace(x) /\ ServerAt(x) =>
    \E y : IsPlace(y) /\ Passes(x, r, y, conn) /\ ServerAt(y)'
LEMMA SendOrder ==
  ASSUME OrderInv, UNCHANGED client, srvSeq' \in Nat,
         srv' \in {"wait", "flight", "app", "closed"},
         NEW r, wire' = Append(wire, r), Reading => Sendable(r),
         IsHello(r) => stage \in {"server_hello", "failed"}
                       /\ \A i \in 1 .. Len(wire) : ~IsHello(wire[i])
  PROVE  OrderInv'
<1>1. PICK S : wire \in Seq(S)
  BY DEF OrderInv
<1>2. /\ \E T : wire' \in Seq(T)
      /\ Len(wire') = Len(wire) + 1 /\ wire'[Len(wire) + 1] = r /\ Len(wire) \in Nat
      /\ \A i \in 1 .. Len(wire) : wire'[i] = wire[i]
  <2>1. /\ \E T : Append(wire, r) \in Seq(T)
        /\ Len(Append(wire, r)) = Len(wire) + 1 /\ Append(wire, r)[Len(wire) + 1] = r
        /\ Len(wire) \in Nat /\ \A i \in 1 .. Len(wire) : Append(wire, r)[i] = wire[i]
    BY <1>1, WireAppend
  <2> QED BY <2>1
<1>3. UNCHANGED <<stage, hsBuf, need, cut, conn, recv, gotServerFinished>>
  BY DEF client
<1>4. ASSUME Reading PROVE Hellos' /\ InOrder'
  <2>1. Hellos
    BY <1>4 DEF OrderInv
  <2>2. \A i \in 1 .. Len(wire') : i \in 1 .. Len(wire) \/ i = Len(wire) + 1
    BY <1>2
  <2>3. Hellos'
    BY <1>2, <1>3, <1>4, <2>1, <2>2 DEF Hellos, Reading
  <2>4. PICK e : Places(e, wire, conn) /\ ClientAt(e[0]) /\ ServerAt(e[Len(wire)])
    BY <1>4 DEF OrderInv, InOrder
  <2>5. IsPlace(e[Len(wire)])
    <3>1. Len(wire) \in 0 .. Len(wire)
      BY <1>2
    <3> QED BY <2>4, <3>1 DEF Places
  <2>6. PICK y : IsPlace(y) /\ Passes(e[Len(wire)], r, y, conn) /\ ServerAt(y)'
    BY <1>4, <2>4, <2>5 DEF Sendable
  <2>7. GrowsTo(e, wire, conn, r, y)
    BY <1>1, <2>4, <2>6, PlacesGrow
  <2>8. PICK f : Places(f, wire', conn) /\ f[0] = e[0] /\ f[Len(wire')] = y
    BY <2>7 DEF GrowsTo
  <2>9. PICK x : x = f[0] /\ x = e[0]
    BY <2>8
  <2>10. ClientAt(x)'
    BY <1>3, <2>4, <2>9 DEF ClientAt, InFlight
  <2> QED BY <1>3, <2>3, <2>6, <2>8, <2>9, <2>10 DEF InOrder
<1> QED BY <1>2, <1>3, <1>4 DEF OrderInv, Reading

LEMMA PlainSend ==
  ASSUME NEW r, Silent(r), \A x : ServerAt(x) => ServerAt(x)'
  PROVE  Sendable(r)
<1>1. \A x : Passes(x, r, x, conn)
  BY DEF Passes, Silent
<1> QED BY <1>1 DEF Sendable

LEMMA PlainIs ==
  ASSUME NEW t, NEW b
  PROVE  Plain(t, b).type = t /\ Plain(t, b).body = b
  BY DEF Plain
LEMMA PlainSilent ==
  ASSUME NEW t \in {"ccs", "alert", "other"}, NEW b
  PROVE  Silent(Plain(t, b))
  BY PlainIs DEF Silent, IsHello

LEMMA NoHelloYet ==
  ASSUME FinishedIInv, srv = "wait"
  PROVE  stage \in {"server_hello", "failed"} /\ \A i \in 1 .. Len(wire) : ~IsHello(wire[i])
<1>1. stage \in {"server_hello", "failed"} /\ wire \in Seq({Plain("ccs", <<>>)})
  BY DEF FinishedIInv, FinishedInv
<1>2. \A i \in 1 .. Len(wire) : wire[i].type = "ccs"
  BY <1>1, PlainIs
<1> QED BY <1>1, <1>2 DEF IsHello

LEMMA FlightIs == Flight \in Seq(Half) /\ Len(Flight) = 6
<1>1. "EE" \in Half /\ "CT" \in Half /\ "FN" \in Half
  BY DEF Half
<1> QED BY <1>1 DEF Flight

LEMMA HelloOrder ==
  ASSUME OrderInv, FinishedIInv, ServerHello
  PROVE  OrderInv'
<1>1. srv = "wait" /\ UNCHANGED client
  BY DEF ServerHello
<1>2. srvSeq' \in Nat /\ srv' \in {"wait", "flight", "app", "closed"}
  BY DEF ServerHello, server, OrderInv
<1>3. stage \in {"server_hello", "failed"} /\ \A i \in 1 .. Len(wire) : ~IsHello(wire[i])
  BY <1>1, NoHelloYet
<1>4. CASE Sends(Plain("ccs", <<>>)) /\ UNCHANGED server
  <2>1. \A x : ServerAt(x) => ServerAt(x)'
    BY <1>1, <1>4 DEF ServerAt, server, client
  <2>2. Silent(Plain("ccs", <<>>))
    BY PlainSilent
  <2>3. Sendable(Plain("ccs", <<>>))
    BY <2>1, <2>2, PlainSend
  <2>4. wire' = Append(wire, Plain("ccs", <<>>))
    BY <1>4 DEF Sends
  <2> QED BY <1>1, <1>2, <1>3, <2>3, <2>4, SendOrder
<1>5. CASE Sends(Plain("hs", <<"other">>)) /\ srv' = "closed"
  <2>1. \A x : ServerAt(x)'
    BY <1>5 DEF ServerAt
  <2>2. Silent(Plain("hs", <<"other">>))
    <3>1. <<"other">> # <<"SH">>
      <4>1. <<"other">>[1] # <<"SH">>[1]
        OBVIOUS
      <4> QED BY <4>1
    <3> QED BY <3>1, PlainIs DEF Silent, IsHello
  <2>3. Sendable(Plain("hs", <<"other">>))
    BY <2>1, <2>2, PlainSend
  <2>4. wire' = Append(wire, Plain("hs", <<"other">>))
    BY <1>5 DEF Sends
  <2> QED BY <1>1, <1>2, <1>3, <2>3, <2>4, SendOrder
<1>6. CASE /\ Sends(Plain("hs", <<"SH">>)) /\ srv' = "flight" /\ left' = Flight
           /\ srvKey' = Key("shs", conn) /\ srvSeq' = 0
  <2> DEFINE r == Plain("hs", <<"SH">>)
             y == Place(Key("shs", conn), 0, 0)
  <2>1. IsHello(r) /\ r.type # "app" /\ ~Silent(r)
    BY PlainIs DEF IsHello, Silent
  <2>2. conn' = conn
    BY <1>1 DEF client
  <2>3. y.key = Key("shs", conn) /\ y.seq = 0 /\ y.pos = 0
    BY PlaceIs
  <2>4. wire' = Append(wire, r)
    BY <1>6 DEF Sends
  <2> HIDE DEF r
  <2>5. \A x : Passes(x, r, y, conn)
    BY <2>1 DEF Passes
  <2>6. PICK z : z = y
    OBVIOUS
  <2>7. Len(Flight) = 6 /\ Halves(Flight, 0)
    <3>1. \A j \in 1 .. Len(Flight) : Flight[j] = Flight[0 + j]
      BY FlightIs
    <3> QED BY <3>1, FlightIs DEF Halves
  <2>8. ServerAt(z)' /\ IsPlace(z)
    <3>1. z.key = Key("shs", conn) /\ z.seq = 0 /\ z.pos = 0
      BY <2>3, <2>6
    <3>2. z.pos = 6 - Len(left') /\ Halves(left', z.pos)
      BY <1>6, <2>7, <3>1
    <3>3. z.seq \in Nat /\ z.pos \in 0 .. 6
      BY <3>1
    <3>4. IsPlace(z)
      BY <3>3 DEF IsPlace
    <3>5. ServerAt(z)'
      BY <1>6, <2>2, <3>1, <3>2 DEF ServerAt
    <3> QED BY <3>4, <3>5
  <2>9. Sendable(r)
    BY <2>5, <2>6, <2>8 DEF Sendable
  <2> QED BY <1>1, <1>2, <1>3, <2>4, <2>9, SendOrder
<1> QED BY <1>4, <1>5, <1>6 DEF ServerHello

\* A record it seals
SecretRecord(inner, body) ==
  [type |-> "app", inner |-> inner, key |-> srvKey, seq |-> srvSeq, body |-> body]
LEMMA SecretIs ==
  ASSUME NEW i, NEW b
  PROVE  LET r == SecretRecord(i, b)
         IN /\ r.type = "app" /\ r.inner = i /\ r.key = srvKey /\ r.seq = srvSeq /\ r.body = b
            /\ ~IsHello(r) /\ ~Silent(r)
  BY DEF SecretRecord, IsHello, Silent

\* In the flight, n halves of what is left, or an alert that leaves some.
LEMMA FlightSend ==
  ASSUME OrderInv, srv = "flight", NEW i, NEW b, b \in Seq(Half), left # <<>>, Len(b) <= Len(left),
         \A j \in 1 .. Len(b) : b[j] = left[j], conn' = conn,
         srv' = "flight" => /\ srvKey' = srvKey /\ srvSeq' = srvSeq + 1 /\ left' \in Seq(Half)
                            /\ Len(left') = Len(left) - Len(b)
                            /\ \A j \in 1 .. Len(left') : left'[j] = left[Len(b) + j],
         srv' # "app"
  PROVE  Sendable(SecretRecord(i, b))
<1> DEFINE r == SecretRecord(i, b)
<1>1. /\ r.type = "app" /\ r.key = srvKey /\ r.seq = srvSeq /\ r.body = b
      /\ ~IsHello(r) /\ ~Silent(r)
  BY SecretIs
<1> HIDE DEF r
<1> SUFFICES ASSUME NEW x, IsPlace(x), ServerAt(x)
             PROVE  \E y : IsPlace(y) /\ Passes(x, r, y, conn) /\ ServerAt(y)'
  BY DEF Sendable, r
<1>2. /\ srvKey = Key("shs", conn) /\ x.key = srvKey /\ x.seq = srvSeq
      /\ x.pos = 6 - Len(left) /\ left \in Seq(Half)
      /\ \A j \in 1 .. Len(left) : left[j] = Flight[x.pos + j]
  BY DEF ServerAt, Halves
<1>3. /\ Len(left) \in Nat /\ Len(left) # 0 /\ Len(b) \in Nat /\ x.seq \in Nat /\ x.pos \in 0 .. 6
  BY <1>2 DEF IsPlace
<1>4. x.pos < 6 /\ x.pos + Len(b) <= 6 /\ x.pos + Len(b) \in 0 .. 6 /\ x.seq + 1 \in Nat
  <2>1. PICK l \in Nat, k \in Nat, p \in 0 .. 6, q \in Nat :
             l = Len(left) /\ k = Len(b) /\ p = x.pos /\ q = x.seq
    BY <1>3
  <2>2. p = 6 - l /\ l # 0 /\ k <= l
    BY <1>2, <1>3, <2>1
  <2>3. p < 6 /\ p + k <= 6 /\ p + k \in 0 .. 6 /\ q + 1 \in Nat
    BY <2>2
  <2> QED BY <2>1, <2>3
<1>5. Halves(b, x.pos)
  <2>1. \A j \in 1 .. Len(b) : j \in 1 .. Len(left)
    BY <1>3
  <2> QED BY <1>2, <2>1 DEF Halves
<1> DEFINE w == Place(r.key, r.seq + 1, x.pos + Len(r.body))
<1>6. PICK y : y = w
  OBVIOUS
<1>7. y.key = srvKey /\ y.seq = srvSeq + 1 /\ y.pos = x.pos + Len(b)
  BY <1>1, <1>6, PlaceIs
<1>8. IsPlace(y)
  BY <1>2, <1>4, <1>7 DEF IsPlace
<1>9. Passes(x, r, y, conn)
  <2>1. FlightRecord(x, r, y, conn)
    BY <1>1, <1>2, <1>4, <1>5, <1>6 DEF FlightRecord
  <2> QED BY <1>1, <2>1 DEF Passes
<1>10. ServerAt(y)'
  <2>1. CASE srv' = "flight"
    <3>1. Len(left') \in Nat /\ y.pos = 6 - Len(left')
      BY <1>2, <1>3, <1>7, <2>1
    <3>2. ASSUME NEW j \in 1 .. Len(left') PROVE left'[j] = Flight[y.pos + j]
      <4>1. Len(b) + j \in 1 .. Len(left) /\ x.pos + (Len(b) + j) = y.pos + j
        <5>1. PICK l \in Nat, k \in Nat, p \in 0 .. 6 : l = Len(left) /\ k = Len(b) /\ p = x.pos
          BY <1>3
        <5>2. y.pos = p + k /\ j \in 1 .. l - k
          BY <1>7, <2>1, <5>1
        <5>3. k + j \in 1 .. l /\ p + (k + j) = p + k + j
          BY <5>2
        <5> QED BY <5>1, <5>2, <5>3
      <4>2. left'[j] = left[Len(b) + j]
        BY <2>1
      <4> QED BY <1>2, <4>1, <4>2
    <3>3. Halves(left', y.pos)
      BY <2>1, <3>2 DEF Halves
    <3> QED BY <1>2, <1>7, <2>1, <3>1, <3>3 DEF ServerAt
  <2>2. CASE srv' # "flight"
    BY <2>2 DEF ServerAt
  <2> QED BY <2>1, <2>2
<1> QED BY <1>8, <1>9, <1>10

\* Behind it, application records under the application key, and any under the next.
LEMMA AppSend ==
  ASSUME OrderInv, srv = "app", NEW i, NEW b, conn' = conn, srv' # "flight",
         srv' = "app" => /\ srvSeq' = srvSeq + 1 
                         /\ srvKey' = srvKey \/ srvKey' = Key("sap2", conn)
  PROVE  Sendable(SecretRecord(i, b))
<1> DEFINE r == SecretRecord(i, b)
<1>1. r.type = "app" /\ r.key = srvKey /\ r.seq = srvSeq /\ ~IsHello(r) /\ ~Silent(r)
  BY SecretIs
<1> HIDE DEF r
<1> SUFFICES ASSUME NEW x, IsPlace(x), ServerAt(x)
             PROVE  \E y : IsPlace(y) /\ Passes(x, r, y, conn) /\ ServerAt(y)'
  BY DEF Sendable, r
<1>2. srvSeq \in Nat /\ srvSeq + 1 \in Nat
  BY DEF OrderInv
<1> DEFINE w == Place(r.key, r.seq + 1, 6)
<1>3. PICK y : y = w
  OBVIOUS
<1>4. y.key = srvKey /\ y.seq = srvSeq + 1 /\ y.pos = 6
  BY <1>1, <1>3, PlaceIs
<1>5. IsPlace(y)
  BY <1>2, <1>4 DEF IsPlace
<1>6. Passes(x, r, y, conn)
  <2>1. AppRecord(x, r, y, conn) \/ (r.key = Key("sap2", conn) /\ y.key = r.key)
    BY <1>1, <1>3, <1>4 DEF ServerAt, AppRecord
  <2> QED BY <1>1, <2>1 DEF Passes
<1>7. ServerAt(y)'
  <2>1. srvKey \in {Key("sap", conn), Key("sap2", conn)}
    BY DEF ServerAt
  <2> QED BY <1>4, <2>1 DEF ServerAt, AppFrom
<1> QED BY <1>5, <1>6, <1>7

\* A plain record, and a step that leaves the wire alone.
LEMMA PlainOrder ==
  ASSUME OrderInv, UNCHANGED client, srvSeq' \in Nat,
         srv' \in {"wait", "flight", "app", "closed"},
         NEW t \in {"ccs", "alert"}, Sends(Plain(t, <<>>)),
         \A x : ServerAt(x) => ServerAt(x)'
  PROVE  OrderInv'
<1>1. Silent(Plain(t, <<>>))
  BY PlainSilent
<1>2. Sendable(Plain(t, <<>>)) /\ ~IsHello(Plain(t, <<>>))
  BY <1>1, PlainSend DEF Silent
<1>3. wire' = Append(wire, Plain(t, <<>>))
  BY DEF Sends
<1> QED BY <1>2, <1>3, SendOrder
LEMMA QuietOrder ==
  ASSUME OrderInv, UNCHANGED <<client, wire>>, srvSeq' \in Nat,
         srv' \in {"wait", "flight", "app", "closed"},
         \A x : ServerAt(x) => ServerAt(x)'
  PROVE  OrderInv'
<1>1. UNCHANGED <<stage, hsBuf, need, cut, conn, recv, gotServerFinished>>
  BY DEF client
<1>2. \A x : ClientAt(x) => ClientAt(x)'
  BY <1>1 DEF ClientAt, InFlight
<1>3. InOrder => InOrder'
  <2>1. SUFFICES ASSUME NEW e, Places(e, wire, conn), ClientAt(e[0]), ServerAt(e[Len(wire)])
                 PROVE  InOrder'
    BY DEF InOrder
  <2>2. PICK x, y : x = e[0] /\ y = e[Len(wire)]
    OBVIOUS
  <2>3. ClientAt(x)' /\ ServerAt(y)'
    BY <1>2, <2>1, <2>2
  <2> QED BY <1>1, <2>1, <2>2, <2>3 DEF InOrder
<1>4. Hellos => Hellos'
  BY <1>1 DEF Hellos
<1> QED BY <1>1, <1>3, <1>4 DEF OrderInv, Reading

LEMMA LeftIs ==
  ASSUME OrderInv, Reading, srv = "flight"
  PROVE  left \in Seq(Half)
<1>1. PICK e : ServerAt(e[Len(wire)])
  BY DEF OrderInv, InOrder
<1> QED BY <1>1 DEF ServerAt, Halves

LEMMA Cuts ==
  ASSUME NEW S, NEW s \in Seq(S), NEW n \in 1 .. Len(s)
  PROVE  /\ SubSeq(s, 1, n) \in Seq(S) /\ Len(SubSeq(s, 1, n)) = n
         /\ \A j \in 1 .. n : SubSeq(s, 1, n)[j] = s[j]
         /\ SubSeq(s, n + 1, Len(s)) \in Seq(S) /\ Len(SubSeq(s, n + 1, Len(s))) = Len(s) - n
         /\ \A j \in 1 .. Len(s) - n : SubSeq(s, n + 1, Len(s))[j] = s[n + j]
<1>1. Len(s) \in Nat /\ n \in Nat /\ n <= Len(s) /\ \A j \in 1 .. Len(s) : s[j] \in S
  OBVIOUS
<1>2. /\ SubSeq(s, 1, n) \in Seq(S) /\ Len(SubSeq(s, 1, n)) = n
      /\ \A j \in 1 .. n : SubSeq(s, 1, n)[j] = s[j]
  BY <1>1
<1> DEFINE t == SubSeq(s, n + 1, Len(s))
<1>3. t \in Seq(S) /\ Len(t) = Len(s) - n
  BY <1>1
<1>4. \A j \in 1 .. Len(s) - n : t[j] = s[n + j]
  BY <1>1
<1> QED BY <1>2, <1>3, <1>4

LEMMA CutsFrom ==
  ASSUME NEW S, NEW s \in Seq(S), NEW g \in 0 .. Len(s),
         NEW t, t = SubSeq(s, g + 1, Len(s))
  PROVE  t \in Seq(S) /\ Len(t) = Len(s) - g /\ \A j \in 1 .. Len(s) - g : t[j] = s[g + j]
<1>1. Len(s) \in Nat
  OBVIOUS
<1>2. CASE g = 0
  <2>1. 0 + 1 = 1 /\ Len(s) - 0 = Len(s) /\ \A j \in 1 .. Len(s) : 0 + j = j
    BY <1>1
  <2>2. SubSeq(s, 1, Len(s)) = s
    BY SubSeqFull
  <2>3. SubSeq(s, 0 + 1, Len(s)) = s
    BY <2>1, <2>2
  <2> QED BY <1>2, <2>1, <2>3
<1>3. CASE g \in 1 .. Len(s)
  BY <1>3, Cuts
<1> QED BY <1>1, <1>2, <1>3

LEMMA FlightOrder ==
  ASSUME OrderInv, ServerFlight
  PROVE  OrderInv'
<1>1. srv = "flight" /\ left # <<>> /\ UNCHANGED client
  BY DEF ServerFlight
<1>2. CASE Sends(Plain("ccs", <<>>)) /\ UNCHANGED server
  <2>1. /\ \A x : ServerAt(x) => ServerAt(x)'
        /\ srvSeq' \in Nat /\ srv' \in {"wait", "flight", "app", "closed"}
    BY <1>1, <1>2 DEF ServerAt, server, client, OrderInv
  <2> QED BY <1>1, <1>2, <2>1, PlainOrder
<1>3. ASSUME NEW n \in 1 .. Len(left), SealBy("hs", SubSeq(left, 1, n)),
             left' = SubSeq(left, n + 1, Len(left)), UNCHANGED <<srv, srvKey>>
      PROVE  OrderInv'
  <2> DEFINE b == SubSeq(left, 1, n)
             r == SecretRecord("hs", b)
  <2>1. wire' = Append(wire, r) /\ srvSeq' = srvSeq + 1
    BY <1>3 DEF SealBy, Sends, SecretRecord
  <2>2. ~IsHello(r) /\ conn' = conn /\ srvSeq' \in Nat
    BY <1>1, <2>1, SecretIs DEF client, OrderInv
  <2>3. ASSUME Reading PROVE Sendable(r)
    <3>1. left \in Seq(Half)
      BY <1>1, <2>3, LeftIs
    <3>2. /\ b \in Seq(Half) /\ Len(b) = n /\ \A j \in 1 .. n : b[j] = left[j]
          /\ left' \in Seq(Half) /\ Len(left') = Len(left) - n
          /\ \A j \in 1 .. Len(left) - n : left'[j] = left[n + j]
      BY <1>3, <3>1, Cuts
    <3> HIDE DEF b
    <3>3. n <= Len(left)
      BY <3>1
    <3> QED BY <1>1, <1>3, <2>1, <2>2, <3>2, <3>3, FlightSend
  <2> HIDE DEF r
  <2> QED BY <1>1, <1>3, <2>1, <2>2, <2>3, SendOrder
<1> QED BY <1>2, <1>3 DEF ServerFlight

LEMMA SwitchOrder ==
  ASSUME OrderInv, ServerSwitchesKeys
  PROVE  OrderInv'
<1>1. /\ srv = "flight" /\ left = <<>> /\ srv' = "app" /\ srvKey' = Key("sap", conn)
      /\ srvSeq' = 0 /\ UNCHANGED <<client, wire>>
  BY DEF ServerSwitchesKeys
<1>2. Len(left) = 0 /\ 6 - 0 = 6
  BY <1>1
<1>3. ASSUME NEW x, ServerAt(x) PROVE ServerAt(x)'
  <2>1. x.key = Key("shs", conn) /\ x.pos = 6 - Len(left)
    BY <1>1, <1>3 DEF ServerAt
  <2>2. x.pos = 6
    BY <1>2, <2>1
  <2>3. conn' = conn
    BY <1>1 DEF client
  <2> QED BY <1>1, <2>1, <2>2, <2>3 DEF ServerAt, AppFrom
<1> QED BY <1>1, <1>3, QuietOrder

LEMMA DataOrder ==
  ASSUME OrderInv, ServerData
  PROVE  OrderInv'
<1>1. srv = "app" /\ UNCHANGED <<srv, client>>
  BY DEF ServerData
<1>2. PICK i, b : SealBy(i, b) /\ (srvKey' = srvKey \/ srvKey' = Key("sap2", conn))
  BY DEF ServerData
<1>3. wire' = Append(wire, SecretRecord(i, b)) /\ srvSeq' = srvSeq + 1
  BY <1>2 DEF SealBy, Sends, SecretRecord
<1>4. ~IsHello(SecretRecord(i, b)) /\ conn' = conn /\ srvSeq' \in Nat
  BY <1>1, <1>3, SecretIs DEF client, OrderInv
<1>5. Sendable(SecretRecord(i, b))
  BY <1>1, <1>2, <1>3, <1>4, AppSend
<1> QED BY <1>1, <1>3, <1>4, <1>5, SendOrder

LEMMA CloseOrder ==
  ASSUME OrderInv, ServerCloses
  PROVE  OrderInv'
<1>1. srv # "closed" /\ srv' = "closed" /\ (srv = "flight" => left # <<>>) /\ UNCHANGED client
  BY DEF ServerCloses
<1>2. \A x : ServerAt(x)'
  BY <1>1 DEF ServerAt
<1>3. CASE Sends(Plain("alert", <<>>)) /\ UNCHANGED srvSeq
  BY <1>1, <1>2, <1>3, PlainOrder DEF OrderInv
<1>4. CASE srv # "wait" /\ SealBy("alert", <<>>)
  <2>1. wire' = Append(wire, SecretRecord("alert", <<>>)) /\ srvSeq' = srvSeq + 1
    BY <1>4 DEF SealBy, Sends, SecretRecord
  <2>2. ~IsHello(SecretRecord("alert", <<>>)) /\ conn' = conn /\ srvSeq' \in Nat
    BY <1>1, <2>1, SecretIs DEF client, OrderInv
  <2>3. ASSUME Reading PROVE Sendable(SecretRecord("alert", <<>>))
    <3>1. CASE srv = "app"
      BY <1>1, <2>2, <3>1, AppSend
    <3>2. CASE srv = "flight"
      <4>1. left \in Seq(Half)
        BY <2>3, <3>2, LeftIs
      <4>2. <<>> \in Seq(Half) /\ Len(<<>>) = 0 /\ 1 .. 0 = {}
        OBVIOUS
      <4>3. Len(<<>>) <= Len(left) /\ \A j \in 1 .. Len(<<>>) : <<>>[j] = left[j]
        BY <4>1, <4>2
      <4> QED BY <1>1, <2>2, <3>2, <4>2, <4>3, FlightSend
    <3> QED BY <1>1, <1>4, <3>1, <3>2 DEF OrderInv
  <2> QED BY <1>1, <2>1, <2>2, <2>3, SendOrder
<1> QED BY <1>3, <1>4 DEF ServerCloses

\* The client reads r: from every place it may be at, r leads to one it is at then.
Takes(r) ==
  \A x, y : IsPlace(x) /\ IsPlace(y) /\ Passes(x, r, y, conn) /\ ClientAt(x) => ClientAt(y)'

LEMMA ReadOf ==
  ASSUME OrderInv, ~cut, NEW r, ReadRecord(r)
  PROVE  wire # <<>> /\ r = Head(wire) /\ wire' = Tail(wire) /\ ~cut'
  BY DEF ReadRecord

LEMMA NoHello ==
  ASSUME OrderInv, Reading, stage # "server_hello", NEW r, ReadRecord(r)
  PROVE  ~IsHello(r)
<1>1. PICK S : wire \in Seq(S)
  BY DEF OrderInv
<1>2. wire # <<>> /\ r = Head(wire)
  BY ReadOf DEF Reading
<1>3. 1 \in 1 .. Len(wire) /\ r = wire[1]
  BY <1>1, <1>2
<1> QED BY <1>3 DEF OrderInv, Hellos

LEMMA ReadOrder ==
  ASSUME OrderInv, NEW r, ReadRecord(r), UNCHANGED <<conn, server>>,
         stage' = "server_hello" => hsBuf' = <<>>,
         need' # 0 => stage' = "established",
         Reading' => stage \in {"server_hello", "flight", "established"},
         Reading' /\ Reading => /\ Takes(r)
                                /\ stage' # "server_hello" => stage # "server_hello" \/ IsHello(r)
  PROVE  OrderInv'
<1>1. PICK S : wire \in Seq(S)
  BY DEF OrderInv
<1>2. wire' \in Seq(S)
  BY <1>1, WireRest
<1>3. srvSeq' \in Nat /\ srv' \in {"wait", "flight", "app", "closed"}
  BY DEF OrderInv, server
<1>4. ASSUME Reading' PROVE Hellos' /\ InOrder'
  <2>1. cut' = cut /\ Reading
    BY <1>4 DEF ReadRecord, Reading
  <2>2. wire # <<>> /\ r = Head(wire) /\ wire' = Tail(wire)
    BY <2>1, ReadOf DEF Reading
  <2>3. /\ Len(wire) \in Nat /\ Len(wire) # 0 /\ r = wire[1] /\ Len(wire') = Len(wire) - 1
        /\ \A i \in 1 .. Len(wire) - 1 : wire'[i] = wire[i + 1]
    BY <1>1, <2>2
  <2>4. /\ \A i \in 1 .. Len(wire') : i + 1 \in 1 .. Len(wire) /\ i + 1 # 1
        /\ \A i, j \in 1 .. Len(wire') : i + 1 = j + 1 => i = j
        /\ 1 \in 1 .. Len(wire)
    BY <2>3
  <2>5. Hellos
    BY <2>1 DEF OrderInv
  <2>6. \A i \in 1 .. Len(wire') : wire'[i] = wire[i + 1]
    BY <2>3
  <2>7. \A i, j \in 1 .. Len(wire') : IsHello(wire'[i]) /\ IsHello(wire'[j]) => i = j
    BY <2>4, <2>5, <2>6 DEF Hellos
  <2>8. ASSUME stage' # "server_hello", NEW i \in 1 .. Len(wire') PROVE ~IsHello(wire'[i])
    <3>1. CASE stage # "server_hello"
      BY <2>4, <2>5, <2>6, <3>1 DEF Hellos
    <3>2. CASE IsHello(r)
      BY <2>3, <2>4, <2>5, <2>6, <3>2 DEF Hellos
    <3> QED BY <1>4, <2>1, <2>8, <3>1, <3>2
  <2>9. Hellos'
    BY <2>7, <2>8 DEF Hellos
  <2>10. PICK e : Places(e, wire, conn) /\ ClientAt(e[0]) /\ ServerAt(e[Len(wire)])
    BY <2>1 DEF OrderInv, InOrder
  <2>11. GoesTo(e, wire, conn)
    BY <1>1, <2>2, <2>10, PlacesRest
  <2>12. PICK f : /\ Places(f, wire', conn) /\ f[Len(wire')] = e[Len(wire)]
                  /\ Passes(e[0], r, f[0], conn) /\ IsPlace(f[0]) /\ IsPlace(e[0])
    BY <2>2, <2>11 DEF GoesTo
  <2>13. PICK x, y, z : x = e[0] /\ y = f[0] /\ z = f[Len(wire')] /\ z = e[Len(wire)]
    BY <2>12
  <2>14. ClientAt(y)'
    BY <1>4, <2>1, <2>10, <2>12, <2>13 DEF Takes
  <2>15. ServerAt(z)'
    BY <2>10, <2>13 DEF ServerAt, server
  <2> QED BY <2>9, <2>12, <2>13, <2>14, <2>15 DEF InOrder
<1> QED BY <1>2, <1>3, <1>4 DEF OrderInv

\* A step of the client that reads nothing, or ends the reading.
LEMMA LocalOrder ==
  ASSUME OrderInv, UNCHANGED <<conn, server>>, \E S : wire' \in Seq(S),
         stage' = "server_hello" => hsBuf' = <<>>,
         need' # 0 => stage' = "established",
         Reading' => /\ wire' = wire /\ Reading
                     /\ stage' # "server_hello" => stage # "server_hello"
                     /\ \A x : ClientAt(x) => ClientAt(x)'
  PROVE  OrderInv'
<1>1. srvSeq' \in Nat /\ srv' \in {"wait", "flight", "app", "closed"}
  BY DEF OrderInv, server
<1>2. ASSUME Reading' PROVE Hellos' /\ InOrder'
  <2>1. Hellos /\ InOrder
    BY <1>2 DEF OrderInv
  <2>2. Hellos'
    BY <1>2, <2>1 DEF Hellos
  <2>3. PICK e : Places(e, wire, conn) /\ ClientAt(e[0]) /\ ServerAt(e[Len(wire)])
    BY <2>1 DEF InOrder
  <2>4. PICK x, y : x = e[0] /\ y = e[Len(wire)]
    OBVIOUS
  <2>5. ClientAt(x)' /\ ServerAt(y)'
    <3>1. ClientAt(x)'
      BY <1>2, <2>3, <2>4
    <3>2. ServerAt(y)'
      BY <2>3, <2>4 DEF ServerAt, server
    <3> QED BY <3>1, <3>2
  <2> QED BY <1>2, <2>2, <2>3, <2>4, <2>5 DEF InOrder
<1> QED BY <1>1, <1>2 DEF OrderInv

\* What a read leaves is a sequence.
LEMMA ReadLeaves ==
  ASSUME OrderInv
  PROVE  /\ ReadFails => \E S : wire' \in Seq(S)
         /\ \A r : ReadRecord(r) => \E S : wire' \in Seq(S)
<1>1. PICK S : wire \in Seq(S)
  BY DEF OrderInv
<1> QED BY <1>1, WireRest

LEMMA ConnectOrder ==
  ASSUME OrderInv, NEW sent \in BOOLEAN, Connect(sent)
  PROVE  OrderInv'
<1>1. /\ need' = 0 /\ stage' \in {"server_hello", "failed"} /\ srv' \in {"wait", "closed"}
      /\ hsBuf' = <<>> /\ srvSeq' = 0 /\ wire' = <<>> /\ conn' = conn + 1
  BY DEF Connect
<1>2. <<>> \in Seq({}) /\ Len(<<>>) = 0 /\ 1 .. 0 = {}
  OBVIOUS
<1>3. ASSUME stage' = "server_hello" PROVE Hellos' /\ InOrder'
  <2>1. Hellos'
    BY <1>1, <1>2, <1>3 DEF Hellos
  <2> DEFINE z == Place(NoKey, 0, 0)
  <2>2. z.seq = 0 /\ z.pos = 0
    BY PlaceIs
  <2> HIDE DEF z
  <2>3. z.seq \in Nat /\ z.pos \in 0 .. 6
    BY <2>2
  <2>4. IsPlace(z)
    BY <2>3 DEF IsPlace
  <2>5. PICK e : Places(e, <<>>, conn') /\ e[0] = z
    BY <2>4, PlacesNew
  <2>6. ClientAt(z)' /\ ServerAt(z)'
    <3>1. PICK x : x = z
      OBVIOUS
    <3>2. ClientAt(x)' /\ ServerAt(x)'
      BY <1>1, <1>3 DEF ClientAt, ServerAt
    <3> QED BY <3>1, <3>2
  <2> QED BY <1>1, <1>2, <2>1, <2>5, <2>6 DEF InOrder
<1> QED BY <1>1, <1>2, <1>3 DEF OrderInv, Reading

\* The record the client opens in the flight
LEMMA OpensFlight ==
  ASSUME NEW x, NEW y, NEW r, Passes(x, r, y, conn), InFlight(x), r.type = "app",
         r.key.name # "sap2"
  PROVE  FlightRecord(x, r, y, conn) /\ Opens(r)
<1>1. recv.key = Key("shs", conn) /\ x.key = recv.key /\ x.seq = recv.seq /\ x.pos < 6
  BY DEF InFlight
<1>2. ~AppRecord(x, r, y, conn)
  <2>1. x.pos # 6
    <3>1. PICK p : p = x.pos
      OBVIOUS
    <3>2. p < 6 => p # 6
      OBVIOUS
    <3> QED BY <1>1, <3>1, <3>2
  <2> QED BY <1>1, <2>1, NamesDiffer DEF AppRecord, AppFrom
<1>3. r.key # Key("sap2", conn)
  BY NamesDiffer
<1> QED BY <1>1, <1>2, <1>3 DEF Passes, FlightRecord, Opens

\* and behind it
LEMMA OpensApp ==
  ASSUME NEW x, NEW y, NEW r, Passes(x, r, y, conn), r.type = "app",
         recv.key = Key("sap", conn), x.key = Key("sap2", conn) \/ AppFrom(x, recv.seq, conn)
  PROVE  \/ Opens(r) /\ AppRecord(x, r, y, conn)
         \/ ~Opens(r) /\ r.key = Key("sap2", conn) /\ y.key = r.key
<1>1. ASSUME FlightRecord(x, r, y, conn) PROVE FALSE
  <2>1. x.key = Key("shs", conn) /\ x.pos < 6
    BY <1>1 DEF FlightRecord
  <2>2. x.pos # 6
    <3>1. PICK p : p = x.pos
      OBVIOUS
    <3>2. p < 6 => p # 6
      OBVIOUS
    <3> QED BY <2>1, <3>1, <3>2
  <2> QED BY <2>1, <2>2, NamesDiffer DEF AppFrom
<1>2. ASSUME AppRecord(x, r, y, conn) PROVE Opens(r)
  BY <1>2, NamesDiffer DEF AppRecord, AppFrom, Opens
<1>3. r.key = Key("sap2", conn) => ~Opens(r)
  BY NamesDiffer DEF Opens
<1> QED BY <1>1, <1>2, <1>3 DEF Passes

LEMMA ReadHelloOrder ==
  ASSUME OrderInv, FinishedIInv, ReadServerHello
  PROVE  OrderInv'
<1>1. /\ stage = "server_hello" /\ UNCHANGED <<conn, gotServerFinished, hsBuf, need, server>>
      /\ ~gotServerFinished
  BY DEF ReadServerHello, FinishedIInv, FinishedInv
<1>2. hsBuf' = <<>> /\ ~(need' # 0)
  BY <1>1 DEF OrderInv
<1>3. CASE ReadFails /\ Fail
  <2>1. stage' = "failed" /\ ~Reading'
    BY <1>3 DEF Fail, Reading
  <2> QED BY <1>1, <1>2, <1>3, <2>1, LocalOrder, ReadLeaves
<1>4. ASSUME NEW r, ReadRecord(r), Fail
      PROVE  OrderInv'
  <2>1. stage' = "failed" /\ ~Reading'
    BY <1>4 DEF Fail, Reading
  <2> QED BY <1>1, <1>2, <1>4, <2>1, LocalOrder, ReadLeaves
<1>5. ASSUME NEW r, ReadRecord(r), stage' = stage
      PROVE  OrderInv'
  <2>1. Takes(r)
    BY <1>1, <1>5 DEF Takes, ClientAt
  <2> QED BY <1>1, <1>2, <1>5, <2>1, ReadOrder
<1>6. ASSUME NEW r, ReadRecord(r), r.type = "hs", r.body = <<"SH">>, stage' = "flight",
             recv' = Rekey(recv, Key("shs", conn))
      PROVE  OrderInv'
  <2>1. IsHello(r)
    BY <1>6 DEF IsHello
  <2>2. recv'.key = Key("shs", conn) /\ recv'.seq = 0
    BY <1>6 DEF Rekey, Fresh
  <2>3. ASSUME NEW y, y = Place(Key("shs", conn), 0, 0)
        PROVE  ClientAt(y)'
    <3>1. y.key = Key("shs", conn) /\ y.seq = 0 /\ y.pos = 0
      BY <2>3, PlaceIs
    <3>2. <<>> \in Seq(Half) /\ Len(<<>>) = 0 /\ 1 .. 0 = {}
      OBVIOUS
    <3>3. 0 = 2 * 0 + 0 /\ 0 \in 0 .. 2 /\ 0 < 6 /\ 2 * 0 = 0
      OBVIOUS
    <3>4. Halves(<<>>, 0)
      BY <3>2 DEF Halves
    <3>5. \E m \in 0 .. 2 : y.pos = 2 * m + Len(hsBuf') /\ Halves(hsBuf', 2 * m)
      <4>1. y.pos = 2 * 0 + Len(hsBuf')
        BY <1>2, <3>1, <3>2, <3>3
      <4>2. Halves(hsBuf', 2 * 0)
        BY <1>2, <3>3, <3>4
      <4> QED BY <3>3, <4>1, <4>2
    <3>6. InFlight(y)'
      BY <1>1, <2>2, <3>1, <3>3, <3>5 DEF InFlight
    <3> QED BY <1>1, <1>6, <3>6 DEF ClientAt
  <2>4. Takes(r)
    BY <2>1, <2>3 DEF Takes, Passes
  <2> QED BY <1>1, <1>2, <1>6, <2>1, <2>4, ReadOrder
<1> QED BY <1>3, <1>4, <1>5, <1>6 DEF ReadServerHello

-------------------------------------------------------------------------------
(* The messages of the flight *)

LEMMA HalvesJoin ==
  ASSUME NEW a, NEW b, NEW m \in Nat, Halves(a, m), Halves(b, m + Len(a))
  PROVE  Halves(a \o b, m) /\ Len(a \o b) = Len(a) + Len(b)
<1>1. /\ a \in Seq(Half) /\ b \in Seq(Half) /\ \A j \in 1 .. Len(a) : a[j] = Flight[m + j]
      /\ \A j \in 1 .. Len(b) : b[j] = Flight[m + Len(a) + j]
  BY DEF Halves
<1> HIDE DEF Half
<1> DEFINE q == a \o b
<1>2. /\ q \in Seq(Half) /\ Len(q) = Len(a) + Len(b) /\ Len(a) \in Nat /\ Len(b) \in Nat
      /\ \A j \in 1 .. Len(q) : q[j] = IF j <= Len(a) THEN a[j] ELSE b[j - Len(a)]
  BY <1>1
<1> HIDE DEF q
<1>3. ASSUME NEW j \in 1 .. Len(q) PROVE q[j] = Flight[m + j]
  <2>1. CASE j <= Len(a)
    <3>1. j \in 1 .. Len(a)
      BY <1>2, <2>1
    <3> QED BY <1>1, <1>2, <2>1, <3>1
  <2>2. CASE ~(j <= Len(a))
    <3>1. j - Len(a) \in 1 .. Len(b) /\ m + Len(a) + (j - Len(a)) = m + j
      BY <1>2, <2>2
    <3>2. q[j] = b[j - Len(a)]
      BY <1>2, <2>2
    <3> QED BY <1>1, <3>1, <3>2
  <2> QED BY <2>1, <2>2
<1>4. Halves(q, m)
  BY <1>2, <1>3 DEF Halves
<1> QED BY <1>2, <1>4 DEF q

LEMMA Halving ==
  ASSUME NEW l \in Nat
  PROVE  l \div 2 \in Nat /\ 2 * (l \div 2) <= l /\ l <= 2 * (l \div 2) + 1
  OBVIOUS

LEMMA Counting ==
  ASSUME NEW m \in 0 .. 2, NEW l \in Nat, 2 * m + l <= 6, NEW h \in Nat, 2 * h <= l,
         l <= 2 * h + 1
  PROVE  /\ 2 * m + l = 6 => 3 - m \in 1 .. h /\ 2 * m + 2 * (3 - m) = 6
         /\ \A i \in 1 .. h : /\ 2 * i \in 1 .. l /\ 2 * m + 2 * i \in 1 .. 6
                              /\ 2 * m + 2 * i \in {5, 6} => 2 * m + l = 6
         /\ 2 * m + l < 6 => m + h \in 0 .. 2 /\ 2 * m + l = 2 * (m + h) + (l - 2 * h)
         /\ \A j \in 1 .. l - 2 * h : 2 * h + j \in 1 .. l /\ 2 * m + (2 * h + j) = 2 * (m + h) + j
         /\ l - 2 * h \in Nat /\ 2 * h \in 0 .. l
  OBVIOUS

\* Behind each record the flight is at its end exactly when a Finished is complete.
\* Otherwise the half that is left starts the next message.
LEMMA MessagesAre ==
  ASSUME NEW buf, NEW m \in 0 .. 2, Halves(buf, 2 * m), 2 * m + Len(buf) <= 6,
         NEW rest, rest = SubSeq(buf, 2 * Len(Messages(buf)) + 1, Len(buf))
  PROVE  /\ 2 * m + Len(buf) = 6 => \E i \in DOMAIN Messages(buf) : Messages(buf)[i] = "FN"
         /\ \A i \in DOMAIN Messages(buf) : Messages(buf)[i] = "FN" => 2 * m + Len(buf) = 6
         /\ 2 * m + Len(buf) < 6 =>
              \E k \in 0 .. 2 : 2 * m + Len(buf) = 2 * k + Len(rest) /\ Halves(rest, 2 * k)
<1>1. /\ buf \in Seq(Half) /\ Len(buf) \in Nat
      /\ \A j \in 1 .. Len(buf) : buf[j] = Flight[2 * m + j]
  BY DEF Halves
<1>2. PICK h \in Nat : h = Len(buf) \div 2 /\ 2 * h <= Len(buf) /\ Len(buf) <= 2 * h + 1
  BY <1>1, Halving
<1>3. /\ 2 * m + Len(buf) = 6 => 3 - m \in 1 .. h /\ 2 * m + 2 * (3 - m) = 6
      /\ \A i \in 1 .. h : /\ 2 * i \in 1 .. Len(buf) /\ 2 * m + 2 * i \in 1 .. 6
                           /\ 2 * m + 2 * i \in {5, 6} => 2 * m + Len(buf) = 6
      /\ 2 * m + Len(buf) < 6 =>
           m + h \in 0 .. 2 /\ 2 * m + Len(buf) = 2 * (m + h) + (Len(buf) - 2 * h)
      /\ \A j \in 1 .. Len(buf) - 2 * h :
           2 * h + j \in 1 .. Len(buf) /\ 2 * m + (2 * h + j) = 2 * (m + h) + j
      /\ Len(buf) - 2 * h \in Nat /\ 2 * h \in 0 .. Len(buf)
  BY <1>1, <1>2, Counting
<1> DEFINE msgs == Messages(buf)
<1>4. /\ DOMAIN msgs = 1 .. h /\ Len(msgs) = h
      /\ \A i \in 1 .. h : msgs[i] = buf[2 * i]
  BY <1>2 DEF Messages
<1> HIDE DEF msgs
<1>5. \A k \in 1 .. 6 : Flight[k] = "FN" <=> k \in {5, 6}
  <2>1. \A k \in 1 .. 6 : k = 1 \/ k = 2 \/ k = 3 \/ k = 4 \/ k = 5 \/ k = 6
    OBVIOUS
  <2>2. /\ Flight[1] # "FN" /\ Flight[2] # "FN" /\ Flight[3] # "FN" /\ Flight[4] # "FN"
        /\ Flight[5] = "FN" /\ Flight[6] = "FN"
    BY DEF Flight
  <2> QED BY <2>1, <2>2
<1>6. \A i \in 1 .. h : msgs[i] = Flight[2 * m + 2 * i]
  BY <1>1, <1>3, <1>4
<1>7. 2 * m + Len(buf) = 6 => \E i \in DOMAIN msgs : msgs[i] = "FN"
  <2>1. ASSUME 2 * m + Len(buf) = 6
        PROVE  3 - m \in 1 .. h /\ 2 * m + 2 * (3 - m) = 6
    BY <1>3, <2>1
  <2>2. ASSUME 2 * m + Len(buf) = 6
        PROVE  msgs[3 - m] = Flight[6]
    BY <1>6, <2>1, <2>2
  <2>3. Flight[6] = "FN"
    BY DEF Flight
  <2> QED BY <1>4, <2>1, <2>2, <2>3
<1>8. ASSUME NEW i \in 1 .. h, msgs[i] = "FN" PROVE 2 * m + Len(buf) = 6
  <2>1. PICK k \in 1 .. 6 : k = 2 * m + 2 * i
    BY <1>3
  <2>2. k \in {5, 6}
    BY <1>5, <1>6, <1>8, <2>1
  <2> QED BY <1>3, <2>1, <2>2
<1>9. ASSUME 2 * m + Len(buf) < 6
      PROVE  \E k \in 0 .. 2 : 2 * m + Len(buf) = 2 * k + Len(rest) /\ Halves(rest, 2 * k)
  <2>1. PICK k \in 0 .. 2 : k = m + h
    BY <1>3, <1>9
  <2>2. PICK g \in 0 .. Len(buf) : g = 2 * h
    BY <1>3
  <2>3. rest = SubSeq(buf, g + 1, Len(buf))
    BY <1>4, <2>2 DEF msgs
  <2>4. /\ rest \in Seq(Half) /\ Len(rest) = Len(buf) - g
        /\ \A j \in 1 .. Len(buf) - g : rest[j] = buf[g + j]
    <3>1. PICK t : t = rest
      OBVIOUS
    <3>2. t = SubSeq(buf, g + 1, Len(buf))
      BY <2>3, <3>1
    <3>3. t \in Seq(Half) /\ Len(t) = Len(buf) - g /\ \A j \in 1 .. Len(buf) - g : t[j] = buf[g + j]
      BY <1>1, <3>2, CutsFrom, SMTT(30)
    <3> QED BY <3>1, <3>3
  <2>5. ASSUME NEW j \in 1 .. Len(rest) PROVE rest[j] = Flight[2 * k + j]
    <3>1. g + j \in 1 .. Len(buf) /\ 2 * m + (g + j) = 2 * k + j
      BY <1>3, <2>1, <2>2, <2>4
    <3> QED BY <1>1, <2>4, <3>1
  <2>6. Halves(rest, 2 * k)
    BY <2>4, <2>5 DEF Halves
  <2>7. 2 * m + Len(buf) = 2 * k + Len(rest)
    BY <1>3, <1>9, <2>1, <2>2, <2>4
  <2> QED BY <2>6, <2>7
<1> QED BY <1>4, <1>7, <1>8, <1>9 DEF msgs

\* The flight's record that opens: what is hashed and what is kept.
LEMMA OpenedFlight ==
  ASSUME stage = "flight", ~gotServerFinished, conn' = conn, NEW r, r.type = "app", Opens(r),
         r.inner = "hs", Accumulate(r.body), recv' = [recv EXCEPT !.seq = @ + 1], RecvType,
         stage' # "failed",
         NEW x, NEW y, IsPlace(x), IsPlace(y), Passes(x, r, y, conn), InFlight(x)
  PROVE  ClientAt(y)'
<1>1. recv.key = Key("shs", conn) /\ x.key = recv.key /\ x.seq = recv.seq
  BY DEF InFlight
<1>2. r.key = recv.key /\ r.seq = recv.seq /\ r.key.name # "sap2"
  <2>1. Key("shs", conn).name = "shs"
    BY DEF Key
  <2> QED BY <1>1, <2>1 DEF Opens
<1>3. FlightRecord(x, r, y, conn)
  BY <1>2, OpensFlight
<1>4. x.pos + Len(r.body) <= 6 /\ Halves(r.body, x.pos)
      /\ y = Place(r.key, r.seq + 1, x.pos + Len(r.body))
  BY <1>3 DEF FlightRecord
<1>5. y.key = Key("shs", conn) /\ y.seq = recv.seq + 1 /\ y.pos = x.pos + Len(r.body)
  BY <1>1, <1>2, <1>4, PlaceIs
<1>6. recv'.key = Key("shs", conn) /\ recv'.seq = recv.seq + 1
  BY <1>1 DEF RecvType
<1>7. PICK m \in 0 .. 2 : x.pos = 2 * m + Len(hsBuf) /\ Halves(hsBuf, 2 * m)
  BY DEF InFlight
<1> DEFINE buf  == hsBuf \o r.body
           msgs == Messages(buf)
           rest == SubSeq(buf, 2 * Len(msgs) + 1, Len(buf))
<1>8. Halves(buf, 2 * m) /\ Len(buf) = Len(hsBuf) + Len(r.body)
  <2>1. PICK k \in Nat : k = 2 * m
    OBVIOUS
  <2>2. x.pos = k + Len(hsBuf) /\ Halves(hsBuf, k)
    BY <1>7, <2>1
  <2>3. Halves(r.body, k + Len(hsBuf))
    BY <1>4, <2>2
  <2> QED BY <2>1, <2>2, <2>3, HalvesJoin
<1>9. Len(hsBuf) \in Nat /\ Len(r.body) \in Nat
  BY <1>4, <1>7 DEF Halves
<1>10. y.pos = 2 * m + Len(buf) /\ 2 * m + Len(buf) <= 6
  BY <1>4, <1>5, <1>7, <1>8, <1>9
<1>11. /\ 2 * m + Len(buf) = 6 => \E i \in DOMAIN msgs : msgs[i] = "FN"
       /\ \A i \in DOMAIN msgs : msgs[i] = "FN" => 2 * m + Len(buf) = 6
       /\ 2 * m + Len(buf) < 6 =>
            \E k \in 0 .. 2 : 2 * m + Len(buf) = 2 * k + Len(rest) /\ Halves(rest, 2 * k)
  BY <1>8, <1>10, MessagesAre
<1>12. \/ /\ \A i \in DOMAIN msgs : msgs[i] # "FN"
          /\ hsBuf' = rest /\ UNCHANGED <<stage, gotServerFinished>>
       \/ /\ \E i \in DOMAIN msgs : msgs[i] = "FN"
          /\ gotServerFinished' = TRUE /\ UNCHANGED stage
  BY DEF Accumulate, Fail
<1> HIDE DEF buf, msgs, rest
<1>13. CASE \A i \in DOMAIN msgs : msgs[i] # "FN"
  <2>1. hsBuf' = rest /\ UNCHANGED <<stage, gotServerFinished>>
    BY <1>12, <1>13
  <2>2. y.pos # 6 /\ y.pos <= 6 /\ y.pos \in Nat
    <3>1. y.pos \in Nat
      BY DEF IsPlace
    <3> QED BY <1>10, <1>11, <1>13, <3>1
  <2>3. y.pos < 6
    BY <2>2
  <2>4. \E k \in 0 .. 2 : y.pos = 2 * k + Len(rest) /\ Halves(rest, 2 * k)
    BY <1>10, <1>11, <2>3
  <2>5. InFlight(y)'
    BY <1>5, <1>6, <2>1, <2>3, <2>4 DEF InFlight
  <2> QED BY <2>1, <2>5 DEF ClientAt
<1>14. CASE \E i \in DOMAIN msgs : msgs[i] = "FN"
  <2>1. gotServerFinished' = TRUE /\ stage' = "flight"
    BY <1>12, <1>14
  <2>2. y.pos = 6
    BY <1>10, <1>11, <1>14
  <2> QED BY <1>5, <2>1, <2>2 DEF ClientAt
<1> QED BY <1>13, <1>14

LEMMA ReadFlightOrder ==
  ASSUME OrderInv, FinishedIInv, ReadFlight
  PROVE  OrderInv'
<1>1. /\ stage = "flight" /\ ~gotServerFinished /\ UNCHANGED <<conn, need, server>>
      /\ ~(need' # 0)
  BY DEF ReadFlight, nonces, OrderInv
<1>2. CASE ReadFails /\ Fail
  <2>1. stage' = "failed" /\ ~Reading'
    BY <1>2 DEF Fail, Reading
  <2> QED BY <1>1, <1>2, <2>1, LocalOrder, ReadLeaves
<1>3. ASSUME NEW r, ReadRecord(r), Fail
      PROVE  OrderInv'
  <2>1. stage' = "failed" /\ ~Reading'
    BY <1>3 DEF Fail, Reading
  <2> QED BY <1>1, <1>3, <2>1, LocalOrder, ReadLeaves
<1>4. ASSUME NEW r, ReadRecord(r), r.type # "app",
             UNCHANGED <<stage, hsBuf, gotServerFinished, recv>>
      PROVE  OrderInv'
  <2>1. ASSUME Reading PROVE Takes(r)
    <3>1. Silent(r)
      BY <1>1, <1>4, <2>1, NoHello DEF Silent
    <3> QED BY <1>1, <1>4, <3>1 DEF Takes, Passes, ClientAt, InFlight
  <2> QED BY <1>1, <1>4, <2>1, ReadOrder
<1>5. ASSUME NEW r, ReadRecord(r), r.type = "app", Opens(r),
             recv' = [recv EXCEPT !.seq = @ + 1], r.inner = "hs", Accumulate(r.body)
      PROVE  OrderInv'
  <2>1. CASE stage' = "failed"
    BY <1>3, <1>5, <2>1 DEF Fail
  <2>2. CASE stage' # "failed"
    <3>1. stage' = "flight"
      BY <1>1, <1>5, <2>2 DEF Accumulate, Fail
    <3>2. ASSUME NEW x, NEW y, IsPlace(x), IsPlace(y), Passes(x, r, y, conn), ClientAt(x)
          PROVE  ClientAt(y)'
      <4>1. InFlight(x) /\ RecvType
        BY <1>1, <3>2 DEF ClientAt, FinishedIInv
      <4> QED BY <1>1, <1>5, <2>2, <3>2, <4>1, OpenedFlight
    <3>3. Takes(r)
      BY <3>2 DEF Takes
    <3> QED BY <1>1, <1>5, <3>1, <3>3, ReadOrder
  <2> QED BY <2>1, <2>2
<1> QED BY <1>2, <1>3, <1>4, <1>5 DEF ReadFlight

LEMMA FinishOrder ==
  ASSUME OrderInv, NEW sent \in BOOLEAN, Finish(sent)
  PROVE  OrderInv'
<1>1. /\ stage = "flight" /\ gotServerFinished /\ ~(need' # 0)
      /\ UNCHANGED <<conn, server, wire, cut, need>>
  BY DEF Finish, OrderInv
<1>2. CASE stage' = "failed"
  <2>1. ~Reading'
    BY <1>2 DEF Reading
  <2> QED BY <1>1, <1>2, <2>1, LocalOrder DEF OrderInv
<1>3. CASE stage' = "established" /\ recv' = Rekey(recv, Key("sap", conn))
  <2>1. recv'.key = Key("sap", conn) /\ recv'.seq = 0
    BY <1>3 DEF Rekey, Fresh
  <2>2. \A x : ClientAt(x) => ClientAt(x)'
    BY <1>1, <1>3, <2>1 DEF ClientAt, AppFrom
  <2> QED BY <1>1, <1>3, <2>2, LocalOrder DEF OrderInv, Reading
<1> QED BY <1>2, <1>3 DEF Finish, Fail

\* Steps that read nothing from the wire
LEMMA QuietClient ==
  ASSUME OrderInv, UNCHANGED <<conn, server, wire, cut, stage, recv, gotServerFinished, hsBuf>>,
         need' # 0 => stage = "established"
  PROVE  OrderInv'
<1>1. \A x : ClientAt(x) => ClientAt(x)'
  BY DEF ClientAt, InFlight
<1> QED BY <1>1, LocalOrder DEF OrderInv, Reading

LEMMA AppOrder ==
  ASSUME OrderInv, FinishedIInv, NEW r, ReadRecord(r), stage = "established",
         UNCHANGED <<conn, stage, server, hsBuf, gotServerFinished>>,
         r.type = "app" => \/ Opens(r) /\ recv' = [recv EXCEPT !.seq = @ + 1]
                           \/ ~Opens(r) /\ recv' = recv,
         r.type # "app" => recv' = recv
  PROVE  OrderInv'
<1>1. RecvType
  BY DEF FinishedIInv
<1>2. ASSUME Reading PROVE Takes(r)
  <2> SUFFICES ASSUME NEW x, NEW y, IsPlace(x), IsPlace(y), Passes(x, r, y, conn), ClientAt(x)
               PROVE  ClientAt(y)'
    BY DEF Takes
  <2>1. recv.key = Key("sap", conn) /\ (x.key = Key("sap2", conn) \/ AppFrom(x, recv.seq, conn))
    BY DEF ClientAt
  <2>2. CASE r.type # "app"
    <3>1. Silent(r)
      BY <1>2, <2>2, NoHello DEF Silent
    <3>2. y = x
      BY <3>1 DEF Passes
    <3> QED BY <2>1, <2>2, <3>2 DEF ClientAt
  <2>3. CASE r.type = "app" /\ Opens(r)
    <3>1. AppRecord(x, r, y, conn)
      BY <2>1, <2>3, OpensApp
    <3>2. recv'.key = recv.key /\ recv'.seq = recv.seq + 1
      BY <1>1, <2>3 DEF RecvType
    <3>3. y.key = r.key /\ y.seq = r.seq + 1
      BY <3>1, PlaceIs DEF AppRecord
    <3>4. r.key = recv.key /\ r.seq = recv.seq
      BY <2>3 DEF Opens
    <3>5. AppFrom(y, recv'.seq, conn)
      BY <2>1, <3>2, <3>3, <3>4 DEF AppFrom
    <3> QED BY <2>1, <3>2, <3>5 DEF ClientAt
  <2>4. CASE r.type = "app" /\ ~Opens(r)
    <3>1. y.key = Key("sap2", conn)
      BY <2>1, <2>4, OpensApp
    <3> QED BY <2>1, <2>4, <3>1 DEF ClientAt
  <2> QED BY <2>2, <2>3, <2>4
<1> QED BY <1>2, ReadOrder

LEMMA OrderInit == Init => OrderInv
<1> SUFFICES ASSUME Init PROVE OrderInv
  OBVIOUS
<1>1. <<>> \in Seq({})
  OBVIOUS
<1> QED BY <1>1 DEF Init, OrderInv, Reading

LEMMA OrderStep == FinishedIInv /\ OrderInv /\ [Next]_vars => OrderInv'
<1> SUFFICES ASSUME FinishedIInv, OrderInv, [Next]_vars PROVE OrderInv'
  OBVIOUS
<1>1. ASSUME NEW sent \in BOOLEAN, Connect(sent) PROVE OrderInv'
  BY <1>1, ConnectOrder
<1>2. ASSUME NEW sent \in BOOLEAN, Finish(sent) PROVE OrderInv'
  BY <1>2, FinishOrder
<1>3. ASSUME NEW sent \in BOOLEAN, Write(sent) PROVE OrderInv'
  BY <1>3, QuietClient DEF Write, OrderInv
<1>4. ASSUME NEW n \in Asks, StartRead(n) PROVE OrderInv'
  BY <1>4, QuietClient DEF StartRead
<1>5. ASSUME ReadBuffered PROVE OrderInv'
  <2>1. need > 0 => need # 0
    OBVIOUS
  <2> QED BY <1>5, <2>1, QuietClient DEF ReadBuffered, OrderInv
<1>6. need > 0 => stage = "established"
  <2>1. need > 0 => need # 0
    OBVIOUS
  <2> QED BY <2>1 DEF OrderInv
<1>7. ASSUME ReadOpened PROVE OrderInv'
  <2>1. stage = "established"
    BY <1>6, <1>7 DEF ReadOpened
  <2> QED BY <1>7, <2>1, AppOrder DEF ReadOpened
<1>8. ASSUME ReadOther PROVE OrderInv'
  <2>1. stage = "established"
    BY <1>6, <1>8 DEF ReadOther
  <2> QED BY <1>8, <2>1, AppOrder DEF ReadOther
<1>9. ASSUME ReadGivesUp PROVE OrderInv'
  <2>1. /\ ReadFails /\ need' = 0 /\ stage = "established"
        /\ UNCHANGED <<conn, stage, gotServerFinished, hsBuf, recv, server>>
    BY <1>6, <1>9 DEF ReadGivesUp
  <2>2. CASE UNCHANGED <<wire, cut>>
    BY <2>1, <2>2, QuietClient
  <2>3. CASE cut' = TRUE
    <3>1. ~Reading'
      BY <2>3 DEF Reading
    <3> QED BY <2>1, <3>1, LocalOrder, ReadLeaves
  <2> QED BY <2>1, <2>2, <2>3 DEF ReadFails
<1>10. CASE UNCHANGED vars
  BY <1>10, QuietClient DEF vars, OrderInv
<1> QED BY <1>1, <1>2, <1>3, <1>4, <1>5, <1>7, <1>8, <1>9, <1>10, ReadHelloOrder,
           ReadFlightOrder, HelloOrder, FlightOrder, SwitchOrder, DataOrder, CloseOrder DEF Next

\* The first secret record on the wire is the one that leads on from the client's place.
LEMMA OrderMeans == OrderInv => NextRecordOpens
<1> SUFFICES ASSUME OrderInv, NEW i \in DOMAIN wire, stage \in {"flight", "established"}, ~cut,
                    wire[i].type = "app", \A j \in 1 .. i - 1 : wire[j].type # "app",
                    stage = "flight" => ~gotServerFinished, wire[i].key.name # "sap2"
             PROVE  Opens(wire[i])
  BY DEF NextRecordOpens
<1>1. Hellos /\ InOrder
  BY DEF OrderInv, Reading
<1>2. PICK S : wire \in Seq(S)
  BY DEF OrderInv
<1>3. i \in 1 .. Len(wire) /\ Len(wire) \in Nat
  BY <1>2
<1>4. PICK e : Places(e, wire, conn) /\ ClientAt(e[0])
  BY <1>1 DEF InOrder
<1>5. \A j \in 1 .. i - 1 : j \in 1 .. Len(wire)
  BY <1>3
<1>6. \A j \in 1 .. i - 1 : Silent(wire[j])
  BY <1>1, <1>5 DEF Hellos, Silent
<1>7. PICK k \in 0 .. Len(wire) : k = i - 1 /\ 0 <= k /\ 0 + 1 = 1 /\ 0 \in 0 .. Len(wire)
  BY <1>3
<1>8. e[k] = e[0]
  BY <1>4, <1>6, <1>7 DEF Places
<1>9. Passes(e[0], wire[i], e[i], conn)
  BY <1>3, <1>4, <1>7, <1>8 DEF Places
<1>10. PICK x, y, r : x = e[0] /\ y = e[i] /\ r = wire[i]
  OBVIOUS
<1>11. Passes(x, r, y, conn) /\ ClientAt(x) /\ r.type = "app" /\ r.key.name # "sap2"
  BY <1>4, <1>9, <1>10
<1>12. Opens(r)
  <2>1. CASE stage = "flight"
    <3>1. InFlight(x)
      BY <1>11, <2>1 DEF ClientAt
    <3> QED BY <1>11, <3>1, OpensFlight
  <2>2. CASE stage = "established"
    <3>1. recv.key = Key("sap", conn)
          /\ (x.key = Key("sap2", conn) \/ AppFrom(x, recv.seq, conn))
      BY <1>11, <2>2 DEF ClientAt
    <3>2. r.key # Key("sap2", conn)
      BY <1>11, NamesDiffer
    <3> QED BY <1>11, <3>1, <3>2, OpensApp
  <2> QED BY <2>1, <2>2
<1> QED BY <1>10, <1>12

\* As long as no read was cut and the server has not changed its keys, the numbers
\* of both sides agree: the next record opens (tls.cpp:145, :162).
THEOREM RecordsOpen == Spec => []NextRecordOpens
<1>1. FinishedIInv /\ OrderInv /\ [Next]_vars => (FinishedIInv /\ OrderInv)'
  BY FinishedStep, OrderStep
<1> QED BY <1>1, FinishedInit, OrderInit, OrderMeans, PTL DEF Spec

-------------------------------------------------------------------------------
(* The bytes *)

Stretch(g, b) == [i \in 1 .. b |-> g + i]

\* o gives, for each record under the application key, how many bytes are in front of
\* it; n such records were sent, and w bytes.
Offsets(o, n, w) ==
  n \in Nat /\ o[0] = 0 /\ \A s \in 0 .. n : o[s] \in Nat /\ o[s] <= w

\* A record carries the bytes between its offset and the next.
Carries(o, r) ==
  IF r.inner = "app"
  THEN \E k \in Nat : o[r.seq + 1] = o[r.seq] + k /\ r.body = Stretch(o[r.seq], k)
  ELSE o[r.seq + 1] = o[r.seq]
Fits(r, o, n, c) ==
  r.type = "app" /\ r.key = Key("sap", c) => r.seq \in Nat /\ r.seq < n /\ Carries(o, r)
OnWire(o, n, ws, c) == \E S : ws \in Seq(S) /\ \A r \in S : Fits(r, o, n, c)

\* The server's side, and the client's.
Sent(o, n) ==
  /\ srv \in {"wait", "flight"} => n = 0 /\ wrote = 0
  /\ srv = "flight" => srvKey = Key("shs", conn)
  /\ srv = "app" => n = srvSeq /\ o[n] = wrote
Told(o, n) ==
  \E g, b \in Nat :
    /\ got = Reader!First(g) /\ appBuf = Stretch(g, b) /\ g + b <= wrote
    /\ stage \in {"server_hello", "flight"} => g + b = 0
    /\ stage = "established" => /\ recv.key = Key("sap", conn) /\ recv.seq \in 0 .. n
                                /\ o[recv.seq] = g + b

Counts ==
  /\ conn \in Nat /\ wrote \in Nat /\ need \in Nat /\ recv = [key |-> recv.key, seq |-> recv.seq]
  /\ srv \in {"wait", "flight", "app", "closed"} /\ (srv # "closed" => conn # 0)
  /\ need # 0 => stage = "established"

\* The inductive invariant of the stream.
StreamInv ==
  Counts /\ \E o, n : Offsets(o, n, wrote) /\ OnWire(o, n, wire, conn) /\ Sent(o, n) /\ Told(o, n)

LEMMA StretchIs ==
  ASSUME NEW g \in Nat, NEW b \in Nat
  PROVE  /\ Stretch(g, b) \in Seq(Nat) /\ Len(Stretch(g, b)) = b
         /\ \A i \in 1 .. b : Stretch(g, b)[i] = g + i
         /\ Reader!First(g) \in Seq(Nat) /\ Len(Reader!First(g)) = g
         /\ \A i \in 1 .. g : Reader!First(g)[i] = i
<1>1. /\ \A i \in 1 .. b : g + i \in Nat
      /\ \A i \in 1 .. g : i \in Nat
  OBVIOUS
<1>2. /\ Stretch(g, b) \in Seq(Nat) /\ Len(Stretch(g, b)) = b
      /\ \A i \in 1 .. b : Stretch(g, b)[i] = g + i
  BY <1>1 DEF Stretch
<1>3. /\ Reader!First(g) \in Seq(Nat) /\ Len(Reader!First(g)) = g
      /\ \A i \in 1 .. g : Reader!First(g)[i] = i
  BY <1>1 DEF Reader!First
<1> QED BY <1>2, <1>3

LEMMA NothingTold ==
  <<>> = Reader!First(0) /\ \A g : <<>> = Stretch(g, 0)
<1>1. 1 .. 0 = {}
  OBVIOUS
<1> QED BY <1>1 DEF Stretch, Reader!First

\* Giving d bytes of the buffer out moves the border between them.
LEMMA BorderMoves ==
  ASSUME NEW g \in Nat, NEW b \in Nat, NEW d \in 0 .. b
  PROVE  /\ Reader!First(g) \o SubSeq(Stretch(g, b), 1, d) = Reader!First(g + d)
         /\ SubSeq(Stretch(g, b), d + 1, b) = Stretch(g + d, b - d)
<1> DEFINE f == Reader!First(g)
           s == Stretch(g, b)
           t == SubSeq(s, 1, d)
           u == SubSeq(s, d + 1, b)
           h == Reader!First(g + d)
           v == Stretch(g + d, b - d)
<1>1. g + d \in Nat /\ b - d \in Nat /\ d \in Nat
  OBVIOUS
<1>2. /\ s \in Seq(Nat) /\ Len(s) = b /\ f \in Seq(Nat) /\ Len(f) = g
      /\ h \in Seq(Nat) /\ Len(h) = g + d /\ v \in Seq(Nat) /\ Len(v) = b - d
  BY <1>1, StretchIs
<1>3. /\ \A i \in 1 .. b : s[i] = g + i
      /\ \A i \in 1 .. g : f[i] = i
      /\ \A i \in 1 .. g + d : h[i] = i
      /\ \A i \in 1 .. b - d : v[i] = g + d + i
  BY <1>1, StretchIs
<1> HIDE DEF f, s, h, v
<1>4. t \in Seq(Nat) /\ Len(t) = d /\ \A i \in 1 .. d : t[i] = s[i]
  <2>1. \A i \in 1 .. d : i \in 1 .. Len(s)
    BY <1>1, <1>2
  <2> QED BY <1>1, <1>2, <2>1
<1>5. u \in Seq(Nat) /\ Len(u) = b - d /\ \A i \in 1 .. b - d : u[i] = s[d + i]
  <2>1. u = SubSeq(s, d + 1, Len(s)) /\ d \in 0 .. Len(s)
    BY <1>2
  <2> HIDE DEF u
  <2>2. u \in Seq(Nat) /\ Len(u) = Len(s) - d /\ \A i \in 1 .. Len(s) - d : u[i] = s[d + i]
    BY <1>2, <2>1, CutsFrom, SMTT(30)
  <2> QED BY <1>2, <2>2
<1> HIDE DEF t, u
<1>6. u = v
  <2>1. ASSUME NEW i \in 1 .. b - d PROVE u[i] = v[i]
    <3>1. d + i \in 1 .. b /\ g + (d + i) = g + d + i
      BY <1>1
    <3> QED BY <1>3, <1>5, <3>1
  <2> QED BY <1>2, <1>5, <2>1, SeqEqual
<1>7. f \o t = h
  <2> DEFINE q == f \o t
  <2>1. /\ q \in Seq(Nat) /\ Len(q) = g + d
        /\ \A i \in 1 .. g + d : q[i] = IF i <= g THEN f[i] ELSE t[i - g]
    <3>1. /\ q \in Seq(Nat) /\ Len(q) = Len(f) + Len(t)
          /\ \A i \in 1 .. Len(f) + Len(t) : q[i] = IF i <= Len(f) THEN f[i] ELSE t[i - Len(f)]
      BY <1>2, <1>4, ConcatProperties
    <3> HIDE DEF q
    <3> QED BY <1>2, <1>4, <3>1
  <2> HIDE DEF q
  <2>2. ASSUME NEW i \in 1 .. g + d PROVE q[i] = h[i]
    <3>1. CASE i <= g
      <4>1. i \in 1 .. g
        BY <3>1
      <4> QED BY <1>3, <2>1, <3>1, <4>1
    <3>2. CASE ~(i <= g)
      <4>1. i - g \in 1 .. d /\ i - g \in 1 .. b /\ g + (i - g) = i
        BY <1>1, <3>2
      <4>2. q[i] = t[i - g]
        BY <2>1, <3>2
      <4> QED BY <1>3, <1>4, <4>1, <4>2
    <3> QED BY <3>1, <3>2
  <2>3. q = h
    BY <1>2, <2>1, <2>2, SeqEqual
  <2> QED BY <2>3 DEF q
<1> QED BY <1>6, <1>7 DEF f, s, t, u, h, v

\* One more record: the offsets grow, and what fitted still fits.
GrowsBy(o, n, v) ==
  \E p : Offsets(p, n + 1, v) /\ p[n + 1] = v /\ \A s \in 0 .. n : p[s] = o[s]
LEMMA OffsetsGrow ==
  ASSUME NEW o, NEW n, NEW w \in Nat, Offsets(o, n, w), NEW v \in Nat, w <= v
  PROVE  GrowsBy(o, n, v)
<1> DEFINE p == [s \in 0 .. n + 1 |-> IF s = n + 1 THEN v ELSE o[s]]
<1>1. n \in Nat /\ o[0] = 0 /\ \A s \in 0 .. n : o[s] \in Nat /\ o[s] <= w
  BY DEF Offsets
<1>2. /\ n + 1 \in 0 .. n + 1 /\ n + 1 \in Nat /\ 0 \in 0 .. n
      /\ \A s \in 0 .. n : s \in 0 .. n + 1 /\ s # n + 1
      /\ \A s \in 0 .. n + 1 : s \in 0 .. n \/ s = n + 1
  BY <1>1
<1>3. p[n + 1] = v /\ \A s \in 0 .. n : p[s] = o[s]
  BY <1>2
<1> HIDE DEF p
<1>4. \A s \in 0 .. n : o[s] <= v
  BY <1>1
<1>5. \A s \in 0 .. n + 1 : p[s] \in Nat /\ p[s] <= v
  BY <1>1, <1>2, <1>3, <1>4
<1>6. Offsets(p, n + 1, v)
  BY <1>1, <1>2, <1>3, <1>5 DEF Offsets
<1> QED BY <1>3, <1>6 DEF GrowsBy
LEMMA FitsLater ==
  ASSUME NEW r, NEW o, NEW n \in Nat, NEW c, Fits(r, o, n, c),
         NEW p, \A s \in 0 .. n : p[s] = o[s]
  PROVE  Fits(r, p, n + 1, c)
<1> SUFFICES ASSUME r.type = "app" /\ r.key = Key("sap", c)
             PROVE  r.seq \in Nat /\ r.seq < n + 1 /\ Carries(p, r)
  BY DEF Fits
<1>1. r.seq \in Nat /\ r.seq < n /\ Carries(o, r)
  BY DEF Fits
<1>2. r.seq \in 0 .. n /\ r.seq + 1 \in 0 .. n /\ r.seq < n + 1
  <2>1. PICK q \in Nat : q = r.seq /\ q < n
    BY <1>1
  <2>2. q \in 0 .. n /\ q + 1 \in 0 .. n /\ q < n + 1
    BY <2>1
  <2> QED BY <2>1, <2>2
<1>3. p[r.seq] = o[r.seq] /\ p[r.seq + 1] = o[r.seq + 1]
  BY <1>2
<1> QED BY <1>1, <1>2, <1>3 DEF Carries
LEMMA WireLater ==
  ASSUME NEW ws, NEW o, NEW n \in Nat, NEW c, OnWire(o, n, ws, c),
         NEW p, \A s \in 0 .. n : p[s] = o[s], NEW r, Fits(r, p, n + 1, c)
  PROVE  OnWire(p, n + 1, Append(ws, r), c)
<1>1. PICK S : ws \in Seq(S) /\ \A q \in S : Fits(q, o, n, c)
  BY DEF OnWire
<1>2. \A q \in S : Fits(q, p, n + 1, c)
  BY <1>1, FitsLater
<1> DEFINE T == S \cup {r}
<1>3. r \in T /\ \A q \in T : Fits(q, p, n + 1, c)
  BY <1>2
<1>4. ws \in Seq(T)
  BY <1>1, SeqMonotonic
<1> HIDE DEF T
<1>5. Append(ws, r) \in Seq(T)
  BY <1>3, <1>4
<1> QED BY <1>3, <1>5 DEF OnWire
LEMMA WireSame ==
  ASSUME NEW ws, NEW o, NEW n, NEW c, OnWire(o, n, ws, c), NEW r, Fits(r, o, n, c)
  PROVE  OnWire(o, n, Append(ws, r), c)
<1>1. PICK S : ws \in Seq(S) /\ \A q \in S : Fits(q, o, n, c)
  BY DEF OnWire
<1> DEFINE T == S \cup {r}
<1>2. r \in T /\ \A q \in T : Fits(q, o, n, c)
  BY <1>1
<1>3. ws \in Seq(T)
  BY <1>1, SeqMonotonic
<1> HIDE DEF T
<1>4. Append(ws, r) \in Seq(T)
  BY <1>2, <1>3
<1> QED BY <1>2, <1>4 DEF OnWire

LEMMA StreamIs ==
  ASSUME NEW o, NEW n, Counts', Offsets(o, n, wrote'), OnWire(o, n, wire', conn'),
         Sent(o, n)', Told(o, n)'
  PROVE  StreamInv'
  BY DEF StreamInv

\* The server's steps leave the client's side alone.
LEMMA ServerSide ==
  ASSUME UNCHANGED client, wrote \in Nat, wrote' \in Nat, wrote <= wrote',
         NEW o, NEW n \in Nat, Told(o, n), NEW p, NEW m \in Nat, n <= m,
         \A s \in 0 .. n : p[s] = o[s]
  PROVE  Told(p, m)'
<1>1. UNCHANGED <<got, appBuf, recv, stage, conn>>
  BY DEF client
<1>2. PICK g \in Nat, b \in Nat :
         /\ got = Reader!First(g) /\ appBuf = Stretch(g, b) /\ g + b <= wrote
         /\ stage \in {"server_hello", "flight"} => g + b = 0
         /\ stage = "established" => /\ recv.key = Key("sap", conn) /\ recv.seq \in 0 .. n
                                     /\ o[recv.seq] = g + b
  BY DEF Told
<1>3. g + b <= wrote'
  BY <1>2
<1>4. \A s \in 0 .. n : s \in 0 .. m
  OBVIOUS
<1>5. stage = "established" => recv.seq \in 0 .. m /\ p[recv.seq] = g + b
  BY <1>2, <1>4
<1> QED BY <1>1, <1>2, <1>3, <1>5 DEF Told

LEMMA ToldOn ==
  ASSUME UNCHANGED <<client, wrote>>, wrote \in Nat, NEW o, NEW n \in Nat, Told(o, n)
  PROVE  Told(o, n)'
<1>1. wrote <= wrote' /\ n <= n /\ wrote' \in Nat
  OBVIOUS
<1> QED BY <1>1, ServerSide

LEMMA FitsPlain ==
  ASSUME NEW t, t # "app", NEW b, NEW o, NEW n, NEW c
  PROVE  Fits(Plain(t, b), o, n, c)
  BY PlainIs DEF Fits

LEMMA HelloStream ==
  ASSUME StreamInv, ServerHello
  PROVE  StreamInv'
<1>1. /\ srv = "wait" /\ UNCHANGED <<client, wrote>> /\ srv' \in {"wait", "flight", "closed"}
      /\ srv' = "flight" => srvKey' = Key("shs", conn)
  BY DEF ServerHello, server
<1>2. UNCHANGED <<conn, need, recv, stage>>
  BY <1>1 DEF client
<1>3. PICK r : wire' = Append(wire, r) /\ \A o, n, c : Fits(r, o, n, c)
  BY FitsPlain DEF ServerHello, Sends
<1>4. Counts'
  BY <1>1, <1>2 DEF StreamInv, Counts
<1>5. PICK o, n : Offsets(o, n, wrote) /\ OnWire(o, n, wire, conn) /\ Sent(o, n) /\ Told(o, n)
  BY DEF StreamInv
<1>6. n = 0 /\ wrote = 0
  BY <1>1, <1>5 DEF Sent
<1>7. OnWire(o, n, wire', conn')
  BY <1>2, <1>3, <1>5, WireSame
<1>8. Sent(o, n)'
  BY <1>1, <1>2, <1>6 DEF Sent
<1>9. Told(o, n)'
  BY <1>1, <1>5, <1>6, ToldOn
<1> QED BY <1>1, <1>4, <1>5, <1>7, <1>8, <1>9, StreamIs

LEMMA FlightStream ==
  ASSUME StreamInv, ServerFlight
  PROVE  StreamInv'
<1>1. srv = "flight" /\ UNCHANGED <<client, wrote, srv, srvKey>>
  BY DEF ServerFlight, server
<1>2. UNCHANGED <<conn, need, recv, stage>>
  BY <1>1 DEF client
<1>3. PICK o, n : Offsets(o, n, wrote) /\ OnWire(o, n, wire, conn) /\ Sent(o, n) /\ Told(o, n)
  BY DEF StreamInv
<1>4. n = 0 /\ wrote = 0 /\ srvKey = Key("shs", conn)
  BY <1>1, <1>3 DEF Sent
<1>5. \A i, b : Fits(SecretRecord(i, b), o, n, conn)
  BY <1>4, SecretIs, NamesDiffer DEF Fits
<1>6. PICK r : wire' = Append(wire, r) /\ Fits(r, o, n, conn)
  <2>1. CASE Sends(Plain("ccs", <<>>))
    BY <2>1, FitsPlain DEF Sends
  <2>2. ASSUME NEW b, SealBy("hs", b)
        PROVE  \E r : wire' = Append(wire, r) /\ Fits(r, o, n, conn)
    BY <1>5, <2>2 DEF SealBy, Sends, SecretRecord
  <2> QED BY <2>1, <2>2 DEF ServerFlight
<1>7. Counts'
  BY <1>1, <1>2 DEF StreamInv, Counts
<1>8. OnWire(o, n, wire', conn')
  BY <1>2, <1>3, <1>6, WireSame
<1>9. Sent(o, n)'
  BY <1>1, <1>2, <1>4 DEF Sent
<1>10. Told(o, n)'
  BY <1>1, <1>3, <1>4, ToldOn
<1> QED BY <1>1, <1>3, <1>7, <1>8, <1>9, <1>10, StreamIs

LEMMA SwitchStream ==
  ASSUME StreamInv, ServerSwitchesKeys
  PROVE  StreamInv'
<1>1. srv = "flight" /\ srv' = "app" /\ srvSeq' = 0 /\ UNCHANGED <<client, wrote, wire>>
  BY DEF ServerSwitchesKeys
<1>2. UNCHANGED <<conn, need, recv, stage>>
  BY <1>1 DEF client
<1>3. PICK o, n : Offsets(o, n, wrote) /\ OnWire(o, n, wire, conn) /\ Sent(o, n) /\ Told(o, n)
  BY DEF StreamInv
<1>4. n = 0 /\ wrote = 0 /\ o[0] = 0
  BY <1>1, <1>3 DEF Sent, Offsets
<1>5. Counts'
  BY <1>1, <1>2 DEF StreamInv, Counts
<1>6. Sent(o, n)'
  BY <1>1, <1>4 DEF Sent
<1>7. Told(o, n)'
  BY <1>1, <1>3, <1>4, ToldOn
<1> QED BY <1>1, <1>2, <1>3, <1>5, <1>6, <1>7, StreamIs

LEMMA Difference ==
  ASSUME NEW a \in Nat, NEW b \in Nat, a <= b
  PROVE  b - a \in Nat /\ b = a + (b - a)
  OBVIOUS

\* A record of the application's, behind which v bytes are sent.
LEMMA AppStream ==
  ASSUME StreamInv, srv = "app", UNCHANGED client, srv' \in {"app", "closed"},
         NEW i, NEW b, SealBy(i, b), wrote' \in Nat, wrote <= wrote',
         IF i = "app" THEN b = Stretch(wrote, wrote' - wrote) ELSE wrote' = wrote
  PROVE  StreamInv'
<1>1. UNCHANGED <<conn, need, recv, stage>>
  BY DEF client
<1>2. wire' = Append(wire, SecretRecord(i, b)) /\ srvSeq' = srvSeq + 1
  BY DEF SealBy, Sends, SecretRecord
<1>3. PICK o, n : Offsets(o, n, wrote) /\ OnWire(o, n, wire, conn) /\ Sent(o, n) /\ Told(o, n)
  BY DEF StreamInv
<1>4. n \in Nat /\ n = srvSeq /\ o[n] = wrote /\ wrote \in Nat
  BY <1>3 DEF Offsets, Sent, StreamInv, Counts
<1>5. PICK p : Offsets(p, n + 1, wrote') /\ p[n + 1] = wrote' /\ \A s \in 0 .. n : p[s] = o[s]
  BY <1>3, <1>4, OffsetsGrow DEF GrowsBy
<1>6. p[n] = wrote /\ n < n + 1
  <2>1. n \in 0 .. n /\ n < n + 1
    BY <1>4
  <2> QED BY <1>4, <1>5, <2>1
<1>7. Fits(SecretRecord(i, b), p, n + 1, conn)
  <2> DEFINE r == SecretRecord(i, b)
  <2>1. r.seq = n /\ r.inner = i /\ r.body = b
    BY <1>4, SecretIs
  <2> HIDE DEF r
  <2>2. Carries(p, r)
    <3>1. CASE i = "app"
      <4>1. PICK k \in Nat : k = wrote' - wrote /\ wrote' = wrote + k
        <5>1. wrote' - wrote \in Nat /\ wrote' = wrote + (wrote' - wrote)
          BY <1>4, Difference
        <5> QED BY <5>1
      <4>2. p[r.seq + 1] = wrote'
        BY <1>5, <2>1
      <4>3. p[r.seq] = wrote
        BY <1>6, <2>1
      <4>4. b = Stretch(wrote, k)
        BY <3>1, <4>1
      <4> QED BY <2>1, <3>1, <4>1, <4>2, <4>3, <4>4 DEF Carries
    <3>2. CASE i # "app"
      <4>1. p[r.seq + 1] = wrote'
        BY <1>5, <2>1
      <4>2. p[r.seq] = wrote
        BY <1>6, <2>1
      <4>3. wrote' = wrote
        BY <3>2
      <4> QED BY <2>1, <3>2, <4>1, <4>2, <4>3 DEF Carries
    <3> QED BY <3>1, <3>2
  <2>3. r.seq \in Nat /\ r.seq < n + 1
    BY <1>4, <1>6, <2>1
  <2>4. Fits(r, p, n + 1, conn)
    BY <2>2, <2>3 DEF Fits
  <2> QED BY <2>4 DEF r
<1>8. OnWire(p, n + 1, wire', conn')
  BY <1>1, <1>2, <1>3, <1>4, <1>5, <1>7, WireLater
<1>9. PICK m \in Nat : m = n + 1 /\ n <= m
  BY <1>4
<1>10. Sent(p, m)'
  BY <1>2, <1>4, <1>5, <1>9 DEF Sent
<1>11. Told(p, m)'
  BY <1>3, <1>4, <1>5, <1>9, ServerSide
<1>12. Counts'
  BY <1>1 DEF StreamInv, Counts
<1> QED BY <1>5, <1>8, <1>9, <1>10, <1>11, <1>12, StreamIs

LEMMA DataStream ==
  ASSUME StreamInv, ServerData
  PROVE  StreamInv'
<1>1. srv = "app" /\ UNCHANGED <<client, srv>> /\ wrote \in Nat
  BY DEF ServerData, StreamInv, Counts
<1>2. ASSUME NEW k \in 0 .. MaxBytes - wrote, SealBy("app", [i \in 1 .. k |-> wrote + i]),
             wrote' = wrote + k
      PROVE  StreamInv'
  <2>1. k \in Nat /\ wrote' - wrote = k /\ wrote' \in Nat /\ wrote <= wrote'
    BY <1>1, <1>2, BoundAssumption
  <2>2. [i \in 1 .. k |-> wrote + i] = Stretch(wrote, wrote' - wrote)
    BY <2>1 DEF Stretch
  <2> QED BY <1>1, <1>2, <2>1, <2>2, AppStream
<1>3. CASE SealBy("hs", <<>>) /\ wrote' = wrote
  <2>1. wrote <= wrote' /\ wrote' \in Nat
    BY <1>1, <1>3
  <2> QED BY <1>1, <1>3, <2>1, AppStream
<1> QED BY <1>2, <1>3 DEF ServerData

LEMMA CloseStream ==
  ASSUME StreamInv, ServerCloses
  PROVE  StreamInv'
<1>1. srv # "closed" /\ srv' = "closed" /\ UNCHANGED <<client, wrote>> /\ wrote \in Nat
  BY DEF ServerCloses, StreamInv, Counts
<1>2. UNCHANGED <<conn, need, recv, stage>>
  BY <1>1 DEF client
<1>3. CASE srv = "app" /\ SealBy("alert", <<>>)
  <2>1. wrote <= wrote' /\ wrote' \in Nat
    BY <1>1
  <2> QED BY <1>1, <1>3, <2>1, AppStream
<1>4. ASSUME srv # "app" \/ Sends(Plain("alert", <<>>)) PROVE StreamInv'
  <2>1. PICK o, n : Offsets(o, n, wrote) /\ OnWire(o, n, wire, conn) /\ Sent(o, n) /\ Told(o, n)
    BY DEF StreamInv
  <2>2. PICK r : wire' = Append(wire, r) /\ Fits(r, o, n, conn)
    <3>1. CASE Sends(Plain("alert", <<>>))
      BY <3>1, FitsPlain DEF Sends
    <3>2. CASE srv = "flight" /\ SealBy("alert", <<>>)
      <4>1. srvKey = Key("shs", conn)
        BY <2>1, <3>2 DEF Sent
      <4>2. Fits(SecretRecord("alert", <<>>), o, n, conn)
        BY <4>1, SecretIs, NamesDiffer DEF Fits
      <4> QED BY <3>2, <4>2 DEF SealBy, Sends, SecretRecord
    <3> QED BY <1>4, <3>1, <3>2 DEF ServerCloses, StreamInv, Counts
  <2>3. Counts'
    BY <1>1, <1>2 DEF StreamInv, Counts
  <2>4. OnWire(o, n, wire', conn')
    BY <1>2, <2>1, <2>2, WireSame
  <2>5. Sent(o, n)'
    BY <1>1 DEF Sent
  <2>6. Told(o, n)'
    BY <1>1, <2>1, ToldOn DEF Offsets
  <2> QED BY <1>1, <2>1, <2>3, <2>4, <2>5, <2>6, StreamIs
<1> QED BY <1>3, <1>4 DEF ServerCloses, StreamInv, Counts

\* The client's steps leave the server's side alone.
LEMMA ClientSide ==
  ASSUME UNCHANGED <<conn, server>>, \A S : wire \in Seq(S) => wire' \in Seq(S),
         NEW o, NEW n, Offsets(o, n, wrote), OnWire(o, n, wire, conn), Sent(o, n),
         Counts', Told(o, n)'
  PROVE  StreamInv'
<1>1. OnWire(o, n, wire', conn')
  BY DEF OnWire
<1>2. Offsets(o, n, wrote') /\ Sent(o, n)'
  BY DEF server, Sent
<1> QED BY <1>1, <1>2, StreamIs

LEMMA ReadKeeps ==
  /\ ReadFails => \A S : wire \in Seq(S) => wire' \in Seq(S)
  /\ \A r : ReadRecord(r) => \A S : wire \in Seq(S) => wire' \in Seq(S)
  BY WireRest

LEMMA CountsOn ==
  ASSUME StreamInv, UNCHANGED <<conn, server>>, need' \in Nat, need' # 0 => stage' = "established",
         recv' = [key |-> recv'.key, seq |-> recv'.seq]
  PROVE  Counts'
  BY DEF StreamInv, Counts, server

\* Steps that move no byte: the stage may end.
LEMMA QuietStream ==
  ASSUME StreamInv, UNCHANGED <<conn, server, got, appBuf>>,
         \A S : wire \in Seq(S) => wire' \in Seq(S),
         need' \in Nat, need' # 0 => stage' = "established",
         recv' = [key |-> recv'.key, seq |-> recv'.seq],
         \/ stage' = "failed"
         \/ stage' = stage /\ recv' = recv
         \/ stage' = stage /\ stage \in {"server_hello", "flight"}
         \/ stage' = "flight" /\ stage = "server_hello"
  PROVE  StreamInv'
<1>1. PICK o, n : Offsets(o, n, wrote) /\ OnWire(o, n, wire, conn) /\ Sent(o, n) /\ Told(o, n)
  BY DEF StreamInv
<1>2. Counts' /\ wrote' = wrote
  BY CountsOn DEF server
<1>3. Told(o, n)'
  BY <1>1, <1>2 DEF Told
<1> QED BY <1>1, <1>2, <1>3, ClientSide

LEMMA WireEmpty ==
  ASSUME NEW o, NEW n, NEW c
  PROVE  OnWire(o, n, <<>>, c)
<1>1. PICK S : S = {}
  OBVIOUS
<1>2. <<>> \in Seq(S)
  OBVIOUS
<1>3. \A r \in S : Fits(r, o, n, c)
  BY <1>1
<1> QED BY <1>2, <1>3 DEF OnWire

LEMMA ConnectStream ==
  ASSUME StreamInv, NEW sent \in BOOLEAN, Connect(sent)
  PROVE  StreamInv'
<1>1. /\ conn' = conn + 1 /\ stage' \in {"server_hello", "failed"} /\ srv' \in {"wait", "closed"}
      /\ appBuf' = <<>> /\ got' = <<>> /\ wire' = <<>> /\ wrote' = 0 /\ need' = 0
      /\ recv' = Fresh(NoKey)
  BY DEF Connect
<1>2. conn' \in Nat /\ conn' # 0 /\ 0 \in Nat
  BY <1>1 DEF StreamInv, Counts
<1>3. recv' = [key |-> recv'.key, seq |-> recv'.seq]
  BY <1>1 DEF Fresh
<1>4. Counts'
  BY <1>1, <1>2, <1>3 DEF Counts
<1>5. PICK o : Offsets(o, 0, 0)
  <2> DEFINE o == [s \in 0 .. 0 |-> 0]
  <2>1. 0 .. 0 = {0} /\ 0 <= 0 /\ 0 \in Nat
    OBVIOUS
  <2>2. o[0] = 0
    BY <2>1
  <2> HIDE DEF o
  <2>3. Offsets(o, 0, 0)
    BY <2>1, <2>2 DEF Offsets
  <2> QED BY <2>3
<1>6. OnWire(o, 0, wire', conn')
  BY <1>1, WireEmpty
<1>7. Sent(o, 0)'
  BY <1>1 DEF Sent
<1>8. Told(o, 0)'
  <2>1. 0 + 0 = 0 /\ 0 <= 0
    OBVIOUS
  <2>2. got' = Reader!First(0) /\ appBuf' = Stretch(0, 0)
    BY <1>1, NothingTold
  <2> QED BY <1>1, <1>2, <2>1, <2>2 DEF Told
<1> QED BY <1>1, <1>4, <1>5, <1>6, <1>7, <1>8, StreamIs

LEMMA ReadHelloStream ==
  ASSUME StreamInv, ReadServerHello
  PROVE  StreamInv'
<1>1. /\ UNCHANGED <<conn, server, got, appBuf, need>> /\ stage = "server_hello"
      /\ stage' = "failed" \/ stage' = stage \/ stage' = "flight"
      /\ recv' = recv \/ recv' = Fresh(Key("shs", conn))
  BY DEF ReadServerHello, Fail, Rekey
<1>2. \A S : wire \in Seq(S) => wire' \in Seq(S)
  BY ReadKeeps DEF ReadServerHello
<1>3. need = 0 /\ need \in Nat /\ recv = [key |-> recv.key, seq |-> recv.seq]
  BY <1>1 DEF StreamInv, Counts
<1>4. recv' = [key |-> recv'.key, seq |-> recv'.seq]
  BY <1>1, <1>3 DEF Fresh
<1> QED BY <1>1, <1>2, <1>3, <1>4, QuietStream

LEMMA ReadFlightStream ==
  ASSUME StreamInv, ReadFlight
  PROVE  StreamInv'
<1>1. /\ UNCHANGED <<conn, server, got, appBuf, need>> /\ stage = "flight"
      /\ stage' = "failed" \/ stage' = stage
      /\ recv' = recv \/ recv' = [recv EXCEPT !.seq = @ + 1]
  BY DEF ReadFlight, Fail, Accumulate
<1>2. \A S : wire \in Seq(S) => wire' \in Seq(S)
  BY ReadKeeps DEF ReadFlight
<1>3. need = 0 /\ need \in Nat /\ recv = [key |-> recv.key, seq |-> recv.seq]
  BY <1>1 DEF StreamInv, Counts
<1>4. recv' = [key |-> recv'.key, seq |-> recv'.seq]
  BY <1>1, <1>3
<1> QED BY <1>1, <1>2, <1>3, <1>4, QuietStream

LEMMA FinishStream ==
  ASSUME StreamInv, NEW sent \in BOOLEAN, Finish(sent)
  PROVE  StreamInv'
<1>1. /\ UNCHANGED <<conn, server, got, appBuf, need, wire>> /\ stage = "flight"
      /\ \/ stage' = "failed" /\ recv' = recv
         \/ stage' = "established" /\ recv' = Fresh(Key("sap", conn))
  BY DEF Finish, Fail, Rekey
<1>2. need = 0 /\ need \in Nat /\ recv = [key |-> recv.key, seq |-> recv.seq]
  BY <1>1 DEF StreamInv, Counts
<1>3. CASE stage' = "failed" /\ recv' = recv
  BY <1>1, <1>2, <1>3, QuietStream
<1>4. CASE stage' = "established" /\ recv' = Fresh(Key("sap", conn))
  <2>1. PICK o, n : Offsets(o, n, wrote) /\ OnWire(o, n, wire, conn) /\ Sent(o, n) /\ Told(o, n)
    BY DEF StreamInv
  <2>2. PICK g \in Nat, b \in Nat :
           got = Reader!First(g) /\ appBuf = Stretch(g, b) /\ g + b <= wrote /\ g + b = 0
    BY <1>1, <2>1 DEF Told
  <2>3. recv'.key = Key("sap", conn) /\ recv'.seq = 0
        /\ recv' = [key |-> recv'.key, seq |-> recv'.seq]
    BY <1>4 DEF Fresh
  <2>4. 0 \in 0 .. n /\ o[0] = 0
    BY <2>1 DEF Offsets
  <2>5. Told(o, n)'
    <3>1. wrote' = wrote /\ conn' = conn
      BY <1>1 DEF server
    <3> QED BY <1>1, <1>4, <2>2, <2>3, <2>4, <3>1 DEF Told
  <2>6. Counts'
    BY <1>1, <1>2, <1>4, <2>3, CountsOn
  <2> QED BY <1>1, <2>1, <2>5, <2>6, ClientSide
<1> QED BY <1>1, <1>3, <1>4

LEMMA ReadBufferedStream ==
  ASSUME StreamInv, ReadBuffered
  PROVE  /\ StreamInv'
         /\ \E d \in 0 .. wrote : DOMAIN got \subseteq 1 .. d /\ got' = Reader!First(d)
<1>1. /\ need > 0 /\ got' = got \o SubSeq(appBuf, 1, Given) /\ appBuf' = Rest(Given)
      /\ need' = need - Given
      /\ UNCHANGED <<conn, stage, recv, server, wire>>
  BY DEF ReadBuffered
<1>2. PICK o, n : Offsets(o, n, wrote) /\ OnWire(o, n, wire, conn) /\ Sent(o, n) /\ Told(o, n)
  BY DEF StreamInv
<1>3. PICK g \in Nat, b \in Nat :
         /\ got = Reader!First(g) /\ appBuf = Stretch(g, b) /\ g + b <= wrote
         /\ stage \in {"server_hello", "flight"} => g + b = 0
         /\ stage = "established" => /\ recv.key = Key("sap", conn) /\ recv.seq \in 0 .. n
                                     /\ o[recv.seq] = g + b
  BY <1>2 DEF Told
<1>4. Len(appBuf) = b
  BY <1>3, StretchIs
<1>5. need \in Nat /\ wrote \in Nat /\ (need # 0 => stage = "established")
      /\ recv = [key |-> recv.key, seq |-> recv.seq]
  BY DEF StreamInv, Counts
<1>6. PICK d \in 0 .. b : d = Given /\ d <= need
  BY <1>4, <1>5 DEF Given
<1>7. got' = Reader!First(g + d) /\ appBuf' = Stretch(g + d, b - d)
  <2>1. SubSeq(appBuf, d + 1, Len(appBuf)) = SubSeq(Stretch(g, b), d + 1, b)
    BY <1>3, <1>4
  <2>2. got' = Reader!First(g) \o SubSeq(Stretch(g, b), 1, d)
    BY <1>1, <1>3, <1>6
  <2>3. appBuf' = SubSeq(appBuf, d + 1, Len(appBuf))
    BY <1>1, <1>6 DEF Rest
  <2> QED BY <2>1, <2>2, <2>3, BorderMoves
<1>8. PICK h \in Nat, l \in Nat : h = g + d /\ l = b - d /\ h + l = g + b /\ h <= wrote /\ g <= h
  <2>1. g + d \in Nat /\ b - d \in Nat /\ (g + d) + (b - d) = g + b /\ g + d <= wrote /\ g <= g + d
    BY <1>3, <1>5
  <2> QED BY <2>1
<1>9. Told(o, n)'
  <2>1. wrote' = wrote /\ conn' = conn /\ got' = Reader!First(h) /\ appBuf' = Stretch(h, l)
    BY <1>1, <1>7, <1>8 DEF server
  <2>2. h + l <= wrote
    BY <1>3, <1>8
  <2> QED BY <1>1, <1>3, <1>8, <2>1, <2>2 DEF Told
<1>10. Counts'
  <2>1. need - d \in Nat /\ need # 0
    BY <1>1, <1>5, <1>6
  <2> QED BY <1>1, <1>5, <1>6, <2>1, CountsOn
<1>11. StreamInv'
  BY <1>1, <1>2, <1>9, <1>10, ClientSide
<1>12. DOMAIN got \subseteq 1 .. h
  <2>1. DOMAIN got = 1 .. g
    BY <1>3 DEF Reader!First
  <2>2. 1 .. g \subseteq 1 .. h
    BY <1>8
  <2> QED BY <2>1, <2>2
<1>13. h \in 0 .. wrote /\ got' = Reader!First(h)
  BY <1>5, <1>7, <1>8
<1> QED BY <1>11, <1>12, <1>13

\* A record that opens is one of the server's, and the next one.
LEMMA ReadOpenedStream ==
  ASSUME StreamInv, ReadOpened
  PROVE  StreamInv'
<1>1. need > 0 /\ appBuf = <<>> /\ recv' = [recv EXCEPT !.seq = @ + 1]
      /\ UNCHANGED <<conn, stage, got, server>>
  BY DEF ReadOpened
<1>2. PICK r : /\ r \in {wire[i] : i \in DOMAIN wire} \cup Garbage
               /\ ReadRecord(r) /\ r.type = "app" /\ Opens(r)
               /\ appBuf' = IF r.inner = "app" THEN r.body ELSE appBuf
               /\ need' = IF r.inner = "alert" THEN 0 ELSE need
  BY DEF ReadOpened
<1>3. PICK o, n : Offsets(o, n, wrote) /\ OnWire(o, n, wire, conn) /\ Sent(o, n) /\ Told(o, n)
  BY DEF StreamInv
<1>4. need \in Nat /\ need # 0 /\ stage = "established"
      /\ recv = [key |-> recv.key, seq |-> recv.seq]
  BY <1>1 DEF StreamInv, Counts
<1>5. PICK g \in Nat, b \in Nat :
         /\ got = Reader!First(g) /\ appBuf = Stretch(g, b) /\ g + b <= wrote
         /\ recv.key = Key("sap", conn) /\ recv.seq \in 0 .. n /\ o[recv.seq] = g + b
  BY <1>3, <1>4 DEF Told
<1>6. b = 0
  <2>1. Len(appBuf) = b /\ Len(<<>>) = 0
    BY <1>5, StretchIs
  <2> QED BY <1>1, <2>1
<1>7. o[recv.seq] = g
  BY <1>5, <1>6
<1>8. r.key = Key("sap", conn) /\ r.seq = recv.seq
  BY <1>2, <1>5 DEF Opens
<1>9. r \notin Garbage
  <2>1. \A t, q : Plain(t, q).key = NoKey
    BY DEF Plain
  <2>2. Key("sap", conn) # NoKey
    BY DEF Key, NoKey
  <2> QED BY <1>8, <2>1, <2>2 DEF Garbage
<1>10. Fits(r, o, n, conn)
  <2>1. PICK S : wire \in Seq(S) /\ \A q \in S : Fits(q, o, n, conn)
    BY <1>3 DEF OnWire
  <2>2. r \in S
    BY <1>2, <1>9, <2>1
  <2> QED BY <2>1, <2>2
<1>11. r.seq < n /\ Carries(o, r)
  BY <1>2, <1>8, <1>10 DEF Fits
<1>12. PICK s \in Nat : s = recv.seq /\ s < n /\ o[s] = g /\ s + 1 \in 0 .. n
  <2>1. n \in Nat
    BY <1>3 DEF Offsets
  <2>2. PICK s \in 0 .. n : s = recv.seq
    BY <1>5
  <2>3. s < n
    BY <1>8, <1>11, <2>2
  <2>4. s + 1 \in 0 .. n /\ s \in Nat
    BY <2>1, <2>3
  <2> QED BY <1>7, <2>2, <2>3, <2>4
<1>13. o[s + 1] \in Nat /\ o[s + 1] <= wrote
  BY <1>3, <1>12 DEF Offsets
<1>14. \E k \in Nat : o[s + 1] = g + k /\ appBuf' = Stretch(g, k)
  <2>1. r.seq = s /\ r.seq + 1 = s + 1
    BY <1>8, <1>12
  <2>2. CASE r.inner = "app"
    <3>1. PICK k \in Nat : o[r.seq + 1] = o[r.seq] + k /\ r.body = Stretch(o[r.seq], k)
      BY <1>11, <2>2 DEF Carries
    <3> QED BY <1>2, <1>12, <2>1, <2>2, <3>1
  <2>3. CASE r.inner # "app"
    <3>1. o[s + 1] = g
      BY <1>11, <1>12, <2>1, <2>3 DEF Carries
    <3>2. appBuf' = Stretch(g, 0)
      BY <1>1, <1>2, <2>3, NothingTold
    <3>3. g = g + 0 /\ 0 \in Nat
      OBVIOUS
    <3> QED BY <3>1, <3>2, <3>3
  <2> QED BY <2>2, <2>3
<1>15. recv'.key = Key("sap", conn) /\ recv'.seq = s + 1
       /\ recv' = [key |-> recv'.key, seq |-> recv'.seq]
  <2>1. recv'.key = recv.key /\ recv'.seq = recv.seq + 1
        /\ recv' = [key |-> recv'.key, seq |-> recv'.seq]
    BY <1>1, <1>4
  <2> QED BY <1>5, <1>12, <2>1
<1>16. Told(o, n)'
  <2>1. wrote' = wrote /\ conn' = conn /\ got' = got /\ stage' = stage
    BY <1>1 DEF server
  <2>2. PICK k \in Nat : o[s + 1] = g + k /\ appBuf' = Stretch(g, k)
    BY <1>14
  <2>3. g + k <= wrote
    BY <1>13, <2>2
  <2> QED BY <1>4, <1>5, <1>12, <1>15, <2>1, <2>2, <2>3 DEF Told
<1>17. Counts'
  <2>1. need' \in Nat /\ stage' = "established"
    BY <1>1, <1>2, <1>4
  <2> QED BY <1>1, <1>15, <2>1, CountsOn
<1>18. \A S : wire \in Seq(S) => wire' \in Seq(S)
  BY <1>2, ReadKeeps
<1> QED BY <1>1, <1>3, <1>16, <1>17, <1>18, ClientSide

LEMMA StreamInit == Init => StreamInv
<1> SUFFICES ASSUME Init PROVE StreamInv
  OBVIOUS
<1>1. Counts
  <2>1. recv = [key |-> recv.key, seq |-> recv.seq]
    BY DEF Init, Fresh
  <2> QED BY <2>1 DEF Init, Counts
<1> DEFINE o == [s \in 0 .. 0 |-> 0]
<1>2. 0 .. 0 = {0} /\ 0 <= 0 /\ 0 \in Nat /\ 0 + 0 = 0
  OBVIOUS
<1>3. o[0] = 0
  BY <1>2
<1> HIDE DEF o
<1>4. Offsets(o, 0, wrote)
  BY <1>2, <1>3 DEF Offsets, Init
<1>5. OnWire(o, 0, wire, conn)
  BY WireEmpty DEF Init
<1>6. Sent(o, 0)
  BY DEF Init, Sent
<1>7. Told(o, 0)
  <2>1. got = Reader!First(0) /\ appBuf = Stretch(0, 0)
    BY NothingTold DEF Init
  <2> QED BY <1>2, <2>1 DEF Init, Told
<1> QED BY <1>1, <1>4, <1>5, <1>6, <1>7 DEF StreamInv

LEMMA StreamStep == StreamInv /\ [Next]_vars => StreamInv'
<1> SUFFICES ASSUME StreamInv, [Next]_vars PROVE StreamInv'
  OBVIOUS
<1>1. need \in Nat /\ recv = [key |-> recv.key, seq |-> recv.seq]
      /\ (need # 0 => stage = "established")
  BY DEF StreamInv, Counts
<1>2. ASSUME NEW sent \in BOOLEAN, Connect(sent) PROVE StreamInv'
  BY <1>2, ConnectStream
<1>3. ASSUME NEW sent \in BOOLEAN, Finish(sent) PROVE StreamInv'
  BY <1>3, FinishStream
<1>4. ASSUME NEW sent \in BOOLEAN, Write(sent) PROVE StreamInv'
  BY <1>1, <1>4, QuietStream DEF Write
<1>5. ASSUME NEW n \in Asks, StartRead(n) PROVE StreamInv'
  <2>1. n \in Nat
    BY AskAssumption
  <2> QED BY <1>1, <1>5, <2>1, QuietStream DEF StartRead
<1>6. ASSUME ReadOther PROVE StreamInv'
  <2>1. need' \in {0, need} /\ UNCHANGED <<conn, stage, server, got, appBuf, recv>>
    BY <1>6 DEF ReadOther
  <2>2. \A S : wire \in Seq(S) => wire' \in Seq(S)
    BY <1>6, ReadKeeps DEF ReadOther
  <2> QED BY <1>1, <2>1, <2>2, QuietStream
<1>7. ASSUME ReadGivesUp PROVE StreamInv'
  <2>1. need' = 0 /\ UNCHANGED <<conn, stage, server, got, appBuf, recv>>
    BY <1>7 DEF ReadGivesUp
  <2>2. \A S : wire \in Seq(S) => wire' \in Seq(S)
    BY <1>7, ReadKeeps DEF ReadGivesUp
  <2> QED BY <1>1, <2>1, <2>2, QuietStream
<1>8. CASE UNCHANGED vars
  BY <1>1, <1>8, QuietStream DEF vars
<1> QED BY <1>2, <1>3, <1>4, <1>5, <1>6, <1>7, <1>8, ReadHelloStream, ReadFlightStream,
           ReadBufferedStream, ReadOpenedStream, HelloStream, FlightStream, SwitchStream,
           DataStream, CloseStream DEF Next

\* Each step of the client and its server is one of the byte stream, or none.
LEMMA StreamRefines == StreamInv /\ [Next]_vars => [Reader!Next]_(Reader!vars)
<1> SUFFICES ASSUME StreamInv, [Next]_vars PROVE Reader!Next \/ UNCHANGED Reader!vars
  BY DEF Reader!Next
<1>1. ASSUME UNCHANGED <<conn, wrote, got>> PROVE UNCHANGED Reader!vars
  BY <1>1 DEF Reader!vars
<1>2. ASSUME NEW sent \in BOOLEAN, Connect(sent) PROVE Reader!Next
  <2>1. conn' = conn + 1 /\ wrote' = 0 /\ got' = Reader!First(0)
    BY <1>2, NothingTold DEF Connect
  <2>2. conn' # 0
    BY <2>1 DEF StreamInv, Counts
  <2>3. Reader!Open
    BY <2>1, <2>2, BoundAssumption DEF Reader!Open
  <2> QED BY <2>3 DEF Reader!Next
<1>3. ASSUME ReadBuffered PROVE Reader!Next
  <2>1. \E d \in 0 .. wrote : DOMAIN got \subseteq 1 .. d /\ got' = Reader!First(d)
    BY <1>3, ReadBufferedStream
  <2>2. UNCHANGED <<conn, wrote>>
    BY <1>3 DEF ReadBuffered, server
  <2>3. Reader!Deliver
    BY <2>1, <2>2 DEF Reader!Deliver
  <2> QED BY <2>3 DEF Reader!Next
<1>4. ASSUME ServerData PROVE Reader!Next \/ UNCHANGED <<conn, wrote, got>>
  <2>1. srv = "app" /\ UNCHANGED <<conn, got>>
        /\ (wrote' = wrote \/ \E k \in 0 .. MaxBytes - wrote : wrote' = wrote + k)
    BY <1>4 DEF ServerData, client
  <2>2. conn # 0 /\ conn \in Nat /\ wrote \in Nat /\ MaxBytes \in Nat
    BY <2>1, BoundAssumption DEF StreamInv, Counts
  <2>3. ASSUME NEW k \in 0 .. MaxBytes - wrote, wrote' = wrote + k PROVE Reader!Next
    <3>1. wrote' \in wrote .. MaxBytes
      BY <2>2, <2>3
    <3>2. Reader!Arrive
      BY <2>1, <2>2, <3>1 DEF Reader!Arrive
    <3> QED BY <3>2 DEF Reader!Next
  <2> QED BY <2>1, <2>3
<1>5. ASSUME NEW sent \in BOOLEAN, Finish(sent) \/ Write(sent) PROVE UNCHANGED <<conn, wrote, got>>
  BY <1>5 DEF Finish, Write, server
<1>6. ASSUME NEW n \in Asks, StartRead(n) PROVE UNCHANGED <<conn, wrote, got>>
  BY <1>6 DEF StartRead, server
<1>7. ASSUME ReadServerHello \/ ReadFlight PROVE UNCHANGED <<conn, wrote, got>>
  BY <1>7 DEF ReadServerHello, ReadFlight, server
<1>8. ASSUME ReadOpened \/ ReadOther \/ ReadGivesUp PROVE UNCHANGED <<conn, wrote, got>>
  BY <1>8 DEF ReadOpened, ReadOther, ReadGivesUp, server
<1>9. ASSUME ServerHello \/ ServerFlight \/ ServerSwitchesKeys \/ ServerCloses
      PROVE  UNCHANGED <<conn, wrote, got>>
  BY <1>9 DEF ServerHello, ServerFlight, ServerSwitchesKeys, ServerCloses, server, client
<1>10. ASSUME UNCHANGED vars PROVE UNCHANGED <<conn, wrote, got>>
  <2>1. UNCHANGED <<conn, got, server>>
    BY <1>10 DEF vars
  <2> QED BY <2>1 DEF server
<1> DEFINE Moves == Reader!Next
           Stays == UNCHANGED <<conn, wrote, got>>
<1>11. ASSUME NEW sent \in BOOLEAN, Connect(sent) \/ Finish(sent) \/ Write(sent)
       PROVE  Moves \/ Stays
  BY <1>2, <1>5, <1>11
<1>12. ASSUME ReadServerHello \/ ReadFlight \/ ReadBuffered \/ ReadOpened \/ ReadOther \/ ReadGivesUp
       PROVE  Moves \/ Stays
  BY <1>3, <1>7, <1>8, <1>12
<1>13. ASSUME ServerHello \/ ServerFlight \/ ServerSwitchesKeys \/ ServerData \/ ServerCloses
       PROVE  Moves \/ Stays
  BY <1>4, <1>9, <1>13
<1>14. (\E n \in Asks : StartRead(n)) \/ UNCHANGED vars => Stays
  BY <1>6, <1>10
<1> HIDE DEF Moves, Stays
<1>15. Moves \/ Stays
  BY <1>11, <1>12, <1>13, <1>14 DEF Next
<1> QED BY <1>1, <1>15 DEF Moves, Stays

\* What read gives out is the server's stream from its first byte on, nothing missing,
\* doubled or out of place, for every cut of the stream into records and reads, and
\* behind reads that ended inside a record (tls.cpp:432).
THEOREM ReadsFollowTheStream == Spec => ReadsAreTheStream
<1>1. Init => Reader!Init
  BY NothingTold DEF Init, Reader!Init
<1> QED BY <1>1, StreamInit, StreamStep, StreamRefines, PTL
           DEF Spec, ReadsAreTheStream, Reader!Spec
===============================================================================
