------------------------------- MODULE TcpStream -------------------------------
(***************************************************************************)
(* The receiving side of TCP in src/libc/network.cpp: handleTcp and the    *)
(* calls that open, read and close the one connection the kernel has.      *)
(*                                                                         *)
(* The peer is external.  Once the handshake is complete, any piece of its *)
(* stream may arrive at any time, any number of times: that is loss,       *)
(* duplication, reordering, retransmission in other pieces, and a peer     *)
(* that ignores the window.  Segments of an earlier connection are dropped *)
(* by the port check, so only the current one is here.                     *)
(*                                                                         *)
(* Data: the bytes of the stream are their numbers, from 1; 0 is any other *)
(* byte, so opening a connection turns what the buffer holds into zeros.   *)
(* The client's own sequence number, lastTcpSeq, is counted from its       *)
(* initial value.  A wait may end by its deadline at any time, so a call   *)
(* that waits takes what is there when it returns.                         *)
(***************************************************************************)
EXTENDS Naturals

CONSTANTS Cap,         \* sizeof(tcpRxBuffer) - 1: 16383
          Half,        \* half of the sequence numbers: 2^31
          Irs,         \* the initial sequence numbers a peer may choose
          MaxStream,   \* bound: bytes a peer sends on a connection
          MaxSeg,      \* the longest payload of a segment
          Asks,        \* how many bytes a caller asks for at a time
          MaxConns,    \* bound: connections opened
          MaxSent,     \* bound: bytes the client sends on a connection
          AfterSocks   \* may a one-shot request follow a session whose reader
                       \* has left tcpConsumed above 0 (a SOCKS5 session)?

SeqMod == 2 * Half
SeqNumber == 0 .. SeqMod - 1

ASSUME CapAssumption == Cap \in Nat \ {0} /\ MaxSeg \in Nat \ {0}
ASSUME SeqAssumption == /\ Half \in Nat /\ MaxStream \in Nat
                        /\ MaxStream + 2 < Half /\ Irs \subseteq SeqNumber
ASSUME AskAssumption == Asks \subseteq Nat \ {0} /\ AfterSocks \in BOOLEAN
ASSUME BoundAssumption == MaxConns \in Nat /\ MaxSent \in Nat

VARIABLES
  conn,            \* connections opened so far
  at,              \* "idle", or inside "openSession", "openRequest", "session"
                   \* (between its calls too), "request"
  peer,            \* "none": no SYN has reached it; "syn"; "open": it has the ACK
  irs, finAt,      \* the peer's initial sequence number, and where its FIN is
  lastTcpAck, lastTcpSeq,
  tcpSynAckSeen, tcpFinSeen, tcpRstSeen,
  tcpRxBuffer, tcpRxLen, tcpConsumed,
  overrun,         \* tcpCompact has copied past the buffer
  delivered        \* the bytes the caller was given on this connection, a history

world  == <<conn, peer, irs, finAt>>
flags  == <<tcpSynAckSeen, tcpFinSeen, tcpRstSeen>>
buffer == <<tcpRxBuffer, tcpRxLen, tcpConsumed, overrun>>
vars   == <<world, at, lastTcpAck, lastTcpSeq, flags, buffer, delivered>>

-------------------------------------------------------------------------------
(* 32-bit arithmetic *)

\* a + n, for n below 2^32
Plus(a, n) == IF a + n >= SeqMod THEN a + n - SeqMod ELSE a + n
Minus(a, b) == IF a >= b THEN a - b ELSE a - b + SeqMod

\* A mutant: sequence numbers are compared as they stand.
BeforeUnsigned(a, b) == a < b

\* static_cast<int32_t>(a - b) < 0
Before(a, b) == Minus(a, b) >= Half

-------------------------------------------------------------------------------
Init ==
  /\ conn = 0 /\ at = "idle" /\ peer = "none" /\ irs = 0 /\ finAt = 0
  /\ lastTcpAck = 0 /\ lastTcpSeq = 0
  /\ tcpSynAckSeen = FALSE /\ tcpFinSeen = FALSE /\ tcpRstSeen = FALSE
  /\ tcpRxBuffer = [i \in 0 .. Cap |-> 0] /\ tcpRxLen = 0 /\ tcpConsumed = 0
  /\ overrun = FALSE /\ delivered = [i \in 1 .. 0 |-> 0]

\* tcpSessionOpen, tcpRequestRaw and sendTcpText up to the SYN.  sent is whether
\* it was sent.  Only a session clears tcpConsumed.
Open(call, sent) ==
  /\ at = "idle" /\ conn < MaxConns
  /\ call = "openRequest" => AfterSocks \/ tcpConsumed = 0
  /\ conn' = conn + 1 /\ irs' \in Irs /\ finAt' \in 0 .. MaxStream
  /\ peer' = IF sent THEN "syn" ELSE "none"
  /\ at' = IF sent THEN call ELSE "idle"
  /\ lastTcpAck' = 0 /\ lastTcpSeq' = 0
  /\ tcpSynAckSeen' = FALSE /\ tcpFinSeen' = FALSE /\ tcpRstSeen' = FALSE
  /\ tcpRxBuffer' = [i \in 0 .. Cap |-> 0] /\ tcpRxLen' = 0
  /\ tcpConsumed' = IF call = "openSession" THEN 0 ELSE tcpConsumed
  /\ delivered' = [i \in 1 .. 0 |-> 0]
  /\ UNCHANGED overrun

\* The SYN-ACK was seen, the handshake's ACK is sent.
Opened ==
  /\ at \in {"openSession", "openRequest"} /\ tcpSynAckSeen /\ ~tcpRstSeen
  /\ at' = IF at = "openSession" THEN "session" ELSE "request"
  /\ peer' = "open"
  /\ UNCHANGED <<conn, irs, finAt, lastTcpAck, lastTcpSeq, flags, buffer, delivered>>

\* No SYN-ACK in time, a reset, an ACK or data that cannot be sent; the end of
\* sendTcpText, which reads nothing; and the end of a session.  The connection's
\* state stays as it is.
GiveUp ==
  /\ at \in {"openSession", "openRequest", "request"} /\ at' = "idle"
  /\ UNCHANGED <<world, lastTcpAck, lastTcpSeq, flags, buffer, delivered>>
Close ==
  /\ at = "session" /\ at' = "idle"
  /\ UNCHANGED <<world, lastTcpAck, lastTcpSeq, flags, buffer, delivered>>

\* One chunk of data is sent.
Send ==
  /\ (at = "session" /\ ~tcpRstSeen) \/ at = "request"
  /\ lastTcpSeq <= MaxSent /\ lastTcpSeq' = lastTcpSeq + 1
  /\ UNCHANGED <<world, at, lastTcpAck, flags, buffer, delivered>>

-------------------------------------------------------------------------------
(* handleTcp, called from whatever polls the network card *)

Reset ==
  /\ peer # "none" /\ tcpRstSeen' = TRUE
  /\ UNCHANGED <<world, at, lastTcpAck, lastTcpSeq, tcpSynAckSeen, tcpFinSeen,
                 buffer, delivered>>

\* The peer's SYN-ACK acknowledges 1, the SYN: ack == lastTcpSeq + 1 only before
\* it has been seen.  A repeated one is ignored.
SynAck ==
  /\ peer # "none" /\ lastTcpSeq = 0
  /\ lastTcpAck' = Plus(irs, 1) /\ lastTcpSeq' = 1 /\ tcpSynAckSeen' = TRUE
  /\ UNCHANGED <<world, at, tcpFinSeen, tcpRstSeen, buffer, delivered>>

\* A mutant: nothing makes room for what does not fit.
ShiftNever(fresh) == 0

\* tcpCompact, when the fresh bytes do not fit: how far the buffer moves down
Shift(fresh) == IF fresh > Cap - tcpRxLen THEN tcpConsumed ELSE 0

\* How many of them are stored
CopyLen(fresh) ==
  LET freeSpace == Cap - (tcpRxLen - Shift(fresh))
  IN IF fresh < freeSpace THEN fresh ELSE freeSpace

\* Store fresh bytes of the stream, from number first on.  Where tcpConsumed is
\* above tcpRxLen the 16-bit difference in tcpCompact wraps, and it copies past
\* the buffer; what that destroys is not modelled.
Store(first, fresh) ==
  LET shift == Shift(fresh)
      used  == tcpRxLen - shift
  IN IF shift > tcpRxLen
     THEN overrun' = TRUE /\ UNCHANGED <<tcpRxBuffer, tcpRxLen, tcpConsumed>>
     ELSE /\ tcpRxBuffer' = [i \in 0 .. Cap |->
                IF i < used THEN tcpRxBuffer[i + shift]
                ELSE IF i < used + CopyLen(fresh) THEN first + (i - used)
                ELSE IF i = used + CopyLen(fresh) THEN 0
                ELSE tcpRxBuffer[i]]
          /\ tcpRxLen' = used + CopyLen(fresh)
          /\ tcpConsumed' = tcpConsumed - shift
          /\ UNCHANGED overrun

\* A mutant: a FIN is believed before the data in front of it is in.
SegmentEarlyFin(off, len, fin) ==
  /\ peer = "open" /\ off + len <= finAt
  /\ fin => off + len = finAt
  /\ LET seq  == Plus(irs, 1 + off)
         skip == Minus(lastTcpAck, seq)
         data == /\ len > 0
                 /\ seq = lastTcpAck \/ Before(seq, lastTcpAck)
                 /\ Before(lastTcpAck, Plus(seq, len))
         ack  == IF data THEN Plus(seq, skip + CopyLen(len - skip)) ELSE lastTcpAck
     IN /\ IF data THEN Store(off + skip + 1, len - skip) ELSE UNCHANGED buffer
        /\ lastTcpAck' = IF fin /\ ack = Plus(seq, len) THEN Plus(ack, 1) ELSE ack
        /\ tcpFinSeen' = (tcpFinSeen \/ fin)
  /\ UNCHANGED <<world, at, lastTcpSeq, tcpSynAckSeen, tcpRstSeen, delivered>>

\* A segment with bytes off + 1 .. off + len of the stream, and perhaps the FIN
\* behind the last of them.  Data: what is already here is skipped, a segment
\* with a gap before it is ignored, what does not fit is left for the peer to
\* send again.  FIN: only when all data up to it is in.
Segment(off, len, fin) ==
  /\ peer = "open" /\ off + len <= finAt
  /\ fin => off + len = finAt
  /\ LET seq  == Plus(irs, 1 + off)
         skip == Minus(lastTcpAck, seq)
         data == /\ len > 0
                 /\ seq = lastTcpAck \/ Before(seq, lastTcpAck)
                 /\ Before(lastTcpAck, Plus(seq, len))
         ack  == IF data THEN Plus(seq, skip + CopyLen(len - skip)) ELSE lastTcpAck
         last == fin /\ ~Before(ack, Plus(seq, len))
     IN /\ IF data THEN Store(off + skip + 1, len - skip) ELSE UNCHANGED buffer
        /\ lastTcpAck' = IF last /\ ack = Plus(seq, len) THEN Plus(ack, 1) ELSE ack
        /\ tcpFinSeen' = (tcpFinSeen \/ last)
  /\ UNCHANGED <<world, at, lastTcpSeq, tcpSynAckSeen, tcpRstSeen, delivered>>

-------------------------------------------------------------------------------
(* The calls that read *)

Available(n) == IF tcpRxLen - tcpConsumed < n THEN tcpRxLen - tcpConsumed ELSE n

\* delivered with the next n bytes of the buffer behind it
Count == CHOOSE n \in 0 .. MaxStream : DOMAIN delivered = 1 .. n
Given(n) == [i \in 1 .. Count + n |->
               IF i <= Count THEN delivered[i]
               ELSE tcpRxBuffer[tcpConsumed + (i - Count - 1)]]

\* tcpSessionDrain, and the replies socks5Connect takes after a wait
Drain(ask) ==
  /\ at = "session"
  /\ delivered' = Given(Available(ask))
  /\ tcpConsumed' = tcpConsumed + Available(ask)
  /\ UNCHANGED <<world, at, lastTcpAck, lastTcpSeq, flags, tcpRxBuffer, tcpRxLen,
                 overrun>>

\* tcpStreamRead: as Drain, and then tcpCompact
Read(ask) ==
  LET shift == tcpConsumed + Available(ask)
      used  == tcpRxLen - shift
  IN /\ at = "session"
     /\ delivered' = Given(Available(ask))
     /\ tcpRxBuffer' = IF shift = 0 THEN tcpRxBuffer
                       ELSE [i \in 0 .. Cap |->
                               IF i < used THEN tcpRxBuffer[i + shift]
                               ELSE IF i = used THEN 0 ELSE tcpRxBuffer[i]]
     /\ tcpRxLen' = used /\ tcpConsumed' = 0
     /\ UNCHANGED <<world, at, lastTcpAck, lastTcpSeq, flags, overrun>>

\* The end of tcpRequestRaw: the caller gets the buffer from its start.
RequestReturns(cap) ==
  LET n == IF tcpRxLen < cap THEN tcpRxLen ELSE cap
  IN /\ at = "request" /\ at' = "idle"
     /\ delivered' = [i \in 1 .. n |-> tcpRxBuffer[i - 1]]
     /\ UNCHANGED <<world, lastTcpAck, lastTcpSeq, flags, buffer>>

-------------------------------------------------------------------------------
Receive == \E off \in 0 .. MaxStream, len \in 0 .. MaxSeg, fin \in BOOLEAN :
             Segment(off, len, fin)

Next ==
  \/ \E call \in {"openSession", "openRequest"}, sent \in BOOLEAN : Open(call, sent)
  \/ Opened \/ GiveUp \/ Close \/ Send
  \/ Reset \/ SynAck \/ Receive
  \/ \E n \in Asks : Read(n) \/ Drain(n) \/ RequestReturns(n)

Spec == Init /\ [][Next]_vars

\* The peer sends again from the byte the client acknowledged, and the caller
\* keeps asking, until one of them gives up: a reset, or the session's end.
Retransmit == /\ ~tcpRstSeen
              /\ \E len \in 1 .. MaxSeg :
                   Segment(Minus(lastTcpAck, Plus(irs, 1)), len, FALSE)
Ask == tcpRxLen # tcpConsumed /\ \E n \in Asks : Read(n) \/ Drain(n)
FairSpec == Spec /\ WF_vars(Retransmit) /\ WF_vars(Ask)

-------------------------------------------------------------------------------
TcpTypeOK ==
  /\ conn \in 0 .. MaxConns
  /\ at \in {"idle", "openSession", "openRequest", "session", "request"}
  /\ peer \in {"none", "syn", "open"}
  /\ irs \in SeqNumber /\ finAt \in 0 .. MaxStream
  /\ lastTcpAck \in SeqNumber /\ lastTcpSeq \in 0 .. MaxSent + 1
  /\ tcpSynAckSeen \in BOOLEAN /\ tcpFinSeen \in BOOLEAN /\ tcpRstSeen \in BOOLEAN
  /\ tcpRxBuffer \in [0 .. Cap -> 0 .. MaxStream]
  /\ tcpRxLen \in 0 .. Cap /\ tcpConsumed \in 0 .. Cap
  /\ overrun \in BOOLEAN
  /\ \E n \in 0 .. MaxStream : delivered \in [1 .. n -> 0 .. MaxStream]

\* With r bytes of the stream taken in, the acknowledgement says so; with the
\* FIN taken in, r is all.
AckInStep(r) ==
  /\ tcpSynAckSeen => lastTcpAck = Plus(irs, IF tcpFinSeen THEN r + 2 ELSE r + 1)
  /\ tcpFinSeen => r = finAt
  /\ peer # "open" => r = 0 /\ ~tcpFinSeen
  /\ peer = "open" => tcpSynAckSeen
  /\ at \in {"session", "request"} => peer = "open"
  /\ at \in {"openSession", "openRequest"} => peer = "syn"
  /\ tcpSynAckSeen <=> lastTcpSeq # 0

\* The buffer ends with byte r and has no gap, the caller was given bytes 1 to d,
\* and the next one for it is where tcpConsumed points.
BufferInStep(r, d) ==
  /\ ~overrun /\ tcpConsumed <= tcpRxLen /\ tcpRxLen <= r
  /\ \A i \in 0 .. tcpRxLen - 1 : tcpRxBuffer[i] = r - tcpRxLen + i + 1
  /\ delivered = [i \in 1 .. d |-> i]
  /\ at = "session" => d = r - tcpRxLen + tcpConsumed
  /\ at \in {"openRequest", "request"} => tcpConsumed = 0 /\ tcpRxLen = r /\ d = 0

\* The inductive invariant of a kernel whose requests find tcpConsumed at 0.
TcpInv == \E r \in 0 .. finAt : \E d \in 0 .. r : AckInStep(r) /\ BufferInStep(r, d)

\* What the caller of a session or of a request is given is the peer's stream
\* from its first byte on, nothing missing, doubled or out of place.
\* network.cpp:939: "keeps the byte stream exact".
StreamExact == \A i \in DOMAIN delivered : delivered[i] = i

\* How much of the stream has been taken in, told from the acknowledgement
\* alone; the FIN's own number is no byte.
Arrived == LET acked == Minus(lastTcpAck, Plus(irs, 1))
           IN IF ~tcpSynAckSeen THEN 0
              ELSE IF acked > finAt THEN finAt ELSE acked

\* Whatever the network does with the peer's segments and however the caller
\* mixes reads and drains, the connection is the byte stream of ByteStream; in
\* particular the end is seen only when every byte before it is in.
Stream == INSTANCE ByteStream WITH length <- finAt, arrived <- Arrived,
                                   ended <- tcpFinSeen
ImplementsByteStream == Stream!Spec

\* A buffer that was full, or is full of bytes already given out, does not stop
\* the stream: with a peer that retransmits and a caller that keeps asking,
\* each byte is given to the caller unless one of them gives up.
EveryByteArrives ==
  \A n \in 1 .. MaxStream :
    at = "session" /\ finAt >= n ~> Count >= n \/ at # "session" \/ tcpRstSeen
===============================================================================
