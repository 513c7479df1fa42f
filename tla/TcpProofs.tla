------------------------------- MODULE TcpProofs -------------------------------
(***************************************************************************)
(* Proofs about TcpStream, for every buffer, stream, segment size and      *)
(* initial sequence number, of a kernel in which no one-shot request       *)
(* follows a session that left tcpConsumed above 0.                        *)
(*                                                                         *)
(* The invariant is TcpInv: some number r of the peer's bytes have been    *)
(* taken in and the first d of them given to the caller, and the           *)
(* acknowledgement, the buffer and what was delivered agree on r and d.    *)
(* Each action is shown to lead from one such pair to another; the steps   *)
(* of the abstract stream are steps from pair to pair.                     *)
(***************************************************************************)
EXTENDS TcpStream, TLAPS

Offset == 0 .. MaxStream + 2

-------------------------------------------------------------------------------
(* Sequence numbers: within a stream they compare like byte numbers. *)

LEMMA PlusType ==
  ASSUME NEW a \in SeqNumber, NEW m \in Offset
  PROVE  Plus(a, m) \in SeqNumber
  BY SeqAssumption DEF Plus, SeqNumber, SeqMod, Offset

LEMMA PlusPlus ==
  ASSUME NEW a \in SeqNumber, NEW m \in Offset, NEW n \in Offset, m + n \in Offset
  PROVE  Plus(Plus(a, m), n) = Plus(a, m + n)
  BY SeqAssumption DEF Plus, SeqNumber, SeqMod, Offset

LEMMA PlusSame ==
  ASSUME NEW a \in SeqNumber, NEW m \in Offset, NEW n \in Offset
  PROVE  Plus(a, m) = Plus(a, n) <=> m = n
  BY SeqAssumption DEF Plus, SeqNumber, SeqMod, Offset

LEMMA MinusPlus ==
  ASSUME NEW a \in SeqNumber, NEW m \in Offset, NEW n \in Offset, n <= m
  PROVE  Minus(Plus(a, m), Plus(a, n)) = m - n
  BY SeqAssumption DEF Plus, Minus, SeqNumber, SeqMod, Offset

LEMMA BeforePlus ==
  ASSUME NEW a \in SeqNumber, NEW m \in Offset, NEW n \in Offset
  PROVE  Before(Plus(a, m), Plus(a, n)) <=> m < n
<1>1. CASE n <= m
  <2>1. Minus(Plus(a, m), Plus(a, n)) = m - n
    BY <1>1, MinusPlus
  <2>2. m - n < Half
    BY <1>1, SeqAssumption DEF Offset
  <2> QED BY <1>1, <2>1, <2>2, SeqAssumption DEF Before, Offset
<1>2. CASE m < n
  <2>1. Minus(Plus(a, m), Plus(a, n)) = m - n + SeqMod
    BY <1>2, SeqAssumption DEF Plus, Minus, SeqNumber, SeqMod, Offset
  <2>2. m - n + SeqMod >= Half
    BY <1>2, SeqAssumption DEF Offset, SeqMod
  <2> QED BY <1>2, <2>1, <2>2, SeqAssumption DEF Before, Offset
<1> QED BY <1>1, <1>2, SeqAssumption DEF Offset

-------------------------------------------------------------------------------
(* The invariant for given r and d, and the actions that leave both alone. *)

Good(r, d) == /\ TcpTypeOK /\ r \in 0 .. finAt /\ d \in 0 .. r
              /\ AckInStep(r) /\ BufferInStep(r, d)

LEMMA Bounds ==
  ASSUME NEW r, NEW d, Good(r, d)
  PROVE  /\ r \in Nat /\ r <= finAt /\ finAt <= MaxStream
         /\ d \in Nat /\ d <= r
         /\ r \in Offset /\ r + 1 \in Offset /\ r + 2 \in Offset
         /\ finAt \in Nat /\ finAt + 1 \in Offset /\ finAt + 2 \in Offset
         /\ irs \in SeqNumber /\ Cap \in Nat
         /\ tcpRxLen \in Nat /\ tcpConsumed \in Nat /\ tcpRxLen <= Cap
         /\ tcpConsumed <= tcpRxLen /\ tcpRxLen <= r
<1>1. /\ r \in 0 .. finAt /\ d \in 0 .. r /\ finAt \in 0 .. MaxStream
      /\ irs \in SeqNumber /\ tcpRxLen \in 0 .. Cap /\ tcpConsumed \in 0 .. Cap
      /\ tcpConsumed <= tcpRxLen /\ tcpRxLen <= r
  BY DEF Good, TcpTypeOK, BufferInStep
<1> QED BY <1>1, SeqAssumption, CapAssumption DEF Offset

LEMMA InitGood == Init => Good(0, 0)
<1> SUFFICES ASSUME Init PROVE Good(0, 0)
  OBVIOUS
<1>1. TcpTypeOK
  <2>1. /\ conn \in 0 .. MaxConns /\ finAt \in 0 .. MaxStream /\ irs \in SeqNumber
        /\ lastTcpAck \in SeqNumber /\ lastTcpSeq \in 0 .. MaxSent + 1
        /\ tcpRxLen \in 0 .. Cap /\ tcpConsumed \in 0 .. Cap
    BY SeqAssumption, CapAssumption, BoundAssumption DEF Init, SeqNumber, SeqMod
  <2>2. tcpRxBuffer \in [0 .. Cap -> 0 .. MaxStream]
    BY SeqAssumption DEF Init
  <2>3. \E n \in 0 .. MaxStream : delivered \in [1 .. n -> 0 .. MaxStream]
    BY SeqAssumption DEF Init
  <2> QED BY <2>1, <2>2, <2>3 DEF Init, TcpTypeOK
<1>2. AckInStep(0)
  BY DEF Init, AckInStep
<1>3. BufferInStep(0, 0)
  <2>1. delivered = [i \in 1 .. 0 |-> i]
    BY DEF Init
  <2> QED BY <2>1 DEF Init, BufferInStep
<1>4. 0 \in 0 .. finAt /\ 0 \in 0 .. 0
  BY DEF Init
<1> QED BY <1>1, <1>2, <1>3, <1>4 DEF Good

LEMMA StutterGood ==
  ASSUME NEW r, NEW d, Good(r, d), UNCHANGED vars
  PROVE  Good(r, d)'
  BY DEF Good, vars, world, flags, buffer, TcpTypeOK, AckInStep, BufferInStep

LEMMA OpenedGood ==
  ASSUME NEW r, NEW d, Good(r, d), Opened
  PROVE  Good(r, d)'
<1>1. TcpTypeOK'
  BY DEF Good, Opened, flags, buffer, TcpTypeOK
<1>2. AckInStep(r)'
  BY DEF Good, Opened, flags, buffer, AckInStep, TcpTypeOK
<1>3. BufferInStep(r, d)'
  <2>1. CASE at = "openSession"
    <3>1. r = 0
      BY <2>1 DEF Good, AckInStep
    <3>2. d = 0 /\ tcpRxLen = 0 /\ tcpConsumed = 0
      BY <3>1, Bounds
    <3>3. d = r - tcpRxLen + tcpConsumed
      BY <3>1, <3>2
    <3>4. at' = "session"
      BY <2>1 DEF Opened
    <3> QED BY <3>3, <3>4 DEF Good, Opened, flags, buffer, BufferInStep
  <2>2. CASE at = "openRequest"
    BY <2>2 DEF Good, Opened, flags, buffer, BufferInStep
  <2> QED BY <2>1, <2>2 DEF Opened
<1> QED BY <1>1, <1>2, <1>3 DEF Good, Opened

LEMMA LeavesGood ==
  ASSUME NEW r, NEW d, Good(r, d), GiveUp \/ Close
  PROVE  Good(r, d)'
<1>1. TcpTypeOK'
  BY DEF Good, GiveUp, Close, world, flags, buffer, TcpTypeOK
<1>2. AckInStep(r)'
  BY DEF Good, GiveUp, Close, world, flags, buffer, AckInStep
<1>3. BufferInStep(r, d)'
  BY DEF Good, GiveUp, Close, world, flags, buffer, BufferInStep
<1> QED BY <1>1, <1>2, <1>3 DEF Good, GiveUp, Close, world

LEMMA SendGood ==
  ASSUME NEW r, NEW d, Good(r, d), Send
  PROVE  Good(r, d)'
<1>1. lastTcpSeq \in 0 .. MaxSent + 1 /\ lastTcpSeq <= MaxSent /\ lastTcpSeq' = lastTcpSeq + 1
  BY DEF Good, TcpTypeOK, Send
<1>2. lastTcpSeq' \in 0 .. MaxSent + 1 /\ lastTcpSeq' # 0
  BY <1>1, BoundAssumption
<1>3. tcpSynAckSeen
  BY DEF Good, AckInStep, Send
<1>4. TcpTypeOK'
  BY <1>2 DEF Good, Send, world, flags, buffer, TcpTypeOK
<1>5. AckInStep(r)'
  BY <1>2, <1>3 DEF Good, Send, world, flags, buffer, AckInStep
<1>6. BufferInStep(r, d)'
  BY DEF Good, Send, world, flags, buffer, BufferInStep
<1> QED BY <1>4, <1>5, <1>6 DEF Good, Send, world

LEMMA ResetGood ==
  ASSUME NEW r, NEW d, Good(r, d), Reset
  PROVE  Good(r, d)'
<1>1. TcpTypeOK'
  BY DEF Good, Reset, world, flags, buffer, TcpTypeOK
<1>2. AckInStep(r)'
  BY DEF Good, Reset, world, flags, buffer, AckInStep
<1>3. BufferInStep(r, d)'
  BY DEF Good, Reset, world, flags, buffer, BufferInStep
<1> QED BY <1>1, <1>2, <1>3 DEF Good, Reset, world

\* A SYN-ACK is taken only before any data: r is 0.
LEMMA SynAckGood ==
  ASSUME NEW r, NEW d, Good(r, d), SynAck
  PROVE  Good(r, d)'
<1>0. peer # "open" /\ r = 0 /\ ~tcpFinSeen
  BY DEF Good, AckInStep, SynAck
<1>1. Plus(irs, 1) \in SeqNumber
  BY PlusType, Bounds, <1>0
<1>2. 1 \in 0 .. MaxSent + 1
  BY BoundAssumption
<1>3. TcpTypeOK'
  BY <1>1, <1>2 DEF Good, SynAck, world, flags, buffer, TcpTypeOK
<1>4. lastTcpAck' = Plus(irs, r + 1)'
  BY <1>0 DEF SynAck, world, Plus, Good
<1>5. AckInStep(r)'
  <2>1. ~tcpFinSeen' /\ tcpSynAckSeen' /\ lastTcpSeq' = 1
    BY <1>0 DEF SynAck
  <2> QED BY <1>0, <1>4, <2>1 DEF Good, SynAck, world, flags, buffer, AckInStep
<1>6. BufferInStep(r, d)'
  BY DEF Good, SynAck, world, flags, buffer, BufferInStep
<1> QED BY <1>3, <1>5, <1>6 DEF Good, SynAck, world

LEMMA OpenGood ==
  ASSUME NEW r, NEW d, Good(r, d), ~AfterSocks,
         NEW call \in {"openSession", "openRequest"}, NEW sent \in BOOLEAN,
         Open(call, sent)
  PROVE  Good(0, 0)'
<1>1. tcpConsumed' = 0
  BY DEF Open
<1>2. TcpTypeOK'
  <2>1. /\ conn' \in 0 .. MaxConns /\ lastTcpAck' \in SeqNumber
        /\ lastTcpSeq' \in 0 .. MaxSent + 1 /\ tcpRxLen' \in 0 .. Cap
        /\ tcpConsumed' \in 0 .. Cap
    BY <1>1, SeqAssumption, CapAssumption, BoundAssumption
       DEF Good, TcpTypeOK, Open, SeqNumber, SeqMod
  <2>2. tcpRxBuffer' \in [0 .. Cap -> 0 .. MaxStream]
    BY SeqAssumption DEF Open
  <2>3. \E n \in 0 .. MaxStream : delivered' \in [1 .. n -> 0 .. MaxStream]
    BY SeqAssumption DEF Open
  <2>4. irs' \in SeqNumber /\ finAt' \in 0 .. MaxStream
    BY SeqAssumption DEF Open
  <2>5. at' \in {"idle", "openSession", "openRequest"} /\ peer' \in {"none", "syn"}
    BY DEF Open
  <2> QED BY <2>1, <2>2, <2>3, <2>4, <2>5 DEF Good, Open, TcpTypeOK
<1>3. AckInStep(0)'
  BY DEF Open, AckInStep
<1>4. BufferInStep(0, 0)'
  <2>1. delivered' = [i \in 1 .. 0 |-> i]
    BY DEF Open
  <2>2. at' # "session"
    BY DEF Open
  <2> QED BY <1>1, <2>1, <2>2 DEF Good, Open, BufferInStep
<1>5. 0 \in 0 .. finAt' /\ 0 \in 0 .. 0
  BY SeqAssumption DEF Open
<1> QED BY <1>2, <1>3, <1>4, <1>5 DEF Good

-------------------------------------------------------------------------------
(* Segments *)

\* What is stored of fresh bytes fits, and the move makes no difference to where
\* the stream stands in the buffer.
LEMMA CopyFits ==
  ASSUME NEW r, NEW d, Good(r, d), NEW fresh \in Nat
  PROVE  /\ Shift(fresh) \in Nat /\ Shift(fresh) <= tcpConsumed
         /\ Shift(fresh) \in {0, tcpConsumed}
         /\ CopyLen(fresh) \in Nat /\ CopyLen(fresh) <= fresh
         /\ tcpRxLen - Shift(fresh) + CopyLen(fresh) <= Cap
  BY Bounds DEF Shift, CopyLen

LEMMA StoreInStep ==
  ASSUME NEW r, NEW d, Good(r, d),
         NEW fresh \in Nat, r + fresh <= finAt, Store(r + 1, fresh),
         NEW n, n = CopyLen(fresh)
  PROVE  \E l \in 0 .. Cap, c \in 0 .. Cap :
           /\ tcpRxLen' = l /\ tcpConsumed' = c /\ overrun' = overrun
           /\ c <= l /\ l <= r + n
           /\ tcpRxBuffer' \in [0 .. Cap -> 0 .. MaxStream]
           /\ \A i \in 0 .. l - 1 : tcpRxBuffer'[i] = (r + n) - l + i + 1
           /\ d = r - tcpRxLen + tcpConsumed => d = (r + n) - l + c
           /\ tcpConsumed = 0 /\ tcpRxLen = r => c = 0 /\ l = r + n
<1>1. PICK s \in Nat : s = Shift(fresh)
  BY CopyFits
<1>2. /\ s <= tcpConsumed /\ n \in Nat /\ n <= fresh /\ tcpRxLen - s + n <= Cap
  BY <1>1, CopyFits
<1>3. PICK u \in Nat : u = tcpRxLen - s
  BY <1>2, Bounds
<1>4. u \in Nat /\ u + n <= Cap /\ u + s = tcpRxLen /\ u + n <= r + n /\ r + n <= MaxStream
  <2>1. /\ tcpRxLen \in Nat /\ r \in Nat /\ tcpRxLen <= r /\ Cap \in Nat
        /\ finAt \in Nat /\ finAt <= MaxStream
    BY Bounds
  <2> QED BY <1>2, <1>3, <2>1, SeqAssumption
<1>5. ~(s > tcpRxLen)
  BY <1>2, Bounds
<1>6. /\ tcpRxBuffer' = [i \in 0 .. Cap |->
                           IF i < u THEN tcpRxBuffer[i + s]
                           ELSE IF i < u + n THEN r + 1 + (i - u)
                           ELSE IF i = u + n THEN 0
                           ELSE tcpRxBuffer[i]]
      /\ tcpRxLen' = u + n /\ tcpConsumed' = tcpConsumed - s /\ overrun' = overrun
  BY <1>1, <1>3, <1>5 DEF Store
<1>7. PICK c \in Nat : c = tcpConsumed - s /\ c <= u
  BY <1>2, <1>4, Bounds
<1>8. tcpConsumed' = c
  BY <1>6, <1>7
<1>9. tcpRxBuffer \in [0 .. Cap -> 0 .. MaxStream]
  BY DEF Good, TcpTypeOK
<1>10. \A i \in 0 .. tcpRxLen - 1 : tcpRxBuffer[i] = r - tcpRxLen + i + 1
  BY DEF Good, BufferInStep
<1>11. tcpRxBuffer' \in [0 .. Cap -> 0 .. MaxStream]
  <2> SUFFICES ASSUME NEW i \in 0 .. Cap
               PROVE  (IF i < u THEN tcpRxBuffer[i + s]
                       ELSE IF i < u + n THEN r + 1 + (i - u)
                       ELSE IF i = u + n THEN 0
                       ELSE tcpRxBuffer[i]) \in 0 .. MaxStream
    BY <1>6
  <2>1. CASE i < u
    <3>1. i + s \in 0 .. Cap
      BY <2>1, <1>4, Bounds
    <3> QED BY <2>1, <3>1, <1>9
  <2>2. CASE u <= i /\ i < u + n
    BY <2>2, <1>2, <1>4, Bounds, SeqAssumption
  <2>3. CASE i = u + n
    BY <2>3, <1>2, <1>4, SeqAssumption
  <2>4. CASE i > u + n
    BY <2>4, <1>2, <1>4, <1>9
  <2> QED BY <2>1, <2>2, <2>3, <2>4, <1>2, <1>4
<1>12. \A i \in 0 .. (u + n) - 1 : tcpRxBuffer'[i] = (r + n) - (u + n) + i + 1
  <2> SUFFICES ASSUME NEW i \in 0 .. (u + n) - 1
               PROVE  tcpRxBuffer'[i] = (r + n) - (u + n) + i + 1
    OBVIOUS
  <2>0. i \in 0 .. Cap
    BY <1>2, <1>4, Bounds
  <2>1. CASE i < u
    <3>1. tcpRxBuffer'[i] = tcpRxBuffer[i + s]
      BY <1>6, <2>0, <2>1
    <3>2. i + s \in 0 .. tcpRxLen - 1
      BY <2>0, <2>1, <1>4, Bounds
    <3>3. tcpRxBuffer[i + s] = r - tcpRxLen + (i + s) + 1
      BY <3>2, <1>10
    <3> QED BY <3>1, <3>3, <1>2, <1>4, Bounds
  <2>2. CASE u <= i
    <3>1. tcpRxBuffer'[i] = r + 1 + (i - u)
      BY <1>6, <2>0, <2>2, <1>4, <1>2
    <3> QED BY <3>1, <1>2, <1>4, Bounds
  <2> QED BY <2>1, <2>2, <1>4
<1>13. c <= u + n /\ u + n \in 0 .. Cap /\ c \in 0 .. Cap
  BY <1>2, <1>4, <1>7, Bounds
<1>14. d = r - tcpRxLen + tcpConsumed => d = (r + n) - (u + n) + c
  BY <1>1, <1>2, <1>4, <1>7, Bounds
<1>15. tcpConsumed = 0 /\ tcpRxLen = r => c = 0 /\ u + n = r + n
  BY <1>1, <1>2, <1>4, <1>7, Bounds
<1>16. overrun' = overrun
  BY <1>6
<1>17. tcpRxLen' = u + n /\ tcpConsumed' = c
  BY <1>6, <1>8
<1>18. c <= u + n /\ u + n <= r + n
  BY <1>4, <1>13
<1> USE <1>13
<1>19. WITNESS u + n \in 0 .. Cap, c \in 0 .. Cap
<1> QED BY <1>11, <1>12, <1>14, <1>15, <1>16, <1>17, <1>18

\* The code's comparisons say: the segment has the next byte.
LEMMA DataIffNext ==
  ASSUME NEW r, NEW d, Good(r, d), tcpSynAckSeen,
         NEW off \in 0 .. MaxStream, NEW len \in Nat, off + len <= finAt
  PROVE  LET seq == Plus(irs, 1 + off) IN
         /\ (/\ len > 0
             /\ seq = lastTcpAck \/ Before(seq, lastTcpAck)
             /\ Before(lastTcpAck, Plus(seq, len)))
              <=> (~tcpFinSeen /\ off <= r /\ r < off + len)
         /\ Plus(seq, len) = Plus(irs, 1 + off + len)
         /\ ~tcpFinSeen /\ off <= r => Minus(lastTcpAck, seq) = r - off
<1>0. /\ 1 + off \in Offset /\ 1 + off + len \in Offset /\ len \in Offset
  BY Bounds, SeqAssumption DEF Offset
<1>1. Plus(Plus(irs, 1 + off), len) = Plus(irs, 1 + off + len)
  BY <1>0, PlusPlus, Bounds
<1>2. CASE tcpFinSeen
  <2>1. lastTcpAck = Plus(irs, finAt + 2)
    BY <1>2 DEF Good, AckInStep
  <2>2. ~Before(lastTcpAck, Plus(irs, 1 + off + len))
    <3>1. Before(Plus(irs, finAt + 2), Plus(irs, 1 + off + len))
            <=> finAt + 2 < 1 + off + len
      BY <1>0, BeforePlus, Bounds
    <3>2. ~(finAt + 2 < 1 + off + len)
      BY Bounds
    <3> QED BY <2>1, <3>1, <3>2
  <2> QED BY <1>1, <1>2, <2>2
<1>3. CASE ~tcpFinSeen
  <2>1. lastTcpAck = Plus(irs, r + 1)
    BY <1>3 DEF Good, AckInStep
  <2>2. Before(lastTcpAck, Plus(irs, 1 + off + len)) <=> r + 1 < 1 + off + len
    BY <1>0, <2>1, BeforePlus, Bounds
  <2>3. Before(Plus(irs, 1 + off), lastTcpAck) <=> 1 + off < r + 1
    BY <1>0, <2>1, BeforePlus, Bounds
  <2>4. Plus(irs, 1 + off) = lastTcpAck <=> 1 + off = r + 1
    BY <1>0, <2>1, PlusSame, Bounds
  <2>5. off <= r => Minus(lastTcpAck, Plus(irs, 1 + off)) = r - off
    <3> SUFFICES ASSUME off <= r
                 PROVE  Minus(lastTcpAck, Plus(irs, 1 + off)) = r - off
      OBVIOUS
    <3>1. Minus(Plus(irs, r + 1), Plus(irs, 1 + off)) = (r + 1) - (1 + off)
      BY <1>0, MinusPlus, Bounds
    <3> QED BY <2>1, <3>1, Bounds
  <2>6. (1 + off = r + 1 \/ 1 + off < r + 1) <=> off <= r
    BY Bounds
  <2>7. r + 1 < 1 + off + len <=> r < off + len
    BY Bounds
  <2>8. off <= r /\ r < off + len => len > 0
    BY Bounds
  <2> QED BY <1>1, <1>3, <2>2, <2>3, <2>4, <2>5, <2>6, <2>7, <2>8
<1> QED BY <1>2, <1>3

\* A segment takes the stream from r to r2: as far as it reaches, or as there is
\* room.  The FIN counts when r2 is the end of the stream.
LEMMA SegmentGood ==
  ASSUME NEW r, NEW d, Good(r, d),
         NEW off \in 0 .. MaxStream, NEW len \in 0 .. MaxSeg, NEW fin \in BOOLEAN,
         Segment(off, len, fin)
  PROVE  \E r2 \in Nat : /\ r <= r2 /\ Good(r2, d)'
                         /\ tcpFinSeen' = tcpFinSeen \/ (tcpFinSeen' = TRUE /\ r2 = finAt)
<1> DEFINE seq  == Plus(irs, 1 + off)
           next == ~tcpFinSeen /\ off <= r /\ r < off + len
           skip == Minus(lastTcpAck, seq)
           data == /\ len > 0
                   /\ seq = lastTcpAck \/ Before(seq, lastTcpAck)
                   /\ Before(lastTcpAck, Plus(seq, len))
           ack  == IF data THEN Plus(seq, skip + CopyLen(len - skip)) ELSE lastTcpAck
           end  == fin /\ ~Before(ack, Plus(seq, len))
<1>1. /\ peer = "open" /\ off + len <= finAt /\ (fin => off + len = finAt)
      /\ IF data THEN Store(off + skip + 1, len - skip) ELSE UNCHANGED buffer
      /\ lastTcpAck' = IF end /\ ack = Plus(seq, len) THEN Plus(ack, 1) ELSE ack
      /\ tcpFinSeen' = (tcpFinSeen \/ end)
      /\ UNCHANGED <<world, at, lastTcpSeq, tcpSynAckSeen, tcpRstSeen, delivered>>
  BY DEF Segment
<1>2. tcpSynAckSeen /\ len \in Nat /\ (tcpFinSeen => r = finAt)
      /\ lastTcpAck = Plus(irs, IF tcpFinSeen THEN r + 2 ELSE r + 1)
      /\ tcpFinSeen \in BOOLEAN
  BY <1>1, CapAssumption DEF Good, AckInStep, TcpTypeOK
<1>3. /\ data <=> next
      /\ Plus(seq, len) = Plus(irs, 1 + off + len)
      /\ next => skip = r - off
  BY <1>1, <1>2, DataIffNext
<1> HIDE DEF data, skip
<1>4. PICK n \in Nat :
        /\ r + n <= finAt
        /\ data => /\ off <= r /\ r < off + len /\ ~tcpFinSeen
                   /\ n = CopyLen(len - skip) /\ n <= off + len - r
                   /\ skip = r - off /\ len - skip \in Nat
                   /\ r + (len - skip) <= finAt
        /\ ~data => n = 0
  <2>1. CASE data
    <3>1. /\ skip = r - off /\ len - skip = off + len - r /\ len - skip \in Nat
          /\ off <= r /\ r < off + len /\ ~tcpFinSeen
      BY <2>1, <1>2, <1>3, Bounds
    <3>2. CopyLen(len - skip) \in Nat /\ CopyLen(len - skip) <= len - skip
      BY <3>1, CopyFits
    <3>3. r + (len - skip) <= finAt /\ r + CopyLen(len - skip) <= finAt
      BY <3>1, <3>2, <1>1, <1>2, Bounds
    <3> QED BY <2>1, <3>1, <3>2, <3>3
  <2>2. CASE ~data
    BY <2>2, Bounds
  <2> QED BY <2>1, <2>2
<1>5. PICK e : e = end
  OBVIOUS
<1>6. PICK p \in Offset : ack = Plus(irs, p) /\ p = (IF tcpFinSeen THEN r + 2 ELSE r + n + 1)
  <2>1. CASE data
    <3>1. ack = Plus(Plus(irs, 1 + off), (r - off) + n)
      BY <2>1, <1>4
    <3>2. /\ 1 + off \in Offset /\ (r - off) + n \in Offset
          /\ (1 + off) + ((r - off) + n) = r + n + 1 /\ r + n + 1 \in Offset
      BY <2>1, <1>2, <1>4, Bounds, SeqAssumption DEF Offset
    <3>3. ack = Plus(irs, r + n + 1)
      BY <3>1, <3>2, PlusPlus, Bounds
    <3> QED BY <2>1, <3>2, <3>3, <1>4
  <2>2. CASE ~data
    <3>1. ack = lastTcpAck /\ n = 0 /\ r + n = r
      BY <2>2, <1>4, Bounds
    <3> QED BY <3>1, <1>2, Bounds
  <2> QED BY <2>1, <2>2
<1> HIDE DEF ack, seq
<1>7. e <=> fin /\ ~(p < 1 + off + len)
  <2>1. 1 + off + len \in Offset
    BY <1>1, <1>2, Bounds, SeqAssumption DEF Offset
  <2>2. Before(Plus(irs, p), Plus(irs, 1 + off + len)) <=> p < 1 + off + len
    BY <2>1, BeforePlus, Bounds
  <2> QED BY <2>2, <1>3, <1>5, <1>6
<1>8. ack = Plus(seq, len) <=> p = 1 + off + len
  <2>1. 1 + off + len \in Offset
    BY <1>1, <1>2, Bounds, SeqAssumption DEF Offset
  <2> QED BY <2>1, <1>3, <1>6, PlusSame, Bounds
<1> HIDE DEF end
<1>9. r + n \in Nat /\ r <= r + n /\ r + n \in 0 .. finAt /\ d \in 0 .. r + n
  BY <1>4, Bounds
<1>10. e => r + n = finAt /\ off + len = finAt
  <2>1. SUFFICES ASSUME e PROVE r + n = finAt /\ off + len = finAt
    OBVIOUS
  <2>2. off + len = finAt /\ ~(p < 1 + finAt)
    BY <2>1, <1>1, <1>2, <1>7, Bounds
  <2>3. CASE tcpFinSeen
    BY <2>2, <2>3, <1>2, <1>4, <1>9, Bounds
  <2>4. CASE ~tcpFinSeen
    BY <2>2, <2>4, <1>4, <1>6, <1>9, Bounds
  <2> QED BY <2>2, <2>3, <2>4
<1>11. AckInStep(r + n)'
  <2>1. lastTcpAck' = Plus(irs, IF tcpFinSeen \/ e THEN r + n + 2 ELSE r + n + 1)
    <3>1. CASE tcpFinSeen
      <4>1. r + n = finAt /\ r = finAt /\ n = 0 /\ p = finAt + 2
        BY <3>1, <1>2, <1>4, <1>6, Bounds
      <4>2. p # 1 + off + len
        BY <4>1, <1>1, <1>2, Bounds
      <4>3. lastTcpAck' = Plus(irs, p)
        BY <4>2, <1>1, <1>6, <1>8
      <4> QED BY <3>1, <4>1, <4>3
    <3>2. CASE ~tcpFinSeen /\ e
      <4>1. p = finAt + 1 /\ 1 + off + len = p /\ r + n = finAt
        BY <3>2, <1>2, <1>6, <1>10, Bounds
      <4>2. lastTcpAck' = Plus(ack, 1)
        BY <3>2, <4>1, <1>1, <1>5, <1>8
      <4>3. p \in Offset /\ 1 \in Offset /\ p + 1 \in Offset
        BY <4>1, Bounds, SeqAssumption DEF Offset
      <4>4. Plus(Plus(irs, p), 1) = Plus(irs, p + 1)
        BY <4>3, PlusPlus, Bounds
      <4>5. p + 1 = r + n + 2
        BY <4>1, Bounds
      <4> QED BY <3>2, <4>2, <4>4, <4>5, <1>6
    <3>3. CASE ~tcpFinSeen /\ ~e
      BY <3>3, <1>1, <1>5, <1>6
    <3> QED BY <3>1, <3>2, <3>3
  <2>2. tcpFinSeen' = (tcpFinSeen \/ e) /\ finAt' = finAt /\ irs' = irs
    BY <1>1, <1>5 DEF world
  <2>3. tcpFinSeen \/ e => r + n = finAt
    BY <1>2, <1>4, <1>10, Bounds
  <2>4. lastTcpAck' = Plus(irs, IF tcpFinSeen THEN r + n + 2 ELSE r + n + 1)'
    BY <2>1, <2>2 DEF Plus
  <2> QED BY <1>1, <1>2, <2>2, <2>3, <2>4 DEF Good, AckInStep, world
<1>12. lastTcpAck' \in SeqNumber
  <2>1. CASE tcpFinSeen' = TRUE
    <3>1. r + n + 2 \in Offset
      BY <1>4, Bounds, SeqAssumption DEF Offset
    <3> QED BY <3>1, <2>1, <1>1, <1>2, <1>11, PlusType, Bounds DEF AckInStep, world, Plus
  <2>2. CASE tcpFinSeen' # TRUE
    <3>1. r + n + 1 \in Offset
      BY <1>4, Bounds, SeqAssumption DEF Offset
    <3> QED BY <3>1, <2>2, <1>1, <1>2, <1>11, PlusType, Bounds DEF AckInStep, world, Plus
  <2> QED BY <2>1, <2>2
<1>13. PICK l \in 0 .. Cap, c \in 0 .. Cap :
         /\ tcpRxLen' = l /\ tcpConsumed' = c /\ overrun' = overrun
         /\ c <= l /\ l <= r + n
         /\ tcpRxBuffer' \in [0 .. Cap -> 0 .. MaxStream]
         /\ \A i \in 0 .. l - 1 : tcpRxBuffer'[i] = (r + n) - l + i + 1
         /\ d = r - tcpRxLen + tcpConsumed => d = (r + n) - l + c
         /\ tcpConsumed = 0 /\ tcpRxLen = r => c = 0 /\ l = r + n
  <2>1. CASE data
    <3>1. off + skip + 1 = r + 1
      BY <2>1, <1>4, Bounds
    <3>2. Store(r + 1, len - skip)
      BY <2>1, <3>1, <1>1
    <3> QED BY <2>1, <3>2, <1>4, StoreInStep
  <2>2. CASE ~data
    <3>1. n = 0 /\ r + n = r
      BY <2>2, <1>4, Bounds
    <3>2. UNCHANGED buffer
      BY <2>2, <1>1
    <3> QED BY <3>1, <3>2, Bounds DEF buffer, Good, TcpTypeOK, BufferInStep
  <2> QED BY <2>1, <2>2
<1>14. BufferInStep(r + n, d)'
  <2>1. delivered' = [i \in 1 .. d |-> i] /\ at' = at
    BY <1>1 DEF Good, BufferInStep
  <2>2. at' = "session" => d = (r + n) - tcpRxLen' + tcpConsumed'
    BY <2>1, <1>13 DEF Good, BufferInStep
  <2>3. at' \in {"openRequest", "request"}
          => tcpConsumed' = 0 /\ tcpRxLen' = r + n /\ d = 0
    BY <2>1, <1>13 DEF Good, BufferInStep
  <2>4. ~overrun'
    BY <1>13 DEF Good, BufferInStep
  <2> QED BY <2>1, <2>2, <2>3, <2>4, <1>13 DEF BufferInStep
<1>15. TcpTypeOK'
  <2>1. tcpFinSeen' \in BOOLEAN
    BY <1>1, <1>2
  <2>2. tcpRxLen' \in 0 .. Cap /\ tcpConsumed' \in 0 .. Cap
    BY <1>13
  <2>3. overrun' = overrun /\ tcpRxBuffer' \in [0 .. Cap -> 0 .. MaxStream]
    BY <1>13
  <2>4. \E m \in 0 .. MaxStream : delivered' \in [1 .. m -> 0 .. MaxStream]
    BY <1>1 DEF Good, TcpTypeOK
  <2>5. UNCHANGED <<conn, at, peer, irs, finAt, lastTcpSeq, tcpSynAckSeen, tcpRstSeen>>
    BY <1>1 DEF world
  <2> QED BY <2>1, <2>2, <2>3, <2>4, <2>5, <1>12 DEF Good, TcpTypeOK
<1>16. finAt' = finAt
  BY <1>1 DEF world
<1>17. Good(r + n, d)'
  BY <1>9, <1>11, <1>14, <1>15, <1>16 DEF Good
<1>18. tcpFinSeen' = tcpFinSeen \/ (tcpFinSeen' = TRUE /\ r + n = finAt)
  BY <1>1, <1>2, <1>5, <1>10
<1> QED BY <1>9, <1>17, <1>18

-------------------------------------------------------------------------------
(* Reading *)

\* What a session's reader is given: the next bytes of the stream.
LEMMA GivenIsNext ==
  ASSUME NEW r, NEW d, Good(r, d), at = "session", NEW n \in Nat,
         n <= tcpRxLen - tcpConsumed
  PROVE  /\ d + n \in 0 .. r
         /\ Given(n) = [i \in 1 .. d + n |-> i]
         /\ d + n = r - tcpRxLen + (tcpConsumed + n)
<1>1. /\ delivered = [i \in 1 .. d |-> i] /\ d = r - tcpRxLen + tcpConsumed
      /\ \A i \in 0 .. tcpRxLen - 1 : tcpRxBuffer[i] = r - tcpRxLen + i + 1
  BY DEF Good, BufferInStep
<1>2. Count = d
  <2>1. d \in 0 .. MaxStream /\ DOMAIN delivered = 1 .. d
    BY <1>1, Bounds, SeqAssumption
  <2>2. \A m \in 0 .. MaxStream : DOMAIN delivered = 1 .. m => m = d
    <3> SUFFICES ASSUME NEW m \in 0 .. MaxStream, 1 .. d = 1 .. m
                 PROVE  m = d
      BY <2>1
    <3>1. m \in Nat /\ d \in Nat
      BY <2>1, SeqAssumption
    <3>2. CASE m < d
      <4>1. d \in 1 .. d /\ d \notin 1 .. m
        BY <3>1, <3>2
      <4> QED BY <4>1
    <3>3. CASE d < m
      <4>1. m \in 1 .. m /\ m \notin 1 .. d
        BY <3>1, <3>3
      <4> QED BY <4>1
    <3> QED BY <3>1, <3>2, <3>3
  <2> QED BY <2>1, <2>2 DEF Count
<1>3. ASSUME NEW i \in 1 .. d + n
      PROVE  (IF i <= d THEN delivered[i]
              ELSE tcpRxBuffer[tcpConsumed + (i - d - 1)]) = i
  <2>1. CASE i <= d
    <3>1. i \in 1 .. d
      BY <2>1, Bounds
    <3> QED BY <2>1, <3>1, <1>1
  <2>2. CASE ~(i <= d)
    <3>1. tcpConsumed + (i - d - 1) \in 0 .. tcpRxLen - 1
      BY <2>2, Bounds
    <3>2. tcpRxBuffer[tcpConsumed + (i - d - 1)]
            = r - tcpRxLen + (tcpConsumed + (i - d - 1)) + 1
      BY <3>1, <1>1
    <3>3. d = r - tcpRxLen + tcpConsumed /\ i \in Nat /\ d \in Nat /\ r \in Nat
          /\ tcpRxLen \in Nat /\ tcpConsumed \in Nat
      BY <1>1, Bounds
    <3>4. r - tcpRxLen + (tcpConsumed + (i - d - 1)) + 1 = i
      BY <3>3
    <3> QED BY <2>2, <3>2, <3>4
  <2> QED BY <2>1, <2>2
<1>4. Given(n) = [i \in 1 .. d + n |-> i]
  BY <1>2, <1>3 DEF Given
<1>5. d + n \in 0 .. r /\ d + n = r - tcpRxLen + (tcpConsumed + n)
  BY <1>1, Bounds
<1> QED BY <1>4, <1>5

LEMMA DrainGood ==
  ASSUME NEW r, NEW d, Good(r, d), NEW ask \in Asks, Drain(ask)
  PROVE  \E n \in Nat : d + n \in 0 .. r /\ Good(r, d + n)'
<1>1. at = "session" /\ ask \in Nat
  BY AskAssumption DEF Drain
<1>2. PICK n \in Nat : n = Available(ask) /\ n <= tcpRxLen - tcpConsumed
  BY <1>1, Bounds DEF Available
<1>3. /\ d + n \in 0 .. r /\ Given(n) = [i \in 1 .. d + n |-> i]
      /\ d + n = r - tcpRxLen + (tcpConsumed + n)
  BY <1>1, <1>2, GivenIsNext
<1>4. PICK c \in 0 .. Cap : c = tcpConsumed + n /\ c <= tcpRxLen
  BY <1>2, Bounds
<1>5. /\ delivered' = [i \in 1 .. d + n |-> i] /\ tcpConsumed' = c
      /\ UNCHANGED <<world, at, lastTcpAck, lastTcpSeq, flags, tcpRxBuffer,
                     tcpRxLen, overrun>>
  BY <1>2, <1>3, <1>4 DEF Drain
<1>6. TcpTypeOK'
  <2>1. d + n \in 0 .. MaxStream
    BY <1>3, Bounds, SeqAssumption
  <2>2. [i \in 1 .. d + n |-> i] \in [1 .. d + n -> 0 .. MaxStream]
    BY <2>1, SeqAssumption
  <2>3. \E m \in 0 .. MaxStream : delivered' \in [1 .. m -> 0 .. MaxStream]
    BY <2>1, <2>2, <1>5
  <2>4. UNCHANGED <<conn, at, peer, irs, finAt, lastTcpAck, lastTcpSeq, tcpSynAckSeen,
                    tcpFinSeen, tcpRstSeen, tcpRxBuffer, tcpRxLen, overrun>>
    BY <1>5 DEF world, flags
  <2> QED BY <2>3, <2>4, <1>5 DEF Good, TcpTypeOK
<1>7. AckInStep(r)'
  BY <1>5 DEF Good, AckInStep, world, flags
<1>8. BufferInStep(r, d + n)'
  BY <1>1, <1>3, <1>4, <1>5 DEF Good, BufferInStep
<1>9. finAt' = finAt /\ r \in 0 .. finAt
  BY <1>5 DEF Good, world
<1> QED BY <1>3, <1>6, <1>7, <1>8, <1>9 DEF Good

LEMMA ReadGood ==
  ASSUME NEW r, NEW d, Good(r, d), NEW ask \in Asks, Read(ask)
  PROVE  \E n \in Nat : d + n \in 0 .. r /\ Good(r, d + n)'
<1>1. at = "session" /\ ask \in Nat
  BY AskAssumption DEF Read
<1>2. PICK n \in Nat : n = Available(ask) /\ n <= tcpRxLen - tcpConsumed
  BY <1>1, Bounds DEF Available
<1>3. /\ d + n \in 0 .. r /\ Given(n) = [i \in 1 .. d + n |-> i]
      /\ d + n = r - tcpRxLen + (tcpConsumed + n)
  BY <1>1, <1>2, GivenIsNext
<1>4. PICK s \in 0 .. Cap : s = tcpConsumed + n /\ s <= tcpRxLen
  BY <1>2, Bounds
<1>5. PICK u \in 0 .. Cap : u = tcpRxLen - s /\ u <= tcpRxLen /\ u <= r /\ d + n = r - u
  <2>1. tcpRxLen - s \in 0 .. Cap /\ tcpRxLen - s <= tcpRxLen /\ tcpRxLen - s <= r
    BY <1>4, Bounds
  <2>2. d + n = r - tcpRxLen + s
    BY <1>3, <1>4
  <2>3. d + n = r - (tcpRxLen - s)
    BY <2>2, <1>4, Bounds
  <2> QED BY <2>1, <2>3
<1>6. /\ delivered' = [i \in 1 .. d + n |-> i] /\ tcpConsumed' = 0 /\ tcpRxLen' = u
      /\ tcpRxBuffer' = IF s = 0 THEN tcpRxBuffer
                        ELSE [i \in 0 .. Cap |->
                                IF i < u THEN tcpRxBuffer[i + s]
                                ELSE IF i = u THEN 0 ELSE tcpRxBuffer[i]]
      /\ UNCHANGED <<world, at, lastTcpAck, lastTcpSeq, flags, overrun>>
  BY <1>2, <1>3, <1>4, <1>5 DEF Read
<1>7. /\ tcpRxBuffer \in [0 .. Cap -> 0 .. MaxStream]
      /\ \A i \in 0 .. tcpRxLen - 1 : tcpRxBuffer[i] = r - tcpRxLen + i + 1
      /\ ~overrun
  BY DEF Good, TcpTypeOK, BufferInStep
<1>8. tcpRxBuffer' \in [0 .. Cap -> 0 .. MaxStream]
  <2>1. CASE s = 0
    BY <2>1, <1>6, <1>7
  <2>2. CASE s # 0
    <3> SUFFICES ASSUME NEW i \in 0 .. Cap
                 PROVE  (IF i < u THEN tcpRxBuffer[i + s]
                         ELSE IF i = u THEN 0 ELSE tcpRxBuffer[i]) \in 0 .. MaxStream
      BY <2>2, <1>6
    <3>1. CASE i < u
      <4>1. i + s \in 0 .. Cap
        BY <3>1, <1>4, <1>5, Bounds
      <4> QED BY <3>1, <4>1, <1>7
    <3>2. CASE ~(i < u)
      BY <3>2, <1>7, SeqAssumption
    <3> QED BY <3>1, <3>2
  <2> QED BY <2>1, <2>2
<1>9. \A i \in 0 .. u - 1 : tcpRxBuffer'[i] = r - u + i + 1
  <2> SUFFICES ASSUME NEW i \in 0 .. u - 1
               PROVE  tcpRxBuffer'[i] = r - u + i + 1
    OBVIOUS
  <2>1. /\ i \in 0 .. Cap /\ i < u /\ i + s \in 0 .. tcpRxLen - 1
        /\ r - tcpRxLen + (i + s) + 1 = r - u + i + 1
    BY <1>4, <1>5, Bounds
  <2>2. tcpRxBuffer'[i] = tcpRxBuffer[i + s]
    <3>1. CASE s = 0
      <4>1. i + s = i
        BY <3>1, <2>1
      <4> QED BY <3>1, <4>1, <1>6
    <3>2. CASE s # 0
      BY <3>2, <2>1, <1>6
    <3> QED BY <3>1, <3>2
  <2>3. tcpRxBuffer[i + s] = r - tcpRxLen + (i + s) + 1
    BY <2>1, <1>7
  <2> QED BY <2>1, <2>2, <2>3
<1>10. TcpTypeOK'
  <2>1. d + n \in 0 .. MaxStream
    BY <1>3, Bounds, SeqAssumption
  <2>2. [i \in 1 .. d + n |-> i] \in [1 .. d + n -> 0 .. MaxStream]
    BY <2>1, SeqAssumption
  <2>3. \E m \in 0 .. MaxStream : delivered' \in [1 .. m -> 0 .. MaxStream]
    BY <2>1, <2>2, <1>6
  <2>4. UNCHANGED <<conn, at, peer, irs, finAt, lastTcpAck, lastTcpSeq, tcpSynAckSeen,
                    tcpFinSeen, tcpRstSeen, overrun>>
    BY <1>6 DEF world, flags
  <2>5. tcpRxLen' \in 0 .. Cap /\ tcpConsumed' \in 0 .. Cap
    BY <1>6, CapAssumption
  <2> QED BY <2>3, <2>4, <2>5, <1>8 DEF Good, TcpTypeOK
<1>11. AckInStep(r)'
  BY <1>6 DEF Good, AckInStep, world, flags
<1>12. BufferInStep(r, d + n)'
  <2>1. d + n = r - u + 0 /\ 0 <= u
    BY <1>5, Bounds
  <2>2. at' = "session"
    BY <1>1, <1>6
  <2> QED BY <2>1, <2>2, <1>5, <1>6, <1>7, <1>9 DEF BufferInStep
<1>13. finAt' = finAt /\ r \in 0 .. finAt
  BY <1>6 DEF Good, world
<1> QED BY <1>3, <1>10, <1>11, <1>12, <1>13 DEF Good

LEMMA RequestReturnsGood ==
  ASSUME NEW r, NEW d, Good(r, d), NEW ask \in Asks, RequestReturns(ask)
  PROVE  d = 0 /\ \E n \in Nat : n \in 0 .. r /\ Good(r, n)'
<1>1. at = "request" /\ ask \in Nat
  BY AskAssumption DEF RequestReturns
<1>2. /\ d = 0 /\ tcpRxLen = r
      /\ \A i \in 0 .. tcpRxLen - 1 : tcpRxBuffer[i] = r - tcpRxLen + i + 1
  BY <1>1 DEF Good, BufferInStep
<1>3. PICK n \in Nat : n = (IF tcpRxLen < ask THEN tcpRxLen ELSE ask) /\ n \in 0 .. r
  BY <1>1, <1>2, Bounds
<1>4. ASSUME NEW i \in 1 .. n PROVE tcpRxBuffer[i - 1] = i
  <2>1. i - 1 \in 0 .. tcpRxLen - 1 /\ r - tcpRxLen + (i - 1) + 1 = i
    BY <1>2, <1>3, Bounds
  <2> QED BY <2>1, <1>2
<1>5. delivered' = [i \in 1 .. n |-> i]
  BY <1>3, <1>4 DEF RequestReturns
<1>6. TcpTypeOK'
  <2>1. n \in 0 .. MaxStream
    BY <1>3, Bounds, SeqAssumption
  <2>2. [i \in 1 .. n |-> i] \in [1 .. n -> 0 .. MaxStream]
    BY <2>1, SeqAssumption
  <2>3. \E m \in 0 .. MaxStream : delivered' \in [1 .. m -> 0 .. MaxStream]
    BY <2>1, <2>2, <1>5
  <2> QED BY <2>3 DEF Good, TcpTypeOK, RequestReturns, world, flags, buffer
<1>7. AckInStep(r)'
  BY <1>1 DEF Good, AckInStep, RequestReturns, world, flags
<1>8. BufferInStep(r, n)'
  BY <1>5 DEF Good, BufferInStep, RequestReturns, buffer
<1>9. finAt' = finAt /\ r \in 0 .. finAt
  BY DEF Good, RequestReturns, world
<1> QED BY <1>2, <1>3, <1>6, <1>7, <1>8, <1>9 DEF Good

-------------------------------------------------------------------------------
(* The invariant *)

\* TcpInv names such r and d.
LEMMA InvIsGood == TcpTypeOK /\ TcpInv <=> \E r, d : Good(r, d)
BY DEF TcpInv, Good

\* Each step of a kernel without requests behind a SOCKS5 session leads from
\* one pair r, d to another, and is a step of the stream between them.
Moves(r, d, r2, d2) ==
  \/ r2 = 0 /\ d2 = 0 /\ Stream!Open
  \/ r2 = r /\ d2 = d /\ UNCHANGED <<finAt, tcpFinSeen, delivered>>
  \/ /\ r <= r2 /\ d2 = d /\ UNCHANGED <<finAt, delivered>>
     /\ tcpFinSeen' = tcpFinSeen \/ (tcpFinSeen' = TRUE /\ r2 = finAt)
  \/ r2 = r /\ d <= d2 /\ d2 \in 0 .. r /\ UNCHANGED <<finAt, tcpFinSeen>>

LEMMA StepMoves ==
  ASSUME NEW r, NEW d, Good(r, d), ~AfterSocks, [Next]_vars
  PROVE  \E r2, d2 : Good(r2, d2)' /\ Moves(r, d, r2, d2)
<1> SUFFICES ASSUME \A r2, d2 : ~(Good(r2, d2)' /\ Moves(r, d, r2, d2))
             PROVE  FALSE
  OBVIOUS
<1>1. ASSUME Good(r, d)', UNCHANGED <<finAt, tcpFinSeen, delivered>>
      PROVE  FALSE
  BY <1>1 DEF Moves
<1>2. CASE UNCHANGED vars
  BY <1>2, <1>1, StutterGood DEF vars, world, flags
<1>3. CASE Opened
  BY <1>3, <1>1, OpenedGood DEF Opened, flags
<1>4. CASE GiveUp \/ Close
  BY <1>4, <1>1, LeavesGood DEF GiveUp, Close, world, flags
<1>5. CASE Send
  BY <1>5, <1>1, SendGood DEF Send, world, flags
<1>6. CASE Reset
  BY <1>6, <1>1, ResetGood DEF Reset, world
<1>7. CASE SynAck
  BY <1>7, <1>1, SynAckGood DEF SynAck, world
<1>8. ASSUME NEW call \in {"openSession", "openRequest"}, NEW sent \in BOOLEAN,
             Open(call, sent)
      PROVE  FALSE
  <2>1. Good(0, 0)'
    BY <1>8, OpenGood
  <2>2. Stream!Open
    <3>1. Arrived' = 0 /\ ~tcpFinSeen' /\ tcpFinSeen' = FALSE
      BY <1>8 DEF Open, Arrived
    <3>2. finAt' \in Nat /\ delivered' = [i \in 1 .. 0 |-> i]
      BY <1>8, SeqAssumption DEF Open
    <3> QED BY <3>1, <3>2 DEF Stream!Open, Stream!First
  <2> QED BY <2>1, <2>2 DEF Moves
<1>9. ASSUME NEW off \in 0 .. MaxStream, NEW len \in 0 .. MaxSeg, NEW fin \in BOOLEAN,
             Segment(off, len, fin)
      PROVE  FALSE
  <2>1. PICK r2 \in Nat :
          /\ r <= r2 /\ Good(r2, d)'
          /\ tcpFinSeen' = tcpFinSeen \/ (tcpFinSeen' = TRUE /\ r2 = finAt)
    BY <1>9, SegmentGood
  <2>2. UNCHANGED <<finAt, delivered>>
    BY <1>9 DEF Segment, world
  <2> QED BY <2>1, <2>2 DEF Moves
<1>10. ASSUME NEW n \in Nat, d + n \in 0 .. r, Good(r, d + n)',
              UNCHANGED <<finAt, tcpFinSeen>>
       PROVE  FALSE
  <2>1. d <= d + n
    BY <1>10, Bounds
  <2> QED BY <2>1, <1>10 DEF Moves
<1>11. ASSUME NEW ask \in Asks, Read(ask)
       PROVE  FALSE
  BY <1>10, <1>11, ReadGood DEF Read, world, flags
<1>12. ASSUME NEW ask \in Asks, Drain(ask)
       PROVE  FALSE
  BY <1>10, <1>12, DrainGood DEF Drain, world, flags
<1>13. ASSUME NEW ask \in Asks, RequestReturns(ask)
       PROVE  FALSE
  <2>1. d = 0
    BY <1>13, RequestReturnsGood
  <2>2. PICK n \in Nat : n \in 0 .. r /\ Good(r, n)'
    BY <1>13, RequestReturnsGood
  <2>3. d + n = n
    BY <2>1
  <2> QED BY <2>2, <2>3, <1>10, <1>13 DEF RequestReturns, world, flags
<1> QED BY <1>2, <1>3, <1>4, <1>5, <1>6, <1>7, <1>8, <1>9, <1>11, <1>12, <1>13
        DEF Next, Receive

\* In a kernel in which no one-shot request follows a session that left
\* tcpConsumed above 0, whatever segments handleTcp is given and however the
\* caller reads, the acknowledgement, the buffer and what was delivered agree:
\* the buffer never overruns and has no gap, and the FIN is taken last.
THEOREM TcpInvariant == ~AfterSocks => (Spec => [](TcpTypeOK /\ TcpInv))
<1> SUFFICES ASSUME ~AfterSocks PROVE Spec => [](TcpTypeOK /\ TcpInv)
  OBVIOUS
<1>1. Init => TcpTypeOK /\ TcpInv
  BY InitGood, InvIsGood
<1>2. TcpTypeOK /\ TcpInv /\ [Next]_vars => (TcpTypeOK /\ TcpInv)'
  <2> SUFFICES ASSUME TcpTypeOK, TcpInv, [Next]_vars PROVE (TcpTypeOK /\ TcpInv)'
    OBVIOUS
  <2>1. PICK r, d : Good(r, d)
    BY InvIsGood
  <2>2. PICK r2, d2 : Good(r2, d2)'
    BY <2>1, StepMoves
  <2> QED BY <2>2 DEF Good, TcpInv
<1> QED BY <1>1, <1>2, PTL DEF Spec

-------------------------------------------------------------------------------
(* The refinement *)

\* The acknowledgement tells how much of the stream is here.
LEMMA ArrivedIs == \A r, d : Good(r, d) => Arrived = r
<1> SUFFICES ASSUME NEW r, NEW d, Good(r, d) PROVE Arrived = r
  OBVIOUS
<1>1. CASE ~tcpSynAckSeen
  BY <1>1 DEF Good, AckInStep, Arrived
<1>2. CASE tcpSynAckSeen /\ tcpFinSeen
  <2>1. lastTcpAck = Plus(irs, r + 2) /\ r = finAt
    BY <1>2 DEF Good, AckInStep
  <2>2. 1 \in Offset /\ 1 <= r + 2
    BY Bounds, SeqAssumption DEF Offset
  <2>3. Minus(Plus(irs, r + 2), Plus(irs, 1)) = (r + 2) - 1
    BY <2>2, MinusPlus, Bounds
  <2>4. (r + 2) - 1 > finAt
    BY <2>1, Bounds
  <2> QED BY <1>2, <2>1, <2>3, <2>4 DEF Arrived
<1>3. CASE tcpSynAckSeen /\ ~tcpFinSeen
  <2>1. lastTcpAck = Plus(irs, r + 1)
    BY <1>3 DEF Good, AckInStep
  <2>2. 1 \in Offset /\ 1 <= r + 1
    BY Bounds, SeqAssumption DEF Offset
  <2>3. Minus(Plus(irs, r + 1), Plus(irs, 1)) = (r + 1) - 1
    BY <2>2, MinusPlus, Bounds
  <2>4. (r + 1) - 1 = r /\ ~(r > finAt)
    BY Bounds
  <2> QED BY <1>3, <2>1, <2>3, <2>4 DEF Arrived
<1> QED BY <1>1, <1>2, <1>3

LEMMA ArrivedIsNext == (\A r, d : Good(r, d) => Arrived = r)'
<1>1. [](\A r, d : Good(r, d) => Arrived = r)
  BY ArrivedIs, PTL
<1> QED BY <1>1, PTL

LEMMA MoveIsStep ==
  ASSUME NEW r, NEW d, NEW r2, NEW d2,
         Good(r, d), Good(r2, d2)', Moves(r, d, r2, d2)
  PROVE  [Stream!Next]_Stream!vars
<1>1. Arrived = r /\ Arrived' = r2
  BY ArrivedIs, ArrivedIsNext
<1>2. /\ delivered = [i \in 1 .. d |-> i] /\ delivered' = [i \in 1 .. d2 |-> i]
      /\ r2 \in 0 .. finAt'
  BY DEF Good, BufferInStep
<1>3. CASE r2 = r /\ d2 = d /\ UNCHANGED <<finAt, tcpFinSeen, delivered>>
  BY <1>1, <1>3 DEF Stream!vars
<1>4. CASE /\ r <= r2 /\ d2 = d /\ UNCHANGED <<finAt, delivered>>
           /\ tcpFinSeen' = tcpFinSeen \/ (tcpFinSeen' = TRUE /\ r2 = finAt)
  <2>1. r2 \in r .. finAt
    BY <1>2, <1>4, Bounds
  <2> QED BY <1>1, <1>4, <2>1 DEF Stream!Arrive, Stream!Next
<1>5. CASE r2 = r /\ d <= d2 /\ d2 \in 0 .. r /\ UNCHANGED <<finAt, tcpFinSeen>>
  <2>1. DOMAIN delivered \subseteq 1 .. d2
    BY <1>2, <1>5, Bounds
  <2> QED BY <1>1, <1>2, <1>5, <2>1 DEF Stream!Deliver, Stream!First, Stream!Next
<1> QED BY <1>3, <1>4, <1>5 DEF Moves, Stream!Next

\* For every buffer, stream, segmentation and initial sequence number: what the
\* caller of a session or of a request is given is the peer's byte stream, in
\* order, without a gap, each byte once, and the end is seen only behind it.
THEOREM IsByteStream == ~AfterSocks => (Spec => ImplementsByteStream)
<1> SUFFICES ASSUME ~AfterSocks PROVE Spec => ImplementsByteStream
  OBVIOUS
<1>1. Init => Stream!Init
  <2>1. Init => Arrived = 0 /\ tcpFinSeen = FALSE
    BY DEF Init, Arrived
  <2> QED BY <2>1 DEF Init, Stream!Init, Stream!First
<1>2. TcpTypeOK /\ TcpInv /\ [Next]_vars => [Stream!Next]_Stream!vars
  <2> SUFFICES ASSUME TcpTypeOK, TcpInv, [Next]_vars PROVE [Stream!Next]_Stream!vars
    OBVIOUS
  <2>1. PICK r, d : Good(r, d)
    BY InvIsGood
  <2>2. PICK r2, d2 : Good(r2, d2)' /\ Moves(r, d, r2, d2)
    BY <2>1, StepMoves
  <2> QED BY <2>1, <2>2, MoveIsStep
<1>3. Spec => [](TcpTypeOK /\ TcpInv)
  BY TcpInvariant
<1> QED BY <1>1, <1>2, <1>3, PTL DEF Spec, Stream!Spec, ImplementsByteStream
===============================================================================
