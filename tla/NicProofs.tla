------------------------------- MODULE NicProofs -------------------------------
(***************************************************************************)
(* Proofs about Probes, for every ring, every cache size and every set of  *)
(* hosts: the ARP cache is right, an answer is for the probe it is given   *)
(* to, a handler calls poll only when the next hop was forgotten, and the  *)
(* receive ring gives every frame that is stored, in order.                *)
(***************************************************************************)
EXTENDS Probes, FiniteSetTheorems, SequenceTheorems, TLAPS

-------------------------------------------------------------------------------
(* The ARP cache *)

\* The slots from n on, around the cache, up to s: those not written since s was
\* when n is the next one.
Older(s, t, n) == IF n <= s THEN n <= t /\ t <= s ELSE n <= t \/ t <= s

ArpType ==
  /\ arp \in [Slots -> [ip : Hosts \cup {None}, mac : Macs \cup {None}]]
  /\ arpNext \in Slots
  /\ heard \in [Hosts -> Macs \cup {None}] /\ since \in [Hosts -> SUBSET Hosts]

\* What each slot says: an address that was heard; no host twice; the hosts in the
\* slots written after a host's own were heard since.
EntriesHeard == \A s \in Slots : arp[s].ip # None =>
                  arp[s].mac = heard[arp[s].ip] /\ heard[arp[s].ip] # None
OneEntry == \A s \in Slots, t \in Slots : arp[s].ip # None /\ arp[s].ip = arp[t].ip => s = t
NewerHeard == \A s \in Slots, t \in Slots :
                arp[s].ip # None /\ ~Older(s, t, arpNext) => arp[t].ip \in since[arp[s].ip]
ForgottenLate == \A h \in Hosts : ~Forgotten(h) => Known(h)

ArpInv == ArpType /\ EntriesHeard /\ OneEntry /\ NewerHeard /\ ForgottenLate

LEMMA NextSlot ==
  ASSUME NEW n \in Slots
  PROVE  /\ (n + 1) % CacheSize \in Slots
         /\ (n + 1) % CacheSize = IF n = CacheSize - 1 THEN 0 ELSE n + 1
<1>1. CASE n = CacheSize - 1
  BY <1>1, RingAssumption DEF Slots
<1>2. CASE n # CacheSize - 1
  <2>1. n + 1 \in 0 .. CacheSize - 1
    BY <1>2, RingAssumption DEF Slots
  <2>2. (n + 1) % CacheSize = n + 1
    BY <2>1, RingAssumption
  <2> QED BY <1>2, <2>1, <2>2 DEF Slots
<1> QED BY <1>1, <1>2

\* Writing slot n makes it the youngest one.
LEMMA OlderNext ==
  ASSUME NEW n \in Slots, NEW s \in Slots, NEW t \in Slots
  PROVE  LET m == (n + 1) % CacheSize
         IN /\ Older(n, t, m)
            /\ s # n /\ t # n /\ Older(s, t, n) => Older(s, t, m)
            /\ t # n => ~Older(n, t, n)
<1> DEFINE m == (n + 1) % CacheSize
<1>1. m = IF n = CacheSize - 1 THEN 0 ELSE n + 1
  BY NextSlot
<1>2. CacheSize \in Nat /\ n \in 0 .. CacheSize - 1 /\ s \in 0 .. CacheSize - 1
      /\ t \in 0 .. CacheSize - 1
  BY RingAssumption DEF Slots
<1> HIDE DEF m
<1> QED BY <1>1, <1>2 DEF Older, m

\* The cache with ip's entry in slot n is full of hosts heard since h, if h had that
\* slot.
LEMMA PushedOut ==
  ASSUME ArpInv, NEW n \in Slots, n = arpNext, NEW h \in Hosts, arp[n].ip = h,
         NEW ip \in Hosts, SlotOf(ip) = {}
  PROVE  Cardinality(since[h] \cup {ip}) >= CacheSize
<1> DEFINE T == since[h] \cup {ip}
           f == [t \in Slots |-> IF t = n THEN ip ELSE arp[t].ip]
<1>1. \A t \in Slots : t # n => arp[t].ip \in since[h]
  <2> SUFFICES ASSUME NEW t \in Slots, t # n PROVE arp[t].ip \in since[h]
    OBVIOUS
  <2>1. ~Older(n, t, n)
    BY OlderNext
  <2>2. arp[n].ip # None
    BY HostAssumption
  <2> QED BY <2>1, <2>2 DEF ArpInv, NewerHeard
<1>2. since[h] \subseteq Hosts
  BY DEF ArpInv, ArpType
<1>3. f \in [Slots -> T]
  BY <1>1
<1>4. ASSUME NEW s \in Slots, NEW t \in Slots, f[s] = f[t] PROVE s = t
  <2>1. \A u \in Slots : arp[u].ip # ip
    BY DEF SlotOf
  <2>2. \A u \in Slots : u # n => arp[u].ip # None
    BY <1>1, <1>2, HostAssumption
  <2> QED BY <1>4, <2>1, <2>2 DEF ArpInv, OneEntry
<1>5. f \in Injection(Slots, T)
  <2> HIDE DEF f, T
  <2> QED BY <1>3, <1>4 DEF Injection, IsInjective
<1>6. IsFiniteSet(T)
  BY <1>2, FS_Subset, HostAssumption
<1>7. Cardinality(Slots) <= Cardinality(T) /\ Cardinality(T) \in Nat
  <2> HIDE DEF f, T
  <2> QED BY <1>5, <1>6, FS_Injection, FS_CardinalityType
<1>8. Cardinality(Slots) = CacheSize
  BY FS_Interval, RingAssumption DEF Slots
<1> QED BY <1>7, <1>8, RingAssumption

\* Hosts that were heard stay so.
LEMMA HeardOnce ==
  ASSUME ArpInv, NEW h \in Hosts, NEW T \in SUBSET Hosts, since[h] \subseteq T,
         Cardinality(since[h]) >= CacheSize
  PROVE  Cardinality(T) >= CacheSize
<1>1. IsFiniteSet(T) /\ IsFiniteSet(since[h])
  BY FS_Subset, HostAssumption DEF ArpInv, ArpType
<1>2. Cardinality(since[h]) <= Cardinality(T)
  BY <1>1, FS_Subset
<1>3. Cardinality(since[h]) \in Nat /\ Cardinality(T) \in Nat
  BY <1>1, FS_CardinalityType
<1> QED BY <1>2, <1>3, RingAssumption

LEMMA Remembered ==
  ASSUME ArpInv, NEW ip \in Hosts, NEW mac \in Macs, RememberArp(ip, mac)
  PROVE  ArpInv'
<1> USE DEF ArpInv
<1>1. mac # None /\ ip # None
  BY HostAssumption
<1>2. \A h \in Hosts : heard'[h] = (IF h = ip THEN mac ELSE heard[h])
  BY DEF ArpType, RememberArp
<1>3. \A h \in Hosts : since'[h] = (IF h # ip THEN since[h] \cup {ip}
                                    ELSE IF SlotOf(ip) = {} THEN {} ELSE since[h])
  BY DEF RememberArp
<1>4. CASE SlotOf(ip) # {}
  <2>1. \A s \in Slots : arp'[s] = (IF arp[s].ip = ip THEN [ip |-> ip, mac |-> mac] ELSE arp[s])
    BY <1>4 DEF RememberArp, SlotOf
  <2>2. \A s \in Slots : arp'[s].ip = arp[s].ip
                          /\ arp'[s].mac = (IF arp[s].ip = ip THEN mac ELSE arp[s].mac)
    BY <2>1
  <2>3. ArpType'
    <3>1. arp' \in [Slots -> [ip : Hosts \cup {None}, mac : Macs \cup {None}]]
      <4>1. arp' = [s \in Slots |-> IF s \in SlotOf(ip) THEN [ip |-> ip, mac |-> mac] ELSE arp[s]]
        BY <1>4 DEF RememberArp
      <4> QED BY <4>1 DEF ArpType
    <3>2. arpNext' = arpNext
      BY <1>4 DEF RememberArp
    <3>3. heard' \in [Hosts -> Macs \cup {None}]
      BY DEF ArpType, RememberArp
    <3>4. since' \in [Hosts -> SUBSET Hosts]
      <4>1. since' = [h \in Hosts |-> IF h # ip THEN since[h] \cup {ip}
                                      ELSE IF SlotOf(ip) = {} THEN {} ELSE since[h]]
        BY DEF RememberArp
      <4> QED BY <4>1 DEF ArpType
    <3> QED BY <3>1, <3>2, <3>3, <3>4 DEF ArpType, Slots
  <2>4. EntriesHeard'
    <3> SUFFICES ASSUME NEW s \in Slots, arp'[s].ip # None
                 PROVE  arp'[s].mac = heard'[arp'[s].ip] /\ heard'[arp'[s].ip] # None
      BY DEF EntriesHeard, Slots
    <3>1. arp[s].ip \in Hosts
      BY <2>2 DEF ArpType
    <3> QED BY <3>1, <2>2, <1>1, <1>2 DEF EntriesHeard
  <2>5. OneEntry'
    BY <2>2 DEF OneEntry, Slots
  <2>6. NewerHeard'
    <3>1. arpNext' = arpNext
      BY <1>4 DEF RememberArp
    <3> SUFFICES ASSUME NEW s \in Slots, NEW t \in Slots, arp'[s].ip # None,
                        ~Older(s, t, arpNext)
                 PROVE  arp'[t].ip \in since'[arp'[s].ip]
      BY <3>1 DEF NewerHeard, Slots
    <3>2. arp[s].ip \in Hosts /\ arp[t].ip \in since[arp[s].ip]
      BY <2>2 DEF ArpType, NewerHeard
    <3> QED BY <3>2, <2>2, <1>3, <1>4
  <2>7. ForgottenLate'
    <3> SUFFICES ASSUME NEW h \in Hosts, ~Forgotten(h)' PROVE Known(h)'
      BY DEF ForgottenLate
    <3>1. CASE h = ip
      BY <3>1, <1>4, <2>2 DEF Known, SlotOf, Slots
    <3>2. CASE h # ip
      <4>1. heard'[h] = heard[h] /\ since[h] \subseteq since'[h] /\ since'[h] \in SUBSET Hosts
        BY <3>2, <1>2, <1>3 DEF ArpType
      <4>2. ~Forgotten(h)
        BY <4>1, HeardOnce DEF Forgotten
      <4>3. Known(h)
        BY <4>2 DEF ForgottenLate
      <4> QED BY <4>3, <2>2 DEF Known, Slots
    <3> QED BY <3>1, <3>2
  <2> QED BY <2>3, <2>4, <2>5, <2>6, <2>7
<1>5. CASE SlotOf(ip) = {}
  <2> DEFINE n == arpNext
             m == (n + 1) % CacheSize
  <2>1. /\ n \in Slots /\ m \in Slots /\ arpNext' = m
        /\ arp' = [arp EXCEPT ![n] = [ip |-> ip, mac |-> mac]]
    BY <1>5, NextSlot DEF RememberArp, ArpType
  <2>2. \A s \in Slots : arp[s].ip # ip
    BY <1>5 DEF SlotOf
  <2> HIDE DEF m
  <2>3. \A s \in Slots : arp'[s].ip = (IF s = n THEN ip ELSE arp[s].ip)
                          /\ arp'[s].mac = (IF s = n THEN mac ELSE arp[s].mac)
    BY <2>1 DEF ArpType
  <2>4. ArpType'
    <3>1. arp' \in [Slots -> [ip : Hosts \cup {None}, mac : Macs \cup {None}]]
      BY <2>1 DEF ArpType
    <3>2. heard' \in [Hosts -> Macs \cup {None}]
      BY DEF ArpType, RememberArp
    <3>3. since' \in [Hosts -> SUBSET Hosts]
      <4>1. since' = [h \in Hosts |-> IF h # ip THEN since[h] \cup {ip}
                                      ELSE IF SlotOf(ip) = {} THEN {} ELSE since[h]]
        BY DEF RememberArp
      <4> QED BY <4>1 DEF ArpType
    <3> QED BY <2>1, <3>1, <3>2, <3>3 DEF ArpType, Slots
  <2>5. EntriesHeard'
    <3> SUFFICES ASSUME NEW s \in Slots, arp'[s].ip # None
                 PROVE  arp'[s].mac = heard'[arp'[s].ip] /\ heard'[arp'[s].ip] # None
      BY DEF EntriesHeard, Slots
    <3>1. CASE s = n
      BY <3>1, <2>3, <1>1, <1>2
    <3>2. CASE s # n
      <4>1. arp[s].ip \in Hosts /\ arp[s].ip # ip
        BY <3>2, <2>2, <2>3 DEF ArpType
      <4> QED BY <3>2, <4>1, <2>3, <1>2 DEF EntriesHeard
    <3> QED BY <3>1, <3>2
  <2>6. OneEntry'
    <3> SUFFICES ASSUME NEW s \in Slots, NEW t \in Slots,
                        arp'[s].ip # None, arp'[s].ip = arp'[t].ip
                 PROVE  s = t
      BY DEF OneEntry, Slots
    <3> QED BY <2>2, <2>3 DEF OneEntry
  <2>7. NewerHeard'
    <3> SUFFICES ASSUME NEW s \in Slots, NEW t \in Slots, arp'[s].ip # None, ~Older(s, t, m)
                 PROVE  arp'[t].ip \in since'[arp'[s].ip]
      BY <2>1 DEF NewerHeard, Slots
    <3>1. s # n
      BY <2>1, OlderNext DEF m
    <3>2. arp'[s].ip = arp[s].ip /\ arp[s].ip \in Hosts /\ arp[s].ip # ip
      BY <3>1, <2>2, <2>3 DEF ArpType
    <3>3. since'[arp[s].ip] = since[arp[s].ip] \cup {ip}
      BY <3>2, <1>3
    <3>4. CASE t = n
      BY <3>2, <3>3, <3>4, <2>3
    <3>5. CASE t # n
      <4>1. ~Older(s, t, n)
        BY <3>1, <3>5, <2>1, OlderNext DEF m
      <4>2. arp[t].ip \in since[arp[s].ip]
        BY <4>1, <3>2, HostAssumption DEF NewerHeard
      <4> QED BY <3>2, <3>3, <3>5, <4>2, <2>3
    <3> QED BY <3>4, <3>5
  <2>8. ForgottenLate'
    <3> SUFFICES ASSUME NEW h \in Hosts, ~Forgotten(h)' PROVE Known(h)'
      BY DEF ForgottenLate
    <3>1. CASE h = ip
      BY <3>1, <2>1, <2>3 DEF Known, Slots
    <3>2. CASE h # ip
      <4>1. /\ heard'[h] = heard[h] /\ since'[h] = since[h] \cup {ip}
            /\ since'[h] \in SUBSET Hosts
        BY <3>2, <1>2, <1>3 DEF ArpType
      <4>2. ~Forgotten(h)
        BY <4>1, HeardOnce DEF Forgotten
      <4>3. PICK s \in Slots : arp[s].ip = h
        BY <4>2 DEF ForgottenLate, Known
      <4>4. s # n
        BY <4>1, <4>3, <1>5, <2>1, PushedOut DEF Forgotten
      <4> QED BY <4>3, <4>4, <2>3 DEF Known, Slots
    <3> QED BY <3>1, <3>2
  <2> QED BY <2>4, <2>5, <2>6, <2>7, <2>8
<1> QED BY <1>4, <1>5

LEMMA ArpStart ==
  /\ ArpInit => ArpInv
  /\ Cleared => ArpInv'
<1>1. 0 \in Slots
  BY RingAssumption DEF Slots
<1>2. ASSUME ArpInit PROVE ArpInv
  BY <1>1, <1>2 DEF ArpInit, ArpInv, ArpType, NoEntry, EntriesHeard, OneEntry, NewerHeard,
     ForgottenLate, Forgotten
<1>3. ASSUME Cleared PROVE ArpInv'
  BY <1>1, <1>3 DEF Cleared, ArpInv, ArpType, NoEntry, EntriesHeard, OneEntry, NewerHeard,
     ForgottenLate, Forgotten, Slots
<1> QED BY <1>2, <1>3

LEMMA ArpKept ==
  ASSUME ArpInv, UNCHANGED arpVars
  PROVE  ArpInv'
  BY DEF arpVars, ArpInv, ArpType, EntriesHeard, OneEntry, NewerHeard, ForgottenLate,
     Forgotten, Known, Slots

LEMMA ArpIsCoherent ==
  ASSUME ArpInv
  PROVE  ArpCoherent
<1>1. \A s \in Slots : arp[s].ip # None => arp[s].mac = heard[arp[s].ip]
  BY DEF ArpInv, EntriesHeard
<1>2. ASSUME NEW h \in Hosts PROVE Cardinality({s \in Slots : arp[s].ip = h}) <= 1
  <2>1. CASE {s \in Slots : arp[s].ip = h} = {}
    BY <2>1, FS_EmptySet
  <2>2. ASSUME NEW t \in Slots, arp[t].ip = h PROVE Cardinality({s \in Slots : arp[s].ip = h}) <= 1
    <3>1. {s \in Slots : arp[s].ip = h} = {t}
      BY <2>2, HostAssumption DEF ArpInv, OneEntry
    <3>2. Cardinality({t}) = 1
      BY FS_Singleton
    <3> QED BY <3>1, <3>2
  <2> QED BY <2>1, <2>2
<1> QED BY <1>1, <1>2 DEF ArpCoherent, ArpInv, ForgottenLate

-------------------------------------------------------------------------------
(* Frames and calls *)

\* A frame is what its kind says: an ARP packet of a host of the link, or an answer to
\* something that has gone out.
Echoes == {"ping", "trace"}
Came(f) ==
  /\ f.size \in Nat
  /\ f.kind = "arp" => f.host \in Hosts /\ f.mac \in Macs
  /\ f.kind = "reply" => \E w \in Echoes : [what |-> w, id |-> f.id] \in asked
  /\ f.kind = "exceeded" => [what |-> "trace", id |-> f.id] \in asked
  /\ f.kind = "dns" => [what |-> "dns", id |-> f.id] \in asked
  /\ f.kind = "segment" => [what |-> "tcp", id |-> f.id] \in asked
  /\ f.kind = "ack" => f.host \in Hosts \cup {None}

FramesCame ==
  /\ DOMAIN ring = Unit /\ rxOffset \in Unit
  /\ \A u \in Unit : Came(ring[u])

LEMMA CameStays ==
  ASSUME NEW f, Came(f), asked \subseteq asked'
  PROVE  Came(f)'
  BY DEF Came

LEMMA FramesStay ==
  ASSUME FramesCame, UNCHANGED <<ring, rxOffset>>, asked \subseteq asked'
  PROVE  FramesCame'
<1>1. \A u \in Unit : Came(ring[u])'
  BY CameStays DEF FramesCame, Came
<1> QED BY <1>1 DEF FramesCame, Unit

LEMMA PastIsUnit ==
  ASSUME NEW u \in Unit, NEW n \in Nat
  PROVE  Past(u, n) \in Unit
  BY RingAssumption DEF Past, Unit

\* What a frame says does not depend on its number.
LEMMA FrameFields ==
  ASSUME NEW k, NEW n, NEW h, NEW m, NEW i, NEW x
  PROVE  /\ LET a == [Frame(k, n) EXCEPT !.host = h, !.mac = m]
            IN /\ a.kind = k /\ a.size = n /\ a.host = h /\ a.mac = m /\ a.id = 0
               /\ [a EXCEPT !.no = x].kind = k /\ [a EXCEPT !.no = x].size = n
               /\ [a EXCEPT !.no = x].host = h /\ [a EXCEPT !.no = x].mac = m
               /\ [a EXCEPT !.no = x].id = 0
         /\ LET a == [Frame(k, n) EXCEPT !.id = i]
            IN /\ a.kind = k /\ a.size = n /\ a.id = i
               /\ [a EXCEPT !.no = x].kind = k /\ [a EXCEPT !.no = x].size = n
               /\ [a EXCEPT !.no = x].id = i
         /\ LET a == [Frame(k, n) EXCEPT !.id = i, !.host = h]
            IN /\ a.kind = k /\ a.size = n /\ a.host = h
               /\ [a EXCEPT !.no = x].kind = k /\ [a EXCEPT !.no = x].size = n
               /\ [a EXCEPT !.no = x].host = h
  BY DEF Frame, NoFrame

LEMMA FramesStored ==
  ASSUME FramesCame, NEW f, \A x : Came([f EXCEPT !.no = x]), Store(f), UNCHANGED asked
  PROVE  FramesCame'
<1> DEFINE g == [f EXCEPT !.no = stored + 1]
<1>1. Came(g)
  OBVIOUS
<1>2. ring' = [ring EXCEPT ![hw] = g] /\ rxOffset' = rxOffset
  BY DEF Store
<1> HIDE DEF g
<1>3. DOMAIN ring' = Unit /\ \A u \in Unit : ring'[u] = g \/ ring'[u] = ring[u]
  BY <1>2 DEF FramesCame
<1>4. \A u \in Unit : Came(ring'[u])
  BY <1>1, <1>3 DEF FramesCame
<1> QED BY <1>2, <1>3, <1>4 DEF FramesCame, Came, Unit

AskedForm == \A p \in asked : p = [what |-> p.what, id |-> p.id]

LEMMA FramesArrive ==
  ASSUME FramesCame, AskedForm, Arrives
  PROVE  FramesCame'
<1>0. UNCHANGED asked
  BY DEF Arrives, probeVars
<1>1. ASSUME NEW h \in Hosts, NEW m \in Macs, Store([Frame("arp", 1) EXCEPT !.host = h, !.mac = m])
      PROVE  FramesCame'
  <2>1. \A x : Came([[Frame("arp", 1) EXCEPT !.host = h, !.mac = m] EXCEPT !.no = x])
    BY FrameFields DEF Came
  <2> QED BY <1>0, <1>1, <2>1, FramesStored
<1>2. ASSUME NEW p \in asked, NEW k, NEW n \in Nat, Store([Frame(k, n) EXCEPT !.id = p.id]),
             \/ k = "reply" /\ p.what \in Echoes
             \/ k = "exceeded" /\ p.what = "trace"
             \/ k = "dns" /\ p.what = "dns"
             \/ k = "segment" /\ p.what = "tcp"
      PROVE  FramesCame'
  <2>1. [what |-> p.what, id |-> p.id] \in asked
    BY DEF AskedForm
  <2>2. \A x : Came([[Frame(k, n) EXCEPT !.id = p.id] EXCEPT !.no = x])
    BY <1>2, <2>1, FrameFields DEF Came
  <2> QED BY <1>0, <1>2, <2>2, FramesStored
<1>3. CASE \E h \in Hosts, m \in Macs : Store([Frame("arp", 1) EXCEPT !.host = h, !.mac = m])
  BY <1>1, <1>3
<1>4. CASE \E p \in asked :
             \/ p.what \in {"ping", "trace"} /\ Store([Frame("reply", 1) EXCEPT !.id = p.id])
             \/ p.what = "trace" /\ Store([Frame("exceeded", 1) EXCEPT !.id = p.id])
             \/ p.what = "dns" /\ Store([Frame("dns", 2) EXCEPT !.id = p.id])
             \/ p.what = "tcp" /\ Store([Frame("segment", 2) EXCEPT !.id = p.id])
  BY <1>2, <1>4 DEF Echoes
<1>5. ASSUME NEW p \in asked, NEW r \in Hosts \cup {None},
             Store([Frame("ack", 2) EXCEPT !.id = p.id, !.host = r])
      PROVE  FramesCame'
  <2>1. \A x : Came([[Frame("ack", 2) EXCEPT !.id = p.id, !.host = r] EXCEPT !.no = x])
    BY FrameFields DEF Came
  <2> QED BY <1>0, <1>5, <2>1, FramesStored
<1> QED BY <1>3, <1>4, <1>5 DEF Arrives

LEMMA FramesGivenBack ==
  ASSUME FramesCame, GiveBack, UNCHANGED asked
  PROVE  FramesCame'
<1>1. Length(ring[rxOffset]) \in Nat
  BY DEF FramesCame, Came, Length
<1>2. rxOffset' \in Unit
  BY <1>1, PastIsUnit DEF GiveBack, FramesCame
<1>3. ring' = ring \/ ring' = [ring EXCEPT ![rxOffset] = NoFrame]
  BY DEF GiveBack
<1>4. Came(NoFrame)
  BY DEF Came, NoFrame
<1>5. DOMAIN ring' = Unit /\ \A u \in Unit : ring'[u] = NoFrame \/ ring'[u] = ring[u]
  BY <1>3 DEF FramesCame
<1>6. \A u \in Unit : Came(ring'[u])
  BY <1>4, <1>5 DEF FramesCame
<1> QED BY <1>2, <1>5, <1>6 DEF FramesCame, Came, Unit

-------------------------------------------------------------------------------
(* Probes and answers *)

Asking(w, i) == [what |-> w, id |-> i] \in asked

\* The numbers of ping's and traceroute's probes differ, and a connection's is new.
PingId(i) == i \in 1 .. MaxSeq
TraceId(i) == i \in 101 .. 100 + MaxSeq
TcpId(i, c) == i \in Nat /\ i <= 18496 + c

AskedIds ==
  \A p \in asked : /\ p.what = "ping" => PingId(p.id)
                   /\ p.what = "trace" => TraceId(p.id)
                   /\ p.what = "tcp" => TcpId(p.id, calls)

\* Whom a command may ask
Targets == Hosts \cup {Far}

CallType ==
  /\ what \in Commands \cup {"none"} /\ pc \in {"idle", "call", "arp", "send", "wait"}
  /\ calls \in Nat
  /\ pc # "idle" => what \in Commands /\ target \in Targets /\ seq \in 1 .. MaxSeq
  /\ pc \in {"arp", "send"} => hop \in Targets
  /\ gateway \in Hosts \cup {None}

\* What a call has set when it sends and waits.
CallInv ==
  /\ pc = "send" => hop \in Hosts /\ heard[hop] # None
  /\ pc = "wait" /\ what \in Echoes => lastEchoSeq = Id
  /\ pc \in {"arp", "send", "wait"} /\ what = "dns" => lastDnsId = Id
  /\ pc \in {"arp", "send"} /\ what = "tcp" =>
       conn.id = Id /\ (conn.cleared \/ RouteNextHop(conn.target) = hop)
  /\ pc = "call" /\ what = "tcp" => ~Asking("tcp", Id)

\* A flag that is set answers the probe that was sent last.
SeenInv ==
  /\ echoReplySeen # 0 => /\ echoReplySeen = lastEchoSeq
                          /\ \E w \in Echoes : Asking(w, echoReplySeen)
  /\ icmpTimeExceededSeen # 0 => /\ icmpTimeExceededSeen = lastEchoSeq
                                 /\ Asking("trace", icmpTimeExceededSeen)
  /\ dnsReplySeen # 0 => dnsReplySeen = lastDnsId /\ Asking("dns", dnsReplySeen)

\* The next hop of a connection that has been asked for was known when it was, and is
\* the same one until the cache is cleared.
HopHeard(t) == RouteNextHop(t) \in Hosts /\ heard[RouteNextHop(t)] # None
ConnInv ==
  /\ conn = [target |-> conn.target, id |-> conn.id, cleared |-> conn.cleared]
  /\ Asking("tcp", conn.id) => conn.cleared \/ HopHeard(conn.target)

ProbeInv == AskedForm /\ AskedIds /\ CallType /\ CallInv /\ SeenInv /\ ConnInv
              /\ HangsOnlyWhenForgotten
Inv == ArpInv /\ FramesCame /\ ProbeInv

LEMMA CommandsDiffer ==
  /\ "none" \notin Commands /\ Echoes \subseteq Commands /\ "tcp" \notin Echoes
  /\ "dns" \notin Echoes
  BY DEF Commands, Echoes

\* The next hop of a target is a host, or outside the subnet.
LEMMA HopIsTarget ==
  ASSUME NEW t \in Targets, CallType
  PROVE  RouteNextHop(t) \in Targets /\ t # None /\ RouteNextHop(t) # None
  BY HostAssumption, FarAssumption DEF RouteNextHop, Targets, CallType

LEMMA IdOf ==
  ASSUME CallType, pc # "idle"
  PROVE  /\ what = "ping" => PingId(Id)
         /\ what = "trace" => TraceId(Id)
         /\ what = "tcp" => TcpId(Id, calls) /\ Id = 18496 + calls
<1>1. seq \in 1 .. MaxSeq /\ calls \in Nat
  BY DEF CallType
<1>2. PingId(seq) /\ TraceId(100 + seq) /\ TcpId(18496 + calls, calls)
  BY <1>1, SeqAssumption DEF PingId, TraceId, TcpId
<1>3. /\ what = "ping" => Id = seq
      /\ what = "trace" => Id = 100 + seq
      /\ what = "tcp" => Id = 18496 + calls
  BY DEF Id
<1> QED BY <1>2, <1>3

LEMMA EchoIds ==
  ASSUME NEW i
  PROVE  ~(PingId(i) /\ TraceId(i))
  BY SeqAssumption DEF PingId, TraceId

\* Where the calls and the addresses are left alone.
LEMMA ProbesKept ==
  ASSUME ArpInv, ProbeInv, UNCHANGED <<arpVars, probeVars>>
  PROVE  ProbeInv'
<1>1. Id' = Id
  BY DEF probeVars, Id
<1>2. UNCHANGED <<what, target, seq, hop, pc, calls, lastEchoSeq, lastDnsId, echoReplySeen,
                  icmpTimeExceededSeen, dnsReplySeen, gateway, conn, asked, hung, heard, since>>
  BY DEF probeVars, arpVars
<1>3. AskedForm' /\ AskedIds' /\ CallType'
  BY <1>2 DEF ProbeInv, AskedForm, AskedIds, CallType, PingId, TraceId, TcpId
<1>4. CallInv'
  BY <1>1, <1>2 DEF ProbeInv, CallInv, Asking, RouteNextHop
<1>5. SeenInv' /\ ConnInv'
  BY <1>2 DEF ProbeInv, SeenInv, ConnInv, Asking, HopHeard, RouteNextHop
<1>6. HangsOnlyWhenForgotten'
  BY <1>2 DEF ProbeInv, HangsOnlyWhenForgotten, RouteNextHop
<1> QED BY <1>3, <1>4, <1>5, <1>6 DEF ProbeInv

LEMMA HeardStays ==
  ASSUME ArpInv, NEW ip \in Hosts, NEW mac \in Macs, RememberArp(ip, mac)
  PROVE  \A h \in Hosts : heard[h] # None => heard'[h] # None
<1>1. \A h \in Hosts : heard'[h] = (IF h = ip THEN mac ELSE heard[h])
  BY DEF ArpInv, ArpType, RememberArp
<1> QED BY <1>1, HostAssumption

\* The cache is cleared only for an ACK, and then conn says so.
LEMMA HandledArp ==
  ASSUME ArpInv, NEW f, Came(f), HandleFrame(f)
  PROVE  /\ ArpInv'
         /\ \/ Acknowledges(f) /\ conn' = [conn EXCEPT !.cleared = TRUE]
               /\ gateway' \in Hosts \cup {None, gateway}
            \/ UNCHANGED <<gateway, conn>> /\ \A h \in Hosts : heard[h] # None => heard'[h] # None
         /\ f.kind = "segment" => UNCHANGED <<arpVars, gateway, conn>>
<1>1. CASE f.kind = "arp" /\ RememberArp(f.host, f.mac) /\ UNCHANGED <<gateway, conn>>
  BY <1>1, Remembered, HeardStays DEF Came
<1>2. CASE Acknowledges(f) /\ Cleared /\ conn' = [conn EXCEPT !.cleared = TRUE]
           /\ gateway' = IF f.host = None THEN gateway ELSE f.host
  BY <1>2, ArpStart DEF Came, Acknowledges
<1>3. CASE f.kind # "arp" /\ UNCHANGED <<arpVars, gateway, conn>>
  BY <1>3, ArpKept DEF arpVars
<1> QED BY <1>1, <1>2, <1>3 DEF HandleFrame

LEMMA Handled ==
  ASSUME Inv, ~hung, NEW f, Came(f), HandleFrame(f), pc \in {"idle", "arp", "wait"}
  PROVE  ArpInv' /\ ProbeInv'
<1> USE DEF Inv, ProbeInv
<1>1. ArpInv'
  BY HandledArp
<1>2. /\ UNCHANGED <<what, target, seq, hop, pc, calls, asked, answer, lastEchoSeq, lastDnsId>>
      /\ Id' = Id
  BY DEF HandleFrame, callVars, Id
<1>3. ASSUME conn' = [conn EXCEPT !.cleared = TRUE], gateway' \in Hosts \cup {None, gateway}
      PROVE  AskedForm' /\ AskedIds' /\ CallType' /\ CallInv' /\ ConnInv'
  <2>1. conn'.cleared /\ conn'.id = conn.id
        /\ conn' = [target |-> conn'.target, id |-> conn'.id, cleared |-> conn'.cleared]
    BY <1>3 DEF ConnInv
  <2>2. AskedForm' /\ AskedIds' /\ CallType'
    BY <1>2, <1>3 DEF AskedForm, AskedIds, CallType, PingId, TraceId, TcpId, Targets
  <2>3. CallInv'
    BY <2>1, <1>2 DEF CallInv, Asking
  <2>4. ConnInv'
    BY <2>1 DEF ConnInv
  <2> QED BY <2>2, <2>3, <2>4
<1>4. ASSUME UNCHANGED <<gateway, conn>>, \A h \in Hosts : heard[h] # None => heard'[h] # None
      PROVE  AskedForm' /\ AskedIds' /\ CallType' /\ CallInv' /\ ConnInv'
  <2>1. AskedForm' /\ AskedIds' /\ CallType'
    BY <1>2, <1>4 DEF AskedForm, AskedIds, CallType, PingId, TraceId, TcpId, Targets
  <2>2. RouteNextHop(conn.target)' = RouteNextHop(conn.target)
    BY <1>4 DEF RouteNextHop
  <2>3. CallInv'
    BY <2>2, <1>2, <1>4 DEF CallInv, Asking
  <2>4. HopHeard(conn.target) => HopHeard(conn.target)'
    BY <2>2, <1>4 DEF HopHeard
  <2>5. ConnInv'
    BY <2>4, <1>2, <1>4 DEF ConnInv, Asking
  <2> QED BY <2>1, <2>3, <2>5
<1>5. AskedForm' /\ AskedIds' /\ CallType' /\ CallInv' /\ ConnInv'
  BY <1>3, <1>4, HandledArp
<1>6. SeenInv'
  <2>1. echoReplySeen' # 0 => /\ echoReplySeen' = lastEchoSeq
                              /\ \E w \in Echoes : Asking(w, echoReplySeen')
    BY DEF HandleFrame, SeenInv, Came, Asking
  <2>2. icmpTimeExceededSeen' # 0 => /\ icmpTimeExceededSeen' = lastEchoSeq
                                     /\ Asking("trace", icmpTimeExceededSeen')
    BY DEF HandleFrame, SeenInv, Came, Asking
  <2>3. dnsReplySeen' # 0 => dnsReplySeen' = lastDnsId /\ Asking("dns", dnsReplySeen')
    BY DEF HandleFrame, SeenInv, Came, Asking, DnsAnswers
  <2> QED BY <2>1, <2>2, <2>3, <1>2 DEF SeenInv, Asking
<1>7. HangsOnlyWhenForgotten'
  <2> DEFINE h == RouteNextHop(conn.target)
  <2> SUFFICES ASSUME hung' PROVE HangsOnlyWhenForgotten'
    BY DEF HangsOnlyWhenForgotten
  <2>1. f.kind = "segment" /\ f.id = conn.id /\ ~Known(h)
    BY DEF HandleFrame
  <2>2. UNCHANGED <<heard, since, gateway, conn>>
    BY <2>1, HandledArp DEF arpVars
  <2>3. conn.cleared \/ HopHeard(conn.target)
    BY <2>1 DEF Came, ConnInv, Asking
  <2>4. h \in Hosts /\ heard[h] # None => Cardinality(since[h]) >= CacheSize
    BY <2>1 DEF ArpInv, ForgottenLate, Forgotten
  <2>5. IF h \in Hosts /\ heard[h] # None THEN Cardinality(since[h]) >= CacheSize ELSE conn.cleared
    BY <2>3, <2>4 DEF HopHeard
  <2> QED BY <2>2, <2>5 DEF HangsOnlyWhenForgotten, RouteNextHop
<1> QED BY <1>1, <1>5, <1>6, <1>7

\* A host with an entry has been heard.
LEMMA KnownIsHeard ==
  ASSUME ArpInv, NEW h, h # None, Known(h)
  PROVE  h \in Hosts /\ heard[h] # None
<1>1. PICK s \in Slots : arp[s].ip = h
  BY DEF Known
<1>2. h \in Hosts
  BY <1>1 DEF ArpInv, ArpType
<1> QED BY <1>1, <1>2 DEF ArpInv, EntriesHeard

\* The next probe of a command, or the prompt.
LEMMA Ended ==
  ASSUME CallType, pc # "idle", Ends, UNCHANGED <<calls, gateway>>
  PROVE  CallType' /\ pc' \in {"idle", "call"} /\ (pc' = "call" => what' \in Echoes)
<1>1. CASE what \in Echoes /\ seq < MaxSeq
  <2>1. /\ seq' = seq + 1 /\ pc' = "call" /\ what' = what /\ target' = target
        /\ what \in Echoes
    BY <1>1 DEF Ends, Echoes
  <2>2. seq + 1 \in 1 .. MaxSeq
    BY <1>1, SeqAssumption DEF CallType
  <2>3. seq' \in 1 .. MaxSeq
    BY <2>1, <2>2
  <2> QED BY <2>1, <2>3 DEF CallType
<1>2. CASE ~(what \in Echoes /\ seq < MaxSeq)
  <2>1. what' = "none" /\ pc' = "idle"
    BY <1>2 DEF Ends, Echoes, Prompt
  <2> QED BY <2>1 DEF CallType
<1> QED BY <1>1, <1>2

\* At the prompt, and where an echo starts, a call has set nothing.
LEMMA CallsSet ==
  ASSUME pc' \in {"idle", "call"}, pc' = "call" => what' \in Echoes
  PROVE  CallInv'
  BY CommandsDiffer DEF CallInv

LEMMA Waiting ==
  ASSUME Inv, ~hung, Resolved \/ Waited
  PROVE  ProbeInv'
<1> USE DEF Inv, ProbeInv
<1>1. /\ UNCHANGED <<arpVars, calls, lastEchoSeq, lastDnsId, seenVars, gateway, conn, asked, hung>>
      /\ pc # "idle"
  BY DEF Resolved, Waited, routeVars
<1>2. UNCHANGED <<heard, since, echoReplySeen, icmpTimeExceededSeen, dnsReplySeen>>
  BY <1>1 DEF arpVars, seenVars
<1>3. AskedForm' /\ AskedIds'
  BY <1>1 DEF AskedForm, AskedIds, PingId, TraceId, TcpId
<1>4. SeenInv' /\ ConnInv'
  BY <1>1, <1>2 DEF SeenInv, ConnInv, Asking, HopHeard, RouteNextHop
<1>5. HangsOnlyWhenForgotten'
  BY <1>1, <1>2 DEF HangsOnlyWhenForgotten, RouteNextHop
<1>6. CASE Ends
  BY <1>1, <1>3, <1>4, <1>5, <1>6, Ended, CallsSet
<1>7. CASE ~Ends /\ Resolved
  <2>1. Known(hop) /\ pc = "arp" /\ pc' = "send" /\ UNCHANGED <<what, target, seq, hop>>
    BY <1>7 DEF Resolved
  <2>2. Id' = Id /\ RouteNextHop(conn.target)' = RouteNextHop(conn.target)
    BY <2>1, <1>1 DEF Id, RouteNextHop
  <2>3. CallType'
    BY <2>1, <1>1 DEF CallType, Targets
  <2>4. hop \in Hosts /\ heard[hop] # None
    BY <2>1, KnownIsHeard, HostAssumption, FarAssumption DEF CallType, Targets
  <2>5. CallInv'
    BY <2>1, <2>2, <2>4, <1>1, <1>2 DEF CallInv
  <2> QED BY <2>3, <2>5, <1>3, <1>4, <1>5
<1>8. CASE ~Ends /\ Waited
  <2>1. what' = "none" /\ pc' = "idle"
    BY <1>8 DEF Waited, Prompt
  <2>2. CallType'
    BY <2>1, <1>1 DEF CallType
  <2> QED BY <2>1, <2>2, <1>3, <1>4, <1>5, CallsSet
<1> QED BY <1>6, <1>7, <1>8

\* What has gone out has the number of the call that sent it.
LEMMA Sending ==
  ASSUME Inv, ~hung, Send
  PROVE  ProbeInv' /\ asked \subseteq asked'
<1> USE DEF Inv, ProbeInv
<1>1. /\ UNCHANGED <<arpVars, calls, lastDnsId, dnsReplySeen, gateway, conn, hung>>
      /\ pc = "send"
      /\ asked' = asked \/ asked' = asked \cup {[what |-> what, id |-> Id]}
  BY DEF Send, routeVars
<1>2. UNCHANGED <<heard, since>> /\ RouteNextHop(conn.target)' = RouteNextHop(conn.target)
  BY <1>1 DEF arpVars, RouteNextHop
<1>3. /\ what = "ping" => PingId(Id)
      /\ what = "trace" => TraceId(Id)
      /\ what = "tcp" => TcpId(Id, calls)
  BY <1>1, IdOf
<1>4. AskedForm' /\ AskedIds'
  <2> DEFINE q == [what |-> what, id |-> Id]
  <2>1. q = [what |-> q.what, id |-> q.id]
        /\ (q.what = "ping" => PingId(q.id))
        /\ (q.what = "trace" => TraceId(q.id))
        /\ (q.what = "tcp" => TcpId(q.id, calls))
    BY <1>3
  <2>2. \A p \in asked' : p \in asked \/ p = q
    BY <1>1
  <2> HIDE DEF q
  <2>3. AskedForm'
    BY <2>1, <2>2 DEF AskedForm
  <2>4. \A p \in asked' : /\ p.what = "ping" => PingId(p.id)
                          /\ p.what = "trace" => TraceId(p.id)
                          /\ p.what = "tcp" => TcpId(p.id, calls)
    BY <2>1, <2>2 DEF AskedIds
  <2> QED BY <2>3, <2>4, <1>1 DEF AskedIds, PingId, TraceId, TcpId
<1>5. SeenInv'
  <2>1. CASE what \in Echoes
    BY <2>1, <1>1 DEF Send, EchoResets, SeenInv, Asking, Echoes
  <2>2. CASE what \notin Echoes
    BY <2>2, <1>1 DEF Send, SeenInv, Asking, Echoes
  <2> QED BY <2>1, <2>2
<1>6. ConnInv'
  <2>1. Asking("tcp", conn.id)' => Asking("tcp", conn.id) \/ (what = "tcp" /\ conn.id = Id)
    BY <1>1 DEF Asking
  <2>2. what = "tcp" => conn.cleared \/ HopHeard(conn.target)
    BY <1>1 DEF CallInv, HopHeard
  <2>3. HopHeard(conn.target)' = HopHeard(conn.target)
    BY <1>2 DEF HopHeard
  <2> QED BY <2>1, <2>2, <2>3, <1>1 DEF ConnInv
<1>7. HangsOnlyWhenForgotten'
  BY <1>1, <1>2 DEF HangsOnlyWhenForgotten
<1>8. CASE Ends
  BY <1>1, <1>4, <1>5, <1>6, <1>7, <1>8, Ended, CallsSet
<1>9. CASE ~Ends
  <2>1. pc' = "wait" /\ UNCHANGED <<what, target, seq>>
    BY <1>9 DEF Send
  <2>2. Id' = Id
    BY <2>1, <1>1 DEF Id
  <2>3. CallType'
    BY <2>1, <1>1 DEF CallType, Targets
  <2>4. what \in Echoes => lastEchoSeq' = Id
    BY DEF Send, Echoes
  <2>5. CallInv'
    BY <2>1, <2>2, <2>4, <1>1 DEF CallInv
  <2> QED BY <2>3, <2>5, <1>1, <1>4, <1>5, <1>6, <1>7
<1> QED BY <1>8, <1>9

LEMMA Called ==
  ASSUME Inv, ~hung, Call
  PROVE  ProbeInv'
<1> USE DEF Inv, ProbeInv
<1>1. /\ UNCHANGED <<arpVars, what, target, seq, calls, lastEchoSeq, echoReplySeen,
                     icmpTimeExceededSeen, gateway, asked, hung>>
      /\ pc = "call" /\ pc' \in {"send", "arp"} /\ (pc' = "send" => what # "arping" /\ Known(hop'))
  BY DEF Call, MaySend
<1>2. UNCHANGED <<heard, since>> /\ Id' = Id /\ target \in Targets
      /\ \A t : RouteNextHop(t)' = RouteNextHop(t)
  BY <1>1 DEF arpVars, Id, RouteNextHop, CallType
<1>3. hop' \in Targets /\ hop' # None /\ (what # "arping" => hop' = RouteNextHop(target))
  BY <1>2, HopIsTarget DEF Call
<1>4. AskedForm' /\ AskedIds' /\ CallType'
  BY <1>1, <1>3 DEF AskedForm, AskedIds, CallType, PingId, TraceId, TcpId, Targets
<1>9. CallInv'
  <2>1. pc' = "send" => hop' \in Hosts /\ heard'[hop'] # None
    BY <1>1, <1>2, <1>3, KnownIsHeard
  <2>2. what' = "dns" => lastDnsId' = Id'
    BY <1>1, <1>2 DEF Call
  <2>3. what' = "tcp" => conn'.id = Id' /\ RouteNextHop(conn.target)' = hop'
    <3> SUFFICES ASSUME what' = "tcp" PROVE conn'.id = Id' /\ RouteNextHop(conn.target)' = hop'
      OBVIOUS
    <3>1. conn' = [target |-> target, id |-> Id, cleared |-> FALSE] /\ what = "tcp"
      BY <1>1 DEF Call
    <3>2. conn'.target = target /\ conn'.id = Id
      BY <3>1
    <3>3. RouteNextHop(conn.target)' = RouteNextHop(target)
      BY <3>2, <1>1 DEF RouteNextHop
    <3> QED BY <3>1, <3>2, <3>3, <1>2, <1>3
  <2> QED BY <2>1, <2>2, <2>3, <1>1 DEF CallInv
<1>5. SeenInv'
  BY <1>1 DEF Call, SeenInv, Asking
<1>6. ConnInv'
  <2>1. CASE what = "tcp"
    <3>1. conn' = [target |-> target, id |-> Id, cleared |-> FALSE]
      BY <2>1 DEF Call
    <3>2. ~Asking("tcp", Id)
      BY <2>1, <1>1 DEF CallInv
    <3> QED BY <3>1, <3>2, <1>1 DEF ConnInv, Asking
  <2>2. CASE what # "tcp"
    BY <2>2, <1>1, <1>2 DEF Call, ConnInv, Asking, HopHeard, RouteNextHop
  <2> QED BY <2>1, <2>2
<1>7. HangsOnlyWhenForgotten'
  BY <1>1 DEF HangsOnlyWhenForgotten
<1> QED BY <1>4, <1>5, <1>6, <1>7, <1>9

\* A later call has a later number.
LEMMA LaterIds ==
  ASSUME CallType, AskedIds, UNCHANGED asked, calls' = calls + 1
  PROVE  AskedIds' /\ calls' \in Nat /\ ~Asking("tcp", 18496 + calls')
<1>1. calls \in Nat
  BY DEF CallType
<1>2. \A i : TcpId(i, calls) => TcpId(i, calls') /\ i # 18496 + calls'
  BY <1>1 DEF TcpId
<1>3. \A p \in asked : /\ p.what = "ping" => PingId(p.id)
                       /\ p.what = "trace" => TraceId(p.id)
                       /\ p.what = "tcp" => TcpId(p.id, calls')
  BY <1>2 DEF AskedIds
<1>4. AskedIds'
  BY <1>3 DEF AskedIds, PingId, TraceId, TcpId
<1>5. Asking("tcp", 18496 + calls') => TcpId(18496 + calls', calls)
  <2> DEFINE n == 18496 + calls'
  <2> HIDE DEF n
  <2>1. Asking("tcp", n) => TcpId(n, calls)
    BY DEF Asking, AskedIds
  <2> QED BY <2>1 DEF n
<1> QED BY <1>1, <1>2, <1>4, <1>5

LEMMA Commanded ==
  ASSUME Inv, ~hung, NEW w \in Commands, Command(w)
  PROVE  ProbeInv'
<1> USE DEF Inv, ProbeInv
<1>1. /\ UNCHANGED <<arpVars, lastEchoSeq, lastDnsId, seenVars, gateway, conn, asked, hung>>
      /\ calls' = calls + 1 /\ what' = w /\ seq' = 1 /\ target' \in Targets /\ pc' = "call"
  BY DEF Command, routeVars, Targets
<1>2. UNCHANGED <<heard, since, echoReplySeen, icmpTimeExceededSeen, dnsReplySeen>>
  BY <1>1 DEF arpVars, seenVars
<1>3. AskedIds' /\ calls' \in Nat /\ ~Asking("tcp", 18496 + calls')
  BY <1>1, LaterIds
<1>4. AskedForm'
  BY <1>1 DEF AskedForm
<1>5. CallType'
  <2>1. 1 \in 1 .. MaxSeq
    BY SeqAssumption
  <2> QED BY <2>1, <1>1, <1>3 DEF CallType, Targets
<1>6. CallInv'
  <2>1. what' = "tcp" => Id' = 18496 + calls'
    BY DEF Id
  <2> QED BY <2>1, <1>1, <1>3 DEF CallInv, Asking
<1>7. SeenInv' /\ ConnInv'
  BY <1>1, <1>2 DEF SeenInv, ConnInv, Asking, HopHeard, RouteNextHop
<1>8. HangsOnlyWhenForgotten'
  BY <1>1 DEF HangsOnlyWhenForgotten
<1> QED BY <1>3, <1>4, <1>5, <1>6, <1>7, <1>8

\* What configures the address clears the cache; an exchange's number is asked for.
LEMMA Reconfigured ==
  ASSUME Inv, ~hung, StartDhcp \/ ConfigureStatic
  PROVE  ProbeInv' /\ asked \subseteq asked'
<1> USE DEF Inv, ProbeInv
<1>1. /\ UNCHANGED <<what, target, seq, hop, pc, lastEchoSeq, lastDnsId, seenVars, hung>>
      /\ pc = "idle" /\ calls' = calls + 1 /\ conn' = [conn EXCEPT !.cleared = TRUE]
      /\ gateway' \in Hosts \cup {None}
  BY DEF StartDhcp, ConfigureStatic, Configures
<1>2. asked' = asked \/ asked' = asked \cup {[what |-> "dhcp", id |-> dhcpXid']}
  BY DEF StartDhcp, ConfigureStatic
<1>3. \A p \in asked' : p \in asked \/ (p.what = "dhcp" /\ p = [what |-> p.what, id |-> p.id])
  BY <1>2
<1>4. calls \in Nat /\ calls' \in Nat /\ \A i : TcpId(i, calls) => TcpId(i, calls')
  BY <1>1 DEF CallType, TcpId
<1>5. \A p \in asked' : /\ p.what = "ping" => PingId(p.id)
                        /\ p.what = "trace" => TraceId(p.id)
                        /\ p.what = "tcp" => TcpId(p.id, calls')
  BY <1>3, <1>4 DEF AskedIds
<1>6. AskedForm' /\ AskedIds' /\ CallType'
  BY <1>1, <1>3, <1>4, <1>5 DEF AskedForm, AskedIds, CallType, PingId, TraceId, TcpId, Targets
<1>7. CallInv'
  BY <1>1, CallsSet
<1>8. SeenInv'
  BY <1>1, <1>2 DEF seenVars, SeenInv, Asking
<1>9. ConnInv'
  BY <1>1 DEF ConnInv, Asking
<1>10. HangsOnlyWhenForgotten'
  BY <1>1 DEF HangsOnlyWhenForgotten
<1> QED BY <1>2, <1>6, <1>7, <1>8, <1>9, <1>10

-------------------------------------------------------------------------------
(* The invariant *)

LEMMA InvStart == Init => Inv
<1> SUFFICES ASSUME Init PROVE Inv
  OBVIOUS
<1>1. ArpInv
  BY ArpStart DEF Init
<1>2. FramesCame
  <2>1. 0 \in Unit
    BY RingAssumption DEF Unit
  <2>2. Came(NoFrame)
    BY DEF Came, NoFrame
  <2>3. rxOffset = 0 /\ ring = [u \in Unit |-> NoFrame]
    BY DEF Init, RingInit
  <2> QED BY <2>1, <2>2, <2>3 DEF FramesCame
<1>3. AskedForm /\ AskedIds /\ CallType
  BY DEF Init, AskedForm, AskedIds, CallType, Targets
<1>4. CallInv /\ SeenInv /\ ConnInv
  BY DEF Init, CallInv, SeenInv, ConnInv, Asking
<1>5. HangsOnlyWhenForgotten
  BY DEF Init, HangsOnlyWhenForgotten
<1> QED BY <1>1, <1>2, <1>3, <1>4, <1>5 DEF Inv, ProbeInv

LEMMA InvStep == Inv /\ [Next]_vars => Inv'
<1> SUFFICES ASSUME Inv, [Next]_vars PROVE Inv'
  OBVIOUS
<1> USE DEF Inv
<1>1. CASE UNCHANGED vars
  BY <1>1, ArpKept, ProbesKept, FramesStay DEF vars, ringVars, probeVars
<1>2. CASE ~hung /\ Arrives
  BY <1>2, FramesArrive, ArpKept, ProbesKept DEF Arrives, ProbeInv
<1>3. CASE ~hung /\ pc \in {"idle", "arp", "wait"} /\ Poll
  <2>1. CASE Take /\ HandleFrame(ring[rxOffset])
    <3>1. Came(ring[rxOffset])
      BY DEF FramesCame
    <3>2. UNCHANGED <<ring, rxOffset, asked>>
      BY <2>1 DEF Take, HandleFrame, callVars
    <3> QED BY <1>3, <2>1, <3>1, <3>2, Handled, FramesStay
  <2>2. CASE GiveBack /\ UNCHANGED <<arpVars, probeVars>>
    <3>1. UNCHANGED asked
      BY <2>2 DEF probeVars
    <3> QED BY <2>2, <3>1, FramesGivenBack, ArpKept, ProbesKept
  <2> QED BY <1>3, <2>1, <2>2 DEF Poll
<1>4. CASE ~hung /\ Call
  <2>1. UNCHANGED <<ring, rxOffset, asked, arpVars>>
    BY <1>4 DEF Call, ringVars
  <2> QED BY <1>4, <2>1, Called, ArpKept, FramesStay
<1>5. CASE ~hung /\ (Resolved \/ Waited)
  <2>1. UNCHANGED <<ring, rxOffset, asked, arpVars>>
    BY <1>5 DEF Resolved, Waited, ringVars
  <2> QED BY <1>5, <2>1, Waiting, ArpKept, FramesStay
<1>6. CASE ~hung /\ Send
  <2>1. UNCHANGED <<ring, rxOffset, arpVars>>
    BY <1>6 DEF Send, ringVars
  <2> QED BY <1>6, <2>1, Sending, ArpKept, FramesStay
<1>7. CASE ~hung /\ (StartDhcp \/ ConfigureStatic)
  <2>1. UNCHANGED <<ring, rxOffset>> /\ Cleared
    BY <1>7 DEF StartDhcp, ConfigureStatic, Configures, ringVars
  <2> QED BY <1>7, <2>1, Reconfigured, ArpStart, FramesStay
<1>8. CASE ~hung /\ \E w \in Commands : Command(w)
  <2>1. UNCHANGED <<ring, rxOffset, asked, arpVars>>
    BY <1>8 DEF Command, ringVars
  <2> QED BY <1>8, <2>1, Commanded, ArpKept, FramesStay
<1> QED BY <1>1, <1>2, <1>3, <1>4, <1>5, <1>6, <1>7, <1>8 DEF Next

LEMMA InvHolds == Spec => []Inv
  BY InvStart, InvStep, PTL DEF Spec

\* The ARP cache has the last address heard of a host and no other one, and forgets
\* a host only when as many others as it has entries were heard (network.cpp:702), in
\* any order in which frames come and commands are given.
THEOREM ArpStaysCoherent == Spec => []ArpCoherent
<1>1. Inv => ArpCoherent
  BY ArpIsCoherent DEF Inv
<1> QED BY <1>1, InvHolds, PTL

\* A handler's own poll finds the frame it is handling only if the next hop has been
\* forgotten since the connection asked for it, pushed out by as many other hosts as
\* the cache has entries, or cleared with it and not heard again; also where a DHCP ACK
\* comes and changes the route in the middle of it (network.cpp:781, :959, :1302).
THEOREM HangsLate == Spec => []HangsOnlyWhenForgotten
<1>1. Inv => HangsOnlyWhenForgotten
  BY DEF Inv, ProbeInv
<1> QED BY <1>1, InvHolds, PTL

\* What a step tells the command answers the probe that waits.
LEMMA AnswerStep ==
  ASSUME Inv, Next, answer = 0, answer' # 0
  PROVE  answer' = Id /\ [what |-> what, id |-> Id] \in asked
<1> USE DEF Inv, ProbeInv
<1>1. Waited
  BY DEF Next, Arrives, Poll, HandleFrame, Call, Resolved, Send, StartDhcp, ConfigureStatic,
     Configures, Command, probeVars, callVars
<1>2. pc = "wait" /\ CallType
  BY <1>1 DEF Waited
<1>3. /\ what = "ping" => PingId(Id)
      /\ what = "trace" => TraceId(Id)
  BY <1>2, IdOf
<1>4. Asking("ping", Id) => PingId(Id)
  BY DEF Asking, AskedIds
<1>5. Asking("trace", Id) => TraceId(Id)
  BY DEF Asking, AskedIds
<1>6. \E w \in Echoes : Asking(w, Id) => Asking("ping", Id) \/ Asking("trace", Id)
  BY DEF Echoes
<1>7. CASE what \in Echoes /\ Answered(echoReplySeen)
  <2>1. answer' = Id /\ (Asking("ping", Id) \/ Asking("trace", Id))
    BY <1>2, <1>7 DEF Answered, SeenInv, CallInv, Echoes
  <2> QED BY <1>3, <1>4, <1>5, <1>7, <2>1, EchoIds DEF Asking, Echoes
<1>8. CASE what = "trace" /\ Answered(icmpTimeExceededSeen)
  BY <1>2, <1>8 DEF Answered, SeenInv, CallInv, Echoes, Asking
<1>9. CASE what = "dns" /\ Answered(dnsReplySeen)
  BY <1>2, <1>9 DEF Answered, SeenInv, CallInv, Asking
<1> QED BY <1>1, <1>7, <1>8, <1>9 DEF Waited, Echoes

\* A probe is told only an answer to its own number, that has been asked for
\* (network.cpp:876, :992), whatever the network loses, repeats and delays.
THEOREM AnswersAreForProbes == Spec => AnswersMatch
<1>1. Inv /\ [Next]_vars =>
        [answer = 0 /\ answer' # 0 => answer' = Id /\ [what |-> what, id |-> Id] \in asked]_vars
  BY AnswerStep
<1> QED BY <1>1, InvHolds, PTL DEF Spec, AnswersMatch

-------------------------------------------------------------------------------
(* The receive ring *)

LEMMA PastIs ==
  ASSUME NEW u \in Unit, NEW n \in 0 .. RingSize
  PROVE  /\ Past(u, n) = IF u + n < RingSize THEN u + n ELSE u + n - RingSize
         /\ Past(u, n) \in Unit
<1>1. u \in Nat /\ u < RingSize /\ n \in Nat /\ n <= RingSize /\ RingSize \in Nat
  BY RingAssumption DEF Unit
<1>2. CASE u + n < RingSize
  BY <1>1, <1>2 DEF Past, Unit
<1>3. CASE u + n >= RingSize
  <2>1. u + n - RingSize \in Nat /\ u + n - RingSize < RingSize
    BY <1>1, <1>3
  <2>2. (u + n) % RingSize = u + n - RingSize
    BY <1>1, <2>1
  <2> QED BY <1>1, <1>3, <2>1, <2>2 DEF Past, Unit
<1> QED BY <1>1, <1>2, <1>3

LEMMA PastPast ==
  ASSUME NEW u \in Unit, NEW a \in 0 .. RingSize, NEW b \in 0 .. RingSize, a + b <= RingSize
  PROVE  Past(Past(u, a), b) = Past(u, a + b)
<1> DEFINE v == Past(u, a)
<1>1. v \in Unit /\ v = IF u + a < RingSize THEN u + a ELSE u + a - RingSize
  BY PastIs
<1>2. a + b \in 0 .. RingSize
  BY RingAssumption
<1>3. Past(u, a + b) = IF u + (a + b) < RingSize THEN u + (a + b) ELSE u + (a + b) - RingSize
  BY <1>2, PastIs
<1> HIDE DEF v
<1>4. Past(v, b) = IF v + b < RingSize THEN v + b ELSE v + b - RingSize
  BY <1>1, PastIs
<1>5. Past(v, b) = Past(u, a + b)
  BY <1>1, <1>3, <1>4, RingAssumption DEF Unit
<1> QED BY <1>5 DEF v

LEMMA PastZero ==
  ASSUME NEW u \in Unit
  PROVE  Past(u, 0) = u /\ Past(u, RingSize) = u
<1>1. 0 \in 0 .. RingSize /\ RingSize \in 0 .. RingSize
  BY RingAssumption
<1>2. /\ Past(u, 0) = IF u + 0 < RingSize THEN u + 0 ELSE u + 0 - RingSize
      /\ Past(u, RingSize)
           = IF u + RingSize < RingSize THEN u + RingSize ELSE u + RingSize - RingSize
  BY <1>1, PastIs
<1> QED BY <1>2, RingAssumption DEF Unit

LEMMA PastDiffers ==
  ASSUME NEW u \in Unit, NEW a \in 0 .. RingSize, NEW b \in 0 .. RingSize, a < b,
         a # 0 \/ b # RingSize
  PROVE  Past(u, a) # Past(u, b)
<1> DEFINE v == Past(u, a)
           w == Past(u, b)
<1>1. /\ v = IF u + a < RingSize THEN u + a ELSE u + a - RingSize
      /\ w = IF u + b < RingSize THEN u + b ELSE u + b - RingSize
  BY PastIs
<1> HIDE DEF v, w
<1>2. v # w
  BY <1>1, RingAssumption DEF Unit
<1> QED BY <1>2 DEF v, w

LEMMA PastLast ==
  ASSUME NEW u \in Unit, NEW a \in 1 .. RingSize
  PROVE  Past(Past(u, a), RingSize - 1) = Past(u, a - 1)
<1> DEFINE v == Past(u, a)
<1>1. a \in 0 .. RingSize /\ a - 1 \in 0 .. RingSize /\ RingSize - 1 \in 0 .. RingSize
  BY RingAssumption
<1>2. v \in Unit /\ v = IF u + a < RingSize THEN u + a ELSE u + a - RingSize
  BY <1>1, PastIs
<1>3. Past(u, a - 1) = IF u + (a - 1) < RingSize THEN u + (a - 1) ELSE u + (a - 1) - RingSize
  BY <1>1, PastIs
<1> HIDE DEF v
<1>4. Past(v, RingSize - 1)
        = IF v + (RingSize - 1) < RingSize THEN v + (RingSize - 1)
          ELSE v + (RingSize - 1) - RingSize
  BY <1>1, <1>2, PastIs
<1>5. Past(v, RingSize - 1) = Past(u, a - 1)
  BY <1>2, <1>3, <1>4, RingAssumption DEF Unit
<1> QED BY <1>5 DEF v

\* What the NIC may fill when a units behind u are taken and it has been told the
\* unit before u.
LEMMA RoomIs ==
  ASSUME NEW u \in Unit, NEW a \in 0 .. RingSize - 1
  PROVE  (Past(u, RingSize - 1) + RingSize - Past(u, a)) % RingSize = RingSize - 1 - a
<1> DEFINE t == Past(u, RingSize - 1)
           h == Past(u, a)
           d == t + RingSize - h
<1>1. RingSize \in Nat /\ u \in Nat /\ u < RingSize /\ a \in Nat /\ a < RingSize
  BY RingAssumption DEF Unit
<1>2. t = IF u + (RingSize - 1) < RingSize THEN u + (RingSize - 1)
          ELSE u + (RingSize - 1) - RingSize
  <2>1. RingSize - 1 \in 0 .. RingSize
    BY <1>1
  <2> QED BY <2>1, PastIs
<1>3. h = IF u + a < RingSize THEN u + a ELSE u + a - RingSize
  BY <1>1, PastIs
<1> HIDE DEF t, h
<1>4. d = RingSize - 1 - a \/ d = RingSize - 1 - a + RingSize
  BY <1>1, <1>2, <1>3
<1>5. d \in Nat
  BY <1>1, <1>4
<1> HIDE DEF d
<1>6. CASE d = RingSize - 1 - a
  <2>1. d < RingSize
    BY <1>1, <1>6
  <2>2. d % RingSize = d
    BY <1>1, <1>5, <2>1
  <2> QED BY <1>6, <2>2 DEF d, t, h
<1>7. CASE d = RingSize - 1 - a + RingSize
  <2>1. d - RingSize \in Nat /\ d - RingSize < RingSize
    BY <1>1, <1>7
  <2>2. d % RingSize = d - RingSize
    BY <1>1, <1>5, <2>1
  <2>3. d - RingSize = RingSize - 1 - a
    BY <1>1, <1>7
  <2> QED BY <2>2, <2>3 DEF d, t, h
<1> QED BY <1>4, <1>6, <1>7

\* How far behind rxOffset each frame that is owed is, and the next one will be: o
\* is where they begin.  Only an RTL8169's descriptors may all be taken.
FrameAt(i, o) == /\ o[i + 1] = o[i] + Length(owed[i].frame)
                 /\ owed[i].at = Past(rxOffset, o[i])
                 /\ ring[owed[i].at] = owed[i].frame /\ owed[i].frame # NoFrame
                 /\ Length(owed[i].frame) \in Nat \ {0}
Placed(o) ==
  /\ o[1] = 0 /\ \A i \in 1 .. Len(owed) : FrameAt(i, o)
  /\ \A i, j \in 1 .. Len(owed) + 1 : i < j => o[i] < o[j]
  /\ hw = Past(rxOffset, o[Len(owed) + 1])
  /\ nicKind # "RTL8169" => o[Len(owed) + 1] < RingSize

Offsets == [1 .. Len(owed) + 1 -> 0 .. RingSize]
OwedAt(u) == \E i \in 1 .. Len(owed) : owed[i].at = u

RingType == /\ DOMAIN ring = Unit /\ rxOffset \in Unit /\ stored \in Nat
            /\ \E S : owed \in Seq(S)
RingInv ==
  /\ RingType
  /\ told = Past(rxOffset, RingSize - 1)
  /\ \E o \in Offsets : Placed(o)
  /\ handling => owed # <<>>
  /\ nicKind # "RTL8139" => \A u \in Unit : ring[u] # NoFrame => OwedAt(u)

\* What the frames that are owed say of the ring
LEMMA OwedIs ==
  ASSUME RingType, NEW o \in Offsets, Placed(o)
  PROVE  /\ Len(owed) \in Nat
         /\ \A i \in 1 .. Len(owed) : /\ o[i] \in 0 .. RingSize /\ o[i + 1] \in 0 .. RingSize
                                       /\ o[i] < o[i + 1] /\ i + 1 \in 2 .. Len(owed) + 1
         /\ o[Len(owed) + 1] \in 0 .. RingSize
         /\ owed # <<>> <=> Len(owed) # 0
         /\ owed # <<>> => o[Len(owed) + 1] # 0 /\ owed[1].at = rxOffset
<1>1. PICK S : owed \in Seq(S)
  BY DEF RingType
<1>2. Len(owed) \in Nat /\ (owed # <<>> <=> Len(owed) # 0)
  BY <1>1, EmptySeq
<1> DEFINE n == Len(owed)
<1> HIDE DEF n
<1>3. n \in Nat /\ o \in [1 .. n + 1 -> 0 .. RingSize]
      /\ (\A i, j \in 1 .. n + 1 : i < j => o[i] < o[j]) /\ o[1] = 0
  BY <1>2 DEF n, Offsets, Placed
<1>4. \A i \in 1 .. n : /\ i \in 1 .. n + 1 /\ i + 1 \in 1 .. n + 1
                        /\ i + 1 \in 2 .. n + 1 /\ i < i + 1
  BY <1>3
<1>5. n + 1 \in 1 .. n + 1 /\ (n # 0 => 1 \in 1 .. n + 1 /\ 1 < n + 1 /\ 1 \in 1 .. n)
  BY <1>3
<1>6. n # 0 => o[n + 1] # 0
  <2>1. n # 0 => o[1] < o[n + 1]
    BY <1>3, <1>5
  <2> QED BY <2>1, <1>3
<1>7. n # 0 => owed[1].at = rxOffset
  <2>1. n # 0 => owed[1].at = Past(rxOffset, 0)
    BY <1>5, <1>3 DEF n, Placed, FrameAt
  <2> QED BY <2>1, PastZero DEF RingType
<1>8. \A i \in 1 .. n : /\ o[i] \in 0 .. RingSize /\ o[i + 1] \in 0 .. RingSize
                        /\ o[i] < o[i + 1] /\ i + 1 \in 2 .. n + 1
  BY <1>3, <1>4
<1> QED BY <1>2, <1>3, <1>5, <1>6, <1>7, <1>8 DEF n

LEMMA InOrder == RingInv => FramesInOrder
<1> SUFFICES ASSUME RingInv PROVE FramesInOrder
  OBVIOUS
<1>1. PICK o \in Offsets : Placed(o)
  BY DEF RingInv
<1>2. /\ RingType /\ rxOffset \in Unit
      /\ owed # <<>> <=> Len(owed) # 0
      /\ owed # <<>> => o[Len(owed) + 1] # 0 /\ owed[1].at = rxOffset
      /\ Len(owed) \in Nat /\ o[Len(owed) + 1] \in 0 .. RingSize
  BY <1>1, OwedIs DEF RingInv, RingType
<1>3. Len(owed) # 0 => 1 \in 1 .. Len(owed)
  BY <1>2
<1>4. Ready <=> owed # <<>>
  <2>1. CASE nicKind = "RTL8139"
    <3> DEFINE e == o[Len(owed) + 1]
    <3>1. hw = Past(rxOffset, e) /\ e < RingSize /\ e \in 0 .. RingSize
      BY <1>1, <1>2, <2>1 DEF Placed
    <3>2. owed = <<>> => e = 0
      BY <1>1, <1>2 DEF Placed
    <3> HIDE DEF e
    <3>3. e # 0 => Past(rxOffset, 0) # Past(rxOffset, e)
      BY <3>1, <1>2, PastDiffers, RingAssumption
    <3>4. Past(rxOffset, 0) = rxOffset
      BY <1>2, PastZero
    <3>5. owed # <<>> => e # 0
      BY <1>2 DEF e
    <3> QED BY <2>1, <3>1, <3>2, <3>3, <3>4, <3>5 DEF Ready
  <2>2. CASE nicKind # "RTL8139"
    <3>1. owed # <<>> => ring[rxOffset] # NoFrame
      BY <1>1, <1>2, <1>3 DEF Placed, FrameAt
    <3>2. ring[rxOffset] # NoFrame => owed # <<>>
      <4>1. ring[rxOffset] # NoFrame => \E i \in 1 .. Len(owed) : TRUE
        BY <2>2, <1>2 DEF RingInv, OwedAt
      <4>2. (\E i \in 1 .. Len(owed) : TRUE) => Len(owed) # 0
        BY <1>2
      <4> QED BY <4>1, <4>2, <1>2
    <3> QED BY <2>2, <3>1, <3>2 DEF Ready
  <2> QED BY <2>1, <2>2
<1>5. DOMAIN owed = 1 .. Len(owed)
  <2>1. PICK S : owed \in Seq(S)
    BY <1>2 DEF RingType
  <2> QED BY <2>1, LenProperties
<1>6. \A i \in DOMAIN owed : ring[owed[i].at] = owed[i].frame
  BY <1>1, <1>5 DEF Placed, FrameAt
<1>7. ASSUME NEW i \in 2 .. Len(owed)
      PROVE  owed[i].at = Past(owed[i - 1].at, Length(owed[i - 1].frame))
  <2> DEFINE k == i - 1
             l == Length(owed[k].frame)
  <2>1. k \in 1 .. Len(owed) /\ k + 1 = i /\ i \in 1 .. Len(owed)
    BY <1>2
  <2>2. o[i] = o[k] + l /\ owed[k].at = Past(rxOffset, o[k]) /\ owed[i].at = Past(rxOffset, o[i])
    <3> HIDE DEF k
    <3> QED BY <1>1, <2>1 DEF Placed, FrameAt
  <2>3. o[k] \in 0 .. RingSize /\ o[i] \in 0 .. RingSize /\ o[k] < o[i]
    <3> HIDE DEF k
    <3> QED BY <1>1, <1>2, <2>1, OwedIs
  <2>4. l \in Nat
    <3> HIDE DEF k
    <3> QED BY <1>1, <2>1 DEF Placed, FrameAt
  <2>5. l \in 0 .. RingSize /\ o[k] + l <= RingSize
    <3> HIDE DEF k, l
    <3> QED BY <2>2, <2>3, <2>4, RingAssumption
  <2> HIDE DEF k, l
  <2>6. Past(Past(rxOffset, o[k]), l) = Past(rxOffset, o[k] + l)
    BY <1>2, <2>3, <2>5, PastPast
  <2>7. owed[i].at = Past(owed[k].at, l)
    BY <2>2, <2>6
  <2> QED BY <2>7 DEF k, l
<1> QED BY <1>2, <1>4, <1>6, <1>7 DEF FramesInOrder

LEMMA RingKept ==
  ASSUME RingInv, UNCHANGED ringVars
  PROVE  RingInv'
<1>1. UNCHANGED <<nicKind, ring, rxOffset, hw, told, owed, handling, stored>>
  BY DEF ringVars
<1> QED BY <1>1 DEF RingInv, RingType, Offsets, Placed, FrameAt, OwedAt, Length, Past, Unit

LEMMA RingTaken ==
  ASSUME RingInv, Take
  PROVE  RingInv'
<1>1. /\ UNCHANGED <<nicKind, ring, rxOffset, hw, told, owed, stored>>
      /\ handling' /\ Ready /\ ~handling
  BY DEF Take
<1>2. owed # <<>>
  BY <1>1, InOrder DEF FramesInOrder
<1>3. RingType' /\ (\E o \in Offsets : Placed(o))' /\ (told = Past(rxOffset, RingSize - 1))'
  BY <1>1 DEF RingInv, RingType, Offsets, Placed, FrameAt, Length, Past, Unit
<1>4. (nicKind # "RTL8139" => \A u \in Unit : ring[u] # NoFrame => OwedAt(u))'
  BY <1>1 DEF RingInv, OwedAt, Unit
<1> QED BY <1>1, <1>2, <1>3, <1>4 DEF RingInv

LEMMA RingStart == RingInit => RingInv
<1> SUFFICES ASSUME RingInit PROVE RingInv
  OBVIOUS
<1>1. 0 \in Unit /\ RingSize - 1 \in Unit /\ 0 \in 0 .. RingSize /\ 0 < RingSize
      /\ RingSize - 1 \in 0 .. RingSize
  BY RingAssumption DEF Unit
<1>2. owed = <<>> /\ Len(owed) = 0 /\ owed \in Seq({})
  BY DEF RingInit
<1>3. RingType
  BY <1>1, <1>2 DEF RingInit, RingType
<1>4. told = Past(rxOffset, RingSize - 1)
  <2>1. 0 + (RingSize - 1) = RingSize - 1 /\ RingSize - 1 < RingSize
    BY RingAssumption
  <2>2. Past(0, RingSize - 1) = RingSize - 1
    BY <1>1, <2>1, PastIs
  <2> QED BY <2>2 DEF RingInit
<1>5. \E o \in Offsets : Placed(o)
  <2> DEFINE o == [i \in 1 .. 0 + 1 |-> 0]
  <2>1. 1 \in 1 .. 0 + 1 /\ 0 + 1 = 1 /\ \A i \in 1 .. 0 : FALSE
    OBVIOUS
  <2>2. o \in [1 .. 0 + 1 -> 0 .. RingSize] /\ o[1] = 0
    BY <1>1, <2>1
  <2>3. \A i, j \in 1 .. 0 + 1 : ~(i < j)
    OBVIOUS
  <2>4. Past(0, 0) = 0
    BY <1>1, PastZero
  <2>5. hw = 0 /\ rxOffset = 0
    BY DEF RingInit
  <2> HIDE DEF o
  <2>6. o \in Offsets
    BY <1>2, <2>2 DEF Offsets
  <2>7. Placed(o)
    BY <1>1, <1>2, <2>1, <2>2, <2>3, <2>4, <2>5 DEF Placed
  <2> QED BY <2>6, <2>7
<1>6. ~handling /\ \A u \in Unit : ring[u] = NoFrame
  BY DEF RingInit
<1> QED BY <1>3, <1>4, <1>5, <1>6 DEF RingInv

\* Room is made only behind the frames that are owed.
LEMMA RoomFor ==
  ASSUME RingInv, NEW o \in Offsets, Placed(o), NEW l \in Nat \ {0}, Room(l),
         nicKind # "RTL8139" => l = 1
  PROVE  /\ o[Len(owed) + 1] < RingSize /\ o[Len(owed) + 1] + l \in 0 .. RingSize
         /\ nicKind # "RTL8169" => o[Len(owed) + 1] + l < RingSize
<1> DEFINE e == o[Len(owed) + 1]
<1>1. /\ RingType /\ rxOffset \in Unit /\ e \in 0 .. RingSize /\ hw = Past(rxOffset, e)
      /\ told = Past(rxOffset, RingSize - 1)
      /\ owed # <<>> => e # 0 /\ owed[1].at = rxOffset
      /\ Len(owed) \in Nat /\ (owed # <<>> <=> Len(owed) # 0)
  BY OwedIs DEF RingInv, RingType, Placed
<1>2. CASE nicKind = "RTL8169"
  <2>1. e # RingSize
    <3> SUFFICES ASSUME e = RingSize PROVE FALSE
      OBVIOUS
    <3>1. hw = rxOffset
      BY <1>1, PastZero
    <3>2. owed # <<>>
      <4>1. owed = <<>> => e = 0
        BY <1>1 DEF Placed
      <4> QED BY <4>1, RingAssumption
    <3>3. 1 \in 1 .. Len(owed)
      BY <3>2, <1>1
    <3>4. ring[rxOffset] # NoFrame
      BY <1>1, <3>2, <3>3 DEF Placed, FrameAt
    <3> QED BY <1>2, <3>1, <3>4 DEF Room
  <2> HIDE DEF e
  <2>2. l = 1
    BY <1>2
  <2>3. e < RingSize /\ e + l \in 0 .. RingSize
    BY <1>1, <2>1, <2>2, RingAssumption
  <2> QED BY <1>2, <2>3 DEF e
<1>3. CASE nicKind # "RTL8169"
  <2>1. e < RingSize
    BY <1>3 DEF Placed
  <2>2. (told + RingSize - hw) % RingSize >= l
    BY <1>3 DEF Room
  <2> HIDE DEF e
  <2>3. e \in 0 .. RingSize - 1
    BY <1>1, <2>1, RingAssumption
  <2>4. (told + RingSize - hw) % RingSize = RingSize - 1 - e
    BY <1>1, <2>3, RoomIs
  <2>5. e + l < RingSize /\ e + l \in 0 .. RingSize
    BY <2>2, <2>3, <2>4, RingAssumption
  <2> QED BY <2>1, <2>5 DEF e
<1> QED BY <1>2, <1>3

LEMMA RingStored ==
  ASSUME RingInv, NEW f, f.size \in Nat \ {0}, \A x : [f EXCEPT !.no = x].no = x,
         \A x : [f EXCEPT !.no = x].size = f.size, Store(f)
  PROVE  RingInv'
<1> DEFINE g == [f EXCEPT !.no = stored + 1]
           l == Length(f)
           n == Len(owed)
           x == [at |-> hw, frame |-> g]
<1>1. PICK o \in Offsets : Placed(o)
  BY DEF RingInv
<1>2. PICK S : owed \in Seq(S)
  BY DEF RingInv, RingType
<1>3. /\ RingType /\ rxOffset \in Unit /\ stored \in Nat /\ DOMAIN ring = Unit
      /\ Len(owed) \in Nat /\ told = Past(rxOffset, RingSize - 1)
      /\ \A i \in 1 .. Len(owed) : /\ o[i] \in 0 .. RingSize /\ o[i + 1] \in 0 .. RingSize
                                   /\ o[i] < o[i + 1]
      /\ o[Len(owed) + 1] \in 0 .. RingSize
  BY <1>1, OwedIs DEF RingInv, RingType
<1>4. /\ Room(l) /\ stored' = stored + 1 /\ ring' = [ring EXCEPT ![hw] = g]
      /\ owed' = Append(owed, x) /\ hw' = Past(hw, l)
      /\ UNCHANGED <<nicKind, rxOffset, told, handling>>
  BY DEF Store
<1>5. l \in Nat \ {0} /\ (nicKind # "RTL8139" => l = 1)
  BY DEF Length
<1>6. g # NoFrame
  <2>1. g.no = stored + 1
    OBVIOUS
  <2>2. NoFrame.no = 0
    BY DEF NoFrame
  <2>3. stored + 1 # 0
    BY <1>3
  <2> QED BY <2>1, <2>2, <2>3
<1>7. g.size = f.size /\ \A h : h.size = f.size => Length(h)' = l
  BY <1>4 DEF Length
<1> HIDE DEF g, l, x
<1>8. /\ o[n + 1] < RingSize /\ o[n + 1] + l \in 0 .. RingSize
      /\ nicKind # "RTL8169" => o[n + 1] + l < RingSize
  BY <1>1, <1>4, <1>5, RoomFor
<1>9. /\ owed' \in Seq(S \cup {x}) /\ Len(owed') = n + 1 /\ owed'[n + 1] = x
      /\ \A i \in 1 .. n : owed'[i] = owed[i]
  <2>1. owed \in Seq(S \cup {x}) /\ x \in S \cup {x}
    BY <1>2, SeqMonotonic
  <2>2. /\ Append(owed, x) \in Seq(S \cup {x}) /\ Len(Append(owed, x)) = Len(owed) + 1
        /\ \A i \in 1 .. Len(owed) : Append(owed, x)[i] = owed[i]
        /\ Append(owed, x)[Len(owed) + 1] = x
    BY <2>1, AppendProperties
  <2> QED BY <2>2, <1>4
<1>10. n \in Nat /\ o \in [1 .. n + 1 -> 0 .. RingSize] /\ o[1] = 0 /\ hw = Past(rxOffset, o[n + 1])
       /\ (\A i, j \in 1 .. n + 1 : i < j => o[i] < o[j])
       /\ \A i \in 1 .. n : FrameAt(i, o)
  BY <1>1, <1>3 DEF Offsets, Placed
<1> HIDE DEF n
<1>11. /\ (n + 1) + 1 \in 1 .. (n + 1) + 1 /\ (n + 1) + 1 \notin 1 .. n + 1
       /\ 1 .. n + 1 \subseteq 1 .. (n + 1) + 1 /\ 1 \in 1 .. n + 1 /\ n + 1 \in 1 .. n + 1
       /\ \A i \in 1 .. n : i \in 1 .. n + 1 /\ i + 1 \in 1 .. n + 1
       /\ \A i \in 1 .. n + 1 : i \in 1 .. n \/ i = n + 1
       /\ \A i \in 1 .. (n + 1) + 1 : i \in 1 .. n + 1 \/ i = (n + 1) + 1
       /\ \A i \in 1 .. n + 1 : i \in 1 .. n => i < n + 1
  BY <1>10
<1>12. PICK q \in [1 .. (n + 1) + 1 -> 0 .. RingSize] :
              q[(n + 1) + 1] = o[n + 1] + l /\ \A i \in 1 .. n + 1 : q[i] = o[i]
  <2> DEFINE e == o[n + 1] + l
             m == (n + 1) + 1
             p == [i \in 1 .. m |-> IF i \in 1 .. n + 1 THEN o[i] ELSE e]
  <2>1. e \in 0 .. RingSize /\ m \in 1 .. m /\ m \notin 1 .. n + 1 /\ 1 .. n + 1 \subseteq 1 .. m
    BY <1>8, <1>11 DEF n
  <2>2. \A i \in 1 .. n + 1 : o[i] \in 0 .. RingSize
    BY <1>10
  <2> HIDE DEF e, m
  <2>3. p \in [1 .. m -> 0 .. RingSize]
    BY <2>1, <2>2
  <2>4. p[m] = e /\ \A i \in 1 .. n + 1 : p[i] = o[i]
    BY <2>1
  <2> QED BY <2>3, <2>4 DEF e, m
<1>13. \A i, j \in 1 .. (n + 1) + 1 : i < j => q[i] < q[j]
  <2>1. \A i \in 1 .. n + 1 : o[i] < o[n + 1] + l
    <3> TAKE i \in 1 .. n + 1
    <3>1. o[i] \in 0 .. RingSize /\ o[n + 1] \in 0 .. RingSize
      BY <1>10, <1>11
    <3>2. i = n + 1 \/ o[i] < o[n + 1]
      BY <1>10, <1>11
    <3>3. CASE i = n + 1
      BY <3>1, <3>3, <1>5
    <3>4. CASE o[i] < o[n + 1]
      BY <3>1, <3>4, <1>5
    <3> QED BY <3>2, <3>3, <3>4
  <2> TAKE i, j \in 1 .. (n + 1) + 1
  <2> HAVE i < j
  <2>2. i \in 1 .. n + 1
    BY <1>10
  <2>3. CASE j \in 1 .. n + 1
    BY <2>2, <2>3, <1>10, <1>12
  <2>4. CASE j = (n + 1) + 1
    BY <2>1, <2>2, <2>4, <1>12
  <2> QED BY <2>3, <2>4, <1>11
<1>14. hw \in Unit /\ ring'[hw] = g /\ \A u \in Unit : u # hw => ring'[u] = ring[u]
  BY <1>3, <1>4, <1>10, PastIs
<1>15. \A i \in 1 .. n : Past(rxOffset, o[i]) \in Unit /\ Past(rxOffset, o[i]) # hw
  <2> TAKE i \in 1 .. n
  <2>1. /\ o[i] \in 0 .. RingSize /\ o[n + 1] \in 0 .. RingSize /\ o[i] < o[n + 1]
        /\ o[n + 1] # RingSize
    <3>1. o[n + 1] # RingSize
      BY <1>8, <1>10, <1>11, RingAssumption
    <3> QED BY <3>1, <1>10, <1>11
  <2> QED BY <2>1, <1>3, <1>10, PastIs, PastDiffers
<1>16. \A i \in 1 .. n + 1 : FrameAt(i, q)'
  <2> TAKE i \in 1 .. n + 1
  <2>1. \A f1 : Length(f1)' = Length(f1)
    BY <1>4 DEF Length
  <2>2. rxOffset' = rxOffset /\ Past(rxOffset, q[i])' = Past(rxOffset, q[i])
    BY <1>4 DEF Past
  <2>3. CASE i \in 1 .. n
    <3>1. FrameAt(i, o) /\ owed'[i] = owed[i] /\ q[i] = o[i] /\ q[i + 1] = o[i + 1]
      BY <2>3, <1>9, <1>10, <1>11, <1>12
    <3>2. ring'[owed[i].at] = ring[owed[i].at]
      BY <2>3, <3>1, <1>14, <1>15 DEF FrameAt
    <3> QED BY <3>1, <3>2, <2>1, <2>2 DEF FrameAt
  <2>4. CASE i = n + 1
    <3>1. owed'[i].at = hw /\ owed'[i].frame = g
      BY <2>4, <1>9 DEF x
    <3>2. q[i] = o[n + 1] /\ q[i + 1] = o[n + 1] + l
      BY <2>4, <1>11, <1>12
    <3> QED BY <3>1, <3>2, <2>2, <1>5, <1>6, <1>7, <1>10, <1>14 DEF FrameAt
  <2> QED BY <2>3, <2>4, <1>11
<1>17. Placed(q)'
  <2>1. q[1] = 0
    BY <1>10, <1>11, <1>12
  <2>2. hw' = Past(rxOffset', q[(n + 1) + 1])
    <3>1. l \in 0 .. RingSize /\ o[n + 1] \in 0 .. RingSize /\ o[n + 1] + l <= RingSize
      <4>1. o[n + 1] \in 0 .. RingSize
        BY <1>10, <1>11
      <4> QED BY <4>1, <1>5, <1>8, RingAssumption
    <3>2. Past(Past(rxOffset, o[n + 1]), l) = Past(rxOffset, o[n + 1] + l)
      BY <3>1, <1>3, PastPast
    <3> QED BY <3>2, <1>4, <1>10, <1>12
  <2> QED BY <2>1, <2>2, <1>4, <1>8, <1>9, <1>12, <1>13, <1>16 DEF Placed, Past
<1>18. q \in Offsets'
  BY <1>9, <1>12 DEF Offsets
<1>19. RingType'
  <2>1. stored' \in Nat
    BY <1>3, <1>4
  <2> QED BY <2>1, <1>3, <1>4, <1>9 DEF RingType, Unit
<1>20. owed' # <<>>
  BY <1>9, <1>10, EmptySeq
<1>21. (nicKind # "RTL8139" => \A u \in Unit : ring[u] # NoFrame => OwedAt(u))'
  <2> SUFFICES ASSUME nicKind # "RTL8139", NEW u \in Unit, ring'[u] # NoFrame PROVE OwedAt(u)'
    BY <1>4 DEF Unit
  <2>1. CASE u = hw
    BY <2>1, <1>9, <1>11 DEF OwedAt, x
  <2>2. CASE u # hw
    <3>1. \E i \in 1 .. n : owed[i].at = u
      BY <2>2, <1>14 DEF RingInv, OwedAt, n
    <3> QED BY <3>1, <1>9, <1>11 DEF OwedAt
  <2> QED BY <2>1, <2>2
<1> QED BY <1>3, <1>4, <1>17, <1>18, <1>19, <1>20, <1>21 DEF RingInv, Past
LEMMA RingGivenBack ==
  ASSUME RingInv, GiveBack
  PROVE  RingInv'
<1> DEFINE n == Len(owed)
<1>1. PICK o \in Offsets : Placed(o)
  BY DEF RingInv
<1>2. PICK S : owed \in Seq(S)
  BY DEF RingInv, RingType
<1>3. handling /\ owed # <<>>
  BY DEF GiveBack, RingInv
<1>4. /\ RingType /\ rxOffset \in Unit /\ stored \in Nat /\ DOMAIN ring = Unit
      /\ Len(owed) \in Nat \ {0} /\ owed[1].at = rxOffset
      /\ o[Len(owed) + 1] \in 0 .. RingSize
  BY <1>1, <1>3, OwedIs DEF RingInv, RingType
<1>5. n \in Nat \ {0} /\ o \in [1 .. n + 1 -> 0 .. RingSize] /\ o[1] = 0
      /\ hw = Past(rxOffset, o[n + 1])
      /\ (\A i, j \in 1 .. n + 1 : i < j => o[i] < o[j])
      /\ (\A i \in 1 .. n : FrameAt(i, o))
      /\ (nicKind # "RTL8169" => o[n + 1] < RingSize)
  BY <1>1, <1>4 DEF Offsets, Placed
<1>6. /\ owed' = Tail(owed) /\ UNCHANGED <<nicKind, hw, stored>> /\ ~handling'
      /\ told' = Past(rxOffset, Length(ring[rxOffset]) - 1)
      /\ rxOffset' = Past(rxOffset, Length(ring[rxOffset]))
      /\ ring' = IF nicKind = "RTL8139" THEN ring ELSE [ring EXCEPT ![rxOffset] = NoFrame]
  BY DEF GiveBack, Tell
<1>7. /\ owed' \in Seq(S) /\ Len(owed') = n - 1 /\ \A i \in 1 .. n - 1 : owed'[i] = owed[i + 1]
  BY <1>2, <1>3, <1>6, HeadTailProperties
<1> DEFINE a == o[2]
<1>8. a \in 1 .. RingSize /\ Length(ring[rxOffset]) = a /\ 2 \in 1 .. n + 1
  <2>1. 1 \in 1 .. n /\ 1 \in 1 .. n + 1 /\ 2 \in 1 .. n + 1 /\ 1 + 1 = 2 /\ 1 < 2
    BY <1>5
  <2>2. o[2] = o[1] + Length(owed[1].frame) /\ ring[rxOffset] = owed[1].frame
        /\ Length(owed[1].frame) \in Nat \ {0}
    BY <1>4, <1>5, <2>1 DEF FrameAt
  <2>3. o[2] = Length(owed[1].frame)
    BY <1>5, <2>2
  <2>4. o[2] \in 0 .. RingSize
    BY <1>5, <2>1
  <2>5. o[2] \in 1 .. RingSize
    BY <2>2, <2>3, <2>4, RingAssumption
  <2> QED BY <2>1, <2>2, <2>3, <2>5
<1>9. \A i \in 1 .. n : i + 1 \in 1 .. n + 1 /\ o[i + 1] \in 0 .. RingSize /\ a <= o[i + 1]
                        /\ o[i + 1] - a \in 0 .. RingSize
  <2> TAKE i \in 1 .. n
  <2>1. i + 1 \in 1 .. n + 1 /\ (i + 1 = 2 \/ 2 < i + 1)
    BY <1>5
  <2>2. a \in 1 .. RingSize /\ o[i + 1] \in 0 .. RingSize /\ (i + 1 = 2 => a = o[i + 1])
    BY <1>5, <1>8, <2>1
  <2>3. 2 < i + 1 => a < o[i + 1]
    BY <1>5, <1>8, <2>1
  <2>4. a <= o[i + 1]
    BY <2>1, <2>2, <2>3, RingAssumption
  <2>5. o[i + 1] - a \in 0 .. RingSize
    BY <2>2, <2>4, RingAssumption
  <2> QED BY <2>1, <2>2, <2>4, <2>5
<1> HIDE DEF a, n
<1>10. PICK q \in [1 .. (n - 1) + 1 -> 0 .. RingSize] :
              \A i \in 1 .. (n - 1) + 1 : q[i] = o[i + 1] - a
  <2> DEFINE p == [i \in 1 .. (n - 1) + 1 |-> o[i + 1] - a]
  <2>1. 1 .. (n - 1) + 1 = 1 .. n
    BY <1>5
  <2>2. p \in [1 .. (n - 1) + 1 -> 0 .. RingSize] /\ \A i \in 1 .. (n - 1) + 1 : p[i] = o[i + 1] - a
    BY <1>9, <2>1
  <2> QED BY <2>2
<1>11. /\ (n - 1) + 1 = n /\ 1 \in 1 .. n /\ 1 + 1 = 2 /\ n \in 1 .. n
       /\ \A i \in 1 .. n - 1 : /\ i \in 1 .. n /\ i + 1 \in 1 .. n
                                /\ i + 1 \in 1 .. n + 1 /\ 1 < i + 1
                                /\ 1 \in 1 .. n + 1 /\ i + 1 < n + 1 /\ n + 1 \in 1 .. n + 1
       /\ \A i \in 1 .. n : i = 1 \/ (i - 1 \in 1 .. n - 1 /\ (i - 1) + 1 = i)
  BY <1>5
<1>12. \A i \in 1 .. n : q[i] = o[i + 1] - a
  BY <1>10, <1>11
<1>13. rxOffset' = Past(rxOffset, a) /\ rxOffset' \in Unit
  <2>1. a \in 0 .. RingSize
    BY <1>8, RingAssumption
  <2> QED BY <1>4, <1>6, <1>8, <2>1, PastIs
<1>14. \A i \in 1 .. n : Past(rxOffset', q[i]) = Past(rxOffset, o[i + 1])
  <2> TAKE i \in 1 .. n
  <2>1. /\ a \in 0 .. RingSize /\ o[i + 1] - a \in 0 .. RingSize /\ a + (o[i + 1] - a) <= RingSize
        /\ a + (o[i + 1] - a) = o[i + 1]
    BY <1>8, <1>9, RingAssumption
  <2> DEFINE b == o[i + 1] - a
  <2>2. q[i] = b
    BY <1>12
  <2> HIDE DEF b
  <2>3. Past(Past(rxOffset, a), b) = Past(rxOffset, a + b)
    BY <2>1, <1>4, PastPast DEF b
  <2>4. a + b = o[i + 1]
    BY <2>1 DEF b
  <2> QED BY <2>2, <2>3, <2>4, <1>13
<1>15. told' = Past(rxOffset', RingSize - 1)
  <2>1. told' = Past(rxOffset, a - 1)
    BY <1>6, <1>8
  <2>2. Past(Past(rxOffset, a), RingSize - 1) = Past(rxOffset, a - 1)
    BY <1>4, <1>8, PastLast
  <2> QED BY <2>1, <2>2, <1>13
<1>16. \A u \in Unit : u # rxOffset => ring'[u] = ring[u]
  BY <1>4, <1>6
<1>17. nicKind = "RTL8139" => ring' = ring
  BY <1>6
<1>18. \A i \in 1 .. n - 1 : /\ Past(rxOffset, o[i + 1]) \in Unit
                             /\ Past(rxOffset, o[i + 1]) # rxOffset
  <2> TAKE i \in 1 .. n - 1
  <2>1. /\ o[i + 1] \in 0 .. RingSize /\ o[i + 1] < o[n + 1] /\ o[n + 1] \in 0 .. RingSize
        /\ o[1] < o[i + 1]
    BY <1>5, <1>11
  <2>2. o[i + 1] # RingSize /\ 0 < o[i + 1] /\ 0 \in 0 .. RingSize
    BY <2>1, <1>5, RingAssumption
  <2> QED BY <2>1, <2>2, <1>4, PastIs, PastDiffers, PastZero
<1>19. \A i \in 1 .. n - 1 : FrameAt(i, q)'
  <2> TAKE i \in 1 .. n - 1
  <2>1. \A f1 : Length(f1)' = Length(f1)
    BY <1>6 DEF Length
  <2>2. FrameAt(i + 1, o) /\ owed'[i] = owed[i + 1]
    BY <1>5, <1>7, <1>11
  <2>3. ring'[owed[i + 1].at] = ring[owed[i + 1].at]
    BY <2>2, <1>16, <1>18 DEF FrameAt
  <2>4. owed'[i].at = Past(rxOffset', q[i])
    BY <2>2, <1>11, <1>14 DEF FrameAt
  <2>5. q[i + 1] = q[i] + Length(owed[i + 1].frame)
    <3> DEFINE k == i + 1
               l == Length(owed[k].frame)
    <3>1. o[k + 1] = o[k] + l /\ l \in Nat
      BY <2>2 DEF FrameAt
    <3>2. q[i] = o[k] - a /\ q[k] = o[k + 1] - a /\ o[k] \in 0 .. RingSize /\ a \in 1 .. RingSize
      BY <1>8, <1>9, <1>11, <1>12
    <3> HIDE DEF k, l
    <3>3. q[k] = q[i] + l
      BY <3>1, <3>2, RingAssumption
    <3> QED BY <3>3 DEF k, l
  <2>6. Past(rxOffset, q[i])' = Past(rxOffset', q[i])
    BY DEF Past
  <2> QED BY <2>1, <2>2, <2>3, <2>4, <2>5, <2>6 DEF FrameAt
<1>20. Placed(q)'
  <2>1. q[1] = 0
    <3>1. q[1] = a - a
      BY <1>11, <1>12 DEF a
    <3> QED BY <3>1, <1>8
  <2>2. hw' = Past(rxOffset', q[n])
    BY <1>5, <1>6, <1>11, <1>14
  <2>3. nicKind # "RTL8169" => q[n] < RingSize
    <3>1. q[n] = o[n + 1] - a /\ o[n + 1] \in 0 .. RingSize
      BY <1>9, <1>11, <1>12
    <3>2. o[n + 1] < RingSize => q[n] < RingSize
      BY <3>1, <1>8, RingAssumption
    <3> QED BY <3>2, <1>5
  <2>4. \A i, j \in 1 .. n : i < j => q[i] < q[j]
    <3> TAKE i, j \in 1 .. n
    <3> HAVE i < j
    <3>1. i + 1 < j + 1 /\ i + 1 \in 1 .. n + 1 /\ j + 1 \in 1 .. n + 1
      BY <1>5
    <3>2. o[i + 1] < o[j + 1] /\ o[i + 1] \in 0 .. RingSize /\ o[j + 1] \in 0 .. RingSize
      BY <3>1, <1>5
    <3>3. q[i] = o[i + 1] - a /\ q[j] = o[j + 1] - a
      BY <1>12
    <3> QED BY <3>2, <3>3, <1>8, RingAssumption
  <2>5. Len(owed') + 1 = n /\ Len(owed') = n - 1
    BY <1>7, <1>11
  <2>6. Past(rxOffset, q[n]) ' = Past(rxOffset', q[n]')
    BY DEF Past
  <2> QED BY <2>1, <2>2, <2>3, <2>4, <2>5, <1>6, <1>19 DEF Placed, Past
<1>21. q \in Offsets'
  BY <1>7, <1>10 DEF Offsets
<1>22. RingType'
  BY <1>4, <1>6, <1>7, <1>13 DEF RingType, Unit
<1>23. (nicKind # "RTL8139" => \A u \in Unit : ring[u] # NoFrame => OwedAt(u))'
  <2> SUFFICES ASSUME nicKind # "RTL8139", NEW u \in Unit, ring'[u] # NoFrame PROVE OwedAt(u)'
    BY <1>6 DEF Unit
  <2>1. u # rxOffset /\ ring'[u] = ring[u]
    BY <1>4, <1>6
  <2>2. PICK i \in 1 .. n : owed[i].at = u
    BY <2>1 DEF RingInv, OwedAt, n
  <2>3. i - 1 \in 1 .. n - 1 /\ (i - 1) + 1 = i
    BY <2>1, <2>2, <1>4, <1>11
  <2>4. owed'[i - 1].at = u
    BY <2>2, <2>3, <1>7
  <2> QED BY <2>3, <2>4, <1>7 DEF OwedAt
<1> QED BY <1>6, <1>15, <1>20, <1>21, <1>22, <1>23 DEF RingInv, Past
LEMMA RingStep == RingInv /\ [Next]_vars => RingInv'
<1> SUFFICES ASSUME RingInv, [Next]_vars PROVE RingInv'
  OBVIOUS
<1>1. CASE UNCHANGED ringVars
  BY <1>1, RingKept
<1>2. CASE Arrives
  <2>1. ASSUME NEW h, NEW m, Store([Frame("arp", 1) EXCEPT !.host = h, !.mac = m])
        PROVE  RingInv'
    <3> DEFINE f == [Frame("arp", 1) EXCEPT !.host = h, !.mac = m]
    <3>1. f.size = 1 /\ \A x : [f EXCEPT !.no = x].no = x /\ [f EXCEPT !.no = x].size = f.size
      BY DEF Frame, NoFrame
    <3> HIDE DEF f
    <3>2. f.size \in Nat \ {0}
      BY <3>1
    <3>3. Store(f)
      BY <2>1 DEF f
    <3> QED BY <3>1, <3>2, <3>3, RingStored
  <2>2. ASSUME NEW k, NEW i, NEW s \in Nat \ {0}, Store([Frame(k, s) EXCEPT !.id = i])
        PROVE  RingInv'
    <3> DEFINE f == [Frame(k, s) EXCEPT !.id = i]
    <3>1. f.size = s /\ \A x : [f EXCEPT !.no = x].no = x /\ [f EXCEPT !.no = x].size = f.size
      BY DEF Frame, NoFrame
    <3> HIDE DEF f
    <3>2. Store(f)
      BY <2>2 DEF f
    <3> QED BY <3>1, <3>2, RingStored
  <2>3. ASSUME NEW i, NEW r, Store([Frame("ack", 2) EXCEPT !.id = i, !.host = r])
        PROVE  RingInv'
    <3> DEFINE f == [Frame("ack", 2) EXCEPT !.id = i, !.host = r]
    <3>1. f.size = 2 /\ \A x : [f EXCEPT !.no = x].no = x /\ [f EXCEPT !.no = x].size = f.size
      BY DEF Frame, NoFrame
    <3> HIDE DEF f
    <3>2. f.size \in Nat \ {0}
      BY <3>1
    <3>3. Store(f)
      BY <2>3 DEF f
    <3> QED BY <3>1, <3>2, <3>3, RingStored
  <2>4. 1 \in Nat \ {0} /\ 2 \in Nat \ {0}
    OBVIOUS
  <2> QED BY <1>2, <2>1, <2>2, <2>3, <2>4 DEF Arrives
<1>3. CASE Poll
  BY <1>3, RingTaken, RingGivenBack DEF Poll
<1> QED BY <1>1, <1>2, <1>3 DEF Next, Call, Resolved, Waited, Send, StartDhcp,
           ConfigureStatic, Configures, Command, vars

\* The frames poll finds are those the NIC has stored, each of them once, in order,
\* and none is overwritten before it is done with, whenever the NIC stores the next
\* one and however full the ring is (network.cpp:788, :795, :811).
THEOREM FramesStayInOrder == Spec => []FramesInOrder
<1>1. Init => RingInv
  BY RingStart DEF Init
<1> QED BY <1>1, RingStep, InOrder, PTL DEF Spec
================================================================================
