-------------------------------- MODULE NicRing --------------------------------
(***************************************************************************)
(* The receive ring and the ARP cache of src/libc/network.cpp.  Probes     *)
(* makes the calls and says what a frame does.                             *)
(*                                                                         *)
(* The NIC is external: it stores a frame behind the last one wherever the *)
(* registers tell it there is room, at any moment, and drops it otherwise. *)
(* An E1000 and an RTL8169 have a ring of descriptors, an RTL8139 a buffer *)
(* in which a frame takes as much as it is long; ring is the descriptors   *)
(* or the buffer in units of a short frame.                                *)
(***************************************************************************)
EXTENDS Naturals, Sequences, FiniteSets

CONSTANTS Kinds,       \* the NICs: "E1000", "RTL8169", "RTL8139"
          RingSize,
          Hosts, Macs, \* on the link
          None,
          CacheSize,   \* ARP_CACHE_SIZE
          MaxFrames    \* bound: frames stored

ASSUME RingAssumption == RingSize \in Nat \ {0} /\ CacheSize \in Nat \ {0}
ASSUME HostAssumption == IsFiniteSet(Hosts) /\ None \notin Hosts \cup Macs

VARIABLES
  nicKind, ring, rxOffset,
  hw,          \* where the NIC stores the next frame
  told,        \* what the NIC has been told: the last unit that is free again
  owed,        \* frames stored and not done with, and where they are
  handling,    \* poll has handled the frame at rxOffset and not given it back
  stored,      \* frames stored so far
  arp, arpNext,
  heard,       \* the last address heard of each host since the cache was cleared
  since        \* the hosts heard since each host got its entry

ringVars == <<nicKind, ring, rxOffset, hw, told, owed, handling, stored>>
arpVars == <<arp, arpNext, heard, since>>

Unit == 0 .. RingSize - 1
Slots == 0 .. CacheSize - 1
NoFrame == [kind |-> "none", no |-> 0, size |-> 1, host |-> None, mac |-> None, id |-> 0]
NoEntry == [ip |-> None, mac |-> None]

RingInit ==
  /\ nicKind \in Kinds /\ ring = [u \in Unit |-> NoFrame]
  /\ rxOffset = 0 /\ hw = 0 /\ told = RingSize - 1
  /\ owed = <<>> /\ handling = FALSE /\ stored = 0

\* clearArpCache
Cleared ==
  /\ arp' = [s \in Slots |-> NoEntry] /\ arpNext' = 0
  /\ heard' = [h \in Hosts |-> None] /\ since' = [h \in Hosts |-> {}]
ArpInit ==
  /\ arp = [s \in Slots |-> NoEntry] /\ arpNext = 0
  /\ heard = [h \in Hosts |-> None] /\ since = [h \in Hosts |-> {}]

-------------------------------------------------------------------------------
(* The receive ring *)

Past(u, n) == (u + n) % RingSize
Length(f) == IF nicKind = "RTL8139" THEN f.size ELSE 1

\* May the NIC store a frame of n units?  The RTL8169 looks at the descriptor, the
\* others at how far they are from the unit they were told.
Room(n) == IF nicKind = "RTL8169" THEN ring[hw] = NoFrame
           ELSE (told + RingSize - hw) % RingSize >= n

Store(f) ==
  /\ stored < MaxFrames /\ Room(Length(f)) /\ stored' = stored + 1
  /\ LET g == [f EXCEPT !.no = stored + 1]
     IN ring' = [ring EXCEPT ![hw] = g] /\ owed' = Append(owed, [at |-> hw, frame |-> g])
  /\ hw' = Past(hw, Length(f))
  /\ UNCHANGED <<nicKind, rxOffset, told, handling>>

\* DD is set, OWN is clear, the buffer is not empty.
Ready == IF nicKind = "RTL8139" THEN hw # rxOffset ELSE ring[rxOffset] # NoFrame

\* A mutant: the unit behind the frame is given back, too.
OneTooFar(f) == Past(rxOffset, Length(f))

\* The unit the NIC is told behind frame f: RDT is the descriptor, CAPR the offset
\* behind the frame.
Tell(f) == Past(rxOffset, Length(f) - 1)

\* pollE1000, pollRtl8169, pollRtl8139: the frame is handled first, and then given
\* back.  A poll takes up to a ring of frames.
Take == Ready /\ ~handling /\ handling' = TRUE
        /\ UNCHANGED <<nicKind, ring, rxOffset, hw, told, owed, stored>>
GiveBack ==
  /\ handling /\ handling' = FALSE
  /\ LET f == ring[rxOffset]
     IN /\ told' = Tell(f) /\ rxOffset' = Past(rxOffset, Length(f))
        /\ ring' = IF nicKind = "RTL8139" THEN ring ELSE [ring EXCEPT ![rxOffset] = NoFrame]
  /\ owed' = Tail(owed)
  /\ UNCHANGED <<nicKind, hw, stored>>

-------------------------------------------------------------------------------
(* The ARP cache *)

\* lookupArp
Known(ip) == \E s \in Slots : arp[s].ip = ip

\* A mutant: a host that is known gets another entry.
NoSlot(ip) == {}

\* The entry of ip, if it has one
SlotOf(ip) == {s \in Slots : arp[s].ip = ip}

\* rememberArp: in place, or in the next slot in turn
RememberArp(ip, mac) ==
  /\ IF SlotOf(ip) # {}
     THEN arp' = [s \in Slots |-> IF s \in SlotOf(ip) THEN [ip |-> ip, mac |-> mac] ELSE arp[s]]
          /\ UNCHANGED arpNext
     ELSE arp' = [arp EXCEPT ![arpNext] = [ip |-> ip, mac |-> mac]]
          /\ arpNext' = (arpNext + 1) % CacheSize
  /\ heard' = [heard EXCEPT ![ip] = mac]
  /\ since' = [h \in Hosts |-> IF h # ip THEN since[h] \cup {ip}
                               ELSE IF SlotOf(ip) = {} THEN {} ELSE since[h]]

-------------------------------------------------------------------------------
\* The frames poll finds are those the NIC has stored, each of them, in order, and
\* none is overwritten before it is done with, whenever the NIC stores the next
\* one; and poll finds none where there is none (network.cpp:788, :795, :811).
FramesInOrder ==
  /\ ~handling => (Ready <=> owed # <<>>)
  /\ owed # <<>> => owed[1].at = rxOffset
  /\ \A i \in DOMAIN owed : ring[owed[i].at] = owed[i].frame
  /\ \A i \in 2 .. Len(owed) : owed[i].at = Past(owed[i - 1].at, Length(owed[i - 1].frame))

\* Has ip's entry been pushed out, or was there none?
Forgotten(ip) == heard[ip] = None \/ Cardinality(since[ip]) >= CacheSize

\* The cache has the last address heard of a host, and no other one; a host is
\* forgotten only when as many others as there are entries were heard since it got
\* its own (network.cpp:702).
ArpCoherent ==
  /\ \A s \in Slots : arp[s].ip # None => arp[s].mac = heard[arp[s].ip]
  /\ \A h \in Hosts : Cardinality({s \in Slots : arp[s].ip = h}) <= 1
  /\ \A h \in Hosts : ~Forgotten(h) => Known(h)
===============================================================================
