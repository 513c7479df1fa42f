------------------------------- MODULE TorProofs -------------------------------
(***************************************************************************)
(* Proofs about TorCommands, for every set of relays and any number of     *)
(* cells: the guard, the middle and the exit are three different relays,   *)
(* but for one that is listed with different flags;                        *)
(* the circuit is what the client takes it for, step by step of every      *)
(* command, and gone at the prompt; and the SOCKS5 client reads each reply *)
(* of the proxy at its place, whatever their lengths.                      *)
(*                                                                         *)
(* CircuitInv is the invariant behind the second part.  It ties the step   *)
(* the command is at to the call in progress, the client's hops to the     *)
(* relays' side of them, and each counter of a hop to its other end by the *)
(* cells on their way in between (Chain).                                  *)
(*                                                                         *)
(* SocksInv is the one behind the third.  It says of all the bytes of the  *)
(* proxy, arrived or coming, where in them the dialogue is (Dialogue).     *)
(***************************************************************************)
EXTENDS TorCommands, SequenceTheorems, TLAPS

\* Two roles are two relays, but for those in m.
Apart(g, mid, e, m) == /\ g \notin m \cup {None} => g # mid /\ g # e
                       /\ mid \notin m \cup {None} => mid # e

\* A relay in a role has been listed, and if always with the same flags, with those
\* of the role.  A Guard became the exit behind the guard only.
GuardFits == summary.guard # None =>
  /\ listed[summary.guard] # {}
  /\ listed[summary.guard] # Flags => \A f \in listed[summary.guard] : f[1]
MiddleFits == summary.middle # None =>
  /\ listed[summary.middle] # {}
  /\ listed[summary.middle] # Flags => \A f \in listed[summary.middle] : ~f[1] /\ ~f[2]
ExitFits == summary.exit # None =>
  /\ listed[summary.exit] # {}
  /\ listed[summary.exit] # Flags =>
       \A f \in listed[summary.exit] : f[2] /\ (f[1] => summary.guard \notin {None, summary.exit})
SummaryInv ==
  /\ summary \in [guard : Relays \cup {None}, middle : Relays \cup {None}, exit : Relays \cup {None}]
  /\ listed \in [Relays -> SUBSET Flags]
  /\ GuardFits /\ MiddleFits /\ ExitFits

RolesInv == RolesDiffer /\ SummaryInv

LEMMA NothingChosen ==
  ASSUME summary = NoRoles, listed = NotListed
  PROVE  SummaryInv
  BY DEF NoRoles, NotListed, SummaryInv, GuardFits, MiddleFits, ExitFits

\* What a relay with flags g and e is given
LEMMA ChosenFor ==
  ASSUME SummaryInv, NEW r \in Relays, NEW g \in BOOLEAN, NEW e \in BOOLEAN
  PROVE  LET s == summary
             t == Choose(summary, r, g, e)
         IN /\ t \in [guard : Relays \cup {None}, middle : Relays \cup {None},
                       exit : Relays \cup {None}]
            /\ t.guard = s.guard \/ (t.guard = r /\ s.guard = None /\ g)
            /\ t.middle = s.middle \/ (t.middle = r /\ ~g /\ ~e)
            /\ t.exit = s.exit \/ (t.exit = r /\ e /\ r # t.guard /\ (g => t.guard # None))
<1> DEFINE s == summary
           a == IF g /\ s.guard = None THEN [s EXCEPT !.guard = r] ELSE s
           b == IF ~g /\ ~e /\ a.middle = None /\ r # a.guard THEN [a EXCEPT !.middle = r] ELSE a
           t == IF e /\ b.exit = None /\ OtherExit(r, b) THEN [b EXCEPT !.exit = r] ELSE b
           Form == [guard : Relays \cup {None}, middle : Relays \cup {None}, exit : Relays \cup {None}]
<1>1. s \in Form
  BY DEF SummaryInv
<1>2. /\ a \in Form /\ a.middle = s.middle /\ a.exit = s.exit
      /\ a.guard = s.guard \/ (a.guard = r /\ s.guard = None /\ g)
      /\ g => a.guard # None
  BY <1>1, RelayAssumption
<1>3. /\ b \in Form /\ b.guard = a.guard /\ b.exit = a.exit
      /\ b.middle = a.middle \/ (b.middle = r /\ ~g /\ ~e)
  <2> HIDE DEF a
  <2> QED BY <1>2
<1>4. /\ t \in Form /\ t.guard = b.guard /\ t.middle = b.middle
      /\ t.exit = b.exit \/ (t.exit = r /\ e /\ r # b.guard)
  <2> HIDE DEF b
  <2> QED BY <1>3 DEF OtherExit
<1>5. t = Choose(summary, r, g, e)
  BY DEF Choose
<1> HIDE DEF a, b, t, s
<1> QED BY <1>2, <1>3, <1>4, <1>5 DEF s

\* What the roles say of the flags holds behind one more listing.
LEMMA Listed ==
  ASSUME SummaryInv, NEW r \in Relays, NEW g \in BOOLEAN, NEW e \in BOOLEAN,
         listed' = [listed EXCEPT ![r] = IF @ \subseteq {<<g, e>>} THEN {<<g, e>>} ELSE Flags],
         summary' = Choose(summary, r, g, e)
  PROVE  SummaryInv'
<1> DEFINE f == <<g, e>>
<1>1. /\ f \in Flags /\ f[1] = g /\ f[2] = e /\ Flags # {}
  BY DEF Flags
<1>2. /\ listed' \in [Relays -> SUBSET Flags]
      /\ \A x \in Relays : x # r => listed'[x] = listed[x]
      /\ listed'[r] # {} /\ (listed'[r] # Flags => listed'[r] = {f} /\ listed[r] \subseteq {f})
  <2>1. listed \in [Relays -> SUBSET Flags] /\ {f} \subseteq Flags
    BY <1>1 DEF SummaryInv
  <2> HIDE DEF f
  <2>2. listed' = [listed EXCEPT ![r] = IF @ \subseteq {f} THEN {f} ELSE Flags]
    BY DEF f
  <2> QED BY <1>1, <2>1, <2>2
<1>3. \A x \in Relays : listed'[x] # Flags /\ listed[x] # {} => listed'[x] = listed[x]
  <2>1. listed'[r] # Flags /\ listed[r] # {} => listed'[r] = listed[r]
    BY <1>2
  <2> QED BY <1>2, <2>1
<1>4. \A x \in Relays : listed[x] # {} => listed'[x] # {}
  BY <1>2
<1> DEFINE s == summary
           t == summary'
<1>5. /\ t \in [guard : Relays \cup {None}, middle : Relays \cup {None}, exit : Relays \cup {None}]
      /\ t.guard = s.guard \/ (t.guard = r /\ s.guard = None /\ g)
      /\ t.middle = s.middle \/ (t.middle = r /\ ~g /\ ~e)
      /\ t.exit = s.exit \/ (t.exit = r /\ e /\ r # t.guard /\ (g => t.guard # None))
  BY ChosenFor
<1>6. /\ GuardFits /\ MiddleFits /\ ExitFits
      /\ s \in [guard : Relays \cup {None}, middle : Relays \cup {None}, exit : Relays \cup {None}]
  BY DEF SummaryInv
<1> HIDE DEF f
<1>7. GuardFits'
  <2> SUFFICES ASSUME t.guard # None
               PROVE  /\ listed'[t.guard] # {}
                      /\ listed'[t.guard] # Flags => \A x \in listed'[t.guard] : x[1]
    BY DEF GuardFits
  <2>1. CASE t.guard = s.guard
    BY <1>3, <1>4, <1>6, <2>1 DEF GuardFits
  <2>2. CASE t.guard = r /\ g
    BY <1>1, <1>2, <2>2
  <2> QED BY <1>5, <2>1, <2>2
<1>8. MiddleFits'
  <2> SUFFICES ASSUME t.middle # None
               PROVE  /\ listed'[t.middle] # {}
                      /\ listed'[t.middle] # Flags => \A x \in listed'[t.middle] : ~x[1] /\ ~x[2]
    BY DEF MiddleFits
  <2>1. CASE t.middle = s.middle
    BY <1>3, <1>4, <1>6, <2>1 DEF MiddleFits
  <2>2. CASE t.middle = r /\ ~g /\ ~e
    BY <1>1, <1>2, <2>2
  <2> QED BY <1>5, <2>1, <2>2
<1>9. ExitFits'
  <2> SUFFICES ASSUME t.exit # None
               PROVE  /\ listed'[t.exit] # {}
                      /\ listed'[t.exit] # Flags =>
                           \A x \in listed'[t.exit] : x[2] /\ (x[1] => t.guard \notin {None, t.exit})
    BY DEF ExitFits
  <2>1. CASE t.exit = s.exit
    <3>1. s.guard # None => t.guard = s.guard
      BY <1>5
    <3> QED BY <1>3, <1>4, <1>6, <2>1, <3>1 DEF ExitFits
  <2>2. CASE t.exit = r /\ e /\ r # t.guard /\ (g => t.guard # None)
    BY <1>1, <1>2, <2>2
  <2> QED BY <1>5, <2>1, <2>2
<1> QED BY <1>2, <1>5, <1>7, <1>8, <1>9 DEF SummaryInv

\* A relay always listed with the same flags has one role.
LEMMA OneRole ==
  ASSUME SummaryInv
  PROVE  Apart(summary.guard, summary.middle, summary.exit,
               {r \in Relays : listed[r] = Flags /\ Twice(summary, r)})
<1>1. /\ summary.guard \in Relays \cup {None} /\ summary.middle \in Relays \cup {None}
      /\ GuardFits /\ MiddleFits /\ ExitFits
  BY DEF SummaryInv
<1>2. ASSUME summary.guard # None, listed[summary.guard] # Flags
      PROVE  summary.guard # summary.middle /\ summary.guard # summary.exit
  <2>1. PICK f \in listed[summary.guard] : f[1]
    BY <1>1, <1>2 DEF GuardFits
  <2> QED BY <1>1, <1>2, <2>1 DEF MiddleFits, ExitFits
<1>3. ASSUME summary.middle # None, listed[summary.middle] # Flags
      PROVE  summary.middle # summary.exit
  <2>1. PICK f \in listed[summary.middle] : ~f[2]
    BY <1>1, <1>3 DEF MiddleFits
  <2> QED BY <1>1, <1>3, <2>1 DEF ExitFits
<1> QED BY <1>1, <1>2, <1>3 DEF Apart, Twice

\* The steps that touch neither the roles nor the choice.
LEMMA Kept ==
  ASSUME RolesInv, UNCHANGED <<selVars, parseVars>>
  PROVE  RolesInv'
  BY DEF RolesInv, RolesDiffer, SummaryInv, GuardFits, MiddleFits, ExitFits, selVars, parseVars

LEMMA RolesStep ==
  ASSUME RolesInv, [Next]_vars
  PROVE  RolesInv'
<1>1. CASE UNCHANGED vars
  BY <1>1, Kept DEF vars, cmdVars
<1>2. CASE \E c \in Commands : Start(c)
  BY <1>2, Kept DEF Start
<1>3. CASE RelaysStep /\ UNCHANGED <<socksVars, cmdVars>>
  BY <1>3, Kept DEF cmdVars
<1>4. CASE Client
  <2>1. CASE ConsensusFails \/ Consensus
    <3>1. CASE ConsensusFails
      BY <3>1, Kept DEF ConsensusFails
    <3>2. CASE Consensus
      <4>1. SummaryInv'
        <5>1. summary' = NoRoles /\ listed' = NotListed
          BY <3>2 DEF Consensus
        <5> QED BY <5>1, NothingChosen DEF NoRoles, NotListed, SummaryInv, GuardFits, MiddleFits,
                                           ExitFits
      <4> QED BY <4>1, <3>2 DEF Consensus, RolesInv, RolesDiffer, selVars
    <3> QED BY <2>1, <3>1, <3>2
  <2>2. CASE NoConsensus
    <3>1. SummaryInv'
      BY <2>2 DEF NoConsensus, parseVars, RolesInv, SummaryInv, GuardFits, MiddleFits, ExitFits
    <3>2. RolesDiffer'
      BY <2>2 DEF NoConsensus, parseVars, RolesInv, RolesDiffer
    <3> QED BY <3>1, <3>2 DEF RolesInv
  <2>3. CASE Parsed
    <3>1. SummaryInv'
      <4>1. summary' = NoRoles /\ listed' = NotListed
        BY <2>3 DEF Parsed
      <4> QED BY <4>1 DEF NoRoles, NotListed, SummaryInv, GuardFits, MiddleFits, ExitFits
    <3>2. RolesDiffer'
      BY <2>3, OneRole DEF Parsed, RolesInv, RolesDiffer, Apart
    <3> QED BY <3>1, <3>2 DEF RolesInv
  <2>4. ASSUME NEW r \in Relays, NEW g \in BOOLEAN, NEW e \in BOOLEAN, ParseRelay(r, g, e)
        PROVE  RolesInv'
    <3>1. RolesDiffer'
      BY <2>4 DEF ParseRelay, selVars, RolesInv, RolesDiffer
    <3>2. SummaryInv'
      BY <2>4, Listed DEF ParseRelay, RolesInv
    <3> QED BY <3>1, <3>2 DEF RolesInv
  <2>5. CASE Blocked \/ Select \/ Succeeds \/ Fails \/ Close \/ Refuse \/ Socks
    BY <2>5, Kept DEF Blocked, Select, Succeeds, Fails, Close, Refuse, Socks
  <2>6. CASE Call \/ Step
    BY <2>6, Kept DEF Call, Step, cmdVars
  <2> QED BY <1>4, <2>1, <2>2, <2>3, <2>4, <2>5, <2>6 DEF Client
<1> QED BY <1>1, <1>2, <1>3, <1>4 DEF Next

\* Guard, middle and exit are different relays, for every set of relays, every list
\* of them with repetitions and every sequence of commands, but for a relay listed
\* with different flags in the one list (terminal.cpp:312, :326, :2704).
THEOREM RolesAlwaysDiffer == Spec => []RolesDiffer
<1>1. Init => RolesInv
  BY NothingChosen DEF Init, RolesInv, RolesDiffer
<1>2. RolesInv /\ [Next]_vars => RolesInv'
  BY RolesStep
<1>3. RolesInv => RolesDiffer
  BY DEF RolesInv
<1> QED BY <1>1, <1>2, <1>3, PTL DEF Spec

-------------------------------------------------------------------------------
(* The steps of a command *)

-------------------------------------------------------------------------------
(* Sequences, whatever they hold *)

ASeq(s) == \E S : s \in Seq(S)

LEMMA SeqIs ==
  ASSUME NEW s, ASeq(s)
  PROVE  /\ Len(s) \in Nat /\ DOMAIN s = 1 .. Len(s) /\ s = [i \in 1 .. Len(s) |-> s[i]]
         /\ s = <<>> <=> Len(s) = 0
         /\ s # <<>> => 1 \in 1 .. Len(s) /\ Head(s) = s[1]
<1>1. PICK S : s \in Seq(S)
  BY DEF ASeq
<1>2. Len(s) \in Nat /\ DOMAIN s = 1 .. Len(s) /\ (s = <<>> <=> Len(s) = 0)
      /\ s \in [1 .. Len(s) -> S]
  BY <1>1, LenProperties, EmptySeq
<1>3. s # <<>> => Head(s) = s[1]
  BY <1>1, HeadTailProperties
<1> QED BY <1>2, <1>3

LEMMA SeqPlus ==
  ASSUME NEW s, ASeq(s), NEW x
  PROVE  /\ ASeq(Append(s, x)) /\ Len(Append(s, x)) = Len(s) + 1
         /\ Append(s, x)[Len(s) + 1] = x
         /\ \A i \in 1 .. Len(s) : Append(s, x)[i] = s[i]
<1>1. PICK S : s \in Seq(S)
  BY DEF ASeq
<1>2. s \in Seq(S \cup {x}) /\ x \in S \cup {x}
  BY <1>1, SeqMonotonic
<1>3. Append(s, x) \in Seq(S \cup {x})
  BY <1>2, AppendProperties
<1> QED BY <1>2, <1>3, AppendProperties DEF ASeq

LEMMA SeqLess ==
  ASSUME NEW s, ASeq(s), s # <<>>
  PROVE  /\ ASeq(Tail(s)) /\ Len(Tail(s)) = Len(s) - 1
         /\ \A i \in 1 .. Len(s) - 1 : Tail(s)[i] = s[i + 1]
<1>1. PICK S : s \in Seq(S)
  BY DEF ASeq
<1>2. Tail(s) \in Seq(S)
  BY <1>1, HeadTailProperties
<1> QED BY <1>1, <1>2, HeadTailProperties DEF ASeq

LEMMA SameInterval ==
  ASSUME NEW n \in Nat, NEW l \in Nat, 1 .. l = 1 .. n
  PROVE  l = n
<1>1. (l # 0 => l \in 1 .. l) /\ (n # 0 => n \in 1 .. n)
  OBVIOUS
<1>2. (l # 0 => l <= n) /\ (n # 0 => n <= l)
  BY <1>1
<1> QED BY <1>2

LEMMA SeqFun ==
  ASSUME NEW n \in Nat, NEW s, s = [i \in 1 .. n |-> s[i]]
  PROVE  ASeq(s) /\ Len(s) = n
<1> DEFINE S == {s[i] : i \in 1 .. n}
<1>1. s \in [1 .. n -> S]
  OBVIOUS
<1>2. s \in Seq(S)
  BY <1>1, SeqDef
<1>3. DOMAIN s = 1 .. n
  BY <1>1
<1>4. 1 .. Len(s) = 1 .. n /\ Len(s) \in Nat
  BY <1>2, <1>3, LenProperties
<1>5. Len(s) = n
  BY <1>4, SameInterval
<1> QED BY <1>2, <1>5 DEF ASeq

-------------------------------------------------------------------------------
(* What is left of a command *)

\* The step behind s in a command c
Moves(c, s, t) ==
  \/ s \in {"consensus", "parse"} /\ t \in {"select", "chat", "prompt"}
  \/ s = "select" /\ t \in {"fetch", "tls"}
  \/ s = "fetch" /\ t \in (IF c = "anon" THEN {"middle", "exit", "guard"} ELSE {"tls", "prompt"})
  \/ s \in {"middle", "exit"} /\ t = "fetch" /\ c = "anon"
  \/ s = "guard" /\ t = "tls"
  \/ s = "manual" /\ t = "tls" /\ c = "connect"
  \/ s \in {"socks", "chat"} /\ t = "prompt"
  \/ s = "tls" /\ t \in {"link", "close"}
  \/ s = "link" /\ t \in {"create", "close"}
  \/ s = "create" /\ t \in (IF c = "anon" THEN {"extendMiddle"} ELSE {"dir", "close"})
  \/ s = "extendMiddle" /\ t = "extendExit" /\ c = "anon"
  \/ s = "extendExit" /\ t = "tcp" /\ c = "anon"
  \/ s \in {"dir", "tcp"} /\ t = "close"
  \/ s = "close" /\ t = "prompt"

\* Steps t of command c, and then the step next
Runs(c, t, next) ==
  /\ ASeq(t) /\ t # <<>>
  /\ \A i \in 1 .. Len(t) : Moves(c, t[i], IF i = Len(t) THEN next ELSE t[i + 1])

LEMMA RunsOne ==
  ASSUME NEW c, NEW s, NEW next, Moves(c, s, next)
  PROVE  Runs(c, <<s>>, next) /\ <<s>>[1] = s
<1>1. <<s>> \in Seq({s}) /\ <<s>> # <<>> /\ Len(<<s>>) = 1
  OBVIOUS
<1>2. ASeq(<<s>>)
  BY <1>1 DEF ASeq
<1>3. \A i \in 1 .. 1 : i = 1
  OBVIOUS
<1> QED BY <1>1, <1>2, <1>3 DEF Runs

LEMMA RunsJoin ==
  ASSUME NEW c, NEW s, NEW t, NEW next, Runs(c, s, t[1]), Runs(c, t, next)
  PROVE  Runs(c, s \o t, next) /\ (s \o t)[1] = s[1]
<1> DEFINE u == s \o t
<1>1. PICK S : s \in Seq(S)
  BY DEF Runs, ASeq
<1>2. PICK T : t \in Seq(T)
  BY DEF Runs, ASeq
<1>3. s \in Seq(S \cup T) /\ t \in Seq(S \cup T)
  BY <1>1, <1>2, SeqMonotonic
<1>4. /\ u \in Seq(S \cup T) /\ Len(u) = Len(s) + Len(t)
      /\ \A i \in 1 .. Len(s) + Len(t) : u[i] = IF i <= Len(s) THEN s[i] ELSE t[i - Len(s)]
  BY <1>3, ConcatProperties
<1>5. Len(s) \in Nat \ {0} /\ Len(t) \in Nat \ {0}
  BY SeqIs DEF Runs
<1> HIDE DEF u
<1>6. u[1] = s[1]
  BY <1>4, <1>5
<1>7. ASSUME NEW i \in 1 .. Len(u)
      PROVE  Moves(c, u[i], IF i = Len(u) THEN next ELSE u[i + 1])
  <2>1. CASE i < Len(s)
    <3>1. i \in 1 .. Len(s) /\ i # Len(s) /\ i # Len(u) /\ u[i] = s[i] /\ u[i + 1] = s[i + 1]
      BY <1>4, <1>5, <2>1
    <3> QED BY <3>1 DEF Runs
  <2>2. CASE i = Len(s)
    <3>1. i \in 1 .. Len(s) /\ i # Len(u) /\ u[i] = s[i] /\ u[i + 1] = t[1]
      BY <1>4, <1>5, <2>2
    <3> QED BY <2>2, <3>1 DEF Runs
  <2>3. CASE i > Len(s)
    <3>1. PICK k \in 1 .. Len(t) : i = Len(s) + k /\ k = i - Len(s)
      BY <1>4, <1>5, <2>3
    <3>2. u[i] = t[k]
      BY <3>1, <1>4, <1>5
    <3>3. i = Len(u) <=> k = Len(t)
      BY <3>1, <1>4, <1>5
    <3>4. k # Len(t) => u[i + 1] = t[k + 1]
      <4>1. k # Len(t) => i + 1 \in 1 .. Len(s) + Len(t) /\ ~(i + 1 <= Len(s))
                          /\ (i + 1) - Len(s) = k + 1
        BY <3>1, <1>5
      <4> QED BY <4>1, <1>4
    <3>5. Moves(c, t[k], IF k = Len(t) THEN next ELSE t[k + 1])
      BY DEF Runs
    <3> QED BY <3>2, <3>3, <3>4, <3>5
  <2> QED BY <2>1, <2>2, <2>3, <1>4, <1>5
<1>8. ASeq(u) /\ u # <<>>
  <2>1. Len(u) # 0
    BY <1>4, <1>5
  <2> QED BY <2>1, <1>4, SeqIs DEF ASeq
<1> QED BY <1>6, <1>7, <1>8 DEF Runs, u

\* The list of a command that runs, and none at the prompt
TodoOK(c, t) ==
  /\ ASeq(t) /\ (c = "none" <=> t = <<>>)
  /\ t # <<>> => Runs(c, t, "prompt")

LEMMA BuildRuns ==
  ASSUME NEW c, NEW t, t \in (IF c = "anon" THEN {"extendMiddle"} ELSE {"dir", "close"})
  PROVE  Runs(c, Build, t) /\ Build[1] = "tls"
<1> DEFINE b == Build
<1>1. b = <<"tls", "link", "create">>
  BY DEF Build
<1>2. b \in Seq({"tls", "link", "create"}) /\ b # <<>> /\ Len(b) = 3 /\ b[1] = "tls"
      /\ b[2] = "link" /\ b[3] = "create"
  BY <1>1
<1> HIDE DEF b
<1>3. ASeq(b)
  BY <1>2 DEF ASeq
<1>4. Moves(c, "tls", "link") /\ Moves(c, "link", "create") /\ Moves(c, "create", t)
  BY DEF Moves
<1>5. \A i \in 1 .. 3 : i = 1 \/ i = 2 \/ i = 3
  OBVIOUS
<1>6. 1 # 3 /\ 2 # 3 /\ 1 + 1 = 2 /\ 2 + 1 = 3
  OBVIOUS
<1>7. \A i \in 1 .. Len(b) : Moves(c, b[i], IF i = Len(b) THEN t ELSE b[i + 1])
  BY <1>2, <1>4, <1>5, <1>6
<1> QED BY <1>2, <1>3, <1>7 DEF Runs, b

LEMMA RunsTwo ==
  ASSUME NEW c, NEW a, NEW b, NEW next, Moves(c, a, b), Moves(c, b, next)
  PROVE  Runs(c, <<a, b>>, next) /\ <<a, b>>[1] = a
<1> DEFINE t == <<a, b>>
<1>1. t \in Seq({a, b}) /\ t # <<>> /\ Len(t) = 2 /\ t[1] = a /\ t[2] = b
  OBVIOUS
<1> HIDE DEF t
<1>2. (\A i \in 1 .. 2 : i = 1 \/ i = 2) /\ 1 # 2 /\ 1 + 1 = 2
  OBVIOUS
<1>3. ASeq(t)
  BY <1>1 DEF ASeq
<1>4. \A i \in 1 .. Len(t) : Moves(c, t[i], IF i = Len(t) THEN next ELSE t[i + 1])
  BY <1>1, <1>2
<1>5. Runs(c, t, next) /\ t[1] = a
  BY <1>1, <1>3, <1>4 DEF Runs
<1> QED BY <1>5 DEF t

LEMMA RunsFour ==
  ASSUME NEW c, NEW a, NEW b, NEW d, NEW e, NEW next,
         Moves(c, a, b), Moves(c, b, d), Moves(c, d, e), Moves(c, e, next)
  PROVE  Runs(c, <<a, b, d, e>>, next) /\ <<a, b, d, e>>[1] = a
<1> DEFINE t == <<a, b, d, e>>
<1>1. t \in Seq({a, b, d, e}) /\ t # <<>> /\ Len(t) = 4 /\ t[1] = a /\ t[2] = b
      /\ t[3] = d /\ t[4] = e
  OBVIOUS
<1> HIDE DEF t
<1>2. (\A i \in 1 .. 4 : i = 1 \/ i = 2 \/ i = 3 \/ i = 4)
      /\ 1 # 4 /\ 2 # 4 /\ 3 # 4 /\ 1 + 1 = 2 /\ 2 + 1 = 3 /\ 3 + 1 = 4
  OBVIOUS
<1>3. ASeq(t)
  BY <1>1 DEF ASeq
<1>4. \A i \in 1 .. Len(t) : Moves(c, t[i], IF i = Len(t) THEN next ELSE t[i + 1])
  BY <1>1, <1>2
<1>5. Runs(c, t, next) /\ t[1] = a
  BY <1>1, <1>3, <1>4 DEF Runs
<1> QED BY <1>5 DEF t

LEMMA RunsThree ==
  ASSUME NEW c, NEW a, NEW b, NEW d, NEW next,
         Moves(c, a, b), Moves(c, b, d), Moves(c, d, next)
  PROVE  Runs(c, <<a, b, d>>, next) /\ <<a, b, d>>[1] = a
<1> DEFINE t == <<a, b, d>>
<1>1. t \in Seq({a, b, d}) /\ t # <<>> /\ Len(t) = 3 /\ t[1] = a /\ t[2] = b /\ t[3] = d
  OBVIOUS
<1> HIDE DEF t
<1>2. (\A i \in 1 .. 3 : i = 1 \/ i = 2 \/ i = 3)
      /\ 1 # 3 /\ 2 # 3 /\ 1 + 1 = 2 /\ 2 + 1 = 3
  OBVIOUS
<1>3. ASeq(t)
  BY <1>1 DEF ASeq
<1>4. \A i \in 1 .. Len(t) : Moves(c, t[i], IF i = Len(t) THEN next ELSE t[i + 1])
  BY <1>1, <1>2
<1>5. Runs(c, t, next) /\ t[1] = a
  BY <1>1, <1>3, <1>4 DEF Runs
<1> QED BY <1>5 DEF t

Descriptors == <<"select", "fetch", "middle", "fetch", "exit", "fetch", "guard">>
LEMMA DescriptorsRun ==
  Runs("anon", Descriptors, "tls") /\ Descriptors[1] = "select"
<1> DEFINE t == Descriptors
<1>1. /\ t \in Seq({"select", "fetch", "middle", "exit", "guard"}) /\ t # <<>> /\ Len(t) = 7
      /\ t[1] = "select" /\ t[2] = "fetch" /\ t[3] = "middle" /\ t[4] = "fetch"
      /\ t[5] = "exit" /\ t[6] = "fetch" /\ t[7] = "guard"
  BY DEF Descriptors
<1> HIDE DEF t
<1>2. /\ \A i \in 1 .. 7 : i = 1 \/ i = 2 \/ i = 3 \/ i = 4 \/ i = 5 \/ i = 6 \/ i = 7
      /\ 1 # 7 /\ 2 # 7 /\ 3 # 7 /\ 4 # 7 /\ 5 # 7 /\ 6 # 7
      /\ 1 + 1 = 2 /\ 2 + 1 = 3 /\ 3 + 1 = 4 /\ 4 + 1 = 5 /\ 5 + 1 = 6 /\ 6 + 1 = 7
  OBVIOUS
<1>3. ASeq(t)
  BY <1>1 DEF ASeq
<1>4. /\ Moves("anon", "select", "fetch") /\ Moves("anon", "fetch", "middle")
      /\ Moves("anon", "middle", "fetch") /\ Moves("anon", "fetch", "exit")
      /\ Moves("anon", "exit", "fetch") /\ Moves("anon", "fetch", "guard")
      /\ Moves("anon", "guard", "tls")
  BY DEF Moves
<1>5. \A i \in 1 .. Len(t) : Moves("anon", t[i], IF i = Len(t) THEN "tls" ELSE t[i + 1])
  BY <1>1, <1>2, <1>4
<1> QED BY <1>1, <1>3, <1>5 DEF Runs, t

Firsts == {"consensus", "select", "manual", "socks", "chat"}

\* Every command's list is one, whether or not it begins with the consensus.
LEMMA StepsRun ==
  ASSUME NEW c \in Commands
  PROVE  /\ Runs(c, Steps(c), "prompt") /\ Steps(c)[1] \in Firsts
         /\ NeedsConsensus(c) => Steps(c)[1] \in {"select", "chat"}
<1> USE DEF Firsts
<1>1. CASE c = "consensus"
  <2>1. Steps(c) = <<"consensus">> /\ Moves(c, "consensus", "prompt") /\ ~NeedsConsensus(c)
    BY <1>1 DEF Steps, Moves, NeedsConsensus
  <2> QED BY <2>1, RunsOne
<1>2. CASE c = "descriptor"
  <2>1. /\ Steps(c) = <<"select", "fetch">> /\ Moves(c, "select", "fetch")
        /\ Moves(c, "fetch", "prompt")
    BY <1>2 DEF Steps, Moves
  <2> QED BY <2>1, RunsTwo
<1>3. CASE c = "tls"
  <2>1. /\ Steps(c) = <<"select", "tls", "close">> /\ Moves(c, "select", "tls")
        /\ Moves(c, "tls", "close") /\ Moves(c, "close", "prompt")
    BY <1>3 DEF Steps, Moves
  <2> QED BY <2>1, RunsThree
<1>4. CASE c = "link"
  <2>1. /\ Steps(c) = <<"select", "tls", "link", "close">> /\ Moves(c, "select", "tls")
        /\ Moves(c, "tls", "link") /\ Moves(c, "link", "close") /\ Moves(c, "close", "prompt")
    BY <1>4 DEF Steps, Moves
  <2> QED BY <2>1, RunsFour
<1>5. CASE c = "connect"
  <2>1. /\ Steps(c) = <<"manual">> \o Build \o <<"dir", "close">> /\ Moves(c, "manual", "tls")
        /\ Moves(c, "dir", "close") /\ Moves(c, "close", "prompt") /\ ~NeedsConsensus(c)
    BY <1>5 DEF Steps, Moves, NeedsConsensus
  <2>2. Runs(c, <<"manual">>, "tls") /\ <<"manual">>[1] = "manual"
    BY <2>1, RunsOne
  <2>3. Runs(c, Build, "dir") /\ Build[1] = "tls"
    BY <1>5, BuildRuns
  <2>4. Runs(c, <<"dir", "close">>, "prompt") /\ <<"dir", "close">>[1] = "dir"
    BY <2>1, RunsTwo
  <2>5. Runs(c, <<"manual">> \o Build, "dir") /\ (<<"manual">> \o Build)[1] = "manual"
    BY <2>2, <2>3, RunsJoin
  <2> QED BY <2>1, <2>4, <2>5, RunsJoin
<1>6. CASE c = "circuit"
  <2>1. /\ Steps(c) = <<"select", "fetch">> \o Build \o <<"close">> /\ Moves(c, "select", "fetch")
        /\ Moves(c, "fetch", "tls") /\ Moves(c, "close", "prompt")
    BY <1>6 DEF Steps, Moves
  <2>2. Runs(c, <<"select", "fetch">>, "tls") /\ <<"select", "fetch">>[1] = "select"
    BY <2>1, RunsTwo
  <2>3. Runs(c, Build, "close") /\ Build[1] = "tls"
    BY <1>6, BuildRuns
  <2>4. Runs(c, <<"close">>, "prompt") /\ <<"close">>[1] = "close"
    BY <2>1, RunsOne
  <2>5. /\ Runs(c, <<"select", "fetch">> \o Build, "close")
        /\ (<<"select", "fetch">> \o Build)[1] = "select"
    BY <2>2, <2>3, RunsJoin
  <2> QED BY <2>1, <2>4, <2>5, RunsJoin
<1>7. CASE c = "stream"
  <2>1. /\ Steps(c) = <<"select", "fetch">> \o Build \o <<"dir", "close">>
        /\ Moves(c, "select", "fetch") /\ Moves(c, "fetch", "tls") /\ Moves(c, "dir", "close")
        /\ Moves(c, "close", "prompt")
    BY <1>7 DEF Steps, Moves
  <2>2. Runs(c, <<"select", "fetch">>, "tls") /\ <<"select", "fetch">>[1] = "select"
    BY <2>1, RunsTwo
  <2>3. Runs(c, Build, "dir") /\ Build[1] = "tls"
    BY <1>7, BuildRuns
  <2>4. Runs(c, <<"dir", "close">>, "prompt") /\ <<"dir", "close">>[1] = "dir"
    BY <2>1, RunsTwo
  <2>5. /\ Runs(c, <<"select", "fetch">> \o Build, "dir")
        /\ (<<"select", "fetch">> \o Build)[1] = "select"
    BY <2>2, <2>3, RunsJoin
  <2> QED BY <2>1, <2>4, <2>5, RunsJoin
<1>8. CASE c = "auto"
  <2>1. /\ Steps(c) = <<"consensus", "select", "fetch">> \o Build \o <<"dir", "close">>
        /\ Moves(c, "consensus", "select") /\ Moves(c, "select", "fetch")
        /\ Moves(c, "fetch", "tls") /\ Moves(c, "dir", "close") /\ Moves(c, "close", "prompt")
        /\ ~NeedsConsensus(c)
    BY <1>8 DEF Steps, Moves, NeedsConsensus
  <2>2. Runs(c, <<"consensus", "select", "fetch">>, "tls")
        /\ <<"consensus", "select", "fetch">>[1] = "consensus"
    BY <2>1, RunsThree
  <2>3. Runs(c, Build, "dir") /\ Build[1] = "tls"
    BY <1>8, BuildRuns
  <2>4. Runs(c, <<"dir", "close">>, "prompt") /\ <<"dir", "close">>[1] = "dir"
    BY <2>1, RunsTwo
  <2>5. Runs(c, <<"consensus", "select", "fetch">> \o Build, "dir")
        /\ (<<"consensus", "select", "fetch">> \o Build)[1] = "consensus"
    BY <2>2, <2>3, RunsJoin
  <2> QED BY <2>1, <2>4, <2>5, RunsJoin
<1>9. CASE c = "anon"
  <2>1. /\ Steps(c) = Descriptors \o Build \o <<"extendMiddle", "extendExit", "tcp", "close">>
        /\ Moves(c, "extendMiddle", "extendExit") /\ Moves(c, "extendExit", "tcp")
        /\ Moves(c, "tcp", "close") /\ Moves(c, "close", "prompt")
    BY <1>9 DEF Steps, Moves, Anon, Descriptors
  <2>2. Runs(c, Build, "extendMiddle") /\ Build[1] = "tls"
    BY <1>9, BuildRuns
  <2>3. /\ Runs(c, <<"extendMiddle", "extendExit", "tcp", "close">>, "prompt")
        /\ <<"extendMiddle", "extendExit", "tcp", "close">>[1] = "extendMiddle"
    BY <2>1, RunsFour
  <2>4. Runs(c, Descriptors \o Build, "extendMiddle") /\ (Descriptors \o Build)[1] = "select"
    BY <1>9, <2>2, DescriptorsRun, RunsJoin
  <2> DEFINE u == Descriptors \o Build
             v == <<"extendMiddle", "extendExit", "tcp", "close">>
  <2>5. Runs(c, u, v[1]) /\ Runs(c, v, "prompt") /\ u[1] = "select" /\ Steps(c) = u \o v
    BY <2>1, <2>3, <2>4
  <2> HIDE DEF u, v
  <2>6. Runs(c, u \o v, "prompt") /\ (u \o v)[1] = "select"
    BY <2>5, RunsJoin
  <2> QED BY <2>5, <2>6
<1>10. CASE c \in {"proxy", "chat"}
  <2>1. /\ c = "proxy" => Steps(c) = <<"socks">> /\ ~NeedsConsensus(c)
        /\ c = "chat" => Steps(c) = <<"chat">>
        /\ Moves(c, "socks", "prompt") /\ Moves(c, "chat", "prompt")
    BY DEF Steps, Moves, NeedsConsensus
  <2>2. /\ Runs(c, <<"socks">>, "prompt") /\ Runs(c, <<"chat">>, "prompt")
        /\ <<"chat">>[1] = "chat" /\ <<"socks">>[1] = "socks"
    BY <2>1, RunsOne
  <2> QED BY <1>10, <2>1, <2>2
<1> QED BY <1>1, <1>2, <1>3, <1>4, <1>5, <1>6, <1>7, <1>8, <1>9, <1>10 DEF Commands

\* The step a command is at
StepOf(t) == IF t = <<>> THEN "prompt" ELSE Head(t)

\* The steps of a command, at their beginning
LEMMA TodoStart ==
  ASSUME NEW c \in Commands
  PROVE  LET t == (IF NeedsConsensus(c) THEN <<"consensus">> ELSE <<>>) \o Steps(c)
         IN TodoOK(c, t) /\ StepOf(t) \in Firsts
<1> DEFINE s == Steps(c)
<1>1. /\ Runs(c, s, "prompt") /\ (NeedsConsensus(c) => s[1] \in {"select", "chat"}) /\ c # "none"
      /\ s[1] \in Firsts
  BY StepsRun DEF Commands
<1> HIDE DEF s
<1>2. CASE NeedsConsensus(c)
  <2> DEFINE t == <<"consensus">> \o s
  <2>1. Moves(c, "consensus", s[1])
    BY <1>1, <1>2 DEF Moves
  <2>2. Runs(c, <<"consensus">>, s[1]) /\ <<"consensus">>[1] = "consensus"
    BY <2>1, RunsOne
  <2>3. Runs(c, t, "prompt") /\ t[1] = "consensus"
    BY <1>1, <2>2, RunsJoin
  <2> HIDE DEF t
  <2>4. ASeq(t) /\ t # <<>> /\ Head(t) = "consensus"
    BY <2>3, SeqIs DEF Runs
  <2>5. TodoOK(c, t) /\ StepOf(t) \in Firsts
    BY <1>1, <2>3, <2>4 DEF TodoOK, StepOf, Firsts
  <2> QED BY <1>2, <2>5 DEF t, s
<1>3. CASE ~NeedsConsensus(c)
  <2>1. <<>> \o s = s
    <3>1. PICK S : s \in Seq(S)
      BY <1>1 DEF Runs, ASeq
    <3> QED BY <3>1, ConcatEmptySeq
  <2>2. ASeq(s) /\ s # <<>> /\ Head(s) = s[1]
    BY <1>1, SeqIs DEF Runs
  <2>3. TodoOK(c, s) /\ StepOf(s) \in Firsts
    BY <1>1, <2>2 DEF TodoOK, StepOf
  <2> QED BY <1>3, <2>1, <2>3 DEF s
<1> QED BY <1>2, <1>3

LEMMA TodoNext ==
  ASSUME NEW c, NEW t, TodoOK(c, t), t # <<>>
  PROVE  /\ Moves(c, StepOf(t), StepOf(Tail(t)))
         /\ TodoOK(IF Tail(t) = <<>> THEN "none" ELSE c, Tail(t))
<1> DEFINE u == Tail(t)
           n == Len(u)
<1>1. /\ ASeq(t) /\ Len(t) \in Nat /\ 1 \in 1 .. Len(t) /\ Head(t) = t[1] /\ c # "none"
      /\ Runs(c, t, "prompt")
  BY SeqIs DEF TodoOK
<1>2. ASeq(u) /\ n = Len(t) - 1 /\ \A i \in 1 .. Len(t) - 1 : u[i] = t[i + 1]
  BY <1>1, SeqLess
<1> HIDE DEF u
<1>3. n \in Nat /\ (u = <<>> <=> n = 0) /\ (u # <<>> => Head(u) = u[1])
  BY <1>2, SeqIs
<1>4. Moves(c, t[1], IF 1 = Len(t) THEN "prompt" ELSE t[1 + 1])
  BY <1>1 DEF Runs
<1>5. StepOf(u) = IF 1 = Len(t) THEN "prompt" ELSE t[1 + 1]
  <2>1. u = <<>> <=> 1 = Len(t)
    BY <1>1, <1>2, <1>3
  <2>2. u # <<>> => 1 \in 1 .. Len(t) - 1
    BY <1>1, <1>2, <1>3
  <2> QED BY <1>2, <1>3, <2>1, <2>2 DEF StepOf
<1>6. u # <<>> => Runs(c, u, "prompt")
  <2> SUFFICES ASSUME u # <<>>, NEW i \in 1 .. n
               PROVE  Moves(c, u[i], IF i = n THEN "prompt" ELSE u[i + 1])
    BY <1>2 DEF Runs
  <2> DEFINE k == i + 1
  <2>1. /\ k \in 1 .. Len(t) /\ u[i] = t[k] /\ (i = n <=> k = Len(t)) /\ i \in 1 .. Len(t) - 1
    BY <1>1, <1>2
  <2>2. i # n => u[i + 1] = t[k + 1]
    <3>1. i # n => i + 1 \in 1 .. Len(t) - 1
      BY <1>1, <1>2
    <3> QED BY <3>1, <1>2
  <2> HIDE DEF k
  <2>3. Moves(c, t[k], IF k = Len(t) THEN "prompt" ELSE t[k + 1])
    BY <1>1, <2>1 DEF Runs
  <2> QED BY <2>1, <2>2, <2>3
<1> QED BY <1>1, <1>2, <1>4, <1>5, <1>6 DEF StepOf, TodoOK, u

\* A consensus that came is parsed in its place.
LEMMA TodoParse ==
  ASSUME NEW c, NEW t, TodoOK(c, t), t # <<>>, Head(t) = "consensus"
  PROVE  TodoOK(c, <<"parse">> \o Tail(t)) /\ StepOf(<<"parse">> \o Tail(t)) = "parse"
<1> DEFINE u == Tail(t)
           w == <<"parse">> \o u
<1>1. /\ Moves(c, "consensus", StepOf(u)) /\ TodoOK(IF u = <<>> THEN "none" ELSE c, u) /\ c # "none"
  BY TodoNext DEF StepOf, TodoOK
<1>2. Moves(c, "parse", StepOf(u))
  BY <1>1 DEF Moves
<1>3. PICK S : u \in Seq(S)
  BY <1>1 DEF TodoOK, ASeq
<1> HIDE DEF u
<1>4. Runs(c, w, "prompt") /\ w[1] = "parse"
  <2>1. CASE u = <<>>
    <3>1. <<"parse">> \o u = <<"parse">>
      BY <2>1, ConcatEmptySeq
    <3> QED BY <1>2, <2>1, <3>1, RunsOne DEF StepOf
  <2>2. CASE u # <<>>
    <3>1. Runs(c, u, "prompt") /\ StepOf(u) = u[1]
      BY <1>1, <2>2, SeqIs DEF TodoOK, StepOf
    <3>2. Runs(c, <<"parse">>, u[1]) /\ <<"parse">>[1] = "parse"
      BY <1>2, <3>1, RunsOne
    <3> QED BY <3>1, <3>2, RunsJoin
  <2> QED BY <2>1, <2>2
<1> HIDE DEF w
<1>5. w # <<>> /\ Head(w) = "parse" /\ ASeq(w)
  BY <1>4, SeqIs DEF Runs
<1>6. TodoOK(c, w) /\ StepOf(w) = "parse"
  BY <1>1, <1>4, <1>5 DEF TodoOK, StepOf
<1> QED BY <1>6 DEF w, u

-------------------------------------------------------------------------------
(* The numbers of the cells on their way to the client *)

\* What cell c says of the cipher and the digest of hop h, which are b and d before
\* it is read and b2 and d2 behind it.
Numbered(h, c, b, d, b2, d2) ==
  IF c.cmd = "RELAY" /\ c.from >= h
  THEN /\ c.pos[h] = b /\ b2 = b + 1
       /\ IF c.from = h THEN c.dig = d /\ d2 = d + 1 ELSE d2 = d
  ELSE b2 = b /\ d2 = d

\* The cells of ib take hop h from b and d to b2 and d2.
Chain(h, b, d, b2, d2, ib) ==
  \E p, q \in [1 .. Len(ib) + 1 -> Nat] :
    /\ p[1] = b /\ q[1] = d /\ p[Len(ib) + 1] = b2 /\ q[Len(ib) + 1] = d2
    /\ \A i \in 1 .. Len(ib) : Numbered(h, ib[i], p[i], q[i], p[i + 1], q[i + 1])

\* No cell of a hop behind the ones before h
LEMMA ChainNew ==
  ASSUME NEW ib, ASeq(ib), NEW h, NEW b \in Nat, NEW d \in Nat,
         \A i \in 1 .. Len(ib) : ib[i].cmd = "RELAY" => ~(ib[i].from >= h)
  PROVE  Chain(h, b, d, b, d, ib)
<1> DEFINE n == Len(ib)
           p == [i \in 1 .. n + 1 |-> b]
           q == [i \in 1 .. n + 1 |-> d]
<1>1. n \in Nat
  BY SeqIs
<1> HIDE DEF n
<1>2. 1 \in 1 .. n + 1 /\ n + 1 \in 1 .. n + 1
      /\ \A i \in 1 .. n : i \in 1 .. n + 1 /\ i + 1 \in 1 .. n + 1
  BY <1>1
<1>3. p \in [1 .. n + 1 -> Nat] /\ q \in [1 .. n + 1 -> Nat]
      /\ \A i \in 1 .. n + 1 : p[i] = b /\ q[i] = d
  OBVIOUS
<1> HIDE DEF p, q
<1>4. \A i \in 1 .. n : Numbered(h, ib[i], p[i], q[i], p[i + 1], q[i + 1])
  BY <1>2, <1>3 DEF Numbered, n
<1> QED BY <1>2, <1>3, <1>4 DEF Chain, n

\* A cell behind the others goes on from where they end.
LEMMA ChainAppend ==
  ASSUME NEW ib, ASeq(ib), NEW h, NEW b, NEW d, NEW b2, NEW d2, Chain(h, b, d, b2, d2, ib),
         NEW c, NEW b3 \in Nat, NEW d3 \in Nat, Numbered(h, c, b2, d2, b3, d3)
  PROVE  Chain(h, b, d, b3, d3, Append(ib, c))
<1> DEFINE n == Len(ib)
           ic == Append(ib, c)
<1>1. n \in Nat
  BY SeqIs
<1>2. Len(ic) = n + 1 /\ ic[n + 1] = c /\ \A i \in 1 .. n : ic[i] = ib[i]
  BY SeqPlus
<1>3. PICK p, q \in [1 .. n + 1 -> Nat] :
        /\ p[1] = b /\ q[1] = d /\ p[n + 1] = b2 /\ q[n + 1] = d2
        /\ \A i \in 1 .. n : Numbered(h, ib[i], p[i], q[i], p[i + 1], q[i + 1])
  BY DEF Chain
<1> HIDE DEF n, ic
<1> DEFINE m == (n + 1) + 1
           r == [i \in 1 .. m |-> IF i \in 1 .. n + 1 THEN p[i] ELSE b3]
           s == [i \in 1 .. m |-> IF i \in 1 .. n + 1 THEN q[i] ELSE d3]
<1>4. /\ 1 \in 1 .. n + 1 /\ n + 1 \in 1 .. n + 1 /\ m \in 1 .. m /\ m \notin 1 .. n + 1
      /\ 1 .. n + 1 \subseteq 1 .. m
      /\ (\A i \in 1 .. n : i \in 1 .. n + 1 /\ i + 1 \in 1 .. n + 1)
      /\ (\A i \in 1 .. n + 1 : i \in 1 .. n \/ i = n + 1)
  BY <1>1
<1> HIDE DEF m
<1>5. /\ r \in [1 .. m -> Nat] /\ s \in [1 .. m -> Nat]
      /\ (\A i \in 1 .. n + 1 : r[i] = p[i] /\ s[i] = q[i]) /\ r[m] = b3 /\ s[m] = d3
  BY <1>4
<1> HIDE DEF r, s
<1>6. \A i \in 1 .. n + 1 : Numbered(h, ic[i], r[i], s[i], r[i + 1], s[i + 1])
  <2> TAKE i \in 1 .. n + 1
  <2>1. CASE i \in 1 .. n
    BY <2>1, <1>2, <1>3, <1>4, <1>5
  <2>2. CASE i = n + 1
    <3>1. r[i] = b2 /\ s[i] = d2 /\ r[i + 1] = b3 /\ s[i + 1] = d3 /\ ic[i] = c
      BY <2>2, <1>2, <1>3, <1>4, <1>5 DEF m
    <3> QED BY <3>1
  <2> QED BY <2>1, <2>2, <1>4
<1>7. Len(ic) + 1 = m
  BY <1>2 DEF m
<1>8. Chain(h, b, d, b3, d3, ic)
  BY <1>2, <1>3, <1>4, <1>5, <1>6, <1>7 DEF Chain
<1> QED BY <1>8 DEF ic

\* The first cell is read: the rest goes on from behind it.
LEMMA ChainTail ==
  ASSUME NEW ib, ASeq(ib), ib # <<>>, NEW h, NEW b, NEW d, NEW b2, NEW d2,
         Chain(h, b, d, b2, d2, ib)
  PROVE  \E b1, d1 \in Nat : Numbered(h, ib[1], b, d, b1, d1) /\ Chain(h, b1, d1, b2, d2, Tail(ib))
<1> DEFINE n == Len(ib)
           ic == Tail(ib)
<1>1. n \in Nat \ {0}
  BY SeqIs
<1>2. Len(ic) = n - 1 /\ \A i \in 1 .. n - 1 : ic[i] = ib[i + 1]
  BY SeqLess
<1>3. PICK p, q \in [1 .. n + 1 -> Nat] :
        /\ p[1] = b /\ q[1] = d /\ p[n + 1] = b2 /\ q[n + 1] = d2
        /\ \A i \in 1 .. n : Numbered(h, ib[i], p[i], q[i], p[i + 1], q[i + 1])
  BY DEF Chain
<1> HIDE DEF n, ic
<1> DEFINE r == [i \in 1 .. n |-> p[i + 1]]
           s == [i \in 1 .. n |-> q[i + 1]]
<1>4. /\ 1 \in 1 .. n /\ n \in 1 .. n /\ (n - 1) + 1 = n /\ 1 + 1 = 2 /\ 2 \in 1 .. n + 1
      /\ (\A i \in 1 .. n : i + 1 \in 1 .. n + 1)
      /\ (\A i \in 1 .. n - 1 : i \in 1 .. n /\ i + 1 \in 1 .. n)
  BY <1>1
<1>5. r \in [1 .. n -> Nat] /\ s \in [1 .. n -> Nat]
      /\ \A i \in 1 .. n : r[i] = p[i + 1] /\ s[i] = q[i + 1]
  BY <1>4
<1> HIDE DEF r, s
<1>6. \A i \in 1 .. n - 1 : Numbered(h, ic[i], r[i], s[i], r[i + 1], s[i + 1])
  <2> TAKE i \in 1 .. n - 1
  <2> DEFINE k == i + 1
  <2>1. k \in 1 .. n /\ ic[i] = ib[k] /\ r[i] = p[k] /\ s[i] = q[k]
    BY <1>2, <1>4, <1>5
  <2> HIDE DEF k
  <2>2. Numbered(h, ib[k], p[k], q[k], p[k + 1], q[k + 1]) /\ r[k] = p[k + 1] /\ s[k] = q[k + 1]
    BY <1>3, <1>5, <2>1
  <2> QED BY <2>1, <2>2 DEF k
<1>7. Chain(h, r[1], s[1], b2, d2, ic)
  <2> DEFINE m == n - 1
  <2>1. Len(ic) = m /\ m + 1 = n
    BY <1>2, <1>4
  <2>2. r[n] = b2 /\ s[n] = d2
    BY <1>3, <1>4, <1>5
  <2>3. \A i \in 1 .. m : Numbered(h, ic[i], r[i], s[i], r[i + 1], s[i + 1])
    BY <1>6
  <2> HIDE DEF m
  <2>4. r \in [1 .. m + 1 -> Nat] /\ s \in [1 .. m + 1 -> Nat]
    BY <1>5, <2>1
  <2>5. r[m + 1] = b2 /\ s[m + 1] = d2
    BY <2>1, <2>2
  <2> QED BY <2>1, <2>3, <2>4, <2>5 DEF Chain
<1>8. Numbered(h, ib[1], b, d, r[1], s[1]) /\ r[1] \in Nat /\ s[1] \in Nat
  <2>1. r[1] = p[2] /\ s[1] = q[2] /\ 1 \in 1 .. n
    BY <1>4, <1>5
  <2>2. Numbered(h, ib[1], p[1], q[1], p[2], q[2])
    BY <1>3, <1>4
  <2> QED BY <1>3, <1>4, <2>1, <2>2
<1> QED BY <1>7, <1>8 DEF ic

-------------------------------------------------------------------------------
(* The invariant *)

Now == StepOf(todo)
CallSteps == {"fetch", "tls", "link", "create", "extendMiddle", "extendExit", "dir", "tcp"}
OpenSteps == {"link", "create", "extendMiddle", "extendExit", "dir", "tcp", "close"}

\* The call a step waits in
Waiting(s, w) ==
  \/ s = "link" /\ w = "link"
  \/ s = "create" /\ w = "create"
  \/ s \in {"extendMiddle", "extendExit"} /\ w = "extend"
  \/ s = "dir" /\ w \in {"dirConnect", "dirRequest", "dirData"}
  \/ s = "tcp" /\ w \in {"tcpConnect", "tcpRequest", "tcpData"}
CallInv ==
  /\ call # "none" => result = "none" /\ Waiting(Now, call)
  /\ result \in {"none", "ok", "fail"} /\ (result # "none" => Now \in CallSteps)

\* Where nothing is open, but what is left of a session that could not be
Quiet == link \in {"closed", "half"} /\ inbox = <<>> /\ path = <<>> /\ asked = NoAsk /\ hops = <<>>
           /\ call = "none" /\ ~torn
Opened == Now \in OpenSteps \/ (Now = "tls" /\ result = "ok")
QuietInv == ~Opened => Quiet

HopForm(x) ==
  /\ x = [relay |-> x.relay, fwd |-> x.fwd, bwd |-> x.bwd, fdig |-> x.fdig, bdig |-> x.bdig]
  /\ x.fwd \in Nat /\ x.bwd \in Nat /\ x.fdig \in Nat /\ x.bdig \in Nat
Shapes ==
  /\ ASeq(hops) /\ ASeq(path) /\ ASeq(inbox)
  /\ (\A h \in 1 .. Len(hops) : HopForm(hops[h])) /\ (\A h \in 1 .. Len(path) : HopForm(path[h]))

\* The client is at the guard when it connects.
GuardInv ==
  cmd # "connect" /\ (Now \in {"tls", "link", "create"} \/ (Now = "fetch" /\ cmd # "anon"))
    => guard.id = torSelectedIdentity
CreateInv == asked.what = "create" => hops = <<>>

\* The command goes on: it waits in a call, or will make another one.
Live == \/ call # "none"
        \/ result = "none" /\ Now \notin {"close", "prompt"}
        \/ result = "ok" /\ Now \notin {"dir", "tcp"}

\* How far it has come
Progress ==
  /\ Now \in {"tls", "link"} => hops = <<>> /\ path = <<>>
  /\ Now = "create" =>
       /\ result # "ok" => hops = <<>>
       /\ result = "ok" => Len(hops) = 1
       /\ result = "none" /\ call = "none" => path = <<>>
  /\ Now = "extendMiddle" => Len(hops) = (IF result = "ok" THEN 2 ELSE 1)
  /\ Now = "extendExit" => Len(hops) = (IF result = "ok" THEN 3 ELSE 2)
  /\ Now \in {"dir", "tcp"} => hops # <<>>
  /\ Now \in OpenSteps \ {"link", "close"} \/ (Now = "link" /\ result = "ok") => link = "open"

\* Before the link handshake, in it, behind the VERSIONS asked for, and with that
\* cell read
Later(i) == inbox[i].width = Width /\ inbox[i].cmd # "VERSIONS"
NotYet == inbox = <<>> /\ link # "open" /\ call = "none" /\ asked = NoAsk
Fresh == call = "link" /\ asked.what = "versions" /\ inbox = <<>> /\ circIdLen = 2 /\ link # "open"
Offered == /\ inbox # <<>> /\ inbox[1].cmd = "VERSIONS" /\ inbox[1].width = circIdLen
           /\ link # "open" /\ call = "link" /\ asked.what # "versions"
           /\ \A i \in 2 .. Len(inbox) : Later(i)
Agreed == circIdLen = Width /\ asked.what # "versions" /\ \A i \in 1 .. Len(inbox) : Later(i)
Widths ==
  /\ ~torn /\ (NotYet \/ Fresh \/ Offered \/ Agreed) /\ (link = "open" => Agreed)
  /\ Now = "tls" \/ (Now = "link" /\ call = "none" /\ result = "none") => NotYet

\* The cell that makes the path a hop longer, and the relay that hop is for
Grow(c) == c.cmd = "CREATED2" \/ (c.cmd = "RELAY" /\ c.rcmd = "EXTENDED2")
Pending == IF call = "create" THEN guard.id ELSE Extends(Now)[1]
GrowOK(c, cl, hs, pt, relay) ==
  /\ \/ cl = "create" /\ c.cmd = "CREATED2" /\ hs = <<>>
     \/ cl = "extend" /\ c.cmd = "RELAY" /\ c.from = Len(hs)
  /\ c.auth => pt[Len(pt)].relay = relay /\ relay # None
AskInv ==
  /\ asked.what = "create" => call = "create" /\ path = <<>> /\ asked.relay \in {Pending, None}
  /\ asked.what = "extend" =>
       call = "extend" /\ Len(path) = Len(hops) /\ hops # <<>> /\ asked.relay = Pending
  /\ asked.what \in {"begin", "get"} => hops # <<>> /\ Len(path) = Len(hops)
Growth ==
  /\ Len(path) = Len(hops) \/ Len(path) = Len(hops) + 1
  /\ Len(path) # Len(hops) <=> \E i \in 1 .. Len(inbox) : Grow(inbox[i])
  /\ \A i, j \in 1 .. Len(inbox) : Grow(inbox[i]) /\ Grow(inbox[j]) => i = j
  /\ \A i \in 1 .. Len(inbox) : Grow(inbox[i]) => GrowOK(inbox[i], call, hops, path, Pending)
  /\ \A i \in 1 .. Len(inbox) : inbox[i].cmd = "RELAY" =>
       /\ inbox[i].from \in 1 .. Len(path)
       /\ inbox[i].from \in 1 .. Len(hops) \/ \E j \in 1 .. i - 1 : Grow(inbox[j])

\* Both ends of every hop are in step, but for the cells on their way.
Forward ==
  /\ \A h \in 1 .. Len(hops) : path[h].fwd = hops[h].fwd /\ path[h].fdig = hops[h].fdig
  /\ Len(path) # Len(hops) => path[Len(path)].fwd = 0 /\ path[Len(path)].fdig = 0
Backward ==
  /\ \A h \in 1 .. Len(hops) :
       Chain(h, hops[h].bwd, hops[h].bdig, path[h].bwd, path[h].bdig, inbox)
  /\ Len(path) # Len(hops) =>
       Chain(Len(path), 0, 0, path[Len(path)].bwd, path[Len(path)].bdig, inbox)

LiveInv == Progress /\ Widths /\ AskInv /\ Growth /\ Forward /\ Backward

CircuitInv ==
  /\ TodoOK(cmd, todo) /\ CallInv /\ QuietInv /\ Shapes /\ HopsVerified /\ GuardInv /\ CreateInv
  /\ (Live => LiveInv) /\ ~misread /\ ~strayed

-------------------------------------------------------------------------------

\* The step a command is at
LEMMA AtIs ==
  /\ \A s : At(s) => todo # <<>> /\ Now = s
  /\ \A s : Now = s /\ s # "prompt" => At(s)
  /\ todo = <<>> => Now = "prompt"
  BY DEF At, Now, StepOf

\* The empty sequence
LEMMA EmptyIs == Len(<<>>) = 0 /\ ASeq(<<>>) /\ DOMAIN <<>> = {}
<1>1. <<>> \in Seq({}) /\ Len(<<>>) = 0
  OBVIOUS
<1> QED BY <1>1 DEF ASeq

\* With no hop and no cell on its way
LEMMA EmptyGood ==
  ASSUME inbox' = <<>>, path' = <<>>, hops' = <<>>
  PROVE  Shapes' /\ HopsVerified' /\ Growth' /\ Forward' /\ Backward'
<1>1. Len(hops') = 0 /\ Len(path') = 0 /\ Len(inbox') = 0 /\ (\A i \in 1 .. 0 : FALSE)
  BY EmptyIs
<1>2. Shapes' /\ HopsVerified'
  BY <1>1, EmptyIs DEF Shapes, HopsVerified
<1> QED BY <1>1, <1>2 DEF Growth, Forward, Backward

\* Where nothing is open, all is well.
LEMMA QuietGood ==
  ASSUME TodoOK(cmd, todo)', CallInv', Quiet', GuardInv', Now' \notin OpenSteps \ {"close"},
         ~misread', ~strayed'
  PROVE  CircuitInv'
<1>1. /\ link' \in {"closed", "half"} /\ inbox' = <<>> /\ path' = <<>> /\ asked' = NoAsk
      /\ hops' = <<>> /\ call' = "none" /\ ~torn'
  BY DEF Quiet
<1>2. Shapes' /\ HopsVerified' /\ Growth' /\ Forward' /\ Backward'
  BY <1>1, EmptyGood
<1>3. asked'.what = "none"
  BY <1>1 DEF NoAsk, Ask
<1>4. CreateInv' /\ Progress'
  BY <1>1, <1>3 DEF CreateInv, Progress, OpenSteps
<1>5. Widths' /\ AskInv'
  BY <1>1, <1>3 DEF Widths, NotYet, AskInv
<1> QED BY <1>2, <1>4, <1>5 DEF CircuitInv, QuietInv, LiveInv

-------------------------------------------------------------------------------
(* The steps outside a call *)

\* A step where nothing is open and no call has ended
LEMMA Idle ==
  ASSUME CircuitInv, TodoOK(cmd, todo)', Quiet', result' = "none", GuardInv',
         Now' \notin OpenSteps \ {"close"}, UNCHANGED <<misread, strayed>>
  PROVE  CircuitInv'
<1>1. CallInv'
  BY DEF Quiet, CallInv
<1>2. ~misread' /\ ~strayed'
  BY DEF CircuitInv
<1> QED BY <1>1, <1>2, QuietGood

\* The steps before a connection leave nothing open.
LEMMA QuietKept ==
  ASSUME CircuitInv, ~Opened
  PROVE  /\ Quiet
         /\ UNCHANGED torVars => Quiet'
<1>1. Quiet
  BY DEF CircuitInv, QuietInv
<1> QED BY <1>1 DEF Quiet, torVars, relayVars

\* The step that is done gives way to the next one.
LEMMA Going ==
  ASSUME CircuitInv, todo # <<>>, StepsOn
  PROVE  Moves(cmd, Now, Now') /\ TodoOK(cmd, todo)' /\ (Now' # "prompt" => cmd' = cmd)
<1>1. TodoOK(cmd, todo)
  BY DEF CircuitInv
<1>2. Moves(cmd, Now, Now') /\ TodoOK(cmd, todo)'
  BY <1>1, TodoNext DEF StepsOn, Now
<1>3. Now' # "prompt" => Tail(todo) # <<>>
  BY DEF Now, StepOf, StepsOn
<1> QED BY <1>2, <1>3 DEF StepsOn

\* The command is over.
LEMMA AtPrompt ==
  ASSUME Prompt
  PROVE  TodoOK(cmd, todo)' /\ Now' = "prompt"
  BY EmptyIs DEF Prompt, TodoOK, Now, StepOf

\* A command begins, and fetches and reads the consensus.
LEMMA Listing ==
  ASSUME CircuitInv,
         \/ \E c \in Commands : Start(c)
         \/ ConsensusFails \/ NoConsensus \/ Consensus \/ Parsed \/ Refuse
         \/ \E r \in Relays, g \in BOOLEAN, e \in BOOLEAN : ParseRelay(r, g, e)
  PROVE  CircuitInv'
<1>1. /\ UNCHANGED torVars /\ Now \in {"prompt", "consensus", "parse", "chat"}
  <2>1. CASE \E c \in Commands : Start(c)
    BY <2>1, AtIs DEF Start, CircuitInv, TodoOK
  <2>2. CASE ConsensusFails \/ NoConsensus \/ Consensus
    BY <2>2, AtIs DEF ConsensusFails, NoConsensus, Consensus
  <2>3. CASE Parsed \/ \E r \in Relays, g \in BOOLEAN, e \in BOOLEAN : ParseRelay(r, g, e)
    BY <2>3, AtIs DEF Parsed, ParseRelay
  <2>4. CASE Refuse
    BY <2>4, AtIs DEF Refuse
  <2> QED BY <2>1, <2>2, <2>3, <2>4
<1>2. ~Opened /\ result = "none"
  BY <1>1 DEF Opened, OpenSteps, CircuitInv, CallInv, CallSteps
<1>3. Quiet' /\ result' = "none" /\ UNCHANGED <<misread, strayed>>
  BY <1>1, <1>2, QuietKept DEF torVars
<1>4. TodoOK(cmd, todo)' /\ Now' \notin {"fetch", "tls", "link", "create", "extendMiddle",
                                          "extendExit", "dir", "tcp"}
  <2>1. ASSUME NEW c \in Commands, Start(c)
        PROVE  TodoOK(cmd, todo)' /\ Now' \in Firsts
    BY <2>1, TodoStart DEF Start, Now
  <2>2. ASSUME todo # <<>>, Now \in {"consensus", "parse", "chat"}, StepsOn
        PROVE  TodoOK(cmd, todo)' /\ Now' \in {"select", "chat", "prompt"}
    BY <2>2, Going DEF Moves
  <2>3. CASE ConsensusFails \/ NoConsensus \/ Parsed \/ Refuse
    BY <2>2, <2>3, AtIs DEF ConsensusFails, NoConsensus, Parsed, Refuse, Goes
  <2>4. CASE Consensus
    BY <2>4, AtIs, TodoParse DEF Consensus, CircuitInv, Now, At
  <2>5. CASE \E r \in Relays, g \in BOOLEAN, e \in BOOLEAN : ParseRelay(r, g, e)
    BY <2>5, AtIs DEF ParseRelay, CircuitInv, Now
  <2> QED BY <2>1, <2>3, <2>4, <2>5 DEF Firsts
<1>5. GuardInv'
  BY <1>4 DEF GuardInv
<1> QED BY <1>3, <1>4, <1>5, Idle DEF OpenSteps

\* The steps that close the connection, or do without one
LEMMA Closing ==
  ASSUME CircuitInv, Blocked \/ Socks \/ Fails \/ Close
  PROVE  CircuitInv'
<1>1. CASE Blocked
  <2>1. Now = "select" /\ UNCHANGED torVars /\ Prompt
    BY <1>1, AtIs DEF Blocked
  <2>2. ~Opened /\ result = "none"
    BY <2>1 DEF Opened, OpenSteps, CircuitInv, CallInv, CallSteps
  <2>3. Quiet' /\ result' = "none" /\ UNCHANGED <<misread, strayed>>
    BY <2>1, <2>2, QuietKept DEF torVars
  <2>4. TodoOK(cmd, todo)' /\ Now' = "prompt"
    BY <2>1, AtPrompt
  <2> QED BY <2>3, <2>4, Idle DEF GuardInv, OpenSteps
<1>2. CASE Socks
  <2>1. Now = "socks" /\ UNCHANGED torVars /\ todo # <<>>
    BY <1>2, AtIs DEF Socks
  <2>2. ~Opened /\ result = "none"
    BY <2>1 DEF Opened, OpenSteps, CircuitInv, CallInv, CallSteps
  <2>3. Quiet' /\ result' = "none" /\ UNCHANGED <<misread, strayed>>
    BY <2>1, <2>2, QuietKept DEF torVars
  <2>4. CASE UNCHANGED <<cmd, todo, keys>>
    <3>1. TodoOK(cmd, todo)' /\ Now' = "socks"
      BY <2>1, <2>4 DEF CircuitInv, Now
    <3> QED BY <2>3, <3>1, Idle DEF GuardInv, OpenSteps
  <2>5. CASE Goes
    <3>1. TodoOK(cmd, todo)' /\ Now' = "prompt"
      BY <2>1, <2>5, Going DEF Goes, Moves
    <3> QED BY <2>3, <3>1, Idle DEF GuardInv, OpenSteps
  <2> QED BY <1>2, <2>4, <2>5 DEF Socks
<1>3. CASE Fails
  <2>1. Quiet' /\ result' = "none" /\ UNCHANGED <<misread, strayed>>
    <3>1. call = "none" /\ result = "fail"
      BY <1>3 DEF Fails, CircuitInv, CallInv
    <3>2. CASE Unclosed
      <4>1. Now \in {"fetch", "tls"}
        BY <3>2, AtIs DEF Unclosed
      <4>2. Quiet
        BY <3>1, <4>1 DEF CircuitInv, QuietInv, Opened, OpenSteps
      <4> QED BY <1>3, <3>2, <4>2 DEF Fails, Stops, Quiet
    <3>3. CASE ~Unclosed
      BY <1>3, <3>1, <3>3 DEF Fails, Stops, CloseTor, Quiet
    <3> QED BY <3>2, <3>3
  <2>2. TodoOK(cmd, todo)' /\ Now' = "prompt"
    BY <1>3, AtPrompt DEF Fails, Stops
  <2> QED BY <2>1, <2>2, Idle DEF GuardInv, OpenSteps
<1>4. CASE Close
  <2>1. Now = "close" /\ todo # <<>> /\ StepsOn
    BY <1>4, AtIs DEF Close, Goes
  <2>2. call = "none" /\ result = "none"
    BY <2>1 DEF CircuitInv, CallInv, Waiting, CallSteps
  <2>3. Quiet' /\ result' = "none" /\ UNCHANGED <<misread, strayed>>
    BY <1>4, <2>2 DEF Close, CloseTor, Quiet
  <2>4. TodoOK(cmd, todo)' /\ Now' = "prompt"
    BY <2>1, Going DEF Moves
  <2> QED BY <2>3, <2>4, Idle DEF GuardInv, OpenSteps
<1> QED BY <1>1, <1>2, <1>3, <1>4

\* The client is set for a relay.
LEMMA Selecting ==
  ASSUME CircuitInv, Select
  PROVE  CircuitInv'
<1>1. /\ StepsOn /\ UNCHANGED <<quiet, selVars>> /\ hops' = <<>> /\ todo # <<>>
      /\ Now \in {"select", "middle", "exit", "guard", "manual"}
  BY AtIs DEF Select, ResetFor
<1>2. ~Opened /\ result = "none"
  BY <1>1 DEF Opened, OpenSteps, CircuitInv, CallInv, CallSteps
<1>3. Quiet' /\ result' = "none" /\ UNCHANGED <<misread, strayed>>
  BY <1>1, <1>2, QuietKept DEF quiet, relayVars, Quiet
<1>4. Moves(cmd, Now, Now') /\ TodoOK(cmd, todo)' /\ (Now' # "prompt" => cmd' = cmd)
  BY <1>1, Going
<1>5. Now' \in {"fetch", "tls"}
  BY <1>1, <1>4 DEF Moves
<1>6. UNCHANGED torSelectedIdentity
  BY <1>1 DEF selVars
<1>7. GuardInv'
  <2>1. CASE Now = "select"
    <3>1. guard'.id = torSelectedIdentity
      BY <2>1, AtIs DEF Select, ResetFor
    <3> QED BY <3>1, <1>6 DEF GuardInv
  <2>2. CASE Now = "guard"
    <3>1. guard'.id = torSelectedIdentity
      BY <2>2, AtIs DEF Select, ResetFor, LinkTo
    <3> QED BY <3>1, <1>6 DEF GuardInv
  <2>3. CASE Now \in {"middle", "exit", "manual"}
    BY <2>3, <1>4, <1>5 DEF GuardInv, Moves
  <2> QED BY <1>1, <2>1, <2>2, <2>3
<1> QED BY <1>3, <1>4, <1>5, <1>7, Idle DEF OpenSteps

\* No hop is on its way but in the calls that make one.
LEMMA Between ==
  ASSUME AskInv, Growth, call \notin {"create", "extend"}
  PROVE  /\ Len(path) = Len(hops) /\ asked.what \notin {"create", "extend"}
         /\ \A i \in 1 .. Len(inbox) : ~Grow(inbox[i])
<1>1. \A i \in 1 .. Len(inbox) : ~Grow(inbox[i])
  BY DEF Growth, GrowOK
<1> QED BY <1>1 DEF AskInv, Growth

\* A call has succeeded.
LEMMA Succeeding ==
  ASSUME CircuitInv, Succeeds
  PROVE  CircuitInv'
<1>1. /\ result \in {"ok", "fail"} /\ result' = "none" /\ StepsOn
      /\ UNCHANGED <<link, hops, call, relayVars, inbox, torn, misread, strayed, selVars>>
      /\ result = "fail" => Now \in {"dir", "tcp"}
      /\ cmd' # "none" => UNCHANGED clientVars
  BY AtIs DEF Succeeds, Goes, ForgetAtPrompt
<1>2. /\ link' = link /\ hops' = hops /\ call' = call
      /\ wide' = wide /\ path' = path /\ asked' = asked /\ inbox' = inbox /\ torn' = torn
      /\ misread' = misread /\ strayed' = strayed /\ torSelectedIdentity' = torSelectedIdentity
      /\ torMiddleIdentity' = torMiddleIdentity /\ torExitIdentity' = torExitIdentity
  BY <1>1 DEF clientVars, relayVars, selVars
<1>3. call = "none" /\ Now \in CallSteps /\ todo # <<>>
  <2>1. call = "none" /\ Now \in CallSteps
    BY <1>1 DEF CircuitInv, CallInv
  <2> QED BY <2>1, AtIs DEF CallSteps
<1>4. Moves(cmd, Now, Now') /\ TodoOK(cmd, todo)' /\ (Now' # "prompt" => cmd' = cmd)
  BY <1>1, <1>3, Going
<1>5. /\ Now' # "fetch" /\ (Now # "fetch" => Now' # "prompt")
      /\ Now' # "prompt" => cmd' = cmd /\ guard' = guard /\ circIdLen' = circIdLen
  <2>1. Now' # "prompt" => cmd' # "none"
    BY <1>4 DEF TodoOK, Now, StepOf
  <2> QED BY <1>1, <1>3, <1>4, <2>1 DEF CallSteps, Moves, clientVars
<1>6. GuardInv'
  <2>1. Now' \in {"tls", "link", "create"} =>
          Now \in {"tls", "link"} \/ (Now = "fetch" /\ cmd # "anon")
    BY <1>3, <1>4 DEF CallSteps, Moves
  <2> QED BY <1>2, <1>5, <2>1 DEF CircuitInv, GuardInv
<1>7. CASE Now = "fetch"
  <2>1. Quiet'
    BY <1>2, <1>7, QuietKept DEF Quiet, Opened, OpenSteps
  <2>2. Now' \notin OpenSteps \ {"close"}
    BY <1>4, <1>7 DEF Moves, OpenSteps
  <2> QED BY <1>1, <1>2, <1>4, <1>6, <2>1, <2>2, Idle
<1>8. CASE Now # "fetch"
  <2>1. Now' \in OpenSteps
    BY <1>3, <1>4, <1>8 DEF CallSteps, Moves, OpenSteps
  <2>2. QuietInv' /\ CallInv'
    BY <1>1, <1>2, <1>3, <2>1 DEF QuietInv, Opened, CallInv
  <2>5. cmd' = cmd /\ guard' = guard /\ circIdLen' = circIdLen
    BY <1>5, <1>8
  <2>3. Shapes' /\ CreateInv' /\ HopsVerified'
    BY <1>2, <2>5 DEF CircuitInv, Shapes, CreateInv, HopsVerified, HopForm
  <2>4. ASSUME Live' PROVE LiveInv'
    <3>1. Now' # "close"
      BY <1>1, <1>2, <1>3, <2>4 DEF Live
    <3>2. Now \notin {"dir", "tcp"} /\ result = "ok"
      BY <1>1, <1>4, <3>1 DEF Moves
    <3>3. LiveInv
      BY <3>2, <1>1 DEF CircuitInv, Live
    <3>4. Progress'
      <4>1. \/ Now = "tls" /\ Now' = "link"
            \/ Now = "link" /\ Now' = "create"
            \/ Now = "create" /\ Now' \in {"extendMiddle", "dir"}
            \/ Now = "extendMiddle" /\ Now' = "extendExit"
            \/ Now = "extendExit" /\ Now' = "tcp"
        BY <1>3, <1>4, <1>8, <3>1, <3>2 DEF Moves, CallSteps
      <4>2. Now \in {"create", "extendExit"} => hops # <<>>
        BY <3>2, <3>3, EmptyIs DEF LiveInv, Progress
      <4> QED BY <4>1, <4>2, <3>2, <3>3, <1>1, <1>2 DEF LiveInv, Progress, OpenSteps
    <3>5. Widths'
      <4>1. Now' \in {"tls", "link"} => Now = "tls"
        BY <1>3, <1>4, <1>8 DEF Moves, CallSteps
      <4> QED BY <3>3, <4>1, <1>2, <2>5
              DEF LiveInv, Widths, NotYet, Fresh, Offered, Agreed, Later, Width
    <3>6. /\ Len(path) = Len(hops) /\ asked.what \notin {"create", "extend"}
          /\ \A i \in 1 .. Len(inbox) : ~Grow(inbox[i])
      BY <3>3, <1>3, Between DEF LiveInv
    <3>7. AskInv'
      BY <3>3, <3>6, <1>2 DEF LiveInv, AskInv
    <3>8. Growth'
      BY <3>3, <3>6, <1>2 DEF LiveInv, Growth, Grow
    <3>9. Forward' /\ Backward'
      BY <3>3, <3>6, <1>2 DEF LiveInv, Forward, Backward
    <3> QED BY <3>4, <3>5, <3>7, <3>8, <3>9 DEF LiveInv
  <2> QED BY <1>2, <1>4, <1>6, <2>2, <2>3, <2>4 DEF CircuitInv
<1> QED BY <1>7, <1>8

-------------------------------------------------------------------------------
(* The calls *)

\* A step that leaves the command and its selection alone
LEMMA Standing ==
  ASSUME UNCHANGED cmdVars
  PROVE  /\ cmd' = cmd /\ todo' = todo /\ Now' = Now /\ Extends(Now)' = Extends(Now)
         /\ torSelectedIdentity' = torSelectedIdentity /\ torMiddleIdentity' = torMiddleIdentity
         /\ torExitIdentity' = torExitIdentity
         /\ TodoOK(cmd, todo) => TodoOK(cmd, todo)'
<1>1. /\ cmd' = cmd /\ todo' = todo /\ torSelectedIdentity' = torSelectedIdentity
      /\ torMiddleIdentity' = torMiddleIdentity /\ torExitIdentity' = torExitIdentity /\ keys' = keys
  BY DEF cmdVars, selVars
<1> QED BY <1>1 DEF Now, Extends

\* The ends of hop h behind a relay cell to hop n, and one from it
SentHop(x, h, n) == [x EXCEPT !.fwd = @ + 1, !.fdig = IF h = n THEN @ + 1 ELSE @]
TakenHop(x, h, n) ==
  [x EXCEPT !.bwd = IF h <= n THEN @ + 1 ELSE @, !.bdig = IF h = n THEN @ + 1 ELSE @]
Sent(x, y, h, n) ==
  /\ HopForm(y) /\ y.relay = x.relay /\ y.bwd = x.bwd /\ y.bdig = x.bdig
  /\ y.fwd = x.fwd + 1 /\ y.fdig = IF h = n THEN x.fdig + 1 ELSE x.fdig

LEMMA SentIs ==
  ASSUME NEW x, HopForm(x), NEW h, NEW n, NEW y, y = SentHop(x, h, n)
  PROVE  Sent(x, y, h, n)
<1> DEFINE i == x.fwd + 1
           j == IF h = n THEN x.fdig + 1 ELSE x.fdig
<1>1. i \in Nat /\ j \in Nat
  BY DEF HopForm
<1>2. y = [x EXCEPT !.fwd = i, !.fdig = j]
  BY DEF SentHop
<1>3. i = x.fwd + 1 /\ j = IF h = n THEN x.fdig + 1 ELSE x.fdig
  OBVIOUS
<1> HIDE DEF i, j
<1>4. PICK r, a, b, c, d : /\ x = [relay |-> r, fwd |-> a, bwd |-> b, fdig |-> c, bdig |-> d]
                           /\ a \in Nat /\ b \in Nat /\ c \in Nat /\ d \in Nat
  BY DEF HopForm
<1>5. y = [relay |-> r, fwd |-> i, bwd |-> b, fdig |-> j, bdig |-> d]
  BY <1>2, <1>4
<1>6. HopForm(y) 
  BY <1>1, <1>4, <1>5 DEF HopForm
<1>7. y.relay = x.relay /\ y.fwd = i /\ y.fdig = j /\ y.bwd = x.bwd /\ y.bdig = x.bdig
  BY <1>4, <1>5
<1> QED BY <1>3, <1>6, <1>7, Zenon DEF Sent

Taken(x, y, h, n) ==
  /\ HopForm(y) /\ y.relay = x.relay /\ y.fwd = x.fwd /\ y.fdig = x.fdig
  /\ y.bwd = (IF h <= n THEN x.bwd + 1 ELSE x.bwd)
  /\ y.bdig = IF h = n THEN x.bdig + 1 ELSE x.bdig

LEMMA TakenIs ==
  ASSUME NEW x, HopForm(x), NEW h, NEW n, NEW y, y = TakenHop(x, h, n)
  PROVE  Taken(x, y, h, n)
<1> DEFINE i == IF h <= n THEN x.bwd + 1 ELSE x.bwd
           j == IF h = n THEN x.bdig + 1 ELSE x.bdig
<1>1. i \in Nat /\ j \in Nat
  BY DEF HopForm
<1>2. y = [x EXCEPT !.bwd = i, !.bdig = j]
  BY DEF TakenHop
<1>3. i = (IF h <= n THEN x.bwd + 1 ELSE x.bwd) /\ j = IF h = n THEN x.bdig + 1 ELSE x.bdig
  OBVIOUS
<1> HIDE DEF i, j
<1>4. PICK r, a, b, c, d : /\ x = [relay |-> r, fwd |-> a, bwd |-> b, fdig |-> c, bdig |-> d]
                           /\ a \in Nat /\ b \in Nat /\ c \in Nat /\ d \in Nat
  BY DEF HopForm
<1>5. y = [relay |-> r, fwd |-> a, bwd |-> i, fdig |-> c, bdig |-> j]
  BY <1>2, <1>4
<1>6. HopForm(y) 
  BY <1>1, <1>4, <1>5 DEF HopForm
<1>7. y.relay = x.relay /\ y.fwd = x.fwd /\ y.fdig = x.fdig /\ y.bwd = i /\ y.bdig = j
  BY <1>4, <1>5
<1> QED BY <1>3, <1>6, <1>7, Zenon DEF Taken
\* No relay changes its place.
LEMMA VerifiedKept ==
  ASSUME HopsVerified, cmd' = cmd, torSelectedIdentity' = torSelectedIdentity,
         torMiddleIdentity' = torMiddleIdentity, torExitIdentity' = torExitIdentity,
         DOMAIN hops' = DOMAIN hops, Len(hops') <= Len(path'),
         \A h \in DOMAIN hops : hops'[h].relay = hops[h].relay /\ path'[h].relay = path[h].relay
  PROVE  HopsVerified'
<1> DEFINE roles == <<torSelectedIdentity, torMiddleIdentity, torExitIdentity>>
<1>1. \A h \in DOMAIN hops' : path'[h].relay = hops'[h].relay /\ hops'[h].relay # None
  BY DEF HopsVerified
<1>2. cmd' # "connect" =>
        \A h \in DOMAIN hops' : hops'[h].relay = roles[h]
  <2>1. cmd # "connect" => \A h \in DOMAIN hops : hops[h].relay = roles[h]
    BY DEF HopsVerified
  <2> HIDE DEF roles
  <2> QED BY <2>1
<1>3. <<torSelectedIdentity', torMiddleIdentity', torExitIdentity'>> = roles
  OBVIOUS
<1> HIDE DEF roles
<1> QED BY <1>1, <1>2, <1>3 DEF HopsVerified

\* sendRelayCell keeps both ends of every hop in step.
LEMMA Sending ==
  ASSUME CircuitInv, LiveInv, call \notin {"create", "extend"}, result = "none",
         NEW ask, NEW w, hops # <<>>, SendRelayCell(ask, w),
         UNCHANGED <<link, clientVars, wide, extra, inbox, torn, misread>>, UNCHANGED cmdVars,
         w \notin {"none", "create"}, Waiting(Now, w), Now \notin {"link", "create"},
         \/ ask.what \in {"begin", "get"}
         \/ ask.what = "extend" /\ w = "extend" /\ ask.relay = Extends(Now)[1]
  PROVE  CircuitInv'
<1> DEFINE n == Len(hops)
<1>1. /\ link' = link /\ guard' = guard /\ circIdLen' = circIdLen /\ wide' = wide /\ inbox' = inbox
      /\ torn' = torn /\ misread' = misread
  BY DEF clientVars
<1>2. /\ TodoOK(cmd, todo)' /\ cmd' = cmd /\ Now' = Now /\ Extends(Now)' = Extends(Now)
      /\ torSelectedIdentity' = torSelectedIdentity /\ torMiddleIdentity' = torMiddleIdentity
      /\ torExitIdentity' = torExitIdentity
  BY Standing DEF CircuitInv
<1>3. /\ Now \in OpenSteps \ {"link", "close"}
      /\ Now \notin {"tls", "fetch", "close", "prompt", "create"}
  BY DEF Waiting, OpenSteps
<1>4. Len(path) = n /\ asked.what \notin {"create", "extend"}
      /\ \A i \in 1 .. Len(inbox) : ~Grow(inbox[i])
  BY Between DEF LiveInv
<1>5. n \in Nat /\ n # 0 /\ DOMAIN hops = 1 .. n /\ DOMAIN path = 1 .. n
  BY <1>4, SeqIs DEF CircuitInv, Shapes
<1>6. \A h \in 1 .. n : HopForm(hops[h]) /\ HopForm(path[h]) /\ path[h].fwd = hops[h].fwd
                        /\ path[h].fdig = hops[h].fdig
  BY <1>4 DEF CircuitInv, Shapes, LiveInv, Forward
<1>7. Len(hops') = n /\ ASeq(hops') /\ \A h \in 1 .. n : Sent(hops[h], hops'[h], h, n)
  <2>1. hops' = [h \in 1 .. n |-> SentHop(hops[h], h, n)]
    BY <1>5 DEF SendRelayCell, FwdAfter, SentHop
  <2>2. \A h \in 1 .. n : hops'[h] = SentHop(hops[h], h, n)
    BY <2>1
  <2>3. hops' = [h \in 1 .. n |-> hops'[h]]
    BY <2>1
  <2>4. Len(hops') = n /\ ASeq(hops')
    BY <2>3, <1>5, SeqFun
  <2> QED BY <2>2, <2>4, <1>6, SentIs
<1>8. \/ /\ Len(path') = n /\ ASeq(path') /\ \A h \in 1 .. n : Sent(path[h], path'[h], h, n)
         /\ asked' = ask /\ call' = w /\ result' = "none"
      \/ path' = path /\ asked' = asked /\ call' = "none" /\ result' = "fail"
  <2>1. CASE /\ path' = [h \in DOMAIN path |->
                         [path[h] EXCEPT !.fwd = @ + 1, !.fdig = IF h = n THEN @ + 1 ELSE @]]
             /\ asked' = ask /\ call' = w /\ result' = "none"
    <3>1. path' = [h \in 1 .. n |-> SentHop(path[h], h, n)]
      BY <1>5, <2>1 DEF SentHop
    <3>2. \A h \in 1 .. n : path'[h] = SentHop(path[h], h, n)
      BY <3>1
    <3>3. path' = [h \in 1 .. n |-> path'[h]]
      BY <3>1
    <3>4. Len(path') = n /\ ASeq(path')
      BY <3>3, <1>5, SeqFun
    <3> QED BY <2>1, <3>2, <3>4, <1>6, SentIs
  <2>2. CASE path' = path /\ asked' = asked /\ call' = "none" /\ result' = "fail"
    BY <2>2
  <2> QED BY <2>1, <2>2 DEF SendRelayCell
<1>9. ~strayed'
  <2>1. ~strayed /\ Len(path) = Len(hops)
    BY <1>4 DEF CircuitInv
  <2>2. \A h \in 1 .. Len(hops) : <<hops[h].fwd, hops[h].fdig>> = <<path[h].fwd, path[h].fdig>>
    BY <1>6
  <2> QED BY <2>1, <2>2 DEF SendRelayCell
<1> HIDE DEF n
<1>10. CallInv'
  <2>1. CASE call' = w /\ result' = "none"
    BY <2>1, <1>2 DEF CallInv
  <2>2. CASE call' = "none" /\ result' = "fail"
    BY <2>2, <1>2 DEF CallInv, CallSteps, Waiting
  <2> QED BY <2>1, <2>2, <1>8
<1>11. QuietInv' /\ GuardInv'
  BY <1>1, <1>2, <1>3 DEF QuietInv, Opened, GuardInv, OpenSteps
<1>12. CreateInv' /\ (asked'.what \in {"begin", "get", "extend"} \/ asked' = asked)
  BY <1>4, <1>8 DEF CreateInv
<1>13. /\ Len(path') = n /\ ASeq(path')
       /\ \A h \in 1 .. n : HopForm(path'[h]) /\ path'[h].relay = path[h].relay
  BY <1>4, <1>6, <1>8 DEF Sent, CircuitInv, Shapes
<1>14. \A h \in 1 .. n : HopForm(hops'[h]) /\ hops'[h].relay = hops[h].relay
  BY <1>7 DEF Sent
<1>15. Shapes'
  BY <1>1, <1>7, <1>13, <1>14 DEF Shapes, CircuitInv
<1>16. HopsVerified'
  <2>1. DOMAIN hops' = DOMAIN hops
    BY <1>5, <1>7, SeqIs
  <2>2. n <= n
    BY <1>5
  <2> QED BY <2>1, <2>2, <1>2, <1>5, <1>7, <1>13, <1>14, VerifiedKept DEF CircuitInv
<1>17. ~misread'
  BY <1>1 DEF CircuitInv
<1>18. ASSUME Live' PROVE LiveInv'
  <2>1. CASE path' = path /\ asked' = asked /\ call' = "none" /\ result' = "fail"
    BY <1>18, <2>1 DEF Live
  <2>2. CASE /\ \A h \in 1 .. n : Sent(path[h], path'[h], h, n)
             /\ asked' = ask /\ call' = w /\ result' = "none"
    <3>1. Progress'
      <4>1. hops' # <<>>
        BY <1>5, <1>7, EmptyIs
      <4> QED BY <4>1, <1>1, <1>2, <1>3, <1>7, <2>2 DEF LiveInv, Progress, n
    <3>2. Widths'
      <4>1. link = "open" /\ Agreed /\ ~torn
        BY <1>3 DEF LiveInv, Progress, Widths
      <4>2. asked'.what # "versions"
        BY <2>2
      <4>3. Agreed'
        BY <4>1, <4>2, <1>1 DEF Agreed, Later, Width
      <4> QED BY <4>1, <4>3, <1>1, <1>2, <1>3, <2>2 DEF Widths
    <3>3. AskInv'
      <4>1. w = "extend" => Pending' = Extends(Now)[1]
        BY <1>2, <2>2 DEF Pending
      <4>2. hops' # <<>>
        BY <1>5, <1>7, EmptyIs
      <4> QED BY <4>1, <4>2, <1>7, <1>13, <2>2 DEF AskInv
    <3>4. Growth'
      <4>1. \A i \in 1 .. Len(inbox) : inbox[i].cmd = "RELAY" =>
              inbox[i].from \in 1 .. n
        BY <1>4 DEF LiveInv, Growth, n
      <4>2. \A i \in 1 .. Len(inbox) : ~Grow(inbox[i])
        BY <1>4
      <4> QED BY <4>1, <4>2, <1>1, <1>7, <1>13 DEF Growth
    <3>5. Forward'
      BY <1>6, <1>7, <1>13, <2>2 DEF Forward, Sent
    <3>6. Backward'
      <4>1. \A h \in 1 .. n : Chain(h, hops[h].bwd, hops[h].bdig, path[h].bwd, path[h].bdig, inbox)
        BY DEF LiveInv, Backward, n
      <4>2. \A h \in 1 .. n :
              Chain(h, hops'[h].bwd, hops'[h].bdig, path'[h].bwd, path'[h].bdig, inbox)
        BY <4>1, <1>7, <2>2 DEF Sent
      <4> QED BY <4>2, <1>1, <1>7, <1>13 DEF Backward
    <3> QED BY <3>1, <3>2, <3>3, <3>4, <3>5, <3>6 DEF LiveInv
  <2> QED BY <2>1, <2>2, <1>8
<1> QED BY <1>2, <1>9, <1>10, <1>11, <1>12, <1>15, <1>16, <1>17, <1>18 DEF CircuitInv

\* A call that ends the command's way forward: nothing is left to keep but the hops.
LEMMA Stopped ==
  ASSUME CircuitInv, Opened', UNCHANGED cmdVars, Now \in CallSteps,
         ~Live', call' = "none", result' \in {"ok", "fail"}, GuardInv', Shapes', HopsVerified',
         CreateInv',
         ~misread', ~strayed'
  PROVE  CircuitInv'
<1>1. TodoOK(cmd, todo)' /\ Now' = Now
  BY Standing DEF CircuitInv
<1>2. CallInv' /\ QuietInv'
  BY <1>1 DEF CallInv, QuietInv
<1> QED BY <1>1, <1>2 DEF CircuitInv

\* fetchGuardDescriptor: nothing is open before or after it.
LEMMA Fetching ==
  ASSUME CircuitInv, UNCHANGED cmdVars, call = "none", result = "none", Now = "fetch", FetchDescriptor
  PROVE  CircuitInv'
<1>1. TodoOK(cmd, todo)' /\ Now' = "fetch" /\ cmd' = cmd /\ torSelectedIdentity' = torSelectedIdentity
  BY Standing DEF CircuitInv
<1>2. /\ link' = link /\ inbox' = inbox /\ path' = path /\ asked' = asked /\ hops' = hops
      /\ call' = call /\ torn' = torn /\ guard' = guard /\ misread' = misread /\ strayed' = strayed
      /\ result' \in {"ok", "fail"}
  BY DEF FetchDescriptor, relayVars
<1>3. Quiet
  BY DEF CircuitInv, QuietInv, Opened, OpenSteps
<1>4. Quiet' /\ CallInv'
  BY <1>1, <1>2, <1>3 DEF Quiet, CallInv, CallSteps
<1>5. GuardInv'
  BY <1>1, <1>2 DEF GuardInv, CircuitInv
<1>6. ~misread' /\ ~strayed'
  BY <1>2 DEF CircuitInv
<1> QED BY <1>1, <1>4, <1>5, <1>6, QuietGood DEF OpenSteps

\* openTls: an empty stream, or no TLS
LEMMA Opening ==
  ASSUME CircuitInv, UNCHANGED cmdVars, call = "none", result = "none", Now = "tls", OpenTls
  PROVE  CircuitInv'
<1>1. TodoOK(cmd, todo)' /\ Now' = "tls" /\ cmd' = cmd /\ torSelectedIdentity' = torSelectedIdentity
  BY Standing DEF CircuitInv
<1>2. /\ inbox' = <<>> /\ path' = <<>> /\ asked' = NoAsk /\ hops' = hops /\ call' = call
      /\ ~torn' /\ guard' = guard /\ misread' = misread /\ strayed' = strayed
      /\ \/ link' = "tls" /\ result' = "ok"
         \/ link' \in {"closed", "half"} /\ result' = "fail"
  BY DEF OpenTls, clientVars
<1>3. Quiet
  BY DEF CircuitInv, QuietInv, Opened, OpenSteps
<1>4. CallInv' /\ hops' = <<>> /\ asked'.what = "none" /\ call' = "none"
  BY <1>1, <1>2, <1>3 DEF Quiet, CallInv, CallSteps, NoAsk, Ask
<1>5. GuardInv'
  BY <1>1, <1>2 DEF GuardInv, CircuitInv
<1>6. ~misread' /\ ~strayed'
  BY <1>2 DEF CircuitInv
<1>7. CASE link' \in {"closed", "half"} /\ result' = "fail"
  <2>1. Quiet'
    BY <1>2, <1>4, <1>7 DEF Quiet
  <2> QED BY <1>1, <1>4, <1>5, <1>6, <2>1, QuietGood DEF OpenSteps
<1>8. CASE link' = "tls" /\ result' = "ok"
  <2>1. Shapes' /\ HopsVerified' /\ Growth' /\ Forward' /\ Backward'
    BY <1>2, <1>4, EmptyGood
  <2>2. CreateInv' /\ QuietInv'
    BY <1>1, <1>4, <1>8 DEF CreateInv, QuietInv, Opened
  <2>3. Progress' /\ Widths' /\ AskInv'
    BY <1>1, <1>2, <1>4, <1>8 DEF Progress, OpenSteps, Widths, NotYet, AskInv
  <2> QED BY <1>1, <1>4, <1>5, <1>6, <2>1, <2>2, <2>3 DEF CircuitInv, LiveInv
<1> QED BY <1>2, <1>7, <1>8

\* linkHandshake, up to its VERSIONS
LEMMA Linking ==
  ASSUME CircuitInv, UNCHANGED cmdVars, call = "none", result = "none", Now = "link", LinkHandshake
  PROVE  CircuitInv'
<1>1. /\ TodoOK(cmd, todo)' /\ Now' = "link" /\ cmd' = cmd
      /\ torSelectedIdentity' = torSelectedIdentity /\ torMiddleIdentity' = torMiddleIdentity
      /\ torExitIdentity' = torExitIdentity
  BY Standing DEF CircuitInv
<1>2. /\ inbox' = inbox /\ path' = path /\ hops' = hops /\ link' = link /\ torn' = torn
      /\ guard' = guard /\ wide' = wide /\ misread' = misread /\ strayed' = strayed
      /\ circIdLen' = 2
      /\ \/ asked' = Ask("versions", None, None) /\ call' = "link" /\ result' = "none"
         \/ asked' = asked /\ call' = "none" /\ result' = "fail"
  BY DEF LinkHandshake, FirstWidth
<1>3. LiveInv
  BY DEF CircuitInv, Live
<1>4. hops = <<>> /\ path = <<>> /\ inbox = <<>> /\ link # "open" /\ asked = NoAsk /\ ~torn
  BY <1>3 DEF LiveInv, Progress, Widths, NotYet
<1>5. Shapes' /\ HopsVerified' /\ Growth' /\ Forward' /\ Backward'
  BY <1>2, <1>4, EmptyGood
<1>6. GuardInv' /\ QuietInv' /\ CreateInv'
  BY <1>1, <1>2, <1>4 DEF GuardInv, CircuitInv, QuietInv, Opened, OpenSteps, CreateInv
<1>7. ~misread' /\ ~strayed'
  BY <1>2 DEF CircuitInv
<1>8. CASE asked' = asked /\ call' = "none" /\ result' = "fail"
  <2>1. CallInv' /\ ~Live'
    BY <1>1, <1>8 DEF CallInv, CallSteps, Live
  <2> QED BY <1>1, <1>5, <1>6, <1>7, <2>1 DEF CircuitInv
<1>9. CASE asked' = Ask("versions", None, None) /\ call' = "link" /\ result' = "none"
  <2>1. asked'.what = "versions"
    BY <1>9 DEF Ask
  <2>2. CallInv'
    BY <1>1, <1>9 DEF CallInv, Waiting
  <2>3. Progress' /\ AskInv'
    BY <1>1, <1>2, <1>4, <1>9, <2>1 DEF Progress, AskInv, OpenSteps
  <2>4. Widths'
    BY <1>1, <1>2, <1>4, <1>9, <2>1 DEF Widths, Fresh
  <2> QED BY <1>1, <1>5, <1>6, <1>7, <2>2, <2>3, <2>4 DEF CircuitInv, LiveInv
<1> QED BY <1>2, <1>8, <1>9

\* createCircuit, up to what it waits for
LEMMA Creating ==
  ASSUME CircuitInv, UNCHANGED cmdVars, call = "none", result = "none", Now = "create", CreateCircuit
  PROVE  CircuitInv'
<1>1. /\ TodoOK(cmd, todo)' /\ Now' = "create" /\ cmd' = cmd
      /\ torSelectedIdentity' = torSelectedIdentity
  BY Standing DEF CircuitInv
<1>2. /\ inbox' = inbox /\ path' = path /\ hops' = hops /\ link' = link /\ torn' = torn
      /\ guard' = guard /\ wide' = wide /\ misread' = misread /\ strayed' = strayed
      /\ circIdLen' = circIdLen
      /\ \/ /\ asked'.what = "create" /\ asked'.relay \in {guard.id, None}
            /\ call' = "create" /\ result' = "none"
         \/ asked' = asked /\ call' = "none" /\ result' = "fail"
  BY DEF CreateCircuit, Ask, clientVars
<1>3. LiveInv
  BY DEF CircuitInv, Live
<1>4. hops = <<>> /\ path = <<>> /\ link = "open" /\ ~torn /\ Agreed
  BY <1>3 DEF LiveInv, Progress, Widths, OpenSteps
<1>5. \A i \in 1 .. Len(inbox) : ~Grow(inbox[i])
  BY <1>3, Between DEF LiveInv
<1>6. Shapes' /\ HopsVerified'
  BY <1>1, <1>2, <1>4, EmptyIs DEF CircuitInv, Shapes, HopsVerified
<1>7. GuardInv' /\ QuietInv' /\ CreateInv'
  BY <1>1, <1>2, <1>4 DEF GuardInv, CircuitInv, QuietInv, Opened, OpenSteps, CreateInv
<1>8. ~misread' /\ ~strayed'
  BY <1>2 DEF CircuitInv
<1>9. CASE asked' = asked /\ call' = "none" /\ result' = "fail"
  <2>1. CallInv' /\ ~Live'
    BY <1>1, <1>9 DEF CallInv, CallSteps, Live
  <2> QED BY <1>1, <1>6, <1>7, <1>8, <2>1 DEF CircuitInv
<1>10. CASE asked'.what = "create" /\ asked'.relay \in {guard.id, None}
            /\ call' = "create" /\ result' = "none"
  <2>1. CallInv'
    BY <1>1, <1>10 DEF CallInv, Waiting
  <2>2. Progress'
    BY <1>1, <1>2, <1>4, <1>10 DEF Progress, OpenSteps
  <2>3. AskInv'
    BY <1>2, <1>4, <1>10 DEF AskInv, Pending
  <2>4. Agreed'
    BY <1>2, <1>4, <1>10 DEF Agreed, Later, Width
  <2>5. Widths'
    BY <1>1, <1>2, <1>4, <1>10, <2>4 DEF Widths
  <2>6. Growth'
    BY <1>2, <1>3, <1>5 DEF LiveInv, Growth, Grow
  <2>7. Forward' /\ Backward'
    BY <1>2, <1>3 DEF LiveInv, Forward, Backward
  <2> QED BY <1>1, <1>6, <1>7, <1>8, <2>1, <2>2, <2>3, <2>5, <2>6, <2>7 DEF CircuitInv, LiveInv
<1> QED BY <1>2, <1>9, <1>10

\* A command makes a call.
LEMMA Calling ==
  ASSUME CircuitInv, Call
  PROVE  CircuitInv'
<1>1. call = "none" /\ result = "none" /\ UNCHANGED cmdVars
  BY DEF Call
<1>2. CASE At("fetch") /\ FetchDescriptor
  BY <1>1, <1>2, AtIs, Fetching
<1>3. CASE At("tls") /\ OpenTls
  BY <1>1, <1>3, AtIs, Opening
<1>4. CASE At("link") /\ LinkHandshake
  BY <1>1, <1>4, AtIs, Linking
<1>5. CASE At("create") /\ CreateCircuit
  BY <1>1, <1>5, AtIs, Creating
<1>6. ASSUME NEW step \in {"extendMiddle", "extendExit"},
             At(step), ExtendCircuit(Extends(step)[1], Extends(step)[2])
      PROVE  CircuitInv'
  <2> DEFINE ask == Ask("extend", Extends(step)[1], Extends(step)[2])
  <2>1. Now = step
    BY <1>6, AtIs
  <2>2. LiveInv
    BY <1>1, <2>1 DEF CircuitInv, Live
  <2>3. hops # <<>> /\ SendRelayCell(ask, "extend")
        /\ UNCHANGED <<link, clientVars, wide, extra, inbox, torn, misread>>
    BY <1>6 DEF ExtendCircuit
  <2>4. ask.what = "extend" /\ ask.relay = Extends(Now)[1]
    BY <2>1 DEF Ask
  <2>5. Waiting(Now, "extend") /\ Now \notin {"link", "create"}
    BY <2>1 DEF Waiting
  <2> HIDE DEF ask
  <2> QED BY <1>1, <2>2, <2>3, <2>4, <2>5, Sending
<1>7. ASSUME NEW step \in {"dir", "tcp"}, NEW w,
             w = (IF step = "dir" THEN "dirConnect" ELSE "tcpConnect"),
             At(step), BeginFetch(w)
      PROVE  CircuitInv'
  <2> DEFINE ask == Ask("begin", None, None)
  <2>1. Now = step
    BY <1>7, AtIs
  <2>2. LiveInv
    BY <1>1, <2>1 DEF CircuitInv, Live
  <2>3. hops # <<>> /\ SendRelayCell(ask, w)
        /\ UNCHANGED <<link, clientVars, wide, extra, inbox, torn, misread>>
    BY <1>7 DEF BeginFetch
  <2>4. ask.what = "begin"
    BY DEF Ask
  <2>5. Waiting(Now, w) /\ Now \notin {"link", "create"} /\ w \notin {"none", "create"}
    BY <1>7, <2>1 DEF Waiting
  <2> HIDE DEF ask
  <2> QED BY <1>1, <2>2, <2>3, <2>4, <2>5, Sending
<1>8. CASE At("dir") /\ BeginFetch("dirConnect")
  BY <1>7, <1>8
<1>9. CASE At("tcp") /\ BeginFetch("tcpConnect")
  BY <1>7, <1>9
<1> QED BY <1>2, <1>3, <1>4, <1>5, <1>6, <1>8, <1>9 DEF Call

-------------------------------------------------------------------------------
(* The cells read *)

\* A call in progress
LEMMA InCall ==
  ASSUME CircuitInv, call # "none"
  PROVE  /\ LiveInv /\ result = "none" /\ Waiting(Now, call) /\ Now \in CallSteps
         /\ Now \in OpenSteps \ {"close"}
<1>1. Live
  BY DEF Live
<1>2. Waiting(Now, call) /\ result = "none"
  BY DEF CircuitInv, CallInv
<1> QED BY <1>1, <1>2 DEF CircuitInv, Waiting, CallSteps, OpenSteps

\* The call fails, or is the last of its command.
LEMMA Ending ==
  ASSUME CircuitInv, call # "none", UNCHANGED cmdVars, call' = "none",
         result' = "fail" \/ (result' = "ok" /\ Now \in {"dir", "tcp"}),
         guard' = guard, asked' = asked, path' = path, ASeq(inbox'), ~misread',
         ~strayed', ASeq(hops'), Len(hops') = Len(hops),
         \A h \in 1 .. Len(hops) : HopForm(hops'[h]) /\ hops'[h].relay = hops[h].relay
  PROVE  CircuitInv'
<1>1. /\ cmd' = cmd /\ Now' = Now /\ torSelectedIdentity' = torSelectedIdentity
      /\ torMiddleIdentity' = torMiddleIdentity /\ torExitIdentity' = torExitIdentity
  BY Standing
<1>2. Now \in CallSteps /\ Now \in OpenSteps
  BY InCall
<1>3. Opened' /\ ~Live'
  BY <1>1, <1>2 DEF Opened, Live
<1>4. DOMAIN hops' = 1 .. Len(hops) /\ DOMAIN hops = 1 .. Len(hops)
  BY SeqIs DEF CircuitInv, Shapes
<1>5. Shapes'
  BY DEF CircuitInv, Shapes
<1>6. Len(hops') <= Len(path')
  BY DEF CircuitInv, HopsVerified
<1>7. HopsVerified'
  BY <1>1, <1>4, <1>6, VerifiedKept DEF CircuitInv
<1>8. CreateInv'
  <2>1. hops = <<>> => hops' = <<>>
    BY SeqIs DEF CircuitInv, Shapes
  <2> QED BY <2>1 DEF CircuitInv, CreateInv
<1>9. GuardInv'
  BY <1>1 DEF CircuitInv, GuardInv
<1> QED BY <1>2, <1>3, <1>5, <1>7, <1>8, <1>9, Stopped

\* A read fails: the call is over, with whatever was read.
LEMMA Breaking ==
  ASSUME CircuitInv, UNCHANGED cmdVars, ReadFails
  PROVE  CircuitInv'
<1>1. call # "none" /\ Waiting(Now, call)
  BY InCall DEF ReadFails, RelayCalls
<1>2. call' = "none" /\ (result' = "fail" \/ (result' = "ok" /\ Now \in {"dir", "tcp"}))
  BY <1>1 DEF ReadFails, Ends, Waiting
<1>3. /\ guard' = guard /\ asked' = asked /\ path' = path /\ ~misread' /\ ~strayed'
      /\ hops' = hops
  BY DEF ReadFails, clientVars, relayVars, CircuitInv
<1>4. ASeq(inbox')
  <2>1. ASeq(inbox)
    BY DEF CircuitInv, Shapes
  <2> QED BY <2>1, SeqLess DEF ReadFails
<1> QED BY <1>1, <1>2, <1>3, <1>4, Ending DEF CircuitInv, Shapes

\* A cell is read whole.
LEMMA Reading ==
  ASSUME CircuitInv, call # "none", NEW c, ReadCell(c)
  PROVE  /\ ~misread' /\ torn' = torn /\ inbox # <<>> /\ inbox' = Tail(inbox) /\ c = inbox[1]
         /\ 1 \in 1 .. Len(inbox) /\ ASeq(inbox) /\ ASeq(inbox') /\ Len(inbox') = Len(inbox) - 1
         /\ \A i \in 1 .. Len(inbox') : /\ inbox'[i] = inbox[i + 1] /\ i + 1 \in 1 .. Len(inbox)
                                        /\ i + 1 # 1
<1>1. inbox # <<>> /\ inbox' = Tail(inbox) /\ c = Head(inbox) /\ torn' = torn
  BY DEF ReadCell
<1>2. ASeq(inbox)
  BY DEF CircuitInv, Shapes
<1>3. c = inbox[1] /\ 1 \in 1 .. Len(inbox) /\ Len(inbox) \in Nat
  BY <1>1, <1>2, SeqIs
<1>4. ASeq(inbox') /\ Len(inbox') = Len(inbox) - 1
      /\ \A i \in 1 .. Len(inbox') : inbox'[i] = inbox[i + 1]
  BY <1>1, <1>2, SeqLess
<1>5. \A i \in 1 .. Len(inbox') : i + 1 \in 1 .. Len(inbox) /\ i + 1 # 1
  <2> DEFINE n == Len(inbox)
  <2>1. n \in Nat /\ Len(inbox') = n - 1
    BY <1>3, <1>4
  <2> HIDE DEF n
  <2>2. \A i \in 1 .. n - 1 : i + 1 \in 1 .. n /\ i + 1 # 1
    BY <2>1
  <2> QED BY <2>1, <2>2 DEF n
<1>6. ~misread /\ ~torn
  BY InCall DEF CircuitInv, LiveInv, Widths
<1>7. c.width = circIdLen
  <2>1. NotYet \/ Fresh \/ Offered \/ Agreed
    BY InCall DEF LiveInv, Widths
  <2>2. CASE NotYet \/ Fresh
    BY <2>2, <1>1 DEF NotYet, Fresh
  <2>3. CASE Offered
    BY <2>3, <1>3 DEF Offered
  <2>4. CASE Agreed
    BY <2>4, <1>3 DEF Agreed, Later
  <2> QED BY <2>1, <2>2, <2>3, <2>4
<1>8. ~misread'
  BY <1>6, <1>7 DEF ReadCell
<1> QED BY <1>1, <1>2, <1>3, <1>4, <1>5, <1>8

\* Behind the agreed width every cell has it, and so have those behind it.
LEMMA StillAgreed ==
  ASSUME Agreed, inbox # <<>>, circIdLen' = circIdLen, wide' = wide, asked' = asked,
         \A i \in 1 .. Len(inbox') : inbox'[i] = inbox[i + 1] /\ i + 1 \in 1 .. Len(inbox)
  PROVE  Agreed'
<1>1. Width' = Width
  BY DEF Width
<1>2. \A i \in 1 .. Len(inbox') : inbox'[i].width = Width /\ inbox'[i].cmd # "VERSIONS"
  BY DEF Agreed, Later
<1> QED BY <1>1, <1>2 DEF Agreed, Later

\* linkHandshake reads a cell: from the VERSIONS on both ends agree on the width.
LEMMA LinkRead ==
  ASSUME CircuitInv, UNCHANGED cmdVars, ReadLinkCell
  PROVE  CircuitInv'
<1>1. call = "link" /\ Now = "link" /\ LiveInv /\ result = "none"
  BY InCall DEF ReadLinkCell, Waiting
<1>2. /\ TodoOK(cmd, todo)' /\ cmd' = cmd /\ Now' = "link"
      /\ torSelectedIdentity' = torSelectedIdentity /\ torMiddleIdentity' = torMiddleIdentity
      /\ torExitIdentity' = torExitIdentity
  BY <1>1, Standing DEF CircuitInv
<1>3. PICK c : /\ ReadCell(c) /\ circIdLen' = WidthAfter(c)
               /\ IF gotNetinfo' THEN \/ gotVersions' /\ link' = "open" /\ Ends("ok")
                                      \/ Ends("fail") /\ UNCHANGED link
                  ELSE Waits /\ UNCHANGED link
  BY DEF ReadLinkCell
<1>4. /\ guard' = guard /\ hops' = hops /\ wide' = wide /\ path' = path /\ asked' = asked
      /\ strayed' = strayed
  BY DEF ReadLinkCell, relayVars
<1>5. /\ ~misread' /\ torn' = torn /\ inbox # <<>> /\ c = inbox[1]
      /\ 1 \in 1 .. Len(inbox) /\ ASeq(inbox')
      /\ \A i \in 1 .. Len(inbox') : /\ inbox'[i] = inbox[i + 1] /\ i + 1 \in 1 .. Len(inbox)
                                     /\ i + 1 # 1
  BY <1>1, <1>3, Reading
<1>6. /\ call' \in {"none", "link"} /\ (call' = "link" => result' = "none")
      /\ (call' = "none" => result' \in {"ok", "fail"})
      /\ (call' = "none" /\ result' = "ok" => link' = "open")
  BY <1>1, <1>3 DEF Ends, Waits
<1>7. hops = <<>> /\ path = <<>> /\ Len(hops) = 0 /\ Len(path) = 0
  BY <1>1, EmptyIs DEF LiveInv, Progress
<1>8. Agreed'
  <2>1. NotYet \/ Fresh \/ Offered \/ Agreed
    BY <1>1 DEF LiveInv, Widths
  <2>2. CASE Offered
    <3>1. c.cmd = "VERSIONS" /\ Width' = Width
      BY <2>2, <1>4, <1>5 DEF Offered, Width
    <3>2. circIdLen' = Width'
      BY <3>1, <1>3, <1>4 DEF WidthAfter, Width
    <3>3. asked'.what # "versions"
      BY <2>2, <1>4 DEF Offered
    <3>4. \A i \in 1 .. Len(inbox') : i + 1 \in 2 .. Len(inbox)
      <4> DEFINE n == Len(inbox)
      <4>1. \A i \in 1 .. Len(inbox') : i + 1 \in 1 .. n /\ i + 1 # 1
        BY <1>5
      <4>2. \A j \in 1 .. n : j # 1 => j \in 2 .. n
        OBVIOUS
      <4> HIDE DEF n
      <4>3. \A i \in 1 .. Len(inbox') : i + 1 \in 2 .. n
        BY <4>1, <4>2
      <4> QED BY <4>3 DEF n
    <3>5. \A i \in 1 .. Len(inbox') : inbox'[i].width = Width /\ inbox'[i].cmd # "VERSIONS"
      BY <2>2, <3>4, <1>5 DEF Offered, Later
    <3> QED BY <3>1, <3>2, <3>3, <3>5 DEF Agreed, Later
  <2>3. CASE Agreed
    <3>1. c.cmd # "VERSIONS"
      BY <2>3, <1>5 DEF Agreed, Later
    <3>2. circIdLen' = circIdLen
      BY <3>1, <1>3 DEF WidthAfter
    <3> QED BY <3>2, <2>3, <1>4, <1>5, StillAgreed
  <2> QED BY <2>1, <2>2, <2>3, <1>1, <1>5 DEF NotYet, Fresh
<1>9. CallInv'
  BY <1>2, <1>6 DEF CallInv, Waiting, CallSteps
<1>10. QuietInv' /\ GuardInv' /\ CreateInv'
  BY <1>1, <1>2, <1>4, <1>7 DEF QuietInv, Opened, OpenSteps, GuardInv, CreateInv, CircuitInv
<1>11. Shapes' /\ HopsVerified'
  BY <1>4, <1>5, <1>7, EmptyIs DEF Shapes, HopsVerified
<1>12. Progress'
  BY <1>2, <1>4, <1>6, <1>7 DEF Progress, OpenSteps
<1>13. Widths'
  <2>1. ~torn'
    BY <1>1, <1>5 DEF LiveInv, Widths
  <2>2. ~(call' = "none" /\ result' = "none")
    BY <1>6
  <2> QED BY <2>1, <2>2, <1>2, <1>8 DEF Widths
<1>14. AskInv'
  <2>1. asked.what \notin {"create", "extend", "begin", "get"}
    BY <1>1, <1>7 DEF LiveInv, AskInv
  <2> QED BY <2>1, <1>4 DEF AskInv
<1>15. Growth' /\ Forward' /\ Backward'
  <2>1. \A i \in 1 .. Len(inbox) : ~Grow(inbox[i])
    BY <1>1, Between DEF LiveInv
  <2>2. \A i \in 1 .. Len(inbox) : inbox[i].cmd # "RELAY"
    <3>1. \A i \in 1 .. 0 : FALSE
      OBVIOUS
    <3>2. \A i \in 1 .. Len(inbox) : inbox[i].cmd = "RELAY" => inbox[i].from \in 1 .. 0
      BY <1>1, <1>7 DEF LiveInv, Growth
    <3> QED BY <3>1, <3>2
  <2>3. \A i \in 1 .. Len(inbox') : ~Grow(inbox'[i]) /\ inbox'[i].cmd # "RELAY"
    BY <2>1, <2>2, <1>5
  <2>4. Len(hops') = 0 /\ Len(path') = 0 /\ \A i \in 1 .. 0 : FALSE
    BY <1>4, <1>7
  <2>5. Growth'
    BY <2>3, <2>4 DEF Growth
  <2> QED BY <2>4, <2>5 DEF Forward, Backward
<1>16. ~misread' /\ ~strayed'
  BY <1>4, <1>5 DEF CircuitInv
<1> QED BY <1>2, <1>9, <1>10, <1>11, <1>12, <1>13, <1>14, <1>15, <1>16 DEF CircuitInv, LiveInv

\* The first cell is no relay cell: the numbers behind it are the same.
LEMMA ChainPast ==
  ASSUME NEW ib, ASeq(ib), ib # <<>>, ib[1].cmd # "RELAY", NEW h, NEW b, NEW d, NEW b2, NEW d2,
         Chain(h, b, d, b2, d2, ib)
  PROVE  Chain(h, b, d, b2, d2, Tail(ib))
<1>1. PICK b1, d1 \in Nat : Numbered(h, ib[1], b, d, b1, d1) /\ Chain(h, b1, d1, b2, d2, Tail(ib))
  BY ChainTail
<1>2. b1 = b /\ d1 = d
  BY <1>1 DEF Numbered
<1> QED BY <1>1, <1>2

\* What is behind a cell that makes no hop
LEMMA GrowthRead ==
  ASSUME Growth, ASeq(inbox), inbox # <<>>, inbox' = Tail(inbox), ~Grow(inbox[1]),
         Len(path') = Len(path), Len(hops') = Len(hops),
         \A c : GrowOK(c, call, hops, path, Pending) => GrowOK(c, call', hops', path', Pending')
  PROVE  Growth'
<1> DEFINE n == Len(inbox)
<1>1. n \in Nat \ {0} /\ Len(inbox') = n - 1 /\ \A i \in 1 .. n - 1 : inbox'[i] = inbox[i + 1]
  BY SeqIs, SeqLess
<1>2. /\ Len(path) = Len(hops) \/ Len(path) = Len(hops) + 1
      /\ Len(path) # Len(hops) <=> \E i \in 1 .. n : Grow(inbox[i])
      /\ \A i, j \in 1 .. n : Grow(inbox[i]) /\ Grow(inbox[j]) => i = j
      /\ \A i \in 1 .. n : Grow(inbox[i]) => GrowOK(inbox[i], call, hops, path, Pending)
      /\ \A i \in 1 .. n : inbox[i].cmd = "RELAY" =>
           /\ inbox[i].from \in 1 .. Len(path)
           /\ inbox[i].from \in 1 .. Len(hops) \/ \E j \in 1 .. i - 1 : Grow(inbox[j])
  BY DEF Growth
<1> HIDE DEF n
<1>3. /\ \A i \in 1 .. n - 1 : i + 1 \in 1 .. n
      /\ \A i \in 1 .. n : i # 1 => i - 1 \in 1 .. n - 1 /\ (i - 1) + 1 = i
      /\ \A i, j \in 1 .. n - 1 : i + 1 = j + 1 => i = j
      /\ \A i \in 1 .. n - 1 : \A j \in 1 .. (i + 1) - 1 :
           j # 1 => j - 1 \in 1 .. i - 1 /\ j - 1 \in 1 .. n - 1 /\ (j - 1) + 1 = j
  BY <1>1
<1>4. Len(path') # Len(hops') <=> \E i \in 1 .. n - 1 : Grow(inbox'[i])
  <2>1. ASSUME NEW i \in 1 .. n, Grow(inbox[i]) PROVE \E k \in 1 .. n - 1 : Grow(inbox'[k])
    <3>1. i - 1 \in 1 .. n - 1 /\ (i - 1) + 1 = i
      BY <2>1, <1>3
    <3>2. inbox'[i - 1] = inbox[i]
      BY <3>1, <1>1
    <3> QED BY <3>1, <3>2, <2>1
  <2>2. ASSUME NEW k \in 1 .. n - 1, Grow(inbox'[k]) PROVE \E i \in 1 .. n : Grow(inbox[i])
    BY <2>2, <1>1, <1>3
  <2> QED BY <2>1, <2>2, <1>2
<1>5. \A i, j \in 1 .. n - 1 : Grow(inbox'[i]) /\ Grow(inbox'[j]) => i = j
  <2> TAKE i, j \in 1 .. n - 1
  <2> HAVE Grow(inbox'[i]) /\ Grow(inbox'[j])
  <2>1. Grow(inbox[i + 1]) /\ Grow(inbox[j + 1])
    BY <1>1
  <2> QED BY <2>1, <1>2, <1>3
<1>6. \A i \in 1 .. n - 1 : Grow(inbox'[i]) => GrowOK(inbox'[i], call', hops', path', Pending')
  <2> TAKE i \in 1 .. n - 1
  <2>1. inbox'[i] = inbox[i + 1] /\ i + 1 \in 1 .. n
    BY <1>1, <1>3
  <2> QED BY <2>1, <1>2
<1>7. \A i \in 1 .. n - 1 : inbox'[i].cmd = "RELAY" =>
           /\ inbox'[i].from \in 1 .. Len(path')
           /\ inbox'[i].from \in 1 .. Len(hops') \/ \E j \in 1 .. i - 1 : Grow(inbox'[j])
  <2> TAKE i \in 1 .. n - 1
  <2> HAVE inbox'[i].cmd = "RELAY"
  <2> DEFINE k == i + 1
  <2>1. inbox'[i] = inbox[k] /\ k \in 1 .. n
    BY <1>1, <1>3
  <2>2. \A j \in 1 .. k - 1 : j # 1 => j - 1 \in 1 .. i - 1 /\ j - 1 \in 1 .. n - 1 /\ (j - 1) + 1 = j
    BY <1>3
  <2> HIDE DEF k
  <2>3. inbox[k].from \in 1 .. Len(path)
        /\ (inbox[k].from \in 1 .. Len(hops) \/ \E j \in 1 .. k - 1 : Grow(inbox[j]))
    BY <2>1, <1>2
  <2>4. ASSUME NEW j \in 1 .. k - 1, Grow(inbox[j]) PROVE \E m \in 1 .. i - 1 : Grow(inbox'[m])
    <3>1. j # 1
      BY <2>4
    <3>2. j - 1 \in 1 .. i - 1 /\ j - 1 \in 1 .. n - 1 /\ (j - 1) + 1 = j
      BY <3>1, <2>2
    <3>3. inbox'[j - 1] = inbox[j]
      BY <3>2, <1>1
    <3> QED BY <3>2, <3>3, <2>4
  <2> QED BY <2>1, <2>3, <2>4
<1>8. Len(path') = Len(hops') \/ Len(path') = Len(hops') + 1
  BY <1>2
<1>9. Len(inbox') = n - 1
  BY <1>1
<1> DEFINE m == n - 1
<1> HIDE DEF m
<1>10. /\ Len(inbox') = m
       /\ Len(path') # Len(hops') <=> \E i \in 1 .. m : Grow(inbox'[i])
       /\ \A i, j \in 1 .. m : Grow(inbox'[i]) /\ Grow(inbox'[j]) => i = j
       /\ \A i \in 1 .. m : Grow(inbox'[i]) => GrowOK(inbox'[i], call', hops', path', Pending')
       /\ \A i \in 1 .. m : inbox'[i].cmd = "RELAY" =>
           /\ inbox'[i].from \in 1 .. Len(path')
           /\ inbox'[i].from \in 1 .. Len(hops') \/ \E j \in 1 .. i - 1 : Grow(inbox'[j])
  BY <1>4, <1>5, <1>6, <1>7, <1>9 DEF m
<1> QED BY <1>8, <1>10 DEF Growth

\* A cell that is no relay cell and makes no hop is read, and the call waits on.
LEMMA PlainRead ==
  ASSUME CircuitInv, call # "none", Now # "link", UNCHANGED cmdVars, NEW c, ReadCell(c),
         c.cmd # "RELAY", ~Grow(c), Waits,
         UNCHANGED <<link, clientVars, hops, relayVars, strayed>>
  PROVE  CircuitInv'
<1>1. /\ LiveInv /\ result = "none" /\ Waiting(Now, call) /\ Now \in OpenSteps \ {"link", "close"}
      /\ Now \in CallSteps
  BY InCall
<1>2. /\ TodoOK(cmd, todo)' /\ cmd' = cmd /\ Now' = Now /\ Extends(Now)' = Extends(Now)
      /\ torSelectedIdentity' = torSelectedIdentity /\ torMiddleIdentity' = torMiddleIdentity
      /\ torExitIdentity' = torExitIdentity
  BY Standing DEF CircuitInv
<1>3. /\ link' = link /\ guard' = guard /\ circIdLen' = circIdLen /\ wide' = wide /\ path' = path
      /\ asked' = asked /\ hops' = hops /\ call' = call /\ result' = result /\ strayed' = strayed
  BY DEF clientVars, relayVars, Waits
<1>4. /\ ~misread' /\ torn' = torn /\ inbox # <<>> /\ c = inbox[1] /\ inbox' = Tail(inbox)
      /\ 1 \in 1 .. Len(inbox) /\ ASeq(inbox) /\ ASeq(inbox')
      /\ \A i \in 1 .. Len(inbox') : /\ inbox'[i] = inbox[i + 1] /\ i + 1 \in 1 .. Len(inbox)
                                     /\ i + 1 # 1
  BY Reading
<1>5. CallInv' /\ QuietInv' /\ GuardInv' /\ CreateInv'
  BY <1>1, <1>2, <1>3 DEF CircuitInv, CallInv, QuietInv, Opened, OpenSteps, GuardInv, CreateInv
<1>6. Shapes'
  BY <1>3, <1>4 DEF CircuitInv, Shapes
<1>7. HopsVerified'
  BY <1>2, <1>3 DEF CircuitInv, HopsVerified
<1>8. Progress'
  BY <1>1, <1>2, <1>3 DEF LiveInv, Progress
<1>9. Widths'
  <2>1. link = "open" /\ Agreed /\ ~torn
    BY <1>1 DEF LiveInv, Progress, Widths
  <2>2. Agreed'
    BY <2>1, <1>3, <1>4, StillAgreed
  <2> QED BY <2>1, <2>2, <1>1, <1>2, <1>3, <1>4 DEF Widths, OpenSteps, Waiting
<1>10. Pending' = Pending /\ AskInv'
  <2>1. Pending' = Pending
    BY <1>2, <1>3 DEF Pending
  <2> QED BY <2>1, <1>1, <1>3 DEF LiveInv, AskInv
<1>11. Growth'
  <2>1. ~Grow(inbox[1])
    BY <1>4
  <2> QED BY <1>1, <1>3, <1>4, <1>10, <2>1, GrowthRead DEF LiveInv
<1>12. Forward'
  BY <1>1, <1>3 DEF LiveInv, Forward
<1>13. Backward'
  <2>1. inbox[1].cmd # "RELAY"
    BY <1>4
  <2>2. \A h, b, d, b2, d2 : Chain(h, b, d, b2, d2, inbox) => Chain(h, b, d, b2, d2, Tail(inbox))
    BY <1>4, <2>1, ChainPast
  <2>3. \A h, b, d, b2, d2 : Chain(h, b, d, b2, d2, inbox) => Chain(h, b, d, b2, d2, inbox')
    BY <1>4, <2>2
  <2> QED BY <2>3, <1>1, <1>3 DEF LiveInv, Backward
<1>14. ~strayed'
  BY <1>3 DEF CircuitInv
<1> QED BY <1>2, <1>4, <1>5, <1>6, <1>7, <1>8, <1>9, <1>10, <1>11, <1>12, <1>13, <1>14
        DEF CircuitInv, LiveInv

\* A new hop
LEMMA HopIs ==
  ASSUME NEW r
  PROVE  /\ HopForm(Hop(r)) /\ Hop(r).relay = r
         /\ Hop(r).fwd = 0 /\ Hop(r).bwd = 0 /\ Hop(r).fdig = 0 /\ Hop(r).bdig = 0
  BY DEF Hop, HopForm

\* The cell that makes a hop is read, and the hop is there: no other is on its way.
LEMMA GrowthDone ==
  ASSUME Growth, ASeq(inbox), inbox # <<>>, inbox' = Tail(inbox), Grow(inbox[1]),
         Len(path') = Len(path), Len(hops') = Len(path)
  PROVE  Growth'
<1> DEFINE n == Len(inbox)
<1>1. n \in Nat \ {0} /\ Len(inbox') = n - 1 /\ \A i \in 1 .. n - 1 : inbox'[i] = inbox[i + 1]
  BY SeqIs, SeqLess
<1>2. /\ \A i, j \in 1 .. n : Grow(inbox[i]) /\ Grow(inbox[j]) => i = j
      /\ \A i \in 1 .. n : inbox[i].cmd = "RELAY" => inbox[i].from \in 1 .. Len(path)
  BY DEF Growth
<1> HIDE DEF n
<1>3. 1 \in 1 .. n /\ \A i \in 1 .. n - 1 : i + 1 \in 1 .. n /\ i + 1 # 1
  BY <1>1
<1>4. \A i \in 1 .. n - 1 : /\ ~Grow(inbox'[i])
                            /\ inbox'[i].cmd = "RELAY" => inbox'[i].from \in 1 .. Len(path)
  BY <1>1, <1>2, <1>3
<1> DEFINE m == n - 1
<1>5. Len(inbox') = m /\ \A i \in 1 .. m : /\ ~Grow(inbox'[i])
                            /\ inbox'[i].cmd = "RELAY" => inbox'[i].from \in 1 .. Len(path)
  BY <1>1, <1>4
<1> HIDE DEF m
<1> QED BY <1>5 DEF Growth

\* createCircuit reads a cell: a CREATED2 that verifies makes the first hop.
LEMMA CreatedRead ==
  ASSUME CircuitInv, UNCHANGED cmdVars, ReadCreated
  PROVE  CircuitInv'
<1>1. call = "create" /\ Now = "create" /\ LiveInv /\ result = "none"
  BY InCall DEF ReadCreated, Waiting
<1>2. /\ TodoOK(cmd, todo)' /\ cmd' = cmd /\ Now' = "create"
      /\ torSelectedIdentity' = torSelectedIdentity /\ torMiddleIdentity' = torMiddleIdentity
      /\ torExitIdentity' = torExitIdentity
  BY <1>1, Standing DEF CircuitInv
<1>3. PICK c : /\ ReadCell(c)
               /\ \/ c.cmd = "CREATED2" /\ Verified(c) /\ Ends("ok") /\ hops' = <<Hop(guard.id)>>
                  \/ c.cmd = "CREATED2" /\ ~Verified(c) /\ Ends("fail") /\ UNCHANGED hops
                  \/ c.cmd = "DESTROY" /\ c.ours /\ Ends("fail") /\ UNCHANGED hops
                  \/ c.cmd # "CREATED2" /\ ~(c.cmd = "DESTROY" /\ c.ours) /\ Waits /\ UNCHANGED hops
  BY DEF ReadCreated
<1>4. /\ UNCHANGED <<link, clientVars, relayVars, strayed>>
      /\ link' = link /\ guard' = guard /\ circIdLen' = circIdLen /\ wide' = wide /\ path' = path
      /\ asked' = asked /\ strayed' = strayed
  BY DEF ReadCreated, clientVars, relayVars
<1>5. /\ ~misread' /\ torn' = torn /\ inbox # <<>> /\ inbox' = Tail(inbox) /\ c = inbox[1]
      /\ 1 \in 1 .. Len(inbox) /\ ASeq(inbox) /\ ASeq(inbox')
      /\ \A i \in 1 .. Len(inbox') : /\ inbox'[i] = inbox[i + 1] /\ i + 1 \in 1 .. Len(inbox)
                                     /\ i + 1 # 1
  BY <1>1, <1>3, Reading
<1>6. hops = <<>> /\ Len(hops) = 0 /\ link = "open"
  BY <1>1, EmptyIs DEF LiveInv, Progress, OpenSteps
<1>7. ASSUME Ends("fail"), UNCHANGED hops
      PROVE  CircuitInv'
  <2>1. call' = "none" /\ result' = "fail" /\ hops' = hops
    BY <1>7 DEF Ends
  <2>3. /\ ASeq(hops') /\ Len(hops') = Len(hops) /\ ~strayed'
        /\ \A h \in 1 .. Len(hops) : HopForm(hops'[h]) /\ hops'[h].relay = hops[h].relay
    BY <2>1, <1>4 DEF CircuitInv, Shapes
  <2> QED BY <2>1, <2>3, <1>1, <1>4, <1>5, Ending
<1>8. ASSUME c.cmd # "CREATED2", Waits, UNCHANGED hops
      PROVE  CircuitInv'
  <2>1. c.cmd # "RELAY"
    <3>1. \A j \in 1 .. 0 : FALSE
      OBVIOUS
    <3>2. 1 - 1 = 0
      OBVIOUS
    <3>3. c.cmd = "RELAY" => c.from \in 1 .. 0 \/ \E j \in 1 .. 0 : Grow(inbox[j])
      BY <1>1, <1>5, <1>6, <3>2 DEF LiveInv, Growth
    <3> QED BY <3>1, <3>3
  <2>2. ~Grow(c)
    BY <1>8, <2>1 DEF Grow
  <2> QED BY <1>1, <1>3, <1>4, <1>8, <2>1, <2>2, PlainRead
<1>9. ASSUME c.cmd = "CREATED2", Verified(c), Ends("ok"), hops' = <<Hop(guard.id)>>
      PROVE  CircuitInv'
  <2>1. call' = "none" /\ result' = "ok"
    BY <1>9 DEF Ends
  <2>2. Len(hops') = 1 /\ ASeq(hops') /\ hops'[1] = Hop(guard.id) /\ DOMAIN hops' = 1 .. 1
        /\ hops' # <<>> /\ \A h \in 1 .. 1 : h = 1
    <3>1. hops' \in Seq({Hop(guard.id)}) /\ Len(hops') = 1 /\ hops'[1] = Hop(guard.id)
          /\ hops' # <<>> /\ \A h \in 1 .. 1 : h = 1
      BY <1>9
    <3>2. ASeq(hops')
      BY <3>1 DEF ASeq
    <3> QED BY <3>1, <3>2, SeqIs
  <2>3. Grow(c) /\ c.auth
    BY <1>9 DEF Grow, Verified
  <2>4. Len(path) = 1 /\ path[1].relay = guard.id /\ guard.id # None
    <3>1. Len(path) # Len(hops) /\ (Len(path) = Len(hops) \/ Len(path) = Len(hops) + 1)
      BY <1>1, <1>5, <2>3 DEF LiveInv, Growth
    <3>2. GrowOK(c, call, hops, path, Pending)
      BY <1>1, <1>5, <2>3 DEF LiveInv, Growth
    <3>3. Len(path) = 1
      BY <3>1, <1>6
    <3> QED BY <3>2, <3>3, <2>3, <1>1 DEF GrowOK, Pending
  <2>5. Growth'
    BY <1>1, <1>4, <1>5, <2>2, <2>3, <2>4, GrowthDone DEF LiveInv
  <2>6. CallInv' /\ QuietInv' /\ GuardInv'
    BY <1>1, <1>2, <1>4, <2>1
       DEF CircuitInv, CallInv, CallSteps, QuietInv, Opened, OpenSteps, GuardInv
  <2>7. Shapes'
    BY <1>4, <1>5, <2>2, HopIs DEF CircuitInv, Shapes
  <2>8. HopsVerified'
    <3> DEFINE roles == <<torSelectedIdentity', torMiddleIdentity', torExitIdentity'>>
    <3>1. roles[1] = torSelectedIdentity
      BY <1>2
    <3>2. cmd' # "connect" => guard.id = torSelectedIdentity
      BY <1>1, <1>2 DEF CircuitInv, GuardInv
    <3>3. Len(hops') <= Len(path')
      BY <1>4, <2>2, <2>4
    <3>4. \A h \in DOMAIN hops' : /\ path'[h].relay = hops'[h].relay /\ hops'[h].relay # None
                                  /\ cmd' # "connect" => hops'[h].relay = roles[h]
      BY <1>4, <2>2, <2>4, <3>1, <3>2, HopIs
    <3> HIDE DEF roles
    <3>5. cmd' # "connect" => \A h \in DOMAIN hops' : hops'[h].relay = roles[h]
      BY <3>4
    <3> QED BY <3>3, <3>4, <3>5 DEF HopsVerified, roles
  <2>9. asked.what \notin {"create", "extend", "begin", "get"}
    <3>1. path # <<>>
      BY <2>4, EmptyIs
    <3> QED BY <3>1, <1>1, <1>6 DEF LiveInv, AskInv
  <2>10. CreateInv' /\ AskInv'
    BY <1>4, <2>9 DEF CreateInv, AskInv
  <2>11. Progress'
    BY <1>2, <1>4, <1>6, <2>1, <2>2 DEF Progress
  <2>12. Widths'
    <3>1. Agreed /\ ~torn
      BY <1>1, <1>6 DEF LiveInv, Widths
    <3>2. Agreed'
      BY <3>1, <1>4, <1>5, StillAgreed
    <3> QED BY <3>1, <3>2, <1>2, <1>5 DEF Widths
  <2>13. Forward'
    <3>1. path[1].fwd = 0 /\ path[1].fdig = 0
      BY <1>1, <1>6, <2>4 DEF LiveInv, Forward
    <3> QED BY <3>1, <1>4, <2>2, <2>4, HopIs DEF Forward
  <2>14. Backward'
    <3>1. Chain(1, 0, 0, path[1].bwd, path[1].bdig, inbox)
      BY <1>1, <1>6, <2>4 DEF LiveInv, Backward
    <3>2. Chain(1, 0, 0, path[1].bwd, path[1].bdig, inbox')
      BY <3>1, <1>5, <1>9, ChainPast
    <3> QED BY <3>2, <1>4, <2>2, <2>4, HopIs DEF Backward
  <2>15. ~misread' /\ ~strayed'
    BY <1>4, <1>5 DEF CircuitInv
  <2> QED BY <1>2, <2>5, <2>6, <2>7, <2>8, <2>10, <2>11, <2>12, <2>13, <2>14, <2>15
          DEF CircuitInv, LiveInv
<1> QED BY <1>3, <1>7, <1>8, <1>9

\* A call on the circuit reads a cell that is no relay cell.
LEMMA OtherRead ==
  ASSUME CircuitInv, UNCHANGED cmdVars, ReadOtherCell
  PROVE  CircuitInv'
<1>1. /\ call \in RelayCalls /\ call # "none" /\ LiveInv /\ result = "none" /\ Waiting(Now, call)
      /\ call # "create" /\ Now # "link"
  BY InCall DEF ReadOtherCell, RelayCalls, Waiting
<1>2. PICK c : /\ ReadCell(c) /\ c.cmd # "RELAY"
               /\ IF c.cmd = "DESTROY" /\ c.ours
                  THEN Ends(IF call \in {"dirData", "tcpData"} THEN "ok" ELSE "fail")
                  ELSE Waits
  BY DEF ReadOtherCell
<1>3. /\ UNCHANGED <<link, clientVars, hops, relayVars, strayed>> /\ strayed' = strayed
      /\ guard' = guard /\ asked' = asked /\ path' = path /\ hops' = hops
  BY DEF ReadOtherCell, clientVars, relayVars
<1>4. ~misread' /\ c = inbox[1] /\ 1 \in 1 .. Len(inbox) /\ ASeq(inbox')
  BY <1>1, <1>2, Reading
<1>5. CASE Waits
  <2>1. ~Grow(c)
    <3>1. Grow(c) => GrowOK(c, call, hops, path, Pending)
      BY <1>1, <1>4 DEF LiveInv, Growth
    <3> QED BY <3>1, <1>1, <1>2 DEF Grow, GrowOK
  <2> QED BY <1>1, <1>2, <1>3, <1>5, <2>1, PlainRead
<1>6. CASE Ends(IF call \in {"dirData", "tcpData"} THEN "ok" ELSE "fail")
  <2>1. call' = "none" /\ (result' = "fail" \/ (result' = "ok" /\ Now \in {"dir", "tcp"}))
    BY <1>1, <1>6 DEF Ends, Waiting
  <2>2. /\ ASeq(hops') /\ Len(hops') = Len(hops) /\ ~strayed'
        /\ \A h \in 1 .. Len(hops) : HopForm(hops'[h]) /\ hops'[h].relay = hops[h].relay
    BY <1>3, <1>4 DEF CircuitInv, Shapes
  <2> QED BY <2>1, <2>2, <1>1, <1>3, <1>4, Ending
<1> QED BY <1>2, <1>5, <1>6

\* The hop a relay cell is from recognizes it, and no other does: behind it both
\* ends of every hop are in step again.
LEMMA Recognized ==
  ASSUME CircuitInv, call # "none", inbox # <<>>, NEW c, c = inbox[1], c.cmd = "RELAY"
  PROVE  /\ c.from \in 1 .. Len(hops) /\ Recognizes(c) = {c.from}
         /\ ASeq(Peeled(c)) /\ Len(Peeled(c)) = Len(hops)
         /\ \A h \in 1 .. Len(hops) :
              /\ Taken(hops[h], Peeled(c)[h], h, c.from)
              /\ Chain(h, Peeled(c)[h].bwd, Peeled(c)[h].bdig, path[h].bwd, path[h].bdig, Tail(inbox))
         /\ Len(path) # Len(hops) =>
              Chain(Len(path), 0, 0, path[Len(path)].bwd, path[Len(path)].bdig, Tail(inbox))
<1> DEFINE n == Len(hops)
           f == c.from
           T == Tail(inbox)
<1>1. Growth /\ Backward /\ n \in Nat /\ DOMAIN hops = 1 .. n /\ ASeq(inbox) /\ 1 \in 1 .. Len(inbox)
  BY InCall, SeqIs DEF CircuitInv, LiveInv, Shapes
<1>2. f \in 1 .. n
  <2>1. 1 - 1 = 0 /\ \A j \in 1 .. 0 : FALSE
    OBVIOUS
  <2>2. f \in 1 .. n \/ \E j \in 1 .. 1 - 1 : Grow(inbox[j])
    BY <1>1 DEF Growth
  <2> QED BY <2>1, <2>2
<1>3. \A h \in 1 .. n : HopForm(hops[h])
  BY DEF CircuitInv, Shapes
<1>4. \A h \in 1 .. n : Chain(h, hops[h].bwd, hops[h].bdig, path[h].bwd, path[h].bdig, inbox)
  BY <1>1 DEF Backward
<1>5. ASSUME NEW h \in 1 .. n
      PROVE  \E b, d \in Nat : /\ Numbered(h, c, hops[h].bwd, hops[h].bdig, b, d)
                               /\ Chain(h, b, d, path[h].bwd, path[h].bdig, T)
  BY <1>1, <1>4, ChainTail
<1> HIDE DEF n, f, T
<1>6. ASSUME NEW h \in 1 .. n
      PROVE  /\ h <= f => c.pos[h] = hops[h].bwd
             /\ h = f => c.dig = hops[h].bdig
  <2>1. PICK b, d \in Nat : Numbered(h, c, hops[h].bwd, hops[h].bdig, b, d)
    BY <1>5
  <2>2. h <= f <=> f >= h
    BY <1>1, <1>2
  <2> QED BY <2>1, <2>2, <1>2 DEF Numbered, f
<1>7. Recognizes(c) = {f}
  <2>1. \A j \in 1 .. f : j \in 1 .. n /\ j <= f
    BY <1>1, <1>2
  <2>2. f \in 1 .. n /\ f = c.from /\ hops[f].bdig = c.dig /\ \A j \in 1 .. f : hops[j].bwd = c.pos[j]
    BY <1>2, <1>6, <2>1 DEF f
  <2>3. \A h \in Recognizes(c) : h = f
    BY DEF Recognizes, f
  <2>4. f \in Recognizes(c)
    BY <1>1, <2>2 DEF Recognizes
  <2> QED BY <2>3, <2>4
<1>8. \A h : PeeledBy(h, Recognizes(c)) <=> h <= f
  BY <1>7 DEF PeeledBy
<1> DEFINE p == Peeled(c)
<1>9. p = [h \in 1 .. n |-> TakenHop(hops[h], h, f)]
  <2>1. \A h : h \in Recognizes(c) <=> h = f
    BY <1>7
  <2> QED BY <1>1, <1>8, <2>1 DEF Peeled, TakenHop
<1> HIDE DEF p
<1>10. p = [h \in 1 .. n |-> p[h]] /\ \A h \in 1 .. n : p[h] = TakenHop(hops[h], h, f)
  BY <1>9
<1>11. ASeq(p) /\ Len(p) = n
  BY <1>1, <1>10, SeqFun
<1>12. \A h \in 1 .. n : Taken(hops[h], p[h], h, f)
  BY <1>3, <1>10, TakenIs
<1>13. \A h \in 1 .. n : Chain(h, p[h].bwd, p[h].bdig, path[h].bwd, path[h].bdig, T)
  <2> TAKE h \in 1 .. n
  <2>1. PICK b, d \in Nat : /\ Numbered(h, c, hops[h].bwd, hops[h].bdig, b, d)
                            /\ Chain(h, b, d, path[h].bwd, path[h].bdig, T)
    BY <1>5
  <2>2. h <= f <=> f >= h
    BY <1>1, <1>2
  <2>3. /\ b = (IF h <= f THEN hops[h].bwd + 1 ELSE hops[h].bwd)
        /\ h <= f => d = (IF f = h THEN hops[h].bdig + 1 ELSE hops[h].bdig)
        /\ ~(h <= f) => d = hops[h].bdig
    BY <2>1, <2>2 DEF Numbered, f
  <2>4. h = f => h <= f
    BY <1>2
  <2>5. d = IF h = f THEN hops[h].bdig + 1 ELSE hops[h].bdig
    BY <2>3, <2>4
  <2>6. p[h].bwd = b /\ p[h].bdig = d
    BY <2>3, <2>5, <1>12 DEF Taken
  <2> QED BY <2>1, <2>6
<1>14. Len(path) # n =>
              Chain(Len(path), 0, 0, path[Len(path)].bwd, path[Len(path)].bdig, T)
  <2> SUFFICES ASSUME Len(path) # n
               PROVE  Chain(Len(path), 0, 0, path[Len(path)].bwd, path[Len(path)].bdig, T)
    OBVIOUS
  <2>1. PICK k : k = Len(path)
    OBVIOUS
  <2>2. k = n + 1
    BY <1>1, <2>1 DEF Growth, n
  <2>3. Chain(k, 0, 0, path[k].bwd, path[k].bdig, inbox)
    BY <1>1, <2>1 DEF Backward, n
  <2>4. PICK b, d \in Nat : Numbered(k, c, 0, 0, b, d) /\ Chain(k, b, d, path[k].bwd, path[k].bdig, T)
    BY <2>3, <1>1, ChainTail DEF T
  <2>5. ~(f >= k)
    BY <1>1, <1>2, <2>2
  <2>6. b = 0 /\ d = 0
    BY <2>4, <2>5 DEF Numbered, f
  <2> QED BY <2>1, <2>4, <2>6
<1> QED BY <1>2, <1>7, <1>11, <1>12, <1>13, <1>14 DEF n, f, T, p

\* A relay cell that makes no hop is read, and the command waits on.
LEMMA RelayWaits ==
  ASSUME CircuitInv, call # "none", Now # "link", UNCHANGED cmdVars, NEW c, ReadCell(c),
         c.cmd = "RELAY", ~Grow(c), hops' = Peeled(c),
         call' # "none", Waiting(Now, call'), result' = result, ~strayed',
         call' = call \/ (call' \notin {"create", "extend"} /\ call \notin {"create", "extend"}),
         UNCHANGED <<link, clientVars, relayVars>>
  PROVE  CircuitInv'
<1> DEFINE n == Len(hops)
<1>1. /\ LiveInv /\ result = "none" /\ Waiting(Now, call) /\ Now \in OpenSteps \ {"link", "close"}
      /\ Now \in CallSteps
  BY InCall
<1>2. /\ TodoOK(cmd, todo)' /\ cmd' = cmd /\ Now' = Now /\ Extends(Now)' = Extends(Now)
      /\ torSelectedIdentity' = torSelectedIdentity /\ torMiddleIdentity' = torMiddleIdentity
      /\ torExitIdentity' = torExitIdentity
  BY Standing DEF CircuitInv
<1>3. /\ link' = link /\ guard' = guard /\ circIdLen' = circIdLen /\ wide' = wide /\ path' = path
      /\ asked' = asked
  BY DEF clientVars, relayVars
<1>4. /\ ~misread' /\ torn' = torn /\ inbox # <<>> /\ c = inbox[1] /\ inbox' = Tail(inbox)
      /\ 1 \in 1 .. Len(inbox) /\ ASeq(inbox) /\ ASeq(inbox')
      /\ \A i \in 1 .. Len(inbox') : /\ inbox'[i] = inbox[i + 1] /\ i + 1 \in 1 .. Len(inbox)
                                     /\ i + 1 # 1
  BY Reading
<1>5. /\ c.from \in 1 .. n /\ ASeq(hops') /\ Len(hops') = n
      /\ \A h \in 1 .. n :
              /\ Taken(hops[h], hops'[h], h, c.from)
              /\ Chain(h, hops'[h].bwd, hops'[h].bdig, path[h].bwd, path[h].bdig, inbox')
      /\ Len(path) # n =>
              Chain(Len(path), 0, 0, path[Len(path)].bwd, path[Len(path)].bdig, inbox')
  BY <1>4, Recognized
<1>6. n \in Nat /\ n # 0 /\ DOMAIN hops = 1 .. n /\ DOMAIN hops' = 1 .. n
      /\ hops # <<>> /\ hops' # <<>>
  <2>1. n \in Nat /\ DOMAIN hops = 1 .. n /\ DOMAIN hops' = 1 .. n
    BY <1>5, SeqIs DEF CircuitInv, Shapes
  <2>2. n # 0
    BY <1>5, <2>1
  <2> QED BY <2>1, <2>2, <1>5, EmptyIs
<1>7. \A h \in 1 .. n : HopForm(hops'[h]) /\ hops'[h].relay = hops[h].relay
                        /\ hops'[h].fwd = hops[h].fwd /\ hops'[h].fdig = hops[h].fdig
  BY <1>5 DEF Taken
<1>8. CallInv' /\ QuietInv' /\ GuardInv'
  BY <1>1, <1>2, <1>3 DEF CircuitInv, CallInv, QuietInv, Opened, OpenSteps, GuardInv
<1>9. Shapes'
  BY <1>3, <1>4, <1>5, <1>7 DEF CircuitInv, Shapes
<1>10. HopsVerified'
  <2>1. Len(hops') <= Len(path')
    BY <1>3, <1>5 DEF CircuitInv, HopsVerified
  <2> QED BY <2>1, <1>2, <1>3, <1>6, <1>7, VerifiedKept DEF CircuitInv
<1>11. Progress'
  <2>1. Now # "create"
    BY <1>1, <1>6 DEF LiveInv, Progress
  <2> QED BY <2>1, <1>1, <1>2, <1>3, <1>5, <1>6 DEF LiveInv, Progress
<1>12. Widths'
  <2>1. link = "open" /\ Agreed /\ ~torn
    BY <1>1 DEF LiveInv, Progress, Widths
  <2>2. Agreed'
    BY <2>1, <1>3, <1>4, StillAgreed
  <2> QED BY <2>1, <2>2, <1>1, <1>2, <1>3, <1>4 DEF Widths, OpenSteps, Waiting
<1>13. call' = "create" => call = "create"
  OBVIOUS
<1>14. CreateInv' /\ AskInv' /\ Pending' = Pending
  <2>1. asked.what # "create"
    BY <1>6 DEF CircuitInv, CreateInv
  <2>2. Pending' = Pending
    BY <1>2, <1>3 DEF Pending
  <2> QED BY <2>1, <2>2, <1>1, <1>3, <1>5, <1>6 DEF LiveInv, AskInv, CreateInv
<1>15. Growth'
  <2>1. ~Grow(inbox[1]) /\ Len(path') = Len(path) /\ Len(hops') = Len(hops)
    BY <1>3, <1>4, <1>5
  <2>2. \A k : GrowOK(k, call, hops, path, Pending) => GrowOK(k, call', hops', path', Pending')
    BY <1>3, <1>5, <1>6, <1>14 DEF GrowOK
  <2> QED BY <1>1, <1>4, <2>1, <2>2, GrowthRead DEF LiveInv
<1>16. Forward'
  BY <1>1, <1>3, <1>5, <1>7 DEF LiveInv, Forward
<1>17. Backward'
  BY <1>3, <1>5 DEF Backward
<1> QED BY <1>2, <1>4, <1>8, <1>9, <1>10, <1>11, <1>12, <1>14, <1>15, <1>16, <1>17
        DEF CircuitInv, LiveInv

\* An EXTENDED2 that verifies is read: the hop is the one behind the path's last.
LEMMA ExtendedRead ==
  ASSUME CircuitInv, call = "extend", UNCHANGED cmdVars, NEW c, ReadCell(c), c.cmd = "RELAY",
         c.rcmd = "EXTENDED2", c.auth, call' = "none", result' = "ok", ~strayed',
         hops' = Append(Peeled(c), Hop(Pending)), UNCHANGED <<link, clientVars, relayVars>>
  PROVE  CircuitInv'
<1> DEFINE n == Len(hops)
           p == Peeled(c)
<1>1. /\ LiveInv /\ result = "none" /\ Now \in {"extendMiddle", "extendExit"}
      /\ Now \in OpenSteps \ {"link", "close"}
  BY InCall DEF Waiting
<1>2. /\ TodoOK(cmd, todo)' /\ cmd' = cmd /\ Now' = Now
      /\ torSelectedIdentity' = torSelectedIdentity /\ torMiddleIdentity' = torMiddleIdentity
      /\ torExitIdentity' = torExitIdentity
  BY Standing DEF CircuitInv
<1>3. /\ link' = link /\ guard' = guard /\ circIdLen' = circIdLen /\ wide' = wide /\ path' = path
      /\ asked' = asked
  BY DEF clientVars, relayVars
<1>4. /\ ~misread' /\ torn' = torn /\ inbox # <<>> /\ c = inbox[1] /\ inbox' = Tail(inbox)
      /\ 1 \in 1 .. Len(inbox) /\ ASeq(inbox) /\ ASeq(inbox')
      /\ \A i \in 1 .. Len(inbox') : /\ inbox'[i] = inbox[i + 1] /\ i + 1 \in 1 .. Len(inbox)
                                     /\ i + 1 # 1
  BY Reading
<1>5. /\ ASeq(p) /\ Len(p) = n
      /\ \A h \in 1 .. n :
              /\ Taken(hops[h], p[h], h, c.from)
              /\ Chain(h, p[h].bwd, p[h].bdig, path[h].bwd, path[h].bdig, inbox')
      /\ Len(path) # n =>
              Chain(Len(path), 0, 0, path[Len(path)].bwd, path[Len(path)].bdig, inbox')
  BY <1>4, Recognized
<1>6. Grow(c)
  BY DEF Grow
<1>7. n \in Nat /\ DOMAIN hops = 1 .. n
  BY SeqIs DEF CircuitInv, Shapes
<1>8. Len(path) = n + 1 /\ path[n + 1].relay = Pending /\ Pending # None
  <2>1. Len(path) # Len(hops) /\ (Len(path) = Len(hops) \/ Len(path) = Len(hops) + 1)
    BY <1>1, <1>4, <1>6 DEF LiveInv, Growth
  <2>2. GrowOK(c, call, hops, path, Pending)
    BY <1>1, <1>4, <1>6 DEF LiveInv, Growth
  <2>3. Len(path) = n + 1
    BY <2>1
  <2> QED BY <2>2, <2>3 DEF GrowOK
<1> HIDE DEF n, p
<1> DEFINE m == n + 1
<1>9. m \in Nat /\ m \in 1 .. m /\ (\A h \in 1 .. n : h \in 1 .. m)
      /\ (\A h \in 1 .. m : h \in 1 .. n \/ h = m) /\ m # 0
  BY <1>7
<1>10. ASeq(hops') /\ Len(hops') = m /\ hops'[m] = Hop(Pending) /\ \A h \in 1 .. n : hops'[h] = p[h]
  BY <1>5, SeqPlus DEF p
<1>11. Len(path) = m /\ path[m].relay = Pending /\ Len(path) # n
  BY <1>7, <1>8
<1> HIDE DEF m
<1>12. DOMAIN hops' = 1 .. m
  BY <1>10, SeqIs
<1>13. \A h \in 1 .. n : HopForm(hops'[h]) /\ hops'[h].relay = hops[h].relay
                        /\ hops'[h].fwd = hops[h].fwd /\ hops'[h].fdig = hops[h].fdig
  <2>1. \A h \in 1 .. n : Taken(hops[h], hops'[h], h, c.from)
    BY <1>5, <1>10
  <2> QED BY <2>1 DEF Taken
<1>14. CallInv' /\ QuietInv' /\ GuardInv'
  BY <1>1, <1>2, <1>3 DEF CircuitInv, CallInv, CallSteps, QuietInv, Opened, OpenSteps, GuardInv
<1>15. Shapes'
  <2>1. \A h \in 1 .. m : HopForm(hops'[h])
    BY <1>9, <1>10, <1>13, HopIs
  <2> QED BY <2>1, <1>3, <1>4, <1>10 DEF CircuitInv, Shapes
<1>16. n = IF Now = "extendMiddle" THEN 1 ELSE 2
  BY <1>1 DEF LiveInv, Progress, n
<1>17. Progress'
  <2>1. Len(hops') = IF Now = "extendMiddle" THEN 2 ELSE 3
    BY <1>10, <1>16 DEF m
  <2>2. link = "open"
    BY <1>1 DEF LiveInv, Progress
  <2> QED BY <2>1, <2>2, <1>1, <1>2, <1>3 DEF Progress
<1>18. HopsVerified'
  <2> DEFINE roles == <<torSelectedIdentity', torMiddleIdentity', torExitIdentity'>>
  <2>1. cmd # "connect" => \A h \in 1 .. n : hops[h].relay = roles[h]
    BY <1>2, <1>7 DEF CircuitInv, HopsVerified
  <2>2. Pending = roles[m]
    <3>1. CASE Now = "extendMiddle"
      <4>1. m = 2
        BY <1>16, <3>1 DEF m
      <4> QED BY <4>1, <3>1, <1>2 DEF Pending, Extends
    <3>2. CASE Now = "extendExit"
      <4>1. m = 3
        BY <1>16, <3>2 DEF m
      <4> QED BY <4>1, <3>2, <1>2 DEF Pending, Extends
    <3> QED BY <1>1, <3>1, <3>2
  <2>3. \A h \in 1 .. n : path[h].relay = hops[h].relay /\ hops[h].relay # None
    BY <1>7 DEF CircuitInv, HopsVerified
  <2> HIDE DEF roles
  <2>4. \A h \in DOMAIN hops' : path'[h].relay = hops'[h].relay /\ hops'[h].relay # None
    BY <2>3, <1>3, <1>8, <1>9, <1>10, <1>11, <1>12, <1>13, HopIs
  <2>5. cmd' # "connect" => \A h \in DOMAIN hops' : hops'[h].relay = roles[h]
    BY <2>1, <2>2, <1>2, <1>9, <1>10, <1>12, <1>13, HopIs
  <2>6. Len(hops') <= Len(path')
    <3>1. m <= m
      BY <1>9
    <3> QED BY <3>1, <1>3, <1>10, <1>11
  <2> QED BY <2>4, <2>5, <2>6 DEF HopsVerified, roles
<1>19. CreateInv' /\ AskInv'
  <2>1. asked.what \notin {"create", "extend", "begin", "get"}
    BY <1>1, <1>11 DEF LiveInv, AskInv, n
  <2> QED BY <2>1, <1>3 DEF CreateInv, AskInv
<1>20. Widths'
  <2>1. link = "open" /\ Agreed /\ ~torn
    BY <1>1 DEF LiveInv, Progress, Widths
  <2>2. Agreed'
    BY <2>1, <1>3, <1>4, StillAgreed
  <2> QED BY <2>1, <2>2, <1>1, <1>2, <1>3, <1>4 DEF Widths
<1>21. Growth'
  <2>1. Grow(inbox[1]) /\ Len(path') = Len(path) /\ Len(hops') = Len(path)
    BY <1>3, <1>4, <1>6, <1>10, <1>11
  <2> QED BY <1>1, <1>4, <2>1, GrowthDone DEF LiveInv
<1>22. Forward'
  <2>1. \A h \in 1 .. n : path[h].fwd = hops[h].fwd /\ path[h].fdig = hops[h].fdig
    BY <1>1 DEF LiveInv, Forward, n
  <2>2. path[m].fwd = 0 /\ path[m].fdig = 0
    BY <1>1, <1>11 DEF LiveInv, Forward, n
  <2>3. \A h \in 1 .. m : path[h].fwd = hops'[h].fwd /\ path[h].fdig = hops'[h].fdig
    BY <2>1, <2>2, <1>9, <1>10, <1>13, HopIs
  <2> QED BY <2>3, <1>3, <1>10, <1>11 DEF Forward
<1>23. Backward'
  <2>1. Chain(m, 0, 0, path[m].bwd, path[m].bdig, inbox')
    BY <1>5, <1>11
  <2>2. hops'[m].bwd = 0 /\ hops'[m].bdig = 0
    BY <1>10, HopIs
  <2>3. \A h \in 1 .. m :
          Chain(h, hops'[h].bwd, hops'[h].bdig, path[h].bwd, path[h].bdig, inbox')
    <3> TAKE h \in 1 .. m
    <3>1. CASE h = m
      BY <3>1, <2>1, <2>2
    <3>2. CASE h \in 1 .. n
      BY <3>2, <1>5, <1>10
    <3> QED BY <3>1, <3>2, <1>9
  <2> QED BY <2>3, <1>3, <1>10, <1>11 DEF Backward
<1> QED BY <1>2, <1>4, <1>14, <1>15, <1>17, <1>18, <1>19, <1>20, <1>21, <1>22, <1>23
        DEF CircuitInv, LiveInv

\* A call on the circuit reads a relay cell.
LEMMA RelayRead ==
  ASSUME CircuitInv, UNCHANGED cmdVars, NEW relay, relay = Extends(Now)[1], ReadRelayCell(relay)
  PROVE  CircuitInv'
<1>1. /\ call \in RelayCalls /\ call # "none" /\ LiveInv /\ result = "none" /\ Waiting(Now, call)
      /\ call # "create" /\ Now # "link"
  BY InCall DEF ReadRelayCell, RelayCalls, Waiting
<1>2. PICK c : /\ ReadCell(c) /\ c.cmd = "RELAY"
               /\ strayed' = (strayed \/ Recognizes(c) = {})
               /\ IF Recognizes(c) = {} THEN Unrecognized(c)
                  ELSE Extended(c, relay) \/ Connected(c) \/ Streamed(c)
  BY DEF ReadRelayCell
<1>3. UNCHANGED <<link, clientVars, relayVars>> /\ guard' = guard /\ asked' = asked /\ path' = path
  BY DEF ReadRelayCell, clientVars, relayVars
<1>4. ~misread' /\ inbox # <<>> /\ c = inbox[1] /\ 1 \in 1 .. Len(inbox) /\ ASeq(inbox')
  BY <1>1, <1>2, Reading
<1>5. /\ Recognizes(c) # {} /\ ASeq(Peeled(c)) /\ Len(Peeled(c)) = Len(hops)
      /\ \A h \in 1 .. Len(hops) : Taken(hops[h], Peeled(c)[h], h, c.from)
  BY <1>1, <1>2, <1>4, Recognized
<1>6. ~strayed'
  <2>1. ~strayed /\ strayed' = (strayed \/ FALSE)
    BY <1>2, <1>5 DEF CircuitInv
  <2> QED BY <2>1
<1>7. ASSUME hops' = Peeled(c), call' = "none",
             result' = "fail" \/ (result' = "ok" /\ Now \in {"dir", "tcp"})
      PROVE  CircuitInv'
  <2>1. ASeq(hops') /\ Len(hops') = Len(hops)
        /\ \A h \in 1 .. Len(hops) : HopForm(hops'[h]) /\ hops'[h].relay = hops[h].relay
    BY <1>5, <1>7 DEF Taken
  <2> QED BY <2>1, <1>1, <1>3, <1>4, <1>6, <1>7, Ending
<1>8. CASE Extended(c, relay)
  <2>1. call = "extend" /\ Pending = relay
    BY <1>1, <1>8 DEF Extended, Pending
  <2>2. CASE c.rcmd = "EXTENDED2" /\ Verified(c)
    <3>1. c.auth /\ call' = "none" /\ result' = "ok" /\ hops' = Append(Peeled(c), Hop(Pending))
      BY <1>8, <2>1, <2>2 DEF Extended, Ends, Verified
    <3> QED BY <3>1, <2>1, <2>2, <1>2, <1>3, <1>6, ExtendedRead
  <2>3. CASE ~(c.rcmd = "EXTENDED2" /\ Verified(c))
    BY <1>7, <1>8, <2>3 DEF Extended, Ends
  <2> QED BY <2>2, <2>3
<1>9. ASSUME call # "extend" PROVE ~Grow(c)
  <2>1. Grow(c) => GrowOK(c, call, hops, path, Pending)
    BY <1>1, <1>4 DEF LiveInv, Growth
  <2> QED BY <2>1, <1>1, <1>9 DEF GrowOK
<1>10. ASSUME call # "extend", hops' = Peeled(c), call' # "none", Waiting(Now, call'),
              result' = result,
              call' = call \/ call' \notin {"create", "extend"}
       PROVE  CircuitInv'
  BY <1>1, <1>2, <1>3, <1>6, <1>9, <1>10, RelayWaits
<1>11. CASE Connected(c)
  <2>1. call \in {"dirConnect", "tcpConnect"} /\ hops' = Peeled(c)
    BY <1>11 DEF Connected
  <2>2. CASE Ends("fail")
    BY <1>7, <2>1, <2>2 DEF Ends
  <2>3. CASE Waits
    BY <1>1, <1>10, <2>1, <2>3 DEF Waits
  <2>4. CASE call' = (IF call = "dirConnect" THEN "dirRequest" ELSE "tcpRequest") /\ UNCHANGED result
    <3>1. Waiting(Now, call') /\ call' \notin {"none", "create", "extend"}
      BY <1>1, <2>1, <2>4 DEF Waiting
    <3> QED BY <1>10, <2>1, <2>4, <3>1
  <2> QED BY <1>11, <2>2, <2>3, <2>4 DEF Connected
<1>12. CASE Streamed(c)
  <2>1. call \in {"dirData", "tcpData"} /\ hops' = Peeled(c)
    BY <1>12 DEF Streamed
  <2>2. CASE Ends("ok")
    BY <1>1, <1>7, <2>1, <2>2 DEF Ends, Waiting
  <2>3. CASE Waits
    BY <1>1, <1>10, <2>1, <2>3 DEF Waits
  <2> QED BY <1>12, <2>2, <2>3 DEF Streamed
<1> QED BY <1>2, <1>5, <1>8, <1>11, <1>12

\* What a step of a call in progress does
LEMMA Stepping ==
  ASSUME CircuitInv, Step
  PROVE  CircuitInv'
<1> DEFINE relay == IF todo = <<>> THEN None ELSE Extends(Head(todo))[1]
<1>1. UNCHANGED cmdVars /\ TorStep(relay)
  BY DEF Step
<1>2. CASE ReadFails
  BY <1>1, <1>2, Breaking
<1>3. CASE ReadLinkCell
  BY <1>1, <1>3, LinkRead
<1>4. CASE ReadCreated
  BY <1>1, <1>4, CreatedRead
<1>5. CASE ReadOtherCell
  BY <1>1, <1>5, OtherRead
<1>6. CASE ReadRelayCell(relay)
  <2>1. call # "none"
    BY <1>6 DEF ReadRelayCell, RelayCalls
  <2>2. Now # "prompt"
    BY <2>1, InCall DEF CallSteps
  <2>3. relay = Extends(Now)[1]
    BY <2>2 DEF Now, StepOf
  <2> HIDE DEF relay
  <2> QED BY <1>1, <1>6, <2>3, RelayRead
<1>7. CASE SendRequest
  <2>1. PICK w \in {"dirData", "tcpData"} :
          /\ call = (IF w = "dirData" THEN "dirRequest" ELSE "tcpRequest")
          /\ SendRelayCell(Ask("get", None, None), w)
    BY <1>7 DEF SendRequest
  <2>2. UNCHANGED <<link, clientVars, wide, extra, inbox, torn, misread>>
    BY <1>7 DEF SendRequest
  <2>3. LiveInv /\ result = "none" /\ Waiting(Now, call) /\ call \notin {"create", "extend"}
    BY <2>1, InCall
  <2>4. Now \in {"dir", "tcp"} /\ Waiting(Now, w)
    BY <2>1, <2>3 DEF Waiting
  <2>5. hops # <<>>
    BY <2>3, <2>4 DEF LiveInv, Progress
  <2> DEFINE ask == Ask("get", None, None)
  <2>6. ask.what = "get" /\ SendRelayCell(ask, w)
    BY <2>1 DEF Ask
  <2> HIDE DEF ask
  <2> QED BY <1>1, <2>1, <2>2, <2>3, <2>4, <2>5, <2>6, Sending
<1> QED BY <1>1, <1>2, <1>3, <1>4, <1>5, <1>6, <1>7 DEF TorStep

-------------------------------------------------------------------------------
(* The relays *)

\* A relay does something: what the client has stays as it is.
LEMMA Answering ==
  ASSUME CircuitInv, UNCHANGED cmdVars, UNCHANGED otherThanRelays,
         asked.what # "none" \/ link = "open"
  PROVE  /\ link' = link /\ guard' = guard /\ circIdLen' = circIdLen /\ hops' = hops /\ call' = call
         /\ result' = result /\ torn' = torn
         /\ TodoOK(cmd, todo)' /\ cmd' = cmd /\ Now' = Now /\ Extends(Now)' = Extends(Now)
         /\ torSelectedIdentity' = torSelectedIdentity /\ torMiddleIdentity' = torMiddleIdentity
         /\ torExitIdentity' = torExitIdentity
         /\ CallInv' /\ QuietInv' /\ GuardInv' /\ ~misread' /\ ~strayed' /\ (Live' => Live)
         /\ Pending' = Pending
<1>1. /\ link' = link /\ guard' = guard /\ circIdLen' = circIdLen /\ hops' = hops /\ call' = call
      /\ result' = result /\ torn' = torn /\ misread' = misread /\ strayed' = strayed
  BY DEF otherThanRelays, clientVars
<1>2. /\ TodoOK(cmd, todo)' /\ cmd' = cmd /\ Now' = Now /\ Extends(Now)' = Extends(Now)
      /\ torSelectedIdentity' = torSelectedIdentity /\ torMiddleIdentity' = torMiddleIdentity
      /\ torExitIdentity' = torExitIdentity
  BY Standing DEF CircuitInv
<1>3. Opened
  BY DEF CircuitInv, QuietInv, Quiet, NoAsk, Ask
<1>4. Opened' /\ (Live' => Live) /\ Pending' = Pending
  BY <1>1, <1>2, <1>3 DEF Opened, Live, Pending
<1>5. CallInv' /\ QuietInv' /\ GuardInv' /\ ~misread' /\ ~strayed'
  BY <1>1, <1>2, <1>4 DEF CircuitInv, CallInv, QuietInv, GuardInv
<1> QED BY <1>1, <1>2, <1>4, <1>5

\* One more cell that makes no hop
LEMMA GrowthSent ==
  ASSUME Growth, ASeq(inbox), NEW c, inbox' = Append(inbox, c), ~Grow(c),
         Len(hops) \in Nat, Len(path') = Len(path), Len(hops') = Len(hops),
         \A k : GrowOK(k, call, hops, path, Pending) => GrowOK(k, call', hops', path', Pending'),
         c.cmd = "RELAY" => c.from \in 1 .. Len(path)
  PROVE  Growth'
<1> DEFINE n == Len(inbox)
<1>1. n \in Nat /\ Len(inbox') = n + 1 /\ inbox'[n + 1] = c /\ \A i \in 1 .. n : inbox'[i] = inbox[i]
  BY SeqIs, SeqPlus
<1>2. /\ Len(path) = Len(hops) \/ Len(path) = Len(hops) + 1
      /\ Len(path) # Len(hops) <=> \E i \in 1 .. n : Grow(inbox[i])
      /\ \A i, j \in 1 .. n : Grow(inbox[i]) /\ Grow(inbox[j]) => i = j
      /\ \A i \in 1 .. n : Grow(inbox[i]) => GrowOK(inbox[i], call, hops, path, Pending)
      /\ \A i \in 1 .. n : inbox[i].cmd = "RELAY" =>
           /\ inbox[i].from \in 1 .. Len(path)
           /\ inbox[i].from \in 1 .. Len(hops) \/ \E j \in 1 .. i - 1 : Grow(inbox[j])
  BY DEF Growth
<1> HIDE DEF n
<1> DEFINE m == n + 1
<1>3. /\ m \in 1 .. m /\ m \notin 1 .. n /\ \A i \in 1 .. m : i \in 1 .. n \/ i = m
      /\ \A i \in 1 .. n : i \in 1 .. m
      /\ \A i \in 1 .. n : \A j \in 1 .. i - 1 : j \in 1 .. n
      /\ m - 1 = n
  BY <1>1
<1>4. Len(inbox') = m /\ inbox'[m] = c
  BY <1>1
<1> HIDE DEF m
<1>5. \A i \in 1 .. m : Grow(inbox'[i]) => i \in 1 .. n /\ Grow(inbox[i])
  BY <1>1, <1>3, <1>4
<1>6. Len(path') # Len(hops') <=> \E i \in 1 .. m : Grow(inbox'[i])
  BY <1>1, <1>2, <1>3, <1>5
<1>7. \A i, j \in 1 .. m : Grow(inbox'[i]) /\ Grow(inbox'[j]) => i = j
  BY <1>2, <1>5
<1>8. \A i \in 1 .. m : Grow(inbox'[i]) => GrowOK(inbox'[i], call', hops', path', Pending')
  BY <1>1, <1>2, <1>5
<1>9. \A i \in 1 .. m : inbox'[i].cmd = "RELAY" =>
        /\ inbox'[i].from \in 1 .. Len(path')
        /\ inbox'[i].from \in 1 .. Len(hops') \/ \E j \in 1 .. i - 1 : Grow(inbox'[j])
  <2> TAKE i \in 1 .. m
  <2> HAVE inbox'[i].cmd = "RELAY"
  <2>1. CASE i \in 1 .. n
    BY <2>1, <1>1, <1>2, <1>3
  <2>2. CASE i = m
    <3>1. c.from \in 1 .. Len(path) /\ inbox'[i] = c
      BY <2>2, <1>4
    <3>2. c.from \in 1 .. Len(hops) \/ Len(path) # Len(hops)
      BY <3>1
    <3>3. Len(path) # Len(hops) => \E j \in 1 .. n : Grow(inbox'[j])
      BY <1>1, <1>2
    <3>4. 1 .. i - 1 = 1 .. n
      BY <2>2, <1>3
    <3> QED BY <3>1, <3>2, <3>3, <3>4
  <2> QED BY <2>1, <2>2, <1>3
<1> QED BY <1>2, <1>4, <1>6, <1>7, <1>8, <1>9 DEF Growth

\* The cell that makes a hop
LEMMA GrowthBegun ==
  ASSUME Growth, ASeq(inbox), NEW c, inbox' = Append(inbox, c), Grow(c), Len(path) = Len(hops),
         Len(hops) \in Nat, Len(path') = Len(hops) + 1, Len(hops') = Len(hops),
         GrowOK(c, call', hops', path', Pending'), c.cmd = "RELAY" => c.from \in 1 .. Len(hops)
  PROVE  Growth'
<1> DEFINE n == Len(inbox)
<1>1. n \in Nat /\ Len(inbox') = n + 1 /\ inbox'[n + 1] = c /\ \A i \in 1 .. n : inbox'[i] = inbox[i]
  BY SeqIs, SeqPlus
<1>2. /\ \A i \in 1 .. n : ~Grow(inbox[i])
      /\ \A i \in 1 .. n : inbox[i].cmd = "RELAY" => inbox[i].from \in 1 .. Len(hops)
  BY DEF Growth
<1> HIDE DEF n
<1> DEFINE m == n + 1
<1>3. m \in 1 .. m /\ \A i \in 1 .. m : i \in 1 .. n \/ i = m
  BY <1>1
<1>4. Len(inbox') = m /\ inbox'[m] = c
  BY <1>1
<1> HIDE DEF m
<1>5. \A i \in 1 .. m : Grow(inbox'[i]) => i = m
  BY <1>1, <1>2, <1>3
<1>6. \A i \in 1 .. m : inbox'[i].cmd = "RELAY" => inbox'[i].from \in 1 .. Len(hops)
  BY <1>1, <1>2, <1>3, <1>4
<1>7. Len(path') # Len(hops') /\ \A i \in 1 .. Len(hops) : i \in 1 .. Len(path')
  OBVIOUS
<1>8. Len(path') # Len(hops') <=> \E i \in 1 .. m : Grow(inbox'[i])
  BY <1>3, <1>4, <1>7
<1>9. \A i \in 1 .. m : Grow(inbox'[i]) => GrowOK(inbox'[i], call', hops', path', Pending')
  BY <1>4, <1>5
<1>10. \A i, j \in 1 .. m : Grow(inbox'[i]) /\ Grow(inbox'[j]) => i = j
  BY <1>5
<1>11. \A i \in 1 .. m : inbox'[i].cmd = "RELAY" =>
        inbox'[i].from \in 1 .. Len(path') /\ inbox'[i].from \in 1 .. Len(hops')
  BY <1>6, <1>7
<1>12. Len(path') = Len(hops') + 1
  OBVIOUS
<1> QED BY <1>4, <1>8, <1>9, <1>10, <1>11, <1>12 DEF Growth

\* A cell that is no VERSIONS, with the agreed width
LEMMA SentLater ==
  ASSUME NEW c, ASeq(inbox), inbox' = Append(inbox, c), c.cmd # "VERSIONS", c.width = Width,
         wide' = wide, circIdLen' = circIdLen, asked'.what # "versions"
  PROVE  /\ Agreed => Agreed'
         /\ Offered /\ link' = link /\ call' = call => Offered'
<1> DEFINE n == Len(inbox)
<1>1. /\ n \in Nat /\ Len(inbox') = n + 1 /\ inbox'[n + 1] = c
      /\ \A i \in 1 .. n : inbox'[i] = inbox[i]
      /\ ASeq(inbox') /\ (inbox # <<>> => 1 \in 1 .. n)
  BY SeqIs, SeqPlus
<1>2. Width' = Width
  BY DEF Width
<1>3. Agreed => Agreed'
  <2> HAVE Agreed
  <2>1. \A i \in 1 .. n : inbox[i].width = Width /\ inbox[i].cmd # "VERSIONS"
    BY DEF Agreed, Later
  <2> HIDE DEF n
  <2>2. \A i \in 1 .. n + 1 : i \in 1 .. n \/ i = n + 1
    BY <1>1
  <2>3. \A i \in 1 .. n + 1 : inbox'[i].width = Width /\ inbox'[i].cmd # "VERSIONS"
    BY <1>1, <2>1, <2>2
  <2> QED BY <1>1, <1>2, <2>3 DEF Agreed, Later
<1>4. Offered /\ link' = link /\ call' = call => Offered'
  <2> HAVE Offered /\ link' = link /\ call' = call
  <2>1. inbox # <<>> /\ \A i \in 2 .. n : inbox[i].width = Width /\ inbox[i].cmd # "VERSIONS"
    BY DEF Offered, Later
  <2>2. inbox'[1] = inbox[1]
    BY <1>1, <2>1
  <2> HIDE DEF n
  <2>3. (\A i \in 2 .. n + 1 : (i \in 2 .. n /\ i \in 1 .. n) \/ i = n + 1) /\ n + 1 # 0
    BY <1>1
  <2>4. inbox' # <<>>
    BY <1>1, <2>3, EmptyIs
  <2>5. \A i \in 2 .. n + 1 : inbox'[i].width = Width /\ inbox'[i].cmd # "VERSIONS"
    BY <1>1, <2>1, <2>3
  <2> QED BY <1>1, <1>2, <2>2, <2>4, <2>5 DEF Offered, Later
<1> QED BY <1>3, <1>4

\* A cell that is no relay cell leaves the numbers alone.
LEMMA PlainChain ==
  ASSUME Shapes, Len(hops) <= Len(path), Backward, NEW c, c.cmd # "RELAY"
  PROVE  /\ \A h \in 1 .. Len(hops) :
              Chain(h, hops[h].bwd, hops[h].bdig, path[h].bwd, path[h].bdig, Append(inbox, c))
         /\ Len(path) # Len(hops) => Chain(Len(path), 0, 0, path[Len(path)].bwd,
                                           path[Len(path)].bdig, Append(inbox, c))
<1>1. ASSUME NEW h \in 1 .. Len(path), NEW b, NEW d,
             Chain(h, b, d, path[h].bwd, path[h].bdig, inbox)
      PROVE  Chain(h, b, d, path[h].bwd, path[h].bdig, Append(inbox, c))
  <2>1. path[h].bwd \in Nat /\ path[h].bdig \in Nat /\ ASeq(inbox)
    BY DEF Shapes, HopForm
  <2>2. Numbered(h, c, path[h].bwd, path[h].bdig, path[h].bwd, path[h].bdig)
    BY DEF Numbered
  <2> QED BY <1>1, <2>1, <2>2, ChainAppend
<1>2. Len(hops) \in Nat /\ Len(path) \in Nat
  BY SeqIs DEF Shapes
<1>3. \A h \in 1 .. Len(hops) : h \in 1 .. Len(path)
  BY <1>2
<1>4. Len(path) # Len(hops) => Len(path) \in 1 .. Len(path)
  BY <1>2
<1> QED BY <1>1, <1>3, <1>4 DEF Backward

\* A cell that is neither a relay cell nor makes a hop
LEMMA PlainSent ==
  ASSUME CircuitInv, UNCHANGED cmdVars, UNCHANGED otherThanRelays,
         asked.what # "none" \/ link = "open", NEW c, SendCell(c),
         c.cmd \notin {"RELAY", "CREATED2", "VERSIONS"}, c.width = Width,
         wide' = wide, path' = path, asked' \in {asked, NoAsk}, Live => Offered \/ Agreed
  PROVE  CircuitInv'
<1>1. /\ link' = link /\ guard' = guard /\ circIdLen' = circIdLen /\ hops' = hops /\ call' = call
      /\ result' = result /\ torn' = torn
      /\ TodoOK(cmd, todo)' /\ cmd' = cmd /\ Now' = Now /\ Extends(Now)' = Extends(Now)
      /\ torSelectedIdentity' = torSelectedIdentity /\ torMiddleIdentity' = torMiddleIdentity
      /\ torExitIdentity' = torExitIdentity
      /\ CallInv' /\ QuietInv' /\ GuardInv' /\ ~misread' /\ ~strayed' /\ (Live' => Live)
      /\ Pending' = Pending
  BY Answering
<1>2. inbox' = Append(inbox, c) /\ ASeq(inbox) /\ Len(hops) \in Nat /\ ASeq(inbox')
  BY SeqIs, SeqPlus DEF SendCell, CircuitInv, Shapes
<1>3. Shapes' /\ HopsVerified'
  BY <1>1, <1>2 DEF CircuitInv, Shapes, HopsVerified
<1>4. asked'.what = asked.what \/ asked'.what = "none"
  BY DEF NoAsk, Ask
<1>5. CreateInv'
  BY <1>1, <1>4 DEF CircuitInv, CreateInv
<1>6. ASSUME Live' PROVE LiveInv'
  <2>1. LiveInv /\ (Offered \/ Agreed)
    BY <1>1, <1>6 DEF CircuitInv
  <2>2. Progress'
    BY <1>1, <2>1 DEF LiveInv, Progress
  <2>3. Widths'
    <3>1. asked'.what # "versions"
      BY <1>4, <2>1 DEF Offered, Agreed
    <3>2. (Agreed => Agreed') /\ (Offered => Offered')
      BY <1>1, <1>2, <3>1, SentLater
    <3>3. ~NotYet
      BY DEF NotYet, NoAsk, Ask
    <3>4. link = "open" => Agreed
      BY <2>1 DEF LiveInv, Widths
    <3>5. ~torn /\ ~(Now = "tls" \/ (Now = "link" /\ call = "none" /\ result = "none"))
      BY <2>1, <3>3 DEF LiveInv, Widths
    <3> QED BY <1>1, <2>1, <3>2, <3>4, <3>5 DEF Widths
  <2>4. AskInv'
    <3>1. asked' = asked \/ asked'.what = "none"
      BY DEF NoAsk, Ask
    <3>2. CASE asked' = asked
      BY <1>1, <2>1, <3>2 DEF LiveInv, AskInv
    <3>3. CASE asked'.what = "none"
      BY <3>3 DEF AskInv
    <3> QED BY <3>1, <3>2, <3>3
  <2>5. Growth'
    <3>1. ~Grow(c)
      BY DEF Grow
    <3> QED BY <1>1, <1>2, <2>1, <3>1, GrowthSent DEF LiveInv
  <2>6. Forward'
    BY <1>1, <2>1 DEF LiveInv, Forward
  <2>7. Backward'
    BY <1>1, <1>2, <2>1, PlainChain DEF LiveInv, Backward, CircuitInv, HopsVerified
  <2> QED BY <2>2, <2>3, <2>4, <2>5, <2>6, <2>7 DEF LiveInv
<1> QED BY <1>1, <1>3, <1>5, <1>6 DEF CircuitInv

\* The guard's VERSIONS, with the width of a fresh link
LEMMA Offering ==
  ASSUME CircuitInv, UNCHANGED cmdVars, GuardVersions
  PROVE  CircuitInv'
<1> DEFINE c == Cell("VERSIONS", FALSE, 2)
<1>1. /\ asked.what = "versions" /\ asked'.what = "flight" /\ inbox' = Append(inbox, c)
      /\ path' = path /\ UNCHANGED otherThanRelays
  BY DEF GuardVersions, SendCell, Ask
<1>2. /\ link' = link /\ guard' = guard /\ circIdLen' = circIdLen /\ hops' = hops /\ call' = call
      /\ result' = result /\ torn' = torn
      /\ TodoOK(cmd, todo)' /\ cmd' = cmd /\ Now' = Now /\ Extends(Now)' = Extends(Now)
      /\ torSelectedIdentity' = torSelectedIdentity /\ torMiddleIdentity' = torMiddleIdentity
      /\ torExitIdentity' = torExitIdentity
      /\ CallInv' /\ QuietInv' /\ GuardInv' /\ ~misread' /\ ~strayed' /\ (Live' => Live)
      /\ Pending' = Pending
  BY <1>1, Answering
<1>3. c.cmd = "VERSIONS" /\ c.width = 2 /\ ~Grow(c)
  BY DEF Cell, Grow
<1> HIDE DEF c
<1>4. ASeq(inbox) /\ Len(hops) \in Nat /\ ASeq(inbox')
  BY <1>1, SeqIs, SeqPlus DEF CircuitInv, Shapes
<1>5. Shapes' /\ HopsVerified'
  BY <1>1, <1>2, <1>4 DEF CircuitInv, Shapes, HopsVerified
<1>6. CreateInv'
  BY <1>1 DEF CreateInv
<1>7. ASSUME Live' PROVE LiveInv'
  <2>1. LiveInv
    BY <1>2, <1>7 DEF CircuitInv
  <2>2. Fresh
    BY <1>1, <2>1 DEF LiveInv, Widths, NotYet, Offered, Agreed, NoAsk, Ask
  <2>3. Now = "link"
    BY <2>2 DEF Fresh, CircuitInv, CallInv, Waiting
  <2>4. Progress'
    BY <1>1, <1>2, <2>1 DEF LiveInv, Progress
  <2>5. Widths'
    <3>1. inbox = <<>> /\ Len(inbox) = 0
      BY <2>2, EmptyIs DEF Fresh
    <3>2. Len(inbox') = 1 /\ inbox'[1] = c
      BY <1>1, <1>4, <3>1, SeqPlus
    <3>3. inbox' # <<>> /\ \A i \in 2 .. 1 : FALSE
      BY <3>2, EmptyIs
    <3>4. Offered'
      BY <1>1, <1>2, <1>3, <2>2, <3>2, <3>3 DEF Offered, Fresh
    <3> QED BY <3>4, <1>2, <2>1, <2>2, <2>3 DEF LiveInv, Widths, Fresh
  <2>6. AskInv'
    BY <1>1 DEF AskInv
  <2>7. Growth'
    BY <1>1, <1>2, <1>3, <1>4, <2>1, GrowthSent DEF LiveInv
  <2>8. Forward'
    BY <1>1, <1>2, <2>1 DEF LiveInv, Forward
  <2>9. Backward'
    BY <1>1, <1>2, <1>3, <2>1, PlainChain DEF LiveInv, Backward, CircuitInv, HopsVerified
  <2> QED BY <2>4, <2>5, <2>6, <2>7, <2>8, <2>9 DEF LiveInv
<1> QED BY <1>2, <1>5, <1>6, <1>7 DEF CircuitInv

\* A relay makes a relay cell: its ciphers and digest are ahead by it.
LEMMA Made ==
  ASSUME Shapes, NEW k \in Nat, NEW p, p = AfterRelayCell(k)
  PROVE  ASeq(p) /\ Len(p) = Len(path) /\ \A h \in 1 .. Len(path) : Taken(path[h], p[h], h, k)
<1> DEFINE n == Len(path)
<1>1. n \in Nat /\ DOMAIN path = 1 .. n
  BY SeqIs DEF Shapes
<1> HIDE DEF n
<1>2. p = [h \in 1 .. n |->
             IF h > k THEN path[h]
             ELSE [path[h] EXCEPT !.bwd = @ + 1, !.bdig = IF h = k THEN @ + 1 ELSE @]]
  BY <1>1 DEF AfterRelayCell
<1>3. p = [h \in 1 .. n |-> p[h]]
  BY <1>2
<1>4. ASeq(p) /\ Len(p) = n
  BY <1>1, <1>3, SeqFun
<1>5. ASSUME NEW h \in 1 .. n
      PROVE  Taken(path[h], p[h], h, k)
  <2>1. HopForm(path[h]) /\ h \in Nat
    BY <1>1 DEF Shapes, n
  <2>2. CASE h > k
    <3>1. p[h] = path[h]
      BY <1>2, <2>2
    <3>2. ~(h <= k) /\ h # k
      BY <2>1, <2>2
    <3> QED BY <3>1, <3>2, <2>1 DEF Taken
  <2>3. CASE ~(h > k)
    <3>1. p[h] = [path[h] EXCEPT !.bwd = @ + 1, !.bdig = IF h = k THEN @ + 1 ELSE @]
      BY <1>2, <2>3
    <3>2. h <= k
      BY <2>1, <2>3
    <3>3. p[h] = TakenHop(path[h], h, k)
      BY <3>1, <3>2 DEF TakenHop
    <3> QED BY <3>3, <2>1, TakenIs
  <2> QED BY <2>2, <2>3
<1> QED BY <1>4, <1>5 DEF n

\* The numbers of a relay cell are the ones its end will be at.
LEMMA MadeChain ==
  ASSUME Shapes, Len(hops) <= Len(path), Backward, NEW k \in 1 .. Len(path), NEW c,
         c.cmd = "RELAY", c.from = k, c.dig = path[k].bdig, \A h \in 1 .. k : c.pos[h] = path[h].bwd,
         NEW p, p = AfterRelayCell(k)
  PROVE  /\ \A h \in 1 .. Len(hops) :
              Chain(h, hops[h].bwd, hops[h].bdig, p[h].bwd, p[h].bdig, Append(inbox, c))
         /\ Len(path) # Len(hops) => Chain(Len(path), 0, 0, p[Len(path)].bwd,
                                           p[Len(path)].bdig, Append(inbox, c))
<1>1. Len(hops) \in Nat /\ Len(path) \in Nat /\ k \in Nat
  BY SeqIs DEF Shapes
<1>2. \A h \in 1 .. Len(path) : Taken(path[h], p[h], h, k)
  BY <1>1, Made
<1>3. ASSUME NEW h \in 1 .. Len(path), NEW b, NEW d,
             Chain(h, b, d, path[h].bwd, path[h].bdig, inbox)
      PROVE  Chain(h, b, d, p[h].bwd, p[h].bdig, Append(inbox, c))
  <2>1. p[h].bwd \in Nat /\ p[h].bdig \in Nat /\ ASeq(inbox)
    BY <1>2 DEF Shapes, HopForm, Taken
  <2>2. h \in Nat /\ (h <= k <=> k >= h) /\ (h <= k => h \in 1 .. k) /\ (h = k => h <= k)
    BY <1>1
  <2>3. /\ p[h].bwd = (IF h <= k THEN path[h].bwd + 1 ELSE path[h].bwd)
        /\ p[h].bdig = (IF h = k THEN path[h].bdig + 1 ELSE path[h].bdig)
    BY <1>2 DEF Taken
  <2>4. Numbered(h, c, path[h].bwd, path[h].bdig, p[h].bwd, p[h].bdig)
    <3>1. CASE ~(h <= k)
      BY <3>1, <2>2, <2>3 DEF Numbered
    <3>2. CASE h <= k /\ h # k
      BY <3>2, <2>2, <2>3 DEF Numbered
    <3>3. CASE h = k
      BY <3>3, <2>2, <2>3 DEF Numbered
    <3> QED BY <3>1, <3>2, <3>3
  <2> QED BY <1>3, <2>1, <2>4, ChainAppend
<1>4. \A h \in 1 .. Len(hops) : h \in 1 .. Len(path)
  BY <1>1
<1>5. Len(path) # Len(hops) => Len(path) \in 1 .. Len(path)
  BY <1>1
<1> QED BY <1>3, <1>4, <1>5 DEF Backward

\* A relay cell that makes no hop
LEMMA RelaySent ==
  ASSUME CircuitInv, UNCHANGED cmdVars, UNCHANGED otherThanRelays, wide' = wide,
         asked.what # "none" \/ link = "open", NEW k \in Nat, NEW rcmd, NEW sid,
         rcmd # "EXTENDED2", SendCell(RelayCell(k, rcmd, sid, FALSE)), path' = AfterRelayCell(k),
         asked' \in {asked, NoAsk}, Live => Agreed /\ k \in 1 .. Len(path)
  PROVE  CircuitInv'
<1>1. /\ link' = link /\ guard' = guard /\ circIdLen' = circIdLen /\ hops' = hops /\ call' = call
      /\ result' = result /\ torn' = torn
      /\ TodoOK(cmd, todo)' /\ cmd' = cmd /\ Now' = Now /\ Extends(Now)' = Extends(Now)
      /\ torSelectedIdentity' = torSelectedIdentity /\ torMiddleIdentity' = torMiddleIdentity
      /\ torExitIdentity' = torExitIdentity
      /\ CallInv' /\ QuietInv' /\ GuardInv' /\ ~misread' /\ ~strayed' /\ (Live' => Live)
      /\ Pending' = Pending
  BY Answering
<1>2. PICK c : c = RelayCell(k, rcmd, sid, FALSE)
  OBVIOUS
<1>3. /\ c.cmd = "RELAY" /\ c.width = Width /\ c.rcmd = rcmd /\ c.from = k
      /\ c.dig = path[k].bdig /\ \A h \in 1 .. k : c.pos[h] = path[h].bwd
  BY <1>2 DEF RelayCell, Cell
<1>4. inbox' = Append(inbox, c) /\ ASeq(inbox) /\ Len(hops) \in Nat /\ ASeq(inbox') /\ ~Grow(c)
  BY <1>2, <1>3, SeqIs, SeqPlus DEF SendCell, CircuitInv, Shapes, Grow
<1>5. /\ ASeq(path') /\ Len(path') = Len(path)
      /\ \A h \in 1 .. Len(path) : Taken(path[h], path'[h], h, k)
  BY Made DEF CircuitInv
<1>6. \A h \in 1 .. Len(path) : /\ HopForm(path'[h]) /\ path'[h].relay = path[h].relay
                                /\ path'[h].fwd = path[h].fwd /\ path'[h].fdig = path[h].fdig
  BY <1>5 DEF Taken
<1>7. Shapes'
  BY <1>1, <1>4, <1>5, <1>6 DEF CircuitInv, Shapes
<1>8. /\ Len(hops) <= Len(path) /\ Len(path) \in Nat /\ DOMAIN hops = 1 .. Len(hops)
      /\ (path' = <<>> <=> path = <<>>)
  BY <1>5, SeqIs DEF CircuitInv, HopsVerified, Shapes
<1>9. /\ \A h \in 1 .. Len(hops) : h \in 1 .. Len(path)
      /\ Len(path) # Len(hops) => Len(path) \in 1 .. Len(path)
  BY <1>4, <1>8
<1>10. HopsVerified'
  BY <1>1, <1>5, <1>6, <1>8, <1>9, VerifiedKept DEF CircuitInv
<1>11. asked' = asked \/ asked'.what = "none"
  BY DEF NoAsk, Ask
<1>12. CreateInv'
  BY <1>1, <1>11 DEF CircuitInv, CreateInv
<1>13. ASSUME Live' PROVE LiveInv'
  <2>1. LiveInv /\ Agreed /\ k \in 1 .. Len(path)
    BY <1>1, <1>13 DEF CircuitInv
  <2>2. Progress'
    BY <1>1, <1>8, <2>1 DEF LiveInv, Progress
  <2>3. Widths'
    <3>1. asked'.what # "versions"
      BY <1>11, <2>1 DEF Agreed
    <3>2. Agreed'
      BY <1>1, <1>3, <1>4, <2>1, <3>1, SentLater
    <3>3. ~NotYet
      BY DEF NotYet, NoAsk, Ask
    <3>4. ~torn /\ ~(Now = "tls" \/ (Now = "link" /\ call = "none" /\ result = "none"))
      BY <2>1, <3>3 DEF LiveInv, Widths
    <3> QED BY <1>1, <3>2, <3>4 DEF Widths
  <2>4. AskInv'
    <3>1. CASE asked' = asked
      BY <1>1, <1>5, <1>8, <2>1, <3>1 DEF LiveInv, AskInv
    <3>2. CASE asked'.what = "none"
      BY <3>2 DEF AskInv
    <3> QED BY <1>11, <3>1, <3>2
  <2>5. Growth'
    <3>1. Len(path) # Len(hops) => path'[Len(path)].relay = path[Len(path)].relay
      BY <1>6, <1>9
    <3>2. Len(path) \in 1 .. Len(path)
      BY <1>8, <2>1
    <3>3. path'[Len(path)].relay = path[Len(path)].relay
      BY <3>2, <1>6
    <3>4. \A x : GrowOK(x, call, hops, path, Pending) => GrowOK(x, call', hops', path', Pending')
      BY <1>1, <1>5, <3>3 DEF GrowOK
    <3> QED BY <1>1, <1>3, <1>4, <1>5, <2>1, <3>4, GrowthSent DEF LiveInv
  <2>6. Forward'
    BY <1>1, <1>5, <1>6, <1>9, <2>1 DEF LiveInv, Forward
  <2>7. Backward'
    <3>1. PICK p : p = path'
      OBVIOUS
    <3>2. /\ \A h \in 1 .. Len(hops) :
              Chain(h, hops[h].bwd, hops[h].bdig, p[h].bwd, p[h].bdig, Append(inbox, c))
          /\ Len(path) # Len(hops) => Chain(Len(path), 0, 0, p[Len(path)].bwd,
                                           p[Len(path)].bdig, Append(inbox, c))
      BY <1>3, <1>8, <2>1, <3>1, MadeChain DEF LiveInv, CircuitInv
    <3> QED BY <1>1, <1>4, <1>5, <3>1, <3>2 DEF Backward
  <2> QED BY <2>2, <2>3, <2>4, <2>5, <2>6, <2>7 DEF LiveInv
<1> QED BY <1>1, <1>7, <1>10, <1>12, <1>13 DEF CircuitInv

\* The guard's CREATED2: the first hop is on its way.
LEMMA Creates ==
  ASSUME CircuitInv, UNCHANGED cmdVars, NEW ok \in BOOLEAN, Created(ok), asked.what = "create"
  PROVE  CircuitInv'
<1> DEFINE r == IF ok THEN asked.relay ELSE None
<1>1. /\ UNCHANGED otherThanRelays /\ wide' = wide /\ asked' = NoAsk
      /\ ok => asked.relay # None
      /\ SendCell([Cell("CREATED2", TRUE, Width) EXCEPT !.auth = ok]) /\ path' = <<Hop(r)>>
  BY DEF Created
<1>2. /\ link' = link /\ guard' = guard /\ circIdLen' = circIdLen /\ hops' = hops /\ call' = call
      /\ result' = result /\ torn' = torn
      /\ TodoOK(cmd, todo)' /\ cmd' = cmd /\ Now' = Now /\ Extends(Now)' = Extends(Now)
      /\ torSelectedIdentity' = torSelectedIdentity /\ torMiddleIdentity' = torMiddleIdentity
      /\ torExitIdentity' = torExitIdentity
      /\ CallInv' /\ QuietInv' /\ GuardInv' /\ ~misread' /\ ~strayed' /\ (Live' => Live)
      /\ Pending' = Pending
  BY <1>1, Answering
<1>3. PICK c : c = [Cell("CREATED2", TRUE, Width) EXCEPT !.auth = ok]
  OBVIOUS
<1>4. c.cmd = "CREATED2" /\ c.width = Width /\ c.auth = ok
  BY <1>3 DEF Cell
<1>5. inbox' = Append(inbox, c) /\ ASeq(inbox) /\ ASeq(inbox') /\ Grow(c)
  BY <1>1, <1>3, <1>4, SeqPlus DEF SendCell, CircuitInv, Shapes, Grow
<1>6. hops = <<>> /\ Len(hops) = 0 /\ hops' = <<>> /\ \A h \in 1 .. 0 : FALSE
  BY <1>2, EmptyIs DEF CircuitInv, CreateInv
<1>7. ASeq(path') /\ Len(path') = 1 /\ path'[1] = Hop(r) /\ \A h \in 1 .. 1 : h = 1
  <2> HIDE DEF r
  <2>1. path' \in Seq({Hop(r)}) /\ Len(path') = 1 /\ path'[1] = Hop(r) /\ \A h \in 1 .. 1 : h = 1
    BY <1>1
  <2> QED BY <2>1 DEF ASeq
<1>8. Shapes' /\ HopsVerified' /\ CreateInv'
  <2>1. Shapes'
    BY <1>5, <1>6, <1>7, EmptyIs, HopIs DEF Shapes
  <2>2. HopsVerified'
    BY <1>6, <1>7, EmptyIs DEF HopsVerified
  <2> QED BY <2>1, <2>2, <1>6 DEF CreateInv
<1>9. ASSUME Live' PROVE LiveInv'
  <2>1. LiveInv /\ call = "create" /\ path = <<>> /\ Len(path) = 0 /\ asked.relay \in {Pending, None}
    BY <1>2, <1>9, EmptyIs DEF CircuitInv, LiveInv, AskInv
  <2>2. Now = "create" /\ result = "none"
    BY <2>1, InCall DEF Waiting
  <2>3. asked'.what = "none"
    BY <1>1 DEF NoAsk, Ask
  <2>4. Progress'
    BY <1>2, <1>6, <2>1, <2>2 DEF LiveInv, Progress
  <2>5. Widths'
    <3>1. Agreed /\ ~torn
      BY <2>1, <2>2 DEF LiveInv, Widths, Progress, OpenSteps
    <3>2. Agreed'
      BY <1>1, <1>2, <1>4, <1>5, <2>3, <3>1, SentLater
    <3> QED BY <1>2, <2>2, <3>1, <3>2 DEF Widths
  <2>6. AskInv'
    BY <2>3 DEF AskInv
  <2>7. \A i \in 1 .. Len(inbox) : inbox[i].cmd # "RELAY"
    BY <1>6, <2>1 DEF LiveInv, Growth
  <2>8. Growth'
    <3>1. GrowOK(c, call', hops', path', Pending')
      <4>1. ok => r = Pending /\ Pending # None
        BY <1>1, <2>1
      <4>2. path'[Len(path')].relay = r
        BY <1>7, HopIs
      <4> HIDE DEF r
      <4> QED BY <1>2, <1>4, <1>6, <2>1, <4>1, <4>2 DEF GrowOK
    <3>2. Len(path) = Len(hops) /\ Len(path') = Len(hops) + 1 /\ Len(hops) \in Nat
      BY <1>6, <1>7, <2>1
    <3> QED BY <1>2, <1>4, <1>5, <2>1, <3>1, <3>2, GrowthBegun DEF LiveInv
  <2>9. Forward'
    BY <1>6, <1>7, HopIs DEF Forward
  <2>10. Backward'
    <3>1. ASeq(inbox') /\ Len(inbox') = Len(inbox) + 1 /\ inbox'[Len(inbox) + 1] = c
          /\ (\A i \in 1 .. Len(inbox) : inbox'[i] = inbox[i]) /\ Len(inbox) \in Nat
      BY <1>5, SeqPlus, SeqIs
    <3>2. PICK n : n = Len(inbox)
      OBVIOUS
    <3>3. \A i \in 1 .. n + 1 : i \in 1 .. n \/ i = n + 1
      BY <3>1, <3>2
    <3>4. \A i \in 1 .. Len(inbox') : inbox'[i].cmd # "RELAY"
      BY <1>4, <2>7, <3>1, <3>2, <3>3
    <3>5. PICK ib : ib = inbox'
      OBVIOUS
    <3>6. Chain(1, 0, 0, 0, 0, ib)
      BY <3>1, <3>4, <3>5, ChainNew
    <3> QED BY <1>6, <1>7, <3>5, <3>6, HopIs DEF Backward
  <2> QED BY <2>4, <2>5, <2>6, <2>8, <2>9, <2>10 DEF LiveInv
<1> QED BY <1>2, <1>8, <1>9 DEF CircuitInv

\* The last hop's EXTENDED2: the next hop is on its way.
LEMMA Extending ==
  ASSUME CircuitInv, UNCHANGED cmdVars, NEW ok \in BOOLEAN, Created(ok), asked.what = "extend"
  PROVE  CircuitInv'
<1> DEFINE r == IF ok THEN asked.relay ELSE None
           k == Len(path)
<1>1. /\ UNCHANGED otherThanRelays /\ wide' = wide /\ asked' = NoAsk
      /\ ok => asked.relay # None
      /\ SendCell(RelayCell(k, "EXTENDED2", FALSE, ok))
      /\ path' = Append(AfterRelayCell(k), Hop(r))
  BY DEF Created
<1>2. /\ link' = link /\ guard' = guard /\ circIdLen' = circIdLen /\ hops' = hops /\ call' = call
      /\ result' = result /\ torn' = torn
      /\ TodoOK(cmd, todo)' /\ cmd' = cmd /\ Now' = Now /\ Extends(Now)' = Extends(Now)
      /\ torSelectedIdentity' = torSelectedIdentity /\ torMiddleIdentity' = torMiddleIdentity
      /\ torExitIdentity' = torExitIdentity
      /\ CallInv' /\ QuietInv' /\ GuardInv' /\ ~misread' /\ ~strayed' /\ (Live' => Live)
      /\ Pending' = Pending
  BY <1>1, Answering
<1>3. PICK c : c = RelayCell(k, "EXTENDED2", FALSE, ok)
  OBVIOUS
<1>4. PICK p : p = AfterRelayCell(k)
  OBVIOUS
<1>5. Shapes /\ k \in Nat /\ Len(hops) <= k /\ Len(hops) \in Nat /\ DOMAIN hops = 1 .. Len(hops)
  BY SeqIs DEF CircuitInv, Shapes, HopsVerified
<1>6. ASeq(p) /\ Len(p) = k /\ \A h \in 1 .. k : Taken(path[h], p[h], h, k)
  BY <1>4, <1>5, Made
<1>7. path' = Append(p, Hop(r))
  BY <1>1, <1>4
<1> HIDE DEF r
<1>8. ASeq(path') /\ Len(path') = k + 1 /\ path'[k + 1] = Hop(r) /\ \A h \in 1 .. k : path'[h] = p[h]
  BY <1>6, <1>7, SeqPlus
<1>9. /\ c.cmd = "RELAY" /\ c.width = Width /\ c.rcmd = "EXTENDED2" /\ c.auth = ok /\ c.from = k
      /\ c.dig = path[k].bdig /\ \A h \in 1 .. k : c.pos[h] = path[h].bwd
  <2> HIDE DEF k
  <2> QED BY <1>3 DEF RelayCell, Cell
<1>10. inbox' = Append(inbox, c) /\ ASeq(inbox) /\ ASeq(inbox') /\ Grow(c)
  BY <1>1, <1>3, <1>5, <1>9, SeqPlus DEF SendCell, Shapes, Grow
<1> HIDE DEF k
<1>11. \A h \in 1 .. k : /\ HopForm(path'[h]) /\ path'[h].relay = path[h].relay
                         /\ path'[h].fwd = path[h].fwd /\ path'[h].fdig = path[h].fdig
  <2>1. \A h \in 1 .. k : Taken(path[h], path'[h], h, k)
    BY <1>6, <1>8
  <2> QED BY <2>1 DEF Taken
<1>12. /\ \A h \in 1 .. k + 1 : h \in 1 .. k \/ h = k + 1
       /\ \A h \in 1 .. Len(hops) : h \in 1 .. k
       /\ Len(hops) <= k + 1
  BY <1>5
<1>13. Shapes'
  <2>1. \A h \in 1 .. k + 1 : HopForm(path'[h])
    BY <1>8, <1>11, <1>12, HopIs
  <2> QED BY <2>1, <1>2, <1>5, <1>8, <1>10 DEF Shapes
<1>14. HopsVerified'
  BY <1>2, <1>5, <1>8, <1>11, <1>12, VerifiedKept DEF CircuitInv
<1>15. asked'.what = "none"
  BY <1>1 DEF NoAsk, Ask
<1>16. CreateInv' /\ AskInv'
  BY <1>15 DEF CreateInv, AskInv
<1>17. ASSUME Live' PROVE LiveInv'
  <2>1. LiveInv /\ call = "extend" /\ k = Len(hops) /\ hops # <<>> /\ asked.relay = Pending
    BY <1>2, <1>17 DEF CircuitInv, LiveInv, AskInv, k
  <2>2. Now \in {"extendMiddle", "extendExit"} /\ result = "none"
    BY <2>1, InCall DEF Waiting
  <2>3. Progress'
    BY <1>2, <2>1, <2>2 DEF LiveInv, Progress
  <2>4. Widths'
    <3>1. Agreed /\ ~torn
      BY <2>1, <2>2 DEF LiveInv, Widths, Progress, OpenSteps
    <3>2. Agreed'
      BY <1>1, <1>2, <1>9, <1>10, <1>15, <3>1, SentLater
    <3> QED BY <1>2, <2>2, <3>1, <3>2 DEF Widths
  <2>5. k \in 1 .. k
    <3>1. k # 0
      BY <2>1, SeqIs DEF CircuitInv, Shapes
    <3> QED BY <3>1, <1>5
  <2>6. Growth'
    <3>1. GrowOK(c, call', hops', path', Pending')
      <4>1. ok => r = Pending /\ Pending # None
        BY <1>1, <2>1 DEF r
      <4>2. path'[Len(path')].relay = r
        BY <1>8, HopIs
      <4> QED BY <1>2, <1>9, <2>1, <4>1, <4>2 DEF GrowOK
    <3>2. Len(path) = Len(hops) /\ Len(path') = Len(hops) + 1
      BY <1>8, <2>1 DEF k
    <3>3. c.from \in 1 .. Len(hops)
      BY <1>9, <2>1, <2>5
    <3> QED BY <1>2, <1>5, <1>10, <2>1, <3>1, <3>2, <3>3, GrowthBegun DEF LiveInv
  <2>7. Forward'
    <3>1. \A h \in 1 .. k : path[h].fwd = hops[h].fwd /\ path[h].fdig = hops[h].fdig
      BY <2>1 DEF LiveInv, Forward
    <3> QED BY <3>1, <1>2, <1>8, <1>11, <2>1, HopIs DEF Forward
  <2>8. Backward'
    <3>1. \A h \in 1 .. k :
            Chain(h, hops[h].bwd, hops[h].bdig, p[h].bwd, p[h].bdig, Append(inbox, c))
      <4>1. k \in 1 .. Len(path) /\ Len(hops) <= Len(path)
        BY <1>5, <2>5 DEF k
      <4>2. Backward
        BY <2>1 DEF LiveInv
      <4> QED BY <1>4, <1>5, <1>9, <2>1, <4>1, <4>2, MadeChain
    <3>2. \A i \in 1 .. Len(inbox) : inbox[i].cmd = "RELAY" => inbox[i].from \in 1 .. k
      BY <2>1 DEF LiveInv, Growth, k
    <3>3. \A x \in 1 .. k : ~(x >= k + 1)
      BY <1>5
    <3>4. /\ Len(inbox') = Len(inbox) + 1 /\ inbox'[Len(inbox) + 1] = c
          /\ (\A i \in 1 .. Len(inbox) : inbox'[i] = inbox[i]) /\ Len(inbox) \in Nat
      BY <1>10, SeqPlus, SeqIs
    <3>5. PICK n : n = Len(inbox)
      OBVIOUS
    <3>6. \A i \in 1 .. n + 1 : i \in 1 .. n \/ i = n + 1
      BY <3>4, <3>5
    <3>7. \A i \in 1 .. Len(inbox') : inbox'[i].cmd = "RELAY" => inbox'[i].from \in 1 .. k
      BY <1>9, <2>5, <3>2, <3>4, <3>5, <3>6
    <3>8. PICK ib : ib = inbox'
      OBVIOUS
    <3>9. \A i \in 1 .. Len(ib) : ib[i].cmd = "RELAY" => ~(ib[i].from >= k + 1)
      BY <3>3, <3>7, <3>8
    <3>10. Chain(k + 1, 0, 0, 0, 0, ib)
      BY <1>10, <3>8, <3>9, ChainNew
    <3>11. path'[k + 1].bwd = 0 /\ path'[k + 1].bdig = 0
      BY <1>8, HopIs
    <3>12. \A h \in 1 .. k : Chain(h, hops'[h].bwd, hops'[h].bdig, path'[h].bwd, path'[h].bdig, ib)
      BY <3>1, <3>8, <1>2, <1>8, <1>10
    <3> QED BY <3>8, <3>10, <3>11, <3>12, <1>2, <1>8, <2>1 DEF Backward
  <2> QED BY <2>3, <2>4, <2>6, <2>7, <2>8, <1>16 DEF LiveInv
<1> QED BY <1>2, <1>13, <1>14, <1>16, <1>17 DEF CircuitInv

\* What the relays do
LEMMA Replying ==
  ASSUME CircuitInv, RelaysStep, UNCHANGED cmdVars
  PROVE  CircuitInv'
<1>1. CASE GuardVersions
  BY <1>1, Offering
<1>2. CASE GuardFlight
  <2>1. PICK cm \in {"CERTS", "NETINFO"} : SendCell(Cell(cm, FALSE, Width))
    BY <1>2 DEF GuardFlight
  <2>2. PICK c : c = Cell(cm, FALSE, Width)
    OBVIOUS
  <2>3. c.cmd \notin {"RELAY", "CREATED2", "VERSIONS"} /\ c.width = Width
    BY <2>2 DEF Cell
  <2>4. asked.what = "flight" /\ UNCHANGED otherThanRelays /\ wide' = wide /\ path' = path
        /\ asked' \in {asked, NoAsk}
    BY <1>2 DEF GuardFlight
  <2>5. Live => Offered \/ Agreed
    BY <2>4 DEF CircuitInv, LiveInv, Widths, NotYet, Fresh, NoAsk, Ask
  <2> QED BY <2>1, <2>2, <2>3, <2>4, <2>5, PlainSent
<1>3. CASE \E ok \in BOOLEAN : Created(ok)
  BY <1>3, Creates, Extending DEF Created
<1>4. CASE Streams
  <2>1. PICK rcmd \in {"CONNECTED", "END", "DATA"} :
          /\ SendCell(RelayCell(Len(path), rcmd, TRUE, FALSE)) /\ path' = AfterRelayCell(Len(path))
          /\ asked' \in {asked, NoAsk} /\ asked.what \in {"begin", "get"}
    BY <1>4 DEF Streams
  <2>2. UNCHANGED otherThanRelays /\ wide' = wide
    BY <1>4 DEF Streams
  <2>3. PICK k : k = Len(path)
    OBVIOUS
  <2>4. k \in Nat
    BY <2>3, SeqIs DEF CircuitInv, Shapes
  <2>5. ASSUME Live PROVE Agreed /\ k \in 1 .. Len(path)
    <3>1. LiveInv /\ hops # <<>> /\ Len(path) = Len(hops)
      BY <2>1, <2>5 DEF CircuitInv, LiveInv, AskInv
    <3>2. Len(hops) # 0
      BY <3>1, SeqIs DEF CircuitInv, Shapes
    <3>3. k \in 1 .. k
      BY <2>3, <2>4, <3>1, <3>2
    <3>4. call = "link" => Now = "link"
      BY DEF CircuitInv, CallInv, Waiting
    <3>5. ~NotYet /\ ~Fresh
      BY <2>1 DEF NotYet, Fresh, NoAsk, Ask
    <3>6. ~Offered
      BY <3>1, <3>4 DEF LiveInv, Progress, Offered
    <3> QED BY <2>3, <3>1, <3>3, <3>5, <3>6 DEF LiveInv, Widths
  <2>6. SendCell(RelayCell(k, rcmd, TRUE, FALSE)) /\ path' = AfterRelayCell(k)
    BY <2>1, <2>3
  <2> QED BY <2>1, <2>2, <2>4, <2>5, <2>6, RelaySent
<1>5. CASE Unasked
  <2>1. link = "open" /\ UNCHANGED otherThanRelays /\ wide' = wide
    BY <1>5 DEF Unasked
  <2>2. Live => Agreed
    BY <2>1 DEF CircuitInv, LiveInv, Widths
  <2>3. ASSUME NEW ours \in BOOLEAN, SendCell(Cell("DESTROY", ours, Width)), path' = path,
               asked' \in {asked, NoAsk}
        PROVE  CircuitInv'
    <3>1. PICK c : c = Cell("DESTROY", ours, Width)
      OBVIOUS
    <3>2. c.cmd \notin {"RELAY", "CREATED2", "VERSIONS"} /\ c.width = Width
      BY <3>1 DEF Cell
    <3> QED BY <2>1, <2>2, <2>3, <3>1, <3>2, PlainSent
  <2>4. ASSUME NEW k \in DOMAIN path, SendCell(RelayCell(k, "DROP", FALSE, FALSE)),
               path' = AfterRelayCell(k), UNCHANGED asked
        PROVE  CircuitInv'
    <3>1. k \in 1 .. Len(path) /\ Len(path) \in Nat
      BY SeqIs DEF CircuitInv, Shapes
    <3>2. k \in Nat
      BY <3>1
    <3> QED BY <2>1, <2>2, <2>4, <3>1, <3>2, RelaySent
  <2> QED BY <1>5, <2>3, <2>4 DEF Unasked
<1> QED BY <1>1, <1>2, <1>3, <1>4, <1>5 DEF RelaysStep

LEMMA CircuitStart == Init => CircuitInv
<1> SUFFICES ASSUME Init PROVE CircuitInv
  OBVIOUS
<1>1. /\ link = "closed" /\ hops = <<>> /\ call = "none" /\ result = "none" /\ path = <<>>
      /\ asked = NoAsk /\ inbox = <<>> /\ ~torn /\ ~misread /\ ~strayed
      /\ cmd = "none" /\ todo = <<>>
  BY DEF Init, TorInit
<1>2. Len(hops) = 0 /\ Len(path) = 0 /\ Len(inbox) = 0 /\ \A i \in 1 .. 0 : FALSE
  BY <1>1, EmptyIs
<1>3. Now = "prompt" /\ TodoOK(cmd, todo) /\ asked.what = "none"
  BY <1>1, EmptyIs DEF Now, StepOf, TodoOK, NoAsk, Ask
<1>4. CallInv /\ QuietInv /\ GuardInv /\ CreateInv /\ ~Live
  BY <1>1, <1>3 DEF CallInv, QuietInv, Quiet, GuardInv, CreateInv, Live
<1>5. Shapes /\ HopsVerified
  BY <1>1, <1>2, EmptyIs DEF Shapes, HopsVerified
<1> QED BY <1>1, <1>3, <1>4, <1>5 DEF CircuitInv

\* No step of the client, the relays or the user breaks the invariant.
LEMMA CircuitStep == CircuitInv /\ [Next]_vars => CircuitInv'
<1> SUFFICES ASSUME CircuitInv, [Next]_vars PROVE CircuitInv'
  OBVIOUS
<1>1. CASE \E c \in Commands : Start(c)
  BY <1>1, Listing
<1>2. CASE Client
  <2>1. CASE \/ ConsensusFails \/ NoConsensus \/ Consensus \/ Parsed \/ Refuse
             \/ \E r \in Relays, g \in BOOLEAN, e \in BOOLEAN : ParseRelay(r, g, e)
    BY <2>1, Listing
  <2>2. CASE Blocked \/ Socks \/ Fails \/ Close
    BY <2>2, Closing
  <2>3. CASE Select
    BY <2>3, Selecting
  <2>4. CASE Call
    BY <2>4, Calling
  <2>5. CASE Step
    BY <2>5, Stepping
  <2>6. CASE Succeeds
    BY <2>6, Succeeding
  <2> QED BY <1>2, <2>1, <2>2, <2>3, <2>4, <2>5, <2>6 DEF Client
<1>3. CASE RelaysStep /\ UNCHANGED <<socksVars, cmdVars>>
  BY <1>3, Replying
<1>4. CASE UNCHANGED vars
  <2>1. /\ link' = link /\ guard' = guard /\ circIdLen' = circIdLen /\ hops' = hops /\ call' = call
        /\ result' = result /\ wide' = wide /\ path' = path /\ asked' = asked /\ inbox' = inbox
        /\ torn' = torn /\ misread' = misread /\ strayed' = strayed /\ cmd' = cmd /\ todo' = todo
        /\ torSelectedIdentity' = torSelectedIdentity /\ torMiddleIdentity' = torMiddleIdentity
        /\ torExitIdentity' = torExitIdentity /\ keys' = keys
    BY <1>4 DEF vars, torVars, clientVars, relayVars, cmdVars, selVars
  <2>2. /\ TodoOK(cmd, todo)' /\ Now' = Now /\ Extends(Now)' = Extends(Now) /\ Width' = Width
    BY <2>1 DEF CircuitInv, Now, Extends, Width
  <2>3. CallInv' /\ QuietInv' /\ Shapes' /\ HopsVerified' /\ GuardInv' /\ CreateInv'
    BY <2>1, <2>2 DEF CircuitInv, CallInv, QuietInv, Quiet, Opened, Shapes, HopsVerified,
                      GuardInv, CreateInv
  <2>4. (Live' => Live) /\ Pending' = Pending
    BY <2>1, <2>2 DEF Live, Pending
  <2>5. LiveInv => LiveInv'
    <3> HAVE LiveInv
    <3>1. Progress' /\ AskInv'
      BY <2>1, <2>2, <2>4 DEF LiveInv, Progress, AskInv
    <3>2. Widths'
      BY <2>1, <2>2 DEF LiveInv, Widths, NotYet, Fresh, Offered, Agreed, Later
    <3>3. Growth' /\ Forward' /\ Backward'
      BY <2>1, <2>4 DEF LiveInv, Growth, Forward, Backward
    <3> QED BY <3>1, <3>2, <3>3 DEF LiveInv
  <2> QED BY <2>1, <2>2, <2>3, <2>4, <2>5 DEF CircuitInv
<1> QED BY <1>1, <1>2, <1>3, <1>4 DEF Next

LEMMA CircuitHolds == Spec => []CircuitInv
  BY CircuitStart, CircuitStep, PTL DEF Spec

\* What the invariant says at the prompt and in a call
LEMMA InvMeans == CircuitInv => NothingOpenAtPrompt /\ HopsInStep /\ CellsReadWhole /\ HopsVerified
<1> SUFFICES ASSUME CircuitInv
             PROVE  NothingOpenAtPrompt /\ HopsInStep /\ CellsReadWhole /\ HopsVerified
  OBVIOUS
<1>1. NothingOpenAtPrompt
  <2>1. cmd = "none" => Now = "prompt" /\ result = "none"
    BY DEF CircuitInv, TodoOK, Now, StepOf, CallInv, CallSteps
  <2>2. cmd = "none" => Quiet
    BY <2>1 DEF CircuitInv, QuietInv, Opened, OpenSteps
  <2> QED BY <2>2 DEF NothingOpenAtPrompt, Quiet
<1>2. HopsInStep
  <2>1. ASSUME call # "none", inbox # <<>>, Head(inbox).cmd = "RELAY"
        PROVE  Recognizes(Head(inbox)) # {}
    <3>1. PICK c : c = Head(inbox)
      OBVIOUS
    <3>2. c = inbox[1]
      BY <2>1, <3>1, SeqIs DEF CircuitInv, Shapes
    <3> QED BY <2>1, <3>1, <3>2, Recognized
  <2> QED BY <2>1 DEF HopsInStep, CircuitInv
<1> QED BY <1>1, <1>2 DEF CellsReadWhole, CircuitInv

\* However a command goes, fails or is refused, the prompt finds no TLS link, no hop,
\* no cell and no call; a session only where it could not be opened
\* (terminal.cpp:2785, :2826, :2904-:2942).
THEOREM NothingStaysOpen == Spec => []NothingOpenAtPrompt
  BY CircuitHolds, InvMeans, PTL

\* Every hop of a circuit is the relay of its role and has proved its onion key,
\* whichever relays answer, refuse or answer with other keys (tor.cpp:349, :462).
THEOREM HopsStayVerified == Spec => []HopsVerified
  BY CircuitHolds, InvMeans, PTL

\* The ciphers and digests of both ends of every hop stay in step, for any number of
\* cells asked for or not, in both directions (tor.cpp:386, :414).
THEOREM HopsStayInStep == Spec => []HopsInStep
  BY CircuitHolds, InvMeans, PTL

\* No cell is read from its middle or with another width than it was written with
\* (tor.cpp:227, :242, :293).
THEOREM CellsStayWhole == Spec => []CellsReadWhole
  BY CircuitHolds, InvMeans, PTL
-------------------------------------------------------------------------------
(* The SOCKS5 client *)

\* What the proxy has sent, read or not.
Heard == arrived \o coming

\* Where the reply to CONNECT begins, less one: behind the method, and behind the
\* answer to the credentials where they were sent.
Before(sent) == IF sent THEN 4 ELSE 2

\* The method was no authentication, or the credentials were accepted.
Chosen(S, sent) == IF sent THEN S[4] = 0 ELSE S[2] = 0

\* Behind place b there is one reply, and nothing else.
ReplyIn(S, b) == \E r \in Replies : /\ Len(S) = b + Len(r)
                                    /\ \A i \in 1 .. Len(r) : S[b + i] = r[i]

\* What the place in the dialogue and the phase say of the bytes of the proxy.
Dialogue(S, st, ph, cr, sent, used, app) ==
  /\ sent => cr /\ Len(S) >= 4 /\ S[2] = 2
  /\ app => Len(S) >= Before(sent) + 2 /\ S[Before(sent) + 2] = 0
  /\ st = "method" => ph = 2 /\ used = 0 /\ Len(S) = 2 /\ ~sent /\ ~app
  /\ st = "auth" => ph = 5 /\ used = 2 /\ Len(S) = 4 /\ sent /\ ~app
  /\ st = "connect" => /\ ph = 7 /\ used = Before(sent) /\ Len(S) = Before(sent) /\ ~app
                       /\ Chosen(S, sent)
  /\ st \in {"reply", "replyLen", "replyAll"} =>
       /\ ph = 8 /\ used = Before(sent) /\ ReplyIn(S, Before(sent)) /\ ~app /\ Chosen(S, sent)
  /\ st = "replyLen" => S[Before(sent) + 4] = 3
  /\ st = "replyAll" => S[Before(sent) + 4] \in {1, 3, 4}
  /\ st \in {"tunnel", "drain"} =>
       /\ ph = 0 /\ Len(S) >= Before(sent) + 2 /\ S[Before(sent) + 2] = 0 /\ Chosen(S, sent)
  /\ st = "tunnel" => used = Len(S) /\ ~app
  /\ st = "drain" => Len(S) = used + 2 /\ S[used + 1] = AppByte /\ S[used + 2] = AppByte
  /\ st = "done" =>
       /\ ph = 3 => S[2] \notin {0, 2}
       /\ ph = 4 => S[2] = 2 /\ ~cr
       /\ ph = 6 => S[4] # 0
       /\ ph = 9 => S[Before(sent) + 2] # 0
       /\ ph = 0 => S[Before(sent) + 2] = 0 /\ Chosen(S, sent)

SocksTyped == /\ arrived \in Seq(Nat) /\ coming \in Seq(Nat) /\ tcpUsed \in Nat
              /\ credsSent \in BOOLEAN

SocksSaid == /\ SocksTyped
            /\ Dialogue(Heard, state, phase, creds, credsSent, tcpUsed, appSent)
            /\ \A i \in DOMAIN appGot : appGot[i] = AppByte

\* The parts of the reply that have been looked at are there.
ByName == Heard[Before(credsSent) + 4] = 3
Looked == /\ state = "replyLen" => There(4)
          /\ state = "replyAll" => There(4) /\ (ByName => There(5))

\* The inductive invariant of the SOCKS5 client.
SocksInv == SocksSaid /\ Looked

LEMMA Joins ==
  ASSUME NEW s \in Seq(Nat), NEW t \in Seq(Nat), NEW u \in Seq(Nat)
  PROVE  (s \o t) \o u = s \o (t \o u)
  BY ConcatAssociative, SMTT(30)

LEMMA HeardStays ==
  ASSUME NEW a \in Seq(Nat), NEW c \in Seq(Nat), NEW n \in 1 .. Len(c)
  PROVE  /\ a \o SubSeq(c, 1, n) \in Seq(Nat) /\ SubSeq(c, n + 1, Len(c)) \in Seq(Nat)
         /\ (a \o SubSeq(c, 1, n)) \o SubSeq(c, n + 1, Len(c)) = a \o c
<1> DEFINE s == SubSeq(c, 1, n)
           t == SubSeq(c, n + 1, Len(c))
<1>1. Len(c) \in Nat /\ n \in Nat /\ n <= Len(c) /\ 1 <= n
  OBVIOUS
<1>2. s \in Seq(Nat) /\ t \in Seq(Nat)
  BY <1>1
<1>3. s \o t = c
  <2>1. s \o t = SubSeq(c, 1, Len(c))
    BY <1>1, ConcatAdjacentSubSeq
  <2>2. SubSeq(c, 1, Len(c)) = c
    BY SubSeqFull
  <2> QED BY <2>1, <2>2
<1> HIDE DEF s, t
<1>4. (a \o s) \o t = a \o (s \o t)
  BY <1>2, Joins
<1>5. a \o s \in Seq(Nat)
  BY <1>2
<1>6. a \o s \in Seq(Nat) /\ t \in Seq(Nat) /\ (a \o s) \o t = a \o c
  BY <1>2, <1>3, <1>4, <1>5
<1> QED BY <1>6 DEF s, t

\* The proxy sends s: what was heard stays, s follows.
Follows(T, S, s) == /\ T \in Seq(Nat) /\ Len(T) = Len(S) + Len(s)
                    /\ \A i \in 1 .. Len(S) : T[i] = S[i]
                    /\ \A i \in 1 .. Len(s) : T[Len(S) + i] = s[i]
LEMMA HeardGrows ==
  ASSUME NEW a \in Seq(Nat), NEW c \in Seq(Nat), NEW s \in Seq(Nat)
  PROVE  /\ Follows(a \o (c \o s), a \o c, s) /\ c \o s \in Seq(Nat) /\ a \o c \in Seq(Nat)
<1> DEFINE S == a \o c
           T == S \o s
<1>1. S \in Seq(Nat) /\ c \o s \in Seq(Nat)
  OBVIOUS
<1>0. a \o (c \o s) = T
  BY Joins
<1> HIDE DEF S
<1>2. T \in Seq(Nat) /\ Len(T) = Len(S) + Len(s) /\ Len(S) \in Nat /\ Len(s) \in Nat
  BY <1>1
<1>3. \A i \in 1 .. Len(S) : T[i] = S[i]
  BY <1>1
<1>4. \A i \in 1 .. Len(s) : T[Len(S) + i] = s[i]
  BY <1>1
<1>5. Follows(T, S, s)
  BY <1>2, <1>3, <1>4 DEF Follows
<1> QED BY <1>0, <1>1, <1>5 DEF S

LEMMA FirstHeard ==
  ASSUME NEW a \in Seq(Nat), NEW c \in Seq(Nat), NEW k \in 1 .. Len(a)
  PROVE  /\ k \in 1 .. Len(a \o c) /\ (a \o c)[k] = a[k]
         /\ Len(a \o c) = Len(a) + Len(c) /\ Len(a) \in Nat /\ Len(c) \in Nat
  OBVIOUS

\* A reply is as long as its address type says.
ReplyLen(r) == IF r[4] = 1 THEN 10 ELSE IF r[4] = 4 THEN 22 ELSE 7 + r[5]
LEMMA FillerIs ==
  ASSUME NEW n \in Nat
  PROVE  Filler(n) \in Seq(Nat) /\ Len(Filler(n)) = n
<1>1. \A i \in 1 .. n : 9 \in Nat
  OBVIOUS
<1> QED BY <1>1 DEF Filler

LEMMA JoinedIs ==
  ASSUME NEW s \in Seq(Nat), NEW t \in Seq(Nat)
  PROVE  /\ s \o t \in Seq(Nat) /\ Len(s \o t) = Len(s) + Len(t) /\ Len(s) \in Nat /\ Len(t) \in Nat
         /\ \A i \in 1 .. Len(s) : (s \o t)[i] = s[i]
  OBVIOUS

LEMMA ReplyIs ==
  ASSUME NEW r \in Replies
  PROVE  /\ r \in Seq(Nat) /\ Len(r) \in Nat /\ Len(r) >= 7 /\ r[4] \in {1, 2, 3, 4}
         /\ r[4] # 2 => Len(r) = ReplyLen(r)
<1>1. ASSUME NEW rep \in {0, 5}, NEW ty \in {1, 2, 4}, NEW n \in {6, 18},
             r = <<5, rep, 0, ty>> \o Filler(n), ty = 1 => n = 6, ty = 4 => n = 18
      PROVE  /\ r \in Seq(Nat) /\ Len(r) \in Nat /\ Len(r) >= 7 /\ r[4] \in {1, 2, 3, 4}
             /\ r[4] # 2 => Len(r) = ReplyLen(r)
  <2> DEFINE s == <<5, rep, 0, ty>>
  <2>1. s \in Seq(Nat) /\ Len(s) = 4 /\ s[4] = ty
    <3>1. 5 \in Nat /\ rep \in Nat /\ 0 \in Nat /\ ty \in Nat
      OBVIOUS
    <3> QED BY <3>1
  <2>2. Filler(n) \in Seq(Nat) /\ Len(Filler(n)) = n
    BY FillerIs
  <2> HIDE DEF s
  <2>3. r = s \o Filler(n)
    BY <1>1 DEF s
  <2>4. r \in Seq(Nat) /\ Len(r) = 4 + n /\ r[4] = ty
    <3>1. /\ r \in Seq(Nat) /\ Len(r) = Len(s) + Len(Filler(n))
          /\ \A i \in 1 .. Len(s) : r[i] = s[i]
      BY <2>1, <2>2, <2>3, JoinedIs
    <3>2. 4 \in 1 .. Len(s)
      BY <2>1
    <3> QED BY <2>1, <2>2, <3>1, <3>2
  <2>5. r[4] \in {1, 2, 3, 4} /\ (r[4] = 1 => n = 6) /\ (r[4] = 4 => n = 18) /\ r[4] # 3
    BY <1>1, <2>4
  <2> QED BY <2>4, <2>5 DEF ReplyLen
<1>2. ASSUME NEW rep \in {0, 5}, NEW n \in DomainLens, r = <<5, rep, 0, 3, n>> \o Filler(n + 2)
      PROVE  /\ r \in Seq(Nat) /\ Len(r) \in Nat /\ Len(r) >= 7 /\ r[4] \in {1, 2, 3, 4}
             /\ r[4] # 2 => Len(r) = ReplyLen(r)
  <2> DEFINE s == <<5, rep, 0, 3, n>>
  <2>0. n \in Nat
    BY DomainAssumption
  <2>1. s \in Seq(Nat) /\ Len(s) = 5 /\ s[4] = 3 /\ s[5] = n
    <3>1. 5 \in Nat /\ rep \in Nat /\ 0 \in Nat /\ 3 \in Nat
      OBVIOUS
    <3> QED BY <2>0, <3>1
  <2>2. Filler(n + 2) \in Seq(Nat) /\ Len(Filler(n + 2)) = n + 2
    BY <2>0, FillerIs
  <2> HIDE DEF s
  <2>3. r = s \o Filler(n + 2)
    BY <1>2 DEF s
  <2>4. r \in Seq(Nat) /\ Len(r) = 5 + (n + 2) /\ r[4] = 3 /\ r[5] = n
    <3>1. /\ r \in Seq(Nat) /\ Len(r) = Len(s) + Len(Filler(n + 2))
          /\ \A i \in 1 .. Len(s) : r[i] = s[i]
      BY <2>1, <2>2, <2>3, JoinedIs
    <3>2. 4 \in 1 .. Len(s) /\ 5 \in 1 .. Len(s)
      BY <2>1
    <3> QED BY <2>1, <2>2, <3>1, <3>2
  <2> QED BY <2>0, <2>4 DEF ReplyLen
<1>3. \/ \E rep \in {0, 5} : r = <<5, rep, 0, 1>> \o Filler(6)
      \/ \E rep \in {0, 5} : r = <<5, rep, 0, 4>> \o Filler(18)
      \/ \E rep \in {0, 5}, n \in DomainLens : r = <<5, rep, 0, 3, n>> \o Filler(n + 2)
      \/ r = <<5, 0, 0, 2>> \o Filler(6)
  <2> DEFINE A == {<<5, rep, 0, 1>> \o Filler(6) : rep \in {0, 5}}
             B == {<<5, rep, 0, 4>> \o Filler(18) : rep \in {0, 5}}
             C == {<<5, rep, 0, 3, n>> \o Filler(n + 2) : rep \in {0, 5}, n \in DomainLens}
             D == <<5, 0, 0, 2>> \o Filler(6)
  <2>1. Replies = A \cup B \cup C \cup {D}
    BY DEF Replies
  <2>2. r \in A => \E rep \in {0, 5} : r = <<5, rep, 0, 1>> \o Filler(6)
    OBVIOUS
  <2>3. r \in B => \E rep \in {0, 5} : r = <<5, rep, 0, 4>> \o Filler(18)
    OBVIOUS
  <2>4. r \in C => \E rep \in {0, 5}, n \in DomainLens :
                    r = <<5, rep, 0, 3, n>> \o Filler(n + 2)
    <3> DEFINE Named(rep, n) == <<5, rep, 0, 3, n>> \o Filler(n + 2)
    <3> HIDE DEF Named
    <3>1. C = {Named(rep, n) : rep \in {0, 5}, n \in DomainLens}
      BY DEF Named
    <3> HIDE DEF C
    <3>2. r \in C => \E rep \in {0, 5}, n \in DomainLens : r = Named(rep, n)
      BY <3>1
    <3> QED BY <3>2 DEF Named
  <2> HIDE DEF A, B, C, D
  <2>5. r \in A \/ r \in B \/ r \in C \/ r = D
    BY <2>1
  <2> QED BY <2>2, <2>3, <2>4, <2>5 DEF D
<1>4. 1 \in {1, 2, 4} /\ 2 \in {1, 2, 4} /\ 4 \in {1, 2, 4} /\ 0 \in {0, 5}
      /\ 6 \in {6, 18} /\ 18 \in {6, 18} /\ 1 # 4 /\ 2 # 1 /\ 2 # 4
  OBVIOUS
<1>5. CASE \E rep \in {0, 5} : r = <<5, rep, 0, 1>> \o Filler(6)
  BY <1>1, <1>4, <1>5
<1>6. CASE \E rep \in {0, 5} : r = <<5, rep, 0, 4>> \o Filler(18)
  BY <1>1, <1>4, <1>6
<1>7. CASE r = <<5, 0, 0, 2>> \o Filler(6)
  BY <1>1, <1>4, <1>7
<1> QED BY <1>2, <1>3, <1>5, <1>6, <1>7

LEMMA SocksInitInv == SocksInit => SocksSaid
<1> SUFFICES ASSUME SocksInit PROVE SocksSaid
  OBVIOUS
<1>1. /\ state = "idle" /\ arrived = <<>> /\ coming = <<>> /\ tcpUsed = 0 /\ credsSent = FALSE
      /\ appSent = FALSE /\ appGot = <<>>
  BY DEF SocksInit
<1>10. <<>> \in Seq(Nat)
  OBVIOUS
<1>11. credsSent \in BOOLEAN
  BY <1>1
<1>0. <<>> \in Seq(Nat) /\ credsSent \in BOOLEAN
  BY <1>10, <1>11
<1>2. SocksTyped
  BY <1>0, <1>1 DEF SocksTyped
<1>3. Dialogue(Heard, state, phase, creds, credsSent, tcpUsed, appSent)
  BY <1>1 DEF Dialogue
<1>4. \A i \in DOMAIN appGot : appGot[i] = AppByte
  BY <1>1
<1> QED BY <1>2, <1>3, <1>4 DEF SocksSaid

LEMMA OpenInv ==
  ASSUME SocksOpen
  PROVE  SocksSaid'
<1>1. /\ tcpUsed' = 0 /\ arrived' = <<>> /\ credsSent' = FALSE /\ appSent' = FALSE /\ appGot' = <<>>
  BY DEF SocksOpen
<1>10. <<>> \in Seq(Nat)
  OBVIOUS
<1>11. credsSent' \in BOOLEAN
  BY <1>1
<1>0. <<>> \in Seq(Nat) /\ credsSent' \in BOOLEAN
  BY <1>10, <1>11
<1>2. \A i \in DOMAIN appGot' : appGot'[i] = AppByte
  BY <1>1
<1>3. CASE state' = "done" /\ phase' = 1 /\ coming' = <<>>
  <2>1. SocksTyped'
    BY <1>0, <1>1, <1>3 DEF SocksTyped
  <2>2. Dialogue(Heard', state', phase', creds', credsSent', tcpUsed', appSent')
    BY <1>1, <1>3 DEF Dialogue
  <2> QED BY <1>2, <2>1, <2>2 DEF SocksSaid
<1>4. CASE /\ state' = "method" /\ phase' = 2
           /\ coming' \in {<<v, m>> : v \in {4, 5}, m \in {0, 2, 3, 255}}
  <2>1. PICK v \in {4, 5}, m \in {0, 2, 3, 255} : coming' = <<v, m>>
    BY <1>4
  <2>2. coming' \in Seq(Nat) /\ Len(coming') = 2
    <3>1. v \in Nat /\ m \in Nat
      OBVIOUS
    <3> QED BY <2>1, <3>1
  <2>3. Len(Heard') = 2
    <3>1. arrived' \in Seq(Nat) /\ Len(arrived') = 0
      BY <1>1
    <3>2. Len(arrived' \o coming') = Len(arrived') + Len(coming')
      BY <2>2, <3>1, JoinedIs
    <3> QED BY <2>2, <3>1, <3>2 DEF Heard
  <2>4. SocksTyped'
    BY <1>0, <1>1, <2>2 DEF SocksTyped
  <2>5. Dialogue(Heard', state', phase', creds', credsSent', tcpUsed', appSent')
    BY <1>1, <1>4, <2>3 DEF Dialogue
  <2> QED BY <1>2, <2>4, <2>5 DEF SocksSaid
<1> QED BY <1>3, <1>4 DEF SocksOpen

LEMMA ArriveInv ==
  ASSUME SocksSaid, Arrive
  PROVE  SocksSaid'
<1>1. PICK n \in 1 .. Len(coming) : /\ arrived' = arrived \o SubSeq(coming, 1, n)
                                    /\ coming' = SubSeq(coming, n + 1, Len(coming))
  BY DEF Arrive
<1>2. UNCHANGED <<phase, state, creds, tcpUsed, credsSent, appSent, appGot>>
  BY DEF Arrive
<1>3. Heard' = Heard /\ arrived' \in Seq(Nat) /\ coming' \in Seq(Nat)
  BY <1>1, HeardStays DEF SocksSaid, SocksTyped, Heard
<1> QED BY <1>2, <1>3 DEF SocksSaid, SocksTyped

LEMMA GivesUpInv ==
  ASSUME SocksSaid, SocksGivesUp
  PROVE  SocksSaid'
<1>1. /\ state \in {"method", "auth", "connect", "reply", "replyLen", "replyAll"} /\ state' = "done"
      /\ UNCHANGED <<phase, creds, arrived, coming, tcpUsed, credsSent, appSent, appGot>>
  BY DEF SocksGivesUp
<1>2. Heard' = Heard
  BY <1>1 DEF Heard
<1> DEFINE D == Dialogue(Heard, state, phase, creds, credsSent, tcpUsed, appSent)
<1>3. D
  BY DEF SocksSaid
<1>4. phase \in {2, 5, 7, 8} /\ ~appSent
  BY <1>1, <1>3 DEF Dialogue
<1>5. Dialogue(Heard, state', phase, creds, credsSent, tcpUsed, appSent)
  BY <1>1, <1>3, <1>4 DEF Dialogue
<1> QED BY <1>1, <1>2, <1>5 DEF SocksSaid, SocksTyped

\* A byte the client looks at is the one the proxy sent at that place.
LEMMA ByteIs ==
  ASSUME SocksTyped, NEW n \in Nat, There(n), NEW i \in Nat, i < n
  PROVE  /\ Byte(i) = Heard[tcpUsed + i + 1] /\ tcpUsed + i + 1 \in 1 .. Len(Heard)
         /\ Len(Heard) >= tcpUsed + n
<1>1. arrived \in Seq(Nat) /\ coming \in Seq(Nat) /\ tcpUsed \in Nat /\ Len(arrived) >= tcpUsed + n
  BY DEF SocksTyped, There
<1>2. tcpUsed + i + 1 \in 1 .. Len(arrived)
  BY <1>1
<1>3. /\ tcpUsed + i + 1 \in 1 .. Len(Heard) /\ Heard[tcpUsed + i + 1] = arrived[tcpUsed + i + 1]
      /\ Len(Heard) = Len(arrived) + Len(coming) /\ Len(arrived) \in Nat /\ Len(coming) \in Nat
  BY <1>1, <1>2, FirstHeard DEF Heard
<1> QED BY <1>1, <1>3 DEF Byte

\* What of the method's reply the client has read is what the proxy has sent.
LEMMA MethodInv ==
  ASSUME SocksSaid, Method
  PROVE  SocksSaid'
<1>1. /\ tcpUsed = 0 /\ Len(Heard) = 2 /\ ~credsSent /\ ~appSent /\ phase = 2
  BY DEF SocksSaid, Dialogue, Method
<1>2. /\ There(2) /\ tcpUsed' = tcpUsed + 2
      /\ UNCHANGED <<creds, arrived, appSent, appGot>>
  BY DEF Method, TwoTaken
<1>3. SocksTyped
  BY DEF SocksSaid
<1>4. Byte(1) = Heard[2]
  <2>1. Byte(1) = Heard[tcpUsed + 1 + 1]
    BY <1>2, <1>3, ByteIs
  <2> QED BY <1>1, <2>1
<1>5. \A i \in DOMAIN appGot' : appGot'[i] = AppByte
  BY <1>2 DEF SocksSaid
<1>6. tcpUsed' = 2 /\ tcpUsed' \in Nat /\ creds' = creds /\ appSent' = appSent /\ ~appSent'
  BY <1>1, <1>2
<1>7. CASE UNCHANGED <<credsSent, coming>>
  <2>1. Heard' = Heard
    BY <1>2, <1>7 DEF Heard
  <2>2. SocksTyped'
    BY <1>2, <1>3, <1>6, <1>7 DEF SocksTyped
  <2>3. \/ Heard[2] = 0 /\ state' = "connect" /\ phase' = 7
        \/ Heard[2] = 2 /\ ~creds /\ state' = "done" /\ phase' = 4
        \/ Heard[2] \notin {0, 2} /\ state' = "done" /\ phase' = 3
        \/ Heard[2] = 2 /\ creds /\ credsSent'
    BY <1>4 DEF Method, MayAuth, Fail
  <2>4. ~credsSent' /\ credsSent' = credsSent
    BY <1>1, <1>7
  <2>5. Dialogue(Heard, state', phase', creds, credsSent', tcpUsed', appSent')
    BY <1>1, <1>6, <2>3, <2>4 DEF Dialogue, Before, Chosen
  <2> QED BY <1>5, <1>6, <2>1, <2>2, <2>5 DEF SocksSaid
<1>8. CASE ~UNCHANGED <<credsSent, coming>>
  <2>1. PICK status \in {0, 1} : coming' = coming \o <<1, status>>
    BY <1>8 DEF Method
  <2>2. Heard[2] = 2 /\ creds /\ state' = "auth" /\ phase' = 5 /\ credsSent' = TRUE
    BY <1>4, <1>8 DEF Method, MayAuth
  <2>3. <<1, status>> \in Seq(Nat) /\ Len(<<1, status>>) = 2
    <3>1. status \in Nat /\ 1 \in Nat
      OBVIOUS
    <3> QED BY <3>1
  <2>4. Follows(Heard', Heard, <<1, status>>) /\ coming' \in Seq(Nat)
    BY <1>2, <1>3, <2>1, <2>3, HeardGrows DEF SocksTyped, Heard
  <2>5. SocksTyped'
    BY <1>2, <1>3, <1>6, <2>2, <2>4 DEF SocksTyped
  <2>6. Len(Heard') = 4 /\ Heard'[2] = 2
    BY <1>1, <2>2, <2>3, <2>4 DEF Follows
  <2>7. Dialogue(Heard', state', phase', creds', credsSent', tcpUsed', appSent')
    BY <1>6, <2>2, <2>6 DEF Dialogue, Before, Chosen
  <2> QED BY <1>5, <2>5, <2>7 DEF SocksSaid
<1> QED BY <1>7, <1>8

LEMMA AuthInv ==
  ASSUME SocksSaid, Auth
  PROVE  SocksSaid'
<1>1. /\ tcpUsed = 2 /\ Len(Heard) = 4 /\ credsSent /\ creds /\ Heard[2] = 2 /\ ~appSent
  BY DEF SocksSaid, Dialogue, Auth
<1>2. /\ There(2) /\ tcpUsed' = tcpUsed + 2 /\ Heard' = Heard
      /\ UNCHANGED <<creds, credsSent, arrived, coming, appSent, appGot>>
  BY DEF Auth, TwoTaken, Heard
<1>3. SocksTyped
  BY DEF SocksSaid
<1>4. Byte(1) = Heard[4]
  <2>1. Byte(1) = Heard[tcpUsed + 1 + 1]
    BY <1>2, <1>3, ByteIs
  <2> QED BY <1>1, <2>1
<1>5. \A i \in DOMAIN appGot' : appGot'[i] = AppByte
  BY <1>2 DEF SocksSaid
<1>6. tcpUsed' = 4 /\ tcpUsed' \in Nat
  BY <1>1, <1>2
<1>7. SocksTyped'
  BY <1>2, <1>3, <1>6 DEF SocksTyped
<1>8. \/ Heard[4] = 0 /\ state' = "connect" /\ phase' = 7
      \/ Heard[4] # 0 /\ state' = "done" /\ phase' = 6
  BY <1>4 DEF Auth, Fail
<1>9. Dialogue(Heard, state', phase', creds, credsSent, tcpUsed', appSent)
  BY <1>1, <1>6, <1>8 DEF Dialogue, Before, Chosen
<1> QED BY <1>2, <1>5, <1>7, <1>9 DEF SocksSaid

LEMMA BeforeIs ==
  ASSUME NEW sent \in BOOLEAN
  PROVE  Before(sent) \in {2, 4} /\ Before(sent) \in Nat
  BY DEF Before

LEMMA ConnectInv ==
  ASSUME SocksSaid, Connect
  PROVE  SocksSaid'
<1> DEFINE b == Before(credsSent)
<1>1. /\ tcpUsed = b /\ Len(Heard) = b /\ ~appSent /\ Chosen(Heard, credsSent)
      /\ credsSent => creds /\ Heard[2] = 2
  BY DEF SocksSaid, Dialogue, Connect
<1>2. /\ state' = "reply" /\ phase' = 8
      /\ UNCHANGED <<creds, credsSent, arrived, tcpUsed, appSent, appGot>>
  BY DEF Connect
<1>3. PICK r \in Replies : coming' = coming \o r
  BY DEF Connect
<1>4. SocksTyped
  BY DEF SocksSaid
<1>5. r \in Seq(Nat) /\ Len(r) \in Nat
  BY ReplyIs
<1>6. Follows(Heard', Heard, r) /\ coming' \in Seq(Nat)
  BY <1>2, <1>3, <1>4, <1>5, HeardGrows DEF SocksTyped, Heard
<1>7. b \in {2, 4} /\ b = Before(credsSent)
  BY <1>4, BeforeIs DEF SocksTyped
<1> HIDE DEF b
<1>8. ReplyIn(Heard', b) /\ Len(Heard') = b + Len(r) /\ \A i \in 1 .. b : Heard'[i] = Heard[i]
  BY <1>1, <1>6 DEF ReplyIn, Follows
<1>9. SocksTyped'
  BY <1>2, <1>4, <1>6 DEF SocksTyped
<1>10. \A i \in DOMAIN appGot' : appGot'[i] = AppByte
  BY <1>2 DEF SocksSaid
<1>11. Heard'[2] = Heard[2] /\ (credsSent => b = 4 /\ Heard'[4] = Heard[4])
  BY <1>7, <1>8 DEF Before
<1>12. Chosen(Heard', credsSent)
  BY <1>1, <1>11 DEF Chosen
<1>13. credsSent => creds /\ Len(Heard') >= 4 /\ Heard'[2] = 2
  BY <1>1, <1>5, <1>8, <1>11
<1>14. Dialogue(Heard', state', phase', creds, credsSent, tcpUsed, appSent)
  BY <1>1, <1>2, <1>7, <1>8, <1>12, <1>13 DEF Dialogue
<1> QED BY <1>2, <1>9, <1>10, <1>14 DEF SocksSaid

LEMMA ReplyInv ==
  ASSUME SocksSaid, Reply
  PROVE  SocksSaid'
<1> DEFINE b == Before(credsSent)
<1>1. /\ tcpUsed = b /\ phase = 8 /\ ReplyIn(Heard, b) /\ ~appSent /\ Chosen(Heard, credsSent)
      /\ credsSent => creds /\ Len(Heard) >= 4 /\ Heard[2] = 2
  BY DEF SocksSaid, Dialogue, Reply
<1>2. /\ Heard' = Heard
      /\ UNCHANGED <<phase, creds, credsSent, arrived, coming, tcpUsed, appSent, appGot>>
  BY DEF Reply, Heard
<1>3. SocksTyped /\ b \in Nat
  BY BeforeIs DEF SocksSaid, SocksTyped
<1>4. SocksTyped'
  BY <1>2, <1>3 DEF SocksTyped
<1>5. \A i \in DOMAIN appGot' : appGot'[i] = AppByte
  BY <1>2 DEF SocksSaid
<1>6. CASE state = "reply" /\ There(4)
  <2>1. Byte(3) = Heard[b + 4]
    <3>1. Byte(3) = Heard[tcpUsed + 3 + 1]
      BY <1>3, <1>6, ByteIs
    <3> HIDE DEF b
    <3>2. tcpUsed + 3 + 1 = b + 4
      BY <1>1, <1>3
    <3> QED BY <3>1, <3>2
  <2>2. /\ state' \in {"replyLen", "replyAll", "done"}
        /\ state' = "replyLen" => Heard[b + 4] = 3
        /\ state' = "replyAll" => Heard[b + 4] \in {1, 4}
    BY <1>6, <2>1 DEF Reply
  <2>3. Dialogue(Heard, state', phase, creds, credsSent, tcpUsed, appSent)
    BY <1>1, <2>2 DEF Dialogue
  <2> QED BY <1>2, <1>4, <1>5, <2>3 DEF SocksSaid
<1>7. CASE state = "replyLen" /\ state' = "replyAll"
  <2>1. Heard[b + 4] = 3
    BY <1>7 DEF SocksSaid, Dialogue
  <2>3. Dialogue(Heard, state', phase, creds, credsSent, tcpUsed, appSent)
    BY <1>1, <1>7, <2>1 DEF Dialogue
  <2> QED BY <1>2, <1>4, <1>5, <2>3 DEF SocksSaid
<1> QED BY <1>6, <1>7 DEF Reply

LEMMA ReplyAllInv ==
  ASSUME SocksSaid, Looked, ReplyAll
  PROVE  SocksSaid'
<1> DEFINE b == Before(credsSent)
           S == Heard
<1>1. /\ tcpUsed = b /\ ~appSent /\ Chosen(S, credsSent) /\ S[b + 4] \in {1, 3, 4}
      /\ credsSent => creds /\ Len(S) >= 4 /\ S[2] = 2
  BY DEF SocksSaid, Dialogue, ReplyAll
<1>2. /\ Heard' = Heard /\ There(ReplyTotal)
      /\ UNCHANGED <<creds, credsSent, arrived, coming, appSent, appGot>>
  BY DEF ReplyAll, Heard
<1>3. SocksTyped /\ b \in Nat /\ S \in Seq(Nat)
  BY BeforeIs DEF SocksSaid, SocksTyped, Heard
<1>4. PICK r \in Replies : Len(S) = b + Len(r) /\ \A i \in 1 .. Len(r) : S[b + i] = r[i]
  BY DEF SocksSaid, Dialogue, ReplyAll, ReplyIn
<1>5. /\ Len(r) \in Nat /\ Len(r) >= 7 /\ r[4] \in {1, 2, 3, 4} /\ (r[4] # 2 => Len(r) = ReplyLen(r))
  BY ReplyIs
<1>6. /\ 1 \in 1 .. Len(r) /\ 2 \in 1 .. Len(r) /\ 4 \in 1 .. Len(r) /\ 5 \in 1 .. Len(r)
  BY <1>5
<1>7. S[b + 2] = r[2] /\ S[b + 4] = r[4] /\ S[b + 5] = r[5]
  <2> HIDE DEF b, S
  <2> QED BY <1>4, <1>6
<1>8. r[4] \in {1, 3, 4} /\ Len(r) = ReplyLen(r) /\ r[5] \in Nat
  <2>1. r \in Seq(Nat)
    BY ReplyIs
  <2> HIDE DEF b, S
  <2> QED BY <1>1, <1>5, <1>6, <1>7, <2>1
<1>9. There(4) /\ (S[b + 4] = 3 => There(5))
  <2>1. state = "replyAll"
    BY DEF ReplyAll
  <2>2. There(4) /\ (ByName => There(5))
    BY <2>1 DEF Looked
  <2>3. ByName <=> S[b + 4] = 3
    BY DEF ByName
  <2> QED BY <2>2, <2>3
<1>10. Byte(3) = S[b + 4] /\ (There(5) => Byte(4) = S[b + 5])
  <2>1. Byte(3) = S[tcpUsed + 3 + 1] /\ (There(5) => Byte(4) = S[tcpUsed + 4 + 1])
    BY <1>3, <1>9, ByteIs
  <2> HIDE DEF b, S
  <2>2. tcpUsed + 3 + 1 = b + 4 /\ tcpUsed + 4 + 1 = b + 5
    BY <1>1, <1>3
  <2> QED BY <2>1, <2>2
<1>18. Byte(1) = S[b + 2]
  <2>1. Byte(1) = S[tcpUsed + 1 + 1]
    BY <1>3, <1>9, ByteIs
  <2> HIDE DEF b, S
  <2>2. tcpUsed + 1 + 1 = b + 2
    BY <1>1, <1>3
  <2> QED BY <2>1, <2>2
<1>11. ReplyTotal = Len(r)
  BY <1>7, <1>8, <1>9, <1>10 DEF ReplyTotal, ReplyLen
<1>12. tcpUsed' = Len(S) /\ tcpUsed' \in Nat
  <2>1. tcpUsed' = tcpUsed + ReplyTotal
    BY DEF ReplyAll
  <2> HIDE DEF b, S
  <2> QED BY <1>1, <1>3, <1>4, <1>5, <1>11, <2>1
<1>13. Len(S) >= b + 2 /\ b + 2 = Before(credsSent) + 2
  <2> HIDE DEF S
  <2>1. b = Before(credsSent)
    OBVIOUS
  <2> HIDE DEF b
  <2> QED BY <1>3, <1>4, <1>5, <2>1
<1>14. SocksTyped'
  BY <1>2, <1>3, <1>12 DEF SocksTyped
<1>15. \A i \in DOMAIN appGot' : appGot'[i] = AppByte
  BY <1>2 DEF SocksSaid
<1>16. \/ S[b + 2] = 0 /\ state' = "tunnel" /\ phase' = 0
       \/ S[b + 2] # 0 /\ state' = "done" /\ phase' = 9
  BY <1>18 DEF ReplyAll, Fail, Granted
<1> HIDE DEF S
<1>17. Dialogue(S, state', phase', creds, credsSent, tcpUsed', appSent)
  BY <1>1, <1>12, <1>13, <1>16 DEF Dialogue
<1> QED BY <1>2, <1>14, <1>15, <1>17 DEF SocksSaid, S

LEMMA SendAppInv ==
  ASSUME SocksSaid, SendApp
  PROVE  SocksSaid'
<1> DEFINE b == Before(credsSent)
<1>1. /\ phase = 0 /\ Len(Heard) >= b + 2 /\ Heard[b + 2] = 0 /\ Chosen(Heard, credsSent)
      /\ tcpUsed = Len(Heard) /\ ~appSent /\ (credsSent => creds /\ Len(Heard) >= 4 /\ Heard[2] = 2)
  BY DEF SocksSaid, Dialogue, SendApp
<1>2. UNCHANGED <<phase, creds, credsSent, arrived, tcpUsed, appGot>>
  BY DEF SendApp
<1>3. SocksTyped /\ b \in {2, 4}
  BY BeforeIs DEF SocksSaid, SocksTyped
<1>5. \A i \in DOMAIN appGot' : appGot'[i] = AppByte
  BY <1>2 DEF SocksSaid
<1>6. CASE state' = "done" /\ UNCHANGED <<appSent, coming>>
  <2>1. SocksTyped' /\ Heard' = Heard
    BY <1>2, <1>3, <1>6 DEF SocksTyped, Heard
  <2>2. Dialogue(Heard, state', phase, creds, credsSent, tcpUsed, appSent)
    BY <1>1, <1>6 DEF Dialogue
  <2> QED BY <1>2, <1>5, <1>6, <2>1, <2>2 DEF SocksSaid
<1>7. CASE state' = "drain" /\ appSent' = TRUE /\ coming' = coming \o <<AppByte, AppByte>>
  <2>1. /\ <<AppByte, AppByte>> \in Seq(Nat) /\ Len(<<AppByte, AppByte>>) = 2
        /\ <<AppByte, AppByte>>[1] = AppByte /\ <<AppByte, AppByte>>[2] = AppByte
    <3>1. AppByte \in Nat
      BY DEF AppByte
    <3> QED BY <3>1
  <2>2. Follows(Heard', Heard, <<AppByte, AppByte>>) /\ coming' \in Seq(Nat) /\ Heard \in Seq(Nat)
    BY <1>2, <1>3, <1>7, <2>1, HeardGrows DEF SocksTyped, Heard
  <2>3. SocksTyped'
    BY <1>2, <1>3, <2>2 DEF SocksTyped
  <2>4. PICK T : T = Heard'
    OBVIOUS
  <2>5. PICK S \in Seq(Nat) : S = Heard
    BY <2>2
  <2> HIDE DEF b
  <2>6. /\ Len(T) = Len(S) + 2 /\ T[Len(S) + 1] = AppByte /\ T[Len(S) + 2] = AppByte
        /\ \A i \in 1 .. Len(S) : T[i] = S[i]
    <3>1. 1 \in 1 .. 2 /\ 2 \in 1 .. 2
      OBVIOUS
    <3> HIDE DEF AppByte
    <3> QED BY <2>1, <2>2, <2>4, <2>5, <3>1 DEF Follows
  <2>7. Len(S) \in Nat /\ Len(S) >= b + 2 /\ b + 2 \in 1 .. Len(S) /\ 2 \in 1 .. Len(S)
        /\ (b = 4 => 4 \in 1 .. Len(S))
    BY <1>1, <1>3, <2>5
  <2>8. /\ Len(T) >= b + 2 /\ T[b + 2] = 0 /\ T[2] = S[2] /\ (b = 4 => T[4] = S[4])
        /\ Len(T) >= Len(S)
    BY <1>1, <1>3, <2>5, <2>6, <2>7
  <2>9. credsSent => creds /\ Len(T) >= 4 /\ T[2] = 2
    BY <1>1, <1>3, <2>5, <2>6, <2>7, <2>8
  <2>10. Chosen(T, credsSent)
    BY <1>1, <2>5, <2>8 DEF Chosen, b, Before
  <2>11. Len(T) = tcpUsed + 2 /\ T[tcpUsed + 1] = AppByte /\ T[tcpUsed + 2] = AppByte
    BY <1>1, <2>5, <2>6
  <2>12. Len(T) >= Before(credsSent) + 2 /\ T[Before(credsSent) + 2] = 0
    BY <2>8 DEF b
  <2>13. Dialogue(T, state', phase, creds, credsSent, tcpUsed, appSent')
    <3> HIDE DEF AppByte
    <3> QED BY <1>1, <1>7, <2>9, <2>10, <2>11, <2>12 DEF Dialogue
  <2> QED BY <1>2, <1>5, <2>3, <2>4, <2>13 DEF SocksSaid
<1> QED BY <1>6, <1>7 DEF SendApp

LEMMA DrainInv ==
  ASSUME SocksSaid, Drain
  PROVE  SocksSaid'
<1>1. /\ phase = 0 /\ Heard[Before(credsSent) + 2] = 0 /\ Chosen(Heard, credsSent)
      /\ credsSent => creds /\ Len(Heard) >= 4 /\ Heard[2] = 2
      /\ appSent => Len(Heard) >= Before(credsSent) + 2 /\ Heard[Before(credsSent) + 2] = 0
      /\ Len(Heard) = tcpUsed + 2 /\ Heard[tcpUsed + 1] = AppByte /\ Heard[tcpUsed + 2] = AppByte
  BY DEF SocksSaid, Dialogue, Drain
<1>2. /\ state' = "done" /\ Heard' = Heard /\ tcpUsed' = Len(arrived)
      /\ appGot' = SubSeq(arrived, tcpUsed + 1, Len(arrived))
      /\ UNCHANGED <<phase, creds, credsSent, arrived, coming, appSent>>
  BY DEF Drain, Heard
<1>3. SocksTyped /\ arrived \in Seq(Nat) /\ coming \in Seq(Nat) /\ tcpUsed \in Nat
      /\ Len(arrived) \in Nat
  BY DEF SocksSaid, SocksTyped
<1>4. SocksTyped'
  BY <1>2, <1>3 DEF SocksTyped
<1>5. \A k \in 1 .. Len(arrived) : Heard[k] = arrived[k] /\ k <= Len(Heard) /\ Len(Heard) \in Nat
  BY <1>3, FirstHeard DEF Heard
<1>6. ASSUME NEW i \in DOMAIN appGot' PROVE appGot'[i] = AppByte
  <2> DEFINE g == SubSeq(arrived, tcpUsed + 1, Len(arrived))
  <2>1. i \in 1 .. Len(g) /\ Len(g) \in Nat /\ g \in Seq(Nat)
    <3>1. g \in Seq(Nat)
      BY <1>3
    <3> HIDE DEF g
    <3>2. appGot' = g
      BY <1>2 DEF g
    <3> QED BY <1>6, <3>1, <3>2
  <2>2. tcpUsed + i \in 1 .. Len(arrived) /\ g[i] = arrived[tcpUsed + i] /\ i >= 1 /\ i \in Nat
    <3>1. \A k \in tcpUsed + 1 .. Len(arrived) : arrived[k] \in Nat
      BY <1>3
    <3> DEFINE m == tcpUsed + 1
    <3>2. m \in Int /\ Len(arrived) \in Int /\ m = tcpUsed + 1
      BY <1>3
    <3> HIDE DEF m
    <3>3. /\ Len(SubSeq(arrived, m, Len(arrived))) =
             IF m <= Len(arrived) THEN Len(arrived) - m + 1 ELSE 0
          /\ \A k \in 1 .. Len(arrived) - m + 1 :
               SubSeq(arrived, m, Len(arrived))[k] = arrived[m + k - 1]
      BY <3>1, <3>2, SubSeqProperties
    <3>4. /\ Len(g) = IF m <= Len(arrived) THEN Len(arrived) - m + 1 ELSE 0
          /\ \A k \in 1 .. Len(arrived) - m + 1 : g[k] = arrived[m + k - 1]
      BY <3>3 DEF m
    <3> HIDE DEF g
    <3>5. i \in 1 .. Len(arrived) - m + 1
      BY <1>3, <2>1, <3>2, <3>4
    <3>6. m + i - 1 = tcpUsed + i /\ tcpUsed + i \in 1 .. Len(arrived) /\ i >= 1 /\ i \in Nat
      BY <1>3, <3>2, <3>5
    <3> QED BY <3>4, <3>5, <3>6
  <2>3. Heard[tcpUsed + i] = arrived[tcpUsed + i] /\ tcpUsed + i <= Len(Heard) /\ Len(Heard) \in Nat
    BY <1>5, <2>2
  <2>4. i = 1 \/ i = 2
    <3>1. Len(Heard) = tcpUsed + 2 /\ tcpUsed \in Nat
      BY <1>1, <1>3
    <3>2. tcpUsed + i <= tcpUsed + 2 /\ i \in Nat /\ i >= 1
      BY <2>2, <2>3, <3>1
    <3> HIDE DEF g
    <3> QED BY <3>1, <3>2
  <2>5. Heard[tcpUsed + i] = AppByte
    BY <1>1, <2>4
  <2> QED BY <1>2, <2>2, <2>3, <2>5
<1>7. Dialogue(Heard, state', phase, creds, credsSent, tcpUsed', appSent)
  BY <1>1, <1>2 DEF Dialogue
<1> QED BY <1>2, <1>4, <1>6, <1>7 DEF SocksSaid

LEMMA LookedInv ==
  ASSUME SocksInv, SocksStep
  PROVE  Looked'
<1>1. CASE Arrive
  <2>1. PICK n \in 1 .. Len(coming) : /\ arrived' = arrived \o SubSeq(coming, 1, n)
                                      /\ coming' = SubSeq(coming, n + 1, Len(coming))
    BY <1>1 DEF Arrive
  <2>2. UNCHANGED <<state, tcpUsed, credsSent>>
    BY <1>1 DEF Arrive
  <2>3. arrived \in Seq(Nat) /\ coming \in Seq(Nat) /\ tcpUsed \in Nat
    BY DEF SocksInv, SocksSaid, SocksTyped
  <2>4. Heard' = Heard
    BY <2>1, <2>3, HeardStays DEF Heard
  <2>5. Len(arrived') >= Len(arrived) /\ Len(arrived') \in Nat /\ Len(arrived) \in Nat
    <3>1. Len(coming) \in Nat /\ n \in Nat /\ n <= Len(coming)
      BY <2>3
    <3>2. SubSeq(coming, 1, n) \in Seq(Nat)
      BY <2>3, <3>1
    <3> DEFINE s == SubSeq(coming, 1, n)
    <3>3. s \in Seq(Nat) /\ arrived' = arrived \o s
      BY <2>1, <3>2
    <3> HIDE DEF s
    <3>4. /\ Len(arrived') = Len(arrived) + Len(s) /\ Len(s) \in Nat /\ Len(arrived) \in Nat
      BY <2>3, <3>3, JoinedIs
    <3> QED BY <3>4
  <2>6. \A k \in Nat : There(k) => There(k)'
    BY <2>2, <2>3, <2>5 DEF There
  <2>7. Looked
    BY DEF SocksInv
  <2>8. (There(4) => There(4)') /\ (There(5) => There(5)')
    BY <2>6
  <2>9. ByName' = ByName
    BY <2>2, <2>4 DEF ByName
  <2> QED BY <2>2, <2>7, <2>8, <2>9 DEF Looked
<1>2. CASE Reply
  <2>1. UNCHANGED <<arrived, tcpUsed, credsSent>> /\ Heard' = Heard
    BY <1>2 DEF Reply, Heard
  <2>2. There(4)' = There(4) /\ There(5)' = There(5)
    BY <2>1 DEF There
  <2>3. There(5) => There(4)
    <3>1. Len(arrived) \in Nat /\ tcpUsed \in Nat
      BY DEF SocksInv, SocksSaid, SocksTyped
    <3> QED BY <3>1 DEF There
  <2>4. CASE /\ state = "reply" /\ There(4)
             /\ state' = IF Byte(3) = 3 THEN "replyLen"
                         ELSE IF Byte(3) \in {1, 4} THEN "replyAll" ELSE "done"
    <3>1. Byte(3) = Heard[Before(credsSent) + 4]
      <4>1. /\ tcpUsed = Before(credsSent) /\ tcpUsed \in Nat /\ SocksTyped
        BY <2>4 DEF SocksInv, SocksSaid, SocksTyped, Dialogue
      <4>2. Byte(3) = Heard[tcpUsed + 3 + 1]
        BY <2>4, <4>1, ByteIs
      <4>3. tcpUsed + 3 + 1 = tcpUsed + 4
        BY <4>1
      <4> QED BY <4>1, <4>2, <4>3
    <3>2. ByName' <=> Byte(3) = 3
      BY <2>1, <3>1 DEF ByName
    <3>3. state' \in {"replyLen", "replyAll"} => There(4)'
      BY <2>2, <2>4
    <3>4. state' = "replyAll" => Byte(3) # 3
      BY <2>4
    <3> QED BY <3>2, <3>3, <3>4 DEF Looked
  <2>5. CASE There(5)
    BY <2>2, <2>3, <2>5 DEF Looked
  <2> QED BY <1>2, <2>4, <2>5 DEF Reply
<1>3. CASE ~Arrive /\ ~Reply
  <2>1. state' \notin {"replyLen", "replyAll"}
    BY <1>3 DEF SocksStep, SocksOpen, SocksGivesUp, Method, Auth, Connect, ReplyAll, SendApp, Drain,
                Fail
  <2> QED BY <2>1 DEF Looked
<1> QED BY <1>1, <1>2, <1>3

LEMMA SocksDoneInv ==
  ASSUME SocksDone
  PROVE  SocksInv'
<1>1. /\ state' = "idle" /\ arrived' = <<>> /\ coming' = <<>> /\ tcpUsed' = 0 /\ credsSent' = FALSE
      /\ appSent' = FALSE /\ appGot' = <<>>
  BY DEF SocksDone
<1>2. <<>> \in Seq(Nat) /\ 0 \in Nat
  OBVIOUS
<1>3. credsSent' \in BOOLEAN
  BY <1>1
<1>4. SocksTyped'
  BY <1>1, <1>2, <1>3 DEF SocksTyped
<1>5. Dialogue(Heard', state', phase', creds', credsSent', tcpUsed', appSent')
  BY <1>1 DEF Dialogue
<1>6. \A i \in DOMAIN appGot' : appGot'[i] = AppByte
  BY <1>1
<1>7. Looked'
  BY <1>1 DEF Looked
<1> QED BY <1>4, <1>5, <1>6, <1>7 DEF SocksInv, SocksSaid

LEMMA SocksStepInv ==
  ASSUME SocksInv, SocksStep
  PROVE  SocksInv'
<1>1. Looked'
  BY LookedInv
<1>2. SocksSaid /\ Looked
  BY DEF SocksInv
<1>3. SocksSaid'
  BY <1>2, OpenInv, ArriveInv, GivesUpInv, MethodInv, AuthInv, ConnectInv, ReplyInv, ReplyAllInv,
     SendAppInv, DrainInv DEF SocksStep
<1> QED BY <1>1, <1>3 DEF SocksInv

LEMMA SocksMeans == SocksInv => PhaseTellsStop /\ OnlyThroughTunnel
<1> SUFFICES ASSUME SocksInv PROVE PhaseTellsStop /\ OnlyThroughTunnel
  OBVIOUS
<1>1. Dialogue(Heard, state, phase, creds, credsSent, tcpUsed, appSent) /\ SocksTyped
  BY DEF SocksInv, SocksSaid
<1>2. \A i : Said(i) = Heard[i]
  BY DEF Said, Heard
<1>3. ReplyAt + 1 = Before(credsSent) + 2
  BY DEF ReplyAt, Before
<1>4. Chosen(Heard, credsSent) => (Heard[2] = 2 => Heard[4] = 0)
  BY DEF Chosen
<1>5. PhaseTellsStop
  BY <1>1, <1>2, <1>3, <1>4 DEF PhaseTellsStop, Dialogue
<1>6. OnlyThroughTunnel
  <2>1. \A i \in DOMAIN appGot : appGot[i] = AppByte
    BY DEF SocksInv, SocksSaid
  <2> QED BY <1>1, <1>2, <1>3, <2>1 DEF OnlyThroughTunnel, Dialogue
<1> QED BY <1>5, <1>6

LEMMA SocksHolds == Spec => []SocksInv
<1>1. Init => SocksInv
  BY SocksInitInv DEF Init, SocksInv, Looked, SocksInit
<1>2. SocksInv /\ [Next]_vars => SocksInv'
  <2> SUFFICES ASSUME SocksInv, [Next]_vars PROVE SocksInv'
    OBVIOUS
  <2>1. CASE Socks
    BY <2>1, SocksStepInv, SocksDoneInv DEF Socks
  <2>2. CASE UNCHANGED socksVars
    BY <2>2 DEF socksVars, SocksInv, SocksSaid, SocksTyped, Looked, ByName, Heard, There
  <2>3. (Client => Socks \/ UNCHANGED socksVars) /\ (UNCHANGED vars => UNCHANGED socksVars)
    BY DEF Client, vars, ConsensusFails, NoConsensus, Consensus, Parsed, ParseRelay, Blocked, Select,
           Call, Step, Succeeds, Fails, Close, Refuse
  <2> QED BY <2>1, <2>2, <2>3 DEF Next, Start
<1> QED BY <1>1, <1>2, PTL DEF Spec

\* failPhase says where socks5Connect stopped, told from the bytes of the proxy: every
\* reply is read at its own first byte, for every length of a bound name, however
\* the bytes come in and whatever the proxy answers (network.cpp:1733).
THEOREM PhasesTellTheStop == Spec => []PhaseTellsStop
  BY SocksHolds, SocksMeans, PTL

\* Credentials go only to a proxy that asked for them, the request only through a
\* tunnel it has opened, and the answer is none of the proxy's own bytes
\* (network.cpp:1806).
THEOREM TunnelOnly == Spec => []OnlyThroughTunnel
  BY SocksHolds, SocksMeans, PTL
===============================================================================
