------------------------------- MODULE Keyboard -------------------------------
(***************************************************************************)
(* The keyboard path of MrHakOS (src/libc/interrupts.cpp): the i8042 data  *)
(* port, the IRQ1 handler, the polling fallback, and the key ring between  *)
(* them and the terminal's main loop (Terminal::run, terminal.cpp).        *)
(*                                                                         *)
(* Two contexts share the ring and the decoder's flags without a lock.     *)
(* The IRQ1 handler runs behind an interrupt gate, so it is one atomic     *)
(* action.  The main loop can be interrupted between any two of its        *)
(* accesses to a volatile variable or a port, so it is a sequence of       *)
(* steps with the program counter pc.                                      *)
(*                                                                         *)
(* The controller is external; delivery, fixed when the machine boots, is  *)
(* what it does with IRQ1:                                                 *)
(*   "irq"         every byte raises IRQ1, taken before the main loop runs *)
(*                 another step                                            *)
(*   "polled"      IRQ1 never comes (the boots the comment at              *)
(*                 interrupts.hpp:41-43 describes)                         *)
(*   "late"        every byte raises IRQ1, but the main loop may take      *)
(*                 steps before the processor takes the interrupt          *)
(*   "unreliable"  a byte may or may not raise IRQ1 (interrupts.cpp:282)   *)
(***************************************************************************)
EXTENDS Naturals, Sequences

CONSTANTS QueueSize,   \* slots of key_queue (64 in the code)
          PollBurst,   \* bytes pollKeyboard drains in one call (16)
          Plain,       \* scancodes the two ASCII tables map to a key
          Enter,       \* those of them that end a command line
          Nav,         \* scancodes that name a key after the 0xE0 prefix
          Machines,    \* the deliveries of IRQ1 considered, see above
          Mouse,       \* those of them with a mouse that reports movements
          MaxBytes,    \* bound: keyboard bytes where one party reads the port
          MaxRaced,    \* bound: keyboard bytes where two may
          MaxAux       \* bound: mouse bytes in a behaviour

Deliveries == {"irq", "polled", "late", "unreliable"}

\* The other scancodes: the prefix, the shift keys, any release code.
Control == {"E0", "ShiftMake", "ShiftBreak", "Release"}

ASSUME QueueSizeAssumption == QueueSize \in Nat /\ QueueSize > 1
ASSUME PollBurstAssumption == PollBurst \in Nat \ {0}
ASSUME MachinesAssumption == Mouse \subseteq Machines /\ Machines \subseteq Deliveries
ASSUME CodeAssumption == /\ Enter \subseteq Plain
                         /\ (Plain \cup Nav) \cap (Control \cup {"none"}) = {}
ASSUME BoundAssumption == MaxBytes \in Nat /\ MaxRaced \in Nat /\ MaxAux \in Nat

Code == Plain \cup Nav \cup Control

Key == (Plain \X {"base", "shift"}) \cup (Nav \X {"nav"})
NoKey == <<"none", "none">>

Slot == 0 .. QueueSize - 1
Nat1 == Nat \ {0}

\* A byte of the data port.  Keyboard bytes are numbered from 1; the number
\* is not in the code, it lets the properties tell two equal keys apart.
\* Byte 0 is the mouse's, whose value nobody looks at.
KeyByte == [byte : Nat1, code : Code]
AuxByte == [byte |-> 0, code |-> "none"]
NoByte  == [byte |-> 0, code |-> "empty"]

\* What the ring holds: a key and the number of the byte it was made from.
Entry == [byte : Nat, key : Key \cup {NoKey}]
NoEntry == [byte |-> 0, key |-> NoKey]

VARIABLES
  delivery,           \* how this machine delivers IRQ1
  obf,                \* the controller's output buffer, NoByte when empty
  port,               \* the byte a read of port 0x60 returns
  irq1,               \* IRQ1 is raised and not yet taken
  stream,             \* the scancodes the keyboard has sent, a history
  mice,               \* how many bytes the mouse has sent
  key_queue, key_head, key_tail,
  extended_scancode, shift_pressed,
  g_keyboard_irq_seen,
  g_keyboard_irq_scancodes, g_keyboard_polled_scancodes,
  pc,                 \* where the main loop is
  i,                  \* the loop counter of pollKeyboard
  scancode,           \* the byte pollKeyboard read from the port
  pending,            \* enqueueKey's argument on the main loop
  next,               \* enqueueKey's local of that name
  k,                  \* getLastKey's local of that name
  got                 \* the keys handed to Terminal::handleChar

hw     == <<delivery, obf, port, irq1, stream, mice>>
ring   == <<key_queue, key_head, key_tail>>
flags  == <<extended_scancode, shift_pressed>>
counts == <<g_keyboard_irq_scancodes, g_keyboard_polled_scancodes>>
locals == <<i, scancode, pending, next, k>>
vars   == <<hw, ring, flags, g_keyboard_irq_seen, counts, pc, locals, got>>

-------------------------------------------------------------------------------
(* Pure parts: the ring's index arithmetic and the scancode decoder. *)

\* (x + 1) & 63
Succ(x) == IF x = QueueSize - 1 THEN 0 ELSE x + 1

\* A mutant: enqueueKey does not look for room.
FullNever(n, tail) == FALSE

\* next == key_tail: the ring keeps one slot free
Full(n, tail) == n = tail

\* A mutant: a release code after the prefix leaves the prefix in force.
DecodeKeepsPrefix(code, ext, shift) ==
  CASE code = "E0" -> [ext |-> TRUE, shift |-> shift, key |-> NoKey]
    [] code # "E0" /\ ext ->
         [ext |-> code = "Release", shift |-> shift,
          key |-> IF code \in Nav THEN <<code, "nav">> ELSE NoKey]
    [] OTHER ->
         [ext |-> FALSE,
          shift |-> code = "ShiftMake" \/ (shift /\ code # "ShiftBreak"),
          key |-> IF code \in Plain
                  THEN <<code, IF shift THEN "shift" ELSE "base">>
                  ELSE NoKey]

\* processKeyboardScancode: the flags after the code, and the key it yields
DecodeCode(code, ext, shift) ==
  CASE code = "E0" -> [ext |-> TRUE, shift |-> shift, key |-> NoKey]
    [] code # "E0" /\ ext ->
         [ext |-> FALSE, shift |-> shift,
          key |-> IF code \in Nav THEN <<code, "nav">> ELSE NoKey]
    [] code = "ShiftMake" /\ ~ext ->
         [ext |-> FALSE, shift |-> TRUE, key |-> NoKey]
    [] code = "ShiftBreak" /\ ~ext ->
         [ext |-> FALSE, shift |-> FALSE, key |-> NoKey]
    [] OTHER ->
         [ext |-> FALSE, shift |-> shift,
          key |-> IF code \in Plain
                  THEN <<code, IF shift THEN "shift" ELSE "base">>
                  ELSE NoKey]

\* The contents, oldest key first, of a ring q with head h and tail t.
CountOf(h, t) == IF h >= t THEN h - t ELSE h + QueueSize - t
SlotFrom(t, n) == IF t + n < QueueSize THEN t + n ELSE t + n - QueueSize
ContentsOf(q, h, t) == [n \in 1 .. CountOf(h, t) |-> q[SlotFrom(t, n - 1)]]
Contents == ContentsOf(key_queue, key_head, key_tail)

-------------------------------------------------------------------------------
Init ==
  /\ delivery \in Machines
  /\ obf = NoByte /\ port = NoByte /\ irq1 = FALSE
  /\ stream = <<>> /\ mice = 0
  /\ key_queue = [s \in Slot |-> NoEntry] /\ key_head = 0 /\ key_tail = 0
  /\ extended_scancode = FALSE /\ shift_pressed = FALSE
  /\ g_keyboard_irq_seen = FALSE
  /\ g_keyboard_irq_scancodes = 0 /\ g_keyboard_polled_scancodes = 0
  /\ pc = "poll" /\ i = 0
  /\ scancode = NoByte /\ pending = NoEntry /\ next = 0 /\ k = NoEntry
  /\ got = <<>>

-------------------------------------------------------------------------------
(* The i8042 controller (external): one byte at a time in the output buffer. *)

\* One party alone reads the data port: the handler, or the poller.
OneReader == delivery \in {"irq", "polled"}

KeyboardByte ==
  /\ obf = NoByte /\ Len(stream) < (IF OneReader THEN MaxBytes ELSE MaxRaced)
  /\ \E c \in Code :
       /\ stream' = Append(stream, c)
       /\ obf' = [byte |-> Len(stream) + 1, code |-> c]
  /\ port' = obf'
  /\ irq1' \in CASE delivery = "polled" -> {FALSE}
                 [] delivery = "unreliable" -> BOOLEAN
                 [] OTHER -> {TRUE}
  /\ UNCHANGED <<delivery, mice, ring, flags, g_keyboard_irq_seen, counts, pc,
                 locals, got>>

\* A mouse byte has the AUX status bit and would raise IRQ12, which is masked.
MouseByte ==
  /\ obf = NoByte /\ delivery \in Mouse /\ mice < MaxAux
  /\ obf' = AuxByte /\ port' = AuxByte
  /\ mice' = mice + 1
  /\ UNCHANGED <<delivery, irq1, stream, ring, flags, g_keyboard_irq_seen, counts, pc,
                 locals, got>>

\* inb(0x60): the buffer empties and IRQ1 falls; a read of an empty buffer
\* returns the last byte again.
ReadPort == /\ obf' = NoByte /\ irq1' = FALSE
            /\ UNCHANGED <<delivery, port, stream, mice>>

-------------------------------------------------------------------------------
(* The interrupt handler, one atomic step. *)

IsrKeyboard ==
  /\ irq1
  /\ ReadPort
  /\ g_keyboard_irq_scancodes' = g_keyboard_irq_scancodes + 1
  /\ g_keyboard_irq_seen' = TRUE
  /\ LET d == DecodeCode(port.code, extended_scancode, shift_pressed)
         n == Succ(key_head) IN
     /\ extended_scancode' = d.ext
     /\ shift_pressed' = d.shift
     /\ IF d.key = NoKey \/ Full(n, key_tail)
        THEN UNCHANGED <<key_queue, key_head>>
        ELSE /\ key_queue' = [key_queue EXCEPT
                                ![key_head] = [byte |-> port.byte, key |-> d.key]]
             /\ key_head' = n
  /\ UNCHANGED <<key_tail, g_keyboard_polled_scancodes, pc, locals, got>>

-------------------------------------------------------------------------------
(* The main loop.  It runs only when no interrupt is due, except under    *)
(* "late".                                                                *)

MainRuns == delivery = "late" \/ ~irq1

\* pollKeyboard: the ownership test, made once per call
PollEnter ==
  /\ pc = "poll" /\ MainRuns
  /\ pc' = IF g_keyboard_irq_seen THEN "drain" ELSE "status"
  /\ i' = 0
  /\ UNCHANGED <<hw, ring, flags, g_keyboard_irq_seen, counts, scancode,
                 pending, next, k, got>>

\* A mutant: a mouse byte ends the burst instead of being read.
PollStatusStopsAtAux ==
  /\ pc = "status" /\ MainRuns
  /\ IF i < PollBurst /\ obf \notin {NoByte, AuxByte}
     THEN pc' = "data" /\ i' = i + 1
     ELSE pc' = "drain" /\ UNCHANGED i
  /\ UNCHANGED <<hw, ring, flags, g_keyboard_irq_seen, counts, scancode,
                 pending, next, k, got>>

\* inb(0x64) and what the status byte decides
PollStatus ==
  /\ pc = "status" /\ MainRuns
  /\ IF i < PollBurst /\ obf # NoByte
     THEN pc' = (IF obf = AuxByte THEN "aux" ELSE "data") /\ i' = i + 1
     ELSE pc' = "drain" /\ UNCHANGED i
  /\ UNCHANGED <<hw, ring, flags, g_keyboard_irq_seen, counts, scancode,
                 pending, next, k, got>>

\* the mouse byte is read and forgotten
PollAux ==
  /\ pc = "aux" /\ MainRuns
  /\ ReadPort
  /\ pc' = "status"
  /\ UNCHANGED <<ring, flags, g_keyboard_irq_seen, counts, locals, got>>

\* inb(0x60)
PollData ==
  /\ pc = "data" /\ MainRuns
  /\ ReadPort
  /\ scancode' = port
  /\ g_keyboard_polled_scancodes' = g_keyboard_polled_scancodes + 1
  /\ pc' = "decode"
  /\ UNCHANGED <<ring, flags, g_keyboard_irq_seen, g_keyboard_irq_scancodes,
                 i, pending, next, k, got>>

\* processKeyboardScancode up to its call of enqueueKey
PollDecode ==
  /\ pc = "decode" /\ MainRuns
  /\ LET d == DecodeCode(scancode.code, extended_scancode, shift_pressed) IN
     /\ extended_scancode' = d.ext
     /\ shift_pressed' = d.shift
     /\ pending' = [byte |-> scancode.byte, key |-> d.key]
     /\ pc' = IF d.key = NoKey THEN "status" ELSE "room"
  /\ UNCHANGED <<hw, ring, g_keyboard_irq_seen, counts, i, scancode, next, k,
                 got>>

\* enqueueKey: is there room?
EnqueueRoom ==
  /\ pc = "room" /\ MainRuns
  /\ next' = Succ(key_head)
  /\ pc' = IF Full(Succ(key_head), key_tail) THEN "status" ELSE "write"
  /\ UNCHANGED <<hw, ring, flags, g_keyboard_irq_seen, counts, i, scancode,
                 pending, k, got>>

\* key_queue[key_head] = key
EnqueueWrite ==
  /\ pc = "write" /\ MainRuns
  /\ key_queue' = [key_queue EXCEPT ![key_head] = pending]
  /\ pc' = "publish"
  /\ UNCHANGED <<hw, key_head, key_tail, flags, g_keyboard_irq_seen, counts,
                 locals, got>>

\* key_head = next
EnqueuePublish ==
  /\ pc = "publish" /\ MainRuns
  /\ key_head' = next
  /\ pc' = "status"
  /\ UNCHANGED <<hw, key_queue, key_tail, flags, g_keyboard_irq_seen, counts,
                 locals, got>>

\* A mutant: the ring counts as empty whenever the head is not above the tail.
TakeKeyUnwrapped ==
  /\ pc = "drain" /\ MainRuns
  /\ IF key_head <= key_tail
     THEN pc' = "poll" /\ UNCHANGED k
     ELSE pc' = "advance" /\ k' = key_queue[key_tail]
  /\ UNCHANGED <<hw, ring, flags, g_keyboard_irq_seen, counts, i, scancode,
                 pending, next, got>>

\* Terminal::run calls getLastKey: the emptiness test and the read
TakeKey ==
  /\ pc = "drain" /\ MainRuns
  /\ IF key_head = key_tail
     THEN pc' = "poll" /\ UNCHANGED k
     ELSE pc' = "advance" /\ k' = key_queue[key_tail]
  /\ UNCHANGED <<hw, ring, flags, g_keyboard_irq_seen, counts, i, scancode,
                 pending, next, got>>

\* key_tail moves on and the key goes to handleChar; Enter sets commandReady,
\* which ends the drain.
AdvanceTail ==
  /\ pc = "advance" /\ MainRuns
  /\ key_tail' = Succ(key_tail)
  /\ got' = Append(got, k)
  /\ pc' = IF k.key[1] \in Enter THEN "poll" ELSE "drain"
  /\ UNCHANGED <<hw, key_queue, key_head, flags, g_keyboard_irq_seen, counts,
                 locals>>

Main == \/ PollEnter \/ PollStatus \/ PollAux \/ PollData \/ PollDecode
        \/ EnqueueRoom \/ EnqueueWrite \/ EnqueuePublish
        \/ TakeKey \/ AdvanceTail

Next == KeyboardByte \/ MouseByte \/ IsrKeyboard \/ Main

Spec == Init /\ [][Next]_vars

\* The processor takes a raised interrupt and keeps running the main loop;
\* nothing obliges anyone to type.
FairSpec == Spec /\ WF_vars(IsrKeyboard) /\ WF_vars(Main)

-------------------------------------------------------------------------------
(* Properties. *)

PCs == {"poll", "status", "aux", "data", "decode", "room", "write", "publish",
        "drain", "advance"}

TypeOK ==
  /\ delivery \in Machines
  /\ obf \in KeyByte \cup {AuxByte, NoByte}
  /\ port \in KeyByte \cup {AuxByte, NoByte}
  /\ irq1 \in BOOLEAN
  /\ stream \in Seq(Code) /\ mice \in Nat
  /\ key_queue \in [Slot -> Entry] /\ key_head \in Slot /\ key_tail \in Slot
  /\ extended_scancode \in BOOLEAN /\ shift_pressed \in BOOLEAN
  /\ g_keyboard_irq_seen \in BOOLEAN
  /\ g_keyboard_irq_scancodes \in Nat /\ g_keyboard_polled_scancodes \in Nat
  /\ pc \in PCs /\ i \in 0 .. PollBurst
  /\ scancode \in KeyByte \cup {AuxByte, NoByte}
  /\ pending \in Entry /\ next \in Slot /\ k \in Entry
  /\ got \in Seq(Entry)

\* The main loop has a byte in hand that it has counted and not finished with,
\* before and after the byte has acted on the decoder's flags.
BeforeFlags == pc = "decode"
AfterFlags  == pc \in {"room", "write", "publish"}
InHand      == BeforeFlags \/ AfterFlags

\* Bytes completely processed: all that were read, less the one in hand.
Decoded == g_keyboard_irq_scancodes + g_keyboard_polled_scancodes
             - (IF InHand THEN 1 ELSE 0)

\* What the n-th code of a stream means, told from the stream alone: the
\* prefix applies to the one code that follows it, and shift is down when the
\* last unprefixed shift code was a make code.
Prefixed(codes, n) == n > 1 /\ codes[n - 1] = "E0"
Shifted(codes, n) ==
  \E m \in 1 .. n - 1 :
    /\ codes[m] = "ShiftMake" /\ ~Prefixed(codes, m)
    /\ \A j \in m + 1 .. n - 1 : codes[j] = "ShiftBreak" => Prefixed(codes, j)
KeyOf(codes, n) ==
  IF Prefixed(codes, n)
  THEN IF codes[n] \in Nav THEN <<codes[n], "nav">> ELSE NoKey
  ELSE IF codes[n] \in Plain
       THEN <<codes[n], IF Shifted(codes, n) THEN "shift" ELSE "base">>
       ELSE NoKey
Meaning == [n \in 1 .. Len(stream) |-> KeyOf(stream, n)]

\* The queue is promised of a machine with one reader; on the others the
\* abstract state stays as it began.
Fifo == INSTANCE KeyQueue WITH
          Capacity <- QueueSize - 1,
          meaning  <- IF OneReader THEN Meaning ELSE <<>>,
          decoded  <- IF OneReader THEN Decoded ELSE 0,
          queue    <- IF OneReader THEN Contents ELSE <<>>,
          got      <- IF OneReader THEN got ELSE <<>>

\* With one reader the driver implements the bounded first-in first-out queue
\* of KeyQueue: no byte is decoded twice, none is skipped, keys keep their
\* order and are lost only to a full ring, whatever the interleaving of the
\* handler with getLastKey and enqueueKey.
ImplementsKeyQueue == Fifo!Spec

\* The handler never writes the slot getLastKey has read and not yet
\* released, so the key handed over is the one at the tail.
TailStable == pc = "advance" => /\ key_head # key_tail
                                /\ k = key_queue[key_tail]

\* Each byte sent is either still in the output buffer or counted by exactly one
\* of the two counters, and a byte in the buffer is the last one sent.
Accounting ==
  /\ Len(stream) = g_keyboard_irq_scancodes + g_keyboard_polled_scancodes
                     + (IF obf.byte > 0 THEN 1 ELSE 0)
  /\ obf.byte > 0 => obf = [byte |-> Len(stream), code |-> stream[Len(stream)]]
  /\ obf # NoByte => port = obf
  /\ InHand => g_keyboard_polled_scancodes > 0

\* One party reads the port: the handler where IRQ1 works, the poller where it
\* never comes.
Ownership ==
  /\ irq1 => obf.byte > 0
  /\ delivery = "irq" => (obf.byte > 0 => irq1) /\ ~InHand /\ pc # "data"
  /\ delivery = "polled" => ~irq1
  /\ pc = "aux" => obf = AuxByte
  /\ pc = "data" => obf.byte > 0

\* The decoder's two flags are what the bytes decoded so far say.
FlagsMatchStream ==
  LET n == Decoded + (IF AfterFlags THEN 2 ELSE 1) IN
  /\ extended_scancode <=> Prefixed(stream, n)
  /\ shift_pressed <=> Shifted(stream, n)

\* The main loop's locals inside pollKeyboard and enqueueKey are still right
\* when they are used.
LocalsFresh ==
  /\ BeforeFlags => scancode = [byte |-> Decoded + 1, code |-> stream[Decoded + 1]]
  /\ AfterFlags => /\ pending = [byte |-> Decoded + 1,
                                 key  |-> KeyOf(stream, Decoded + 1)]
                   /\ pending.key # NoKey
  /\ pc \in {"write", "publish"} => next = Succ(key_head) /\ ~Full(next, key_tail)
  /\ pc = "publish" => key_queue[key_head] = pending

\* The inductive invariant of a keyboard with one reader.
IInv == TypeOK /\ TailStable /\ Accounting /\ Ownership /\ FlagsMatchStream
          /\ LocalsFresh

\* Every machine keeps its types; one with a single reader of the port counts
\* each byte once, decodes it with the right flags and never acts on a local
\* that the handler or the poller has made stale.
DriverInv == TypeOK /\ (OneReader => IInv)

\* The comment at interrupts.hpp:44-45: the handler and the poller never both
\* drain the same scancode.
NoScancodeTwice ==
  LET keys == got \o Contents IN
  \A m, n \in 1 .. Len(keys) : m # n => keys[m].byte # keys[n].byte

\* A byte in the output buffer is read eventually if it raised IRQ1, or if no
\* IRQ1 has been taken yet, so that the poller still acts; on every machine,
\* with a mouse or without.
EveryByteRead ==
  (obf # NoByte /\ (irq1 \/ ~g_keyboard_irq_seen)) ~> obf = NoByte

\* With one reader, every key that entered the ring reaches the terminal.
EveryKeyTaken ==
  \A n \in 1 .. MaxBytes :
    (OneReader /\ \E m \in DOMAIN Contents : Contents[m].byte = n)
      ~> (\E m \in 1 .. Len(got) : got[m].byte = n)
===============================================================================
