---------------------------- MODULE KeyboardProofs ----------------------------
(***************************************************************************)
(* Proofs about Keyboard, for every ring size, every set of scancodes and  *)
(* every number of bytes.                                                  *)
(***************************************************************************)
EXTENDS Keyboard, TLAPS

(* The ring as a sequence. *)

\* The number of keys in the ring is between zero and one less than its slots,
\* and the ring refuses a key exactly when it holds that many.
LEMMA CountFacts ==
  ASSUME NEW h \in Slot, NEW t \in Slot
  PROVE  /\ CountOf(h, t) \in 0 .. QueueSize - 1
         /\ Succ(h) \in Slot
         /\ Full(Succ(h), t) <=> CountOf(h, t) = QueueSize - 1
         /\ ~Full(Succ(h), t) => CountOf(Succ(h), t) = CountOf(h, t) + 1
         /\ (CountOf(h, t) = 0) <=> (h = t)
         /\ h # t => CountOf(h, Succ(t)) = CountOf(h, t) - 1
  BY QueueSizeAssumption DEF CountOf, Slot, Succ, Full

\* The n-th key from the tail is in a slot of the ring other than the head's,
\* and counting from the next tail shifts the numbering by one.
LEMMA SlotFacts ==
  ASSUME NEW h \in Slot, NEW t \in Slot, NEW n \in 1 .. CountOf(h, t)
  PROVE  /\ SlotFrom(t, n - 1) \in Slot
         /\ SlotFrom(t, n - 1) # h
         /\ SlotFrom(t, CountOf(h, t)) = h
         /\ SlotFrom(t, 0) = t
         /\ n < CountOf(h, t) => SlotFrom(Succ(t), n - 1) = SlotFrom(t, n)
  BY QueueSizeAssumption DEF CountOf, Slot, Succ, SlotFrom

LEMMA ContentsType ==
  ASSUME NEW q \in [Slot -> Entry], NEW h \in Slot, NEW t \in Slot
  PROVE  /\ ContentsOf(q, h, t) \in Seq(Entry)
         /\ Len(ContentsOf(q, h, t)) = CountOf(h, t)
         /\ DOMAIN ContentsOf(q, h, t) = 1 .. CountOf(h, t)
<1>1. CountOf(h, t) \in Nat
  BY CountFacts DEF Slot
<1>2. \A n \in 1 .. CountOf(h, t) : q[SlotFrom(t, n - 1)] \in Entry
  BY SlotFacts
<1>3. ContentsOf(q, h, t) \in [1 .. CountOf(h, t) -> Entry]
  BY <1>2 DEF ContentsOf
<1> QED  BY <1>1, <1>3

\* Writing the free slot at the head leaves the contents alone.
LEMMA ContentsWrite ==
  ASSUME NEW q \in [Slot -> Entry], NEW h \in Slot, NEW t \in Slot, NEW e
  PROVE  ContentsOf([q EXCEPT ![h] = e], h, t) = ContentsOf(q, h, t)
  BY SlotFacts DEF ContentsOf

\* Writing the slot at the head and moving the head on appends the key.
LEMMA ContentsPut ==
  ASSUME NEW q \in [Slot -> Entry], NEW h \in Slot, NEW t \in Slot,
         NEW e \in Entry, ~Full(Succ(h), t), q[h] = e
  PROVE  ContentsOf(q, Succ(h), t) = Append(ContentsOf(q, h, t), e)
<1> DEFINE old == ContentsOf(q, h, t)
           new == ContentsOf(q, Succ(h), t)
           c == CountOf(h, t)
<1>1. /\ c \in Nat /\ CountOf(Succ(h), t) = c + 1
      /\ Succ(h) \in Slot
  BY CountFacts DEF Slot
<1>2. SlotFrom(t, c) = h
  BY QueueSizeAssumption DEF CountOf, Slot, SlotFrom
<1>3. /\ old \in Seq(Entry) /\ Len(old) = c /\ DOMAIN old = 1 .. c
      /\ new \in Seq(Entry) /\ Len(new) = c + 1 /\ DOMAIN new = 1 .. c + 1
  BY <1>1, ContentsType
<1>4. \A n \in 1 .. c : new[n] = old[n]
  BY <1>1 DEF ContentsOf
<1>5. new[c + 1] = e
  BY <1>1, <1>2 DEF ContentsOf
<1> HIDE DEF old, new, c
<1>6. /\ Append(old, e) \in Seq(Entry) /\ Len(Append(old, e)) = c + 1
      /\ \A n \in 1 .. c : Append(old, e)[n] = old[n]
      /\ Append(old, e)[c + 1] = e
  BY <1>1, <1>3
<1>7. \A n \in 1 .. c + 1 : new[n] = Append(old, e)[n]
  BY <1>1, <1>4, <1>5, <1>6
<1>8. new = Append(old, e)
  BY <1>1, <1>3, <1>6, <1>7
<1> QED  BY <1>8 DEF new, old

\* Moving the tail on removes the oldest key.
LEMMA ContentsTake ==
  ASSUME NEW q \in [Slot -> Entry], NEW h \in Slot, NEW t \in Slot, h # t
  PROVE  /\ ContentsOf(q, h, t) # <<>>
         /\ Head(ContentsOf(q, h, t)) = q[t]
         /\ ContentsOf(q, h, Succ(t)) = Tail(ContentsOf(q, h, t))
<1> DEFINE old == ContentsOf(q, h, t)
           new == ContentsOf(q, h, Succ(t))
           c == CountOf(h, t)
<1>1. /\ c \in Nat /\ c > 0 /\ CountOf(h, Succ(t)) = c - 1
      /\ Succ(t) \in Slot
  BY CountFacts DEF Slot
<1>2. /\ old \in Seq(Entry) /\ Len(old) = c /\ DOMAIN old = 1 .. c
      /\ new \in Seq(Entry) /\ Len(new) = c - 1 /\ DOMAIN new = 1 .. c - 1
  BY <1>1, ContentsType
<1>3. SlotFrom(t, 0) = t
  BY <1>1, SlotFacts
<1>4. old[1] = q[t]
  BY <1>1, <1>3 DEF ContentsOf
<1>5. \A n \in 1 .. c - 1 : SlotFrom(Succ(t), n - 1) = SlotFrom(t, n)
  BY <1>1, SlotFacts
<1>6. \A n \in 1 .. c - 1 : new[n] = old[n + 1]
  BY <1>1, <1>5 DEF ContentsOf
<1> HIDE DEF old, new, c
<1>7. /\ Tail(old) \in Seq(Entry) /\ Len(Tail(old)) = c - 1
      /\ \A n \in 1 .. c - 1 : Tail(old)[n] = old[n + 1]
  BY <1>1, <1>2
<1>8. new = Tail(old)
  BY <1>1, <1>2, <1>6, <1>7
<1>9. old # <<>> /\ Head(old) = q[t]
  BY <1>1, <1>2, <1>4
<1> QED  BY <1>8, <1>9 DEF new, old

-------------------------------------------------------------------------------
(* The decoder against the meaning of the stream. *)

\* Shift after the n-th code, from shift before it.
LEMMA ShiftedStep ==
  ASSUME NEW s \in Seq(Code), NEW n \in 1 .. Len(s)
  PROVE  Shifted(s, n + 1) <=>
           \/ ~Prefixed(s, n) /\ s[n] = "ShiftMake"
           \/ ~(~Prefixed(s, n) /\ s[n] = "ShiftBreak") /\ Shifted(s, n)
<1>1. CASE ~Prefixed(s, n) /\ s[n] = "ShiftMake"
  <2>1. \A j \in n + 1 .. n + 1 - 1 : s[j] = "ShiftBreak" => Prefixed(s, j)
    OBVIOUS
  <2> QED  BY <1>1, <2>1 DEF Shifted
<1>2. CASE ~Prefixed(s, n) /\ s[n] = "ShiftBreak"
  <2>1. ASSUME NEW m \in 1 .. n + 1 - 1, s[m] = "ShiftMake", ~Prefixed(s, m),
               \A j \in m + 1 .. n + 1 - 1 : s[j] = "ShiftBreak" => Prefixed(s, j)
        PROVE  FALSE
    <3>1. m # n
      BY <1>2, <2>1
    <3>2. n \in m + 1 .. n + 1 - 1
      BY <3>1
    <3> QED  BY <1>2, <2>1, <3>2
  <2> QED  BY <1>2, <2>1 DEF Shifted
<1>3. CASE Prefixed(s, n) \/ s[n] \notin {"ShiftMake", "ShiftBreak"}
  <2>1. ASSUME Shifted(s, n)
        PROVE  Shifted(s, n + 1)
    <3>1. PICK m \in 1 .. n - 1 :
            /\ s[m] = "ShiftMake" /\ ~Prefixed(s, m)
            /\ \A j \in m + 1 .. n - 1 : s[j] = "ShiftBreak" => Prefixed(s, j)
      BY <2>1 DEF Shifted
    <3>2. \A j \in m + 1 .. n + 1 - 1 : j \in m + 1 .. n - 1 \/ j = n
      OBVIOUS
    <3>3. \A j \in m + 1 .. n + 1 - 1 : s[j] = "ShiftBreak" => Prefixed(s, j)
      BY <1>3, <3>1, <3>2
    <3> QED  BY <3>1, <3>3 DEF Shifted
  <2>2. ASSUME Shifted(s, n + 1)
        PROVE  Shifted(s, n)
    <3>1. PICK m \in 1 .. n + 1 - 1 :
            /\ s[m] = "ShiftMake" /\ ~Prefixed(s, m)
            /\ \A j \in m + 1 .. n + 1 - 1 : s[j] = "ShiftBreak" => Prefixed(s, j)
      BY <2>2 DEF Shifted
    <3>2. m # n
      BY <1>3, <3>1
    <3> QED  BY <3>1, <3>2 DEF Shifted
  <2> QED  BY <1>3, <2>1, <2>2
<1> QED  BY <1>1, <1>2, <1>3

\* processKeyboardScancode yields what the stream means, whatever precedes the
\* code, when its two flags are right; and it leaves them right.
LEMMA DecoderStep ==
  \A s \in Seq(Code) : \A n \in 1 .. Len(s) : \A ext, shift \in BOOLEAN :
    (ext <=> Prefixed(s, n)) /\ (shift <=> Shifted(s, n)) =>
      /\ DecodeCode(s[n], ext, shift).ext <=> Prefixed(s, n + 1)
      /\ DecodeCode(s[n], ext, shift).shift <=> Shifted(s, n + 1)
      /\ DecodeCode(s[n], ext, shift).key = KeyOf(s, n)
<1> SUFFICES ASSUME NEW s \in Seq(Code), NEW n \in 1 .. Len(s),
                    NEW ext \in BOOLEAN, NEW shift \in BOOLEAN,
                    ext <=> Prefixed(s, n), shift <=> Shifted(s, n)
             PROVE  /\ DecodeCode(s[n], ext, shift).ext <=> Prefixed(s, n + 1)
                    /\ DecodeCode(s[n], ext, shift).shift <=> Shifted(s, n + 1)
                    /\ DecodeCode(s[n], ext, shift).key = KeyOf(s, n)
  OBVIOUS
<1>1. Prefixed(s, n + 1) <=> s[n] = "E0"
  BY DEF Prefixed
<1>2. s[n] \in Code
  OBVIOUS
<1>3. s[n] \in Control => s[n] \notin Plain \cup Nav
  BY CodeAssumption
<1>4. CASE s[n] = "E0"
  BY <1>1, <1>3, <1>4, ShiftedStep DEF DecodeCode, KeyOf, Control
<1>5. CASE s[n] # "E0" /\ ext
  BY <1>1, <1>2, <1>5, ShiftedStep DEF DecodeCode, KeyOf, Key
<1>6. CASE s[n] # "E0" /\ ~ext
  <2>1. CASE s[n] = "ShiftMake"
    BY <1>1, <1>3, <1>6, <2>1, ShiftedStep DEF DecodeCode, KeyOf, Control
  <2>2. CASE s[n] = "ShiftBreak"
    BY <1>1, <1>3, <1>6, <2>2, ShiftedStep DEF DecodeCode, KeyOf, Control
  <2>3. CASE s[n] \notin {"ShiftMake", "ShiftBreak"}
    BY <1>1, <1>6, <2>3, ShiftedStep DEF DecodeCode, KeyOf, Key
  <2> QED  BY <2>1, <2>2, <2>3
<1> QED  BY <1>4, <1>5, <1>6

\* What a stream means does not change when more of it arrives.
LEMMA StreamAppend ==
  ASSUME NEW s \in Seq(Code), NEW c \in Code, NEW n \in 1 .. Len(s) + 1
  PROVE  /\ Prefixed(Append(s, c), n) <=> Prefixed(s, n)
         /\ Shifted(Append(s, c), n) <=> Shifted(s, n)
         /\ n <= Len(s) => KeyOf(Append(s, c), n) = KeyOf(s, n)
<1>1. \A m \in 1 .. Len(s) : Append(s, c)[m] = s[m]
  OBVIOUS
<1>2. \A m \in 1 .. Len(s) + 1 : Prefixed(Append(s, c), m) <=> Prefixed(s, m)
  BY <1>1 DEF Prefixed
<1>3. Shifted(Append(s, c), n) <=> Shifted(s, n)
  BY <1>1, <1>2 DEF Shifted
<1> QED  BY <1>1, <1>2, <1>3 DEF KeyOf

-------------------------------------------------------------------------------
(* Type correctness, for every delivery of IRQ1. *)

LEMMA DecodeType ==
  ASSUME NEW c, NEW ext \in BOOLEAN, NEW shift \in BOOLEAN
  PROVE  /\ DecodeCode(c, ext, shift).ext \in BOOLEAN
         /\ DecodeCode(c, ext, shift).shift \in BOOLEAN
         /\ DecodeCode(c, ext, shift).key \in Key \cup {NoKey}
  BY DEF DecodeCode, Key

LEMMA SuccType == \A x \in Slot : Succ(x) \in Slot
  BY QueueSizeAssumption DEF Slot, Succ

LEMMA InitTypeOK == Init => TypeOK
<1> SUFFICES ASSUME Init
             PROVE  TypeOK
  OBVIOUS
<1>1. /\ key_queue \in [Slot -> Entry]
      /\ key_head \in Slot /\ key_tail \in Slot /\ next \in Slot
      /\ pending \in Entry /\ k \in Entry
  BY QueueSizeAssumption DEF Init, Slot, Entry, NoEntry
<1>2. stream \in Seq(Code) /\ got \in Seq(Entry)
  BY DEF Init
<1>3. /\ pc \in PCs /\ i \in 0 .. PollBurst /\ mice \in Nat
      /\ g_keyboard_irq_scancodes \in Nat
      /\ g_keyboard_polled_scancodes \in Nat
  BY PollBurstAssumption DEF Init, PCs
<1> QED BY <1>1, <1>2, <1>3 DEF Init, TypeOK

LEMMA NextTypeOK == TypeOK /\ [Next]_vars => TypeOK'
<1> SUFFICES ASSUME TypeOK, [Next]_vars
             PROVE  TypeOK'
  OBVIOUS
<1> USE DEF vars, hw, ring, flags, counts, locals, TypeOK, PCs
<1>1. CASE KeyboardByte
  <2>1. PICK c \in Code : /\ stream' = Append(stream, c)
                          /\ obf' = [byte |-> Len(stream) + 1, code |-> c]
    BY <1>1 DEF KeyboardByte
  <2>2. obf' \in KeyByte /\ stream' \in Seq(Code)
    BY <2>1 DEF KeyByte, Nat1
  <2>3. irq1' \in BOOLEAN
    BY <1>1 DEF KeyboardByte
  <2> QED  BY <1>1, <2>2, <2>3 DEF KeyboardByte
<1>2. CASE MouseByte
  BY <1>2 DEF MouseByte
<1>3. CASE IsrKeyboard
  <2> DEFINE d == DecodeCode(port.code, extended_scancode, shift_pressed)
  <2>1. d.ext \in BOOLEAN /\ d.shift \in BOOLEAN /\ d.key \in Key \cup {NoKey}
    BY DecodeType
  <2>2. [byte |-> port.byte, key |-> d.key] \in Entry
    BY <2>1 DEF Entry, KeyByte, AuxByte, NoByte, Nat1
  <2> HIDE DEF d
  <2>3. /\ extended_scancode' = d.ext /\ shift_pressed' = d.shift
        /\ \/ UNCHANGED <<key_queue, key_head>>
           \/ /\ key_queue' = [key_queue EXCEPT ![key_head] =
                                 [byte |-> port.byte, key |-> d.key]]
              /\ key_head' = Succ(key_head)
    BY <1>3 DEF IsrKeyboard, d
  <2>4. key_queue' \in [Slot -> Entry] /\ key_head' \in Slot
    BY <2>2, <2>3, SuccType
  <2>5. g_keyboard_irq_scancodes' \in Nat
    BY <1>3 DEF IsrKeyboard
  <2> QED  BY <1>3, <2>1, <2>3, <2>4, <2>5 DEF IsrKeyboard, ReadPort
<1>4. CASE PollEnter
  BY <1>4, PollBurstAssumption DEF PollEnter
<1>5. CASE PollStatus
  BY <1>5, PollBurstAssumption DEF PollStatus
<1>6. CASE PollAux
  BY <1>6 DEF PollAux, ReadPort
<1>7. CASE PollData
  <2>1. g_keyboard_polled_scancodes' \in Nat
    BY <1>7 DEF PollData
  <2>2. obf' = NoByte /\ irq1' = FALSE /\ scancode' = port /\ pc' = "decode"
    BY <1>7 DEF PollData, ReadPort
  <2>3. UNCHANGED <<delivery, port, stream, mice, ring, flags, g_keyboard_irq_seen,
                    g_keyboard_irq_scancodes, i, pending, next, k, got>>
    BY <1>7 DEF PollData, ReadPort
  <2> QED  BY <2>1, <2>2, <2>3
<1>8. CASE PollDecode
  <2> DEFINE d == DecodeCode(scancode.code, extended_scancode, shift_pressed)
  <2>1. d.ext \in BOOLEAN /\ d.shift \in BOOLEAN /\ d.key \in Key \cup {NoKey}
    BY DecodeType
  <2>2. [byte |-> scancode.byte, key |-> d.key] \in Entry
    BY <2>1 DEF Entry, KeyByte, AuxByte, NoByte, Nat1
  <2> HIDE DEF d
  <2>3. /\ extended_scancode' = d.ext /\ shift_pressed' = d.shift
        /\ pending' = [byte |-> scancode.byte, key |-> d.key]
        /\ pc' \in PCs
    BY <1>8 DEF PollDecode, d
  <2> QED  BY <1>8, <2>1, <2>2, <2>3 DEF PollDecode
<1>9. CASE EnqueueRoom
  BY <1>9, SuccType DEF EnqueueRoom
<1>10. CASE EnqueueWrite
  BY <1>10 DEF EnqueueWrite
<1>11. CASE EnqueuePublish
  BY <1>11 DEF EnqueuePublish
<1>12. CASE TakeKey
  BY <1>12 DEF TakeKey
<1>13. CASE AdvanceTail
  BY <1>13, SuccType DEF AdvanceTail
<1>14. CASE UNCHANGED vars
  BY <1>14
<1> QED  BY <1>1, <1>2, <1>3, <1>4, <1>5, <1>6, <1>7, <1>8, <1>9, <1>10,
            <1>11, <1>12, <1>13, <1>14 DEF Next, Main

\* The state keeps its types in every run of the driver, the racing ones
\* included: indexes stay inside the ring and only keys are queued.
THEOREM TypeCorrect == Spec => []TypeOK
  BY InitTypeOK, NextTypeOK, PTL DEF Spec

-------------------------------------------------------------------------------
(* A keyboard with one reader: IRQ1 always comes at once, or never. *)

\* Accounting, Ownership, the decoder's flags and the locals, one lemma per
\* group of actions.

LEMMA InitIInv == Init => IInv
<1> SUFFICES ASSUME Init
             PROVE  IInv
  OBVIOUS
<1>1. TypeOK
  BY InitTypeOK
<1>2. TailStable
  BY DEF Init, TailStable
<1>3. Accounting
  BY DEF Init, Accounting, NoByte, InHand, BeforeFlags, AfterFlags
<1>4. Ownership
  BY DEF Init, Ownership, NoByte, InHand, BeforeFlags, AfterFlags
<1>5. FlagsMatchStream
  <2>1. ~InHand /\ ~AfterFlags
    BY DEF Init, InHand, BeforeFlags, AfterFlags
  <2>2. Decoded = g_keyboard_irq_scancodes + g_keyboard_polled_scancodes
    BY <1>1, <2>1 DEF TypeOK, Decoded
  <2>3. Decoded = 0
    BY <2>2 DEF Init
  <2>4. ~Prefixed(stream, 1) /\ ~Shifted(stream, 1)
    BY DEF Init, Prefixed, Shifted
  <2> QED  BY <2>1, <2>3, <2>4 DEF Init, FlagsMatchStream
<1>6. LocalsFresh
  BY DEF Init, LocalsFresh, BeforeFlags, AfterFlags
<1> QED  BY <1>1, <1>2, <1>3, <1>4, <1>5, <1>6 DEF IInv

\* The controller adds a byte to the stream; what is read and decoded already
\* means what it meant.
LEMMA KeyboardByteIInv ==
  ASSUME IInv, TypeOK', KeyboardByte, OneReader
  PROVE  IInv'
<1> USE DEF IInv
<1>1. PICK c \in Code : /\ stream' = Append(stream, c)
                        /\ obf' = [byte |-> Len(stream) + 1, code |-> c]
  BY DEF KeyboardByte
<1>2. /\ port' = obf' /\ obf = NoByte
      /\ UNCHANGED <<mice, ring, flags, g_keyboard_irq_seen, counts, pc, locals,
                     got>>
  BY DEF KeyboardByte
<1>3. stream \in Seq(Code)
  BY DEF TypeOK
<1>4. /\ (BeforeFlags' <=> BeforeFlags) /\ (AfterFlags' <=> AfterFlags)
      /\ (InHand' <=> InHand) /\ Decoded' = Decoded
  BY <1>2 DEF BeforeFlags, AfterFlags, InHand, Decoded, counts
<1>5. /\ g_keyboard_irq_scancodes \in Nat /\ g_keyboard_polled_scancodes \in Nat
      /\ Len(stream) = g_keyboard_irq_scancodes + g_keyboard_polled_scancodes
      /\ InHand => g_keyboard_polled_scancodes > 0
  BY <1>2 DEF TypeOK, Accounting, NoByte
<1>6. /\ Decoded \in Nat
      /\ Decoded + (IF AfterFlags THEN 2 ELSE 1) \in 1 .. Len(stream) + 1
      /\ InHand => Decoded + 1 \in 1 .. Len(stream)
  BY <1>5 DEF Decoded, InHand, BeforeFlags, AfterFlags
<1>7. TailStable'
  BY <1>2 DEF TailStable, ring, locals
<1>8. Accounting'
  <2>1. Len(stream') = Len(stream) + 1 /\ stream'[Len(stream')] = c
    BY <1>1, <1>3
  <2>2. obf'.byte = Len(stream) + 1
    BY <1>1
  <2>3. UNCHANGED <<g_keyboard_irq_scancodes, g_keyboard_polled_scancodes>>
    BY <1>2 DEF counts
  <2>4. obf' = [byte |-> Len(stream'), code |-> stream'[Len(stream')]]
    BY <1>1, <2>1
  <2>5. obf'.byte > 0
    BY <1>3, <2>2
  <2> QED  BY <1>2, <1>4, <1>5, <2>1, <2>3, <2>4, <2>5 DEF Accounting
<1>9. Ownership'
  <2>1. obf'.byte > 0
    BY <1>1, <1>3
  <2>2. /\ irq1' \in (IF delivery = "polled" THEN {FALSE} ELSE {TRUE})
        /\ delivery' = delivery
    BY DEF KeyboardByte, OneReader
  <2>3. pc' # "aux"
    BY <1>2 DEF Ownership, AuxByte, NoByte
  <2> QED  BY <1>2, <1>4, <2>1, <2>2, <2>3 DEF Ownership, OneReader
<1>10. FlagsMatchStream'
  BY <1>1, <1>2, <1>3, <1>4, <1>6, StreamAppend DEF FlagsMatchStream, flags
<1>11. LocalsFresh'
  <2>1. BeforeFlags => stream'[Decoded + 1] = stream[Decoded + 1]
    BY <1>1, <1>3, <1>6 DEF InHand
  <2>2. AfterFlags => KeyOf(stream', Decoded + 1) = KeyOf(stream, Decoded + 1)
    BY <1>1, <1>3, <1>6, StreamAppend DEF InHand
  <2> QED  BY <1>2, <1>4, <2>1, <2>2 DEF LocalsFresh, ring, locals
<1> QED  BY <1>7, <1>8, <1>9, <1>10, <1>11

\* The handler decodes the byte in the buffer, which is the last one sent.
LEMMA IsrKeyboardIInv ==
  ASSUME IInv, TypeOK', IsrKeyboard, OneReader
  PROVE  IInv'
<1> DEFINE d == DecodeCode(port.code, extended_scancode, shift_pressed)
           n == Succ(key_head)
<1> USE DEF IInv
<1>1. delivery = "irq" /\ ~InHand /\ obf.byte > 0
  BY DEF IsrKeyboard, Ownership, OneReader
<1>2. /\ obf' = NoByte /\ irq1' = FALSE
      /\ g_keyboard_irq_scancodes' = g_keyboard_irq_scancodes + 1
      /\ extended_scancode' = d.ext /\ shift_pressed' = d.shift
      /\ UNCHANGED <<delivery, port, stream, mice, key_tail, g_keyboard_polled_scancodes,
                     pc, i, scancode, pending, next, k, got>>
      /\ IF d.key = NoKey \/ Full(n, key_tail)
         THEN UNCHANGED <<key_queue, key_head>>
         ELSE /\ key_queue' = [key_queue EXCEPT
                                 ![key_head] = [byte |-> port.byte, key |-> d.key]]
              /\ key_head' = n
  BY DEF IsrKeyboard, ReadPort, locals
<1>3. /\ key_queue \in [Slot -> Entry] /\ key_head \in Slot /\ key_tail \in Slot
      /\ stream \in Seq(Code)
      /\ extended_scancode \in BOOLEAN /\ shift_pressed \in BOOLEAN
      /\ g_keyboard_irq_scancodes \in Nat /\ g_keyboard_polled_scancodes \in Nat
  BY DEF TypeOK
<1>4. /\ port = [byte |-> Len(stream), code |-> stream[Len(stream)]]
      /\ Len(stream) = g_keyboard_irq_scancodes + g_keyboard_polled_scancodes + 1
  <2>1. obf # NoByte
    BY <1>1 DEF NoByte
  <2> QED  BY <1>1, <2>1 DEF Accounting
<1>5. /\ ~BeforeFlags /\ ~AfterFlags /\ ~BeforeFlags' /\ ~AfterFlags' /\ ~InHand'
      /\ pc \notin {"aux", "data", "write", "publish"}
  <2>1. obf # AuxByte
    BY <1>1 DEF AuxByte
  <2> QED  BY <1>1, <1>2, <2>1 DEF InHand, BeforeFlags, AfterFlags, Ownership
<1>6. /\ Decoded = g_keyboard_irq_scancodes + g_keyboard_polled_scancodes
      /\ Decoded' = Decoded + 1
      /\ Decoded + 1 = Len(stream) /\ Decoded \in Nat
  BY <1>2, <1>3, <1>4, <1>5, <1>1 DEF Decoded
<1>7. /\ d.ext <=> Prefixed(stream, Decoded + 2)
      /\ d.shift <=> Shifted(stream, Decoded + 2)
      /\ d.key = KeyOf(stream, Decoded + 1)
  <2>1. PICK m \in 1 .. Len(stream) : m = Decoded + 1 /\ port.code = stream[m]
    BY <1>3, <1>4, <1>6
  <2>2. /\ extended_scancode <=> Prefixed(stream, m)
        /\ shift_pressed <=> Shifted(stream, m)
    BY <1>5, <2>1 DEF FlagsMatchStream
  <2>3. /\ d.ext <=> Prefixed(stream, m + 1)
        /\ d.shift <=> Shifted(stream, m + 1)
        /\ d.key = KeyOf(stream, m)
    <3>1. /\ DecodeCode(stream[m], extended_scancode, shift_pressed).ext
               <=> Prefixed(stream, m + 1)
          /\ DecodeCode(stream[m], extended_scancode, shift_pressed).shift
               <=> Shifted(stream, m + 1)
          /\ DecodeCode(stream[m], extended_scancode, shift_pressed).key
               = KeyOf(stream, m)
      BY <1>3, <2>2, DecoderStep, Zenon
    <3> QED  BY <2>1, <3>1
  <2>4. m + 1 = Decoded + 2
    BY <1>6, <2>1
  <2> QED  BY <2>1, <2>3, <2>4
<1> HIDE DEF d, n
<1>8. TailStable'
  <2>1. n # key_tail => key_head # n
    BY <1>3, QueueSizeAssumption DEF n, Succ, Slot
  <2> QED  BY <1>2, <1>3, <2>1 DEF TailStable, Full
<1>9. Accounting'
  <2>1. obf'.byte = 0 /\ obf' = NoByte
    BY <1>2 DEF NoByte
  <2> QED  BY <1>2, <1>3, <1>4, <1>5, <2>1 DEF Accounting
<1>10. Ownership'
  BY <1>1, <1>2, <1>5 DEF Ownership, NoByte
<1>11. FlagsMatchStream'
  <2>1. Decoded' + 1 = Decoded + 2
    BY <1>6
  <2> QED  BY <1>2, <1>5, <1>7, <2>1 DEF FlagsMatchStream
<1>12. LocalsFresh'
  BY <1>2, <1>5 DEF LocalsFresh
<1> QED  BY <1>8, <1>9, <1>10, <1>11, <1>12

\* Steps that touch neither the stream, the counters, the ring nor the flags.
LEMMA QuietStepsIInv ==
  ASSUME IInv, TypeOK', OneReader,
         \/ MouseByte \/ PollEnter \/ PollStatus \/ PollAux \/ TakeKey
         \/ UNCHANGED vars
  PROVE  IInv'
<1> USE DEF IInv
<1>1. /\ UNCHANGED <<stream, ring, flags, counts>>
      /\ scancode' = scancode /\ pending' = pending /\ next' = next
  BY DEF MouseByte, PollEnter, PollStatus, PollAux, ReadPort, TakeKey, vars, hw,
         locals, MouseByte
<1>2. \/ pc' = pc
      \/ /\ pc \in {"poll", "status", "aux", "drain"}
         /\ pc' \in {"poll", "status", "aux", "data", "drain", "advance"}
  BY DEF MouseByte, PollEnter, PollStatus, PollAux, TakeKey, vars
<1>3. /\ (BeforeFlags' <=> BeforeFlags) /\ (AfterFlags' <=> AfterFlags)
      /\ (InHand' <=> InHand)
  BY <1>2 DEF BeforeFlags, AfterFlags, InHand
<1>4. Decoded' = Decoded
  BY <1>1, <1>3 DEF Decoded, counts
<1>5. TailStable'
  BY DEF MouseByte, PollEnter, PollStatus, PollAux, TakeKey, vars, TailStable,
         ring, locals
<1>6. /\ obf'.byte = obf.byte
      /\ obf' # NoByte => port' = obf'
      /\ obf.byte > 0 => obf' = obf
  <2>1. CASE MouseByte
    BY <2>1 DEF MouseByte, AuxByte, NoByte
  <2>2. CASE PollAux
    BY <2>2 DEF PollAux, ReadPort, Ownership, AuxByte, NoByte
  <2>3. CASE UNCHANGED <<obf, port>>
    BY <2>3 DEF Accounting
  <2> QED  BY <2>1, <2>2, <2>3 DEF PollEnter, PollStatus, TakeKey, vars, hw
<1>7. Accounting'
  BY <1>1, <1>3, <1>6 DEF Accounting, counts
<1>8. Ownership'
  <2>1. CASE MouseByte
    BY <2>1, <1>3 DEF MouseByte, Ownership, AuxByte, NoByte
  <2>2. CASE PollAux
    BY <2>2, <1>3 DEF PollAux, ReadPort, Ownership, AuxByte, NoByte
  <2>3. CASE PollStatus
    <3>1. obf \in KeyByte \cup {AuxByte, NoByte}
      BY DEF TypeOK
    <3>2. obf \notin {AuxByte, NoByte} => obf.byte > 0
      BY <3>1 DEF KeyByte, Nat1
    <3>3. delivery = "irq" => ~irq1
      BY <2>3 DEF PollStatus, MainRuns
    <3>4. pc' \in {"aux", "data", "drain"} /\ UNCHANGED <<delivery, obf, irq1>>
      BY <2>3 DEF PollStatus, hw
    <3>5. /\ pc' = "aux" => obf = AuxByte
          /\ pc' = "data" => obf \notin {AuxByte, NoByte}
      BY <2>3 DEF PollStatus
    <3> QED  BY <1>3, <3>2, <3>3, <3>4, <3>5 DEF Ownership
  <2>4. CASE PollEnter \/ TakeKey
    BY <2>4, <1>3 DEF PollEnter, TakeKey, Ownership, hw
  <2>5. CASE UNCHANGED vars
    BY <2>5, <1>3 DEF vars, hw, Ownership
  <2> QED  BY <2>1, <2>2, <2>3, <2>4, <2>5
<1>9. FlagsMatchStream'
  BY <1>1, <1>3, <1>4 DEF FlagsMatchStream, flags
<1>10. LocalsFresh'
  BY <1>1, <1>2, <1>3, <1>4 DEF LocalsFresh, ring
<1> QED  BY <1>5, <1>7, <1>8, <1>9, <1>10

\* The main loop's count of decoded bytes while it holds a byte, and around it.
LEMMA DecodedFacts ==
  ASSUME TypeOK
  PROVE  /\ ~InHand => Decoded = g_keyboard_irq_scancodes
                                   + g_keyboard_polled_scancodes
         /\ InHand => Decoded = g_keyboard_irq_scancodes
                                  + g_keyboard_polled_scancodes - 1
         /\ g_keyboard_irq_scancodes \in Nat /\ g_keyboard_polled_scancodes \in Nat
  BY DEF TypeOK, Decoded

\* The poller takes the last byte sent into its hand.
LEMMA PollDataIInv ==
  ASSUME IInv, TypeOK', PollData, OneReader
  PROVE  IInv'
<1> USE DEF IInv
<1>1. /\ pc = "data" /\ pc' = "decode" /\ obf' = NoByte /\ irq1' = FALSE
      /\ scancode' = port
      /\ g_keyboard_polled_scancodes' = g_keyboard_polled_scancodes + 1
      /\ UNCHANGED <<delivery, port, stream, mice, ring, flags, g_keyboard_irq_seen,
                     g_keyboard_irq_scancodes, i, pending, next, k, got>>
  BY DEF PollData, ReadPort
<1>2. obf.byte > 0 /\ obf # NoByte /\ delivery = "polled"
  BY <1>1 DEF Ownership, NoByte, OneReader
<1>3. /\ ~InHand /\ ~AfterFlags /\ InHand' /\ BeforeFlags' /\ ~AfterFlags'
  BY <1>1 DEF InHand, BeforeFlags, AfterFlags
<1>4. /\ Decoded = g_keyboard_irq_scancodes + g_keyboard_polled_scancodes
      /\ Decoded' = g_keyboard_irq_scancodes + g_keyboard_polled_scancodes + 1 - 1
      /\ g_keyboard_irq_scancodes \in Nat /\ g_keyboard_polled_scancodes \in Nat
  <2>1. Decoded' = g_keyboard_irq_scancodes' + g_keyboard_polled_scancodes' - 1
    BY <1>3 DEF TypeOK, Decoded
  <2>2. /\ g_keyboard_irq_scancodes \in Nat /\ g_keyboard_polled_scancodes \in Nat
        /\ Decoded = g_keyboard_irq_scancodes + g_keyboard_polled_scancodes
    BY <1>3, DecodedFacts
  <2> QED  BY <1>1, <2>1, <2>2
<1>5. Decoded' = Decoded /\ Decoded \in Nat
  BY <1>4
<1>6. /\ port = [byte |-> Len(stream), code |-> stream[Len(stream)]]
      /\ Len(stream) = Decoded + 1
  BY <1>2, <1>4 DEF Accounting
<1>7. TailStable'
  BY <1>1 DEF TailStable
<1>8. Accounting'
  <2>1. obf'.byte = 0 /\ obf' = NoByte
    BY <1>1 DEF NoByte
  <2>2. Len(stream') = g_keyboard_irq_scancodes' + g_keyboard_polled_scancodes'
        /\ g_keyboard_polled_scancodes' > 0
    BY <1>1, <1>4, <1>6
  <2> QED  BY <1>4, <2>1, <2>2 DEF Accounting, TypeOK
<1>9. Ownership'
  BY <1>1, <1>2 DEF Ownership, NoByte
<1>10. FlagsMatchStream'
  BY <1>1, <1>3, <1>5 DEF FlagsMatchStream, flags
<1>11. LocalsFresh'
  BY <1>1, <1>3, <1>5, <1>6 DEF LocalsFresh
<1> QED  BY <1>7, <1>8, <1>9, <1>10, <1>11

\* The byte in hand acts on the flags and yields its key.
LEMMA PollDecodeIInv ==
  ASSUME IInv, TypeOK', PollDecode, OneReader
  PROVE  IInv'
<1> DEFINE d == DecodeCode(scancode.code, extended_scancode, shift_pressed)
<1> USE DEF IInv
<1>1. /\ pc = "decode"
      /\ extended_scancode' = d.ext /\ shift_pressed' = d.shift
      /\ pending' = [byte |-> scancode.byte, key |-> d.key]
      /\ pc' = IF d.key = NoKey THEN "status" ELSE "room"
      /\ UNCHANGED <<hw, ring, g_keyboard_irq_seen, counts, i, scancode, next, k,
                     got>>
  BY DEF PollDecode
<1>2. /\ InHand /\ BeforeFlags /\ ~AfterFlags /\ ~BeforeFlags'
      /\ IF d.key = NoKey THEN ~InHand' /\ ~AfterFlags' ELSE InHand' /\ AfterFlags'
  BY <1>1 DEF InHand, BeforeFlags, AfterFlags
<1>3. /\ g_keyboard_irq_scancodes \in Nat /\ g_keyboard_polled_scancodes \in Nat
      /\ g_keyboard_polled_scancodes > 0
      /\ Decoded = g_keyboard_irq_scancodes + g_keyboard_polled_scancodes - 1
      /\ Decoded \in Nat
  BY <1>2, DecodedFacts DEF Accounting
<1>4. Len(stream) >= g_keyboard_irq_scancodes + g_keyboard_polled_scancodes
  BY <1>3 DEF Accounting
<1>5. Decoded + 1 \in 1 .. Len(stream)
  <2>1. Len(stream) \in Nat
    BY DEF TypeOK
  <2> QED  BY <1>3, <1>4, <2>1
<1>6. Decoded' = IF d.key = NoKey THEN Decoded + 1 ELSE Decoded
  <2>1. UNCHANGED <<g_keyboard_irq_scancodes, g_keyboard_polled_scancodes>>
    BY <1>1 DEF counts
  <2>2. CASE d.key = NoKey
    <3>1. Decoded' = g_keyboard_irq_scancodes + g_keyboard_polled_scancodes
      BY <1>2, <1>3, <2>1, <2>2 DEF Decoded
    <3> QED  BY <1>3, <2>2, <3>1
  <2>3. CASE d.key # NoKey
    BY <1>2, <2>1, <2>3 DEF Decoded
  <2> QED  BY <2>2, <2>3
<1>7. /\ d.ext <=> Prefixed(stream, Decoded + 2)
      /\ d.shift <=> Shifted(stream, Decoded + 2)
      /\ d.key = KeyOf(stream, Decoded + 1)
  <2>1. PICK m \in 1 .. Len(stream) : m = Decoded + 1
    BY <1>5
  <2>2. scancode.code = stream[m]
    BY <1>2, <2>1 DEF LocalsFresh
  <2>3. /\ extended_scancode <=> Prefixed(stream, m)
        /\ shift_pressed <=> Shifted(stream, m)
    BY <1>2, <2>1 DEF FlagsMatchStream
  <2>4. /\ stream \in Seq(Code)
        /\ extended_scancode \in BOOLEAN /\ shift_pressed \in BOOLEAN
    BY DEF TypeOK
  <2>5. /\ DecodeCode(stream[m], extended_scancode, shift_pressed).ext
             <=> Prefixed(stream, m + 1)
        /\ DecodeCode(stream[m], extended_scancode, shift_pressed).shift
             <=> Shifted(stream, m + 1)
        /\ DecodeCode(stream[m], extended_scancode, shift_pressed).key
             = KeyOf(stream, m)
    BY <2>3, <2>4, DecoderStep, Zenon
  <2>6. m + 1 = Decoded + 2
    BY <1>3, <2>1
  <2> QED  BY <2>1, <2>2, <2>5, <2>6
<1> HIDE DEF d
<1>8. TailStable'
  BY <1>1 DEF TailStable
<1>9. Accounting'
  BY <1>1, <1>2 DEF Accounting, hw, counts
<1>10. Ownership'
  <2>1. delivery = "polled"
    BY <1>2 DEF Ownership, OneReader
  <2> QED  BY <1>1, <2>1 DEF Ownership, hw
<1>11. FlagsMatchStream'
  <2>1. Decoded' + (IF AfterFlags' THEN 2 ELSE 1) = Decoded + 2
    BY <1>2, <1>3, <1>6
  <2> QED  BY <1>1, <1>7, <2>1 DEF FlagsMatchStream, hw
<1>12. LocalsFresh'
  <2>1. scancode.byte = Decoded + 1
    BY <1>2 DEF LocalsFresh
  <2> QED  BY <1>1, <1>2, <1>6, <1>7, <2>1 DEF LocalsFresh, hw
<1> QED  BY <1>8, <1>9, <1>10, <1>11, <1>12

\* enqueueKey on the main loop, step by step: nobody else moves the head.
LEMMA EnqueueIInv ==
  ASSUME IInv, TypeOK', EnqueueRoom \/ EnqueueWrite \/ EnqueuePublish, OneReader
  PROVE  IInv'
<1> USE DEF IInv
<1>1. /\ UNCHANGED <<hw, key_tail, flags, g_keyboard_irq_seen, counts, i, scancode,
                     pending, k, got>>
      /\ pc \in {"room", "write", "publish"}
      /\ pc' \in {"status", "write", "publish"}
  BY DEF EnqueueRoom, EnqueueWrite, EnqueuePublish, ring, locals
<1>2. InHand /\ AfterFlags /\ ~BeforeFlags /\ ~BeforeFlags'
  BY <1>1 DEF InHand, BeforeFlags, AfterFlags
<1>3. /\ pc' = "status" => ~InHand' /\ ~AfterFlags'
      /\ pc' # "status" => InHand' /\ AfterFlags'
  BY <1>1 DEF InHand, BeforeFlags, AfterFlags
<1>4. delivery = "polled"
  BY <1>2 DEF Ownership, OneReader
<1>5. /\ g_keyboard_irq_scancodes \in Nat /\ g_keyboard_polled_scancodes \in Nat
      /\ g_keyboard_polled_scancodes > 0
      /\ Decoded = g_keyboard_irq_scancodes + g_keyboard_polled_scancodes - 1
      /\ Decoded \in Nat
  BY <1>2, DecodedFacts DEF Accounting
<1>6. /\ pc' = "status" => Decoded' = Decoded + 1
      /\ pc' # "status" => Decoded' = Decoded
  <2>1. UNCHANGED <<g_keyboard_irq_scancodes, g_keyboard_polled_scancodes>>
    BY <1>1 DEF counts
  <2>2. CASE ~InHand'
    <3>1. Decoded' = g_keyboard_irq_scancodes + g_keyboard_polled_scancodes
      BY <1>5, <2>1, <2>2 DEF Decoded
    <3> QED  BY <1>3, <1>5, <2>2, <3>1
  <2>3. CASE InHand'
    <3>1. Decoded' = Decoded
      BY <1>2, <2>1, <2>3 DEF Decoded
    <3> QED  BY <1>3, <2>3, <3>1
  <2> QED  BY <2>2, <2>3
<1>7. TailStable'
  BY <1>1 DEF TailStable
<1>8. Accounting'
  BY <1>1, <1>2 DEF Accounting, hw, counts
<1>9. Ownership'
  BY <1>1, <1>4 DEF Ownership, hw
<1>10. FlagsMatchStream'
  <2>1. Decoded' + (IF AfterFlags' THEN 2 ELSE 1) = Decoded + 2
    BY <1>3, <1>5, <1>6
  <2> QED  BY <1>1, <1>2, <2>1 DEF FlagsMatchStream, hw, flags
<1>11. LocalsFresh'
  <2>1. AfterFlags' => /\ pending' = [byte |-> Decoded' + 1,
                                      key  |-> KeyOf(stream', Decoded' + 1)]
                       /\ pending'.key # NoKey
    BY <1>1, <1>2, <1>3, <1>6 DEF LocalsFresh, hw
  <2>2. /\ pc' \in {"write", "publish"} => /\ next' = Succ(key_head')
                                           /\ ~Full(next', key_tail')
        /\ pc' = "publish" => key_queue'[key_head'] = pending'
    <3>1. key_queue \in [Slot -> Entry] /\ key_head \in Slot
      BY DEF TypeOK
    <3>2. CASE EnqueueRoom
      BY <3>2 DEF EnqueueRoom, ring
    <3>3. CASE EnqueueWrite
      BY <3>1, <3>3 DEF EnqueueWrite, LocalsFresh, locals
    <3>4. CASE EnqueuePublish
      BY <3>4 DEF EnqueuePublish
    <3> QED  BY <3>2, <3>3, <3>4
  <2> QED  BY <1>2, <2>1, <2>2 DEF LocalsFresh
<1> QED  BY <1>7, <1>8, <1>9, <1>10, <1>11

\* getLastKey releases the slot it has read.
LEMMA AdvanceTailIInv ==
  ASSUME IInv, TypeOK', AdvanceTail, OneReader
  PROVE  IInv'
<1> USE DEF IInv
<1>1. /\ UNCHANGED <<hw, key_queue, key_head, flags, counts, locals>>
      /\ pc = "advance" /\ pc' \in {"poll", "drain"}
  BY DEF AdvanceTail
<1>2. ~InHand /\ ~AfterFlags /\ ~BeforeFlags /\ ~InHand' /\ ~AfterFlags'
      /\ ~BeforeFlags'
  BY <1>1 DEF InHand, BeforeFlags, AfterFlags
<1>3. Decoded' = Decoded
  BY <1>1, <1>2 DEF Decoded, counts
<1>4. TailStable'
  BY <1>1 DEF TailStable
<1>5. Accounting'
  BY <1>1, <1>2 DEF Accounting, hw, counts
<1>6. Ownership'
  BY <1>1, <1>2 DEF Ownership, hw
<1>7. FlagsMatchStream'
  BY <1>1, <1>2, <1>3 DEF FlagsMatchStream, hw, flags
<1>8. LocalsFresh'
  BY <1>1, <1>2 DEF LocalsFresh
<1> QED  BY <1>4, <1>5, <1>6, <1>7, <1>8

LEMMA NextIInv ==
  ASSUME IInv, OneReader, [Next]_vars
  PROVE  IInv'
<1>1. TypeOK'
  BY NextTypeOK DEF IInv
<1> QED  BY <1>1, KeyboardByteIInv, IsrKeyboardIInv, QuietStepsIInv, PollDataIInv,
            PollDecodeIInv, EnqueueIInv, AdvanceTailIInv DEF Next, Main

\* A machine keeps its way of delivering IRQ1.
LEMMA SameMachine ==
  ASSUME [Next]_vars
  PROVE  delivery' = delivery
BY DEF Next, Main, KeyboardByte, MouseByte, ReadPort, IsrKeyboard, PollEnter,
       PollStatus, PollAux, PollData, PollDecode, EnqueueRoom, EnqueueWrite,
       EnqueuePublish, TakeKey, AdvanceTail, hw, vars

\* One reader: the port's bytes are each counted once, the decoder's flags
\* follow the stream, and the slot getLastKey reads is not written under it.
\* Every other machine keeps its types.
THEOREM OneReaderInvariant == Spec => []DriverInv
<1>1. Init => DriverInv
  BY InitTypeOK, InitIInv DEF DriverInv
<1>2. DriverInv /\ [Next]_vars => DriverInv'
  <2> SUFFICES ASSUME DriverInv, [Next]_vars
               PROVE  DriverInv'
    OBVIOUS
  <2>1. TypeOK'
    BY NextTypeOK DEF DriverInv
  <2>2. OneReader' => OneReader
    BY SameMachine DEF OneReader
  <2>3. OneReader => IInv'
    BY NextIInv DEF DriverInv
  <2> QED  BY <2>1, <2>2, <2>3 DEF DriverInv
<1> QED  BY <1>1, <1>2, PTL DEF Spec

-------------------------------------------------------------------------------
(* The refinement of KeyQueue. *)

\* The queue of the code, on any machine.
Ring == INSTANCE KeyQueue WITH Capacity <- QueueSize - 1, meaning <- Meaning,
                               decoded <- Decoded, queue <- Contents

LEMMA MeaningFacts ==
  ASSUME stream \in Seq(Code)
  PROVE  /\ Meaning \in Seq(Key \cup {NoKey})
         /\ Len(Meaning) = Len(stream)
         /\ \A n \in 1 .. Len(stream) : Meaning[n] = KeyOf(stream, n)
<1>1. \A n \in 1 .. Len(stream) : KeyOf(stream, n) \in Key \cup {NoKey}
  <2> SUFFICES ASSUME NEW n \in 1 .. Len(stream)
               PROVE  KeyOf(stream, n) \in Key \cup {NoKey}
    OBVIOUS
  <2> QED  BY DEF KeyOf, Key
<1>2. Meaning \in [1 .. Len(stream) -> Key \cup {NoKey}]
  BY <1>1 DEF Meaning
<1>3. Len(stream) \in Nat
  OBVIOUS
<1> QED  BY <1>2, <1>3 DEF Meaning

\* The meaning of a stream grows with the stream.
LEMMA MeaningAppend ==
  ASSUME stream \in Seq(Code), NEW c \in Code, stream' = Append(stream, c)
  PROVE  /\ KeyOf(stream', Len(stream) + 1) \in Key \cup {NoKey}
         /\ Meaning' = Append(Meaning, KeyOf(stream', Len(stream) + 1))
<1> DEFINE m == KeyOf(stream', Len(stream) + 1)
           new == Meaning'
<1>1. stream' \in Seq(Code) /\ Len(stream') = Len(stream) + 1 /\ Len(stream) \in Nat
  OBVIOUS
<1>2. m \in Key \cup {NoKey}
  <2>1. stream'[Len(stream) + 1] \in Code
    BY <1>1
  <2> QED  BY <2>1 DEF KeyOf, Key
<1>3. /\ new \in Seq(Key \cup {NoKey}) /\ Len(new) = Len(stream) + 1
      /\ \A n \in 1 .. Len(stream) + 1 : new[n] = KeyOf(stream', n)
  <2>1. \A n \in 1 .. Len(stream) + 1 : KeyOf(stream', n) \in Key \cup {NoKey}
    <3> SUFFICES ASSUME NEW n \in 1 .. Len(stream) + 1
                 PROVE  KeyOf(stream', n) \in Key \cup {NoKey}
      OBVIOUS
    <3> QED  BY DEF KeyOf, Key
  <2>2. new = [n \in 1 .. Len(stream) + 1 |-> KeyOf(stream', n)]
    BY <1>1 DEF Meaning
  <2>3. new \in [1 .. Len(stream) + 1 -> Key \cup {NoKey}]
    BY <2>1, <2>2
  <2> QED  BY <1>1, <2>2, <2>3
<1>4. /\ Meaning \in Seq(Key \cup {NoKey}) /\ Len(Meaning) = Len(stream)
      /\ \A n \in 1 .. Len(stream) : Meaning[n] = KeyOf(stream, n)
  BY MeaningFacts
<1>5. \A n \in 1 .. Len(stream) : KeyOf(stream', n) = KeyOf(stream, n)
  BY <1>1, StreamAppend
<1> HIDE DEF m, new
<1>6. \A n \in 1 .. Len(stream) + 1 : new[n] = Append(Meaning, m)[n]
  BY <1>1, <1>3, <1>4, <1>5 DEF m
<1>7. new = Append(Meaning, m)
  BY <1>1, <1>2, <1>3, <1>4, <1>6
<1> QED  BY <1>2, <1>7 DEF m, new

\* The last byte read is decoded: what a completed decoding step must do.
LEMMA DecodeStep ==
  ASSUME IInv, TypeOK', Decoded + 1 \in 1 .. Len(stream), Decoded' = Decoded + 1,
         UNCHANGED <<stream, got>>,
         IF KeyOf(stream, Decoded + 1) = NoKey \/ Full(Succ(key_head), key_tail)
         THEN Contents' = Contents
         ELSE Contents' = Append(Contents, [byte |-> Decoded + 1,
                                            key  |-> KeyOf(stream, Decoded + 1)])
  PROVE  Ring!Decode
<1>1. /\ stream \in Seq(Code) /\ Meaning' = Meaning
      /\ Len(Meaning) = Len(stream)
      /\ Meaning[Decoded + 1] = KeyOf(stream, Decoded + 1)
  BY MeaningFacts DEF IInv, TypeOK, Meaning
<1>2. /\ Len(Contents) = CountOf(key_head, key_tail)
      /\ Full(Succ(key_head), key_tail)
           <=> CountOf(key_head, key_tail) = QueueSize - 1
      /\ CountOf(key_head, key_tail) \in 0 .. QueueSize - 1
  <2>1. key_queue \in [Slot -> Entry] /\ key_head \in Slot /\ key_tail \in Slot
    BY DEF IInv, TypeOK
  <2>2. Len(Contents) = CountOf(key_head, key_tail)
    BY <2>1, ContentsType DEF Contents
  <2> QED  BY <2>1, <2>2, CountFacts
<1>3. Full(Succ(key_head), key_tail) <=> ~(Len(Contents) < QueueSize - 1)
  BY <1>2, QueueSizeAssumption
<1>4. Decoded < Len(Meaning)
  <2>1. Decoded \in Nat
    BY DecodedFacts DEF IInv, Accounting
  <2> QED  BY <1>1, <2>1
<1> QED  BY <1>1, <1>3, <1>4 DEF Ring!Decode

LEMMA InitRefines == Init => Ring!Init
<1> SUFFICES ASSUME Init
             PROVE  Ring!Init
  OBVIOUS
<1>1. IInv
  BY InitIInv
<1>2. Meaning = <<>>
  <2>1. Len(Meaning) = 0 /\ Meaning \in Seq(Key \cup {NoKey})
    BY <1>1, MeaningFacts DEF IInv, TypeOK, Init
  <2> QED  BY <2>1
<1>3. Contents = <<>>
  <2>1. /\ Contents \in Seq(Entry)
        /\ Len(Contents) = CountOf(key_head, key_tail)
    BY <1>1, ContentsType DEF IInv, TypeOK, Contents
  <2>2. CountOf(key_head, key_tail) = 0
    BY <1>1, CountFacts DEF IInv, TypeOK, Init
  <2> QED  BY <2>1, <2>2
<1>4. Decoded = 0
  <2>1. ~InHand
    BY DEF Init, InHand, BeforeFlags, AfterFlags
  <2>2. Decoded = g_keyboard_irq_scancodes + g_keyboard_polled_scancodes
    BY <1>1, <2>1, DecodedFacts DEF IInv
  <2> QED  BY <2>2 DEF Init
<1> QED  BY <1>2, <1>3, <1>4 DEF Ring!Init, Init

LEMMA KeyboardByteRefines ==
  ASSUME IInv, KeyboardByte
  PROVE  Ring!Send
<1>1. PICK c \in Code : stream' = Append(stream, c)
  BY DEF KeyboardByte
<1>2. UNCHANGED <<ring, counts, pc, got>>
  BY DEF KeyboardByte
<1>3. /\ KeyOf(stream', Len(stream) + 1) \in Key \cup {NoKey}
      /\ Meaning' = Append(Meaning, KeyOf(stream', Len(stream) + 1))
  BY <1>1, MeaningAppend DEF IInv, TypeOK
<1>4. Decoded' = Decoded
  BY <1>2 DEF Decoded, InHand, BeforeFlags, AfterFlags, counts
<1>5. Contents' = Contents
  BY <1>2 DEF Contents, ring
<1> QED  BY <1>2, <1>3, <1>4, <1>5 DEF Ring!Send

LEMMA IsrKeyboardRefines ==
  ASSUME IInv, TypeOK', IsrKeyboard, OneReader
  PROVE  Ring!Decode
<1> DEFINE d == DecodeCode(port.code, extended_scancode, shift_pressed)
           n == Succ(key_head)
<1> USE DEF IInv
<1>1. ~InHand /\ ~InHand' /\ ~AfterFlags
  BY DEF IsrKeyboard, Ownership, OneReader, InHand, BeforeFlags, AfterFlags
<1>2. /\ obf.byte > 0 /\ obf # NoByte
  BY DEF IsrKeyboard, Ownership, NoByte
<1>3. /\ port = [byte |-> Len(stream), code |-> stream[Len(stream)]]
      /\ Len(stream) = g_keyboard_irq_scancodes + g_keyboard_polled_scancodes + 1
  BY <1>2 DEF Accounting
<1>4. /\ Decoded = g_keyboard_irq_scancodes + g_keyboard_polled_scancodes
      /\ Decoded' = g_keyboard_irq_scancodes + 1 + g_keyboard_polled_scancodes
      /\ g_keyboard_irq_scancodes \in Nat /\ g_keyboard_polled_scancodes \in Nat
  <2>1. /\ g_keyboard_irq_scancodes' = g_keyboard_irq_scancodes + 1
        /\ g_keyboard_polled_scancodes' = g_keyboard_polled_scancodes
    BY DEF IsrKeyboard
  <2>2. Decoded' = g_keyboard_irq_scancodes' + g_keyboard_polled_scancodes'
    BY <1>1 DEF TypeOK, Decoded
  <2> QED  BY <1>1, <2>1, <2>2, DecodedFacts
<1>5. /\ Decoded' = Decoded + 1 /\ Decoded + 1 = Len(stream) /\ Decoded \in Nat
      /\ Decoded + 1 \in 1 .. Len(stream)
  BY <1>3, <1>4
<1>6. d.key = KeyOf(stream, Decoded + 1)
  <2>1. PICK m \in 1 .. Len(stream) : m = Decoded + 1 /\ port.code = stream[m]
    BY <1>3, <1>5
  <2>2. /\ extended_scancode <=> Prefixed(stream, m)
        /\ shift_pressed <=> Shifted(stream, m)
    BY <1>1, <2>1 DEF FlagsMatchStream
  <2>3. /\ stream \in Seq(Code)
        /\ extended_scancode \in BOOLEAN /\ shift_pressed \in BOOLEAN
    BY DEF TypeOK
  <2>4. DecodeCode(stream[m], extended_scancode, shift_pressed).key
          = KeyOf(stream, m)
    BY <2>2, <2>3, DecoderStep, Zenon
  <2> QED  BY <2>1, <2>4
<1>7. /\ UNCHANGED <<stream, key_tail, got>>
      /\ IF d.key = NoKey \/ Full(n, key_tail)
         THEN UNCHANGED <<key_queue, key_head>>
         ELSE /\ key_queue' = [key_queue EXCEPT
                                 ![key_head] = [byte |-> port.byte, key |-> d.key]]
              /\ key_head' = n
  BY DEF IsrKeyboard, ReadPort
<1> DEFINE e == [byte |-> Decoded + 1, key |-> KeyOf(stream, Decoded + 1)]
<1> HIDE DEF d
<1>8. IF KeyOf(stream, Decoded + 1) = NoKey \/ Full(Succ(key_head), key_tail)
      THEN Contents' = Contents
      ELSE Contents' = Append(Contents, e)
  <2>1. CASE KeyOf(stream, Decoded + 1) = NoKey \/ Full(Succ(key_head), key_tail)
    BY <1>6, <1>7, <2>1 DEF Contents
  <2>2. CASE ~(KeyOf(stream, Decoded + 1) = NoKey \/ Full(Succ(key_head), key_tail))
    <3>1. /\ key_queue' = [key_queue EXCEPT ![key_head] = e]
          /\ key_head' = Succ(key_head) /\ key_tail' = key_tail
      BY <1>3, <1>5, <1>6, <1>7, <2>2
    <3>2. /\ key_queue \in [Slot -> Entry] /\ key_head \in Slot /\ key_tail \in Slot
          /\ key_queue' \in [Slot -> Entry]
      BY DEF TypeOK
    <3> HIDE DEF e
    <3>3. key_queue'[key_head] = e /\ e \in Entry
      BY <3>1, <3>2
    <3>4. ContentsOf(key_queue', Succ(key_head), key_tail)
            = Append(ContentsOf(key_queue', key_head, key_tail), e)
      BY <2>2, <3>2, <3>3, ContentsPut
    <3>5. ContentsOf(key_queue', key_head, key_tail)
            = ContentsOf(key_queue, key_head, key_tail)
      <4>1. ContentsOf([key_queue EXCEPT ![key_head] = e], key_head, key_tail)
              = ContentsOf(key_queue, key_head, key_tail)
        BY <3>2, ContentsWrite
      <4> QED  BY <3>1, <4>1
    <3> QED  BY <2>2, <3>1, <3>4, <3>5 DEF Contents
  <2> QED  BY <2>1, <2>2
<1> QED  BY <1>5, <1>7, <1>8, DecodeStep

\* pollKeyboard: the decoding steps end in one of three places.
LEMMA PollDecodeRefines ==
  ASSUME IInv, TypeOK', PollDecode, OneReader
  PROVE  Ring!Decode \/ UNCHANGED Ring!vars
<1> DEFINE d == DecodeCode(scancode.code, extended_scancode, shift_pressed)
<1> USE DEF IInv
<1>1. /\ pc = "decode"
      /\ pc' = IF d.key = NoKey THEN "status" ELSE "room"
      /\ UNCHANGED <<hw, ring, counts, got>>
  BY DEF PollDecode
<1>2. /\ InHand /\ BeforeFlags /\ ~AfterFlags
      /\ IF d.key = NoKey THEN ~InHand' ELSE InHand'
  BY <1>1 DEF InHand, BeforeFlags, AfterFlags
<1>3. UNCHANGED <<stream, Meaning, Contents, g_keyboard_irq_scancodes,
                  g_keyboard_polled_scancodes>>
  BY <1>1 DEF hw, ring, counts, Meaning, Contents
<1>4. /\ g_keyboard_irq_scancodes \in Nat /\ g_keyboard_polled_scancodes \in Nat
      /\ g_keyboard_polled_scancodes > 0
      /\ Decoded = g_keyboard_irq_scancodes + g_keyboard_polled_scancodes - 1
      /\ Len(stream) >= g_keyboard_irq_scancodes + g_keyboard_polled_scancodes
  BY <1>2, DecodedFacts DEF Accounting
<1>5. Decoded + 1 \in 1 .. Len(stream) /\ Decoded \in Nat
  <2>1. Len(stream) \in Nat
    BY DEF TypeOK
  <2> QED  BY <1>4, <2>1
<1>6. CASE d.key # NoKey
  <2>1. Decoded' = Decoded
    BY <1>2, <1>3, <1>6 DEF Decoded
  <2> QED  BY <1>1, <1>3, <2>1 DEF Ring!vars
<1>7. CASE d.key = NoKey
  <2>1. Decoded' = g_keyboard_irq_scancodes + g_keyboard_polled_scancodes
    BY <1>2, <1>3, <1>4, <1>7 DEF Decoded
  <2>2. Decoded' = Decoded + 1
    BY <1>4, <2>1
  <2>3. PICK m \in 1 .. Len(stream) : m = Decoded + 1
    BY <1>5
  <2>4. /\ scancode.code = stream[m]
        /\ extended_scancode <=> Prefixed(stream, m)
        /\ shift_pressed <=> Shifted(stream, m)
    BY <1>2, <2>3 DEF LocalsFresh, FlagsMatchStream
  <2>5. /\ stream \in Seq(Code)
        /\ extended_scancode \in BOOLEAN /\ shift_pressed \in BOOLEAN
    BY DEF TypeOK
  <2>6. DecodeCode(stream[m], extended_scancode, shift_pressed).key
          = KeyOf(stream, m)
    BY <2>4, <2>5, DecoderStep, Zenon
  <2>7. KeyOf(stream, Decoded + 1) = NoKey
    BY <1>7, <2>3, <2>4, <2>6
  <2> QED  BY <1>1, <1>3, <1>5, <2>2, <2>7, DecodeStep
<1> QED  BY <1>6, <1>7

LEMMA EnqueueRefines ==
  ASSUME IInv, TypeOK', EnqueueRoom \/ EnqueueWrite \/ EnqueuePublish
  PROVE  Ring!Decode \/ UNCHANGED Ring!vars
<1> USE DEF IInv
<1>1. /\ UNCHANGED <<hw, key_tail, counts, got>>
      /\ pc \in {"room", "write", "publish"}
      /\ pc' \in {"status", "write", "publish"}
  BY DEF EnqueueRoom, EnqueueWrite, EnqueuePublish, ring, locals
<1>2. /\ InHand /\ AfterFlags
      /\ (pc' = "status" => ~InHand') /\ (pc' # "status" => InHand')
  BY <1>1 DEF InHand, BeforeFlags, AfterFlags
<1>3. UNCHANGED <<stream, Meaning, g_keyboard_irq_scancodes,
                  g_keyboard_polled_scancodes>>
  BY <1>1 DEF hw, counts, Meaning
<1>4. /\ g_keyboard_irq_scancodes \in Nat /\ g_keyboard_polled_scancodes \in Nat
      /\ g_keyboard_polled_scancodes > 0
      /\ Decoded = g_keyboard_irq_scancodes + g_keyboard_polled_scancodes - 1
      /\ Len(stream) >= g_keyboard_irq_scancodes + g_keyboard_polled_scancodes
  BY <1>2, DecodedFacts DEF Accounting
<1>5. Decoded + 1 \in 1 .. Len(stream)
  <2>1. Len(stream) \in Nat
    BY DEF TypeOK
  <2> QED  BY <1>4, <2>1
<1>6. pc' # "status" => Decoded' = Decoded
  BY <1>2, <1>3 DEF Decoded
<1>7. pc' = "status" => Decoded' = Decoded + 1
  <2>1. pc' = "status" => Decoded' = g_keyboard_irq_scancodes
                                       + g_keyboard_polled_scancodes
    BY <1>2, <1>3, <1>4 DEF Decoded
  <2> QED  BY <1>4, <2>1
<1>8. /\ pending = [byte |-> Decoded + 1, key |-> KeyOf(stream, Decoded + 1)]
      /\ KeyOf(stream, Decoded + 1) # NoKey
  BY <1>2 DEF LocalsFresh
<1>9. /\ key_queue \in [Slot -> Entry] /\ key_head \in Slot /\ key_tail \in Slot
      /\ pending \in Entry
  BY DEF TypeOK
<1>10. CASE EnqueueRoom
  <2>1. Contents' = Contents
    BY <1>10 DEF EnqueueRoom, ring, Contents
  <2>2. pc' = "status" => Full(Succ(key_head), key_tail)
    BY <1>10 DEF EnqueueRoom
  <2> QED  BY <1>1, <1>3, <1>5, <1>6, <1>7, <2>1, <2>2, DecodeStep DEF Ring!vars
<1>11. CASE EnqueueWrite
  <2>1. /\ key_queue' = [key_queue EXCEPT ![key_head] = pending]
        /\ key_head' = key_head /\ pc' = "publish"
    BY <1>11 DEF EnqueueWrite
  <2>2. ContentsOf([key_queue EXCEPT ![key_head] = pending], key_head, key_tail)
          = ContentsOf(key_queue, key_head, key_tail)
    BY <1>9, ContentsWrite
  <2>3. Contents' = Contents
    BY <1>1, <2>1, <2>2 DEF Contents
  <2> QED  BY <1>1, <1>3, <1>6, <2>1, <2>3 DEF Ring!vars
<1>12. CASE EnqueuePublish
  <2>1. /\ key_head' = Succ(key_head) /\ key_queue' = key_queue /\ pc' = "status"
        /\ ~Full(Succ(key_head), key_tail) /\ key_queue[key_head] = pending
    BY <1>12 DEF EnqueuePublish, LocalsFresh
  <2>2. ContentsOf(key_queue, Succ(key_head), key_tail)
          = Append(ContentsOf(key_queue, key_head, key_tail), pending)
    BY <1>9, <2>1, ContentsPut
  <2>3. Contents' = Append(Contents, [byte |-> Decoded + 1,
                                      key  |-> KeyOf(stream, Decoded + 1)])
    BY <1>1, <1>8, <2>1, <2>2 DEF Contents
  <2> QED  BY <1>1, <1>3, <1>5, <1>7, <1>8, <2>1, <2>3, DecodeStep
<1> QED  BY <1>10, <1>11, <1>12

LEMMA AdvanceTailRefines ==
  ASSUME IInv, AdvanceTail
  PROVE  Ring!Take
<1> USE DEF IInv
<1>1. /\ key_queue \in [Slot -> Entry] /\ key_head \in Slot /\ key_tail \in Slot
  BY DEF TypeOK
<1>2. /\ key_head # key_tail /\ k = key_queue[key_tail]
      /\ key_tail' = Succ(key_tail) /\ got' = Append(got, k)
      /\ UNCHANGED <<hw, key_queue, key_head, counts>>
  BY DEF AdvanceTail, TailStable
<1>3. ~InHand /\ ~InHand'
  BY DEF AdvanceTail, InHand, BeforeFlags, AfterFlags
<1>4. Decoded' = Decoded /\ Meaning' = Meaning
  BY <1>2, <1>3 DEF Decoded, counts, hw, Meaning
<1>5. /\ Contents # <<>> /\ Head(Contents) = k
      /\ ContentsOf(key_queue, key_head, Succ(key_tail)) = Tail(Contents)
  BY <1>1, <1>2, ContentsTake DEF Contents
<1>6. Contents' = Tail(Contents)
  BY <1>2, <1>5 DEF Contents
<1> QED  BY <1>2, <1>4, <1>5, <1>6 DEF Ring!Take

\* The steps of the reader that decode nothing and take nothing.
LEMMA OtherStepsRefine ==
  ASSUME IInv,
         \/ MouseByte \/ PollEnter \/ PollStatus \/ PollAux \/ TakeKey
         \/ UNCHANGED vars
  PROVE  UNCHANGED Ring!vars
<1>1. UNCHANGED <<stream, ring, counts, got>>
  BY DEF MouseByte, PollEnter, PollStatus, PollAux, ReadPort, TakeKey, vars, hw
<1>2. \/ pc' = pc
      \/ /\ pc \in {"poll", "status", "aux", "drain"}
         /\ pc' \in {"poll", "status", "aux", "data", "drain", "advance"}
  BY DEF MouseByte, PollEnter, PollStatus, PollAux, TakeKey, vars
<1>3. InHand' <=> InHand
  BY <1>2 DEF BeforeFlags, AfterFlags, InHand
<1>4. Decoded' = Decoded
  BY <1>1, <1>3 DEF Decoded, counts
<1>5. Meaning' = Meaning /\ Contents' = Contents
  BY <1>1 DEF Meaning, Contents, ring
<1> QED  BY <1>1, <1>4, <1>5 DEF Ring!vars

\* The poller takes a byte in hand: counted, not yet decoded.
LEMMA PollDataRefines ==
  ASSUME IInv, TypeOK', PollData
  PROVE  UNCHANGED Ring!vars
<1>1. /\ UNCHANGED <<stream, ring, g_keyboard_irq_scancodes, got>>
      /\ g_keyboard_polled_scancodes' = g_keyboard_polled_scancodes + 1
  BY DEF PollData, ReadPort
<1>2. ~InHand /\ InHand'
  BY DEF PollData, InHand, BeforeFlags, AfterFlags
<1>3. /\ Decoded = g_keyboard_irq_scancodes + g_keyboard_polled_scancodes
      /\ g_keyboard_irq_scancodes \in Nat /\ g_keyboard_polled_scancodes \in Nat
  BY <1>2, DecodedFacts DEF IInv
<1>4. Decoded' = g_keyboard_irq_scancodes' + g_keyboard_polled_scancodes' - 1
  BY <1>2 DEF TypeOK, Decoded
<1>5. Decoded' = Decoded
  BY <1>1, <1>3, <1>4
<1>6. Meaning' = Meaning /\ Contents' = Contents
  BY <1>1 DEF Meaning, Contents, ring
<1> QED  BY <1>1, <1>5, <1>6 DEF Ring!vars

LEMMA NextRefines ==
  ASSUME IInv, OneReader, [Next]_vars
  PROVE  [Ring!Next]_(Ring!vars)
<1>1. TypeOK'
  BY NextTypeOK DEF IInv
<1> QED  BY <1>1, KeyboardByteRefines, IsrKeyboardRefines, PollDecodeRefines,
            EnqueueRefines, AdvanceTailRefines, OtherStepsRefine, PollDataRefines
         DEF Next, Main, Ring!Next

\* Fifo is Ring where one party reads the port, and an empty queue elsewhere.
LEMMA FifoIsRing ==
  ASSUME OneReader, OneReader'
  PROVE  /\ Ring!Init => Fifo!Init
         /\ [Ring!Next]_(Ring!vars) => [Fifo!Next]_(Fifo!vars)
BY DEF Ring!Init, Fifo!Init, Ring!Next, Fifo!Next, Ring!Send, Fifo!Send,
       Ring!Decode, Fifo!Decode, Ring!Take, Fifo!Take, Ring!vars, Fifo!vars

\* A keyboard with one reader is a bounded first-in first-out queue: whatever
\* the interleaving of the IRQ1 handler (or the poller) with getLastKey, every
\* byte is decoded once and in order, and a key is lost only to a full ring.
THEOREM OneReaderIsFifo == Spec => ImplementsKeyQueue
<1>1. Init => Fifo!Init
  <2>1. Init /\ OneReader => Fifo!Init
    BY InitRefines DEF Ring!Init, Fifo!Init
  <2>2. ~OneReader => Fifo!Init
    BY DEF Fifo!Init
  <2> QED  BY <2>1, <2>2
<1>2. DriverInv /\ [Next]_vars => [Fifo!Next]_(Fifo!vars)
  <2> SUFFICES ASSUME DriverInv, [Next]_vars
               PROVE  [Fifo!Next]_(Fifo!vars)
    OBVIOUS
  <2>1. OneReader' <=> OneReader
    BY SameMachine DEF OneReader
  <2>2. CASE OneReader
    BY <2>1, <2>2, NextRefines, FifoIsRing DEF DriverInv
  <2>3. CASE ~OneReader
    BY <2>1, <2>3 DEF Fifo!vars
  <2> QED  BY <2>2, <2>3
<1> QED  BY <1>1, <1>2, OneReaderInvariant, PTL
         DEF Spec, Fifo!Spec, ImplementsKeyQueue
===============================================================================
