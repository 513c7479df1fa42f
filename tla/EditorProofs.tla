------------------------------ MODULE EditorProofs ------------------------------
(***************************************************************************)
(* Proofs about LineEditor, for every screen, line and history size: the   *)
(* buffer, whose characters handleChar moves one by one, is the line of    *)
(* EditedLine, and recall brings back nothing but entered lines.           *)
(***************************************************************************)
EXTENDS LineEditor, SequenceTheorems, FiniteSetTheorems, TLAPS

-------------------------------------------------------------------------------
(* Lines *)

\* A line with a character put in or taken out, place by place.
WithIn(t, s, k, c, n) ==
  \A i \in 1 .. n + 1 : t[i] = IF i < k THEN s[i] ELSE IF i = k THEN c ELSE s[i - 1]

LEMMA InsertAtIs ==
  ASSUME NEW S, NEW s \in Seq(S), NEW k \in 1 .. Len(s) + 1, NEW c \in S
  PROVE  /\ InsertAt(s, k, c) \in Seq(S) /\ Len(InsertAt(s, k, c)) = Len(s) + 1
         /\ WithIn(InsertAt(s, k, c), s, k, c, Len(s))
<1> DEFINE a == SubSeq(s, 1, k - 1)
           b == SubSeq(s, k, Len(s))
           d == a \o <<c>>
           w == d \o b
<1>0. Len(s) \in Nat /\ \A i \in 1 .. Len(s) : s[i] \in S
  BY ElementOfSeq, LenProperties
<1>1. a \in Seq(S) /\ Len(a) = k - 1 /\ \A i \in 1 .. k - 1 : a[i] = s[i]
  <2>1. \A i \in 1 .. k - 1 : s[i] \in S
    BY <1>0
  <2>2. /\ a \in Seq(S)
        /\ Len(a) = IF 1 <= k - 1 THEN k - 1 - 1 + 1 ELSE 0
        /\ \A i \in 1 .. k - 1 - 1 + 1 : a[i] = s[1 + i - 1]
    BY <2>1, <1>0, SubSeqProperties
  <2>3. k - 1 - 1 + 1 = k - 1 /\ \A i \in Nat : 1 + i - 1 = i
    BY <1>0
  <2> QED BY <2>2, <2>3, <1>0
<1>2. b \in Seq(S) /\ Len(b) = Len(s) + 1 - k /\ \A i \in 1 .. Len(s) + 1 - k : b[i] = s[k + i - 1]
  <2>1. \A i \in k .. Len(s) : s[i] \in S
    BY <1>0
  <2>2. /\ b \in Seq(S)
        /\ Len(b) = IF k <= Len(s) THEN Len(s) - k + 1 ELSE 0
        /\ \A i \in 1 .. Len(s) - k + 1 : b[i] = s[k + i - 1]
    BY <2>1, <1>0, SubSeqProperties
  <2> QED BY <2>2, <1>0
<1> HIDE DEF a, b
<1>3. d \in Seq(S) /\ Len(d) = k /\ \A i \in 1 .. k : d[i] = IF i < k THEN s[i] ELSE c
  <2>1. <<c>> \in Seq(S) /\ Len(<<c>>) = 1 /\ <<c>>[1] = c
    OBVIOUS
  <2>2. /\ d \in Seq(S) /\ Len(d) = k
        /\ \A i \in 1 .. k : d[i] = IF i <= k - 1 THEN a[i] ELSE <<c>>[i - (k - 1)]
    BY <1>1, <2>1, ConcatProperties
  <2>3. ASSUME NEW i \in 1 .. k PROVE d[i] = IF i < k THEN s[i] ELSE c
    <3> HIDE DEF d
    <3>1. CASE i < k
      <4>1. i <= k - 1 /\ i \in 1 .. k - 1
        BY <3>1, <1>0
      <4> QED BY <3>1, <4>1, <2>2, <1>1
    <3>2. CASE ~(i < k)
      <4>1. ~(i <= k - 1) /\ i - (k - 1) = 1
        BY <3>2, <1>0
      <4> QED BY <3>2, <4>1, <2>1, <2>2
    <3> QED BY <3>1, <3>2
  <2> QED BY <2>2, <2>3
<1> HIDE DEF d
<1>4. /\ w \in Seq(S) /\ Len(w) = Len(s) + 1
      /\ \A i \in 1 .. Len(s) + 1 : w[i] = IF i <= k THEN d[i] ELSE b[i - k]
  <2>1. Len(d) + Len(b) = Len(s) + 1
    BY <1>0, <1>2, <1>3
  <2>2. /\ w \in Seq(S) /\ Len(w) = Len(d) + Len(b)
        /\ \A i \in 1 .. Len(d) + Len(b) : w[i] = IF i <= Len(d) THEN d[i] ELSE b[i - Len(d)]
    <3>1. d \in Seq(S) /\ b \in Seq(S)
      BY <1>2, <1>3
    <3> QED BY <3>1, ConcatProperties
  <2> HIDE DEF w
  <2> QED BY <2>1, <2>2, <1>3
<1>5. \A i \in 1 .. Len(s) + 1 : ~(i <= k) => b[i - k] = s[i - 1]
  <2> SUFFICES ASSUME NEW i \in 1 .. Len(s) + 1, ~(i <= k) PROVE b[i - k] = s[i - 1]
    OBVIOUS
  <2>1. i - k \in 1 .. Len(s) + 1 - k /\ k + (i - k) - 1 = i - 1
    BY <1>0
  <2> QED BY <2>1, <1>2
<1>6. InsertAt(s, k, c) = w
  BY DEF InsertAt, a, b, d
<1> HIDE DEF w
<1>7. \A i \in 1 .. Len(s) + 1 :
        w[i] = IF i < k THEN s[i] ELSE IF i = k THEN c ELSE s[i - 1]
  <2> SUFFICES ASSUME NEW i \in 1 .. Len(s) + 1
               PROVE  w[i] = IF i < k THEN s[i] ELSE IF i = k THEN c ELSE s[i - 1]
    OBVIOUS
  <2>1. CASE i <= k
    <3>1. i \in 1 .. k /\ (~(i < k) => i = k)
      BY <2>1, <1>0
    <3>2. w[i] = d[i]
      BY <2>1, <1>4
    <3> QED BY <3>1, <3>2, <1>3
  <2>2. CASE ~(i <= k)
    <3>1. ~(i < k) /\ i # k
      BY <2>2, <1>0
    <3> QED BY <3>1, <2>2, <1>4, <1>5
  <2> QED BY <2>1, <2>2
<1> QED BY <1>4, <1>6, <1>7 DEF WithIn

LEMMA RemoveAtIs ==
  ASSUME NEW S, NEW s \in Seq(S), NEW k \in 1 .. Len(s)
  PROVE  /\ RemoveAt(s, k) \in Seq(S) /\ Len(RemoveAt(s, k)) = Len(s) - 1
         /\ \A i \in 1 .. Len(s) - 1 : RemoveAt(s, k)[i] = IF i < k THEN s[i] ELSE s[i + 1]
<1> DEFINE a == SubSeq(s, 1, k - 1)
           b == SubSeq(s, k + 1, Len(s))
<1>0. Len(s) \in Nat /\ \A i \in 1 .. Len(s) : s[i] \in S
  BY ElementOfSeq, LenProperties
<1>1. a \in Seq(S) /\ Len(a) = k - 1 /\ \A i \in 1 .. k - 1 : a[i] = s[i]
  <2>1. \A i \in 1 .. k - 1 : s[i] \in S
    BY <1>0
  <2>2. /\ a \in Seq(S)
        /\ Len(a) = IF 1 <= k - 1 THEN k - 1 - 1 + 1 ELSE 0
        /\ \A i \in 1 .. k - 1 - 1 + 1 : a[i] = s[1 + i - 1]
    BY <2>1, <1>0, SubSeqProperties
  <2>3. k - 1 - 1 + 1 = k - 1 /\ \A i \in Nat : 1 + i - 1 = i
    BY <1>0
  <2> QED BY <2>2, <2>3, <1>0
<1>2. b \in Seq(S) /\ Len(b) = Len(s) - k /\ \A i \in 1 .. Len(s) - k : b[i] = s[k + i]
  <2>1. \A i \in k + 1 .. Len(s) : s[i] \in S
    BY <1>0
  <2>2. /\ b \in Seq(S)
        /\ Len(b) = IF k + 1 <= Len(s) THEN Len(s) - (k + 1) + 1 ELSE 0
        /\ \A i \in 1 .. Len(s) - (k + 1) + 1 : b[i] = s[k + 1 + i - 1]
    BY <2>1, <1>0, SubSeqProperties
  <2>3. \A i \in Nat : k + 1 + i - 1 = k + i
    BY <1>0
  <2> QED BY <2>2, <2>3, <1>0
<1> HIDE DEF a, b
<1>3. /\ a \o b \in Seq(S) /\ Len(a \o b) = Len(s) - 1
      /\ \A i \in 1 .. Len(s) - 1 : (a \o b)[i] = IF i <= k - 1 THEN a[i] ELSE b[i - (k - 1)]
  BY <1>0, <1>1, <1>2, ConcatProperties
<1>4. \A i \in 1 .. Len(s) - 1 : ~(i < k) => b[i - (k - 1)] = s[i + 1]
  <2> SUFFICES ASSUME NEW i \in 1 .. Len(s) - 1, ~(i < k) PROVE b[i - (k - 1)] = s[i + 1]
    OBVIOUS
  <2>1. i - (k - 1) \in 1 .. Len(s) - k /\ k + (i - (k - 1)) = i + 1
    BY <1>0
  <2> QED BY <2>1, <1>2
<1>5. RemoveAt(s, k) = a \o b
  BY DEF RemoveAt, a, b
<1> HIDE DEF b
<1> QED BY <1>0, <1>1, <1>3, <1>4, <1>5

\* What the buffer holds below inputPosition.
LineInv ==
  /\ inputBuffer \in [0 .. MaxLine -> Chars \cup {Nul}]
  /\ inputPosition \in 0 .. MaxLine /\ cursorPos \in 0 .. inputPosition
  /\ \A i \in 0 .. inputPosition - 1 : inputBuffer[i] \in Chars

\* A buffer's first n characters, as a sequence.
LEMMA BufferIs ==
  ASSUME NEW b, NEW n \in Nat, \A i \in 0 .. n - 1 : b[i] \in Chars
  PROVE  LET s == [i \in 1 .. n |-> b[i - 1]]
         IN s \in Seq(Chars) /\ Len(s) = n /\ \A i \in 1 .. n : s[i] = b[i - 1]
<1> DEFINE s == [i \in 1 .. n |-> b[i - 1]]
<1>1. \A i \in 1 .. n : i - 1 \in 0 .. n - 1
  OBVIOUS
<1>2. \A i \in 1 .. n : b[i - 1] \in Chars
  BY <1>1
<1>3. s \in [1 .. n -> Chars] /\ \A i \in 1 .. n : s[i] = b[i - 1]
  BY <1>2
<1> HIDE DEF s
<1>4. s \in Seq(Chars)
  BY <1>3, SeqDef
<1>5. Len(s) = n
  BY <1>3, <1>4, LenProperties
<1> QED BY <1>3, <1>4, <1>5 DEF s

LEMMA LineIs ==
  ASSUME LineInv
  PROVE  /\ Line \in Seq(Chars) /\ Len(Line) = inputPosition
         /\ \A i \in 1 .. inputPosition : Line[i] = inputBuffer[i - 1]
<1>1. inputPosition \in Nat
  BY LineAssumption DEF LineInv
<1> QED BY <1>1, BufferIs DEF LineInv, Line

\* A sequence of characters that agrees with a buffer is what the buffer holds.
LEMMA BufferEquals ==
  ASSUME NEW b, NEW n \in Nat, NEW t \in Seq(Chars), Len(t) = n,
         \A i \in 0 .. n - 1 : b[i] = t[i + 1] /\ b[i] \in Chars
  PROVE  [i \in 1 .. n |-> b[i - 1]] = t
<1> DEFINE s == [i \in 1 .. n |-> b[i - 1]]
<1>1. s \in Seq(Chars) /\ Len(s) = n /\ \A i \in 1 .. n : s[i] = b[i - 1]
  BY BufferIs
<1> HIDE DEF s
<1>2. \A i \in 1 .. n : s[i] = t[i]
  <2> SUFFICES ASSUME NEW i \in 1 .. n PROVE s[i] = t[i]
    OBVIOUS
  <2>1. i - 1 \in 0 .. n - 1 /\ i - 1 + 1 = i
    OBVIOUS
  <2> QED BY <2>1, <1>1
<1>3. s = t
  BY <1>1, <1>2, SeqEqual
<1> QED BY <1>3 DEF s

LEMMA LineEquals ==
  ASSUME LineInv', NEW t \in Seq(Chars), Len(t) = inputPosition',
         \A i \in 0 .. inputPosition' - 1 : inputBuffer'[i] = t[i + 1]
  PROVE  Line' = t
<1>1. inputPosition' \in Nat
  BY LineAssumption DEF LineInv
<1>2. \A i \in 0 .. inputPosition' - 1 : inputBuffer'[i] = t[i + 1] /\ inputBuffer'[i] \in Chars
  BY DEF LineInv
<1> QED BY <1>1, <1>2, BufferEquals DEF Line

LEMMA Inserting ==
  ASSUME LineInv, NEW c \in Chars, inputPosition < MaxLine, inputBuffer' = Inserted(c),
         inputPosition' = inputPosition + 1, cursorPos' = cursorPos + 1
  PROVE  LineInv' /\ Line' = InsertAt(Line, cursorPos + 1, c)
<1> DEFINE k == cursorPos + 1
           t == InsertAt(Line, k, c)
<1>1. \A i \in 0 .. MaxLine :
        inputBuffer'[i] = IF i = cursorPos THEN c
                          ELSE IF cursorPos < i /\ i <= inputPosition THEN inputBuffer[i - 1]
                          ELSE IF i = inputPosition + 1 THEN Nul ELSE inputBuffer[i]
  BY DEF Inserted
<1>2. MaxLine \in Nat /\ inputPosition \in Nat /\ cursorPos \in 0 .. inputPosition
  BY LineAssumption DEF LineInv
<1>3. LineInv'
  <2>1. inputBuffer' \in [0 .. MaxLine -> Chars \cup {Nul}]
    <3>1. \A i \in 0 .. MaxLine : cursorPos < i => i - 1 \in 0 .. MaxLine
      BY <1>2
    <3> QED BY <3>1, <1>1 DEF Inserted, LineInv
  <2>2. \A i \in 0 .. inputPosition : inputBuffer'[i] \in Chars
    <3> SUFFICES ASSUME NEW i \in 0 .. inputPosition PROVE inputBuffer'[i] \in Chars
      OBVIOUS
    <3>1. i \in 0 .. MaxLine /\ i # inputPosition + 1
      BY <1>2
    <3>2. cursorPos < i => i - 1 \in 0 .. inputPosition - 1
      BY <1>2
    <3>3. i # cursorPos /\ ~(cursorPos < i /\ i <= inputPosition) => i \in 0 .. inputPosition - 1
      BY <1>2
    <3> QED BY <3>1, <3>2, <3>3, <1>1 DEF LineInv
  <2>3. inputPosition + 1 \in 0 .. MaxLine /\ cursorPos + 1 \in 0 .. inputPosition + 1
        /\ inputPosition + 1 - 1 = inputPosition
    BY <1>2
  <2> QED BY <2>1, <2>2, <2>3 DEF LineInv
<1>4. k \in 1 .. Len(Line) + 1
  BY <1>2, LineIs
<1>5. /\ t \in Seq(Chars) /\ Len(t) = inputPosition + 1
      /\ \A i \in 1 .. inputPosition + 1 :
           t[i] = IF i < k THEN Line[i] ELSE IF i = k THEN c ELSE Line[i - 1]
  <2>1. Line \in Seq(Chars) /\ Len(Line) = inputPosition
    BY LineIs
  <2> HIDE DEF k
  <2>2. /\ t \in Seq(Chars) /\ Len(t) = Len(Line) + 1
        /\ WithIn(t, Line, k, c, Len(Line))
    BY <1>4, <2>1, InsertAtIs
  <2> HIDE DEF t
  <2> QED BY <2>1, <2>2 DEF WithIn
<1>6. ASSUME NEW i \in 0 .. inputPosition PROVE inputBuffer'[i] = t[i + 1]
  <2>1. i + 1 \in 1 .. inputPosition + 1 /\ i \in 0 .. MaxLine /\ i + 1 - 1 = i
        /\ i # inputPosition + 1
    BY <1>2
  <2> HIDE DEF t
  <2>2. CASE i < cursorPos
    <3>1. i + 1 < k /\ i + 1 \in 1 .. inputPosition /\ i # cursorPos /\ ~(cursorPos < i)
      BY <2>2, <1>2
    <3>2. t[i + 1] = Line[i + 1]
      BY <3>1, <2>1, <1>5
    <3>3. Line[i + 1] = inputBuffer[i]
      BY <3>1, <2>1, LineIs
    <3> QED BY <3>1, <3>2, <3>3, <2>1, <1>1
  <2>3. CASE i = cursorPos
    <3>1. i + 1 = k /\ ~(i + 1 < k)
      BY <2>3, <1>2
    <3> QED BY <3>1, <2>1, <2>3, <1>1, <1>5
  <2>4. CASE i > cursorPos
    <3>1. ~(i + 1 < k) /\ i + 1 # k /\ i \in 1 .. inputPosition /\ i # cursorPos
      BY <2>4, <1>2
    <3>2. t[i + 1] = Line[i]
      BY <3>1, <2>1, <1>5
    <3>3. Line[i] = inputBuffer[i - 1]
      BY <3>1, LineIs
    <3>4. inputBuffer'[i] = inputBuffer[i - 1]
      BY <2>1, <2>4, <3>1, <1>1, <1>2
    <3> QED BY <3>2, <3>3, <3>4
  <2> QED BY <2>2, <2>3, <2>4, <1>2
<1>7. inputPosition' - 1 = inputPosition
  BY <1>2
<1> HIDE DEF t
<1>8. Line' = t
  BY <1>3, <1>5, <1>6, <1>7, LineEquals
<1> QED BY <1>3, <1>8 DEF t

LEMMA Removing ==
  ASSUME LineInv, NEW p \in 0 .. inputPosition - 1, inputBuffer' = Without(p),
         inputPosition' = inputPosition - 1, cursorPos' \in 0 .. inputPosition - 1
  PROVE  LineInv' /\ Line' = RemoveAt(Line, p + 1)
<1> DEFINE k == p + 1
           t == RemoveAt(Line, k)
<1>1. \A i \in 0 .. MaxLine :
        inputBuffer'[i] = IF p <= i /\ i < inputPosition - 1 THEN inputBuffer[i + 1]
                          ELSE IF i = inputPosition - 1 THEN Nul ELSE inputBuffer[i]
  BY DEF Without
<1>2. MaxLine \in Nat /\ inputPosition \in Nat /\ inputPosition <= MaxLine
  BY LineAssumption DEF LineInv
<1>3. LineInv'
  <2>1. inputBuffer' \in [0 .. MaxLine -> Chars \cup {Nul}]
    <3>1. \A i \in 0 .. MaxLine : i < inputPosition - 1 => i + 1 \in 0 .. MaxLine
      BY <1>2
    <3> QED BY <3>1, <1>1 DEF Without, LineInv
  <2>2. \A i \in 0 .. inputPosition - 1 - 1 : inputBuffer'[i] \in Chars
    <3> SUFFICES ASSUME NEW i \in 0 .. inputPosition - 1 - 1 PROVE inputBuffer'[i] \in Chars
      OBVIOUS
    <3>1. i \in 0 .. MaxLine /\ i # inputPosition - 1 /\ i \in 0 .. inputPosition - 1
          /\ i + 1 \in 0 .. inputPosition - 1
      BY <1>2
    <3> QED BY <3>1, <1>1 DEF LineInv
  <2>3. inputPosition - 1 \in 0 .. MaxLine
    BY <1>2
  <2> QED BY <2>1, <2>2, <2>3 DEF LineInv
<1>4. k \in 1 .. Len(Line)
  BY <1>2, LineIs
<1>5. /\ t \in Seq(Chars) /\ Len(t) = inputPosition - 1
      /\ \A i \in 1 .. inputPosition - 1 : t[i] = IF i < k THEN Line[i] ELSE Line[i + 1]
  <2>1. Line \in Seq(Chars) /\ Len(Line) = inputPosition
    BY LineIs
  <2> HIDE DEF k
  <2> QED BY <1>4, <2>1, RemoveAtIs
<1>6. ASSUME NEW i \in 0 .. inputPosition - 1 - 1 PROVE inputBuffer'[i] = t[i + 1]
  <2>1. i + 1 \in 1 .. inputPosition - 1 /\ i \in 0 .. MaxLine /\ i + 1 - 1 = i
        /\ i # inputPosition - 1 /\ i < inputPosition - 1 /\ i + 1 \in 1 .. inputPosition
        /\ i + 1 + 1 \in 1 .. inputPosition /\ i + 1 + 1 - 1 = i + 1
    BY <1>2
  <2> HIDE DEF t
  <2>2. CASE i < p
    <3>1. i + 1 < k /\ ~(p <= i)
      BY <2>2, <1>2
    <3>2. t[i + 1] = Line[i + 1]
      BY <3>1, <2>1, <1>5
    <3>3. Line[i + 1] = inputBuffer[i]
      BY <2>1, LineIs
    <3> QED BY <3>1, <3>2, <3>3, <2>1, <1>1
  <2>3. CASE ~(i < p)
    <3>1. ~(i + 1 < k) /\ p <= i
      BY <2>3, <1>2
    <3>2. t[i + 1] = Line[i + 1 + 1]
      BY <3>1, <2>1, <1>5
    <3>3. Line[i + 1 + 1] = inputBuffer[i + 1]
      BY <2>1, LineIs
    <3> QED BY <3>1, <3>2, <3>3, <2>1, <1>1
  <2> QED BY <2>2, <2>3
<1> HIDE DEF t
<1>7. Line' = t
  BY <1>3, <1>5, <1>6, LineEquals
<1> QED BY <1>3, <1>7 DEF t

LEMMA Recalling ==
  ASSUME NEW text \in Seq(Chars), Len(text) <= MaxLine, LineInv, SetInputLine(text)
  PROVE  LineInv' /\ Line' = text /\ cursorPos' = Len(text)
<1>1. \A i \in 0 .. MaxLine :
        inputBuffer'[i] = IF i < Len(text) THEN text[i + 1]
                          ELSE IF i = Len(text) THEN Nul ELSE inputBuffer[i]
  BY DEF SetInputLine
<1>2. MaxLine \in Nat /\ Len(text) \in Nat /\ inputPosition' = Len(text) /\ cursorPos' = Len(text)
  BY LineAssumption, LenProperties DEF SetInputLine
<1>3. \A i \in 0 .. Len(text) - 1 : inputBuffer'[i] = text[i + 1] /\ text[i + 1] \in Chars
  <2> SUFFICES ASSUME NEW i \in 0 .. Len(text) - 1
               PROVE  inputBuffer'[i] = text[i + 1] /\ text[i + 1] \in Chars
    OBVIOUS
  <2>1. i \in 0 .. MaxLine /\ i < Len(text) /\ i + 1 \in 1 .. Len(text)
    BY <1>2
  <2> QED BY <2>1, <1>1, ElementOfSeq
<1>4. inputBuffer' \in [0 .. MaxLine -> Chars \cup {Nul}]
  <2>1. \A i \in 0 .. MaxLine : i < Len(text) => i \in 0 .. Len(text) - 1
    BY <1>2
  <2>2. \A i \in 0 .. MaxLine : inputBuffer'[i] \in Chars \cup {Nul}
    BY <2>1, <1>1, <1>3 DEF LineInv
  <2>3. DOMAIN inputBuffer' = 0 .. MaxLine
        /\ inputBuffer' = [i \in 0 .. MaxLine |-> inputBuffer'[i]]
    BY DEF SetInputLine
  <2> QED BY <2>2, <2>3
<1>5. LineInv'
  <2>1. Len(text) \in 0 .. MaxLine /\ Len(text) \in 0 .. Len(text)
    BY <1>2
  <2> QED BY <2>1, <1>2, <1>3, <1>4 DEF LineInv
<1>6. Line' = text
  BY <1>2, <1>3, <1>5, LineEquals
<1> QED BY <1>2, <1>5, <1>6

LEMMA Emptying ==
  ASSUME LineInv, EmptyLine
  PROVE  LineInv' /\ Line' = <<>> /\ cursorPos' = 0
<1>1. LineInv'
  BY LineAssumption DEF LineInv, EmptyLine
<1>2. <<>> \in Seq(Chars) /\ Len(<<>>) = 0
  OBVIOUS
<1>3. inputPosition' = 0 /\ cursorPos' = 0 /\ 0 .. 0 - 1 = {}
  BY DEF EmptyLine
<1> QED BY <1>1, <1>2, <1>3, LineEquals

LEMMA LineKept ==
  ASSUME LineInv, UNCHANGED <<inputBuffer, inputPosition>>, cursorPos' \in 0 .. inputPosition
  PROVE  LineInv' /\ Line' = Line
  BY DEF LineInv, Line

-------------------------------------------------------------------------------
(* The history *)

Entered == {ran[i] : i \in DOMAIN ran}
Kept == {t \in Entered : Len(t) \in 1 .. MaxLine}

HistInv ==
  /\ ran \in Seq(Seq(Chars)) /\ history \in Seq(Kept)
  /\ Len(history) <= HistMax /\ historyIndex \in 0 .. Len(history)

LEMMA EnteredIs ==
  ASSUME HistInv
  PROVE  Entered \subseteq Seq(Chars)
<1>1. DOMAIN ran = 1 .. Len(ran)
  BY LenProperties DEF HistInv
<1> QED BY <1>1, ElementOfSeq DEF HistInv, Entered

LEMMA EnteredNext ==
  ASSUME HistInv, NEW cmd \in Seq(Chars), ran' = Append(ran, cmd)
  PROVE  ran' \in Seq(Seq(Chars)) /\ Entered' = Entered \cup {cmd}
<1>1. /\ ran' \in Seq(Seq(Chars)) /\ Len(ran') = Len(ran) + 1
      /\ (\A i \in 1 .. Len(ran) : ran'[i] = ran[i]) /\ ran'[Len(ran) + 1] = cmd
  BY AppendProperties DEF HistInv
<1>2. DOMAIN ran = 1 .. Len(ran) /\ DOMAIN ran' = 1 .. Len(ran) + 1 /\ Len(ran) \in Nat
  BY <1>1, LenProperties DEF HistInv
<1>3. \A i \in 1 .. Len(ran) + 1 : i \in 1 .. Len(ran) \/ i = Len(ran) + 1
  BY <1>2
<1>4. 1 .. Len(ran) \subseteq 1 .. Len(ran) + 1 /\ Len(ran) + 1 \in 1 .. Len(ran) + 1
  BY <1>2
<1>5. \A i \in DOMAIN ran' : ran'[i] \in Entered \cup {cmd}
  BY <1>1, <1>2, <1>3 DEF Entered
<1>6. \A t \in Entered \cup {cmd} : \E i \in DOMAIN ran' : ran'[i] = t
  BY <1>1, <1>2, <1>4 DEF Entered
<1>7. Entered' = {ran'[i] : i \in DOMAIN ran'}
  BY DEF Entered
<1>8. Entered' = Entered \cup {cmd}
  <2> DEFINE E == Entered \cup {cmd}
  <2> HIDE DEF E
  <2>1. (\A i \in DOMAIN ran' : ran'[i] \in E) /\ \A t \in E : \E i \in DOMAIN ran' : ran'[i] = t
    BY <1>5, <1>6 DEF E
  <2>2. {ran'[i] : i \in DOMAIN ran'} = E
    BY <2>1, Zenon
  <2> QED BY <1>7, <2>2 DEF E
<1> QED BY <1>1, <1>8

\* What is recalled has been entered and fits the buffer.
LEMMA KeptIs ==
  ASSUME HistInv, NEW i \in 1 .. Len(history)
  PROVE  history[i] \in Entered /\ history[i] \in Seq(Chars) /\ Len(history[i]) <= MaxLine
<1>1. history[i] \in Kept
  BY ElementOfSeq DEF HistInv
<1>2. Len(history[i]) <= MaxLine
  BY <1>1, LineAssumption DEF Kept
<1> QED BY <1>1, <1>2, EnteredIs DEF Kept

LEMMA HistoryKeeps ==
  ASSUME HistInv, NEW cmd \in Seq(Chars), Len(cmd) <= MaxLine, NEW K, Kept \subseteq K,
         cmd # <<>> => cmd \in K
  PROVE  HistoryAdd(cmd) \in Seq(K) /\ Len(HistoryAdd(cmd)) <= HistMax
<1>1. history \in Seq(K) /\ Len(history) \in Nat /\ HistMax \in Nat \ {0} /\ Len(history) <= HistMax
  BY SeqMonotonic, LenProperties, LineAssumption DEF HistInv
<1>2. CASE cmd = <<>> \/ (history # <<>> /\ Last(history) = cmd)
  BY <1>1, <1>2 DEF HistoryAdd
<1>3. CASE ~(cmd = <<>> \/ (history # <<>> /\ Last(history) = cmd)) /\ Len(history) < HistMax
  <2>1. Append(history, cmd) \in Seq(K) /\ Len(Append(history, cmd)) = Len(history) + 1
    BY <1>1, <1>3, AppendProperties
  <2>2. HistoryAdd(cmd) = Append(history, cmd)
    BY <1>3 DEF HistoryAdd
  <2> QED BY <1>1, <1>3, <2>1, <2>2
<1>4. CASE ~(cmd = <<>> \/ (history # <<>> /\ Last(history) = cmd)) /\ ~(Len(history) < HistMax)
  <2>1. history # <<>>
    BY <1>1, <1>4
  <2>2. Tail(history) \in Seq(K) /\ Len(Tail(history)) = Len(history) - 1
    BY <1>1, <2>1, HeadTailProperties
  <2>3. Append(Tail(history), cmd) \in Seq(K)
        /\ Len(Append(Tail(history), cmd)) = Len(Tail(history)) + 1
    BY <1>4, <2>2, AppendProperties
  <2>4. HistoryAdd(cmd) = Append(Tail(history), cmd)
    BY <1>4 DEF HistoryAdd
  <2> QED BY <1>1, <2>2, <2>3, <2>4
<1> QED BY <1>2, <1>3, <1>4

LEMMA HistKept ==
  ASSUME HistInv, UNCHANGED <<recall, ran>>
  PROVE  HistInv' /\ Entered' = Entered
  BY DEF recall, HistInv, Kept, Entered

-------------------------------------------------------------------------------
(* The steps *)

Step == Editor!Next \/ UNCHANGED Editor!vars

LEMMA Typing ==
  ASSUME LineInv, HistInv, HandleChar
  PROVE  LineInv' /\ HistInv' /\ Step
<1>1. UNCHANGED ran
  BY DEF HandleChar
<1>2. MaxLine \in Nat /\ inputPosition \in 0 .. MaxLine /\ cursorPos \in 0 .. inputPosition
  BY LineAssumption DEF LineInv
<1>3. ASSUME UNCHANGED history, historyIndex' \in 0 .. Len(history)
      PROVE HistInv' /\ Entered' = Entered
  BY <1>1, <1>3 DEF HistInv, Kept, Entered
<1>4. ASSUME NEW c \in Typed, Insert(c) PROVE LineInv' /\ HistInv' /\ Step
  <2>1. c \in Chars
    BY CharAssumption
  <2>2. LineInv' /\ Line' = InsertAt(Line, cursorPos + 1, c)
    BY <1>4, <2>1, Inserting DEF Insert
  <2>3. HistInv' /\ Entered' = Entered
    BY <1>1, <1>4, HistKept DEF Insert
  <2>4. Editor!InsertAt(Line, cursorPos + 1, c) = InsertAt(Line, cursorPos + 1, c)
    BY DEF Editor!InsertAt, InsertAt
  <2>5. cursorPos' = cursorPos + 1
    BY <1>4 DEF Insert
  <2>6. Editor!Insert
    BY <2>2, <2>3, <2>4, <2>5, <2>1 DEF Editor!Insert, Entered
  <2> QED BY <2>2, <2>3, <2>6 DEF Step, Editor!Next
<1>5. CASE Backspace
  <2>1. cursorPos - 1 \in 0 .. inputPosition - 1 /\ cursorPos - 1 + 1 = cursorPos
    BY <1>2, <1>5 DEF Backspace
  <2>2. LineInv' /\ Line' = RemoveAt(Line, cursorPos)
    BY <1>5, <2>1, Removing DEF Backspace, Cut
  <2>3. HistInv' /\ Entered' = Entered
    BY <1>1, <1>5, HistKept DEF Backspace, Cut
  <2>4. Editor!RemoveAt(Line, cursorPos) = RemoveAt(Line, cursorPos)
    BY DEF Editor!RemoveAt, RemoveAt
  <2>5. cursorPos > 0 /\ cursorPos' = cursorPos - 1
    BY <1>5 DEF Backspace, Cut
  <2>6. Editor!Backspace
    BY <2>2, <2>3, <2>4, <2>5 DEF Editor!Backspace, Entered
  <2> QED BY <2>2, <2>3, <2>6 DEF Step, Editor!Next
<1>6. CASE Delete
  <2>1. cursorPos \in 0 .. inputPosition - 1
    BY <1>2, <1>6 DEF Delete, Cut
  <2>2. LineInv' /\ Line' = RemoveAt(Line, cursorPos + 1)
    BY <1>6, <2>1, Removing DEF Delete, Cut
  <2>3. HistInv' /\ Entered' = Entered
    BY <1>1, <1>6, HistKept DEF Delete, Cut
  <2>4. Editor!RemoveAt(Line, cursorPos + 1) = RemoveAt(Line, cursorPos + 1)
    BY DEF Editor!RemoveAt, RemoveAt
  <2>5. cursorPos < Len(Line) /\ cursorPos' = cursorPos
    BY <1>6, <1>2, <2>1, LineIs DEF Delete, Cut
  <2>6. Editor!Delete
    BY <2>2, <2>3, <2>4, <2>5 DEF Editor!Delete, Entered
  <2> QED BY <2>2, <2>3, <2>6 DEF Step, Editor!Next
<1>7. ASSUME NEW caret \in 0 .. inputPosition, Move(caret) PROVE LineInv' /\ HistInv' /\ Step
  <2>1. LineInv' /\ Line' = Line
    BY <1>7, LineKept DEF Move
  <2>2. HistInv' /\ Entered' = Entered
    BY <1>1, <1>7, HistKept DEF Move
  <2>3. Editor!Move
    <3>1. cursorPos' \in 0 .. Len(Line)
      BY <1>7, LineIs DEF Move
    <3> QED BY <2>1, <2>2, <3>1 DEF Editor!Move, Entered
  <2> QED BY <2>1, <2>2, <2>3 DEF Step, Editor!Next
<1>8. ASSUME NEW text \in Seq(Chars), Len(text) <= MaxLine, text \in Entered \cup {<<>>},
             SetInputLine(text), UNCHANGED history, historyIndex' \in 0 .. Len(history)
      PROVE  LineInv' /\ HistInv' /\ Step
  <2>1. LineInv' /\ Line' = text /\ cursorPos' = Len(text)
    BY <1>8, Recalling
  <2>2. HistInv' /\ Entered' = Entered
    BY <1>3, <1>8
  <2>3. Editor!Recall
    BY <1>8, <2>1, <2>2 DEF Editor!Recall, Entered
  <2> QED BY <2>1, <2>2, <2>3 DEF Step, Editor!Next
<1>9. CASE Older
  <2>1. historyIndex \in 1 .. Len(history) /\ historyIndex - 1 \in 0 .. Len(history)
    BY <1>9, LenProperties DEF Older, HistInv
  <2> QED BY <1>8, <1>9, <2>1, KeptIs DEF Older
<1>10. CASE Newer
  <2>1. Len(history) \in Nat /\ historyIndex \in 0 .. Len(history)
    BY LenProperties DEF HistInv
  <2>2. historyIndex' \in 0 .. Len(history) /\ historyIndex' = historyIndex + 1
    BY <1>10, <2>1 DEF Newer
  <2>3. CASE historyIndex' = Len(history)
    <3>1. <<>> \in Seq(Chars) /\ Len(<<>>) <= MaxLine
      BY <1>2
    <3>2. SetInputLine(<<>>) /\ UNCHANGED history
      BY <1>10, <2>3 DEF Newer
    <3> QED BY <1>8, <2>2, <3>1, <3>2
  <2>4. CASE historyIndex' # Len(history)
    <3>1. historyIndex' + 1 \in 1 .. Len(history)
      BY <2>1, <2>2, <2>4
    <3>2. SetInputLine(history[historyIndex' + 1]) /\ UNCHANGED history
      BY <1>10, <2>4 DEF Newer
    <3> DEFINE text == history[historyIndex' + 1]
    <3>3. text \in Entered /\ text \in Seq(Chars) /\ Len(text) <= MaxLine
      BY <3>1, KeptIs
    <3> QED BY <1>8, <2>2, <3>2, <3>3
  <2> QED BY <2>3, <2>4
<1>11. CASE Enter
  <2>1. LineInv' /\ Line' = Line /\ cursorPos' = cursorPos
    BY <1>2, <1>11, LineKept DEF Enter, line
  <2>2. HistInv' /\ Entered' = Entered
    BY <1>1, <1>11, HistKept DEF Enter
  <2> QED BY <2>1, <2>2 DEF Step, Editor!vars, Entered
<1>12. cursorPos > 0 => cursorPos - 1 \in 0 .. inputPosition
  BY <1>2
<1>13. cursorPos < inputPosition => cursorPos + 1 \in 0 .. inputPosition
  BY <1>2
<1>14. 0 \in 0 .. inputPosition /\ inputPosition \in 0 .. inputPosition
  BY <1>2
<1> QED BY <1>4, <1>5, <1>6, <1>7, <1>9, <1>10, <1>11, <1>12, <1>13, <1>14 DEF HandleChar

LEMMA Running ==
  ASSUME LineInv, HistInv, Run
  PROVE  LineInv' /\ HistInv' /\ Step
<1>1. LineInv' /\ Line' = <<>> /\ cursorPos' = 0
  BY Emptying DEF Run
<1>2. Line \in Seq(Chars) /\ Len(Line) = inputPosition /\ inputPosition \in 0 .. MaxLine
  BY LineIs DEF LineInv
<1>3. ran' = Append(ran, Line) /\ history' = HistoryAdd(Line) /\ historyIndex' = Len(history')
  BY DEF Run
<1>4. ran' \in Seq(Seq(Chars)) /\ Entered' = Entered \cup {Line}
  BY <1>2, <1>3, EnteredNext
<1>5. Kept' = {t \in Entered' : Len(t) \in 1 .. MaxLine}
  BY DEF Kept
<1>6. Kept \subseteq Kept' /\ (Line # <<>> => Line \in Kept')
  <2>1. Line # <<>> => Len(Line) \in 1 .. MaxLine
    <3>1. Line # <<>> => Len(Line) # 0
      BY <1>2, EmptySeq
    <3> QED BY <1>2, <3>1, LineAssumption
  <2> QED BY <1>4, <1>5, <2>1 DEF Kept
<1>7. history' \in Seq(Kept') /\ Len(history') <= HistMax
  <2>1. Len(Line) <= MaxLine
    BY <1>2, LineAssumption
  <2> QED BY <1>2, <1>3, <1>6, <2>1, HistoryKeeps
<1>8. HistInv'
  <2>1. Len(history') \in 0 .. Len(history')
    BY <1>7, LenProperties
  <2> QED BY <1>3, <1>4, <1>7, <2>1 DEF HistInv
<1>9. Editor!Enter
  BY <1>1, <1>4 DEF Editor!Enter, Entered
<1> QED BY <1>1, <1>8, <1>9 DEF Step, Editor!Next

LEMMA Printing ==
  ASSUME LineInv, HistInv, ReportDhcp \/ PutNext \/ ShowPrompt \/ UNCHANGED vars
  PROVE  LineInv' /\ HistInv' /\ Step
<1>1. HistInv' /\ Entered' = Entered
  BY HistKept DEF ReportDhcp, PutNext, ShowPrompt, vars
<1>2. CASE ReportDhcp \/ PutNext \/ UNCHANGED vars
  <2>1. UNCHANGED <<inputBuffer, inputPosition, cursorPos>>
    BY <1>2 DEF ReportDhcp, PutNext, vars, line
  <2>2. LineInv' /\ Line' = Line
    BY <2>1, LineKept DEF LineInv
  <2> QED BY <1>1, <2>1, <2>2 DEF Step, Editor!vars, Entered
<1>3. CASE ShowPrompt
  <2>1. LineInv' /\ Line' = <<>> /\ cursorPos' = 0
    BY <1>3, Emptying DEF ShowPrompt
  <2>2. Editor!Recall
    BY <1>1, <2>1 DEF Editor!Recall, Entered
  <2> QED BY <1>1, <2>1, <2>2 DEF Step, Editor!Next
<1> QED BY <1>2, <1>3

LEMMA LineStart ==
  Init => LineInv /\ HistInv /\ Editor!Init
<1> SUFFICES ASSUME Init PROVE LineInv /\ HistInv /\ Editor!Init
  OBVIOUS
<1>1. LineInv
  BY LineAssumption DEF Init, LineInv
<1>2. HistInv
  <2>1. <<>> \in Seq(Seq(Chars)) /\ <<>> \in Seq(Kept) /\ Len(<<>>) = 0
    OBVIOUS
  <2> QED BY <2>1, LineAssumption DEF Init, HistInv
<1>3. Line = <<>>
  <2>1. inputPosition = 0 /\ Line \in Seq(Chars) /\ Len(Line) = 0
    BY <1>1, LineIs DEF Init
  <2> QED BY <2>1, EmptySeq
<1>4. Editor!Init
  BY <1>3 DEF Init, Editor!Init
<1> QED BY <1>1, <1>2, <1>4

LEMMA LineSteps ==
  LineInv /\ HistInv /\ [Next]_vars => LineInv' /\ HistInv' /\ Step
  BY Typing, Running, Printing DEF Next

\* handleChar edits the line only at the caret, recall brings back nothing but
\* entered lines, and neither reports nor prompts tear a line: the buffer and the
\* history are the editor of EditedLine (terminal.cpp:813-969).
THEOREM IsEditedLine == Spec => ImplementsEditedLine
<1>1. Init => Editor!Init
  BY LineStart
<1>2. LineInv /\ HistInv /\ [Next]_vars => [Editor!Next]_(Editor!vars)
  BY LineSteps DEF Step
<1> QED BY <1>1, <1>2, LineStart, LineSteps, PTL DEF Spec, ImplementsEditedLine, Editor!Spec

-------------------------------------------------------------------------------
(* The history is recent *)

\* What was last recorded is the last command that was not blank.
EndsIn(lines, cmds) ==
  \/ lines = <<>> /\ \A k \in 1 .. Len(cmds) : cmds[k] = <<>>
  \/ /\ lines # <<>> /\ Last(lines) # <<>>
     /\ \E j \in 1 .. Len(cmds) :
          cmds[j] = Last(lines) /\ \A k \in j + 1 .. Len(cmds) : cmds[k] = <<>>

RecentInv == Recent(history, ran) /\ EndsIn(history, ran)

\* A command comes behind the recorded ones, which stay recorded.
Longer(cmds, cmd, all, n) ==
  /\ n \in Nat /\ Recorded(cmds) \subseteq 1 .. n
  /\ Len(all) = n + 1 /\ all[n + 1] = cmd
  /\ \A i \in 1 .. n : all[i] = cmds[i]
  /\ \A i \in 1 .. n : i \in Recorded(all) <=> i \in Recorded(cmds)
  /\ Recorded(all) \subseteq 1 .. n + 1
  /\ n + 1 \in Recorded(all)
       <=> /\ cmd # <<>>
           /\ ~\E j \in 1 .. n : cmds[j] = cmd /\ \A k \in j + 1 .. n : cmds[k] = <<>>

LEMMA RecordedThen ==
  ASSUME NEW C, NEW cmds \in Seq(C), NEW cmd \in C, NEW n, n = Len(cmds),
         NEW all, all = Append(cmds, cmd)
  PROVE  Longer(cmds, cmd, all, n)
<1>1. /\ all \in Seq(C) /\ Len(all) = n + 1 /\ all[n + 1] = cmd
      /\ \A i \in 1 .. n : all[i] = cmds[i]
  BY AppendProperties
<1>2. n \in Nat /\ DOMAIN cmds = 1 .. n /\ DOMAIN all = 1 .. n + 1
  BY <1>1, LenProperties
<1>3. Recorded(cmds) \subseteq 1 .. n /\ Recorded(all) \subseteq 1 .. n + 1
  BY <1>2 DEF Recorded
<1>4. ASSUME NEW i \in 1 .. n PROVE i \in Recorded(all) <=> i \in Recorded(cmds)
  <2>1. i \in 1 .. n + 1 /\ (\A j \in 1 .. i - 1 : j \in 1 .. n)
        /\ \A j \in 1 .. i - 1 : \A k \in j + 1 .. i - 1 : k \in 1 .. n
    BY <1>2
  <2>2. Repeats(all, i) <=> Repeats(cmds, i)
    BY <1>1, <2>1 DEF Repeats
  <2> QED BY <1>1, <1>2, <2>1, <2>2 DEF Recorded
<1>5. n + 1 \in Recorded(all)
        <=> /\ cmd # <<>>
            /\ ~\E j \in 1 .. n : cmds[j] = cmd /\ \A k \in j + 1 .. n : cmds[k] = <<>>
  <2>1. n + 1 \in 1 .. n + 1 /\ n + 1 - 1 = n
        /\ \A j \in 1 .. n : \A k \in j + 1 .. n : k \in 1 .. n
    BY <1>2
  <2>2. Repeats(all, n + 1)
          <=> \E j \in 1 .. n : all[j] = cmd /\ \A k \in j + 1 .. n : all[k] = <<>>
    <3>1. PICK l : l = n + 1
      OBVIOUS
    <3>2. l - 1 = n /\ all[l] = cmd
      BY <1>1, <2>1, <3>1
    <3>3. Repeats(all, l)
            <=> \E j \in 1 .. n : all[j] = cmd /\ \A k \in j + 1 .. n : all[k] = <<>>
      BY <3>2 DEF Repeats
    <3> QED BY <3>1, <3>3
  <2>3. Repeats(all, n + 1)
          <=> \E j \in 1 .. n : cmds[j] = cmd /\ \A k \in j + 1 .. n : cmds[k] = <<>>
    BY <1>1, <2>1, <2>2
  <2> QED BY <1>1, <1>2, <2>1, <2>3 DEF Recorded
<1> QED BY <1>1, <1>2, <1>3, <1>4, <1>5 DEF Longer

\* historyAdd leaves out what is not to be recorded, and no more.
LEMMA AddsRecorded ==
  ASSUME NEW C, NEW cmds \in Seq(C), NEW cmd, NEW lines, EndsIn(lines, cmds)
  PROVE  (cmd = <<>> \/ (lines # <<>> /\ Last(lines) = cmd))
           <=> \/ cmd = <<>>
               \/ \E j \in 1 .. Len(cmds) :
                    cmds[j] = cmd /\ \A k \in j + 1 .. Len(cmds) : cmds[k] = <<>>
<1> DEFINE n == Len(cmds)
<1>0. n \in Nat
  BY LenProperties
<1> HIDE DEF n
<1>1. CASE lines = <<>> /\ \A k \in 1 .. n : cmds[k] = <<>>
  BY <1>1 DEF n
<1>2. CASE /\ lines # <<>> /\ Last(lines) # <<>>
           /\ \E j \in 1 .. n :
                cmds[j] = Last(lines) /\ \A k \in j + 1 .. n : cmds[k] = <<>>
  <2>1. PICK j \in 1 .. n : cmds[j] = Last(lines) /\ \A k \in j + 1 .. n : cmds[k] = <<>>
    BY <1>2
  <2>2. ASSUME NEW i \in 1 .. n, cmd # <<>>, cmds[i] = cmd, \A k \in i + 1 .. n : cmds[k] = <<>>
        PROVE  Last(lines) = cmd
    <3> DEFINE last == Last(lines)
    <3> HIDE DEF last
    <3>1. cmds[j] = last /\ last # <<>>
      BY <1>2, <2>1 DEF last
    <3>2. i = j \/ i \in j + 1 .. n \/ j \in i + 1 .. n
      BY <1>0
    <3> QED BY <2>1, <2>2, <3>1, <3>2 DEF last
  <2> QED BY <1>2, <2>1, <2>2 DEF n
<1> QED BY <1>1, <1>2 DEF EndsIn, n

\* How many of a set of numbers lie behind each of them, when one is added at the end.
OneMore(R, Q, top) ==
  /\ Cardinality(R) \in Nat /\ Cardinality(Q) = Cardinality(R) + 1
  /\ \A i \in R : /\ Above(R, i) \in Nat /\ Above(R, i) < Cardinality(R)
                  /\ Above(Q, i) = Above(R, i) + 1
  /\ Above(Q, top) = 0

LEMMA OneBehind ==
  ASSUME NEW n \in Nat, NEW R, R \subseteq 1 .. n, NEW Q, Q = R \cup {n + 1}
  PROVE  OneMore(R, Q, n + 1)
<1>1. IsFiniteSet(R)
  <2>1. IsFiniteSet(1 .. n)
    BY FS_Interval
  <2> QED BY <2>1, FS_Subset
<1>2. n + 1 \notin R /\ (\A i \in R : n + 1 > i) /\ \A j \in Q : ~(j > n + 1)
  OBVIOUS
<1>3. Cardinality(R) \in Nat /\ Cardinality(Q) = Cardinality(R) + 1
  BY <1>1, <1>2, FS_AddElement, FS_CardinalityType
<1>4. ASSUME NEW i \in R
      PROVE  /\ Above(R, i) \in Nat /\ Above(R, i) < Cardinality(R)
             /\ Above(Q, i) = Above(R, i) + 1
  <2> DEFINE B == {j \in R : j > i}
             C == {j \in Q : j > i}
  <2>1. ~(i > i)
    OBVIOUS
  <2>2. B \in SUBSET R /\ i \notin B /\ n + 1 \notin B /\ C = B \cup {n + 1}
    BY <1>2, <2>1
  <2> HIDE DEF B, C
  <2>3. IsFiniteSet(B) /\ Cardinality(B) <= Cardinality(R)
        /\ (Cardinality(R) = Cardinality(B) => R = B)
    BY <1>1, <2>2, FS_Subset
  <2>4. Cardinality(B) \in Nat /\ Cardinality(C) = Cardinality(B) + 1
    BY <2>2, <2>3, FS_AddElement, FS_CardinalityType
  <2>5. Cardinality(B) # Cardinality(R)
    BY <2>2, <2>3
  <2>6. Cardinality(B) < Cardinality(R)
    BY <1>3, <2>3, <2>4, <2>5
  <2>7. Above(R, i) = Cardinality(B) /\ Above(Q, i) = Cardinality(C)
    BY DEF Above, B, C
  <2> QED BY <2>4, <2>6, <2>7
<1>5. {j \in Q : j > n + 1} = {}
  BY <1>2
<1>6. Above(Q, n + 1) = 0
  BY <1>5, FS_EmptySet DEF Above
<1> QED BY <1>3, <1>4, <1>6 DEF OneMore

\* A history that holds the last of the recorded commands does so when one more comes.
Grown(lines, cmd) ==
  IF Len(lines) < HistMax THEN Append(lines, cmd) ELSE Append(Tail(lines), cmd)
Added(lines, cmd) ==
  IF cmd = <<>> \/ (lines # <<>> /\ Last(lines) = cmd) THEN lines ELSE Grown(lines, cmd)

Recording(cmds, cmd, all, n) ==
  /\ Recorded(cmds) \subseteq 1 .. n /\ Recorded(all) = Recorded(cmds) \cup {n + 1}
  /\ all[n + 1] = cmd /\ \A i \in 1 .. n : all[i] = cmds[i]

LEMMA RecentThen ==
  ASSUME NEW S, NEW lines \in Seq(S), NEW cmd \in S, NEW more, NEW cmds, NEW all,
         NEW n \in Nat, Recording(cmds, cmd, all, n),
         Recent(lines, cmds), more = Grown(lines, cmd)
  PROVE  Recent(more, all) /\ more # <<>> /\ Last(more) = cmd
<1>m. PICK m : m = Len(lines)
  OBVIOUS
<1>r. /\ Recorded(cmds) \subseteq 1 .. n /\ Recorded(all) = Recorded(cmds) \cup {n + 1}
      /\ all[n + 1] = cmd /\ \A i \in 1 .. n : all[i] = cmds[i]
  BY DEF Recording
<1>n. more = IF m < HistMax THEN Append(lines, cmd) ELSE Append(Tail(lines), cmd)
  BY <1>m DEF Grown
<1> DEFINE R == Recorded(cmds)
           Q == Recorded(all)
           c == Cardinality(R)
           d == Cardinality(Q)
           since(i) == Above(R, i)
           then(i) == Above(Q, i)
<1>1. /\ m = IF c < HistMax THEN c ELSE HistMax
      /\ \A i \in R : since(i) < HistMax => lines[m - since(i)] = cmds[i]
  BY <1>m DEF Recent
<1>2. R \subseteq 1 .. n /\ Q = R \cup {n + 1}
  BY <1>r
<1>a. HistMax \in Nat \ {0} /\ m \in Nat
  BY <1>m, LineAssumption, LenProperties
<1> HIDE DEF R, Q
<1>3. /\ c \in Nat /\ d = c + 1 /\ then(n + 1) = 0
      /\ \A i \in R : since(i) \in Nat /\ since(i) < c /\ then(i) = since(i) + 1
  <2>1. OneMore(R, Q, n + 1)
    BY <1>2, OneBehind
  <2> QED BY <2>1, Zenon DEF OneMore
<1> HIDE DEF c, d, since, then
<1>4. ASSUME NEW i \in R PROVE cmds[i] = all[i]
  BY <1>2, <1>r
<1> DEFINE l == Len(more)
<1>5. ASSUME NEW t, t \in Seq(S), more = Append(t, cmd)
      PROVE  l = Len(t) + 1 /\ more[l] = cmd /\ more # <<>> /\ Last(more) = cmd
             /\ \A i \in 1 .. Len(t) : more[i] = t[i]
  <2>1. l = Len(t) + 1 /\ more[Len(t) + 1] = cmd /\ \A i \in 1 .. Len(t) : more[i] = t[i]
    <3>1. PICK e : e = Append(t, cmd)
      OBVIOUS
    <3>2. Len(e) = Len(t) + 1 /\ e[Len(t) + 1] = cmd /\ \A i \in 1 .. Len(t) : e[i] = t[i]
      BY <1>5, <3>1, AppendProperties
    <3> QED BY <1>5, <3>1, <3>2, Zenon
  <2>2. more # <<>>
    BY <1>5, AppendProperties
  <2> QED BY <2>1, <2>2 DEF Last
<1>6. /\ more # <<>> /\ Last(more) = cmd /\ more[l] = cmd
      /\ l = IF d < HistMax THEN d ELSE HistMax
      /\ \A i \in R : then(i) < HistMax => more[l - then(i)] = cmds[i]
  <2>1. CASE m < HistMax
    <3>1. more = Append(lines, cmd)
      BY <2>1, <1>n
    <3>2. /\ l = m + 1 /\ more[l] = cmd /\ more # <<>> /\ Last(more) = cmd
          /\ \A i \in 1 .. m : more[i] = lines[i]
      BY <3>1, <1>5, <1>m
    <3> HIDE DEF l
    <3>3. c = m /\ m + 1 = IF d < HistMax THEN d ELSE HistMax
      BY <1>1, <1>3, <1>a, <2>1
    <3>4. ASSUME NEW i \in R PROVE more[l - then(i)] = cmds[i]
      <4>1. PICK u : u = m - since(i)
        OBVIOUS
      <4>2. l - then(i) = u /\ u \in 1 .. m /\ since(i) < HistMax
        BY <4>1, <1>3, <1>a, <2>1, <3>2, <3>3
      <4>3. lines[u] = cmds[i]
        BY <4>1, <4>2, <1>1
      <4> QED BY <4>2, <4>3, <3>2
    <3> QED BY <3>2, <3>3, <3>4
  <2>2. CASE ~(m < HistMax)
    <3>1. m = HistMax /\ c >= HistMax
      BY <1>1, <1>3, <1>a, <2>2
    <3>2. lines # <<>>
      BY <3>1, <1>a, <1>m
    <3> DEFINE t == Tail(lines)
    <3>3. t \in Seq(S) /\ Len(t) = m - 1 /\ \A i \in 1 .. m - 1 : t[i] = lines[i + 1]
      BY <3>2, <1>m, HeadTailProperties
    <3>4. more = Append(t, cmd)
      BY <2>2, <1>n
    <3> HIDE DEF t
    <3>5. /\ l = m - 1 + 1 /\ more[l] = cmd /\ more # <<>> /\ Last(more) = cmd
          /\ \A i \in 1 .. m - 1 : more[i] = t[i]
      BY <3>3, <3>4, <1>5
    <3> HIDE DEF l
    <3>6. m - 1 + 1 = IF d < HistMax THEN d ELSE HistMax
      BY <3>1, <1>3, <1>a
    <3>7. ASSUME NEW i \in R, then(i) < HistMax PROVE more[l - then(i)] = cmds[i]
      <4>1. PICK u : u = m - since(i)
        OBVIOUS
      <4>2. PICK v : v = l - then(i)
        OBVIOUS
      <4>3. v \in 1 .. m - 1 /\ v + 1 = u /\ since(i) < HistMax
        BY <4>1, <4>2, <1>3, <1>a, <3>1, <3>5, <3>7
      <4>4. lines[u] = cmds[i]
        BY <4>1, <4>3, <1>1
      <4> QED BY <4>2, <4>3, <4>4, <3>3, <3>5
    <3> QED BY <3>5, <3>6, <3>7
  <2> QED BY <2>1, <2>2
<1>7. ASSUME NEW i \in Q, then(i) < HistMax PROVE more[l - then(i)] = all[i]
  <2>1. CASE i \in R
    BY <1>4, <1>6, <1>7, <2>1
  <2>2. CASE i = n + 1
    <3>1. l \in Nat /\ l - 0 = l
      BY <1>6, <1>3, <1>a
    <3> HIDE DEF l
    <3> QED BY <2>2, <3>1, <1>3, <1>6, <1>r
  <2> QED BY <1>2, <2>1, <2>2
<1>8. Recent(more, all)
  BY <1>6, <1>7 DEF Recent, Q, d, then, l
<1> QED BY <1>6, <1>8

LEMMA RecentMore ==
  ASSUME NEW C, NEW cmds \in Seq(C), NEW cmd \in C, NEW lines \in Seq(C),
         NEW all, all = Append(cmds, cmd), NEW more, more = Added(lines, cmd),
         Recent(lines, cmds), EndsIn(lines, cmds)
  PROVE  Recent(more, all) /\ EndsIn(more, all)
<1> DEFINE n == Len(cmds)
           l == n + 1
           R == Recorded(cmds)
           Q == Recorded(all)
<1>1. Longer(cmds, cmd, all, n)
  BY RecordedThen
<1>2. (cmd = <<>> \/ (lines # <<>> /\ Last(lines) = cmd))
        <=> \/ cmd = <<>>
            \/ \E j \in 1 .. n : cmds[j] = cmd /\ \A k \in j + 1 .. n : cmds[k] = <<>>
  BY AddsRecorded
<1>3. (cmd = <<>> \/ (lines # <<>> /\ Last(lines) = cmd)) <=> l \notin Q
  BY <1>1, <1>2, Zenon DEF Longer
<1>4. more = IF l \notin Q THEN lines ELSE Grown(lines, cmd)
  BY <1>3, Zenon DEF Added
<1>5. /\ n \in Nat /\ R \subseteq 1 .. n /\ Len(all) = l /\ all[l] = cmd
      /\ \A i \in 1 .. n : all[i] = cmds[i]
      /\ \A i \in 1 .. n : i \in Q <=> i \in R
      /\ Q \subseteq 1 .. l
  BY <1>1, Zenon DEF Longer
<1>6. l \in Q => cmd # <<>>
  BY <1>3
<1> HIDE DEF n
<1>7. l = n + 1 /\ l \in Nat /\ l \in 1 .. l /\ (\A k \in l + 1 .. l : FALSE)
      /\ (\A k \in 1 .. l : k \in 1 .. n \/ k = l) /\ 1 .. n \subseteq 1 .. l
      /\ \A j \in 1 .. n : \A k \in j + 1 .. n : k \in 1 .. n
  BY <1>5
<1> HIDE DEF l, R, Q
<1>8. CASE l \notin Q
  <2>1. more = lines /\ Q = R
    BY <1>4, <1>5, <1>7, <1>8
  <2>2. \A i \in R : all[i] = cmds[i]
    BY <1>5
  <2>3. Recent(more, all)
    BY <2>1, <2>2 DEF Recent, R, Q
  <2>4. EndsIn(more, all)
    <3>1. cmd = <<>> \/ (lines # <<>> /\ Last(lines) = cmd)
      BY <1>3, <1>8
    <3>2. CASE lines = <<>> /\ \A k \in 1 .. n : cmds[k] = <<>>
      <4>1. \A k \in 1 .. l : all[k] = <<>>
        BY <3>1, <3>2, <1>5, <1>7
      <4> QED BY <4>1, <3>2, <2>1, <1>5 DEF EndsIn
    <3>3. ASSUME lines # <<>>, Last(lines) # <<>>, NEW j \in 1 .. n,
                 cmds[j] = Last(lines), \A k \in j + 1 .. n : cmds[k] = <<>>
          PROVE  EndsIn(more, all)
      <4>1. PICK last : last = Last(lines)
        OBVIOUS
      <4>2. \E m \in 1 .. l : all[m] = last /\ \A k \in m + 1 .. l : all[k] = <<>>
        <5>1. CASE cmd = <<>>
          <6>1. j \in 1 .. l /\ \A k \in j + 1 .. l : k \in j + 1 .. n \/ k = l
            BY <1>5, <1>7
          <6>2. all[j] = last /\ \A k \in j + 1 .. l : all[k] = <<>>
            BY <3>3, <4>1, <5>1, <6>1, <1>5, <1>7
          <6> QED BY <6>1, <6>2
        <5>2. CASE last = cmd
          BY <5>2, <1>5, <1>7
        <5> QED BY <3>1, <4>1, <5>1, <5>2
      <4> QED BY <3>3, <4>1, <4>2, <2>1, <1>5, Zenon DEF EndsIn
    <3> QED BY <3>2, <3>3, Zenon DEF EndsIn, n
  <2> QED BY <2>3, <2>4
<1>9. CASE l \in Q
  <2>1. Q = R \cup {n + 1}
    BY <1>5, <1>7, <1>9
  <2>2. more = Grown(lines, cmd)
    BY <1>4, <1>9
  <2>3. /\ R \subseteq 1 .. n /\ n \in Nat /\ all[n + 1] = cmd
        /\ \A i \in 1 .. n : all[i] = cmds[i]
    BY <1>5, <1>7
  <2>4. Recent(more, all) /\ more # <<>> /\ Last(more) = cmd
    <3>1. Recording(cmds, cmd, all, n) /\ n \in Nat
      BY <2>1, <2>3, Zenon DEF R, Q, Recording
    <3> QED BY <2>2, <3>1, RecentThen
  <2>5. cmd # <<>>
    BY <1>6, <1>9
  <2>6. \E m \in 1 .. l : all[m] = cmd /\ \A k \in m + 1 .. l : all[k] = <<>>
    BY <1>5, <1>7
  <2>7. EndsIn(more, all)
    BY <2>4, <2>5, <2>6, <1>5, Zenon DEF EndsIn
  <2> QED BY <2>4, <2>7
<1> QED BY <1>8, <1>9

LEMMA RecentRun ==
  ASSUME RecentInv, LineInv, HistInv, Run
  PROVE  RecentInv'
<1>1. Line \in Seq(Chars) /\ ran' = Append(ran, Line) /\ history' = HistoryAdd(Line)
  BY LineIs DEF Run
<1>2. HistoryAdd(Line) = Added(history, Line)
  BY DEF HistoryAdd, Added, Grown
<1>3. ran \in Seq(Seq(Chars)) /\ history \in Seq(Seq(Chars))
  <2>1. Kept \subseteq Seq(Chars)
    BY EnteredIs DEF Kept
  <2> QED BY <2>1, SeqMonotonic DEF HistInv
<1> DEFINE C == Seq(Chars)
<1>4. PICK cmd, cmds, all, lines, more :
        cmd = Line /\ cmds = ran /\ all = ran' /\ lines = history /\ more = history'
  OBVIOUS
<1>5. /\ cmds \in Seq(C) /\ cmd \in C /\ lines \in Seq(C)
      /\ all = Append(cmds, cmd) /\ more = Added(lines, cmd)
  BY <1>1, <1>2, <1>3, <1>4
<1> HIDE DEF C
<1>6. Recent(lines, cmds) /\ EndsIn(lines, cmds)
  BY <1>4 DEF RecentInv
<1>7. Recent(more, all) /\ EndsIn(more, all)
  BY <1>5, <1>6, RecentMore
<1>8. RecentInv' <=> Recent(history', ran') /\ EndsIn(history', ran')
  BY DEF RecentInv, Recent, EndsIn, Recorded, Repeats
<1> QED BY <1>4, <1>7, <1>8

LEMMA RecentSteps ==
  ASSUME RecentInv, LineInv, HistInv, [Next]_vars
  PROVE  RecentInv'
<1>1. CASE Run
  BY <1>1, RecentRun
<1>2. CASE HandleChar \/ ReportDhcp \/ PutNext \/ ShowPrompt \/ UNCHANGED vars
  <2>1. UNCHANGED <<history, ran>>
    BY <1>2 DEF HandleChar, Insert, Backspace, Delete, Cut, Move, Older, Newer, Enter,
                ReportDhcp, PutNext, ShowPrompt, vars, recall
  <2>2. RecentInv' <=> Recent(history', ran') /\ EndsIn(history', ran')
    BY DEF RecentInv, Recent, EndsIn, Recorded, Repeats
  <2> QED BY <2>1, <2>2 DEF RecentInv
<1> QED BY <1>1, <1>2 DEF Next

LEMMA RecentStart ==
  Init => RecentInv
<1> SUFFICES ASSUME Init PROVE RecentInv
  OBVIOUS
<1>1. history = <<>> /\ ran = <<>> /\ Len(<<>>) = 0 /\ 1 .. 0 = {} /\ DOMAIN <<>> = {}
  BY DEF Init
<1>2. Recorded(ran) = {}
  BY <1>1 DEF Recorded
<1>3. Cardinality(Recorded(ran)) = 0 /\ 0 < HistMax
  BY <1>2, FS_EmptySet, LineAssumption
<1>4. Recent(history, ran)
  BY <1>1, <1>2, <1>3 DEF Recent
<1> QED BY <1>1, <1>4 DEF RecentInv, EndsIn

\* What the arrows bring back is what was entered last: the history holds the
\* last HistMax commands in their order, without the blank ones and the immediate
\* repetitions, whatever was recalled and typed in between (historyAdd,
\* terminal.cpp).
THEOREM HistoryStaysRecent == Spec => []HistoryIsRecent
<1> DEFINE J == LineInv /\ HistInv /\ RecentInv
<1>1. Init => J
  BY LineStart, RecentStart
<1>2. J /\ [Next]_vars => J'
  BY LineSteps, RecentSteps
<1>3. J => HistoryIsRecent
  BY DEF RecentInv, HistoryIsRecent
<1> QED BY <1>1, <1>2, <1>3, PTL DEF Spec

-------------------------------------------------------------------------------
(* The screen *)

Glyph == Chars \cup {Blank}
Screen == [cells : [Cell -> Glyph], x : 0 .. W, y : 0 .. H - 1]

\* A column of a row is a cell, and a cell is in a column of a row.
LEMMA RowColumn ==
  ASSUME NEW w \in Nat \ {0}, NEW h \in Nat \ {0}, NEW x \in 0 .. w - 1, NEW y \in 0 .. h - 1
  PROVE  y * w + x \in 0 .. w * h - 1
<1>1. y * w <= (h - 1) * w
  OBVIOUS
<1>2. (h - 1) * w = w * h - w
  OBVIOUS
<1>3. y * w \in Nat /\ w * h \in Nat
  OBVIOUS
<1> QED BY <1>1, <1>2, <1>3

LEMMA CellIs ==
  ASSUME NEW w \in Nat \ {0}, NEW h \in Nat \ {0}, NEW i \in 0 .. w * h - 1
  PROVE  i % w \in 0 .. w - 1 /\ i \div w \in 0 .. h - 1
<1>1. i \in Nat /\ w \in Nat /\ w > 0 /\ w * h \in Nat
  OBVIOUS
<1>2. i % w \in 0 .. w - 1
  BY <1>1
<1>3. i \div w \in Nat
  BY <1>1
<1>4. i >= w * (i \div w)
  BY <1>1
<1>5. \A q \in Nat : q >= h => w * q >= w * h
  OBVIOUS
<1> QED BY <1>1, <1>2, <1>3, <1>4, <1>5

\* A set of numbers below a bound has a largest.
LEMMA Largest ==
  ASSUME NEW n \in Nat, NEW S, S \subseteq 0 .. n, S # {}
  PROVE  \E i \in S : \A k \in S : k <= i
<1> DEFINE R == StrictSubsetOrdering(0 .. n)
           Over(i) == {k \in S : i < k}
           T == {Over(i) : i \in S}
<1>1. T \subseteq SUBSET (0 .. n) /\ T # {}
  OBVIOUS
<1>2. IsWellFoundedOn(R, SUBSET (0 .. n))
  <2>1. IsFiniteSet(0 .. n)
    BY FS_Interval
  <2> QED BY <2>1, FS_FiniteSubsetsOfFinite, FS_StrictSubsetOrderingWellFounded
<1> HIDE DEF R, T
<1>3. PICK x \in T : \A y \in T : ~(<<y, x>> \in R)
  BY <1>1, <1>2, WFMin
<1>4. PICK i \in S : x = Over(i)
  BY <1>3 DEF T
<1>5. ASSUME NEW k \in S, i < k PROVE FALSE
  <2>1. Over(k) \in T
    BY DEF T
  <2>2. (\A j \in S : k < j => i < j) /\ ~(k < k)
    BY <1>5
  <2>3. Over(k) \subseteq Over(i) /\ k \in Over(i) /\ k \notin Over(k)
    BY <1>5, <2>2, Zenon
  <2>4. Over(k) \in SUBSET (0 .. n) /\ Over(i) \in SUBSET (0 .. n)
    OBVIOUS
  <2> HIDE DEF Over
  <2>5. <<Over(k), Over(i)>> \in R
    BY <2>3, <2>4 DEF R, StrictSubsetOrdering
  <2> QED BY <1>3, <1>4, <2>1, <2>5
<1> QED BY <1>5

LEMMA NextLineIs ==
  ASSUME NEW s \in Screen
  PROVE  NextLine(s) \in Screen /\ NextLine(s).x = 0
<1>1. W \in Nat \ {0} /\ H \in Nat \ {0} /\ 0 \in 0 .. W /\ H - 1 \in 0 .. H - 1
  BY ScreenAssumption
<1>2. CASE s.y + 1 >= H
  <2> DEFINE f == [j \in Cell |-> IF j + W \in Cell THEN s.cells[j + W] ELSE Blank]
  <2>1. f \in [Cell -> Glyph]
    BY DEF Screen, Glyph
  <2> HIDE DEF f
  <2>2. [cells |-> f, x |-> 0, y |-> H - 1] \in Screen
    BY <1>1, <2>1 DEF Screen
  <2>3. NextLine(s) = [cells |-> f, x |-> 0, y |-> H - 1]
    BY <1>2 DEF NextLine, Scrolled, f
  <2> QED BY <2>2, <2>3
<1>3. CASE ~(s.y + 1 >= H)
  <2>1. NextLine(s) = [s EXCEPT !.x = 0, !.y = s.y + 1]
    BY <1>3 DEF NextLine
  <2>2. s.y + 1 \in 0 .. H - 1
    BY <1>1, <1>3 DEF Screen
  <2> QED BY <1>1, <2>1, <2>2 DEF Screen
<1> QED BY <1>2, <1>3

LEMMA PutCharIs ==
  ASSUME NEW s \in Screen, NEW c \in Chars \cup {Blank, Newline}
  PROVE  PutChar(s, c) \in Screen
<1>1. CASE c = Newline
  BY <1>1, NextLineIs DEF PutChar
<1>2. CASE c # Newline
  <2> DEFINE t == IF s.x >= W THEN NextLine(s) ELSE s
  <2>1. t \in Screen /\ t.x \in 0 .. W - 1
    <3>1. s.x \in 0 .. W /\ 0 \in 0 .. W - 1 /\ (~(s.x >= W) => s.x \in 0 .. W - 1)
      BY ScreenAssumption DEF Screen
    <3> QED BY <3>1, NextLineIs
  <2> HIDE DEF t
  <2>2. t.y \in 0 .. H - 1 /\ t.cells \in [Cell -> Glyph]
    BY <2>1 DEF Screen
  <2> DEFINE f == [t.cells EXCEPT ![t.y * W + t.x] = c]
  <2>3. f \in [Cell -> Glyph]
    BY <1>2, <2>2 DEF Glyph
  <2>4. t.x + 1 \in 0 .. W
    BY <2>1, ScreenAssumption
  <2>5. PutChar(s, c) = [t EXCEPT !.cells = f, !.x = t.x + 1]
    BY <1>2, <2>1 DEF PutChar, t, Screen
  <2> HIDE DEF f
  <2> QED BY <2>1, <2>3, <2>4, <2>5 DEF Screen
<1> QED BY <1>1, <1>2

LEMMA PlacedIs ==
  ASSUME NEW s \in Screen, NEW idx \in Nat
  PROVE  Placed(s, idx) \in Screen
<1> DEFINE i == IF idx > W * H - 1 THEN W * H - 1 ELSE idx
<1>1. W * H \in Nat \ {0}
  BY ScreenAssumption
<1>2. i \in 0 .. W * H - 1
  BY <1>1
<1> HIDE DEF i
<1>3. i % W \in 0 .. W - 1 /\ i \div W \in 0 .. H - 1
  BY <1>2, ScreenAssumption, CellIs
<1>4. 0 .. W - 1 \subseteq 0 .. W
  BY ScreenAssumption
<1>5. Placed(s, idx) = [s EXCEPT !.x = i % W, !.y = i \div W]
  BY DEF Placed, i
<1> DEFINE u == i % W
           v == i \div W
<1>6. u \in 0 .. W /\ v \in 0 .. H - 1 /\ Placed(s, idx) = [s EXCEPT !.x = u, !.y = v]
  BY <1>3, <1>4, <1>5
<1> HIDE DEF u, v
<1> QED BY <1>6 DEF Screen

\* However many glyphs come to lie on a cell, one is the last.
LEMMA DrawnIs ==
  ASSUME NEW cells \in [Cell -> Glyph], NEW base \in Nat, NEW n \in Nat, NEW D,
         D \subseteq 0 .. n, NEW glyphs \in [D -> Glyph]
  PROVE  Drawn(cells, base, glyphs) \in [Cell -> Glyph]
<1> DEFINE Here(j) == {i \in DOMAIN glyphs : Target(base + i) = j}
           last(j) == CHOOSE i \in Here(j) : \A k \in Here(j) : k <= i
           at1(j) == IF Here(j) = {} THEN cells[j] ELSE glyphs[last(j)]
<1>1. ASSUME NEW j \in Cell PROVE at1(j) \in Glyph
  <2>1. CASE Here(j) = {}
    BY <2>1
  <2>2. CASE Here(j) # {}
    <3>1. Here(j) \subseteq D
      OBVIOUS
    <3> HIDE DEF Here
    <3>2. \E i \in Here(j) : \A k \in Here(j) : k <= i
      BY <2>2, <3>1, Largest
    <3>3. last(j) \in Here(j)
      BY <3>2, Zenon
    <3> HIDE DEF last
    <3> QED BY <2>2, <3>1, <3>3
  <2> QED BY <2>1, <2>2
<1>2. Drawn(cells, base, glyphs) = [j \in Cell |-> at1(j)]
  BY DEF Drawn
<1> HIDE DEF at1
<1> QED BY <1>1, <1>2

LEMMA DrawIs ==
  ASSUME NEW s \in Screen, NEW base \in Nat, NEW n \in Nat, NEW D,
         D \subseteq 0 .. n, NEW glyphs \in [D -> Glyph], NEW idx \in Nat
  PROVE  Placed([s EXCEPT !.cells = Drawn(s.cells, base, glyphs)], idx) \in Screen
<1>1. s.cells \in [Cell -> Glyph]
  BY DEF Screen
<1> DEFINE f == Drawn(s.cells, base, glyphs)
<1>2. f \in [Cell -> Glyph]
  BY <1>1, DrawnIs
<1> HIDE DEF f
<1>3. [s EXCEPT !.cells = f] \in Screen
  BY <1>2 DEF Screen
<1> QED BY <1>3, PlacedIs DEF f

ScreenInv ==
  /\ vga \in Screen /\ out \in Text /\ commandReady \in BOOLEAN
  /\ inputStartX \in 0 .. W /\ inputStartY \in 0 .. H - 1

LEMMA BaseIs ==
  ASSUME ScreenInv
  PROVE  Base \in Nat
<1>1. inputStartY \in Nat /\ inputStartX \in Nat /\ W \in Nat
  BY ScreenAssumption DEF ScreenInv
<1> QED BY <1>1 DEF Base

LEMMA RedrawIs ==
  ASSUME ScreenInv, NEW b, NEW n \in Nat, NEW from \in Nat, NEW caret \in Nat,
         \A i \in 0 .. n - 1 : b[i] \in Chars
  PROVE  Redraw(from, b, n, caret) \in Screen
<1> DEFINE glyphs == [i \in from .. n |-> IF i < n THEN b[i] ELSE Blank]
<1>1. \A i \in from .. n : i < n => i \in 0 .. n - 1
  OBVIOUS
<1>2. glyphs \in [from .. n -> Glyph]
  BY <1>1 DEF Glyph
<1>3. from .. n \subseteq 0 .. n
  OBVIOUS
<1>4. Base \in Nat /\ Base + caret \in Nat
  BY BaseIs
<1>5. Redraw(from, b, n, caret)
        = Placed([vga EXCEPT !.cells = Drawn(vga.cells, Base, glyphs)], Base + caret)
  BY DEF Redraw
<1>6. vga \in Screen
  BY DEF ScreenInv
<1> DEFINE D == from .. n
<1>7. D \subseteq 0 .. n /\ glyphs \in [D -> Glyph]
  BY <1>2, <1>3
<1> HIDE DEF glyphs, D
<1> QED BY <1>4, <1>5, <1>6, <1>7, DrawIs

LEMMA RecallDraws ==
  ASSUME ScreenInv, inputPosition \in Nat, NEW text \in Seq(Chars), SetInputLine(text)
  PROVE  vga' \in Screen
<1> DEFINE all    == IF Len(text) < inputPosition THEN inputPosition ELSE Len(text)
           glyphs == [i \in 0 .. all - 1 |-> IF i < Len(text) THEN text[i + 1] ELSE Blank]
<1>1. Len(text) \in Nat /\ all \in Nat
  BY LenProperties
<1>2. \A i \in 0 .. all - 1 : i < Len(text) => text[i + 1] \in Chars
  <2> SUFFICES ASSUME NEW i \in 0 .. all - 1, i < Len(text) PROVE text[i + 1] \in Chars
    OBVIOUS
  <2>1. i + 1 \in 1 .. Len(text)
    BY <1>1
  <2> QED BY <2>1, ElementOfSeq
<1>3. glyphs \in [0 .. all - 1 -> Glyph]
  BY <1>2 DEF Glyph
<1>4. vga' = Placed([vga EXCEPT !.cells = Drawn(vga.cells, Base, glyphs)], Base + Len(text))
  BY DEF SetInputLine
<1> HIDE DEF all, glyphs
<1>5. 0 .. all - 1 \subseteq 0 .. all
  BY <1>1
<1>6. Base \in Nat /\ Base + Len(text) \in Nat
  BY <1>1, BaseIs
<1> QED BY <1>1, <1>3, <1>4, <1>5, <1>6, DrawIs DEF ScreenInv

\* The texts that are printed.
LEMMA TextIs ==
  /\ Prompt \in Text
  /\ \A o \in {Banner, Report, <<Newline>>} \cup Outputs : o \o Prompt \in Text
<1>1. Prompt \in Text /\ \A o \in {Banner, Report} \cup Outputs : o \in Text
  BY TextAssumption
<1>2. <<Newline>> \in Text
  BY DEF Text
<1> QED BY <1>1, <1>2, ConcatProperties DEF Text

LEMMA KeyDraws ==
  ASSUME ScreenInv, LineInv, HistInv, HandleChar, LineInv'
  PROVE  ScreenInv'
<1>1. UNCHANGED <<inputStartX, inputStartY, out>>
  BY DEF HandleChar, start
<1>2. inputPosition \in Nat /\ cursorPos \in Nat /\ inputPosition' \in Nat /\ cursorPos' \in Nat
      /\ Base \in Nat
  BY LineAssumption, BaseIs DEF LineInv
<1>3. \A i \in 0 .. inputPosition' - 1 : inputBuffer'[i] \in Chars
  BY DEF LineInv
<1>4. ASSUME vga' \in Screen, UNCHANGED commandReady PROVE ScreenInv'
  BY <1>1, <1>4 DEF ScreenInv
<1>5. ASSUME NEW c \in Typed, Insert(c) PROVE ScreenInv'
  <2>1. vga' = Redraw(cursorPos, inputBuffer', inputPosition', cursorPos') /\ UNCHANGED commandReady
    BY <1>5 DEF Insert
  <2> QED BY <2>1, <1>2, <1>3, <1>4, RedrawIs
<1>6. ASSUME NEW p, NEW caret \in Nat, Cut(p, caret) PROVE ScreenInv'
  <2>1. vga' = Redraw(caret, inputBuffer', inputPosition', caret) /\ UNCHANGED commandReady
    BY <1>6 DEF Cut
  <2> QED BY <2>1, <1>2, <1>3, <1>4, RedrawIs
<1>7. CASE Backspace
  <2>1. cursorPos - 1 \in Nat
    BY <1>2, <1>7 DEF Backspace
  <2> QED BY <1>6, <1>7, <2>1 DEF Backspace
<1>8. CASE Delete
  BY <1>2, <1>6, <1>8 DEF Delete
<1>9. ASSUME NEW caret \in Nat, Move(caret) PROVE ScreenInv'
  <2>1. Base + caret \in Nat
    BY <1>2
  <2>2. vga' = Placed(vga, Base + caret) /\ UNCHANGED commandReady
    BY <1>9 DEF Move
  <2> QED BY <2>1, <2>2, <1>4, PlacedIs DEF ScreenInv
<1>10. CASE Older
  <2>1. historyIndex \in 1 .. Len(history)
    BY <1>10, LenProperties DEF Older, HistInv
  <2>2. SetInputLine(history[historyIndex]) /\ UNCHANGED commandReady
    BY <1>10 DEF Older
  <2> QED BY <1>2, <1>4, <2>1, <2>2, KeptIs, RecallDraws
<1>11. CASE Newer
  <2> DEFINE text == IF historyIndex' = Len(history) THEN <<>> ELSE history[historyIndex' + 1]
  <2>1. text \in Seq(Chars)
    <3>1. Len(history) \in Nat /\ historyIndex \in 0 .. Len(history)
      BY LenProperties DEF HistInv
    <3>2. historyIndex' # Len(history) => historyIndex' + 1 \in 1 .. Len(history)
      BY <1>11, <3>1 DEF Newer
    <3>3. <<>> \in Seq(Chars)
      OBVIOUS
    <3> QED BY <3>2, <3>3, KeptIs
  <2>2. SetInputLine(text) /\ UNCHANGED commandReady
    BY <1>11 DEF Newer
  <2> HIDE DEF text
  <2> QED BY <1>2, <1>4, <2>1, <2>2, RecallDraws
<1>12. CASE Enter
  <2>1. Base + inputPosition \in Nat
    BY <1>2
  <2>2. vga' \in Screen
    BY <1>12, <2>1, PlacedIs DEF Enter, ScreenInv
  <2>3. commandReady' \in BOOLEAN
    BY <1>12 DEF Enter
  <2> QED BY <1>1, <2>2, <2>3 DEF ScreenInv
<1>13. cursorPos > 0 /\ Move(cursorPos - 1) => ScreenInv'
  <2>1. cursorPos > 0 => cursorPos - 1 \in Nat
    BY <1>2
  <2> QED BY <2>1, <1>9
<1>14. Move(cursorPos + 1) \/ Move(0) \/ Move(inputPosition) => ScreenInv'
  <2>1. cursorPos + 1 \in Nat /\ 0 \in Nat
    BY <1>2
  <2> QED BY <2>1, <1>2, <1>9
<1>15. \/ \E c \in Typed : Insert(c)
       \/ Backspace \/ Delete
       \/ cursorPos > 0 /\ Move(cursorPos - 1)
       \/ Move(cursorPos + 1) \/ Move(0) \/ Move(inputPosition)
       \/ Older \/ Newer \/ Enter
  BY DEF HandleChar
<1> QED BY <1>5, <1>7, <1>8, <1>10, <1>11, <1>12, <1>13, <1>14, <1>15, Zenon

LEMMA ScreenSteps ==
  ASSUME ScreenInv, LineInv, HistInv, [Next]_vars, LineInv'
  PROVE  ScreenInv'
<1>1. CASE HandleChar
  BY <1>1, KeyDraws
<1>2. CASE Run
  <2>1. Cleared \in Screen
    <3>1. 0 \in 0 .. W /\ 0 \in 0 .. H - 1
      BY ScreenAssumption
    <3> QED BY <3>1 DEF Cleared, Screen, Glyph
  <2>2. vga' \in Screen /\ out' \in Text
    BY <1>2, <2>1, TextIs DEF Run, ScreenInv
  <2>3. commandReady' \in BOOLEAN /\ UNCHANGED <<inputStartX, inputStartY>>
    BY <1>2 DEF Run, start
  <2> QED BY <2>2, <2>3 DEF ScreenInv
<1>3. CASE ReportDhcp
  <2>1. out' \in Text
    BY <1>3, TextIs DEF ReportDhcp
  <2> QED BY <1>3, <2>1 DEF ReportDhcp, ScreenInv, start
<1>4. CASE PutNext
  <2>1. Head(out) \in Chars \cup {Blank, Newline} /\ Tail(out) \in Text
    BY <1>4, HeadTailProperties DEF PutNext, ScreenInv, Text
  <2>2. vga' \in Screen /\ out' \in Text
    BY <1>4, <2>1, PutCharIs DEF PutNext, ScreenInv
  <2> QED BY <1>4, <2>2 DEF PutNext, ScreenInv, start
<1>5. CASE ShowPrompt
  <2>1. vga.x \in 0 .. W /\ vga.y \in 0 .. H - 1
    BY DEF ScreenInv, Screen
  <2>2. inputStartX' = vga.x /\ inputStartY' = vga.y /\ UNCHANGED <<vga, commandReady, out>>
    BY <1>5 DEF ShowPrompt
  <2> QED BY <2>1, <2>2 DEF ScreenInv
<1>6. CASE UNCHANGED vars
  BY <1>6 DEF vars, start, ScreenInv
<1> QED BY <1>1, <1>2, <1>3, <1>4, <1>5, <1>6 DEF Next

LEMMA ScreenStart ==
  Init => ScreenInv
<1> SUFFICES ASSUME Init PROVE ScreenInv
  OBVIOUS
<1>1. 0 \in 0 .. W /\ 0 \in 0 .. H - 1
  BY ScreenAssumption
<1>2. Cleared \in Screen
  BY <1>1 DEF Cleared, Screen, Glyph
<1>3. commandReady \in BOOLEAN /\ out \in Text
  BY TextIs DEF Init
<1> QED BY <1>1, <1>2, <1>3 DEF Init, ScreenInv

\* No cell is ever written outside the screen, however lines wrap and scroll, and
\* the positions in the line and in the history stay within their bounds, so that
\* the tests at the head of handleChar (terminal.cpp:813-969) never fire.
THEOREM EditorTyped == Spec => []EditorTypeOK
<1> DEFINE J == LineInv /\ HistInv /\ ScreenInv
<1>1. Init => J
  BY LineStart, ScreenStart
<1>2. J /\ [Next]_vars => J'
  BY LineSteps, ScreenSteps
<1>3. J => EditorTypeOK
  <2> SUFFICES ASSUME LineInv, HistInv, ScreenInv PROVE EditorTypeOK
    OBVIOUS
  <2>1. vga.cells \in [Cell -> Chars \cup {Blank}] /\ vga.x \in 0 .. W /\ vga.y \in 0 .. H - 1
    BY DEF ScreenInv, Screen, Glyph
  <2>2. \A i \in 1 .. Len(history) : Len(history[i]) \in 1 .. MaxLine
    BY ElementOfSeq DEF HistInv, Kept
  <2> QED BY <2>1, <2>2 DEF EditorTypeOK, LineInv, HistInv, ScreenInv
<1> QED BY <1>1, <1>2, <1>3, PTL DEF Spec

-------------------------------------------------------------------------------
(* What the screen shows *)

PromptLen == Len(Prompt)
Row(s) == s.y * W
Pos(s) == s.y * W + s.x

\* The cells, moved down by some number of cells.
Moved(cells, by, j) == IF j + by \in Cell THEN cells[j + by] ELSE Blank
BlankFrom(cells, k) == \A j \in Cell : k <= j => cells[j] = Blank
ShownFrom(cells, first, n) ==
  \A i \in 1 .. n : first + i - 1 \in Cell /\ cells[first + i - 1] = Prompt[i]

LEMMA SizeIs ==
  /\ W \in Nat \ {0} /\ H \in Nat \ {0} /\ W * H \in Nat \ {0}
  /\ (H - 1) * W = W * H - W /\ (H - 1) * W \in Nat
  /\ \A y \in Nat : y * W \in Nat /\ (y + 1) * W = y * W + W /\ (y + 2) * W = y * W + W + W
<1>1. W \in Nat \ {0} /\ H \in Nat \ {0}
  BY ScreenAssumption
<1>2. W * H \in Nat \ {0}
  BY <1>1
<1>3. (H - 1) * W = W * H - W
  BY <1>1
<1>4. H - 1 \in Nat
  BY <1>1
<1>5. \A y \in Nat : y * W \in Nat
  BY <1>1
<1>6. \A y \in Nat : (y + 1) * W = y * W + W /\ (y + 2) * W = y * W + W + W
  BY <1>1
<1> QED BY <1>1, <1>2, <1>3, <1>4, <1>5, <1>6

LEMMA PosIs ==
  ASSUME NEW s \in Screen
  PROVE  /\ Row(s) \in Nat /\ Pos(s) \in Nat /\ Pos(s) = Row(s) + s.x /\ s.x \in 0 .. W
         /\ Row(s) <= W * H - W /\ Pos(s) <= W * H
<1>1. s.y \in Nat /\ s.y <= H - 1 /\ s.x \in 0 .. W
  BY ScreenAssumption DEF Screen
<1>2. Row(s) \in Nat
  BY <1>1, SizeIs DEF Row
<1>3. s.y * W <= (H - 1) * W
  <2>1. \A y, h, w \in Nat : y <= h => y * w <= h * w
    OBVIOUS
  <2>2. H - 1 \in Nat /\ W \in Nat
    BY ScreenAssumption
  <2> QED BY <1>1, <2>1, <2>2
<1>4. Row(s) <= W * H - W
  BY <1>3, SizeIs DEF Row
<1>5. Pos(s) = Row(s) + s.x
  BY DEF Pos, Row
<1> QED BY <1>1, <1>2, <1>4, <1>5, SizeIs

\* A new line moves what is shown by no cell or by a row of them.
LineTo(s, t, by) ==
  /\ by \in {0, W} /\ \A j \in Cell : t.cells[j] = Moved(s.cells, by, j)
  /\ Row(t) = Row(s) + W - by /\ t.x = 0 /\ Pos(t) = Row(t)
  /\ by # 0 => Row(s) + W = W * H

LEMMA NextLineTo ==
  ASSUME NEW s \in Screen
  PROVE  \E by : LineTo(s, NextLine(s), by)
<1>1. CASE s.y + 1 >= H
  <2> DEFINE f == [j \in Cell |-> IF j + W \in Cell THEN s.cells[j + W] ELSE Blank]
             t == [cells |-> f, x |-> 0, y |-> H - 1]
  <2>1. NextLine(s) = t
    BY <1>1 DEF NextLine, Scrolled
  <2>2. \A j \in Cell : t.cells[j] = Moved(s.cells, W, j)
    BY DEF Moved
  <2>3. t.x = 0 /\ t.y = H - 1
    OBVIOUS
  <2> HIDE DEF t
  <2>4. s.y = H - 1
    BY <1>1, ScreenAssumption DEF Screen
  <2>5. Row(s) = W * H - W /\ Row(t) = W * H - W /\ Pos(t) = W * H - W + 0
    BY <2>3, <2>4, SizeIs DEF Row, Pos
  <2>6. /\ W * H - W = W * H - W + W - W /\ W * H - W + W = W * H
        /\ W * H - W + 0 = W * H - W
    BY SizeIs
  <2>7. LineTo(s, t, W)
    BY <2>2, <2>3, <2>5, <2>6 DEF LineTo
  <2> QED BY <2>1, <2>7
<1>2. CASE ~(s.y + 1 >= H)
  <2>1. NextLine(s) = [s EXCEPT !.x = 0, !.y = s.y + 1]
    BY <1>2 DEF NextLine
  <2>2. PICK t : t = NextLine(s)
    OBVIOUS
  <2>3. t.cells = s.cells /\ t.x = 0 /\ t.y = s.y + 1
    BY <2>1, <2>2 DEF Screen
  <2>4. \A j \in Cell : t.cells[j] = Moved(s.cells, 0, j)
    <3>1. \A j \in Cell : j + 0 = j
      BY SizeIs DEF Cell
    <3> QED BY <2>3, <3>1 DEF Moved
  <2>5. s.y \in Nat /\ Row(s) = s.y * W /\ Row(t) = (s.y + 1) * W /\ Pos(t) = (s.y + 1) * W + 0
    BY <2>3, ScreenAssumption DEF Row, Pos, Screen
  <2>6. (s.y + 1) * W = s.y * W + W - 0 /\ (s.y + 1) * W + 0 = (s.y + 1) * W
    BY <2>5, SizeIs
  <2>7. LineTo(s, t, 0)
    BY <2>3, <2>4, <2>5, <2>6 DEF LineTo
  <2> QED BY <2>2, <2>7
<1> QED BY <1>1, <1>2

\* A character is put at the place of the caret, once that is on the screen.
PutTo(s, t, c, by) ==
  /\ by \in {0, W} /\ (by # 0 => Pos(s) = W * H)
  /\ Pos(s) - by \in Cell /\ t.cells[Pos(s) - by] = c
  /\ \A j \in Cell : j # Pos(s) - by => t.cells[j] = Moved(s.cells, by, j)
  /\ Pos(t) = Pos(s) - by + 1 /\ Row(s) <= Row(t) + by

LEMMA PutCharTo ==
  ASSUME NEW s \in Screen, NEW c \in Glyph
  PROVE  \E by : PutTo(s, PutChar(s, c), c, by)
<1> DEFINE t == IF s.x >= W THEN NextLine(s) ELSE s
<1>0. c # Newline
  BY CharAssumption DEF Glyph
<1>1. PICK by : /\ by \in {0, W} /\ (by # 0 => Pos(s) = W * H)
                /\ \A j \in Cell : t.cells[j] = Moved(s.cells, by, j)
                /\ Pos(t) = Pos(s) - by /\ Row(s) <= Row(t) + by
  <2>1. CASE s.x >= W
    <3>1. PICK by : LineTo(s, t, by)
      BY <2>1, NextLineTo
    <3>2. Pos(s) = Row(s) + W /\ Row(s) \in Nat /\ W \in Nat
      BY <2>1, PosIs, SizeIs
    <3>3. Row(t) = Row(s) + W - by /\ by \in {0, W}
      BY <3>1 DEF LineTo
    <3>4. Row(t) = Pos(s) - by /\ Row(s) <= Row(t) + by
      <4> HIDE DEF t
      <4> QED BY <3>2, <3>3
    <3> QED BY <3>1, <3>2, <3>4 DEF LineTo
  <2>2. CASE ~(s.x >= W)
    <3>1. t = s
      BY <2>2
    <3>2. \A j \in Cell : s.cells[j] = Moved(s.cells, 0, j)
      <4>1. \A j \in Cell : j + 0 = j
        BY SizeIs DEF Cell
      <4> QED BY <4>1 DEF Moved
    <3>3. Pos(s) = Pos(s) - 0 /\ Row(s) <= Row(s) + 0
      BY PosIs
    <3> QED BY <3>1, <3>2, <3>3
  <2> QED BY <2>1, <2>2
<1>2. t \in Screen /\ t.x \in 0 .. W - 1
  <2>1. s.x \in 0 .. W /\ 0 \in 0 .. W - 1 /\ (~(s.x >= W) => s.x \in 0 .. W - 1)
    BY ScreenAssumption DEF Screen
  <2> QED BY <2>1, NextLineIs
<1> HIDE DEF t
<1>3. Pos(t) \in Cell
  <2>1. t.y \in 0 .. H - 1
    BY <1>2 DEF Screen
  <2>2. t.y * W + t.x \in 0 .. W * H - 1
    BY <1>2, <2>1, ScreenAssumption, RowColumn
  <2> QED BY <2>2 DEF Pos, Cell
<1>4. PICK u : u = PutChar(s, c)
  OBVIOUS
<1>5. u = [t EXCEPT !.cells[t.y * W + t.x] = c, !.x = @ + 1]
  BY <1>0, <1>4 DEF PutChar, t
<1>6. PICK p : p = t.y * W + t.x
  OBVIOUS
<1>7. u.cells = [t.cells EXCEPT ![p] = c] /\ u.x = t.x + 1 /\ u.y = t.y
  BY <1>2, <1>5, <1>6 DEF Screen
<1>8. t.cells \in [Cell -> Glyph] /\ p = Pos(t)
  BY <1>2, <1>6 DEF Screen, Pos
<1>9. u.cells[p] = c /\ \A j \in Cell : j # p => u.cells[j] = t.cells[j]
  BY <1>3, <1>7, <1>8
<1>10. Pos(u) = p + 1 /\ Row(u) = Row(t)
  <2>1. Row(u) = Row(t)
    BY <1>7 DEF Row
  <2>2. Pos(u) = Row(t) + (t.x + 1) /\ p = Row(t) + t.x
    BY <1>6, <1>7 DEF Pos, Row
  <2>3. Row(t) \in Nat /\ t.x \in Nat
    BY <1>2, PosIs, SizeIs
  <2> QED BY <2>1, <2>2, <2>3
<1>11. PutTo(s, u, c, by)
  BY <1>1, <1>3, <1>8, <1>9, <1>10 DEF PutTo
<1> QED BY <1>4, <1>11

\* What is still to be printed ends with the prompt, or is the end of it.
EndsWithPrompt(o) ==
  \A i \in 1 .. Len(o) : Len(o) - PromptLen < i => o[i] = Prompt[PromptLen - Len(o) + i]

\* How far a line that was not finished reaches: no further than the prompt will,
\* or than it will once one or two new lines have been printed before it.
Line1(o) == \E i \in 1 .. Len(o) - PromptLen : o[i] = Newline
Line2(o) ==
  \E i, j \in 1 .. Len(o) - PromptLen : i < j /\ o[i] = Newline /\ o[j] = Newline
Covered(s, o) ==
  \/ BlankFrom(s.cells, Pos(s) + IF Len(o) < PromptLen THEN Len(o) ELSE PromptLen)
  \/ Line1(o) /\ BlankFrom(s.cells, Row(s) + W + PromptLen)
  \/ Line2(o) /\ BlankFrom(s.cells, Row(s) + W + W + PromptLen)

\* The part of the prompt that has been printed.
PromptSoFar(s, o) ==
  ShownFrom(s.cells, Pos(s) - (PromptLen - Len(o)), PromptLen - Len(o))

Printed(s, o) == EndsWithPrompt(o) /\ Covered(s, o) /\ PromptSoFar(s, o)

LEMMA PromptIs ==
  /\ PromptLen \in Nat /\ PromptLen <= W * H - W /\ Prompt \in Text
  /\ \A i \in 1 .. PromptLen : Prompt[i] # Newline
<1>1. Prompt \in Text
  BY TextAssumption
<1>2. PromptLen \in Nat /\ DOMAIN Prompt = 1 .. PromptLen
  BY <1>1, LenProperties DEF Text, PromptLen
<1>3. PromptLen <= (H - 1) * W /\ (H - 1) * W = W * H - W
  BY PromptAssumption, SizeIs DEF PromptLen
<1> QED BY <1>1, <1>2, <1>3, PromptAssumption

\* What lies blank stays so, moved.
LEMMA BlankMoves ==
  ASSUME NEW cells, NEW then, NEW by \in {0, W}, NEW k \in Nat, NEW l \in Nat, k <= l + by,
         BlankFrom(cells, k),
         \A j \in Cell : l <= j => then[j] = Moved(cells, by, j)
  PROVE  BlankFrom(then, l)
<1> SUFFICES ASSUME NEW j \in Cell, l <= j PROVE then[j] = Blank
  BY DEF BlankFrom
<1>1. then[j] = Moved(cells, by, j)
  OBVIOUS
<1>2. k <= j + by
  BY SizeIs DEF Cell
<1>3. CASE j + by \in Cell
  BY <1>1, <1>2, <1>3 DEF Moved, BlankFrom
<1>4. CASE j + by \notin Cell
  BY <1>1, <1>4 DEF Moved
<1> QED BY <1>3, <1>4

\* The rest of what is to be printed.
LEMMA RestIs ==
  ASSUME NEW o \in Text, o # <<>>, NEW r, r = Tail(o), NEW n, n = Len(o)
  PROVE  /\ n \in Nat \ {0} /\ r \in Text /\ Len(r) = n - 1 /\ o[1] = Head(o)
         /\ \A i \in 1 .. n - 1 : r[i] = o[i + 1]
         /\ Head(o) \in Chars \cup {Blank, Newline}
<1>1. o \in Seq(Chars \cup {Blank, Newline})
  BY DEF Text
<1>2. n \in Nat \ {0}
  BY <1>1, LenProperties, EmptySeq
<1>3. Head(o) \in Chars \cup {Blank, Newline} /\ r \in Seq(Chars \cup {Blank, Newline})
      /\ Len(r) = n - 1 /\ \A i \in 1 .. n - 1 : r[i] = o[i + 1]
  BY <1>1, HeadTailProperties
<1>4. o[1] = Head(o)
  BY <1>1, <1>2
<1> QED BY <1>2, <1>3, <1>4 DEF Text

LEMMA RestEnds ==
  ASSUME NEW o \in Text, o # <<>>, NEW r, r = Tail(o), EndsWithPrompt(o)
  PROVE  EndsWithPrompt(r)
<1>1. PICK n, m : n = Len(o) /\ m = Len(r)
  OBVIOUS
<1>2. n \in Nat \ {0} /\ m = n - 1 /\ PromptLen \in Nat /\ \A i \in 1 .. n - 1 : r[i] = o[i + 1]
  BY <1>1, RestIs, PromptIs
<1> SUFFICES ASSUME NEW i \in 1 .. m, m - PromptLen < i PROVE r[i] = Prompt[PromptLen - m + i]
  BY <1>1 DEF EndsWithPrompt
<1>3. PICK j : j = i + 1
  OBVIOUS
<1>4. j \in 1 .. n /\ n - PromptLen < j /\ i \in 1 .. n - 1 /\ PromptLen - n + j = PromptLen - m + i
  BY <1>2, <1>3
<1>5. o[j] = Prompt[PromptLen - n + j]
  BY <1>1, <1>4 DEF EndsWithPrompt
<1> QED BY <1>2, <1>3, <1>4, <1>5

\* A new line ahead comes a place nearer, or it is the one printed.
LEMMA LinesNear ==
  ASSUME NEW o \in Text, o # <<>>, NEW r, r = Tail(o)
  PROVE  /\ o[1] # Newline /\ Line1(o) => Line1(r)
         /\ o[1] # Newline /\ Line2(o) => Line2(r)
         /\ Line2(o) => Line1(r)
<1>1. PICK n, m, lp : n = Len(o) /\ m = Len(r) /\ lp = PromptLen
  OBVIOUS
<1>2. n \in Nat \ {0} /\ m = n - 1 /\ lp \in Nat /\ \A i \in 1 .. n - 1 : r[i] = o[i + 1]
  BY <1>1, RestIs, PromptIs
<1>3. ASSUME NEW i \in 1 .. n - lp, i # 1, o[i] = Newline
      PROVE  i - 1 \in 1 .. m - lp /\ r[i - 1] = Newline
  <2>1. PICK j : j = i - 1
    OBVIOUS
  <2>2. j \in 1 .. m - lp /\ j \in 1 .. n - 1 /\ j + 1 = i
    BY <1>2, <1>3, <2>1
  <2>3. r[j] = Newline
    BY <1>2, <1>3, <2>2
  <2> QED BY <2>1, <2>2, <2>3
<1>4. o[1] # Newline /\ Line1(o) => Line1(r)
  BY <1>1, <1>3 DEF Line1
<1>5. ASSUME Line2(o) PROVE (o[1] # Newline => Line2(r)) /\ Line1(r)
  <2>1. PICK i, j \in 1 .. n - lp : i < j /\ o[i] = Newline /\ o[j] = Newline
    BY <1>1, <1>5 DEF Line2
  <2>2. j # 1 /\ i - 1 < j - 1
    BY <1>2, <2>1
  <2>3. j - 1 \in 1 .. m - lp /\ r[j - 1] = Newline
    BY <1>3, <2>1, <2>2
  <2>4. i # 1 => i - 1 \in 1 .. m - lp /\ r[i - 1] = Newline
    BY <1>3, <2>1
  <2> QED BY <1>1, <2>1, <2>2, <2>3, <2>4 DEF Line1, Line2
<1> QED BY <1>4, <1>5

\* Such a new line is not of the prompt, so more than the prompt is to come.
LEMMA LinesBefore ==
  ASSUME NEW o \in Text, Line1(o) \/ Line2(o)
  PROVE  PromptLen < Len(o)
<1>1. Len(o) \in Nat /\ PromptLen \in Nat
  BY LenProperties, PromptIs DEF Text
<1> QED BY <1>1 DEF Line1, Line2

LEMMA NewlinePrints ==
  ASSUME NEW s \in Screen, NEW o \in Text, o # <<>>, Head(o) = Newline, Printed(s, o),
         NEW t, t = NextLine(s), NEW r, r = Tail(o)
  PROVE  Printed(t, r)
<1>1. PICK n, m, lp : n = Len(o) /\ m = Len(r) /\ lp = PromptLen
  OBVIOUS
<1>2. n \in Nat \ {0} /\ m = n - 1 /\ lp \in Nat /\ o[1] = Newline
  BY <1>1, RestIs, PromptIs
<1>3. lp < n
  <2>1. SUFFICES ASSUME ~(lp < n) PROVE FALSE
    OBVIOUS
  <2>2. PICK k : k = lp - n + 1
    OBVIOUS
  <2>3. 1 \in 1 .. n /\ n - lp < 1 /\ k \in 1 .. lp
    BY <1>2, <2>1, <2>2
  <2>4. o[1] = Prompt[k]
    BY <1>1, <2>2, <2>3 DEF Printed, EndsWithPrompt
  <2> QED BY <1>1, <1>2, <2>3, <2>4, PromptIs
<1>4. EndsWithPrompt(r)
  BY RestEnds DEF Printed
<1>5. PICK by : LineTo(s, t, by)
  BY NextLineTo
<1>6. PICK a, b, x : a = Row(s) /\ b = Row(t) /\ x = s.x
  OBVIOUS
<1>7. /\ a \in Nat /\ x \in 0 .. W /\ Pos(s) = a + x /\ W \in Nat
      /\ by \in {0, W} /\ b = a + W - by /\ Pos(t) = b
      /\ \A j \in Cell : t.cells[j] = Moved(s.cells, by, j)
  BY <1>5, <1>6, PosIs, SizeIs DEF LineTo
<1>8. b \in Nat
  BY <1>7
<1>9. ASSUME NEW k \in Nat, NEW l \in Nat, k <= l + by, BlankFrom(s.cells, k)
      PROVE  BlankFrom(t.cells, l)
  BY <1>7, <1>9, BlankMoves
<1>10. Covered(t, r)
  <2>1. ~(m < lp) /\ ~(n < lp)
    BY <1>2, <1>3
  <2>2. ASSUME BlankFrom(t.cells, b + lp) PROVE Covered(t, r)
    <3>1. (IF m < lp THEN m ELSE lp) = lp
      BY <2>1
    <3> QED BY <1>1, <1>7, <2>2, <3>1 DEF Covered
  <2>3. CASE BlankFrom(s.cells, Pos(s) + IF Len(o) < PromptLen THEN Len(o) ELSE PromptLen)
    <3>1. (IF n < lp THEN n ELSE lp) = lp
      BY <2>1
    <3>2. BlankFrom(s.cells, a + x + lp)
      BY <1>1, <1>7, <2>3, <3>1
    <3>3. a + x + lp \in Nat /\ b + lp \in Nat /\ a + x + lp <= b + lp + by
      BY <1>2, <1>7
    <3> QED BY <1>9, <2>2, <3>2, <3>3
  <2>4. CASE BlankFrom(s.cells, Row(s) + W + PromptLen)
    <3>1. a + W + lp \in Nat /\ b + lp \in Nat /\ a + W + lp <= b + lp + by
      BY <1>2, <1>7
    <3> QED BY <1>1, <1>6, <1>9, <2>2, <2>4, <3>1
  <2>5. CASE Line2(o) /\ BlankFrom(s.cells, Row(s) + W + W + PromptLen)
    <3>1. a + W + W + lp \in Nat /\ b + W + lp \in Nat /\ a + W + W + lp <= b + W + lp + by
      BY <1>2, <1>7
    <3>2. BlankFrom(t.cells, b + W + lp)
      BY <1>1, <1>6, <1>9, <2>5, <3>1
    <3>3. Line1(r)
      BY <2>5, LinesNear
    <3> QED BY <1>1, <1>6, <3>2, <3>3 DEF Covered
  <2> QED BY <2>3, <2>4, <2>5 DEF Printed, Covered
<1>11. PromptSoFar(t, r)
  <2>1. 1 .. lp - m = {}
    BY <1>2, <1>3
  <2> QED BY <1>1, <2>1 DEF PromptSoFar, ShownFrom
<1> QED BY <1>4, <1>10, <1>11 DEF Printed

LEMMA CharPrints ==
  ASSUME NEW s \in Screen, NEW o \in Text, o # <<>>, NEW c \in Glyph, Head(o) = c, Printed(s, o),
         NEW t, t = PutChar(s, c), NEW r, r = Tail(o)
  PROVE  Printed(t, r)
<1>1. PICK n, m, lp : n = Len(o) /\ m = Len(r) /\ lp = PromptLen
  OBVIOUS
<1>2. n \in Nat \ {0} /\ m = n - 1 /\ lp \in Nat /\ o[1] = c /\ o[1] # Newline
      /\ lp <= W * H - W
  BY <1>1, RestIs, PromptIs, CharAssumption DEF Glyph
<1>4. EndsWithPrompt(r)
  BY RestEnds DEF Printed
<1>5. PICK by : PutTo(s, t, c, by)
  BY PutCharTo
<1>6. PICK a, b, p, q : a = Row(s) /\ b = Row(t) /\ p = Pos(s) /\ q = Pos(s) - by
  OBVIOUS
<1>t. t \in Screen
  <2>1. c \in Chars \cup {Blank, Newline}
    BY DEF Glyph
  <2> QED BY <2>1, PutCharIs
<1>7. /\ a \in Nat /\ b \in Nat /\ p \in Nat /\ W \in Nat /\ by \in {0, W} /\ a <= b + by
      /\ (by # 0 => p = W * H) /\ q \in Cell /\ q = p - by /\ t.cells[q] = c
      /\ \A j \in Cell : j # q => t.cells[j] = Moved(s.cells, by, j)
      /\ Pos(t) = q + 1 /\ Pos(t) <= b + W
  <2>1. a \in Nat /\ b \in Nat /\ p \in Nat /\ W \in Nat
    BY <1>t, <1>6, PosIs, SizeIs
  <2>2. Pos(t) <= b + W
    <3>1. Pos(t) = b + t.x /\ t.x \in 0 .. W
      BY <1>t, <1>6, PosIs
    <3> QED BY <2>1, <3>1
  <2>3. /\ by \in {0, W} /\ a <= b + by /\ (by # 0 => p = W * H) /\ q \in Cell /\ q = p - by
        /\ t.cells[q] = c /\ \A j \in Cell : j # q => t.cells[j] = Moved(s.cells, by, j)
        /\ Pos(t) = q + 1
    BY <1>5, <1>6, Zenon DEF PutTo
  <2> QED BY <2>1, <2>2, <2>3
<1>8. q \in Nat /\ p = q + by
  BY <1>7, SizeIs DEF Cell
<1>n. /\ a \in Nat /\ b \in Nat /\ p \in Nat /\ q \in Nat /\ W \in Nat /\ by \in Nat
      /\ a <= b + by /\ p = q + by /\ q + 1 <= b + W
      /\ lp \in Nat /\ n \in Nat /\ m \in Nat /\ n = m + 1
  BY <1>2, <1>7, <1>8
<1>9. ASSUME NEW k \in Nat, NEW l \in Nat, k <= l + by, q < l, BlankFrom(s.cells, k)
      PROVE  BlankFrom(t.cells, l)
  <2>1. \A j \in Cell : l <= j => j # q
    BY <1>8, <1>9 DEF Cell
  <2> QED BY <1>7, <1>9, <2>1, BlankMoves
<1>10. Covered(t, r)
  <2>1. CASE BlankFrom(s.cells, Pos(s) + IF Len(o) < PromptLen THEN Len(o) ELSE PromptLen)
    <3>1. PICK d, e : d = (IF n < lp THEN n ELSE lp) /\ e = (IF m < lp THEN m ELSE lp)
      OBVIOUS
    <3>2. /\ p + d \in Nat /\ q + 1 + e \in Nat /\ q < q + 1 + e
          /\ p + d <= q + 1 + e + by
      BY <1>n, <3>1
    <3>3. BlankFrom(s.cells, p + d)
      BY <1>1, <1>6, <2>1, <3>1
    <3>4. BlankFrom(t.cells, q + 1 + e)
      BY <1>9, <3>2, <3>3
    <3> QED BY <1>1, <1>7, <3>1, <3>4 DEF Covered
  <2>2. CASE Line1(o) /\ BlankFrom(s.cells, Row(s) + W + PromptLen)
    <3>1. a + W + lp \in Nat /\ b + W + lp \in Nat /\ a + W + lp <= b + W + lp + by
          /\ q < b + W + lp
      BY <1>n
    <3>2. BlankFrom(t.cells, b + W + lp)
      BY <1>1, <1>6, <1>9, <2>2, <3>1
    <3>3. Line1(r)
      BY <1>2, <2>2, LinesNear
    <3> QED BY <1>1, <1>6, <3>2, <3>3 DEF Covered
  <2>3. CASE Line2(o) /\ BlankFrom(s.cells, Row(s) + W + W + PromptLen)
    <3>1. a + W + W + lp \in Nat /\ b + W + W + lp \in Nat
          /\ a + W + W + lp <= b + W + W + lp + by /\ q < b + W + W + lp
      BY <1>n
    <3>2. BlankFrom(t.cells, b + W + W + lp)
      BY <1>1, <1>6, <1>9, <2>3, <3>1
    <3>3. Line2(r)
      BY <1>2, <2>3, LinesNear
    <3> QED BY <1>1, <1>6, <3>2, <3>3 DEF Covered
  <2> QED BY <2>1, <2>2, <2>3 DEF Printed, Covered
<1>11. PromptSoFar(t, r)
  <2>1. PICK d, e : d = p - (lp - n) /\ e = q + 1 - (lp - m)
    OBVIOUS
  <2>2. ShownFrom(s.cells, d, lp - n)
    BY <1>1, <1>6, <2>1 DEF Printed, PromptSoFar
  <2>3. d = e + by
    BY <1>n, <2>1
  <2>4. ASSUME NEW i \in 1 .. lp - m
        PROVE  e + i - 1 \in Cell /\ t.cells[e + i - 1] = Prompt[i]
    <3>1. PICK k, l : k = e + i - 1 /\ l = d + i - 1
      OBVIOUS
    <3>2. CASE i = lp - m
      <4>1. k = q /\ 1 \in 1 .. n /\ n - lp < 1 /\ lp - n + 1 = i
        BY <1>2, <1>8, <2>1, <3>1, <3>2
      <4>2. o[1] = Prompt[i]
        <5>1. PICK g : g = lp - n + 1
          OBVIOUS
        <5>2. o[1] = Prompt[g]
          BY <1>1, <4>1, <5>1 DEF Printed, EndsWithPrompt
        <5> QED BY <4>1, <5>1, <5>2
      <4> QED BY <1>2, <1>7, <3>1, <4>1, <4>2
    <3>3. CASE i # lp - m
      <4>1. i \in 1 .. lp - n /\ l = k + by /\ k # q
        BY <1>2, <1>7, <1>8, <2>1, <2>3, <3>1, <3>3
      <4>2. l \in Cell /\ s.cells[l] = Prompt[i]
        BY <2>2, <3>1, <4>1 DEF ShownFrom
      <4>3. k \in Cell
        <5>1. PICK w : w = W * H
          OBVIOUS
        <5>2. l \in 0 .. w - 1 /\ w \in Nat
          BY <4>2, <5>1, SizeIs DEF Cell
        <5>3. by # 0 => p = w /\ lp <= w - W /\ by = W
          BY <1>2, <1>7, <5>1
        <5>4. k \in Int /\ k <= l /\ 0 <= k
          BY <1>2, <1>7, <1>8, <2>1, <3>1, <4>1, <5>2, <5>3
        <5>5. k \in 0 .. w - 1
          BY <5>2, <5>4
        <5> QED BY <5>1, <5>5 DEF Cell
      <4>4. t.cells[k] = s.cells[l]
        BY <1>7, <4>1, <4>2, <4>3 DEF Moved
      <4> QED BY <3>1, <4>2, <4>3, <4>4
    <3> QED BY <3>2, <3>3
  <2>5. ShownFrom(t.cells, e, lp - m)
    BY <2>4 DEF ShownFrom
  <2>6. PromptSoFar(t, r) = ShownFrom(t.cells, Pos(t) - (lp - m), lp - m)
    BY <1>1 DEF PromptSoFar
  <2>7. e = Pos(t) - (lp - m)
    <3>1. Pos(t) = q + 1
      BY <1>7
    <3>2. PICK u : u = q + 1
      OBVIOUS
    <3>3. Pos(t) = u /\ e = u - (lp - m)
      BY <2>1, <3>1, <3>2, <1>n
    <3> QED BY <3>3
  <2> HIDE DEF ShownFrom
  <2> QED BY <2>5, <2>6, <2>7
<1> QED BY <1>4, <1>10, <1>11 DEF Printed

\* Glyphs whose places are on the screen are drawn there, and nothing else is.
OnScreen(base, D) == D \subseteq Nat /\ \A i \in D : base + i \in Cell
DrawnOver(then, cells, base, D, glyphs) ==
  \A j \in Cell : then[j] = IF j - base \in D THEN glyphs[j - base] ELSE cells[j]

LEMMA DrawnFits ==
  ASSUME NEW cells, NEW base \in Nat, NEW D, NEW glyphs, DOMAIN glyphs = D, OnScreen(base, D)
  PROVE  DrawnOver(Drawn(cells, base, glyphs), cells, base, D, glyphs)
<1> DEFINE Here(j) == {i \in DOMAIN glyphs : Target(base + i) = j}
           last(j) == CHOOSE i \in Here(j) : \A k \in Here(j) : k <= i
<1>0. D \subseteq Nat
  BY DEF OnScreen
<1>1. ASSUME NEW i \in D PROVE Target(base + i) = base + i
  <2>1. base + i \in 0 .. W * H - 1
    BY DEF Cell, OnScreen
  <2>2. (base + i) \div W \in 0 .. H - 1
    BY <2>1, ScreenAssumption, CellIs
  <2>3. ~((base + i) \div W >= H)
    BY <2>2, ScreenAssumption
  <2> QED BY <2>3 DEF Target
<1>2. ASSUME NEW j \in Cell
      PROVE  Drawn(cells, base, glyphs)[j]
               = IF j - base \in D THEN glyphs[j - base] ELSE cells[j]
  <2>1. Drawn(cells, base, glyphs)[j] = IF Here(j) = {} THEN cells[j] ELSE glyphs[last(j)]
    BY DEF Drawn
  <2>2. j \in Int
    BY SizeIs DEF Cell
  <2>3. \A i \in D : base + i = j <=> i = j - base
    BY <2>2, <1>0
  <2>4. \A i \in D : i \in Here(j) <=> i = j - base
    BY <1>1, <2>3
  <2>5. Here(j) \subseteq D
    OBVIOUS
  <2> HIDE DEF Here, last
  <2>6. CASE j - base \in D
    <3>1. PICK i \in D : i = j - base
      BY <2>6
    <3>2. i \in Here(j) /\ \A k \in Here(j) : k = i
      BY <2>4, <2>5, <3>1
    <3>3. i <= i
      BY <1>0
    <3>4. last(j) \in Here(j)
      BY <3>2, <3>3, Zenon DEF last
    <3>5. last(j) = i
      BY <3>2, <3>4
    <3> QED BY <2>1, <2>6, <3>1, <3>2, <3>5
  <2>7. CASE j - base \notin D
    <3>1. Here(j) = {}
      BY <2>4, <2>5, <2>7
    <3> QED BY <2>1, <2>7, <3>1
  <2> QED BY <2>6, <2>7
<1> QED BY <1>2 DEF DrawnOver

LEMMA DivMod ==
  ASSUME NEW w \in Nat \ {0}, NEW i \in Nat
  PROVE  (i \div w) * w + (i % w) = i
OBVIOUS

\* The caret stands where it is placed.
LEMMA PlacedFits ==
  ASSUME NEW s \in Screen, NEW idx \in Cell, NEW t, t = Placed(s, idx)
  PROVE  t.cells = s.cells /\ Pos(t) = idx
<1>1. idx \in Nat /\ ~(idx > W * H - 1)
  BY SizeIs DEF Cell
<1>2. PICK u, v : u = idx % W /\ v = idx \div W
  OBVIOUS
<1>3. t = [s EXCEPT !.x = u, !.y = v]
  BY <1>1, <1>2 DEF Placed
<1>4. t.cells = s.cells /\ t.x = u /\ t.y = v
  BY <1>3 DEF Screen
<1>5. v * W + u = idx
  BY <1>1, <1>2, ScreenAssumption, DivMod
<1> QED BY <1>4, <1>5 DEF Pos

\* The prompt, the line behind it, and nothing behind that.
Shows(cells, base, buffer, n) ==
  /\ ShownFrom(cells, base - PromptLen, PromptLen)
  /\ \A i \in 0 .. n - 1 : base + i \in Cell /\ cells[base + i] = buffer[i]
  /\ BlankFrom(cells, base + n)

\* What is drawn over a line from some place on is a line again.
Overdraws(glyphs, c, m, D) ==
  DOMAIN glyphs = D /\ \A i \in D : glyphs[i] = IF i < m THEN c[i] ELSE Blank

LEMMA ShowsDrawn ==
  ASSUME NEW cells, NEW base \in Nat, PromptLen <= base, NEW b, NEW n \in Nat,
         Shows(cells, base, b, n),
         NEW c, NEW m \in Nat, NEW from \in 0 .. m, NEW end \in Nat, m <= end, n <= end,
         from <= n, \A i \in 0 .. from - 1 : c[i] = b[i],
         NEW glyphs, Overdraws(glyphs, c, m, from .. end - 1), OnScreen(base, from .. end - 1),
         NEW then, then = Drawn(cells, base, glyphs)
  PROVE  Shows(then, base, c, m)
<1> DEFINE D == from .. end - 1
<1>1. DOMAIN glyphs = D /\ OnScreen(base, D)
  BY DEF Overdraws
<1> HIDE DEF D
<1>2. \A j \in Cell : then[j] = IF j - base \in D THEN glyphs[j - base] ELSE cells[j]
  <2>1. DrawnOver(Drawn(cells, base, glyphs), cells, base, D, glyphs)
    BY <1>1, DrawnFits
  <2> QED BY <2>1, Zenon DEF DrawnOver
<1> USE DEF D
<1>3. \A j \in Cell : j \in Nat
  BY SizeIs DEF Cell
<1>4. ShownFrom(then, base - PromptLen, PromptLen)
  <2>1. ASSUME NEW i \in 1 .. PromptLen
        PROVE  base - PromptLen + i - 1 \in Cell /\ then[base - PromptLen + i - 1] = Prompt[i]
    <3>1. PICK k : k = base - PromptLen + i - 1
      OBVIOUS
    <3>2. k \in Cell /\ cells[k] = Prompt[i]
      BY <3>1 DEF Shows, ShownFrom
    <3>3. k - base \notin D
      BY <3>1, PromptIs
    <3> QED BY <3>1, <3>2, <3>3, <1>2
  <2> QED BY <2>1 DEF ShownFrom
<1>5. ASSUME NEW i \in 0 .. m - 1 PROVE base + i \in Cell /\ then[base + i] = c[i]
  <2>1. PICK j : j = base + i
    OBVIOUS
  <2>2. j - base = i /\ i < m /\ (i \in D \/ i \in 0 .. from - 1)
    BY <2>1
  <2>3. CASE i \in D
    <3>1. j \in Cell /\ glyphs[i] = c[i]
      BY <2>1, <2>2, <2>3 DEF Overdraws, OnScreen
    <3> QED BY <2>1, <2>2, <2>3, <3>1, <1>2
  <2>4. CASE i \notin D
    <3>1. i \in 0 .. from - 1 /\ i \in 0 .. n - 1
      BY <2>2, <2>4
    <3>2. j \in Cell /\ cells[j] = b[i]
      BY <2>1, <3>1 DEF Shows
    <3> QED BY <2>1, <2>2, <2>4, <3>1, <3>2, <1>2
  <2> QED BY <2>3, <2>4
<1>6. ASSUME NEW j \in Cell, base + m <= j PROVE then[j] = Blank
  <2>1. PICK i : i = j - base
    OBVIOUS
  <2>2. i \in Nat /\ ~(i < m) /\ (i \in D \/ base + n <= j)
    BY <1>3, <1>6, <2>1
  <2>3. CASE i \in D
    <3>1. glyphs[i] = Blank
      BY <2>2, <2>3 DEF Overdraws
    <3> QED BY <1>2, <2>1, <2>3, <3>1
  <2>4. CASE i \notin D
    <3>1. cells[j] = Blank
      BY <2>2, <2>4 DEF Shows, BlankFrom
    <3> QED BY <1>2, <2>1, <2>4, <3>1
  <2> QED BY <2>3, <2>4
<1> QED BY <1>4, <1>5, <1>6 DEF Shows, BlankFrom

OnLine(s, base, b, n, caret) ==
  /\ base \in Nat /\ PromptLen <= base /\ Shows(s.cells, base, b, n) /\ Pos(s) = base + caret

Caret == IF commandReady THEN inputPosition ELSE cursorPos

ShowsInv ==
  /\ at \in {"print", "loop"}
  /\ at = "print" => Printed(vga, out)
  /\ at = "loop" => OnLine(vga, Base, inputBuffer, inputPosition, Caret)

LEMMA DrawnShows ==
  ASSUME NEW s \in Screen, NEW base \in Nat, PromptLen <= base, NEW b, NEW n \in Nat,
         Shows(s.cells, base, b, n),
         NEW c, NEW m \in Nat, NEW from \in 0 .. m, NEW end \in Nat, m <= end, n <= end,
         from <= n, \A i \in 0 .. from - 1 : c[i] = b[i],
         NEW glyphs \in [from .. end - 1 -> Glyph], Overdraws(glyphs, c, m, from .. end - 1),
         OnScreen(base, from .. end - 1),
         NEW caret, base + caret \in Cell,
         NEW t, t = Placed([s EXCEPT !.cells = Drawn(s.cells, base, glyphs)], base + caret)
  PROVE  OnLine(t, base, c, m, caret)
<1>1. PICK f, u : f = Drawn(s.cells, base, glyphs) /\ u = [s EXCEPT !.cells = f]
  OBVIOUS
<1>2. s.cells \in [Cell -> Glyph]
  BY DEF Screen
<1>3. f \in [Cell -> Glyph]
  <2>1. PICK D : D = from .. end - 1
    OBVIOUS
  <2>2. D \subseteq 0 .. end /\ glyphs \in [D -> Glyph]
    BY <2>1
  <2> QED BY <1>1, <1>2, <2>2, DrawnIs
<1>4. u \in Screen /\ u.cells = f
  BY <1>1, <1>3 DEF Screen
<1>5. PICK idx : idx = base + caret
  OBVIOUS
<1>6. idx \in Cell /\ t = Placed(u, idx)
  BY <1>1, <1>5
<1>7. t.cells = f /\ Pos(t) = idx
  BY <1>4, <1>6, PlacedFits
<1>8. Shows(f, base, c, m)
  BY <1>1, ShowsDrawn
<1> QED BY <1>5, <1>7, <1>8 DEF OnLine

\* redrawFrom draws enough: the line was one character longer at most.
LEMMA RedrawShows ==
  ASSUME NEW b, NEW n \in Nat, NEW k, OnLine(vga, Base, b, n, k), ScreenInv,
         NEW c, NEW m \in Nat, n <= m + 1, NEW from \in 0 .. m, from <= n,
         \A i \in 0 .. m - 1 : c[i] \in Chars, \A i \in 0 .. from - 1 : c[i] = b[i],
         Base + m \in Cell, NEW caret \in 0 .. m, NEW t, t = Redraw(from, c, m, caret)
  PROVE  OnLine(t, Base, c, m, caret)
<1> DEFINE glyphs == [i \in from .. m |-> IF i < m THEN c[i] ELSE Blank]
<1>1. t = Placed([vga EXCEPT !.cells = Drawn(vga.cells, Base, glyphs)], Base + caret)
  BY DEF Redraw
<1>2. PICK base : base = Base
  OBVIOUS
<1>3. base \in Nat /\ PromptLen <= base /\ Shows(vga.cells, base, b, n)
  BY <1>2 DEF OnLine
<1>4. ASSUME NEW i \in 0 .. m PROVE base + i \in Cell
  <2>1. base + m \in 0 .. W * H - 1
    BY <1>2 DEF Cell
  <2>2. base + i \in 0 .. W * H - 1
    BY <1>3, <2>1, SizeIs
  <2> QED BY <2>2 DEF Cell
<1>5. PICK end : end = m + 1
  OBVIOUS
<1>6. /\ end \in Nat /\ m <= end /\ n <= end /\ from .. end - 1 = from .. m
      /\ from .. m \subseteq 0 .. m /\ \A i \in from .. m : i < m => i \in 0 .. m - 1
  BY <1>5
<1>7. /\ glyphs \in [from .. end - 1 -> Glyph]
      /\ Overdraws(glyphs, c, m, from .. end - 1)
  BY <1>6 DEF Overdraws, Glyph
<1>8. OnScreen(base, from .. end - 1)
  BY <1>4, <1>6 DEF OnScreen
<1> HIDE DEF glyphs
<1>9. vga \in Screen
  BY DEF ScreenInv
<1>10. OnLine(t, base, c, m, caret)
  BY <1>1, <1>2, <1>3, <1>4, <1>6, <1>7, <1>8, <1>9, DrawnShows
<1> QED BY <1>2, <1>10

\* setInputLine draws blanks over what is left of a longer line.
LEMMA RecallShows ==
  ASSUME NEW n, n = inputPosition, n \in 0 .. MaxLine, NEW k,
         OnLine(vga, Base, inputBuffer, n, k), ScreenInv,
         NEW text \in Seq(Chars), Len(text) <= MaxLine, SetInputLine(text),
         Base + Len(text) \in Cell
  PROVE  OnLine(vga', Base, inputBuffer', Len(text), Len(text))
<1>1. PICK m, all : m = Len(text) /\ all = IF m < n THEN n ELSE m
  OBVIOUS
<1>a. MaxLine \in Nat /\ n \in Nat
  BY LineAssumption
<1>2. m \in Nat /\ all \in Nat /\ m <= all /\ n <= all
  BY <1>1, <1>a, LenProperties
<1> DEFINE glyphs == [i \in 0 .. all - 1 |-> IF i < m THEN text[i + 1] ELSE Blank]
<1>3. vga' = Placed([vga EXCEPT !.cells = Drawn(vga.cells, Base, glyphs)], Base + m)
  BY <1>1 DEF SetInputLine
<1>4. PICK base, b, c : base = Base /\ b = inputBuffer /\ c = inputBuffer'
  OBVIOUS
<1>5. base \in Nat /\ PromptLen <= base /\ Shows(vga.cells, base, b, n)
  BY <1>4 DEF OnLine
<1>6. ASSUME NEW i \in 0 .. all - 1 PROVE base + i \in Cell
  <2>1. CASE i < n
    <3>1. i \in 0 .. n - 1
      BY <2>1
    <3> QED BY <3>1, <1>5 DEF Shows
  <2>2. CASE ~(i < n)
    <3>1. i < m
      BY <2>2, <1>1, <1>a, <1>2
    <3>2. base + m \in 0 .. W * H - 1
      BY <1>1, <1>4 DEF Cell
    <3>3. base + i \in 0 .. W * H - 1
      BY <1>2, <1>5, <3>1, <3>2, SizeIs
    <3> QED BY <3>3 DEF Cell
  <2> QED BY <2>1, <2>2
<1>7. ASSUME NEW i \in 0 .. all - 1, i < m PROVE text[i + 1] = c[i] /\ text[i + 1] \in Chars
  <2>1. i \in 0 .. MaxLine /\ i + 1 \in 1 .. m
    BY <1>1, <1>2, <1>7, <1>a
  <2>2. c[i] = text[i + 1]
    BY <2>1, <1>1, <1>4, <1>7 DEF SetInputLine
  <2>3. text[i + 1] \in Chars
    BY <2>1, <1>1, ElementOfSeq
  <2> QED BY <2>2, <2>3
<1>8. glyphs \in [0 .. all - 1 -> Glyph] /\ Overdraws(glyphs, c, m, 0 .. all - 1)
  BY <1>7 DEF Overdraws, Glyph
<1>9. OnScreen(base, 0 .. all - 1)
  BY <1>6 DEF OnScreen
<1> HIDE DEF glyphs
<1>10. vga \in Screen /\ base + m \in Cell
  BY <1>1, <1>4 DEF ScreenInv
<1>11. 0 \in 0 .. m /\ 0 <= n /\ \A i \in 0 .. 0 - 1 : c[i] = b[i]
  BY <1>2, <1>a
<1>12. PICK v : v = vga'
  OBVIOUS
<1>13. v = Placed([vga EXCEPT !.cells = Drawn(vga.cells, base, glyphs)], base + m)
  BY <1>3, <1>4, <1>12
<1>14. OnLine(v, base, c, m, m)
  BY <1>a, <1>2, <1>5, <1>8, <1>9, <1>10, <1>11, <1>13, DrawnShows
<1> QED BY <1>1, <1>4, <1>12, <1>14

LEMMA KeyShows ==
  ASSUME Fits, ScreenInv, LineInv, HistInv, ShowsInv, HandleChar, LineInv'
  PROVE  ShowsInv'
<1>1. at = "loop" /\ at' = at /\ ~commandReady /\ Base' = Base
  BY DEF HandleChar, start, Base
<1>2. OnLine(vga, Base, inputBuffer, inputPosition, Caret) /\ Base + inputPosition' \in Cell
  BY <1>1 DEF ShowsInv, HandleChar
<1>3. /\ inputPosition \in Nat /\ cursorPos \in 0 .. inputPosition /\ Base \in Nat
      /\ inputPosition' \in Nat /\ cursorPos' \in 0 .. inputPosition'
      /\ \A i \in 0 .. inputPosition' - 1 : inputBuffer'[i] \in Chars
  <2>1. 0 .. MaxLine \subseteq Nat
    BY LineAssumption
  <2> QED BY <2>1, BaseIs DEF LineInv
<1>4. ASSUME OnLine(vga', Base, inputBuffer', inputPosition', Caret') PROVE ShowsInv'
  BY <1>1, <1>4 DEF ShowsInv
<1>5. ASSUME UNCHANGED commandReady PROVE Caret' = cursorPos'
  BY <1>1, <1>5 DEF Caret
<1>6. ASSUME NEW p \in 0 .. inputPosition', p <= inputPosition, inputPosition <= inputPosition' + 1,
             \A i \in 0 .. p - 1 : inputBuffer'[i] = inputBuffer[i],
             vga' = Redraw(p, inputBuffer', inputPosition', cursorPos'), UNCHANGED commandReady
      PROVE  ShowsInv'
  <2>1. PICK c, m, t, k : c = inputBuffer' /\ m = inputPosition' /\ t = vga' /\ k = cursorPos'
    OBVIOUS
  <2>2. PICK b, n : b = inputBuffer /\ n = inputPosition
    OBVIOUS
  <2>3. /\ m \in Nat /\ n \in Nat /\ k \in 0 .. m /\ p \in 0 .. m /\ p <= n /\ n <= m + 1
        /\ (\A i \in 0 .. m - 1 : c[i] \in Chars) /\ (\A i \in 0 .. p - 1 : c[i] = b[i])
        /\ t = Redraw(p, c, m, k) /\ Base + m \in Cell /\ OnLine(vga, Base, b, n, Caret)
    BY <1>2, <1>3, <1>6, <2>1, <2>2
  <2>4. OnLine(t, Base, c, m, k)
    BY <2>3, RedrawShows
  <2> QED BY <1>4, <1>5, <1>6, <2>1, <2>4
<1>7. ASSUME NEW c \in Typed, Insert(c) PROVE ShowsInv'
  <2>1. /\ inputPosition' = inputPosition + 1 /\ inputBuffer' = Inserted(c)
        /\ vga' = Redraw(cursorPos, inputBuffer', inputPosition', cursorPos')
        /\ UNCHANGED commandReady /\ inputPosition < MaxLine
    BY <1>7 DEF Insert
  <2>2. cursorPos \in 0 .. inputPosition' /\ cursorPos <= inputPosition
        /\ inputPosition <= inputPosition' + 1
    BY <1>3, <2>1
  <2>3. \A i \in 0 .. cursorPos - 1 : inputBuffer'[i] = inputBuffer[i]
    <3>1. \A i \in 0 .. cursorPos - 1 :
            /\ i \in 0 .. MaxLine /\ i # cursorPos /\ ~(cursorPos < i) /\ i # inputPosition + 1
      BY <1>3, <2>1, LineAssumption
    <3> QED BY <2>1, <3>1 DEF Inserted
  <2> QED BY <1>6, <2>1, <2>2, <2>3
<1>8. ASSUME NEW p \in 0 .. inputPosition, Cut(p, p) PROVE ShowsInv'
  <2>1. /\ p < inputPosition /\ inputPosition' = inputPosition - 1 /\ inputBuffer' = Without(p)
        /\ cursorPos' = p /\ vga' = Redraw(p, inputBuffer', inputPosition', p)
        /\ UNCHANGED commandReady
    BY <1>8 DEF Cut
  <2>2. p \in 0 .. inputPosition' /\ p <= inputPosition /\ inputPosition <= inputPosition' + 1
    BY <1>3, <2>1
  <2>3. \A i \in 0 .. p - 1 : inputBuffer'[i] = inputBuffer[i]
    <3>1. \A i \in 0 .. p - 1 : i \in 0 .. MaxLine /\ ~(p <= i) /\ i # inputPosition - 1
      BY <1>3, <2>1, LineAssumption DEF LineInv
    <3> QED BY <2>1, <3>1 DEF Without
  <2> QED BY <1>6, <2>1, <2>2, <2>3
<1>9. CASE Backspace
  <2>1. cursorPos - 1 \in 0 .. inputPosition /\ Cut(cursorPos - 1, cursorPos - 1)
    BY <1>3, <1>9 DEF Backspace
  <2> QED BY <1>8, <2>1
<1>10. CASE Delete
  BY <1>3, <1>8, <1>10 DEF Delete
<1>11. ASSUME NEW caret \in 0 .. inputPosition, vga' = Placed(vga, Base + caret), caret = Caret',
              UNCHANGED <<inputBuffer, inputPosition>>
       PROVE  ShowsInv'
  <2>1. Base + caret \in Cell
    <3>1. Base + inputPosition \in 0 .. W * H - 1
      BY <1>2, <1>11 DEF Cell
    <3>2. Base + caret \in 0 .. W * H - 1
      BY <1>3, <3>1, SizeIs
    <3> QED BY <3>2 DEF Cell
  <2>2. PICK t, idx : t = vga' /\ idx = Base + caret
    OBVIOUS
  <2>3. t = Placed(vga, idx) /\ idx \in Cell /\ vga \in Screen
    BY <1>11, <2>1, <2>2 DEF ScreenInv
  <2>4. t.cells = vga.cells /\ Pos(t) = idx
    BY <2>3, PlacedFits
  <2>5. OnLine(t, Base, inputBuffer, inputPosition, caret)
    BY <1>2, <2>2, <2>4 DEF OnLine
  <2> QED BY <1>4, <1>11, <2>2, <2>5
<1>12. ASSUME NEW caret \in 0 .. inputPosition, Move(caret) PROVE ShowsInv'
  <2>1. caret = Caret' /\ vga' = Placed(vga, Base + caret)
        /\ UNCHANGED <<inputBuffer, inputPosition>>
    BY <1>5, <1>12 DEF Move
  <2> QED BY <1>11, <2>1
<1>13. CASE Enter
  <2>1. inputPosition = Caret' /\ vga' = Placed(vga, Base + inputPosition)
        /\ UNCHANGED <<inputBuffer, inputPosition>> /\ inputPosition \in 0 .. inputPosition
    BY <1>3, <1>13 DEF Enter, Caret, line
  <2> QED BY <1>11, <2>1
<1>14. ASSUME NEW text \in Seq(Chars), Len(text) <= MaxLine, SetInputLine(text),
              UNCHANGED commandReady
       PROVE  ShowsInv'
  <2>1. inputPosition' = Len(text) /\ cursorPos' = Len(text)
    BY <1>14 DEF SetInputLine
  <2>2. inputPosition \in 0 .. MaxLine /\ Base + Len(text) \in Cell
    BY <1>2, <2>1 DEF LineInv
  <2>3. OnLine(vga', Base, inputBuffer', Len(text), Len(text))
    BY <1>2, <1>14, <2>2, RecallShows
  <2> QED BY <1>4, <1>5, <1>14, <2>1, <2>3
<1>15. CASE Older
  <2>1. historyIndex \in 1 .. Len(history)
    BY <1>15, LenProperties DEF Older, HistInv
  <2>2. SetInputLine(history[historyIndex]) /\ UNCHANGED commandReady
    BY <1>15 DEF Older
  <2> QED BY <1>14, <2>1, <2>2, KeptIs
<1>16. CASE Newer
  <2> DEFINE text == IF historyIndex' = Len(history) THEN <<>> ELSE history[historyIndex' + 1]
  <2>1. text \in Seq(Chars) /\ Len(text) <= MaxLine
    <3>1. Len(history) \in Nat /\ historyIndex \in 0 .. Len(history)
      BY LenProperties DEF HistInv
    <3>2. historyIndex' # Len(history) => historyIndex' + 1 \in 1 .. Len(history)
      BY <1>16, <3>1 DEF Newer
    <3>3. <<>> \in Seq(Chars) /\ Len(<<>>) <= MaxLine
      BY LineAssumption
    <3> QED BY <3>2, <3>3, KeptIs
  <2>2. SetInputLine(text) /\ UNCHANGED commandReady
    BY <1>16 DEF Newer
  <2> HIDE DEF text
  <2> QED BY <1>14, <2>1, <2>2
<1>17. cursorPos > 0 /\ Move(cursorPos - 1) => ShowsInv'
  <2>1. cursorPos > 0 => cursorPos - 1 \in 0 .. inputPosition
    BY <1>3
  <2> QED BY <2>1, <1>12
<1>18. (cursorPos < inputPosition /\ Move(cursorPos + 1)) \/ Move(0) \/ Move(inputPosition)
         => ShowsInv'
  <2>1. /\ cursorPos < inputPosition => cursorPos + 1 \in 0 .. inputPosition
        /\ 0 \in 0 .. inputPosition /\ inputPosition \in 0 .. inputPosition
    BY <1>3
  <2> QED BY <2>1, <1>12
<1>19. \/ \E c \in Typed : Insert(c)
       \/ Backspace \/ Delete
       \/ cursorPos > 0 /\ Move(cursorPos - 1)
       \/ cursorPos < inputPosition /\ Move(cursorPos + 1)
       \/ Move(0) \/ Move(inputPosition)
       \/ Older \/ Newer \/ Enter
  BY DEF HandleChar
<1> QED BY <1>7, <1>9, <1>10, <1>13, <1>15, <1>16, <1>17, <1>18, <1>19, Zenon

\* What a command or a report prints ends with the prompt.
LEMMA OutputIs ==
  ASSUME NEW o \in Text, NEW p, p = o \o Prompt
  PROVE  /\ p \in Text /\ EndsWithPrompt(p) /\ Len(p) = Len(o) + PromptLen
         /\ Len(o) \in Nat /\ \A i \in 1 .. Len(o) : p[i] = o[i]
<1>1. PICK n, m, lp, l : n = Len(o) /\ m = Len(p) /\ lp = PromptLen /\ l = n + lp
  OBVIOUS
<1>2. Prompt \in Text /\ lp \in Nat /\ n \in Nat
  BY <1>1, PromptIs, LenProperties DEF Text
<1>3. /\ p \in Text /\ m = l
      /\ \A i \in 1 .. l : p[i] = IF i <= n THEN o[i] ELSE Prompt[i - n]
  BY <1>1, <1>2, ConcatProperties DEF Text, PromptLen
<1>4. ASSUME NEW i \in 1 .. m, m - lp < i PROVE p[i] = Prompt[lp - m + i]
  <2>1. i \in 1 .. l /\ ~(i <= n) /\ lp - m + i = i - n
    BY <1>1, <1>2, <1>3, <1>4
  <2> QED BY <2>1, <1>3
<1>5. \A i \in 1 .. n : i \in 1 .. l /\ i <= n
  BY <1>1, <1>2
<1> QED BY <1>1, <1>2, <1>3, <1>4, <1>5 DEF EndsWithPrompt

\* Printing begins where everything behind is blank, or a report covers it.
LEMMA OutputBegins ==
  ASSUME NEW s \in Screen, NEW o \in Text, NEW p, p = o \o Prompt,
         \/ BlankFrom(s.cells, Pos(s))
         \/ /\ \E i, j \in 1 .. Len(o) : i < j /\ o[i] = Newline /\ o[j] = Newline
            /\ BlankFrom(s.cells, (s.y + 2) * W + PromptLen)
  PROVE  Printed(s, p)
<1>1. PICK n, m, lp : n = Len(o) /\ m = Len(p) /\ lp = PromptLen
  OBVIOUS
<1>2. /\ EndsWithPrompt(p) /\ m = n + lp /\ n \in Nat /\ lp \in Nat
      /\ \A i \in 1 .. n : p[i] = o[i]
  BY <1>1, OutputIs, PromptIs
<1>3. PromptSoFar(s, p)
  <2>1. 1 .. lp - m = {}
    BY <1>2
  <2> QED BY <1>1, <2>1 DEF PromptSoFar, ShownFrom
<1>4. CASE BlankFrom(s.cells, Pos(s))
  <2>1. (IF m < lp THEN m ELSE lp) = lp
    BY <1>2
  <2>2. PICK k : k = Pos(s)
    OBVIOUS
  <2>3. \A j \in Cell : k + lp <= j => k <= j
    <3>1. k \in Nat
      BY <2>2, PosIs
    <3> QED BY <3>1, <1>2, SizeIs DEF Cell
  <2>4. BlankFrom(s.cells, k + lp)
    BY <1>4, <2>2, <2>3 DEF BlankFrom
  <2>5. Covered(s, p)
    BY <1>1, <2>1, <2>2, <2>4 DEF Covered
  <2> QED BY <1>2, <1>3, <2>5 DEF Printed
<1>5. CASE /\ \E i, j \in 1 .. n : i < j /\ o[i] = Newline /\ o[j] = Newline
           /\ BlankFrom(s.cells, (s.y + 2) * W + lp)
  <2>1. m - lp = n
    BY <1>2
  <2>2. Line2(p)
    BY <1>1, <1>2, <1>5, <2>1 DEF Line2
  <2>3. (s.y + 2) * W = Row(s) + W + W
    <3>1. s.y \in Nat
      BY ScreenAssumption DEF Screen
    <3> QED BY <3>1, SizeIs DEF Row
  <2>4. Covered(s, p)
    BY <1>1, <1>5, <2>2, <2>3 DEF Covered
  <2> QED BY <1>2, <1>3, <2>4 DEF Printed
<1> QED BY <1>1, <1>4, <1>5

\* Two blank ends: what is behind a line is behind everything further.
LEMMA BlankFurther ==
  ASSUME NEW cells, NEW k \in Nat, NEW l \in Nat, k <= l, BlankFrom(cells, k)
  PROVE  BlankFrom(cells, l)
<1>1. \A j \in Cell : l <= j => k <= j
  BY SizeIs DEF Cell
<1> QED BY <1>1 DEF BlankFrom

LEMMA RunShows ==
  ASSUME ScreenInv, LineInv, ShowsInv, Run
  PROVE  ShowsInv'
<1>1. at = "loop" /\ commandReady /\ at' = "print"
  BY DEF Run
<1>2. OnLine(vga, Base, inputBuffer, inputPosition, inputPosition)
  BY <1>1 DEF ShowsInv, Caret
<1>3. BlankFrom(vga.cells, Pos(vga))
  BY <1>2 DEF OnLine, Shows
<1>4. Cleared \in Screen /\ BlankFrom(Cleared.cells, Pos(Cleared))
  <2>1. 0 \in 0 .. W /\ 0 \in 0 .. H - 1
    BY ScreenAssumption
  <2>2. Cleared \in Screen
    BY <2>1 DEF Cleared, Screen, Glyph
  <2>3. \A j \in Cell : Cleared.cells[j] = Blank
    BY DEF Cleared
  <2> QED BY <2>2, <2>3 DEF BlankFrom
<1>5. vga \in Screen
  BY DEF ScreenInv
<1>6. \A o \in {Banner, <<Newline>>} \cup Outputs : o \in Text
  <2>1. <<Newline>> \in Text
    BY DEF Text
  <2> QED BY <2>1, TextAssumption
<1>7. \E o \in {Banner, <<Newline>>} \cup Outputs : out' = o \o Prompt /\ vga' \in {vga, Cleared}
  BY DEF Run
<1>8. PICK o, p, s : o \in Text /\ p = o \o Prompt /\ out' = p /\ s = vga' /\ s \in {vga, Cleared}
  BY <1>6, <1>7
<1>9. s \in Screen /\ BlankFrom(s.cells, Pos(s))
  BY <1>3, <1>4, <1>5, <1>8
<1>10. Printed(s, p)
  BY <1>8, <1>9, OutputBegins
<1> QED BY <1>1, <1>8, <1>10 DEF ShowsInv

LEMMA ReportShows ==
  ASSUME Fits, ScreenInv, LineInv, ShowsInv, ReportDhcp
  PROVE  ShowsInv'
<1>1. at = "loop" /\ at' = "print" /\ out' = Report \o Prompt /\ vga' = vga
  BY DEF ReportDhcp
<1>2. OnLine(vga, Base, inputBuffer, inputPosition, Caret)
  BY <1>1 DEF ShowsInv
<1>3. vga \in Screen /\ Report \in Text
  BY TextAssumption DEF ScreenInv
<1>4. PICK k, l, n : k = Base + inputPosition /\ l = (vga.y + 2) * W + PromptLen /\ n = Len(Report)
  OBVIOUS
<1>5. k \in Nat /\ l \in Nat /\ k <= l
  <2>1. inputPosition \in Nat /\ Base \in Nat
    BY LineAssumption, BaseIs DEF LineInv
  <2>2. (vga.y + 2) * W = Row(vga) + W + W /\ Row(vga) \in Nat /\ W \in Nat
    <3>1. vga.y \in Nat
      BY <1>3, ScreenAssumption DEF Screen
    <3> QED BY <3>1, SizeIs DEF Row
  <2>3. k <= l
    BY <1>4 DEF ReportDhcp, PromptLen
  <2> QED BY <1>4, <2>1, <2>2, <2>3, PromptIs
<1>6. BlankFrom(vga.cells, l)
  <2>1. BlankFrom(vga.cells, k)
    BY <1>2, <1>4 DEF OnLine, Shows
  <2> QED BY <1>5, <2>1, BlankFurther
<1>7. \E i, j \in 1 .. n : i < j /\ Report[i] = Newline /\ Report[j] = Newline
  <2>1. DOMAIN Report = 1 .. n
    BY <1>3, <1>4, LenProperties DEF Text
  <2> QED BY <2>1, ReportAssumption
<1>8. PICK s, o, p : s = vga /\ o = Report /\ p = o \o Prompt
  OBVIOUS
<1>9. Printed(s, p)
  BY <1>3, <1>4, <1>6, <1>7, <1>8, OutputBegins
<1> QED BY <1>1, <1>8, <1>9 DEF ShowsInv

LEMMA PutShows ==
  ASSUME ScreenInv, ShowsInv, PutNext
  PROVE  ShowsInv'
<1>1. PICK s, o, t, r, c : s = vga /\ o = out /\ t = vga' /\ r = out' /\ c = Head(o)
  OBVIOUS
<1>2. /\ s \in Screen /\ o \in Text /\ o # <<>> /\ at = "print" /\ at' = "print"
      /\ t = PutChar(s, c) /\ r = Tail(o) /\ Printed(s, o)
  BY <1>1 DEF PutNext, ScreenInv, ShowsInv
<1>3. c \in Chars \cup {Blank, Newline}
  BY <1>1, <1>2, RestIs
<1>4. Printed(t, r)
  <2>1. CASE c = Newline
    <3>1. t = NextLine(s)
      BY <1>2, <2>1 DEF PutChar
    <3> QED BY <1>1, <1>2, <2>1, <3>1, NewlinePrints
  <2>2. CASE c # Newline
    <3>1. c \in Glyph
      BY <1>3, <2>2 DEF Glyph
    <3> QED BY <1>1, <1>2, <3>1, CharPrints
  <2> QED BY <2>1, <2>2
<1> QED BY <1>1, <1>2, <1>4 DEF ShowsInv

LEMMA PromptShows ==
  ASSUME ScreenInv, LineInv, ShowsInv, ShowPrompt
  PROVE  ShowsInv'
<1>1. /\ at = "print" /\ out = <<>> /\ at' = "loop" /\ vga' = vga
      /\ inputStartX' = vga.x /\ inputStartY' = vga.y
      /\ inputPosition' = 0 /\ cursorPos' = 0
  BY DEF ShowPrompt, EmptyLine
<1>2. Base' = Pos(vga) /\ Caret' = 0
  BY <1>1 DEF Base, Pos, Caret
<1>3. PICK b, lp, e, n : b = Pos(vga) /\ lp = PromptLen /\ e = out /\ n = Len(e)
  OBVIOUS
<1>4. b \in Nat /\ lp \in Nat /\ n = 0 /\ e \in Text
  <2>1. <<>> \in Text /\ Len(<<>>) = 0
    BY DEF Text
  <2> QED BY <1>1, <1>3, <2>1, PosIs, PromptIs DEF ScreenInv
<1>5. Covered(vga, e) /\ PromptSoFar(vga, e)
  BY <1>1, <1>3 DEF ShowsInv, Printed
<1>6. ShownFrom(vga.cells, b - lp, lp)
  <2>1. lp - n = lp
    BY <1>4
  <2> QED BY <1>3, <1>5, <2>1 DEF PromptSoFar
<1>7. BlankFrom(vga.cells, b + 0)
  <2>1. ~Line1(e) /\ ~Line2(e)
    <3>1. ~(lp < n)
      BY <1>4
    <3> QED BY <1>3, <1>4, <3>1, LinesBefore
  <2>2. (IF n < lp THEN n ELSE lp) = 0
    BY <1>4
  <2> QED BY <1>3, <1>5, <2>1, <2>2 DEF Covered
<1>8. lp <= b
  <2>1. CASE lp = 0
    BY <2>1, <1>4
  <2>2. CASE lp # 0
    <3>1. 1 \in 1 .. lp
      BY <2>2, <1>4
    <3>2. b - lp + 1 - 1 \in Cell
      BY <1>6, <3>1 DEF ShownFrom
    <3> QED BY <1>4, <3>2, SizeIs DEF Cell
  <2> QED BY <2>1, <2>2
<1>9. PICK c : c = inputBuffer'
  OBVIOUS
<1>10. 0 .. 0 - 1 = {} /\ b + 0 = b
  BY <1>4
<1>11. Shows(vga.cells, b, c, 0)
  BY <1>3, <1>6, <1>7, <1>10 DEF Shows
<1>12. OnLine(vga, b, c, 0, 0)
  BY <1>3, <1>4, <1>8, <1>10, <1>11 DEF OnLine
<1> QED BY <1>1, <1>2, <1>3, <1>9, <1>12 DEF ShowsInv

LEMMA ShowsSteps ==
  ASSUME Fits, ScreenInv, LineInv, HistInv, ShowsInv, [Next]_vars, LineInv'
  PROVE  ShowsInv'
<1>1. CASE UNCHANGED vars
  BY <1>1 DEF vars, line, start, ShowsInv, Caret, Base
<1> QED BY <1>1, KeyShows, RunShows, ReportShows, PutShows, PromptShows DEF Next

LEMMA ShowsStart ==
  Init => ShowsInv
<1> SUFFICES ASSUME Init PROVE ShowsInv
  OBVIOUS
<1>1. at = "print" /\ vga = Cleared /\ out = Banner \o Prompt
  BY DEF Init
<1>2. vga \in Screen
  BY ScreenStart DEF ScreenInv
<1>3. BlankFrom(vga.cells, Pos(vga))
  <2>1. \A j \in Cell : Cleared.cells[j] = Blank
    BY DEF Cleared
  <2> QED BY <1>1, <2>1 DEF BlankFrom
<1>4. PICK o, p, s : o = Banner /\ p = o \o Prompt /\ s = vga
  OBVIOUS
<1>5. o \in Text
  BY <1>4, TextAssumption
<1>6. Printed(s, p)
  BY <1>2, <1>3, <1>4, <1>5, OutputBegins
<1> QED BY <1>1, <1>4, <1>6 DEF ShowsInv

\* For lines that end on the screen: while a line is edited the screen shows the
\* prompt, the line's characters and nothing behind them, and the caret at its
\* place, whatever was inserted, removed, recalled, printed and scrolled before
\* (terminal.cpp:793-969; Vga::putChar and scroll, vga.cpp).
THEOREM ScreenAlwaysShowsLine ==
  ASSUME Fits
  PROVE  Spec => []ScreenShowsLine
<1> DEFINE J == LineInv /\ HistInv /\ ScreenInv /\ ShowsInv
<1>1. Init => J
  BY LineStart, ScreenStart, ShowsStart
<1>2. J /\ [Next]_vars => J'
  BY LineSteps, ScreenSteps, ShowsSteps
<1>3. J => ScreenShowsLine
  <2> SUFFICES ASSUME LineInv, ShowsInv, at = "loop"
               PROVE  /\ \A i \in 1 .. Len(Prompt) :
                           vga.cells[Base - Len(Prompt) + i - 1] = Prompt[i]
                      /\ \A i \in 0 .. inputPosition - 1 :
                           Base + i \in Cell /\ vga.cells[Base + i] = inputBuffer[i]
                      /\ \A j \in Cell : j >= Base + inputPosition => vga.cells[j] = Blank
                      /\ vga.y * W + vga.x
                           = Base + (IF commandReady THEN inputPosition ELSE cursorPos)
    BY DEF ScreenShowsLine
  <2>1. OnLine(vga, Base, inputBuffer, inputPosition, Caret)
    BY DEF ShowsInv
  <2>2. Base \in Nat /\ inputPosition \in Nat
    BY <2>1, LineAssumption DEF OnLine, LineInv
  <2>3. \A j \in Cell : j >= Base + inputPosition => Base + inputPosition <= j
    BY <2>2, SizeIs DEF Cell
  <2> QED BY <2>1, <2>3, Zenon DEF OnLine, Shows, ShownFrom, BlankFrom, Pos, Caret, PromptLen
<1> QED BY <1>1, <1>2, <1>3, PTL DEF Spec
================================================================================
