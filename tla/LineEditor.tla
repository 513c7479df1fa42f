------------------------------- MODULE LineEditor -------------------------------
(***************************************************************************)
(* The line editor and the screen under it: Terminal's handleChar and its  *)
(* helpers (src/libc/terminal.cpp), the command history, and Vga's text    *)
(* cells (src/libc/vga.cpp).                                               *)
(*                                                                         *)
(* Data: a key is a character of Chars or the name of an editing key; a    *)
(* recorded command is a sequence.  Colours and the pixels that show a     *)
(* cell are left out; the framebuffer's fb_cells and the text memory are   *)
(* the same cells.  What commands print is a member of Outputs, printed    *)
(* one putChar at a time.                                                  *)
(***************************************************************************)
EXTENDS Naturals, SequencesExt

CONSTANTS W, H,             \* VGA_WIDTH, VGA_HEIGHT: 80, 25
          MaxLine,          \* sizeof(inputBuffer) - 1: 255
          HistMax,          \* CMD_HISTORY_MAX: 16
          Chars,            \* the printable characters
          Typed,            \* bound: those of them that are typed
          Blank, Newline, Nul,
          Prompt,           \* what showPrompt prints
          Banner,           \* what showWelcomeBanner prints
          Report,           \* what Terminal::run prints of a changed DHCP state
          Outputs,          \* what commands print
          MaxRuns,          \* bound: commands run
          MaxReports,       \* bound: DHCP reports
          Fits              \* bound: only lines that end before the screen does,
                            \* and, at a DHCP report, before its prompt does

Text == Seq(Chars \cup {Blank, Newline})

ASSUME ScreenAssumption == W \in Nat \ {0} /\ H \in Nat \ {0}
ASSUME LineAssumption == MaxLine \in Nat \ {0} /\ HistMax \in Nat \ {0}
ASSUME CharAssumption == /\ Typed \subseteq Chars /\ Nul \notin Chars
                         /\ Newline \notin Chars \cup {Blank}
ASSUME TextAssumption == {Prompt, Banner, Report} \cup Outputs \subseteq Text
\* The prompt is one line and leaves a row of the screen; a report has two lines at least.
ASSUME PromptAssumption == /\ Len(Prompt) <= (H - 1) * W
                           /\ \A i \in DOMAIN Prompt : Prompt[i] # Newline
ASSUME ReportAssumption ==
  \E i, j \in DOMAIN Report : i < j /\ Report[i] = Newline /\ Report[j] = Newline
ASSUME BoundAssumption == MaxRuns \in Nat /\ MaxReports \in Nat /\ Fits \in BOOLEAN

VARIABLES
  vga,              \* the cells by number, row after row, and where x and y are
  inputBuffer, inputPosition, cursorPos, inputStartX, inputStartY,
  commandReady,
  history,          \* g_cmd_history, the first historyCount of its lines
  historyIndex,
  at,               \* "print": putString is at work; "loop": Terminal::run
  out,              \* what is still to be printed, the prompt behind it
  ran,              \* the commands run, a history
  reports

line    == <<inputBuffer, inputPosition, cursorPos>>
start   == <<inputStartX, inputStartY>>
recall  == <<history, historyIndex>>
vars    == <<vga, line, start, commandReady, recall, at, out, ran, reports>>

-------------------------------------------------------------------------------
(* The screen *)

Cell == 0 .. W * H - 1

Cleared == [cells |-> [j \in Cell |-> Blank], x |-> 0, y |-> 0]

\* Vga::scroll
Scrolled(s) ==
  [cells |-> [j \in Cell |-> IF j + W \in Cell THEN s.cells[j + W] ELSE Blank],
   x |-> 0, y |-> H - 1]

\* A mutant: the screen scrolls a row too late.
NextLineLate(s) == IF s.y >= H THEN Scrolled(s) ELSE [s EXCEPT !.x = 0, !.y = @ + 1]

\* The line below, which may be below the last one.
NextLine(s) == IF s.y + 1 >= H THEN Scrolled(s) ELSE [s EXCEPT !.x = 0, !.y = @ + 1]

\* Vga::putChar
PutChar(s, c) ==
  IF c = Newline THEN NextLine(s)
  ELSE LET t == IF s.x >= W THEN NextLine(s) ELSE s
       IN [t EXCEPT !.cells[t.y * W + t.x] = c, !.x = @ + 1]

\* The cell Vga::putCharAt writes for a place counted in cells: a row below the
\* last is the last.
Target(idx) == IF idx \div W >= H THEN (H - 1) * W + (idx % W) ELSE idx

\* putCharAt for each of the glyphs, in the order of their offsets from base.
Drawn(cells, base, glyphs) ==
  [j \in Cell |->
     LET here == {i \in DOMAIN glyphs : Target(base + i) = j}
     IN IF here = {} THEN cells[j]
        ELSE glyphs[CHOOSE i \in here : \A k \in here : k <= i]]

\* Terminal::placeCursorAt, for a place counted in cells
Placed(s, idx) ==
  LET i == IF idx > W * H - 1 THEN W * H - 1 ELSE idx
  IN [s EXCEPT !.x = i % W, !.y = i \div W]

-------------------------------------------------------------------------------
(* The line *)

Base == inputStartY * W + inputStartX
Line == [i \in 1 .. inputPosition |-> inputBuffer[i - 1]]

\* A mutant: what is left of a longer line stays on the screen.
RedrawNoTail(from, buffer, length, caret) ==
  Placed([vga EXCEPT !.cells = Drawn(@, Base, [i \in from .. length - 1 |-> buffer[i]])],
         Base + caret)

\* redrawFrom: the line from offset from on, one blank behind it, the caret
Redraw(from, buffer, length, caret) ==
  LET glyphs == [i \in from .. length |-> IF i < length THEN buffer[i] ELSE Blank]
  IN Placed([vga EXCEPT !.cells = Drawn(@, Base, glyphs)], Base + caret)

\* A mutant: the character at the caret is not moved.
InsertedLate(c) ==
  [i \in 0 .. MaxLine |->
     IF i = cursorPos THEN c
     ELSE IF cursorPos + 1 < i /\ i <= inputPosition THEN inputBuffer[i - 1]
     ELSE IF i = inputPosition + 1 THEN Nul ELSE inputBuffer[i]]

Inserted(c) ==
  [i \in 0 .. MaxLine |->
     IF i = cursorPos THEN c
     ELSE IF cursorPos < i /\ i <= inputPosition THEN inputBuffer[i - 1]
     ELSE IF i = inputPosition + 1 THEN Nul ELSE inputBuffer[i]]

Without(p) ==
  [i \in 0 .. MaxLine |->
     IF p <= i /\ i < inputPosition - 1 THEN inputBuffer[i + 1]
     ELSE IF i = inputPosition - 1 THEN Nul ELSE inputBuffer[i]]

Insert(c) ==
  /\ inputPosition < MaxLine
  /\ inputBuffer' = Inserted(c)
  /\ inputPosition' = inputPosition + 1 /\ cursorPos' = cursorPos + 1
  /\ vga' = Redraw(cursorPos, inputBuffer', inputPosition', cursorPos')
  /\ UNCHANGED <<commandReady, recall>>

\* '\b' and KEY_DEL
Cut(p, caret) ==
  /\ p < inputPosition
  /\ inputBuffer' = Without(p)
  /\ inputPosition' = inputPosition - 1 /\ cursorPos' = caret
  /\ vga' = Redraw(caret, inputBuffer', inputPosition', caret)
  /\ UNCHANGED <<commandReady, recall>>

Backspace == cursorPos > 0 /\ Cut(cursorPos - 1, cursorPos - 1)
Delete == Cut(cursorPos, cursorPos)

\* KEY_LEFT, KEY_RIGHT, KEY_HOME, KEY_END
Move(caret) ==
  /\ cursorPos' = caret /\ vga' = Placed(vga, Base + caret)
  /\ UNCHANGED <<inputBuffer, inputPosition, commandReady, recall>>

\* setInputLine: the text, and blanks over what is left of a longer line
SetInputLine(text) ==
  LET all    == IF Len(text) < inputPosition THEN inputPosition ELSE Len(text)
      glyphs == [i \in 0 .. all - 1 |-> IF i < Len(text) THEN text[i + 1] ELSE Blank]
  IN /\ inputBuffer' = [i \in 0 .. MaxLine |->
                          IF i < Len(text) THEN text[i + 1]
                          ELSE IF i = Len(text) THEN Nul ELSE inputBuffer[i]]
     /\ inputPosition' = Len(text) /\ cursorPos' = Len(text)
     /\ vga' = Placed([vga EXCEPT !.cells = Drawn(@, Base, glyphs)], Base + Len(text))

\* KEY_UP and KEY_DOWN; historyIndex counts from 0.
Older ==
  /\ historyIndex > 0 /\ historyIndex' = historyIndex - 1
  /\ SetInputLine(history[historyIndex])
  /\ UNCHANGED <<commandReady, history>>
Newer ==
  /\ historyIndex < Len(history) /\ historyIndex' = historyIndex + 1
  /\ SetInputLine(IF historyIndex' = Len(history) THEN <<>> ELSE history[historyIndex' + 1])
  /\ UNCHANGED <<commandReady, history>>

Enter ==
  /\ commandReady' = TRUE /\ vga' = Placed(vga, Base + inputPosition)
  /\ UNCHANGED <<line, recall>>

\* One call of handleChar.
HandleChar ==
  /\ at = "loop" /\ ~commandReady
  /\ \/ \E c \in Typed : Insert(c)
     \/ Backspace \/ Delete
     \/ cursorPos > 0 /\ Move(cursorPos - 1)
     \/ cursorPos < inputPosition /\ Move(cursorPos + 1)
     \/ Move(0) \/ Move(inputPosition)
     \/ Older \/ Newer \/ Enter
  /\ Fits => Base + inputPosition' \in Cell
  /\ UNCHANGED <<start, at, out, ran, reports>>

-------------------------------------------------------------------------------
(* Terminal::run *)

\* A mutant: of a full history the newest line is replaced.
HistoryAddLast(cmd) ==
  IF cmd = <<>> \/ (history # <<>> /\ Last(history) = cmd) THEN history
  ELSE IF Len(history) < HistMax THEN Append(history, cmd)
  ELSE Append(Front(history), cmd)

\* historyAdd
HistoryAdd(cmd) ==
  IF cmd = <<>> \/ (history # <<>> /\ Last(history) = cmd) THEN history
  ELSE IF Len(history) < HistMax THEN Append(history, cmd)
  ELSE Append(Tail(history), cmd)

EmptyLine ==
  /\ inputPosition' = 0 /\ cursorPos' = 0
  /\ inputBuffer' = [inputBuffer EXCEPT ![0] = Nul]

\* The ready command runs: "clear", an empty one, or another.
Run ==
  /\ at = "loop" /\ commandReady /\ Len(ran) < MaxRuns
  /\ commandReady' = FALSE
  /\ history' = HistoryAdd(Line) /\ historyIndex' = Len(history')
  /\ ran' = Append(ran, Line)
  /\ \/ Line # <<>> /\ vga' = Cleared /\ out' = Banner \o Prompt
     \/ Line # <<>> /\ \E o \in Outputs : out' = o \o Prompt /\ UNCHANGED vga
     \/ Line = <<>> /\ out' = <<Newline>> \o Prompt /\ UNCHANGED vga
  /\ EmptyLine /\ at' = "print"
  /\ UNCHANGED <<start, reports>>

\* The DHCP state has changed.  What is printed begins at the caret.
ReportDhcp ==
  /\ at = "loop" /\ reports < MaxReports /\ reports' = reports + 1
  /\ Fits => Base + inputPosition <= (vga.y + 2) * W + Len(Prompt)
  /\ out' = Report \o Prompt /\ at' = "print"
  /\ UNCHANGED <<vga, line, start, commandReady, recall, ran>>

\* One putChar of putString.
PutNext ==
  /\ at = "print" /\ out # <<>>
  /\ vga' = PutChar(vga, Head(out)) /\ out' = Tail(out)
  /\ UNCHANGED <<line, start, commandReady, recall, at, ran, reports>>

\* showPrompt, its prompt printed
ShowPrompt ==
  /\ at = "print" /\ out = <<>> /\ at' = "loop"
  /\ inputStartX' = vga.x /\ inputStartY' = vga.y
  /\ EmptyLine
  /\ UNCHANGED <<vga, commandReady, recall, out, ran, reports>>

Init ==
  /\ vga = Cleared
  /\ inputBuffer = [i \in 0 .. MaxLine |-> Nul] /\ inputPosition = 0 /\ cursorPos = 0
  /\ inputStartX = 0 /\ inputStartY = 0
  /\ commandReady = FALSE /\ history = <<>> /\ historyIndex = 0
  /\ at = "print" /\ out = Banner \o Prompt /\ ran = <<>> /\ reports = 0

Next == HandleChar \/ Run \/ ReportDhcp \/ PutNext \/ ShowPrompt

Spec == Init /\ [][Next]_vars

-------------------------------------------------------------------------------
EditorTypeOK ==
  /\ vga.cells \in [Cell -> Chars \cup {Blank}]
  /\ vga.x \in 0 .. W /\ vga.y \in 0 .. H - 1
  /\ inputBuffer \in [0 .. MaxLine -> Chars \cup {Nul}]
  /\ inputPosition \in 0 .. MaxLine /\ cursorPos \in 0 .. inputPosition
  /\ inputStartX \in 0 .. W /\ inputStartY \in 0 .. H - 1
  /\ commandReady \in BOOLEAN
  /\ Len(history) <= HistMax /\ historyIndex \in 0 .. Len(history)
  /\ \A i \in 1 .. Len(history) : Len(history[i]) \in 1 .. MaxLine

\* While a line is edited the screen shows the prompt, the line, and nothing
\* behind it, and the caret stands at its place in the line; whatever was
\* inserted, removed and recalled in between.
\* README.md:286: "Printable characters are echoed to the screen".
ScreenShowsLine ==
  at = "loop" =>
    /\ \A i \in 1 .. Len(Prompt) : vga.cells[Base - Len(Prompt) + i - 1] = Prompt[i]
    /\ \A i \in 0 .. inputPosition - 1 :
         Base + i \in Cell /\ vga.cells[Base + i] = inputBuffer[i]
    /\ \A j \in Cell : j >= Base + inputPosition => vga.cells[j] = Blank
    /\ vga.y * W + vga.x = Base + (IF commandReady THEN inputPosition ELSE cursorPos)

\* The buffer's characters, moved one by one, and the history are the editor of
\* EditedLine.
Editor == INSTANCE EditedLine WITH line <- Line, caret <- cursorPos,
            entered <- {ran[i] : i \in DOMAIN ran}
ImplementsEditedLine == Editor!Spec

\* Which commands are recorded: not a blank one, nor one that repeats the last
\* before it that was not blank.
Repeats(cmds, i) ==
  \E j \in 1 .. i - 1 : cmds[j] = cmds[i] /\ \A k \in j + 1 .. i - 1 : cmds[k] = <<>>
Recorded(cmds) == {i \in DOMAIN cmds : cmds[i] # <<>> /\ ~Repeats(cmds, i)}

Above(S, i) == Cardinality({j \in S : j > i})

\* The history holds the last HistMax commands, blank ones and immediate
\* repetitions left out, oldest first.
Recent(lines, cmds) ==
  LET all == Cardinality(Recorded(cmds))
  IN /\ Len(lines) = IF all < HistMax THEN all ELSE HistMax
     /\ \A i \in Recorded(cmds) :
          LET since == Above(Recorded(cmds), i)
          IN since < HistMax => lines[Len(lines) - since] = cmds[i]
HistoryIsRecent == Recent(history, ran)
===============================================================================
