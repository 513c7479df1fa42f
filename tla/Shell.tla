-------------------------------- MODULE Shell --------------------------------
(***************************************************************************)
(* Terminal::run (src/libc/terminal.cpp): the one loop that reads keys,    *)
(* drives the DHCP client, reports its outcome and runs commands, composed *)
(* with DhcpClient.                                                        *)
(*                                                                         *)
(* The keyboard is the bounded queue KeyQueue promises: what is typed      *)
(* while it is full is lost, Enter included.  The line being edited is the *)
(* sequence of its characters (LineEditor has the editing keys); a full    *)
(* buffer takes no more of them.  A line is the dhcp command, a network    *)
(* command or anything else.                                               *)
(***************************************************************************)
EXTENDS DhcpClient, Sequences

CONSTANTS QueueCap,  \* keys the queue holds (63 in the code)
          MaxLine,   \* characters the line holds (255)
          MaxKeys    \* bound: keys typed

\* One character is enough to name a command: "d" is dhcp, "n" a command that
\* polls the network card while it runs.
Char == {"d", "n"}
Enter == "enter"

ASSUME MaxKeysAssumption == MaxKeys \in Nat
ASSUME LimitsAssumption == QueueCap \in Nat /\ MaxLine \in Nat

VARIABLES
  keys,           \* the key queue
  inputBuffer,    \* the line being edited
  commandReady,   \* Enter was read
  lastDhcpState,  \* the client state the terminal last looked at
  executed,       \* the lines given to processCommand, a history
  entered, typing,\* the lines ended with Enter so far and the unfinished one,
                  \* as the keys that found room spell them, a history
  pressed         \* how many keys were typed

shellVars == <<keys, inputBuffer, commandReady, lastDhcpState, executed, entered,
               typing, pressed>>
allVars == <<dhcpVars, shellVars>>

Line == Seq(Char)

ShellInit ==
  /\ DhcpInit
  /\ keys = <<>> /\ inputBuffer = <<>> /\ commandReady = FALSE
  /\ lastDhcpState = 0 /\ executed = <<>>
  /\ entered = <<>> /\ typing = <<>> /\ pressed = 0

\* The user types, at any moment.  The handler drops the newest key when the
\* queue is full.
TypeKey ==
  /\ pressed < MaxKeys /\ pressed' = pressed + 1
  /\ \/ /\ Len(keys) < QueueCap
        /\ \E c \in Char : /\ keys' = Append(keys, c)
                           /\ typing' = Append(typing, c)
        /\ UNCHANGED entered
     \/ /\ Len(keys) < QueueCap
        /\ keys' = Append(keys, Enter)
        /\ entered' = Append(entered, typing)
        /\ typing' = <<>>
     \/ Len(keys) >= QueueCap /\ UNCHANGED <<keys, entered, typing>>
  /\ UNCHANGED <<dhcpVars, inputBuffer, commandReady, lastDhcpState, executed>>

\* What a character makes of the line: a full one drops it.
Longer(line, c) == IF Len(line) < MaxLine THEN Append(line, c) ELSE line

\* A mutant: the drain does not stop at Enter.
HandleKeyPastEnter ==
  /\ at = "keys" /\ keys # <<>>
  /\ keys' = Tail(keys)
  /\ IF Head(keys) = Enter
     THEN commandReady' = TRUE /\ UNCHANGED inputBuffer
     ELSE inputBuffer' = Longer(inputBuffer, Head(keys)) /\ UNCHANGED commandReady
  /\ UNCHANGED <<dhcpVars, lastDhcpState, executed, entered, typing, pressed>>

\* handleChar for a printable character and for Enter
HandleKey ==
  /\ at = "keys" /\ ~commandReady /\ keys # <<>>
  /\ keys' = Tail(keys)
  /\ IF Head(keys) = Enter
     THEN commandReady' = TRUE /\ UNCHANGED inputBuffer
     ELSE inputBuffer' = Longer(inputBuffer, Head(keys)) /\ UNCHANGED commandReady
  /\ UNCHANGED <<dhcpVars, lastDhcpState, executed, entered, typing, pressed>>

\* A mutant: the loop goes on only when every key is drained.
BeginTickWhenDrained ==
  /\ keys = <<>>
  /\ TickEnter
  /\ UNCHANGED shellVars

\* tickDhcp, once the keys are drained or a command is ready
BeginTick ==
  /\ commandReady \/ keys = <<>>
  /\ TickEnter
  /\ UNCHANGED shellVars
EndTick == TickDecide /\ UNCHANGED shellVars
Receive == ReceiveFrame /\ UNCHANGED shellVars

\* A mutant: success is not taken for a change of state.
NoticeFailureOnly ==
  /\ at = "ready" /\ dhcpState # lastDhcpState /\ dhcpState # 3
  /\ lastDhcpState' = dhcpState
  /\ inputBuffer' = IF dhcpState = 4 THEN <<>> ELSE inputBuffer
  /\ UNCHANGED <<dhcpVars, keys, commandReady, executed, entered, typing,
                 pressed>>

\* The terminal notices that the client changed state.  On success and on
\* failure it prints a report and calls showPrompt, which empties the line.
Notice ==
  /\ at = "ready" /\ dhcpState # lastDhcpState
  /\ lastDhcpState' = dhcpState
  /\ inputBuffer' = IF dhcpState \in {3, 4} THEN <<>> ELSE inputBuffer
  /\ UNCHANGED <<dhcpVars, keys, commandReady, executed, entered, typing,
                 pressed>>

Noticed == at = "ready" /\ dhcpState = lastDhcpState

\* What every command leaves: the line is gone and a prompt is shown.
LineDone == /\ executed' = Append(executed, inputBuffer)
            /\ inputBuffer' = <<>> /\ commandReady' = FALSE
            /\ UNCHANGED <<keys, entered, typing, pressed>>

\* cmdDhcp: startDhcp, and the terminal looks at the new state at once
RunDhcp ==
  /\ Noticed /\ commandReady /\ inputBuffer = <<"d">>
  /\ \E sent \in BOOLEAN : StartDhcp(sent)
  /\ lastDhcpState' = dhcpState'
  /\ LineDone

\* A command that polls the network card until it returns
RunNetCommand ==
  /\ Noticed /\ commandReady /\ inputBuffer = <<"n">>
  /\ NetCommandBegin
  /\ LineDone /\ UNCHANGED lastDhcpState
EndNetCommand == NetCommandEnd /\ UNCHANGED shellVars

\* An empty line, or one processCommand does not know
RunOther ==
  /\ Noticed /\ commandReady /\ inputBuffer \notin {<<"d">>, <<"n">>}
  /\ NoCommand
  /\ LineDone /\ UNCHANGED lastDhcpState

\* No command is ready: once more round the loop.
NextTurn ==
  /\ Noticed /\ ~commandReady
  /\ NoCommand
  /\ UNCHANGED shellVars

RunLoop == \/ HandleKey \/ BeginTick \/ EndTick \/ Notice
           \/ RunDhcp \/ RunNetCommand \/ EndNetCommand \/ RunOther \/ NextTurn

Outside == (Timer \/ ServerOffer \/ ServerAnswer) /\ UNCHANGED shellVars

ShellNext == TypeKey \/ Receive \/ RunLoop \/ Outside

ShellSpec == ShellInit /\ [][ShellNext]_allVars

\* The loop keeps turning.
ShellFairSpec == ShellSpec /\ WF_allVars(RunLoop)

-------------------------------------------------------------------------------
\* What the buffer keeps of the first k characters of a line t: their end, as far
\* back as it was emptied last, or as many of them as it takes.
Keeps(s, t, k) ==
  /\ k <= Len(t)
  /\ \E i \in 0 .. Len(t) :
       /\ i + Len(s) = k \/ (i + Len(s) < k /\ Len(s) = MaxLine)
       /\ \A j \in 1 .. Len(s) : s[j] = t[i + j]

\* Lines run in the order they were entered, one command for each Enter, and
\* never with characters of another line: a key typed after Enter waits for the
\* next prompt, and one that finds no room in a full line is left out, not moved
\* to the next.  (The report of the DHCP client may still take the beginning of
\* a line, see EnteredLinesRun.)
LinesInOrder ==
  /\ Len(executed) <= Len(entered)
  /\ \A n \in 1 .. Len(executed) : Keeps(executed[n], entered[n], Len(entered[n]))

\* terminal.cpp:1646 tells the user of dhcp "You can keep typing": a line that
\* was entered is run as it was typed, as far as the buffer takes it.
EnteredLinesRun ==
  \A n \in 1 .. Len(executed) :
    executed[n] = SubSeq(entered[n], 1,
                         IF Len(entered[n]) < MaxLine THEN Len(entered[n]) ELSE MaxLine)

\* Every line that is entered is run, also while a DHCP exchange goes on.
EveryLineRuns ==
  \A n \in 1 .. MaxKeys : Len(entered) >= n ~> Len(executed) >= n

\* The outcome of a DHCP exchange is reported.
OutcomeReported ==
  \A s \in {3, 4} : dhcpState = s ~> lastDhcpState = s
===============================================================================
