------------------------------- MODULE EditedLine -------------------------------
(***************************************************************************)
(* What a line editor with recall promises: a line and a caret in it, keys *)
(* that change the line only at the caret, and recall of nothing but lines *)
(* that were entered.  LineEditor implements this.                         *)
(***************************************************************************)
EXTENDS Naturals, SequencesExt

CONSTANTS Chars

VARIABLES line, caret, entered

vars == <<line, caret, entered>>

Init == line = <<>> /\ caret = 0 /\ entered = {}

Insert == /\ \E c \in Chars : line' = InsertAt(line, caret + 1, c)
          /\ caret' = caret + 1
          /\ UNCHANGED entered

\* The character before the caret goes, or the one behind it.
Backspace == /\ caret > 0 /\ line' = RemoveAt(line, caret)
             /\ caret' = caret - 1
             /\ UNCHANGED entered
Delete == /\ caret < Len(line) /\ line' = RemoveAt(line, caret + 1)
          /\ UNCHANGED <<caret, entered>>

Move == caret' \in 0 .. Len(line) /\ UNCHANGED <<line, entered>>

\* An entered line, or an empty one, with the caret behind it.
Recall == /\ line' \in entered \cup {<<>>} /\ caret' = Len(line')
          /\ UNCHANGED entered

Enter == entered' = entered \cup {line} /\ line' = <<>> /\ caret' = 0

Next == Insert \/ Backspace \/ Delete \/ Move \/ Recall \/ Enter

Spec == Init /\ [][Next]_vars
===============================================================================
