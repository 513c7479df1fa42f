------------------------------- MODULE KeyQueue -------------------------------
(***************************************************************************)
(* What the keyboard driver promises to the terminal: the bytes of the     *)
(* keyboard are decoded once each and in the order they came; the keys     *)
(* they stand for pass through one bounded first-in first-out queue; a key *)
(* is lost only when the queue is full at the moment it is decoded.        *)
(*                                                                         *)
(* Keyboard.tla is the driver of interrupts.cpp; it implements this        *)
(* specification when one party alone reads the data port.                 *)
(***************************************************************************)
EXTENDS Naturals, Sequences

CONSTANTS Capacity,  \* keys the queue can hold
          Key,       \* the keys a byte can stand for
          NoKey      \* the meaning of a byte that stands for no key

VARIABLES meaning,   \* meaning[n] is the key of the n-th byte, or NoKey
          decoded,   \* bytes decoded so far
          queue,     \* keys waiting, each with the number of its byte
          got        \* keys handed to the terminal

vars == <<meaning, decoded, queue, got>>

Init == meaning = <<>> /\ decoded = 0 /\ queue = <<>> /\ got = <<>>

\* The keyboard sends a byte; its meaning is fixed by the bytes before it.
Send == /\ \E m \in Key \cup {NoKey} : meaning' = Append(meaning, m)
        /\ UNCHANGED <<decoded, queue, got>>

\* The next byte is decoded; its key is queued, or dropped for want of room.
Decode == /\ decoded < Len(meaning)
          /\ decoded' = decoded + 1
          /\ queue' = IF meaning[decoded + 1] # NoKey /\ Len(queue) < Capacity
                      THEN Append(queue, [byte |-> decoded + 1,
                                          key  |-> meaning[decoded + 1]])
                      ELSE queue
          /\ UNCHANGED <<meaning, got>>

\* The terminal takes the oldest key.
Take == /\ queue # <<>>
        /\ got' = Append(got, Head(queue))
        /\ queue' = Tail(queue)
        /\ UNCHANGED <<meaning, decoded>>

Next == Send \/ Decode \/ Take

Spec == Init /\ [][Next]_vars
===============================================================================
