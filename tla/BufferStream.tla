----------------------------- MODULE BufferStream -----------------------------
(* What the acquisition promises, without indices, flags and queues: no    *)
(* more than Window buffers are asked for and not received, none comes     *)
(* that was not asked for, and the recorder takes and records each once    *)
(* and in order.  It may take another, or one that changes in its hand,    *)
(* only when the receiver is the size of the ring ahead of it.             *)
EXTENDS Integers

CONSTANTS
  Window,   \* requests that may stand
  Ring      \* buffers

VARIABLES
  asked,      \* buffers asked for
  received,   \* buffers received
  stored,     \* buffers recorded
  hand        \* the buffer being recorded: a set of at most one

vars == <<asked, received, stored, hand>>

Init == asked = 0 /\ received = 0 /\ stored = 0 /\ hand = {}

Ask ==
  \E n \in 1 .. Window :
    /\ asked' = asked + n /\ asked' <= received + Window
    /\ UNCHANGED <<received, stored, hand>>

Lapped == received - stored >= Ring
Spoil  == Lapped /\ hand # {} /\ hand' # {}

(* The next buffer is being received, over the one in the recorder's hand. *)
Tear == Spoil /\ UNCHANGED <<asked, received, stored>>

Receive ==
  /\ received < asked /\ received' = received + 1
  /\ Spoil \/ UNCHANGED hand
  /\ UNCHANGED <<asked, stored>>

Take ==
  /\ hand = {} /\ stored < received
  /\ hand' = {stored} \/ (Lapped /\ hand' # {})
  /\ UNCHANGED <<asked, received, stored>>

Record ==
  /\ hand # {} /\ hand' = {} /\ stored' = stored + 1
  /\ UNCHANGED <<asked, received>>

Next == Ask \/ Tear \/ Receive \/ Take \/ Record
Spec == Init /\ [][Next]_vars
===============================================================================
