---------------------------- MODULE HandoverBuffer ----------------------------
(***************************************************************************)
(* What a one-place command hand-over promises, whatever words it is made  *)
(* of: the receiver is handed exactly the commands that were put, whole,   *)
(* each once, in the order they were put.  The mailbox's command slot is   *)
(* shown to implement it for commands that wait while the slot is busy.    *)
(***************************************************************************)
EXTENDS Sequences

CONSTANTS Commands,  \* the commands that may be put, records with an id
          Empty      \* the empty place

VARIABLES place,     \* the command waiting, or Empty
          received,  \* what the receiver was handed, in order
          used       \* the ids put so far

BufferInit == place = Empty /\ received = <<>> /\ used = {}

Put == /\ place = Empty
       /\ \E c \in Commands : /\ c.id \notin used
                             /\ place' = c
                             /\ used' = used \cup {c.id}
       /\ UNCHANGED received

Get == /\ place # Empty
       /\ received' = Append(received, place)
       /\ place' = Empty
       /\ UNCHANGED used

BufferSpec == BufferInit /\ [][Put \/ Get]_<<place, received, used>>
===============================================================================
