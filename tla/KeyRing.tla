------------------------------- MODULE KeyRing -------------------------------
(***************************************************************************)
(* The ring of src/drivers/keyboard.c between the keyboard interrupt,      *)
(* which pushes, and the shell process, which reads. Neither looks whether *)
(* the ring is full. keyboard_push runs in the handler and is atomic; a    *)
(* push may come between any two accesses of keyboard_read.                *)
(*                                                                         *)
(* A key is the number of keys typed until then, itself included, so that  *)
(* two presses of the same key can be told apart.                          *)
(***************************************************************************)
EXTENDS Integers

CONSTANT Size     \* KB_BUFFER_SIZE, 1096

ASSUME SizeAssumption == Size \in Nat \ {0}

VARIABLES
    kb_buffer, kb_read_pos, kb_write_pos,
    typed,        \* history: how many keys were pushed
    delivered,    \* history: the key keyboard_read has taken last
    reader        \* where keyboard_read is

ringVars == <<kb_buffer, kb_read_pos, kb_write_pos, typed, delivered, reader>>

RingInit ==
    /\ kb_buffer = [i \in 0 .. Size - 1 |-> 0]
    /\ kb_read_pos = 0 /\ kb_write_pos = 0
    /\ typed = 0 /\ delivered = 0
    /\ reader = "wait"

\* keyboard_push
Push ==
    /\ kb_buffer' = [kb_buffer EXCEPT ![kb_write_pos] = typed + 1]
    /\ kb_write_pos' = (kb_write_pos + 1) % Size
    /\ typed' = typed + 1
    /\ UNCHANGED <<kb_read_pos, delivered, reader>>

\* As ReadSees, had keyboard_read taken a ring with one key for an empty one.
ReadSeesTwo ==
    /\ reader = "wait" /\ kb_read_pos # kb_write_pos
    /\ (kb_read_pos + 1) % Size # kb_write_pos
    /\ reader' = "load"
    /\ UNCHANGED <<kb_buffer, kb_read_pos, kb_write_pos, typed, delivered>>

\* while (kb_read_pos == kb_write_pos); is left
ReadSees ==
    /\ reader = "wait" /\ kb_read_pos # kb_write_pos
    /\ reader' = "load"
    /\ UNCHANGED <<kb_buffer, kb_read_pos, kb_write_pos, typed, delivered>>

ReadLoads ==
    /\ reader = "load"
    /\ delivered' = kb_buffer[kb_read_pos]
    /\ reader' = "advance"
    /\ UNCHANGED <<kb_buffer, kb_read_pos, kb_write_pos, typed>>

\* As ReadAdvances, had keyboard_read gone on from the place of the last push.
ReadAdvancesToWrite ==
    /\ reader = "advance"
    /\ kb_read_pos' = (kb_write_pos + Size - 1) % Size
    /\ reader' = "wait"
    /\ UNCHANGED <<kb_buffer, kb_write_pos, typed, delivered>>

ReadAdvances ==
    /\ reader = "advance"
    /\ kb_read_pos' = (kb_read_pos + 1) % Size
    /\ reader' = "wait"
    /\ UNCHANGED <<kb_buffer, kb_write_pos, typed, delivered>>

Read == ReadSees \/ ReadLoads \/ ReadAdvances

RingSpec == RingInit /\ [][Push \/ Read]_ringVars

-----------------------------------------------------------------------------

\* Positions stay inside the buffer (keyboard.c:167, 174).
RingTypeOK ==
    /\ kb_buffer \in [0 .. Size - 1 -> Nat]
    /\ kb_read_pos \in 0 .. Size - 1 /\ kb_write_pos \in 0 .. Size - 1
    /\ typed \in Nat /\ delivered \in Nat
    /\ reader \in {"wait", "load", "advance"}

\* The ring is a KeyStream, whatever pushes fall between the steps of
\* keyboard_read, and also when it overflows: then a whole ring of keys is lost,
\* and never a key repeated or moved (keyboard.c:165-176).
Stream == INSTANCE KeyStream

IsKeyStream == Stream!Spec

\* Every key arrives, unless the ring overflowed meanwhile (keyboard.c:171).
KeyArrives(k) == (typed >= k) ~> (delivered >= k \/ typed - delivered >= Size)

=============================================================================
