--------------------------- MODULE CircularBuffer ---------------------------
(***************************************************************************)
(* CircularBuffer of src/src/storage/circular_buffer.h: a ring of fixed    *)
(* size that keeps the newest values.  The class is not thread-safe and    *)
(* its users hold a mutex around every call, so its operations are         *)
(* functions of the buffer, a record of its three members.                 *)
(*                                                                         *)
(* Definitions named Bug... are plausible mistakes in the definition that  *)
(* follows them.                                                           *)
(***************************************************************************)
EXTENDS Naturals, Sequences

CONSTANTS
  Capacity,   \* entries.size(), positive: the constructor refuses zero
  Blank       \* a default-constructed entry

Slots == 0..(Capacity - 1)

NewBuffer == [entries |-> [i \in Slots |-> Blank], write_index |-> 0, count |-> 0]

BugPushOverwritesNewest(b, v) ==
  IF b.count < Capacity
  THEN [entries |-> [b.entries EXCEPT ![b.write_index] = v],
        write_index |-> (b.write_index + 1) % Capacity, count |-> b.count + 1]
  ELSE [b EXCEPT !.entries = [@ EXCEPT ![(b.write_index + Capacity - 1) % Capacity] = v]]

Push(b, v) ==
  [entries |-> [b.entries EXCEPT ![b.write_index] = v],
   write_index |-> (b.write_index + 1) % Capacity,
   count |-> IF b.count < Capacity THEN b.count + 1 ELSE b.count]

BugRecentFromWriteIndex(b, n) ==
  LET result_size == IF n < b.count THEN n ELSE b.count
  IN [i \in 1..result_size |-> b.entries[(b.write_index + i - 1) % Capacity]]

\* get_recent: the newest n values, or all of them, oldest first.
GetRecent(b, n) ==
  LET result_size == IF n < b.count THEN n ELSE b.count
      first == (b.write_index + Capacity - result_size) % Capacity
  IN [i \in 1..result_size |-> b.entries[(first + i - 1) % Capacity]]

-----------------------------------------------------------------------------
\* The last n elements of a sequence, or all of it.
Newest(s, n) == SubSeq(s, (IF n < Len(s) THEN Len(s) - n ELSE 0) + 1, Len(s))

\* A buffer of values in V as its constructor and push leave it.
BufferOf(V) ==
  [entries : [Slots -> V \cup {Blank}], write_index : Slots, count : 0..Capacity]

WellFormed(b, V) == b \in BufferOf(V) /\ (b.count < Capacity => b.write_index = b.count)
=============================================================================
