------------------------ MODULE CircularBufferProofs ------------------------
(***************************************************************************)
(* The ring holds the newest values for every capacity, content and number *)
(* of pushes.  Index arithmetic is modulo the capacity, and every index    *)
(* the code reduces is below twice the capacity, so the two lemmas on %    *)
(* are all that is needed of it.                                           *)
(***************************************************************************)
EXTENDS CircularBuffer, TLAPS

\* The provers that try a leaf which names none.
USE SMTT(20), ZenonT(30)

\* An index below the capacity is left alone by the reduction.
LEMMA ModSmall == ASSUME NEW n \in Nat \ {0}, NEW x \in 0..(n - 1) PROVE x % n = x
BY SMT

\* An index that passed the end once wraps to the front.
LEMMA ModWrap == ASSUME NEW n \in Nat \ {0}, NEW x \in n..(2 * n - 1) PROVE x % n = x - n
BY SMT

\* The end of a sequence, as a function of its positions.
LEMMA SuffixIs ==
  ASSUME NEW S, NEW s \in Seq(S), NEW a \in 0..Len(s)
  PROVE  SubSeq(s, a + 1, Len(s)) = [i \in 1..(Len(s) - a) |-> s[i + a]]
<1>1. SubSeq(s, a + 1, Len(s)) = [i \in 1..(Len(s) - (a + 1) + 1) |-> s[i + (a + 1) - 1]]
  BY SMT
<1>2. Len(s) - (a + 1) + 1 = Len(s) - a /\ \A i \in Nat : i + (a + 1) - 1 = i + a
  OBVIOUS
<1> QED BY <1>1, <1>2

\* The constructor's buffer is well formed and empty.
THEOREM NewBufferIsEmpty ==
  ASSUME Capacity \in Nat \ {0}, NEW V, NEW n \in Nat
  PROVE  WellFormed(NewBuffer, V) /\ GetRecent(NewBuffer, n) = <<>>
<1>1. WellFormed(NewBuffer, V)
  BY DEF WellFormed, NewBuffer, BufferOf, Slots
<1>2. GetRecent(NewBuffer, n) = <<>>
  BY DEF GetRecent, NewBuffer
<1> QED BY <1>1, <1>2

\* The slot that get_recent reads as the i-th of the newest k values.
Slot(b, k, i) == (((b.write_index + Capacity - k) % Capacity) + i - 1) % Capacity

\* That slot lies k - i + 1 places before the write index, around the ring.
LEMMA SlotIs ==
  ASSUME Capacity \in Nat \ {0}, NEW V, NEW b, WellFormed(b, V),
         NEW k \in 0..b.count, NEW i \in 1..k
  PROVE  /\ Slot(b, k, i) \in Slots
         /\ Slot(b, k, i) = IF b.write_index + i > k THEN b.write_index + i - 1 - k
                            ELSE b.write_index + i - 1 - k + Capacity
<1> DEFINE w == b.write_index
           first == (w + Capacity - k) % Capacity
<1>1. w \in 0..(Capacity - 1) /\ k \in 0..Capacity /\ i \in 1..Capacity /\ i <= k
  BY DEF WellFormed, BufferOf, Slots
<1>2. first = IF w >= k THEN w - k ELSE w - k + Capacity
  <2>1. CASE w >= k
    <3>1. w + Capacity - k \in Capacity..(2 * Capacity - 1)
      BY <1>1, <2>1
    <3> QED BY <1>1, <2>1, <3>1, ModWrap
  <2>2. CASE w < k
    <3>1. w + Capacity - k \in 0..(Capacity - 1)
      BY <1>1, <2>2
    <3> QED BY <1>1, <2>2, <3>1, ModSmall
  <2> QED BY <1>1, <2>1, <2>2
<1>3. first \in 0..(Capacity - 1)
  BY <1>1, <1>2
<1>4. Slot(b, k, i) = (first + i - 1) % Capacity
  BY DEF Slot
<1> HIDE DEF first
<1>5. CASE first + i - 1 < Capacity
  <2>1. first + i - 1 \in 0..(Capacity - 1)
    BY <1>1, <1>3, <1>5
  <2>2. (first + i - 1) % Capacity = first + i - 1
    BY ONLY Capacity \in Nat \ {0}, <2>1, ModSmall
  <2> QED BY <1>1, <1>2, <1>3, <1>4, <1>5, <2>2 DEF Slots
<1>6. CASE first + i - 1 >= Capacity
  <2>1. first + i - 1 \in Capacity..(2 * Capacity - 1)
    BY <1>1, <1>3, <1>6
  <2>2. (first + i - 1) % Capacity = first + i - 1 - Capacity
    <3> DEFINE x == first + i - 1
    <3>1. x \in Capacity..(2 * Capacity - 1)
      BY <2>1
    <3> HIDE DEF x
    <3>2. x % Capacity = x - Capacity
      BY <3>1, ModWrap, ZenonT(30)
    <3> QED BY <1>1, <1>3, <3>2 DEF x
  <2> QED BY <1>1, <1>2, <1>3, <1>4, <1>6, <2>2 DEF Slots
<1> QED BY <1>1, <1>3, <1>5, <1>6

\* push leaves a well-formed ring.
LEMMA PushWellFormed ==
  ASSUME Capacity \in Nat \ {0}, NEW V, NEW b, WellFormed(b, V), NEW v \in V
  PROVE  /\ WellFormed(Push(b, v), V)
         /\ Push(b, v).write_index = IF b.write_index + 1 < Capacity
                                     THEN b.write_index + 1 ELSE 0
<1>1. b.write_index \in 0..(Capacity - 1) /\ b.count \in 0..Capacity
  BY DEF WellFormed, BufferOf, Slots
<1>2. (b.write_index + 1) % Capacity
        = IF b.write_index + 1 < Capacity THEN b.write_index + 1 ELSE 0
  <2>1. CASE b.write_index + 1 < Capacity
    BY <1>1, <2>1, ModSmall
  <2>2. CASE b.write_index + 1 >= Capacity
    <3>1. b.write_index + 1 \in Capacity..(2 * Capacity - 1)
      BY <1>1, <2>2
    <3> QED BY <1>1, <2>2, <3>1, ModWrap
  <2> QED BY <1>1, <2>1, <2>2
<1>3. [b.entries EXCEPT ![b.write_index] = v] \in [Slots -> V \cup {Blank}]
  BY DEF WellFormed, BufferOf
<1> QED BY <1>1, <1>2, <1>3 DEF WellFormed, BufferOf, Slots, Push

\* After any pushes, get_recent(n) returns the last n (at most Capacity) of
\* what was in the buffer followed by the value just pushed: nothing newer is
\* overwritten before something older, at any position of the wrap.
THEOREM PushKeepsNewest ==
  ASSUME Capacity \in Nat \ {0}, NEW V, NEW b, WellFormed(b, V), NEW v \in V, NEW n \in Nat
  PROVE  GetRecent(Push(b, v), n) 
           = Newest(Append(GetRecent(b, Capacity), v), IF n < Capacity THEN n ELSE Capacity)
<1> DEFINE c == Push(b, v)
           old == GetRecent(b, Capacity)
           new == Append(old, v)
           m == IF n < Capacity THEN n ELSE Capacity
           k == IF n < c.count THEN n ELSE c.count
<1>1. /\ b.write_index \in 0..(Capacity - 1) /\ b.count \in 0..Capacity
      /\ b.entries \in [Slots -> V \cup {Blank}]
  BY DEF WellFormed, BufferOf, Slots
<1>2. /\ WellFormed(c, V)
      /\ c.write_index = IF b.write_index + 1 < Capacity THEN b.write_index + 1 ELSE 0
      /\ c.count = IF b.count < Capacity THEN b.count + 1 ELSE b.count
      /\ c.entries = [b.entries EXCEPT ![b.write_index] = v]
  BY PushWellFormed, ZenonT(30) DEF Push
<1>3. old = [i \in 1..b.count |-> b.entries[Slot(b, b.count, i)]]
  BY <1>1 DEF GetRecent, Slot
<1>4. GetRecent(c, n) = [i \in 1..k |-> c.entries[Slot(c, k, i)]]
  BY <1>1, <1>2 DEF GetRecent, Slot
<1>5. \A i \in 1..b.count : Slot(b, b.count, i) \in Slots
  BY <1>1, SlotIs
<1>6. old \in Seq(V \cup {Blank}) /\ Len(old) = b.count
  BY <1>1, <1>3, <1>5
<1>7. new \in Seq(V \cup {Blank}) /\ Len(new) = b.count + 1
  BY <1>6
<1>8. Newest(new, m) = [i \in 1..k |-> new[i + ((b.count + 1) - k)]]
  <2>1. /\ m \in Nat /\ k \in 0..(b.count + 1)
        /\ k = IF m < Len(new) THEN m ELSE Len(new)
    BY <1>1, <1>2, <1>7
  <2> HIDE DEF new, k, m
  <2>2. (IF m < Len(new) THEN Len(new) - m ELSE 0) = (b.count + 1) - k
    BY <1>1, <1>7, <2>1
  <2>3. Newest(new, m) = SubSeq(new, (b.count + 1) - k + 1, b.count + 1)
    BY <1>7, <2>2, Zenon DEF Newest
  <2>4. SubSeq(new, ((b.count + 1) - k) + 1, Len(new))
          = [i \in 1..(Len(new) - ((b.count + 1) - k)) |-> new[i + ((b.count + 1) - k)]]
    <3>1. (b.count + 1) - k \in 0..Len(new)
      BY <1>1, <1>7, <2>1
    <3> QED BY <1>7, <3>1, SuffixIs, ZenonT(30)
  <2>5. Len(new) - ((b.count + 1) - k) = k
    BY <1>1, <1>7, <2>1
  <2> QED BY <1>7, <2>3, <2>4, <2>5, Zenon
<1>9. ASSUME NEW i \in 1..k PROVE c.entries[Slot(c, k, i)] = new[i + ((b.count + 1) - k)]
  <2>1. k \in 0..c.count /\ i \in 1..k
    BY <1>1, <1>2
  <2> HIDE DEF k, new, old, c
  <2>2. Slot(c, k, i) = IF c.write_index + i > k THEN c.write_index + i - 1 - k
                        ELSE c.write_index + i - 1 - k + Capacity
    BY <1>2, <2>1, SlotIs
  <2>3. CASE i = k
    <3>1. Slot(c, k, i) = b.write_index
      BY <1>1, <1>2, <2>1, <2>2, <2>3
    <3>2. new[i + ((b.count + 1) - k)] = v
      BY <1>1, <1>6, <2>1, <2>3 DEF new
    <3> QED BY <1>1, <1>2, <3>1, <3>2 DEF Slots
  <2>4. CASE i < k
    <3> DEFINE j == i + ((b.count + 1) - k)
    <3>1. j \in 1..b.count
      BY <1>1, <1>2, <2>1, <2>4
    <3>2. new[j] = b.entries[Slot(b, b.count, j)]
      <4> HIDE DEF j
      <4>1. new[j] = old[j]
        BY <1>6, <3>1 DEF new
      <4> QED BY <1>3, <3>1, <4>1
    <3>3. Slot(b, b.count, j) = IF b.write_index + j > b.count
                                THEN b.write_index + j - 1 - b.count
                                ELSE b.write_index + j - 1 - b.count + Capacity
      <4>1. b.count \in 0..b.count
        BY <1>1
      <4> HIDE DEF j
      <4> QED BY <3>1, <4>1, SlotIs
    <3>4. Slot(c, k, i) = Slot(b, b.count, j) /\ Slot(c, k, i) # b.write_index
      BY <1>1, <1>2, <2>1, <2>2, <2>4, <3>3
    <3> QED BY <1>1, <1>2, <1>5, <3>1, <3>2, <3>4
  <2> QED BY <2>1, <2>3, <2>4
<1> QED BY <1>4, <1>8, <1>9, ZenonT(30)
=============================================================================
