------------------------------ MODULE MmapLog ------------------------------
(***************************************************************************)
(* The segmented memory-mapped log of src/src/storage/mmap_log.cpp with    *)
(* its recent-message cache, under process crashes and power failures.     *)
(*                                                                         *)
(* A segment is a header and SegmentUnits units of data.  A record of size *)
(* n takes n units: one for its header, whose CRC identifies the payload,  *)
(* and n - 1 for the payload.  Offsets and positions count units.          *)
(*                                                                         *)
(* files is what the process and a restarted process see (the page cache), *)
(* disk is what has been synchronized.  A process crash keeps files.  A    *)
(* power failure leaves, unit by unit, the synchronized or the newer       *)
(* content, or a torn write of it.  Every public operation holds the       *)
(* mutex, so its steps are visible only to crashes.                        *)
(*                                                                         *)
(* Definitions named Bug... are plausible mistakes in the definition that  *)
(* follows them.  Nothing refers to them; put in its place, each breaks a  *)
(* property below.                                                         *)
(***************************************************************************)
EXTENDS Naturals, Sequences, SequencesExt

CONSTANTS
  Ids,                 \* distinguishes payloads (and timestamps)
  Sizes,               \* record sizes in units, header included
  SegmentUnits,        \* units of data in a segment
  MaxSegments,         \* maximum_segment_id
  RecentCapacity,      \* recent_capacity
  NoMessage            \* no append in progress

ASSUME LogAssumption ==
  /\ SegmentUnits \in Nat \ {0} /\ MaxSegments \in Nat \ {0} /\ RecentCapacity \in Nat \ {0}
  /\ Sizes \subseteq 1..SegmentUnits

VARIABLES
  files, disk,
  linked,               \* files whose directory entry is durable
  logPc,                \* where the log's code is
  appending,            \* the argument of the append in progress
  next_message_offset,
  write_position,       \* of the active mapping, 1-based
  segment_index,
  recent_cache

memoryVars == <<next_message_offset, write_position, segment_index, recent_cache>>
vars == <<files, disk, linked, logPc, appending, memoryVars>>

Messages == [id : Ids, size : Sizes]
Positions == 1..SegmentUnits
Zero == [kind |-> "zero"]
Torn == [kind |-> "torn"]
Body(id) == [kind |-> "body", id |-> id]
RecordHeader(m, offset) == [kind |-> "header", offset |-> offset, message |-> m]
EmptyData == [p \in Positions |-> Zero]
NoHeader == {}          \* a segment header that does not validate
Header(base) == {base}  \* a valid one

Active == Len(files)

-----------------------------------------------------------------------------
(* scan_segment and recover_or_create, as functions of the files.          *)

BugRecordUnchecked(data, p, offset) ==
  /\ p \in Positions
  /\ data[p].kind = "header"
  /\ data[p].offset = offset
  /\ p + data[p].message.size <= SegmentUnits + 1

\* A record is valid when its header carries the expected offset, it fits in
\* the segment and its payload matches the CRC.
ValidRecord(data, p, offset) ==
  /\ p \in Positions
  /\ data[p].kind = "header"
  /\ data[p].offset = offset
  /\ p + data[p].message.size <= SegmentUnits + 1
  /\ \A q \in (p + 1)..(p + data[p].message.size - 1) : data[q] = Body(data[p].message.id)

\* The positions of the valid records from position 1 on, in order.
RecordStarts(data, base) ==
  LET from[p \in 1..(SegmentUnits + 1)] ==
        IF ValidRecord(data, p, base + p - 1)
        THEN <<p>> \o from[p + data[p].message.size] ELSE <<>>
  IN from[1]

ZeroFrom(data, p) == \A q \in p..SegmentUnits : data[q] = Zero

\* The payload that is read back with a record.
MessageAt(data, p) ==
  LET m == data[p].message IN
  IF \A q \in (p + 1)..(p + m.size - 1) : data[q] = Body(m.id)
  THEN m ELSE [m EXCEPT !.id = "garbage"]

\* scan_segment on a segment that has to start at offset base: where its valid
\* records end, their messages, and whether the header and, in a sealed
\* segment, the zero padding are as they should be.  The records behind a bad
\* header are not looked at.
ScanSegment(segment, base, is_latest) ==
  LET named == segment.header = Header(base)
      starts == IF named THEN RecordStarts(segment.data, base) ELSE <<>>
      end == IF starts = <<>> THEN 1
             ELSE Last(starts) + segment.data[Last(starts)].message.size
  IN [end |-> end, first |-> base, next |-> base + end - 1,
      messages |-> [k \in DOMAIN starts |-> MessageAt(segment.data, starts[k])],
      valid |-> named /\ (is_latest \/ ZeroFrom(segment.data, end))]

\* The scan of all segments, each starting at the offset the one before it
\* ends at.
Scan(image) ==
  LET scan[i \in 0..Len(image)] ==
        IF i = 0 THEN <<>>
        ELSE LET before == scan[i - 1]
                 base == IF before = <<>> THEN 0 ELSE Last(before).next
             IN Append(before, ScanSegment(image[i], base, i = Len(image)))
  IN scan[Len(image)]

Recoverable(image) == LET scan == Scan(image) IN \A i \in DOMAIN scan : scan[i].valid

\* The messages of scanned segments, oldest first, and the index built of them.
MessagesOf(scan) ==
  LET upTo[i \in 0..Len(scan)] == IF i = 0 THEN <<>> ELSE upTo[i - 1] \o scan[i].messages
  IN upTo[Len(scan)]

LogOf(image) == MessagesOf(Scan(image))

IndexOf(scan) == [i \in DOMAIN scan |-> [first |-> scan[i].first, end |-> scan[i].next]]

\* The recent-message cache, and what a scan leaves in it.
Ring == INSTANCE CircularBuffer WITH Capacity <- RecentCapacity, Blank <- NoMessage

CacheOf(messages) == FoldLeft(Ring!Push, Ring!NewBuffer, messages)

-----------------------------------------------------------------------------
NoMemory ==
  /\ next_message_offset' = 0 /\ write_position' = 1
  /\ segment_index' = <<>> /\ recent_cache' = Ring!NewBuffer

Init ==
  /\ files = <<>> /\ disk = <<>> /\ linked = 0
  /\ logPc = "closed" /\ appending = NoMessage
  /\ next_message_offset = 0 /\ write_position = 1
  /\ segment_index = <<>> /\ recent_cache = Ring!NewBuffer

\* open() on an empty directory goes on to create segment 1.
OpenEmpty ==
  /\ logPc = "closed"
  /\ files = <<>>
  /\ NoMemory
  /\ logPc' = "create"
  /\ UNCHANGED <<files, disk, linked, appending>>

\* The newest segment with everything after its valid records truncated.
Truncated(image, kept) ==
  [image EXCEPT ![Len(image)].data =
    [p \in Positions |-> IF p < kept THEN @[p] ELSE Zero]]

\* open() on a directory that recovers: scan, truncate the newest segment, map
\* it at its full size; if mapping fails the log stays closed.  The code does
\* not synchronize the truncation.  The file system is assumed to order it
\* before later writes to the file; a failure that loses it with all of those
\* leads back to a state the files were already in.
OpenExisting ==
  /\ logPc = "closed"
  /\ files # <<>>
  /\ Recoverable(files)
  /\ LET scan == Scan(files)
         end == scan[Active].end
     IN /\ files' = Truncated(files, end)
        /\ disk' = IF ZeroFrom(files[Active].data, end) THEN disk ELSE Truncated(disk, end)
        /\ next_message_offset' = scan[Active].next
        /\ write_position' = end
        /\ segment_index' = IndexOf(scan)
        /\ recent_cache' = CacheOf(MessagesOf(scan))
  /\ logPc' \in {"open", "closed"}
  /\ UNCHANGED <<linked, appending>>

\* open() throws at the first segment that does not scan.
OpenFails ==
  /\ logPc = "closed"
  /\ ~Recoverable(files)
  /\ LET scan == Scan(files)
         bad == Min({i \in DOMAIN scan : ~scan[i].valid})
     IN /\ segment_index' = IndexOf(SubSeq(scan, 1, bad - 1))
        /\ recent_cache' = CacheOf(MessagesOf(SubSeq(scan, 1, bad)))
  /\ next_message_offset' = 0
  /\ UNCHANGED <<files, disk, linked, logPc, appending, write_position>>

-----------------------------------------------------------------------------
(* append                                                                  *)

BugFitsOffByOne(m) == write_position + m.size <= SegmentUnits + 2
Fits(m) == write_position + m.size <= SegmentUnits + 1

\* append(m) begins, unless the segment ids are exhausted.
AppendCall(m) ==
  /\ logPc = "open" /\ appending = NoMessage
  /\ Fits(m) \/ Active < MaxSegments
  /\ appending' = m
  /\ UNCHANGED <<files, disk, linked, logPc, memoryVars>>

\* Rollover: unmap_active(true) synchronizes the full segment.
BugRolloverUnsynced ==
  /\ logPc = "open" /\ appending # NoMessage
  /\ ~Fits(appending)
  /\ logPc' = "create"
  /\ UNCHANGED <<files, disk, linked, appending, memoryVars>>
Rollover ==
  /\ logPc = "open" /\ appending # NoMessage
  /\ ~Fits(appending)
  /\ disk' = [disk EXCEPT ![Active] = files[Active]]
  /\ logPc' = "create"
  /\ UNCHANGED <<files, linked, appending, memoryVars>>

\* The synchronization fails: the log is closed (opened = false).
RolloverFails ==
  /\ logPc = "open" /\ appending # NoMessage
  /\ ~Fits(appending)
  /\ logPc' = "closed"
  /\ appending' = NoMessage
  /\ UNCHANGED <<files, disk, linked, memoryVars>>

\* The message is cached and its payload copied behind the record header.
AppendPayload ==
  /\ logPc = "open" /\ appending # NoMessage
  /\ Fits(appending)
  /\ recent_cache' = Ring!Push(recent_cache, appending)
  /\ files' = [files EXCEPT ![Active].data =
       [p \in Positions |->
          IF p \in (write_position + 1)..(write_position + appending.size - 1)
          THEN Body(appending.id) ELSE @[p]]]
  /\ logPc' = "payload"
  /\ UNCHANGED <<disk, linked, appending, next_message_offset, write_position, segment_index>>

\* The record header makes the record valid; append returns.
AppendHeader ==
  /\ logPc = "payload"
  /\ files' = [files EXCEPT ![Active].data =
       [@ EXCEPT ![write_position] = RecordHeader(appending, next_message_offset)]]
  /\ write_position' = write_position + appending.size
  /\ next_message_offset' = next_message_offset + appending.size
  /\ segment_index' = [segment_index EXCEPT ![Active].end = next_message_offset']
  /\ logPc' = "open"
  /\ appending' = NoMessage
  /\ UNCHANGED <<disk, linked, recent_cache>>

-----------------------------------------------------------------------------
(* create_segment                                                          *)

\* open(O_EXCL), ftruncate and mmap: a file of zeros.
CreateFile ==
  /\ logPc = "create"
  /\ files' = Append(files, [header |-> NoHeader, data |-> EmptyData])
  /\ disk' = Append(disk, [header |-> NoHeader, data |-> EmptyData])
  /\ logPc' = "created"
  /\ UNCHANGED <<linked, appending, memoryVars>>

WriteHeader ==
  /\ logPc = "created"
  /\ files' = [files EXCEPT ![Active].header = Header(next_message_offset)]
  /\ write_position' = 1
  /\ logPc' = "header"
  /\ UNCHANGED <<disk, linked, appending, next_message_offset, segment_index, recent_cache>>

SyncFile ==
  /\ logPc = "header"
  /\ disk' = [disk EXCEPT ![Active] = files[Active]]
  /\ logPc' = "synced"
  /\ UNCHANGED <<files, linked, appending, memoryVars>>

\* fsync of the directory; the segment enters the index.
SyncDirectory ==
  /\ logPc = "synced"
  /\ linked' = Active
  /\ segment_index' = Append(segment_index,
       [first |-> next_message_offset, end |-> next_message_offset])
  /\ logPc' = "open"
  /\ UNCHANGED <<files, disk, appending, next_message_offset, write_position, recent_cache>>

\* Any of those calls fails: the file is removed again and the log is closed.
CreateFails ==
  /\ logPc \in {"create", "created", "header", "synced"}
  /\ IF logPc = "create" THEN UNCHANGED <<files, disk>>
     ELSE files' = Front(files) /\ disk' = Front(disk)
  /\ logPc' = "closed"
  /\ appending' = NoMessage
  /\ UNCHANGED <<linked, memoryVars>>

-----------------------------------------------------------------------------
(* flush, close, crashes                                                   *)

Flush ==
  /\ logPc = "open" /\ appending = NoMessage
  /\ disk' = [disk EXCEPT ![Active] = files[Active]]
  /\ UNCHANGED <<files, linked, logPc, appending, memoryVars>>

\* close() leaves the index and the cache as they are.  Its synchronization
\* may fail; the log is closed all the same.
Close ==
  /\ logPc = "open" /\ appending = NoMessage
  /\ disk' \in {disk, [disk EXCEPT ![Active] = files[Active]]}
  /\ logPc' = "closed"
  /\ UNCHANGED <<files, linked, appending, memoryVars>>

\* The process ends at any point; what it wrote stays in the page cache.
ProcessCrash ==
  /\ logPc # "closed"
  /\ logPc' = "closed"
  /\ appending' = NoMessage
  /\ NoMemory
  /\ UNCHANGED <<files, disk, linked>>

Unsynced == {<<i, p>> \in (1..Len(files)) \X Positions : disk[i].data[p] # files[i].data[p]}

\* Every unit that was not synchronized is old, new or torn, a header is old
\* or new, and a directory entry that was not synchronized may be missing
\* (entries are assumed to become durable in the order of creation).
PowerFailure ==
  /\ \E n \in linked..Len(files), left \in [Unsynced -> {"old", "new", "torn"}],
        written \in SUBSET {i \in 1..Len(files) : disk[i].header # files[i].header} :
       /\ files' = [i \in 1..n |->
            [header |-> IF i \in written THEN files[i].header ELSE disk[i].header,
             data |-> [p \in Positions |->
               IF <<i, p>> \notin Unsynced \/ left[<<i, p>>] = "old" THEN disk[i].data[p]
               ELSE IF left[<<i, p>>] = "new" THEN files[i].data[p] ELSE Torn]]]
       /\ linked' = n
  /\ disk' = files'
  /\ logPc' = "closed"
  /\ appending' = NoMessage
  /\ NoMemory

Next ==
  \/ OpenEmpty
  \/ OpenExisting
  \/ OpenFails
  \/ \E m \in Messages : AppendCall(m)
  \/ Rollover
  \/ RolloverFails
  \/ AppendPayload
  \/ AppendHeader
  \/ CreateFile
  \/ WriteHeader
  \/ SyncFile
  \/ SyncDirectory
  \/ CreateFails
  \/ Flush
  \/ Close
  \/ ProcessCrash
  \/ PowerFailure

Spec == Init /\ [][Next]_vars

-----------------------------------------------------------------------------
Units ==
  {Zero, Torn} \cup {Body(i) : i \in Ids}
  \cup {RecordHeader(m, o) : m \in Messages, o \in 0..(MaxSegments * SegmentUnits)}
Segments ==
  [header : {NoHeader} \cup {Header(b) : b \in 0..(MaxSegments * SegmentUnits)},
   data : [Positions -> Units]]

\* Every variable has its type; the write position never passes the segment.
TypeOK ==
  /\ files \in Seq(Segments) /\ Len(files) <= MaxSegments
  /\ disk \in Seq(Segments) /\ Len(disk) = Len(files)
  /\ linked \in 0..Len(files)
  /\ logPc \in {"closed", "open", "payload", "create", "created", "header", "synced"}
  /\ appending \in Messages \cup {NoMessage}
  /\ next_message_offset \in Nat
  /\ write_position \in 1..(SegmentUnits + 1)
  /\ segment_index \in Seq([first : Nat, end : Nat])
  /\ recent_cache \in Ring!BufferOf(Messages)

\* Between two operations the memory of an open log (next offset, write
\* position, segment index and what get_recent(n) answers for any n) is what a
\* restart would rebuild from the files, after any sequence of appends,
\* rollovers, recoveries and wraps of the ring.
MemoryMatchesFiles ==
  logPc = "open" /\ appending = NoMessage =>
    LET scan == Scan(files) IN
    /\ Recoverable(files)
    /\ next_message_offset = scan[Active].next
    /\ write_position = scan[Active].end
    /\ ZeroFrom(files[Active].data, write_position)
    /\ segment_index = IndexOf(scan)
    /\ \A n \in 0..(RecentCapacity + 1) :
         Ring!GetRecent(recent_cache, n)
           = Ring!Newest(MessagesOf(scan), IF n < RecentCapacity THEN n ELSE RecentCapacity)

\* Whatever a crash or a power failure interrupts, the files recover, except
\* that the header of a newest segment still being created may be missing:
\* a sealed segment is never found corrupt and offsets never have a gap.
OnlyHeaderBlocksRestart ==
  Recoverable(files) \/ (files # <<>> /\ files[Active].header = NoHeader
                         /\ Recoverable(Front(files)))

\* How many messages of an image are in files whose directory entry is durable.
DurableCount(image, entries) == Len(LogOf(SubSeq(image, 1, entries)))

\* "not guaranteed durable until flush() ... completes successfully": once
\* flush() returns, no message in the log can be lost to a power failure.
FlushIsDurable == [][Flush => DurableCount(disk', linked') = Len(LogOf(files'))]_vars
=============================================================================
