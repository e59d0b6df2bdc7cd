------------------------------ MODULE EvtxFile ------------------------------
(***************************************************************************)
(* winlog::parse_stream: the walk over the chunks of an EVTX file and over *)
(* the records of each chunk. The bytes are left out: what a header or a   *)
(* record claims is chosen when it is read, and it is read once. What      *)
(* decode_binxml makes of a record is the subject of BinXml; here it is    *)
(* the time TimeCreated tells, if any.                                     *)
(***************************************************************************)
EXTENDS EventStream, DiagnosticSink

CONSTANTS
  FileHeaderSize, ChunkSize, ChunkHeaderSize,
  RecordMinSize,         \* the header of a record
  RecordFraming,         \* that and the copy of the size behind it
  MaxChunks, MaxRecords, \* opts.max_chunks, opts.max_records
  FileSizes,             \* how many bytes a file may have
  FreeOffsets, Sizes,    \* what a chunk header and a record may claim
  Ids, Stamps            \* record ids and times a record may carry

ASSUME LayoutAssumption ==
  /\ {FileHeaderSize, ChunkSize, MaxChunks, MaxRecords} \subseteq Nat
  /\ RecordMinSize \in Nat /\ RecordFraming \in Nat
  /\ 0 < RecordMinSize /\ RecordMinSize < RecordFraming
  /\ ChunkHeaderSize \in 1 .. ChunkSize - 1

(* Sizes, offsets and record ids are unsigned.                             *)
ASSUME ClaimsAreUnsigned ==
  FileSizes \cup FreeOffsets \cup Sizes \cup Ids \subseteq Nat

VARIABLES
  magic,        \* the bytes start with "ElfFile"
  size,         \* bytes.size()
  chunk_index,  \* the chunk being walked, from 0
  free_off,     \* where its record area ends
  pos,          \* the cursor in it
  records,      \* its records so far: out
  added,        \* how many of them are in the stream
  decoded,      \* history: records decoded in all chunks
  stage            \* "file", "chunk", "records", "add" or "done"

fileVars == <<magic, size, chunk_index, free_off, pos, records, added, decoded>>

InitFile ==
  /\ size \in IF magic THEN FileSizes ELSE {0}
  /\ chunk_index = 0 /\ free_off = 0 /\ pos = 0
  /\ records = <<>> /\ added = 0 /\ decoded = 0
  /\ stage = "file"

Warn == Emit(Diagnostic("warning", chunk_index))

StopWith(Report) ==
  /\ stage' = "done"
  /\ Report
  /\ UNCHANGED <<streamVars, magic, size, chunk_index, free_off, pos, records, added,
                 decoded>>

----------------------------------------------------------------------------
(* A file header needs its magic, of which there is one more byte, and,    *)
(* unless some field can be read past it, the bytes of its fixed part.     *)
FileHeader ==
  /\ stage = "file"
  /\ \/ StopWith(Emit(Diagnostic("error", 0)))
     \/ /\ magic
        /\ stage' = "chunk"
        /\ UNCHANGED <<streamVars, sinkVars, magic, size, chunk_index, free_off, pos,
                       records, added, decoded>>

Offset == FileHeaderSize + chunk_index * ChunkSize

Available == size - Offset

(* No more chunks: the cap is reached, or the end of the bytes.            *)
NoMoreChunks ==
  /\ stage = "chunk"
  /\ chunk_index >= MaxChunks \/ Offset >= size
  /\ StopWith(EmitNothing)

(* Too few bytes for a chunk header, or one without the magic: the walk    *)
(* ends with a warning, whatever lies behind.                              *)
BadChunk ==
  /\ stage = "chunk"
  /\ chunk_index < MaxChunks /\ Offset < size
  /\ StopWith(Warn)

Clamped(n, low, high) == IF n > high THEN high ELSE IF n < low THEN low ELSE n

ChunkHeader ==
  /\ stage = "chunk"
  /\ chunk_index < MaxChunks /\ Offset < size
  /\ Available >= ChunkHeaderSize
  /\ \E claimed \in FreeOffsets :
       free_off' = Clamped(claimed, ChunkHeaderSize,
                           IF Available < ChunkSize THEN Available ELSE ChunkSize)
  /\ pos' = ChunkHeaderSize
  /\ records' = <<>>
  /\ added' = 0
  /\ stage' = "records"
  /\ UNCHANGED <<streamVars, sinkVars, magic, size, chunk_index, decoded>>

RoomForRecord == pos + RecordMinSize <= free_off

RecordsEnd(Report) ==
  /\ stage' = "add"
  /\ Report
  /\ UNCHANGED <<streamVars, magic, size, chunk_index, free_off, pos, records, added,
                 decoded>>

(* The record area is used up, or no record signature follows.             *)
NoMoreRecords ==
  /\ stage = "records"
  /\ ~RoomForRecord \/ Len(records) < MaxRecords
  /\ RecordsEnd(EmitNothing)

TooManyRecords ==
  /\ stage = "records"
  /\ RoomForRecord
  /\ Len(records) >= MaxRecords
  /\ RecordsEnd(Warn)

(* A slip: a record may claim more than is left of the area.               *)
FitsFraming(claimed) == claimed >= RecordFraming

(* A record that claims no size, less than its framing or more than is     *)
(* left of the area ends the chunk.                                        *)
Fits(claimed) == claimed >= RecordFraming /\ claimed <= free_off - pos

BadRecord ==
  /\ stage = "records"
  /\ RoomForRecord
  /\ Len(records) < MaxRecords
  /\ \E claimed \in Sizes : ~Fits(claimed)
  /\ RecordsEnd(Warn)

ReadRecord ==
  /\ stage = "records"
  /\ RoomForRecord
  /\ Len(records) < MaxRecords
  /\ \E claimed \in Sizes, id \in Ids, written, created \in Stamps :
       /\ Fits(claimed)
       /\ records' = Append(records, [id |-> id, file_offset |-> pos,
                                      size |-> claimed, written |-> written,
                                      created |-> created])
       /\ pos' = pos + claimed
  /\ decoded' = decoded + 1
  /\ UNCHANGED <<streamVars, sinkVars, magic, size, chunk_index, free_off, added, stage>>

(* The total is the length of the stream.                                  *)
Total == Len(events)

Full == Total >= MaxRecords

(* A slip: the walk stops at the limit without a word.                     *)
TooManyEventsSilently ==
  /\ stage = "add"
  /\ added < Len(records)
  /\ Full
  /\ StopWith(EmitNothing)

TooManyEvents ==
  /\ stage = "add"
  /\ added < Len(records)
  /\ Full
  /\ StopWith(Warn)

(* A slip: a record without an id has none.                                *)
IndexOfRecord(record) == record.id

(* A record without an id takes its place in the stream for one.           *)
IndexOf(record) == IF record.id = 0 THEN Total + 1 ELSE record.id

(* to_event: TimeCreated overrides the time the record was written.        *)
TimeOfRecord(record) ==
  IF record.created.valid THEN record.created ELSE record.written

AddEvent ==
  /\ stage = "add"
  /\ added < Len(records)
  /\ ~Full
  /\ LET record == records[added + 1]
     IN  Add([timestamp |-> TimeOfRecord(record),
              record_index |-> IndexOf(record), chunk |-> chunk_index,
              offset |-> record.file_offset])
  /\ added' = added + 1
  /\ UNCHANGED <<sinkVars, magic, size, chunk_index, free_off, pos, records, decoded, stage>>

(* A slip: the chunk is not left.                                          *)
NextChunkStuck ==
  /\ stage = "add"
  /\ added = Len(records)
  /\ stage' = "chunk"
  /\ UNCHANGED <<streamVars, sinkVars, magic, size, chunk_index, free_off, pos, records,
                 added, decoded>>

NextChunk ==
  /\ stage = "add"
  /\ added = Len(records)
  /\ chunk_index' = chunk_index + 1
  /\ stage' = "chunk"
  /\ UNCHANGED <<streamVars, sinkVars, magic, size, free_off, pos, records, added, decoded>>

ReadFile ==
  \/ FileHeader \/ NoMoreChunks \/ BadChunk \/ ChunkHeader
  \/ NoMoreRecords \/ TooManyRecords \/ BadRecord \/ ReadRecord
  \/ TooManyEvents \/ AddEvent \/ NextChunk

----------------------------------------------------------------------------
(* The records of a chunk lie one behind the other in its record area,     *)
(* inside the file, each with room for its framing.                        *)
RecordsFramed ==
  stage \in {"records", "add"} =>
    /\ ChunkHeaderSize <= pos /\ pos <= free_off
    /\ Offset + free_off <= size
    /\ \A n \in DOMAIN records :
         /\ records[n].size >= RecordFraming
         /\ records[n].file_offset + records[n].size =
              IF n = Len(records) THEN pos ELSE records[n + 1].file_offset

(* The events of the stream are in the order of the file, none twice, each *)
(* with an index.                                                          *)
FileOrder ==
  stage # "file" =>
  \A m, n \in DOMAIN events : m < n =>
    /\ events[m].record_index > 0
    /\ \/ events[m].chunk < events[n].chunk
       \/ /\ events[m].chunk = events[n].chunk
          /\ events[m].offset + RecordFraming <= events[n].offset

(* A decoded record that does not reach the stream leaves a warning, even  *)
(* if the sink may only count it.                                          *)
LossReported ==
  stage = "done" /\ Len(events) < decoded =>
    \/ dropped > 0
    \/ \E n \in DOMAIN entries : entries[n].level = "warning"

=============================================================================
