----------------------------- MODULE IngestProofs ---------------------------
(***************************************************************************)
(* Proofs about ingest: first the walk over the chunks and records of an   *)
(* EVTX file, then the walk over the lines of any other artifact, for any  *)
(* layout, any limits, any file and any claims in it.                      *)
(***************************************************************************)
EXTENDS Ingest, FiniteSetTheorems, NaturalsInduction, WellFoundedInduction, TLAPS

USE SinkCap, LayoutAssumption, ClaimsAreUnsigned

Records ==
  [id : Nat, file_offset : Nat, size : Nat, written : Stamps, created : Stamps]

FileEvents ==
  [timestamp : Stamps, record_index : Nat \ {0}, chunk : Nat, offset : Nat]

Diagnostics ==
  [level : {"debug", "info", "warning", "error"}, line : Nat]

SinkTypes == entries \in Seq(Diagnostics) /\ dropped \in Nat

FileTypes ==
  /\ {size, chunk_index, free_off, pos, added, decoded} \subseteq Nat
  /\ records \in Seq(Records)
  /\ stage \in {"file", "chunk", "records", "add", "done"}
  /\ added <= Len(records)
  /\ stage = "records" => added = 0
  /\ stage # "file" => events \in Seq(FileEvents)

(* The walk over the file starts when an EVTX file is dispatched, with an  *)
(* empty stream.                                                           *)
Staged ==
  /\ pc \in {"ingest", "lines", "walk", "done"} /\ at \in Nat
  /\ pc \in {"ingest", "lines"} => stage = "file"
  /\ pc \in {"ingest", "walk"} /\ stage = "file" =>
       events = <<>> /\ decoded = 0

(* Where the events of the stream come from: all lie before the chunk that *)
(* is walked or, while its records are added, not behind the last one      *)
(* added.                                                                  *)
Behind ==
  /\ stage \in {"chunk", "records"} =>
       \A n \in DOMAIN events : events[n].chunk < chunk_index
  /\ stage = "add" =>
       \A n \in DOMAIN events :
         \/ events[n].chunk < chunk_index
         \/ /\ events[n].chunk = chunk_index
            /\ added > 0
            /\ events[n].offset <= records[added].file_offset

Warned ==
  \/ dropped > 0
  \/ \E n \in DOMAIN entries : entries[n].level = "warning"

(* Each record decoded so far is in the stream, waits to be added or has   *)
(* been given up with a warning.                                           *)
Accounted ==
  /\ stage = "chunk" => decoded = Len(events)
  /\ stage \in {"records", "add"} =>
       decoded = Len(events) + (Len(records) - added)
  /\ stage = "done" => decoded = Len(events) \/ Warned

FileInv ==
  /\ SinkTypes
  /\ FileTypes
  /\ Staged
  /\ RecordsFramed
  /\ Behind
  /\ FileOrder
  /\ Accounted

----------------------------------------------------------------------------
(* Whether or not there is room in the sink, it stays well formed, and a   *)
(* warning leaves its trace, in the entries or in the count.               *)
LEMMA EmitKeepsSink ==
  ASSUME SinkTypes, NEW d \in Diagnostics, Emit(d)
  PROVE  /\ SinkTypes'
         /\ Warned => Warned'
         /\ d.level = "warning" => Warned'
<1>1. CASE Len(entries) >= MaxEntries
  BY <1>1 DEF SinkTypes, Emit, Warned
<1>2. CASE ~(Len(entries) >= MaxEntries)
  <2>1. entries' = Append(entries, d) /\ dropped' = dropped
    BY <1>2 DEF Emit
  <2>2. SinkTypes'
    BY <2>1 DEF SinkTypes
  <2>3. /\ Len(entries') = Len(entries) + 1 /\ entries'[Len(entries')] = d
        /\ \A n \in DOMAIN entries : n \in DOMAIN entries' /\ entries'[n] = entries[n]
        /\ Len(entries') \in DOMAIN entries'
    BY <2>1 DEF SinkTypes
  <2> QED
    BY <2>1, <2>2, <2>3 DEF Warned
<1> QED
  BY <1>1, <1>2

LEMMA WarnWarns ==
  ASSUME FileInv, Warn
  PROVE  SinkTypes' /\ Warned'
<1>1. Diagnostic("warning", chunk_index) \in Diagnostics
  BY DEF FileInv, FileTypes, Diagnostic, Diagnostics
<1>2. Diagnostic("warning", chunk_index).level = "warning"
  BY DEF Diagnostic
<1> QED
  BY <1>1, <1>2, EmitKeepsSink DEF Warn, FileInv

LEMMA NothingEmitted ==
  ASSUME EmitNothing
  PROVE  /\ SinkTypes => SinkTypes'
         /\ Warned => Warned'
BY DEF EmitNothing, sinkVars, SinkTypes, Warned

(* The walk stops: nothing is said any more but how it ended.              *)
LEMMA StopKeepsFile ==
  ASSUME FileInv, pc = "walk", pc' = pc, UNCHANGED lineVars,
         StopWith(TRUE), SinkTypes',
         stage = "chunk" \/ stage = "file" \/ Warned'
  PROVE  FileInv'
<1> USE DEF FileInv
<1>1. /\ stage' = "done" /\ at' = at
      /\ UNCHANGED <<events, size, chunk_index, free_off, pos, records, added,
                     decoded>>
  BY DEF StopWith, streamVars, lineVars
<1>2. FileTypes'
  <2>1. events' \in Seq(FileEvents)
    <3>1. CASE stage = "file"
      <4>1. events' = <<>>
        BY <1>1, <3>1 DEF Staged
      <4> QED
        BY <4>1
    <3>2. CASE stage # "file"
      BY <1>1, <3>2 DEF FileTypes
    <3> QED
      BY <3>1, <3>2
  <2> QED
    BY <1>1, <2>1 DEF FileTypes
<1>3. Staged' /\ RecordsFramed' /\ Behind'
  BY <1>1 DEF Staged, RecordsFramed, Behind
<1>4. FileOrder'
  <2>1. CASE stage = "file"
    <3>1. events' = <<>>
      BY <1>1, <2>1 DEF Staged
    <3> QED
      BY <3>1 DEF FileOrder
  <2>2. CASE stage # "file"
    BY <1>1, <2>2 DEF FileOrder
  <2> QED
    BY <2>1, <2>2
<1>5. Accounted'
  BY <1>1 DEF Accounted, Staged
<1> QED
  BY <1>2, <1>3, <1>4, <1>5

(* Where a chunk starts is a number.                                       *)
LEMMA OffsetType ==
  ASSUME FileTypes
  PROVE  Offset \in Nat /\ Available \in Int /\ Offset + Available = size
<1>1. /\ chunk_index \in Nat /\ ChunkSize \in Nat /\ FileHeaderSize \in Nat
      /\ size \in Nat
  BY DEF FileTypes
<1>2. chunk_index * ChunkSize \in Nat
  BY <1>1
<1>3. Offset \in Nat
  BY <1>1, <1>2 DEF Offset
<1> QED
  BY <1>1, <1>3 DEF Available

(* One lemma for each step of the walk that is not the last one.           *)
LEMMA FileHeaderKeepsFile ==
  ASSUME FileInv, pc = "walk", pc' = pc, UNCHANGED lineVars, FileHeader
  PROVE  FileInv'
<1> USE DEF FileInv
<1>1. CASE StopWith(Emit(Diagnostic("error", 0)))
  <2>1. Diagnostic("error", 0) \in Diagnostics
    BY DEF Diagnostic, Diagnostics
  <2>2. SinkTypes'
    BY <1>1, <2>1, EmitKeepsSink DEF StopWith
  <2>3. stage = "file" /\ StopWith(TRUE)
    BY <1>1 DEF StopWith, FileHeader
  <2> QED
    BY <2>2, <2>3, StopKeepsFile
<1>2. CASE ~StopWith(Emit(Diagnostic("error", 0)))
  <2>1. /\ stage = "file" /\ stage' = "chunk" /\ at' = at
        /\ UNCHANGED <<events, entries, dropped, size, chunk_index, free_off,
                       pos, records, added, decoded>>
    BY <1>2 DEF FileHeader, streamVars, sinkVars, lineVars
  <2>2. events' = <<>> /\ decoded' = 0
    BY <2>1 DEF Staged
  <2>3. SinkTypes' /\ FileTypes' /\ Staged'
    BY <2>1, <2>2 DEF SinkTypes, FileTypes, Staged
  <2>4. RecordsFramed' /\ Behind' /\ FileOrder' /\ Accounted'
    BY <2>1, <2>2 DEF RecordsFramed, Behind, FileOrder, Accounted
  <2> QED
    BY <2>3, <2>4
<1> QED
  BY <1>1, <1>2

(* A chunk header may claim any end of the record area: what is believed   *)
(* lies between the end of the header and the end of what is there.        *)
LEMMA ChunkHeaderKeepsFile ==
  ASSUME FileInv, pc = "walk", pc' = pc, UNCHANGED lineVars, ChunkHeader
  PROVE  FileInv'
<1> USE DEF FileInv
<1>1. /\ stage = "chunk" /\ stage' = "records" /\ at' = at
      /\ pos' = ChunkHeaderSize /\ records' = <<>> /\ added' = 0
      /\ UNCHANGED <<events, entries, dropped, size, chunk_index, decoded>>
  BY DEF ChunkHeader, streamVars, sinkVars, lineVars
<1>2. Available \in Int /\ Available >= ChunkHeaderSize /\ Offset \in Nat
  BY OffsetType DEF ChunkHeader
<1>3. /\ free_off' \in Nat
      /\ ChunkHeaderSize <= free_off' /\ free_off' <= Available
  <2>1. PICK claimed \in FreeOffsets :
          free_off' = Clamped(claimed, ChunkHeaderSize,
                              IF Available < ChunkSize THEN Available
                              ELSE ChunkSize)
    BY DEF ChunkHeader
  <2> QED
    BY <1>2, <2>1 DEF Clamped
<1>4. SinkTypes' /\ FileTypes' /\ Staged'
  BY <1>1, <1>3 DEF SinkTypes, FileTypes, Staged
<1>5. RecordsFramed'
  <2>1. Offset' = Offset /\ Offset + free_off' <= size'
    <3>1. Offset' = Offset
      BY <1>1 DEF Offset
    <3>2. Offset + Available = size /\ size' = size
      BY <1>1, OffsetType
    <3> QED
      BY <1>2, <1>3, <3>1, <3>2
  <2> QED
    BY <1>1, <1>3, <2>1 DEF RecordsFramed
<1>6. Behind' /\ FileOrder' /\ Accounted'
  BY <1>1 DEF Behind, FileOrder, Accounted, FileTypes
<1> QED
  BY <1>1, <1>4, <1>5, <1>6

(* The records of a chunk end, with a warning or without.                  *)
LEMMA RecordsEndKeepsFile ==
  ASSUME FileInv, pc = "walk", pc' = pc, UNCHANGED lineVars,
         stage = "records", RecordsEnd(TRUE), SinkTypes'
  PROVE  FileInv'
<1> USE DEF FileInv
<1>1. /\ stage' = "add" /\ at' = at
      /\ UNCHANGED <<events, size, chunk_index, free_off, pos, records, added,
                     decoded>>
  BY DEF RecordsEnd, streamVars, lineVars
<1>2. FileTypes' /\ Staged' /\ RecordsFramed'
  BY <1>1 DEF FileTypes, Staged, RecordsFramed, Offset
<1>3. Behind' /\ FileOrder' /\ Accounted'
  BY <1>1 DEF Behind, FileOrder, Accounted
<1> QED
  BY <1>2, <1>3

(* A record starts where the one before it ends, and ends inside the area. *)
LEMMA ReadRecordKeepsFile ==
  ASSUME FileInv, pc = "walk", pc' = pc, UNCHANGED lineVars, ReadRecord
  PROVE  FileInv'
<1> USE DEF FileInv
<1>1. /\ stage = "records" /\ stage' = stage /\ at' = at
      /\ decoded' = decoded + 1
      /\ UNCHANGED <<events, entries, dropped, size, chunk_index, free_off,
                     added>>
  BY DEF ReadRecord, streamVars, sinkVars, lineVars
<1>2. PICK claimed \in Sizes, id \in Ids, written \in Stamps, created \in Stamps :
        /\ Fits(claimed)
        /\ records' = Append(records, [id |-> id, file_offset |-> pos,
                                       size |-> claimed, written |-> written,
                                       created |-> created])
        /\ pos' = pos + claimed
  BY DEF ReadRecord
<1> DEFINE record == [id |-> id, file_offset |-> pos, size |-> claimed,
                      written |-> written, created |-> created]
<1>3. /\ pos \in Nat /\ free_off \in Nat /\ claimed \in Nat /\ id \in Nat
      /\ records \in Seq(Records) /\ added \in Nat /\ decoded \in Nat
  BY DEF FileTypes
<1>4. record \in Records /\ record.size = claimed /\ record.file_offset = pos
  BY <1>3 DEF Records
<1> HIDE DEF record
<1>5. records' = Append(records, record)
  BY <1>2 DEF record
<1>6. /\ records' \in Seq(Records) /\ Len(records') = Len(records) + 1
      /\ \A n \in DOMAIN records : records'[n] = records[n]
      /\ records'[Len(records')] = record
      /\ DOMAIN records = 1 .. Len(records) /\ Len(records) \in Nat
      /\ DOMAIN records' = 1 .. Len(records')
  BY <1>3, <1>4, <1>5
<1>7. pos' \in Nat /\ claimed >= RecordFraming /\ pos' <= free_off /\ pos <= pos'
  BY <1>2, <1>3 DEF Fits
<1>8. SinkTypes' /\ FileTypes' /\ Staged'
  BY <1>1, <1>3, <1>6, <1>7 DEF SinkTypes, FileTypes, Staged
<1>9. RecordsFramed'
  <2>1. Offset' = Offset
    BY <1>1 DEF Offset
  <2>2. /\ ChunkHeaderSize <= pos /\ Offset + free_off <= size
        /\ \A n \in DOMAIN records :
             /\ records[n].size >= RecordFraming
             /\ records[n].file_offset + records[n].size =
                  IF n = Len(records) THEN pos ELSE records[n + 1].file_offset
    BY <1>1 DEF RecordsFramed
  <2>3. ASSUME NEW n \in DOMAIN records'
        PROVE  /\ records'[n].size >= RecordFraming
               /\ records'[n].file_offset + records'[n].size =
                    IF n = Len(records') THEN pos'
                    ELSE records'[n + 1].file_offset
    <3>1. CASE n = Len(records) + 1
      BY <1>2, <1>4, <1>6, <1>7, <3>1
    <3>2. CASE n = Len(records)
      <4>1. n \in DOMAIN records /\ n # Len(records') /\ n + 1 = Len(records')
        <5>1. Len(records) \in Nat /\ n \in 1 .. Len(records) + 1
          BY <1>6
        <5>2. n \in 1 .. Len(records) /\ n # Len(records) + 1
          BY <3>2, <5>1
        <5> QED
          BY <1>6, <3>2, <5>2
      <4> QED
        BY <1>4, <1>6, <2>2, <3>2, <4>1
    <3>3. CASE n \in 1 .. Len(records) - 1
      <4>1. /\ n \in DOMAIN records /\ n # Len(records') /\ n # Len(records)
            /\ n + 1 \in DOMAIN records
        BY <1>6, <3>3
      <4> QED
        BY <1>6, <2>2, <4>1
    <3> QED
      BY <1>6, <3>1, <3>2, <3>3
  <2>4. ChunkHeaderSize <= pos'
    BY <1>3, <1>7, <2>2
  <2> QED
    BY <1>1, <1>7, <2>1, <2>2, <2>3, <2>4 DEF RecordsFramed
<1>10. Behind' /\ FileOrder' /\ Accounted'
  BY <1>1, <1>3, <1>6 DEF Behind, FileOrder, Accounted, FileTypes
<1> QED
  BY <1>8, <1>9, <1>10

(* An event goes behind all the others: its record is the next one of the  *)
(* chunk, or the first.                                                    *)
LEMMA AddEventKeepsFile ==
  ASSUME FileInv, pc = "walk", pc' = pc, UNCHANGED lineVars, AddEvent
  PROVE  FileInv'
<1> USE DEF FileInv
<1> DEFINE record == records[added + 1]
           event == [timestamp |-> TimeOfRecord(record),
                     record_index |-> IndexOf(record), chunk |-> chunk_index,
                     offset |-> record.file_offset]
<1>1. /\ stage = "add" /\ stage' = "add" /\ at' = at /\ added' = added + 1
      /\ events' = Append(events, event)
      /\ added < Len(records)
      /\ UNCHANGED <<entries, dropped, size, chunk_index, free_off, pos, records,
                     decoded>>
  BY DEF AddEvent, Add, sinkVars, lineVars
<1>2. /\ records \in Seq(Records) /\ added \in Nat /\ decoded \in Nat
      /\ events \in Seq(FileEvents) /\ chunk_index \in Nat
      /\ Len(events) \in Nat /\ Len(records) \in Nat
      /\ added + 1 \in DOMAIN records
  BY <1>1, SMTT(20) DEF FileTypes
<1>3. record \in Records
  BY <1>2
<1>4. /\ TimeOfRecord(record) \in Stamps
      /\ IndexOf(record) \in Nat \ {0}
      /\ record.file_offset \in Nat
  <2> HIDE DEF record
  <2>1. /\ record.created \in Stamps /\ record.written \in Stamps
        /\ record.id \in Nat /\ record.file_offset \in Nat
    BY <1>3 DEF Records
  <2>2. Len(events) + 1 \in Nat \ {0}
    BY <1>2
  <2> QED
    BY <2>1, <2>2 DEF TimeOfRecord, IndexOf, Total
<1>5. /\ event \in FileEvents /\ event.chunk = chunk_index
      /\ event.offset = records[added + 1].file_offset
  BY <1>2, <1>4 DEF FileEvents
<1> HIDE DEF event
<1>6. /\ events' \in Seq(FileEvents) /\ Len(events') = Len(events) + 1
      /\ \A n \in DOMAIN events : events'[n] = events[n]
      /\ events'[Len(events')] = event
      /\ DOMAIN events = 1 .. Len(events) /\ DOMAIN events' = 1 .. Len(events')
  BY <1>1, <1>2, <1>5
<1>7. SinkTypes' /\ FileTypes' /\ Staged'
  BY <1>1, <1>2, <1>6 DEF SinkTypes, FileTypes, Staged
<1>8. RecordsFramed'
  BY <1>1 DEF RecordsFramed, Offset
<1>9. Accounted'
  <2>1. decoded = Len(events) + (Len(records) - added)
    BY <1>1 DEF Accounted
  <2>2. Len(records') = Len(records) /\ decoded' = decoded
    BY <1>1
  <2>3. decoded' = Len(events') + (Len(records') - added')
    BY <1>1, <1>2, <1>6, <2>1, <2>2
  <2> QED
    BY <1>1, <2>3 DEF Accounted
(* The record added last ends, framing and all, where this one starts.     *)
<1>10. added > 0 =>
         /\ records[added].file_offset \in Nat
         /\ records[added].file_offset + RecordFraming <=
              records[added + 1].file_offset
  <2> SUFFICES ASSUME added > 0
               PROVE  /\ records[added].file_offset \in Nat
                      /\ records[added].file_offset + RecordFraming <=
                           records[added + 1].file_offset
    OBVIOUS
  <2>1. added \in DOMAIN records /\ added # Len(records)
    BY <1>1, <1>2
  <2>2. records[added] \in Records
    BY <1>2, <2>1
  <2>3. records[added].file_offset \in Nat /\ records[added].size \in Nat
    BY <2>2 DEF Records
  <2>4. /\ records[added].size >= RecordFraming
        /\ records[added].file_offset + records[added].size =
             records[added + 1].file_offset
    BY <1>1, <2>1 DEF RecordsFramed
  <2> QED
    BY <1>4, <2>3, <2>4
<1>11. \A n \in DOMAIN events :
         \/ events[n].chunk < chunk_index
         \/ /\ events[n].chunk = chunk_index
            /\ events[n].offset + RecordFraming <= event.offset
            /\ events[n].offset <= event.offset
  <2> SUFFICES ASSUME NEW n \in DOMAIN events, ~(events[n].chunk < chunk_index)
               PROVE  /\ events[n].chunk = chunk_index
                      /\ events[n].offset + RecordFraming <= event.offset
                      /\ events[n].offset <= event.offset
    OBVIOUS
  <2>1. /\ events[n].chunk = chunk_index /\ added > 0
        /\ events[n].offset <= records[added].file_offset
    BY <1>1 DEF Behind
  <2>2. events[n] \in FileEvents
    BY <1>2
  <2>3. events[n].offset \in Nat
    BY <2>2 DEF FileEvents
  <2> QED
    BY <1>4, <1>5, <1>10, <2>1, <2>3
<1>12. Behind'
  <2> SUFFICES ASSUME NEW n \in DOMAIN events'
               PROVE  \/ events'[n].chunk < chunk_index
                      \/ /\ events'[n].chunk = chunk_index
                         /\ added' > 0
                         /\ events'[n].offset <= records[added'].file_offset
    BY <1>1 DEF Behind
  <2>1. CASE n \in DOMAIN events
    BY <1>1, <1>2, <1>5, <1>6, <1>11, <2>1
  <2>2. CASE n = Len(events')
    BY <1>1, <1>2, <1>4, <1>5, <1>6, <2>2
  <2> QED
    BY <1>2, <1>6, <2>1, <2>2
<1>13. FileOrder'
  <2> SUFFICES ASSUME NEW m \in DOMAIN events', NEW n \in DOMAIN events', m < n
               PROVE  /\ events'[m].record_index > 0
                      /\ \/ events'[m].chunk < events'[n].chunk
                         \/ /\ events'[m].chunk = events'[n].chunk
                            /\ events'[m].offset + RecordFraming <=
                                 events'[n].offset
    BY DEF FileOrder
  <2>1. m \in DOMAIN events /\ events'[m] = events[m]
    BY <1>2, <1>6, SMTT(15)
  <2>2. CASE n \in DOMAIN events
    BY <1>1, <1>6, <2>1, <2>2 DEF FileOrder
  <2>3. CASE n = Len(events')
    <3>1. events[m] \in FileEvents
      BY <1>2, <2>1
    <3>2. events[m].record_index > 0
      BY <3>1 DEF FileEvents
    <3> QED
      BY <1>5, <1>6, <1>11, <2>1, <2>3, <3>2
  <2> QED
    BY <1>2, <1>6, <2>2, <2>3
<1> QED
  BY <1>7, <1>8, <1>9, <1>12, <1>13

LEMMA NextChunkKeepsFile ==
  ASSUME FileInv, pc = "walk", pc' = pc, UNCHANGED lineVars, NextChunk
  PROVE  FileInv'
<1> USE DEF FileInv
<1>1. /\ stage = "add" /\ stage' = "chunk" /\ at' = at
      /\ chunk_index' = chunk_index + 1 /\ added = Len(records)
      /\ UNCHANGED <<events, entries, dropped, size, free_off, pos, records, added,
                     decoded>>
  BY DEF NextChunk, streamVars, sinkVars, lineVars
<1>2. /\ chunk_index \in Nat /\ decoded \in Nat /\ Len(records) \in Nat
      /\ events \in Seq(FileEvents)
  BY <1>1 DEF FileTypes
<1>3. SinkTypes' /\ FileTypes' /\ Staged' /\ RecordsFramed'
  BY <1>1, <1>2 DEF SinkTypes, FileTypes, Staged, RecordsFramed
<1>4. Behind'
  <2> SUFFICES ASSUME NEW n \in DOMAIN events
               PROVE  events[n].chunk < chunk_index + 1
    BY <1>1 DEF Behind
  <2>1. events[n] \in FileEvents
    BY <1>2
  <2>2. events[n].chunk \in Nat
    BY <2>1 DEF FileEvents
  <2> QED
    BY <1>1, <1>2, <2>2 DEF Behind
<1>5. FileOrder' /\ Accounted'
  BY <1>1, <1>2 DEF FileOrder, Accounted
<1> QED
  BY <1>3, <1>4, <1>5

(* Every step of the walk keeps the invariant.                             *)
LEMMA WalkKeepsFile ==
  ASSUME FileInv, Walk
  PROVE  FileInv'
<1>1. pc = "walk" /\ pc' = pc /\ UNCHANGED lineVars /\ ReadFile
  BY DEF Walk
<1>2. SinkTypes
  BY DEF FileInv
<1>3. CASE FileHeader
  BY <1>1, <1>3, FileHeaderKeepsFile
<1>4. CASE NoMoreChunks
  <2>1. stage = "chunk" /\ StopWith(TRUE) /\ EmitNothing
    BY <1>4 DEF NoMoreChunks, StopWith
  <2> QED
    BY <1>1, <1>2, <2>1, NothingEmitted, StopKeepsFile
<1>5. CASE BadChunk
  <2>1. stage = "chunk" /\ StopWith(TRUE) /\ Warn
    BY <1>5 DEF BadChunk, StopWith
  <2> QED
    BY <1>1, <2>1, WarnWarns, StopKeepsFile
<1>6. CASE ChunkHeader
  BY <1>1, <1>6, ChunkHeaderKeepsFile
<1>7. CASE NoMoreRecords
  <2>1. stage = "records" /\ RecordsEnd(TRUE) /\ EmitNothing
    BY <1>7 DEF NoMoreRecords, RecordsEnd
  <2> QED
    BY <1>1, <1>2, <2>1, NothingEmitted, RecordsEndKeepsFile
<1>8. CASE TooManyRecords
  <2>1. stage = "records" /\ RecordsEnd(TRUE) /\ Warn
    BY <1>8 DEF TooManyRecords, RecordsEnd
  <2> QED
    BY <1>1, <2>1, WarnWarns, RecordsEndKeepsFile
<1>9. CASE BadRecord
  <2>1. stage = "records" /\ RecordsEnd(TRUE) /\ Warn
    BY <1>9 DEF BadRecord, RecordsEnd
  <2> QED
    BY <1>1, <2>1, WarnWarns, RecordsEndKeepsFile
<1>10. CASE ReadRecord
  BY <1>1, <1>10, ReadRecordKeepsFile
<1>11. CASE TooManyEvents
  <2>1. StopWith(TRUE) /\ Warn
    BY <1>11 DEF TooManyEvents, StopWith
  <2> QED
    BY <1>1, <2>1, WarnWarns, StopKeepsFile
<1>12. CASE AddEvent
  BY <1>1, <1>12, AddEventKeepsFile
<1>13. CASE NextChunk
  BY <1>1, <1>13, NextChunkKeepsFile
<1> QED
  BY <1>1, <1>3, <1>4, <1>5, <1>6, <1>7, <1>8, <1>9, <1>10, <1>11, <1>12,
     <1>13 DEF ReadFile

(* Reading a line says at most one thing, in the sink.                     *)
LEMMA LineKeepsSink ==
  ASSUME SinkTypes, at \in Nat, ReadLines
  PROVE  SinkTypes' /\ at' \in Nat
<1>1. /\ Diagnostic("warning", at + 1) \in Diagnostics
      /\ Diagnostic("debug", at + 1) \in Diagnostics
  BY DEF Diagnostic, Diagnostics
<1>2. EmitNothing => SinkTypes'
  BY NothingEmitted
<1>3. Emit(Warning) => SinkTypes'
  BY <1>1, EmitKeepsSink DEF Warning
<1>4. Emit(Diagnostic("debug", at + 1)) => SinkTypes'
  BY <1>1, EmitKeepsSink
<1>5. at' \in Nat
  BY DEF ReadLines, SyslogLine, CefLine, WebLine, WebWhiteLine, JsonLine,
         JsonWhiteLine, LinesEnd, Reading, lineVars
<1>6. CASE SyslogLine
  BY <1>2, <1>3, <1>5, <1>6 DEF SyslogLine, EveryLine
<1>7. CASE CefLine
  BY <1>2, <1>3, <1>5, <1>7 DEF CefLine, EveryLine
<1>8. CASE WebLine
  BY <1>2, <1>3, <1>4, <1>5, <1>8 DEF WebLine
<1>9. CASE WebWhiteLine
  BY <1>2, <1>5, <1>9 DEF WebWhiteLine, EmitNothing
<1>10. CASE JsonLine
  BY <1>2, <1>3, <1>5, <1>10 DEF JsonLine
<1>11. CASE JsonWhiteLine
  BY <1>2, <1>5, <1>11 DEF JsonWhiteLine, EmitNothing
<1>12. CASE LinesEnd
  BY <1>2, <1>5, <1>12 DEF LinesEnd, EmitNothing
<1> QED
  BY <1>6, <1>7, <1>8, <1>9, <1>10, <1>11, <1>12 DEF ReadLines

LEMMA FileInit == Init => FileInv
<1> SUFFICES ASSUME Init PROVE FileInv
  OBVIOUS
<1>1. /\ events = <<>> /\ entries = <<>> /\ dropped = 0 /\ at = 0
      /\ chunk_index = 0 /\ free_off = 0 /\ pos = 0 /\ records = <<>>
      /\ added = 0 /\ decoded = 0 /\ stage = "file" /\ pc = "ingest"
      /\ size \in IF magic THEN FileSizes ELSE {0}
  BY DEF Init, InitStream, InitSink, InitLines, InitFile
<1>2. size \in Nat
  BY <1>1
<1>3. SinkTypes /\ FileTypes /\ Staged
  BY <1>1, <1>2 DEF SinkTypes, FileTypes, Staged
<1>4. RecordsFramed /\ Behind /\ FileOrder /\ Accounted
  BY <1>1 DEF RecordsFramed, Behind, FileOrder, Accounted
<1> QED
  BY <1>3, <1>4 DEF FileInv

(* While no file is walked, its part of the invariant says nothing but     *)
(* that it has not been started.                                           *)
LEMMA UnwalkedKeepsFile ==
  ASSUME FileInv, stage = "file", UNCHANGED <<fileVars, stage>>,
         SinkTypes', Staged'
  PROVE  FileInv'
<1>1. /\ UNCHANGED <<size, chunk_index, free_off, pos, records, added, decoded>>
      /\ stage' = "file"
  BY DEF fileVars
<1>2. FileTypes'
  BY <1>1 DEF FileInv, FileTypes
<1>3. RecordsFramed' /\ Behind' /\ FileOrder' /\ Accounted'
  BY <1>1 DEF RecordsFramed, Behind, FileOrder, Accounted
<1> QED
  BY <1>2, <1>3 DEF FileInv

LEMMA FileNext == FileInv /\ [Next]_vars => FileInv'
<1> SUFFICES ASSUME FileInv, [Next]_vars PROVE FileInv'
  OBVIOUS
<1>1. CASE Dispatch
  <2>1. Diagnostic("info", 0) \in Diagnostics
    BY DEF Diagnostic, Diagnostics
  <2>2. SinkTypes'
    BY <1>1, <2>1, EmitKeepsSink, NothingEmitted DEF Dispatch, FileInv
  <2>3. /\ stage = "file" /\ UNCHANGED <<fileVars, stage>> /\ at' = at
        /\ events = <<>> /\ decoded = 0 /\ events' = events
        /\ decoded' = decoded /\ pc' \in {"walk", "lines"}
    BY <1>1 DEF Dispatch, FileInv, Staged, streamVars, fileVars
  <2>4. Staged'
    BY <2>3 DEF FileInv, Staged
  <2> QED
    BY <2>2, <2>3, <2>4, UnwalkedKeepsFile
<1>2. CASE Lined
  <2>1. SinkTypes' /\ at' \in Nat
    BY <1>2, LineKeepsSink DEF Lined, FileInv, Staged
  <2>2. pc = "lines" /\ pc' \in {"lines", "done"}
    BY <1>2 DEF Lined, ReadLines, SyslogLine, CefLine, WebLine, WebWhiteLine,
       JsonLine, JsonWhiteLine, LinesEnd, Reading
  <2>3. stage = "file" /\ UNCHANGED <<fileVars, stage>>
    BY <1>2, <2>2 DEF Lined, FileInv, Staged
  <2>4. Staged'
    BY <2>1, <2>2, <2>3 DEF Staged
  <2> QED
    BY <2>1, <2>3, <2>4, UnwalkedKeepsFile
<1>3. CASE Walk
  BY <1>3, WalkKeepsFile
<1>4. CASE WalkReturns
  <2>1. /\ pc' = "done" /\ stage = "done" /\ at' = at
        /\ UNCHANGED <<events, entries, dropped, size, chunk_index, free_off,
                       pos, records, added, decoded, stage>>
    BY <1>4 DEF WalkReturns, streamVars, sinkVars, lineVars, fileVars
  <2>2. SinkTypes' /\ FileTypes' /\ Staged'
    BY <2>1 DEF FileInv, SinkTypes, FileTypes, Staged
  <2>3. RecordsFramed' /\ Behind' /\ FileOrder' /\ Accounted'
    BY <2>1 DEF FileInv, RecordsFramed, Behind, FileOrder, Accounted, Warned
  <2> QED
    BY <2>2, <2>3 DEF FileInv
<1>5. CASE UNCHANGED vars
  <2>1. UNCHANGED <<pc, at, events, entries, dropped, size, chunk_index,
                    free_off, pos, records, added, decoded, stage>>
    BY <1>5 DEF vars, streamVars, sinkVars, lineVars, fileVars
  <2>2. SinkTypes' /\ FileTypes' /\ Staged'
    BY <2>1 DEF FileInv, SinkTypes, FileTypes, Staged
  <2>3. RecordsFramed' /\ Behind' /\ FileOrder' /\ Accounted'
    BY <2>1 DEF FileInv, RecordsFramed, Behind, FileOrder, Accounted, Warned,
       Offset
  <2> QED
    BY <2>2, <2>3 DEF FileInv
<1> QED
  BY <1>1, <1>2, <1>3, <1>4, <1>5 DEF Next

(* Whatever a chunk header and the records claim, the records decoded of a *)
(* chunk lie one behind the other inside its record area and the file.     *)
THEOREM RecordsStayFramed == Spec => []RecordsFramed
<1>1. FileInv => RecordsFramed
  BY DEF FileInv
<1> QED
  BY <1>1, FileInit, FileNext, PTL DEF Spec

(* The events of an EVTX file stand in the stream in the order of the      *)
(* file, and none twice.                                                   *)
THEOREM FileOrderKept == Spec => []FileOrder
<1>1. FileInv => FileOrder
  BY DEF FileInv
<1> QED
  BY <1>1, FileInit, FileNext, PTL DEF Spec

(* When the walk is over, either every decoded record is in the stream or  *)
(* a warning was given, even if the sink could only count it.              *)
THEOREM LossIsReported == Spec => []LossReported
<1>1. FileInv => LossReported
  BY DEF FileInv, Accounted, LossReported, Warned
<1> QED
  BY <1>1, FileInit, FileNext, PTL DEF Spec

----------------------------------------------------------------------------
(***************************************************************************)
(* The lines of any other artifact.                                        *)
(***************************************************************************)

(* The lines that make an event, counted off one by one.                   *)
Ranked ==
  \A n \in 1 .. Cardinality(KeptLines) :
    \E k \in KeptLines : Rank(k, KeptLines) = n

LineInv ==
  /\ SinkTypes
  /\ at \in Nat
  /\ lines \in Artifacts
  /\ \E S : events \in Seq(S)
  /\ pc \in {"ingest", "lines", "walk", "done"}
  /\ pc = "ingest" =>
       /\ at = 0 /\ record_index = 0
       /\ events = <<>> /\ entries = <<>> /\ dropped = 0
  /\ pc = "walk" => format = "evtx"
  /\ OfLines => Ranked
  /\ OfLines /\ format = "json" => record_index = Len(events)
  /\ NothingDisappears
  /\ WarningsAccounted

(* Elements of a set of positions have different ranks.                    *)
LEMMA RankMonotonic ==
  ASSUME NEW S, IsFiniteSet(S), S \subseteq Nat,
         NEW k \in S, NEW m \in S, k < m
  PROVE  Rank(k, S) < Rank(m, S)
<1> DEFINE K == {j \in S : j <= k}  M == {j \in S : j <= m}
<1>1. IsFiniteSet(M) /\ K \subseteq M /\ m \in M /\ m \notin K
  <2>1. M \subseteq S
    OBVIOUS
  <2>2. IsFiniteSet(M)
    BY <2>1, FS_Subset
  <2>3. k \in Nat /\ m \in Nat
    OBVIOUS
  <2>4. m \in M /\ m \notin K
    BY <2>3
  <2>5. ASSUME NEW j \in K PROVE j \in M
    <3>1. j \in S /\ j \in Nat /\ j <= k
      OBVIOUS
    <3> QED
      BY <2>3, <3>1
  <2> QED
    BY <2>2, <2>4, <2>5
<1>2. K # M
  BY <1>1
<1>3. Cardinality(K) < Cardinality(M)
  BY <1>1, <1>2, FS_Subset, FS_CardinalityType
<1> QED
  BY <1>3 DEF Rank

LEMMA RankUnique ==
  ASSUME NEW S, IsFiniteSet(S), S \subseteq Nat,
         NEW k \in S, NEW m \in S, Rank(k, S) = Rank(m, S)
  PROVE  k = m
<1>1. Rank(k, S) \in Nat
  <2>1. {j \in S : j <= k} \subseteq S
    OBVIOUS
  <2> QED
    BY <2>1, FS_Subset, FS_CardinalityType DEF Rank
<1>2. ASSUME k < m PROVE FALSE
  <2>1. Rank(k, S) < Rank(m, S)
    BY <1>2, RankMonotonic
  <2> QED
    BY <1>1, <2>1
<1>3. ASSUME m < k PROVE FALSE
  <2>1. Rank(m, S) < Rank(k, S)
    BY <1>3, RankMonotonic
  <2> QED
    BY <1>1, <2>1
<1>4. k \in Nat /\ m \in Nat
  OBVIOUS
<1> QED
  BY <1>2, <1>3, <1>4

(* One more position behind all the others of a set has the rank of their  *)
(* number, and the others keep theirs.                                     *)
LEMMA RankAppend ==
  ASSUME NEW S, IsFiniteSet(S), S \subseteq Nat, NEW p \in Nat,
         \A k \in S : k < p
  PROVE  /\ Rank(p, S \cup {p}) = Cardinality(S) + 1
         /\ \A k \in S : Rank(k, S \cup {p}) = Rank(k, S)
         /\ Cardinality(S \cup {p}) = Cardinality(S) + 1
<1>1. p \notin S
  OBVIOUS
<1>2. Cardinality(S \cup {p}) = Cardinality(S) + 1
  BY <1>1, FS_AddElement
<1>3. {j \in S \cup {p} : j <= p} = S \cup {p}
  <2>1. \A j \in S \cup {p} : j <= p
    OBVIOUS
  <2> QED
    BY <2>1
<1>4. \A k \in S : {j \in S \cup {p} : j <= k} = {j \in S : j <= k}
  OBVIOUS
<1> QED
  BY <1>2, <1>3, <1>4 DEF Rank

LEMMA KeptLinesFinite ==
  ASSUME at \in Nat
  PROVE  /\ IsFiniteSet(KeptLines) /\ KeptLines \subseteq 1 .. at
         /\ Cardinality(KeptLines) \in Nat
<1>1. KeptLines \subseteq 1 .. at
  BY DEF KeptLines
<1>2. IsFiniteSet(1 .. at)
  BY FS_Interval
<1> QED
  BY <1>1, <1>2, FS_Subset, FS_CardinalityType

(* The n-th line kept is the one with rank n.                              *)
LEMMA KeptRank ==
  ASSUME at \in Nat, Ranked, NEW n \in DOMAIN Kept
  PROVE  Kept[n] \in KeptLines /\ Rank(Kept[n], KeptLines) = n
<1>1. n \in 1 .. Cardinality(KeptLines)
  BY DEF Kept
<1>2. \E k \in KeptLines : Rank(k, KeptLines) = n
  BY <1>1 DEF Ranked
<1>3. Kept[n] = CHOOSE k \in KeptLines : Rank(k, KeptLines) = n
  BY <1>1 DEF Kept
<1> QED
  BY <1>2, <1>3

(* A line that is kept goes behind the others.                             *)
LEMMA KeptGrows ==
  ASSUME at \in Nat, Ranked, at' = at + 1, lines' = lines, format' = format,
         Counted(at + 1)
  PROVE  /\ Ranked'
         /\ Cardinality(KeptLines') = Cardinality(KeptLines) + 1
         /\ Kept'[Cardinality(KeptLines) + 1] = at + 1
         /\ \A n \in DOMAIN Kept : Kept'[n] = Kept[n]
<1> DEFINE S == KeptLines  p == at + 1  N == Cardinality(S)
<1>1. /\ IsFiniteSet(S) /\ S \subseteq Nat /\ N \in Nat /\ p \in Nat
      /\ \A k \in S : k < p
  BY KeptLinesFinite
<1>2. KeptLines' = S \cup {p}
  <2>1. 1 .. p = (1 .. at) \cup {p}
    OBVIOUS
  <2>2. \A k : Counted(k)' <=> Counted(k)
    BY DEF Counted
  <2>3. KeptLines' = {k \in 1 .. p : Counted(k)}
    BY <2>2 DEF KeptLines
  <2> QED
    BY <2>1, <2>3 DEF KeptLines
<1>3. /\ Rank(p, S \cup {p}) = N + 1
      /\ \A k \in S : Rank(k, S \cup {p}) = Rank(k, S)
      /\ Cardinality(S \cup {p}) = N + 1
  BY <1>1, RankAppend
<1>4. IsFiniteSet(S \cup {p}) /\ S \cup {p} \subseteq Nat
  BY <1>1, FS_AddElement
<1>5. \A n \in 1 .. N : \E k \in S : Rank(k, S) = n
  BY DEF Ranked
<1>6. DOMAIN Kept = 1 .. N
  BY DEF Kept
<1>7. \A n \in 1 .. N : Kept[n] \in S /\ Rank(Kept[n], S) = n
  BY <1>6, KeptRank
<1>8. Kept' = [n \in 1 .. N + 1 |-> CHOOSE k \in S \cup {p} :
                                      Rank(k, S \cup {p}) = n]
  BY <1>2, <1>3 DEF Kept
<1> HIDE DEF S, p, N
<1>9. ASSUME NEW n \in 1 .. N + 1, NEW k \in S \cup {p}, Rank(k, S \cup {p}) = n
      PROVE  Kept'[n] = k
  <2>1. \A m \in S \cup {p} : Rank(m, S \cup {p}) = n => m = k
    BY <1>4, <1>9, RankUnique
  <2>2. Kept'[n] = CHOOSE m \in S \cup {p} : Rank(m, S \cup {p}) = n
    BY <1>8
  <2> QED
    BY <1>9, <2>1, <2>2
<1>10. Kept'[N + 1] = p
  BY <1>1, <1>3, <1>9
<1>11. ASSUME NEW n \in 1 .. N PROVE Kept'[n] = Kept[n]
  <2>1. Kept[n] \in S /\ Rank(Kept[n], S) = n
    BY <1>7
  <2>2. Rank(Kept[n], S \cup {p}) = n
    BY <1>3, <2>1, Zenon
  <2>3. n \in 1 .. N + 1
    BY <1>1
  <2> QED
    BY <1>9, <2>1, <2>2, <2>3
<1>12. Ranked'
  <2> SUFFICES ASSUME NEW n \in 1 .. N + 1
               PROVE  \E k \in S \cup {p} : Rank(k, S \cup {p}) = n
    BY <1>2, <1>3 DEF Ranked
  <2>1. CASE n = N + 1
    BY <1>3, <2>1
  <2>2. CASE n \in 1 .. N
    BY <1>3, <1>5, <2>2
  <2> QED
    BY <1>1, <2>1, <2>2
<1> QED
  BY <1>2, <1>3, <1>6, <1>10, <1>11, <1>12 DEF S, p, N

(* A line that is not kept changes nothing about the others.               *)
LEMMA KeptStays ==
  ASSUME at \in Nat, at' = at + 1, lines' = lines, format' = format,
         ~Counted(at + 1)
  PROVE  KeptLines' = KeptLines /\ Kept' = Kept /\ (Ranked => Ranked')
<1>1. KeptLines' = KeptLines
  <2>1. 1 .. at + 1 = (1 .. at) \cup {at + 1}
    OBVIOUS
  <2>2. \A k : Counted(k)' <=> Counted(k)
    BY DEF Counted
  <2>3. KeptLines' = {k \in 1 .. at + 1 : Counted(k)}
    BY <2>2 DEF KeptLines
  <2> QED
    BY <2>1, <2>3 DEF KeptLines
<1> QED
  BY <1>1 DEF Kept, Ranked

(* The sink and the raw events are told apart by positions: finite sets.   *)
LEMMA PositionsFinite ==
  ASSUME SinkTypes, \E S : events \in Seq(S)
  PROVE  /\ IsFiniteSet(StoredWarnings) /\ StoredWarnings \subseteq DOMAIN entries
         /\ Cardinality(StoredWarnings) \in Nat
         /\ IsFiniteSet(RawEvents) /\ RawEvents \subseteq DOMAIN events
         /\ Cardinality(RawEvents) \in Nat
         /\ Len(events) \in Nat /\ DOMAIN events = 1 .. Len(events)
         /\ Len(entries) \in Nat /\ DOMAIN entries = 1 .. Len(entries)
<1>1. Len(events) \in Nat /\ DOMAIN events = 1 .. Len(events)
  <2>1. PICK S : events \in Seq(S)
    OBVIOUS
  <2> QED
    BY <2>1
<1>2. Len(entries) \in Nat /\ DOMAIN entries = 1 .. Len(entries)
  BY DEF SinkTypes
<1>3. IsFiniteSet(DOMAIN events) /\ IsFiniteSet(DOMAIN entries)
  <2>1. IsFiniteSet(1 .. Len(events)) /\ IsFiniteSet(1 .. Len(entries))
    BY <1>1, <1>2, FS_Interval
  <2> QED
    BY <1>1, <1>2, <2>1
<1>4. RawEvents \subseteq DOMAIN events /\ StoredWarnings \subseteq DOMAIN entries
  BY DEF RawEvents, StoredWarnings
<1> QED
  BY <1>1, <1>2, <1>3, <1>4, FS_Subset, FS_CardinalityType

(* What becomes of the stored warnings when something is emitted.          *)
LEMMA EmitStores ==
  ASSUME SinkTypes, Len(entries) <= MaxEntries, NEW d, Emit(d)
  PROVE  \/ /\ dropped' = dropped + 1 /\ entries' = entries
            /\ Len(entries) = MaxEntries
            /\ StoredWarnings' = StoredWarnings
         \/ /\ dropped' = dropped /\ entries' = Append(entries, d)
            /\ Len(entries) < MaxEntries
            /\ StoredWarnings' = IF d.level = "warning"
                                 THEN StoredWarnings \cup {Len(entries) + 1}
                                 ELSE StoredWarnings
<1>1. Len(entries) \in Nat /\ DOMAIN entries = 1 .. Len(entries)
  BY DEF SinkTypes
<1>2. CASE Len(entries) >= MaxEntries
  <2>1. entries' = entries /\ dropped' = dropped + 1
    BY <1>2 DEF Emit
  <2>2. StoredWarnings' = StoredWarnings
    BY <2>1 DEF StoredWarnings
  <2>3. \A a, b \in Nat : a <= b /\ a >= b => a = b
    OBVIOUS
  <2>4. Len(entries) = MaxEntries
    BY <1>1, <1>2, <2>3
  <2> QED
    BY <2>1, <2>2, <2>4
<1>3. CASE ~(Len(entries) >= MaxEntries)
  <2>1. entries' = Append(entries, d) /\ dropped' = dropped
    BY <1>3 DEF Emit
  <2>2. /\ DOMAIN entries' = (1 .. Len(entries)) \cup {Len(entries) + 1}
        /\ entries'[Len(entries) + 1] = d
        /\ \A m \in 1 .. Len(entries) : entries'[m] = entries[m]
    BY <1>1, <2>1 DEF SinkTypes
  <2>3. StoredWarnings' = IF d.level = "warning"
                          THEN StoredWarnings \cup {Len(entries) + 1}
                          ELSE StoredWarnings
    BY <1>1, <2>2 DEF StoredWarnings
  <2>4. Len(entries) < MaxEntries
    BY <1>1, <1>3
  <2> QED
    BY <2>1, <2>3, <2>4
<1> QED
  BY <1>2, <1>3

LEMMA RawGrows ==
  ASSUME \E S : events \in Seq(S), NEW e, events' = Append(events, e)
  PROVE  /\ \E S : events' \in Seq(S)
         /\ Len(events') = Len(events) + 1
         /\ events'[Len(events) + 1] = e
         /\ \A n \in DOMAIN events : events'[n] = events[n]
         /\ RawEvents' = IF e.status \notin {"Ok", "Empty"}
                         THEN RawEvents \cup {Len(events) + 1} ELSE RawEvents
<1>1. PICK S : events \in Seq(S)
  OBVIOUS
<1>2. events \in Seq(S \cup {e})
  BY <1>1
<1>3. events' \in Seq(S \cup {e})
  BY <1>2
<1>4. /\ Len(events) \in Nat /\ DOMAIN events = 1 .. Len(events)
      /\ Len(events') = Len(events) + 1
      /\ DOMAIN events' = (1 .. Len(events)) \cup {Len(events) + 1}
      /\ events'[Len(events) + 1] = e
      /\ \A n \in 1 .. Len(events) : events'[n] = events[n]
  BY <1>2
<1>5. RawEvents' = IF e.status \notin {"Ok", "Empty"}
                   THEN RawEvents \cup {Len(events) + 1} ELSE RawEvents
  BY <1>4 DEF RawEvents
<1> QED
  BY <1>3, <1>4, <1>5

(* Line at + 1 makes event e and, only if that is raw, a warning.          *)
Made(e) ==
  /\ at' = at + 1 /\ lines' = lines /\ format' = format /\ pc' = pc
  /\ Counted(at + 1)
  /\ events' = Append(events, e)
  /\ e.record_index = IF format = "json" THEN Len(events) + 1 ELSE at + 1
  /\ format = "json" => record_index' = Len(events) + 1
  /\ format = "syslog" /\ Line.is = "syslog" /\ LegalPri(Line) =>
       \/ e.message # "rest"
       \/ FieldsTell(e.fields, Line.sd, Params(Line.sd))
  /\ IF e.status \notin {"Ok", "Empty"} THEN Emit(Warning)
     ELSE EmitNothing \/ Emit(Diagnostic("debug", at + 1))

LEMMA MadeKeepsPlaces ==
  ASSUME LineInv, pc = "lines", OfLines, NEW e, Made(e)
  PROVE  /\ NothingDisappears' /\ Ranked'
         /\ format' = "json" => record_index' = Len(events')
<1> USE DEF LineInv
<1>1. /\ at \in Nat /\ Ranked /\ at' = at + 1 /\ lines' = lines
      /\ format' = format /\ Counted(at + 1) /\ events' = Append(events, e)
  BY DEF Made
<1>2. /\ Ranked'
      /\ Cardinality(KeptLines') = Cardinality(KeptLines) + 1
      /\ Kept'[Cardinality(KeptLines) + 1] = at + 1
      /\ \A n \in DOMAIN Kept : Kept'[n] = Kept[n]
  BY <1>1, KeptGrows
<1>3. /\ Len(events') = Len(events) + 1
      /\ events'[Len(events) + 1] = e
      /\ \A n \in DOMAIN events : events'[n] = events[n]
      /\ Len(events) \in Nat /\ DOMAIN events = 1 .. Len(events)
      /\ \E S : events' \in Seq(S)
  BY <1>1, RawGrows, PositionsFinite
<1>4. DOMAIN events' = 1 .. Len(events) + 1
  <2>1. PICK S : events' \in Seq(S)
    BY <1>3
  <2> QED
    BY <1>3, <2>1
<1>5. Cardinality(KeptLines) \in Nat
  BY KeptLinesFinite
<1>6. Len(events) = Len(Kept) /\ Len(Kept) = Cardinality(KeptLines)
      /\ DOMAIN Kept = 1 .. Len(events)
  BY <1>5 DEF NothingDisappears, Kept
<1>7. Len(Kept') = Cardinality(KeptLines')
  BY <1>2, <1>5 DEF Kept
<1> DEFINE Placed(event, n, k) ==
      /\ event.record_index = IF format = "json" THEN n ELSE k
      /\ format = "syslog" /\ lines[k].is = "syslog" /\ LegalPri(lines[k]) =>
           \/ event.message # "rest"
           \/ FieldsTell(event.fields, lines[k].sd, Params(lines[k].sd))
<1>8. \A n \in 1 .. Len(events) : Placed(events[n], n, Kept[n])
  BY <1>3 DEF NothingDisappears
<1>9. Placed(e, Len(events) + 1, at + 1)
  BY DEF Made, Line
<1> HIDE DEF Placed
<1>10. ASSUME NEW n \in 1 .. Len(events) + 1
       PROVE  Placed(events'[n], n, Kept'[n])
  <2>1. CASE n = Len(events) + 1
    BY <1>2, <1>3, <1>6, <1>9, <2>1
  <2>2. CASE n \in 1 .. Len(events)
    BY <1>2, <1>3, <1>6, <1>8, <2>2
  <2> QED
    BY <1>3, <2>1, <2>2
<1>11. NothingDisappears'
  BY <1>1, <1>2, <1>3, <1>4, <1>6, <1>7, <1>10 DEF NothingDisappears, Placed
<1> QED
  BY <1>1, <1>2, <1>3, <1>11 DEF Made

LEMMA MadeKeepsWarnings ==
  ASSUME LineInv, pc = "lines", OfLines, NEW e, Made(e)
  PROVE  WarningsAccounted'
<1> USE DEF LineInv
<1>1. /\ Len(entries) <= MaxEntries
      /\ dropped > 0 => Len(entries) = MaxEntries
      /\ Cardinality(StoredWarnings) <= Cardinality(RawEvents)
      /\ Cardinality(RawEvents) <= Cardinality(StoredWarnings) + dropped
      /\ dropped = 0 =>
           {entries[m].line : m \in StoredWarnings} = {Kept[n] : n \in RawEvents}
  BY DEF WarningsAccounted
<1>2. /\ IsFiniteSet(StoredWarnings) /\ StoredWarnings \subseteq 1 .. Len(entries)
      /\ Cardinality(StoredWarnings) \in Nat
      /\ IsFiniteSet(RawEvents) /\ RawEvents \subseteq 1 .. Len(events)
      /\ Cardinality(RawEvents) \in Nat
      /\ Len(entries) \in Nat /\ Len(events) \in Nat /\ dropped \in Nat
      /\ entries \in Seq(Diagnostics)
  BY PositionsFinite DEF SinkTypes
<1>3. RawEvents' = IF e.status \notin {"Ok", "Empty"}
                   THEN RawEvents \cup {Len(events) + 1} ELSE RawEvents
  BY RawGrows DEF Made
<1>4. /\ Kept'[Len(events) + 1] = at + 1
      /\ \A n \in RawEvents : Kept'[n] = Kept[n]
  <2>1. /\ Kept'[Cardinality(KeptLines) + 1] = at + 1
        /\ \A n \in DOMAIN Kept : Kept'[n] = Kept[n]
    BY KeptGrows DEF Made
  <2>2. Cardinality(KeptLines) \in Nat
    BY KeptLinesFinite
  <2>3. Len(events) = Cardinality(KeptLines) /\ DOMAIN Kept = 1 .. Len(events)
    BY <2>2 DEF NothingDisappears, Kept
  <2> QED
    BY <1>2, <2>1, <2>3
<1>5. CASE e.status \notin {"Ok", "Empty"}
  <2>1. Emit(Warning) /\ Warning.level = "warning" /\ Warning.line = at + 1
    BY <1>5 DEF Made, Warning, Diagnostic
  <2>2. Cardinality(RawEvents') = Cardinality(RawEvents) + 1
    <3>1. Len(events) + 1 \notin RawEvents
      BY <1>2
    <3> QED
      BY <1>2, <1>3, <1>5, <3>1, FS_AddElement
  <2>3. {Kept'[n] : n \in RawEvents'} = {Kept[n] : n \in RawEvents} \cup {at + 1}
    BY <1>3, <1>4, <1>5
  <2>4. CASE /\ dropped' = dropped + 1 /\ entries' = entries
             /\ Len(entries) = MaxEntries
             /\ StoredWarnings' = StoredWarnings
    BY <1>1, <1>2, <2>2, <2>4 DEF WarningsAccounted
  <2>5. CASE /\ dropped' = dropped /\ entries' = Append(entries, Warning)
             /\ Len(entries) < MaxEntries
             /\ StoredWarnings' = StoredWarnings \cup {Len(entries) + 1}
    <3>1. /\ Len(entries') = Len(entries) + 1
          /\ entries'[Len(entries) + 1] = Warning
          /\ \A m \in 1 .. Len(entries) : entries'[m] = entries[m]
      BY <1>2, <2>5
    <3>2. Cardinality(StoredWarnings') = Cardinality(StoredWarnings) + 1
      <4>1. Len(entries) + 1 \notin StoredWarnings
        BY <1>2
      <4> QED
        BY <1>2, <2>5, <4>1, FS_AddElement
    <3>3. {entries'[m].line : m \in StoredWarnings'} =
            {entries[m].line : m \in StoredWarnings} \cup {at + 1}
      BY <1>2, <2>1, <2>5, <3>1
    <3>4. Len(entries') <= MaxEntries /\ (dropped' > 0 => Len(entries') = MaxEntries)
      BY <1>1, <1>2, <2>5, <3>1
    <3>5. /\ Cardinality(StoredWarnings') <= Cardinality(RawEvents')
          /\ Cardinality(RawEvents') <= Cardinality(StoredWarnings') + dropped'
      BY <1>1, <1>2, <2>2, <2>5, <3>2, SMTT(15)
    <3> QED
      BY <1>1, <2>3, <2>5, <3>3, <3>4, <3>5 DEF WarningsAccounted
  <2> QED
    BY <1>1, <2>1, <2>4, <2>5, EmitStores
<1>6. CASE e.status \in {"Ok", "Empty"}
  <2>1. RawEvents' = RawEvents
    BY <1>3, <1>6
  <2>2. {Kept'[n] : n \in RawEvents'} = {Kept[n] : n \in RawEvents}
    BY <1>4, <2>1
  <2>3. CASE EmitNothing
    <3>1. entries' = entries /\ dropped' = dropped
      BY <2>3 DEF EmitNothing, sinkVars
    <3>2. StoredWarnings' = StoredWarnings
      BY <3>1 DEF StoredWarnings
    <3> QED
      BY <1>1, <2>1, <2>2, <3>1, <3>2 DEF WarningsAccounted
  <2>4. CASE Emit(Diagnostic("debug", at + 1))
    <3>1. Diagnostic("debug", at + 1).level # "warning"
      BY DEF Diagnostic
    <3>2. CASE /\ dropped' = dropped + 1 /\ entries' = entries
               /\ Len(entries) = MaxEntries
               /\ StoredWarnings' = StoredWarnings
      BY <1>1, <1>2, <2>1, <3>2 DEF WarningsAccounted
    <3>3. CASE /\ dropped' = dropped
               /\ entries' = Append(entries, Diagnostic("debug", at + 1))
               /\ Len(entries) < MaxEntries
               /\ StoredWarnings' = StoredWarnings
      <4>1. /\ Len(entries') = Len(entries) + 1
            /\ \A m \in 1 .. Len(entries) : entries'[m] = entries[m]
        BY <1>2, <3>3
      <4>2. {entries'[m].line : m \in StoredWarnings'} =
              {entries[m].line : m \in StoredWarnings}
        BY <1>2, <3>3, <4>1
      <4>3. Len(entries') <= MaxEntries /\ (dropped' > 0 => Len(entries') = MaxEntries)
        BY <1>1, <1>2, <3>3, <4>1
      <4> QED
        BY <1>1, <2>1, <2>2, <3>3, <4>2, <4>3 DEF WarningsAccounted
    <3> QED
      BY <1>1, <2>4, <3>1, <3>2, <3>3, EmitStores
  <2> QED
    BY <1>6, <2>3, <2>4 DEF Made
<1> QED
  BY <1>5, <1>6

(* A line read by one of the parsers is in the artifact.                   *)
LEMMA LineOfArtifact ==
  ASSUME LineInv, Reading
  PROVE  /\ pc = "lines" /\ pc' = "lines" /\ at' = at + 1
         /\ lines' = lines /\ format' = format
         /\ Line.is = "syslog" =>
              Line.sd \in Seq(SdElements) /\ (~Line.version => Line.sd = <<>>)
         /\ Line.is = "json" => Line.value \notin {"Ok", "Empty"}
<1>1. /\ pc = "lines" /\ pc' = "lines" /\ at' = at + 1
      /\ lines' = lines /\ format' = format /\ at < Len(lines)
  BY DEF Reading
<1>2. lines \in Artifacts /\ at \in Nat
  BY DEF LineInv
<1>3. Len(lines) \in Nat
  BY <1>2, ArtifactLines
<1>4. at + 1 \in 1 .. Len(lines)
  BY <1>1, <1>2, <1>3
<1> QED
  BY <1>1, <1>2, <1>4, ArtifactLines DEF Line

LEMMA SmallestExists ==
  ASSUME NEW S \in SUBSET Nat, S # {}
  PROVE  \E x \in S : \A y \in S : x <= y
<1> DEFINE R == OpToRel(<, Nat)
<1>1. IsWellFoundedOn(R, Nat)
  BY NatLessThanWellFounded
<1>2. \A x \in Nat, y \in Nat : y < x => <<y, x>> \in R
  BY DEF OpToRel
<1> HIDE DEF R
<1>3. \E x \in S : \A y \in S : ~ (<<y, x>> \in R)
  BY <1>1, WFMin
<1>4. \A x \in S : x \in Nat
  OBVIOUS
<1>5. \A x, y \in S : ~ (<<y, x>> \in R) => x <= y
  BY <1>2, <1>4
<1> QED
  BY <1>3, <1>5

----------------------------------------------------------------------------
LEMMA SeqDomain ==
  ASSUME NEW S, NEW s \in Seq(S)
  PROVE  Len(s) \in Nat /\ DOMAIN s = 1 .. Len(s) /\ DOMAIN s \subseteq Nat \ {0}
OBVIOUS

LEMMA SeqOfItsElements ==
  ASSUME NEW S, NEW n \in Nat, NEW s,
         s = [k \in 1 .. n |-> s[k]], \A k \in 1 .. n : s[k] \in S
  PROVE  s \in Seq(S)
<1>1. [k \in 1 .. n |-> s[k]] \in Seq(S)
  OBVIOUS
<1> QED
  BY <1>1, Zenon

(* A field map tells what the parameters read so far say.                  *)
Told(fields, sd, params) ==
  (\E S : fields \in Seq(S)) /\ FieldsTell(fields, sd, params)

(* One more parameter, behind those read so far.                           *)
LEMMA FieldSetTells ==
  ASSUME NEW fields, NEW sd, NEW B, NEW a,
         Told(fields, sd, B), ~IsBehind(a, a),
         \A b \in B : IsBehind(a, b) /\ ~IsBehind(b, a)
  PROVE  Told(FieldSet(fields, FieldOf(sd, a).key, FieldOf(sd, a).text), sd, B \cup {a})
<1> DEFINE E(b) == FieldOf(sd, b)
      K(b) == E(b).key
      new == FieldSet(fields, K(a), E(a).text)
      lasting(C) == {c \in C : \A b \in C : IsBehind(b, c) => K(b) # K(c)}
      Values(s) == {s[f] : f \in DOMAIN s}
      Old == {f \in DOMAIN fields : fields[f].key # K(a)}
      kept == {b \in lasting(B) : K(b) # K(a)}
<1>1. PICK S : fields \in Seq(S)
  BY DEF Told
<1>2. PICK n \in Nat : n = Len(fields) /\ DOMAIN fields = 1 .. n
  BY <1>1
<1>3. Values(fields) = {E(b) : b \in lasting(B)}
  BY Zenon DEF Told, FieldsTell
<1>4. \A f, g \in DOMAIN fields : fields[f].key = fields[g].key => f = g
  BY DEF Told, FieldsTell
<1>5. E(a) = [key |-> K(a), text |-> E(a).text]
  BY DEF FieldOf
<1> HIDE DEF E, K
<1>6. lasting(B \cup {a}) = {a} \cup kept
  OBVIOUS
<1>7. {E(b) : b \in kept} = {fields[f] : f \in Old}
  <2>1. \A b : E(b).key = K(b)
    BY DEF K
  <2>2. ASSUME NEW b \in kept PROVE \E f \in Old : E(b) = fields[f]
    <3>1. E(b) \in Values(fields)
      BY <1>3, <2>2
    <3>2. PICK f \in DOMAIN fields : E(b) = fields[f]
      BY <3>1
    <3> QED
      BY <2>1, <3>2
  <2>3. ASSUME NEW f \in Old PROVE \E b \in kept : fields[f] = E(b)
    <3>1. fields[f] \in {E(b) : b \in lasting(B)}
      BY <1>3
    <3>2. PICK b \in lasting(B) : fields[f] = E(b)
      BY <3>1
    <3> QED
      BY <2>1, <3>2
  <2> QED
    BY <2>2, <2>3
<1>8. /\ \E T : new \in Seq(T)
      /\ Values(new) = {E(a)} \cup {fields[f] : f \in Old}
      /\ \A f, g \in DOMAIN new : new[f].key = new[g].key => f = g
  <2>1. CASE K(a) \in FieldKeys(fields)
    <3>1. new = [k \in DOMAIN fields |-> IF fields[k].key = K(a) THEN E(a) ELSE fields[k]]
      BY <1>5, <2>1, Zenon DEF FieldSet
    <3>2. PICK at0 \in DOMAIN fields : fields[at0].key = K(a)
      BY <2>1 DEF FieldKeys
    <3>3. DOMAIN new = 1 .. n /\ DOMAIN fields = 1 .. n
      BY <1>2, <3>1
    <3>4. \A k \in 1 .. n : new[k] = IF fields[k].key = K(a) THEN E(a) ELSE fields[k]
      BY <1>2, <3>1
    <3>5. E(a).key = K(a)
      BY DEF K
    <3>6. new \in Seq(S \cup {E(a)})
      <4>1. \A k \in 1 .. n : fields[k] \in S
        BY <1>1, <1>2
      <4>2. \A k \in 1 .. n : new[k] \in S \cup {E(a)}
        BY <3>4, <4>1
      <4>3. new = [k \in 1 .. n |-> new[k]]
        BY <1>2, <3>1
      <4> HIDE DEF new
      <4> QED
        BY <4>2, <4>3, SeqOfItsElements, Zenon
    <3> HIDE DEF new
    <3>7. Values(new) = {E(a)} \cup {fields[f] : f \in Old}
      <4>1. ASSUME NEW k \in 1 .. n
            PROVE  new[k] \in {E(a)} \cup {fields[f] : f \in Old}
        BY <3>3, <3>4
      <4>2. E(a) \in Values(new)
        BY <3>2, <3>3, <3>4
      <4>3. ASSUME NEW f \in Old PROVE fields[f] \in Values(new)
        BY <3>3, <3>4
      <4> QED
        BY <3>3, <4>1, <4>2, <4>3
    <3>8. ASSUME NEW f \in 1 .. n, NEW g \in 1 .. n, new[f].key = new[g].key
          PROVE  f = g
      <4>1. new[f].key = fields[f].key /\ new[g].key = fields[g].key
        BY <3>4, <3>5
      <4> QED
        BY <1>4, <3>3, <3>8, <4>1
    <3> QED
      BY <3>3, <3>6, <3>7, <3>8
  <2>2. CASE K(a) \notin FieldKeys(fields)
    <3>1. new = Append(fields, E(a))
      BY <1>5, <2>2, Zenon DEF FieldSet
    <3>2. \A k \in 1 .. n : fields[k].key # K(a)
      BY <1>2, <2>2 DEF FieldKeys
    <3>3. Old = 1 .. n
      BY <1>2, <3>2
    <3>4. E(a).key = K(a)
      BY DEF K
    <3>5. fields \in Seq(S \cup {E(a)}) /\ E(a) \in S \cup {E(a)}
      BY <1>1
    <3>6. new \in Seq(S \cup {E(a)}) /\ DOMAIN new = 1 .. n + 1
          /\ new[n + 1] = E(a) /\ \A k \in 1 .. n : new[k] = fields[k]
      BY <1>2, <3>1, <3>5
    <3> HIDE DEF new
    <3>7. Values(new) = {E(a)} \cup {fields[f] : f \in Old}
      <4>1. \A k \in 1 .. n + 1 : k \in 1 .. n \/ k = n + 1
        OBVIOUS
      <4>2. 1 .. n \subseteq 1 .. n + 1 /\ n + 1 \in 1 .. n + 1
        OBVIOUS
      <4> QED
        BY <3>3, <3>6, <4>1, <4>2
    <3>8. ASSUME NEW f \in 1 .. n + 1, NEW g \in 1 .. n + 1, new[f].key = new[g].key
          PROVE  f = g
      <4>1. CASE f \in 1 .. n /\ g \in 1 .. n
        BY <1>2, <1>4, <3>6, <3>8, <4>1
      <4>2. CASE f = n + 1 /\ g = n + 1
        BY <4>2
      <4>3. CASE f \in 1 .. n /\ g = n + 1
        BY <3>2, <3>4, <3>6, <3>8, <4>3
      <4>4. CASE f = n + 1 /\ g \in 1 .. n
        BY <3>2, <3>4, <3>6, <3>8, <4>4
      <4> QED
        BY <4>1, <4>2, <4>3, <4>4
    <3> QED
      BY <3>6, <3>7, <3>8
  <2> QED
    BY <2>1, <2>2
<1> HIDE DEF new
<1>9. {E(b) : b \in {a} \cup kept} = {E(a)} \cup {E(b) : b \in kept}
  OBVIOUS
<1>10. Values(new) = {E(b) : b \in lasting(B \cup {a})}
  <2> HIDE DEF kept, lasting, Values, Old
  <2> QED
    BY <1>6, <1>7, <1>8, <1>9
<1>11. FieldsTell(new, sd, B \cup {a})
  <2> USE DEF K, E
  <2> QED
    BY <1>8, <1>10, Zenon DEF FieldsTell
<1> QED
  BY <1>8, <1>11 DEF Told, new, E, K

----------------------------------------------------------------------------
(* The two loops of to_event, over the elements and over the parameters of *)
(* one, and the places of the parameters read after i rounds.              *)
Round(loop, sd, k, x, i) ==
  IF loop = "params" THEN FieldSet(x, FieldKey(sd[k], i), sd[k].params[i].value)
  ELSE WithParams(x, sd[i])

ReadBy(loop, sd, k, i) ==
  IF loop = "params"
  THEN {b \in Params(sd) : b[1] < k \/ (b[1] = k /\ b[2] <= i)}
  ELSE {b \in Params(sd) : b[1] <= i}

Loops(f, loop, sd, k, x, n) ==
  f = [i \in 0 .. n |-> IF i = 0 THEN x ELSE Round(loop, sd, k, f[i - 1], i)]

LEMMA LoopExists ==
  ASSUME NEW loop, NEW sd, NEW k, NEW x, NEW n \in Nat
  PROVE  \E f : Loops(f, loop, sd, k, x, n)
<1> DEFINE Wrong == {j \in Nat : ~ \E f : Loops(f, loop, sd, k, x, j)}
<1>1. SUFFICES ASSUME Wrong # {} PROVE FALSE
  OBVIOUS
<1>2. PICK j \in Wrong : \A i \in Wrong : j <= i
  <2>1. Wrong \in SUBSET Nat
    OBVIOUS
  <2> HIDE DEF Wrong
  <2> QED
    BY <1>1, <2>1, SmallestExists
<1>3. j \in Nat /\ ~ \E f : Loops(f, loop, sd, k, x, j)
  BY <1>2
<1>4. j # 0
  <2>1. SUFFICES ASSUME j = 0 PROVE FALSE
    OBVIOUS
  <2> DEFINE g == [i \in 0 .. 0 |-> x]
  <2>2. g = [i \in 0 .. 0 |-> IF i = 0 THEN x ELSE Round(loop, sd, k, g[i - 1], i)]
    <3>1. \A i \in 0 .. 0 : i = 0
      OBVIOUS
    <3> QED
      BY <3>1
  <2>3. Loops(g, loop, sd, k, x, j)
    BY <2>1, <2>2 DEF Loops
  <2> QED
    BY <1>3, <2>3
<1>5. j - 1 \in Nat /\ ~(j <= j - 1)
  BY <1>3, <1>4
<1>6. PICK f : Loops(f, loop, sd, k, x, j - 1)
  BY <1>2, <1>5
<1> DEFINE g == [i \in 0 .. j |-> IF i < j THEN f[i] ELSE Round(loop, sd, k, f[j - 1], j)]
<1>7. ASSUME NEW i \in 0 .. j
      PROVE  g[i] = IF i = 0 THEN x ELSE Round(loop, sd, k, g[i - 1], i)
  <2>1. CASE i = j
    <3>1. j - 1 \in 0 .. j /\ j - 1 < j /\ j \in 0 .. j /\ ~(j < j)
      BY <1>3, <1>4
    <3>2. g[j] = Round(loop, sd, k, f[j - 1], j) /\ g[j - 1] = f[j - 1]
      BY <3>1
    <3> QED
      BY <1>4, <2>1, <3>2
  <2>2. CASE i # j
    <3>1. i \in 0 .. j - 1 /\ i < j /\ i \in 0 .. j
      BY <1>3, <2>2
    <3>2. g[i] = f[i]
      BY <3>1
    <3>3. f[i] = IF i = 0 THEN x ELSE Round(loop, sd, k, f[i - 1], i)
      BY <1>6, <3>1 DEF Loops
    <3>4. i # 0 => g[i - 1] = f[i - 1]
      <4>1. i # 0 => i - 1 \in 0 .. j /\ i - 1 < j
        BY <1>3, <3>1
      <4> QED
        BY <4>1
    <3> QED
      BY <3>2, <3>3, <3>4
  <2> QED
    BY <2>1, <2>2
<1>8. Loops(g, loop, sd, k, x, j)
  <2>1. g = [i \in 0 .. j |-> g[i]]
    OBVIOUS
  <2> HIDE DEF g
  <2> QED
    BY <1>7, <2>1 DEF Loops
<1> QED
  BY <1>3, <1>8

(* What one round keeps true of the field map is true after the loop.      *)
LEMMA LoopTells ==
  ASSUME NEW loop, NEW sd, NEW k, NEW x, NEW n \in Nat,
         NEW f, Loops(f, loop, sd, k, x, n),
         Told(x, sd, ReadBy(loop, sd, k, 0)),
         \A y : \A i \in 1 .. n : Told(y, sd, ReadBy(loop, sd, k, i - 1)) =>
             Told(Round(loop, sd, k, y, i), sd, ReadBy(loop, sd, k, i))
  PROVE  Told(f[n], sd, ReadBy(loop, sd, k, n))
<1> DEFINE Wrong == {i \in 0 .. n : ~Told(f[i], sd, ReadBy(loop, sd, k, i))}
<1>1. SUFFICES ASSUME Wrong # {} PROVE FALSE
  BY n \in 0 .. n
<1>2. PICK j \in Wrong : \A i \in Wrong : j <= i
  <2>1. Wrong \in SUBSET Nat
    OBVIOUS
  <2> HIDE DEF Wrong
  <2> QED
    BY <1>1, <2>1, SmallestExists
<1>3. j \in 0 .. n /\ ~Told(f[j], sd, ReadBy(loop, sd, k, j))
  BY <1>2
<1>4. \A i \in 0 .. n : f[i] = IF i = 0 THEN x ELSE Round(loop, sd, k, f[i - 1], i)
  BY DEF Loops
<1>5. j # 0
  BY <1>3, <1>4
<1>6. j \in 1 .. n /\ j - 1 \in 0 .. n /\ ~(j <= j - 1)
  BY <1>3, <1>5
<1>7. Told(f[j - 1], sd, ReadBy(loop, sd, k, j - 1))
  BY <1>2, <1>6
<1>8. f[j] = Round(loop, sd, k, f[j - 1], j)
  BY <1>4, <1>3, <1>5
<1> QED
  BY <1>3, <1>6, <1>7, <1>8

LEMMA ParamsAre ==
  ASSUME NEW sd, NEW b
  PROVE  b \in Params(sd) <=>
           \E k \in DOMAIN sd : \E p \in DOMAIN sd[k].params : b = <<k, p>>
BY DEF Params

(* The loop over the parameters of element k.                              *)
LEMMA ElementTells ==
  ASSUME NEW sd \in Seq(SdElements), NEW k \in 1 .. Len(sd), NEW x,
         Told(x, sd, ReadBy("elements", sd, 0, k - 1))
  PROVE  Told(WithParams(x, sd[k]), sd, ReadBy("elements", sd, 0, k))
<1>1. sd[k] \in SdElements /\ k \in Nat \ {0} /\ DOMAIN sd \subseteq Nat /\ k \in DOMAIN sd
  OBVIOUS
<1>2. sd[k].params \in Seq([name : Seq(STRING), value : STRING])
  BY <1>1 DEF SdElements
<1>3. PICK n \in Nat : n = Len(sd[k].params) /\ DOMAIN sd[k].params = 1 .. n
  BY <1>2, SeqDomain, Zenon
<1>4. \A b \in Params(sd) :
        /\ b = <<b[1], b[2]>> /\ b[1] \in Nat /\ b[2] \in Nat \ {0}
        /\ b[1] = k => b[2] \in 1 .. n
  <2>1. \A i \in DOMAIN sd : DOMAIN sd[i].params \subseteq Nat \ {0}
    <3>1. ASSUME NEW i \in DOMAIN sd PROVE DOMAIN sd[i].params \subseteq Nat \ {0}
      <4>1. sd[i] \in SdElements
        OBVIOUS
      <4>2. sd[i].params \in Seq([name : Seq(STRING), value : STRING])
        BY <4>1 DEF SdElements
      <4> QED
        BY <4>2, SeqDomain, Zenon
    <3> QED
      BY <3>1
  <2>2. ASSUME NEW b \in Params(sd)
        PROVE  /\ b = <<b[1], b[2]>> /\ b[1] \in Nat /\ b[2] \in Nat \ {0}
               /\ b[1] = k => b[2] \in 1 .. n
    <3>1. PICK i \in DOMAIN sd : \E p \in DOMAIN sd[i].params : b = <<i, p>>
      BY ParamsAre
    <3>2. PICK p \in DOMAIN sd[i].params : b = <<i, p>>
      BY <3>1
    <3>3. b[1] = i /\ b[2] = p
      BY <3>2
    <3>4. i \in Nat /\ p \in Nat \ {0} /\ (i = k => p \in 1 .. n)
      BY <1>1, <1>3, <2>1
    <3> QED
      BY <3>2, <3>3, <3>4, Zenon
  <2> QED
    BY <2>2
<1>5. \A i \in 1 .. n : <<k, i>> \in Params(sd)
  BY <1>1, <1>3, ParamsAre
<1>6. ReadBy("params", sd, k, 0) = ReadBy("elements", sd, 0, k - 1)
  <2>1. \A m \in Nat, q \in Nat \ {0} : (m < k \/ (m = k /\ q <= 0)) <=> m <= k - 1
    BY <1>1
  <2>2. \A b \in Params(sd) : (b[1] < k \/ (b[1] = k /\ b[2] <= 0)) <=> b[1] <= k - 1
    BY <1>4, <2>1, Zenon
  <2> QED
    BY <2>2 DEF ReadBy
<1>7. ReadBy("params", sd, k, n) = ReadBy("elements", sd, 0, k)
  <2>1. \A m \in Nat, q \in Nat : (m = k => q \in 1 .. n) =>
          ((m < k \/ (m = k /\ q <= n)) <=> m <= k)
    BY <1>1
  <2>2. \A b \in Params(sd) : (b[1] < k \/ (b[1] = k /\ b[2] <= n)) <=> b[1] <= k
    <3>1. Nat \ {0} \subseteq Nat
      OBVIOUS
    <3> QED
      BY <1>4, <2>1, <3>1, Zenon
  <2> QED
    BY <2>2 DEF ReadBy
<1>8. ASSUME NEW i \in 1 .. n, NEW y, Told(y, sd, ReadBy("params", sd, k, i - 1))
      PROVE  Told(Round("params", sd, k, y, i), sd, ReadBy("params", sd, k, i))
  <2> DEFINE a == <<k, i>>
             B == ReadBy("params", sd, k, i - 1)
  <2>1. a[1] = k /\ a[2] = i
    OBVIOUS
  <2>2. ReadBy("params", sd, k, i) = B \cup {a}
    <3>1. ASSUME NEW b \in Params(sd)
          PROVE  (b[1] < k \/ (b[1] = k /\ b[2] <= i)) <=>
                   (b[1] < k \/ (b[1] = k /\ b[2] <= i - 1)) \/ b = a
      <4>1. b = <<b[1], b[2]>> /\ b[1] \in Nat /\ b[2] \in Nat
        BY <1>4
      <4>2. b = a <=> b[1] = k /\ b[2] = i
        BY <4>1
      <4>3. b[2] <= i <=> b[2] <= i - 1 \/ b[2] = i
        <5>1. \A m \in Nat : m <= i <=> m <= i - 1 \/ m = i
          BY <1>3
        <5> QED
          BY <4>1, <5>1
      <4>4. ~(k < k)
        BY <1>1
      <4> QED
        BY <4>2, <4>3, <4>4
    <3>2. a \in Params(sd)
      BY <1>5
    <3> QED
      BY <3>1, <3>2 DEF ReadBy
  <2>3. ~IsBehind(a, a)
    BY <1>1, <1>3, <2>1 DEF IsBehind
  <2>4. \A b \in B : IsBehind(a, b) /\ ~IsBehind(b, a)
    <3>1. ASSUME NEW b \in B PROVE IsBehind(a, b) /\ ~IsBehind(b, a)
      <4>1. b \in Params(sd) /\ (b[1] < k \/ (b[1] = k /\ b[2] <= i - 1))
        BY DEF ReadBy
      <4>2. b[1] \in Nat /\ b[2] \in Nat
        BY <1>4, <4>1
      <4> HIDE DEF a, B
      <4>3. \A m \in Nat, q \in Nat : m < k \/ (m = k /\ q <= i - 1) =>
              /\ k > m \/ (k = m /\ i > q)
              /\ ~(m > k \/ (m = k /\ q > i))
        BY <1>1, <1>3
      <4> QED
        BY <2>1, <4>1, <4>2, <4>3, Zenon DEF IsBehind
    <3> QED
      BY <3>1
  <2>5. /\ FieldOf(sd, a).key = FieldKey(sd[k], i)
        /\ FieldOf(sd, a).text = sd[k].params[i].value
    BY <2>1 DEF FieldOf
  <2>6. Told(FieldSet(y, FieldOf(sd, a).key, FieldOf(sd, a).text), sd, B \cup {a})
    <3> HIDE DEF a
    <3> QED
      BY <1>8, <2>3, <2>4, FieldSetTells
  <2> QED
    BY <2>2, <2>5, <2>6 DEF Round
<1> DEFINE upto == CHOOSE f : Loops(f, "params", sd, k, x, n)
<1>9. WithParams(x, sd[k]) = upto[n]
  BY <1>3, Zenon DEF WithParams, Loops, Round
<1>10. Loops(upto, "params", sd, k, x, n)
  BY LoopExists
<1> HIDE DEF upto
<1>11. Told(upto[n], sd, ReadBy("params", sd, k, n))
  BY <1>6, <1>8, <1>10, LoopTells
<1> QED
  BY <1>7, <1>9, <1>11

(* Structured data that is well formed is in the fields.                   *)
LEMMA StructuredFieldsTell ==
  ASSUME NEW sd \in Seq(SdElements)
  PROVE  FieldsTell(StructuredFields(sd), sd, Params(sd))
<1>1. PICK n \in Nat : n = Len(sd) /\ DOMAIN sd = 1 .. n
  OBVIOUS
<1>2. \A b \in Params(sd) : b[1] \in 1 .. n
  BY <1>1, ParamsAre
<1>3. ReadBy("elements", sd, 0, 0) = {} /\ ReadBy("elements", sd, 0, n) = Params(sd)
  BY <1>1, <1>2 DEF ReadBy
<1>4. Told(<<>>, sd, {})
  <2>1. <<>> \in Seq({}) /\ DOMAIN <<>> = {}
    OBVIOUS
  <2> QED
    BY <2>1 DEF Told, FieldsTell
<1>5. ASSUME NEW i \in 1 .. n, NEW y, Told(y, sd, ReadBy("elements", sd, 0, i - 1))
      PROVE  Told(Round("elements", sd, 0, y, i), sd, ReadBy("elements", sd, 0, i))
  BY <1>1, <1>5, ElementTells DEF Round
<1> DEFINE upto == CHOOSE f : Loops(f, "elements", sd, 0, <<>>, n)
<1>6. StructuredFields(sd) = upto[n]
  BY <1>1, Zenon DEF StructuredFields, Loops, Round
<1>7. Loops(upto, "elements", sd, 0, <<>>, n)
  BY LoopExists
<1> HIDE DEF upto
<1>8. Told(upto[n], sd, ReadBy("elements", sd, 0, n))
  BY <1>3, <1>4, <1>5, <1>7, LoopTells
<1> QED
  BY <1>3, <1>6, <1>8 DEF Told

(* Structured data is in the fields, or it is left in the message.         *)
LEMMA SyslogKeepsData ==
  ASSUME NEW line, line.is = "syslog", LegalPri(line),
         line.sd \in Seq(SdElements), ~line.version => line.sd = <<>>
  PROVE  \/ Syslog(line).message # "rest"
         \/ FieldsTell(Syslog(line).fields, line.sd, Params(line.sd))
<1>1. \A t, d, m : Parsed(t, d, m).fields = d /\ Parsed(t, d, m).message = m
  BY DEF Parsed
<1>2. CASE line.version
  <2>1. Syslog(line) = Rfc5424(line)
    BY <1>2 DEF Syslog
  <2>2. PICK status : status = StructuredData(line.sd)
    OBVIOUS
  <2>3. CASE status = "Ok"
    BY <1>1, <2>1, <2>2, <2>3, StructuredFieldsTell DEF Rfc5424
  <2>4. CASE status = "LimitExceeded"
    BY <2>1, <2>2, <2>4 DEF Rfc5424, Failed
  <2>5. CASE status \notin {"Ok", "LimitExceeded"}
    BY <1>1, <2>1, <2>2, <2>5 DEF Rfc5424
  <2> QED
    BY <2>3, <2>4, <2>5
<1>3. CASE ~line.version
  <2>1. Syslog(line) = Rfc3164(line)
    BY <1>3 DEF Syslog
  <2>2. Syslog(line).fields = <<>>
    BY <1>1, <2>1 DEF Rfc3164
  <2>3. Params(<<>>) = {} /\ DOMAIN <<>> = {}
    BY DEF Params
  <2>4. FieldsTell(<<>>, <<>>, {})
    BY <2>3 DEF FieldsTell
  <2> QED
    BY <1>3, <2>2, <2>3, <2>4
<1> QED
  BY <1>2, <1>3

LEMMA SyslogMakes ==
  ASSUME LineInv, SyslogLine
  PROVE  pc = "lines" /\ OfLines /\ Made(Event(Syslog(Line), at + 1))
<1> DEFINE e == Event(Syslog(Line), at + 1)
<1>1. Reading /\ format = "syslog" /\ EveryLine(Syslog(Line))
  BY DEF SyslogLine
<1>2. /\ pc = "lines" /\ pc' = "lines" /\ at' = at + 1
      /\ lines' = lines /\ format' = format
      /\ Line.is = "syslog" =>
           Line.sd \in Seq(SdElements) /\ (~Line.version => Line.sd = <<>>)
  BY <1>1, LineOfArtifact
<1>3. /\ e.record_index = at + 1 /\ e.status = Syslog(Line).status
      /\ e.fields = Syslog(Line).fields /\ e.message = Syslog(Line).message
  BY DEF Event
<1>4. Line.is = "syslog" /\ LegalPri(Line) =>
        \/ e.message # "rest"
        \/ FieldsTell(e.fields, Line.sd, Params(Line.sd))
  BY <1>2, <1>3, SyslogKeepsData
<1>5. /\ events' = Append(events, e) /\ record_index' = at + 1
      /\ IF e.status \in {"Ok", "Empty"} THEN EmitNothing ELSE Emit(Warning)
  BY <1>1, <1>3 DEF EveryLine, Add
<1> QED
  BY <1>1, <1>2, <1>3, <1>4, <1>5 DEF Made, OfLines, Counted

LEMMA CefMakes ==
  ASSUME LineInv, CefLine
  PROVE  pc = "lines" /\ OfLines /\ Made(Event(Cef(Line), at + 1))
<1> DEFINE e == Event(Cef(Line), at + 1)
<1>1. Reading /\ format = "cef" /\ EveryLine(Cef(Line))
  BY DEF CefLine
<1>2. /\ pc = "lines" /\ pc' = "lines" /\ at' = at + 1
      /\ lines' = lines /\ format' = format
  BY <1>1, LineOfArtifact
<1>3. e.record_index = at + 1 /\ e.status = Cef(Line).status
  BY DEF Event
<1>4. /\ events' = Append(events, e)
      /\ IF e.status \in {"Ok", "Empty"} THEN EmitNothing ELSE Emit(Warning)
  BY <1>1, <1>3 DEF EveryLine, Add
<1> QED
  BY <1>1, <1>2, <1>3, <1>4 DEF Made, OfLines, Counted

LEMMA WebMakes ==
  ASSUME LineInv, WebLine
  PROVE  pc = "lines" /\ OfLines /\ Made(Event(Web(Line), at + 1))
<1> DEFINE e == Event(Web(Line), at + 1)
<1>1. /\ Reading /\ format = "web" /\ ~White(Line)
      /\ events' = Append(events, e)
  BY DEF WebLine, Add
<1>2. /\ pc = "lines" /\ pc' = "lines" /\ at' = at + 1
      /\ lines' = lines /\ format' = format
  BY <1>1, LineOfArtifact
<1>3. e.record_index = at + 1 /\ e.status = Web(Line).status
  BY DEF Event
<1>4. Web(Line).status \in {"Ok", "Malformed"}
  BY DEF Web, Failed, Parsed
<1>5. IF e.status \notin {"Ok", "Empty"} THEN Emit(Warning)
      ELSE EmitNothing \/ Emit(Diagnostic("debug", at + 1))
  BY <1>3, <1>4 DEF WebLine
<1> QED
  BY <1>1, <1>2, <1>3, <1>5 DEF Made, OfLines, Counted, Line

LEMMA JsonMakes ==
  ASSUME LineInv, JsonLine
  PROVE  pc = "lines" /\ OfLines /\ Made(Event(Json(Line), record_index + 1))
<1> DEFINE e == Event(Json(Line), record_index + 1)
<1>1. /\ Reading /\ format = "json" /\ ~White(Line)
      /\ events' = Append(events, e) /\ record_index' = record_index + 1
      /\ IF Json(Line).status # "Ok" THEN Emit(Warning) ELSE EmitNothing
  BY DEF JsonLine, Add
<1>2. /\ pc = "lines" /\ pc' = "lines" /\ at' = at + 1
      /\ lines' = lines /\ format' = format
      /\ Line.is = "json" => Line.value \notin {"Ok", "Empty"}
  BY <1>1, LineOfArtifact
<1>3. e.record_index = record_index + 1 /\ e.status = Json(Line).status
  BY DEF Event
<1>4. Json(Line).status # "Empty"
  <2>1. CASE Line.is # "json"
    BY <2>1 DEF Json, Failed
  <2>2. CASE Line.is = "json"
    BY <1>2, <2>2 DEF Json, Failed, Parsed
  <2> QED
    BY <2>1, <2>2
<1>5. record_index = Len(events) /\ OfLines
  BY <1>1, <1>2 DEF LineInv, OfLines
<1>6. IF e.status \notin {"Ok", "Empty"} THEN Emit(Warning)
      ELSE EmitNothing \/ Emit(Diagnostic("debug", at + 1))
  BY <1>1, <1>3, <1>4
<1> QED
  BY <1>1, <1>2, <1>3, <1>5, <1>6 DEF Made, Counted, Line

(* A white line of an access log or of JSON changes nothing of the stream  *)
(* and the sink.                                                           *)
LEMMA WhiteKeepsLines ==
  ASSUME LineInv, WebWhiteLine \/ JsonWhiteLine
  PROVE  LineInv'
<1>1. /\ Reading /\ format \in {"web", "json"} /\ White(Line)
      /\ events' = events /\ entries' = entries /\ dropped' = dropped
      /\ format = "json" => record_index' = record_index
  BY DEF WebWhiteLine, JsonWhiteLine, streamVars, sinkVars
<1>2. /\ pc = "lines" /\ pc' = "lines" /\ at' = at + 1
      /\ lines' = lines /\ format' = format /\ at \in Nat /\ OfLines /\ OfLines'
  BY <1>1, LineOfArtifact DEF LineInv, OfLines
<1>3. ~Counted(at + 1)
  BY <1>1 DEF Counted, Line
<1>4. KeptLines' = KeptLines /\ Kept' = Kept /\ Ranked'
  BY <1>2, <1>3, KeptStays DEF LineInv
<1>5. NothingDisappears' /\ WarningsAccounted'
  <2>1. RawEvents' = RawEvents /\ StoredWarnings' = StoredWarnings
    BY <1>1 DEF RawEvents, StoredWarnings
  <2>2. NothingDisappears'
    BY <1>1, <1>2, <1>4 DEF LineInv, NothingDisappears
  <2>3. WarningsAccounted'
    BY <1>1, <1>2, <1>4, <2>1 DEF LineInv, WarningsAccounted
  <2> QED
    BY <2>2, <2>3
<1>6. SinkTypes' /\ at' \in Nat /\ lines' \in Artifacts /\ \E S : events' \in Seq(S)
  BY <1>1, <1>2 DEF LineInv, SinkTypes
<1> QED
  BY <1>1, <1>2, <1>4, <1>5, <1>6 DEF LineInv

(* Any other line makes an event.                                          *)
LEMMA MadeKeepsLines ==
  ASSUME LineInv, pc = "lines", OfLines, NEW e, Made(e)
  PROVE  LineInv'
<1>1. /\ at' = at + 1 /\ lines' = lines /\ format' = format /\ pc' = "lines"
      /\ events' = Append(events, e)
  BY DEF Made
<1>2. NothingDisappears' /\ Ranked' /\ WarningsAccounted'
      /\ (format' = "json" => record_index' = Len(events'))
  BY MadeKeepsPlaces, MadeKeepsWarnings
<1>3. at \in Nat /\ lines \in Artifacts /\ SinkTypes /\ \E S : events \in Seq(S)
  BY DEF LineInv
<1>4. \E S : events' \in Seq(S)
  BY <1>1, <1>3, RawGrows
<1>5. SinkTypes'
  <2>1. Warning \in Diagnostics /\ Diagnostic("debug", at + 1) \in Diagnostics
    BY <1>3 DEF Warning, Diagnostic, Diagnostics
  <2> QED
    BY <1>3, <2>1, EmitKeepsSink, NothingEmitted DEF Made
<1> QED
  BY <1>1, <1>2, <1>3, <1>4, <1>5 DEF LineInv, OfLines

LEMMA LineInit == Init => LineInv
<1> SUFFICES ASSUME Init PROVE LineInv
  OBVIOUS
<1>1. /\ entries = <<>> /\ dropped = 0 /\ at = 0 /\ record_index = 0
      /\ lines \in Artifacts /\ events = <<>> /\ pc = "ingest"
  BY DEF Init, InitStream, InitSink, InitLines
<1>2. SinkTypes /\ events \in Seq({})
  BY <1>1 DEF SinkTypes
<1> QED
  BY <1>1, <1>2
  DEF LineInv, OfLines, NothingDisappears, WarningsAccounted

(* At the start no line is read; at most the info on the format is in the  *)
(* sink.                                                                   *)
LEMMA DispatchKeepsLines ==
  ASSUME LineInv, Dispatch
  PROVE  LineInv'
<1>1. /\ at = 0 /\ record_index = 0 /\ events = <<>>
      /\ entries = <<>> /\ dropped = 0
      /\ at' = 0 /\ record_index' = 0 /\ events' = <<>> /\ lines' = lines
      /\ lines \in Artifacts /\ pc' \in {"walk", "lines"}
      /\ pc' = "walk" => format' = "evtx"
      /\ EmitNothing \/ Emit(Diagnostic("info", 0))
  BY DEF LineInv, Dispatch, streamVars
<1>2. Diagnostic("info", 0) \in Diagnostics /\ Diagnostic("info", 0).level = "info"
  BY DEF Diagnostic, Diagnostics
<1>3. SinkTypes'
  BY <1>1, <1>2, EmitKeepsSink, NothingEmitted DEF LineInv
<1>4. events' \in Seq({})
  BY <1>1
<1>5. KeptLines' = {} /\ Cardinality(KeptLines') = 0
  <2>1. KeptLines' = {}
    BY <1>1 DEF KeptLines
  <2> QED
    BY <2>1, FS_EmptySet
<1>6. Kept' = <<>> /\ Ranked'
  BY <1>5 DEF Kept, Ranked
<1>7. NothingDisappears'
  BY <1>1, <1>6 DEF NothingDisappears
<1>8. RawEvents' = {}
  BY <1>1 DEF RawEvents
<1>9. /\ StoredWarnings' = {} /\ Len(entries') <= MaxEntries
      /\ dropped' > 0 => Len(entries') = MaxEntries
  <2>1. SinkTypes /\ StoredWarnings = {} /\ Len(entries) = 0 /\ 0 <= MaxEntries
    BY <1>1 DEF LineInv, StoredWarnings
  <2>2. CASE EmitNothing
    BY <1>1, <2>1, <2>2 DEF EmitNothing, sinkVars, StoredWarnings
  <2>3. CASE Emit(Diagnostic("info", 0))
    <3>1. \/ /\ dropped' = dropped + 1 /\ entries' = entries
             /\ Len(entries) = MaxEntries
             /\ StoredWarnings' = StoredWarnings
          \/ /\ dropped' = dropped
             /\ entries' = Append(entries, Diagnostic("info", 0))
             /\ Len(entries) < MaxEntries
             /\ StoredWarnings' = StoredWarnings
      BY <1>2, <2>1, <2>3, EmitStores
    <3>2. Len(Append(entries, Diagnostic("info", 0))) = 1
      BY <1>1
    <3>3. CASE dropped' = dropped + 1 /\ entries' = entries
      BY <2>1, <3>1, <3>3
    <3>4. CASE dropped' = dropped /\ entries' = Append(entries, Diagnostic("info", 0))
      <4>1. dropped' = 0 /\ Len(entries') = 1 /\ 0 < MaxEntries
        BY <1>1, <2>1, <3>1, <3>2, <3>4
      <4> QED
        BY <2>1, <3>1, <4>1
    <3> QED
      BY <3>1, <3>3, <3>4
  <2> QED
    BY <1>1, <2>2, <2>3
<1>10. WarningsAccounted'
  <2>1. Cardinality(StoredWarnings') = 0 /\ Cardinality(RawEvents') = 0
    BY <1>8, <1>9, FS_EmptySet
  <2>2. dropped' \in Nat
    BY <1>3 DEF SinkTypes
  <2>3. {entries'[m].line : m \in StoredWarnings'} = {Kept'[n] : n \in RawEvents'}
    BY <1>8, <1>9
  <2>4. /\ Cardinality(StoredWarnings') <= Cardinality(RawEvents')
        /\ Cardinality(RawEvents') <= Cardinality(StoredWarnings') + dropped'
    <3>1. \A a, b, d \in Nat : a = 0 /\ b = 0 => a <= b /\ b <= a + d
      OBVIOUS
    <3> QED
      BY <2>1, <2>2, <3>1
  <2> QED
    BY <1>9, <2>3, <2>4 DEF WarningsAccounted
<1> QED
  BY <1>1, <1>3, <1>4, <1>6, <1>7, <1>10 DEF LineInv

LEMMA LineNext == FileInv /\ LineInv /\ [Next]_vars => LineInv'
<1> SUFFICES ASSUME FileInv, LineInv, [Next]_vars PROVE LineInv'
  OBVIOUS
<1>1. CASE Dispatch
  BY <1>1, DispatchKeepsLines
<1>2. CASE Lined
  <2>1. CASE SyslogLine
    BY <2>1, SyslogMakes, MadeKeepsLines
  <2>2. CASE CefLine
    BY <2>2, CefMakes, MadeKeepsLines
  <2>3. CASE WebLine
    BY <2>3, WebMakes, MadeKeepsLines
  <2>4. CASE JsonLine
    BY <2>4, JsonMakes, MadeKeepsLines
  <2>5. CASE WebWhiteLine \/ JsonWhiteLine
    BY <2>5, WhiteKeepsLines
  <2>6. CASE LinesEnd
    <3>1. /\ pc = "lines" /\ pc' = "done"
          /\ UNCHANGED <<at, lines, format, record_index, events, entries, dropped>>
      BY <2>6 DEF LinesEnd, streamVars, sinkVars, lineVars
    <3>2. UNCHANGED <<OfLines, KeptLines, Kept, Ranked, RawEvents, StoredWarnings>>
      BY <3>1 DEF OfLines, KeptLines, Counted, Kept, Ranked, RawEvents, StoredWarnings
    <3> QED
      BY <3>1, <3>2, ZenonT(30) DEF LineInv, SinkTypes, NothingDisappears, WarningsAccounted
  <2> QED
    BY <1>2, <2>1, <2>2, <2>3, <2>4, <2>5, <2>6 DEF Lined, ReadLines
<1>3. CASE Walk \/ WalkReturns
  <2>1. /\ format = "evtx" /\ pc = "walk" /\ pc' \in {"walk", "done"}
        /\ at' = at /\ lines' = lines /\ format' = format
    BY <1>3 DEF LineInv, Walk, WalkReturns, lineVars
  <2>2. /\ SinkTypes' /\ (stage' # "file" => events' \in Seq(FileEvents))
        /\ pc' = "walk" /\ stage' = "file" => events' = <<>>
    BY FileNext DEF FileInv, FileTypes, Staged
  <2>3. \E S : events' \in Seq(S)
    <3>1. CASE stage' # "file"
      BY <2>2, <3>1
    <3>2. CASE stage' = "file"
      <4>1. pc' = "walk"
        BY <1>3, <3>2 DEF Walk, WalkReturns
      <4>2. events' \in Seq({})
        BY <2>2, <3>2, <4>1
      <4> QED
        BY <4>2
    <3> QED
      BY <3>1, <3>2
  <2> QED
    BY <2>1, <2>2, <2>3
    DEF LineInv, OfLines, NothingDisappears, WarningsAccounted
<1>4. CASE UNCHANGED vars
  <2>1. UNCHANGED <<pc, at, lines, format, record_index, events, entries, dropped>>
    BY <1>4 DEF vars, streamVars, sinkVars, lineVars
  <2>2. UNCHANGED <<OfLines, KeptLines, Kept, Ranked, RawEvents, StoredWarnings>>
    BY <2>1 DEF OfLines, KeptLines, Counted, Kept, Ranked, RawEvents, StoredWarnings
  <2> QED
    BY <2>1, <2>2, ZenonT(30) DEF LineInv, SinkTypes, NothingDisappears, WarningsAccounted
<1> QED
  BY <1>1, <1>2, <1>3, <1>4 DEF Next

(* Every line read that is not white has one event, in its place, whatever *)
(* the lines are and whichever format reads them; and where the structured *)
(* data of a syslog line is not left in its message, the fields of its     *)
(* event are its parameters, the last of each key.                         *)
THEOREM NothingIsLost == Spec => []NothingDisappears
<1>1. LineInv => NothingDisappears
  BY DEF LineInv
<1> QED
  BY <1>1, FileInit, LineInit, FileNext, LineNext, PTL DEF Spec

(* A line that fails is warned of, under its own number, until the sink is *)
(* full, and counted from then on.                                         *)
THEOREM WarningsAreAccounted == Spec => []WarningsAccounted
<1>1. LineInv => WarningsAccounted
  BY DEF LineInv
<1> QED
  BY <1>1, FileInit, LineInit, FileNext, LineNext, PTL DEF Spec

=============================================================================
