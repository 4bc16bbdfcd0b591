------------------------------- MODULE EventLog --------------------------------
(***************************************************************************)
(* EventLog: event logs in text and in binary, written to files that may   *)
(* be left short, damaged or changed, and read back.                       *)
(*                                                                         *)
(* An event is [data, flags]: flags are the last field of a text line, and *)
(* of a line that is cut they alone may survive in part.  A text file is   *)
(* its lines, a binary one its header and its records; a path designates   *)
(* a set of at most one file.  A checksum is what was appended to it.      *)
(***************************************************************************)
EXTENDS Integers, SequencesExt

CONSTANTS
  Paths,        \* names of files
  BinaryPaths,  \* those with the extension of a binary log
  Logs,         \* sequences of events that are written
  Strays,       \* events that an overwritten line or record may read as
  MaxFaults     \* bound on the changes made to files

VARIABLES
  disk,         \* what each path designates
  written,      \* the events given to the last write that opened each path
  told,         \* what the last write returned, as a set of at most one
  whole,        \* whether the file holds all of them, untouched
  tampered,     \* what has since been put in the place of a line or a record
                \* without making it unreadable: nothing, if all is as written
  faults

vars == <<disk, written, told, whole, tampered, faults>>

Basis == <<>>   \* kFnvOffsetBasis

\* What is no event: of a header other columns, of a line or a record what does
\* not parse, of a record or a header after its magic what is cut short.
Mark(name) == [data |-> name, flags |-> 0]
Header == Mark("header")
Drifted == Mark("drifted header")
Comment == Mark("comment")
Garbled == Mark("garbled")
Short == Mark("cut short")
NotEvents == {Header, Drifted, Comment, Garbled, Short}

Text(lines) == [kind |-> "text", lines |-> lines]
Binary(header, records) == [kind |-> "binary", header |-> header, records |-> records]
Empty == Text(<<>>)

-------------------------------------------------------------------------------
(* Reading.                                                                *)

Failed(format, checksum) ==
  [format |-> format, events |-> <<>>, checksum |-> checksum, error |-> TRUE]
Got(format, events) ==
  [format |-> format, events |-> events, checksum |-> events, error |-> FALSE]

\* read_csv_event_log: line by line, is_ignored_csv_line and then
\* parse_market_data_event_csv.
Ignored == {Header, Comment}
Parsed(lines) ==
  LET upTo[k \in 0 .. Len(lines)] ==
        IF k = 0 THEN <<>>
        ELSE IF lines[k] \in Ignored THEN upTo[k - 1]
        ELSE Append(upTo[k - 1], lines[k])
  IN  upTo[Len(lines)]
ReadCsv(path) ==
  IF \E f \in disk[path] :
        f.kind = "text" /\ \A k \in DOMAIN f.lines : f.lines[k] \notin {Drifted, Garbled}
  THEN Got("Csv", Parsed((CHOOSE f \in disk[path] : TRUE).lines))
  ELSE Failed("Csv", Basis)

\* read_binary_event_log: the header, then every record by decode_record.
SkipsRecords(path) ==   \* mutation: a record that does not decode is skipped
  IF \E f \in disk[path] : f.kind = "binary" /\ f.header = Header
  THEN Got("Binary", SelectSeq((CHOOSE f \in disk[path] : TRUE).records,
                               LAMBDA record : record \notin NotEvents))
  ELSE Failed("Binary", Basis)
ReadBinary(path) ==
  IF \E f \in disk[path] :
        /\ f.kind = "binary" /\ f.header = Header
        /\ \A k \in DOMAIN f.records : f.records[k] \notin {Garbled, Short}
  THEN Got("Binary", (CHOOSE f \in disk[path] : TRUE).records)
  ELSE Failed("Binary", Basis)

\* detect_event_log_format and read_event_log: the magic decides, and not the
\* extension.
ReadEventLog(path, format) ==
  IF format = "Auto" /\ disk[path] = {} THEN Failed("Auto", "zero")
  ELSE IF \/ format = "Binary"
          \/ format = "Auto" /\ \E f \in disk[path] : f.kind = "binary"
  THEN ReadBinary(path) ELSE ReadCsv(path)

-------------------------------------------------------------------------------
(* Writing.                                                                *)

\* choose_event_log_format_for_path
Chosen(path, format) ==
  IF format # "Auto" THEN format ELSE IF path \in BinaryPaths THEN "Binary" ELSE "Csv"

Written(format, events) ==
  IF format = "Binary" THEN Binary(Header, events) ELSE Text(<<Header>> \o events)

\* What a line that is cut may read as, and a file that is cut may hold.
Torn(line) ==
  IF line \in NotEvents THEN {line, Garbled} \cup (IF line = Header THEN {Drifted} ELSE {})
  ELSE {Garbled} \cup (IF line.flags > 9 THEN {[line EXCEPT !.flags = @ \div 10]} ELSE {})
Cut(file) ==
  IF file.kind = "text"
  THEN {Text(SubSeq(file.lines, 1, k)) : k \in 0 .. Len(file.lines) - 1}
       \cup UNION {{Text(SubSeq(file.lines, 1, k - 1) \o <<line>>) : line \in Torn(file.lines[k])} :
                     k \in DOMAIN file.lines}
  ELSE {Empty, Text(<<Garbled>>), Binary(Short, <<>>)}
       \cup {Binary(file.header, SubSeq(file.records, 1, k)) : k \in 0 .. Len(file.records) - 1}
       \cup {Binary(file.header, SubSeq(file.records, 1, k - 1) \o <<Short>>) :
               k \in DOMAIN file.records}

\* write_event_log.  The file may not open; and what is written may not all
\* reach it, of which the writer of text, who does not look, says nothing, nor
\* does the other when it is the last of its buffer that is lost.
Write(path, events, format) ==
  LET chosen  == Chosen(path, format)
      success == [written |-> Len(events), checksum |-> events, error |-> FALSE]
      failure == [written |-> 0, checksum |-> Basis, error |-> TRUE]
      Ends(file, result, all) ==
        /\ disk' = [disk EXCEPT ![path] = {file}]
        /\ told' = [told EXCEPT ![path] = {result}]
        /\ whole' = [whole EXCEPT ![path] = all]
        /\ written' = [written EXCEPT ![path] = events]
        /\ tampered' = [tampered EXCEPT ![path] = {}]
  IN  /\ \/ /\ Ends(Written(chosen, events), success, TRUE)
            /\ UNCHANGED faults
         \/ /\ faults < MaxFaults /\ faults' = faults + 1
            /\ \E file \in Cut(Written(chosen, events)) :
                  \/ Ends(file, success, FALSE)
                  \/ chosen = "Binary" /\ Ends(file, failure, FALSE)
         \/ /\ told' = [told EXCEPT ![path] = {failure}]
            /\ UNCHANGED <<disk, written, whole, tampered, faults>>

-------------------------------------------------------------------------------
(* What may become of a file.                                              *)

\* A line or a record, or the header, is made unreadable; a comment is put in.
Edited(file) ==
  IF file.kind = "text"
  THEN {Text(ReplaceAt(file.lines, k, line)) :
          k \in DOMAIN file.lines, line \in {Garbled, Drifted}}
       \cup {Text(InsertAt(file.lines, k, Comment)) : k \in 1 .. Len(file.lines) + 1}
  ELSE {Binary(Drifted, file.records)}
       \cup {Binary(file.header, ReplaceAt(file.records, k, Garbled)) :
               k \in DOMAIN file.records}

Damage(path) ==
  /\ faults < MaxFaults /\ faults' = faults + 1
  /\ \E file \in disk[path] : \E left \in Cut(file) \cup Edited(file) :
        disk' = [disk EXCEPT ![path] = {left}]
  /\ whole' = [whole EXCEPT ![path] = FALSE]
  /\ UNCHANGED <<written, told, tampered>>

\* An event takes the place of a line or a record: decode_record looks at two of
\* a record's 58 bytes, and a line parses with other digits too.  Or a line or a
\* record is taken out, for which the comment stands.
Altered(file, by) ==
  IF file.kind = "text"
  THEN {Text(IF by = Comment THEN RemoveAt(file.lines, k) ELSE ReplaceAt(file.lines, k, by)) :
          k \in DOMAIN file.lines}
  ELSE {Binary(file.header,
               IF by = Comment THEN RemoveAt(file.records, k) ELSE ReplaceAt(file.records, k, by)) :
          k \in DOMAIN file.records}

Tamper(path, by) ==
  /\ faults < MaxFaults /\ faults' = faults + 1
  /\ \E file \in disk[path] : \E left \in Altered(file, by) :
        disk' = [disk EXCEPT ![path] = {left}]
  /\ whole' = [whole EXCEPT ![path] = FALSE]
  /\ tampered' = [tampered EXCEPT ![path] = @ \cup {by}]
  /\ UNCHANGED <<written, told>>

Init ==
  /\ disk = [path \in Paths |-> {}]
  /\ written = [path \in Paths |-> <<>>]
  /\ told = [path \in Paths |-> {}]
  /\ whole = [path \in Paths |-> FALSE]
  /\ tampered = [path \in Paths |-> {}]
  /\ faults = 0

Next ==
  \E path \in Paths :
    \/ \E events \in Logs, format \in {"Auto", "Csv", "Binary"} : Write(path, events, format)
    \/ Damage(path)
    \/ \E by \in Strays \cup {Comment} : Tamper(path, by)

Spec == Init /\ [][Next]_vars

-------------------------------------------------------------------------------
\* The events read are, each in its turn, events that were written, whose flags a
\* cut may have shortened, or such as were put in: none is repeated, none comes
\* before one it was written after, none is made up by reading.
ComesFrom(events, log, put) ==
  \E from \in [DOMAIN events -> 0 .. Len(log)] :
     \A k \in DOMAIN events :
        /\ IF from[k] = 0 THEN \E by \in put : events[k].data = by.data
                          ELSE events[k].data = log[from[k]].data
        /\ \A j \in 1 .. k - 1 : from[k] = 0 \/ from[j] < from[k]

\* A log that does not read gives no event at all.  One that does, and in which
\* no line or record was replaced by another that reads or taken out, reads as a
\* beginning of what was written, but for the flags of the last line of a text
\* that was cut.  The formats have nothing by which to notice the rest: a log that
\* was tampered with reads without error as what was left and what was put in.
\* Only its checksum, held against the one that the write told, gives it away.
\* A log left whole reads, if its own format or none is asked for, as what was
\* written.
ReadsBeginningOrNothing ==
  \A path \in Paths, format \in {"Auto", "Csv", "Binary"} :
     LET r == ReadEventLog(path, format)
     IN  /\ r.error => r.events = <<>>
         /\ ~ r.error /\ tampered[path] = {} =>
              \/ IsPrefix(r.events, written[path])
              \/ /\ r.format = "Csv" /\ Len(r.events) <= Len(written[path])
                 /\ IsPrefix(Front(r.events), written[path])
                 /\ Last(r.events).data = written[path][Len(r.events)].data
         /\ ~ r.error =>
              /\ ComesFrom(r.events, written[path], tampered[path])
              /\ \A t \in told[path] :
                   ~ t.error => (r.checksum = t.checksum <=> r.events = written[path])
         /\ whole[path] => /\ ~ r.error => r.events = written[path]
                           /\ format = "Auto" => ~ r.error
===============================================================================
