------------------------------- MODULE AuditLog -------------------------------
(***************************************************************************)
(* AuditLog: the risk gateway's audit trail and its rotating log, the      *)
(* files that outlive the process, and a manifest made over them.          *)
(*                                                                         *)
(* A file name is a number: 0 is the base path and k the path of the k-th  *)
(* rotation.  The process may end at any time, its last line perhaps cut   *)
(* short, and a new one starts with an empty trail.  Files and manifest    *)
(* may be damaged while no process writes.                                 *)
(***************************************************************************)
EXTENDS AuditTrail

CONSTANTS
  Entries,      \* audit entries, with the fields accepted and size
  MaxRecords,   \* max_records_per_file, 0 for no limit
  MaxBytes,     \* max_bytes_per_file, 0 for no limit
  Keys,         \* signing keys: sets of at most one element
  MaxLines,     \* bound on the lines ever written
  MaxDamages    \* bound on the changes made to files and manifest

VARIABLES
  trail,        \* audit_
  recording,    \* record_audit_
  open,         \* audit_log_.is_open()
  index,        \* audit_log_index_
  paths,        \* audit_log_paths_
  count,        \* audit_log_record_count_
  bytes,        \* audit_log_bytes_
  disk,         \* what each file name designates
  written,      \* number of lines ever written
  complete,     \* whether the files of paths began empty with an empty trail
                \* and have received everything it recorded since
  manifest,     \* a set of at most one manifest
  sealed,       \* with it: what it was made from, and how
  damages

process == <<trail, recording, open, index, paths, count, bytes>>
papers == <<manifest, sealed, damages>>
vars == <<process, disk, written, complete, papers>>

Names == 0 .. MaxLines

Init ==
  /\ trail = EmptyTrail /\ recording = FALSE /\ open = FALSE
  /\ index = 0 /\ paths = <<>> /\ count = 0 /\ bytes = 0
  /\ disk = [name \in Names |-> {}] /\ written = 0 /\ complete = FALSE
  /\ manifest = {} /\ sealed = {} /\ damages = 0

Content(name) == IF disk[name] = {} THEN <<>> ELSE CHOOSE f \in disk[name] : TRUE

-------------------------------------------------------------------------------
(* The gateway.                                                            *)

\* What a line appended to a file may leave.  The text of a torn line runs into
\* the new one: the fields are then found in the new line alone, or not.
Extended(file, line) ==
  IF file # <<>> /\ Last(file).torn
  THEN LET size == Last(file).size + line.size
       IN  {[file EXCEPT ![Len(file)] = joint] :
              joint \in {[line EXCEPT !.size = size], [Garbled(size) EXCEPT !.torn = line.torn]}}
  ELSE {Append(file, line)}

\* When append_audit_log_entry rotates first.  A line longer than the limit is
\* let into a file that is empty.
RotatesLate(records, size, line) ==   \* mutation: the line to come is not counted
  \/ MaxRecords > 0 /\ records >= MaxRecords
  \/ MaxBytes > 0 /\ size > 0 /\ size >= MaxBytes
Rotates(records, size, line) ==
  \/ MaxRecords > 0 /\ records >= MaxRecords
  \/ MaxBytes > 0 /\ size > 0 /\ size + line.size > MaxBytes

\* decide with auditing on: record_audit_entry, append_audit_log_entry and
\* rotate_audit_log.  The file that is rotated to may not open, of which nothing
\* is said: it is listed and counted in, and this line and all later ones are lost.
Decide(entry) ==
  LET line   == Line(entry, Recorded(trail, entry).checksum)
      rotate == Rotates(count, bytes, line)
      target == IF rotate THEN index + 1 ELSE index
  IN  /\ recording /\ written < MaxLines
      /\ trail' = Recorded(trail, entry)
      /\ written' = written + 1
      /\ IF open
         THEN /\ index' = target
              /\ paths' = IF rotate THEN Append(paths, target) ELSE paths
              /\ count' = (IF rotate THEN 0 ELSE count) + 1
              /\ bytes' = (IF rotate THEN 0 ELSE bytes) + line.size
              /\ \/ /\ \E file \in Extended(Content(target), line) :
                          disk' = [disk EXCEPT ![target] = {file}]
                    /\ UNCHANGED <<open, complete>>
                 \/ /\ rotate /\ open' = FALSE /\ complete' = FALSE
                    /\ UNCHANGED disk
         ELSE /\ complete' = FALSE
              /\ UNCHANGED <<open, disk, index, paths, count, bytes>>
      /\ UNCHANGED <<recording, papers>>

\* open_rotating_audit_log, which may fail to open the file.
OpenLog ==
  /\ index' = 0 /\ count' = 0
  /\ \/ /\ open' = TRUE /\ recording' = TRUE
        /\ paths' = <<0>> /\ bytes' = FileSize(Content(0))
        /\ disk' = [disk EXCEPT ![0] = {Content(0)}]
        /\ complete' = (trail = EmptyTrail /\ \A name \in Names : Content(name) = <<>>)
     \/ /\ open' = FALSE /\ UNCHANGED recording
        /\ paths' = <<>> /\ bytes' = 0
        /\ complete' = FALSE
        /\ UNCHANGED disk
  /\ UNCHANGED <<trail, written, papers>>

CloseLog ==
  /\ open
  /\ open' = FALSE
  /\ UNCHANGED <<trail, recording, index, paths, count, bytes, disk, written, complete, papers>>

SetAuditEnabled ==
  /\ recording' = ~ recording
  /\ UNCHANGED <<trail, open, index, paths, count, bytes, disk, written, complete, papers>>

\* clear_audit: the trail starts again, the open log does not.
ClearAudit ==
  /\ trail # EmptyTrail
  /\ trail' = EmptyTrail
  /\ complete' = FALSE
  /\ UNCHANGED <<recording, open, index, paths, count, bytes, disk, written, papers>>

\* The process ends and another starts.
Restart ==
  /\ trail' = EmptyTrail /\ recording' = FALSE /\ open' = FALSE
  /\ index' = 0 /\ paths' = <<>> /\ count' = 0 /\ bytes' = 0
  /\ complete' = FALSE
  /\ \/ UNCHANGED <<disk, written>>
     \/ /\ open /\ written < MaxLines
        /\ written' = written + 1
        /\ \E file \in Extended(Content(index), TornLine) :
              disk' = [disk EXCEPT ![index] = {file}]
  /\ UNCHANGED papers

-------------------------------------------------------------------------------
(* The manifest.                                                           *)

\* generate_audit_manifest over audit_log_paths.
Seal ==
  \E key \in Keys :
     /\ manifest = {} /\ paths # <<>>
     /\ manifest' = Generate(disk, paths, "asterion", key)
     /\ manifest' # {}
     /\ sealed' = {[key |-> key, names |-> paths, files |-> On(disk, paths),
                    manifest |-> m, remade |-> FALSE] : m \in manifest'}
     /\ UNCHANGED <<process, disk, written, complete, damages>>

Damaging == ~ open /\ manifest # {} /\ damages < MaxDamages /\ damages' = damages + 1

\* A file is edited, cut short, lost, or takes the place of another.
Scratched(file) ==
  {[file EXCEPT ![k].checksum = Basis] : k \in {j \in DOMAIN file : file[j].parses}}
DamageFile ==
  /\ Damaging
  /\ \E name \in ToSet(paths) :
        disk' \in
          {[disk EXCEPT ![name] = {f}] : f \in Scratched(Content(name))}
          \cup {[disk EXCEPT ![name] = {Front(f)}] : f \in disk[name] \ {<<>>}}
          \cup {[disk EXCEPT ![name] = {}]}
          \cup {[disk EXCEPT ![name] = disk[other], ![other] = disk[name]] :
                  other \in ToSet(paths)}
  /\ complete' = FALSE
  /\ UNCHANGED <<process, written, manifest, sealed>>

\* An entry is dropped, exchanged with another or fitted to what its file now
\* holds; the creator is changed; the signature is removed; the manifest's file
\* is cut short, and may then not read at all.
DamageManifest ==
  /\ Damaging
  /\ \E m \in manifest :
        LET files == m.files
            Fitted(k) == [files EXCEPT ![k] = Scan(Content(files[k].name)) @@ @]
        IN  \/ manifest' = {[m EXCEPT !.files = RemoveAt(files, k)] : k \in {1} \cap DOMAIN files}
            \/ manifest' = {[m EXCEPT !.files = Reverse(files)]}
            \/ \E k \in DOMAIN files : manifest' = {[m EXCEPT !.files = Fitted(k)]}
            \/ manifest' = {[m EXCEPT !.creator = "other"]}
            \/ manifest' = {[m EXCEPT !.signature = {}]}
            \/ \E lines \in CutShort(LinesOf(m)) : manifest' = Parsed(lines)
  /\ UNCHANGED <<process, disk, written, complete, sealed>>

\* The manifest is made again, without a key, over what the files now hold.
Remake ==
  /\ Damaging
  /\ manifest' = Generate(disk, paths, "asterion", {})
  /\ manifest' # {}
  /\ sealed' = {[s EXCEPT !.remade = TRUE] : s \in sealed}
  /\ UNCHANGED <<process, disk, written, complete>>

Next ==
  \/ \E entry \in Entries : Decide(entry)
  \/ OpenLog \/ CloseLog \/ SetAuditEnabled \/ ClearAudit \/ Restart
  \/ Seal \/ DamageFile \/ DamageManifest \/ Remake

Spec == Init /\ [][Next]_vars

-------------------------------------------------------------------------------
(* Properties.                                                             *)

\* A log that was opened with an empty trail over files that were not there,
\* whose trail was not cleared and whose rotations all opened, verifies across
\* them to the trail's own checksum.  No file holds more records than it may, nor
\* more bytes, but for one whose only line is longer than that: as with the two
\* files over 64 bytes of the test of the byte threshold, it is let in alone.
CompleteLogVerifies ==
  complete =>
    /\ VerifyLogs(On(disk, paths)) =
         [valid |-> TRUE, entries |-> Len(trail.entries), checksum |-> trail.checksum]
    /\ \A name \in ToSet(paths) :
          /\ MaxRecords > 0 => Len(Content(name)) <= MaxRecords
          /\ MaxBytes > 0 => FileSize(Content(name)) <= MaxBytes \/ Len(Content(name)) <= 1

\* audit_manifest.hpp says that verification detects missing, reordered, edited
\* or truncated files.  A manifest verifies, with the key it was made with,
\* exactly when its files are what they were and it is what it was; but a
\* manifest made without a key says nothing of its creator, and nothing once it
\* has been made again.
ManifestTellsDamage ==
  \A m \in manifest, s \in sealed :
     LET same == /\ On(disk, s.names) = s.files
                 /\ IF s.key = {} THEN [m EXCEPT !.creator = "asterion"] = s.manifest
                                  ELSE m = s.manifest
     IN  (s.remade => s.key # {}) => (Issues(disk, m, s.key) = {} <=> same)
===============================================================================
