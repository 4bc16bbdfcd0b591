------------------------------ MODULE AuditTrail ------------------------------
(***************************************************************************)
(* AuditTrail: RiskAuditTrail, verify_risk_audit_logs, and the manifests   *)
(* of a log's files that generate_audit_manifest makes and                 *)
(* verify_audit_manifest checks, as operators.                             *)
(*                                                                         *)
(* A checksum is the sequence of the entries that were appended to it, so  *)
(* two that differ never collide.  A line of a log holds an entry and the  *)
(* checksum of the trail once the entry was in it, and takes some bytes; a *)
(* line that was torn does not parse.  A file is a sequence of lines; a    *)
(* path designates a set of at most one file.                              *)
(***************************************************************************)
EXTENDS Integers, SequencesExt

\* kFnvOffsetBasis
Basis == <<>>

EmptyTrail == [entries |-> <<>>, checksum |-> Basis, accepted |-> 0]

\* RiskAuditTrail::record
ForgetsChain(trail, entry) ==   \* mutation: the checksum is of the entry alone
  [entries  |-> Append(trail.entries, entry),
   checksum |-> <<entry>>,
   accepted |-> trail.accepted + (IF entry.accepted THEN 1 ELSE 0)]
Recorded(trail, entry) ==
  [entries  |-> Append(trail.entries, entry),
   checksum |-> Append(trail.checksum, entry),
   accepted |-> trail.accepted + (IF entry.accepted THEN 1 ELSE 0)]

\* format_risk_audit_log_entry: entry.size stands for the bytes of its line.
Line(entry, checksum) ==
  [parses |-> TRUE, torn |-> FALSE, size |-> entry.size, entry |-> entry, checksum |-> checksum]

\* A line that does not parse, and one that was cut short.
Garbled(size) == [parses |-> FALSE, torn |-> FALSE, size |-> size]
TornLine == [Garbled(1) EXCEPT !.torn = TRUE]

FileSize(file) == FoldSeq(LAMBDA line, size : line.size + size, 0, file)

\* What is wrong with line k of a log, nothing being wrong before it: the
\* entries up to it are those of the lines.
EntriesOf(lines) == [k \in DOMAIN lines |-> lines[k].entry]
Malformed(lines, k)  == ~ lines[k].parses
Mismatched(lines, k) == lines[k].checksum # EntriesOf(SubSeq(lines, 1, k))

\* verify_risk_audit_logs of the files that a list of paths designates.  It
\* stops at the first file that is not there and at the first bad line; only
\* then for a mismatch, or at the end, does it report the checksum so far.
VerifyLogs(files) ==
  LET absent == {k \in DOMAIN files : files[k] = {}}
      opened == IF absent = {} THEN files ELSE SubSeq(files, 1, Min(absent) - 1)
      lines  == FlattenSeq([k \in DOMAIN opened |-> CHOOSE f \in opened[k] : TRUE])
      parsed == {k \in DOMAIN lines : \A j \in 1 .. k : ~ Malformed(lines, j)}
      bad    == (DOMAIN lines \ parsed) \cup {k \in parsed : Mismatched(lines, k)}
  IN  IF bad # {}
      THEN LET k == Min(bad)
           IN  IF Malformed(lines, k)
               THEN [valid |-> FALSE, entries |-> k - 1, checksum |-> Basis]
               ELSE [valid |-> FALSE, entries |-> k,
                     checksum |-> EntriesOf(SubSeq(lines, 1, k))]
      ELSE [valid    |-> absent = {},
            entries  |-> Len(lines),
            checksum |-> IF absent = {} THEN EntriesOf(lines) ELSE Basis]

-------------------------------------------------------------------------------
(* Manifests.  disk maps each file name to a set of at most one file.  A   *)
(* content checksum is the content, a chain checksum is what it is         *)
(* computed from, and a signature is the key with the payload it signs.  A *)
(* key and a signature are sets of at most one element: the empty set is   *)
(* an empty key, or no signature.                                          *)

\* The files of a list of names.
On(disk, names) == [k \in DOMAIN names |-> disk[names[k]]]

\* scan_file of a file that can be read.
Scan(file) == [records |-> Len(file), size |-> FileSize(file), content |-> file]

\* compute_audit_manifest_chain_checksum; the schema version and the format
\* never change.
ChainChecksum(files) == files

\* canonical_audit_manifest_payload, signed.
Signature(key, manifest) ==
  {<<k, manifest.creator, manifest.chain, manifest.files>> : k \in key}

\* generate_audit_manifest: a set of one manifest, or of none when a file
\* cannot be read or the audit chain does not verify.
Generate(disk, names, creator, key) ==
  LET Through(k) == VerifyLogs(On(disk, SubSeq(names, 1, k)))
      files == [k \in DOMAIN names |->
                  [name |-> names[k], chain |-> Through(k).checksum]
                  @@ Scan(CHOOSE f \in disk[names[k]] : TRUE)]
      unsigned == [creator |-> creator, files |-> files,
                   chain |-> ChainChecksum(files), signature |-> {}]
  IN  IF \E k \in DOMAIN names : disk[names[k]] = {} \/ ~ Through(k).valid
      THEN {}
      ELSE {[unsigned EXCEPT !.signature = Signature(key, unsigned)]}

-------------------------------------------------------------------------------
(* Verification: the issues of a manifest.                                 *)

Issue(found, name) == IF found THEN {name} ELSE {}

\* The issues of one file entry.
TrustsSize(disk, entry) ==   \* mutation: the content checksum is not compared
  IF disk[entry.name] = {} THEN {"missing file"}
  ELSE LET scan == Scan(CHOOSE f \in disk[entry.name] : TRUE)
       IN  Issue(scan.size # entry.size, "size")
           \cup Issue(scan.records # entry.records, "records")
FileIssues(disk, entry) ==
  IF disk[entry.name] = {} THEN {"missing file"}
  ELSE LET scan == Scan(CHOOSE f \in disk[entry.name] : TRUE)
       IN  Issue(scan.size # entry.size, "size")
           \cup Issue(scan.content # entry.content, "content")
           \cup Issue(scan.records # entry.records, "records")

\* The audit chain is only recomputed when every file is there and intact.
ChainIssues(disk, manifest) ==
  LET files == manifest.files
      names == [k \in DOMAIN files |-> files[k].name]
      sound == \A k \in DOMAIN files : FileIssues(disk, files[k]) = {}
      stale == VerifyLogs(On(disk, names)).checksum # files[Len(files)].chain
  IN  IF sound /\ files # <<>> THEN Issue(stale, "audit chain") ELSE {}

SignatureIssues(manifest, key) ==
  IF manifest.signature = {} THEN Issue(key # {}, "signature missing")
  ELSE IF key = {} THEN {"key missing"}
  ELSE Issue(manifest.signature # Signature(key, manifest), "signature mismatch")

\* verify_audit_manifest: valid when there is no issue.
Issues(disk, manifest, key) ==
  Issue(manifest.chain # ChainChecksum(manifest.files), "manifest chain")
  \cup (UNION {FileIssues(disk, manifest.files[k]) : k \in DOMAIN manifest.files})
  \cup ChainIssues(disk, manifest)
  \cup SignatureIssues(manifest, key)

-------------------------------------------------------------------------------
(* The manifest as a file.                                                 *)

\* serialize_audit_manifest: a line for the manifest and one for each file.
LinesOf(m) ==
  <<[record |-> "manifest", of |-> [m EXCEPT !.files = <<>>]]>>
  \o [k \in DOMAIN m.files |-> [record |-> "file", of |-> m.files[k]]]

\* parse_audit_manifest: a set of one manifest, or of none when the header is
\* not the first line, is there twice, or a line does not parse.
Parsed(lines) ==
  IF /\ lines # <<>> /\ Head(lines).record = "manifest"
     /\ \A k \in 2 .. Len(lines) : lines[k].record = "file"
  THEN {[Head(lines).of EXCEPT !.files = [k \in DOMAIN Tail(lines) |-> Tail(lines)[k].of]]}
  ELSE {}

\* What a line cut short may read as.  json_raw_value takes a number that the
\* line ends in for whole, and of a header that lost its end no signature.
Torn(line) ==
  LET header == line.record = "manifest"
      number == IF header THEN <<[cut |-> TRUE]>> ELSE <<[check |-> "cut", accepted |-> FALSE]>>
      read   == [line EXCEPT !.of.chain = number]
  IN  {[record |-> "none"]}
      \cup (IF header THEN {[line EXCEPT !.of.signature = {}], [read EXCEPT !.of.signature = {}]}
            ELSE {read})

\* A file that is cut short, which write_audit_manifest may leave.
CutShort(lines) ==
  UNION {{SubSeq(lines, 1, k - 1) \o rest : rest \in {<<>>} \cup {<<line>> : line \in Torn(lines[k])}} :
           k \in DOMAIN lines}
===============================================================================
