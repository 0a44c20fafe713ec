------------------------------- MODULE Backup --------------------------------
(***************************************************************************)
(* The backup and its check: maintenance.py and the command backup-db.     *)
(*                                                                         *)
(* An export reads the tables one after another in one transaction, and    *)
(* then writes them over the previous backup, which has the same name: the *)
(* file is cut to nothing when it is opened and filled by a write, and     *)
(* either may be the last thing the process does.  Nothing keeps two of    *)
(* them apart.  Requests are filed all the while.                          *)
(*                                                                         *)
(* The tables of records have a column named metadata.  The exporter looks *)
(* it up as an attribute of the row, and that name is taken: it finds the  *)
(* catalogue of the database's tables there, whatever the row holds.       *)
(***************************************************************************)
EXTENDS Compliance, Sequences, SequencesExt

CONSTANTS Exporter,  \* processes that run the command, once each
          secret,    \* secret[c]: what the column c holds, or None
          Redacted,  \* REDACTION_MARKER
          Catalogue  \* the MetaData object, as json.dumps(default=str) writes it

Columns == {"password_hash", "mfa_secret", "refresh_token_jti"}

ASSUME BackupAssumption ==
  /\ DOMAIN secret = Columns /\ secret["password_hash"] # None
  /\ Redacted # None /\ \A c \in Columns : secret[c] # Redacted

VARIABLES bpc,     \* where an exporter is
          snap,    \* snap[b]: the database as b's transaction shows it
          saw,     \* saw[b]: what b has read of it
          file,    \* the file: a sequence of cells
          latest,  \* history: the exporter that opened it last
          shared   \* history: the exporters that had it open beside another

backupVars == <<bpc, snap, saw, file, latest, shared>>
vars == <<complianceVars, backupVars>>

(* The tables that matter here, in the order of BACKUP_MODELS.             *)
BackupModels == <<"user_sessions", "audit_logs", "user_accounts", "compliance_requests">>

(* A table of records: its column metadata, and its rows but for that.     *)
Records(rows, metadata) == [row |-> rows, metadata |-> metadata]

FiledFrom(rows) == [r \in rows |-> [source |-> "api"]]

Recorded(rows) ==
  [r \in rows |-> [request_type |-> Kind[r.sub], subject_employee_id |-> Subject(r.sub)]]

Database ==
  [user_sessions |-> [c \in {"refresh_token_jti"} |-> secret[c]],
   audit_logs |-> Records(audits, Recorded(audits)),
   user_accounts |-> [c \in {"password_hash", "mfa_secret"} |-> secret[c]],
   compliance_requests |-> Records(requests, FiledFrom(requests))]

Empty == [t \in {} |-> None]

Init ==
  /\ ComplianceInit
  /\ bpc = [b \in Exporter |-> "idle"]
  /\ snap = [b \in Exporter |-> Empty]
  /\ saw = [b \in Exporter |-> Empty]
  /\ file = <<>>
  /\ latest = None
  /\ shared = {}

-----------------------------------------------------------------------------
(* _serialize_model: the hash always, the others unless they are empty.    *)
Redaction(cols) ==
  [c \in DOMAIN cols |->
     IF cols[c] # None \/ c = "password_hash" THEN Redacted ELSE None]

(* getattr(row, "metadata") is the model's MetaData object, dumped as text. *)
Serialized(t, rows) ==
  IF t \in {"user_sessions", "user_accounts"} THEN Redaction(rows)
  ELSE [row |-> rows.row, metadata |-> [r \in rows.row |-> Catalogue]]

AtBackup(b, from, to) == bpc[b] = from /\ bpc' = [bpc EXCEPT ![b] = to]

NextTable(b) == BackupModels[Cardinality(DOMAIN saw[b]) + 1]

Reading(b, shown) ==
  LET t == NextTable(b)
  IN  saw' = [saw EXCEPT ![b] =
                [x \in DOMAIN @ \cup {t} |->
                   IF x = t THEN Serialized(t, shown[t]) ELSE @[x]]]

(* The first SELECT fixes what the transaction shows.                      *)
Begin(b) ==
  /\ AtBackup(b, "idle", "reading")
  /\ snap' = [snap EXCEPT ![b] = Database]
  /\ Reading(b, Database)
  /\ UNCHANGED <<file, latest, shared>>

(* A slip: a transaction for each table.                                   *)
ShownNow(b) == Database

Shown(b) == snap[b]

ReadTable(b) ==
  /\ bpc[b] = "reading" /\ Cardinality(DOMAIN saw[b]) < Len(BackupModels)
  /\ Reading(b, Shown(b))
  /\ UNCHANGED <<bpc, snap, file, latest, shared>>

HasOpen(b) == bpc[b] = "open"

(* A slip: opened to be changed in place.                                  *)
Kept == file

Emptied == <<>>

(* write_text: open for writing, which empties the file ..                 *)
Open(b) ==
  /\ Cardinality(DOMAIN saw[b]) = Len(BackupModels)
  /\ AtBackup(b, "reading", "open")
  /\ file' = Emptied
  /\ latest' = b
  /\ LET others == {o \in Exporter : HasOpen(o)}
     IN  shared' = IF others = {} THEN shared ELSE shared \cup others \cup {b}
  /\ UNCHANGED <<snap, saw>>

(* .. and write from the start.  The more rows, the longer the text; the   *)
(* last of its cells holds the bracket that closes it.                     *)
Cells(b) ==
  LET size == 2 + Cardinality(saw[b].compliance_requests.row)
  IN  [i \in 1..size |-> [by |-> b, last |-> i = size]]

(* text written over the start of what the file holds                      *)
Over(text, old) ==
  [i \in 1..(IF Len(old) > Len(text) THEN Len(old) ELSE Len(text)) |->
     IF i <= Len(text) THEN text[i] ELSE old[i]]

Write(b) ==
  /\ AtBackup(b, "open", "done")
  /\ file' = Over(Cells(b), file)
  /\ UNCHANGED <<snap, saw, latest, shared>>

(* The disk is full or the process is killed in the write.                 *)
Tear(b) ==
  /\ AtBackup(b, "open", "torn")
  /\ \E n \in 0..1 : file' = Over(SubSeq(Cells(b), 1, n), file)
  /\ UNCHANGED <<snap, saw, latest, shared>>

BackupNext ==
  \E b \in Exporter : Begin(b) \/ ReadTable(b) \/ Open(b) \/ Write(b) \/ Tear(b)

Next ==
  \/ ComplianceNext /\ UNCHANGED backupVars
  \/ BackupNext /\ UNCHANGED complianceVars

Spec == Init /\ [][Next]_vars

-----------------------------------------------------------------------------
Whole == {b \in Exporter : Cardinality(DOMAIN saw[b]) = Len(BackupModels)}

(* json.loads takes the text only if it closes where it ends, and nowhere  *)
(* before.                                                                 *)
Parses == file # <<>> /\ \A i \in 1..Len(file) : file[i].last <=> i = Len(file)

(* verify_database_backup accepts what the tables in the file hold.        *)
Verified ==
  /\ Parses
  /\ \A i \in 1..Len(file) : LET s == saw[file[i].by] IN
       /\ DOMAIN s = ToSet(BackupModels)
       /\ s.user_accounts["password_hash"] = Redacted
       /\ s.user_accounts["mfa_secret"] \in {None, Redacted}
       /\ s.user_sessions["refresh_token_jti"] \in {None, Redacted}

(* But for the column metadata, a backup holds a state the database was    *)
(* in, though its tables are read one after another while requests are     *)
(* filed: it has an audit row for each request and none too many; and it   *)
(* holds no secret (lines 30-41 and 106-118).                              *)
BackupIsConsistent ==
  \A b \in Whole :
    /\ saw[b].compliance_requests.row = saw[b].audit_logs.row
    /\ \A c \in {"password_hash", "mfa_secret"} : saw[b].user_accounts[c] \in {None, Redacted}
    /\ saw[b].user_sessions["refresh_token_jti"] \in {None, Redacted}

(* A file that verifies is the whole of one backup, unless a process       *)
(* failed in the middle of its write while another had the file open; and  *)
(* after a success the file verifies until the next backup opens it        *)
(* (lines 43-48 and 58-103).                                               *)
VerifiedIsWhole ==
  /\ Verified => \/ \E b \in Exporter : bpc[b] = "done" /\ file = Cells(b)
                 \/ \E b \in shared : bpc[b] = "torn"
  /\ \A b \in Exporter \ shared :
       bpc[b] = "done" /\ latest = b => file = Cells(b) /\ Verified
=============================================================================
