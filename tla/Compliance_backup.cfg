\* An employee asks twice for a deletion, HR for an export, a colleague for
\* what is not theirs; two exporters, two rows of a table, exports of one.
CONSTANTS
  None = None
  Redacted = Redacted
  Catalogue = Catalogue
  e1 = e1
  e2 = e2
  s1 = s1
  s2 = s2
  s3 = s3
  b1 = b1
  b2 = b2
  v1 = v1
  Employee = {e1}
  Submission = {s1, s2, s3}
  By <- MCBy
  Asked <- MCAsked
  Kind <- MCKind
  ExportLimit = 1
  MaxRows = 2
  MaxTries <- MCMaxTries
  Exporter = {b1, b2}
  secret <- MCSecret
SYMMETRY Exporters
SPECIFICATION Spec
INVARIANTS
  FiledAndAudited
  ExportCoversFiling
  BackupIsConsistent
  VerifiedIsWhole
CHECK_DEADLOCK FALSE
