------------------------------ MODULE MCBackup -------------------------------
(* TLC instances of Compliance and Backup. *)
EXTENDS Backup, TLC

CONSTANTS e1, e2, s1, s2, s3, b1, b2, v1

Self(e) == [role |-> "EMPLOYEE", dept |-> None, emp |-> e]

MCBy == (s1 :> Self(e1)) @@ (s2 :> [role |-> "HR_MANAGER", dept |-> None, emp |-> None])
     @@ (s3 :> Self(e2))
MCAsked == (s1 :> None) @@ (s2 :> e1) @@ (s3 :> e1)
MCKind == (s1 :> "DATA_DELETION") @@ (s2 :> "DATA_EXPORT") @@ (s3 :> "RECTIFICATION")
MCMaxTries == (s1 :> 2) @@ (s2 :> 1) @@ (s3 :> 1)
MCSecret == [password_hash |-> v1, mfa_secret |-> v1, refresh_token_jti |-> None]
Exporters == Permutations(Exporter)
=============================================================================
