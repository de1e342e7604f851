--------------------------- MODULE MCFailoverSync ---------------------------
(***************************************************************************)
(* FailoverSync with a primary source and a backup.                        *)
(***************************************************************************)
EXTENDS FailoverSync

TwoSources == <<"primary", "backup">>
OneSource == <<"primary">>
=============================================================================
