------------------------------ MODULE Diagnosis ------------------------------
(***************************************************************************)
(* diagnoseTarget (diagnostics.go) from the first command on: the fields,  *)
(* one after the other, then the internet checks and the verdict.          *)
(***************************************************************************)
EXTENDS FieldScripts, HttpChecks

vars == <<fieldVars, httpVars>>

TypeOK == FieldTypeOK /\ HttpTypeOK

Init == FieldInit /\ HttpInit

AskField == FieldNext /\ UNCHANGED httpVars

\* Whatever became of the fields the checks are asked for, on the same connection.
CheckInternet ==
  /\ at = Len(Fields) + 1
  /\ IF lost THEN NoAnswer ELSE HttpNext
  /\ UNCHANGED fieldVars

Next == AskField \/ CheckInternet

Spec == Init /\ [][Next]_vars
=============================================================================
