--------------------------- MODULE MCOfflineSync ---------------------------
(***************************************************************************)
(* Small instances of OfflineSync.  The limit of five failed pushes is two *)
(* here: a record is then put back once and given up once.                 *)
(***************************************************************************)
EXTENDS OfflineSync, TLC

\* Pushes at the API are interchangeable.
RunSymmetry == Permutations(Runs)
=============================================================================
