--------------------------- MODULE MCSQLiteStore ---------------------------
(***************************************************************************)
(* Small instances of the store for TLC; the values of the constants are   *)
(* model values.  No symmetry is declared: the runs check liveness.        *)
(***************************************************************************)
EXTENDS SQLiteStore
=============================================================================
