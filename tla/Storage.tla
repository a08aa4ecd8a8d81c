------------------------------- MODULE Storage --------------------------------
(***************************************************************************)
(* The database behind every component: one of two products, which differ  *)
(* in what SELECT ... FOR UPDATE does (db/session.py; DATABASE_URL).       *)
(***************************************************************************)

VARIABLE dialect

Dialects == {"sqlite", "postgresql"}

(* SQLite ignores FOR UPDATE: a transaction starts with its first change   *)
(* and then is the only writer.  On PostgreSQL a row that is locked makes  *)
(* those who lock or change it wait; plain reads see what is committed.    *)
RowLocks == dialect = "postgresql"
=============================================================================
