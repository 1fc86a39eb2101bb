--------------------------- MODULE MCSQLiteStore ---------------------------
(***************************************************************************)
(* Two operations of the server beside one of a CLI command that shares    *)
(* the database; between them they do everything the store offers.         *)
(***************************************************************************)
EXTENDS SQLiteStore, TLC

CONSTANTS server, cli, t1, t2, t3, p1, p2

MCHome == (t1 :> server) @@ (t2 :> server) @@ (t3 :> cli)

MCDoes == (t1 :> {"create", "import", "save_caps"})
          @@ (t2 :> {"use", "list", "record"})
          @@ (t3 :> {"import", "use", "history", "load_caps"})

\* A name that is no session file, and a file that does not validate.
MCFiles == <<[kind |-> "other"], [kind |-> "incomplete"]>>
============================================================================
