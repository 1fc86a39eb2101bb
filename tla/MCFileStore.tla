---------------------------- MODULE MCFileStore ----------------------------
(***************************************************************************)
(* Three operations on one session: enough for its creation and two        *)
(* updates that race in Save, or an update and a Get, Delete or List.      *)
(***************************************************************************)
EXTENDS FileStore

CONSTANTS t1, t2, t3

ThreeTasks == {t1, t2, t3}
============================================================================
