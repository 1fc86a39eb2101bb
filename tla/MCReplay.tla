------------------------------ MODULE MCReplay ------------------------------
(***************************************************************************)
(* Two processes on one directory, the messages provider with batches of   *)
(* two and another provider, in two sessions.                              *)
(***************************************************************************)
EXTENDS Replay

MCOperations == [p \in Provider |-> IF p = Messages THEN {"search", "fetch"} ELSE {"fetch"}]
Req(provider, op, ids, scope) == [provider |-> provider, op |-> op, ids |-> ids, scope |-> scope]
MCRequest ==
    {Req("messages", "fetch", <<1, 2>>, "a"), Req("messages", "search", <<1>>, "a"),
     Req("docs", "fetch", <<1>>, "a"), Req("docs", "fetch", <<1>>, "b"),
     Req("docs", "expand", <<1>>, "a")}
=============================================================================
