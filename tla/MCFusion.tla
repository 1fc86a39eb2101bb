------------------------------ MODULE MCFusion ------------------------------
(***************************************************************************)
(* Hits of three sources on a few objects: the same object under its id    *)
(* and under a url, seen twice by one provider, fused before, with and     *)
(* without a time, and objects that weigh the same, recent and old.        *)
(***************************************************************************)
EXTENDS Fusion, TLC

MCKindOf == [s \in Source |-> IF s = "docs" THEN 1 ELSE 2]
MCWeights == [s \in Source |-> CASE s = "docs" -> 120 [] s = "mail" -> 0 [] OTHER -> 120]
MCQuotas == [s \in Source |-> CASE s = "docs" -> 1 [] s = "mail" -> 0 [] OTHER -> 2]

Plain(n) == [len |-> n, match |-> "none"]
Hit(native, source, provider, rank, time) ==
    [native |-> native, url |-> Blank, fingerprint |-> 9, kind |-> Blank, source |-> source,
     provider |-> provider, rank |-> rank, time |-> time, title |-> Plain(1), snippet |-> Plain(1),
     hints |-> {rank}, discovered |-> <<>>]

Pool ==
    {Hit(1, "docs", "p", 1, Unknown), Hit(1, "docs", "p", 2, 3), Hit(1, "docs", "q", 0, 40),
     [Hit(Blank, "docs", "q", 1, 40) EXCEPT !.url = 1, !.title = [len |-> 2, match |-> "contains"]],
     [Hit(2, "docs", "p", 1, 40) EXCEPT !.discovered = <<"p", "docs">> :> 3 @@ <<"m", "messages">> :> 0],
     Hit(2, "docs", "p", 1, 40), Hit(3, "docs", "p", 2, 50), Hit(3, "docs", "p", 2, 3),
     Hit(2, "messages", "m", 1, 50),
     [Hit(Blank, "messages", "m", 2, 50) EXCEPT !.snippet = [len |-> 3, match |-> "contains"]],
     [Hit(4, "mail", "e", 3, 40) EXCEPT !.kind = 1, !.title = [len |-> 1, match |-> "equal"]]}

\* Any three hits in any order, and nearly all objects of the pool at once.
MCInputs ==
    LET most == {h \in Pool : h.time # Unknown /\ h.source # "mail"} \ {Hit(3, "docs", "p", 2, 50)}
    IN UNION {[1 .. n -> Pool] : n \in 1 .. 3}
       \cup {SetToSeq({h \in most : h.source = "docs" => h.provider = p}) : p \in {"p", "q"}}
=============================================================================
