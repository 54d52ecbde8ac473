------------------------------ MODULE MCServices ------------------------------
(* Two requests of one browser, and small sets of words, jobs and cards.   *)
EXTENDS Services, TLC

CONSTANTS b1, r1, r2

MCBrowsers  == {b1}
MCRequests  == {r1, r2}
MCBrowserOf == r1 :> b1 @@ r2 :> b1
MCMatching  == [w \in Words \cup {NoWord} |-> IF w = NoWord THEN Ids ELSE {}]
MCJobFor    == 1 :> "ja" @@ 2 :> "ja"
MCByName    == 1 :> 1 @@ 2 :> 2
=============================================================================
