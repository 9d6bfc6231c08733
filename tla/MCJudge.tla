------------------------------- MODULE MCJudge -------------------------------
(* One user, one task and one submission, and its evaluation or two. *)
EXTENDS Judge, TLC

CONSTANTS u1, t1, s1

MCOwner == s1 :> u1
MCProblemOf == s1 :> t1
MCVector == {<<>>, <<1, 2>>}

AllFaults == {"crash", "listen", "scan", "handler", "delete"}

==============================================================================
