------------------------------- MODULE CmsView -------------------------------
(***************************************************************************)
(* What cmsbridge.GetSubmission makes of the CMS rows of a submission.     *)
(* The result row carries three nullable columns: compilation_outcome      *)
(* ("ok" or "fail"), evaluation_outcome ("success") and score_details.     *)
(* Without a result row the left join returns three NULLs.                 *)
(***************************************************************************)

NULL == "NULL"

ResultRow ==
  [compilation : {NULL, "ok", "fail"},
   evaluation : {NULL, "success"},
   details : {NULL, "null", "details"}]

NoResult == [compilation |-> NULL, evaluation |-> NULL, details |-> NULL]

Status == {"compiling", "compilation_failed", "evaluating", "scoring", "scored"}

(* The early returns of GetSubmission, in their order. *)
StatusOf(r) ==
  CASE r.compilation = NULL -> "compiling"
    [] r.compilation = "fail" -> "compilation_failed"
    [] r.compilation = "ok" /\ r.evaluation = NULL -> "evaluating"
    [] r.compilation = "ok" /\ r.evaluation # NULL /\ r.details \in {NULL, "null"} -> "scoring"
    [] OTHER -> "scored"

==============================================================================
