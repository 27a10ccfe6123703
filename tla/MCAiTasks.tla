------------------------------ MODULE MCAiTasks ------------------------------
(***************************************************************************)
(* A small instance of AiTasks: a job that is an analysis, one that is a   *)
(* PDF export, and a direct request for an analysis or an optimization.    *)
(***************************************************************************)
EXTENDS AiTasks

CONSTANTS
    analysis, export, \* jobs
    asked             \* a direct request

SomeKinds == [t \in {analysis, export, asked} |->
                CASE t = analysis -> {"ai_analyze"}
                  [] t = export -> {"pdf_export"}
                  [] t = asked -> {"ai_analyze", "ai_optimize"}]

=============================================================================
