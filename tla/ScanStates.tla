----------------------------- MODULE ScanStates -----------------------------
(***************************************************************************)
(* The states of an audit, the table of legal moves between them, and      *)
(* which areas run in which phase.                                         *)
(***************************************************************************)
EXTENDS Naturals, Sequences

Terminal == {"COMPLETED", "FAILED", "CANCELLED", "TIMED_OUT"}

PHASE_ORDER == <<"RUNNING_PHASE_1", "RUNNING_PHASE_2", "RUNNING_PHASE_3",
                 "RUNNING_MASTER", "RUNNING_DOCS">>

Phase == {PHASE_ORDER[i] : i \in DOMAIN PHASE_ORDER}

ScanState == {"QUEUED", "AWAITING_QUESTIONNAIRE"} \cup Phase \cup Terminal

(* Every live state may be cancelled, fail or time out.                    *)
Ended == {"CANCELLED", "FAILED", "TIMED_OUT"}

ALLOWED ==
    [s \in ScanState |->
       CASE s = "QUEUED"                 -> {"RUNNING_PHASE_1"} \cup Ended
         [] s = "RUNNING_PHASE_1"        -> {"AWAITING_QUESTIONNAIRE",
                                             "RUNNING_PHASE_2"} \cup Ended
         [] s = "AWAITING_QUESTIONNAIRE" -> {"RUNNING_PHASE_2"} \cup Ended
         [] s = "RUNNING_PHASE_2"        -> {"RUNNING_PHASE_3"} \cup Ended
         [] s = "RUNNING_PHASE_3"        -> {"RUNNING_MASTER"} \cup Ended
         [] s = "RUNNING_MASTER"         -> {"RUNNING_DOCS"} \cup Ended
         [] s = "RUNNING_DOCS"           -> {"COMPLETED"} \cup Ended
         [] OTHER                        -> {}]

canTransition(from, to) == from \in ScanState /\ to \in ALLOWED[from]

nextPhase(phase) ==
    LET i == CHOOSE i \in DOMAIN PHASE_ORDER : PHASE_ORDER[i] = phase
    IN  IF i = Len(PHASE_ORDER) THEN "COMPLETED" ELSE PHASE_ORDER[i + 1]

(* The phases that run areas; the last two write the report.               *)
MODULE_RUNNING_PHASES == {"RUNNING_PHASE_1", "RUNNING_PHASE_2", "RUNNING_PHASE_3"}

(* Design is judged in phase 2, after the questionnaire; the rest before.  *)
modulesForPhase(phase, requested) ==
    CASE phase = "RUNNING_PHASE_1" -> requested \ {"UI"}
      [] phase = "RUNNING_PHASE_2" -> requested \cap {"UI"}
      [] OTHER                     -> {}

=============================================================================
