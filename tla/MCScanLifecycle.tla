-------------------------- MODULE MCScanLifecycle ---------------------------
(* Small instances of ScanLifecycle: two areas before design, and design.  *)
EXTENDS ScanLifecycle

MCArea == {"SECURITY", "SEO", "UI"}

MCCost == [m \in MCArea |-> IF m = "SECURITY" THEN 3 ELSE 2]

(* One area, two in one phase, one before design and design, design alone. *)
MCSelections ==
    {{"SECURITY"}, {"SECURITY", "SEO"}, {"SECURITY", "UI"}, {"UI"}}
=============================================================================
