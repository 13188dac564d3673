------------------------------ MODULE ScanRow ------------------------------
(***************************************************************************)
(* What every kind of scan promises about its row, whatever task runs it:  *)
(* the life of the status column as the pages, the API and the batch view  *)
(* see it.  The status is written by several sessions that do not lock the *)
(* row, so a Stop may be followed by a start that did not see it, and a    *)
(* failure or a Stop may replace a final status; but a scan never goes     *)
(* back to "pending", only a pending or stopped scan starts, a scan that   *)
(* never ran is never "completed", and a deleted row stays deleted.        *)
(***************************************************************************)

VARIABLE row   \* the status column, or "deleted" once the row is gone

Init == row = "pending"

Begin    == row \in {"pending", "cancelled"} /\ row' = "running"
Complete == row \notin {"pending", "deleted"} /\ row' = "completed"
Fail     == row # "deleted" /\ row' = "failed"
Stop     == row # "deleted" /\ row' = "cancelled"
Delete   == row' = "deleted"

Next == Begin \/ Complete \/ Fail \/ Stop \/ Delete

Spec == Init /\ [][Next]_row

=============================================================================
