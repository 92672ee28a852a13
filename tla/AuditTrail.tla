------------------------------ MODULE AuditTrail -----------------------------
(***************************************************************************)
(* What the SyncLog table promises its readers (the dashboard, the API,    *)
(* the delta watermark): the only ways the status of a row may move,       *)
(* whatever tasks, retries, failures and administrators do behind it.      *)
(* The moves are those the statuses of models.py:69-73 have in tasks.py.   *)
(***************************************************************************)
CONSTANT Logs

VARIABLE status

Done == {"SUCCESS", "PARTIAL"}
Ended == Done \cup {"FAILED"}

Init == status = [l \in Logs |-> "none"]

Move(l, from, to) ==
    /\ status[l] \in from
    /\ status' = [status EXCEPT ![l] = to]

\* A run is announced before anything of it is done.
Begin(l) == Move(l, {"none"}, "RUNNING")

\* It ends in one of three ways.
End(l) == \E s \in Ended : Move(l, {"RUNNING"}, s)

\* Only a failed run is taken up again: a run that went through is never
\* repeated under the same row ...
Resume(l) == Move(l, {"FAILED"}, "RUNNING")

\* ... unless its completion could not be announced, which fails it first.
Revoke(l) == Move(l, Done, "FAILED")

\* A row may be deleted at any time once it exists, and never comes back.
Remove(l) == Move(l, {"RUNNING"} \cup Ended, "deleted")

\* One row moves at a time, and to another status.
Next ==
    /\ status' # status
    /\ \E l \in Logs : Begin(l) \/ End(l) \/ Resume(l) \/ Revoke(l) \/ Remove(l)

Spec == Init /\ [][Next]_status
=============================================================================
