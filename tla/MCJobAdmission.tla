--------------------------- MODULE MCJobAdmission ---------------------------
(***************************************************************************)
(* JobAdmission for TLC, in two parts.  In the first, half a day is not     *)
(* over and requests are exposed in every way; within half a day, a create  *)
(* does what a trigger does that counts, so that there are triggers only,   *)
(* and a deleted job is as little counted as one that is two hours old.     *)
(* In the second, the days go by and processes crash, but nobody is         *)
(* exposed, which leaves out nothing that DailyQuota speaks of: exposed is  *)
(* never emptied.  Schedules are in another zone there, and requests create.*)
(***************************************************************************)
EXTENDS JobAdmission, TLC

VARIABLE part

PermutableRequests == Permutations(Requests)

AdmissionInit == Init /\ part \in {"exposed", "days"}

AdmissionNext ==
    /\ Next
    /\ \A r \in Requests : req[r].pc = "idle" /\ req'[r].pc # "idle" =>
           (req'[r].kind = "create") = (part = "days")
    /\ part = "exposed" =>
           time' = 0 /\ \A r \in Requests : req'[r].pc # "dead" /\ ~job'[r].deleted
    /\ part = "days" => exposed' = {}
    /\ UNCHANGED part

AdmissionSpec == AdmissionInit /\ [][AdmissionNext]_<<vars, part>>
=============================================================================
