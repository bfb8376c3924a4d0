-------------------------- MODULE DuplicateChecker --------------------------
(***************************************************************************)
(* The duplicate checker (pkg/duplicatechecker): a cache in the memory of  *)
(* the server that remembers which forms were submitted, with the row each *)
(* created, and until when the scheduled job counts as running.            *)
(***************************************************************************)
EXTENDS Integers, Functions

CONSTANTS
    Interval,      \* seconds from one scheduled run to the next
    Never          \* a second before the first

VARIABLES
    remarks,       \* [remembered submissions -> row]
    runningUntil   \* the last second that the job counts as running

\* Mutant: a remark is found for no submission.
FindsNothing(s) == FALSE
Found(s) == s \in DOMAIN remarks

SetSubmissionRemark(s, t) ==
    /\ remarks' = [x \in DOMAIN remarks \cup {s} |-> IF x = s THEN t ELSE remarks[x]]
    /\ UNCHANGED runningUntil

\* an item of the cache expires
Expire(s) ==
    /\ remarks' = Restrict(remarks, DOMAIN remarks \ {s})
    /\ UNCHANGED runningUntil

CronJobRunning(now) == now <= runningUntil

\* Mutant: the running info lasts the whole interval.
LastsInterval(now) == now + Interval
\* the running info lasts one second less than the interval
LastsUntil(now) == IF Interval > 1 THEN now + Interval - 1 ELSE now + Interval

\* GetOrSetCronJobRunningInfo when it finds nothing
SetCronJobRunning(now) ==
    /\ runningUntil' = LastsUntil(now)
    /\ UNCHANGED remarks

\* a new process remembers nothing
ForgetAll ==
    /\ remarks' = <<>>
    /\ runningUntil' = Never
=============================================================================
