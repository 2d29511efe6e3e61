----------------------------- MODULE OrbitSlurm -----------------------------
(***************************************************************************)
(* The cluster side of the portal: the jobs Slurm knows, and the root      *)
(* helper deploy/portal-ctl through which the portal submits, queries and  *)
(* cancels them (portalapp/ctl.py runs the helper and turns every failure  *)
(* into CtlError).  The module has no next-state relation of its own:      *)
(* OrbitInstances composes these operations with the portal's handlers.    *)
(***************************************************************************)
EXTENDS Naturals

CONSTANTS Users, NoUser,   \* OS accounts, and the owner of a job id not yet given out
          Ports, NoPort,   \* SSH ports a job may be given, and none
          MaxJob,          \* bound on the job ids sbatch gives out
          EndStates,       \* how a job may end by itself (sacct State)
          Faults           \* what may go wrong in this instance of the model

AllFaults == {"crash", "lost_reply", "squeue", "scancel", "query",
              "exception", "scan", "configuring", "requeue"}

(* The states of db.py: ACTIVE_STATES and the keys of STATE_CN *)
ActiveStates == {"PENDING", "RUNNING", "SUSPENDED", "COMPLETING", "STOPPING"}
StateCN == ActiveStates \cup
           {"COMPLETED", "CANCELLED", "FAILED", "TIMEOUT", "OUT_OF_MEMORY",
            "NODE_FAIL", "PREEMPTED", "REQUEUED", "UNKNOWN", "STARTING"}

ASSUME SlurmAssumption ==
    /\ NoUser \notin Users
    /\ NoPort \notin Ports
    /\ MaxJob \in Nat
    /\ EndStates \subseteq {"COMPLETED", "FAILED", "TIMEOUT", "OUT_OF_MEMORY",
                            "NODE_FAIL", "PREEMPTED"}
    /\ Faults \subseteq AllFaults

NoJob == 0
JobIds == 1 .. MaxJob

Up == {"PENDING", "CONFIGURING", "RUNNING"}     \* holds or will hold resources
Queued == Up \cup {"COMPLETING"}                \* what squeue still lists
Ended == EndStates \cup {"CANCELLED"}           \* what only sacct knows
Phases == {"none"} \cup Queued \cup Ended

VARIABLES job,      \* job id -> [owner, port, phase]
          lastJob   \* the last job id sbatch gave out

slurmVars == <<job, lastJob>>

Job == [owner : Users \cup {NoUser}, port : Ports \cup {NoPort}, phase : Phases]

SlurmTypeOK ==
    /\ job \in [JobIds -> Job]
    /\ lastJob \in 0 .. MaxJob

SlurmInit ==
    /\ job = [j \in JobIds |-> [owner |-> NoUser, port |-> NoPort, phase |-> "none"]]
    /\ lastJob = 0

-----------------------------------------------------------------------------
(* portal-ctl submit: sbatch queues a job of u that listens on port p; the *)
(* reply carries its id.                                                   *)
NewJob == lastJob + 1

Sbatch(u, p) ==
    /\ NewJob \in JobIds
    /\ lastJob' = NewJob
    /\ job' = [job EXCEPT ![NewJob] = [owner |-> u, port |-> p, phase |-> "PENDING"]]

-----------------------------------------------------------------------------
(* Variant: the vocabulary is not checked.                                 *)
MappedAsIs(s) == s

(* A sacct state outside the portal's vocabulary is stored as UNKNOWN.     *)
Mapped(s) == IF s \in StateCN THEN s ELSE "UNKNOWN"

(* sh_out returns "" on every failure of squeue and sacct: no answer of    *)
(* squeue is read as "no longer in the queue", none of sacct as UNKNOWN.   *)
SeenInQueue(j) == job[j].phase \in Queued
MissedInQueue(j) == job[j].phase \in Ended \/ "squeue" \in Faults

History(s) == {Mapped(s)} \cup (IF "squeue" \in Faults THEN {"UNKNOWN"} ELSE {})

(* portal-ctl job-state: squeue's %T if the job is listed, otherwise the   *)
(* first word of sacct's State.                                            *)
LiveReply(j) == Mapped(job[j].phase)
EndedReplies(j) == History(job[j].phase)

(* portal-ctl kill on a job it does not see in the queue: sacct's whole    *)
(* State, which reads "CANCELLED by <uid>" for a cancelled job.            *)
AlreadyEndedReplies(j) ==
    History(IF job[j].phase = "CANCELLED" THEN "CANCELLED by uid" ELSE job[j].phase)

(* scancel by the job's owner: a pending job is gone at once, a running    *)
(* one stays in the queue while its container is torn down.                *)
Cancelled(s) ==
    CASE s = "PENDING"                  -> "CANCELLED"
      [] s \in {"CONFIGURING", "RUNNING"} -> "COMPLETING"
      [] OTHER                          -> s

Scancel(u, j) ==
    /\ job[j].owner = u
    /\ SeenInQueue(j)
    /\ job' = [job EXCEPT ![j].phase = Cancelled(@)]
    /\ UNCHANGED lastJob

(* The helper dies without cancelling: not the owner, or scancel failed.   *)
KillRefused(u, j) ==
    /\ SeenInQueue(j)
    /\ job[j].owner # u \/ "scancel" \in Faults

-----------------------------------------------------------------------------
(* Slurm's own steps: a job starts, ends, leaves the queue, is requeued.   *)
SetPhase(j, s) ==
    /\ job' = [job EXCEPT ![j].phase = s]
    /\ UNCHANGED lastJob

JobConfigures(j) ==
    /\ "configuring" \in Faults
    /\ job[j].phase = "PENDING"
    /\ SetPhase(j, "CONFIGURING")

JobStarts(j) ==
    /\ job[j].phase \in {"PENDING", "CONFIGURING"}
    /\ SetPhase(j, "RUNNING")

JobEnds(j) ==
    /\ job[j].phase \in {"RUNNING", "COMPLETING"}
    /\ \E s \in EndStates : SetPhase(j, s)

JobCancelCompletes(j) ==
    /\ job[j].phase = "COMPLETING"
    /\ SetPhase(j, "CANCELLED")

JobRequeues(j) ==
    /\ "requeue" \in Faults
    /\ job[j].phase = "RUNNING"
    /\ SetPhase(j, "PENDING")

SlurmStep ==
    \E j \in JobIds : \/ JobConfigures(j)
                      \/ JobStarts(j)
                      \/ JobEnds(j)
                      \/ JobCancelCompletes(j)
                      \/ JobRequeues(j)
=============================================================================
