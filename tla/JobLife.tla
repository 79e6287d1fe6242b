------------------------------ MODULE JobLife ------------------------------
(***************************************************************************)
(* What the job file promises, whoever writes it: job.json (job.go) goes   *)
(* from nothing or a settled state to "recording" for a generation nobody  *)
(* used before, from there to one settled state of the same generation,    *)
(* and a finished generation is stamped as delivered at most once.  Only a *)
(* settled job is ever removed.  Nothing is brought back.                  *)
(***************************************************************************)
EXTENDS Naturals

CONSTANT Jobs     \* job ids; a job id is the id of the message it came from

VARIABLES
    file,      \* job.json of every job
    issued     \* the last generation handed out: Job.StartedAt, as a counter

lifeVars == <<file, issued>>

NoFile == [state |-> "absent", gen |-> 0, err |-> "none", sent |-> FALSE]

Errors == {"not_admitted", "recorder_failed", "too_short", "interrupted"}

LifeInit ==
    /\ file = [j \in Jobs |-> NoFile]
    /\ issued = [j \in Jobs |-> 0]

Accept(j) ==
    /\ file[j].state # "recording"
    /\ issued' = [issued EXCEPT ![j] = @ + 1]
    /\ file' = [file EXCEPT ![j] = [state |-> "recording", gen |-> issued[j] + 1,
                                    err |-> "none", sent |-> FALSE]]

Finish(j) ==
    /\ file[j].state = "recording"
    /\ file' = [file EXCEPT ![j].state = "finished"]
    /\ UNCHANGED issued

Fail(j, e) ==
    /\ file[j].state = "recording"
    /\ file' = [file EXCEPT ![j].state = "failed", ![j].err = e]
    /\ UNCHANGED issued

Stamp(j) ==
    /\ file[j].state = "finished"
    /\ file' = [file EXCEPT ![j].sent = TRUE]
    /\ UNCHANGED issued

Expire(j) ==
    /\ file[j].state \in {"finished", "failed"}
    /\ file' = [file EXCEPT ![j] = NoFile]
    /\ UNCHANGED issued

LifeNext ==
    \E j \in Jobs :
        \/ Accept(j) \/ Finish(j) \/ Stamp(j) \/ Expire(j)
        \/ \E e \in Errors : Fail(j, e)

LifeSpec == LifeInit /\ [][LifeNext]_lifeVars
=============================================================================
