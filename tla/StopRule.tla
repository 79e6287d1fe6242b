------------------------------ MODULE StopRule ------------------------------
(***************************************************************************)
(* shouldStop (recorder/record.js): when a recording ends by itself.  Both *)
(* recorders decide with it after every poll, and carry aloneSince on to   *)
(* the next.  Times are counted in polls.                                  *)
(***************************************************************************)
EXTENDS Naturals

CONSTANT Never    \* null: the bot is not alone, nothing to count from

\* Mutant of AloneSince: the count runs on when somebody is in the room again.
AloneSinceEver(members, since, now) ==
    IF members > 1 /\ since = Never THEN Never
    ELSE IF since = Never THEN now ELSE since

\* Mutant of AloneSince: the count starts at the next poll.
AloneSinceNextPoll(members, since, now) ==
    IF members > 1 THEN Never
    ELSE IF since = Never THEN now + 1 ELSE since

\* aloneSince, carried forward; membersCount counts the bot itself.
AloneSince(members, since, now) ==
    IF members > 1 THEN Never
    ELSE IF since = Never THEN now ELSE since

\* Mutant of TooLong: the bound is never reached.
NeverTooLong(now, startedAt, maxDuration) == FALSE

TooLong(now, startedAt, maxDuration) == now - startedAt >= maxDuration

\* The decision, as [reason, aloneSince]; "none" is a null reason.
ShouldStop(members, since, now, emptyGrace, startedAt, maxDuration) ==
    LET next == AloneSince(members, since, now) IN
    IF TooLong(now, startedAt, maxDuration)
    THEN [reason |-> "max_duration", aloneSince |-> since]
    ELSE IF next # Never /\ now - next >= emptyGrace
    THEN [reason |-> "empty_room", aloneSince |-> next]
    ELSE [reason |-> "none", aloneSince |-> next]
=============================================================================
