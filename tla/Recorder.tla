------------------------------ MODULE Recorder ------------------------------
(***************************************************************************)
(* recorder/record.js: the child process that joins a Jitsi room, records  *)
(* it until the stop rule, a signal or a failure ends the loop, finalizes  *)
(* the file, prints one JSON line and exits.  The runner learns nothing    *)
(* but the exit code and that line.                                        *)
(*                                                                         *)
(* JavaScript runs between two awaits without interruption, so a step of   *)
(* the model goes from one await to the next, and signals and stream       *)
(* errors come in between.  One unit of time is one poll (POLL_MS).        *)
(***************************************************************************)
EXTENDS Integers

CONSTANTS
    JoinTimeout,   \* --join-timeout, in polls
    EmptyGrace,    \* --empty-grace, in polls
    MaxDuration,   \* --max-duration, in polls
    MaxSignals,    \* bound: SIGTERMs the process is sent
    MaxMembers,    \* bound: members of the conference, the bot included
    Never          \* no time: a null aloneSince

ASSUME TimesAssumption == JoinTimeout \in Nat /\ EmptyGrace \in Nat /\ MaxDuration \in Nat
ASSUME BoundsAssumption == MaxSignals \in Nat /\ MaxMembers \in Nat \ {0}
ASSUME NeverAssumption == Never \notin Nat

INSTANCE StopRule

VARIABLES
    pc,           \* the await main is at
    reason,       \* the stop reason, and with it the signal latch
    now,          \* the clock
    startedAt,    \* when the current phase (joining, recording) began
    aloneSince,   \* carried by shouldStop
    count,        \* membersCount of the latest poll
    members,      \* who is in the conference, as the page would tell
    pageUp,       \* the page answers evaluate()
    fileError,    \* the output stream has failed
    captureDied,  \* the capture stream ended during the loop
    failure,      \* what the loop left for finalization to report
    line,         \* the reason in the JSON line, once printed
    code,         \* the exit code, once decided
    signals,      \* SIGTERMs received
    asked,        \* a signal came while the call was recorded and nothing had ended it
    seenOthers    \* when a poll last saw somebody else (or recording began)

env == <<members, pageUp>>
stream == <<fileError, captureDied>>
history == <<signals, asked, seenOthers>>
loop == <<aloneSince, count>>
vars == <<pc, reason, now, startedAt, loop, env, stream, failure, line, code, history>>

Undecided == -1
Killed == 143   \* ended by the signal's default action
Reasons == {"none", "signal", "empty_room", "max_duration"}
Recording == {"setup", "sleep", "decide"}
Pcs == {"boot", "launch", "probe", "pause", "capture", "flush", "tracks", "closing", "exited"}
           \cup Recording

TypeOK ==
    /\ pc \in Pcs
    /\ reason \in Reasons
    /\ now \in Nat /\ startedAt \in Nat /\ seenOthers \in Nat
    /\ aloneSince \in (0 .. now) \cup {Never}
    /\ count \in 0 .. MaxMembers
    /\ members \in 1 .. MaxMembers
    /\ pageUp \in BOOLEAN /\ fileError \in BOOLEAN /\ captureDied \in BOOLEAN
    /\ failure \in BOOLEAN /\ asked \in BOOLEAN
    /\ line \in Reasons
    /\ code \in {Undecided, 0, 2, 3, 4, 5, Killed}
    /\ signals \in 0 .. MaxSignals

Init ==
    /\ pc = "boot"
    /\ reason = "none" /\ line = "none"
    /\ now = 0 /\ startedAt = 0 /\ seenOthers = 0
    /\ aloneSince = Never
    /\ count = 0
    /\ members \in 1 .. MaxMembers
    /\ pageUp = TRUE
    /\ fileError = FALSE /\ captureDied = FALSE /\ failure = FALSE
    /\ code = Undecided
    /\ signals = 0
    /\ asked = FALSE

-----------------------------------------------------------------------------
\* The clock stands still once every deadline is past: a bound of the model.
MaxTime == JoinTimeout + MaxDuration + 1
Later == IF now < MaxTime THEN now + 1 ELSE now

\* main returns c; the finally block closes the browser before the exit.
Returns(c) == code' = c /\ pc' = "closing"

\* node has started the script: from here on SIGTERM is handled.
InstallHandlers ==
    /\ pc = "boot"
    /\ pc' = "launch"
    /\ UNCHANGED <<reason, now, startedAt, loop, env, stream, failure, line, code, history>>

\* Bad arguments, or no directory for the output.
StartFails ==
    /\ pc = "boot"
    /\ code' \in {2, 4}
    /\ pc' = "exited"
    /\ UNCHANGED <<reason, now, startedAt, loop, env, stream, failure, line, history>>

\* The head of the join loop at time t, run on from an await without a break.
JoinHead(t) ==
    IF reason = "none" /\ t - startedAt' < JoinTimeout
    THEN pc' = "probe" /\ UNCHANGED code ELSE Returns(3)

Launch ==
    /\ pc = "launch"
    /\ startedAt' = now
    /\ JoinHead(now)
    /\ UNCHANGED <<reason, now, loop, env, stream, failure, line, history>>

LaunchFails ==
    /\ pc = "launch"
    /\ Returns(4)
    /\ UNCHANGED <<reason, now, startedAt, loop, env, stream, failure, line, history>>

\* Still in the lobby, still loading, or no answer: sleep.
NotYetJoined ==
    /\ pc = "probe"
    /\ pc' = "pause"
    /\ UNCHANGED <<reason, now, startedAt, loop, env, stream, failure, line, code, history>>

JoinAgain ==
    /\ pc = "pause"
    /\ now' = Later
    /\ UNCHANGED <<reason, startedAt, loop, env, stream, failure, line, history>>
    /\ JoinHead(now')

\* The loop is left as soon as the page says so, a signal notwithstanding.
Joined ==
    /\ pc = "probe"
    /\ pageUp
    /\ pc' = "capture"
    /\ UNCHANGED <<reason, now, startedAt, loop, env, stream, failure, line, code, history>>

\* getStream is up and piped into the output file.
StartCapture ==
    /\ pc = "capture"
    /\ pc' = "setup"
    /\ startedAt' = now
    /\ seenOthers' = now
    /\ UNCHANGED <<reason, now, loop, env, stream, failure, line, code, signals, asked>>

\* getStream throws: main rejects, and the process exits with 4.
StartCaptureFails ==
    /\ pc = "capture"
    /\ Returns(4)
    /\ UNCHANGED <<reason, now, startedAt, loop, env, stream, failure, line, history>>

-----------------------------------------------------------------------------
\* Mutant of Failure: a capture that died is taken for the end of the call.
FailureOfFileOnly == fileError

\* What went wrong during the loop, looked at once, when it is left.
Failure == fileError \/ captureDied

\* The head of the record loop, run on from an await with reason r.
RecordHead(r) ==
    IF r = "none" /\ ~fileError /\ ~captureDied
    THEN pc' = "sleep" /\ UNCHANGED failure
    ELSE pc' = "flush" /\ failure' = Failure

\* setupTracks returns; it never throws.
SetupTracks ==
    /\ pc = "setup"
    /\ RecordHead(reason)
    /\ UNCHANGED <<reason, now, startedAt, loop, env, stream, line, code, history>>

\* One round of the record loop up to its last await, the pump of the tracks.
Poll ==
    /\ pc = "sleep"
    /\ now' = Later
    /\ count' = IF pageUp THEN members ELSE 0
    /\ seenOthers' = IF count' > 1 THEN now' ELSE seenOthers
    /\ pc' = "decide"
    /\ UNCHANGED <<reason, startedAt, aloneSince, env, stream, failure, line, code, signals, asked>>

\* The rest of the round, which may overwrite a signal that came meanwhile.
Decide ==
    LET next == ShouldStop(count, aloneSince, now, EmptyGrace, startedAt, MaxDuration) IN
    /\ pc = "decide"
    /\ aloneSince' = next.aloneSince
    /\ reason' = IF next.reason # "none" THEN next.reason ELSE reason
    /\ RecordHead(reason')
    /\ UNCHANGED <<now, startedAt, count, env, stream, line, code, history>>

\* The capture is stopped and the file flushed, or given up on after FLUSH_MS.
Flush ==
    /\ pc = "flush"
    /\ IF failure THEN Returns(5) ELSE pc' = "tracks" /\ UNCHANGED code
    /\ UNCHANGED <<reason, now, startedAt, loop, env, stream, failure, line, history>>

\* trackCap.finish is done; a non-empty file gets the JSON line and exit code 0.
Report ==
    /\ pc = "tracks"
    /\ \/ line' = reason /\ Returns(0)
       \/ UNCHANGED line /\ Returns(5)
    /\ UNCHANGED <<reason, now, startedAt, loop, env, stream, failure, history>>

CloseBrowser ==
    /\ pc = "closing"
    /\ pc' = "exited"
    /\ UNCHANGED <<reason, now, startedAt, loop, env, stream, failure, line, code, history>>

-----------------------------------------------------------------------------
\* Mutant of Latched: every signal exits at once.
LatchedAlways == TRUE

\* onSignal exits when a stop reason is already set, whoever has set it.
Latched == reason # "none"

Signal ==
    /\ pc # "exited"
    /\ signals < MaxSignals
    /\ signals' = signals + 1
    /\ asked' = (asked \/ (pc \in Recording /\ reason = "none"))
    /\ IF pc = "boot"
       THEN /\ code' = Killed
            /\ pc' = "exited"
            /\ UNCHANGED reason
       ELSE IF Latched
       THEN /\ code' = 0
            /\ pc' = "exited"
            /\ UNCHANGED reason
       ELSE /\ reason' = "signal"
            /\ UNCHANGED <<pc, code>>
    /\ UNCHANGED <<now, startedAt, loop, env, stream, failure, line, seenOthers>>

\* People come and go; the page may die.
RoomChanges ==
    /\ pc \in Recording
    /\ members' \in (1 .. MaxMembers) \ {members}
    /\ UNCHANGED <<pc, reason, now, startedAt, loop, pageUp, stream, failure, line, code, history>>

PageDies ==
    /\ pc \notin {"boot", "launch", "exited"}
    /\ pageUp
    /\ pageUp' = FALSE
    /\ UNCHANGED <<pc, reason, now, startedAt, loop, members, stream, failure, line, code, history>>

\* The output stream reports an error: while recording, or the last data only.
WriteFails ==
    /\ pc \in Recording \cup {"flush"}
    /\ fileError' = TRUE
    /\ UNCHANGED <<pc, reason, now, startedAt, loop, env, captureDied, failure, line, code, history>>

CaptureEnds ==
    /\ pc \in Recording
    /\ captureDied' = TRUE
    /\ UNCHANGED <<pc, reason, now, startedAt, loop, env, fileError, failure, line, code, history>>

Step ==
    \/ InstallHandlers \/ StartFails \/ Launch \/ LaunchFails
    \/ NotYetJoined \/ JoinAgain \/ Joined
    \/ StartCapture \/ StartCaptureFails \/ SetupTracks
    \/ Poll \/ Decide
    \/ Flush \/ Report \/ CloseBrowser

Next == Step \/ Signal \/ RoomChanges \/ PageDies \/ WriteFails \/ CaptureEnds

Spec == Init /\ [][Next]_vars

\* Every await of main returns: the page calls have timeouts, the flush and the
\* track handshake are bounded.
FairSpec == Spec /\ WF_vars(Step)

-----------------------------------------------------------------------------
\* record.js:709-740, recorder/README.md:64,68: a printed result stands for a
\* recording whose capture and output were alive until the loop was left, and
\* comes with exit code 0.
ResultIsComplete == line # "none" => code = 0 /\ ~captureDied /\ ~failure

\* record.js:113-120: the bot never leaves a room as empty within emptyGrace of
\* a poll that saw somebody else, however people come and go in between.
EmptyRoomJustified == reason = "empty_room" => now - seenOthers >= EmptyGrace

\* recorder/README.md:72-73: a signal that reaches a recording finalizes it: if
\* it is the only one and nothing fails, there is a result at the end (or the
\* file is empty).
SignalFinalizes ==
    asked /\ signals = 1 /\ ~fileError /\ ~captureDied /\ pc = "exited" =>
        code = 5 \/ line # "none"

\* Every recorder ends, so every recording of the runner settles.
Terminates == <>(pc = "exited")

\* recorder/README.md:72-74: the first SIGTERM never makes the process exit with
\* code 0 and no JSON line; only a second one may.
FirstSignalKeepsResult == signals <= 1 /\ pc = "exited" /\ code = 0 => line # "none"

\* recorder/README.md:68: a write error of the output file is exit code 5.
WriteErrorReported == line # "none" => ~fileError
=============================================================================
