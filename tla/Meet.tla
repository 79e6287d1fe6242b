-------------------------------- MODULE Meet --------------------------------
(***************************************************************************)
(* recorder/meet.js: the recorder of a Google Meet call.  It asks to join, *)
(* waits in the lobby, knocks again when nobody answers, and once admitted *)
(* records until the stop rule, the end of the call, a signal or a failure *)
(* ends the loop.  Meet's page is external and moves by itself.            *)
(*                                                                         *)
(* A step goes from one await to the next; signals, deaths of a child or   *)
(* the page, and Meet's moves come in between.  One unit of time is one    *)
(* poll (POLL_MS); the shorter awaits take none.                           *)
(***************************************************************************)
EXTENDS Integers, Sequences

CONSTANTS
    JoinTimeout,   \* --join-timeout, in polls
    EmptyGrace,    \* --empty-grace, in polls
    MaxDuration,   \* --max-duration, in polls
    Reclick,       \* RECLICK_MS, in polls
    Reknock,       \* REKNOCK_MS, in polls
    CaptionTries,  \* how often enableCaptions looks for the captions
    MaxSignals,    \* bound: SIGTERMs the process is sent
    MaxOthers,     \* bound: people in the call, the bot not included
    Never,         \* no time: 0 for clickedAt, null for aloneSince
    Unknown        \* null: the roster could not be read

ASSUME TimesAssumption ==
    /\ JoinTimeout \in Nat /\ EmptyGrace \in Nat /\ MaxDuration \in Nat
    /\ Reclick \in Nat /\ Reknock \in Nat /\ Reclick <= Reknock
    /\ CaptionTries \in Nat
ASSUME BoundsAssumption == MaxSignals \in Nat /\ MaxOthers \in Nat
ASSUME NoValueAssumption == Never \notin Nat /\ Unknown \notin Nat

INSTANCE StopRule

VARIABLES
    pc,          \* the await main is at
    reason,      \* the stop reason, and with it the signal latch
    now,         \* the clock
    startedAt,   \* when the current phase (joining, recording) began
    clickedAt,   \* the last click on "Ask to join" of this page load
    aloneSince,  \* carried by meetShouldStop
    tries,       \* enableCaptions' loop counter
    page,        \* what Meet shows
    room,        \* the others in the call
    tiles,       \* at least one video tile is found on screen
    dead,        \* what has died: parec, PulseAudio, the page
    audible,     \* parec found PulseAudio running: the WAV can hold samples
    failure,     \* the record loop has noticed one of them
    line,        \* the reason in the JSON line, once printed
    code,        \* the exit code, once decided
    signals,     \* SIGTERMs received
    asked,       \* one came while the call was recorded and nothing had ended it
    lastKnock,   \* history: the last click on "Ask to join" of all
    notAlone,    \* history: the last poll that did not find an empty room
    diedAt,      \* history: when the capture first broke
    checkedAt    \* history: when the record loop last checked the capture

meet == <<page, room, tiles>>
deaths == <<dead, diedAt, checkedAt>>
times == <<startedAt, clickedAt, aloneSince, tries>>
outcome == <<audible, failure, line, code>>
history == <<signals, asked, lastKnock, notAlone>>
vars == <<pc, reason, now, times, meet, deaths, outcome, history>>

Undecided == -1
Killed == 143   \* ended by the signal's default action
Reasons == {"none", "signal", "empty_room", "max_duration", "ended"}
Recording == {"captions", "sleep", "look", "names"}
Pcs == {"boot", "launch", "probe", "settle", "reload", "pause", "drain", "stopping",
        "closing", "exited"} \cup Recording
Pages == {"loading", "prejoin", "lobby", "unanswered", "refused", "call", "over"}
Parts == {"parec", "pulse", "page"}

TypeOK ==
    /\ pc \in Pcs
    /\ reason \in Reasons /\ line \in Reasons
    /\ now \in Nat /\ startedAt \in 0 .. now /\ notAlone \in 0 .. now
    /\ {clickedAt, aloneSince, lastKnock, diedAt, checkedAt} \subseteq (0 .. now) \cup {Never}
    /\ page \in Pages /\ room \in 0 .. MaxOthers /\ tiles \in BOOLEAN
    /\ dead \subseteq Parts
    /\ audible \in BOOLEAN /\ failure \in BOOLEAN /\ asked \in BOOLEAN
    /\ code \in {Undecided, 0, 2, 3, 4, 5, Killed}
    /\ signals \in 0 .. MaxSignals /\ tries \in 0 .. CaptionTries

Init ==
    /\ pc = "boot"
    /\ reason = "none" /\ line = "none" /\ code = Undecided
    /\ now = 0 /\ startedAt = 0 /\ notAlone = 0
    /\ clickedAt = Never /\ aloneSince = Never /\ lastKnock = Never
    /\ diedAt = Never /\ checkedAt = Never /\ tries = 0
    /\ page = "loading" /\ room = 0 /\ tiles = FALSE
    /\ dead = {} /\ failure = FALSE /\ audible = FALSE
    /\ signals = 0 /\ asked = FALSE

-----------------------------------------------------------------------------
\* The clock stands still once every deadline is past: a bound of the model.
MaxTime == JoinTimeout + CaptionTries + MaxDuration + 1
Later == IF now < MaxTime THEN now + 1 ELSE now

\* At least d has passed since t, or t never was.
Since(t, d) == IF t = Never THEN TRUE ELSE now - t >= d

-----------------------------------------------------------------------------
(***************************************************************************)
(* readState tells Meet's screens apart by phrases of their text, a Leave  *)
(* button and video tiles.  In the call the text may say anything: it is   *)
(* chat, names, and whatever of the captions the cut does not find.        *)
(***************************************************************************)
Phrases == {"lobby", "unanswered", "refused", "over"}

\* What readState may find: a Leave button lingers for a while after the call, and
\* tiles come and go, in the lobby (a self preview) and in the call.
Views ==
    {[leave |-> l, tiles |-> tiles, text |-> t] :
        l \in IF page = "over" THEN BOOLEAN ELSE {page \in {"lobby", "call"}},
        t \in IF page = "call" THEN SUBSET Phrases ELSE {{page}}}

\* Mutant of Rules: terminal phrases go before the signs of the call.
RulesByText(v) ==
    << <<"lobby", "lobby" \in v.text>>, <<"unanswered", "unanswered" \in v.text>>,
       <<"refused", "refused" \in v.text>>, <<"over", "over" \in v.text>>, <<"call", v.leave>>,
       <<"loading", "loading" \in v.text>>, <<"prejoin", "prejoin" \in v.text>> >>

\* The rules in their order.  "refused" stands for denied, blocked, invalid and
\* signin, "over" for removed and ended, "call" for admitted; the weaker phrases
\* of the lobby come after the Leave button and change nothing here.
Rules(v) ==
    << <<"lobby", "lobby" \in v.text>>, <<"call", v.leave /\ v.tiles>>,
       <<"unanswered", "unanswered" \in v.text>>, <<"refused", "refused" \in v.text>>,
       <<"over", "over" \in v.text>>, <<"call", v.leave>>,
       <<"loading", "loading" \in v.text>>, <<"prejoin", "prejoin" \in v.text>> >>

FirstRule(rules) ==
    LET first == {i \in 1 .. Len(rules) : rules[i][2] /\ \A j \in 1 .. i - 1 : ~rules[j][2]}
    IN  IF first = {} THEN "unknown" ELSE rules[CHOOSE i \in first : TRUE][1]

\* The states a probe may come back with.
ReadState ==
    IF "page" \in dead THEN {"probe-error"} ELSE {FirstRule(Rules(v)) : v \in Views}

-----------------------------------------------------------------------------
\* main returns c; the finally block ends the browser and both children first.
Returns(c) == code' = c /\ pc' = "closing"

\* node has started the script: from here on SIGTERM is handled.
InstallHandlers ==
    /\ pc = "boot"
    /\ pc' = "launch"
    /\ UNCHANGED <<reason, now, times, meet, deaths, outcome, history>>

\* Bad arguments, or no directory for the output.
StartFails ==
    /\ pc = "boot"
    /\ code' \in {2, 4}
    /\ pc' = "exited"
    /\ UNCHANGED <<reason, now, times, meet, deaths, audible, failure, line, history>>

\* The head of the join loop at time t.
JoinHead(t) ==
    IF reason = "none" /\ t - startedAt' < JoinTimeout
    THEN pc' = "probe" /\ UNCHANGED code ELSE Returns(3)

\* PulseAudio, Chromium and the page are up, or one of them is not.
Launch ==
    /\ pc = "launch"
    /\ startedAt' = now
    /\ JoinHead(now)
    /\ UNCHANGED <<reason, now, clickedAt, aloneSince, tries, meet, deaths, audible, failure, line, history>>

LaunchFails ==
    /\ pc = "launch"
    /\ Returns(4)
    /\ UNCHANGED <<reason, now, times, meet, deaths, audible, failure, line, history>>

-----------------------------------------------------------------------------
(***************************************************************************)
(* The join phase.                                                         *)
(***************************************************************************)

\* The bot is in the call: parec starts now.  A signal does not matter here.
Admitted ==
    /\ pc = "probe"
    /\ "call" \in ReadState
    /\ pc' = "captions"
    /\ startedAt' = now
    /\ notAlone' = now
    /\ audible' = ("pulse" \notin dead)
    /\ UNCHANGED <<reason, now, clickedAt, aloneSince, tries, meet, deaths, failure, line, code, signals, asked, lastKnock>>

Refused ==
    /\ pc = "probe"
    /\ ReadState \cap {"refused", "over"} # {}
    /\ Returns(3)
    /\ UNCHANGED <<reason, now, times, meet, deaths, audible, failure, line, history>>

\* Nobody answered and the last knock is old enough: reload and start over.
KnockAgain ==
    /\ pc = "probe"
    /\ "unanswered" \in ReadState
    /\ Since(clickedAt, Reknock)
    /\ pc' = "reload"
    /\ UNCHANGED <<reason, now, times, meet, deaths, outcome, history>>

Reload ==
    /\ pc = "reload"
    /\ page' \in {"loading", page}
    /\ tiles' = (tiles /\ page' = page)
    /\ clickedAt' = Never
    /\ pc' = "pause"
    /\ UNCHANGED <<reason, now, startedAt, aloneSince, tries, room, deaths, outcome, history>>

\* The prejoin screen with mic and camera off: let it settle for a second.
Prejoin ==
    /\ pc = "probe"
    /\ "prejoin" \in ReadState
    /\ Since(clickedAt, Reclick)
    /\ pc' = "settle"
    /\ UNCHANGED <<reason, now, times, meet, deaths, outcome, history>>

\* Mutant of ClickTime: the click is not remembered.
ClickForgotten == clickedAt

ClickTime == now

\* The click on "Ask to join", if the screen is still there and has it enabled.
ClickJoin ==
    /\ pc = "settle"
    /\ pc' = "pause"
    /\ \/ /\ page = "prejoin" /\ "page" \notin dead
          /\ page' \in {"prejoin", "lobby", "call"}
          /\ clickedAt' = ClickTime
          /\ lastKnock' = now
       \/ UNCHANGED <<page, clickedAt, lastKnock>>
    /\ UNCHANGED <<reason, now, startedAt, aloneSince, tries, room, tiles, deaths, outcome, signals, asked, notAlone>>

\* Waiting in the lobby, loading, a device still on, no answer: sleep.
KeepWaiting ==
    /\ pc = "probe"
    /\ \E state \in ReadState :
          /\ state \notin {"call", "refused", "over"}
          /\ state = "unanswered" => ~Since(clickedAt, Reknock)
    /\ pc' = "pause"
    /\ UNCHANGED <<reason, now, times, meet, deaths, outcome, history>>

JoinAgain ==
    /\ pc = "pause"
    /\ now' = Later
    /\ UNCHANGED <<reason, times, meet, deaths, audible, failure, line, history>>
    /\ JoinHead(now')

-----------------------------------------------------------------------------
(***************************************************************************)
(* The record phase.                                                       *)
(***************************************************************************)

\* The head of the record loop with reason r.
RecordHead(r) == pc' = IF r = "none" THEN "sleep" ELSE "drain"

\* enableCaptions: it returns once captions are on, the run is to stop, or it
\* has tried often enough.  Nobody looks at the capture meanwhile.
TryCaptions ==
    /\ pc = "captions"
    /\ reason = "none" /\ tries < CaptionTries
    /\ tries' = tries + 1
    /\ now' = Later
    /\ UNCHANGED <<pc, reason, startedAt, clickedAt, aloneSince, meet, deaths, outcome, history>>

CaptionsTried ==
    /\ pc = "captions"
    /\ RecordHead(reason)
    /\ UNCHANGED <<reason, now, times, meet, deaths, outcome, history>>

\* Mutant of Broken: only parec is looked at.
BrokenParec == "parec" \in dead

Broken == dead # {}

\* A round up to the check of the capture: two sleeps and two caption polls.
Round ==
    /\ pc = "sleep"
    /\ now' = Later
    /\ failure' = Broken
    /\ checkedAt' = Later
    /\ pc' = IF failure' THEN "drain" ELSE "look"
    /\ UNCHANGED <<reason, times, meet, dead, diedAt, audible, line, code, history>>

\* The page says that the call is over, or the bot was removed.
Look ==
    /\ pc = "look"
    /\ \E state \in ReadState :
          IF state = "over"
          THEN reason' = "ended" /\ pc' = "drain"
          ELSE pc' = "names" /\ UNCHANGED reason
    /\ UNCHANGED <<now, times, meet, deaths, outcome, history>>

\* Mutant of MembersCount: a roster that cannot be read is an empty one.
MembersCountUnread(others) == IF others = Unknown THEN 1 ELSE others + 1

\* meetShouldStop: an unreadable roster counts as somebody, never as alone.
MembersCount(others) == IF others = Unknown THEN 2 ELSE others + 1

\* otherNames: no tile, or a tile without a name, and nobody knows who is there.
OtherNames == {Unknown} \cup (IF tiles /\ "page" \notin dead THEN {room} ELSE {})

Names ==
    \E others \in OtherNames :
        LET next == ShouldStop(MembersCount(others), aloneSince, now, EmptyGrace,
                               startedAt, MaxDuration)
        IN  /\ pc = "names"
            /\ aloneSince' = next.aloneSince
            /\ reason' = IF next.reason # "none" THEN next.reason ELSE reason
            /\ notAlone' = IF others = 0 THEN notAlone ELSE now
            /\ RecordHead(reason')
            /\ UNCHANGED <<now, startedAt, clickedAt, tries, meet, deaths, outcome, signals, asked, lastKnock>>

\* The last captions are read and written.
Drain ==
    /\ pc = "drain"
    /\ pc' = "stopping"
    /\ UNCHANGED <<reason, now, times, meet, deaths, outcome, history>>

\* parec has been stopped and the WAV header is made to match the file.  An
\* empty file is exit 5; an I/O error throws.
Report ==
    /\ pc = "stopping"
    /\ \/ ~failure /\ audible /\ line' = reason /\ Returns(0)
       \/ UNCHANGED line /\ (Returns(5) \/ Returns(4))
    /\ UNCHANGED <<reason, now, times, meet, deaths, audible, failure, history>>

Cleanup ==
    /\ pc = "closing"
    /\ pc' = "exited"
    /\ UNCHANGED <<reason, now, times, meet, deaths, outcome, history>>

-----------------------------------------------------------------------------
\* Mutant of Latched: every signal exits at once.
LatchedAlways == TRUE

\* onSignal exits when a stop reason is already set, whoever has set it.
Latched == reason # "none"

Signal ==
    /\ pc # "exited"
    /\ signals < MaxSignals
    /\ signals' = signals + 1
    /\ asked' = (asked \/ (pc \in Recording /\ reason = "none"))
    /\ \/ /\ pc = "boot"
          /\ code' = Killed /\ pc' = "exited"
          /\ UNCHANGED reason
       \/ /\ pc # "boot" /\ Latched
          /\ code' = 0 /\ pc' = "exited"
          /\ UNCHANGED reason
       \/ /\ pc # "boot" /\ ~Latched
          /\ reason' = "signal"
          /\ UNCHANGED <<code, pc>>
    /\ UNCHANGED <<now, times, meet, deaths, audible, failure, line, lastKnock, notAlone>>

\* Before the page is loaded and after the last look, nobody sees what it does:
\* a bound of the model.
Watched == pc \in Recording \cup {"probe", "settle", "reload", "pause"}

\* Meet by itself: the page loads, the host answers or does not, the call ends.
MeetMoves ==
    /\ Watched
    /\ \/ page = "loading" /\ page' \in {"prejoin", "refused"}
       \/ page = "lobby" /\ page' \in {"call", "refused", "unanswered"}
       \/ page = "call" /\ page' = "over"
    /\ UNCHANGED <<pc, reason, now, times, room, tiles, deaths, outcome, history>>

RoomChanges ==
    /\ Watched /\ page = "call"
    /\ room' \in (0 .. MaxOthers) \ {room}
    /\ UNCHANGED <<pc, reason, now, times, page, tiles, deaths, outcome, history>>

\* The first tile comes up, or the last one goes: another layout, or other markup.
TilesChange ==
    /\ Watched /\ page \in {"lobby", "call", "over"}
    /\ tiles' = ~tiles
    /\ UNCHANGED <<pc, reason, now, times, page, room, deaths, outcome, history>>

\* parec, PulseAudio or the page dies; parec runs only once the call is recorded.
Dies(part) ==
    /\ pc \in Recording \cup {"drain"}
        \/ (part # "parec" /\ pc \in {"probe", "settle", "reload", "pause"})
    /\ part \notin dead
    /\ dead' = dead \cup {part}
    /\ diedAt' = IF diedAt = Never THEN now ELSE diedAt
    /\ UNCHANGED <<pc, checkedAt, reason, now, times, meet, outcome, history>>

Step ==
    \/ InstallHandlers \/ StartFails \/ Launch \/ LaunchFails
    \/ Admitted \/ Refused \/ KnockAgain \/ Reload \/ Prejoin \/ ClickJoin \/ KeepWaiting \/ JoinAgain
    \/ TryCaptions \/ CaptionsTried \/ Round \/ Look \/ Names
    \/ Drain \/ Report \/ Cleanup

Next == Step \/ Signal \/ MeetMoves \/ RoomChanges \/ TilesChange \/ \E part \in Parts : Dies(part)

Spec == Init /\ [][Next]_vars

\* Every await of main returns: page calls and reloads have timeouts, and a
\* child that does not stop within 3 s is killed.
FairSpec == Spec /\ WF_vars(Step)

-----------------------------------------------------------------------------
\* meet.js:44-48, recorder/README.md:255-257: the host is not pestered.  Two
\* knocks are at least RECLICK_MS apart, the reloads in between notwithstanding,
\* which forget the time of the last click.
KnocksSpaced ==
    [][lastKnock' # lastKnock /\ lastKnock # Never => lastKnock' - lastKnock >= Reclick]_vars

\* recorder/README.md:266-270: the bot leaves a call as empty only after
\* emptyGrace of polls that all read the roster and all found nobody.
EmptyRoomJustified == reason = "empty_room" => now - notAlone >= EmptyGrace

\* meet.js:179-180, 197-198: with a tile on screen, nothing that is typed in the
\* call, or that somebody calls himself, ends the recording or refuses the bot.
\* Without one it may, as the phrases then come before the Leave button.
TilesKeepTheCall ==
    [][/\ reason' = "ended" /\ reason # "ended" => page = "over" \/ (page = "call" /\ ~tiles)
       /\ pc = "probe" /\ Returns(3) /\ page = "call" => ~tiles]_vars

\* recorder/README.md:270-271: a capture that broke before the record loop last
\* checked it is never reported as a complete recording.
ResultIsComplete ==
    line # "none" => code = 0 /\ (diedAt # Never /\ checkedAt # Never => diedAt >= checkedAt)

\* recorder/README.md:234-235: a single signal that reaches a recording leads to
\* a result, unless the capture broke or the file is empty or unusable.
SignalFinalizes ==
    asked /\ signals = 1 /\ dead = {} /\ pc = "exited" => code \in {4, 5} \/ line # "none"

\* Every recorder ends, also in a lobby where nobody ever answers.
Terminates == <>(pc = "exited")
=============================================================================
