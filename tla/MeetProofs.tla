----------------------------- MODULE MeetProofs -----------------------------
(***************************************************************************)
(* Proofs about the Meet recorder, for any deadlines: its states are well  *)
(* typed, hosts are not pestered, chat does not end a recording that sees a tile, a printed *)
(* result stands for a capture that was whole when it was last checked, an *)
(* empty room was empty for as long as it should be, and a signal that     *)
(* reaches a recording gets its result.                                    *)
(***************************************************************************)
EXTENDS Meet, TLAPS

-----------------------------------------------------------------------------
(***************************************************************************)
(* Types.                                                                  *)
(***************************************************************************)

\* What the stop rule returns: one of its two reasons or none, and a time of the
\* past or none.
LEMMA ShouldStopType ==
    ASSUME NEW n, NEW since, NEW t \in Nat, since \in (0 .. t) \cup {Never},
           NEW grace, NEW started, NEW limit
    PROVE  LET next == ShouldStop(n, since, t, grace, started, limit)
           IN  /\ next.reason \in {"none", "empty_room", "max_duration"}
               /\ next.aloneSince \in (0 .. t) \cup {Never}
  BY DEF ShouldStop, AloneSince

\* The clock goes forward, and what was in the past stays there.
LEMMA LaterGrows ==
    ASSUME now \in Nat
    PROVE  Later \in Nat /\ Later >= now /\ 0 .. now \subseteq 0 .. Later /\ Later \in 0 .. Later
<1>1. Later \in Nat /\ Later >= now
  BY DEF Later
<1> QED
  BY <1>1

\* The types survive each step.
LEMMA TypeStep ==
    ASSUME TypeOK, [Next]_vars
    PROVE  TypeOK'
<1> USE BoundsAssumption DEF TypeOK
<1>1. CASE UNCHANGED vars
  BY <1>1 DEF vars, times, meet, deaths, outcome, history
<1>2. CASE InstallHandlers \/ StartFails \/ Refused \/ KnockAgain \/ Prejoin \/ KeepWaiting
           \/ Drain \/ Cleanup \/ LaunchFails
  BY <1>2 DEF InstallHandlers, StartFails, Refused, KnockAgain, Prejoin, KeepWaiting, Drain, Cleanup,
              LaunchFails, Returns, Pcs, Recording, times, meet, deaths, outcome, history
<1>3. CASE Launch \/ Admitted
  <2>1. now \in 0 .. now
    OBVIOUS
  <2> QED
    BY <1>3, <2>1 DEF Launch, Admitted, JoinHead, Returns, Pcs, Recording, meet, deaths, history
<1>4. CASE Reload \/ ClickJoin
  <2>1. now \in 0 .. now
    OBVIOUS
  <2>2. tiles' \in BOOLEAN
    BY <1>4 DEF Reload, ClickJoin
  <2>3. /\ pc' \in Pcs /\ page' \in Pages /\ {clickedAt', lastKnock'} \subseteq {clickedAt, lastKnock, now, Never}
        /\ UNCHANGED <<reason, line, now, startedAt, notAlone, aloneSince, diedAt, checkedAt, room, dead,
                       audible, failure, asked, code, signals, tries>>
    BY <1>4 DEF Reload, ClickJoin, ClickTime, Pcs, Pages, deaths, outcome, history
  <2> QED
    BY <2>1, <2>2, <2>3
<1>5. CASE JoinAgain
  <2>1. now' \in Nat /\ 0 .. now \subseteq 0 .. now'
    BY <1>5, LaterGrows DEF JoinAgain
  <2>2. UNCHANGED <<reason, times, meet, deaths, audible, failure, line, history>>
        /\ pc' \in {"probe", "closing"} /\ code' \in {code, 3}
    BY <1>5 DEF JoinAgain, JoinHead, Returns
  <2> QED
    BY <2>1, <2>2 DEF Pcs, times, meet, deaths, history
<1>6. CASE TryCaptions \/ CaptionsTried
  <2>1. now' \in Nat /\ 0 .. now \subseteq 0 .. now'
    BY <1>6, LaterGrows DEF TryCaptions, CaptionsTried
  <2>2. tries' \in 0 .. CaptionTries
    BY <1>6, TimesAssumption DEF TryCaptions, CaptionsTried, times
  <2>3. UNCHANGED <<reason, startedAt, clickedAt, aloneSince, meet, deaths, outcome, history>>
        /\ pc' \in {pc, "sleep", "drain"}
    BY <1>6 DEF TryCaptions, CaptionsTried, RecordHead, times
  <2> QED
    BY <2>1, <2>2, <2>3 DEF Pcs, Recording, meet, deaths, outcome, history
<1>7. CASE Round
  <2>1. now' \in Nat /\ 0 .. now \subseteq 0 .. now' /\ checkedAt' \in 0 .. now'
    BY <1>7, LaterGrows DEF Round
  <2>2. UNCHANGED <<reason, times, meet, dead, diedAt, audible, line, code, history>>
        /\ pc' \in {"drain", "look"} /\ failure' \in BOOLEAN
    BY <1>7 DEF Round, Broken
  <2> QED
    BY <2>1, <2>2 DEF Pcs, Recording, times, meet, history
<1>8. CASE Look
  BY <1>8 DEF Look, Pcs, Recording, Reasons, times, meet, deaths, outcome, history
<1>9. CASE Names
  <2>1. PICK n : LET next == ShouldStop(n, aloneSince, now, EmptyGrace, startedAt, MaxDuration)
                 IN  /\ aloneSince' = next.aloneSince
                     /\ reason' = IF next.reason # "none" THEN next.reason ELSE reason
    BY <1>9 DEF Names, OtherNames
  <2>2. aloneSince' \in (0 .. now) \cup {Never} /\ reason' \in Reasons
    BY <2>1, ShouldStopType DEF Reasons
  <2>3. UNCHANGED <<now, startedAt, clickedAt, tries, meet, deaths, outcome, signals, asked, lastKnock>>
        /\ notAlone' \in {notAlone, now} /\ pc' \in {"sleep", "drain"}
    BY <1>9 DEF Names, RecordHead
  <2> QED
    BY <2>2, <2>3 DEF Pcs, Recording, meet, deaths, outcome
<1>10. CASE Report
  BY <1>10 DEF Report, Returns, Pcs, times, meet, deaths, history
<1>11. CASE Signal
  BY <1>11 DEF Signal, Pcs, Reasons, times, meet, deaths
<1>12. CASE MeetMoves \/ RoomChanges \/ TilesChange
  BY <1>12 DEF MeetMoves, RoomChanges, TilesChange, Pages, times, deaths, outcome, history
<1>13. CASE \E part \in Parts : Dies(part)
  <2>1. now \in 0 .. now
    OBVIOUS
  <2> QED
    BY <1>13, <2>1 DEF Dies, times, meet, outcome, history
<1> QED
  BY <1>1, <1>2, <1>3, <1>4, <1>5, <1>6, <1>7, <1>8, <1>9, <1>10, <1>11, <1>12, <1>13 DEF Next, Step

\* Every state of the Meet recorder is well typed.
THEOREM TypeCorrect == Spec => []TypeOK
<1>1. Init => TypeOK
  <2> SUFFICES ASSUME Init PROVE TypeOK
    OBVIOUS
  <2>1. now = 0 /\ startedAt = 0 /\ notAlone = 0 /\ signals = 0 /\ tries = 0 /\ room = 0
    BY DEF Init
  <2>2. room \in 0 .. MaxOthers /\ signals \in 0 .. MaxSignals /\ tries \in 0 .. CaptionTries
    BY <2>1, BoundsAssumption, TimesAssumption
  <2>3. pc \in Pcs /\ reason \in Reasons /\ line \in Reasons /\ code = Undecided /\ page \in Pages
        /\ dead \subseteq Parts
    BY DEF Init, Pcs, Reasons, Pages
  <2>4. {clickedAt, aloneSince, lastKnock, diedAt, checkedAt} \subseteq {Never}
        /\ {failure, audible, asked, tiles} \subseteq BOOLEAN
    BY DEF Init
  <2> QED
    BY <2>1, <2>2, <2>3, <2>4 DEF TypeOK
<1>2. TypeOK /\ [Next]_vars => TypeOK'
  BY TypeStep
<1> QED
  BY <1>1, <1>2, PTL DEF Spec

-----------------------------------------------------------------------------
(***************************************************************************)
(* KnocksSpaced: clickedAt is the last knock, until a reload forgets it,   *)
(* and then the last knock is at least RECLICK_MS old.                     *)
(***************************************************************************)
Spaced ==
    /\ clickedAt # Never => lastKnock = clickedAt
    /\ lastKnock # Never /\ (clickedAt = Never \/ pc \in {"settle", "reload"})
         => now - lastKnock >= Reclick

LEMMA SpacedStep ==
    ASSUME TypeOK, Spaced, [Next]_vars
    PROVE  Spaced'
<1>0. now \in Nat /\ {clickedAt, lastKnock} \subseteq Nat \cup {Never} /\ Reclick \in Nat /\ Reknock \in Nat
      /\ Reclick <= Reknock
  BY TimesAssumption DEF TypeOK
<1> USE <1>0, NoValueAssumption DEF Spaced
<1>1. CASE UNCHANGED vars
  BY <1>1 DEF vars, times, history
<1>2. CASE InstallHandlers \/ StartFails \/ Refused \/ KeepWaiting \/ Drain \/ Cleanup \/ LaunchFails
  BY <1>2 DEF InstallHandlers, StartFails, Refused, KeepWaiting, Drain, Cleanup, LaunchFails,
              Returns, times, history
<1>3. CASE Launch \/ Admitted
  BY <1>3 DEF Launch, Admitted, JoinHead, Returns, history
<1>4. CASE KnockAgain \/ Prejoin
  BY <1>4 DEF KnockAgain, Prejoin, Since, times, history
<1>5. CASE Reload
  BY <1>5 DEF Reload, history
<1>6. CASE ClickJoin
  BY <1>6 DEF ClickJoin, ClickTime
<1>7. CASE JoinAgain \/ TryCaptions \/ CaptionsTried \/ Round
  <2>1. now' \in Nat /\ now' >= now
    BY <1>7, LaterGrows DEF JoinAgain, TryCaptions, CaptionsTried, Round
  <2>2. UNCHANGED <<clickedAt, lastKnock>> /\ pc' \notin {"settle", "reload"}
    BY <1>7 DEF JoinAgain, TryCaptions, CaptionsTried, Round, JoinHead, RecordHead, Returns, times, history
  <2> QED
    BY <2>1, <2>2
<1>8. CASE Look \/ Names
  BY <1>8 DEF Look, Names, RecordHead, times, history
<1>9. CASE Report
  BY <1>9 DEF Report, Returns, times, history
<1>10. CASE Signal
  BY <1>10 DEF Signal, times
<1>11. CASE MeetMoves \/ RoomChanges \/ TilesChange \/ \E part \in Parts : Dies(part)
  BY <1>11 DEF MeetMoves, RoomChanges, TilesChange, Dies, times, history
<1> QED
  BY <1>1, <1>2, <1>3, <1>4, <1>5, <1>6, <1>7, <1>8, <1>9, <1>10, <1>11 DEF Next, Step

\* Two knocks are at least RECLICK_MS apart, reloads or not.
THEOREM HostsAreSpared == Spec => KnocksSpaced
<1>1. Init => Spaced
  BY DEF Init, Spaced
<1>2. TypeOK /\ Spaced /\ [Next]_vars => Spaced'
  BY SpacedStep
<1>3. ASSUME Spaced, [Next]_vars, lastKnock' # lastKnock, lastKnock # Never
      PROVE  lastKnock' - lastKnock >= Reclick
  <2>1. ClickJoin
    BY <1>3 DEF Next, Step, InstallHandlers, StartFails, Launch, LaunchFails, Admitted, Refused,
                KnockAgain, Reload, Prejoin, KeepWaiting, JoinAgain, TryCaptions, CaptionsTried, Round,
                Look, Names, Drain, Report, Cleanup, Signal, MeetMoves, RoomChanges, TilesChange, Dies, vars, history
  <2>2. pc = "settle" /\ lastKnock' = now
    BY <1>3, <2>1 DEF ClickJoin
  <2> QED
    BY <1>3, <2>2 DEF Spaced
<1>4. Spaced /\ [Next]_vars =>
        [lastKnock' # lastKnock /\ lastKnock # Never => lastKnock' - lastKnock >= Reclick]_vars
  BY <1>3
<1> QED
  BY <1>1, <1>2, <1>4, TypeCorrect, PTL DEF Spec, KnocksSpaced

-----------------------------------------------------------------------------
(***************************************************************************)
(* TilesKeepTheCall: the Leave button is there as long as the bot is in    *)
(* the call, and the rule that finds it with a tile comes before those of  *)
(* every phrase that ends a recording or refuses the bot.                  *)
(***************************************************************************)

\* The rules that say "refused" and "over" come after the one of the tiles, and on
\* a screen other than the call a text says what the page is.
LEMMA TerminalRules ==
    ASSUME NEW state \in {"refused", "over"}, state \in ReadState
    PROVE  page = state \/ (page = "call" /\ ~tiles)
<1>1. PICK v \in Views : FirstRule(Rules(v)) = state
  BY DEF ReadState
<1>2. Len(Rules(v)) = 8
  BY DEF Rules
<1>3. PICK i \in 1 .. 8 : /\ Rules(v)[i][1] = state /\ Rules(v)[i][2]
                          /\ \A j \in 1 .. i - 1 : ~Rules(v)[j][2]
  BY <1>1, <1>2 DEF FirstRule
<1>4. i \in {4, 5}
  BY <1>3 DEF Rules
<1>5. state \in v.text
  <2>1. Rules(v)[i][2] /\ Rules(v)[i][1] = state
    BY <1>3
  <2>2. Rules(v)[4][1] = "refused" /\ Rules(v)[4][2] = ("refused" \in v.text)
    BY DEF Rules
  <2>3. Rules(v)[5][1] = "over" /\ Rules(v)[5][2] = ("over" \in v.text)
    BY DEF Rules
  <2>4. CASE i = 4
    BY <2>1, <2>2, <2>4
  <2>5. CASE i = 5
    BY <2>1, <2>3, <2>5
  <2> QED
    BY <1>4, <2>4, <2>5
<1>6. ~(v.leave /\ v.tiles)
  <2>1. ~Rules(v)[2][2]
    BY <1>3, <1>4
  <2> QED
    BY <2>1 DEF Rules
<1>7. CASE page = "call"
  BY <1>6, <1>7 DEF Views
<1>8. CASE page # "call"
  BY <1>5, <1>8 DEF Views
<1> QED
  BY <1>7, <1>8

\* With a tile on screen, chat neither ends a recording nor refuses the bot.
THEOREM ChatEndsNothing == Spec => TilesKeepTheCall
<1> DEFINE Ends == reason' = "ended" /\ reason # "ended" => page = "over" \/ (page = "call" /\ ~tiles)
           Turns == pc = "probe" /\ Returns(3) /\ page = "call" => ~tiles
<1>1. [Next]_vars => Ends
  <2> SUFFICES ASSUME Next, reason' = "ended", reason # "ended"
               PROVE  page = "over" \/ (page = "call" /\ ~tiles)
    BY DEF vars
  <2>1. Look
    BY DEF Next, Step, InstallHandlers, StartFails, Launch, LaunchFails, Admitted, Refused, KnockAgain,
           Reload, Prejoin, ClickJoin, KeepWaiting, JoinAgain, TryCaptions, CaptionsTried, Round, Names,
           ShouldStop, Drain, Report, Cleanup, Signal, MeetMoves, RoomChanges, TilesChange, Dies
  <2>2. "over" \in ReadState
    BY <2>1 DEF Look
  <2> QED
    BY <2>2, TerminalRules
<1>2. [Next]_vars => Turns
  <2> SUFFICES ASSUME Next, pc = "probe", pc' = "closing", page = "call"
               PROVE  ~tiles
    BY DEF vars, Returns
  <2>1. Refused
    BY DEF Next, Step, InstallHandlers, StartFails, Launch, LaunchFails, Admitted, KnockAgain, Reload,
           Prejoin, ClickJoin, KeepWaiting, JoinAgain, TryCaptions, CaptionsTried, Round, Look, Names,
           Drain, Report, Cleanup, Signal, MeetMoves, RoomChanges, TilesChange, Dies
  <2>2. "refused" \in ReadState \/ "over" \in ReadState
    BY <2>1 DEF Refused
  <2> QED
    BY <2>2, TerminalRules
<1>3. [Next]_vars => [Ends /\ Turns]_vars
  BY <1>1, <1>2
<1> QED
  BY <1>3, PTL DEF Spec, TilesKeepTheCall

-----------------------------------------------------------------------------
(***************************************************************************)
(* ResultIsComplete: either the last check came before anything broke, or  *)
(* the record loop knows.                                                  *)
(***************************************************************************)
Checked == diedAt # Never /\ checkedAt # Never => diedAt >= checkedAt

Whole ==
    /\ dead = {} <=> diedAt = Never
    /\ Checked \/ failure
    /\ line # "none" => pc \in {"closing", "exited"} /\ code = 0 /\ ~failure

LEMMA WholeStep ==
    ASSUME TypeOK, Whole, [Next]_vars
    PROVE  Whole'
<1> USE DEF Whole, Checked
<1>1. CASE UNCHANGED vars
  BY <1>1 DEF vars, deaths, outcome
<1>2. CASE InstallHandlers \/ Refused \/ KnockAgain \/ Prejoin \/ KeepWaiting \/ Drain \/ Cleanup
           \/ LaunchFails \/ StartFails
  BY <1>2 DEF InstallHandlers, StartFails, Refused, KnockAgain, Prejoin, KeepWaiting, Drain, Cleanup,
              LaunchFails, Returns, deaths, outcome
<1>3. CASE Launch \/ Admitted \/ JoinAgain
  BY <1>3 DEF Launch, Admitted, JoinAgain, JoinHead, Returns, deaths
<1>4. CASE Reload \/ ClickJoin
  BY <1>4 DEF Reload, ClickJoin, deaths, outcome
<1>5. CASE TryCaptions \/ CaptionsTried
  BY <1>5 DEF TryCaptions, CaptionsTried, RecordHead, deaths, outcome
<1>6. CASE Round
  <2>1. UNCHANGED <<dead, diedAt, line, code>> /\ pc = "sleep" /\ failure' = (dead # {})
    BY <1>6 DEF Round, Broken
  <2> QED
    BY <2>1
<1>7. CASE Look \/ Names
  BY <1>7 DEF Look, Names, RecordHead, deaths, outcome
<1>8. CASE Report
  BY <1>8 DEF Report, Returns, deaths
<1>9. CASE Signal
  BY <1>9 DEF Signal, Latched, deaths
<1>10. CASE MeetMoves \/ RoomChanges \/ TilesChange
  BY <1>10 DEF MeetMoves, RoomChanges, TilesChange, deaths, outcome
<1>11. CASE \E part \in Parts : Dies(part)
  <2>1. now \in Nat /\ checkedAt \in (0 .. now) \cup {Never} /\ Never \notin Nat
    BY NoValueAssumption DEF TypeOK
  <2>2. dead' # {} /\ diedAt' = (IF diedAt = Never THEN now ELSE diedAt) /\ UNCHANGED <<checkedAt, pc>>
    BY <1>11 DEF Dies
  <2>3. diedAt' # Never /\ (Checked' \/ failure)
    BY <2>1, <2>2
  <2>4. pc \notin {"closing", "exited"} /\ UNCHANGED <<failure, line, code>>
    BY <1>11 DEF Dies, Recording, outcome
  <2> QED
    BY <2>1, <2>2, <2>3, <2>4
<1> QED
  BY <1>1, <1>2, <1>3, <1>4, <1>5, <1>6, <1>7, <1>8, <1>9, <1>10, <1>11 DEF Next, Step

\* A printed result means exit code 0, and a capture that was whole when the
\* record loop last checked it.
THEOREM ResultsAreComplete == Spec => []ResultIsComplete
<1>1. Init => Whole
  BY DEF Init, Whole, Checked
<1>2. TypeOK /\ Whole /\ [Next]_vars => Whole'
  BY WholeStep
<1>3. Whole => ResultIsComplete
  BY DEF Whole, Checked, ResultIsComplete
<1> QED
  BY <1>1, <1>2, <1>3, TypeCorrect, PTL DEF Spec

-----------------------------------------------------------------------------
(***************************************************************************)
(* EmptyRoomJustified: while the call is recorded, aloneSince is never     *)
(* before the last poll that did not find an empty room.                   *)
(***************************************************************************)
Late == {"drain", "stopping", "closing", "exited"}
Early == {"boot", "launch", "probe", "settle", "reload", "pause"}

Alone ==
    /\ pc \in Early => aloneSince = Never
    /\ aloneSince # Never /\ pc \in Recording => notAlone <= aloneSince
    /\ reason = "empty_room" => pc \in Late /\ now - notAlone >= EmptyGrace

LEMMA AloneStep ==
    ASSUME TypeOK, Alone, [Next]_vars
    PROVE  Alone'
<1>0. now \in Nat /\ notAlone \in 0 .. now /\ aloneSince \in Nat \cup {Never} /\ Never \notin Nat
      /\ EmptyGrace \in Nat
  BY NoValueAssumption, TimesAssumption DEF TypeOK
<1> USE <1>0 DEF Alone, Early, Late, Recording
<1>1. CASE UNCHANGED vars
  BY <1>1 DEF vars, times, history
<1>2. CASE InstallHandlers \/ Refused \/ KnockAgain \/ Prejoin \/ KeepWaiting \/ Drain \/ Cleanup
           \/ LaunchFails \/ StartFails
  BY <1>2 DEF InstallHandlers, StartFails, Refused, KnockAgain, Prejoin, KeepWaiting, Drain, Cleanup,
              LaunchFails, Returns, times, history
<1>3. CASE Launch \/ Admitted
  BY <1>3 DEF Launch, Admitted, JoinHead, Returns, history
<1>4. CASE Reload \/ ClickJoin
  BY <1>4 DEF Reload, ClickJoin, history
<1>5. CASE JoinAgain \/ TryCaptions \/ CaptionsTried \/ Round
  <2>1. now' \in Nat /\ now' >= now
    BY <1>5, LaterGrows DEF JoinAgain, TryCaptions, CaptionsTried, Round
  <2>2. UNCHANGED <<aloneSince, notAlone, reason>>
    BY <1>5 DEF JoinAgain, TryCaptions, CaptionsTried, Round, times, history
  <2>3. (pc \in Early /\ pc' \in Early \cup Late) \/ (pc \in Recording /\ pc' \in Recording \cup Late)
    BY <1>5 DEF JoinAgain, TryCaptions, CaptionsTried, Round, JoinHead, RecordHead, Returns
  <2> QED
    BY <2>1, <2>2, <2>3
<1>6. CASE Look
  BY <1>6 DEF Look, times, history
<1>7. CASE Names
  <2> DEFINE next(others) == ShouldStop(MembersCount(others), aloneSince, now, EmptyGrace, startedAt,
                                        MaxDuration)
  <2>1. PICK others \in OtherNames :
           /\ aloneSince' = next(others).aloneSince
           /\ reason' = IF next(others).reason # "none" THEN next(others).reason ELSE reason
           /\ notAlone' = IF others = 0 THEN notAlone ELSE now
    BY <1>7 DEF Names
  <2>2. pc = "names" /\ now' = now /\ pc' = IF reason' = "none" THEN "sleep" ELSE "drain"
    BY <1>7 DEF Names, RecordHead
  <2>3. others # 0 => MembersCount(others) > 1
    BY <2>1, NoValueAssumption, BoundsAssumption DEF MembersCount, OtherNames, TypeOK
  <2>4. next(others).reason # "max_duration" /\ next(others).aloneSince # Never
          => others = 0 /\ notAlone <= next(others).aloneSince /\ next(others).aloneSince \in Nat
    BY <2>2, <2>3 DEF ShouldStop, AloneSince
  <2>5. next(others).reason = "empty_room"
          => next(others).aloneSince # Never /\ now - next(others).aloneSince >= EmptyGrace
    BY DEF ShouldStop
  <2> HIDE DEF next
  <2>6. reason' = "empty_room" => now - notAlone' >= EmptyGrace
    BY <2>1, <2>2, <2>4, <2>5
  <2>7. pc' = "sleep" => next(others).reason = "none"
    BY <2>1, <2>2
  <2>8. aloneSince' # Never /\ pc' \in Recording => notAlone' <= aloneSince'
    BY <2>1, <2>2, <2>4, <2>7
  <2> QED
    BY <2>2, <2>6, <2>8
<1>8. CASE Report
  BY <1>8 DEF Report, Returns, times, history
<1>9. CASE Signal
  BY <1>9 DEF Signal, Latched, times
<1>10. CASE MeetMoves \/ RoomChanges \/ TilesChange \/ \E part \in Parts : Dies(part)
  BY <1>10 DEF MeetMoves, RoomChanges, TilesChange, Dies, times, history
<1> QED
  BY <1>1, <1>2, <1>3, <1>4, <1>5, <1>6, <1>7, <1>8, <1>9, <1>10 DEF Next, Step

\* The bot leaves a call as empty only after emptyGrace of polls that read the
\* roster and found nobody in it.
THEOREM EmptyRoomsAreEmpty == Spec => []EmptyRoomJustified
<1>1. Init => Alone
  BY DEF Init, Alone, Early, Recording
<1>2. TypeOK /\ Alone /\ [Next]_vars => Alone'
  BY AloneStep
<1>3. Alone => EmptyRoomJustified
  BY DEF Alone, EmptyRoomJustified
<1> QED
  BY <1>1, <1>2, <1>3, TypeCorrect, PTL DEF Spec

-----------------------------------------------------------------------------
(***************************************************************************)
(* SignalFinalizes: from the record loop there is one way to the exit, and *)
(* only a second signal leaves it.                                         *)
(***************************************************************************)
Finalizing ==
    /\ asked => signals >= 1 /\ reason # "none"
    /\ asked /\ signals = 1 =>
         \/ pc \in Recording \cup {"drain", "stopping"}
         \/ pc \in {"closing", "exited"} /\ (code \in {4, 5} \/ line # "none")

LEMMA FinalizingStep ==
    ASSUME TypeOK, Finalizing, [Next]_vars
    PROVE  Finalizing'
<1> USE DEF Finalizing, Recording
<1>1. CASE UNCHANGED vars
  BY <1>1 DEF vars, outcome, history
<1>2. CASE InstallHandlers \/ Refused \/ KnockAgain \/ Prejoin \/ KeepWaiting \/ Drain \/ Cleanup
           \/ LaunchFails \/ StartFails
  BY <1>2 DEF InstallHandlers, StartFails, Refused, KnockAgain, Prejoin, KeepWaiting, Drain, Cleanup,
              LaunchFails, Returns, outcome, history
<1>3. CASE Launch \/ Admitted \/ JoinAgain
  BY <1>3 DEF Launch, Admitted, JoinAgain, JoinHead, Returns, history
<1>4. CASE Reload \/ ClickJoin
  BY <1>4 DEF Reload, ClickJoin, history
<1>5. CASE TryCaptions \/ CaptionsTried \/ Round \/ Look
  BY <1>5 DEF TryCaptions, CaptionsTried, Round, Look, RecordHead, outcome, history
<1>6. CASE Names
  BY <1>6 DEF Names, RecordHead, outcome
<1>7. CASE Report
  BY <1>7 DEF Report, Returns, history
<1>8. CASE Signal
  <2>1. signals' = signals + 1 /\ signals \in Nat
    BY <1>8, BoundsAssumption DEF Signal, TypeOK
  <2>2. CASE asked
    BY <1>8, <2>1, <2>2 DEF Signal, Latched
  <2>3. CASE ~asked
    <3>1. asked' => pc \in Recording /\ reason = "none"
      BY <1>8, <2>3 DEF Signal
    <3>2. pc \in Recording /\ reason = "none" => reason' = "signal" /\ pc' = pc
      BY <1>8 DEF Signal, Latched
    <3> QED
      BY <2>1, <3>1, <3>2
  <2> QED
    BY <2>2, <2>3
<1>9. CASE MeetMoves \/ RoomChanges \/ TilesChange \/ \E part \in Parts : Dies(part)
  BY <1>9 DEF MeetMoves, RoomChanges, TilesChange, Dies, outcome, history
<1> QED
  BY <1>1, <1>2, <1>3, <1>4, <1>5, <1>6, <1>7, <1>8, <1>9 DEF Next, Step

\* A single signal that reaches a recording leads to a result, unless the file is
\* empty, unusable or known to be truncated.
THEOREM SignalsFinalize == Spec => []SignalFinalizes
<1>1. Init => Finalizing
  BY DEF Init, Finalizing
<1>2. TypeOK /\ Finalizing /\ [Next]_vars => Finalizing'
  BY FinalizingStep
<1>3. Finalizing => SignalFinalizes
  BY DEF Finalizing, SignalFinalizes, Recording
<1> QED
  BY <1>1, <1>2, <1>3, TypeCorrect, PTL DEF Spec
=============================================================================
