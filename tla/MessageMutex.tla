---------------------------- MODULE MessageMutex ----------------------------
(***************************************************************************)
(* What lockIndicator (runner.go) promises its callers, and nothing of how *)
(* it does it: for every Zulip message there is one mutex, so at most one  *)
(* goroutine at a time is between taking and giving back the indicator     *)
(* lock of that message.  Locks of different messages are independent.     *)
(***************************************************************************)
EXTENDS Naturals

CONSTANTS
    Msgs,      \* the Zulip messages whose indicator is updated
    Callers,   \* the goroutines that call lockIndicator
    NoMsg,     \* "this caller is not interested in any message"
    NoCaller   \* "nobody holds the mutex of this message"

VARIABLES
    wants,     \* the message a caller is queued on or holds
    owner      \* the caller that holds the mutex of a message

absVars == <<wants, owner>>

MutexTypeOK ==
    /\ wants \in [Callers -> Msgs \cup {NoMsg}]
    /\ owner \in [Msgs -> Callers \cup {NoCaller}]

MutexInit ==
    /\ wants = [c \in Callers |-> NoMsg]
    /\ owner = [m \in Msgs |-> NoCaller]

Request(c, m) ==
    /\ wants[c] = NoMsg
    /\ wants' = [wants EXCEPT ![c] = m]
    /\ UNCHANGED owner

\* The guard is the whole promise: the mutex is granted only when it is free.
Grant(c, m) ==
    /\ wants[c] = m
    /\ owner[m] = NoCaller
    /\ owner' = [owner EXCEPT ![m] = c]
    /\ UNCHANGED wants

GiveBack(c, m) ==
    /\ owner[m] = c
    /\ owner' = [owner EXCEPT ![m] = NoCaller]
    /\ wants' = [wants EXCEPT ![c] = NoMsg]

MutexNext ==
    \E c \in Callers, m \in Msgs : Request(c, m) \/ Grant(c, m) \/ GiveBack(c, m)

MutexSpec == MutexInit /\ [][MutexNext]_absVars
=============================================================================
