---------------------------- MODULE SearchDrive -----------------------------
(* The drive loop of `pansou search` (cli/streaming.rs): one task that polls   *)
(* the interrupt, the search, the channel of search events and the running     *)
(* link checks in this order, then filters the outcome by the checks, disables *)
(* the saved Telegram channels found to be invalid and prints.  Here the       *)
(* search sends any events and returns any outcome; SearchCommand composes the *)
(* loop with the search of ResultStream.                                       *)
EXTENDS SearchOutput

CONSTANTS
    Uncheckable,    \* urls of magnet and ed2k links
    Channels,       \* the Telegram channels of the search
    Plugin,         \* a source that is no channel
    Saved,          \* channels that are enabled in channels.toml
    CheckJobs,      \* check.jobs of the configuration
    Modes,          \* values of checking: FALSE under --no-check
    MaxSent,        \* bound on the events the search sends while it runs
    MaxLast         \* bound on the events of its last poll, and on its outcome

ASSUME DriveAssumption ==
    /\ NoPwd \in Pwd /\ Uncheckable \subseteq Url
    /\ Plugin \notin Channels \cup Saved
    /\ CheckJobs \in Nat /\ Modes \subseteq BOOLEAN
    /\ MaxSent \in Nat /\ MaxLast \in Nat

VARIABLES
    checking,       \* whether there is a checker; require_ok is the same
    sent,           \* history: all events the search has sent
    completed,      \* FinishReason of the returned search, else "none"
    failedAll,      \* whether no source of the returned search succeeded
    phase,          \* "loop", then "printed" or "failed"
    interrupted,    \* Ctrl-C was seen
    checked,        \* check key -> state of its CheckResult
    scheduled,      \* check keys ever put in pending
    pending,        \* links waiting for a check slot
    checks,         \* links being checked
    invalid,        \* invalid_channels
    enabled,        \* saved channels that are enabled
    printed,        \* links written to stdout, in order
    exit,           \* exit code
    verdicts        \* history: what the checker said, <<url, password, state>>

searchVars == <<checking, events, sent, outcome, completed, failedAll>>
checkVars == <<checked, scheduled, pending, checks, verdicts>>
endingVars == <<phase, enabled, printed, exit>>
driveVars == <<searchVars, checkVars, endingVars, interrupted, invalid>>

Link == [url : Url, pwd : Pwd]
States == {"ok", "bad"}             \* bad stands for every state but ok
CheckSlots_Bug == CheckJobs
CheckSlots == IF CheckJobs = 0 THEN 1 ELSE CheckJobs
RequiresCheck(link) == link.url \notin Uncheckable

(* check_key: the password is part of the identity of a check.                *)
CheckKey_Bug(link) == <<link.url, NoPwd>>
CheckKey(link) == <<link.url, link.pwd>>

DriveInit ==
    /\ checking \in Modes
    /\ events = <<>> /\ sent = <<>> /\ outcome = <<>> /\ completed = "none"
    /\ failedAll = FALSE /\ phase = "loop" /\ interrupted = FALSE
    /\ checked = [k \in {} |-> ""] /\ scheduled = {} /\ pending = <<>> /\ checks = {}
    /\ invalid = {} /\ enabled = Saved /\ printed = <<>> /\ exit = 0
    /\ verdicts = {}

(* Top of the loop, reached by every branch of the select that does not end   *)
(* it: free check slots are filled from the front of the waiting links.       *)
Refill(waiting, running) ==
    LET free == CheckSlots - Cardinality(running)
        n == IF free < Len(waiting) THEN free ELSE Len(waiting)
    IN  /\ pending' = SubSeq(waiting, n + 1, Len(waiting))
        /\ checks' = running \cup {waiting[k] : k \in 1 .. n}

InLoop == phase = "loop"

(* Nothing is left to wait for: the loop breaks.                              *)
Drained ==
    completed # "none" /\ events = <<>> /\ checks = {} /\ pending = <<>>

(* The search is cancelled and the links not checked yet are given up.        *)
GivenUp_Bug == pending
GivenUp == <<>>

Interrupt ==
    /\ InLoop /\ ~Drained /\ ~interrupted
    /\ interrupted' = TRUE
    /\ checks' = {} /\ pending' = GivenUp
    /\ UNCHANGED <<searchVars, endingVars, checked, scheduled, verdicts, invalid>>

(* A poll of the search that does not end it; once cancelled its next poll    *)
(* does.  What the search does in a poll is left to the next two definitions. *)
SearchPolled ==
    /\ InLoop /\ completed = "none" /\ ~interrupted
    /\ UNCHANGED <<checking, checkVars, endingVars, completed, failedAll, interrupted, invalid>>

SearchReturns(why) ==
    /\ InLoop /\ completed = "none"
    /\ why \in {"completed", "deadline", "interrupted"}
    /\ (why = "interrupted") => interrupted
    /\ interrupted => why # "completed"
    /\ completed' = why
    /\ UNCHANGED <<checking, checkVars, endingVars, interrupted, invalid>>

(* An event for a link is a Result for the first version of its url.  Of the  *)
(* others only the errors of kind invalid_source say anything to the loop.    *)
EventsFor(history) ==
    {[kind |-> IF \E k \in DOMAIN history :
                     history[k].kind # "error" /\ history[k].link.url = l.url
               THEN "update" ELSE "result", link |-> l] : l \in Link}
      \cup {[kind |-> "error", source |-> c] : c \in Channels \cup {Plugin}}

SearchProgresses ==
    /\ SearchPolled
    /\ Len(sent) < MaxSent
    /\ \E event \in EventsFor(sent) :
          events' = Append(events, event) /\ sent' = Append(sent, event)
    /\ UNCHANGED outcome

SearchCompletes ==
    \E why \in {"completed", "deadline", "interrupted"} :
        /\ SearchReturns(why)
        /\ \E last \in SeqOf(EventsFor(sent), MaxLast) :
              events' = events \o last /\ sent' = sent \o last
        /\ outcome' \in SeqOf(Link, MaxLast)
        /\ failedAll' \in BOOLEAN

(* An event is received.  The search is polled before the channel, so after   *)
(* an interrupt it has returned before the next event is looked at.  The      *)
(* links of events received after an interrupt are not checked.               *)
WantsCheck_Bug(event) ==        \* links of ResultUpdate events are not looked at
    event.kind = "result" /\ checking /\ RequiresCheck(event.link)
WantsCheck(event) ==
    event.kind # "error" /\ checking /\ RequiresCheck(event.link)

Schedulable_Bug(link) == CheckKey(link) \notin DOMAIN checked
Schedulable(link) == CheckKey(link) \notin DOMAIN checked \cup scheduled

IsInvalidChannel(event) == event.kind = "error" /\ event.source \in Channels

Learned_Bug(event) ==           \* after an interrupt every event is ignored
    IF IsInvalidChannel(event) /\ ~interrupted THEN invalid \cup {event.source} ELSE invalid
Learned(event) ==
    IF IsInvalidChannel(event) THEN invalid \cup {event.source} ELSE invalid

ReceiveEvent ==
    /\ InLoop /\ events # <<>>
    /\ interrupted => completed # "none"
    /\ events' = Tail(events)
    /\ invalid' = Learned(Head(events))
    /\ IF WantsCheck(Head(events)) /\ ~interrupted /\ Schedulable(Head(events).link)
         THEN /\ scheduled' = scheduled \cup {CheckKey(Head(events).link)}
              /\ Refill(Append(pending, Head(events).link), checks)
         ELSE UNCHANGED <<scheduled, pending, checks>>
    /\ UNCHANGED <<checking, sent, outcome, completed, failedAll, endingVars, interrupted,
                   checked, verdicts>>

(* A check finishes.  It is polled last, yet it may be taken while events wait *)
(* when the task has used up the budget the runtime gives its channels.        *)
Noted(key, state) ==
    [k \in DOMAIN checked \cup {key} |-> IF k = key THEN state ELSE checked[k]]

CheckFinishes ==
    /\ InLoop
    /\ \E link \in checks, state \in States :
          /\ checked' = Noted(CheckKey(link), state)
          /\ verdicts' = verdicts \cup {<<link.url, link.pwd, state>>}
          /\ Refill(pending, checks \ {link})
    /\ UNCHANGED <<searchVars, scheduled, endingVars, interrupted, invalid>>

(* What is kept of the outcome.                                               *)
Survives(link) ==
    IF CheckKey(link) \in DOMAIN checked
      THEN checked[CheckKey(link)] = "ok" \/ ~checking
      ELSE ~checking \/ ~RequiresCheck(link)

Filtered(links) ==
    LET kept[n \in 0 .. Len(links)] ==
          IF n = 0 THEN <<>>
          ELSE IF Survives(links[n]) THEN Append(kept[n - 1], links[n]) ELSE kept[n - 1]
    IN  kept[Len(links)]

DriveExit ==
    CASE interrupted \/ completed = "interrupted" -> 130
      [] ~interrupted /\ completed = "deadline" -> 124
      [] ~interrupted /\ completed = "completed" /\ failedAll -> 3
      [] OTHER -> 0

(* The end: disable_existing, and only when it succeeds the answer is printed.*)
WriteAnswer ==
    /\ InLoop /\ Drained
    /\ enabled' = enabled \ invalid
    /\ printed' = Filtered(outcome)
    /\ exit' = DriveExit
    /\ phase' = "printed"
    /\ UNCHANGED <<searchVars, checkVars, interrupted, invalid>>

DisableFails ==
    /\ InLoop /\ Drained /\ invalid # {}
    /\ phase' = "failed" /\ exit' = 1
    /\ UNCHANGED <<searchVars, checkVars, interrupted, invalid, enabled, printed>>

(* The handler of Ctrl-C cannot be installed, or stdout cannot be written.    *)
SignalFails ==
    /\ InLoop /\ ~Drained /\ ~interrupted
    /\ phase' = "failed" /\ exit' = 1
    /\ UNCHANGED <<searchVars, checkVars, interrupted, invalid, enabled, printed>>

WriteFails ==
    /\ InLoop /\ Drained
    /\ enabled' = enabled \ invalid
    /\ phase' = "failed" /\ exit' = 1
    /\ UNCHANGED <<searchVars, checkVars, interrupted, invalid, printed>>

DriveEnded == phase # "loop" /\ UNCHANGED driveVars

DriveStep == ReceiveEvent \/ WriteAnswer \/ DisableFails \/ WriteFails

DriveNext ==
    \/ DriveStep \/ CheckFinishes \/ SearchCompletes \/ SearchProgresses
    \/ Interrupt \/ SignalFails \/ DriveEnded

DriveSpec == DriveInit /\ [][DriveNext]_driveVars

(* The task is scheduled, the search ends (RunEnds of SearchEngine) and every *)
(* check ends, by the timeout of its requests.  Nobody needs to interrupt.    *)
DriveFairSpec ==
    DriveSpec /\ WF_driveVars(DriveStep \/ CheckFinishes \/ SearchCompletes)

-----------------------------------------------------------------------------
PendingKeys == {CheckKey(pending[k]) : k \in DOMAIN pending}
RunningKeys == {CheckKey(l) : l \in checks}

(* tokio::select! panics when every branch is disabled, and the loop hangs    *)
(* when only the interrupt is left: while the loop runs something can happen. *)
SelectHasBranch ==
    (InLoop /\ ~Drained) => completed = "none" \/ events # <<>> \/ checks # {}

(* No more than check.jobs links are checked at once, and until an interrupt  *)
(* every link scheduled for a check is in exactly one place: waiting, running *)
(* or checked (streaming.rs:180).                                             *)
ChecksAccounted ==
    /\ Cardinality(checks) <= CheckSlots
    /\ pending # <<>> => Cardinality(checks) = CheckSlots
    /\ ~interrupted =>
          /\ Cardinality(PendingKeys) = Len(pending)
          /\ Cardinality(RunningKeys) = Cardinality(checks)
          /\ Len(pending) + Cardinality(checks) + Cardinality(DOMAIN checked)
                = Cardinality(scheduled)
          /\ PendingKeys \cup RunningKeys \cup DOMAIN checked = scheduled

(* Unless it was interrupted, a search prints only after each link has been   *)
(* checked as it was announced, with every password announced for it.         *)
SentLinks == {sent[k].link : k \in {j \in DOMAIN sent : sent[j].kind # "error"}}
SentErrors == {sent[k].source : k \in {j \in DOMAIN sent : sent[j].kind = "error"}}

AnnouncedAreChecked ==
    (phase = "printed" /\ ~interrupted /\ checking) =>
        \A link \in SentLinks :
            RequiresCheck(link) =>
                \E state \in States : <<link.url, link.pwd, state>> \in verdicts

(* A printed link that can be checked was found valid under the very password *)
(* it is printed with, not under an older one of the same url.                *)
OnlyValidPrinted ==
    (phase = "printed" /\ checking) =>
        \A k \in DOMAIN printed :
            LET l == printed[k]
            IN  RequiresCheck(l) => <<l.url, l.pwd, "ok">> \in verdicts

(* When the answer is printed every saved channel that the search found       *)
(* invalid is disabled, even one whose error was still in the channel when    *)
(* the search was interrupted, and no other channel is.                       *)
InvalidAreDisabled ==
    phase = "printed" => enabled = Saved \ SentErrors

(* The command ends, however many links there are to check.                   *)
DriveEnds == <>(phase # "loop")
=============================================================================
