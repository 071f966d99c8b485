---------------------------- MODULE SearchEngine ----------------------------
(* One run of the search engine: providers and Telegram channels share a     *)
(* bounded pool of source slots, each source has a budget that starts at its  *)
(* first poll, the run has an overall deadline, and the run can be stopped by *)
(* a cancellation or by its consumer going away.  The rows a source finds are *)
(* abstracted to the set of links they carry; merging and ranking them is the *)
(* subject of LinkMerge.                                                      *)
EXTENDS Integers, Sequences, FiniteSets

CONSTANTS
    NumProviders,   \* selected providers: sources 1 .. NumProviders
    NumChannels,    \* selected Telegram channels: the sources after them
    Jobs,           \* --jobs
    Timeout,        \* --timeout, in ticks
    AllTimeout,     \* --all-timeout, in ticks
    MaxTime,        \* bound on the modelled clock
    Links,          \* links the sources can find
    Kept,           \* links that pass the filters of this search
    Retaining,      \* providers that leave a clone of their context behind
    Streaming       \* TRUE: events go to a receiver that may be dropped

ASSUME SourceAssumption == NumProviders \in Nat /\ NumChannels \in Nat
ASSUME TimeAssumption ==
    /\ Timeout \in Nat \ {0}
    /\ AllTimeout \in Nat \ {0}
    /\ MaxTime \in Nat
    /\ Jobs \in Nat
ASSUME DataAssumption ==
    /\ Kept \subseteq Links
    /\ Retaining \subseteq 1 .. NumProviders
    /\ Streaming \in BOOLEAN

VARIABLES
    pc,             \* where the loop of SearchEngine::run stands
    cur,            \* the source being polled, or just polled
    finished,       \* what tasks.next() returned for cur
    queue,          \* sources that have no slot yet
    tasks,          \* sources in FuturesUnordered
    started,        \* sources polled at least once
    deadline,       \* of each started source
    collector,      \* rows of each provider's SourceCollector
    sealed,         \* collectors that accept no more rows
    registered,     \* keys of the collectors map
    batches,        \* accepted batch of each accepted source
    sourcesStarted, successfulSources,      \* the counters of the run
    errors,         \* sources in the errors vector
    emitted,        \* links announced by Result events
    reason,         \* FinishReason
    summary,        \* SearchSummary, once there is one
    now, cancel, closed,                    \* clock, cancellation, receiver
    onTime          \* history: links handed over before their source's deadline

poolVars == <<queue, tasks, started, deadline>>
rowVars == <<collector, sealed, registered, batches, emitted>>
countVars == <<sourcesStarted, successfulSources, errors>>
envVars == <<now, cancel, closed>>
endVars == <<reason, summary>>
vars == <<pc, cur, finished, poolVars, rowVars, countVars, endVars, envVars, onTime>>

Provider == 1 .. NumProviders
Source == 1 .. (NumProviders + NumChannels)
Selected == NumProviders + NumChannels
Slots == IF Jobs = 0 THEN 1 ELSE Jobs
Earlier(a, b) == IF a < b THEN a ELSE b
Nothing == [ok |-> FALSE, rows |-> {}]
NoSummary == [completed |-> 0, failed |-> 0, cancelled |-> 0, notStarted |-> 0,
              partial |-> FALSE, links |-> 0, exit |-> 0]

Stopped == cancel \/ closed
Overdue == now >= AllTimeout
Late(i) == now >= deadline[i]

Init ==
    /\ pc = "top" /\ cur = 0 /\ finished = Nothing
    /\ queue = [i \in Source |-> i]
    /\ tasks = {} /\ started = {} /\ deadline = [i \in Source |-> 0]
    /\ collector = [i \in Source |-> {}]
    /\ sealed = {} /\ registered = {} /\ batches = [i \in {} |-> {}]
    /\ sourcesStarted = 0 /\ successfulSources = 0 /\ errors = {}
    /\ emitted = {} /\ reason = "completed" /\ summary = NoSummary
    /\ now = 0 /\ cancel = FALSE /\ closed = FALSE
    /\ onTime = {}

(* Definitions named _Bug are plausible mistakes in the definition that        *)
(* follows them; nothing uses them but the mutation runs.                     *)

(* SearchContext::publish: one critical section under the collector's lock.   *)
CanPublish_Bug(i) == ~Late(i)       \* the seal is not looked at
CanPublish(i) == i \notin sealed /\ ~Late(i)

Publish(i, rows) ==
    /\ CanPublish(i)
    /\ collector' = [collector EXCEPT ![i] = @ \cup rows]
    /\ onTime' = IF Late(i) THEN onTime ELSE onTime \cup rows
    /\ UNCHANGED <<pc, cur, finished, poolVars, sealed, registered, batches,
                   emitted, countVars, endVars, envVars>>

(* SearchContext::finish: extends an open collector, then seals it; a sealed  *)
(* one only returns its rows.                                                 *)
Finish(i, rows) == collector[i] \cup (IF i \in sealed THEN {} ELSE rows)

(* apply_query_filter and filter_results: what reaches batches from a batch.  *)
Filtered(rows) == rows \cap Kept

Break(why) ==
    /\ reason' = why
    /\ pc' = "ending"
    /\ UNCHANGED <<cur, finished, poolVars, rowVars, countVars, summary, envVars, onTime>>

(* Top of the loop: stop, or fill the free slots in queue order, or end.      *)
StopAtTop == pc = "top" /\ Stopped /\ Break("interrupted")

Filled == LET n == Earlier(Slots - Cardinality(tasks), Len(queue))
          IN  IF n < 0 THEN 0 ELSE n

Unfilled_Bug == queue       \* front instead of pop_front
Unfilled == SubSeq(queue, Filled + 1, Len(queue))

Fill ==
    /\ pc = "top" /\ ~Stopped
    /\ tasks \cup {queue[k] : k \in 1 .. Filled} # {}
    /\ tasks' = tasks \cup {queue[k] : k \in 1 .. Filled}
    /\ queue' = Unfilled
    /\ pc' = "select"
    /\ UNCHANGED <<cur, finished, started, deadline, rowVars, countVars, endVars,
                   envVars, onTime>>

AllFinished ==
    /\ pc = "top" /\ ~Stopped
    /\ tasks = {} /\ queue = <<>>
    /\ Break(reason)

(* The biased select: the overall deadline, then cancellation or a dropped    *)
(* receiver, then a source that is ready to be polled.                        *)
DeadlineFires_Bug ==        \* not looked at while sources wait for a slot
    /\ pc = "select" /\ Overdue
    /\ queue = <<>> \/ Stopped
    /\ Break("deadline")
DeadlineFires == pc = "select" /\ Overdue /\ Break("deadline")

StopFires_Bug ==            \* no branch for the cancellation
    pc = "select" /\ ~Overdue /\ closed /\ Break("interrupted")
StopFires == pc = "select" /\ ~Overdue /\ Stopped /\ Break("interrupted")

(* The first poll counts the source, starts its budget and registers the      *)
(* collector of a provider.  The timer of the overall deadline is driven by   *)
(* the runtime and may fire late, so a source may still be polled then.       *)
Budget_Bug == now + Timeout             \* not capped by the overall deadline
Budget == Earlier(now + Timeout, AllTimeout)

FirstPoll_Bug(i) == i \in tasks         \* every poll counts as the first
FirstPoll(i) == i \notin started

Poll(i) ==
    /\ pc = "select" /\ ~Stopped
    /\ i \in tasks
    /\ pc' = "poll" /\ cur' = i
    /\ IF FirstPoll(i)
         THEN /\ started' = started \cup {i}
              /\ sourcesStarted' = sourcesStarted + 1
              /\ deadline' = [deadline EXCEPT ![i] = Budget]
              /\ registered' = registered \cup ({i} \cap Provider)
         ELSE UNCHANGED <<started, sourcesStarted, deadline, registered>>
    /\ UNCHANGED <<finished, queue, tasks, collector, sealed, batches, emitted,
                   successfulSources, errors, endVars, envVars, onTime>>

(* Inside a poll a provider publishes the rows it has parsed.                 *)
PublishInPoll == pc = "poll" /\ cur \in Provider /\ \E l \in Links : Publish(cur, {l})

(* A clone of the context that outlives its future publishes at any time.     *)
PublishRetained == \E i \in Retaining \cap started, l \in Links : Publish(i, {l})

PollPending ==
    /\ pc = "poll"
    /\ pc' = "select"
    /\ UNCHANGED <<cur, finished, poolVars, rowVars, countVars, endVars, envVars, onTime>>

PollReturns(result) ==
    /\ finished' = result
    /\ tasks' = tasks \ {cur}
    /\ pc' = "recheck"
    /\ UNCHANGED <<cur, queue, started, deadline, rowVars, countVars, endVars, envVars>>

(* reject_late_source_result: a batch computed by a poll that ran past the    *)
(* deadline of its source counts as a timeout.                                *)
RejectLate_Bug(i, result) == result     \* trusts timeout_at alone
RejectLate(i, result) == IF Late(i) THEN Nothing ELSE result

PollOk ==
    /\ pc = "poll"
    /\ \E rows \in SUBSET Links :
          /\ PollReturns(RejectLate(cur, [ok |-> TRUE, rows |-> rows]))
          /\ onTime' = IF Late(cur) THEN onTime ELSE onTime \cup rows

(* An error, a panic caught by catch_unwind, or the timer of timeout_at.      *)
PollErr == pc = "poll" /\ PollReturns(Nothing) /\ UNCHANGED onTime

(* After the await the run-wide conditions are read again.                    *)
StopAtRecheck == pc = "recheck" /\ Stopped /\ Break("interrupted")

DeadlineAtRecheck == pc = "recheck" /\ ~Stopped /\ Overdue /\ Break("deadline")

BatchOf_Bug(i) ==           \* an error discards what was published before it
    IF finished.ok THEN Filtered(Finish(i, finished.rows)) ELSE {}
BatchOf(i) ==
    Filtered(IF i \in registered THEN Finish(i, finished.rows) ELSE finished.rows)

Accept ==
    /\ pc = "recheck" /\ ~Stopped /\ ~Overdue
    /\ IF finished.ok
         THEN successfulSources' = successfulSources + 1 /\ UNCHANGED errors
         ELSE errors' = errors \cup {cur} /\ UNCHANGED successfulSources
    /\ batches' = [i \in DOMAIN batches \cup {cur} |->
                      IF i = cur THEN BatchOf(cur) ELSE batches[i]]
    /\ IF cur \in registered
         THEN /\ collector' = [collector EXCEPT ![cur] = Finish(cur, finished.rows)]
              /\ sealed' = sealed \cup {cur}
         ELSE UNCHANGED <<collector, sealed>>
    /\ registered' = registered \ {cur}
    /\ emitted' = emitted \cup BatchOf(cur)
    /\ pc' = "top"
    /\ UNCHANGED <<cur, finished, poolVars, sourcesStarted, endVars, envVars, onTime>>

(* SearchSummary::exit_code. *)
ExitCode(why, completed) ==
    CASE why = "deadline" -> 124
      [] why = "interrupted" -> 130
      [] why = "completed" /\ completed = 0 -> 3
      [] OTHER -> 0

(* After the loop: the counts are taken, every collector still registered is  *)
(* sealed and its rows kept, the futures are dropped, the summary is sent.    *)
Snapshots_Bug(i) ==         \* running sources are dropped with their rows
    IF i \in registered THEN {} ELSE batches[i]
Snapshots(i) == IF i \in registered THEN Filtered(Finish(i, {})) ELSE batches[i]

Finalise ==
    /\ pc = "ending"
    /\ batches' = [i \in DOMAIN batches \cup registered |-> Snapshots(i)]
    /\ sealed' = sealed \cup registered
    /\ registered' = {}
    /\ tasks' = {} /\ queue' = <<>>
    /\ emitted' = emitted \cup UNION {Snapshots(i) : i \in DOMAIN batches \cup registered}
    /\ summary' = [completed  |-> successfulSources,
                   failed     |-> Cardinality(errors),
                   cancelled  |-> sourcesStarted - successfulSources - Cardinality(errors),
                   notStarted |-> Selected - sourcesStarted,
                   partial    |-> successfulSources < Selected,
                   links      |-> Cardinality(emitted'),
                   exit       |-> ExitCode(reason, successfulSources)]
    /\ pc' = "done"
    /\ UNCHANGED <<cur, finished, started, deadline, collector, countVars, reason,
                   envVars, onTime>>

(* The environment: the clock, Ctrl-C and the consumer dropping its receiver. *)
Tick ==
    /\ now < MaxTime
    /\ now' = now + 1
    /\ UNCHANGED <<pc, cur, finished, poolVars, rowVars, countVars, endVars,
                   cancel, closed, onTime>>

Cancel ==
    /\ ~cancel
    /\ cancel' = TRUE
    /\ UNCHANGED <<pc, cur, finished, poolVars, rowVars, countVars, endVars,
                   now, closed, onTime>>

CloseReceiver ==
    /\ Streaming /\ ~closed
    /\ closed' = TRUE
    /\ UNCHANGED <<pc, cur, finished, poolVars, rowVars, countVars, endVars,
                   now, cancel, onTime>>

Ended == pc = "done" /\ UNCHANGED vars

PollEnds == PollPending \/ PollOk \/ PollErr
EngineStep ==
    \/ StopAtTop \/ Fill \/ AllFinished
    \/ DeadlineFires \/ StopFires
    \/ StopAtRecheck \/ DeadlineAtRecheck \/ Accept \/ Finalise

Next ==
    \/ EngineStep
    \/ \E i \in Source : Poll(i)
    \/ PublishInPoll \/ PublishRetained \/ PollEnds
    \/ Tick \/ Cancel \/ CloseReceiver \/ Ended

Spec == Init /\ [][Next]_vars

-----------------------------------------------------------------------------
(* Fairness: the task of the run is scheduled, every poll of a source returns *)
(* (the runtime cannot preempt one), and the elapsed timer of the overall     *)
(* deadline, first branch of the biased select, is eventually seen there even *)
(* though sources that keep waking the task disable it in between.            *)
Fairness == WF_vars(EngineStep) /\ SF_vars(DeadlineFires) /\ WF_vars(PollEnds)

FairSpec == Spec /\ Fairness

-----------------------------------------------------------------------------
Loop == {"top", "select", "poll", "recheck"}
Before(pcs) == pc \in pcs
Accepted == DOMAIN batches

(* Every variable keeps its type.                                             *)
TypeOK ==
    /\ pc \in Loop \cup {"ending", "done"}
    /\ cur \in Source \cup {0}
    /\ finished \in [ok : BOOLEAN, rows : SUBSET Links]
    /\ queue \in Seq(Source) /\ tasks \subseteq Source /\ started \subseteq Source
    /\ deadline \in [Source -> 0 .. AllTimeout]
    /\ collector \in [Source -> SUBSET Links]
    /\ sealed \subseteq Source /\ registered \subseteq Source
    /\ Accepted \subseteq Source /\ batches \in [Accepted -> SUBSET Links]
    /\ sourcesStarted \in Nat /\ successfulSources \in Nat /\ errors \subseteq Source
    /\ emitted \subseteq Links /\ onTime \subseteq Links
    /\ reason \in {"completed", "deadline", "interrupted"}
    /\ now \in Nat /\ cancel \in BOOLEAN /\ closed \in BOOLEAN

(* While the loop runs every selected source is in exactly one place: waiting *)
(* in the queue, holding a slot, just returned, or accepted (engine.rs:268).  *)
EverySourceOnce ==
    pc \in Loop \cup {"ending"} =>
        \A i \in Source :
            Cardinality({k \in 1 .. Len(queue) : queue[k] = i})
              + (IF i \in tasks THEN 1 ELSE 0)
              + (IF i \in Accepted THEN 1 ELSE 0)
              + (IF i = cur /\ i \in started \ (tasks \cup Accepted) THEN 1 ELSE 0) = 1

(* The counters the summary subtracts (engine.rs:394) never underflow and     *)
(* count what they say: sources polled, sources whose outcome was accepted,   *)
(* and at the end the sources cut off and the sources never asked.            *)
Accounting ==
    /\ sourcesStarted = Cardinality(started)
    /\ Before(Loop \cup {"ending"}) =>
          /\ Accepted \subseteq started
          /\ successfulSources + Cardinality(errors) = Cardinality(Accepted)
    /\ pc = "done" =>
          /\ summary.cancelled >= 0
          /\ summary.notStarted = Cardinality(Source \ started)

Offered == (UNION {collector[i] : i \in Source}) \cup (UNION {batches[i] : i \in Accepted})

(* However the run ends (deadline, interruption, error or panic of the source *)
(* itself) every row a source published in time and that passes the filters   *)
(* has been delivered, and nothing that was not handed over has.              *)
NothingLost == pc = "done" => emitted = Offered \cap Kept

(* A link is delivered only if some source handed it over before that         *)
(* source's own deadline, also when a synchronous poll ran past it.           *)
OnTimeOnly == emitted \subseteq onTime

(* Once the run has ended no retained clone of a context, late timer or       *)
(* cancellation changes what it collected, delivered or reported.             *)
AnswerFrozen ==
    [][pc = "done" => UNCHANGED <<pc, collector, emitted, batches, summary, reason>>]_vars

(* The run implements the promise of SearchRun.                               *)
Run == INSTANCE SearchRun WITH
          offered <- Offered,
          delivered <- emitted,
          outcome <- IF pc = "done" THEN reason ELSE "running"
ImplementsRun == Run!RunSpec

(* Once the time of the run is up it ends, whatever its sources do; nothing   *)
(* else is needed of the clock.                                               *)
RunEnds == Overdue ~> pc = "done"

(* A cancellation or a dropped receiver ends the run even if time stood still *)
(* and no source ever answered.                                               *)
StopEnds == Stopped ~> pc = "done"
=============================================================================
