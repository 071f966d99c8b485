--------------------------- MODULE ProviderSearch ---------------------------
(* One provider's search, whatever its plan: the tasks of a stage start in     *)
(* order, at most width of them in hand; a task sends its request once a slot  *)
(* of the command's outbound semaphore is free and holds it until the body is  *)
(* read or given up; a fault is tried again, kept, passed over or ends the     *)
(* search, as the plan says; rows reach the search as the plan hands them on.  *)
(* The engine drops the search some time after its deadline has passed.        *)
EXTENDS ProviderPlan, SequencesExt, FiniteSets

CONSTANTS
    Plans,          \* the plans of the providers
    Limits,         \* numbers of requests the command may have under way
    MaxPages,       \* pages a site has
    MaxEntries,     \* entries on a page
    MaxJobs,        \* entries that are followed, of those that wait
    MaxTries        \* attempts at a request, of those it has

ASSUME SizesAssumption ==
    Limits \cup {MaxPages, MaxEntries, MaxJobs, MaxTries} \subseteq Nat \ {0}

(* A stage that goes over to another has one after it; rows are published in   *)
(* time or are the answer; a page that is passed over in silence is made up    *)
(* for.                                                                        *)
ASSUME PlansAssumption ==
    \A p \in Plans :
        /\ p \in Seq(Stages) \ {<<>>}
        /\ \A s \in DOMAIN p :
             /\ p[s].nested => p[s].fan # "else"
             /\ p[s].fail = "next" => s < Len(p)
             /\ "rows" \in p[s].gives => Prompt(p, s) \/ Conclusive(p, s)
             /\ p[s].fail = "on" /\ p[s].gives # {} => MadeUp(p, s)

VARIABLES
    plan,           \* the plan of this provider
    permits,        \* slots of the command's outbound semaphore
    from,           \* the stage its tasks belong to (nested ones follow)
    tasks,          \* what the search has in hand, by place
    carry,          \* entries that wait for a stage that asks for each
    rows,           \* rows read in time that are not published yet
    failed,         \* the stage an error is remembered of for the end, or 0
    missed,         \* the last stage a page of hits was not had of, or 0
    over,           \* the deadline of the source has passed
    outcome         \* "running", "ok", "err", or "cut" by the engine

vars == <<plan, permits, from, tasks, carry, rows, failed, missed, over, outcome>>

(* A page is a sequence of entries, each whole or lacking one thing.           *)
Entries == {{}} \cup {{f} : f \in Features}
SitePages == UNION {[1..n -> Entries] : n \in 0..MaxEntries}
Kept(stage, page) == {k \in DOMAIN page : page[k] \cap stage.needs = {}}

New(stage) == [st |-> "new", left |-> Min({stage.tries, MaxTries}), items |-> 0]
StageNo(id) == from + Len(id) - 1
StageOf(id) == plan[StageNo(id)]
Group(id) == {j \in DOMAIN tasks : Len(j) = Len(id) /\ Front(j) = Front(id)}
Earlier(id) == {j \in Group(id) : Last(j) < Last(id)}
Settled(id, ts) ==
    \A j \in DOMAIN ts : IsPrefix(id, j) => ts[j].st \in {"done", "held"}

(* Tasks begin in order; an ordered stream also counts those that wait to be   *)
(* taken behind a slower one.                                                  *)
Waits(id) == StageOf(id).ordered /\ \E j \in Earlier(id) : ~Settled(j, tasks)
InHand(id) ==
    {j \in Group(id) : tasks[j].st # "new" /\ (~Settled(j, tasks) \/ Waits(j))}
MayBegin(id) ==
    /\ tasks[id].st = "new"
    /\ \A j \in Earlier(id) : tasks[j].st # "new"
    /\ Cardinality(InHand(id)) < StageOf(id).width
Ready(id) == tasks[id].st = "pause" \/ MayBegin(id)
UnderWay_Bug == {id \in DOMAIN tasks : tasks[id].st \in {"open", "held", "pause"}}
UnderWay == {id \in DOMAIN tasks : tasks[id].st \in {"open", "held"}}

Init ==
    /\ plan \in Plans /\ permits \in Limits
    /\ from = 1 /\ carry = 0
    /\ \E n \in 1..MaxPages :
         /\ plan[1].fan = "one" => n = 1
         /\ tasks = [id \in {<<k>> : k \in 1..n} |-> New(plan[1])]
    /\ rows = {}
    /\ failed = 0 /\ missed = 0 /\ over = FALSE
    /\ outcome = "running"

(* What went wrong at stage s counts, unless another way was gone since.       *)
Counts(s) == s # 0 /\ \A e \in (s + 1)..from : plan[e].fan # "else"

(* A stage with nothing to ask for whatever waits: a nested one has only what  *)
(* its entries began.                                                          *)
Skipped(s) ==
    \/ plan[s].nested
    \/ plan[s].instead /\ ~plan[from].instead
    \/ plan[s].well /\ Counts(failed')

(* How many tasks stage s may have when n entries wait.                        *)
Asked(s, n) ==
    IF Skipped(s) THEN {0} ELSE
    CASE plan[s].fan = "one" -> {1}
      [] plan[s].fan = "maybe" -> IF n = 0 THEN {0, 1} ELSE {0}
      [] plan[s].fan = "pages" -> 1..MaxPages
      [] plan[s].fan = "rest" -> 0..MaxPages
      [] plan[s].fan = "else" -> IF n = 0 THEN 1..MaxPages ELSE {0}
      [] plan[s].fan = "each" -> {Min({n, MaxJobs})}

Return(ok) ==
    /\ outcome' = IF ok THEN "ok" ELSE "err"
    /\ tasks' = <<>> /\ carry' = 0
    /\ UNCHANGED from

Begin(s, m, n) ==
    /\ from' = s
    /\ tasks' = [id \in {<<k>> : k \in 1..m} |-> New(plan[s])]
    /\ carry' = IF plan[s].fan = "each" THEN 0 ELSE n
    /\ UNCHANGED outcome

(* n entries wait at stage s: on with the first stage from there that has      *)
(* something to ask for; past the last one the search returns.                 *)
Enter(s, n) ==
    \E t \in s..(Len(plan) + 1) :
        /\ \A r \in s..(t - 1) : 0 \in Asked(r, n)
        /\ IF t > Len(plan) THEN Return(~Counts(failed'))
           ELSE \E m \in Asked(t, n) \ {0} : Begin(t, m, n)

Deepest(ts) == Max({Len(id) : id \in DOMAIN ts})
Given(ts) ==
    Cardinality(UNION {{id} \X (1..ts[id].items) :
                         id \in {id \in DOMAIN ts : Len(id) = Deepest(ts)}})

GoOn(ts) ==
    IF \A id \in DOMAIN ts : Settled(id, ts)
    THEN Enter(from + Deepest(ts), carry + Given(ts))
    ELSE tasks' = ts /\ UNCHANGED <<from, carry, outcome>>

(* A row is published by its job, or when the stream reaches its job.          *)
Yielded(id, ts) ==
    /\ Settled(id, ts)
    /\ StageOf(id).ordered => \A j \in Earlier(id) : Settled(j, ts)
Published_Bug(r, ts) ==
    plan[r[1]].live # "end" /\ r[1] = from /\ Yielded(r[2], ts)
Published(r, ts) ==
    \/ plan[r[1]].live = "job"
    \/ plan[r[1]].live = "yield" /\ r[1] = from /\ Yielded(r[2], ts)
Publish(found, ts) ==
    rows' = IF over THEN rows ELSE {r \in rows \cup found : ~Published(r, ts)}

-----------------------------------------------------------------------------
(* The task fails for good: it leaves a race that others still run, or the     *)
(* stage goes over to the next one, or the page is missed.                     *)
Leave(id) ==
    /\ UNCHANGED <<plan, permits, rows, failed, missed, over>>
    /\ GoOn(Restrict(tasks, DOMAIN tasks \ {id}))

GoOver(id) ==
    /\ Begin(from + 1, 1, carry)
    /\ UNCHANGED <<plan, permits, rows, failed, missed, over>>

Remembers_Bug(stage) == stage.fail = "abort"
Remembers(stage) == stage.fail # "on"

Miss(id) ==
    LET settled == [tasks EXCEPT ![id] = [@ EXCEPT !.st = "done", !.left = 1]]
        ts == IF StageOf(id).fail = "stop"
              THEN Restrict(settled, {j \in DOMAIN tasks : settled[j].st # "new"})
              ELSE settled
    IN /\ missed' = IF StageOf(id).gives # {} THEN StageNo(id) ELSE missed
       /\ failed' = IF Remembers(StageOf(id)) THEN StageNo(id) ELSE failed
       /\ IF StageOf(id).fail = "abort"
          THEN rows' = rows /\ Return(FALSE)
          ELSE Publish({}, ts) /\ GoOn(ts)
       /\ UNCHANGED <<plan, permits, over>>

Fail(id) ==
    IF StageOf(id).race /\ Group(id) # {id} THEN Leave(id)
    ELSE IF StageOf(id).fail = "next" THEN GoOver(id)
    ELSE Miss(id)

Running == outcome = "running"

Send(id) ==
    /\ Running /\ Ready(id)
    /\ ~("before" \in StageOf(id).asks /\ over)
    /\ Cardinality(UnderWay) < permits
    /\ tasks' = [tasks EXCEPT ![id].st = "open"]
    /\ UNCHANGED <<plan, permits, from, carry, rows, failed, missed, over, outcome>>

TooLate(id) ==
    /\ Running /\ Ready(id)
    /\ "before" \in StageOf(id).asks /\ over
    /\ Fail(id)

(* What was read after the deadline is refused.                                *)
Late(id) == over /\ "after" \in StageOf(id).asks

Retried(id, fault) == fault \in StageOf(id).again /\ tasks[id].left > 1

TryAgain(id) ==
    /\ Running /\ tasks[id].st = "open" /\ tasks[id].items = 0
    /\ \E fault \in Faults : Retried(id, fault)
    /\ tasks' = [tasks EXCEPT ![id] = [@ EXCEPT !.st = "pause", !.left = tasks[id].left - 1]]
    /\ UNCHANGED <<plan, permits, from, carry, rows, failed, missed, over, outcome>>

GiveUp(id) ==
    /\ Running /\ tasks[id].st = "open"
    /\ \E fault \in Faults :
         /\ fault = "odd" => StageOf(id).strict
         /\ fault # "empty"
         /\ fault = "time" => StageOf(id).limited \/ Late(id)
         /\ ~Retried(id, fault)
    /\ Fail(id)

(* The tasks ids of the nested stage s are in hand, too.                       *)
Joined(ts, ids, s) ==
    [id \in DOMAIN ts \cup ids |-> IF id \in DOMAIN ts THEN ts[id] ELSE New(plan[s])]

(* What the task has after its page: what it kept of it, as rows or as items.  *)
Has(id, n) ==
    LET stage == StageOf(id)
        s == StageNo(id)
        found == IF "rows" \in stage.gives THEN {<<s, id, k>> : k \in 1..n} ELSE {}
        items == IF "items" \in stage.gives THEN n ELSE 0
        done == [st |-> "done", left |-> 1, items |-> items]
        m == IF s = Len(plan) \/ ~plan[s + 1].nested THEN 0
             ELSE IF plan[s + 1].fan = "each" THEN items
             ELSE IF items > 0 THEN 1 ELSE 0
        read == Joined([tasks EXCEPT ![id] = done], {Append(id, k) : k \in 1..m}, s + 1)
        ts == IF stage.race /\ (n > 0 \/ stage.gives = {})
              THEN Restrict(read, DOMAIN read \ (Group(id) \ {id})) ELSE read
        empty == /\ n = 0 /\ stage.none # "on"
                 /\ stage.none = "doubt" => tasks[id].left < New(stage).left
    IN /\ failed' \in IF empty /\ stage.none # "doubt" THEN {s}
                     ELSE IF empty \/ stage.flawed THEN {failed, s} ELSE {failed}
       /\ IF empty /\ stage.none = "abort"
          THEN rows' = rows /\ Return(FALSE)
          ELSE Publish(IF over THEN {} ELSE found, ts) /\ GoOn(ts)
       /\ UNCHANGED <<plan, permits, missed, over>>

Read(id) ==
    /\ Running /\ tasks[id].st = "open" /\ ~StageOf(id).streams /\ ~Late(id)
    /\ \E n \in {Cardinality(Kept(StageOf(id), page)) : page \in SitePages} : Has(id, n)

(* An entry arrives in a body that is still open, and is followed at once if   *)
(* the next stage is nested.                                                   *)
Chunk(id) ==
    LET stage == StageOf(id)
        s == StageNo(id)
        n == tasks[id].items + 1
        more == IF s < Len(plan) /\ plan[s + 1].nested THEN {Append(id, n)} ELSE {}
        ts == Joined([tasks EXCEPT ![id].items = n], more, s + 1)
    IN /\ Running /\ tasks[id].st = "open" /\ stage.streams
       /\ n <= MaxEntries
       /\ tasks' = ts
       /\ Publish(IF over \/ "rows" \notin stage.gives THEN {} ELSE {<<s, id, n>>}, ts)
       /\ UNCHANGED <<plan, permits, from, carry, failed, missed, over, outcome>>

(* The body has ended; where the response is kept, so is its slot.             *)
BodyEnds(id) ==
    /\ Running /\ tasks[id].st = "open" /\ StageOf(id).streams
    /\ failed' \in IF StageOf(id).flawed THEN {failed, StageNo(id)} ELSE {failed}
    /\ UNCHANGED <<plan, permits, rows, missed, over>>
    /\ GoOn([tasks EXCEPT ![id].st = IF StageOf(id).keeps THEN "held" ELSE "done"])

(* The entry is complete as it stands.                                         *)
AtHand(id) ==
    /\ Running /\ MayBegin(id) /\ StageOf(id).free
    /\ Has(id, 1)

DeadlinePasses ==
    /\ Running /\ ~over
    /\ over' = TRUE
    /\ UNCHANGED <<plan, permits, from, tasks, carry, rows, failed, missed, outcome>>

(* The provider's own timeout around its whole search.                         *)
TimeIsUp ==
    /\ Running /\ plan[1].whole
    /\ UNCHANGED <<plan, permits, rows, failed, missed, over>>
    /\ Return(FALSE)

(* The engine drops the search, requests and all, and keeps what was published.*)
Cut ==
    /\ Running /\ over
    /\ outcome' = "cut" /\ tasks' = <<>> /\ carry' = 0
    /\ UNCHANGED <<plan, permits, from, rows, failed, missed, over>>

Step(id) ==
    \/ Send(id) \/ TooLate(id) \/ TryAgain(id) \/ GiveUp(id)
    \/ Read(id) \/ Chunk(id) \/ BodyEnds(id) \/ AtHand(id)

Returned == ~Running /\ UNCHANGED vars

Next == (\E id \in DOMAIN tasks : Step(id)) \/ DeadlinePasses \/ TimeIsUp \/ Cut \/ Returned

Work == \E id \in DOMAIN tasks : Step(id)
Spec == Init /\ [][Next]_vars
FairSpec == Spec /\ WF_vars(Work)

-----------------------------------------------------------------------------
(* Rows read in time have been published when a search fails or is dropped: a  *)
(* later request that fails or a deadline takes none of them back.             *)
RowsSurvive == outcome \in {"err", "cut"} => rows = {}

(* A search that answers with success had every page it asked for, but those   *)
(* it went another way instead of.                                             *)
SuccessIsWhole == outcome = "ok" => ~Counts(missed)

(* A response that was read to its end holds no slot of the command.           *)
PermitEndsWithBody == \A id \in DOMAIN tasks : tasks[id].st # "held"

(* A search returns, also when the command may send one request at a time; one *)
(* that keeps a response open needs a second slot for the requests it waits    *)
(* for meanwhile.                                                              *)
KeepsSlot == \E s \in DOMAIN plan : plan[s].keeps
SearchReturns == (Running /\ (KeepsSlot => permits > 1)) ~> ~Running
=============================================================================
