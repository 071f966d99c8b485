------------------------ MODULE ProviderSearchProofs ------------------------
(* Theorems about ProviderSearch for every set of plans that satisfies         *)
(* PlansAssumption, every number of pages, entries, jobs and attempts, and     *)
(* every order in which requests are answered, fail and run out of time.       *)
(*                                                                             *)
(* Three invariants, one on top of the other.  ShapeInv says where the tasks   *)
(* in hand belong; nested stages alone may have begun before the others are    *)
(* through.  RowsInv says that a search that is still under way has nothing to *)
(* lose, and that what it remembers is an error a plan lets it remember.       *)
(* MissInv ties the page that was missed to the error that is remembered: the  *)
(* error may be of a later stage, but never of one before another way was gone.*)
EXTENDS ProviderSearch, DataLemmas

Tasks == [st : {"new", "open", "pause", "held", "done"}, left : Nat, items : Nat]

(* The tasks ts belong to stage s and to the nested stages after it; a task    *)
(* has given nothing before it is done, unless it streams.                     *)
Placed(ts, s) ==
    \A id \in DOMAIN ts :
        /\ ts[id] \in Tasks
        /\ id \in Seq(Nat) /\ id # <<>> /\ s + Len(id) - 1 <= Len(plan)
        /\ \A r \in (s + 1)..(s + Len(id) - 1) : plan[r].nested
        /\ plan[s].fan = "one" /\ Len(id) = 1 => id = <<1>>
        /\ ts[id].st \notin {"done", "held"} /\ ~plan[s + Len(id) - 1].streams
             => ts[id].items = 0

ShapeInv ==
    /\ plan \in Plans /\ from \in DOMAIN plan
    /\ failed \in 0..Len(plan) /\ missed \in 0..Len(plan)
    /\ outcome \in {"running", "ok", "err", "cut"}
    /\ Placed(tasks, from)

RowsInv ==
    /\ outcome # "ok" => rows = {}
    /\ Running /\ failed # 0 => Lenient(plan[failed])

MissInv ==
    /\ from = 1 => carry = 0
    /\ \A r \in (from + 1)..missed : plan[r].nested
    /\ Counts(missed) => Counts(failed)
    /\ outcome = "ok" => ~Counts(missed)

(* A plan is a sequence of at least one stage.                                 *)
LEMMA PlanSeq ==
    ASSUME PlansAssumption, plan \in Plans
    PROVE  /\ plan \in Seq(Stages) /\ plan # <<>>
           /\ Len(plan) \in Nat \ {0} /\ DOMAIN plan = 1..Len(plan)
BY DEF PlansAssumption

LEMMA StageTyped ==
    ASSUME PlansAssumption, plan \in Plans, NEW s \in DOMAIN plan
    PROVE  plan[s] \in Stages
BY PlanSeq

(* The smaller of two numbers is one of them.                                  *)
LEMMA MinOfTwo ==
    ASSUME NEW a \in Nat, NEW b \in Nat
    PROVE  Min({a, b}) \in {a, b} /\ Min({a, b}) <= a /\ Min({a, b}) <= b
BY DEF Min

(* A task that has not begun has given nothing.                                *)
LEMMA NewTask ==
    ASSUME PlansAssumption, SizesAssumption, plan \in Plans, NEW s \in DOMAIN plan
    PROVE  /\ New(plan[s]) \in Tasks
           /\ New(plan[s]).items = 0 /\ New(plan[s]).st = "new"
<1>1. plan[s].tries \in Nat /\ MaxTries \in Nat
  BY StageTyped DEF Stages, SizesAssumption
<1>2. Min({plan[s].tries, MaxTries}) \in Nat
  BY <1>1, MinOfTwo
<1> QED BY <1>2 DEF New, Tasks

(* The tasks a stage starts with belong to it; one that asks once has one.     *)
LEMMA StagesPlaced ==
    ASSUME PlansAssumption, SizesAssumption, plan \in Plans,
           NEW m, NEW s \in DOMAIN plan, plan[s].fan = "one" => m = 1
    PROVE  Placed([id \in {<<k>> : k \in 1..m} |-> New(plan[s])], s)
<1> DEFINE ids == {<<k>> : k \in 1..m}
           ts == [id \in ids |-> New(plan[s])]
<1>1. \A id \in ids : id \in Seq(Nat) /\ id # <<>> /\ Len(id) = 1 /\ (m = 1 => id = <<1>>)
  <2> TAKE id \in ids
  <2>1. PICK k \in 1..m : id = <<k>>
    OBVIOUS
  <2>2. k \in Nat /\ (m = 1 => k = 1)
    OBVIOUS
  <2> QED BY <2>1, <2>2
<1>2. s \in Nat /\ s <= Len(plan) /\ Len(plan) \in Nat
  BY PlanSeq
<1>3. \A id \in ids : ts[id] \in Tasks /\ ts[id].items = 0
  BY NewTask
<1>4. DOMAIN ts = ids
  OBVIOUS
<1> HIDE DEF ids, ts
<1> SUFFICES Placed(ts, s)
  BY DEF ids, ts
<1>5. \A n \in Nat : \A r \in (n + 1)..(n + 1 - 1) : FALSE
  OBVIOUS
<1>6. s + 1 - 1 = s
  BY <1>2
<1> QED BY <1>1, <1>2, <1>3, <1>4, <1>5, <1>6 DEF Placed

LEMMA InitShape == ASSUME PlansAssumption, SizesAssumption, Init PROVE ShapeInv
<1>1. plan \in Plans /\ from = 1 /\ from \in DOMAIN plan
  BY PlanSeq DEF Init
<1>2. Placed(tasks, from)
  <2>1. PICK n \in 1..MaxPages :
          /\ plan[1].fan = "one" => n = 1
          /\ tasks = [id \in {<<k>> : k \in 1..n} |-> New(plan[1])]
    BY DEF Init
  <2> QED BY <1>1, <2>1, StagesPlaced
<1> QED BY <1>1, <1>2, PlanSeq DEF Init, ShapeInv

(* The deepest of some tasks is one of them.                                   *)
LEMMA DeepestIn ==
    ASSUME PlansAssumption, plan \in Plans, from \in DOMAIN plan,
           NEW ts, Placed(ts, from), DOMAIN ts # {}
    PROVE  /\ Deepest(ts) \in Nat \ {0} /\ \A id \in DOMAIN ts : Len(id) <= Deepest(ts)
           /\ \E id \in DOMAIN ts : Len(id) = Deepest(ts)
<1> DEFINE lens == {Len(id) : id \in DOMAIN ts}
<1>1. from \in Nat \ {0} /\ Len(plan) \in Nat \ {0}
  BY PlanSeq
<1>2. \A id \in DOMAIN ts : Len(id) \in Nat \ {0} /\ from + Len(id) - 1 <= Len(plan)
  <2> TAKE id \in DOMAIN ts
  <2>1. id \in Seq(Nat) /\ id # <<>> /\ from + Len(id) - 1 <= Len(plan)
    BY DEF Placed
  <2> QED BY <2>1
<1>3. lens \in SUBSET (1..Len(plan)) /\ lens # {}
  <2>1. \A id \in DOMAIN ts : Len(id) \in 1..Len(plan)
    BY <1>1, <1>2
  <2> QED BY <2>1
<1> HIDE DEF lens
<1>4. Max(lens) \in lens /\ \A y \in lens : Max(lens) >= y
  BY <1>1, <1>3, MaxIn
<1> USE DEF lens
<1>5. Deepest(ts) = Max(lens)
  BY DEF Deepest
<1> HIDE DEF lens
<1>6. Deepest(ts) \in lens /\ \A id \in DOMAIN ts : Deepest(ts) >= Len(id)
  BY <1>4, <1>5 DEF lens
<1> QED BY <1>2, <1>3, <1>6 DEF lens

(* Stage from' has begun with the n entries that waited at stage s, all stages *)
(* between them having nothing to ask for.                                     *)
Began(s, n) ==
    /\ from' \in s..Len(plan) /\ outcome' = outcome /\ Placed(tasks', from')
    /\ carry' \in {0, n} /\ ~Skipped(from')
    /\ Asked(from', n) # {0}
    /\ \A r \in s..(from' - 1) : 0 \in Asked(r, n)

(* Or no stage from s on has anything to ask for, and the search has ended.    *)
Ended(s, n) ==
    /\ from' = from /\ tasks' = <<>> /\ carry' = 0
    /\ outcome' = IF Counts(failed') THEN "err" ELSE "ok"
    /\ \A r \in s..Len(plan) : 0 \in Asked(r, n)

LEMMA EmptyPlaced == ASSUME NEW s PROVE Placed(<<>>, s)
BY DEF Placed

(* To go on to stage s is to begin a stage from there or to end.               *)
LEMMA EnterGoes ==
    ASSUME PlansAssumption, SizesAssumption, plan \in Plans, from \in DOMAIN plan, plan' = plan,
           NEW s \in Nat \ {0}, NEW n, Enter(s, n)
    PROVE  Began(s, n) \/ Ended(s, n)
<1>1. PICK t \in s..(Len(plan) + 1) :
        /\ \A r \in s..(t - 1) : 0 \in Asked(r, n)
        /\ IF t > Len(plan) THEN Return(~Counts(failed'))
           ELSE \E m \in Asked(t, n) \ {0} : Begin(t, m, n)
  BY DEF Enter
<1>2. /\ Len(plan) \in Nat \ {0} /\ DOMAIN plan = 1..Len(plan)
  BY PlanSeq
<1>3. CASE t > Len(plan)
  <2>1. t = Len(plan) + 1 /\ t - 1 = Len(plan)
    BY <1>2, <1>3
  <2>2. Return(~Counts(failed'))
    BY <1>1, <1>3
  <2> QED BY <1>1, <2>1, <2>2 DEF Return, Ended
<1>4. CASE t <= Len(plan)
  <2>1. PICK m \in Asked(t, n) \ {0} : Begin(t, m, n)
    BY <1>1, <1>2, <1>4
  <2>2. t \in DOMAIN plan
    BY <1>2, <1>4
  <2>3. ~Skipped(t) /\ Asked(t, n) # {0}
    BY <2>1 DEF Asked
  <2>4. plan[t].fan = "one" => m = 1
    BY <2>1, <2>3 DEF Asked
  <2>5. Placed([id \in {<<k>> : k \in 1..m} |-> New(plan[t])], t)
    BY <2>2, <2>4, StagesPlaced
  <2>6. from' = t /\ Placed(tasks', t) /\ carry' \in {0, n} /\ outcome' = outcome
    BY <2>1, <2>5 DEF Begin
  <2> QED BY <1>1, <1>4, <2>3, <2>6 DEF Began
<1> QED BY <1>2, <1>3, <1>4

(* What any step of a task keeps to.                                           *)
Stepped ==
    /\ from' \in from..Len(plan) /\ Placed(tasks', from')
    /\ from' = 1 => carry' \in {0, carry}
    /\ outcome' \in {"running", "ok", "err"}
    /\ outcome' = "ok" => from' = from /\ ~Counts(failed')

LEMMA GoOnSteps ==
    ASSUME PlansAssumption, SizesAssumption, ShapeInv, Running, plan' = plan,
           NEW ts, Placed(ts, from), DOMAIN ts # {}, GoOn(ts)
    PROVE  Stepped
<1>1. /\ plan \in Plans /\ from \in DOMAIN plan /\ Len(plan) \in Nat
      /\ from \in 1..Len(plan) /\ outcome = "running"
  BY PlanSeq DEF ShapeInv, Running
<1>2. CASE tasks' = ts /\ UNCHANGED <<from, carry, outcome>>
  BY <1>1, <1>2 DEF Stepped
<1>3. CASE Enter(from + Deepest(ts), carry + Given(ts))
  <2> DEFINE s == from + Deepest(ts)
             n == carry + Given(ts)
  <2>1. s \in Nat \ {0} /\ s > from /\ s > 1
    BY <1>1, DeepestIn
  <2> HIDE DEF s, n
  <2>2. Began(s, n) \/ Ended(s, n)
    BY <1>1, <1>3, <2>1, EnterGoes DEF s, n
  <2>3. CASE Began(s, n)
    BY <1>1, <2>1, <2>3 DEF Began, Stepped
  <2>4. CASE Ended(s, n)
    BY <1>1, <2>1, <2>4, EmptyPlaced DEF Ended, Stepped
  <2> QED BY <2>2, <2>3, <2>4
<1> QED BY <1>2, <1>3 DEF GoOn

LEMMA ReturnSteps ==
    ASSUME PlansAssumption, ShapeInv, Running, plan' = plan, Return(FALSE)
    PROVE  Stepped /\ outcome' = "err"
<1>1. from \in 1..Len(plan)
  BY PlanSeq DEF ShapeInv
<1> QED BY <1>1, EmptyPlaced DEF Return, Stepped

(* A loser of a race leaves others behind.                                     *)
LEMMA LeaveSteps ==
    ASSUME PlansAssumption, SizesAssumption, ShapeInv, Running,
           NEW id \in DOMAIN tasks, Group(id) # {id}, Leave(id)
    PROVE  Stepped
<1> DEFINE ts == Restrict(tasks, DOMAIN tasks \ {id})
<1>1. id \in Group(id) /\ Group(id) \subseteq DOMAIN tasks
  BY DEF Group
<1>2. DOMAIN ts = DOMAIN tasks \ {id} /\ DOMAIN ts # {}
  BY <1>1 DEF Restrict
<1>3. \A j \in DOMAIN ts : ts[j] = tasks[j]
  BY DEF Restrict
<1> HIDE DEF ts
<1>4. Placed(ts, from)
  BY <1>2, <1>3 DEF Placed, ShapeInv
<1>5. plan' = plan /\ GoOn(ts)
  BY DEF Leave, ts
<1> QED BY <1>2, <1>4, <1>5, GoOnSteps

(* What is known of a task in hand.                                            *)
LEMMA IdStage ==
    ASSUME PlansAssumption, ShapeInv, NEW id \in DOMAIN tasks
    PROVE  /\ id \in Seq(Nat) /\ id # <<>> /\ Len(id) \in Nat \ {0}
           /\ Len(plan) \in Nat \ {0} /\ DOMAIN plan = 1..Len(plan) /\ plan \in Plans
           /\ from \in 1..Len(plan)
           /\ StageNo(id) \in from..Len(plan) /\ StageNo(id) \in DOMAIN plan
           /\ tasks[id] \in Tasks
<1>1. id \in Seq(Nat) /\ id # <<>> /\ from + Len(id) - 1 <= Len(plan) /\ tasks[id] \in Tasks
  BY DEF ShapeInv, Placed
<1> QED BY <1>1, PlanSeq DEF ShapeInv, StageNo

LEMMA GoOverSteps ==
    ASSUME PlansAssumption, SizesAssumption, ShapeInv, Running,
           NEW id \in DOMAIN tasks, StageOf(id).fail = "next", GoOver(id)
    PROVE  Stepped
<1>1. StageNo(id) < Len(plan)
  BY IdStage DEF PlansAssumption, StageOf
<1>2. from + 1 \in DOMAIN plan
  BY <1>1, IdStage
<1>3. Begin(from + 1, 1, carry)
  BY DEF GoOver
<1>4. Placed([j \in {<<k>> : k \in 1..1} |-> New(plan[from + 1])], from + 1)
  BY <1>2, IdStage, StagesPlaced
<1> QED BY <1>2, <1>3, <1>4, IdStage DEF Begin, Stepped, Running

(* A page that is missed: what is remembered of it.                            *)
LEMMA MissSteps ==
    ASSUME PlansAssumption, SizesAssumption, ShapeInv, Running,
           NEW id \in DOMAIN tasks, Miss(id)
    PROVE  /\ Stepped /\ plan' = plan
           /\ failed' = IF Remembers(StageOf(id)) THEN StageNo(id) ELSE failed
           /\ missed' = IF StageOf(id).gives # {} THEN StageNo(id) ELSE missed
           /\ rows' # rows => rows' \subseteq rows
           /\ StageOf(id).fail = "abort" => outcome' = "err"
<1> DEFINE settled == [tasks EXCEPT ![id] = [@ EXCEPT !.st = "done", !.left = 1]]
           ts == IF StageOf(id).fail = "stop"
                 THEN Restrict(settled, {j \in DOMAIN tasks : settled[j].st # "new"})
                 ELSE settled
<1>1. /\ DOMAIN settled = DOMAIN tasks
      /\ \A j \in DOMAIN tasks \ {id} : settled[j] = tasks[j]
      /\ settled[id] = [st |-> "done", left |-> 1, items |-> tasks[id].items]
  BY IdStage DEF Tasks
<1>2. settled[id] \in Tasks
  BY <1>1, IdStage DEF Tasks
<1>3. /\ DOMAIN ts \subseteq DOMAIN tasks /\ id \in DOMAIN ts
      /\ \A j \in DOMAIN ts : ts[j] = settled[j]
  BY <1>1 DEF Restrict
<1>4. /\ plan' = plan
      /\ failed' = IF Remembers(StageOf(id)) THEN StageNo(id) ELSE failed
      /\ missed' = IF StageOf(id).gives # {} THEN StageNo(id) ELSE missed
      /\ IF StageOf(id).fail = "abort" THEN rows' = rows /\ Return(FALSE)
         ELSE Publish({}, ts) /\ GoOn(ts)
  BY DEF Miss
<1> HIDE DEF ts, settled
<1>5. Placed(ts, from)
  <2> SUFFICES ASSUME NEW j \in DOMAIN ts
               PROVE  /\ ts[j] \in Tasks
                      /\ ts[j].st \notin {"done", "held"} => ts[j] = tasks[j]
    BY <1>3 DEF Placed, ShapeInv
  <2>1. CASE j = id
    BY <1>1, <1>2, <1>3, <2>1
  <2>2. CASE j # id
    BY <1>1, <1>3, <2>2 DEF Placed, ShapeInv
  <2> QED BY <2>1, <2>2
<1>6. CASE StageOf(id).fail = "abort"
  BY <1>4, <1>6, ReturnSteps
<1>7. CASE StageOf(id).fail # "abort"
  <2>1. Stepped
    BY <1>3, <1>4, <1>5, <1>7, GoOnSteps
  <2>2. rows' \subseteq rows
    BY <1>4, <1>7 DEF Publish
  <2> QED BY <1>4, <1>7, <2>1, <2>2
<1> QED BY <1>6, <1>7

(* A task that changes stays where it is.                                      *)
LEMMA Retyped ==
    ASSUME PlansAssumption, ShapeInv, NEW id \in DOMAIN tasks, NEW task \in Tasks,
           task.st \notin {"done", "held"} /\ ~StageOf(id).streams => task.items = 0
    PROVE  Placed([tasks EXCEPT ![id] = task], from)
BY DEF ShapeInv, Placed, StageOf, StageNo

LEMMA SendSteps ==
    ASSUME PlansAssumption, ShapeInv, NEW id \in DOMAIN tasks, Send(id)
    PROVE  Stepped
<1> DEFINE task == [tasks[id] EXCEPT !.st = "open"]
<1>1. tasks[id].st \in {"pause", "new"}
  BY DEF Send, Ready, MayBegin
<1>2. task \in Tasks /\ task.items = tasks[id].items
  BY IdStage DEF Tasks
<1>3. ~StageOf(id).streams => tasks[id].items = 0
  BY <1>1 DEF ShapeInv, Placed, StageOf, StageNo
<1>4. tasks' = [tasks EXCEPT ![id] = task]
  BY DEF Send
<1> HIDE DEF task
<1>5. Placed(tasks', from)
  BY <1>2, <1>3, <1>4, Retyped
<1> QED BY <1>5, IdStage DEF Send, Stepped, Running

LEMMA TryAgainSteps ==
    ASSUME PlansAssumption, ShapeInv, NEW id \in DOMAIN tasks, TryAgain(id)
    PROVE  Stepped
<1> DEFINE task == [tasks[id] EXCEPT !.st = "pause", !.left = tasks[id].left - 1]
<1>1. tasks[id].left > 1 /\ tasks[id].items = 0
  BY DEF TryAgain, Retried
<1>2. task \in Tasks /\ task.items = 0
  <2>1. tasks[id] \in Tasks /\ tasks[id].left - 1 \in Nat
    BY <1>1, IdStage DEF Tasks
  <2> QED BY <1>1, <2>1 DEF Tasks
<1>3. tasks' = [tasks EXCEPT ![id] = task]
  BY IdStage DEF TryAgain, Tasks
<1> HIDE DEF task
<1>4. Placed(tasks', from)
  BY <1>2, <1>3, Retyped
<1> QED BY <1>4, IdStage DEF TryAgain, Stepped, Running

LEMMA BodyEndsSteps ==
    ASSUME PlansAssumption, SizesAssumption, ShapeInv, NEW id \in DOMAIN tasks, BodyEnds(id)
    PROVE  Stepped
<1> DEFINE st == IF StageOf(id).keeps THEN "held" ELSE "done"
           task == [tasks[id] EXCEPT !.st = st]
           ts == [tasks EXCEPT ![id] = task]
<1>1. task \in Tasks /\ task.st \in {"done", "held"}
  BY IdStage DEF Tasks
<1>2. GoOn(ts) /\ plan' = plan /\ Running
  BY DEF BodyEnds
<1> HIDE DEF task
<1>3. Placed(ts, from)
  BY <1>1, Retyped
<1> HIDE DEF ts
<1>4. DOMAIN ts # {}
  BY DEF ts
<1> QED BY <1>2, <1>3, <1>4, GoOnSteps DEF BodyEnds

(* A page has a number of entries that are kept.                               *)
LEMMA HitsCounted ==
    ASSUME SizesAssumption, NEW stage, NEW page \in SitePages
    PROVE  Cardinality(Kept(stage, page)) \in Nat
<1>1. PICK n \in 0..MaxEntries : page \in [1..n -> Entries]
  BY DEF SitePages
<1>2. n \in Nat /\ DOMAIN page = 1..n
  BY <1>1, SizesAssumption
<1>3. IsFiniteSet(1..n)
  BY <1>2, FS_Interval
<1>4. Kept(stage, page) \subseteq 1..n
  BY <1>2 DEF Kept
<1> QED BY <1>3, <1>4, FS_Subset, FS_CardinalityType

(* What an entry begins belongs to the nested stage after that of its page.    *)
LEMMA NestedPlaced ==
    ASSUME PlansAssumption, SizesAssumption, ShapeInv, NEW ts, Placed(ts, from),
           NEW id \in DOMAIN tasks, NEW ks \in SUBSET Nat,
           ks # {} => StageNo(id) < Len(plan) /\ plan[StageNo(id) + 1].nested
    PROVE  Placed(Joined(ts, {Append(id, k) : k \in ks}, StageNo(id) + 1), from)
<1> DEFINE ids == {Append(id, k) : k \in ks}
           all == Joined(ts, ids, StageNo(id) + 1)
<1>1. /\ DOMAIN all = DOMAIN ts \cup ids
      /\ \A j \in DOMAIN ts : all[j] = ts[j]
      /\ \A j \in ids \ DOMAIN ts : all[j] = New(plan[StageNo(id) + 1])
  BY DEF Joined
<1>2. ASSUME NEW j \in ids
      PROVE  /\ j \in Seq(Nat) /\ j # <<>> /\ Len(j) = Len(id) + 1 /\ Len(j) # 1
             /\ StageNo(id) + 1 \in DOMAIN plan /\ plan[StageNo(id) + 1].nested
  <2>1. PICK k \in ks : j = Append(id, k)
    OBVIOUS
  <2>2. id \in Seq(Nat) /\ k \in Nat
    BY IdStage
  <2>3. j \in Seq(Nat) /\ j # <<>> /\ Len(j) = Len(id) + 1
    BY <2>1, <2>2
  <2> QED BY <2>3, IdStage
<1>3. \A r \in (from + 1)..StageNo(id) : plan[r].nested
  BY DEF ShapeInv, Placed, StageNo
<1> HIDE DEF ids, all
<1> SUFFICES ASSUME NEW j \in ids, j \notin DOMAIN ts
             PROVE  /\ all[j] \in Tasks /\ all[j].items = 0
                    /\ j \in Seq(Nat) /\ j # <<>> /\ from + Len(j) - 1 <= Len(plan)
                    /\ \A r \in (from + 1)..(from + Len(j) - 1) : plan[r].nested
                    /\ Len(j) # 1
  <2>1. Placed(all, from)
    BY <1>1 DEF Placed
  <2> QED BY <2>1 DEF all, ids
<1>4. all[j] \in Tasks /\ all[j].items = 0
  <2>1. all[j] = New(plan[StageNo(id) + 1])
    BY <1>1
  <2> QED BY <1>2, <2>1, IdStage, NewTask
<1>5. from + Len(j) - 1 = StageNo(id) + 1
  <2>1. from \in Nat /\ Len(id) \in Nat /\ Len(j) = Len(id) + 1
    BY <1>2, IdStage
  <2> QED BY <2>1 DEF StageNo
<1>6. \A r \in (from + 1)..(StageNo(id) + 1) : plan[r].nested
  BY <1>2, <1>3, IdStage
<1> QED BY <1>2, <1>4, <1>5, <1>6, IdStage

LEMMA ChunkSteps ==
    ASSUME PlansAssumption, SizesAssumption, ShapeInv, NEW id \in DOMAIN tasks, Chunk(id)
    PROVE  Stepped
<1> DEFINE n == tasks[id].items + 1
           s == StageNo(id)
           task == [tasks[id] EXCEPT !.items = n]
           ks == IF s < Len(plan) /\ plan[s + 1].nested THEN {n} ELSE {}
           more == IF s < Len(plan) /\ plan[s + 1].nested THEN {Append(id, n)} ELSE {}
<1>1. n \in Nat /\ task \in Tasks
  <2>1. tasks[id] \in Tasks /\ n \in Nat
    BY IdStage DEF Tasks
  <2> HIDE DEF n
  <2> QED BY <2>1 DEF Tasks
<1>2. more = {Append(id, k) : k \in ks}
  OBVIOUS
<1>3. StageOf(id).streams /\ Running
  BY DEF Chunk
<1>4. tasks' = Joined([tasks EXCEPT ![id] = task], more, s + 1)
  BY DEF Chunk
<1>5. ks \in SUBSET Nat /\ (ks # {} => s < Len(plan) /\ plan[s + 1].nested)
  BY <1>1
<1> HIDE DEF n, ks, more, task
<1>6. Placed([tasks EXCEPT ![id] = task], from)
  BY <1>1, <1>3, Retyped
<1>7. Placed(tasks', from)
  BY <1>2, <1>4, <1>5, <1>6, NestedPlaced
<1> QED BY <1>3, <1>7, IdStage DEF Chunk, Stepped, Running

(* What a task that has its page leads to: the tasks ts, in which it is done.  *)
Had(id, ts) ==
    /\ Placed(ts, from) /\ id \in DOMAIN ts /\ ts[id].st = "done"
    /\ StageNo(id) = Len(plan) \/ ~plan[StageNo(id) + 1].nested
         => DOMAIN ts \subseteq DOMAIN tasks
    /\ \/ rows' = rows /\ failed' \in {failed, StageNo(id)} /\ Return(FALSE)
       \/ /\ GoOn(ts)
          /\ failed' = failed \/ (failed' = StageNo(id) /\ Lenient(StageOf(id)))
          /\ \E found :
               /\ Publish(found, ts)
               /\ \A r \in found :
                    r[1] = StageNo(id) /\ r[2] = id /\ "rows" \in StageOf(id).gives

LEMMA HasTasks ==
    ASSUME PlansAssumption, SizesAssumption, ShapeInv, Running,
           NEW id \in DOMAIN tasks, NEW n \in Nat, Has(id, n)
    PROVE  \E ts : Had(id, ts)
<1> DEFINE stage == StageOf(id)
           s == StageNo(id)
           found == IF "rows" \in stage.gives THEN {<<s, id, k>> : k \in 1..n} ELSE {}
           items == IF "items" \in stage.gives THEN n ELSE 0
           done == [st |-> "done", left |-> 1, items |-> items]
           m == IF s = Len(plan) \/ ~plan[s + 1].nested THEN 0
                ELSE IF plan[s + 1].fan = "each" THEN items
                ELSE IF items > 0 THEN 1 ELSE 0
           ids == {Append(id, k) : k \in 1..m}
           read == Joined([tasks EXCEPT ![id] = done], ids, s + 1)
           ts == IF stage.race /\ (n > 0 \/ stage.gives = {})
                 THEN Restrict(read, DOMAIN read \ (Group(id) \ {id})) ELSE read
           empty == /\ n = 0 /\ stage.none # "on"
                    /\ stage.none = "doubt" => tasks[id].left < New(stage).left
<1>1. IF empty /\ stage.none = "abort"
      THEN rows' = rows /\ Return(FALSE)
      ELSE Publish(IF over THEN {} ELSE found, ts) /\ GoOn(ts)
  BY DEF Has
<1>2. done \in Tasks /\ done.st = "done"
  BY DEF Tasks
<1>3. /\ 1..m \in SUBSET Nat
      /\ 1..m # {} => s < Len(plan) /\ plan[s + 1].nested
      /\ s = Len(plan) \/ ~plan[s + 1].nested => ids = {}
  <2>1. s = Len(plan) \/ ~plan[s + 1].nested => m = 0
    OBVIOUS
  <2>2. s \in Nat /\ Len(plan) \in Nat /\ s <= Len(plan)
    BY IdStage
  <2> HIDE DEF m, s
  <2> QED BY <2>1, <2>2
<1> HIDE DEF done, m
<1>4. Placed([tasks EXCEPT ![id] = done], from)
  BY <1>2, Retyped
<1>5. Placed(read, from)
  BY <1>3, <1>4, NestedPlaced
<1>6. id \in DOMAIN read /\ read[id] = done /\ (ids = {} => DOMAIN read = DOMAIN tasks)
  BY DEF Joined
<1> HIDE DEF read, ids
<1>7. /\ id \in DOMAIN ts /\ DOMAIN ts \subseteq DOMAIN read
      /\ \A j \in DOMAIN ts : ts[j] = read[j]
  BY <1>6 DEF Restrict
<1> HIDE DEF ts
<1>8. Placed(ts, from)
  BY <1>5, <1>7 DEF Placed
<1>9. /\ id \in DOMAIN ts /\ ts[id].st = "done"
      /\ s = Len(plan) \/ ~plan[s + 1].nested => DOMAIN ts \subseteq DOMAIN tasks
  BY <1>2, <1>3, <1>6, <1>7
<1>10. failed' \in IF empty /\ stage.none # "doubt" THEN {s}
                    ELSE IF empty \/ stage.flawed THEN {failed, s} ELSE {failed}
  BY DEF Has
<1>11. empty => stage.none \in {"abort", "keep", "doubt"}
  <2>1. stage.none \in {"abort", "keep", "on", "doubt"}
    BY IdStage, StageTyped DEF StageOf, Stages
  <2> QED BY <2>1
<1> HIDE DEF empty, s, stage
<1>12. /\ failed' \in {failed, s}
       /\ \/ empty /\ stage.none = "abort"
          \/ failed' = failed \/ (failed' = s /\ Lenient(stage))
  BY <1>10, <1>11 DEF Lenient
<1> USE DEF s, stage
<1>13. \/ rows' = rows /\ failed' \in {failed, s} /\ Return(FALSE)
       \/ /\ GoOn(ts)
          /\ failed' = failed \/ (failed' = s /\ Lenient(stage))
          /\ \E f : /\ Publish(f, ts)
                   /\ \A r \in f : r[1] = s /\ r[2] = id /\ "rows" \in stage.gives
  <2> DEFINE f == IF over THEN {} ELSE found
  <2>1. \A r \in f : r[1] = s /\ r[2] = id /\ "rows" \in stage.gives
    OBVIOUS
  <2> HIDE DEF found, s, stage
  <2> QED BY <1>1, <1>12, <2>1
<1>14. Had(id, ts)
  BY <1>8, <1>9, <1>13 DEF Had
<1> QED BY <1>14

LEMMA HasSteps ==
    ASSUME PlansAssumption, SizesAssumption, ShapeInv, Running,
           NEW id \in DOMAIN tasks, NEW n \in Nat, Has(id, n)
    PROVE  /\ Stepped /\ plan' = plan /\ missed' = missed
           /\ \/ failed' = failed
              \/ failed' = StageNo(id) /\ (Lenient(StageOf(id)) \/ outcome' = "err")
<1>1. plan' = plan /\ missed' = missed
  BY DEF Has
<1>2. PICK ts : Had(id, ts)
  BY HasTasks
<1>3. CASE Return(FALSE) /\ failed' \in {failed, StageNo(id)}
  BY <1>1, <1>3, ReturnSteps
<1>4. CASE /\ GoOn(ts)
           /\ failed' = failed \/ (failed' = StageNo(id) /\ Lenient(StageOf(id)))
  <2>1. DOMAIN ts # {} /\ Placed(ts, from)
    BY <1>2 DEF Had
  <2> QED BY <1>1, <1>4, <2>1, GoOnSteps
<1> QED BY <1>2, <1>3, <1>4 DEF Had

(* A step of a task but for a page it misses: an error is remembered of its    *)
(* stage only where the plan allows for it.                                    *)
Passes(id) ==
    /\ Stepped /\ plan' = plan /\ missed' = missed
    /\ \/ failed' = failed
       \/ failed' = StageNo(id) /\ (Lenient(StageOf(id)) \/ outcome' = "err")
Misses(id) ==
    tasks[id].st \notin {"done", "held"} /\ StageOf(id).fail # "next" /\ Miss(id)

(* A task that fails passes on what it was for or misses its page.             *)
LEMMA FailCases ==
    ASSUME PlansAssumption, SizesAssumption, ShapeInv, Running,
           NEW id \in DOMAIN tasks, Fail(id)
    PROVE  (Passes(id) /\ rows' = rows) \/ (StageOf(id).fail # "next" /\ Miss(id))
<1>1. CASE StageOf(id).race /\ Group(id) # {id}
  BY <1>1, LeaveSteps DEF Fail, Leave, Passes
<1>2. CASE ~(StageOf(id).race /\ Group(id) # {id}) /\ StageOf(id).fail = "next"
  BY <1>2, GoOverSteps DEF Fail, GoOver, Passes
<1>3. CASE ~(StageOf(id).race /\ Group(id) # {id}) /\ StageOf(id).fail # "next"
  BY <1>3 DEF Fail
<1> QED BY <1>1, <1>2, <1>3

(* What a step of a task may be, and when it may touch the rows.               *)
LEMMA StepCases ==
    ASSUME PlansAssumption, SizesAssumption, ShapeInv, NEW id \in DOMAIN tasks, Step(id)
    PROVE  /\ Running /\ (Passes(id) \/ Misses(id))
           /\ \/ Misses(id) \/ rows' = rows
              \/ \E n \in Nat : Has(id, n)
              \/ Chunk(id)
<1>1. CASE Send(id)
  BY <1>1, SendSteps DEF Send, Passes
<1>2. CASE TooLate(id)
  <2>1. Running /\ Fail(id) /\ tasks[id].st \notin {"done", "held"}
    BY <1>2 DEF TooLate, Ready, MayBegin
  <2> QED BY <2>1, FailCases DEF Misses
<1>3. CASE TryAgain(id)
  BY <1>3, TryAgainSteps DEF TryAgain, Passes
<1>4. CASE GiveUp(id)
  <2>1. Running /\ Fail(id) /\ tasks[id].st \notin {"done", "held"}
    BY <1>4 DEF GiveUp
  <2> QED BY <2>1, FailCases DEF Misses
<1>5. CASE Read(id)
  <2>1. PICK page \in SitePages : Has(id, Cardinality(Kept(StageOf(id), page)))
    BY <1>5 DEF Read
  <2>2. Cardinality(Kept(StageOf(id), page)) \in Nat
    BY HitsCounted
  <2>3. Running
    BY <1>5 DEF Read
  <2> QED BY <2>1, <2>2, <2>3, HasSteps DEF Passes
<1>6. CASE Chunk(id)
  BY <1>6, ChunkSteps DEF Chunk, Passes
<1>7. CASE BodyEnds(id)
  <2>1. failed' = failed \/ (failed' = StageNo(id) /\ Lenient(StageOf(id)))
    BY <1>7 DEF BodyEnds, Lenient
  <2> QED BY <1>7, <2>1, BodyEndsSteps DEF BodyEnds, Passes
<1>8. CASE AtHand(id)
  BY <1>8, HasSteps DEF AtHand, Passes
<1> QED BY <1>1, <1>2, <1>3, <1>4, <1>5, <1>6, <1>7, <1>8 DEF Step

LEMMA SteppedShape ==
    ASSUME PlansAssumption, ShapeInv, plan' = plan, Stepped,
           failed' \in 0..Len(plan), missed' \in 0..Len(plan)
    PROVE  ShapeInv'
<1>1. from' \in DOMAIN plan
  BY PlanSeq DEF ShapeInv, Stepped
<1>2. Placed(tasks, from)'
  BY DEF Stepped, Placed
<1> QED BY <1>1, <1>2 DEF ShapeInv, Stepped

LEMMA ShapeStep == PlansAssumption /\ SizesAssumption /\ ShapeInv /\ [Next]_vars => ShapeInv'
<1> SUFFICES ASSUME PlansAssumption, SizesAssumption, ShapeInv, [Next]_vars PROVE ShapeInv'
  OBVIOUS
<1>0. Len(plan) \in Nat /\ failed \in 0..Len(plan) /\ missed \in 0..Len(plan)
  BY PlanSeq DEF ShapeInv
<1>1. ASSUME NEW id \in DOMAIN tasks, Step(id) PROVE ShapeInv'
  <2>1. /\ Stepped /\ plan' = plan
        /\ failed' \in {failed, StageNo(id)} /\ missed' \in {missed, StageNo(id)}
    BY <1>1, StepCases, MissSteps DEF Passes, Misses
  <2>2. StageNo(id) \in 0..Len(plan)
    BY IdStage
  <2> QED BY <1>0, <2>1, <2>2, SteppedShape
<1>2. CASE DeadlinePasses
  BY <1>2 DEF DeadlinePasses, ShapeInv, Placed
<1>3. CASE TimeIsUp
  <2>1. Running /\ plan' = plan /\ UNCHANGED <<failed, missed>> /\ Return(FALSE)
    BY <1>3 DEF TimeIsUp
  <2> QED BY <1>0, <2>1, ReturnSteps, SteppedShape
<1>4. CASE Cut
  BY <1>4, EmptyPlaced DEF Cut, ShapeInv, Placed
<1>5. CASE UNCHANGED vars
  BY <1>5 DEF vars, ShapeInv, Placed
<1> QED BY <1>1, <1>2, <1>3, <1>4, <1>5 DEF Next, Returned

(* The tasks in hand belong to the stage under way or to a nested stage after  *)
(* it, whatever was answered, failed or dropped before, and the stage under    *)
(* way is one of the plan.                                                     *)
THEOREM ShapeCorrect == Spec => []ShapeInv
<1>1. Init => ShapeInv
  BY PlansAssumption, SizesAssumption, InitShape
<1>2. ShapeInv /\ [Next]_vars => ShapeInv'
  BY PlansAssumption, SizesAssumption, ShapeStep
<1> QED BY <1>1, <1>2, PTL DEF Spec

(* Tasks without items give none.                                              *)
LEMMA NothingGiven ==
    ASSUME NEW ts, \A id \in DOMAIN ts : ts[id].items = 0
    PROVE  Given(ts) = 0
<1> DEFINE places == UNION {{id} \X (1..ts[id].items) :
                              id \in {id \in DOMAIN ts : Len(id) = Deepest(ts)}}
<1>1. \A id \in DOMAIN ts : 1..ts[id].items = {}
  OBVIOUS
<1>2. \A id \in {id \in DOMAIN ts : Len(id) = Deepest(ts)} : {id} \X (1..ts[id].items) = {}
  BY <1>1
<1>3. places = {}
  BY <1>2
<1> QED BY <1>3, FS_EmptySet DEF Given

(* Facts about small numbers.                                                  *)
LEMMA OneLeft == ASSUME NEW n \in Nat \ {0}, ~(n >= 2) PROVE n = 1
OBVIOUS

LEMMA NoneBetween == ASSUME NEW n \in Nat, n >= 2 PROVE \A r \in (n + 1)..1 : FALSE
OBVIOUS

LEMMA BothOne ==
    ASSUME NEW m \in Nat \ {0}, NEW n \in Nat \ {0}, m + n - 1 = 1
    PROVE  m = 1 /\ n = 1
OBVIOUS

(* Where nothing is nested, every task is of the stage itself.                 *)
LEMMA Flat ==
    ASSUME PlansAssumption, ShapeInv, from < Len(plan) => ~plan[from + 1].nested,
           NEW j \in DOMAIN tasks
    PROVE  Len(j) = 1 /\ (plan[from].fan = "one" => j = <<1>>)
<1>1. /\ from \in Nat \ {0} /\ Len(plan) \in Nat /\ Len(j) \in Nat \ {0}
      /\ from + Len(j) - 1 <= Len(plan)
      /\ \A r \in (from + 1)..(from + Len(j) - 1) : plan[r].nested
  BY IdStage DEF ShapeInv, Placed
<1>2. ~(Len(j) >= 2)
  BY <1>1
<1>3. Len(j) = 1
  BY <1>1, <1>2, OneLeft
<1> QED BY <1>3 DEF ShapeInv, Placed

(* The one page that is passed over in silence: in the same step the search    *)
(* goes on to the stage that makes up for it, for the stages before have       *)
(* nothing to do.                                                              *)
LEMMA MadeUpSteps ==
    ASSUME PlansAssumption, SizesAssumption, ShapeInv, Running,
           MissInv, NEW id \in DOMAIN tasks, Misses(id),
           MadeUp(plan, StageNo(id)), StageOf(id).fail = "on"
    PROVE  /\ StageNo(id) = 1 /\ outcome' = "running"
           /\ from' \in 2..Len(plan) /\ plan[from'].fan = "else"
<1> DEFINE settled == [tasks EXCEPT ![id] = [@ EXCEPT !.st = "done", !.left = 1]]
<1>1. /\ StageNo(id) = 1 /\ plan[1].fan = "one" /\ ~plan[1].streams
      /\ StageOf(id) = plan[1]
  BY DEF MadeUp, StageOf
<1>2. PICK e \in 2..Len(plan) :
        /\ plan[e].fan = "else" /\ ~plan[e].nested /\ ~plan[e].instead /\ ~plan[e].well
        /\ \A t \in 2..(e - 1) : plan[t].fan = "each" /\ ~plan[t].nested
  BY DEF MadeUp
<1>3. from = 1 /\ Len(id) = 1 /\ carry = 0 /\ Len(plan) \in Nat
  <2>1. from \in Nat \ {0} /\ Len(id) \in Nat \ {0} /\ Len(plan) \in Nat
    BY IdStage
  <2>2. from + Len(id) - 1 = 1
    BY <1>1 DEF StageNo
  <2>3. from = 1 /\ Len(id) = 1
    BY <2>1, <2>2, BothOne
  <2> QED BY <2>1, <2>3 DEF MissInv
<1>4. ~plan[2].nested
  BY <1>2
<1>5. \A j \in DOMAIN tasks : j = <<1>>
  BY <1>1, <1>3, <1>4, Flat
<1>6. DOMAIN tasks = {<<1>>} /\ id = <<1>>
  BY <1>5
<1>7. tasks[id].items = 0
  BY <1>1 DEF ShapeInv, Placed, Misses, StageNo
<1>8. /\ DOMAIN settled = {id}
      /\ settled[id] = [st |-> "done", left |-> 1, items |-> 0]
  BY <1>6, <1>7, IdStage DEF Tasks
<1>9. GoOn(settled) /\ plan' = plan
  BY DEF Misses, Miss
<1> HIDE DEF settled
<1>10. Placed(settled, from)
  <2>1. settled[id] \in Tasks
    BY <1>8 DEF Tasks
  <2> QED BY <1>8, <2>1 DEF Placed, ShapeInv
<1>11. \A j \in DOMAIN settled : Settled(j, settled)
  BY <1>8 DEF Settled
<1>12. Enter(2, 0)
  <2>1. Deepest(settled) = 1
    BY <1>3, <1>8, <1>10, DeepestIn, IdStage
  <2>2. Given(settled) = 0
    BY <1>8, NothingGiven
  <2> QED BY <1>3, <1>9, <1>11, <2>1, <2>2 DEF GoOn
<1>13. Began(2, 0) \/ Ended(2, 0)
  BY <1>9, <1>12, EnterGoes DEF ShapeInv
<1>14. 0 \notin Asked(e, 0)
  BY <1>2 DEF Asked, Skipped
<1>15. \A t \in 2..(e - 1) : Asked(t, 0) = {0}
  <2>1. Min({0, MaxJobs}) = 0
    <3>1. MaxJobs \in Nat
      BY SizesAssumption
    <3>2. Min({0, MaxJobs}) \in {0, MaxJobs} /\ Min({0, MaxJobs}) <= 0
      BY <3>1, MinOfTwo
    <3> QED BY <3>1, <3>2
  <2> QED BY <1>2, <2>1 DEF Asked
<1>16. Began(2, 0)
  BY <1>2, <1>13, <1>14 DEF Ended
<1>17. from' = e
  <2>1. /\ from' \in 2..Len(plan) /\ Asked(from', 0) # {0}
        /\ \A r \in 2..(from' - 1) : 0 \in Asked(r, 0)
    BY <1>16 DEF Began
  <2>2. ~(from' < e)
    BY <1>3, <1>15, <2>1
  <2>3. ~(from' > e)
    BY <1>3, <1>14, <2>1
  <2> QED BY <1>3, <2>1, <2>2, <2>3
<1> QED BY <1>1, <1>2, <1>16, <1>17 DEF Began, Running

LEMMA Further ==
    ASSUME NEW f \in Nat, NEW g \in Nat, NEW m \in Nat, f <= g
    PROVE  \A r \in (g + 1)..m : r \in (f + 1)..m
OBVIOUS

(* A step that remembers an error no earlier than the page it misses.          *)
LEMMA MissKept ==
    ASSUME PlansAssumption, ShapeInv, MissInv, NEW id \in DOMAIN tasks,
           Stepped, plan' = plan, failed' \in {failed, StageNo(id)},
           missed' = missed \/ (missed' = StageNo(id) /\ failed' = StageNo(id))
    PROVE  MissInv'
<1> DEFINE s == StageNo(id)
<1>1. /\ s \in from..Len(plan) /\ from \in 1..Len(plan) /\ Len(plan) \in Nat
      /\ DOMAIN plan = 1..Len(plan)
      /\ failed \in 0..Len(plan) /\ missed \in 0..Len(plan)
      /\ from' \in from..Len(plan)
  BY IdStage DEF ShapeInv, Stepped
<1>2. (from = 1 => carry = 0)'
  BY <1>1 DEF MissInv, Stepped
<1>3. \A r \in (from + 1)..s : plan[r].nested
  BY DEF ShapeInv, Placed, StageNo
<1>4. \A r \in (from + 1)..missed : plan[r].nested
  BY DEF MissInv
<1> HIDE DEF s
<1>5. \A r \in (from' + 1)..missed' : plan[r].nested
  <2>1. from \in Nat /\ from' \in Nat /\ from <= from' /\ missed \in Nat /\ s \in Nat
    BY <1>1
  <2>2. /\ \A r \in (from' + 1)..missed : r \in (from + 1)..missed
        /\ \A r \in (from' + 1)..s : r \in (from + 1)..s
    BY <2>1, Further
  <2>3. missed' = missed \/ missed' = s
    BY DEF s
  <2> QED BY <1>3, <1>4, <2>2, <2>3
<1>6. \A r \in DOMAIN plan : plan[r].nested => plan[r].fan # "else"
  BY DEF ShapeInv, PlansAssumption
<1>7. Counts(missed)' => Counts(failed)'
  <2> SUFFICES ASSUME missed' # 0, \A e \in (missed' + 1)..from' : plan[e].fan # "else"
               PROVE  failed' # 0 /\ \A e \in (failed' + 1)..from' : plan[e].fan # "else"
    BY DEF Counts
  <2>1. CASE failed' = s
    <3>1. \A e \in (s + 1)..from' : e \in (from + 1)..missed' \/ e \in (missed' + 1)..from'
      BY <1>1, <2>1 DEF s
    <3>2. \A e \in (from + 1)..missed' : plan[e].fan # "else"
      BY <1>1, <1>3, <1>4, <1>6, <2>1 DEF s
    <3> QED BY <1>1, <2>1, <3>1, <3>2
  <2>2. CASE failed' # s
    <3>1. failed' = failed /\ missed' = missed
      BY <2>2 DEF s
    <3>2. \A e \in (missed + 1)..from : plan[e].fan # "else"
      BY <1>1, <3>1
    <3>3. Counts(failed)
      BY <3>1, <3>2 DEF Counts, MissInv
    <3>4. \A e \in (from + 1)..missed : plan[e].fan # "else"
      BY <1>1, <1>4, <1>6
    <3>5. \A e \in (failed + 1)..from' :
            \/ e \in (failed + 1)..from \/ e \in (from + 1)..missed \/ e \in (missed + 1)..from'
      BY <1>1
    <3> QED BY <3>1, <3>3, <3>4, <3>5 DEF Counts
  <2> QED BY <2>1, <2>2
<1>8. (outcome = "ok" => ~Counts(missed))'
  <2> SUFFICES ASSUME outcome' = "ok" PROVE ~Counts(missed)'
    OBVIOUS
  <2>1. from' = from /\ ~Counts(failed')
    BY DEF Stepped
  <2>2. ~Counts(failed)'
    BY <2>1 DEF Counts
  <2> QED BY <1>7, <2>2
<1>9. (\A r \in (from + 1)..missed : plan[r].nested)'
  BY <1>5
<1> QED BY <1>2, <1>7, <1>8, <1>9 DEF MissInv

LEMMA MissStep ==
    PlansAssumption /\ SizesAssumption /\ ShapeInv /\ MissInv /\ [Next]_vars => MissInv'
<1> SUFFICES ASSUME PlansAssumption, SizesAssumption, ShapeInv, MissInv, [Next]_vars
             PROVE  MissInv'
  OBVIOUS
<1>1. ASSUME NEW id \in DOMAIN tasks, Step(id) PROVE MissInv'
  <2>1. Running /\ (Passes(id) \/ Misses(id))
    BY <1>1, StepCases
  <2>2. CASE Passes(id)
    BY <2>2, MissKept DEF Passes
  <2>3. CASE Misses(id)
    <3>1. /\ Stepped /\ plan' = plan
          /\ failed' = IF Remembers(StageOf(id)) THEN StageNo(id) ELSE failed
          /\ missed' = IF StageOf(id).gives # {} THEN StageNo(id) ELSE missed
      BY <2>1, <2>3, MissSteps DEF Misses
    <3>2. CASE Remembers(StageOf(id)) \/ StageOf(id).gives = {}
      BY <3>1, <3>2, MissKept
    <3>3. CASE ~Remembers(StageOf(id)) /\ StageOf(id).gives # {}
      <4>1. StageOf(id).fail = "on" /\ MadeUp(plan, StageNo(id))
        BY <3>3, IdStage DEF Remembers, PlansAssumption, StageOf
      <4>2. /\ StageNo(id) = 1 /\ outcome' = "running"
            /\ from' \in 2..Len(plan) /\ plan[from'].fan = "else"
        BY <2>1, <2>3, <4>1, MadeUpSteps
      <4>3. missed' = 1 /\ plan' = plan /\ Len(plan) \in Nat
        BY <3>1, <3>3, <4>2, IdStage
      <4>4. ~Counts(missed)'
        BY <4>2, <4>3 DEF Counts
      <4>5. from' # 1 /\ \A r \in (from' + 1)..missed' : plan'[r].nested
        <5>1. from' \in Nat /\ from' >= 2
          BY <4>2, <4>3
        <5>2. \A r \in (from' + 1)..1 : FALSE
          BY <5>1, NoneBetween
        <5> QED BY <4>3, <5>1, <5>2
      <4> QED BY <4>2, <4>4, <4>5 DEF MissInv
    <3> QED BY <3>2, <3>3
  <2> QED BY <2>1, <2>2, <2>3
<1>2. CASE DeadlinePasses
  BY <1>2 DEF DeadlinePasses, MissInv, Counts
<1>3. CASE TimeIsUp
  BY <1>3 DEF TimeIsUp, Return, MissInv, Counts
<1>4. CASE Cut
  BY <1>4 DEF Cut, MissInv, Counts
<1>5. CASE UNCHANGED vars
  BY <1>5 DEF vars, MissInv, Counts
<1> QED BY <1>1, <1>2, <1>3, <1>4, <1>5 DEF Next, Returned

(* A search answers with success only if no page it asked for was missed       *)
(* without another way being gone since: the remembered error of any provider  *)
(* survives to the end of its search.                                          *)
THEOREM SuccessIsWholeCorrect == Spec => []SuccessIsWhole
<1>1. Init => MissInv
  <2> SUFFICES ASSUME Init PROVE MissInv
    OBVIOUS
  <2>1. from = 1 /\ carry = 0 /\ missed = 0 /\ outcome = "running"
    BY DEF Init
  <2> QED BY <2>1 DEF MissInv, Counts
<1>2. ShapeInv /\ MissInv /\ [Next]_vars => MissInv'
  BY PlansAssumption, SizesAssumption, MissStep
<1>3. MissInv => SuccessIsWhole
  BY DEF MissInv, SuccessIsWhole
<1> QED BY <1>1, <1>2, <1>3, ShapeCorrect, PTL DEF Spec

(* A task of a stage that is not nested belongs to the stage under way.        *)
LEMMA AtFrom ==
    ASSUME PlansAssumption, ShapeInv, NEW id \in DOMAIN tasks, ~StageOf(id).nested
    PROVE  StageNo(id) = from
<1>1. StageNo(id) \in from..Len(plan) /\ from \in Nat /\ Len(plan) \in Nat
  BY IdStage
<1>2. \A r \in (from + 1)..StageNo(id) : plan[r].nested
  BY DEF ShapeInv, Placed, StageNo
<1>3. StageNo(id) \notin (from + 1)..StageNo(id)
  BY <1>2 DEF StageOf
<1> QED BY <1>1, <1>3

(* A task is settled once it is done, where nothing is nested.                 *)
LEMMA AloneSettled ==
    ASSUME PlansAssumption, ShapeInv, from < Len(plan) => ~plan[from + 1].nested,
           NEW ts, DOMAIN ts \subseteq DOMAIN tasks,
           NEW id \in DOMAIN ts, ts[id].st = "done"
    PROVE  Settled(id, ts)
<1> SUFFICES ASSUME NEW j \in DOMAIN ts, IsPrefix(id, j) PROVE j = id
  BY DEF Settled
<1>1. /\ id \in Seq(Nat) /\ j \in Seq(Nat)
      /\ Len(id) = 1 /\ Len(j) = 1
  BY Flat, IdStage
<1> QED BY <1>1 DEF IsPrefix

(* Rows of a prompt stage are published by the step that read them.            *)
LEMMA RowsPrompt ==
    ASSUME PlansAssumption, ShapeInv, NEW id \in DOMAIN tasks,
           NEW ts, id \in DOMAIN ts, ts[id].st = "done",
           StageNo(id) = Len(plan) \/ ~plan[StageNo(id) + 1].nested
             => DOMAIN ts \subseteq DOMAIN tasks,
           Prompt(plan, StageNo(id)), NEW r, r[1] = StageNo(id), r[2] = id
    PROVE  Published(r, ts)
<1>1. CASE StageOf(id).live = "job"
  BY <1>1 DEF Published, StageOf
<1>2. CASE StageOf(id).live # "job"
  <2>1. /\ StageOf(id).live = "yield" /\ ~StageOf(id).ordered /\ ~StageOf(id).nested
        /\ StageNo(id) < Len(plan) => ~plan[StageNo(id) + 1].nested
    BY <1>2 DEF Prompt, StageOf
  <2>2. StageNo(id) = from
    BY <2>1, AtFrom
  <2>3. DOMAIN ts \subseteq DOMAIN tasks
    BY <2>1, IdStage
  <2>4. Settled(id, ts)
    BY <2>1, <2>2, <2>3, AloneSettled
  <2> QED BY <2>1, <2>2, <2>4 DEF Published, Yielded, StageOf
<1> QED BY <1>1, <1>2

(* A conclusive stage with rows ends the search with success.                  *)
LEMMA RowsConclude ==
    ASSUME PlansAssumption, SizesAssumption, ShapeInv, RowsInv, Running,
           NEW id \in DOMAIN tasks, NEW ts, Had(id, ts), GoOn(ts), plan' = plan,
           Conclusive(plan, StageNo(id)),
           failed' = failed \/ (failed' = StageNo(id) /\ Lenient(StageOf(id)))
    PROVE  outcome' = "ok"
<1>1. /\ plan[from].fan = "one" /\ (from < Len(plan) => ~plan[from + 1].nested)
      /\ \A t \in (from + 1)..Len(plan) : plan[t].instead /\ ~plan[from].instead
      /\ StageNo(id) = from
  <2>1. StageNo(id) = from
    BY AtFrom DEF Conclusive, StageOf
  <2> QED BY <2>1, IdStage DEF Conclusive
<1>2. failed' = 0
  <2>1. failed = 0
    BY PlanSeq DEF RowsInv, ShapeInv, Conclusive
  <2>2. ~Lenient(StageOf(id))
    BY IdStage DEF Conclusive, StageOf
  <2> QED BY <2>1, <2>2
<1>3. /\ DOMAIN ts \subseteq DOMAIN tasks /\ id \in DOMAIN ts /\ ts[id].st = "done"
      /\ Placed(ts, from)
  BY <1>1, IdStage DEF Had
<1>4. \A j \in DOMAIN ts : j = id
  BY <1>1, <1>3, Flat
<1>5. \A j \in DOMAIN ts : Settled(j, ts)
  BY <1>1, <1>3, <1>4, AloneSettled
<1> DEFINE s == from + Deepest(ts)
           n == carry + Given(ts)
<1>6. s \in Nat \ {0} /\ s > from /\ Enter(s, n)
  <2>1. Enter(s, n)
    BY <1>5 DEF GoOn
  <2>2. from \in Nat /\ Deepest(ts) \in Nat \ {0}
    BY <1>3, DeepestIn, IdStage
  <2> QED BY <2>1, <2>2
<1> HIDE DEF s, n
<1>7. Began(s, n) \/ Ended(s, n)
  BY <1>6, EnterGoes DEF ShapeInv
<1>8. ~Began(s, n)
  <2> SUFFICES ASSUME Began(s, n) PROVE FALSE
    OBVIOUS
  <2>1. from' \in (from + 1)..Len(plan) /\ ~Skipped(from')
    BY <1>6, IdStage DEF Began
  <2> QED BY <1>1, <2>1 DEF Skipped
<1> QED BY <1>2, <1>7, <1>8 DEF Ended, Counts

LEMMA HasRows ==
    ASSUME PlansAssumption, SizesAssumption, ShapeInv, RowsInv, Running,
           NEW id \in DOMAIN tasks, NEW n \in Nat, Has(id, n)
    PROVE  outcome' # "ok" => rows' = {}
<1>1. PICK ts : Had(id, ts)
  BY HasTasks
<1>2. rows = {} /\ plan' = plan
  BY DEF RowsInv, Running, Has
<1>3. CASE rows' = rows
  BY <1>2, <1>3
<1>4. CASE /\ GoOn(ts)
           /\ failed' = failed \/ (failed' = StageNo(id) /\ Lenient(StageOf(id)))
           /\ \E found :
                /\ Publish(found, ts)
                /\ \A r \in found :
                     r[1] = StageNo(id) /\ r[2] = id /\ "rows" \in StageOf(id).gives
  <2>1. PICK found : /\ Publish(found, ts)
                     /\ \A r \in found :
                          r[1] = StageNo(id) /\ r[2] = id /\ "rows" \in StageOf(id).gives
    BY <1>4
  <2>2. CASE found = {}
    BY <1>2, <2>1, <2>2 DEF Publish
  <2>3. CASE found # {} /\ Prompt(plan, StageNo(id))
    <3>1. \A r \in found : Published(r, ts)
      BY <1>1, <2>1, <2>3, RowsPrompt DEF Had
    <3> QED BY <1>2, <2>1, <3>1 DEF Publish
  <2>4. CASE found # {} /\ ~Prompt(plan, StageNo(id))
    <3>1. "rows" \in StageOf(id).gives
      BY <2>1, <2>4
    <3>2. Conclusive(plan, StageNo(id))
      BY <2>4, <3>1, IdStage DEF PlansAssumption, StageOf
    <3> QED BY <1>1, <1>2, <1>4, <3>2, RowsConclude
  <2> QED BY <2>2, <2>3, <2>4
<1> QED BY <1>1, <1>3, <1>4 DEF Had

(* Rows of a body that is still open are published as they arrive.             *)
LEMMA ChunkRows ==
    ASSUME PlansAssumption, ShapeInv, RowsInv, NEW id \in DOMAIN tasks, Chunk(id)
    PROVE  rows' = {}
<1> DEFINE n == tasks[id].items + 1
           found == IF over \/ "rows" \notin StageOf(id).gives THEN {}
                    ELSE {<<StageNo(id), id, n>>}
<1>1. rows = {} /\ StageOf(id).streams
  BY DEF RowsInv, Running, Chunk
<1>2. PICK ts : Publish(found, ts)
  BY DEF Chunk
<1>3. "rows" \in StageOf(id).gives => StageOf(id).live = "job"
  BY <1>1, IdStage DEF PlansAssumption, Prompt, Conclusive, StageOf
<1>4. \A r \in found : r[1] = StageNo(id) /\ StageOf(id).live = "job"
  BY <1>3
<1> HIDE DEF found
<1>5. \A r \in found : Published(r, ts)
  BY <1>4 DEF Published, StageOf
<1> QED BY <1>1, <1>2, <1>5 DEF Publish

LEMMA RowsStep ==
    PlansAssumption /\ SizesAssumption /\ ShapeInv /\ RowsInv /\ [Next]_vars => RowsInv'
<1> SUFFICES ASSUME PlansAssumption, SizesAssumption, ShapeInv, RowsInv, [Next]_vars
             PROVE  RowsInv'
  OBVIOUS
<1>1. ASSUME NEW id \in DOMAIN tasks, Step(id) PROVE RowsInv'
  <2>1. Running /\ rows = {} /\ (failed # 0 => Lenient(plan[failed]))
    BY <1>1, StepCases DEF RowsInv, Running
  <2>2. CASE Misses(id)
    <3>1. /\ plan' = plan /\ rows' = {}
          /\ failed' = IF Remembers(StageOf(id)) THEN StageNo(id) ELSE failed
          /\ StageOf(id).fail = "abort" => outcome' = "err"
      BY <2>1, <2>2, MissSteps DEF Misses
    <3>2. StageOf(id).fail \in {"abort", "keep", "on", "stop"}
      BY <2>2, IdStage, StageTyped DEF StageOf, Stages, Misses
    <3>3. Remembers(StageOf(id)) => StageOf(id).fail = "abort" \/ Lenient(StageOf(id))
      BY <3>2 DEF Remembers, Lenient
    <3> QED BY <2>1, <3>1, <3>3 DEF RowsInv, Running, StageOf
  <2>3. CASE Passes(id) /\ ~Misses(id)
    <3>1. rows' = rows \/ (\E n \in Nat : Has(id, n)) \/ Chunk(id)
      BY <1>1, <2>3, StepCases
    <3>2. outcome' # "ok" => rows' = {}
      BY <2>1, <3>1, HasRows, ChunkRows
    <3> QED BY <2>1, <2>3, <3>2 DEF Passes, RowsInv, Running, StageOf
  <2> QED BY <1>1, <2>2, <2>3, StepCases
<1>2. CASE DeadlinePasses
  BY <1>2 DEF DeadlinePasses, RowsInv, Running
<1>3. CASE TimeIsUp
  BY <1>3 DEF TimeIsUp, Return, RowsInv, Running
<1>4. CASE Cut
  BY <1>4 DEF Cut, RowsInv, Running
<1>5. CASE UNCHANGED vars
  BY <1>5 DEF vars, RowsInv, Running
<1> QED BY <1>1, <1>2, <1>3, <1>4, <1>5 DEF Next, Returned

(* A search that fails, is out of time or is dropped by the engine has         *)
(* published every row it read in time, whatever its plan.                     *)
THEOREM RowsSurviveCorrect == Spec => []RowsSurvive
<1>1. Init => RowsInv
  BY DEF Init, RowsInv
<1>2. ShapeInv /\ RowsInv /\ [Next]_vars => RowsInv'
  BY PlansAssumption, SizesAssumption, RowsStep
<1>3. RowsInv => RowsSurvive
  BY DEF RowsInv, RowsSurvive
<1> QED BY <1>1, <1>2, <1>3, ShapeCorrect, PTL DEF Spec
=============================================================================
