------------------------- MODULE SearchEngineProofs -------------------------
(* Theorems about SearchEngine for any number of providers and channels, any *)
(* --jobs, any timeouts and any set of links.                                 *)
(*                                                                            *)
(* The inductive invariant adds three things to the type invariant.  Places:  *)
(* no source is queued, running and accepted at once.  Counts: the counters   *)
(* are the cardinalities of the sets of sources they stand for.  Rows: where  *)
(* the rows of a source are at each point, which is what makes the last       *)
(* snapshot complete and the seal of a collector effective.                   *)
EXTENDS SearchEngine, FiniteSetTheorems, TLAPS

Places ==
    /\ \A j, k \in 1 .. Len(queue) : queue[j] = queue[k] => j = k
    /\ \A k \in 1 .. Len(queue) : queue[k] \notin tasks \cup started
    /\ Accepted \subseteq started
    /\ Accepted \cap tasks = {}
    /\ pc = "poll" => cur \in tasks \cap started
    /\ pc = "recheck" => cur \in started \ (tasks \cup Accepted)

Counts ==
    /\ sourcesStarted = Cardinality(started)
    /\ errors \subseteq Accepted
    /\ pc # "done" => successfulSources + Cardinality(errors) = Cardinality(Accepted)
    /\ pc = "done" => /\ summary.cancelled >= 0
                      /\ summary.notStarted = Cardinality(Source \ started)

Rows ==
    /\ pc # "done" => registered = (started \cap Provider) \ Accepted
    /\ pc = "done" => started \cap Provider \subseteq Accepted
    /\ sealed = Accepted \cap Provider
    /\ \A i \in Source : i \notin started \cap Provider => collector[i] = {}
    /\ \A i \in Accepted : batches[i] \subseteq Kept
    /\ \A i \in Accepted \cap Provider : batches[i] = collector[i] \cap Kept
    /\ emitted = UNION {batches[i] : i \in Accepted}

HandedOver ==
    /\ \A i \in Source : collector[i] \subseteq onTime
    /\ \A i \in Accepted : batches[i] \subseteq onTime
    /\ finished.rows \subseteq onTime

IInv == TypeOK /\ Places /\ Counts /\ Rows /\ HandedOver

USE SourceAssumption, TimeAssumption, DataAssumption
    DEF SourceAssumption, TimeAssumption, DataAssumption

-----------------------------------------------------------------------------
(* Every set of sources is finite.                                            *)
LEMMA SourcesFinite ==
    /\ IsFiniteSet(Source) /\ Cardinality(Source) = Selected
    /\ \A S : S \subseteq Source => IsFiniteSet(S) /\ Cardinality(S) \in Nat
<1>1. IsFiniteSet(Source) /\ Cardinality(Source) = Selected
  <2>1. 1 \in Int /\ NumProviders + NumChannels \in Nat
    OBVIOUS
  <2>2. Cardinality(Source) = IF 1 > Selected THEN 0 ELSE Selected - 1 + 1
    BY <2>1, FS_Interval DEF Source, Selected
  <2>3. IsFiniteSet(Source)
    BY <2>1, FS_Interval DEF Source
  <2> QED BY <2>1, <2>2, <2>3 DEF Selected
<1>2. ASSUME NEW S, S \subseteq Source
      PROVE  IsFiniteSet(S) /\ Cardinality(S) \in Nat
  BY <1>1, <1>2, FS_Subset, FS_CardinalityType
<1> QED BY <1>1, <1>2

(* The number of queued sources that get a slot fits the queue.               *)
LEMMA FilledInQueue ==
    ASSUME queue \in Seq(Source), tasks \subseteq Source
    PROVE  Filled \in 0 .. Len(queue)
BY SourcesFinite DEF Filled, Earlier, Slots

-----------------------------------------------------------------------------
(* The initial state satisfies the invariant.                                 *)
LEMMA InitInv == Init => IInv
<1> SUFFICES ASSUME Init PROVE IInv
  OBVIOUS
<1>1. TypeOK
  <2>1. queue \in Seq(Source)
    BY DEF Init, Source
  <2>2. Accepted = {} /\ batches \in [Accepted -> SUBSET Links]
    BY DEF Init, Accepted
  <2>3. deadline \in [Source -> 0 .. AllTimeout] /\ collector \in [Source -> SUBSET Links]
    BY DEF Init
  <2> QED BY <2>1, <2>2, <2>3 DEF Init, TypeOK, Nothing, Loop
<1>2. Places
  BY DEF Init, Places, Accepted, Source
<1>3. Counts
  BY FS_EmptySet DEF Init, Counts, Accepted
<1>4. Rows /\ HandedOver
  BY DEF Init, Rows, HandedOver, Accepted, Nothing
<1> QED BY <1>1, <1>2, <1>3, <1>4 DEF IInv

(* Leaving the loop disturbs nothing but pc and reason.                       *)
LEMMA BreakInv ==
    ASSUME IInv, NEW why \in {"completed", "deadline", "interrupted"}, Break(why),
           pc \in Loop
    PROVE  IInv'
<1> USE DEF Break, poolVars, rowVars, countVars, envVars
<1>1. TypeOK'  BY DEF IInv, TypeOK, Accepted, Loop
<1>2. Places'  BY DEF IInv, Places, Accepted
<1>3. Counts'  BY DEF IInv, Counts, Accepted, Loop
<1>4. Rows' /\ HandedOver'  BY DEF IInv, Rows, HandedOver, Accepted, Loop
<1> QED BY <1>1, <1>2, <1>3, <1>4 DEF IInv

LEMMA FillInv == ASSUME IInv, Fill PROVE IInv'
<1>0. Filled \in 0 .. Len(queue)
  BY FilledInQueue DEF IInv, TypeOK
<1>1. /\ queue' \in Seq(Source) /\ Len(queue') = Len(queue) - Filled
      /\ \A k \in 1 .. Len(queue') : queue'[k] = queue[Filled + k]
  BY <1>0 DEF IInv, TypeOK, Fill, Unfilled
<1>2. tasks' = tasks \cup {queue[k] : k \in 1 .. Filled} /\ tasks' \subseteq Source
  BY <1>0 DEF IInv, TypeOK, Fill
<1> USE DEF Fill, poolVars, rowVars, countVars, envVars, endVars
<1>3. TypeOK'
  BY <1>1, <1>2 DEF IInv, TypeOK, Accepted, Loop
<1>4. Places'
  <2>1. \A j, k \in 1 .. Len(queue') : queue'[j] = queue'[k] => j = k
    <3> TAKE j, k \in 1 .. Len(queue')
    <3>1. Filled + j \in 1 .. Len(queue) /\ Filled + k \in 1 .. Len(queue)
      BY <1>0, <1>1 DEF IInv, TypeOK
    <3>2. queue'[j] = queue[Filled + j] /\ queue'[k] = queue[Filled + k]
      BY <1>1
    <3>3. queue'[j] = queue'[k] => Filled + j = Filled + k
      BY <3>1, <3>2 DEF IInv, Places
    <3>4. Filled \in Nat /\ j \in Int /\ k \in Int
      BY <1>0, <1>1 DEF IInv, TypeOK
    <3> QED BY <3>3, <3>4
  <2>2. \A k \in 1 .. Len(queue') : queue'[k] \notin tasks' \cup started'
    <3> TAKE k \in 1 .. Len(queue')
    <3>1. Filled + k \in 1 .. Len(queue) /\ queue'[k] = queue[Filled + k]
      BY <1>0, <1>1 DEF IInv, TypeOK
    <3>2. \A j \in 1 .. Filled : j \in 1 .. Len(queue) /\ j # Filled + k
      BY <1>0, <3>1
    <3>3. queue[Filled + k] \notin tasks \cup started
      BY <3>1 DEF IInv, Places
    <3>4. \A j \in 1 .. Filled : queue[j] # queue[Filled + k]
      BY <3>1, <3>2 DEF IInv, Places
    <3> QED BY <1>2, <3>1, <3>3, <3>4
  <2>3. Accepted' \cap tasks' = {} /\ Accepted' \subseteq started'
    <3>1. \A k \in 1 .. Filled : queue[k] \notin started
      BY <1>0 DEF IInv, Places, TypeOK
    <3> QED BY <1>2, <3>1 DEF IInv, Places, Accepted
  <2> QED BY <2>1, <2>2, <2>3 DEF Places
<1>5. Counts'
  BY DEF IInv, Counts, Accepted
<1>6. Rows' /\ HandedOver'
  BY DEF IInv, Rows, HandedOver, Accepted
<1> QED BY <1>3, <1>4, <1>5, <1>6 DEF IInv

LEMMA PollInv == ASSUME IInv, NEW i \in Source, Poll(i) PROVE IInv'
<1> USE DEF Poll, FirstPoll, envVars, endVars
<1>1. Budget \in 0 .. AllTimeout
  BY DEF IInv, TypeOK, Budget, Earlier
<1>2. TypeOK'
  BY <1>1 DEF IInv, TypeOK, Accepted, Loop
<1>3. Places'
  BY DEF IInv, Places, Accepted, TypeOK
<1>4. Counts'
  <2>1. CASE i \in started
    BY <2>1 DEF IInv, Counts, Accepted
  <2>2. CASE i \notin started
    <3>1. Cardinality(started \cup {i}) = Cardinality(started) + 1
      BY <2>2, SourcesFinite, FS_AddElement DEF IInv, TypeOK
    <3> QED BY <2>2, <3>1 DEF IInv, Counts, Accepted
  <2> QED BY <2>1, <2>2
<1>5. Rows'
  BY DEF IInv, Rows, Places, Accepted, TypeOK
<1>6. HandedOver'
  BY DEF IInv, HandedOver, Accepted
<1> QED BY <1>2, <1>3, <1>4, <1>5, <1>6 DEF IInv

(* A publication reaches an open collector only, so no accepted batch moves.  *)
LEMMA PublishInv ==
    ASSUME IInv, NEW i \in started \cap Provider, NEW l \in Links, Publish(i, {l})
    PROVE  IInv' /\ pc # "done"
<1> USE DEF Publish, CanPublish, poolVars, countVars, envVars, endVars
<1>1. i \in Source /\ i \notin sealed /\ i \notin Accepted /\ ~Late(i)
  BY DEF IInv, TypeOK, Rows
<1>2. pc # "done"
  BY <1>1 DEF IInv, Rows
<1>3. TypeOK'
  BY <1>1 DEF IInv, TypeOK, Accepted
<1>4. Places' /\ Counts'
  BY DEF IInv, Places, Counts, Accepted
<1>5. Rows'
  BY <1>1, <1>2 DEF IInv, Rows, Accepted, TypeOK
<1>6. HandedOver'
  BY <1>1 DEF IInv, HandedOver, Accepted, TypeOK
<1> QED BY <1>2, <1>3, <1>4, <1>5, <1>6 DEF IInv

LEMMA PollEndsInv == ASSUME IInv, PollEnds PROVE IInv'
<1>1. CASE PollPending
  <2> USE <1>1 DEF PollPending, poolVars, rowVars, countVars, envVars, endVars
  <2>1. TypeOK'  BY DEF IInv, TypeOK, Accepted, Loop
  <2>2. Places' /\ Counts'  BY DEF IInv, Places, Counts, Accepted
  <2>3. Rows' /\ HandedOver'  BY DEF IInv, Rows, HandedOver, Accepted
  <2> QED BY <2>1, <2>2, <2>3 DEF IInv
<1>2. ASSUME NEW r \in [ok : BOOLEAN, rows : SUBSET Links], PollReturns(r),
             onTime \subseteq onTime', onTime' \subseteq Links, r.rows \subseteq onTime',
             pc = "poll"
      PROVE  IInv'
  <2> USE <1>2 DEF PollReturns, rowVars, countVars, envVars, endVars
  <2>1. TypeOK'  BY DEF IInv, TypeOK, Accepted, Loop
  <2>2. Places'  BY DEF IInv, Places, Accepted, TypeOK
  <2>3. Counts'  BY DEF IInv, Counts, Accepted
  <2>4. Rows'  BY DEF IInv, Rows, Accepted
  <2>5. HandedOver'  BY DEF IInv, HandedOver, Accepted, TypeOK
  <2> QED BY <2>1, <2>2, <2>3, <2>4, <2>5 DEF IInv
<1>3. CASE PollOk
  <2>1. PICK rows \in SUBSET Links :
          /\ PollReturns(RejectLate(cur, [ok |-> TRUE, rows |-> rows]))
          /\ onTime' = IF Late(cur) THEN onTime ELSE onTime \cup rows
    BY <1>3 DEF PollOk
  <2>2. RejectLate(cur, [ok |-> TRUE, rows |-> rows]) \in [ok : BOOLEAN, rows : SUBSET Links]
    BY DEF RejectLate, Nothing
  <2>3. RejectLate(cur, [ok |-> TRUE, rows |-> rows]).rows \subseteq onTime'
    BY <2>1 DEF RejectLate, Nothing
  <2> QED BY <1>2, <1>3, <2>1, <2>2, <2>3 DEF PollOk, IInv, TypeOK
<1>4. CASE PollErr
  BY <1>2, <1>4 DEF PollErr, Nothing, IInv, TypeOK
<1> QED BY <1>1, <1>3, <1>4 DEF PollEnds

(* Accepting a batch moves the rows of one source from its collector to the   *)
(* batches, unchanged but for the filters.                                    *)
LEMMA AcceptInv == ASSUME IInv, Accept PROVE IInv'
<1> USE DEF Accept, poolVars, envVars, endVars
<1>1. cur \in Source /\ cur \in started /\ cur \notin Accepted /\ cur \notin tasks
  BY DEF IInv, Places, TypeOK
<1>2. Accepted' = Accepted \cup {cur} /\ batches' \in [Accepted' -> SUBSET Links]
  <2>1. BatchOf(cur) \subseteq Links
    BY DEF BatchOf, Filtered
  <2> QED BY <2>1 DEF Accepted, IInv, TypeOK
<1>3. batches'[cur] = BatchOf(cur) /\ \A i \in Accepted : batches'[i] = batches[i]
  BY <1>1 DEF Accepted
<1>4. emitted' = UNION {batches'[i] : i \in Accepted'}
  <2>1. {batches'[i] : i \in Accepted} = {batches[i] : i \in Accepted}
    BY <1>3
  <2>2. {batches'[i] : i \in Accepted'} = {batches[i] : i \in Accepted} \cup {BatchOf(cur)}
    BY <1>2, <1>3, <2>1
  <2> QED BY <2>2 DEF IInv, Rows
<1>5. cur \in registered <=> cur \in Provider
  BY <1>1 DEF IInv, Rows
<1>6. ASSUME cur \in Provider
      PROVE  Rows' /\ HandedOver' /\ collector' \in [Source -> SUBSET Links] /\ sealed' \subseteq Source
  <2>1. /\ collector' = [collector EXCEPT ![cur] = collector[cur] \cup finished.rows]
        /\ sealed' = sealed \cup {cur}
        /\ BatchOf(cur) = (collector[cur] \cup finished.rows) \cap Kept
    BY <1>1, <1>5, <1>6 DEF BatchOf, Finish, Filtered, IInv, Rows
  <2>2. Rows'
    <3>1. registered' = (started' \cap Provider) \ Accepted' /\ sealed' = Accepted' \cap Provider
      BY <1>2, <1>5, <1>6, <2>1 DEF IInv, Rows
    <3>2. \A i \in Source : i \notin started \cap Provider => collector'[i] = {}
      BY <1>1, <1>6, <2>1 DEF IInv, Rows, TypeOK
    <3>3. \A i \in Accepted' : batches'[i] \subseteq Kept
      BY <1>2, <1>3, <2>1 DEF IInv, Rows
    <3>4. \A i \in Accepted' \cap Provider : batches'[i] = collector'[i] \cap Kept
      BY <1>1, <1>2, <1>3, <2>1 DEF IInv, Rows, TypeOK
    <3> QED BY <1>4, <3>1, <3>2, <3>3, <3>4 DEF Rows
  <2>3. HandedOver'
    <3>1. BatchOf(cur) \subseteq onTime
      BY <1>1, <2>1 DEF IInv, HandedOver
    <3> QED BY <1>1, <1>2, <1>3, <2>1, <3>1 DEF IInv, HandedOver, TypeOK
  <2>4. collector' \in [Source -> SUBSET Links] /\ sealed' \subseteq Source
    BY <1>1, <2>1 DEF IInv, TypeOK
  <2> QED BY <2>2, <2>3, <2>4
<1>7. ASSUME cur \notin Provider
      PROVE  Rows' /\ HandedOver' /\ collector' \in [Source -> SUBSET Links] /\ sealed' \subseteq Source
  <2>1. BatchOf(cur) = finished.rows \cap Kept /\ UNCHANGED <<collector, sealed>>
    BY <1>5, <1>7 DEF BatchOf, Filtered
  <2>2. Rows'
    <3>1. registered' = (started' \cap Provider) \ Accepted' /\ sealed' = Accepted' \cap Provider
      BY <1>2, <1>5, <1>7, <2>1 DEF IInv, Rows
    <3>2. \A i \in Accepted' : batches'[i] \subseteq Kept
      BY <1>2, <1>3, <2>1 DEF IInv, Rows
    <3>3. \A i \in Accepted' \cap Provider : batches'[i] = collector'[i] \cap Kept
      BY <1>2, <1>3, <1>7, <2>1 DEF IInv, Rows
    <3>4. pc' # "done" /\ \A i \in Source : i \notin started' \cap Provider => collector'[i] = {}
      BY <2>1 DEF IInv, Rows
    <3> QED BY <1>4, <3>1, <3>2, <3>3, <3>4 DEF Rows
  <2>3. HandedOver'
    <3>1. BatchOf(cur) \subseteq onTime
      BY <2>1 DEF IInv, HandedOver
    <3> QED BY <1>2, <1>3, <2>1, <3>1 DEF IInv, HandedOver
  <2>4. collector' \in [Source -> SUBSET Links] /\ sealed' \subseteq Source
    BY <2>1 DEF IInv, TypeOK
  <2> QED BY <2>2, <2>3, <2>4
<1>8. Rows' /\ HandedOver' /\ collector' \in [Source -> SUBSET Links] /\ sealed' \subseteq Source
  BY <1>6, <1>7
<1>9. TypeOK'
  <2>1. emitted' \subseteq Links /\ Accepted' \subseteq Source
    BY <1>1, <1>2 DEF BatchOf, Filtered, IInv, TypeOK
  <2>2. errors' \subseteq Source /\ successfulSources' \in Nat
    BY <1>1 DEF IInv, TypeOK
  <2> QED BY <1>2, <1>8, <2>1, <2>2 DEF IInv, TypeOK, Loop
<1>10. Places'
  BY <1>1, <1>2 DEF IInv, Places
<1>11. Counts'
  <2>1. Cardinality(Accepted') = Cardinality(Accepted) + 1
    BY <1>1, <1>2, SourcesFinite, FS_AddElement DEF IInv, TypeOK
  <2>2. Cardinality(errors \cup {cur}) = Cardinality(errors) + 1 /\ Cardinality(errors) \in Nat
    BY <1>1, SourcesFinite, FS_AddElement DEF IInv, TypeOK, Counts
  <2>3. Cardinality(Accepted) \in Nat
    BY SourcesFinite DEF IInv, TypeOK
  <2>4. successfulSources + Cardinality(errors) = Cardinality(Accepted)
    BY DEF IInv, Counts
  <2>5. successfulSources' + Cardinality(errors') = Cardinality(Accepted')
    <3>1. CASE finished.ok
      BY <3>1, <2>1, <2>2, <2>3, <2>4 DEF IInv, TypeOK
    <3>2. CASE ~finished.ok
      <4>1. errors' = errors \cup {cur} /\ successfulSources' = successfulSources
        BY <3>2
      <4>2. successfulSources \in Nat
        BY DEF IInv, TypeOK
      <4> QED BY <4>1, <4>2, <2>1, <2>2, <2>3, <2>4
    <3> QED BY <3>1, <3>2
  <2>6. errors' \subseteq Accepted'
    BY <1>2 DEF IInv, Counts
  <2> QED BY <2>5, <2>6 DEF IInv, Counts
<1> QED BY <1>8, <1>9, <1>10, <1>11 DEF IInv

(* The end keeps the rows of every source cut off and computes its counts     *)
(* without underflow.                                                         *)
LEMMA FinaliseInv == ASSUME IInv, Finalise PROVE IInv'
<1> USE DEF Finalise, countVars, envVars
<1>1. Accepted' = Accepted \cup registered
  BY DEF Accepted
<1>2. /\ registered = (started \cap Provider) \ Accepted
      /\ registered \subseteq Provider /\ registered \subseteq Source
  BY DEF IInv, Rows, TypeOK
<1>3. /\ \A i \in registered : batches'[i] = collector[i] \cap Kept
      /\ \A i \in Accepted : batches'[i] = batches[i]
  BY <1>2 DEF Snapshots, Filtered, Finish, Accepted
<1>4. batches' \in [Accepted' -> SUBSET Links] /\ Accepted' \subseteq Source
  <2>1. Accepted \subseteq Source /\ Accepted' \subseteq Source
    BY <1>1, <1>2 DEF IInv, TypeOK
  <2>2. /\ \A i \in registered : collector[i] \cap Kept \subseteq Links
        /\ \A i \in Accepted : batches[i] \subseteq Links
    BY <1>2 DEF IInv, TypeOK
  <2>3. \A i \in Accepted' : batches'[i] \subseteq Links
    BY <1>1, <1>3, <2>2
  <2>4. batches' = [i \in Accepted' |-> batches'[i]]
    BY DEF Accepted
  <2> QED BY <2>1, <2>3, <2>4
<1>5. emitted' = UNION {batches'[i] : i \in Accepted'}
  <2>1. UNION {Snapshots(i) : i \in DOMAIN batches \cup registered}
          = UNION {batches'[i] : i \in Accepted'}
    BY DEF Accepted
  <2>2. emitted \subseteq UNION {batches'[i] : i \in Accepted'}
    BY <1>1, <1>3 DEF IInv, Rows
  <2> QED BY <2>1, <2>2
<1>6. Rows'
  <2>1. /\ pc' = "done" /\ started \cap Provider \subseteq Accepted'
        /\ sealed' = Accepted' \cap Provider
    BY <1>1, <1>2 DEF IInv, Rows
  <2>2. collector' = collector /\ started' = started
    OBVIOUS
  <2>3. \A i \in Source : i \notin started' \cap Provider => collector'[i] = {}
    BY <2>2 DEF IInv, Rows
  <2>4. \A i \in Accepted' : batches'[i] \subseteq Kept
    BY <1>1, <1>3 DEF IInv, Rows
  <2>5. \A i \in Accepted' \cap Provider : batches'[i] = collector'[i] \cap Kept
    BY <1>1, <1>3, <2>2 DEF IInv, Rows
  <2> QED BY <1>5, <2>1, <2>2, <2>3, <2>4, <2>5 DEF Rows
<1>7. HandedOver'
  BY <1>1, <1>2, <1>3 DEF IInv, HandedOver
<1>8. Places'
  BY <1>1, <1>2 DEF IInv, Places
<1>9. TypeOK'
  <2>1. emitted' \subseteq Links /\ sealed' \subseteq Source
    BY <1>2, <1>4, <1>5 DEF IInv, TypeOK
  <2>2. queue' \in Seq(Source)
    OBVIOUS
  <2> QED BY <1>4, <2>1, <2>2 DEF IInv, TypeOK
<1>10. Counts'
  <2>1. Cardinality(Accepted) <= Cardinality(started)
    BY SourcesFinite, FS_Subset DEF IInv, TypeOK, Places
  <2>2. Cardinality(Source \ started) = Selected - Cardinality(started)
    <3>1. Cardinality(Source \cap started) = Cardinality(started) /\ Source \cap started = started
      BY DEF IInv, TypeOK
    <3> QED BY <3>1, SourcesFinite, FS_Difference
  <2>3. /\ Cardinality(Accepted) \in Nat /\ Cardinality(errors) \in Nat
        /\ Cardinality(started) \in Nat
    BY SourcesFinite DEF IInv, TypeOK
  <2>4. summary'.cancelled = sourcesStarted - successfulSources - Cardinality(errors)
    OBVIOUS
  <2>5. summary'.notStarted = Selected - sourcesStarted
    OBVIOUS
  <2>6. successfulSources + Cardinality(errors) = Cardinality(Accepted)
    BY DEF IInv, Counts
  <2>7. errors' \subseteq Accepted' /\ sourcesStarted' = Cardinality(started')
    BY <1>1 DEF IInv, Counts
  <2>8. summary'.cancelled >= 0
    BY <2>1, <2>3, <2>4, <2>6 DEF IInv, Counts, TypeOK
  <2>9. summary'.notStarted = Cardinality(Source \ started')
    BY <2>2, <2>5 DEF IInv, Counts
  <2> QED BY <2>7, <2>8, <2>9 DEF Counts
<1> QED BY <1>6, <1>7, <1>8, <1>9, <1>10 DEF IInv

LEMMA EnvInv == ASSUME IInv, Tick \/ Cancel \/ CloseReceiver PROVE IInv'
<1> USE DEF Tick, Cancel, CloseReceiver, poolVars, rowVars, countVars, endVars
<1>1. TypeOK'
  <2>1. now' \in Nat /\ cancel' \in BOOLEAN /\ closed' \in BOOLEAN
    <3>1. now' = now + 1 \/ now' = now
      OBVIOUS
    <3>2. cancel' = cancel \/ cancel' = TRUE
      BY Zenon
    <3>3. closed' = closed \/ closed' = TRUE
      BY Zenon
    <3>4. now \in Nat /\ cancel \in BOOLEAN /\ closed \in BOOLEAN
      BY DEF IInv, TypeOK
    <3>5. now' \in Nat
      BY <3>1, <3>4
    <3> HIDE DEF Tick, Cancel, CloseReceiver
    <3>6. cancel' \in BOOLEAN /\ closed' \in BOOLEAN
      BY <3>2, <3>3, <3>4, Zenon
    <3> QED BY <3>5, <3>6
  <2>2. UNCHANGED <<pc, cur, finished, queue, tasks, started, deadline, onTime>>
    OBVIOUS
  <2>3. UNCHANGED <<collector, sealed, registered, batches, emitted, reason>>
    OBVIOUS
  <2>4. UNCHANGED <<sourcesStarted, successfulSources, errors>>
    OBVIOUS
  <2> QED BY <2>1, <2>2, <2>3, <2>4 DEF IInv, TypeOK, Accepted
<1>2. Places' /\ Counts'  BY DEF IInv, Places, Counts, Accepted
<1>3. Rows' /\ HandedOver'  BY DEF IInv, Rows, HandedOver, Accepted
<1> QED BY <1>1, <1>2, <1>3 DEF IInv

LEMMA StutterInv == ASSUME IInv, UNCHANGED vars PROVE IInv'
<1> USE DEF vars, poolVars, rowVars, countVars, endVars, envVars
<1>1. TypeOK'  BY DEF IInv, TypeOK, Accepted
<1>2. Places' /\ Counts'  BY DEF IInv, Places, Counts, Accepted
<1>3. Rows' /\ HandedOver'  BY DEF IInv, Rows, HandedOver, Accepted
<1> QED BY <1>1, <1>2, <1>3 DEF IInv

(* Every step preserves the invariant.                                        *)
LEMMA StepInv == IInv /\ [Next]_vars => IInv'
<1> SUFFICES ASSUME IInv, [Next]_vars PROVE IInv'
  OBVIOUS
<1>1. CASE EngineStep
  <2>1. CASE StopAtTop \/ StopFires \/ StopAtRecheck
    BY <2>1, BreakInv DEF StopAtTop, StopFires, StopAtRecheck, Loop
  <2>2. CASE DeadlineFires \/ DeadlineAtRecheck
    BY <2>2, BreakInv DEF DeadlineFires, DeadlineAtRecheck, Loop
  <2>3. CASE AllFinished
    BY <2>3, BreakInv DEF AllFinished, Loop, IInv, TypeOK
  <2> QED BY <1>1, <2>1, <2>2, <2>3, FillInv, AcceptInv, FinaliseInv DEF EngineStep
<1>2. CASE \E i \in Source : Poll(i)
  BY <1>2, PollInv
<1>3. CASE PublishInPoll
  <2>1. PICK l \in Links : Publish(cur, {l})
    BY <1>3 DEF PublishInPoll
  <2>2. cur \in started \cap Provider
    BY <1>3 DEF PublishInPoll, IInv, Places
  <2> QED BY <2>1, <2>2, PublishInv
<1>4. CASE PublishRetained
  <2>1. PICK i \in Retaining \cap started, l \in Links : Publish(i, {l})
    BY <1>4 DEF PublishRetained
  <2>2. i \in started \cap Provider
    BY DEF Provider
  <2> QED BY <2>1, <2>2, PublishInv
<1>5. CASE Ended
  BY <1>5, StutterInv DEF Ended
<1> QED BY <1>1, <1>2, <1>3, <1>4, <1>5, PollEndsInv, EnvInv, StutterInv DEF Next

LEMMA Invariance == Spec => []IInv
<1> QED BY InitInv, StepInv, PTL DEF Spec

-----------------------------------------------------------------------------
(* Type correctness of the search run (engine.rs, run).                       *)
THEOREM TypeCorrect == Spec => []TypeOK
<1>1. IInv => TypeOK
  BY DEF IInv
<1> QED BY <1>1, Invariance, PTL

(* The unsigned subtractions of the summary never underflow, and the counters *)
(* of sources started, completed and failed count exactly those sources.      *)
THEOREM AccountingCorrect == Spec => []Accounting
<1>1. IInv => Accounting
  BY DEF IInv, Accounting, Counts, Places, Before, Loop
<1> QED BY <1>1, Invariance, PTL

OfferedMembers ==
    \A x : x \in Offered <=> \/ \E i \in Source : x \in collector[i]
                            \/ \E i \in Accepted : x \in batches[i]

LEMMA InOffered == OfferedMembers
<1> USE DEF OfferedMembers
<1> SUFFICES ASSUME NEW x
             PROVE  x \in Offered <=> \/ \E i \in Source : x \in collector[i]
                                     \/ \E i \in Accepted : x \in batches[i]
  OBVIOUS
<1>1. x \in UNION {collector[i] : i \in Source} <=> \E i \in Source : x \in collector[i]
  OBVIOUS
<1>2. x \in UNION {batches[i] : i \in Accepted} <=> \E i \in Accepted : x \in batches[i]
  OBVIOUS
<1>3. x \in Offered <=> \/ x \in UNION {collector[i] : i \in Source}
                       \/ x \in UNION {batches[i] : i \in Accepted}
  BY DEF Offered
<1> QED BY <1>1, <1>2, <1>3

(* What the invariant says of the rows collected and delivered: never more    *)
(* delivered than offered, and at the end exactly what passes the filters.    *)
DeliveredRows ==
    /\ emitted \subseteq Offered \cap Kept /\ Offered \subseteq Links
    /\ pc = "done" => emitted = Offered \cap Kept

LEMMA RowsDelivered == IInv => DeliveredRows
<1> SUFFICES ASSUME IInv PROVE DeliveredRows
  OBVIOUS
<1> USE DEF DeliveredRows, OfferedMembers
<1>1. Accepted \subseteq Source /\ \A i \in Accepted : batches[i] \subseteq Kept
  BY DEF IInv, TypeOK, Rows
<1>2. emitted \subseteq Offered \cap Kept
  <2> SUFFICES ASSUME NEW x \in emitted PROVE x \in Offered \cap Kept
    OBVIOUS
  <2>1. PICK i \in Accepted : x \in batches[i]
    BY DEF IInv, Rows
  <2> QED BY <1>1, <2>1, InOffered DEF IInv, TypeOK
<1>3. Offered \subseteq Links
  <2> SUFFICES ASSUME NEW x \in Offered PROVE x \in Links
    OBVIOUS
  <2>1. CASE \E i \in Source : x \in collector[i]
    BY <2>1 DEF IInv, TypeOK
  <2>2. CASE \E i \in Accepted : x \in batches[i]
    BY <2>2 DEF IInv, TypeOK
  <2> QED BY <2>1, <2>2, InOffered
<1>4. ASSUME pc = "done", NEW x \in Offered \cap Kept
      PROVE  x \in emitted
  <2>1. CASE \E i \in Accepted : x \in batches[i]
    BY <2>1 DEF IInv, Rows
  <2>2. CASE \E i \in Source : x \in collector[i]
    <3>1. PICK i \in Source : x \in collector[i]
      BY <2>2
    <3>2. i \in started \cap Provider
      BY <3>1 DEF IInv, Rows
    <3>3. i \in Accepted \cap Provider
      BY <1>4, <3>2 DEF IInv, Rows
    <3>4. x \in batches[i]
      BY <1>4, <3>1, <3>3 DEF IInv, Rows
    <3> QED BY <3>3, <3>4 DEF IInv, Rows
  <2> QED BY <1>4, <2>1, <2>2, InOffered
<1> QED BY <1>2, <1>3, <1>4

(* However a run ends, every row published in time and passing the filters    *)
(* has been delivered, and nothing else.                                      *)
THEOREM NothingLostCorrect == Spec => []NothingLost
<1>1. IInv => NothingLost
  BY RowsDelivered DEF NothingLost, DeliveredRows
<1> QED BY <1>1, Invariance, PTL

(* No link is delivered that no source handed over before its own deadline.   *)
THEOREM OnTimeOnlyCorrect == Spec => []OnTimeOnly
<1>1. IInv => OnTimeOnly
  BY DEF IInv, HandedOver, Rows, OnTimeOnly
<1> QED BY <1>1, Invariance, PTL

(* The answer of a finished run never changes, whoever kept a context.        *)
THEOREM AnswerFrozenCorrect == Spec => AnswerFrozen
<1> DEFINE Frozen == pc = "done" =>
                UNCHANGED <<pc, collector, emitted, batches, summary, reason>>
<1>1. ASSUME IInv, [Next]_vars PROVE Frozen
  <2> SUFFICES ASSUME pc = "done"
               PROVE  UNCHANGED <<pc, collector, emitted, batches, summary, reason>>
    OBVIOUS
  <2> USE DEF poolVars, rowVars, countVars, endVars, envVars, vars
  <2>1. ~EngineStep /\ ~PollEnds /\ ~PublishInPoll /\ \A i \in Source : ~Poll(i)
    BY DEF EngineStep, StopAtTop, Fill, AllFinished, DeadlineFires, StopFires,
           StopAtRecheck, DeadlineAtRecheck, Accept, Finalise, PollEnds, PollPending,
           PollOk, PollErr, PublishInPoll, Poll
  <2>2. ~PublishRetained
    <3>1. ASSUME NEW i \in Retaining \cap started, NEW l \in Links, Publish(i, {l})
          PROVE  FALSE
      <4>1. i \in started \cap Provider
        BY DEF Provider
      <4> QED BY <1>1, <3>1, <4>1, PublishInv
    <3> QED BY <3>1 DEF PublishRetained
  <2>3. CASE Tick \/ Cancel \/ CloseReceiver \/ Ended \/ UNCHANGED vars
    BY <2>3 DEF Tick, Cancel, CloseReceiver, Ended
  <2> QED BY <1>1, <2>1, <2>2, <2>3 DEF Next
<1>2. IInv /\ [Next]_vars => [pc = "done" =>
                UNCHANGED <<pc, collector, emitted, batches, summary, reason>>]_vars
  BY <1>1
<1> QED BY <1>2, Invariance, PTL DEF Spec, AnswerFrozen

-----------------------------------------------------------------------------
(* No source gets lost on its way: until the end it waits in the queue, holds  *)
(* a slot, was accepted, or is the one that has just returned.                 *)
Present ==
    pc # "done" =>
        \A i \in Source :
            \/ i \in tasks \cup Accepted
            \/ i = cur /\ i \in started /\ pc \in {"recheck", "ending"}
            \/ \E k \in 1 .. Len(queue) : queue[k] = i

LEMMA FillPresent == ASSUME IInv, Present, Fill PROVE Present'
<1>0. Filled \in 0 .. Len(queue)
  BY FilledInQueue DEF IInv, TypeOK
<1>1. /\ Len(queue') = Len(queue) - Filled
      /\ \A k \in 1 .. Len(queue') : queue'[k] = queue[Filled + k]
  BY <1>0 DEF IInv, TypeOK, Fill, Unfilled
<1>2. /\ tasks' = tasks \cup {queue[k] : k \in 1 .. Filled} /\ Accepted' = Accepted
      /\ pc = "top" /\ pc' = "select"
  BY DEF Fill, rowVars, Accepted
<1>3. ASSUME NEW i \in Source, NEW k \in 1 .. Len(queue), queue[k] = i
      PROVE  i \in tasks' \/ \E j \in 1 .. Len(queue') : queue'[j] = i
  <2>1. Len(queue) \in Nat /\ Filled \in Nat /\ k \in Nat
    BY <1>0 DEF IInv, TypeOK
  <2>2. CASE k <= Filled
    BY <1>2, <1>3, <2>1, <2>2
  <2>3. CASE k > Filled
    <3>1. k - Filled \in 1 .. Len(queue') /\ Filled + (k - Filled) = k
      BY <1>1, <2>1, <2>3
    <3> QED BY <1>1, <1>3, <3>1
  <2> QED BY <2>1, <2>2, <2>3
<1> QED BY <1>2, <1>3 DEF Present

LEMMA StepPresent == IInv /\ Present /\ [Next]_vars => Present'
<1> SUFFICES ASSUME IInv, Present, [Next]_vars PROVE Present'
  OBVIOUS
<1> USE DEF poolVars, rowVars, countVars, endVars, envVars
<1>1. CASE Accept
  <2>1. Accepted' = Accepted \cup {cur}
    BY <1>1 DEF Accept, Accepted
  <2> QED BY <1>1, <2>1 DEF Accept, Present
<1>2. CASE Finalise
  BY <1>2 DEF Finalise, Present
<1>3. CASE Fill
  BY <1>3, FillPresent
<1>4. CASE EngineStep /\ ~Accept /\ ~Finalise /\ ~Fill
  BY <1>4 DEF EngineStep, StopAtTop, AllFinished, DeadlineFires, StopFires,
              StopAtRecheck, DeadlineAtRecheck, Break, Present, Accepted
<1>5. CASE \E i \in Source : Poll(i)
  BY <1>5 DEF Poll, Present, Accepted
<1>6. CASE PollEnds
  <2>1. pc = "poll" /\ cur \in started /\ Accepted' = Accepted /\ queue' = queue
        /\ started' = started /\ cur' = cur
    BY <1>6 DEF PollEnds, PollPending, PollOk, PollErr, PollReturns, IInv, Places, Accepted
  <2>2. \/ pc' = "select" /\ tasks' = tasks
        \/ pc' = "recheck" /\ tasks' = tasks \ {cur}
    <3>1. CASE PollPending  BY <3>1 DEF PollPending
    <3>2. CASE PollOk  BY <3>2 DEF PollOk, PollReturns
    <3>3. CASE PollErr  BY <3>3 DEF PollErr, PollReturns
    <3> QED BY <1>6, <3>1, <3>2, <3>3 DEF PollEnds
  <2> QED BY <2>1, <2>2 DEF Present
<1>7. CASE PublishInPoll \/ PublishRetained
  <2>1. UNCHANGED <<pc, cur, tasks, queue, started, batches>>
    BY <1>7 DEF PublishInPoll, PublishRetained, Publish
  <2> QED BY <2>1 DEF Present, Accepted
<1>8. CASE Tick \/ Cancel \/ CloseReceiver \/ Ended \/ UNCHANGED vars
  <2>1. UNCHANGED <<pc, cur, tasks, queue, started, batches>>
    BY <1>8 DEF Tick, Cancel, CloseReceiver, Ended, vars
  <2> QED BY <2>1 DEF Present, Accepted
<1> QED BY <1>1, <1>2, <1>3, <1>4, <1>5, <1>6, <1>7, <1>8 DEF Next

LEMMA PresentOnce == ASSUME IInv, Present PROVE EverySourceOnce
<1> SUFFICES ASSUME pc \in Loop \cup {"ending"}, NEW i \in Source
             PROVE  Cardinality({k \in 1 .. Len(queue) : queue[k] = i})
                      + (IF i \in tasks THEN 1 ELSE 0)
                      + (IF i \in Accepted THEN 1 ELSE 0)
                      + (IF i = cur /\ i \in started \ (tasks \cup Accepted)
                           THEN 1 ELSE 0) = 1
  BY DEF EverySourceOnce
<1>1. pc # "done"
  BY DEF Loop
<1>2. CASE \A k \in 1 .. Len(queue) : queue[k] # i
  <2>1. Cardinality({k \in 1 .. Len(queue) : queue[k] = i}) = 0
    <3>1. {k \in 1 .. Len(queue) : queue[k] = i} = {}
      BY <1>2
    <3> QED BY <3>1, FS_EmptySet
  <2>2. i \in tasks \cup Accepted \/ (i = cur /\ i \in started)
    BY <1>1, <1>2 DEF Present
  <2>3. Accepted \cap tasks = {}
    BY DEF IInv, Places
  <2> QED BY <2>1, <2>2, <2>3
<1>3. ASSUME NEW k \in 1 .. Len(queue), queue[k] = i
      PROVE  /\ Cardinality({j \in 1 .. Len(queue) : queue[j] = i}) = 1
             /\ i \notin tasks /\ i \notin started /\ i \notin Accepted
  <2>1. {j \in 1 .. Len(queue) : queue[j] = i} = {k}
    BY <1>3 DEF IInv, Places
  <2>2. i \notin tasks /\ i \notin started /\ i \notin Accepted
    BY <1>3 DEF IInv, Places
  <2> QED BY <2>1, <2>2, FS_Singleton
<1> QED BY <1>2, <1>3

(* Every selected source is asked for at most once and never forgotten while   *)
(* the run goes on (SearchEngine::run, the queue and the running futures).     *)
THEOREM EverySourceOnceCorrect == Spec => []EverySourceOnce
<1>1. Init => Present
  <2> SUFFICES ASSUME Init, NEW i \in Source
               PROVE  \E k \in 1 .. Len(queue) : queue[k] = i
    BY DEF Present
  <2>1. queue \in Seq(Source) /\ DOMAIN queue = Source /\ queue[i] = i
    BY DEF Init, Source
  <2>2. DOMAIN queue = 1 .. Len(queue)
    BY <2>1
  <2> QED BY <2>1, <2>2
<1>2. IInv /\ Present /\ [Next]_vars => Present'
  BY StepPresent
<1>3. IInv /\ Present => EverySourceOnce
  BY PresentOnce
<1> QED BY <1>1, <1>2, <1>3, Invariance, PTL DEF Spec

-----------------------------------------------------------------------------
(* What a step that leaves the rows alone does to the mapped state.           *)
LEMMA SameRows ==
    ASSUME IInv, UNCHANGED <<collector, batches, emitted, pc, reason>>
    PROVE  UNCHANGED <<Offered, emitted, IF pc = "done" THEN reason ELSE "running">>
<1>1. Offered' = Offered
  BY DEF Offered, Accepted
<1> QED BY <1>1

(* A step inside the loop that only adds rows is a Collect of SearchRun.      *)
LEMMA CollectStep ==
    ASSUME IInv, IInv', pc # "done", pc' # "done", emitted \subseteq emitted',
           \A i \in Source : collector[i] \subseteq collector'[i],
           \A i \in Accepted : i \in Accepted' /\ batches[i] \subseteq batches'[i]
    PROVE  Run!Collect
<1>1. Offered \subseteq Offered'
  <2>1. OfferedMembers'
    BY InOffered, PTL
  <2> QED BY <2>1, InOffered DEF OfferedMembers
<1>2. emitted' \subseteq Offered' \cap Kept /\ Offered' \subseteq Links
  <2>1. DeliveredRows'
    BY RowsDelivered, PTL
  <2> QED BY <2>1 DEF DeliveredRows
<1> QED BY <1>1, <1>2 DEF Run!Collect

(* The run implements its promise: every step is a Collect, the End, or        *)
(* changes nothing a consumer of the search can see.                          *)
LEMMA StepRefines ==
    ASSUME IInv, IInv', [Next]_vars
    PROVE  [Run!RunNext]_Run!runVars
<1> USE DEF poolVars, rowVars, countVars, endVars, envVars
<1>1. ASSUME UNCHANGED <<collector, batches, emitted>>, pc # "done", pc' # "done"
      PROVE  UNCHANGED Run!runVars
  <2>1. Offered' = Offered
    BY <1>1 DEF Offered, Accepted
  <2> QED BY <1>1, <2>1 DEF Run!runVars
<1>2. CASE UNCHANGED <<collector, batches, emitted, pc, reason>>
  BY <1>2, SameRows DEF Run!runVars
<1>3. ASSUME NEW i \in started \cap Provider, NEW l \in Links, Publish(i, {l})
      PROVE  Run!Collect
  <2>1. pc # "done" /\ pc' # "done"
    BY <1>3, PublishInv DEF Publish
  <2>2. \A j \in Source : collector[j] \subseteq collector'[j]
    BY <1>3 DEF Publish, IInv, TypeOK
  <2> QED BY <1>3, <2>1, <2>2, CollectStep DEF Publish, Accepted
<1>4. CASE Accept
  <2>1. pc # "done" /\ pc' # "done" /\ emitted \subseteq emitted'
    BY <1>4 DEF Accept
  <2>2. \A j \in Source : collector[j] \subseteq collector'[j]
    <3>1. CASE cur \in registered
      <4>1. collector' = [collector EXCEPT ![cur] = Finish(cur, finished.rows)]
        BY <1>4, <3>1 DEF Accept
      <4>2. collector[cur] \subseteq Finish(cur, finished.rows)
        BY DEF Finish
      <4> QED BY <4>1, <4>2 DEF IInv, TypeOK
    <3>2. CASE cur \notin registered
      BY <1>4, <3>2 DEF Accept
    <3> QED BY <3>1, <3>2
  <2>3. \A j \in Accepted : j \in Accepted' /\ batches[j] \subseteq batches'[j]
    <3>1. cur \notin Accepted
      BY <1>4 DEF Accept, IInv, Places
    <3> QED BY <1>4, <3>1 DEF Accept, Accepted
  <2> QED BY <2>1, <2>2, <2>3, CollectStep DEF Run!RunNext
<1>5. CASE Finalise
  <2>1. pc = "ending" /\ pc' = "done" /\ reason' = reason
    BY <1>5 DEF Finalise
  <2>2. reason' \in Run!FinishReasons
    BY <2>1 DEF Run!FinishReasons, IInv, TypeOK
  <2>3. Offered' = Offered
    <3>1. OfferedMembers'
      BY InOffered, PTL
    <3>2. collector' = collector /\ Accepted' = Accepted \cup registered
      BY <1>5 DEF Finalise, Accepted
    <3>3. \A i \in Accepted : i \notin registered /\ batches'[i] = batches[i]
      BY <1>5 DEF Finalise, Accepted, Snapshots, IInv, Rows
    <3>4. \A i \in registered : i \in Source /\ batches'[i] \subseteq collector[i]
      BY <1>5 DEF Finalise, Accepted, Snapshots, Filtered, Finish, IInv, TypeOK
    <3>5. \A x : x \in Offered' <=> x \in Offered
      BY <3>1, <3>2, <3>3, <3>4, InOffered DEF OfferedMembers
    <3> QED BY <3>5
  <2>4. emitted' = Offered' \cap Kept
    <3>1. DeliveredRows'
      BY RowsDelivered, PTL
    <3> QED BY <2>1, <3>1 DEF DeliveredRows
  <2> QED BY <2>1, <2>2, <2>3, <2>4 DEF Run!RunNext, Run!End
<1>6. CASE EngineStep /\ ~Accept /\ ~Finalise
  BY <1>1, <1>6 DEF EngineStep, StopAtTop, Fill, AllFinished, DeadlineFires, StopFires,
                    StopAtRecheck, DeadlineAtRecheck, Break
<1>7. CASE \E i \in Source : Poll(i)
  BY <1>1, <1>7 DEF Poll
<1>8. CASE PollEnds
  BY <1>1, <1>8 DEF PollEnds, PollPending, PollOk, PollErr, PollReturns
<1>9. CASE PublishInPoll
  <2>1. PICK l \in Links : Publish(cur, {l})
    BY <1>9 DEF PublishInPoll
  <2>2. cur \in started \cap Provider
    BY <1>9 DEF PublishInPoll, IInv, Places
  <2> QED BY <1>3, <2>1, <2>2 DEF Run!RunNext
<1>10. CASE PublishRetained
  <2>1. PICK i \in Retaining \cap started, l \in Links : Publish(i, {l})
    BY <1>10 DEF PublishRetained
  <2>2. i \in started \cap Provider
    BY DEF Provider
  <2> QED BY <1>3, <2>1, <2>2 DEF Run!RunNext
<1>11. CASE Tick \/ Cancel \/ CloseReceiver \/ Ended \/ UNCHANGED vars
  BY <1>2, <1>11 DEF Tick, Cancel, CloseReceiver, Ended, vars
<1> QED BY <1>4, <1>5, <1>6, <1>7, <1>8, <1>9, <1>10, <1>11 DEF Next

(* The search engine implements the promise of SearchRun, for every pool size *)
(* and every timeout: rows handed over in time are delivered however the run  *)
(* ends, and nothing is delivered after the end.                              *)
THEOREM EngineImplementsRun == Spec => ImplementsRun
<1>1. Init => Run!RunInit
  <2> SUFFICES ASSUME Init PROVE Run!RunInit
    OBVIOUS
  <2>1. \A x : x \notin Offered
    BY InOffered DEF Init, Accepted, OfferedMembers
  <2>2. Offered = {}
    BY <2>1
  <2> QED BY <2>2 DEF Init, Run!RunInit
<1>2. IInv /\ IInv' /\ [Next]_vars => [Run!RunNext]_Run!runVars
  BY StepRefines
<1> QED BY <1>1, <1>2, Invariance, PTL DEF Spec, ImplementsRun, Run!RunSpec
=============================================================================
