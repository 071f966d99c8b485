-------------------------- MODULE CheckEngineProofs -------------------------
(* Theorems about CheckEngine for any calls, requests, checkers, lifetimes    *)
(* and cache, and any number of commands.                                     *)
(*                                                                            *)
(* None of the properties is inductive.  The invariant says in addition where *)
(* each item of a call stands: its key waits, is being asked for, or the item *)
(* has its answer (Answering); that what a checker was asked no longer waits  *)
(* (Asking); and that an entry of the cache was found when it says, and       *)
(* expires by the lifetime of its state (Founded).                            *)
EXTENDS CheckEngine, DataLemmas

Fields == {"items", "jobs", "refresh", "noCache", "scope", "phase", "todo", "probing", "slots"}
Phases == {"running", "returned", "dropped"}

(* A call is idle, or it has a request and a slot for each item.              *)
Shape(c) ==
    \/ call[c] = Idle
    \/ /\ DOMAIN call[c] = Fields
       /\ call[c].phase \in Phases
       /\ call[c].jobs \in Nat
       /\ \E n \in Nat : DOMAIN call[c].items = 1 .. n
       /\ DOMAIN call[c].slots = DOMAIN call[c].items

KeysOf(c) == {CacheKey(call[c].items[k], call[c].scope) : k \in AnswersOf(c)}

Waiting(c) ==
    call[c] # Idle =>
        /\ call[c].todo \subseteq KeysOf(c) /\ call[c].probing \subseteq KeysOf(c)
        /\ IsFiniteSet(call[c].probing) /\ Cardinality(call[c].probing) <= Jobs(c)
        /\ call[c].phase = "returned" => call[c].todo = {} /\ call[c].probing = {}

(* What a checker said of an item's share, and when.                          *)
Fresh(item, scope, answer) ==
    \E fact \in facts :
        /\ fact[1] = Identity(item, scope) /\ fact[2] = answer.state
        /\ fact[3] <= answer.at /\ answer.at < fact[3] + Ttl[answer.state]

HasAnswer(c, k) ==
    LET answer == call[c].slots[k] IN
        /\ answer.state \in States
        /\ answer.url = call[c].items[k].url
        /\ answer.hit => k \in AnswersOf(c) /\ Fresh(call[c].items[k], call[c].scope, answer)

Answering(c) ==
    call[c] # Idle =>
        \A k \in DOMAIN call[c].items :
            \/ /\ k \in AnswersOf(c)
               /\ CacheKey(call[c].items[k], call[c].scope) \in call[c].todo \cup call[c].probing
            \/ HasAnswer(c, k)

Asking(c) ==
    /\ call[c] = Idle => probes[c] = <<>>
    /\ probes[c] \in Seq(KeysOf(c))
    /\ \A j, k \in 1 .. Len(probes[c]) : probes[c][j] = probes[c][k] => j = k
    /\ \A k \in 1 .. Len(probes[c]) : call[c] # Idle => probes[c][k] \notin call[c].todo

Founded ==
    \A key \in DOMAIN cache :
        cache[key] # Corrupt =>
            /\ <<key, cache[key].state, cache[key].at>> \in facts
            /\ cache[key].state \in States
            /\ cache[key].at \in Int /\ cache[key].at <= now
            /\ cache[key].expires = cache[key].at + Ttl[cache[key].state]

CallsInv ==
    \A c \in Calls : Shape(c) /\ Waiting(c) /\ Answering(c) /\ Asking(c)

CheckInv ==
    /\ now \in Nat /\ DOMAIN call = Calls /\ DOMAIN probes = Calls
    /\ CallsInv /\ Founded

USE CheckAssumption DEF CheckAssumption

-----------------------------------------------------------------------------
(* The item that stands for a group has the group's identity.                 *)
LEMMA SubjectIsKey ==
    ASSUME NEW c, Shape(c), call[c] # Idle, NEW key \in KeysOf(c)
    PROVE  Subject(c, key) = key
<1>1. Group(c, key) \in SUBSET Nat /\ Group(c, key) # {}
  BY DEF Shape, Group, KeysOf, AnswersOf
<1>2. Min(Group(c, key)) \in Group(c, key)
  BY <1>1, MinIn
<1> QED BY <1>2 DEF Group, ItemOf, Subject, Identity, CacheKey

-----------------------------------------------------------------------------
(* What no step of another call disturbs.                                     *)
CallInv(c) == Shape(c) /\ Waiting(c) /\ Answering(c) /\ Asking(c)

LEMMA Untouched ==
    ASSUME NEW c, CallInv(c), call'[c] = call[c], probes'[c] = probes[c], facts \subseteq facts'
    PROVE  CallInv(c)'
<1>1. KeysOf(c)' = KeysOf(c) /\ AnswersOf(c)' = AnswersOf(c)
  BY DEF KeysOf, AnswersOf
<1>2. Shape(c)'
  BY DEF CallInv, Shape
<1>3. Waiting(c)'
  BY <1>1 DEF CallInv, Waiting, Jobs
<1>4. Asking(c)'
  BY <1>1 DEF CallInv, Asking
<1>5. Answering(c)'
  BY <1>1 DEF CallInv, Answering, HasAnswer, Fresh
<1> QED BY <1>2, <1>3, <1>4, <1>5 DEF CallInv

LEMMA AllUntouched ==
    ASSUME CheckInv, call' = call, probes' = probes, facts \subseteq facts'
    PROVE  CallsInv' /\ DOMAIN call' = Calls /\ DOMAIN probes' = Calls
<1>1. ASSUME NEW c \in Calls PROVE CallInv(c)'
  BY Untouched DEF CheckInv, CallsInv, CallInv
<1> QED BY <1>1 DEF CheckInv, CallsInv, CallInv

(* A group that is answered leaves the waiting and the running ones, and every *)
(* item of it has the answer.                                                 *)
LEMMA AnsweredInv ==
    ASSUME CheckInv, NEW c \in Calls, call[c].phase = "running",
           NEW key \in call[c].todo \cup call[c].probing,
           NEW state \in States, NEW url, NEW hit, NEW at,
           Answered(c, key, [state |-> state, url |-> url, hit |-> hit, at |-> at]),
           hit => \E fact \in facts' : /\ fact[1] = key /\ fact[2] = state
                                       /\ fact[3] <= at /\ at < fact[3] + Ttl[state],
           probes' = probes, facts \subseteq facts'
    PROVE  CallsInv' /\ DOMAIN call' = Calls /\ DOMAIN probes' = Calls
<1> DEFINE answer == [state |-> state, url |-> url, hit |-> hit, at |-> at]
<1>1. /\ CallInv(c) /\ call[c] # Idle /\ DOMAIN call[c] = Fields
      /\ call[c].phase \in Phases /\ call[c].jobs \in Nat
      /\ \E n \in Nat : DOMAIN call[c].items = 1 .. n
      /\ DOMAIN call[c].slots = DOMAIN call[c].items
  BY DEF CheckInv, CallsInv, CallInv, Shape, Idle
<1>2. /\ DOMAIN call' = Calls /\ DOMAIN probes' = Calls
      /\ \A d \in Calls \ {c} : call'[d] = call[d]
      /\ DOMAIN call'[c] = Fields
      /\ call'[c].items = call[c].items /\ call'[c].scope = call[c].scope
      /\ call'[c].jobs = call[c].jobs /\ call'[c].phase = call[c].phase
      /\ call'[c].todo = call[c].todo \ {key}
      /\ call'[c].probing = call[c].probing \ {key}
      /\ call'[c].slots = Filled(c, key, answer)
  <2>1. c \in DOMAIN call /\ DOMAIN probes = Calls /\ DOMAIN call = Calls
    BY DEF CheckInv
  <2> DEFINE next == [call[c] EXCEPT !.todo = call[c].todo \ {key}, !.probing = call[c].probing \ {key},
                                     !.slots = Filled(c, key, answer)]
  <2>2. call' = [call EXCEPT ![c] = next]
    BY DEF Answered
  <2>3. /\ DOMAIN next = Fields
        /\ next.items = call[c].items /\ next.scope = call[c].scope
        /\ next.jobs = call[c].jobs /\ next.phase = call[c].phase
        /\ next.todo = call[c].todo \ {key}
        /\ next.probing = call[c].probing \ {key}
        /\ next.slots = Filled(c, key, answer)
    BY <1>1 DEF Fields
  <2>4. call'[c] = next /\ DOMAIN call' = Calls /\ \A d \in Calls \ {c} : call'[d] = call[d]
    <3> HIDE DEF next
    <3> QED BY <2>1, <2>2
  <2> QED BY <2>1, <2>3, <2>4
<1>3. call'[c] # Idle
  BY <1>1, <1>2 DEF Idle, Phases
<1>4. KeysOf(c)' = KeysOf(c) /\ AnswersOf(c)' = AnswersOf(c) /\ Jobs(c)' = Jobs(c)
  BY <1>2 DEF KeysOf, AnswersOf, Jobs
<1>5. Shape(c)'
  BY <1>1, <1>2 DEF Shape, Filled
<1>6. Waiting(c)'
  <2>1. IsFiniteSet(call[c].probing \ {key}) /\ Cardinality(call[c].probing \ {key}) <= Cardinality(call[c].probing)
    BY <1>1, FS_Subset DEF CallInv, Waiting
  <2>2. Cardinality(call[c].probing \ {key}) \in Nat /\ Cardinality(call[c].probing) \in Nat
    BY <1>1, <2>1, FS_CardinalityType DEF CallInv, Waiting
  <2>3. Jobs(c) \in Nat
    BY <1>1 DEF Jobs
  <2> QED BY <1>1, <1>2, <1>4, <2>1, <2>2, <2>3 DEF CallInv, Waiting
<1>7. Asking(c)'
  BY <1>1, <1>2, <1>3, <1>4 DEF CallInv, Asking
<1>8. Answering(c)'
  <2> SUFFICES ASSUME NEW k \in DOMAIN call[c].items
               PROVE  \/ /\ k \in AnswersOf(c)
                         /\ CacheKey(call[c].items[k], call[c].scope) \in call'[c].todo \cup call'[c].probing
                      \/ HasAnswer(c, k)'
    BY <1>2, <1>4 DEF Answering
  <2>1. CASE k \in Group(c, key)
    <3>1. call'[c].slots[k] = [answer EXCEPT !.url = call[c].items[k].url]
      BY <1>1, <1>2, <2>1 DEF Restored, Filled
    <3>2. /\ call'[c].slots[k].state = state /\ call'[c].slots[k].url = call[c].items[k].url
          /\ call'[c].slots[k].hit = hit /\ call'[c].slots[k].at = at
      BY <3>1
    <3>3. k \in AnswersOf(c) /\ Identity(call[c].items[k], call[c].scope) = key
      BY <2>1 DEF Group, AnswersOf, CacheKey, Identity
    <3> QED BY <1>2, <1>4, <3>2, <3>3 DEF HasAnswer, Fresh
  <2>2. CASE k \notin Group(c, key)
    <3>1. call'[c].slots[k] = call[c].slots[k]
      BY <1>1, <1>2, <2>2 DEF Filled
    <3>2. CASE HasAnswer(c, k)
      BY <1>2, <1>4, <3>1, <3>2 DEF HasAnswer, Fresh
    <3>3. CASE /\ k \in AnswersOf(c)
               /\ CacheKey(call[c].items[k], call[c].scope) \in call[c].todo \cup call[c].probing
      BY <1>2, <2>2, <3>3 DEF Group, AnswersOf
    <3> QED BY <1>1, <3>2, <3>3 DEF CallInv, Answering
  <2> QED BY <2>1, <2>2
<1>9. ASSUME NEW d \in Calls PROVE CallInv(d)'
  <2>1. CASE d = c
    BY <1>5, <1>6, <1>7, <1>8, <2>1 DEF CallInv
  <2>2. CASE d # c
    BY <1>2, <2>2, Untouched DEF CheckInv, CallsInv, CallInv
  <2> QED BY <2>1, <2>2
<1> QED BY <1>2, <1>9 DEF CallsInv, CallInv

-----------------------------------------------------------------------------
(* What a lookup leaves in the cache is founded, and so is what is put there  *)
(* after a checker has said it.                                               *)
IsFounded(entries) ==
    \A key \in DOMAIN entries :
        entries[key] # Corrupt =>
            /\ <<key, entries[key].state, entries[key].at>> \in facts
            /\ entries[key].state \in States
            /\ entries[key].at \in Int /\ entries[key].at <= now
            /\ entries[key].expires = entries[key].at + Ttl[entries[key].state]

LEMMA LookupFounded ==
    ASSUME Founded, NEW c, NEW key, NEW kept \in AfterLookup(c, key)
    PROVE  IsFounded(kept)
BY DEF Founded, IsFounded, AfterLookup, Without

LEMMA RecordedFounded ==
    ASSUME NEW c, NEW key, NEW state \in States, NEW conclusive, NEW kept, IsFounded(kept),
           Recorded(c, key, state, conclusive, kept), now' = now, now \in Nat,
           facts \subseteq facts', conclusive => <<key, state, now>> \in facts'
    PROVE  Founded'
<1>1. CASE cache' = kept
  BY <1>1 DEF IsFounded, Founded
<1>2. CASE /\ conclusive
           /\ cache' = With(key, [state |-> state, at |-> now, expires |-> ExpiresAt(state)], kept)
  <2> DEFINE entry == [state |-> state, at |-> now, expires |-> ExpiresAt(state)]
  <2> SUFFICES ASSUME NEW j \in DOMAIN cache', cache'[j] # Corrupt
               PROVE  /\ <<j, cache'[j].state, cache'[j].at>> \in facts'
                      /\ cache'[j].state \in States
                      /\ cache'[j].at \in Int /\ cache'[j].at <= now'
                      /\ cache'[j].expires = cache'[j].at + Ttl[cache'[j].state]
    BY DEF Founded
  <2>1. CASE j = key
    <3>1. cache'[j] = entry
      BY <1>2, <2>1 DEF With
    <3> QED BY <1>2, <2>1, <3>1 DEF ExpiresAt
  <2>2. CASE j # key
    <3>1. j \in DOMAIN kept /\ cache'[j] = kept[j]
      BY <1>2, <2>2 DEF With
    <3> QED BY <3>1 DEF IsFounded
  <2> QED BY <2>1, <2>2
<1> QED BY <1>1, <1>2 DEF Recorded, MayPut

LEMMA SameCacheFounded ==
    ASSUME Founded, cache' = cache, now' = now, facts \subseteq facts'
    PROVE  Founded'
BY DEF Founded

-----------------------------------------------------------------------------
LEMMA InitInv == CheckInit => CheckInv
<1> SUFFICES ASSUME CheckInit PROVE CheckInv
  OBVIOUS
<1>1. now \in Nat /\ DOMAIN call = Calls /\ DOMAIN probes = Calls
  BY DEF CheckInit
<1>2. CallsInv
  BY DEF CheckInit, CallsInv, Shape, Waiting, Answering, Asking
<1>3. Founded
  BY StoredAssumption DEF CheckInit, Founded
<1> QED BY <1>1, <1>2, <1>3 DEF CheckInv

LEMMA BeginInv == ASSUME CheckInv, NEW c \in Calls, Begin(c) PROVE CheckInv'
<1> PICK request \in Requests :
      call' = [call EXCEPT ![c] =
               [items |-> request.items, jobs |-> request.jobs, refresh |-> request.refresh,
                noCache |-> request.noCache, scope |-> request.scope, phase |-> "running",
                todo |-> {CacheKey(request.items[k], request.scope) :
                            k \in {j \in DOMAIN request.items : Valid(request.items[j])}},
                probing |-> {},
                slots |-> [k \in DOMAIN request.items |->
                   IF Valid(request.items[k]) THEN NoAnswer
                   ELSE [state |-> "uncertain", url |-> request.items[k].url, hit |-> FALSE, at |-> now]]]]
  BY DEF Begin
<1>1. /\ call[c] = Idle /\ UNCHANGED <<now, cache, commands, facts, probes>>
  BY DEF Begin
<1>2. /\ DOMAIN call' = Calls /\ \A d \in Calls \ {c} : call'[d] = call[d]
      /\ DOMAIN call'[c] = Fields /\ call'[c].phase = "running"
      /\ call'[c].items = request.items /\ call'[c].scope = request.scope
      /\ call'[c].jobs = request.jobs /\ call'[c].probing = {}
      /\ call'[c].todo = {CacheKey(request.items[k], request.scope) :
                            k \in {j \in DOMAIN request.items : Valid(request.items[j])}}
      /\ call'[c].slots = [k \in DOMAIN request.items |->
                   IF Valid(request.items[k]) THEN NoAnswer
                   ELSE [state |-> "uncertain", url |-> request.items[k].url, hit |-> FALSE, at |-> now]]
  BY DEF CheckInv, Fields
<1>3. /\ call'[c] # Idle
      /\ AnswersOf(c)' = {j \in DOMAIN request.items : Valid(request.items[j])}
      /\ KeysOf(c)' = call'[c].todo
  <2>1. call'[c] # Idle
    BY <1>2 DEF Idle
  <2>2. AnswersOf(c)' = {j \in DOMAIN request.items : Valid(request.items[j])}
    BY <1>2 DEF AnswersOf
  <2> QED BY <1>2, <2>1, <2>2 DEF KeysOf
<1>4. Shape(c)'
  BY <1>2, RequestAssumption DEF Shape, Phases
<1>5. Waiting(c)'
  <2>1. Jobs(c)' \in Nat
    BY <1>2, RequestAssumption DEF Jobs
  <2> QED BY <1>2, <1>3, <2>1, FS_EmptySet DEF Waiting
<1>6. Answering(c)'
  <2> SUFFICES ASSUME NEW k \in DOMAIN request.items
               PROVE  \/ /\ k \in AnswersOf(c)'
                         /\ CacheKey(request.items[k], request.scope) \in call'[c].todo
                      \/ HasAnswer(c, k)'
    BY <1>2 DEF Answering
  <2>1. CASE Valid(request.items[k])
    BY <1>2, <1>3, <2>1
  <2>2. CASE ~Valid(request.items[k])
    <3>1. call'[c].slots[k] = [state |-> "uncertain", url |-> request.items[k].url, hit |-> FALSE, at |-> now]
      BY <1>2, <2>2
    <3> QED BY <1>2, <3>1 DEF HasAnswer, States
  <2> QED BY <2>1, <2>2
<1>7. Asking(c)'
  <2>1. probes'[c] = <<>>
    BY <1>1 DEF CheckInv, CallsInv, Asking
  <2> QED BY <1>3, <2>1 DEF Asking
<1>8. ASSUME NEW d \in Calls PROVE CallInv(d)'
  <2>1. CASE d = c
    BY <1>4, <1>5, <1>6, <1>7, <2>1 DEF CallInv
  <2>2. CASE d # c
    BY <1>1, <1>2, <2>2, Untouched DEF CheckInv, CallsInv, CallInv
  <2> QED BY <2>1, <2>2
<1>9. Founded'
  BY <1>1, SameCacheFounded DEF CheckInv
<1> QED BY <1>1, <1>2, <1>8, <1>9 DEF CheckInv, CallsInv, CallInv

LEMMA CacheAnswerInv ==
    ASSUME CheckInv, NEW c \in Calls, NEW key, AnswerFromCache(c, key)
    PROVE  CheckInv'
<1> DEFINE state == cache[key].state
           url == ItemOf(c, key).url
<1>1. /\ call[c].phase = "running" /\ key \in call[c].todo
      /\ key \in DOMAIN cache /\ cache[key] # Corrupt /\ ~(cache[key].expires <= now)
      /\ UNCHANGED <<now, cache, commands, facts, probes>>
  BY DEF AnswerFromCache, MayStart, Hit, Expired
<1>2. /\ <<key, state, cache[key].at>> \in facts /\ state \in States
      /\ cache[key].at \in Int /\ cache[key].at <= now
      /\ cache[key].expires = cache[key].at + Ttl[state]
  BY <1>1 DEF CheckInv, Founded
<1>3. Answered(c, key, [state |-> state, url |-> url, hit |-> TRUE, at |-> now])
  BY DEF AnswerFromCache, Result
<1>4. \E fact \in facts' : /\ fact[1] = key /\ fact[2] = state
                           /\ fact[3] <= now /\ now < fact[3] + Ttl[state]
  <2>1. cache[key].at \in Int /\ now \in Int /\ Ttl[state] \in Int
    BY <1>2 DEF CheckInv
  <2>2. now < cache[key].at + Ttl[state]
    BY <1>1, <1>2, <2>1
  <2> QED BY <1>1, <1>2, <2>2
<1>5. CallsInv' /\ DOMAIN call' = Calls /\ DOMAIN probes' = Calls
  <2> HIDE DEF state, url
  <2> QED BY <1>1, <1>2, <1>3, <1>4, AnsweredInv
<1>6. Founded'
  BY <1>1, SameCacheFounded DEF CheckInv
<1> QED BY <1>1, <1>5, <1>6 DEF CheckInv

LEMMA UnsupportedInv ==
    ASSUME CheckInv, NEW c \in Calls, NEW key, AnswerUnsupported(c, key)
    PROVE  CheckInv'
<1> DEFINE url == ItemOf(c, key).url
<1>1. /\ call[c].phase = "running" /\ key \in call[c].todo
      /\ facts' = facts \cup {<<Subject(c, key), "unsupported", now>>}
      /\ UNCHANGED <<now, commands, probes>>
  BY DEF AnswerUnsupported, MayStart
<1>2. Answered(c, key, [state |-> "unsupported", url |-> url, hit |-> FALSE, at |-> now])
  BY DEF AnswerUnsupported, Result
<1>3. "unsupported" \in States
  BY DEF States
<1>4. CallsInv' /\ DOMAIN call' = Calls /\ DOMAIN probes' = Calls
  <2> HIDE DEF url
  <2> QED BY <1>1, <1>2, <1>3, AnsweredInv
<1>5. Subject(c, key) = key
  BY <1>1, SubjectIsKey DEF CheckInv, CallsInv, Waiting, Idle
<1>6. Founded'
  <2>1. PICK kept \in AfterLookup(c, key) : Recorded(c, key, "unsupported", TRUE, kept)
    BY DEF AnswerUnsupported
  <2>2. IsFounded(kept)
    BY LookupFounded DEF CheckInv
  <2> QED BY <1>1, <1>3, <1>5, <2>1, <2>2, RecordedFounded DEF CheckInv
<1> QED BY <1>1, <1>4, <1>6 DEF CheckInv

LEMMA ProbeAnswersInv ==
    ASSUME CheckInv, NEW c \in Calls, NEW key, ProbeAnswers(c, key)
    PROVE  CheckInv'
<1> PICK state \in Verdicts :
      /\ Answered(c, key, Result(c, key, state, FALSE))
      /\ facts' = facts \cup {<<Subject(c, key), state, now>>}
      /\ Recorded(c, key, state, TRUE, cache)
  BY DEF ProbeAnswers
<1> DEFINE url == ItemOf(c, key).url
<1>1. /\ call[c].phase = "running" /\ key \in call[c].probing /\ state \in States
      /\ UNCHANGED <<now, commands, probes>>
  BY DEF ProbeAnswers, Probing
<1>2. Answered(c, key, [state |-> state, url |-> url, hit |-> FALSE, at |-> now])
  BY DEF Result
<1>3. CallsInv' /\ DOMAIN call' = Calls /\ DOMAIN probes' = Calls
  <2> HIDE DEF url
  <2> QED BY <1>1, <1>2, AnsweredInv
<1>4. Subject(c, key) = key
  BY <1>1, SubjectIsKey DEF CheckInv, CallsInv, Waiting, Idle
<1>5. Founded'
  <2>1. IsFounded(cache)
    BY DEF CheckInv, Founded, IsFounded
  <2> QED BY <1>1, <1>4, <2>1, RecordedFounded DEF CheckInv
<1> QED BY <1>1, <1>3, <1>5 DEF CheckInv

LEMMA ProbeFailsInv ==
    ASSUME CheckInv, NEW c \in Calls, NEW key, ProbeFails(c, key)
    PROVE  CheckInv'
<1> DEFINE url == ItemOf(c, key).url
<1>1. /\ call[c].phase = "running" /\ key \in call[c].probing /\ "uncertain" \in States
      /\ Recorded(c, key, "uncertain", FALSE, cache)
      /\ UNCHANGED <<now, commands, facts, probes>>
  BY DEF ProbeFails, Probing, States
<1>2. Answered(c, key, [state |-> "uncertain", url |-> url, hit |-> FALSE, at |-> now])
  BY DEF ProbeFails, Result
<1>3. CallsInv' /\ DOMAIN call' = Calls /\ DOMAIN probes' = Calls
  <2> HIDE DEF url
  <2> QED BY <1>1, <1>2, AnsweredInv
<1>4. Founded'
  <2>1. IsFounded(cache)
    BY DEF CheckInv, Founded, IsFounded
  <2> QED BY <1>1, <2>1, RecordedFounded DEF CheckInv
<1> QED BY <1>1, <1>3, <1>4 DEF CheckInv

(* A key that is about to be asked has not been asked by this call before.    *)
LEMMA StartProbeInv ==
    ASSUME CheckInv, NEW c \in Calls, NEW key, StartProbe(c, key)
    PROVE  CheckInv'
<1> DEFINE next == [call[c] EXCEPT !.todo = call[c].todo \ {key},
                                   !.probing = call[c].probing \cup {key}]
<1>1. /\ call[c].phase = "running" /\ key \in call[c].todo
      /\ Cardinality(call[c].probing) < Jobs(c)
      /\ cache' \in AfterLookup(c, key)
      /\ call' = [call EXCEPT ![c] = next]
      /\ probes' = [probes EXCEPT ![c] = Append(probes[c], Subject(c, key))]
      /\ UNCHANGED <<now, commands, facts>>
  BY DEF StartProbe, MayStart
<1>2. /\ CallInv(c) /\ call[c] # Idle /\ DOMAIN call[c] = Fields
      /\ call[c].phase \in Phases /\ call[c].jobs \in Nat
      /\ \E n \in Nat : DOMAIN call[c].items = 1 .. n
      /\ DOMAIN call[c].slots = DOMAIN call[c].items
  BY <1>1 DEF CheckInv, CallsInv, CallInv, Shape, Idle
<1>3. /\ DOMAIN next = Fields
      /\ next.items = call[c].items /\ next.scope = call[c].scope
      /\ next.jobs = call[c].jobs /\ next.phase = call[c].phase
      /\ next.slots = call[c].slots
      /\ next.todo = call[c].todo \ {key}
      /\ next.probing = call[c].probing \cup {key}
  BY <1>2 DEF Fields
<1>4. /\ DOMAIN call' = Calls /\ DOMAIN probes' = Calls
      /\ call'[c] = next /\ probes'[c] = Append(probes[c], Subject(c, key))
      /\ \A d \in Calls \ {c} : call'[d] = call[d] /\ probes'[d] = probes[d]
  <2> HIDE DEF next
  <2> QED BY <1>1 DEF CheckInv
<1> HIDE DEF next
<1>5. /\ KeysOf(c)' = KeysOf(c) /\ AnswersOf(c)' = AnswersOf(c) /\ Jobs(c)' = Jobs(c)
      /\ key \in KeysOf(c) /\ call'[c] # Idle
  <2>1. call'[c] # Idle
    BY <1>1, <1>3, <1>4 DEF Idle
  <2>2. AnswersOf(c)' = AnswersOf(c) /\ Jobs(c)' = Jobs(c)
    BY <1>3, <1>4 DEF AnswersOf, Jobs
  <2>3. KeysOf(c)' = KeysOf(c)
    BY <1>3, <1>4, <2>2 DEF KeysOf
  <2>4. key \in KeysOf(c)
    BY <1>1, <1>2 DEF CallInv, Waiting
  <2> QED BY <2>1, <2>2, <2>3, <2>4
<1>6. Subject(c, key) = key
  BY <1>2, <1>5, SubjectIsKey DEF CallInv
<1>7. Shape(c)'
  BY <1>2, <1>3, <1>4 DEF Shape
<1>8. Waiting(c)'
  <2>1. IsFiniteSet(call[c].probing) /\ Cardinality(call[c].probing) \in Nat
    BY <1>2, FS_CardinalityType DEF CallInv, Waiting
  <2>2. /\ IsFiniteSet(call[c].probing \cup {key})
        /\ Cardinality(call[c].probing \cup {key}) <= Cardinality(call[c].probing) + 1
    <3> DEFINE asked == call[c].probing
    <3>1. IsFiniteSet(asked) /\ Cardinality(asked) \in Nat
      BY <2>1
    <3> HIDE DEF asked
    <3>2. /\ IsFiniteSet(asked \cup {key})
          /\ Cardinality(asked \cup {key}) \in {Cardinality(asked), Cardinality(asked) + 1}
      BY <3>1, FS_AddElement
    <3>3. Cardinality(asked \cup {key}) <= Cardinality(asked) + 1
      BY <3>1, <3>2
    <3> QED BY <3>2, <3>3 DEF asked
  <2>3. Cardinality(call[c].probing \cup {key}) \in Nat /\ Jobs(c) \in Nat
    BY <1>2, <2>2, FS_CardinalityType DEF Jobs
  <2>4. Cardinality(call[c].probing \cup {key}) <= Jobs(c)'
    BY <1>1, <1>5, <2>1, <2>2, <2>3
  <2>5. /\ call'[c].todo \subseteq KeysOf(c)' /\ call'[c].probing \subseteq KeysOf(c)'
        /\ call'[c].phase # "returned"
    BY <1>1, <1>2, <1>3, <1>4, <1>5 DEF CallInv, Waiting
  <2> QED BY <1>3, <1>4, <2>2, <2>4, <2>5 DEF Waiting
<1>9. Answering(c)'
  <2>1. call[c].todo \cup call[c].probing = call'[c].todo \cup call'[c].probing
    BY <1>1, <1>3, <1>4
  <2>2. /\ call'[c].items = call[c].items /\ call'[c].scope = call[c].scope
        /\ call'[c].slots = call[c].slots /\ facts' = facts
    BY <1>1, <1>3, <1>4
  <2>3. \A k \in DOMAIN call[c].items : HasAnswer(c, k) => HasAnswer(c, k)'
    BY <1>5, <2>2 DEF HasAnswer, Fresh
  <2> QED BY <1>2, <1>5, <2>1, <2>2, <2>3 DEF CallInv, Answering
<1>10. Asking(c)'
  <2>1. /\ probes[c] \in Seq(KeysOf(c))
        /\ \A j, k \in 1 .. Len(probes[c]) : probes[c][j] = probes[c][k] => j = k
        /\ \A k \in 1 .. Len(probes[c]) : probes[c][k] \notin call[c].todo
    BY <1>2 DEF CallInv, Asking
  <2>2. /\ probes'[c] \in Seq(KeysOf(c)) /\ Len(probes'[c]) = Len(probes[c]) + 1
        /\ \A k \in 1 .. Len(probes[c]) : probes'[c][k] = probes[c][k]
        /\ probes'[c][Len(probes[c]) + 1] = key
    BY <1>4, <1>5, <1>6, <2>1, AppendProperties
  <2>3. /\ Len(probes[c]) \in Nat
        /\ \A k \in 1 .. Len(probes'[c]) : k \in 1 .. Len(probes[c]) \/ k = Len(probes[c]) + 1
    BY <2>1, <2>2
  <2>4. \A j, k \in 1 .. Len(probes'[c]) : probes'[c][j] = probes'[c][k] => j = k
    BY <1>1, <2>1, <2>2, <2>3
  <2>5. \A k \in 1 .. Len(probes'[c]) : probes'[c][k] \notin call'[c].todo
    BY <1>3, <1>4, <2>1, <2>2, <2>3
  <2> QED BY <1>5, <2>2, <2>4, <2>5 DEF Asking
<1>11. ASSUME NEW d \in Calls PROVE CallInv(d)'
  <2>1. CASE d = c
    BY <1>7, <1>8, <1>9, <1>10, <2>1 DEF CallInv
  <2>2. CASE d # c
    BY <1>1, <1>4, <2>2, Untouched DEF CheckInv, CallsInv, CallInv
  <2> QED BY <2>1, <2>2
<1>12. Founded'
  <2>1. IsFounded(cache')
    BY <1>1, LookupFounded DEF CheckInv
  <2> QED BY <1>1, <2>1 DEF IsFounded, Founded
<1> QED BY <1>1, <1>4, <1>11, <1>12 DEF CheckInv, CallsInv, CallInv

(* A call that ends keeps its answers.                                        *)
LEMMA EndInv ==
    ASSUME CheckInv, NEW c \in Calls, call[c].phase = "running",
           NEW phase \in Phases, call' = [call EXCEPT ![c].phase = phase],
           phase = "returned" => call[c].todo = {} /\ call[c].probing = {},
           UNCHANGED <<now, cache, commands, facts, probes>>
    PROVE  CheckInv'
<1>1. /\ CallInv(c) /\ call[c] # Idle /\ DOMAIN call[c] = Fields
  BY DEF CheckInv, CallsInv, CallInv, Shape, Idle
<1>2. /\ DOMAIN call' = Calls /\ \A d \in Calls \ {c} : call'[d] = call[d]
      /\ DOMAIN call'[c] = Fields /\ call'[c].phase = phase
      /\ call'[c].items = call[c].items /\ call'[c].scope = call[c].scope
      /\ call'[c].jobs = call[c].jobs /\ call'[c].slots = call[c].slots
      /\ call'[c].todo = call[c].todo /\ call'[c].probing = call[c].probing
  BY <1>1 DEF CheckInv, Fields
<1>3. /\ KeysOf(c)' = KeysOf(c) /\ AnswersOf(c)' = AnswersOf(c) /\ Jobs(c)' = Jobs(c)
      /\ call'[c] # Idle
  BY <1>2 DEF KeysOf, AnswersOf, Jobs, Idle, Phases
<1>4. Shape(c)'
  BY <1>1, <1>2 DEF CallInv, Shape
<1>5. Waiting(c)' /\ Asking(c)'
  BY <1>1, <1>2, <1>3 DEF CallInv, Waiting, Asking
<1>6. Answering(c)'
  BY <1>1, <1>2, <1>3 DEF CallInv, Answering, HasAnswer, Fresh
<1>7. ASSUME NEW d \in Calls PROVE CallInv(d)'
  <2>1. CASE d = c
    BY <1>4, <1>5, <1>6, <2>1 DEF CallInv
  <2>2. CASE d # c
    BY <1>2, <2>2, Untouched DEF CheckInv, CallsInv, CallInv
  <2> QED BY <2>1, <2>2
<1>8. Founded'
  BY SameCacheFounded DEF CheckInv
<1> QED BY <1>2, <1>7, <1>8 DEF CheckInv, CallsInv, CallInv

LEMMA OpenCacheInv == ASSUME CheckInv, OpenCache PROVE CheckInv'
<1>1. Founded'
  BY DEF CheckInv, OpenCache, Founded, Stale
<1>2. ASSUME NEW c \in Calls
      PROVE  Shape(c)' /\ Waiting(c)' /\ Answering(c)' /\ Asking(c)'
  <2>1. call'[c] = Idle /\ probes'[c] = <<>>
    BY DEF OpenCache
  <2> QED BY <2>1 DEF Shape, Waiting, Answering, Asking
<1>3. DOMAIN call' = Calls /\ DOMAIN probes' = Calls /\ now' \in Nat
  BY DEF CheckInv, OpenCache
<1> QED BY <1>1, <1>2, <1>3 DEF CheckInv, CallsInv

LEMMA TickInv == ASSUME CheckInv, Tick PROVE CheckInv'
<1>1. now' \in Nat /\ now <= now' /\ UNCHANGED <<cache, commands, call, facts, probes>>
  BY DEF CheckInv, Tick
<1>2. CallsInv' /\ DOMAIN call' = Calls /\ DOMAIN probes' = Calls
  BY <1>1, AllUntouched
<1>3. Founded'
  BY <1>1 DEF CheckInv, Founded
<1> QED BY <1>1, <1>2, <1>3 DEF CheckInv

LEMMA StutterInv == ASSUME CheckInv, UNCHANGED checkVars PROVE CheckInv'
<1>1. CallsInv' /\ DOMAIN call' = Calls /\ DOMAIN probes' = Calls
  BY AllUntouched DEF checkVars
<1>2. Founded' /\ now' \in Nat
  BY SameCacheFounded DEF CheckInv, checkVars
<1> QED BY <1>1, <1>2 DEF CheckInv

-----------------------------------------------------------------------------
THEOREM CheckInvCorrect == CheckSpec => []CheckInv
<1>1. CheckInit => CheckInv
  BY InitInv
<1>2. CheckInv /\ [CheckNext]_checkVars => CheckInv'
  <2> SUFFICES ASSUME CheckInv, [CheckNext]_checkVars PROVE CheckInv'
    OBVIOUS
  <2>1. ASSUME NEW c \in Calls, Begin(c) PROVE CheckInv'
    BY <2>1, BeginInv
  <2>2. ASSUME NEW c \in Calls, Return(c) PROVE CheckInv'
    BY <2>2, EndInv DEF Return, Phases
  <2>3. ASSUME NEW c \in Calls, Drop(c) PROVE CheckInv'
    BY <2>3, EndInv DEF Drop, Phases
  <2>4. ASSUME NEW c \in Calls, Step(c) PROVE CheckInv'
    BY <2>4, CacheAnswerInv, UnsupportedInv, StartProbeInv, ProbeAnswersInv, ProbeFailsInv DEF Step
  <2>5. CASE OpenCache
    BY <2>5, OpenCacheInv
  <2>6. CASE Tick
    BY <2>6, TickInv
  <2>7. CASE AllEnded \/ UNCHANGED checkVars
    BY <2>7, StutterInv DEF AllEnded
  <2> QED BY <2>1, <2>2, <2>3, <2>4, <2>5, <2>6, <2>7 DEF CheckNext
<1> QED BY <1>1, <1>2, PTL DEF CheckSpec

LEMMA ReturnedHasAnswers ==
    ASSUME CheckInv, NEW c \in Calls, call[c].phase = "returned",
           NEW k \in DOMAIN call[c].items
    PROVE  HasAnswer(c, k)
<1>1. call[c] # Idle /\ Waiting(c) /\ Answering(c)
  BY DEF CheckInv, CallsInv, Idle
<1> QED BY <1>1 DEF Waiting, Answering

(* Every returned call has an answer per item, in its place and under the url *)
(* the item was asked with (check/engine.rs, the slots).                      *)
THEOREM AnswersInOrderCorrect == CheckSpec => []AnswersInOrder
<1>1. CheckInv => AnswersInOrder
  <2> SUFFICES ASSUME CheckInv, NEW c \in Calls, Returned(c),
                      NEW k \in DOMAIN call[c].items
               PROVE  /\ call[c].slots[k] # NoAnswer
                      /\ call[c].slots[k].url = call[c].items[k].url
    BY DEF AnswersInOrder
  <2>1. HasAnswer(c, k)
    BY ReturnedHasAnswers DEF Returned
  <2> QED BY <2>1 DEF HasAnswer, NoAnswer, States
<1> QED BY <1>1, CheckInvCorrect, PTL

(* A verdict taken from the cache was found for this very share, password and *)
(* proxy, and not longer ago than its state is kept (check/cache.rs).         *)
THEOREM CachedIsFreshCorrect == CheckSpec => []CachedIsFresh
<1>1. CheckInv => CachedIsFresh
  <2> SUFFICES ASSUME CheckInv, NEW c \in Calls, Returned(c), NEW k \in AnswersOf(c),
                      call[c].slots[k].hit
               PROVE  Fresh(call[c].items[k], call[c].scope, call[c].slots[k])
    BY DEF CachedIsFresh, Fresh
  <2>1. HasAnswer(c, k)
    BY ReturnedHasAnswers DEF Returned, AnswersOf
  <2> QED BY <2>1 DEF HasAnswer
<1> QED BY <1>1, CheckInvCorrect, PTL

(* Only conclusive answers are remembered: whatever timed out or failed is    *)
(* asked again by the next command (check/engine.rs, should_cache).           *)
THEOREM CacheIsFoundedCorrect == CheckSpec => []CacheIsFounded
<1>1. CheckInv => CacheIsFounded
  BY DEF CheckInv, Founded, CacheIsFounded
<1> QED BY <1>1, CheckInvCorrect, PTL

(* A call asks for each identity once, and for no more than jobs at a time.   *)
THEOREM ProbedOnceCorrect == CheckSpec => []ProbedOnce
<1>1. CheckInv => ProbedOnce
  <2> SUFFICES ASSUME CheckInv, NEW c \in Calls
               PROVE  /\ \A j, k \in DOMAIN probes[c] : probes[c][j] = probes[c][k] => j = k
                      /\ call[c] # Idle => Cardinality(call[c].probing) <= Jobs(c)
    BY DEF ProbedOnce
  <2>1. Waiting(c) /\ Asking(c)
    BY DEF CheckInv, CallsInv
  <2> QED BY <2>1 DEF Waiting, Asking
<1> QED BY <1>1, CheckInvCorrect, PTL
=============================================================================
