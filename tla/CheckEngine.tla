---------------------------- MODULE CheckEngine -----------------------------
(* The link checks (check/engine.rs) over the cache of their results           *)
(* (check/cache.rs).  A command runs one or several calls of CheckEngine::check *)
(* in one task: the standalone command one call with many items, the drive     *)
(* loop of a search one call per link.  A call checks each identity - share,   *)
(* password and proxy - once and copies the answer to every item that has it.  *)
(* The cache outlives the command; it can be opened by one command at a time.  *)
EXTENDS Integers, Sequences, FiniteSets, SequencesExt, FiniteSetsExt

CONSTANTS
    Calls,          \* calls of a command
    Requests,       \* what a call may be asked: [items, jobs, refresh, noCache, scope]
    Normal,         \* url -> its normalized form, or Malformed
    Malformed,
    Unsupported,    \* normalized urls of clouds without a checker
    Verdicts,       \* the states a checker may find
    Ttl,            \* state -> how long it stays in the cache
    Corrupt,        \* what an entry that cannot be parsed holds
    Stored,         \* the entries of the cache at the start
    MaxTime,        \* bound on the clock
    MaxCommands     \* bound on the commands run one after the other

States == {"ok", "bad", "locked", "unsupported", "uncertain"}

ASSUME CheckAssumption ==
    /\ Verdicts \subseteq States /\ Ttl \in [States -> Nat \ {0}]
    /\ MaxTime \in Nat /\ MaxCommands \in Nat

(* A request says how many checks run at a time and lists its items; what the *)
(* cache holds at the start was put there by earlier commands.                *)
ASSUME RequestAssumption ==
    \A request \in Requests :
        /\ request.jobs \in Nat /\ Len(request.items) \in Nat
        /\ DOMAIN request.items = 1 .. Len(request.items)

ASSUME StoredAssumption ==
    \A key \in DOMAIN Stored :
        Stored[key] # Corrupt =>
            /\ Stored[key].state \in States
            /\ Stored[key].at \in Int /\ Stored[key].at <= 0
            /\ Stored[key].expires = Stored[key].at + Ttl[Stored[key].state]

VARIABLES
    now,            \* the clock
    cache,          \* key -> [state, at, expires] or Corrupt
    commands,       \* commands started
    call,           \* the calls of the running command
    facts,          \* history: what checkers said, <<identity, state, time>>
    probes          \* history: call -> the identities it asked a checker for

checkVars == <<now, cache, commands, call, facts, probes>>

Idle == [phase |-> "idle"]
NoAnswer == [state |-> "none"]

(* The cache key of an item: normalized url, password and proxy.              *)
CacheKeyUrl_Bug(item, scope) == <<item.url, item.pwd, scope>>
CacheKey(item, scope) == <<Normal[item.url], item.pwd, scope>>

Valid(item) == Normal[item.url] # Malformed
Group(c, key) ==
    {k \in DOMAIN call[c].items :
        Valid(call[c].items[k]) /\ CacheKey(call[c].items[k], call[c].scope) = key}
ItemOf(c, key) == call[c].items[Min(Group(c, key))]
Identity(item, scope) == <<Normal[item.url], item.pwd, scope>>

CheckInit ==
    /\ now = 0 /\ commands = 1
    /\ cache = Stored
    /\ call = [c \in Calls |-> Idle]
    /\ facts = {<<key, Stored[key].state, Stored[key].at>> :
                   key \in {j \in DOMAIN Stored : Stored[j] # Corrupt}}
    /\ probes = [c \in Calls |-> <<>>]

(* CheckEngine::check: malformed links are answered at once, the rest grouped.*)
Begin(c) ==
    /\ call[c] = Idle
    /\ \E request \in Requests :
        LET items == request.items IN
            call' = [call EXCEPT ![c] =
               [items |-> items, jobs |-> request.jobs, refresh |-> request.refresh,
                noCache |-> request.noCache, scope |-> request.scope, phase |-> "running",
                todo |-> {CacheKey(items[k], request.scope) : k \in {j \in DOMAIN items : Valid(items[j])}},
                probing |-> {},
                slots |-> [k \in DOMAIN items |->
                   IF Valid(items[k]) THEN NoAnswer
                   ELSE [state |-> "uncertain", url |-> items[k].url, hit |-> FALSE, at |-> now]]]]
    /\ UNCHANGED <<now, cache, commands, facts, probes>>

(* jobs checks run at a time, at least one.                                   *)
Jobs_Bug(c) == call[c].jobs
Jobs(c) == IF call[c].jobs = 0 THEN 1 ELSE call[c].jobs

MayStart(c, key) ==
    /\ call[c].phase = "running"
    /\ key \in call[c].todo
    /\ Cardinality(call[c].probing) < Jobs(c)

(* Every item of the group gets the answer, under its own url.                *)
Restored_Bug(answer, item) == answer
Restored(answer, item) == [answer EXCEPT !.url = item.url]

Filled(c, key, answer) ==
    [k \in DOMAIN call[c].slots |->
        IF k \in Group(c, key) THEN Restored(answer, call[c].items[k]) ELSE call[c].slots[k]]

Answered(c, key, answer) ==
    call' = [call EXCEPT ![c] = [@ EXCEPT
               !.todo = call[c].todo \ {key}, !.probing = call[c].probing \ {key},
               !.slots = Filled(c, key, answer)]]

Result(c, key, state, hit) ==
    [state |-> state, url |-> ItemOf(c, key).url, hit |-> hit, at |-> now]

(* CheckCache::get; a lookup may also fail, which counts as a miss.           *)
Expired_Bug(entry) == entry.expires < now
Expired(entry) == entry.expires <= now

UsesCache(c) == ~call[c].noCache /\ ~call[c].refresh

Hit(key) == key \in DOMAIN cache /\ cache[key] # Corrupt /\ ~Expired(cache[key])

Without(key) == [k \in DOMAIN cache \ {key} |-> cache[k]]

AnswerFromCache(c, key) ==
    /\ MayStart(c, key)
    /\ UsesCache(c) /\ Hit(key)
    /\ Answered(c, key, Result(c, key, cache[key].state, TRUE))
    /\ UNCHANGED <<now, cache, commands, facts, probes>>

(* CheckCache::put, unless it fails or the answer says nothing of the share.  *)
MayPut_Bug(c, conclusive) == ~call[c].noCache
MayPut(c, conclusive) == conclusive /\ ~call[c].noCache

ExpiresAt(state) == now + Ttl[state]

With(key, entry, entries) ==
    [k \in DOMAIN entries \cup {key} |-> IF k = key THEN entry ELSE entries[k]]

Recorded(c, key, state, conclusive, kept) ==
    \/ /\ MayPut(c, conclusive)
       /\ cache' = With(key, [state |-> state, at |-> now, expires |-> ExpiresAt(state)], kept)
    \/ cache' = kept

(* A miss.  The lookup has failed, or there is no fresh entry; an expired one *)
(* is removed in a transaction that may fail too.                             *)
AfterLookup(c, key) ==
    IF UsesCache(c) /\ key \in DOMAIN cache /\ cache[key] # Corrupt /\ Expired(cache[key])
      THEN {cache, Without(key)} ELSE {cache}

Subject(c, key) == Identity(ItemOf(c, key), call[c].scope)

(* A cloud without a checker is answered at once, else the checker is asked.  *)
AnswerUnsupported(c, key) ==
    /\ MayStart(c, key)
    /\ Subject(c, key)[1] \in Unsupported
    /\ Answered(c, key, Result(c, key, "unsupported", FALSE))
    /\ \E kept \in AfterLookup(c, key) : Recorded(c, key, "unsupported", TRUE, kept)
    /\ facts' = facts \cup {<<Subject(c, key), "unsupported", now>>}
    /\ UNCHANGED <<now, commands, probes>>

StartProbe(c, key) ==
    /\ MayStart(c, key)
    /\ Subject(c, key)[1] \notin Unsupported
    /\ call' = [call EXCEPT ![c] = [@ EXCEPT
                 !.todo = call[c].todo \ {key}, !.probing = call[c].probing \cup {key}]]
    /\ cache' \in AfterLookup(c, key)
    /\ probes' = [probes EXCEPT ![c] = Append(@, Subject(c, key))]
    /\ UNCHANGED <<now, commands, facts>>

Probing(c, key) == call[c].phase = "running" /\ key \in call[c].probing

(* The checker answers; a parse or protocol error counts as uncertain.        *)
ProbeAnswers(c, key) ==
    /\ Probing(c, key)
    /\ \E state \in Verdicts :
          /\ Answered(c, key, Result(c, key, state, FALSE))
          /\ facts' = facts \cup {<<Subject(c, key), state, now>>}
          /\ Recorded(c, key, state, TRUE, cache)
    /\ UNCHANGED <<now, commands, probes>>

(* It times out, or the network fails.                                        *)
ProbeFails(c, key) ==
    /\ Probing(c, key)
    /\ Answered(c, key, Result(c, key, "uncertain", FALSE))
    /\ Recorded(c, key, "uncertain", FALSE, cache)
    /\ UNCHANGED <<now, commands, facts, probes>>

Step(c) ==
    \E key \in call[c].todo \cup call[c].probing :
        \/ AnswerFromCache(c, key) \/ AnswerUnsupported(c, key) \/ StartProbe(c, key)
        \/ ProbeAnswers(c, key) \/ ProbeFails(c, key)

Return(c) ==
    /\ call[c].phase = "running" /\ call[c].todo = {} /\ call[c].probing = {}
    /\ call' = [call EXCEPT ![c].phase = "returned"]
    /\ UNCHANGED <<now, cache, commands, facts, probes>>

(* The caller is interrupted and drops the call.                              *)
Drop(c) ==
    /\ call[c].phase = "running"
    /\ call' = [call EXCEPT ![c].phase = "dropped"]
    /\ UNCHANGED <<now, cache, commands, facts, probes>>

(* The next command opens the cache, which prunes what has expired; it can do *)
(* so when the command before has ended.                                      *)
Stale(entry) == entry = Corrupt \/ Expired(entry)

OpenCache ==
    /\ commands < MaxCommands
    /\ \A c \in Calls : call[c].phase # "running"
    /\ commands' = commands + 1
    /\ cache' = [k \in {j \in DOMAIN cache : ~Stale(cache[j])} |-> cache[k]]
    /\ call' = [c \in Calls |-> Idle]
    /\ probes' = [c \in Calls |-> <<>>]
    /\ UNCHANGED <<now, facts>>

Tick == now < MaxTime /\ now' = now + 1 /\ UNCHANGED <<cache, commands, call, facts, probes>>

AllEnded ==
    /\ commands = MaxCommands /\ \A c \in Calls : call[c].phase \in {"returned", "dropped"}
    /\ UNCHANGED checkVars

CheckNext ==
    \/ \E c \in Calls :
          \/ Begin(c) \/ Return(c) \/ Drop(c)
          \/ call[c].phase = "running" /\ Step(c)
    \/ OpenCache \/ Tick \/ AllEnded

CheckSpec == CheckInit /\ [][CheckNext]_checkVars

(* A call is polled while it runs, and the timer of a probe ends it.          *)
CheckFairSpec ==
    CheckSpec /\ \A c \in Calls :
        WF_checkVars((call[c].phase = "running" /\ Step(c)) \/ Return(c))

-----------------------------------------------------------------------------
Returned(c) == call[c].phase = "returned"
AnswersOf(c) == {k \in DOMAIN call[c].items : Valid(call[c].items[k])}

(* A call returns one answer per item, in the order of the items and under    *)
(* the url each was asked with, although items were grouped and the groups    *)
(* finished in any order (engine.rs:161, cli prints them side by side).       *)
AnswersInOrder ==
    \A c \in Calls : Returned(c) =>
        \A k \in DOMAIN call[c].items :
            /\ call[c].slots[k] # NoAnswer
            /\ call[c].slots[k].url = call[c].items[k].url

(* A verdict taken from the cache was found for this very share, password and *)
(* proxy, and not longer ago than its state is kept.                          *)
CachedIsFresh ==
    \A c \in Calls : Returned(c) =>
        \A k \in AnswersOf(c) :
            LET answer == call[c].slots[k]
            IN  answer.hit =>
                  \E fact \in facts :
                      /\ fact[1] = Identity(call[c].items[k], call[c].scope)
                      /\ fact[2] = answer.state
                      /\ fact[3] <= answer.at /\ answer.at < fact[3] + Ttl[answer.state]

(* Only conclusive answers are remembered: after a timeout or a failure of    *)
(* the network the next command asks again.                                   *)
CacheIsFounded ==
    \A key \in DOMAIN cache :
        cache[key] = Corrupt \/ <<key, cache[key].state, cache[key].at>> \in facts

(* A call asks for each identity once, and for no more than jobs at a time.   *)
ProbedOnce ==
    \A c \in Calls :
        /\ \A j, k \in DOMAIN probes[c] : probes[c][j] = probes[c][k] => j = k
        /\ call[c] # Idle => Cardinality(call[c].probing) <= Jobs(c)

(* Every call ends.                                                           *)
ChecksReturn == \A c \in Calls : call[c].phase = "running" ~> call[c].phase # "running"
=============================================================================
