# Verification of panshou

TLA+ models of [panshou](../src/README.md), a command-line program that searches
cloud-drive links: it asks over a hundred web sites and Telegram channels at the
same time, merges what they answer, checks the links against the cloud services
and prints those that are valid. Source paths below are relative to the root of
the repository; most files are under `src/`.

The models follow the code, operation by operation. `PROJECT.json` maps every
definition to the lines it stands for.

## The system

| Part | State | Operations | Talks to |
|---|---|---|---|
| search engine, `src/search/engine.rs` | queue of sources, running futures, deadlines, collectors, batches, counters | `run`: fill slots, poll, accept, end | providers (futures and `SearchContext`), the command (channel of events, cancellation) |
| provider contract, `src/providers/mod.rs` | a `SourceCollector` per source, behind a mutex | `publish`, `finish`, `remaining` | engine; clones may outlive the provider's future |
| merge and rank, `src/core/` | none | `merge_search_results`, `merge_links`, `rank_results`, filters | engine |
| search command, `src/cli/streaming.rs` | events, checks waiting and running, results of checks, invalid channels, the interrupt | `drive` | engine, link checks, channel list |
| link checks, `src/check/engine.rs` | per call: groups, slots, answers | `check` | cache, checkers |
| check cache, `src/check/cache.rs` | a redb table of verdicts with expiry | `open` (prunes), `get`, `put` | other commands, through the file |
| channel list, `src/channel/mod.rs` | `channels.toml`, an advisory lock beside it | `add`, `remove`, `set_enabled`, `set_all`, `disable_existing` | other processes, through the file |
| providers, `src/providers/` | requests under way, rows not yet published, an error kept for the end | `search`, one per site, about 120 of them | HTTP, engine |
| HTTP, `src/http/` | permits of the command, tries, bodies being read | `execute`, `retry_with`, `read_response`, `stream_response` | providers, checkers |
| profile state, `src/state/`, with the commands of `src/cli/mod.rs` and `src/providers/qqpd/index.rs` | one encrypted profile file per login | `save`, `load`, `delete`; login, logout, channels and users, base URL | providers, other processes, through the file |
| update and migration, `src/update`, `src/migration` | the executable, its backups, the format of a data file and its lock | `install_at`, `replace_binary`, `migrate_file` | the file system, other processes |
| checkers, configuration, Telegram pages, output, link parsing | none of their own | requests, parsing, formatting | the above |

How a search runs. `pansou search` builds the engine and enters `drive`, a loop
in one task that polls, in this order, Ctrl-C, the search, the events of the
search and the running link checks. The engine is itself one task: it holds up to
`--jobs` sources as futures, starts the timer of each at its first poll, and
collects rows in two ways - what a provider returns, and what it has *published*
through its context before it returned, failed or was cut off. Every accepted
batch is merged with all earlier ones and the links that are new or changed are
announced as events; `drive` schedules a check for each new pair of url and
password. When the engine has ended, `drive` waits for events and checks, filters
the outcome by the verdicts, disables the saved channels that turned out not to
exist, and prints.

What is hard here, and what correctness means:

* *Deadlines and cuts.* A source has its own deadline, the run has one, the user
  may interrupt, the consumer may go away; all of these race with answers, with
  publications and with synchronous polls that cannot be preempted. Rows handed
  over in time must be in the answer, late ones must not, the counts must add up,
  and the answer must not change afterwards.
* *Merging in any order.* Batches arrive in completion order; passwords and dates
  are merged from several rows. The answer must not depend on the order and must
  not lose a password.
* *Streaming against the final answer.* Checks are made for announced links, the
  filter is applied to ranked ones. What is printed must have been found valid as
  printed, and a link must be withheld only for its state.
* *The loop's branches.* `select!` panics when all of its branches are disabled and
  hangs when only the interrupt is left.
* *A cache that outlives the command.* A verdict must be for the same share,
  password and proxy, and not older than its state allows; a timeout is no verdict.
* *A hundred ways to fail in part.* A search sends many requests, several at a time,
  each tried again after some faults. The rows it has when a later request fails or
  the deadline comes must already be published; a page that was missed must not
  pass for an empty one; and all of them share the permits of the command, one of
  which may be held by the very search that waits for another.
* *Profiles under way.* A search saves what it learned about channels minutes after
  it loaded the profile, six lookups at a time, while another command deletes a
  channel or logs out.
* *Replacing oneself.* An update replaces the program that runs, on Windows by a
  helper after its exit, and converts the data the new one needs.
* *A file edited by several processes.* No update may be lost, whoever fails or dies
  between locking, writing, syncing and renaming; a list that cannot be read must
  never be replaced.

`PROJECT.json` lists these hazards one by one at their lines.

## The modules

| Module | Models | State and actions against the code |
|---|---|---|
| `SearchRun` | what a run of the engine promises | links offered, links delivered, outcome; `Collect`, `End` |
| `SearchEngine` | `SearchEngine::run`, `SearchContext` | `pc` is the place in the loop: `top` (checks and slots, engine.rs:278), `select`, `poll` (inside a source's future), `recheck` (after the await, :320), `ending`, `done`. Rows are abstracted to the links they carry. |
| `SearchEngineProofs` | theorems of `SearchEngine` | |
| `LinkMerge` | `core/merge.rs`, `core/rank.rs`, the row merge of `SearchContext::finish` | operators; a row is its key, source, date, completeness, score and links |
| `SearchOutput` | what the search and the command share | the channel of events and the outcome |
| `ResultStream` | the data side of `run` | `AcceptBatch` merges and announces, `StreamEnds` puts batches in source order, announces again, ranks and merges the outcome |
| `SearchDrive` | `drive` of `cli/streaming.rs` | one action per branch of the select, plus the end; the search is any sequence of events and any outcome |
| `SearchCommand` | `drive` over `ResultStream` | the events and the outcome are those of the merge |
| `SearchCommandProofs` | theorems of `ResultStream`, `SearchDrive` and `SearchCommand`, and lemmas about the operators of `LinkMerge` | |
| `CheckEngine` | `check/engine.rs`, `check/cache.rs` | a call's groups wait (`todo`), are asked (`probing`) or have an answer (`slots`); the cache is a function from identity to verdict |
| `CheckEngineProofs` | theorems of `CheckEngine` | |
| `ChannelList` | the lists in `channels.toml` and their edits | operators |
| `ChannelRegister` | what an edit promises: it takes effect at one instant or not at all | |
| `ChannelStore` | `ChannelStore::modify` in several processes | one action per system call: lock, load and edit, write, sync, rename, return; failures, deaths, power cuts |
| `ChannelStoreProofs` | theorems of `ChannelStore` | |
| `ProviderPlan` | the vocabulary of plans | a plan is the sequence of stages of one `search`: what is asked, how often, how many at a time, with which tries, and what a failure means |
| `ProvidersCore`, `ProvidersA` ... `ProvidersH`, `ProvidersAuth` | one plan per provider | each definition is the plan of one provider, or a part several plans share; the letters are the registries of the source |
| `ProviderSearch` | any `search`, run from its plan, with `http/outbound.rs`, `retry.rs`, `body.rs`, `stream.rs` | a task per request: `new`, `open` while it holds a permit, `pause` between tries, `held` with the body read and the response kept, `done`; `rows` are those read and not published |
| `ProviderSearchProofs` | theorems of `ProviderSearch` | |
| `ProfileStore` | `state/store.rs`, `qqpd/index.rs`, the commands that change a profile | `load`, `ask` (requests under way), `clean` and `hold` (about to replace the file), `config`, `drop`; the file is one variable |
| `ProfileStoreProofs` | theorems of `ProfileStore` | |
| `SelfUpdate` | `update/mod.rs`, `cli/upgrade.rs`, `migration/mod.rs` | one action per step that can fail: check, download, verify, copy, keep, take away, rename, restore, report; read, transform, keep, replace |
| `SelfUpdateProofs` | theorems of `SelfUpdate` | |
| `DataLemmas` | lemmas about sequences, sets, least numbers and folds that the proofs share | |

`SearchEngine` and `ResultStream` divide `run` between them: the first has the
control (who is asked when, and whose rows count), with rows as sets of links; the
second has the data, with the run ending at any moment after any set of answers.
`SearchCommand` composes the second with `SearchDrive`; the first is connected to
`SearchDrive` by its promise, that a search ends (`RunEnds`). `ProviderSearch` looks
into what `SearchEngine` takes for any sequence of publications and answers: what it
publishes and returns, and that it returns. Definitions whose names end in `_Bug` are plausible mistakes in the definition that follows; no
specification uses them, they serve to show that a property can fail.

### Choices worth knowing

* The runtime may see the timer of the overall deadline late: `Poll` is possible
  when `Overdue` holds, and only `recheck` catches the answer. That is why the code
  reads the clock again after the await.
* A poll is atomic for the task but not for the world: while a source is being
  polled, the clock moves, the user interrupts, the receiver is dropped.
* Contexts that providers keep (spawned tasks) publish at any time, also after the
  end; the seal of the collector is what stops them.
* A source that was polled and returned an error keeps its published rows, a
  Telegram channel has no collector.
* In `SearchDrive` a check may finish before an event that is waiting: a tokio
  channel may refuse to deliver when the task's budget is used up.
* In `CheckEngine` the clock never goes back. The code takes the time of the system;
  one set back makes entries live longer, one set forward shorter.
* In `ProviderSearch` a page is data: a sequence of entries, each whole or lacking one
  feature (a title, a link, an identity ...); a stage names the features it needs and
  keeps the entries that have them. How a page is parsed is in the plan only by these
  needs, and by whether an unexpected document is a fault (`strict`). Caps on items,
  links and bytes are larger than any instance. Every fault can meet every request.
* The plans differ where the code does. `again` is the set of faults that a provider
  tries again after (some retry a status but not a broken body), `fail` and `none`
  say whether an error ends the search, is kept, passed over, or leads to another
  host; `live` says when a row is published. Providers that race mirrors drop
  the losers, and a page that was missed does not count when another way was taken
  instead (`else`, `instead`).
* The deadline is seen late or not at all by a provider that does not ask; what the
  engine does to it is `Cut`.
* In `ProfileStore` a process's own mutex makes reading and replacing one step as far as
  its siblings go; `hold` and `clean` let other processes in between. Whoever then
  writes sets `raced`, and the properties of the profiles with a list claim nothing
  after that: the store has no lock, and the repository promises nothing for two
  processes that save at the same instant.
* In `SelfUpdate` what stands at the path of the program is a version, nothing, or a
  torn copy; an archive may hold another version than its name says. Data is its
  format and the list of conversions it went through.
* In `ChannelStore` the lock is advisory and released when its file is closed, also
  by a death. A power failure leaves the last list the file system wrote back.

## The runs

| Run | Bounds | Shows |
|---|---|---|
| `engine` | two providers, one channel, two slots, a source timeout of 1 and an overall one of 2 ticks, two links of which one passes the filters | rows in time are kept and late ones are not, the counts add up, the run implements `SearchRun` and ends: by its deadline, or when it is stopped even if time stands still |
| `stream_answers` | three sources that find one url with any password, date and rank; two sources with a refreshed row; two sources that share a row id | the answer keeps urls and passwords, and does not depend on the order |
| `drive` | two events while the search runs and one at its end, two urls, two passwords, one check slot (`check.jobs = 0`), with and without checking | the loop never starves, schedules each check once, prints only what is valid, ends |
| `command_newest_code` | a provider and two channels, one of which fails | the newest password is the one printed and has been checked |
| `command_unchecked_code` | two undated rows with one link | a link is withheld without a check (see *Findings*) |
| `store_safety` | two processes, any two operations, any list over two names, limit 1 | edits are linearizable, the limit is never newly exceeded, calls return |
| `store_power` | the same with one power failure | the list is never torn or replaced unread |
| `checks` | two commands of two calls each over one cache with a damaged entry: a list of three items two of which are one share, one past the cache, one without it; one tick | answers in place, one question per identity, fresh verdicts only, every call ends |
| `providers` | every plan, one or two permits, up to two pages of up to two entries, three jobs, two tries, any fault at any request, the deadline at any moment | rows read in time survive a failure and the cut, success means nothing was missed, a search returns |
| `providers_permit` | the one plan that keeps a response, one permit | a permit outlives its body (see *Findings*) |
| `profiles` | each of the five providers with a login, two processes with two commands each, two channels, two base urls, two sessions | what was deleted or logged out stays away, what was learned stays, two absences in a row set a channel aside, a session is used with its own site |
| `update` | two updates and two conversions, three versions, two registered steps, Windows and not | a program that runs is always at hand, reports are true, data is converted once and from a kept original |

Why the bounds suffice for the interesting cases:

* *Engine.* Three sources on two slots make one wait in the queue, be started late,
  or never; a tick of source timeout inside two of overall timeout makes a source
  time out alone, be capped by the overall deadline, and be cut off by it. One
  provider keeps a clone of its context. Two links tell kept from filtered rows.
* *Stream.* The rules of merging look at pairs: two rows of one source, and three
  sources for the order of three (an accepted one, a later one, one cut off). Two
  dates and two scores give every order and every tie.
* *Drive.* With one slot, a second link waits; the second password of one url asks
  for a check of its own; an event in the last poll is one the loop reads after the
  search has returned. `--no-check` is the second mode.
* *Channel store.* Two processes are enough for any conflict over one file: a third
  would find the lock taken in the same way. The file may hold any list, absent,
  unreadable, with duplicate names, over the limit.
* *Checks.* The tick makes an entry expire before, during and after a call and between
  two commands, for every verdict but `ok` lives one tick; two calls at once make one call's answer the other's cache hit.
* *Providers.* Two entries on a page tell a first job from a later one, two pages a
  listing that is complete from one that is not; three jobs exceed what two pages of
  one kept entry each give, so that a stage with a width waits. Two tries are a
  first and a last one. One permit makes requests of one search wait for each other,
  two are what the one plan with a kept response needs.
* *Profiles.* Two processes meet between any two steps of each other; two channels tell
  the one a lookup is about from its sibling; two commands let a process log out, or
  delete and add again, under a lookup of the other. Two sessions tell an old one
  from a new one.
* *Updates.* Two are enough to make one copy, replace or miss what the other moves; three
  versions let one go up and the other down; release 3 refuses the first data format,
  and two steps lead to the last one.

### Fairness

* Engine: the task that runs it is scheduled, every poll returns (a poll that never
  returns would block the runtime, no timer could help), and the elapsed timer of
  the overall deadline is seen at the select even if sources keep waking the task -
  strong fairness, because polls disable the branch in between; the branch comes
  first in the biased select. Sources are *not* assumed to answer.
* Drive: the task is scheduled, the search ends (`RunEnds`) and each check ends (its
  requests have timeouts). Nobody is assumed to interrupt.
* Channel store: a process that is alive takes its next step, and takes the lock when
  it is free. It is weak fairness: with two processes each making one call the
  other holds the lock once at most, so waiting is finite.
* Checks: a call that runs is polled, and the checker answers or its timeout fires.
* Providers: weak fairness of `Work`, some step of some request. Each of them is what
  the runtime and the network guarantee: a request is answered or its timeout fires
  (every client has one), and a free permit is taken by someone who waits for it, the
  semaphore being fair. The deadline and the cut are *not* assumed: a search returns
  by itself. Which request moves is not assumed either, since a search has finitely
  many.

Deadlock is checked in every run but `update`; a finished system stutters by an action
of its own (`Ended`, `StreamDone`, `DriveEnded`, `StoreDone`, `AllEnded`, `Returned`,
`AllRest`). Updates and conversions are commands that are over once they have
returned, and nothing is left to happen.

## The proofs

TLAPS proves the following for all sources, slots, budgets, rows, links, processes and
names, from the named assumptions about the constants. TLC evaluates each of them in the
runs. They are typing, and what the values that reach the code are made of:
`StreamAssumption` and `DriveAssumption` type the constants (no password is a
password; the source that stands for a plugin is no channel); `FoundAssumption` says that
rows are rows and that a source names itself in them; `RequestAssumption` says that a list
of items has a length, `StoredAssumption` that what an earlier run of the program stored was
not found in the future; `CommandAssumption` joins the channels of the loop to the Telegram
sources of the search; `PlansAssumption` is what is asked of the plan of a provider (see
*Providers*). `Key`, `Url` and `Pwd` of `ResultStream` are any sets.

*Engine* (`SearchEngineProofs`): `TypeCorrect`, `AccountingCorrect`,
`NothingLostCorrect`, `OnTimeOnlyCorrect`, `AnswerFrozenCorrect`,
`EverySourceOnceCorrect` and `EngineImplementsRun`. None of the properties is inductive alone. The invariant is

* `Places` - a source is waiting, holding a slot, just returned or accepted, and
  only in one of these;
* `Counts` - the counters are the sizes of these sets, so that no difference of the
  summary is negative;
* `Rows` - the collectors still registered are those of started providers not yet
  accepted, the sealed ones those of accepted providers; a provider's batch is what
  its sealed collector holds and the filters let pass; what was emitted is the union
  of the batches;
* `HandedOver` - everything in a collector or in the answer just returned was handed
  over before its source's deadline.

`EverySourceOnce` needs one more: `Present`, that until the run is done no
selected source is lost: it is waiting, holds a slot, has just returned or is accepted.

The refinement maps `Poll`, `Fill` and the rechecks to stutters, publications and
`Accept` to `Collect`, and `Finalise` to `End`; `NothingLost` is what makes the last
one deliver *all* that was offered.

*Channel store* (`ChannelStoreProofs`): `StoreTypeCorrect`, `DraftCorrect`,
`NeverTornCorrect`, `OverLimitCorrect`, `StoreImplementsRegister`. The invariant is
that what a process is about to write was made from the list on disk
(`DraftIsCurrent`), that whoever works holds the lock (`LockHeld`), and that
what is visible was synced, so that a power failure cannot make a readable list
unreadable or the other way round (`Durable`). `NeverTorn` is proved with any number of power
failures; `OverLimitCorrect` and the refinement assume `PowerCuts = 0`, for a power
failure takes back an edit whose directory entry was not written back yet - the
store does not sync the directory - and a register never takes back a call.

*Update* (`SelfUpdateProofs`): `ProgramRecoverableCorrect`, `ToldTruthfullyCorrect`,
`ConvertedOnceCorrect`, for any number of updates and conversions, any releases and
any registered steps, on Windows and elsewhere; assumed are only that versions and
formats are numbers and that a missing or torn program is no version. Two invariants,
for the two halves share no variable that both change:

* `UpdateInv` - `Replacing` says that what is about to replace the program was verified,
  that a copy is of a program that runs *or else* some update has already saved one
  (`Saved`), and that what is taken away was kept before. The alternative is needed:
  an update may copy the torn file another one left, but then that other one has kept
  a good copy, and backups are never removed (`SavedStays`). `Telling` says that
  before the rename nothing was put and nothing of the kind reported.
* `MigrateInv` - `Working`: the holder of the lock works on the data as it is, what it
  has made of it is in order and of a higher format, and before it replaces the file
  the original is in the archive. `InOrderAppend` is the lemma about one more step.

*Profiles* (`ProfileStoreProofs`): `RemovedStaysRemovedCorrect`, `ResolutionsKeptCorrect`,
`IsolatedByTwoAbsencesCorrect`, `SessionOfItsSiteCorrect`, for any processes, channels, base
urls and numbers of commands; assumed is only that no profile and no session are neither.
The invariant `ProfileInv` is in three parts. `ListInv`: unless another process wrote after
it was read (`raced`), what a process is about to write keeps off the list what was
removed, has the number of every channel that was learned, and counts no absence too many
(`Fine`) - and so does the file. `Numbered`: every session there is was granted before, so
that a login never grants one that was logged out. `SiteInv`: what Woniu is about to use
has a session of the site the command started with, or none; it needs the saving of an
expired profile before the first request as an intermediate step.

The actions change several fields of one record by `[f EXCEPT ![p] = [@ EXCEPT !.a = ..., !.b = ...]]`
and not by `[f EXCEPT ![p].a = ..., ![p].b = ...]`: from the second, which is the same
function, the SMT translation of tlapm 1.4.5 derives a contradiction, and a proof about it
shows nothing. The same holds for two keys that may be equal.

*Link checks* (`CheckEngineProofs`): `AnswersInOrderCorrect`, `CachedIsFreshCorrect`,
`CacheIsFoundedCorrect`, `ProbedOnceCorrect`, for any requests, checkers, calls and commands.
The invariant `CheckInv` says of each call

* `Shape` - it is idle, or has a request and a slot for each of its items;
* `Waiting` - what waits and what is being asked are identities of its items, and no more are
  asked than there are slots;
* `Answering` - the identity of each item waits or is being asked, or the item has its answer,
  under its own url, and one from the cache is a fact not older than its lifetime;
* `Asking` - what a checker was asked for it was not asked before, and no longer waits;

and of the cache `Founded`: every readable entry is a fact, with the lifetime of its state.
Steps of other calls only add facts (`Untouched`).

*The stream* (`SearchCommandProofs`, first part): `PasswordNeverLostCorrect`,
`AnswerHasAnnouncedUrlsCorrect`, `AnswerKeepsPasswordsCorrect`, `AnswerIsStableCorrect`,
`NoCodeForgottenCorrect`, for any rows of any sources. The operators of `LinkMerge` are folds,
as the code's loops are, and the library's induction theorems cannot be used with these
provers, for they take an operator as parameter. The proofs take a fold apart instead:
`Folding` gives the *run* of a fold, the function of its partial results; what the loop keeps
is then the same claim about every index of the run, and a claim about all numbers up
to the length of a run follows from its first value and its step by `UpTo`, which rests on
`LeastNumber`: a nonempty set of numbers has a least one. Each loop has one lemma that says
what it keeps:

* `merge_search_results`: the rows have distinct keys, and are those of the batches when the
  keys already differ;
* `merge_links`: `Merges(links, C)`, the promise of the function about the candidates
  `C` - each url once, a known password is kept and is one of this url, the date is the newest,
  and the password is that of the newest where they agree on one.
  It says nothing of the order of `C`, so what it says of a merge in one order holds of the other;
* `finish`: a row published again keeps its place, and a known password;
* the announcements: a url once announced stays, and so does that it has a password;
* `rank_results` and the sort into source order are permutations. That a place of the sorted
  sequence is taken by exactly one element is a lemma about counting the predecessors in
  a strict order (`PlacesOfOrder`), and sorting twice gives one sequence, which is why the
  order of completion leaves no trace.

The invariant `StreamInv` adds that the batches are of distinct sources, that they are the
answers of these sources until the end and in source order after it
(`StillAnswers`, `EndsInOrder`), and, where row ids differ between sources, that the urls
announced are those of the rows accepted (`AllAnnounced`) and at the end carry the password
on which their newest rows agree (`EndsAnnounced`). `DistinctIds` is a hypothesis of three of
the properties, in their statements as TLC checks them: where two sources share an id, the less complete row is
dropped with its links, as the code means it. `PasswordNeverLost` and `AnswerIsStable` do not need it.

*The command* (`SearchCommandProofs`, second part): `SelectHasBranchCorrect`, `ChecksAccountedCorrect`,
`AnnouncedAreCheckedCorrect`, `OnlyValidPrintedCorrect`, `InvalidAreDisabledCorrect` of
`SearchDrive`, for any urls, passwords, channels, slots and sequences of events;
`NewestCodeIsCheckedCorrect` and `CommandKeepsLoop` of `SearchCommand`. A link is a url and a
password in the first and has a source and a date too in the second, so that what the loop
keeps is proved once, for links of any set `L` and sources of any set `S`. The invariant
`DriveInv(L, S)` is

* `Slots` - the slots are full while a link waits, and an interrupt empties both; without this
  the loop might wait with nothing running, and `SelectHasBranch` is not inductive;
* `Places` - a scheduled link waits, is checked or has a verdict, and only one of these, where
  two links are the same when their check keys are; `scheduled` is the union of the three until
  an interrupt;
* `Verdicts` - a recorded verdict was given for this url and password;
* `Received` - every event is still in the channel or was looked at: its link is scheduled,
  its channel among the invalid ones, and a channel is invalid only for an event;
* `Ending` - what the answer is when the loop has ended.

`LoopKeeps` says that every step of the loop but a poll of the search keeps it, `SentKeeps` that
a poll does which sends events of such links. `SearchDrive` polls any search of this kind,
`SearchCommand` the one of `ResultStream`, and its invariant is `DriveInv` and `StreamInv`
together with `AnnouncedSent`: every link as it was last announced is among the events sent.
That a poll keeps the last part is `StepTells` of the stream, where whatever a step changes in
the announcements is in the events of this step. `NewestCodeIsChecked` then follows in
three steps: the ranked merge gives the link the password on which its newest rows agree
(`MergesNewest`), so does the last round of announcements although its rows are in source
order (`EndsAnnounced`), and what was announced was sent, and checked before anything was
printed. `DistinctIds` is a hypothesis here as in the stream. That the loop's channels are
the Telegram sources of the search is `CommandAssumption`.

That no two waiting links have the same key needs the counting lemmas of `DataLemmas`:
`ChecksAccounted` adds the cardinalities of three disjoint sets, one of which is listed by
a queue.

*Providers* (`ProviderSearchProofs`): `ShapeCorrect`, `RowsSurviveCorrect`,
`SuccessIsWholeCorrect`, for any set of plans, pages, entries, jobs, tries and permits, any
faults in any order and the deadline at any moment. What is asked of a plan is
`PlansAssumption`, four conditions on the data of a plan that TLC evaluates for the plan of
every provider:

* a stage that fails over to the next has a next one, and a nested stage is not one that
  only runs when nothing was found;
* a stage that gives rows is `Prompt` (they are published by the job that read them, or by
  an unordered stream that yields them at once) or `Conclusive` (one request, whose rows are
  the answer: what follows it is only asked when it failed, and no stage of the plan
  remembers an error and goes on);
* a stage whose missed page is passed over without a trace is `MadeUp`: it is one request, and
  what follows has nothing to do up to a stage that asks in another way.

These are what a change of a provider must keep: a plan that publishes at the end what it
collected from several requests loses rows, and TLC shows it as soon as the plan is
written down. The proof is that, under them, no interleaving of tasks, tries, faults and the
deadline breaks the two promises. It has three invariants.

* `ShapeInv` - the tasks in hand are of the stage under way (`from`) or of the nested
  stages directly after it, one that asks once has one task, and a task that does not
  stream has given nothing before it is done. `GoOnSteps` is the lemma about what any
  answer may lead to: the search stays, begins a later stage, or ends.
* `RowsInv` - while a search is under way all that was read is published, so that whatever
  ends it has nothing to lose; and an error that is remembered is of a stage that may
  remember one, so that none is when a `Conclusive` stage answers (`RowsConclude`).
* `MissInv` - `SuccessIsWhole` is not inductive: the missed page and the remembered error are
  two variables, and a later error overwrites the first. What holds is that whenever the
  miss counts, the error counts (`Counts(missed) => Counts(failed)`). That a later stage's
  error cannot be the one forgotten while the miss still counts needs that the
  stages between are nested, and those never forget (`MissKept`). The one page missed
  without an error is made up for in the same step (`MadeUpSteps`).

Only model-checked:

* liveness (`RunEnds`, `StopEnds`, `DriveEnds`, `CallsReturn`, `ChecksReturn`,
  `SearchReturns`), which the prover cannot treat under fairness;
* the two properties that are found violated (see *Findings*).

## Findings

*A valid link may be withheld because its password was never checked* (run
`command_unchecked_code`). Links are announced, and checked, with the password of
the merge in completion order. The final answer is merged in the order of rank.
Two undated rows with one url: the first to answer has the password `p`, the other,
ranked higher, has `q`. While streaming, an undated later duplicate does not replace
the first, so only `p` is announced and checked. The ranked outcome has `q`; `drive`
looks its check up by url *and* password, finds none and drops the link. The user
guide says that a link is filtered for its state only. The run `command_newest_code`
shows when the code is right: whenever the newest rows that carry the link agree on
the password.

*A permit outlives the body of its response* (run `providers_permit`).
`src/http/outbound.rs:21-24` says that the permit of a request is released when the
body ends. The search of sopanya reads a stream of events and keeps the response
until it returns, and so its permit, while the jobs it started, which need permits of
their own, are still under way. With one permit (`OUTBOUND_MAX_CONCURRENCY=1`, which
is accepted) they wait for each other until the deadline, and the search gives what it
had published by then. That is why `SearchReturns` asks for a second permit for this
one plan; with it, and for every other plan with one, a search returns.

## Facts worth knowing

They are no findings, for no document promises the contrary.

* Two processes that replace one profile at the same instant: the later one wins and the
  other's change is lost. Within a process, and whenever the other process is not just
  between reading and replacing, `RemovedStaysRemoved` and `ResolutionsKept` hold.
* Woniu, Panlian and Gying save the profile they loaded before their requests; a logout in
  between is undone.
* Changing the base URL of Woniu expires its sessions first. When saving the configuration
  then fails, the old site has no session any more; a session of the old site is
  never used with the new one.
* Of two updates at once the later rename wins; both report what they did, and the
  program that runs is always in place or kept.
* A power failure may take back an acknowledged edit of `channels.toml`.

## Not modelled

* The searches of Weibo and Panlian. Weibo hands on the rows of each user that is done
  and succeeds when one of them did; Panlian opens links one by one under a quota and
  passes over those that fail. No plan says that, and for the engine they are any
  sequence of publications and any answer. What both keep of their profiles is in
  `ProfileStore`. Gying with several profiles searches them one after the other in the
  way its plan does one.
* Checkers: one or two requests and the reading of the answer. A checker is any
  verdict, failure or timeout.
* Telegram pages: one request and its parsing; any answer or error.
* Parsing of pages, beyond which entries are kept; link extraction and canonical urls
  (`core/link.rs`), scores, keyword and cloud filters: text. A link is its canonical
  url, a score is a number, a filter a subset.
* Encodings, proxies, cookies, the encryption of profiles: data without control.
* QR codes and captchas of a login: a login grants a session or fails.
* Output formats, progress bar, configuration layers, parsing of arguments: no state
  that changes.
* Caches that some providers keep for a few minutes, beyond that a cached entry needs no
  request.

## Plan

Done: engine, stream, command loop, link checks, channel list, every provider's search
with the outbound permits, profiles, updates and migration; the proofs above.

1. Composition of `SearchDrive` with `CheckEngine`, so that the checks of a search are
   the calls of the engine over one cache.
2. The searches of Weibo and Panlian, with stages whose success is that of some of their
   requests.
