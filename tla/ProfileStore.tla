---------------------------- MODULE ProfileStore ----------------------------
(* One saved profile of a provider with a login, and the commands of several  *)
(* processes that read, change and replace its file.  Within a process a mutex *)
(* holds from the reading of the file to its replacement; between processes    *)
(* nothing does.  A request is answered at any time, and a process may stop    *)
(* between any two steps.  The file itself is replaced by a rename.            *)
EXTENDS Naturals, FiniteSets

CONSTANTS
    Process,        \* the processes
    Channel,        \* names of channels (QQPD) or of users (Weibo)
    Site,           \* base urls a site is reached under
    MaxCommands,    \* commands a process may run
    MaxSessions,    \* sessions the sites grant
    NoProfile, NoSession

ASSUME BoundsAssumption ==
    MaxCommands \in Nat /\ MaxSessions \in Nat /\ IsFiniteSet(Channel)

(* What a profile holds: the number of a channel once it is known, and how     *)
(* often in a row it was not found.                                            *)
Sessions == [no : Nat, from : Site]
Profiles ==
    [session : Sessions \cup {NoSession}, site : Site, list : SUBSET Channel,
     index : [Channel -> {"none", "old", "number"}], gone : [Channel -> Nat]]

ASSUME NothingAssumption == NoProfile \notin Profiles /\ NoSession \notin Sessions

Listing == {"qqpd", "weibo"}              \* profiles with a list of channels
Holding == {"woniu", "panlian", "gying"}  \* loaded once, at the start of a command

VARIABLES
    provider,       \* whose profile it is
    file,           \* the profile on disk
    base,           \* the configured base url
    granted,        \* sessions granted so far
    proc,           \* what each process is doing
    left,           \* commands each process may still run
    raced,          \* a process changed the file after another had read it to replace it
    dropped,        \* sessions that were logged out
    removed,        \* channels that were deleted and not added again
    learned,        \* channels on the list whose number was saved
    absent          \* absences in a row that were saved, per channel

disk == <<file, base>>
history == <<raced, dropped, removed, learned, absent>>
vars == <<provider, disk, granted, proc, left, history>>

Profile(session, site) ==
    [session |-> session, site |-> site, list |-> {},
     index |-> [c \in Channel |-> "none"], gone |-> [c \in Channel |-> 0]]

Idle == [at |-> "idle", cmd |-> "none", arg |-> {}, copy |-> NoProfile,
         jobs |-> {}, got |-> "none", site |-> base]

Commands ==
    CASE provider = "qqpd" -> {"login", "logout", "add", "delete", "search"}
      [] provider = "weibo" -> {"login", "logout", "add", "delete"}
      [] provider = "woniu" -> {"login", "logout", "search", "configure"}
      [] OTHER -> {"login", "logout", "search"}

LoggedIn(f) == f # NoProfile /\ f.session # NoSession

(* A profile of an earlier release may have indexes that are no numbers.       *)
Init ==
    /\ provider \in Listing \cup Holding
    /\ base \in Site
    /\ granted = 0
    /\ \/ file = NoProfile
       \/ \E list \in SUBSET Channel, index \in [Channel -> {"none", "old"}] :
            file = [Profile(NoSession, base) EXCEPT !.list = list, !.index = index]
    /\ (file # NoProfile /\ file # Profile(NoSession, base)) => provider = "qqpd"
    /\ proc = [p \in Process |-> Idle]
    /\ left = [p \in Process |-> MaxCommands]
    /\ raced = FALSE /\ dropped = {} /\ removed = {} /\ learned = {}
    /\ absent = [c \in Channel |-> 0]

(* Writing the file while another process is about to replace what it read.    *)
Writing(p) ==
    raced' = (raced \/ \E q \in Process \ {p} : proc[q].at \in {"clean", "hold"})

Goes(p, at) == proc' = [proc EXCEPT ![p].at = at]

(* The configure commands ask for a profile with a session first.              *)
Start(p) ==
    /\ proc[p].at = "idle" /\ left[p] > 0
    /\ \E cmd \in Commands, c \in Channel :
         /\ cmd \in {"add", "delete", "search"} => LoggedIn(file)
         /\ proc' = [proc EXCEPT ![p] =
              [Idle EXCEPT !.cmd = cmd, !.arg = {c},
                           !.at = IF cmd = "logout" /\ provider # "woniu" THEN "drop" ELSE "load"]]
    /\ left' = [left EXCEPT ![p] = @ - 1]
    /\ UNCHANGED <<provider, disk, granted, history>>

Done(p) ==
    /\ proc' = [proc EXCEPT ![p] = Idle]
    /\ UNCHANGED <<provider, disk, granted, left, history>>

(* A command is over; or it fails, is interrupted or killed.                   *)
Finish(p) ==
    /\ \/ proc[p].at = "end"
       \/ proc[p].at = "ask" /\ provider \in Listing /\ proc[p].jobs = {}
       \/ proc[p].at = "ask" /\ provider = "gying" /\ proc[p].cmd = "search"
    /\ Done(p)

Stop(p) == proc[p].at \notin {"idle", "end"} /\ Done(p)

-----------------------------------------------------------------------------
(* Profiles with a list.                                                       *)

(* Only numbers of channels on the list are kept in the index.                 *)
Clean(f) ==
    IF f = NoProfile \/ provider # "qqpd" THEN f
    ELSE [f EXCEPT !.index = [c \in Channel |->
            IF c \in f.list /\ @[c] = "number" THEN "number" ELSE "none"]]

Unresolved(f) ==
    IF f = NoProfile THEN {} ELSE {c \in f.list : f.index[c] = "none" /\ f.gone[c] < 2}

OrNew(f) == IF f = NoProfile THEN Profile(NoSession, base) ELSE f

(* What is loaded is cleaned, and saved where that changed it; then a login, an*)
(* add and a delete change it, a search and the repair after an add resolve    *)
(* what has no number yet.                                                     *)
LoadListed(p) ==
    LET f == Clean(file)
        edits == proc[p].cmd \in {"login", "add", "delete"}
    IN /\ proc[p].at = "load" /\ provider \in Listing
       /\ proc' = [proc EXCEPT ![p] =
            [@ EXCEPT !.copy = IF edits THEN OrNew(f) ELSE f,
                      !.jobs = IF edits THEN {} ELSE Unresolved(f), !.got = "none",
                      !.at = IF f # file THEN "clean" ELSE IF edits THEN "hold" ELSE "ask"]]
       /\ UNCHANGED <<provider, disk, granted, left, history>>

SaveCleaned(p) ==
    /\ proc[p].at = "clean"
    /\ file' = proc[p].copy
    /\ Goes(p, IF proc[p].cmd \in {"search", "repair"} /\ proc[p].got = "none" THEN "ask" ELSE "hold")
    /\ Writing(p)
    /\ UNCHANGED <<provider, base, granted, left, dropped, removed, learned, absent>>

(* A lookup is answered: the profile is read again, and what was learned is    *)
(* dropped when the channel is off the list or the session another one.        *)
Latest_Bug(p) == proc[p].copy
Latest(p) == Clean(file)

LookUp(p, c) ==
    /\ proc[p].at = "ask" /\ provider = "qqpd" /\ c \in proc[p].jobs
    /\ LET f == Latest(p)
           wanted == f # NoProfile /\ c \in f.list /\ f.session = proc[p].copy.session
       IN \E answer \in {"found", "missing", "other"} :
            proc' = [proc EXCEPT ![p] =
              [@ EXCEPT !.jobs = proc[p].jobs \ {c}, !.arg = {c}, !.got = answer,
                        !.copy = IF wanted THEN f ELSE proc[p].copy,
                        !.at = IF ~wanted THEN "ask" ELSE IF f # file THEN "clean" ELSE "hold"]]
    /\ UNCHANGED <<provider, disk, granted, left, history>>

Resolved(f, c, answer) ==
    CASE answer = "found" -> [f EXCEPT !.index[c] = "number", !.gone[c] = 0]
      [] answer = "missing" -> [f EXCEPT !.gone[c] = IF @ < 2 THEN @ + 1 ELSE @]
      [] answer = "other" -> [f EXCEPT !.gone[c] = 0]

(* A login keeps the list and the index; an add gives a channel that was set   *)
(* aside a new chance; a delete takes it from the list and the index.          *)
Relogged_Bug(f, session) == Profile(session, base)
Relogged(f, session) == [f EXCEPT !.session = session]

Added_Bug(f, cs) == [f EXCEPT !.list = @ \cup cs]
Added(f, cs) ==
    [f EXCEPT !.list = @ \cup cs, !.gone = [c \in Channel |-> IF c \in cs THEN 0 ELSE @[c]]]

Deleted(f, cs) ==
    [f EXCEPT !.list = @ \ cs, !.index = [c \in Channel |-> IF c \in cs THEN "none" ELSE @[c]]]

SaveLogin(p) ==
    /\ proc[p].cmd = "login" /\ granted < MaxSessions
    /\ granted' = granted + 1
    /\ file' = Relogged(proc[p].copy, [no |-> granted', from |-> base])
    /\ Goes(p, "end")
    /\ UNCHANGED <<removed, learned, absent>>

SaveAdd(p) ==
    /\ proc[p].cmd = "add"
    /\ file' = Added(proc[p].copy, proc[p].arg)
    /\ removed' = removed \ proc[p].arg
    /\ absent' = [c \in Channel |-> IF c \in proc[p].arg THEN 0 ELSE absent[c]]
    /\ proc' = [proc EXCEPT ![p] =
         [@ EXCEPT !.at = IF provider = "qqpd" THEN "load" ELSE "end", !.cmd = "repair"]]
    /\ UNCHANGED <<granted, learned>>

SaveDelete(p) ==
    /\ proc[p].cmd = "delete"
    /\ file' = Deleted(proc[p].copy, proc[p].arg)
    /\ removed' = removed \cup proc[p].arg
    /\ learned' = learned \ proc[p].arg
    /\ Goes(p, "end")
    /\ UNCHANGED <<granted, absent>>

SaveLookUp(p) ==
    /\ proc[p].cmd \in {"search", "repair"} /\ proc[p].got # "none"
    /\ \E c \in proc[p].arg :
         /\ file' = Resolved(proc[p].copy, c, proc[p].got)
         /\ learned' = IF proc[p].got = "found" THEN learned \cup {c} ELSE learned
         /\ absent' = [absent EXCEPT ![c] = IF proc[p].got = "missing" THEN @ + 1 ELSE 0]
    /\ proc' = [proc EXCEPT ![p] = [@ EXCEPT !.at = "ask", !.got = "none"]]
    /\ UNCHANGED <<granted, removed>>

SaveListed(p) ==
    /\ proc[p].at = "hold" /\ provider \in Listing
    /\ SaveLogin(p) \/ SaveAdd(p) \/ SaveDelete(p) \/ SaveLookUp(p)
    /\ Writing(p)
    /\ UNCHANGED <<provider, base, left, dropped>>

-----------------------------------------------------------------------------
(* Profiles that are loaded once and saved after a request.                    *)

Expired(f) == [f EXCEPT !.session = NoSession]

(* Woniu gives up a session of another base url, or one that is too old.       *)
Outdated_Bug(p, f) == {FALSE, TRUE}
Outdated(p, f) == IF f.site # proc[p].site THEN {TRUE} ELSE {FALSE, TRUE}

LoadHeld(p) ==
    /\ proc[p].at = "load" /\ provider \in Holding
    /\ \E old \in IF provider = "woniu" /\ file # NoProfile THEN Outdated(p, file) ELSE {FALSE} :
         proc' = [proc EXCEPT ![p] =
           [@ EXCEPT !.copy = IF old THEN Expired(file) ELSE file,
                     !.at = IF old THEN "hold" ELSE "ask"]]
    /\ UNCHANGED <<provider, disk, granted, left, history>>

Asks(p) == proc[p].at = "ask" /\ provider \in Holding

Grant(p) ==
    /\ granted < MaxSessions
    /\ granted' = granted + 1
    /\ proc' = [proc EXCEPT ![p] =
         [@ EXCEPT !.at = "hold", !.got = "answer",
                   !.copy = Profile([no |-> granted', from |-> proc[p].site], proc[p].site)]]

(* A login, and the one Gying makes within a search that was refused.          *)
LogInHeld(p) ==
    /\ Asks(p)
    /\ \/ proc[p].cmd = "login"
       \/ proc[p].cmd = "search" /\ provider = "gying" /\ LoggedIn(proc[p].copy)
    /\ Grant(p)
    /\ UNCHANGED <<provider, disk, left, history>>

(* Panlian saves the profile after the search, as it was loaded or expired;    *)
(* Woniu once it knows whether the session is good, and then as last used.     *)
Verify(p) ==
    /\ Asks(p) /\ proc[p].cmd = "search" /\ provider # "gying" /\ LoggedIn(proc[p].copy)
    /\ \E f \in {proc[p].copy, Expired(proc[p].copy)} :
         proc' = [proc EXCEPT ![p] = [@ EXCEPT !.copy = f, !.at = "hold", !.got = "answer"]]
    /\ UNCHANGED <<provider, disk, granted, left, history>>

(* A new base url: the profiles expire before the configuration is saved.      *)
Expire(p) ==
    /\ Asks(p) /\ proc[p].cmd = "configure"
    /\ proc' = [proc EXCEPT ![p] =
         [@ EXCEPT !.at = IF proc[p].copy = NoProfile THEN "config" ELSE "hold", !.got = "answer",
                   !.copy = IF proc[p].copy = NoProfile THEN NoProfile ELSE Expired(proc[p].copy)]]
    /\ UNCHANGED <<provider, disk, granted, left, history>>

TellSite(p) ==
    /\ Asks(p) /\ proc[p].cmd = "logout"
    /\ Goes(p, "drop")
    /\ UNCHANGED <<provider, disk, granted, left, history>>

AfterSave(p) ==
    CASE proc[p].got = "none" -> "ask"
      [] proc[p].got = "answer" /\ proc[p].cmd = "configure" -> "config"
      [] proc[p].got = "answer" /\ proc[p].cmd = "search" /\ provider = "woniu"
           /\ LoggedIn(proc[p].copy) -> "hold"
      [] OTHER -> "end"

SaveHeld(p) ==
    /\ proc[p].at = "hold" /\ provider \in Holding
    /\ file' = proc[p].copy
    /\ proc' = [proc EXCEPT ![p] =
         [@ EXCEPT !.at = AfterSave(p),
                   !.got = IF AfterSave(p) = "ask" THEN "none" ELSE "used"]]
    /\ Writing(p)
    /\ UNCHANGED <<provider, base, granted, left, dropped, removed, learned, absent>>

SaveConfig(p) ==
    /\ proc[p].at = "config"
    /\ base' \in Site \ {proc[p].site}
    /\ Goes(p, "end")
    /\ UNCHANGED <<provider, file, granted, left, history>>

(* A logout removes the file.                                                  *)
Drop(p) ==
    /\ proc[p].at = "drop"
    /\ file' = NoProfile
    /\ dropped' = IF LoggedIn(file) THEN dropped \cup {file.session} ELSE dropped
    /\ learned' = {}
    /\ absent' = [c \in Channel |-> 0]
    /\ Goes(p, "end")
    /\ Writing(p)
    /\ UNCHANGED <<provider, base, granted, left, removed>>

-----------------------------------------------------------------------------
Step(p) ==
    \/ Start(p) \/ Finish(p) \/ Stop(p) \/ Drop(p)
    \/ LoadListed(p) \/ SaveCleaned(p) \/ SaveListed(p) \/ \E c \in Channel : LookUp(p, c)
    \/ LoadHeld(p) \/ LogInHeld(p) \/ Verify(p) \/ Expire(p) \/ TellSite(p)
    \/ SaveHeld(p) \/ SaveConfig(p)

AllRest ==
    /\ \A p \in Process : proc[p].at = "idle" /\ left[p] = 0
    /\ UNCHANGED vars

Next == AllRest \/ \E p \in Process : Step(p)
Spec == Init /\ [][Next]_vars

-----------------------------------------------------------------------------
(* A profile with a list is not brought back by a lookup that was under way,   *)
(* nor by an edit: a channel that was deleted stays off the list until it is   *)
(* added again, and a session that was logged out stays away.                  *)
RemovedStaysRemoved ==
    (provider \in Listing /\ ~raced /\ file # NoProfile) =>
        /\ file.list \cap removed = {}
        /\ file.session \notin dropped

(* What a lookup saved is not lost to its siblings, to other commands or to a  *)
(* new login.                                                                  *)
ResolutionsKept ==
    (provider = "qqpd" /\ ~raced /\ file # NoProfile) =>
        \A c \in learned : file.index[c] = "number"

(* A channel is set aside only after two absences in a row since it was added. *)
IsolatedByTwoAbsences ==
    (provider = "qqpd" /\ ~raced /\ file # NoProfile) =>
        \A c \in file.list : file.gone[c] <= absent[c]

(* Woniu uses a session with the site it is of only, whatever base url is      *)
(* configured meanwhile and wherever that command stops.                       *)
SessionOfItsSite ==
    \A p \in Process :
        (provider = "woniu" /\ Asks(p) /\ LoggedIn(proc[p].copy))
            => proc[p].copy.session.from = proc[p].site
=============================================================================
