------------------------- MODULE ProfileStoreProofs -------------------------
(* Proofs about ProfileStore for any processes, channels and base urls and any *)
(* number of commands and sessions.                                            *)
EXTENDS ProfileStore, TLAPS

Places == {"idle", "load", "clean", "hold", "ask", "drop", "config", "end"}
Editing == {"clean", "hold"}

Doings ==
    [at : Places,
     cmd : {"none", "login", "logout", "add", "delete", "search", "configure", "repair"},
     arg : SUBSET Channel, copy : Profiles \cup {NoProfile}, jobs : SUBSET Channel,
     got : {"none", "found", "missing", "other", "answer", "used"}, site : Site]

TypeInv ==
    /\ provider \in Listing \cup Holding /\ base \in Site /\ granted \in Nat
    /\ file \in Profiles \cup {NoProfile}
    /\ proc \in [Process -> Doings]
    /\ raced \in BOOLEAN /\ dropped \subseteq Sessions
    /\ removed \subseteq Channel /\ learned \subseteq Channel
    /\ absent \in [Channel -> Nat]

-----------------------------------------------------------------------------
(* The sessions there are have been granted: the next one is a new one.        *)
Old(f) == LoggedIn(f) => f.session.no <= granted

Numbered ==
    /\ Old(file) /\ \A p \in Process : Old(proc[p].copy)
    /\ \A session \in dropped : session.no <= granted

(* What a profile with a list must hold, whether it is on disk or about to be. *)
Fine(f) ==
    /\ f.list \cap removed = {} /\ f.session \notin dropped
    /\ \A c \in learned : c \in f.list /\ f.index[c] = "number"
    /\ \A c \in f.list : f.gone[c] <= absent[c]

(* As long as no other process wrote after it was read, so is what a process   *)
(* is about to write; and a lookup is about a channel that is on the list.     *)
ListInv ==
    provider \in Listing =>
        /\ \A p \in Process :
              /\ proc[p].got \in {"none", "found", "missing", "other"}
              /\ proc[p].at \in Editing =>
                    /\ proc[p].copy # NoProfile
                    /\ proc[p].got # "none" => proc[p].arg \subseteq proc[p].copy.list
        /\ ~raced =>
              /\ IF file = NoProfile THEN learned = {} ELSE Fine(file)
              /\ \A p \in Process : proc[p].at \in Editing => Fine(proc[p].copy)

(* A session of Woniu is of the site its profile names; what is used has a     *)
(* session of the site the command started with, or none.                      *)
OfItsSite(f) == LoggedIn(f) => f.session.from = f.site

SiteInv ==
    provider = "woniu" =>
        /\ OfItsSite(file)
        /\ \A p \in Process :
              /\ proc[p].at # "clean" /\ OfItsSite(proc[p].copy)
              /\ (proc[p].at = "ask" /\ LoggedIn(proc[p].copy)) =>
                    proc[p].copy.site = proc[p].site
              /\ (proc[p].at = "hold" /\ proc[p].got = "none") => ~LoggedIn(proc[p].copy)

ProfileInv == TypeInv /\ Numbered /\ ListInv /\ SiteInv

-----------------------------------------------------------------------------
LEMMA CleanIsProfile ==
    ASSUME NEW f \in Profiles \cup {NoProfile}, provider \in Listing \cup Holding
    PROVE  /\ Clean(f) \in Profiles \cup {NoProfile}
           /\ Clean(f) = NoProfile <=> f = NoProfile
           /\ f # NoProfile => /\ Clean(f).list = f.list /\ Clean(f).gone = f.gone
                               /\ Clean(f).session = f.session /\ Clean(f).site = f.site
                               /\ \A c \in f.list : f.index[c] = "number"
                                                    => Clean(f).index[c] = "number"
<1>1. CASE f = NoProfile \/ provider # "qqpd"
  BY <1>1 DEF Clean
<1>2. CASE f \in Profiles /\ f # NoProfile /\ provider = "qqpd"
  <2> DEFINE index == [c \in Channel |->
                 IF c \in f.list /\ f.index[c] = "number" THEN "number" ELSE "none"]
  <2>1. Clean(f) = [f EXCEPT !.index = index]
    BY <1>2 DEF Clean
  <2>2. index \in [Channel -> {"none", "old", "number"}]
    OBVIOUS
  <2>3. f.list \subseteq Channel
    BY <1>2 DEF Profiles
  <2> HIDE DEF index
  <2>4. Clean(f) \in Profiles
    BY <1>2, <2>1, <2>2 DEF Profiles
  <2>5. Clean(f).index = index
    BY <1>2, <2>1 DEF Profiles
  <2>6. /\ Clean(f).list = f.list /\ Clean(f).gone = f.gone
        /\ Clean(f).session = f.session /\ Clean(f).site = f.site
    BY <1>2, <2>1 DEF Profiles
  <2>7. \A c \in f.list : f.index[c] = "number" => index[c] = "number"
    BY <2>3 DEF index
  <2> QED BY <1>2, <2>4, <2>5, <2>6, <2>7, NothingAssumption
<1> QED BY <1>1, <1>2

LEMMA EmptyIsProfile ==
    ASSUME NEW session \in Sessions \cup {NoSession}, NEW site \in Site
    PROVE  /\ Profile(session, site) \in Profiles
           /\ Profile(session, site) # NoProfile
  BY NothingAssumption DEF Profile, Profiles

(* What a process that reads the file starts from.                             *)
LEMMA OrNewIsProfile ==
    ASSUME NEW f \in Profiles \cup {NoProfile}, base \in Site
    PROVE  OrNew(f) \in Profiles /\ (f # NoProfile => OrNew(f) = f)
  BY EmptyIsProfile DEF OrNew

(* The edits keep a profile a profile.                                         *)
LEMMA EditsAreProfiles ==
    ASSUME NEW f \in Profiles
    PROVE  /\ Expired(f) \in Profiles
           /\ \A session \in Sessions : Relogged(f, session) \in Profiles
           /\ \A cs \in SUBSET Channel : Added(f, cs) \in Profiles /\ Deleted(f, cs) \in Profiles
  BY DEF Expired, Relogged, Added, Deleted, Profiles

LEMMA LookUpIsProfile ==
    ASSUME NEW f \in Profiles, NEW c \in Channel, NEW answer \in {"found", "missing", "other"}
    PROVE  Resolved(f, c, answer) \in Profiles
<1>1. CASE answer = "found"  BY <1>1 DEF Resolved, Profiles
<1>2. CASE answer = "missing"  BY <1>2 DEF Resolved, Profiles
<1>3. CASE answer = "other"  BY <1>3 DEF Resolved, Profiles
<1> QED BY <1>1, <1>2, <1>3

-----------------------------------------------------------------------------
(* Types.                                                                      *)
LEMMA TypeInit == Init => TypeInv
<1> SUFFICES ASSUME Init PROVE TypeInv
  OBVIOUS
<1>1. base \in Site /\ granted = 0 /\ provider \in Listing \cup Holding
  BY DEF Init
<1>2. file \in Profiles \cup {NoProfile}
  <2>1. CASE file = NoProfile  BY <2>1
  <2>2. ASSUME NEW list \in SUBSET Channel, NEW index \in [Channel -> {"none", "old"}],
               file = [Profile(NoSession, base) EXCEPT !.list = list, !.index = index]
        PROVE  file \in Profiles
    <3>1. index \in [Channel -> {"none", "old", "number"}]
      OBVIOUS
    <3> QED BY <1>1, <2>2, <3>1 DEF Profile, Profiles
  <2> QED BY <2>1, <2>2 DEF Init
<1>3. proc \in [Process -> Doings]
  BY <1>1 DEF Init, Idle, Doings, Places
<1>4. raced = FALSE /\ dropped = {} /\ removed = {} /\ learned = {}
      /\ absent = [c \in Channel |-> 0]
  BY DEF Init
<1> QED BY <1>1, <1>2, <1>3, <1>4 DEF TypeInv

LEMMA IdleIsDoing == ASSUME TypeInv PROVE Idle \in Doings
  BY DEF TypeInv, Idle, Doings, Places

LEMMA TypeStep ==
    ASSUME TypeInv, ListInv, NEW p \in Process, Step(p)
    PROVE  TypeInv'
<1> USE DEF disk, history, Goes
<1>0. proc[p] \in Doings  BY DEF TypeInv
<1>1. CASE Start(p)
  <2>1. PICK cmd \in Commands, c \in Channel, at \in {"drop", "load"} :
            proc' = [proc EXCEPT ![p] =
                       [Idle EXCEPT !.cmd = cmd, !.arg = {c}, !.at = at]]
    BY <1>1 DEF Start
  <2>2. cmd \in {"login", "logout", "add", "delete", "search", "configure"}
    BY DEF Commands
  <2>3. [Idle EXCEPT !.cmd = cmd, !.arg = {c}, !.at = at] \in Doings
    BY <2>2, IdleIsDoing DEF Doings, Places
  <2> QED BY <1>1, <2>1, <2>3 DEF Start, TypeInv
<1>2. CASE Finish(p) \/ Stop(p)
  BY <1>2, IdleIsDoing DEF Finish, Stop, Done, TypeInv
<1>3. CASE Drop(p)
  <2>1. dropped' \subseteq Sessions
    BY <1>3 DEF Drop, TypeInv, LoggedIn, Profiles
  <2>2. [proc[p] EXCEPT !.at = "end"] \in Doings
    BY <1>0 DEF Doings, Places
  <2>3. proc' \in [Process -> Doings]
    BY <1>3, <2>2 DEF Drop, TypeInv
  <2> QED BY <1>3, <2>1, <2>3 DEF Drop, Writing, TypeInv
<1>4. CASE LoadListed(p)
  <2> DEFINE f == Clean(file)
  <2>1. f \in Profiles \cup {NoProfile} /\ OrNew(f) \in Profiles
    BY CleanIsProfile, OrNewIsProfile DEF TypeInv
  <2>2. Unresolved(f) \subseteq Channel
    BY <2>1 DEF Unresolved, Profiles
  <2> HIDE DEF f
  <2>3. PICK copy \in {f, OrNew(f)}, jobs \in {{}, Unresolved(f)}, at \in {"clean", "hold", "ask"} :
            proc' = [proc EXCEPT ![p] = [proc[p] EXCEPT !.copy = copy, !.jobs = jobs,
                                                        !.got = "none", !.at = at]]
    BY <1>0, <1>4 DEF LoadListed, TypeInv, Doings, f
  <2>4. [proc[p] EXCEPT !.copy = copy, !.jobs = jobs, !.got = "none", !.at = at] \in Doings
    BY <1>0, <2>1, <2>2 DEF Doings, Places
  <2>5. proc' \in [Process -> Doings]
    BY <2>3, <2>4 DEF TypeInv
  <2> QED BY <1>4, <2>5 DEF LoadListed, TypeInv
<1>5. CASE SaveCleaned(p)
  <2>1. PICK at \in {"ask", "hold"} : proc' = [proc EXCEPT ![p] = [proc[p] EXCEPT !.at = at]]
    BY <1>5 DEF SaveCleaned, TypeInv
  <2>2. [proc[p] EXCEPT !.at = at] \in Doings /\ proc[p].copy \in Profiles \cup {NoProfile}
    BY <1>0 DEF Doings, Places
  <2> QED BY <1>5, <2>1, <2>2 DEF SaveCleaned, Writing, TypeInv
<1>6. CASE SaveListed(p)
  <2>0. proc[p].copy \in Profiles /\ proc[p].arg \subseteq Channel
    BY <1>0, <1>6 DEF SaveListed, ListInv, Editing, Doings
  <2>1. CASE SaveLogin(p)
    <3>1. [no |-> granted + 1, from |-> base] \in Sessions
      BY DEF TypeInv, Sessions
    <3>2. file' \in Profiles
      BY <2>0, <2>1, <3>1, EditsAreProfiles DEF SaveLogin
    <3>3. [proc[p] EXCEPT !.at = "end"] \in Doings
      BY <1>0 DEF Doings, Places
    <3>4. proc' \in [Process -> Doings]
      BY <2>1, <3>3 DEF SaveLogin, TypeInv
    <3> QED BY <1>6, <2>1, <3>2, <3>4 DEF SaveListed, SaveLogin, Writing, TypeInv
  <2>2. CASE SaveAdd(p)
    <3>1. file' \in Profiles
      BY <2>0, <2>2, EditsAreProfiles DEF SaveAdd
    <3>2. PICK at \in {"load", "end"} :
              proc' = [proc EXCEPT ![p] = [proc[p] EXCEPT !.at = at, !.cmd = "repair"]]
      BY <1>0, <2>2 DEF SaveAdd, TypeInv, Doings
    <3>3. [proc[p] EXCEPT !.at = at, !.cmd = "repair"] \in Doings
      BY <1>0 DEF Doings, Places
    <3>4. proc' \in [Process -> Doings]
      BY <3>2, <3>3 DEF TypeInv
    <3> QED BY <1>6, <2>2, <3>1, <3>4 DEF SaveListed, SaveAdd, Writing, TypeInv
  <2>3. CASE SaveDelete(p)
    <3>1. file' \in Profiles
      BY <2>0, <2>3, EditsAreProfiles DEF SaveDelete
    <3>2. [proc[p] EXCEPT !.at = "end"] \in Doings
      BY <1>0 DEF Doings, Places
    <3>3. proc' \in [Process -> Doings]
      BY <2>3, <3>2 DEF SaveDelete, TypeInv
    <3> QED BY <1>6, <2>0, <2>3, <3>1, <3>3 DEF SaveListed, SaveDelete, Writing, TypeInv
  <2>4. CASE SaveLookUp(p)
    <3>1. PICK c \in proc[p].arg :
             /\ file' = Resolved(proc[p].copy, c, proc[p].got)
             /\ learned' = IF proc[p].got = "found" THEN learned \cup {c} ELSE learned
             /\ absent' = [absent EXCEPT ![c] = IF proc[p].got = "missing" THEN @ + 1 ELSE 0]
      BY <2>4 DEF SaveLookUp
    <3>2. file' \in Profiles
      BY <1>6, <2>0, <2>4, <3>1, LookUpIsProfile DEF SaveListed, SaveLookUp, ListInv
    <3>3. [proc[p] EXCEPT !.at = "ask", !.got = "none"] \in Doings
      BY <1>0 DEF Doings, Places
    <3>4. proc' \in [Process -> Doings]
      BY <1>0, <2>4, <3>3 DEF SaveLookUp, TypeInv, Doings
    <3>5. learned' \subseteq Channel /\ absent' \in [Channel -> Nat]
      BY <2>0, <3>1 DEF TypeInv
    <3> QED BY <1>6, <2>4, <3>2, <3>4, <3>5 DEF SaveListed, SaveLookUp, Writing, TypeInv
  <2> QED BY <1>6, <2>1, <2>2, <2>3, <2>4 DEF SaveListed
<1>7. CASE \E c \in Channel : LookUp(p, c)
  <2>1. PICK c \in Channel : LookUp(p, c)
    BY <1>7
  <2>2. Clean(file) \in Profiles \cup {NoProfile}
    BY CleanIsProfile DEF TypeInv
  <2> DEFINE wanted == /\ Clean(file) # NoProfile /\ c \in Clean(file).list
                       /\ Clean(file).session = proc[p].copy.session
             at == IF ~wanted THEN "ask" ELSE IF Clean(file) # file THEN "clean" ELSE "hold"
             copy == IF wanted THEN Clean(file) ELSE proc[p].copy
  <2>3. PICK answer \in {"found", "missing", "other"} :
            proc' = [proc EXCEPT ![p] = [proc[p] EXCEPT !.jobs = proc[p].jobs \ {c}, !.arg = {c},
                                                    !.got = answer, !.copy = copy, !.at = at]]
    BY <2>1 DEF LookUp, Latest, TypeInv
  <2>4. copy \in Profiles \cup {NoProfile} /\ at \in Places
    BY <1>0, <2>2 DEF Doings, Places
  <2> HIDE DEF copy, at
  <2>5. [proc[p] EXCEPT !.jobs = proc[p].jobs \ {c}, !.arg = {c}, !.got = answer,
                        !.copy = copy, !.at = at] \in Doings
    BY <1>0, <2>4 DEF Doings
  <2>6. proc' \in [Process -> Doings]
    BY <2>3, <2>5 DEF TypeInv
  <2> QED BY <2>1, <2>6 DEF LookUp, TypeInv
<1>8. CASE LoadHeld(p)
  <2>1. PICK old \in BOOLEAN :
           /\ old => file \in Profiles
           /\ proc' = [proc EXCEPT ![p] =
                [proc[p] EXCEPT !.copy = IF old THEN Expired(file) ELSE file,
                                !.at = IF old THEN "hold" ELSE "ask"]]
    BY <1>0, <1>8 DEF LoadHeld, Outdated, TypeInv, Doings
  <2>2. (IF old THEN Expired(file) ELSE file) \in Profiles \cup {NoProfile}
    BY <2>1, EditsAreProfiles DEF TypeInv
  <2>3. [proc[p] EXCEPT !.copy = IF old THEN Expired(file) ELSE file,
                        !.at = IF old THEN "hold" ELSE "ask"] \in Doings
    BY <1>0, <2>2 DEF Doings, Places
  <2>4. proc' \in [Process -> Doings]
    BY <2>1, <2>3 DEF TypeInv
  <2> QED BY <1>8, <2>4 DEF LoadHeld, TypeInv
<1>9. CASE LogInHeld(p)
  <2> DEFINE f == Profile([no |-> granted + 1, from |-> proc[p].site], proc[p].site)
  <2>1. f \in Profiles
    <3>1. proc[p].site \in Site
      BY <1>0 DEF Doings
    <3>2. [no |-> granted + 1, from |-> proc[p].site] \in Sessions
      BY <3>1 DEF TypeInv, Sessions
    <3> QED BY <3>1, <3>2, EmptyIsProfile
  <2> HIDE DEF f
  <2>2. [proc[p] EXCEPT !.at = "hold", !.got = "answer", !.copy = f] \in Doings
    BY <1>0, <2>1 DEF Doings, Places
  <2>3. proc' \in [Process -> Doings]
    BY <1>0, <1>9, <2>2 DEF LogInHeld, Grant, TypeInv, f
  <2> QED BY <1>9, <2>3 DEF LogInHeld, Grant, TypeInv
<1>10. CASE Verify(p)
  <2>1. proc[p].copy \in Profiles
    BY <1>0, <1>10 DEF Verify, LoggedIn, Doings
  <2>2. PICK f \in {proc[p].copy, Expired(proc[p].copy)} :
           proc' = [proc EXCEPT ![p] = [proc[p] EXCEPT !.copy = f, !.at = "hold", !.got = "answer"]]
    BY <1>0, <1>10 DEF Verify, TypeInv, Doings
  <2>3. f \in Profiles
    BY <2>1, EditsAreProfiles
  <2>4. [proc[p] EXCEPT !.copy = f, !.at = "hold", !.got = "answer"] \in Doings
    BY <1>0, <2>3 DEF Doings, Places
  <2>5. proc' \in [Process -> Doings]
    BY <2>2, <2>4 DEF TypeInv
  <2> QED BY <1>10, <2>5 DEF Verify, TypeInv
<1>11. CASE Expire(p)
  <2> DEFINE f == IF proc[p].copy = NoProfile THEN NoProfile ELSE Expired(proc[p].copy)
  <2>1. f \in Profiles \cup {NoProfile}
    BY <1>0, EditsAreProfiles DEF Doings
  <2>2. PICK at \in {"config", "hold"} :
           proc' = [proc EXCEPT ![p] = [proc[p] EXCEPT !.copy = f, !.at = at, !.got = "answer"]]
    BY <1>0, <1>11 DEF Expire, TypeInv, Doings
  <2> HIDE DEF f
  <2>3. [proc[p] EXCEPT !.copy = f, !.at = at, !.got = "answer"] \in Doings
    BY <1>0, <2>1 DEF Doings, Places
  <2>4. proc' \in [Process -> Doings]
    BY <2>2, <2>3 DEF TypeInv
  <2> QED BY <1>11, <2>4 DEF Expire, TypeInv
<1>12. CASE TellSite(p) \/ SaveConfig(p)
  <2>1. PICK at \in {"drop", "end"} : proc' = [proc EXCEPT ![p] = [proc[p] EXCEPT !.at = at]]
    BY <1>0, <1>12 DEF TellSite, SaveConfig, TypeInv, Doings
  <2>2. [proc[p] EXCEPT !.at = at] \in Doings
    BY <1>0 DEF Doings, Places
  <2>3. proc' \in [Process -> Doings]
    BY <2>1, <2>2 DEF TypeInv
  <2> QED BY <1>12, <2>3 DEF TellSite, SaveConfig, TypeInv
<1>13. CASE SaveHeld(p)
  <2>1. PICK at \in {"ask", "config", "hold", "end"}, got \in {"none", "used"} :
           proc' = [proc EXCEPT ![p] = [proc[p] EXCEPT !.at = at, !.got = got]]
    BY <1>0, <1>13 DEF SaveHeld, AfterSave, TypeInv, Doings
  <2>2. [proc[p] EXCEPT !.at = at, !.got = got] \in Doings
    BY <1>0 DEF Doings, Places
  <2>3. proc' \in [Process -> Doings] /\ file' \in Profiles \cup {NoProfile}
    BY <1>0, <1>13, <2>1, <2>2 DEF SaveHeld, TypeInv, Doings
  <2> QED BY <1>13, <2>3 DEF SaveHeld, Writing, TypeInv
<1> QED
  BY <1>1, <1>2, <1>3, <1>4, <1>5, <1>6, <1>7, <1>8, <1>9, <1>10, <1>11, <1>12, <1>13
  DEF Step

-----------------------------------------------------------------------------
(* A step changes one process, and never whose profile it is.                  *)
LEMMA OthersStay ==
    ASSUME TypeInv, NEW p \in Process, Step(p)
    PROVE  /\ provider' = provider
           /\ \A q \in Process \ {p} : proc'[q] = proc[q]
<1> USE DEF TypeInv, disk, history, Goes
<1>1. CASE Start(p)  BY <1>1 DEF Start
<1>2. CASE Finish(p) \/ Stop(p)  BY <1>2 DEF Finish, Stop, Done
<1>3. CASE Drop(p)  BY <1>3 DEF Drop
<1>4. CASE LoadListed(p)  BY <1>4 DEF LoadListed
<1>5. CASE SaveCleaned(p)  BY <1>5 DEF SaveCleaned
<1>6. CASE SaveListed(p)
  BY <1>6 DEF SaveListed, SaveLogin, SaveAdd, SaveDelete, SaveLookUp
<1>7. CASE \E c \in Channel : LookUp(p, c)  BY <1>7 DEF LookUp
<1>8. CASE LoadHeld(p)  BY <1>8 DEF LoadHeld
<1>9. CASE LogInHeld(p)  BY <1>9 DEF LogInHeld, Grant
<1>10. CASE Verify(p)  BY <1>10 DEF Verify
<1>11. CASE Expire(p)  BY <1>11 DEF Expire
<1>12. CASE TellSite(p) \/ SaveConfig(p)  BY <1>12 DEF TellSite, SaveConfig
<1>13. CASE SaveHeld(p)  BY <1>13 DEF SaveHeld
<1> QED
  BY <1>1, <1>2, <1>3, <1>4, <1>5, <1>6, <1>7, <1>8, <1>9, <1>10, <1>11, <1>12, <1>13
  DEF Step

(* Cleaning takes nothing away that was learned; a new profile has nothing.    *)
LEMMA CleanIsFine ==
    ASSUME TypeInv, file # NoProfile, Fine(file)
    PROVE  Clean(file) # NoProfile /\ Fine(Clean(file))
  BY CleanIsProfile DEF TypeInv, Fine

LEMMA EmptyIsFine ==
    ASSUME TypeInv, learned = {}
    PROVE  Fine(Profile(NoSession, base))
  BY NothingAssumption DEF TypeInv, Fine, Profile

(* Each edit keeps what the profile must hold, with the history it makes.      *)
LEMMA LoginIsFine ==
    ASSUME TypeInv, Numbered, NEW f \in Profiles, Fine(f),
           NEW p \in Process, SaveLogin(p), f = proc[p].copy, UNCHANGED dropped
    PROVE  file' \in Profiles /\ Fine(file)'
<1> DEFINE session == [no |-> granted + 1, from |-> base]
<1>1. session \in Sessions /\ session \notin dropped
  BY DEF TypeInv, Numbered, Sessions
<1>2. file' = [f EXCEPT !.session = session]
  BY DEF SaveLogin, Relogged
<1> HIDE DEF session
<1>3. /\ file' \in Profiles /\ file'.session = session
      /\ file'.list = f.list /\ file'.index = f.index /\ file'.gone = f.gone
  BY <1>1, <1>2 DEF Profiles
<1> QED BY <1>1, <1>3 DEF SaveLogin, Fine

LEMMA AddIsFine ==
    ASSUME TypeInv, NEW f \in Profiles, Fine(f),
           NEW p \in Process, SaveAdd(p), f = proc[p].copy, UNCHANGED dropped
    PROVE  file' \in Profiles /\ Fine(file)'
<1> DEFINE cs == proc[p].arg
<1>1. cs \subseteq Channel
  BY DEF TypeInv, Doings
<1>2. file' \in Profiles
  BY <1>1, EditsAreProfiles DEF SaveAdd
<1>3. /\ file'.list = f.list \cup cs /\ file'.session = f.session /\ file'.index = f.index
      /\ \A c \in Channel : file'.gone[c] = IF c \in cs THEN 0 ELSE f.gone[c]
  BY DEF SaveAdd, Added, Profiles
<1>4. /\ removed' = removed \ cs /\ learned' = learned
      /\ \A c \in Channel : absent'[c] = IF c \in cs THEN 0 ELSE absent[c]
  BY DEF SaveAdd
<1>5. f.list \subseteq Channel
  BY DEF Profiles
<1> HIDE DEF cs
<1> QED BY <1>1, <1>2, <1>3, <1>4, <1>5 DEF Fine

LEMMA DeleteIsFine ==
    ASSUME TypeInv, NEW f \in Profiles, Fine(f),
           NEW p \in Process, SaveDelete(p), f = proc[p].copy, UNCHANGED dropped
    PROVE  file' \in Profiles /\ Fine(file)'
<1> DEFINE cs == proc[p].arg
<1>1. cs \subseteq Channel
  BY DEF TypeInv, Doings
<1>2. file' \in Profiles
  BY <1>1, EditsAreProfiles DEF SaveDelete
<1>3. /\ file'.list = f.list \ cs /\ file'.session = f.session /\ file'.gone = f.gone
      /\ \A c \in Channel : file'.index[c] = IF c \in cs THEN "none" ELSE f.index[c]
  BY DEF SaveDelete, Deleted, Profiles
<1>4. removed' = removed \cup cs /\ learned' = learned \ cs /\ absent' = absent
  BY DEF SaveDelete
<1>5. f.list \subseteq Channel
  BY DEF Profiles
<1> HIDE DEF cs
<1> QED BY <1>1, <1>2, <1>3, <1>4, <1>5 DEF Fine

LEMMA LookUpIsFine ==
    ASSUME TypeInv, NEW f \in Profiles, Fine(f),
           NEW p \in Process, SaveLookUp(p), f = proc[p].copy, UNCHANGED dropped,
           proc[p].got \in {"none", "found", "missing", "other"}, proc[p].arg \subseteq f.list
    PROVE  file' \in Profiles /\ Fine(file)'
<1>1. PICK c \in proc[p].arg :
         /\ file' = Resolved(f, c, proc[p].got)
         /\ learned' = IF proc[p].got = "found" THEN learned \cup {c} ELSE learned
         /\ absent' = [absent EXCEPT ![c] = IF proc[p].got = "missing" THEN @ + 1 ELSE 0]
  BY DEF SaveLookUp
<1>2. c \in Channel /\ c \in f.list /\ removed' = removed /\ proc[p].got # "none"
      /\ f.gone \in [Channel -> Nat] /\ absent \in [Channel -> Nat] /\ f.list \subseteq Channel
  BY DEF SaveLookUp, Profiles, TypeInv
<1>3. file' \in Profiles
  BY <1>1, <1>2, LookUpIsProfile
<1>4. CASE proc[p].got = "found"
  <2>1. /\ file'.list = f.list /\ file'.session = f.session
        /\ file'.index = [f.index EXCEPT ![c] = "number"] /\ file'.gone = [f.gone EXCEPT ![c] = 0]
    BY <1>1, <1>4 DEF Resolved, Profiles
  <2>2. f.index \in [Channel -> {"none", "old", "number"}]
    BY DEF Profiles
  <2> QED BY <1>1, <1>2, <1>3, <1>4, <2>1, <2>2 DEF Fine
<1>5. CASE proc[p].got = "missing"
  <2>1. /\ file'.list = f.list /\ file'.session = f.session /\ file'.index = f.index
        /\ file'.gone = [f.gone EXCEPT ![c] = IF @ < 2 THEN @ + 1 ELSE @]
    BY <1>1, <1>5 DEF Resolved, Profiles
  <2> QED BY <1>1, <1>2, <1>3, <1>5, <2>1 DEF Fine
<1>6. CASE proc[p].got = "other"
  <2>1. /\ file'.list = f.list /\ file'.session = f.session /\ file'.index = f.index
        /\ file'.gone = [f.gone EXCEPT ![c] = 0]
    BY <1>1, <1>6 DEF Resolved, Profiles
  <2> QED BY <1>1, <1>2, <1>3, <1>6, <2>1 DEF Fine
<1> QED BY <1>2, <1>4, <1>5, <1>6

-----------------------------------------------------------------------------
(* Profiles with a list.  The others either are not about to write or the      *)
(* write of this one is a race.                                                *)
ListedFor(q) ==
    /\ proc[q].got \in {"none", "found", "missing", "other"}
    /\ proc[q].at \in Editing =>
          /\ proc[q].copy # NoProfile
          /\ proc[q].got # "none" => proc[q].arg \subseteq proc[q].copy.list
          /\ ~raced => Fine(proc[q].copy)

OnDisk == ~raced => IF file = NoProfile THEN learned = {} ELSE Fine(file)

LEMMA SaveLeaves ==
    ASSUME TypeInv, NEW p \in Process, SaveListed(p)
    PROVE  /\ proc'[p].copy = proc[p].copy /\ dropped' = dropped
           /\ proc'[p].at \notin Editing /\ proc'[p].got \in {"none", proc[p].got}
<1>0. proc[p] \in Doings /\ proc \in [Process -> Doings]
  BY DEF TypeInv
<1>1. dropped' = dropped
  BY DEF SaveListed
<1>2. CASE SaveLogin(p)  BY <1>0, <1>1, <1>2 DEF SaveLogin, Goes, Doings, Editing
<1>3. CASE SaveAdd(p)
  <2>1. PICK at \in {"load", "end"} :
            proc' = [proc EXCEPT ![p] = [proc[p] EXCEPT !.at = at, !.cmd = "repair"]]
    BY <1>0, <1>3 DEF SaveAdd
  <2> QED BY <1>0, <1>1, <2>1 DEF Doings, Editing
<1>4. CASE SaveDelete(p)  BY <1>0, <1>1, <1>4 DEF SaveDelete, Goes, Doings, Editing
<1>5. CASE SaveLookUp(p)  BY <1>0, <1>1, <1>5 DEF SaveLookUp, Doings, Editing
<1> QED BY <1>2, <1>3, <1>4, <1>5 DEF SaveListed

LEMMA ListInvSplit ==
    ListInv <=> (provider \in Listing => OnDisk /\ \A q \in Process : ListedFor(q))
  BY DEF ListInv, ListedFor, OnDisk

LEMMA OthersListed ==
    ASSUME TypeInv, NEW p \in Process, Step(p), NEW q \in Process \ {p}, ListedFor(q),
           (raced' = raced /\ UNCHANGED <<dropped, removed, learned, absent>>) \/ Writing(p)
    PROVE  ListedFor(q)'
<1>1. proc'[q] = proc[q]
  BY OthersStay
<1>2. CASE raced' = raced /\ UNCHANGED <<dropped, removed, learned, absent>>
  BY <1>1, <1>2 DEF ListedFor, Fine
<1>3. CASE Writing(p)
  BY <1>1, <1>3 DEF Writing, ListedFor, Editing
<1> QED BY <1>2, <1>3

LEMMA ListStep ==
    ASSUME TypeInv, Numbered, ListInv, NEW p \in Process, Step(p)
    PROVE  ListInv'
<1> SUFFICES ASSUME provider \in Listing
             PROVE  OnDisk' /\ ListedFor(p)' /\ \A q \in Process \ {p} : ListedFor(q)'
  BY ListInvSplit, OthersStay DEF ListInv, ListedFor, OnDisk
<1>0. /\ OnDisk /\ \A q \in Process : ListedFor(q)
      /\ proc[p] \in Doings /\ proc \in [Process -> Doings]
  BY ListInvSplit DEF TypeInv
<1>a. ASSUME \/ raced' = raced /\ UNCHANGED <<dropped, removed, learned, absent>>
             \/ Writing(p)
      PROVE  \A q \in Process \ {p} : ListedFor(q)'
  BY <1>0, <1>a, OthersListed
<1>b. ASSUME file' = file, UNCHANGED history  PROVE OnDisk'
  BY <1>0, <1>b DEF OnDisk, Fine, history
<1>1. CASE Start(p)
  <2>1. file' = file /\ UNCHANGED history
    BY <1>1 DEF Start, disk
  <2>2. proc'[p].got = "none" /\ proc'[p].at \notin Editing
    BY <1>0, <1>1 DEF Start, Idle, Editing
  <2> QED BY <1>a, <1>b, <2>1, <2>2 DEF ListedFor, history
<1>2. CASE Finish(p) \/ Stop(p)
  <2>1. file' = file /\ UNCHANGED history
    BY <1>2 DEF Finish, Stop, Done, disk
  <2>2. proc'[p].got = "none" /\ proc'[p].at \notin Editing
    BY <1>0, <1>2 DEF Finish, Stop, Done, Idle, Editing
  <2> QED BY <1>a, <1>b, <2>1, <2>2 DEF ListedFor, history
<1>3. CASE Drop(p)
  <2>1. file' = NoProfile /\ learned' = {} /\ Writing(p)
    BY <1>3 DEF Drop
  <2>2. proc'[p].got = proc[p].got /\ proc'[p].at = "end"
    BY <1>0, <1>3 DEF Drop, Goes, Doings
  <2> QED BY <1>0, <1>a, <2>1, <2>2 DEF ListedFor, OnDisk, Editing
<1>4. CASE LoadListed(p)
  <2>1. file' = file /\ UNCHANGED history
    BY <1>4 DEF LoadListed, disk
  <2> DEFINE f == Clean(file)
  <2>2. /\ f \in Profiles \cup {NoProfile} /\ (f = NoProfile <=> file = NoProfile)
        /\ OrNew(f) \in Profiles /\ (f # NoProfile => OrNew(f) = f)
    BY CleanIsProfile, OrNewIsProfile DEF TypeInv
  <2>3. ~raced => Fine(OrNew(f))
    <3>1. CASE file = NoProfile  BY <1>0, <2>2, <3>1, EmptyIsFine DEF OnDisk, OrNew
    <3>2. CASE file # NoProfile  BY <1>0, <2>2, <3>2, CleanIsFine DEF OnDisk
    <3> QED BY <3>1, <3>2
  <2> HIDE DEF f
  <2>4. proc'[p].got = "none"
    BY <1>0, <1>4 DEF LoadListed, Doings
  <2>5. proc'[p].at \in Editing => proc'[p].copy = OrNew(f)
    BY <1>0, <1>4, <2>2 DEF LoadListed, Doings, Editing, f
  <2>6. ListedFor(p)'
    <3>1. CASE proc'[p].at \notin Editing  BY <2>4, <3>1 DEF ListedFor
    <3>2. CASE proc'[p].copy = OrNew(f)
      <4>1. raced' = FALSE => Fine(proc[p].copy)'
        BY <2>1, <2>3, <3>2 DEF Fine, history, TypeInv
      <4> QED BY <2>2, <2>4, <3>2, <4>1, NothingAssumption DEF ListedFor, TypeInv
    <3> QED BY <2>5, <3>1, <3>2
  <2> QED BY <1>a, <1>b, <2>1, <2>6 DEF history
<1>5. CASE SaveCleaned(p)
  <2>1. /\ file' = proc[p].copy /\ Writing(p)
        /\ UNCHANGED <<dropped, removed, learned, absent>>
    BY <1>5 DEF SaveCleaned
  <2>2. /\ proc'[p].copy = proc[p].copy /\ proc'[p].got = proc[p].got
        /\ proc'[p].arg = proc[p].arg
    BY <1>0, <1>5 DEF SaveCleaned, Goes, Doings
  <2>3. proc[p].copy # NoProfile /\ (~raced => Fine(proc[p].copy))
        /\ (proc[p].got # "none" => proc[p].arg \subseteq proc[p].copy.list)
    BY <1>0, <1>5 DEF SaveCleaned, ListedFor, Editing
  <2>4. ~raced' => ~raced
    BY <2>1 DEF Writing
  <2>5. OnDisk' /\ ListedFor(p)'
    BY <1>0, <2>1, <2>2, <2>3, <2>4 DEF OnDisk, ListedFor, Fine
  <2> QED BY <1>a, <2>1, <2>5
<1>6. CASE SaveListed(p)
  <2>1. Writing(p) /\ UNCHANGED dropped /\ (~raced' => ~raced)
    BY <1>6 DEF SaveListed, Writing
  <2>2. /\ proc[p].copy \in Profiles
        /\ proc[p].got \in {"none", "found", "missing", "other"}
        /\ proc[p].got # "none" => proc[p].arg \subseteq proc[p].copy.list
        /\ ~raced => Fine(proc[p].copy)
    BY <1>0, <1>6 DEF SaveListed, ListedFor, Editing, Doings
  <2>3. ~raced => file' \in Profiles /\ Fine(file)'
    <3>1. CASE SaveLogin(p)  BY <2>1, <2>2, <3>1, LoginIsFine
    <3>2. CASE SaveAdd(p)  BY <2>1, <2>2, <3>2, AddIsFine
    <3>3. CASE SaveDelete(p)  BY <2>1, <2>2, <3>3, DeleteIsFine
    <3>4. CASE SaveLookUp(p)
      <4>1. proc[p].got # "none"  BY <3>4 DEF SaveLookUp
      <4> QED BY <2>1, <2>2, <3>4, <4>1, LookUpIsFine
    <3> QED BY <1>6, <3>1, <3>2, <3>3, <3>4 DEF SaveListed
  <2>4. OnDisk'
    BY <2>1, <2>3, NothingAssumption DEF OnDisk
  <2>5. proc'[p].at \notin Editing /\ proc'[p].got \in {"none", proc[p].got}
    BY <1>6, SaveLeaves
  <2> QED BY <1>a, <2>1, <2>2, <2>4, <2>5 DEF ListedFor
<1>7. CASE \E c \in Channel : LookUp(p, c)
  <2>1. PICK c \in Channel : LookUp(p, c)
    BY <1>7
  <2>2. file' = file /\ UNCHANGED history
    BY <2>1 DEF LookUp, disk
  <2>3. proc'[p].got \in {"found", "missing", "other"} /\ proc'[p].arg = {c}
    BY <1>0, <2>1 DEF LookUp, Doings
  <2>4. proc'[p].at \in Editing =>
           proc'[p].copy = Clean(file) /\ Clean(file) # NoProfile /\ c \in Clean(file).list
    BY <1>0, <2>1 DEF LookUp, Latest, Doings, Editing
  <2>5. ListedFor(p)'
    <3>1. CASE proc'[p].at \notin Editing  BY <2>3, <3>1 DEF ListedFor
    <3>2. CASE proc'[p].copy = Clean(file) /\ Clean(file) # NoProfile /\ c \in Clean(file).list
      <4>1. file # NoProfile
        BY <3>2, CleanIsProfile DEF TypeInv
      <4>2. ~raced => Fine(Clean(file))
        BY <1>0, <4>1, CleanIsFine DEF OnDisk
      <4>3. ~raced' => Fine(proc[p].copy)'
        BY <2>2, <3>2, <4>2 DEF Fine, history
      <4> QED BY <2>3, <3>2, <4>3 DEF ListedFor
    <3> QED BY <2>4, <3>1, <3>2
  <2> QED BY <1>a, <1>b, <2>2, <2>5 DEF history
<1>8. CASE SaveConfig(p)
  <2>1. file' = file /\ UNCHANGED history
    BY <1>8 DEF SaveConfig
  <2>2. proc'[p].got = proc[p].got /\ proc'[p].at \notin Editing
    BY <1>0, <1>8 DEF SaveConfig, Goes, Editing, Doings
  <2> QED BY <1>0, <1>a, <1>b, <2>1, <2>2 DEF ListedFor, history
<1>9. ~(LoadHeld(p) \/ LogInHeld(p) \/ Verify(p) \/ Expire(p) \/ TellSite(p) \/ SaveHeld(p))
  BY DEF LoadHeld, LogInHeld, Verify, Expire, TellSite, SaveHeld, Asks, Listing, Holding
<1> QED
  BY <1>1, <1>2, <1>3, <1>4, <1>5, <1>6, <1>7, <1>8, <1>9 DEF Step

-----------------------------------------------------------------------------
(* Sessions: what is on disk or in a process afterwards was there before, has  *)
(* no session, or the one that was granted by this step.                       *)
Known(f) == LoggedIn(f) => f.session.no <= granted'

LEMMA SessionsGrow ==
    ASSUME TypeInv, ListInv, Numbered, NEW p \in Process, Step(p)
    PROVE  /\ granted <= granted'
           /\ Known(file') /\ Known(proc'[p].copy)
           /\ \A session \in dropped' : session.no <= granted'
<1> USE DEF disk, history, Goes
<1>0. /\ proc[p] \in Doings /\ proc \in [Process -> Doings] /\ granted \in Nat
      /\ file \in Profiles \cup {NoProfile} /\ proc[p].copy \in Profiles \cup {NoProfile}
      /\ provider \in Listing \cup Holding
  BY DEF TypeInv, Doings
<1>1. granted <= granted' /\ granted' \in Nat
  <2>1. granted' \in {granted, granted + 1}
    BY DEF Step, Start, Finish, Stop, Done, Drop, LoadListed, SaveCleaned, SaveListed,
           SaveLogin, SaveAdd, SaveDelete, SaveLookUp, LookUp, LoadHeld, LogInHeld, Grant,
           Verify, Expire, TellSite, SaveHeld, SaveConfig
  <2> QED BY <1>0, <2>1
<1>2. Known(file) /\ Known(proc[p].copy) /\ \A session \in dropped : session.no <= granted'
  <2>1. LoggedIn(file) => file.session.no \in Nat
    BY <1>0 DEF LoggedIn, Profiles, Sessions
  <2>2. LoggedIn(proc[p].copy) => proc[p].copy.session.no \in Nat
    BY <1>0 DEF LoggedIn, Profiles, Sessions
  <2>3. \A session \in dropped : session.no \in Nat
    BY DEF TypeInv, Sessions
  <2> QED BY <1>0, <1>1, <2>1, <2>2, <2>3 DEF Known, Old, Numbered
<1>3. Known(NoProfile) /\ Known(Clean(file)) /\ Known(OrNew(Clean(file)))
  <2>1. Known(NoProfile)  BY DEF Known, LoggedIn
  <2>2. Known(Clean(file))
    BY <1>0, <1>2, CleanIsProfile DEF Known, LoggedIn
  <2>3. Known(OrNew(Clean(file)))
    BY <2>2 DEF OrNew, Known, LoggedIn, Profile
  <2> QED BY <2>1, <2>2, <2>3
<1>4. \A f \in Profiles : Expired(f).session = NoSession /\ Known(Expired(f))
  BY DEF Expired, Profiles, Known, LoggedIn
<1>5. CASE Start(p) \/ Finish(p) \/ Stop(p)
  <2>1. file' = file /\ dropped' = dropped
    BY <1>5 DEF Start, Finish, Stop, Done
  <2>2. CASE Start(p)
    <3>1. proc'[p].copy = NoProfile
      BY <1>0, <2>2 DEF Start, Idle
    <3> QED BY <1>1, <1>2, <1>3, <2>1, <3>1
  <2>3. CASE Finish(p) \/ Stop(p)
    <3>1. proc'[p].copy = NoProfile
      BY <1>0, <2>3 DEF Finish, Stop, Done, Idle
    <3> QED BY <1>1, <1>2, <1>3, <2>1, <3>1
  <2> QED BY <1>5, <2>2, <2>3
<1>6. CASE Drop(p)
  <2>1. file' = NoProfile /\ proc'[p].copy = proc[p].copy
    BY <1>0, <1>6 DEF Drop, Doings
  <2>2. \A session \in dropped' : session.no <= granted'
    BY <1>2, <1>6 DEF Drop, Known
  <2> QED BY <1>1, <1>2, <1>3, <2>1, <2>2
<1>7. CASE LoadListed(p)
  BY <1>0, <1>1, <1>2, <1>3, <1>7 DEF LoadListed, Doings
<1>8. CASE SaveCleaned(p)
  BY <1>0, <1>1, <1>2, <1>8 DEF SaveCleaned, Doings
<1>9. CASE SaveListed(p)
  <2>1. proc[p].copy \in Profiles /\ proc[p].arg \subseteq Channel
        /\ proc[p].got \in {"none", "found", "missing", "other"}
    BY <1>0, <1>9 DEF SaveListed, ListInv, Editing, Doings
  <2>2. proc'[p].copy = proc[p].copy /\ dropped' = dropped
    BY <1>9, SaveLeaves
  <2>3. file'.session = proc[p].copy.session \/ (granted' = granted + 1 /\ file'.session.no = granted')
    <3>1. CASE SaveLogin(p)
      BY <2>1, <3>1 DEF SaveLogin, Relogged, Profiles
    <3>2. CASE SaveAdd(p)
      BY <2>1, <3>2 DEF SaveAdd, Added, Profiles
    <3>3. CASE SaveDelete(p)
      BY <2>1, <3>3 DEF SaveDelete, Deleted, Profiles
    <3>4. CASE SaveLookUp(p)
      BY <2>1, <3>4 DEF SaveLookUp, Resolved, Profiles
    <3> QED BY <1>9, <3>1, <3>2, <3>3, <3>4 DEF SaveListed
  <2>4. Known(file')
    BY <1>1, <1>2, <2>1, <2>3, NothingAssumption DEF Known, LoggedIn
  <2> QED BY <1>1, <1>2, <2>2, <2>4
<1>10. CASE \E c \in Channel : LookUp(p, c)
  BY <1>0, <1>1, <1>2, <1>3, <1>10 DEF LookUp, Latest, Doings
<1>11. CASE LoadHeld(p)
  <2>1. file' = file /\ dropped' = dropped
    BY <1>11 DEF LoadHeld
  <2>2. proc'[p].copy = file \/ (file \in Profiles /\ proc'[p].copy = Expired(file))
    BY <1>0, <1>11 DEF LoadHeld, Doings
  <2> QED BY <1>1, <1>2, <1>4, <2>1, <2>2
<1>12. CASE LogInHeld(p)
  <2>1. /\ file' = file /\ dropped' = dropped
        /\ proc'[p].copy.session.no = granted'
    BY <1>0, <1>12 DEF LogInHeld, Grant, Profile, Doings
  <2> QED BY <1>1, <1>2, <2>1 DEF Known
<1>13. CASE Verify(p)
  <2>1. /\ file' = file /\ dropped' = dropped /\ proc[p].copy \in Profiles
        /\ proc'[p].copy \in {proc[p].copy, Expired(proc[p].copy)}
    BY <1>0, <1>13 DEF Verify, LoggedIn, Doings
  <2> QED BY <1>1, <1>2, <1>4, <2>1
<1>14. CASE Expire(p)
  <2>1. /\ file' = file /\ dropped' = dropped
        /\ proc'[p].copy = NoProfile \/ (proc[p].copy \in Profiles /\ proc'[p].copy = Expired(proc[p].copy))
    BY <1>0, <1>14 DEF Expire, Doings
  <2> QED BY <1>1, <1>2, <1>3, <1>4, <2>1
<1>15. CASE TellSite(p) \/ SaveConfig(p)
  BY <1>0, <1>1, <1>2, <1>15 DEF TellSite, SaveConfig, Doings
<1>16. CASE SaveHeld(p)
  BY <1>0, <1>1, <1>2, <1>16 DEF SaveHeld, Doings
<1> QED
  BY <1>5, <1>6, <1>7, <1>8, <1>9, <1>10, <1>11, <1>12, <1>13, <1>14, <1>15, <1>16 DEF Step

LEMMA NumberedStep ==
    ASSUME TypeInv, ListInv, Numbered, NEW p \in Process, Step(p)
    PROVE  Numbered'
<1>1. Old(file)' /\ Old(proc[p].copy)' /\ \A session \in dropped' : session.no <= granted'
  BY SessionsGrow DEF Known, Old, LoggedIn
<1>2. ASSUME NEW q \in Process \ {p} PROVE Old(proc[q].copy)'
  <2>1. proc'[q] = proc[q] /\ granted <= granted' /\ granted \in Nat
    BY SessionsGrow, OthersStay DEF TypeInv
  <2>2. LoggedIn(proc[q].copy) => proc[q].copy.session.no \in Nat
    BY DEF TypeInv, LoggedIn, Doings, Profiles, Sessions
  <2>3. granted' \in Nat
    BY TypeStep DEF TypeInv
  <2> QED BY <2>1, <2>2, <2>3 DEF Numbered, Old, LoggedIn
<1> QED BY <1>1, <1>2 DEF Numbered

-----------------------------------------------------------------------------
(* Woniu.                                                                      *)
SiteFor(q) ==
    /\ proc[q].at # "clean" /\ OfItsSite(proc[q].copy)
    /\ (proc[q].at = "ask" /\ LoggedIn(proc[q].copy)) => proc[q].copy.site = proc[q].site
    /\ (proc[q].at = "hold" /\ proc[q].got = "none") => ~LoggedIn(proc[q].copy)

LEMMA SiteStep ==
    ASSUME TypeInv, ListInv, SiteInv, NEW p \in Process, Step(p)
    PROVE  SiteInv'
<1> USE DEF disk, history, Goes
<1> SUFFICES ASSUME provider = "woniu"
             PROVE  OfItsSite(file)' /\ SiteFor(p)'
  <2>1. provider' = provider /\ \A q \in Process \ {p} : proc'[q] = proc[q]
    BY OthersStay
  <2> QED BY <2>1 DEF SiteInv, SiteFor, OfItsSite, LoggedIn
<1>0. /\ proc[p] \in Doings /\ proc \in [Process -> Doings]
      /\ file \in Profiles \cup {NoProfile} /\ proc[p].copy \in Profiles \cup {NoProfile}
      /\ OfItsSite(file) /\ SiteFor(p)
      /\ provider \in Holding /\ provider \notin Listing
  BY DEF TypeInv, SiteInv, SiteFor, Holding, Listing, Doings
<1>1. OfItsSite(NoProfile) /\ ~LoggedIn(NoProfile)
  BY DEF OfItsSite, LoggedIn
<1>2. \A f \in Profiles : OfItsSite(Expired(f)) /\ ~LoggedIn(Expired(f))
  BY DEF Expired, Profiles, OfItsSite, LoggedIn
<1>3. CASE Start(p) \/ Finish(p) \/ Stop(p)
  <2>1. file' = file
    BY <1>3 DEF Start, Finish, Stop, Done
  <2>2. proc'[p].copy = NoProfile /\ proc'[p].at \in {"idle", "drop", "load"}
    <3>1. CASE Start(p)  BY <1>0, <3>1 DEF Start, Idle
    <3>2. CASE Finish(p) \/ Stop(p)  BY <1>0, <3>2 DEF Finish, Stop, Done, Idle
    <3> QED BY <1>3, <3>1, <3>2
  <2> QED BY <1>0, <1>1, <2>1, <2>2 DEF SiteFor, OfItsSite, LoggedIn
<1>4. CASE Drop(p)
  <2>1. file' = NoProfile /\ proc'[p].copy = proc[p].copy /\ proc'[p].at = "end"
    BY <1>0, <1>4 DEF Drop, Doings
  <2> QED BY <1>0, <2>1 DEF SiteFor, OfItsSite, LoggedIn
<1>5. ~SaveCleaned(p)
  BY <1>0 DEF SaveCleaned, SiteFor
<1>6. CASE LoadHeld(p)
  <2>1. file' = file /\ proc'[p].site = proc[p].site
    BY <1>0, <1>6 DEF LoadHeld, Doings
  <2>2. CASE proc'[p].copy = file /\ proc'[p].at = "ask" /\ (LoggedIn(file) => file.site = proc[p].site)
    BY <1>0, <2>1, <2>2 DEF SiteFor, OfItsSite, LoggedIn
  <2>3. CASE file \in Profiles /\ proc'[p].copy = Expired(file) /\ proc'[p].at = "hold"
    BY <1>0, <1>2, <2>1, <2>3 DEF SiteFor, OfItsSite, LoggedIn
  <2>4. PICK old \in IF file # NoProfile THEN Outdated(p, file) ELSE {FALSE} :
            proc' = [proc EXCEPT ![p] =
                       [proc[p] EXCEPT !.copy = IF old THEN Expired(file) ELSE file,
                                       !.at = IF old THEN "hold" ELSE "ask"]]
    BY <1>0, <1>6 DEF LoadHeld
  <2>5. CASE old
    <3>1. file \in Profiles
      BY <1>0, <2>4, <2>5
    <3> QED BY <1>0, <2>3, <2>4, <2>5, <3>1 DEF Doings
  <2>6. CASE ~old
    <3>1. LoggedIn(file) => file.site = proc[p].site
      BY <2>4, <2>6 DEF Outdated, LoggedIn
    <3> QED BY <1>0, <2>2, <2>4, <2>6, <3>1 DEF Doings
  <2> QED BY <2>5, <2>6
<1>7. CASE LogInHeld(p)
  <2>1. /\ file' = file /\ proc'[p].at = "hold" /\ proc'[p].got = "answer"
        /\ proc'[p].copy.session.from = proc[p].site /\ proc'[p].copy.site = proc[p].site
    BY <1>0, <1>7 DEF LogInHeld, Grant, Profile, Doings
  <2> QED BY <1>0, <2>1 DEF SiteFor, OfItsSite, LoggedIn
<1>8. CASE Verify(p)
  <2>1. /\ file' = file /\ proc'[p].at = "hold" /\ proc'[p].got = "answer"
        /\ proc[p].copy \in Profiles
        /\ proc'[p].copy \in {proc[p].copy, Expired(proc[p].copy)}
    BY <1>0, <1>8 DEF Verify, LoggedIn, Doings
  <2> QED BY <1>0, <1>2, <2>1 DEF SiteFor, OfItsSite, LoggedIn
<1>9. CASE Expire(p)
  <2>1. /\ file' = file /\ proc'[p].at \in {"config", "hold"} /\ proc'[p].got = "answer"
        /\ \/ proc'[p].copy = NoProfile
           \/ proc[p].copy \in Profiles /\ proc'[p].copy = Expired(proc[p].copy)
    BY <1>0, <1>9 DEF Expire, Doings
  <2> QED BY <1>0, <1>1, <1>2, <2>1 DEF SiteFor, OfItsSite, LoggedIn
<1>10. CASE TellSite(p) \/ SaveConfig(p)
  <2>1. /\ file' = file /\ proc'[p].copy = proc[p].copy /\ proc'[p].at \in {"drop", "end"}
    BY <1>0, <1>10 DEF TellSite, SaveConfig, Doings
  <2> QED BY <1>0, <2>1 DEF SiteFor, OfItsSite, LoggedIn
<1>11. CASE SaveHeld(p)
  <2>1. /\ file' = proc[p].copy /\ proc'[p].copy = proc[p].copy
        /\ proc'[p].at = AfterSave(p) /\ (AfterSave(p) # "ask" => proc'[p].got = "used")
        /\ proc[p].at = "hold"
    BY <1>0, <1>11 DEF SaveHeld, Doings
  <2>2. /\ AfterSave(p) = "ask" => ~LoggedIn(proc[p].copy)
        /\ AfterSave(p) \in {"ask", "config", "hold", "end"}
    BY <1>0, <2>1 DEF AfterSave, SiteFor
  <2> QED BY <1>0, <2>1, <2>2 DEF SiteFor, OfItsSite, LoggedIn
<1>12. ~(LoadListed(p) \/ SaveListed(p) \/ \E c \in Channel : LookUp(p, c))
  BY <1>0 DEF LoadListed, SaveListed, LookUp
<1> QED
  BY <1>3, <1>4, <1>5, <1>6, <1>7, <1>8, <1>9, <1>10, <1>11, <1>12 DEF Step

-----------------------------------------------------------------------------
LEMMA ProfileInvInit == Init => ProfileInv
<1> SUFFICES ASSUME Init PROVE ProfileInv
  OBVIOUS
<1>1. TypeInv
  BY TypeInit
<1>2. \A p \in Process : proc[p].at = "idle" /\ proc[p].got = "none" /\ proc[p].copy = NoProfile
  BY DEF Init, Idle
<1>3. raced = FALSE /\ dropped = {} /\ removed = {} /\ learned = {}
      /\ absent = [c \in Channel |-> 0]
  BY DEF Init
<1>4. file = NoProfile \/
        (file \in Profiles /\ file.session = NoSession /\ file.gone = [c \in Channel |-> 0])
  BY <1>1 DEF Init, Profile, TypeInv
<1>5. Numbered
  BY <1>2, <1>3, <1>4 DEF Numbered, Old, LoggedIn
<1>6. ListInv
  <2>1. file # NoProfile => Fine(file)
    BY <1>3, <1>4 DEF Fine, Profiles
  <2> QED BY <1>2, <1>3, <2>1 DEF ListInv, Editing
<1>7. SiteInv
  BY <1>2, <1>4 DEF SiteInv, OfItsSite, LoggedIn
<1> QED BY <1>1, <1>5, <1>6, <1>7 DEF ProfileInv

LEMMA ProfileInvNext == ProfileInv /\ [Next]_vars => ProfileInv'
<1> SUFFICES ASSUME ProfileInv, [Next]_vars PROVE ProfileInv'
  OBVIOUS
<1>1. CASE UNCHANGED vars
  BY <1>1 DEF ProfileInv, TypeInv, Numbered, Old, LoggedIn, ListInv, Fine, SiteInv, OfItsSite,
              vars, disk, history
<1>2. ASSUME NEW p \in Process, Step(p) PROVE ProfileInv'
  BY <1>2, TypeStep, NumberedStep, ListStep, SiteStep DEF ProfileInv
<1> QED BY <1>1, <1>2 DEF Next, AllRest

THEOREM ProfileInvariant == Spec => []ProfileInv
<1> QED BY ProfileInvInit, ProfileInvNext, PTL DEF Spec

(* A channel that was deleted stays off the list, and a session that was       *)
(* logged out stays away, for any processes and channels: neither a lookup     *)
(* that was under way nor an edit brings them back (persist_resolution,        *)
(* load_clean), unless another process wrote in between.                       *)
THEOREM RemovedStaysRemovedCorrect == Spec => []RemovedStaysRemoved
<1>1. ProfileInv => RemovedStaysRemoved
  BY DEF ProfileInv, ListInv, Fine, RemovedStaysRemoved
<1> QED BY <1>1, ProfileInvariant, PTL

(* What a lookup has saved about a channel is not lost to its siblings, to     *)
(* another command or to a new login (load_clean, save_login).                 *)
THEOREM ResolutionsKeptCorrect == Spec => []ResolutionsKept
<1>1. ProfileInv => ResolutionsKept
  BY DEF ProfileInv, ListInv, Fine, ResolutionsKept, Listing
<1> QED BY <1>1, ProfileInvariant, PTL

(* A channel is set aside only after two absences in a row since it was added. *)
THEOREM IsolatedByTwoAbsencesCorrect == Spec => []IsolatedByTwoAbsences
<1>1. ProfileInv => IsolatedByTwoAbsences
  BY DEF ProfileInv, ListInv, Fine, IsolatedByTwoAbsences, Listing
<1> QED BY <1>1, ProfileInvariant, PTL

(* Woniu uses a session with the site it is of only, for any base urls.        *)
THEOREM SessionOfItsSiteCorrect == Spec => []SessionOfItsSite
<1>1. ProfileInv => SessionOfItsSite
  BY DEF ProfileInv, SiteInv, OfItsSite, SessionOfItsSite, Asks
<1> QED BY <1>1, ProfileInvariant, PTL
=============================================================================
