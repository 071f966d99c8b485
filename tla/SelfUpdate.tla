----------------------------- MODULE SelfUpdate -----------------------------
(* The replacement of the installed program (update/mod.rs, cli/upgrade.rs) by *)
(* updates that run at the same time, and the conversion of a data file        *)
(* (migration/mod.rs) whose format the new program has to accept.  Any step    *)
(* may fail, and a process may die between any two.  What a release contains   *)
(* and which formats its program accepts is external.                          *)
EXTENDS Integers, Sequences

CONSTANTS
    Updater,        \* processes that update the program
    Migrator,       \* processes that convert the data
    Release,        \* versions there is a release of
    First,          \* the version installed at the start
    Accepts,        \* version -> the data formats its program accepts
    Steps,          \* the registered conversions, <<from, to>>, in order
    Target,         \* formats a conversion may be asked for
    Missing, Torn   \* no program, and one that was copied in part

Version == Release \cup {First}
ASSUME UpdateAssumption ==
    /\ Version \subseteq Nat /\ Target \subseteq Nat
    /\ Steps \in Seq(Nat \X Nat)
    /\ Missing \notin Version \cup Migrator /\ Torn \notin Version

VARIABLES
    windows,        \* the replacement is made by a helper after the exit
    program,        \* what stands at the path of the program
    backups,        \* programs that were kept
    up,             \* the updates
    data,           \* the data file: its format and the conversions it went through
    archive,        \* data files that were kept
    lock,           \* who holds the lock file of the data, or Missing
    conv,           \* the conversions
    replaced        \* history: data files that were replaced

updateVars == <<windows, program, backups, up>>
dataVars == <<data, archive, lock, conv, replaced>>
vars == <<updateVars, dataVars>>

Init ==
    /\ windows \in BOOLEAN
    /\ program = First /\ backups = {}
    /\ up = [u \in Updater |-> [at |-> "new", own |-> First, target |-> First,
                 staged |-> Missing, copy |-> Missing, took |-> FALSE, put |-> FALSE,
                 told |-> "nothing"]]
    /\ data = [format |-> 1, went |-> <<>>] /\ archive = {} /\ lock = Missing
    /\ conv = [m \in Migrator |-> [at |-> "new", target |-> 1, old |-> data, new |-> data]]
    /\ replaced = {}

Goes(u, at) == up' = [up EXCEPT ![u].at = at]
Tells(u, told) == up' = [up EXCEPT ![u] = [@ EXCEPT !.at = "end", !.told = told]]

(* The release is newer, or the one that was asked for and another one.        *)
NeedsInstall(own, target, requested) == IF requested THEN target # own ELSE target > own

Start(u) ==
    /\ up[u].at = "new" /\ program \in Version
    /\ up' = [up EXCEPT ![u] = [@ EXCEPT !.own = program, !.at = "started"]]
    /\ UNCHANGED <<windows, program, backups, dataVars>>

Check(u) ==
    /\ up[u].at = "started"
    /\ \E target \in Release, requested \in BOOLEAN :
         LET needed == NeedsInstall(up[u].own, target, requested) IN
           up' = [up EXCEPT ![u] = [@ EXCEPT !.target = target,
                            !.at = IF needed THEN "download" ELSE "end",
                            !.told = IF needed THEN "nothing" ELSE "current"]]
    /\ UNCHANGED <<windows, program, backups, dataVars>>

(* An archive with the right checksum is unpacked beside the program; what is  *)
(* in it may be another version, or no program.                                *)
Download(u) ==
    /\ up[u].at = "download"
    /\ \E staged \in Release \cup {Torn} :
         up' = [up EXCEPT ![u] = [@ EXCEPT !.at = "staged", !.staged = staged]]
    /\ UNCHANGED <<windows, program, backups, dataVars>>

(* It runs, has the version it should have, and accepts the data.              *)
Verified(u) ==
    /\ up[u].staged = up[u].target
    /\ data.format \in Accepts[up[u].staged]

Verify(u) ==
    /\ up[u].at = "staged"
    /\ IF Verified(u) THEN Goes(u, "verified") ELSE Tells(u, "error")
    /\ UNCHANGED <<windows, program, backups, dataVars>>

(* On Windows the process ends, and its helper waits until no process runs the *)
(* program any more.                                                           *)
Schedule(u) ==
    /\ windows /\ up[u].at = "verified"
    /\ up' = [up EXCEPT ![u] = [@ EXCEPT !.at = "waiting", !.told = "scheduled"]]
    /\ UNCHANGED <<windows, program, backups, dataVars>>

RunsProgram(u) == up[u].at \in {"started", "download", "staged", "verified"}

Released(u) ==
    /\ up[u].at = "waiting" /\ program \in Version
    /\ \A v \in Updater : ~RunsProgram(v)
    /\ Goes(u, "alone")
    /\ UNCHANGED <<windows, program, backups, dataVars>>

(* replace_binary: the program is copied, the copy kept, and the new program   *)
(* moved to its place, which Windows wants to be free.                         *)
Copy(u) ==
    /\ up[u].at = IF windows THEN "alone" ELSE "verified"
    /\ program # Missing
    /\ up' = [up EXCEPT ![u] = [@ EXCEPT !.at = "copied", !.copy = program]]
    /\ UNCHANGED <<windows, program, backups, dataVars>>

Kept_Bug(u) == backups                  \* a temporary file that is never kept
Kept(u) == backups \cup {up[u].copy}

Keep(u) ==
    /\ up[u].at = "copied"
    /\ backups' = Kept(u)
    /\ Goes(u, "kept")
    /\ UNCHANGED <<windows, program, dataVars>>

TakeAway(u) ==
    /\ windows /\ up[u].at = "kept" /\ program # Missing
    /\ program' = Missing
    /\ up' = [up EXCEPT ![u] = [@ EXCEPT !.at = "free", !.took = TRUE]]
    /\ UNCHANGED <<windows, backups, dataVars>>

Rename(u) ==
    /\ up[u].at = IF windows THEN "free" ELSE "kept"
    /\ program' = up[u].staged
    /\ up' = [up EXCEPT ![u] = [@ EXCEPT !.at = "put", !.put = TRUE]]
    /\ UNCHANGED <<windows, backups, dataVars>>

(* Windows: the move fails, and the program is copied back from the backup.    *)
RenameFails(u) ==
    /\ windows /\ up[u].at = "free"
    /\ program' \in {Missing, Torn}
    /\ Goes(u, "restoring")
    /\ UNCHANGED <<windows, backups, dataVars>>

Restore(u) ==
    /\ up[u].at = "restoring"
    /\ program' = up[u].copy
    /\ Tells(u, "error")
    /\ UNCHANGED <<windows, backups, dataVars>>

(* The program that stands there now is asked whether all is well.             *)
Outcome_Bug(u) == IF program \in Version /\ data.format \in Accepts[program] THEN "installed" ELSE "error"
Outcome(u) == IF program \in Version /\ data.format \in Accepts[program] THEN "installed" ELSE "unmigrated"

FinishInstall(u) ==
    /\ up[u].at = "put"
    /\ Tells(u, Outcome(u)) \/ Tells(u, "unmigrated")
    /\ UNCHANGED <<windows, program, backups, dataVars>>

Fails(u) ==
    /\ up[u].at \in {"started", "download", "staged", "verified", "waiting", "alone",
                     "copied", "kept", "restoring"}
    /\ Tells(u, "error")
    /\ UNCHANGED <<windows, program, backups, dataVars>>

Dies(u) ==
    /\ up[u].at \notin {"new", "end", "dead"}
    /\ Goes(u, "dead")
    /\ UNCHANGED <<windows, program, backups, dataVars>>

-----------------------------------------------------------------------------
(* migrate_file holds the lock file from before it reads to its return.        *)
LockFree_Bug == TRUE
LockFree == lock = Missing

Begin(m) ==
    /\ conv[m].at = "new" /\ LockFree
    /\ lock' = m
    /\ \E target \in Target : conv' = [conv EXCEPT ![m] = [@ EXCEPT !.at = "read", !.target = target]]
    /\ UNCHANGED <<updateVars, data, archive, replaced>>

ReadData(m) ==
    /\ conv[m].at = "read"
    /\ conv' = [conv EXCEPT ![m] = [@ EXCEPT !.at = "convert", !.old = data, !.new = data]]
    /\ UNCHANGED <<updateVars, data, archive, lock, replaced>>

(* The first registered step that leads on from this format, in memory.        *)
LeadsOn(m, k) ==
    /\ Steps[k][1] = conv[m].new.format /\ Steps[k][2] > conv[m].new.format
    /\ Steps[k][2] <= conv[m].target

Transform(m) ==
    /\ conv[m].at = "convert" /\ conv[m].new.format < conv[m].target
    /\ \E k \in DOMAIN Steps :
         /\ LeadsOn(m, k) /\ \A j \in 1..(k - 1) : ~LeadsOn(m, j)
         /\ conv' = [conv EXCEPT ![m].new =
               [format |-> Steps[k][2], went |-> Append(@.went, Steps[k])]]
    /\ UNCHANGED <<updateVars, data, archive, lock, replaced>>

KeepOriginal(m) ==
    /\ conv[m].at = "convert" /\ conv[m].new.format = conv[m].target
    /\ conv[m].old # conv[m].new
    /\ archive' = archive \cup {conv[m].old}
    /\ conv' = [conv EXCEPT ![m].at = "kept"]
    /\ UNCHANGED <<updateVars, data, lock, replaced>>

Ends(m, at) ==
    /\ conv' = [conv EXCEPT ![m].at = at]
    /\ lock' = Missing

Persist(m) ==
    /\ conv[m].at = "kept"
    /\ data' = conv[m].new
    /\ replaced' = replaced \cup {data}
    /\ Ends(m, "end")
    /\ UNCHANGED <<updateVars, archive>>

(* A newer or the same format, no step that leads on, a transform or a write   *)
(* that fails, and the death of the process: the data is left as it is.        *)
GivesUp(m) ==
    /\ conv[m].at \in {"read", "convert", "kept"}
    /\ Ends(m, "end")
    /\ UNCHANGED <<updateVars, data, archive, replaced>>

-----------------------------------------------------------------------------
Update(u) ==
    \/ Start(u) \/ Check(u) \/ Download(u) \/ Verify(u) \/ Schedule(u) \/ Released(u)
    \/ Copy(u) \/ Keep(u) \/ TakeAway(u) \/ Rename(u) \/ RenameFails(u) \/ Restore(u)
    \/ FinishInstall(u) \/ Fails(u) \/ Dies(u)

Migrate(m) ==
    \/ Begin(m) \/ ReadData(m) \/ Transform(m) \/ KeepOriginal(m) \/ Persist(m) \/ GivesUp(m)

Next == (\E u \in Updater : Update(u)) \/ (\E m \in Migrator : Migrate(m))
Spec == Init /\ [][Next]_vars

-----------------------------------------------------------------------------
(* Wherever an update fails or dies there is a program that runs: at its path, *)
(* or in the backup of the update that took it away (usage.md:150).            *)
ProgramRecoverable ==
    program \notin Version =>
        \E u \in Updater : up[u].took /\ up[u].copy \in backups \cap Version

(* An update reports an installation, with or without the data in order, when  *)
(* and only when it replaced the program: no error hides a new program, and no *)
(* success an old one (CHANNEL_STREAM_UPDATE_SPEC.md:257).                     *)
ToldTruthfully ==
    \A u \in Updater : up[u].at = "end" =>
        (up[u].put <=> up[u].told \in {"installed", "unmigrated"})

(* Conversions under way at once, and cut off anywhere, are each applied once  *)
(* and in order, and a data file that was replaced has been kept.              *)
ConvertedOnce ==
    LET went == data.went IN
    /\ replaced \subseteq archive
    /\ \A k \in DOMAIN went : went[k][1] = IF k = 1 THEN 1 ELSE went[k - 1][2]
    /\ data.format = IF went = <<>> THEN 1 ELSE went[Len(went)][2]
    /\ \A old \in replaced : old.format < data.format
=============================================================================
