---------------------------- MODULE ChannelStore ----------------------------
(* ChannelStore::modify (channel/mod.rs): processes that edit channels.toml    *)
(* under an advisory lock on a file beside it.  Each makes one call: lock,     *)
(* load, edit, write a temporary file, sync it, rename it over the list.  Any  *)
(* step may fail, a process may die at any step, and the power may fail.       *)
EXTENDS ChannelList

CONSTANTS
    Process,
    PowerCuts       \* bound on the power failures

ASSUME StoreAssumption == PowerCuts \in Nat

VARIABLES
    file,           \* channels.toml as processes see it
    fileSynced,     \* whether the contents of file are known to be on the disk
    disk,           \* channels.toml as a power failure would leave it
    lock,           \* holders of the lock: at most one
    call,           \* the operation each process calls
    pc,             \* where it is in modify
    draft,          \* the list it has loaded and edited
    cuts            \* power failures so far

diskVars == <<file, fileSynced, disk>>
storeVars == <<diskVars, lock, call, pc, draft, cuts>>

Returned == {"ok", "refused", "failed"}
Working == {"locked", "edited", "written", "synced", "renamed"}    \* holding the lock
Labels == {"idle", "waiting", "dead"} \cup Working \cup Returned

StoreInit ==
    /\ file \in File /\ fileSynced = TRUE /\ disk = file
    /\ lock = {}
    /\ call \in [Process -> Operation]
    /\ pc = [p \in Process |-> "idle"]
    /\ draft = [p \in Process |-> Load(Absent)]
    /\ cuts = 0

Goto(p, label) == pc' = [pc EXCEPT ![p] = label]

(* The return of modify drops the lock file, and with it the lock.            *)
Released_Bug(p) == IF pc[p] = "locked" THEN lock ELSE lock \ {p}    \* not by an early one
Released(p) == lock \ {p}
Return(p, label) == Goto(p, label) /\ lock' = Released(p)

(* The parent directory and the lock file are created and opened.             *)
Call(p) ==
    /\ pc[p] = "idle"
    /\ Goto(p, "waiting")
    /\ UNCHANGED <<diskVars, lock, call, draft, cuts>>

LockFree_Bug == TRUE            \* no lock
LockFree == lock = {}

Lock(p) ==
    /\ pc[p] = "waiting"
    /\ LockFree
    /\ lock' = lock \cup {p}
    /\ Goto(p, "locked")
    /\ UNCHANGED <<diskVars, call, draft, cuts>>

(* load and the operation.  Without a change nothing is written.              *)
Readable == file # Unreadable

LoadAndEdit(p) ==
    /\ pc[p] = "locked"
    /\ Readable
    /\ IF Refused(Load(file), call[p]) THEN Return(p, "refused") /\ UNCHANGED draft
       ELSE IF Edited(Load(file), call[p]) = Load(file) THEN Return(p, "ok") /\ UNCHANGED draft
       ELSE /\ draft' = [draft EXCEPT ![p] = Edited(Load(file), call[p])]
            /\ Goto(p, "edited")
            /\ UNCHANGED lock
    /\ UNCHANGED <<diskVars, call, cuts>>

LoadFails(p) ==
    /\ pc[p] = "locked"
    /\ ~Readable
    /\ Return(p, "failed")
    /\ UNCHANGED <<diskVars, call, draft, cuts>>

WriteTemporary(p) ==
    /\ pc[p] = "edited"
    /\ Goto(p, "written")
    /\ UNCHANGED <<diskVars, lock, call, draft, cuts>>

SyncTemporary(p) ==
    /\ pc[p] = "written"
    /\ Goto(p, "synced")
    /\ UNCHANGED <<diskVars, lock, call, draft, cuts>>

(* The rename makes the new list visible at once.                             *)
MayPersist_Bug(p) == pc[p] \in {"written", "synced"}    \* the sync is left out
MayPersist(p) == pc[p] = "synced"

Persist(p) ==
    /\ MayPersist(p)
    /\ file' = Store(draft[p])
    /\ fileSynced' = (pc[p] = "synced")
    /\ Goto(p, "renamed")
    /\ UNCHANGED <<disk, lock, call, draft, cuts>>

Acknowledge(p) ==
    /\ pc[p] = "renamed"
    /\ Return(p, "ok")
    /\ UNCHANGED <<diskVars, call, draft, cuts>>

(* The directory, the lock, the load or a step of the write fails; before the *)
(* rename the list itself is untouched.                                       *)
IoFails(p) ==
    /\ pc[p] \in {"waiting", "locked", "edited", "written", "synced"}
    /\ Return(p, "failed")
    /\ UNCHANGED <<diskVars, call, draft, cuts>>

Die(p) ==
    /\ pc[p] # "dead"
    /\ Return(p, "dead")
    /\ UNCHANGED <<diskVars, call, draft, cuts>>

(* The file system writes the directory back when it likes: modify does not   *)
(* sync it.  A name may get there before contents nobody synced.  It matters  *)
(* only to a later power failure.                                             *)
WriteBack ==
    /\ cuts < PowerCuts
    /\ disk' = IF fileSynced THEN file ELSE Unreadable
    /\ disk' # disk
    /\ UNCHANGED <<file, fileSynced, lock, call, pc, draft, cuts>>

PowerFails ==
    /\ cuts < PowerCuts
    /\ cuts' = cuts + 1
    /\ file' = disk /\ fileSynced' = TRUE
    /\ lock' = {}
    /\ pc' = [p \in Process |-> "dead"]
    /\ UNCHANGED <<disk, call, draft>>

StoreDone ==
    /\ \A p \in Process : pc[p] \in Returned \cup {"dead"}
    /\ UNCHANGED storeVars

StepOf(p) ==
    \/ Call(p) \/ Lock(p) \/ LoadAndEdit(p) \/ LoadFails(p)
    \/ WriteTemporary(p) \/ SyncTemporary(p) \/ Persist(p) \/ Acknowledge(p)

StoreNext ==
    \/ \E p \in Process : StepOf(p) \/ IoFails(p) \/ Die(p)
    \/ WriteBack \/ PowerFails \/ StoreDone

StoreSpec == StoreInit /\ [][StoreNext]_storeVars

(* Every process that is alive goes on; the lock is granted when it is free.  *)
StoreFairSpec == StoreSpec /\ \A p \in Process : WF_storeVars(StepOf(p))

-----------------------------------------------------------------------------
StoreTypeOK ==
    /\ file \in File /\ disk \in File /\ fileSynced \in BOOLEAN
    /\ lock \subseteq Process /\ \A p, q \in lock : p = q
    /\ call \in [Process -> Operation]
    /\ pc \in [Process -> Labels]
    /\ draft \in [Process -> List]
    /\ cuts \in 0 .. PowerCuts

(* What a process is about to rename over the list is its edit of the list as *)
(* it is now, not of a list another process has replaced since it was loaded. *)
DraftIsCurrent ==
    \A p \in Process :
        pc[p] \in {"edited", "written", "synced"} =>
            /\ file # Unreadable
            /\ draft[p] = Edited(Load(file), call[p])
            /\ ~Refused(Load(file), call[p])

(* Every edit is linearizable: no update of two concurrent processes is lost, *)
(* a refused, failed or unstarted call changes nothing.  Without power cuts.  *)
Register == INSTANCE ChannelRegister WITH
    list <- IF file = Unreadable THEN [known |-> {}, on |-> {}, broken |-> TRUE] ELSE Load(file),
    call <- call,
    status <- [p \in Process |->
        CASE pc[p] \in Returned \cup {"idle", "dead"} -> pc[p]
          [] pc[p] = "renamed" -> "ok"
          [] OTHER -> "called"]
ImplementsRegister == Register!RegisterSpec

(* A list over the limit (edited by hand) can be repaired, but no call makes  *)
(* more channels enabled than the limit allows.                               *)
EnabledIn(f) == IF f = Unreadable THEN {} ELSE Load(f).on
OverLimitOnlyShrinks ==
    [][Cardinality(EnabledIn(file')) > Limit =>
          Cardinality(EnabledIn(file')) <= Cardinality(EnabledIn(file))]_file

(* A file this version cannot read is never replaced, and no call, crash or   *)
(* power failure leaves a torn file behind.                                   *)
NeverTorn == [][(file' = Unreadable) <=> (file = Unreadable)]_file

(* Every call returns unless its process dies, whoever holds the lock.        *)
CallsReturn == \A p \in Process : pc[p] = "waiting" ~> pc[p] \in Returned \cup {"dead"}
=============================================================================
