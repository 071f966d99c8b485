------------------------- MODULE ChannelStoreProofs -------------------------
(* Proofs about ChannelStore for any set of processes, names and any limit.   *)
EXTENDS ChannelStore, FiniteSetTheorems, TLAPS

USE ListAssumption, StoreAssumption

(* A list that was stored is loaded as it was.                                *)
LEMMA StoreLoad ==
    ASSUME NEW l \in List
    PROVE  Load(Store(l)) = l /\ Store(l) \in File /\ Store(l) # Unreadable
<1> DEFINE rs == (l.on \X {TRUE}) \cup ((l.known \ l.on) \X {FALSE})
<1>0. l.on \subseteq l.known /\ l.known \subseteq Name  BY DEF List
<1>1. Store(l).rows = rs  BY DEF Store, Rows
<1>2. {r[1] : r \in Store(l).rows} = l.known
  <2>1. ASSUME NEW n \in l.known PROVE \E r \in rs : n = r[1]
    <3>1. CASE n \in l.on
      <4>1. <<n, TRUE>> \in rs /\ <<n, TRUE>>[1] = n  BY <3>1
      <4>2. QED  BY <4>1
    <3>2. CASE n \notin l.on
      <4>1. <<n, FALSE>> \in rs /\ <<n, FALSE>>[1] = n  BY <3>2
      <4>2. QED  BY <4>1
    <3>3. QED  BY <3>1, <3>2
  <2>2. \A r \in rs : r[1] \in l.known  BY <1>0
  <2> HIDE DEF rs
  <2>3. QED  BY <1>1, <2>1, <2>2
<1>3. {r[1] : r \in {s \in Store(l).rows : s[2]}} = l.on
  <2>1. ASSUME NEW n \in l.on PROVE \E r \in {s \in rs : s[2]} : n = r[1]
    <3>1. <<n, TRUE>> \in rs /\ <<n, TRUE>>[1] = n /\ <<n, TRUE>>[2]  OBVIOUS
    <3>2. QED  BY <3>1
  <2>2. \A r \in {s \in rs : s[2]} : r[1] \in l.on  OBVIOUS
  <2> HIDE DEF rs
  <2>3. QED  BY <1>1, <2>1, <2>2
<1>4. Store(l).kind = "rows"  BY DEF Store, Rows
<1>5. Load(Store(l)) = l  BY <1>2, <1>3, <1>4 DEF Load, List
<1>6. Store(l).rows \in SUBSET (Name \X BOOLEAN)  BY <1>0, <1>1
<1>7. Store(l) \in File  BY <1>6 DEF Store, Rows, File
<1>8. Store(l) # Unreadable  BY <1>4 DEF Unreadable
<1>9. QED  BY <1>5, <1>7, <1>8

(* Whatever can be read is a list, and so is every edit of it.                *)
LEMMA LoadIsList ==
    ASSUME NEW f \in File
    PROVE  Load(f) \in List
<1>1. CASE f = Absent  BY <1>1 DEF Load, Absent, List
<1>2. CASE f = Unreadable  BY <1>2 DEF Load, Unreadable, List
<1>3. ASSUME NEW rs \in SUBSET (Name \X BOOLEAN), f = Rows(rs)
      PROVE  Load(f) \in List
  <2>1. f.kind = "rows" /\ f.rows = rs  BY <1>3 DEF Rows
  <2>2. Load(f) = [known |-> {r[1] : r \in rs}, on |-> {r[1] : r \in {s \in rs : s[2]}}]
    BY <2>1 DEF Load
  <2>3. {r[1] : r \in rs} \subseteq Name /\ {r[1] : r \in {s \in rs : s[2]}} \subseteq {r[1] : r \in rs}
    OBVIOUS
  <2>4. QED  BY <2>2, <2>3 DEF List
<1>4. QED  BY <1>1, <1>2, <1>3 DEF File

LEMMA EditIsList ==
    ASSUME NEW l \in List, NEW op \in Operation, Found(l, op)
    PROVE  Edited(l, op) \in List
<1>1. op.names \subseteq Name  BY DEF Operation
<1>2. op.kind \in Kinds  BY DEF Operation, Kinds
<1>3. QED  BY <1>1, <1>2 DEF Edited, List, Found, Kinds

-----------------------------------------------------------------------------
(* Processes that hold the lock are exactly those inside modify.              *)
LockHeld == \A p \in Process : pc[p] \in Working <=> p \in lock

(* Contents are synced before they are visible, so a power failure cannot     *)
(* change whether the file can be read.                                       *)
Durable == fileSynced /\ ((disk = Unreadable) <=> (file = Unreadable))

StoreInv == StoreTypeOK /\ LockHeld /\ DraftIsCurrent /\ Durable

LEMMA StoreInvInit == StoreInit => StoreInv
<1> SUFFICES ASSUME StoreInit PROVE StoreInv  OBVIOUS
<1>1. Absent \in File  BY DEF File
<1>2. Load(Absent) \in List  BY <1>1, LoadIsList
<1>3. StoreTypeOK  BY <1>2 DEF StoreInit, StoreTypeOK, Labels
<1>4. LockHeld  BY DEF StoreInit, LockHeld, Working
<1>5. DraftIsCurrent  BY DEF StoreInit, DraftIsCurrent
<1>6. Durable  BY DEF StoreInit, Durable
<1>7. QED  BY <1>3, <1>4, <1>5, <1>6 DEF StoreInv

(* A step of p that keeps the file and moves p within the lock, to or from    *)
(* it keeps the drafts of the other processes current.                        *)
LEMMA StoreInvNext == StoreInv /\ [StoreNext]_storeVars => StoreInv'
<1> SUFFICES ASSUME StoreInv, [StoreNext]_storeVars PROVE StoreInv'  OBVIOUS
<1> USE DEF StoreInv
<1>1. ASSUME NEW p \in Process, Call(p) PROVE StoreInv'
  BY <1>1 DEF Call, Goto, StoreTypeOK, LockHeld, DraftIsCurrent, Durable, diskVars, Labels, Working
<1>2. ASSUME NEW p \in Process, Lock(p) PROVE StoreInv'
  BY <1>2 DEF Lock, LockFree, Goto, StoreTypeOK, LockHeld, DraftIsCurrent, Durable, diskVars, Labels, Working
<1>3. ASSUME NEW p \in Process, LoadAndEdit(p) PROVE StoreInv'
  <2>1. CASE lock' = Released(p) /\ UNCHANGED draft /\ (Goto(p, "ok") \/ Goto(p, "refused"))
    BY <1>3, <2>1 DEF LoadAndEdit, Goto, Released, StoreTypeOK, LockHeld, DraftIsCurrent,
                      Durable, diskVars, Labels, Working, Returned
  <2>2. ASSUME ~Refused(Load(file), call[p]), Goto(p, "edited"), UNCHANGED lock,
               draft' = [draft EXCEPT ![p] = Edited(Load(file), call[p])]
        PROVE  StoreInv'
    <3>1. UNCHANGED <<file, fileSynced, disk, call, cuts>>  BY <1>3 DEF LoadAndEdit, diskVars
    <3>2. Edited(Load(file), call[p]) \in List
      BY <2>2, LoadIsList, EditIsList DEF Refused, StoreTypeOK
    <3>3. StoreTypeOK'  BY <2>2, <3>1, <3>2 DEF StoreTypeOK, Goto, Labels, Working
    <3>4. LockHeld'  BY <1>3, <2>2 DEF LoadAndEdit, LockHeld, Goto, StoreTypeOK, Working
    <3>5. DraftIsCurrent'
      BY <1>3, <2>2, <3>1 DEF LoadAndEdit, Readable, DraftIsCurrent, Goto, StoreTypeOK
    <3>6. QED  BY <3>1, <3>3, <3>4, <3>5 DEF Durable
  <2>3. QED  BY <1>3, <2>1, <2>2 DEF LoadAndEdit, Return
<1>4. ASSUME NEW p \in Process, LoadFails(p) PROVE StoreInv'
  BY <1>4 DEF LoadFails, Return, Released, Goto, StoreTypeOK, LockHeld, DraftIsCurrent,
              Durable, diskVars, Labels, Working, Returned
<1>5. ASSUME NEW p \in Process, WriteTemporary(p) PROVE StoreInv'
  BY <1>5 DEF WriteTemporary, Goto, StoreTypeOK, LockHeld, DraftIsCurrent, Durable, diskVars, Labels, Working
<1>6. ASSUME NEW p \in Process, SyncTemporary(p) PROVE StoreInv'
  BY <1>6 DEF SyncTemporary, Goto, StoreTypeOK, LockHeld, DraftIsCurrent, Durable, diskVars, Labels, Working
<1>7. ASSUME NEW p \in Process, Persist(p) PROVE StoreInv'
  <2>1. p \in lock /\ \A q \in Process : q # p => pc[q] \notin Working
    BY <1>7 DEF Persist, MayPersist, LockHeld, StoreTypeOK, Working
  <2>2. draft[p] \in List  BY DEF StoreTypeOK
  <2>3. Store(draft[p]) \in File /\ Store(draft[p]) # Unreadable  BY <2>2, StoreLoad
  <2>4. StoreTypeOK'  BY <1>7, <2>3 DEF Persist, MayPersist, Goto, StoreTypeOK, Labels, Working
  <2>5. LockHeld'  BY <1>7 DEF Persist, MayPersist, Goto, LockHeld, StoreTypeOK, Working
  <2>6. DraftIsCurrent'
    BY <1>7, <2>1 DEF Persist, Goto, DraftIsCurrent, StoreTypeOK, Working
  <2>7. file # Unreadable  BY <1>7 DEF Persist, MayPersist, DraftIsCurrent
  <2>8. Durable'  BY <1>7, <2>3, <2>7 DEF Persist, MayPersist, Durable
  <2>9. QED  BY <2>4, <2>5, <2>6, <2>8
<1>8. ASSUME NEW p \in Process, Acknowledge(p) PROVE StoreInv'
  BY <1>8 DEF Acknowledge, Return, Released, Goto, StoreTypeOK, LockHeld, DraftIsCurrent,
              Durable, diskVars, Labels, Working, Returned
<1>9. ASSUME NEW p \in Process, IoFails(p) PROVE StoreInv'
  BY <1>9 DEF IoFails, Return, Released, Goto, StoreTypeOK, LockHeld, DraftIsCurrent,
              Durable, diskVars, Labels, Working, Returned
<1>10. ASSUME NEW p \in Process, Die(p) PROVE StoreInv'
  BY <1>10 DEF Die, Return, Released, Goto, StoreTypeOK, LockHeld, DraftIsCurrent,
              Durable, diskVars, Labels, Working, Returned
<1>11. CASE WriteBack
  BY <1>11 DEF WriteBack, StoreTypeOK, LockHeld, DraftIsCurrent, Durable
<1>12. CASE PowerFails
  BY <1>12 DEF PowerFails, StoreTypeOK, LockHeld, DraftIsCurrent, Durable, Labels, Working
<1>13. CASE UNCHANGED storeVars
  BY <1>13 DEF storeVars, diskVars, StoreTypeOK, LockHeld, DraftIsCurrent, Durable
<1>14. CASE StoreDone  BY <1>13, <1>14 DEF StoreDone
<1>15. QED
  BY <1>1, <1>2, <1>3, <1>4, <1>5, <1>6, <1>7, <1>8, <1>9, <1>10, <1>11, <1>12, <1>13, <1>14
     DEF StoreNext, StepOf

LEMMA StoreInvariant == StoreSpec => []StoreInv
<1>1. QED  BY StoreInvInit, StoreInvNext, PTL DEF StoreSpec

-----------------------------------------------------------------------------
(* Every variable keeps its type and the lock has one holder at most.         *)
THEOREM StoreTypeCorrect == StoreSpec => []StoreTypeOK
<1>1. StoreInv => StoreTypeOK  BY DEF StoreInv
<1>2. QED  BY <1>1, StoreInvariant, PTL

(* No process ever renames an edit of an outdated list over the list.         *)
THEOREM DraftCorrect == StoreSpec => []DraftIsCurrent
<1>1. StoreInv => DraftIsCurrent  BY DEF StoreInv
<1>2. QED  BY <1>1, StoreInvariant, PTL

-----------------------------------------------------------------------------
(* Only a rename and a power failure change the file that processes see.      *)
LEMMA FileSteps ==
    ASSUME [StoreNext]_storeVars
    PROVE  (\E p \in Process : Persist(p)) \/ PowerFails \/ UNCHANGED file
BY DEF StoreNext, StepOf, Call, Lock, LoadAndEdit, LoadFails, WriteTemporary, SyncTemporary,
       Acknowledge, IoFails, Die, WriteBack, StoreDone, storeVars, diskVars

(* No step leaves a torn file or replaces one that cannot be read.            *)
THEOREM NeverTornCorrect == StoreSpec => NeverTorn
<1>1. StoreInv /\ [StoreNext]_storeVars => [(file' = Unreadable) <=> (file = Unreadable)]_file
  <2> SUFFICES ASSUME StoreInv, [StoreNext]_storeVars
               PROVE  ((file' = Unreadable) <=> (file = Unreadable)) \/ UNCHANGED file
    OBVIOUS
  <2>1. ASSUME NEW p \in Process, Persist(p) PROVE file' # Unreadable /\ file # Unreadable
    <3>1. draft[p] \in List  BY DEF StoreInv, StoreTypeOK
    <3>2. file # Unreadable  BY <2>1 DEF Persist, MayPersist, StoreInv, DraftIsCurrent
    <3>3. QED  BY <2>1, <3>1, <3>2, StoreLoad DEF Persist
  <2>2. CASE PowerFails  BY <2>2 DEF PowerFails, StoreInv, Durable
  <2>3. QED  BY <2>1, <2>2, FileSteps
<1>2. QED  BY <1>1, StoreInvariant, PTL DEF StoreSpec, NeverTorn

(* Without a power failure, which may bring an older list back, no call       *)
(* enables more channels than the limit allows.                               *)
THEOREM OverLimitCorrect ==
    ASSUME PowerCuts = 0
    PROVE  StoreSpec => OverLimitOnlyShrinks
<1> DEFINE Shrinks == Cardinality(EnabledIn(file')) > Limit =>
                         Cardinality(EnabledIn(file')) <= Cardinality(EnabledIn(file))
<1>1. StoreInv /\ [StoreNext]_storeVars => [Shrinks]_file
  <2> SUFFICES ASSUME StoreInv, [StoreNext]_storeVars, file' # file PROVE Shrinks  OBVIOUS
  <2>1. ~PowerFails  BY DEF PowerFails, StoreInv, StoreTypeOK
  <2>2. PICK p \in Process : Persist(p)  BY <2>1, FileSteps
  <2> DEFINE old == Load(file)
  <2>3. /\ draft[p] = Edited(old, call[p]) /\ ~Refused(old, call[p])
        /\ file # Unreadable
    BY <2>2 DEF Persist, MayPersist, StoreInv, DraftIsCurrent
  <2>4. file' = Store(draft[p]) /\ draft[p] \in List
    BY <2>2 DEF Persist, StoreInv, StoreTypeOK
  <2>5. EnabledIn(file') = draft[p].on  BY <2>4, StoreLoad DEF EnabledIn
  <2>6. EnabledIn(file) = old.on  BY <2>3 DEF EnabledIn
  <2>7. old \in List  BY LoadIsList DEF StoreInv, StoreTypeOK
  <2>8. IsFiniteSet(draft[p].on) /\ IsFiniteSet(old.on)
    BY <2>4, <2>7, FS_Subset DEF List
  <2>9. Cardinality(draft[p].on) \in Nat /\ Cardinality(old.on) \in Nat
    BY <2>8, FS_CardinalityType
  <2>10. CASE EnforcesLimit(call[p])
    <3>1. draft[p] # old => Cardinality(draft[p].on) <= Limit
      BY <2>3, <2>10 DEF Refused, WithinLimit
    <3>2. draft[p] = old => EnabledIn(file') = EnabledIn(file)  BY <2>5, <2>6
    <3>3. QED  BY <2>5, <2>6, <2>9, <3>1, <3>2
  <2>11. CASE ~EnforcesLimit(call[p])
    <3>1. call[p] \in Operation  BY DEF StoreInv, StoreTypeOK
    <3>2. draft[p].on \subseteq old.on
      BY <2>3, <2>7, <2>11, <3>1 DEF Edited, EnforcesLimit, Operation, Kinds, List
    <3>3. Cardinality(draft[p].on) <= Cardinality(old.on)  BY <2>8, <3>2, FS_Subset
    <3>4. QED  BY <2>5, <2>6, <3>3
  <2>12. QED  BY <2>10, <2>11
<1>2. QED  BY <1>1, StoreInvariant, PTL DEF StoreSpec, OverLimitOnlyShrinks

-----------------------------------------------------------------------------
(* The list and the status of each call that callers see.                     *)
SeenList == IF file = Unreadable THEN [known |-> {}, on |-> {}, broken |-> TRUE] ELSE Load(file)
SeenStatus == [p \in Process |->
    CASE pc[p] \in Returned \cup {"idle", "dead"} -> pc[p]
      [] pc[p] = "renamed" -> "ok"
      [] OTHER -> "called"]
Seen == <<SeenList, call, SeenStatus>>

(* A step that moves p only changes what is seen of p.                        *)
LEMMA SeenMove ==
    ASSUME StoreTypeOK, NEW p \in Process, NEW label \in Labels, Goto(p, label)
    PROVE  SeenStatus' = [SeenStatus EXCEPT ![p] =
              IF label \in Returned \cup {"idle", "dead"} THEN label
              ELSE IF label = "renamed" THEN "ok" ELSE "called"]
BY DEF StoreTypeOK, Goto, SeenStatus, Labels, Working, Returned

(* The register edits lists as the store does.                                *)
LEMMA SameEdits ==
    ASSUME NEW l, NEW op
    PROVE  (Register!Refused(l, op) <=> Refused(l, op)) /\ Register!After(l, op) = After(l, op)
<1>1. Register!Edited(l, op) = Edited(l, op)  BY DEF Register!Edited, Edited
<1>2. Register!Found(l, op) <=> Found(l, op)  BY DEF Register!Found, Found
<1>3. ASSUME NEW S PROVE Register!Cardinality(S) = Cardinality(S)
  BY DEF Register!Cardinality, Cardinality
<1>4. ASSUME NEW m PROVE Register!WithinLimit(m, op) <=> WithinLimit(m, op)
  BY <1>3 DEF Register!WithinLimit, WithinLimit, Register!EnforcesLimit, EnforcesLimit
<1>5. Register!Refused(l, op) <=> Refused(l, op)
  BY <1>1, <1>2, <1>4 DEF Register!Refused, Refused
<1>6. QED  BY <1>1, <1>5 DEF Register!After, After

(* One step of the store is one step of the register or none.                 *)
LEMMA StepRefines ==
    ASSUME StoreInv, StoreNext, ~PowerFails
    PROVE  Register!RegisterNext \/ UNCHANGED Seen
<1> USE DEF SeenList, SeenStatus, Seen
<1>1. StoreTypeOK  BY DEF StoreInv
<1>2. ASSUME NEW p \in Process, Call(p) PROVE Register!Begin(p)
  <2>1. SeenStatus[p] = "idle"  BY <1>2 DEF Call, Returned
  <2>2. SeenStatus' = [SeenStatus EXCEPT ![p] = "called"]
    BY <1>1, <1>2, SeenMove DEF Call, Labels, Returned, Working
  <2>3. UNCHANGED <<SeenList, call>>  BY <1>2 DEF Call, diskVars
  <2>4. QED  BY <2>1, <2>2, <2>3 DEF Register!Begin
<1>3. ASSUME NEW p \in Process, NEW label \in {"locked", "edited", "written", "synced"},
             pc[p] \in {"waiting", "locked", "edited", "written"},
             Goto(p, label), UNCHANGED <<file, call>>
      PROVE  UNCHANGED Seen
  <2>1. SeenStatus[p] = "called"  BY <1>3 DEF Returned
  <2>2. SeenStatus' = [SeenStatus EXCEPT ![p] = "called"]
    BY <1>1, <1>3, SeenMove DEF Labels, Returned, Working
  <2>3. SeenStatus' = SeenStatus  BY <2>1, <2>2
  <2>4. QED  BY <1>3, <2>3
<1>4. ASSUME NEW p \in Process, pc[p] \in {"waiting", "locked", "edited", "written", "synced"},
             Goto(p, "failed"), UNCHANGED <<file, call>>
      PROVE  Register!Fail(p)
  <2>1. SeenStatus[p] = "called"  BY <1>4 DEF Returned
  <2>2. SeenStatus' = [SeenStatus EXCEPT ![p] = "failed"]
    BY <1>1, <1>4, SeenMove DEF Labels, Returned, Working
  <2>3. QED  BY <1>4, <2>1, <2>2 DEF Register!Fail
<1>5. ASSUME NEW p \in Process, Die(p) PROVE Register!Die(p)
  <2>1. SeenStatus[p] # "dead"
    BY <1>1, <1>5 DEF Die, Returned, StoreTypeOK, Labels, Working
  <2>2. SeenStatus' = [SeenStatus EXCEPT ![p] = "dead"]
    BY <1>1, <1>5, SeenMove DEF Die, Return, Labels, Returned, Working
  <2>3. UNCHANGED <<SeenList, call>>  BY <1>5 DEF Die, diskVars
  <2>4. QED  BY <2>1, <2>2, <2>3 DEF Register!Die
<1>6. ASSUME NEW p \in Process, Acknowledge(p) PROVE UNCHANGED Seen
  <2>1. SeenStatus[p] = "ok"  BY <1>6 DEF Acknowledge, Returned
  <2>2. SeenStatus' = [SeenStatus EXCEPT ![p] = "ok"]
    BY <1>1, <1>6, SeenMove DEF Acknowledge, Return, Labels, Returned, Working
  <2>3. SeenStatus' = SeenStatus  BY <2>1, <2>2
  <2>4. QED  BY <1>6, <2>3 DEF Acknowledge, diskVars
<1>7. ASSUME NEW p \in Process, LoadAndEdit(p) PROVE Register!TakeEffect(p) \/ UNCHANGED Seen
  <2>1. SeenStatus[p] = "called"  BY <1>7 DEF LoadAndEdit, Returned
  <2>2. file # Unreadable /\ UNCHANGED <<file, call>>
    BY <1>7 DEF LoadAndEdit, Readable, diskVars
  <2>3. Load(file) \in List  BY <1>1, LoadIsList DEF StoreTypeOK
  <2>4. SeenList # Register!NoList /\ SeenList' = SeenList /\ SeenList = Load(file)
    BY <2>2, <2>3 DEF Register!NoList, List
  <2>5. CASE Refused(Load(file), call[p])
    <3>1. SeenStatus' = [SeenStatus EXCEPT ![p] = "refused"]
      BY <1>1, <1>7, <2>5, SeenMove DEF LoadAndEdit, Return, Labels, Returned, Working
    <3>2. QED
      BY <2>1, <2>2, <2>4, <2>5, <3>1, SameEdits DEF Register!TakeEffect, After
  <2>6. CASE ~Refused(Load(file), call[p]) /\ Edited(Load(file), call[p]) = Load(file)
    <3>1. SeenStatus' = [SeenStatus EXCEPT ![p] = "ok"]
      BY <1>1, <1>7, <2>6, SeenMove DEF LoadAndEdit, Return, Labels, Returned, Working
    <3>2. QED
      BY <2>1, <2>2, <2>4, <2>6, <3>1, SameEdits DEF Register!TakeEffect, After
  <2>7. CASE ~Refused(Load(file), call[p]) /\ Edited(Load(file), call[p]) # Load(file)
    <3>1. Goto(p, "edited")  BY <1>7, <2>7 DEF LoadAndEdit
    <3>2. QED  BY <1>3, <1>7, <2>2, <3>1 DEF LoadAndEdit
  <2>8. QED  BY <2>5, <2>6, <2>7
<1>8. ASSUME NEW p \in Process, Persist(p) PROVE Register!TakeEffect(p)
  <2>1. pc[p] = "synced" /\ SeenStatus[p] = "called"  BY <1>8 DEF Persist, MayPersist, Returned
  <2>2. /\ file # Unreadable /\ draft[p] = Edited(Load(file), call[p])
        /\ ~Refused(Load(file), call[p]) /\ draft[p] \in List
    BY <2>1 DEF StoreInv, DraftIsCurrent, StoreTypeOK
  <2>3. Load(file) \in List  BY <1>1, LoadIsList DEF StoreTypeOK
  <2>4. SeenList = Load(file) /\ SeenList # Register!NoList
    BY <2>2, <2>3 DEF Register!NoList, List
  <2>5. SeenList' = draft[p]  BY <1>8, <2>2, StoreLoad DEF Persist
  <2>6. SeenStatus' = [SeenStatus EXCEPT ![p] = "ok"]
    BY <1>1, <1>8, SeenMove DEF Persist, Labels, Returned, Working
  <2>7. SeenList' = Register!After(SeenList, call[p])
    BY <2>2, <2>4, <2>5, SameEdits DEF After
  <2>8. ~Register!Refused(SeenList, call[p])  BY <2>2, <2>4, SameEdits
  <2>9. UNCHANGED call  BY <1>8 DEF Persist
  <2> HIDE DEF SeenList, SeenStatus
  <2>10. QED  BY <2>1, <2>4, <2>6, <2>7, <2>8, <2>9 DEF Register!TakeEffect, SeenList, SeenStatus
<1>9. ASSUME NEW p \in Process, Lock(p) \/ WriteTemporary(p) \/ SyncTemporary(p)
      PROVE  UNCHANGED Seen
  BY <1>3, <1>9 DEF Lock, WriteTemporary, SyncTemporary, diskVars
<1>10. ASSUME NEW p \in Process, LoadFails(p) \/ IoFails(p) PROVE Register!Fail(p)
  BY <1>4, <1>10 DEF LoadFails, IoFails, Return, diskVars
<1>11. CASE WriteBack \/ StoreDone
  BY <1>11 DEF WriteBack, StoreDone, storeVars, diskVars
<1>12. QED
  BY <1>2, <1>5, <1>6, <1>7, <1>8, <1>9, <1>10, <1>11 DEF StoreNext, StepOf, Register!RegisterNext

(* Without power failures every call is atomic: it happens at one instant or  *)
(* not at all, and no edit of another process is lost.                        *)
THEOREM StoreImplementsRegister ==
    ASSUME PowerCuts = 0
    PROVE  StoreSpec => ImplementsRegister
<1>1. StoreInit => Register!RegisterInit
  <2> SUFFICES ASSUME StoreInit PROVE Register!RegisterInit  OBVIOUS
  <2>1. Load(file) \in List  BY LoadIsList DEF StoreInit
  <2>2. Load(file) \in Register!List  BY <2>1 DEF List, Register!List
  <2>3. QED
    BY <2>2 DEF StoreInit, Register!RegisterInit, Register!NoList, Register!Operation, Operation,
       Register!Kinds, Kinds, Returned
<1>2. StoreInv /\ [StoreNext]_storeVars => [Register!RegisterNext]_Seen
  <2> SUFFICES ASSUME StoreInv, [StoreNext]_storeVars
               PROVE  Register!RegisterNext \/ UNCHANGED Seen
    OBVIOUS
  <2>1. ~PowerFails  BY DEF PowerFails, StoreInv, StoreTypeOK
  <2>2. CASE UNCHANGED storeVars  BY <2>2 DEF storeVars, diskVars, Seen, SeenList, SeenStatus
  <2>3. QED  BY <2>1, <2>2, StepRefines
<1>3. [Register!RegisterNext]_Seen => [Register!RegisterNext]_(Register!registerVars)
  BY DEF Seen, SeenList, SeenStatus, Register!registerVars
<1>4. QED
  BY <1>1, <1>2, <1>3, StoreInvariant, PTL DEF StoreSpec, ImplementsRegister, Register!RegisterSpec
=============================================================================
