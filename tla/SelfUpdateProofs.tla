-------------------------- MODULE SelfUpdateProofs --------------------------
(* Proofs about SelfUpdate for any number of updates and conversions, any      *)
(* releases and any registered steps.                                          *)
EXTENDS SelfUpdate, TLAPS

(* The places of an update and of a conversion in the code.                    *)
BeforePut == {"new", "started", "download", "staged", "verified", "waiting", "alone",
              "copied", "kept", "free", "restoring"}
Held == {"verified", "waiting", "alone", "copied", "kept", "free", "restoring"}
HasCopy == {"copied", "kept", "free", "restoring"}
Inside == {"read", "convert", "kept"}

Program == Version \cup {Missing, Torn}
Data == [format : Nat, went : Seq(Nat \X Nat)]

UpdateRecord == [at : BeforePut \cup {"put", "end", "dead"}, own : Version,
    target : Version, staged : Program, copy : Program, took : BOOLEAN, put : BOOLEAN,
    told : {"nothing", "current", "error", "scheduled", "installed", "unmigrated"}]

UpdateType ==
    /\ windows \in BOOLEAN /\ program \in Program /\ backups \subseteq Program
    /\ up \in [Updater -> UpdateRecord]

ConvRecord == [at : Inside \cup {"new", "end"}, target : Nat, old : Data, new : Data]

MigrateType ==
    /\ data \in Data /\ lock \in Migrator \cup {Missing}
    /\ conv \in [Migrator -> ConvRecord]

-----------------------------------------------------------------------------
(* Some update that took the program away has kept a program that runs.        *)
Saved == \E u \in Updater : up[u].took /\ up[u].copy \in backups \cap Version

(* What replaces the program has been verified; what is copied runs, or there  *)
(* is a backup that does, for it is a copy of what stood there; what is taken  *)
(* away was kept before.                                                       *)
Replacing ==
    /\ program \notin Version => Saved
    /\ \A u \in Updater :
         /\ up[u].at \in Held => up[u].staged \in Version
         /\ up[u].at \in HasCopy => up[u].copy \in Version \/ Saved
         /\ up[u].at \in HasCopy \ {"copied"} => up[u].copy \in backups
         /\ up[u].at \in {"free", "restoring"} => up[u].took
         /\ up[u].took => up[u].at \in {"free", "restoring", "put", "end", "dead"}

(* Nothing has been put or reported before the rename.                         *)
Telling ==
    \A u \in Updater :
        /\ up[u].at \in BeforePut =>
              ~up[u].put /\ up[u].told \notin {"installed", "unmigrated"}
        /\ up[u].at = "put" => up[u].put

UpdateInv == UpdateType /\ Replacing /\ Telling /\ ToldTruthfully

-----------------------------------------------------------------------------
(* The conversions a data file went through lead from format 1 to its own.     *)
InOrder(d) ==
    /\ \A k \in DOMAIN d.went : d.went[k][1] = IF k = 1 THEN 1 ELSE d.went[k - 1][2]
    /\ d.format = IF d.went = <<>> THEN 1 ELSE d.went[Len(d.went)][2]

(* The holder of the lock works on the data as it is.                          *)
Working ==
    \A m \in Migrator :
        /\ conv[m].at \in Inside => lock = m
        /\ conv[m].at \in {"convert", "kept"} =>
              /\ conv[m].old = data /\ InOrder(conv[m].new)
              /\ conv[m].new = data \/ conv[m].new.format > data.format
        /\ conv[m].at = "kept" => conv[m].new # data /\ data \in archive

Replaced == replaced \subseteq archive \cap Data /\ \A old \in replaced : old.format < data.format

MigrateInv == MigrateType /\ InOrder(data) /\ Working /\ Replaced

-----------------------------------------------------------------------------
LEMMA UpdateInvInit == Init => UpdateInv
<1> SUFFICES ASSUME Init PROVE UpdateInv  OBVIOUS
<1>1. UpdateType  BY DEF Init, UpdateType, UpdateRecord, Program, Version, BeforePut
<1>2. Replacing  BY DEF Init, Replacing, Version, Held, HasCopy
<1>3. Telling /\ ToldTruthfully  BY DEF Init, Telling, ToldTruthfully, BeforePut
<1>4. QED  BY <1>1, <1>2, <1>3 DEF UpdateInv

(* The two moves most steps make keep the records of the updates what they are. *)
LEMMA GoesType ==
    ASSUME UpdateType, NEW u \in Updater, Goes(u, "verified") \/ Goes(u, "alone")
               \/ Goes(u, "kept") \/ Goes(u, "restoring") \/ Goes(u, "dead")
    PROVE  up' \in [Updater -> UpdateRecord]
<1>1. up[u] \in UpdateRecord  BY DEF UpdateType
<1>2. \A at \in BeforePut \cup {"put", "end", "dead"} : [up[u] EXCEPT !.at = at] \in UpdateRecord
  BY <1>1 DEF UpdateRecord
<1>3. \E at \in BeforePut \cup {"put", "end", "dead"} : up' = [up EXCEPT ![u] = [up[u] EXCEPT !.at = at]]
  BY DEF Goes, BeforePut
<1>4. QED  BY <1>2, <1>3 DEF UpdateType

LEMMA TellsType ==
    ASSUME UpdateType, NEW u \in Updater,
           Tells(u, "error") \/ Tells(u, "installed") \/ Tells(u, "unmigrated")
    PROVE  up' \in [Updater -> UpdateRecord]
<1>1. up[u] \in UpdateRecord  BY DEF UpdateType
<1>2. \A told \in {"error", "installed", "unmigrated"} :
        [up[u] EXCEPT !.at = "end", !.told = told] \in UpdateRecord
  BY <1>1 DEF UpdateRecord
<1>3. \E told \in {"error", "installed", "unmigrated"} :
        up' = [up EXCEPT ![u] = [up[u] EXCEPT !.at = "end", !.told = told]]
  BY DEF Tells
<1>4. QED  BY <1>2, <1>3 DEF UpdateType

LEMMA UpdateTypeNext ==
    ASSUME UpdateType, NEW u \in Updater, Update(u) PROVE UpdateType'
<1> USE DEF UpdateType
<1>0. up[u] \in UpdateRecord  OBVIOUS
<1>1. CASE Start(u)
  <2>1. [up[u] EXCEPT !.own = program, !.at = "started"] \in UpdateRecord
    BY <1>0, <1>1 DEF Start, UpdateRecord, BeforePut
  <2>2. up' = [up EXCEPT ![u] = [up[u] EXCEPT !.own = program, !.at = "started"]]
    BY <1>1 DEF Start
  <2>3. QED  BY <1>1, <2>1, <2>2 DEF Start
<1>2. CASE Check(u)
  <2>1. PICK target \in Version, told \in {"nothing", "current"}, at \in {"download", "end"} :
            up' = [up EXCEPT ![u] = [@ EXCEPT !.target = target, !.at = at, !.told = told]]
    BY <1>2 DEF Check, NeedsInstall, Version
  <2>2. [up[u] EXCEPT !.target = target, !.at = at, !.told = told] \in UpdateRecord
    BY <1>0 DEF UpdateRecord, BeforePut
  <2>3. up' = [up EXCEPT ![u] = [up[u] EXCEPT !.target = target, !.at = at, !.told = told]]
    BY <2>1
  <2>4. QED  BY <1>2, <2>2, <2>3 DEF Check
<1>3. CASE Download(u)
  <2>1. PICK staged \in Program :
            up' = [up EXCEPT ![u] = [@ EXCEPT !.at = "staged", !.staged = staged]]
    BY <1>3 DEF Download, Program, Version
  <2>2. [up[u] EXCEPT !.at = "staged", !.staged = staged] \in UpdateRecord
    BY <1>0 DEF UpdateRecord, BeforePut
  <2>3. up' = [up EXCEPT ![u] = [up[u] EXCEPT !.at = "staged", !.staged = staged]]
    BY <2>1
  <2>4. QED  BY <1>3, <2>2, <2>3 DEF Download
<1>4. CASE Verify(u)  BY <1>4, GoesType, TellsType DEF Verify
<1>5. CASE Schedule(u)
  <2>1. [up[u] EXCEPT !.at = "waiting", !.told = "scheduled"] \in UpdateRecord
    BY <1>0 DEF UpdateRecord, BeforePut
  <2>2. up' = [up EXCEPT ![u] = [up[u] EXCEPT !.at = "waiting", !.told = "scheduled"]]
    BY <1>5 DEF Schedule
  <2>3. QED  BY <1>5, <2>1, <2>2 DEF Schedule
<1>6. CASE Released(u)  BY <1>6, GoesType DEF Released
<1>7. CASE Copy(u)
  <2>1. [up[u] EXCEPT !.at = "copied", !.copy = program] \in UpdateRecord
    BY <1>0 DEF UpdateRecord, BeforePut
  <2>2. up' = [up EXCEPT ![u] = [up[u] EXCEPT !.at = "copied", !.copy = program]]
    BY <1>7 DEF Copy
  <2>3. QED  BY <1>7, <2>1, <2>2 DEF Copy
<1>8. CASE Keep(u)
  <2>1. up[u].copy \in Program  BY <1>0 DEF UpdateRecord
  <2>2. QED  BY <1>8, <2>1, GoesType DEF Keep, Kept
<1>9. CASE TakeAway(u)
  <2>1. [up[u] EXCEPT !.at = "free", !.took = TRUE] \in UpdateRecord
    BY <1>0 DEF UpdateRecord, BeforePut
  <2>2. up' = [up EXCEPT ![u] = [up[u] EXCEPT !.at = "free", !.took = TRUE]]
    BY <1>9 DEF TakeAway
  <2>3. QED  BY <1>9, <2>1, <2>2 DEF TakeAway, Program
<1>10. CASE Rename(u)
  <2>1. [up[u] EXCEPT !.at = "put", !.put = TRUE] \in UpdateRecord
    BY <1>0 DEF UpdateRecord
  <2>2. up' = [up EXCEPT ![u] = [up[u] EXCEPT !.at = "put", !.put = TRUE]]
    BY <1>10 DEF Rename
  <2>3. up[u].staged \in Program  BY <1>0 DEF UpdateRecord
  <2>4. QED  BY <1>10, <2>1, <2>2, <2>3 DEF Rename
<1>11. CASE RenameFails(u)  BY <1>11, GoesType DEF RenameFails, Program
<1>12. CASE Restore(u)
  <2>1. up[u].copy \in Program  BY <1>0 DEF UpdateRecord
  <2>2. QED  BY <1>12, <2>1, TellsType DEF Restore
<1>13. CASE FinishInstall(u)  BY <1>13, TellsType DEF FinishInstall, Outcome
<1>14. CASE Fails(u)  BY <1>14, TellsType DEF Fails
<1>15. CASE Dies(u)  BY <1>15, GoesType DEF Dies
<1>16. QED  BY <1>1, <1>2, <1>3, <1>4, <1>5, <1>6, <1>7, <1>8, <1>9, <1>10, <1>11, <1>12,
               <1>13, <1>14, <1>15 DEF Update

-----------------------------------------------------------------------------
LEMMA TellingNext ==
    ASSUME UpdateInv, NEW u \in Updater, Update(u)
    PROVE  Telling' /\ ToldTruthfully'
<1> USE DEF UpdateInv, UpdateType, UpdateRecord, Telling, ToldTruthfully, BeforePut
<1>1. CASE Start(u)  BY <1>1 DEF Start
<1>2. CASE Check(u)  BY <1>2 DEF Check, NeedsInstall
<1>3. CASE Download(u)  BY <1>3 DEF Download
<1>4. CASE Verify(u)
  <2>1. CASE Goes(u, "verified") /\ Verified(u)  BY <1>4, <2>1 DEF Verify, Goes, Verified
  <2>2. CASE Tells(u, "error")  BY <1>4, <2>2 DEF Verify, Tells
  <2>3. QED  BY <1>4, <2>1, <2>2 DEF Verify
<1>5. CASE Schedule(u)  BY <1>5 DEF Schedule
<1>6. CASE Released(u)  BY <1>6 DEF Released, Goes
<1>7. CASE Copy(u)  BY <1>7 DEF Copy
<1>8. CASE Keep(u)  BY <1>8 DEF Keep, Goes, Kept
<1>9. CASE TakeAway(u)  BY <1>9 DEF TakeAway
<1>10. CASE Rename(u)  BY <1>10 DEF Rename
<1>11. CASE RenameFails(u)  BY <1>11 DEF RenameFails, Goes
<1>12. CASE Restore(u)  BY <1>12 DEF Restore, Tells
<1>13. CASE FinishInstall(u)
  <2>1. PICK told \in {"installed", "unmigrated"} : Tells(u, told)
    BY <1>13 DEF FinishInstall, Outcome
  <2>2. QED  BY <1>13, <2>1 DEF FinishInstall, Tells
<1>14. CASE Fails(u)  BY <1>14 DEF Fails, Tells
<1>15. CASE Dies(u)  BY <1>15 DEF Dies, Goes
<1>16. QED  BY <1>1, <1>2, <1>3, <1>4, <1>5, <1>6, <1>7, <1>8, <1>9, <1>10, <1>11, <1>12, <1>13, <1>14, <1>15 DEF Update

-----------------------------------------------------------------------------
(* Backups are never removed, and who took the program away copies no more.    *)
LEMMA SavedStays ==
    ASSUME UpdateInv, NEW u \in Updater, Update(u), Saved
    PROVE  Saved'
<1>1. PICK w \in Updater : up[w].took /\ up[w].copy \in backups \cap Version  BY DEF Saved
<1>2. backups \subseteq backups'
  BY DEF Update, Start, Check, Download, Verify, Schedule, Released, Copy, Keep, Kept, TakeAway,
         Rename, RenameFails, Restore, FinishInstall, Fails, Dies
<1> USE DEF UpdateInv, UpdateType, UpdateRecord, Replacing
<1>3. up'[w].took /\ up'[w].copy = up[w].copy
  <2>1. CASE Start(u)  BY <1>1, <2>1 DEF Start
  <2>2. CASE Check(u)  BY <1>1, <2>2 DEF Check, NeedsInstall
  <2>3. CASE Download(u)  BY <1>1, <2>3 DEF Download
  <2>4. CASE Verify(u)
    <3>1. CASE Goes(u, "verified") /\ Verified(u)  BY <1>1, <2>4, <3>1 DEF Verify, Goes, Verified
    <3>2. CASE Tells(u, "error")  BY <1>1, <2>4, <3>2 DEF Verify, Tells
    <3>3. QED  BY <2>4, <3>1, <3>2 DEF Verify
  <2>5. CASE Schedule(u)  BY <1>1, <2>5 DEF Schedule
  <2>6. CASE Released(u)  BY <1>1, <2>6 DEF Released, Goes
  <2>7. CASE Copy(u)  BY <1>1, <2>7 DEF Copy
  <2>8. CASE Keep(u)  BY <1>1, <2>8 DEF Keep, Goes, Kept
  <2>9. CASE TakeAway(u)  BY <1>1, <2>9 DEF TakeAway
  <2>10. CASE Rename(u)  BY <1>1, <2>10 DEF Rename
  <2>11. CASE RenameFails(u)  BY <1>1, <2>11 DEF RenameFails, Goes
  <2>12. CASE Restore(u)  BY <1>1, <2>12 DEF Restore, Tells
  <2>13. CASE FinishInstall(u)
    <3>1. PICK told \in {"installed", "unmigrated"} : Tells(u, told)
      BY <2>13 DEF FinishInstall, Outcome
    <3>2. QED  BY <1>1, <2>13, <3>1 DEF FinishInstall, Tells
  <2>14. CASE Fails(u)  BY <1>1, <2>14 DEF Fails, Tells
  <2>15. CASE Dies(u)  BY <1>1, <2>15 DEF Dies, Goes
  <2>16. QED  BY <2>1, <2>2, <2>3, <2>4, <2>5, <2>6, <2>7, <2>8, <2>9, <2>10, <2>11, <2>12, <2>13, <2>14, <2>15 DEF Update
<1>4. QED  BY <1>1, <1>2, <1>3 DEF Saved

LEMMA ReplacingNext ==
    ASSUME UpdateInv, NEW u \in Updater, Update(u)
    PROVE  Replacing'
<1>0. Saved => Saved'  BY SavedStays
<1> USE DEF UpdateInv, UpdateType, UpdateRecord, Replacing, Held, HasCopy
<1>1. CASE Start(u)  BY <1>0, <1>1 DEF Start
<1>2. CASE Check(u)  BY <1>0, <1>2 DEF Check, NeedsInstall
<1>3. CASE Download(u)  BY <1>0, <1>3 DEF Download
<1>4. CASE Verify(u)
  <2>1. CASE Goes(u, "verified") /\ Verified(u)  BY <1>0, <1>4, <2>1 DEF Verify, Goes, Verified
  <2>2. CASE Tells(u, "error")  BY <1>0, <1>4, <2>2 DEF Verify, Tells
  <2>3. QED  BY <1>4, <2>1, <2>2 DEF Verify
<1>5. CASE Schedule(u)  BY <1>0, <1>5 DEF Schedule
<1>6. CASE Released(u)  BY <1>0, <1>6 DEF Released, Goes
<1>7. CASE Copy(u)  BY <1>0, <1>7 DEF Copy
<1>8. CASE Keep(u)  BY <1>0, <1>8 DEF Keep, Goes, Kept
<1>9. CASE TakeAway(u)
  <2>1. up[u].copy \in backups /\ (up[u].copy \in Version \/ Saved)  BY <1>9 DEF TakeAway
  <2>2. up'[u].took /\ up'[u].copy = up[u].copy /\ backups' = backups  BY <1>9 DEF TakeAway
  <2>3. Saved'  BY <1>0, <2>1, <2>2 DEF Saved
  <2>4. QED  BY <1>9, <2>3 DEF TakeAway
<1>10. CASE Rename(u)  BY <1>0, <1>10 DEF Rename
<1>11. CASE RenameFails(u)
  <2>1. Saved  BY <1>11 DEF RenameFails, Saved
  <2>2. QED  BY <1>0, <1>11, <2>1 DEF RenameFails, Goes
<1>12. CASE Restore(u)  BY <1>0, <1>12 DEF Restore, Tells
<1>13. CASE FinishInstall(u)
  <2>1. PICK told \in {"installed", "unmigrated"} : Tells(u, told)
    BY <1>13 DEF FinishInstall, Outcome
  <2>2. QED  BY <1>0, <1>13, <2>1 DEF FinishInstall, Tells
<1>14. CASE Fails(u)  BY <1>0, <1>14 DEF Fails, Tells
<1>15. CASE Dies(u)  BY <1>0, <1>15 DEF Dies, Goes
<1>16. QED  BY <1>1, <1>2, <1>3, <1>4, <1>5, <1>6, <1>7, <1>8, <1>9, <1>10, <1>11, <1>12, <1>13, <1>14, <1>15 DEF Update

-----------------------------------------------------------------------------
LEMMA MigrateInvInit == Init => MigrateInv
<1> SUFFICES ASSUME Init PROVE MigrateInv  OBVIOUS
<1>1. data = [format |-> 1, went |-> <<>>] /\ data \in Data  BY DEF Init, Data
<1>2. MigrateType  BY <1>1 DEF Init, MigrateType, ConvRecord, Inside
<1>3. InOrder(data)  BY <1>1 DEF InOrder
<1>4. Working /\ Replaced  BY DEF Init, Working, Replaced, Inside
<1>5. QED  BY <1>2, <1>3, <1>4 DEF MigrateInv

(* One more step that starts at the format of the data keeps the order.        *)
LEMMA InOrderAppend ==
    ASSUME NEW d \in Data, InOrder(d), NEW s \in Nat \X Nat, s[1] = d.format
    PROVE  /\ [format |-> s[2], went |-> Append(d.went, s)] \in Data
           /\ InOrder([format |-> s[2], went |-> Append(d.went, s)])
<1> DEFINE went == Append(d.went, s)
           e == [format |-> s[2], went |-> went]
<1>1. d.went \in Seq(Nat \X Nat) /\ d.format \in Nat  BY DEF Data
<1>2. went \in Seq(Nat \X Nat) /\ Len(went) = Len(d.went) + 1 /\ went # <<>>
  <2>1. went \in Seq(Nat \X Nat) /\ Len(went) = Len(d.went) + 1  BY <1>1
  <2>2. Len(d.went) \in Nat  BY <1>1
  <2>3. CASE went = <<>>
    <3>1. Len(went) = 0  BY <2>3
    <3>2. QED  BY <2>1, <2>2, <3>1
  <2>4. QED  BY <2>1, <2>3
<1>3. went[Len(went)] = s  BY <1>1
<1>4. e \in Data  BY <1>2 DEF Data
<1>5. ASSUME NEW k \in DOMAIN went
      PROVE  went[k][1] = IF k = 1 THEN 1 ELSE went[k - 1][2]
  <2>1. CASE k = Len(d.went) + 1
    <3>1. CASE d.went = <<>>  BY <1>1, <1>3, <2>1, <3>1 DEF InOrder
    <3>2. CASE d.went # <<>>
      <4>1. Len(d.went) # 0  BY <1>1, <3>2
      <4>2. went[k - 1] = d.went[Len(d.went)]  BY <1>1, <2>1, <4>1
      <4>3. QED  BY <1>1, <1>2, <1>3, <2>1, <3>2, <4>1, <4>2 DEF InOrder
    <3>3. QED  BY <3>1, <3>2
  <2>2. CASE k # Len(d.went) + 1
    <3>1. k \in DOMAIN d.went /\ went[k] = d.went[k]  BY <1>1, <1>2, <2>2
    <3>2. ASSUME k # 1 PROVE went[k - 1] = d.went[k - 1]
      <4>1. k \in 1..Len(d.went) /\ Len(d.went) \in Nat  BY <1>1, <3>1
      <4>2. k - 1 \in 1..Len(d.went)  BY <3>2, <4>1
      <4>3. QED  BY <1>1, <4>2
    <3>3. QED  BY <3>1, <3>2 DEF InOrder
  <2>3. QED  BY <2>1, <2>2
<1>6. e.format = IF e.went = <<>> THEN 1 ELSE e.went[Len(e.went)][2]  BY <1>2, <1>3
<1>7. InOrder(e)  BY <1>5, <1>6 DEF InOrder
<1>8. QED  BY <1>4, <1>7

LEMMA MigrateInvNext ==
    ASSUME MigrateInv, NEW m \in Migrator, Migrate(m)
    PROVE  MigrateInv'
<1> USE DEF MigrateInv, MigrateType, ConvRecord, Inside
<1>0. Missing \notin Migrator /\ Target \subseteq Nat  BY UpdateAssumption
<1>1. CASE Begin(m)
  <2>1. MigrateType'
    <3>1. PICK target \in Nat : conv' = [conv EXCEPT ![m] = [@ EXCEPT !.at = "read", !.target = target]]
      BY <1>0, <1>1 DEF Begin
    <3>2. conv' \in [Migrator -> ConvRecord]
      BY <3>1
    <3>3. lock' = m /\ data' = data  BY <1>1 DEF Begin
    <3>4. QED  BY <3>2, <3>3
  <2>2. UNCHANGED <<data, archive, replaced>>  BY <1>1 DEF Begin
  <2>3. Working'  BY <1>0, <1>1 DEF Begin, LockFree, Working
  <2>4. QED  BY <2>1, <2>2, <2>3 DEF InOrder, Replaced
<1>2. CASE ReadData(m)
  <2>1. MigrateType'
    <3>1. [conv[m] EXCEPT !.at = "convert", !.old = data, !.new = data] \in ConvRecord
      OBVIOUS
    <3>2. conv' = [conv EXCEPT ![m] =
                      [conv[m] EXCEPT !.at = "convert", !.old = data, !.new = data]]
      BY <1>2 DEF ReadData
    <3>3. UNCHANGED <<data, lock>>  BY <1>2 DEF ReadData
    <3>4. QED  BY <3>1, <3>2, <3>3
  <2>2. UNCHANGED <<data, archive, replaced, lock>>  BY <1>2 DEF ReadData
  <2>3. Working'  BY <1>2 DEF ReadData, Working, InOrder
  <2>4. QED  BY <2>1, <2>2, <2>3 DEF InOrder, Replaced
<1>3. CASE Transform(m)
  <2> DEFINE new(k) == [format |-> Steps[k][2], went |-> Append(conv[m].new.went, Steps[k])]
  <2>1. PICK k \in DOMAIN Steps : LeadsOn(m, k) /\ conv' = [conv EXCEPT ![m].new = new(k)]
    BY <1>3 DEF Transform
  <2>2. lock = m /\ conv[m].at = "convert" /\ InOrder(conv[m].new)
        /\ (conv[m].new = data \/ conv[m].new.format > data.format)
    BY <1>3 DEF Transform, Working
  <2>3. Steps[k] \in Nat \X Nat  BY UpdateAssumption
  <2>4. Steps[k][1] = conv[m].new.format /\ Steps[k][2] > conv[m].new.format
    BY <2>1 DEF LeadsOn
  <2>5. conv[m].new \in Data  OBVIOUS
  <2>6. new(k) \in Data /\ InOrder(new(k))  BY <2>2, <2>3, <2>4, <2>5, InOrderAppend
  <2>7. new(k).format > data.format
    <3>1. new(k).format = Steps[k][2] /\ Steps[k][2] \in Nat  BY <2>3
    <3>2. conv[m].new.format \in Nat /\ data.format \in Nat  BY <2>5 DEF Data
    <3>3. QED  BY <2>2, <2>4, <3>1, <3>2
  <2> HIDE DEF new
  <2>8. UNCHANGED <<data, archive, replaced, lock>>  BY <1>3 DEF Transform
  <2>9. MigrateType'  BY <2>1, <2>6, <2>8
  <2>10. Working'  BY <2>1, <2>2, <2>6, <2>7, <2>8 DEF Working
  <2>11. QED  BY <2>8, <2>9, <2>10 DEF InOrder, Replaced
<1>4. CASE KeepOriginal(m)
  <2>1. MigrateType'  BY <1>4 DEF KeepOriginal
  <2>2. UNCHANGED <<data, replaced, lock>> /\ archive \subseteq archive'  BY <1>4 DEF KeepOriginal
  <2>3. Working'  BY <1>4 DEF KeepOriginal, Working
  <2>4. QED  BY <2>1, <2>2, <2>3 DEF InOrder, Replaced
<1>5. CASE Persist(m)
  <2>1. lock = m /\ InOrder(conv[m].new) /\ conv[m].new.format > data.format /\ data \in archive
    BY <1>5 DEF Persist, Working
  <2>2. data' = conv[m].new /\ replaced' = replaced \cup {data} /\ UNCHANGED archive
    BY <1>5 DEF Persist
  <2>3. MigrateType'  BY <1>5 DEF Persist, Ends
  <2>4. InOrder(data)'  BY <2>1, <2>2 DEF InOrder
  <2>5. Working'  BY <1>5, <2>1 DEF Persist, Ends, Working
  <2>6. Replaced'
    <3>1. data \in Data /\ data' \in Data  BY <2>2
    <3>2. ASSUME NEW old \in replaced' PROVE old \in Data /\ old.format < data'.format
      <4>1. CASE old = data  BY <2>1, <2>2, <3>1, <4>1 DEF Data
      <4>2. CASE old \in replaced
        <5>1. old \in Data /\ old.format < data.format  BY <4>2 DEF Replaced
        <5>2. QED  BY <2>1, <2>2, <3>1, <5>1 DEF Data
      <4>3. QED  BY <2>2, <4>1, <4>2
    <3>3. replaced' \subseteq archive'  BY <2>1, <2>2 DEF Replaced
    <3>4. QED  BY <3>2, <3>3 DEF Replaced
  <2>7. QED  BY <2>3, <2>4, <2>5, <2>6
<1>6. CASE GivesUp(m)
  <2>1. MigrateType'  BY <1>6 DEF GivesUp, Ends
  <2>2. UNCHANGED <<data, archive, replaced>>  BY <1>6 DEF GivesUp
  <2>3. Working'  BY <1>6 DEF GivesUp, Ends, Working
  <2>4. QED  BY <2>1, <2>2, <2>3 DEF InOrder, Replaced
<1>7. QED  BY <1>1, <1>2, <1>3, <1>4, <1>5, <1>6 DEF Migrate

-----------------------------------------------------------------------------
(* An update leaves the data alone, a conversion leaves the program alone.     *)
LEMMA InvNext ==
    ASSUME UpdateInv, MigrateInv, [Next]_vars
    PROVE  UpdateInv' /\ MigrateInv'
<1>1. ASSUME NEW u \in Updater, Update(u) PROVE UpdateInv' /\ MigrateInv'
  <2>1. UpdateInv'
    BY <1>1, UpdateTypeNext, TellingNext, ReplacingNext DEF UpdateInv
  <2>2. UNCHANGED dataVars
    BY <1>1 DEF Update, Start, Check, Download, Verify, Schedule, Released, Copy, Keep, TakeAway,
                Rename, RenameFails, Restore, FinishInstall, Fails, Dies
  <2>3. MigrateInv'
    BY <2>2 DEF dataVars, MigrateInv, MigrateType, InOrder, Working, Replaced
  <2>4. QED  BY <2>1, <2>3
<1>2. ASSUME NEW m \in Migrator, Migrate(m) PROVE UpdateInv' /\ MigrateInv'
  <2>1. UNCHANGED updateVars
    BY <1>2 DEF Migrate, Begin, ReadData, Transform, KeepOriginal, Persist, GivesUp
  <2>2. UpdateInv'
    BY <2>1 DEF updateVars, UpdateInv, UpdateType, Replacing, Saved, Telling, ToldTruthfully
  <2>3. QED  BY <1>2, <2>2, MigrateInvNext
<1>3. CASE UNCHANGED vars
  <2>1. UpdateInv'
    BY <1>3 DEF vars, updateVars, UpdateInv, UpdateType, Replacing, Saved, Telling, ToldTruthfully
  <2>2. MigrateInv'
    BY <1>3 DEF vars, dataVars, MigrateInv, MigrateType, InOrder, Working, Replaced
  <2>3. QED  BY <2>1, <2>2
<1>4. QED  BY <1>1, <1>2, <1>3 DEF Next

LEMMA InvAlways == Spec => [](UpdateInv /\ MigrateInv)
<1>1. Init => UpdateInv /\ MigrateInv  BY UpdateInvInit, MigrateInvInit
<1>2. UpdateInv /\ MigrateInv /\ [Next]_vars => (UpdateInv /\ MigrateInv)'  BY InvNext
<1>3. QED  BY <1>1, <1>2, PTL DEF Spec

(* Wherever any number of updates fail or die, and whatever they download, a   *)
(* program that runs is in place or in the backup of the update that took it   *)
(* away (update/mod.rs, replace_binary).                                       *)
THEOREM ProgramRecoverableCorrect == Spec => []ProgramRecoverable
<1>1. UpdateInv => ProgramRecoverable
  BY DEF UpdateInv, Replacing, Saved, ProgramRecoverable
<1>2. QED  BY <1>1, InvAlways, PTL

(* What an update reports at its end is what it did to the program             *)
(* (cli/upgrade.rs, update/mod.rs install_at).                                 *)
THEOREM ToldTruthfullyCorrect == Spec => []ToldTruthfully
<1>1. UpdateInv => ToldTruthfully  BY DEF UpdateInv
<1>2. QED  BY <1>1, InvAlways, PTL

(* Any number of conversions, cut off anywhere, apply each registered step     *)
(* once and in order, and only to data that was kept (migrate_file).           *)
THEOREM ConvertedOnceCorrect == Spec => []ConvertedOnce
<1>1. MigrateInv => ConvertedOnce
  BY DEF MigrateInv, InOrder, Replaced, ConvertedOnce
<1>2. QED  BY <1>1, InvAlways, PTL
=============================================================================
