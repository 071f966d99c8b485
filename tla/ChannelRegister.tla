-------------------------- MODULE ChannelRegister ---------------------------
(* What the channel store promises its callers: each call of a `pansou`       *)
(* process takes effect on the list at one instant, or not at all when it is  *)
(* refused, fails or its process dies.  ChannelStore implements this module.  *)
EXTENDS ChannelList

CONSTANT Process

VARIABLES
    list,       \* the list, or NoList when its file cannot be read
    call,       \* the operation each process has called
    status      \* of the call: "idle", "called", "ok", "refused", "failed", "dead"

registerVars == <<list, call, status>>

NoList == [known |-> {}, on |-> {}, broken |-> TRUE]

RegisterInit ==
    /\ list \in List \cup {NoList}
    /\ call \in [Process -> Operation]
    /\ status = [p \in Process |-> "idle"]

Begin(p) ==
    /\ status[p] = "idle"
    /\ status' = [status EXCEPT ![p] = "called"]
    /\ UNCHANGED <<list, call>>

(* The instant of the call.                                                   *)
TakeEffect(p) ==
    /\ status[p] = "called"
    /\ list # NoList
    /\ list' = After(list, call[p])
    /\ status' = [status EXCEPT ![p] = IF Refused(list, call[p]) THEN "refused" ELSE "ok"]
    /\ UNCHANGED call

(* An error of the file system, or a file that cannot be read.                *)
Fail(p) ==
    /\ status[p] = "called"
    /\ status' = [status EXCEPT ![p] = "failed"]
    /\ UNCHANGED <<list, call>>

Die(p) ==
    /\ status[p] # "dead"
    /\ status' = [status EXCEPT ![p] = "dead"]
    /\ UNCHANGED <<list, call>>

RegisterNext == \E p \in Process : Begin(p) \/ TakeEffect(p) \/ Fail(p) \/ Die(p)
RegisterSpec == RegisterInit /\ [][RegisterNext]_registerVars
=============================================================================
