--------------------------- MODULE SearchCommand ----------------------------
(* `pansou search` from the rows of the sources to the printed answer: the     *)
(* drive loop of SearchDrive polling the search of ResultStream.  The links    *)
(* carry the source and the date of the merge besides their url and password.  *)
EXTENDS SearchDrive, ResultStream

(* The channels of the loop are the Telegram sources of the search, and a      *)
(* source of it that is saved in channels.toml is one of them.                 *)
ASSUME CommandAssumption == Channels = Telegram /\ Saved \cap Source \subseteq Telegram

commandVars == <<driveVars, found, batches, emitted, ended>>
streamOnly == <<found, batches, emitted, ended>>

CommandInit == DriveInit /\ StreamInit

NewEvents == SubSeq(events', Len(events) + 1, Len(events'))

CommandProgresses ==
    /\ SearchPolled
    /\ \E i \in Source : AcceptBatch(i)
    /\ sent' = sent \o NewEvents

CommandCompletes ==
    /\ StreamEnds
    /\ sent' = sent \o NewEvents
    /\ \E why \in {"completed", "deadline", "interrupted"} :
          /\ SearchReturns(why)
          /\ why = "completed" => Accepted = Source
          /\ failedAll' = (why = "completed" /\ Source \subseteq Failing)

CommandNext ==
    \/ CommandProgresses \/ CommandCompletes
    \/ (DriveStep \/ CheckFinishes \/ Interrupt \/ SignalFails \/ DriveEnded) /\ UNCHANGED streamOnly

CommandSpec == CommandInit /\ [][CommandNext]_commandVars

-----------------------------------------------------------------------------
CompletedAnswer == phase = "printed" /\ ~interrupted /\ completed = "completed" /\ checking

(* When the newest rows that carry a link agree on its password, that is the  *)
(* password of the answer and it has been checked, in whatever order the      *)
(* sources answered and however they rank (the stale code is not printed).    *)
(* A row hidden by one of another source with its id brings no link.          *)
NewestCodeIsChecked ==
    (CompletedAnswer /\ DistinctIds) =>
        \A k \in DOMAIN outcome :
            LET seen == Occurrences(outcome[k].url)
                newest == {l \in seen : \A o \in seen : o.time <= l.time}
            IN  \A code \in Pwd \ {NoPwd} :
                    (RequiresCheck(outcome[k]) /\ \A l \in newest : l.pwd = code) =>
                        /\ outcome[k].pwd = code
                        /\ CheckKey(outcome[k]) \in DOMAIN checked

(* What the comment on check_key and the user guide promise: when the sources *)
(* ended and the checks are done, every link of the outcome that needs a      *)
(* check has one, so that a link is withheld only for its check state.        *)
OutcomeIsChecked ==
    CompletedAnswer =>
        \A k \in DOMAIN outcome :
            RequiresCheck(outcome[k]) => CheckKey(outcome[k]) \in DOMAIN checked
=============================================================================
