------------------------------ MODULE SearchRun ------------------------------
(* What one search promises the command that started it, whatever sources it *)
(* asks, however many slots it has and whoever stops it: rows handed over in  *)
(* time are never lost, nothing else is ever delivered, and the moment the    *)
(* search ends its answer is frozen.  SearchEngine implements this module.    *)

CONSTANTS
    Links,      \* the resource links sources can find
    Kept        \* those that pass the query, include/exclude and cloud filters

VARIABLES
    offered,    \* links handed over to the search in time
    delivered,  \* links emitted to the consumer of the search
    outcome     \* "running", or the reason the search finished for

runVars == <<offered, delivered, outcome>>

FinishReasons == {"completed", "deadline", "interrupted"}

RunInit ==
    /\ offered = {}
    /\ delivered = {}
    /\ outcome = "running"

(* While it runs, a search may receive links and deliver some of those it has.*)
Collect ==
    /\ outcome = "running"
    /\ offered \subseteq offered' /\ offered' \subseteq Links
    /\ delivered \subseteq delivered' /\ delivered' \subseteq offered' \cap Kept
    /\ UNCHANGED outcome

(* The end delivers every link received and frees no later one to enter.      *)
End ==
    /\ outcome = "running"
    /\ outcome' \in FinishReasons
    /\ delivered' = offered \cap Kept
    /\ UNCHANGED offered

RunNext == Collect \/ End

RunSpec == RunInit /\ [][RunNext]_runVars
=============================================================================
