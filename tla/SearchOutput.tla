---------------------------- MODULE SearchOutput ----------------------------
(* What a search and the command that polls it share: the channel of events   *)
(* (SearchEngine::run, sink) and the outcome the search returns.  ResultStream *)
(* writes them, SearchDrive reads them; SearchCommand puts both together.      *)
EXTENDS LinkMerge

CONSTANTS Url, Pwd      \* canonical urls, and passwords with NoPwd

VARIABLES
    events,     \* the channel of the search, events not received yet
    outcome     \* links of SearchOutcome, in output order
=============================================================================
