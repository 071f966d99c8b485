---------------------------- MODULE ResultStream ----------------------------
(* The data side of SearchEngine::run: batches are accepted in whatever order *)
(* the sources complete, merged over everything accepted so far and announced *)
(* as Result and ResultUpdate events; at the end the batches are put back in   *)
(* source order, announced again, then ranked and merged a last time into the  *)
(* outcome.  Slots, deadlines and cancellation are the subject of SearchEngine;*)
(* here the run may end at any moment.                                         *)
EXTENDS SearchOutput

CONSTANTS
    Key,                \* row ids
    NumSources,         \* sources of the search, in request order
    Found,              \* what the sources may find: a set of functions that
                        \* give each source the sequence of rows it publishes
    MaxRows,            \* bound on the rows one source publishes
    Telegram,           \* sources that are Telegram channels: they have no
                        \* collector, so what they found counts only as answered
    Failing             \* sources that answer with an error; a provider's error
                        \* leaves the rows it has published

Source == 1 .. NumSources
Row == [key : Key, src : Source, time : Nat, full : Nat, score : Int,
        links : Seq([url : Url, pwd : Pwd, time : Nat])]

ASSUME StreamAssumption ==
    /\ NumSources \in Nat \ {0} /\ MaxRows \in Nat /\ NoPwd \in Pwd
    /\ Failing \subseteq Source /\ Telegram \subseteq Source

(* A source names itself in its rows.                                         *)
ASSUME FoundAssumption ==
    \A f \in Found :
        /\ f \in [Source -> Seq(Row)]
        /\ \A i \in Source : \A k \in DOMAIN f[i] : f[i][k].src = i

VARIABLES
    found,      \* the rows each source finds, fixed from the start
    batches,    \* accepted batches <<index, rows>>, in completion order
    emitted,    \* url -> link, as last announced
    ended       \* the run has returned its outcome

streamVars == <<found, batches, emitted, events, ended, outcome>>

Accepted == {batches[k][1] : k \in DOMAIN batches}
RowsOf(bs) == MergeSearchResults([k \in DOMAIN bs |-> bs[k][2]])

StreamInit ==
    /\ found \in Found
    /\ batches = <<>> /\ events = <<>> /\ outcome = <<>>
    /\ emitted = [u \in {} |-> {}]
    /\ ended = FALSE

(* Announce one merged link: a missing password is taken from what was        *)
(* announced before, and an unchanged link is not announced again.            *)
KeepPassword_Bug(link, known) == link
KeepPassword(link, known) ==
    IF link.url \in DOMAIN known /\ link.pwd = NoPwd
      THEN [link EXCEPT !.pwd = known[link.url].pwd] ELSE link

Announce(acc, merged) ==
    LET link == KeepPassword(merged, acc.known)
    IN  IF link.url \in DOMAIN acc.known /\ acc.known[link.url] = link THEN acc
        ELSE [known |-> [u \in DOMAIN acc.known \cup {link.url} |->
                            IF u = link.url THEN link ELSE acc.known[u]],
              sent |-> Append(acc.sent,
                  [kind |-> IF link.url \in DOMAIN acc.known THEN "update" ELSE "result",
                   link |-> link])]

Publishes(bs, first) ==
    LET announced == FoldLeft(Announce, [known |-> emitted, sent |-> <<>>], MergeLinks(RowsOf(bs)))
    IN  /\ emitted' = announced.known
        /\ events' = events \o first \o announced.sent

(* The batch of rows of source i; a provider's collector merges them by key.  *)
BatchOf(i, rows) == Rank(IF i \in Telegram THEN rows ELSE FinishRows(rows))
Answer(i) == BatchOf(i, IF i \in Telegram \cap Failing THEN <<>> ELSE found[i])

(* Source i answered or failed; a failure is announced before its links.      *)
AcceptBatch(i) ==
    /\ ~ended
    /\ i \notin Accepted
    /\ batches' = Append(batches, <<i, Answer(i)>>)
    /\ Publishes(batches', IF i \in Failing THEN <<[kind |-> "error", source |-> i]>> ELSE <<>>)
    /\ UNCHANGED <<found, ended, outcome>>

(* The run ends with the batches in source order.  A provider cut off leaves  *)
(* the rows it had published, a prefix of what it would have found.           *)
InSourceOrder_Bug(bs) == bs             \* completion order, as while streaming
InSourceOrder(bs) == Sorted(bs, LAMBDA i, j : bs[i][1] < bs[j][1])

EndStream(cut, published) ==
    /\ ~ended
    /\ \A i \in cut : published[i] \in 0 .. Len(found[i])
    /\ LET left == SetToSeq(cut)
           late == [k \in DOMAIN left |->
                      <<left[k], BatchOf(left[k], SubSeq(found[left[k]], 1, published[left[k]]))>>]
       IN  batches' = InSourceOrder(batches \o late)
    /\ Publishes(batches', <<>>)
    /\ outcome' = MergeLinks(Rank(RowsOf(batches')))
    /\ ended' = TRUE
    /\ UNCHANGED found

(* The run stops when every source was accepted, or earlier with some         *)
(* providers started and cut off.                                             *)
Unfinished == Source \ (Accepted \cup Telegram)

StreamEnds ==
    \E cut \in SUBSET Unfinished :
        \E published \in [cut -> 0 .. MaxRows] : EndStream(cut, published)

StreamDone == ended /\ UNCHANGED streamVars

StreamNext == (\E i \in Source : AcceptBatch(i)) \/ StreamEnds \/ StreamDone
StreamSpec == StreamInit /\ [][StreamNext]_streamVars

-----------------------------------------------------------------------------
Occurrences(u) == {l \in ToSet(Candidates(FlattenSeq([k \in DOMAIN batches |-> batches[k][2]]))) :
                      l.url = u}

(* No row id is used by two sources.  Most providers prefix their ids with    *)
(* their name; where two do not, one row may hide the other.  The page of a   *)
(* channel shows each message once.                                           *)
RowIds(i) == {found[i][k].key : k \in DOMAIN found[i]}
DistinctIds ==
    /\ \A i, j \in Source : i # j => RowIds(i) \cap RowIds(j) = {}
    /\ \A i \in Telegram : \A j, k \in DOMAIN found[i] :
          found[i][j].key = found[i][k].key => j = k

(* A password once announced for a link is never taken back, although newer   *)
(* rows of other sources replace the link's metadata (engine.rs:365).         *)
PasswordNeverLost ==
    [][\A u \in DOMAIN emitted :
          emitted[u].pwd # NoPwd => u \in DOMAIN emitted' /\ emitted'[u].pwd # NoPwd]_streamVars

(* With row ids that differ between sources, what is printed has the urls     *)
(* that were announced, each exactly once (usage.md, de-duplicated links).    *)
AnswerHasAnnouncedUrls ==
    (ended /\ DistinctIds) =>
      /\ {outcome[k].url : k \in DOMAIN outcome} = DOMAIN emitted
      /\ \A j, k \in DOMAIN outcome : outcome[j].url = outcome[k].url => j = k

(* With row ids that differ between sources, a printed link has a password    *)
(* whenever one source knew it, and no other link's password or metadata:     *)
(* both come from rows of this link, the metadata from a newest one.          *)
AnswerKeepsPasswords ==
    (ended /\ DistinctIds) => \A k \in DOMAIN outcome :
        LET seen == Occurrences(outcome[k].url)
        IN  /\ outcome[k].pwd = NoPwd => \A l \in seen : l.pwd = NoPwd
            /\ \E l \in seen : l.pwd = outcome[k].pwd
            /\ \A l \in seen : l.time <= outcome[k].time

AllAnswered ==
    /\ ended /\ Accepted = Source
    /\ \A k \in DOMAIN batches : batches[k][2] = Answer(batches[k][1])

(* A password that any source published for a link, in any version of a row,  *)
(* is never replaced by none: the answer has a password for this link.        *)
NoCodeForgotten ==
    (AllAnswered /\ DistinctIds) =>
        \A i \in Source : \A l \in ToSet(FlattenSeq([j \in DOMAIN found[i] |-> found[i][j].links])) :
            (l.pwd # NoPwd /\ i \notin Telegram \cap Failing) =>
                \E k \in DOMAIN outcome : outcome[k].url = l.url /\ outcome[k].pwd # NoPwd

(* The printed answer does not depend on the order in which the sources       *)
(* happened to finish: it is the merge of their batches in source order       *)
(* (specification of search and output, 2.6).                                 *)
AnswerIsStable ==
    AllAnswered =>
        outcome = MergeLinks(Rank(MergeSearchResults([i \in Source |-> Answer(i)])))
=============================================================================
