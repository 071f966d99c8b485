----------------------------- MODULE LinkMerge ------------------------------
(* The pure algorithms between the rows of the sources and the links of the  *)
(* answer: core/merge.rs, core/rank.rs and the row merge of a source's own    *)
(* collector in providers/mod.rs.                                             *)
(*                                                                            *)
(* A row is [key, src, time, full, score, links]: its result_key, its source, *)
(* its datetime, its completeness_score, its rank score and the sequence of   *)
(* links it carries.  A link is [url, pwd, time, src]: the canonical url key,  *)
(* the password or NoPwd, its datetime (0: none, less than every other) and   *)
(* the source of the row, which stands for the metadata copied from the row.  *)
EXTENDS Integers, Sequences, FiniteSets, SequencesExt

CONSTANT NoPwd      \* a missing or blank password

(* Position of the first element of s that satisfies Test, 0 if there is none.*)
Find(s, Test(_)) == SelectInSeq(s, Test)

(* merge_search_results: a duplicate keeps the position of the first row with *)
(* its key and replaces it only when it is strictly more complete.            *)
MergeRow(rows, row) ==
    LET at == Find(rows, LAMBDA r : r.key = row.key)
    IN  IF at = 0 THEN Append(rows, row)
        ELSE IF row.full > rows[at].full THEN [rows EXCEPT ![at] = row] ELSE rows

MergeSearchResults(batches) == FoldLeft(MergeRow, <<>>, FlattenSeq(batches))

(* The link a row contributes, dated by the row when it has no date itself.   *)
Candidate(row, link) ==
    [url |-> link.url, pwd |-> link.pwd, src |-> row.src,
     time |-> IF link.time = 0 THEN row.time ELSE link.time]

Candidates(rows) ==
    FlattenSeq([i \in DOMAIN rows |->
        [j \in DOMAIN rows[i].links |-> Candidate(rows[i], rows[i].links[j])]])

(* merge_links: newer metadata replaces older metadata in the same position   *)
(* but never a known password by nothing; an older duplicate only fills a     *)
(* password that is missing.                                                  *)
Absorb_Bug(old, new) == IF new.time > old.time THEN new ELSE old
Absorb(old, new) ==
    CASE new.time > old.time -> IF new.pwd = NoPwd THEN [new EXCEPT !.pwd = old.pwd] ELSE new
      [] new.time <= old.time /\ old.pwd = NoPwd -> [old EXCEPT !.pwd = new.pwd]
      [] OTHER -> old

MergeLink_Bug(links, new) ==    \* the password is part of the key
    LET at == Find(links, LAMBDA l : l.url = new.url /\ l.pwd = new.pwd)
    IN  IF at = 0 THEN Append(links, new)
        ELSE [links EXCEPT ![at] = Absorb(links[at], new)]
MergeLink(links, new) ==
    LET at == Find(links, LAMBDA l : l.url = new.url)
    IN  IF at = 0 THEN Append(links, new)
        ELSE [links EXCEPT ![at] = Absorb(links[at], new)]

MergeLinks(rows) == FoldLeft(MergeLink, <<>>, Candidates(rows))

(* A sort by an order of positions: place k has the element that k - 1 others *)
(* come before.                                                               *)
Sorted(s, Before(_, _)) ==
    [k \in DOMAIN s |->
        s[CHOOSE i \in DOMAIN s : Cardinality({j \in DOMAIN s : Before(j, i)}) = k - 1]]

(* rank_results: a stable sort by falling score.                              *)
Rank(rows) ==
    Sorted(rows, LAMBDA i, j : rows[i].score > rows[j].score
                                 \/ (rows[i].score = rows[j].score /\ i < j))

(* SearchContext::finish: rows of one source with the same key are merged in  *)
(* order of publication; the later link wins but keeps a known password and   *)
(* date, the later row keeps a known date and brings its title, so its score; *)
(* what the rows bring together is as complete as the fuller one of them.     *)
Refresh_Bug(old, new) == new
Refresh(old, new) ==
    [new EXCEPT !.pwd = IF new.pwd = NoPwd THEN old.pwd ELSE new.pwd,
                !.time = IF new.time = 0 THEN old.time ELSE new.time]

RefreshLink(links, new) ==
    LET at == Find(links, LAMBDA l : l.url = new.url)
    IN  IF at = 0 THEN Append(links, new)
        ELSE [links EXCEPT ![at] = Refresh(links[at], new)]

RefreshRow(old, new) ==
    [old EXCEPT !.links = FoldLeft(RefreshLink, old.links, new.links),
                !.time = IF new.time = 0 THEN old.time ELSE new.time,
                !.score = new.score,
                !.full = IF new.full > old.full THEN new.full ELSE old.full]

FinishRow(rows, row) ==
    LET at == Find(rows, LAMBDA r : r.key = row.key /\ r.src = row.src)
    IN  IF at = 0 THEN Append(rows, row)
        ELSE [rows EXCEPT ![at] = RefreshRow(rows[at], row)]

FinishRows(rows) == FoldLeft(FinishRow, <<>>, rows)
=============================================================================
