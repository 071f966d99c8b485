---------------------------- MODULE ProviderPlan ----------------------------
(* The vocabulary the plans of the providers are written in.  A plan is the    *)
(* sequence of the stages a provider's search goes through; a stage says what  *)
(* it asks for, how often, how many at a time, and what a failure means.  What *)
(* a page says is data: an entry of a page is the set of what it lacks, and a  *)
(* stage keeps the entries that lack nothing it needs.  The caps on items,     *)
(* links and bytes are larger than any instance and are not part of a plan.    *)
EXTENDS Naturals, Sequences, TLC

(* What an entry may lack: a title, a link (a share, a magnet), the address of *)
(* its own page, a known cloud, the words of the query, an identity, being new.*)
Features == {"title", "link", "page", "cloud", "match", "id", "new"}

(* What a request can meet: no answer, a session refused, an answer other than *)
(* 200, a body that cannot be read, another document than expected, the end of *)
(* the time all its attempts have together; an empty page may be a reason to   *)
(* ask elsewhere.                                                              *)
Faults == {"send", "denied", "status", "body", "odd", "time", "empty"}

(* fan: "one" request, "pages", the "rest" of the pages, at most one when the  *)
(* stage before gave nothing ("maybe"), pages when it gave nothing ("else"),   *)
(* its errors forgotten, one for "each" entry it gave; well: not when an error *)
(* is remembered; flawed: an entry that cannot be read is an error; nested:    *)
(* each entry goes on alone, without waiting for the others; instead: only     *)
(* when the stage before failed over to it, or it follows such a stage; width  *)
(* at a time, ordered when the results are taken in order, race when the first *)
(* answer drops the others; tries with the faults after which it is tried      *)
(* again, limited when they share one timeout; strict: an unexpected page is a *)
(* fault; fail and none: what a failed request and a page without an entry do  *)
(* to the search ("abort" it, "keep" the error to the end, go "on", "stop"     *)
(* asking, go to the "next" stage instead; an empty page is in "doubt" after   *)
(* an attempt that failed); live: a row is published by its "job", when it is  *)
(* "yield"ed, or only returned at the "end"; gives rows, items or just a key;  *)
(* asks: it looks at the clock before it sends and before it hands on; free:   *)
(* an entry may be complete already and need no request; streams: entries are  *)
(* taken as the body arrives; keeps: the response stays open until the search  *)
(* returns; whole: the search as a whole has a timeout of its own.             *)
One ==
    [fan |-> "one", nested |-> FALSE, instead |-> FALSE, width |-> 1, ordered |-> FALSE,
     tries |-> 1, again |-> {}, limited |-> FALSE, strict |-> FALSE,
     fail |-> "abort", none |-> "on", live |-> "end", gives |-> {}, needs |-> {},
     asks |-> {}, free |-> FALSE, race |-> FALSE, streams |-> FALSE,
     keeps |-> FALSE, whole |-> FALSE, well |-> FALSE, flawed |-> FALSE]

Key == [strict |-> TRUE] @@ One
Items(needs) == [gives |-> {"items"}, needs |-> needs] @@ One
Rows(needs) == [gives |-> {"rows"}, needs |-> needs] @@ One
Strict(stage) == [strict |-> TRUE] @@ stage
Live(stage) == [live |-> "job"] @@ stage
Asking(stage) == [asks |-> {"before", "after"}] @@ stage
Refused(stage) == [asks |-> {"after"}] @@ stage
Nested(stage) == [nested |-> TRUE] @@ stage
Limited(stage) == [limited |-> TRUE] @@ stage
Ordered(stage) == [ordered |-> TRUE] @@ stage
Free(stage) == [free |-> TRUE] @@ stage
Maybe(stage) == [fan |-> "maybe"] @@ stage
Pages(width, stage) == [fan |-> "pages", width |-> width] @@ stage
Rest(width, stage) == [fan |-> "rest", width |-> width] @@ stage
Each(width, stage) == [fan |-> "each", width |-> width] @@ stage
Keeping(stage) == [fail |-> "keep"] @@ stage
NoneKept(stage) == [none |-> "keep"] @@ stage
Passing(stage) == [fail |-> "on"] @@ stage
Instead(stage) == [instead |-> TRUE] @@ stage
IfWell(stage) == [well |-> TRUE] @@ stage
Flawed(stage) == [flawed |-> TRUE] @@ stage
Otherwise(stage) == [fan |-> "else"] @@ stage
OrElse(stage, other) == <<[fail |-> "next"] @@ stage, Instead(other)>>
Race(width, stage) == [race |-> TRUE] @@ Pages(width, stage)
Streaming(stage) == [streams |-> TRUE] @@ stage
Within(plan) == [plan EXCEPT ![1].whole = TRUE]

(* How the helpers the providers share send a request.                         *)
Sent(tries, again, stage) == [tries |-> tries, again |-> again] @@ stage
SendRetry(tries, stage) == Sent(tries, {"send", "denied", "status"}, stage)
Text(tries, stage) == Sent(tries, {"send", "denied", "status", "body"}, stage)

(* Several hosts in turn, until one gives the page, or a page with an entry.   *)
InTurn(hosts, stage) == Sent(hosts, {"send", "denied", "status", "body", "odd"}, stage)
UntilFound(hosts, stage) == [none |-> "doubt"] @@ Sent(hosts, Faults \ {"time"}, stage)

(* How they work off the entries of a listing.                                 *)
Details(width, needs) == Live(Keeping(Each(width, Rows(needs))))
CollectPartial(width, needs) == NoneKept(Details(width, needs))
CollectDetails(width, needs) == Asking(CollectPartial(width, needs))

(* What a stage may be.                                                        *)
Stages ==
    [fan : {"one", "pages", "rest", "maybe", "else", "each"},
     nested : BOOLEAN, instead : BOOLEAN, width : Nat, ordered : BOOLEAN,
     tries : Nat, again : SUBSET Faults, limited : BOOLEAN, strict : BOOLEAN,
     fail : {"abort", "keep", "on", "stop", "next"},
     none : {"abort", "keep", "on", "doubt"},
     live : {"job", "yield", "end"}, gives : SUBSET {"rows", "items"},
     needs : SUBSET Features, asks : SUBSET {"before", "after"}, free : BOOLEAN,
     race : BOOLEAN, streams : BOOLEAN, keeps : BOOLEAN, whole : BOOLEAN,
     well : BOOLEAN, flawed : BOOLEAN]

(* An error of the stage may be remembered while the search goes on.           *)
Lenient(stage) ==
    stage.fail \in {"keep", "stop"} \/ stage.none \in {"keep", "doubt"} \/ stage.flawed

(* The rows of stage s are published at once: by their job, or by a stream     *)
(* that yields them as soon as their job is done.                              *)
Prompt(p, s) ==
    \/ p[s].live = "job"
    \/ /\ p[s].live = "yield" /\ ~p[s].ordered /\ ~p[s].streams
       /\ ~p[s].nested /\ (s < Len(p) => ~p[s + 1].nested)

(* Or stage s is one request whose rows are the answer: nothing is asked for   *)
(* after it, and no error is remembered before it.                             *)
Conclusive(p, s) ==
    /\ p[s].fan = "one" /\ ~p[s].nested /\ ~p[s].streams
    /\ \A t \in (s + 1)..Len(p) : p[t].instead /\ ~p[t].nested /\ ~p[s].instead
    /\ \A r \in DOMAIN p : ~Lenient(p[r])

(* What stage s asks for in vain is asked for in another way: the stages up to *)
(* that one have nothing to do.                                                *)
MadeUp(p, s) ==
    /\ s = 1 /\ p[s].fan = "one" /\ ~p[s].streams
    /\ \E e \in 2..Len(p) :
         /\ p[e].fan = "else" /\ ~p[e].nested /\ ~p[e].instead /\ ~p[e].well
         /\ \A t \in 2..(e - 1) : p[t].fan = "each" /\ ~p[t].nested
=============================================================================
