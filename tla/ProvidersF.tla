----------------------------- MODULE ProvidersF -----------------------------
(* The plans of the providers of f_registry.rs.                                *)
EXTENDS ProviderPlan

(* Each attempt looks at the clock first; all of them share one timeout, but   *)
(* for quarktv, where each has its own and a broken body counts as a fault.    *)
Body(stage) == [asks |-> {"before"}] @@ Strict(stage)
Once(stage) == Limited(Body(stage))
Standard(stage) == Limited(SendRetry(3, Body(stage)))
PerAttempt(stage) == Text(3, Body(stage))
SentAgain(stage) == Limited(Sent(3, {"send"}, Body(stage)))

(* A batch that arrives after the deadline is an error of the source.          *)
Collect(stage) == Asking(Live(Keeping(stage)))
CollectEach(width, needs) == Collect(Each(width, Rows(needs)))

(* An article names its post, and the post its shares.                         *)
QuarktvItem == {"page", "id", "title"}
QuarktvPost == PerAttempt(Collect(Each(10, Items({}))))
QuarktvShares == Nested(PerAttempt(CollectEach(1, {})))
Quarktv == <<PerAttempt(Items(QuarktvItem)), QuarktvPost, QuarktvShares>>

(* The home page gives the form's key, the form the address of the answer.     *)
QupanshePost(stage) == Limited(Sent(3, {"send", "denied"}, Body(stage)))
QupansheGet(stage) == Once(stage)
QupansheRow == {"title", "link"}
Qupanshe == <<QupansheGet(Key), QupanshePost(Key), QupansheGet(Live(Rows(QupansheRow)))>>

SdsoRow == {"link", "cloud"}
Sdso == <<Standard(Collect(Pages(8, Rows(SdsoRow))))>>

(* Three mirrors at once: the first with an item has the search.               *)
ShandianItem == {"page", "title"}
ShandianMirror == Standard(Items(ShandianItem))
ShandianLinks == {"link", "cloud", "new"}
ShandianDetail == Standard(CollectEach(20, {}))
Shandian == <<Race(3, ShandianMirror), ShandianDetail>>

(* The site's pages; without a row of theirs, its API.                         *)
SousouItem == {"page", "title"}
SousouDocument == Once([gives |-> {"rows", "items"}] @@ CollectEach(8, {}))
SousouRow == {"link", "cloud"}
SousouWeb == <<Passing(Once(Items(SousouItem))), SousouDocument>>
Sousou == SousouWeb \o <<Otherwise(Once(Collect(Pages(6, Rows(SousouRow)))))>>

ThepiratebayRow == {"title", "page", "id", "link"}
ThepiratebayPage == Standard(Live(Rows(ThepiratebayRow)))
Thepiratebay == <<ThepiratebayPage, Collect(Ordered(Rest(8, ThepiratebayPage)))>>

(* The details of the first page come before the other pages are asked for,    *)
(* and an error among them ends the search there.                              *)
WujiItem == {"page", "title"}
WujiPage == SentAgain(Items(WujiItem))
WujiResolve == SentAgain(CollectEach(10, {}))
Wuji == <<WujiPage, WujiResolve, IfWell(Collect(Rest(1, WujiPage))), Nested(WujiResolve)>>

(* The form's answer names the page of results.                                *)
Xb6vItem == {"page", "id", "new"}
Xb6vMagnets == {"link", "new"}
Xb6v == <<Key, Once(Items(Xb6vItem)), Once(CollectEach(50, {}))>>

FPlans ==
    {Quarktv, Qupanshe, Sdso, Shandian, Sousou, Thepiratebay, Wuji, Xb6v}
=============================================================================
