----------------------------- MODULE ProvidersG -----------------------------
(* The plans of the providers of g_registry.rs.  All their attempts at a       *)
(* request share a timeout; each looks at the clock first.                     *)
EXTENDS ProviderPlan

Fetch(tries, stage) ==
    Limited(SendRetry(tries, [asks |-> {"before"}] @@ Strict(stage)))

(* A detail without a supported link is an error; with links it is published   *)
(* if it has the words of the query.                                           *)
Linked(width) == Details(width, {"match"})

Ys5266Item == {"title", "page", "new"}
Ys5266Magnets == {"link", "new", "match"}
Ys5266 == <<Limited(Strict(Items(Ys5266Item))), Fetch(1, Details(8, Ys5266Magnets))>>

AhhhhfsItem == {"title", "page", "id", "new"}
AhhhhfsLinks == {"link", "cloud"}
Ahhhhfs == <<Fetch(3, Items(AhhhhfsItem)), Fetch(1, Linked(15))>>

AlupanItem == {"title", "page", "id", "new"}
AlupanLinks == {"link", "cloud"}
Alupan == <<Fetch(3, Items(AlupanItem)), Fetch(2, Linked(12))>>

(* Only here a body that breaks off is asked for again.                        *)
BixinRow == {"id", "link", "cloud"}
BixinPage == Fetch(3, Live(Rows(BixinRow \cup {"match"})))
Bixin == <<Keeping(Text(3, Pages(2, BixinPage)))>>

DaishudjItem == {"title", "page", "id", "new"}
DaishudjLinks == {"link", "cloud"}
Daishudj == <<Fetch(3, Items(DaishudjItem)), Fetch(3, Linked(10))>>

DiduanItem == {"title", "page", "new"}
DiduanLinks == {"link", "cloud"}
Diduan == <<Fetch(1, Items(DiduanItem)), Fetch(1, Linked(20))>>

(* Pages one after the other; the first that fails ends the search.            *)
DiscourseRow == {"id", "link", "new"}
Discourse == <<Fetch(1, Pages(1, Live(Rows(DiscourseRow))))>>

DuoduoItem == {"page", "id", "new"}
Duoduo == <<Fetch(3, Items(DuoduoItem)), Fetch(3, Linked(20))>>

GPlans ==
    {Ys5266, Ahhhhfs, Alupan, Bixin, Daishudj, Diduan, Discourse, Duoduo}
=============================================================================
