----------------------------- MODULE ProvidersH -----------------------------
(* The plans of the providers of h_registry.rs.  Each search runs under the    *)
(* time that is left to its source.                                            *)
EXTENDS ProviderPlan

(* Any fault but an odd document is tried again, after a look at the clock.    *)
Request(tries, stage) == Text(tries, [asks |-> {"before"}] @@ Strict(stage))
HText(tries, stage) == Limited(Request(tries, stage))

(* Only a row with links and the words of the query is published.              *)
Publishable == {"link", "match"}
Published(width) == Details(width, Publishable)

KkvItem == {"page", "id", "match"}
Kkv == Within(<<HText(3, Items(KkvItem)), HText(3, Published(3))>>)

(* Three mirrors at once: the first with an item has the search.               *)
LabiItem == {"id", "title"}
LabiMirror == HText(3, Items(LabiItem))
Labi == Within(<<Race(3, LabiMirror), HText(3, Published(20))>>)

LeijingFetch(stage) == HText(1, stage)
LeijingItem == {"page", "title"}
Leijing == Within(<<LeijingFetch(Items(LeijingItem)), LeijingFetch(Free(Published(20)))>>)

LingjispGet(stage) == Request(3, stage)
LingjispRow == {"id", "title"}
Lingjisp == Within(<<LingjispGet(Items({"id", "new"})), LingjispGet(Published(6))>>)

Lou1Item == {"title", "page"}
Lou1 == Within(<<HText(3, Items(Lou1Item)), HText(3, Details(6, {"match"}))>>)

(* A share that cannot be decrypted is an error; the others are published.     *)
MiaosoUrl == {"link"}
Miaoso == Within(<<HText(1, Flawed(Live(Rows(MiaosoUrl \cup {"match"}))))>>)

(* Two categories at once, each with its details.                              *)
MikuclubCategory == HText(3, Keeping(Pages(2, Items({"id", "new"}))))
MikuclubDetail == HText(2, Published(12))
Mikuclub == Within(<<MikuclubCategory, Nested(MikuclubDetail)>>)

(* The gate: a page, or the answer to a challenge, three times.  The search is *)
(* a stream of snapshots; a session refused before it is renewed once.  Shares *)
(* in it are published, references to shares are asked for meanwhile.          *)
MiosouGate == InTurn(3, [asks |-> {"before"}] @@ Key)
MiosouStream == Sent(2, {"denied"}, Streaming(Flawed(Items({}))))
MiosouRow == {"link", "match"}
MiosouRef == Nested(Free(Strict(Details(4, MiosouRow))))
Miosou == Within(<<MiosouGate, MiosouStream, MiosouRef>>)

HPlans ==
    {Kkv, Labi, Leijing, Lingjisp, Lou1, Miaoso, Mikuclub, Miosou}
=============================================================================
