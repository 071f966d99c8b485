----------------------------- MODULE ProvidersA -----------------------------
(* The plans of the providers of a_registry.rs.                                *)
EXTENDS ProviderPlan

(* A request is sent again after any failure, also of the body.                *)
Fetch(tries, stage) == Text(tries, stage)

(* A session that is refused is renewed once; then the site is polled until it *)
(* says it is complete.                                                        *)
Run488Cookie == [fail |-> "on"] @@ Limited(Strict(One))
Run488Row == {"title", "link", "cloud", "match", "id"}
Run488Api == Limited(Strict(Live(Rows(Run488Row))))
Run488 == <<Run488Cookie, Sent(2, {"denied"}, Run488Api), Rest(1, Run488Api)>>

AikanzyItem == {"title", "page", "id"}
AikanzyLinks == {"link", "cloud", "new"}
Aikanzy ==
    <<Fetch(4, Strict(Items(AikanzyItem))),
      Fetch(4, Ordered(CollectPartial(15, AikanzyLinks)))>>

(* Every mirror is searched, with its details; a detail may be in the cache.   *)
MacCmsItem == {"title", "page", "id"}
MacCmsLinks == {"link", "cloud", "new"}
MacCms ==
    <<Fetch(3, Strict(Keeping(Ordered(Pages(3, Items(MacCmsItem)))))),
      Nested(Fetch(3, Free(Ordered(CollectPartial(20, MacCmsLinks)))))>>
Erxiao == MacCms
Huban == MacCms

(* A later page that fails ends the list, and its error is kept.               *)
Dy4kItem == {"title", "page", "id", "new"}
Dy4kLinks == {"link", "cloud", "new"}
Dy4k ==
    LET page == Fetch(3, Strict(Items(Dy4kItem)))
    IN <<page, [fail |-> "stop"] @@ Rest(1, page),
         Fetch(3, Free(Ordered(CollectPartial(6, Dy4kLinks))))>>

DyyjproItem == {"title", "page", "id"}
DyyjproLinks == {"link", "cloud"}
Dyyjpro ==
    <<Fetch(3, Strict(Items(DyyjproItem))),
      Fetch(3, Ordered(CollectPartial(12, DyyjproLinks)))>>

HaisouItem == {"id", "new"}
HaisouShare == Strict(Ordered(CollectPartial(20, {"link", "cloud"})))
Haisou ==
    <<Fetch(3, Strict(Keeping(Ordered(Pages(10, Items(HaisouItem)))))), Fetch(3, HaisouShare)>>

(* Only a request without an answer is sent again.                             *)
Hdr4kBody(stage) == Sent(3, {"send"}, stage)
Hdr4kItem == {"title", "id", "match"}
Hdr4kLinks == {"link", "cloud", "new"}
Hdr4k ==
    <<Hdr4kBody(Strict(Items(Hdr4kItem))),
      Hdr4kBody(Free(Ordered(CollectPartial(20, Hdr4kLinks))))>>

JavdbItem == {"title", "page"}
JavdbMagnets == {"link", "new"}
Javdb == <<Strict(Items(JavdbItem)), Free(Ordered(CollectPartial(10, JavdbMagnets)))>>

(* The web page is asked for when the API fails.                               *)
FeikuaiRow == {"link", "match"}
FeikuaiWeb == {"link", "cloud", "new", "match"}
Feikuai == OrElse(Fetch(3, Strict(Rows(FeikuaiRow))), Fetch(1, Strict(Rows(FeikuaiWeb))))

AipanItem == {"id", "title", "new"}
AipanLinks == {"link", "cloud", "new"}
Aipan ==
    <<Fetch(1, Strict(Items(AipanItem))),
      Fetch(1, Strict(Ordered(CollectPartial(6, AipanLinks))))>>

IkantvRow == {"id", "link", "cloud"}
Ikantv == <<Fetch(3, Strict(Rows(IkantvRow)))>>

AshRow == {"link"}
Ash == <<Limited(Fetch(2, Strict(Rows(AshRow))))>>

HunhepanRow == {"link", "new"}
Hunhepan == <<Fetch(1, Strict(Ordered(Live(Keeping(Pages(12, Rows(HunhepanRow)))))))>>

(* The pages of the movies first, then those of their resources.  Rows without *)
(* the words of the query are neither published nor returned: not in the model.*)
BtbtlbItem == {"title", "page", "new"}
BtbtlbResource == {"page", "new"}
BtbtlbLinks == {"link", "cloud"}
Btbtlb ==
    <<Fetch(1, Strict(Items(BtbtlbItem))),
      Fetch(1, Ordered(NoneKept(Keeping(Each(4, Items(BtbtlbResource)))))),
      Fetch(1, Ordered(CollectPartial(8, BtbtlbLinks)))>>

Gaoqing888Item == {"id", "title"}
Gaoqing888Links == {"link", "cloud", "new"}
Gaoqing888 ==
    <<Fetch(3, Strict(Items(Gaoqing888Item))),
      Fetch(3, Ordered(CollectPartial(8, Gaoqing888Links)))>>

APlans ==
    {Run488, Aikanzy, Erxiao, Huban, Dy4k, Dyyjpro, Haisou, Hdr4k, Javdb, Feikuai,
     Aipan, Ikantv, Ash, Hunhepan, Btbtlb, Gaoqing888}
=============================================================================
