----------------------------- MODULE ProvidersC -----------------------------
(* The plans of the providers of c_registry.rs.  Most look at the clock once   *)
(* more before they hand on what they read.                                    *)
EXTENDS ProviderPlan

(* A request is sent again unless a body has begun to arrive.                  *)
Request(tries, stage) == SendRetry(tries, stage)
Complete(stage) == Refused(stage)

QuarkresRow == {"link"}
Quarkres == <<Complete(Strict(Rows(QuarkresRow)))>>

QupansouRow == {"link"}
Qupansou == <<Complete(Strict(Rows(QupansouRow)))>>

XdyhRow == {"link", "new"}
Xdyh == <<Complete(Limited(Request(3, Strict(Rows(XdyhRow)))))>>

YunsoRow == {"title", "link"}
YunsoPage == Refused(Strict(Live(Rows(YunsoRow))))
Yunso == <<Keeping(Ordered(Pages(3, YunsoPage)))>>

(* The configuration is at one of two addresses; the link of an item comes     *)
(* from one of two as well.                                                    *)
YingsoConfig == InTurn(2, Key)
YingsoLink == {"cloud", "link"}
YingsoResolve == InTurn(2, Refused(Strict(Ordered(Details(8, YingsoLink)))))
Yingso == Within(<<YingsoConfig, Strict(Items({})), YingsoResolve>>)

(* Hits are followed while the stream of hits is read; a hit that is no share  *)
(* is saved, and the saving is polled up to eight times.                       *)
SopanyaShares == {"link"}
SopanyaStream == [keeps |-> TRUE] @@ Streaming(Items({"new"}))
SopanyaResolve == Nested(Free(Sent(9, {"odd"}, Strict(Details(6, SopanyaShares)))))
Sopanya == Within(<<SopanyaStream, SopanyaResolve>>)

ZlxappRow == {"title", "link", "cloud", "new"}
Zlxapp == <<Complete(Limited(Request(3, Strict(Rows(ZlxappRow)))))>>

WanouRow == {"title"}
Wanou == <<Complete(Limited(Request(2, Strict(Rows(WanouRow)))))>>

QuarksooRow == {"title", "match", "link", "new"}
Quarksoo == <<Asking(Text(3, Rows(QuarksooRow)))>>

ZhizhenItem == {"page"}
ZhizhenLinks == {"link"}
ZhizhenFetch(stage) == Limited(Request(3, stage))
Zhizhen == <<ZhizhenFetch(Items(ZhizhenItem)), ZhizhenFetch(CollectDetails(20, ZhizhenLinks))>>

XysRow == {"title", "link"}
Xys == <<Limited(Request(3, Key)), Complete(Limited(Request(3, Strict(Rows(XysRow)))))>>

(* The token is at one of two addresses, each tried twice.                     *)
U3c3Token == InTurn(4, Key)
U3c3Row == {"title", "link"}
U3c3 == <<U3c3Token, Complete(Request(2, Rows(U3c3Row)))>>

XdpanItem == {"page", "title"}
XdpanLinks == {"link", "cloud"}
XdpanFetch(stage) == [asks |-> {"before"}] @@ Request(3, stage)
Xdpan == <<XdpanFetch(Strict(Items(XdpanItem))), Request(3, CollectDetails(10, XdpanLinks))>>

XiaojiItem == {"page", "title"}
XiaojiLinks == {"link", "new"}
XiaojiFetch(stage) == Limited(Request(3, stage))
Xiaoji == <<XiaojiFetch(Items(XiaojiItem)), XiaojiFetch(CollectDetails(4, XiaojiLinks))>>

XiaoyuRow == {"title", "link", "cloud"}
XiaoyuPage == Refused(Limited(Request(3, Live(Rows(XiaoyuRow)))))
Xiaoyu == <<XiaoyuPage, Keeping(Ordered(Rest(5, XiaoyuPage)))>>

(* A page may redirect: the first answer is dropped before the next request.   *)
XiaozhangItem == {"title", "page"}
XiaozhangLinks == {"link", "cloud", "new"}
XiaozhangDetail == CollectDetails(20, XiaozhangLinks)
Xiaozhang == <<Items(XiaozhangItem), XiaozhangDetail>>

XinjucItem == {"title", "page"}
XinjucLinks == {"link", "cloud", "new"}
XinjucFetch(tries, stage) == Limited(Request(tries, stage))
Xinjuc == <<XinjucFetch(3, Items(XinjucItem)), XinjucFetch(1, CollectDetails(15, XinjucLinks))>>

YioveItem == {"title", "page"}
YioveLinks == {"link", "cloud", "new"}
YioveFetch(stage) == Limited(Request(3, stage))
Yiove == <<YioveFetch(Items(YioveItem)), YioveFetch(CollectDetails(6, YioveLinks))>>

YpfxwItem == {"title", "page"}
YpfxwLinks == {"link", "cloud", "new"}
YpfxwFetch(tries, stage) == Limited(Request(tries, stage))
Ypfxw == <<YpfxwFetch(3, Items(YpfxwItem)), YpfxwFetch(2, CollectDetails(12, YpfxwLinks))>>

YuhuageItem == {"title", "page"}
YuhuageLinks == {"link"}
YuhuageDetail == Text(3, CollectDetails(5, YuhuageLinks))
Yuhuage == <<Limited(Request(3, Items(YuhuageItem))), YuhuageDetail>>

(* A detail page names players, each on a page of its own; the row is          *)
(* published again with every link it gains.                                   *)
ZxzjItem == {"title", "page"}
ZxzjFetch(stage) == Limited(Request(3, stage))
ZxzjDetail == [gives |-> {"rows", "items"}] @@ ZxzjFetch(CollectDetails(5, {"link"}))
ZxzjPlayer == Nested(ZxzjFetch(Refused(Strict(Details(5, {"link"})))))
Zxzj == <<ZxzjFetch(Items(ZxzjItem)), ZxzjDetail, ZxzjPlayer>>

CPlans ==
    {Quarkres, Qupansou, Xdyh, Yingso, Sopanya, Yunso, Zlxapp, Wanou, Quarksoo, Zhizhen,
     Xys, U3c3, Xdpan, Xiaoji, Xiaoyu, Xiaozhang, Xinjuc, Yiove, Ypfxw, Yuhuage, Zxzj}
=============================================================================
