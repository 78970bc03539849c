----------------------------- MODULE ShopProofs -----------------------------
(***************************************************************************)
(* Proofs about module Shop, for every number of goods, users, accounts     *)
(* files and sessions, served one at a time or not, and any crashes: the    *)
(* types, that nothing goes below zero, and that cash.txt adds up.          *)
(*                                                                          *)
(* The argument never looks at two sessions at once.  Whatever is in a file *)
(* was a good value when some session wrote it (FilesOK), so what a session *)
(* reads is good, however stale; and from then on the session's checks and  *)
(* its changes are on its own copy (SessionOK).  What makes this inductive  *)
(* is Stage: at each program counter, which checks on the copy still hold.  *)
(***************************************************************************)
EXTENDS Shop, TLAPS

PCs == {"out", "home", "initBalance", "initCash", "menu", "bill",
        "openCash", "fillCash", "readCash", "items", "remove", "rename",
        "openGoods", "fillGoods", "stock", "quantity", "stuck", "key"}

GoodsOK(g) == g \in Stock /\ \A i \in Items : g[i].stock >= 0
CashOK(c)  == c \in CashRecord /\ c.finl >= 0 /\ AddsUp(c)
AccountsOK(a) == a \in [Users -> Nat \cup {NoRecord}]
LocalOK(l) == l \in LocalRecord /\ GoodsOK(l.goods) /\ CashOK(l.cash)

(* The quantities ordered are still covered from index n on. *)
Covered(l, n) == \A i \in Items : i >= n => l.order[i] <= l.goods[i].stock

Stage(p, l, b) ==
    /\ p \in {"out", "home"} => l = NoLocal
    /\ p \in {"initBalance", "initCash", "menu", "bill", "readCash", "items", "stock"}
          => l.job = "buy"
    /\ p \in {"initBalance", "initCash", "menu", "bill"} => Covered(l, 1)
    /\ p \in {"openCash", "fillCash", "readCash", "items"} /\ l.job = "buy"
          => Covered(l, l.k)
    /\ \/ p \in {"menu", "bill"}
       \/ /\ l.job = "buy"
          /\ p \in {"openCash", "fillCash", "readCash", "items", "remove", "rename",
                    "openGoods", "fillGoods"}
       => b \in Nat
    /\ p = "quantity" => l.job = "order" /\ l.k \in Items
    /\ l.job = "modify" => l.k \in Items

FilesOK ==
    /\ goodsFile = Empty \/ GoodsOK(goodsFile)
    /\ cashFile = Empty \/ CashOK(cashFile)
    /\ acct \in [Files -> [Users -> Nat \cup {NoRecord}] \cup {Missing}]
    /\ tmp = Missing \/ AccountsOK(tmp)

SessionsOK ==
    /\ pc \in [Sessions -> PCs]
    /\ balance \in [Sessions -> Nat \cup {NoBalance}]
    /\ local \in [Sessions -> LocalRecord]
    /\ \A s \in Sessions : LocalOK(local[s]) /\ Stage(pc[s], local[s], balance[s])

HistoryOK ==
    /\ bill \in [Users -> Nat] /\ listed \in [Items -> Nat]
    /\ banned \subseteq Users /\ registered \subseteq Users
    /\ jobs \in 0 .. MaxJobs /\ crashes \in 0 .. MaxCrashes

IInv == FilesOK /\ SessionsOK /\ HistoryOK

-----------------------------------------------------------------------------
(* Arithmetic the solvers are given once. *)
LEMMA NatProduct == \A a, b \in Nat : a * b \in Nat
  OBVIOUS

LEMMA FmtNat == \A x \in Nat : Fmt(x) \in Nat /\ (Fmt(x) < SigLimit => Fmt(x) = x)
  BY BoundsAssumption DEF Fmt

LEMMA DiscountedNat == \A f, x : x \in Nat => Discounted(f, x) \in Nat
  BY DEF Discounted

(* Formatting keeps a cash record good: while initial + in can be printed   *)
(* exactly, so can the other two.                                            *)
LEMMA FmtCashOK ==
  ASSUME NEW c, CashOK(c)
  PROVE  CashOK(FmtCash(c))
<1>1. /\ c.initial \in Nat /\ c.in \in Nat /\ c.out \in Nat /\ c.finl \in Nat
      /\ c.initial + c.in < SigLimit => c.finl + c.out = c.initial + c.in
  BY DEF CashOK, CashRecord, AddsUp
<1>2. /\ Fmt(c.initial) \in Nat /\ Fmt(c.in) \in Nat
      /\ Fmt(c.out) \in Nat /\ Fmt(c.finl) \in Nat
  BY <1>1, FmtNat
<1>3. FmtCash(c) \in CashRecord /\ FmtCash(c).finl >= 0
  BY <1>2 DEF FmtCash, CashRecord
<1>4. ASSUME Fmt(c.initial) + Fmt(c.in) < SigLimit
      PROVE  Fmt(c.finl) + Fmt(c.out) = Fmt(c.initial) + Fmt(c.in)
  <2>1. Fmt(c.initial) = c.initial /\ Fmt(c.in) = c.in
    BY <1>1, <1>2, <1>4, FmtNat, BoundsAssumption
  <2>2. c.finl + c.out = c.initial + c.in /\ c.finl < SigLimit /\ c.out < SigLimit
    BY <1>1, <1>4, <2>1, BoundsAssumption
  <2>3. Fmt(c.finl) = c.finl /\ Fmt(c.out) = c.out
    BY <2>2 DEF Fmt
  <2>. QED  BY <2>1, <2>2, <2>3
<1>. QED  BY <1>3, <1>4 DEF CashOK, AddsUp, FmtCash

LEMMA FmtGoodsOK ==
  ASSUME NEW g, GoodsOK(g)
  PROVE  GoodsOK(FmtGoods(g))
<1>1. \A i \in Items : g[i] \in GoodsRecord /\ g[i].stock >= 0
  BY DEF GoodsOK, Stock
<1>2. \A i \in Items :
        [g[i] EXCEPT !.cost = Fmt(@), !.price = Fmt(@)] \in GoodsRecord
        /\ [g[i] EXCEPT !.cost = Fmt(@), !.price = Fmt(@)].stock = g[i].stock
  BY <1>1, FmtNat DEF GoodsRecord
<1>. QED  BY <1>1, <1>2 DEF GoodsOK, FmtGoods, Stock

LEMMA CashInOK ==
  ASSUME NEW c, CashOK(c), NEW x \in Nat
  PROVE  CashOK(CashIn(c, x))
<1>1. /\ c.initial \in Nat /\ c.in \in Nat /\ c.out \in Nat /\ c.finl \in Int
      /\ c.finl >= 0
      /\ c.initial + c.in < SigLimit => c.finl + c.out = c.initial + c.in
  BY DEF CashOK, CashRecord, AddsUp
<1>2. /\ CashIn(c, x).initial = c.initial /\ CashIn(c, x).out = c.out
      /\ CashIn(c, x).in = c.in + x /\ CashIn(c, x).finl = c.finl + x
  <2>1. c \in CashRecord
    BY DEF CashOK
  <2>. QED  BY <2>1 DEF CashIn, CashRecord
<1>3. CashIn(c, x) \in CashRecord /\ CashIn(c, x).finl >= 0
  <2>1. c \in CashRecord /\ c.in + x \in Nat /\ c.finl + x \in Int
    BY <1>1 DEF CashOK
  <2>2. ASSUME NEW y \in Nat, NEW z \in Int
        PROVE  [c EXCEPT !.in = y, !.finl = z] \in CashRecord
    BY <2>1 DEF CashRecord
  <2>3. CashIn(c, x) \in CashRecord
    BY <2>1, <2>2 DEF CashIn
  <2>. QED  BY <1>1, <1>2, <2>3
<1>4. AddsUp(CashIn(c, x))
  BY <1>1, <1>2, BoundsAssumption DEF AddsUp
<1>. QED  BY <1>3, <1>4 DEF CashOK

LEMMA CashOutOK ==
  ASSUME NEW c, CashOK(c), NEW x \in Nat, x <= c.finl
  PROVE  CashOK(CashOut(c, x))
<1>1. /\ c.initial \in Nat /\ c.in \in Nat /\ c.out \in Nat /\ c.finl \in Int
      /\ c.finl >= 0
      /\ c.initial + c.in < SigLimit => c.finl + c.out = c.initial + c.in
  BY DEF CashOK, CashRecord, AddsUp
<1>2. /\ CashOut(c, x).initial = c.initial /\ CashOut(c, x).in = c.in
      /\ CashOut(c, x).out = c.out + x /\ CashOut(c, x).finl = c.finl - x
  <2>1. c \in CashRecord
    BY DEF CashOK
  <2>. QED  BY <2>1 DEF CashOut, CashRecord
<1>3. CashOut(c, x) \in CashRecord /\ CashOut(c, x).finl >= 0
  <2>1. c \in CashRecord /\ c.out + x \in Nat /\ c.finl - x \in Int
    BY <1>1 DEF CashOK
  <2>2. ASSUME NEW y \in Nat, NEW z \in Int
        PROVE  [c EXCEPT !.out = y, !.finl = z] \in CashRecord
    BY <2>1 DEF CashRecord
  <2>3. CashOut(c, x) \in CashRecord
    BY <2>1, <2>2 DEF CashOut
  <2>. QED  BY <1>1, <1>2, <2>3
<1>4. AddsUp(CashOut(c, x))
  BY <1>1, <1>2, BoundsAssumption DEF AddsUp
<1>. QED  BY <1>3, <1>4 DEF CashOK

LEMMA RestockOK ==
  ASSUME NEW g, GoodsOK(g), NEW i \in Items, NEW x \in Nat
  PROVE  GoodsOK([g EXCEPT ![i].stock = x])
BY DEF GoodsOK, Stock, GoodsRecord

LEMMA TermsOK ==
  ASSUME NEW g, GoodsOK(g), NEW i \in Items, NEW t \in Terms
  PROVE  GoodsOK([g EXCEPT ![i] =
           [@ EXCEPT !.price = t.price, !.level = t.level, !.amount = t.amount]])
BY DEF GoodsOK, Stock, GoodsRecord, Terms

LEMMA NoLocalOK ==
  ASSUME NEW s \in Sessions
  PROVE  LocalOK(NoLocal)
<1>1. GoodsOK(goods0)
  BY FilesAssumption DEF GoodsOK
<1>2. CashOK(cash0)
  BY FilesAssumption DEF CashOK, AddsUp
<1>3. NoLocal \in LocalRecord
  BY <1>1, <1>2, PeopleAssumption, BoundsAssumption DEF NoLocal, LocalRecord, GoodsOK, CashOK, NoOrder, Items
<1>. QED  BY <1>1, <1>2, <1>3 DEF LocalOK, NoLocal

-----------------------------------------------------------------------------
(* What is known of one session. *)
LEMMA Here ==
  ASSUME SessionsOK, NEW s \in Sessions
  PROVE  /\ pc[s] \in PCs /\ balance[s] \in Nat \cup {NoBalance}
         /\ local[s] \in LocalRecord
         /\ GoodsOK(local[s].goods) /\ CashOK(local[s].cash)
         /\ local[s].order \in [Items -> Nat] /\ local[s].k \in 1 .. N + 1
         /\ local[s].ordercost \in Nat /\ local[s].target \in Users
         /\ LocalOK(local[s]) /\ Stage(pc[s], local[s], balance[s])
<1>1. local[s] \in LocalRecord /\ LocalOK(local[s])
  BY DEF SessionsOK
<1>2. /\ local[s].order \in [Items -> Nat] /\ local[s].k \in 1 .. N + 1
      /\ local[s].ordercost \in Nat /\ local[s].target \in Users
  BY <1>1 DEF LocalRecord
<1>. QED  BY <1>1, <1>2 DEF SessionsOK, LocalOK

(* A step changes the part of the state that belongs to one session. *)
LEMMA Frame ==
  ASSUME SessionsOK, NEW s \in Sessions, NEW p \in PCs, NEW b \in Nat \cup {NoBalance},
         NEW l, LocalOK(l), Stage(p, l, b),
         pc' = [pc EXCEPT ![s] = p], balance' = [balance EXCEPT ![s] = b],
         local' = [local EXCEPT ![s] = l]
  PROVE  SessionsOK'
<1>1. l \in LocalRecord
  BY DEF LocalOK
<1>2. /\ pc' \in [Sessions -> PCs] /\ balance' \in [Sessions -> Nat \cup {NoBalance}]
      /\ local' \in [Sessions -> LocalRecord]
  BY <1>1 DEF SessionsOK
<1>3. ASSUME NEW r \in Sessions
      PROVE  LocalOK(local'[r]) /\ Stage(pc'[r], local'[r], balance'[r])
  <2>1. CASE r = s
    <3>1. pc'[r] = p /\ balance'[r] = b /\ local'[r] = l
      BY <2>1 DEF SessionsOK
    <3>. QED  BY <3>1
  <2>2. CASE r # s
    <3>1. pc'[r] = pc[r] /\ balance'[r] = balance[r] /\ local'[r] = local[r]
      BY <2>2 DEF SessionsOK
    <3>. QED  BY <3>1 DEF SessionsOK
  <2>. QED  BY <2>1, <2>2
<1>. QED  BY <1>2, <1>3 DEF SessionsOK

(* The same when only the program counter and the local variables change. *)
LEMMA LocalFrame ==
  ASSUME SessionsOK, NEW s \in Sessions, NEW p \in PCs,
         NEW l, LocalOK(l), Stage(p, l, balance[s]),
         pc' = [pc EXCEPT ![s] = p], local' = [local EXCEPT ![s] = l],
         UNCHANGED balance
  PROVE  SessionsOK'
<1>1. balance' = [balance EXCEPT ![s] = balance[s]] /\ balance[s] \in Nat \cup {NoBalance}
  BY DEF SessionsOK
<1>. QED  BY <1>1, Frame

LEMMA HomeStage ==
  ASSUME NEW p \in {"home", "out"}, NEW b
  PROVE  Stage(p, NoLocal, b)
BY DEF Stage, NoLocal

LEMMA PassFrame ==
  ASSUME SessionsOK, NEW s \in Sessions, NEW from, NEW p \in PCs,
         Pass(s, from, p), UNCHANGED balance,
         p # "home" => Stage(p, local[s], balance[s])
  PROVE  SessionsOK'
<1>1. CASE p = "home"
  <2>1. pc' = [pc EXCEPT ![s] = p] /\ local' = [local EXCEPT ![s] = NoLocal]
    BY <1>1 DEF Pass, Goto
  <2>. QED  BY <2>1, <1>1, NoLocalOK, HomeStage, LocalFrame
<1>2. CASE p # "home"
  <2>1. pc' = [pc EXCEPT ![s] = p] /\ local' = local
    BY <1>2 DEF Pass, Goto
  <2>2. local' = [local EXCEPT ![s] = local[s]]
    BY <2>1 DEF SessionsOK
  <2>3. LocalOK(local[s])
    BY Here
  <2>. QED  BY <2>1, <2>2, <2>3, <1>2, LocalFrame
<1>. QED  BY <1>1, <1>2

LEMMA UnchangedFrame ==
  ASSUME SessionsOK, UNCHANGED <<pc, balance, local>>
  PROVE  SessionsOK'
BY DEF SessionsOK

LEMMA RestartOK ==
  ASSUME IInv, Restart
  PROVE  IInv'
<1>1. FilesOK'
  BY DEF IInv, FilesOK, Restart, fileVars
<1>2. HistoryOK'
  BY BoundsAssumption DEF IInv, HistoryOK, Restart, historyVars
<1>3. SessionsOK'
  <2>1. \A s \in Sessions : LocalOK(NoLocal) /\ NoLocal \in LocalRecord
    BY NoLocalOK DEF LocalOK
  <2>2. \A s \in Sessions : Stage("out", NoLocal, NoBalance)
    BY HomeStage
  <2>. QED  BY <2>1, <2>2 DEF SessionsOK, Restart, PCs
<1>. QED  BY <1>1, <1>2, <1>3 DEF IInv

LEMMA InitOK ==
  ASSUME Init
  PROVE  IInv
<1>1. FilesOK
  <2>1. GoodsOK(goods0) /\ CashOK(cash0)
    BY FilesAssumption DEF GoodsOK, CashOK, AddsUp
  <2>2. acct \in [Files -> [Users -> Nat \cup {NoRecord}] \cup {Missing}]
    BY FilesAssumption DEF Init
  <2>. QED  BY <2>1, <2>2 DEF FilesOK, Init
<1>2. SessionsOK
  <2>1. \A s \in Sessions : LocalOK(NoLocal) /\ NoLocal \in LocalRecord
    BY NoLocalOK DEF LocalOK
  <2>2. \A s \in Sessions : Stage("out", NoLocal, NoBalance)
    BY HomeStage
  <2>. QED  BY <2>1, <2>2 DEF SessionsOK, Init, PCs
<1>3. HistoryOK
  BY FilesAssumption, BoundsAssumption DEF HistoryOK, Init, Stock, GoodsRecord
<1>. QED  BY <1>1, <1>2, <1>3 DEF IInv

-----------------------------------------------------------------------------
(* The steps of a session, one lemma for each: its own part of the state.   *)
LEMMA InitGoodsOK ==
  ASSUME IInv, NEW s \in Sessions, InitGoods(s)
  PROVE  SessionsOK'
<1> DEFINE l == [local[s] EXCEPT !.goods = goodsFile]
<1>1. local' = [local EXCEPT ![s] = l] /\ pc' = [pc EXCEPT ![s] = "initBalance"]
      /\ UNCHANGED balance /\ pc[s] = "home" /\ goodsFile # Empty
  BY DEF InitGoods, Begin, Goto
<1>2. GoodsOK(goodsFile) /\ goodsFile \in Stock
  BY <1>1 DEF IInv, FilesOK, GoodsOK
<1>3. SessionsOK /\ local[s] = NoLocal /\ local[s] \in LocalRecord /\ CashOK(local[s].cash)
  BY <1>1, Here DEF IInv, Stage
<1>4. l \in LocalRecord /\ l.goods = goodsFile /\ l.cash = local[s].cash
      /\ l.order = NoOrder /\ l.job = "buy"
  BY <1>2, <1>3 DEF LocalRecord, NoLocal
<1>5. LocalOK(l)
  BY <1>2, <1>3, <1>4 DEF LocalOK
<1>6. Covered(l, 1)
  BY <1>2, <1>4 DEF Covered, NoOrder, GoodsOK
<1>7. Stage("initBalance", l, balance[s])
  BY <1>4, <1>6 DEF Stage
<1>. QED  BY <1>1, <1>3, <1>5, <1>7, LocalFrame DEF PCs

LEMMA InitBalanceOK ==
  ASSUME IInv, NEW s \in Sessions, InitBalance(s)
  PROVE  SessionsOK'
<1>1. SessionsOK /\ pc[s] = "initBalance" /\ pc' = [pc EXCEPT ![s] = "initCash"]
  BY DEF IInv, InitBalance, Goto
<1>2. PICK b \in Nat \cup {NoBalance} : balance' = [balance EXCEPT ![s] = b]
  <2>1. Home(s) \in Files /\ user[s] \in Users
    BY PeopleAssumption DEF Home
  <2>2. acct[Home(s)] \in [Users -> Nat \cup {NoRecord}]
    BY <2>1 DEF IInv, FilesOK, InitBalance
  <2>. QED  BY <1>1, <2>1, <2>2, Here DEF InitBalance
<1>3. local' = [local EXCEPT ![s] = local[s]]
  BY <1>1 DEF InitBalance, SessionsOK
<1>4. LocalOK(local[s]) /\ Stage("initCash", local[s], b)
  BY <1>1, Here DEF Stage
<1>. QED  BY <1>1, <1>2, <1>3, <1>4, Frame DEF PCs

LEMMA InitCashOK ==
  ASSUME IInv, NEW s \in Sessions, InitCash(s)
  PROVE  SessionsOK'
<1> DEFINE l == [local[s] EXCEPT !.cash = cashFile]
<1>1. /\ local' = [local EXCEPT ![s] = l] /\ pc' = [pc EXCEPT ![s] = "menu"]
      /\ UNCHANGED balance /\ pc[s] = "initCash" /\ cashFile # Empty
      /\ balance[s] # NoBalance
  BY DEF InitCash, Goto
<1>2. CashOK(cashFile) /\ cashFile \in CashRecord
  BY <1>1 DEF IInv, FilesOK, CashOK
<1>3. SessionsOK /\ local[s] \in LocalRecord /\ GoodsOK(local[s].goods)
      /\ Stage("initCash", local[s], balance[s]) /\ balance[s] \in Nat
  BY <1>1, Here DEF IInv
<1>4. l \in LocalRecord /\ l.goods = local[s].goods /\ l.cash = cashFile
      /\ l.order = local[s].order /\ l.job = local[s].job /\ l.k = local[s].k
  BY <1>2, <1>3 DEF LocalRecord
<1>5. LocalOK(l)
  BY <1>2, <1>3, <1>4 DEF LocalOK
<1>6. Stage("menu", l, balance[s])
  BY <1>3, <1>4 DEF Stage, Covered
<1>. QED  BY <1>1, <1>3, <1>5, <1>6, LocalFrame DEF PCs

LEMMA AddOK ==
  ASSUME IInv, NEW s \in Sessions, NEW i \in Items, NEW q \in 1 .. MaxQuantity, Add(s, i, q)
  PROVE  SessionsOK'
<1> DEFINE o == [local[s].order EXCEPT ![i] = q]
           l == [local[s] EXCEPT !.order = o]
<1>1. /\ local' = [local EXCEPT ![s] = l] /\ pc' = [pc EXCEPT ![s] = "menu"]
      /\ UNCHANGED balance /\ pc[s] = "menu" /\ q <= local[s].goods[i].stock
  BY DEF Add, IInv, SessionsOK
<1>2. /\ SessionsOK /\ local[s] \in LocalRecord /\ GoodsOK(local[s].goods)
      /\ CashOK(local[s].cash) /\ local[s].order \in [Items -> Nat]
      /\ Stage("menu", local[s], balance[s])
  BY <1>1, Here DEF IInv
<1>3. o \in [Items -> Nat]
  BY <1>2, BoundsAssumption
<1>4. l \in LocalRecord /\ l.goods = local[s].goods /\ l.cash = local[s].cash
      /\ l.order = o /\ l.job = local[s].job /\ l.k = local[s].k
  BY <1>2, <1>3 DEF LocalRecord
<1>5. LocalOK(l)
  BY <1>2, <1>4 DEF LocalOK
<1>6. Covered(l, 1)
  BY <1>1, <1>2, <1>4 DEF Covered, Stage
<1>7. Stage("menu", l, balance[s])
  BY <1>2, <1>4, <1>6 DEF Stage
<1>. QED  BY <1>1, <1>2, <1>5, <1>7, LocalFrame DEF PCs

LEMMA BillOK ==
  ASSUME IInv, NEW s \in Sessions, Bill(s)
  PROVE  SessionsOK'
<1> DEFINE k == local[s].k
           x == local[s].ordercost
                  + Discounted(Home(s), local[s].goods[k].price * local[s].order[k])
           l == [local[s] EXCEPT !.k = k + 1, !.ordercost = x]
<1>1. /\ local' = [local EXCEPT ![s] = l] /\ pc' = [pc EXCEPT ![s] = "bill"]
      /\ UNCHANGED balance /\ pc[s] = "bill" /\ k \in Items
  BY DEF Bill, IInv, SessionsOK
<1>2. /\ SessionsOK /\ local[s] \in LocalRecord /\ GoodsOK(local[s].goods)
      /\ CashOK(local[s].cash) /\ local[s].order \in [Items -> Nat]
      /\ local[s].ordercost \in Nat /\ Stage("bill", local[s], balance[s])
  BY <1>1, Here DEF IInv
<1>3. local[s].goods[k].price \in Nat /\ local[s].order[k] \in Nat
  BY <1>1, <1>2 DEF GoodsOK, Stock, GoodsRecord
<1>4. x \in Nat /\ k + 1 \in 1 .. N + 1
  <2>1. local[s].goods[k].price * local[s].order[k] \in Nat
    BY <1>3, NatProduct
  <2>2. Discounted(Home(s), local[s].goods[k].price * local[s].order[k]) \in Nat
    BY <2>1, DiscountedNat
  <2>3. x \in Nat
    BY <2>2, <1>2
  <2>4. k + 1 \in 1 .. N + 1
    BY <1>1, BoundsAssumption DEF Items
  <2>. QED  BY <2>3, <2>4
<1>5. l \in LocalRecord /\ l.goods = local[s].goods /\ l.cash = local[s].cash
      /\ l.order = local[s].order /\ l.job = local[s].job
  <2>. HIDE DEF x
  <2>. QED  BY <1>2, <1>4 DEF LocalRecord
<1>6. LocalOK(l)
  BY <1>2, <1>5 DEF LocalOK
<1>7. Stage("bill", l, balance[s])
  BY <1>2, <1>5 DEF Stage, Covered
<1>. QED  BY <1>1, <1>2, <1>6, <1>7, LocalFrame DEF PCs

(* The menu with all orders cleared. *)
LEMMA ForgetOK ==
  ASSUME SessionsOK, NEW s \in Sessions, local[s].job = "buy", balance[s] \in Nat,
         pc' = [pc EXCEPT ![s] = "menu"], local' = Forget(s), UNCHANGED balance
  PROVE  SessionsOK'
<1> DEFINE l == [local[s] EXCEPT !.order = NoOrder, !.k = 1, !.ordercost = 0]
<1>1. local' = [local EXCEPT ![s] = l]
  BY DEF Forget, SessionsOK
<1>2. local[s] \in LocalRecord /\ GoodsOK(local[s].goods) /\ CashOK(local[s].cash)
  BY Here
<1>3. NoOrder \in [Items -> Nat] /\ 1 \in 1 .. N + 1
  BY BoundsAssumption DEF NoOrder
<1>4. l \in LocalRecord /\ l.goods = local[s].goods /\ l.cash = local[s].cash
      /\ l.order = NoOrder /\ l.job = "buy"
  BY <1>2, <1>3 DEF LocalRecord
<1>5. LocalOK(l)
  BY <1>2, <1>4 DEF LocalOK
<1>6. Covered(l, 1)
  BY <1>2, <1>4 DEF Covered, NoOrder, GoodsOK
<1>7. Stage("menu", l, balance[s])
  BY <1>4, <1>6 DEF Stage
<1>. QED  BY <1>1, <1>5, <1>7, LocalFrame DEF PCs

LEMMA RefuseOK ==
  ASSUME IInv, NEW s \in Sessions, Refuse(s)
  PROVE  SessionsOK'
<1>1. SessionsOK /\ Stage("bill", local[s], balance[s])
  BY Here DEF IInv, Refuse, Goto
<1>2. local[s].job = "buy" /\ balance[s] \in Nat
  BY <1>1 DEF Stage
<1>. QED  BY <1>1, <1>2, ForgetOK DEF Refuse, Goto

LEMMA PayOK ==
  ASSUME IInv, NEW s \in Sessions, Pay(s)
  PROVE  SessionsOK'
<1> DEFINE cost == local[s].ordercost
           c == CashIn(local[s].cash, cost)
           b == balance[s] - cost
           l == [local[s] EXCEPT !.cash = c, !.k = 1]
<1>1. /\ local' = [local EXCEPT ![s] = l] /\ pc' = [pc EXCEPT ![s] = "openCash"]
      /\ balance' = [balance EXCEPT ![s] = b]
      /\ pc[s] = "bill" /\ cost <= balance[s]
  BY DEF Pay, Goto
<1>2. /\ SessionsOK /\ local[s] \in LocalRecord /\ GoodsOK(local[s].goods)
      /\ CashOK(local[s].cash) /\ cost \in Nat
      /\ Stage("bill", local[s], balance[s]) /\ balance[s] \in Nat
  BY <1>1, Here DEF IInv, Stage
<1>3. CashOK(c) /\ c \in CashRecord
  BY <1>2, CashInOK DEF CashOK
<1>4. l \in LocalRecord /\ l.goods = local[s].goods /\ l.cash = c
      /\ l.order = local[s].order /\ l.job = local[s].job /\ l.k = 1
  <2>1. 1 \in 1 .. N + 1
    BY BoundsAssumption
  <2>. HIDE DEF c
  <2>. QED  BY <2>1, <1>2, <1>3 DEF LocalRecord
<1>5. LocalOK(l)
  BY <1>2, <1>3, <1>4 DEF LocalOK
<1>6. b \in Nat
  BY <1>1, <1>2
<1>7. Stage("openCash", l, b)
  <2>. HIDE DEF b, l
  <2>. QED  BY <1>2, <1>4, <1>6, BoundsAssumption DEF Stage, Covered, Items
<1>. QED  BY <1>1, <1>2, <1>5, <1>6, <1>7, Frame DEF PCs

LEMMA OpenCashOK ==
  ASSUME IInv, NEW s \in Sessions, OpenCash(s)
  PROVE  SessionsOK'
<1>1. SessionsOK /\ Stage("openCash", local[s], balance[s])
  BY Here DEF IInv, OpenCash, Pass, Goto
<1>2. Stage("fillCash", local[s], balance[s])
  BY <1>1 DEF Stage
<1>. QED  BY <1>1, <1>2, PassFrame DEF OpenCash, PCs

LEMMA FillCashOK ==
  ASSUME IInv, NEW s \in Sessions, FillCash(s)
  PROVE  SessionsOK'
<1>1. SessionsOK /\ Stage("fillCash", local[s], balance[s])
  BY Here DEF IInv, FillCash, Pass, Goto
<1>2. CASE local[s].job = "buy"
  <2>1. Stage("readCash", local[s], balance[s])
    BY <1>1, <1>2 DEF Stage
  <2>2. Pass(s, "fillCash", "readCash") /\ UNCHANGED balance
    BY <1>2 DEF FillCash
  <2>. QED  BY <1>1, <2>1, <2>2, PassFrame DEF PCs
<1>3. CASE local[s].job # "buy"
  <2>1. Pass(s, "fillCash", "home") /\ UNCHANGED balance
    BY <1>3 DEF FillCash
  <2>. QED  BY <1>1, <2>1, PassFrame DEF PCs
<1>. QED  BY <1>2, <1>3

LEMMA ReadCashOK ==
  ASSUME IInv, NEW s \in Sessions, ReadCash(s)
  PROVE  SessionsOK'
<1> DEFINE l == [local[s] EXCEPT !.cash = cashFile]
<1>1. /\ local' = [local EXCEPT ![s] = l] /\ pc' = [pc EXCEPT ![s] = "items"]
      /\ UNCHANGED balance /\ pc[s] = "readCash" /\ cashFile # Empty
  BY DEF ReadCash, Goto
<1>2. CashOK(cashFile) /\ cashFile \in CashRecord
  BY <1>1 DEF IInv, FilesOK, CashOK
<1>3. SessionsOK /\ local[s] \in LocalRecord /\ GoodsOK(local[s].goods)
      /\ Stage("readCash", local[s], balance[s])
  BY <1>1, Here DEF IInv
<1>4. l \in LocalRecord /\ l.goods = local[s].goods /\ l.cash = cashFile
      /\ l.order = local[s].order /\ l.job = local[s].job /\ l.k = local[s].k
  BY <1>2, <1>3 DEF LocalRecord
<1>5. LocalOK(l)
  BY <1>2, <1>3, <1>4 DEF LocalOK
<1>6. Stage("items", l, balance[s])
  BY <1>3, <1>4 DEF Stage, Covered
<1>. QED  BY <1>1, <1>3, <1>5, <1>6, LocalFrame DEF PCs

(* What is sold was covered, so that no less than nothing is left. *)
LEMMA SellOK ==
  ASSUME IInv, NEW s \in Sessions, Sell(s)
  PROVE  SessionsOK'
<1> DEFINE k == local[s].k
           g == [local[s].goods EXCEPT ![k].stock = Left(s)]
           l == [local[s] EXCEPT !.goods = g, !.k = k + 1]
<1>1. /\ local' = [local EXCEPT ![s] = l] /\ pc' = [pc EXCEPT ![s] = "items"]
      /\ UNCHANGED balance /\ pc[s] = "items" /\ k \in Items
  BY DEF Sell, IInv, SessionsOK
<1>2. /\ SessionsOK /\ local[s] \in LocalRecord /\ GoodsOK(local[s].goods)
      /\ CashOK(local[s].cash) /\ local[s].order \in [Items -> Nat]
      /\ Stage("items", local[s], balance[s])
  BY <1>1, Here DEF IInv
<1>3. Left(s) \in Nat
  <2>1. local[s].goods[k] \in GoodsRecord /\ local[s].order[k] \in Nat
    BY <1>1, <1>2 DEF GoodsOK, Stock
  <2>2. k >= k
    BY <1>1 DEF Items
  <2>3. Covered(local[s], k)
    BY <1>2 DEF Stage
  <2>4. local[s].order[k] <= local[s].goods[k].stock
    BY <1>1, <2>2, <2>3 DEF Covered
  <2>. QED  BY <2>1, <2>4 DEF Left, GoodsRecord
<1>4. GoodsOK(g) /\ g \in Stock /\ k + 1 \in 1 .. N + 1
  <2>1. GoodsOK(g)
    BY <1>1, <1>2, <1>3, RestockOK
  <2>2. k + 1 \in 1 .. N + 1
    BY <1>1, BoundsAssumption DEF Items
  <2>. QED  BY <2>1, <2>2 DEF GoodsOK
<1>5. /\ l \in LocalRecord /\ l.goods = g /\ l.cash = local[s].cash
      /\ l.order = local[s].order /\ l.job = local[s].job /\ l.k = k + 1
  <2>. HIDE DEF g
  <2>. QED  BY <1>2, <1>4 DEF LocalRecord
<1>6. LocalOK(l)
  BY <1>2, <1>4, <1>5 DEF LocalOK
<1>7. Covered(l, k + 1)
  <2>1. \A i \in Items : i # k => g[i] = local[s].goods[i]
    BY <1>2 DEF GoodsOK, Stock
  <2>2. \A i \in Items : i >= k + 1 => i >= k /\ i # k
    BY <1>1 DEF Items
  <2>. HIDE DEF g
  <2>. QED  BY <2>1, <2>2, <1>2, <1>5 DEF Covered, Stage
<1>8. Stage("items", l, balance[s])
  <2>. HIDE DEF l
  <2>. QED  BY <1>2, <1>5, <1>7 DEF Stage
<1>. QED  BY <1>1, <1>2, <1>6, <1>8, LocalFrame DEF PCs

LEMMA SellAndReorderOK ==
  ASSUME IInv, NEW s \in Sessions, SellAndReorder(s)
  PROVE  SessionsOK'
<1> DEFINE k == local[s].k
           x == Left(s) + local[s].goods[k].amount
           g == [local[s].goods EXCEPT ![k].stock = x]
           c == CashOut(local[s].cash, Price(s))
           l == [local[s] EXCEPT !.goods = g, !.cash = c, !.k = k + 1]
<1>1. /\ local' = [local EXCEPT ![s] = l] /\ pc' = [pc EXCEPT ![s] = "openCash"]
      /\ UNCHANGED balance /\ pc[s] = "items" /\ k \in Items
      /\ Price(s) <= local[s].cash.finl
  BY DEF SellAndReorder, Goto, Reorder
<1>2. /\ SessionsOK /\ local[s] \in LocalRecord /\ GoodsOK(local[s].goods)
      /\ CashOK(local[s].cash) /\ local[s].order \in [Items -> Nat]
      /\ Stage("items", local[s], balance[s])
  BY <1>1, Here DEF IInv
<1>3. Left(s) \in Nat /\ local[s].goods[k].amount \in Nat /\ local[s].goods[k].cost \in Nat
  <2>1. local[s].goods[k] \in GoodsRecord /\ local[s].order[k] \in Nat
    BY <1>1, <1>2 DEF GoodsOK, Stock
  <2>2. k >= k
    BY <1>1 DEF Items
  <2>3. Covered(local[s], k)
    BY <1>2 DEF Stage
  <2>4. local[s].order[k] <= local[s].goods[k].stock
    BY <1>1, <2>2, <2>3 DEF Covered
  <2>. QED  BY <2>1, <2>4 DEF Left, GoodsRecord
<1>4. x \in Nat /\ Price(s) \in Nat
  BY <1>3, NatProduct DEF Price
<1>5. GoodsOK(g) /\ g \in Stock /\ CashOK(c) /\ c \in CashRecord /\ k + 1 \in 1 .. N + 1
  <2>1. GoodsOK(g)
    <3>. HIDE DEF x
    <3>. QED  BY <1>1, <1>2, <1>4, RestockOK
  <2>2. CashOK(c)
    BY <1>1, <1>2, <1>4, CashOutOK
  <2>3. k + 1 \in 1 .. N + 1
    BY <1>1, BoundsAssumption DEF Items
  <2>. QED  BY <2>1, <2>2, <2>3 DEF GoodsOK, CashOK
<1>6. /\ l \in LocalRecord /\ l.goods = g /\ l.cash = c
      /\ l.order = local[s].order /\ l.job = local[s].job /\ l.k = k + 1
  <2>. HIDE DEF g, c
  <2>. QED  BY <1>2, <1>5 DEF LocalRecord
<1>7. LocalOK(l)
  BY <1>5, <1>6 DEF LocalOK
<1>8. Covered(l, k + 1)
  <2>1. \A i \in Items : i # k => g[i] = local[s].goods[i]
    BY <1>2 DEF GoodsOK, Stock
  <2>2. \A i \in Items : i >= k + 1 => i >= k /\ i # k
    BY <1>1 DEF Items
  <2>. HIDE DEF g
  <2>. QED  BY <2>1, <2>2, <1>2, <1>6 DEF Covered, Stage
<1>9. Stage("openCash", l, balance[s])
  <2>. HIDE DEF l
  <2>. QED  BY <1>2, <1>6, <1>8 DEF Stage
<1>. QED  BY <1>1, <1>2, <1>7, <1>9, LocalFrame DEF PCs

LEMMA CopyBalanceOK ==
  ASSUME IInv, NEW s \in Sessions, CopyBalance(s)
  PROVE  SessionsOK'
<1> DEFINE l == [local[s] EXCEPT !.target = user[s]]
<1>1. /\ local' = [local EXCEPT ![s] = l] /\ pc' = [pc EXCEPT ![s] = "remove"]
      /\ UNCHANGED balance /\ pc[s] = "items"
  BY DEF CopyBalance, Goto
<1>2. /\ SessionsOK /\ local[s] \in LocalRecord /\ GoodsOK(local[s].goods)
      /\ CashOK(local[s].cash) /\ Stage("items", local[s], balance[s])
  BY <1>1, Here DEF IInv
<1>3. l \in LocalRecord /\ l.goods = local[s].goods /\ l.cash = local[s].cash
      /\ l.order = local[s].order /\ l.job = local[s].job /\ l.k = local[s].k
  BY <1>2, PeopleAssumption DEF LocalRecord
<1>4. LocalOK(l)
  BY <1>2, <1>3 DEF LocalOK
<1>5. Stage("remove", l, balance[s])
  BY <1>2, <1>3 DEF Stage
<1>. QED  BY <1>1, <1>2, <1>4, <1>5, LocalFrame DEF PCs

(* The steps that only move on. *)
LEMMA PassOK ==
  ASSUME IInv, NEW s \in Sessions,
         \/ NoAccounts(s) \/ Confirm(s) \/ CopyFails(s) \/ Remove(s)
         \/ OpenGoods(s) \/ Back(s) \/ LeaveStock(s) \/ PressKey(s)
         \/ \E q \in 1 .. MaxQuantity : OrderRefused(s, q)
  PROVE  SessionsOK'
<1>1. SessionsOK /\ Stage(pc[s], local[s], balance[s])
  BY Here DEF IInv
<1>2. CASE NoAccounts(s)
  <2>1. Stage("stuck", local[s], balance[s])
    BY <1>1, <1>2 DEF Stage, NoAccounts, Pass, Goto
  <2>. QED  BY <1>1, <1>2, <2>1, PassFrame DEF NoAccounts, PCs
<1>3. CASE Confirm(s)
  <2>1. Stage("bill", local[s], balance[s])
    BY <1>1, <1>3 DEF Stage, Confirm, Pass, Goto
  <2>. QED  BY <1>1, <1>3, <2>1, PassFrame DEF Confirm, PCs
<1>4. CASE CopyFails(s)
  <2>1. Stage("openGoods", local[s], balance[s])
    BY <1>1, <1>4 DEF Stage, CopyFails, Pass, Goto
  <2>. QED  BY <1>1, <1>4, <2>1, PassFrame DEF CopyFails, PCs
<1>5. CASE Remove(s)
  <2>1. Stage("rename", local[s], balance[s])
    BY <1>1, <1>5 DEF Stage, Remove, Pass, Goto
  <2>. QED  BY <1>1, <1>5, <2>1, PassFrame DEF Remove, PCs
<1>6. CASE OpenGoods(s)
  <2>1. Stage("fillGoods", local[s], balance[s])
    BY <1>1, <1>6 DEF Stage, OpenGoods, Pass, Goto
  <2>. QED  BY <1>1, <1>6, <2>1, PassFrame DEF OpenGoods, PCs
<1>7. CASE Back(s) \/ LeaveStock(s) \/ PressKey(s)
           \/ \E q \in 1 .. MaxQuantity : OrderRefused(s, q)
  <2>1. PICK from \in PCs : Pass(s, from, "home") /\ UNCHANGED balance
    BY <1>7 DEF Back, LeaveStock, PressKey, OrderRefused, PCs
  <2>. QED  BY <1>1, <2>1, PassFrame DEF PCs
<1>. QED  BY <1>2, <1>3, <1>4, <1>5, <1>6, <1>7

LEMMA RenameOK ==
  ASSUME IInv, NEW s \in Sessions, Rename(s)
  PROVE  SessionsOK'
<1>1. SessionsOK /\ Stage("rename", local[s], balance[s])
  BY Here DEF IInv, Rename, Pass, Goto
<1>2. CASE local[s].job = "buy"
  <2>1. Stage("openGoods", local[s], balance[s])
    BY <1>1, <1>2 DEF Stage
  <2>2. Pass(s, "rename", "openGoods") /\ UNCHANGED balance
    BY <1>2 DEF Rename
  <2>. QED  BY <1>1, <2>1, <2>2, PassFrame DEF PCs
<1>3. CASE local[s].job # "buy"
  <2>1. Pass(s, "rename", "home") /\ UNCHANGED balance
    BY <1>3 DEF Rename
  <2>. QED  BY <1>1, <2>1, PassFrame DEF PCs
<1>. QED  BY <1>2, <1>3

LEMMA FillGoodsOK ==
  ASSUME IInv, NEW s \in Sessions, FillGoods(s)
  PROVE  SessionsOK'
<1>1. SessionsOK /\ Stage("fillGoods", local[s], balance[s])
  BY Here DEF IInv, FillGoods
<1>2. CASE local[s].job = "buy"
  <2>1. balance[s] \in Nat
    BY <1>1, <1>2 DEF Stage
  <2>. QED  BY <1>1, <1>2, <2>1, ForgetOK DEF FillGoods, Goto
<1>3. CASE local[s].job = "order"
  <2>1. Stage("openCash", local[s], balance[s])
    BY <1>1, <1>3 DEF Stage
  <2>2. Pass(s, "fillGoods", "openCash") /\ UNCHANGED balance
    BY <1>3 DEF FillGoods
  <2>. QED  BY <1>1, <2>1, <2>2, PassFrame DEF PCs
<1>4. CASE local[s].job = "modify"
  <2>1. Pass(s, "fillGoods", "home") /\ UNCHANGED balance
    BY <1>4 DEF FillGoods
  <2>. QED  BY <1>1, <2>1, PassFrame DEF PCs
<1>. QED  BY <1>2, <1>3, <1>4 DEF FillGoods

LEMMA LoginLogoutOK ==
  ASSUME IInv, NEW s \in Sessions, Login(s) \/ Logout(s)
  PROVE  SessionsOK'
<1>1. SessionsOK /\ local[s] = NoLocal
  BY Here DEF IInv, Stage, Login, Logout, Goto
<1>2. PICK p \in {"home", "out"}, b \in Nat \cup {NoBalance} :
        pc' = [pc EXCEPT ![s] = p] /\ balance' = [balance EXCEPT ![s] = b]
  <2>1. CASE Login(s)
    <3>1. balance' = [balance EXCEPT ![s] = balance[s]] /\ balance[s] \in Nat \cup {NoBalance}
      BY <1>1, <2>1 DEF Login, SessionsOK
    <3>. QED  BY <2>1, <3>1 DEF Login, Goto
  <2>2. CASE Logout(s)
    <3>1. balance = [balance EXCEPT ![s] = balance[s]] /\ balance[s] \in Nat \cup {NoBalance}
      BY <1>1 DEF SessionsOK
    <3>. QED  BY <2>2, <3>1 DEF Logout, Goto
  <2>. QED  BY <2>1, <2>2
<1>3. local' = [local EXCEPT ![s] = NoLocal]
  BY <1>1 DEF Login, Logout, SessionsOK
<1>. QED  BY <1>1, <1>2, <1>3, NoLocalOK, HomeStage, Frame DEF PCs

LEMMA EditOK ==
  ASSUME IInv, NEW s \in Sessions, NEW j \in {"delete", "balance"}, NEW u \in Managed,
         NEW x, Edit(s, j, u, x)
  PROVE  SessionsOK'
<1> DEFINE l == [local[s] EXCEPT !.job = j, !.target = u]
<1>1. /\ local' = [local EXCEPT ![s] = l] /\ pc' = [pc EXCEPT ![s] = "remove"]
      /\ UNCHANGED balance
  BY DEF Edit, Begin, Goto
<1>2. /\ SessionsOK /\ local[s] \in LocalRecord /\ GoodsOK(local[s].goods)
      /\ CashOK(local[s].cash)
  BY Here DEF IInv
<1>3. l \in LocalRecord /\ l.goods = local[s].goods /\ l.cash = local[s].cash /\ l.job = j
  BY <1>2, PeopleAssumption DEF LocalRecord
<1>4. LocalOK(l)
  BY <1>2, <1>3 DEF LocalOK
<1>5. Stage("remove", l, balance[s])
  BY <1>3 DEF Stage
<1>. QED  BY <1>1, <1>2, <1>4, <1>5, LocalFrame DEF PCs

LEMMA EditFailsOK ==
  ASSUME IInv, NEW s \in Sessions, NEW j, NEW u, EditFails(s, j, u)
  PROVE  SessionsOK'
<1>1. SessionsOK /\ local[s] = NoLocal
  BY Here DEF IInv, Stage, EditFails, Begin, Goto
<1>2. PICK p \in {"key", "stuck"} : pc' = [pc EXCEPT ![s] = p]
  BY DEF EditFails, Begin, Goto
<1>3. local' = [local EXCEPT ![s] = NoLocal] /\ UNCHANGED balance
  BY <1>1 DEF EditFails, SessionsOK
<1>4. Stage(p, NoLocal, balance[s])
  BY DEF Stage, NoLocal
<1>. QED  BY <1>1, <1>2, <1>3, <1>4, NoLocalOK, LocalFrame DEF PCs

LEMMA ReadStockOK ==
  ASSUME IInv, NEW s \in Sessions, ReadStock(s)
  PROVE  SessionsOK'
<1> DEFINE l == [local[s] EXCEPT !.goods = goodsFile]
<1>1. /\ local' = [local EXCEPT ![s] = l] /\ pc' = [pc EXCEPT ![s] = "stock"]
      /\ UNCHANGED balance /\ pc[s] = "home" /\ goodsFile # Empty
  BY DEF ReadStock, Begin, Goto
<1>2. GoodsOK(goodsFile) /\ goodsFile \in Stock
  BY <1>1 DEF IInv, FilesOK, GoodsOK
<1>3. SessionsOK /\ local[s] = NoLocal /\ local[s] \in LocalRecord /\ CashOK(local[s].cash)
  BY <1>1, Here DEF IInv, Stage
<1>4. l \in LocalRecord /\ l.goods = goodsFile /\ l.cash = local[s].cash /\ l.job = "buy"
  BY <1>2, <1>3 DEF LocalRecord, NoLocal
<1>5. LocalOK(l)
  BY <1>2, <1>3, <1>4 DEF LocalOK
<1>6. Stage("stock", l, balance[s])
  BY <1>4 DEF Stage
<1>. QED  BY <1>1, <1>3, <1>5, <1>6, LocalFrame DEF PCs

LEMMA NameOrderedOK ==
  ASSUME IInv, NEW s \in Sessions, NEW i \in Items, NameOrdered(s, i)
  PROVE  SessionsOK'
<1> DEFINE l == [local[s] EXCEPT !.job = "order", !.cash = cashFile, !.k = i]
<1>1. /\ local' = [local EXCEPT ![s] = l] /\ pc' = [pc EXCEPT ![s] = "quantity"]
      /\ UNCHANGED balance /\ cashFile # Empty
  BY DEF NameOrdered, Goto
<1>2. CashOK(cashFile) /\ cashFile \in CashRecord
  BY <1>1 DEF IInv, FilesOK, CashOK
<1>3. SessionsOK /\ local[s] \in LocalRecord /\ GoodsOK(local[s].goods)
  BY Here DEF IInv
<1>4. i \in 1 .. N + 1
  BY BoundsAssumption DEF Items
<1>5. l \in LocalRecord /\ l.goods = local[s].goods /\ l.cash = cashFile
      /\ l.job = "order" /\ l.k = i
  BY <1>2, <1>3, <1>4 DEF LocalRecord
<1>6. LocalOK(l)
  BY <1>2, <1>3, <1>5 DEF LocalOK
<1>7. Stage("quantity", l, balance[s])
  BY <1>5 DEF Stage
<1>. QED  BY <1>1, <1>3, <1>6, <1>7, LocalFrame DEF PCs

LEMMA OrderOK ==
  ASSUME IInv, NEW s \in Sessions, NEW q \in 1 .. MaxQuantity, Order(s, q)
  PROVE  SessionsOK'
<1> DEFINE k == local[s].k
           price == q * local[s].goods[k].cost
           x == local[s].goods[k].stock + q
           g == [local[s].goods EXCEPT ![k].stock = x]
           c == CashOut(local[s].cash, price)
           l == [local[s] EXCEPT !.goods = g, !.cash = c]
<1>1. /\ local' = [local EXCEPT ![s] = l] /\ pc' = [pc EXCEPT ![s] = "openGoods"]
      /\ UNCHANGED balance /\ pc[s] = "quantity" /\ price <= local[s].cash.finl
  BY DEF Order, Goto
<1>2. /\ SessionsOK /\ local[s] \in LocalRecord /\ GoodsOK(local[s].goods)
      /\ CashOK(local[s].cash) /\ local[s].job = "order" /\ k \in Items
  BY <1>1, Here DEF IInv, Stage
<1>3. local[s].goods[k] \in GoodsRecord /\ local[s].goods[k].stock >= 0 /\ q \in Nat
  BY <1>2, BoundsAssumption DEF GoodsOK, Stock
<1>4. x \in Nat /\ price \in Nat
  <2>1. local[s].goods[k].cost \in Nat /\ local[s].goods[k].stock \in Int
    BY <1>3 DEF GoodsRecord
  <2>2. price \in Nat
    BY <2>1, <1>3, NatProduct
  <2>. QED  BY <2>1, <2>2, <1>3
<1>5. GoodsOK(g) /\ g \in Stock /\ CashOK(c) /\ c \in CashRecord
  <2>1. GoodsOK(g)
    <3>. HIDE DEF x
    <3>. QED  BY <1>2, <1>4, RestockOK
  <2>2. CashOK(c)
    <3>. HIDE DEF price
    <3>. QED  BY <1>1, <1>2, <1>4, CashOutOK
  <2>. QED  BY <2>1, <2>2 DEF GoodsOK, CashOK
<1>6. l \in LocalRecord /\ l.goods = g /\ l.cash = c /\ l.job = "order"
  <2>. HIDE DEF g, c
  <2>. QED  BY <1>2, <1>5 DEF LocalRecord
<1>7. LocalOK(l)
  BY <1>5, <1>6 DEF LocalOK
<1>8. Stage("openGoods", l, balance[s])
  <2>. HIDE DEF l
  <2>. QED  BY <1>6 DEF Stage
<1>. QED  BY <1>1, <1>2, <1>7, <1>8, LocalFrame DEF PCs

LEMMA ModifyOK ==
  ASSUME IInv, NEW s \in Sessions, NEW i \in Items, NEW t \in NewTerms, Modify(s, i, t)
  PROVE  SessionsOK'
<1> DEFINE g == [local[s].goods EXCEPT ![i] =
                  [@ EXCEPT !.price = t.price, !.level = t.level, !.amount = t.amount]]
           l == [local[s] EXCEPT !.job = "modify", !.k = i, !.goods = g]
<1>1. /\ local' = [local EXCEPT ![s] = l] /\ pc' = [pc EXCEPT ![s] = "openGoods"]
      /\ UNCHANGED balance
  BY DEF Modify, Goto
<1>2. /\ SessionsOK /\ local[s] \in LocalRecord /\ GoodsOK(local[s].goods)
      /\ CashOK(local[s].cash)
  BY Here DEF IInv
<1>3. GoodsOK(g) /\ g \in Stock /\ i \in 1 .. N + 1
  <2>1. GoodsOK(g)
    BY <1>2, InputAssumption, TermsOK
  <2>. QED  BY <2>1, BoundsAssumption DEF GoodsOK, Items
<1>4. l \in LocalRecord /\ l.goods = g /\ l.cash = local[s].cash
      /\ l.job = "modify" /\ l.k = i
  <2>. HIDE DEF g
  <2>. QED  BY <1>2, <1>3 DEF LocalRecord
<1>5. LocalOK(l)
  BY <1>2, <1>3, <1>4 DEF LocalOK
<1>6. Stage("openGoods", l, balance[s])
  <2>. HIDE DEF l
  <2>. QED  BY <1>4 DEF Stage
<1>. QED  BY <1>1, <1>2, <1>5, <1>6, LocalFrame DEF PCs

-----------------------------------------------------------------------------
(* Every step keeps the sessions' part of the invariant ...                  *)
LEMMA SessionsStep ==
  ASSUME IInv, [Next]_vars
  PROVE  SessionsOK'
<1>1. ASSUME NEW s \in Sessions, Proceed(s) PROVE SessionsOK'
  BY <1>1, InitBalanceOK, InitCashOK, BillOK, RefuseOK, PayOK, OpenCashOK, FillCashOK,
     ReadCashOK, SellOK, SellAndReorderOK, CopyBalanceOK, PassOK, RenameOK, FillGoodsOK
     DEF Proceed
<1>2. ASSUME NEW s \in Sessions, Request(s) PROVE SessionsOK'
  <2>1. CASE Login(s) \/ Logout(s)
    BY <2>1, LoginLogoutOK
  <2>2. CASE InitGoods(s) \/ ReadStock(s)
    BY <2>2, InitGoodsOK, ReadStockOK
  <2>3. CASE \E i \in Items, q \in 1 .. MaxQuantity : Add(s, i, q)
    BY <2>3, AddOK
  <2>4. CASE Confirm(s) \/ Back(s) \/ LeaveStock(s) \/ PressKey(s)
             \/ \E q \in 1 .. MaxQuantity : OrderRefused(s, q)
    BY <2>4, PassOK
  <2>5. CASE \E u \in Managed : Delete(s, u) \/ SetBalance(s, u)
    BY <2>5, EditOK DEF Delete, SetBalance
  <2>6. CASE \E u \in Managed, j \in {"delete", "balance"} : EditFails(s, j, u)
    BY <2>6, EditFailsOK
  <2>7. CASE \E i \in Items : NameOrdered(s, i)
    BY <2>7, NameOrderedOK
  <2>8. CASE \E i \in Items, t \in NewTerms : Modify(s, i, t)
    BY <2>8, ModifyOK
  <2>9. CASE \E q \in 1 .. MaxQuantity : Order(s, q)
    BY <2>9, OrderOK
  <2>10. CASE SignUp(s)
    BY <2>10, UnchangedFrame DEF IInv, SignUp
  <2>. QED  BY <1>2, <2>1, <2>2, <2>3, <2>4, <2>5, <2>6, <2>7, <2>8, <2>9, <2>10 DEF Request
<1>3. CASE Restart
  BY <1>3, RestartOK DEF IInv
<1>4. CASE UNCHANGED vars
  BY <1>4, UnchangedFrame DEF IInv, vars
<1>. QED  BY <1>1, <1>2, <1>3, <1>4 DEF Next, Throws, Killed

(* ... and the files': what is written comes from a session.                 *)
LEMMA ChangedOK ==
  ASSUME IInv, NEW f \in Files, acct[f] # Missing, NEW u \in Users,
         NEW x \in Nat \cup {NoRecord}
  PROVE  AccountsOK(Changed(f, u, x))
<1>1. acct[f] \in [Users -> Nat \cup {NoRecord}]
  BY DEF IInv, FilesOK
<1>. QED  BY <1>1 DEF Changed, AccountsOK

LEMMA WithRecordOK ==
  ASSUME FilesOK, NEW f \in Files, NEW u \in Users
  PROVE  WithRecord(f, u) \in [Users -> Nat \cup {NoRecord}]
<1> DEFINE T == Nat \cup {NoRecord}
           old == IF acct[f] = Missing THEN NoRecords ELSE acct[f]
           x == IF old[u] = NoRecord THEN 0 ELSE old[u]
<1>1. old \in [Users -> T]
  <2>1. NoRecords \in [Users -> T]
    BY DEF NoRecords
  <2>2. acct[f] \in [Users -> T] \cup {Missing}
    BY DEF FilesOK
  <2>. QED  BY <2>1, <2>2
<1>2. x \in T
  <2>1. old[u] \in T
    BY <1>1
  <2>. QED  BY <2>1
<1>3. WithRecord(f, u) = [old EXCEPT ![u] = x]
  BY DEF WithRecord
<1>4. [old EXCEPT ![u] = x] \in [Users -> T]
  <2>. HIDE DEF old, x, T
  <2>. QED  BY <1>1, <1>2
<1>. QED  BY <1>3, <1>4

LEMMA FilesStep ==
  ASSUME IInv, [Next]_vars
  PROVE  FilesOK'
<1>. USE DEF FilesOK
<1>1. FilesOK
  BY DEF IInv
<1>2. CASE UNCHANGED fileVars
  BY <1>1, <1>2 DEF fileVars
<1>3. ASSUME NEW s \in Sessions, FillCash(s) PROVE FilesOK'
  <2>1. CashOK(FmtCash(local[s].cash))
    BY Here, FmtCashOK DEF IInv
  <2>. QED  BY <1>1, <1>3, <2>1 DEF FillCash, accountVars
<1>4. ASSUME NEW s \in Sessions, FillGoods(s) PROVE FilesOK'
  <2>1. GoodsOK(FmtGoods(local[s].goods))
    BY Here, FmtGoodsOK DEF IInv
  <2>. QED  BY <1>1, <1>4, <2>1 DEF FillGoods, accountVars
<1>5. ASSUME NEW s \in Sessions, OpenCash(s) \/ OpenGoods(s) PROVE FilesOK'
  BY <1>1, <1>5 DEF OpenCash, OpenGoods, accountVars
<1>6. ASSUME NEW s \in Sessions, CopyBalance(s) PROVE FilesOK'
  <2>1. balance[s] \in Nat
    BY <1>6, Here DEF IInv, Stage, CopyBalance, Goto
  <2>2. Home(s) \in Files /\ user[s] \in Users
    BY PeopleAssumption DEF Home
  <2>3. AccountsOK(Changed(Home(s), user[s], Fmt(balance[s])))
    BY <1>6, <2>1, <2>2, FmtNat, ChangedOK DEF CopyBalance
  <2>. QED  BY <1>1, <1>6, <2>3 DEF CopyBalance
<1>7. ASSUME NEW s \in Sessions, NEW j, NEW u, CopyFails(s) \/ EditFails(s, j, u)
      PROVE  FilesOK'
  BY <1>1, <1>7 DEF CopyFails, EditFails, NoRecords, AccountsOK
<1>8. ASSUME NEW s \in Sessions, Remove(s) PROVE FilesOK'
  BY <1>1, <1>8 DEF Remove
<1>9. ASSUME NEW s \in Sessions, Rename(s) PROVE FilesOK'
  BY <1>1, <1>9 DEF Rename, AccountsOK, accountVars
<1>10. ASSUME NEW s \in Sessions, NEW j, NEW u \in Managed, NEW x \in Nat \cup {NoRecord},
              Edit(s, j, u, x)
       PROVE  FilesOK'
  <2>1. FileOf[u] \in Files /\ u \in Users
    BY PeopleAssumption
  <2>2. AccountsOK(Changed(FileOf[u], u, x))
    BY <1>10, <2>1, ChangedOK DEF Edit
  <2>. QED  BY <1>1, <1>10, <2>2 DEF Edit
<1>11. ASSUME NEW s \in Sessions, Proceed(s) PROVE FilesOK'
  BY <1>11, <1>2, <1>3, <1>4, <1>5, <1>6, <1>7, <1>8, <1>9
     DEF Proceed, InitBalance, NoAccounts, InitCash, Bill, Refuse, Pay, ReadCash,
         Sell, SellAndReorder
<1>12. ASSUME NEW s \in Sessions, Request(s) PROVE FilesOK'
  <2>1. CASE \E u \in Managed : Delete(s, u) \/ SetBalance(s, u)
    BY <2>1, <1>10, InputAssumption DEF Delete, SetBalance
  <2>2. CASE \E u \in Managed, j \in {"delete", "balance"} : EditFails(s, j, u)
    BY <2>2, <1>7
  <2>3. CASE SignUp(s)
    <3>1. Home(s) \in Files /\ user[s] \in Users
      BY PeopleAssumption DEF Home
    <3>2. WithRecord(Home(s), user[s]) \in [Users -> Nat \cup {NoRecord}]
      BY <1>1, <3>1, WithRecordOK
    <3>. QED  BY <1>1, <2>3, <3>2 DEF SignUp
  <2>. QED  BY <1>12, <1>2, <2>1, <2>2, <2>3
            DEF Request, Login, Logout, InitGoods, Add, Confirm, Back, ReadStock,
                LeaveStock, PressKey, NameOrdered, Modify, Order, OrderRefused
<1>13. CASE Restart
  BY <1>13, RestartOK DEF IInv
<1>. QED  BY <1>2, <1>11, <1>12, <1>13 DEF Next, Throws, Killed, vars

LEMMA HistoryStep ==
  ASSUME IInv, [Next]_vars
  PROVE  HistoryOK'
<1>. USE DEF HistoryOK
<1>1. HistoryOK
  BY DEF IInv
<1>2. CASE UNCHANGED <<historyVars, counters>>
  BY <1>1, <1>2 DEF historyVars, counters
<1>3. ASSUME NEW s \in Sessions, Pay(s) PROVE HistoryOK'
  <2>1. local[s].ordercost \in Nat
    BY Here DEF IInv
  <2>2. bill[user[s]] \in Nat
    BY <1>1, PeopleAssumption
  <2>3. bill' = [bill EXCEPT ![user[s]] = bill[user[s]] + local[s].ordercost]
    BY <1>3 DEF Pay
  <2>4. bill' \in [Users -> Nat]
    <3>1. bill[user[s]] + local[s].ordercost \in Nat
      BY <2>1, <2>2
    <3>. QED  BY <1>1, <2>3, <3>1
  <2>5. UNCHANGED <<listed, banned, registered, jobs, crashes>>
    BY <1>3 DEF Pay, counters
  <2>. QED  BY <1>1, <2>4, <2>5
<1>4. ASSUME NEW s \in Sessions, Rename(s) PROVE HistoryOK'
  <2>1. local[s].target \in Users
    BY Here DEF IInv
  <2>. QED  BY <1>1, <1>4, <2>1 DEF Rename, counters
<1>5. ASSUME NEW s \in Sessions, FillGoods(s) PROVE HistoryOK'
  <2>1. CASE UNCHANGED listed
    BY <1>1, <1>5, <2>1 DEF FillGoods, counters
  <2>2. CASE local[s].job = "modify" /\ listed' =
               [listed EXCEPT ![local[s].k] = goodsFile'[local[s].k].price]
    <3>1. local[s].k \in Items
      BY <2>2, Here DEF IInv, Stage
    <3>2. GoodsOK(goodsFile')
      BY <1>5, Here, FmtGoodsOK DEF IInv, FillGoods
    <3>3. goodsFile'[local[s].k].price \in Nat
      BY <3>1, <3>2 DEF GoodsOK, Stock, GoodsRecord
    <3>. QED  BY <1>1, <1>5, <2>2, <3>3 DEF FillGoods, counters
  <2>. QED  BY <1>5, <2>1, <2>2 DEF FillGoods
<1>6. ASSUME jobs < MaxJobs, jobs' = jobs + 1, UNCHANGED <<historyVars, crashes>>
      PROVE  HistoryOK'
  BY <1>1, <1>6, BoundsAssumption DEF historyVars
<1>7. ASSUME NEW s \in Sessions, Proceed(s) PROVE HistoryOK'
  BY <1>7, <1>2, <1>3, <1>4, <1>5
     DEF Proceed, InitBalance, NoAccounts, InitCash, Bill, Refuse, OpenCash, FillCash,
         ReadCash, Sell, SellAndReorder, CopyBalance, CopyFails, Remove, OpenGoods
<1>8. ASSUME NEW s \in Sessions, Request(s) PROVE HistoryOK'
  <2>1. CASE SignUp(s)
    <3>1. user[s] \in Users
      BY PeopleAssumption
    <3>. QED  BY <1>1, <2>1, <3>1 DEF SignUp, counters
  <2>. QED  BY <1>8, <1>2, <1>6, <2>1
     DEF Request, Login, Logout, InitGoods, Add, Confirm, Back, Delete, SetBalance, Edit,
         EditFails, AdminJob, ReadStock, LeaveStock, PressKey, NameOrdered, Modify, Order,
         OrderRefused
<1>9. CASE Restart
  BY <1>9, RestartOK DEF IInv
<1>. QED  BY <1>2, <1>7, <1>8, <1>9 DEF Next, Throws, Killed, vars

LEMMA Invariance == Spec => []IInv
<1>1. Init => IInv
  BY InitOK
<1>2. IInv /\ [Next]_vars => IInv'
  BY SessionsStep, FilesStep, HistoryStep DEF IInv
<1>. QED  BY <1>1, <1>2, PTL DEF Spec

-----------------------------------------------------------------------------
(* Files, copies and history have their types in every interleaving, with    *)
(* any crashes: no operation reads or writes what its reader cannot parse,   *)
(* truncated files (which the readers throw on) apart.                       *)
THEOREM TypeCorrect == Spec => []TypeOK
<1>1. IInv => TypeOK
  <2>. SUFFICES ASSUME IInv PROVE TypeOK
    OBVIOUS
  <2>1. goodsFile \in Stock \cup {Empty} /\ cashFile \in CashRecord \cup {Empty}
    BY DEF IInv, FilesOK, GoodsOK, CashOK
  <2>2. acct \in [Files -> Accounts \cup {Missing}] /\ tmp \in Accounts \cup {Missing}
    <3>1. \A a \in [Users -> Nat \cup {NoRecord}] : a \in Accounts
      BY DEF Accounts
    <3>. QED  BY <3>1 DEF IInv, FilesOK, AccountsOK
  <2>3. balance \in [Sessions -> Int \cup {NoBalance}]
    BY DEF IInv, SessionsOK
  <2>. QED  BY <2>1, <2>2, <2>3 DEF TypeOK, IInv, SessionsOK, HistoryOK, PCs
<1>. QED  BY <1>1, Invariance, PTL

(* No stock, balance or final cash is ever below zero, on file or in any     *)
(* session, however stale the session's copies are (buy, reorder, order).    *)
THEOREM NothingBelowZero == Spec => []NonNegative
<1>1. IInv => NonNegative
  <2>. SUFFICES ASSUME IInv PROVE NonNegative
    OBVIOUS
  <2>1. /\ goodsFile # Empty => \A i \in Items : goodsFile[i].stock >= 0
        /\ cashFile # Empty => cashFile.finl >= 0
    BY DEF IInv, FilesOK, GoodsOK, CashOK
  <2>2. \A f \in Files : acct[f] # Missing =>
          \A u \in Users : acct[f][u] # NoRecord => acct[f][u] >= 0
    <3>1. \A f \in Files : acct[f] # Missing => acct[f] \in [Users -> Nat \cup {NoRecord}]
      BY DEF IInv, FilesOK
    <3>. QED  BY <3>1
  <2>3. \A s \in Sessions :
          /\ \A i \in Items : local[s].goods[i].stock >= 0
          /\ local[s].cash.finl >= 0
          /\ balance[s] # NoBalance => balance[s] >= 0
    BY Here DEF IInv, GoodsOK, CashOK
  <2>. QED  BY <2>1, <2>2, <2>3 DEF NonNegative
<1>. QED  BY <1>1, Invariance, PTL

(* cash.txt adds up in every interleaving and after every crash, as long as  *)
(* its sums can be printed exactly (Cash::operator + and -, update_cash).    *)
THEOREM CashAddsUp == Spec => []BooksBalance
<1>1. IInv => BooksBalance
  BY DEF IInv, FilesOK, CashOK, BooksBalance
<1>. QED  BY <1>1, Invariance, PTL
=============================================================================
