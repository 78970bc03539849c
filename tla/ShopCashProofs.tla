--------------------------- MODULE ShopCashProofs ---------------------------
(***************************************************************************)
(* Proofs about module Shop when sessions are served one at a time: the     *)
(* sums.  Every order paid for reaches cash.txt; and, wherever the process  *)
(* ends, what left the balances has reached the income on file, and what    *)
(* left the stock is paid for: buy writes cash.txt, then the accounts file, *)
(* then goods.txt.  For every number of goods, users, files and sessions.   *)
(*                                                                          *)
(* A sum over a finite set is a fold of the community modules.  Its laws    *)
(* (TotalPlus, TotalMonotone, TotalChange...) are proved by well-founded    *)
(* induction over the subsets of the set.  The invariants relate three sums *)
(* (what was paid, what left the records, what the goods are worth) to the  *)
(* cash in the file and in the copy of the session at work.                 *)
(***************************************************************************)
EXTENDS ShopSerialProofs, FiniteSetTheorems

(* Sums.  MapThenSumSet adds up, over every subset of S, the element CHOOSE  *)
(* picks and the sum of the rest: sum[s] is the sum over s.                  *)
Pick(s) == CHOOSE x \in s : TRUE
Step(sum, f, s) == IF s = {} THEN 0 ELSE f[Pick(s)] + sum[s \ {Pick(s)}]

Total(f) == MapThenSumSet(LAMBDA x : f[x], DOMAIN f)

SumsUp(sum, f, S) == \A s \in SUBSET S : sum[s] = Step(sum, f, s)

(* What holds of {}, and of a set if it holds of the set without its pick,   *)
(* holds of a finite set.                                                    *)
Inductive(P, S) == \A s \in SUBSET S : s = {} \/ s \ {Pick(s)} \in P => s \in P

LEMMA SubsetInduction ==
  ASSUME NEW S, IsFiniteSet(S), NEW P, Inductive(P, S)
  PROVE  S \in P
<1>. SUFFICES ASSUME (SUBSET S) \ P # {} PROVE FALSE
  OBVIOUS
<1> DEFINE Bad == (SUBSET S) \ P
<1>1. Bad \subseteq FiniteSubsetsOf(S)
  BY FS_Subset DEF FiniteSubsetsOf
<1>2. PICK s \in Bad : \A r \in Bad : ~ (<<r, s>> \in StrictSubsetOrdering(S))
  BY <1>1, WFMin, FS_StrictSubsetOrderingWellFounded
<1>3. s # {} /\ s \in SUBSET S /\ s \ {Pick(s)} \in Bad
  BY DEF Inductive
<1>4. Pick(s) \in s
  BY <1>3 DEF Pick
<1>5. <<s \ {Pick(s)}, s>> \in StrictSubsetOrdering(S)
  BY <1>3, <1>4 DEF StrictSubsetOrdering
<1>. QED  BY <1>2, <1>3, <1>5

LEMMA SumExists ==
  ASSUME NEW S, IsFiniteSet(S), NEW f \in [S -> Int]
  PROVE  \E sum \in [SUBSET S -> Int] : SumsUp(sum, f, S)
<1> DEFINE Upto(s) == {t \in SUBSET S : Cardinality(t) <= Cardinality(s)}
           P == {s \in SUBSET S : \E sum \in [SUBSET S -> Int] :
                    \A t \in Upto(s) : sum[t] = Step(sum, f, t)}
<1>1. \A t \in SUBSET S : IsFiniteSet(t) /\ Cardinality(t) \in Nat
  BY FS_Subset, FS_CardinalityType
<1>2. ASSUME NEW s \in SUBSET S, s = {} \/ s \ {Pick(s)} \in P
      PROVE  s \in P
  <2>1. CASE s = {}
    <3> DEFINE sum == [t \in SUBSET S |-> 0]
    <3>1. \A t \in Upto(s) : t = {}
      BY <1>1, <2>1, FS_EmptySet
    <3>2. sum \in [SUBSET S -> Int] /\ \A t \in Upto(s) : sum[t] = Step(sum, f, t)
      BY <3>1 DEF Step
    <3>. QED  BY <3>2
  <2>2. CASE s # {}
    <3> DEFINE r == s \ {Pick(s)}
    <3>1. Pick(s) \in s /\ r \in P
      BY <1>2, <2>2 DEF Pick
    <3>2. PICK old \in [SUBSET S -> Int] : \A t \in Upto(r) : old[t] = Step(old, f, t)
      BY <3>1
    <3>3. Cardinality(s) = Cardinality(r) + 1
      BY <1>1, <3>1, FS_RemoveElement
    <3> DEFINE sum == [t \in SUBSET S |-> IF t \in Upto(r) THEN old[t] ELSE Step(old, f, t)]
    <3>4. ASSUME NEW t \in SUBSET S, t # {}
          PROVE  /\ Pick(t) \in S /\ t \ {Pick(t)} \in SUBSET S
                 /\ Cardinality(t \ {Pick(t)}) = Cardinality(t) - 1
      <4>1. Pick(t) \in t
        BY <3>4 DEF Pick
      <4>. QED  BY <4>1, <1>1, FS_RemoveElement
    <3>5. sum \in [SUBSET S -> Int]
      <4>1. ASSUME NEW t \in SUBSET S PROVE Step(old, f, t) \in Int
        <5>1. t # {} => f[Pick(t)] \in Int /\ old[t \ {Pick(t)}] \in Int
          BY <3>4
        <5>. QED  BY <5>1 DEF Step
      <4>. QED  BY <4>1
    <3>6. ASSUME NEW t \in Upto(s) PROVE sum[t] = Step(sum, f, t)
      <4>1. sum[t] = Step(old, f, t)
        BY <3>2
      <4>2. CASE t = {}
        BY <4>1, <4>2 DEF Step
      <4>3. CASE t # {}
        <5>1. t \ {Pick(t)} \in Upto(r)
          <6>1. /\ Cardinality(t) \in Nat /\ Cardinality(r) \in Nat
                /\ Cardinality(t) <= Cardinality(s)
            BY <1>1
          <6>. QED  BY <6>1, <3>3, <3>4, <4>3
        <5>2. sum[t \ {Pick(t)}] = old[t \ {Pick(t)}]
          BY <5>1
        <5>. QED  BY <4>1, <4>3, <5>2 DEF Step
      <4>. QED  BY <4>2, <4>3
    <3>. HIDE DEF sum
    <3>. QED  BY <3>5, <3>6
  <2>. QED  BY <2>1, <2>2
<1>3. S \in P
  <2>1. Inductive(P, S)
    BY <1>2 DEF Inductive
  <2>. HIDE DEF P
  <2>. QED  BY <2>1, SubsetInduction
<1>4. \A t \in SUBSET S : t \in Upto(S)
  BY FS_Subset
<1>. QED  BY <1>3, <1>4 DEF SumsUp

LEMMA SumUnique ==
  ASSUME NEW S, IsFiniteSet(S), NEW f, NEW x, NEW y, SumsUp(x, f, S), SumsUp(y, f, S)
  PROVE  x[S] = y[S]
<1> DEFINE P == {s \in SUBSET S : x[s] = y[s]}
<1>1. Inductive(P, S)
  BY DEF Inductive, SumsUp, Step
<1>2. S \in P
  <2>. HIDE DEF P
  <2>. QED  BY <1>1, SubsetInduction
<1>. QED  BY <1>2

(* The sum is one of these. *)
LEMMA TotalSums ==
  ASSUME NEW S, IsFiniteSet(S), NEW f \in [S -> Int]
  PROVE  \E sum \in [SUBSET S -> Int] : SumsUp(sum, f, S) /\ Total(f) = sum[S]
<1> DEFINE Fold(iter) == iter = [s \in SUBSET S |-> Step(iter, f, s)]
           c == CHOOSE iter : Fold(iter)
<1>1. PICK sum \in [SUBSET S -> Int] : SumsUp(sum, f, S)
  BY SumExists
<1>2. Fold(sum)
  BY <1>1 DEF SumsUp
<1>3. Fold(c)
  BY <1>2
<1>4. SumsUp(c, f, S)
  <2>. HIDE DEF c
  <2>. QED  BY <1>3 DEF SumsUp
<1>5. c[S] = sum[S]
  <2>. HIDE DEF c
  <2>. QED  BY <1>1, <1>4, SumUnique
<1>6. Total(f) = c[S]
  BY DEF Total, MapThenSumSet, MapThenFoldSet, Step, Pick
<1>. QED  BY <1>1, <1>5, <1>6

LEMMA TotalInt ==
  ASSUME NEW S, IsFiniteSet(S), NEW f \in [S -> Int]
  PROVE  Total(f) \in Int
<1>1. PICK sum \in [SUBSET S -> Int] : Total(f) = sum[S]
  BY TotalSums
<1>. QED  BY <1>1

(* A sum of sums, point by point. *)
LEMMA TotalPlus ==
  ASSUME NEW S, IsFiniteSet(S), NEW f \in [S -> Int], NEW g \in [S -> Int],
         NEW h \in [S -> Int], \A x \in S : h[x] = f[x] + g[x]
  PROVE  Total(h) = Total(f) + Total(g)
<1>1. PICK a \in [SUBSET S -> Int] :
         SumsUp(a, f, S) /\ Total(f) = a[S]
  BY TotalSums
<1>2. PICK b \in [SUBSET S -> Int] :
         SumsUp(b, g, S) /\ Total(g) = b[S]
  BY TotalSums
<1>3. PICK c \in [SUBSET S -> Int] :
         SumsUp(c, h, S) /\ Total(h) = c[S]
  BY TotalSums
<1> DEFINE P == {s \in SUBSET S : c[s] = a[s] + b[s]}
<1>4. ASSUME NEW s \in SUBSET S, s = {} \/ s \ {Pick(s)} \in P PROVE s \in P
  <2>1. CASE s = {}
    <3>1. a[s] = 0 /\ b[s] = 0 /\ c[s] = 0
      BY <1>1, <1>2, <1>3, <2>1 DEF Step, SumsUp
    <3>. QED  BY <3>1
  <2>2. CASE s # {}
    <3> DEFINE x == Pick(s)
               r == s \ {x}
    <3>1. x \in S /\ r \in SUBSET S /\ c[r] = a[r] + b[r]
      BY <1>4, <2>2 DEF Pick
    <3>2. a[s] = f[x] + a[r] /\ b[s] = g[x] + b[r] /\ c[s] = h[x] + c[r]
      BY <1>1, <1>2, <1>3, <2>2 DEF Step, SumsUp
    <3>3. f[x] \in Int /\ g[x] \in Int /\ a[r] \in Int /\ b[r] \in Int /\ h[x] = f[x] + g[x]
      BY <3>1
    <3>. HIDE DEF x, r
    <3>. QED  BY <3>1, <3>2, <3>3
  <2>. QED  BY <2>1, <2>2
<1>5. S \in P
  <2>1. Inductive(P, S)
    BY <1>4 DEF Inductive
  <2>. HIDE DEF P
  <2>. QED  BY <2>1, SubsetInduction
<1>. QED  BY <1>1, <1>2, <1>3, <1>5

LEMMA TotalSign ==
  ASSUME NEW S, IsFiniteSet(S), NEW f \in [S -> Int], \A x \in S : f[x] >= 0
  PROVE  Total(f) >= 0
<1>1. PICK a \in [SUBSET S -> Int] :
         SumsUp(a, f, S) /\ Total(f) = a[S]
  BY TotalSums
<1> DEFINE P == {s \in SUBSET S : a[s] >= 0}
<1>2. ASSUME NEW s \in SUBSET S, s = {} \/ s \ {Pick(s)} \in P PROVE s \in P
  <2>1. CASE s = {}
    <3>1. a[s] = 0
      BY <1>1, <2>1 DEF Step, SumsUp
    <3>. QED  BY <3>1
  <2>2. CASE s # {}
    <3> DEFINE x == Pick(s)
               r == s \ {x}
    <3>1. x \in S /\ r \in SUBSET S /\ a[r] >= 0
      BY <1>2, <2>2 DEF Pick
    <3>2. a[s] = f[x] + a[r]
      BY <1>1, <2>2 DEF Step, SumsUp
    <3>3. f[x] \in Int /\ a[r] \in Int /\ f[x] >= 0
      BY <3>1
    <3>. HIDE DEF x, r
    <3>. QED  BY <3>1, <3>2, <3>3
  <2>. QED  BY <2>1, <2>2
<1>3. S \in P
  <2>1. Inductive(P, S)
    BY <1>2 DEF Inductive
  <2>. HIDE DEF P
  <2>. QED  BY <2>1, SubsetInduction
<1>. QED  BY <1>1, <1>3

LEMMA TotalZero ==
  ASSUME NEW S, IsFiniteSet(S)
  PROVE  Total([x \in S |-> 0]) = 0
<1> DEFINE z == [x \in S |-> 0]
<1>1. z \in [S -> Int]
  OBVIOUS
<1>2. \A n \in Int : n = n + n => n = 0
  OBVIOUS
<1>3. Total(z) = Total(z) + Total(z) /\ Total(z) \in Int
  <2>1. \A x \in S : z[x] = z[x] + z[x]
    OBVIOUS
  <2>. HIDE DEF z
  <2>. QED  BY <1>1, <2>1, TotalPlus, TotalInt
<1>. QED  BY <1>2, <1>3

(* A sum is monotone. *)
LEMMA TotalMonotone ==
  ASSUME NEW S, IsFiniteSet(S), NEW f \in [S -> Int], NEW g \in [S -> Int],
         \A x \in S : f[x] <= g[x]
  PROVE  Total(f) <= Total(g)
<1> DEFINE d == [x \in S |-> g[x] - f[x]]
<1>1. d \in [S -> Int] /\ (\A x \in S : d[x] >= 0) /\ \A x \in S : g[x] = f[x] + d[x]
  OBVIOUS
<1>. HIDE DEF d
<1>2. Total(g) = Total(f) + Total(d) /\ Total(d) >= 0
  BY <1>1, TotalPlus, TotalSign
<1>3. Total(f) \in Int /\ Total(d) \in Int
  BY <1>1, TotalInt
<1>. QED  BY <1>2, <1>3

(* A sum changes as one of the summands does. *)
LEMMA TotalChange ==
  ASSUME NEW S, IsFiniteSet(S), NEW f \in [S -> Int], NEW g \in [S -> Int], NEW x \in S,
         \A y \in S \ {x} : g[y] = f[y]
  PROVE  Total(g) = Total(f) + (g[x] - f[x])
<1> DEFINE e == g[x] - f[x]
<1>1. PICK a \in [SUBSET S -> Int] :
         SumsUp(a, f, S) /\ Total(f) = a[S]
  BY TotalSums
<1>2. PICK b \in [SUBSET S -> Int] :
         SumsUp(b, g, S) /\ Total(g) = b[S]
  BY TotalSums
<1> DEFINE P == {s \in SUBSET S : b[s] = a[s] + (IF x \in s THEN e ELSE 0)}
<1>3. f[x] \in Int /\ g[x] \in Int /\ e \in Int
  OBVIOUS
<1>4. ASSUME NEW s \in SUBSET S, s = {} \/ s \ {Pick(s)} \in P PROVE s \in P
  <2>1. CASE s = {}
    <3>1. a[s] = 0 /\ b[s] = 0 /\ x \notin s
      BY <1>1, <1>2, <2>1 DEF Step, SumsUp
    <3>. QED  BY <3>1
  <2>2. CASE s # {}
    <3> DEFINE y == Pick(s)
               r == s \ {y}
    <3>1. y \in s /\ r \in SUBSET S /\ b[r] = a[r] + (IF x \in r THEN e ELSE 0)
      BY <1>4, <2>2 DEF Pick
    <3>2. a[s] = f[y] + a[r] /\ b[s] = g[y] + b[r]
      BY <1>1, <1>2, <2>2 DEF Step, SumsUp
    <3>3. f[y] \in Int /\ g[y] \in Int /\ a[r] \in Int
      BY <3>1
    <3>4. (x \in r <=> x \in s /\ x # y) /\ r \subseteq s
      OBVIOUS
    <3>. HIDE DEF y, r
    <3>5. CASE y = x
      BY <1>3, <3>1, <3>2, <3>3, <3>4, <3>5
    <3>6. CASE y # x
      <4>1. g[y] = f[y]
        BY <3>1, <3>6
      <4>. QED  BY <1>3, <3>1, <3>2, <3>3, <3>4, <3>6, <4>1
    <3>. QED  BY <3>5, <3>6
  <2>. QED  BY <2>1, <2>2
<1>5. S \in P
  <2>1. Inductive(P, S)
    BY <1>4 DEF Inductive
  <2>. HIDE DEF P
  <2>. QED  BY <2>1, SubsetInduction
<1>. QED  BY <1>1, <1>2, <1>3, <1>5

-----------------------------------------------------------------------------
(* What the steps do to the session that takes them, field by field. *)
Books == <<goodsFile, cashFile, acct, tmp, bill>>

(* The session is the only one that is not idle. *)
AtWork(s) == \A r \in Sessions \ {s} : pc[r] \in Idle /\ pc'[r] \in Idle

LEMMA Working ==
  ASSUME Alone, NEW s \in Sessions, Others(s),
         pc[s] \notin Idle \/ \A r \in Sessions : pc[r] \in Idle
  PROVE  AtWork(s)
BY NoOtherWrites DEF AtWork, Others

(* The client's steps that change no variable but pc[s] and, at logout,      *)
(* balance[s].                                                               *)
Quietly(s) ==
    \/ Login(s) \/ Logout(s) \/ Confirm(s) \/ Back(s) \/ LeaveStock(s) \/ PressKey(s)
    \/ \E q \in 1 .. MaxQuantity : OrderRefused(s, q)

LEMMA QuietlyDoes ==
  ASSUME SessionsOK, NEW s \in Sessions, Quietly(s)
  PROVE  /\ UNCHANGED Books /\ \A r \in Sessions \ {s} : balance'[r] = balance[r]
         /\ \/ /\ pc[s] = "menu" /\ pc'[s] = "bill" /\ UNCHANGED balance
               /\ local[s].job = "buy" /\ local'[s] = local[s]
            \/ /\ pc'[s] \in Idle /\ local'[s] = NoLocal /\ local'[s].job = "buy"
               /\ pc[s] \notin {"openCash", "fillCash"}
<1>. USE DEF Books, fileVars, historyVars
<1>1. NoLocal.job = "buy"
  BY DEF NoLocal
<1>2. CASE Login(s) \/ Logout(s)
  <2>1. pc[s] \in {"out", "home"} /\ pc'[s] \in Idle /\ UNCHANGED local
    BY <1>2, GotoOthers DEF Login, Logout, Goto, Idle
  <2>2. local[s] = NoLocal
    BY <2>1, Here DEF Stage
  <2>3. UNCHANGED Books /\ \A r \in Sessions \ {s} : balance'[r] = balance[r]
    BY <1>2 DEF Login, Logout, SessionsOK
  <2>. QED  BY <1>1, <2>1, <2>2, <2>3
<1>3. CASE Confirm(s)
  <2>1. pc[s] = "menu" /\ pc'[s] = "bill" /\ local'[s] = local[s]
    BY <1>3, PassOthers DEF Confirm
  <2>2. local[s].job = "buy"
    BY <2>1, Here DEF Stage
  <2>. QED  BY <1>3, <2>1, <2>2 DEF Confirm
<1>4. CASE Back(s) \/ LeaveStock(s) \/ PressKey(s)
           \/ \E q \in 1 .. MaxQuantity : OrderRefused(s, q)
  <2>1. UNCHANGED <<Books, balance>>
    BY <1>4 DEF Back, LeaveStock, PressKey, OrderRefused
  <2>2. Pass(s, "menu", "home") \/ Pass(s, "stock", "home") \/ Pass(s, "quantity", "home")
      \/ Pass(s, "key", "home")
    BY <1>4 DEF Back, LeaveStock, PressKey, OrderRefused
  <2>3. /\ pc[s] \in {"menu", "stock", "quantity", "key"} /\ pc'[s] = "home"
        /\ local'[s] = NoLocal
    BY <2>2, PassOthers
  <2>. QED  BY <1>1, <2>1, <2>3 DEF Idle
<1>. QED  BY <1>2, <1>3, <1>4 DEF Quietly

LEMMA StartDoes ==
  ASSUME SessionsOK, NEW s \in Sessions, InitBalance(s) \/ NoAccounts(s)
  PROVE  /\ UNCHANGED Books /\ \A r \in Sessions \ {s} : balance'[r] = balance[r]
         /\ pc[s] = "initBalance" /\ local[s].job = "buy" /\ local'[s] = local[s]
         /\ \/ NoAccounts(s) /\ pc'[s] = "stuck"
            \/ /\ InitBalance(s) /\ pc'[s] = "initCash" /\ acct[Home(s)] # Missing
               /\ acct[Home(s)][user[s]] # NoRecord => balance'[s] = acct[Home(s)][user[s]]
<1>1. pc[s] = "initBalance"
  BY DEF InitBalance, NoAccounts, Pass, Goto
<1>2. local[s].job = "buy"
  BY <1>1, Here DEF Stage
<1>3. CASE InitBalance(s)
  BY <1>1, <1>2, <1>3, GotoOthers
     DEF InitBalance, Goto, Books, fileVars, historyVars, SessionsOK
<1>4. CASE NoAccounts(s)
  BY <1>1, <1>2, <1>4, PassOthers DEF NoAccounts, Books, fileVars, historyVars
<1>. QED  BY <1>3, <1>4

LEMMA ReadGoodsDoes ==
  ASSUME SessionsOK, NEW s \in Sessions, InitGoods(s) \/ ReadStock(s)
  PROVE  /\ UNCHANGED <<Books, balance>> /\ goodsFile # Empty
         /\ pc[s] = "home" /\ (Serial => \A r \in Sessions : pc[r] \in Idle)
         /\ \/ InitGoods(s) /\ pc'[s] = "initBalance"
            \/ ReadStock(s) /\ pc'[s] = "stock"
         /\ local'[s].goods = goodsFile
         /\ local'[s].job = "buy" /\ local'[s].order = NoOrder /\ local'[s].k = 1
         /\ local'[s].ordercost = 0
<1> DEFINE l == [local[s] EXCEPT !.goods = goodsFile]
<1>1. local' = [local EXCEPT ![s] = l]
  BY DEF InitGoods, ReadStock
<1>2. pc[s] = "home" /\ local[s] = NoLocal
  BY Here DEF InitGoods, ReadStock, Begin, Goto, Stage
<1>3. /\ l.goods = goodsFile
      /\ l.job = "buy" /\ l.order = NoOrder /\ l.k = 1 /\ l.ordercost = 0
  BY <1>2 DEF NoLocal
<1>4. local'[s] = l
  BY <1>1, LocalOthers
<1>5. (InitGoods(s) /\ pc'[s] = "initBalance") \/ (ReadStock(s) /\ pc'[s] = "stock")
  BY GotoOthers DEF InitGoods, ReadStock, Begin, Goto
<1>. HIDE DEF l
<1>. QED  BY <1>2, <1>3, <1>4, <1>5 DEF InitGoods, ReadStock, Begin, Books, fileVars, historyVars, Idle

LEMMA TakeCashDoes ==
  ASSUME SessionsOK, NEW s \in Sessions, InitCash(s) \/ ReadCash(s)
  PROVE  /\ UNCHANGED <<Books, balance>> /\ cashFile # Empty
         /\ \/ pc[s] = "initCash" /\ pc'[s] = "menu" /\ balance[s] # NoBalance
            \/ pc[s] = "readCash" /\ pc'[s] = "items"
         /\ local[s].job = "buy" /\ local'[s] = [local[s] EXCEPT !.cash = cashFile]
         /\ local'[s].cash = cashFile /\ local'[s].job = "buy"
         /\ local'[s].goods = local[s].goods /\ local'[s].order = local[s].order
         /\ local'[s].k = local[s].k /\ local'[s].ordercost = local[s].ordercost
         /\ local'[s].target = local[s].target
<1> DEFINE l == [local[s] EXCEPT !.cash = cashFile]
<1>1. local' = [local EXCEPT ![s] = l]
  BY DEF InitCash, ReadCash
<1>2. local[s].job = "buy" /\ local[s] \in LocalRecord
  BY Here DEF InitCash, ReadCash, Goto, Stage
<1>3. /\ l.cash = cashFile /\ l.job = "buy"
      /\ l.goods = local[s].goods /\ l.order = local[s].order
      /\ l.k = local[s].k /\ l.ordercost = local[s].ordercost /\ l.target = local[s].target
  BY <1>2 DEF LocalRecord
<1>4. local'[s] = l
  BY <1>1, LocalOthers
<1>5. \/ pc[s] = "initCash" /\ pc'[s] = "menu" /\ balance[s] # NoBalance
      \/ pc[s] = "readCash" /\ pc'[s] = "items"
  BY GotoOthers DEF InitCash, ReadCash, Goto
<1>6. UNCHANGED <<Books, balance>> /\ cashFile # Empty
  BY DEF InitCash, ReadCash, Books, fileVars, historyVars
<1>. QED  BY <1>2, <1>3, <1>4, <1>5, <1>6

LEMMA AddDoes ==
  ASSUME SessionsOK, NEW s \in Sessions, NEW i \in Items, NEW q \in 1 .. MaxQuantity, Add(s, i, q)
  PROVE  /\ UNCHANGED <<Books, balance, pc>> /\ pc[s] = "menu" /\ local[s].job = "buy"
         /\ local'[s].job = "buy" /\ local'[s].cash = local[s].cash
         /\ local'[s].goods = local[s].goods /\ local'[s].k = local[s].k
         /\ local'[s].ordercost = local[s].ordercost
<1> DEFINE o == [local[s].order EXCEPT ![i] = q]
           l == [local[s] EXCEPT !.order = o]
<1>1. local' = [local EXCEPT ![s] = l]
  BY DEF Add
<1>2. local[s].job = "buy" /\ local[s] \in LocalRecord
  BY Here DEF Add, Stage
<1>3. /\ l.cash = local[s].cash /\ l.job = "buy" /\ l.goods = local[s].goods
      /\ l.k = local[s].k /\ l.ordercost = local[s].ordercost
  BY <1>2 DEF LocalRecord
<1>4. local'[s] = l
  BY <1>1, LocalOthers
<1>. HIDE DEF l
<1>. QED  BY <1>2, <1>3, <1>4 DEF Add, Books, fileVars, historyVars

LEMMA BillDoes ==
  ASSUME SessionsOK, NEW s \in Sessions, Bill(s)
  PROVE  /\ UNCHANGED <<Books, balance, pc>> /\ pc[s] = "bill" /\ local[s].k \in Items
         /\ local[s].job = "buy" /\ local'[s].job = "buy" /\ local'[s].cash = local[s].cash
         /\ local'[s].goods = local[s].goods /\ local'[s].order = local[s].order
         /\ local'[s].k = local[s].k + 1
         /\ local'[s].ordercost = local[s].ordercost
               + Discounted(Home(s), local[s].goods[local[s].k].price
                                     * local[s].order[local[s].k])
<1> DEFINE x == local[s].ordercost + Discounted(Home(s), local[s].goods[local[s].k].price
                                                         * local[s].order[local[s].k])
           l == [local[s] EXCEPT !.k = local[s].k + 1, !.ordercost = x]
<1>1. local' = [local EXCEPT ![s] = l]
  BY DEF Bill
<1>2. local[s].job = "buy" /\ local[s] \in LocalRecord
  BY Here DEF Bill, Stage
<1>. HIDE DEF x
<1>3. /\ l.cash = local[s].cash /\ l.job = "buy" /\ l.goods = local[s].goods
      /\ l.order = local[s].order /\ l.k = local[s].k + 1 /\ l.ordercost = x
  BY <1>2 DEF LocalRecord
<1>4. local'[s] = l
  BY <1>1, LocalOthers
<1>. HIDE DEF l
<1>5. /\ UNCHANGED <<Books, balance, pc>> /\ pc[s] = "bill" /\ local[s].k \in Items
  BY DEF Bill, Books, fileVars, historyVars
<1>. QED  BY <1>2, <1>3, <1>4, <1>5 DEF x

(* An order is forgotten: it is refused, or it is done. *)
LEMMA ForgetDoes ==
  ASSUME SessionsOK, NEW s \in Sessions, local' = Forget(s)
  PROVE  /\ local'[s].job = local[s].job /\ local'[s].cash = local[s].cash
         /\ local'[s].goods = local[s].goods /\ local'[s].order = NoOrder
         /\ local'[s].k = 1 /\ local'[s].ordercost = 0
<1> DEFINE l == [local[s] EXCEPT !.order = NoOrder, !.k = 1, !.ordercost = 0]
<1>1. local' = [local EXCEPT ![s] = l]
  BY DEF Forget
<1>2. local[s] \in LocalRecord
  BY Here
<1>3. /\ l.cash = local[s].cash /\ l.job = local[s].job /\ l.goods = local[s].goods
      /\ l.order = NoOrder /\ l.k = 1 /\ l.ordercost = 0
  BY <1>2 DEF LocalRecord
<1>4. local'[s] = l
  BY <1>1, LocalOthers
<1>. QED  BY <1>3, <1>4

LEMMA RefuseDoes ==
  ASSUME SessionsOK, NEW s \in Sessions, Refuse(s)
  PROVE  /\ UNCHANGED <<Books, balance>> /\ pc[s] = "bill" /\ pc'[s] = "menu"
         /\ local[s].job = "buy" /\ local' = Forget(s)
BY Here, GotoOthers DEF Refuse, Goto, Stage, Books, fileVars, historyVars

LEMMA PayDoes ==
  ASSUME IInv, NEW s \in Sessions, Pay(s)
  PROVE  /\ UNCHANGED <<goodsFile, cashFile, acct, tmp>>
         /\ pc[s] = "bill" /\ pc'[s] = "openCash" /\ local[s].k > N
         /\ local[s].ordercost \in Nat /\ local[s].ordercost <= balance[s]
         /\ balance[s] \in Nat /\ balance'[s] = balance[s] - local[s].ordercost
         /\ \A r \in Sessions \ {s} : balance'[r] = balance[r]
         /\ bill' \in [Users -> Nat]
         /\ bill'[user[s]] = bill[user[s]] + local[s].ordercost
         /\ \A u \in Users \ {user[s]} : bill'[u] = bill[u]
         /\ local[s].job = "buy" /\ local'[s].job = "buy"
         /\ local'[s].cash = CashIn(local[s].cash, local[s].ordercost)
         /\ local'[s].goods = local[s].goods /\ local'[s].order = local[s].order
         /\ local'[s].k = 1
<1> DEFINE c == local[s].ordercost
           l == [local[s] EXCEPT !.cash = CashIn(local[s].cash, c), !.k = 1]
<1>1. local' = [local EXCEPT ![s] = l]
  BY DEF Pay
<1>2. /\ SessionsOK /\ local[s].job = "buy" /\ local[s] \in LocalRecord
      /\ balance[s] \in Nat /\ c \in Nat
  BY Here DEF IInv, Pay, Goto, Stage
<1>3. /\ l.cash = CashIn(local[s].cash, c) /\ l.job = "buy" /\ l.goods = local[s].goods
      /\ l.order = local[s].order /\ l.k = 1
  BY <1>2 DEF LocalRecord
<1>4. local'[s] = l
  BY <1>1, <1>2, LocalOthers
<1>5. /\ bill' \in [Users -> Nat] /\ bill'[user[s]] = bill[user[s]] + c
      /\ \A u \in Users \ {user[s]} : bill'[u] = bill[u]
  BY <1>2, PeopleAssumption DEF IInv, HistoryOK, Pay
<1>6. /\ balance'[s] = balance[s] - c
      /\ \A r \in Sessions \ {s} : balance'[r] = balance[r]
  BY <1>2 DEF Pay, SessionsOK
<1>7. /\ pc[s] = "bill" /\ pc'[s] = "openCash" /\ local[s].k > N /\ c <= balance[s]
      /\ UNCHANGED <<goodsFile, cashFile, acct, tmp>>
  BY <1>2, GotoOthers DEF Pay, Goto, fileVars
<1>. HIDE DEF l
<1>. QED  BY <1>2, <1>3, <1>4, <1>5, <1>6, <1>7

LEMMA WriteCashDoes ==
  ASSUME SessionsOK, NEW s \in Sessions
  PROVE  /\ OpenCash(s) =>
              /\ UNCHANGED <<goodsFile, acct, tmp, bill, balance>> /\ cashFile' = Empty
              /\ pc[s] = "openCash" /\ pc'[s] = "fillCash" /\ local'[s] = local[s]
         /\ FillCash(s) =>
              /\ UNCHANGED <<goodsFile, acct, tmp, bill, balance>>
              /\ cashFile' = FmtCash(local[s].cash) /\ cashFile' # Empty
              /\ pc[s] = "fillCash"
              /\ pc'[s] = IF local[s].job = "buy" THEN "readCash" ELSE "home"
              /\ local'[s] = IF local[s].job = "buy" THEN local[s] ELSE NoLocal
<1>1. CASE OpenCash(s)
  BY <1>1, PassOthers DEF OpenCash, FillCash, Pass, Goto, accountVars, historyVars
<1>2. CASE FillCash(s)
  <2>1. FmtCash(local[s].cash) # Empty
    BY Here, FmtCashOK, MarkersAssumption DEF CashOK
  <2>2. /\ pc[s] = "fillCash" /\ pc'[s] = IF local[s].job = "buy" THEN "readCash" ELSE "home"
        /\ local'[s] = IF pc'[s] = "home" THEN NoLocal ELSE local[s]
    BY <1>2, PassOthers DEF FillCash
  <2>3. ~ OpenCash(s)
    BY <2>2 DEF OpenCash, Pass, Goto
  <2>. QED  BY <1>2, <2>1, <2>2, <2>3 DEF FillCash, accountVars, historyVars
<1>. QED  BY <1>1, <1>2

LEMMA SellDoes ==
  ASSUME SessionsOK, NEW s \in Sessions, Sell(s)
  PROVE  /\ UNCHANGED <<Books, balance, pc>> /\ pc[s] = "items" /\ local[s].k \in Items
         /\ local[s].job = "buy" /\ local'[s].job = "buy" /\ local'[s].cash = local[s].cash
         /\ local'[s].goods = [local[s].goods EXCEPT ![local[s].k].stock = Left(s)]
         /\ local'[s].order = local[s].order /\ local'[s].k = local[s].k + 1
<1> DEFINE g == [local[s].goods EXCEPT ![local[s].k].stock = Left(s)]
           l == [local[s] EXCEPT !.goods = g, !.k = local[s].k + 1]
<1>1. local' = [local EXCEPT ![s] = l]
  BY DEF Sell
<1>2. local[s].job = "buy" /\ local[s] \in LocalRecord
  BY Here DEF Sell, Stage
<1>. HIDE DEF g
<1>3. /\ l.cash = local[s].cash /\ l.job = "buy" /\ l.goods = g
      /\ l.order = local[s].order /\ l.k = local[s].k + 1
  BY <1>2 DEF LocalRecord
<1>4. local'[s] = l
  BY <1>1, LocalOthers
<1>. HIDE DEF l
<1>5. UNCHANGED <<Books, balance, pc>> /\ pc[s] = "items" /\ local[s].k \in Items
  BY DEF Sell, Books, fileVars, historyVars
<1>. QED  BY <1>2, <1>3, <1>4, <1>5 DEF g

LEMMA SellAndReorderDoes ==
  ASSUME SessionsOK, NEW s \in Sessions, SellAndReorder(s)
  PROVE  /\ UNCHANGED <<Books, balance>> /\ local[s].k \in Items /\ Reorder(s)
         /\ pc[s] = "items" /\ pc'[s] = "openCash"
         /\ local[s].job = "buy" /\ local'[s].job = "buy"
         /\ local'[s].cash = CashOut(local[s].cash, Price(s))
         /\ local'[s].goods = [local[s].goods EXCEPT ![local[s].k].stock =
                                  Left(s) + local[s].goods[local[s].k].amount]
         /\ local'[s].order = local[s].order /\ local'[s].k = local[s].k + 1
<1> DEFINE g == [local[s].goods EXCEPT ![local[s].k].stock =
                    Left(s) + local[s].goods[local[s].k].amount]
           c == CashOut(local[s].cash, Price(s))
           l == [local[s] EXCEPT !.goods = g, !.cash = c, !.k = local[s].k + 1]
<1>1. local' = [local EXCEPT ![s] = l]
  BY DEF SellAndReorder
<1>2. pc[s] = "items" /\ local[s].job = "buy" /\ local[s] \in LocalRecord
  BY Here DEF SellAndReorder, Goto, Stage
<1>. HIDE DEF g, c
<1>3. /\ l.cash = c /\ l.job = "buy" /\ l.goods = g
      /\ l.order = local[s].order /\ l.k = local[s].k + 1
  BY <1>2 DEF LocalRecord
<1>4. local'[s] = l
  BY <1>1, LocalOthers
<1>. HIDE DEF l
<1>5. UNCHANGED <<Books, balance>> /\ pc'[s] = "openCash" /\ local[s].k \in Items /\ Reorder(s)
  BY GotoOthers DEF SellAndReorder, Goto, Books, fileVars, historyVars
<1>. QED  BY <1>2, <1>3, <1>4, <1>5 DEF g, c

LEMMA CopyBalanceDoes ==
  ASSUME SessionsOK, NEW s \in Sessions, CopyBalance(s)
  PROVE  /\ UNCHANGED <<goodsFile, cashFile, acct, bill, balance>>
         /\ tmp' = Changed(Home(s), user[s], Fmt(balance[s])) /\ acct[Home(s)] # Missing
         /\ pc[s] = "items" /\ pc'[s] = "remove" /\ local[s].k > N
         /\ local[s].job = "buy" /\ local'[s].job = "buy" /\ local'[s].target = user[s]
         /\ local'[s].cash = local[s].cash /\ local'[s].goods = local[s].goods
         /\ local'[s].order = local[s].order /\ local'[s].k = local[s].k
<1> DEFINE l == [local[s] EXCEPT !.target = user[s]]
<1>1. local' = [local EXCEPT ![s] = l]
  BY DEF CopyBalance
<1>2. pc[s] = "items" /\ local[s].job = "buy" /\ local[s] \in LocalRecord
  BY Here DEF CopyBalance, Goto, Stage
<1>3. /\ l.cash = local[s].cash /\ l.job = "buy" /\ l.goods = local[s].goods
      /\ l.order = local[s].order /\ l.k = local[s].k /\ l.target = user[s]
  BY <1>2 DEF LocalRecord
<1>4. local'[s] = l
  BY <1>1, LocalOthers
<1>5. pc'[s] = "remove"
  BY GotoOthers DEF CopyBalance, Goto
<1>. HIDE DEF l
<1>. QED  BY <1>2, <1>3, <1>4, <1>5 DEF CopyBalance, historyVars

(* The steps that write an accounts file, or goods.txt. *)
LEMMA WriteAccountsDoes ==
  ASSUME SessionsOK, NEW s \in Sessions, CopyFails(s) \/ Remove(s) \/ Rename(s)
  PROVE  /\ UNCHANGED <<goodsFile, cashFile, bill, balance>>
         /\ local'[s] = local[s] \/ (pc'[s] = "home" /\ local'[s] = NoLocal)
         /\ \/ CopyFails(s) /\ pc[s] = "items" /\ pc'[s] = "openGoods" /\ UNCHANGED acct
            \/ Remove(s) /\ pc[s] = "remove" /\ pc'[s] = "rename" /\ UNCHANGED tmp
            \/ /\ Rename(s) /\ pc[s] = "rename"
               /\ pc'[s] = IF local[s].job = "buy" THEN "openGoods" ELSE "home"
<1>1. UNCHANGED <<goodsFile, cashFile, bill, balance>>
  BY DEF CopyFails, Remove, Rename, historyVars
<1>2. CASE CopyFails(s)
  <2>1. pc[s] = "items" /\ pc'[s] = "openGoods" /\ local'[s] = local[s]
    BY <1>2, PassOthers DEF CopyFails
  <2>. QED  BY <1>1, <1>2, <2>1 DEF CopyFails
<1>3. CASE Remove(s)
  <2>1. pc[s] = "remove" /\ pc'[s] = "rename" /\ local'[s] = local[s]
    BY <1>3, PassOthers DEF Remove
  <2>. QED  BY <1>1, <1>3, <2>1 DEF Remove
<1>4. CASE Rename(s)
  <2>1. /\ pc[s] = "rename" /\ pc'[s] = IF local[s].job = "buy" THEN "openGoods" ELSE "home"
        /\ local'[s] = IF pc'[s] = "home" THEN NoLocal ELSE local[s]
    BY <1>4, PassOthers DEF Rename
  <2>. QED  BY <1>1, <1>4, <2>1
<1>. QED  BY <1>2, <1>3, <1>4

LEMMA WriteGoodsDoes ==
  ASSUME SessionsOK, NEW s \in Sessions
  PROVE  /\ OpenGoods(s) =>
              /\ UNCHANGED <<cashFile, acct, tmp, bill, balance>> /\ goodsFile' = Empty
              /\ pc[s] = "openGoods" /\ pc'[s] = "fillGoods" /\ local'[s] = local[s]
         /\ FillGoods(s) =>
              /\ UNCHANGED <<cashFile, acct, tmp, bill, balance>> /\ pc[s] = "fillGoods"
              /\ goodsFile' = FmtGoods(local[s].goods) /\ goodsFile' # Empty
              /\ \/ local[s].job = "buy" /\ pc'[s] = "menu" /\ local' = Forget(s)
                 \/ local[s].job = "order" /\ pc'[s] = "openCash" /\ local'[s] = local[s]
                 \/ local[s].job = "modify" /\ pc'[s] = "home" /\ local'[s] = NoLocal
<1>1. CASE OpenGoods(s)
  BY <1>1, PassOthers DEF OpenGoods, FillGoods, Pass, Goto, accountVars, historyVars
<1>2. CASE FillGoods(s)
  <2>1. FmtGoods(local[s].goods) # Empty
    BY Here, FmtGoodsOK, MarkersAssumption DEF GoodsOK
  <2>2. pc[s] = "fillGoods" /\ ~ OpenGoods(s)
    BY <1>2 DEF FillGoods, OpenGoods, Pass, Goto
  <2>3. \/ local[s].job = "buy" /\ pc'[s] = "menu" /\ local' = Forget(s)
        \/ local[s].job = "order" /\ pc'[s] = "openCash" /\ local'[s] = local[s]
        \/ local[s].job = "modify" /\ pc'[s] = "home" /\ local'[s] = NoLocal
    BY <1>2, GotoOthers, PassOthers DEF FillGoods, Goto
  <2>. QED  BY <1>2, <2>1, <2>2, <2>3 DEF FillGoods, accountVars
<1>. QED  BY <1>1, <1>2

LEMMA EditDoes ==
  ASSUME IInv, Serial, NEW s \in Sessions, NEW j \in {"balance", "delete"}, NEW u, NEW x,
         Edit(s, j, u, x)
  PROVE  /\ UNCHANGED <<goodsFile, cashFile, acct, bill, balance>>
         /\ tmp' = Changed(FileOf[u], u, x) /\ acct[FileOf[u]] # Missing
         /\ j \in AdminJobs /\ \A r \in Sessions : pc[r] \in Idle
         /\ pc[s] = "home" /\ pc'[s] = "remove" /\ local'[s].job = j /\ local'[s].target = u
<1> DEFINE l == [local[s] EXCEPT !.job = j, !.target = u]
<1>1. local' = [local EXCEPT ![s] = l] /\ pc' = [pc EXCEPT ![s] = "remove"]
  BY DEF Edit, Begin, Goto
<1>2. SessionsOK /\ local[s] \in LocalRecord
  BY Here DEF IInv
<1>3. l.job = j /\ l.target = u
  BY <1>2 DEF LocalRecord
<1>4. local'[s] = l /\ pc'[s] = "remove"
  BY <1>1, <1>2, GotoOthers, LocalOthers
<1>5. /\ pc[s] = "home" /\ j \in AdminJobs /\ \A r \in Sessions : pc[r] \in Idle
  BY DEF Edit, Begin, Goto, AdminJob, Idle
<1>. HIDE DEF l
<1>. QED  BY <1>3, <1>4, <1>5 DEF Edit, historyVars

LEMMA EditFailsDoes ==
  ASSUME IInv, Serial, NEW s \in Sessions, NEW j \in {"balance", "delete"}, NEW u,
         EditFails(s, j, u)
  PROVE  /\ UNCHANGED <<goodsFile, cashFile, acct, bill, balance, local>>
         /\ acct[FileOf[u]] = Missing /\ j \in AdminJobs
         /\ pc[s] = "home" /\ pc'[s] \in {"key", "stuck"}
BY GotoOthers DEF IInv, EditFails, AdminJob, Begin, Goto, historyVars

LEMMA NameOrderedDoes ==
  ASSUME SessionsOK, NEW s \in Sessions, NEW i \in Items, NameOrdered(s, i)
  PROVE  /\ UNCHANGED <<Books, balance>> /\ cashFile # Empty /\ "order" \in AdminJobs
         /\ pc[s] = "stock" /\ pc'[s] = "quantity"
         /\ local'[s].job = "order" /\ local'[s].cash = cashFile
<1> DEFINE l == [local[s] EXCEPT !.job = "order", !.cash = cashFile, !.k = i]
<1>1. local' = [local EXCEPT ![s] = l] /\ pc' = [pc EXCEPT ![s] = "quantity"]
  BY DEF NameOrdered, Goto
<1>2. l.job = "order" /\ l.cash = cashFile
  BY Here DEF LocalRecord
<1>3. local'[s] = l /\ pc'[s] = "quantity"
  BY <1>1, GotoOthers, LocalOthers
<1>. HIDE DEF l
<1>. QED  BY <1>2, <1>3 DEF NameOrdered, AdminJob, Goto, Books, fileVars, historyVars

LEMMA OrderDoes ==
  ASSUME SessionsOK, NEW s \in Sessions, NEW q \in 1 .. MaxQuantity, Order(s, q)
  PROVE  /\ UNCHANGED <<Books, balance>> /\ pc[s] = "quantity" /\ pc'[s] = "openGoods"
         /\ local[s].job = "order" /\ local'[s].job = "order"
         /\ local'[s].cash.in = local[s].cash.in
<1> DEFINE x == q * local[s].goods[local[s].k].cost
           c == CashOut(local[s].cash, x)
           g == [local[s].goods EXCEPT ![local[s].k].stock = @ + q]
           l == [local[s] EXCEPT !.goods = g, !.cash = c]
<1>1. local' = [local EXCEPT ![s] = l] /\ pc' = [pc EXCEPT ![s] = "openGoods"]
  BY DEF Order, Goto
<1>2. pc[s] = "quantity" /\ local[s].job = "order" /\ local[s] \in LocalRecord
  BY Here DEF Order, Goto, Stage
<1>3. c.in = local[s].cash.in
  <2>1. local[s].cash \in CashRecord
    BY Here DEF CashOK
  <2>. HIDE DEF x
  <2>. QED  BY <2>1 DEF CashOut, CashRecord
<1>. HIDE DEF g, c
<1>4. l.job = "order" /\ l.cash = c
  BY <1>2 DEF LocalRecord
<1>5. local'[s] = l /\ pc'[s] = "openGoods"
  BY <1>1, GotoOthers, LocalOthers
<1>. HIDE DEF l
<1>. QED  BY <1>2, <1>3, <1>4, <1>5 DEF Order, Books, fileVars, historyVars

LEMMA ModifyDoes ==
  ASSUME SessionsOK, NEW s \in Sessions, NEW i \in Items, NEW t \in NewTerms, Modify(s, i, t)
  PROVE  /\ UNCHANGED <<Books, balance>> /\ "modify" \in AdminJobs
         /\ pc[s] = "stock" /\ pc'[s] = "openGoods" /\ local'[s].job = "modify"
<1> DEFINE g == [local[s].goods EXCEPT ![i] =
                   [@ EXCEPT !.price = t.price, !.level = t.level, !.amount = t.amount]]
           l == [local[s] EXCEPT !.job = "modify", !.k = i, !.goods = g]
<1>1. local' = [local EXCEPT ![s] = l] /\ pc' = [pc EXCEPT ![s] = "openGoods"]
  BY DEF Modify, Goto
<1>. HIDE DEF g
<1>2. l.job = "modify"
  BY Here DEF LocalRecord
<1>3. local'[s] = l /\ pc'[s] = "openGoods"
  BY <1>1, GotoOthers, LocalOthers
<1>. HIDE DEF l
<1>. QED  BY <1>2, <1>3 DEF Modify, AdminJob, Goto, Books, fileVars, historyVars

-----------------------------------------------------------------------------
(* The sales: what the shop had taken in at first, and what was paid since.  *)
Sales == cash0.in + Total(bill)

(* The sums are below what six digits can show. *)
WithinDigits == cash0.initial + Sales < SigLimit

LEMMA SalesMatch ==
  ASSUME IInv
  PROVE  SalesReachCash <=> (Quiet => cashFile # Empty /\ cashFile.in = Sales)
<1>1. DOMAIN bill = Users
  BY DEF IInv, HistoryOK
<1>. QED  BY <1>1 DEF SalesReachCash, Sales, Total, MapThenSumSet, MapThenFoldSet

LEMMA SalesNat ==
  ASSUME IInv
  PROVE  Sales \in Nat /\ Sales >= cash0.in /\ cash0.in \in Nat
<1>1. bill \in [Users -> Int] /\ \A u \in Users : bill[u] >= 0
  BY DEF IInv, HistoryOK
<1>2. Total(bill) \in Int /\ Total(bill) >= 0
  BY <1>1, UsersAssumption, TotalInt, TotalSign
<1>. QED  BY <1>2, FilesAssumption DEF Sales, CashRecord

LEMMA SalesPay ==
  ASSUME IInv, NEW s \in Sessions, Pay(s)
  PROVE  Sales' = Sales + local[s].ordercost
<1>1. /\ bill \in [Users -> Int] /\ bill' \in [Users -> Int] /\ user[s] \in Users
      /\ bill'[user[s]] = bill[user[s]] + local[s].ordercost
      /\ \A u \in Users \ {user[s]} : bill'[u] = bill[u]
      /\ local[s].ordercost \in Int
  BY PayDoes, PeopleAssumption DEF IInv, HistoryOK
<1>2. Total(bill') = Total(bill) + (bill'[user[s]] - bill[user[s]])
  BY <1>1, UsersAssumption, TotalChange
<1>3. Total(bill) \in Int /\ bill[user[s]] \in Int /\ cash0.in \in Int
  BY <1>1, UsersAssumption, TotalInt, FilesAssumption DEF CashRecord
<1>. QED  BY <1>1, <1>2, <1>3 DEF Sales

(* Only a payment adds to the sales. *)
LEMMA SalesGrow ==
  ASSUME IInv, [Next]_vars
  PROVE  (bill' = bill \/ \E s \in Sessions : Pay(s)) /\ (WithinDigits' => WithinDigits)
<1>1. bill' = bill \/ \E s \in Sessions : Pay(s)
  <2>1. CASE UNCHANGED vars \/ Restart
    BY <2>1 DEF Restart, vars, historyVars
  <2>2. ASSUME NEW s \in Sessions, Proceed(s), ~ Pay(s) PROVE bill' = bill
    BY <2>2 DEF Proceed, InitBalance, NoAccounts, InitCash, Bill, Refuse, OpenCash, FillCash,
       ReadCash, Sell, SellAndReorder, CopyBalance, CopyFails, Remove, Rename, OpenGoods,
       FillGoods, historyVars
  <2>3. ASSUME NEW s \in Sessions, Request(s) PROVE bill' = bill
    BY <2>3 DEF Request, Login, SignUp, Logout, InitGoods, Add, Confirm, Back, Delete,
       SetBalance, Edit, EditFails, ReadStock, LeaveStock, PressKey, NameOrdered, Modify, Order,
       OrderRefused, historyVars
  <2>. QED  BY <2>1, <2>2, <2>3 DEF Next, Throws, Killed
<1>2. ASSUME WithinDigits' PROVE WithinDigits
  <2>1. CASE bill' = bill
    BY <1>2, <2>1 DEF WithinDigits, Sales
  <2>2. ASSUME NEW s \in Sessions, Pay(s) PROVE WithinDigits
    <3>1. Sales' = Sales + local[s].ordercost /\ local[s].ordercost \in Nat /\ Sales \in Nat
      BY <2>2, SalesPay, PayDoes, SalesNat
    <3>2. cash0.initial \in Nat /\ SigLimit \in Nat
      BY FilesAssumption, BoundsAssumption DEF CashRecord
    <3>3. cash0.initial + Sales' < SigLimit
      BY <1>2 DEF WithinDigits
    <3>. QED  BY <3>1, <3>2, <3>3 DEF WithinDigits
  <2>. QED  BY <1>1, <2>1, <2>2
<1>. QED  BY <1>1, <1>2

-----------------------------------------------------------------------------
(* The sales reach the cash.  While nobody is replacing cash.txt it has all  *)
(* the sales; so has the copy of whoever has read it and will write it.      *)
AfterCash == Visit \ {"initCash"}

HasCash(s) == \/ Buys(s, AfterCash) \/ local[s].job = "order"
              \/ pc[s] \in {"openCash", "fillCash"}

Banked ==
    /\ cashFile = Empty => \E s \in Sessions : pc[s] = "fillCash"
    /\ cashFile # Empty => cashFile.in = Sales \/ \E s \in Sessions : pc[s] = "openCash"
    /\ \A s \in Sessions : HasCash(s) => local[s].cash.in = Sales

(* A step that neither writes cash.txt nor is paid for: *)
LEMMA BankedFrame ==
  ASSUME Banked, NEW s \in Sessions, Others(s), UNCHANGED <<cashFile, bill>>,
         pc[s] \notin {"openCash", "fillCash"},
         HasCash(s)' => local'[s].cash.in = Sales
  PROVE  Banked'
<1>1. Sales' = Sales
  BY DEF Sales
<1>2. \A r \in Sessions : HasCash(r)' => local'[r].cash.in = Sales
  BY DEF Banked, Others, HasCash, Buys
<1>3. /\ (\E r \in Sessions : pc[r] = "fillCash") => \E r \in Sessions : pc'[r] = "fillCash"
      /\ (\E r \in Sessions : pc[r] = "openCash") => \E r \in Sessions : pc'[r] = "openCash"
  BY DEF Others
<1>. QED  BY <1>1, <1>2, <1>3 DEF Banked

(* The same, where the cash in the copy is the one it had. *)
LEMMA BankedKept ==
  ASSUME Banked, NEW s \in Sessions, Others(s), UNCHANGED <<cashFile, bill>>,
         pc[s] \notin {"openCash", "fillCash"},
         HasCash(s)' => HasCash(s) /\ local'[s].cash.in = local[s].cash.in
  PROVE  Banked'
BY BankedFrame DEF Banked

(* Cash that is read is all the sales. *)
LEMMA CashRead ==
  ASSUME Alone, Banked, NEW s \in Sessions, cashFile # Empty,
         pc[s] \notin Idle \cup {"openCash"}
  PROVE  cashFile.in = Sales
BY DEF Alone, Banked, Idle

LEMMA IdleCash ==
  ASSUME SessionsOK, NEW s \in Sessions, pc[s] \in Idle
  PROVE  ~ HasCash(s)
<1>1. local[s] = NoLocal
  BY Here DEF Stage, Idle
<1>2. local[s].job = "buy"
  BY <1>1 DEF NoLocal
<1>. QED  BY <1>2 DEF HasCash, Buys, AfterCash, Visit, Unsaved, Idle

LEMMA BankedPay ==
  ASSUME IInv, Alone, Banked, NEW s \in Sessions, Pay(s)
  PROVE  Banked'
<1>1. Others(s) /\ SessionsOK /\ SessionsOK'
  BY OthersStay, PayOK DEF Proceed, IInv
<1>2. pc[s] = "bill" /\ pc'[s] = "openCash" /\ UNCHANGED cashFile /\ local[s].job = "buy"
  BY PayDoes
<1>3. \A r \in Sessions \ {s} : ~ HasCash(r)'
  BY <1>1, <1>2, Working, IdleCash DEF AtWork, Idle, HasCash, Buys, Others
<1>4. local'[s].cash.in = Sales'
  <2>1. local[s].cash.in = Sales
    BY <1>2 DEF Banked, HasCash, Buys, AfterCash, Visit
  <2>2. local'[s].cash = CashIn(local[s].cash, local[s].ordercost)
    BY PayDoes
  <2>3. local[s].cash \in CashRecord
    BY <1>1, Here DEF CashOK
  <2>4. local'[s].cash.in = local[s].cash.in + local[s].ordercost
    BY <2>2, <2>3 DEF CashIn, CashRecord
  <2>. QED  BY <2>1, <2>4, SalesPay
<1>5. cashFile # Empty
  BY <1>2, Working, <1>1 DEF Banked, AtWork, Idle
<1>. QED  BY <1>2, <1>3, <1>4, <1>5 DEF Banked

LEMMA BankedWrite ==
  ASSUME IInv, Alone, WithinDigits, Banked, NEW s \in Sessions, OpenCash(s) \/ FillCash(s)
  PROVE  Banked'
<1>1. Others(s) /\ SessionsOK
  BY OthersStay DEF Proceed, IInv
<1>2. pc[s] \in {"openCash", "fillCash"} /\ UNCHANGED bill
  BY <1>1, WriteCashDoes
<1>3. Sales' = Sales /\ local[s].cash.in = Sales
  BY <1>2 DEF Sales, Banked, HasCash
<1>4. \A r \in Sessions \ {s} : ~ HasCash(r)'
  BY <1>1, <1>2, Working, IdleCash DEF AtWork, Idle, HasCash, Buys, Others
<1>5. CASE OpenCash(s)
  BY <1>1, <1>3, <1>4, <1>5, WriteCashDoes DEF Banked
<1>6. CASE FillCash(s)
  <2>1. /\ cashFile' = FmtCash(local[s].cash) /\ cashFile' # Empty
        /\ local'[s] = local[s] \/ (pc'[s] = "home" /\ local'[s] = NoLocal)
    BY <1>1, <1>6, WriteCashDoes
  <2>2. cashFile'.in = Sales
    <3>1. Sales < SigLimit /\ Sales \in Nat
      BY SalesNat, FilesAssumption, BoundsAssumption DEF WithinDigits, CashRecord
    <3>. QED  BY <1>3, <2>1, <3>1 DEF FmtCash, Fmt
  <2>3. HasCash(s)' => local'[s].cash.in = Sales
    BY <1>3, <2>1 DEF HasCash, Buys, AfterCash, Visit, Unsaved, NoLocal
  <2>. QED  BY <1>3, <1>4, <2>1, <2>2, <2>3 DEF Banked
<1>. QED  BY <1>5, <1>6

LEMMA BankedProceed ==
  ASSUME IInv, Alone, WithinDigits, Banked, NEW s \in Sessions, Proceed(s)
  PROVE  Banked'
<1>1. Others(s) /\ SessionsOK
  BY OthersStay DEF IInv
<1>. USE <1>1 DEF Books
<1>2. CASE Pay(s) \/ OpenCash(s) \/ FillCash(s)
  BY <1>2, BankedPay, BankedWrite
<1>3. CASE InitCash(s) \/ ReadCash(s)
  <2>1. pc[s] \in {"initCash", "readCash"} /\ cashFile # Empty /\ UNCHANGED <<cashFile, bill>>
        /\ local'[s].cash = cashFile
    BY <1>3, TakeCashDoes
  <2>. QED  BY <2>1, CashRead, BankedFrame DEF Idle
<1>4. ASSUME UNCHANGED <<cashFile, bill>>, pc[s] \notin {"openCash", "fillCash"},
             local'[s].cash.in = local[s].cash.in, local'[s].job = local[s].job,
             Buys(s, AfterCash) \/ (pc'[s] \notin AfterCash)
      PROVE  Banked'
  BY <1>4, BankedKept DEF HasCash, Buys, AfterCash, Visit, Unsaved
<1>5. CASE InitBalance(s) \/ NoAccounts(s)
  BY <1>4, <1>5, StartDoes DEF Buys, AfterCash, Visit, Unsaved
<1>6. CASE Bill(s) \/ Refuse(s) \/ Sell(s)
  BY <1>4, <1>6, BillDoes, RefuseDoes, ForgetDoes, SellDoes DEF Buys, AfterCash, Visit, Unsaved
<1>7. CASE SellAndReorder(s)
  <2>1. local[s].cash \in CashRecord
    BY Here DEF CashOK
  <2>2. local'[s].cash.in = local[s].cash.in
    BY <1>7, <2>1, SellAndReorderDoes DEF CashOut, CashRecord
  <2>. QED  BY <1>4, <1>7, <2>2, SellAndReorderDoes DEF Buys, AfterCash, Visit, Unsaved
<1>8. CASE CopyBalance(s)
  BY <1>4, <1>8, CopyBalanceDoes DEF Buys, AfterCash, Visit, Unsaved
<1>9. CASE CopyFails(s) \/ Remove(s) \/ Rename(s)
  <2>1. /\ UNCHANGED <<cashFile, bill>> /\ pc[s] \in {"items", "remove", "rename"}
        /\ pc[s] = "items" => local[s].job = "buy"
        /\ local'[s] = local[s] \/ (pc'[s] = "home" /\ local'[s] = NoLocal)
    BY <1>9, WriteAccountsDoes, Here DEF Stage
  <2>2. HasCash(s)' => HasCash(s) /\ local'[s] = local[s]
    <3>1. local'[s] = NoLocal /\ pc'[s] = "home" => ~ HasCash(s)'
      BY DEF HasCash, Buys, AfterCash, Visit, Unsaved, NoLocal
    <3>2. local'[s] = local[s] /\ HasCash(s)' => HasCash(s)
      <4>1. pc'[s] \notin {"openCash", "fillCash"}
        BY <1>9, WriteAccountsDoes
      <4>. QED  BY <2>1, <4>1 DEF HasCash, Buys, AfterCash, Visit, Unsaved
    <3>. QED  BY <2>1, <3>1, <3>2
  <2>. QED  BY <2>1, <2>2, BankedKept
<1>10. CASE OpenGoods(s)
  BY <1>10, WriteGoodsDoes, BankedKept DEF HasCash, Buys, AfterCash, Visit, Unsaved
<1>11. CASE FillGoods(s)
  <2>1. UNCHANGED <<cashFile, bill>> /\ pc[s] = "fillGoods"
    BY <1>11, WriteGoodsDoes
  <2>2. HasCash(s)' => HasCash(s) /\ local'[s].cash.in = local[s].cash.in
    <3>1. CASE local[s].job = "buy" /\ pc'[s] = "menu" /\ local' = Forget(s)
      BY <2>1, <3>1, ForgetDoes DEF HasCash, Buys, AfterCash, Visit, Unsaved
    <3>2. CASE local[s].job = "order" /\ local'[s] = local[s]
      BY <3>2 DEF HasCash
    <3>3. CASE pc'[s] = "home" /\ local'[s] = NoLocal
      BY <3>3 DEF HasCash, Buys, AfterCash, Visit, Unsaved, NoLocal
    <3>. QED  BY <1>11, <3>1, <3>2, <3>3, WriteGoodsDoes
  <2>. QED  BY <2>1, <2>2, BankedKept
<1>. QED  BY <1>2, <1>3, <1>5, <1>6, <1>7, <1>8, <1>9, <1>10, <1>11 DEF Proceed

LEMMA BankedRequest ==
  ASSUME IInv, Serial, Alone, Banked, NEW s \in Sessions, Request(s)
  PROVE  Banked'
<1>1. Others(s) /\ SessionsOK
  BY OthersStay DEF IInv
<1>. USE <1>1 DEF Books
<1>2. ASSUME UNCHANGED <<cashFile, bill>>, pc[s] \notin {"openCash", "fillCash"},
             local'[s] # NoLocal => local'[s].job # "order",
             pc'[s] \notin AfterCash
      PROVE  Banked'
  BY <1>2, BankedKept DEF HasCash, Buys, AfterCash, Visit, Unsaved, NoLocal
<1>3. CASE Quietly(s)
  <2>1. UNCHANGED <<cashFile, bill>> /\ pc[s] \notin {"openCash", "fillCash"}
    BY <1>3, QuietlyDoes
  <2>2. HasCash(s)' => HasCash(s) /\ local'[s].cash.in = local[s].cash.in
    BY <1>3, QuietlyDoes DEF HasCash, Buys, AfterCash, Visit, Unsaved, Idle
  <2>. QED  BY <2>1, <2>2, BankedKept
<1>4. CASE SignUp(s)
  BY <1>4, BankedKept DEF SignUp, HasCash, Buys
<1>5. CASE InitGoods(s) \/ ReadStock(s)
  BY <1>5, <1>2, ReadGoodsDoes DEF AfterCash, Visit, Unsaved
<1>6. ASSUME NEW i \in Items, NEW q \in 1 .. MaxQuantity, Add(s, i, q) PROVE Banked'
  BY <1>6, AddDoes, BankedKept DEF HasCash, Buys, AfterCash, Visit
<1>7. ASSUME NEW j \in {"balance", "delete"}, NEW u, NEW x, Edit(s, j, u, x) PROVE Banked'
  BY <1>7, EditDoes, BankedKept DEF HasCash, Buys
<1>8. ASSUME NEW j \in {"balance", "delete"}, NEW u, EditFails(s, j, u) PROVE Banked'
  BY <1>8, EditFailsDoes, BankedKept DEF HasCash, Buys, AfterCash, Visit, Unsaved
<1>9. ASSUME NEW i \in Items, NameOrdered(s, i) PROVE Banked'
  BY <1>9, NameOrderedDoes, CashRead, BankedFrame DEF Idle
<1>10. ASSUME NEW i \in Items, NEW t \in NewTerms, Modify(s, i, t) PROVE Banked'
  BY <1>10, ModifyDoes, BankedKept DEF HasCash, Buys
<1>11. ASSUME NEW q \in 1 .. MaxQuantity, Order(s, q) PROVE Banked'
  BY <1>11, OrderDoes, BankedKept DEF HasCash, Buys
<1>. QED  BY <1>3, <1>4, <1>5, <1>6, <1>7, <1>8, <1>9, <1>10, <1>11
          DEF Request, Quietly, Delete, SetBalance

(* One at a time and without a crash, every order paid for is in cash.txt    *)
(* when nothing is being written, while the sums are below what six digits   *)
(* can show (Person::buy and update_cash, Admin::stock).                     *)
THEOREM SalesAreBanked ==
  Serial /\ MaxCrashes = 0 => (Spec => [](WithinDigits => SalesReachCash))
<1>. SUFFICES ASSUME Serial, MaxCrashes = 0
              PROVE  Spec => [](WithinDigits => SalesReachCash)
  OBVIOUS
<1>1. Init => Banked
  <2>. SUFFICES ASSUME Init PROVE Banked
    OBVIOUS
  <2>1. bill = [u \in Users |-> 0] /\ cashFile = cash0 /\ cash0 # Empty /\ cash0.in \in Nat
        /\ \A s \in Sessions : pc[s] = "out"
    BY FilesAssumption, MarkersAssumption DEF Init, CashRecord
  <2>2. Sales = cash0.in
    BY <2>1, UsersAssumption, TotalZero DEF Sales
  <2>3. \A s \in Sessions : ~ HasCash(s)
    BY InitOK, IdleCash, <2>1 DEF IInv, Idle
  <2>. QED  BY <2>1, <2>2, <2>3 DEF Banked
<1>2. (IInv /\ Alone /\ Accounted) /\ (WithinDigits => Banked) /\ [Next]_vars
        => (WithinDigits => Banked)'
  <2>. SUFFICES ASSUME IInv, Alone, WithinDigits => Banked, [Next]_vars, WithinDigits'
                PROVE  Banked'
    OBVIOUS
  <2>1. WithinDigits /\ Banked
    BY SalesGrow
  <2>2. CASE UNCHANGED vars
    BY <2>1, <2>2 DEF vars, fileVars, historyVars, Banked, HasCash, Buys, Sales
  <2>3. ASSUME NEW s \in Sessions, Proceed(s) \/ Request(s) PROVE Banked'
    BY <2>1, <2>3, BankedProceed, BankedRequest
  <2>. QED  BY <2>2, <2>3, OneSteps
<1>3. IInv /\ Banked => SalesReachCash
  BY SalesMatch DEF Banked, Quiet
<1>. QED  BY <1>1, <1>2, <1>3, SerialInvariance, PTL DEF Spec

-----------------------------------------------------------------------------
(* What is taken off the balances is in the cash, wherever the process ends. *)
(* A record is the one in its file or, while that is replaced, in tmp.txt.   *)
AllFiles ==
    \A f \in Files : acct[f] = Missing =>
        \E s \in Sessions : pc[s] = "rename" /\ FileOf[local[s].target] = f

Swap(p, l) ==
    p \in {"remove", "rename"} =>
        /\ l.job = "buy" /\ tmp # Missing
        /\ acct[FileOf[l.target]] = Missing <=> p = "rename"

Record == [u \in Users |-> IF acct[FileOf[u]] # Missing THEN acct[FileOf[u]][u] ELSE tmp[u]]
Debits == Total([u \in Users |-> balance0[u] - Record[u]])

(* What session of u at p with variables l and balance b knows of it. *)
Holding(p, l) == \/ l.job = "buy" /\ p \in AfterCash
                 \/ l.job = "order" \/ p \in {"openCash", "fillCash"}
Owed(u, l, b) == IF l.job = "buy" THEN Record[u] - b ELSE 0

CreditsIn(u, p, l, b) ==
    /\ l.job = "buy" /\ p \in Visit =>
          IF p \in Unsaved THEN b <= Record[u] ELSE b = Record[u]
    /\ l.job = "buy" /\ p = "remove" =>
          /\ l.target = u
          /\ \A v \in Users : FileOf[v] = FileOf[u] =>
                tmp[v] = IF v = u THEN b ELSE Record[v]
    /\ Holding(p, l) => /\ l.cash.in <= Sales
                        /\ Debits + Owed(u, l, b) <= l.cash.in - cash0.in
    /\ l.job = "buy" /\ p \in {"readCash", "items", "remove"} =>
          cashFile = Empty \/ cashFile.in = l.cash.in

CashCovers ==
    /\ \A u \in Users : Record[u] \in Nat /\ Record[u] <= balance0[u]
    /\ cashFile # Empty => cashFile.in <= Sales /\ Debits <= cashFile.in - cash0.in

Swaps   == \A s \in Sessions : Swap(pc[s], local[s])
Credits == /\ CashCovers
           /\ \A s \in Sessions : CreditsIn(user[s], pc[s], local[s], balance[s])

LEMMA DebitsInt ==
  ASSUME CashCovers
  PROVE  Debits \in Int
<1>1. [u \in Users |-> balance0[u] - Record[u]] \in [Users -> Int]
  BY FilesAssumption DEF CashCovers
<1>. QED  BY <1>1, UsersAssumption, TotalInt DEF Debits

LEMMA NoCredits ==
  ASSUME NEW u, NEW p, NEW l, NEW b, p \notin {"openCash", "fillCash"},
         l.job # "buy" \/ p \notin Visit, l.job # "order"
  PROVE  CreditsIn(u, p, l, b)
BY DEF CreditsIn, Holding, AfterCash, Visit, Unsaved

LEMMA IdleCredits ==
  ASSUME SessionsOK, NEW s \in Sessions, pc[s] \in Idle, NEW u
  PROVE  CreditsIn(u, pc[s], local[s], balance[s]) /\ local[s].job = "buy"
<1>1. local[s] = NoLocal
  BY Here DEF Stage, Idle
<1>2. local[s].job = "buy"
  BY <1>1 DEF NoLocal
<1>. QED  BY <1>2, NoCredits DEF Visit, Unsaved, Idle

(* A step that writes neither an accounts file nor cash.txt: *)
LEMMA CreditsFrame ==
  ASSUME Credits, NEW s \in Sessions, Others(s), UNCHANGED <<cashFile, acct, tmp, bill>>,
         \A r \in Sessions \ {s} : balance'[r] = balance[r],
         CreditsIn(user[s], pc'[s], local'[s], balance'[s])
  PROVE  Credits'
<1>1. Record' = Record /\ Debits' = Debits /\ Sales' = Sales
  BY DEF Record, Debits, Sales
<1>2. CashCovers'
  BY <1>1 DEF Credits, CashCovers
<1>3. ASSUME NEW r \in Sessions
      PROVE  CreditsIn(user[r], pc'[r], local'[r], balance'[r])
  BY DEF Credits, Others
<1>4. ASSUME NEW r \in Sessions
      PROVE  CreditsIn(user[r], pc[r], local[r], balance[r])'
  BY <1>1, <1>3 DEF CreditsIn, Holding, Owed
<1>. QED  BY <1>2, <1>4 DEF Credits

(* A step of the one session at work: the others hold nothing. *)
LEMMA CreditsAtWork ==
  ASSUME SessionsOK, NEW s \in Sessions, Others(s), AtWork(s),
         CashCovers', CreditsIn(user[s], pc[s], local[s], balance[s])'
  PROVE  Credits'
<1>1. ASSUME NEW r \in Sessions \ {s}
      PROVE  CreditsIn(user[r], pc[r], local[r], balance[r])'
  <2>1. pc'[r] \in Idle /\ local'[r] = local[r]
    BY DEF AtWork, Others
  <2>2. local'[r].job = "buy"
    BY <2>1, IdleCredits DEF AtWork
  <2>. QED  BY <2>1, <2>2 DEF CreditsIn, Holding, AfterCash, Visit, Unsaved, Idle
<1>. QED  BY <1>1 DEF Credits

LEMMA SwapFrame ==
  ASSUME Swaps, NEW s \in Sessions, Others(s), UNCHANGED <<acct, tmp>>,
         pc'[s] \notin {"remove", "rename"}
  PROVE  Swaps'
BY DEF Swaps, Swap, Others

LEMMA AllFilesFrame ==
  ASSUME NEW s \in Sessions, Others(s), UNCHANGED acct, pc'[s] # "rename", AllFiles'
  PROVE  AllFiles
BY DEF AllFiles, Others

(* Nobody signs up, and the administrator changes no account. *)
NoEdits == Signers = {} /\ "balance" \notin AdminJobs /\ "delete" \notin AdminJobs

Rewrites(s) == CopyBalance(s) \/ CopyFails(s) \/ Remove(s) \/ Rename(s)

LEMMA RequestEdits ==
  ASSUME IInv, Serial, NoEdits, NEW s \in Sessions, Request(s)
  PROVE  \/ Quietly(s) \/ InitGoods(s) \/ ReadStock(s)
         \/ \E i \in Items, q \in 1 .. MaxQuantity : Add(s, i, q)
         \/ \E i \in Items : NameOrdered(s, i)
         \/ \E i \in Items, t \in NewTerms : Modify(s, i, t)
         \/ \E q \in 1 .. MaxQuantity : Order(s, q)
<1>1. ~ SignUp(s)
  BY DEF SignUp, NoEdits
<1>2. \A j \in {"balance", "delete"} : \A u, x : ~ Edit(s, j, u, x) /\ ~ EditFails(s, j, u)
  BY DEF NoEdits, Edit, EditFails, AdminJob
<1>. QED  BY <1>1, <1>2 DEF Request, Quietly, Delete, SetBalance

LEMMA PlainStep ==
  ASSUME IInv, Serial, NoEdits, NEW s \in Sessions, Proceed(s) \/ Request(s), ~ Rewrites(s)
  PROVE  UNCHANGED <<acct, tmp>> /\ pc'[s] \notin {"remove", "rename"}
<1>1. SessionsOK
  BY DEF IInv
<1>. USE <1>1 DEF Books
<1>2. CASE Proceed(s)
  <2>1. CASE InitBalance(s) \/ NoAccounts(s)
    BY <2>1, StartDoes
  <2>2. CASE InitCash(s) \/ ReadCash(s)
    BY <2>2, TakeCashDoes
  <2>3. CASE Bill(s) \/ Refuse(s) \/ Sell(s) \/ SellAndReorder(s)
    BY <2>3, BillDoes, RefuseDoes, SellDoes, SellAndReorderDoes
  <2>4. CASE Pay(s)
    BY <2>4, PayDoes
  <2>5. CASE OpenCash(s) \/ FillCash(s)
    BY <2>5, WriteCashDoes
  <2>6. CASE OpenGoods(s) \/ FillGoods(s)
    BY <2>6, WriteGoodsDoes
  <2>. QED  BY <1>2, <2>1, <2>2, <2>3, <2>4, <2>5, <2>6 DEF Proceed, Rewrites
<1>3. CASE Request(s)
  <2>1. CASE Quietly(s)
    BY <2>1, QuietlyDoes DEF Idle
  <2>2. CASE InitGoods(s) \/ ReadStock(s)
    BY <2>2, ReadGoodsDoes
  <2>3. ASSUME NEW i \in Items, NEW q \in 1 .. MaxQuantity, Add(s, i, q)
        PROVE  UNCHANGED <<acct, tmp>> /\ pc'[s] \notin {"remove", "rename"}
    BY <2>3, AddDoes
  <2>4. ASSUME NEW i \in Items, NameOrdered(s, i)
        PROVE  UNCHANGED <<acct, tmp>> /\ pc'[s] \notin {"remove", "rename"}
    BY <2>4, NameOrderedDoes
  <2>5. ASSUME NEW i \in Items, NEW t \in NewTerms, Modify(s, i, t)
        PROVE  UNCHANGED <<acct, tmp>> /\ pc'[s] \notin {"remove", "rename"}
    BY <2>5, ModifyDoes
  <2>6. ASSUME NEW q \in 1 .. MaxQuantity, Order(s, q)
        PROVE  UNCHANGED <<acct, tmp>> /\ pc'[s] \notin {"remove", "rename"}
    BY <2>6, OrderDoes
  <2>. QED  BY <1>3, <2>1, <2>2, <2>3, <2>4, <2>5, <2>6, RequestEdits
<1>. QED  BY <1>2, <1>3

(* The rewriting of an accounts file, in terms of what is in it. *)
LEMMA RewriteDoes ==
  ASSUME IInv, Alone, Swaps, NEW s \in Sessions, Rewrites(s)
  PROVE  /\ AtWork(s) /\ UNCHANGED <<cashFile, bill, balance>>
         /\ Swap(pc[s], local[s])'
         /\ CopyBalance(s) \/ CopyFails(s) => UNCHANGED acct
         /\ Remove(s) => /\ acct[FileOf[local[s].target]] # Missing
                         /\ acct' = [acct EXCEPT ![FileOf[local[s].target]] = Missing]
         /\ Rename(s) => /\ acct[FileOf[local[s].target]] = Missing /\ tmp # Missing
                         /\ acct' = [acct EXCEPT ![FileOf[local[s].target]] = tmp]
         /\ pc'[s] = "rename" => Remove(s) /\ local'[s] = local[s]
<1> DEFINE f == FileOf[local[s].target]
<1>1. SessionsOK /\ Others(s) /\ f \in Files
  BY OthersStay, Here, PeopleAssumption DEF IInv, Proceed, Rewrites
<1>2. pc[s] \in {"items", "remove", "rename"} /\ UNCHANGED <<cashFile, bill, balance>>
  BY <1>1, CopyBalanceDoes, WriteAccountsDoes DEF Rewrites
<1>3. AtWork(s)
  BY <1>1, <1>2, Working DEF Idle
<1>4. CASE CopyBalance(s)
  <2>1. /\ tmp' = Changed(Home(s), user[s], Fmt(balance[s])) /\ acct[Home(s)] # Missing
        /\ UNCHANGED acct /\ pc'[s] = "remove" /\ local'[s].job = "buy"
        /\ local'[s].target = user[s]
    BY <1>1, <1>4, CopyBalanceDoes
  <2>2. tmp' # Missing
    <3>1. Home(s) \in Files /\ user[s] \in Users /\ Fmt(balance[s]) \in Nat
      BY <1>1, <1>2, <1>4, Here, FmtNat, PeopleAssumption
         DEF CopyBalance, Goto, Stage, Home
    <3>2. AccountsOK(tmp')
      BY <2>1, <3>1, ChangedOK DEF IInv
    <3>. QED  BY <3>2, MarkersAssumption DEF AccountsOK, Accounts
  <2>3. Swap(pc[s], local[s])'
    BY <2>1, <2>2 DEF Swap, Home
  <2>4. ~ CopyFails(s) /\ ~ Remove(s) /\ ~ Rename(s)
    BY <2>1, <1>4 DEF CopyFails, CopyBalance, Remove, Rename, Pass, Goto
  <2>. QED  BY <1>2, <1>3, <2>1, <2>3, <2>4
<1>5. CASE CopyFails(s)
  <2>1. UNCHANGED acct /\ pc'[s] = "openGoods"
    BY <1>1, <1>5, WriteAccountsDoes DEF CopyFails, Remove, Rename, Pass, Goto
  <2>2. ~ Remove(s) /\ ~ Rename(s)
    BY <1>5 DEF CopyFails, Remove, Rename, Pass, Goto
  <2>. QED  BY <1>2, <1>3, <2>1, <2>2 DEF Swap
<1>6. CASE Remove(s)
  <2>1. /\ pc[s] = "remove" /\ pc'[s] = "rename" /\ local'[s] = local[s] /\ UNCHANGED tmp
        /\ acct' = [acct EXCEPT ![f] = Missing]
    BY <1>1, <1>6, PassOthers DEF Remove
  <2>2. local[s].job = "buy" /\ tmp # Missing /\ acct[f] # Missing
    BY <2>1 DEF Swaps, Swap
  <2>3. acct'[f] = Missing
    BY <1>1, <2>1 DEF IInv, FilesOK
  <2>4. ~ CopyBalance(s) /\ ~ CopyFails(s) /\ ~ Rename(s)
    BY <2>1 DEF CopyBalance, CopyFails, Rename, Pass, Goto
  <2>. QED  BY <1>2, <1>3, <1>6, <2>1, <2>2, <2>3, <2>4 DEF Swap
<1>7. CASE Rename(s)
  <2>1. pc[s] = "rename" /\ pc'[s] \in {"openGoods", "home"}
    BY <1>1, <1>7, PassOthers DEF Rename
  <2>2. tmp # Missing /\ acct[f] = Missing
    BY <2>1 DEF Swaps, Swap
  <2>3. acct' = [acct EXCEPT ![f] = tmp]
    BY <1>7, <2>2 DEF Rename
  <2>4. ~ CopyBalance(s) /\ ~ CopyFails(s) /\ ~ Remove(s)
    BY <2>1 DEF CopyBalance, CopyFails, Remove, Pass, Goto
  <2>. QED  BY <1>2, <1>3, <2>1, <2>2, <2>3, <2>4 DEF Swap
<1>. QED  BY <1>4, <1>5, <1>6, <1>7 DEF Rewrites

LEMMA SwapStep ==
  ASSUME IInv, Serial, NoEdits, Alone, Swaps, NEW s \in Sessions, Proceed(s) \/ Request(s)
  PROVE  Swaps'
<1>1. Others(s)
  BY OthersStay
<1>2. CASE ~ Rewrites(s)
  BY <1>1, <1>2, PlainStep, SwapFrame
<1>3. CASE Rewrites(s)
  BY <1>3, RewriteDoes DEF Swaps, Swap, AtWork, Idle
<1>. QED  BY <1>2, <1>3

(* A file that is gone does not come back by a step of this module's runs.   *)
LEMMA AllFilesStep ==
  ASSUME IInv, Serial, NoEdits, Alone, Swaps, NEW s \in Sessions, Proceed(s) \/ Request(s),
         AllFiles'
  PROVE  AllFiles
<1>1. SessionsOK /\ Others(s) /\ FileOf[local[s].target] \in Files
  BY OthersStay, Here, PeopleAssumption DEF IInv
<1>2. CASE ~ Rewrites(s)
  BY <1>1, <1>2, PlainStep, AllFilesFrame
<1>3. CASE CopyBalance(s) \/ CopyFails(s)
  <2>1. UNCHANGED acct /\ pc'[s] # "rename"
    BY <1>1, <1>3, RewriteDoes, CopyBalanceDoes, WriteAccountsDoes
       DEF Rewrites, CopyFails, Remove, Rename, Pass, Goto
  <2>. QED  BY <1>1, <2>1, AllFilesFrame
<1>4. CASE Remove(s) \/ Rename(s)
  <2> DEFINE f == FileOf[local[s].target]
  <2>1. AtWork(s) /\ \A g \in Files \ {f} : acct'[g] = acct[g]
    BY <1>4, RewriteDoes DEF Rewrites, IInv, FilesOK
  <2>2. acct[f] = Missing => pc[s] = "rename"
    BY <1>4, RewriteDoes DEF Rewrites, Rename, Pass, Goto
  <2>3. ASSUME NEW g \in Files \ {f} PROVE acct[g] # Missing
    BY <1>4, <2>1, RewriteDoes DEF AllFiles, AtWork, Idle, Rewrites
  <2>. QED  BY <1>1, <2>2, <2>3 DEF AllFiles
<1>. QED  BY <1>2, <1>3, <1>4 DEF Rewrites

(* The cash is read: it covers the debits. *)
LEMMA CreditsTake ==
  ASSUME IInv, Credits, NEW s \in Sessions, InitCash(s) \/ ReadCash(s)
  PROVE  Credits'
<1>1. SessionsOK /\ Others(s)
  BY OthersStay DEF IInv, Proceed
<1>2. /\ UNCHANGED <<cashFile, acct, tmp, bill, balance>> /\ cashFile # Empty
      /\ \/ pc[s] = "initCash" /\ pc'[s] = "menu"
         \/ pc[s] = "readCash" /\ pc'[s] = "items"
      /\ local[s].job = "buy" /\ local'[s].job = "buy" /\ local'[s].cash = cashFile
  BY <1>1, TakeCashDoes DEF Books
<1>3. CreditsIn(user[s], pc[s], local[s], balance[s])
  BY DEF Credits
<1>4. CASE pc[s] = "initCash" /\ pc'[s] = "menu"
  <2>1. balance[s] = Record[user[s]] /\ Record[user[s]] \in Nat
    BY <1>2, <1>3, <1>4, PeopleAssumption DEF CreditsIn, Visit, Unsaved, Credits, CashCovers
  <2>2. /\ cashFile.in <= Sales /\ Debits <= cashFile.in - cash0.in
        /\ Debits + 0 = Debits
    BY <1>2, DebitsInt DEF Credits, CashCovers
  <2>3. Owed(user[s], local'[s], balance[s]) = 0
    BY <1>2, <2>1 DEF Owed
  <2>4. CreditsIn(user[s], pc'[s], local'[s], balance[s])
    BY <1>2, <1>4, <2>1, <2>2, <2>3 DEF CreditsIn, Visit, Unsaved
  <2>. QED  BY <1>1, <1>2, <2>4, CreditsFrame
<1>5. CASE pc[s] = "readCash" /\ pc'[s] = "items"
  <2>1. cashFile.in = local[s].cash.in /\ balance[s] <= Record[user[s]]
    BY <1>2, <1>3, <1>5 DEF CreditsIn, Visit, Unsaved
  <2>2. Owed(user[s], local'[s], balance[s]) = Owed(user[s], local[s], balance[s])
    BY <1>2 DEF Owed
  <2>3. CreditsIn(user[s], pc'[s], local'[s], balance[s])
    BY <1>2, <1>3, <1>5, <2>1, <2>2 DEF CreditsIn, Holding, AfterCash, Visit, Unsaved
  <2>. QED  BY <1>1, <1>2, <2>3, CreditsFrame
<1>. QED  BY <1>2, <1>4, <1>5

LEMMA CreditsPay ==
  ASSUME IInv, Alone, Credits, NEW s \in Sessions, Pay(s)
  PROVE  Credits'
<1> DEFINE u == user[s]
           x == local[s].ordercost
           c == local[s].cash
<1>1. SessionsOK /\ Others(s) /\ u \in Users /\ c \in CashRecord
  BY OthersStay, Here, PeopleAssumption DEF IInv, Proceed, CashOK
<1>2. /\ UNCHANGED <<cashFile, acct, tmp>> /\ pc[s] = "bill" /\ pc'[s] = "openCash"
      /\ x \in Nat /\ balance[s] \in Nat /\ balance'[s] = balance[s] - x
      /\ local[s].job = "buy" /\ local'[s].job = "buy" /\ local'[s].cash = CashIn(c, x)
  BY PayDoes
<1>3. AtWork(s)
  BY <1>1, <1>2, Working DEF Idle
<1>4. /\ Record' = Record /\ Debits' = Debits /\ Sales' = Sales + x /\ Sales \in Nat
      /\ Debits \in Int /\ cash0.in \in Nat
  BY <1>2, SalesPay, SalesNat, DebitsInt DEF Record, Debits, Credits
<1>5. CashCovers'
  <2>1. cashFile # Empty => cashFile.in \in Nat
    BY DEF IInv, FilesOK, CashOK, CashRecord
  <2>. QED  BY <1>2, <1>4, <2>1 DEF Credits, CashCovers
<1>6. /\ balance[s] = Record[u] /\ c.in <= Sales
      /\ Debits + Owed(u, local[s], balance[s]) <= c.in - cash0.in
  BY <1>2 DEF Credits, CreditsIn, Holding, AfterCash, Visit, Unsaved
<1>7. CreditsIn(u, pc[s], local[s], balance[s])'
  <2>1. local'[s].cash.in = c.in + x /\ c.in \in Nat
    BY <1>1, <1>2 DEF CashIn, CashRecord
  <2>2. Debits <= c.in - cash0.in
    BY <1>2, <1>4, <1>6 DEF Owed
  <2>3. balance'[s] <= Record[u] /\ Record[u] - balance'[s] = x
    BY <1>2, <1>6
  <2>4. local'[s].cash.in <= Sales' /\ Debits + x <= local'[s].cash.in - cash0.in
    BY <1>2, <1>4, <1>6, <2>1, <2>2
  <2>. HIDE DEF x, c, u
  <2>. QED  BY <1>2, <1>4, <2>3, <2>4 DEF CreditsIn, Owed, Visit, Unsaved
<1>. QED  BY <1>1, <1>3, <1>5, <1>7, CreditsAtWork

LEMMA CreditsWrite ==
  ASSUME IInv, Alone, WithinDigits, Credits, NEW s \in Sessions, OpenCash(s) \/ FillCash(s)
  PROVE  Credits'
<1> DEFINE u == user[s]
           c == local[s].cash
<1>1. SessionsOK /\ Others(s) /\ u \in Users /\ c \in CashRecord
  BY OthersStay, Here, PeopleAssumption DEF IInv, Proceed, CashOK
<1>2. UNCHANGED <<acct, tmp, bill, balance>> /\ pc[s] \in {"openCash", "fillCash"}
  BY <1>1, WriteCashDoes
<1>3. AtWork(s)
  BY <1>1, <1>2, Working DEF Idle
<1>4. /\ Record' = Record /\ Debits' = Debits /\ Sales' = Sales
      /\ Debits \in Int /\ cash0.in \in Nat
  BY <1>2, SalesNat, DebitsInt DEF Record, Debits, Credits, Sales
<1>5. CreditsIn(u, pc[s], local[s], balance[s])
  BY DEF Credits
<1>6. CASE OpenCash(s)
  <2>1. cashFile' = Empty /\ pc[s] = "openCash" /\ pc'[s] = "fillCash" /\ local'[s] = local[s]
    BY <1>1, <1>6, WriteCashDoes
  <2>2. CashCovers'
    BY <1>4, <2>1 DEF Credits, CashCovers
  <2>3. CreditsIn(u, pc[s], local[s], balance[s])'
    BY <1>2, <1>4, <1>5, <2>1 DEF CreditsIn, Holding, Owed, Visit, Unsaved
  <2>. QED  BY <1>1, <1>3, <2>2, <2>3, CreditsAtWork
<1>7. CASE FillCash(s)
  <2>1. /\ cashFile' = FmtCash(c) /\ cashFile' # Empty /\ pc[s] = "fillCash"
        /\ pc'[s] = IF local[s].job = "buy" THEN "readCash" ELSE "home"
        /\ local'[s] = IF local[s].job = "buy" THEN local[s] ELSE NoLocal
    BY <1>1, <1>7, WriteCashDoes
  <2>2. c.in <= Sales /\ Debits + Owed(u, local[s], balance[s]) <= c.in - cash0.in
    BY <1>5, <2>1 DEF CreditsIn, Holding
  <2>3. Debits <= c.in - cash0.in
    <3>1. Owed(u, local[s], balance[s]) \in Int /\ Owed(u, local[s], balance[s]) >= 0
      <4>1. CASE local[s].job = "buy"
        <5>1. balance[s] <= Record[u] /\ Record[u] \in Nat
          BY <1>1, <1>5, <2>1, <4>1 DEF CreditsIn, Visit, Unsaved, Credits, CashCovers
        <5>2. balance[s] \in Nat
          BY <1>1, <2>1, <4>1, Here DEF Stage
        <5>. QED  BY <4>1, <5>1, <5>2 DEF Owed
      <4>2. CASE local[s].job # "buy"
        BY <4>2 DEF Owed
      <4>. QED  BY <4>1, <4>2
    <3>2. c.in \in Int /\ \A d, o, i \in Int : d + o <= i /\ o >= 0 => d <= i
      BY <1>1 DEF CashRecord
    <3>3. c.in - cash0.in \in Int
      BY <1>4, <3>2
    <3>. QED  BY <1>4, <2>2, <3>1, <3>2, <3>3
  <2>4. cashFile'.in = c.in
    <3>1. Sales < SigLimit /\ Sales \in Nat /\ SigLimit \in Nat /\ c.in \in Nat
      BY <1>1, SalesNat, FilesAssumption, BoundsAssumption DEF WithinDigits, CashRecord
    <3>2. c.in < SigLimit
      BY <2>2, <3>1
    <3>. QED  BY <2>1, <3>2 DEF FmtCash, Fmt
  <2>5. CashCovers'
    BY <1>4, <2>2, <2>3, <2>4 DEF Credits, CashCovers
  <2>6. CreditsIn(u, pc[s], local[s], balance[s])'
    <3>1. CASE local[s].job = "buy"
      BY <1>2, <1>4, <1>5, <2>1, <2>4, <3>1
         DEF CreditsIn, Holding, Owed, AfterCash, Visit, Unsaved
    <3>2. CASE local[s].job # "buy"
      <4>1. pc'[s] = "home" /\ local'[s].job = "buy"
        BY <2>1, <3>2 DEF NoLocal
      <4>. QED  BY <4>1 DEF CreditsIn, Holding, AfterCash, Visit, Unsaved
    <3>. QED  BY <3>1, <3>2
  <2>. QED  BY <1>1, <1>3, <2>5, <2>6, CreditsAtWork
<1>. QED  BY <1>6, <1>7

(* When nobody is between remove and rename, all files are there. *)
LEMMA FilesHere ==
  ASSUME AllFiles, \A s \in Sessions : pc[s] # "rename", NEW u \in Users
  PROVE  acct[FileOf[u]] # Missing /\ Record[u] = acct[FileOf[u]][u]
BY PeopleAssumption DEF AllFiles, Record

(* One record changes: so do the debits. *)
LEMMA DebitsChange ==
  ASSUME CashCovers, NEW u \in Users, NEW b \in Nat, b <= Record[u],
         \A v \in Users : Record'[v] = IF v = u THEN b ELSE Record[v]
  PROVE  /\ Debits' = Debits + (Record[u] - b)
         /\ \A v \in Users : Record'[v] \in Nat /\ Record'[v] <= balance0[v]
<1> DEFINE d == [v \in Users |-> balance0[v] - Record[v]]
           e == [v \in Users |-> balance0[v] - Record'[v]]
<1>1. \A v \in Users : /\ Record[v] \in Nat /\ balance0[v] \in Nat /\ Record[v] <= balance0[v]
                       /\ Record'[v] \in Nat /\ Record'[v] <= balance0[v]
  BY FilesAssumption DEF CashCovers
<1>2. d \in [Users -> Int] /\ e \in [Users -> Int] /\ \A v \in Users \ {u} : e[v] = d[v]
  BY <1>1
<1>3. e[u] - d[u] = Record[u] - b
  BY <1>1
<1>4. Total(e) = Total(d) + (e[u] - d[u])
  <2>. HIDE DEF d, e
  <2>. QED  BY <1>2, UsersAssumption, TotalChange
<1>5. Debits = Total(d) /\ Debits' = Total(e)
  BY DEF Debits
<1>. QED  BY <1>1, <1>3, <1>4, <1>5

LEMMA CreditsCopy ==
  ASSUME IInv, Alone, AllFiles, Credits, \A u \in Users : balance0[u] < SigLimit,
         NEW s \in Sessions, CopyBalance(s)
  PROVE  Credits'
<1> DEFINE u == user[s]
<1>1. SessionsOK /\ Others(s) /\ u \in Users /\ Home(s) \in Files /\ Home(s) = FileOf[u]
  BY OthersStay, PeopleAssumption DEF IInv, Proceed, Home
<1>2. /\ UNCHANGED <<cashFile, acct, bill, balance>>
      /\ tmp' = Changed(Home(s), u, Fmt(balance[s])) /\ acct[Home(s)] # Missing
      /\ pc[s] = "items" /\ pc'[s] = "remove" /\ local[s].job = "buy"
      /\ local'[s].job = "buy" /\ local'[s].target = u /\ local'[s].cash = local[s].cash
  BY <1>1, CopyBalanceDoes
<1>3. AtWork(s)
  BY <1>1, <1>2, Working DEF Idle
<1>4. \A v \in Users : acct[FileOf[v]] # Missing /\ Record[v] = acct[FileOf[v]][v]
  BY <1>2, <1>3, FilesHere DEF AtWork, Idle
<1>5. Record' = Record
  BY <1>2, <1>4 DEF Record
<1>6. Debits' = Debits /\ Sales' = Sales
  BY <1>2, <1>5 DEF Debits, Sales
<1>7. CashCovers'
  BY <1>2, <1>5, <1>6 DEF Credits, CashCovers
<1>8. CreditsIn(u, pc[s], local[s], balance[s])
  BY DEF Credits
<1>9. ASSUME NEW v \in Users, FileOf[v] = FileOf[u]
      PROVE  tmp'[v] = IF v = u THEN balance[s] ELSE Record[v]
  <2>1. acct[Home(s)] \in [Users -> Nat \cup {NoRecord}]
    BY <1>1, <1>2 DEF IInv, FilesOK
  <2>2. Record[u] \in Nat /\ Record[u] < SigLimit /\ acct[Home(s)][u] = Record[u]
    BY <1>1, <1>4, FilesAssumption, BoundsAssumption DEF Credits, CashCovers
  <2>3. balance[s] \in Nat /\ balance[s] <= Record[u]
    BY <1>1, <1>2, <1>8, Here DEF Stage, CreditsIn, Visit, Unsaved
  <2>4. Fmt(balance[s]) = balance[s]
    BY <2>2, <2>3, BoundsAssumption DEF Fmt
  <2>5. acct[Home(s)][u] # NoRecord
    BY <2>2, MarkersAssumption
  <2>6. tmp' = [acct[Home(s)] EXCEPT ![u] = balance[s]]
    BY <1>2, <2>4, <2>5 DEF Changed
  <2>7. acct[Home(s)][v] = Record[v]
    BY <1>1, <1>4, <1>9
  <2>. HIDE DEF u
  <2>. QED  BY <2>1, <2>6, <2>7
<1>10. CreditsIn(u, pc[s], local[s], balance[s])'
  <2>. HIDE DEF u
  <2>. QED  BY <1>2, <1>5, <1>6, <1>8, <1>9
       DEF CreditsIn, Holding, Owed, AfterCash, Visit, Unsaved
<1>. QED  BY <1>1, <1>3, <1>7, <1>10, CreditsAtWork

LEMMA CreditsRemove ==
  ASSUME IInv, Alone, AllFiles, Swaps, Credits, NEW s \in Sessions, Remove(s)
  PROVE  Credits'
<1> DEFINE u == user[s]
           f == FileOf[u]
<1>1. SessionsOK /\ Others(s) /\ u \in Users /\ f \in Files
  BY OthersStay, PeopleAssumption DEF IInv, Proceed
<1>2. /\ UNCHANGED <<cashFile, tmp, bill, balance>>
      /\ pc[s] = "remove" /\ pc'[s] = "rename" /\ local'[s] = local[s]
  BY <1>1, PassOthers DEF Remove, historyVars
<1>3. AtWork(s) /\ acct' = [acct EXCEPT ![FileOf[local[s].target]] = Missing]
  BY RewriteDoes DEF Rewrites
<1>4. CreditsIn(u, pc[s], local[s], balance[s]) /\ local[s].job = "buy"
  BY <1>2 DEF Credits, Swaps, Swap
<1>5. /\ local[s].target = u /\ balance[s] <= Record[u]
      /\ \A v \in Users : FileOf[v] = f => tmp[v] = IF v = u THEN balance[s] ELSE Record[v]
      /\ local[s].cash.in <= Sales
      /\ Debits + (Record[u] - balance[s]) <= local[s].cash.in - cash0.in
      /\ cashFile = Empty \/ cashFile.in = local[s].cash.in
  BY <1>2, <1>4 DEF CreditsIn, Holding, Owed, AfterCash, Visit, Unsaved
<1>6. balance[s] \in Nat
  BY <1>1, <1>2, <1>4, Here DEF Stage
<1>7. acct'[f] = Missing /\ \A g \in Files \ {f} : acct'[g] = acct[g]
  BY <1>1, <1>3, <1>5 DEF IInv, FilesOK
<1>8. \A v \in Users : acct[FileOf[v]] # Missing /\ Record[v] = acct[FileOf[v]][v]
                       /\ FileOf[v] \in Files
  BY <1>2, <1>3, FilesHere, PeopleAssumption DEF AtWork, Idle
<1>9. \A v \in Users : Record'[v] = IF v = u THEN balance[s] ELSE Record[v]
  <2>1. ASSUME NEW v \in Users, FileOf[v] = f
        PROVE  Record'[v] = IF v = u THEN balance[s] ELSE Record[v]
    BY <1>2, <1>5, <1>7, <2>1 DEF Record
  <2>2. ASSUME NEW v \in Users, FileOf[v] # f PROVE Record'[v] = Record[v]
    BY <1>7, <1>8, <2>2 DEF Record
  <2>. QED  BY <2>1, <2>2
<1>10. /\ Debits' = Debits + (Record[u] - balance[s])
       /\ \A v \in Users : Record'[v] \in Nat /\ Record'[v] <= balance0[v]
  <2>. HIDE DEF u
  <2>. QED  BY <1>1, <1>5, <1>6, <1>9, DebitsChange DEF Credits
<1>11. Sales' = Sales
  BY <1>2 DEF Sales
<1>12. CashCovers'
  BY <1>2, <1>5, <1>10, <1>11 DEF CashCovers
<1>13. CreditsIn(u, pc[s], local[s], balance[s])'
  <2>1. Record'[u] = balance[s] /\ Record'[u] - balance[s] = 0
    BY <1>1, <1>6, <1>9
  <2>2. Debits' \in Int
    <3>1. Debits \in Int /\ Record[u] \in Int
      BY <1>1, DebitsInt DEF Credits, CashCovers
    <3>. QED  BY <1>6, <1>10, <3>1
  <2>3. Owed(u, local[s], balance[s])' = 0
    BY <1>2, <2>1 DEF Owed
  <2>4. Debits' + 0 <= local[s].cash.in - cash0.in
    BY <1>5, <1>10, <2>2
  <2>. HIDE DEF u
  <2>. QED  BY <1>2, <1>5, <1>11, <2>1, <2>3, <2>4
       DEF CreditsIn, Visit, Unsaved
<1>. QED  BY <1>1, <1>3, <1>12, <1>13, CreditsAtWork

LEMMA CreditsRename ==
  ASSUME IInv, Alone, AllFiles, Swaps, Credits, NEW s \in Sessions, Rename(s)
  PROVE  Credits'
<1> DEFINE f == FileOf[local[s].target]
<1>1. SessionsOK /\ Others(s) /\ user[s] \in Users /\ f \in Files
  BY OthersStay, Here, PeopleAssumption DEF IInv, Proceed
<1>2. /\ UNCHANGED <<cashFile, bill, balance>> /\ pc[s] = "rename"
      /\ pc'[s] = IF local[s].job = "buy" THEN "openGoods" ELSE "home"
      /\ local'[s] = IF pc'[s] = "home" THEN NoLocal ELSE local[s]
  BY <1>1, PassOthers DEF Rename
<1>3. /\ AtWork(s) /\ acct[f] = Missing /\ tmp # Missing /\ acct' = [acct EXCEPT ![f] = tmp]
  BY RewriteDoes DEF Rewrites
<1>4. CreditsIn(user[s], pc[s], local[s], balance[s]) /\ local[s].job = "buy"
  BY <1>2 DEF Credits, Swaps, Swap
<1>5. acct'[f] = tmp /\ \A g \in Files \ {f} : acct'[g] = acct[g] /\ acct[g] # Missing
  <2>1. ASSUME NEW g \in Files \ {f} PROVE acct[g] # Missing
    BY <1>3 DEF AllFiles, AtWork, Idle
  <2>. QED  BY <1>1, <1>3, <2>1 DEF IInv, FilesOK
<1>6. Record' = Record
  BY <1>3, <1>5, PeopleAssumption DEF Record
<1>7. Debits' = Debits /\ Sales' = Sales
  BY <1>2, <1>6 DEF Debits, Sales
<1>8. CashCovers'
  BY <1>2, <1>6, <1>7 DEF Credits, CashCovers
<1>9. CreditsIn(user[s], pc[s], local[s], balance[s])'
  BY <1>2, <1>4, <1>6, <1>7 DEF CreditsIn, Holding, Owed, AfterCash, Visit, Unsaved
<1>. QED  BY <1>1, <1>3, <1>8, <1>9, CreditsAtWork

LEMMA CreditsProceed ==
  ASSUME IInv, Alone, AllFiles, Swaps, WithinDigits, Credits,
         \A u \in Users : balance0[u] < SigLimit, NEW s \in Sessions, Proceed(s)
  PROVE  Credits'
<1>1. /\ SessionsOK /\ Others(s) /\ user[s] \in Users /\ Home(s) \in Files
      /\ CreditsIn(user[s], pc[s], local[s], balance[s])
  BY OthersStay, PeopleAssumption DEF IInv, Home, Credits
<1>. USE <1>1 DEF Books
<1>2. CASE InitCash(s) \/ ReadCash(s) \/ Pay(s) \/ OpenCash(s) \/ FillCash(s)
           \/ CopyBalance(s) \/ Remove(s) \/ Rename(s)
  BY <1>2, CreditsTake, CreditsPay, CreditsWrite, CreditsCopy, CreditsRemove, CreditsRename
<1>3. CASE InitBalance(s)
  <2>1. /\ pc'[s] = "initCash" /\ acct[Home(s)] # Missing
        /\ acct[Home(s)][user[s]] # NoRecord => balance'[s] = acct[Home(s)][user[s]]
    <3>1. ~ NoAccounts(s)
      BY <1>3 DEF InitBalance, NoAccounts
    <3>. QED  BY <1>3, <3>1, StartDoes
  <2>2. Record[user[s]] = acct[Home(s)][user[s]] /\ Record[user[s]] \in Nat
    BY <2>1 DEF Record, Home, Credits, CashCovers
  <2>3. balance'[s] = Record[user[s]]
    BY <2>1, <2>2, MarkersAssumption
  <2>4. CreditsIn(user[s], pc'[s], local'[s], balance'[s])
    BY <1>3, <2>1, <2>3, StartDoes DEF CreditsIn, Holding, AfterCash, Unsaved
  <2>. QED  BY <1>3, <2>4, StartDoes, CreditsFrame
<1>4. CASE NoAccounts(s)
  <2>1. ~ InitBalance(s)
    BY <1>4 DEF InitBalance, NoAccounts
  <2>2. pc'[s] = "stuck" /\ local'[s] = local[s] /\ local[s].job = "buy"
    BY <1>4, <2>1, StartDoes
  <2>3. CreditsIn(user[s], pc'[s], local'[s], balance'[s])
    BY <2>2, NoCredits DEF Visit, Unsaved
  <2>. QED  BY <1>4, <2>3, StartDoes, CreditsFrame
<1>5. ASSUME UNCHANGED <<cashFile, acct, tmp, bill, balance>>,
             local[s].job = "buy", local'[s].job = "buy",
             local'[s].cash.in = local[s].cash.in,
             \/ pc[s] \in {"menu", "bill", "fillGoods"} /\ pc'[s] \in {"menu", "bill"}
             \/ pc[s] = "items" /\ pc'[s] \in {"items", "openCash"}
      PROVE  Credits'
  <2>1. CreditsIn(user[s], pc'[s], local'[s], balance'[s])
    BY <1>5 DEF CreditsIn, Holding, Owed, AfterCash, Visit, Unsaved
  <2>. QED  BY <1>5, <2>1, CreditsFrame
<1>6. CASE Bill(s) \/ Refuse(s) \/ Sell(s)
  BY <1>5, <1>6, BillDoes, RefuseDoes, ForgetDoes, SellDoes
<1>7. CASE SellAndReorder(s)
  <2>1. local[s].cash \in CashRecord
    BY Here DEF CashOK
  <2>2. local'[s].cash.in = local[s].cash.in
    BY <1>7, <2>1, SellAndReorderDoes DEF CashOut, CashRecord
  <2>. QED  BY <1>5, <1>7, <2>2, SellAndReorderDoes
<1>8. CASE CopyFails(s)
  <2>1. pc[s] = "items" /\ acct[Home(s)] = Missing
    BY <1>8 DEF CopyFails, Pass, Goto
  <2>2. acct[Home(s)] # Missing
    BY <2>1 DEF AllFiles, Alone, Idle
  <2>. QED  BY <2>1, <2>2
<1>9. CASE OpenGoods(s)
  <2>1. /\ UNCHANGED <<cashFile, acct, tmp, bill, balance>>
        /\ pc[s] = "openGoods" /\ pc'[s] = "fillGoods" /\ local'[s] = local[s]
    BY <1>9, WriteGoodsDoes
  <2>2. CreditsIn(user[s], pc'[s], local'[s], balance'[s])
    BY <2>1 DEF CreditsIn, Holding, Owed, AfterCash, Visit, Unsaved
  <2>. QED  BY <2>1, <2>2, CreditsFrame
<1>10. CASE FillGoods(s)
  <2>1. /\ UNCHANGED <<cashFile, acct, tmp, bill, balance>> /\ pc[s] = "fillGoods"
    BY <1>10, WriteGoodsDoes
  <2>2. CASE local[s].job = "buy" /\ pc'[s] = "menu" /\ local' = Forget(s)
    BY <1>5, <2>1, <2>2, ForgetDoes
  <2>3. CASE local[s].job = "order" /\ pc'[s] = "openCash" /\ local'[s] = local[s]
    <3>1. CreditsIn(user[s], pc'[s], local'[s], balance'[s])
      BY <2>1, <2>3 DEF CreditsIn, Holding, Owed
    <3>. QED  BY <2>1, <3>1, CreditsFrame
  <2>4. CASE pc'[s] = "home" /\ local'[s] = NoLocal
    <3>1. CreditsIn(user[s], pc'[s], local'[s], balance'[s])
      <4>1. local'[s].job = "buy"
        BY <2>4 DEF NoLocal
      <4>. QED  BY <2>4, <4>1, NoCredits DEF Visit, Unsaved
    <3>. QED  BY <2>1, <3>1, CreditsFrame
  <2>. QED  BY <1>10, <2>2, <2>3, <2>4, WriteGoodsDoes
<1>. QED  BY <1>2, <1>3, <1>4, <1>6, <1>7, <1>8, <1>9, <1>10 DEF Proceed

LEMMA CreditsRequest ==
  ASSUME IInv, Serial, NoEdits, Credits, NEW s \in Sessions, Request(s)
  PROVE  Credits'
<1>1. /\ SessionsOK /\ Others(s) /\ CreditsIn(user[s], pc[s], local[s], balance[s])
  BY OthersStay DEF IInv, Credits
<1>. USE <1>1 DEF Books
<1>2. ASSUME UNCHANGED <<cashFile, acct, tmp, bill>>,
             \A r \in Sessions \ {s} : balance'[r] = balance[r],
             pc'[s] \notin Visit \/ local'[s].job # "buy", local'[s].job # "order",
             pc'[s] \notin {"openCash", "fillCash"}
      PROVE  Credits'
  BY <1>2, NoCredits, CreditsFrame
<1>3. CASE Quietly(s)
  <2>1. CASE pc[s] = "menu" /\ pc'[s] = "bill" /\ UNCHANGED balance
    <3>1. CreditsIn(user[s], pc'[s], local'[s], balance'[s])
      BY <1>3, <2>1, QuietlyDoes DEF CreditsIn, Holding, Owed, AfterCash, Visit, Unsaved, Idle
    <3>. QED  BY <1>3, <3>1, QuietlyDoes, CreditsFrame
  <2>2. CASE pc'[s] \in Idle
    BY <1>2, <1>3, <2>2, QuietlyDoes DEF Visit, Unsaved, Idle
  <2>. QED  BY <1>3, <2>1, <2>2, QuietlyDoes
<1>4. CASE InitGoods(s) \/ ReadStock(s)
  BY <1>2, <1>4, ReadGoodsDoes DEF Visit, Unsaved
<1>5. ASSUME NEW i \in Items, NEW q \in 1 .. MaxQuantity, Add(s, i, q) PROVE Credits'
  <2>1. CreditsIn(user[s], pc'[s], local'[s], balance'[s])
    BY <1>5, AddDoes DEF CreditsIn, Holding, Owed, AfterCash, Visit, Unsaved
  <2>. QED  BY <1>5, <2>1, AddDoes, CreditsFrame
<1>6. ASSUME NEW i \in Items, NameOrdered(s, i) PROVE Credits'
  <2>1. /\ cashFile.in <= Sales /\ Debits <= cashFile.in - cash0.in /\ Debits + 0 = Debits
    BY <1>6, NameOrderedDoes, DebitsInt DEF Credits, CashCovers
  <2>2. CreditsIn(user[s], pc'[s], local'[s], balance'[s])
    BY <1>6, <2>1, NameOrderedDoes DEF CreditsIn, Owed
  <2>. QED  BY <1>6, <2>2, NameOrderedDoes, CreditsFrame
<1>7. ASSUME NEW i \in Items, NEW t \in NewTerms, Modify(s, i, t) PROVE Credits'
  BY <1>2, <1>7, ModifyDoes
<1>8. ASSUME NEW q \in 1 .. MaxQuantity, Order(s, q) PROVE Credits'
  <2>1. CreditsIn(user[s], pc'[s], local'[s], balance'[s])
    BY <1>8, OrderDoes DEF CreditsIn, Holding, Owed
  <2>. QED  BY <1>8, <2>1, OrderDoes, CreditsFrame
<1>. QED  BY <1>3, <1>4, <1>5, <1>6, <1>7, <1>8, RequestEdits

(* The process ends: what was in a session is forgotten. *)
LEMMA RestartDoes ==
  ASSUME Restart
  PROVE  /\ UNCHANGED Books /\ Alone'
         /\ \A s \in Sessions : pc'[s] = "out" /\ local'[s] = NoLocal /\ local'[s].job = "buy"
BY DEF Restart, Books, fileVars, historyVars, Alone, Idle, NoLocal

LEMMA CreditsRestart ==
  ASSUME Restart
  PROVE  /\ Alone' /\ Swaps' /\ (AllFiles' => AllFiles) /\ (Credits => Credits')
<1>1. Swaps'
  BY RestartDoes DEF Swaps, Swap
<1>2. AllFiles' => AllFiles
  BY RestartDoes DEF AllFiles, Books
<1>3. ASSUME Credits PROVE Credits'
  <2>1. Record' = Record /\ Debits' = Debits /\ Sales' = Sales /\ cashFile' = cashFile
    BY RestartDoes DEF Record, Debits, Sales, Books
  <2>2. CashCovers'
    BY <1>3, <2>1 DEF Credits, CashCovers
  <2>3. ASSUME NEW s \in Sessions PROVE CreditsIn(user[s], pc[s], local[s], balance[s])'
    <3>1. pc'[s] = "out" /\ local'[s].job = "buy"
      BY RestartDoes
    <3>. QED  BY <3>1 DEF CreditsIn, Holding, AfterCash, Visit, Unsaved
  <2>. QED  BY <2>2, <2>3 DEF Credits
<1>. QED  BY <1>1, <1>2, <1>3, RestartDoes

LEMMA CreditsInit ==
  ASSUME Init
  PROVE  Alone /\ Swaps /\ Credits
<1>1. /\ \A s \in Sessions : pc[s] = "out" /\ local[s] = NoLocal /\ NoLocal.job = "buy"
      /\ bill = [u \in Users |-> 0] /\ cashFile = cash0 /\ cash0.in \in Nat
  BY FilesAssumption DEF Init, CashRecord, NoLocal
<1>2. ASSUME NEW u \in Users PROVE Record[u] = balance0[u] /\ balance0[u] \in Nat
  <2>1. acct[FileOf[u]] = [v \in Users |-> IF FileOf[v] = FileOf[u] THEN balance0[v] ELSE NoRecord]
    BY PeopleAssumption DEF Init
  <2>2. acct[FileOf[u]] \in Accounts
    BY <2>1, FilesAssumption DEF Accounts
  <2>3. acct[FileOf[u]] # Missing
    BY <2>2, MarkersAssumption
  <2>. QED  BY <2>1, <2>3, FilesAssumption DEF Record
<1>3. Debits = 0 /\ Sales = cash0.in
  <2>1. [u \in Users |-> balance0[u] - Record[u]] = [u \in Users |-> 0]
    BY <1>2
  <2>2. Total([u \in Users |-> 0]) = 0
    BY UsersAssumption, TotalZero
  <2>. QED  BY <1>1, <2>1, <2>2 DEF Debits, Sales
<1>4. CashCovers
  BY <1>1, <1>2, <1>3 DEF CashCovers
<1>5. \A s \in Sessions : CreditsIn(user[s], pc[s], local[s], balance[s])
  BY <1>1, NoCredits DEF Visit, Unsaved
<1>6. Alone /\ Swaps
  BY <1>1, SerialInit DEF Swaps, Swap
<1>. QED  BY <1>4, <1>5, <1>6 DEF Credits

(* The sum the property is stated with is the Debits of the invariant.       *)
LEMMA CreditedSum ==
  ASSUME CashCovers, NoEdits, \A f \in Files : acct[f] # Missing
  PROVE  Credited <=> (cashFile # Empty => Debits <= cashFile.in - cash0.in)
<1> DEFINE f == [u \in Users |-> balance0[u] - Record[u]]
           Sum(iter, s) == IF s = {} THEN 0
                           ELSE balance0[Pick(s)] - acct[FileOf[Pick(s)]][Pick(s)]
                                  + iter[s \ {Pick(s)}]
           Fold(iter) == iter = [s \in SUBSET Users |-> Sum(iter, s)]
           c == CHOOSE iter : Fold(iter)
<1>1. f \in [Users -> Int] /\ \A u \in Users : f[u] = balance0[u] - acct[FileOf[u]][u]
  BY PeopleAssumption, FilesAssumption DEF CashCovers, Record
<1>2. PICK sum \in [SUBSET Users -> Int] : SumsUp(sum, f, Users) /\ Debits = sum[Users]
  <2>1. Debits = Total(f)
    BY DEF Debits
  <2>. HIDE DEF f
  <2>. QED  BY <1>1, <2>1, UsersAssumption, TotalSums
<1>3. ASSUME NEW s \in SUBSET Users, NEW iter PROVE Step(iter, f, s) = Sum(iter, s)
  <2>1. s # {} => Pick(s) \in Users
    BY DEF Pick
  <2>. HIDE DEF f
  <2>. QED  BY <1>1, <2>1 DEF Step
<1>4. Fold(c)
  <2>1. Fold(sum)
    BY <1>2, <1>3 DEF SumsUp
  <2>. QED  BY <2>1
<1>5. c[Users] = Debits
  <2>. HIDE DEF c, f
  <2>1. SumsUp(c, f, Users)
    BY <1>3, <1>4 DEF SumsUp
  <2>. QED  BY <1>1, <1>2, <2>1, UsersAssumption, SumUnique
<1>6. Credited <=> (cashFile # Empty => c[Users] <= cashFile.in - cash0.in)
  <2>1. Unedited = Users
    BY DEF NoEdits, Unedited
  <2>. QED  BY <2>1 DEF Credited, MapThenSumSet, MapThenFoldSet, Pick
<1>. QED  BY <1>5, <1>6

(* In every state, crashes included, what left the balances on file has      *)
(* reached the income on file: buy writes cash.txt before the accounts file  *)
(* (Person.cpp:450 and 472).  For a shop with one session at a time whose    *)
(* administrator sets no balance and deletes nobody, and where nobody signs  *)
(* up; as long as the amounts keep within the six digits the code writes.    *)
THEOREM WithdrawalsAreCredited ==
  Serial /\ NoEdits /\ (\A u \in Users : balance0[u] < SigLimit)
    => (Spec => [](WithinDigits => Credited))
<1>. SUFFICES ASSUME Serial, NoEdits, \A u \in Users : balance0[u] < SigLimit
              PROVE  Spec => [](WithinDigits => Credited)
  OBVIOUS
<1> DEFINE Sound == Alone /\ Swaps /\ (WithinDigits /\ AllFiles => Credits)
<1>1. Init => Sound
  BY CreditsInit
<1>2. IInv /\ Sound /\ [Next]_vars => Sound'
  <2>. SUFFICES ASSUME IInv, Sound, [Next]_vars PROVE Sound'
    OBVIOUS
  <2>1. CASE UNCHANGED vars
    <3>1. Alone' /\ Swaps'
      BY <2>1 DEF vars, fileVars, Alone, Swaps, Swap
    <3>2. (WithinDigits' => WithinDigits) /\ (AllFiles' => AllFiles)
      BY <2>1, SalesGrow DEF vars, fileVars, AllFiles
    <3>3. Credits => Credits'
      <4>1. Record' = Record /\ Debits' = Debits /\ Sales' = Sales
        BY <2>1 DEF vars, fileVars, historyVars, Record, Debits, Sales
      <4>. QED  BY <2>1, <4>1 DEF vars, fileVars, historyVars, Credits, CashCovers, CreditsIn, Holding, Owed
    <3>. QED  BY <3>1, <3>2, <3>3
  <2>2. CASE Restart
    BY <2>2, CreditsRestart, SalesGrow
  <2>3. ASSUME NEW s \in Sessions, Proceed(s) \/ Request(s) PROVE Sound'
    <3>1. Alone' /\ Swaps'
      BY <2>3, OthersStay, TakesTurn, AloneStep, SwapStep
    <3>2. ASSUME WithinDigits', AllFiles' PROVE Credits'
      BY <2>3, <3>2, SalesGrow, AllFilesStep, CreditsProceed, CreditsRequest
    <3>. QED  BY <3>1, <3>2
  <2>. QED  BY <2>1, <2>2, <2>3 DEF Next, Throws, Killed
<1>3. Sound => (WithinDigits => Credited)
  <2>. SUFFICES ASSUME Sound, WithinDigits, \A f \in Files : acct[f] # Missing PROVE Credited
    BY DEF Credited
  <2>1. Credits
    BY DEF AllFiles
  <2>. QED  BY <2>1, CreditedSum DEF Credits, CashCovers
<1>. QED  BY <1>1, <1>2, <1>3, Invariance, PTL DEF Spec
-----------------------------------------------------------------------------
(* Goods that left are paid for, and goods that came have been paid, wherever*)
(* the process ends.  What the goods sold are worth, what those bought cost, *)
(* what an order is worth, and what the loop of buy has charged before k.    *)
Sold(g)      == Total([i \in Items |-> goods0[i].price * (goods0[i].stock - g[i].stock)])
Bought(g)    == Total([i \in Items |-> goods0[i].cost * (g[i].stock - goods0[i].stock)])
Ordered(o)   == Total([i \in Items |-> goods0[i].price * o[i]])
Charge(o, k) == [i \in Items |-> IF i < k THEN goods0[i].price * o[i] ELSE 0]
Charged(o, k) == Total(Charge(o, k))

(* Amounts that six digits show exactly, the prices divisible by the discount.*)
ExactTerms == \A i \in Items : /\ goods0[i].price < SigLimit /\ goods0[i].cost < SigLimit
                               /\ goods0[i].price % 5 = 0

SameTerms(g) == \A i \in Items : g[i].price = goods0[i].price /\ g[i].cost = goods0[i].cost
SameCash(c)  == c.initial = cash0.initial /\ c.in <= Sales

(* The goods g and x more are paid with c, at 80% or more of their price. *)
Paid(x, g, c) == /\ 4 * (Sold(g) + x) <= 5 * (c.in - cash0.in)
                 /\ Bought(g) <= c.out - cash0.out

(* The copy of g from which an order is taken, up to k. *)
Taken(g, l) == \A i \in Items : /\ l.goods[i].stock >= g[i].stock - l.order[i]
                                /\ i >= l.k => l.goods[i].stock = g[i].stock

Choosing == {"initBalance", "initCash", "menu", "bill"}
Paying   == {"openCash", "fillCash", "readCash", "items", "remove", "rename", "openGoods"}

(* What a session at p with variables l, in its buy, knows of the files. *)
PaidIn(p, l) ==
    /\ p \in Choosing => goodsFile # Empty /\ l.goods = goodsFile
    /\ p \in Choosing \ {"bill"} => l.k = 1 /\ l.ordercost = 0
    /\ p = "bill" => 4 * Charged(l.order, l.k) <= 5 * l.ordercost
    /\ p \in AfterCash => SameCash(l.cash)
    /\ p \in AfterCash \ {"openCash", "fillCash"} => cashFile = l.cash
    /\ p \in Paying => /\ goodsFile # Empty
                       /\ Paid(Ordered(l.order), goodsFile, l.cash)
                       /\ Bought(l.goods) <= l.cash.out - cash0.out
                       /\ Taken(goodsFile, l)
    /\ p \in Paying \cup {"fillGoods"} => SameTerms(l.goods)
    /\ p = "fillGoods" => Paid(0, l.goods, l.cash)

PaidOnFile ==
    /\ cashFile # Empty => SameCash(cashFile)
    /\ goodsFile # Empty => SameTerms(goodsFile)
    /\ goodsFile # Empty /\ cashFile # Empty => Paid(0, goodsFile, cashFile)

NoRestock == "order" \notin AdminJobs /\ "modify" \notin AdminJobs
Buyers  == \A s \in Sessions :
    /\ local[s].job \notin {"order", "modify"}
    /\ pc[s] \in {"openCash", "fillCash", "openGoods", "fillGoods"} => local[s].job = "buy"
Stocked == PaidOnFile /\ \A s \in Sessions : local[s].job = "buy" => PaidIn(pc[s], local[s])

(* Products and sums of them. *)
LEMMA ProductSum == \A p, a, b \in Int : p * (a + b) = p * a + p * b
OBVIOUS

LEMMA ProductMonotone == \A p \in Nat : \A a, b \in Int : a <= b => p * a <= p * b
<1>. SUFFICES ASSUME NEW p \in Nat, NEW a \in Int, NEW b \in Int, a <= b PROVE p * a <= p * b
  OBVIOUS
<1>1. PICK d \in Nat : b = a + d
  <2>1. b - a \in Nat /\ b = a + (b - a)
    OBVIOUS
  <2>. QED  BY <2>1
<1>2. p * b = p * a + p * d /\ p * d \in Nat /\ p * a \in Int
  BY <1>1, ProductSum, NatProduct
<1>. QED  BY <1>2

LEMMA ItemsFinite == IsFiniteSet(Items)
BY FS_Interval, BoundsAssumption DEF Items

LEMMA TermsNat ==
  ASSUME NEW i \in Items
  PROVE  /\ goods0[i].price \in Nat /\ goods0[i].cost \in Nat
         /\ goods0[i].stock \in Nat
BY FilesAssumption DEF Stock, GoodsRecord

LEMMA GoodsInt ==
  ASSUME NEW g, GoodsOK(g), NEW i \in Items
  PROVE  /\ g[i].stock \in Nat /\ g[i].price \in Nat /\ g[i].cost \in Nat
         /\ g[i].amount \in Nat
BY DEF GoodsOK, Stock, GoodsRecord

LEMMA SoldInt ==
  ASSUME NEW g, GoodsOK(g)
  PROVE  Sold(g) \in Int /\ Bought(g) \in Int
<1>1. ASSUME NEW i \in Items
      PROVE  /\ goods0[i].price * (goods0[i].stock - g[i].stock) \in Int
             /\ goods0[i].cost * (g[i].stock - goods0[i].stock) \in Int
  <2>1. \A p, a \in Int : p * a \in Int
    OBVIOUS
  <2>2. /\ goods0[i].price \in Int /\ goods0[i].cost \in Int
        /\ goods0[i].stock - g[i].stock \in Int /\ g[i].stock - goods0[i].stock \in Int
    BY TermsNat, GoodsInt
  <2>. QED  BY <2>1, <2>2
<1>2. /\ [i \in Items |-> goods0[i].price * (goods0[i].stock - g[i].stock)] \in [Items -> Int]
      /\ [i \in Items |-> goods0[i].cost * (g[i].stock - goods0[i].stock)] \in [Items -> Int]
  BY <1>1
<1>. QED  BY <1>2, ItemsFinite, TotalInt DEF Sold, Bought

LEMMA OrderedNat ==
  ASSUME NEW o \in [Items -> Nat]
  PROVE  Ordered(o) \in Nat
<1>1. ASSUME NEW i \in Items PROVE goods0[i].price * o[i] \in Nat
  BY TermsNat, NatProduct
<1> DEFINE f == [i \in Items |-> goods0[i].price * o[i]]
<1>2. f \in [Items -> Int] /\ \A i \in Items : f[i] >= 0
  BY <1>1
<1>3. Ordered(o) = Total(f)
  BY DEF Ordered
<1>. HIDE DEF f
<1>4. Total(f) \in Int /\ Total(f) >= 0
  BY <1>2, ItemsFinite, TotalInt, TotalSign
<1>. QED  BY <1>3, <1>4

(* Goods from which at most the order o was taken. *)
LEMMA SoldTaken ==
  ASSUME NEW g, GoodsOK(g), NEW h, GoodsOK(h), NEW o \in [Items -> Nat],
         \A i \in Items : h[i].stock >= g[i].stock - o[i]
  PROVE  Sold(h) <= Sold(g) + Ordered(o)
<1> DEFINE a == [i \in Items |-> goods0[i].price * (goods0[i].stock - g[i].stock)]
           b == [i \in Items |-> goods0[i].price * o[i]]
           c == [i \in Items |-> goods0[i].price * (goods0[i].stock - g[i].stock)
                                    + goods0[i].price * o[i]]
           d == [i \in Items |-> goods0[i].price * (goods0[i].stock - h[i].stock)]
<1>1. ASSUME NEW i \in Items
      PROVE  /\ a[i] \in Int /\ b[i] \in Int /\ c[i] \in Int /\ d[i] \in Int
             /\ c[i] = a[i] + b[i] /\ d[i] <= c[i]
  <2>1. \A p, x \in Int : p * x \in Int
    OBVIOUS
  <2> DEFINE p == goods0[i].price
             x == goods0[i].stock - g[i].stock
             y == goods0[i].stock - h[i].stock
  <2>2. p \in Nat /\ x \in Int /\ y \in Int /\ o[i] \in Int /\ y <= x + o[i]
    BY TermsNat, GoodsInt
  <2>3. a[i] = p * x /\ b[i] = p * o[i] /\ c[i] = p * x + p * o[i] /\ d[i] = p * y
    OBVIOUS
  <2>. HIDE DEF p, x, y, a, b, c, d
  <2>4. p * y <= p * (x + o[i]) /\ p * (x + o[i]) = p * x + p * o[i]
    BY <2>2, ProductMonotone, ProductSum
  <2>5. p * x \in Int /\ p * y \in Int /\ p * o[i] \in Int
    BY <2>1, <2>2
  <2>. QED  BY <2>3, <2>4, <2>5
<1>2. /\ a \in [Items -> Int] /\ b \in [Items -> Int]
      /\ c \in [Items -> Int] /\ d \in [Items -> Int]
  BY <1>1
<1>3. Sold(g) = Total(a) /\ Ordered(o) = Total(b) /\ Sold(h) = Total(d)
  BY DEF Sold, Ordered
<1>. HIDE DEF a, b, c, d
<1>4. Total(d) <= Total(c)
  BY <1>1, <1>2, ItemsFinite, TotalMonotone
<1>5. Total(c) = Total(a) + Total(b)
  BY <1>1, <1>2, ItemsFinite, TotalPlus
<1>. QED  BY <1>3, <1>4, <1>5

(* At most n more of the goods k. *)
LEMMA BoughtMore ==
  ASSUME NEW g, GoodsOK(g), NEW h, GoodsOK(h), NEW k \in Items, NEW n \in Nat,
         h[k].stock <= g[k].stock + n, \A i \in Items \ {k} : h[i].stock = g[i].stock
  PROVE  Bought(h) <= Bought(g) + goods0[k].cost * n
<1> DEFINE a == [i \in Items |-> goods0[i].cost * (g[i].stock - goods0[i].stock)]
           b == [i \in Items |-> goods0[i].cost * (h[i].stock - goods0[i].stock)]
<1>1. \A p, x \in Int : p * x \in Int
  OBVIOUS
<1>2. ASSUME NEW i \in Items
      PROVE  a[i] \in Int /\ b[i] \in Int /\ (i # k => b[i] = a[i])
  <2>1. /\ goods0[i].cost \in Int /\ g[i].stock - goods0[i].stock \in Int
        /\ h[i].stock - goods0[i].stock \in Int
    BY TermsNat, GoodsInt
  <2>. QED  BY <1>1, <2>1
<1>3. a \in [Items -> Int] /\ b \in [Items -> Int] /\ \A i \in Items \ {k} : b[i] = a[i]
  BY <1>2
<1>4. b[k] - a[k] <= goods0[k].cost * n
  <2> DEFINE p == goods0[k].cost
             x == g[k].stock - goods0[k].stock
             y == h[k].stock - goods0[k].stock
  <2>1. p \in Nat /\ x \in Int /\ y \in Int /\ y <= x + n /\ n \in Int
    BY TermsNat, GoodsInt
  <2>2. a[k] = p * x /\ b[k] = p * y
    OBVIOUS
  <2>. HIDE DEF p, x, y, a, b
  <2>3. p * y <= p * (x + n) /\ p * (x + n) = p * x + p * n
    BY <2>1, ProductMonotone, ProductSum
  <2>4. p * x \in Int /\ p * y \in Int /\ p * n \in Int
    BY <1>1, <2>1
  <2>5. b[k] - a[k] <= p * n
    BY <2>2, <2>3, <2>4
  <2>. QED  BY <2>5 DEF p
<1>5. Bought(g) = Total(a) /\ Bought(h) = Total(b) /\ goods0[k].cost * n \in Int
  BY <1>1, TermsNat DEF Bought
<1>. HIDE DEF a, b
<1>6. Total(b) = Total(a) + (b[k] - a[k])
  BY <1>3, ItemsFinite, TotalChange
<1>7. Total(a) \in Int /\ a[k] \in Int /\ b[k] \in Int
  BY <1>3, ItemsFinite, TotalInt
<1>. QED  BY <1>4, <1>5, <1>6, <1>7

(* The loop of buy that charges the order (Person.cpp:404). *)
LEMMA ChargedStep ==
  ASSUME NEW o \in [Items -> Nat]
  PROVE  /\ Charged(o, 1) = 0 /\ Charged(o, N + 1) = Ordered(o)
         /\ \A k \in Items : /\ Charged(o, k) \in Int
                             /\ Charged(o, k + 1) = Charged(o, k) + goods0[k].price * o[k]
<1>1. \A i \in Items : i \in Nat /\ i >= 1 /\ i <= N
  BY BoundsAssumption DEF Items
<1>2. Charged(o, 1) = 0
  <2>1. Charge(o, 1) = [i \in Items |-> 0]
    BY <1>1 DEF Charge
  <2>. QED  BY <2>1, ItemsFinite, TotalZero DEF Charged
<1>3. Charged(o, N + 1) = Ordered(o)
  <2>1. Charge(o, N + 1) = [i \in Items |-> goods0[i].price * o[i]]
    BY <1>1, BoundsAssumption DEF Charge
  <2>. QED  BY <2>1 DEF Charged, Ordered
<1>4. \A i \in Items : goods0[i].price * o[i] \in Nat
  BY TermsNat, NatProduct
<1>5. ASSUME NEW k \in Int PROVE Charge(o, k) \in [Items -> Int]
  BY <1>4 DEF Charge
<1>6. ASSUME NEW k \in Items
      PROVE  /\ Charged(o, k) \in Int
             /\ Charged(o, k + 1) = Charged(o, k) + goods0[k].price * o[k]
  <2>1. Charge(o, k) \in [Items -> Int] /\ Charge(o, k + 1) \in [Items -> Int]
    BY <1>1, <1>5
  <2>2. \A i \in Items \ {k} : Charge(o, k + 1)[i] = Charge(o, k)[i]
    BY <1>1 DEF Charge
  <2>3. Charge(o, k + 1)[k] - Charge(o, k)[k] = goods0[k].price * o[k]
    BY <1>1, <1>4 DEF Charge
  <2>. QED  BY <2>1, <2>2, <2>3, ItemsFinite, TotalChange, TotalInt DEF Charged
<1>. QED  BY <1>2, <1>3, <1>6

(* What six digits show exactly is written as it is. *)
LEMMA GoodsExact ==
  ASSUME ExactTerms, NEW g, GoodsOK(g), SameTerms(g)
  PROVE  FmtGoods(g) = g
<1>1. g \in [Items -> GoodsRecord]
  BY DEF GoodsOK, Stock
<1>2. ASSUME NEW i \in Items
      PROVE  [g[i] EXCEPT !.cost = Fmt(g[i].cost), !.price = Fmt(g[i].price)] = g[i]
  <2>1. Fmt(g[i].cost) = g[i].cost /\ Fmt(g[i].price) = g[i].price
    BY DEF ExactTerms, SameTerms, Fmt
  <2>2. g[i] \in GoodsRecord
    BY <1>1
  <2>. QED  BY <2>1, <2>2 DEF GoodsRecord
<1>. QED  BY <1>1, <1>2 DEF FmtGoods

LEMMA CashExact ==
  ASSUME IInv, WithinDigits, NEW c, CashOK(c), SameCash(c)
  PROVE  FmtCash(c) = c
<1>1. /\ c.initial \in Nat /\ c.in \in Nat /\ c.out \in Nat /\ c.finl \in Nat
      /\ c.initial + c.in < SigLimit => c.finl + c.out = c.initial + c.in
      /\ c \in CashRecord
  BY DEF CashOK, CashRecord, AddsUp
<1>2. c.initial + c.in < SigLimit
  BY <1>1, SalesNat, BoundsAssumption DEF WithinDigits, SameCash
<1>3. /\ c.initial < SigLimit /\ c.in < SigLimit /\ c.out < SigLimit /\ c.finl < SigLimit
  BY <1>1, <1>2, BoundsAssumption
<1>4. /\ Fmt(c.initial) = c.initial /\ Fmt(c.in) = c.in
      /\ Fmt(c.out) = c.out /\ Fmt(c.finl) = c.finl
  BY <1>3 DEF Fmt
<1>. QED  BY <1>1, <1>4 DEF FmtCash, CashRecord

(* 80% of a price divisible by five is whole. *)
LEMMA DiscountExact ==
  ASSUME NEW f, NEW p \in Nat, NEW q \in Nat, p % 5 = 0
  PROVE  4 * (p * q) <= 5 * Discounted(f, p * q) /\ p * q \in Nat /\ Discounted(f, p * q) \in Nat
<1>1. PICK y \in Nat : p = 5 * y
  <2>1. p = 5 * (p \div 5) /\ p \div 5 \in Nat
    OBVIOUS
  <2>. QED  BY <2>1
<1>2. PICK z \in Nat : p * q = 5 * z
  <2>1. \A a, b \in Nat : (5 * a) * b = 5 * (a * b) /\ a * b \in Nat
    OBVIOUS
  <2>. QED  BY <1>1, <2>1
<1>3. (4 * (5 * z)) \div 5 = 4 * z
  OBVIOUS
<1>. QED  BY <1>2, <1>3 DEF Discounted

-----------------------------------------------------------------------------
LEMMA StockedFrame ==
  ASSUME Stocked, NEW s \in Sessions, Others(s), UNCHANGED <<goodsFile, cashFile, bill>>,
         local'[s].job = "buy" => PaidIn(pc'[s], local'[s])
  PROVE  Stocked'
<1>1. Sales' = Sales
  BY DEF Sales
<1>2. PaidOnFile'
  BY <1>1 DEF Stocked, PaidOnFile, SameCash, SameTerms, Paid
<1>3. ASSUME NEW r \in Sessions, local'[r].job = "buy" PROVE PaidIn(pc'[r], local'[r])
  BY <1>3 DEF Stocked, Others
<1>4. ASSUME NEW r \in Sessions, local'[r].job = "buy" PROVE PaidIn(pc[r], local[r])'
  BY <1>1, <1>3, <1>4 DEF PaidIn, SameCash, SameTerms, Paid, Taken
<1>. QED  BY <1>2, <1>4 DEF Stocked

LEMMA StockedAtWork ==
  ASSUME SessionsOK, NEW s \in Sessions, Others(s), AtWork(s), PaidOnFile',
         local'[s].job = "buy" => PaidIn(pc[s], local[s])'
  PROVE  Stocked'
<1>1. ASSUME NEW r \in Sessions \ {s} PROVE PaidIn(pc[r], local[r])'
  BY DEF AtWork, PaidIn, Choosing, Paying, AfterCash, Visit, Unsaved, Idle
<1>. QED  BY <1>1 DEF Stocked

(* Where a session knows nothing. *)
LEMMA NothingPaid ==
  ASSUME NEW p, NEW l, p \notin Choosing \cup Paying \cup {"fillGoods"}
  PROVE  PaidIn(p, l)
BY DEF PaidIn, Choosing, Paying, AfterCash, Visit, Unsaved

LEMMA FileTerms ==
  ASSUME IInv, Stocked
  PROVE  /\ goodsFile # Empty => GoodsOK(goodsFile) /\ SameTerms(goodsFile)
         /\ cashFile # Empty => CashOK(cashFile) /\ SameCash(cashFile)
BY DEF IInv, FilesOK, Stocked, PaidOnFile

(* The order is charged, good by good. *)
LEMMA StockedBill ==
  ASSUME IInv, ExactTerms, Stocked, NEW s \in Sessions, Bill(s)
  PROVE  Stocked'
<1>1. SessionsOK /\ Others(s)
  BY OthersStay DEF IInv, Proceed
<1> DEFINE l == local[s]
           k == l.k
           x == goods0[k].price * l.order[k]
           d == Discounted(Home(s), x)
<1>2. /\ UNCHANGED <<goodsFile, cashFile, bill>> /\ pc[s] = "bill" /\ pc'[s] = "bill"
      /\ k \in Items /\ l.job = "buy" /\ local'[s].cash = l.cash
      /\ local'[s].goods = l.goods /\ local'[s].order = l.order /\ local'[s].k = k + 1
      /\ local'[s].ordercost = l.ordercost + Discounted(Home(s), l.goods[k].price * l.order[k])
  BY <1>1, BillDoes DEF Books
<1>3. PaidIn("bill", l)
  BY <1>2 DEF Stocked
<1>4. l.goods = goodsFile /\ goodsFile # Empty /\ 4 * Charged(l.order, k) <= 5 * l.ordercost
  BY <1>3 DEF PaidIn, Choosing
<1>5. l.order \in [Items -> Nat] /\ l.ordercost \in Nat /\ l.order[k] \in Nat
  BY <1>1, <1>2, Here
<1>6. local'[s].ordercost = l.ordercost + d
  BY <1>2, <1>4, FileTerms DEF SameTerms
<1>7. 4 * x <= 5 * d /\ x \in Nat /\ d \in Nat
  BY <1>2, <1>5, TermsNat, DiscountExact DEF ExactTerms
<1>8. /\ Charged(l.order, k) \in Int
      /\ Charged(l.order, k + 1) = Charged(l.order, k) + x
  BY <1>2, <1>5, ChargedStep
<1>9. 4 * Charged(l.order, k + 1) <= 5 * local'[s].ordercost
  <2>. HIDE DEF x, d
  <2>. QED  BY <1>4, <1>5, <1>6, <1>7, <1>8
<1>10. PaidIn("bill", local'[s])
  BY <1>2, <1>3, <1>9 DEF PaidIn, Choosing, Paying, AfterCash, Visit, Unsaved
<1>. QED  BY <1>1, <1>2, <1>10, StockedFrame

(* It is paid. *)
LEMMA StockedPay ==
  ASSUME IInv, Alone, Stocked, NEW s \in Sessions, Pay(s)
  PROVE  Stocked'
<1>1. SessionsOK /\ Others(s)
  BY OthersStay DEF IInv, Proceed
<1> DEFINE l == local[s]
           m == local'[s]
           c == l.ordercost
<1>2. /\ UNCHANGED <<goodsFile, cashFile>> /\ pc[s] = "bill" /\ pc'[s] = "openCash"
      /\ l.k > N /\ c \in Nat /\ l.job = "buy" /\ m.cash = CashIn(l.cash, c)
      /\ m.goods = l.goods /\ m.order = l.order /\ m.k = 1
  BY PayDoes
<1>3. PaidIn("bill", l)
  BY <1>2 DEF Stocked
<1>4. /\ l.goods = goodsFile /\ goodsFile # Empty /\ 4 * Charged(l.order, l.k) <= 5 * c
      /\ SameCash(l.cash) /\ cashFile = l.cash
  BY <1>3 DEF PaidIn, Choosing, AfterCash, Visit, Unsaved
<1>5. /\ l.order \in [Items -> Nat] /\ CashOK(l.cash) /\ l.cash \in CashRecord
      /\ l.k \in 1 .. N + 1 /\ l.cash # Empty
  BY <1>1, Here, MarkersAssumption DEF CashOK
<1>6. /\ GoodsOK(goodsFile) /\ SameTerms(goodsFile) /\ Paid(0, goodsFile, l.cash)
  BY <1>4, <1>5, FileTerms DEF Stocked, PaidOnFile
<1>7. Ordered(l.order) \in Nat /\ Charged(l.order, l.k) = Ordered(l.order)
  <2>1. l.k = N + 1
    BY <1>2, <1>5, BoundsAssumption
  <2>. QED  BY <1>5, <2>1, OrderedNat, ChargedStep
<1>8. /\ m.cash.initial = l.cash.initial /\ m.cash.out = l.cash.out
      /\ m.cash.in = l.cash.in + c
  BY <1>2, <1>5 DEF CashIn, CashRecord
<1>9. /\ l.cash.in \in Nat /\ l.cash.out \in Nat /\ cash0.in \in Nat /\ cash0.out \in Nat
      /\ Sold(goodsFile) \in Int /\ Bought(goodsFile) \in Int
  BY <1>5, <1>6, FilesAssumption, SoldInt DEF CashRecord
<1>10. Sales' = Sales + c /\ Sales \in Nat
  BY SalesPay, SalesNat
<1>11. Paid(Ordered(m.order), goodsFile, m.cash)
  <2>1. /\ 4 * (Sold(goodsFile) + 0) <= 5 * (l.cash.in - cash0.in)
        /\ Bought(goodsFile) <= l.cash.out - cash0.out
    BY <1>6 DEF Paid
  <2>2. 4 * (Sold(goodsFile) + Ordered(l.order)) <= 5 * (m.cash.in - cash0.in)
    <3>. HIDE DEF l, m, c
    <3>. QED  BY <1>2, <1>4, <1>7, <1>8, <1>9, <2>1
  <2>. QED  BY <1>2, <1>8, <2>1, <2>2 DEF Paid
<1>12. Bought(m.goods) <= m.cash.out - cash0.out
  BY <1>2, <1>4, <1>8, <1>11 DEF Paid
<1>13. Taken(goodsFile, m)
  BY <1>2, <1>4, <1>5, <1>6, GoodsInt DEF Taken
<1>14. m.cash.initial = cash0.initial /\ m.cash.in <= Sales' /\ l.cash.in <= Sales'
  BY <1>2, <1>4, <1>8, <1>9, <1>10 DEF SameCash
<1>15. PaidIn(pc[s], local[s])'
  BY <1>2, <1>4, <1>6, <1>11, <1>12, <1>13, <1>14
     DEF PaidIn, Paid, Taken, SameTerms, SameCash, Choosing, Paying, AfterCash, Visit, Unsaved
<1>16. PaidOnFile'
  BY <1>2, <1>4, <1>6, <1>14 DEF Stocked, PaidOnFile, SameCash, SameTerms, Paid
<1>. QED  BY <1>1, <1>2, <1>15, <1>16, Working, StockedAtWork DEF Idle

(* It is written to cash.txt. *)
LEMMA StockedWrite ==
  ASSUME IInv, Alone, Buyers, WithinDigits, Stocked, NEW s \in Sessions,
         OpenCash(s) \/ FillCash(s)
  PROVE  Stocked'
<1>1. SessionsOK /\ Others(s)
  BY OthersStay DEF IInv, Proceed
<1> DEFINE l == local[s]
<1>2. /\ UNCHANGED <<goodsFile, bill>> /\ pc[s] \in {"openCash", "fillCash"}
      /\ l.job = "buy" /\ local'[s] = l
      /\ OpenCash(s) => cashFile' = Empty /\ pc[s] = "openCash" /\ pc'[s] = "fillCash"
      /\ FillCash(s) => cashFile' = FmtCash(l.cash) /\ pc'[s] = "readCash"
  BY <1>1, WriteCashDoes DEF Buyers
<1>3. PaidIn(pc[s], l)
  BY <1>2 DEF Stocked
<1>4. /\ SameCash(l.cash) /\ goodsFile # Empty /\ Paid(Ordered(l.order), goodsFile, l.cash)
      /\ Bought(l.goods) <= l.cash.out - cash0.out /\ Taken(goodsFile, l) /\ SameTerms(l.goods)
  BY <1>2, <1>3 DEF PaidIn, Paying, AfterCash, Visit, Unsaved
<1>5. Sales' = Sales
  BY <1>2 DEF Sales
<1>6. GoodsOK(goodsFile) /\ SameTerms(goodsFile)
  BY <1>4, FileTerms
<1>7. AtWork(s)
  BY <1>1, <1>2, Working DEF Idle
<1>8. CASE OpenCash(s)
  <2>1. PaidIn(pc[s], local[s])'
    BY <1>2, <1>4, <1>5, <1>8 DEF PaidIn, Paid, Taken, SameTerms, SameCash,
       Choosing, Paying, AfterCash, Visit, Unsaved
  <2>2. PaidOnFile'
    BY <1>2, <1>6, <1>8 DEF PaidOnFile, SameTerms
  <2>. QED  BY <1>1, <1>7, <2>1, <2>2, StockedAtWork
<1>9. CASE FillCash(s)
  <2>1. cashFile' = l.cash
    <3>1. CashOK(l.cash)
      BY <1>1, Here
    <3>. QED  BY <1>2, <1>4, <1>9, <3>1, CashExact
  <2>2. PaidIn(pc[s], local[s])'
    BY <1>2, <1>4, <1>5, <1>9, <2>1 DEF PaidIn, Paid, Taken, SameTerms, SameCash,
       Choosing, Paying, AfterCash, Visit, Unsaved
  <2>3. Paid(0, goodsFile, l.cash)
    <3>1. Ordered(l.order) \in Nat /\ Sold(goodsFile) \in Int
      BY <1>1, <1>6, Here, OrderedNat, SoldInt
    <3>2. l.cash.in \in Nat /\ cash0.in \in Nat
      BY <1>1, Here, FilesAssumption DEF CashOK, CashRecord
    <3>3. 4 * (Sold(goodsFile) + Ordered(l.order)) <= 5 * (l.cash.in - cash0.in)
      BY <1>4 DEF Paid
    <3>. HIDE DEF l
    <3>4. 4 * (Sold(goodsFile) + 0) <= 5 * (l.cash.in - cash0.in)
      BY <3>1, <3>2, <3>3
    <3>. QED  BY <1>4, <3>4 DEF Paid
  <2>4. PaidOnFile'
    BY <1>2, <1>4, <1>5, <1>6, <2>1, <2>3 DEF PaidOnFile, SameTerms, SameCash, Paid
  <2>. QED  BY <1>1, <1>7, <2>2, <2>4, StockedAtWork
<1>. QED  BY <1>8, <1>9

(* The goods are taken, and reordered. *)
LEMMA StockedSell ==
  ASSUME IInv, Stocked, NEW s \in Sessions, Sell(s) \/ SellAndReorder(s)
  PROVE  Stocked'
<1>1. SessionsOK /\ Others(s)
  BY OthersStay DEF IInv, Proceed
<1> DEFINE l == local[s]
           m == local'[s]
           k == l.k
           g == l.goods
           n == IF Reorder(s) THEN g[k].amount ELSE 0
           x == Left(s) + n
<1>2. /\ UNCHANGED <<goodsFile, cashFile, bill>> /\ pc[s] = "items" /\ k \in Items
      /\ l.job = "buy" /\ m.order = l.order /\ m.k = k + 1
      /\ Sell(s) => ~ Reorder(s) /\ pc'[s] = "items" /\ m.cash = l.cash
                    /\ m.goods = [g EXCEPT ![k].stock = Left(s)]
      /\ SellAndReorder(s) => Reorder(s) /\ pc'[s] = "openCash"
                    /\ m.cash = CashOut(l.cash, Price(s))
                    /\ m.goods = [g EXCEPT ![k].stock = Left(s) + g[k].amount]
  BY <1>1, SellDoes, SellAndReorderDoes DEF Books, Sell
<1>3. PaidIn("items", l)
  BY <1>2 DEF Stocked
<1>4. /\ SameCash(l.cash) /\ cashFile = l.cash
      /\ goodsFile # Empty /\ Paid(Ordered(l.order), goodsFile, l.cash)
      /\ Bought(g) <= l.cash.out - cash0.out /\ Taken(goodsFile, l) /\ SameTerms(g)
  BY <1>3 DEF PaidIn, Paying, AfterCash, Visit, Unsaved
<1>5. /\ l.order \in [Items -> Nat] /\ GoodsOK(g) /\ l.cash \in CashRecord
      /\ GoodsOK(goodsFile) /\ Covered(l, k) /\ k \in 1 .. N + 1
  BY <1>1, <1>2, <1>4, FileTerms, Here DEF Stage, CashOK
<1>6. /\ g[k].stock \in Nat /\ g[k].amount \in Nat /\ l.order[k] \in Nat
      /\ g[k].cost \in Nat /\ g[k].cost = goods0[k].cost /\ l.order[k] <= g[k].stock
  BY <1>2, <1>4, <1>5, GoodsInt DEF SameTerms, Covered
<1>7. x \in Nat /\ x <= g[k].stock + n /\ x >= g[k].stock - l.order[k] /\ n \in Nat
  BY <1>6 DEF Left
<1>8. m.goods = [g EXCEPT ![k].stock = x]
  <2>1. Left(s) + 0 = Left(s)
    BY <1>6 DEF Left
  <2>. QED  BY <1>2, <2>1
<1>9. /\ GoodsOK(m.goods) /\ m.goods[k].stock = x
      /\ \A i \in Items \ {k} : m.goods[i] = g[i]
      /\ m.goods[k].price = g[k].price /\ m.goods[k].cost = g[k].cost
  <2>1. GoodsOK([g EXCEPT ![k].stock = x])
    BY <1>2, <1>5, <1>7, RestockOK
  <2>2. g \in [Items -> GoodsRecord]
    BY <1>5 DEF GoodsOK, Stock
  <2>3. k \in Items /\ g[k] \in GoodsRecord
    BY <1>2, <2>2
  <2>. HIDE DEF x, n, k, g, m
  <2>4. m.goods[k] = [g[k] EXCEPT !.stock = x]
    BY <1>8, <2>2, <2>3
  <2>5. m.goods[k].stock = x /\ m.goods[k].price = g[k].price /\ m.goods[k].cost = g[k].cost
    BY <2>3, <2>4 DEF GoodsRecord
  <2>6. \A i \in Items \ {k} : m.goods[i] = g[i]
    BY <1>8, <2>2
  <2>. QED  BY <1>8, <2>1, <2>5, <2>6
<1>10. SameTerms(m.goods)
  BY <1>2, <1>4, <1>9 DEF SameTerms
<1>11. Taken(goodsFile, m)
  <2>1. ASSUME NEW i \in Items
        PROVE  /\ m.goods[i].stock >= goodsFile[i].stock - m.order[i]
               /\ i >= m.k => m.goods[i].stock = goodsFile[i].stock
    <3>1. /\ g[i].stock >= goodsFile[i].stock - l.order[i]
          /\ i >= k => g[i].stock = goodsFile[i].stock
      BY <1>4 DEF Taken
    <3>2. i \in Int /\ k \in Int /\ m.k = k + 1 /\ m.order = l.order
      BY <1>2, <1>5 DEF Items
    <3>3. CASE i = k
      <4>1. m.goods[i].stock = x /\ x >= g[i].stock - l.order[i] /\ i >= k
        BY <1>7, <1>9, <3>2, <3>3
      <4>2. g[i].stock = goodsFile[i].stock /\ ~ (i >= m.k)
        BY <3>1, <3>2, <3>3, <4>1
      <4>. HIDE DEF x
      <4>. QED  BY <3>2, <4>1, <4>2
    <3>4. CASE i # k
      <4>1. m.goods[i] = g[i] /\ (i >= m.k => i >= k)
        BY <1>9, <3>2, <3>4
      <4>. QED  BY <3>1, <3>2, <4>1
    <3>. QED  BY <3>3, <3>4
  <2>. QED  BY <2>1 DEF Taken
<1>12. Bought(m.goods) <= Bought(g) + goods0[k].cost * n
  BY <1>2, <1>5, <1>7, <1>9, BoughtMore
<1>13. Bought(g) \in Int /\ Bought(m.goods) \in Int /\ Bought(goodsFile) \in Int
  BY <1>5, <1>9, SoldInt
<1>14. /\ l.cash.out \in Nat /\ cash0.out \in Nat
  BY <1>5, FilesAssumption DEF CashRecord
<1>15. /\ m.cash.in = l.cash.in /\ m.cash.initial = l.cash.initial
       /\ m.cash.out >= l.cash.out + goods0[k].cost * n /\ m.cash.out >= l.cash.out
       /\ m.cash.out \in Int
  <2>1. CASE Sell(s)
    <3>1. goods0[k].cost * n = 0
      BY <1>2, <1>6, <2>1
    <3>. QED  BY <1>2, <1>14, <2>1, <3>1
  <2>2. CASE SellAndReorder(s)
    <3>1. Price(s) = goods0[k].cost * n /\ Price(s) \in Nat
      BY <1>2, <1>6, <2>2, NatProduct DEF Price
    <3>2. /\ m.cash.in = l.cash.in /\ m.cash.initial = l.cash.initial
          /\ m.cash.out = l.cash.out + Price(s)
      BY <1>2, <1>5, <2>2 DEF CashOut, CashRecord
    <3>. QED  BY <1>14, <3>1, <3>2
  <2>. QED  BY <2>1, <2>2
<1>16. /\ Bought(m.goods) <= m.cash.out - cash0.out
       /\ Bought(goodsFile) <= m.cash.out - cash0.out
  <2>1. goods0[k].cost * n \in Nat
    BY <1>6, <1>7, NatProduct
  <2>2. Bought(goodsFile) <= l.cash.out - cash0.out
    BY <1>4 DEF Paid
  <2>. HIDE DEF l, m, g, n, x, k
  <2>. QED  BY <1>4, <1>12, <1>13, <1>14, <1>15, <2>1, <2>2
<1>17. Paid(Ordered(m.order), goodsFile, m.cash)
  BY <1>2, <1>4, <1>15, <1>16 DEF Paid
<1>18. SameCash(m.cash)
  BY <1>4, <1>15 DEF SameCash
<1>19. PaidIn(pc'[s], m)
  <2>1. pc'[s] = "openCash" \/ (pc'[s] = "items" /\ cashFile = m.cash)
    BY <1>2, <1>4
  <2>. QED  BY <1>4, <1>10, <1>11, <1>16, <1>17, <1>18, <2>1
            DEF PaidIn, Choosing, Paying, AfterCash, Visit, Unsaved
<1>. QED  BY <1>1, <1>2, <1>19, StockedFrame

(* They are written to goods.txt, and the order is forgotten. *)
LEMMA StockedStore ==
  ASSUME IInv, Alone, Buyers, ExactTerms, Stocked, NEW s \in Sessions,
         OpenGoods(s) \/ FillGoods(s)
  PROVE  Stocked'
<1>1. SessionsOK /\ Others(s)
  BY OthersStay DEF IInv, Proceed
<1> DEFINE l == local[s]
           m == local'[s]
<1>2. /\ UNCHANGED <<cashFile, bill>> /\ pc[s] \in {"openGoods", "fillGoods"} /\ l.job = "buy"
      /\ OpenGoods(s) => goodsFile' = Empty /\ pc[s] = "openGoods" /\ pc'[s] = "fillGoods"
                         /\ m = l
      /\ FillGoods(s) => goodsFile' = FmtGoods(l.goods) /\ goodsFile' # Empty
                         /\ pc[s] = "fillGoods" /\ pc'[s] = "menu" /\ local' = Forget(s)
  BY <1>1, WriteGoodsDoes DEF Buyers
<1>3. PaidIn(pc[s], l)
  BY <1>2 DEF Stocked
<1>4. SameTerms(l.goods) /\ SameCash(l.cash) /\ cashFile = l.cash
  BY <1>2, <1>3 DEF PaidIn, Paying, AfterCash, Visit, Unsaved
<1>5. Sales' = Sales
  BY <1>2 DEF Sales
<1>6. AtWork(s)
  BY <1>1, <1>2, Working DEF Idle
<1>7. GoodsOK(l.goods)
  BY <1>1, Here
<1>8. CASE OpenGoods(s)
  <2>1. /\ goodsFile # Empty /\ Paid(Ordered(l.order), goodsFile, l.cash)
        /\ Bought(l.goods) <= l.cash.out - cash0.out /\ Taken(goodsFile, l)
    BY <1>2, <1>3, <1>8 DEF PaidIn, Paying
  <2>2. Sold(l.goods) <= Sold(goodsFile) + Ordered(l.order)
    <3>1. l.order \in [Items -> Nat] /\ GoodsOK(goodsFile)
      BY <1>1, <2>1, Here, FileTerms
    <3>. QED  BY <1>7, <2>1, <3>1, SoldTaken DEF Taken
  <2>3. Paid(0, l.goods, l.cash)
    <3>1. /\ Ordered(l.order) \in Nat /\ Sold(goodsFile) \in Int /\ Sold(l.goods) \in Int
      BY <1>1, <1>7, <2>1, Here, FileTerms, OrderedNat, SoldInt
    <3>2. l.cash.in \in Nat /\ cash0.in \in Nat
      BY <1>1, Here, FilesAssumption DEF CashOK, CashRecord
    <3>3. 4 * (Sold(goodsFile) + Ordered(l.order)) <= 5 * (l.cash.in - cash0.in)
      BY <2>1 DEF Paid
    <3>4. 4 * (Sold(l.goods) + 0) <= 5 * (l.cash.in - cash0.in)
      <4>. HIDE DEF l
      <4>. QED  BY <2>2, <3>1, <3>2, <3>3
    <3>. QED  BY <2>1, <3>4 DEF Paid
  <2>4. PaidIn(pc[s], local[s])'
    BY <1>2, <1>4, <1>5, <1>8, <2>3 DEF PaidIn, Paid, SameTerms, SameCash,
       Choosing, Paying, AfterCash, Visit, Unsaved
  <2>5. PaidOnFile'
    BY <1>2, <1>4, <1>5, <1>8 DEF PaidOnFile, SameCash
  <2>. QED  BY <1>1, <1>6, <2>4, <2>5, StockedAtWork
<1>9. CASE FillGoods(s)
  <2>1. goodsFile' = l.goods
    BY <1>2, <1>4, <1>7, <1>9, GoodsExact
  <2>2. Paid(0, l.goods, l.cash)
    BY <1>2, <1>3, <1>9 DEF PaidIn
  <2>3. m.goods = l.goods /\ m.cash = l.cash /\ m.k = 1 /\ m.ordercost = 0
    BY <1>1, <1>2, <1>9, ForgetDoes
  <2>4. PaidIn(pc[s], local[s])'
    BY <1>2, <1>4, <1>5, <1>9, <2>1, <2>3 DEF PaidIn, SameCash,
       Choosing, Paying, AfterCash, Visit, Unsaved
  <2>5. PaidOnFile'
    BY <1>2, <1>4, <1>5, <2>1, <2>2 DEF PaidOnFile, SameTerms, SameCash, Paid
  <2>. QED  BY <1>1, <1>6, <2>4, <2>5, StockedAtWork
<1>. QED  BY <1>8, <1>9

LEMMA StockedProceed ==
  ASSUME IInv, Alone, Buyers, ExactTerms, WithinDigits, Stocked, NEW s \in Sessions, Proceed(s)
  PROVE  Stocked'
<1>1. SessionsOK /\ Others(s) /\ (local[s].job = "buy" => PaidIn(pc[s], local[s]))
  BY OthersStay DEF IInv, Stocked
<1>. USE <1>1 DEF Books
<1>2. CASE Bill(s) \/ Pay(s) \/ OpenCash(s) \/ FillCash(s) \/ Sell(s) \/ SellAndReorder(s)
           \/ OpenGoods(s) \/ FillGoods(s)
  BY <1>2, StockedBill, StockedPay, StockedWrite, StockedSell, StockedStore
<1>3. CASE InitBalance(s) \/ NoAccounts(s)
  <2>1. /\ UNCHANGED <<goodsFile, cashFile, bill>> /\ local[s].job = "buy"
        /\ pc[s] = "initBalance" /\ pc'[s] \in {"initCash", "stuck"} /\ local'[s] = local[s]
    BY <1>3, StartDoes
  <2>2. PaidIn(pc'[s], local'[s])
    BY <2>1 DEF PaidIn, Choosing, Paying, AfterCash, Visit, Unsaved
  <2>. QED  BY <2>1, <2>2, StockedFrame
<1>4. CASE InitCash(s) \/ ReadCash(s)
  <2>1. /\ UNCHANGED <<goodsFile, cashFile, bill>> /\ cashFile # Empty /\ local[s].job = "buy"
        /\ \/ pc[s] = "initCash" /\ pc'[s] = "menu"
           \/ pc[s] = "readCash" /\ pc'[s] = "items"
        /\ local'[s].cash = cashFile
        /\ local'[s].goods = local[s].goods /\ local'[s].order = local[s].order
        /\ local'[s].k = local[s].k /\ local'[s].ordercost = local[s].ordercost
    BY <1>4, TakeCashDoes
  <2>2. SameCash(cashFile)
    BY <2>1, FileTerms
  <2>3. PaidIn(pc'[s], local'[s])
    BY <2>1, <2>2 DEF PaidIn, Taken, Choosing, Paying, AfterCash, Visit, Unsaved
  <2>. QED  BY <2>1, <2>3, StockedFrame
<1>5. CASE Refuse(s)
  <2>1. /\ UNCHANGED <<goodsFile, cashFile, bill>> /\ local[s].job = "buy"
        /\ pc[s] = "bill" /\ pc'[s] = "menu"
        /\ local'[s].cash = local[s].cash /\ local'[s].goods = local[s].goods
        /\ local'[s].k = 1 /\ local'[s].ordercost = 0
    BY <1>5, RefuseDoes, ForgetDoes
  <2>2. PaidIn(pc'[s], local'[s])
    BY <2>1 DEF PaidIn, Choosing, Paying, AfterCash, Visit, Unsaved
  <2>. QED  BY <2>1, <2>2, StockedFrame
<1>6. CASE CopyBalance(s)
  <2>1. /\ UNCHANGED <<goodsFile, cashFile, bill>> /\ local[s].job = "buy"
        /\ pc[s] = "items" /\ pc'[s] = "remove"
        /\ local'[s].cash = local[s].cash /\ local'[s].goods = local[s].goods
        /\ local'[s].order = local[s].order /\ local'[s].k = local[s].k
    BY <1>6, CopyBalanceDoes
  <2>2. PaidIn(pc'[s], local'[s])
    BY <2>1 DEF PaidIn, Taken, Choosing, Paying, AfterCash, Visit, Unsaved
  <2>. QED  BY <2>1, <2>2, StockedFrame
<1>7. CASE CopyFails(s) \/ Remove(s) \/ Rename(s)
  <2>1. /\ UNCHANGED <<goodsFile, cashFile, bill>>
        /\ local'[s] = local[s] \/ (pc'[s] = "home" /\ local'[s] = NoLocal)
        /\ pc[s] \in {"items", "remove", "rename"}
        /\ pc'[s] \in {"rename", "openGoods", "home"}
    BY <1>7, WriteAccountsDoes
  <2>2. ASSUME local'[s].job = "buy" PROVE PaidIn(pc'[s], local'[s])
    <3>1. CASE pc'[s] = "home"
      BY <3>1, NothingPaid DEF Choosing, Paying
    <3>2. CASE pc'[s] # "home"
      <4>1. local'[s] = local[s] /\ local[s].job = "buy"
        BY <2>1, <2>2, <3>2
      <4>. QED  BY <2>1, <3>2, <4>1 DEF PaidIn, Choosing, Paying, AfterCash, Visit, Unsaved
    <3>. QED  BY <3>1, <3>2
  <2>. QED  BY <2>1, <2>2, StockedFrame
<1>. QED  BY <1>2, <1>3, <1>4, <1>5, <1>6, <1>7 DEF Proceed

(* With an administrator who neither orders nor modifies: *)
LEMMA BuyersRequest ==
  ASSUME NoRestock, Buyers, SessionsOK, NEW s \in Sessions, Request(s)
  PROVE  \/ Quietly(s) \/ SignUp(s) \/ InitGoods(s) \/ ReadStock(s)
         \/ \E i \in Items, q \in 1 .. MaxQuantity : Add(s, i, q)
         \/ \E j \in {"balance", "delete"}, u \in Users :
               EditFails(s, j, u) \/ \E x \in Nat \cup {NoRecord} : Edit(s, j, u, x)
<1>1. \A i \in Items : ~ NameOrdered(s, i)
  BY DEF NoRestock, NameOrdered, AdminJob
<1>2. \A i \in Items : \A t \in NewTerms : ~ Modify(s, i, t)
  BY DEF NoRestock, Modify, AdminJob
<1>3. \A q \in 1 .. MaxQuantity : ~ Order(s, q)
  BY OrderDoes DEF Buyers
<1>. QED  BY <1>1, <1>2, <1>3, PeopleAssumption, InputAssumption
          DEF Request, Quietly, Delete, SetBalance

LEMMA StockedRequest ==
  ASSUME IInv, Serial, NoRestock, Alone, Buyers, Stocked, NEW s \in Sessions, Request(s)
  PROVE  Stocked'
<1>1. SessionsOK /\ Others(s) /\ (local[s].job = "buy" => PaidIn(pc[s], local[s]))
  BY OthersStay DEF IInv, Stocked
<1>. USE <1>1 DEF Books
<1>2. CASE Quietly(s)
  <2>1. CASE pc[s] = "menu" /\ pc'[s] = "bill" /\ local'[s] = local[s] /\ local[s].job = "buy"
    <3>1. Charged(local[s].order, 1) = 0
      BY Here, ChargedStep
    <3>2. PaidIn("bill", local[s])
      <4>1. PaidIn("menu", local[s])
        BY <2>1
      <4>2. local[s].k = 1 /\ local[s].ordercost = 0
        BY <4>1 DEF PaidIn, Choosing
      <4>. QED  BY <3>1, <4>1, <4>2 DEF PaidIn, Choosing, Paying, AfterCash, Visit, Unsaved
    <3>. QED  BY <1>2, <2>1, <3>2, QuietlyDoes, StockedFrame
  <2>2. CASE pc'[s] \in Idle
    BY <1>2, <2>2, QuietlyDoes, NothingPaid, StockedFrame DEF Idle, Choosing, Paying
  <2>. QED  BY <1>2, <2>1, <2>2, QuietlyDoes
<1>3. CASE SignUp(s)
  BY <1>3, StockedFrame DEF SignUp
<1>4. CASE InitGoods(s) \/ ReadStock(s)
  <2>1. /\ UNCHANGED <<goodsFile, cashFile, bill>> /\ goodsFile # Empty
        /\ pc'[s] \in {"initBalance", "stock"} /\ local'[s].goods = goodsFile
        /\ local'[s].k = 1 /\ local'[s].ordercost = 0
    BY <1>4, ReadGoodsDoes
  <2>2. PaidIn(pc'[s], local'[s])
    BY <2>1 DEF PaidIn, Choosing, Paying, AfterCash, Visit, Unsaved
  <2>. QED  BY <2>1, <2>2, StockedFrame
<1>5. ASSUME NEW i \in Items, NEW q \in 1 .. MaxQuantity, Add(s, i, q) PROVE Stocked'
  <2>1. /\ UNCHANGED <<goodsFile, cashFile, bill>> /\ pc[s] = "menu" /\ pc'[s] = "menu"
        /\ local[s].job = "buy" /\ local'[s].cash = local[s].cash
        /\ local'[s].goods = local[s].goods /\ local'[s].k = local[s].k
        /\ local'[s].ordercost = local[s].ordercost
    BY <1>5, AddDoes
  <2>2. PaidIn(pc'[s], local'[s])
    BY <2>1 DEF PaidIn, Choosing, Paying, AfterCash, Visit, Unsaved
  <2>. QED  BY <2>1, <2>2, StockedFrame
<1>6. ASSUME NEW j \in {"balance", "delete"}, NEW u, NEW x, Edit(s, j, u, x) PROVE Stocked'
  BY <1>6, EditDoes, StockedFrame
<1>7. ASSUME NEW j \in {"balance", "delete"}, NEW u, EditFails(s, j, u) PROVE Stocked'
  BY <1>7, EditFailsDoes, NothingPaid, StockedFrame DEF Choosing, Paying
<1>. QED  BY <1>2, <1>3, <1>4, <1>5, <1>6, <1>7, BuyersRequest

LEMMA BuyersStep ==
  ASSUME IInv, Serial, NoRestock, Buyers, NEW s \in Sessions, Proceed(s) \/ Request(s)
  PROVE  Buyers'
<1>1. SessionsOK /\ Others(s)
  BY OthersStay DEF IInv
<1>. USE <1>1
<1>2. ASSUME local'[s].job = "buy" \/ (local'[s].job \notin {"order", "modify"}
                /\ pc'[s] \notin {"openCash", "fillCash", "openGoods", "fillGoods"})
      PROVE  Buyers'
  BY <1>2 DEF Buyers, Others
<1>3. local[s].job \notin {"order", "modify"} /\ NoLocal.job = "buy"
  BY DEF Buyers, NoLocal
<1>4. CASE Proceed(s)
  <2>1. CASE InitBalance(s) \/ NoAccounts(s) \/ InitCash(s) \/ ReadCash(s)
    BY <1>2, <2>1, StartDoes, TakeCashDoes
  <2>2. CASE Bill(s) \/ Refuse(s) \/ Pay(s) \/ Sell(s) \/ SellAndReorder(s)
    BY <1>2, <2>2, BillDoes, RefuseDoes, ForgetDoes, PayDoes, SellDoes, SellAndReorderDoes
  <2>3. CASE OpenCash(s) \/ FillCash(s)
    BY <1>2, <1>3, <2>3, WriteCashDoes DEF Buyers
  <2>4. CASE CopyBalance(s)
    BY <1>2, <2>4, CopyBalanceDoes
  <2>5. CASE CopyFails(s)
    <3>1. pc[s] = "items" /\ pc'[s] = "openGoods" /\ local'[s] = local[s]
      BY <2>5, PassOthers DEF CopyFails
    <3>2. local[s].job = "buy"
      BY <3>1, Here DEF Stage
    <3>. QED  BY <1>2, <3>1, <3>2
  <2>6. CASE Remove(s) \/ Rename(s)
    <3>1. pc'[s] \notin {"openCash", "fillCash", "fillGoods"}
          /\ (pc'[s] = "openGoods" => local[s].job = "buy")
          /\ (local'[s] = local[s] \/ local'[s] = NoLocal)
      BY <2>6, PassOthers DEF Remove, Rename
    <3>. QED  BY <1>2, <1>3, <3>1
  <2>7. CASE OpenGoods(s) \/ FillGoods(s)
    BY <1>2, <1>3, <2>7, WriteGoodsDoes, ForgetDoes DEF Buyers
  <2>. QED  BY <1>4, <2>1, <2>2, <2>3, <2>4, <2>5, <2>6, <2>7 DEF Proceed
<1>5. CASE Request(s)
  <2>1. CASE Quietly(s)
    BY <1>2, <2>1, QuietlyDoes
  <2>2. CASE SignUp(s)
    BY <2>2 DEF SignUp, Buyers
  <2>3. CASE InitGoods(s) \/ ReadStock(s)
    BY <1>2, <2>3, ReadGoodsDoes
  <2>4. ASSUME NEW i \in Items, NEW q \in 1 .. MaxQuantity, Add(s, i, q) PROVE Buyers'
    BY <1>2, <2>4, AddDoes
  <2>5. ASSUME NEW j \in {"balance", "delete"}, NEW u, NEW x, Edit(s, j, u, x) PROVE Buyers'
    BY <1>2, <2>5, EditDoes
  <2>6. ASSUME NEW j \in {"balance", "delete"}, NEW u, EditFails(s, j, u) PROVE Buyers'
    BY <1>2, <1>3, <2>6, EditFailsDoes
  <2>. QED  BY <1>5, <2>1, <2>2, <2>3, <2>4, <2>5, <2>6, BuyersRequest
<1>. QED  BY <1>4, <1>5

LEMMA StockedRestart ==
  ASSUME Stocked, Restart
  PROVE  Alone' /\ Buyers' /\ Stocked'
<1>1. Sales' = Sales
  BY RestartDoes DEF Sales, Books
<1>2. PaidOnFile'
  BY <1>1, RestartDoes DEF Stocked, PaidOnFile, SameTerms, SameCash, Paid, Books
<1>3. \A s \in Sessions : PaidIn(pc[s], local[s])'
  BY RestartDoes DEF PaidIn, Choosing, Paying, AfterCash, Visit, Unsaved
<1>. QED  BY <1>2, <1>3, RestartDoes DEF Stocked, Buyers

LEMMA StockedInit ==
  ASSUME Init
  PROVE  Alone /\ Buyers /\ Stocked
<1>1. /\ \A s \in Sessions : pc[s] = "out" /\ local[s] = NoLocal /\ NoLocal.job = "buy"
      /\ goodsFile = goods0 /\ cashFile = cash0
  BY DEF Init, NoLocal
<1>2. SameCash(cash0)
  BY InitOK, SalesNat DEF SameCash
<1>3. SameTerms(goods0)
  BY DEF SameTerms
<1>4. Sold(goods0) = 0 /\ Bought(goods0) = 0
  <2>1. ASSUME NEW i \in Items
        PROVE  /\ goods0[i].price * (goods0[i].stock - goods0[i].stock) = 0
               /\ goods0[i].cost * (goods0[i].stock - goods0[i].stock) = 0
    <3>1. \A p, x \in Nat : p * (x - x) = 0
      OBVIOUS
    <3>. QED  BY <3>1, TermsNat
  <2>2. /\ [i \in Items |-> goods0[i].price * (goods0[i].stock - goods0[i].stock)]
              = [i \in Items |-> 0]
        /\ [i \in Items |-> goods0[i].cost * (goods0[i].stock - goods0[i].stock)]
              = [i \in Items |-> 0]
    BY <2>1
  <2>. QED  BY <2>2, ItemsFinite, TotalZero DEF Sold, Bought
<1>5. Paid(0, goods0, cash0)
  BY <1>4, FilesAssumption DEF Paid, CashRecord
<1>6. PaidOnFile
  BY <1>1, <1>2, <1>3, <1>5 DEF PaidOnFile
<1>7. \A s \in Sessions : PaidIn(pc[s], local[s])
  BY <1>1, NothingPaid DEF Choosing, Paying
<1>. QED  BY <1>1, <1>6, <1>7, SerialInit DEF Stocked, Buyers

(* The sums the property is stated with. *)
GonePart(g, i) == goods0[i].price * (goods0[i].stock - g[i].stock)
ComePart(g, i) == - goods0[i].cost * (goods0[i].stock - g[i].stock)
GoneStep(sum, g, s) == IF s = {} THEN 0 ELSE GonePart(g, Pick(s)) + sum[s \ {Pick(s)}]
ComeStep(sum, g, s) == IF s = {} THEN 0 ELSE ComePart(g, Pick(s)) + sum[s \ {Pick(s)}]
GoneSum(g) == CHOOSE sum : sum = [s \in SUBSET Items |-> GoneStep(sum, g, s)]
ComeSum(g) == CHOOSE sum : sum = [s \in SUBSET Items |-> ComeStep(sum, g, s)]

LEMMA GoneSums ==
  ASSUME NEW g, GoodsOK(g)
  PROVE  GoneSum(g)[Items] = Sold(g)
<1> DEFINE f == [i \in Items |-> goods0[i].price * (goods0[i].stock - g[i].stock)]
           c == GoneSum(g)
<1>1. f \in [Items -> Int]
  <2>1. \A p, x \in Int : p * x \in Int
    OBVIOUS
  <2>2. \A i \in Items : goods0[i].price \in Int /\ (goods0[i].stock - g[i].stock) \in Int
    BY TermsNat, GoodsInt
  <2>. QED  BY <2>1, <2>2
<1>2. PICK sum \in [SUBSET Items -> Int] : SumsUp(sum, f, Items) /\ Sold(g) = sum[Items]
  <2>1. Sold(g) = Total(f)
    BY DEF Sold
  <2>. HIDE DEF f
  <2>. QED  BY <1>1, <2>1, ItemsFinite, TotalSums
<1>3. ASSUME NEW s \in SUBSET Items, NEW iter PROVE Step(iter, f, s) = GoneStep(iter, g, s)
  <2>1. s # {} => Pick(s) \in Items
    BY DEF Pick
  <2>2. s # {} => GonePart(g, Pick(s)) = f[Pick(s)]
    BY <2>1 DEF GonePart
  <2>. HIDE DEF f
  <2>. QED  BY <2>2 DEF Step, GoneStep
<1>4. c = [s \in SUBSET Items |-> GoneStep(c, g, s)]
  <2>1. sum = [s \in SUBSET Items |-> GoneStep(sum, g, s)]
    BY <1>2, <1>3 DEF SumsUp
  <2>. QED  BY <2>1 DEF GoneSum
<1>. HIDE DEF c, f
<1>5. SumsUp(c, f, Items)
  BY <1>3, <1>4 DEF SumsUp
<1>6. c[Items] = Sold(g)
  BY <1>1, <1>2, <1>5, ItemsFinite, SumUnique
<1>. QED  BY <1>6 DEF c

LEMMA ComeSums ==
  ASSUME NEW g, GoodsOK(g)
  PROVE  ComeSum(g)[Items] = Bought(g)
<1> DEFINE f == [i \in Items |-> goods0[i].cost * (g[i].stock - goods0[i].stock)]
           c == ComeSum(g)
<1>1. f \in [Items -> Int]
  <2>1. \A p, x \in Int : p * x \in Int
    OBVIOUS
  <2>2. \A i \in Items : goods0[i].cost \in Int /\ (g[i].stock - goods0[i].stock) \in Int
    BY TermsNat, GoodsInt
  <2>. QED  BY <2>1, <2>2
<1>2. PICK sum \in [SUBSET Items -> Int] : SumsUp(sum, f, Items) /\ Bought(g) = sum[Items]
  <2>1. Bought(g) = Total(f)
    BY DEF Bought
  <2>. HIDE DEF f
  <2>. QED  BY <1>1, <2>1, ItemsFinite, TotalSums
<1>3. ASSUME NEW s \in SUBSET Items, NEW iter PROVE Step(iter, f, s) = ComeStep(iter, g, s)
  <2>1. s # {} => Pick(s) \in Items
    BY DEF Pick
  <2>2. s # {} => ComePart(g, Pick(s)) = f[Pick(s)]
    <3>1. \A p, x, y \in Int : - p * (x - y) = p * (y - x)
      OBVIOUS
    <3>2. \A i \in Items : /\ goods0[i].cost \in Int /\ goods0[i].stock \in Int
                           /\ g[i].stock \in Int
      BY TermsNat, GoodsInt
    <3>. QED  BY <2>1, <3>1, <3>2 DEF ComePart
  <2>. HIDE DEF f
  <2>. QED  BY <2>2 DEF Step, ComeStep
<1>4. c = [s \in SUBSET Items |-> ComeStep(c, g, s)]
  <2>1. sum = [s \in SUBSET Items |-> ComeStep(sum, g, s)]
    BY <1>2, <1>3 DEF SumsUp
  <2>. QED  BY <2>1 DEF ComeSum
<1>. HIDE DEF c, f
<1>5. SumsUp(c, f, Items)
  BY <1>3, <1>4 DEF SumsUp
<1>6. c[Items] = Bought(g)
  BY <1>1, <1>2, <1>5, ItemsFinite, SumUnique
<1>. QED  BY <1>6 DEF c

LEMMA GoodsPaidSums ==
  ASSUME IInv, goodsFile # Empty
  PROVE  GoodsPaid <=> (cashFile # Empty => Paid(0, goodsFile, cashFile))
<1>1. GoodsOK(goodsFile)
  BY DEF IInv, FilesOK
<1>2. GoodsPaid <=> (cashFile # Empty =>
         /\ 4 * GoneSum(goodsFile)[Items] <= 5 * (cashFile.in - cash0.in)
         /\ ComeSum(goodsFile)[Items] <= cashFile.out - cash0.out)
  BY DEF GoodsPaid, MapThenSumSet, MapThenFoldSet, Pick, GoneSum, ComeSum, GoneStep, ComeStep,
     GonePart, ComePart
<1>3. Sold(goodsFile) \in Int /\ Sold(goodsFile) + 0 = Sold(goodsFile)
  BY <1>1, SoldInt
<1>. QED  BY <1>1, <1>2, <1>3, GoneSums, ComeSums DEF Paid

(* In every state, crashes included, what left the goods on file is paid for *)
(* at 80% or more of its price, and what came is paid for in full: buy       *)
(* writes goods.txt after cash.txt (Person.cpp:448 to 482).  For a shop with *)
(* one session at a time whose administrator neither orders nor modifies,    *)
(* with prices of which 80% are whole, as long as the amounts keep within    *)
(* the six digits the code writes.                                           *)
THEOREM GoodsAreCovered ==
  Serial /\ NoRestock /\ ExactTerms => (Spec => [](WithinDigits => GoodsPaid))
<1>. SUFFICES ASSUME Serial, NoRestock, ExactTerms
              PROVE  Spec => [](WithinDigits => GoodsPaid)
  OBVIOUS
<1> DEFINE Sound == Alone /\ Buyers /\ (WithinDigits => Stocked)
<1>1. Init => Sound
  BY StockedInit
<1>2. IInv /\ Sound /\ [Next]_vars => Sound'
  <2>. SUFFICES ASSUME IInv, Sound, [Next]_vars PROVE Sound'
    OBVIOUS
  <2>1. WithinDigits' => WithinDigits
    BY SalesGrow
  <2>2. CASE UNCHANGED vars
    <3>1. Alone' /\ Buyers'
      BY <2>2 DEF vars, fileVars, Alone, Buyers
    <3>2. Stocked => Stocked'
      <4>1. Sales' = Sales
        BY <2>2 DEF vars, historyVars, Sales
      <4>2. PaidOnFile => PaidOnFile'
        BY <2>2, <4>1 DEF vars, fileVars, PaidOnFile, SameTerms, SameCash, Paid
      <4>3. ASSUME NEW s \in Sessions, PaidIn(pc[s], local[s]) PROVE PaidIn(pc[s], local[s])'
        BY <2>2, <4>1, <4>3 DEF vars, fileVars, PaidIn, SameTerms, SameCash, Paid, Taken
      <4>. QED  BY <2>2, <4>2, <4>3 DEF vars, Stocked
    <3>. QED  BY <2>1, <3>1, <3>2
  <2>3. CASE Restart
    <3>1. Alone' /\ Buyers'
      BY <2>3, RestartDoes DEF Buyers
    <3>. QED  BY <2>1, <2>3, <3>1, StockedRestart
  <2>4. ASSUME NEW s \in Sessions, Proceed(s) \/ Request(s) PROVE Sound'
    <3>1. Alone' /\ Buyers'
      BY <2>4, OthersStay, TakesTurn, AloneStep, BuyersStep
    <3>. QED  BY <2>1, <2>4, <3>1, StockedProceed, StockedRequest
  <2>. QED  BY <2>2, <2>3, <2>4 DEF Next, Throws, Killed
<1>3. IInv /\ Sound => (WithinDigits => GoodsPaid)
  <2>1. goodsFile = Empty => GoodsPaid
    BY DEF GoodsPaid
  <2>. QED  BY <2>1, GoodsPaidSums DEF Stocked, PaidOnFile
<1>. QED  BY <1>1, <1>2, <1>3, Invariance, PTL DEF Spec
=============================================================================
