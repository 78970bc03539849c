--------------------------- MODULE ShopSerialProofs ---------------------------
(***************************************************************************)
(* Proofs about module Shop when sessions are served one at a time and the  *)
(* process does not end: no accounts file is lost, what was deleted stays   *)
(* deleted, whoever signed up has a record, prices are those that were set  *)
(* last, and nobody spends more than he has; for every number of goods,     *)
(* users, files and sessions, and any operations of the administrator.      *)
(*                                                                          *)
(* (In other interleavings these do not hold, see the README.)  The argument*)
(* is that the one session at work (Alone) holds a copy which differs from  *)
(* the file in nothing but what it changes itself (Accounted, Listed,       *)
(* Solvent).                                                                *)
(***************************************************************************)
EXTENDS ShopProofs

Idle == {"out", "home"}
Alone == \A r, s \in Sessions : pc[r] \notin Idle /\ pc[s] \notin Idle => r = s

(* The content a of file f: records of its own only, none of the users in B, *)
(* one of each of its users in R.                                            *)
Kept(a, f, B, R) ==
    \A u \in Users : /\ a[u] # NoRecord => FileOf[u] = f
                     /\ u \in B => a[u] = NoRecord
                     /\ u \in R /\ FileOf[u] = f => a[u] # NoRecord

(* Who is deleted when the file that s is writing takes its place. *)
BannedBy(s) ==
    IF local[s].job = "delete" THEN banned \cup {local[s].target} ELSE banned

TmpKept(s) ==
    /\ tmp # Missing
    /\ Kept(tmp, FileOf[local[s].target], BannedBy(s), registered \ BannedBy(s))

Accounted ==
    /\ \A f \in Files : acct[f] # Missing => Kept(acct[f], f, banned, registered)
    /\ \A f \in Files : acct[f] = Missing =>
          \E s \in Sessions : pc[s] = "rename" /\ FileOf[local[s].target] = f
    /\ \A s \in Sessions : pc[s] \in {"remove", "rename"} => TmpKept(s)
    /\ \A s \in Sessions : pc[s] = "rename" => acct[FileOf[local[s].target]] = Missing

(* The prices in a session's copy, but for the one it is changing. *)
Priced(l) ==
    \A i \in Items : \/ l.goods[i].price = listed[i]
                     \/ l.job = "modify" /\ i = l.k

Listed ==
    /\ \A i \in Items : Fmt(listed[i]) = listed[i]
    /\ goodsFile = Empty => \E s \in Sessions : pc[s] = "fillGoods"
    /\ goodsFile # Empty => \A i \in Items : goodsFile[i].price = listed[i]
    /\ \A s \in Sessions :
          pc[s] \in Idle \cup {"stuck", "key"} \/ local[s].job \in {"balance", "delete"}
             \/ Priced(local[s])

-----------------------------------------------------------------------------
(* A step is one session's, and leaves the others where they are. *)
Others(s) == \A r \in Sessions \ {s} : pc'[r] = pc[r] /\ local'[r] = local[r]

(* It is the step of one at work, or to idleness, or while all are idle.     *)
InTurn(s) == \/ pc[s] \notin Idle
             \/ pc'[s] \in Idle
             \/ \A r \in Sessions : pc[r] \in Idle

LEMMA OneSteps ==
  ASSUME IInv, MaxCrashes = 0, Next
  PROVE  \E s \in Sessions : Proceed(s) \/ Request(s)
<1>1. ~ Restart
  BY DEF IInv, HistoryOK, Restart
<1>. QED  BY <1>1 DEF Next, Throws, Killed

LEMMA GotoOthers ==
  ASSUME SessionsOK, NEW s \in Sessions, NEW p, pc' = [pc EXCEPT ![s] = p]
  PROVE  pc'[s] = p /\ \A r \in Sessions \ {s} : pc'[r] = pc[r]
BY DEF SessionsOK

LEMMA LocalOthers ==
  ASSUME SessionsOK, NEW s \in Sessions, NEW l,
         local' = [local EXCEPT ![s] = l]
  PROVE  local'[s] = l /\ \A r \in Sessions \ {s} : local'[r] = local[r]
BY DEF SessionsOK

LEMMA PassOthers ==
  ASSUME SessionsOK, NEW s \in Sessions, NEW from, NEW to, Pass(s, from, to)
  PROVE  /\ Others(s) /\ pc[s] = from /\ pc'[s] = to
         /\ local'[s] = IF to = "home" THEN NoLocal ELSE local[s]
BY GotoOthers, LocalOthers DEF Pass, Goto, Others

LEMMA OthersStay ==
  ASSUME IInv, NEW s \in Sessions, Proceed(s) \/ Request(s)
  PROVE  Others(s)
<1>1. SessionsOK
  BY DEF IInv
<1>. USE <1>1
<1>2. CASE \E from, to : Pass(s, from, to)
  BY <1>2, PassOthers
<1>3. CASE UNCHANGED <<pc, local>>
  BY <1>3 DEF Others
<1>4. CASE UNCHANGED local /\ \E p : pc' = [pc EXCEPT ![s] = p]
  BY <1>4, GotoOthers DEF Others
<1>5. CASE UNCHANGED pc /\ \E l : local' = [local EXCEPT ![s] = l]
  BY <1>5, LocalOthers DEF Others
<1>6. CASE (\E p : pc' = [pc EXCEPT ![s] = p]) /\ (\E l : local' = [local EXCEPT ![s] = l])
  BY <1>6, GotoOthers, LocalOthers DEF Others
<1>7. CASE Proceed(s)
  <2>1. CASE InitBalance(s)
    BY <2>1, <1>4 DEF InitBalance, Goto
  <2>2. CASE NoAccounts(s) \/ OpenCash(s) \/ FillCash(s) \/ CopyFails(s) \/ Remove(s)
             \/ Rename(s) \/ OpenGoods(s)
    BY <2>2, <1>2 DEF NoAccounts, OpenCash, FillCash, CopyFails, Remove, Rename, OpenGoods
  <2>3. CASE InitCash(s)
    BY <2>3, <1>6 DEF InitCash, Goto
  <2>4. CASE Bill(s)
    BY <2>4, <1>5 DEF Bill
  <2>5. CASE Refuse(s)
    BY <2>5, <1>6 DEF Refuse, Goto, Forget
  <2>6. CASE Pay(s)
    BY <2>6, <1>6 DEF Pay, Goto
  <2>7. CASE ReadCash(s)
    BY <2>7, <1>6 DEF ReadCash, Goto
  <2>8. CASE Sell(s)
    BY <2>8, <1>5 DEF Sell
  <2>9. CASE SellAndReorder(s)
    BY <2>9, <1>6 DEF SellAndReorder, Goto
  <2>10. CASE CopyBalance(s)
    BY <2>10, <1>6 DEF CopyBalance, Goto
  <2>11. CASE FillGoods(s)
    BY <2>11, <1>2, <1>6 DEF FillGoods, Goto, Forget
  <2>. QED  BY <1>7, <2>1, <2>2, <2>3, <2>4, <2>5, <2>6, <2>7, <2>8, <2>9, <2>10, <2>11
            DEF Proceed
<1>8. CASE Request(s)
  <2>1. CASE Login(s) \/ Logout(s)
    BY <2>1, <1>4 DEF Login, Logout, Goto
  <2>2. CASE SignUp(s)
    BY <2>2, <1>3 DEF SignUp
  <2>3. CASE InitGoods(s) \/ ReadStock(s)
    BY <2>3, <1>6 DEF InitGoods, ReadStock, Begin, Goto
  <2>4. ASSUME NEW i \in Items, NEW q \in 1 .. MaxQuantity, Add(s, i, q) PROVE Others(s)
    BY <2>4, <1>5 DEF Add
  <2>5. CASE Confirm(s) \/ Back(s) \/ LeaveStock(s) \/ PressKey(s)
             \/ \E q \in 1 .. MaxQuantity : OrderRefused(s, q)
    BY <2>5, <1>2 DEF Confirm, Back, LeaveStock, PressKey, OrderRefused
  <2>6. ASSUME NEW j, NEW u, NEW x, Edit(s, j, u, x) PROVE Others(s)
    BY <2>6, <1>6 DEF Edit, Begin, Goto
  <2>7. ASSUME NEW j, NEW u, EditFails(s, j, u) PROVE Others(s)
    BY <2>7, <1>4 DEF EditFails, Begin, Goto
  <2>8. ASSUME NEW i \in Items, NameOrdered(s, i) PROVE Others(s)
    BY <2>8, <1>6 DEF NameOrdered, Goto
  <2>9. ASSUME NEW i \in Items, NEW t \in NewTerms, Modify(s, i, t) PROVE Others(s)
    <3> DEFINE l == [local[s] EXCEPT !.job = "modify", !.k = i, !.goods[i] =
                       [@ EXCEPT !.price = t.price, !.level = t.level, !.amount = t.amount]]
    <3>1. local' = [local EXCEPT ![s] = l] /\ pc' = [pc EXCEPT ![s] = "openGoods"]
      BY <2>9 DEF Modify, Goto
    <3>. HIDE DEF l
    <3>. QED  BY <3>1, GotoOthers, LocalOthers DEF Others
  <2>10. ASSUME NEW q \in 1 .. MaxQuantity, Order(s, q) PROVE Others(s)
    BY <2>10, <1>6 DEF Order, Goto
  <2>. QED  BY <1>8, <2>1, <2>2, <2>3, <2>4, <2>5, <2>6, <2>7, <2>8, <2>9, <2>10
            DEF Request, Delete, SetBalance
<1>. QED  BY <1>7, <1>8

LEMMA TakesTurn ==
  ASSUME IInv, Serial, NEW s \in Sessions, Proceed(s) \/ Request(s)
  PROVE  InTurn(s)
<1>. USE DEF InTurn, Idle
<1>1. SessionsOK
  BY DEF IInv
<1>2. CASE pc[s] \notin Idle
  BY <1>2
<1>3. CASE pc[s] \in Idle /\ Proceed(s)
  BY <1>3 DEF Proceed, InitBalance, NoAccounts, InitCash, Bill, Refuse, Pay, OpenCash,
       FillCash, ReadCash, Sell, SellAndReorder, CopyBalance, CopyFails, Remove, Rename,
       OpenGoods, FillGoods, Pass, Goto
<1>4. CASE pc[s] \in Idle /\ Request(s)
  <2>1. CASE Login(s) \/ Logout(s)
    BY <1>1, <2>1, GotoOthers DEF Login, Logout, Goto
  <2>2. CASE \E p : Begin(s, p)
    BY <2>2 DEF Begin
  <2>3. CASE SignUp(s)
    BY <2>3 DEF SignUp
  <2>. QED  BY <1>4, <2>1, <2>2, <2>3
            DEF Request, InitGoods, ReadStock, Delete, SetBalance, Edit, EditFails, Add,
                Confirm, Back, LeaveStock, PressKey, NameOrdered, Modify, Order, OrderRefused,
                Pass, Goto
<1>. QED  BY <1>2, <1>3, <1>4

LEMMA AloneStep ==
  ASSUME Alone, NEW s \in Sessions, Others(s), InTurn(s)
  PROVE  Alone'
BY DEF Alone, Others, InTurn

-----------------------------------------------------------------------------
(* The accounts files.  A step that writes none of them: *)
LEMMA AcctFrame ==
  ASSUME Accounted, NEW s \in Sessions, Others(s),
         UNCHANGED <<acct, tmp, banned, registered>>,
         pc[s] # "rename", pc'[s] \notin {"remove", "rename"}
  PROVE  Accounted'
<1>1. \A r \in Sessions : pc'[r] \in {"remove", "rename"} =>
         r # s /\ pc[r] = pc'[r] /\ local'[r] = local[r]
  BY DEF Others
<1>2. \A r \in Sessions : pc'[r] \in {"remove", "rename"} => TmpKept(r)'
  BY <1>1 DEF Accounted, TmpKept, BannedBy, Kept
<1>3. \A r \in Sessions : pc'[r] = "rename" => acct'[FileOf[local'[r].target]] = Missing
  BY <1>1 DEF Accounted
<1>4. ASSUME NEW f \in Files, acct'[f] = Missing
      PROVE  \E r \in Sessions : pc'[r] = "rename" /\ FileOf[local'[r].target] = f
  <2>1. PICK r \in Sessions : pc[r] = "rename" /\ FileOf[local[r].target] = f
    BY <1>4 DEF Accounted
  <2>. QED  BY <2>1 DEF Others
<1>5. \A f \in Files : acct'[f] # Missing => Kept(acct'[f], f, banned', registered')
  BY DEF Accounted
<1>. QED  BY <1>2, <1>3, <1>4, <1>5 DEF Accounted, Kept

(* No file is missing when a session looks for one.                          *)
LEMMA NoneMissing ==
  ASSUME Alone, Accounted, NEW s \in Sessions, NEW f \in Files,
         pc[s] \notin Idle \cup {"rename"} \/ \A r \in Sessions : pc[r] \in Idle
  PROVE  acct[f] # Missing
<1>. SUFFICES ASSUME acct[f] = Missing PROVE FALSE
  OBVIOUS
<1>1. PICK r \in Sessions : pc[r] = "rename"
  BY DEF Accounted
<1>. QED  BY <1>1 DEF Alone, Idle

(* The session at work is the only one that may be replacing a file.         *)
LEMMA NoOtherWrites ==
  ASSUME Alone, NEW s \in Sessions,
         pc[s] \notin Idle \/ \A r \in Sessions : pc[r] \in Idle
  PROVE  \A r \in Sessions \ {s} : pc[r] \in Idle
BY DEF Alone

(* It copies a file to tmp.txt, with the record of u changed: *)
LEMMA CopyStep ==
  ASSUME IInv, Alone, Accounted, NEW s \in Sessions, Others(s),
         pc[s] \notin Idle \/ \A r \in Sessions : pc[r] \in Idle,
         pc[s] # "rename", pc'[s] = "remove",
         NEW u \in Users, local'[s].target = u,
         NEW x \in Nat \cup {NoRecord}, x = NoRecord <=> local'[s].job = "delete",
         tmp' = Changed(FileOf[u], u, x), UNCHANGED <<acct, banned, registered>>
  PROVE  Accounted'
<1> DEFINE f == FileOf[u]
<1>1. f \in Files /\ acct[f] # Missing
  BY PeopleAssumption, NoneMissing
<1>2. \A r \in Sessions \ {s} : pc[r] \in Idle /\ pc'[r] \in Idle
  BY NoOtherWrites DEF Others
<1>3. acct[f] \in [Users -> Nat \cup {NoRecord}]
  BY <1>1 DEF IInv, FilesOK
<1>4. /\ tmp' \in [Users -> Nat \cup {NoRecord}]
      /\ \A v \in Users : tmp'[v] = IF v = u /\ acct[f][v] # NoRecord THEN x ELSE acct[f][v]
  <2>1. tmp' = [acct[f] EXCEPT ![u] = IF acct[f][u] = NoRecord THEN acct[f][u] ELSE x]
    BY DEF Changed
  <2>. QED  BY <1>3, <2>1
<1>5. Kept(acct[f], f, banned, registered)
  BY <1>1 DEF Accounted
<1>6. BannedBy(s)' = IF local'[s].job = "delete" THEN banned \cup {u} ELSE banned
  BY DEF BannedBy
<1>7. Kept(tmp', f, BannedBy(s)', registered \ BannedBy(s)')
  <2>. DEFINE B == BannedBy(s)'
  <2>1. ASSUME NEW v \in Users, v # u
        PROVE  /\ tmp'[v] # NoRecord => FileOf[v] = f
               /\ v \in B => tmp'[v] = NoRecord
               /\ v \in registered \ B /\ FileOf[v] = f => tmp'[v] # NoRecord
    BY <1>4, <1>5, <1>6, <2>1 DEF Kept
  <2>2. /\ u \in B => tmp'[u] = NoRecord
        /\ u \in registered \ B /\ FileOf[u] = f => tmp'[u] # NoRecord
    BY <1>4, <1>5, <1>6 DEF Kept
  <2>. QED  BY <2>1, <2>2 DEF Kept
<1>8. tmp' # Missing
  BY <1>4, MarkersAssumption DEF Accounts
<1>9. TmpKept(s)'
  BY <1>7, <1>8 DEF TmpKept, Kept
<1>10. ASSUME NEW g \in Files, acct'[g] = Missing PROVE FALSE
  BY <1>10, NoneMissing
<1>11. \A r \in Sessions : pc'[r] \in {"remove", "rename"} => r = s
  BY <1>2 DEF Idle
<1>12. \A g \in Files : acct'[g] # Missing => Kept(acct'[g], g, banned', registered')
  BY DEF Accounted
<1>. QED  BY <1>9, <1>10, <1>11, <1>12 DEF Accounted, Kept

LEMMA RemoveStep ==
  ASSUME IInv, Alone, Accounted, NEW s \in Sessions, Remove(s)
  PROVE  Accounted'
<1> DEFINE f == FileOf[local[s].target]
<1>1. SessionsOK /\ f \in Files
  BY Here, PeopleAssumption DEF IInv
<1>2. /\ pc[s] = "remove" /\ pc'[s] = "rename" /\ local'[s] = local[s] /\ Others(s)
      /\ acct' = [acct EXCEPT ![f] = Missing] /\ UNCHANGED <<tmp, banned, registered>>
  BY <1>1, PassOthers DEF Remove, historyVars
<1>3. \A r \in Sessions \ {s} : pc'[r] \in Idle
  BY <1>2, NoOtherWrites DEF Others, Idle
<1>4. acct'[f] = Missing /\ \A g \in Files \ {f} : acct'[g] = acct[g] /\ acct[g] # Missing
  <2>1. \A g \in Files : acct[g] # Missing
    BY <1>2, NoneMissing DEF Idle
  <2>. QED  BY <1>1, <1>2, <2>1 DEF IInv, FilesOK
<1>5. TmpKept(s)'
  BY <1>2 DEF Accounted, TmpKept, BannedBy, Kept
<1>6. \A g \in Files : acct'[g] # Missing => Kept(acct'[g], g, banned', registered')
  BY <1>2, <1>4 DEF Accounted
<1>7. \A r \in Sessions : pc'[r] \in {"remove", "rename"} => r = s
  BY <1>3 DEF Idle
<1>. QED  BY <1>2, <1>4, <1>5, <1>6, <1>7 DEF Accounted, Kept

LEMMA RenameStep ==
  ASSUME IInv, Alone, Accounted, NEW s \in Sessions, Rename(s)
  PROVE  Accounted'
<1> DEFINE t == local[s].target
           f == FileOf[t]
<1>1. SessionsOK /\ t \in Users /\ f \in Files
  BY Here, PeopleAssumption DEF IInv
<1>2. /\ pc[s] = "rename" /\ pc'[s] \in {"openGoods", "home"} /\ Others(s)
      /\ banned' = BannedBy(s) /\ registered' = registered \ banned'
  BY <1>1, PassOthers DEF Rename, BannedBy
<1>3. TmpKept(s) /\ acct[f] = Missing
  BY <1>2 DEF Accounted
<1>4. acct' = [acct EXCEPT ![f] = tmp]
  BY <1>3 DEF Rename, TmpKept
<1>5. \A r \in Sessions \ {s} : pc[r] \in Idle /\ pc'[r] \in Idle
  BY <1>2, NoOtherWrites DEF Others, Idle
<1>6. acct'[f] = tmp /\ \A g \in Files \ {f} : acct'[g] = acct[g]
  BY <1>1, <1>4 DEF IInv, FilesOK
<1>7. \A g \in Files \ {f} : acct[g] # Missing
  BY <1>5 DEF Accounted, Idle
<1>8. Kept(acct'[f], f, banned', registered')
  BY <1>2, <1>3, <1>6 DEF TmpKept
<1>9. ASSUME NEW g \in Files, g # f
      PROVE  Kept(acct'[g], g, banned', registered')
  <2>1. Kept(acct[g], g, banned, registered)
    BY <1>7, <1>9 DEF Accounted
  <2>. QED  BY <1>2, <1>6, <1>9, <2>1 DEF Kept, BannedBy
<1>10. \A g \in Files : acct'[g] # Missing
  BY <1>3, <1>6, <1>7 DEF TmpKept
<1>11. \A r \in Sessions : pc'[r] \notin {"remove", "rename"}
  BY <1>2, <1>5 DEF Idle
<1>. QED  BY <1>8, <1>9, <1>10, <1>11 DEF Accounted, Kept

LEMMA SignUpStep ==
  ASSUME IInv, Serial, Alone, Accounted, NEW s \in Sessions, SignUp(s)
  PROVE  Accounted'
<1> DEFINE u == user[s]
           f == Home(s)
<1>1. u \in Users /\ f \in Files /\ f = FileOf[u] /\ FilesOK
  BY PeopleAssumption DEF Home, IInv
<1>2. /\ \A r \in Sessions : pc[r] \in Idle
      /\ acct' = [acct EXCEPT ![f] = WithRecord(f, u)]
      /\ registered' = registered \cup {u} /\ banned' = banned \ {u} /\ UNCHANGED pc
  BY DEF SignUp, Idle
<1>3. \A g \in Files : acct[g] # Missing /\ Kept(acct[g], g, banned, registered)
  BY <1>2, NoneMissing DEF Accounted
<1>4. acct'[f] = WithRecord(f, u) /\ \A g \in Files \ {f} : acct'[g] = acct[g]
  BY <1>1, <1>2 DEF FilesOK
<1>5. acct[f] \in [Users -> Nat \cup {NoRecord}]
  BY <1>1, <1>3 DEF FilesOK
<1>6. \A v \in Users : acct'[f][v] = IF v = u /\ acct[f][v] = NoRecord THEN 0 ELSE acct[f][v]
  <2>1. acct'[f] = [acct[f] EXCEPT ![u] = IF acct[f][u] = NoRecord THEN 0 ELSE acct[f][u]]
    BY <1>1, <1>3, <1>4 DEF WithRecord
  <2>. QED  BY <1>5, <2>1
<1>7. Kept(acct'[f], f, banned', registered')
  <2>1. Kept(acct[f], f, banned, registered) /\ 0 # NoRecord
    BY <1>1, <1>3, MarkersAssumption
  <2>. QED  BY <1>1, <1>2, <1>6, <2>1 DEF Kept
<1>8. \A g \in Files \ {f} : Kept(acct'[g], g, banned', registered')
  BY <1>1, <1>2, <1>3, <1>4 DEF Kept
<1>9. \A g \in Files : acct'[g] # Missing
  <2>1. acct'[f] \in Accounts
    BY <1>1, <1>4, WithRecordOK DEF Accounts
  <2>. QED  BY <1>3, <1>4, <2>1, MarkersAssumption
<1>. QED  BY <1>2, <1>7, <1>8, <1>9 DEF Accounted, Kept, Idle

LEMMA AccountedStep ==
  ASSUME IInv, Serial, Alone, Accounted, NEW s \in Sessions, Proceed(s) \/ Request(s)
  PROVE  Accounted'
<1>1. SessionsOK /\ Others(s) /\ Home(s) \in Files
  BY OthersStay, PeopleAssumption DEF IInv, Home
<1>2. CASE /\ UNCHANGED <<acct, tmp, banned, registered>>
           /\ pc[s] # "rename" /\ pc'[s] \notin {"remove", "rename"}
  BY <1>1, <1>2, AcctFrame
<1>. USE <1>1 DEF accountVars, fileVars, historyVars
<1>3. CASE Proceed(s)
  <2>1. CASE InitBalance(s) \/ InitCash(s) \/ Refuse(s) \/ Pay(s) \/ ReadCash(s)
             \/ SellAndReorder(s)
    BY <2>1, <1>2, GotoOthers DEF InitBalance, InitCash, Refuse, Pay, ReadCash,
       SellAndReorder, Goto
  <2>2. CASE Bill(s) \/ Sell(s)
    BY <2>2, <1>2 DEF Bill, Sell
  <2>3. CASE OpenCash(s) \/ FillCash(s) \/ OpenGoods(s)
    BY <2>3, <1>2, PassOthers DEF OpenCash, FillCash, OpenGoods
  <2>4. CASE FillGoods(s)
    BY <2>4, <1>2, GotoOthers DEF FillGoods, Pass, Goto
  <2>5. CASE NoAccounts(s) \/ CopyFails(s)
    <3>1. acct[Home(s)] # Missing
      BY <2>5, NoneMissing DEF NoAccounts, CopyFails, Pass, Goto, Idle
    <3>. QED  BY <2>5, <3>1 DEF NoAccounts, CopyFails
  <2>6. CASE CopyBalance(s)
    <3> DEFINE x == Fmt(balance[s])
               l == [local[s] EXCEPT !.target = user[s]]
    <3>1. /\ pc[s] = "items" /\ pc' = [pc EXCEPT ![s] = "remove"]
          /\ local' = [local EXCEPT ![s] = l]
          /\ tmp' = Changed(FileOf[user[s]], user[s], x)
          /\ UNCHANGED <<acct, banned, registered>>
      BY <2>6 DEF CopyBalance, Goto, Home
    <3>2. /\ local[s] \in LocalRecord /\ local[s].job = "buy" /\ balance[s] \in Nat
          /\ user[s] \in Users
      BY <3>1, Here, PeopleAssumption DEF Stage
    <3>3. l.target = user[s] /\ l.job = "buy"
      BY <3>2 DEF LocalRecord
    <3>4. pc'[s] = "remove" /\ local'[s] = l
      BY <3>1, GotoOthers, LocalOthers
    <3>5. x \in Nat /\ x # NoRecord
      BY <3>2, FmtNat, MarkersAssumption
    <3>. HIDE DEF x, l
    <3>. QED  BY <3>1, <3>2, <3>3, <3>4, <3>5, CopyStep DEF Idle
  <2>7. CASE Remove(s) \/ Rename(s)
    BY <2>7, RemoveStep, RenameStep
  <2>. QED  BY <1>3, <2>1, <2>2, <2>3, <2>4, <2>5, <2>6, <2>7 DEF Proceed
<1>4. CASE Request(s)
  <2>1. CASE Login(s) \/ Logout(s)
    BY <2>1, <1>2, GotoOthers DEF Login, Logout, Goto
  <2>2. CASE SignUp(s)
    BY <2>2, SignUpStep
  <2>3. CASE InitGoods(s) \/ ReadStock(s)
    BY <2>3, <1>2, GotoOthers DEF InitGoods, ReadStock, Begin, Goto
  <2>4. ASSUME NEW i \in Items, NEW q \in 1 .. MaxQuantity, Add(s, i, q) PROVE Accounted'
    BY <2>4, <1>2 DEF Add
  <2>5. CASE Confirm(s) \/ Back(s) \/ LeaveStock(s) \/ PressKey(s)
             \/ \E q \in 1 .. MaxQuantity : OrderRefused(s, q)
    BY <2>5, <1>2, PassOthers DEF Confirm, Back, LeaveStock, PressKey, OrderRefused
  <2>6. ASSUME NEW j, NEW u \in Managed, NEW x \in Nat \cup {NoRecord},
               x = NoRecord <=> j = "delete", j \in {"balance", "delete"}, Edit(s, j, u, x)
        PROVE  Accounted'
    <3> DEFINE l == [local[s] EXCEPT !.job = j, !.target = u]
    <3>1. /\ \A r \in Sessions : pc[r] \in Idle
          /\ pc[s] = "home" /\ pc' = [pc EXCEPT ![s] = "remove"]
          /\ local' = [local EXCEPT ![s] = l]
          /\ tmp' = Changed(FileOf[u], u, x)
          /\ UNCHANGED <<acct, banned, registered>>
      BY <2>6 DEF Edit, Begin, Goto, Idle
    <3>2. local[s] \in LocalRecord /\ u \in Users
      BY Here, PeopleAssumption
    <3>3. l.target = u /\ l.job = j
      BY <3>2 DEF LocalRecord
    <3>4. pc'[s] = "remove" /\ local'[s] = l
      BY <3>1, GotoOthers, LocalOthers
    <3>. HIDE DEF l
    <3>. QED  BY <2>6, <3>1, <3>2, <3>3, <3>4, CopyStep
  <2>7. ASSUME NEW u \in Managed, Delete(s, u) \/ SetBalance(s, u) PROVE Accounted'
    <3>1. CASE Delete(s, u)
      BY <3>1, <2>6 DEF Delete
    <3>2. ASSUME NEW b \in NewBalances, Edit(s, "balance", u, b) PROVE Accounted'
      <4>1. b \in Nat /\ b # NoRecord
        BY InputAssumption, MarkersAssumption
      <4>. QED  BY <4>1, <3>2, <2>6
    <3>. QED  BY <2>7, <3>1, <3>2 DEF SetBalance
  <2>8. ASSUME NEW u \in Managed, NEW j, EditFails(s, j, u) PROVE Accounted'
    <3>1. FileOf[u] \in Files
      BY PeopleAssumption
    <3>2. acct[FileOf[u]] # Missing
      BY <2>8, <3>1, NoneMissing DEF EditFails, Begin, Idle
    <3>. QED  BY <2>8, <3>2 DEF EditFails
  <2>9. ASSUME NEW i \in Items, NameOrdered(s, i) PROVE Accounted'
    BY <2>9, <1>2, GotoOthers DEF NameOrdered, Goto
  <2>10. ASSUME NEW i \in Items, NEW t \in NewTerms, Modify(s, i, t) PROVE Accounted'
    BY <2>10, <1>2, GotoOthers DEF Modify, Goto
  <2>11. ASSUME NEW q \in 1 .. MaxQuantity, Order(s, q) PROVE Accounted'
    BY <2>11, <1>2, GotoOthers DEF Order, Goto
  <2>. QED  BY <1>4, <2>1, <2>2, <2>3, <2>4, <2>5, <2>7, <2>8, <2>9, <2>10, <2>11
            DEF Request
<1>. QED  BY <1>3, <1>4

-----------------------------------------------------------------------------
(* The prices.  A price that has been on file is printed as it is. *)
LEMMA FmtTwice == \A x \in Nat : Fmt(Fmt(x)) = Fmt(x)
  BY BoundsAssumption DEF Fmt

(* A step that neither writes goods.txt nor sets a price: *)
LEMMA ListedFrame ==
  ASSUME Listed, NEW s \in Sessions, Others(s), UNCHANGED <<goodsFile, listed>>,
         pc[s] # "fillGoods",
         pc'[s] \in Idle \cup {"stuck", "key"} \/ local'[s].job \in {"balance", "delete"}
            \/ Priced(local'[s])
  PROVE  Listed'
<1>1. goodsFile' = Empty => \E r \in Sessions : pc'[r] = "fillGoods"
  BY DEF Listed, Others
<1>2. ASSUME NEW r \in Sessions
      PROVE  \/ pc'[r] \in Idle \cup {"stuck", "key"} \/ local'[r].job \in {"balance", "delete"}
             \/ Priced(local'[r])
  BY DEF Listed, Others
<1>3. \A r \in Sessions : Priced(local'[r]) => Priced(local[r])'
  BY DEF Priced
<1>. QED  BY <1>1, <1>2, <1>3 DEF Listed

(* The same, where the copy of the goods keeps its prices. *)
LEMMA CopyKept ==
  ASSUME Listed, NEW s \in Sessions, Others(s), UNCHANGED <<goodsFile, listed>>,
         pc[s] \notin Idle \cup {"stuck", "key", "fillGoods"},
         local'[s].job = local[s].job, local'[s].job = "modify" => local'[s].k = local[s].k,
         \A i \in Items : local'[s].goods[i].price = local[s].goods[i].price
  PROVE  Listed'
<1>1. local[s].job \in {"balance", "delete"} \/ Priced(local[s])
  BY DEF Listed
<1>2. Priced(local[s]) => Priced(local'[s])
  BY DEF Priced
<1>. QED  BY <1>1, <1>2, ListedFrame

LEMMA StockPrices ==
  ASSUME NEW g \in Stock, NEW k, NEW x
  PROVE  \A i \in Items : [g EXCEPT ![k].stock = x][i].price = g[i].price
<1>1. ASSUME NEW i \in Items PROVE [g EXCEPT ![k].stock = x][i].price = g[i].price
  <2>1. g[i] \in GoodsRecord
    BY DEF Stock
  <2>2. [g EXCEPT ![k].stock = x][i] = g[i] \/ [g EXCEPT ![k].stock = x][i] = [g[i] EXCEPT !.stock = x]
    BY DEF Stock
  <2>3. [g[i] EXCEPT !.stock = x].price = g[i].price
    BY <2>1 DEF GoodsRecord
  <2>. QED  BY <2>2, <2>3
<1>. QED  BY <1>1

LEMMA ListedProceed ==
  ASSUME IInv, Alone, Accounted, Listed, NEW s \in Sessions, Proceed(s), ~ FillGoods(s),
         ~ OpenGoods(s)
  PROVE  Listed'
<1>1. /\ SessionsOK /\ Others(s) /\ local[s] \in LocalRecord /\ GoodsOK(local[s].goods)
      /\ Stage(pc[s], local[s], balance[s]) /\ Home(s) \in Files
  BY OthersStay, Here, PeopleAssumption DEF IInv, Home
<1>. USE <1>1 DEF accountVars, fileVars, historyVars, Idle
<1>2. CASE UNCHANGED <<goodsFile, listed>> /\ pc'[s] = "home" /\ pc[s] # "fillGoods"
  BY <1>2, ListedFrame
<1>3. CASE /\ UNCHANGED <<goodsFile, listed>> /\ local'[s] = local[s]
           /\ pc[s] \notin Idle \cup {"stuck", "key", "fillGoods"}
  BY <1>3, CopyKept
<1>4. CASE InitBalance(s)
  BY <1>3, <1>4 DEF InitBalance, Goto
<1>5. CASE NoAccounts(s) \/ CopyFails(s)
  <2>1. acct[Home(s)] # Missing
    BY <1>5, NoneMissing DEF NoAccounts, CopyFails, Pass, Goto
  <2>. QED  BY <1>5, <2>1 DEF NoAccounts, CopyFails
<1>6. CASE OpenCash(s) \/ FillCash(s) \/ Remove(s) \/ Rename(s)
  BY <1>2, <1>3, <1>6, PassOthers DEF OpenCash, FillCash, Remove, Rename
<1>7. CASE InitCash(s) \/ ReadCash(s)
  <2> DEFINE l == [local[s] EXCEPT !.cash = cashFile]
  <2>1. local' = [local EXCEPT ![s] = l] /\ pc[s] \in {"initCash", "readCash"}
        /\ UNCHANGED <<goodsFile, listed>>
    BY <1>7 DEF InitCash, ReadCash, Goto
  <2>2. l.goods = local[s].goods /\ l.job = local[s].job /\ l.k = local[s].k
    BY DEF LocalRecord
  <2>. HIDE DEF l
  <2>. QED  BY <2>1, <2>2, LocalOthers, CopyKept
<1>8. CASE Bill(s) \/ Refuse(s) \/ Pay(s) \/ CopyBalance(s)
  <2>1. PICK l : /\ local' = [local EXCEPT ![s] = l]
                 /\ l.goods = local[s].goods /\ l.job = local[s].job
    <3>1. CASE Bill(s)
      <4> DEFINE x == local[s].ordercost + Discounted(Home(s),
                        local[s].goods[local[s].k].price * local[s].order[local[s].k])
                 l == [local[s] EXCEPT !.k = local[s].k + 1, !.ordercost = x]
      <4>1. local' = [local EXCEPT ![s] = l]
        BY <3>1 DEF Bill
      <4>2. l.goods = local[s].goods /\ l.job = local[s].job
        BY DEF LocalRecord
      <4>. QED  BY <4>1, <4>2
    <3>2. CASE Refuse(s)
      <4> DEFINE l == [local[s] EXCEPT !.order = NoOrder, !.k = 1, !.ordercost = 0]
      <4>1. local' = [local EXCEPT ![s] = l]
        BY <3>2 DEF Refuse, Forget
      <4>2. l.goods = local[s].goods /\ l.job = local[s].job
        BY DEF LocalRecord
      <4>. QED  BY <4>1, <4>2
    <3>3. CASE Pay(s)
      <4> DEFINE l == [local[s] EXCEPT !.cash = CashIn(@, local[s].ordercost), !.k = 1]
      <4>1. local' = [local EXCEPT ![s] = l]
        BY <3>3 DEF Pay
      <4>2. l.goods = local[s].goods /\ l.job = local[s].job
        BY DEF LocalRecord
      <4>. QED  BY <4>1, <4>2
    <3>4. CASE CopyBalance(s)
      <4> DEFINE l == [local[s] EXCEPT !.target = user[s]]
      <4>1. local' = [local EXCEPT ![s] = l]
        BY <3>4 DEF CopyBalance
      <4>2. l.goods = local[s].goods /\ l.job = local[s].job
        BY DEF LocalRecord
      <4>. QED  BY <4>1, <4>2
    <3>. QED  BY <1>8, <3>1, <3>2, <3>3, <3>4
  <2>2. pc[s] \in {"bill", "items"} /\ UNCHANGED <<goodsFile, listed>>
    BY <1>8 DEF Bill, Refuse, Pay, CopyBalance, Goto
  <2>3. local[s].job = "buy"
    BY <2>2 DEF Stage
  <2>. QED  BY <2>1, <2>2, <2>3, LocalOthers, CopyKept
<1>9. CASE Sell(s) \/ SellAndReorder(s)
  <2>1. PICK x, c, n : local' = [local EXCEPT ![s] =
                         [local[s] EXCEPT !.goods = [@ EXCEPT ![local[s].k].stock = x],
                                          !.cash = c, !.k = n]]
    <3>1. CASE Sell(s)
      <4> DEFINE l == [local[s] EXCEPT !.goods = [@ EXCEPT ![local[s].k].stock = Left(s)],
                                       !.k = local[s].k + 1]
                 m == [local[s] EXCEPT !.goods = [@ EXCEPT ![local[s].k].stock = Left(s)],
                                       !.cash = local[s].cash, !.k = local[s].k + 1]
      <4>1. local' = [local EXCEPT ![s] = l]
        BY <3>1 DEF Sell
      <4>2. l = m
        BY DEF LocalRecord
      <4>. QED  BY <4>1, <4>2
    <3>2. CASE SellAndReorder(s)
      BY <3>2 DEF SellAndReorder
    <3>. QED  BY <1>9, <3>1, <3>2
  <2> DEFINE g == [local[s].goods EXCEPT ![local[s].k].stock = x]
             l == [local[s] EXCEPT !.goods = g, !.cash = c, !.k = n]
  <2>2. l.goods = g /\ l.job = local[s].job
    BY DEF LocalRecord
  <2>3. \A i \in Items : g[i].price = local[s].goods[i].price
    BY StockPrices DEF GoodsOK
  <2>4. local'[s] = l
    BY <2>1, LocalOthers
  <2>5. pc[s] = "items" /\ UNCHANGED <<goodsFile, listed>> /\ local[s].job = "buy"
    BY <1>9 DEF Sell, SellAndReorder, Goto, Stage
  <2>. HIDE DEF l, g
  <2>. QED  BY <2>2, <2>3, <2>4, <2>5, CopyKept
<1>. QED  BY <1>4, <1>5, <1>6, <1>7, <1>8, <1>9 DEF Proceed

LEMMA OpenGoodsStep ==
  ASSUME IInv, Listed, NEW s \in Sessions, OpenGoods(s)
  PROVE  Listed'
<1>1. /\ Others(s) /\ pc[s] = "openGoods" /\ pc'[s] = "fillGoods" /\ local'[s] = local[s]
      /\ goodsFile' = Empty /\ UNCHANGED listed
  BY PassOthers DEF IInv, OpenGoods, historyVars
<1>2. ASSUME NEW r \in Sessions
      PROVE  \/ pc'[r] \in Idle \cup {"stuck", "key"} \/ local'[r].job \in {"balance", "delete"}
             \/ Priced(local'[r])
  <2>1. local'[r] = local[r] /\ (pc'[r] = pc[r] \/ r = s)
    BY <1>1 DEF Others
  <2>. QED  BY <1>1, <2>1 DEF Listed, Idle
<1>3. \A r \in Sessions : Priced(local'[r]) => Priced(local[r])'
  BY <1>1 DEF Priced
<1>. QED  BY <1>1, <1>2, <1>3 DEF Listed

LEMMA FillGoodsStep ==
  ASSUME IInv, Alone, Listed, NEW s \in Sessions, FillGoods(s)
  PROVE  Listed'
<1> DEFINE g == local[s].goods
           k == local[s].k
<1>1. /\ SessionsOK /\ Others(s) /\ local[s] \in LocalRecord /\ g \in Stock
      /\ Stage(pc[s], local[s], balance[s])
  BY OthersStay, Here DEF IInv, GoodsOK, Proceed
<1>2. \A r \in Sessions \ {s} : pc'[r] \in Idle
  BY <1>1, NoOtherWrites DEF FillGoods, Idle, Others
<1>3. goodsFile' = FmtGoods(g) /\ pc[s] = "fillGoods"
  BY DEF FillGoods
<1>4. \A i \in Items : g[i].price \in Nat /\ goodsFile'[i].price = Fmt(g[i].price)
  <2>1. ASSUME NEW i \in Items PROVE g[i] \in GoodsRecord
    BY <1>1 DEF Stock
  <2>. QED  BY <1>3, <2>1 DEF FmtGoods, GoodsRecord
<1>5. goodsFile' # Empty
  <2>1. GoodsOK(FmtGoods(g))
    BY Here, FmtGoodsOK DEF IInv
  <2>. QED  BY <1>3, <2>1, MarkersAssumption DEF GoodsOK
<1>6. CASE local[s].job \in {"buy", "order"}
  <2>1. listed' = listed
    BY <1>6 DEF FillGoods
  <2>2. \A i \in Items : g[i].price = listed[i] /\ Fmt(listed[i]) = listed[i]
    BY <1>3, <1>6 DEF Listed, Priced, Idle
  <2>3. \/ local'[s] = local[s]
        \/ local'[s] = [local[s] EXCEPT !.order = NoOrder, !.k = 1, !.ordercost = 0]
    <3>1. CASE local[s].job = "buy"
      BY <1>1, <3>1 DEF FillGoods, Forget, SessionsOK
    <3>2. CASE local[s].job = "order"
      BY <1>1, <3>2, PassOthers DEF FillGoods
    <3>. QED  BY <1>6, <3>1, <3>2
  <2>4. local'[s].goods = g
    BY <1>1, <2>3 DEF LocalRecord
  <2>5. Priced(local[s])'
    BY <2>1, <2>2, <2>4 DEF Priced
  <2>6. \A i \in Items : goodsFile'[i].price = listed'[i] /\ Fmt(listed'[i]) = listed'[i]
    BY <1>4, <2>1, <2>2
  <2>. QED  BY <1>2, <1>5, <2>5, <2>6 DEF Listed
<1>7. CASE local[s].job = "modify"
  <2>1. /\ k \in Items /\ pc'[s] = "home"
        /\ listed' = [listed EXCEPT ![k] = goodsFile'[k].price]
    BY <1>1, <1>7, PassOthers DEF FillGoods, Stage
  <2>2. \A i \in Items \ {k} : g[i].price = listed[i]
    BY <1>3, <1>7 DEF Listed, Priced, Idle
  <2>3. \A i \in Items : listed'[i] = IF i = k THEN goodsFile'[k].price ELSE listed[i]
    BY <2>1 DEF IInv, HistoryOK
  <2>4. ASSUME NEW i \in Items
        PROVE  goodsFile'[i].price = listed'[i] /\ Fmt(listed'[i]) = listed'[i]
    <3>1. CASE i = k
      BY <1>4, <2>3, <3>1, FmtTwice
    <3>2. CASE i # k
      <4>1. Fmt(listed[i]) = listed[i] /\ g[i].price = listed[i]
        BY <2>2, <3>2 DEF Listed
      <4>. QED  BY <1>4, <2>3, <3>2, <4>1
    <3>. QED  BY <3>1, <3>2
  <2>. QED  BY <1>2, <1>5, <2>1, <2>4 DEF Listed, Idle
<1>. QED  BY <1>6, <1>7 DEF FillGoods

LEMMA ListedRequest ==
  ASSUME IInv, Serial, Alone, Accounted, Listed, NEW s \in Sessions, Request(s)
  PROVE  Listed'
<1>1. /\ SessionsOK /\ Others(s) /\ local[s] \in LocalRecord /\ GoodsOK(local[s].goods)
      /\ Stage(pc[s], local[s], balance[s])
  BY OthersStay, Here DEF IInv
<1>. USE <1>1 DEF accountVars, fileVars, historyVars, Idle
<1>2. CASE UNCHANGED <<goodsFile, listed>> /\ pc'[s] \in Idle /\ pc[s] # "fillGoods"
  BY <1>2, ListedFrame
<1>3. CASE /\ UNCHANGED <<goodsFile, listed>> /\ local'[s] = local[s]
           /\ pc[s] \notin Idle \cup {"stuck", "key", "fillGoods"}
  BY <1>3, CopyKept
<1>4. CASE Login(s) \/ Logout(s) \/ SignUp(s)
  BY <1>2, <1>4, GotoOthers DEF Login, Logout, SignUp, Goto
<1>5. CASE Back(s) \/ LeaveStock(s) \/ PressKey(s) \/ Confirm(s)
           \/ \E q \in 1 .. MaxQuantity : OrderRefused(s, q)
  BY <1>2, <1>3, <1>5, PassOthers DEF Back, LeaveStock, PressKey, Confirm, OrderRefused
<1>6. CASE InitGoods(s) \/ ReadStock(s)
  <2> DEFINE l == [local[s] EXCEPT !.goods = goodsFile]
  <2>1. /\ local' = [local EXCEPT ![s] = l] /\ pc[s] = "home" /\ goodsFile # Empty
        /\ UNCHANGED <<goodsFile, listed>>
    BY <1>6 DEF InitGoods, ReadStock, Begin, Goto
  <2>2. l.goods = goodsFile
    BY DEF LocalRecord
  <2>3. Priced(l)
    BY <2>1, <2>2 DEF Listed, Priced
  <2>. HIDE DEF l
  <2>. QED  BY <2>1, <2>3, LocalOthers, ListedFrame
<1>7. ASSUME NEW i \in Items, NEW q \in 1 .. MaxQuantity, Add(s, i, q) PROVE Listed'
  <2> DEFINE o == [local[s].order EXCEPT ![i] = q]
             l == [local[s] EXCEPT !.order = o]
  <2>1. local' = [local EXCEPT ![s] = l] /\ pc[s] = "menu" /\ UNCHANGED <<goodsFile, listed>>
    BY <1>7 DEF Add
  <2>2. l.goods = local[s].goods /\ l.job = local[s].job /\ l.k = local[s].k
    BY DEF LocalRecord
  <2>. HIDE DEF l
  <2>. QED  BY <2>1, <2>2, LocalOthers, CopyKept
<1>8. ASSUME NEW j \in {"balance", "delete"}, NEW u, NEW x, Edit(s, j, u, x) PROVE Listed'
  <2> DEFINE l == [local[s] EXCEPT !.job = j, !.target = u]
  <2>1. local' = [local EXCEPT ![s] = l] /\ pc[s] = "home" /\ UNCHANGED <<goodsFile, listed>>
    BY <1>8 DEF Edit, Begin, Goto
  <2>2. l.job = j
    BY DEF LocalRecord
  <2>. HIDE DEF l
  <2>. QED  BY <2>1, <2>2, LocalOthers, ListedFrame
<1>9. ASSUME NEW u \in Managed, NEW j, EditFails(s, j, u) PROVE Listed'
  <2>1. FileOf[u] \in Files
    BY PeopleAssumption
  <2>2. \A r \in Sessions : pc[r] \in Idle
    BY <1>9 DEF EditFails, Begin
  <2>3. acct[FileOf[u]] # Missing
    BY <2>1, <2>2, NoneMissing
  <2>. QED  BY <1>9, <2>3 DEF EditFails
<1>10. ASSUME NEW i \in Items, NameOrdered(s, i) PROVE Listed'
  <2> DEFINE l == [local[s] EXCEPT !.job = "order", !.cash = cashFile, !.k = i]
  <2>1. local' = [local EXCEPT ![s] = l] /\ pc[s] = "stock" /\ UNCHANGED <<goodsFile, listed>>
    BY <1>10 DEF NameOrdered, Goto
  <2>2. l.goods = local[s].goods /\ l.job = "order"
    BY DEF LocalRecord
  <2>3. local[s].job = "buy" /\ Priced(local[s])
    BY <2>1 DEF Stage, Listed
  <2>. HIDE DEF l
  <2>. QED  BY <2>1, <2>2, <2>3, LocalOthers, ListedFrame DEF Priced
<1>11. ASSUME NEW i \in Items, NEW t \in NewTerms, Modify(s, i, t) PROVE Listed'
  <2> DEFINE g == [local[s].goods EXCEPT ![i] =
                    [@ EXCEPT !.price = t.price, !.level = t.level, !.amount = t.amount]]
             l == [local[s] EXCEPT !.job = "modify", !.k = i, !.goods = g]
  <2>1. local' = [local EXCEPT ![s] = l] /\ pc[s] = "stock" /\ UNCHANGED <<goodsFile, listed>>
    BY <1>11 DEF Modify, Goto
  <2>2. l.goods = g /\ l.job = "modify" /\ l.k = i
    BY DEF LocalRecord
  <2>3. \A n \in Items \ {i} : g[n] = local[s].goods[n]
    BY DEF GoodsOK, Stock
  <2>4. local[s].job = "buy" /\ Priced(local[s])
    BY <2>1 DEF Stage, Listed
  <2>. HIDE DEF l, g
  <2>. QED  BY <2>1, <2>2, <2>3, <2>4, LocalOthers, ListedFrame DEF Priced
<1>12. ASSUME NEW q \in 1 .. MaxQuantity, Order(s, q) PROVE Listed'
  <2> DEFINE g == [local[s].goods EXCEPT ![local[s].k].stock = @ + q]
             c == CashOut(local[s].cash, q * local[s].goods[local[s].k].cost)
             l == [local[s] EXCEPT !.goods = g, !.cash = c]
  <2>1. /\ local' = [local EXCEPT ![s] = l] /\ pc[s] = "quantity"
        /\ UNCHANGED <<goodsFile, listed>>
    BY <1>12 DEF Order, Goto
  <2>2. l.goods = g /\ l.job = local[s].job /\ l.k = local[s].k
    BY DEF LocalRecord
  <2>3. \A i \in Items : g[i].price = local[s].goods[i].price
    BY StockPrices DEF GoodsOK
  <2>. HIDE DEF l, g, c
  <2>. QED  BY <2>1, <2>2, <2>3, LocalOthers, CopyKept
<1>. QED  BY <1>4, <1>5, <1>6, <1>7, <1>8, <1>9, <1>10, <1>11, <1>12
          DEF Request, Delete, SetBalance

-----------------------------------------------------------------------------
LEMMA SerialInit ==
  ASSUME Init
  PROVE  Alone /\ Accounted
<1>1. Alone /\ \A s \in Sessions : pc[s] = "out"
  BY DEF Init, Alone, Idle
<1>2. ASSUME NEW f \in Files
      PROVE  acct[f] # Missing /\ Kept(acct[f], f, banned, registered)
  <2>1. acct[f] = [u \in Users |-> IF FileOf[u] = f THEN balance0[u] ELSE NoRecord]
    BY DEF Init
  <2>2. acct[f] \in Accounts
    BY <2>1, FilesAssumption DEF Accounts
  <2>. QED  BY <2>1, <2>2, MarkersAssumption DEF Init, Kept
<1>. QED  BY <1>1, <1>2 DEF Accounted

LEMMA SerialStep ==
  ASSUME Serial, MaxCrashes = 0, IInv, Alone, Accounted, [Next]_vars
  PROVE  Alone' /\ Accounted' /\ (Listed => Listed')
<1>1. CASE UNCHANGED vars
  BY <1>1 DEF vars, fileVars, historyVars, Alone, Accounted, TmpKept, BannedBy, Kept,
     Listed, Priced
<1>2. ASSUME NEW s \in Sessions, Proceed(s) \/ Request(s)
      PROVE  Alone' /\ Accounted' /\ (Listed => Listed')
  <2>1. Alone' /\ Accounted'
    BY <1>2, OthersStay, TakesTurn, AloneStep, AccountedStep
  <2>2. Listed => Listed'
    BY <1>2, ListedProceed, OpenGoodsStep, FillGoodsStep, ListedRequest
  <2>. QED  BY <2>1, <2>2
<1>. QED  BY <1>1, <1>2, OneSteps

LEMMA SerialInvariance ==
  Serial /\ MaxCrashes = 0 => (Spec => [](IInv /\ Alone /\ Accounted))
<1>. SUFFICES ASSUME Serial, MaxCrashes = 0
              PROVE  Spec => [](IInv /\ Alone /\ Accounted)
  OBVIOUS
<1>1. Init => Alone /\ Accounted
  BY SerialInit
<1>2. IInv /\ Alone /\ Accounted /\ [Next]_vars => Alone' /\ Accounted'
  BY SerialStep
<1>. QED  BY <1>1, <1>2, Invariance, PTL DEF Spec

-----------------------------------------------------------------------------
(* One at a time and without a crash, every accounts file is there whenever  *)
(* nothing is being written, and no record is in a file it does not belong   *)
(* to (remove and rename of update_balance, Delete and balance).             *)
THEOREM FilesSurvive == Serial /\ MaxCrashes = 0 => (Spec => []AccountsSurvive)
<1>1. Accounted => AccountsSurvive
  BY DEF Accounted, Kept, AccountsSurvive, Quiet
<1>. QED  BY <1>1, SerialInvariance, PTL

(* One at a time and without a crash, an account that was deleted stays so   *)
(* until its owner signs up again (Admin::Delete, Person::update_balance).   *)
THEOREM DeletedStayDeleted == Serial /\ MaxCrashes = 0 => (Spec => []BanSticks)
<1>1. IInv /\ Accounted => BanSticks
  BY DEF IInv, HistoryOK, Accounted, Kept, BanSticks
<1>. QED  BY <1>1, SerialInvariance, PTL

(* One at a time and without a crash, whoever signed up has a record, until  *)
(* it is deleted (Person::transfer_to_file).                                 *)
THEOREM SignedUpStaySo == Serial /\ MaxCrashes = 0 => (Spec => []SignUpSticks)
<1>1. IInv /\ Accounted => SignUpSticks
  <2>. SUFFICES ASSUME IInv, Accounted, Quiet, NEW u \in registered
                PROVE  acct[FileOf[u]] # Missing /\ acct[FileOf[u]][u] # NoRecord
    BY DEF SignUpSticks
  <2>1. u \in Users /\ FileOf[u] \in Files
    BY PeopleAssumption DEF IInv, HistoryOK
  <2>2. acct[FileOf[u]] # Missing
    BY <2>1 DEF Accounted, Quiet
  <2>. QED  BY <2>1, <2>2 DEF Accounted, Kept
<1>. QED  BY <1>1, SerialInvariance, PTL

(* One at a time and without a crash, the price on file is the one set last, *)
(* if the prices the shop starts with print as they are (Admin::stock,       *)
(* Person::update_goods).                                                    *)
THEOREM PricesStick ==
  Serial /\ MaxCrashes = 0 /\ (\A i \in Items : Fmt(goods0[i].price) = goods0[i].price)
    => (Spec => []PriceSticks)
<1>. SUFFICES ASSUME Serial, MaxCrashes = 0,
                     \A i \in Items : Fmt(goods0[i].price) = goods0[i].price
              PROVE  Spec => []PriceSticks
  OBVIOUS
<1>1. Init => Listed
  BY FilesAssumption, MarkersAssumption DEF Init, Listed, Idle
<1>2. (IInv /\ Alone /\ Accounted) /\ Listed /\ [Next]_vars => Listed'
  BY SerialStep
<1>3. Listed => PriceSticks
  BY DEF Listed, PriceSticks, Quiet
<1>4. Spec => [](IInv /\ Alone /\ Accounted)
  BY SerialInvariance
<1>. QED  BY <1>1, <1>2, <1>3, <1>4, PTL DEF Spec

-----------------------------------------------------------------------------
(* The bills.  Nobody whose record is the first one (Old) has spent more than*)
(* he had, and what his record, the copy of it in tmp.txt, or the session    *)
(* that buys for him holds is at most the rest.  From Pay to Rename only the *)
(* session knows the rest.                                                   *)
Old == Users \ (banned \cup registered)

Unsaved == {"openCash", "fillCash", "readCash", "items", "remove"}
Visit   == {"initCash", "menu", "bill", "rename", "openGoods", "fillGoods"} \cup Unsaved
Buys(s, places) == local[s].job = "buy" /\ pc[s] \in places

Holds(u, x) == x + bill[u] <= balance0[u]

OnFile(u) ==
    acct[FileOf[u]] # Missing =>
        /\ acct[FileOf[u]][u] # NoRecord
        /\ \/ Holds(u, acct[FileOf[u]][u])
           \/ \E s \in Sessions : user[s] = u /\ Buys(s, Unsaved)

InSession(u) ==
    \A s \in Sessions :
        user[s] = u /\ Buys(s, Visit) /\ balance[s] # NoBalance => Holds(u, balance[s])

InTmp(u) ==
    \A s \in Sessions :
        /\ pc[s] \in {"remove", "rename"} /\ FileOf[local[s].target] = FileOf[u]
        /\ u \notin BannedBy(s)
        => tmp[u] # NoRecord /\ Holds(u, tmp[u])

OwnTarget == \A s \in Sessions : Buys(s, {"remove", "rename"}) => local[s].target = user[s]

Solvent ==
    /\ OwnTarget
    /\ \A u \in Old : Holds(u, 0) /\ OnFile(u) /\ InSession(u) /\ InTmp(u)

Billed == <<acct, tmp, bill, banned, registered>>

(* A step that writes no accounts file and adds to no bill: *)
LEMMA SolventFrame ==
  ASSUME Solvent, NEW s \in Sessions, Others(s), UNCHANGED Billed,
         \A r \in Sessions \ {s} : balance'[r] = balance[r],
         pc'[s] \notin {"remove", "rename"},
         Buys(s, Unsaved) => Buys(s, Unsaved)',
         user[s] \in Old /\ Buys(s, Visit)' /\ balance'[s] # NoBalance
            => Holds(user[s], balance'[s])
  PROVE  Solvent'
<1>. USE DEF Billed, Others
<1>1. Old' = Old /\ \A u, x : Holds(u, x)' <=> Holds(u, x)
  BY DEF Old, Holds
<1>0. OwnTarget'
  BY DEF Solvent, OwnTarget, Buys
<1>. SUFFICES ASSUME NEW u \in Old
              PROVE  Holds(u, 0)' /\ OnFile(u)' /\ InSession(u)' /\ InTmp(u)'
  BY <1>0, <1>1 DEF Solvent
<1>2. Holds(u, 0)'
  BY <1>1 DEF Solvent
<1>3. OnFile(u)'
  BY DEF Solvent, OnFile, Buys, Holds
<1>4. InSession(u)'
  BY DEF Solvent, InSession, Buys, Holds
<1>5. InTmp(u)'
  BY DEF Solvent, InTmp, BannedBy, Holds
<1>. QED  BY <1>2, <1>3, <1>4, <1>5

(* The same, where the balance in the session is the one it had.             *)
LEMMA VisitFrame ==
  ASSUME Solvent, NEW s \in Sessions, Others(s), UNCHANGED <<Billed, balance>>,
         pc'[s] \notin {"remove", "rename"},
         Buys(s, Unsaved) => Buys(s, Unsaved)',
         Buys(s, Visit)' => Buys(s, Visit)
  PROVE  Solvent'
<1>1. user[s] \in Old /\ Buys(s, Visit)' /\ balance'[s] # NoBalance
         => Holds(user[s], balance'[s])
  BY DEF Solvent, InSession
<1>. QED  BY <1>1, SolventFrame

(* A record can be read and written by the one session at work: *)
LEMMA OwnRecord ==
  ASSUME Alone, Accounted, Solvent, NEW s \in Sessions, NEW u \in Old,
         pc[s] \notin Idle \cup {"rename"} \/ \A r \in Sessions : pc[r] \in Idle,
         user[s] # u \/ ~ Buys(s, Unsaved)
  PROVE  /\ acct[FileOf[u]] # Missing /\ acct[FileOf[u]][u] # NoRecord
         /\ Holds(u, acct[FileOf[u]][u])
<1>1. u \in Users /\ FileOf[u] \in Files
  BY PeopleAssumption DEF Old
<1>2. acct[FileOf[u]] # Missing
  BY <1>1, NoneMissing
<1>3. \A r \in Sessions : user[r] = u => ~ Buys(r, Unsaved)
  BY DEF Alone, Buys, Unsaved, Idle
<1>. QED  BY <1>2, <1>3 DEF Solvent, OnFile

LEMMA PayStep ==
  ASSUME IInv, Alone, Solvent, NEW s \in Sessions, Pay(s)
  PROVE  Solvent'
<1> DEFINE v == user[s]
           cost == local[s].ordercost
<1>1. /\ SessionsOK /\ Others(s) /\ v \in Users /\ cost \in Nat /\ bill \in [Users -> Nat]
      /\ Stage(pc[s], local[s], balance[s]) /\ local[s] \in LocalRecord
  BY OthersStay, Here, PeopleAssumption DEF IInv, HistoryOK, Proceed
<1>2. /\ pc[s] = "bill" /\ pc'[s] = "openCash" /\ local[s].job = "buy" /\ balance[s] \in Nat
      /\ cost <= balance[s]
      /\ balance'[s] = balance[s] - cost
      /\ \A r \in Sessions \ {s} : balance'[r] = balance[r]
      /\ bill'[v] = bill[v] + cost /\ \A u \in Users \ {v} : bill'[u] = bill[u]
      /\ UNCHANGED <<acct, tmp, banned, registered>>
  BY <1>1, GotoOthers DEF Pay, Goto, Stage, fileVars, SessionsOK
<1>3. local'[s].job = "buy"
  <2> DEFINE l == [local[s] EXCEPT !.cash = CashIn(@, cost), !.k = 1]
  <2>1. l.job = local[s].job
    BY <1>1 DEF LocalRecord
  <2>2. local' = [local EXCEPT ![s] = l]
    BY DEF Pay
  <2>. HIDE DEF l
  <2>. QED  BY <1>1, <1>2, <2>1, <2>2, LocalOthers
<1>4. \A r \in Sessions \ {s} : pc'[r] = pc[r] /\ local'[r] = local[r] /\ pc[r] \in Idle
  BY <1>1, <1>2, NoOtherWrites DEF Others, Idle
<1>5. Old' = Old
  BY <1>2 DEF Old
<1>0. OwnTarget'
  BY <1>2, <1>4 DEF OwnTarget, Buys, Idle
<1>. HIDE DEF cost, v
<1>. SUFFICES ASSUME NEW u \in Old
              PROVE  Holds(u, 0)' /\ OnFile(u)' /\ InSession(u)' /\ InTmp(u)'
  BY <1>0, <1>5 DEF Solvent
<1>6. u \in Users /\ bill[u] \in Nat /\ balance0[u] \in Nat
  BY <1>1, FilesAssumption DEF Old
<1>7. InTmp(u)'
  BY <1>2, <1>4 DEF InTmp, Idle
<1>8. CASE u = v
  <2>1. Holds(u, balance[s])
    <3>1. Buys(s, Visit) /\ balance[s] # NoBalance
      BY <1>2, MarkersAssumption DEF Buys, Visit
    <3>. QED  BY <1>8, <3>1 DEF Solvent, InSession, v
  <2>2. balance'[s] \in Nat /\ Holds(u, balance[s])' /\ Holds(u, 0)'
    <3>1. balance'[s] \in Nat /\ bill'[u] = bill[u] + cost
      BY <1>1, <1>2, <1>8
    <3>2. balance[s] + bill[u] <= balance0[u]
      BY <2>1 DEF Holds
    <3>3. balance'[s] + bill'[u] <= balance0[u]
      BY <1>1, <1>2, <1>6, <3>1, <3>2
    <3>4. 0 + bill'[u] <= balance0[u]
      BY <1>1, <1>6, <3>1, <3>3
    <3>. QED  BY <3>1, <3>3, <3>4 DEF Holds
  <2>3. InSession(u)'
    BY <1>4, <2>2 DEF InSession, Buys, Visit, Unsaved, Idle
  <2>4. Buys(s, Unsaved)'
    BY <1>2, <1>3 DEF Buys, Unsaved
  <2>5. OnFile(u)'
    BY <1>2, <1>8, <2>4 DEF Solvent, OnFile, v
  <2>. QED  BY <1>7, <2>2, <2>3, <2>5
<1>9. CASE u # v
  <2>1. \A x : Holds(u, x)' <=> Holds(u, x)
    BY <1>2, <1>6, <1>9 DEF Holds
  <2>2. InSession(u)'
    BY <1>4, <1>9 DEF InSession, Buys, Visit, Unsaved, Idle, v
  <2>3. OnFile(u)'
    BY <1>2, <1>4, <1>9, <2>1 DEF Solvent, OnFile, Buys, v
  <2>. QED  BY <1>7, <2>1, <2>2, <2>3 DEF Solvent
<1>. QED  BY <1>8, <1>9

(* The copy of an accounts file with the record of w changed, to x.          *)
LEMMA CopyHolds ==
  ASSUME IInv, Alone, Accounted, Solvent, NEW s \in Sessions, Others(s),
         UNCHANGED <<acct, bill, banned, registered, balance>>,
         pc[s] \notin Idle \cup {"remove", "rename"} \/ \A r \in Sessions : pc[r] \in Idle,
         pc'[s] = "remove",
         NEW w \in Users, local'[s].target = w, NEW x, tmp' = Changed(FileOf[w], w, x),
         w \in Old => w \in BannedBy(s)' \/ (x # NoRecord /\ Holds(w, x)),
         Buys(s, Unsaved) => Buys(s, Unsaved)', Buys(s, Unsaved)' => user[s] = w,
         Buys(s, Visit)' => Buys(s, Visit)
  PROVE  Solvent'
<1>1. \A r \in Sessions \ {s} : pc'[r] = pc[r] /\ local'[r] = local[r] /\ pc[r] \in Idle
  BY NoOtherWrites DEF Others, Idle
<1>2. Old' = Old /\ \A u, y : Holds(u, y)' <=> Holds(u, y)
  BY DEF Old, Holds
<1>0. OwnTarget'
  BY <1>1 DEF OwnTarget, Buys, Unsaved, Idle
<1>. SUFFICES ASSUME NEW u \in Old
              PROVE  Holds(u, 0)' /\ OnFile(u)' /\ InSession(u)' /\ InTmp(u)'
  BY <1>0, <1>2 DEF Solvent
<1>3. Holds(u, 0)'
  BY <1>2 DEF Solvent
<1>4. OnFile(u)'
  BY <1>1, <1>2 DEF Solvent, OnFile, Buys
<1>5. InSession(u)'
  BY <1>1, <1>2 DEF Solvent, InSession, Buys
<1>6. InTmp(u)'
  <2>. SUFFICES ASSUME FileOf[w] = FileOf[u], u \notin BannedBy(s)'
                PROVE  tmp'[u] # NoRecord /\ Holds(u, tmp'[u])
    BY <1>1, <1>2 DEF InTmp, BannedBy, Idle
  <2>1. u \in Users /\ FileOf[u] \in Files
    BY PeopleAssumption DEF Old
  <2>2. acct[FileOf[u]] # Missing
    BY <2>1, NoneMissing DEF Idle
  <2>3. acct[FileOf[u]] \in [Users -> Nat \cup {NoRecord}] /\ acct[FileOf[u]][u] # NoRecord
    BY <2>1, <2>2 DEF IInv, FilesOK, Solvent, OnFile
  <2>4. tmp'[u] = IF u = w THEN x ELSE acct[FileOf[u]][u]
    BY <2>1, <2>3 DEF Changed
  <2>5. CASE u = w
    BY <2>4, <2>5
  <2>6. CASE u # w
    <3>1. user[s] # u \/ ~ Buys(s, Unsaved)
      BY <2>6
    <3>. QED  BY <2>4, <2>6, <3>1, OwnRecord DEF Idle
  <2>. QED  BY <2>5, <2>6
<1>. QED  BY <1>3, <1>4, <1>5, <1>6

LEMMA RemoveHolds ==
  ASSUME IInv, Alone, Accounted, Solvent, NEW s \in Sessions, Remove(s)
  PROVE  Solvent'
<1> DEFINE f == FileOf[local[s].target]
<1>1. SessionsOK /\ f \in Files
  BY Here, PeopleAssumption DEF IInv
<1>2. /\ pc[s] = "remove" /\ pc'[s] = "rename" /\ local'[s] = local[s] /\ Others(s)
      /\ acct' = [acct EXCEPT ![f] = Missing]
      /\ UNCHANGED <<tmp, balance, bill, banned, registered>>
  BY <1>1, PassOthers DEF Remove, historyVars
<1>3. \A r \in Sessions \ {s} : pc[r] \in Idle /\ pc'[r] \in Idle
  BY <1>2, NoOtherWrites DEF Others, Idle
<1>4. acct'[f] = Missing /\ \A g \in Files \ {f} : acct'[g] = acct[g]
  BY <1>1, <1>2 DEF IInv, FilesOK
<1>5. Old' = Old /\ \A u, x : Holds(u, x)' <=> Holds(u, x)
  BY <1>2 DEF Old, Holds
<1>6. OwnTarget'
  BY <1>2, <1>3 DEF Solvent, OwnTarget, Buys, Idle
<1>. SUFFICES ASSUME NEW u \in Old
              PROVE  Holds(u, 0)' /\ OnFile(u)' /\ InSession(u)' /\ InTmp(u)'
  BY <1>5, <1>6 DEF Solvent
<1>7. Holds(u, 0)'
  BY <1>5 DEF Solvent
<1>8. OnFile(u)'
  <2>. SUFFICES ASSUME acct'[FileOf[u]] # Missing PROVE OnFile(u)'
    BY DEF OnFile
  <2>1. FileOf[u] \in Files /\ FileOf[u] # f
    BY <1>4, PeopleAssumption DEF Old
  <2>2. \A r \in Sessions : user[r] = u => ~ Buys(r, Unsaved)
    BY <1>2, <1>3, <2>1 DEF Solvent, OwnTarget, Buys, Unsaved, Idle
  <2>. QED  BY <1>4, <1>5, <2>1, <2>2 DEF Solvent, OnFile
<1>9. InSession(u)'
  BY <1>2, <1>3, <1>5 DEF Solvent, InSession, Buys, Visit, Unsaved, Idle
<1>10. InTmp(u)'
  BY <1>2, <1>3, <1>5 DEF Solvent, InTmp, BannedBy, Idle
<1>. QED  BY <1>7, <1>8, <1>9, <1>10

LEMMA RenameHolds ==
  ASSUME IInv, Alone, Accounted, Solvent, NEW s \in Sessions, Rename(s)
  PROVE  Solvent'
<1> DEFINE f == FileOf[local[s].target]
<1>1. SessionsOK /\ f \in Files
  BY Here, PeopleAssumption DEF IInv
<1>2. /\ pc[s] = "rename" /\ pc'[s] \in {"openGoods", "home"} /\ Others(s)
      /\ local'[s] = IF pc'[s] = "home" THEN NoLocal ELSE local[s]
      /\ banned' = BannedBy(s) /\ registered' = registered \ banned'
      /\ UNCHANGED <<balance, bill>>
  BY <1>1, PassOthers DEF Rename, BannedBy
<1>3. tmp # Missing /\ acct[f] = Missing
  BY <1>2 DEF Accounted, TmpKept
<1>4. acct' = [acct EXCEPT ![f] = tmp]
  BY <1>3 DEF Rename
<1>5. acct'[f] = tmp /\ \A g \in Files \ {f} : acct'[g] = acct[g]
  BY <1>1, <1>4 DEF IInv, FilesOK
<1>6. \A r \in Sessions \ {s} : pc[r] \in Idle /\ pc'[r] \in Idle
  BY <1>2, NoOtherWrites DEF Others, Idle
<1>7. \A u \in Old' : u \in Old /\ u \notin BannedBy(s)
  BY <1>2 DEF Old, BannedBy
<1>8. \A u, x : Holds(u, x)' <=> Holds(u, x)
  BY <1>2 DEF Holds
<1>9. OwnTarget'
  BY <1>2, <1>6 DEF OwnTarget, Buys, Idle
<1>. SUFFICES ASSUME NEW u \in Old, u \notin BannedBy(s)
              PROVE  Holds(u, 0)' /\ OnFile(u)' /\ InSession(u)' /\ InTmp(u)'
  BY <1>7, <1>9 DEF Solvent
<1>10. Holds(u, 0)'
  BY <1>8 DEF Solvent
<1>11. OnFile(u)'
  <2>1. CASE FileOf[u] = f
    <3>1. tmp[u] # NoRecord /\ Holds(u, tmp[u])
      BY <1>2, <2>1 DEF Solvent, InTmp
    <3>. QED  BY <1>5, <1>8, <2>1, <3>1 DEF OnFile
  <2>2. CASE FileOf[u] # f
    <3>1. FileOf[u] \in Files
      BY PeopleAssumption DEF Old
    <3>2. \A r \in Sessions : ~ Buys(r, Unsaved)
      BY <1>2, <1>6 DEF Buys, Unsaved, Idle
    <3>. QED  BY <1>5, <1>8, <2>2, <3>1, <3>2 DEF Solvent, OnFile
  <2>. QED  BY <2>1, <2>2
<1>12. InSession(u)'
  BY <1>2, <1>6, <1>8 DEF Solvent, InSession, Buys, Visit, Unsaved, Idle
<1>13. InTmp(u)'
  BY <1>2, <1>6 DEF InTmp, Idle
<1>. QED  BY <1>10, <1>11, <1>12, <1>13

LEMMA SignUpHolds ==
  ASSUME IInv, Serial, Alone, Accounted, Solvent, NEW s \in Sessions, SignUp(s)
  PROVE  Solvent'
<1> DEFINE v == user[s]
           f == Home(s)
<1>1. v \in Users /\ f \in Files /\ FilesOK
  BY PeopleAssumption DEF Home, IInv
<1>2. /\ \A r \in Sessions : pc[r] \in Idle
      /\ acct' = [acct EXCEPT ![f] = WithRecord(f, v)]
      /\ registered' = registered \cup {v} /\ banned' = banned \ {v}
      /\ UNCHANGED <<pc, balance, local, bill, tmp>>
  BY DEF SignUp, Idle
<1>3. acct[f] # Missing
  BY <1>1, <1>2, NoneMissing
<1>4. acct[f] \in [Users -> Nat \cup {NoRecord}]
  BY <1>1, <1>3 DEF FilesOK
<1>5. \A u \in Users \ {v} : WithRecord(f, v)[u] = acct[f][u]
  BY <1>3, <1>4 DEF WithRecord
<1>6. \A g \in Files, u \in Users \ {v} :
         acct'[g] # Missing => acct[g] # Missing /\ acct'[g][u] = acct[g][u]
  BY <1>1, <1>2, <1>3, <1>5 DEF FilesOK
<1>7. \A u \in Old' : u \in Old /\ u \in Users \ {v} /\ FileOf[u] \in Files
  BY <1>2, PeopleAssumption DEF Old
<1>8. \A u, x : Holds(u, x)' <=> Holds(u, x)
  BY <1>2 DEF Holds
<1>9. OwnTarget'
  BY <1>2 DEF OwnTarget, Buys, Idle
<1>10. \A u \in Old' : Holds(u, 0)' /\ OnFile(u)'
  BY <1>2, <1>6, <1>7, <1>8 DEF Solvent, OnFile, Buys, Unsaved, Idle
<1>11. \A u \in Old' : InSession(u)' /\ InTmp(u)'
  BY <1>2 DEF InSession, InTmp, Buys, Visit, Unsaved, Idle
<1>. QED  BY <1>9, <1>10, <1>11 DEF Solvent

LEMMA SolventProceed ==
  ASSUME IInv, Alone, Accounted, Solvent, NEW s \in Sessions, Proceed(s),
         \A u \in Users : balance0[u] < SigLimit
  PROVE  Solvent'
<1>1. /\ SessionsOK /\ Others(s) /\ Stage(pc[s], local[s], balance[s])
      /\ local[s] \in LocalRecord /\ user[s] \in Users /\ Home(s) \in Files
  BY OthersStay, Here, PeopleAssumption DEF IInv, Home
<1>. USE <1>1 DEF accountVars, fileVars, historyVars, Billed
<1>2. CASE InitBalance(s)
  <2>1. /\ pc[s] = "initBalance" /\ pc'[s] = "initCash" /\ local'[s] = local[s]
        /\ \A r \in Sessions \ {s} : balance'[r] = balance[r]
        /\ acct[Home(s)][user[s]] # NoRecord => balance'[s] = acct[Home(s)][user[s]]
        /\ UNCHANGED Billed
    BY <1>2, GotoOthers DEF InitBalance, Goto, SessionsOK
  <2>2. ~ Buys(s, Unsaved)
    BY <2>1 DEF Buys, Unsaved
  <2>3. user[s] \in Old => Holds(user[s], balance'[s])
    BY <2>1, <2>2, OwnRecord DEF Home, Idle
  <2>. QED  BY <2>1, <2>2, <2>3, SolventFrame
<1>3. CASE NoAccounts(s) \/ CopyFails(s)
  <2>1. acct[Home(s)] # Missing
    BY <1>3, NoneMissing DEF NoAccounts, CopyFails, Pass, Goto, Idle
  <2>. QED  BY <1>3, <2>1 DEF NoAccounts, CopyFails
<1>4. ASSUME UNCHANGED <<Billed, balance>>, pc'[s] \notin {"remove", "rename"},
             local[s].job = "buy" /\ pc[s] \in Unsaved =>
                local'[s].job = "buy" /\ pc'[s] \in Unsaved,
             local'[s].job = "buy" /\ pc'[s] \in Visit =>
                local[s].job = "buy" /\ pc[s] \in Visit
      PROVE  Solvent'
  BY <1>4, VisitFrame DEF Buys
<1>5. CASE Pay(s)
  BY <1>5, PayStep
<1>6. CASE Remove(s) \/ Rename(s)
  BY <1>6, RemoveHolds, RenameHolds
<1>7. CASE CopyBalance(s)
  <2> DEFINE x == Fmt(balance[s])
             l == [local[s] EXCEPT !.target = user[s]]
  <2>1. /\ pc[s] = "items" /\ pc' = [pc EXCEPT ![s] = "remove"]
        /\ local' = [local EXCEPT ![s] = l]
        /\ tmp' = Changed(FileOf[user[s]], user[s], x)
        /\ UNCHANGED <<acct, bill, banned, registered, balance>>
    BY <1>7 DEF CopyBalance, Goto, Home
  <2>2. local[s].job = "buy" /\ balance[s] \in Nat
    BY <2>1 DEF Stage
  <2>3. l.target = user[s] /\ l.job = "buy"
    BY <2>2 DEF LocalRecord
  <2>4. pc'[s] = "remove" /\ local'[s] = l
    BY <2>1, GotoOthers, LocalOthers
  <2>5. Buys(s, Unsaved) /\ Buys(s, Visit) /\ Buys(s, Unsaved)'
    BY <2>1, <2>2, <2>3, <2>4 DEF Buys, Visit, Unsaved
  <2>6. x # NoRecord /\ (user[s] \in Old => Holds(user[s], x))
    <3>1. x \in Nat /\ x # NoRecord /\ balance[s] # NoBalance
      BY <2>2, FmtNat, MarkersAssumption
    <3>2. SUFFICES ASSUME user[s] \in Old PROVE Holds(user[s], x)
      BY <3>1
    <3>3. balance[s] + bill[user[s]] <= balance0[user[s]]
      BY <2>5, <3>1, <3>2 DEF Solvent, InSession, Holds
    <3>4. bill[user[s]] \in Nat /\ balance0[user[s]] \in Nat /\ SigLimit \in Nat
      BY FilesAssumption, BoundsAssumption DEF IInv, HistoryOK
    <3>5. x = balance[s]
      <4>1. balance[s] < SigLimit
        BY <2>2, <3>3, <3>4
      <4>. QED  BY <2>2, <4>1 DEF Fmt
    <3>. QED  BY <3>3, <3>5 DEF Holds
  <2>. HIDE DEF x, l
  <2>. QED  BY <2>1, <2>3, <2>4, <2>5, <2>6, CopyHolds DEF Idle
<1>8. CASE OpenCash(s) \/ FillCash(s) \/ OpenGoods(s)
  BY <1>8, <1>4, PassOthers DEF OpenCash, FillCash, OpenGoods, Stage, Visit, Unsaved
<1>9. CASE FillGoods(s)
  BY <1>9, <1>4, GotoOthers DEF FillGoods, Pass, Goto, Visit, Unsaved
<1>10. CASE InitCash(s) \/ Refuse(s)
  BY <1>10, <1>4, GotoOthers DEF InitCash, Refuse, Goto, Stage, Visit, Unsaved
<1>11. CASE Bill(s)
  BY <1>11, <1>4 DEF Bill, Stage, Visit, Unsaved
<1>12. CASE ReadCash(s)
  <2> DEFINE l == [local[s] EXCEPT !.cash = cashFile]
  <2>1. /\ local' = [local EXCEPT ![s] = l] /\ pc[s] = "readCash" /\ pc'[s] = "items"
        /\ UNCHANGED <<Billed, balance>>
    BY <1>12, GotoOthers DEF ReadCash, Goto
  <2>2. l.job = local[s].job
    BY DEF LocalRecord
  <2>. HIDE DEF l
  <2>3. local'[s].job = local[s].job
    BY <2>1, <2>2, LocalOthers
  <2>. QED  BY <2>1, <2>3, <1>4 DEF Visit, Unsaved
<1>13. CASE Sell(s) \/ SellAndReorder(s)
  <2>1. /\ pc[s] = "items" /\ pc'[s] \in {"items", "openCash"} /\ local[s].job = "buy"
        /\ UNCHANGED <<Billed, balance>>
    BY <1>13, GotoOthers DEF Sell, SellAndReorder, Goto, Stage
  <2>2. local'[s].job = local[s].job
    <3> DEFINE g(x) == [local[s].goods EXCEPT ![local[s].k].stock = x]
               l == [local[s] EXCEPT !.goods = g(Left(s)), !.k = local[s].k + 1]
               m(c, x) == [local[s] EXCEPT !.goods = g(x), !.cash = c, !.k = local[s].k + 1]
    <3>1. CASE Sell(s)
      <4>1. local' = [local EXCEPT ![s] = l]
        BY <3>1 DEF Sell
      <4>. HIDE DEF g
      <4>2. l.job = local[s].job
        BY DEF LocalRecord
      <4>. HIDE DEF l
      <4>. QED  BY <4>1, <4>2, LocalOthers
    <3>2. CASE SellAndReorder(s)
      <4>1. PICK c, x : local' = [local EXCEPT ![s] = m(c, x)]
        BY <3>2 DEF SellAndReorder
      <4>. HIDE DEF g
      <4>2. m(c, x).job = local[s].job
        BY DEF LocalRecord
      <4>. HIDE DEF m
      <4>. QED  BY <4>1, <4>2, LocalOthers
    <3>. QED  BY <1>13, <3>1, <3>2
  <2>. QED  BY <2>1, <2>2, <1>4 DEF Visit, Unsaved
<1>. QED  BY <1>2, <1>3, <1>5, <1>6, <1>7, <1>8, <1>9, <1>10, <1>11, <1>12, <1>13
          DEF Proceed

LEMMA SolventRequest ==
  ASSUME IInv, Serial, Alone, Accounted, Solvent, NEW s \in Sessions, Request(s),
         "balance" \notin AdminJobs
  PROVE  Solvent'
<1>1. /\ SessionsOK /\ Others(s) /\ Stage(pc[s], local[s], balance[s])
      /\ local[s] \in LocalRecord
  BY OthersStay, Here DEF IInv
<1>. USE <1>1 DEF accountVars, fileVars, historyVars, Billed
<1>2. ASSUME UNCHANGED Billed, \A r \in Sessions \ {s} : balance'[r] = balance[r],
             pc[s] \notin Unsaved, pc'[s] \notin Visit
      PROVE  Solvent'
  BY <1>2, SolventFrame DEF Buys, Visit, Unsaved
<1>3. ASSUME UNCHANGED <<Billed, balance>>, pc[s] \notin Unsaved,
             pc'[s] \notin Visit \/ (pc'[s] \in {"menu", "bill"} /\ pc[s] = "menu")
             \/ (pc'[s] = "openGoods" /\ local'[s].job # "buy")
      PROVE  Solvent'
  <2>1. ~ Buys(s, Unsaved)
    BY <1>3 DEF Buys
  <2>2. Buys(s, Visit)' => Buys(s, Visit)
    BY <1>3 DEF Buys, Visit, Unsaved, Stage
  <2>3. pc'[s] \notin {"remove", "rename"}
    BY <1>3 DEF Visit, Unsaved
  <2>. QED  BY <1>3, <2>1, <2>2, <2>3, VisitFrame
<1>4. CASE Login(s) \/ InitGoods(s) \/ ReadStock(s) \/ \E i \in Items : NameOrdered(s, i)
  BY <1>4, <1>3, GotoOthers DEF Login, InitGoods, ReadStock, NameOrdered, Begin, Goto, Visit,
     Unsaved
<1>5. CASE Logout(s)
  BY <1>5, <1>2, GotoOthers DEF Logout, Goto, Visit, Unsaved, SessionsOK
<1>6. CASE SignUp(s)
  BY <1>6, SignUpHolds
<1>7. ASSUME NEW i \in Items, NEW q \in 1 .. MaxQuantity, Add(s, i, q) PROVE Solvent'
  BY <1>7, <1>3 DEF Add, Unsaved
<1>8. CASE Confirm(s) \/ Back(s) \/ LeaveStock(s) \/ PressKey(s)
           \/ \E q \in 1 .. MaxQuantity : OrderRefused(s, q)
  BY <1>8, <1>3, PassOthers DEF Confirm, Back, LeaveStock, PressKey, OrderRefused, Visit, Unsaved
<1>9. ASSUME NEW u \in Managed, Delete(s, u) \/ SetBalance(s, u) PROVE Solvent'
  <2> DEFINE l == [local[s] EXCEPT !.job = "delete", !.target = u]
  <2>1. Edit(s, "delete", u, NoRecord)
    BY <1>9 DEF Delete, SetBalance, Edit, AdminJob
  <2>2. /\ \A r \in Sessions : pc[r] \in Idle
        /\ pc[s] = "home" /\ pc' = [pc EXCEPT ![s] = "remove"]
        /\ local' = [local EXCEPT ![s] = l]
        /\ tmp' = Changed(FileOf[u], u, NoRecord)
        /\ UNCHANGED <<acct, bill, banned, registered, balance>>
    BY <2>1 DEF Edit, Begin, Goto, Idle
  <2>3. u \in Users /\ l.target = u /\ l.job = "delete"
    BY PeopleAssumption DEF LocalRecord
  <2>4. pc'[s] = "remove" /\ local'[s] = l
    BY <2>2, GotoOthers, LocalOthers
  <2>. HIDE DEF l
  <2>5. u \in BannedBy(s)'
    BY <2>3, <2>4 DEF BannedBy
  <2>6. ~ Buys(s, Unsaved) /\ ~ Buys(s, Unsaved)' /\ ~ Buys(s, Visit)'
    BY <2>2, <2>3, <2>4 DEF Buys, Unsaved
  <2>. QED  BY <2>2, <2>3, <2>4, <2>5, <2>6, CopyHolds
<1>10. ASSUME NEW u \in Managed, NEW j, EditFails(s, j, u) PROVE Solvent'
  <2>1. FileOf[u] \in Files
    BY PeopleAssumption
  <2>2. \A r \in Sessions : pc[r] \in Idle
    BY <1>10 DEF EditFails, Begin, Idle
  <2>3. acct[FileOf[u]] # Missing
    BY <2>1, <2>2, NoneMissing
  <2>. QED  BY <1>10, <2>3 DEF EditFails
<1>11. ASSUME NEW i \in Items, NEW t \in NewTerms, Modify(s, i, t) PROVE Solvent'
  <2> DEFINE g == [local[s].goods EXCEPT ![i] =
                    [@ EXCEPT !.price = t.price, !.level = t.level, !.amount = t.amount]]
             l == [local[s] EXCEPT !.job = "modify", !.k = i, !.goods = g]
  <2>1. local' = [local EXCEPT ![s] = l]
    BY <1>11 DEF Modify
  <2>4. pc[s] = "stock" /\ pc'[s] = "openGoods" /\ UNCHANGED <<Billed, balance>>
    BY <1>11, GotoOthers DEF Modify, Goto
  <2>. HIDE DEF g
  <2>2. l.job = "modify"
    BY DEF LocalRecord
  <2>. HIDE DEF l
  <2>3. local'[s].job = "modify"
    BY <2>1, <2>2, LocalOthers
  <2>. QED  BY <2>3, <2>4, <1>3 DEF Unsaved
<1>12. ASSUME NEW q \in 1 .. MaxQuantity, Order(s, q) PROVE Solvent'
  <2> DEFINE g == [local[s].goods EXCEPT ![local[s].k].stock = @ + q]
             c == CashOut(local[s].cash, q * local[s].goods[local[s].k].cost)
             l == [local[s] EXCEPT !.goods = g, !.cash = c]
  <2>1. /\ local' = [local EXCEPT ![s] = l] /\ pc[s] = "quantity"
        /\ pc'[s] = "openGoods" /\ UNCHANGED <<Billed, balance>>
    BY <1>12, GotoOthers DEF Order, Goto
  <2>. HIDE DEF g, c
  <2>2. l.job = "order"
    BY <2>1 DEF LocalRecord, Stage
  <2>. HIDE DEF l
  <2>3. local'[s].job = "order"
    BY <2>1, <2>2, LocalOthers
  <2>. QED  BY <2>1, <2>3, <1>3 DEF Unsaved
<1>. QED  BY <1>4, <1>5, <1>6, <1>7, <1>8, <1>9, <1>10, <1>11, <1>12 DEF Request

LEMMA SolventInit ==
  ASSUME Init
  PROVE  Solvent
<1>1. OwnTarget /\ \A u \in Old : InSession(u) /\ InTmp(u)
  BY DEF Init, OwnTarget, InSession, InTmp, Buys, Visit, Unsaved
<1>2. ASSUME NEW u \in Users
      PROVE  Holds(u, 0) /\ OnFile(u)
  <2>1. balance0[u] \in Nat /\ bill[u] = 0 /\ FileOf[u] \in Files
    BY FilesAssumption, PeopleAssumption DEF Init
  <2>2. acct[FileOf[u]][u] = balance0[u]
    BY <2>1 DEF Init
  <2>3. balance0[u] # NoRecord
    BY <2>1, MarkersAssumption
  <2>. QED  BY <2>1, <2>2, <2>3 DEF Holds, OnFile
<1>. QED  BY <1>1, <1>2 DEF Solvent, Old

(* One at a time and without a crash, nobody pays more than the balance he   *)
(* started with, however often he buys, logs out and in, and whoever else is *)
(* deleted or signs up; while balances print as they are (Person::buy,       *)
(* initialize_balance, update_balance).                                      *)
THEOREM NobodyOverspends ==
  Serial /\ MaxCrashes = 0 /\ "balance" \notin AdminJobs
         /\ (\A u \in Users : balance0[u] < SigLimit)
    => (Spec => []SpendsWithinBalance)
<1>. SUFFICES ASSUME Serial, MaxCrashes = 0, "balance" \notin AdminJobs,
                     \A u \in Users : balance0[u] < SigLimit
              PROVE  Spec => []SpendsWithinBalance
  OBVIOUS
<1>1. Init => Solvent
  BY SolventInit
<1>2. (IInv /\ Alone /\ Accounted) /\ Solvent /\ [Next]_vars => Solvent'
  <2>. SUFFICES ASSUME IInv, Alone, Accounted, Solvent, [Next]_vars PROVE Solvent'
    OBVIOUS
  <2>1. CASE UNCHANGED vars
    BY <2>1 DEF vars, fileVars, historyVars, Solvent, OwnTarget, OnFile, InSession, InTmp,
       Holds, Buys, Old, BannedBy
  <2>2. ASSUME NEW s \in Sessions, Proceed(s) \/ Request(s) PROVE Solvent'
    BY <2>2, SolventProceed, SolventRequest
  <2>. QED  BY <2>1, <2>2, OneSteps
<1>3. IInv /\ Solvent => SpendsWithinBalance
  <2>. SUFFICES ASSUME IInv, Solvent, NEW u \in Old PROVE bill[u] <= balance0[u]
    BY DEF SpendsWithinBalance, Old
  <2>1. 0 + bill[u] <= balance0[u] /\ bill[u] \in Nat
    BY DEF Solvent, Holds, Old, IInv, HistoryOK
  <2>. QED  BY <2>1
<1>4. Spec => [](IInv /\ Alone /\ Accounted)
  BY SerialInvariance
<1>. QED  BY <1>1, <1>2, <1>3, <1>4, PTL DEF Spec
=============================================================================
