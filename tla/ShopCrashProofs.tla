--------------------------- MODULE ShopCrashProofs ---------------------------
(***************************************************************************)
(* Which records of accounts can be lost, wherever and however often the    *)
(* process ends: those that are deleted, and those of an accounts file that *)
(* has been gone since a crash; for every number of goods, users, accounts  *)
(* files, sessions and crashes, with deletions and sign-ups.                *)
(*                                                                          *)
(* Sessions are served one at a time.  The invariant says of the one that   *)
(* is about to remove a file that tmp.txt has everything the file has, but  *)
(* for the record it deletes.                                               *)
(***************************************************************************)
EXTENDS ShopSerialProofs

Copied(s) ==
    LET t == local[s].target IN
    /\ acct[FileOf[t]] # Missing /\ tmp # Missing
    /\ \A u \in Users :
          FileOf[u] = FileOf[t] /\ acct[FileOf[t]][u] # NoRecord =>
             tmp[u] # NoRecord \/ (local[s].job = "delete" /\ u = t)

AllCopied == \A s \in Sessions : pc[s] = "remove" => Copied(s)

(* What OnlyOrphansAreLost says of a step. *)
LosesOrphans ==
    \A u \in Users : Safe(u) =>
        Safe(u)' \/ Deleting(u) \/ (Orphan(u) /\ ~ UNCHANGED accountVars)

-----------------------------------------------------------------------------
(* A step that writes no accounts file: *)
LEMMA CopiedFrame ==
  ASSUME AllCopied, NEW s \in Sessions, Others(s), UNCHANGED accountVars, pc'[s] # "remove"
  PROVE  LosesOrphans /\ AllCopied'
<1>1. LosesOrphans
  BY DEF LosesOrphans, Safe, accountVars
<1>2. ASSUME NEW r \in Sessions, pc'[r] = "remove" PROVE Copied(r)'
  <2>1. pc[r] = "remove" /\ local'[r] = local[r]
    BY <1>2 DEF Others
  <2>2. Copied(r)
    BY <2>1 DEF AllCopied
  <2>. QED  BY <2>1, <2>2 DEF Copied, accountVars
<1>. QED  BY <1>1, <1>2 DEF AllCopied

(* One that writes tmp.txt, or changes one file, while no file is removed or *)
(* renamed: the records of a file that is there stay safe.                   *)
LEMMA OrphanFrame ==
  ASSUME \A r \in Sessions : pc[r] # "rename",
         \A u \in Users : acct[FileOf[u]] # Missing /\ acct[FileOf[u]][u] # NoRecord => Safe(u)'
  PROVE  LosesOrphans
<1>. SUFFICES ASSUME NEW u \in Users, Safe(u), ~ Safe(u)'
              PROVE  Orphan(u) /\ ~ UNCHANGED accountVars
  BY DEF LosesOrphans
<1>1. acct[FileOf[u]] = Missing
  BY DEF Safe
<1>2. Orphan(u)
  BY <1>1 DEF Orphan
<1>3. ~ UNCHANGED accountVars
  BY DEF Safe, accountVars
<1>. QED  BY <1>2, <1>3

(* An accounts file is copied, with the record of w changed to x. *)
LEMMA CopiedCopy ==
  ASSUME IInv, Alone, NEW s \in Sessions, Others(s), UNCHANGED acct,
         pc[s] \notin Idle \/ \A r \in Sessions : pc[r] \in Idle,
         pc[s] # "rename", pc'[s] = "remove",
         NEW w \in Users, local'[s].target = w, acct[FileOf[w]] # Missing,
         NEW x \in Nat \cup {NoRecord}, x = NoRecord => local'[s].job = "delete",
         tmp' = Changed(FileOf[w], w, x)
  PROVE  LosesOrphans /\ AllCopied'
<1> DEFINE f == FileOf[w]
<1>1. f \in Files
  BY PeopleAssumption
<1>2. \A r \in Sessions \ {s} : pc[r] \in Idle /\ pc'[r] \in Idle
  BY NoOtherWrites DEF Others
<1>3. acct[f] \in [Users -> Nat \cup {NoRecord}]
  BY <1>1 DEF IInv, FilesOK
<1>4. tmp' # Missing
  BY <1>1, ChangedOK, MarkersAssumption DEF AccountsOK, Accounts
<1>5. \A u \in Users : tmp'[u] = IF u = w /\ acct[f][u] # NoRecord THEN x ELSE acct[f][u]
  <2>1. tmp' = [acct[f] EXCEPT ![w] = IF acct[f][w] = NoRecord THEN acct[f][w] ELSE x]
    BY DEF Changed
  <2>. QED  BY <1>3, <2>1
<1>6. Copied(s)'
  BY <1>4, <1>5 DEF Copied
<1>7. AllCopied'
  BY <1>2, <1>6 DEF AllCopied, Idle
<1>8. \A r \in Sessions : pc[r] # "rename"
  BY <1>2 DEF Idle
<1>9. \A u \in Users : acct[FileOf[u]] # Missing /\ acct[FileOf[u]][u] # NoRecord => Safe(u)'
  BY DEF Safe
<1>. QED  BY <1>7, <1>8, <1>9, OrphanFrame

(* Without the file, tmp.txt is made empty.                                  *)
LEMMA CopiedNothing ==
  ASSUME Alone, NEW s \in Sessions, Others(s), UNCHANGED acct,
         pc[s] \notin Idle \/ \A r \in Sessions : pc[r] \in Idle,
         pc[s] # "rename", pc'[s] # "remove"
  PROVE  LosesOrphans /\ AllCopied'
<1>1. \A r \in Sessions \ {s} : pc[r] \in Idle /\ pc'[r] \in Idle
  BY NoOtherWrites DEF Others
<1>2. AllCopied'
  BY <1>1 DEF AllCopied, Idle
<1>3. \A r \in Sessions : pc[r] # "rename"
  BY <1>1 DEF Idle
<1>4. \A u \in Users : acct[FileOf[u]] # Missing /\ acct[FileOf[u]][u] # NoRecord => Safe(u)'
  BY DEF Safe
<1>. QED  BY <1>2, <1>3, <1>4, OrphanFrame

LEMMA CopiedRemove ==
  ASSUME IInv, Alone, AllCopied, NEW s \in Sessions, Remove(s)
  PROVE  LosesOrphans /\ AllCopied'
<1> DEFINE t == local[s].target
           f == FileOf[t]
<1>1. t \in Users /\ f \in Files /\ FilesOK
  BY Here, PeopleAssumption DEF IInv
<1>2. /\ pc[s] = "remove" /\ pc'[s] = "rename" /\ Others(s) /\ UNCHANGED tmp
      /\ acct' = [acct EXCEPT ![f] = Missing]
  BY PassOthers DEF IInv, Remove
<1>3. \A r \in Sessions \ {s} : pc[r] \in Idle /\ pc'[r] \in Idle
  BY <1>2, NoOtherWrites DEF Others, Idle
<1>4. AllCopied'
  BY <1>2, <1>3 DEF AllCopied, Idle
<1>5. acct'[f] = Missing /\ \A g \in Files \ {f} : acct'[g] = acct[g]
  BY <1>1, <1>2 DEF FilesOK
<1>6. Copied(s)
  BY <1>2 DEF AllCopied
<1>7. ASSUME NEW u \in Users, Safe(u), ~ Deleting(u), FileOf[u] = f
      PROVE  Safe(u)'
  <2>1. acct[f][u] # NoRecord /\ ~ (local[s].job = "delete" /\ u = t)
    BY <1>2, <1>6, <1>7 DEF Safe, Deleting, Copied
  <2>. QED  BY <1>2, <1>5, <1>6, <1>7, <2>1 DEF Safe, Copied
<1>8. ASSUME NEW u \in Users, Safe(u), FileOf[u] # f
      PROVE  Safe(u)'
  <2>1. acct'[FileOf[u]] = acct[FileOf[u]]
    BY <1>5, <1>8, PeopleAssumption
  <2>. QED  BY <1>2, <1>8, <2>1 DEF Safe
<1>. QED  BY <1>4, <1>7, <1>8 DEF LosesOrphans

LEMMA CopiedRename ==
  ASSUME IInv, Alone, AllCopied, NEW s \in Sessions, Rename(s)
  PROVE  LosesOrphans /\ AllCopied'
<1> DEFINE f == FileOf[local[s].target]
<1>1. f \in Files /\ FilesOK
  BY Here, PeopleAssumption DEF IInv
<1>2. pc[s] = "rename" /\ pc'[s] \in {"openGoods", "home"} /\ Others(s)
  BY PassOthers DEF IInv, Rename
<1>3. CASE UNCHANGED accountVars
  BY <1>2, <1>3, CopiedFrame
<1>4. CASE tmp # Missing /\ acct[f] = Missing /\ acct' = [acct EXCEPT ![f] = tmp]
  <2>1. \A r \in Sessions \ {s} : pc[r] \in Idle /\ pc'[r] \in Idle
    BY <1>2, NoOtherWrites DEF Others, Idle
  <2>2. AllCopied'
    BY <1>2, <2>1 DEF AllCopied, Idle
  <2>3. acct'[f] = tmp /\ \A g \in Files \ {f} : acct'[g] = acct[g]
    BY <1>1, <1>4 DEF FilesOK
  <2>4. ~ UNCHANGED accountVars
    BY <1>4, <2>3 DEF accountVars
  <2>5. ASSUME NEW u \in Users, Safe(u), FileOf[u] = f PROVE Safe(u)'
    BY <1>4, <2>3, <2>5 DEF Safe
  <2>6. ASSUME NEW u \in Users, Safe(u), FileOf[u] # f PROVE Safe(u)' \/ Orphan(u)
    <3>1. acct'[FileOf[u]] = acct[FileOf[u]]
      BY <2>3, <2>6, PeopleAssumption
    <3>2. CASE acct[FileOf[u]] # Missing
      BY <2>6, <3>1, <3>2 DEF Safe
    <3>3. CASE acct[FileOf[u]] = Missing
      BY <2>1, <2>6, <3>3 DEF Orphan, Idle
    <3>. QED  BY <3>2, <3>3
  <2>. QED  BY <2>2, <2>4, <2>5, <2>6 DEF LosesOrphans
<1>. QED  BY <1>3, <1>4 DEF Rename

LEMMA CopiedSignUp ==
  ASSUME IInv, Serial, AllCopied, NEW s \in Sessions, SignUp(s)
  PROVE  LosesOrphans /\ AllCopied'
<1> DEFINE w == user[s]
           f == Home(s)
<1>1. w \in Users /\ f \in Files /\ FilesOK
  BY PeopleAssumption DEF IInv, Home
<1>2. /\ \A r \in Sessions : pc[r] \in Idle /\ pc'[r] = pc[r]
      /\ acct' = [acct EXCEPT ![f] = WithRecord(f, w)]
  BY DEF SignUp, Idle
<1>3. acct'[f] = WithRecord(f, w) /\ \A g \in Files \ {f} : acct'[g] = acct[g]
  BY <1>1, <1>2 DEF FilesOK
<1>4. acct'[f] # Missing
  <2>1. acct'[f] \in Accounts
    BY <1>1, <1>3, WithRecordOK DEF Accounts
  <2>. QED  BY <2>1, MarkersAssumption
<1>5. ASSUME acct[f] # Missing, NEW u \in Users, acct[f][u] # NoRecord
      PROVE  acct'[f][u] # NoRecord
  <2>1. acct'[f] = [acct[f] EXCEPT ![w] = IF acct[f][w] = NoRecord THEN 0 ELSE acct[f][w]]
    BY <1>3, <1>5 DEF WithRecord
  <2>2. acct[f] \in [Users -> Nat \cup {NoRecord}]
    BY <1>1, <1>5 DEF FilesOK
  <2>. QED  BY <1>5, <2>1, <2>2, MarkersAssumption
<1>6. ASSUME NEW u \in Users, acct[FileOf[u]] # Missing, acct[FileOf[u]][u] # NoRecord
      PROVE  Safe(u)'
  <2>1. CASE FileOf[u] = f
    BY <1>4, <1>5, <1>6, <2>1 DEF Safe
  <2>2. CASE FileOf[u] # f
    <3>1. acct'[FileOf[u]] = acct[FileOf[u]]
      BY <1>3, <2>2, PeopleAssumption
    <3>. QED  BY <1>6, <3>1 DEF Safe
  <2>. QED  BY <2>1, <2>2
<1>7. LosesOrphans
  BY <1>2, <1>6, OrphanFrame DEF Idle
<1>. QED  BY <1>2, <1>7 DEF AllCopied, Idle

LEMMA CopiedProceed ==
  ASSUME IInv, Alone, AllCopied, NEW s \in Sessions, Proceed(s)
  PROVE  LosesOrphans /\ AllCopied'
<1>1. SessionsOK /\ Others(s) /\ user[s] \in Users
  BY OthersStay, PeopleAssumption DEF IInv
<1>. USE <1>1 DEF accountVars, fileVars, historyVars
<1>2. CASE UNCHANGED accountVars /\ pc'[s] # "remove"
  BY <1>2, CopiedFrame
<1>3. CASE InitBalance(s) \/ InitCash(s) \/ Refuse(s) \/ Pay(s) \/ ReadCash(s)
           \/ SellAndReorder(s)
  <2>1. UNCHANGED accountVars /\ \E to : pc' = [pc EXCEPT ![s] = to] /\ to # "remove"
    BY <1>3 DEF InitBalance, InitCash, Refuse, Pay, ReadCash, SellAndReorder, Goto
  <2>. QED  BY <2>1, <1>2, GotoOthers
<1>4. CASE Bill(s) \/ Sell(s)
  BY <1>4, <1>2 DEF Bill, Sell
<1>5. CASE NoAccounts(s) \/ OpenCash(s) \/ FillCash(s) \/ OpenGoods(s)
  BY <1>5, <1>2, PassOthers DEF NoAccounts, OpenCash, FillCash, OpenGoods
<1>6. CASE FillGoods(s)
  BY <1>6, <1>2, GotoOthers DEF FillGoods, Pass, Goto
<1>7. CASE CopyFails(s)
  <2>1. pc[s] = "items" /\ pc'[s] = "openGoods" /\ UNCHANGED acct
    BY <1>7, PassOthers DEF CopyFails
  <2>. QED  BY <2>1, CopiedNothing DEF Idle
<1>8. CASE CopyBalance(s)
  <2> DEFINE x == Fmt(balance[s])
             l == [local[s] EXCEPT !.target = user[s]]
  <2>1. /\ pc[s] = "items" /\ pc' = [pc EXCEPT ![s] = "remove"] /\ UNCHANGED acct
        /\ local' = [local EXCEPT ![s] = l] /\ acct[FileOf[user[s]]] # Missing
        /\ tmp' = Changed(FileOf[user[s]], user[s], x)
    BY <1>8 DEF CopyBalance, Goto, Home
  <2>2. local[s] \in LocalRecord /\ balance[s] \in Nat
    BY <2>1, Here DEF Stage
  <2>3. l.target = user[s]
    BY <2>2 DEF LocalRecord
  <2>4. pc'[s] = "remove" /\ local'[s] = l
    BY <2>1, GotoOthers, LocalOthers
  <2>5. x \in Nat /\ x # NoRecord
    BY <2>2, FmtNat, MarkersAssumption
  <2>. HIDE DEF x, l
  <2>. QED  BY <2>1, <2>3, <2>4, <2>5, CopiedCopy DEF Idle
<1>9. CASE Remove(s) \/ Rename(s)
  BY <1>9, CopiedRemove, CopiedRename
<1>. QED  BY <1>3, <1>4, <1>5, <1>6, <1>7, <1>8, <1>9 DEF Proceed

LEMMA CopiedEdit ==
  ASSUME IInv, Serial, Alone, NEW s \in Sessions, NEW j \in {"balance", "delete"},
         NEW u \in Managed, NEW x \in Nat \cup {NoRecord}, x = NoRecord => j = "delete",
         Edit(s, j, u, x)
  PROVE  LosesOrphans /\ AllCopied'
<1> DEFINE l == [local[s] EXCEPT !.job = j, !.target = u]
<1>1. /\ \A r \in Sessions : pc[r] \in Idle
      /\ pc[s] = "home" /\ pc' = [pc EXCEPT ![s] = "remove"] /\ UNCHANGED acct
      /\ local' = [local EXCEPT ![s] = l] /\ acct[FileOf[u]] # Missing
      /\ tmp' = Changed(FileOf[u], u, x)
  BY DEF Edit, Begin, Goto, Idle
<1>2. SessionsOK /\ Others(s) /\ local[s] \in LocalRecord /\ u \in Users
  <2>1. SessionsOK /\ u \in Users
    BY PeopleAssumption DEF IInv
  <2>2. local[s] \in LocalRecord
    BY <2>1, Here
  <2>. QED  BY <1>1, <2>1, <2>2, GotoOthers, LocalOthers DEF Others
<1>3. l.target = u /\ l.job = j
  BY <1>2 DEF LocalRecord
<1>4. pc'[s] = "remove" /\ local'[s] = l
  BY <1>1, <1>2, GotoOthers, LocalOthers
<1>. HIDE DEF l
<1>. QED  BY <1>1, <1>2, <1>3, <1>4, CopiedCopy

LEMMA CopiedRequest ==
  ASSUME IInv, Serial, Alone, AllCopied, NEW s \in Sessions, Request(s)
  PROVE  LosesOrphans /\ AllCopied'
<1>1. SessionsOK /\ Others(s)
  BY OthersStay DEF IInv
<1>. USE <1>1 DEF accountVars, fileVars, historyVars
<1>2. CASE UNCHANGED accountVars /\ pc'[s] # "remove"
  BY <1>2, CopiedFrame
<1>3. CASE Login(s) \/ Logout(s) \/ InitGoods(s) \/ ReadStock(s)
           \/ \E i \in Items : NameOrdered(s, i)
  BY <1>3, <1>2, GotoOthers DEF Login, Logout, InitGoods, ReadStock, NameOrdered, Begin, Goto
<1>4. ASSUME NEW i \in Items, NEW q \in 1 .. MaxQuantity, Add(s, i, q)
      PROVE  LosesOrphans /\ AllCopied'
  <2>1. pc[s] = "menu" /\ UNCHANGED <<accountVars, pc>>
    BY <1>4 DEF Add
  <2>. QED  BY <1>2, <2>1
<1>5. CASE Confirm(s) \/ Back(s) \/ LeaveStock(s) \/ PressKey(s)
           \/ \E q \in 1 .. MaxQuantity : OrderRefused(s, q)
  BY <1>5, <1>2, PassOthers DEF Confirm, Back, LeaveStock, PressKey, OrderRefused
<1>6. ASSUME NEW i \in Items, NEW t \in NewTerms, Modify(s, i, t)
      PROVE  LosesOrphans /\ AllCopied'
  BY <1>6, <1>2, GotoOthers DEF Modify, Goto
<1>7. ASSUME NEW q \in 1 .. MaxQuantity, Order(s, q) PROVE LosesOrphans /\ AllCopied'
  BY <1>7, <1>2, GotoOthers DEF Order, Goto
<1>8. ASSUME NEW u \in Managed, Delete(s, u) \/ SetBalance(s, u)
      PROVE  LosesOrphans /\ AllCopied'
  <2>1. CASE Delete(s, u)
    BY <2>1, CopiedEdit DEF Delete
  <2>2. ASSUME NEW b \in NewBalances, Edit(s, "balance", u, b)
        PROVE  LosesOrphans /\ AllCopied'
    <3>1. b \in Nat /\ b # NoRecord
      BY InputAssumption, MarkersAssumption
    <3>. QED  BY <2>2, <3>1, CopiedEdit
  <2>. QED  BY <1>8, <2>1, <2>2 DEF SetBalance
<1>9. ASSUME NEW u \in Managed, NEW j, EditFails(s, j, u) PROVE LosesOrphans /\ AllCopied'
  <2>1. /\ \A r \in Sessions : pc[r] \in Idle
        /\ pc[s] = "home" /\ pc'[s] \in {"key", "stuck"} /\ UNCHANGED acct
    BY <1>9, GotoOthers DEF EditFails, Begin, Goto, Idle
  <2>. QED  BY <2>1, CopiedNothing
<1>10. CASE SignUp(s)
  BY <1>10, CopiedSignUp
<1>. QED  BY <1>3, <1>4, <1>5, <1>6, <1>7, <1>8, <1>9, <1>10 DEF Request

LEMMA CopiedRestart ==
  ASSUME Restart
  PROVE  LosesOrphans /\ Alone' /\ AllCopied'
<1>1. LosesOrphans
  BY DEF Restart, fileVars, LosesOrphans, Safe
<1>2. \A s \in Sessions : pc'[s] = "out"
  BY DEF Restart
<1>. QED  BY <1>1, <1>2 DEF Alone, AllCopied, Idle

-----------------------------------------------------------------------------
(* Served one at a time, with any number of accounts files and any deletions *)
(* and sign-ups, no step and no end of the process takes a record away but   *)
(* the removal that deletes it, and, when its file has been gone since a     *)
(* crash, the next use of tmp.txt or of the file's name (update_balance,     *)
(* Admin::balance and Delete copy to tmp.txt before they remove).            *)
THEOREM NoRecordLost == Serial => (Spec => OnlyOrphansAreLost)
<1>. SUFFICES ASSUME Serial PROVE Spec => OnlyOrphansAreLost
  OBVIOUS
<1>1. Init => Alone /\ AllCopied
  <2>. SUFFICES ASSUME Init PROVE Alone /\ AllCopied
    OBVIOUS
  <2>1. \A s \in Sessions : pc[s] = "out"
    BY DEF Init
  <2>. QED  BY <2>1 DEF Alone, AllCopied, Idle
<1>2. IInv /\ (Alone /\ AllCopied) /\ [Next]_vars
        => (Alone /\ AllCopied)' /\ [LosesOrphans]_vars
  <2>. SUFFICES ASSUME IInv, Alone, AllCopied, [Next]_vars
                PROVE  Alone' /\ AllCopied' /\ [LosesOrphans]_vars
    OBVIOUS
  <2>1. CASE UNCHANGED vars
    BY <2>1 DEF vars, fileVars, Alone, AllCopied, Copied
  <2>2. CASE Restart
    BY <2>2, CopiedRestart
  <2>3. ASSUME NEW s \in Sessions, Proceed(s) \/ Request(s)
        PROVE  LosesOrphans /\ Alone' /\ AllCopied'
    BY <2>3, OthersStay, TakesTurn, AloneStep, CopiedProceed, CopiedRequest
  <2>. QED  BY <2>1, <2>2, <2>3 DEF Next, Throws, Killed
<1>3. [][LosesOrphans]_vars => OnlyOrphansAreLost
  <2>1. [LosesOrphans]_vars =>
          [\A u \in Users : Safe(u) =>
             Safe(u)' \/ Deleting(u) \/ (Orphan(u) /\ ~ UNCHANGED accountVars)]_vars
    BY DEF LosesOrphans
  <2>. QED  BY <2>1, PTL DEF OnlyOrphansAreLost
<1>. QED  BY <1>1, <1>2, <1>3, Invariance, PTL DEF Spec
=============================================================================
