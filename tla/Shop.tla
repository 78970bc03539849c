-------------------------------- MODULE Shop --------------------------------
(***************************************************************************)
(* Buying, and the administrator's work on balances, accounts and stock     *)
(* (Person::buy and its helpers in Server/Headers/Person.cpp; balance,      *)
(* Delete and stock in Admin.cpp).                                          *)
(*                                                                          *)
(* Every session is a thread of the same process.  It reads goods.txt,      *)
(* cash.txt and an accounts file into local variables, works on those and   *)
(* writes whole files back; nothing locks a file.  A file that is rewritten *)
(* in place is first truncated, then filled; an accounts file is copied to  *)
(* tmp.txt (one name for all), removed, and tmp.txt renamed to it.  One     *)
(* action is one of these file operations, or the work between two of them. *)
(* A read, or the copy to tmp.txt, is one step.                             *)
(*                                                                          *)
(* Money is in units fine enough for every price and discount to be whole.  *)
(***************************************************************************)
EXTENDS Integers, FiniteSetsExt

CONSTANTS
    N,            \* number of goods
    MaxQuantity,  \* bound: the largest quantity asked for
    Sessions,     \* the sessions that may be open at once
    Users, user,  \* the people, and the one at the keyboard of each session
    Files, FileOf,    \* the accounts files, and the one each user is in
    CustomerFile,
    Admins,       \* the sessions opened by the administrator
    AdminJobs,    \* the administrator's operations that occur
    Managed,      \* the users the administrator works on
    Signers,      \* the users who may sign up (again)
    NewBalances, NewTerms,    \* what the administrator types in
    goods0, cash0, balance0,  \* what the files hold at first
    SigLimit,     \* 10^6: operator<< prints a double with 6 digits
    Serial,       \* TRUE: a session is served only when the others are idle
    MaxJobs,      \* bound: orders confirmed and administrator's operations
    MaxCrashes,   \* bound: times the server process ends
    Empty, Missing, NoRecord, NoBalance

Items == 1 .. N

GoodsRecord == [stock : Int, cost : Nat, price : Nat, level : Nat, amount : Nat]
Stock       == [Items -> GoodsRecord]
CashRecord  == [initial : Nat, in : Nat, out : Nat, finl : Int]
Accounts    == [Users -> Int \cup {NoRecord}]
Terms       == [price : Nat, level : Nat, amount : Nat]
LocalRecord == [job : {"buy", "balance", "delete", "order", "modify"}, goods : Stock,
                cash : CashRecord, order : [Items -> Nat], k : 1 .. N + 1,
                ordercost : Nat, target : Users]

ASSUME BoundsAssumption ==
    /\ N \in Nat /\ MaxQuantity \in Nat /\ MaxJobs \in Nat /\ MaxCrashes \in Nat
    /\ SigLimit \in Nat /\ SigLimit % 10 = 0
    /\ Serial \in BOOLEAN
ASSUME PeopleAssumption ==
    /\ user \in [Sessions -> Users]
    /\ FileOf \in [Users -> Files]
    /\ Admins \subseteq Sessions /\ Managed \cup Signers \subseteq Users
    /\ \A u \in Signers : FileOf[u] = CustomerFile
ASSUME UsersAssumption == IsFiniteSet(Users)
ASSUME InputAssumption ==
    /\ NewBalances \subseteq Nat /\ NewTerms \subseteq Terms
    /\ AdminJobs \subseteq {"balance", "delete", "order", "modify"}
ASSUME FilesAssumption ==
    /\ goods0 \in Stock /\ \A i \in Items : goods0[i].stock \in Nat
    /\ cash0 \in CashRecord /\ cash0.finl \in Nat
    /\ balance0 \in [Users -> Nat]
    /\ cash0.finl + cash0.out = cash0.initial + cash0.in
ASSUME MarkersAssumption ==
    /\ Empty \notin Stock /\ Empty \notin CashRecord /\ Missing \notin Accounts
    /\ NoRecord \notin Int /\ NoBalance \notin Int

VARIABLES
    goodsFile, cashFile,    \* goods.txt and cash.txt, Empty when truncated
    acct, tmp,              \* the accounts files and tmp.txt, or Missing
    pc,                     \* per session: where it is ...
    balance,                \* ... Person::balance, as it last read or changed it ...
    local,                  \* ... and the variables of the operation it is in
    bill, listed,           \* history: paid per user; prices set ...
    banned, registered,     \* ... users deleted, and users told they have an account
    jobs, crashes

fileVars    == <<goodsFile, cashFile, acct, tmp>>
accountVars == <<acct, tmp>>
historyVars == <<bill, listed, banned, registered>>
counters    == <<jobs, crashes>>
vars == <<fileVars, pc, balance, local, historyVars, counters>>

-----------------------------------------------------------------------------
(* What a double of x units becomes when printed to a file (up to ten times *)
(* SigLimit: a further digit is lost above that).                            *)
Fmt(x) == IF x < SigLimit THEN x ELSE 10 * ((x + 5) \div 10)

FmtCash(c) == [initial |-> Fmt(c.initial), in |-> Fmt(c.in),
               out |-> Fmt(c.out), finl |-> Fmt(c.finl)]

FmtGoods(g) ==
    [i \in Items |-> [g[i] EXCEPT !.cost = Fmt(@), !.price = Fmt(@)]]

(* Mutants of the next two: the final cash, or the sign of cash out, is      *)
(* forgotten; cash in is forgotten.                                          *)
CashInOnly(c, x)   == [c EXCEPT !.in = @ + x]
CashFinlOnly(c, x) == [c EXCEPT !.finl = @ + x]
CashOutMinus(c, x) == [c EXCEPT !.out = @ - x, !.finl = @ - x]

(* Cash::operator + and -. *)
CashIn(c, x)  == [c EXCEPT !.in = @ + x, !.finl = @ + x]
CashOut(c, x) == [c EXCEPT !.out = @ + x, !.finl = @ - x]

(* Employees and the administrator pay 80%. *)
Discounted(f, x) == IF f = CustomerFile THEN x ELSE (4 * x) \div 5

NoOrder   == [i \in Items |-> 0]
NoRecords == [u \in Users |-> NoRecord]
Home(s)   == FileOf[user[s]]    \* the fileName home() passes to buy

(* The operation, its copies of the files, the quantities ordered, an index, *)
(* the cost of the order, and whose record is edited.  They go out of scope  *)
(* when the session is back in home().                                       *)
NoLocal == [job |-> "buy", goods |-> goods0, cash |-> cash0, order |-> NoOrder,
            k |-> 1, ordercost |-> 0, target |-> CHOOSE u \in Users : TRUE]

Init ==
    /\ goodsFile = goods0 /\ cashFile = cash0 /\ tmp = Missing
    /\ acct = [f \in Files |->
                 [u \in Users |-> IF FileOf[u] = f THEN balance0[u] ELSE NoRecord]]
    /\ pc = [s \in Sessions |-> "out"]
    /\ balance = [s \in Sessions |-> NoBalance]
    /\ local = [s \in Sessions |-> NoLocal]
    /\ bill = [u \in Users |-> 0]
    /\ listed = [i \in Items |-> goods0[i].price] /\ banned = {} /\ registered = {}
    /\ jobs = 0 /\ crashes = 0

-----------------------------------------------------------------------------
Goto(s, from, to) == pc[s] = from /\ pc' = [pc EXCEPT ![s] = to]

(* A step that changes no local variable. *)
Pass(s, from, to) ==
    /\ Goto(s, from, to)
    /\ local' = IF to = "home" THEN [local EXCEPT ![s] = NoLocal] ELSE local

(* A session takes up an operation.  In a serial run the others are idle.   *)
Begin(s, to) ==
    /\ Serial => \A r \in Sessions : pc[r] \in {"out", "home"}
    /\ Goto(s, "home", to)

(* The process ends, for whatever reason, and is started again: the files   *)
(* are what they are, the sessions start anew.                               *)
Restart ==
    /\ crashes < MaxCrashes /\ crashes' = crashes + 1
    /\ pc' = [s \in Sessions |-> "out"]
    /\ balance' = [s \in Sessions |-> NoBalance]
    /\ local' = [s \in Sessions |-> NoLocal]
    /\ UNCHANGED <<fileVars, historyVars, jobs>>

(* A handler on some connection lets an exception out. *)
Killed == (\E s \in Sessions : pc[s] # "out") /\ Restart

(* login finds the user and home() starts with a new Person. *)
Login(s) ==
    /\ Goto(s, "out", "home")
    /\ acct[Home(s)] # Missing /\ acct[Home(s)][user[s]] # NoRecord
    /\ UNCHANGED <<fileVars, balance, local, historyVars, counters>>

(* A file with a record of u appended.  Of two records of one name it is the *)
(* first that is read, and all that are rewritten.                           *)
WithRecord(f, u) ==
    [IF acct[f] = Missing THEN NoRecords ELSE acct[f]
        EXCEPT ![u] = IF @ = NoRecord THEN 0 ELSE @]

(* transfer_to_file appends the record, in a new file if there is none.      *)
SignUp(s) ==
    LET u == user[s] IN
    /\ pc[s] = "out" /\ u \in Signers
    /\ Serial => \A r \in Sessions : pc[r] \in {"out", "home"}
    /\ acct' = [acct EXCEPT ![Home(s)] = WithRecord(Home(s), u)]
    /\ registered' = registered \cup {u} /\ banned' = banned \ {u}
    /\ UNCHANGED <<goodsFile, cashFile, tmp, pc, balance, local, bill, listed, counters>>

(* A customer is back in start() with the same Customer, whose balance stays *)
(* until he goes back to the main menu; other persons are made anew.         *)
Logout(s) ==
    /\ Goto(s, "home", "out")
    /\ \/ balance' = [balance EXCEPT ![s] = NoBalance]
       \/ Home(s) = CustomerFile /\ UNCHANGED balance
    /\ UNCHANGED <<fileVars, local, historyVars, counters>>

-----------------------------------------------------------------------------
(* Mutant of InitGoods: the array of an earlier visit is used again. *)
InitGoodsStale(s) ==
    /\ Begin(s, "initBalance") /\ goodsFile # Empty
    /\ UNCHANGED <<fileVars, balance, local, historyVars, counters>>

(* buy reads the three files.  stoi of an empty file's "" is an exception.   *)
InitGoods(s) ==
    /\ Begin(s, "initBalance") /\ goodsFile # Empty
    /\ local' = [local EXCEPT ![s].goods = goodsFile]
    /\ UNCHANGED <<fileVars, balance, historyVars, counters>>

(* A balance read earlier is kept if the record is gone. *)
InitBalance(s) ==
    /\ Goto(s, "initBalance", "initCash") /\ acct[Home(s)] # Missing
    /\ balance' = [balance EXCEPT ![s] =
                     IF acct[Home(s)][user[s]] = NoRecord THEN @
                     ELSE acct[Home(s)][user[s]]]
    /\ UNCHANGED <<fileVars, local, historyVars, counters>>

(* buy returns without a word to the client, which waits for the menu while *)
(* home() waits for a choice.                                                *)
NoAccounts(s) ==
    /\ Pass(s, "initBalance", "stuck") /\ acct[Home(s)] = Missing
    /\ UNCHANGED <<fileVars, balance, historyVars, counters>>

InitCash(s) ==
    /\ Goto(s, "initCash", "menu")
    /\ cashFile # Empty /\ balance[s] # NoBalance
    /\ local' = [local EXCEPT ![s].cash = cashFile]
    /\ UNCHANGED <<fileVars, balance, historyVars, counters>>

(* The reads of an empty string: by initialize_goods, by initialize_cash    *)
(* (also in the middle of an order), and of the balance for the menu.        *)
Throws(s) ==
    /\ \/ goodsFile = Empty /\ pc[s] = "home"
       \/ cashFile = Empty /\ pc[s] \in {"initCash", "readCash", "stock"}
       \/ balance[s] = NoBalance /\ pc[s] = "initCash"
    /\ Restart

(* Menu choice 1.  What is not in stock (in this copy) is refused. *)
Add(s, i, q) ==
    /\ pc[s] = "menu" /\ q <= local[s].goods[i].stock
    /\ local' = [local EXCEPT ![s].order[i] = q]
    /\ UNCHANGED <<fileVars, pc, balance, historyVars, counters>>

(* Menu choice 2. *)
Confirm(s) ==
    /\ Pass(s, "menu", "bill") /\ jobs < MaxJobs /\ jobs' = jobs + 1
    /\ UNCHANGED <<fileVars, balance, historyVars, crashes>>

Bill(s) ==
    LET k == local[s].k IN
    /\ pc[s] = "bill" /\ k \in Items
    /\ local' = [local EXCEPT ![s].k = k + 1, ![s].ordercost =
          @ + Discounted(Home(s), local[s].goods[k].price * local[s].order[k])]
    /\ UNCHANGED <<fileVars, pc, balance, historyVars, counters>>

(* The menu again, all orders cleared. *)
Forget(s) == [local EXCEPT ![s].order = NoOrder, ![s].k = 1, ![s].ordercost = 0]

(* NO-ORDER, or the cost exceeds the balance. *)
Refuse(s) ==
    /\ Goto(s, "bill", "menu") /\ local[s].k > N
    /\ local[s].order = NoOrder \/ local[s].ordercost > balance[s]
    /\ local' = Forget(s)
    /\ UNCHANGED <<fileVars, balance, historyVars, counters>>

(* Mutants of Pay: the balance is not checked; update_cash is not called.    *)
PayUnchecked(s) ==
    LET cost == local[s].ordercost IN
    /\ Goto(s, "bill", "openCash") /\ local[s].k > N
    /\ local[s].order # NoOrder
    /\ balance' = [balance EXCEPT ![s] = @ - cost]
    /\ local' = [local EXCEPT ![s].cash = CashIn(@, cost), ![s].k = 1]
    /\ bill' = [bill EXCEPT ![user[s]] = @ + cost]
    /\ UNCHANGED <<fileVars, listed, banned, registered, counters>>

PayUnsaved(s) ==
    LET cost == local[s].ordercost IN
    /\ Goto(s, "bill", "items") /\ local[s].k > N
    /\ local[s].order # NoOrder /\ cost <= balance[s]
    /\ balance' = [balance EXCEPT ![s] = @ - cost]
    /\ local' = [local EXCEPT ![s].cash = CashIn(@, cost), ![s].k = 1]
    /\ bill' = [bill EXCEPT ![user[s]] = @ + cost]
    /\ UNCHANGED <<fileVars, listed, banned, registered, counters>>

Pay(s) ==
    LET cost == local[s].ordercost IN
    /\ Goto(s, "bill", "openCash") /\ local[s].k > N
    /\ local[s].order # NoOrder /\ cost <= balance[s]
    /\ balance' = [balance EXCEPT ![s] = @ - cost]
    /\ local' = [local EXCEPT ![s].cash = CashIn(@, cost), ![s].k = 1]
    /\ bill' = [bill EXCEPT ![user[s]] = @ + cost]
    /\ UNCHANGED <<fileVars, listed, banned, registered, counters>>

(* update_cash: the file is truncated, then filled. *)
OpenCash(s) ==
    /\ Pass(s, "openCash", "fillCash")
    /\ cashFile' = Empty
    /\ UNCHANGED <<goodsFile, accountVars, balance, historyVars, counters>>

(* Mutant of FillCash: the stream is not closed, the text not yet on file.   *)
FillCashUnflushed(s) ==
    /\ Pass(s, "fillCash", IF local[s].job = "buy" THEN "readCash" ELSE "home")
    /\ UNCHANGED <<fileVars, balance, historyVars, counters>>

FillCash(s) ==
    /\ Pass(s, "fillCash", IF local[s].job = "buy" THEN "readCash" ELSE "home")
    /\ cashFile' = FmtCash(local[s].cash)
    /\ UNCHANGED <<goodsFile, accountVars, balance, historyVars, counters>>

ReadCash(s) ==
    /\ Goto(s, "readCash", "items") /\ cashFile # Empty
    /\ local' = [local EXCEPT ![s].cash = cashFile]
    /\ UNCHANGED <<fileVars, balance, historyVars, counters>>

(* The loop over the goods bought, with the automatic reorder. *)
Left(s)  == local[s].goods[local[s].k].stock - local[s].order[local[s].k]
Price(s) == local[s].goods[local[s].k].cost * local[s].goods[local[s].k].amount
Reorder(s) ==
    /\ local[s].order[local[s].k] > 0
    /\ Left(s) <= local[s].goods[local[s].k].level
    /\ Price(s) <= local[s].cash.finl

Sell(s) ==
    LET k == local[s].k IN
    /\ pc[s] = "items" /\ k \in Items /\ ~ Reorder(s)
    /\ local' = [local EXCEPT ![s].goods[k].stock = Left(s), ![s].k = k + 1]
    /\ UNCHANGED <<fileVars, pc, balance, historyVars, counters>>

(* Mutant of SellAndReorder: what is ordered is not paid. *)
ReorderUnpaid(s) ==
    LET k == local[s].k IN
    /\ Goto(s, "items", "openCash") /\ k \in Items /\ Reorder(s)
    /\ local' = [local EXCEPT
          ![s].goods[k].stock = Left(s) + local[s].goods[k].amount, ![s].k = k + 1]
    /\ UNCHANGED <<fileVars, balance, historyVars, counters>>

SellAndReorder(s) ==
    LET k == local[s].k IN
    /\ Goto(s, "items", "openCash") /\ k \in Items /\ Reorder(s)
    /\ local' = [local EXCEPT
          ![s].goods[k].stock = Left(s) + local[s].goods[k].amount,
          ![s].cash = CashOut(@, Price(s)), ![s].k = k + 1]
    /\ UNCHANGED <<fileVars, balance, historyVars, counters>>

-----------------------------------------------------------------------------
(* Rewriting an accounts file: its content, with one record changed, goes to *)
(* tmp.txt, which ofstream creates even if there is no file to copy.         *)
Changed(f, u, x) == [acct[f] EXCEPT ![u] = IF @ = NoRecord THEN @ ELSE x]

(* Mutants of CopyBalance: the record is copied as it was; nothing of the    *)
(* copy has reached tmp.txt.                                                 *)
CopyOldBalance(s) ==
    /\ Goto(s, "items", "remove") /\ local[s].k > N /\ acct[Home(s)] # Missing
    /\ tmp' = acct[Home(s)]
    /\ local' = [local EXCEPT ![s].target = user[s]]
    /\ UNCHANGED <<goodsFile, cashFile, acct, balance, historyVars, counters>>

CopyUnflushed(s) ==
    /\ Goto(s, "items", "remove") /\ local[s].k > N /\ acct[Home(s)] # Missing
    /\ tmp' = NoRecords
    /\ local' = [local EXCEPT ![s].target = user[s]]
    /\ UNCHANGED <<goodsFile, cashFile, acct, balance, historyVars, counters>>

CopyBalance(s) ==
    /\ Goto(s, "items", "remove") /\ local[s].k > N /\ acct[Home(s)] # Missing
    /\ tmp' = Changed(Home(s), user[s], Fmt(balance[s]))
    /\ local' = [local EXCEPT ![s].target = user[s]]
    /\ UNCHANGED <<goodsFile, cashFile, acct, balance, historyVars, counters>>

(* update_balance fails, and buy goes on. *)
CopyFails(s) ==
    /\ Pass(s, "items", "openGoods") /\ local[s].k > N /\ acct[Home(s)] = Missing
    /\ tmp' = NoRecords
    /\ UNCHANGED <<goodsFile, cashFile, acct, balance, historyVars, counters>>

(* Mutant of Remove: the old file is left, and rename cannot replace it.     *)
RemoveDropped(s) ==
    /\ Pass(s, "remove", "rename")
    /\ UNCHANGED <<fileVars, balance, historyVars, counters>>

Remove(s) ==
    /\ Pass(s, "remove", "rename")
    /\ acct' = [acct EXCEPT ![FileOf[local[s].target]] = Missing]
    /\ UNCHANGED <<goodsFile, cashFile, tmp, balance, historyVars, counters>>

(* Mutant of Rename: its arguments are swapped, so that it fails. *)
RenameSwapped(s) ==
    /\ Pass(s, "rename", IF local[s].job = "buy" THEN "openGoods" ELSE "home")
    /\ UNCHANGED <<fileVars, balance, historyVars, counters>>

(* rename needs the old name and, on Windows, that the new one is free. *)
Rename(s) ==
    LET f == FileOf[local[s].target] IN
    /\ Pass(s, "rename", IF local[s].job = "buy" THEN "openGoods" ELSE "home")
    /\ IF tmp # Missing /\ acct[f] = Missing
       THEN acct' = [acct EXCEPT ![f] = tmp] /\ tmp' = Missing
       ELSE UNCHANGED accountVars
    /\ banned' = IF local[s].job = "delete" THEN banned \cup {local[s].target} ELSE banned
    /\ registered' = registered \ banned'
    /\ UNCHANGED <<goodsFile, cashFile, balance, bill, listed, counters>>

(* update_goods, after which an order is forgotten. *)
OpenGoods(s) ==
    /\ Pass(s, "openGoods", "fillGoods")
    /\ goodsFile' = Empty
    /\ UNCHANGED <<cashFile, accountVars, balance, historyVars, counters>>

FillGoods(s) ==
    /\ pc[s] = "fillGoods"
    /\ goodsFile' = FmtGoods(local[s].goods)
    /\ \/ /\ local[s].job = "buy" /\ Goto(s, "fillGoods", "menu")
          /\ local' = Forget(s)
          /\ UNCHANGED listed
       \/ /\ local[s].job = "order" /\ Pass(s, "fillGoods", "openCash")
          /\ UNCHANGED listed
       \/ /\ local[s].job = "modify" /\ Pass(s, "fillGoods", "home")
          /\ listed' = [listed EXCEPT ![local[s].k] = goodsFile'[local[s].k].price]
    /\ UNCHANGED <<cashFile, accountVars, balance, bill, banned, registered, counters>>

(* Menu choice 3. *)
Back(s) ==
    /\ Pass(s, "menu", "home")
    /\ UNCHANGED <<fileVars, balance, historyVars, counters>>

-----------------------------------------------------------------------------
(* The administrator's operations, counted. *)
AdminJob(s, j) ==
    /\ s \in Admins /\ j \in AdminJobs
    /\ jobs < MaxJobs /\ jobs' = jobs + 1

(* Mutant of Edit: the administrator's own file is the one copied. *)
EditWrongFile(s, j, u, x) ==
    /\ AdminJob(s, j) /\ Begin(s, "remove") /\ acct[FileOf[u]] # Missing
    /\ tmp' = Changed(Home(s), u, x)
    /\ local' = [local EXCEPT ![s].job = j, ![s].target = u]
    /\ UNCHANGED <<goodsFile, cashFile, acct, balance, historyVars, crashes>>

(* Choices 11 to 14: the record of u loses its lines, or has its balance     *)
(* changed.                                                                  *)
Edit(s, j, u, x) ==
    /\ AdminJob(s, j) /\ Begin(s, "remove") /\ acct[FileOf[u]] # Missing
    /\ tmp' = Changed(FileOf[u], u, x)
    /\ local' = [local EXCEPT ![s].job = j, ![s].target = u]
    /\ UNCHANGED <<goodsFile, cashFile, acct, balance, historyVars, crashes>>

Delete(s, u) == Edit(s, "delete", u, NoRecord)

SetBalance(s, u) == \E b \in NewBalances : Edit(s, "balance", u, b)

(* Without the file Delete waits in getch for a key, and balance returns     *)
(* without an answer.                                                        *)
EditFails(s, j, u) ==
    /\ AdminJob(s, j) /\ Begin(s, IF j = "delete" THEN "key" ELSE "stuck")
    /\ acct[FileOf[u]] = Missing
    /\ tmp' = NoRecords
    /\ UNCHANGED <<goodsFile, cashFile, acct, balance, local, historyVars, crashes>>

(* The server's operator presses a key. *)
PressKey(s) ==
    /\ Pass(s, "key", "home")
    /\ UNCHANGED <<fileVars, balance, historyVars, counters>>

(* Choice 7: the goods are read, then shown, and only then is the client     *)
(* asked what to do.                                                         *)
ReadStock(s) ==
    /\ s \in Admins /\ Begin(s, "stock") /\ goodsFile # Empty
    /\ local' = [local EXCEPT ![s].goods = goodsFile]
    /\ UNCHANGED <<fileVars, balance, historyVars, counters>>

LeaveStock(s) ==
    /\ Pass(s, "stock", "home")
    /\ UNCHANGED <<fileVars, balance, historyVars, counters>>

(* An order by hand: the cash is read when the name is known, the quantity  *)
(* comes later; goods.txt is rewritten before cash.txt.                      *)
NameOrdered(s, i) ==
    /\ AdminJob(s, "order") /\ Goto(s, "stock", "quantity") /\ cashFile # Empty
    /\ local' = [local EXCEPT ![s].job = "order", ![s].cash = cashFile, ![s].k = i]
    /\ UNCHANGED <<fileVars, balance, historyVars, crashes>>

Order(s, q) ==
    LET price == q * local[s].goods[local[s].k].cost IN
    /\ Goto(s, "quantity", "openGoods") /\ price <= local[s].cash.finl
    /\ local' = [local EXCEPT ![s].goods[local[s].k].stock = @ + q,
                              ![s].cash = CashOut(@, price)]
    /\ UNCHANGED <<fileVars, balance, historyVars, counters>>

OrderRefused(s, q) ==
    /\ Pass(s, "quantity", "home")
    /\ q * local[s].goods[local[s].k].cost > local[s].cash.finl
    /\ UNCHANGED <<fileVars, balance, historyVars, counters>>

(* The price, reorder level and reorder amount of one of the goods. *)
Modify(s, i, terms) ==
    /\ AdminJob(s, "modify") /\ Goto(s, "stock", "openGoods")
    /\ local' = [local EXCEPT ![s].job = "modify", ![s].k = i, ![s].goods[i] =
          [@ EXCEPT !.price = terms.price, !.level = terms.level,
                    !.amount = terms.amount]]
    /\ UNCHANGED <<fileVars, balance, historyVars, crashes>>

-----------------------------------------------------------------------------
(* Steps a session takes without waiting for its client. *)
Proceed(s) ==
    \/ InitBalance(s) \/ NoAccounts(s) \/ InitCash(s)
    \/ Bill(s) \/ Refuse(s) \/ Pay(s)
    \/ OpenCash(s) \/ FillCash(s) \/ ReadCash(s)
    \/ Sell(s) \/ SellAndReorder(s)
    \/ CopyBalance(s) \/ CopyFails(s) \/ Remove(s) \/ Rename(s)
    \/ OpenGoods(s) \/ FillGoods(s)

(* Steps the client asks for, or the server's operator. *)
Request(s) ==
    \/ Login(s) \/ SignUp(s) \/ Logout(s) \/ InitGoods(s)
    \/ \E i \in Items, q \in 1 .. MaxQuantity : Add(s, i, q)
    \/ Confirm(s) \/ Back(s)
    \/ \E u \in Managed : Delete(s, u) \/ SetBalance(s, u)
    \/ \E u \in Managed, j \in {"delete", "balance"} : EditFails(s, j, u)
    \/ PressKey(s)
    \/ ReadStock(s) \/ LeaveStock(s)
    \/ \E i \in Items : NameOrdered(s, i)
    \/ \E i \in Items, terms \in NewTerms : Modify(s, i, terms)
    \/ \E q \in 1 .. MaxQuantity : Order(s, q) \/ OrderRefused(s, q)

Next ==
    \/ \E s \in Sessions : Proceed(s) \/ Request(s) \/ Throws(s)
    \/ Killed

Spec == Init /\ [][Next]_vars

(* Every thread that need not wait for its client is scheduled. *)
LiveSpec == Spec /\ \A s \in Sessions : WF_vars(Proceed(s))

-----------------------------------------------------------------------------
(* Every file and every copy of one holds what the program can parse, or is *)
(* recognisably truncated or missing.                                        *)
TypeOK ==
    /\ goodsFile \in Stock \cup {Empty} /\ cashFile \in CashRecord \cup {Empty}
    /\ acct \in [Files -> Accounts \cup {Missing}] /\ tmp \in Accounts \cup {Missing}
    /\ pc \in [Sessions -> {"out", "home", "initBalance", "initCash", "menu", "bill",
                  "openCash", "fillCash", "readCash", "items", "remove", "rename",
                  "openGoods", "fillGoods", "stock", "quantity", "stuck", "key"}]
    /\ balance \in [Sessions -> Int \cup {NoBalance}]
    /\ local \in [Sessions -> LocalRecord]
    /\ bill \in [Users -> Nat] /\ listed \in [Items -> Nat] 
    /\ banned \subseteq Users /\ registered \subseteq Users
    /\ jobs \in 0 .. MaxJobs /\ crashes \in 0 .. MaxCrashes

(* However the sessions interleave, and wherever the process ends, no stock, *)
(* no balance and no final cash is below zero, on file or in a session: the  *)
(* checks of Person.cpp:374, 424 and 461 and Admin.cpp:363 are made against  *)
(* the very copies that are then decreased and written.                      *)
NonNegative ==
    /\ goodsFile # Empty => \A i \in Items : goodsFile[i].stock >= 0
    /\ cashFile # Empty => cashFile.finl >= 0
    /\ \A f \in Files : acct[f] # Missing =>
          \A u \in Users : acct[f][u] # NoRecord => acct[f][u] >= 0
    /\ \A s \in Sessions :
          /\ \A i \in Items : local[s].goods[i].stock >= 0
          /\ local[s].cash.finl >= 0
          /\ balance[s] # NoBalance => balance[s] >= 0

(* cash.txt adds up (initial + in = final + out) in every interleaving and   *)
(* after every crash, while the sums are below what six digits can show      *)
(* (Cash::operator +, -, and the formatting of update_cash).                 *)
AddsUp(c) == c.initial + c.in < SigLimit => c.finl + c.out = c.initial + c.in

BooksBalance == cashFile # Empty => AddsUp(cashFile)

(* No session is between the payment of an order and its last file, nor     *)
(* rewriting a file for the administrator.                                   *)
Quiet == \A s \in Sessions :
    pc[s] \notin {"openCash", "fillCash", "readCash", "items", "remove", "rename",
                  "openGoods", "fillGoods"}

(* Every order paid for has reached the shop's cash: "Increasing cash",      *)
(* Person.cpp:448.                                                           *)
SalesReachCash ==
    Quiet => /\ cashFile # Empty
             /\ cashFile.in = cash0.in + MapThenSumSet(LAMBDA u : bill[u], Users)

(* Nobody pays more than the balance he started with: an order whose cost    *)
(* exceeds the balance is refused (Person.cpp:424).  For runs in which the   *)
(* administrator sets no balance.  (Who is deleted may still have the balance*)
(* in an open session, and who signs up starts anew.)                        *)
SpendsWithinBalance ==
    \A u \in Users \ (banned \cup registered) : bill[u] <= balance0[u]

(* The price on file is the one the administrator set last (Admin.cpp:406).  *)
PriceSticks ==
    Quiet => goodsFile # Empty /\ \A i \in Items : goodsFile[i].price = listed[i]

(* Once Delete has replaced the file, the deleted record stays away until    *)
(* its owner signs up again (Admin.cpp:233-245).                             *)
BanSticks ==
    \A f \in Files, u \in banned : acct[f] # Missing => acct[f][u] = NoRecord

(* Whoever was told that an account was made has one, until it is deleted:   *)
(* the orders of others, who rewrite the file, keep it (Person.cpp:35, 292). *)
SignUpSticks ==
    Quiet => \A u \in registered :
                acct[FileOf[u]] # Missing /\ acct[FileOf[u]][u] # NoRecord

(* When nothing is being written every accounts file exists and has only     *)
(* records of its own (Person.cpp:298-299, Admin.cpp:244-245).               *)
AccountsSurvive ==
    Quiet => \A f \in Files :
        acct[f] # Missing /\ \A u \in Users : acct[f][u] # NoRecord => FileOf[u] = f

(* A record is safe in its file or, if that is gone, in tmp.txt.  A file     *)
(* that is gone is an orphan's when no session is about to rename tmp.txt to *)
(* it: the process ended in between, and the server, started again, does not *)
(* look for tmp.txt.                                                         *)
Safe(u) ==
    IF acct[FileOf[u]] # Missing THEN acct[FileOf[u]][u] # NoRecord
    ELSE tmp # Missing /\ tmp[u] # NoRecord

Orphan(u) ==
    /\ acct[FileOf[u]] = Missing
    /\ \A s \in Sessions : pc[s] = "rename" => FileOf[local[s].target] # FileOf[u]

Deleting(u) ==
    \E s \in Sessions : pc[s] = "remove" /\ local[s].job = "delete" /\ local[s].target = u

(* No step of an order, of the administrator's work on any of the accounts   *)
(* files, of a sign-up, and no end of the process takes a record away: it is *)
(* lost only by being deleted, or because its file has been gone since a     *)
(* crash when tmp.txt is overwritten or the file begun anew (update_balance, *)
(* Admin::balance and Delete copy to tmp.txt before they remove).            *)
OnlyOrphansAreLost ==
    [][\A u \in Users : Safe(u) =>
          Safe(u)' \/ Deleting(u) \/ (Orphan(u) /\ ~ UNCHANGED accountVars)]_vars

(* Those whose balance only their own orders change: everybody but those     *)
(* whose account the administrator sets or deletes and those yet to sign up. *)
Unedited == IF AdminJobs \cap {"balance", "delete"} = {}
              THEN Users \ Signers
              ELSE Users \ (Signers \cup Managed)

(* Wherever the process ends, what they have been charged is in the cash:    *)
(* buy writes cash.txt before the accounts file.                             *)
Credited ==
    (cashFile # Empty /\ \A f \in Files : acct[f] # Missing) =>
        MapThenSumSet(LAMBDA u : balance0[u] - acct[FileOf[u]][u], Unedited)
            <= cashFile.in - cash0.in

(* Wherever the process ends, goods that have left goods.txt are paid for    *)
(* (at 80% or more of their price) and goods that were added have been paid: *)
(* buy writes goods.txt last.  For runs in which the administrator neither   *)
(* orders nor modifies.                                                      *)
GoodsPaid ==
    (cashFile # Empty /\ goodsFile # Empty) =>
        LET Gone(i) == goods0[i].stock - goodsFile[i].stock IN
        /\ 4 * MapThenSumSet(LAMBDA i : goods0[i].price * Gone(i), Items)
              <= 5 * (cashFile.in - cash0.in)
        /\ MapThenSumSet(LAMBDA i : - goods0[i].cost * Gone(i), Items)
              <= cashFile.out - cash0.out

(* A confirmed order is answered: the session comes back to the menu.        *)
Answered == \A s \in Sessions : pc[s] = "bill" ~> pc[s] = "menu"

(* An accounts file that is being replaced comes back. *)
AccountsReturn == \A f \in Files : acct[f] = Missing ~> acct[f] # Missing
=============================================================================
