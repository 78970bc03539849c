-------------------------------- MODULE Session --------------------------------
(***************************************************************************)
(* The two ends of one connection: the menus of the client program and the  *)
(* functions of the server that follow them (PROGRAM, login, start, home,   *)
(* buy, complain, search, ...).                                              *)
(*                                                                          *)
(* Nothing on the wire says what a message is for.  Each end calls Send and *)
(* Rec in the order of its own program, so both must be in the same function*)
(* of the same class all the time.  A place is a point where an end waits:  *)
(* the client for its user or for a message, the server for a message (or,  *)
(* in getch, for a key on its own console).  A place is named after the     *)
(* function, and what is expected there.                                     *)
(*                                                                          *)
(* An end does what it does between two places in one step; what a recv     *)
(* finds of messages sent one after the other is the choice of Taken.  What *)
(* the server looks up in its files only shows as a choice of its reply.    *)
(***************************************************************************)
EXTENDS Registration

CONSTANTS
    Typed,        \* the forms a user may fill in
    Today,        \* the client's clock
    Amounts,      \* numbers typed in where no menu choice is asked for
    Together,     \* bound: messages that one recv may find
    MaxUnread,    \* bound: messages on their way before an end waits to send
    Mishaps,      \* which of the mishaps below may happen
    MaxAdrift,    \* bound: what a user does when the ends are no longer in step
    Text, Nothing \* a message that is no number; an empty one

AllMishaps == {"lost", "missing", "exit", "left", "killed", "empty", "unsaved", "halfway"}
Roles      == {"admin", "employee", "customer"}
Words      == {"", "Correct", "Incorrect", "true", "false", "TRUE", "FALSE", "FAILED",
               "ENOUGH", "NOT-ENOUGH", "NO-ORDER", "Your", "Cost", "text"}
Anything   == Int \cup {Text, Nothing}

ASSUME TypedAssumption   == Typed \subseteq Form /\ Today \in Date
ASSUME AmountsAssumption == Amounts \subseteq 1 .. 10
ASSUME BoundsAssumption  == Together \in Nat \ {0} /\ {MaxUnread, MaxAdrift} \subseteq Nat
ASSUME MishapsAssumption == Mishaps \subseteq AllMishaps
ASSUME MarkersAssumption == Text \notin Int /\ Nothing \notin Int /\ Text # Nothing

(* Where the client waits for its user, and where for a message. *)
Menus  == {"main", "start", "input", "login", "home", "buy", "complain", "search", "stock",
           "stock.amount", "stock.terms"}
Awaits == {"input.sent", "employee.sent", "login.sent", "report", "buy.menu", "buy.item",
           "buy.bill", "complain.write", "complain.update", "complain.view",
           "complain.see", "complain.answer", "search.key", "search.profile", "balance",
           "stock.report", "stock.order", "stock.modify", "stock.placed"}

(* Where the server waits for a message: first those where it is given to   *)
(* stoi or stod.                                                             *)
Numbers == {"main", "start", "home", "buy", "buy.quantity", "complain", "search", "stock",
            "stock.quantity", "stock.price", "stock.level", "stock.amount"}
Strings == {"input", "login", "login.password", "buy.item", "buy.unread",
            "complain.write", "complain.update", "complain.see", "complain.answer",
            "complain.response", "search.key", "delete", "balance", "balance.value",
            "stock.order", "stock.modify"}
(* ... and where for a key. *)
Keys    == {"start.key", "login.key", "home.key", "complain.key", "search.pause"}
(* Where it has replied and has still to do what it said. *)
Works   == {"stock.placing"}

(* What a client reports as done when it is told so. *)
Claims  == {"account", "order", "complaint", "balance", "stock"}

VARIABLES
    client, server,      \* the place of each end; "over", "gone", "down" at the end
    cRole, sRole,        \* the class of the person object at each end
    toServer, toClient,  \* what has been sent and not received
    fields,              \* the server's Person: what input() has received
    filed,               \* the record that was appended last, or none
    owed,                \* history: per claim, 1 if the server did it and that is not yet
                         \* reported, -1 if it was reported and never done
    mishaps,             \* history: what has happened
    adrift               \* history: user's steps since the ends fell out of step

ends == <<client, server, cRole, sRole>>
wire == <<toServer, toClient>>
data == <<fields, filed, owed>>
past == <<mishaps, adrift>>
vars == <<ends, wire, data, past>>

Init ==
    /\ client = "main" /\ server = "main"
    /\ cRole = "customer" /\ sRole = "customer"
    /\ toServer = <<>> /\ toClient = <<>>
    /\ fields = <<>> /\ filed = <<>> /\ owed = [c \in Claims |-> 0]
    /\ mishaps = {} /\ adrift = 0

-----------------------------------------------------------------------------
(* Send and Rec.                                                             *)

Least(a, b) == IF a <= b THEN a ELSE b

(* recv returns all that has arrived.  std::string(buffer, 0, n) ends at the *)
(* first NUL, so that what is behind the first message is lost.              *)
Taken(queue) ==
    {n \in 1 .. Least(Together, Len(queue)) : n > 1 => "lost" \in Mishaps}
After(queue, n) == SubSeq(queue, n + 1, Len(queue))
LostBy(n) == IF n > 1 THEN {"lost"} ELSE {}

(* A mishap after which an end may take a message for another one. *)
Steady == mishaps \cap {"lost", "exit", "halfway"} = {}
Drifts == IF Steady THEN UNCHANGED adrift ELSE adrift < MaxAdrift /\ adrift' = adrift + 1

(* The user chooses, and the client sends what it has to say. *)
AsksAs(from, says, to, role) ==
    /\ client = from /\ client' = to /\ cRole' = role
    /\ Len(toServer) <= MaxUnread
    /\ toServer' = IF server = "down" THEN <<>> ELSE toServer \o says
    /\ Drifts
    /\ UNCHANGED <<toClient, server, sRole, data, mishaps>>

Asks(from, says, to) == AsksAs(from, says, to, cRole)

(* The client receives one of the words.  When the server has gone recv      *)
(* returns nothing.                                                          *)
Reads(from, words, to) ==
    /\ client = from /\ client' = to
    /\ \/ /\ toClient # <<>> /\ Head(toClient) \in words
          /\ \E n \in Taken(toClient) :
                /\ toClient' = After(toClient, n)
                /\ mishaps' = mishaps \cup LostBy(n)
       \/ /\ toClient = <<>> /\ server = "down" /\ "" \in words
          /\ UNCHANGED <<toClient, mishaps>>
    /\ UNCHANGED <<toServer, server, sRole, cRole, fields, filed, adrift>>

Told(from, words, to) == Reads(from, words, to) /\ UNCHANGED owed

(* ... and says on its console that something has been done. *)
Reports(from, words, to, claim) ==
    Reads(from, words, to) /\ owed' = [owed EXCEPT ![claim] = IF @ = 1 THEN 0 ELSE -1]

(* The client program has ended. *)
Closed == client \in {"over", "gone"}

(* What the server's Rec finds: nothing, if the client has gone. *)
Heard == IF toServer = <<>> THEN Nothing ELSE Head(toServer)

Receives(from, what, more) ==
    /\ server = from /\ Heard \in what
    /\ \/ /\ toServer # <<>>
          /\ \E n \in Taken(toServer) :
                /\ toServer' = After(toServer, n)
                /\ mishaps' = mishaps \cup LostBy(n) \cup more
       \/ /\ toServer = <<>> /\ Closed
          /\ mishaps' = mishaps \cup more
          /\ UNCHANGED toServer
    /\ UNCHANGED <<client, cRole, adrift>>

Hears(from, what) == Receives(from, what, {})

(* The accounts file cannot be opened: another session is replacing it. *)
Misses(from, what) == "missing" \in Mishaps /\ Receives(from, what, {"missing"})

(* A file or a record is read that another session has emptied or deleted:    *)
(* the server may have sent something, and stod of nothing ends the process.  *)
Breaks(from, what, says) ==
    /\ "empty" \in Mishaps
    /\ server = from /\ Heard \in what /\ (toServer # <<>> \/ Closed)
    /\ Len(toClient) <= MaxUnread
    /\ toClient' = IF Closed THEN <<>> ELSE toClient \o says
    /\ server' = "down" /\ toServer' = <<>>
    /\ mishaps' = mishaps \cup {"empty"}
    /\ UNCHANGED <<client, cRole, sRole, data, adrift>>

(* A file cannot be written, which nobody is told; or cannot be opened in the *)
(* middle of a function, which returns while the client goes on with it.      *)
FailsToSave(from, what) == "unsaved" \in Mishaps /\ Receives(from, what, {"unsaved"})
GivesUp(from, what)     == "halfway" \in Mishaps /\ Receives(from, what, {"halfway"})

(* The server replies and goes on to its next Rec. *)
Moves(says, to) ==
    /\ Len(toClient) <= MaxUnread
    /\ toClient' = IF Closed THEN <<>> ELSE toClient \o says
    /\ server' = to

Answers(says, to) == Moves(says, to) /\ UNCHANGED owed

Does(says, to, claim) ==
    Moves(says, to) /\ owed' = [owed EXCEPT ![claim] = 1]

-----------------------------------------------------------------------------
(* The client program.                                                       *)

(* main: the person object is made anew. *)
MainMenu ==
    \/ AsksAs("main", <<1>>, "login", "admin")
    \/ AsksAs("main", <<2>>, "login", "employee")
    \/ AsksAs("main", <<3>>, "start", "customer")
    \/ Asks("main", <<4>>, "over")

(* Customer::start *)
StartMenu ==
    \/ Asks("start", <<1>>, "input")
    \/ Asks("start", <<2>>, "login")
    \/ Asks("start", <<3>>, "main")

(* Mutants of Transfer: the password is not sent; the other one is sent too. *)
TransferShort(f) == <<Text, f.age, f.sex, f.DOB.month, f.DOB.day, f.DOB.year,
                      Text, Text, Text, Text>>
TransferBoth(f) == <<Text, f.age, f.sex, f.DOB.month, f.DOB.day, f.DOB.year,
                     Text, Text, Text, Text, Text, Text>>

(* transfer(); the char sex is sent by Send(int), as its code. *)
Transfer(f) == <<Text, f.age, f.sex, f.DOB.month, f.DOB.day, f.DOB.year,
                 Text, Text, Text, Text, Text>>

(* input(): a form all whose fields are accepted. *)
FillIn ==
    \E f \in Typed : Accepts(f, Today) /\ Asks("input", Transfer(f), "input.sent")

(* Customer::signup reports what input() was told. *)
SignedUp ==
    /\ cRole = "customer"
    /\ \/ Reports("input.sent", {"true"}, "start", "account")
       \/ Told("input.sent", Words \ {"true"}, "start")

(* Admin::add_employee does not look at it, and is told once more. *)
EmployeeAdded ==
    \/ cRole # "customer" /\ Told("input.sent", Words, "employee.sent")
    \/ Reports("employee.sent", {"TRUE"}, "home", "account")
    \/ Told("employee.sent", Words \ {"TRUE"}, "home")

Login ==
    \/ Asks("login", <<Text, Text>>, "login.sent")
    \/ Told("login.sent", {"Correct"}, "home")
    \/ Told("login.sent", Words \ {"Correct"}, "login")

(* What all three may choose at home. *)
BuyComplainProfile ==
    \/ Asks("home", <<1>>, "buy.menu")
    \/ Asks("home", <<2>>, "complain")
    \/ Asks("home", <<3>>, "report")

(* home() and then login() return. *)
CustomerHome ==
    /\ cRole = "customer"
    /\ BuyComplainProfile \/ Asks("home", <<4>>, "start")

EmployeeHome ==
    /\ cRole = "employee"
    /\ BuyComplainProfile \/ Asks("home", <<4>>, "main")

(* Choices 16 (close the server) and 17 go back. *)
AdminHome ==
    /\ cRole = "admin"
    /\ \/ BuyComplainProfile
       \/ Asks("home", <<4>>, "input")
       \/ \E n \in {5, 6, 8, 15} : Asks("home", <<n>>, "report")
       \/ Asks("home", <<7>>, "stock.report")
       \/ \E n \in {9, 10} : Asks("home", <<n>>, "search")
       \/ \E n \in {16, 17} : Asks("home", <<n>>, "main")

(* Admin::Delete says at once that the account is removed. *)
DeleteMenu ==
    /\ cRole = "admin"
    /\ \E n \in {11, 12} : Asks("home", <<n, Text>>, "home")

(* Admin::balance *)
BalanceMenu ==
    \/ /\ cRole = "admin"
       /\ \E n \in {13, 14}, a \in Amounts : Asks("home", <<n, Text, a>>, "balance")
    \/ Reports("balance", {"TRUE"}, "home", "balance")
    \/ Told("balance", Words \ {"TRUE"}, "home")

(* profile(), view(), accounts() and the activity. *)
ReadReport == Told("report", Words, "home")

(* Mutant of Refusals: the balance that does not suffice is not looked for. *)
RefusalsShort == {"NO-ORDER"}

(* Replies to a confirmed order that are not a bill. *)
Refusals == {"NO-ORDER", "Your"}

BuyMenu ==
    \/ Told("buy.menu", Words, "buy")
    \/ \E i, q \in Amounts : Asks("buy", <<1, i, q>>, "buy.item")
    \/ Told("buy.item", Words, "buy.menu")
    \/ Asks("buy", <<2>>, "buy.bill")
    \/ Told("buy.bill", Refusals, "buy.menu")
    \/ Reports("buy.bill", Words \ Refusals, "buy.menu", "order")
    \/ Asks("buy", <<3>>, "home")

(* Customer::complain *)
ComplaintMenu ==
    \/ /\ cRole = "customer"
       /\ \/ Asks("complain", <<1, Text>>, "complain.write")
          \/ Asks("complain", <<2>>, "complain.view")
          \/ Asks("complain", <<3, Text>>, "complain.update")
          \/ Asks("complain", <<4>>, "home")
    \/ \E p \in {"complain.write", "complain.update"} :
          \/ Reports(p, {"TRUE"}, "complain", "complaint")
          \/ Told(p, Words \ {"TRUE"}, "complain")
    \/ Told("complain.view", Words, "complain")

(* Employee::complain.  Choice 6, clear all, is not answered. *)
AnswerMenu ==
    \/ /\ cRole # "customer"
       /\ \/ \E n \in {1, 2} : Asks("complain", <<n, Text>>, "complain.see")
          \/ Asks("complain", <<3, Text, Text>>, "complain.answer")
          \/ \E n \in {4, 5} : Asks("complain", <<n>>, "complain.view")
          \/ Asks("complain", <<6>>, "complain")
          \/ Asks("complain", <<7>>, "home")
    \/ Told("complain.see", {"TRUE"}, "complain.view")
    \/ Told("complain.see", Words \ {"TRUE"}, "complain")
    \/ Reports("complain.answer", {"TRUE"}, "complain", "complaint")
    \/ Told("complain.answer", Words \ {"TRUE"}, "complain")

SearchMenu ==
    \/ \E n \in 1 .. 5 : Asks("search", <<n, Text>>, "search.key")
    \/ Asks("search", <<6>>, "home")
    \/ Told("search.key", {"TRUE"}, "search.profile")
    \/ Told("search.key", Words \ {"TRUE"}, "search")
    \/ Told("search.profile", Words, "search")

(* Choice 3 of the stock menu leaves it; nothing is sent. *)
LeaveStock ==
    /\ "exit" \in Mishaps
    /\ client = "stock" /\ client' = "home"
    /\ mishaps' = mishaps \cup {"exit"} /\ Drifts
    /\ UNCHANGED <<server, cRole, sRole, wire, data>>

(* Admin::stock.  What is typed in to modify a good is not answered. *)
StockMenu ==
    \/ Told("stock.report", Words, "stock")
    \/ Asks("stock", <<1, Text>>, "stock.order")
    \/ Told("stock.order", {"FALSE"}, "home")
    \/ Told("stock.order", Words \ {"FALSE"}, "stock.amount")
    \/ \E a \in Amounts : Asks("stock.amount", <<a>>, "stock.placed")
    \/ Told("stock.placed", {"FALSE"}, "home")
    \/ Reports("stock.placed", Words \ {"FALSE"}, "home", "stock")
    \/ Asks("stock", <<2, Text>>, "stock.modify")
    \/ Told("stock.modify", {"FALSE"}, "home")
    \/ Told("stock.modify", Words \ {"FALSE"}, "stock.terms")
    \/ \E a \in Amounts : Asks("stock.terms", <<a, a, a>>, "home")

(* The user closes the client's window.  What has not been sent never is.    *)
Leave ==
    /\ "left" \in Mishaps
    /\ ~ Closed /\ client' = "gone"
    /\ \E n \in 0 .. Len(toServer) : toServer' = SubSeq(toServer, 1, n)
    /\ toClient' = <<>>
    /\ mishaps' = mishaps \cup {"left"}
    /\ UNCHANGED <<server, cRole, sRole, data, adrift>>

-----------------------------------------------------------------------------
(* The server.                                                               *)

Same == UNCHANGED <<sRole, fields, filed>>

PROGRAM ==
    /\ UNCHANGED data
    /\ \/ Hears("main", {1}) /\ Moves(<<>>, "login") /\ sRole' = "admin"
       \/ Hears("main", {2}) /\ Moves(<<>>, "login") /\ sRole' = "employee"
       \/ Hears("main", {3}) /\ Moves(<<>>, "start") /\ sRole' = "customer"
       \/ Hears("main", {4}) /\ Moves(<<>>, "over") /\ UNCHANGED sRole
       \/ Hears("main", Int \ 1 .. 4) /\ Moves(<<>>, "main") /\ UNCHANGED sRole

ServeStart ==
    /\ Same
    /\ \/ Hears("start", {1}) /\ Answers(<<>>, "input")
       \/ Hears("start", {2}) /\ Answers(<<>>, "login")
       \/ Hears("start", {3}) /\ Answers(<<>>, "main")
       \/ Hears("start", Int \ 1 .. 3) /\ Answers(<<>>, "start")

(* Mutant of Fields: input() receives one too many. *)
FieldsLong == 12

(* How many strings input() receives. *)
Fields == 11

(* input(): the strings, whatever they are; then transfer_to_file.  The       *)
(* administrator's add_employee answers once more.                           *)
ServeInput ==
    /\ UNCHANGED sRole
    /\ Hears("input", Anything)
    /\ \/ /\ Len(fields) < Fields - 1 /\ Answers(<<>>, "input")
          /\ fields' = Append(fields, Heard) /\ UNCHANGED filed
       \/ /\ Len(fields) = Fields - 1
          /\ fields' = <<>> /\ filed' = Append(fields, Heard)
          /\ IF sRole = "customer" THEN Does(<<"true">>, "start.key", "account")
             ELSE Does(<<"true", "TRUE">>, "home", "account")
       \/ /\ Len(fields) = Fields - 1
          /\ fields' = <<>> /\ UNCHANGED filed
          /\ IF sRole = "customer" THEN Answers(<<"false">>, "start.key")
             ELSE Answers(<<"false", "FALSE">>, "home")

(* login(): a failed one begins again. *)
ServeLogin ==
    /\ Same
    /\ \/ Hears("login", Anything) /\ Answers(<<>>, "login.password")
       \/ Hears("login.password", Anything) /\ Answers(<<"Correct">>, "home")
       \/ Hears("login.password", Anything) /\ Answers(<<"Incorrect">>, "login")
       \/ Misses("login.password", Anything) /\ Answers(<<>>, "login.key")

(* profile() and view() *)
Shows(n) ==
    \/ Hears("home", {n}) /\ Answers(<<"text">>, "home")
    \/ Misses("home", {n}) /\ Answers(<<>>, "home.key")

(* The functions that home() calls in all three classes.  buy() reads goods,  *)
(* balance and cash, sends its menu and takes the stod of the balance, which   *)
(* is empty when the record of the one logged in has been deleted.            *)
ServeCommon ==
    \/ Hears("home", {1}) /\ Answers(<<"text">>, "buy")
    \/ Misses("home", {1}) /\ Answers(<<>>, "home.key")
    \/ \E says \in {<<>>, <<"text">>} : Breaks("home", {1}, says)
    \/ Hears("home", {2}) /\ Answers(<<>>, "complain")
    \/ Shows(3)

ServeCustomer ==
    /\ Same /\ sRole = "customer"
    /\ \/ ServeCommon
       \/ Hears("home", {4}) /\ Answers(<<>>, "start")
       \/ Hears("home", Int \ 1 .. 4) /\ Answers(<<>>, "home")

ServeEmployee ==
    /\ Same /\ sRole = "employee"
    /\ \/ ServeCommon
       \/ Hears("home", {4}) /\ Answers(<<>>, "main")
       \/ Hears("home", Int \ 1 .. 4) /\ Answers(<<>>, "home.key")

ServeAdmin ==
    /\ Same /\ sRole = "admin"
    /\ \/ ServeCommon
       \/ Hears("home", {4}) /\ Answers(<<>>, "input")
       \/ Shows(5) \/ Shows(6)
       \/ Hears("home", {7}) /\ Answers(<<"text">>, "stock")
       \/ Misses("home", {7, 8}) /\ Answers(<<>>, "home")
       \/ Breaks("home", {7}, <<>>)
       \/ Hears("home", {8, 15}) /\ Answers(<<"text">>, "home")
       \/ Hears("home", {9, 10}) /\ Answers(<<>>, "search")
       \/ Hears("home", {11, 12}) /\ Answers(<<>>, "delete")
       \/ Hears("home", {13, 14}) /\ Answers(<<>>, "balance")
       \/ Hears("home", {16, 17}) /\ Answers(<<>>, "main")
       \/ Hears("home", Int \ 1 .. 17) /\ Answers(<<>>, "home")

(* buy(): after every choice but the last the menu is sent again.  The bill   *)
(* comes when all files have been rewritten, or could not be.  The item is    *)
(* looked at when the quantity has come; it indexes an array of ten.          *)
ServeBuy ==
    /\ Same
    /\ \/ Hears("buy", {1}) /\ Answers(<<>>, "buy.item")
       \/ Hears("buy", {2}) /\ \E w \in {"NO-ORDER", "Your"} : Answers(<<w, "text">>, "buy")
       \/ Hears("buy", {2}) /\ Does(<<"Cost", "text">>, "buy", "order")
       \/ FailsToSave("buy", {2}) /\ Answers(<<"Cost", "text">>, "buy")
       \/ Breaks("buy", {2}, <<>>)
       \/ Hears("buy", {3}) /\ Answers(<<>>, "home")
       \/ Hears("buy", Int \ 1 .. 3) /\ Answers(<<"text">>, "buy")
       \/ Hears("buy.item", 1 .. 10) /\ Answers(<<>>, "buy.quantity")
       \/ Hears("buy.item", Anything \ 1 .. 10) /\ Answers(<<>>, "buy.unread")
       \/ /\ Hears("buy.quantity", Int)
          /\ \E w \in {"ENOUGH", "NOT-ENOUGH"} : Answers(<<w, "text">>, "buy")

(* Customer::complain, Employee::complain. *)
ServeComplain ==
    /\ Same /\ sRole = "customer"
    /\ \/ Hears("complain", {1}) /\ Answers(<<>>, "complain.write")
       \/ Hears("complain", {2}) /\ \E w \in {"text", ""} : Answers(<<w>>, "complain")
       \/ Hears("complain", {3}) /\ Answers(<<>>, "complain.update")
       \/ Hears("complain", {4}) /\ Answers(<<>>, "home")
       \/ Hears("complain", Int \ 1 .. 4) /\ Answers(<<>>, "complain")
       \/ /\ Hears("complain.write", Anything) \/ Hears("complain.update", Anything)
          /\ Does(<<"TRUE">>, "complain", "complaint")
       \/ Hears("complain.write", Anything) /\ Answers(<<"FALSE">>, "complain")
       \/ /\ Hears("complain.update", Anything)
          /\ \E w \in {"FAILED", "FALSE"} : Answers(<<w>>, "complain")

ServeAnswer ==
    /\ Same /\ sRole # "customer"
    /\ \/ Hears("complain", {1, 2}) /\ Answers(<<>>, "complain.see")
       \/ /\ Hears("complain.see", Anything)
          /\ \E says \in {<<"TRUE", "text">>, <<"FALSE">>} : Answers(says, "complain")
       \/ Hears("complain", {3}) /\ Answers(<<>>, "complain.answer")
       \/ Hears("complain.answer", Anything) /\ Answers(<<>>, "complain.response")
       \/ Hears("complain.response", Anything) /\ Does(<<"TRUE">>, "complain", "complaint")
       \/ Hears("complain.response", Anything) /\ Answers(<<"FALSE">>, "complain")
       \/ Hears("complain", {4, 5}) /\ \E w \in {"text", ""} : Answers(<<w>>, "complain")
       \/ Hears("complain", {6}) /\ Answers(<<>>, "complain")
       \/ Hears("complain", {7}) /\ Answers(<<>>, "home")
       \/ Hears("complain", Int \ 1 .. 7) /\ Answers(<<>>, "complain.key")

(* Admin::search; profile opens the file once more. *)
ServeSearch ==
    /\ Same
    /\ \/ Hears("search", 1 .. 5) /\ Answers(<<>>, "search.key")
       \/ Hears("search", {6}) /\ Answers(<<>>, "home")
       \/ Hears("search", Int \ 1 .. 6) /\ Answers(<<>>, "search")
       \/ /\ Hears("search.key", Anything)
          /\ \E says \in {<<"TRUE", "text">>, <<"FALSE">>} : Answers(says, "search")
       \/ Misses("search.key", Anything) /\ Answers(<<>>, "search")
       \/ Misses("search.key", Anything) /\ Answers(<<"TRUE">>, "search.pause")

(* Delete and balance: the balance is taken as it comes. *)
ServeEdit ==
    /\ Same
    /\ \/ Hears("delete", Anything) /\ Answers(<<>>, "home")
       \/ Misses("delete", Anything) /\ Answers(<<>>, "home.key")
       \/ Hears("balance", Anything) /\ Answers(<<>>, "balance.value")
       \/ Hears("balance.value", Anything) /\ Does(<<"TRUE">>, "home", "balance")
       \/ Hears("balance.value", Anything) /\ Answers(<<"FALSE">>, "home")
       \/ Misses("balance.value", Anything) /\ Answers(<<>>, "home")

(* Admin::stock.  The name that is known is answered before cash.txt is read, *)
(* and the order that can be paid before goods.txt and cash.txt are written.  *)
ServeStock ==
    /\ Same
    /\ \/ Hears("stock", {1}) /\ Answers(<<>>, "stock.order")
       \/ Hears("stock", {2}) /\ Answers(<<>>, "stock.modify")
       \/ Hears("stock", Int \ 1 .. 2) /\ Answers(<<>>, "home")
       \/ /\ Hears("stock.order", Anything) \/ Hears("stock.modify", Anything)
          /\ Answers(<<"FALSE">>, "home")
       \/ Hears("stock.order", Anything) /\ Answers(<<"TRUE">>, "stock.quantity")
       \/ GivesUp("stock.order", Anything) /\ Answers(<<"TRUE">>, "home")
       \/ Breaks("stock.order", Anything, <<"TRUE">>)
       \/ Hears("stock.quantity", Int) /\ Answers(<<"TRUE">>, "stock.placing")
       \/ Hears("stock.quantity", Int) /\ Answers(<<"FALSE">>, "home")
       \/ Hears("stock.modify", Anything) /\ Answers(<<"TRUE">>, "stock.price")
       \/ Hears("stock.price", Int) /\ Answers(<<>>, "stock.level")
       \/ Hears("stock.level", Int) /\ Answers(<<>>, "stock.amount")
       \/ Hears("stock.amount", Int) /\ Answers(<<>>, "home")

(* The order that has been answered is written to the files; or it fails, and *)
(* the server's console says so.                                             *)
PlaceStock ==
    /\ server = "stock.placing" /\ server' = "home"
    /\ \/ /\ owed' = [owed EXCEPT !["stock"] = IF @ = -1 THEN 0 ELSE 1]
          /\ UNCHANGED mishaps
       \/ /\ "unsaved" \in Mishaps /\ mishaps' = mishaps \cup {"unsaved"}
          /\ UNCHANGED owed
    /\ UNCHANGED <<client, cRole, wire, adrift>> /\ Same

(* getch on the server: its operator presses a key. *)
Resumed(place) ==
    CASE place = "start.key" -> "start"
      [] place = "login.key" -> IF sRole = "customer" THEN "start" ELSE "main"
      [] place = "home.key" -> "home"
      [] place = "complain.key" -> "complain"
      [] place = "search.pause" -> "search"

PressKey ==
    /\ server \in Keys /\ server' = Resumed(server)
    /\ UNCHANGED <<client, cRole, sRole, wire, data, past>>

GoesDown ==
    /\ server' = "down" /\ toServer' = <<>>
    /\ UNCHANGED <<client, cRole, sRole, toClient, data, adrift>>

(* Mutant of Throws: the end of the connection is not seen. *)
ThrowsUnclosed ==
    /\ toServer # <<>>
    /\ (server \in Numbers /\ Heard \notin Int) \/ server = "buy.unread"
    /\ GoesDown /\ UNCHANGED mishaps

(* stoi or stod of what is no number: the exception ends the process.  The    *)
(* same is assumed of an item beyond the array.                               *)
Throws ==
    /\ toServer # <<>> \/ Closed
    /\ (server \in Numbers /\ Heard \notin Int) \/ server = "buy.unread"
    /\ GoesDown /\ UNCHANGED mishaps

(* Another session lets an exception out. *)
Killed ==
    /\ "killed" \in Mishaps
    /\ server \notin {"over", "down"} /\ GoesDown
    /\ mishaps' = mishaps \cup {"killed"}

-----------------------------------------------------------------------------
(* The client's steps that wait for no user, and the server's for no key.    *)
ClientReads ==
    \/ SignedUp \/ EmployeeAdded \/ ReadReport
    \/ client \in Awaits /\ (Login \/ BalanceMenu \/ BuyMenu \/ ComplaintMenu \/ AnswerMenu
                                \/ SearchMenu \/ StockMenu)

User ==
    \/ MainMenu \/ StartMenu \/ FillIn \/ CustomerHome \/ EmployeeHome
    \/ AdminHome \/ DeleteMenu
    \/ client \in Menus /\ (Login \/ BalanceMenu \/ BuyMenu \/ ComplaintMenu \/ AnswerMenu
                               \/ SearchMenu \/ StockMenu)
    \/ LeaveStock \/ Leave

Serve ==
    \/ PROGRAM \/ ServeStart \/ ServeInput \/ ServeLogin \/ ServeCustomer \/ ServeEmployee
    \/ ServeAdmin \/ ServeBuy \/ ServeComplain \/ ServeAnswer \/ ServeSearch \/ ServeEdit \/ ServeStock
    \/ PlaceStock \/ Throws

Next == User \/ ClientReads \/ Serve \/ PressKey \/ Killed

Spec == Init /\ [][Next]_vars

LiveSpec == Spec /\ WF_vars(ClientReads) /\ WF_vars(Serve)

-----------------------------------------------------------------------------
(* Types; and a form is read from its first field to its last. *)
TypeOK ==
    /\ client \in Menus \cup Awaits \cup {"over", "gone"}
    /\ server \in Numbers \cup Strings \cup Keys \cup Works \cup {"over", "down"}
    /\ cRole \in Roles /\ sRole \in Roles
    /\ toServer \in Seq(Anything) /\ toClient \in Seq(Words)
    /\ fields \in Seq(Anything) /\ Len(fields) <= 10
    /\ filed \in Seq(Anything) /\ Len(filed) \in {0, 11}
    /\ owed \in [Claims -> {-1, 0, 1}]
    /\ mishaps \subseteq Mishaps /\ adrift \in 0 .. MaxAdrift

Alive == ~ Closed /\ server \notin {"over", "down"}
Spared(those) == mishaps \cap those = {}

(* Where the server is while the client asks its user. *)
Partner(place) == CASE place = "stock.amount" -> "stock.quantity"
                    [] place = "stock.terms" -> "stock.price"
                    [] OTHER -> place

(* When all that was sent has been received, the two programs are in the same *)
(* menu, and for the same kind of person: what the user chooses next is what  *)
(* the server will do.  No client waits then for a message.                   *)
InStep ==
    /\ Spared({"lost", "exit", "missing", "halfway"})
    /\ Alive /\ toServer = <<>> /\ toClient = <<>> /\ server \notin Keys \cup Works
    => /\ client \in Menus /\ server = Partner(client)
       /\ client # "main" => cRole = sRole

(* The client says that an account was made, an order placed, a complaint     *)
(* written, a balance or a stock changed only if the server has done so, but   *)
(* for two: goods are called ordered while the server has still to write them; *)
(* and so are an order and goods when it has gone or could not write the files.*)
NothingPretended ==
    Steady => \A c \in Claims :
                 \/ owed[c] >= 0
                 \/ c = "stock" /\ server \in Works
                 \/ c \in {"order", "stock"} /\ (server = "down" \/ ~ Spared({"unsaved"}))

DateOf(record) == [month |-> record[4], day |-> record[5], year |-> record[6]]

(* A record that the server appends to an accounts file, which checks nothing, *)
(* is a form that the client accepted: a sex, a date that exists, and the age  *)
(* of one who was born on it.                                                 *)
FiledIsTrue ==
    Spared({"lost", "exit", "left", "halfway"}) /\ filed # <<>> =>
        /\ filed[2] \in 10 .. 99 /\ filed[3] \in SexCodes
        /\ IsDate(DateOf(filed)) /\ TrueAge(DateOf(filed), Today) = filed[2]

(* No number is expected where a text may come: nothing that a client sends    *)
(* which runs to its end makes stoi throw and so ends the server for all.  A   *)
(* client that is closed does; and so does the mishap "empty", where it is not *)
(* a message that is no number but what the server reads in its own files: a   *)
(* customer whose record was deleted has but to choose 1.                      *)
NeverThrows ==
    server = "down" => ~ Spared({"lost", "exit", "left", "killed", "halfway", "empty"})

(* A client that waits for a message gets it, unless the server waits for a    *)
(* key, or returned without a message because a file was missing.             *)
Answered ==
    client \in Awaits ~>
        \/ client \notin Awaits \/ server \in Keys
        \/ ~ Spared({"lost", "exit", "missing", "halfway"})

(* When a client ends, in whatever menu, so does its session; but in login the *)
(* server goes on asking for a name for ever.                                 *)
SessionEnds ==
    Closed ~> server \in {"over", "down", "login", "login.password"} \cup Keys \/ ~ Steady
=============================================================================
