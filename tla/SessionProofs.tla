---------------------------- MODULE SessionProofs ----------------------------
(***************************************************************************)
(* Proofs about module Session, for every form, clock and bound, and        *)
(* whatever mishaps may happen: the types, that the two ends keep in step,  *)
(* that the client reports nothing that was not done (but for what the      *)
(* property excepts), that a filed record is a form the client accepted, and*)
(* that no number is missing from the messages.                             *)
(*                                                                          *)
(* The argument follows the server through what is still on its way.        *)
(* Silent is what the server does with a message without a word; Leads      *)
(* follows it through a queue of those.  The client goes on without being   *)
(* answered only when such a queue takes the server to the same menu, or    *)
(* to the message that will be answered (Understood); the answer takes      *)
(* both to the same menu (Reply).                                           *)
(***************************************************************************)
EXTENDS Session, RegistrationProofs, SequenceTheorems, TLAPS

Over   == {"over"}
Stops  == Numbers \cup Strings \cup Over
States == Stops \X Roles

(* A server in place x[1], serving someone of role x[2], takes the message m *)
(* and is then at y; it says nothing.                                        *)
Silent(x, m, y) ==
    LET at == x[1]  who == x[2]  On(those, p) == m \in those /\ y = <<p, who>>  IN
    \/ at = "main" /\ \/ m = 1 /\ y = <<"login", "admin">>
                      \/ m = 2 /\ y = <<"login", "employee">>
                      \/ m = 3 /\ y = <<"start", "customer">>
                      \/ On({4}, "over")
    \/ at = "start" /\ (On({1}, "input") \/ On({2}, "login") \/ On({3}, "main"))
    \/ at = "login" /\ On(Anything, "login.password")
    \/ at = "home" /\ \/ On({2}, "complain")
                      \/ who = "customer" /\ On({4}, "start")
                      \/ who = "employee" /\ On({4}, "main")
                      \/ who = "admin" /\ \/ On({4}, "input") \/ On({9, 10}, "search")
                                          \/ On({11, 12}, "delete") \/ On({13, 14}, "balance")
                                          \/ On({16, 17}, "main")
    \/ at = "buy" /\ (On({1}, "buy.item") \/ On({3}, "home"))
    \/ at = "buy.item" /\ On(1 .. 10, "buy.quantity")
    \/ /\ at = "complain" /\ who = "customer"
       /\ On({1}, "complain.write") \/ On({3}, "complain.update") \/ On({4}, "home")
    \/ /\ at = "complain" /\ who # "customer"
       /\ \/ On({1, 2}, "complain.see") \/ On({3}, "complain.answer")
          \/ On({6}, "complain") \/ On({7}, "home")
    \/ at = "complain.answer" /\ who # "customer" /\ On(Anything, "complain.response")
    \/ at = "search" /\ (On(1 .. 5, "search.key") \/ On({6}, "home"))
    \/ at = "delete" /\ On(Anything, "home")
    \/ at = "balance" /\ On(Anything, "balance.value")
    \/ at = "stock" /\ (On({1}, "stock.order") \/ On({2}, "stock.modify"))
    \/ at = "stock.price" /\ On(Int, "stock.level")
    \/ at = "stock.level" /\ On(Int, "stock.amount")
    \/ at = "stock.amount" /\ On(Int, "home")

(* The message m at x is what the client waits in c for an answer to. *)
Asked(c, x, m) ==
    LET at == x[1]  who == x[2] IN
    \/ c = "login.sent" /\ at = "login.password"
    \/ c = "report" /\ at = "home" /\ (m = 3 \/ (who = "admin" /\ m \in {5, 6, 8, 15}))
    \/ c = "buy.menu" /\ at = "home" /\ m = 1
    \/ c = "buy.item" /\ at = "buy.quantity" /\ m \in Int
    \/ c = "buy.bill" /\ at = "buy" /\ m = 2
    \/ c = at /\ at \in {"complain.write", "complain.update"} /\ who = "customer"
    \/ c = "complain.view" /\ at = "complain"
       /\ m \in (IF who = "customer" THEN {2} ELSE {4, 5})
    \/ c = "complain.see" /\ at = c /\ who # "customer"
    \/ c = "complain.answer" /\ at = "complain.response" /\ who # "customer"
    \/ c = at /\ at \in {"search.key", "stock.order", "stock.modify"}
    \/ c = "balance" /\ at = "balance.value"
    \/ c = "stock.report" /\ at = "home" /\ who = "admin" /\ m = 7
    \/ c = "stock.placed" /\ at = "stock.quantity" /\ m \in Int

(* The words w answer what a client of role r waits in c for, when the server *)
(* has gone on to p; a claim among them is owed in o.                         *)
Yes == <<"TRUE">>
No  == <<"FALSE">>
Settled(w, o, c) == w = No \/ (w = Yes /\ o[c] = 1)
Reply(c, r, w, p, o) ==
    \/ /\ c = "input.sent" /\ r = "customer" /\ p = "start"
       /\ w = <<"false">> \/ (w = <<"true">> /\ o["account"] = 1)
    \/ /\ c = "input.sent" /\ r # "customer" /\ p = "home"
       /\ w = <<"false", "FALSE">> \/ (w = <<"true", "TRUE">> /\ o["account"] = 1)
    \/ c = "employee.sent" /\ p = "home" /\ Settled(w, o, "account")
    \/ c = "login.sent" /\ w = <<"Correct">> /\ p = "home"
    \/ c = "login.sent" /\ w = <<"Incorrect">> /\ p = "login"
    \/ c = "report" /\ w = <<"text">> /\ p = "home"
    \/ c = "buy.menu" /\ w = <<"text">> /\ p = "buy"
    \/ c = "buy.item" /\ w \in {<<"ENOUGH", "text">>, <<"NOT-ENOUGH", "text">>} /\ p = "buy"
    \/ /\ c = "buy.bill" /\ p = "buy"
       /\ \/ w \in {<<"NO-ORDER", "text">>, <<"Your", "text">>}
          \/ w = <<"Cost", "text">> /\ o["order"] = 1
    \/ /\ c \in {"complain.write", "complain.update", "complain.answer"} /\ p = "complain"
       /\ w = <<"FAILED">> \/ Settled(w, o, "complaint")
    \/ c = "complain.view" /\ w \in {<<"text">>, <<"">>} /\ p = "complain"
    \/ c = "complain.see" /\ w \in {<<"TRUE", "text">>, No} /\ p = "complain"
    \/ c = "search.key" /\ w \in {<<"TRUE", "text">>, No} /\ p = "search"
    \/ c = "search.profile" /\ w = <<"text">> /\ p = "search"
    \/ c = "balance" /\ Settled(w, o, "balance") /\ p = "home"
    \/ c = "stock.report" /\ w = <<"text">> /\ p = "stock"
    \/ c = "stock.order" /\ w = Yes /\ p = "stock.quantity"
    \/ c = "stock.modify" /\ w = Yes /\ p = "stock.price"
    \/ c \in {"stock.order", "stock.modify"} /\ w = No /\ p = "home"
    \/ c = "stock.placed" /\ Settled(w, o, "stock") /\ p = "home"

(* From x, the messages of s lead to y silently. *)
Leads(x, s, y) ==
    \E route \in [1 .. Len(s) + 1 -> States] :
        /\ route[1] = x /\ route[Len(s) + 1] = y
        /\ \A i \in 1 .. Len(s) : Silent(route[i], s[i], route[i + 1])

(* The forms that may be sent. *)
Forms == {f \in Typed : Accepts(f, Today)}

(* The messages s, received from x on, take the server to where the client   *)
(* goes on in c: to the same menu, for the same role; to the message which   *)
(* is to be answered; or to the fields of a form.                            *)
SameMenu(c, r, y) == y[1] = Partner(c) /\ (c \notin {"main", "over"} => y[2] = r)
Understood(x, s, c, r) ==
    \/ /\ c \in Menus \cup Over
       /\ \E y \in States : Leads(x, s, y) /\ SameMenu(c, r, y)
    \/ /\ c \in Awaits
       /\ \E q \in Seq(Anything), m \in Anything, y \in States :
             s = Append(q, m) /\ Leads(x, q, y) /\ y[2] = r /\ Asked(c, y, m)
    \/ /\ c = "input.sent"
       /\ \E q \in Seq(Anything), f \in Forms :
             s = q \o Transfer(f) /\ Leads(x, q, <<"input", r>>)

(* Where the server is, or will be when its operator has pressed a key, or    *)
(* when it has done what it has said.                                         *)
Here == <<IF server \in Keys THEN Resumed(server)
          ELSE IF server \in Works THEN "home" ELSE server, sRole>>

(* What a client may report: owed, with the goods that are about to be        *)
(* written, and the two claims that a client reports whatever has become of   *)
(* the server or of its files.                                                *)
Exempt == {"order", "stock"}
Debt ==
    [c \in Claims |->
        IF c \in Exempt /\ (server = "down" \/ "unsaved" \in mishaps) THEN 1
        ELSE IF c = "stock" /\ server \in Works THEN (IF owed[c] = -1 THEN 0 ELSE 1)
        ELSE owed[c]]

Agreed ==
    fields = <<>> /\ toClient = <<>> /\ Understood(Here, toServer, client, cRole)

(* A part of the form has been received. *)
Filling ==
    /\ client = "input.sent" /\ toClient = <<>> /\ toServer # <<>> /\ fields # <<>>
    /\ Here = <<"input", cRole>>
    /\ \E f \in Forms : fields \o toServer = Transfer(f)

Answering ==
    /\ client \in Awaits /\ toServer = <<>> /\ fields = <<>> /\ sRole = cRole
    /\ Reply(client, cRole, toClient, Here[1], Debt)

(* A file was missing: no answer comes, or no second one. *)
Unanswered == toClient = <<>> \/ (client = "search.key" /\ toClient = Yes)
Stuck == client \in Awaits /\ toServer = <<>> /\ "missing" \in mishaps /\ Unanswered

InTouch == Agreed \/ Filling \/ Answering \/ Stuck

(* What the client may still find when the server has gone. *)
Leftover ==
    \/ toClient = <<>>
    \/ client \in Awaits /\ \E p \in Stops : Reply(client, cRole, toClient, p, Debt)
    \/ client = "search.key" /\ toClient = Yes

Sync ==
    Steady /\ client # "gone" => IF server = "down" THEN Leftover ELSE InTouch

FiledAccepted ==
    Spared({"lost", "exit", "left", "halfway"}) /\ filed # <<>> => \E f \in Forms : filed = Transfer(f)

GoneOrDown ==
    /\ client = "gone" => "left" \in mishaps
    /\ server = "down" => toServer = <<>>

IInv == TypeOK /\ GoneOrDown /\ Sync /\ NothingPretended /\ NeverThrows /\ FiledAccepted

-----------------------------------------------------------------------------
(* Sequences, and the form as it is sent. *)

LEMMA ConcatHeadTail ==
  ASSUME NEW S, NEW t \in Seq(S), t # <<>>, NEW u \in Seq(S)
  PROVE  /\ Head(t \o u) = Head(t) /\ Tail(t) \in Seq(S)
         /\ Tail(t \o u) = Tail(t) \o u
<1>1. /\ Len(t) \in Nat \ {0} /\ Len(u) \in Nat
      /\ t \o u \in Seq(S) /\ Len(t \o u) = Len(t) + Len(u)
      /\ \A i \in 1 .. Len(t) + Len(u) : (t \o u)[i] = IF i <= Len(t) THEN t[i] ELSE u[i - Len(t)]
  BY EmptySeq, LenProperties, ConcatProperties
<1>2. t \o u # <<>>
  BY <1>1
<1>3. /\ Tail(t) \in Seq(S) /\ Len(Tail(t)) = Len(t) - 1
      /\ \A i \in 1 .. Len(Tail(t)) : Tail(t)[i] = t[i + 1]
  BY HeadTailProperties
<1>4. /\ Tail(t \o u) \in Seq(S) /\ Len(Tail(t \o u)) = Len(t) + Len(u) - 1
      /\ \A i \in 1 .. Len(t) + Len(u) - 1 : Tail(t \o u)[i] = (t \o u)[i + 1]
  BY <1>1, <1>2, HeadTailProperties
<1>5. /\ Tail(t) \o u \in Seq(S) /\ Len(Tail(t) \o u) = Len(t) + Len(u) - 1
      /\ \A i \in 1 .. Len(t) + Len(u) - 1 :
            (Tail(t) \o u)[i] = IF i <= Len(t) - 1 THEN Tail(t)[i] ELSE u[i - (Len(t) - 1)]
  BY <1>1, <1>3, ConcatProperties
<1>6. ASSUME NEW i \in 1 .. Len(t) + Len(u) - 1
      PROVE  Tail(t \o u)[i] = (Tail(t) \o u)[i]
  <2>1. Tail(t \o u)[i] = IF i + 1 <= Len(t) THEN t[i + 1] ELSE u[i + 1 - Len(t)]
    BY <1>1, <1>4
  <2>2. CASE i + 1 <= Len(t)
    BY <1>1, <1>3, <1>5, <2>1, <2>2
  <2>3. CASE ~ (i + 1 <= Len(t))
    <3>1. (Tail(t) \o u)[i] = u[i - (Len(t) - 1)] /\ i - (Len(t) - 1) = i + 1 - Len(t)
      BY <1>1, <1>5, <2>3
    <3>. QED  BY <2>1, <2>3, <3>1
  <2>. QED  BY <2>2, <2>3
<1>7. Tail(t \o u) = Tail(t) \o u
  BY <1>4, <1>5, <1>6, SeqEqual
<1>8. Head(t \o u) = Head(t)
  BY <1>1
<1>. QED  BY <1>3, <1>7, <1>8

LEMMA TransferType ==
  ASSUME NEW f \in Forms
  PROVE  Transfer(f) \in Seq(Anything) /\ Len(Transfer(f)) = 11
<1>1. f \in Form
  BY TypedAssumption DEF Forms
<1>2. /\ f.age \in Int /\ f.sex \in Int /\ f.DOB.month \in Int /\ f.DOB.day \in Int
      /\ f.DOB.year \in Int
  BY <1>1 DEF Form, Date
<1>. QED  BY <1>2 DEF Transfer, Anything

-----------------------------------------------------------------------------
(* Following the server through a queue. *)

LEMMA LeadsNone ==
  ASSUME NEW x \in States, NEW y
  PROVE  Leads(x, <<>>, y) <=> y = x
<1>1. Len(<<>>) = 0
  OBVIOUS
<1>2. ASSUME y = x PROVE Leads(x, <<>>, y)
  <2>. DEFINE c == [i \in 1 .. Len(<<>>) + 1 |-> x]
  <2>1. c \in [1 .. Len(<<>>) + 1 -> States] /\ c[1] = x /\ c[Len(<<>>) + 1] = y
    BY <1>1, <1>2
  <2>2. \A i \in 1 .. Len(<<>>) : Silent(c[i], <<>>[i], c[i + 1])
    BY <1>1
  <2>. HIDE DEF c
  <2>. QED  BY <2>1, <2>2 DEF Leads
<1>. QED  BY <1>1, <1>2 DEF Leads

LEMMA LeadsJoin ==
  ASSUME NEW x, NEW y, NEW z, NEW s \in Seq(Anything), NEW t \in Seq(Anything),
         Leads(x, s, y), Leads(y, t, z)
  PROVE  Leads(x, s \o t, z)
<1>1. PICK a \in [1 .. Len(s) + 1 -> States] :
        /\ a[1] = x /\ a[Len(s) + 1] = y
        /\ \A i \in 1 .. Len(s) : Silent(a[i], s[i], a[i + 1])
  BY DEF Leads
<1>2. PICK b \in [1 .. Len(t) + 1 -> States] :
        /\ b[1] = y /\ b[Len(t) + 1] = z
        /\ \A i \in 1 .. Len(t) : Silent(b[i], t[i], b[i + 1])
  BY DEF Leads
<1>3. /\ Len(s) \in Nat /\ Len(t) \in Nat /\ Len(s \o t) = Len(s) + Len(t)
      /\ \A i \in 1 .. Len(s) + Len(t) :
            (s \o t)[i] = IF i <= Len(s) THEN s[i] ELSE t[i - Len(s)]
  BY ConcatProperties, LenProperties
<1>. DEFINE c == [i \in 1 .. Len(s \o t) + 1 |-> IF i <= Len(s) THEN a[i] ELSE b[i - Len(s)]]
<1>4. c \in [1 .. Len(s \o t) + 1 -> States]
  BY <1>3
<1>5. c[1] = x /\ c[Len(s \o t) + 1] = z
  BY <1>1, <1>2, <1>3
<1>6. ASSUME NEW i \in 1 .. Len(s \o t)
      PROVE  Silent(c[i], (s \o t)[i], c[i + 1])
  <2>1. CASE i < Len(s)
    BY <1>1, <1>3, <2>1
  <2>2. CASE i = Len(s)
    BY <1>1, <1>2, <1>3, <2>2
  <2>3. CASE i > Len(s)
    <3>1. i - Len(s) \in 1 .. Len(t) /\ i \in Int
      BY <1>3, <2>3
    <3>2. Silent(b[i - Len(s)], t[i - Len(s)], b[(i - Len(s)) + 1])
      BY <1>2, <3>1
    <3>3. c[i] = b[i - Len(s)] /\ c[i + 1] = b[(i - Len(s)) + 1] /\ (s \o t)[i] = t[i - Len(s)]
      BY <1>3, <2>3, <3>1
    <3>. QED  BY <3>2, <3>3
  <2>. QED  BY <1>3, <2>1, <2>2, <2>3
<1>. QED  BY <1>4, <1>5, <1>6 DEF Leads

LEMMA LeadsHead ==
  ASSUME NEW x, NEW y, NEW s \in Seq(Anything), s # <<>>, Leads(x, s, y)
  PROVE  \E z \in States : Silent(x, Head(s), z) /\ Leads(z, Tail(s), y)
<1>1. PICK a \in [1 .. Len(s) + 1 -> States] :
        /\ a[1] = x /\ a[Len(s) + 1] = y
        /\ \A i \in 1 .. Len(s) : Silent(a[i], s[i], a[i + 1])
  BY DEF Leads
<1>2. /\ Len(s) \in Nat \ {0} /\ Head(s) = s[1] /\ Len(Tail(s)) = Len(s) - 1
      /\ \A i \in 1 .. Len(s) - 1 : Tail(s)[i] = s[i + 1]
  <2>1. Len(s) \in Nat \ {0}
    BY EmptySeq
  <2>2. Len(Tail(s)) = Len(s) - 1 /\ \A i \in 1 .. Len(Tail(s)) : Tail(s)[i] = s[i + 1]
    BY HeadTailProperties
  <2>. QED  BY <2>1, <2>2
<1>3. a[2] \in States /\ Silent(x, Head(s), a[2])
  BY <1>1, <1>2
<1>. DEFINE c == [i \in 1 .. Len(Tail(s)) + 1 |-> a[i + 1]]
<1>4. c \in [1 .. Len(Tail(s)) + 1 -> States] /\ c[1] = a[2] /\ c[Len(Tail(s)) + 1] = y
  BY <1>1, <1>2
<1>5. \A i \in 1 .. Len(Tail(s)) : Silent(c[i], Tail(s)[i], c[i + 1])
  BY <1>1, <1>2
<1>6. Leads(a[2], Tail(s), y)
  BY <1>4, <1>5 DEF Leads
<1>. QED  BY <1>3, <1>6

LEMMA LeadsOne ==
  ASSUME NEW x \in States, NEW m \in Anything, NEW y \in States, Silent(x, m, y)
  PROVE  <<m>> \in Seq(Anything) /\ Leads(x, <<m>>, y)
<1>1. <<m>> \in Seq(Anything) /\ Len(<<m>>) = 1 /\ <<m>>[1] = m
  OBVIOUS
<1>. DEFINE c == [i \in 1 .. Len(<<m>>) + 1 |-> IF i = 1 THEN x ELSE y]
<1>2. c \in [1 .. Len(<<m>>) + 1 -> States] /\ c[1] = x /\ c[Len(<<m>>) + 1] = y
  BY <1>1
<1>3. \A i \in 1 .. Len(<<m>>) : Silent(c[i], <<m>>[i], c[i + 1])
  BY <1>1
<1>. QED  BY <1>1, <1>2, <1>3 DEF Leads

LEMMA LeadsTwo ==
  ASSUME NEW x \in States, NEW m \in Anything, NEW y \in States, Silent(x, m, y),
         NEW n \in Anything, NEW z \in States, Silent(y, n, z)
  PROVE  <<m, n>> \in Seq(Anything) /\ Leads(x, <<m, n>>, z)
<1>1. /\ <<m>> \in Seq(Anything) /\ Leads(x, <<m>>, y)
      /\ <<n>> \in Seq(Anything) /\ Leads(y, <<n>>, z)
  BY LeadsOne
<1>2. Leads(x, <<m>> \o <<n>>, z)
  BY <1>1, LeadsJoin
<1>3. <<m, n>> \in Seq(Anything) /\ <<m, n>> = <<m>> \o <<n>>
  OBVIOUS
<1>. QED  BY <1>2, <1>3

(* Behind a queue that leads to x comes what x understands. *)
LEMMA UnderstoodBehind ==
  ASSUME NEW h \in States, NEW q \in Seq(Anything), NEW x, Leads(h, q, x),
         NEW s \in Seq(Anything), NEW c, NEW r \in Roles, Understood(x, s, c, r)
  PROVE  Understood(h, q \o s, c, r)
<1>1. CASE /\ c \in Menus \cup Over
           /\ \E y \in States : Leads(x, s, y) /\ SameMenu(c, r, y)
  <2>1. PICK y \in States : Leads(x, s, y) /\ SameMenu(c, r, y)
    BY <1>1
  <2>2. Leads(h, q \o s, y)
    BY <2>1, LeadsJoin
  <2>. QED  BY <1>1, <2>1, <2>2 DEF Understood
<1>2. CASE /\ c \in Awaits
           /\ \E t \in Seq(Anything), m \in Anything, y \in States :
                 s = Append(t, m) /\ Leads(x, t, y) /\ y[2] = r /\ Asked(c, y, m)
  <2>1. PICK t \in Seq(Anything), m \in Anything, y \in States :
               s = Append(t, m) /\ Leads(x, t, y) /\ y[2] = r /\ Asked(c, y, m)
    BY <1>2
  <2>2. Leads(h, q \o t, y) /\ q \o t \in Seq(Anything)
    BY <2>1, LeadsJoin, ConcatProperties
  <2>3. q \o s = Append(q \o t, m)
    <3>1. q \o (t \o <<m>>) = (q \o t) \o <<m>>
      BY ConcatAssociative
    <3>2. Append(t, m) = t \o <<m>> /\ Append(q \o t, m) = (q \o t) \o <<m>>
      BY <2>2, AppendIsConcat
    <3>. QED  BY <2>1, <3>1, <3>2
  <2>. QED  BY <1>2, <2>1, <2>2, <2>3 DEF Understood
<1>3. CASE /\ c = "input.sent"
           /\ \E t \in Seq(Anything), f \in Forms :
                 s = t \o Transfer(f) /\ Leads(x, t, <<"input", r>>)
  <2>1. PICK t \in Seq(Anything), f \in Forms :
               s = t \o Transfer(f) /\ Leads(x, t, <<"input", r>>)
    BY <1>3
  <2>2. Leads(h, q \o t, <<"input", r>>) /\ q \o t \in Seq(Anything)
    BY <2>1, LeadsJoin, ConcatProperties
  <2>3. q \o s = (q \o t) \o Transfer(f)
    <3>1. Transfer(f) \in Seq(Anything)
      BY TransferType
    <3>2. (q \o t) \o Transfer(f) = q \o (t \o Transfer(f))
      BY <3>1, ConcatAssociative
    <3>. QED  BY <2>1, <3>2
  <2>. QED  BY <1>3, <2>1, <2>2, <2>3 DEF Understood
<1>. QED  BY <1>1, <1>2, <1>3 DEF Understood

(* The first message of what is understood is taken silently, or asks for    *)
(* the answer, or is the first field of a form.                              *)
LEMMA UnderstoodHead ==
  ASSUME NEW x \in States, NEW s \in Seq(Anything), s # <<>>, NEW c, NEW r \in Roles,
         Understood(x, s, c, r)
  PROVE  \/ \E y \in States : Silent(x, Head(s), y) /\ Understood(y, Tail(s), c, r)
         \/ c \in Awaits /\ x[2] = r /\ Tail(s) = <<>> /\ Asked(c, x, Head(s))
         \/ c = "input.sent" /\ x = <<"input", r>> /\ \E f \in Forms : s = Transfer(f)
<1>1. CASE /\ c \in Menus \cup Over
           /\ \E y \in States : Leads(x, s, y) /\ SameMenu(c, r, y)
  BY <1>1, LeadsHead DEF Understood
<1>2. CASE /\ c \in Awaits
           /\ \E t \in Seq(Anything), m \in Anything, y \in States :
                 s = Append(t, m) /\ Leads(x, t, y) /\ y[2] = r /\ Asked(c, y, m)
  <2>1. PICK t \in Seq(Anything), m \in Anything, y \in States :
               s = Append(t, m) /\ Leads(x, t, y) /\ y[2] = r /\ Asked(c, y, m)
    BY <1>2
  <2>2. CASE t = <<>>
    <3>1. x = y
      BY <2>1, <2>2, LeadsNone
    <3>2. Head(s) = m /\ Tail(s) = <<>>
      BY <2>1, <2>2
    <3>. QED  BY <1>2, <2>1, <3>1, <3>2
  <2>3. CASE t # <<>>
    <3>1. PICK z \in States : Silent(x, Head(t), z) /\ Leads(z, Tail(t), y)
      BY <2>1, <2>3, LeadsHead
    <3>2. Head(s) = Head(t) /\ Tail(s) = Append(Tail(t), m) /\ Tail(t) \in Seq(Anything)
      BY <2>1, <2>3, HeadTailAppend, HeadTailProperties
    <3>. QED  BY <1>2, <2>1, <3>1, <3>2 DEF Understood
  <2>. QED  BY <2>2, <2>3
<1>3. CASE /\ c = "input.sent"
           /\ \E t \in Seq(Anything), f \in Forms :
                 s = t \o Transfer(f) /\ Leads(x, t, <<"input", r>>)
  <2>1. PICK t \in Seq(Anything), f \in Forms :
               s = t \o Transfer(f) /\ Leads(x, t, <<"input", r>>)
    BY <1>3
  <2>2. CASE t = <<>>
    <3>1. x = <<"input", r>>
      BY <2>1, <2>2, LeadsNone
    <3>2. s = Transfer(f)
      BY <2>1, <2>2, TransferType, ConcatEmptySeq
    <3>. QED  BY <1>3, <3>1, <3>2
  <2>3. CASE t # <<>>
    <3>1. PICK z \in States : Silent(x, Head(t), z) /\ Leads(z, Tail(t), <<"input", r>>)
      BY <2>1, <2>3, LeadsHead
    <3>2. Head(s) = Head(t) /\ Tail(s) = Tail(t) \o Transfer(f) /\ Tail(t) \in Seq(Anything)
      BY <2>1, <2>3, TransferType, ConcatHeadTail
    <3>. QED  BY <1>3, <2>1, <3>1, <3>2 DEF Understood
  <2>. QED  BY <2>2, <2>3
<1>. QED  BY <1>1, <1>2, <1>3 DEF Understood

-----------------------------------------------------------------------------
(* What the client sends in each menu is understood by a server in the same  *)
(* menu.                                                                     *)

Request(c, r, says, to, r2) ==
    /\ says \in Seq(Anything) /\ to \in Menus \cup Awaits \cup Over /\ r2 \in Roles
    /\ \A x \in States : SameMenu(c, r, x) => Understood(x, says, to, r2)

Leaves(c, m, d, r)    == Silent(<<Partner(c), r>>, m, <<d, r>>)
Follows(c, m, d, r)   == Silent(<<c, r>>, m, <<d, r>>)

LEMMA StateIs ==
  ASSUME NEW c \in Menus \ {"main"}, NEW r \in Roles
  PROVE  \A x \in States : SameMenu(c, r, x) <=> x = <<Partner(c), r>>
BY DEF States, SameMenu, Menus

LEMMA MenuOne ==
  ASSUME NEW c \in Menus \ {"main"}, NEW r \in Roles, NEW to \in Menus \cup Over,
         NEW m \in Anything, Leaves(c, m, Partner(to), r),
         Partner(to) \in Stops, Partner(c) \in Stops
  PROVE  Request(c, r, <<m>>, to, r)
<1>1. <<Partner(c), r>> \in States /\ <<Partner(to), r>> \in States
  BY DEF States
<1>2. <<m>> \in Seq(Anything) /\ Leads(<<Partner(c), r>>, <<m>>, <<Partner(to), r>>)
  BY <1>1, LeadsOne DEF Leaves
<1>3. SameMenu(to, r, <<Partner(to), r>>)
  BY DEF SameMenu
<1>4. Understood(<<Partner(c), r>>, <<m>>, to, r)
  BY <1>1, <1>2, <1>3 DEF Understood
<1>. QED  BY <1>2, <1>4, StateIs DEF Request

LEMMA MenuTwo ==
  ASSUME NEW c \in Menus \ {"main"}, NEW r \in Roles, NEW to \in Menus \cup Over,
         NEW m \in Anything, NEW d \in Stops, Leaves(c, m, d, r),
         NEW n \in Anything, Follows(d, n, Partner(to), r),
         Partner(to) \in Stops, Partner(c) \in Stops
  PROVE  Request(c, r, <<m, n>>, to, r)
<1>1. <<Partner(c), r>> \in States /\ <<d, r>> \in States /\ <<Partner(to), r>> \in States
  BY DEF States
<1>2. <<m, n>> \in Seq(Anything) /\ Leads(<<Partner(c), r>>, <<m, n>>, <<Partner(to), r>>)
  BY <1>1, LeadsTwo DEF Leaves, Follows
<1>3. SameMenu(to, r, <<Partner(to), r>>)
  BY DEF SameMenu
<1>4. Understood(<<Partner(c), r>>, <<m, n>>, to, r)
  BY <1>1, <1>2, <1>3 DEF Understood
<1>. QED  BY <1>2, <1>4, StateIs DEF Request

LEMMA AskOne ==
  ASSUME NEW c \in Menus \ {"main"}, NEW r \in Roles, NEW to \in Awaits,
         NEW m \in Anything, Asked(to, <<Partner(c), r>>, m), Partner(c) \in Stops
  PROVE  Request(c, r, <<m>>, to, r)
<1>1. <<Partner(c), r>> \in States /\ <<Partner(c), r>>[2] = r
  BY DEF States
<1>2. <<m>> \in Seq(Anything) /\ <<>> \in Seq(Anything) /\ <<m>> = Append(<<>>, m)
  OBVIOUS
<1>3. Leads(<<Partner(c), r>>, <<>>, <<Partner(c), r>>)
  BY <1>1, LeadsNone
<1>4. Understood(<<Partner(c), r>>, <<m>>, to, r)
  BY <1>1, <1>2, <1>3 DEF Understood
<1>. QED  BY <1>2, <1>4, StateIs DEF Request

LEMMA AskTwo ==
  ASSUME NEW c \in Menus \ {"main"}, NEW r \in Roles, NEW to \in Awaits,
         NEW m \in Anything, NEW d \in Stops, Leaves(c, m, d, r),
         NEW n \in Anything, Asked(to, <<d, r>>, n), Partner(c) \in Stops
  PROVE  Request(c, r, <<m, n>>, to, r)
<1>1. <<Partner(c), r>> \in States /\ <<d, r>> \in States /\ <<d, r>>[2] = r
  BY DEF States
<1>2. <<m>> \in Seq(Anything) /\ Leads(<<Partner(c), r>>, <<m>>, <<d, r>>)
  BY <1>1, LeadsOne DEF Leaves
<1>3. <<m, n>> \in Seq(Anything) /\ <<m, n>> = Append(<<m>>, n)
  OBVIOUS
<1>4. Understood(<<Partner(c), r>>, <<m, n>>, to, r)
  BY <1>1, <1>2, <1>3 DEF Understood
<1>. QED  BY <1>3, <1>4, StateIs DEF Request

LEMMA AskThree ==
  ASSUME NEW c \in Menus \ {"main"}, NEW r \in Roles, NEW to \in Awaits,
         NEW m \in Anything, NEW d \in Stops, Leaves(c, m, d, r),
         NEW n \in Anything, NEW e \in Stops, Follows(d, n, e, r),
         NEW k \in Anything, Asked(to, <<e, r>>, k), Partner(c) \in Stops
  PROVE  Request(c, r, <<m, n, k>>, to, r)
<1>1. /\ <<Partner(c), r>> \in States /\ <<d, r>> \in States /\ <<e, r>> \in States
      /\ <<e, r>>[2] = r
  BY DEF States
<1>2. <<m, n>> \in Seq(Anything) /\ Leads(<<Partner(c), r>>, <<m, n>>, <<e, r>>)
  BY <1>1, LeadsTwo DEF Leaves, Follows
<1>3. <<m, n, k>> \in Seq(Anything) /\ <<m, n, k>> = Append(<<m, n>>, k)
  OBVIOUS
<1>4. Understood(<<Partner(c), r>>, <<m, n, k>>, to, r)
  BY <1>1, <1>2, <1>3 DEF Understood
<1>. QED  BY <1>3, <1>4, StateIs DEF Request

LEMMA MenuThree ==
  ASSUME NEW c \in Menus \ {"main"}, NEW r \in Roles, NEW to \in Menus \cup Over,
         NEW m \in Anything, NEW d \in Stops, Leaves(c, m, d, r),
         NEW n \in Anything, NEW e \in Stops, Follows(d, n, e, r),
         NEW k \in Anything, Follows(e, k, Partner(to), r),
         Partner(to) \in Stops, Partner(c) \in Stops
  PROVE  Request(c, r, <<m, n, k>>, to, r)
<1>1. /\ <<Partner(c), r>> \in States /\ <<d, r>> \in States /\ <<e, r>> \in States
      /\ <<Partner(to), r>> \in States
  BY DEF States
<1>2. /\ <<m, n>> \in Seq(Anything) /\ Leads(<<Partner(c), r>>, <<m, n>>, <<e, r>>)
      /\ <<k>> \in Seq(Anything) /\ Leads(<<e, r>>, <<k>>, <<Partner(to), r>>)
  BY <1>1, LeadsOne, LeadsTwo DEF Leaves, Follows
<1>3. <<m, n, k>> \in Seq(Anything) /\ <<m, n, k>> = <<m, n>> \o <<k>>
  OBVIOUS
<1>4. Leads(<<Partner(c), r>>, <<m, n, k>>, <<Partner(to), r>>)
  <2>1. Leads(<<Partner(c), r>>, <<m, n>> \o <<k>>, <<Partner(to), r>>)
    BY <1>2, LeadsJoin
  <2>. QED  BY <1>3, <2>1
<1>5. SameMenu(to, r, <<Partner(to), r>>)
  BY DEF SameMenu
<1>6. Understood(<<Partner(c), r>>, <<m, n, k>>, to, r)
  BY <1>1, <1>4, <1>5 DEF Understood
<1>. QED  BY <1>3, <1>6, StateIs DEF Request

Served == {"login.password", "buy.item", "buy.quantity", "complain.write",
           "complain.update", "complain.see", "complain.answer", "complain.response",
           "search.key", "delete", "balance", "balance.value", "stock.order",
           "stock.modify", "stock.quantity", "stock.price", "stock.level", "stock.amount"}

LEMMA Places ==
  /\ Menus \cup Over \subseteq (Stops \ Served) \cup {"stock.amount", "stock.terms"}
  /\ Served \subseteq Stops
  /\ \A c \in Menus \cup Over : Partner(c) \in Stops
  /\ \A c \in Menus \cup Over : c \notin {"stock.amount", "stock.terms"} => Partner(c) = c
  /\ Partner("stock.amount") = "stock.quantity" /\ Partner("stock.terms") = "stock.price"
BY DEF Partner, Menus, Stops, Numbers, Strings, Over, Served

LEMMA Messages == Int \subseteq Anything /\ Text \in Anything /\ Nothing \in Anything
BY DEF Anything

LEMMA MainRequests ==
  ASSUME NEW r \in Roles
  PROVE  /\ Request("main", r, <<1>>, "login", "admin")
         /\ Request("main", r, <<2>>, "login", "employee")
         /\ Request("main", r, <<3>>, "start", "customer")
         /\ Request("main", r, <<4>>, "over", r)
<1>1. ASSUME NEW x \in States, SameMenu("main", r, x)
      PROVE  /\ Silent(x, 1, <<"login", "admin">>) /\ Silent(x, 2, <<"login", "employee">>)
             /\ Silent(x, 3, <<"start", "customer">>) /\ Silent(x, 4, <<"over", x[2]>>)
  BY <1>1, Places DEF SameMenu, Silent, Menus
<1>2. /\ <<"login", "admin">> \in States /\ <<"login", "employee">> \in States
      /\ <<"start", "customer">> \in States
      /\ \A x \in States : <<"over", x[2]>> \in States
  BY DEF States, Roles, Stops, Numbers, Strings, Over
<1>3. /\ SameMenu("login", "admin", <<"login", "admin">>)
      /\ SameMenu("login", "employee", <<"login", "employee">>)
      /\ SameMenu("start", "customer", <<"start", "customer">>)
      /\ \A x \in States : SameMenu("over", r, <<"over", x[2]>>)
  BY Places DEF SameMenu, Menus, Over
<1>4. <<1>> \in Seq(Anything) /\ <<2>> \in Seq(Anything) /\ <<3>> \in Seq(Anything)
      /\ <<4>> \in Seq(Anything) /\ 1 .. 4 \subseteq Anything
  BY Messages
<1>5. ASSUME NEW x \in States, SameMenu("main", r, x)
      PROVE  /\ Leads(x, <<1>>, <<"login", "admin">>) /\ Leads(x, <<2>>, <<"login", "employee">>)
             /\ Leads(x, <<3>>, <<"start", "customer">>) /\ Leads(x, <<4>>, <<"over", x[2]>>)
  <2>1. \A m \in 1 .. 4, y \in States : Silent(x, m, y) => Leads(x, <<m>>, y)
    BY <1>4, LeadsOne
  <2>2. /\ Silent(x, 1, <<"login", "admin">>) /\ Silent(x, 2, <<"login", "employee">>)
        /\ Silent(x, 3, <<"start", "customer">>) /\ Silent(x, 4, <<"over", x[2]>>)
    BY <1>1, <1>5
  <2>. QED  BY <1>2, <2>1, <2>2
<1>6. ASSUME NEW x \in States, SameMenu("main", r, x)
      PROVE  /\ Understood(x, <<1>>, "login", "admin")
             /\ Understood(x, <<2>>, "login", "employee")
             /\ Understood(x, <<3>>, "start", "customer")
             /\ Understood(x, <<4>>, "over", r)
  BY <1>2, <1>3, <1>5, <1>6 DEF Understood, Menus, Over
<1>. QED  BY <1>4, <1>6 DEF Request, Roles, Menus, Over

LEMMA StartRequests ==
  ASSUME NEW r \in Roles
  PROVE  /\ Request("start", r, <<1>>, "input", r)
         /\ Request("start", r, <<2>>, "login", r)
         /\ Request("start", r, <<3>>, "main", r)
<1>. USE Places, Messages DEF Menus, Awaits, Over, Served
<1>1. Request("start", r, <<1>>, "input", r)
  BY MenuOne DEF Leaves, Silent
<1>2. Request("start", r, <<2>>, "login", r)
  BY MenuOne DEF Leaves, Silent
<1>3. Request("start", r, <<3>>, "main", r)
  BY MenuOne DEF Leaves, Silent
<1>. QED  BY <1>1, <1>2, <1>3

LEMMA LoginRequest ==
  ASSUME NEW r \in Roles
  PROVE  /\ Request("login", r, <<Text, Text>>, "login.sent", r)
<1>. USE Places, Messages DEF Menus, Awaits, Over, Served
<1>1. Request("login", r, <<Text, Text>>, "login.sent", r)
  <2>1. /\ Leaves("login", Text, "login.password", r)
        /\ Asked("login.sent", <<"login.password", r>>, Text)
    BY DEF Leaves, Follows, Silent, Asked
  <2>. QED  BY <2>1, AskTwo
<1>. QED  BY <1>1

LEMMA HomeRequests ==
  ASSUME NEW r \in Roles
  PROVE  /\ Request("home", r, <<1>>, "buy.menu", r)
         /\ Request("home", r, <<2>>, "complain", r)
         /\ Request("home", r, <<3>>, "report", r)
<1>. USE Places, Messages DEF Menus, Awaits, Over, Served
<1>1. Request("home", r, <<1>>, "buy.menu", r)
  BY AskOne DEF Asked
<1>2. Request("home", r, <<2>>, "complain", r)
  BY MenuOne DEF Leaves, Silent
<1>3. Request("home", r, <<3>>, "report", r)
  BY AskOne DEF Asked
<1>. QED  BY <1>1, <1>2, <1>3

LEMMA CustomerLeaves ==
  ASSUME NEW r \in Roles, r = "customer"
  PROVE  /\ Request("home", r, <<4>>, "start", r)
<1>. USE Places, Messages DEF Menus, Awaits, Over, Served
<1>1. Request("home", r, <<4>>, "start", r)
  BY MenuOne DEF Leaves, Silent
<1>. QED  BY <1>1

LEMMA EmployeeLeaves ==
  ASSUME NEW r \in Roles, r = "employee"
  PROVE  /\ Request("home", r, <<4>>, "main", r)
<1>. USE Places, Messages DEF Menus, Awaits, Over, Served
<1>1. Request("home", r, <<4>>, "main", r)
  BY MenuOne DEF Leaves, Silent
<1>. QED  BY <1>1

LEMMA AdminRequests ==
  ASSUME NEW r \in Roles, r = "admin"
  PROVE  /\ Request("home", r, <<4>>, "input", r)
         /\ \A n \in {5, 6, 8, 15} : Request("home", r, <<n>>, "report", r)
         /\ Request("home", r, <<7>>, "stock.report", r)
         /\ \A n \in {9, 10} : Request("home", r, <<n>>, "search", r)
         /\ \A n \in {16, 17} : Request("home", r, <<n>>, "main", r)
         /\ \A n \in {11, 12} : Request("home", r, <<n, Text>>, "home", r)
         /\ \A n \in {13, 14}, a \in Amounts : Request("home", r, <<n, Text, a>>, "balance", r)
<1>. USE Places, Messages DEF Menus, Awaits, Over, Served
<1>1. Request("home", r, <<4>>, "input", r)
  BY MenuOne DEF Leaves, Silent
<1>2. ASSUME NEW n \in {5, 6, 8, 15}
      PROVE  Request("home", r, <<n>>, "report", r)
  BY AskOne DEF Asked
<1>3. Request("home", r, <<7>>, "stock.report", r)
  BY AskOne DEF Asked
<1>4. ASSUME NEW n \in {9, 10}
      PROVE  Request("home", r, <<n>>, "search", r)
  BY MenuOne DEF Leaves, Silent
<1>5. ASSUME NEW n \in {16, 17}
      PROVE  Request("home", r, <<n>>, "main", r)
  BY MenuOne DEF Leaves, Silent
<1>6. ASSUME NEW n \in {11, 12}
      PROVE  Request("home", r, <<n, Text>>, "home", r)
  <2>1. Leaves("home", n, "delete", r) /\ Follows("delete", Text, "home", r)
    BY DEF Leaves, Follows, Silent
  <2>. QED  BY <2>1, MenuTwo
<1>7. ASSUME NEW n \in {13, 14}, NEW a \in Amounts
      PROVE  Request("home", r, <<n, Text, a>>, "balance", r)
  <2>1. /\ Leaves("home", n, "balance", r)
        /\ Follows("balance", Text, "balance.value", r)
        /\ Asked("balance", <<"balance.value", r>>, a)
    BY AmountsAssumption DEF Leaves, Follows, Silent, Asked
  <2>2. /\ n \in Anything /\ Text \in Anything /\ a \in Anything
        /\ "balance" \in Stops /\ "balance.value" \in Stops /\ Partner("home") \in Stops
        /\ "home" \in Menus \ {"main"} /\ "balance" \in Awaits
    BY AmountsAssumption
  <2>. QED  BY ONLY <2>1, <2>2, AskThree
<1>. QED  BY <1>1, <1>2, <1>3, <1>4, <1>5, <1>6, <1>7

LEMMA BuyRequests ==
  ASSUME NEW r \in Roles
  PROVE  /\ \A i \in Amounts, q \in Amounts : Request("buy", r, <<1, i, q>>, "buy.item", r)
         /\ Request("buy", r, <<2>>, "buy.bill", r)
         /\ Request("buy", r, <<3>>, "home", r)
<1>. USE Places, Messages DEF Menus, Awaits, Over, Served
<1>1. ASSUME NEW i \in Amounts, NEW q \in Amounts
      PROVE  Request("buy", r, <<1, i, q>>, "buy.item", r)
  <2>1. /\ Leaves("buy", 1, "buy.item", r)
        /\ Follows("buy.item", i, "buy.quantity", r)
        /\ Asked("buy.item", <<"buy.quantity", r>>, q)
    BY AmountsAssumption DEF Leaves, Follows, Silent, Asked
  <2>2. /\ i \in Anything /\ q \in Anything /\ 1 \in Anything
        /\ "buy.item" \in Stops /\ "buy.quantity" \in Stops /\ Partner("buy") \in Stops
        /\ "buy" \in Menus \ {"main"} /\ "buy.item" \in Awaits
    BY AmountsAssumption
  <2>. QED  BY ONLY <2>1, <2>2, AskThree
<1>2. Request("buy", r, <<2>>, "buy.bill", r)
  BY AskOne DEF Asked
<1>3. Request("buy", r, <<3>>, "home", r)
  BY MenuOne DEF Leaves, Silent
<1>. QED  BY <1>1, <1>2, <1>3

LEMMA ComplaintRequests ==
  ASSUME NEW r \in Roles, r = "customer"
  PROVE  /\ Request("complain", r, <<1, Text>>, "complain.write", r)
         /\ Request("complain", r, <<2>>, "complain.view", r)
         /\ Request("complain", r, <<3, Text>>, "complain.update", r)
         /\ Request("complain", r, <<4>>, "home", r)
<1>. USE Places, Messages DEF Menus, Awaits, Over, Served
<1>1. Request("complain", r, <<1, Text>>, "complain.write", r)
  <2>1. /\ Leaves("complain", 1, "complain.write", r)
        /\ Asked("complain.write", <<"complain.write", r>>, Text)
    BY DEF Leaves, Follows, Silent, Asked
  <2>. QED  BY <2>1, AskTwo
<1>2. Request("complain", r, <<2>>, "complain.view", r)
  BY AskOne DEF Asked
<1>3. Request("complain", r, <<3, Text>>, "complain.update", r)
  <2>1. /\ Leaves("complain", 3, "complain.update", r)
        /\ Asked("complain.update", <<"complain.update", r>>, Text)
    BY DEF Leaves, Follows, Silent, Asked
  <2>. QED  BY <2>1, AskTwo
<1>4. Request("complain", r, <<4>>, "home", r)
  BY MenuOne DEF Leaves, Silent
<1>. QED  BY <1>1, <1>2, <1>3, <1>4

LEMMA AnswerRequests ==
  ASSUME NEW r \in Roles, r # "customer"
  PROVE  /\ \A n \in {1, 2} : Request("complain", r, <<n, Text>>, "complain.see", r)
         /\ Request("complain", r, <<3, Text, Text>>, "complain.answer", r)
         /\ \A n \in {4, 5} : Request("complain", r, <<n>>, "complain.view", r)
         /\ Request("complain", r, <<6>>, "complain", r)
         /\ Request("complain", r, <<7>>, "home", r)
<1>. USE Places, Messages DEF Menus, Awaits, Over, Served
<1>1. ASSUME NEW n \in {1, 2}
      PROVE  Request("complain", r, <<n, Text>>, "complain.see", r)
  <2>1. /\ Leaves("complain", n, "complain.see", r)
        /\ Asked("complain.see", <<"complain.see", r>>, Text)
    BY DEF Leaves, Follows, Silent, Asked
  <2>. QED  BY <2>1, AskTwo
<1>2. Request("complain", r, <<3, Text, Text>>, "complain.answer", r)
  <2>1. /\ Leaves("complain", 3, "complain.answer", r)
        /\ Follows("complain.answer", Text, "complain.response", r)
        /\ Asked("complain.answer", <<"complain.response", r>>, Text)
    BY DEF Leaves, Follows, Silent, Asked
  <2>2. /\ Text \in Anything /\ 3 \in Anything
        /\ "complain.answer" \in Stops /\ "complain.response" \in Stops
        /\ Partner("complain") \in Stops
        /\ "complain" \in Menus \ {"main"} /\ "complain.answer" \in Awaits
    OBVIOUS
  <2>. QED  BY ONLY <2>1, <2>2, AskThree
<1>3. ASSUME NEW n \in {4, 5}
      PROVE  Request("complain", r, <<n>>, "complain.view", r)
  BY AskOne DEF Asked
<1>4. Request("complain", r, <<6>>, "complain", r)
  BY MenuOne DEF Leaves, Silent
<1>5. Request("complain", r, <<7>>, "home", r)
  BY MenuOne DEF Leaves, Silent
<1>. QED  BY <1>1, <1>2, <1>3, <1>4, <1>5

LEMMA SearchRequests ==
  ASSUME NEW r \in Roles
  PROVE  /\ \A n \in 1 .. 5 : Request("search", r, <<n, Text>>, "search.key", r)
         /\ Request("search", r, <<6>>, "home", r)
<1>. USE Places, Messages DEF Menus, Awaits, Over, Served
<1>1. ASSUME NEW n \in 1 .. 5
      PROVE  Request("search", r, <<n, Text>>, "search.key", r)
  <2>1. /\ Leaves("search", n, "search.key", r)
        /\ Asked("search.key", <<"search.key", r>>, Text)
    BY DEF Leaves, Follows, Silent, Asked
  <2>. QED  BY <2>1, AskTwo
<1>2. Request("search", r, <<6>>, "home", r)
  BY MenuOne DEF Leaves, Silent
<1>. QED  BY <1>1, <1>2

LEMMA StockRequests ==
  ASSUME NEW r \in Roles
  PROVE  /\ Request("stock", r, <<1, Text>>, "stock.order", r)
         /\ Request("stock", r, <<2, Text>>, "stock.modify", r)
<1>. USE Places, Messages DEF Menus, Awaits, Over, Served
<1>1. Request("stock", r, <<1, Text>>, "stock.order", r)
  <2>1. /\ Leaves("stock", 1, "stock.order", r)
        /\ Asked("stock.order", <<"stock.order", r>>, Text)
    BY DEF Leaves, Follows, Silent, Asked
  <2>. QED  BY <2>1, AskTwo
<1>2. Request("stock", r, <<2, Text>>, "stock.modify", r)
  <2>1. /\ Leaves("stock", 2, "stock.modify", r)
        /\ Asked("stock.modify", <<"stock.modify", r>>, Text)
    BY DEF Leaves, Follows, Silent, Asked
  <2>. QED  BY <2>1, AskTwo
<1>. QED  BY <1>1, <1>2

LEMMA AmountRequest ==
  ASSUME NEW r \in Roles
  PROVE  /\ \A a \in Amounts : Request("stock.amount", r, <<a>>, "stock.placed", r)
<1>. USE Places, Messages DEF Menus, Awaits, Over, Served
<1>1. ASSUME NEW a \in Amounts
      PROVE  Request("stock.amount", r, <<a>>, "stock.placed", r)
  BY AskOne, AmountsAssumption DEF Asked
<1>. QED  BY <1>1

LEMMA TermsRequest ==
  ASSUME NEW r \in Roles
  PROVE  /\ \A a \in Amounts : Request("stock.terms", r, <<a, a, a>>, "home", r)
<1>. USE Places, Messages DEF Menus, Awaits, Over, Served
<1>1. ASSUME NEW a \in Amounts
      PROVE  Request("stock.terms", r, <<a, a, a>>, "home", r)
  <2>1. /\ Leaves("stock.terms", a, "stock.level", r)
        /\ Follows("stock.level", a, "stock.amount", r)
        /\ Follows("stock.amount", a, "home", r)
    BY AmountsAssumption DEF Leaves, Follows, Silent
  <2>2. a \in Anything
    BY AmountsAssumption
  <2>. QED  BY <2>1, <2>2, MenuThree
<1>. QED  BY <1>1

(* The form. *)
LEMMA FormRequest ==
  ASSUME NEW r \in Roles, NEW f \in Forms
  PROVE  Request("input", r, Transfer(f), "input.sent", r)
<1>1. <<"input", r>> \in States
  BY DEF States, Stops, Strings
<1>2. Leads(<<"input", r>>, <<>>, <<"input", r>>)
  BY <1>1, LeadsNone
<1>3. Transfer(f) \in Seq(Anything) /\ <<>> \in Seq(Anything) /\ <<>> \o Transfer(f) = Transfer(f)
  BY TransferType, EmptySeq, ConcatEmptySeq
<1>4. Understood(<<"input", r>>, Transfer(f), "input.sent", r)
  BY <1>2, <1>3 DEF Understood
<1>. QED  BY <1>3, <1>4, StateIs, Places DEF Request, Menus, Awaits, Over

-----------------------------------------------------------------------------
(* What the client makes of an answer. *)

(* In to, the words w are still to come, or there are none and both ends are *)
(* in the same menu.                                                         *)
Goes(to, r, w, p, o) ==
    \/ to \in Menus \ {"main"} /\ w = <<>> /\ p = Partner(to)
    \/ to \in Awaits /\ Reply(to, r, w, p, o)

HearsWell(c, r, words, to) ==
    /\ to \in Menus \cup Awaits
    /\ c = "search.key" /\ "TRUE" \in words => to \in Awaits
    /\ \A w, p, o : Reply(c, r, w, p, o) /\ Head(w) \in words => Goes(to, r, Tail(w), p, o)

TellsTruth(c, r, words, to, claim) ==
    /\ to \in Menus \cup Awaits /\ claim \in Claims /\ c # "search.key"
    /\ "" \in words => claim \in {"order", "stock"}
    /\ \A w, p, o : Reply(c, r, w, p, o) /\ Head(w) \in words =>
          o[claim] = 1 /\ \A o2 : Goes(to, r, Tail(w), p, o2)

LEMMA Heads ==
  /\ \A a : Head(<<a>>) = a /\ Tail(<<a>>) = <<>>
  /\ \A a, b : Head(<<a, b>>) = a /\ Tail(<<a, b>>) = <<b>>
OBVIOUS

LEMMA SignUpHeard ==
  ASSUME NEW r \in Roles, r = "customer"
  PROVE  /\ HearsWell("input.sent", r, Words \ {"true"}, "start")
         /\ TellsTruth("input.sent", r, {"true"}, "start", "account")
<1>1. HearsWell("input.sent", r, Words \ {"true"}, "start")
  <2>1. ASSUME NEW w, NEW p, NEW o, Reply("input.sent", r, w, p, o), Head(w) \in Words \ {"true"}
        PROVE  Goes("start", r, Tail(w), p, o)
    <3>1. w # <<"true">>
      BY <2>1, Heads
    <3>2. p = "start" /\ w = <<"false">>
      BY <2>1, <3>1 DEF Reply, Settled, Yes, No
    <3>. QED  BY <3>2, Heads, Places DEF Goes, Reply, Settled, Yes, No, Menus, Awaits
  <2>. QED  BY <2>1 DEF HearsWell, Menus, Awaits
<1>2. TellsTruth("input.sent", r, {"true"}, "start", "account")
  <2>1. ASSUME NEW w, NEW p, NEW o, Reply("input.sent", r, w, p, o), Head(w) \in {"true"}
        PROVE  o["account"] = 1 /\ \A o2 : Goes("start", r, Tail(w), p, o2)
    <3>1. p = "start" /\ w = <<"true">> /\ o["account"] = 1
      BY <2>1 DEF Reply, Settled, Yes, No
    <3>. QED  BY <3>1, Heads, Places DEF Goes, Reply, Settled, Yes, No, Menus, Awaits
  <2>. QED  BY <2>1 DEF TellsTruth, Claims, Menus, Awaits
<1>. QED  BY <1>1, <1>2

LEMMA EmployeeHeard ==
  ASSUME NEW r \in Roles, r # "customer"
  PROVE  HearsWell("input.sent", r, Words, "employee.sent")
<1>1. HearsWell("input.sent", r, Words, "employee.sent")
  <2>1. ASSUME NEW w, NEW p, NEW o, Reply("input.sent", r, w, p, o), Head(w) \in Words
        PROVE  Goes("employee.sent", r, Tail(w), p, o)
    <3>1. p = "home" /\ (w = <<"false", "FALSE">> \/ (w = <<"true", "TRUE">> /\ o["account"] = 1))
      BY <2>1 DEF Reply, Settled, Yes, No
    <3>2. Tail(w) = <<"FALSE">> \/ (Tail(w) = <<"TRUE">> /\ o["account"] = 1)
      BY <3>1, Heads
    <3>. QED  BY <3>1, <3>2, Places DEF Goes, Reply, Settled, Yes, No, Menus, Awaits
  <2>. QED  BY <2>1 DEF HearsWell, Menus, Awaits
<1>. QED  BY <1>1

LEMMA AccountHeard ==
  ASSUME NEW r \in Roles
  PROVE  /\ TellsTruth("employee.sent", r, {"TRUE"}, "home", "account")
         /\ HearsWell("employee.sent", r, Words \ {"TRUE"}, "home")
<1>1. TellsTruth("employee.sent", r, {"TRUE"}, "home", "account")
  <2>1. ASSUME NEW w, NEW p, NEW o, Reply("employee.sent", r, w, p, o), Head(w) \in {"TRUE"}
        PROVE  o["account"] = 1 /\ \A o2 : Goes("home", r, Tail(w), p, o2)
    <3>1. p = "home" /\ w = <<"TRUE">> /\ o["account"] = 1
      BY <2>1 DEF Reply, Settled, Yes, No
    <3>. QED  BY <3>1, Heads, Places DEF Goes, Reply, Settled, Yes, No, Menus, Awaits
  <2>. QED  BY <2>1 DEF TellsTruth, Claims, Menus, Awaits
<1>2. HearsWell("employee.sent", r, Words \ {"TRUE"}, "home")
  <2>1. ASSUME NEW w, NEW p, NEW o, Reply("employee.sent", r, w, p, o), Head(w) \in Words \ {"TRUE"}
        PROVE  Goes("home", r, Tail(w), p, o)
    <3>1. w # <<"TRUE">> /\ w # <<"TRUE", "text">>
      BY <2>1, Heads
    <3>2. p = "home" /\ w = <<"FALSE">>
      BY <2>1, <3>1 DEF Reply, Settled, Yes, No
    <3>. QED  BY <3>2, Heads, Places DEF Goes, Reply, Settled, Yes, No, Menus, Awaits
  <2>. QED  BY <2>1 DEF HearsWell, Menus, Awaits
<1>. QED  BY <1>1, <1>2

LEMMA LoginHeard ==
  ASSUME NEW r \in Roles
  PROVE  /\ HearsWell("login.sent", r, {"Correct"}, "home")
         /\ HearsWell("login.sent", r, Words \ {"Correct"}, "login")
<1>1. HearsWell("login.sent", r, {"Correct"}, "home")
  <2>1. ASSUME NEW w, NEW p, NEW o, Reply("login.sent", r, w, p, o), Head(w) \in {"Correct"}
        PROVE  Goes("home", r, Tail(w), p, o)
    <3>1. p = "home" /\ w = <<"Correct">>
      BY <2>1 DEF Reply, Settled, Yes, No
    <3>. QED  BY <3>1, Heads, Places DEF Goes, Reply, Settled, Yes, No, Menus, Awaits
  <2>. QED  BY <2>1 DEF HearsWell, Menus, Awaits
<1>2. HearsWell("login.sent", r, Words \ {"Correct"}, "login")
  <2>1. ASSUME NEW w, NEW p, NEW o, Reply("login.sent", r, w, p, o), Head(w) \in Words \ {"Correct"}
        PROVE  Goes("login", r, Tail(w), p, o)
    <3>1. w # <<"Correct">>
      BY <2>1, Heads
    <3>2. p = "login" /\ w = <<"Incorrect">>
      BY <2>1, <3>1 DEF Reply, Settled, Yes, No
    <3>. QED  BY <3>2, Heads, Places DEF Goes, Reply, Settled, Yes, No, Menus, Awaits
  <2>. QED  BY <2>1 DEF HearsWell, Menus, Awaits
<1>. QED  BY <1>1, <1>2

LEMMA BalanceHeard ==
  ASSUME NEW r \in Roles
  PROVE  /\ TellsTruth("balance", r, {"TRUE"}, "home", "balance")
         /\ HearsWell("balance", r, Words \ {"TRUE"}, "home")
<1>1. TellsTruth("balance", r, {"TRUE"}, "home", "balance")
  <2>1. ASSUME NEW w, NEW p, NEW o, Reply("balance", r, w, p, o), Head(w) \in {"TRUE"}
        PROVE  o["balance"] = 1 /\ \A o2 : Goes("home", r, Tail(w), p, o2)
    <3>1. p = "home" /\ w = <<"TRUE">> /\ o["balance"] = 1
      BY <2>1 DEF Reply, Settled, Yes, No
    <3>. QED  BY <3>1, Heads, Places DEF Goes, Reply, Settled, Yes, No, Menus, Awaits
  <2>. QED  BY <2>1 DEF TellsTruth, Claims, Menus, Awaits
<1>2. HearsWell("balance", r, Words \ {"TRUE"}, "home")
  <2>1. ASSUME NEW w, NEW p, NEW o, Reply("balance", r, w, p, o), Head(w) \in Words \ {"TRUE"}
        PROVE  Goes("home", r, Tail(w), p, o)
    <3>1. w # <<"TRUE">> /\ w # <<"TRUE", "text">>
      BY <2>1, Heads
    <3>2. p = "home" /\ w = <<"FALSE">>
      BY <2>1, <3>1 DEF Reply, Settled, Yes, No
    <3>. QED  BY <3>2, Heads, Places DEF Goes, Reply, Settled, Yes, No, Menus, Awaits
  <2>. QED  BY <2>1 DEF HearsWell, Menus, Awaits
<1>. QED  BY <1>1, <1>2

LEMMA ReportHeard ==
  ASSUME NEW r \in Roles
  PROVE  HearsWell("report", r, Words, "home")
<1>1. HearsWell("report", r, Words, "home")
  <2>1. ASSUME NEW w, NEW p, NEW o, Reply("report", r, w, p, o), Head(w) \in Words
        PROVE  Goes("home", r, Tail(w), p, o)
    <3>1. p = "home" /\ w = <<"text">>
      BY <2>1 DEF Reply, Settled, Yes, No
    <3>. QED  BY <3>1, Heads, Places DEF Goes, Reply, Settled, Yes, No, Menus, Awaits
  <2>. QED  BY <2>1 DEF HearsWell, Menus, Awaits
<1>. QED  BY <1>1

LEMMA BuyHeard ==
  ASSUME NEW r \in Roles
  PROVE  /\ HearsWell("buy.menu", r, Words, "buy")
         /\ HearsWell("buy.item", r, Words, "buy.menu")
         /\ HearsWell("buy.bill", r, Refusals, "buy.menu")
         /\ TellsTruth("buy.bill", r, Words \ Refusals, "buy.menu", "order")
<1>1. HearsWell("buy.menu", r, Words, "buy")
  <2>1. ASSUME NEW w, NEW p, NEW o, Reply("buy.menu", r, w, p, o), Head(w) \in Words
        PROVE  Goes("buy", r, Tail(w), p, o)
    <3>1. p = "buy" /\ w = <<"text">>
      BY <2>1 DEF Reply, Settled, Yes, No
    <3>. QED  BY <3>1, Heads, Places DEF Goes, Reply, Settled, Yes, No, Menus, Awaits
  <2>. QED  BY <2>1 DEF HearsWell, Menus, Awaits
<1>2. HearsWell("buy.item", r, Words, "buy.menu")
  <2>1. ASSUME NEW w, NEW p, NEW o, Reply("buy.item", r, w, p, o), Head(w) \in Words
        PROVE  Goes("buy.menu", r, Tail(w), p, o)
    <3>1. p = "buy" /\ (w = <<"ENOUGH", "text">> \/ w = <<"NOT-ENOUGH", "text">>)
      BY <2>1 DEF Reply, Settled, Yes, No
    <3>2. Tail(w) = <<"text">>
      BY <3>1, Heads
    <3>. QED  BY <3>1, <3>2, Places DEF Goes, Reply, Settled, Yes, No, Menus, Awaits
  <2>. QED  BY <2>1 DEF HearsWell, Menus, Awaits
<1>3. HearsWell("buy.bill", r, Refusals, "buy.menu")
  <2>1. ASSUME NEW w, NEW p, NEW o, Reply("buy.bill", r, w, p, o), Head(w) \in Refusals
        PROVE  Goes("buy.menu", r, Tail(w), p, o)
    <3>1. p = "buy" /\ (w = <<"NO-ORDER", "text">> \/ w = <<"Your", "text">>)
      BY <2>1 DEF Reply, Settled, Yes, No, Refusals
    <3>2. Tail(w) = <<"text">>
      BY <3>1, Heads
    <3>. QED  BY <3>1, <3>2, Places DEF Goes, Reply, Settled, Yes, No, Menus, Awaits
  <2>. QED  BY <2>1 DEF HearsWell, Refusals, Menus, Awaits
<1>4. TellsTruth("buy.bill", r, Words \ Refusals, "buy.menu", "order")
  <2>1. ASSUME NEW w, NEW p, NEW o, Reply("buy.bill", r, w, p, o), Head(w) \in Words \ Refusals
        PROVE  o["order"] = 1 /\ \A o2 : Goes("buy.menu", r, Tail(w), p, o2)
    <3>1. w # <<"NO-ORDER", "text">> /\ w # <<"Your", "text">>
      BY <2>1, Heads DEF Refusals
    <3>2. p = "buy" /\ w = <<"Cost", "text">> /\ o["order"] = 1
      BY <2>1, <3>1 DEF Reply, Settled, Yes, No
    <3>. QED  BY <3>2, Heads, Places DEF Goes, Reply, Settled, Yes, No, Menus, Awaits
  <2>. QED  BY <2>1 DEF TellsTruth, Claims, Refusals, Menus, Awaits
<1>. QED  BY <1>1, <1>2, <1>3, <1>4

LEMMA ComplaintHeard ==
  ASSUME NEW r \in Roles
  PROVE  /\ TellsTruth("complain.write", r, {"TRUE"}, "complain", "complaint")
         /\ TellsTruth("complain.update", r, {"TRUE"}, "complain", "complaint")
         /\ HearsWell("complain.write", r, Words \ {"TRUE"}, "complain")
         /\ HearsWell("complain.update", r, Words \ {"TRUE"}, "complain")
         /\ HearsWell("complain.view", r, Words, "complain")
<1>1. TellsTruth("complain.write", r, {"TRUE"}, "complain", "complaint")
  <2>1. ASSUME NEW w, NEW p, NEW o, Reply("complain.write", r, w, p, o), Head(w) \in {"TRUE"}
        PROVE  o["complaint"] = 1 /\ \A o2 : Goes("complain", r, Tail(w), p, o2)
    <3>1. p = "complain" /\ w = <<"TRUE">> /\ o["complaint"] = 1
      BY <2>1 DEF Reply, Settled, Yes, No
    <3>. QED  BY <3>1, Heads, Places DEF Goes, Reply, Settled, Yes, No, Menus, Awaits
  <2>. QED  BY <2>1 DEF TellsTruth, Claims, Menus, Awaits
<1>2. TellsTruth("complain.update", r, {"TRUE"}, "complain", "complaint")
  <2>1. ASSUME NEW w, NEW p, NEW o, Reply("complain.update", r, w, p, o), Head(w) \in {"TRUE"}
        PROVE  o["complaint"] = 1 /\ \A o2 : Goes("complain", r, Tail(w), p, o2)
    <3>1. p = "complain" /\ w = <<"TRUE">> /\ o["complaint"] = 1
      BY <2>1 DEF Reply, Settled, Yes, No
    <3>. QED  BY <3>1, Heads, Places DEF Goes, Reply, Settled, Yes, No, Menus, Awaits
  <2>. QED  BY <2>1 DEF TellsTruth, Claims, Menus, Awaits
<1>3. HearsWell("complain.write", r, Words \ {"TRUE"}, "complain")
  <2>1. ASSUME NEW w, NEW p, NEW o, Reply("complain.write", r, w, p, o), Head(w) \in Words \ {"TRUE"}
        PROVE  Goes("complain", r, Tail(w), p, o)
    <3>1. w # <<"TRUE">> /\ w # <<"TRUE", "text">>
      BY <2>1, Heads
    <3>2. p = "complain" /\ (w = <<"FAILED">> \/ w = <<"FALSE">>)
      BY <2>1, <3>1 DEF Reply, Settled, Yes, No
    <3>3. Tail(w) = <<>>
      BY <3>2, Heads
    <3>. QED  BY <3>2, <3>3, Places DEF Goes, Reply, Settled, Yes, No, Menus, Awaits
  <2>. QED  BY <2>1 DEF HearsWell, Menus, Awaits
<1>4. HearsWell("complain.update", r, Words \ {"TRUE"}, "complain")
  <2>1. ASSUME NEW w, NEW p, NEW o, Reply("complain.update", r, w, p, o), Head(w) \in Words \ {"TRUE"}
        PROVE  Goes("complain", r, Tail(w), p, o)
    <3>1. w # <<"TRUE">> /\ w # <<"TRUE", "text">>
      BY <2>1, Heads
    <3>2. p = "complain" /\ (w = <<"FAILED">> \/ w = <<"FALSE">>)
      BY <2>1, <3>1 DEF Reply, Settled, Yes, No
    <3>3. Tail(w) = <<>>
      BY <3>2, Heads
    <3>. QED  BY <3>2, <3>3, Places DEF Goes, Reply, Settled, Yes, No, Menus, Awaits
  <2>. QED  BY <2>1 DEF HearsWell, Menus, Awaits
<1>5. HearsWell("complain.view", r, Words, "complain")
  <2>1. ASSUME NEW w, NEW p, NEW o, Reply("complain.view", r, w, p, o), Head(w) \in Words
        PROVE  Goes("complain", r, Tail(w), p, o)
    <3>1. p = "complain" /\ (w = <<"text">> \/ w = <<"">>)
      BY <2>1 DEF Reply, Settled, Yes, No
    <3>2. Tail(w) = <<>>
      BY <3>1, Heads
    <3>. QED  BY <3>1, <3>2, Places DEF Goes, Reply, Settled, Yes, No, Menus, Awaits
  <2>. QED  BY <2>1 DEF HearsWell, Menus, Awaits
<1>. QED  BY <1>1, <1>2, <1>3, <1>4, <1>5

LEMMA AnswerHeard ==
  ASSUME NEW r \in Roles
  PROVE  /\ HearsWell("complain.see", r, {"TRUE"}, "complain.view")
         /\ HearsWell("complain.see", r, Words \ {"TRUE"}, "complain")
         /\ TellsTruth("complain.answer", r, {"TRUE"}, "complain", "complaint")
         /\ HearsWell("complain.answer", r, Words \ {"TRUE"}, "complain")
<1>1. HearsWell("complain.see", r, {"TRUE"}, "complain.view")
  <2>1. ASSUME NEW w, NEW p, NEW o, Reply("complain.see", r, w, p, o), Head(w) \in {"TRUE"}
        PROVE  Goes("complain.view", r, Tail(w), p, o)
    <3>1. p = "complain" /\ w = <<"TRUE", "text">>
      BY <2>1 DEF Reply, Settled, Yes, No
    <3>. QED  BY <3>1, Heads, Places DEF Goes, Reply, Settled, Yes, No, Menus, Awaits
  <2>. QED  BY <2>1 DEF HearsWell, Menus, Awaits
<1>2. HearsWell("complain.see", r, Words \ {"TRUE"}, "complain")
  <2>1. ASSUME NEW w, NEW p, NEW o, Reply("complain.see", r, w, p, o), Head(w) \in Words \ {"TRUE"}
        PROVE  Goes("complain", r, Tail(w), p, o)
    <3>1. w # <<"TRUE">> /\ w # <<"TRUE", "text">>
      BY <2>1, Heads
    <3>2. p = "complain" /\ w = <<"FALSE">>
      BY <2>1, <3>1 DEF Reply, Settled, Yes, No
    <3>. QED  BY <3>2, Heads, Places DEF Goes, Reply, Settled, Yes, No, Menus, Awaits
  <2>. QED  BY <2>1 DEF HearsWell, Menus, Awaits
<1>3. TellsTruth("complain.answer", r, {"TRUE"}, "complain", "complaint")
  <2>1. ASSUME NEW w, NEW p, NEW o, Reply("complain.answer", r, w, p, o), Head(w) \in {"TRUE"}
        PROVE  o["complaint"] = 1 /\ \A o2 : Goes("complain", r, Tail(w), p, o2)
    <3>1. p = "complain" /\ w = <<"TRUE">> /\ o["complaint"] = 1
      BY <2>1 DEF Reply, Settled, Yes, No
    <3>. QED  BY <3>1, Heads, Places DEF Goes, Reply, Settled, Yes, No, Menus, Awaits
  <2>. QED  BY <2>1 DEF TellsTruth, Claims, Menus, Awaits
<1>4. HearsWell("complain.answer", r, Words \ {"TRUE"}, "complain")
  <2>1. ASSUME NEW w, NEW p, NEW o, Reply("complain.answer", r, w, p, o), Head(w) \in Words \ {"TRUE"}
        PROVE  Goes("complain", r, Tail(w), p, o)
    <3>1. w # <<"TRUE">> /\ w # <<"TRUE", "text">>
      BY <2>1, Heads
    <3>2. p = "complain" /\ (w = <<"FAILED">> \/ w = <<"FALSE">>)
      BY <2>1, <3>1 DEF Reply, Settled, Yes, No
    <3>3. Tail(w) = <<>>
      BY <3>2, Heads
    <3>. QED  BY <3>2, <3>3, Places DEF Goes, Reply, Settled, Yes, No, Menus, Awaits
  <2>. QED  BY <2>1 DEF HearsWell, Menus, Awaits
<1>. QED  BY <1>1, <1>2, <1>3, <1>4

LEMMA SearchHeard ==
  ASSUME NEW r \in Roles
  PROVE  /\ HearsWell("search.key", r, {"TRUE"}, "search.profile")
         /\ HearsWell("search.key", r, Words \ {"TRUE"}, "search")
         /\ HearsWell("search.profile", r, Words, "search")
<1>1. HearsWell("search.key", r, {"TRUE"}, "search.profile")
  <2>1. ASSUME NEW w, NEW p, NEW o, Reply("search.key", r, w, p, o), Head(w) \in {"TRUE"}
        PROVE  Goes("search.profile", r, Tail(w), p, o)
    <3>1. p = "search" /\ w = <<"TRUE", "text">>
      BY <2>1 DEF Reply, Settled, Yes, No
    <3>. QED  BY <3>1, Heads, Places DEF Goes, Reply, Settled, Yes, No, Menus, Awaits
  <2>. QED  BY <2>1 DEF HearsWell, Menus, Awaits
<1>2. HearsWell("search.key", r, Words \ {"TRUE"}, "search")
  <2>1. ASSUME NEW w, NEW p, NEW o, Reply("search.key", r, w, p, o), Head(w) \in Words \ {"TRUE"}
        PROVE  Goes("search", r, Tail(w), p, o)
    <3>1. w # <<"TRUE">> /\ w # <<"TRUE", "text">>
      BY <2>1, Heads
    <3>2. p = "search" /\ w = <<"FALSE">>
      BY <2>1, <3>1 DEF Reply, Settled, Yes, No
    <3>. QED  BY <3>2, Heads, Places DEF Goes, Reply, Settled, Yes, No, Menus, Awaits
  <2>. QED  BY <2>1 DEF HearsWell, Menus, Awaits
<1>3. HearsWell("search.profile", r, Words, "search")
  <2>1. ASSUME NEW w, NEW p, NEW o, Reply("search.profile", r, w, p, o), Head(w) \in Words
        PROVE  Goes("search", r, Tail(w), p, o)
    <3>1. p = "search" /\ w = <<"text">>
      BY <2>1 DEF Reply, Settled, Yes, No
    <3>. QED  BY <3>1, Heads, Places DEF Goes, Reply, Settled, Yes, No, Menus, Awaits
  <2>. QED  BY <2>1 DEF HearsWell, Menus, Awaits
<1>. QED  BY <1>1, <1>2, <1>3

LEMMA StockHeard ==
  ASSUME NEW r \in Roles
  PROVE  /\ HearsWell("stock.report", r, Words, "stock")
         /\ HearsWell("stock.order", r, {"FALSE"}, "home")
         /\ HearsWell("stock.order", r, Words \ {"FALSE"}, "stock.amount")
         /\ HearsWell("stock.placed", r, {"FALSE"}, "home")
         /\ TellsTruth("stock.placed", r, Words \ {"FALSE"}, "home", "stock")
         /\ HearsWell("stock.modify", r, {"FALSE"}, "home")
         /\ HearsWell("stock.modify", r, Words \ {"FALSE"}, "stock.terms")
<1>1. HearsWell("stock.report", r, Words, "stock")
  <2>1. ASSUME NEW w, NEW p, NEW o, Reply("stock.report", r, w, p, o), Head(w) \in Words
        PROVE  Goes("stock", r, Tail(w), p, o)
    <3>1. p = "stock" /\ w = <<"text">>
      BY <2>1 DEF Reply, Settled, Yes, No
    <3>. QED  BY <3>1, Heads, Places DEF Goes, Reply, Settled, Yes, No, Menus, Awaits
  <2>. QED  BY <2>1 DEF HearsWell, Menus, Awaits
<1>2. HearsWell("stock.order", r, {"FALSE"}, "home")
  <2>1. ASSUME NEW w, NEW p, NEW o, Reply("stock.order", r, w, p, o), Head(w) \in {"FALSE"}
        PROVE  Goes("home", r, Tail(w), p, o)
    <3>1. p = "home" /\ w = <<"FALSE">>
      BY <2>1 DEF Reply, Settled, Yes, No
    <3>. QED  BY <3>1, Heads, Places DEF Goes, Reply, Settled, Yes, No, Menus, Awaits
  <2>. QED  BY <2>1 DEF HearsWell, Menus, Awaits
<1>3. HearsWell("stock.order", r, Words \ {"FALSE"}, "stock.amount")
  <2>1. ASSUME NEW w, NEW p, NEW o, Reply("stock.order", r, w, p, o), Head(w) \in Words \ {"FALSE"}
        PROVE  Goes("stock.amount", r, Tail(w), p, o)
    <3>1. w # <<"FALSE">>
      BY <2>1, Heads
    <3>2. p = "stock.quantity" /\ w = <<"TRUE">>
      BY <2>1, <3>1 DEF Reply, Settled, Yes, No
    <3>. QED  BY <3>2, Heads, Places DEF Goes, Reply, Settled, Yes, No, Menus, Awaits
  <2>. QED  BY <2>1 DEF HearsWell, Menus, Awaits
<1>4. HearsWell("stock.placed", r, {"FALSE"}, "home")
  <2>1. ASSUME NEW w, NEW p, NEW o, Reply("stock.placed", r, w, p, o), Head(w) \in {"FALSE"}
        PROVE  Goes("home", r, Tail(w), p, o)
    <3>1. p = "home" /\ w = <<"FALSE">>
      BY <2>1 DEF Reply, Settled, Yes, No
    <3>. QED  BY <3>1, Heads, Places DEF Goes, Reply, Settled, Yes, No, Menus, Awaits
  <2>. QED  BY <2>1 DEF HearsWell, Menus, Awaits
<1>5. TellsTruth("stock.placed", r, Words \ {"FALSE"}, "home", "stock")
  <2>1. ASSUME NEW w, NEW p, NEW o, Reply("stock.placed", r, w, p, o), Head(w) \in Words \ {"FALSE"}
        PROVE  o["stock"] = 1 /\ \A o2 : Goes("home", r, Tail(w), p, o2)
    <3>1. w # <<"FALSE">>
      BY <2>1, Heads
    <3>2. p = "home" /\ w = <<"TRUE">> /\ o["stock"] = 1
      BY <2>1, <3>1 DEF Reply, Settled, Yes, No
    <3>. QED  BY <3>2, Heads, Places DEF Goes, Reply, Settled, Yes, No, Menus, Awaits
  <2>. QED  BY <2>1 DEF TellsTruth, Claims, Menus, Awaits
<1>6. HearsWell("stock.modify", r, {"FALSE"}, "home")
  <2>1. ASSUME NEW w, NEW p, NEW o, Reply("stock.modify", r, w, p, o), Head(w) \in {"FALSE"}
        PROVE  Goes("home", r, Tail(w), p, o)
    <3>1. p = "home" /\ w = <<"FALSE">>
      BY <2>1 DEF Reply, Settled, Yes, No
    <3>. QED  BY <3>1, Heads, Places DEF Goes, Reply, Settled, Yes, No, Menus, Awaits
  <2>. QED  BY <2>1 DEF HearsWell, Menus, Awaits
<1>7. HearsWell("stock.modify", r, Words \ {"FALSE"}, "stock.terms")
  <2>1. ASSUME NEW w, NEW p, NEW o, Reply("stock.modify", r, w, p, o), Head(w) \in Words \ {"FALSE"}
        PROVE  Goes("stock.terms", r, Tail(w), p, o)
    <3>1. w # <<"FALSE">>
      BY <2>1, Heads
    <3>2. p = "stock.price" /\ w = <<"TRUE">>
      BY <2>1, <3>1 DEF Reply, Settled, Yes, No
    <3>. QED  BY <3>2, Heads, Places DEF Goes, Reply, Settled, Yes, No, Menus, Awaits
  <2>. QED  BY <2>1 DEF HearsWell, Menus, Awaits
<1>. QED  BY <1>1, <1>2, <1>3, <1>4, <1>5, <1>6, <1>7

-----------------------------------------------------------------------------
(* Every step of the client, but closing its window and leaving the stock    *)
(* menu, is one of these.                                                    *)
ClientDoes ==
    \/ /\ client \in Menus
       /\ \E says, to, r :
             AsksAs(client, says, to, r) /\ Request(client, cRole, says, to, r)
    \/ /\ client \in Awaits
       /\ \E words, to :
             Told(client, words, to) /\ HearsWell(client, cRole, words, to)
    \/ /\ client \in Awaits
       /\ \E words, to, claim :
             /\ Reports(client, words, to, claim)
             /\ TellsTruth(client, cRole, words, to, claim)

LEMMA Becoming ==
  ASSUME NEW from \in Menus, NEW says, NEW to, NEW r,
         AsksAs(from, says, to, r), Request(from, cRole, says, to, r)
  PROVE  ClientDoes
<1>1. client = from
  BY DEF AsksAs
<1>. QED  BY <1>1 DEF ClientDoes

LEMMA Asking ==
  ASSUME NEW from \in Menus, NEW says, NEW to,
         Asks(from, says, to), Request(from, cRole, says, to, cRole)
  PROVE  ClientDoes
<1>1. client = from
  BY DEF Asks, AsksAs
<1>. QED  BY <1>1 DEF ClientDoes, Asks

LEMMA Hearing ==
  ASSUME NEW from \in Awaits, NEW words, NEW to,
         Told(from, words, to), HearsWell(from, cRole, words, to)
  PROVE  ClientDoes
<1>1. client = from
  BY DEF Told, Reads
<1>. QED  BY <1>1 DEF ClientDoes

LEMMA Reporting ==
  ASSUME NEW from \in Awaits, NEW words, NEW to, NEW claim,
         Reports(from, words, to, claim), TellsTruth(from, cRole, words, to, claim)
  PROVE  ClientDoes
<1>1. client = from
  BY DEF Reports, Reads
<1>. QED  BY <1>1 DEF ClientDoes

LEMMA MainMenuDoes ==
  ASSUME cRole \in Roles, MainMenu
  PROVE  ClientDoes
<1>1. CASE AsksAs("main", <<1>>, "login", "admin")
  BY <1>1, MainRequests, Becoming DEF Menus, Awaits
<1>2. CASE AsksAs("main", <<2>>, "login", "employee")
  BY <1>2, MainRequests, Becoming DEF Menus, Awaits
<1>3. CASE AsksAs("main", <<3>>, "start", "customer")
  BY <1>3, MainRequests, Becoming DEF Menus, Awaits
<1>4. CASE Asks("main", <<4>>, "over")
  BY <1>4, MainRequests, Asking DEF Menus, Awaits
<1>. QED  BY <1>1, <1>2, <1>3, <1>4 DEF MainMenu

LEMMA StartMenuDoes ==
  ASSUME cRole \in Roles, StartMenu
  PROVE  ClientDoes
<1>1. CASE Asks("start", <<1>>, "input")
  BY <1>1, StartRequests, Asking DEF Menus, Awaits
<1>2. CASE Asks("start", <<2>>, "login")
  BY <1>2, StartRequests, Asking DEF Menus, Awaits
<1>3. CASE Asks("start", <<3>>, "main")
  BY <1>3, StartRequests, Asking DEF Menus, Awaits
<1>. QED  BY <1>1, <1>2, <1>3 DEF StartMenu

LEMMA SignedUpDoes ==
  ASSUME cRole \in Roles, SignedUp
  PROVE  ClientDoes
<1>1. cRole = "customer"
  BY DEF SignedUp
<1>2. CASE Reports("input.sent", {"true"}, "start", "account")
  BY <1>1, <1>2, SignUpHeard, Reporting DEF Menus, Awaits
<1>3. CASE Told("input.sent", Words \ {"true"}, "start")
  BY <1>1, <1>3, SignUpHeard, Hearing DEF Menus, Awaits
<1>. QED  BY <1>1, <1>2, <1>3 DEF SignedUp

LEMMA EmployeeAddedDoes ==
  ASSUME cRole \in Roles, EmployeeAdded
  PROVE  ClientDoes
<1>1. CASE cRole # "customer" /\ Told("input.sent", Words, "employee.sent")
  BY <1>1, EmployeeHeard, Hearing DEF Menus, Awaits
<1>2. CASE Reports("employee.sent", {"TRUE"}, "home", "account")
  BY <1>2, AccountHeard, Reporting DEF Menus, Awaits
<1>3. CASE Told("employee.sent", Words \ {"TRUE"}, "home")
  BY <1>3, AccountHeard, Hearing DEF Menus, Awaits
<1>. QED  BY <1>1, <1>2, <1>3 DEF EmployeeAdded

LEMMA LoginDoes ==
  ASSUME cRole \in Roles, Login
  PROVE  ClientDoes
<1>1. CASE Asks("login", <<Text, Text>>, "login.sent")
  BY <1>1, LoginRequest, Asking DEF Menus, Awaits
<1>2. CASE Told("login.sent", {"Correct"}, "home")
  BY <1>2, LoginHeard, Hearing DEF Menus, Awaits
<1>3. CASE Told("login.sent", Words \ {"Correct"}, "login")
  BY <1>3, LoginHeard, Hearing DEF Menus, Awaits
<1>. QED  BY <1>1, <1>2, <1>3 DEF Login

LEMMA BuyComplainProfileDoes ==
  ASSUME cRole \in Roles, BuyComplainProfile
  PROVE  ClientDoes
<1>1. CASE Asks("home", <<1>>, "buy.menu")
  BY <1>1, HomeRequests, Asking DEF Menus, Awaits
<1>2. CASE Asks("home", <<2>>, "complain")
  BY <1>2, HomeRequests, Asking DEF Menus, Awaits
<1>3. CASE Asks("home", <<3>>, "report")
  BY <1>3, HomeRequests, Asking DEF Menus, Awaits
<1>. QED  BY <1>1, <1>2, <1>3 DEF BuyComplainProfile

LEMMA CustomerHomeDoes ==
  ASSUME cRole \in Roles, CustomerHome
  PROVE  ClientDoes
<1>1. cRole = "customer"
  BY DEF CustomerHome
<1>2. CASE BuyComplainProfile
  BY <1>1, <1>2, BuyComplainProfileDoes
<1>3. CASE Asks("home", <<4>>, "start")
  BY <1>1, <1>3, CustomerLeaves, Asking DEF Menus, Awaits
<1>. QED  BY <1>1, <1>2, <1>3 DEF CustomerHome

LEMMA EmployeeHomeDoes ==
  ASSUME cRole \in Roles, EmployeeHome
  PROVE  ClientDoes
<1>1. cRole = "employee"
  BY DEF EmployeeHome
<1>2. CASE BuyComplainProfile
  BY <1>1, <1>2, BuyComplainProfileDoes
<1>3. CASE Asks("home", <<4>>, "main")
  BY <1>1, <1>3, EmployeeLeaves, Asking DEF Menus, Awaits
<1>. QED  BY <1>1, <1>2, <1>3 DEF EmployeeHome

LEMMA AdminHomeDoes ==
  ASSUME cRole \in Roles, AdminHome
  PROVE  ClientDoes
<1>1. cRole = "admin"
  BY DEF AdminHome
<1>2. CASE BuyComplainProfile
  BY <1>1, <1>2, BuyComplainProfileDoes
<1>3. CASE Asks("home", <<4>>, "input")
  BY <1>1, <1>3, AdminRequests, Asking DEF Menus, Awaits
<1>4. CASE \E n \in {5, 6, 8, 15} : Asks("home", <<n>>, "report")
  BY <1>1, <1>4, AdminRequests, Asking DEF Menus, Awaits
<1>5. CASE Asks("home", <<7>>, "stock.report")
  BY <1>1, <1>5, AdminRequests, Asking DEF Menus, Awaits
<1>6. CASE \E n \in {9, 10} : Asks("home", <<n>>, "search")
  BY <1>1, <1>6, AdminRequests, Asking DEF Menus, Awaits
<1>7. CASE \E n \in {16, 17} : Asks("home", <<n>>, "main")
  BY <1>1, <1>7, AdminRequests, Asking DEF Menus, Awaits
<1>. QED  BY <1>1, <1>2, <1>3, <1>4, <1>5, <1>6, <1>7 DEF AdminHome

LEMMA DeleteMenuDoes ==
  ASSUME cRole \in Roles, DeleteMenu
  PROVE  ClientDoes
BY AdminRequests, Asking DEF DeleteMenu, Menus, Awaits

LEMMA BalanceMenuDoes ==
  ASSUME cRole \in Roles, BalanceMenu
  PROVE  ClientDoes
<1>1. CASE cRole = "admin" /\ \E n \in {13, 14}, a \in Amounts
               : Asks("home", <<n, Text, a>>, "balance")
  BY <1>1, AdminRequests, Asking DEF Menus, Awaits
<1>2. CASE Reports("balance", {"TRUE"}, "home", "balance")
  BY <1>2, BalanceHeard, Reporting DEF Menus, Awaits
<1>3. CASE Told("balance", Words \ {"TRUE"}, "home")
  BY <1>3, BalanceHeard, Hearing DEF Menus, Awaits
<1>. QED  BY <1>1, <1>2, <1>3 DEF BalanceMenu

LEMMA ReadReportDoes ==
  ASSUME cRole \in Roles, ReadReport
  PROVE  ClientDoes
BY ReportHeard, Hearing DEF ReadReport, Menus, Awaits

LEMMA BuyMenuDoes ==
  ASSUME cRole \in Roles, BuyMenu
  PROVE  ClientDoes
<1>1. CASE Told("buy.menu", Words, "buy")
  BY <1>1, BuyHeard, Hearing DEF Menus, Awaits
<1>2. CASE \E i, q \in Amounts : Asks("buy", <<1, i, q>>, "buy.item")
  BY <1>2, BuyRequests, Asking DEF Menus, Awaits
<1>3. CASE Told("buy.item", Words, "buy.menu")
  BY <1>3, BuyHeard, Hearing DEF Menus, Awaits
<1>4. CASE Asks("buy", <<2>>, "buy.bill")
  BY <1>4, BuyRequests, Asking DEF Menus, Awaits
<1>5. CASE Told("buy.bill", Refusals, "buy.menu")
  BY <1>5, BuyHeard, Hearing DEF Menus, Awaits
<1>6. CASE Reports("buy.bill", Words \ Refusals, "buy.menu", "order")
  BY <1>6, BuyHeard, Reporting DEF Menus, Awaits
<1>7. CASE Asks("buy", <<3>>, "home")
  BY <1>7, BuyRequests, Asking DEF Menus, Awaits
<1>. QED  BY <1>1, <1>2, <1>3, <1>4, <1>5, <1>6, <1>7 DEF BuyMenu

LEMMA ComplaintMenuDoes ==
  ASSUME cRole \in Roles, ComplaintMenu
  PROVE  ClientDoes
<1>1. CASE cRole = "customer" /\ Asks("complain", <<1, Text>>, "complain.write")
  BY <1>1, ComplaintRequests, Asking DEF Menus, Awaits
<1>2. CASE cRole = "customer" /\ Asks("complain", <<2>>, "complain.view")
  BY <1>2, ComplaintRequests, Asking DEF Menus, Awaits
<1>3. CASE cRole = "customer" /\ Asks("complain", <<3, Text>>, "complain.update")
  BY <1>3, ComplaintRequests, Asking DEF Menus, Awaits
<1>4. CASE cRole = "customer" /\ Asks("complain", <<4>>, "home")
  BY <1>4, ComplaintRequests, Asking DEF Menus, Awaits
<1>5. CASE Reports("complain.write", {"TRUE"}, "complain", "complaint")
  BY <1>5, ComplaintHeard, Reporting DEF Menus, Awaits
<1>6. CASE Reports("complain.update", {"TRUE"}, "complain", "complaint")
  BY <1>6, ComplaintHeard, Reporting DEF Menus, Awaits
<1>7. CASE Told("complain.write", Words \ {"TRUE"}, "complain")
  BY <1>7, ComplaintHeard, Hearing DEF Menus, Awaits
<1>8. CASE Told("complain.update", Words \ {"TRUE"}, "complain")
  BY <1>8, ComplaintHeard, Hearing DEF Menus, Awaits
<1>9. CASE Told("complain.view", Words, "complain")
  BY <1>9, ComplaintHeard, Hearing DEF Menus, Awaits
<1>. QED  BY <1>1, <1>2, <1>3, <1>4, <1>5, <1>6, <1>7, <1>8, <1>9 DEF ComplaintMenu

LEMMA AnswerMenuDoes ==
  ASSUME cRole \in Roles, AnswerMenu
  PROVE  ClientDoes
<1>1. CASE cRole # "customer" /\ \E n \in {1, 2}
               : Asks("complain", <<n, Text>>, "complain.see")
  BY <1>1, AnswerRequests, Asking DEF Menus, Awaits
<1>2. CASE cRole # "customer" /\ Asks("complain", <<3, Text, Text>>, "complain.answer")
  BY <1>2, AnswerRequests, Asking DEF Menus, Awaits
<1>3. CASE cRole # "customer" /\ \E n \in {4, 5} : Asks("complain", <<n>>, "complain.view")
  BY <1>3, AnswerRequests, Asking DEF Menus, Awaits
<1>4. CASE cRole # "customer" /\ Asks("complain", <<6>>, "complain")
  BY <1>4, AnswerRequests, Asking DEF Menus, Awaits
<1>5. CASE cRole # "customer" /\ Asks("complain", <<7>>, "home")
  BY <1>5, AnswerRequests, Asking DEF Menus, Awaits
<1>6. CASE Told("complain.see", {"TRUE"}, "complain.view")
  BY <1>6, AnswerHeard, Hearing DEF Menus, Awaits
<1>7. CASE Told("complain.see", Words \ {"TRUE"}, "complain")
  BY <1>7, AnswerHeard, Hearing DEF Menus, Awaits
<1>8. CASE Reports("complain.answer", {"TRUE"}, "complain", "complaint")
  BY <1>8, AnswerHeard, Reporting DEF Menus, Awaits
<1>9. CASE Told("complain.answer", Words \ {"TRUE"}, "complain")
  BY <1>9, AnswerHeard, Hearing DEF Menus, Awaits
<1>. QED  BY <1>1, <1>2, <1>3, <1>4, <1>5, <1>6, <1>7, <1>8, <1>9 DEF AnswerMenu

LEMMA SearchMenuDoes ==
  ASSUME cRole \in Roles, SearchMenu
  PROVE  ClientDoes
<1>1. CASE \E n \in 1 .. 5 : Asks("search", <<n, Text>>, "search.key")
  BY <1>1, SearchRequests, Asking DEF Menus, Awaits
<1>2. CASE Asks("search", <<6>>, "home")
  BY <1>2, SearchRequests, Asking DEF Menus, Awaits
<1>3. CASE Told("search.key", {"TRUE"}, "search.profile")
  BY <1>3, SearchHeard, Hearing DEF Menus, Awaits
<1>4. CASE Told("search.key", Words \ {"TRUE"}, "search")
  BY <1>4, SearchHeard, Hearing DEF Menus, Awaits
<1>5. CASE Told("search.profile", Words, "search")
  BY <1>5, SearchHeard, Hearing DEF Menus, Awaits
<1>. QED  BY <1>1, <1>2, <1>3, <1>4, <1>5 DEF SearchMenu

LEMMA StockMenuDoes ==
  ASSUME cRole \in Roles, StockMenu
  PROVE  ClientDoes
<1>1. CASE Told("stock.report", Words, "stock")
  BY <1>1, StockHeard, Hearing DEF Menus, Awaits
<1>2. CASE Asks("stock", <<1, Text>>, "stock.order")
  BY <1>2, StockRequests, Asking DEF Menus, Awaits
<1>3. CASE Told("stock.order", {"FALSE"}, "home")
  BY <1>3, StockHeard, Hearing DEF Menus, Awaits
<1>4. CASE Told("stock.order", Words \ {"FALSE"}, "stock.amount")
  BY <1>4, StockHeard, Hearing DEF Menus, Awaits
<1>5. CASE \E a \in Amounts : Asks("stock.amount", <<a>>, "stock.placed")
  BY <1>5, AmountRequest, Asking DEF Menus, Awaits
<1>6. CASE Told("stock.placed", {"FALSE"}, "home")
  BY <1>6, StockHeard, Hearing DEF Menus, Awaits
<1>7. CASE Reports("stock.placed", Words \ {"FALSE"}, "home", "stock")
  BY <1>7, StockHeard, Reporting DEF Menus, Awaits
<1>8. CASE Asks("stock", <<2, Text>>, "stock.modify")
  BY <1>8, StockRequests, Asking DEF Menus, Awaits
<1>9. CASE Told("stock.modify", {"FALSE"}, "home")
  BY <1>9, StockHeard, Hearing DEF Menus, Awaits
<1>10. CASE Told("stock.modify", Words \ {"FALSE"}, "stock.terms")
  BY <1>10, StockHeard, Hearing DEF Menus, Awaits
<1>11. CASE \E a \in Amounts : Asks("stock.terms", <<a, a, a>>, "home")
  BY <1>11, TermsRequest, Asking DEF Menus, Awaits
<1>. QED  BY <1>1, <1>2, <1>3, <1>4, <1>5, <1>6, <1>7, <1>8, <1>9, <1>10, <1>11 DEF StockMenu

LEMMA FillInDoes ==
  ASSUME cRole \in Roles, FillIn
  PROVE  ClientDoes
<1>1. PICK f \in Forms : Asks("input", Transfer(f), "input.sent")
  BY DEF FillIn, Forms
<1>2. Request("input", cRole, Transfer(f), "input.sent", cRole)
  BY FormRequest
<1>. QED  BY <1>1, <1>2, Asking DEF Menus

LEMMA ClientStep ==
  ASSUME cRole \in Roles, User \/ ClientReads
  PROVE  ClientDoes \/ LeaveStock \/ Leave
BY MainMenuDoes, StartMenuDoes, FillInDoes, CustomerHomeDoes, EmployeeHomeDoes, AdminHomeDoes,
   DeleteMenuDoes, LoginDoes, BalanceMenuDoes, BuyMenuDoes, ComplaintMenuDoes, AnswerMenuDoes,
   SearchMenuDoes, StockMenuDoes, SignedUpDoes, EmployeeAddedDoes, ReadReportDoes
   DEF User, ClientReads

-----------------------------------------------------------------------------
(* The client's steps preserve the invariant. *)

LEMMA Disjoint ==
  /\ Menus \cap Awaits = {} /\ (Menus \cup Awaits) \cap {"over", "gone"} = {}
  /\ "input.sent" \in Awaits /\ "search.key" \in Awaits /\ "search.profile" \in Awaits
BY DEF Menus, Awaits

LEMMA HereState ==
  ASSUME TypeOK, server # "down"
  PROVE  Here \in States /\ Here[1] \in Stops /\ Here[2] = sRole
<1>1. server \in Keys => Resumed(server) \in Stops
  BY DEF Keys, Resumed, Stops, Numbers
<1>2. server \notin Keys \cup Works => server \in Stops
  BY DEF TypeOK, Stops, Over
<1>4. "home" \in Stops
  BY DEF Stops, Numbers
<1>3. sRole \in Roles
  BY DEF TypeOK
<1>. QED  BY <1>1, <1>2, <1>3, <1>4 DEF Here, States

LEMMA DebtKept ==
  ASSUME server' = server, owed' = owed, "unsaved" \in mishaps' <=> "unsaved" \in mishaps
  PROVE  Debt' = Debt
BY DEF Debt

(* An answer stands when more has been done. *)
LEMMA MoreDone ==
  ASSUME NEW c, NEW r, NEW w, NEW p, NEW o, NEW o2, Reply(c, r, w, p, o),
         \A d \in Claims : o[d] = 1 => o2[d] = 1
  PROVE  Reply(c, r, w, p, o2)
<1>1. \A d \in Claims : Settled(w, o, d) => Settled(w, o2, d)
  BY DEF Settled
<1>2. /\ Settled(w, o, "account") => Settled(w, o2, "account")
      /\ Settled(w, o, "complaint") => Settled(w, o2, "complaint")
      /\ Settled(w, o, "balance") => Settled(w, o2, "balance")
      /\ Settled(w, o, "stock") => Settled(w, o2, "stock")
      /\ o["account"] = 1 => o2["account"] = 1
      /\ o["order"] = 1 => o2["order"] = 1
  BY <1>1 DEF Claims
<1>. QED  BY <1>2, ZenonT(60) DEF Reply

LEMMA HereKept ==
  ASSUME server' = server, sRole' = sRole
  PROVE  Here' = Here
BY DEF Here, Resumed

LEMMA AsksKeeps ==
  ASSUME IInv, client \in Menus, NEW says, NEW to, NEW r,
         AsksAs(client, says, to, r), Request(client, cRole, says, to, r)
  PROVE  IInv'
<1>1. /\ says \in Seq(Anything) /\ to \in Menus \cup Awaits \cup Over /\ r \in Roles
      /\ \A x \in States : SameMenu(client, cRole, x) => Understood(x, says, to, r)
  BY DEF Request
<1>2. /\ client' = to /\ cRole' = r /\ Drifts
      /\ toServer' = IF server = "down" THEN <<>> ELSE toServer \o says
      /\ toClient' = toClient /\ server' = server /\ sRole' = sRole
      /\ fields' = fields /\ filed' = filed /\ owed' = owed /\ mishaps' = mishaps
  BY DEF AsksAs, data
<1>3. TypeOK /\ GoneOrDown /\ Sync /\ NothingPretended /\ NeverThrows /\ FiledAccepted
  BY DEF IInv
<1>4. TypeOK'
  <2>1. toServer' \in Seq(Anything)
    BY <1>1, <1>2, <1>3, ConcatProperties, EmptySeq DEF TypeOK
  <2>2. adrift' \in 0 .. MaxAdrift
    BY <1>2, <1>3, BoundsAssumption DEF TypeOK, Drifts
  <2>3. client' \in Menus \cup Awaits \cup {"over", "gone"}
    BY <1>1, <1>2 DEF Over
  <2>. QED  BY <1>1, <1>2, <1>3, <2>1, <2>2, <2>3 DEF TypeOK
<1>5. GoneOrDown'
  BY <1>1, <1>2, <1>3, Disjoint DEF GoneOrDown, Over
<1>6. Sync'
  <2>1. SUFFICES ASSUME Steady, client # "gone"
                 PROVE  (IF server = "down" THEN Leftover ELSE InTouch)'
    BY <1>2, Disjoint DEF Sync, Steady
  <2>2. client \notin Awaits
    BY Disjoint
  <2>3. CASE server = "down"
    <3>1. toClient = <<>>
      BY <1>3, <2>1, <2>2, <2>3, Disjoint DEF Sync, Leftover
    <3>. QED  BY <1>2, <2>3, <3>1 DEF Leftover
  <2>4. CASE server # "down"
    <3>1. Agreed
      BY <1>3, <2>1, <2>2, <2>4, Disjoint DEF Sync, InTouch, Filling, Answering, Stuck
    <3>2. fields = <<>> /\ toClient = <<>> /\ Understood(Here, toServer, client, cRole)
      BY <3>1 DEF Agreed
    <3>3. PICK y \in States : Leads(Here, toServer, y) /\ SameMenu(client, cRole, y)
      BY <3>2, <2>2, Disjoint DEF Understood
    <3>4. Understood(y, says, to, r)
      BY <1>1, <3>3
    <3>5. Here \in States /\ toServer \in Seq(Anything)
      BY <1>3, <2>4, HereState DEF TypeOK
    <3>6. Understood(Here, toServer \o says, to, r)
      BY <1>1, <3>3, <3>4, <3>5, UnderstoodBehind
    <3>7. Here' = Here
      BY <1>2, HereKept
    <3>8. Understood(Here', toServer', client', cRole')
      BY <1>2, <2>4, <3>6, <3>7
    <3>9. Agreed'
      BY <1>2, <3>2, <3>8 DEF Agreed
    <3>. QED  BY <1>2, <2>4, <3>9 DEF InTouch
  <2>. QED  BY <2>3, <2>4
<1>7. NothingPretended' /\ NeverThrows' /\ FiledAccepted'
  BY <1>2, <1>3 DEF NothingPretended, NeverThrows, FiledAccepted, Steady, Spared
<1>. QED  BY <1>4, <1>5, <1>6, <1>7 DEF IInv

(* What a client in step finds when it receives. *)
AnsweredBy(p) ==
    /\ toClient # <<>> /\ Reply(client, cRole, toClient, p, Debt)
    /\ server # "down" =>
          p = Here[1] /\ toServer = <<>> /\ fields = <<>> /\ sRole = cRole

LEMMA Found ==
  ASSUME IInv, Steady, client \in Awaits, NEW words, NEW to, Reads(client, words, to)
  PROVE  \/ \E p \in Stops : AnsweredBy(p)
         \/ client = "search.key" /\ toClient = Yes /\ (server # "down" => Stuck)
         \/ toClient = <<>> /\ server = "down" /\ "" \in words
<1>1. TypeOK /\ Sync /\ client # "gone"
  BY Disjoint DEF IInv
<1>2. CASE toClient = <<>>
  BY <1>2 DEF Reads
<1>3. CASE toClient # <<>> /\ server = "down"
  <2>1. Leftover
    BY <1>1, <1>3 DEF Sync
  <2>. QED  BY <1>3, <2>1 DEF Leftover, AnsweredBy
<1>4. CASE toClient # <<>> /\ server # "down"
  <2>1. Answering \/ Stuck
    BY <1>1, <1>4 DEF Sync, InTouch, Agreed, Filling
  <2>2. Here[1] \in Stops
    BY <1>1, <1>4, HereState
  <2>3. Answering => AnsweredBy(Here[1])
    BY <1>4 DEF Answering, AnsweredBy
  <2>4. Stuck => client = "search.key" /\ toClient = Yes
    BY <1>4 DEF Stuck, Unanswered
  <2>. QED  BY <1>4, <2>1, <2>2, <2>3, <2>4
<1>. QED  BY <1>2, <1>3, <1>4

LEMMA ReadsKeeps ==
  ASSUME IInv, client \in Awaits, NEW words, NEW to, Reads(client, words, to),
         to \in Menus \cup Awaits, client = "search.key" /\ "TRUE" \in words => to \in Awaits,
         owed' \in [Claims -> {-1, 0, 1}],
         \A w, p : Reply(client, cRole, w, p, Debt) /\ Head(w) \in words =>
                      Goes(to, cRole, Tail(w), p, Debt')
  PROVE  TypeOK' /\ GoneOrDown' /\ Sync' /\ NeverThrows' /\ FiledAccepted'
<1>1. TypeOK /\ GoneOrDown /\ Sync /\ NothingPretended /\ NeverThrows /\ FiledAccepted
  BY DEF IInv
<1>2. /\ client' = to /\ cRole' = cRole /\ toServer' = toServer
      /\ server' = server /\ sRole' = sRole
      /\ fields' = fields /\ filed' = filed /\ adrift' = adrift
      /\ \/ /\ toClient # <<>> /\ Head(toClient) \in words
            /\ \E n \in Taken(toClient) :
                  /\ toClient' = After(toClient, n)
                  /\ mishaps' = mishaps \cup LostBy(n)
         \/ /\ toClient = <<>> /\ server = "down" /\ "" \in words
            /\ toClient' = toClient /\ mishaps' = mishaps
  BY DEF Reads
<1>3. Here' = Here
  BY <1>2, HereKept
<1>4. /\ mishaps \subseteq mishaps' /\ mishaps' \subseteq Mishaps /\ toClient' \in Seq(Words)
      /\ Steady' => (toClient # <<>> => toClient' = Tail(toClient))
  <2>1. CASE toClient = <<>>
    BY <1>1, <1>2, <2>1 DEF TypeOK
  <2>2. CASE toClient # <<>>
    <3>1. PICK n \in Taken(toClient) :
             toClient' = After(toClient, n) /\ mishaps' = mishaps \cup LostBy(n)
      BY <1>2, <2>2
    <3>2. n \in 1 .. Len(toClient) /\ (n > 1 => "lost" \in Mishaps)
      BY <1>1, BoundsAssumption, LenProperties DEF Taken, Least, TypeOK
    <3>3. SubSeq(toClient, n + 1, Len(toClient)) \in Seq(Words)
      BY <1>1, <3>2, SubSeqProperties, LenProperties DEF TypeOK
    <3>4. Steady' => n = 1
      BY <3>1, <3>2 DEF Steady, LostBy
    <3>5. n = 1 => SubSeq(toClient, n + 1, Len(toClient)) = Tail(toClient)
      BY <1>1, <2>2 DEF TypeOK
    <3>. QED  BY <1>1, <3>1, <3>2, <3>3, <3>4, <3>5 DEF TypeOK, After, LostBy
  <2>. QED  BY <2>1, <2>2
<1>5. TypeOK'
  BY <1>1, <1>2, <1>4 DEF TypeOK
<1>6. GoneOrDown' /\ NeverThrows' /\ FiledAccepted'
  BY <1>1, <1>2, <1>4, Disjoint DEF GoneOrDown, NeverThrows, FiledAccepted, Spared
<1>7. Sync'
  <2>1. SUFFICES ASSUME Steady'
                 PROVE  (IF server = "down" THEN Leftover ELSE InTouch)'
    BY DEF Sync
  <2>2. Steady
    BY <1>4, <2>1 DEF Steady
  <2>3. CASE \E p \in Stops : AnsweredBy(p)
    <3>1. PICK p \in Stops : AnsweredBy(p)
      BY <2>3
    <3>2. Goes(to, cRole, toClient', p, Debt')
      BY <1>2, <1>4, <2>1, <3>1 DEF AnsweredBy
    <3>3. CASE server = "down"
      BY <1>2, <3>2, <3>3 DEF Goes, Leftover
    <3>4. CASE server # "down"
      <4>1. p = Here[1] /\ toServer = <<>> /\ fields = <<>> /\ sRole = cRole
        BY <3>1, <3>4 DEF AnsweredBy
      <4>2. CASE to \in Awaits /\ Reply(to, cRole, toClient', p, Debt')
        <5>1. Answering'
          BY <1>2, <1>3, <4>1, <4>2 DEF Answering
        <5>. QED  BY <1>2, <3>4, <5>1 DEF InTouch
      <4>3. CASE to \in Menus /\ toClient' = <<>> /\ p = Partner(to)
        <5>1. Here \in States /\ Here[2] = cRole
          BY <1>1, <3>4, <4>1, HereState
        <5>2. Leads(Here, toServer, Here) /\ SameMenu(to, cRole, Here)
          BY <4>1, <4>3, <5>1, LeadsNone DEF SameMenu
        <5>3. Understood(Here, toServer, to, cRole)
          BY <4>3, <5>1, <5>2 DEF Understood
        <5>4. Understood(Here', toServer', client', cRole')
          BY <1>2, <1>3, <5>3
        <5>5. Agreed'
          BY <1>2, <4>1, <4>3, <5>4 DEF Agreed
        <5>. QED  BY <1>2, <3>4, <5>5 DEF InTouch
      <4>. QED  BY <3>2, <4>2, <4>3 DEF Goes
    <3>. QED  BY <3>3, <3>4
  <2>4. CASE client = "search.key" /\ toClient = Yes /\ (server # "down" => Stuck)
    <3>1. toClient # <<>> /\ Head(toClient) = "TRUE" /\ Tail(toClient) = <<>>
      BY <2>4, Heads DEF Yes
    <3>2. toClient' = <<>> /\ to \in Awaits
      BY <1>2, <1>4, <2>1, <2>4, <3>1
    <3>3. CASE server = "down"
      BY <1>2, <3>2, <3>3 DEF Leftover
    <3>4. CASE server # "down"
      <4>1. Stuck'
        BY <1>2, <1>4, <2>4, <3>2, <3>4 DEF Stuck, Unanswered
      <4>. QED  BY <1>2, <3>4, <4>1 DEF InTouch
    <3>. QED  BY <3>3, <3>4
  <2>5. CASE toClient = <<>> /\ server = "down" /\ "" \in words
    BY <1>2, <2>5 DEF Leftover
  <2>. QED  BY <2>2, <2>3, <2>4, <2>5, Found
<1>. QED  BY <1>5, <1>6, <1>7

LEMMA ToldKeeps ==
  ASSUME IInv, client \in Awaits, NEW words, NEW to,
         Told(client, words, to), HearsWell(client, cRole, words, to)
  PROVE  IInv'
<1>1. Reads(client, words, to) /\ owed' = owed
  BY DEF Told
<1>7. /\ server' = server /\ mishaps \subseteq mishaps'
      /\ "unsaved" \in mishaps' <=> "unsaved" \in mishaps
  BY <1>1 DEF Reads, LostBy
<1>8. Debt' = Debt
  BY <1>1, <1>7, DebtKept
<1>2. /\ to \in Menus \cup Awaits
      /\ client = "search.key" /\ "TRUE" \in words => to \in Awaits
      /\ \A w, p : Reply(client, cRole, w, p, Debt) /\ Head(w) \in words =>
                      Goes(to, cRole, Tail(w), p, Debt')
  BY <1>8 DEF HearsWell
<1>3. owed' \in [Claims -> {-1, 0, 1}]
  BY <1>1 DEF IInv, TypeOK
<1>4. TypeOK' /\ GoneOrDown' /\ Sync' /\ NeverThrows' /\ FiledAccepted'
  BY <1>1, <1>2, <1>3, ReadsKeeps
<1>5. Steady' => Steady /\ server' = server
  BY <1>1 DEF Reads, Steady
<1>6. NothingPretended'
  BY <1>1, <1>5, <1>7 DEF IInv, NothingPretended, Spared
<1>. QED  BY <1>4, <1>6 DEF IInv

LEMMA ReportsKeeps ==
  ASSUME IInv, client \in Awaits, NEW words, NEW to, NEW claim,
         Reports(client, words, to, claim), TellsTruth(client, cRole, words, to, claim)
  PROVE  IInv'
<1>1. /\ Reads(client, words, to)
      /\ owed' = [owed EXCEPT ![claim] = IF @ = 1 THEN 0 ELSE -1]
  BY DEF Reports
<1>2. /\ to \in Menus \cup Awaits /\ claim \in Claims /\ client # "search.key"
      /\ "" \in words => claim \in {"order", "stock"}
      /\ \A w, p : Reply(client, cRole, w, p, Debt) /\ Head(w) \in words =>
                      Debt[claim] = 1 /\ Goes(to, cRole, Tail(w), p, Debt')
  BY DEF TellsTruth
<1>3. owed' \in [Claims -> {-1, 0, 1}] /\ \A c \in Claims \ {claim} : owed'[c] = owed[c]
  BY <1>1, <1>2 DEF IInv, TypeOK
<1>4. TypeOK' /\ GoneOrDown' /\ Sync' /\ NeverThrows' /\ FiledAccepted'
  BY <1>1, <1>2, <1>3, ReadsKeeps
<1>5. /\ Steady' => Steady
      /\ server' = server /\ (toClient # <<>> => Head(toClient) \in words)
      /\ mishaps \subseteq mishaps'
  BY <1>1 DEF Reads, Steady
<1>6. Steady' => Debt[claim] = 1 \/ (claim \in {"order", "stock"} /\ server = "down")
  <2>1. SUFFICES ASSUME Steady
                 PROVE  Debt[claim] = 1 \/ (claim \in {"order", "stock"} /\ server = "down")
    BY <1>5
  <2>2. CASE \E p \in Stops : AnsweredBy(p)
    BY <1>2, <1>5, <2>2 DEF AnsweredBy
  <2>3. CASE toClient = <<>> /\ server = "down" /\ "" \in words
    BY <1>2, <2>3
  <2>. QED  BY <1>1, <1>2, <2>1, <2>2, <2>3, Found
<1>7. Debt[claim] = 1 => \/ owed'[claim] = 0
                         \/ claim = "stock" /\ server \in Works
                         \/ claim \in Exempt /\ (server = "down" \/ "unsaved" \in mishaps)
  BY <1>1, <1>2 DEF IInv, TypeOK, Debt
<1>8. NothingPretended'
  <2>1. SUFFICES ASSUME Steady', NEW c \in Claims
                 PROVE  \/ owed'[c] >= 0
                        \/ c = "stock" /\ server' \in Works
                        \/ /\ c \in {"order", "stock"}
                           /\ server' = "down" \/ "unsaved" \in mishaps'
    BY DEF NothingPretended, Spared
  <2>2. CASE c = claim
    BY <1>5, <1>6, <1>7, <2>1, <2>2 DEF Exempt
  <2>3. CASE c # claim
    BY <1>3, <1>5, <2>1, <2>3 DEF IInv, NothingPretended, Spared
  <2>. QED  BY <2>2, <2>3
<1>. QED  BY <1>4, <1>8 DEF IInv

LEMMA LeavesKeep ==
  ASSUME IInv, LeaveStock \/ Leave
  PROVE  IInv'
<1>1. TypeOK /\ GoneOrDown /\ Sync /\ NothingPretended /\ NeverThrows /\ FiledAccepted
  BY DEF IInv
<1>2. CASE LeaveStock
  <2>1. /\ "exit" \in Mishaps /\ client' = "home" /\ mishaps' = mishaps \cup {"exit"}
        /\ Drifts /\ server' = server /\ cRole' = cRole /\ sRole' = sRole
        /\ toServer' = toServer /\ toClient' = toClient
        /\ fields' = fields /\ filed' = filed /\ owed' = owed
    BY <1>2 DEF LeaveStock, wire, data
  <2>2. adrift' \in 0 .. MaxAdrift
    BY <1>1, <2>1, BoundsAssumption DEF TypeOK, Drifts
  <2>3. TypeOK'
    BY <1>1, <2>1, <2>2 DEF TypeOK, Menus
  <2>4. ~ Steady' /\ ~ Spared({"lost", "exit", "left", "halfway"})'
    BY <2>1 DEF Steady, Spared
  <2>5. NeverThrows' /\ GoneOrDown'
    BY <1>1, <2>1 DEF NeverThrows, Spared, GoneOrDown
  <2>. QED  BY <2>3, <2>4, <2>5 DEF IInv, Sync, NothingPretended, FiledAccepted
<1>3. CASE Leave
  <2>1. /\ "left" \in Mishaps /\ client' = "gone" /\ mishaps' = mishaps \cup {"left"}
        /\ \E n \in 0 .. Len(toServer) : toServer' = SubSeq(toServer, 1, n)
        /\ server' = server /\ cRole' = cRole /\ sRole' = sRole
        /\ toClient' = <<>> /\ adrift' = adrift
        /\ fields' = fields /\ filed' = filed /\ owed' = owed
    BY <1>3 DEF Leave, data
  <2>2. PICK n \in 0 .. Len(toServer) : toServer' = SubSeq(toServer, 1, n)
    BY <2>1
  <2>3. toServer' \in Seq(Anything) /\ (toServer = <<>> => toServer' = <<>>)
    <3>1. toServer \in Seq(Anything) /\ Len(toServer) \in Nat
      BY <1>1, LenProperties DEF TypeOK
    <3>2. SubSeq(toServer, 1, n) \in Seq(Anything)
      BY <3>1, SubSeqProperties
    <3>3. toServer = <<>> => SubSeq(toServer, 1, n) = <<>>
      BY <3>1
    <3>. QED  BY <2>2, <3>2, <3>3
  <2>4. TypeOK'
    BY <1>1, <2>1, <2>3, EmptySeq DEF TypeOK
  <2>5. GoneOrDown'
    BY <1>1, <2>1, <2>3 DEF GoneOrDown
  <2>6. Sync'
    BY <2>1 DEF Sync
  <2>7. NothingPretended'
    BY <1>1, <2>1 DEF NothingPretended, Steady, Spared
  <2>8. NeverThrows' /\ FiledAccepted'
    BY <2>1 DEF NeverThrows, FiledAccepted, Spared
  <2>. QED  BY <2>4, <2>5, <2>6, <2>7, <2>8 DEF IInv
<1>. QED  BY <1>2, <1>3

LEMMA ClientKeeps ==
  ASSUME IInv, User \/ ClientReads
  PROVE  IInv'
<1>1. cRole \in Roles
  BY DEF IInv, TypeOK
<1>2. CASE ClientDoes
  BY <1>2, AsksKeeps, ToldKeeps, ReportsKeeps DEF ClientDoes
<1>. QED  BY <1>1, <1>2, ClientStep, LeavesKeep

-----------------------------------------------------------------------------
(* What the server does with a message.                                      *)

(* Where it goes on, once a key has been pressed or the goods are written. *)
Rest(place) == CASE place = "start.key" -> "start"
                 [] place = "home.key" -> "home"
                 [] place = "complain.key" -> "complain"
                 [] place = "search.pause" -> "search"
                 [] place = "stock.placing" -> "home"
                 [] OTHER -> place

(* In place at, serving someone of role r, it takes m, says what it says and *)
(* goes to another place; done is what it has done that a client may report. *)
Goals == (Stops \cup Keys \cup Works) \ {"login.key"}
Serves(at, r, m, says, to, r2, done) ==
    /\ at \in Stops \ {"over", "input"} /\ to \in Goals
    /\ says \in Seq(Words) /\ r2 \in Roles /\ done \subseteq Claims
    /\ \A y : Silent(<<at, r>>, m, y) => says = <<>> /\ y = <<Rest(to), r2>>
    /\ \A c, o : Asked(c, <<at, r>>, m) /\ (\A d \in done : o[d] = 1)
                  => r2 = r /\ Reply(c, r, says, Rest(to), o)

(* The same when a file was missing. *)
ServesMiss(at, r, m, says, to) ==
    /\ at \in Stops \ {"over", "input"} /\ to \in Goals \cup {"login.key"}
    /\ says \in Seq(Words)
    /\ \A y : Silent(<<at, r>>, m, y) =>
                  says = <<>> /\ y = <<Rest(to), r>> /\ to # "login.key"
    /\ \A c : Asked(c, <<at, r>>, m) => says = <<>> \/ (c = "search.key" /\ says = Yes)

(* What is shown may be nothing at all. *)
Shown == {"text", ""}

LEMMA Said ==
  <<>> \in Seq(Words) /\ (\A a \in Words : <<a>> \in Seq(Words))
  /\ \A a, b \in Words : <<a, b>> \in Seq(Words)
OBVIOUS

LEMMA Rests ==
  /\ Rest("start.key") = "start" /\ Rest("home.key") = "home"
  /\ Rest("complain.key") = "complain" /\ Rest("search.pause") = "search"
  /\ \A p \in Stops : Rest(p) = p
  /\ Stops \subseteq Goals /\ Keys \ {"login.key"} \subseteq Goals
  /\ Rest("stock.placing") = "home" /\ "stock.placing" \in Goals
  /\ \A p \in Goals : Rest(p) \in Stops
<1>1. Stops \cap Keys = {} /\ Stops \cap Works = {} /\ "login.key" \in Keys
      /\ {"start", "home", "complain", "search"} \subseteq Stops
  BY DEF Stops, Numbers, Strings, Over, Keys, Works
<1>2. /\ Rest("start.key") = "start" /\ Rest("home.key") = "home"
      /\ Rest("complain.key") = "complain" /\ Rest("search.pause") = "search"
      /\ Rest("stock.placing") = "home" /\ \A p \in Stops : Rest(p) = p
  BY <1>1 DEF Rest, Keys, Works
<1>3. /\ Stops \subseteq Goals /\ Keys \ {"login.key"} \subseteq Goals
      /\ "stock.placing" \in Goals
  BY <1>1 DEF Keys, Works, Goals
<1>4. \A p \in Goals : Rest(p) \in Stops
  BY <1>1, <1>2 DEF Keys, Works, Goals
<1>. QED  BY <1>2, <1>3, <1>4


LEMMA ServeStartWell ==
  ASSUME NEW r \in Roles
  PROVE  /\ \A m \in {1} : Serves("start", r, m, <<>>, "input", r, {})
         /\ \A m \in {2} : Serves("start", r, m, <<>>, "login", r, {})
         /\ \A m \in {3} : Serves("start", r, m, <<>>, "main", r, {})
         /\ \A m \in Int \ 1 .. 3 : Serves("start", r, m, <<>>, "start", r, {})
<1>1. ASSUME NEW m \in {1}
      PROVE  Serves("start", r, m, <<>>, "input", r, {})
  <2>1. \A y : Silent(<<"start", r>>, m, y) => y = <<"input", r>>
    BY DEF Silent
  <2>2. \A c : ~ Asked(c, <<"start", r>>, m)
    BY DEF Asked
  <2>. QED
    BY <2>1, <2>2, Said, Rests DEF Serves, Stops, Numbers, Strings, Keys, Words
<1>2. ASSUME NEW m \in {2}
      PROVE  Serves("start", r, m, <<>>, "login", r, {})
  <2>1. \A y : Silent(<<"start", r>>, m, y) => y = <<"login", r>>
    BY DEF Silent
  <2>2. \A c : ~ Asked(c, <<"start", r>>, m)
    BY DEF Asked
  <2>. QED
    BY <2>1, <2>2, Said, Rests DEF Serves, Stops, Numbers, Strings, Keys, Words
<1>3. ASSUME NEW m \in {3}
      PROVE  Serves("start", r, m, <<>>, "main", r, {})
  <2>1. \A y : Silent(<<"start", r>>, m, y) => y = <<"main", r>>
    BY DEF Silent
  <2>2. \A c : ~ Asked(c, <<"start", r>>, m)
    BY DEF Asked
  <2>. QED
    BY <2>1, <2>2, Said, Rests DEF Serves, Stops, Numbers, Strings, Keys, Words
<1>4. ASSUME NEW m \in Int \ 1 .. 3
      PROVE  Serves("start", r, m, <<>>, "start", r, {})
  <2>1. \A y : ~ Silent(<<"start", r>>, m, y)
    BY DEF Silent
  <2>2. \A c : ~ Asked(c, <<"start", r>>, m)
    BY DEF Asked
  <2>. QED
    BY <2>1, <2>2, Said, Rests DEF Serves, Stops, Numbers, Strings, Keys, Words
<1>. QED  BY <1>1, <1>2, <1>3, <1>4

LEMMA ServeLoginWell ==
  ASSUME NEW r \in Roles
  PROVE  /\ \A m \in Anything : Serves("login", r, m, <<>>, "login.password", r, {})
         /\ \A m \in Anything : Serves("login.password", r, m, <<"Correct">>, "home", r, {})
         /\ \A m \in Anything :
                  Serves("login.password", r, m, <<"Incorrect">>, "login", r, {})
         /\ \A m \in Anything : ServesMiss("login.password", r, m, <<>>, "login.key")
<1>1. ASSUME NEW m \in Anything
      PROVE  Serves("login", r, m, <<>>, "login.password", r, {})
  <2>1. \A y : Silent(<<"login", r>>, m, y) => y = <<"login.password", r>>
    BY DEF Silent
  <2>2. \A c : ~ Asked(c, <<"login", r>>, m)
    BY DEF Asked
  <2>. QED
    BY <2>1, <2>2, Said, Rests DEF Serves, Stops, Numbers, Strings, Keys, Words
<1>2. ASSUME NEW m \in Anything
      PROVE  Serves("login.password", r, m, <<"Correct">>, "home", r, {})
  <2>1. \A y : ~ Silent(<<"login.password", r>>, m, y)
    BY DEF Silent
  <2>2. \A c : Asked(c, <<"login.password", r>>, m) => c = "login.sent"
    BY DEF Asked
  <2>3. \A o : Reply("login.sent", r, <<"Correct">>, "home", o)
    BY DEF Reply, Settled, Yes, No
  <2>. QED
    BY <2>1, <2>2, <2>3, Said, Rests DEF Serves, Stops, Numbers, Strings, Keys, Words
<1>3. ASSUME NEW m \in Anything
      PROVE  Serves("login.password", r, m, <<"Incorrect">>, "login", r, {})
  <2>1. \A y : ~ Silent(<<"login.password", r>>, m, y)
    BY DEF Silent
  <2>2. \A c : Asked(c, <<"login.password", r>>, m) => c = "login.sent"
    BY DEF Asked
  <2>3. \A o : Reply("login.sent", r, <<"Incorrect">>, "login", o)
    BY DEF Reply, Settled, Yes, No
  <2>. QED
    BY <2>1, <2>2, <2>3, Said, Rests DEF Serves, Stops, Numbers, Strings, Keys, Words
<1>4. ASSUME NEW m \in Anything
      PROVE  ServesMiss("login.password", r, m, <<>>, "login.key")
  <2>1. \A y : ~ Silent(<<"login.password", r>>, m, y)
    BY DEF Silent
  <2>2. \A c : Asked(c, <<"login.password", r>>, m) => c = "login.sent"
    BY DEF Asked
  <2>. QED
    BY <2>1, <2>2, Said, Rests DEF ServesMiss, Yes, Goals, Stops, Numbers, Strings, Keys, Words
<1>. QED  BY <1>1, <1>2, <1>3, <1>4

LEMMA ServeCommonWell ==
  ASSUME NEW r \in Roles
  PROVE  /\ \A m \in {1} : Serves("home", r, m, <<"text">>, "buy", r, {})
         /\ \A m \in {1} : ServesMiss("home", r, m, <<>>, "home.key")
         /\ \A m \in {2} : Serves("home", r, m, <<>>, "complain", r, {})
         /\ \A m \in {3} : Serves("home", r, m, <<"text">>, "home", r, {})
         /\ \A m \in {3} : ServesMiss("home", r, m, <<>>, "home.key")
<1>1. ASSUME NEW m \in {1}
      PROVE  Serves("home", r, m, <<"text">>, "buy", r, {})
  <2>1. \A y : ~ Silent(<<"home", r>>, m, y)
    BY DEF Silent
  <2>2. \A c : Asked(c, <<"home", r>>, m) => c = "buy.menu"
    BY DEF Asked
  <2>3. \A o : Reply("buy.menu", r, <<"text">>, "buy", o)
    BY DEF Reply, Settled, Yes, No
  <2>. QED
    BY <2>1, <2>2, <2>3, Said, Rests DEF Serves, Stops, Numbers, Strings, Keys, Words
<1>2. ASSUME NEW m \in {1}
      PROVE  ServesMiss("home", r, m, <<>>, "home.key")
  <2>1. \A y : ~ Silent(<<"home", r>>, m, y)
    BY DEF Silent
  <2>2. \A c : Asked(c, <<"home", r>>, m) => c = "buy.menu"
    BY DEF Asked
  <2>. QED
    BY <2>1, <2>2, Said, Rests DEF ServesMiss, Yes, Goals, Stops, Numbers, Strings, Keys, Words
<1>3. ASSUME NEW m \in {2}
      PROVE  Serves("home", r, m, <<>>, "complain", r, {})
  <2>1. \A y : Silent(<<"home", r>>, m, y) => y = <<"complain", r>>
    BY DEF Silent
  <2>2. \A c : ~ Asked(c, <<"home", r>>, m)
    BY DEF Asked
  <2>. QED
    BY <2>1, <2>2, Said, Rests DEF Serves, Stops, Numbers, Strings, Keys, Words
<1>4. ASSUME NEW m \in {3}
      PROVE  Serves("home", r, m, <<"text">>, "home", r, {})
  <2>1. \A y : ~ Silent(<<"home", r>>, m, y)
    BY DEF Silent
  <2>2. \A c : Asked(c, <<"home", r>>, m) => c = "report"
    BY DEF Asked
  <2>3. \A o : Reply("report", r, <<"text">>, "home", o)
    BY DEF Reply, Settled, Yes, No
  <2>. QED
    BY <2>1, <2>2, <2>3, Said, Rests DEF Serves, Stops, Numbers, Strings, Keys, Words
<1>5. ASSUME NEW m \in {3}
      PROVE  ServesMiss("home", r, m, <<>>, "home.key")
  <2>1. \A y : ~ Silent(<<"home", r>>, m, y)
    BY DEF Silent
  <2>2. \A c : Asked(c, <<"home", r>>, m) => c = "report"
    BY DEF Asked
  <2>. QED
    BY <2>1, <2>2, Said, Rests DEF ServesMiss, Yes, Goals, Stops, Numbers, Strings, Keys, Words
<1>. QED  BY <1>1, <1>2, <1>3, <1>4, <1>5

LEMMA ServeCustomerWell ==
  ASSUME NEW r \in Roles, r = "customer"
  PROVE  /\ \A m \in {4} : Serves("home", r, m, <<>>, "start", r, {})
         /\ \A m \in Int \ 1 .. 4 : Serves("home", r, m, <<>>, "home", r, {})
<1>1. ASSUME NEW m \in {4}
      PROVE  Serves("home", r, m, <<>>, "start", r, {})
  <2>1. \A y : Silent(<<"home", r>>, m, y) => y = <<"start", r>>
    BY DEF Silent
  <2>2. \A c : ~ Asked(c, <<"home", r>>, m)
    BY DEF Asked
  <2>. QED
    BY <2>1, <2>2, Said, Rests DEF Serves, Stops, Numbers, Strings, Keys, Words
<1>2. ASSUME NEW m \in Int \ 1 .. 4
      PROVE  Serves("home", r, m, <<>>, "home", r, {})
  <2>1. \A y : ~ Silent(<<"home", r>>, m, y)
    BY DEF Silent
  <2>2. \A c : ~ Asked(c, <<"home", r>>, m)
    BY DEF Asked
  <2>. QED
    BY <2>1, <2>2, Said, Rests DEF Serves, Stops, Numbers, Strings, Keys, Words
<1>. QED  BY <1>1, <1>2

LEMMA ServeEmployeeWell ==
  ASSUME NEW r \in Roles, r = "employee"
  PROVE  /\ \A m \in {4} : Serves("home", r, m, <<>>, "main", r, {})
         /\ \A m \in Int \ 1 .. 4 : Serves("home", r, m, <<>>, "home.key", r, {})
<1>1. ASSUME NEW m \in {4}
      PROVE  Serves("home", r, m, <<>>, "main", r, {})
  <2>1. \A y : Silent(<<"home", r>>, m, y) => y = <<"main", r>>
    BY DEF Silent
  <2>2. \A c : ~ Asked(c, <<"home", r>>, m)
    BY DEF Asked
  <2>. QED
    BY <2>1, <2>2, Said, Rests DEF Serves, Stops, Numbers, Strings, Keys, Words
<1>2. ASSUME NEW m \in Int \ 1 .. 4
      PROVE  Serves("home", r, m, <<>>, "home.key", r, {})
  <2>1. \A y : ~ Silent(<<"home", r>>, m, y)
    BY DEF Silent
  <2>2. \A c : ~ Asked(c, <<"home", r>>, m)
    BY DEF Asked
  <2>. QED
    BY <2>1, <2>2, Said, Rests DEF Serves, Stops, Numbers, Strings, Keys, Words
<1>. QED  BY <1>1, <1>2

LEMMA ServeAdminWell ==
  ASSUME NEW r \in Roles, r = "admin"
  PROVE  /\ \A m \in {4} : Serves("home", r, m, <<>>, "input", r, {})
         /\ \A m \in {5} : Serves("home", r, m, <<"text">>, "home", r, {})
         /\ \A m \in {5} : ServesMiss("home", r, m, <<>>, "home.key")
         /\ \A m \in {6} : Serves("home", r, m, <<"text">>, "home", r, {})
         /\ \A m \in {6} : ServesMiss("home", r, m, <<>>, "home.key")
         /\ \A m \in {7} : Serves("home", r, m, <<"text">>, "stock", r, {})
         /\ \A m \in {8, 15} : Serves("home", r, m, <<"text">>, "home", r, {})
         /\ \A m \in {9, 10} : Serves("home", r, m, <<>>, "search", r, {})
         /\ \A m \in {11, 12} : Serves("home", r, m, <<>>, "delete", r, {})
         /\ \A m \in {13, 14} : Serves("home", r, m, <<>>, "balance", r, {})
         /\ \A m \in {16, 17} : Serves("home", r, m, <<>>, "main", r, {})
         /\ \A m \in Int \ 1 .. 17 : Serves("home", r, m, <<>>, "home", r, {})
         /\ \A m \in {7, 8} : ServesMiss("home", r, m, <<>>, "home")
<1>1. ASSUME NEW m \in {4}
      PROVE  Serves("home", r, m, <<>>, "input", r, {})
  <2>1. \A y : Silent(<<"home", r>>, m, y) => y = <<"input", r>>
    BY DEF Silent
  <2>2. \A c : ~ Asked(c, <<"home", r>>, m)
    BY DEF Asked
  <2>. QED
    BY <2>1, <2>2, Said, Rests DEF Serves, Stops, Numbers, Strings, Keys, Words
<1>2. ASSUME NEW m \in {5}
      PROVE  Serves("home", r, m, <<"text">>, "home", r, {})
  <2>1. \A y : ~ Silent(<<"home", r>>, m, y)
    BY DEF Silent
  <2>2. \A c : Asked(c, <<"home", r>>, m) => c = "report"
    BY DEF Asked
  <2>3. \A o : Reply("report", r, <<"text">>, "home", o)
    BY DEF Reply, Settled, Yes, No
  <2>. QED
    BY <2>1, <2>2, <2>3, Said, Rests DEF Serves, Stops, Numbers, Strings, Keys, Words
<1>3. ASSUME NEW m \in {5}
      PROVE  ServesMiss("home", r, m, <<>>, "home.key")
  <2>1. \A y : ~ Silent(<<"home", r>>, m, y)
    BY DEF Silent
  <2>2. \A c : Asked(c, <<"home", r>>, m) => c = "report"
    BY DEF Asked
  <2>. QED
    BY <2>1, <2>2, Said, Rests DEF ServesMiss, Yes, Goals, Stops, Numbers, Strings, Keys, Words
<1>4. ASSUME NEW m \in {6}
      PROVE  Serves("home", r, m, <<"text">>, "home", r, {})
  <2>1. \A y : ~ Silent(<<"home", r>>, m, y)
    BY DEF Silent
  <2>2. \A c : Asked(c, <<"home", r>>, m) => c = "report"
    BY DEF Asked
  <2>3. \A o : Reply("report", r, <<"text">>, "home", o)
    BY DEF Reply, Settled, Yes, No
  <2>. QED
    BY <2>1, <2>2, <2>3, Said, Rests DEF Serves, Stops, Numbers, Strings, Keys, Words
<1>5. ASSUME NEW m \in {6}
      PROVE  ServesMiss("home", r, m, <<>>, "home.key")
  <2>1. \A y : ~ Silent(<<"home", r>>, m, y)
    BY DEF Silent
  <2>2. \A c : Asked(c, <<"home", r>>, m) => c = "report"
    BY DEF Asked
  <2>. QED
    BY <2>1, <2>2, Said, Rests DEF ServesMiss, Yes, Goals, Stops, Numbers, Strings, Keys, Words
<1>6. ASSUME NEW m \in {7}
      PROVE  Serves("home", r, m, <<"text">>, "stock", r, {})
  <2>1. \A y : ~ Silent(<<"home", r>>, m, y)
    BY DEF Silent
  <2>2. \A c : Asked(c, <<"home", r>>, m) => c = "stock.report"
    BY DEF Asked
  <2>3. \A o : Reply("stock.report", r, <<"text">>, "stock", o)
    BY DEF Reply, Settled, Yes, No
  <2>. QED
    BY <2>1, <2>2, <2>3, Said, Rests DEF Serves, Stops, Numbers, Strings, Keys, Words
<1>7. ASSUME NEW m \in {8, 15}
      PROVE  Serves("home", r, m, <<"text">>, "home", r, {})
  <2>1. \A y : ~ Silent(<<"home", r>>, m, y)
    BY DEF Silent
  <2>2. \A c : Asked(c, <<"home", r>>, m) => c = "report"
    BY DEF Asked
  <2>3. \A o : Reply("report", r, <<"text">>, "home", o)
    BY DEF Reply, Settled, Yes, No
  <2>. QED
    BY <2>1, <2>2, <2>3, Said, Rests DEF Serves, Stops, Numbers, Strings, Keys, Words
<1>8. ASSUME NEW m \in {9, 10}
      PROVE  Serves("home", r, m, <<>>, "search", r, {})
  <2>1. \A y : Silent(<<"home", r>>, m, y) => y = <<"search", r>>
    BY DEF Silent
  <2>2. \A c : ~ Asked(c, <<"home", r>>, m)
    BY DEF Asked
  <2>. QED
    BY <2>1, <2>2, Said, Rests DEF Serves, Stops, Numbers, Strings, Keys, Words
<1>9. ASSUME NEW m \in {11, 12}
      PROVE  Serves("home", r, m, <<>>, "delete", r, {})
  <2>1. \A y : Silent(<<"home", r>>, m, y) => y = <<"delete", r>>
    BY DEF Silent
  <2>2. \A c : ~ Asked(c, <<"home", r>>, m)
    BY DEF Asked
  <2>. QED
    BY <2>1, <2>2, Said, Rests DEF Serves, Stops, Numbers, Strings, Keys, Words
<1>10. ASSUME NEW m \in {13, 14}
      PROVE  Serves("home", r, m, <<>>, "balance", r, {})
  <2>1. \A y : Silent(<<"home", r>>, m, y) => y = <<"balance", r>>
    BY DEF Silent
  <2>2. \A c : ~ Asked(c, <<"home", r>>, m)
    BY DEF Asked
  <2>. QED
    BY <2>1, <2>2, Said, Rests DEF Serves, Stops, Numbers, Strings, Keys, Words
<1>11. ASSUME NEW m \in {16, 17}
      PROVE  Serves("home", r, m, <<>>, "main", r, {})
  <2>1. \A y : Silent(<<"home", r>>, m, y) => y = <<"main", r>>
    BY DEF Silent
  <2>2. \A c : ~ Asked(c, <<"home", r>>, m)
    BY DEF Asked
  <2>. QED
    BY <2>1, <2>2, Said, Rests DEF Serves, Stops, Numbers, Strings, Keys, Words
<1>12. ASSUME NEW m \in Int \ 1 .. 17
      PROVE  Serves("home", r, m, <<>>, "home", r, {})
  <2>1. \A y : ~ Silent(<<"home", r>>, m, y)
    BY DEF Silent
  <2>2. \A c : ~ Asked(c, <<"home", r>>, m)
    BY DEF Asked
  <2>. QED
    BY <2>1, <2>2, Said, Rests DEF Serves, Stops, Numbers, Strings, Keys, Words
<1>13. ASSUME NEW m \in {7, 8}
       PROVE  ServesMiss("home", r, m, <<>>, "home")
  <2>1. \A y : ~ Silent(<<"home", r>>, m, y)
    BY DEF Silent
  <2>2. \A c : Asked(c, <<"home", r>>, m) => c \in {"stock.report", "report"}
    BY DEF Asked
  <2>. QED
    BY <2>1, <2>2, Said, Rests DEF ServesMiss, Yes, Goals, Stops, Numbers, Strings, Keys, Words
<1>. QED  BY <1>1, <1>2, <1>3, <1>4, <1>5, <1>6, <1>7, <1>8, <1>9, <1>10, <1>11, <1>12, <1>13

LEMMA ServeBuyWell ==
  ASSUME NEW r \in Roles
  PROVE  /\ \A m \in {1} : Serves("buy", r, m, <<>>, "buy.item", r, {})
         /\ \A m \in {2} : Serves("buy", r, m, <<"NO-ORDER", "text">>, "buy", r, {})
         /\ \A m \in {2} : Serves("buy", r, m, <<"Your", "text">>, "buy", r, {})
         /\ \A m \in {2} : Serves("buy", r, m, <<"Cost", "text">>, "buy", r, {"order"})
         /\ \A m \in {3} : Serves("buy", r, m, <<>>, "home", r, {})
         /\ \A m \in Int \ 1 .. 3 : Serves("buy", r, m, <<"text">>, "buy", r, {})
         /\ \A m \in 1 .. 10 : Serves("buy.item", r, m, <<>>, "buy.quantity", r, {})
         /\ \A m \in Anything \ 1 .. 10 :
                  Serves("buy.item", r, m, <<>>, "buy.unread", r, {})
         /\ \A m \in Int : Serves("buy.quantity", r, m, <<"ENOUGH", "text">>, "buy", r, {})
         /\ \A m \in Int :
                  Serves("buy.quantity", r, m, <<"NOT-ENOUGH", "text">>, "buy", r, {})
<1>1. ASSUME NEW m \in {1}
      PROVE  Serves("buy", r, m, <<>>, "buy.item", r, {})
  <2>1. \A y : Silent(<<"buy", r>>, m, y) => y = <<"buy.item", r>>
    BY DEF Silent
  <2>2. \A c : ~ Asked(c, <<"buy", r>>, m)
    BY DEF Asked
  <2>. QED
    BY <2>1, <2>2, Said, Rests DEF Serves, Stops, Numbers, Strings, Keys, Words
<1>2. ASSUME NEW m \in {2}
      PROVE  Serves("buy", r, m, <<"NO-ORDER", "text">>, "buy", r, {})
  <2>1. \A y : ~ Silent(<<"buy", r>>, m, y)
    BY DEF Silent
  <2>2. \A c : Asked(c, <<"buy", r>>, m) => c = "buy.bill"
    BY DEF Asked
  <2>3. \A o : Reply("buy.bill", r, <<"NO-ORDER", "text">>, "buy", o)
    BY DEF Reply, Settled, Yes, No
  <2>. QED
    BY <2>1, <2>2, <2>3, Said, Rests DEF Serves, Stops, Numbers, Strings, Keys, Words
<1>3. ASSUME NEW m \in {2}
      PROVE  Serves("buy", r, m, <<"Your", "text">>, "buy", r, {})
  <2>1. \A y : ~ Silent(<<"buy", r>>, m, y)
    BY DEF Silent
  <2>2. \A c : Asked(c, <<"buy", r>>, m) => c = "buy.bill"
    BY DEF Asked
  <2>3. \A o : Reply("buy.bill", r, <<"Your", "text">>, "buy", o)
    BY DEF Reply, Settled, Yes, No
  <2>. QED
    BY <2>1, <2>2, <2>3, Said, Rests DEF Serves, Stops, Numbers, Strings, Keys, Words
<1>4. ASSUME NEW m \in {2}
      PROVE  Serves("buy", r, m, <<"Cost", "text">>, "buy", r, {"order"})
  <2>1. \A y : ~ Silent(<<"buy", r>>, m, y)
    BY DEF Silent
  <2>2. \A c : Asked(c, <<"buy", r>>, m) => c = "buy.bill"
    BY DEF Asked
  <2>3. \A o : o["order"] = 1 => Reply("buy.bill", r, <<"Cost", "text">>, "buy", o)
    BY DEF Reply, Settled, Yes, No
  <2>. QED
    BY <2>1, <2>2, <2>3, Said, Rests DEF Serves, Stops, Numbers, Strings, Keys, Words, Claims
<1>5. ASSUME NEW m \in {3}
      PROVE  Serves("buy", r, m, <<>>, "home", r, {})
  <2>1. \A y : Silent(<<"buy", r>>, m, y) => y = <<"home", r>>
    BY DEF Silent
  <2>2. \A c : ~ Asked(c, <<"buy", r>>, m)
    BY DEF Asked
  <2>. QED
    BY <2>1, <2>2, Said, Rests DEF Serves, Stops, Numbers, Strings, Keys, Words
<1>6. ASSUME NEW m \in Int \ 1 .. 3
      PROVE  Serves("buy", r, m, <<"text">>, "buy", r, {})
  <2>1. \A y : ~ Silent(<<"buy", r>>, m, y)
    BY DEF Silent
  <2>2. \A c : ~ Asked(c, <<"buy", r>>, m)
    BY DEF Asked
  <2>. QED
    BY <2>1, <2>2, Said, Rests DEF Serves, Stops, Numbers, Strings, Keys, Words
<1>7. ASSUME NEW m \in 1 .. 10
      PROVE  Serves("buy.item", r, m, <<>>, "buy.quantity", r, {})
  <2>1. \A y : Silent(<<"buy.item", r>>, m, y) => y = <<"buy.quantity", r>>
    BY DEF Silent
  <2>2. \A c : ~ Asked(c, <<"buy.item", r>>, m)
    BY DEF Asked
  <2>. QED
    BY <2>1, <2>2, Said, Rests DEF Serves, Stops, Numbers, Strings, Keys, Words
<1>8. ASSUME NEW m \in Anything \ 1 .. 10
      PROVE  Serves("buy.item", r, m, <<>>, "buy.unread", r, {})
  <2>1. \A y : ~ Silent(<<"buy.item", r>>, m, y)
    BY DEF Silent
  <2>2. \A c : ~ Asked(c, <<"buy.item", r>>, m)
    BY DEF Asked
  <2>. QED
    BY <2>1, <2>2, Said, Rests DEF Serves, Stops, Numbers, Strings, Keys, Words
<1>9. ASSUME NEW m \in Int
      PROVE  Serves("buy.quantity", r, m, <<"ENOUGH", "text">>, "buy", r, {})
  <2>1. \A y : ~ Silent(<<"buy.quantity", r>>, m, y)
    BY DEF Silent
  <2>2. \A c : Asked(c, <<"buy.quantity", r>>, m) => c = "buy.item"
    BY DEF Asked
  <2>3. \A o : Reply("buy.item", r, <<"ENOUGH", "text">>, "buy", o)
    BY DEF Reply, Settled, Yes, No
  <2>. QED
    BY <2>1, <2>2, <2>3, Said, Rests DEF Serves, Stops, Numbers, Strings, Keys, Words
<1>10. ASSUME NEW m \in Int
      PROVE  Serves("buy.quantity", r, m, <<"NOT-ENOUGH", "text">>, "buy", r, {})
  <2>1. \A y : ~ Silent(<<"buy.quantity", r>>, m, y)
    BY DEF Silent
  <2>2. \A c : Asked(c, <<"buy.quantity", r>>, m) => c = "buy.item"
    BY DEF Asked
  <2>3. \A o : Reply("buy.item", r, <<"NOT-ENOUGH", "text">>, "buy", o)
    BY DEF Reply, Settled, Yes, No
  <2>. QED
    BY <2>1, <2>2, <2>3, Said, Rests DEF Serves, Stops, Numbers, Strings, Keys, Words
<1>. QED  BY <1>1, <1>2, <1>3, <1>4, <1>5, <1>6, <1>7, <1>8, <1>9, <1>10

LEMMA ServeComplainWell ==
  ASSUME NEW r \in Roles, r = "customer"
  PROVE  /\ \A m \in {1} : Serves("complain", r, m, <<>>, "complain.write", r, {})
         /\ \A m \in {2}, w \in Shown : Serves("complain", r, m, <<w>>, "complain", r, {})
         /\ \A m \in {3} : Serves("complain", r, m, <<>>, "complain.update", r, {})
         /\ \A m \in {4} : Serves("complain", r, m, <<>>, "home", r, {})
         /\ \A m \in Int \ 1 .. 4 : Serves("complain", r, m, <<>>, "complain", r, {})
         /\ \A m \in Anything :
                  Serves("complain.write", r, m, <<"TRUE">>, "complain", r, {"complaint"})
         /\ \A m \in Anything :
                  Serves("complain.update", r, m, <<"TRUE">>, "complain", r, {"complaint"})
         /\ \A m \in Anything :
                  Serves("complain.write", r, m, <<"FALSE">>, "complain", r, {})
         /\ \A m \in Anything :
                  Serves("complain.update", r, m, <<"FAILED">>, "complain", r, {})
         /\ \A m \in Anything :
                  Serves("complain.update", r, m, <<"FALSE">>, "complain", r, {})
<1>1. ASSUME NEW m \in {1}
      PROVE  Serves("complain", r, m, <<>>, "complain.write", r, {})
  <2>1. \A y : Silent(<<"complain", r>>, m, y) => y = <<"complain.write", r>>
    BY DEF Silent
  <2>2. \A c : ~ Asked(c, <<"complain", r>>, m)
    BY DEF Asked
  <2>. QED
    BY <2>1, <2>2, Said, Rests DEF Serves, Stops, Numbers, Strings, Keys, Words
<1>2. ASSUME NEW m \in {2}, NEW w \in Shown
      PROVE  Serves("complain", r, m, <<w>>, "complain", r, {})
  <2>1. \A y : ~ Silent(<<"complain", r>>, m, y)
    BY DEF Silent
  <2>2. \A c : Asked(c, <<"complain", r>>, m) => c = "complain.view"
    BY DEF Asked
  <2>3. \A o : Reply("complain.view", r, <<w>>, "complain", o)
    BY DEF Reply, Settled, Yes, No, Shown
  <2>. QED
    BY <2>1, <2>2, <2>3, Said, Rests DEF Serves, Stops, Numbers, Strings, Keys, Words, Shown
<1>3. ASSUME NEW m \in {3}
      PROVE  Serves("complain", r, m, <<>>, "complain.update", r, {})
  <2>1. \A y : Silent(<<"complain", r>>, m, y) => y = <<"complain.update", r>>
    BY DEF Silent
  <2>2. \A c : ~ Asked(c, <<"complain", r>>, m)
    BY DEF Asked
  <2>. QED
    BY <2>1, <2>2, Said, Rests DEF Serves, Stops, Numbers, Strings, Keys, Words
<1>4. ASSUME NEW m \in {4}
      PROVE  Serves("complain", r, m, <<>>, "home", r, {})
  <2>1. \A y : Silent(<<"complain", r>>, m, y) => y = <<"home", r>>
    BY DEF Silent
  <2>2. \A c : ~ Asked(c, <<"complain", r>>, m)
    BY DEF Asked
  <2>. QED
    BY <2>1, <2>2, Said, Rests DEF Serves, Stops, Numbers, Strings, Keys, Words
<1>5. ASSUME NEW m \in Int \ 1 .. 4
      PROVE  Serves("complain", r, m, <<>>, "complain", r, {})
  <2>1. \A y : ~ Silent(<<"complain", r>>, m, y)
    BY DEF Silent
  <2>2. \A c : ~ Asked(c, <<"complain", r>>, m)
    BY DEF Asked
  <2>. QED
    BY <2>1, <2>2, Said, Rests DEF Serves, Stops, Numbers, Strings, Keys, Words
<1>6. ASSUME NEW m \in Anything
      PROVE  Serves("complain.write", r, m, <<"TRUE">>, "complain", r, {"complaint"})
  <2>1. \A y : ~ Silent(<<"complain.write", r>>, m, y)
    BY DEF Silent
  <2>2. \A c : Asked(c, <<"complain.write", r>>, m) => c = "complain.write"
    BY DEF Asked
  <2>3. \A o : o["complaint"] = 1 => Reply("complain.write", r, <<"TRUE">>, "complain", o)
    BY DEF Reply, Settled, Yes, No
  <2>. QED
    BY <2>1, <2>2, <2>3, Said, Rests DEF Serves, Stops, Numbers, Strings, Keys, Words, Claims
<1>7. ASSUME NEW m \in Anything
      PROVE  Serves("complain.update", r, m, <<"TRUE">>, "complain", r, {"complaint"})
  <2>1. \A y : ~ Silent(<<"complain.update", r>>, m, y)
    BY DEF Silent
  <2>2. \A c : Asked(c, <<"complain.update", r>>, m) => c = "complain.update"
    BY DEF Asked
  <2>3. \A o : o["complaint"] = 1 => Reply("complain.update", r, <<"TRUE">>, "complain", o)
    BY DEF Reply, Settled, Yes, No
  <2>. QED
    BY <2>1, <2>2, <2>3, Said, Rests DEF Serves, Stops, Numbers, Strings, Keys, Words, Claims
<1>8. ASSUME NEW m \in Anything
      PROVE  Serves("complain.write", r, m, <<"FALSE">>, "complain", r, {})
  <2>1. \A y : ~ Silent(<<"complain.write", r>>, m, y)
    BY DEF Silent
  <2>2. \A c : Asked(c, <<"complain.write", r>>, m) => c = "complain.write"
    BY DEF Asked
  <2>3. \A o : Reply("complain.write", r, <<"FALSE">>, "complain", o)
    BY DEF Reply, Settled, Yes, No
  <2>. QED
    BY <2>1, <2>2, <2>3, Said, Rests DEF Serves, Stops, Numbers, Strings, Keys, Words
<1>9. ASSUME NEW m \in Anything
      PROVE  Serves("complain.update", r, m, <<"FAILED">>, "complain", r, {})
  <2>1. \A y : ~ Silent(<<"complain.update", r>>, m, y)
    BY DEF Silent
  <2>2. \A c : Asked(c, <<"complain.update", r>>, m) => c = "complain.update"
    BY DEF Asked
  <2>3. \A o : Reply("complain.update", r, <<"FAILED">>, "complain", o)
    BY DEF Reply, Settled, Yes, No
  <2>. QED
    BY <2>1, <2>2, <2>3, Said, Rests DEF Serves, Stops, Numbers, Strings, Keys, Words
<1>10. ASSUME NEW m \in Anything
      PROVE  Serves("complain.update", r, m, <<"FALSE">>, "complain", r, {})
  <2>1. \A y : ~ Silent(<<"complain.update", r>>, m, y)
    BY DEF Silent
  <2>2. \A c : Asked(c, <<"complain.update", r>>, m) => c = "complain.update"
    BY DEF Asked
  <2>3. \A o : Reply("complain.update", r, <<"FALSE">>, "complain", o)
    BY DEF Reply, Settled, Yes, No
  <2>. QED
    BY <2>1, <2>2, <2>3, Said, Rests DEF Serves, Stops, Numbers, Strings, Keys, Words
<1>. QED  BY <1>1, <1>2, <1>3, <1>4, <1>5, <1>6, <1>7, <1>8, <1>9, <1>10

LEMMA ServeAnswerWell ==
  ASSUME NEW r \in Roles, r # "customer"
  PROVE  /\ \A m \in {1, 2} : Serves("complain", r, m, <<>>, "complain.see", r, {})
         /\ \A m \in Anything :
                  Serves("complain.see", r, m, <<"TRUE", "text">>, "complain", r, {})
         /\ \A m \in Anything : Serves("complain.see", r, m, <<"FALSE">>, "complain", r, {})
         /\ \A m \in {3} : Serves("complain", r, m, <<>>, "complain.answer", r, {})
         /\ \A m \in Anything :
                  Serves("complain.answer", r, m, <<>>, "complain.response", r, {})
         /\ \A m \in Anything :
                  Serves("complain.response", r, m, <<"TRUE">>, "complain", r, {"complaint"})
         /\ \A m \in Anything :
                  Serves("complain.response", r, m, <<"FALSE">>, "complain", r, {})
         /\ \A m \in {4, 5}, w \in Shown :
                  Serves("complain", r, m, <<w>>, "complain", r, {})
         /\ \A m \in {6} : Serves("complain", r, m, <<>>, "complain", r, {})
         /\ \A m \in {7} : Serves("complain", r, m, <<>>, "home", r, {})
         /\ \A m \in Int \ 1 .. 7 : Serves("complain", r, m, <<>>, "complain.key", r, {})
<1>1. ASSUME NEW m \in {1, 2}
      PROVE  Serves("complain", r, m, <<>>, "complain.see", r, {})
  <2>1. \A y : Silent(<<"complain", r>>, m, y) => y = <<"complain.see", r>>
    BY DEF Silent
  <2>2. \A c : ~ Asked(c, <<"complain", r>>, m)
    BY DEF Asked
  <2>. QED
    BY <2>1, <2>2, Said, Rests DEF Serves, Stops, Numbers, Strings, Keys, Words
<1>2. ASSUME NEW m \in Anything
      PROVE  Serves("complain.see", r, m, <<"TRUE", "text">>, "complain", r, {})
  <2>1. \A y : ~ Silent(<<"complain.see", r>>, m, y)
    BY DEF Silent
  <2>2. \A c : Asked(c, <<"complain.see", r>>, m) => c = "complain.see"
    BY DEF Asked
  <2>3. \A o : Reply("complain.see", r, <<"TRUE", "text">>, "complain", o)
    BY DEF Reply, Settled, Yes, No
  <2>. QED
    BY <2>1, <2>2, <2>3, Said, Rests DEF Serves, Stops, Numbers, Strings, Keys, Words
<1>3. ASSUME NEW m \in Anything
      PROVE  Serves("complain.see", r, m, <<"FALSE">>, "complain", r, {})
  <2>1. \A y : ~ Silent(<<"complain.see", r>>, m, y)
    BY DEF Silent
  <2>2. \A c : Asked(c, <<"complain.see", r>>, m) => c = "complain.see"
    BY DEF Asked
  <2>3. \A o : Reply("complain.see", r, <<"FALSE">>, "complain", o)
    BY DEF Reply, Settled, Yes, No
  <2>. QED
    BY <2>1, <2>2, <2>3, Said, Rests DEF Serves, Stops, Numbers, Strings, Keys, Words
<1>4. ASSUME NEW m \in {3}
      PROVE  Serves("complain", r, m, <<>>, "complain.answer", r, {})
  <2>1. \A y : Silent(<<"complain", r>>, m, y) => y = <<"complain.answer", r>>
    BY DEF Silent
  <2>2. \A c : ~ Asked(c, <<"complain", r>>, m)
    BY DEF Asked
  <2>. QED
    BY <2>1, <2>2, Said, Rests DEF Serves, Stops, Numbers, Strings, Keys, Words
<1>5. ASSUME NEW m \in Anything
      PROVE  Serves("complain.answer", r, m, <<>>, "complain.response", r, {})
  <2>1. \A y : Silent(<<"complain.answer", r>>, m, y) => y = <<"complain.response", r>>
    BY DEF Silent
  <2>2. \A c : ~ Asked(c, <<"complain.answer", r>>, m)
    BY DEF Asked
  <2>. QED
    BY <2>1, <2>2, Said, Rests DEF Serves, Stops, Numbers, Strings, Keys, Words
<1>6. ASSUME NEW m \in Anything
      PROVE  Serves("complain.response", r, m, <<"TRUE">>, "complain", r, {"complaint"})
  <2>1. \A y : ~ Silent(<<"complain.response", r>>, m, y)
    BY DEF Silent
  <2>2. \A c : Asked(c, <<"complain.response", r>>, m) => c = "complain.answer"
    BY DEF Asked
  <2>3. \A o : o["complaint"] = 1 => Reply("complain.answer", r, <<"TRUE">>, "complain", o)
    BY DEF Reply, Settled, Yes, No
  <2>. QED
    BY <2>1, <2>2, <2>3, Said, Rests DEF Serves, Stops, Numbers, Strings, Keys, Words, Claims
<1>7. ASSUME NEW m \in Anything
      PROVE  Serves("complain.response", r, m, <<"FALSE">>, "complain", r, {})
  <2>1. \A y : ~ Silent(<<"complain.response", r>>, m, y)
    BY DEF Silent
  <2>2. \A c : Asked(c, <<"complain.response", r>>, m) => c = "complain.answer"
    BY DEF Asked
  <2>3. \A o : Reply("complain.answer", r, <<"FALSE">>, "complain", o)
    BY DEF Reply, Settled, Yes, No
  <2>. QED
    BY <2>1, <2>2, <2>3, Said, Rests DEF Serves, Stops, Numbers, Strings, Keys, Words
<1>8. ASSUME NEW m \in {4, 5}, NEW w \in Shown
      PROVE  Serves("complain", r, m, <<w>>, "complain", r, {})
  <2>1. \A y : ~ Silent(<<"complain", r>>, m, y)
    BY DEF Silent
  <2>2. \A c : Asked(c, <<"complain", r>>, m) => c = "complain.view"
    BY DEF Asked
  <2>3. \A o : Reply("complain.view", r, <<w>>, "complain", o)
    BY DEF Reply, Settled, Yes, No, Shown
  <2>. QED
    BY <2>1, <2>2, <2>3, Said, Rests DEF Serves, Stops, Numbers, Strings, Keys, Words, Shown
<1>9. ASSUME NEW m \in {6}
      PROVE  Serves("complain", r, m, <<>>, "complain", r, {})
  <2>1. \A y : Silent(<<"complain", r>>, m, y) => y = <<"complain", r>>
    BY DEF Silent
  <2>2. \A c : ~ Asked(c, <<"complain", r>>, m)
    BY DEF Asked
  <2>. QED
    BY <2>1, <2>2, Said, Rests DEF Serves, Stops, Numbers, Strings, Keys, Words
<1>10. ASSUME NEW m \in {7}
      PROVE  Serves("complain", r, m, <<>>, "home", r, {})
  <2>1. \A y : Silent(<<"complain", r>>, m, y) => y = <<"home", r>>
    BY DEF Silent
  <2>2. \A c : ~ Asked(c, <<"complain", r>>, m)
    BY DEF Asked
  <2>. QED
    BY <2>1, <2>2, Said, Rests DEF Serves, Stops, Numbers, Strings, Keys, Words
<1>11. ASSUME NEW m \in Int \ 1 .. 7
      PROVE  Serves("complain", r, m, <<>>, "complain.key", r, {})
  <2>1. \A y : ~ Silent(<<"complain", r>>, m, y)
    BY DEF Silent
  <2>2. \A c : ~ Asked(c, <<"complain", r>>, m)
    BY DEF Asked
  <2>. QED
    BY <2>1, <2>2, Said, Rests DEF Serves, Stops, Numbers, Strings, Keys, Words
<1>. QED  BY <1>1, <1>2, <1>3, <1>4, <1>5, <1>6, <1>7, <1>8, <1>9, <1>10, <1>11

LEMMA ServeSearchWell ==
  ASSUME NEW r \in Roles
  PROVE  /\ \A m \in 1 .. 5 : Serves("search", r, m, <<>>, "search.key", r, {})
         /\ \A m \in {6} : Serves("search", r, m, <<>>, "home", r, {})
         /\ \A m \in Int \ 1 .. 6 : Serves("search", r, m, <<>>, "search", r, {})
         /\ \A m \in Anything :
                  Serves("search.key", r, m, <<"TRUE", "text">>, "search", r, {})
         /\ \A m \in Anything : Serves("search.key", r, m, <<"FALSE">>, "search", r, {})
         /\ \A m \in Anything : ServesMiss("search.key", r, m, <<>>, "search")
         /\ \A m \in Anything : ServesMiss("search.key", r, m, <<"TRUE">>, "search.pause")
<1>1. ASSUME NEW m \in 1 .. 5
      PROVE  Serves("search", r, m, <<>>, "search.key", r, {})
  <2>1. \A y : Silent(<<"search", r>>, m, y) => y = <<"search.key", r>>
    BY DEF Silent
  <2>2. \A c : ~ Asked(c, <<"search", r>>, m)
    BY DEF Asked
  <2>. QED
    BY <2>1, <2>2, Said, Rests DEF Serves, Stops, Numbers, Strings, Keys, Words
<1>2. ASSUME NEW m \in {6}
      PROVE  Serves("search", r, m, <<>>, "home", r, {})
  <2>1. \A y : Silent(<<"search", r>>, m, y) => y = <<"home", r>>
    BY DEF Silent
  <2>2. \A c : ~ Asked(c, <<"search", r>>, m)
    BY DEF Asked
  <2>. QED
    BY <2>1, <2>2, Said, Rests DEF Serves, Stops, Numbers, Strings, Keys, Words
<1>3. ASSUME NEW m \in Int \ 1 .. 6
      PROVE  Serves("search", r, m, <<>>, "search", r, {})
  <2>1. \A y : ~ Silent(<<"search", r>>, m, y)
    BY DEF Silent
  <2>2. \A c : ~ Asked(c, <<"search", r>>, m)
    BY DEF Asked
  <2>. QED
    BY <2>1, <2>2, Said, Rests DEF Serves, Stops, Numbers, Strings, Keys, Words
<1>4. ASSUME NEW m \in Anything
      PROVE  Serves("search.key", r, m, <<"TRUE", "text">>, "search", r, {})
  <2>1. \A y : ~ Silent(<<"search.key", r>>, m, y)
    BY DEF Silent
  <2>2. \A c : Asked(c, <<"search.key", r>>, m) => c = "search.key"
    BY DEF Asked
  <2>3. \A o : Reply("search.key", r, <<"TRUE", "text">>, "search", o)
    BY DEF Reply, Settled, Yes, No
  <2>. QED
    BY <2>1, <2>2, <2>3, Said, Rests DEF Serves, Stops, Numbers, Strings, Keys, Words
<1>5. ASSUME NEW m \in Anything
      PROVE  Serves("search.key", r, m, <<"FALSE">>, "search", r, {})
  <2>1. \A y : ~ Silent(<<"search.key", r>>, m, y)
    BY DEF Silent
  <2>2. \A c : Asked(c, <<"search.key", r>>, m) => c = "search.key"
    BY DEF Asked
  <2>3. \A o : Reply("search.key", r, <<"FALSE">>, "search", o)
    BY DEF Reply, Settled, Yes, No
  <2>. QED
    BY <2>1, <2>2, <2>3, Said, Rests DEF Serves, Stops, Numbers, Strings, Keys, Words
<1>6. ASSUME NEW m \in Anything
      PROVE  ServesMiss("search.key", r, m, <<>>, "search")
  <2>1. \A y : ~ Silent(<<"search.key", r>>, m, y)
    BY DEF Silent
  <2>2. \A c : Asked(c, <<"search.key", r>>, m) => c = "search.key"
    BY DEF Asked
  <2>. QED
    BY <2>1, <2>2, Said, Rests DEF ServesMiss, Yes, Goals, Stops, Numbers, Strings, Keys, Words
<1>7. ASSUME NEW m \in Anything
      PROVE  ServesMiss("search.key", r, m, <<"TRUE">>, "search.pause")
  <2>1. \A y : ~ Silent(<<"search.key", r>>, m, y)
    BY DEF Silent
  <2>2. \A c : Asked(c, <<"search.key", r>>, m) => c = "search.key"
    BY DEF Asked
  <2>. QED
    BY <2>1, <2>2, Said, Rests DEF ServesMiss, Yes, Goals, Stops, Numbers, Strings, Keys, Words
<1>. QED  BY <1>1, <1>2, <1>3, <1>4, <1>5, <1>6, <1>7

LEMMA ServeEditWell ==
  ASSUME NEW r \in Roles
  PROVE  /\ \A m \in Anything : Serves("delete", r, m, <<>>, "home", r, {})
         /\ \A m \in Anything : ServesMiss("delete", r, m, <<>>, "home.key")
         /\ \A m \in Anything : Serves("balance", r, m, <<>>, "balance.value", r, {})
         /\ \A m \in Anything :
                  Serves("balance.value", r, m, <<"TRUE">>, "home", r, {"balance"})
         /\ \A m \in Anything : Serves("balance.value", r, m, <<"FALSE">>, "home", r, {})
         /\ \A m \in Anything : ServesMiss("balance.value", r, m, <<>>, "home")
<1>1. ASSUME NEW m \in Anything
      PROVE  Serves("delete", r, m, <<>>, "home", r, {})
  <2>1. \A y : Silent(<<"delete", r>>, m, y) => y = <<"home", r>>
    BY DEF Silent
  <2>2. \A c : ~ Asked(c, <<"delete", r>>, m)
    BY DEF Asked
  <2>. QED
    BY <2>1, <2>2, Said, Rests DEF Serves, Stops, Numbers, Strings, Keys, Words
<1>2. ASSUME NEW m \in Anything
      PROVE  ServesMiss("delete", r, m, <<>>, "home.key")
  <2>1. \A y : Silent(<<"delete", r>>, m, y) => y = <<"home", r>>
    BY DEF Silent
  <2>2. \A c : ~ Asked(c, <<"delete", r>>, m)
    BY DEF Asked
  <2>. QED
    BY <2>1, <2>2, Said, Rests DEF ServesMiss, Yes, Goals, Stops, Numbers, Strings, Keys, Words
<1>3. ASSUME NEW m \in Anything
      PROVE  Serves("balance", r, m, <<>>, "balance.value", r, {})
  <2>1. \A y : Silent(<<"balance", r>>, m, y) => y = <<"balance.value", r>>
    BY DEF Silent
  <2>2. \A c : ~ Asked(c, <<"balance", r>>, m)
    BY DEF Asked
  <2>. QED
    BY <2>1, <2>2, Said, Rests DEF Serves, Stops, Numbers, Strings, Keys, Words
<1>4. ASSUME NEW m \in Anything
      PROVE  Serves("balance.value", r, m, <<"TRUE">>, "home", r, {"balance"})
  <2>1. \A y : ~ Silent(<<"balance.value", r>>, m, y)
    BY DEF Silent
  <2>2. \A c : Asked(c, <<"balance.value", r>>, m) => c = "balance"
    BY DEF Asked
  <2>3. \A o : o["balance"] = 1 => Reply("balance", r, <<"TRUE">>, "home", o)
    BY DEF Reply, Settled, Yes, No
  <2>. QED
    BY <2>1, <2>2, <2>3, Said, Rests DEF Serves, Stops, Numbers, Strings, Keys, Words, Claims
<1>5. ASSUME NEW m \in Anything
      PROVE  Serves("balance.value", r, m, <<"FALSE">>, "home", r, {})
  <2>1. \A y : ~ Silent(<<"balance.value", r>>, m, y)
    BY DEF Silent
  <2>2. \A c : Asked(c, <<"balance.value", r>>, m) => c = "balance"
    BY DEF Asked
  <2>3. \A o : Reply("balance", r, <<"FALSE">>, "home", o)
    BY DEF Reply, Settled, Yes, No
  <2>. QED
    BY <2>1, <2>2, <2>3, Said, Rests DEF Serves, Stops, Numbers, Strings, Keys, Words
<1>6. ASSUME NEW m \in Anything
      PROVE  ServesMiss("balance.value", r, m, <<>>, "home")
  <2>1. \A y : ~ Silent(<<"balance.value", r>>, m, y)
    BY DEF Silent
  <2>2. \A c : Asked(c, <<"balance.value", r>>, m) => c = "balance"
    BY DEF Asked
  <2>. QED
    BY <2>1, <2>2, Said, Rests DEF ServesMiss, Yes, Goals, Stops, Numbers, Strings, Keys, Words
<1>. QED  BY <1>1, <1>2, <1>3, <1>4, <1>5, <1>6

LEMMA ServeStockWell ==
  ASSUME NEW r \in Roles
  PROVE  /\ \A m \in {1} : Serves("stock", r, m, <<>>, "stock.order", r, {})
         /\ \A m \in {2} : Serves("stock", r, m, <<>>, "stock.modify", r, {})
         /\ \A m \in Int \ 1 .. 2 : Serves("stock", r, m, <<>>, "home", r, {})
         /\ \A m \in Anything : Serves("stock.order", r, m, <<"FALSE">>, "home", r, {})
         /\ \A m \in Anything : Serves("stock.modify", r, m, <<"FALSE">>, "home", r, {})
         /\ \A m \in Anything :
                  Serves("stock.order", r, m, <<"TRUE">>, "stock.quantity", r, {})
         /\ \A m \in Int :
                  Serves("stock.quantity", r, m, <<"TRUE">>, "stock.placing", r, {"stock"})
         /\ \A m \in Int : Serves("stock.quantity", r, m, <<"FALSE">>, "home", r, {})
         /\ \A m \in Anything :
                  Serves("stock.modify", r, m, <<"TRUE">>, "stock.price", r, {})
         /\ \A m \in Int : Serves("stock.price", r, m, <<>>, "stock.level", r, {})
         /\ \A m \in Int : Serves("stock.level", r, m, <<>>, "stock.amount", r, {})
         /\ \A m \in Int : Serves("stock.amount", r, m, <<>>, "home", r, {})
<1>1. ASSUME NEW m \in {1}
      PROVE  Serves("stock", r, m, <<>>, "stock.order", r, {})
  <2>1. \A y : Silent(<<"stock", r>>, m, y) => y = <<"stock.order", r>>
    BY DEF Silent
  <2>2. \A c : ~ Asked(c, <<"stock", r>>, m)
    BY DEF Asked
  <2>. QED
    BY <2>1, <2>2, Said, Rests DEF Serves, Stops, Numbers, Strings, Keys, Words
<1>2. ASSUME NEW m \in {2}
      PROVE  Serves("stock", r, m, <<>>, "stock.modify", r, {})
  <2>1. \A y : Silent(<<"stock", r>>, m, y) => y = <<"stock.modify", r>>
    BY DEF Silent
  <2>2. \A c : ~ Asked(c, <<"stock", r>>, m)
    BY DEF Asked
  <2>. QED
    BY <2>1, <2>2, Said, Rests DEF Serves, Stops, Numbers, Strings, Keys, Words
<1>3. ASSUME NEW m \in Int \ 1 .. 2
      PROVE  Serves("stock", r, m, <<>>, "home", r, {})
  <2>1. \A y : ~ Silent(<<"stock", r>>, m, y)
    BY DEF Silent
  <2>2. \A c : ~ Asked(c, <<"stock", r>>, m)
    BY DEF Asked
  <2>. QED
    BY <2>1, <2>2, Said, Rests DEF Serves, Stops, Numbers, Strings, Keys, Words
<1>4. ASSUME NEW m \in Anything
      PROVE  Serves("stock.order", r, m, <<"FALSE">>, "home", r, {})
  <2>1. \A y : ~ Silent(<<"stock.order", r>>, m, y)
    BY DEF Silent
  <2>2. \A c : Asked(c, <<"stock.order", r>>, m) => c = "stock.order"
    BY DEF Asked
  <2>3. \A o : Reply("stock.order", r, <<"FALSE">>, "home", o)
    BY DEF Reply, Settled, Yes, No
  <2>. QED
    BY <2>1, <2>2, <2>3, Said, Rests DEF Serves, Stops, Numbers, Strings, Keys, Words
<1>5. ASSUME NEW m \in Anything
      PROVE  Serves("stock.modify", r, m, <<"FALSE">>, "home", r, {})
  <2>1. \A y : ~ Silent(<<"stock.modify", r>>, m, y)
    BY DEF Silent
  <2>2. \A c : Asked(c, <<"stock.modify", r>>, m) => c = "stock.modify"
    BY DEF Asked
  <2>3. \A o : Reply("stock.modify", r, <<"FALSE">>, "home", o)
    BY DEF Reply, Settled, Yes, No
  <2>. QED
    BY <2>1, <2>2, <2>3, Said, Rests DEF Serves, Stops, Numbers, Strings, Keys, Words
<1>6. ASSUME NEW m \in Anything
      PROVE  Serves("stock.order", r, m, <<"TRUE">>, "stock.quantity", r, {})
  <2>1. \A y : ~ Silent(<<"stock.order", r>>, m, y)
    BY DEF Silent
  <2>2. \A c : Asked(c, <<"stock.order", r>>, m) => c = "stock.order"
    BY DEF Asked
  <2>3. \A o : Reply("stock.order", r, <<"TRUE">>, "stock.quantity", o)
    BY DEF Reply, Settled, Yes, No
  <2>. QED
    BY <2>1, <2>2, <2>3, Said, Rests DEF Serves, Stops, Numbers, Strings, Keys, Words
<1>7. ASSUME NEW m \in Int
      PROVE  Serves("stock.quantity", r, m, <<"TRUE">>, "stock.placing", r, {"stock"})
  <2>1. \A y : ~ Silent(<<"stock.quantity", r>>, m, y)
    BY DEF Silent
  <2>2. \A c : Asked(c, <<"stock.quantity", r>>, m) => c = "stock.placed"
    BY DEF Asked
  <2>3. \A o : o["stock"] = 1 => Reply("stock.placed", r, <<"TRUE">>, "home", o)
    BY DEF Reply, Settled, Yes, No
  <2>. QED
    BY <2>1, <2>2, <2>3, Said, Rests DEF Serves, Stops, Numbers, Strings, Keys, Words, Claims
<1>8. ASSUME NEW m \in Int
      PROVE  Serves("stock.quantity", r, m, <<"FALSE">>, "home", r, {})
  <2>1. \A y : ~ Silent(<<"stock.quantity", r>>, m, y)
    BY DEF Silent
  <2>2. \A c : Asked(c, <<"stock.quantity", r>>, m) => c = "stock.placed"
    BY DEF Asked
  <2>3. \A o : Reply("stock.placed", r, <<"FALSE">>, "home", o)
    BY DEF Reply, Settled, Yes, No
  <2>. QED
    BY <2>1, <2>2, <2>3, Said, Rests DEF Serves, Stops, Numbers, Strings, Keys, Words
<1>9. ASSUME NEW m \in Anything
      PROVE  Serves("stock.modify", r, m, <<"TRUE">>, "stock.price", r, {})
  <2>1. \A y : ~ Silent(<<"stock.modify", r>>, m, y)
    BY DEF Silent
  <2>2. \A c : Asked(c, <<"stock.modify", r>>, m) => c = "stock.modify"
    BY DEF Asked
  <2>3. \A o : Reply("stock.modify", r, <<"TRUE">>, "stock.price", o)
    BY DEF Reply, Settled, Yes, No
  <2>. QED
    BY <2>1, <2>2, <2>3, Said, Rests DEF Serves, Stops, Numbers, Strings, Keys, Words
<1>10. ASSUME NEW m \in Int
      PROVE  Serves("stock.price", r, m, <<>>, "stock.level", r, {})
  <2>1. \A y : Silent(<<"stock.price", r>>, m, y) => y = <<"stock.level", r>>
    BY DEF Silent
  <2>2. \A c : ~ Asked(c, <<"stock.price", r>>, m)
    BY DEF Asked
  <2>. QED
    BY <2>1, <2>2, Said, Rests DEF Serves, Stops, Numbers, Strings, Keys, Words
<1>11. ASSUME NEW m \in Int
      PROVE  Serves("stock.level", r, m, <<>>, "stock.amount", r, {})
  <2>1. \A y : Silent(<<"stock.level", r>>, m, y) => y = <<"stock.amount", r>>
    BY DEF Silent
  <2>2. \A c : ~ Asked(c, <<"stock.level", r>>, m)
    BY DEF Asked
  <2>. QED
    BY <2>1, <2>2, Said, Rests DEF Serves, Stops, Numbers, Strings, Keys, Words
<1>12. ASSUME NEW m \in Int
      PROVE  Serves("stock.amount", r, m, <<>>, "home", r, {})
  <2>1. \A y : Silent(<<"stock.amount", r>>, m, y) => y = <<"home", r>>
    BY DEF Silent
  <2>2. \A c : ~ Asked(c, <<"stock.amount", r>>, m)
    BY DEF Asked
  <2>. QED
    BY <2>1, <2>2, Said, Rests DEF Serves, Stops, Numbers, Strings, Keys, Words
<1>. QED  BY <1>1, <1>2, <1>3, <1>4, <1>5, <1>6, <1>7, <1>8, <1>9, <1>10, <1>11, <1>12

-----------------------------------------------------------------------------
(* Every step of the server but those of input(), of the writing of goods and *)
(* of its end is one of these: it does or promises all of done, did of it now; *)
(* or a file is missing; or it gives up in the middle.                        *)
Credits(says, to, done, did, more) ==
    /\ done \in SUBSET Claims /\ did \in SUBSET Claims
    /\ more \in SUBSET (Mishaps \cap {"unsaved"})
    /\ Receives(server, {Heard}, more)
    /\ Serves(server, sRole, Heard, says, to, sRole', done)
    /\ owed' = [c \in Claims |-> IF c \in did THEN 1 ELSE owed[c]]
    /\ \A d \in done \ did : \/ d = "order" /\ "unsaved" \in more
                             \/ d = "stock" /\ to \in Works

ServerDoes ==
    /\ fields' = fields /\ filed' = filed
    /\ \E says, to :
          /\ Moves(says, to)
          /\ \/ \E done, did, more : Credits(says, to, done, did, more)
             \/ /\ Misses(server, {Heard}) /\ sRole' = sRole /\ owed' = owed
                /\ ServesMiss(server, sRole, Heard, says, to)
             \/ /\ GivesUp(server, {Heard}) /\ sRole' = sRole /\ owed' = owed
                /\ server \in Stops \ {"over", "input"}
                /\ to \in Goals /\ says \in Seq(Words)

(* It reads an empty file or record, before or after it has answered. *)
ServerBreaks ==
    \E says, to :
        /\ Breaks(server, {Heard}, says)
        /\ \/ server \in Stops \ {"over", "input"} /\ says = <<>>
           \/ Serves(server, sRole, Heard, says, to, sRole, {})

LEMMA HeardNow ==
  ASSUME NEW at, NEW what, NEW more, Receives(at, what, more)
  PROVE  server = at /\ Heard \in what /\ Receives(server, {Heard}, more)
BY DEF Receives

LEMMA Replying ==
  ASSUME TypeOK, NEW at, NEW what, NEW says, NEW to, Hears(at, what), Answers(says, to), Same,
         \A m \in what : Serves(at, sRole, m, says, to, sRole, {})
  PROVE  ServerDoes
<1>1. server = at /\ Heard \in what /\ Receives(server, {Heard}, {})
  BY HeardNow DEF Hears
<1>2. Serves(server, sRole, Heard, says, to, sRole', {}) /\ Moves(says, to)
  BY <1>1 DEF Same, Answers
<1>3. owed' = [c \in Claims |-> IF c \in {} THEN 1 ELSE owed[c]]
  BY DEF Answers, TypeOK
<1>4. Credits(says, to, {}, {}, {})
  BY <1>1, <1>2, <1>3 DEF Credits
<1>. QED  BY <1>2, <1>4 DEF ServerDoes, Same

LEMMA Doing ==
  ASSUME TypeOK, NEW at, NEW what, NEW says, NEW to, NEW claim \in Claims,
         Hears(at, what), Does(says, to, claim), Same,
         \A m \in what : Serves(at, sRole, m, says, to, sRole, {claim})
  PROVE  ServerDoes
<1>1. server = at /\ Heard \in what /\ Receives(server, {Heard}, {})
  BY HeardNow DEF Hears
<1>2. Serves(server, sRole, Heard, says, to, sRole', {claim}) /\ Moves(says, to)
  BY <1>1 DEF Same, Does
<1>3. owed' = [c \in Claims |-> IF c \in {claim} THEN 1 ELSE owed[c]]
  BY DEF Does, TypeOK
<1>4. Credits(says, to, {claim}, {claim}, {})
  BY <1>1, <1>2, <1>3 DEF Credits
<1>. QED  BY <1>2, <1>4 DEF ServerDoes, Same

(* The bill of an order that could not be written; goods still to be written. *)
LEMMA Promising ==
  ASSUME TypeOK, NEW at, NEW what, NEW says, NEW to, NEW claim \in Claims,
         NEW more \in SUBSET (Mishaps \cap {"unsaved"}),
         Receives(at, what, more), Answers(says, to), Same,
         (claim = "order" /\ "unsaved" \in more) \/ (claim = "stock" /\ to \in Works),
         \A m \in what : Serves(at, sRole, m, says, to, sRole, {claim})
  PROVE  ServerDoes
<1>1. server = at /\ Heard \in what /\ Receives(server, {Heard}, more)
  BY HeardNow
<1>2. Serves(server, sRole, Heard, says, to, sRole', {claim}) /\ Moves(says, to)
  BY <1>1 DEF Same, Answers
<1>3. owed' = [c \in Claims |-> IF c \in {} THEN 1 ELSE owed[c]]
  BY DEF Answers, TypeOK
<1>4. \A d \in {claim} \ {} : \/ d = "order" /\ "unsaved" \in more
                              \/ d = "stock" /\ to \in Works
  OBVIOUS
<1>5. Credits(says, to, {claim}, {}, more)
  BY <1>1, <1>2, <1>3, <1>4 DEF Credits
<1>. QED  BY <1>2, <1>5 DEF ServerDoes, Same

LEMMA Breaking ==
  ASSUME NEW at \in Stops \ {"over", "input"}, NEW what, NEW says, NEW to, Breaks(at, what, says),
         says = <<>> \/ (\A m \in what : Serves(at, sRole, m, says, to, sRole, {}))
  PROVE  ServerBreaks
<1>1. server = at /\ Heard \in what /\ Breaks(server, {Heard}, says)
  BY DEF Breaks
<1>. QED  BY <1>1 DEF ServerBreaks

LEMMA Missing ==
  ASSUME NEW at, NEW what, NEW says, NEW to, Misses(at, what), Answers(says, to), Same,
         \A m \in what : ServesMiss(at, sRole, m, says, to)
  PROVE  ServerDoes
<1>1. server = at /\ Heard \in what /\ Misses(server, {Heard})
  BY HeardNow DEF Misses
<1>. QED  BY <1>1 DEF ServerDoes, Same, Answers

LEMMA Becomes ==
  ASSUME TypeOK, NEW what, NEW to, NEW r \in Roles, Hears("main", what), Moves(<<>>, to),
         sRole' = r, UNCHANGED data,
         \A m \in what : Serves("main", sRole, m, <<>>, to, r, {})
  PROVE  ServerDoes
<1>1. server = "main" /\ Heard \in what /\ Receives(server, {Heard}, {})
  BY HeardNow DEF Hears
<1>2. Serves(server, sRole, Heard, <<>>, to, sRole', {})
  BY <1>1
<1>3. owed' = [c \in Claims |-> IF c \in {} THEN 1 ELSE owed[c]]
  BY DEF data, TypeOK
<1>4. Credits(<<>>, to, {}, {}, {})
  BY <1>1, <1>2, <1>3 DEF Credits
<1>. QED  BY <1>4 DEF ServerDoes, data

LEMMA ProgramWell ==
  ASSUME NEW r \in Roles
  PROVE  /\ \A m \in {1} : Serves("main", r, m, <<>>, "login", "admin", {})
         /\ \A m \in {2} : Serves("main", r, m, <<>>, "login", "employee", {})
         /\ \A m \in {3} : Serves("main", r, m, <<>>, "start", "customer", {})
         /\ \A m \in {4} : Serves("main", r, m, <<>>, "over", r, {})
         /\ \A m \in Int \ 1 .. 4 : Serves("main", r, m, <<>>, "main", r, {})
<1>1. ASSUME NEW m \in {1}
      PROVE  Serves("main", r, m, <<>>, "login", "admin", {})
  <2>1. \A y : Silent(<<"main", r>>, m, y) => y = <<"login", "admin">>
    BY DEF Silent
  <2>2. \A c : ~ Asked(c, <<"main", r>>, m)
    BY DEF Asked
  <2>. QED
    BY <2>1, <2>2, Said, Rests DEF Serves, Stops, Numbers, Strings, Over, Roles
<1>2. ASSUME NEW m \in {2}
      PROVE  Serves("main", r, m, <<>>, "login", "employee", {})
  <2>1. \A y : Silent(<<"main", r>>, m, y) => y = <<"login", "employee">>
    BY DEF Silent
  <2>2. \A c : ~ Asked(c, <<"main", r>>, m)
    BY DEF Asked
  <2>. QED
    BY <2>1, <2>2, Said, Rests DEF Serves, Stops, Numbers, Strings, Over, Roles
<1>3. ASSUME NEW m \in {3}
      PROVE  Serves("main", r, m, <<>>, "start", "customer", {})
  <2>1. \A y : Silent(<<"main", r>>, m, y) => y = <<"start", "customer">>
    BY DEF Silent
  <2>2. \A c : ~ Asked(c, <<"main", r>>, m)
    BY DEF Asked
  <2>. QED
    BY <2>1, <2>2, Said, Rests DEF Serves, Stops, Numbers, Strings, Over, Roles
<1>4. ASSUME NEW m \in {4}
      PROVE  Serves("main", r, m, <<>>, "over", r, {})
  <2>1. \A y : Silent(<<"main", r>>, m, y) => y = <<"over", r>>
    BY DEF Silent
  <2>2. \A c : ~ Asked(c, <<"main", r>>, m)
    BY DEF Asked
  <2>. QED
    BY <2>1, <2>2, Said, Rests DEF Serves, Stops, Numbers, Strings, Over, Roles
<1>5. ASSUME NEW m \in Int \ 1 .. 4
      PROVE  Serves("main", r, m, <<>>, "main", r, {})
  <2>1. \A y : ~ Silent(<<"main", r>>, m, y)
    BY DEF Silent
  <2>2. \A c : ~ Asked(c, <<"main", r>>, m)
    BY DEF Asked
  <2>. QED
    BY <2>1, <2>2, Said, Rests DEF Serves, Stops, Numbers, Strings, Over, Roles
<1>. QED  BY <1>1, <1>2, <1>3, <1>4, <1>5

LEMMA PROGRAMDoes ==
  ASSUME TypeOK, PROGRAM
  PROVE  ServerDoes
<1>1. sRole \in Roles /\ UNCHANGED data
  BY DEF TypeOK, PROGRAM
<1>2. CASE Hears("main", {1}) /\ Moves(<<>>, "login") /\ sRole' = "admin"
  BY <1>1, <1>2, ProgramWell, Becomes DEF Roles
<1>3. CASE Hears("main", {2}) /\ Moves(<<>>, "login") /\ sRole' = "employee"
  BY <1>1, <1>3, ProgramWell, Becomes DEF Roles
<1>4. CASE Hears("main", {3}) /\ Moves(<<>>, "start") /\ sRole' = "customer"
  BY <1>1, <1>4, ProgramWell, Becomes DEF Roles
<1>5. CASE Hears("main", {4}) /\ Moves(<<>>, "over") /\ UNCHANGED sRole
  BY <1>1, <1>5, ProgramWell, Becomes DEF Roles
<1>6. CASE Hears("main", Int \ 1 .. 4) /\ Moves(<<>>, "main") /\ UNCHANGED sRole
  BY <1>1, <1>6, ProgramWell, Becomes DEF Roles
<1>. QED  BY <1>2, <1>3, <1>4, <1>5, <1>6 DEF PROGRAM

LEMMA ServeStartDoes ==
  ASSUME TypeOK, ServeStart
  PROVE  ServerDoes
<1>1. sRole \in Roles /\ Same
  BY DEF TypeOK, ServeStart
<1>2. CASE Hears("start", {1}) /\ Answers(<<>>, "input")
  BY <1>1, <1>2, ServeStartWell, Replying
<1>3. CASE Hears("start", {2}) /\ Answers(<<>>, "login")
  BY <1>1, <1>3, ServeStartWell, Replying
<1>4. CASE Hears("start", {3}) /\ Answers(<<>>, "main")
  BY <1>1, <1>4, ServeStartWell, Replying
<1>5. CASE Hears("start", Int \ 1 .. 3) /\ Answers(<<>>, "start")
  BY <1>1, <1>5, ServeStartWell, Replying
<1>. QED  BY <1>1, <1>2, <1>3, <1>4, <1>5 DEF ServeStart

LEMMA ServeLoginDoes ==
  ASSUME TypeOK, ServeLogin
  PROVE  ServerDoes
<1>1. sRole \in Roles /\ Same
  BY DEF TypeOK, ServeLogin
<1>2. CASE Hears("login", Anything) /\ Answers(<<>>, "login.password")
  BY <1>1, <1>2, ServeLoginWell, Replying
<1>3. CASE Hears("login.password", Anything) /\ Answers(<<"Correct">>, "home")
  BY <1>1, <1>3, ServeLoginWell, Replying
<1>4. CASE Hears("login.password", Anything) /\ Answers(<<"Incorrect">>, "login")
  BY <1>1, <1>4, ServeLoginWell, Replying
<1>5. CASE Misses("login.password", Anything) /\ Answers(<<>>, "login.key")
  BY <1>1, <1>5, ServeLoginWell, Missing
<1>. QED  BY <1>1, <1>2, <1>3, <1>4, <1>5 DEF ServeLogin

LEMMA ServeCommonDoes ==
  ASSUME TypeOK, Same, ServeCommon
  PROVE  ServerDoes \/ ServerBreaks
<1>1. sRole \in Roles /\ Same
  BY DEF TypeOK, ServeCommon
<1>2. CASE Hears("home", {1}) /\ Answers(<<"text">>, "buy")
  BY <1>1, <1>2, ServeCommonWell, Replying
<1>3. CASE Misses("home", {1}) /\ Answers(<<>>, "home.key")
  BY <1>1, <1>3, ServeCommonWell, Missing
<1>4. CASE Hears("home", {2}) /\ Answers(<<>>, "complain")
  BY <1>1, <1>4, ServeCommonWell, Replying
<1>5. CASE Hears("home", {3}) /\ Answers(<<"text">>, "home")
  BY <1>1, <1>5, ServeCommonWell, Replying
<1>6. CASE Misses("home", {3}) /\ Answers(<<>>, "home.key")
  BY <1>1, <1>6, ServeCommonWell, Missing
<1>7. ASSUME NEW says \in {<<>>, <<"text">>}, Breaks("home", {1}, says)
      PROVE  ServerBreaks
  <2>1. says = <<>> \/ (\A m \in {1} : Serves("home", sRole, m, says, "buy", sRole, {}))
    BY <1>1, ServeCommonWell
  <2>. QED  BY <1>7, <2>1, Breaking DEF Stops, Numbers
<1>. QED  BY <1>1, <1>2, <1>3, <1>4, <1>5, <1>6, <1>7 DEF ServeCommon, Shows

LEMMA ServeCustomerDoes ==
  ASSUME TypeOK, ServeCustomer
  PROVE  ServerDoes \/ ServerBreaks
<1>1. sRole \in Roles /\ Same /\ sRole = "customer"
  BY DEF TypeOK, ServeCustomer
<1>2. CASE ServeCommon
  BY <1>1, <1>2, ServeCommonDoes
<1>3. CASE Hears("home", {4}) /\ Answers(<<>>, "start")
  BY <1>1, <1>3, ServeCustomerWell, Replying
<1>4. CASE Hears("home", Int \ 1 .. 4) /\ Answers(<<>>, "home")
  BY <1>1, <1>4, ServeCustomerWell, Replying
<1>. QED  BY <1>1, <1>2, <1>3, <1>4 DEF ServeCustomer

LEMMA ServeEmployeeDoes ==
  ASSUME TypeOK, ServeEmployee
  PROVE  ServerDoes \/ ServerBreaks
<1>1. sRole \in Roles /\ Same /\ sRole = "employee"
  BY DEF TypeOK, ServeEmployee
<1>2. CASE ServeCommon
  BY <1>1, <1>2, ServeCommonDoes
<1>3. CASE Hears("home", {4}) /\ Answers(<<>>, "main")
  BY <1>1, <1>3, ServeEmployeeWell, Replying
<1>4. CASE Hears("home", Int \ 1 .. 4) /\ Answers(<<>>, "home.key")
  BY <1>1, <1>4, ServeEmployeeWell, Replying
<1>. QED  BY <1>1, <1>2, <1>3, <1>4 DEF ServeEmployee

LEMMA ServeAdminDoes ==
  ASSUME TypeOK, ServeAdmin
  PROVE  ServerDoes \/ ServerBreaks
<1>1. sRole \in Roles /\ Same /\ sRole = "admin"
  BY DEF TypeOK, ServeAdmin
<1>2. CASE ServeCommon
  BY <1>1, <1>2, ServeCommonDoes
<1>3. CASE Hears("home", {4}) /\ Answers(<<>>, "input")
  BY <1>1, <1>3, ServeAdminWell, Replying
<1>4. CASE Hears("home", {5}) /\ Answers(<<"text">>, "home")
  BY <1>1, <1>4, ServeAdminWell, Replying
<1>5. CASE Misses("home", {5}) /\ Answers(<<>>, "home.key")
  BY <1>1, <1>5, ServeAdminWell, Missing
<1>6. CASE Hears("home", {6}) /\ Answers(<<"text">>, "home")
  BY <1>1, <1>6, ServeAdminWell, Replying
<1>7. CASE Misses("home", {6}) /\ Answers(<<>>, "home.key")
  BY <1>1, <1>7, ServeAdminWell, Missing
<1>8. CASE Hears("home", {7}) /\ Answers(<<"text">>, "stock")
  BY <1>1, <1>8, ServeAdminWell, Replying
<1>9. CASE Hears("home", {8, 15}) /\ Answers(<<"text">>, "home")
  BY <1>1, <1>9, ServeAdminWell, Replying
<1>10. CASE Hears("home", {9, 10}) /\ Answers(<<>>, "search")
  BY <1>1, <1>10, ServeAdminWell, Replying
<1>11. CASE Hears("home", {11, 12}) /\ Answers(<<>>, "delete")
  BY <1>1, <1>11, ServeAdminWell, Replying
<1>12. CASE Hears("home", {13, 14}) /\ Answers(<<>>, "balance")
  BY <1>1, <1>12, ServeAdminWell, Replying
<1>13. CASE Hears("home", {16, 17}) /\ Answers(<<>>, "main")
  BY <1>1, <1>13, ServeAdminWell, Replying
<1>14. CASE Hears("home", Int \ 1 .. 17) /\ Answers(<<>>, "home")
  BY <1>1, <1>14, ServeAdminWell, Replying
<1>15. CASE Misses("home", {7, 8}) /\ Answers(<<>>, "home")
  BY <1>1, <1>15, ServeAdminWell, Missing
<1>16. CASE Breaks("home", {7}, <<>>)
  BY <1>16, Breaking DEF Stops, Numbers
<1>. QED  BY <1>1, <1>2, <1>3, <1>4, <1>5, <1>6, <1>7, <1>8, <1>9,
          <1>10, <1>11, <1>12, <1>13, <1>14, <1>15, <1>16 DEF ServeAdmin, Shows

LEMMA ServeBuyDoes ==
  ASSUME TypeOK, ServeBuy
  PROVE  ServerDoes \/ ServerBreaks
<1>1. sRole \in Roles /\ Same
  BY DEF TypeOK, ServeBuy
<1>2. CASE Hears("buy", {1}) /\ Answers(<<>>, "buy.item")
  BY <1>1, <1>2, ServeBuyWell, Replying
<1>3. CASE Hears("buy", {2}) /\ Answers(<<"NO-ORDER", "text">>, "buy")
  BY <1>1, <1>3, ServeBuyWell, Replying
<1>4. CASE Hears("buy", {2}) /\ Answers(<<"Your", "text">>, "buy")
  BY <1>1, <1>4, ServeBuyWell, Replying
<1>5. CASE Hears("buy", {2}) /\ Does(<<"Cost", "text">>, "buy", "order")
  BY <1>1, <1>5, ServeBuyWell, Doing DEF Claims
<1>6. CASE Hears("buy", {3}) /\ Answers(<<>>, "home")
  BY <1>1, <1>6, ServeBuyWell, Replying
<1>7. CASE Hears("buy", Int \ 1 .. 3) /\ Answers(<<"text">>, "buy")
  BY <1>1, <1>7, ServeBuyWell, Replying
<1>8. CASE Hears("buy.item", 1 .. 10) /\ Answers(<<>>, "buy.quantity")
  BY <1>1, <1>8, ServeBuyWell, Replying
<1>9. CASE Hears("buy.item", Anything \ 1 .. 10) /\ Answers(<<>>, "buy.unread")
  BY <1>1, <1>9, ServeBuyWell, Replying
<1>10. CASE Hears("buy.quantity", Int) /\ Answers(<<"ENOUGH", "text">>, "buy")
  BY <1>1, <1>10, ServeBuyWell, Replying
<1>11. CASE Hears("buy.quantity", Int) /\ Answers(<<"NOT-ENOUGH", "text">>, "buy")
  BY <1>1, <1>11, ServeBuyWell, Replying
<1>12. CASE FailsToSave("buy", {2}) /\ Answers(<<"Cost", "text">>, "buy")
  <2>1. {"unsaved"} \in SUBSET (Mishaps \cap {"unsaved"}) /\ Receives("buy", {2}, {"unsaved"})
    BY <1>12 DEF FailsToSave
  <2>. QED  BY <1>1, <1>12, <2>1, ServeBuyWell, Promising DEF Claims
<1>13. CASE Breaks("buy", {2}, <<>>)
  BY <1>13, Breaking DEF Stops, Numbers
<1>. QED  BY <1>1, <1>2, <1>3, <1>4, <1>5, <1>6, <1>7, <1>8, <1>9, <1>10, <1>11,
          <1>12, <1>13 DEF ServeBuy

LEMMA ServeComplainDoes ==
  ASSUME TypeOK, ServeComplain
  PROVE  ServerDoes
<1>1. sRole \in Roles /\ Same /\ sRole = "customer"
  BY DEF TypeOK, ServeComplain
<1>2. CASE Hears("complain", {1}) /\ Answers(<<>>, "complain.write")
  BY <1>1, <1>2, ServeComplainWell, Replying
<1>3. CASE \E w \in {"text", ""} : Hears("complain", {2}) /\ Answers(<<w>>, "complain")
  <2>1. PICK w \in Shown : Hears("complain", {2}) /\ Answers(<<w>>, "complain")
    BY <1>3 DEF Shown
  <2>. QED  BY <1>1, <2>1, ServeComplainWell, Replying
<1>4. CASE Hears("complain", {3}) /\ Answers(<<>>, "complain.update")
  BY <1>1, <1>4, ServeComplainWell, Replying
<1>5. CASE Hears("complain", {4}) /\ Answers(<<>>, "home")
  BY <1>1, <1>5, ServeComplainWell, Replying
<1>6. CASE Hears("complain", Int \ 1 .. 4) /\ Answers(<<>>, "complain")
  BY <1>1, <1>6, ServeComplainWell, Replying
<1>7. CASE Hears("complain.write", Anything) /\ Does(<<"TRUE">>, "complain", "complaint")
  BY <1>1, <1>7, ServeComplainWell, Doing DEF Claims
<1>8. CASE Hears("complain.update", Anything) /\ Does(<<"TRUE">>, "complain", "complaint")
  BY <1>1, <1>8, ServeComplainWell, Doing DEF Claims
<1>9. CASE Hears("complain.write", Anything) /\ Answers(<<"FALSE">>, "complain")
  BY <1>1, <1>9, ServeComplainWell, Replying
<1>10. CASE Hears("complain.update", Anything) /\ Answers(<<"FAILED">>, "complain")
  BY <1>1, <1>10, ServeComplainWell, Replying
<1>11. CASE Hears("complain.update", Anything) /\ Answers(<<"FALSE">>, "complain")
  BY <1>1, <1>11, ServeComplainWell, Replying
<1>. QED  BY <1>1, <1>2, <1>3, <1>4, <1>5, <1>6, <1>7, <1>8, <1>9, <1>10, <1>11 DEF ServeComplain

LEMMA ServeAnswerDoes ==
  ASSUME TypeOK, ServeAnswer
  PROVE  ServerDoes
<1>1. sRole \in Roles /\ Same /\ sRole # "customer"
  BY DEF TypeOK, ServeAnswer
<1>2. CASE Hears("complain", {1, 2}) /\ Answers(<<>>, "complain.see")
  BY <1>1, <1>2, ServeAnswerWell, Replying
<1>3. CASE Hears("complain.see", Anything) /\ Answers(<<"TRUE", "text">>, "complain")
  BY <1>1, <1>3, ServeAnswerWell, Replying
<1>4. CASE Hears("complain.see", Anything) /\ Answers(<<"FALSE">>, "complain")
  BY <1>1, <1>4, ServeAnswerWell, Replying
<1>5. CASE Hears("complain", {3}) /\ Answers(<<>>, "complain.answer")
  BY <1>1, <1>5, ServeAnswerWell, Replying
<1>6. CASE Hears("complain.answer", Anything) /\ Answers(<<>>, "complain.response")
  BY <1>1, <1>6, ServeAnswerWell, Replying
<1>7. CASE Hears("complain.response", Anything) /\ Does(<<"TRUE">>, "complain", "complaint")
  BY <1>1, <1>7, ServeAnswerWell, Doing DEF Claims
<1>8. CASE Hears("complain.response", Anything) /\ Answers(<<"FALSE">>, "complain")
  BY <1>1, <1>8, ServeAnswerWell, Replying
<1>9. CASE \E w \in {"text", ""} : Hears("complain", {4, 5}) /\ Answers(<<w>>, "complain")
  <2>1. PICK w \in Shown : Hears("complain", {4, 5}) /\ Answers(<<w>>, "complain")
    BY <1>9 DEF Shown
  <2>. QED  BY <1>1, <2>1, ServeAnswerWell, Replying
<1>10. CASE Hears("complain", {6}) /\ Answers(<<>>, "complain")
  BY <1>1, <1>10, ServeAnswerWell, Replying
<1>11. CASE Hears("complain", {7}) /\ Answers(<<>>, "home")
  BY <1>1, <1>11, ServeAnswerWell, Replying
<1>12. CASE Hears("complain", Int \ 1 .. 7) /\ Answers(<<>>, "complain.key")
  BY <1>1, <1>12, ServeAnswerWell, Replying
<1>. QED  BY <1>1, <1>2, <1>3, <1>4, <1>5, <1>6, <1>7, <1>8, <1>9, <1>10, <1>11, <1>12 DEF ServeAnswer

LEMMA ServeSearchDoes ==
  ASSUME TypeOK, ServeSearch
  PROVE  ServerDoes
<1>1. sRole \in Roles /\ Same
  BY DEF TypeOK, ServeSearch
<1>2. CASE Hears("search", 1 .. 5) /\ Answers(<<>>, "search.key")
  BY <1>1, <1>2, ServeSearchWell, Replying
<1>3. CASE Hears("search", {6}) /\ Answers(<<>>, "home")
  BY <1>1, <1>3, ServeSearchWell, Replying
<1>4. CASE Hears("search", Int \ 1 .. 6) /\ Answers(<<>>, "search")
  BY <1>1, <1>4, ServeSearchWell, Replying
<1>5. CASE Hears("search.key", Anything) /\ Answers(<<"TRUE", "text">>, "search")
  BY <1>1, <1>5, ServeSearchWell, Replying
<1>6. CASE Hears("search.key", Anything) /\ Answers(<<"FALSE">>, "search")
  BY <1>1, <1>6, ServeSearchWell, Replying
<1>7. CASE Misses("search.key", Anything) /\ Answers(<<>>, "search")
  BY <1>1, <1>7, ServeSearchWell, Missing
<1>8. CASE Misses("search.key", Anything) /\ Answers(<<"TRUE">>, "search.pause")
  BY <1>1, <1>8, ServeSearchWell, Missing
<1>. QED  BY <1>1, <1>2, <1>3, <1>4, <1>5, <1>6, <1>7, <1>8 DEF ServeSearch

LEMMA ServeEditDoes ==
  ASSUME TypeOK, ServeEdit
  PROVE  ServerDoes
<1>1. sRole \in Roles /\ Same
  BY DEF TypeOK, ServeEdit
<1>2. CASE Hears("delete", Anything) /\ Answers(<<>>, "home")
  BY <1>1, <1>2, ServeEditWell, Replying
<1>3. CASE Misses("delete", Anything) /\ Answers(<<>>, "home.key")
  BY <1>1, <1>3, ServeEditWell, Missing
<1>4. CASE Hears("balance", Anything) /\ Answers(<<>>, "balance.value")
  BY <1>1, <1>4, ServeEditWell, Replying
<1>5. CASE Hears("balance.value", Anything) /\ Does(<<"TRUE">>, "home", "balance")
  BY <1>1, <1>5, ServeEditWell, Doing DEF Claims
<1>6. CASE Hears("balance.value", Anything) /\ Answers(<<"FALSE">>, "home")
  BY <1>1, <1>6, ServeEditWell, Replying
<1>7. CASE Misses("balance.value", Anything) /\ Answers(<<>>, "home")
  BY <1>1, <1>7, ServeEditWell, Missing
<1>. QED  BY <1>1, <1>2, <1>3, <1>4, <1>5, <1>6, <1>7 DEF ServeEdit

LEMMA ServeStockDoes ==
  ASSUME TypeOK, ServeStock
  PROVE  ServerDoes \/ ServerBreaks
<1>1. sRole \in Roles /\ Same
  BY DEF TypeOK, ServeStock
<1>2. CASE Hears("stock", {1}) /\ Answers(<<>>, "stock.order")
  BY <1>1, <1>2, ServeStockWell, Replying
<1>3. CASE Hears("stock", {2}) /\ Answers(<<>>, "stock.modify")
  BY <1>1, <1>3, ServeStockWell, Replying
<1>4. CASE Hears("stock", Int \ 1 .. 2) /\ Answers(<<>>, "home")
  BY <1>1, <1>4, ServeStockWell, Replying
<1>5. CASE Hears("stock.order", Anything) /\ Answers(<<"FALSE">>, "home")
  BY <1>1, <1>5, ServeStockWell, Replying
<1>6. CASE Hears("stock.modify", Anything) /\ Answers(<<"FALSE">>, "home")
  BY <1>1, <1>6, ServeStockWell, Replying
<1>7. CASE Hears("stock.order", Anything) /\ Answers(<<"TRUE">>, "stock.quantity")
  BY <1>1, <1>7, ServeStockWell, Replying
<1>8. CASE Hears("stock.quantity", Int) /\ Answers(<<"TRUE">>, "stock.placing")
  <2>1. {} \in SUBSET (Mishaps \cap {"unsaved"}) /\ Receives("stock.quantity", Int, {})
    BY <1>8 DEF Hears
  <2>2. \A m \in Int : Serves("stock.quantity", sRole, m, <<"TRUE">>, "stock.placing", sRole, {"stock"})
    BY <1>1, ServeStockWell
  <2>. QED  BY <1>1, <1>8, <2>1, <2>2, Promising DEF Claims, Works
<1>14. CASE GivesUp("stock.order", Anything) /\ Answers(<<"TRUE">>, "home")
  <2>1. server = "stock.order" /\ GivesUp(server, {Heard})
    BY <1>14, HeardNow DEF GivesUp
  <2>2. /\ "stock.order" \in Stops \ {"over", "input"} /\ "home" \in Goals
        /\ <<"TRUE">> \in Seq(Words)
    BY Said, Rests DEF Stops, Numbers, Strings, Words
  <2>. QED  BY <1>1, <1>14, <2>1, <2>2 DEF ServerDoes, Same, Answers
<1>15. CASE Breaks("stock.order", Anything, <<"TRUE">>)
  BY <1>1, <1>15, ServeStockWell, Breaking DEF Stops, Strings
<1>9. CASE Hears("stock.quantity", Int) /\ Answers(<<"FALSE">>, "home")
  BY <1>1, <1>9, ServeStockWell, Replying
<1>10. CASE Hears("stock.modify", Anything) /\ Answers(<<"TRUE">>, "stock.price")
  BY <1>1, <1>10, ServeStockWell, Replying
<1>11. CASE Hears("stock.price", Int) /\ Answers(<<>>, "stock.level")
  BY <1>1, <1>11, ServeStockWell, Replying
<1>12. CASE Hears("stock.level", Int) /\ Answers(<<>>, "stock.amount")
  BY <1>1, <1>12, ServeStockWell, Replying
<1>13. CASE Hears("stock.amount", Int) /\ Answers(<<>>, "home")
  BY <1>1, <1>13, ServeStockWell, Replying
<1>. QED  BY <1>1, <1>2, <1>3, <1>4, <1>5, <1>6, <1>7, <1>8, <1>9, <1>10, <1>11, <1>12, <1>13,
          <1>14, <1>15 DEF ServeStock

-----------------------------------------------------------------------------
(* The server's steps preserve the invariant. *)

LEMMA HereRest ==
  ASSUME server \in Stops \cup Keys, server # "login.key"
  PROVE  Here = <<Rest(server), sRole>> /\ (server \in Stops => Here = <<server, sRole>>)
<1>1. Stops \cap Keys = {} /\ (Stops \cup Keys) \cap Works = {}
  BY DEF Stops, Numbers, Strings, Over, Keys, Works
<1>2. server \in Stops => Here = <<server, sRole>> /\ Rest(server) = server
  BY <1>1, Rests DEF Here
<1>3. server \in Keys => Rest(server) = Resumed(server)
  BY DEF Keys, Rest, Resumed
<1>. QED  BY <1>2, <1>3 DEF Here

(* What a receive takes. *)
LEMMA Pulled ==
  ASSUME TypeOK, NEW at, NEW what, NEW more \in SUBSET Mishaps, Receives(at, what, more)
  PROVE  /\ client' = client /\ cRole' = cRole /\ adrift' = adrift
         /\ toServer' \in Seq(Anything) /\ Heard \in Anything
         /\ toServer # <<>> \/ Closed
         /\ mishaps \subseteq mishaps' /\ more \subseteq mishaps' /\ mishaps' \subseteq Mishaps
         /\ Steady' /\ toServer # <<>> => toServer' = Tail(toServer) /\ Heard = Head(toServer)
<1>1. /\ client' = client /\ cRole' = cRole /\ adrift' = adrift
      /\ \/ /\ toServer # <<>>
            /\ \E n \in Taken(toServer) :
                  /\ toServer' = After(toServer, n)
                  /\ mishaps' = mishaps \cup LostBy(n) \cup more
         \/ /\ toServer = <<>> /\ Closed
            /\ mishaps' = mishaps \cup more /\ toServer' = toServer
  BY DEF Receives
<1>2. toServer \in Seq(Anything) /\ mishaps \subseteq Mishaps
  BY DEF TypeOK
<1>3. Heard \in Anything
  <2>1. toServer # <<>> => Head(toServer) \in Anything
    BY <1>2
  <2>. QED  BY <2>1, Messages DEF Heard
<1>4. CASE toServer = <<>>
  BY <1>1, <1>2, <1>3, <1>4
<1>5. CASE toServer # <<>>
  <2>1. PICK n \in Taken(toServer) :
           toServer' = After(toServer, n) /\ mishaps' = mishaps \cup LostBy(n) \cup more
    BY <1>1, <1>5
  <2>2. n \in 1 .. Len(toServer) /\ (n > 1 => "lost" \in Mishaps)
    BY <1>2, BoundsAssumption, LenProperties DEF Taken, Least
  <2>3. SubSeq(toServer, n + 1, Len(toServer)) \in Seq(Anything)
    BY <1>2, <2>2, SubSeqProperties, LenProperties
  <2>4. Steady' => n = 1
    BY <2>1, <2>2 DEF Steady, LostBy
  <2>5. n = 1 => SubSeq(toServer, n + 1, Len(toServer)) = Tail(toServer)
    BY <1>2, <1>5
  <2>. QED  BY <1>1, <1>2, <1>3, <1>5, <2>1, <2>2, <2>3, <2>4, <2>5 DEF After, LostBy, Heard
<1>. QED  BY <1>4, <1>5

(* A server that receives, while the ends are in step, is sent something. *)
LEMMA Sent ==
  ASSUME IInv, Steady, client # "gone", server \in Stops \ {"over"}, toServer # <<>> \/ Closed
  PROVE  toServer # <<>> /\ (Agreed \/ Filling)
<1>1. server # "down" /\ server # "login.key" /\ server \notin Keys
  BY DEF Stops, Numbers, Strings, Over, Keys
<1>2. InTouch
  BY <1>1 DEF IInv, Sync
<1>3. ASSUME toServer = <<>> PROVE FALSE
  <2>1. client = "over"
    BY <1>3 DEF Closed
  <2>2. Agreed
    BY <1>2, <2>1, Disjoint DEF InTouch, Filling, Answering, Stuck
  <2>3. PICK y \in States : Leads(Here, toServer, y) /\ SameMenu(client, cRole, y)
    BY <2>1, <2>2, Disjoint DEF Agreed, Understood
  <2>4. y = Here
    BY <1>1, <1>3, <2>3, HereState, LeadsNone DEF IInv
  <2>5. Here[1] = server
    BY <1>1, HereRest
  <2>6. Partner(client) = "over"
    BY <2>1 DEF Partner
  <2>. QED  BY <2>3, <2>4, <2>5, <2>6 DEF SameMenu
<1>. QED  BY <1>2, <1>3 DEF InTouch, Answering, Stuck

LEMMA ServerKeeps ==
  ASSUME IInv, ServerDoes
  PROVE  IInv'
<1>1. TypeOK /\ GoneOrDown /\ Sync /\ NothingPretended /\ NeverThrows /\ FiledAccepted
  BY DEF IInv
<1>2. PICK says, to :
        /\ Moves(says, to) /\ fields' = fields /\ filed' = filed
        /\ \/ \E done, did, more : Credits(says, to, done, did, more)
           \/ /\ Misses(server, {Heard}) /\ sRole' = sRole /\ owed' = owed
              /\ ServesMiss(server, sRole, Heard, says, to)
           \/ /\ GivesUp(server, {Heard}) /\ sRole' = sRole /\ owed' = owed
              /\ server \in Stops \ {"over", "input"}
              /\ to \in Goals /\ says \in Seq(Words)
  BY DEF ServerDoes
<1>3. \E more \in SUBSET Mishaps : Receives(server, {Heard}, more)
  BY <1>2 DEF Misses, GivesUp, Credits
<1>4. /\ client' = client /\ cRole' = cRole /\ adrift' = adrift
      /\ toServer' \in Seq(Anything) /\ Heard \in Anything
      /\ toServer # <<>> \/ Closed
      /\ mishaps \subseteq mishaps' /\ mishaps' \subseteq Mishaps
      /\ Steady' /\ toServer # <<>> => toServer' = Tail(toServer) /\ Heard = Head(toServer)
  BY <1>1, <1>3, Pulled
<1>5. /\ server \in Stops \ {"over", "input"} /\ to \in Goals \cup {"login.key"}
      /\ says \in Seq(Words) /\ sRole' \in Roles
  BY <1>1, <1>2 DEF Serves, ServesMiss, Credits, TypeOK
<1>6. server' = to /\ toClient' = IF Closed THEN <<>> ELSE toClient \o says
  BY <1>2 DEF Moves
<1>7. server # "down" /\ to # "down" /\ server \notin Keys \cup Works
  BY <1>5 DEF Goals, Stops, Numbers, Strings, Over, Keys, Works
<1>8. owed' \in [Claims -> {-1, 0, 1}] /\ \A c \in Claims : owed'[c] >= 0 \/ owed'[c] = owed[c]
  BY <1>1, <1>2 DEF TypeOK, Credits
<1>9. TypeOK'
  <2>1. toClient' \in Seq(Words)
    BY <1>1, <1>5, <1>6, ConcatProperties, EmptySeq DEF TypeOK
  <2>2. server' \in Numbers \cup Strings \cup Keys \cup Works \cup {"over", "down"}
    BY <1>5, <1>6 DEF Goals, Stops, Over, Keys
  <2>. QED  BY <1>1, <1>2, <1>4, <1>5, <1>8, <2>1, <2>2 DEF TypeOK
<1>10. GoneOrDown' /\ NeverThrows' /\ FiledAccepted'
  BY <1>1, <1>2, <1>4, <1>6, <1>7 DEF GoneOrDown, NeverThrows, FiledAccepted, Spared
<1>11. Steady' => Steady
  BY <1>4 DEF Steady
<1>12. NothingPretended'
  BY <1>1, <1>4, <1>7, <1>8, <1>11 DEF NothingPretended, Spared
<1>14. Steady' => ~ GivesUp(server, {Heard})
  <2>1. SUFFICES ASSUME GivesUp(server, {Heard})
                 PROVE  ~ Steady'
    OBVIOUS
  <2>2. "halfway" \in Mishaps /\ Receives(server, {Heard}, {"halfway"})
    BY <2>1 DEF GivesUp
  <2>3. {"halfway"} \in SUBSET Mishaps
    BY <2>2
  <2>4. {"halfway"} \subseteq mishaps'
    BY <1>1, <2>2, <2>3, Pulled
  <2>. QED  BY <2>4 DEF Steady
<1>13. Sync'
  <2>1. SUFFICES ASSUME Steady', client # "gone"
                 PROVE  InTouch'
    BY <1>4, <1>6, <1>7 DEF Sync
  <2>2. toServer # <<>> /\ (Agreed \/ Filling)
    BY <1>4, <1>5, <1>11, <2>1, Sent
  <2>3. Here = <<server, sRole>> /\ Here \in States
    BY <1>1, <1>5, <1>7, HereRest, HereState DEF Goals, Keys
  <2>4. Agreed
    <3>1. "input" # server
      BY <1>5
    <3>. QED  BY <2>2, <2>3, <3>1 DEF Filling
  <2>5. /\ fields = <<>> /\ toClient = <<>> /\ Understood(Here, toServer, client, cRole)
        /\ toServer \in Seq(Anything) /\ cRole \in Roles
    BY <1>1, <2>4 DEF Agreed, TypeOK
  <2>6. /\ toServer' = Tail(toServer) /\ Head(toServer) = Heard
        /\ fields' = <<>> /\ toClient' = IF Closed THEN <<>> ELSE says
    BY <1>2, <1>4, <1>5, <1>6, <2>1, <2>2, <2>5, ConcatEmptySeq
  <2>7. to # "login.key" => Here' = <<Rest(to), sRole'>>
    <3>1. to \in Stops => to \notin Keys \cup Works /\ Rest(to) = to
      BY Rests DEF Stops, Numbers, Strings, Over, Keys, Works
    <3>3. to \in Works => to \notin Keys /\ Rest(to) = "home"
      BY Rests DEF Works, Keys
    <3>2. to \in Keys /\ to # "login.key" => (Resumed(server) = Rest(to))'
      BY <1>6 DEF Keys, Rest, Resumed
    <3>. QED  BY <1>5, <1>6, <3>1, <3>2, <3>3 DEF Here, Goals
  <2>8. CASE \E y \in States : Silent(Here, Heard, y) /\ Understood(y, Tail(toServer), client, cRole)
    <3>1. PICK y \in States :
             Silent(<<server, sRole>>, Heard, y) /\ Understood(y, Tail(toServer), client, cRole)
      BY <2>3, <2>8
    <3>2. says = <<>> /\ y = <<Rest(to), sRole'>> /\ to # "login.key"
      BY <1>2, <1>14, <2>1, <3>1 DEF Serves, ServesMiss, Credits, Goals
    <3>3. Understood(Here', toServer', client', cRole')
      BY <1>4, <2>6, <2>7, <3>1, <3>2
    <3>4. Agreed'
      BY <2>6, <3>2, <3>3 DEF Agreed
    <3>. QED  BY <3>4 DEF InTouch
  <2>9. CASE /\ client \in Awaits /\ Here[2] = cRole /\ Tail(toServer) = <<>>
             /\ Asked(client, Here, Heard)
    <3>1. Asked(client, <<server, sRole>>, Heard) /\ sRole = cRole /\ toServer' = <<>>
      BY <2>3, <2>6, <2>9
    <3>2. ~ Closed /\ toClient' = says
      BY <2>6, <2>9, Disjoint DEF Closed
    <3>3. CASE \E done, did, more : Credits(says, to, done, did, more)
      <4>1. PICK done, did, more : Credits(says, to, done, did, more)
        BY <3>3
      <4>5. /\ done \in SUBSET Claims /\ more \in SUBSET (Mishaps \cap {"unsaved"})
            /\ Receives(server, {Heard}, more)
            /\ Serves(server, sRole, Heard, says, to, sRole', done)
            /\ owed' = [c \in Claims |-> IF c \in did THEN 1 ELSE owed[c]]
            /\ \A d \in done \ did : \/ d = "order" /\ "unsaved" \in more
                                     \/ d = "stock" /\ to \in Works
        BY <4>1 DEF Credits
      <4>2. \A d \in done : Debt'[d] = 1
        <5>1. TAKE d \in done
        <5>2. d \in Claims
          BY <4>5
        <5>3. CASE d \in did
          <6>1. owed'[d] = 1
            BY <4>5, <5>2, <5>3
          <6>. QED  BY <5>2, <6>1 DEF Debt
        <5>4. CASE d = "order" /\ "unsaved" \in more
          <6>1. "unsaved" \in mishaps'
            <7>1. more \in SUBSET Mishaps
              BY <4>5
            <7>. QED  BY <1>1, <4>5, <5>4, <7>1, Pulled
          <6>. QED  BY <5>2, <5>4, <6>1 DEF Debt, Exempt
        <5>5. CASE d = "stock" /\ d \notin did /\ to \in Works
          <6>1. owed'[d] = owed[d]
            BY <4>5, <5>2, <5>5
          <6>2. owed[d] >= 0 \/ "unsaved" \in mishaps
            BY <1>1, <1>7, <1>11, <2>1, <5>2, <5>5 DEF NothingPretended, Spared
          <6>3. owed'[d] # -1 \/ "unsaved" \in mishaps'
            BY <1>4, <6>1, <6>2
          <6>. QED  BY <1>6, <5>2, <5>5, <6>3 DEF Debt, Exempt
        <5>. QED  BY <4>5, <5>3, <5>4, <5>5
      <4>3. sRole' = sRole /\ Reply(client, sRole, says, Rest(to), Debt') /\ to # "login.key"
        BY <3>1, <4>5, <4>2 DEF Serves, Goals
      <4>4. Here'[1] = Rest(to)
        BY <2>7, <4>3
      <4>6. Answering'
        BY <1>4, <2>6, <2>9, <3>1, <3>2, <4>3, <4>4 DEF Answering
      <4>. QED  BY <4>6 DEF InTouch
    <3>4. CASE Misses(server, {Heard}) /\ ServesMiss(server, sRole, Heard, says, to)
      <4>1. says = <<>> \/ (client = "search.key" /\ says = Yes)
        BY <3>1, <3>4 DEF ServesMiss
      <4>2. "missing" \in mishaps'
        <5>1. "missing" \in Mishaps /\ Receives(server, {Heard}, {"missing"})
          BY <3>4 DEF Misses
        <5>. QED  BY <1>1, <5>1, Pulled
      <4>3. Stuck'
        BY <1>4, <2>9, <3>1, <3>2, <4>1, <4>2 DEF Stuck, Unanswered
      <4>. QED  BY <4>3 DEF InTouch
    <3>. QED  BY <1>2, <1>14, <2>1, <3>3, <3>4
  <2>10. ~ (Here = <<"input", cRole>>)
    BY <1>5, <2>3
  <2>. QED  BY <2>2, <2>3, <2>5, <2>6, <2>8, <2>9, <2>10, UnderstoodHead
<1>. QED  BY <1>9, <1>10, <1>12, <1>13 DEF IInv

(* input() receives the fields of the form that the client has sent. *)
LEMMA FormOnItsWay ==
  ASSUME IInv, Steady, client # "gone", server = "input", toServer # <<>> \/ Closed
  PROVE  /\ client = "input.sent" /\ toServer # <<>> /\ toClient = <<>> /\ sRole = cRole
         /\ \E f \in Forms : fields \o toServer = Transfer(f)
<1>1. TypeOK /\ server \in Stops \ {"over"} /\ server # "down" /\ server # "login.key"
  BY DEF IInv, Stops, Strings
<1>2. toServer # <<>> /\ (Agreed \/ Filling)
  BY <1>1, Sent
<1>3. Here = <<"input", sRole>> /\ Here \in States
  BY <1>1, HereRest, HereState
<1>4. CASE Filling
  BY <1>2, <1>3, <1>4 DEF Filling
<1>5. CASE Agreed
  <2>1. /\ fields = <<>> /\ toClient = <<>> /\ Understood(Here, toServer, client, cRole)
        /\ toServer \in Seq(Anything) /\ cRole \in Roles
    BY <1>1, <1>5 DEF Agreed, TypeOK
  <2>2. \A y : ~ Silent(Here, Head(toServer), y)
    BY <1>3 DEF Silent
  <2>3. ~ Asked(client, Here, Head(toServer))
    BY <1>3 DEF Asked
  <2>4. client = "input.sent" /\ Here = <<"input", cRole>> /\ \E f \in Forms : toServer = Transfer(f)
    BY <1>2, <1>3, <2>1, <2>2, <2>3, UnderstoodHead
  <2>5. fields \o toServer = toServer
    BY <2>1, ConcatEmptySeq
  <2>. QED  BY <1>2, <1>3, <2>1, <2>4, <2>5
<1>. QED  BY <1>2, <1>4, <1>5

LEMMA InputSays ==
  /\ <<>> \in Seq(Words) /\ <<"true">> \in Seq(Words) /\ <<"false">> \in Seq(Words)
  /\ <<"true", "TRUE">> \in Seq(Words) /\ <<"false", "FALSE">> \in Seq(Words)
<1>1. {"true", "false", "TRUE", "FALSE"} \subseteq Words
  BY DEF Words
<1>. QED  BY <1>1, Said

LEMMA InputKeeps ==
  ASSUME IInv, ServeInput
  PROVE  IInv'
<1>1. TypeOK /\ GoneOrDown /\ Sync /\ NothingPretended /\ NeverThrows /\ FiledAccepted
  BY DEF IInv
<1>2. Receives("input", Anything, {}) /\ server = "input" /\ sRole' = sRole
  BY DEF ServeInput, Hears, Receives
<1>3. /\ client' = client /\ cRole' = cRole /\ adrift' = adrift
      /\ toServer' \in Seq(Anything) /\ Heard \in Anything
      /\ toServer # <<>> \/ Closed
      /\ mishaps \subseteq mishaps' /\ mishaps' \subseteq Mishaps
      /\ Steady' /\ toServer # <<>> => toServer' = Tail(toServer) /\ Heard = Head(toServer)
  BY <1>1, <1>2, Pulled
<1>6. /\ owed' \in [Claims -> {-1, 0, 1}]
      /\ \A c \in Claims : owed'[c] >= 0 \/ owed'[c] = owed[c]
  BY <1>1 DEF ServeInput, Answers, Does, TypeOK, Claims
<1>7. /\ fields \in Seq(Anything) /\ Len(fields) \in Nat
      /\ Append(fields, Heard) \in Seq(Anything)
      /\ Len(Append(fields, Heard)) = Len(fields) + 1
  BY <1>1, <1>3, LenProperties, AppendProperties DEF TypeOK
<1>8. /\ \/ /\ Len(fields) < 10 /\ fields' = Append(fields, Heard) /\ filed' = filed
            /\ Answers(<<>>, "input")
         \/ /\ Len(fields) = 10 /\ fields' = <<>>
            /\ filed' = filed \/ filed' = Append(fields, Heard)
            /\ IF sRole = "customer"
               THEN \/ Does(<<"true">>, "start.key", "account")
                    \/ Answers(<<"false">>, "start.key")
               ELSE \/ Does(<<"true", "TRUE">>, "home", "account")
                    \/ Answers(<<"false", "FALSE">>, "home")
  BY DEF ServeInput, Fields
<1>5. server' \in {"input", "start.key", "home"} /\ toClient' \in Seq(Words)
  <2>1. \E says \in Seq(Words), to \in {"input", "start.key", "home"} : Moves(says, to)
    <3>1. CASE Answers(<<>>, "input")
      BY <3>1, InputSays DEF Answers
    <3>2. CASE \/ Does(<<"true">>, "start.key", "account")
               \/ Answers(<<"false">>, "start.key")
      BY <3>2, InputSays DEF Does, Answers
    <3>3. CASE \/ Does(<<"true", "TRUE">>, "home", "account")
               \/ Answers(<<"false", "FALSE">>, "home")
      BY <3>3, InputSays DEF Does, Answers
    <3>. QED  BY <1>8, <3>1, <3>2, <3>3
  <2>2. PICK says \in Seq(Words), to \in {"input", "start.key", "home"} : Moves(says, to)
    BY <2>1
  <2>3. toClient' = IF Closed THEN <<>> ELSE toClient \o says
    BY <2>2 DEF Moves
  <2>. QED  BY <1>1, <2>2, <2>3, ConcatProperties, EmptySeq DEF Moves, TypeOK
<1>9. TypeOK'
  <2>2. server' \in Numbers \cup Strings \cup Keys \cup Works \cup {"over", "down"}
    BY <1>5 DEF Numbers, Strings, Keys
  <2>3. fields' \in Seq(Anything) /\ Len(fields') <= 10
    <3>1. <<>> \in Seq(Anything) /\ Len(<<>>) = 0
      OBVIOUS
    <3>2. CASE fields' = <<>>
      BY <3>1, <3>2
    <3>3. CASE Len(fields) < 10 /\ fields' = Append(fields, Heard)
      BY <1>7, <3>3
    <3>. QED  BY <1>8, <3>2, <3>3
  <2>4. filed' \in Seq(Anything) /\ Len(filed') \in {0, 11}
    <3>1. CASE filed' = filed
      BY <1>1, <3>1 DEF TypeOK
    <3>2. CASE Len(fields) = 10 /\ filed' = Append(fields, Heard)
      BY <1>7, <3>2
    <3>. QED  BY <1>8, <3>1, <3>2
  <2>. QED  BY <1>1, <1>2, <1>3, <1>5, <1>6, <2>2, <2>3, <2>4 DEF TypeOK
<1>10. server' # "down" /\ server # "down" /\ server \notin Works
  BY <1>2, <1>5 DEF Works
<1>11. GoneOrDown' /\ NeverThrows'
  BY <1>1, <1>3, <1>10 DEF GoneOrDown, NeverThrows
<1>12. Steady' => Steady
  BY <1>3 DEF Steady
<1>13. NothingPretended'
  BY <1>1, <1>6, <1>3, <1>10, <1>12 DEF NothingPretended, Spared
<1>14. ASSUME Steady', client # "gone"
       PROVE  /\ client = "input.sent" /\ toServer # <<>> /\ toClient = <<>> /\ sRole = cRole
              /\ toServer' = Tail(toServer) /\ ~ Closed
              /\ \E f \in Forms : /\ Append(fields, Heard) \o toServer' = Transfer(f)
                                  /\ Len(fields) + 1 + Len(toServer') = 11
  <2>1. /\ client = "input.sent" /\ toServer # <<>> /\ toClient = <<>> /\ sRole = cRole
        /\ \E f \in Forms : fields \o toServer = Transfer(f)
    BY <1>2, <1>3, <1>12, <1>14, FormOnItsWay
  <2>2. toServer' = Tail(toServer) /\ Heard = Head(toServer) /\ toServer \in Seq(Anything)
    BY <1>1, <1>3, <1>14, <2>1 DEF TypeOK
  <2>3. PICK f \in Forms : fields \o toServer = Transfer(f)
    BY <2>1
  <2>4. Append(fields, Heard) \o toServer' = fields \o toServer
    <3>1. Append(fields, Heard) = fields \o <<Heard>> /\ <<Heard>> \in Seq(Anything)
      BY <1>3, <1>7, AppendIsConcat
    <3>2. (fields \o <<Heard>>) \o toServer' = fields \o (<<Heard>> \o toServer')
      BY <1>3, <1>7, <3>1, ConcatAssociative
    <3>3. <<Heard>> \o Tail(toServer) = toServer
      BY <2>1, <2>2
    <3>. QED  BY <2>2, <3>1, <3>2, <3>3
  <2>5. Len(fields) + 1 + Len(toServer') = 11
    <3>1. Len(Append(fields, Heard) \o toServer') = Len(fields) + 1 + Len(toServer')
      BY <1>3, <1>7, ConcatProperties
    <3>. QED  BY <2>3, <2>4, <3>1, TransferType
  <2>6. ~ Closed
    BY <2>1 DEF Closed
  <2>. QED  BY <2>1, <2>2, <2>3, <2>4, <2>5, <2>6
<1>15. FiledAccepted'
  <2>1. SUFFICES ASSUME Spared({"lost", "exit", "left", "halfway"})', filed' # <<>>, filed' # filed
                 PROVE  \E f \in Forms : filed' = Transfer(f)
    BY <1>1, <1>3 DEF FiledAccepted, Spared
  <2>2. Steady' /\ client # "gone"
    BY <1>1, <1>3, <2>1 DEF Steady, Spared, GoneOrDown
  <2>3. Len(fields) = 10 /\ filed' = Append(fields, Heard)
    BY <1>8, <2>1
  <2>4. PICK f \in Forms : /\ Append(fields, Heard) \o toServer' = Transfer(f)
                           /\ Len(fields) + 1 + Len(toServer') = 11
    BY <1>14, <2>2
  <2>5. toServer' = <<>>
    BY <1>3, <2>3, <2>4, EmptySeq, LenProperties
  <2>. QED  BY <1>7, <2>3, <2>4, <2>5, ConcatEmptySeq
<1>16. Sync'
  <2>1. SUFFICES ASSUME Steady', client # "gone"
                 PROVE  InTouch'
    BY <1>3, <1>10 DEF Sync
  <2>2. /\ client = "input.sent" /\ toClient = <<>> /\ sRole = cRole /\ ~ Closed
        /\ \E f \in Forms : /\ Append(fields, Heard) \o toServer' = Transfer(f)
                            /\ Len(fields) + 1 + Len(toServer') = 11
    BY <1>14, <2>1
  <2>3. CASE Len(fields) # 10
    <3>1. /\ fields' = Append(fields, Heard) /\ server' = "input" /\ toClient' = <<>>
      <4>1. fields' = Append(fields, Heard) /\ Answers(<<>>, "input")
        BY <1>8, <2>3, Zenon
      <4>2. <<>> \o <<>> = <<>>
        OBVIOUS
      <4>. QED  BY <2>2, <4>1, <4>2 DEF Answers, Moves
    <3>2. toServer' # <<>> /\ fields' # <<>>
      <4>1. /\ Len(fields) \in Nat /\ Len(toServer') \in Nat
            /\ Len(fields) + 1 + Len(toServer') = 11
        BY <1>3, <1>7, <2>2, LenProperties
      <4>2. Len(toServer') # 0
        <5>1. Len(fields) # 10
          BY <2>3
        <5>2. \A a, b \in Nat : a # 10 /\ a + 1 + b = 11 => b # 0
          OBVIOUS
        <5>. QED  BY <5>1, <5>2, <4>1
      <4>3. Len(<<>>) = 0 /\ Len(Append(fields, Heard)) # 0
        BY <1>7
      <4>. QED  BY <3>1, <4>2, <4>3
    <3>3. Here' = <<"input", cRole'>>
      BY <1>2, <1>3, <2>2, <3>1 DEF Here, Keys, Works
    <3>4. Filling'
      BY <1>3, <2>2, <3>1, <3>2, <3>3 DEF Filling
    <3>. QED  BY <3>4 DEF InTouch
  <2>4. CASE Len(fields) = 10
    <3>1. toServer' = <<>> /\ fields' = <<>>
      BY <1>3, <1>8, <2>2, <2>4, EmptySeq, LenProperties
    <3>2. /\ Does(<<"true">>, "start.key", "account") \/ Does(<<"true", "TRUE">>, "home", "account")
               => Debt'["account"] = 1
      <4>1. /\ Does(<<"true">>, "start.key", "account") \/ Does(<<"true", "TRUE">>, "home", "account")
                 => owed'["account"] = 1
        BY <1>1 DEF Does, TypeOK, Claims
      <4>2. owed'["account"] = 1 => Debt'["account"] = 1
        BY DEF Debt, Claims, Exempt
      <4>. QED  BY <4>1, <4>2
    <3>3. <<>> \o <<"true">> = <<"true">> /\ <<>> \o <<"false">> = <<"false">>
          /\ <<>> \o <<"true", "TRUE">> = <<"true", "TRUE">>
          /\ <<>> \o <<"false", "FALSE">> = <<"false", "FALSE">>
      OBVIOUS
    <3>4. CASE sRole = "customer"
      <4>1. server' = "start.key" /\ (\/ toClient' = <<"true">> /\ Debt'["account"] = 1
                                      \/ toClient' = <<"false">>)
        BY <1>8, <2>2, <2>4, <3>2, <3>3, <3>4 DEF Does, Answers, Moves
      <4>2. Here'[1] = "start"
        BY <4>1 DEF Here, Resumed, Keys, Works
      <4>3. Reply("input.sent", "customer", toClient', "start", Debt')
        BY <4>1 DEF Reply
      <4>4. Answering'
        BY <1>2, <1>3, <2>2, <3>1, <3>4, <4>2, <4>3, Disjoint DEF Answering
      <4>. QED  BY <4>4 DEF InTouch
    <3>5. CASE sRole # "customer"
      <4>1. server' = "home" /\ (\/ toClient' = <<"true", "TRUE">> /\ Debt'["account"] = 1
                                 \/ toClient' = <<"false", "FALSE">>)
        BY <1>8, <2>2, <2>4, <3>2, <3>3, <3>5 DEF Does, Answers, Moves
      <4>2. Here'[1] = "home"
        BY <4>1 DEF Here, Keys, Works
      <4>3. Reply("input.sent", cRole, toClient', "home", Debt')
        BY <2>2, <3>5, <4>1 DEF Reply
      <4>4. Answering'
        BY <1>2, <1>3, <2>2, <3>1, <4>2, <4>3, Disjoint DEF Answering
      <4>. QED  BY <4>4 DEF InTouch
    <3>. QED  BY <3>4, <3>5
  <2>. QED  BY <1>8, <2>3, <2>4
<1>. QED  BY <1>9, <1>11, <1>13, <1>15, <1>16 DEF IInv

(* Nothing that the server waits for as a number is anything else. *)
LEMMA NumbersCome ==
  ASSUME IInv, Steady, client # "gone", Throws
  PROVE  FALSE
<1>1. TypeOK /\ (toServer # <<>> \/ Closed)
      /\ ((server \in Numbers /\ Heard \notin Int) \/ server = "buy.unread")
  BY DEF IInv, Throws
<1>2. server \in Stops \ {"over"} /\ server # "input" /\ server # "down" /\ server # "login.key"
  BY <1>1 DEF Stops, Numbers, Strings
<1>3. toServer # <<>> /\ (Agreed \/ Filling)
  BY <1>1, <1>2, Sent
<1>4. Here = <<server, sRole>> /\ Here \in States
  BY <1>1, <1>2, HereRest, HereState
<1>5. /\ Understood(Here, toServer, client, cRole)
      /\ toServer \in Seq(Anything) /\ cRole \in Roles /\ Heard = Head(toServer)
  BY <1>1, <1>2, <1>3, <1>4 DEF Agreed, Filling, TypeOK, Heard
<1>6. ASSUME NEW y PROVE ~ Silent(Here, Heard, y)
  <2>1. CASE server = "buy.unread"
    BY <1>4, <2>1 DEF Silent
  <2>2. CASE server \in Numbers /\ Heard \notin Int
    BY <1>4, <2>2 DEF Silent, Numbers
  <2>. QED  BY <1>1, <2>1, <2>2
<1>7. ~ Asked(client, Here, Heard)
  <2>1. CASE server = "buy.unread"
    BY <1>4, <2>1 DEF Asked
  <2>2. CASE server \in Numbers /\ Heard \notin Int
    BY <1>4, <2>2 DEF Asked, Numbers
  <2>. QED  BY <1>1, <2>1, <2>2
<1>. QED  BY <1>2, <1>3, <1>4, <1>5, <1>6, <1>7, UnderstoodHead

LEMMA EndsKeep ==
  ASSUME IInv, Throws \/ Killed
  PROVE  IInv'
<1>1. TypeOK /\ GoneOrDown /\ Sync /\ NothingPretended /\ NeverThrows /\ FiledAccepted
  BY DEF IInv
<1>2. /\ server' = "down" /\ toServer' = <<>> /\ toClient' = toClient
      /\ client' = client /\ cRole' = cRole /\ sRole' = sRole
      /\ fields' = fields /\ filed' = filed /\ owed' = owed /\ adrift' = adrift
      /\ \/ mishaps' = mishaps /\ Throws
         \/ mishaps' = mishaps \cup {"killed"} /\ "killed" \in Mishaps
  BY DEF Throws, Killed, GoesDown, data
<1>3. server \notin {"down", "over"}
  BY DEF Throws, Killed, Numbers
<1>4. Steady' => Steady
  BY <1>2 DEF Steady
<1>5. TypeOK'
  BY <1>1, <1>2, EmptySeq DEF TypeOK
<1>6. GoneOrDown' /\ FiledAccepted'
  BY <1>1, <1>2 DEF GoneOrDown, FiledAccepted, Spared
<1>7. Throws => ~ Steady \/ client = "gone"
  BY NumbersCome
<1>8. NeverThrows'
  BY <1>1, <1>2, <1>7 DEF NeverThrows, Spared, Steady, GoneOrDown
<1>9. NothingPretended'
  BY <1>1, <1>2, <1>3, <1>4 DEF NothingPretended, Spared
<1>10. Sync'
  <2>1. SUFFICES ASSUME Steady, client # "gone"
                 PROVE  Leftover'
    BY <1>2, <1>4 DEF Sync
  <2>2. InTouch /\ Here[1] \in Stops
    BY <1>1, <1>3, <2>1, HereState DEF Sync
  <2>3. \/ toClient = <<>> \/ (client = "search.key" /\ toClient = Yes)
        \/ client \in Awaits /\ Reply(client, cRole, toClient, Here[1], Debt)
    BY <2>2 DEF InTouch, Agreed, Filling, Answering, Stuck, Unanswered
  <2>4. \A d \in Claims : Debt[d] = 1 => Debt'[d] = 1
    BY <1>2, <1>3 DEF Debt, Exempt, Works
  <2>5. Reply(client, cRole, toClient, Here[1], Debt) => Reply(client, cRole, toClient, Here[1], Debt')
    BY <2>4, MoreDone
  <2>. QED  BY <1>2, <2>2, <2>3, <2>5 DEF Leftover
<1>. QED  BY <1>5, <1>6, <1>8, <1>9, <1>10 DEF IInv

(* An empty file or record is read: what the client still finds is the answer  *)
(* it waits for, or nothing.                                                  *)
LEMMA BreaksKeep ==
  ASSUME IInv, ServerBreaks
  PROVE  IInv'
<1>1. TypeOK /\ GoneOrDown /\ Sync /\ NothingPretended /\ NeverThrows /\ FiledAccepted
  BY DEF IInv
<1>2. PICK says, to :
         /\ Breaks(server, {Heard}, says)
         /\ \/ server \in Stops \ {"over", "input"} /\ says = <<>>
            \/ Serves(server, sRole, Heard, says, to, sRole, {})
  BY DEF ServerBreaks
<1>3. /\ server' = "down" /\ toServer' = <<>> /\ (toServer # <<>> \/ Closed)
      /\ toClient' = (IF Closed THEN <<>> ELSE toClient \o says)
      /\ client' = client /\ cRole' = cRole /\ sRole' = sRole
      /\ fields' = fields /\ filed' = filed /\ owed' = owed /\ adrift' = adrift
      /\ mishaps' = mishaps \cup {"empty"} /\ "empty" \in Mishaps
  BY <1>2 DEF Breaks, data
<1>4. server \in Stops \ {"over", "input"} /\ says \in Seq(Words)
  BY <1>2, Said DEF Serves
<1>5. server \notin Keys \cup Works /\ server # "down"
  BY <1>4 DEF Stops, Numbers, Strings, Over, Keys, Works
<1>6. Steady' => Steady
  BY <1>3 DEF Steady
<1>7. TypeOK'
  <2>1. toClient' \in Seq(Words)
    BY <1>1, <1>3, <1>4, ConcatProperties, EmptySeq DEF TypeOK
  <2>. QED  BY <1>1, <1>3, <2>1, EmptySeq DEF TypeOK
<1>8. GoneOrDown' /\ FiledAccepted' /\ NeverThrows'
  BY <1>1, <1>3 DEF GoneOrDown, FiledAccepted, NeverThrows, Spared
<1>9. NothingPretended'
  BY <1>1, <1>3, <1>5, <1>6 DEF NothingPretended, Spared
<1>10. Sync'
  <2>1. SUFFICES ASSUME Steady, client # "gone"
                 PROVE  Leftover'
    BY <1>3, <1>6 DEF Sync
  <2>2. toServer # <<>> /\ (Agreed \/ Filling)
    BY <1>3, <1>4, <2>1, Sent
  <2>3. Here = <<server, sRole>> /\ Here \in States
    BY <1>1, <1>4, <1>5, HereRest, HereState DEF Keys
  <2>4. Agreed
    BY <1>4, <2>2, <2>3 DEF Filling
  <2>5. /\ toClient = <<>> /\ Understood(Here, toServer, client, cRole)
        /\ toServer \in Seq(Anything) /\ cRole \in Roles /\ Heard = Head(toServer)
    BY <1>1, <2>2, <2>4 DEF Agreed, TypeOK, Heard
  <2>6. toClient' = (IF Closed THEN <<>> ELSE says)
    BY <1>3, <1>4, <2>5, ConcatEmptySeq
  <2>7. CASE says = <<>>
    BY <2>6, <2>7 DEF Leftover
  <2>8. CASE says # <<>>
    <3>1. Serves(server, sRole, Heard, says, to, sRole, {})
      BY <1>2, <2>8
    <3>2. \A y : ~ Silent(Here, Heard, y)
      BY <2>3, <2>8, <3>1 DEF Serves
    <3>3. client \in Awaits /\ sRole = cRole /\ Asked(client, Here, Heard)
      BY <1>4, <2>2, <2>3, <2>5, <3>2, UnderstoodHead
    <3>4. Reply(client, cRole, says, Rest(to), Debt')
      BY <2>3, <3>1, <3>3 DEF Serves
    <3>5. Rest(to) \in Stops
      BY <3>1, Rests DEF Serves
    <3>6. toClient' = says
      BY <2>6, <3>3, Disjoint DEF Closed
    <3>. QED  BY <1>3, <3>3, <3>4, <3>5, <3>6 DEF Leftover
  <2>. QED  BY <2>7, <2>8
<1>. QED  BY <1>7, <1>8, <1>9, <1>10 DEF IInv

(* The goods whose order has been answered are written, or cannot be. *)
LEMMA PlaceKeeps ==
  ASSUME IInv, PlaceStock
  PROVE  IInv'
<1>1. TypeOK /\ GoneOrDown /\ Sync /\ NothingPretended /\ NeverThrows /\ FiledAccepted
  BY DEF IInv
<1>2. /\ server = "stock.placing" /\ server' = "home"
      /\ client' = client /\ cRole' = cRole /\ sRole' = sRole
      /\ toServer' = toServer /\ toClient' = toClient
      /\ fields' = fields /\ filed' = filed /\ adrift' = adrift
      /\ \/ /\ owed' = [owed EXCEPT !["stock"] = IF @ = -1 THEN 0 ELSE 1]
            /\ mishaps' = mishaps
         \/ /\ "unsaved" \in Mishaps /\ mishaps' = mishaps \cup {"unsaved"}
            /\ owed' = owed
  BY DEF PlaceStock, wire, Same
<1>3. /\ server \in Works /\ server \notin Keys /\ server # "down"
      /\ server' \in Numbers /\ server' \notin Keys \cup Works /\ server' # "down"
  BY <1>2 DEF Works, Keys, Numbers
<1>4. Here' = Here
  BY <1>2, <1>3 DEF Here
<1>5. /\ mishaps \subseteq mishaps' /\ mishaps' \subseteq Mishaps /\ (Steady' <=> Steady)
      /\ owed' \in [Claims -> {-1, 0, 1}]
      /\ owed'["stock"] >= 0 \/ "unsaved" \in mishaps'
      /\ \A c \in Claims \ {"stock"} : owed'[c] = owed[c]
  <2>1. "stock" \in Claims /\ owed \in [Claims -> {-1, 0, 1}] /\ mishaps \subseteq Mishaps
    BY <1>1 DEF TypeOK, Claims
  <2>2. /\ mishaps \subseteq mishaps' /\ mishaps' \subseteq Mishaps /\ (Steady' <=> Steady)
    BY <1>2, <2>1 DEF Steady
  <2>3. CASE owed' = [owed EXCEPT !["stock"] = IF @ = -1 THEN 0 ELSE 1]
    BY <2>1, <2>2, <2>3
  <2>4. CASE mishaps' = mishaps \cup {"unsaved"} /\ owed' = owed
    BY <2>1, <2>2, <2>4
  <2>. QED  BY <1>2, <2>3, <2>4
<1>6. \A d \in Claims : Debt[d] = 1 => Debt'[d] = 1
  BY <1>1, <1>2, <1>3 DEF Debt, Exempt, TypeOK
<1>7. TypeOK'
  BY <1>1, <1>2, <1>3, <1>5 DEF TypeOK
<1>8. GoneOrDown' /\ NeverThrows' /\ FiledAccepted'
  BY <1>1, <1>2, <1>3, <1>5 DEF GoneOrDown, NeverThrows, FiledAccepted, Spared
<1>9. NothingPretended'
  <2>1. SUFFICES ASSUME Steady, NEW c \in Claims
                 PROVE  owed'[c] >= 0 \/ (c \in {"order", "stock"} /\ "unsaved" \in mishaps')
    BY <1>5 DEF NothingPretended, Spared
  <2>2. c # "stock" => owed[c] >= 0 \/ (c = "order" /\ "unsaved" \in mishaps)
    BY <1>1, <1>3, <2>1 DEF NothingPretended, Spared
  <2>. QED  BY <1>5, <2>2
<1>10. InTouch => InTouch'
  <2>1. Reply(client, cRole, toClient, Here[1], Debt) => Reply(client, cRole, toClient, Here[1], Debt')
    BY <1>6, MoreDone
  <2>2. Agreed => Agreed'
    BY <1>2, <1>4 DEF Agreed
  <2>3. Filling => Filling'
    BY <1>2, <1>4 DEF Filling
  <2>4. Answering => Answering'
    BY <1>2, <1>4, <2>1 DEF Answering
  <2>5. Stuck => Stuck'
    BY <1>2, <1>5 DEF Stuck, Unanswered
  <2>. QED  BY <2>2, <2>3, <2>4, <2>5 DEF InTouch
<1>11. Sync'
  BY <1>1, <1>2, <1>3, <1>5, <1>10 DEF Sync
<1>. QED  BY <1>7, <1>8, <1>9, <1>11 DEF IInv

LEMMA KeyKeeps ==
  ASSUME IInv, PressKey
  PROVE  IInv'
<1>1. TypeOK /\ GoneOrDown /\ Sync /\ NothingPretended /\ NeverThrows /\ FiledAccepted
  BY DEF IInv
<1>2. /\ server \in Keys /\ server' = Resumed(server)
      /\ client' = client /\ cRole' = cRole /\ sRole' = sRole
      /\ toServer' = toServer /\ toClient' = toClient
      /\ fields' = fields /\ filed' = filed /\ owed' = owed
      /\ mishaps' = mishaps /\ adrift' = adrift
  BY DEF PressKey, wire, data, past
<1>3. /\ Resumed(server) \in Numbers /\ Resumed(server) \notin Keys \cup Works
      /\ server # "down" /\ server \notin Works
  BY <1>2 DEF Keys, Resumed, Numbers, Works
<1>4. server' \in Numbers /\ server' \notin Keys \cup Works /\ server' # "down"
  BY <1>2, <1>3 DEF Numbers
<1>11. Debt' = Debt
  BY <1>2, <1>3, <1>4 DEF Debt
<1>5. Here' = Here
  BY <1>2, <1>4 DEF Here
<1>6. TypeOK'
  BY <1>1, <1>2, <1>4 DEF TypeOK
<1>7. GoneOrDown' /\ NeverThrows' /\ FiledAccepted'
  BY <1>1, <1>2, <1>4 DEF GoneOrDown, NeverThrows, FiledAccepted, Spared
<1>8. NothingPretended'
  BY <1>1, <1>2, <1>3 DEF NothingPretended, Steady, Spared
<1>9. InTouch => InTouch'
  BY <1>2, <1>5, <1>11 DEF InTouch, Agreed, Filling, Answering, Stuck, Unanswered
<1>10. Sync'
  BY <1>1, <1>2, <1>3, <1>4, <1>9 DEF Sync, Steady
<1>. QED  BY <1>6, <1>7, <1>8, <1>10 DEF IInv

-----------------------------------------------------------------------------
(* The invariant, and what it says. *)

LEMMA InitHolds == Init => IInv
<1>. SUFFICES ASSUME Init PROVE IInv
  OBVIOUS
<1>1. /\ client = "main" /\ server = "main" /\ cRole = "customer" /\ sRole = "customer"
      /\ toServer = <<>> /\ toClient = <<>> /\ fields = <<>> /\ filed = <<>>
      /\ owed = [c \in Claims |-> 0] /\ mishaps = {} /\ adrift = 0
  BY DEF Init
<1>2. TypeOK
  <2>1. <<>> \in Seq(Anything) /\ <<>> \in Seq(Words) /\ Len(<<>>) = 0
    OBVIOUS
  <2>2. adrift \in 0 .. MaxAdrift
    BY <1>1, BoundsAssumption
  <2>. QED  BY <1>1, <2>1, <2>2 DEF TypeOK, Menus, Numbers, Roles
<1>3. Here = <<"main", "customer">> /\ Here \in States
  BY <1>1, <1>2, HereState DEF Here, Keys, Works
<1>4. Leads(Here, toServer, Here) /\ SameMenu("main", "customer", Here)
  BY <1>1, <1>3, LeadsNone DEF SameMenu, Partner
<1>5. Agreed
  BY <1>1, <1>3, <1>4 DEF Agreed, Understood, Menus
<1>6. GoneOrDown /\ Sync /\ NothingPretended /\ NeverThrows /\ FiledAccepted
  BY <1>1, <1>5 DEF GoneOrDown, Sync, InTouch, NothingPretended, NeverThrows, FiledAccepted
<1>. QED  BY <1>2, <1>6 DEF IInv

LEMMA StutterKeeps ==
  ASSUME IInv, UNCHANGED vars
  PROVE  IInv'
<1>1. /\ client' = client /\ server' = server /\ cRole' = cRole /\ sRole' = sRole
      /\ toServer' = toServer /\ toClient' = toClient
      /\ fields' = fields /\ filed' = filed /\ owed' = owed
      /\ mishaps' = mishaps /\ adrift' = adrift
  BY DEF vars, ends, wire, data, past
<1>2. Here' = Here
  BY <1>1, HereKept
<1>7. Debt' = Debt
  BY <1>1, DebtKept
<1>3. TypeOK' /\ GoneOrDown' /\ NothingPretended' /\ NeverThrows' /\ FiledAccepted'
  BY <1>1 DEF IInv, TypeOK, GoneOrDown, NothingPretended, NeverThrows, FiledAccepted,
              Spared, Steady
<1>4. InTouch => InTouch'
  BY <1>1, <1>2, <1>7 DEF InTouch, Agreed, Filling, Answering, Stuck, Unanswered
<1>5. Leftover => Leftover'
  BY <1>1, <1>7 DEF Leftover
<1>6. Sync'
  BY <1>1, <1>4, <1>5 DEF IInv, Sync, Steady
<1>. QED  BY <1>3, <1>6 DEF IInv

LEMMA StepKeeps == IInv /\ [Next]_vars => IInv'
<1>. SUFFICES ASSUME IInv, [Next]_vars PROVE IInv'
  OBVIOUS
<1>1. CASE User \/ ClientReads
  BY <1>1, ClientKeeps
<1>2. CASE PROGRAM \/ ServeStart \/ ServeLogin \/ ServeCustomer \/ ServeEmployee \/ ServeAdmin
  BY <1>2, PROGRAMDoes, ServeStartDoes, ServeLoginDoes, ServeCustomerDoes, ServeEmployeeDoes,
     ServeAdminDoes, ServerKeeps, BreaksKeep DEF IInv
<1>3. CASE ServeBuy \/ ServeComplain \/ ServeAnswer \/ ServeSearch \/ ServeEdit \/ ServeStock
  BY <1>3, ServeBuyDoes, ServeComplainDoes, ServeAnswerDoes, ServeSearchDoes, ServeEditDoes,
     ServeStockDoes, ServerKeeps, BreaksKeep DEF IInv
<1>4. CASE ServeInput
  BY <1>4, InputKeeps
<1>5. CASE Throws \/ Killed
  BY <1>5, EndsKeep
<1>6. CASE PressKey
  BY <1>6, KeyKeeps
<1>8. CASE PlaceStock
  BY <1>8, PlaceKeeps
<1>7. CASE UNCHANGED vars
  BY <1>7, StutterKeeps
<1>. QED  BY <1>1, <1>2, <1>3, <1>4, <1>5, <1>6, <1>7, <1>8 DEF Next, Serve

LEMMA Invariant == Spec => []IInv
BY InitHolds, StepKeeps, PTL DEF Spec

(* No reply is empty. *)
LEMMA SomethingSaid ==
  ASSUME NEW c, NEW r, NEW p, NEW o
  PROVE  ~ Reply(c, r, <<>>, p, o)
BY DEF Reply, Settled, Yes, No

LEMMA SyncInStep == IInv => InStep
<1>. SUFFICES ASSUME IInv, Spared({"lost", "exit", "missing", "halfway"}), Alive,
                     toServer = <<>>, toClient = <<>>, server \notin Keys \cup Works
              PROVE  /\ client \in Menus /\ server = Partner(client)
                     /\ client # "main" => cRole = sRole
  BY DEF InStep
<1>1. /\ TypeOK /\ Steady /\ server # "down" /\ client \notin {"over", "gone"}
      /\ "missing" \notin mishaps
  BY DEF IInv, Spared, Alive, Closed, Steady
<1>2. Agreed
  BY <1>1, SomethingSaid DEF IInv, Sync, InTouch, Filling, Answering, Stuck
<1>3. Understood(Here, <<>>, client, cRole) /\ Here \in States /\ Here = <<server, sRole>>
  BY <1>1, <1>2, HereState DEF Agreed, Here
<1>4. ASSUME NEW q \in Seq(Anything), NEW m PROVE <<>> # Append(q, m)
  BY <1>4
<1>5. ASSUME NEW q \in Seq(Anything), NEW f \in Forms PROVE <<>> # q \o Transfer(f)
  <2>1. Len(q \o Transfer(f)) = Len(q) + 11 /\ Len(q) \in Nat
    <3>1. Transfer(f) \in Seq(Anything) /\ Len(Transfer(f)) = 11
      BY TransferType
    <3>2. Len(q \o Transfer(f)) = Len(q) + Len(Transfer(f)) /\ Len(q) \in Nat
      BY <3>1, ConcatProperties, LenProperties
    <3>. QED  BY <3>1, <3>2
  <2>2. Len(<<>>) = 0
    OBVIOUS
  <2>. QED  BY <2>1, <2>2
<1>6. client \in Menus \cup Over /\ \E y \in States : Leads(Here, <<>>, y) /\ SameMenu(client, cRole, y)
  BY <1>3, <1>4, <1>5 DEF Understood
<1>7. SameMenu(client, cRole, Here)
  BY <1>3, <1>6, LeadsNone
<1>. QED  BY <1>1, <1>3, <1>6, <1>7 DEF SameMenu, Over

LEMMA SyncFiled == IInv => FiledIsTrue
<1>. SUFFICES ASSUME IInv, Spared({"lost", "exit", "left", "halfway"}), filed # <<>>
              PROVE  /\ filed[2] \in 10 .. 99 /\ filed[3] \in SexCodes
                     /\ IsDate(DateOf(filed)) /\ TrueAge(DateOf(filed), Today) = filed[2]
  BY DEF FiledIsTrue
<1>1. PICK f \in Forms : filed = Transfer(f)
  BY DEF IInv, FiledAccepted
<1>2. /\ f \in Form /\ Today \in Date /\ Accepts(f, Today)
      /\ f.age \in Int /\ f.DOB \in Date
  BY TypedAssumption DEF Forms, Form
<1>3. /\ check_age(f.age) /\ check_sex(f.sex) /\ check_DOB(f.DOB)
      /\ consistency(f.DOB, f.age, Today)
  BY <1>2 DEF Accepts, input_DOB
<1>4. /\ filed[2] = f.age /\ filed[3] = f.sex
      /\ filed[4] = f.DOB.month /\ filed[5] = f.DOB.day /\ filed[6] = f.DOB.year
  BY <1>1 DEF Transfer
<1>5. DateOf(filed) = f.DOB
  BY <1>2, <1>4 DEF DateOf, Date
<1>6. f.age \in 10 .. 99 /\ f.age >= 10
  <2>1. \A a \in Int : ~ (a < 10 \/ a > 99) => a \in 10 .. 99 /\ a >= 10
    OBVIOUS
  <2>. QED  BY <1>2, <1>3, <2>1 DEF check_age
<1>7. NotAfter(f.DOB, Today)
  <2>1. /\ f.DOB.year \in Int /\ f.DOB.month \in Int /\ f.DOB.day \in Int
        /\ Today.year \in Int /\ Today.month \in Int /\ Today.day \in Int
    BY <1>2 DEF Date
  <2>2. Age(f.DOB, Today) >= 10
    BY <1>3, <1>6 DEF consistency
  <2>. QED  BY <2>1, <2>2 DEF Age, NotAfter
<1>8. TrueAge(f.DOB, Today) = f.age
  BY <1>2, <1>3, <1>7, AgeIsTrue DEF consistency
<1>9. IsDate(f.DOB)
  BY <1>2, <1>3, DOBIsDate
<1>. QED  BY <1>3, <1>4, <1>5, <1>6, <1>8, <1>9 DEF check_sex

(* The places, roles and messages of both ends have their types, and what    *)
(* input() has received is never longer than a form without its last field.  *)
THEOREM SessionTypes == Spec => []TypeOK
<1>1. IInv => TypeOK
  BY DEF IInv
<1>. QED  BY <1>1, Invariant, PTL

(* Whenever nothing is on its way, the client and the server are in the same *)
(* menu and take the user for the same kind of person: no choice of the user *)
(* is carried out as another, and no client waits for an answer that the     *)
(* server will not send.                                                     *)
THEOREM EndsInStep == Spec => []InStep
BY Invariant, SyncInStep, PTL

(* What the client program reports as done to its user has been done by the  *)
(* server; but goods ordered by hand are reported while the server has still *)
(* to write them (Admin.cpp:369), and these and an order also when the files *)
(* could not be written or the server has gone.                              *)
THEOREM ReportsAreTrue == Spec => []NothingPretended
<1>1. IInv => NothingPretended
  BY DEF IInv
<1>. QED  BY <1>1, Invariant, PTL

(* A record that the server appends, without a check of its own, is a form   *)
(* that the client accepted: sex and date of birth exist, and the age is the *)
(* one that the date of birth gives.                                         *)
THEOREM RecordsAreTrue == Spec => []FiledIsTrue
BY Invariant, SyncFiled, PTL

(* stoi and stod are never given a text, and the order's array no index      *)
(* beyond it, by a client that runs to its end: none ends the server by what *)
(* it sends.  (What the server reads in its own files may: the balance of a  *)
(* customer who has been deleted, Person.cpp:352, is the mishap "empty".)    *)
THEOREM ServerSurvives == Spec => []NeverThrows
<1>1. IInv => NeverThrows
  BY DEF IInv
<1>. QED  BY <1>1, Invariant, PTL
=============================================================================
