----------------------------- MODULE Complaints -----------------------------
(***************************************************************************)
(* complaint.dat, a file of fixed-size records that the threads of several  *)
(* sessions work on with no lock (Server/Headers/Complaint_Base.cpp and     *)
(* Complaint_E.cpp, called by Customer::complain and Employee::complain).   *)
(*                                                                          *)
(* Writing a complaint measures the file, scans it for one by the same      *)
(* client, and appends at what is then the end.  Seeing, updating and       *)
(* answering write the record back at the offset it was found at.           *)
(* A scan is one step (a stream buffer holds several records).              *)
(***************************************************************************)
EXTENDS Naturals, Sequences

CONSTANTS
    Clients,         \* the customers' usernames
    Texts, Answers,  \* what is typed in
    NoAnswer,        \* "*no answer*"
    Zero,            \* the empty string, as in a record of zero bytes
    None,
    Customers, who,  \* sessions of customers, and each one's username
    Employees,       \* sessions of employees and the administrator
    Serial,          \* TRUE: one operation at a time
    MaxRecords       \* bound: the file is not cleared when it is longer

Sessions == Customers \cup Employees

ASSUME SessionsAssumption ==
    /\ who \in [Customers -> Clients] /\ Customers \cap Employees = {}
    /\ Serial \in BOOLEAN /\ MaxRecords \in Nat
ASSUME StringsAssumption == Zero \notin Clients /\ NoAnswer \notin Answers
ASSUME NoneAssumption ==
    None \notin [text : Texts, answer : Answers \cup {NoAnswer}, seen : BOOLEAN]

VARIABLES
    file,     \* the records of complaint.dat; none if it does not exist
    pc,
    request,  \* per session: operation, client looked for, text or answer
    size,     \* the records there were when the file was measured
    rec, at,  \* the record to be written, and where
    held      \* the client of the record in the member complaint

vars == <<file, pc, request, size, rec, at, held>>

Record == [client : Clients, text : Texts, answer : Answers \cup {NoAnswer},
           seen : BOOLEAN, answered : BOOLEAN]

(* What a write beyond the end leaves in the gap. *)
Blank == [client |-> Zero, text |-> Zero, answer |-> Zero,
          seen |-> FALSE, answered |-> FALSE]

(* Mutant of NewRecord: the text is copied over the client's name. *)
NamelessRecord(c, t) == [client |-> t, text |-> t, answer |-> NoAnswer,
                         seen |-> FALSE, answered |-> FALSE]

NewRecord(c, t) == [client |-> c, text |-> t, answer |-> NoAnswer,
                    seen |-> FALSE, answered |-> FALSE]

NoRequest == [op |-> "none", client |-> Zero, arg |-> Zero]

Idle == [pc |-> [s \in Sessions |-> "menu"],
         request |-> [s \in Sessions |-> NoRequest],
         size |-> [s \in Sessions |-> 0], rec |-> [s \in Sessions |-> Blank],
         at |-> [s \in Sessions |-> 0], held |-> [s \in Sessions |-> Zero]]

Init ==
    /\ file = << >>
    /\ pc = Idle.pc /\ request = Idle.request /\ size = Idle.size
    /\ rec = Idle.rec /\ at = Idle.at /\ held = Idle.held

-----------------------------------------------------------------------------
Begin(s) == pc[s] = "menu" /\ (Serial => \A r \in Sessions : pc[r] = "menu")

Goto(s, to) == pc' = [pc EXCEPT ![s] = to]

(* The operation is over; only the member complaint lives on. *)
Return(s) ==
    /\ Goto(s, "menu")
    /\ request' = [request EXCEPT ![s] = NoRequest]
    /\ size' = [size EXCEPT ![s] = 0]
    /\ rec' = [rec EXCEPT ![s] = Blank] /\ at' = [at EXCEPT ![s] = 0]

(* Mutant of Places: the last record is not looked at. *)
PlacesButLast(c, n) == {i \in 1 .. n - 1 : i <= Len(file) /\ file[i].client = c}

(* Where among the first n records there is one of c. *)
Places(c, n) == {i \in 1 .. n : i <= Len(file) /\ file[i].client = c}

(* The file is opened and measured; write creates it first.                 *)
Open(s, op, c, arg) ==
    /\ Begin(s) /\ Goto(s, "scan")
    /\ request' = [request EXCEPT ![s] = [op |-> op, client |-> c, arg |-> arg]]
    /\ size' = [size EXCEPT ![s] = Len(file)]
    /\ UNCHANGED <<file, rec, at, held>>

Write(s, t) == Open(s, "write", who[s], t)
Update(s, t) == Open(s, "update", who[s], t)
ReView(s) == Open(s, "review", who[s], Zero)
See(s, c) == Open(s, "see", c, Zero)
SeeAnonymously(s, c) == Open(s, "peek", c, Zero)
Answer(s, c, a) == Open(s, "answer", c, a)

(* Mutant of Changed: an answer does not make the complaint seen.            *)
ChangedUnseen(op, r, arg) ==
    CASE op = "see" -> [r EXCEPT !.seen = TRUE]
      [] op = "update" -> [r EXCEPT !.text = arg]
      [] op = "answer" -> [r EXCEPT !.answer = arg, !.answered = TRUE]

(* What the operation makes of the record. *)
Changed(op, r, arg) ==
    CASE op = "see" -> [r EXCEPT !.seen = TRUE]
      [] op = "update" -> [r EXCEPT !.text = arg]
      [] op = "answer" -> [r EXCEPT !.answer = arg, !.seen = TRUE, !.answered = TRUE]

(* Mutant of WritesNothing: an update is not refused once there is an answer. *)
WritesAnyway(op, r) == op \in {"write", "peek", "review"}

(* Looking changes nothing, a second complaint is refused, and so is an      *)
(* update once there is an answer.                                           *)
WritesNothing(op, r) ==
    op \in {"write", "peek", "review"} \/ (op = "update" /\ r.answered)

(* An employee's see reads into a variable of its caller, which is empty;    *)
(* the others read into the member complaint.                                *)
IntoMember(s) == request[s].op \notin {"see", "peek"}
Held(s, c) == held' = IF IntoMember(s) THEN [held EXCEPT ![s] = c] ELSE held

Sought(s) == Places(request[s].client, size[s])

(* The first record of that client is found. *)
Found(s) ==
    /\ pc[s] = "scan"
    /\ \E n \in Sought(s) :
          /\ \A j \in Sought(s) : n <= j
          /\ IF WritesNothing(request[s].op, file[n])
             THEN Return(s)
             ELSE /\ Goto(s, "put") /\ at' = [at EXCEPT ![s] = n]
                  /\ rec' = [rec EXCEPT ![s] =
                                Changed(request[s].op, file[n], request[s].arg)]
                  /\ UNCHANGED <<request, size>>
    /\ Held(s, request[s].client)
    /\ UNCHANGED file

(* Mutant of AtEnd: the loop goes on at the very end of the file.            *)
AtEndLate(s) == Len(file) > size[s]

(* The scan has come to the size that was measured. *)
AtEnd(s) == Len(file) >= size[s]

NotFound(s) ==
    /\ pc[s] = "scan" /\ request[s].op # "write" /\ Sought(s) = {} /\ AtEnd(s)
    /\ IF size[s] > 0 THEN Held(s, file[size[s]].client) ELSE UNCHANGED held
    /\ Return(s)
    /\ UNCHANGED file

(* The file has been cleared since: a read fails, and tellg is -1 ever after. *)
(* If nothing at all was read the record of an earlier operation may match,  *)
(* and the operation returns, though a failed stream writes nothing ...      *)
StaleMatch(s) == file = << >> /\ IntoMember(s) /\ held[s] = request[s].client

Stale(s) ==
    /\ pc[s] = "scan" /\ Sought(s) = {} /\ ~ AtEnd(s)
    /\ StaleMatch(s)
    /\ Return(s)
    /\ UNCHANGED <<file, held>>

(* ... otherwise the loop never ends, but in write, which compares with an   *)
(* unsigned size.                                                            *)
Spin(s) ==
    /\ pc[s] = "scan" /\ request[s].op # "write" /\ Sought(s) = {} /\ ~ AtEnd(s)
    /\ ~ StaleMatch(s)
    /\ Goto(s, "spin")
    /\ UNCHANGED <<file, request, size, rec, at, held>>

(* write has found none, up to the size it measured or the end: the new     *)
(* complaint is appended.                                                    *)
Unique(s) ==
    /\ pc[s] = "scan" /\ request[s].op = "write" /\ Sought(s) = {}
    /\ AtEnd(s) \/ ~ StaleMatch(s)
    /\ Goto(s, "append") /\ Held(s, request[s].client)
    /\ rec' = [rec EXCEPT ![s] = NewRecord(request[s].client, request[s].arg)]
    /\ UNCHANGED <<file, request, size, at>>

AppendRecord(s) ==
    /\ pc[s] = "append" /\ Return(s)
    /\ file' = Append(file, rec[s])
    /\ UNCHANGED held

(* Mutant of Put: the write position is not moved back to the record. *)
PutAfter(s) ==
    /\ pc[s] = "put" /\ Return(s)
    /\ file' = IF at[s] + 1 <= Len(file) THEN [file EXCEPT ![at[s] + 1] = rec[s]]
               ELSE Append(file, rec[s])
    /\ UNCHANGED held

(* The record is written where it was found; that may be past the end now.  *)
Put(s) ==
    /\ pc[s] = "put" /\ Return(s)
    /\ file' = [i \in 1 .. (IF at[s] > Len(file) THEN at[s] ELSE Len(file)) |->
                  IF i = at[s] THEN rec[s] ELSE IF i <= Len(file) THEN file[i] ELSE Blank]
    /\ UNCHANGED held

(* Complaint_E::view lists all, each read into the member complaint. *)
View(s) ==
    /\ Begin(s) /\ file # << >>
    /\ held' = [held EXCEPT ![s] = file[Len(file)].client]
    /\ UNCHANGED <<file, pc, request, size, rec, at>>

(* Complaint_E::clear truncates the file. *)
Clear(s) ==
    /\ Begin(s) /\ Len(file) <= MaxRecords
    /\ file' = << >>
    /\ UNCHANGED <<pc, request, size, rec, at, held>>

(* The session leaves complain(), and with it goes the complaint object. *)
Leave(s) ==
    /\ pc[s] = "menu"
    /\ held' = [held EXCEPT ![s] = Zero]
    /\ UNCHANGED <<file, pc, request, size, rec, at>>

(* The process ends and is started again. *)
Killed ==
    /\ pc' = Idle.pc /\ request' = Idle.request /\ size' = Idle.size
    /\ rec' = Idle.rec /\ at' = Idle.at /\ held' = Idle.held
    /\ UNCHANGED file

-----------------------------------------------------------------------------
Proceed(s) ==
    \/ Found(s) \/ NotFound(s) \/ Stale(s) \/ Spin(s) \/ Unique(s)
    \/ AppendRecord(s) \/ Put(s)

CustomerStep(s) == (\E t \in Texts : Write(s, t) \/ Update(s, t)) \/ ReView(s)

EmployeeStep(s) ==
    \/ \E c \in Clients : See(s, c) \/ SeeAnonymously(s, c)
    \/ \E c \in Clients, a \in Answers : Answer(s, c, a)
    \/ View(s) \/ Clear(s)

Next ==
    \/ \E s \in Sessions : Proceed(s) \/ Leave(s)
    \/ \E s \in Customers : CustomerStep(s)
    \/ \E s \in Employees : EmployeeStep(s)
    \/ Killed

Spec == Init /\ [][Next]_vars

(* A thread that need not wait for its client is scheduled. *)
LiveSpec == Spec /\ \A s \in Sessions : WF_vars(Proceed(s))

-----------------------------------------------------------------------------
TypeOK ==
    /\ file \in Seq(Record \cup {Blank})
    /\ pc \in [Sessions -> {"menu", "append", "scan", "put", "spin"}]
    /\ \A s \in Sessions :
          /\ request[s].op \in {"none", "write", "see", "peek", "review", "update", "answer"}
          /\ size[s] \in Nat /\ at[s] \in Nat
          /\ rec[s] \in Record \cup {Blank}
          /\ held[s] \in Clients \cup {Zero}

(* However the sessions interleave, a complaint is marked answered if and    *)
(* only if it has an answer, and then it has been seen: the whole record is  *)
(* written at once (Complaint_Base.cpp:89, 128; Complaint_E.cpp:22-27).      *)
Coherent(r) ==
    r.client \in Clients =>
        /\ r.answered <=> r.answer \in Answers
        /\ r.answered => r.seen

Consistent == \A i \in DOMAIN file : Coherent(file[i])

(* A client has at most one complaint (Complaint_Base.cpp:34: unique).       *)
OneEach ==
    \A i, j \in DOMAIN file :
        file[i].client = file[j].client /\ file[i].client \in Clients => i = j

(* An answered complaint stays answered, with the text that was answered,    *)
(* until all are cleared: an update is refused (Complaint_Base.cpp:120), and *)
(* nothing takes an answer back.                                             *)
Answered(c, t) ==
    \E i \in DOMAIN file : file[i].client = c /\ file[i].answered /\ file[i].text = t

AnswerSticks ==
    [][\A c \in Clients, t \in Texts :
          Answered(c, t) /\ file' # << >> => Answered(c, t)']_vars

(* Every operation on a complaint returns to the menu (or the process ends,  *)
(* which brings the session back there as well).                             *)
Replied == \A s \in Sessions : pc[s] = "scan" ~> pc[s] = "menu"

(* Served one at a time, the file is a book of complaints by client. *)
RecordOf(c) ==
    LET P == Places(c, Len(file))
        first == CHOOSE i \in P : \A j \in P : i <= j IN
    IF P = {} THEN None
    ELSE [text |-> file[first].text, answer |-> file[first].answer,
          seen |-> file[first].seen]

Book == INSTANCE ComplaintBook WITH book <- [c \in Clients |-> RecordOf(c)]

ImplementsBook == Book!Spec
=============================================================================
