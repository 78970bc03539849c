-------------------------- MODULE ComplaintsProofs --------------------------
(***************************************************************************)
(* For every set of clients, texts and sessions, served together or one at  *)
(* a time: Complaints keeps its types, and whatever the threads do to each  *)
(* other's records, an answer and its two marks stay together.              *)
(*                                                                          *)
(* IInv knows, beside the file, the record a session is about to write      *)
(* (ReadyOK) and what it was asked to look for (AskedOK): a scan, with      *)
(* other sessions' writes around it, makes the one out of the other.        *)
(***************************************************************************)
EXTENDS Complaints, SequenceTheorems, TLAPS

Stored == Record \cup {Blank}

Request == [op : {"none", "write", "see", "peek", "review", "update", "answer"},
            client : Clients \cup {Zero}, arg : Texts \cup Answers \cup {Zero}]

StateOK ==
    /\ file \in Seq(Stored)
    /\ pc \in [Sessions -> {"menu", "append", "scan", "put", "spin"}]
    /\ request \in [Sessions -> Request]
    /\ size \in [Sessions -> Nat] /\ at \in [Sessions -> Nat]
    /\ rec \in [Sessions -> Stored]
    /\ held \in [Sessions -> Clients \cup {Zero}]

(* A session that scans was asked something, about a client. *)
AskedOK ==
    \A s \in Sessions : pc[s] = "scan" =>
        /\ request[s].client \in Clients /\ request[s].op # "none"
        /\ request[s].op \in {"write", "update"} => request[s].arg \in Texts
        /\ request[s].op = "answer" => request[s].arg \in Answers

(* A session that is about to write has a coherent record, and a place.      *)
ReadyOK ==
    \A s \in Sessions :
        /\ pc[s] \in {"append", "put"} => Coherent(rec[s])
        /\ pc[s] = "put" => at[s] # 0

IInv == StateOK /\ AskedOK /\ ReadyOK /\ Consistent

USE SessionsAssumption, StringsAssumption

LEMMA BlankStored == Blank \in Stored /\ Coherent(Blank)
BY DEF Stored, Blank, Coherent

(* The reset state fits, whatever the file. *)
LEMMA IdleOK ==
    /\ Idle.pc \in [Sessions -> {"menu"}] /\ Idle.request \in [Sessions -> Request]
    /\ Idle.size \in [Sessions -> Nat] /\ Idle.at \in [Sessions -> Nat]
    /\ Idle.rec \in [Sessions -> Stored] /\ Idle.held \in [Sessions -> {Zero}]
BY BlankStored DEF Idle, Request, NoRequest

LEMMA InitOK == Init => IInv
<1> SUFFICES ASSUME Init PROVE IInv
  OBVIOUS
<1>1. file = << >> /\ file \in Seq(Stored)
  BY EmptySeq DEF Init
<1>2. StateOK
  BY <1>1, IdleOK DEF Init, StateOK
<1>3. \A s \in Sessions : pc[s] = "menu"
  BY IdleOK DEF Init
<1>4. Consistent
  BY <1>1 DEF Consistent
<1> QED
  BY <1>2, <1>3, <1>4 DEF IInv, AskedOK, ReadyOK

(* What an operation makes of a coherent record is one, and not blank.       *)
LEMMA ChangedOK ==
    ASSUME NEW r \in Record, Coherent(r), NEW op, NEW arg,
           op \in {"see", "update", "answer"},
           op = "update" => arg \in Texts /\ ~ r.answered,
           op = "answer" => arg \in Answers
    PROVE  Changed(op, r, arg) \in Stored /\ Coherent(Changed(op, r, arg))
<1>1. CASE op = "see"
  BY <1>1 DEF Changed, Record, Coherent, Stored
<1>2. CASE op = "update"
  BY <1>2 DEF Changed, Record, Coherent, Stored
<1>3. CASE op = "answer"
  BY <1>3 DEF Changed, Record, Coherent, Stored
<1> QED
  BY <1>1, <1>2, <1>3

(* A session that returns has nothing left to write or to look for.          *)
LEMMA ReturnOK ==
    ASSUME IInv, NEW s \in Sessions, Return(s)
    PROVE  /\ pc' \in [Sessions -> {"menu", "append", "scan", "put", "spin"}]
           /\ request' \in [Sessions -> Request]
           /\ size' \in [Sessions -> Nat] /\ at' \in [Sessions -> Nat]
           /\ rec' \in [Sessions -> Stored]
           /\ AskedOK' /\ ReadyOK'
<1> USE DEF IInv, StateOK
<1>1. NoRequest \in Request
  BY DEF NoRequest, Request
<1>2. pc'[s] = "menu" /\ \A r \in Sessions \ {s} :
         /\ pc'[r] = pc[r] /\ request'[r] = request[r]
         /\ rec'[r] = rec[r] /\ at'[r] = at[r]
  BY DEF Return, Goto
<1>3. AskedOK'
  BY <1>2 DEF AskedOK
<1>4. ReadyOK'
  BY <1>2 DEF ReadyOK, Coherent
<1> QED
  BY <1>1, <1>3, <1>4, BlankStored DEF Return, Goto

LEMMA AppendOK ==
    ASSUME IInv, NEW s \in Sessions, AppendRecord(s)
    PROVE  IInv'
<1> USE DEF IInv, StateOK
<1>1. Return(s) /\ rec[s] \in Stored /\ Coherent(rec[s])
  BY DEF AppendRecord, ReadyOK
<1>2. /\ file' \in Seq(Stored)
      /\ DOMAIN file' = 1 .. Len(file) + 1
      /\ \A i \in 1 .. Len(file) + 1 :
            file'[i] = IF i = Len(file) + 1 THEN rec[s] ELSE file[i]
  BY <1>1, AppendProperties DEF AppendRecord
<1>3. Consistent'
  BY <1>1, <1>2 DEF Consistent, Coherent
<1> QED
  BY <1>1, <1>2, <1>3, ReturnOK DEF AppendRecord

LEMMA OpenOK ==
    ASSUME IInv, NEW s \in Sessions, NEW c \in Clients,
           NEW op \in {"write", "see", "peek", "review", "update", "answer"},
           NEW arg \in Texts \cup Answers \cup {Zero},
           op \in {"write", "update"} => arg \in Texts, op = "answer" => arg \in Answers,
           Open(s, op, c, arg)
    PROVE  IInv'
<1> USE DEF IInv, StateOK
<1>1. [op |-> op, client |-> c, arg |-> arg] \in Request
  BY DEF Request
<1>2. Len(file) \in Nat
  BY LenProperties
<1>3. StateOK'
  BY <1>1, <1>2 DEF Open, Goto
<1>4. AskedOK'
  BY DEF Open, Goto, AskedOK
<1>5. ReadyOK'
  BY DEF Open, Goto, ReadyOK, Coherent
<1> QED
  BY <1>3, <1>4, <1>5 DEF Open, Consistent, Coherent

LEMMA HeldOK ==
    ASSUME StateOK, NEW s \in Sessions, NEW c \in Clients \cup {Zero}, Held(s, c)
    PROVE  held' \in [Sessions -> Clients \cup {Zero}]
BY DEF StateOK, Held

LEMMA FoundOK ==
    ASSUME IInv, NEW s \in Sessions, Found(s)
    PROVE  IInv'
<1> USE DEF IInv, StateOK
<1>1. PICK n \in Sought(s) :
          IF WritesNothing(request[s].op, file[n])
          THEN Return(s)
          ELSE /\ Goto(s, "put") /\ at' = [at EXCEPT ![s] = n]
               /\ rec' = [rec EXCEPT ![s] =
                             Changed(request[s].op, file[n], request[s].arg)]
               /\ UNCHANGED <<request, size>>
  BY DEF Found
<1>2. /\ pc[s] = "scan" /\ request[s].client \in Clients
      /\ request[s].op \in {"write", "see", "peek", "review", "update", "answer"}
  BY DEF Found, AskedOK, Request
<1>3. held' \in [Sessions -> Clients \cup {Zero}]
  BY <1>2, HeldOK DEF Found
<1>4. /\ n \in 1 .. Len(file) /\ n \in Nat \ {0} /\ file[n].client \in Clients
  BY <1>2, LenProperties DEF Sought, Places
<1>5. file[n] \in Record /\ Coherent(file[n])
  <2>1. file[n] \in Stored /\ DOMAIN file = 1 .. Len(file)
    BY <1>4, ElementOfSeq, LenProperties
  <2>2. Blank.client = Zero
    BY DEF Blank
  <2> QED
    BY <1>4, <2>1, <2>2 DEF Stored, Consistent
<1>6. CASE WritesNothing(request[s].op, file[n])
  <2>1. Return(s) /\ file' = file
    BY <1>1, <1>6 DEF Found
  <2> QED
    BY <1>3, <2>1, ReturnOK DEF Consistent, Coherent
<1>7. CASE ~ WritesNothing(request[s].op, file[n])
  <2> DEFINE new == Changed(request[s].op, file[n], request[s].arg)
  <2>1. /\ request[s].op \in {"see", "update", "answer"}
        /\ request[s].op = "update" => request[s].arg \in Texts /\ ~ file[n].answered
        /\ request[s].op = "answer" => request[s].arg \in Answers
    BY <1>2, <1>7 DEF WritesNothing, AskedOK
  <2>2. new \in Stored /\ Coherent(new)
    BY <1>5, <2>1, ChangedOK
  <2>3. /\ pc' = [pc EXCEPT ![s] = "put"] /\ at' = [at EXCEPT ![s] = n]
        /\ rec' = [rec EXCEPT ![s] = new]
        /\ UNCHANGED <<file, request, size>>
    BY <1>1, <1>7 DEF Goto, Found
  <2> HIDE DEF new
  <2>4. StateOK'
    BY <1>3, <1>4, <2>2, <2>3
  <2>5. AskedOK'
    BY <2>3 DEF AskedOK
  <2>6. ReadyOK'
    BY <1>4, <2>2, <2>3 DEF ReadyOK, Coherent
  <2> QED
    BY <2>3, <2>4, <2>5, <2>6 DEF Consistent, Coherent
<1> QED
  BY <1>6, <1>7

LEMMA UniqueOK ==
    ASSUME IInv, NEW s \in Sessions, Unique(s)
    PROVE  IInv'
<1> USE DEF IInv, StateOK
<1> DEFINE new == NewRecord(request[s].client, request[s].arg)
<1>1. request[s].client \in Clients /\ request[s].arg \in Texts
  BY DEF Unique, AskedOK
<1>2. new \in Stored /\ Coherent(new)
  BY <1>1 DEF NewRecord, Stored, Record, Coherent
<1>3. held' \in [Sessions -> Clients \cup {Zero}]
  BY <1>1, HeldOK DEF Unique
<1>4. /\ pc' = [pc EXCEPT ![s] = "append"] /\ rec' = [rec EXCEPT ![s] = new]
      /\ UNCHANGED <<file, request, size, at>>
  BY DEF Unique, Goto
<1> HIDE DEF new
<1>5. StateOK'
  BY <1>2, <1>3, <1>4
<1>6. AskedOK'
  BY <1>4 DEF AskedOK
<1>7. ReadyOK'
  BY <1>2, <1>4 DEF ReadyOK, Coherent
<1> QED
  BY <1>4, <1>5, <1>6, <1>7 DEF Consistent, Coherent

LEMMA NotFoundOK ==
    ASSUME IInv, NEW s \in Sessions, NotFound(s)
    PROVE  IInv'
<1> USE DEF IInv, StateOK
<1>1. Return(s) /\ file' = file
  BY DEF NotFound
<1>2. held' \in [Sessions -> Clients \cup {Zero}]
  <2>1. CASE size[s] > 0
    <3>1. size[s] \in 1 .. Len(file)
      BY <2>1, LenProperties DEF NotFound, AtEnd
    <3>2. file[size[s]] \in Stored
      BY <3>1, ElementOfSeq
    <3>3. file[size[s]].client \in Clients \cup {Zero}
      BY <3>2 DEF Stored, Record, Blank
    <3> QED
      BY <2>1, <3>3, HeldOK DEF NotFound
  <2>2. CASE ~ (size[s] > 0)
    BY <2>2 DEF NotFound
  <2> QED
    BY <2>1, <2>2
<1> QED
  BY <1>1, <1>2, ReturnOK DEF Consistent, Coherent

LEMMA StaleOK ==
    ASSUME IInv, NEW s \in Sessions, Stale(s)
    PROVE  IInv'
BY ReturnOK DEF Stale, IInv, StateOK, Consistent, Coherent

LEMMA SpinOK ==
    ASSUME IInv, NEW s \in Sessions, Spin(s)
    PROVE  IInv'
<1> USE DEF IInv, StateOK
<1>1. StateOK'
  BY DEF Spin, Goto
<1>2. AskedOK' /\ ReadyOK'
  BY DEF Spin, Goto, AskedOK, ReadyOK, Coherent
<1> QED
  BY <1>1, <1>2 DEF Spin, Consistent, Coherent

(* What the write leaves in the file: the session's record at its place,     *)
(* zero bytes in a gap before it, and the other records as they were.        *)
LEMMA PutOK ==
    ASSUME IInv, NEW s \in Sessions, Put(s)
    PROVE  IInv'
<1> USE DEF IInv, StateOK
<1>1. Return(s) /\ rec[s] \in Stored /\ Coherent(rec[s])
  BY DEF Put, ReadyOK
<1> DEFINE m == IF at[s] > Len(file) THEN at[s] ELSE Len(file)
           new(i) == IF i = at[s] THEN rec[s] ELSE IF i <= Len(file) THEN file[i] ELSE Blank
<1>2. m \in Nat /\ Len(file) \in Nat
  BY LenProperties
<1>3. \A i \in 1 .. m : new(i) \in Stored /\ Coherent(new(i))
  <2> TAKE i \in 1 .. m
  <2>1. CASE i = at[s]
    BY <1>1, <2>1
  <2>2. CASE i # at[s] /\ i <= Len(file)
    <3>1. i \in 1 .. Len(file) /\ i \in DOMAIN file
      BY <1>2, <2>2, LenProperties
    <3> QED
      BY <2>2, <3>1, ElementOfSeq DEF Consistent
  <2>3. CASE i # at[s] /\ ~ (i <= Len(file))
    BY <2>3, BlankStored
  <2> QED
    BY <2>1, <2>2, <2>3
<1>4. file' = [i \in 1 .. m |-> new(i)]
  BY DEF Put
<1> HIDE DEF m, new
<1>5. file' \in [1 .. m -> Stored] /\ \A i \in DOMAIN file' : Coherent(file'[i])
  BY <1>3, <1>4
<1>6. file' \in Seq(Stored)
  BY <1>2, <1>5, SeqDef
<1>7. Consistent'
  BY <1>5 DEF Consistent, Coherent
<1> QED
  BY <1>1, <1>6, <1>7, ReturnOK DEF Put

LEMMA ViewOK ==
    ASSUME IInv, NEW s \in Sessions, View(s)
    PROVE  IInv'
<1> USE DEF IInv, StateOK
<1>1. Len(file) \in 1 .. Len(file)
  BY EmptySeq DEF View
<1>2. file[Len(file)].client \in Clients \cup {Zero}
  BY <1>1, ElementOfSeq DEF Stored, Record, Blank
<1>3. StateOK'
  BY <1>2 DEF View
<1> QED
  BY <1>3 DEF View, AskedOK, ReadyOK, Consistent, Coherent

LEMMA ClearOK ==
    ASSUME IInv, NEW s \in Sessions, Clear(s)
    PROVE  IInv'
<1> USE DEF IInv, StateOK
<1>1. file' \in Seq(Stored) /\ DOMAIN file' = {}
  BY EmptySeq DEF Clear
<1>2. Consistent'
  BY <1>1 DEF Consistent
<1> QED
  BY <1>1, <1>2 DEF Clear, AskedOK, ReadyOK, Coherent

LEMMA LeaveOK ==
    ASSUME IInv, NEW s \in Sessions, Leave(s)
    PROVE  IInv'
BY DEF Leave, IInv, StateOK, AskedOK, ReadyOK, Consistent, Coherent

LEMMA KilledOK ==
    ASSUME IInv, Killed
    PROVE  IInv'
<1>1. \A s \in Sessions : pc'[s] = "menu"
  BY IdleOK DEF Killed
<1>2. AskedOK' /\ ReadyOK'
  BY <1>1 DEF AskedOK, ReadyOK
<1>3. StateOK'
  BY IdleOK DEF Killed, IInv, StateOK
<1> QED
  BY <1>2, <1>3 DEF Killed, IInv, Consistent, Coherent

LEMMA NextOK == IInv /\ [Next]_vars => IInv'
<1> SUFFICES ASSUME IInv, [Next]_vars PROVE IInv'
  OBVIOUS
<1>1. ASSUME NEW s \in Sessions, Proceed(s) PROVE IInv'
  BY <1>1, AppendOK, FoundOK, NotFoundOK, StaleOK, SpinOK, UniqueOK,
     PutOK DEF Proceed
<1>2. ASSUME NEW s \in Customers, CustomerStep(s) PROVE IInv'
  <2>1. s \in Sessions /\ who[s] \in Clients
    BY <1>2 DEF Sessions
  <2>2. ASSUME NEW t \in Texts, Write(s, t) PROVE IInv'
    BY <2>1, <2>2, OpenOK DEF Write
  <2>3. ASSUME NEW t \in Texts, Update(s, t) PROVE IInv'
    BY <2>1, <2>3, OpenOK DEF Update
  <2>4. ASSUME ReView(s) PROVE IInv'
    BY <2>1, <2>4, OpenOK DEF ReView
  <2> QED
    BY <1>2, <2>2, <2>3, <2>4 DEF CustomerStep
<1>3. ASSUME NEW s \in Employees, EmployeeStep(s) PROVE IInv'
  <2>1. s \in Sessions
    BY <1>3 DEF Sessions
  <2>2. ASSUME NEW c \in Clients, See(s, c) PROVE IInv'
    BY <2>1, <2>2, OpenOK DEF See
  <2>3. ASSUME NEW c \in Clients, SeeAnonymously(s, c) PROVE IInv'
    BY <2>1, <2>3, OpenOK DEF SeeAnonymously
  <2>4. ASSUME NEW c \in Clients, NEW a \in Answers, Answer(s, c, a) PROVE IInv'
    BY <2>1, <2>4, OpenOK DEF Answer
  <2>5. ASSUME View(s) \/ Clear(s) PROVE IInv'
    BY <2>1, <2>5, ViewOK, ClearOK
  <2> QED
    BY <1>3, <2>2, <2>3, <2>4, <2>5 DEF EmployeeStep
<1>4. CASE UNCHANGED vars
  BY <1>4 DEF vars, IInv, StateOK, AskedOK, ReadyOK, Consistent, Coherent
<1> QED
  BY <1>1, <1>2, <1>3, <1>4, LeaveOK, KilledOK DEF Next

LEMMA IInvHolds == Spec => []IInv
BY InitOK, NextOK, PTL DEF Spec

(* Complaints is type-correct: the records in the file are complaints or     *)
(* zero bytes, a session's request, record and place are what their types    *)
(* say (Complaint_Base.h:10-17).                                             *)
THEOREM TypeCorrect == Spec => []TypeOK
<1>1. IInv => TypeOK
  <2> SUFFICES ASSUME IInv PROVE TypeOK
    OBVIOUS
  <2>1. \A s \in Sessions : request[s] \in Request
    BY DEF IInv, StateOK
  <2> QED
    BY <2>1 DEF IInv, StateOK, TypeOK, Stored, Request
<1> QED
  BY <1>1, IInvHolds, PTL

(* A complaint on the file is marked answered exactly if it carries an       *)
(* answer, and then it is marked seen, whatever was written over it, past    *)
(* the end, or while it was being read (Complaint_Base.cpp:65-137,           *)
(* Complaint_E.cpp:3-36).                                                    *)
THEOREM AnswersAreConsistent == Spec => []Consistent
<1>1. IInv => Consistent
  BY DEF IInv
<1> QED
  BY <1>1, IInvHolds, PTL

-----------------------------------------------------------------------------
(* One operation at a time.  A scan then sees the file as it is, so the place*)
(* and the record it leads to are still right when they are used (Current);  *)
(* the process may end at any point.                                         *)
Alone == \A r, s \in Sessions : pc[r] # "menu" /\ pc[s] # "menu" => r = s

Replaces(new, old) ==
    \/ new = [old EXCEPT !.seen = TRUE]
    \/ ~ old.answered /\ \E t \in Texts : new = [old EXCEPT !.text = t]
    \/ \E a \in Answers : new = [old EXCEPT !.answer = a, !.seen = TRUE, !.answered = TRUE]

Current(s) ==
    /\ pc[s] = "scan" => size[s] = Len(file)
    /\ pc[s] = "append" =>
          /\ rec[s].client \in Clients /\ rec[s].text \in Texts
          /\ rec[s].answer = NoAnswer /\ rec[s].seen = FALSE
          /\ \A i \in DOMAIN file : file[i].client # rec[s].client
    /\ pc[s] = "put" =>
          /\ at[s] \in DOMAIN file /\ file[at[s]].client \in Clients
          /\ Replaces(rec[s], file[at[s]])

SerialInv == Alone /\ OneEach /\ \A s \in Sessions : Current(s)

(* A record that is replaced stays its client's and, once answered, what it  *)
(* was.                                                                      *)
LEMMA ReplacedOK ==
    ASSUME NEW old \in Record, NEW new, Replaces(new, old)
    PROVE  new.client = old.client /\ (old.answered => new.answered /\ new.text = old.text)
<1>1. CASE new = [old EXCEPT !.seen = TRUE]
  BY <1>1 DEF Record
<1>2. ASSUME NEW t \in Texts, ~ old.answered, new = [old EXCEPT !.text = t]
      PROVE  new.client = old.client
  BY <1>2 DEF Record
<1>3. ASSUME NEW a \in Answers,
             new = [old EXCEPT !.answer = a, !.seen = TRUE, !.answered = TRUE]
      PROVE  new.client = old.client /\ new.answered /\ new.text = old.text
  BY <1>3 DEF Record
<1> QED
  BY <1>1, <1>2, <1>3 DEF Replaces

(* The one at work is back at the menu, so that nobody is about to write.    *)
LEMMA BackAtMenu ==
    ASSUME IInv, SerialInv, NEW s \in Sessions, pc[s] # "menu", Return(s)
    PROVE  Alone' /\ \A r \in Sessions : Current(r)'
<1>1. \A r \in Sessions : pc'[r] = "menu"
  BY DEF IInv, StateOK, SerialInv, Alone, Return, Goto
<1> QED
  BY <1>1 DEF Alone, Current

LEMMA SerialFound ==
    ASSUME IInv, SerialInv, NEW s \in Sessions, Found(s)
    PROVE  SerialInv' /\ UNCHANGED file
<1> USE DEF IInv, StateOK
<1>1. PICK n \in Sought(s) :
          IF WritesNothing(request[s].op, file[n])
          THEN Return(s)
          ELSE /\ Goto(s, "put") /\ at' = [at EXCEPT ![s] = n]
               /\ rec' = [rec EXCEPT ![s] =
                             Changed(request[s].op, file[n], request[s].arg)]
  BY DEF Found
<1>2. pc[s] = "scan" /\ file' = file /\ OneEach'
  BY DEF Found, SerialInv, OneEach
<1>3. CASE WritesNothing(request[s].op, file[n])
  BY <1>1, <1>2, <1>3, BackAtMenu DEF SerialInv
<1>4. CASE ~ WritesNothing(request[s].op, file[n])
  <2> DEFINE new == Changed(request[s].op, file[n], request[s].arg)
  <2>1. n \in DOMAIN file /\ file[n] \in Stored /\ file[n].client \in Clients
    BY <1>2, LenProperties, ElementOfSeq DEF Sought, Places, AskedOK
  <2>2. file[n] \in Record
    BY <2>1 DEF Stored, Blank
  <2>3. request[s].op \in {"see", "update", "answer"}
        /\ (request[s].op = "update" => ~ file[n].answered)
    BY <1>2, <1>4 DEF AskedOK, Request, WritesNothing
  <2>4. Replaces(new, file[n])
    <3>1. CASE request[s].op = "see"
      BY <3>1 DEF Changed, Replaces
    <3>2. CASE request[s].op = "update"
      BY <1>2, <2>3, <3>2 DEF Changed, Replaces, AskedOK
    <3>3. CASE request[s].op = "answer"
      BY <1>2, <3>3 DEF Changed, Replaces, AskedOK
    <3> QED
      BY <2>3, <3>1, <3>2, <3>3
  <2> HIDE DEF new
  <2>5. pc'[s] = "put" /\ at'[s] = n /\ rec'[s] = new
    BY <1>1, <1>4 DEF Goto, new
  <2>6. \A r \in Sessions \ {s} : pc'[r] = "menu"
    BY <1>1, <1>2, <1>4 DEF Goto, SerialInv, Alone
  <2> QED
    BY <1>2, <2>1, <2>2, <2>4, <2>5, <2>6 DEF SerialInv, Alone, Current
<1> QED
  BY <1>2, <1>3, <1>4

(* Without another session the file is not shorter than it was measured.     *)
LEMMA SerialScan ==
    ASSUME IInv, SerialInv, NEW s \in Sessions,
           NotFound(s) \/ Stale(s) \/ Spin(s) \/ Unique(s)
    PROVE  SerialInv' /\ UNCHANGED file
<1> USE DEF IInv, StateOK
<1>1. pc[s] = "scan" /\ file' = file /\ OneEach' /\ Sought(s) = {}
  BY DEF NotFound, Stale, Spin, Unique, SerialInv, OneEach
<1>2. size[s] = Len(file) /\ Len(file) \in Nat /\ DOMAIN file = 1 .. Len(file)
  BY <1>1, LenProperties DEF SerialInv, Current
<1>3. CASE NotFound(s)
  BY <1>1, <1>3, BackAtMenu DEF NotFound, SerialInv
<1>4. CASE Stale(s) \/ Spin(s)
  BY <1>2, <1>4 DEF Stale, Spin, AtEnd
<1>5. CASE Unique(s)
  <2> DEFINE new == NewRecord(request[s].client, request[s].arg)
  <2>1. pc'[s] = "append" /\ rec'[s] = new
    BY <1>5 DEF Unique, Goto
  <2>2. \A i \in DOMAIN file : file[i].client # new.client
    BY <1>1, <1>2 DEF Sought, Places, NewRecord
  <2>3. \A r \in Sessions \ {s} : pc'[r] = "menu"
    BY <1>1, <1>5 DEF Unique, Goto, SerialInv, Alone
  <2>4. new.client \in Clients /\ new.text \in Texts /\ new.answer = NoAnswer /\ new.seen = FALSE
    BY <1>5 DEF Unique, AskedOK, NewRecord
  <2> HIDE DEF new
  <2>5. Current(s)'
    BY <1>1, <2>1, <2>2, <2>4 DEF Current
  <2>6. Alone' /\ \A r \in Sessions \ {s} : Current(r)'
    BY <2>3 DEF Alone, Current
  <2> QED
    BY <1>1, <2>5, <2>6 DEF SerialInv
<1> QED
  BY <1>1, <1>3, <1>4, <1>5

LEMMA SerialAppend ==
    ASSUME IInv, SerialInv, NEW s \in Sessions, AppendRecord(s)
    PROVE  SerialInv' /\ \A c \in Clients, t \in Texts : Answered(c, t) => Answered(c, t)'
<1> USE DEF IInv, StateOK
<1>1. pc[s] = "append" /\ Return(s)
  BY DEF AppendRecord
<1>2. /\ DOMAIN file = 1 .. Len(file) /\ Len(file) \in Nat
      /\ DOMAIN file' = 1 .. Len(file) + 1
      /\ \A i \in 1 .. Len(file) + 1 :
            file'[i] = IF i = Len(file) + 1 THEN rec[s] ELSE file[i]
  BY LenProperties, AppendProperties DEF AppendRecord
<1>3. \A i \in DOMAIN file : file[i].client # rec[s].client
  BY <1>1 DEF SerialInv, Current
<1>4. OneEach'
  BY <1>2, <1>3 DEF SerialInv, OneEach
<1>5. \A c \in Clients, t \in Texts : Answered(c, t) => Answered(c, t)'
  BY <1>2 DEF Answered
<1> QED
  BY <1>1, <1>4, <1>5, BackAtMenu DEF SerialInv

LEMMA SerialPut ==
    ASSUME IInv, SerialInv, NEW s \in Sessions, Put(s)
    PROVE  SerialInv' /\ \A c \in Clients, t \in Texts : Answered(c, t) => Answered(c, t)'
<1> USE DEF IInv, StateOK
<1>1. /\ pc[s] = "put" /\ Return(s) /\ at[s] \in DOMAIN file /\ file[at[s]].client \in Clients
      /\ Replaces(rec[s], file[at[s]])
  BY DEF Put, SerialInv, Current
<1>2. DOMAIN file = 1 .. Len(file) /\ Len(file) \in Nat /\ file[at[s]] \in Record
  BY <1>1, LenProperties, ElementOfSeq DEF Stored, Blank
<1>3. /\ DOMAIN file' = DOMAIN file
      /\ \A i \in DOMAIN file : file'[i] = IF i = at[s] THEN rec[s] ELSE file[i]
  BY <1>1, <1>2 DEF Put
<1>4. \A i \in DOMAIN file :
         /\ file'[i].client = file[i].client
         /\ file[i].answered => file'[i].answered /\ file'[i].text = file[i].text
  BY <1>1, <1>2, <1>3, ReplacedOK
<1>5. OneEach'
  BY <1>3, <1>4 DEF SerialInv, OneEach
<1>6. \A c \in Clients, t \in Texts : Answered(c, t) => Answered(c, t)'
  BY <1>3, <1>4 DEF Answered
<1> QED
  BY <1>1, <1>5, <1>6, BackAtMenu DEF SerialInv

(* An operation starts when all are at the menu. *)
LEMMA SerialOpen ==
    ASSUME IInv, Serial, SerialInv, NEW s \in Sessions, NEW op, NEW c, NEW arg,
           Open(s, op, c, arg)
    PROVE  SerialInv' /\ UNCHANGED file
<1>1. file' = file /\ OneEach' /\ \A r \in Sessions : pc[r] = "menu"
  BY DEF Open, Begin, SerialInv, OneEach
<1>2. /\ pc'[s] = "scan" /\ size'[s] = Len(file)
      /\ \A r \in Sessions \ {s} : pc'[r] = "menu"
  BY <1>1 DEF Open, Goto, IInv, StateOK
<1> QED
  BY <1>1, <1>2 DEF SerialInv, Alone, Current

LEMMA SerialRest ==
    ASSUME IInv, Serial, SerialInv,
           \/ \E s \in Sessions : Leave(s) \/ View(s) \/ Clear(s)
           \/ Killed \/ UNCHANGED vars
    PROVE  SerialInv' /\ (file' = file \/ file' = << >>)
<1>1. ASSUME UNCHANGED <<file, pc, size, rec, at>> PROVE SerialInv' /\ UNCHANGED file
  <2>1. ASSUME NEW r \in Sessions PROVE Current(r)'
    <3>1. Current(r)
      BY DEF SerialInv
    <3>2. Replaces(rec[r], file[at[r]]) => Replaces(rec'[r], file'[at'[r]])
      BY <1>1
    <3> QED
      BY <1>1, <3>1, <3>2 DEF Current
  <2>2. Alone' /\ OneEach'
    BY <1>1 DEF SerialInv, Alone, OneEach
  <2> QED
    BY <1>1, <2>1, <2>2 DEF SerialInv
<1>2. ASSUME NEW s \in Sessions, Clear(s) PROVE SerialInv' /\ file' = << >>
  <2>1. (\A r \in Sessions : pc'[r] = "menu") /\ file' = << >>
    BY <1>2 DEF Clear, Begin
  <2> QED
    BY <2>1 DEF SerialInv, Alone, OneEach, Current
<1>3. CASE Killed
  <2>1. (\A r \in Sessions : pc'[r] = "menu") /\ file' = file
    BY <1>3, IdleOK DEF Killed
  <2> QED
    BY <2>1 DEF SerialInv, Alone, OneEach, Current
<1> QED
  BY <1>1, <1>2, <1>3 DEF Leave, View, vars

LEMMA SerialStep ==
    ASSUME IInv, Serial, SerialInv, [Next]_vars
    PROVE  /\ SerialInv'
           /\ \A c \in Clients, t \in Texts :
                 Answered(c, t) /\ file' # << >> => Answered(c, t)'
<1> DEFINE Kept == \A c \in Clients, t \in Texts :
                     Answered(c, t) /\ file' # << >> => Answered(c, t)'
<1>1. file' = file \/ file' = << >> => Kept
  BY DEF Answered
<1> HIDE DEF Kept
<1>2. ASSUME NEW s \in Sessions, Proceed(s) PROVE SerialInv' /\ Kept
  <2>1. CASE AppendRecord(s) \/ Put(s)
    BY <2>1, SerialAppend, SerialPut DEF Kept
  <2>2. CASE Found(s) \/ NotFound(s) \/ Stale(s) \/ Spin(s) \/ Unique(s)
    BY <1>1, <2>2, SerialFound, SerialScan
  <2> QED
    BY <1>2, <2>1, <2>2 DEF Proceed
<1>3. ASSUME NEW s \in Sessions, CustomerStep(s) PROVE SerialInv' /\ Kept
  BY <1>1, <1>3, SerialOpen DEF CustomerStep, Write, Update, ReView
<1>4. ASSUME NEW s \in Sessions, EmployeeStep(s) PROVE SerialInv' /\ Kept
  <2>1. CASE View(s) \/ Clear(s)
    BY <1>1, <2>1, SerialRest
  <2>2. ASSUME NEW op, NEW c, NEW arg, Open(s, op, c, arg) PROVE SerialInv' /\ Kept
    BY <1>1, <2>2, SerialOpen
  <2> QED
    BY <1>4, <2>1, <2>2 DEF EmployeeStep, See, SeeAnonymously, Answer
<1>5. ASSUME NEW s \in Sessions, Leave(s) PROVE SerialInv' /\ Kept
  BY <1>1, <1>5, SerialRest
<1>6. ASSUME Killed \/ UNCHANGED vars PROVE SerialInv' /\ Kept
  BY <1>1, <1>6, SerialRest
<1>7. SerialInv' /\ Kept
  BY <1>2, <1>3, <1>4, <1>5, <1>6 DEF Next, Sessions
<1> QED
  BY <1>7 DEF Kept

LEMMA SerialHolds == Serial => (Spec => [](IInv /\ SerialInv))
<1> SUFFICES ASSUME Serial PROVE Spec => [](IInv /\ SerialInv)
  OBVIOUS
<1>1. Init => SerialInv
  BY IdleOK DEF Init, SerialInv, Alone, OneEach, Current
<1>2. IInv /\ SerialInv /\ [Next]_vars => SerialInv'
  BY SerialStep
<1> QED
  BY <1>1, <1>2, IInvHolds, PTL DEF Spec

(* One operation at a time, a client has at most one complaint, wherever the *)
(* process ends (Complaint_Base.cpp:34: unique).                             *)
THEOREM OneComplaintEach == Serial => (Spec => []OneEach)
<1>1. SerialInv => OneEach
  BY DEF SerialInv
<1> QED
  BY <1>1, SerialHolds, PTL

(* One operation at a time, an answered complaint stays answered and keeps   *)
(* its text until all are cleared (Complaint_Base.cpp:120).                  *)
THEOREM AnswersStick == Serial => (Spec => AnswerSticks)
<1> SUFFICES ASSUME Serial PROVE Spec => AnswerSticks
  OBVIOUS
<1>1. IInv /\ SerialInv /\ [Next]_vars =>
        [\A c \in Clients, t \in Texts :
            Answered(c, t) /\ file' # << >> => Answered(c, t)']_vars
  BY SerialStep
<1>2. Spec => [](IInv /\ SerialInv)
  BY SerialHolds
<1> QED
  BY <1>1, <1>2, PTL DEF Spec, AnswerSticks

-----------------------------------------------------------------------------
(* The refinement: RecordOf as a function of the file, for a file in which a *)
(* client has one record or none.                                            *)
Find(f, c) ==
    LET P == {i \in 1 .. Len(f) : i <= Len(f) /\ f[i].client = c}
        first == CHOOSE i \in P : \A j \in P : i <= j IN
    IF P = {} THEN None
    ELSE [text |-> f[first].text, answer |-> f[first].answer, seen |-> f[first].seen]

Entry(r) == [text |-> r.text, answer |-> r.answer, seen |-> r.seen]

LEMMA RecordFound ==
    ASSUME NEW c
    PROVE  RecordOf(c) = Find(file, c) /\ RecordOf(c)' = Find(file', c)
BY DEF RecordOf, Places, Find

LEMMA FindOne ==
    ASSUME NEW f, Len(f) \in Nat, NEW c, NEW i \in 1 .. Len(f), f[i].client = c,
           \A j \in 1 .. Len(f) : f[j].client = c => j = i
    PROVE  Find(f, c) = Entry(f[i])
<1> DEFINE P == {j \in 1 .. Len(f) : j <= Len(f) /\ f[j].client = c}
<1>1. P = {i}
  OBVIOUS
<1>2. (CHOOSE k \in P : \A j \in P : k <= j) = i
  <2>1. \E k \in P : \A j \in P : k <= j
    BY <1>1
  <2> QED
    BY <1>1, <2>1
<1> QED
  BY <1>1, <1>2 DEF Find, Entry

LEMMA FindNone ==
    ASSUME NEW f, NEW c, \A j \in 1 .. Len(f) : f[j].client # c
    PROVE  Find(f, c) = None
BY DEF Find

(* A client's entry is kept when its record is, wherever that may be. *)
LEMMA FindKept ==
    ASSUME NEW f, NEW g, NEW c, Len(f) \in Nat, Len(g) \in Nat, Len(f) <= Len(g),
           \A i \in 1 .. Len(f) : f[i].client = c => g[i] = f[i],
           \A i \in 1 .. Len(g) : g[i].client = c => i <= Len(f) /\ f[i].client = c,
           \A i, j \in 1 .. Len(f) : f[i].client = c /\ f[j].client = c => i = j
    PROVE  Find(g, c) = Find(f, c)
<1>1. CASE \E i \in 1 .. Len(f) : f[i].client = c
  <2>1. PICK i \in 1 .. Len(f) : f[i].client = c
    BY <1>1
  <2>2. i \in 1 .. Len(g) /\ g[i] = f[i] /\ g[i].client = c
    BY <2>1
  <2>3. \A j \in 1 .. Len(g) : g[j].client = c => j = i
    BY <2>1
  <2>4. \A j \in 1 .. Len(f) : f[j].client = c => j = i
    BY <2>1
  <2>5. Find(g, c) = Entry(g[i])
    BY <2>2, <2>3, FindOne
  <2>6. Find(f, c) = Entry(f[i])
    BY <2>1, <2>4, FindOne
  <2> QED
    BY <2>2, <2>5, <2>6
<1>2. CASE \A i \in 1 .. Len(f) : f[i].client # c
  <2>1. \A j \in 1 .. Len(g) : g[j].client # c
    BY <1>2
  <2> QED
    BY <1>2, <2>1, FindNone
<1> QED
  BY <1>1, <1>2

(* f has one record, or none, of each of these clients; g is f with a record *)
(* appended for a client that has none, or with the n-th record replaced by  *)
(* one of the same client.                                                   *)
Single(f, C) ==
    \A i, j \in 1 .. Len(f) : f[i].client = f[j].client /\ f[i].client \in C => i = j

Appended(f, g, r) ==
    /\ Len(f) \in Nat /\ Len(g) = Len(f) + 1 /\ g[Len(f) + 1] = r
    /\ \A i \in 1 .. Len(f) : g[i] = f[i] /\ f[i].client # r.client

Replaced(f, g, n, r) ==
    /\ Len(f) \in Nat /\ Len(g) = Len(f) /\ n \in 1 .. Len(f) /\ r.client = f[n].client
    /\ \A i \in 1 .. Len(f) : g[i] = IF i = n THEN r ELSE f[i]

(* A record appended for a client that has none is that client's entry.      *)
LEMMA FindAppend ==
    ASSUME NEW f, NEW g, NEW r, NEW C, Appended(f, g, r), Single(f, C)
    PROVE  /\ Find(f, r.client) = None /\ Find(g, r.client) = Entry(r)
           /\ \A c \in C : c # r.client => Find(g, c) = Find(f, c)
<1> USE DEF Appended, Single
<1>1. ASSUME NEW i \in 1 .. Len(g), i \notin 1 .. Len(f) PROVE i = Len(g) /\ g[i] = r
  <2>1. \A m \in Nat : \A k \in 1 .. m + 1 : k \notin 1 .. m => k = m + 1
    OBVIOUS
  <2> QED
    BY <1>1, <2>1
<1>2. Find(g, r.client) = Entry(g[Len(g)])
  <2>1. Len(g) \in 1 .. Len(g) /\ g[Len(g)].client = r.client
    OBVIOUS
  <2>2. \A j \in 1 .. Len(g) : g[j].client = r.client => j = Len(g)
    BY <1>1
  <2> QED
    BY <2>1, <2>2, FindOne
<1>3. ASSUME NEW c \in C, c # r.client PROVE Find(g, c) = Find(f, c)
  <2>1. \A i \in 1 .. Len(g) : g[i].client = c => i <= Len(f) /\ f[i].client = c
    BY <1>1, <1>3
  <2> QED
    BY <2>1, FindKept
<1> QED
  BY <1>1, <1>2, <1>3, FindNone

(* A record replaced by one of the same client is that client's entry. *)
LEMMA FindPut ==
    ASSUME NEW f, NEW g, NEW n, NEW r, NEW C,
           Replaced(f, g, n, r), Single(f, C), r.client \in C
    PROVE  /\ Find(f, r.client) = Entry(f[n]) /\ Find(g, r.client) = Entry(r)
           /\ \A c \in C : c # r.client => Find(g, c) = Find(f, c)
<1> USE DEF Replaced, Single
<1>1. \A i \in 1 .. Len(f) : g[i].client = f[i].client
  OBVIOUS
<1>2. Find(f, r.client) = Entry(f[n])
  BY FindOne
<1>3. Find(g, r.client) = Entry(g[n])
  <2>1. n \in 1 .. Len(g) /\ Len(g) \in Nat /\ g[n].client = r.client
    OBVIOUS
  <2>2. \A j \in 1 .. Len(g) : g[j].client = r.client => j = n
    BY <1>1
  <2> QED
    BY <2>1, <2>2, FindOne
<1>4. ASSUME NEW c \in C, c # r.client PROVE Find(g, c) = Find(f, c)
  <2>1. \A i \in 1 .. Len(f) : f[i].client = c => g[i] = f[i]
    BY <1>4
  <2>2. \A i \in 1 .. Len(g) : g[i].client = c => i <= Len(f) /\ f[i].client = c
    BY <1>1
  <2> QED
    BY <2>1, <2>2, FindKept
<1> QED
  BY <1>2, <1>3, <1>4

(* What seeing, updating and answering make of an entry. *)
LEMMA EntryChanged ==
    ASSUME NEW old \in Record, Coherent(old)
    PROVE  /\ Entry([old EXCEPT !.seen = TRUE]) = [Entry(old) EXCEPT !.seen = TRUE]
           /\ \A t \in Texts :
                 Entry([old EXCEPT !.text = t]) = [Entry(old) EXCEPT !.text = t]
           /\ \A a \in Answers :
                 Entry([old EXCEPT !.answer = a, !.seen = TRUE, !.answered = TRUE])
                    = [text |-> Entry(old).text, answer |-> a, seen |-> TRUE]
           /\ ~ old.answered => Entry(old).answer = NoAnswer
           /\ Entry(old) # None
<1>1. old = [client |-> old.client, text |-> old.text, answer |-> old.answer,
             seen |-> old.seen, answered |-> old.answered]
  BY DEF Record
<1>2. Entry(old) = [text |-> old.text, answer |-> old.answer, seen |-> old.seen]
  BY DEF Entry
<1>3. Entry([old EXCEPT !.seen = TRUE]) = [Entry(old) EXCEPT !.seen = TRUE]
  <2> DEFINE new == [old EXCEPT !.seen = TRUE]
  <2>1. new.text = old.text /\ new.answer = old.answer /\ new.seen = TRUE
    BY <1>1
  <2> HIDE DEF new
  <2>2. Entry(new) = [text |-> old.text, answer |-> old.answer, seen |-> TRUE]
    BY <2>1 DEF Entry
  <2>3. \A d : [Entry(old) EXCEPT !.seen = d]
                  = [text |-> old.text, answer |-> old.answer, seen |-> d]
    BY <1>2
  <2> QED
    BY <2>2, <2>3, Zenon DEF new
<1>4. ASSUME NEW t \in Texts
      PROVE  Entry([old EXCEPT !.text = t]) = [Entry(old) EXCEPT !.text = t]
  BY <1>1, <1>2 DEF Entry
<1>5. ASSUME NEW a \in Answers
      PROVE  Entry([old EXCEPT !.answer = a, !.seen = TRUE, !.answered = TRUE])
                = [text |-> Entry(old).text, answer |-> a, seen |-> TRUE]
  <2> DEFINE new == [old EXCEPT !.answer = a, !.seen = TRUE, !.answered = TRUE]
  <2>1. new.text = old.text /\ new.answer = a /\ new.seen = TRUE
    BY <1>1
  <2> HIDE DEF new
  <2>2. Entry(new) = [text |-> old.text, answer |-> a, seen |-> TRUE]
    BY <2>1 DEF Entry
  <2>3. Entry(old).text = old.text
    BY <1>2
  <2> QED
    BY <2>2, <2>3, Zenon DEF new
<1>6. ~ old.answered => Entry(old).answer = NoAnswer
  BY <1>2 DEF Record, Coherent
<1>7. Entry(old) # None
  BY <1>2, NoneAssumption DEF Record
<1> QED
  BY <1>3, <1>4, <1>5, <1>6, <1>7

(* Writing a new client's record writes the client's complaint in the book.  *)
LEMMA AppendIsWrite ==
    ASSUME IInv, SerialInv, NEW s \in Sessions, AppendRecord(s)
    PROVE  Book!Next
<1>0. PICK r : r = rec[s]
  OBVIOUS
<1> DEFINE c0 == r.client
           t0 == r.text
<1>1. /\ c0 \in Clients /\ t0 \in Texts /\ r.answer = NoAnswer /\ r.seen = FALSE
      /\ \A i \in DOMAIN file : file[i].client # c0
  BY <1>0 DEF AppendRecord, SerialInv, Current
<1>2. /\ DOMAIN file = 1 .. Len(file) /\ Len(file) \in Nat
      /\ Len(file') = Len(file) + 1 /\ file'[Len(file) + 1] = r
      /\ \A i \in 1 .. Len(file) : file'[i] = file[i]
  BY <1>0, LenProperties, AppendProperties DEF AppendRecord, IInv, StateOK
<1>3. Appended(file, file', r)
  BY <1>1, <1>2 DEF Appended
<1>4. Single(file, Clients)
  BY <1>2 DEF SerialInv, OneEach, Single
<1>5. /\ Find(file, c0) = None /\ Find(file', c0) = Entry(r)
      /\ \A c \in Clients : c # c0 => Find(file', c) = Find(file, c)
  BY <1>3, <1>4, FindAppend
<1>6. Entry(r) = [text |-> t0, answer |-> NoAnswer, seen |-> FALSE]
  BY <1>1 DEF Entry
<1> HIDE DEF c0, t0
<1>7. Book!Write(c0, t0)
  BY <1>1, <1>5, <1>6, RecordFound DEF Book!Write
<1> QED
  BY <1>1, <1>7 DEF Book!Next

(* Writing a record back is what was asked for: seeing, updating, answering. *)
LEMMA PutIsChange ==
    ASSUME IInv, SerialInv, NEW s \in Sessions, Put(s)
    PROVE  Book!Next
<1>0. PICK n, old, new : n = at[s] /\ old = file[n] /\ new = rec[s]
  OBVIOUS
<1> DEFINE c0 == new.client
<1>1. /\ n \in DOMAIN file /\ old.client \in Clients /\ Replaces(new, old)
      /\ DOMAIN file = 1 .. Len(file) /\ Len(file) \in Nat
  BY <1>0, LenProperties DEF Put, SerialInv, Current, IInv, StateOK
<1>2. old \in Record /\ Coherent(old)
  BY <1>0, <1>1, ElementOfSeq DEF IInv, StateOK, Stored, Blank, Consistent
<1>3. /\ Len(file') = Len(file)
      /\ \A i \in 1 .. Len(file) : file'[i] = IF i = n THEN new ELSE file[i]
  BY <1>0, <1>1 DEF Put
<1>4. old.client = c0
  BY <1>1, <1>2, ReplacedOK
<1>5. Replaced(file, file', n, new) /\ Single(file, Clients)
  BY <1>0, <1>1, <1>3, <1>4 DEF Replaced, SerialInv, OneEach, Single
<1>6. /\ Find(file, c0) = Entry(old) /\ Find(file', c0) = Entry(new)
      /\ \A c \in Clients : c # c0 => Find(file', c) = Find(file, c)
  BY <1>0, <1>1, <1>4, <1>5, FindPut
<1> HIDE DEF c0
<1>7. c0 \in Clients /\ Entry(old) # None
  BY <1>1, <1>2, <1>4, EntryChanged
<1>8. [c \in Clients |-> RecordOf(c)]'
         = [[c \in Clients |-> RecordOf(c)] EXCEPT ![c0] = Entry(new)]
  BY <1>6, <1>7, RecordFound
<1>9. [c \in Clients |-> RecordOf(c)][c0] = Entry(old)
  BY <1>6, <1>7, RecordFound
<1>10. CASE new = [old EXCEPT !.seen = TRUE]
  <2>1. Entry(new) = [Entry(old) EXCEPT !.seen = TRUE]
    BY <1>2, <1>10, EntryChanged
  <2>2. Book!See(c0)
    BY <1>7, <1>8, <1>9, <2>1 DEF Book!See
  <2> QED
    BY <1>7, <2>2 DEF Book!Next
<1>11. ASSUME NEW t \in Texts, ~ old.answered, new = [old EXCEPT !.text = t]
       PROVE  Book!Next
  <2>1. Entry(new) = [Entry(old) EXCEPT !.text = t] /\ Entry(old).answer = NoAnswer
    BY <1>2, <1>11, EntryChanged
  <2>2. Book!Update(c0, t)
    BY <1>7, <1>8, <1>9, <2>1 DEF Book!Update
  <2> QED
    BY <1>7, <2>2 DEF Book!Next
<1>12. ASSUME NEW a \in Answers,
              new = [old EXCEPT !.answer = a, !.seen = TRUE, !.answered = TRUE]
       PROVE  Book!Next
  <2>1. Entry(new) = [text |-> Entry(old).text, answer |-> a, seen |-> TRUE]
    BY <1>2, <1>12, EntryChanged
  <2>2. Book!Answer(c0, a)
    BY <1>7, <1>8, <1>9, <2>1 DEF Book!Answer
  <2> QED
    BY <1>7, <2>2 DEF Book!Next
<1> QED
  BY <1>1, <1>10, <1>11, <1>12 DEF Replaces

LEMMA BookStep ==
    ASSUME IInv, Serial, SerialInv, [Next]_vars
    PROVE  [Book!Next]_([c \in Clients |-> RecordOf(c)])
<1>1. ASSUME file' = file PROVE UNCHANGED [c \in Clients |-> RecordOf(c)]
  BY <1>1, RecordFound
<1>2. ASSUME file' = << >> PROVE Book!Next
  <2>1. \A c \in Clients : RecordOf(c)' = None
    BY <1>2, RecordFound, FindNone
  <2> QED
    BY <2>1 DEF Book!Next, Book!Clear
<1>3. ASSUME NEW s \in Sessions, Proceed(s)
      PROVE  AppendRecord(s) \/ Put(s) \/ UNCHANGED file
  BY <1>3, SerialFound, SerialScan DEF Proceed
<1>4. ASSUME NEW s \in Sessions, CustomerStep(s) PROVE UNCHANGED file
  BY <1>4 DEF CustomerStep, Write, Update, ReView, Open
<1>5. ASSUME NEW s \in Sessions, EmployeeStep(s) PROVE UNCHANGED file \/ file' = << >>
  BY <1>5 DEF EmployeeStep, See, SeeAnonymously, Answer, Open, View, Clear
<1>6. \/ UNCHANGED file \/ file' = << >>
      \/ \E s \in Sessions : AppendRecord(s) \/ Put(s)
  BY <1>3, <1>4, <1>5 DEF Next, Leave, Killed, vars, Sessions
<1> QED
  BY <1>1, <1>2, <1>6, AppendIsWrite, PutIsChange

(* One operation at a time, and wherever the process ends, complaint.dat is a*)
(* book of complaints by client: what a session does to its records is one   *)
(* entry written, changed, seen or answered as asked for, or the whole book  *)
(* emptied (Complaint_Base.cpp:3-137, Complaint_E.cpp:3-36).                 *)
THEOREM FileIsABook == Serial => (Spec => ImplementsBook)
<1> SUFFICES ASSUME Serial PROVE Spec => ImplementsBook
  OBVIOUS
<1>1. Init => Book!Init
  <2> SUFFICES ASSUME Init PROVE Book!Init
    OBVIOUS
  <2>1. \A c \in Clients : RecordOf(c) = None
    BY RecordFound, FindNone DEF Init
  <2> QED
    BY <2>1 DEF Book!Init
<1>2. IInv /\ SerialInv /\ [Next]_vars => [Book!Next]_([c \in Clients |-> RecordOf(c)])
  BY BookStep
<1>3. Spec => [](IInv /\ SerialInv)
  BY SerialHolds
<1> QED
  BY <1>1, <1>2, <1>3, PTL DEF Spec, ImplementsBook, Book!Spec
=============================================================================
