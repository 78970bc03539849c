---------------------------- MODULE ComplaintBook ----------------------------
(***************************************************************************)
(* What complaint.dat is for, without records, offsets or sessions: at most *)
(* one complaint per client; its text may change until it is answered; it   *)
(* can be seen and answered at any time; all can be cleared.                *)
(***************************************************************************)
CONSTANTS Clients, Texts, Answers, NoAnswer, None

VARIABLE book    \* each client's complaint, or None

Complaint == [text : Texts, answer : Answers \cup {NoAnswer}, seen : BOOLEAN]

Init == book = [c \in Clients |-> None]

Write(c, t) ==
    /\ book[c] = None
    /\ book' = [book EXCEPT ![c] = [text |-> t, answer |-> NoAnswer, seen |-> FALSE]]

Update(c, t) ==
    /\ book[c] # None /\ book[c].answer = NoAnswer
    /\ book' = [book EXCEPT ![c].text = t]

See(c) ==
    /\ book[c] # None
    /\ book' = [book EXCEPT ![c].seen = TRUE]

Answer(c, a) ==
    /\ book[c] # None
    /\ book' = [book EXCEPT ![c] = [text |-> book[c].text, answer |-> a, seen |-> TRUE]]

Clear == book' = [c \in Clients |-> None]

Next ==
    \/ \E c \in Clients, t \in Texts : Write(c, t) \/ Update(c, t)
    \/ \E c \in Clients, a \in Answers : Answer(c, a)
    \/ \E c \in Clients : See(c)
    \/ Clear

Spec == Init /\ [][Next]_book
=============================================================================
