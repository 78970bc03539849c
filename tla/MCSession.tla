------------------------------- MODULE MCSession -------------------------------
(* One session for TLC.  The clock stands on the birthday of some of the     *)
(* people who sign up, a day before that of others.                          *)
EXTENDS Session, TLC

MCToday == [day |-> 15, month |-> 5, year |-> 2021]

Filled(age, day, month, year) ==
    [name |-> <<65>>, age |-> age, sex |-> 77,
     DOB |-> [day |-> day, month |-> month, year |-> year],
     CNIC |-> [i \in 1 .. 15 |-> IF i \in {6, 14} THEN Dash ELSE 48 + (i % 10)],
     email |-> <<97, At>>, phone_num |-> <<49>>, password |-> <<1>>, confirm |-> <<1>>]

MCTyped == {Filled(20, 15, 5, 2001), Filled(20, 16, 5, 2001), Filled(21, 29, 2, 2000)}
=============================================================================
