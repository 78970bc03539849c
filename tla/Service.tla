------------------------------ MODULE Service -------------------------------
(***************************************************************************)
(* What the connection server promises, with no thread, HANDLE or flag: a   *)
(* fixed number of places, each with at most one session; a connection has  *)
(* at most one session, in one place, ever; no session outlives the server. *)
(* It does not promise that every connection gets a session.                *)
(***************************************************************************)
CONSTANTS Places, Connections, Nobody   \* Nobody is not a connection

VARIABLES
    session,   \* the connection each place has a session with, or Nobody
    given,     \* the connections that have had a session
    up

vars == <<session, given, up>>

Init ==
    /\ session = [p \in Places |-> Nobody]
    /\ given = {}
    /\ up = TRUE

Start(p, c) ==
    /\ up /\ session[p] = Nobody /\ c \notin given
    /\ session' = [session EXCEPT ![p] = c]
    /\ given' = given \cup {c}
    /\ UNCHANGED up

Finish(p) ==
    /\ up /\ session[p] # Nobody
    /\ session' = [session EXCEPT ![p] = Nobody]
    /\ UNCHANGED <<given, up>>

Stop ==
    /\ up /\ up' = FALSE
    /\ session' = [p \in Places |-> Nobody]
    /\ UNCHANGED given

Next ==
    \/ \E p \in Places, c \in Connections : Start(p, c)
    \/ \E p \in Places : Finish(p)
    \/ Stop

Spec == Init /\ [][Next]_vars
=============================================================================
