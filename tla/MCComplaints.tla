---------------------------- MODULE MCComplaints ----------------------------
(* Customers' sessions, of two clients or of one or of both kinds, and an    *)
(* employee's or two.                                                        *)
EXTENDS Complaints, TLC

CONSTANTS s1, s2, s3, c1, c2

MCWho == (s1 :> c1) @@ (s2 :> c2)
MCSameClient == (s1 :> c1) @@ (s2 :> c1)
MCThree == (s1 :> c1) @@ (s2 :> c1) @@ (s3 :> c2)

Symmetry == Permutations(Texts) \cup Permutations(Employees)
=============================================================================
