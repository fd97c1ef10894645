----------------------------- MODULE MCWcsInbox -----------------------------
(***************************************************************************)
(* Instances of WcsInbox for TLC: a fault, its end, and another device     *)
(* whose code no catalog maps.                                             *)
(***************************************************************************)
EXTENDS WcsInbox, TLC

CONSTANTS s1, s2, s3

TwoSessions   == {s1, s2}
ThreeSessions == {s1, s2, s3}
Symmetry      == Permutations(Session)

Points  == [e \in 1 .. NEvents |-> IF e <= 2 THEN "crane" ELSE "lift"]
Times   == [e \in 1 .. NEvents |-> e]
Actives == [e \in 1 .. NEvents |-> e # 2]

Budget(statement, claim, crash) ==
  [kind \in InboxFault |->
     CASE kind = "statement" -> statement
       [] kind = "claim"     -> claim
       [] kind = "crash"     -> crash]

OneOfEach     == Budget(1, 1, 1)
NoCrash       == Budget(1, 1, 0)
OneCrash      == Budget(0, 0, 1)
=============================================================================
