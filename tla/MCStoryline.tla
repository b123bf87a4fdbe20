---------------------------- MODULE MCStoryline ----------------------------
(* Small instances of Storyline.                                           *)
(*   OneLogin: sshd 3 - shell 40 - (script 10 - tool 20), tool 30.         *)
(*   TwoLogins: sshd 3 - (shell 40 - script 10 - tool 20), (shell 11).     *)
(*   TwoShells: sshd 3 - (shell 40 - tool 20), (shell 11 - tool 12).       *)
EXTENDS Storyline

OneLogin == (3 :> 1) @@ (40 :> 3) @@ (10 :> 40) @@ (20 :> 10) @@ (30 :> 40)
TwoLogins == (3 :> 1) @@ (40 :> 3) @@ (10 :> 40) @@ (20 :> 10) @@ (11 :> 3)
TwoShells == (3 :> 1) @@ (40 :> 3) @@ (20 :> 40) @@ (11 :> 3) @@ (12 :> 11)

Cred == [rule |-> "sensitive-file", mitre |-> "T1003"]
Priv == [rule |-> "privilege-escalation", mitre |-> "T1548"]

TwoKinds == {Cred, Priv}
=============================================================================
