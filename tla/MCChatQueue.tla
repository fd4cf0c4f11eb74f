---------------------------- MODULE MCChatQueue ----------------------------
(***************************************************************************)
(* What users say, for TLC: how a message comes to the others (ChatQueue), *)
(* and what is kept of those who say it, their messages counted            *)
(* (UserRecord).  The two share no state: a behaviour is one of one of     *)
(* them, and the other stays where it began.                               *)
(***************************************************************************)
EXTENDS ChatQueue, UserRecord, TLC

VARIABLE part

\* What the proofs assume of the constants
ASSUME UserAssumption == UserConstants

Symmetry == Permutations(Proc)

MCInit ==
  /\ part \in {"chat", "user"}
  /\ Init
  /\ UserInit /\ (part # "user" => ini = Absent)

MCNext ==
  \/ part = "chat" /\ Next /\ UNCHANGED <<part, recordVars>>
  \/ part = "user" /\ UserNext /\ UNCHANGED <<part, vars>>
  \/ /\ part = "user" /\ events = MaxEvents      \* the bound, and no deadlock
     /\ UNCHANGED <<part, vars, recordVars>>

MCSpec == MCInit /\ [][MCNext]_<<part, vars, recordVars>>
=============================================================================
