----------------------------- MODULE MCSessions -----------------------------
(***************************************************************************)
(* The users of a server, for TLC: who comes and goes, with the processes  *)
(* behind it (Sessions); what one client is shown of it (PlayerList); and  *)
(* a level that is resized while some are on it (Resize).  They share no   *)
(* state: a behaviour is one of one of them, and the others stay where     *)
(* they began.                                                             *)
(***************************************************************************)
EXTENDS Sessions, Resize, TLC

CONSTANTS Users, Ids, ClassicMax, Few, Me, Movers, MaxSteps      \* PlayerList

\* What the proofs assume of the constants
ASSUME ResizeAssumption == ResizeConstants

VARIABLES
  part,
  user, highest_used_uid, extn_extplayerlist, max_proto_player_id, uid_ren_mode, uid_ren, range,
  was_uid_ren, myuser, screen, names, looking, renamed, astray, steps

P == INSTANCE PlayerList

listVars ==
  <<user, highest_used_uid, extn_extplayerlist, max_proto_player_id, uid_ren_mode, uid_ren, range,
    was_uid_ren, myuser, screen, names, looking, renamed, astray, steps>>

\* Processes and users are interchangeable.
Symmetry == Permutations(Pid) \cup Permutations(User)

\* The part that does not run stays where it began, or has nothing.
MCInit ==
  /\ part \in {"sessions", "list", "resize"}
  /\ Init
  /\ ResizeInit /\ (part # "resize" => cells_x = 1 /\ to = 2 /\ \A c \in Client : mapped[c] = 1)
  /\ IF part = "list" THEN P!Init
     ELSE /\ user = "" /\ highest_used_uid = "" /\ extn_extplayerlist = "" /\ max_proto_player_id = ""
          /\ uid_ren_mode = "" /\ uid_ren = "" /\ range = "" /\ was_uid_ren = "" /\ myuser = ""
          /\ screen = "" /\ names = "" /\ looking = "" /\ renamed = "" /\ astray = "" /\ steps = ""

MCNext ==
  \/ part = "sessions" /\ Next /\ UNCHANGED <<part, listVars, resizeVars>>
  \/ part = "list" /\ P!Next /\ UNCHANGED <<part, vars, resizeVars>>
  \/ part = "resize" /\ ResizeNext /\ UNCHANGED <<part, vars, listVars>>

MCSpec == MCInit /\ [][MCNext]_<<part, vars, listVars, resizeVars>>

\* What others send is followed one at a time, and until the listener is started
\* again.
Kinds ==
  {k \in {"held", "summon", "command"} :
     \/ k = "held" /\ held # NoRef
     \/ k = "summon" /\ \E i \in Slot : summon[i] # NoMail
     \/ k = "command" /\ \E p \in Pid : mailbox[p] # NoMail}
Followed == Cardinality(Kinds) <= IF orphans = {} THEN 1 ELSE 0

\* Of PlayerList: a client that has looked shows who is there.
AsSeen == part = "list" => P!AsSeen
=============================================================================
