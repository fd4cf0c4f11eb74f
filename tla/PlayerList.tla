----------------------------- MODULE PlayerList -----------------------------
(***************************************************************************)
(* What a client is shown of the other users.  Each client process looks   *)
(* at the shared client list once in a while and sends its client packets  *)
(* for what changed since it looked last.  The client has fewer numbers    *)
(* for entities than there are slots: as long as they suffice the number   *)
(* is the slot, and then the nearest users get numbers of their own.       *)
(*                                                                         *)
(* Users are authenticated; "(AFK)" in the list of names, models and the   *)
(* direction a user looks in are left out.                                 *)
(***************************************************************************)
EXTENDS Integers, FiniteSets, FiniteSetsExt, TLC

CONSTANTS
  Users,        \* MAX_USER
  Ids,          \* 256: the client's numbers, of which the last is itself
  ClassicMax,   \* 127: the largest number of a classic client
  Few,          \* 30: so many users are shown wherever they are
  Me,           \* my_user_no
  Movers,       \* the slots of those who come, go and move
  MaxSteps      \* a bound on what the others do, for TLC

Slot == 0 .. Users - 1
Place == {3, 4}            \* a user's position; I am at 0
Invalid == 0               \* posn.valid is not set
Hidden == -9               \* where nobody can see him
Nothing == [who |-> 0]     \* no such entity, or no such name in the list
Far == 1000                \* UINT64_MAX

VARIABLES
  user,         \* the client list: who, look_update_counter, on_level, posn
  highest_used_uid,
  extn_extplayerlist,
  max_proto_player_id, uid_ren_mode,
  uid_ren, range,          \* what each number is for, and how far away
  was_uid_ren, myuser,     \* what each number was for when I looked last
  screen, names,           \* what the client shows, and its list of names
  looking,      \* in the middle of a look; "torn": what it sees has changed
  renamed,      \* history: slots another took over since I looked at them
  astray,       \* history: numbers of those who were last sent into hiding
  steps

mine == <<max_proto_player_id, uid_ren_mode, uid_ren, range, was_uid_ren, myuser>>
shown == <<screen, names>>
history == <<renamed, astray>>
vars == <<user, highest_used_uid, extn_extplayerlist, mine, shown, looking, history, steps>>

HighestOf(active) == Max(active \cup {0})
Unseen == [active |-> FALSE, look |-> 0, on_level |-> 0, posn |-> Invalid, visible |-> FALSE]

\* A slot nobody uses still has the last user in it; who is one of two names.
Init ==
  /\ \E active \in {there \cup rest : there \in SUBSET Movers, rest \in {{}, Slot \ (Movers \cup {Me})}} :
       /\ user = [u \in Slot |-> [active |-> u \in active \cup {Me}, who |-> 1, look |-> 1,
                                  on_level |-> 1, posn |-> IF u = Me THEN Invalid ELSE 1 + (u % 4)]]
       /\ highest_used_uid = HighestOf(active \cup {Me})
  /\ extn_extplayerlist \in BOOLEAN
  /\ max_proto_player_id = IF extn_extplayerlist THEN Ids - 1 ELSE ClassicMax
  /\ uid_ren_mode = -1
  /\ uid_ren = [i \in Slot |-> i] /\ range = [i \in Slot |-> 0]
  /\ was_uid_ren = [i \in Slot |-> -1]
  /\ myuser = [i \in Slot |-> Unseen]
  /\ screen = [id \in 0 .. Ids - 1 |-> Nothing]
  /\ names = [id \in 0 .. Ids - 1 |-> Nothing]
  /\ looking = "no"
  /\ renamed = {} /\ astray = {}
  /\ steps = 0

-----------------------------------------------------------------------------
(* The other users.                                                        *)

\* What anybody does is news to me; what a user does to arrive is not counted.
Step(counts) ==
  /\ steps < MaxSteps \/ ~counts
  /\ steps' = steps + IF counts THEN 1 ELSE 0
  /\ looking' = IF looking \in {"half", "torn"} THEN "torn" ELSE "no"
  /\ UNCHANGED extn_extplayerlist

OfOthers(counts) == Step(counts) /\ UNCHANGED <<mine, shown, astray>>

\* start_user, and what follows it: the first free slot.
Login ==
  /\ OfOthers(TRUE)
  /\ \E u \in Movers :
       /\ ~user[u].active /\ \A v \in Movers : v < u => user[v].active
       /\ user' = [user EXCEPT ![u] = [active |-> TRUE, who |-> 3 - @.who, look |-> 1,
                                       on_level |-> 0, posn |-> Invalid]]
       /\ highest_used_uid' = HighestOf({v \in Slot : user[v].active} \cup {u})
       /\ renamed' = renamed \cup {u}

\* On the way from nowhere to the map.
Arrives(old, new) ==
  /\ old.posn = Invalid /\ new.on_level # 0
  /\ new.posn # Invalid \/ old.on_level = 0

\* What u himself changes in his entry.
Changes(u, entry) ==
  /\ OfOthers(~Arrives(user[u], entry))
  /\ user[u].active
  /\ user' = [user EXCEPT ![u] = entry]
  /\ UNCHANGED <<highest_used_uid, renamed>>

\* stop_user, and the place he had is not taken down.
Quit == \E u \in Movers : Changes(u, [user[u] EXCEPT !.active = FALSE])

\* start_level, and reset_player_list when the map is sent.
Goto == \E u \in Movers, l \in {1, 2} :
  /\ user[u].on_level # l
  /\ user[u].on_level = 0 \/ user[u].posn # Invalid
  /\ Changes(u, [user[u] EXCEPT !.on_level = l, !.posn = Invalid])
UpdatePlayerPos == \E u \in Movers, p \in Place :
  user[u].on_level # 0 /\ user[u].posn # p /\ Changes(u, [user[u] EXCEPT !.posn = p])

\* update_player_look: another colour, nick, skin or model.
UpdatePlayerLook == \E u \in Movers : Changes(u, [user[u] EXCEPT !.look = @ + 1])

-----------------------------------------------------------------------------
(* What is sent to the client, and what it makes of it.                    *)

\* fix_player_id: the number a packet about i bears, if it is sent at all.
IdOf(i) == IF i = Ids - 1 THEN Me ELSE i
Sent(i) == i <= max_proto_player_id

\* send_posn_pkt: nothing, a small step from the old place, or the new place.
IsSmall(from, to) == from # Invalid /\ from - to \in -1 .. 1
MovedEntity(entity, from, to) ==
  [entity EXCEPT !.posn = IF IsSmall(from, to) THEN @ + (to - from) ELSE to]

DespawnAllPlayers ==
  /\ screen' = [id \in DOMAIN screen |->
       IF \E i \in Slot : Sent(i) /\ myuser[i].visible /\ IdOf(i) = id THEN Nothing ELSE screen[id]]
  /\ myuser' = [i \in Slot |-> [myuser[i] EXCEPT !.visible = FALSE, !.posn = Invalid, !.look = 1]]
  /\ was_uid_ren' = [i \in Slot |-> -1]

-----------------------------------------------------------------------------
(* check_other_users, in two halves: the numbers, and what they are for.   *)

OnMyLevel(c) == c.active /\ c.posn # Invalid /\ c.on_level = user[Me].on_level

\* The range of each slot's user, Far if he cannot be seen.
RangeOf(u) == IF u = Me \/ ~OnMyLevel(user[u]) THEN Far ELSE user[u].posn * user[u].posn

\* The numbers between the first and the last that are on the wrong side of max_id.
WrongSide(r, max_id) ==
  LET hidden == Min({r[i] : i \in {j \in Slot : j > max_id}} \cup {Far})
      most == Max({r[i] : i \in {j \in Slot : j <= max_id}})
  IN IF hidden >= most THEN {}
     ELSE LET wrong == {i \in Slot : /\ hidden <= r[i] /\ r[i] <= most
                                     /\ r[i] # Far \/ i < max_id}
          IN IF wrong = {} THEN {} ELSE Min(wrong) .. Max(wrong)

\* qsort of that part: in any order those that are equally far away.
Sorted(numbers, r, part) ==
  LET those == {numbers[i] : i \in part}
      far == [u \in those |-> r[CHOOSE i \in part : numbers[i] = u]]
      nearer == [u \in those |-> Cardinality({v \in those : far[v] < far[u]})]
      equal == [u \in those |-> Cardinality({v \in those : far[v] = far[u]})]
      Candidates(i) == {u \in those : nearer[u] <= i - Min(part) /\ i - Min(part) < nearer[u] + equal[u]}
      new == FoldSet(LAMBDA i, fs : {f @@ (i :> u) : f \in fs, u \in Candidates(i)}, {<<>>}, part)
  IN {f \in new : {f[i] : i \in part} = those}

\* Do we need to switch modes?  Then the client is to forget everybody.
ReorderVisibleUsers ==
  LET f == IF highest_used_uid > max_proto_player_id THEN 1 ELSE 0
      switch == f # uid_ren_mode
      forget == switch /\ (uid_ren_mode # -1 \/ f = 1)
      numbers == IF switch THEN [i \in Slot |-> i] ELSE uid_ren
      r == [i \in Slot |-> RangeOf(numbers[i])]
      part == WrongSide(r, max_proto_player_id)
  IN
  /\ looking \in {"no", "done"}
  /\ looking' = IF f = 1 /\ max_proto_player_id = Ids - 1 THEN "torn" ELSE "half"
  /\ uid_ren_mode' = f
  /\ \/ ~forget /\ UNCHANGED <<myuser, was_uid_ren, screen>>
     \/ forget /\ DespawnAllPlayers
  /\ \/ f = 0 /\ uid_ren' = numbers /\ UNCHANGED <<range, max_proto_player_id>>
     \/ /\ f = 1
        /\ max_proto_player_id' = IF max_proto_player_id = Ids - 1 THEN Ids - 2 ELSE max_proto_player_id
        /\ \/ part = {} /\ uid_ren' = numbers
           \/ part # {} /\ \E new \in Sorted(numbers, r, part) : uid_ren' = new @@ numbers
        /\ range' = [i \in Slot |-> RangeOf(uid_ren'[i])]
  /\ UNCHANGED <<user, highest_used_uid, extn_extplayerlist, names, history, steps>>

\* A classic client has no list of names: show all, and hide those elsewhere.
ClassicMultimap == ~extn_extplayerlist /\ uid_ren_mode = 0 /\ highest_used_uid < Few
LoopMax == IF uid_ren_mode = 1 THEN Ids - 1 ELSE Ids
Looked == {i \in 0 .. LoopMax - 1 : uid_ren[i] # Me}

Visible(c) == IF ClassicMultimap THEN c.active ELSE OnMyLevel(c)
PosnOf(c) == IF OnMyLevel(c) THEN c.posn ELSE Hidden
EntityOf(c) == [who |-> c.who, look |-> c.look, posn |-> PosnOf(c)]
NameOf(c) == [who |-> c.who, look |-> c.look, on_level |-> c.on_level]

\* A mutation: who had a number before is not remembered.
NeverRenumbered(i) == FALSE

\* What a number is for has changed.
Renumbered(i) == was_uid_ren[i] \notin {uid_ren[i], -1}

\* The look of the user has to be sent again, or for the first time.
IsUpdate(i, c) ==
  \/ myuser[i].visible /\ c.look # myuser[i].look
  \/ Visible(c) /\ ~myuser[i].visible
  \/ Renumbered(i)

IsNewName(i, c) ==
  /\ c.active
  /\ \/ ~myuser[i].active
     \/ myuser[i].look # c.look
     \/ myuser[i].on_level # c.on_level
     \/ was_uid_ren[i] # uid_ren[i]

IsMoved(i, c) == Visible(c) /\ ~IsUpdate(i, c)

\* The entity of a number, after the packets about it.
NextEntity(i, c, entity) ==
  IF IsMoved(i, c)
  THEN IF PosnOf(c) = Hidden THEN [entity EXCEPT !.posn = Hidden]
       ELSE MovedEntity(entity, myuser[i].posn, c.posn)
  ELSE IF Visible(c) THEN EntityOf(c)
  ELSE IF IsUpdate(i, c) \/ myuser[i].visible THEN Nothing
  ELSE entity

NextName(i, c, name) ==
  IF ~extn_extplayerlist THEN name
  ELSE IF ~c.active /\ myuser[i].active THEN Nothing
  ELSE IF IsNewName(i, c) THEN NameOf(c)
  ELSE name

\* Something was sent: this is what the client knows now.
IsDirty(i, c) ==
  \/ extn_extplayerlist /\ (IsNewName(i, c) \/ (~c.active /\ myuser[i].active))
  \/ IsUpdate(i, c) \/ Visible(c) \/ myuser[i].visible

\* What is for the client with number id, in f; the rest stays.
PerId(f, Op(_, _, _)) ==
  [id \in DOMAIN f |->
     IF \E i \in Looked : Sent(i) /\ IdOf(i) = id
     THEN LET i == CHOOSE i \in Looked : Sent(i) /\ IdOf(i) = id IN Op(i, user[uid_ren[i]], f[id])
     ELSE f[id]]

CheckOtherUsers ==
  /\ looking \in {"half", "torn"}
  /\ looking' = IF looking = "half" THEN "done" ELSE "no"
  /\ screen' = PerId(screen, NextEntity)
  /\ names' = PerId(names, NextName)
  /\ was_uid_ren' = [i \in Slot |-> IF i \in Looked THEN uid_ren[i] ELSE was_uid_ren[i]]
  /\ myuser' = [i \in Slot |->
       LET c == user[uid_ren[i]] IN
       IF i \in Looked /\ IsDirty(i, c)
       THEN [active |-> c.active, look |-> c.look, on_level |-> c.on_level, posn |-> c.posn,
             visible |-> Visible(c)]
       ELSE myuser[i]]
  /\ renamed' = renamed \ {uid_ren[i] : i \in {j \in Looked :
       LET c == user[uid_ren[j]] IN ~IsMoved(j, c) /\ (extn_extplayerlist => IsNewName(j, c) \/ ~c.active)}}
  /\ astray' = {i \in Looked :
       LET c == user[uid_ren[i]] IN
       IF PosnOf(c) = Hidden THEN Visible(c) /\ c.posn # Invalid
       ELSE i \in astray /\ IsMoved(i, c) /\ IsSmall(myuser[i].posn, c.posn)}
  /\ UNCHANGED <<user, highest_used_uid, extn_extplayerlist, max_proto_player_id, uid_ren_mode,
                 uid_ren, range, steps>>

\* I enter another level, or get its map again: reset_player_list.
EnterLevel ==
  /\ looking \in {"no", "done"}
  /\ Step(TRUE)
  /\ \E l \in {1, 2} : user' = [user EXCEPT ![Me].on_level = l]
  /\ DespawnAllPlayers
  /\ UNCHANGED <<highest_used_uid, renamed, names, astray, max_proto_player_id, uid_ren_mode,
                 uid_ren, range>>

Next ==
  \/ Login \/ Quit \/ Goto \/ UpdatePlayerPos \/ UpdatePlayerLook
  \/ EnterLevel \/ ReorderVisibleUsers \/ CheckOtherUsers

Spec == Init /\ [][Next]_vars

-----------------------------------------------------------------------------
\* The name that had my number, when all were numbered by their slots.
LeftBehind(i) == uid_ren_mode = 1 /\ IdOf(i) = Me /\ myuser[Ids - 1].active

Right(i) ==
  LET c == user[uid_ren[i]]
      entity == screen[IdOf(i)]
      name == names[IdOf(i)]
      same == uid_ren[i] \notin renamed
  IN
  /\ ~Visible(c) => entity = Nothing
  /\ Visible(c) =>
       /\ entity # Nothing
       /\ same => entity.who = c.who /\ entity.look = c.look
       /\ i \notin astray => entity.posn = PosnOf(c)
  /\ extn_extplayerlist =>
       IF c.active THEN name # Nothing /\ (same => name = NameOf(c))
       ELSE name = Nothing \/ LeftBehind(i)

Nearest ==
  \A i \in 0 .. Min({max_proto_player_id, LoopMax - 1}), j \in Slot :
    j > max_proto_player_id /\ ~(i = max_proto_player_id /\ range[i] = Far) => range[i] <= range[j]

\* Once a client has looked and nothing happened since, its player sees who is
\* there, as they look and where they are, and nobody else; and if there are too
\* many, the nearest.  Not so: the look of a user who took a slot over between
\* two looks and has changed as often; the place of one who came out of hiding
\* by a small step; what had the number I have now; the name of the user of slot
\* 255, once there are too many; and the largest number stays empty rather than
\* be given to a hidden user (client_list.c).
AsSeen ==
  looking = "done" =>
    /\ \A i \in Looked : Sent(i) => Right(i)
    /\ \A id \in DOMAIN screen :
         uid_ren[id] # Me /\ ~(\E i \in Looked : Sent(i) /\ IdOf(i) = id) => screen[id] = Nothing
    /\ uid_ren_mode = 1 => Nearest
=============================================================================
