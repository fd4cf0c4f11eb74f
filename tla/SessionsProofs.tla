--------------------------- MODULE SessionsProofs ---------------------------
(***************************************************************************)
(* Proofs about Sessions for every number of processes, users, slots and   *)
(* connections: IInv is an invariant, and with it everything MCSessions    *)
(* checks of the sessions.  One lemma per action.                          *)
(***************************************************************************)
EXTENDS Sessions, WellFoundedInduction, TLAPS

\* Min of FiniteSetsExt is what its name says, of every set of naturals there is.
LEMMA MinIsLeast ==
  ASSUME NEW S, S \subseteq Nat, S # {}
  PROVE  Min(S) \in S /\ \A y \in S : Min(S) <= y
<1>1. PICK x \in S : \A y \in S : ~(<<y, x>> \in OpToRel(<, Nat))
  BY NatLessThanWellFounded, WFMin
<1>2. \A y \in S : x <= y
  <2> SUFFICES ASSUME NEW y \in S, y < x PROVE FALSE
    OBVIOUS
  <2>1. <<y, x>> \in OpToRel(<, Nat)
    BY DEF OpToRel
  <2>2. QED
    BY <1>1, <2>1
<1>3. QED
  BY <1>2 DEF Min

USE SessionAssumption DEF Slot

\* The slot start_user takes is one of those it may take.
LEMMA FreeIsSlot ==
  ASSUME NEW u, Free(u) # {}
  PROVE  Min(Free(u)) \in Free(u) /\ Min(Free(u)) \in Slot
<1>1. Free(u) \subseteq Slot /\ Slot \subseteq Nat
  BY DEF Free, Dead, Same
<1>2. QED
  BY <1>1, MinIsLeast

\* check_user_summon and stop_user leave the sessions of their type.
LEMMA ClearType ==
  ASSUME TypeOK, NEW p \in Pid, pc[p] \in WithSlot, ClearSession(p)
  PROVE  session_id' \in [Slot -> Pid \cup {NoPid}] /\ forsaken' \in SUBSET Slot
BY DEF TypeOK, ClearSession

\* No step of a process or of the listener leaves the types.
LEMMA TypeStep ==
  ASSUME IInv, Next
  PROVE  TypeOK'
<1> USE DEF TypeOK, Go, WithSlot
<1>0. TypeOK /\ ListenerInv /\ NameInv
  BY DEF IInv
<1>1. ASSUME NEW p \in Pid, NEW u \in User, Accept(p, u) PROVE TypeOK'
  BY <1>0, <1>1 DEF Accept, slotVars, listenerVars, history
<1>2. ASSUME NEW p \in Pid, RejectLogin(p) PROVE TypeOK'
  BY <1>0, <1>2 DEF RejectLogin, slotVars, listenerVars, history
<1>3. ASSUME NEW p \in Pid, NEW is_admin \in BOOLEAN, StartUser(p, is_admin) PROVE TypeOK'
  <2> DEFINE u == user_id[p]
             new == Min(Free(u))
             wiped == [i \in Slot |-> IF i \in Dead(u) THEN NoPid ELSE session_id[i]]
             moved == superseded \cup Superseded(u)
  <2>1. u \in User /\ wiped \in [Slot -> Pid \cup {NoPid}] /\ Ended(u) \in [Slot -> BOOLEAN]
    BY <1>0, <1>3 DEF StartUser, NameInv, Ended
  <2>2. moved \in SUBSET Pid
    BY <1>0 DEF Superseded
  <2>3. superseded' = moved /\ pc' \in [Pid -> {"none", "login", "zombie"} \cup WithSlot]
    BY <1>0, <1>3 DEF StartUser
  <2>4. CASE Free(u) = {} \/ (Cardinality(Connected) >= MaxPlayers /\ ~is_admin)
    BY <1>0, <1>3, <2>1, <2>2, <2>3, <2>4 DEF StartUser, listenerVars
  <2>5. CASE ~(Free(u) = {} \/ (Cardinality(Connected) >= MaxPlayers /\ ~is_admin))
    <3>1. new \in Slot
      BY <2>5, FreeIsSlot
    <3>2. /\ name' = [name EXCEPT ![new] = u]
          /\ active' = [Ended(u) EXCEPT ![new] = TRUE]
          /\ session_id' = [wiped EXCEPT ![new] = p]
          /\ summon' = [summon EXCEPT ![new] = NoMail]
          /\ my_user_no' = [my_user_no EXCEPT ![p] = new]
          /\ held' = IF held.slot = new THEN [held EXCEPT !.stale = TRUE] ELSE held
          /\ forsaken' = forsaken \ {new}
          /\ pc' = [pc EXCEPT ![p] = "start"]
          /\ UNCHANGED <<user_id, joined, mailbox, listenerVars, forks, struck, misled>>
      BY <1>3, <2>5 DEF StartUser, Fresh
    <3>3. held' \in Ref \cup {NoRef}
      <4>1. CASE held \in Ref
        <5>1. [held EXCEPT !.stale = TRUE] \in Ref
          BY <4>1 DEF Ref
        <5>2. QED
          BY <3>2, <4>1, <5>1
      <4>2. CASE held = NoRef
        <5>1. held.slot # new
          BY <3>1, <4>2 DEF NoRef, NoSlot
        <5>2. QED
          BY <3>2, <4>2, <5>1
      <4>3. QED
        BY <1>0, <4>1, <4>2
    <3>4. \A q \in Pid : pc'[q] \in WithSlot => my_user_no'[q] # NoSlot
      BY <1>0, <3>1, <3>2 DEF NoSlot
    <3>5. QED
      BY <1>0, <2>1, <2>2, <2>3, <3>1, <3>2, <3>3, <3>4 DEF listenerVars
  <2>6. QED
    BY <2>4, <2>5
<1>4. ASSUME NEW p \in Pid, JoinQueue(p) PROVE TypeOK'
  BY <1>0, <1>4 DEF JoinQueue, slotVars, listenerVars, history
<1>5. ASSUME NEW p \in Pid, FoundInactive(p) PROVE TypeOK'
  BY <1>0, <1>5 DEF FoundInactive, slotVars, listenerVars, history
<1>23. ASSUME NEW p \in Pid, ClearOnNewSession(p) PROVE TypeOK'
  BY <1>0, <1>23, ClearType DEF ClearOnNewSession, Struck, Gone, listenerVars
<1>6. ASSUME NEW p \in Pid, TakeSummon(p) PROVE TypeOK'
  BY <1>0, <1>6 DEF TakeSummon, Misled, procVars, listenerVars
<1>7. ASSUME NEW p \in Pid, ProcessCommand(p) PROVE TypeOK'
  BY <1>0, <1>7 DEF ProcessCommand, Misled, slotVars, listenerVars
<1>8. ASSUME NEW p \in Pid, SkipCommands(p) PROVE TypeOK'
  BY <1>0, <1>8 DEF SkipCommands, slotVars, listenerVars, history
<1>9. ASSUME NEW p \in Pid, Logout(p) PROVE TypeOK'
  BY <1>0, <1>9 DEF Logout, slotVars, listenerVars, history
<1>10. ASSUME NEW p \in Pid, StopUser(p) PROVE TypeOK'
  BY <1>0, <1>10 DEF StopUser, slotVars, listenerVars, history
<1>24. ASSUME NEW p \in Pid, StopActive(p) PROVE TypeOK'
  BY <1>0, <1>24 DEF StopActive, StruckLate, Struck, Gone, listenerVars
<1>25. ASSUME NEW p \in Pid, StopSession(p) PROVE TypeOK'
  BY <1>0, <1>25, ClearType DEF StopSession, StruckLate, Struck, Gone, listenerVars
<1>11. ASSUME NEW p \in Pid, Die(p) PROVE TypeOK'
  BY <1>0, <1>11 DEF Die, slotVars, listenerVars, history
<1>12. ASSUME NEW p \in Pid, Reap(p) PROVE TypeOK'
  BY <1>0, <1>12 DEF Reap, Vanish, slotVars
<1>26. ASSUME NEW p \in Pid, ReapOrphan(p) PROVE TypeOK'
  BY <1>0, <1>26 DEF ReapOrphan, Vanish, slotVars
<1>13. ASSUME NEW p \in Pid, ForkLoader(p) PROVE TypeOK'
  BY <1>0, <1>13 DEF ForkLoader, NameInv, Ref, slotVars, procVars, listenerVars, history
<1>14. ASSUME NEW i \in Slot, FindPlayer(i) PROVE TypeOK'
  BY <1>0, <1>14 DEF FindPlayer, NameInv, Ref, slotVars, procVars, listenerVars, history
<1>15. ASSUME NEW i \in Slot, Summon(i) PROVE TypeOK'
  BY <1>0, <1>15 DEF Summon, NameInv, Mail, procVars, listenerVars, history
<1>16. CASE Restart
  BY <1>0, <1>16 DEF Restart, slotVars, procVars, history
<1>27. CASE StartAgain
  BY <1>0, <1>27 DEF StartAgain, slotVars, procVars, history
<1>17. CASE FindSession
  <2>1. CASE at = Slots
    <3>1. /\ reaping' = FALSE /\ reaped' = NoPid /\ at' = 0
          /\ UNCHANGED <<slotVars, procVars, held, forks, history, wiping, orphans>>
      BY <1>17, <2>1 DEF FindSession, Done
    <3>2. 0 \in 0 .. Slots
      OBVIOUS
    <3>3. QED
      BY <1>0, <3>1, <3>2 DEF slotVars, procVars, history
  <2>2. CASE at # Slots /\ at \notin ToWipe(reaped)
    BY <1>0, <1>17, <2>2 DEF FindSession, slotVars, procVars, history
  <2>3. CASE at # Slots /\ at \in ToWipe(reaped)
    <3>1. at \in Slot /\ session_id[at] \in Pid
      BY <1>0, <2>3 DEF ToWipe, ListenerInv
    <3>2. /\ wiping' = [slot |-> at, session |-> session_id[at], half |-> FALSE]
          /\ UNCHANGED <<slotVars, procVars, held, forks, history, reaping, reaped, at,
                         orphans>>
      BY <1>17, <2>3 DEF FindSession
    <3>3. wiping' \in [slot : Slot, session : Pid, half : BOOLEAN]
      BY <3>1, <3>2
    <3>4. QED
      BY <1>0, <3>2, <3>3 DEF slotVars, procVars, history
  <2>4. QED
    BY <2>1, <2>2, <2>3
<1>18. CASE WipeSession
  <2>1. wiping \in [slot : Slot, session : Pid, half : BOOLEAN]
    BY <1>0, <1>18 DEF WipeSession
  <2>2. wiping' \in [slot : Slot, session : Pid, half : BOOLEAN]
    BY <1>18, <2>1 DEF WipeSession
  <2>3. session_id' \in [Slot -> Pid \cup {NoPid}] /\ struck' \in SUBSET Pid
    BY <1>0, <1>18, <2>1 DEF WipeSession, Struck, Gone
  <2>4. QED
    BY <1>0, <1>18, <2>2, <2>3 DEF WipeSession, procVars
<1>28. CASE WipeActive
  <2>1. wiping.slot = at /\ at \in Slot
    BY <1>0, <1>28 DEF WipeActive, ListenerInv, NoWipe
  <2>2. active' \in [Slot -> BOOLEAN] /\ struck' \in SUBSET Pid
    BY <1>0, <1>28, <2>1 DEF WipeActive, Struck, Gone
  <2>3. /\ reaping' \in BOOLEAN /\ reaped' \in Pid \cup {NoPid} /\ at' \in 0 .. Slots
        /\ forsaken' \in SUBSET Slot
    <3>1. CASE reaped = NoPid
      <4>1. at' = at + 1 /\ reaping' = reaping /\ reaped' = reaped /\ forsaken' = forsaken
        BY <1>28, <3>1 DEF WipeActive
      <4>2. at + 1 \in 0 .. Slots
        BY <2>1
      <4>3. QED
        BY <1>0, <4>1, <4>2
    <3>2. CASE reaped # NoPid
      <4>1. /\ reaping' = FALSE /\ reaped' = NoPid /\ at' = 0
            /\ forsaken' = forsaken \cup (ToWipe(reaped) \ {wiping.slot})
        BY <1>28, <3>2 DEF WipeActive, Done
      <4>2. ToWipe(reaped) \subseteq Slot
        BY DEF ToWipe
      <4>3. 0 \in 0 .. Slots
        OBVIOUS
      <4>4. QED
        BY <1>0, <4>1, <4>2, <4>3
    <3>3. QED
      BY <3>1, <3>2
  <2>4. QED
    BY <1>0, <1>28, <2>2, <2>3 DEF WipeActive, procVars
<1>19. CASE SendCommand
  BY <1>0, <1>19 DEF SendCommand, Mail, Ref, NoRef, slotVars, listenerVars, history
<1>20. CASE LoaderSummons
  BY <1>0, <1>20 DEF LoaderSummons, Mail, Ref, NoRef, procVars, listenerVars, history
<1>21. CASE AllEnded
  BY <1>0, <1>21 DEF AllEnded, vars, slotVars, procVars, listenerVars, history
<1>22. QED
  BY <1>1, <1>2, <1>3, <1>4, <1>5, <1>6, <1>7, <1>8, <1>9, <1>10, <1>11, <1>12, <1>13, <1>14,
     <1>15, <1>16, <1>17, <1>18, <1>19, <1>20, <1>21, <1>23, <1>24, <1>25, <1>26,
     <1>27, <1>28 DEF Next

\* No process has become one that its slot's mail must be meant for.
Fewer ==
  \A q \in Pid : Untouched(q)' =>
    Untouched(q) /\ my_user_no'[q] = my_user_no[q] /\ user_id'[q] = user_id[q]

\* What is on its way stays meant for whom it reaches, if it is left alone and
\* nobody has become one it may reach.
LEMMA FewerKeeps ==
  ASSUME IInv, Fewer
  PROVE  /\ held' = held => HeldInv'
         /\ summon' = summon => SummonInv'
         /\ mailbox' = mailbox /\ (\A q \in Pid : pc'[q] = "run" => pc[q] = "run") => MailboxInv'
<1>1. held' = held => HeldInv'
  BY DEF IInv, Fewer, HeldInv, Meant
<1>2. summon' = summon => SummonInv'
  BY DEF IInv, Fewer, SummonInv, Meant
<1>3. mailbox' = mailbox /\ (\A q \in Pid : pc'[q] = "run" => pc[q] = "run") => MailboxInv'
  BY DEF IInv, Fewer, MailboxInv, Meant
<1>4. QED
  BY <1>1, <1>2, <1>3

\* What IInv says of the list, the processes in it and the listener
ListInv ==
  NameInv /\ OneActivePerName /\ SlotInv /\ SessionInv /\ OwnerInv /\ LateInv /\ ListenerInv

\* It is kept by those who do not touch the list, and come to no slot.
LEMMA ListKeeps ==
  ASSUME IInv, TypeOK',
         UNCHANGED <<name, active, session_id, user_id, my_user_no, reaping, reaped, at, wiping,
                     superseded, struck, forsaken>>,
         \A q \in Pid :
           /\ pc'[q] \in InSlot => pc[q] \in InSlot \/ q \in superseded \cup struck
           /\ pc'[q] = "clear" => pc[q] \in InSlot \cup {"clear"}
           /\ pc'[q] \in {"found", "late"} =>
                pc[q] \in {"found", "late"} \/ q \in superseded \cup struck
           /\ pc'[q] \in {"found", "clear"} => pc[q] = pc'[q] \/ ~active[my_user_no[q]]
           /\ pc'[q] = "none" <=> pc[q] = "none"
           /\ pc[q] \in WithSlot \cup {"zombie"} => pc'[q] \in WithSlot \cup {"zombie"}
  PROVE  ListInv' /\ Fewer
<1>1. NameInv' /\ OneActivePerName' /\ ListenerInv'
  BY DEF IInv, TypeOK, NameInv, OneActivePerName, ListenerInv
<1>2. SlotInv'
  BY DEF IInv, TypeOK, SlotInv
<1>3. SessionInv'
  BY DEF IInv, SessionInv
<1>4. \A q \in Pid : Untouched(q)' => Untouched(q)
  BY DEF Untouched
<1>5. OwnerInv' /\ Fewer
  BY <1>4 DEF IInv, OwnerInv, Fewer
<1>6. LateInv'
  BY DEF IInv, LateInv, Untouched
<1>7. QED
  BY <1>1, <1>2, <1>3, <1>5, <1>6 DEF ListInv

\* A process that is forked has no slot; its id may still be in an inactive one.
LEMMA AcceptKeeps ==
  ASSUME IInv, TypeOK', NEW p \in Pid, NEW u \in User, Accept(p, u)
  PROVE  IInv'
<1> USE DEF Go, slotVars, listenerVars, history
<1>1. /\ pc[p] = "none" /\ pc'[p] = "login" /\ user_id'[p] = u /\ ~reaping
      /\ \A q \in Pid \ {p} : pc'[q] = pc[q] /\ user_id'[q] = user_id[q]
      /\ UNCHANGED <<slotVars, my_user_no, joined, mailbox, reaping, reaped, at, wiping, held,
                     history>>
  BY DEF IInv, TypeOK, Accept
<1>2. reaped = NoPid /\ wiping = NoWipe /\ at = 0
  BY <1>1 DEF IInv, ListenerInv
<1>3. NameInv' /\ OneActivePerName'
  BY <1>1 DEF IInv, NameInv, OneActivePerName
<1>4. SlotInv'
  BY <1>1, <1>2 DEF IInv, SlotInv, WithSlot, NoWipe
<1>5. SessionInv' /\ LateInv'
  BY <1>1 DEF IInv, SessionInv, LateInv, InSlot
<1>6. Fewer
  BY <1>1 DEF Fewer, Untouched, InSlot
<1>7. OwnerInv'
  BY <1>1, <1>6 DEF IInv, OwnerInv, Fewer
<1>8. ListenerInv'
  BY <1>1, <1>2 DEF ListenerInv
<1>9. HeldInv' /\ SummonInv' /\ MailboxInv' /\ NobodyMisled'
  BY <1>1, <1>6, FewerKeeps DEF IInv, NobodyMisled
<1>10. QED
  BY <1>3, <1>4, <1>5, <1>7, <1>8, <1>9 DEF IInv

\* A login that is refused leaves the list alone.
LEMMA RejectLoginKeeps ==
  ASSUME IInv, TypeOK', NEW p \in Pid, RejectLogin(p)
  PROVE  IInv'
<1> USE DEF Go, slotVars, procVars, listenerVars, history
<1>1. ListInv' /\ Fewer
  BY ListKeeps DEF IInv, TypeOK, RejectLogin, Untouched, InSlot, WithSlot
<1>2. HeldInv' /\ SummonInv' /\ MailboxInv'
  BY <1>1, FewerKeeps DEF IInv, TypeOK, RejectLogin
<1>3. NobodyMisled'
  BY DEF IInv, RejectLogin, NobodyMisled
<1>4. QED
  BY <1>1, <1>2, <1>3 DEF IInv, ListInv

\* A process that joins the command queue has nothing waiting there.
LEMMA JoinQueueKeeps ==
  ASSUME IInv, TypeOK', NEW p \in Pid, JoinQueue(p)
  PROVE  IInv'
<1> USE DEF Go, slotVars, procVars, listenerVars, history
<1>1. ListInv' /\ Fewer
  BY ListKeeps DEF IInv, TypeOK, JoinQueue, Untouched, InSlot, WithSlot
<1>2. HeldInv' /\ SummonInv'
  BY <1>1, FewerKeeps DEF JoinQueue
<1>3. MailboxInv'
  BY DEF IInv, TypeOK, JoinQueue, MailboxInv, Untouched, InSlot, Meant
<1>4. NobodyMisled'
  BY DEF IInv, JoinQueue, NobodyMisled
<1>5. QED
  BY <1>1, <1>2, <1>3, <1>4 DEF IInv, ListInv

\* A process that finds its slot inactive has been told to end, or was struck.
LEMMA FoundInactiveKeeps ==
  ASSUME IInv, TypeOK', NEW p \in Pid, FoundInactive(p)
  PROVE  IInv'
<1> USE DEF Go, slotVars, procVars, listenerVars, history
<1>1. ListInv' /\ Fewer
  BY ListKeeps DEF IInv, TypeOK, FoundInactive, OwnerInv, Untouched, InSlot, WithSlot
<1>2. HeldInv' /\ SummonInv' /\ MailboxInv'
  BY <1>1, FewerKeeps DEF IInv, TypeOK, FoundInactive
<1>3. NobodyMisled'
  BY DEF IInv, FoundInactive, NobodyMisled
<1>4. QED
  BY <1>1, <1>2, <1>3 DEF IInv, ListInv

\* Whoever clears the session of its slot takes it from nobody who is not struck
\* then; and an active slot is forsaken, if it was another's.
LEMMA ClearKeeps ==
  ASSUME IInv, TypeOK', NEW p \in Pid, pc[p] \in {"found", "clear"}, ClearSession(p),
         NEW x \in {"late", "zombie"}, Go(p, x), x = "late" => p \in superseded \cup struck',
         struck \subseteq struck',
         \A q \in Pid \ {p} : session_id[my_user_no[p]] = q /\ pc[q] \in InSlot \cup {"clear"} =>
           q \in superseded \cup struck',
         UNCHANGED <<name, active, summon, user_id, my_user_no, joined, mailbox, listenerVars,
                     held, superseded, misled>>
  PROVE  IInv'
<1> DEFINE i == my_user_no[p]
<1>1. i \in Slot
  BY DEF IInv, TypeOK, WithSlot
<1>2. /\ pc'[p] = x /\ \A q \in Pid \ {p} : pc'[q] = pc[q]
      /\ \A q \in Pid : pc'[q] \in InSlot \cup {"clear"} => q # p /\ pc[q] = pc'[q]
  BY DEF IInv, TypeOK, Go, InSlot
<1>3. /\ session_id'[i] = NoPid /\ forsaken \subseteq forsaken'
      /\ \A j \in Slot : j # i => session_id'[j] = session_id[j]
      /\ active[i] /\ session_id[i] \notin {p, NoPid} => i \in forsaken'
  BY <1>1 DEF ClearSession, IInv, TypeOK
<1>4. UNCHANGED <<reaping, reaped, at, wiping>>
  BY DEF listenerVars
<1>5. NameInv' /\ OneActivePerName'
  BY <1>2 DEF IInv, TypeOK, NameInv, OneActivePerName
<1>6. SlotInv'
  <2> SUFFICES ASSUME NEW j \in Slot, j \notin forsaken', active[j],
                      ~(wiping.slot = j /\ wiping.half)
               PROVE  /\ session_id'[j] \in Pid
                      /\ \/ /\ pc'[session_id'[j]] \in WithSlot \cup {"zombie"}
                            /\ my_user_no[session_id'[j]] = j
                            /\ user_id[session_id'[j]] = name[j]
                         \/ pc'[session_id'[j]] = "none" /\ reaping /\ reaped = session_id'[j]
    BY <1>4 DEF SlotInv
  <2>1. /\ session_id[j] \in Pid
        /\ \/ /\ pc[session_id[j]] \in WithSlot \cup {"zombie"}
              /\ my_user_no[session_id[j]] = j
              /\ user_id[session_id[j]] = name[j]
           \/ pc[session_id[j]] = "none" /\ reaping /\ reaped = session_id[j]
    BY <1>3 DEF IInv, SlotInv
  <2>2. j # i
    BY <1>3, <2>1 DEF IInv, LateInv
  <2>3. QED
    BY <1>2, <1>3, <2>1, <2>2 DEF WithSlot
<1>7. SessionInv'
  <2> SUFFICES ASSUME NEW q \in Pid, pc[q] \in InSlot \cup {"clear"}, q # p,
                      q \notin superseded \cup struck'
               PROVE  session_id'[my_user_no[q]] = q
    BY <1>2 DEF SessionInv
  <2>1. session_id[my_user_no[q]] = q /\ my_user_no[q] \in Slot
    BY DEF IInv, TypeOK, SessionInv, InSlot, WithSlot
  <2>2. my_user_no[q] # i
    BY <2>1
  <2>3. QED
    BY <1>3, <2>1, <2>2
<1>8. Fewer
  BY <1>2 DEF Fewer, Untouched
<1>9. OwnerInv'
  BY <1>8 DEF IInv, OwnerInv, Fewer
<1>10. LateInv'
  <2>1. \A q \in Pid : pc'[q] \in {"found", "late"} => q \in superseded' \cup struck'
    BY <1>2 DEF IInv, LateInv
  <2>2. ASSUME NEW q \in Pid, pc'[q] \in {"found", "clear"}
        PROVE  ~(active[my_user_no[q]] /\ session_id'[my_user_no[q]] = q)
    <3>1. q # p /\ pc[q] = pc'[q] /\ my_user_no[q] \in Slot
      BY <1>2, <2>2 DEF IInv, TypeOK, WithSlot
    <3>2. session_id'[my_user_no[q]] \in {session_id[my_user_no[q]], NoPid}
      BY <1>3, <3>1
    <3>3. QED
      BY <2>2, <3>1, <3>2 DEF IInv, LateInv
  <2>3. QED
    BY <2>1, <2>2 DEF LateInv
<1>11. ListenerInv'
  <2>1. \A q \in Pid : pc[q] = "none" => pc'[q] = "none"
    BY <1>2
  <2>2. \A j \in Slot : session_id'[j] \in {session_id[j], NoPid}
    BY <1>3
  <2>3. wiping # NoWipe => wiping.session \in Pid
    BY DEF IInv, TypeOK
  <2>4. reaped \in Pid \cup {NoPid}
    BY DEF IInv, TypeOK
  <2>5. QED
    BY <1>4, <2>1, <2>2, <2>3, <2>4 DEF IInv, ListenerInv
<1>12. HeldInv' /\ SummonInv' /\ MailboxInv'
  BY <1>2, <1>8, FewerKeeps DEF InSlot
<1>13. NobodyMisled'
  BY DEF IInv, NobodyMisled
<1>14. QED
  BY <1>5, <1>6, <1>7, <1>9, <1>10, <1>11, <1>12, <1>13 DEF IInv

\* A process that has found its slot inactive clears the session there.
LEMMA ClearOnNewSessionKeeps ==
  ASSUME IInv, TypeOK', NEW p \in Pid, ClearOnNewSession(p)
  PROVE  IInv'
<1>1. p \in superseded \cup struck'
  BY DEF ClearOnNewSession, IInv, LateInv
<1>2. \A q \in Pid \ {p} : session_id[my_user_no[p]] = q /\ pc[q] \in InSlot \cup {"clear"} =>
       q \in struck'
  BY DEF ClearOnNewSession, Struck, Gone, InSlot, IInv, TypeOK
<1>3. QED
  BY <1>1, <1>2, ClearKeeps DEF ClearOnNewSession

\* check_user_summon: the summons is for the user who takes it, or says stale.
LEMMA TakeSummonKeeps ==
  ASSUME IInv, TypeOK', NEW p \in Pid, TakeSummon(p)
  PROVE  IInv'
<1> USE DEF Go, slotVars, procVars, listenerVars, history
<1>1. ListInv' /\ Fewer
  BY ListKeeps DEF IInv, TypeOK, TakeSummon, Untouched, InSlot, WithSlot
<1>2. HeldInv' /\ MailboxInv'
  BY <1>1, FewerKeeps DEF TakeSummon
<1>3. SummonInv'
  <2> SUFFICES ASSUME NEW q \in Pid, Untouched(q)', summon'[my_user_no'[q]] # NoMail
               PROVE  Meant(summon[my_user_no[q]],
               q) /\ summon'[my_user_no'[q]] = summon[my_user_no[q]]
                      /\ user_id'[q] = user_id[q]
    BY DEF SummonInv, Meant
  <2>1. Untouched(q) /\ my_user_no[q] \in Slot /\ my_user_no[p] \in Slot
    BY DEF IInv, TypeOK, TakeSummon, Untouched, InSlot
  <2>2. summon'[my_user_no'[q]] = summon[my_user_no[q]]
    BY <2>1 DEF IInv, TypeOK, TakeSummon
  <2>3. QED
    BY <2>1, <2>2 DEF IInv, SummonInv, TakeSummon
<1>4. NobodyMisled'
  <2>1. Misled(p, summon[my_user_no[p]], "summon") = {}
    BY DEF IInv, TakeSummon, SummonInv, Misled, Meant, Untouched, InSlot
  <2>2. QED
    BY <2>1 DEF IInv, TakeSummon, NobodyMisled
<1>5. QED
  BY <1>1, <1>2, <1>3, <1>4 DEF IInv, ListInv

\* process_queued_cmds: the kick is for the user who reads it, or says stale.
LEMMA ProcessCommandKeeps ==
  ASSUME IInv, TypeOK', NEW p \in Pid, ProcessCommand(p)
  PROVE  IInv'
<1> USE DEF Go, slotVars, procVars, listenerVars, history
<1>1. ListInv' /\ Fewer
  BY ListKeeps DEF IInv, TypeOK, ProcessCommand, Untouched, InSlot, WithSlot
<1>2. HeldInv' /\ SummonInv'
  BY <1>1, FewerKeeps DEF ProcessCommand
<1>3. MailboxInv'
  BY <1>1 DEF IInv, TypeOK, ProcessCommand, Fewer, MailboxInv, Meant
<1>4. NobodyMisled'
  <2>1. Misled(p, mailbox[p], "kick") = {}
    BY DEF IInv, ProcessCommand, MailboxInv, Misled, Meant, Untouched, InSlot
  <2>2. QED
    BY <2>1 DEF IInv, ProcessCommand, NobodyMisled
<1>5. QED
  BY <1>1, <1>2, <1>3, <1>4 DEF IInv, ListInv

\* A reader that is overrun only forgets.
LEMMA SkipCommandsKeeps ==
  ASSUME IInv, TypeOK', NEW p \in Pid, SkipCommands(p)
  PROVE  IInv'
<1> USE DEF Go, slotVars, procVars, listenerVars, history
<1>1. ListInv' /\ Fewer
  BY ListKeeps DEF IInv, TypeOK, SkipCommands, Untouched, InSlot, WithSlot
<1>2. HeldInv' /\ SummonInv'
  BY <1>1, FewerKeeps DEF SkipCommands
<1>3. MailboxInv'
  BY <1>1 DEF IInv, TypeOK, SkipCommands, Fewer, MailboxInv, Meant
<1>4. NobodyMisled'
  BY DEF IInv, SkipCommands, NobodyMisled
<1>5. QED
  BY <1>1, <1>2, <1>3, <1>4 DEF IInv, ListInv

\* A process that has decided to leave has its slot until stop_user.
LEMMA LogoutKeeps ==
  ASSUME IInv, TypeOK', NEW p \in Pid, Logout(p)
  PROVE  IInv'
<1> USE DEF Go, slotVars, procVars, listenerVars, history
<1>1. ListInv' /\ Fewer
  BY ListKeeps DEF IInv, TypeOK, Logout, Untouched, InSlot, WithSlot
<1>2. HeldInv' /\ SummonInv' /\ MailboxInv'
  BY <1>1, FewerKeeps DEF IInv, TypeOK, Logout
<1>3. NobodyMisled'
  BY DEF IInv, Logout, NobodyMisled
<1>4. QED
  BY <1>1, <1>2, <1>3 DEF IInv, ListInv

\* stop_user looks at the slot, and leaves it alone if it is not active.
LEMMA StopUserKeeps ==
  ASSUME IInv, TypeOK', NEW p \in Pid, StopUser(p)
  PROVE  IInv'
<1> USE DEF Go, slotVars, procVars, listenerVars, history
<1>1. ListInv' /\ Fewer
  BY ListKeeps DEF IInv, TypeOK, StopUser, LateInv, InSlot, WithSlot
<1>2. HeldInv' /\ SummonInv' /\ MailboxInv'
  BY <1>1, FewerKeeps DEF IInv, TypeOK, StopUser
<1>3. NobodyMisled'
  BY DEF IInv, StopUser, NobodyMisled
<1>4. QED
  BY <1>1, <1>2, <1>3 DEF IInv, ListInv

\* It makes the slot inactive: who has it by then is struck, if not the process itself.
LEMMA StopActiveKeeps ==
  ASSUME IInv, TypeOK', NEW p \in Pid, StopActive(p)
  PROVE  IInv'
<1> USE DEF Go, slotVars, procVars, listenerVars, history
<1> DEFINE i == my_user_no[p]
<1>1. i \in Slot
  BY DEF IInv, TypeOK, WithSlot, StopActive
<1>2. /\ pc'[p] = "clear" /\ pc[p] = "stop" /\ \A q \in Pid \ {p} : pc'[q] = pc[q]
      /\ \A q \in Pid : pc'[q] \in InSlot => q # p
  BY DEF IInv, TypeOK, StopActive, InSlot
<1>3. ~active'[i] /\ \A j \in Slot : j # i => active'[j] = active[j]
  BY <1>1 DEF IInv, TypeOK, StopActive
<1>4. /\ struck \subseteq struck'
      /\ UNCHANGED <<name, session_id, summon, user_id, my_user_no, joined, mailbox, reaping,
                     reaped,
                     at, wiping, held, superseded, misled, forsaken>>
  BY DEF StopActive
<1>5. NameInv' /\ OneActivePerName'
  BY <1>2, <1>3, <1>4 DEF IInv, TypeOK, NameInv, OneActivePerName
<1>6. SlotInv'
  BY <1>2, <1>3, <1>4 DEF IInv, TypeOK, SlotInv, WithSlot
<1>7. SessionInv'
  BY <1>2, <1>4 DEF IInv, SessionInv, InSlot
<1>8. Fewer
  BY <1>2, <1>4 DEF Fewer, Untouched
<1>9. OwnerInv'
  <2> SUFFICES ASSUME NEW q \in Pid, Untouched(q)'
               PROVE  active'[my_user_no[q]] /\ name[my_user_no[q]] = user_id[q]
    BY <1>4 DEF OwnerInv
  <2>1. /\ Untouched(q) /\ q # p /\ active[my_user_no[q]] /\ name[my_user_no[q]] = user_id[q]
        /\ my_user_no[q] \in Slot /\ session_id[my_user_no[q]] = q /\ q \notin struck'
    BY <1>2, <1>8 DEF IInv, TypeOK, Fewer, OwnerInv, SessionInv, Untouched, InSlot, WithSlot
  <2>2. my_user_no[q] # i
    <3>1. CASE p \in struck \cup superseded
      BY <2>1, <3>1 DEF StopActive, StruckLate, Struck, Gone, Untouched, InSlot, IInv, TypeOK
    <3>2. CASE p \notin struck \cup superseded
      BY <1>2, <2>1, <3>2 DEF IInv, SessionInv, InSlot
    <3>3. QED
      BY <3>1, <3>2
  <2>3. QED
    BY <1>3, <2>1, <2>2
<1>10. LateInv'
  BY <1>1, <1>2, <1>3, <1>4 DEF IInv, TypeOK, LateInv, WithSlot
<1>11. ListenerInv'
  <2>1. \A q \in Pid : pc[q] = "none" => pc'[q] = "none"
    BY <1>2
  <2>2. \A j \in Slot : active'[j] => active[j]
    BY <1>3
  <2>3. wiping # NoWipe => wiping.session \in Pid
    BY DEF IInv, TypeOK
  <2>4. reaped \in Pid \cup {NoPid}
    BY DEF IInv, TypeOK
  <2>5. QED
    BY <1>4, <2>1, <2>2, <2>3, <2>4 DEF IInv, ListenerInv
<1>12. HeldInv' /\ SummonInv' /\ MailboxInv'
  BY <1>2, <1>4, <1>8, FewerKeeps DEF InSlot
<1>13. NobodyMisled'
  BY <1>4 DEF IInv, NobodyMisled
<1>14. QED
  BY <1>5, <1>6, <1>7, <1>9, <1>10, <1>11, <1>12, <1>13 DEF IInv

\* It clears the session there.
LEMMA StopSessionKeeps ==
  ASSUME IInv, TypeOK', NEW p \in Pid, StopSession(p)
  PROVE  IInv'
<1>1. ASSUME NEW q \in Pid \ {p}, session_id[my_user_no[p]] = q, pc[q] \in InSlot \cup {"clear"}
      PROVE  q \in struck'
  <2>1. p \in struck \cup superseded
    BY <1>1 DEF StopSession, IInv, SessionInv
  <2>2. QED
    BY <1>1, <2>1 DEF StopSession, StruckLate, Struck, Gone, InSlot, IInv, TypeOK
<1>2. QED
  BY <1>1, ClearKeeps DEF StopSession

\* A process that is killed leaves its slot to the listener.
LEMMA DieKeeps ==
  ASSUME IInv, TypeOK', NEW p \in Pid, Die(p)
  PROVE  IInv'
<1> USE DEF Go, slotVars, procVars, listenerVars, history
<1>1. ListInv' /\ Fewer
  BY ListKeeps DEF IInv, TypeOK, Die, Untouched, InSlot, WithSlot
<1>2. HeldInv' /\ SummonInv' /\ MailboxInv'
  BY <1>1, FewerKeeps DEF IInv, TypeOK, Die
<1>3. NobodyMisled'
  BY DEF IInv, Die, NobodyMisled
<1>4. QED
  BY <1>1, <1>2, <1>3 DEF IInv, ListInv

\* Nothing is left of a process that has been reaped, and its slot is looked for ...
LEMMA VanishKeeps ==
  ASSUME IInv, TypeOK', NEW p \in Pid, Vanish(p), forsaken \subseteq forsaken',
         \A i \in Slot \ forsaken' : active[i] /\ session_id[i] = p => reaping' /\ reaped' = p,
         \/ UNCHANGED <<reaping, reaped, at>>
         \/ ~reaping /\ reaping' /\ reaped' = p /\ at' = at
  PROVE  IInv'
<1> USE DEF Go, slotVars
<1>1. /\ pc[p] = "zombie" /\ pc'[p] = "none"
      /\ \A q \in Pid \ {p} : pc'[q] = pc[q] /\ my_user_no'[q] = my_user_no[q]
                              /\ user_id'[q] = user_id[q]
                              /\ (q \in superseded' <=> q \in superseded)
                              /\ (q \in struck' <=> q \in struck)
                              /\ mailbox'[q] = mailbox[q]
  BY DEF IInv, TypeOK, Vanish
<1>2. UNCHANGED <<name, active, session_id, summon, wiping, held, misled>>
  BY DEF Vanish
<1>3. NameInv' /\ OneActivePerName'
  BY <1>1, <1>2 DEF IInv, NameInv, OneActivePerName
<1>4. SlotInv'
  <2> SUFFICES ASSUME NEW i \in Slot, i \notin forsaken', active[i],
                      ~(wiping.slot = i /\ wiping.half)
               PROVE  /\ session_id[i] \in Pid
                      /\ \/ /\ pc'[session_id[i]] \in WithSlot \cup {"zombie"}
                            /\ my_user_no'[session_id[i]] = i
                            /\ user_id'[session_id[i]] = name[i]
                         \/ pc'[session_id[i]] = "none" /\ reaping' /\ reaped' = session_id[i]
    BY <1>2 DEF SlotInv
  <2>1. /\ session_id[i] \in Pid
        /\ \/ /\ pc[session_id[i]] \in WithSlot \cup {"zombie"}
              /\ my_user_no[session_id[i]] = i
              /\ user_id[session_id[i]] = name[i]
           \/ pc[session_id[i]] = "none" /\ reaping /\ reaped = session_id[i]
    BY DEF IInv, SlotInv
  <2>2. QED
    BY <1>1, <2>1 DEF WithSlot
<1>5. SessionInv' /\ LateInv'
  BY <1>1, <1>2 DEF IInv, SessionInv, LateInv, InSlot
<1>6. Fewer
  BY <1>1 DEF Fewer, Untouched, InSlot
<1>7. OwnerInv'
  BY <1>2, <1>6 DEF IInv, OwnerInv, Fewer
<1>8. ListenerInv'
  <2>1. \A q \in Pid : pc[q] = "none" => pc'[q] = "none"
    BY <1>1
  <2>2. wiping # NoWipe => wiping.session \in Pid
    BY DEF IInv, TypeOK
  <2>3. reaped \in Pid \cup {NoPid}
    BY DEF IInv, TypeOK
  <2>4. CASE UNCHANGED <<reaping, reaped, at>>
    BY <1>2, <2>1, <2>2, <2>3, <2>4 DEF IInv, ListenerInv
  <2>5. CASE ~reaping /\ reaping' /\ reaped' = p /\ at' = at
    <3>1. at' = 0 /\ wiping' = NoWipe
      BY <1>2, <2>5 DEF IInv, ListenerInv
    <3>2. QED
      BY <1>1, <2>5, <3>1 DEF ListenerInv
  <2>6. QED
    BY <2>4, <2>5
<1>9. HeldInv' /\ SummonInv'
  BY <1>2, <1>6, FewerKeeps
<1>10. MailboxInv'
  BY <1>1, <1>6 DEF IInv, Fewer, MailboxInv, Meant
<1>11. NobodyMisled'
  BY <1>2 DEF IInv, NobodyMisled
<1>12. QED
  BY <1>3, <1>4, <1>5, <1>7, <1>8, <1>9, <1>10, <1>11 DEF IInv

\* ... by the listener, for which it was a child, ...
LEMMA ReapKeeps ==
  ASSUME IInv, TypeOK', NEW p \in Pid, Reap(p)
  PROVE  IInv'
BY VanishKeeps DEF Reap

\* ... or by nobody, and it is forsaken.
LEMMA ReapOrphanKeeps ==
  ASSUME IInv, TypeOK', NEW p \in Pid, ReapOrphan(p)
  PROVE  IInv'
BY VanishKeeps DEF ReapOrphan

\* A loader is to summon the user who forked it.
LEMMA ForkLoaderKeeps ==
  ASSUME IInv, TypeOK', NEW p \in Pid, ForkLoader(p)
  PROVE  IInv'
<1> USE DEF Go, slotVars, procVars, listenerVars, history
<1>1. ListInv' /\ Fewer
  BY ListKeeps DEF IInv, TypeOK, ForkLoader, Untouched, InSlot, WithSlot
<1>2. SummonInv' /\ MailboxInv'
  BY <1>1, FewerKeeps DEF ForkLoader
<1>3. HeldInv'
  <2> SUFFICES ASSUME NEW q \in Pid, Untouched(q), my_user_no[q] = held'.slot
               PROVE  Meant(held', q)
    BY DEF HeldInv, Meant, ForkLoader, Untouched
  <2>1. held'.stale \/ held'.for = user_id[q]
    <3>1. /\ pc[p] = "run" /\ my_user_no[q] = my_user_no[p]
          /\ held'.for = user_id[p] /\ held'.stale = (p \in struck \cup superseded)
      BY DEF ForkLoader
    <3>2. CASE p \in struck \cup superseded
      BY <3>1, <3>2
    <3>3. CASE p \notin struck \cup superseded
      <4>1. p = q
        BY <3>1, <3>3 DEF IInv, SessionInv, Untouched, InSlot
      <4>2. QED
        BY <3>1, <4>1
    <3>4. QED
      BY <3>2, <3>3
  <2>2. QED
    BY <2>1 DEF Meant, ForkLoader
<1>4. NobodyMisled'
  BY DEF IInv, ForkLoader, NobodyMisled
<1>5. QED
  BY <1>1, <1>2, <1>3, <1>4 DEF IInv, ListInv

\* find_online_player: the slot found is that of the user looked for.
LEMMA FindPlayerKeeps ==
  ASSUME IInv, TypeOK', NEW i \in Slot, FindPlayer(i)
  PROVE  IInv'
<1> USE DEF Go, slotVars, procVars, listenerVars, history
<1>1. ListInv' /\ Fewer
  BY ListKeeps DEF IInv, TypeOK, FindPlayer, Untouched, InSlot, WithSlot
<1>2. SummonInv' /\ MailboxInv'
  BY <1>1, FewerKeeps DEF FindPlayer
<1>3. HeldInv'
  <2> SUFFICES ASSUME NEW q \in Pid, Untouched(q), my_user_no[q] = held'.slot
               PROVE  Meant(held', q)
    BY DEF HeldInv, Meant, FindPlayer, Untouched
  <2>1. held'.for = user_id[q]
    BY DEF IInv, TypeOK, FindPlayer, SessionInv, OwnerInv, Untouched
  <2>2. QED
    BY <2>1 DEF Meant, FindPlayer
<1>4. NobodyMisled'
  BY DEF IInv, FindPlayer, NobodyMisled
<1>5. QED
  BY <1>1, <1>2, <1>3, <1>4 DEF IInv, ListInv

\* cmd_summon: the summons is for the name in the slot.
LEMMA SummonKeeps ==
  ASSUME IInv, TypeOK', NEW i \in Slot, Summon(i)
  PROVE  IInv'
<1> USE DEF Go, slotVars, procVars, listenerVars, history
<1>1. ListInv' /\ Fewer
  BY ListKeeps DEF IInv, TypeOK, Summon, Untouched, InSlot, WithSlot
<1>2. HeldInv' /\ MailboxInv'
  BY <1>1, FewerKeeps DEF Summon
<1>3. SummonInv'
  <2> SUFFICES ASSUME NEW q \in Pid, Untouched(q), summon'[my_user_no[q]] # NoMail
               PROVE  Meant(summon'[my_user_no[q]], q)
    BY DEF SummonInv, Meant, Summon, Untouched
  <2>1. my_user_no[q] \in Slot
    BY DEF IInv, TypeOK, Untouched, InSlot
  <2>2. CASE my_user_no[q] = i
    <3>1. summon'[my_user_no[q]].for = user_id[q]
      BY <2>1, <2>2 DEF IInv, TypeOK, OwnerInv, Summon
    <3>2. QED
      BY <3>1 DEF Meant
  <2>3. CASE my_user_no[q] # i
    <3>1. summon'[my_user_no[q]] = summon[my_user_no[q]]
      BY <2>1, <2>3 DEF IInv, TypeOK, Summon
    <3>2. QED
      BY <3>1 DEF IInv, SummonInv
  <2>4. QED
    BY <2>2, <2>3
<1>4. NobodyMisled'
  BY DEF IInv, Summon, NobodyMisled
<1>5. QED
  BY <1>1, <1>2, <1>3, <1>4 DEF IInv, ListInv

\* main begins to look for sessions to wipe: after a restart ...
LEMMA RestartKeeps ==
  ASSUME IInv, TypeOK', Restart
  PROVE  IInv'
<1>1. UNCHANGED <<slotVars, procVars, reaped, at, wiping, held, history>> /\ ~reaping /\ reaping'
  BY DEF Restart
<1>2. ListInv' /\ Fewer
  <2>1. NameInv' /\ OneActivePerName' /\ SessionInv' /\ OwnerInv' /\ LateInv' /\ Fewer
    BY <1>1 DEF IInv, NameInv, OneActivePerName, SessionInv, OwnerInv, LateInv, Untouched,
           Fewer,
       slotVars, procVars, history
  <2>2. SlotInv'
    BY <1>1 DEF IInv, SlotInv, slotVars, procVars, history
  <2>3. ListenerInv'
    BY <1>1 DEF IInv, ListenerInv, slotVars, procVars
  <2>4. QED
    BY <2>1, <2>2, <2>3 DEF ListInv
<1>3. HeldInv' /\ SummonInv' /\ MailboxInv' /\ NobodyMisled'
  BY <1>1, <1>2, FewerKeeps DEF IInv, NobodyMisled, slotVars, procVars, history
<1>4. QED
  BY <1>2, <1>3 DEF IInv, ListInv

\* ... and when the listener is started again.
LEMMA StartAgainKeeps ==
  ASSUME IInv, TypeOK', StartAgain
  PROVE  IInv'
<1>1. UNCHANGED <<slotVars, procVars, reaped, at, wiping, held, history>> /\ ~reaping /\ reaping'
  BY DEF StartAgain
<1>2. ListInv' /\ Fewer
  <2>1. NameInv' /\ OneActivePerName' /\ SessionInv' /\ OwnerInv' /\ LateInv' /\ Fewer
    BY <1>1 DEF IInv, NameInv, OneActivePerName, SessionInv, OwnerInv, LateInv, Untouched,
           Fewer,
       slotVars, procVars, history
  <2>2. SlotInv'
    BY <1>1 DEF IInv, SlotInv, slotVars, procVars, history
  <2>3. ListenerInv'
    BY <1>1 DEF IInv, ListenerInv, slotVars, procVars
  <2>4. QED
    BY <2>1, <2>2, <2>3 DEF ListInv
<1>3. HeldInv' /\ SummonInv' /\ MailboxInv' /\ NobodyMisled'
  BY <1>1, <1>2, FewerKeeps DEF IInv, NobodyMisled, slotVars, procVars, history
<1>4. QED
  BY <1>2, <1>3 DEF IInv, ListInv

\* When the listener has passed all slots, no active one is left of the process it has
\* reaped.
LEMMA FindSessionKeeps ==
  ASSUME IInv, TypeOK', FindSession
  PROVE  IInv'
<1>1. UNCHANGED <<slotVars, procVars, held, history>> /\ reaping /\ wiping = NoWipe
  BY DEF FindSession
<1>2. NameInv' /\ OneActivePerName' /\ SessionInv' /\ OwnerInv' /\ LateInv' /\ Fewer
  BY <1>1 DEF IInv, NameInv, OneActivePerName, SessionInv, OwnerInv, LateInv, Untouched, Fewer,
     slotVars, procVars, history
<1>3. SlotInv' /\ ListenerInv'
  <2>1. CASE at = Slots
    <3>1. ~reaping' /\ reaped' = NoPid /\ at' = 0 /\ wiping' = NoWipe
      BY <1>1, <2>1 DEF FindSession, Done
    <3>2. \A i \in Slot : active[i] => session_id[i] # reaped \/ reaped = NoPid
      BY <2>1 DEF IInv, ListenerInv
    <3>3. SlotInv'
      BY <1>1, <3>1, <3>2 DEF IInv, SlotInv, slotVars, procVars, history, NoWipe
    <3>4. ListenerInv'
      BY <3>1 DEF ListenerInv
    <3>5. QED
      BY <3>3, <3>4
  <2>2. CASE at # Slots
    <3>1. at \in Slot /\ UNCHANGED <<reaping, reaped>>
      BY <2>2 DEF IInv, TypeOK, FindSession
    <3>2. \/ /\ at \in ToWipe(reaped)
             /\ wiping' = [slot |-> at, session |-> session_id[at], half |-> FALSE]
             /\ at' = at
          \/ at \notin ToWipe(reaped) /\ at' = at + 1 /\ wiping' = NoWipe
      BY <1>1, <2>2 DEF FindSession
    <3>3. SlotInv'
      BY <1>1, <3>1, <3>2 DEF IInv, SlotInv, slotVars, procVars, history, NoWipe
    <3>4. ListenerInv'
      <4>1. CASE at \in ToWipe(reaped)
        <5>1. pc[session_id[at]] = "none"
          BY <4>1 DEF IInv, ListenerInv, ToWipe, Gone
        <5>2. wiping'.session = session_id[at] /\ wiping'.slot = at /\ at' = at
          BY <3>2, <4>1
        <5>3. QED
          BY <1>1, <3>1, <5>1, <5>2 DEF IInv, ListenerInv, slotVars, procVars
      <4>2. CASE at \notin ToWipe(reaped)
        <5>1. reaped # NoPid => ~(active[at] /\ session_id[at] = reaped)
          BY <3>1, <4>2 DEF ToWipe
        <5>2. at' = at + 1 /\ wiping' = NoWipe
          BY <3>2, <4>2
        <5>3. \A i \in Slot : i < at + 1 => i < at \/ i = at
          BY <3>1
        <5>4. QED
          BY <1>1, <3>1, <5>1, <5>2, <5>3 DEF IInv, ListenerInv, slotVars, procVars
      <4>3. QED
        BY <4>1, <4>2
    <3>5. QED
      BY <3>3, <3>4
  <2>3. QED
    BY <2>1, <2>2
<1>4. HeldInv' /\ SummonInv' /\ MailboxInv' /\ NobodyMisled'
  BY <1>1, <1>2, FewerKeeps DEF IInv, NobodyMisled, slotVars, procVars, history
<1>5. QED
  BY <1>2, <1>3, <1>4 DEF IInv

\* delete_session_id clears the session: who has taken the slot meanwhile is struck.
LEMMA WipeSessionKeeps ==
  ASSUME IInv, TypeOK', WipeSession
  PROVE  IInv'
<1> DEFINE i == wiping.slot
<1>1. /\ i \in Slot /\ wiping \in [slot : Slot, session : Pid, half : BOOLEAN]
      /\ pc[wiping.session] = "none"
  BY DEF IInv, TypeOK, ListenerInv, WipeSession
<1>2. /\ session_id'[i] = NoPid /\ \A j \in Slot : j # i => session_id'[j] = session_id[j]
      /\ wiping'.slot = i /\ wiping'.half /\ wiping'.session = wiping.session
  BY <1>1 DEF IInv, TypeOK, WipeSession
<1>3. /\ struck \subseteq struck'
      /\ UNCHANGED <<name, active, summon, procVars, reaping, reaped, at, held, superseded,
                     misled,
                     forsaken>>
  BY DEF WipeSession
<1>4. \A q \in Pid : session_id[i] = q /\ pc[q] # "none" => q \in struck'
  BY <1>1 DEF WipeSession, Struck, Gone, IInv, TypeOK
<1>5. NameInv' /\ OneActivePerName'
  BY <1>3 DEF IInv, NameInv, OneActivePerName, procVars
<1>6. Fewer
  BY <1>3 DEF Fewer, Untouched, procVars
<1>7. OwnerInv'
  BY <1>3, <1>6 DEF IInv, OwnerInv, Fewer
<1>8. SlotInv'
  BY <1>2, <1>3 DEF IInv, SlotInv, procVars
<1>9. SessionInv'
  <2> SUFFICES ASSUME NEW q \in Pid, pc[q] \in InSlot \cup {"clear"},
                      q \notin superseded \cup struck'
               PROVE  session_id'[my_user_no[q]] = q
    BY <1>3 DEF SessionInv, procVars
  <2>1. session_id[my_user_no[q]] = q /\ my_user_no[q] \in Slot /\ pc[q] # "none"
    BY <1>3 DEF IInv, TypeOK, SessionInv, InSlot, WithSlot
  <2>2. my_user_no[q] # i
    BY <1>4, <2>1
  <2>3. QED
    BY <1>2, <2>1, <2>2
<1>10. LateInv'
  <2>1. ASSUME NEW q \in Pid, pc[q] \in {"found", "clear"}
        PROVE  ~(active[my_user_no[q]] /\ session_id'[my_user_no[q]] = q)
    <3>1. my_user_no[q] \in Slot
      BY <2>1 DEF IInv, TypeOK, WithSlot
    <3>2. session_id'[my_user_no[q]] \in {session_id[my_user_no[q]], NoPid}
      BY <1>2, <3>1
    <3>3. QED
      BY <2>1, <3>2 DEF IInv, LateInv
  <2>2. QED
    BY <1>3, <2>1 DEF IInv, LateInv, procVars
<1>11. ListenerInv'
  <2>1. reaping /\ i = at
    BY DEF IInv, ListenerInv, WipeSession
  <2>2. \A j \in Slot : session_id'[j] \in {session_id[j], NoPid}
    BY <1>2
  <2>3. QED
    BY <1>1, <1>2, <1>3, <2>1, <2>2 DEF IInv, ListenerInv, procVars
<1>12. HeldInv' /\ SummonInv' /\ MailboxInv' /\ NobodyMisled'
  BY <1>3, <1>6, FewerKeeps DEF IInv, NobodyMisled, procVars
<1>13. QED
  BY <1>5, <1>7, <1>8, <1>9, <1>10, <1>11, <1>12 DEF IInv

\* It makes the slot inactive, which nobody may have taken meanwhile but is struck; and
\* what else has the id of the process is forsaken.
LEMMA WipeActiveKeeps ==
  ASSUME IInv, TypeOK', WipeActive
  PROVE  IInv'
<1> DEFINE i == wiping.slot
<1>1. /\ wiping \in [slot : Slot, session : Pid, half : BOOLEAN] /\ pc[wiping.session] = "none"
      /\ reaping /\ i = at /\ i \in Slot
  BY DEF IInv, TypeOK, ListenerInv, WipeActive, NoWipe
<1>2. ~active'[i] /\ (\A j \in Slot : j # i => active'[j] = active[j]) /\ wiping' = NoWipe
  BY <1>1 DEF IInv, TypeOK, WipeActive
<1>3. /\ struck \subseteq struck' /\ forsaken \subseteq forsaken'
      /\ UNCHANGED <<name, session_id, summon, procVars, held, superseded, misled>>
  BY DEF WipeActive
<1>4. \A q \in Pid : session_id[i] = q /\ pc[q] # "none" => q \in struck'
  BY <1>1 DEF WipeActive, Struck, Gone, IInv, TypeOK
<1>5. NameInv' /\ OneActivePerName'
  BY <1>2, <1>3 DEF IInv, NameInv, OneActivePerName, procVars
<1>6. Fewer
  BY <1>3 DEF Fewer, Untouched, procVars
<1>7. OwnerInv'
  <2> SUFFICES ASSUME NEW q \in Pid, Untouched(q)'
               PROVE  active'[my_user_no[q]] /\ name[my_user_no[q]] = user_id[q]
    BY <1>3 DEF OwnerInv, procVars
  <2>1. /\ Untouched(q) /\ active[my_user_no[q]] /\ name[my_user_no[q]] = user_id[q]
        /\ my_user_no[q] \in Slot /\ session_id[my_user_no[q]] = q
        /\ q \notin struck' /\ pc[q] # "none"
    BY <1>6 DEF IInv, TypeOK, Fewer, OwnerInv, SessionInv, Untouched, InSlot, WithSlot
  <2>2. QED
    BY <1>2, <1>4, <2>1
<1>8. SlotInv'
  <2> SUFFICES ASSUME NEW j \in Slot, j \notin forsaken', active'[j]
               PROVE  /\ session_id[j] \in Pid
                      /\ \/ /\ pc[session_id[j]] \in WithSlot \cup {"zombie"}
                            /\ my_user_no[session_id[j]] = j
                            /\ user_id[session_id[j]] = name[j]
                         \/ pc[session_id[j]] = "none" /\ reaping' /\ reaped' = session_id[j]
    BY <1>2, <1>3 DEF SlotInv, procVars
  <2>1. j # i /\ active[j] /\ j \notin forsaken
    BY <1>2, <1>3
  <2>2. /\ session_id[j] \in Pid
        /\ \/ /\ pc[session_id[j]] \in WithSlot \cup {"zombie"}
              /\ my_user_no[session_id[j]] = j
              /\ user_id[session_id[j]] = name[j]
           \/ pc[session_id[j]] = "none" /\ reaping /\ reaped = session_id[j]
    BY <2>1 DEF IInv, SlotInv
  <2>3. CASE reaped = NoPid
    BY <2>2, <2>3 DEF WipeActive
  <2>4. CASE reaped # NoPid
    <3>1. forsaken' = forsaken \cup (ToWipe(reaped) \ {i})
      BY <2>4 DEF WipeActive
    <3>2. session_id[j] # reaped
      BY <2>1, <2>4, <3>1 DEF ToWipe
    <3>3. QED
      BY <2>2, <3>2
  <2>5. QED
    BY <2>3, <2>4
<1>9. SessionInv'
  BY <1>3 DEF IInv, SessionInv, procVars
<1>10. LateInv'
  <2>1. \A j \in Slot : active'[j] => active[j]
    BY <1>2
  <2>2. \A q \in Pid : pc[q] \in {"found", "clear"} => my_user_no[q] \in Slot
    BY DEF IInv, TypeOK, WithSlot
  <2>3. QED
    BY <1>3, <2>1, <2>2 DEF IInv, LateInv, procVars
<1>11. ListenerInv'
  <2>1. CASE reaped = NoPid
    BY <1>1, <1>2, <2>1 DEF WipeActive, ListenerInv
  <2>2. CASE reaped # NoPid
    BY <1>2, <2>2 DEF WipeActive, Done, ListenerInv
  <2>3. QED
    BY <2>1, <2>2
<1>12. HeldInv' /\ SummonInv' /\ MailboxInv' /\ NobodyMisled'
  BY <1>3, <1>6, FewerKeeps DEF IInv, NobodyMisled, procVars
<1>13. QED
  BY <1>5, <1>7, <1>8, <1>9, <1>10, <1>11, <1>12 DEF IInv

\* send_ipc_cmd: what was meant for the slot reaches whom it is meant for.
LEMMA SendCommandKeeps ==
  ASSUME IInv, TypeOK', SendCommand
  PROVE  IInv'
<1> USE DEF Go, slotVars, procVars, listenerVars, history
<1>1. ListInv' /\ Fewer
  BY ListKeeps DEF IInv, TypeOK, SendCommand, Untouched, InSlot, WithSlot
<1>2. SummonInv'
  BY <1>1, FewerKeeps DEF SendCommand
<1>3. HeldInv'
  BY DEF SendCommand, HeldInv
<1>4. MailboxInv'
  <2> SUFFICES ASSUME NEW q \in Pid, Untouched(q), pc[q] = "run", mailbox'[q] # NoMail
               PROVE  Meant(mailbox'[q], q)
    BY DEF MailboxInv, Meant, SendCommand, Untouched
  <2>1. CASE joined[q] /\ my_user_no[q] = held.slot
    <3>1. held # NoRef /\ Meant(held, q)
      BY <2>1 DEF IInv, HeldInv, SendCommand, NoRef
    <3>2. mailbox'[q].for = held.for /\ mailbox'[q].stale = held.stale
      BY <2>1 DEF SendCommand
    <3>3. QED
      BY <3>1, <3>2 DEF Meant
  <2>2. CASE ~(joined[q] /\ my_user_no[q] = held.slot)
    <3>1. mailbox'[q] = mailbox[q]
      BY <2>2 DEF SendCommand
    <3>2. QED
      BY <3>1 DEF IInv, MailboxInv
  <2>3. QED
    BY <2>1, <2>2
<1>5. NobodyMisled'
  BY DEF IInv, SendCommand, NobodyMisled
<1>6. QED
  BY <1>1, <1>2, <1>3, <1>4, <1>5 DEF IInv, ListInv

\* direct_load_level: so does the summons of a loader.
LEMMA LoaderSummonsKeeps ==
  ASSUME IInv, TypeOK', LoaderSummons
  PROVE  IInv'
<1> USE DEF Go, slotVars, procVars, listenerVars, history
<1>1. ListInv' /\ Fewer
  BY ListKeeps DEF IInv, TypeOK, LoaderSummons, Untouched, InSlot, WithSlot
<1>2. HeldInv' /\ MailboxInv'
  BY <1>1, FewerKeeps DEF LoaderSummons, HeldInv
<1>3. SummonInv'
  <2> SUFFICES ASSUME NEW q \in Pid, Untouched(q), summon'[my_user_no[q]] # NoMail
               PROVE  Meant(summon'[my_user_no[q]], q)
    BY DEF SummonInv, Meant, LoaderSummons, Untouched
  <2>1. my_user_no[q] \in Slot
    BY DEF IInv, TypeOK, Untouched, InSlot
  <2>2. CASE my_user_no[q] = held.slot
    <3>1. held # NoRef /\ Meant(held, q)
      BY <2>2 DEF IInv, HeldInv, LoaderSummons, NoRef
    <3>2. summon'[my_user_no[q]].for = held.for /\ summon'[my_user_no[q]].stale = held.stale
      BY <2>1, <2>2 DEF IInv, TypeOK, LoaderSummons
    <3>3. QED
      BY <3>1, <3>2 DEF Meant
  <2>3. CASE my_user_no[q] # held.slot
    <3>1. summon'[my_user_no[q]] = summon[my_user_no[q]]
      BY <2>1, <2>3 DEF IInv, TypeOK, LoaderSummons
    <3>2. QED
      BY <3>1 DEF IInv, SummonInv
  <2>4. QED
    BY <2>2, <2>3
<1>4. NobodyMisled'
  BY DEF IInv, LoaderSummons, NobodyMisled
<1>5. QED
  BY <1>1, <1>2, <1>3, <1>4 DEF IInv, ListInv

\* start_user, with a slot for the new session or without: who has a slot keeps it,
\* is superseded, or is gone.
LEMMA StartUserKeeps ==
  ASSUME IInv, TypeOK', NEW p \in Pid, NEW is_admin \in BOOLEAN, StartUser(p, is_admin)
  PROVE  IInv'
<1> DEFINE u == user_id[p]
           new == Min(Free(u))
           wiped == [i \in Slot |-> IF i \in Dead(u) THEN NoPid ELSE session_id[i]]
           full == Cardinality(Connected) >= MaxPlayers /\ ~is_admin
<1>1. u \in User /\ pc[p] = "login"
  BY DEF IInv, TypeOK, NameInv, StartUser
<1>2. /\ superseded' = superseded \cup Superseded(u)
      /\ UNCHANGED <<user_id, joined, mailbox, reaping, reaped, at, wiping, struck, misled>>
  BY DEF StartUser, listenerVars
<1>3. \A i \in Slot \ forsaken :
        active[i] /\ ~(wiping.slot = i /\ wiping.half) => session_id[i] # p
  BY <1>1 DEF IInv, SlotInv, WithSlot
\* The slots of others that are left active are not of that name, and their own.
<1>4. \A i \in Slot : Ended(u)[i] <=> active[i] /\ name[i] # u
  BY DEF Ended, Same
<1>5. /\ \A i \in Slot : Ended(u)[i] => wiped[i] = session_id[i]
      /\ \A i \in Slot : wiped[i] \in {session_id[i], NoPid}
      /\ \A i \in Slot : session_id[i] \in Pid /\ pc[session_id[i]] # "none" =>
           wiped[i] = session_id[i]
  BY <1>4 DEF Dead, Same, Gone, IInv, TypeOK
<1>6. \A q \in Pid : Untouched(q) /\ q \notin superseded' =>
        Ended(u)[my_user_no[q]] /\ my_user_no[q] \in Slot
  <2> SUFFICES ASSUME NEW q \in Pid, Untouched(q), q \notin superseded'
               PROVE  Ended(u)[my_user_no[q]] /\ my_user_no[q] \in Slot
    OBVIOUS
  <2>1. my_user_no[q] \in Slot /\ active[my_user_no[q]] /\ session_id[my_user_no[q]] = q
    BY DEF IInv, TypeOK, OwnerInv, SessionInv, Untouched, InSlot, WithSlot
  <2>2. my_user_no[q] \notin Dead(u)
    BY <2>1 DEF Dead, Gone, Untouched, InSlot, IInv, TypeOK
  <2>3. my_user_no[q] \notin Same(u)
    BY <1>2, <2>1, <2>2 DEF Superseded
  <2>4. QED
    BY <2>1, <2>3 DEF Ended
<1> HIDE DEF u, wiped
<1>7. CASE Free(u) = {} \/ full
  <2>1. /\ active' = Ended(u) /\ session_id' = wiped /\ pc' = [pc EXCEPT ![p] = "zombie"]
        /\ UNCHANGED <<name, summon, my_user_no, held, forsaken>>
    BY <1>7 DEF StartUser, Go, u, wiped
  <2>2. NameInv' /\ OneActivePerName'
    BY <1>1, <1>2, <1>4, <1>5, <2>1 DEF IInv, TypeOK, NameInv, OneActivePerName
  <2>3. SlotInv'
    BY <1>1, <1>2, <1>3, <1>4, <1>5, <2>1 DEF IInv, TypeOK, SlotInv
  <2>4. SessionInv' /\ LateInv'
    <3>1. \A q \in Pid : pc'[q] # "zombie" => pc'[q] = pc[q]
      BY <2>1 DEF IInv, TypeOK
    <3>2. SessionInv'
      BY <1>2, <1>5, <2>1, <3>1 DEF IInv, TypeOK, SessionInv, InSlot, WithSlot
    <3>3. LateInv'
      BY <1>2, <1>4, <1>5, <2>1, <3>1 DEF IInv, TypeOK, LateInv, WithSlot
    <3>4. QED
      BY <3>2, <3>3
  <2>5. OwnerInv'
    BY <1>1, <1>2, <1>6, <2>1 DEF IInv, TypeOK, OwnerInv, Untouched, InSlot
  <2>6. ListenerInv'
    BY <1>1, <1>2, <1>4, <1>5, <2>1 DEF IInv, TypeOK, ListenerInv
  <2>7. Fewer
    BY <1>1, <1>2, <2>1 DEF IInv, TypeOK, Fewer, Untouched, InSlot
  <2>8. HeldInv' /\ SummonInv' /\ MailboxInv'
    BY <1>1, <1>2, <2>1, <2>7, FewerKeeps DEF IInv, TypeOK
  <2>9. QED
    BY <1>2, <2>2, <2>3, <2>4, <2>5, <2>6, <2>8 DEF IInv, NobodyMisled
<1>8. CASE ~(Free(u) = {} \/ full)
  <2>1. /\ name' = [name EXCEPT ![new] = u]
        /\ active' = [Ended(u) EXCEPT ![new] = TRUE]
        /\ session_id' = [wiped EXCEPT ![new] = p]
        /\ summon' = [summon EXCEPT ![new] = NoMail]
        /\ my_user_no' = [my_user_no EXCEPT ![p] = new]
        /\ held' = IF held.slot = new THEN [held EXCEPT !.stale = TRUE] ELSE held
        /\ forsaken' = forsaken \ {new}
        /\ pc' = [pc EXCEPT ![p] = "start"]
    BY <1>8 DEF StartUser, Go, Fresh, u, wiped
  <2>2. new \in Slot /\ new \in Free(u)
    BY <1>8, FreeIsSlot
  <2> HIDE DEF new, full
  \* Nobody who is there has his session in the new slot.
  <2>3. /\ ~Ended(u)[new]
        /\ \A q \in Pid : pc[q] \in InSlot \cup {"clear"} /\ q \notin superseded \cup struck =>
             my_user_no[q] # new
    <3>1. CASE ~active[new] /\ session_id[new] = NoPid
      BY <2>2, <3>1 DEF Ended, IInv, SessionInv
    <3>2. CASE new \in Same(u) /\ Gone(session_id[new])
      BY <2>2, <3>2 DEF Ended, Gone, IInv, SessionInv, InSlot
    <3>3. QED
      BY <2>2, <3>1, <3>2 DEF Free, Dead
  <2>4. Ended(u) \in [Slot -> BOOLEAN] /\ wiped \in [Slot -> Pid \cup {NoPid}]
    BY DEF Ended, wiped, IInv, TypeOK
  <2>5. NameInv' /\ OneActivePerName'
    BY <1>1, <1>2, <1>4, <2>1, <2>2, <2>4 DEF IInv, TypeOK, NameInv, OneActivePerName
  <2>6. LateInv'
    <3> SUFFICES ASSUME NEW q \in Pid
                 PROVE  /\ pc'[q] \in {"found", "late"} => q \in superseded' \cup struck'
                        /\ pc'[q] \in {"found", "clear"} =>
                             ~(active'[my_user_no'[q]] /\ session_id'[my_user_no'[q]] = q)
      BY DEF LateInv
    <3>1. CASE q = p
      BY <2>1, <3>1 DEF IInv, TypeOK
    <3>2. CASE q # p
      <4>1. pc'[q] = pc[q] /\ my_user_no'[q] = my_user_no[q]
        BY <2>1, <3>2 DEF IInv, TypeOK
      <4>2. pc[q] \in {"found", "clear"} => my_user_no[q] \in Slot
        BY DEF IInv, TypeOK, WithSlot
      <4>3. \A i \in Slot : active'[i] /\ session_id'[i] = q => active[i] /\ session_id[i] = q
        BY <1>4, <1>5, <2>1, <2>2, <2>4, <3>2
      <4>4. QED
        BY <1>2, <4>1, <4>2, <4>3 DEF IInv, LateInv
    <3>3. QED
      BY <3>1, <3>2
  <2>7. SlotInv'
    <3> SUFFICES ASSUME NEW i \in Slot, i \notin forsaken', active'[i],
                        ~(wiping.slot = i /\ wiping.half)
                 PROVE  /\ session_id'[i] \in Pid
                        /\ \/ /\ pc'[session_id'[i]] \in WithSlot \cup {"zombie"}
                              /\ my_user_no'[session_id'[i]] = i
                              /\ user_id'[session_id'[i]] = name'[i]
                           \/ pc'[session_id'[i]] = "none" /\ reaping' /\ reaped' = session_id'[i]
      BY <1>2 DEF SlotInv
    <3>1. CASE i = new
      BY <1>1, <1>2, <2>1, <2>2, <2>4, <3>1 DEF IInv, TypeOK, WithSlot, u
    <3>2. CASE i # new
      <4>1. /\ active[i] /\ session_id'[i] = session_id[i] /\ name'[i] = name[i]
            /\ i \notin forsaken
        BY <1>4, <1>5, <2>1, <2>2, <2>4, <3>2 DEF IInv, TypeOK
      <4>2. session_id[i] # p
        BY <1>3, <4>1
      <4>3. QED
        BY <1>2, <2>1, <4>1, <4>2 DEF IInv, TypeOK, SlotInv
    <3>3. QED
      BY <3>1, <3>2
  <2>8. SessionInv'
    <3> SUFFICES ASSUME NEW q \in Pid, pc'[q] \in InSlot \cup {"clear"},
                        q \notin superseded \cup struck
                 PROVE  session_id'[my_user_no'[q]] = q
      BY <1>2 DEF SessionInv
    <3>1. CASE q = p
      BY <2>1, <2>2, <2>4, <3>1 DEF IInv, TypeOK
    <3>2. CASE q # p
      <4>1. /\ pc[q] \in InSlot \cup {"clear"} /\ my_user_no'[q] = my_user_no[q]
            /\ my_user_no[q] \in Slot
        BY <2>1, <3>2 DEF IInv, TypeOK, InSlot, WithSlot
      <4>2. my_user_no[q] # new /\ session_id[my_user_no[q]] = q /\ pc[q] # "none"
        BY <2>3, <4>1 DEF IInv, SessionInv, InSlot
      <4>3. QED
        BY <1>5, <2>1, <2>2, <2>4, <4>1, <4>2
    <3>3. QED
      BY <3>1, <3>2
  <2>9. OwnerInv'
    <3> SUFFICES ASSUME NEW q \in Pid, Untouched(q)'
                 PROVE  active'[my_user_no'[q]] /\ name'[my_user_no'[q]] = user_id[q]
      BY <1>2 DEF OwnerInv
    <3>1. CASE q = p
      BY <2>1, <2>2, <2>4, <3>1 DEF IInv, TypeOK, u
    <3>2. CASE q # p
      <4>1. Untouched(q) /\ q \notin superseded' /\ my_user_no'[q] = my_user_no[q]
        BY <1>2, <2>1, <3>2 DEF IInv, TypeOK, Untouched, InSlot
      <4>2. my_user_no[q] # new /\ Ended(u)[my_user_no[q]] /\ my_user_no[q] \in Slot
        BY <1>6, <2>3, <4>1
      <4>3. QED
        BY <1>2, <2>1, <2>2, <2>4, <4>1, <4>2 DEF IInv, TypeOK, OwnerInv
    <3>3. QED
      BY <3>1, <3>2
  <2>10. ListenerInv'
    <3>1. wiping # NoWipe => wiping.session # p
      BY <1>1 DEF IInv, ListenerInv
    <3>2. reaped # NoPid => reaped # p
      BY <1>1 DEF IInv, ListenerInv
    <3>3. \A i \in Slot : active'[i] /\ session_id'[i] # p =>
            active[i] /\ session_id'[i] = session_id[i]
      BY <1>4, <1>5, <2>1, <2>2, <2>4
    <3>4. \A q \in Pid \ {p} : pc'[q] = pc[q]
      BY <2>1 DEF IInv, TypeOK
    <3>5. wiping # NoWipe => wiping.session \in Pid
      BY DEF IInv, TypeOK
    <3>6. QED
      BY <1>1, <1>2, <2>1, <3>1, <3>2, <3>3, <3>4, <3>5 DEF IInv, TypeOK, ListenerInv
  <2>11. \A q \in Pid \ {p} : Untouched(q)' =>
           Untouched(q) /\ my_user_no'[q] = my_user_no[q] /\ my_user_no[q] # new
    BY <1>2, <2>1, <2>3 DEF IInv, TypeOK, Untouched, InSlot
  <2>12. HeldInv'
    <3> SUFFICES ASSUME NEW q \in Pid, Untouched(q)', held' # NoRef, held'.slot = my_user_no'[q]
                 PROVE  Meant(held, q)'
      BY DEF HeldInv
    <3>1. CASE held.slot = new
      <4>1. held \in Ref
        BY <2>2, <3>1 DEF IInv, TypeOK, NoRef, NoSlot
      <4>2. held'.stale
        BY <2>1, <3>1, <4>1 DEF Ref
      <4>3. QED
        BY <4>2 DEF Meant
    <3>2. CASE held.slot # new
      <4>1. held' = held /\ q # p
        BY <2>1, <3>2 DEF IInv, TypeOK
      <4>2. QED
        BY <1>2, <2>11, <4>1 DEF IInv, HeldInv, Meant
    <3>3. QED
      BY <3>1, <3>2
  <2>13. SummonInv'
    <3> SUFFICES ASSUME NEW q \in Pid, Untouched(q)', summon'[my_user_no'[q]] # NoMail
                 PROVE  Meant(summon[my_user_no[q]], q)'
      BY DEF SummonInv, Meant
    <3>1. q # p
      BY <2>1, <2>2 DEF IInv, TypeOK
    <3>2. /\ Untouched(q) /\ my_user_no'[q] = my_user_no[q]
          /\ my_user_no[q] # new /\ my_user_no[q] \in Slot
      BY <2>11, <3>1 DEF IInv, TypeOK, Untouched, InSlot, WithSlot
    <3>3. summon'[my_user_no'[q]] = summon[my_user_no[q]]
      BY <2>1, <3>2 DEF IInv, TypeOK
    <3>4. QED
      BY <1>2, <3>2, <3>3 DEF IInv, SummonInv, Meant
  <2>14. MailboxInv'
    BY <1>2, <2>1, <2>11 DEF IInv, TypeOK, MailboxInv, Meant
  <2>15. QED
    BY <1>2, <2>5, <2>6, <2>7, <2>8, <2>9, <2>10, <2>12, <2>13, <2>14 DEF IInv, NobodyMisled
<1>9. QED
  BY <1>7, <1>8

\* Nobody is logged in when the server starts.
LEMMA InitInv == Init => IInv
<1> SUFFICES ASSUME Init PROVE IInv
  OBVIOUS
<1>1. TypeOK
  <2>1. /\ name \in [Slot -> User \cup {NoUser}]
        /\ active \in [Slot -> BOOLEAN]
        /\ session_id \in [Slot -> Pid \cup {NoPid}]
        /\ summon \in [Slot -> Mail \cup {NoMail}]
    BY DEF Init
  <2>2. /\ pc \in [Pid -> {"none", "login", "zombie"} \cup WithSlot]
        /\ user_id \in [Pid -> User \cup {NoUser}]
        /\ my_user_no \in [Pid -> Slot \cup {NoSlot}]
        /\ joined \in [Pid -> BOOLEAN]
        /\ mailbox \in [Pid -> Mail \cup {NoMail}]
        /\ \A p \in Pid : pc[p] = "none"
    BY DEF Init
  <2>3. /\ reaping \in BOOLEAN /\ reaped \in Pid \cup {NoPid}
        /\ wiping \in [slot : Slot, session : Pid, half : BOOLEAN] \cup {NoWipe}
        /\ held \in Ref \cup {NoRef}
    BY DEF Init
  <2>5. at \in 0 .. Slots
    <3>1. 0 \in 0 .. Slots
      OBVIOUS
    <3>2. QED
      BY <3>1 DEF Init
  <2>4. /\ forks \in 0 .. MaxForks
        /\ superseded \in SUBSET Pid /\ struck \in SUBSET Pid
        /\ misled \in SUBSET {"kick", "summon"}
        /\ orphans \in SUBSET Pid /\ forsaken \in SUBSET Slot
    BY DEF Init
  <2>6. QED
    BY <2>1, <2>2, <2>3, <2>4, <2>5 DEF TypeOK, WithSlot
<1>2. OneActivePerName /\ NobodyMisled /\ NameInv /\ SlotInv
  BY DEF Init, OneActivePerName, NobodyMisled, NameInv, SlotInv
<1>3. \A p \in Pid : pc[p] \notin InSlot \cup {"found", "late", "clear"}
  BY DEF Init, InSlot
<1>4. SessionInv /\ OwnerInv /\ LateInv /\ HeldInv /\ SummonInv /\ MailboxInv
  BY <1>3 DEF SessionInv, OwnerInv, LateInv, HeldInv, SummonInv, MailboxInv, Untouched
<1>5. ListenerInv
  BY DEF Init, ListenerInv
<1>6. QED
  BY <1>1, <1>2, <1>4, <1>5 DEF IInv

\* Every step keeps all of it.
LEMMA StepInv == IInv /\ [Next]_vars => IInv'
<1>1. ASSUME IInv, Next PROVE IInv'
  <2>1. TypeOK'
    BY <1>1, TypeStep
  <2>2. CASE AllEnded
    BY <1>1, <2>2 DEF AllEnded, vars, slotVars, procVars, listenerVars, history, IInv, TypeOK,
           OneActivePerName,
       NobodyMisled, NameInv, SlotInv, SessionInv, OwnerInv, LateInv, ListenerInv, HeldInv,
       SummonInv,
       MailboxInv, Meant, Untouched, Gone
  <2>3. QED
    BY <1>1, <2>1, <2>2, AcceptKeeps, RejectLoginKeeps, StartUserKeeps, JoinQueueKeeps,
           FoundInactiveKeeps,
       ClearOnNewSessionKeeps, StopActiveKeeps, StopSessionKeeps, ReapOrphanKeeps,
       StartAgainKeeps,
       WipeActiveKeeps, TakeSummonKeeps, ProcessCommandKeeps, SkipCommandsKeeps, LogoutKeeps,
       StopUserKeeps, DieKeeps,
       ReapKeeps, ForkLoaderKeeps, FindPlayerKeeps, SummonKeeps, RestartKeeps, FindSessionKeeps,
       WipeSessionKeeps, SendCommandKeeps, LoaderSummonsKeeps DEF Next
<1>2. ASSUME IInv, UNCHANGED vars PROVE IInv'
  BY <1>2 DEF vars, slotVars, procVars, listenerVars, history, IInv, TypeOK, OneActivePerName,
     NobodyMisled, NameInv, SlotInv, SessionInv, OwnerInv, LateInv, ListenerInv, HeldInv, SummonInv,
     MailboxInv, Meant, Untouched, Gone
<1>3. QED
  BY <1>1, <1>2

\* Whatever processes are forked, take over from each other, die, are reaped and have
\* their slots wiped late (start_user, stop_user, delete_session_id, check_user_summon),
\* for any number of processes, users and slots: the parts of IInv hold.
THEOREM Invariant == Spec => []IInv
<1>1. Init => IInv
  BY InitInv
<1>2. IInv /\ [Next]_vars => IInv'
  BY StepInv
<1>3. QED
  BY <1>1, <1>2, PTL DEF Spec

\* start_user, stop_user and the listener leave the client list, the processes and
\* what is on its way to them as their types say; a process with a slot has a number.
THEOREM TypeInvariant == Spec => []TypeOK
<1>1. IInv => TypeOK
  BY DEF IInv
<1>2. QED
  BY <1>1, Invariant, PTL

\* start_user ends all sessions of the name it starts one for: nobody is in the list
\* twice.
THEOREM OnceInTheList == Spec => []OneActivePerName
<1>1. IInv => OneActivePerName
  BY DEF IInv
<1>2. QED
  BY <1>1, Invariant, PTL

\* A session that no newer one took over from (start_user) and whose slot nobody
\* wiped late (stop_user, check_user_summon, delete_session_id) has its slot, under
\* its name.
THEOREM SlotIsOwned == Spec => []RunningOwnsSlot
<1>1. IInv => RunningOwnsSlot
  BY DEF IInv, RunningOwnsSlot, OwnerInv, SessionInv, Untouched, InSlot
<1>2. QED
  BY <1>1, Invariant, PTL

\* An active slot has a process, or delete_session_id is about to wipe it: its
\* process is the one the listener has just reaped.  Not so for the slots that are
\* forsaken: those of clients of an earlier listener that init has reaped, one that
\* has the process id of such a client and stands before it, and one that another
\* process cleared late, without system_lock, when start_user had given it away.
THEOREM GhostsGo == Spec => []NoGhosts
<1>1. IInv => NoGhosts
  BY DEF IInv, NoGhosts, SlotInv, Gone, WithSlot
<1>2. QED
  BY <1>1, Invariant, PTL

\* A kick or a summons found its slot by name, or had it from the client that forked
\* a loader, and is used by number: it reaches that user, or one who has taken the
\* slot over while it was under way (send_ipc_cmd, direct_load_level).
THEOREM MailIsMeant == Spec => []NobodyMisled
<1>1. IInv => NobodyMisled
  BY DEF IInv
<1>2. QED
  BY <1>1, Invariant, PTL

=============================================================================
