------------------------------ MODULE AntiSpam ------------------------------
(***************************************************************************)
(* How often a client may do a thing (antispam.c): Count times in Time, and *)
(* as much again for a connection that was late.  Time is in milliseconds, *)
(* of which there are no fewer than Count; bans are in whole seconds.  All *)
(* times here are relative to now, so that time goes on for ever.  The     *)
(* client is not trusted and the limit is not 0: then nothing is counted.  *)
(***************************************************************************)
EXTENDS Integers, FiniteSetsExt

CONSTANTS
  Count, Time,   \* spam_count, and spam_time in milliseconds
  Bans,          \* values of spam_ban
  Second,        \* 1000
  MaxDebt        \* a bound for TLC: how far a client goes on that is refused

VARIABLES
  spam_ban,
  msec,                  \* now, within its second
  age,                   \* of ms_start; a client that is ahead has it in the future
  events, cheater,       \* how often it was fast, counted to 3
  banned,                \* seconds to banned_til, 0 if there is none
  refused,               \* the last event was
  passed,                \* history: events not refused, now and so many ticks back
  over                   \* history: more than Count in a Time, or banned, since nothing
                         \* was outstanding

spamVars == <<spam_ban, msec, age, events, cheater, banned, refused, passed, over>>

\* What the proofs need of the constants
SpamConstants ==
  /\ Count \in Nat \ {0} /\ Time \in Nat /\ Count <= Time
  /\ Bans \subseteq Nat /\ Second \in Nat \ {0} /\ MaxDebt \in Nat

Recent == 0 .. Time - 1
Total == passed[Time - 1]

SpamInit ==
  /\ spam_ban \in Bans
  /\ msec = 0
  /\ age = 0 /\ events = 0 /\ cheater = 0 /\ banned = 0
  /\ refused = FALSE /\ over = FALSE
  /\ passed = [a \in Recent |-> 0]

\* ms_deadline - ms_now
Ahead == (events * Time) \div Count - age

\* A millisecond goes by.
Tick ==
  /\ msec' = (msec + 1) % Second
  /\ age' = IF Ahead > 0 THEN age + 1 ELSE age
  /\ banned' = IF msec' = 0 THEN Max({0, banned - 1}) ELSE banned
  /\ passed' = [a \in Recent |-> IF a = 0 THEN 0 ELSE passed[a - 1]]
  /\ UNCHANGED <<spam_ban, events, cheater, refused, over>>

\* What the client has done, in the history.
Happened(late) ==
  /\ refused' = (late \/ banned > 0)
  /\ passed' = [a \in Recent |-> IF refused' THEN passed[a] ELSE passed[a] + 1]
  /\ UNCHANGED <<spam_ban, msec>>

\* "nothing outstanding."
EventAlone ==
  /\ Ahead <= 0
  /\ age' = 0 /\ events' = 1 /\ cheater' = 0
  /\ Happened(FALSE)
  /\ over' = (banned > 0)
  /\ UNCHANGED banned

\* A mutation: the events are taken off, and the time they stand for is not.
SameStart(a) == a

\* Count events are taken off, with the time they stand for.
StartMoved(a) == a - Time

\* At least for spam_ban, and until the deadline is over.
Banned(b, ahead) == Max({IF b = 0 THEN spam_ban ELSE b, (msec + ahead) \div Second})

\* Refused if it is a Time ahead, or has been faster than the limit for three of them.
Event ==
  /\ Ahead > 0 /\ Ahead <= MaxDebt
  /\ LET full == events >= Count
         fast == (Ahead * Count) \div Time > 3 IN
     /\ events' = IF full THEN events - Count + 1 ELSE events + 1
     /\ age' = IF full THEN StartMoved(age) ELSE age
     /\ cheater' = IF full /\ fast THEN Min({3, cheater + 1}) ELSE cheater
     /\ LET late == Ahead >= Time \/ cheater' >= 3 IN
        /\ Happened(late)
        /\ banned' = IF late THEN Banned(banned, Ahead) ELSE banned
  /\ over' = (over \/ Total + 1 > Count)

SpamNext == Tick \/ EventAlone \/ Event

SpamSpec == SpamInit /\ [][SpamNext]_spamVars

----------------------------------------------------------------------------
(* Properties *)

SpamTypeOK ==
  /\ spam_ban \in Nat /\ msec \in 0 .. Second - 1
  /\ age \in Int /\ events \in Nat /\ cheater \in 0 .. 3 /\ banned \in Nat
  /\ refused \in BOOLEAN /\ passed \in [Recent -> Nat] /\ over \in BOOLEAN

\* What an event takes of the time when nothing is outstanding: whole milliseconds
Share == Time \div Count

\* A client that never does more than Count things in any Time is never refused, and nobody
\* gets more in a Time than Count at once, and one more each Share: "If you stay below the rate
\* you have spam_time seconds for your connection lag to sort itself out. But if you stay
\* faster it'll trigger."  This is at most twice Count, if Count divides Time.
AsAllowed ==
  /\ refused => over
  /\ (Total - Count - 1) * Share < Time - 1

----------------------------------------------------------------------------
(* What is needed to prove it: SpamIInv is inductive *)

\* What has been done is paid for as time goes by, Count a tick, and an event costs Time.
Debt == events * Time - age * Count

\* Those of a longer time are those of a shorter one, and others.
PassedInv == \A a, b \in Recent : a <= b => passed[a] <= passed[b]

\* Each event has put off the deadline by its share at least.
ShareInv == Debt >= 0 /\ \A a \in Recent : Share * passed[a] <= Ahead + a

\* Back to when nothing was outstanding each event has cost all of its Time, and only before
\* that a bit less.
CostInv ==
  \A a \in Recent : \E b \in 0 .. a :
    /\ Time * passed[b] <= Debt + Count * b
    /\ Share * (passed[a] - passed[b]) <= a - b

\* Who has kept to the limit has done at most Count things, all of which are remembered.
KeptInv ==
  ~over =>
    /\ ~refused /\ cheater = 0 /\ banned = 0
    /\ age >= 0 /\ events <= Count
    /\ Ahead > 0 => age < Time /\ events <= passed[age]

SpamIInv == SpamTypeOK /\ PassedInv /\ ShareInv /\ CostInv /\ KeptInv /\ AsAllowed
=============================================================================
