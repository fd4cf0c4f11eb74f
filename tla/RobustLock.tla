----------------------------- MODULE RobustLock -----------------------------
(***************************************************************************)
(* One mutex for all processes, in a file of its own (pthread_mutex.c).    *)
(* lock_start_try maps the file, or makes one under a name of its own and  *)
(* puts it in place by link().  A file that cannot be used is removed and  *)
(* made again, whoever has it mapped.                                      *)
(***************************************************************************)
EXTENDS Integers, FiniteSets

CONSTANTS
  Proc,
  MaxTries,   \* 20: rounds of lock_start_try; the bound of 100 on files made is left out
  MaxFiles,   \* a bound on the files made, for TLC
  Nobody

\* What the proofs need of them
LockConstants ==
  /\ Nobody \notin Proc
  /\ MaxTries \in Nat /\ MaxFiles \in Nat \ {0}

File == 1 .. MaxFiles
NoFile == 0

VARIABLES
  name,       \* the file the name stands for
  sound,      \* per file: its magic number and its mutex are there
  owner,      \* per file: the process that holds its mutex
  dead,       \* per file: its holder has died
  files,      \* how many files there have been
  pc, fd,     \* per process: where it is, and the file it has opened or made
  lock,       \* ln->lock: the file it has mapped
  have_lock, ecount,
  lost        \* history: a sound file has been removed

fileVars == <<name, sound, owner, dead, files>>
lockVars == <<fileVars, pc, fd, lock, have_lock, ecount, lost>>

LockTypeOK ==
  /\ name \in File \cup {NoFile}
  /\ sound \in [File -> BOOLEAN] /\ dead \in [File -> BOOLEAN]
  /\ owner \in [File -> Proc \cup {Nobody}]
  /\ files \in 0 .. MaxFiles
  /\ pc \in [Proc -> {"out", "open", "check", "remove", "make", "link", "in"}]
  /\ fd \in [Proc -> File \cup {NoFile}] /\ lock \in [Proc -> File \cup {NoFile}]
  /\ have_lock \in [Proc -> BOOLEAN]
  /\ ecount \in [Proc -> 0 .. MaxTries + MaxFiles + 1]
  /\ \A p \in Proc : have_lock[p] => lock[p] # NoFile

\* There is no file yet, or one that somebody has spoilt.
LockInit ==
  /\ files \in {0, 1} /\ name = files
  /\ sound = [f \in File |-> FALSE]
  /\ owner = [f \in File |-> Nobody] /\ dead = [f \in File |-> FALSE]
  /\ pc = [p \in Proc |-> "out"]
  /\ fd = [p \in Proc |-> NoFile] /\ lock = [p \in Proc |-> NoFile]
  /\ have_lock = [p \in Proc |-> FALSE]
  /\ ecount = [p \in Proc |-> 0]
  /\ lost = FALSE

Set(f, p, v) == [f EXCEPT ![p] = v]

----------------------------------------------------------------------------
(* lock_start_try *)

LockStart(p) ==
  /\ pc[p] = "out"
  /\ pc' = Set(pc, p, "open")
  /\ ecount' = Set(ecount, p, 0)
  /\ UNCHANGED <<fileVars, fd, lock, have_lock, lost>>

Open(p) ==
  /\ pc[p] = "open"
  /\ fd' = Set(fd, p, name)
  /\ pc' = Set(pc, p, IF name = NoFile THEN "make" ELSE "check")
  /\ UNCHANGED <<fileVars, lock, have_lock, ecount, lost>>

\* As Recovered below, had it been made consistent and kept.
RecoveredHeld(f) == owner[f]

\* The mutex is tried and given up again; if its holder has died it is free for
\* the others from now on.
Recovered(f) == IF dead[f] THEN Nobody ELSE owner[f]
MapFile(p) ==
  /\ pc[p] = "check" /\ sound[fd[p]]
  /\ lock' = Set(lock, p, fd[p])
  /\ owner' = Set(owner, fd[p], Recovered(fd[p]))
  /\ dead' = Set(dead, fd[p], FALSE)
  /\ fd' = Set(fd, p, NoFile)
  /\ pc' = Set(pc, p, "in")
  /\ UNCHANGED <<name, sound, files, have_lock, ecount, lost>>

\* Too short, or with a bad magic number
Broken(p) ==
  /\ pc[p] = "check" /\ ~sound[fd[p]]
  /\ ecount' = Set(ecount, p, ecount[p] + 1)
  /\ fd' = Set(fd, p, NoFile)
  /\ pc' = Set(pc, p, IF ecount[p] + 1 > MaxTries THEN "out" ELSE "remove")
  /\ UNCHANGED <<fileVars, lock, have_lock, lost>>

\* What goes is whatever the name stands for by now.
Remove(p) ==
  /\ pc[p] = "remove"
  /\ lost' = (lost \/ (name # NoFile /\ sound[name]))
  /\ name' = NoFile
  /\ pc' = Set(pc, p, "open")
  /\ UNCHANGED <<sound, owner, dead, files, fd, lock, have_lock, ecount>>

\* The file is written under a name of its own; that a write was short is
\* stored in a second rv and never seen.
Make(p, written) ==
  /\ pc[p] = "make"
  /\ files < MaxFiles
  /\ files' = files + 1
  /\ sound' = Set(sound, files + 1, written)
  /\ fd' = Set(fd, p, files + 1)
  /\ ecount' = Set(ecount, p, ecount[p] + 1)
  /\ pc' = Set(pc, p, "link")
  /\ UNCHANGED <<name, owner, dead, lock, have_lock, lost>>

\* As Linked below, had it been put in place by rename().
LinkedOver(f) == f

\* link() does not replace a file that is there.
Linked(f) == IF name = NoFile THEN f ELSE name

\* After an error, and enough of them, there is no other round.
Link(p) ==
  /\ pc[p] = "link"
  /\ name' = Linked(fd[p])
  /\ fd' = Set(fd, p, NoFile)
  /\ pc' = Set(pc, p, IF name # NoFile /\ ecount[p] > MaxTries THEN "out" ELSE "open")
  /\ UNCHANGED <<sound, owner, dead, files, lock, have_lock, ecount, lost>>

----------------------------------------------------------------------------
(* lock_fn, unlock_fn, lock_stop, and the end of a process *)

\* A robust mutex is had from a dead holder too: EOWNERDEAD.
Available(f) == owner[f] = Nobody \/ dead[f]

LockFn(p) ==
  /\ pc[p] = "in" /\ ~have_lock[p]
  /\ Available(lock[p])
  /\ owner' = Set(owner, lock[p], p)
  /\ dead' = Set(dead, lock[p], FALSE)
  /\ have_lock' = Set(have_lock, p, TRUE)
  /\ UNCHANGED <<name, sound, files, pc, fd, lock, ecount, lost>>

Released(p) == [f \in File |-> IF have_lock[p] /\ f = lock[p] THEN Nobody ELSE owner[f]]

UnlockFn(p) ==
  /\ pc[p] = "in" /\ have_lock[p]
  /\ owner' = Released(p)
  /\ have_lock' = Set(have_lock, p, FALSE)
  /\ UNCHANGED <<name, sound, dead, files, pc, fd, lock, ecount, lost>>

\* lock_stop, and the first half of lock_restart: a lock that is held is given up.
LockStop(p) ==
  /\ pc[p] = "in"
  /\ owner' = Released(p)
  /\ have_lock' = Set(have_lock, p, FALSE)
  /\ lock' = Set(lock, p, NoFile)
  /\ pc' = Set(pc, p, "out")
  /\ UNCHANGED <<name, sound, dead, files, fd, ecount, lost>>

\* A file that was being made stays behind under its own name; the next process of
\* that id removes it.
Die(p) ==
  /\ pc[p] # "out"
  /\ dead' = [f \in File |-> dead[f] \/ (have_lock[p] /\ f = lock[p])]
  /\ have_lock' = Set(have_lock, p, FALSE)
  /\ lock' = Set(lock, p, NoFile)
  /\ fd' = Set(fd, p, NoFile)
  /\ pc' = Set(pc, p, "out")
  /\ UNCHANGED <<name, sound, owner, files, ecount, lost>>

LockNext == \E p \in Proc :
  \/ LockStart(p) \/ Open(p) \/ MapFile(p) \/ Broken(p) \/ Remove(p)
  \/ \E written \in BOOLEAN : Make(p, written)
  \/ Link(p) \/ LockFn(p) \/ UnlockFn(p) \/ LockStop(p) \/ Die(p)

LockSpec == LockInit /\ [][LockNext]_lockVars

----------------------------------------------------------------------------
(* Properties *)

\* Whatever races there are to make the file, and whoever dies with it, all that
\* have it mapped use one mutex, and one of them has it; until a sound file is
\* removed by a process that had looked at a broken one of the same name
\* (pthread_mutex.c:156).
OneMutex ==
  \/ lost
  \/ \A p, q \in Proc : p # q /\ lock[p] # NoFile /\ lock[q] # NoFile =>
       lock[p] = lock[q] /\ ~(have_lock[p] /\ have_lock[q])

\* A process that dies with the mutex does not take it along: whoever holds a
\* mapped mutex is alive and knows it, or it can be had (lock_fn, EOWNERDEAD).
NeverStuck ==
  \A p \in Proc : lock[p] # NoFile =>
    \/ Available(lock[p])
    \/ have_lock[owner[lock[p]]] /\ lock[owner[lock[p]]] = lock[p]

----------------------------------------------------------------------------
(* What is needed to prove them: LockIInv is inductive *)

\* Files are numbered as they are made, and a process looks at files there are.
FileInv ==
  /\ name <= files
  /\ \A f \in File : f > files => ~sound[f]
  /\ \A p \in Proc :
       /\ pc[p] \in {"check", "link"} => fd[p] \in 1 .. files
       /\ pc[p] = "in" <=> lock[p] # NoFile
       /\ lock[p] # NoFile => lock[p] <= files /\ sound[lock[p]]

\* A file is made at most once in a round.
CountInv == \A p \in Proc : pc[p] # "out" => ecount[p] <= MaxTries + files

\* Until a sound file is removed there is one: the one the name stands for.
NameInv ==
  lost \/ \A p \in Proc :
    /\ pc[p] = "check" /\ sound[fd[p]] => fd[p] = name
    /\ lock[p] # NoFile => lock[p] = name

\* A mutex and its holder know of each other, until the holder dies.
HolderInv ==
  /\ \A p \in Proc : have_lock[p] => lock[p] # NoFile /\ owner[lock[p]] = p /\ ~dead[lock[p]]
  /\ \A f \in File : owner[f] # Nobody /\ ~dead[f] => have_lock[owner[f]] /\ lock[owner[f]] = f

LockIInv == LockTypeOK /\ FileInv /\ CountInv /\ NameInv /\ HolderInv
=============================================================================
