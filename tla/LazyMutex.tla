------------------------------- MODULE LazyMutex -------------------------------
(***************************************************************************)
(* The registry's mutex (script_scheduler.cpp, enter() and leave()). It is *)
(* created by the first call that needs it: the pointer is read without a  *)
(* lock, a mutex is created, and a critical section installs it unless     *)
(* another task has done so by then; the one not needed is deleted.        *)
(*                                                                         *)
(* A task creates a mutex at most once (the pointer, once set, stays set), *)
(* so the mutexes are named by the task that creates them.                 *)
(***************************************************************************)
CONSTANTS Client, None

ASSUME ClientAssumption == None \notin Client

VARIABLES
    lock,     \* the pointer: a mutex, or None
    exists,   \* exists[m]: mutex m is created and not deleted
    holder,   \* holder[m]: who holds mutex m
    pc        \* pc[c]: where client c is

vars == <<lock, exists, holder, pc>>

\* Types: `lock` points to a mutex, a mutex is held by a task.
TypeOK ==
    /\ lock \in Client \cup {None}
    /\ exists \in [Client -> BOOLEAN]
    /\ holder \in [Client -> Client \cup {None}]
    /\ pc \in [Client -> {"out", "create", "install", "drop", "take", "in"}]

Init ==
    /\ lock = None
    /\ exists = [m \in Client |-> FALSE]
    /\ holder = [m \in Client |-> None]
    /\ pc = [c \in Client |-> "out"]

Goes(c, here, there) == pc[c] = here /\ pc' = [pc EXCEPT ![c] = there]

\* enter(): the first look at the pointer, outside any lock.
Look(c) ==
    /\ Goes(c, "out", IF lock = None THEN "create" ELSE "take")
    /\ UNCHANGED <<lock, exists, holder>>

Create(c) ==
    /\ Goes(c, "create", "install")
    /\ exists' = [exists EXCEPT ![c] = TRUE]
    /\ UNCHANGED <<lock, holder>>

\* Mutants: what is stored is whether the creation worked; the second look is
\* missing; the mutex not needed is not deleted.
InstallFlag(c) ==
    /\ Goes(c, "install", IF lock = None THEN "take" ELSE "drop")
    /\ lock' = IF lock = None THEN exists[c] ELSE lock
    /\ UNCHANGED <<exists, holder>>

InstallBlindly(c) ==
    /\ Goes(c, "install", "take")
    /\ lock' = c
    /\ UNCHANGED <<exists, holder>>

InstallNoDrop(c) ==
    /\ Goes(c, "install", "take")
    /\ lock' = IF lock = None THEN c ELSE lock
    /\ UNCHANGED <<exists, holder>>

\* portENTER_CRITICAL(&lockInit): the second look.
Install(c) ==
    /\ Goes(c, "install", IF lock = None THEN "take" ELSE "drop")
    /\ lock' = IF lock = None THEN c ELSE lock
    /\ UNCHANGED <<exists, holder>>

Drop(c) ==
    /\ Goes(c, "drop", "take")
    /\ exists' = [exists EXCEPT ![c] = FALSE]
    /\ UNCHANGED <<lock, holder>>

\* Mutant: the mutex is taken without waiting for it.
TakeNoWait(c) ==
    /\ Goes(c, "take", "in")
    /\ holder' = [holder EXCEPT ![lock] = c]
    /\ UNCHANGED <<lock, exists>>

\* xSemaphoreTake(lock, portMAX_DELAY)
Take(c) ==
    /\ Goes(c, "take", "in")
    /\ holder[lock] = None
    /\ holder' = [holder EXCEPT ![lock] = c]
    /\ UNCHANGED <<lock, exists>>

\* leave()
Give(c) ==
    /\ Goes(c, "in", "out")
    /\ holder' = [holder EXCEPT ![lock] = None]
    /\ UNCHANGED <<lock, exists>>

Step(c) == Look(c) \/ Create(c) \/ Install(c) \/ Drop(c) \/ Take(c) \/ Give(c)

Next == \E c \in Client : Step(c)

Spec == Init /\ [][Next]_vars

-------------------------------------------------------------------------------
\* Two tasks are never in the registry at once, also when several of them
\* made its first call together.
MutualExclusion == \A c, d \in Client : pc[c] = "in" /\ pc[d] = "in" => c = d

\* The mutex that is taken and given back is one that exists, and no other is
\* left behind: but for the one installed, a mutex exists only while the
\* enter() that created it is still at work.
OneMutex ==
    /\ \A c \in Client : pc[c] \in {"take", "in"} => lock # None /\ exists[lock]
    /\ \A m \in Client : exists[m] /\ m # lock => pc[m] \in {"install", "drop"}

\* LazyMutex implements RegistryMutex, whose owner is the client inside.
Registry == INSTANCE RegistryMutex WITH
    NoClient <- None,
    owner <- IF lock = None THEN None ELSE holder[lock]

ImplementsMutex == Registry!Spec
===============================================================================
