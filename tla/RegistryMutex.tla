---------------------------- MODULE RegistryMutex ----------------------------
(***************************************************************************)
(* What ScriptScheduler::enter() and leave() promise: one task at a time   *)
(* between them. ScriptScheduler's `lock` is this module's owner.          *)
(***************************************************************************)
CONSTANTS Client, NoClient

VARIABLE owner

Init == owner = NoClient

Acquire(c) == owner = NoClient /\ owner' = c
Release(c) == owner = c /\ owner' = NoClient

Next == \E c \in Client : Acquire(c) \/ Release(c)

Spec == Init /\ [][Next]_owner
===============================================================================
