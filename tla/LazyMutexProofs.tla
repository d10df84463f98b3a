--------------------------- MODULE LazyMutexProofs ---------------------------
(***************************************************************************)
(* For any number of tasks: enter() and leave() exclude one another, leave *)
(* no mutex behind, and implement RegistryMutex. IInv is the inductive     *)
(* invariant: it adds who may hold a mutex, and where a client is that     *)
(* owns a mutex nobody has installed.                                      *)
(***************************************************************************)
EXTENDS LazyMutex, TLAPS

\* Only the installed mutex is ever held, by the one client that is inside.
HeldInside ==
    /\ \A m \in Client : holder[m] # None => m = lock /\ pc[holder[m]] = "in"
    /\ \A c \in Client : pc[c] = "in" => lock # None /\ holder[lock] = c

\* A mutex that is not created yet, or given up, is not the installed one.
Created ==
    /\ lock # None => exists[lock] /\ pc[lock] \notin {"create", "install", "drop"}
    /\ \A c \in Client : pc[c] \in {"drop", "take", "in"} => lock # None
    /\ \A c \in Client : pc[c] \in {"install", "drop"} => exists[c]
    /\ \A c \in Client : exists[c] /\ c # lock => pc[c] \in {"install", "drop"}

IInv == TypeOK /\ HeldInside /\ Created

-------------------------------------------------------------------------------
LEMMA InitIInv == Init => IInv
BY ClientAssumption DEF Init, IInv, TypeOK, HeldInside, Created

\* Every step keeps every variable in its type.
LEMMA StepTypeOK == IInv /\ [Next]_vars => TypeOK'
<1> SUFFICES ASSUME IInv, [Next]_vars PROVE TypeOK'
    OBVIOUS
<1> USE DEF IInv, TypeOK
<1>1. ASSUME NEW c \in Client, Step(c) PROVE TypeOK'
  <2>1. CASE Look(c)     BY <2>1 DEF Look, Goes
  <2>2. CASE Create(c)   BY <2>2 DEF Create, Goes
  <2>3. CASE Install(c)  BY <2>3 DEF Install, Goes
  <2>4. CASE Drop(c)     BY <2>4 DEF Drop, Goes
  <2>5. CASE Take(c)     BY <2>5 DEF Take, Goes
  <2>6. CASE Give(c)     BY <2>6 DEF Give, Goes
  <2>7. QED BY <1>1, <2>1, <2>2, <2>3, <2>4, <2>5, <2>6 DEF Step
<1>2. CASE UNCHANGED vars
    BY <1>2 DEF vars
<1>3. QED BY <1>1, <1>2 DEF Next

\* Every step keeps the rest of the invariant.
LEMMA StepIInv == IInv /\ [Next]_vars => IInv'
<1> SUFFICES ASSUME IInv, [Next]_vars PROVE HeldInside' /\ Created'
    BY StepTypeOK DEF IInv
<1> USE ClientAssumption DEF IInv, TypeOK, HeldInside, Created
<1>0. TypeOK' BY StepTypeOK
<1>1. ASSUME NEW c \in Client, Step(c) PROVE HeldInside' /\ Created'
  <2>1. CASE Look(c)     BY <1>0, <2>1 DEF Look, Goes
  <2>2. CASE Create(c)   BY <1>0, <2>2 DEF Create, Goes
  <2>3. CASE Install(c)  BY <1>0, <2>3 DEF Install, Goes
  <2>4. CASE Drop(c)     BY <1>0, <2>4 DEF Drop, Goes
  <2>5. CASE Take(c)     BY <1>0, <2>5 DEF Take, Goes
  <2>6. CASE Give(c)     BY <1>0, <2>6 DEF Give, Goes
  <2>7. QED BY <1>1, <2>1, <2>2, <2>3, <2>4, <2>5, <2>6 DEF Step
<1>2. CASE UNCHANGED vars
    BY <1>2 DEF vars
<1>3. QED BY <1>1, <1>2 DEF Next

\* IInv holds throughout.
THEOREM Invariance == Spec => []IInv
<1>1. QED BY InitIInv, StepIInv, PTL DEF Spec

-------------------------------------------------------------------------------
\* The pointer names a mutex or nothing, and only a client holds one.
THEOREM TypeCorrect == Spec => []TypeOK
<1>1. IInv => TypeOK
    BY DEF IInv
<1>2. QED BY <1>1, Invariance, PTL

\* The mutex excludes, also when several tasks race to create it.
THEOREM Exclusion == Spec => []MutualExclusion
<1>1. IInv => MutualExclusion
    BY DEF IInv, HeldInside, MutualExclusion
<1>2. QED BY <1>1, Invariance, PTL

\* The mutex in use exists, and enter() leaves no other behind.
THEOREM NoLeak == Spec => []OneMutex
<1>1. IInv => OneMutex
    BY DEF IInv, Created, OneMutex
<1>2. QED BY <1>1, Invariance, PTL

\* enter() and leave() implement the abstract mutex: Take acquires it, Give
\* releases it, and no other step changes who owns it.
THEOREM Refinement == Spec => ImplementsMutex
<1>1. Init => Registry!Init
    BY DEF Init, Registry!Init
<1>2. IInv /\ [Next]_vars => [Registry!Next]_(IF lock = None THEN None ELSE holder[lock])
  <2> SUFFICES ASSUME IInv, [Next]_vars
               PROVE  [Registry!Next]_(IF lock = None THEN None ELSE holder[lock])
      OBVIOUS
  <2> USE ClientAssumption DEF IInv, TypeOK, HeldInside, Created
  <2>1. ASSUME NEW c \in Client, Step(c)
        PROVE  [Registry!Next]_(IF lock = None THEN None ELSE holder[lock])
    <3>1. CASE Look(c)     BY <3>1 DEF Look
    <3>2. CASE Create(c)   BY <3>2 DEF Create
    <3>3. CASE Install(c)  BY <3>3 DEF Install
    <3>4. CASE Drop(c)     BY <3>4 DEF Drop
    <3>5. CASE Take(c)     BY <3>5 DEF Take, Goes, Registry!Next, Registry!Acquire
    <3>6. CASE Give(c)     BY <3>6 DEF Give, Goes, Registry!Next, Registry!Release
    <3>7. QED BY <2>1, <3>1, <3>2, <3>3, <3>4, <3>5, <3>6 DEF Step
  <2>2. CASE UNCHANGED vars
      BY <2>2 DEF vars
  <2>3. QED BY <2>1, <2>2 DEF Next
<1>3. QED BY <1>1, <1>2, Invariance, PTL DEF Spec, ImplementsMutex, Registry!Spec
===============================================================================
