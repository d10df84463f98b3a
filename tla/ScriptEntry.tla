------------------------------ MODULE ScriptEntry ------------------------------
(***************************************************************************)
(* Entering compiled code and getting out of it: enterScript()             *)
(* (asm_execute.cpp), and artiSafeModeError() (runtime_functions.cpp),     *)
(* which a failed safe_mode check calls to abandon the script.             *)
(*                                                                         *)
(* A context is something that has a stack: a task, with the interrupts of *)
(* its core, which run on top of whatever it is doing. Each frame of its   *)
(* stack is one enterScript(); the address of its jmp_buf is the context   *)
(* and the depth, so a frame that has gone leaves its address to the next  *)
(* one at that depth.                                                      *)
(***************************************************************************)
EXTENDS Naturals, Sequences

CONSTANTS
    Context,
    MaxDepth,    \* bound: how deep entries nest
    NoFrame      \* NULL, as exe.runtimeUnwind

ASSUME EntryAssumption == MaxDepth \in Nat \ {0} /\ NoFrame \notin Context \X (1 .. MaxDepth)

VARIABLES
    unwind,   \* exe.runtimeUnwind
    error,    \* exe.runtimeError.error
    stack,    \* stack[c]: the enterScript() calls on it, the outermost first
    host,     \* host[c]: what c's outermost code has left to do
    failed    \* the failed checks there were, of FailedSince (history)

vars == <<unwind, error, stack, host, failed>>

\* "read": about to read runtimeUnwind; "clear": to clear runtimeError;
\* "arm": to set runtimeUnwind; "run": in the script; "report": in
\* artiSafeModeError(), the error recorded; "jump": about to longjmp();
\* "restore": to put runtimeUnwind back.
FrameStep == {"read", "clear", "arm", "run", "report", "jump", "restore"}
Frame == [at : FrameStep, outer : (Context \X (1 .. MaxDepth)) \cup {NoFrame}]

\* A check failed since the outermost entry was made ("call"), or since it
\* armed ("run"). Nothing the code clears takes an element away.
FailedSince == {"call", "run"}

\* Types: an unwind point, armed or saved, is the address of a frame.
TypeOK ==
    /\ unwind \in (Context \X (1 .. MaxDepth)) \cup {NoFrame}
    /\ error \in BOOLEAN
    /\ DOMAIN stack = Context
    /\ \A c \in Context : stack[c] \in Seq(Frame) /\ Len(stack[c]) <= MaxDepth
    /\ host \in [Context -> {"idle", "footer", "function"}]
    /\ failed \subseteq FailedSince

Init ==
    /\ unwind = NoFrame
    /\ error = FALSE
    /\ stack = [c \in Context |-> <<>>]
    /\ host = [c \in Context |-> "idle"]
    /\ failed = {}

Depth(c) == Len(stack[c])
Address(c) == <<c, Depth(c)>>

\* The innermost enterScript() of c is at step k, and is its top frame.
TopAt(c, k) == stack[c] # <<>> /\ stack[c][Depth(c)].at = k
Top(c) == stack[c][Depth(c)]

Moves(c, k) == stack' = [stack EXCEPT ![c][Depth(c)].at = k]
NewFrame == [at |-> "read", outer |-> NoFrame]
Outside == \A c \in Context : stack[c] = <<>>

Push(c) ==
    /\ Depth(c) < MaxDepth
    /\ stack' = [stack EXCEPT ![c] = Append(@, NewFrame)]
    /\ failed' = IF Outside THEN {} ELSE failed
Pop(c) == stack' = [stack EXCEPT ![c] = SubSeq(@, 1, Depth(c) - 1)]

-------------------------------------------------------------------------------
\* enterScript(), step by step.

\* Mutant: every entry clears the error, a nested one too.
ReadOuterClears(c) ==
    /\ TopAt(c, "read")
    /\ stack' = [stack EXCEPT ![c][Depth(c)] = [at |-> "clear", outer |-> unwind]]
    /\ UNCHANGED <<unwind, error, host, failed>>

ReadOuter(c) ==
    /\ TopAt(c, "read")
    /\ stack' = [stack EXCEPT ![c][Depth(c)] =
                    [at |-> IF unwind = NoFrame THEN "clear" ELSE "arm", outer |-> unwind]]
    /\ UNCHANGED <<unwind, error, host, failed>>

ClearError(c) ==
    /\ TopAt(c, "clear")
    /\ error' = FALSE
    /\ Moves(c, "arm")
    /\ UNCHANGED <<unwind, host, failed>>

\* Mutant: the unwind point is that of a frame further in.
ArmAbove(c) ==
    /\ TopAt(c, "arm")
    /\ unwind' = <<c, Depth(c) + 1>>
    /\ Moves(c, "run")
    /\ UNCHANGED <<error, host, failed>>

Arm(c) ==
    /\ TopAt(c, "arm")
    /\ unwind' = Address(c)
    /\ Moves(c, "run")
    /\ failed' = IF Depth(c) = 1 THEN failed \ {"run"} ELSE failed
    /\ UNCHANGED <<error, host>>

\* The script function returns.
ScriptReturns(c) ==
    /\ TopAt(c, "run")
    /\ Moves(c, "restore")
    /\ UNCHANGED <<unwind, error, host, failed>>

\* Mutant: the unwind point is cleared, not put back.
RestoreNothing(c) ==
    /\ TopAt(c, "restore")
    /\ unwind' = NoFrame
    /\ Pop(c)
    /\ UNCHANGED <<error, host, failed>>

Restore(c) ==
    /\ TopAt(c, "restore")
    /\ unwind' = Top(c).outer
    /\ Pop(c)
    /\ UNCHANGED <<error, host, failed>>

-------------------------------------------------------------------------------
\* artiSafeModeError(): record, report, longjmp() to the armed entry; when
\* nothing is armed, the script's own retw.n leaves the function instead.
RecordError(c) ==
    /\ TopAt(c, "run")
    /\ error' = TRUE
    /\ failed' = FailedSince
    /\ Moves(c, "report")
    /\ UNCHANGED <<unwind, host>>

ReportError(c) ==
    /\ TopAt(c, "report")
    /\ Moves(c, IF unwind = NoFrame THEN "run" ELSE "jump")
    /\ UNCHANGED <<unwind, error, host, failed>>

\* Mutant: the jump goes to the outermost entry.
LongJumpFar(c) ==
    /\ TopAt(c, "jump")
    /\ unwind # NoFrame /\ unwind[1] = c
    /\ stack' = [stack EXCEPT ![c] = [SubSeq(@, 1, 1) EXCEPT ![1].at = "restore"]]
    /\ UNCHANGED <<unwind, error, host, failed>>

\* On its own stack the jump drops the frames above the armed entry. (To
\* another stack it has no defined outcome: JumpsOnOwnStack.)
LongJump(c) ==
    /\ TopAt(c, "jump")
    /\ unwind # NoFrame /\ unwind[1] = c /\ unwind[2] <= Depth(c)
    /\ stack' = [stack EXCEPT ![c] =
                    [SubSeq(@, 1, unwind[2]) EXCEPT ![unwind[2]].at = "restore"]]
    /\ UNCHANGED <<unwind, error, host, failed>>

-------------------------------------------------------------------------------
\* The script's function calls a host function that enters the script again,
\* or an interrupt enters it, at whatever step its context is, in an entry or
\* in none.
Reenter(c) ==
    /\ Push(c)
    /\ UNCHANGED <<unwind, error, host>>

\* execute(): the footer, whose result is ignored, then the function;
\* executeOnly(): the function alone.
CallExecute(c) ==
    /\ host[c] = "idle" /\ stack[c] = <<>>
    /\ \/ host' = [host EXCEPT ![c] = "footer"]
       \/ host' = [host EXCEPT ![c] = "function"]
    /\ UNCHANGED <<unwind, error, stack, failed>>

EnterFooter(c) ==
    /\ host[c] = "footer" /\ stack[c] = <<>>
    /\ host' = [host EXCEPT ![c] = "function"]
    /\ \/ Push(c)
       \/ UNCHANGED <<stack, failed>>        \* the script has no footer
    /\ UNCHANGED <<unwind, error>>

EnterFunction(c) ==
    /\ host[c] = "function" /\ stack[c] = <<>>
    /\ host' = [host EXCEPT ![c] = "idle"]
    /\ Push(c)
    /\ UNCHANGED <<unwind, error>>

Step(c) ==
    \/ ReadOuter(c) \/ ClearError(c) \/ Arm(c) \/ ScriptReturns(c) \/ Restore(c)
    \/ RecordError(c) \/ ReportError(c) \/ LongJump(c)
    \/ Reenter(c) \/ CallExecute(c) \/ EnterFooter(c) \/ EnterFunction(c)

Next == \E c \in Context : Step(c)

Spec == Init /\ [][Next]_vars

-------------------------------------------------------------------------------
\* "A failure unwinds only the innermost entry": while its innermost entry
\* runs the script, a context's unwind point is that entry's own, whatever
\* interrupts, errors and nested calls came and went; and it is never that of
\* an entry which has returned.
UnwindIsInnermost ==
    /\ \A c \in Context : TopAt(c, "run") \/ TopAt(c, "report") \/ TopAt(c, "jump")
        => unwind = Address(c)
    /\ unwind # NoFrame => unwind[2] <= Depth(unwind[1])

\* artiSafeModeError() never jumps to another task's stack ("entries nest").
JumpsOnOwnStack ==
    \A c \in Context : TopAt(c, "jump") => unwind # NoFrame /\ unwind[1] = c

\* runtimeError "always describes the most recent outermost call". When no
\* entry is left: a check that failed once the outermost entry had armed, in it
\* or in any entry nested on it, is still recorded, whatever nested entries came
\* after; and what is recorded failed during that call, not before it. An
\* interrupt that comes before the outermost entry has armed finds no unwind
\* point, so it is an outermost call of its own: its error may be cleared
\* (533-534), or stay and be taken for the outer call's.
ErrorOfLastCall ==
    Outside => ("run" \in failed => error) /\ (error => "call" \in failed)

\* An error ends one entry: those outside it are left where they were.
FailureStaysInside ==
    [][\A c \in Context : LongJump(c) =>
          /\ Depth(c)' = Depth(c)
          /\ \A i \in 1 .. Depth(c) - 1 : stack'[c][i] = stack[c][i]]_vars
===============================================================================
