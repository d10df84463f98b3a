-------------------------------- MODULE Loader --------------------------------
(***************************************************************************)
(* What becomes of a Binary: it is loaded at once (parseScript()), or saved *)
(* (parseScriptToBinary()) and loaded from the file by a process that may   *)
(* bind other host names (createExecutableFromBuffer()), and freed.         *)
(***************************************************************************)
EXTENDS Assembler

CONSTANTS
    Host,            \* the labels of external names, which a host may bind
    NameBytes,       \* the bytes of a name in a record
    DescriptorBytes  \* and of a function's descriptor

ASSUME LoaderAssumption ==
    Host \subseteq Label /\ NameBytes \in Nat /\ DescriptorBytes \in Nat

VARIABLES
    file,    \* the serialized Binary, and the bytes of it that were read back
    exe      \* the executable

buildVars == <<asmVars, file, exe>>

NoFile == [instr |-> 0, tmp |-> 0, function |-> 0, narrow |-> 0, wide |-> 0,
           size |-> 0, given |-> 0, records |-> {}]
NoExe == [words |-> <<>>, copies |-> {}, functions |-> {}, json |-> {}, data |-> 0]

LoadInit == AsmInit /\ file = NoFile /\ exe = NoExe

Assemble == AsmNext /\ UNCHANGED <<file, exe>>

Becomes(p) == phase' = p /\ UNCHANGED <<origin, text, scan, relaxed, heads, parsed, pos, size, bad>>

-------------------------------------------------------------------------------
(* serializeBinary() and deserializeBinary().                              *)

RecordBytes(type) ==
    CASE type = "data_label" -> 7
      [] type \in {"external_var_label", "external_call"} -> 5 + NameBytes
      [] type = "function_declaration" -> 15 + NameBytes + DescriptorBytes
      [] type = "json_binding" -> 10 + NameBytes
      [] type = "data" -> 9

\* binary_header_size, on 16 bits.
FunctionSize(records) ==
    LET bytes(type) == Cardinality({r \in records : r.type = type}) * RecordBytes(type)
    IN  Word16(2 + bytes("data_label") + bytes("external_var_label") + bytes("external_call")
                 + bytes("data") + bytes("function_declaration") + bytes("json_binding"))

Escape == 65535

FileSize(b) ==
    12 + (IF b.data >= Escape THEN 4 ELSE 0) + b.tmp + FunctionSize(b.records)

\* Mutant: the data size on 16 bits only.
SaveNarrow ==
    /\ phase = "built"
    /\ file' = [instr |-> bin.instr, tmp |-> bin.tmp, function |-> FunctionSize(bin.records),
                narrow |-> Word16(bin.data), wide |-> 0, size |-> FileSize(bin), given |-> 0,
                records |-> bin.records]
    /\ bin' = NoBin
    /\ heap' = heap \ {"code", "records"}
    /\ Becomes("saved")
    /\ UNCHANGED exe

\* serializeBinary(), then parseScriptToBinary() frees the Binary.
Save ==
    /\ phase = "built"
    /\ file' = [instr |-> bin.instr, tmp |-> bin.tmp, function |-> FunctionSize(bin.records),
                narrow |-> IF bin.data >= Escape THEN Escape ELSE bin.data,
                wide |-> IF bin.data >= Escape THEN bin.data ELSE 0,
                size |-> FileSize(bin), given |-> 0, records |-> bin.records]
    /\ bin' = NoBin
    /\ heap' = heap \ {"code", "records"}
    /\ Becomes("saved")
    /\ UNCHANGED exe

\* The bytes deserializeBinary() wants, as far as it reads a file of n bytes.
Wanted(n) ==
    IF n < 12 THEN 12
    ELSE LET header == IF file.narrow = Escape THEN 16 ELSE 12
         IN  IF n < header THEN header ELSE header + file.tmp + file.function

\* deserializeBinary() of the first n bytes of the file.
OpenBuffer(n) ==
    /\ phase = "saved"
    /\ file' = [file EXCEPT !.given = n]
    /\ IF n < Wanted(n)
       THEN Becomes("rejected") /\ UNCHANGED <<bin, heap>>
       ELSE /\ bin' = [instr |-> file.instr, tmp |-> file.tmp,
                       data |-> IF file.narrow = Escape THEN file.wide ELSE file.narrow,
                       records |-> file.records]
            /\ heap' = heap \cup {"code", "records"}
            /\ Becomes("opened")
    /\ UNCHANGED exe

-------------------------------------------------------------------------------
(* createExecutableFromBinary(), freeBinary() after it, freeExecutable().  *)

Of(types) == {r \in bin.records : r.type \in types}
Externals == Of({"external_var_label", "external_call"})
Unbound(bound) == {r \in Externals : r.name \notin bound}

\* What decodeBinaryHeader() fills in, with the names bound by then in
\* binded_assets; a slot whose name is not there is left as it was, and
\* everything after it still decoded.
Words(bound) ==
    LET slots == {r.slot : r \in Of({"data_label"}) \cup (Externals \ Unbound(bound))}
    IN  [s \in slots |->
            LET r == CHOOSE r \in Of(Slotted) : r.slot = s
            IN  IF r.type = "data_label" THEN [data |-> r.data] ELSE [host |-> r.name]]
Copies == {[from |-> bin.instr + r.staged, to |-> r.address, size |-> r.size] : r \in Of({"data"})}
Functions == Of({"function_declaration"})
Json == Of({"json_binding"})

Texts == (IF Functions # {} THEN {"text"} ELSE {}) \cup (IF Json # {} THEN {"jsonText"} ELSE {})

\* The instruction or the data memory cannot be had: nothing is decoded.
LoadOutOfMemory ==
    /\ phase \in {"built", "opened"}
    /\ bin' = NoBin
    /\ heap' = heap \ {"code", "records"}
    /\ Becomes("loadFailed")
    /\ UNCHANGED <<file, exe>>

\* Mutant: the two memories are not freed.
LoadRefusedKeeps(bound) ==
    /\ phase \in {"built", "opened"}
    /\ Functions = {} \/ Unbound(bound) # {}
    /\ exe' = [NoExe EXCEPT !.functions = Functions, !.json = Json]
    /\ heap' = (heap \ {"code", "records"}) \cup Texts \cup {"exec", "data"}
    /\ bin' = NoBin
    /\ Becomes("loadFailed")
    /\ UNCHANGED file

\* No function, or a name that is not bound: the two memories are freed, what
\* was decoded of functions and json variables stays in the executable.
LoadRefused(bound) ==
    /\ phase \in {"built", "opened"}
    /\ Functions = {} \/ Unbound(bound) # {}
    /\ exe' = [NoExe EXCEPT !.functions = Functions, !.json = Json]
    /\ heap' = (heap \ {"code", "records"}) \cup Texts
    /\ bin' = NoBin
    /\ Becomes("loadFailed")
    /\ UNCHANGED file

Load(bound) ==
    /\ phase \in {"built", "opened"}
    /\ Functions # {} /\ Unbound(bound) = {}
    /\ exe' = [words |-> Words(bound), copies |-> Copies, functions |-> Functions, json |-> Json,
               data |-> bin.data]
    /\ heap' = (heap \ {"code", "records"}) \cup Texts \cup {"exec", "data"}
    /\ bin' = NoBin
    /\ Becomes("loaded")
    /\ UNCHANGED file

\* freeExecutable(), from free() or the destructor.
FreeExecutable ==
    /\ phase \in {"loaded", "loadFailed"}
    /\ heap' = heap \ {"exec", "data", "text"}
    /\ exe' = [exe EXCEPT !.words = <<>>, !.copies = {}, !.functions = {}, !.data = 0]
    /\ Becomes("freed")
    /\ UNCHANGED <<bin, file>>

Lengths == {0, 11, 12, 15, 16, file.size - 1, file.size}

BuildNext ==
    \/ Assemble
    \/ Save
    \/ \E n \in Lengths : n <= file.size /\ OpenBuffer(n)
    \/ LoadOutOfMemory
    \/ \E bound \in SUBSET Host : LoadRefused(bound) \/ Load(bound)
    \/ FreeExecutable

BuildSpec == LoadInit /\ [][BuildNext]_buildVars /\ WF_buildVars(Assemble)

-------------------------------------------------------------------------------
(* Properties.                                                             *)

\* What a loaded script reaches through a slot is what its source line named:
\* the global's place in the data memory or the address of the bound host name,
\* whose slot is the word that its label is; a function record holds the address
\* of the function's label, and a string is copied from where it was staged.
LoadedCode ==
    phase = "loaded" =>
        /\ \A e \in {parsed[i] : i \in {i \in Jumps : parsed[i].op = "jump_32aligned"}} :
               LET l == parsed[FindLabel(parsed, e.name)]
                   slot == l.address \div 4
               IN  l.op \in Slotted =>
                       /\ slot \in DOMAIN exe.words
                       /\ exe.words[slot] = IF l.op = "data_label" THEN [data |-> l.data]
                                            ELSE [host |-> l.name]
        /\ \A r \in exe.functions :
               FindLabel(parsed, r.name) # 0 => r.address = parsed[FindLabel(parsed, r.name)].address
        /\ exe.copies = {[from |-> size.instr + e.staged, to |-> e.address, size |-> e.size] :
                             e \in {parsed[i] : i \in {i \in DOMAIN parsed : parsed[i].op = "data"}}}

\* The globals of a program, by their line in the header.
Globals == {i \in DOMAIN origin.header : origin.header[i].op \in {"bytes", "string"}}
Start(i) == parsed[FindLabel(parsed, origin.header[i - 1].name)].data

\* Every global has its own bytes of the data memory, all of them in it, past the
\* handle word the loader fills in, also after a round trip through a file
\* and when the globals take more than 64 KB; a JSON variable is one of them.
GlobalsApart ==
    phase = "loaded" =>
        /\ \A i \in Globals :
               /\ Start(i) + origin.header[i].n <= exe.data
               /\ \A j \in Globals : i < j => Start(i) + origin.header[i].n <= Start(j)
        /\ \A r \in exe.json : \E i \in Globals :
               origin.header[i - 1].name = r.name /\ r.data = Start(i)

\* A Binary comes back from its file as it was saved, and only from the whole file.
RoundTrip ==
    /\ phase = "opened" => bin = Built /\ file.given = file.size
    /\ phase = "rejected" => file.given < file.size

\* The names that an executable's records hold.
Named == (IF exe.functions # {} THEN {"text"} ELSE {}) \cup (IF exe.json # {} THEN {"jsonText"} ELSE {})

\* The blocks in use after each outcome, all of them: whoever consumed a Binary
\* has freed it, a loaded script has its two memories and the names its records
\* hold, and one that failed to load has only the names. Two leaks are among
\* the outcomes: a build whose jumps or branches fail leaves the code buffer,
\* which nobody frees (asm_parser.cpp:1512-1517, 1535-1542), and freeExecutable()
\* (asm_execute.cpp:642-664) leaves the names of JSON variables, although it
\* "releases the memory createExecutableFromBinary allocated" (asm_execute.h:100).
MemoryOwned ==
    /\ phase \in {"relax", "estimate", "saved", "rejected"} => heap = {}
    /\ phase \in {"assemble", "check", "jumps", "header", "outOfRange"} => heap = {"code"}
    /\ phase = "failed" => heap = IF bad THEN {} ELSE {"code"}
    /\ phase \in {"built", "opened"} => heap = {"code", "records"}
    /\ phase = "loaded" => heap = {"exec", "data"} \cup Named
    /\ phase \in {"loadFailed", "freed"} => heap = Named

\* "On error, ex.error.error is non-zero and no memory has been leaked (nothing
\* else is populated)" (asm_execute.h): an executable that failed to load has
\* no function and no JSON variable.
NothingPopulated == phase = "loadFailed" => exe.functions = {} /\ exe.json = {}

\* Assembling ends, whatever the program: relaxBranches() repeats until nothing
\* changes, and "each rewrite only adds bytes, so this converges".
BuildEnds == <>(phase \in {"failed", "outOfRange", "built"})
===============================================================================
