----------------------------- MODULE LoaderProofs -----------------------------
(***************************************************************************)
(* What a Binary keeps between assembling and loading, for every program:  *)
(* the memory in use, the round trip through a file, and what a loaded      *)
(* script reaches.                                                         *)
(***************************************************************************)
EXTENDS Loader, AssemblerProofs

-------------------------------------------------------------------------------
(* Phases, and the memory each of them has.                                *)

Assembling == {"check", "jumps", "header"}
Done == {"outOfRange", "built", "saved", "rejected", "opened", "loaded", "loadFailed", "freed"}

\* What each phase has of the assembler's state and of the memory.
Phases ==
    /\ phase \in {"relax", "estimate", "assemble", "failed"} \cup Assembling \cup Done
    /\ phase \in {"relax", "estimate"} => parsed = <<>> /\ ~bad
    /\ phase \in Assembling \cup Done => ~bad /\ \A p \in Part : text[p] = <<>>
    /\ phase \notin {"loaded", "loadFailed", "freed"} => exe = NoExe
    /\ DOMAIN exe = {"words", "copies", "functions", "json", "data"}
    /\ MemoryOwned

\* What is not the assembler's.
Keeps == Save \/ (\E n \in Lengths : n <= file.size /\ OpenBuffer(n)) \/ LoadOutOfMemory
         \/ (\E bound \in SUBSET Host : LoadRefused(bound) \/ Load(bound)) \/ FreeExecutable

LEMMA KeepsOthers ==
    ASSUME Keeps
    PROVE  /\ UNCHANGED <<origin, text, scan, relaxed, heads, parsed, pos, size, bad>>
           /\ phase \in {"built", "saved", "opened", "loaded", "loadFailed"}
           /\ phase' \in {"saved", "rejected", "opened", "loaded", "loadFailed", "freed"}
<1>1. CASE Save
    BY <1>1 DEF Save, Becomes
<1>2. ASSUME NEW n \in Lengths, OpenBuffer(n)
      PROVE  /\ UNCHANGED <<origin, text, scan, relaxed, heads, parsed, pos, size, bad>>
             /\ phase \in {"built", "saved", "opened", "loaded", "loadFailed"}
             /\ phase' \in {"saved", "rejected", "opened", "loaded", "loadFailed", "freed"}
    BY <1>2 DEF OpenBuffer, Becomes
<1>3. CASE LoadOutOfMemory
    BY <1>3 DEF LoadOutOfMemory, Becomes
<1>4. ASSUME NEW bound \in SUBSET Host, LoadRefused(bound) \/ Load(bound)
      PROVE  /\ UNCHANGED <<origin, text, scan, relaxed, heads, parsed, pos, size, bad>>
             /\ phase \in {"built", "saved", "opened", "loaded", "loadFailed"}
             /\ phase' \in {"saved", "rejected", "opened", "loaded", "loadFailed", "freed"}
    BY <1>4 DEF LoadRefused, Load, Becomes
<1>5. CASE FreeExecutable
    BY <1>5 DEF FreeExecutable, Becomes
<1>6. QED BY <1>1, <1>2, <1>3, <1>4, <1>5 DEF Keeps

LEMMA BuildSteps == BuildNext => (AsmNext /\ UNCHANGED <<file, exe>>) \/ Keeps
BY DEF BuildNext, Assemble, Keeps

LEMMA NextBuildTyped == ASSUME Typed, [BuildNext]_buildVars PROVE Typed'
<1>1. CASE AsmNext
    BY <1>1, NextTyped
<1>2. CASE Keeps
  <2>1. LinesTyped'
    <3>1. phase' # "relax" /\ UNCHANGED <<origin, text, scan, relaxed>>
      BY <1>2, KeepsOthers
    <3>2. QED BY <3>1, SameTexts DEF Typed
  <2>2. UNCHANGED <<heads, parsed, pos, size>>
    BY <1>2, KeepsOthers
  <2>3. Numbers'
    BY <2>2 DEF Numbers, Typed
  <2>4. QED BY <2>1, <2>3 DEF Typed
<1>3. CASE UNCHANGED buildVars
  <2>1. LinesTyped'
    BY <1>3 DEF buildVars, asmVars, LinesTyped, Consumed, Typed
  <2>2. Numbers'
    BY <1>3 DEF buildVars, asmVars, Numbers, Typed
  <2>3. QED BY <2>1, <2>2 DEF Typed
<1>4. QED BY <1>1, <1>2, <1>3, BuildSteps

LEMMA InitPhases == LoadInit => Phases
BY DEF LoadInit, AsmInit, NoExe, Phases, MemoryOwned, Assembling, Done

LEMMA AsmPhases == ASSUME Phases, AsmNext, UNCHANGED exe PROVE Phases'
<1> USE DEF Assembling, Done
<1>0. UNCHANGED Named
    BY DEF Named
<1>1. CASE \E p \in Part : BeginPass(p)
    BY <1>0, <1>1 DEF BeginPass, Phases, MemoryOwned
<1>2. CASE RelaxLine
    BY <1>0, <1>2 DEF RelaxLine, Phases, MemoryOwned
<1>3. CASE EndPass
    BY <1>0, <1>3 DEF EndPass, Phases, MemoryOwned
<1>4. CASE Estimate
    BY <1>0, <1>4 DEF Estimate, Phases, MemoryOwned
<1>5. CASE AssembleLabel \/ AssembleData \/ AssembleInstr \/ AssembleCall
  <2>1. UNCHANGED <<phase, heap>> /\ phase = "assemble"
    BY <1>5 DEF AssembleLabel, AssembleData, AssembleInstr, AssembleCall, Reads
  <2>2. QED BY <1>0, <2>1 DEF Phases, MemoryOwned
<1>6. CASE EndAssembly
    BY <1>0, <1>6 DEF EndAssembly, Phases, MemoryOwned
<1>7. CASE CheckRange
    BY <1>0, <1>7 DEF CheckRange, Phases, MemoryOwned
<1>8. CASE CalculateJump
    BY <1>0, <1>8 DEF CalculateJump, Phases, MemoryOwned
<1>9. CASE CreateBinaryHeader
    BY <1>0, <1>9 DEF CreateBinaryHeader, Phases, MemoryOwned
<1>10. QED BY <1>1, <1>2, <1>3, <1>4, <1>5, <1>6, <1>7, <1>8, <1>9 DEF AsmNext

\* A load gives the executable the names of the records it is given.
LEMMA NextPhases == ASSUME Phases, [BuildNext]_buildVars PROVE Phases'
<1> USE DEF Assembling, Done
<1>1. CASE AsmNext /\ UNCHANGED <<file, exe>>
    BY <1>1, AsmPhases
<1>2. CASE Save
    BY <1>2 DEF Save, Becomes, Phases, MemoryOwned
<1>3. ASSUME NEW n \in Lengths, OpenBuffer(n) PROVE Phases'
    BY <1>3 DEF OpenBuffer, Becomes, Phases, MemoryOwned
<1>4. CASE LoadOutOfMemory
  <2>1. Named' = {}
    BY <1>4 DEF LoadOutOfMemory, Phases, NoExe, Named
  <2>2. QED BY <1>4, <2>1 DEF LoadOutOfMemory, Becomes, Phases, MemoryOwned
<1>5. ASSUME NEW bound \in SUBSET Host, LoadRefused(bound) PROVE Phases'
  <2>1. exe'.functions = Functions /\ exe'.json = Json
        /\ DOMAIN exe' = {"words", "copies", "functions", "json", "data"}
    BY <1>5 DEF LoadRefused, NoExe
  <2>2. Named' = Texts
    BY <2>1 DEF Named, Texts
  <2>3. heap' = Texts /\ phase' = "loadFailed" /\ UNCHANGED <<text, parsed, bad>> /\ phase \in Done
    BY <1>5 DEF LoadRefused, Becomes, Phases, MemoryOwned, Texts
  <2>4. QED BY <2>1, <2>2, <2>3 DEF Phases, MemoryOwned
<1>6. ASSUME NEW bound \in SUBSET Host, Load(bound) PROVE Phases'
  <2>1. exe'.functions = Functions /\ exe'.json = Json
        /\ DOMAIN exe' = {"words", "copies", "functions", "json", "data"}
    BY <1>6 DEF Load
  <2>2. Named' = Texts
    BY <2>1 DEF Named, Texts
  <2>3. heap' = {"exec", "data"} \cup Texts /\ phase' = "loaded" /\ UNCHANGED <<text, parsed, bad>>
        /\ phase \in Done
    BY <1>6 DEF Load, Becomes, Phases, MemoryOwned, Texts
  <2>4. QED BY <2>1, <2>2, <2>3 DEF Phases, MemoryOwned
<1>7. CASE FreeExecutable
  <2>1. exe'.functions = {} /\ exe'.json = exe.json
        /\ DOMAIN exe' = {"words", "copies", "functions", "json", "data"}
    BY <1>7 DEF FreeExecutable, Phases
  <2>2. heap = Named \/ heap = {"exec", "data"} \cup Named
    BY <1>7 DEF FreeExecutable, Phases, MemoryOwned
  <2>3. heap' = Named'
    BY <1>7, <2>1, <2>2 DEF FreeExecutable, Named
  <2>4. phase' = "freed" /\ UNCHANGED <<text, parsed, bad>> /\ phase \in Done
    BY <1>7 DEF FreeExecutable, Becomes
  <2>5. QED BY <2>1, <2>3, <2>4 DEF Phases, MemoryOwned
<1>8. CASE UNCHANGED buildVars
    BY <1>8 DEF buildVars, asmVars, Phases, MemoryOwned, Named
<1>9. QED BY <1>1, <1>2, <1>3, <1>4, <1>5, <1>6, <1>7, <1>8 DEF BuildNext, Assemble

BuildInv == Typed /\ Phases

LEMMA BuildTyped == BuildSpec => []BuildInv
<1>1. LoadInit => BuildInv
  <2>1. LoadInit => Typed
    BY InitTyped DEF LoadInit
  <2>2. QED BY <2>1, InitPhases DEF BuildInv
<1>2. BuildInv /\ [BuildNext]_buildVars => BuildInv'
  <2> SUFFICES ASSUME BuildInv, [BuildNext]_buildVars PROVE BuildInv'
    OBVIOUS
  <2>1. Typed /\ Phases
    BY DEF BuildInv
  <2>2. Typed'
    BY <2>1, NextBuildTyped
  <2>3. Phases'
    BY <2>1, NextPhases
  <2>4. QED BY <2>2, <2>3 DEF BuildInv
<1>3. QED BY <1>1, <1>2, PTL DEF BuildSpec

\* Whatever the program, every variable of the assembler keeps its type, and
\* the code buffer exists from parseASM() until a failed assembly or the
\* Binary gives it up.
THEOREM AssemblerTypeCorrect == BuildSpec => []AsmTypeOK
<1>1. BuildInv => AsmTypeOK
  <2> SUFFICES ASSUME BuildInv PROVE AsmTypeOK
    OBVIOUS
  <2>1. LinesTyped /\ Numbers /\ Phases
    BY DEF BuildInv, Typed
  <2>2. relaxed \in Nat
    BY <2>1 DEF LinesTyped
  <2>3. \A p \in Part : \A i \in DOMAIN text[p] : text[p][i].op \in Op
    <3>1. ASSUME NEW p \in Part, NEW i \in DOMAIN text[p] PROVE text[p][i].op \in Op
      <4>1. text[p][i] \in Line
        BY <2>1, <3>1 DEF LinesTyped
      <4>2. QED BY <4>1 DEF Line
    <3>2. QED BY <3>1
  <2>4. heads \subseteq Name
    BY <2>1 DEF Numbers
  <2>5. \A v \in {pos.instr, pos.data, pos.staged} : v \in Nat
    BY <2>1 DEF Numbers
  <2>6. \A v \in {size.instr, size.tmp} : v \in Nat /\ v <= 65535
    BY <2>1 DEF Numbers
  <2>7. phase = "relax" => parsed = <<>> /\ heap = {}
    BY <2>1 DEF Phases, MemoryOwned
  <2>8. phase \in {"assemble", "check", "jumps", "header"} => heap = {"code"}
    BY <2>1 DEF Phases, MemoryOwned
  <2>9. phase = "failed" /\ bad => heap = {}
    BY <2>1 DEF Phases, MemoryOwned
  <2>10. phase = "header" => ~bad /\ \A p \in Part : text[p] = <<>>
    BY <2>1 DEF Phases, Assembling
  <2>11. QED BY <2>2, <2>3, <2>4, <2>5, <2>6, <2>7, <2>8, <2>9, <2>10 DEF AsmTypeOK
<1>2. QED BY <1>1, BuildTyped, PTL

\* The blocks in use in each phase are known exactly: a Binary is freed by
\* whoever consumes it (parseScriptToBinary(), createExecutableFromBuffer(), a
\* load that fails), an executable has its memories and the names its records hold,
\* or after a failed load the names alone. It says too what is not freed: the
\* code buffer when jumps or branches fail, JSON names by freeExecutable().
THEOREM MemoryIsOwned == BuildSpec => []MemoryOwned
<1>1. Phases => MemoryOwned
  BY DEF Phases
<1>2. QED BY <1>1, BuildTyped, PTL DEF BuildInv

-------------------------------------------------------------------------------
(* The file.                                                               *)

LEMMA RecordsFinite ==
    ASSUME Numbers
    PROVE  IsFiniteSet(Built.records)
<1> DEFINE I == {i \in DOMAIN parsed : parsed[i].op \in Recorded}
<1>1. parsed \in Seq(EntryType) /\ Len(parsed) \in Nat
    BY DEF Numbers
<1>2. I \subseteq 1 .. Len(parsed)
    BY <1>1
<1>3. IsFiniteSet(I)
  <2>1. IsFiniteSet(1 .. Len(parsed))
    BY <1>1, FS_Interval
  <2>2. QED BY <1>2, <2>1, FS_Subset
<1> DEFINE R == {Record(i) : i \in I}
           f == [i \in I |-> Record(i)]
<1>4. Built.records = R
    BY DEF Built
<1> HIDE DEF I
<1>5. f \in Surjection(I, R)
    BY DEF Surjection
<1>6. IsFiniteSet(R)
    BY <1>3, <1>5, FS_Surjection
<1>7. QED BY <1>4, <1>6

LEMMA FunctionSizeNat ==
    ASSUME NEW records, IsFiniteSet(records)
    PROVE  FunctionSize(records) \in Nat
<1> DEFINE bytes(type) == Cardinality({r \in records : r.type = type}) * RecordBytes(type)
<1>1. ASSUME NEW type \in {"data_label", "external_var_label", "external_call", "data",
                           "function_declaration", "json_binding"}
      PROVE  bytes(type) \in Int
  <2>1. IsFiniteSet({r \in records : r.type = type})
    BY FS_Subset
  <2>2. Cardinality({r \in records : r.type = type}) \in Nat
    BY <2>1, FS_CardinalityType
  <2>3. RecordBytes(type) \in Int
    BY <1>1, LoaderAssumption DEF RecordBytes
  <2>4. QED BY <2>2, <2>3
<1> DEFINE sum == 2 + bytes("data_label") + bytes("external_var_label") + bytes("external_call")
                    + bytes("data") + bytes("function_declaration") + bytes("json_binding")
<1>2. sum \in Int
  <2> HIDE DEF bytes
  <2>1. /\ bytes("data_label") \in Int /\ bytes("external_var_label") \in Int
        /\ bytes("external_call") \in Int /\ bytes("data") \in Int
        /\ bytes("function_declaration") \in Int /\ bytes("json_binding") \in Int
    BY <1>1
  <2>2. QED BY <2>1
<1>3. FunctionSize(records) = Word16(sum)
    BY DEF FunctionSize
<1> HIDE DEF sum
<1>4. QED BY <1>2, <1>3, Word16Range

FileFields == {"instr", "tmp", "function", "narrow", "wide", "size", "given", "records"}

\* The Binary, as it is in memory and in the file.
Stored ==
    /\ phase \in {"built", "opened"} => bin = Built
    /\ phase \in {"saved", "opened", "rejected"} =>
           /\ DOMAIN file = FileFields
           /\ file.instr = Built.instr /\ file.tmp = Built.tmp /\ file.records = Built.records
           /\ file.function = FunctionSize(Built.records)
           /\ Built.data >= 65535 => file.narrow = 65535 /\ file.wide = Built.data
           /\ Built.data < 65535 => file.narrow = Built.data
           /\ file.size = FileSize(Built)
    /\ phase = "opened" => file.given = file.size
    /\ phase = "rejected" => file.given < file.size

LEMMA BuiltTyped ==
    ASSUME Numbers
    PROVE  /\ Built.instr \in Nat /\ Built.tmp \in Nat /\ Built.data \in Nat
           /\ FunctionSize(Built.records) \in Nat
<1>1. size.instr \in Nat /\ size.tmp \in Nat /\ pos.data \in Nat
    BY DEF Numbers
<1>2. FunctionSize(Built.records) \in Nat
    BY RecordsFinite, FunctionSizeNat
<1>3. Built.instr = size.instr /\ Built.tmp = size.tmp /\ Built.data = pos.data
    BY DEF Built
<1>4. QED BY <1>1, <1>2, <1>3

\* A Binary is what was assembled until it is loaded.
LEMMA SameBuilt == ASSUME UNCHANGED <<parsed, pos, size>> PROVE Built' = Built
<1>1. \A i : SlotAt(i)' = SlotAt(i)
    BY DEF SlotAt
<1>2. \A i : StagedAt(i)' = StagedAt(i)
    BY DEF StagedAt, SumTo
<1>3. \A i : Record(i)' = Record(i)
    BY <1>1, <1>2 DEF Record
<1>4. QED BY <1>3 DEF Built

LEMMA KeepsBuilt == ASSUME Keeps PROVE Built' = Built
BY KeepsOthers, SameBuilt

LEMMA NextStored == ASSUME Numbers, Stored, [BuildNext]_buildVars PROVE Stored'
<1>1. CASE CreateBinaryHeader /\ UNCHANGED <<file, exe>>
  <2>1. Built' = Built
    BY <1>1, SameBuilt DEF CreateBinaryHeader
  <2>2. bin' = Built /\ phase' = "built"
    BY <1>1 DEF CreateBinaryHeader
  <2>3. QED BY <2>1, <2>2 DEF Stored
<1>2. CASE AsmNext /\ ~CreateBinaryHeader
  <2>1. phase' \notin {"built", "opened", "saved", "rejected"}
    BY <1>2 DEF AsmNext, BeginPass, RelaxLine, EndPass, Estimate, AssembleLabel, AssembleData,
                AssembleInstr, AssembleCall, Reads, EndAssembly, CheckRange, CalculateJump
  <2>2. QED BY <2>1 DEF Stored
<1>3. CASE Save
  <2>1. bin = Built /\ Built' = Built
    BY <1>3, KeepsBuilt DEF Save, Stored, Keeps
  <2>2. /\ phase' = "saved"
        /\ file' = [instr |-> Built.instr, tmp |-> Built.tmp, function |-> FunctionSize(Built.records),
                    narrow |-> IF Built.data >= 65535 THEN 65535 ELSE Built.data,
                    wide |-> IF Built.data >= 65535 THEN Built.data ELSE 0,
                    size |-> FileSize(Built), given |-> 0, records |-> Built.records]
    BY <1>3, <2>1 DEF Save, Becomes, Escape
  <2>3. /\ DOMAIN file' = FileFields
        /\ file'.instr = Built'.instr /\ file'.tmp = Built'.tmp /\ file'.records = Built'.records
        /\ file'.function = FunctionSize(Built'.records) /\ file'.size = FileSize(Built')
    BY <2>1, <2>2 DEF FileFields
  <2>4. /\ Built.data >= 65535 => file'.narrow = 65535 /\ file'.wide = Built.data
        /\ ~(Built.data >= 65535) => file'.narrow = Built.data
    BY <2>2
  <2>5. Built.data \in Nat
    BY BuiltTyped
  <2>6. Built'.data < 65535 => ~(Built.data >= 65535)
    BY <2>1, <2>5
  <2>7. QED BY <2>1, <2>2, <2>3, <2>4, <2>6 DEF Stored
<1>4. ASSUME NEW n \in Lengths, n <= file.size, OpenBuffer(n) PROVE Stored'
  <2> DEFINE b == [instr |-> file.instr, tmp |-> file.tmp,
                   data |-> IF file.narrow = Escape THEN file.wide ELSE file.narrow,
                   records |-> file.records]
  <2>1. Built' = Built
    BY <1>4, KeepsBuilt DEF Keeps
  <2>2. /\ Built.instr \in Nat /\ Built.tmp \in Nat /\ Built.data \in Nat
        /\ FunctionSize(Built.records) \in Nat
    BY BuiltTyped
  <2>3. /\ DOMAIN file = FileFields
        /\ file.instr = Built.instr /\ file.tmp = Built.tmp /\ file.records = Built.records
        /\ file.function = FunctionSize(Built.records)
        /\ Built.data >= 65535 => file.narrow = 65535 /\ file.wide = Built.data
        /\ Built.data < 65535 => file.narrow = Built.data
        /\ file.size = FileSize(Built)
    BY <1>4 DEF OpenBuffer, Stored
  <2>4. file.narrow = 65535 <=> Built.data >= 65535
    BY <2>2, <2>3
  <2>5. file.size = (IF file.narrow = 65535 THEN 16 ELSE 12) + file.tmp + file.function
    BY <2>2, <2>3, <2>4 DEF FileSize, Escape
  <2>6. file.tmp \in Nat /\ file.function \in Nat
    BY <2>2, <2>3
  <2>7. n \in Int /\ file.size \in Int
    BY <2>5, <2>6 DEF Lengths
  <2>8. n < Wanted(n) <=> n < file.size
    BY <2>5, <2>6, <2>7 DEF Wanted, Escape
  <2>9. /\ file' = [file EXCEPT !.given = n]
        /\ n < Wanted(n) => phase' = "rejected"
        /\ ~(n < Wanted(n)) => phase' = "opened" /\ bin' = b
    BY <1>4 DEF OpenBuffer, Becomes
  <2>10. /\ DOMAIN file' = FileFields /\ file'.given = n
         /\ file'.instr = file.instr /\ file'.tmp = file.tmp /\ file'.records = file.records
         /\ file'.function = file.function /\ file'.narrow = file.narrow /\ file'.wide = file.wide
         /\ file'.size = file.size
    <3>1. \A x \in FileFields : x # "given" => file'[x] = file[x]
      BY <2>3, <2>9
    <3>2. DOMAIN file' = FileFields /\ file'.given = n
      BY <2>3, <2>9 DEF FileFields
    <3>3. QED BY <3>1, <3>2 DEF FileFields
  <2>11. b = Built
    <3>1. (IF file.narrow = Escape THEN file.wide ELSE file.narrow) = Built.data
      BY <2>2, <2>3, <2>4 DEF Escape
    <3>2. Built = [instr |-> Built.instr, tmp |-> Built.tmp, data |-> Built.data, records |-> Built.records]
      BY DEF Built
    <3>3. QED BY <2>3, <3>1, <3>2
  <2> HIDE DEF b
  <2>12. CASE n < Wanted(n)
    <3>1. phase' = "rejected" /\ file'.given < file'.size
      BY <2>7, <2>8, <2>9, <2>10, <2>12
    <3>2. QED BY <2>1, <2>3, <2>10, <3>1 DEF Stored
  <2>13. CASE ~(n < Wanted(n))
    <3>1. phase' = "opened" /\ bin' = Built /\ file'.given = file'.size
      BY <1>4, <2>7, <2>8, <2>9, <2>10, <2>11, <2>13
    <3>2. QED BY <2>1, <2>3, <2>10, <3>1 DEF Stored
  <2>14. QED BY <2>12, <2>13
<1>5. CASE LoadOutOfMemory \/ FreeExecutable \/ \E bound \in SUBSET Host : LoadRefused(bound) \/ Load(bound)
  <2>1. phase' \notin {"built", "opened", "saved", "rejected"}
    BY <1>5 DEF LoadOutOfMemory, FreeExecutable, LoadRefused, Load, Becomes
  <2>2. QED BY <2>1 DEF Stored
<1>6. CASE UNCHANGED buildVars
  <2>1. Built' = Built /\ UNCHANGED <<phase, bin, file>>
    BY <1>6, SameBuilt DEF buildVars, asmVars
  <2>2. QED BY <2>1 DEF Stored
<1>7. QED BY <1>1, <1>2, <1>3, <1>4, <1>5, <1>6, BuildSteps DEF Keeps

\* A Binary comes back from its file as it was saved, and only from the whole
\* file, whatever the program and however large its data
\* (serializeBinary(), deserializeBinary()).
THEOREM FileRoundTrip == BuildSpec => []RoundTrip
<1>1. LoadInit => Stored
  BY DEF LoadInit, AsmInit, Stored
<1>2. BuildInv /\ Stored /\ [BuildNext]_buildVars => Stored'
  BY NextStored DEF BuildInv, Typed
<1>3. Stored => RoundTrip
  BY DEF Stored, RoundTrip
<1>4. QED BY <1>1, <1>2, <1>3, BuildTyped, PTL DEF BuildSpec
-------------------------------------------------------------------------------
(* Where the lines went.                                                   *)

LEMMA BuildLaidOut == BuildSpec => []LaidOut
<1>1. LoadInit => LaidOut
  BY InitLaidOut DEF LoadInit
<1>2. BuildInv /\ LaidOut /\ [BuildNext]_buildVars => LaidOut'
  <2> SUFFICES ASSUME LinesTyped, Numbers, LaidOut, [BuildNext]_buildVars PROVE LaidOut'
    BY DEF BuildInv, Typed
  <2>1. CASE AsmNext
    BY <2>1, NextLaidOut
  <2>2. CASE Keeps \/ UNCHANGED buildVars
    <3>1. /\ UNCHANGED <<origin, text, heads, parsed>>
          /\ phase' \in {"relax", "estimate"} => phase \in {"relax", "estimate"}
      BY <2>2, KeepsOthers DEF buildVars, asmVars
    <3>2. UNCHANGED <<Plain, Consumed, HeaderDone>>
      BY <3>1 DEF Plain, Names, Consumed, HeaderDone
    <3>3. AllSound(parsed', Plain', heads')
      BY <3>1, <3>2 DEF LaidOut
    <3>4. QED BY <3>1, <3>2, <3>3 DEF LaidOut
  <2>3. QED BY <2>1, <2>2, BuildSteps
<1>3. QED BY <1>1, <1>2, BuildTyped, PTL DEF BuildSpec

\* In every program, a function and a global's slot begin on a word boundary,
\* where call8 and l32r reach them, and no loop's first instruction straddles
\* one (addInstr(), FIND_LABEL in calculateJump()).
THEOREM AlwaysAligned == BuildSpec => []Aligned
<1>1. BuildInv /\ LaidOut => Aligned
  BY LaidOutAligned DEF BuildInv, Typed
<1>2. QED BY <1>1, BuildTyped, BuildLaidOut, PTL

-------------------------------------------------------------------------------
(* What a loaded script reaches.                                           *)

\* What is not the assembler's leaves the lines and the entries alone.
LEMMA KeepsPlaces ==
    ASSUME Keeps \/ UNCHANGED buildVars
    PROVE  UNCHANGED <<origin, text, heads, parsed, pos, bad, Plain, Declared, Consumed, HeaderDone>>
<1>1. UNCHANGED <<origin, text, heads, parsed, pos, bad>>
  BY KeepsOthers DEF buildVars, asmVars
<1>2. QED BY <1>1 DEF Plain, Declared, Names, Consumed, HeaderDone

Places == Slots /\ Labels /\ Staged

LEMMA BuildPlaces == BuildSpec => []Places
<1>1. LoadInit => Places
  BY InitPlaced DEF LoadInit, Places
<1>2. BuildInv /\ Places /\ [BuildNext]_buildVars => Places'
  <2> SUFFICES ASSUME LinesTyped, Numbers, Slots, Labels, Staged, [BuildNext]_buildVars PROVE Places'
    BY DEF BuildInv, Typed, Places
  <2>1. CASE AsmNext
    BY <2>1, NextSlots, NextLabels, NextStaged DEF Places
  <2>2. CASE Keeps \/ UNCHANGED buildVars
    <3>1. UNCHANGED <<origin, parsed, pos, Plain, Declared, Consumed, HeaderDone>>
      BY <2>2, KeepsPlaces
    <3>2. Slots'
      BY <3>1 DEF Slots
    <3>3. Names(origin, {"aligned"})' = Names(origin, {"aligned"})
      BY <3>1 DEF Names
    <3>4. Labels'
      BY <3>1, <3>3 DEF Labels
    <3>5. Staged'
      BY <3>1 DEF Staged
    <3>6. QED BY <3>2, <3>4, <3>5 DEF Places
  <2>3. QED BY <2>1, <2>2, BuildSteps
<1>3. QED BY <1>1, <1>2, BuildTyped, PTL DEF BuildSpec

\* Once calculateJump() is done, everything that a jump or a load names has a
\* label.
JumpsFound ==
    phase \in {"header"} \cup (Done \ {"outOfRange"}) =>
        \A i \in DOMAIN parsed : parsed[i].op \in {"jump", "jump_32aligned"} =>
            FindLabel(parsed, parsed[i].name) # 0

\* What a loaded executable holds is what the Binary of the entries says.
BuiltOf(types) == {r \in Built.records : r.type \in types}
BuiltWords ==
    [s \in {r.slot : r \in BuiltOf(Slotted)} |->
        LET r == CHOOSE r \in BuiltOf(Slotted) : r.slot = s
        IN  IF r.type = "data_label" THEN [data |-> r.data] ELSE [host |-> r.name]]
BuiltCopies ==
    {[from |-> Built.instr + r.staged, to |-> r.address, size |-> r.size] : r \in BuiltOf({"data"})}
LoadedBuilt ==
    phase = "loaded" => exe = [words |-> BuiltWords, copies |-> BuiltCopies,
                               functions |-> BuiltOf({"function_declaration"}),
                               json |-> BuiltOf({"json_binding"}), data |-> Built.data]

LEMMA NextFound == ASSUME JumpsFound, [BuildNext]_buildVars PROVE JumpsFound'
<1>1. CASE CalculateJump
  <2>1. parsed' = parsed
    BY <1>1 DEF CalculateJump
  <2>2. CASE \E i \in Jumps : FindLabel(parsed, parsed[i].name) = 0
    BY <1>1, <2>2 DEF CalculateJump, JumpsFound, Done
  <2>3. CASE ~ \E i \in Jumps : FindLabel(parsed, parsed[i].name) = 0
    BY <2>1, <2>3 DEF Jumps, JumpsFound
  <2>4. QED BY <2>2, <2>3
<1>2. CASE CreateBinaryHeader
  BY <1>2 DEF CreateBinaryHeader, JumpsFound
<1>3. CASE AsmNext /\ ~CalculateJump /\ ~CreateBinaryHeader
  <2>1. phase' \notin {"header"} \cup (Done \ {"outOfRange"})
    BY <1>3 DEF AsmNext, BeginPass, RelaxLine, EndPass, Estimate, AssembleLabel, AssembleData,
                AssembleInstr, AssembleCall, Reads, EndAssembly, CheckRange, Done
  <2>2. QED BY <2>1 DEF JumpsFound
<1>4. CASE Keeps
  <2>1. parsed' = parsed /\ phase \in Done \ {"outOfRange"}
    BY <1>4, KeepsOthers DEF Done
  <2>2. QED BY <2>1 DEF JumpsFound
<1>5. CASE UNCHANGED buildVars
  <2>1. UNCHANGED <<parsed, phase>>
    BY <1>5 DEF buildVars, asmVars
  <2>2. QED BY <2>1 DEF JumpsFound
<1>6. QED BY <1>1, <1>2, <1>3, <1>4, <1>5, BuildSteps

LEMMA NextLoaded == ASSUME Stored, LoadedBuilt, [BuildNext]_buildVars PROVE LoadedBuilt'
<1>1. ASSUME NEW bound \in SUBSET Host, Load(bound) PROVE LoadedBuilt'
  <2>1. bin = Built /\ Built' = Built
    BY <1>1, KeepsBuilt DEF Load, Stored, Keeps
  <2>2. \A types : Of(types) = BuiltOf(types)
    BY <2>1 DEF Of, BuiltOf
  <2>3. Of({"data_label"}) \cup (Externals \ Unbound(bound)) = BuiltOf(Slotted)
    <3>1. Unbound(bound) = {}
      BY <1>1 DEF Load
    <3>2. Of({"data_label"}) \cup Externals = Of(Slotted)
      BY DEF Of, Externals, Slotted
    <3>3. QED BY <2>2, <3>1, <3>2
  <2>4. Words(bound) = BuiltWords
    BY <2>2, <2>3 DEF Words, BuiltWords
  <2>5. Copies = BuiltCopies
    BY <2>1, <2>2 DEF Copies, BuiltCopies
  <2>6. exe' = [words |-> BuiltWords, copies |-> BuiltCopies,
                functions |-> BuiltOf({"function_declaration"}),
                json |-> BuiltOf({"json_binding"}), data |-> Built.data]
    BY <1>1, <2>1, <2>2, <2>4, <2>5 DEF Load, Functions, Json
  <2>7. /\ BuiltWords' = BuiltWords /\ BuiltCopies' = BuiltCopies
        /\ BuiltOf({"function_declaration"})' = BuiltOf({"function_declaration"})
        /\ BuiltOf({"json_binding"})' = BuiltOf({"json_binding"})
    BY <2>1 DEF BuiltOf, BuiltWords, BuiltCopies
  <2>8. QED BY <2>1, <2>6, <2>7 DEF LoadedBuilt
<1>2. CASE UNCHANGED buildVars
  <2>1. Built' = Built /\ UNCHANGED <<phase, exe>>
    BY <1>2, SameBuilt DEF buildVars, asmVars
  <2>2. /\ BuiltWords' = BuiltWords /\ BuiltCopies' = BuiltCopies
        /\ BuiltOf({"function_declaration"})' = BuiltOf({"function_declaration"})
        /\ BuiltOf({"json_binding"})' = BuiltOf({"json_binding"})
    BY <2>1 DEF BuiltOf, BuiltWords, BuiltCopies
  <2>3. QED BY <2>1, <2>2 DEF LoadedBuilt
<1>3. CASE AsmNext
  <2>1. phase' # "loaded"
    BY <1>3 DEF AsmNext, BeginPass, RelaxLine, EndPass, Estimate, AssembleLabel, AssembleData,
                AssembleInstr, AssembleCall, Reads, EndAssembly, CheckRange, CalculateJump,
                CreateBinaryHeader
  <2>2. QED BY <2>1 DEF LoadedBuilt
<1>4. CASE Keeps /\ ~ \E bound \in SUBSET Host : Load(bound)
  <2>1. phase' # "loaded"
    BY <1>4 DEF Keeps, Save, OpenBuffer, LoadOutOfMemory, LoadRefused, FreeExecutable, Becomes
  <2>2. QED BY <2>1 DEF LoadedBuilt
<1>5. QED BY <1>1, <1>2, <1>3, <1>4, BuildSteps DEF Keeps

\* What a record says of its entry.
LEMMA RecordSays ==
    ASSUME NEW i \in DOMAIN parsed, parsed[i].op \in Recorded
    PROVE  /\ Record(i).type = parsed[i].op
           /\ parsed[i].op \in Slotted => Record(i).slot = SlotAt(i)
           /\ parsed[i].op = "data_label" => Record(i).data = parsed[i].data
           /\ parsed[i].op \in {"external_var_label", "external_call", "function_declaration",
                               "json_binding"} => Record(i).name = parsed[i].name
           /\ parsed[i].op = "json_binding" => Record(i).data =
                  IF FindLabel(parsed, parsed[i].name) = 0 THEN 0
                  ELSE parsed[FindLabel(parsed, parsed[i].name)].data
           /\ parsed[i].op = "data" => /\ Record(i).address = parsed[i].address
                                       /\ Record(i).staged = StagedAt(i)
                                       /\ Record(i).size = parsed[i].size
           /\ parsed[i].op = "function_declaration" => Record(i).address =
                  IF FindLabel(parsed, parsed[i].name) = 0 THEN 0
                  ELSE parsed[FindLabel(parsed, parsed[i].name)].address
BY DEF Record, Recorded, Slotted

LEMMA BuiltRecords ==
    ASSUME NEW types, types \subseteq Recorded
    PROVE  /\ \A i \in DOMAIN parsed : parsed[i].op \in types => Record(i) \in BuiltOf(types)
           /\ \A r \in BuiltOf(types) : \E i \in DOMAIN parsed : parsed[i].op \in types /\ r = Record(i)
<1>1. ASSUME NEW i \in DOMAIN parsed, parsed[i].op \in types PROVE Record(i) \in BuiltOf(types)
  <2>1. Record(i).type = parsed[i].op /\ parsed[i].op \in Recorded
    BY <1>1, RecordSays
  <2>2. Record(i) \in Built.records
    BY <2>1 DEF Built
  <2>3. QED BY <1>1, <2>1, <2>2 DEF BuiltOf
<1>2. ASSUME NEW r \in BuiltOf(types)
      PROVE  \E i \in DOMAIN parsed : parsed[i].op \in types /\ r = Record(i)
  <2>1. r \in Built.records /\ r.type \in types
    BY DEF BuiltOf
  <2>2. PICK i \in DOMAIN parsed : parsed[i].op \in Recorded /\ r = Record(i)
    BY <2>1 DEF Built
  <2>3. QED BY <2>1, <2>2, RecordSays
<1>3. QED BY <1>1, <1>2

LEMMA StagedWhere == ASSUME NEW i PROVE StagedAt(i) = Running(StringBytes(parsed))[i - 1]
BY DEF StagedAt, SumTo, StringBytes

LEMMA LoadedReaches ==
    ASSUME Numbers, Places, JumpsFound, LoadedBuilt
    PROVE  LoadedCode
<1> SUFFICES ASSUME phase = "loaded" PROVE LoadedCode
  BY DEF LoadedCode
<1>1. /\ exe.words = BuiltWords /\ exe.copies = BuiltCopies
      /\ exe.functions = BuiltOf({"function_declaration"})
  BY DEF LoadedBuilt
<1>2. parsed \in Seq(EntryType) /\ Slotted \subseteq Recorded
  BY DEF Numbers, Recorded
<1>3. ASSUME NEW i \in Jumps, parsed[i].op = "jump_32aligned",
             parsed[FindLabel(parsed, parsed[i].name)].op \in Slotted
      PROVE  LET l == parsed[FindLabel(parsed, parsed[i].name)]
                 slot == l.address \div 4
             IN  /\ slot \in DOMAIN exe.words
                 /\ exe.words[slot] = IF l.op = "data_label" THEN [data |-> l.data]
                                      ELSE [host |-> l.name]
  <2> DEFINE k == FindLabel(parsed, parsed[i].name)
             s == SlotAt(k)
  <2>1. k \in DOMAIN parsed /\ k \in Nat \ {0}
    <3>1. k # 0
      BY <1>3 DEF JumpsFound, Done, Jumps
    <3>2. k \in DOMAIN parsed
      BY <1>2, <3>1, Found
    <3>3. QED BY <1>2, <3>1, <3>2
  <2>2. parsed[k].op \in Slotted
    BY <1>3
  <2> HIDE DEF k
  <2>3. SlotAt(k) = SlotOf(parsed, k) /\ SlotOf(parsed, k) \in Nat
    BY <2>1, SlotsCounted DEF SlotAt, SlotOf
  <2>4. parsed[k].address \div 4 = s
    <3>1. parsed[k].address = 4 * s
      BY <2>1, <2>2, <2>3 DEF Places, Slots, SlotsIn
    <3>2. s \in Nat
      BY <2>3
    <3> HIDE DEF s
    <3>3. QED BY <3>1, <3>2
  <2>5. Record(k) \in BuiltOf(Slotted) /\ Record(k).slot = s
    BY <1>2, <2>1, <2>2, BuiltRecords, RecordSays
  <2>6. ASSUME NEW r \in BuiltOf(Slotted), r.slot = s PROVE r = Record(k)
    <3>1. PICK j \in DOMAIN parsed : parsed[j].op \in Slotted /\ r = Record(j)
      BY <1>2, BuiltRecords
    <3>2. j \in Nat \ {0}
      BY <1>2
    <3>3. SlotAt(j) = s
      BY <1>2, <2>6, <3>1, RecordSays
    <3>4. SlotOf(parsed, j) = SlotOf(parsed, k)
      BY <2>3, <3>3 DEF SlotAt, SlotOf
    <3>5. j = k
      BY <2>1, <2>2, <3>1, <3>2, <3>4, SlotsDiffer
    <3>6. QED BY <3>1, <3>5
  <2> HIDE DEF s
  <2>7. (CHOOSE r \in BuiltOf(Slotted) : r.slot = s) = Record(k)
    BY <2>5, <2>6
  <2>8. s \in {r.slot : r \in BuiltOf(Slotted)}
    BY <2>5
  <2>9. /\ s \in DOMAIN BuiltWords
        /\ BuiltWords[s] = IF Record(k).type = "data_label" THEN [data |-> Record(k).data]
                           ELSE [host |-> Record(k).name]
    BY <2>7, <2>8 DEF BuiltWords
  <2>10. /\ Record(k).type = parsed[k].op
         /\ parsed[k].op = "data_label" => Record(k).data = parsed[k].data
         /\ parsed[k].op # "data_label" => Record(k).name = parsed[k].name
    BY <1>2, <2>1, <2>2, RecordSays DEF Slotted
  <2>11. /\ s \in DOMAIN exe.words
         /\ exe.words[s] = IF parsed[k].op = "data_label" THEN [data |-> parsed[k].data]
                           ELSE [host |-> parsed[k].name]
    BY <1>1, <2>9, <2>10
  <2>12. QED BY <2>4, <2>11 DEF k
<1>4. ASSUME NEW r \in exe.functions, FindLabel(parsed, r.name) # 0
      PROVE  r.address = parsed[FindLabel(parsed, r.name)].address
  <2>1. {"function_declaration"} \subseteq Recorded
    BY DEF Recorded
  <2>2. PICK i \in DOMAIN parsed : parsed[i].op \in {"function_declaration"} /\ r = Record(i)
    BY <1>1, <2>1, BuiltRecords
  <2>3. QED BY <1>4, <2>1, <2>2, RecordSays
<1>5. exe.copies = {[from |-> size.instr + e.staged, to |-> e.address, size |-> e.size] :
                        e \in {parsed[i] : i \in {i \in DOMAIN parsed : parsed[i].op = "data"}}}
  <2> DEFINE copy(from, to, bytes) == [from |-> from, to |-> to, size |-> bytes]
             D == {i \in DOMAIN parsed : parsed[i].op = "data"}
  <2>1. {"data"} \subseteq Recorded
    BY DEF Recorded
  <2>2. ASSUME NEW i \in D
        PROVE  /\ Record(i).staged = parsed[i].staged /\ Record(i).address = parsed[i].address
               /\ Record(i).size = parsed[i].size /\ Record(i) \in BuiltOf({"data"})
    <3>1. i \in DOMAIN parsed /\ parsed[i].op = "data" /\ parsed[i].op \in Recorded
      BY <2>1, <2>2
    <3>2. Record(i).staged = StagedAt(i) /\ Record(i).address = parsed[i].address
          /\ Record(i).size = parsed[i].size
      BY <3>1, RecordSays
    <3>3. StagedAt(i) = parsed[i].staged
      BY <3>1, StagedWhere DEF Places, Staged, StagedIn
    <3>4. Record(i) \in BuiltOf({"data"})
      BY <2>1, <3>1, BuiltRecords
    <3>5. QED BY <3>2, <3>3, <3>4
  <2>3. \A r \in BuiltOf({"data"}) : \E i \in D : r = Record(i)
    BY <2>1, BuiltRecords
  <2>4. Built.instr = size.instr
    BY DEF Built
  <2>5. BuiltCopies = {copy(size.instr + r.staged, r.address, r.size) : r \in BuiltOf({"data"})}
    BY <2>4 DEF BuiltCopies
  <2> HIDE DEF copy, D
  <2>6. {copy(size.instr + r.staged, r.address, r.size) : r \in BuiltOf({"data"})}
            = {copy(size.instr + e.staged, e.address, e.size) : e \in {parsed[i] : i \in D}}
    BY <2>2, <2>3
  <2>7. BuiltCopies = {copy(size.instr + e.staged, e.address, e.size) : e \in {parsed[i] : i \in D}}
    BY <2>5, <2>6
  <2>8. QED BY <1>1, <2>7 DEF copy, D
<1>6. QED BY <1>3, <1>4, <1>5 DEF LoadedCode

\* Whatever the program, what a loaded script reaches through a slot is what its
\* source line named, a function record holds the address of the function's
\* label, and a string is copied from where it was staged: although slots and
\* strings are counted once while lines are assembled and again, by
\* createBinaryHeader(), from the entries.
THEOREM LoadedCodeReaches == BuildSpec => []LoadedCode
<1>1. LoadInit => JumpsFound /\ LoadedBuilt
  BY DEF LoadInit, AsmInit, JumpsFound, LoadedBuilt, Done
<1>2. JumpsFound /\ [BuildNext]_buildVars => JumpsFound'
  BY NextFound
<1>3. BuildInv /\ Stored /\ [BuildNext]_buildVars => Stored'
  BY NextStored DEF BuildInv, Typed
<1>4. Stored /\ LoadedBuilt /\ [BuildNext]_buildVars => LoadedBuilt'
  BY NextLoaded
<1>5. LoadInit => Stored
  BY DEF LoadInit, AsmInit, Stored
<1>6. BuildInv /\ Places /\ JumpsFound /\ LoadedBuilt => LoadedCode
  BY LoadedReaches DEF BuildInv, Typed
<1>7. QED BY <1>1, <1>2, <1>3, <1>4, <1>5, <1>6, BuildTyped, BuildPlaces, PTL DEF BuildSpec

-------------------------------------------------------------------------------
(* Where the globals of a loaded script are.                               *)

LEMMA BuildReserves == BuildSpec => []Reserves
<1>1. LoadInit => Reserves
  BY InitReserves DEF LoadInit
<1>2. BuildInv /\ Places /\ Reserves /\ [BuildNext]_buildVars => Reserves'
  <2> SUFFICES ASSUME LinesTyped, Numbers, Slots, Labels, ReservedApart, JsonListed, [BuildNext]_buildVars
               PROVE  Reserves'
    BY DEF BuildInv, Typed, Places, Reserves
  <2>1. CASE AsmNext
    BY <2>1, NextReserved, NextJson DEF Reserves
  <2>2. CASE Keeps \/ UNCHANGED buildVars
    <3>1. UNCHANGED <<origin, parsed, pos, bad, Consumed>>
      BY <2>2, KeepsPlaces
    <3>2. ReservedApart'
      BY <3>1 DEF ReservedApart, Reservation, HasBytes, Place, Declares
    <3>3. JsonListed'
      BY <3>1 DEF JsonListed
    <3>4. QED BY <3>2, <3>3 DEF Reserves
  <2>3. QED BY <2>1, <2>2, BuildSteps
<1>3. QED BY <1>1, <1>2, BuildTyped, BuildPlaces, PTL DEF BuildSpec

LEMMA LoadedApart ==
    ASSUME LinesTyped, Numbers, Phases, Reserves, LoadedBuilt
    PROVE  GlobalsApart
<1> SUFFICES ASSUME phase = "loaded" PROVE GlobalsApart
  BY DEF GlobalsApart
<1> DEFINE h == origin["header"]
<1>1. ~bad /\ text["header"] = <<>>
  BY DEF Phases, Done, Part
<1>2. h \in Seq(Line) /\ Consumed = Len(h)
  <2>1. h \in Seq(Line)
    BY ProgramTyped DEF LinesTyped, Part
  <2>2. Len(text["header"]) = 0
    BY <1>1
  <2>3. QED BY <2>1, <2>2 DEF Consumed
<1>3. exe.data = pos.data /\ exe.json = BuiltOf({"json_binding"})
  BY DEF LoadedBuilt, Built
<1>4. ASSUME NEW i \in Globals
      PROVE  i \in 1 .. Consumed /\ Reservation(i) /\ Start(i) = Place(i) /\ HasBytes(i)
  <2>1. i \in 1 .. Consumed /\ Reservation(i)
    BY <1>2 DEF Globals, Reservation
  <2>2. HasBytes(i)
    BY <1>1, <2>1 DEF Reserves, ReservedApart
  <2>3. Start(i) = Place(i)
    BY DEF Start, Place, Declares
  <2>4. QED BY <2>1, <2>2, <2>3
<1>5. ASSUME NEW i \in Globals PROVE Start(i) + origin.header[i].n <= exe.data
  BY <1>3, <1>4 DEF HasBytes
<1>6. ASSUME NEW i \in Globals, NEW j \in Globals, i < j PROVE Start(i) + origin.header[i].n <= Start(j)
  <2>1. Place(i) + h[i].n <= Place(j)
    BY <1>1, <1>4, <1>6 DEF Reserves, ReservedApart
  <2>2. QED BY <1>4, <2>1
<1>7. ASSUME NEW r \in exe.json
      PROVE  \E i \in Globals : origin.header[i - 1].name = r.name /\ r.data = Start(i)
  <2>1. {"json_binding"} \subseteq Recorded
    BY DEF Recorded
  <2>2. PICK i \in DOMAIN parsed : parsed[i].op \in {"json_binding"} /\ r = Record(i)
    BY <1>3, <2>1, BuiltRecords
  <2>3. /\ r.name = parsed[i].name
        /\ r.data = IF FindLabel(parsed, parsed[i].name) = 0 THEN 0
                    ELSE parsed[FindLabel(parsed, parsed[i].name)].data
    BY <2>1, <2>2, RecordSays
  <2>4. PICK j \in DOMAIN h : h[j].op \in {"json"} /\ h[j].name = r.name
    <3>1. r.name \in NamesOf(h, {"json"})
      BY <2>2, <2>3 DEF Reserves, JsonListed
    <3>2. QED BY <3>1, Unlisted
  <2>5. PICK k \in DOMAIN h : h[k].op = "aligned" /\ h[k].name = r.name
    BY <2>4, JsonDeclared DEF LinesTyped
  <2>6. k < Len(h) /\ h[k + 1].op \in {"bytes", "string"}
    BY <2>5, GeneratedNames DEF LinesTyped
  <2>7. k + 1 \in Globals /\ (k + 1) - 1 = k
    BY <1>2, <2>6 DEF Globals
  <2>8. Declares(k + 1) = r.name /\ FindLabel(parsed, r.name) # 0
    BY <1>4, <2>5, <2>7 DEF Declares, HasBytes
  <2>9. r.data = Start(k + 1)
    BY <1>4, <2>3, <2>7, <2>8 DEF Place
  <2>10. origin.header[(k + 1) - 1].name = r.name
    BY <2>5, <2>7
  <2>11. QED BY <2>7, <2>9, <2>10
<1>8. QED BY <1>5, <1>6, <1>7 DEF GlobalsApart

\* Whatever the program and however large its data, every global of a loaded
\* script has its own bytes of the data memory, also after a round trip through
\* a file, and a JSON variable is one of them
\* (op_byte parsing in parseline(), createBinaryHeader()).
THEOREM GlobalsStayApart == BuildSpec => []GlobalsApart
<1>1. LoadInit => Stored /\ LoadedBuilt
  BY DEF LoadInit, AsmInit, Stored, LoadedBuilt
<1>2. BuildInv /\ Stored /\ [BuildNext]_buildVars => Stored'
  BY NextStored DEF BuildInv, Typed
<1>3. Stored /\ LoadedBuilt /\ [BuildNext]_buildVars => LoadedBuilt'
  BY NextLoaded
<1>4. BuildInv /\ Reserves /\ LoadedBuilt => GlobalsApart
  BY LoadedApart DEF BuildInv, Typed
<1>5. QED BY <1>1, <1>2, <1>3, <1>4, BuildTyped, BuildReserves, PTL DEF BuildSpec

-------------------------------------------------------------------------------
(* The buffers suffice.                                                    *)

LEMMA BuildRoom == BuildSpec /\ []EstimateFits => []Room
<1>1. LoadInit => Room
  BY InitRoom DEF LoadInit
<1>2. BuildInv /\ Places /\ EstimateFits /\ Room /\ [BuildNext]_buildVars => Room'
  <2> SUFFICES ASSUME LinesTyped, Numbers, Slots, Labels, EstimateFits, Room, [BuildNext]_buildVars
               PROVE  Room'
    BY DEF BuildInv, Typed, Places
  <2>1. CASE AsmNext
    BY <2>1, NextRoom
  <2>2. CASE Keeps
    <3>1. /\ UNCHANGED <<text, heads, parsed, pos, size>>
          /\ phase \notin {"relax", "estimate"} /\ phase' \notin {"relax", "estimate"}
      BY <2>2, KeepsOthers
    <3>2. QED BY <3>1, SameRoom
  <2>3. CASE UNCHANGED buildVars
    <3>1. UNCHANGED <<text, heads, parsed, pos, size, phase>>
      BY <2>3 DEF buildVars, asmVars
    <3>2. QED BY <3>1, SameRoom
  <2>4. QED BY <2>1, <2>2, <2>3, BuildSteps
<1>3. QED BY <1>1, <1>2, BuildTyped, BuildPlaces, PTL DEF BuildSpec

\* Whatever its lines, a program whose estimate stays within 16 bits is never
\* assembled past the buffer that parseASM() allocates from it, nor are its
\* strings staged past theirs: padding, host calls and slots are all counted.
THEOREM CodeAlwaysFits == BuildSpec /\ []EstimateFits => []CodeFits
<1>1. BuildInv /\ Room => CodeFits
  BY RoomFits DEF BuildInv, Typed
<1>2. QED BY <1>1, BuildTyped, BuildRoom, PTL

-------------------------------------------------------------------------------
(* Branches reach.                                                         *)

Relaxed == AllMatched /\ PassedSure /\ DoneSure

LEMMA NextRelaxed ==
    ASSUME LinesTyped, Relaxed, [BuildNext]_buildVars
    PROVE  Relaxed'
<1>1. CASE AsmNext
  <2>1. CASE Relaxes
    BY <2>1, RelaxSure DEF Relaxed
  <2>2. CASE ~Relaxes
    <3>1. phase' \notin {"relax", "estimate"}
      BY <1>1, <2>2 DEF AsmNext, Relaxes, Estimate, AssembleLabel, AssembleData, AssembleInstr, AssembleCall,
                       Reads, EndAssembly, CheckRange, CalculateJump, CreateBinaryHeader
    <3>2. QED BY <3>1 DEF Relaxed, AllMatched, PassedSure, DoneSure
  <2>3. QED BY <2>1, <2>2
<1>2. CASE Keeps
  <2>1. phase' \notin {"relax", "estimate"}
    BY <1>2, KeepsOthers
  <2>2. QED BY <2>1 DEF Relaxed, AllMatched, PassedSure, DoneSure
<1>3. CASE UNCHANGED buildVars
  <2>1. UNCHANGED <<phase, origin, text, scan>>
    BY <1>3 DEF buildVars, asmVars
  <2>2. QED BY <2>1 DEF Relaxed, AllMatched, PassedSure, DoneSure
<1>4. QED BY <1>1, <1>2, <1>3, BuildSteps

LEMMA NextBuildPlaced ==
    ASSUME LinesTyped, Numbers, Labels, LaidOut, Relaxed, Placed, [BuildNext]_buildVars
    PROVE  Placed'
<1>1. CASE AsmNext
  BY <1>1, NextPlaced DEF Relaxed
<1>2. CASE Keeps
  <2>1. phase' \notin {"assemble", "check"}
    BY <1>2, KeepsOthers
  <2>2. QED BY <2>1 DEF Placed
<1>3. CASE UNCHANGED buildVars
  <2>1. UNCHANGED <<phase, origin, text, parsed, pos, bad>>
    BY <1>3 DEF buildVars, asmVars
  <2>2. CASE phase \notin {"assemble", "check"}
    BY <2>1, <2>2 DEF Placed
  <2>3. CASE phase \in {"assemble", "check"}
    <3>1. PICK L : SureLines(L) /\ \E A : PlacedAs(L, A)
      BY <2>3 DEF Placed
    <3>2. PICK A : PlacedAs(L, A)
      BY <3>1
    <3>3. SureLines(L)'
      BY <2>1, <3>1 DEF SureLines
    <3>4. \A q \in CodePart : Read(L, q)' = Read(L, q)
      BY <2>1 DEF Read
    <3>5. "content" \in CodePart /\ "footer" \in CodePart
      BY DEF CodePart
    <3>6. PlacedAs(L, A)'
      BY <2>1, <3>2, <3>4, <3>5 DEF PlacedAs
    <3>7. QED BY <3>3, <3>6 DEF Placed
  <2>4. QED BY <2>2, <2>3
<1>4. QED BY <1>1, <1>2, <1>3, BuildSteps

LEMMA BuildPlaced == BuildSpec => [](Relaxed /\ Placed)
<1>1. LoadInit => Relaxed /\ Placed
  BY InitSure, InitPlacedLines DEF LoadInit, Relaxed
<1>2. BuildInv /\ LaidOut /\ Places /\ Relaxed /\ Placed /\ [BuildNext]_buildVars => (Relaxed /\ Placed)'
  BY NextRelaxed, NextBuildPlaced DEF BuildInv, Typed, Places
<1>3. QED BY <1>1, <1>2, BuildTyped, BuildLaidOut, BuildPlaces, PTL DEF BuildSpec

\* However long the Texts and however the lines are padded, a branch that is
\* out of range when parseASMRelaxed() checks is a program's own, to a label of
\* the other Text: relaxBranches() has left no other branch that might not
\* reach, though it measures distances in bounds, before any line has a place.
THEOREM BranchesAlwaysReach == BuildSpec => []BranchesReach
<1>1. BuildInv /\ Placed => BranchesReach
  <2>1. ASSUME BuildInv, phase = "check" PROVE ~bad /\ \A p \in Part : text[p] = <<>>
    BY <2>1 DEF BuildInv, Phases, Assembling
  <2>2. QED BY <2>1, PlacedReach DEF BuildInv, Typed
<1>2. QED BY <1>1, BuildTyped, BuildPlaced, PTL

LEMMA NextTraced ==
    ASSUME LinesTyped, Traced, PassKeeps, [BuildNext]_buildVars
    PROVE  (Traced /\ PassKeeps)'
<1>1. CASE AsmNext
  <2>1. CASE Relaxes
    BY <2>1, RelaxTraced
  <2>2. CASE ~Relaxes
    <3>1. phase' \notin {"relax", "estimate"}
      BY <1>1, <2>2 DEF AsmNext, Relaxes, Estimate, AssembleLabel, AssembleData, AssembleInstr, AssembleCall,
                       Reads, EndAssembly, CheckRange, CalculateJump, CreateBinaryHeader
    <3>2. QED BY <3>1 DEF Traced, PassKeeps
  <2>3. QED BY <2>1, <2>2
<1>2. CASE Keeps
  <2>1. phase' \notin {"relax", "estimate"}
    BY <1>2, KeepsOthers
  <2>2. QED BY <2>1 DEF Traced, PassKeeps
<1>3. CASE UNCHANGED buildVars
  <2>1. UNCHANGED <<phase, origin, text, scan, relaxed>>
    BY <1>3 DEF buildVars, asmVars
  <2>2. QED BY <2>1 DEF Traced, PassKeeps
<1>4. QED BY <1>1, <1>2, <1>3, BuildSteps

LEMMA BuildTraced == BuildSpec => [](Traced /\ PassKeeps)
<1>1. LoadInit => Traced /\ PassKeeps
  BY InitTraced DEF LoadInit
<1>2. BuildInv /\ (Traced /\ PassKeeps) /\ [BuildNext]_buildVars => (Traced /\ PassKeeps)'
  BY NextTraced DEF BuildInv, Typed
<1>3. QED BY <1>1, <1>2, BuildTyped, PTL DEF BuildSpec

\* However many branches relaxBranches() relaxes, in however many passes, the
\* line that control comes to from each of them, taken or not, through the
\* inverse branch, the jump and the label that relaxBranch() puts in, is the one
\* it came to in the program: no other line has those labels, and no branch is
\* relaxed a second time.
THEOREM ControlAlwaysPreserved == BuildSpec => []ControlPreserved
<1>1. BuildInv /\ (Traced /\ PassKeeps) => ControlPreserved
  BY TracedControl DEF BuildInv, Typed
<1>2. QED BY <1>1, BuildTyped, BuildTraced, PTL

LEMMA NextUses ==
    ASSUME LinesTyped, NumbersUsed, [BuildNext]_buildVars
    PROVE  NumbersUsed'
<1>1. CASE AsmNext
  <2>1. CASE Relaxes
    BY <2>1, RelaxUses
  <2>2. CASE ~Relaxes
    <3>1. phase' \notin {"relax", "estimate"}
      BY <1>1, <2>2 DEF AsmNext, Relaxes, Estimate, AssembleLabel, AssembleData, AssembleInstr, AssembleCall,
                       Reads, EndAssembly, CheckRange, CalculateJump, CreateBinaryHeader
    <3>2. QED BY <3>1 DEF NumbersUsed
  <2>3. QED BY <2>1, <2>2
<1>2. CASE Keeps
  <2>1. phase' \notin {"relax", "estimate"}
    BY <1>2, KeepsOthers
  <2>2. QED BY <2>1 DEF NumbersUsed
<1>3. CASE UNCHANGED buildVars
  <2>1. UNCHANGED <<phase, text, relaxed>>
    BY <1>3 DEF buildVars, asmVars
  <2>2. QED BY <2>1 DEF NumbersUsed
<1>4. QED BY <1>1, <1>2, <1>3, BuildSteps

LEMMA BuildUses == BuildSpec => []NumbersUsed
<1>1. LoadInit => NumbersUsed
  <2>1. SUFFICES ASSUME relaxed = 0 PROVE \A c \in Nat : ~(c < relaxed)
    BY DEF LoadInit, AsmInit, NumbersUsed
  <2>2. QED BY <2>1
<1>2. BuildInv /\ NumbersUsed /\ [BuildNext]_buildVars => NumbersUsed'
  BY NextUses DEF BuildInv, Typed
<1>3. QED BY <1>1, <1>2, BuildTyped, PTL DEF BuildSpec

\* relaxBranches() changes the Texts of a program at most as often as it has
\* branches: an inverse branch, which has a jump and a label to go over, is
\* never measured too far, in this pass or a later one. So its loop, which goes
\* on while a pass changes something, converges, as its comment says.
THEOREM RelaxingConverges == BuildSpec => []RelaxesEachOnce
<1>1. BuildInv /\ (Traced /\ PassKeeps) /\ NumbersUsed => RelaxesEachOnce
  BY TracedOnce DEF BuildInv, Typed
<1>2. QED BY <1>1, BuildTyped, BuildTraced, BuildUses, PTL
===============================================================================
