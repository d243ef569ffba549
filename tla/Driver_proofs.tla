--------------------------- MODULE Driver_proofs ---------------------------
(***************************************************************************)
(* For any number of runs of the driver, however they overlap: the state   *)
(* is well formed, and only a run that died leaves the shared file behind. *)
(* A run that none overlaps compiles what its own parser has read.         *)
(***************************************************************************)
EXTENDS Driver, TLAPS

-----------------------------------------------------------------------------
(* Type correctness *)

\* A run reads through an inode it has opened, and a parser that still writes
\* has a chunk left to write.
Strengthened ==
  \A p \in Runs :
    /\ pc[p] = "read" => tree[p] \in Runs
    /\ pc[p] = "compile" => tree[p] \in Content
    /\ child[p] = "writing" => written[p] < Chunks
    /\ child[p] \in {"none", "parsing", "reporting", "opening"} => written[p] = 0
    /\ pc[p] = "start" => child[p] = "none"

TypeInv == TypeOK /\ Strengthened

LEMMA OverwriteContent ==
  ASSUME NEW content \in Content, NEW k \in Nat \ {0},
         NEW program \in Programs \cup {None}
  PROVE  Overwrite(content, k, program) \in Content
  <1>. DEFINE n == IF k > Len(content) THEN k ELSE Len(content)
  <1>1. n \in Nat /\ Len(content) \in Nat
    BY DEF Content
  <1>2. \A i \in 1 .. n : i <= Len(content) => content[i] \in Programs \cup {None}
    BY <1>1 DEF Content, Hole
  <1>3. Overwrite(content, k, program)
          = [i \in 1 .. n |-> IF i = k THEN program
                              ELSE IF i <= Len(content) THEN content[i] ELSE Hole]
    BY DEF Overwrite
  <1>. HIDE DEF n
  <1>4. Overwrite(content, k, program) \in [1 .. n -> Programs \cup {None}]
    BY <1>2, <1>3 DEF Hole
  <1>. QED  BY <1>1, <1>4 DEF Content, Hole

LEMMA TypeInit == Init => TypeInv
  BY DriverAssumption DEF Init, TypeInv, TypeOK, Strengthened, Content,
     MainStates, ParserStates

LEMMA ParserTypes ==
  ASSUME TypeInv, NEW p \in Runs,
         \/ parse_file(p) \/ report(p) \/ trim_tree(p) \/ openOutput(p) \/ dump(p)
         \/ killParser(p)
  PROVE  TypeInv'
  <1>1. CASE parse_file(p)
    BY <1>1 DEF parse_file, TypeInv, TypeOK, Strengthened, ParserGoes, ParserStates, main
  <1>2. CASE report(p)
    <2>1. CASE child' = child
      BY <1>2, <2>1, DriverAssumption
         DEF report, TypeInv, TypeOK, Strengthened, ParserGoes, main
    <2>2. CASE child' = [child EXCEPT ![p] = "exit 0"] /\ pipe' = pipe
      BY <1>2, <2>2 DEF report, TypeInv, TypeOK, Strengthened, ParserStates, main
    <2>. QED  BY <1>2, <2>1, <2>2 DEF report, ParserGoes
  <1>3. CASE trim_tree(p)
    BY <1>3 DEF trim_tree, TypeInv, TypeOK, Strengthened, ParserGoes, ParserStates, main
  <1>4. CASE openOutput(p)
    <2>1. temp' \in Runs /\ <<>> \in Content
      BY <1>4, DriverAssumption DEF openOutput, TypeInv, TypeOK, Content
    <2>2. disk' \in [Runs -> Content] /\ file' \in [Runs -> Runs \cup {None}]
      BY <1>4, <2>1 DEF openOutput, TypeInv, TypeOK
    <2>3. /\ child[p] = "opening" /\ child' = [child EXCEPT ![p] = "writing"]
          /\ UNCHANGED <<source, pc, tree, parsed, pipe, written, alone>>
      BY <1>4 DEF openOutput, ParserGoes, main
    <2>4. TypeOK'
      BY <2>1, <2>2, <2>3 DEF TypeInv, TypeOK, ParserStates
    <2>5. written[p] < Chunks
      BY <2>3, DriverAssumption DEF TypeInv, Strengthened
    <2>6. Strengthened'
      BY <2>3, <2>5 DEF TypeInv, TypeOK, Strengthened
    <2>. QED  BY <2>4, <2>6 DEF TypeInv
  <1>5. CASE dump(p)
    <2>. DEFINE k == written[p] + 1
    <2>1. /\ child[p] = "writing"
          /\ disk' = [disk EXCEPT ![file[p]] = Overwrite(disk[file[p]], k, parsed[p])]
          /\ written' = [written EXCEPT ![p] = k]
          /\ child' = [child EXCEPT ![p] = IF k = Chunks THEN "exit 0" ELSE "writing"]
          /\ UNCHANGED <<source, temp, main, parsed, pipe, file, alone>>
      BY <1>5 DEF dump, ParserGoes
    <2>a. written[p] \in 0 .. Chunks /\ written[p] < Chunks
      BY <2>1 DEF TypeInv, TypeOK, Strengthened
    <2>2. k \in 1 .. Chunks /\ parsed[p] \in Programs \cup {None}
      BY <2>a, DriverAssumption DEF TypeInv, TypeOK
    <2>3. file[p] \in Runs =>
            Overwrite(disk[file[p]], k, parsed[p]) \in Content
      BY <2>2, OverwriteContent DEF TypeInv, TypeOK
    <2>4. disk' \in [Runs -> Content]
      <3>. DEFINE new == Overwrite(disk[file[p]], k, parsed[p])
      <3>. HIDE DEF new
      <3>1. file[p] \in Runs => new \in Content
        BY <2>3 DEF new
      <3>2. disk \in [Runs -> Content] /\ disk' = [disk EXCEPT ![file[p]] = new]
        BY <2>1 DEF new, TypeInv, TypeOK
      <3>. QED  BY <3>1, <3>2
    <2>. HIDE DEF k
    <2>5. k < Chunks \/ k = Chunks
      BY <2>2, DriverAssumption
    <2>6. TypeOK'
      <3>1. written' \in [Runs -> 0 .. Chunks]
        <4>1. written' = [written EXCEPT ![p] = k] /\ written \in [Runs -> 0 .. Chunks]
          BY <2>1 DEF TypeInv, TypeOK
        <4>. QED  BY <2>2, <4>1
      <3>2. child' \in [Runs -> ParserStates]
        BY <2>1 DEF TypeInv, TypeOK, ParserStates
      <3>3. UNCHANGED <<source, temp, pc, tree, parsed, pipe, file, alone>>
        BY <2>1 DEF main
      <3>. QED  BY <2>4, <3>1, <3>2, <3>3 DEF TypeInv, TypeOK
    <2>7. ASSUME NEW q \in Runs
          PROVE  /\ child'[q] = "writing" => written'[q] < Chunks
                 /\ child'[q] \in {"none", "parsing", "reporting", "opening"} =>
                      written'[q] = 0
                 /\ pc[q] = "start" => child'[q] = "none"
      <3>1. CASE q = p
        BY <2>1, <2>5, <3>1 DEF TypeInv, TypeOK, Strengthened
      <3>2. CASE q # p
        BY <2>1, <3>2 DEF TypeInv, TypeOK, Strengthened
      <3>. QED  BY <3>1, <3>2
    <2>8. Strengthened'
      BY <2>1, <2>7 DEF TypeInv, Strengthened, main
    <2>. QED  BY <2>6, <2>8 DEF TypeInv
  <1>6. CASE killParser(p)
    BY <1>6 DEF killParser, TypeInv, TypeOK, Strengthened, ParserGoes, ParserStates, main
  <1>. QED  BY <1>1, <1>2, <1>3, <1>4, <1>5, <1>6

LEMMA MainTypes ==
  ASSUME TypeInv, NEW p \in Runs,
         \/ spawn(p) \/ spawnAndWait(p) \/ openFile(p) \/ readToEndAlloc(p)
         \/ compileProgram(p) \/ deleteFile(p) \/ killDriver(p)
  PROVE  TypeInv'
  <1>1. CASE spawn(p)
    <2>1. /\ pc[p] = "start"
          /\ \/ /\ pc' = [pc EXCEPT ![p] = "wait"]
                /\ child' = [child EXCEPT ![p] = "parsing"]
             \/ /\ pc' = [pc EXCEPT ![p] = "deferred"]
                /\ child' = child
          /\ UNCHANGED <<source, temp, disk, parsed, pipe, file, written, tree>>
      BY <1>1 DEF spawn, Go, ParserGoes
    <2>2. alone' \in [Runs -> BOOLEAN]
      BY <1>1 DEF spawn, TypeInv, TypeOK
    <2>3. child[p] = "none" /\ written[p] = 0
      BY <2>1 DEF TypeInv, Strengthened
    <2>4. TypeOK'
      BY <2>1, <2>2 DEF TypeInv, TypeOK, MainStates, ParserStates
    <2>5. Strengthened'
      BY <2>1, <2>3 DEF TypeInv, TypeOK, Strengthened
    <2>. QED  BY <2>4, <2>5 DEF TypeInv
  <1>2. CASE spawnAndWait(p)
    BY <1>2 DEF spawnAndWait, TypeInv, TypeOK, Strengthened, Go, MainStates, parser
  <1>3. CASE openFile(p)
    <2>1. /\ pc[p] = "open"
          /\ \/ temp = None /\ pc' = [pc EXCEPT ![p] = "deferred"]
             \/ temp # None /\ pc' = [pc EXCEPT ![p] = "read"]
          /\ tree' = [tree EXCEPT ![p] = temp]
          /\ UNCHANGED <<source, temp, disk, parser, alone>>
      BY <1>3 DEF openFile, Go
    <2>2. TypeOK'
      BY <2>1 DEF TypeInv, TypeOK, MainStates, parser
    <2>3. ASSUME NEW q \in Runs
          PROVE  /\ pc'[q] = "read" => tree'[q] \in Runs
                 /\ pc'[q] = "compile" => tree'[q] \in Content
                 /\ pc'[q] = "start" => child[q] = "none"
      <3>1. CASE q = p
        BY <2>1, <3>1 DEF TypeInv, TypeOK
      <3>2. CASE q # p
        <4>1. pc'[q] = pc[q] /\ tree'[q] = tree[q]
          BY <2>1, <3>2 DEF TypeInv, TypeOK
        <4>. QED  BY <4>1 DEF TypeInv, Strengthened
      <3>. QED  BY <3>1, <3>2
    <2>4. Strengthened'
      BY <2>1, <2>3 DEF TypeInv, Strengthened, parser
    <2>. QED  BY <2>2, <2>4 DEF TypeInv
  <1>4. CASE readToEndAlloc(p)
    <2>1. /\ tree' = [tree EXCEPT ![p] = disk[tree[p]]]
          /\ pc' = [pc EXCEPT ![p] = "compile"] \/ pc' = [pc EXCEPT ![p] = "deferred"]
          /\ UNCHANGED <<source, temp, disk, parser, alone>>
      BY <1>4 DEF readToEndAlloc, Go
    <2>2. disk[tree[p]] \in Content
      BY <1>4 DEF readToEndAlloc, TypeInv, TypeOK, Strengthened
    <2>3. pc[p] = "read"
      BY <1>4 DEF readToEndAlloc
    <2>4. ASSUME NEW q \in Runs
          PROVE  /\ pc'[q] = "read" => tree'[q] \in Runs
                 /\ pc'[q] = "compile" => tree'[q] \in Content
                 /\ pc'[q] = "start" => child[q] = "none"
      <3>1. CASE q = p
        <4>1. pc'[q] \in {"compile", "deferred"}
          BY <2>1, <3>1 DEF TypeInv, TypeOK
        <4>2. tree'[q] \in Content
          BY <2>1, <2>2, <3>1 DEF TypeInv, TypeOK
        <4>. QED  BY <4>1, <4>2
      <3>2. CASE q # p
        <4>1. pc'[q] = pc[q] /\ tree'[q] = tree[q]
          BY <2>1, <3>2 DEF TypeInv, TypeOK
        <4>. QED  BY <4>1 DEF TypeInv, TypeOK, Strengthened
      <3>. QED  BY <3>1, <3>2
    <2>5. TypeOK'
      BY <2>1, <2>2 DEF TypeInv, TypeOK, MainStates, parser
    <2>6. Strengthened'
      BY <2>1, <2>4 DEF TypeInv, Strengthened, parser
    <2>. QED  BY <2>5, <2>6 DEF TypeInv
  <1>5. CASE compileProgram(p)
    BY <1>5 DEF compileProgram, TypeInv, TypeOK, Strengthened, Go, MainStates, parser
  <1>6. CASE deleteFile(p)
    BY <1>6 DEF deleteFile, TypeInv, TypeOK, Strengthened, Go, MainStates, parser
  <1>7. CASE killDriver(p)
    BY <1>7 DEF killDriver, TypeInv, TypeOK, Strengthened, Go, MainStates, parser
  <1>. QED  BY <1>1, <1>2, <1>3, <1>4, <1>5, <1>6, <1>7

LEMMA TypeNext ==
  ASSUME TypeInv, [Next]_vars
  PROVE  TypeInv'
  <1>1. CASE edit
    BY <1>1 DEF edit, TypeInv, TypeOK, Strengthened, main, parser
  <1>2. CASE UNCHANGED vars
    BY <1>2 DEF vars, TypeInv, TypeOK, Strengthened
  <1>. QED  BY <1>1, <1>2, ParserTypes, MainTypes DEF Next, Step

\* The state of the driver is well formed.
THEOREM DriverTypeCorrect == Spec => []TypeOK
  <1>1. TypeInv /\ [Next]_vars => TypeInv'
    BY TypeNext
  <1>2. TypeInv => TypeOK
    BY DEF TypeInv
  <1>. QED  BY <1>1, <1>2, TypeInit, PTL DEF Spec

-----------------------------------------------------------------------------
(***************************************************************************)
(* While the file exists, some run whose parser has opened it has not      *)
(* reached its own deletion, or never will.                                *)
(***************************************************************************)

Responsible(p) == file[p] # None /\ pc[p] \notin {"start", "ended"}

FileInv ==
  /\ temp # None => \E p \in Runs : Responsible(p)
  /\ \A p \in Runs :
       child[p] \in {"parsing", "reporting", "opening", "writing"} =>
         pc[p] \in {"wait", "died"}

\* The steps that neither create the file nor delete it, nor start a run.
LEMMA OtherSteps ==
  ASSUME TypeInv, FileInv, UNCHANGED <<temp, file>>,
         \A q \in Runs :
           /\ pc[q] \notin {"start", "ended"} => pc'[q] \notin {"start", "ended"}
           /\ child'[q] \in {"parsing", "reporting", "opening", "writing"} =>
                pc'[q] \in {"wait", "died"}
  PROVE  FileInv'
  BY DEF FileInv, Responsible

LEMMA FileNext ==
  ASSUME TypeInv, FileInv, [Next]_vars
  PROVE  FileInv'
  <1>. USE DEF Go, ParserGoes, main, parser
  <1>. DEFINE Busy == {"parsing", "reporting", "opening", "writing"}
  <1>1. /\ pc \in [Runs -> MainStates] /\ child \in [Runs -> ParserStates]
        /\ \A q \in Runs : child[q] \in Busy => pc[q] \in {"wait", "died"}
    BY DEF TypeInv, TypeOK, FileInv
  <1>2. ASSUME NEW p \in Runs, spawn(p) PROVE FileInv'
    <2>1. child[p] = "none" /\ pc[p] = "start" /\ UNCHANGED <<temp, file>>
      BY <1>2 DEF spawn, TypeInv, Strengthened
    <2>2. \/ pc' = [pc EXCEPT ![p] = "wait"] /\ child' = [child EXCEPT ![p] = "parsing"]
          \/ pc' = [pc EXCEPT ![p] = "deferred"] /\ child' = child
      BY <1>2 DEF spawn
    <2>3. \A q \in Runs : q # p => pc'[q] = pc[q] /\ child'[q] = child[q]
      BY <1>1, <2>2
    <2>. QED  BY <1>1, <2>1, <2>2, <2>3, OtherSteps
  <1>3. ASSUME NEW p \in Runs, openOutput(p) PROVE FileInv'
    <2>1. /\ child[p] = "opening" /\ temp' # None
          /\ file' = [file EXCEPT ![p] = temp']
          /\ child' = [child EXCEPT ![p] = "writing"]
          /\ UNCHANGED pc
      BY <1>3, DriverAssumption DEF openOutput, TypeInv, TypeOK
    <2>2. Responsible(p)'
      BY <1>1, <2>1 DEF Responsible, TypeInv, TypeOK
    <2>3. \A q \in Runs : child'[q] \in Busy => pc'[q] \in {"wait", "died"}
      BY <1>1, <2>1
    <2>. QED  BY <2>2, <2>3 DEF FileInv
  <1>4. ASSUME NEW p \in Runs, deleteFile(p) PROVE FileInv'
    <2>1. pc[p] = "deferred" /\ temp' = None /\ child' = child
          /\ pc' = [pc EXCEPT ![p] = "ended"]
      BY <1>4 DEF deleteFile
    <2>. QED  BY <1>1, <2>1 DEF FileInv
  <1>5. ASSUME NEW p \in Runs,
               \/ parse_file(p) \/ report(p) \/ trim_tree(p) \/ dump(p) \/ killParser(p)
        PROVE  FileInv'
    <2>1. /\ child[p] \in Busy /\ UNCHANGED <<pc, temp, file>>
          /\ \A q \in Runs : q # p => child'[q] = child[q]
      BY <1>1, <1>5 DEF parse_file, report, trim_tree, dump, killParser
    <2>. QED  BY <1>1, <2>1, OtherSteps
  <1>6. ASSUME NEW p \in Runs,
               \/ spawnAndWait(p) \/ openFile(p) \/ readToEndAlloc(p)
               \/ compileProgram(p) \/ killDriver(p)
        PROVE  FileInv'
    <2>1. /\ pc'[p] \notin {"start", "ended"} /\ UNCHANGED <<child, temp, file>>
          /\ child[p] \in Busy => pc'[p] = "died"
          /\ \A q \in Runs : q # p => pc'[q] = pc[q]
      BY <1>1, <1>6
         DEF spawnAndWait, openFile, readToEndAlloc, compileProgram, killDriver
    <2>. QED  BY <1>1, <2>1, OtherSteps
  <1>7. CASE edit \/ UNCHANGED vars
    <2>1. UNCHANGED <<temp, file, pc, child>>
      BY <1>7 DEF edit, vars
    <2>. QED  BY <1>1, <2>1, OtherSteps
  <1>. QED  BY <1>2, <1>3, <1>4, <1>5, <1>6, <1>7 DEF Next, Step

\* When every run that started has left main's scope, the file is gone.
THEOREM OnlyTheDeadLeaveTheFile == Spec => []ReturnsLeaveNoFile
  <1>1. Init => FileInv
    BY DEF Init, FileInv
  <1>2. TypeInv /\ FileInv /\ [Next]_vars => TypeInv' /\ FileInv'
    BY TypeNext, FileNext
  <1>3. FileInv => ReturnsLeaveNoFile
    BY DEF FileInv, Responsible, ReturnsLeaveNoFile
  <1>. QED  BY <1>1, <1>2, <1>3, TypeInit, PTL DEF Spec
-----------------------------------------------------------------------------
(***************************************************************************)
(* A run that began without a file and that no other run overlaps: the     *)
(* file is the one its parser creates, and holds the chunks that parser    *)
(* has written so far, until main has read it.                             *)
(***************************************************************************)

Holds(content, n, program) ==
  Len(content) = n /\ \A i \in 1 .. n : content[i] = program

Busy == {"parsing", "reporting", "opening", "writing"}

Solo(p) ==
  /\ \A q \in Runs \ {p} : ~Live(q)
  /\ child[p] \in Busy \ {"writing"} => temp = None
  /\ child[p] = "writing" =>
       temp \in Runs /\ file[p] = temp /\ Holds(disk[temp], written[p], parsed[p])
  /\ /\ pc[p] = "open" \/ (pc[p] = "wait" /\ child[p] = "exit 0")
     /\ temp # None
     => Holds(disk[temp], Chunks, parsed[p])
  /\ pc[p] = "read" => Holds(disk[tree[p]], Chunks, parsed[p])
  /\ pc[p] = "compile" => Holds(tree[p], Chunks, parsed[p])

SoloInv == \A p \in Runs : alone[p] /\ Live(p) => Solo(p)

\* What is proved before: every lemma below starts from it.
Known == TypeInv /\ FileInv /\ SoloInv

\* A chunk written after the last one of a tree's first n extends it by one.
LEMMA OverwriteHolds ==
  ASSUME NEW content \in Content, NEW n \in Nat,
         NEW program \in Programs \cup {None}, Holds(content, n, program)
  PROVE  Holds(Overwrite(content, n + 1, program), n + 1, program)
  <1>1. Len(content) = n /\ \A i \in 1 .. n : content[i] = program
    BY DEF Holds
  <1>2. Overwrite(content, n + 1, program)
          = [i \in 1 .. n + 1 |-> IF i = n + 1 THEN program
                                  ELSE IF i <= n THEN content[i] ELSE Hole]
    BY <1>1 DEF Overwrite
  <1>3. \A i \in 1 .. n + 1 : Overwrite(content, n + 1, program)[i] = program
    BY <1>1, <1>2
  <1>4. Overwrite(content, n + 1, program) \in Content
    BY OverwriteContent
  <1>5. Len(Overwrite(content, n + 1, program)) = n + 1
    BY <1>2, <1>4 DEF Content
  <1>. QED  BY <1>3, <1>5 DEF Holds

\* A step of another live run leaves nothing to show: p is not alone.
LEMMA AnotherRun ==
  ASSUME Known, NEW p \in Runs, NEW q \in Runs, q # p, Live(q),
         alone'[p] = alone[p], pc'[p] = pc[p], child'[p] = child[p]
  PROVE  alone'[p] /\ Live(p)' => Solo(p)'
  <1>1. Live(p)' = Live(p)
    BY DEF Live
  <1>2. ~(alone[p] /\ Live(p))
    BY DEF Known, SoloInv, Solo
  <1>. QED  BY <1>1, <1>2

\* The other runs' part of Solo, when a step moves no other run.
LEMMA OthersStay ==
  ASSUME NEW p \in Runs, Solo(p),
         \A q \in Runs \ {p} : pc'[q] = pc[q] /\ child'[q] = child[q]
  PROVE  \A q \in Runs \ {p} : ~Live(q)'
  BY DEF Solo, Live

\* The parser's own steps.
LEMMA SoloParser ==
  ASSUME Known, NEW p \in Runs, alone[p],
         \/ parse_file(p) \/ report(p) \/ trim_tree(p) \/ openOutput(p) \/ dump(p)
         \/ killParser(p)
  PROVE  Solo(p)'
  <1>0. /\ child[p] \in Busy /\ UNCHANGED <<pc, tree>>
        /\ \A q \in Runs \ {p} : child'[q] = child[q]
    BY DEF parse_file, report, trim_tree, openOutput, dump, killParser, Busy,
       ParserGoes, main, Known, TypeInv, TypeOK
  <1>1. Solo(p)
    BY <1>0 DEF Known, SoloInv, Live, Busy
  <1>2. \A q \in Runs \ {p} : ~Live(q)'
    BY <1>0, <1>1, OthersStay
  <1>3. pc[p] \in {"wait", "died"}
    BY <1>0 DEF Known, FileInv, Busy
  <1>4. CASE parse_file(p) \/ trim_tree(p)
    <2>1. /\ temp = None /\ temp' = temp
          /\ child'[p] \in {"exit 0", "exit 1", "reporting", "opening"}
      BY <1>1, <1>4 DEF parse_file, trim_tree, ParserGoes, Solo, Busy, Known,
         TypeInv, TypeOK
    <2>. QED  BY <1>0, <1>2, <1>3, <2>1 DEF Solo
  <1>5. CASE report(p)
    <2>1. temp = None /\ temp' = temp /\ child'[p] \in {"reporting", "exit 0"}
      BY <1>1, <1>5 DEF report, ParserGoes, Solo, Busy, Known, TypeInv, TypeOK
    <2>. QED  BY <1>0, <1>2, <1>3, <2>1 DEF Solo
  <1>6. CASE killParser(p)
    <2>1. child'[p] = "killed"
      BY <1>6 DEF killParser, ParserGoes, Known, TypeInv, TypeOK
    <2>. QED  BY <1>0, <1>2, <1>3, <2>1 DEF Solo, Busy
  <1>7. CASE openOutput(p)
    <2>1. /\ child'[p] = "writing" /\ temp' \in Runs /\ file'[p] = temp'
          /\ written'[p] = 0 /\ parsed'[p] = parsed[p]
      BY <1>7 DEF openOutput, ParserGoes, Known, TypeInv, TypeOK, Strengthened
    <2>2. disk'[temp'] = << >>
      BY <1>7, <2>1 DEF openOutput, Known, TypeInv, TypeOK
    <2>3. Holds(disk'[temp'], written'[p], parsed'[p])
      BY <2>1, <2>2 DEF Holds
    <2>. QED  BY <1>0, <1>2, <1>3, <2>1, <2>3 DEF Solo, Busy
  <1>8. CASE dump(p)
    <2>. DEFINE k == written[p] + 1
    <2>1. /\ child[p] = "writing" /\ temp' = temp /\ file' = file /\ parsed' = parsed
          /\ disk' = [disk EXCEPT ![file[p]] = Overwrite(disk[file[p]], k, parsed[p])]
          /\ written'[p] = k
          /\ child'[p] = IF k = Chunks THEN "exit 0" ELSE "writing"
      BY <1>8 DEF dump, ParserGoes, Known, TypeInv, TypeOK
    <2>2. temp \in Runs /\ file[p] = temp /\ Holds(disk[temp], written[p], parsed[p])
      BY <1>1, <2>1 DEF Solo
    <2>3. /\ disk \in [Runs -> Content] /\ written[p] \in Nat
          /\ parsed[p] \in Programs \cup {None}
      BY DriverAssumption DEF Known, TypeInv, TypeOK
    <2>4. Holds(Overwrite(disk[temp], k, parsed[p]), k, parsed[p])
      BY <2>2, <2>3, OverwriteHolds
    <2>5. disk'[temp] = Overwrite(disk[temp], k, parsed[p])
      BY <2>1, <2>2, <2>3
    <2>6. Holds(disk'[temp'], written'[p], parsed'[p])
      BY <2>1, <2>4, <2>5
    <2>. HIDE DEF k
    <2>. QED  BY <1>0, <1>2, <1>3, <2>1, <2>2, <2>6 DEF Solo, Busy
  <1>. QED  BY <1>4, <1>5, <1>6, <1>7, <1>8

\* The driver's own steps, after it has started.
LEMMA SoloMain ==
  ASSUME Known, NEW p \in Runs, alone[p],
         \/ spawnAndWait(p) \/ openFile(p) \/ readToEndAlloc(p)
         \/ compileProgram(p) \/ deleteFile(p) \/ killDriver(p)
  PROVE  Live(p)' => Solo(p)'
  <1>0. /\ pc[p] \notin {"start", "ended", "died"}
        /\ UNCHANGED <<child, parsed, file, written, disk>>
        /\ \A q \in Runs \ {p} : pc'[q] = pc[q]
    BY DEF spawnAndWait, openFile, readToEndAlloc, compileProgram, deleteFile,
       killDriver, Go, parser, Known, TypeInv, TypeOK
  <1>1. Solo(p)
    BY <1>0 DEF Known, SoloInv, Live
  <1>2. \A q \in Runs \ {p} : ~Live(q)'
    BY <1>0, <1>1, OthersStay
  <1>3. child[p] \in Busy => pc[p] \in {"wait", "died"}
    BY DEF Known, FileInv, Busy
  <1>4. CASE spawnAndWait(p)
    <2>1. /\ temp' = temp /\ child[p] \notin Busy /\ pc[p] = "wait"
          /\ pc'[p] = IF child[p] = "exit 0" THEN "open" ELSE "died"
      BY <1>4 DEF spawnAndWait, Go, Busy, Known, TypeInv, TypeOK
    <2>. QED  BY <1>0, <1>1, <1>2, <2>1 DEF Solo, Busy
  <1>5. CASE openFile(p)
    <2>1. /\ temp' = temp /\ child[p] \notin Busy /\ pc[p] = "open"
          /\ pc'[p] = IF temp = None THEN "deferred" ELSE "read"
          /\ tree'[p] = temp
      BY <1>3, <1>5 DEF openFile, Go, Known, TypeInv, TypeOK
    <2>. QED  BY <1>0, <1>1, <1>2, <2>1 DEF Solo, Busy
  <1>6. CASE readToEndAlloc(p)
    <2>1. /\ temp' = temp /\ child[p] \notin Busy /\ pc[p] = "read"
          /\ pc'[p] \in {"compile", "deferred"}
          /\ tree'[p] = disk[tree[p]]
      BY <1>3, <1>6 DEF readToEndAlloc, Go, Known, TypeInv, TypeOK
    <2>. QED  BY <1>0, <1>1, <1>2, <2>1 DEF Solo, Busy
  <1>7. CASE compileProgram(p)
    <2>1. child[p] \notin Busy /\ pc'[p] \in {"died", "deferred"}
      BY <1>3, <1>7 DEF compileProgram, Go, Known, TypeInv, TypeOK
    <2>. QED  BY <1>0, <1>2, <2>1 DEF Solo, Busy
  <1>8. CASE deleteFile(p)
    <2>1. child[p] \notin Busy /\ pc'[p] = "ended"
      BY <1>3, <1>8 DEF deleteFile, Go, Known, TypeInv, TypeOK
    <2>. QED  BY <1>0, <1>2, <2>1 DEF Solo, Busy
  <1>9. CASE killDriver(p)
    <2>1. temp' = temp /\ pc'[p] = "died"
      BY <1>9 DEF killDriver, Go, Known, TypeInv, TypeOK
    <2>. QED  BY <1>0, <1>1, <1>2, <2>1 DEF Solo
  <1>. QED  BY <1>4, <1>5, <1>6, <1>7, <1>8, <1>9

\* A step of any run that has started, and its parser's.
LEMMA SoloStep ==
  ASSUME Known, NEW p \in Runs, Step(p) \/ killDriver(p) \/ killParser(p)
  PROVE  SoloInv'
  <1>1. /\ Live(p) /\ UNCHANGED alone
        /\ \A q \in Runs \ {p} : pc'[q] = pc[q] /\ child'[q] = child[q]
    BY DEF Step, parse_file, report, trim_tree, openOutput, dump, killParser,
       spawnAndWait, openFile, readToEndAlloc, compileProgram, deleteFile,
       killDriver, Go, ParserGoes, main, parser, Live, Known, TypeInv, TypeOK
  <1>2. alone'[p] /\ Live(p)' => Solo(p)'
    BY <1>1, SoloParser, SoloMain DEF Step
  <1>3. ASSUME NEW q \in Runs \ {p}
        PROVE  alone'[q] /\ Live(q)' => Solo(q)'
    BY <1>1, AnotherRun
  <1>. QED  BY <1>2, <1>3 DEF SoloInv

LEMMA SoloSpawn ==
  ASSUME Known, NEW p \in Runs, spawn(p)
  PROVE  SoloInv'
  <1>1. /\ pc[p] = "start" /\ UNCHANGED temp
        /\ \/ pc' = [pc EXCEPT ![p] = "wait"] /\ child' = [child EXCEPT ![p] = "parsing"]
           \/ pc' = [pc EXCEPT ![p] = "deferred"] /\ child' = child
        /\ alone' = [q \in Runs |->
                       IF q = p THEN temp = None /\ \A r \in Runs : ~Live(r)
                       ELSE alone[q] /\ ~Live(q)]
    BY DEF spawn, Go, ParserGoes
  <1>2. pc \in [Runs -> MainStates] /\ child \in [Runs -> ParserStates] /\ child[p] = "none"
    BY <1>1 DEF Known, TypeInv, TypeOK, Strengthened
  <1>3. \A q \in Runs \ {p} : Live(q)' = Live(q)
    <2>1. \A q \in Runs \ {p} : pc'[q] = pc[q] /\ child'[q] = child[q]
      BY <1>1, <1>2
    <2>. QED  BY <2>1 DEF Live
  <1>4. alone'[p] => Solo(p)'
    <2>1. alone'[p] => temp' = None /\ \A q \in Runs \ {p} : ~Live(q)'
      BY <1>1, <1>3
    <2>2. pc'[p] \in {"wait", "deferred"} /\ child'[p] \in {"none", "parsing"}
      BY <1>1, <1>2
    <2>. QED  BY <2>1, <2>2 DEF Solo
  <1>5. \A q \in Runs \ {p} : ~(alone'[q] /\ Live(q)')
    BY <1>1, <1>3
  <1>. QED  BY <1>4, <1>5 DEF SoloInv

LEMMA SoloNext ==
  ASSUME Known, [Next]_vars
  PROVE  Known'
  <1>1. CASE edit \/ UNCHANGED vars
    <2>1. UNCHANGED <<temp, disk, main, parser, alone>>
      BY <1>1 DEF edit, vars, main, parser
    <2>2. SoloInv'
      BY <2>1 DEF Known, SoloInv, Solo, Live, main, parser
    <2>. QED  BY <2>2, TypeNext, FileNext DEF Known
  <1>. QED
    BY <1>1, SoloStep, SoloSpawn, TypeNext, FileNext DEF Known, Next

\* A run that began without a leftover file and that no other run overlapped
\* compiles a whole tree of the program its own parser read, whatever is
\* edited meanwhile and whichever process is killed.
THEOREM AloneRunsCompileTheirSource == Spec => []AloneCompilesItsSource
  <1>1. Init => Known
    BY TypeInit DEF Init, Known, FileInv, SoloInv
  <1>2. Known => AloneCompilesItsSource
    <2>1. ASSUME NEW p \in Runs, Known, alone[p], pc[p] = "compile"
          PROVE  Whole(tree[p]) /\ tree[p][1] = parsed[p]
      <3>1. Holds(tree[p], Chunks, parsed[p])
        BY <2>1 DEF Known, SoloInv, Solo, Live
      <3>. QED  BY <3>1, DriverAssumption DEF Holds, Whole
    <2>. QED  BY <2>1 DEF AloneCompilesItsSource
  <1>3. Known /\ [Next]_vars => Known'
    BY SoloNext
  <1>. QED  BY <1>1, <1>2, <1>3, PTL DEF Spec
=============================================================================
