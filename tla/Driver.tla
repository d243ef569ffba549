------------------------------ MODULE Driver ------------------------------
(***************************************************************************)
(* The command-line driver (src/main.zig) and the parser process it starts *)
(* (src/parser/gen_parse_tree.py).  They hand the tree over in a file next *)
(* to the source, so that every run on the same source shares it: runs     *)
(* follow one another, overlap, and are killed, and the source is edited.  *)
(*                                                                         *)
(* The file system is POSIX: a name, temp, that refers to an inode, which  *)
(* a process keeps using after the name is gone.  Run p's parser creates   *)
(* at most the inode p.  A tree takes Chunks writes; a file is the         *)
(* sequence of the programs its chunks were written for.                   *)
(***************************************************************************)
EXTENDS Integers, Sequences

CONSTANTS
  Runs,            \* the runs of the driver on one source file
  Programs,        \* what the source file may contain
  Translatable,    \* those whose tree trim_tree can translate
  Decodable,       \* those whose tree parseFromSlice decodes
  Compilable,      \* those compileProgram accepts
  Messages,        \* the stderr output each program makes the parser print
  PipeSize,        \* the stderr output the operating system buffers
  Chunks,          \* the writes one tree takes
  None             \* no file, no program

ASSUME DriverAssumption ==
  /\ Translatable \subseteq Programs
  /\ Compilable \subseteq Decodable /\ Decodable \subseteq Translatable
  /\ Messages \in [Programs -> Nat]
  /\ PipeSize \in Nat
  /\ Chunks \in Nat \ {0}
  /\ None \notin Runs \cup Programs

VARIABLES
  source,    \* the source file: a program, or None while it is missing
  temp,      \* the inode that temp_json_path names, or None
  disk,      \* the contents of each inode
  pc,        \* where main is, for each run
  child,     \* where its parser is
  parsed,    \* the program its parser read
  pipe,      \* the stderr output nobody has read
  file,      \* the inode the parser writes
  written,   \* the chunks it has written
  tree,      \* the contents main has read, or the inode it has opened
  alone      \* history: no other run was live, nor its file present, so far

main == <<pc, tree>>
parser == <<child, parsed, pipe, file, written>>
vars == <<source, temp, disk, pc, child, parsed, pipe, file, written, tree, alone>>

Hole == None

-----------------------------------------------------------------------------
(* The states *)

MainStates ==
  {"start", "wait", "open", "read", "compile", "deferred", "ended", "died"}

ParserStates ==
  {"none", "parsing", "reporting", "opening", "writing",
   "exit 0", "exit 1", "killed"}

Content == Seq(Programs \cup {Hole})

Init ==
  /\ source \in Programs
  /\ temp = None
  /\ disk = [p \in Runs |-> <<>>]
  /\ pc = [p \in Runs |-> "start"]
  /\ child = [p \in Runs |-> "none"]
  /\ parsed = [p \in Runs |-> None]
  /\ pipe = [p \in Runs |-> 0]
  /\ file = [p \in Runs |-> None]
  /\ written = [p \in Runs |-> 0]
  /\ tree = [p \in Runs |-> None]
  /\ alone = [p \in Runs |-> FALSE]

\* A run is live as long as its driver or its parser is.
Live(p) ==
  \/ pc[p] \notin {"start", "ended", "died"}
  \/ child[p] \in {"parsing", "reporting", "opening", "writing"}

Go(p, state) == pc' = [pc EXCEPT ![p] = state]

ParserGoes(p, state) == child' = [child EXCEPT ![p] = state]

-----------------------------------------------------------------------------
(* The parser process *)

\* parse_file reads the source; a missing one is an uncaught exception.
parse_file(p) ==
  /\ child[p] = "parsing"
  /\ parsed' = [parsed EXCEPT ![p] = source]
  /\ ParserGoes(p, IF source = None THEN "exit 1" ELSE "reporting")
  /\ UNCHANGED <<source, temp, disk, main, pipe, file, written, alone>>

\* Fault: the pipe takes any amount.
reportUnbounded(p) ==
  /\ child[p] = "reporting"
  /\ pipe[p] < Messages[parsed[p]]
  /\ pipe' = [pipe EXCEPT ![p] = @ + 1]
  /\ UNCHANGED <<source, temp, disk, main, child, parsed, file, written, alone>>

\* Syntax errors go to stderr, which only the driver could read.  Once it has
\* died the pipe is broken, and that exception is caught like one of trim_tree.
report(p) ==
  /\ child[p] = "reporting"
  /\ pipe[p] < Messages[parsed[p]]
  /\ \/ /\ pc[p] # "died"
        /\ pipe[p] < PipeSize
        /\ pipe' = [pipe EXCEPT ![p] = @ + 1]
        /\ UNCHANGED child
     \/ /\ pc[p] = "died"
        /\ ParserGoes(p, "exit 0")
        /\ UNCHANGED pipe
  /\ UNCHANGED <<source, temp, disk, main, parsed, file, written, alone>>

\* An exception in trim_tree is caught: no tree, no file, and exit code 0.
trim_tree(p) ==
  /\ child[p] = "reporting"
  /\ pipe[p] = Messages[parsed[p]]
  /\ ParserGoes(p, IF parsed[p] \in Translatable THEN "opening" ELSE "exit 0")
  /\ UNCHANGED <<source, temp, disk, main, parsed, pipe, file, written, alone>>

\* open(args.output, "w") creates the file or truncates the one there is.
openOutput(p) ==
  /\ child[p] = "opening"
  /\ temp' = IF temp = None THEN p ELSE temp
  /\ disk' = [disk EXCEPT ![temp'] = <<>>]
  /\ file' = [file EXCEPT ![p] = temp']
  /\ ParserGoes(p, "writing")
  /\ UNCHANGED <<source, main, parsed, pipe, written, alone>>

\* A file after the k-th chunk of a program's tree has been written to it.
Overwrite(content, k, program) ==
  [i \in 1 .. (IF k > Len(content) THEN k ELSE Len(content)) |->
     IF i = k THEN program
     ELSE IF i <= Len(content) THEN content[i] ELSE Hole]

\* Fault: the source is read again while the tree is written.
dumpFromSource(p) ==
  /\ child[p] = "writing"
  /\ LET k == written[p] + 1
     IN  /\ disk' = [disk EXCEPT ![file[p]] = Overwrite(@, k, source)]
         /\ written' = [written EXCEPT ![p] = k]
         /\ ParserGoes(p, IF k = Chunks THEN "exit 0" ELSE "writing")
  /\ UNCHANGED <<source, temp, main, parsed, pipe, file, alone>>

dump(p) ==
  /\ child[p] = "writing"
  /\ LET k == written[p] + 1
     IN  /\ disk' = [disk EXCEPT ![file[p]] = Overwrite(@, k, parsed[p])]
         /\ written' = [written EXCEPT ![p] = k]
         /\ ParserGoes(p, IF k = Chunks THEN "exit 0" ELSE "writing")
  /\ UNCHANGED <<source, temp, main, parsed, pipe, file, alone>>

-----------------------------------------------------------------------------
(* The driver *)

\* Another run that starts ends the solitude of those that are live.  The
\* process may not be created; every error of a try runs the defers.
spawn(p) ==
  /\ pc[p] = "start"
  /\ \/ Go(p, "wait") /\ ParserGoes(p, "parsing")
     \/ Go(p, "deferred") /\ UNCHANGED child
  /\ alone' = [q \in Runs |->
                 IF q = p THEN temp = None /\ \A r \in Runs : ~Live(r)
                 ELSE alone[q] /\ ~Live(q)]
  /\ UNCHANGED <<source, temp, disk, parsed, pipe, file, written, tree>>

\* Fault: only an exit without an error ends the wait.
spawnAndWaitForSuccess(p) ==
  /\ pc[p] = "wait"
  /\ child[p] = "exit 0"
  /\ Go(p, "open")
  /\ UNCHANGED <<source, temp, disk, parser, tree, alone>>

\* Nothing reads the pipe before the parser has exited, nor after: waiting
\* closes it.  A parser killed by a signal is a panic.
spawnAndWait(p) ==
  /\ pc[p] = "wait"
  /\ child[p] \in {"exit 0", "exit 1", "killed"}
  /\ Go(p, IF child[p] = "exit 0" THEN "open" ELSE "died")
  /\ UNCHANGED <<source, temp, disk, parser, tree, alone>>

\* Without a file the open fails, which runs the defers.
openFile(p) ==
  /\ pc[p] = "open"
  /\ Go(p, IF temp = None THEN "deferred" ELSE "read")
  /\ tree' = [tree EXCEPT ![p] = temp]
  /\ UNCHANGED <<source, temp, disk, parser, alone>>

Whole(content) ==
  Len(content) = Chunks /\ \A i \in 1 .. Chunks : content[i] = content[1]

Decodes(content) == Whole(content) /\ content[1] \in Decodable

\* Fault: a tree that does not decode ends the run past the defers.
readWithoutDefers(p) ==
  /\ pc[p] = "read"
  /\ LET content == disk[tree[p]]
     IN  /\ tree' = [tree EXCEPT ![p] = content]
         /\ \/ Decodes(content) /\ Go(p, "compile")
            \/ ~Decodes(content) /\ Go(p, "ended")
  /\ UNCHANGED <<source, temp, disk, parser, alone>>

\* Reads the file and decodes it.  What does not decode runs the defers; a file
\* with parts of two trees may or may not be JSON by chance.
readToEndAlloc(p) ==
  /\ pc[p] = "read"
  /\ LET content == disk[tree[p]]
     IN  /\ tree' = [tree EXCEPT ![p] = content]
         /\ \/ Decodes(content) /\ Go(p, "compile")
            \/ ~Decodes(content) /\ Go(p, "deferred")
            \/ /\ ~Whole(content) /\ Len(content) >= Chunks
               /\ \A i \in DOMAIN content : content[i] # Hole
               /\ Go(p, "compile")
  /\ UNCHANGED <<source, temp, disk, parser, alone>>

\* A compile error exits at once, without running the defers.
compileProgram(p) ==
  /\ pc[p] = "compile"
  /\ \/ ~(Whole(tree[p]) /\ tree[p][1] \in Compilable) /\ Go(p, "died")
     \/ ~(Whole(tree[p]) /\ tree[p][1] \notin Compilable) /\ Go(p, "deferred")
  /\ UNCHANGED <<source, temp, disk, parser, tree, alone>>

\* The name is removed, whichever run's file it refers to by now.
deleteFile(p) ==
  /\ pc[p] = "deferred"
  /\ temp' = None
  /\ Go(p, "ended")
  /\ UNCHANGED <<source, disk, parser, tree, alone>>

-----------------------------------------------------------------------------
(* The user *)

edit ==
  /\ source' \in (Programs \cup {None}) \ {source}
  /\ UNCHANGED <<temp, disk, main, parser, alone>>

\* A signal ends the driver or the parser; the other one goes on.
killDriver(p) ==
  /\ pc[p] \notin {"start", "ended", "died"}
  /\ Go(p, "died")
  /\ UNCHANGED <<source, temp, disk, parser, tree, alone>>

killParser(p) ==
  /\ child[p] \in {"parsing", "reporting", "opening", "writing"}
  /\ ParserGoes(p, "killed")
  /\ UNCHANGED <<source, temp, disk, main, parsed, pipe, file, written, alone>>

Step(p) ==
  \/ parse_file(p) \/ report(p) \/ trim_tree(p) \/ openOutput(p) \/ dump(p)
  \/ spawnAndWait(p) \/ openFile(p) \/ readToEndAlloc(p)
  \/ compileProgram(p) \/ deleteFile(p)

Next ==
  \/ \E p \in Runs : spawn(p) \/ Step(p) \/ killDriver(p) \/ killParser(p)
  \/ edit

Spec == Init /\ [][Next]_vars

\* The operating system schedules both processes of a run that has started.
FairSpec == Spec /\ \A p \in Runs : WF_vars(Step(p))

-----------------------------------------------------------------------------
(* Properties *)

TypeOK ==
  /\ source \in Programs \cup {None}
  /\ temp \in Runs \cup {None}
  /\ disk \in [Runs -> Content]
  /\ pc \in [Runs -> MainStates]
  /\ child \in [Runs -> ParserStates]
  /\ parsed \in [Runs -> Programs \cup {None}]
  /\ pipe \in [Runs -> 0 .. PipeSize]
  /\ file \in [Runs -> Runs \cup {None}]
  /\ written \in [Runs -> 0 .. Chunks]
  /\ tree \in [Runs -> Runs \cup {None} \cup Content]
  /\ alone \in [Runs -> BOOLEAN]

\* Runs that all ended by leaving main's scope leave no file behind, however
\* they overlapped: a run deletes whatever the name refers to only after its
\* own parser has created it.  Only a run that died can leave one.
ReturnsLeaveNoFile ==
  (\A p \in Runs : pc[p] \in {"start", "ended"}) => temp = None

\* A run that began without a leftover file and that no other run overlapped
\* compiles the program its own parser read, or nothing.
AloneCompilesItsSource ==
  \A p \in Runs : alone[p] /\ pc[p] = "compile" =>
    Whole(tree[p]) /\ tree[p][1] = parsed[p]

\* A parser that has more to say on stderr than the pipe holds.
Blocked(p) ==
  child[p] = "reporting" /\ pipe[p] = PipeSize /\ Messages[parsed[p]] > PipeSize

\* A run comes to an end, unless its parser and its driver wait for each
\* other: the parser for room in the pipe, the driver for the parser's exit.
RunsEnd ==
  \A p \in Runs : pc[p] = "wait" ~> (pc[p] \in {"ended", "died"} \/ Blocked(p))

-----------------------------------------------------------------------------
(* What the comments of the code say *)

\* main.zig:38: the temporary file is deleted upon exiting main's scope, so a
\* run on its own that was not killed leaves none.
TempFileIsDeleted ==
  [][\A p \in Runs :
       compileProgram(p) /\ pc'[p] = "died" /\ alone[p] => temp' = None]_vars

\* main.zig:66: "Check if the script executed successfully": with no other run
\* under way, a run that goes on to compile a tree has a parser that wrote it.
TreeIsThisRuns ==
  \A p \in Runs :
    pc[p] = "compile" /\ (\A q \in Runs \ {p} : ~Live(q)) => file[p] # None
=============================================================================
