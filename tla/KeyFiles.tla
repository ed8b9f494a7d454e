------------------------------ MODULE KeyFiles ------------------------------
(***************************************************************************)
(* Where the key files of a test case are written, and how the recovery    *)
(* and the result counting find them again.                                *)
(*                                                                         *)
(* The key file of instance Index, iteration Iteration is put in directory *)
(* <Category><id>, with id = Index * (Iteration + 1) / MaxInstance.  The   *)
(* readers do not list directories: they probe the names one after the     *)
(* other and patch the last character of the path for every probe, for     *)
(* ids 0 to 5 only.                                                        *)
(*                                                                         *)
(* The files of a category that is not in the category database go to one  *)
(* directory, named by the GUID of the category.  The readers patch the    *)
(* last character of that name all the same.                               *)
(*                                                                         *)
(* Executor abstracts all this to "the last file found"; this module has   *)
(* the loops themselves.                                                   *)
(***************************************************************************)
EXTENDS Integers

CONSTANTS
  Digits,         \* last characters of the GUIDs of unknown categories
  MaxInstance,    \* MaxInstanceNumInSingleDirectory
  MaxHandles,     \* bound: handles of the protocol
  MaxIterations,  \* bound: TestCase->Iterations
  MaxRuns         \* bound: executions of the case

(* Ids stay one character long.                                            *)
ASSUME KeyFilesAssumption ==
  /\ Digits \subseteq 0..15
  /\ MaxInstance \in Nat \ {0}
  /\ MaxHandles \in Nat \ {0} /\ MaxIterations \in Nat \ {0} /\ MaxRuns \in Nat \ {0}
  /\ (MaxHandles * MaxIterations) \div MaxInstance <= 9

VARIABLES
  category,   \* Known, or the last character of the GUID of an unknown one
  pc,         \* "run", "scan", "read", "resumed", "tally" or "done"
  run,        \* number of the execution
  handles,    \* handles found in this execution
  iterations, \* TestCase->Iterations in this execution
  pos,        \* Index and Iteration of the instance to run next
  files,      \* key files on disk: the last character of their directory,
              \* Index, Iteration, execution
  path,       \* last character of FilePath
  inst, iter, \* InstanceIndex, IterationIndex
  found,      \* *Index, *Iteration
  content,    \* execution whose file was read, 0 when the read failed
  counted     \* assertions added up: one per file
vars == <<category, pc, run, handles, iterations, pos, files, path, inst, iter, found,
          content, counted>>

-----------------------------------------------------------------------------
(* A category of the database.                                             *)
Known == -1

(* The directory a key file is written to, as the last character of its    *)
(* path: the id, or the last character of the category's GUID.             *)
WriteDir(cat, index, iteration) ==
  CASE cat # Known -> cat
    [] cat = Known /\ (index + 1) * (iteration + 1) >= MaxInstance
         -> (index * (iteration + 1)) \div MaxInstance
    [] OTHER -> 0

(* Mutant: the id of the write's threshold test.                           *)
ThresholdPath(i, j) ==
  LET id == ((i + 1) * (j + 1)) \div MaxInstance
  IN IF id <= 5 THEN id ELSE path

(* The path after the switch on the id of the probe.                       *)
ProbePath(i, j) ==
  LET id == (i * (j + 1)) \div MaxInstance
  IN IF id <= 5 THEN id ELSE path

FileExist(dir, i, j) == \E r \in 1..MaxRuns : <<dir, i, j, r>> \in files

(* Mutant: the old files stay.                                             *)
KeepMetaFiles == files

(* ResetExecuteTestResults computes the directory for Index 0, Iteration 0 *)
(* and removes the matching files there.                                   *)
RemoveMetaFiles == {f \in files : f[1] # WriteDir(category, 0, 0)}

Init ==
  /\ category \in {Known} \cup Digits
  /\ pc = "run"
  /\ run = 1
  /\ handles \in 1..MaxHandles
  /\ iterations \in 1..MaxIterations
  /\ pos = <<0, 0>>
  /\ files = {}
  /\ path = 0 /\ inst = 0 /\ iter = 0
  /\ found = <<0, 0>>
  /\ content = 0
  /\ counted = {}

-----------------------------------------------------------------------------
(* Mutant: one iteration too many.                                         *)
RunOneMore ==
  /\ pc = "run" /\ pos[1] < handles
  /\ files' = files \cup {<<WriteDir(category, pos[1], pos[2]), pos[1], pos[2], run>>}
  /\ pos' = IF pos[2] < iterations THEN <<pos[1], pos[2] + 1>> ELSE <<pos[1] + 1, 0>>
  /\ UNCHANGED <<category, pc, run, handles, iterations, path, inst, iter, found,
                 content, counted>>

(* An instance writes its key file; the loops move on.                     *)
RunInstance ==
  /\ pc = "run" /\ pos[1] < handles
  /\ LET dir == WriteDir(category, pos[1], pos[2])
     IN files' = {f \in files : <<f[1], f[2], f[3]>> # <<dir, pos[1], pos[2]>>}
                 \cup {<<dir, pos[1], pos[2], run>>}
  /\ pos' = IF pos[2] + 1 < iterations THEN <<pos[1], pos[2] + 1>>
                                       ELSE <<pos[1] + 1, 0>>
  /\ UNCHANGED <<category, pc, run, handles, iterations, path, inst, iter, found,
                 content, counted>>

(* The machine is reset: ContinueExecuteStart calls GetInstanceAssertion   *)
(* with the path of Index 0, Iteration 0.                                  *)
Interrupt ==
  /\ pc = "run"
  /\ pc' = "scan"
  /\ path' = WriteDir(category, 0, 0)
  /\ inst' = 0 /\ iter' = 0 /\ found' = <<0, 0>>
  /\ UNCHANGED <<category, run, handles, iterations, pos, files, content, counted>>

(* The case is over: ExecuteTestCase calls GetInterfaceAssertion with the  *)
(* path of the Index the loop ended with.                                  *)
CaseOver ==
  /\ pc = "run" /\ pos[1] = handles
  /\ pc' = "tally"
  /\ path' = WriteDir(category, handles, 0)
  /\ inst' = 0 /\ iter' = 0 /\ counted' = {}
  /\ UNCHANGED <<category, run, handles, iterations, pos, files, found, content>>

(* One probe of the loops of GetInstanceAssertion.                         *)
ScanProbe ==
  /\ pc = "scan"
  /\ path' = ProbePath(inst, iter)
  /\ \/ /\ FileExist(path', inst, iter)
        /\ iter' = iter + 1
        /\ UNCHANGED <<pc, inst, found>>
     \/ /\ ~FileExist(path', inst, iter) /\ iter # 0
        /\ found' = <<inst, iter - 1>>
        /\ inst' = inst + 1 /\ iter' = 0
        /\ UNCHANGED pc
     \/ /\ ~FileExist(path', inst, iter) /\ iter = 0
        /\ pc' = "read"
        /\ UNCHANGED <<inst, iter, found>>
  /\ UNCHANGED <<category, run, handles, iterations, pos, files, content, counted>>

(* The file found is read, from the path of the last probe.  With no file  *)
(* at all the state is EMPTY and nothing is read.                          *)
ReadFound ==
  /\ pc = "read"
  /\ pc' = "resumed"
  /\ content' = IF inst # 0 /\ FileExist(path, found[1], found[2])
                THEN CHOOSE r \in 1..MaxRuns : <<path, found[1], found[2], r>> \in files
                ELSE 0
  /\ UNCHANGED <<category, run, handles, iterations, pos, files, path, inst, iter, found, counted>>

(* One probe of the loops of GetInterfaceAssertion.                        *)
TallyProbe ==
  /\ pc = "tally"
  /\ path' = ProbePath(inst, iter)
  /\ \/ /\ FileExist(path', inst, iter)
        /\ counted' = counted \cup {<<inst, iter, r>> :
                        r \in {q \in 1..MaxRuns : <<path', inst, iter, q>> \in files}}
        /\ iter' = iter + 1
        /\ UNCHANGED <<pc, inst>>
     \/ /\ ~FileExist(path', inst, iter) /\ iter # 0
        /\ inst' = inst + 1 /\ iter' = 0
        /\ UNCHANGED <<pc, counted>>
     \/ /\ ~FileExist(path', inst, iter) /\ iter = 0
        /\ pc' = "done"
        /\ UNCHANGED <<inst, iter, counted>>
  /\ UNCHANGED <<category, run, handles, iterations, pos, files, found, content>>

(* The user executes the case again.                                       *)
NewRun ==
  /\ pc \in {"done", "resumed"} /\ run < MaxRuns
  /\ pc' = "run"
  /\ run' = run + 1
  /\ files' = RemoveMetaFiles
  /\ handles' \in 1..MaxHandles
  /\ iterations' \in 1..MaxIterations
  /\ pos' = <<0, 0>>
  /\ content' = 0 /\ counted' = {}
  /\ UNCHANGED <<category, path, inst, iter, found>>

Next == RunInstance \/ Interrupt \/ CaseOver \/ ScanProbe \/ ReadFound
        \/ TallyProbe \/ NewRun

Spec == Init /\ [][Next]_vars

-----------------------------------------------------------------------------
(* Types; the ids of the directories are one character.                    *)
TypeOK ==
  /\ category \in {Known} \cup Digits
  /\ pc \in {"run", "scan", "read", "resumed", "tally", "done"}
  /\ run \in 1..MaxRuns
  /\ handles \in 1..MaxHandles /\ iterations \in 1..MaxIterations
  /\ pos \in (0..handles) \X (0..iterations - 1)
  /\ files \subseteq (Digits \cup 0..9) \X (0..MaxHandles - 1) \X (0..MaxIterations - 1)
                    \X (1..MaxRuns)
  /\ path \in Digits \cup 0..9
  /\ content \in 0..MaxRuns

(* The instances of this execution that have a key file: all before pos.   *)
Written == {p \in (0..handles - 1) \X (0..iterations - 1) :
              p[1] < pos[1] \/ (p[1] = pos[1] /\ p[2] < pos[2])}

IsLastWritten(p) ==
  p \in Written /\ \A q \in Written : q[1] < p[1] \/ (q[1] = p[1] /\ q[2] <= p[2])

(* No file of an earlier execution is left in a directory other than the   *)
(* first.  It need not be so: the removal visits the first one only.       *)
OthersClean == \A f \in files : f[1] # WriteDir(category, 0, 0) => f[4] = run

(* The scan finds only what this execution has written and, in a category  *)
(* of the database, the maximum index of instance and iteration, in        *)
(* whatever directory, and no file when none was written, whatever         *)
(* executions there were before.                                           *)
FindsMaximum ==
  pc = "read" /\ OthersClean =>
    /\ inst # 0 => found \in Written
    /\ category = Known =>
         IF Written = {} THEN inst = 0 ELSE inst # 0 /\ IsLastWritten(found)

(* The file the recovery reads is the file it found: of this execution,    *)
(* and in the directory where it was written.                              *)
ReadsMaximum == pc = "resumed" /\ Written # {} /\ category = Known => content = run

(* The results of a case count key files of this execution only and, in a  *)
(* category of the database, the one of each instance.                     *)
TallyExact ==
  pc = "done" /\ OthersClean =>
    LET all == {<<p[1], p[2], run>> : p \in Written}
    IN counted \subseteq all /\ (category = Known => counted = all)
=============================================================================
