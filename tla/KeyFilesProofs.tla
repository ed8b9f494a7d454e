--------------------------- MODULE KeyFilesProofs ---------------------------
(***************************************************************************)
(* For every number of handles, iterations and executions: the types of    *)
(* the key files, and that the scan of the recovery and the counting of    *)
(* the results find only key files of this execution and, in a category    *)
(* of the database, all of them, as long as no directory has a number      *)
(* above 5.                                                                *)
(***************************************************************************)
EXTENDS KeyFiles, TLAPS

USE KeyFilesAssumption

(* The readers know the directories 0 to 5.                                *)
KnownDirectories ==
  \A i \in 0..MaxHandles - 1, j \in 0..MaxIterations - 1 :
    (i * (j + 1)) \div MaxInstance <= 5

-----------------------------------------------------------------------------
(* Numbers of directories.                                                 *)

LEMMA DivNat ==
  ASSUME NEW a \in Nat
  PROVE  a \div MaxInstance \in Nat
  OBVIOUS

LEMMA DivMonotone ==
  ASSUME NEW a \in Nat, NEW b \in Nat, a <= b
  PROVE  a \div MaxInstance <= b \div MaxInstance
  OBVIOUS

LEMMA DivSmall ==
  ASSUME NEW a \in Nat, a < MaxInstance
  PROVE  a \div MaxInstance = 0
  OBVIOUS

LEMMA ProductMonotone ==
  ASSUME NEW a \in Nat, NEW b \in Nat, NEW c \in Nat, NEW d \in Nat, a <= c, b <= d
  PROVE  a * b \in Nat /\ c * d \in Nat /\ a * b <= c * d
  <1>1. a * b <= c * b
    OBVIOUS
  <1>2. c * b <= c * d
    OBVIOUS
  <1> QED BY <1>1, <1>2

(* A file is written to the directory whose number the probe computes.     *)
Id(i, j) == (i * (j + 1)) \div MaxInstance

LEMMA WriteId ==
  ASSUME NEW i \in Nat, NEW j \in Nat
  PROVE  /\ Id(i, j) \in Nat
         /\ category = Known => WriteDir(category, i, j) = Id(i, j)
         /\ category # Known => WriteDir(category, i, j) = category
  <1>1. i * (j + 1) \in Nat /\ (i + 1) * (j + 1) \in Nat /\ i * (j + 1) <= (i + 1) * (j + 1)
    BY ProductMonotone
  <1>2. Id(i, j) \in Nat
    BY <1>1, DivNat DEF Id
  <1>3. CASE category # Known
    BY <1>2, <1>3 DEF WriteDir
  <1>4. CASE category = Known /\ (i + 1) * (j + 1) < MaxInstance
    <2>1. WriteDir(category, i, j) = 0
      BY <1>1, <1>4 DEF WriteDir
    <2> QED BY <1>1, <1>2, <1>4, <2>1, DivSmall DEF Id
  <1>5. CASE category = Known /\ (i + 1) * (j + 1) >= MaxInstance
    <2>1. WriteDir(category, i, j) = (i * (j + 1)) \div MaxInstance
      BY <1>5 DEF WriteDir
    <2> QED BY <1>2, <1>5, <2>1 DEF Id
  <1> QED BY <1>1, <1>3, <1>4, <1>5

(* The last characters of the directories.                                 *)
Characters == Digits \cup 0..9

LEMMA OneCharacter ==
  ASSUME category \in {Known} \cup Digits
  PROVE  /\ \A i \in 0..MaxHandles - 1, j \in 0..MaxIterations - 1 : WriteDir(category, i, j) \in Characters
         /\ \A i \in 0..MaxHandles : WriteDir(category, i, 0) \in Characters
  <1>1. ASSUME NEW i \in 0..MaxHandles, NEW j \in 0..MaxIterations - 1
        PROVE  WriteDir(category, i, j) \in Characters
    <2>1. i * (j + 1) \in Nat /\ MaxHandles * MaxIterations \in Nat
          /\ i * (j + 1) <= MaxHandles * MaxIterations
      BY <1>1, ProductMonotone
    <2>2. Id(i, j) <= (MaxHandles * MaxIterations) \div MaxInstance
      BY <2>1, DivMonotone DEF Id
    <2>3. (MaxHandles * MaxIterations) \div MaxInstance \in Nat
      BY <2>1, DivNat
    <2>4. i \in Nat /\ j \in Nat
      BY <1>1
    <2>5. Id(i, j) \in Nat
      BY <2>4, WriteId
    <2>6. Id(i, j) \in 0..9
      BY <2>2, <2>3, <2>5
    <2> QED BY <2>4, <2>6, WriteId DEF Characters
  <1> QED BY <1>1

-----------------------------------------------------------------------------
(* Types.                                                                  *)

Disk == Characters \X (0..MaxHandles - 1) \X (0..MaxIterations - 1) \X (1..MaxRuns)

(* A file is where it was written, and none is from a later execution.     *)
TypeInv ==
  /\ TypeOK
  /\ inst \in Nat /\ iter \in Nat
  /\ \A f \in files : f[1] = WriteDir(category, f[2], f[3]) /\ f[4] <= run

(* The place of the next instance.                                         *)
NextPos == IF pos[2] + 1 < iterations THEN <<pos[1], pos[2] + 1>> ELSE <<pos[1] + 1, 0>>

(* The file RunInstance writes.                                            *)
NewFile == <<WriteDir(category, pos[1], pos[2]), pos[1], pos[2], run>>

LEMMA PosType ==
  ASSUME TypeInv, pos[1] < handles
  PROVE  /\ pos[1] \in 0..handles - 1 /\ pos[2] \in 0..iterations - 1
         /\ NewFile \in Disk /\ NextPos \in (0..handles) \X (0..iterations - 1)
  <1>1. /\ pos \in (0..handles) \X (0..iterations - 1) /\ run \in 1..MaxRuns
        /\ handles \in 1..MaxHandles /\ iterations \in 1..MaxIterations
    BY DEF TypeInv, TypeOK
  <1>2. pos[1] \in 0..handles - 1 /\ pos[2] \in 0..iterations - 1
    BY <1>1
  <1>3. pos[1] \in 0..MaxHandles - 1 /\ pos[2] \in 0..MaxIterations - 1
    BY <1>1, <1>2
  <1>4. NewFile \in Disk
    BY <1>1, <1>3, OneCharacter DEF NewFile, Disk, TypeInv, TypeOK
  <1>5. NextPos \in (0..handles) \X (0..iterations - 1)
    BY <1>1, <1>2 DEF NextPos
  <1> QED BY <1>2, <1>4, <1>5

LEMMA ProbeType ==
  ASSUME TypeInv
  PROVE  ProbePath(inst, iter) \in Characters
  <1>1. Id(inst, iter) \in Nat /\ path \in Characters
    BY WriteId DEF TypeInv, TypeOK, Characters
  <1>2. Id(inst, iter) <= 5 => Id(inst, iter) \in Characters
    BY <1>1 DEF Characters
  <1> QED BY <1>1, <1>2 DEF ProbePath, Id

LEMMA InitType == Init => TypeInv
  BY DEF Init, TypeInv, TypeOK

LEMMA CategoryFixed == [Next]_vars => category' = category
  BY DEF Next, RunInstance, Interrupt, CaseOver, ScanProbe, ReadFound, TallyProbe, NewRun, vars

LEMMA NextType == TypeInv /\ [Next]_vars => TypeInv'
  <1> SUFFICES ASSUME TypeInv, [Next]_vars PROVE TypeInv'
    OBVIOUS
  <1>c. category' = category /\ category \in {Known} \cup Digits
    BY CategoryFixed DEF TypeInv, TypeOK
  <1>0. /\ TypeOK /\ inst \in Nat /\ iter \in Nat /\ files \subseteq Disk
        /\ \A f \in files : f[1] = WriteDir(category, f[2], f[3]) /\ f[4] <= run /\ f[4] \in Nat
    BY DEF TypeInv, TypeOK, Disk, Characters
  <1>1. CASE RunInstance
    <2>1. /\ pos[1] < handles /\ pos' = NextPos
          /\ files' \subseteq files \cup {NewFile}
          /\ UNCHANGED <<pc, run, handles, iterations, path, inst, iter, content>>
      BY <1>1 DEF RunInstance, NextPos, NewFile
    <2>2. files' \subseteq Disk
      BY <1>0, <2>1, PosType
    <2>3. \A f \in files' : f[1] = WriteDir(category, f[2], f[3]) /\ f[4] <= run'
      <3>1. NewFile[1] = WriteDir(category, NewFile[2], NewFile[3]) /\ NewFile[4] <= run
        BY <1>0 DEF NewFile, TypeOK
      <3> QED BY <1>0, <2>1, <3>1
    <2>4. pos' \in (0..handles) \X (0..iterations - 1)
      BY <2>1, PosType
    <2> QED BY <1>0, <1>c, <2>1, <2>2, <2>3, <2>4 DEF TypeInv, TypeOK, Disk, Characters
  <1>2. CASE Interrupt
    <2>1. path' \in Characters
      BY <1>2, <1>c, OneCharacter DEF Interrupt
    <2> QED BY <1>0, <1>2, <1>c, <2>1 DEF Interrupt, TypeInv, TypeOK, Characters
  <1>3. CASE CaseOver
    <2>1. path' \in Characters
      BY <1>0, <1>3, <1>c, OneCharacter DEF CaseOver, TypeOK
    <2> QED BY <1>0, <1>3, <1>c, <2>1 DEF CaseOver, TypeInv, TypeOK, Characters
  <1>4. CASE ScanProbe
    BY <1>0, <1>4, <1>c, ProbeType DEF ScanProbe, TypeInv, TypeOK, Characters
  <1>5. CASE ReadFound
    <2>1. content' \in 0..MaxRuns
      <3> DEFINE Of(r) == <<path, found[1], found[2], r>> \in files
      <3>1. \/ content' = 0
            \/ (\E r \in 1..MaxRuns : Of(r)) /\ content' = CHOOSE r \in 1..MaxRuns : Of(r)
        BY <1>5 DEF ReadFound, FileExist
      <3> HIDE DEF Of
      <3>2. content' = 0 \/ content' \in 1..MaxRuns
        BY <3>1
      <3> QED BY <3>2
    <2> QED BY <1>0, <1>5, <1>c, <2>1 DEF ReadFound, TypeInv, TypeOK
  <1>6. CASE TallyProbe
    BY <1>0, <1>6, <1>c, ProbeType DEF TallyProbe, TypeInv, TypeOK, Characters
  <1>7. CASE NewRun
    <2>1. /\ run' = run + 1 /\ run < MaxRuns /\ files' \subseteq files /\ content' = 0
          /\ handles' \in 1..MaxHandles /\ iterations' \in 1..MaxIterations /\ pos' = <<0, 0>>
          /\ pc' = "run" /\ UNCHANGED <<path, inst, iter>>
      BY <1>7 DEF NewRun, RemoveMetaFiles
    <2>2. pos' \in (0..handles') \X (0..iterations' - 1)
      BY <2>1
    <2>3. run' \in 1..MaxRuns /\ content' \in 0..MaxRuns
      BY <1>0, <2>1 DEF TypeOK
    <2>4. \A f \in files' : f[1] = WriteDir(category, f[2], f[3]) /\ f[4] <= run'
      BY <1>0, <2>1 DEF TypeOK
    <2>5. files' \subseteq Disk
      BY <1>0, <2>1
    <2> QED BY <1>0, <1>c, <2>1, <2>2, <2>3, <2>4, <2>5 DEF TypeInv, TypeOK, Disk, Characters
  <1>8. CASE UNCHANGED vars
    BY <1>0, <1>8, <1>c DEF vars, TypeInv, TypeOK
  <1> QED BY <1>1, <1>2, <1>3, <1>4, <1>5, <1>6, <1>7, <1>8 DEF Next

(* Whatever is executed, interrupted and executed again, the number of a   *)
(* directory that is written or probed is one character.                   *)
THEOREM TypeCorrect == Spec => []TypeOK
  <1>1. TypeInv => TypeOK
    BY DEF TypeInv
  <1> QED BY <1>1, InitType, NextType, PTL DEF Spec

-----------------------------------------------------------------------------
(* The files of this execution.                                            *)

(* The first directory was emptied; the others may hold older files.       *)
DiskInv ==
  /\ \A f \in files : f[1] = WriteDir(category, 0, 0) => f[4] = run
  /\ \A f \in files : f[4] = run => <<f[2], f[3]>> \in Written
  /\ \A p \in Written : <<WriteDir(category, p[1], p[2]), p[1], p[2], run>> \in files

(* What the loops have passed.                                             *)
Passed(i, j) == {p \in Written : p[1] < i \/ (p[1] = i /\ p[2] < j)}

ScanInv ==
  pc \in {"scan", "read"} /\ OthersClean =>
    /\ \A k \in 0..iter - 1 : <<inst, k>> \in Written
    /\ inst # 0 => /\ found \in Written /\ found[1] = inst - 1
                   /\ category = Known => <<found[1], found[2] + 1>> \notin Written
    /\ pc = "read" /\ category = Known => <<inst, 0>> \notin Written

TallyInv ==
  pc \in {"tally", "done"} /\ OthersClean =>
    /\ counted \subseteq {<<p[1], p[2], run>> : p \in Written}
    /\ category = Known => /\ counted = {<<p[1], p[2], run>> : p \in Passed(inst, iter)}
                           /\ pc = "done" => <<inst, 0>> \notin Written

(* Written is what comes before pos: it is closed downwards, and grows by  *)
(* pos.                                                                    *)
LEMMA WrittenType ==
  ASSUME TypeInv, NEW p \in Written
  PROVE  /\ p[1] \in 0..handles - 1 /\ p[2] \in 0..iterations - 1 /\ p = <<p[1], p[2]>>
         /\ p[1] \in 0..MaxHandles - 1 /\ p[2] \in 0..MaxIterations - 1
         /\ p[1] < pos[1] \/ (p[1] = pos[1] /\ p[2] < pos[2])
  <1>1. handles \in 1..MaxHandles /\ iterations \in 1..MaxIterations
    BY DEF TypeInv, TypeOK
  <1> QED BY <1>1 DEF Written

LEMMA WrittenDown ==
  ASSUME TypeInv, NEW q \in Written, NEW i \in Nat, NEW j \in Nat, j < iterations,
         i < q[1] \/ (i = q[1] /\ j <= q[2])
  PROVE  <<i, j>> \in Written
  <1>1. /\ handles \in 1..MaxHandles /\ iterations \in 1..MaxIterations
        /\ pos[1] \in 0..handles /\ pos[2] \in 0..iterations - 1
    BY DEF TypeInv, TypeOK
  <1>2. /\ q[1] \in 0..handles - 1 /\ q[2] \in 0..iterations - 1
        /\ q[1] < pos[1] \/ (q[1] = pos[1] /\ q[2] < pos[2])
    BY WrittenType
  <1>3. i \in 0..handles - 1 /\ j \in 0..iterations - 1
    BY <1>1, <1>2
  <1>4. i < pos[1] \/ (i = pos[1] /\ j < pos[2])
    BY <1>1, <1>2
  <1> QED BY <1>3, <1>4 DEF Written

LEMMA WrittenGrows ==
  ASSUME TypeInv, RunInstance
  PROVE  Written' = Written \cup {<<pos[1], pos[2]>>}
  <1>1. /\ handles \in 1..MaxHandles /\ iterations \in 1..MaxIterations
        /\ pos[1] \in 0..handles - 1 /\ pos[2] \in 0..iterations - 1
    BY PosType DEF TypeInv, TypeOK, RunInstance
  <1>2. pos' = NextPos /\ UNCHANGED <<handles, iterations>>
    BY DEF RunInstance, NextPos
  <1>3. ASSUME NEW a \in 0..handles - 1, NEW b \in 0..iterations - 1
        PROVE  (a < pos'[1] \/ (a = pos'[1] /\ b < pos'[2]))
               <=> (a < pos[1] \/ (a = pos[1] /\ b < pos[2]) \/ (a = pos[1] /\ b = pos[2]))
    <2>1. CASE pos[2] + 1 < iterations
      <3>1. pos'[1] = pos[1] /\ pos'[2] = pos[2] + 1
        BY <1>2, <2>1 DEF NextPos
      <3> QED BY <1>1, <1>3, <3>1
    <2>2. CASE ~(pos[2] + 1 < iterations)
      <3>1. pos'[1] = pos[1] + 1 /\ pos'[2] = 0 /\ pos[2] = iterations - 1
        BY <1>1, <1>2, <2>2 DEF NextPos
      <3> QED BY <1>1, <1>3, <3>1
    <2> QED BY <2>1, <2>2
  <1> DEFINE D == (0..handles - 1) \X (0..iterations - 1)
  <1>4. \A p \in D : p[1] \in 0..handles - 1 /\ p[2] \in 0..iterations - 1 /\ p = <<p[1], p[2]>>
    OBVIOUS
  <1>5. <<pos[1], pos[2]>> \in D
    BY <1>1
  <1>6. \A p \in D : p[1] = pos[1] /\ p[2] = pos[2] <=> p = <<pos[1], pos[2]>>
    BY <1>4
  <1>7. Written = {p \in D : p[1] < pos[1] \/ (p[1] = pos[1] /\ p[2] < pos[2])}
    BY DEF Written
  <1>8. Written' = {p \in D : p[1] < pos'[1] \/ (p[1] = pos'[1] /\ p[2] < pos'[2])}
    BY <1>2 DEF Written
  <1> HIDE DEF D
  <1> QED BY <1>3, <1>4, <1>5, <1>6, <1>7, <1>8

LEMMA InitDisk == Init => DiskInv /\ ScanInv /\ TallyInv
  <1> SUFFICES ASSUME Init PROVE DiskInv /\ ScanInv /\ TallyInv
    OBVIOUS
  <1>1. files = {} /\ pos[1] = 0 /\ pos[2] = 0 /\ pc = "run"
    BY DEF Init
  <1>2. Written = {}
    BY <1>1 DEF Written
  <1> QED BY <1>1, <1>2 DEF DiskInv, ScanInv, TallyInv

LEMMA DiskStep ==
  ASSUME TypeInv, DiskInv, [Next]_vars
  PROVE  DiskInv'
  <1>0. /\ run \in 1..MaxRuns
        /\ \A f \in files : f[4] <= run /\ f[4] \in Nat /\ f = <<f[1], f[2], f[3], f[4]>>
                            /\ f[1] = WriteDir(category, f[2], f[3])
    BY DEF TypeInv, TypeOK
  <1>c. category' = category
    BY CategoryFixed
  <1>1. CASE RunInstance
    <2> DEFINE at == <<pos[1], pos[2]>>
    <2>1. /\ files' = {f \in files : <<f[1], f[2], f[3]>> #
                                       <<WriteDir(category, pos[1], pos[2]), pos[1], pos[2]>>}
                      \cup {NewFile}
          /\ run' = run
      BY <1>1 DEF RunInstance, NewFile
    <2>2. Written' = Written \cup {at}
      BY <1>1, WrittenGrows
    <2>3. /\ NewFile[1] = WriteDir(category, pos[1], pos[2]) /\ NewFile[2] = pos[1]
          /\ NewFile[3] = pos[2] /\ NewFile[4] = run
      BY DEF NewFile
    <2>4. \A f \in files' : f[1] = WriteDir(category, 0, 0) => f[4] = run'
      BY <2>1, <2>3 DEF DiskInv
    <2>5. \A f \in files' : f[4] = run' => <<f[2], f[3]>> \in Written'
      BY <2>1, <2>2, <2>3 DEF DiskInv
    <2>6. ASSUME NEW p \in Written'
          PROVE  <<WriteDir(category, p[1], p[2]), p[1], p[2], run>> \in files'
      <3>1. CASE p = at
        BY <2>1, <3>1 DEF NewFile
      <3>2. CASE p # at
        <4>1. p \in Written /\ p = <<p[1], p[2]>>
          BY <2>2, <2>6, <3>2, WrittenType
        <4>2. p[1] # pos[1] \/ p[2] # pos[2]
          BY <3>2, <4>1
        <4>3. <<WriteDir(category, p[1], p[2]), p[1], p[2], run>> \in files
          BY <4>1 DEF DiskInv
        <4> QED BY <2>1, <4>2, <4>3
      <3> QED BY <3>1, <3>2
    <2> QED BY <1>c, <2>1, <2>4, <2>5, <2>6 DEF DiskInv
  <1>2. CASE NewRun
    <2>1. /\ run' = run + 1 /\ pos' = <<0, 0>>
          /\ files' = {f \in files : f[1] # WriteDir(category, 0, 0)}
      BY <1>2 DEF NewRun, RemoveMetaFiles
    <2>2. Written' = {}
      BY <2>1 DEF Written
    <2>3. \A f \in files' : f[1] # WriteDir(category, 0, 0) /\ f[4] # run'
      BY <1>0, <2>1
    <2> QED BY <1>c, <2>2, <2>3 DEF DiskInv
  <1>3. CASE Interrupt \/ CaseOver \/ ScanProbe \/ ReadFound \/ TallyProbe \/ UNCHANGED vars
    <2>1. UNCHANGED <<run, files, pos, handles, iterations>>
      BY <1>3 DEF Interrupt, CaseOver, ScanProbe, ReadFound, TallyProbe, vars
    <2> QED BY <1>c, <2>1 DEF DiskInv, Written
  <1> QED BY <1>1, <1>2, <1>3 DEF Next

(* A probe finds only what this execution wrote and, in a category of the  *)
(* database, all of it.                                                    *)
LEMMA ProbeExact ==
  ASSUME KnownDirectories, TypeInv, DiskInv, OthersClean, NEW i \in Nat, NEW j \in Nat
  PROVE  /\ FileExist(ProbePath(i, j), i, j) => <<i, j>> \in Written
         /\ category = Known /\ <<i, j>> \in Written => FileExist(ProbePath(i, j), i, j)
  <1>0. run \in 1..MaxRuns /\ \A f \in files : f[4] = run
    BY DEF TypeInv, TypeOK, DiskInv, OthersClean
  <1>1. ASSUME FileExist(ProbePath(i, j), i, j) PROVE <<i, j>> \in Written
    <2>1. PICK r \in 1..MaxRuns : <<ProbePath(i, j), i, j, r>> \in files
      BY <1>1 DEF FileExist
    <2> QED BY <1>0, <2>1 DEF DiskInv
  <1>2. ASSUME <<i, j>> \in Written, category = Known PROVE FileExist(ProbePath(i, j), i, j)
    <2>1. i \in 0..MaxHandles - 1 /\ j \in 0..MaxIterations - 1
      BY <1>2, WrittenType
    <2>2. Id(i, j) <= 5
      BY <2>1 DEF KnownDirectories, Id
    <2>3. ProbePath(i, j) = WriteDir(category, i, j)
      BY <1>2, <2>2, WriteId DEF ProbePath, Id
    <2>4. <<WriteDir(category, i, j), i, j, run>> \in files
      BY <1>2 DEF DiskInv
    <2> QED BY <1>0, <2>3, <2>4 DEF FileExist
  <1> QED BY <1>1, <1>2

(* The readers write nothing.                                              *)
LEMMA ReadersFrame ==
  ASSUME Interrupt \/ CaseOver \/ ScanProbe \/ ReadFound \/ TallyProbe \/ UNCHANGED vars
  PROVE  /\ Written' = Written /\ OthersClean' = OthersClean /\ run' = run /\ category' = category
         /\ \A i, j : Passed(i, j)' = Passed(i, j)
  <1>1. UNCHANGED <<run, files, pos, handles, iterations>>
    BY DEF Interrupt, CaseOver, ScanProbe, ReadFound, TallyProbe, vars
  <1>2. Written' = Written
    BY <1>1 DEF Written
  <1>3. category' = category
    BY CategoryFixed DEF Next
  <1> QED BY <1>1, <1>2, <1>3 DEF OthersClean, Passed

LEMMA ScanStep ==
  ASSUME KnownDirectories, TypeInv, DiskInv, ScanInv, [Next]_vars
  PROVE  ScanInv'
  <1>0. inst \in Nat /\ iter \in Nat
    BY DEF TypeInv
  <1>1. CASE ScanProbe
    <2>0. SUFFICES ASSUME OthersClean
                   PROVE  /\ \A k \in 0..iter' - 1 : <<inst', k>> \in Written
                          /\ inst' # 0 =>
                               /\ found' \in Written /\ found'[1] = inst' - 1
                               /\ category = Known => <<found'[1], found'[2] + 1>> \notin Written
                          /\ pc' = "read" /\ category = Known => <<inst', 0>> \notin Written
      BY <1>1, ReadersFrame DEF ScanInv
    <2>1. /\ pc = "scan" /\ \A k \in 0..iter - 1 : <<inst, k>> \in Written
          /\ inst # 0 => /\ found \in Written /\ found[1] = inst - 1
                         /\ category = Known => <<found[1], found[2] + 1>> \notin Written
      BY <1>1, <2>0 DEF ScanProbe, ScanInv
    <2>2. /\ FileExist(path', inst, iter) => <<inst, iter>> \in Written
          /\ category = Known /\ ~FileExist(path', inst, iter) => <<inst, iter>> \notin Written
      BY <1>0, <1>1, <2>0, ProbeExact DEF ScanProbe
    <2>3. CASE FileExist(path', inst, iter)
      <3>1. iter' = iter + 1 /\ UNCHANGED <<pc, inst, found>>
        BY <1>1, <2>3 DEF ScanProbe
      <3>2. \A k \in 0..iter' - 1 : k = iter \/ k \in 0..iter - 1
        BY <1>0, <3>1
      <3> QED BY <2>1, <2>2, <2>3, <3>1, <3>2
    <2>4. CASE ~FileExist(path', inst, iter) /\ iter # 0
      <3>1. found' = <<inst, iter - 1>> /\ inst' = inst + 1 /\ iter' = 0 /\ pc' = pc
        BY <1>1, <2>4 DEF ScanProbe
      <3>2. iter - 1 \in 0..iter - 1 /\ (iter - 1) + 1 = iter /\ 0..iter' - 1 = {}
        BY <1>0, <2>4, <3>1
      <3>3. found' \in Written /\ found'[1] = inst' - 1 /\ found'[1] = inst
            /\ found'[2] + 1 = iter
        BY <1>0, <2>1, <3>1, <3>2
      <3>4. category = Known => <<found'[1], found'[2] + 1>> \notin Written
        BY <2>2, <2>4, <3>3
      <3> QED BY <2>1, <3>1, <3>2, <3>3, <3>4
    <2>5. CASE ~FileExist(path', inst, iter) /\ iter = 0
      BY <1>1, <2>1, <2>2, <2>5 DEF ScanProbe
    <2> QED BY <2>3, <2>4, <2>5
  <1>2. CASE Interrupt
    <2>1. inst' = 0 /\ iter' = 0 /\ pc' = "scan" /\ 0..iter' - 1 = {}
      BY <1>2 DEF Interrupt
    <2> QED BY <2>1 DEF ScanInv
  <1>3. CASE RunInstance \/ CaseOver \/ ReadFound \/ TallyProbe \/ NewRun
    <2>1. pc' \notin {"scan", "read"}
      BY <1>3 DEF RunInstance, CaseOver, ReadFound, TallyProbe, NewRun
    <2> QED BY <2>1 DEF ScanInv
  <1>4. CASE UNCHANGED vars
    <2>1. UNCHANGED <<pc, inst, iter, found>>
      BY <1>4 DEF vars
    <2> QED BY <1>4, <2>1, ReadersFrame DEF ScanInv
  <1> QED BY <1>1, <1>2, <1>3, <1>4 DEF Next

(* Past the last iteration of an instance nothing of it is left.           *)
LEMMA PassedInstance ==
  ASSUME TypeInv, NEW i \in Nat, NEW j \in Nat, <<i, j>> \notin Written
  PROVE  Passed(i + 1, 0) = Passed(i, j)
  <1>1. ASSUME NEW p \in Written
        PROVE  p[1] < i + 1 \/ (p[1] = i + 1 /\ p[2] < 0) <=> p[1] < i \/ (p[1] = i /\ p[2] < j)
    <2>1. p[1] \in Nat /\ p[2] \in 0..iterations - 1 /\ iterations \in Nat
      BY WrittenType DEF TypeInv, TypeOK
    <2>2. ~(p[1] = i /\ j <= p[2])
      <3>1. SUFFICES ASSUME p[1] = i /\ j <= p[2] PROVE FALSE
        OBVIOUS
      <3>2. j < iterations
        BY <2>1, <3>1
      <3> QED BY <3>1, <3>2, WrittenDown
    <2> QED BY <2>1, <2>2
  <1> QED BY <1>1 DEF Passed

LEMMA PassedAll ==
  ASSUME TypeInv, NEW i \in Nat, <<i, 0>> \notin Written
  PROVE  /\ \A p \in Written : p[1] < i
         /\ Passed(i, 0) = Written
  <1>1. ASSUME NEW p \in Written PROVE p[1] < i
    <2>1. SUFFICES ASSUME ~(p[1] < i) PROVE FALSE
      OBVIOUS
    <2>2. p[1] \in Nat /\ p[2] \in Nat /\ 0 < iterations
      BY WrittenType DEF TypeInv, TypeOK
    <2>3. i < p[1] \/ (i = p[1] /\ 0 <= p[2])
      BY <2>1, <2>2
    <2> QED BY <2>2, <2>3, WrittenDown
  <1> QED BY <1>1 DEF Passed

LEMMA PassedOne ==
  ASSUME TypeInv, NEW i \in Nat, NEW j \in Nat, <<i, j>> \in Written
  PROVE  Passed(i, j + 1) = Passed(i, j) \cup {<<i, j>>}
  <1>1. \A p \in Written : p[1] \in Nat /\ p[2] \in Nat /\ p = <<p[1], p[2]>>
    BY WrittenType
  <1>2. ASSUME NEW p \in Written
        PROVE  p[1] < i \/ (p[1] = i /\ p[2] < j + 1)
               <=> p[1] < i \/ (p[1] = i /\ p[2] < j) \/ p = <<i, j>>
    <2>1. p[1] \in Nat /\ p[2] \in Nat /\ p = <<p[1], p[2]>>
      BY <1>1
    <2>2. p = <<i, j>> <=> p[1] = i /\ p[2] = j
      BY <2>1
    <2>3. p[1] < i \/ (p[1] = i /\ p[2] < j + 1)
               <=> p[1] < i \/ (p[1] = i /\ p[2] < j) \/ (p[1] = i /\ p[2] = j)
      BY <2>1
    <2> QED BY <2>2, <2>3
  <1> QED BY <1>2 DEF Passed

LEMMA TallyStep ==
  ASSUME KnownDirectories, TypeInv, DiskInv, TallyInv, [Next]_vars
  PROVE  TallyInv'
  <1>0. inst \in Nat /\ iter \in Nat /\ run \in 1..MaxRuns
    BY DEF TypeInv, TypeOK
  <1> DEFINE All == {<<p[1], p[2], run>> : p \in Written}
             Of(i, j) == {<<p[1], p[2], run>> : p \in Passed(i, j)}
  <1>1. CASE TallyProbe
    <2>0. SUFFICES ASSUME OthersClean
                   PROVE  /\ counted' \subseteq All
                          /\ category = Known => /\ counted' = Of(inst', iter')
                                                 /\ pc' = "done" => <<inst', 0>> \notin Written
      BY <1>1, ReadersFrame DEF TallyInv
    <2>1. pc = "tally" /\ counted \subseteq All /\ (category = Known => counted = Of(inst, iter))
      BY <1>1, <2>0 DEF TallyProbe, TallyInv
    <2>2. /\ FileExist(path', inst, iter) => <<inst, iter>> \in Written
          /\ category = Known /\ ~FileExist(path', inst, iter) => <<inst, iter>> \notin Written
      BY <1>0, <1>1, <2>0, ProbeExact DEF TallyProbe
    <2>3. CASE FileExist(path', inst, iter)
      <3>1. /\ counted' = counted \cup {<<inst, iter, r>> :
                            r \in {q \in 1..MaxRuns : <<path', inst, iter, q>> \in files}}
            /\ iter' = iter + 1 /\ UNCHANGED <<pc, inst>>
        BY <1>1, <2>3 DEF TallyProbe
      <3>2. \A q \in 1..MaxRuns : <<path', inst, iter, q>> \in files => q = run
        <4>1. \A f \in files : f[4] = run
          BY <2>0 DEF DiskInv, OthersClean
        <4> QED BY <4>1
      <3>3. {q \in 1..MaxRuns : <<path', inst, iter, q>> \in files} = {run}
        BY <1>0, <2>3, <3>2 DEF FileExist
      <3>4. counted' = counted \cup {<<inst, iter, run>>}
        BY <3>1, <3>3
      <3>a. <<inst, iter>> \in Written /\ <<inst, iter>>[1] = inst /\ <<inst, iter>>[2] = iter
        BY <2>2, <2>3
      <3>b. <<inst, iter, run>> \in All
        BY <3>a, Zenon
      <3>5. Passed(inst, iter + 1) = Passed(inst, iter) \cup {<<inst, iter>>}
        BY <1>0, <3>a, PassedOne
      <3>6. Of(inst, iter + 1) = Of(inst, iter) \cup {<<inst, iter, run>>}
        <4>2. \A x : x \in Of(inst, iter + 1) <=> x \in Of(inst, iter) \/ x = <<inst, iter, run>>
          BY <3>5, <3>a, Zenon
        <4> QED BY <4>2
      <3> HIDE DEF All, Of
      <3> QED BY <2>1, <3>1, <3>4, <3>b, <3>6
    <2>4. CASE ~FileExist(path', inst, iter) /\ iter # 0
      <3>1. inst' = inst + 1 /\ iter' = 0 /\ UNCHANGED <<pc, counted>>
        BY <1>1, <2>4 DEF TallyProbe
      <3>2. category = Known => Passed(inst + 1, 0) = Passed(inst, iter)
        BY <1>0, <2>2, <2>4, PassedInstance
      <3> QED BY <2>1, <3>1, <3>2
    <2>5. CASE ~FileExist(path', inst, iter) /\ iter = 0
      BY <1>1, <2>1, <2>2, <2>5 DEF TallyProbe
    <2> QED BY <2>3, <2>4, <2>5
  <1>2. CASE CaseOver
    <2>1. inst' = 0 /\ iter' = 0 /\ pc' = "tally" /\ counted' = {}
      BY <1>2 DEF CaseOver
    <2>2. Passed(0, 0) = {}
      <3>1. \A p \in Written : p[1] \in Nat /\ p[2] \in Nat
        BY WrittenType
      <3> QED BY <3>1 DEF Passed
    <2>3. Passed(0, 0)' = {}
      BY <1>2, <2>2, ReadersFrame
    <2> QED BY <2>1, <2>3 DEF TallyInv
  <1>3. CASE RunInstance \/ Interrupt \/ ReadFound \/ ScanProbe \/ NewRun
    <2>1. pc' \notin {"tally", "done"}
      BY <1>3 DEF RunInstance, Interrupt, ReadFound, ScanProbe, NewRun
    <2> QED BY <2>1 DEF TallyInv
  <1>4. CASE UNCHANGED vars
    <2>1. UNCHANGED <<pc, inst, iter, counted>>
      BY <1>4 DEF vars
    <2> QED BY <1>4, <2>1, ReadersFrame DEF TallyInv
  <1> QED BY <1>1, <1>2, <1>3, <1>4 DEF Next

-----------------------------------------------------------------------------
FilesInv == TypeInv /\ DiskInv /\ ScanInv /\ TallyInv

LEMMA FilesInvariant ==
  ASSUME KnownDirectories
  PROVE  Spec => []FilesInv
  <1>1. Init => FilesInv
    BY InitType, InitDisk DEF FilesInv
  <1>2. FilesInv /\ [Next]_vars => FilesInv'
    BY NextType, DiskStep, ScanStep, TallyStep DEF FilesInv
  <1> QED BY <1>1, <1>2, PTL DEF Spec

LEMMA ScanMaximum == FilesInv => FindsMaximum
  <1> SUFFICES ASSUME FilesInv, pc = "read", OthersClean, category = Known
               PROVE  IF Written = {} THEN inst = 0 ELSE inst # 0 /\ IsLastWritten(found)
    BY DEF FindsMaximum, FilesInv, ScanInv
  <1>0. inst \in Nat /\ TypeInv
    BY DEF FilesInv, TypeInv
  <1>1. /\ inst # 0 => /\ found \in Written /\ found[1] = inst - 1
                       /\ <<found[1], found[2] + 1>> \notin Written
        /\ <<inst, 0>> \notin Written
    BY DEF FilesInv, ScanInv
  <1>2. \A q \in Written : q[1] \in Nat /\ q[2] \in 0..iterations - 1 /\ q[1] < inst
    BY <1>0, <1>1, PassedAll, WrittenType
  <1>3. CASE inst = 0
    <2>1. Written = {}
      BY <1>2, <1>3
    <2> QED BY <1>3, <2>1
  <1>4. CASE inst # 0
    <2>1. found \in Written /\ found[1] = inst - 1 /\ found[2] \in Nat
          /\ <<found[1], found[2] + 1>> \notin Written
      BY <1>1, <1>2, <1>4
    <2>2. ASSUME NEW q \in Written PROVE q[1] < found[1] \/ (q[1] = found[1] /\ q[2] <= found[2])
      <3>1. q[1] \in Nat /\ q[2] \in 0..iterations - 1 /\ q[1] < inst /\ iterations \in Nat
        BY <1>0, <1>2, <2>2 DEF TypeInv, TypeOK
      <3>2. ~(q[1] = found[1] /\ found[2] + 1 <= q[2])
        <4>1. SUFFICES ASSUME q[1] = found[1], found[2] + 1 <= q[2] PROVE FALSE
          OBVIOUS
        <4>2. found[1] \in Nat /\ found[2] + 1 \in Nat /\ found[2] + 1 < iterations
          BY <2>1, <3>1, <4>1
        <4> QED BY <1>0, <2>1, <2>2, <4>1, <4>2, WrittenDown
      <3> QED BY <1>0, <2>1, <3>1, <3>2
    <2> QED BY <1>4, <2>1, <2>2 DEF IsLastWritten
  <1> QED BY <1>3, <1>4

(* GetInstanceAssertion finds no instance that was not executed before     *)
(* the machine was reset and, in a category of the database, the last one, *)
(* in whichever of the known directories its key file is.                  *)
THEOREM ScanFinds ==
  ASSUME KnownDirectories
  PROVE  Spec => []FindsMaximum
  BY FilesInvariant, ScanMaximum, PTL

(* GetInterfaceAssertion adds up no key file of an earlier execution and,  *)
(* in a category of the database, that of every instance of this one.      *)
THEOREM TallyCounts ==
  ASSUME KnownDirectories
  PROVE  Spec => []TallyExact
  <1>1. FilesInv => TallyExact
    <2> SUFFICES ASSUME FilesInv, pc = "done", OthersClean
                 PROVE  /\ counted \subseteq {<<p[1], p[2], run>> : p \in Written}
                        /\ category = Known => counted = {<<p[1], p[2], run>> : p \in Written}
      BY DEF TallyExact
    <2>1. inst \in Nat /\ TypeInv
      BY DEF FilesInv, TypeInv
    <2>2. counted \subseteq {<<p[1], p[2], run>> : p \in Written}
      BY DEF FilesInv, TallyInv
    <2>3. ASSUME category = Known PROVE counted = {<<p[1], p[2], run>> : p \in Written}
      <3>1. /\ counted = {<<p[1], p[2], run>> : p \in Passed(inst, iter)}
            /\ <<inst, 0>> \notin Written
        BY <2>3 DEF FilesInv, TallyInv
      <3>2. Passed(inst, iter) = Written
        BY <2>1, <3>1, PassedAll DEF Passed
      <3> QED BY <3>1, <3>2
    <2> QED BY <2>2, <2>3
  <1> QED BY <1>1, FilesInvariant, PTL
=============================================================================
