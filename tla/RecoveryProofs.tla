--------------------------- MODULE RecoveryProofs ---------------------------
(***************************************************************************)
(* What the recovery of the test executor keeps, for every list of cases,  *)
(* every number of handles, iterations, runs, resets and faults: no        *)
(* assertion is lost or counted twice, no instance is left out or entered  *)
(* afresh twice, a hang is reported, and a reset record is only read by    *)
(* the test that wrote it.                                                 *)
(***************************************************************************)
EXTENDS ExecutorProofs

USE ExecutorAssumption

(* The machine does not stop between the mark of a case and the removal of *)
(* its old key files, between the TERM of a log and the removal of the     *)
(* reset record, nor in the middle of a save; and the interface filter     *)
(* refuses no handle.  In each of these cases the program does lose track. *)
Recoverable ==
  /\ CrashAt \cap {"clean", "purge", "rmrec", "flush"} = {}
  /\ \A c \in Cases : Filtered[c] = {}

Walking  == pc \in {"locate", "loop", "tally"} \/ InInstance
Clearing == pc \in {"clean", "purge"}
Resumed(c) == ini[c].st = "RUNNING" /\ Selected(c)

(* The case that is run is the one Sct -c would resume.                    *)
CurInv ==
  /\ Walking \/ Clearing => ini[cur].st = "RUNNING" /\ mem[cur].st = "RUNNING"
  /\ pc = "mark" \/ Clearing => info = InitializeExecuteInfo
  /\ Clearing => /\ written[cur] = {} /\ started[cur] = {}
                 /\ termed[cur] = {} /\ cut[cur] = {}
  /\ pc = "purge" => rec = "NONE"

(* A log without HEAD is empty.                                            *)
FileInv ==
  \A c \in Cases : \A p \in Inst(c) :
    keys[c][p].state \in {"NONE", "EMPTY"} => keys[c][p].asserts = {} /\ ~keys[c][p].hang

(* The logs hold what was recorded, each line in the log it went to.       *)
Counted(c) ==
  /\ \A y \in written[c] : y[1] \in Inst(c) /\ y[2] \in keys[c][y[1]].asserts
  /\ \A p \in Inst(c) : \A l \in keys[c][p].asserts : <<p, l>> \in written[c]

(* What the files of a running case tell Sct -c: the logs end in the order *)
(* in which the instances are run, a test that was entered has a log, and  *)
(* one that was stopped either has been reported or will be found RUNNING  *)
(* with no reset record.                                                   *)
Prefixed(c) == \A p, q \in Inst(c) : Precedes(p, q) /\ keys[c][q].state # "NONE"
                                         => keys[c][p].state = "FINISHED"
Ended(c)    == \A p \in Inst(c) : keys[c][p].state = "FINISHED" => p \in termed[c]
Entered(c)  == \A p \in started[c] : p \in Inst(c) /\ keys[c][p].state \in {"RUNNING", "FINISHED"}
Stopped(c)  == \A p \in cut[c] :
                 /\ p \in Inst(c)
                 /\ keys[c][p].hang \/ (keys[c][p].state = "RUNNING" /\ rec # "DATA")
Logged(c)   == Prefixed(c) /\ Ended(c) /\ Entered(c) /\ Stopped(c) /\ Counted(c)

LogInv == ~Clearing => \A c \in Cases : Resumed(c) => Logged(c)

(* The reset record is that of the instance whose log is open, if the case *)
(* is still to be resumed.                                                 *)
OwnerInv ==
  rec = "DATA" /\ pc \notin {"clean", "rmrec"} =>
    \A c \in Cases : Resumed(c) =>
      \E p \in Inst(c) : keys[c][p].state = "RUNNING" /\ owner = <<c, p[1], p[2]>>

(* The state of the current log: before the instance it is what the resume *)
(* found, or there is none.                                                *)
HereStates ==
  IF pc \in {"locate", "loop", "open"}
  THEN CASE info.State = "UNKNOWN" -> {"NONE"}
         [] info.State = "EMPTY"   -> {"NONE", "EMPTY"}
         [] OTHER                  -> {info.State}
  ELSE IF pc = "head" THEN {"EMPTY"}
  ELSE IF pc \in {"rmrec", "after"} THEN {"FINISHED"} ELSE {"RUNNING"}

(* The loops are where the logs end.                                       *)
PlaceInv ==
  Walking =>
    /\ info.Index = info.Handle
    /\ \A p \in Inst(cur) : Precedes(p, Instance) => keys[cur][p].state = "FINISHED"
    /\ \A p \in Inst(cur) : Precedes(Instance, p) => keys[cur][p].state = "NONE"
    /\ Instance \in Inst(cur) /\ pc # "tally" => keys[cur][Instance].state \in HereStates
    /\ info.State # "UNKNOWN" => info.Iteration < Iterations[cur] \/ Iterations[cur] = 0
    /\ pc = "tally" => info.Handle >= NoHandles[cur] \/ "handles" \in spoiled[cur]
    /\ pc = "open" => info.State # "FINISHED"
    /\ pc = "head" => info.State \in {"UNKNOWN", "EMPTY"}

(* A test is entered for an instance that is new, or for the reset record. *)
EntryInv ==
  /\ pc \in {"head", "check", "entry"} /\ info.State = "UNKNOWN" =>
       Instance \notin started[cur] /\ Instance \notin cut[cur]
  /\ pc = "entry" => info.State = "UNKNOWN" \/ rec = "DATA"
  /\ pc \in {"entry", "body", "wrec", "hung", "term"} /\ Instance \in cut[cur] =>
       keys[cur][Instance].hang

(* A result is right when it has what was recorded, every instance was     *)
(* ended, and every one cut short is reported, up to the errors swallowed. *)
RightResult(c, r, w, sp, ended, stopped, logs) ==
  /\ NothingForeign(w, r.asserts) /\ CountedOnce(r.asserts)
  /\ "tally" \in sp \/ NothingLost(w, r.asserts)
  /\ "handles" \notin sp => /\ \A p \in Inst(c) : p \in ended
                           /\ \A p \in stopped : p \in Inst(c) /\ logs[p].hang

DoneRight(c, r) == RightResult(c, r, written[c], spoiled[c], termed[c], cut[c], keys[c])

DoneInv ==
  /\ \A c \in Cases : ini[c].st = "DONE" => DoneRight(c, ini[c])
  /\ pc \notin {"shell", "off"} =>
       \A c \in Cases : mem[c].st = "DONE" => DoneRight(c, mem[c])

RecInv == CurInv /\ FileInv /\ LogInv /\ OwnerInv /\ PlaceInv /\ EntryInv /\ DoneInv

-----------------------------------------------------------------------------
(* Instances and their order.                                              *)

(* An instance is a pair of a handle and an iteration of the case.         *)
LEMMA InstType ==
  ASSUME NEW c \in Cases, NEW p \in Inst(c)
  PROVE  /\ p = <<p[1], p[2]>> /\ p[1] \in Nat /\ p[2] \in Nat
         /\ p[1] < NoHandles[c] /\ p[2] < Iterations[c]
         /\ NoHandles[c] \in Nat /\ Iterations[c] \in Nat
  BY DEF Inst

(* Which pairs are instances.                                              *)
LEMMA InstPair ==
  ASSUME NEW c \in Cases, NEW i \in Nat, NEW j \in Nat
  PROVE  /\ <<i, j>> \in Inst(c) <=> i < NoHandles[c] /\ j < Iterations[c]
         /\ NoHandles[c] \in Nat /\ Iterations[c] \in Nat
  BY DEF Inst

(* The order in which instances are run is total.                          *)
LEMMA TotalOrder ==
  ASSUME NEW p \in Nat \X Nat, NEW q \in Nat \X Nat
  PROVE  /\ ~Precedes(p, p)
         /\ p = q \/ Precedes(p, q) \/ Precedes(q, p)
         /\ ~(Precedes(p, q) /\ Precedes(q, p))
         /\ \A r \in Nat \X Nat : Precedes(p, q) /\ Precedes(q, r) => Precedes(p, r)
  <1>1. /\ p = <<p[1], p[2]>> /\ p[1] \in Nat /\ p[2] \in Nat
        /\ q = <<q[1], q[2]>> /\ q[1] \in Nat /\ q[2] \in Nat
    OBVIOUS
  <1>2. ASSUME p[1] = q[1], p[2] = q[2] PROVE p = q
    BY <1>1, <1>2
  <1>3. ~Precedes(p, p) /\ ~(Precedes(p, q) /\ Precedes(q, p))
    BY <1>1 DEF Precedes
  <1>4. p = q \/ Precedes(p, q) \/ Precedes(q, p)
    BY <1>1, <1>2 DEF Precedes
  <1>5. ASSUME NEW r \in Nat \X Nat, Precedes(p, q), Precedes(q, r)
        PROVE  Precedes(p, r)
    <2>1. r[1] \in Nat /\ r[2] \in Nat
      OBVIOUS
    <2> QED BY <1>1, <1>5, <2>1 DEF Precedes
  <1> QED BY <1>3, <1>4, <1>5

(* Instances are pairs of numbers.                                         *)
LEMMA InstPairs ==
  ASSUME NEW c \in Cases
  PROVE  Inst(c) \subseteq Nat \X Nat
  BY DEF Inst

(* The types a step in a case needs.                                       *)
LEMMA WalkTypes ==
  ASSUME IndInv, pc \notin {"shell", "off"}
  PROVE  /\ cur \in Cases /\ Selected(cur)
         /\ info \in ExecuteInfo
         /\ info.Handle \in Nat /\ info.Iteration \in Nat /\ info.Index \in Nat
         /\ Instance \in Nat \X Nat /\ Instance[1] = info.Handle /\ Instance[2] = info.Iteration
         /\ NoHandles[cur] \in Nat /\ Iterations[cur] \in Nat
         /\ keys[cur] \in [Inst(cur) -> KeyFiles]
         /\ Filtered[cur] = {} => info.Handle \notin Filtered[cur]
  <1>1. /\ cur \in Cases /\ Selected(cur) /\ info \in ExecuteInfo
    BY DEF IndInv, TypeOK, ControlType, MemoryInOrder
  <1>2. info.Handle \in Nat /\ info.Iteration \in Nat /\ info.Index \in Nat
    BY <1>1 DEF ExecuteInfo
  <1>3. keys[cur] \in [Inst(cur) -> KeyFiles]
    BY <1>1 DEF IndInv, TypeOK, KeyType
  <1> QED BY <1>1, <1>2, <1>3 DEF Instance

(* In a case, it is the one that Sct -c would resume.                      *)
LEMMA OneResumed ==
  ASSUME IndInv, CurInv, Walking \/ Clearing
  PROVE  /\ cur \in Cases /\ Resumed(cur)
         /\ \A c \in Cases : Resumed(c) => c = cur
  <1>1. pc \notin {"shell", "off"}
    BY DEF Walking, Clearing, InInstance
  <1>2. cur \in Cases /\ Resumed(cur)
    BY <1>1, WalkTypes DEF CurInv, Resumed
  <1> QED BY <1>2 DEF Resumed, IndInv, ResumeInOrder

(* What a log holds.                                                       *)
LEMMA KeyFilesType ==
  /\ \A f \in KeyFiles : /\ f.state \in {"NONE", "EMPTY", "RUNNING", "FINISHED"}
                         /\ f.asserts \subseteq Lines /\ f.hang \in BOOLEAN
  /\ NoFile.state = "NONE" /\ NoFile.asserts = {} /\ NoFile.hang = FALSE
  BY DEF KeyFiles, NoFile, KeyFile

-----------------------------------------------------------------------------
(* Which steps touch the files and the history.                            *)

Quiet == UNCHANGED <<keys, rec, written, started, termed, cut, owner>>

(* The steps that may change the logs, the record or the history.          *)
LEMMA QuietFrame ==
  ASSUME Next
  PROVE  \/ Quiet \/ MarkRunning \/ CrashInFlush \/ CleanRecord \/ RemoveMetaFiles \/ OpenKeyFile
         \/ WriteHead \/ CheckRecord \/ EntryPoint \/ TestAssertion \/ WriteResetRecord
         \/ ResetSystem \/ WriteTerm \/ PostRemoveRecovery \/ Crash \/ WatchdogReset
  BY DEF Next, Framework, Test, Faults, SctExecute, SctContinueExecute, SkipCase,
         HandlesDone, FilterHandle, NextHandle, SkipFinished, RunInstance, AfterInstance,
         Tally, TallyFails, TallyOf, Finish, Hang, Return, ExecuteError, LocateHandles,
         LocateFails, Boot,
         Quiet, histVars, diskVars

(* The walk through a case begins at the resume or after the purge.        *)
LEMMA WalkFrame ==
  ASSUME Next
  PROVE  /\ Walking' => \/ Walking /\ UNCHANGED <<cur, ini, mem>>
                        \/ SctContinueExecute
                        \/ RemoveMetaFiles
         /\ Clearing' => MarkRunning \/ CleanRecord \/ RemoveMetaFiles
  <1> USE DEF Walking, Clearing, InInstance
  <1>1. CASE SctExecute
    BY <1>1 DEF SctExecute, StartNext
  <1>2. CASE SctContinueExecute
    BY <1>2 DEF SctContinueExecute, StartNext, ContinueExecuteStart
  <1>3. CASE MarkRunning \/ CleanRecord \/ RemoveMetaFiles
    BY <1>3 DEF MarkRunning, CleanRecord, RemoveMetaFiles
  <1>4. CASE LocateHandles \/ SkipCase \/ HandlesDone \/ FilterHandle \/ NextHandle
             \/ SkipFinished \/ RunInstance \/ OpenKeyFile \/ WriteHead \/ CheckRecord
             \/ WriteTerm \/ PostRemoveRecovery \/ AfterInstance
    BY <1>4 DEF LocateHandles, SkipCase, HandlesDone, FilterHandle, NextHandle, SkipFinished,
                RunInstance,
                OpenKeyFile, WriteHead, CheckRecord, WriteTerm, PostRemoveRecovery,
                AfterInstance, AcceptedHandle, AtHandle, memVars, diskVars
  <1>5. CASE Tally \/ Finish \/ WatchdogReset \/ Boot \/ Faults
    BY <1>5 DEF Tally, TallyFails, TallyOf, StartNext, Finish, WatchdogReset, Boot, Faults,
                Crash, CrashInFlush,
                ExecuteError, LocateFails, memVars, diskVars
  <1>6. CASE Test
    BY <1>6 DEF Test, EntryPoint, TestAssertion, WriteResetRecord, ResetSystem, Hang, Return,
                memVars, diskVars
  <1> QED BY <1>1, <1>2, <1>3, <1>4, <1>5, <1>6 DEF Next, Framework

-----------------------------------------------------------------------------
(* The case that is run.                                                   *)

(* Every step keeps CurInv.                                                *)
LEMMA CurStep ==
  ASSUME IndInv, RecInv, Next
  PROVE  CurInv'
  <1>0. CurInv /\ (pc \notin {"shell", "off"} => cur \in Cases)
    BY DEF RecInv, IndInv, TypeOK, ControlType
  <1>1. ASSUME Walking' PROVE ini'[cur'].st = "RUNNING" /\ mem'[cur'].st = "RUNNING"
    <2>1. CASE Walking /\ UNCHANGED <<cur, ini, mem>>
      BY <1>0, <2>1 DEF CurInv
    <2>2. CASE SctContinueExecute
      BY <1>1, <2>2 DEF SctContinueExecute, ContinueExecuteStart, StartNext, Walking,
                        InInstance, GetRunningTestCase, IsLowest, RunningCases
    <2>3. CASE RemoveMetaFiles
      BY <1>0, <2>3 DEF RemoveMetaFiles, CurInv, Clearing, memVars
    <2> QED BY <1>1, <2>1, <2>2, <2>3, WalkFrame
  <1>2. ASSUME Clearing'
        PROVE  /\ ini'[cur'].st = "RUNNING" /\ mem'[cur'].st = "RUNNING"
               /\ info' = InitializeExecuteInfo
               /\ written'[cur'] = {} /\ started'[cur'] = {}
               /\ termed'[cur'] = {} /\ cut'[cur'] = {}
               /\ pc' = "purge" => rec' = "NONE"
    <2>1. CASE MarkRunning
      BY <1>0, <2>1 DEF MarkRunning, StartHistory, SaveTestCases, CurInv, RUNNING, Result,
                        IndInv, TypeOK, ResultType, HistoryType
    <2>2. CASE CleanRecord
      BY <1>0, <2>2 DEF CleanRecord, RemoveRecoveryFile, CurInv, Clearing, memVars, histVars
    <2>3. CASE RemoveMetaFiles
      BY <1>0, <2>3 DEF RemoveMetaFiles, CurInv, Clearing, memVars, histVars
    <2> QED BY <1>2, <2>1, <2>2, <2>3, WalkFrame
  <1>3. ASSUME pc' = "mark" PROVE info' = InitializeExecuteInfo
    <2>1. SctExecute \/ SctContinueExecute \/ Tallying
      BY <1>3 DEF Next, Framework, Test, Faults, MarkRunning, CleanRecord, RemoveMetaFiles,
         SkipCase, HandlesDone, FilterHandle, NextHandle, SkipFinished, RunInstance,
         AcceptedHandle, AtHandle, OpenKeyFile, WriteHead, CheckRecord, WriteTerm,
         PostRemoveRecovery, AfterInstance, Finish, EntryPoint, TestAssertion,
         WriteResetRecord, ResetSystem, Hang, Return, WatchdogReset, Boot, Crash,
         CrashInFlush, ExecuteError, LocateHandles, LocateFails, Tallying
    <2> QED BY <1>3, <2>1, TallySteps DEF SctExecute, SctContinueExecute, ContinueExecuteStart,
                                          TallyOf, StartNext
  <1>4. pc' = "purge" => Clearing'
    BY DEF Clearing
  <1> QED BY <1>1, <1>2, <1>3, <1>4 DEF CurInv

(* A write in an instance changes its log, and no other.                   *)
LEMMA HereWrite ==
  ASSUME IndInv, RecInv, InInstance, NEW f, WriteKey(f)
  PROVE  /\ cur \in Cases /\ Instance \in Inst(cur) /\ KeyName = Instance
         /\ keys'[cur][Instance] = f
         /\ \A p \in Inst(cur) : p # Instance => keys'[cur][p] = keys[cur][p]
         /\ \A c \in Cases : c # cur => keys'[c] = keys[c]
  <1>1. cur \in Cases /\ KeyName \in Inst(cur)
    BY CurrentKey
  <1>2. KeyName = Instance
    BY DEF RecInv, PlaceInv, Walking, KeyName, Instance
  <1>3. DOMAIN keys = Cases /\ keys[cur] \in [Inst(cur) -> KeyFiles]
    BY <1>1 DEF IndInv, TypeOK, KeyType
  <1> QED BY <1>1, <1>2, <1>3 DEF WriteKey

(* The log of the instance that is run, and its state.                     *)
LEMMA HereLog ==
  ASSUME IndInv, RecInv, InInstance
  PROVE  /\ cur \in Cases /\ Instance \in Inst(cur) /\ KeyName = Instance
         /\ keys[cur][Instance] \in KeyFiles
         /\ keys[cur][Instance].state \in HereStates
         /\ Walking
  <1>1. cur \in Cases /\ KeyName \in Inst(cur) /\ keys[cur][KeyName] \in KeyFiles
    BY CurrentKey
  <1>2. KeyName = Instance
    BY DEF RecInv, PlaceInv, Walking, KeyName, Instance
  <1>3. pc # "tally"
    BY DEF InInstance
  <1> QED BY <1>1, <1>2, <1>3 DEF RecInv, PlaceInv, Walking

(* The steps that write the log of their instance.                         *)
Writing ==
  \/ OpenKeyFile /\ info.State # "RUNNING"
  \/ WriteHead
  \/ CheckRecord /\ pc' = "term"
  \/ TestAssertion
  \/ WriteTerm

(* No other step, but the purge, touches the logs.                         *)
LEMMA WriteFrame ==
  ASSUME Next, ~RemoveMetaFiles, ~Writing
  PROVE  keys' = keys
  BY KeysFrame DEF Writing, OpenKeyFile, CheckRecord

(* How each of them writes it.                                             *)
LEMMA WriteCases ==
  ASSUME IndInv, RecInv, Writing
  PROVE  /\ InInstance /\ InInstance' /\ UNCHANGED <<cur, info, ini, mem, rec, cut, started, owner>>
         /\ cur \in Cases /\ Instance \in Inst(cur)
         /\ \A p \in Inst(cur) : p # Instance => keys'[cur][p] = keys[cur][p]
         /\ \A c \in Cases : c # cur => keys'[c] = keys[c]
         /\ \/ /\ OpenKeyFile /\ info.State # "RUNNING" /\ pc' = "head"
               /\ keys'[cur][Instance] = KeyFile("EMPTY", {}, FALSE)
               /\ UNCHANGED <<written, termed>>
            \/ /\ WriteHead
               /\ keys'[cur][Instance] = KeyFile("RUNNING", {}, FALSE)
               /\ UNCHANGED <<written, termed>>
            \/ /\ CheckRecord \/ TestAssertion
               /\ pc' = "term" => CheckRecord
               /\ keys'[cur][Instance].state = keys[cur][Instance].state
               /\ \E l : /\ keys'[cur][Instance].asserts = keys[cur][Instance].asserts \cup {l}
                         /\ written' = [written EXCEPT ![cur] = @ \cup {<<Instance, l>>}]
               /\ keys[cur][Instance].hang \/ CheckRecord => keys'[cur][Instance].hang
               /\ UNCHANGED termed
            \/ /\ WriteTerm
               /\ keys'[cur][Instance].state = "FINISHED"
               /\ keys'[cur][Instance].asserts = keys[cur][Instance].asserts
               /\ keys'[cur][Instance].hang = keys[cur][Instance].hang
               /\ termed' = [termed EXCEPT ![cur] = @ \cup {Instance}] /\ UNCHANGED written
  <1>1. CASE OpenKeyFile /\ info.State # "RUNNING"
    <2>1. InInstance /\ info.State # "RUNNING" /\ WriteKey(KeyFile("EMPTY", {}, FALSE))
      BY <1>1 DEF OpenKeyFile, InInstance
    <2> QED BY <1>1, <2>1, HereWrite DEF OpenKeyFile, InInstance, memVars, histVars
  <1>2. CASE WriteHead
    <2>1. InInstance /\ WriteKey(KeyFile("RUNNING", {}, FALSE))
      BY <1>2 DEF WriteHead, InInstance
    <2> QED BY <1>2, <2>1, HereWrite DEF WriteHead, InInstance, memVars, histVars
  <1>3. ASSUME InInstance, NEW g \in Guids, RecordAssertion(g)
        PROVE  /\ cur \in Cases /\ Instance \in Inst(cur)
               /\ \A p \in Inst(cur) : p # Instance => keys'[cur][p] = keys[cur][p]
               /\ \A c \in Cases : c # cur => keys'[c] = keys[c]
               /\ keys'[cur][Instance].state = keys[cur][Instance].state
               /\ \E l : /\ keys'[cur][Instance].asserts = keys[cur][Instance].asserts \cup {l}
                         /\ written' = [written EXCEPT ![cur] = @ \cup {<<Instance, l>>}]
               /\ keys'[cur][Instance].hang = (keys[cur][Instance].hang \/ g = "hang")
    <2> DEFINE line == <<g, recorded[cur] + 1>>
    <2>1. keys[cur][Instance] \in KeyFiles /\ KeyName = Instance
      BY <1>3, HereLog
    <2>2. /\ WriteKey([keys[cur][Instance] EXCEPT !.asserts = @ \cup {line},
                                                  !.hang = @ \/ g = "hang"])
          /\ written' = [written EXCEPT ![cur] = @ \cup {<<Instance, line>>}]
      BY <1>3, <2>1 DEF RecordAssertion
    <2> HIDE DEF line
    <2>3. keys'[cur][Instance] = [keys[cur][Instance] EXCEPT
                                    !.asserts = @ \cup {line}, !.hang = @ \/ g = "hang"]
      BY <1>3, <2>2, HereWrite
    <2>4. keys'[cur][Instance].hang = (keys[cur][Instance].hang \/ g = "hang")
      BY <2>1, <2>3, Zenon DEF KeyFiles
    <2>5. /\ keys'[cur][Instance].state = keys[cur][Instance].state
          /\ keys'[cur][Instance].asserts = keys[cur][Instance].asserts \cup {line}
      BY <2>1, <2>3 DEF KeyFiles
    <2> QED BY <1>3, <2>2, <2>4, <2>5, HereWrite
  <1>4. CASE CheckRecord /\ pc' = "term"
    <2>1. InInstance /\ InInstance' /\ RecordAssertion("hang")
      BY <1>4 DEF CheckRecord, InInstance
    <2>2. "hang" \in Guids
      BY GuidsType
    <2> QED BY <1>3, <1>4, <2>1, <2>2 DEF CheckRecord
  <1>5. CASE TestAssertion
    <2>1. InInstance /\ InInstance' /\ pc' # "term"
      BY <1>5 DEF TestAssertion, InInstance
    <2>2. PICK g \in TestGuids[cur] : RecordAssertion(g)
      BY <1>5 DEF TestAssertion
    <2>3. g \in Guids
      BY <2>1, <2>2, GuidsType, CurrentKey
    <2>4. ~CheckRecord
      BY <1>5 DEF CheckRecord, TestAssertion
    <2>5. UNCHANGED <<cur, info, ini, mem, rec, cut, started, owner, termed>>
      BY <1>5 DEF TestAssertion, memVars
    <2> QED BY <1>3, <1>5, <2>1, <2>2, <2>3, <2>4, <2>5
  <1>6. CASE WriteTerm
    <2>1. InInstance /\ InInstance'
      BY <1>6 DEF WriteTerm, InInstance
    <2>2. keys[cur][Instance] \in KeyFiles /\ KeyName = Instance
      BY <2>1, HereLog
    <2>3. WriteKey([keys[cur][Instance] EXCEPT !.state = "FINISHED"])
      BY <1>6, <2>2 DEF WriteTerm
    <2>4. keys'[cur][Instance] = [keys[cur][Instance] EXCEPT !.state = "FINISHED"]
      BY <2>1, <2>3, HereWrite
    <2> QED BY <1>6, <2>1, <2>2, <2>3, <2>4, HereWrite DEF WriteTerm, memVars, KeyFiles
  <1> QED BY <1>1, <1>2, <1>4, <1>5, <1>6 DEF Writing

(* A log without HEAD stays empty.                                         *)
LEMMA FileStep ==
  ASSUME IndInv, RecInv, Next
  PROVE  FileInv'
  <1>0. FileInv
    BY DEF RecInv
  <1>1. CASE keys' = keys
    BY <1>0, <1>1 DEF FileInv
  <1>2. CASE RemoveMetaFiles
    <2>1. DOMAIN keys = Cases /\ \A c \in Cases : keys[c] \in [Inst(c) -> KeyFiles]
      BY DEF IndInv, TypeOK, KeyType
    <2>2. \A c \in Cases : \A p \in Inst(c) : keys'[c][p] = keys[c][p] \/ keys'[c][p] = NoFile
      BY <1>2, <2>1 DEF RemoveMetaFiles
    <2> QED BY <1>0, <2>2, KeyFilesType DEF FileInv
  <1>3. CASE Writing
    <2>1. /\ InInstance /\ cur \in Cases /\ Instance \in Inst(cur)
          /\ \A p \in Inst(cur) : p # Instance => keys'[cur][p] = keys[cur][p]
          /\ \A c \in Cases : c # cur => keys'[c] = keys[c]
      BY <1>3, WriteCases
    <2>2. keys'[cur][Instance].state \in {"NONE", "EMPTY"} =>
             keys'[cur][Instance].asserts = {} /\ ~keys'[cur][Instance].hang
      <3>1. keys[cur][Instance].state \in HereStates
        BY <2>1, HereLog
      <3>2. CheckRecord \/ TestAssertion => keys[cur][Instance].state = "RUNNING"
        BY <3>1 DEF CheckRecord, TestAssertion, HereStates
      <3> QED BY <1>3, <3>2, WriteCases DEF KeyFile
    <2> QED BY <1>0, <2>1, <2>2 DEF FileInv
  <1> QED BY <1>1, <1>2, <1>3, WriteFrame

-----------------------------------------------------------------------------
(* The loops are where the logs end.                                       *)

(* The order, on pairs.                                                    *)
LEMMA PairOrder ==
  ASSUME NEW i \in Nat, NEW j \in Nat, NEW k \in Nat, NEW l \in Nat
  PROVE  Precedes(<<i, j>>, <<k, l>>) <=> i < k \/ (i = k /\ j < l)
  BY DEF Precedes

(* The logs around a position of the loops.                                *)
Around(i) ==
  /\ i.Index = i.Handle
  /\ \A p \in Inst(cur) : Precedes(p, <<i.Handle, i.Iteration>>) => keys[cur][p].state = "FINISHED"
  /\ \A p \in Inst(cur) : Precedes(<<i.Handle, i.Iteration>>, p) => keys[cur][p].state = "NONE"

(* The next iteration: the log before it has ended.                        *)
LEMMA NextIteration ==
  ASSUME IndInv, RecInv, Walking, Instance \in Inst(cur),
         keys[cur][Instance].state = "FINISHED",
         info' = [info EXCEPT !.State = "UNKNOWN", !.Iteration = @ + 1]
  PROVE  /\ Around(info')
         /\ info'.State = "UNKNOWN"
         /\ <<info'.Handle, info'.Iteration>> \in Inst(cur) =>
              keys[cur][<<info'.Handle, info'.Iteration>>].state = "NONE"
  <1>0. pc \notin {"shell", "off"}
    BY DEF Walking, InInstance
  <1>1. /\ cur \in Cases /\ info \in ExecuteInfo
        /\ info.Handle \in Nat /\ info.Iteration \in Nat /\ info.Index \in Nat
    BY <1>0, WalkTypes
  <1>2. /\ info'.Handle = info.Handle /\ info'.Iteration = info.Iteration + 1
        /\ info'.Index = info.Index /\ info'.State = "UNKNOWN"
    BY <1>1 DEF ExecuteInfo
  <1>3. Around(info)
    BY DEF RecInv, PlaceInv, Around, Instance
  <1>4. ASSUME NEW p \in Inst(cur)
        PROVE  /\ Precedes(p, <<info.Handle, info.Iteration + 1>>)
                    => Precedes(p, <<info.Handle, info.Iteration>>) \/ p = <<info.Handle, info.Iteration>>
               /\ Precedes(<<info.Handle, info.Iteration + 1>>, p) \/ p = <<info.Handle, info.Iteration + 1>>
                    => Precedes(<<info.Handle, info.Iteration>>, p)
    <2>1. p = <<p[1], p[2]>> /\ p[1] \in Nat /\ p[2] \in Nat
      BY <1>1, InstType
    <2> DEFINE i == p[1]
               j == p[2]
    <2>2. i \in Nat /\ j \in Nat /\ p = <<i, j>>
      BY <2>1
    <2> HIDE DEF i, j
    <2>3. /\ Precedes(<<i, j>>, <<info.Handle, info.Iteration + 1>>)
               <=> i < info.Handle \/ (i = info.Handle /\ j < info.Iteration + 1)
          /\ Precedes(<<i, j>>, <<info.Handle, info.Iteration>>)
               <=> i < info.Handle \/ (i = info.Handle /\ j < info.Iteration)
          /\ Precedes(<<info.Handle, info.Iteration + 1>>, <<i, j>>)
               <=> info.Handle < i \/ (info.Handle = i /\ info.Iteration + 1 < j)
          /\ Precedes(<<info.Handle, info.Iteration>>, <<i, j>>)
               <=> info.Handle < i \/ (info.Handle = i /\ info.Iteration < j)
      BY <1>1, <2>2, PairOrder
    <2>4. j < info.Iteration + 1 => j < info.Iteration \/ j = info.Iteration
      BY <1>1, <2>2
    <2>5. /\ info.Iteration + 1 < j => info.Iteration < j
          /\ <<i, j>> = <<info.Handle, info.Iteration + 1>> => i = info.Handle /\ info.Iteration < j
      BY <1>1, <2>2
    <2> QED BY <2>2, <2>3, <2>4, <2>5
  <1>5. keys[cur][<<info.Handle, info.Iteration>>].state = "FINISHED"
    BY DEF Instance
  <1> QED BY <1>2, <1>3, <1>4, <1>5 DEF Around

(* The next handle: all iterations of this one have ended.                 *)
LEMMA HandleAfter ==
  ASSUME IndInv, RecInv, NextHandle
  PROVE  /\ Around(info')
         /\ info'.State = info.State /\ info'.Iteration = 0
         /\ <<info'.Handle, info'.Iteration>> \in Inst(cur) =>
              keys[cur][<<info'.Handle, info'.Iteration>>].state = "NONE"
  <1>0. pc \notin {"shell", "off"} /\ Walking /\ info.Iteration >= Iterations[cur]
    BY DEF NextHandle, AcceptedHandle, AtHandle, Walking
  <1>1. /\ cur \in Cases /\ info \in ExecuteInfo
        /\ info.Handle \in Nat /\ info.Iteration \in Nat /\ info.Index \in Nat
        /\ Iterations[cur] \in Nat
    BY <1>0, WalkTypes
  <1>2. /\ info'.Handle = info.Handle + 1 /\ info'.Iteration = 0
        /\ info'.Index = info.Index + 1 /\ info'.State = info.State
    BY <1>1 DEF NextHandle, ExecuteInfo
  <1>3. Around(info)
    BY <1>0 DEF RecInv, PlaceInv, Around, Instance
  <1>4. ASSUME NEW p \in Inst(cur)
        PROVE  /\ Precedes(p, <<info.Handle + 1, 0>>)
                    => Precedes(p, <<info.Handle, info.Iteration>>)
               /\ Precedes(<<info.Handle + 1, 0>>, p) \/ p = <<info.Handle + 1, 0>>
                    => Precedes(<<info.Handle, info.Iteration>>, p)
    <2>1. p = <<p[1], p[2]>> /\ p[1] \in Nat /\ p[2] \in Nat /\ p[2] < Iterations[cur]
      BY <1>1, InstType
    <2> DEFINE i == p[1]
               j == p[2]
    <2>2. i \in Nat /\ j \in Nat /\ p = <<i, j>> /\ j < info.Iteration
      BY <1>0, <1>1, <2>1
    <2> HIDE DEF i, j
    <2>3. /\ Precedes(<<i, j>>, <<info.Handle + 1, 0>>)
               <=> i < info.Handle + 1 \/ (i = info.Handle + 1 /\ j < 0)
          /\ Precedes(<<i, j>>, <<info.Handle, info.Iteration>>)
               <=> i < info.Handle \/ (i = info.Handle /\ j < info.Iteration)
          /\ Precedes(<<info.Handle + 1, 0>>, <<i, j>>)
               <=> info.Handle + 1 < i \/ (info.Handle + 1 = i /\ 0 < j)
          /\ Precedes(<<info.Handle, info.Iteration>>, <<i, j>>)
               <=> info.Handle < i \/ (info.Handle = i /\ info.Iteration < j)
      BY <1>1, <2>2, PairOrder
    <2>4. /\ i < info.Handle + 1 => i < info.Handle \/ i = info.Handle
          /\ ~(j < 0)
      BY <1>1, <2>2
    <2>5. /\ info.Handle + 1 < i => info.Handle < i
          /\ info.Handle + 1 = i => info.Handle < i
      BY <1>1, <2>2
    <2>6. <<i, j>> = <<info.Handle + 1, 0>> => info.Handle + 1 = i
      OBVIOUS
    <2> QED BY <2>2, <2>3, <2>4, <2>5, <2>6
  <1> QED BY <1>1, <1>2, <1>3, <1>4 DEF Around

(* The scan finds where the logs end: with no log it resumes at the first  *)
(* instance, ...                                                           *)
LEMMA ResumeFirst ==
  ASSUME IndInv, NEW c \in Cases, Logged(c), ~HasKey(c, 0, 0)
  PROVE  \A p \in Inst(c) : keys[c][p].state = "NONE"
  <1> SUFFICES ASSUME NEW p \in Inst(c), keys[c][p].state # "NONE" PROVE FALSE
    OBVIOUS
  <1>1. /\ p = <<p[1], p[2]>> /\ p[1] \in Nat /\ p[2] \in Nat
        /\ p[1] < NoHandles[c] /\ p[2] < Iterations[c]
        /\ NoHandles[c] \in Nat /\ Iterations[c] \in Nat
    BY InstType
  <1>2. 0 < NoHandles[c] /\ 0 < Iterations[c]
    BY <1>1
  <1>3. <<0, 0>> \in Inst(c)
    BY <1>1, <1>2, InstPair
  <1>4. keys[c][<<0, 0>>].state = "NONE"
    BY <1>3 DEF HasKey
  <1>5. p # <<0, 0>>
    BY <1>4
  <1>6. ~Precedes(p, <<0, 0>>)
    BY <1>1 DEF Precedes
  <1>7. Precedes(<<0, 0>>, p)
    <2>1. p \in Nat \X Nat /\ <<0, 0>> \in Nat \X Nat
      BY <1>1
    <2> QED BY <1>5, <1>6, <2>1, TotalOrder
  <1> QED BY <1>3, <1>4, <1>7 DEF Logged, Prefixed

(* ... and else at the last log there is.                                  *)
LEMMA ResumeLast ==
  ASSUME IndInv, NEW c \in Cases, Logged(c), NEW p \in Inst(c), LastKey(c, p[1], p[2])
  PROVE  /\ keys[c][p].state # "NONE"
         /\ \A q \in Inst(c) : Precedes(q, p) => keys[c][q].state = "FINISHED"
         /\ \A q \in Inst(c) : Precedes(p, q) => keys[c][q].state = "NONE"
  <1> DEFINE i == p[1]
             j == p[2]
  <1>1. /\ p = <<i, j>> /\ i \in Nat /\ j \in Nat /\ i < NoHandles[c] /\ j < Iterations[c]
        /\ NoHandles[c] \in Nat /\ Iterations[c] \in Nat
    BY InstType
  <1>2. Probed(c, i, j) /\ ~HasKey(c, i, j + 1) /\ ~HasKey(c, i + 1, 0)
    BY DEF LastKey
  <1> HIDE DEF i, j
  <1>3. HasKey(c, i, j)
    BY <1>1, <1>2 DEF Probed
  <1>4. keys[c][p].state # "NONE"
    BY <1>1, <1>3 DEF HasKey
  <1>5. ASSUME NEW r \in Inst(c), keys[c][r].state = "NONE",
               NEW q \in Inst(c), r = q \/ Precedes(r, q)
        PROVE  keys[c][q].state = "NONE"
    BY <1>5 DEF Logged, Prefixed
  <1>6. ASSUME NEW q \in Inst(c), Precedes(p, q)
        PROVE  keys[c][q].state = "NONE"
    <2> DEFINE k == q[1]
               l == q[2]
    <2>1. /\ q = <<k, l>> /\ k \in Nat /\ l \in Nat /\ k < NoHandles[c] /\ l < Iterations[c]
      BY InstType
    <2> HIDE DEF k, l
    <2>2. i < k \/ (i = k /\ j < l)
      BY <1>1, <1>6, <2>1, PairOrder
    <2>3. CASE i < k
      <3>1. i + 1 \in Nat /\ i + 1 < NoHandles[c] /\ 0 < Iterations[c]
        BY <1>1, <2>1, <2>3
      <3>2. <<i + 1, 0>> \in Inst(c)
        BY <3>1, InstPair
      <3>3. keys[c][<<i + 1, 0>>].state = "NONE"
        BY <1>2, <3>2 DEF HasKey
      <3>4. (i + 1 = k /\ 0 = l) \/ i + 1 < k \/ (i + 1 = k /\ 0 < l)
        BY <1>1, <2>1, <2>3
      <3>5. <<i + 1, 0>> = q \/ Precedes(<<i + 1, 0>>, q)
        BY <2>1, <3>1, <3>4, PairOrder
      <3> QED BY <1>5, <3>2, <3>3, <3>5
    <2>4. CASE i = k /\ j < l
      <3>1. j + 1 \in Nat /\ j + 1 < Iterations[c]
        BY <1>1, <2>1, <2>4
      <3>2. <<i, j + 1>> \in Inst(c)
        BY <1>1, <3>1, InstPair
      <3>3. keys[c][<<i, j + 1>>].state = "NONE"
        BY <1>2, <3>2 DEF HasKey
      <3>4. j + 1 = l \/ j + 1 < l
        BY <1>1, <2>1, <2>4
      <3>5. <<i, j + 1>> = q \/ Precedes(<<i, j + 1>>, q)
        BY <1>1, <2>1, <2>4, <3>1, <3>4, PairOrder
      <3> QED BY <1>5, <3>2, <3>3, <3>5
    <2> QED BY <2>2, <2>3, <2>4
  <1>7. \A q \in Inst(c) : Precedes(q, p) => keys[c][q].state = "FINISHED"
    BY <1>4 DEF Logged, Prefixed
  <1> QED BY <1>4, <1>6, <1>7

(* Sct -c goes on where the logs end.                                      *)
LEMMA ResumePlace ==
  ASSUME IndInv, RecInv, SctContinueExecute, Walking'
  PROVE  PlaceInv'
  <1>0. pc = "shell" /\ ~Clearing /\ keys' = keys
    BY DEF SctContinueExecute, Clearing
  <1>1. PICK c \in Cases : GetRunningTestCase(ini, c) /\ ContinueExecuteStart(c)
    BY DEF SctContinueExecute, StartNext, Walking, InInstance
  <1>2. Resumed(c) /\ Logged(c)
    BY <1>0, <1>1 DEF GetRunningTestCase, IsLowest, RunningCases, Resumed, RecInv, LogInv
  <1>3. cur' = c /\ pc' = "locate" /\ GetInstanceAssertion(c)
    BY <1>1 DEF ContinueExecuteStart
  <1>4. Iterations[c] \in Nat /\ (0 < Iterations[c] \/ Iterations[c] = 0)
    OBVIOUS
  <1>5. CASE ~HasKey(c, 0, 0) /\ info' = [InitializeExecuteInfo EXCEPT !.State = "EMPTY"]
    <2>1. \A p \in Inst(c) : keys[c][p].state = "NONE"
      BY <1>2, <1>5, ResumeFirst
    <2>2. info'.Index = 0 /\ info'.Handle = 0 /\ info'.Iteration = 0 /\ info'.State = "EMPTY"
      BY <1>5 DEF InitializeExecuteInfo
    <2>3. \A p \in Inst(c) : ~Precedes(p, <<0, 0>>)
      BY InstType DEF Precedes
    <2>4. HereStates' = {"NONE", "EMPTY"}
      BY <1>3, <2>2 DEF HereStates
    <2> QED BY <1>0, <1>3, <1>4, <2>1, <2>2, <2>3, <2>4 DEF PlaceInv, Instance
  <1>6. ASSUME NEW p \in Inst(c), LastKey(c, p[1], p[2]),
               info' = [State |-> keys[c][p].state, Index |-> p[1],
                        Iteration |-> p[2], Handle |-> p[1]]
        PROVE  PlaceInv'
    <2>1. p = <<p[1], p[2]>> /\ p[2] < Iterations[c] /\ keys[c][p] \in KeyFiles
      BY InstType DEF IndInv, TypeOK, KeyType
    <2>2. /\ info'.Index = p[1] /\ info'.Handle = p[1] /\ info'.Iteration = p[2]
          /\ info'.State = keys[c][p].state
      BY <1>6
    <2>3. Instance' = p
      BY <2>1, <2>2 DEF Instance
    <2>4. keys[c][p].state \in {"EMPTY", "RUNNING", "FINISHED"}
      BY <1>2, <1>6, <2>1, ResumeLast, KeyFilesType
    <2>5. keys[c][p].state \in HereStates'
      BY <1>3, <2>2, <2>4 DEF HereStates
    <2>6. /\ \A q \in Inst(c) : Precedes(q, p) => keys[c][q].state = "FINISHED"
          /\ \A q \in Inst(c) : Precedes(p, q) => keys[c][q].state = "NONE"
      BY <1>2, <1>6, ResumeLast
    <2> QED BY <1>0, <1>3, <2>1, <2>2, <2>3, <2>5, <2>6 DEF PlaceInv
  <1> QED BY <1>3, <1>5, <1>6 DEF GetInstanceAssertion

(* Every step of the walk keeps its place.                                 *)
LEMMA PlaceStep ==
  ASSUME Recoverable, IndInv, RecInv, Next
  PROVE  PlaceInv'
  <1> SUFFICES ASSUME Walking' PROVE PlaceInv'
    BY DEF PlaceInv
  <1>1. CASE SctContinueExecute
    BY <1>1, ResumePlace
  <1>2. CASE RemoveMetaFiles
    <2>1. pc = "purge" /\ pc' = "locate" /\ keys' = keys /\ cur' = cur /\ info' = info
      BY <1>2 DEF RemoveMetaFiles, Walking, InInstance, memVars
    <2>2. \A p \in Inst(cur) : keys[cur][p] = NoFile
      BY <1>2, <2>1 DEF RemoveMetaFiles
    <2>3. info = InitializeExecuteInfo /\ cur \in Cases
      BY <2>1, OneResumed DEF RecInv, CurInv, Clearing
    <2>4. info'.Index = 0 /\ info'.Handle = 0 /\ info'.Iteration = 0 /\ info'.State = "UNKNOWN"
      BY <2>1, <2>3 DEF InitializeExecuteInfo
    <2>5. \A p \in Inst(cur) : ~Precedes(p, <<0, 0>>)
      BY <2>3, InstType DEF Precedes
    <2>6. HereStates' = {"NONE"}
      BY <2>1, <2>4 DEF HereStates
    <2> QED BY <2>1, <2>2, <2>4, <2>5, <2>6, KeyFilesType DEF PlaceInv, Instance
  <1>3. CASE Walking /\ UNCHANGED <<cur, ini, mem>> /\ ~SctContinueExecute /\ ~RemoveMetaFiles
    <2>0. PlaceInv
      BY DEF RecInv
    <2>1. CASE Writing
      <3>1. /\ InInstance /\ InInstance' /\ UNCHANGED <<cur, info>>
            /\ cur \in Cases /\ Instance \in Inst(cur)
            /\ \A p \in Inst(cur) : p # Instance => keys'[cur][p] = keys[cur][p]
        BY <1>3, <2>1, WriteCases
      <3>2. keys[cur][Instance].state \in HereStates
        BY <3>1, HereLog
      <3>3. Instance' = Instance /\ Instance \in Nat \X Nat
        BY <3>1, InstPairs DEF Instance
      <3>4. keys'[cur][Instance].state \in HereStates'
        <4>1. CASE OpenKeyFile /\ pc' = "head" /\ keys'[cur][Instance] = KeyFile("EMPTY", {}, FALSE)
          BY <4>1 DEF HereStates, KeyFile
        <4>2. CASE WriteHead /\ keys'[cur][Instance] = KeyFile("RUNNING", {}, FALSE)
          BY <4>2 DEF WriteHead, HereStates, KeyFile
        <4>3. CASE (CheckRecord \/ TestAssertion)
                   /\ keys'[cur][Instance].state = keys[cur][Instance].state
          BY <3>2, <4>3 DEF CheckRecord, TestAssertion, HereStates
        <4>4. CASE WriteTerm /\ keys'[cur][Instance].state = "FINISHED"
          BY <4>4 DEF WriteTerm, HereStates
        <4> QED BY <1>3, <2>1, <4>1, <4>2, <4>3, <4>4, WriteCases
      <3>5. ~Precedes(Instance, Instance)
        BY <3>3, TotalOrder
      <3>6. pc' \notin {"tally", "open"}
        BY <2>1 DEF Writing, OpenKeyFile, WriteHead, CheckRecord, TestAssertion, WriteTerm
      <3>7. pc' = "head" => info.State \in {"UNKNOWN", "EMPTY"}
        <4>1. pc' = "head" => OpenKeyFile /\ info.State # "RUNNING"
          BY <2>1 DEF Writing, OpenKeyFile, WriteHead, CheckRecord, TestAssertion, WriteTerm
        <4>2. info.State \in {"UNKNOWN", "EMPTY", "RUNNING", "FINISHED"}
          BY DEF IndInv, TypeOK, ControlType, ExecuteInfo
        <4> QED BY <1>3, <2>0, <4>1, <4>2 DEF OpenKeyFile, PlaceInv
      <3> QED BY <1>3, <2>0, <3>1, <3>3, <3>4, <3>5, <3>6, <3>7 DEF PlaceInv
    <2>2. CASE NextHandle
      <3>0. pc = "loop" /\ pc' = "loop" /\ keys' = keys /\ cur \in Cases /\ cur' = cur
        BY <2>2, WalkTypes DEF NextHandle, AcceptedHandle, AtHandle, diskVars
      <3>1. /\ Around(info')
            /\ info'.State = info.State /\ info'.Iteration = 0
            /\ <<info'.Handle, info'.Iteration>> \in Inst(cur) =>
                 keys[cur][<<info'.Handle, info'.Iteration>>].state = "NONE"
        BY <2>2, HandleAfter
      <3>2. info.Iteration \in Nat /\ Iterations[cur] \in Nat /\ info.Iteration >= Iterations[cur]
        BY <2>2, <3>0, WalkTypes DEF NextHandle
      <3>3. info'.State # "UNKNOWN" => Iterations[cur] = 0
        BY <1>3, <2>0, <3>1, <3>2 DEF PlaceInv
      <3>4. Instance' \in Inst(cur) => Iterations[cur] # 0
        BY <3>0, <3>2, InstType
      <3>5. info'.State = "UNKNOWN" => HereStates' = {"NONE"}
        BY <3>0 DEF HereStates
      <3> QED BY <3>0, <3>1, <3>3, <3>4, <3>5 DEF PlaceInv, Around, Instance
    <2>3. CASE SkipFinished \/ (AfterInstance /\ pc' = "loop")
      <3>0. pc \in {"loop", "after"} /\ pc' = "loop" /\ keys' = keys /\ cur' = cur
        BY <2>3 DEF SkipFinished, AfterInstance, AcceptedHandle, AtHandle, diskVars
      <3>1. info' = [info EXCEPT !.State = "UNKNOWN", !.Iteration = @ + 1]
        BY <2>3 DEF SkipFinished, AfterInstance
      <3>2. Instance \in Inst(cur) /\ keys[cur][Instance].state = "FINISHED"
        <4>1. CASE SkipFinished
          <5>1. /\ pc = "loop" /\ info.State = "FINISHED"
                /\ info.Handle < NoHandles[cur] /\ info.Iteration < Iterations[cur]
            BY <4>1 DEF SkipFinished, AcceptedHandle, AtHandle
          <5>2. Instance \in Inst(cur)
            BY <5>1, WalkTypes, InstPair DEF Instance
          <5> QED BY <1>3, <2>0, <5>1, <5>2 DEF PlaceInv, HereStates
        <4>2. CASE AfterInstance
          <5>1. pc = "after" /\ InInstance
            BY <4>2 DEF AfterInstance, InInstance
          <5> QED BY <5>1, HereLog DEF HereStates
        <4> QED BY <2>3, <4>1, <4>2
      <3>3. /\ Around(info')
            /\ info'.State = "UNKNOWN"
            /\ <<info'.Handle, info'.Iteration>> \in Inst(cur) =>
                 keys[cur][<<info'.Handle, info'.Iteration>>].state = "NONE"
        BY <1>3, <3>1, <3>2, NextIteration
      <3>4. HereStates' = {"NONE"}
        BY <3>0, <3>3 DEF HereStates
      <3> QED BY <3>0, <3>3, <3>4 DEF PlaceInv, Around, Instance
    <2>4. CASE SkipCase \/ HandlesDone \/ LocateFails
      <3>1. /\ pc \in {"locate", "loop"} /\ pc' = "tally"
            /\ keys' = keys /\ cur' = cur /\ info' = info
            /\ NoHandles[cur] = 0 \/ info.Handle >= NoHandles[cur] \/ Spoil("handles")
        BY <2>4 DEF SkipCase, HandlesDone, LocateFails, memVars, diskVars
      <3>2. info.Handle >= NoHandles[cur] \/ "handles" \in spoiled'[cur]
        <4>1. Spoil("handles") => "handles" \in spoiled'[cur]
          BY <3>1, WalkTypes DEF Spoil, IndInv, TypeOK, HistoryType
        <4> QED BY <3>1, <4>1, WalkTypes
      <3> QED BY <1>3, <2>0, <3>1, <3>2 DEF PlaceInv, Instance
    <2>5. CASE LocateHandles \/ RunInstance
      <3>1. /\ pc \in {"locate", "loop"} /\ pc' \in {"loop", "open"}
            /\ keys' = keys /\ cur' = cur /\ info' = info
            /\ pc' = "open" => info.State # "FINISHED"
        BY <2>5 DEF LocateHandles, RunInstance, AcceptedHandle, AtHandle, memVars, diskVars
      <3>2. HereStates' = HereStates
        BY <3>1 DEF HereStates
      <3> QED BY <1>3, <2>0, <3>1, <3>2 DEF PlaceInv, Instance
    <2>6. CASE ~Writing /\ (OpenKeyFile \/ CheckRecord \/ EntryPoint \/ WriteResetRecord
                            \/ Hang \/ Return \/ PostRemoveRecovery)
      <3>1. /\ pc' \in {"check", "entry", "body", "wrec", "hung", "term", "after"}
            /\ keys' = keys /\ cur' = cur /\ info' = info /\ InInstance
        BY <2>6 DEF Writing, OpenKeyFile, CheckRecord, EntryPoint, WriteResetRecord, Hang,
                    Return, PostRemoveRecovery, memVars, diskVars, InInstance
      <3>2. HereStates' = HereStates
        BY <2>6, <3>1 DEF Writing, OpenKeyFile, CheckRecord, EntryPoint, WriteResetRecord, Hang,
                    Return, PostRemoveRecovery, HereStates
      <3>3. keys[cur][Instance].state \in HereStates
        BY <3>1, HereLog
      <3> QED BY <1>3, <2>0, <3>1, <3>2, <3>3 DEF PlaceInv, Instance
    <2>7. ~FilterHandle
      BY WalkTypes DEF FilterHandle, AtHandle, Recoverable
    <2>8. \/ Writing \/ NextHandle \/ SkipFinished \/ (AfterInstance /\ pc' = "loop")
          \/ LocateHandles \/ SkipCase \/ HandlesDone \/ LocateFails \/ RunInstance
          \/ OpenKeyFile \/ CheckRecord \/ EntryPoint
          \/ WriteResetRecord \/ Hang \/ Return \/ PostRemoveRecovery
      BY <1>3, <2>7 DEF Next, Framework, Test, Faults, MarkRunning, CleanRecord, SctExecute,
         AfterInstance, Finish, Tally, TallyFails, TallyOf, WatchdogReset, Boot, Crash,
         CrashInFlush, ExecuteError, LocateHandles, LocateFails,
         ResetSystem, StartNext, Walking, InInstance, Writing
    <2> QED BY <2>1, <2>2, <2>3, <2>4, <2>5, <2>6, <2>8
  <1> QED BY <1>1, <1>2, <1>3, WalkFrame

-----------------------------------------------------------------------------
(* The logs of the running case.                                           *)

(* Where the loops are determines the order of the logs.                   *)
LEMMA PlacePrefix ==
  IndInv /\ CurInv /\ PlaceInv /\ Walking => Prefixed(cur)
  <1> SUFFICES ASSUME IndInv, CurInv, PlaceInv, Walking,
                      NEW p \in Inst(cur), NEW q \in Inst(cur),
                      Precedes(p, q), keys[cur][q].state # "NONE"
               PROVE  keys[cur][p].state = "FINISHED"
    BY DEF Prefixed
  <1>1. cur \in Cases /\ Instance \in Nat \X Nat
    BY OneResumed, WalkTypes DEF Walking, InInstance
  <1>2. p \in Nat \X Nat /\ q \in Nat \X Nat
    BY <1>1, InstPairs
  <1>3. ~Precedes(Instance, q)
    BY DEF PlaceInv
  <1>4. q = Instance \/ Precedes(q, Instance)
    BY <1>1, <1>2, <1>3, TotalOrder
  <1>5. Precedes(p, Instance)
    <2>1. CASE q = Instance
      BY <2>1
    <2>2. CASE Precedes(q, Instance)
      BY <1>1, <1>2, <2>2, TotalOrder
    <2> QED BY <1>4, <2>1, <2>2
  <1> QED BY <1>5 DEF PlaceInv

(* Elsewhere in the case no log is open.                                   *)
LEMMA OnlyHere ==
  ASSUME IndInv, RecInv, Walking, NEW p \in Inst(cur), p # Instance
  PROVE  keys[cur][p].state \in {"NONE", "FINISHED"}
  <1>1. cur \in Cases /\ Instance \in Nat \X Nat
    BY OneResumed, WalkTypes DEF Walking, InInstance, RecInv
  <1>2. p \in Nat \X Nat
    BY <1>1, InstPairs
  <1>3. Precedes(p, Instance) \/ Precedes(Instance, p)
    BY <1>1, <1>2, TotalOrder
  <1> QED BY <1>3 DEF RecInv, PlaceInv

(* The writing steps, by what was in the log.                              *)
LEMMA WriteFrom ==
  ASSUME IndInv, RecInv, Writing
  PROVE  /\ OpenKeyFile \/ WriteHead => keys[cur][Instance].state \in {"NONE", "EMPTY"}
         /\ CheckRecord \/ TestAssertion \/ WriteTerm => keys[cur][Instance].state = "RUNNING"
  <1>1. InInstance
    BY WriteCases
  <1>2. keys[cur][Instance].state \in HereStates /\ PlaceInv /\ Walking
    BY <1>1, HereLog DEF RecInv
  <1>3. info.State \in {"UNKNOWN", "EMPTY", "RUNNING", "FINISHED"}
    BY DEF IndInv, TypeOK, ControlType, ExecuteInfo
  <1>4. OpenKeyFile => info.State \in {"UNKNOWN", "EMPTY"}
    BY <1>2, <1>3 DEF Writing, OpenKeyFile, PlaceInv, WriteHead, CheckRecord, TestAssertion,
                      WriteTerm
  <1> QED BY <1>2, <1>4 DEF HereStates, OpenKeyFile, WriteHead, CheckRecord, TestAssertion,
                            WriteTerm

(* A write keeps the logs of the case in order.                            *)
LEMMA WriteLogged ==
  ASSUME IndInv, RecInv, Writing, Logged(cur)
  PROVE  Ended(cur)' /\ Entered(cur)' /\ Stopped(cur)'
  <1>1. /\ UNCHANGED <<cur, rec, cut, started>>
        /\ cur \in Cases /\ Instance \in Inst(cur)
        /\ \A p \in Inst(cur) : p # Instance => keys'[cur][p] = keys[cur][p]
    BY WriteCases
  <1>2. FileInv /\ EntryInv
    BY DEF RecInv
  <1>3. /\ termed'[cur] = termed[cur] \/ termed'[cur] = termed[cur] \cup {Instance}
        /\ keys'[cur][Instance].state = "FINISHED" => Instance \in termed'[cur]
    <2>1. termed' = termed \/ (WriteTerm /\ termed' = [termed EXCEPT ![cur] = @ \cup {Instance}])
      BY WriteCases
    <2>2. termed \in [Cases -> SUBSET (Nat \X Nat)]
      BY DEF IndInv, TypeOK, HistoryType
    <2>3. keys'[cur][Instance].state = "FINISHED" => WriteTerm
      BY WriteCases, WriteFrom DEF KeyFile
    <2>4. ~WriteTerm \/ termed' # termed \/ Instance \in termed[cur]
      BY <1>1, <2>2, WriteCases DEF WriteTerm
    <2> QED BY <1>1, <2>1, <2>2, <2>3, <2>4
  <1>4. keys[cur][Instance].state \in {"RUNNING", "FINISHED"} =>
           keys'[cur][Instance].state \in {"RUNNING", "FINISHED"}
    BY WriteCases, WriteFrom DEF KeyFile
  <1>5. ASSUME Instance \in cut[cur]
        PROVE  keys'[cur][Instance].hang
               \/ (keys'[cur][Instance].state = "RUNNING" /\ rec # "DATA")
    <2>1. keys[cur][Instance].hang \/ (keys[cur][Instance].state = "RUNNING" /\ rec # "DATA")
      BY <1>5 DEF Logged, Stopped
    <2>2. keys[cur][Instance].state \notin {"NONE", "EMPTY"}
      BY <1>1, <1>2, <2>1 DEF FileInv
    <2>3. CASE CheckRecord \/ TestAssertion
      BY <2>1, <2>3, WriteCases, WriteFrom DEF CheckRecord, TestAssertion, OpenKeyFile, WriteHead,
         WriteTerm
    <2>4. CASE WriteTerm
      <3>1. keys[cur][Instance].hang
        BY <1>2, <1>5, <2>4 DEF EntryInv, WriteTerm
      <3> QED BY <3>1, <2>4, WriteCases DEF CheckRecord, TestAssertion, OpenKeyFile, WriteHead,
         WriteTerm
    <2> QED BY <2>2, <2>3, <2>4, WriteFrom DEF Writing
  <1>6. Ended(cur)'
    BY <1>1, <1>3 DEF Logged, Ended
  <1>7. Entered(cur)'
    BY <1>1, <1>4 DEF Logged, Entered
  <1>8. Stopped(cur)'
    BY <1>1, <1>5 DEF Logged, Stopped
  <1> QED BY <1>6, <1>7, <1>8

(* A write is in the log and in the history.                               *)
LEMMA WriteCounted ==
  ASSUME IndInv, RecInv, Writing, Counted(cur)
  PROVE  Counted(cur)'
  <1>1. /\ cur' = cur
        /\ cur \in Cases /\ Instance \in Inst(cur)
        /\ \A p \in Inst(cur) : p # Instance => keys'[cur][p] = keys[cur][p]
    BY WriteCases
  <1>2. CASE OpenKeyFile \/ WriteHead \/ WriteTerm
    <2>1. written' = written
      BY <1>2, WriteCases DEF OpenKeyFile, WriteHead, CheckRecord, TestAssertion, WriteTerm
    <2>2. keys'[cur][Instance].asserts = keys[cur][Instance].asserts
      <3>1. CASE WriteTerm
        BY <3>1, WriteCases DEF OpenKeyFile, WriteHead, CheckRecord, TestAssertion, WriteTerm
      <3>2. CASE OpenKeyFile \/ WriteHead
        <4>0. \/ keys'[cur][Instance] = KeyFile("EMPTY", {}, FALSE)
              \/ keys'[cur][Instance] = KeyFile("RUNNING", {}, FALSE)
          BY <3>2, WriteCases DEF OpenKeyFile, WriteHead, CheckRecord, TestAssertion, WriteTerm
        <4>1. keys'[cur][Instance].asserts = {}
          BY <4>0 DEF KeyFile
        <4>2. keys[cur][Instance].asserts = {}
          BY <1>1, <3>2, WriteFrom DEF RecInv, FileInv
        <4> QED BY <4>1, <4>2
      <3> QED BY <1>2, <3>1, <3>2
    <2>3. \A p \in Inst(cur) : keys'[cur][p].asserts = keys[cur][p].asserts
      BY <1>1, <2>2
    <2> QED BY <1>1, <2>1, <2>3 DEF Counted
  <1>3. CASE CheckRecord \/ TestAssertion
    <2>1. PICK l : /\ keys'[cur][Instance].asserts = keys[cur][Instance].asserts \cup {l}
                   /\ written' = [written EXCEPT ![cur] = @ \cup {<<Instance, l>>}]
      BY <1>3, WriteCases DEF OpenKeyFile, WriteHead, CheckRecord, TestAssertion, WriteTerm
    <2>2. written'[cur] = written[cur] \cup {<<Instance, l>>}
      BY <1>1, <2>1 DEF IndInv, TypeOK, HistoryType
    <2>3. /\ \A y \in written[cur] : y[1] \in Inst(cur) /\ y[2] \in keys[cur][y[1]].asserts
          /\ \A p \in Inst(cur) : \A m \in keys[cur][p].asserts : <<p, m>> \in written[cur]
      BY DEF Counted
    <2>4. \A p \in Inst(cur) : keys[cur][p].asserts \subseteq keys'[cur][p].asserts
      BY <1>1, <2>1
    <2>5. \A y \in written'[cur] : y[1] \in Inst(cur) /\ y[2] \in keys'[cur][y[1]].asserts
      BY <1>1, <2>1, <2>2, <2>3, <2>4
    <2>6. \A p \in Inst(cur) : \A m \in keys'[cur][p].asserts : <<p, m>> \in written'[cur]
      BY <1>1, <2>1, <2>2, <2>3
    <2> QED BY <1>1, <2>5, <2>6 DEF Counted
  <1> QED BY <1>2, <1>3 DEF Writing

(* The running case stays the same outside the saves.                      *)
LEMMA ResumedStep ==
  ASSUME Recoverable, IndInv, RecInv, Next, ~Clearing', ~RemoveMetaFiles,
         NEW c \in Cases, Resumed(c)'
  PROVE  ~Clearing /\ Resumed(c) /\ ini' = ini
  <1>1. ~CrashInFlush
    BY DEF CrashInFlush, Recoverable
  <1>2. ~MarkRunning
    BY DEF MarkRunning, Clearing
  <1>3. ~Finish
    <2> SUFFICES ASSUME Finish PROVE FALSE
      OBVIOUS
    <2>1. mem[c].st = "RUNNING" /\ Selected(c) /\ pc = "final"
      BY DEF Finish, SaveTestCases, Resumed, Selected
    <2> QED BY <2>1 DEF IndInv, MemoryInOrder
  <1>4. ini' = ini
    BY <1>1, <1>2, <1>3, IniFrame
  <1>5. ~Clearing
    <2>1. CASE pc = "clean"
      BY <2>1 DEF Next, Framework, Test, Faults, MarkRunning, CleanRecord, SctExecute,
         SctContinueExecute, SkipCase, HandlesDone, FilterHandle, NextHandle, SkipFinished,
         RunInstance, AcceptedHandle, AtHandle, OpenKeyFile, WriteHead, CheckRecord, WriteTerm,
         PostRemoveRecovery, AfterInstance, Finish, EntryPoint, TestAssertion, Tally, TallyFails,
         TallyOf,
         WriteResetRecord, ResetSystem, Hang, Return, WatchdogReset, Boot, Crash,
         CrashInFlush, ExecuteError, LocateHandles, LocateFails, Recoverable, Clearing
    <2>2. CASE pc = "purge"
      BY <2>2 DEF Next, Framework, Test, Faults, MarkRunning, CleanRecord, SctExecute,
         SctContinueExecute, SkipCase, HandlesDone, FilterHandle, NextHandle, SkipFinished,
         RunInstance, AcceptedHandle, AtHandle, OpenKeyFile, WriteHead, CheckRecord, WriteTerm,
         PostRemoveRecovery, AfterInstance, Finish, EntryPoint, TestAssertion, Tally, TallyFails,
         TallyOf,
         WriteResetRecord, ResetSystem, Hang, Return, WatchdogReset, Boot, Crash,
         CrashInFlush, ExecuteError, LocateHandles, LocateFails, Recoverable, Clearing
    <2> QED BY <2>1, <2>2 DEF Clearing
  <1> QED BY <1>4, <1>5 DEF Resumed, Selected

(* The steps that write no log leave the counts alone.                     *)
LEMMA CountFrame ==
  ASSUME Recoverable, Next, ~Writing, ~MarkRunning
  PROVE  UNCHANGED <<written, termed>>
  BY HistoryFrame DEF histVars, Writing, CheckRecord, EntryPoint, ResetSystem, WatchdogReset,
     Crash, CrashInFlush, Recoverable, SctContinueExecute, LocateFails, TallyFails

(* What the other steps do to the stopped tests and to the record.         *)
LEMMA StopFrame ==
  ASSUME Recoverable, Next, ~Writing, ~MarkRunning
  PROVE  /\ started' = started \/ EntryPoint
         /\ cut' = cut \/ (CutInstance /\ rec' = rec /\ pc' = "off" /\ ~ResetSystem)
         /\ rec' # "DATA" \/ rec' = rec \/ ResetSystem
  <1>1. started' = started \/ EntryPoint
    BY HistoryFrame DEF histVars, Writing, CheckRecord, TestAssertion, ResetSystem, WatchdogReset,
       WriteTerm, Crash, CrashInFlush, Recoverable, SctContinueExecute, LocateFails, TallyFails
  <1>2. cut' = cut \/ WatchdogReset \/ Crash
    BY HistoryFrame DEF histVars, Writing, CheckRecord, TestAssertion, ResetSystem, EntryPoint,
       WriteTerm, CrashInFlush, Recoverable, SctContinueExecute, LocateFails, TallyFails
  <1>3. WatchdogReset \/ Crash => CutInstance /\ rec' = rec /\ pc' = "off" /\ (~ResetSystem \/ cut' = cut)
    BY DEF WatchdogReset, Crash, diskVars, ResetSystem
  <1>4. rec' # "DATA" \/ rec' = rec \/ ResetSystem
    BY QuietFrame DEF Quiet, MarkRunning, CrashInFlush, CleanRecord, RemoveRecoveryFile,
                      RemoveMetaFiles,
       OpenKeyFile, WriteHead, CheckRecord, EntryPoint, TestAssertion, WriteResetRecord,
       WriteTerm, PostRemoveRecovery, Crash, WatchdogReset, diskVars
  <1> QED BY <1>1, <1>2, <1>3, <1>4

(* A step that writes no log keeps what the logs tell.                     *)
LEMMA QuietLogged ==
  ASSUME Recoverable, IndInv, RecInv, Next, ~Writing, ~RemoveMetaFiles, ~MarkRunning, ~Clearing,
         NEW c \in Cases, Resumed(c), Logged(c)
  PROVE  Ended(c)' /\ Entered(c)' /\ Stopped(c)' /\ Counted(c)'
  <1>1. UNCHANGED <<keys, written, termed>>
    BY WriteFrame, CountFrame
  <1>2. Ended(c)' /\ Counted(c)'
    BY <1>1 DEF Logged, Ended, Counted
  <1>3. Entered(c)'
    <2>1. CASE started' = started
      BY <1>1, <2>1 DEF Logged, Entered
    <2>2. CASE EntryPoint
      <3>1. InInstance /\ Walking /\ pc = "entry"
        BY <2>2 DEF EntryPoint, InInstance, Walking
      <3>2. c = cur
        BY <3>1, OneResumed DEF RecInv
      <3>3. Instance \in Inst(cur) /\ keys[cur][Instance].state = "RUNNING"
        BY <3>1, HereLog DEF HereStates
      <3>4. started'[cur] \subseteq started[cur] \cup {Instance}
        BY <2>2, <3>2 DEF EntryPoint, IndInv, TypeOK, HistoryType
      <3> QED BY <1>1, <3>2, <3>3, <3>4 DEF Logged, Entered
    <2> QED BY <2>1, <2>2, StopFrame
  <1>4. Stopped(c)'
    <2>1. CASE cut' = cut /\ (rec' # "DATA" \/ rec' = rec)
      BY <1>1, <2>1 DEF Logged, Stopped
    <2>2. CASE CutInstance /\ rec' = rec
      <3>1. CASE cut' = cut
        BY <2>1, <2>2, <3>1
      <3>2. CASE pc \in {"body", "wrec", "hung"} /\ rec # "DATA"
        <4>1. InInstance /\ Walking
          BY <3>2 DEF InInstance, Walking
        <4>2. c = cur
          BY <4>1, OneResumed DEF RecInv
        <4>3. Instance \in Inst(cur) /\ keys[cur][Instance].state = "RUNNING"
          BY <3>2, <4>1, HereLog DEF HereStates
        <4>4. cut'[cur] = cut[cur] \cup {Instance}
          BY <2>2, <3>2, <4>2 DEF CutInstance, IndInv, TypeOK, HistoryType
        <4> QED BY <1>1, <2>2, <3>2, <4>2, <4>3, <4>4 DEF Logged, Stopped
      <3> QED BY <2>2, <3>1, <3>2 DEF CutInstance
    <2>3. CASE ResetSystem
      <3>1. InInstance /\ Walking /\ pc = "wrec" /\ cut' = cut
        BY <2>3 DEF ResetSystem, InInstance, Walking
      <3>2. c = cur
        BY <3>1, OneResumed DEF RecInv
      <3>3. \A p \in cut[cur] : p \in Inst(cur) /\ keys[cur][p].hang
        <4> SUFFICES ASSUME NEW p \in cut[cur] PROVE p \in Inst(cur) /\ keys[cur][p].hang
          OBVIOUS
        <4>1. p \in Inst(cur) /\ (keys[cur][p].hang \/ keys[cur][p].state = "RUNNING")
          BY <3>2 DEF Logged, Stopped
        <4>2. CASE p = Instance
          BY <3>1, <4>1, <4>2 DEF RecInv, EntryInv
        <4>3. CASE p # Instance
          BY <3>1, <4>1, <4>3, OnlyHere
        <4> QED BY <4>2, <4>3
      <3> QED BY <1>1, <3>1, <3>2, <3>3 DEF Stopped
    <2> QED BY <2>1, <2>2, <2>3, StopFrame
  <1> QED BY <1>2, <1>3, <1>4

(* Every step keeps LogInv.                                                *)
LEMMA LogStep ==
  ASSUME Recoverable, IndInv, RecInv, Next
  PROVE  LogInv'
  <1> SUFFICES ASSUME ~Clearing', NEW c \in Cases, Resumed(c)' PROVE Logged(c)'
    BY DEF LogInv
  <1>0. IndInv' /\ CurInv' /\ PlaceInv'
    BY NextInv, CurStep, PlaceStep
  <1>1. CASE RemoveMetaFiles
    <2>1. /\ pc = "purge" /\ UNCHANGED <<keys, cur, ini, written, started, termed, cut>>
          /\ \A p \in Inst(cur) : keys[cur][p] = NoFile
      BY <1>1 DEF RemoveMetaFiles, Clearing, memVars, histVars
    <2>2. Clearing
      BY <2>1 DEF Clearing
    <2>3. Resumed(c)
      BY <2>1 DEF Resumed, Selected
    <2>4. c = cur
      BY <2>2, <2>3, OneResumed DEF RecInv
    <2>5. written[cur] = {} /\ started[cur] = {} /\ cut[cur] = {}
      BY <2>2 DEF RecInv, CurInv
    <2>6. \A p \in Inst(c) : keys'[c][p].state = "NONE" /\ keys'[c][p].asserts = {}
      BY <2>1, <2>4, KeyFilesType
    <2>7. Counted(c)'
      BY <2>1, <2>4, <2>5, <2>6 DEF Counted
    <2> QED BY <2>1, <2>4, <2>5, <2>6, <2>7 DEF Logged, Prefixed, Ended, Entered, Stopped
  <1>2. CASE ~RemoveMetaFiles
    <2>1. ~Clearing /\ Resumed(c) /\ ini' = ini /\ ~MarkRunning
      BY <1>2, ResumedStep DEF MarkRunning, Clearing
    <2>2. Logged(c)
      BY <2>1 DEF RecInv, LogInv
    <2>3. Prefixed(c)'
      <3>1. CASE Walking'
        <4>1. (IndInv /\ CurInv /\ PlaceInv /\ Walking => Prefixed(cur))'
          BY PlacePrefix, PTL
        <4>2. Prefixed(cur)'
          BY <1>0, <3>1, <4>1
        <4>3. cur' \in Cases /\ Selected(cur') /\ ini'[cur'].st = "RUNNING"
          <5>1. pc' \notin {"shell", "off"}
            BY <3>1 DEF Walking, InInstance
          <5> QED BY <1>0, <3>1, <5>1 DEF CurInv, IndInv, TypeOK, ControlType, MemoryInOrder,
                                          Selected
        <4>4. cur' = c
          BY <1>0, <4>3 DEF IndInv, ResumeInOrder, Resumed, Selected
        <4> QED BY <4>2, <4>4 DEF Prefixed
      <3>2. CASE ~Walking'
        <4>1. ~Writing
          BY <3>2, WriteCases DEF Walking
        <4>2. keys' = keys
          BY <1>2, <4>1, WriteFrame
        <4> QED BY <2>2, <4>2 DEF Logged, Prefixed
      <3> QED BY <3>1, <3>2
    <2>4. CASE Writing
      <3>1. Walking
        BY <2>4, WriteCases DEF Walking
      <3>2. c = cur /\ cur' = cur
        BY <2>1, <2>4, <3>1, OneResumed, WriteCases DEF RecInv
      <3>3. Counted(cur)
        BY <2>2, <3>2 DEF Logged
      <3>4. Ended(cur)' /\ Entered(cur)' /\ Stopped(cur)' /\ Counted(cur)'
        BY <2>2, <2>4, <3>2, <3>3, WriteLogged, WriteCounted
      <3>5. Ended(c)' /\ Entered(c)' /\ Stopped(c)' /\ Counted(c)'
        BY <3>2, <3>4 DEF Ended, Entered, Stopped, Counted
      <3> QED BY <2>3, <3>5 DEF Logged
    <2>5. CASE ~Writing
      BY <1>2, <2>1, <2>2, <2>3, <2>5, QuietLogged DEF Logged
    <2> QED BY <2>4, <2>5
  <1> QED BY <1>1, <1>2

-----------------------------------------------------------------------------
(* The reset record.                                                       *)

(* At the end of a case all its logs have ended, unless it has no handles  *)
(* to go through.                                                          *)
LEMMA AllEnded ==
  ASSUME IndInv, RecInv, pc = "tally", "handles" \notin spoiled[cur]
  PROVE  \A p \in Inst(cur) : keys[cur][p].state = "FINISHED"
  <1> SUFFICES ASSUME NEW p \in Inst(cur) PROVE keys[cur][p].state = "FINISHED"
    OBVIOUS
  <1>1. Walking /\ PlaceInv
    BY DEF Walking, RecInv
  <1>2. /\ cur \in Cases /\ NoHandles[cur] \in Nat /\ info.Handle \in Nat
        /\ Instance[1] = info.Handle /\ info.Handle >= NoHandles[cur]
    BY <1>1, WalkTypes DEF PlaceInv
  <1>3. p[1] \in Nat /\ p[1] < NoHandles[cur]
    BY <1>2, InstType
  <1>4. p[1] < Instance[1]
    BY <1>2, <1>3
  <1> QED BY <1>1, <1>4 DEF PlaceInv, Precedes

(* Only the test that resets the machine becomes the owner.                *)
LEMMA OwnerFrame ==
  ASSUME Next
  PROVE  owner' = owner \/ ResetSystem
  BY HistoryFrame DEF histVars, MarkRunning, CheckRecord, EntryPoint, TestAssertion,
     WatchdogReset, WriteTerm, Crash, CrashInFlush, SctContinueExecute, LocateFails, TallyFails

(* Only a test writes a reset record.                                      *)
LEMMA RecFrame ==
  ASSUME Next
  PROVE  rec' # "DATA" \/ rec' = rec \/ ResetSystem
  BY QuietFrame DEF Quiet, MarkRunning, CrashInFlush, CleanRecord, RemoveRecoveryFile,
                    RemoveMetaFiles,
     OpenKeyFile, WriteHead, CheckRecord, EntryPoint, TestAssertion, WriteResetRecord,
     WriteTerm, PostRemoveRecovery, Crash, WatchdogReset, diskVars

(* Every step keeps OwnerInv.                                              *)
LEMMA OwnerStep ==
  ASSUME Recoverable, IndInv, RecInv, Next
  PROVE  OwnerInv'
  <1> SUFFICES ASSUME rec' = "DATA", pc' \notin {"clean", "rmrec"}, NEW c \in Cases, Resumed(c)'
               PROVE  \E p \in Inst(c) : keys'[c][p].state = "RUNNING" /\ owner' = <<c, p[1], p[2]>>
    BY DEF OwnerInv
  <1>0. OwnerInv
    BY DEF RecInv
  <1>1. CASE ResetSystem
    <2>1. /\ InInstance /\ Walking /\ pc = "wrec" /\ UNCHANGED <<keys, ini>>
          /\ owner' = <<cur, info.Handle, info.Iteration>>
      BY <1>1 DEF ResetSystem, InInstance, Walking
    <2>2. c = cur
      BY <2>1, OneResumed DEF RecInv, Resumed, Selected
    <2>3. Instance \in Inst(cur) /\ keys[cur][Instance].state = "RUNNING"
      BY <2>1, HereLog DEF HereStates
    <2>4. owner' = <<cur, Instance[1], Instance[2]>>
      BY <2>1 DEF Instance
    <2> QED BY <2>1, <2>2, <2>3, <2>4
  <1>2. CASE ~ResetSystem
    <2>1. rec = "DATA" /\ rec' = rec /\ owner' = owner
      BY <1>2, RecFrame, OwnerFrame
    <2>2. ~CleanRecord /\ ~PostRemoveRecovery /\ ~RemoveMetaFiles /\ ~WriteTerm
      <3>1. ~RemoveMetaFiles
        BY <2>1 DEF RemoveMetaFiles, RecInv, CurInv
      <3> QED BY <2>1, <3>1 DEF CleanRecord, PostRemoveRecovery, RemoveRecoveryFile, WriteTerm
    <2>3. ~Clearing'
      <3>1. pc' = "purge" => rec' = "NONE"
        BY CurStep DEF CurInv
      <3> QED BY <3>1 DEF Clearing
    <2>4. ~Clearing /\ Resumed(c)
      BY <2>2, <2>3, ResumedStep
    <2>5. pc # "rmrec"
      BY <1>2, <2>2, <2>3 DEF Next, Framework, Test, Faults, SctExecute, MarkRunning, Finish,
         SctContinueExecute, SkipCase, HandlesDone, FilterHandle, CrashInFlush,
         NextHandle, SkipFinished, RunInstance, AcceptedHandle, AtHandle, OpenKeyFile,
         WriteHead, CheckRecord, AfterInstance, Tally, TallyFails,
         EntryPoint, TestAssertion, WriteResetRecord, ResetSystem, Hang, Return,
         WatchdogReset, Boot, Crash, ExecuteError, LocateHandles, LocateFails, Recoverable
    <2>6. PICK p \in Inst(c) : keys[c][p].state = "RUNNING" /\ owner = <<c, p[1], p[2]>>
      BY <1>0, <2>1, <2>4, <2>5 DEF OwnerInv, Clearing
    <2>7. keys'[c][p].state = "RUNNING"
      <3>1. CASE Writing
        <4>1. Walking
          BY <3>1, WriteCases DEF Walking
        <4>2. c = cur
          BY <2>4, <4>1, OneResumed DEF RecInv
        <4>3. p = Instance
          BY <2>6, <4>1, <4>2, OnlyHere
        <4>4. CheckRecord \/ TestAssertion
          BY <2>2, <2>6, <3>1, <4>2, <4>3, WriteFrom DEF Writing
        <4>5. keys'[cur][Instance].state = keys[cur][Instance].state
          BY <3>1, <4>4, WriteCases DEF CheckRecord, TestAssertion, OpenKeyFile, WriteHead,
                                        WriteTerm
        <4> QED BY <2>6, <4>2, <4>3, <4>5
      <3>2. CASE ~Writing
        BY <2>2, <2>6, <3>2, WriteFrame
      <3> QED BY <3>1, <3>2
    <2> QED BY <2>1, <2>6, <2>7
  <1> QED BY <1>1, <1>2

-----------------------------------------------------------------------------
(* How a test is entered.                                                  *)

(* Which steps lead to and through the test.                               *)
LEMMA EntryFrame ==
  ASSUME Next
  PROVE  /\ pc' = "head" => OpenKeyFile
         /\ pc' = "check" => OpenKeyFile \/ WriteHead
         /\ pc' = "entry" => CheckRecord
         /\ pc' \in {"body", "wrec", "hung", "term"} =>
              \/ EntryPoint \/ TestAssertion \/ WriteResetRecord \/ Hang \/ Return
              \/ (CheckRecord /\ pc' = "term")
  BY DEF Next, Framework, Test, Faults, MarkRunning, CleanRecord, SctExecute,
     SctContinueExecute, ContinueExecuteStart, SkipCase, HandlesDone, FilterHandle,
     NextHandle, SkipFinished, RunInstance, AcceptedHandle, AtHandle, OpenKeyFile,
     WriteHead, CheckRecord, WriteTerm, PostRemoveRecovery, AfterInstance, Finish,
     EntryPoint, TestAssertion, WriteResetRecord, ResetSystem, Hang, Return,
     WatchdogReset, Boot, Crash, CrashInFlush, ExecuteError, LocateHandles, LocateFails,
     StartNext, RemoveMetaFiles, Tally,
     TallyFails, TallyOf

(* Every step keeps EntryInv.                                              *)
LEMMA EntryStep ==
  ASSUME IndInv, RecInv, Next
  PROVE  EntryInv'
  <1>0. EntryInv
    BY DEF RecInv
  <1>1. ASSUME pc' \in {"head", "check", "entry"}, info'.State = "UNKNOWN"
        PROVE  Instance' \notin started'[cur'] /\ Instance' \notin cut'[cur']
    <2>1. OpenKeyFile \/ WriteHead \/ CheckRecord
      BY <1>1, EntryFrame
    <2>2. UNCHANGED <<info, cur, started, cut>> /\ InInstance
      BY <2>1 DEF OpenKeyFile, WriteHead, CheckRecord, memVars, histVars, InInstance
    <2>3. Instance' = Instance
      BY <2>2 DEF Instance
    <2>4. CASE WriteHead \/ CheckRecord
      BY <1>0, <1>1, <2>2, <2>3, <2>4 DEF EntryInv, WriteHead, CheckRecord
    <2>5. CASE OpenKeyFile
      <3>1. Writing /\ Walking /\ ~Clearing
        BY <1>1, <2>2, <2>5 DEF Writing, Walking, InInstance, Clearing, OpenKeyFile
      <3>2. keys[cur][Instance].state \in {"NONE", "EMPTY"}
        BY <2>5, <3>1, WriteFrom
      <3>3. cur \in Cases /\ Logged(cur)
        BY <3>1, OneResumed DEF RecInv, LogInv
      <3>4. Instance \notin started[cur]
        BY <3>2, <3>3 DEF Logged, Entered
      <3>5. Instance \notin cut[cur]
        BY <3>2, <3>3 DEF Logged, Stopped, RecInv, FileInv
      <3> QED BY <2>2, <2>3, <3>4, <3>5
    <2> QED BY <2>1, <2>4, <2>5
  <1>2. ASSUME pc' = "entry" PROVE info'.State = "UNKNOWN" \/ rec' = "DATA"
    BY <1>2, EntryFrame DEF CheckRecord
  <1>3. ASSUME pc' \in {"entry", "body", "wrec", "hung", "term"}, Instance' \in cut'[cur']
        PROVE  keys'[cur'][Instance'].hang
    <2>1. CASE CheckRecord /\ pc' = "entry"
      <3>1. /\ UNCHANGED <<info, cur, cut, rec, keys>> /\ pc = "check"
            /\ InInstance /\ ~Clearing /\ (info.State = "UNKNOWN" \/ rec = "DATA")
        BY <2>1 DEF CheckRecord, InInstance, Clearing
      <3>2. Instance' = Instance /\ Instance \in cut[cur]
        BY <1>3, <3>1 DEF Instance
      <3>3. info.State # "UNKNOWN"
        BY <1>0, <3>1, <3>2 DEF EntryInv
      <3>4. cur \in Cases /\ Logged(cur)
        BY <3>1, OneResumed DEF RecInv, LogInv, Walking
      <3> QED BY <3>1, <3>2, <3>3, <3>4 DEF Logged, Stopped
    <2>2. CASE CheckRecord /\ pc' = "term"
      <3>1. UNCHANGED <<info, cur>> /\ Writing
        BY <2>2 DEF CheckRecord, Writing
      <3>2. keys'[cur][Instance].hang
        BY <2>2, <3>1, WriteCases DEF CheckRecord, OpenKeyFile, WriteHead, WriteTerm
      <3> QED BY <3>1, <3>2 DEF Instance
    <2>3. CASE TestAssertion
      <3>1. /\ UNCHANGED <<info, cur, cut>> /\ Writing /\ pc = "body"
        BY <2>3 DEF TestAssertion, Writing, memVars
      <3>2. Instance' = Instance /\ Instance \in cut[cur]
        BY <1>3, <3>1 DEF Instance
      <3>3. keys[cur][Instance].hang
        BY <1>0, <3>1, <3>2 DEF EntryInv
      <3>4. keys'[cur][Instance].hang
        BY <2>3, <3>1, <3>3, WriteCases DEF TestAssertion, OpenKeyFile, WriteHead, WriteTerm
      <3> QED BY <3>1, <3>2, <3>4
    <2>4. CASE EntryPoint \/ WriteResetRecord \/ Hang \/ Return
      <3>1. /\ UNCHANGED <<info, cur, cut, keys>> /\ pc \in {"entry", "body"}
        BY <2>4 DEF EntryPoint, WriteResetRecord, Hang, Return, memVars, diskVars, histVars
      <3>2. Instance' = Instance /\ Instance \in cut[cur]
        BY <1>3, <3>1 DEF Instance
      <3> QED BY <1>0, <3>1, <3>2 DEF EntryInv
    <2> QED BY <1>3, <2>1, <2>2, <2>3, <2>4, EntryFrame
  <1> QED BY <1>1, <1>2, <1>3 DEF EntryInv

-----------------------------------------------------------------------------
(* The results.                                                            *)

(* What GetInterfaceAssertion finds in one log.                            *)
LEMMA LoadMembers ==
  ASSUME NEW as
  PROVE  /\ \A e \in LoadGuidAssertion(as) :
              /\ e[1] # "generic" /\ \E l \in as : l[1] = e[1]
              /\ e[1] = "hang" \/ e = <<e[1], 0>>
         /\ \A l \in as : /\ l[1] = "hang" => l \in LoadGuidAssertion(as)
                          /\ l[1] # "generic" => \E e \in LoadGuidAssertion(as) : e[1] = l[1]
  <1> DEFINE G == {l[1] : l \in as} \ {"generic", "hang"}
             A == {<<g, 0>> : g \in G}
             B == {l \in as : l[1] = "hang"}
  <1>1. LoadGuidAssertion(as) = A \cup B
    BY Zenon DEF LoadGuidAssertion
  <1>2. \A e \in A : \E g \in G : e = <<g, 0>>
    OBVIOUS
  <1>3. \A g \in G : <<g, 0>> \in A
    OBVIOUS
  <1>4. \A g \in G : g # "generic" /\ \E l \in as : l[1] = g
    OBVIOUS
  <1>5. \A l \in as : l[1] \in G \/ l[1] \in {"generic", "hang"}
    OBVIOUS
  <1> HIDE DEF A, G
  <1>6. ASSUME NEW e \in A \cup B
        PROVE  /\ e[1] # "generic" /\ \E l \in as : l[1] = e[1]
               /\ e[1] = "hang" \/ e = <<e[1], 0>>
    <2>1. CASE e \in A
      <3>1. PICK g \in G : e = <<g, 0>>
        BY <1>2, <2>1
      <3>2. e[1] = g
        BY <3>1
      <3> QED BY <1>4, <3>1, <3>2
    <2>2. CASE e \in B
      BY <2>2
    <2> QED BY <1>6, <2>1, <2>2
  <1>7. ASSUME NEW l \in as
        PROVE  /\ l[1] = "hang" => l \in A \cup B
               /\ l[1] # "generic" => \E e \in A \cup B : e[1] = l[1]
    <2>1. CASE l[1] \in G
      <3>1. <<l[1], 0>> \in A \cup B /\ <<l[1], 0>>[1] = l[1]
        BY <1>3, <2>1
      <3> QED BY <3>1
    <2>2. CASE l[1] = "hang"
      BY <2>2
    <2> QED BY <1>5, <2>1, <2>2
  <1> QED BY <1>1, <1>6, <1>7

(* What is recorded is in a log the tally reads.                           *)
LEMMA TallyReads ==
  ASSUME IndInv, RecInv, pc = "tally", NEW p \in Inst(cur), keys[cur][p].asserts # {}
  PROVE  p \in ProbedKeys(cur)
  <1>1. cur \in Cases /\ Prefixed(cur) /\ FileInv
    BY OneResumed DEF RecInv, LogInv, Logged, Walking, Clearing
  <1>2. keys[cur][p].state # "NONE"
    BY <1>1 DEF FileInv
  <1>3. \A q \in Inst(cur) : q = p \/ Precedes(q, p) => keys[cur][q].state # "NONE"
    BY <1>1, <1>2 DEF Prefixed
  <1>4. /\ p = <<p[1], p[2]>> /\ p[1] \in Nat /\ p[2] \in Nat
        /\ p[1] < NoHandles[cur] /\ p[2] < Iterations[cur]
        /\ NoHandles[cur] \in Nat /\ Iterations[cur] \in Nat
    BY <1>1, InstType
  <1> DEFINE i == p[1]
             j == p[2]
  <1>5. p = <<i, j>> /\ i \in Nat /\ j \in Nat /\ i < NoHandles[cur] /\ j < Iterations[cur]
    BY <1>4
  <1> HIDE DEF i, j
  <1>6. ASSUME NEW k \in 0..i PROVE HasKey(cur, k, 0)
    <2>1. k \in Nat /\ k < NoHandles[cur] /\ 0 < Iterations[cur] /\ 0 \in Nat
          /\ (k < i \/ (k = i /\ 0 = j) \/ (k = i /\ 0 < j))
      BY <1>4, <1>5
    <2>2. <<k, 0>> \in Inst(cur)
      BY <1>1, <2>1, InstPair
    <2>3. <<k, 0>> = p \/ Precedes(<<k, 0>>, p)
      BY <1>5, <2>1, PairOrder
    <2> QED BY <1>3, <2>2, <2>3 DEF HasKey
  <1>7. ASSUME NEW k \in 0..j PROVE HasKey(cur, i, k)
    <2>1. k \in Nat /\ k < Iterations[cur] /\ (k = j \/ k < j)
      BY <1>4, <1>5
    <2>2. <<i, k>> \in Inst(cur)
      BY <1>1, <1>5, <2>1, InstPair
    <2>3. <<i, k>> = p \/ Precedes(<<i, k>>, p)
      BY <1>5, <2>1, PairOrder
    <2> QED BY <1>3, <2>2, <2>3 DEF HasKey
  <1>8. Probed(cur, i, j)
    BY <1>6, <1>7 DEF Probed
  <1> QED BY <1>8 DEF ProbedKeys, i, j

(* The sum of the logs P is right, but for what only other logs hold.      *)
LEMMA SumRight ==
  ASSUME IndInv, RecInv, pc = "tally", NEW P \in SUBSET Inst(cur)
  PROVE  LET S == GetInterfaceAssertion(cur, P) IN
         /\ NothingForeign(written[cur], S) /\ CountedOnce(S)
         /\ P = ProbedKeys(cur) => NothingLost(written[cur], S)
  <1> DEFINE S == GetInterfaceAssertion(cur, P)
             L == [p \in Inst(cur) |-> LoadGuidAssertion(keys[cur][p].asserts)]
  <1>1. Counted(cur)
    BY OneResumed DEF RecInv, LogInv, Logged, Walking, Clearing
  <1>2. /\ \A y \in written[cur] : y[1] \in Inst(cur) /\ y[2] \in keys[cur][y[1]].asserts
        /\ \A p \in Inst(cur) : \A l \in keys[cur][p].asserts : <<p, l>> \in written[cur]
    BY <1>1 DEF Counted
  <1>3. \A x \in S : \E p \in P : \E e \in L[p] : x = <<p, e>>
    BY DEF GetInterfaceAssertion
  <1>4. \A p \in P : \A e \in L[p] : <<p, e>> \in S
    BY DEF GetInterfaceAssertion
  <1>5. ASSUME NEW p \in Inst(cur)
        PROVE  /\ \A e \in L[p] :
                    /\ e[1] # "generic" /\ \E l \in keys[cur][p].asserts : l[1] = e[1]
                    /\ e[1] = "hang" \/ e = <<e[1], 0>>
               /\ \A l \in keys[cur][p].asserts :
                    /\ l[1] = "hang" => l \in L[p]
                    /\ l[1] # "generic" => \E e \in L[p] : e[1] = l[1]
    <2>1. L[p] = LoadGuidAssertion(keys[cur][p].asserts)
      OBVIOUS
    <2> HIDE DEF L
    <2> QED BY <2>1, LoadMembers
  <1> HIDE DEF S, L
  <1>6. NothingForeign(written[cur], S)
    <2> SUFFICES ASSUME NEW x \in S
                 PROVE  x[2][1] # "generic" /\ \E y \in written[cur] : SameCheck(x, y)
      BY DEF NothingForeign
    <2>1. PICK p \in P : \E e \in L[p] : x = <<p, e>>
      BY <1>3
    <2>2. PICK e \in L[p] : x = <<p, e>>
      BY <2>1
    <2>3. PICK l \in keys[cur][p].asserts : l[1] = e[1]
      BY <1>5
    <2>4. <<p, l>> \in written[cur]
      BY <1>2
    <2>5. x[1] = p /\ x[2] = e
      BY <2>2
    <2>6. SameCheck(x, <<p, l>>)
      BY <2>3, <2>5 DEF SameCheck
    <2>7. e[1] # "generic"
      BY <1>5
    <2> QED BY <2>4, <2>5, <2>6, <2>7
  <1>7. CountedOnce(S)
    <2> SUFFICES ASSUME NEW x \in S, NEW y \in S, SameCheck(x, y), x[2][1] # "hang"
                 PROVE  x = y
      BY DEF CountedOnce
    <2>1. PICK p \in P : \E e \in L[p] : x = <<p, e>>
      BY <1>3
    <2>2. PICK e \in L[p] : x = <<p, e>>
      BY <2>1
    <2>3. PICK q \in P : \E f \in L[q] : y = <<q, f>>
      BY <1>3
    <2>4. PICK f \in L[q] : y = <<q, f>>
      BY <2>3
    <2>5. x[1] = p /\ x[2] = e /\ y[1] = q /\ y[2] = f
      BY <2>2, <2>4
    <2>6. p = q /\ e[1] = f[1] /\ e[1] # "hang"
      BY <2>5 DEF SameCheck
    <2>7. e = <<e[1], 0>> /\ f = <<f[1], 0>>
      BY <1>5, <2>6
    <2>8. e = f
      BY <2>6, <2>7
    <2> QED BY <2>2, <2>4, <2>6, <2>8
  <1>8. ASSUME P = ProbedKeys(cur) PROVE NothingLost(written[cur], S)
    <2> SUFFICES ASSUME NEW y \in written[cur]
                 PROVE  /\ y[2][1] # "generic" => \E x \in S : SameCheck(x, y)
                        /\ y[2][1] = "hang" => y \in S
      BY DEF NothingLost
    <2> DEFINE p == y[1]
               l == y[2]
    <2>1. p \in Inst(cur) /\ l \in keys[cur][p].asserts
      BY <1>2
    <2>2. y = <<p, l>>
      <3>1. y \in (Nat \X Nat) \X Lines
        BY OneResumed DEF RecInv, IndInv, TypeOK, HistoryType, Walking
      <3> QED BY <3>1
    <2> HIDE DEF p, l
    <2>3. p \in P
      BY <1>8, <2>1, TallyReads
    <2>4. ASSUME l[1] # "generic" PROVE \E x \in S : SameCheck(x, <<p, l>>)
      <3>1. PICK e \in L[p] : e[1] = l[1]
        BY <1>5, <2>1, <2>4
      <3>2. <<p, e>> \in S
        BY <1>4, <2>3
      <3>3. SameCheck(<<p, e>>, <<p, l>>)
        BY <3>1 DEF SameCheck
      <3> QED BY <3>2, <3>3
    <2>5. ASSUME l[1] = "hang" PROVE <<p, l>> \in S
      <3>1. l \in L[p]
        BY <1>5, <2>1, <2>5
      <3> QED BY <1>4, <2>3, <3>1
    <2> QED BY <2>2, <2>4, <2>5 DEF l
  <1> QED BY <1>6, <1>7, <1>8 DEF S

(* Both tallies give a right result: the errors they swallow are known.    *)
LEMMA TallyRight ==
  ASSUME IndInv, RecInv, Tallying
  PROVE  \E r : /\ mem' = [mem EXCEPT ![cur] = r]
                /\ RightResult(cur, r, written[cur], spoiled'[cur], termed[cur], cut[cur], keys[cur])
  <1>1. pc = "tally" /\ Walking /\ ~Clearing
    BY TallySteps DEF Walking, Clearing
  <1>2. cur \in Cases /\ Logged(cur)
    BY <1>1, OneResumed DEF RecInv, LogInv
  <1>3. \E P \in SUBSET Inst(cur) : TallyOf(P) /\ ("tally" \in spoiled'[cur] \/ P = ProbedKeys(cur))
    <2>1. ProbedKeys(cur) \in SUBSET Inst(cur)
      BY DEF ProbedKeys
    <2>2. CASE Tally
      BY <2>1, <2>2 DEF Tally
    <2>3. CASE TallyFails
      <3>1. "tally" \in spoiled'[cur]
        BY <1>2, <2>3 DEF TallyFails, Spoil, IndInv, TypeOK, HistoryType
      <3>2. \A q : {p \in ProbedKeys(cur) : Precedes(p, q)} \in SUBSET Inst(cur)
        BY <2>1
      <3> QED BY <2>3, <3>1, <3>2 DEF TallyFails
    <2> QED BY <2>2, <2>3 DEF Tallying
  <1>4. PICK P \in SUBSET Inst(cur) : TallyOf(P) /\ ("tally" \in spoiled'[cur] \/ P = ProbedKeys(cur))
    BY <1>3
  <1>5. "handles" \in spoiled[cur] => "handles" \in spoiled'[cur]
    BY <1>2 DEF Tallying, Tally, TallyFails, Spoil, histVars, IndInv, TypeOK, HistoryType
  <1> DEFINE S == GetInterfaceAssertion(cur, P)
  <1>6. mem' = [mem EXCEPT ![cur] = Result("DONE", S)]
    BY <1>4 DEF TallyOf, StartNext
  <1>7. /\ NothingForeign(written[cur], S) /\ CountedOnce(S)
        /\ P = ProbedKeys(cur) => NothingLost(written[cur], S)
    BY <1>1, SumRight
  <1>8. ASSUME "handles" \notin spoiled'[cur]
        PROVE  /\ \A p \in Inst(cur) : p \in termed[cur]
               /\ \A p \in cut[cur] : p \in Inst(cur) /\ keys[cur][p].hang
    <2>1. \A p \in Inst(cur) : keys[cur][p].state = "FINISHED"
      BY <1>1, <1>5, <1>8, AllEnded
    <2>2. \A p \in Inst(cur) : p \in termed[cur]
      BY <1>2, <2>1 DEF Logged, Ended
    <2>3. \A p \in cut[cur] : p \in Inst(cur) /\ keys[cur][p].hang
      BY <1>2, <2>1 DEF Logged, Stopped
    <2> QED BY <2>2, <2>3
  <1>9. Result("DONE", S).asserts = S
    BY DEF Result
  <1> HIDE DEF S
  <1>10. RightResult(cur, Result("DONE", S), written[cur], spoiled'[cur], termed[cur], cut[cur],
                     keys[cur])
    BY <1>4, <1>7, <1>8, <1>9 DEF RightResult
  <1> QED BY <1>6, <1>10

(* Only the case that is run swallows an error, or is resumed and starts   *)
(* without.                                                                *)
LEMMA SpoilFrame ==
  ASSUME IndInv, Next, ~MarkRunning, Recoverable, NEW c \in Cases
  PROVE  \/ spoiled'[c] = spoiled[c]
         \/ pc \in {"locate", "tally"} /\ c = cur
         \/ pc = "shell" /\ ini[c].st = "RUNNING"
  <1>0. spoiled \in [Cases -> SUBSET {"handles", "tally"}]
    BY DEF IndInv, TypeOK, HistoryType
  <1>1. spoiled' = spoiled \/ LocateFails \/ TallyFails \/ SctContinueExecute
    BY HistoryFrame DEF histVars, CheckRecord, EntryPoint, TestAssertion, ResetSystem,
       WatchdogReset, WriteTerm, Crash, CrashInFlush, Recoverable
  <1>2. CASE LocateFails \/ TallyFails
    BY <1>0, <1>2 DEF LocateFails, TallyFails, Spoil
  <1>3. CASE SctContinueExecute
    BY <1>0, <1>3 DEF SctContinueExecute, ContinueExecuteStart, GetRunningTestCase, IsLowest,
                      RunningCases
  <1> QED BY <1>1, <1>2, <1>3

(* A step changes the logs and the history of no case but the current one, *)
(* and of that only in the case.                                           *)
LEMMA CaseFrame ==
  ASSUME Recoverable, IndInv, RecInv, Next, NEW c \in Cases,
         c # cur \/ ~(Walking \/ Clearing \/ MarkRunning),
         ini[c].st # "RUNNING" \/ pc # "shell"
  PROVE  /\ keys'[c] = keys[c] /\ written'[c] = written[c] /\ spoiled'[c] = spoiled[c]
         /\ termed'[c] = termed[c] /\ cut'[c] = cut[c]
  <1>0. HistoryType /\ KeyType
    BY DEF IndInv, TypeOK
  <1>1. CASE MarkRunning
    BY <1>0, <1>1 DEF MarkRunning, StartHistory, HistoryType
  <1>2. CASE RemoveMetaFiles
    BY <1>0, <1>2 DEF RemoveMetaFiles, Clearing, HistoryType, KeyType, histVars
  <1>3. CASE Writing
    <2>1. Walking /\ cut' = cut /\ (c # cur => keys'[c] = keys[c])
      BY <1>3, WriteCases DEF Walking
    <2>2. \/ written' = written
          \/ \E l : written' = [written EXCEPT ![cur] = @ \cup {<<Instance, l>>}]
      BY <1>3, WriteCases
    <2>3. \/ termed' = termed
          \/ termed' = [termed EXCEPT ![cur] = @ \cup {Instance}]
      BY <1>3, WriteCases
    <2>4. spoiled' = spoiled
      BY <1>3 DEF Writing, OpenKeyFile, WriteHead, CheckRecord, TestAssertion, WriteTerm, histVars
    <2> QED BY <1>0, <2>1, <2>2, <2>3, <2>4 DEF HistoryType
  <1>4. CASE ~MarkRunning /\ ~RemoveMetaFiles /\ ~Writing
    <2>1. UNCHANGED <<keys, written, termed>>
      BY <1>4, WriteFrame, CountFrame
    <2>2. cut'[c] = cut[c]
      <3>1. cut' = cut \/ CutInstance
        BY <1>4, StopFrame
      <3>2. pc \in {"body", "wrec", "hung"} => Walking
        BY DEF Walking, InInstance
      <3> QED BY <1>0, <1>4, <3>1, <3>2 DEF CutInstance, HistoryType
    <2>3. spoiled'[c] = spoiled[c]
      BY <1>0, <1>4, SpoilFrame DEF Walking
    <2> QED BY <2>1, <2>2, <2>3
  <1> QED BY <1>1, <1>2, <1>3, <1>4

(* Every step keeps DoneInv: results are copied, or tallied.               *)
LEMMA DoneStep ==
  ASSUME Recoverable, IndInv, RecInv, Next
  PROVE  DoneInv'
  <1>0. DoneInv /\ CurInv
    BY DEF RecInv
  <1>1. ASSUME NEW c \in Cases, NEW r, DoneRight(c, r),
               c # cur \/ ~(Walking \/ Clearing \/ MarkRunning),
               ini[c].st # "RUNNING" \/ pc # "shell"
        PROVE  RightResult(c, r, written'[c], spoiled'[c], termed'[c], cut'[c], keys'[c])
    BY <1>1, CaseFrame DEF DoneRight
  <1>2. ASSUME NEW c \in Cases, ini[c].st = "DONE", ~MarkRunning
        PROVE  RightResult(c, ini[c], written'[c], spoiled'[c], termed'[c], cut'[c], keys'[c])
    <2>1. DoneRight(c, ini[c])
      BY <1>0, <1>2 DEF DoneInv
    <2>2. c # cur \/ ~(Walking \/ Clearing)
      BY <1>0, <1>2 DEF CurInv
    <2> QED BY <1>1, <1>2, <2>1, <2>2
  <1>3. ASSUME NEW c \in Cases, mem[c].st = "DONE", pc \notin {"shell", "off"},
               c # cur \/ ~MarkRunning
        PROVE  RightResult(c, mem[c], written'[c], spoiled'[c], termed'[c], cut'[c], keys'[c])
    <2>1. DoneRight(c, mem[c])
      BY <1>0, <1>3 DEF DoneInv
    <2>2. c # cur \/ ~(Walking \/ Clearing)
      BY <1>0, <1>3 DEF CurInv
    <2> QED BY <1>1, <1>3, <2>1, <2>2
  <1>4. CASE MarkRunning
    <2>1. /\ pc = "mark" /\ cur \in Cases /\ DOMAIN mem = Cases
          /\ mem' = [mem EXCEPT ![cur] = RUNNING] /\ ini' = mem'
      BY <1>4 DEF MarkRunning, SaveTestCases, IndInv, TypeOK, ControlType, ResultType
    <2>2. ASSUME NEW c \in Cases, mem'[c].st = "DONE"
          PROVE  c # cur /\ mem'[c] = mem[c]
      BY <2>1, <2>2 DEF RUNNING, Result
    <2>3. ASSUME NEW c \in Cases, mem'[c].st = "DONE"
          PROVE  RightResult(c, mem'[c], written'[c], spoiled'[c], termed'[c], cut'[c], keys'[c])
      BY <1>3, <2>1, <2>2, <2>3
    <2> QED BY <2>1, <2>3 DEF DoneInv, DoneRight
  <1>5. CASE Finish
    <2>1. pc = "final" /\ mem' = mem /\ ini' = mem /\ pc' = "shell" /\ ~MarkRunning
      BY <1>5 DEF Finish, SaveTestCases, MarkRunning
    <2> QED BY <1>3, <2>1 DEF DoneInv, DoneRight
  <1>6. CASE ~MarkRunning /\ ~Finish
    <2>1. ini' = ini
      BY <1>6, IniFrame DEF CrashInFlush, Recoverable
    <2>2. \A c \in Cases : ini'[c].st = "DONE" => DoneRight(c, ini[c])'
      BY <1>2, <1>6, <2>1 DEF DoneRight
    <2>3. ASSUME pc' \notin {"shell", "off"}, NEW c \in Cases, mem'[c].st = "DONE"
          PROVE  RightResult(c, mem'[c], written'[c], spoiled'[c], termed'[c], cut'[c], keys'[c])
      <3>1. CASE SctExecute
        <4>1. mem' = ResetTestCaseResults(ini)
          BY <3>1 DEF SctExecute, StartNext
        <4>2. mem'[c] = ini[c]
          BY <2>3, <4>1 DEF ResetTestCaseResults, INVALID, Result
        <4> QED BY <1>2, <1>6, <2>3, <4>2
      <3>2. CASE SctContinueExecute
        <4>1. mem' = ini
          BY <3>2 DEF SctContinueExecute, StartNext, ContinueExecuteStart
        <4> QED BY <1>2, <1>6, <2>3, <4>1
      <3>3. CASE Tallying
        <4>1. /\ pc = "tally" /\ cur \in Cases /\ DOMAIN mem = Cases
              /\ UNCHANGED <<keys, written, termed, cut>>
          BY <3>3, TallySteps DEF IndInv, TypeOK, ControlType, ResultType
        <4>2. PICK r : /\ mem' = [mem EXCEPT ![cur] = r]
                       /\ RightResult(cur, r, written[cur], spoiled'[cur], termed[cur], cut[cur],
                                      keys[cur])
          BY <3>3, TallyRight
        <4>3. CASE c = cur
          BY <4>1, <4>2, <4>3
        <4>4. CASE c # cur
          BY <1>3, <2>3, <4>1, <4>2, <4>4
        <4> QED BY <4>3, <4>4
      <3>4. CASE mem' = mem /\ ~SctExecute /\ ~SctContinueExecute /\ ~Tallying
        <4>1. pc \notin {"shell", "off"}
          BY <2>3, <3>4, PlaceFrame
        <4> QED BY <1>3, <1>6, <2>3, <3>4, <4>1
      <3> QED BY <1>6, <3>1, <3>2, <3>3, <3>4, MemFrame
    <2> QED BY <2>1, <2>2, <2>3 DEF DoneInv, DoneRight
  <1> QED BY <1>4, <1>5, <1>6

-----------------------------------------------------------------------------
(* The invariant is inductive.                                             *)

(* The invariant holds at the start.                                       *)
LEMMA RecInit == Init => RecInv
  <1> SUFFICES ASSUME Init PROVE RecInv
    OBVIOUS
  <1>1. pc = "shell" /\ rec = "NONE" /\ ~Walking /\ ~Clearing
    BY DEF Init, Walking, Clearing, InInstance
  <1>2. \A c \in Cases : ini[c].st = "INVALID" /\ \A p \in Inst(c) : keys[c][p] = NoFile
    BY DEF Init, INVALID, Result
  <1>3. FileInv
    BY <1>2, KeyFilesType DEF FileInv
  <1>4. DoneInv
    BY <1>1, <1>2 DEF DoneInv
  <1>5. LogInv
    BY <1>2 DEF LogInv, Resumed
  <1> QED BY <1>1, <1>3, <1>4, <1>5 DEF RecInv, CurInv, OwnerInv, PlaceInv, EntryInv

(* Every step keeps it.                                                    *)
LEMMA RecNext ==
  ASSUME Recoverable, IndInv, RecInv, Next
  PROVE  RecInv'
  BY CurStep, FileStep, LogStep, OwnerStep, PlaceStep, EntryStep, DoneStep DEF RecInv

(* A step that changes nothing keeps it.                                   *)
LEMMA RecStutter ==
  ASSUME RecInv, UNCHANGED vars
  PROVE  RecInv'
  <1> USE DEF vars, memVars, diskVars, boundVars, histVars, Walking, Clearing, InInstance,
              Resumed, Selected, Instance
  <1>1. CurInv'
    BY DEF RecInv, CurInv
  <1>2. FileInv'
    BY DEF RecInv, FileInv
  <1>3. LogInv'
    BY DEF RecInv, LogInv, Logged, Prefixed, Ended, Entered, Stopped, Counted
  <1>4. OwnerInv'
    BY DEF RecInv, OwnerInv
  <1>5. PlaceInv'
    <2>1. HereStates' = HereStates
      BY DEF HereStates
    <2> QED BY <2>1 DEF RecInv, PlaceInv
  <1>6. EntryInv'
    BY DEF RecInv, EntryInv
  <1>7. DoneInv'
    BY DEF RecInv, DoneInv, DoneRight
  <1> QED BY <1>1, <1>2, <1>3, <1>4, <1>5, <1>6, <1>7 DEF RecInv

(* What the files of a run and the place in the program say about each     *)
(* other holds in every state.                                             *)
THEOREM RecoveryInvariant == ASSUME Recoverable PROVE Spec => [](IndInv /\ RecInv)
  <1>1. Init => IndInv /\ RecInv
    BY InitInv, RecInit
  <1>2. IndInv /\ RecInv /\ [Next]_vars => (IndInv /\ RecInv)'
    BY NextInv, StutterInv, RecNext, RecStutter
  <1> QED BY <1>1, <1>2, PTL DEF Spec

(* A saved result has one entry for each check recorded since the case was *)
(* started and for each SYSTEM_HANG, and no other, however often the       *)
(* machine was reset, hung or was stopped on the way; entries are missing  *)
(* only where GetInterfaceAssertion failed and ExecuteTestCase dropped the *)
(* error.                                                                  *)
THEOREM NoAssertionLost == ASSUME Recoverable PROVE Spec => []ResultsExact
  <1>1. IndInv /\ RecInv => ResultsExact
    BY DEF RecInv, DoneInv, DoneRight, RightResult, ResultsExact
  <1> QED BY <1>1, RecoveryInvariant, PTL

(* A case with a result has been through every handle and iteration,       *)
(* unless LocateHandleBuffer failed in the execution that gave the result. *)
THEOREM NoInstanceLost == ASSUME Recoverable PROVE Spec => []AllInstancesTested
  <1>1. IndInv /\ RecInv => AllInstancesTested
    BY DEF RecInv, DoneInv, DoneRight, RightResult, AllInstancesTested
  <1> QED BY <1>1, RecoveryInvariant, PTL

(* A test that was stopped with no reset record has the SYSTEM_HANG        *)
(* failure in its log once the case is done, with the same exception.      *)
THEOREM NoHangLost == ASSUME Recoverable PROVE Spec => []HangReported
  <1>1. IndInv /\ RecInv => HangReported
    BY DEF RecInv, DoneInv, DoneRight, RightResult, HangReported
  <1> QED BY <1>1, RecoveryInvariant, PTL

(* A test only ever reads the reset record it wrote itself, for the same   *)
(* handle and iteration.                                                   *)
THEOREM RecordFound == ASSUME Recoverable PROVE Spec => []RecordOwned
  <1>1. IndInv /\ RecInv => RecordOwned
    <2> SUFFICES ASSUME IndInv, RecInv, pc = "entry", rec = "DATA"
                 PROVE  owner = <<cur, info.Handle, info.Iteration>>
      BY DEF RecordOwned
    <2>1. Walking
      BY DEF Walking, InInstance
    <2>2. cur \in Cases /\ Resumed(cur)
      BY <2>1, OneResumed DEF RecInv
    <2>3. PICK p \in Inst(cur) :
             keys[cur][p].state = "RUNNING" /\ owner = <<cur, p[1], p[2]>>
      BY <2>2 DEF RecInv, OwnerInv
    <2>4. p = Instance
      BY <2>1, <2>3, OnlyHere
    <2> QED BY <2>3, <2>4 DEF Instance
  <1> QED BY <1>1, RecoveryInvariant, PTL

(* No instance is entered afresh twice: one that hung is skipped, one that *)
(* ended is not repeated.                                                  *)
THEOREM EnteredOnce == ASSUME Recoverable PROVE Spec => []FreshOnce
  <1>1. IndInv /\ RecInv => FreshOnce
    BY DEF RecInv, EntryInv, FreshOnce
  <1> QED BY <1>1, RecoveryInvariant, PTL

(* No recovery opens a log over its own assertions: only the purge at the  *)
(* start of the next run of the case removes them.                         *)
THEOREM NoLogOverwritten == ASSUME Recoverable PROVE Spec => LogsOnlyGrow
  <1>1. IndInv /\ RecInv /\ [Next]_vars =>
          [pc # "purge" => \A c \in Cases : \A p \in Inst(c) :
             keys[c][p].asserts \subseteq keys'[c][p].asserts]_vars
    <2> SUFFICES ASSUME IndInv, RecInv, Next, pc # "purge", NEW c \in Cases, NEW p \in Inst(c)
                 PROVE  keys[c][p].asserts \subseteq keys'[c][p].asserts
      OBVIOUS
    <2>1. CASE ~Writing
      <3>1. ~RemoveMetaFiles
        BY DEF RemoveMetaFiles
      <3> QED BY <2>1, <3>1, WriteFrame
    <2>2. CASE Writing /\ c = cur /\ p = Instance
      <3>1. CASE OpenKeyFile \/ WriteHead
        BY <2>2, <3>1, WriteFrom DEF RecInv, FileInv
      <3>2. CASE CheckRecord \/ TestAssertion \/ WriteTerm
        BY <2>2, <3>2, WriteCases DEF CheckRecord, TestAssertion, WriteTerm, OpenKeyFile,
                                      WriteHead
      <3> QED BY <2>2, <3>1, <3>2 DEF Writing
    <2>3. CASE Writing /\ ~(c = cur /\ p = Instance)
      BY <2>3, WriteCases
    <2> QED BY <2>1, <2>2, <2>3
  <1> QED BY <1>1, RecoveryInvariant, PTL DEF Spec, LogsOnlyGrow
=============================================================================
