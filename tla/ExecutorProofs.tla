--------------------------- MODULE ExecutorProofs ---------------------------
(***************************************************************************)
(* For every list of test cases, every number of handles and iterations,   *)
(* and a machine that may stop at any place of the program: the types of   *)
(* the executor's state, and that TestCase.ini always tells Sct -c to go   *)
(* on in the order of the run.                                             *)
(***************************************************************************)
EXTENDS Executor, TLAPS

(* The inductive invariant.  The saved list is a copy of the list in       *)
(* memory, so its order needs the order of that list; and a key file is    *)
(* written at <Index, Iteration>, so its type needs the position.          *)
IndInv == TypeOK /\ PositionOK /\ ResumeInOrder /\ MemoryInOrder

USE ExecutorAssumption

(* The constant results are results of every case.                         *)
LEMMA ConstantResults ==
  \A c \in Cases : /\ INVALID \in Results(c) /\ RUNNING \in Results(c)
                   /\ ABSENT \in Results(c)
  BY DEF INVALID, RUNNING, ABSENT, Result, Results

(* What the key files add up to is a result of the case.                   *)
LEMMA TallyType ==
  ASSUME KeyType, NEW c \in Cases, NEW P \in SUBSET Inst(c)
  PROVE  Result("DONE", GetInterfaceAssertion(c, P)) \in Results(c)
  <1>1. \A p \in Inst(c) : keys[c][p].asserts \subseteq Lines
    BY DEF KeyType, KeyFiles
  <1>2. ASSUME NEW as \in SUBSET Lines PROVE LoadGuidAssertion(as) \subseteq Lines
    <2>1. \A l \in as : l[1] \in Guids
      BY DEF Lines
    <2>2. \A g \in {l[1] : l \in as} : <<g, 0>> \in Lines
      BY <2>1 DEF Lines
    <2> QED BY <2>2 DEF LoadGuidAssertion
  <1>3. \A p \in P : {p} \X LoadGuidAssertion(keys[c][p].asserts) \subseteq Inst(c) \X Lines
    BY <1>1, <1>2
  <1>4. GetInterfaceAssertion(c, P) \subseteq Inst(c) \X Lines
    BY <1>3 DEF GetInterfaceAssertion
  <1> QED BY <1>4 DEF Result, Results

(* The end of a case: the sum of some of its key files, whole or not.      *)
Tallying == Tally \/ TallyFails

(* What the two tallies have in common.                                    *)
LEMMA TallySteps ==
  ASSUME Tallying
  PROVE  /\ pc = "tally" /\ \E P \in SUBSET Inst(cur) : TallyOf(P)
         /\ isSkip' = isSkip
         /\ UNCHANGED <<ini, keys, rec, recorded, written, started, termed, cut, owner>>
  <1>1. ProbedKeys(cur) \in SUBSET Inst(cur)
    BY DEF ProbedKeys
  <1>2. \A q : {p \in ProbedKeys(cur) : Precedes(p, q)} \in SUBSET Inst(cur)
    BY <1>1
  <1>3. CASE Tally
    BY <1>1, <1>3 DEF Tally, diskVars, histVars
  <1>4. CASE TallyFails
    BY <1>2, <1>4 DEF TallyFails, diskVars
  <1> QED BY <1>3, <1>4 DEF Tallying

(* The executor starts in a state of the right types, at no case.          *)
LEMMA InitInv == Init => IndInv
  <1> SUFFICES ASSUME Init PROVE IndInv OBVIOUS
  <1>1. ResultType(mem) /\ ResultType(ini)
    BY ConstantResults DEF Init, ResultType
  <1>2. KeyType
    BY DEF Init, KeyType, KeyFiles, NoFile, KeyFile
  <1>3. ControlType
    BY DEF Init, ControlType, Places, ExecuteInfo, InitializeExecuteInfo
  <1>5. FileType
    BY DEF Init, FileType
  <1>7. BoundType
    BY DEF Init, BoundType
  <1>6. HistoryType
    BY DEF Init, HistoryType
  <1>4. PositionOK /\ ResumeInOrder /\ MemoryInOrder
    BY DEF Init, PositionOK, InInstance, InitializeExecuteInfo, ResumeInOrder,
           MemoryInOrder, INVALID, Result
  <1> QED BY <1>1, <1>2, <1>3, <1>4, <1>5, <1>6, <1>7 DEF IndInv, TypeOK

-----------------------------------------------------------------------------
(* Which actions touch which part of the state.                            *)

(* Only logging and the purge write key files.                             *)
LEMMA KeysFrame ==
  ASSUME Next
  PROVE  \/ keys' = keys \/ RemoveMetaFiles \/ OpenKeyFile \/ WriteHead
         \/ CheckRecord \/ TestAssertion \/ WriteTerm
  BY DEF Next, SctExecute, SctContinueExecute, Framework, Test, WatchdogReset,
         Boot, Faults, MarkRunning, CleanRecord, SkipCase, HandlesDone,
         FilterHandle, NextHandle, SkipFinished, RunInstance, PostRemoveRecovery,
         AfterInstance, Tally, TallyFails, Finish, EntryPoint, WriteResetRecord, ResetSystem,
         Hang, Return, Crash, CrashInFlush, ExecuteError, LocateHandles, LocateFails, diskVars

(* Only a save, or a crash in one, writes TestCase.ini.                    *)
LEMMA IniFrame ==
  ASSUME Next
  PROVE  ini' = ini \/ MarkRunning \/ Finish \/ CrashInFlush
  BY DEF Next, SctExecute, SctContinueExecute, Framework, Test, WatchdogReset,
         Boot, Faults, CleanRecord, RemoveMetaFiles, SkipCase, HandlesDone,
         FilterHandle, NextHandle, SkipFinished, RunInstance, OpenKeyFile,
         WriteHead, CheckRecord, WriteTerm, PostRemoveRecovery, AfterInstance,
         Tally, TallyFails, EntryPoint, TestAssertion, WriteResetRecord, ResetSystem, Hang,
         Return, Crash, ExecuteError, LocateHandles, LocateFails, diskVars

(* The list in memory changes when Sct starts, at the mark and at the      *)
(* tally.                                                                  *)
LEMMA MemFrame ==
  ASSUME Next
  PROVE  mem' = mem \/ SctExecute \/ SctContinueExecute \/ MarkRunning \/ Tallying
  BY DEF Next, Framework, Test, WatchdogReset, Boot, Faults, CleanRecord,
         RemoveMetaFiles, SkipCase, HandlesDone, FilterHandle, NextHandle,
         SkipFinished, RunInstance, OpenKeyFile, WriteHead, CheckRecord,
         WriteTerm, PostRemoveRecovery, AfterInstance, Finish, EntryPoint,
         TestAssertion, WriteResetRecord, ResetSystem, Hang, Return, Crash,
         CrashInFlush, ExecuteError, LocateHandles, LocateFails, memVars, Tallying

-----------------------------------------------------------------------------
(* The types of the files and of the results.                              *)

(* An assertion is added to the key file of the current instance.          *)
LEMMA KeyWriteType ==
  ASSUME KeyType, cur \in Cases, KeyName \in Inst(cur),
         NEW f \in KeyFiles, WriteKey(f)
  PROVE  KeyType'
  BY DEF KeyType, WriteKey, Inst

(* The current key file has a name of the case and a type.                 *)
LEMMA CurrentKey ==
  ASSUME IndInv, InInstance
  PROVE  cur \in Cases /\ KeyName \in Inst(cur) /\ keys[cur][KeyName] \in KeyFiles
  <1>1. cur \in Cases
    BY DEF IndInv, TypeOK, ControlType, InInstance
  <1>2. info.Index \in 0..NoHandles[cur] - 1 /\ info.Iteration \in 0..Iterations[cur] - 1
    BY <1>1 DEF IndInv, TypeOK, ControlType, ExecuteInfo, PositionOK
  <1>3. KeyName \in Inst(cur)
    BY <1>2 DEF KeyName, Inst
  <1> QED BY <1>1, <1>3 DEF IndInv, TypeOK, KeyType

(* The GUIDs the framework and the tests record with.                      *)
LEMMA GuidsType == "hang" \in Guids /\ \A c \in Cases : TestGuids[c] \subseteq Guids
  <1>1. "hang" \in Guids /\ Checks \subseteq Guids
    BY DEF Guids
  <1>2. \A c \in Cases : TestGuids[c] \subseteq Checks
    BY Zenon DEF Checks
  <1> QED BY <1>1, <1>2

(* Key files keep their type.                                              *)
LEMMA KeyTypeStep ==
  ASSUME IndInv, Next
  PROVE  KeyType'
  <1>1. CASE keys' = keys
    BY <1>1 DEF IndInv, TypeOK, KeyType
  <1>2. CASE RemoveMetaFiles
    <2>1. cur \in Cases
      BY <1>2 DEF RemoveMetaFiles, IndInv, TypeOK, ControlType
    <2>2. NoFile \in KeyFiles
      BY DEF NoFile, KeyFile, KeyFiles
    <2> QED BY <1>2, <2>1, <2>2 DEF RemoveMetaFiles, IndInv, TypeOK, KeyType
  <1>3. CASE OpenKeyFile
    <2>1. InInstance BY <1>3 DEF OpenKeyFile, InInstance
    <2>2. KeyFile("EMPTY", {}, FALSE) \in KeyFiles BY DEF KeyFile, KeyFiles
    <2> QED BY <1>3, <2>1, <2>2, CurrentKey, KeyWriteType DEF OpenKeyFile, IndInv, TypeOK, KeyType
  <1>4. CASE WriteHead
    <2>1. InInstance BY <1>4 DEF WriteHead, InInstance
    <2>2. KeyFile("RUNNING", {}, FALSE) \in KeyFiles BY DEF KeyFile, KeyFiles
    <2> QED BY <1>4, <2>1, <2>2, CurrentKey, KeyWriteType DEF WriteHead, IndInv, TypeOK
  <1>5. ASSUME InInstance, NEW g \in Guids, RecordAssertion(g)
        PROVE  KeyType'
    <2>1. <<g, recorded[cur] + 1>> \in Lines
      BY <1>5, CurrentKey DEF IndInv, TypeOK, HistoryType, Lines
    <2>2. [keys[cur][KeyName] EXCEPT !.asserts = @ \cup {<<g, recorded[cur] + 1>>},
                                     !.hang = @ \/ g = "hang"] \in KeyFiles
      BY <1>5, <2>1, CurrentKey DEF KeyFiles
    <2> QED BY <1>5, <2>2, CurrentKey, KeyWriteType DEF RecordAssertion, IndInv, TypeOK
  <1>6. CASE CheckRecord
    <2>1. InInstance BY <1>6 DEF CheckRecord, InInstance
    <2> QED BY <1>1, <1>5, <1>6, <2>1, GuidsType DEF CheckRecord
  <1>7. CASE TestAssertion
    <2>1. InInstance BY <1>7 DEF TestAssertion, InInstance
    <2> QED BY <1>5, <1>7, <2>1, CurrentKey, GuidsType DEF TestAssertion
  <1>8. CASE WriteTerm
    <2>1. InInstance BY <1>8 DEF WriteTerm, InInstance
    <2>2. [keys[cur][KeyName] EXCEPT !.state = "FINISHED"] \in KeyFiles
      BY <2>1, CurrentKey DEF KeyFiles
    <2> QED BY <1>8, <2>1, <2>2, CurrentKey, KeyWriteType DEF WriteTerm, IndInv, TypeOK
  <1> QED BY <1>1, <1>2, <1>3, <1>4, <1>6, <1>7, <1>8, KeysFrame

(* Results keep their type: a list is a copy of the other, or changes at   *)
(* one case.                                                               *)
LEMMA ResultTypeStep ==
  ASSUME IndInv, Next
  PROVE  ResultType(mem)' /\ ResultType(ini)'
  <1>1. ASSUME NEW m, ResultType(m)
        PROVE  ResultType(ResetTestCaseResults(m))
    BY <1>1, ConstantResults DEF ResultType, ResetTestCaseResults
  <1>2. CASE SctExecute
    BY <1>1, <1>2 DEF SctExecute, StartNext, IndInv, TypeOK, ResultType
  <1>3. CASE SctContinueExecute
    BY <1>3 DEF SctContinueExecute, ContinueExecuteStart, StartNext, IndInv,
                TypeOK, ResultType
  <1>4. CASE MarkRunning
    <2>1. cur \in Cases
      BY <1>4 DEF MarkRunning, IndInv, TypeOK, ControlType
    <2> QED BY <1>4, <2>1, ConstantResults
            DEF MarkRunning, SaveTestCases, IndInv, TypeOK, ResultType
  <1>5. CASE Tallying
    <2>1. cur \in Cases
      BY <1>5, TallySteps DEF IndInv, TypeOK, ControlType
    <2>2. PICK P \in SUBSET Inst(cur) : TallyOf(P)
      BY <1>5, TallySteps
    <2>3. Result("DONE", GetInterfaceAssertion(cur, P)) \in Results(cur)
      BY <2>1, TallyType DEF IndInv, TypeOK
    <2>4. ini' = ini /\ mem' = [mem EXCEPT ![cur] = Result("DONE", GetInterfaceAssertion(cur, P))]
      BY <1>5, <2>2, TallySteps DEF TallyOf, StartNext
    <2> QED BY <2>1, <2>3, <2>4 DEF IndInv, TypeOK, ResultType
  <1>6. CASE Finish
    BY <1>6 DEF Finish, SaveTestCases, IndInv, TypeOK, ResultType
  <1>7. CASE CrashInFlush
    BY <1>7, ConstantResults DEF CrashInFlush, memVars, IndInv, TypeOK, ResultType
  <1>8. CASE mem' = mem /\ ini' = ini
    BY <1>8 DEF IndInv, TypeOK, ResultType
  <1> QED BY <1>2, <1>3, <1>4, <1>5, <1>6, <1>7, <1>8, MemFrame, IniFrame

-----------------------------------------------------------------------------
(* The place in the program, the current case and ExecuteInfo.             *)

(* Starting a case leads to its first place, or to "none".                 *)
LEMMA StartNextControl ==
  ASSUME IndInv, NEW m, NEW none \in {"shell", "final"}, StartNext(m, none),
         none = "final" => cur \in Cases, isSkip' = isSkip
  PROVE  ControlType'
  BY DEF StartNext, GetNextTestCase, IsLowest, InvalidCases, InitializeExecuteInfo,
         ExecuteInfo, IndInv, TypeOK, ControlType, Places

(* The scan of the key files resumes at a position.                        *)
LEMMA ResumeType ==
  ASSUME IndInv, NEW c \in Cases, GetInstanceAssertion(c)
  PROVE  info' \in ExecuteInfo /\ info'.Index = info'.Handle
  <1>1. CASE info' = [InitializeExecuteInfo EXCEPT !.State = "EMPTY"]
    BY <1>1 DEF InitializeExecuteInfo, ExecuteInfo
  <1>2. ASSUME NEW p \in Inst(c), LastKey(c, p[1], p[2]),
               info' = [State |-> keys[c][p].state, Index |-> p[1],
                        Iteration |-> p[2], Handle |-> p[1]]
        PROVE  info' \in ExecuteInfo /\ info'.Index = info'.Handle
    <2>1. p[1] \in Nat /\ p[2] \in Nat /\ p = <<p[1], p[2]>>
      BY DEF Inst
    <2>2. HasKey(c, p[1], p[2])
      BY <1>2, <2>1 DEF LastKey, Probed
    <2>3. keys[c][p] \in KeyFiles /\ keys[c][p].state # "NONE"
      BY <2>1, <2>2 DEF HasKey, IndInv, TypeOK, KeyType
    <2>4. keys[c][p].state \in {"EMPTY", "RUNNING", "FINISHED"}
      BY <2>3 DEF KeyFiles
    <2> QED BY <1>2, <2>1, <2>4 DEF ExecuteInfo
  <1> QED BY <1>1, <1>2 DEF GetInstanceAssertion

(* The steps of the loops over iterations and handles keep the type.       *)
LEMMA LoopType ==
  ASSUME NEW i \in ExecuteInfo
  PROVE  /\ [i EXCEPT !.Iteration = 0, !.Handle = @ + 1] \in ExecuteInfo
         /\ [i EXCEPT !.Iteration = 0, !.Index = @ + 1, !.Handle = @ + 1] \in ExecuteInfo
         /\ [i EXCEPT !.State = "UNKNOWN", !.Iteration = @ + 1] \in ExecuteInfo
  <1>1. i.Index + 1 \in Nat /\ i.Iteration + 1 \in Nat /\ i.Handle + 1 \in Nat /\ 0 \in Nat
    BY DEF ExecuteInfo
  <1>2. [i EXCEPT !.Iteration = 0, !.Handle = @ + 1] \in ExecuteInfo
    BY <1>1 DEF ExecuteInfo
  <1>3. [i EXCEPT !.Iteration = 0, !.Index = @ + 1, !.Handle = @ + 1] \in ExecuteInfo
    BY <1>1 DEF ExecuteInfo
  <1>4. [i EXCEPT !.State = "UNKNOWN", !.Iteration = @ + 1] \in ExecuteInfo
    BY <1>1 DEF ExecuteInfo
  <1> QED BY <1>2, <1>3, <1>4

(* Every step leads to a place of the program, with the case and the       *)
(* position it needs.                                                      *)
LEMMA ControlStep ==
  ASSUME IndInv, Next
  PROVE  ControlType'
  <1>1. CASE SctExecute
    BY <1>1, StartNextControl DEF SctExecute
  <1>2. CASE SctContinueExecute
    <2>1. ASSUME NEW c \in Cases, ContinueExecuteStart(c), isSkip' = isSkip
          PROVE  ControlType'
      BY <2>1, ResumeType DEF ContinueExecuteStart, IndInv, TypeOK, ControlType, Places
    <2> QED BY <1>2, <2>1, StartNextControl DEF SctContinueExecute
  <1>3. CASE Tallying
    BY <1>3, TallySteps, StartNextControl DEF TallyOf, IndInv, TypeOK, ControlType
  <1>4. CASE FilterHandle \/ NextHandle \/ SkipFinished \/ AfterInstance
    <2>1. info \in ExecuteInfo
      BY DEF IndInv, TypeOK, ControlType
    <2>2. info' \in ExecuteInfo
      BY <1>4, <2>1, LoopType DEF FilterHandle, NextHandle, SkipFinished, AfterInstance
    <2> QED BY <1>4, <2>2 DEF FilterHandle, NextHandle, SkipFinished, AfterInstance,
                AcceptedHandle, AtHandle, IndInv, TypeOK, ControlType, Places
  <1>5. CASE CheckRecord
    BY <1>5 DEF CheckRecord, IndInv, TypeOK, ControlType, Places
  <1>6. CASE MarkRunning \/ CleanRecord \/ RemoveMetaFiles \/ LocateHandles \/ SkipCase
             \/ HandlesDone \/ RunInstance \/ OpenKeyFile \/ WriteHead \/ WriteTerm
             \/ PostRemoveRecovery \/ Finish
    BY <1>6 DEF MarkRunning, CleanRecord, RemoveMetaFiles, LocateHandles, SkipCase, HandlesDone,
                RunInstance, AcceptedHandle, AtHandle, OpenKeyFile, WriteHead,
                WriteTerm, PostRemoveRecovery, Finish, memVars, IndInv, TypeOK,
                ControlType, Places
  <1>7. CASE Test \/ WatchdogReset \/ Boot \/ Crash \/ CrashInFlush \/ ExecuteError
             \/ LocateFails
    BY <1>7 DEF Test, EntryPoint, TestAssertion, WriteResetRecord, ResetSystem, Hang,
                Return, WatchdogReset, Boot, Faults, Crash, CrashInFlush, ExecuteError,
                LocateHandles, LocateFails,
                memVars, IndInv, TypeOK, ControlType, Places
  <1> QED BY <1>1, <1>2, <1>3, <1>4, <1>5, <1>6, <1>7 DEF Next, Framework, Faults, Tallying

(* The small files keep their types.                                       *)
LEMMA FileTypeStep ==
  ASSUME IndInv, Next
  PROVE  FileType'
  <1> FileType /\ ControlType
    BY DEF IndInv, TypeOK
  <1>1. rec' \in {"NONE", "EMPTY", "DATA"}
    BY DEF Next, SctExecute, SctContinueExecute, Framework, Test, WatchdogReset,
           Boot, Faults, MarkRunning, CleanRecord, RemoveRecoveryFile,
           RemoveMetaFiles, SkipCase, HandlesDone, FilterHandle, NextHandle,
           SkipFinished, RunInstance, OpenKeyFile, WriteHead, CheckRecord,
           WriteTerm, PostRemoveRecovery, AfterInstance, Tally, TallyFails, Finish,
           EntryPoint, TestAssertion, WriteResetRecord, ResetSystem, Hang,
           Return, Crash, CrashInFlush, ExecuteError, LocateHandles, LocateFails, diskVars, FileType
  <1>2. verb' \in BOOLEAN
    BY DEF Next, SctExecute, SctContinueExecute, Framework, Test, WatchdogReset,
           Boot, Faults, MarkRunning, CleanRecord, RemoveMetaFiles, SkipCase,
           HandlesDone, FilterHandle, NextHandle, SkipFinished, RunInstance,
           OpenKeyFile, WriteHead, CheckRecord, WriteTerm, PostRemoveRecovery,
           AfterInstance, Tally, TallyFails, Finish, EntryPoint, TestAssertion,
           WriteResetRecord, ResetSystem, Hang, Return, Crash, CrashInFlush,
           ExecuteError, LocateHandles, LocateFails, diskVars, FileType
  <1>3. skipped' \subseteq Cases
    BY DEF Next, SctExecute, SctContinueExecute, Framework, Test, WatchdogReset,
           Boot, Faults, MarkRunning, CleanRecord, RemoveMetaFiles, SkipCase,
           HandlesDone, FilterHandle, NextHandle, SkipFinished, RunInstance,
           OpenKeyFile, WriteHead, CheckRecord, WriteTerm, PostRemoveRecovery,
           AfterInstance, Tally, TallyFails, Finish, EntryPoint, TestAssertion,
           WriteResetRecord, ResetSystem, Hang, Return, Crash, CrashInFlush,
           ExecuteError, LocateHandles, LocateFails, diskVars, FileType, ControlType
  <1> QED BY <1>1, <1>2, <1>3 DEF FileType

(* The bounds are kept.                                                    *)
LEMMA BoundTypeStep ==
  ASSUME IndInv, Next
  PROVE  BoundType'
  <1>0. BoundType
    BY DEF IndInv, TypeOK
  <1>1. UNCHANGED boundVars \/ SctExecute \/ WriteResetRecord \/ Faults
    BY DEF Next, SctContinueExecute, Framework, Test, WatchdogReset,
           Boot, MarkRunning, CleanRecord, RemoveMetaFiles, SkipCase,
           HandlesDone, FilterHandle, NextHandle, SkipFinished, RunInstance,
           OpenKeyFile, WriteHead, CheckRecord, WriteTerm, PostRemoveRecovery,
           AfterInstance, Tally, TallyFails, Finish, EntryPoint, TestAssertion,
           ResetSystem, Hang, Return, LocateHandles, boundVars
  <1>2. CASE UNCHANGED boundVars
    BY <1>0, <1>2 DEF boundVars, BoundType
  <1>3. CASE SctExecute \/ WriteResetRecord \/ Faults
    BY <1>0, <1>3 DEF SctExecute, WriteResetRecord, Faults, Crash, CrashInFlush,
                      ExecuteError, LocateFails, TallyFails, BoundType
  <1> QED BY <1>1, <1>2, <1>3

(* Only the mark, the records and the cut instances change the history.    *)
LEMMA HistoryFrame ==
  ASSUME Next
  PROVE  \/ UNCHANGED histVars
         \/ MarkRunning \/ CheckRecord \/ EntryPoint \/ TestAssertion \/ ResetSystem
         \/ WatchdogReset \/ WriteTerm \/ Crash \/ CrashInFlush
         \/ SctContinueExecute \/ LocateFails \/ TallyFails
  BY DEF Next, SctExecute, Framework, Test,
         Boot, Faults, CleanRecord, RemoveMetaFiles, SkipCase,
         HandlesDone, FilterHandle, NextHandle, SkipFinished, RunInstance,
         OpenKeyFile, WriteHead, PostRemoveRecovery,
         AfterInstance, Tally, Finish, WriteResetRecord, Hang, Return, ExecuteError, LocateHandles,
         histVars

(* The history keeps its type.                                             *)
LEMMA HistoryTypeStep ==
  ASSUME IndInv, Next
  PROVE  HistoryType'
  <1>0. HistoryType /\ Instance \in Nat \X Nat /\ KeyName \in Nat \X Nat
    BY DEF IndInv, TypeOK, ControlType, ExecuteInfo, Instance, KeyName
  <1>1. CASE UNCHANGED histVars
    BY <1>0, <1>1 DEF histVars, HistoryType
  <1>2. CASE MarkRunning \/ CrashInFlush
    <2>1. owner' = owner
      BY <1>2 DEF MarkRunning, CrashInFlush
    <2>2. CASE StartHistory
      BY <1>0, <2>1, <2>2 DEF StartHistory, HistoryType
    <2>3. CASE UNCHANGED <<recorded, written, spoiled, started, termed, cut>>
      BY <1>0, <2>1, <2>3 DEF HistoryType
    <2> QED BY <1>2, <2>2, <2>3 DEF MarkRunning, CrashInFlush
  <1>3. CASE CheckRecord \/ TestAssertion
    <2>1. cur \in Cases
      BY <1>3 DEF CheckRecord, TestAssertion, IndInv, TypeOK, ControlType
    <2>2. \/ UNCHANGED <<recorded, written>>
          \/ \E g \in Guids : RecordAssertion(g)
      BY <1>3, <2>1, GuidsType DEF CheckRecord, TestAssertion
    <2>3. UNCHANGED <<spoiled, started, termed, cut, owner>>
      BY <1>3 DEF CheckRecord, TestAssertion
    <2>4. CASE UNCHANGED <<recorded, written>>
      BY <1>0, <2>3, <2>4 DEF HistoryType
    <2>5. ASSUME NEW g \in Guids, RecordAssertion(g) PROVE HistoryType'
      <3>1. recorded[cur] + 1 \in Nat
        BY <1>0, <2>1 DEF HistoryType
      <3>2. <<KeyName, <<g, recorded[cur] + 1>>>> \in (Nat \X Nat) \X Lines
        BY <1>0, <3>1 DEF Lines
      <3>3. written' \in [Cases -> SUBSET ((Nat \X Nat) \X Lines)]
        BY <1>0, <2>5, <3>2 DEF RecordAssertion, HistoryType
      <3>4. recorded' \in [Cases -> Nat]
        BY <1>0, <2>5, <3>1 DEF RecordAssertion, HistoryType
      <3> QED BY <1>0, <2>3, <3>3, <3>4 DEF HistoryType
    <2> QED BY <2>2, <2>4, <2>5
  <1>4. CASE EntryPoint \/ WriteTerm
    BY <1>0, <1>4 DEF EntryPoint, WriteTerm, HistoryType
  <1>5. CASE ResetSystem
    <2>1. <<cur, info.Handle, info.Iteration>> \in Nat \X Nat \X Nat
      BY DEF IndInv, TypeOK, ControlType, ExecuteInfo, Cases
    <2> QED BY <1>0, <1>5, <2>1 DEF ResetSystem, HistoryType
  <1>6. CASE WatchdogReset \/ Crash
    BY <1>0, <1>6 DEF WatchdogReset, Crash, CutInstance, HistoryType
  <1>7. CASE SctContinueExecute \/ LocateFails \/ TallyFails
    BY <1>0, <1>7 DEF SctContinueExecute, ContinueExecuteStart, LocateFails, TallyFails, Spoil,
                      HistoryType
  <1> QED BY <1>1, <1>2, <1>3, <1>4, <1>5, <1>6, <1>7, HistoryFrame

-----------------------------------------------------------------------------
(* The position and the order.                                             *)

(* Only the starts and the loops change the case and the position.         *)
LEMMA PositionFrame ==
  ASSUME Next
  PROVE  \/ UNCHANGED <<cur, info>> /\ (InInstance' => InInstance)
         \/ SctExecute \/ SctContinueExecute \/ FilterHandle \/ NextHandle
         \/ SkipFinished \/ RunInstance \/ AfterInstance \/ Tallying
  BY DEF Next, Framework, Test, WatchdogReset, Boot, Faults, MarkRunning,
         CleanRecord, RemoveMetaFiles, SkipCase, HandlesDone, OpenKeyFile,
         WriteHead, CheckRecord, WriteTerm, PostRemoveRecovery, Finish, EntryPoint,
         TestAssertion, WriteResetRecord, ResetSystem, Hang, Return, Crash,
         CrashInFlush, ExecuteError, LocateHandles, LocateFails, memVars, InInstance, Tallying

(* The number in the name of a key file is at most the handle's, and an    *)
(* instance that is run exists.                                            *)
LEMMA PositionStep ==
  ASSUME IndInv, Next
  PROVE  PositionOK'
  <1>0. PositionOK /\ info \in ExecuteInfo
    BY DEF IndInv, TypeOK, ControlType
  <1>1. CASE UNCHANGED <<cur, info>> /\ (InInstance' => InInstance)
    BY <1>0, <1>1 DEF PositionOK
  <1>2. ASSUME NEW m, NEW none \in {"shell", "final"}, StartNext(m, none)
        PROVE  PositionOK'
    BY <1>0, <1>2 DEF StartNext, InitializeExecuteInfo, PositionOK, InInstance
  <1>3. CASE SctExecute
    BY <1>2, <1>3 DEF SctExecute
  <1>4. CASE SctContinueExecute
    <2>1. ASSUME NEW c \in Cases, ContinueExecuteStart(c)
          PROVE  PositionOK'
      BY <2>1, ResumeType DEF ContinueExecuteStart, PositionOK, InInstance, ExecuteInfo
    <2> QED BY <1>2, <1>4, <2>1 DEF SctContinueExecute
  <1>5. CASE Tallying
    BY <1>2, <1>5, TallySteps DEF TallyOf
  <1>6. CASE FilterHandle
    <2>1. info'.Index = info.Index /\ info'.Handle = info.Handle + 1
      BY <1>0, <1>6 DEF FilterHandle, ExecuteInfo
    <2> QED BY <1>0, <1>6, <2>1 DEF FilterHandle, AtHandle, PositionOK, InInstance,
                                    ExecuteInfo
  <1>7. CASE NextHandle
    <2>1. info'.Index = info.Index + 1 /\ info'.Handle = info.Handle + 1
      BY <1>0, <1>7 DEF NextHandle, ExecuteInfo
    <2> QED BY <1>0, <1>7, <2>1 DEF NextHandle, AcceptedHandle, AtHandle, PositionOK,
                                    InInstance, ExecuteInfo
  <1>8. CASE SkipFinished
    <2>1. info'.Index = info.Index /\ info'.Handle = info.Handle
      BY <1>0, <1>8 DEF SkipFinished, ExecuteInfo
    <2> QED BY <1>0, <1>8, <2>1 DEF SkipFinished, AcceptedHandle, AtHandle, PositionOK,
                                    InInstance
  <1>9. CASE AfterInstance
    <2>1. info'.Index = info.Index /\ info'.Handle = info.Handle
      BY <1>0, <1>9 DEF AfterInstance, ExecuteInfo
    <2> QED BY <1>0, <1>9, <2>1 DEF AfterInstance, PositionOK, InInstance
  <1>10. CASE RunInstance
    BY <1>0, <1>10 DEF RunInstance, AcceptedHandle, AtHandle, memVars, PositionOK
  <1> QED BY <1>1, <1>3, <1>4, <1>5, <1>6, <1>7, <1>8, <1>9, <1>10, PositionFrame

(* Starting the lowest case of a list with no selected case running keeps  *)
(* the order.                                                              *)
LEMMA StartInOrder ==
  ASSUME NEW m, ResultType(m), NEW none \in {"shell", "final"}, StartNext(m, none),
         \A d \in Cases : Selected(d) => m[d].st # "RUNNING",
         none = "final" => /\ Selected(cur)
                           /\ \A d \in Before(cur) : m[d].st \in {"DONE", "ABSENT"}
  PROVE  MemoryInOrder'
  <1>1. CASE pc' = none /\ mem' = m /\ cur' = cur
    BY <1>1 DEF MemoryInOrder, Before
  <1>2. ASSUME NEW c \in Cases, GetNextTestCase(m, c), cur' = c, mem' = m, pc' = "mark"
        PROVE  MemoryInOrder'
    <2>1. ASSUME NEW d \in Before(c)
          PROVE  m[d].st \in {"DONE", "ABSENT"}
      <3>1. d \in Cases /\ Selected(d) /\ Order[d] < Order[c]
        BY DEF Before
      <3>2. m[d].st # "INVALID"
        <4>1. Order[c] \in Int /\ Order[d] \in Int
          BY <3>1 DEF Unselected
        <4> QED BY <1>2, <3>1, <4>1 DEF GetNextTestCase, IsLowest, InvalidCases
      <3> QED BY <3>1, <3>2 DEF ResultType, Results
    <2> QED BY <1>2, <2>1 DEF MemoryInOrder, Before, GetNextTestCase, IsLowest, Selected
  <1> QED BY <1>1, <1>2 DEF StartNext

(* Only a start leads from the shell into the program, and only the tally  *)
(* to the last save.                                                       *)
LEMMA PlaceFrame ==
  ASSUME Next, mem' = mem, ~SctExecute, ~SctContinueExecute, ~Tallying,
         pc' \notin {"shell", "off"}
  PROVE  pc \notin {"shell", "off"} /\ cur' = cur /\ pc' # "final"
  BY DEF Next, Framework, Test, WatchdogReset, Boot, Faults, MarkRunning,
         CleanRecord, RemoveMetaFiles, SkipCase, HandlesDone, FilterHandle,
         NextHandle, SkipFinished, RunInstance, AcceptedHandle, AtHandle,
         OpenKeyFile, WriteHead, CheckRecord, WriteTerm, PostRemoveRecovery,
         AfterInstance, Finish, EntryPoint, TestAssertion, WriteResetRecord,
         ResetSystem, Hang, Return, Crash, CrashInFlush, ExecuteError, LocateHandles,
         LocateFails, memVars, Tallying

(* The list in memory stays in the order of the run.                       *)
LEMMA MemoryStep ==
  ASSUME IndInv, Next
  PROVE  MemoryInOrder'
  <1>0. ResultType(mem) /\ ResultType(ini) /\ MemoryInOrder /\ ResumeInOrder
    BY DEF IndInv, TypeOK
  <1>1. CASE SctExecute
    <2> DEFINE m == ResetTestCaseResults(ini)
    <2>1. ResultType(m)
      BY <1>0, ConstantResults DEF ResultType, ResetTestCaseResults
    <2>2. \A d \in Cases : Selected(d) => m[d].st # "RUNNING"
      BY <1>0 DEF ResetTestCaseResults, INVALID, Result
    <2>3. StartNext(m, "shell")
      BY <1>1 DEF SctExecute
    <2> HIDE DEF m
    <2> QED BY <2>1, <2>2, <2>3, StartInOrder
  <1>2. CASE SctContinueExecute
    <2>1. ASSUME NEW c \in Cases, GetRunningTestCase(ini, c), ContinueExecuteStart(c)
          PROVE  MemoryInOrder'
      <3>1. Selected(c) /\ ini[c].st = "RUNNING"
        BY <2>1 DEF GetRunningTestCase, IsLowest, RunningCases
      <3>2. cur' = c /\ mem' = ini /\ pc' = "locate"
        BY <2>1 DEF ContinueExecuteStart
      <3> QED BY <1>0, <3>1, <3>2 DEF ResumeInOrder, MemoryInOrder, Before, Selected
    <2>2. CASE NoRunning(ini) /\ StartNext(ini, "shell")
      <3>1. \A d \in Cases : Selected(d) => ini[d].st # "RUNNING"
        BY <2>2 DEF NoRunning, RunningCases
      <3> QED BY <1>0, <2>2, <3>1, StartInOrder
    <2> QED BY <1>2, <2>1, <2>2 DEF SctContinueExecute
  <1>3. CASE MarkRunning
    BY <1>0, <1>3 DEF MarkRunning, MemoryInOrder, ResultType, Before, Selected,
                      IndInv, TypeOK, ControlType
  <1>4. CASE Tallying
    <2>0. PICK P \in SUBSET Inst(cur) : pc = "tally" /\ TallyOf(P)
      BY <1>4, TallySteps
    <2> DEFINE m == [mem EXCEPT ![cur] = Result("DONE", GetInterfaceAssertion(cur, P))]
    <2>1. cur \in Cases /\ Selected(cur)
      BY <1>0, <2>0 DEF MemoryInOrder, IndInv, TypeOK, ControlType
    <2>2. ResultType(m)
      BY <1>0, <2>1, TallyType DEF ResultType, IndInv, TypeOK
    <2>3. \A d \in Cases : Selected(d) => m[d].st # "RUNNING"
      BY <1>0, <2>0, <2>1 DEF MemoryInOrder, ResultType, Result
    <2>4. \A d \in Before(cur) : m[d].st \in {"DONE", "ABSENT"}
      BY <1>0, <2>0, <2>1 DEF MemoryInOrder, ResultType, Before, Result
    <2>5. StartNext(m, "final")
      BY <2>0 DEF TallyOf
    <2> HIDE DEF m
    <2> QED BY <2>1, <2>2, <2>3, <2>4, <2>5, StartInOrder
  <1>5. CASE mem' = mem /\ ~SctExecute /\ ~SctContinueExecute /\ ~Tallying
    BY <1>0, <1>5, PlaceFrame DEF MemoryInOrder, Before, Selected
  <1> QED BY <1>1, <1>2, <1>3, <1>4, <1>5, MemFrame

(* What a save, whole or cut, puts on disk goes on in order.               *)
LEMMA ResumeStep ==
  ASSUME IndInv, Next
  PROVE  ResumeInOrder'
  <1>0. /\ ResultType(mem) /\ MemoryInOrder /\ ResumeInOrder
        /\ pc \in {"mark", "final"} => cur \in Cases
    BY DEF IndInv, TypeOK, ControlType
  <1>1. CASE ini' = ini
    BY <1>0, <1>1 DEF ResumeInOrder, Before, Selected
  <1>2. CASE MarkRunning
    BY <1>0, <1>2 DEF MarkRunning, SaveTestCases, MemoryInOrder, ResumeInOrder,
                      ResultType, Before, Selected
  <1>3. CASE Finish
    BY <1>0, <1>3 DEF Finish, SaveTestCases, MemoryInOrder, ResumeInOrder, Before, Selected
  <1>4. CASE CrashInFlush
    <2>1. \A c \in Cases : Selected(c) /\ ini'[c].st = "RUNNING" => c = cur /\ pc = "mark"
      BY <1>0, <1>4 DEF CrashInFlush, MemoryInOrder, ABSENT, RUNNING, Result
    <2>2. \A d \in Before(cur) : ini'[d].st \in {"DONE", "ABSENT"}
      <3>1. \A d \in Before(cur) : d \in Cases /\ d # cur
        BY <1>0, <1>4 DEF CrashInFlush, Before, Unselected
      <3>2. \A d \in Before(cur) : mem[d].st \in {"DONE", "ABSENT"}
        BY <1>0, <1>4 DEF CrashInFlush, MemoryInOrder
      <3>3. \A d \in Cases : d # cur => ini'[d] \in {ABSENT, mem[d]}
        BY <1>4 DEF CrashInFlush
      <3> QED BY <3>1, <3>2, <3>3 DEF ABSENT, Result
    <2> QED BY <2>1, <2>2 DEF ResumeInOrder, Before, Selected
  <1> QED BY <1>1, <1>2, <1>3, <1>4, IniFrame

-----------------------------------------------------------------------------
(* The invariant is inductive.                                             *)

(* A step of the executor, of a test or of a fault keeps the invariant.    *)
LEMMA NextInv ==
  ASSUME IndInv, Next
  PROVE  IndInv'
  <1>1. TypeOK'
    BY ControlStep, ResultTypeStep, KeyTypeStep, FileTypeStep, BoundTypeStep,
       HistoryTypeStep DEF TypeOK
  <1> QED BY <1>1, PositionStep, MemoryStep, ResumeStep DEF IndInv

(* A step that changes nothing keeps it too.                               *)
LEMMA StutterInv ==
  ASSUME IndInv, UNCHANGED vars
  PROVE  IndInv'
  BY DEF IndInv, TypeOK, ControlType, ResultType, KeyType, FileType, BoundType,
         HistoryType, PositionOK, InInstance, ResumeInOrder, MemoryInOrder, Before,
         Selected, vars, memVars, diskVars, boundVars, histVars

(* The inductive invariant holds in every state of the executor.           *)
THEOREM Invariant == Spec => []IndInv
  <1>1. Init => IndInv
    BY InitInv
  <1>2. IndInv /\ [Next]_vars => IndInv'
    BY NextInv, StutterInv
  <1> QED BY <1>1, <1>2, PTL DEF Spec

(* The executor's memory, files and history keep their types, for every    *)
(* list of cases and every set of places the machine may stop at: Sct -c   *)
(* never resumes at a position that has no key file name.                  *)
THEOREM TypeCorrect == Spec => []TypeOK
  <1>1. IndInv => TypeOK
    BY DEF IndInv
  <1> QED BY <1>1, Invariant, PTL

(* Wherever the machine stops, the middle of a save included, TestCase.ini *)
(* holds at most one selected running case, and every selected case before *)
(* it has its results or was cut off the file.                             *)
THEOREM RecoveryInOrder == Spec => []ResumeInOrder
  <1>1. IndInv => ResumeInOrder
    BY DEF IndInv
  <1> QED BY <1>1, Invariant, PTL

(* The list in memory, which the next save writes, has at most the current *)
(* case running and every selected case before it done.                    *)
THEOREM PlanInOrder == Spec => []MemoryInOrder
  <1>1. IndInv => MemoryInOrder
    BY DEF IndInv
  <1> QED BY <1>1, Invariant, PTL

(* While an instance is run its handle and its iteration exist, and Index, *)
(* which names its key file, has not run ahead of the handle: also after a *)
(* resume, where both come from the key files.                             *)
THEOREM PositionInRange == Spec => []PositionOK
  <1>1. IndInv => PositionOK
    BY DEF IndInv
  <1> QED BY <1>1, Invariant, PTL
=============================================================================
