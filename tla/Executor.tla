------------------------------ MODULE Executor ------------------------------
(***************************************************************************)
(* The SCT test executor and its recovery from resets.                     *)
(*                                                                         *)
(* Sct.efi walks through the selected test cases in their order, runs each *)
(* on every handle that produces the protocol under test, as many times as *)
(* the case asks for, and logs every run ("instance") in a key file.  A    *)
(* test may reset the machine, hang until the watchdog fires, or be cut by *)
(* a power failure; the startup script then runs "Sct -c", which has only  *)
(* the files on disk (TestCase.ini, the key files, the reset record) to    *)
(* find out where to go on.                                                *)
(*                                                                         *)
(* The program is sequential: pc is the place in it, one action per group  *)
(* of statements between two writes to disk, so that a crash can fall      *)
(* between any two of them.                                                *)
(***************************************************************************)
EXTENDS Integers, FiniteSets

CONSTANTS
  NumCases,       \* length of gFT->TestCaseList
  Order,          \* TestCase->Order: position in the run, or Unselected
  Iterations,     \* TestCase->Iterations
  NoHandles,      \* handles with the case's protocol (1 for the service categories)
  ProtocolTests,  \* cases whose handles come from LocateHandleBuffer
  Filtered,       \* handles IhvInterfaceFilter refuses (only IHV black box tests)
  ResetRequired,  \* cases with EFI_TEST_CASE_RESET_REQUIRED
  ClearsRecord,   \* cases whose test empties the reset record when it recovers
  MayHang,        \* cases whose test may hang
  TestGuids,      \* GUIDs a case's test records its assertions with
  EnableScreenOutput,
  CrashAt,        \* places in the program where the machine may stop
  MaxRec,         \* bound: assertions a case's test records per instance
  MaxRuns,        \* bound: executions the user starts
  MaxResets,      \* bound: resets the tests ask for
  MaxFaults       \* bound: crashes and I/O errors

Unselected == -1  \* EFI_SCT_TEST_CASE_INVALID as an order

Cases == 1..NumCases

(* The instances of a case, by the number in the key file's name or by the *)
(* handle, and iteration, and the order in which they are run and read.    *)
Inst(c) == (0..NoHandles[c] - 1) \X (0..Iterations[c] - 1)
Precedes(p, q) == p[1] < q[1] \/ (p[1] = q[1] /\ p[2] < q[2])

Places == {"shell", "off", "mark", "clean", "purge", "locate", "loop", "open", "head",
           "check", "entry", "body", "wrec", "hung", "term", "rmrec", "after",
           "tally", "final"}

ASSUME ExecutorAssumption ==
  /\ NumCases \in Nat
  /\ Order \in [Cases -> Nat \cup {Unselected}]
  /\ \A c, d \in Cases : Order[c] = Order[d] /\ c # d => Order[c] = Unselected
  /\ Iterations \in [Cases -> Nat]
  /\ NoHandles \in [Cases -> Nat]
  /\ ProtocolTests \subseteq Cases
  /\ \A c \in Cases : NoHandles[c] = 0 => c \in ProtocolTests
  /\ Filtered \in [Cases -> SUBSET Nat]
  /\ ResetRequired \subseteq Cases
  /\ ClearsRecord \subseteq Cases
  /\ MayHang \subseteq Cases
  /\ \A c \in Cases : "hang" \notin TestGuids[c]
  /\ EnableScreenOutput \in BOOLEAN
  /\ CrashAt \subseteq Places \cup {"flush"}
  /\ MaxRec \in [Cases -> Nat]
  /\ MaxRuns \in Nat /\ MaxResets \in Nat /\ MaxFaults \in Nat

VARIABLES
  (* memory of Sct.efi *)
  pc,         \* place in the program
  cur,        \* ExecuteInfo->TestCase
  info,       \* ExecuteInfo: State, Index, Iteration, and the local HandleIndex
  isSkip,     \* IsSkip of PreExecuteTestInstance
  mem,        \* results in gFT->TestCaseList
  (* files *)
  ini,        \* results in TestCase.ini
  keys,       \* the key file of every instance
  rec,        \* the recovery file: absent, empty or with a reset record
  verb,       \* .verbose.mode exists
  skipped,    \* SkippedCase.ini
  (* bounds *)
  runs, resets, faults,
  (* history, never read by the program *)
  recorded,   \* number of assertions recorded since the case was marked RUNNING
  written,    \* those assertions, with the name of the key file they went to
  spoiled,    \* errors the execution that gives the result has swallowed
  started,    \* instances whose test was entered afresh, by handle
  termed,     \* instances whose log was ended, by handle
  cut,        \* instances stopped in the test with no reset record, by handle
  owner       \* instance that wrote the reset record

memVars  == <<cur, info, isSkip, mem>>
diskVars == <<ini, keys, rec, verb, skipped>>
boundVars == <<runs, resets, faults>>
histVars == <<recorded, written, spoiled, started, termed, cut, owner>>
vars == <<pc, memVars, diskVars, boundVars, histVars>>

-----------------------------------------------------------------------------
(* Results: the three counters of a test case hold INVALID, RUNNING or     *)
(* numbers; the numbers are abstracted to the assertions they count, each  *)
(* with the key file it was read from.  A case that is not in the list     *)
(* loaded from TestCase.ini is ABSENT.                                     *)

Result(st, as) == [st |-> st, asserts |-> as]
INVALID == Result("INVALID", {})
RUNNING == Result("RUNNING", {})
ABSENT  == Result("ABSENT", {})

(* An assertion is a line of a key file, with a GUID: one of the test's    *)
(* checks, gTestGenericFailureGuid, or gEfiSystemHangAssertionGuid.  Lines *)
(* are told apart by a number.                                             *)
Checks == UNION {TestGuids[c] : c \in Cases}
Guids  == Checks \cup {"generic", "hang"}
Lines == Guids \X Nat

(* Key files: HEAD makes the state RUNNING, TERM makes it FINISHED.        *)
KeyFile(st, as, h) == [state |-> st, asserts |-> as, hang |-> h]
NoFile == KeyFile("NONE", {}, FALSE)

Selected(c) == Order[c] # Unselected

(* No selected case with a lower order satisfies P: the loops of           *)
(* GetRunningTestCase and GetNextTestCase keep the lowest order.           *)
IsLowest(c, S) == c \in S /\ Selected(c)
                  /\ \A d \in S : Selected(d) => Order[c] <= Order[d]

RunningCases(m) == {c \in Cases : m[c].st = "RUNNING"}
InvalidCases(m) == {c \in Cases : m[c].st = "INVALID"}

(* Mutant: the order is not compared.                                      *)
AnyInvalidCase(m, c) == c \in InvalidCases(m) /\ Selected(c)

GetRunningTestCase(m, c) == IsLowest(c, RunningCases(m))
GetNextTestCase(m, c)    == IsLowest(c, InvalidCases(m))

NoRunning(m) == \A c \in RunningCases(m) : ~Selected(c)
NoNext(m)    == \A c \in InvalidCases(m) : ~Selected(c)

(* LoadTestCases gives back what the file holds.                           *)
ResetTestCaseResults(m) ==
  [c \in Cases |-> IF Selected(c) /\ m[c].st # "ABSENT" THEN INVALID ELSE m[c]]

InitializeExecuteInfo ==
  [State |-> "UNKNOWN", Index |-> 0, Iteration |-> 0, Handle |-> 0]

-----------------------------------------------------------------------------
(* The scan for key files.  Instances are probed from 0 until iteration 0  *)
(* of one is missing, iterations from 0 until one is missing.              *)

HasKey(c, i, j) == <<i, j>> \in Inst(c) /\ keys[c][<<i, j>>].state # "NONE"

Probed(c, i, j) == /\ \A k \in 0..i : HasKey(c, k, 0)
                   /\ \A k \in 0..j : HasKey(c, i, k)

(* The last file found: what GetInstanceAssertion returns.                 *)
LastKey(c, i, j) == /\ Probed(c, i, j)
                    /\ ~HasKey(c, i, j + 1)
                    /\ ~HasKey(c, i + 1, 0)

(* Mutant: the iteration is one too low.                                   *)
EarlierInstanceAssertion(c) ==
  \E p \in Inst(c) :
    /\ LastKey(c, p[1], p[2])
    /\ info' = [State |-> keys[c][p].state, Index |-> p[1],
                Iteration |-> p[2] - 1, Handle |-> p[1]]

(* Where ContinueExecuteStart resumes: State, Index and Iteration of the   *)
(* last file found, EMPTY and 0 when there is none.  HandleIndex starts at *)
(* Index.                                                                  *)
GetInstanceAssertion(c) ==
  \/ /\ ~HasKey(c, 0, 0)
     /\ info' = [InitializeExecuteInfo EXCEPT !.State = "EMPTY"]
  \/ \E p \in Inst(c) :
       /\ LastKey(c, p[1], p[2])
       /\ info' = [State |-> keys[c][p].state, Index |-> p[1],
                   Iteration |-> p[2], Handle |-> p[1]]

(* LoadGuidAssertion with Duplicate FALSE: generic failures are ignored,   *)
(* lines with one GUID give one entry, but every SYSTEM_HANG is entered.   *)
LoadGuidAssertion(as) ==
  {<<g, 0>> : g \in {l[1] : l \in as} \ {"generic", "hang"}}
  \cup {l \in as : l[1] = "hang"}

(* What GetInterfaceAssertion sums up when it reads the key files P, each  *)
(* into a table of its own.                                                *)
ProbedKeys(c) == {p \in Inst(c) : Probed(c, p[1], p[2])}
GetInterfaceAssertion(c, P) ==
  UNION {{p} \X LoadGuidAssertion(keys[c][p].asserts) : p \in P}

-----------------------------------------------------------------------------
Init ==
  /\ pc = "shell"
  /\ cur = 0
  /\ info = InitializeExecuteInfo
  /\ isSkip = FALSE
  /\ mem = [c \in Cases |-> INVALID]
  /\ ini = [c \in Cases |-> INVALID]
  /\ keys = [c \in Cases |-> [p \in Inst(c) |-> NoFile]]
  /\ rec = "NONE"
  /\ verb = FALSE
  /\ skipped = {}
  /\ runs = 0 /\ resets = 0 /\ faults = 0
  /\ recorded = [c \in Cases |-> 0]
  /\ written = [c \in Cases |-> {}]
  /\ spoiled = [c \in Cases |-> {}]
  /\ started = [c \in Cases |-> {}]
  /\ termed = [c \in Cases |-> {}]
  /\ cut = [c \in Cases |-> {}]
  /\ owner = <<0, 0, 0>>

Instance == <<info.Handle, info.Iteration>>
KeyName  == <<info.Index, info.Iteration>>

(* Start the case GetNextTestCase finds in m, or go to "none".             *)
StartNext(m, none) ==
  \/ /\ NoNext(m)
     /\ pc' = none
     /\ mem' = m
     /\ UNCHANGED <<cur, info>>
  \/ \E c \in Cases :
       /\ GetNextTestCase(m, c)
       /\ cur' = c
       /\ mem' = m
       /\ info' = InitializeExecuteInfo
       /\ pc' = "mark"

(* The user runs the selected test cases.                                  *)
SctExecute ==
  /\ pc = "shell" /\ runs < MaxRuns
  /\ runs' = runs + 1
  /\ StartNext(ResetTestCaseResults(ini), "shell")
  /\ verb' = (~EnableScreenOutput /\ ~NoNext(ResetTestCaseResults(ini)))
  /\ UNCHANGED <<isSkip, ini, keys, rec, skipped, resets, faults, histVars>>

(* ContinueExecuteStart: resume the running case from its key files.       *)
ContinueExecuteStart(c) ==
  /\ GetInstanceAssertion(c)
  /\ cur' = c
  /\ mem' = ini
  /\ pc' = "locate"
  /\ spoiled' = [spoiled EXCEPT ![c] = {}]

(* The startup script, or the user, runs "Sct -c".  When nothing is left   *)
(* the function returns before FUNC_EXIT, and .verbose.mode stays.         *)
SctContinueExecute ==
  /\ pc = "shell"
  /\ verb' = ~EnableScreenOutput
  /\ \/ \E c \in Cases : GetRunningTestCase(ini, c) /\ ContinueExecuteStart(c)
     \/ NoRunning(ini) /\ StartNext(ini, "shell") /\ UNCHANGED spoiled
  /\ UNCHANGED <<isSkip, ini, keys, rec, skipped, boundVars,
                 recorded, written, started, termed, cut, owner>>

-----------------------------------------------------------------------------
(* ResetExecuteTestResults: mark the case, save the list, then remove the  *)
(* reset record and, one by one in the order of the directory, the old key *)
(* files.                                                                  *)

SaveTestCases == ini' = mem'

(* The history of the case starts when RUNNING is on disk.                 *)
StartHistory ==
  /\ recorded' = [recorded EXCEPT ![cur] = 0]
  /\ written' = [written EXCEPT ![cur] = {}]
  /\ spoiled' = [spoiled EXCEPT ![cur] = {}]
  /\ started' = [started EXCEPT ![cur] = {}]
  /\ termed' = [termed EXCEPT ![cur] = {}]
  /\ cut' = [cut EXCEPT ![cur] = {}]

MarkRunning ==
  /\ pc = "mark"
  /\ pc' = "clean"
  /\ mem' = [mem EXCEPT ![cur] = RUNNING]
  /\ SaveTestCases
  /\ StartHistory
  /\ UNCHANGED <<cur, info, isSkip, keys, rec, verb, skipped, boundVars, owner>>

RemoveRecoveryFile == rec' = "NONE"

CleanRecord ==
  /\ pc = "clean"
  /\ pc' = "purge"
  /\ RemoveRecoveryFile
  /\ UNCHANGED <<memVars, ini, keys, verb, skipped, boundVars, histVars>>

RemoveMetaFiles ==
  /\ pc = "purge"
  /\ \/ /\ \A p \in Inst(cur) : keys[cur][p] = NoFile
        /\ pc' = "locate"
        /\ UNCHANGED keys
     \/ /\ \E p \in Inst(cur) :
             /\ keys[cur][p] # NoFile
             /\ keys' = [keys EXCEPT ![cur][p] = NoFile]
        /\ UNCHANGED pc
  /\ UNCHANGED <<memVars, ini, rec, verb, skipped, boundVars, histVars>>

-----------------------------------------------------------------------------
(* ExecuteBbTestCase: a protocol test locates its handles, then come the   *)
(* loops over handles and iterations.                                      *)

LocateHandles ==
  /\ pc = "locate" /\ NoHandles[cur] # 0
  /\ pc' = "loop"
  /\ UNCHANGED <<memVars, diskVars, boundVars, histVars>>

(* No handle produces the protocol: the case is recorded as skipped.       *)
SkipCase ==
  /\ pc = "locate" /\ NoHandles[cur] = 0
  /\ skipped' = skipped \cup {cur}
  /\ pc' = "tally"
  /\ UNCHANGED <<memVars, ini, keys, rec, verb, boundVars, histVars>>

HandlesDone ==
  /\ pc = "loop" /\ info.Handle >= NoHandles[cur]
  /\ pc' = "tally"
  /\ UNCHANGED <<memVars, diskVars, boundVars, histVars>>

(* Mutant: one handle too many.                                            *)
OneMoreHandle == pc = "loop" /\ info.Handle <= NoHandles[cur]

AtHandle == pc = "loop" /\ info.Handle < NoHandles[cur]

(* The interface filter refuses the handle: Index is not incremented.      *)
FilterHandle ==
  /\ AtHandle /\ info.Handle \in Filtered[cur]
  /\ info' = [info EXCEPT !.Iteration = 0, !.Handle = @ + 1]
  /\ UNCHANGED <<pc, cur, isSkip, mem, diskVars, boundVars, histVars>>

AcceptedHandle == AtHandle /\ info.Handle \notin Filtered[cur]

NextHandle ==
  /\ AcceptedHandle /\ info.Iteration >= Iterations[cur]
  /\ info' = [info EXCEPT !.Iteration = 0, !.Index = @ + 1, !.Handle = @ + 1]
  /\ UNCHANGED <<pc, cur, isSkip, mem, diskVars, boundVars, histVars>>

(* Mutant: the state stays FINISHED.                                       *)
SkipFinishedForever ==
  /\ AcceptedHandle /\ info.Iteration < Iterations[cur]
  /\ info.State = "FINISHED"
  /\ info' = [info EXCEPT !.Iteration = @ + 1]
  /\ UNCHANGED <<pc, cur, isSkip, mem, diskVars, boundVars, histVars>>

(* The instance the resume found FINISHED is not run again.                *)
SkipFinished ==
  /\ AcceptedHandle /\ info.Iteration < Iterations[cur]
  /\ info.State = "FINISHED"
  /\ info' = [info EXCEPT !.State = "UNKNOWN", !.Iteration = @ + 1]
  /\ UNCHANGED <<pc, cur, isSkip, mem, diskVars, boundVars, histVars>>

RunInstance ==
  /\ AcceptedHandle /\ info.Iteration < Iterations[cur]
  /\ info.State # "FINISHED"
  /\ pc' = "open"
  /\ UNCHANGED <<memVars, diskVars, boundVars, histVars>>

-----------------------------------------------------------------------------
(* PreExecuteTestInstance                                                  *)

WriteKey(f) == keys' = [keys EXCEPT ![cur][KeyName] = f]

(* Mutant: OverwriteFile whatever the state.                               *)
AlwaysOverwrite ==
  /\ pc = "open"
  /\ pc' = "head"
  /\ WriteKey(KeyFile("EMPTY", {}, FALSE))
  /\ UNCHANGED <<memVars, ini, rec, verb, skipped, boundVars, histVars>>

(* StslBeginLogging opens the key file, over the old one unless the        *)
(* instance is recovered, ...                                              *)
OpenKeyFile ==
  /\ pc = "open"
  /\ IF info.State = "RUNNING" THEN pc' = "check" /\ UNCHANGED keys
                               ELSE pc' = "head" /\ WriteKey(KeyFile("EMPTY", {}, FALSE))
  /\ UNCHANGED <<memVars, ini, rec, verb, skipped, boundVars, histVars>>

(* ... and writes the HEAD line.                                           *)
WriteHead ==
  /\ pc = "head"
  /\ pc' = "check"
  /\ WriteKey(KeyFile("RUNNING", {}, FALSE))
  /\ UNCHANGED <<memVars, ini, rec, verb, skipped, boundVars, histVars>>

(* RecordAssertion appends a line to the key file.                         *)
RecordAssertion(guid) ==
  LET line == <<guid, recorded[cur] + 1>> IN
  /\ recorded' = [recorded EXCEPT ![cur] = @ + 1]
  /\ written' = [written EXCEPT ![cur] = @ \cup {<<KeyName, line>>}]
  /\ WriteKey([keys[cur][KeyName] EXCEPT !.asserts = @ \cup {line},
                                         !.hang = @ \/ guid = "hang"])

(* Mutants: BufferSize is not checked; the instance is not skipped.        *)
CheckRecordFile ==
  /\ pc = "check"
  /\ IF info.State # "UNKNOWN" /\ rec = "NONE"
     THEN isSkip' = TRUE /\ pc' = "term" /\ RecordAssertion("hang")
     ELSE isSkip' = FALSE /\ pc' = "entry" /\ UNCHANGED <<keys, recorded, written>>
  /\ UNCHANGED <<cur, info, mem, ini, rec, verb, skipped, boundVars,
                 spoiled, started, termed, cut, owner>>
NeverSkip ==
  /\ pc = "check"
  /\ isSkip' = FALSE /\ pc' = "entry"
  /\ UNCHANGED <<cur, info, mem, diskVars, boundVars, histVars>>

(* A resumed instance with no reset record is recorded as a system hang    *)
(* and not entered.                                                        *)
CheckRecord ==
  /\ pc = "check"
  /\ IF info.State # "UNKNOWN" /\ rec # "DATA"
     THEN isSkip' = TRUE /\ pc' = "term" /\ RecordAssertion("hang")
     ELSE isSkip' = FALSE /\ pc' = "entry" /\ UNCHANGED <<keys, recorded, written>>
  /\ UNCHANGED <<cur, info, mem, ini, rec, verb, skipped, boundVars,
                 spoiled, started, termed, cut, owner>>

-----------------------------------------------------------------------------
(* The test's EntryPoint.  What a test does with the libraries the         *)
(* framework gives it: it reads the reset record (and, in some tests,      *)
(* empties it), records assertions, writes a reset record and resets the   *)
(* machine, hangs, or returns.                                             *)

EntryPoint ==
  /\ pc = "entry"
  /\ pc' = "body"
  /\ rec' = IF rec = "DATA" /\ cur \in ClearsRecord THEN "EMPTY" ELSE rec
  /\ started' = IF rec = "DATA" THEN started
                ELSE [started EXCEPT ![cur] = @ \cup {Instance}]
  /\ UNCHANGED <<memVars, ini, keys, verb, skipped, boundVars,
                 recorded, written, spoiled, termed, cut, owner>>

TestAssertion ==
  /\ pc = "body"
  /\ Cardinality(keys[cur][KeyName].asserts) < MaxRec[cur]
  /\ \E g \in TestGuids[cur] : RecordAssertion(g)
  /\ UNCHANGED <<pc, memVars, ini, rec, verb, skipped, boundVars,
                 spoiled, started, termed, cut, owner>>

(* TrlWriteResetRecord deletes the file and creates it anew, empty, ...    *)
WriteResetRecord ==
  /\ pc = "body" /\ resets < MaxResets
  /\ resets' = resets + 1
  /\ rec' = "EMPTY"
  /\ pc' = "wrec"
  /\ UNCHANGED <<memVars, ini, keys, verb, skipped, runs, faults, histVars>>

(* ... then writes the record; the test resets the machine.                *)
ResetSystem ==
  /\ pc = "wrec"
  /\ rec' = "DATA"
  /\ owner' = <<cur, info.Handle, info.Iteration>>
  /\ pc' = "off"
  /\ UNCHANGED <<memVars, ini, keys, verb, skipped, boundVars,
                 recorded, written, spoiled, started, termed, cut>>

Hang ==
  /\ pc = "body" /\ cur \in MayHang
  /\ pc' = "hung"
  /\ UNCHANGED <<memVars, diskVars, boundVars, histVars>>

(* An instance is cut when the machine stops in the test and the file      *)
(* holds no reset record.                                                  *)
CutInstance ==
  cut' = IF pc \in {"body", "wrec", "hung"} /\ rec # "DATA"
         THEN [cut EXCEPT ![cur] = @ \cup {Instance}] ELSE cut

(* The watchdog PreExecuteTestInstance has set resets the machine.         *)
WatchdogReset ==
  /\ pc = "hung"
  /\ pc' = "off"
  /\ CutInstance
  /\ UNCHANGED <<memVars, diskVars, boundVars, recorded, written, spoiled, started,
                 termed, owner>>

Return ==
  /\ pc = "body"
  /\ pc' = "term"
  /\ UNCHANGED <<memVars, diskVars, boundVars, histVars>>

-----------------------------------------------------------------------------
(* PostExecuteTestInstance: TERM in the key file, then the recovery file   *)
(* is removed.                                                             *)

WriteTerm ==
  /\ pc = "term"
  /\ pc' = "rmrec"
  /\ WriteKey([keys[cur][KeyName] EXCEPT !.state = "FINISHED"])
  /\ termed' = [termed EXCEPT ![cur] = @ \cup {Instance}]
  /\ UNCHANGED <<memVars, ini, rec, verb, skipped, boundVars,
                 recorded, written, spoiled, started, cut, owner>>

(* Mutant: the recovery file stays.                                        *)
KeepRecovery ==
  /\ pc = "rmrec"
  /\ pc' = "after"
  /\ UNCHANGED <<memVars, diskVars, boundVars, histVars>>

PostRemoveRecovery ==
  /\ pc = "rmrec"
  /\ pc' = "after"
  /\ RemoveRecoveryFile
  /\ UNCHANGED <<memVars, ini, keys, verb, skipped, boundVars, histVars>>

(* A case with RESET_REQUIRED resets the machine after every instance.     *)
AfterInstance ==
  /\ pc = "after"
  /\ IF ~isSkip /\ cur \in ResetRequired
     THEN pc' = "off" /\ UNCHANGED info
     ELSE /\ pc' = "loop"
          /\ info' = [info EXCEPT !.State = "UNKNOWN", !.Iteration = @ + 1]
  /\ UNCHANGED <<cur, isSkip, mem, diskVars, boundVars, histVars>>

(* ExecuteTestCase sums up the key files it has read; ExecuteMainFunc      *)
(* looks for the next case.                                                *)
TallyOf(P) ==
  StartNext([mem EXCEPT ![cur] = Result("DONE", GetInterfaceAssertion(cur, P))], "final")

Tally ==
  /\ pc = "tally"
  /\ TallyOf(ProbedKeys(cur))
  /\ UNCHANGED <<isSkip, diskVars, boundVars, histVars>>

(* The last save of ExecuteStart, and FUNC_EXIT.                           *)
Finish ==
  /\ pc = "final"
  /\ pc' = "shell"
  /\ verb' = FALSE
  /\ UNCHANGED mem
  /\ SaveTestCases
  /\ UNCHANGED <<cur, info, isSkip, keys, rec, skipped, boundVars, histVars>>

-----------------------------------------------------------------------------
(* Faults                                                                  *)

Crash ==
  /\ pc \in CrashAt /\ faults < MaxFaults
  /\ faults' = faults + 1
  /\ pc' = "off"
  /\ CutInstance
  /\ UNCHANGED <<memVars, diskVars, runs, resets, recorded, written, spoiled,
                 started, termed, owner>>

(* EfiIniFlush deletes TestCase.ini, creates it and writes the cases one   *)
(* by one: a crash leaves the first k of them.                             *)
CrashInFlush ==
  /\ "flush" \in CrashAt /\ faults < MaxFaults
  /\ pc \in {"mark", "final"}
  /\ faults' = faults + 1
  /\ pc' = "off"
  /\ \E k \in 0..NumCases :
       /\ ini' = [c \in Cases |-> IF c > k THEN ABSENT
                                  ELSE IF pc = "mark" /\ c = cur THEN RUNNING
                                  ELSE mem[c]]
       /\ IF pc = "mark" /\ cur <= k THEN StartHistory
          ELSE UNCHANGED <<recorded, written, spoiled, started, termed, cut>>
  /\ UNCHANGED <<memVars, keys, rec, verb, skipped, runs, resets, owner>>

(* HandleProtocol, OpenProtocol, the save of SkippedCase.ini, the opening  *)
(* of a log file or GetKeyFileMetaName fails: every caller returns the     *)
(* error, up to FUNC_EXIT.                                                 *)
ExecuteError ==
  /\ pc \in {"locate", "loop", "open", "tally"} /\ faults < MaxFaults
  /\ faults' = faults + 1
  /\ pc' = "shell"
  /\ verb' = FALSE
  /\ UNCHANGED <<memVars, ini, keys, rec, skipped, runs, resets, histVars>>

Spoil(error) == spoiled' = [spoiled EXCEPT ![cur] = @ \cup {error}]

(* LocateHandleBuffer fails, and not because there is no handle, or        *)
(* RecordSkippedCases does: ExecuteBbTestCase returns EFI_SUCCESS.         *)
LocateFails ==
  /\ pc = "locate" /\ cur \in ProtocolTests /\ faults < MaxFaults
  /\ faults' = faults + 1
  /\ pc' = "tally"
  /\ Spoil("handles")
  /\ UNCHANGED <<memVars, diskVars, runs, resets,
                 recorded, written, started, termed, cut, owner>>

(* A key file cannot be read: GetInterfaceAssertion returns the error,     *)
(* ExecuteTestCase drops it and keeps the counters of the files before.    *)
TallyFails ==
  /\ pc = "tally" /\ faults < MaxFaults
  /\ faults' = faults + 1
  /\ \E q \in ProbedKeys(cur) : TallyOf({p \in ProbedKeys(cur) : Precedes(p, q)})
  /\ Spoil("tally")
  /\ UNCHANGED <<isSkip, diskVars, runs, resets,
                 recorded, written, started, termed, cut, owner>>

Boot ==
  /\ pc = "off"
  /\ pc' = "shell"
  /\ UNCHANGED <<memVars, diskVars, boundVars, histVars>>

-----------------------------------------------------------------------------
Framework ==
  \/ MarkRunning \/ CleanRecord \/ RemoveMetaFiles
  \/ LocateHandles \/ SkipCase \/ HandlesDone \/ FilterHandle \/ NextHandle
  \/ SkipFinished \/ RunInstance \/ OpenKeyFile \/ WriteHead \/ CheckRecord
  \/ WriteTerm \/ PostRemoveRecovery \/ AfterInstance \/ Tally \/ Finish

Test == EntryPoint \/ TestAssertion \/ WriteResetRecord \/ ResetSystem
        \/ Hang \/ Return

Faults == Crash \/ CrashInFlush \/ ExecuteError \/ LocateFails \/ TallyFails

Next == \/ SctExecute \/ SctContinueExecute
        \/ Framework \/ Test \/ WatchdogReset \/ Boot
        \/ Faults

(* The program is the only one that runs, so it keeps going; the machine   *)
(* boots again, and the startup script (or, after an error, the operator)  *)
(* runs Sct -c.  A test that has not hung returns or resets.               *)
Fairness == /\ WF_vars(Framework \/ Test)
            /\ WF_vars(WatchdogReset)
            /\ WF_vars(Boot)
            /\ WF_vars(SctContinueExecute)

Spec == Init /\ [][Next]_vars
FairSpec == Spec /\ Fairness

-----------------------------------------------------------------------------
(* Properties                                                              *)

Results(c) == [st : {"INVALID", "RUNNING", "ABSENT", "DONE"},
               asserts : SUBSET (Inst(c) \X Lines)]
KeyFiles == [state : {"NONE", "EMPTY", "RUNNING", "FINISHED"},
             asserts : SUBSET Lines, hang : BOOLEAN]

ExecuteInfo == [State : {"UNKNOWN", "EMPTY", "RUNNING", "FINISHED"},
                Index : Nat, Iteration : Nat, Handle : Nat]

ControlType ==
  /\ pc \in Places
  /\ cur \in Cases \cup {0}
  /\ pc \notin {"shell", "off"} => cur \in Cases
  /\ info \in ExecuteInfo
  /\ isSkip \in BOOLEAN

ResultType(m) == DOMAIN m = Cases /\ \A c \in Cases : m[c] \in Results(c)

KeyType == DOMAIN keys = Cases /\ \A c \in Cases : keys[c] \in [Inst(c) -> KeyFiles]

FileType ==
  /\ rec \in {"NONE", "EMPTY", "DATA"}
  /\ verb \in BOOLEAN
  /\ skipped \subseteq Cases

BoundType == runs \in 0..MaxRuns /\ resets \in 0..MaxResets /\ faults \in 0..MaxFaults

HistoryType ==
  /\ recorded \in [Cases -> Nat]
  /\ written \in [Cases -> SUBSET ((Nat \X Nat) \X Lines)]
  /\ spoiled \in [Cases -> SUBSET {"handles", "tally"}]
  /\ started \in [Cases -> SUBSET (Nat \X Nat)]
  /\ termed \in [Cases -> SUBSET (Nat \X Nat)]
  /\ cut \in [Cases -> SUBSET (Nat \X Nat)]
  /\ owner \in Nat \X Nat \X Nat

(* Types of the executor's memory, its files and the history.              *)
TypeOK == /\ ControlType /\ ResultType(mem) /\ ResultType(ini) /\ KeyType
          /\ FileType /\ BoundType /\ HistoryType

(* While an instance is run, its handle and iteration exist, and the       *)
(* number in the name of its key file is at most the handle's.             *)
InInstance == pc \in {"open", "head", "check", "entry", "body", "wrec", "hung",
                      "term", "rmrec", "after"}
PositionOK ==
  /\ info.Index <= info.Handle
  /\ InInstance => info.Handle < NoHandles[cur] /\ info.Iteration < Iterations[cur]

Before(c) == {d \in Cases : Selected(d) /\ Order[d] < Order[c]}

(* TestCase.ini never holds two running cases (GetRunningTestCase would    *)
(* resume one and lose the other), and a running case on disk means every  *)
(* selected case before it has its results: wherever the machine stops,    *)
(* Sct -c goes on in the order of the run.                                 *)
ResumeInOrder ==
  \A c \in Cases : ini[c].st = "RUNNING" /\ Selected(c) =>
    /\ \A d \in Cases : ini[d].st = "RUNNING" /\ Selected(d) => d = c
    /\ \A d \in Before(c) : ini[d].st \in {"DONE", "ABSENT"}

(* The same of the list in memory, which the next save will write: only    *)
(* the current case runs, and all before it are done.                      *)
MemoryInOrder ==
  pc \notin {"shell", "off"} =>
    /\ Selected(cur)
    /\ \A d \in Before(cur) : mem[d].st \in {"DONE", "ABSENT"}
    /\ \A d \in Cases : Selected(d) /\ mem[d].st = "RUNNING" => d = cur /\ pc # "final"

(* Two entries, each a key file's name and a line, are of the same check   *)
(* of the same instance.                                                   *)
SameCheck(x, y) == x[1] = y[1] /\ x[2][1] = y[2][1]

(* The counters of a saved result have, for every instance, one entry for  *)
(* each check the instance recorded since the case was started (the lines  *)
(* of one GUID together, generic failures not at all) and one for every    *)
(* SYSTEM_HANG, whatever resets, hangs and crashes there were, and nothing *)
(* else: recovery neither overwrites a key file with assertions in it nor  *)
(* reads one of an earlier run.  Only where the tally could not read a     *)
(* file, an error ExecuteTestCase drops, may entries be missing.           *)
NothingForeign(w, as) ==
  \A x \in as : x[2][1] # "generic" /\ \E y \in w : SameCheck(x, y)
CountedOnce(as) ==
  \A x, y \in as : SameCheck(x, y) /\ x[2][1] # "hang" => x = y
NothingLost(w, as) ==
  \A y \in w : /\ y[2][1] # "generic" => \E x \in as : SameCheck(x, y)
               /\ y[2][1] = "hang" => y \in as
ResultsExact ==
  \A c \in Cases : ini[c].st = "DONE" =>
    /\ NothingForeign(written[c], ini[c].asserts)
    /\ CountedOnce(ini[c].asserts)
    /\ "tally" \in spoiled[c] \/ NothingLost(written[c], ini[c].asserts)

(* A case with a result has been through every instance to be tested: for  *)
(* each handle the filter accepts and each iteration, the log was ended.   *)
(* Only a case whose handles could not be located is left out.             *)
AllInstancesTested ==
  \A c \in Cases : ini[c].st = "DONE" /\ "handles" \notin spoiled[c] =>
    \A p \in Inst(c) : p[1] \notin Filtered[c] => p \in termed[c]

(* A test that was stopped with no reset record is reported: the key file  *)
(* of the instance holds the SYSTEM_HANG failure once the case is done,    *)
(* unless its handles could not be located when it was resumed.            *)
HangReported ==
  \A c \in Cases : ini[c].st = "DONE" /\ "handles" \notin spoiled[c] =>
    \A p \in cut[c] : p \in Inst(c) /\ keys[c][p].hang

(* A test that finds a reset record when it is entered wrote it itself,    *)
(* for this handle and this iteration.                                     *)
RecordOwned ==
  pc = "entry" /\ rec = "DATA" => owner = <<cur, info.Handle, info.Iteration>>

(* A test is never entered afresh twice for one instance of a run: an      *)
(* instance that hung is skipped, one that finished is not repeated.       *)
FreshOnce == pc = "entry" /\ rec # "DATA" => Instance \notin started[cur]

(* An assertion in a key file stays there until the next run of the case   *)
(* removes the file: no recovery opens a log over its own assertions.      *)
LogsOnlyGrow ==
  [][pc # "purge" => \A c \in Cases : \A p \in Inst(c) :
       keys[c][p].asserts \subseteq keys'[c][p].asserts]_vars

AllDone == \A c \in Cases : Selected(c) => ini[c].st = "DONE"

(* A started run ends: after finitely many faults every selected case has  *)
(* its result on disk.                                                     *)
RunCompletes == pc = "mark" ~> AllDone
=============================================================================
