# A TLA+ model of the UEFI Self Certification Test (SCT)

The SCT runs conformance tests on a UEFI machine. It has to survive what the
tests do to that machine: they reset it, hang it, and pull the network from
under it. The modules here model the parts of the harness that make a test run
come out right all the same: the executor and its recovery, the files both
depend on, and, for the network tests, what the EMS and the machine under test
say to one another: the transfer of files, the remote calls that drive the
agent, and the EMS's queue of test cases. Each definition is translated from the
code; `PROJECT.json` has the lines.

## The system

| Component | Code (below `src/`) | State | Operations |
|---|---|---|---|
| Test executor | `SctPkg/TestInfrastructure/SCT/Framework/Execute` | `ExecuteInfo` (case, Index, Iteration, State) | `SctExecute`, `SctContinueExecute`, `ExecuteMainFunc`, `ExecuteBbTestCase`, pre/post of an instance |
| Test case list | `Framework/Data` | `TestCaseList` in memory, `TestCase.ini`, `SkippedCase.ini` | load, save, reset, get running / next case |
| Report and key files | `Framework/Report`, names in `ExecuteSupport.c` | key files below `Log/<Category><id>` | scan, tally, remove |
| Standard test library | `Drivers/StandardTest` | open log files | begin / end logging, record assertion |
| Test recovery library | `Drivers/TestRecovery` | the reset record | read, write |
| Test profile library | `Drivers/TestProfile` | ini files | open, get, set, flush |
| Test logging library | `Drivers/TestLogging` | text logs | nothing reads them back |
| Loading, operations, UI, configuration | `Framework/Load`, `Operation`, `UI`, `DeviceConfig` | images, menus | sequential |
| Startup script | `SctPkg/Config/Script/SctStartup.nsh` | - | runs `Sct -c` after each boot |
| EFTP client on the agent | `Framework/ENTS/Eftp` | `EFTP_IO_PRIVATE` | read and write a file of the EMS |
| Monitor and command loop on the agent | `Framework/ENTS/MonitorServices`, `EasDispatcher`, `EasLib` | sequence numbers, receive and send buffer, resend timer, record file | listen, dispatch a command, answer, clean up, resume after a reset |
| EMS EFTP server | `EMS/Src/EmsEftp` | sessions, packet lists, events | serve the agents' reads and writes |
| EMS RPC | `EMS/Src/EmsRpc` | send packet, sequence numbers, state, message queue | send a command, resend it, receive its answer, probe, clean up |
| EMS test case manager | `EMS/Src/EmsTest`, `EmsTcl/EmsTclInit.c`, `EMS/Bin/Script` | case, continue and trash list; running and stop flag, event | start, post, stop, continue, evaluate |
| EMS threads, timers, virtual TCP, packets, RIVL types, logs | rest of `EMS/Src` | thread and timer lists, a TCP for the tests | bookkeeping, formatting |
| Test cases | `SctPkg/TestCase`, `EMS/Bin/TestCase` | own | call the libraries above |

How they interact. The executor is sequential. It calls the data module to
choose a case, the standard test library to open the key file of an instance,
the recovery library to see whether the instance comes back from a reset, and
then the test, which calls the same two libraries. Nothing of the executor's
memory survives a reset: the startup script runs `Sct -c`, and all it has are
`TestCase.ini`, the key files and the reset record, written one after the other
at different moments. The network tests are driven by a second machine, the EMS.
Its user chooses cases, the GUI thread posts them, and a run thread evaluates one
script after the other. A script calls commands of the agent over raw Ethernet;
one of them runs the executor, which may reset the machine before it has
answered. Files go through EFTP.

What is hard. For the executor: a stop between any two writes, the agreement of
three files about one position, a record that outlives its purpose, a watchdog
and a test that resets on purpose. For the EMS: threads that share lists, numbers
and a send packet, locks taken too late or of the wrong list, events that remember
one signal only, packets lost and repeated, retries that cross late answers,
numbers that start again on one side before the other, and an agent that hears
nothing while a packet waits to be fetched.

What makes each right:

- executor: every accepted instance is run to its end, once; every check of an
  instance is counted once; a hang is reported; the run ends;
- test case list: at most one case is running on disk, and all before it are done;
- key files: the scans find the files that were written and no others;
- recovery library: a record is seen by the instance that wrote it only;
- EFTP: a transfer that reports success delivered the file; sessions end;
- RPC: a command is executed once, in order, before its call returns with its own
  answer; a call returns; a clean up happens;
- test case manager: no case is lost, repeated or run out of order; a stop, once
  its flag is set, ends a run after its current case; a run ends.

## Modules

`Executor.tla` is the core. Its variables are the executor's memory (`pc`,
`cur`, `info`, `isSkip`, `mem`), the files (`ini`, `keys`, `rec`, `verb`,
`skipped`), bounds, and history variables the program never reads. `pc` is a
place in the program; an action is what happens between two writes to disk, so
that `Crash` can stop the machine between any two of them.

| Code | Actions |
|---|---|
| `SctExecute`, `SctContinueExecute`, `ContinueExecuteStart` | the same names |
| `ResetExecuteTestResults` | `MarkRunning`, `CleanRecord`, `RemoveMetaFiles` (file by file) |
| `ExecuteBbTestCase` and its Wb and Ap siblings | `LocateHandles`, `SkipCase`, `HandlesDone`, `FilterHandle`, `NextHandle`, `SkipFinished`, `RunInstance` |
| `PreExecuteTestInstance` | `OpenKeyFile`, `WriteHead`, `CheckRecord` |
| the test | `EntryPoint`, `TestAssertion`, `WriteResetRecord`, `ResetSystem`, `Hang`, `Return` |
| watchdog, reset vector, startup script | `WatchdogReset`, `Boot` |
| `PostExecuteTestInstance`, end of `ExecuteBbTestInstance` | `WriteTerm`, `PostRemoveRecovery`, `AfterInstance` |
| `ExecuteTestCase`, `ExecuteMainFunc`, `ExecuteStart` | `Tally`, `Finish` |
| failures | `Crash`, `CrashInFlush` (inside `EfiIniFlush`), `ExecuteError`, `LocateFails`, `TallyFails` |

What is abstracted: the counters of a case are the set of entries they
count, each with the key file it was read from, so that "counted twice" and
"from the wrong file" can be told apart from "right". An assertion is a line with
its GUID. The tally loads a key file "without duplicate" (`LoadGuidAssertion`):
lines of one GUID become one entry, generic failures none, and every SYSTEM_HANG
one of its own. Which of pass, warning and failure the entry counts as (the worst
of its lines) is left out, and so are texts, times and the log files nobody reads.
The categories of tests differ by the number of handles (one for services) and by
the filter; a test's category is taken to be in the database (`KeyFiles` has the
others).

Errors come in two kinds. Most unwind to `FUNC_EXIT` and leave the case RUNNING on
disk (`ExecuteError`). Two are dropped, and the case counts as done: an error of
`LocateHandleBuffer` other than "no handle" leaves the loop over the handles out
(`LocateFails`, `Execute.c:1142`), and an error of the tally leaves the counters at what
was read so far (`TallyFails`, `Execute.c:835`). The history variable `spoiled` remembers
them until the case is resumed or started again, and the properties say what still
holds of such a result. One effect is left out: when memory runs out in the middle
of a file, the entries loaded before stay in the table and are counted with the
next file. The list of handles is the same after each boot. What a test may do is modelled from the
libraries it is given and from how the tests in the tree use them: the variable
services test empties its record when it recovers (`ClearsRecord`), the
miscellaneous runtime services test does not.

`KeyFiles.tla` opens up what `Executor` takes for granted: that the scans find
the key files. It has the loops of `GetInstanceAssertion` and
`GetInterfaceAssertion` probe by probe, with the directory ids computed by the
writer, the path the readers patch, and the removal before the next execution.
A category that is not in the category database has one directory, named by its
GUID (`ExecuteSupport.c:310`), and the readers patch the last character of that name too
(`Report.c:146`, `:328`): `category` is that character, or `Known`.

`MCExecutor.tla` has the instances. `ExecutorProofs.tla`, `RecoveryProofs.tla` and
`KeyFilesProofs.tla` have the theorems.

`EftpRead.tla` composes three modules into a read of a file from the EMS:

| Module | Code | State and actions |
|---|---|---|
| `EftpLink` | the Ethernet (external) | one queue of packets each way; `Lose`, `Duplicate`, `Overtake`, and `Refuse` when an interface fails to send or receive |
| `EftpClient` | `ENTS/Eftp/EftpRRQ.c`, `EftpMain.c`, `EftpPacket.c` | `clt` is `EFTP_IO_PRIVATE`; `ReadFile`, one action per case of the receive callback and of the timer in the roles INIT and ACTIVE, `CleanUp` |
| `EftpServer` | `EMS/Src/EmsEftp` | the receiving thread (`Register`, `PutRequest`, `Dispatch`) and the session thread (`HandlePkt` with the read strategy, the two waits, `Closing`, `Unregister`), which share the packet list and the event |

The callbacks of the agent run at one priority, so each is atomic; the threads
of the EMS interleave at every lock and every wait. `SendData` waits in the middle
of the strategy's handler and only then is `NextBlkNo` advanced: `after` keeps
what is still to be assigned. Time is not modelled: a timer may fire at any
moment. A block is its file and number; sizes, checksums and malformed packets are
left out. A read of the file may fail (`ReadFails`): the strategy answers that like
the end of the file ("Error or Eof then send OACK", `EmsEftpRrqStrategy.c:246`), and
`misread` counts such reads, over all sessions. A read that fails after part of a block
is left out.

`FileTransfer.tla` is what the caller of `EftpReadFile` may rely on: the blocks of
the file asked for, in order, each once, and success only when all are there or the
other side could not read the file. `EftpRead` implements it with `file <- req,
received <- buf, result <- status, readable <- (misread = 0)`.

`Rpc.tla` composes three modules into remote calls:

| Module | Code | State and actions |
|---|---|---|
| `RpcLink` | the Ethernet (external) | a queue of frames each way; `Lose`, `Repeat`; the set `Upsets` of what may go wrong and the bound on how often |
| `RpcEms` | `EmsRpc/EmsRpcEth.c`, `EmsRpcMain.c`, `EmsRpcMsgQueue.c` | the script (`RpcSendMessage`, `CountSendSeq`, `SendRivlMessage`, `MarkSending`, `RpcRecvMessage`, clean up and probe), the timer (`ResendTimeHandler`) and the listener (one action per kind of frame, then `ProcessFin`, `RecycleSendPacket`, `Settle`) |
| `RpcAgent` | `ManagedNetworkMonitor.c`, the loop and the dispatcher | the callback (`Notify...`, one action per kind of frame), the timer (`ReSendTimer`), the loop (`Listen`, `Dispatch...`, `Sender`, `NumberAnswer`, `SendAnswer`, `SetResendTimer`, `SenderEnd`), `SaveContext`, `Reset`, `ContinuePassive`, `RestoreContext`, and what goes wrong in it (`Exhausted`, `PostDispatchFails`, `RestoreZero`) |

An action of the EMS is what a thread does between two places where another one
can come in, so `LastSendSeq` is counted in one step and the mutex taken in
another, and an answer is queued before the send packet is recycled. The agent's
callback and timer come between any two steps of the loop. A command is its DataId
and its kind (plain, executing a test, aborting the agent); an answer carries the
command whose execution it reports, so an answer to the wrong call can be told
from a right one. Messages fit one frame.

The upsets are a lost or repeated frame, an answer the EMS has no memory for, a
script that does not wait, a clean up, a reset, and three failures of the agent: a
command that returns EFI_OUT_OF_RESOURCES ends the agent without an answer ("exhaust",
`Eas.c:292`), an answer that cannot be put together is not sent ("mute"), and a record
file that cannot be read sets the number of the answer, its DataId or both to 0
("record", `ManagedNetworkMonitor.c:694`, `:710`). An answer with DataId 0 fits every call
(`EmsRpcMain.c:924`). Left out: an address of the EMS lost with the record, errors of
`SaveContext`, and a resend timer that cannot be set.

Two constants say what is assumed of time. `Patient`: a frame and its answer take
less than any timeout, so a timer fires only when nothing is on the way. `Prompt`:
a thread that can go on does so within the shortest sleep of the code, the 5 ms
before a command is sent. Neither is a fact about the code, so each run says which
it takes.

`RemoteCall.tla` is what a script may rely on: calls are executed in order, each
once, and a call returns after its execution with its own result. `Rpc` implements
it with `calls <- lastDataId` and the answers as `returned`.

`TestQueue.tla` is the test case manager: the GUI thread (`CmdTestStart`,
`TestCaseScriptEval`, `TestCaseAllPost`, `CmdTestContinue`, `CmdTestStop` with its
question, `SetResultEnd`) and the run thread (`TestWaitBegin` to `TestEnd`), with the
three lists and flags they share. The mutex of the case list is held while the run
thread is at `loop`. `GuiMainEventLoop` handles what other threads tell the GUI only
between two events of the user interface; the states `loop` and `blocked` of the GUI
keep that apart. `Choice` brings up the box that says the test will stop, and
`EmsRemoteValidationTestStop` sets the flag when the box is closed. A case is the number of its start and its place in it.

## Runs

| Run | Result | Shows |
|---|---|---|
| `Executor_recovery` | pass | four cases, two executions, hang, reset and one fault, a crash inside an instance or an error, dropped ones included: `ResultsExact`, `AllInstancesTested`, `HangReported`, `RecordOwned`, `FreshOnce`, `LogsOnlyGrow` |
| `Executor_anycrash` | pass | two crashes anywhere, the flush of `TestCase.ini` included: `TypeOK`, `PositionOK`, `MemoryInOrder`, `ResumeInOrder` |
| `Executor_liveness` | pass | `RunCompletes` under fairness and `AllInstancesTested`, with the middle one of three handles refused by the filter |
| `Executor_stale` | violation | stop while old key files are removed: old assertions are counted |
| `KeyFiles_scan` | pass | `FindsMaximum`, `TallyExact`: the scans over several directories and two executions, for known and unknown categories |
| `KeyFiles_read` | violation | the file found is read from the wrong directory |
| `EftpRead_once` | pass | `OackIsEarned` and `TransferSpec` for one read, with a loss or duplicate, a refusal, an overtaking and a failing read of the file |
| `EftpRead_ends` | pass | `TransferEnds` and `ClosingEnds`: a long and a short file, a packet lost, duplicated or overtaken; each read returns unless a late acknowledgement has moved the session on, and every session that shuts down, from CLOSING too, is unregistered |
| `Rpc_calls` | pass | `SenderCanHear`, `ExecutedInOrder`, `CallSpec`: two calls, two upsets out of loss, repetition, lack of memory and a clean up, timers that fire at any time |
| `Rpc_returns` | pass | `CallSpec`, `CallReturns`, `CleanupHappens` under fairness: three calls, a probe and one upset, a reset and a command without resources among them |
| `Rpc_any` | pass | `TypeOK`, `AnswersOnce`: threads held up anywhere and two upsets of every kind, scripts that do not wait and an aborted agent included |
| `TestQueue_run` | pass | `CaseListApart`, `EachCaseOnce`, `PostedOrder`, `InterruptedKept`, `StopsAfterCurrent`, `RunEnds`: two starts, continues, stops and failing cases |

The passing runs of the executor allow crashes everywhere except where the
violation above already shows what goes wrong (in `ResetExecuteTestResults`) and
between TERM and the removal of the record. `Executor_anycrash` allows these too,
because the order of the recovery holds there all the same. The three runs of `Rpc`
split in the same way: what holds whatever happens (`Rpc_any`), what holds as long as
scripts wait and the 5 ms are enough (`Rpc_calls`), and what also needs patience and
at most one upset (`Rpc_returns`).

### What the models show without a run of its own

No document of the repository promises otherwise in these cases, so they are
behaviours of the code to know, not findings. The constants to see them are given.

Executor and key files:

- `EfiIniFlush` deletes `TestCase.ini` before it writes it (`TestProfile.c:1298`).
  A stop in between loses the cases not yet written; `ResumeInOrder` says that what
  is left is still resumed in order.
- When the first handle is refused by the filter, a hung instance is entered again:
  Index and handle have parted, and the recovery takes one for the other. `FreshOnce`
  fails with one case of three handles, `Filtered = <<{0}>>`, `MayHang = {1}`.
- For a category that is not in the database the scans find the first key file only
  when its GUID ends in 0, and then only the files whose id is 0: otherwise a resume
  starts the case from the beginning and its results are empty. `FindsMaximum` and
  `TallyExact` say of such categories only that no other execution's files are found.
- A key file that cannot be read at the tally, or handles that cannot be located, leave
  a case done with a part of its results (`spoiled`). Nothing in `TestCase.ini` tells.
- A stop between TERM and the removal of the reset record leaves the record to the next
  instance: `RecordOwned` fails with `"rmrec"` in `CrashAt`.
- A test that hangs after its reset and leaves its record in place is entered for ever:
  `RunCompletes` fails with `ClearsRecord = {}`, `MayHang = {1}` under `FairSpec`.
- `Sct -c` with nothing left to run returns at `Execute.c:416` and leaves
  `.verbose.mode` behind.
- Directories with an id above 5 are not scanned (`Report.c:345`), and key files
  of a larger earlier execution survive in directories other than the first, since
  the removal computes that of Index 0 and Iteration 0 only (`Reset.c:417`). The
  properties of `KeyFiles` are therefore stated for ids up to 5 and for clean other
  directories (`OthersClean`).

EFTP:

- The agent's read can go on for ever. When a write of the EMS fails
  (`EmsEftpSession.c:942`), or an old acknowledgement moves the session on
  (`EmsEftpRrqStrategy.c:198`), it answers each repeated acknowledgement with an
  older block; the agent ignores the block but resets its retries
  (`EftpRRQ.c:407`), and repeats its acknowledgement before the EMS gives up (3 s
  against two times 2 s). `TransferEnds` excepts the behaviours that end so by an old
  acknowledgement (`Overrun`) and is checked without refusals.
- A read error in the middle of a file ends the transfer with success and a part of
  the file. The source's comment says so, so it is no finding; `OackIsEarned` and
  `FileTransfer` except exactly these transfers.
- The packet list's event is signalled while no thread waits for it
  (`EmsEftpSession.c:457`), so that a later wait for an acknowledgement returns at
  once. A lost first block is then never resent: the session thread waits without a
  timeout and the agent's requests are refused while the session exists. An absent
  file has the same effect (`EmsEftpSession.c:1242`).
- An empty file cannot be read: the EMS shuts the session down without an answer.
- Packets do not name their transfer. With two reads, an OACK or a block delayed
  beyond the end of the first read is taken for one of the second, so
  `TransferSpec` is checked for one read.

Remote calls:

- The agent goes deaf. A packet that arrives while a command is being executed is
  not fetched until the answer is acknowledged, and the callback drops everything
  while a packet waits, the acknowledgement included (`ManagedNetworkMonitor.c:1194`).
  `SenderCanHear` and `CleanupHappens` fail with `Upsets = {"abandon", "cleanup"}`,
  `MaxUpsets = 2`: a script that did not wait for its answer, then a clean up.
- An answer can be lost for good. A command repeated by the EMS's timer ends the wait
  of the agent's sender unacknowledged (`:1332`). `CallReturns` fails with
  `Upsets = {"lose"}`, `MaxUpsets = 2`, `MaxLink = 3`; so it does with a clean up and a
  lost frame, or a reset and a lost frame, since the numbers of the two sides start
  again at different moments.
- An agent that has ended ("exhaust", an aborting command) answers no call, and the
  script waits without a timeout: `CallReturns` excepts it. With "mute" or "record" a call
  may wait for ever as well, or take another's answer (DataId 0): they are in `Rpc_any`
  only.
- Two clean ups close together: the flag of the second is cleared with the first, and
  its packet is dispatched as a command (`MaxCleanups = 2`).
- With `Prompt = FALSE` `CallSpec`, `ExecutedInOrder` and `CallReturns` fail: `LastSendSeq`
  is counted before the mutex is taken (`EmsRpcEth.c:792`), and an answer is queued
  before the send packet is recycled (`:1321`). Only the 5 ms sleep keeps them apart.

Test case manager:

- The box of `CmdTestStop` says "The Test will stop after current test case fininsh"
  (`TestCase.tcl:173`), but the flag is set only when the user has closed it (`:174`): further
  cases begin while it is open. `StopsAsTold` states the message and fails, within some
  hundred states, when it takes the place of the properties of `TestQueue_run`.
  `StopsAfterCurrent` is what holds: it counts from the setting of the flag.
- The GUI is told late of a failed case, since nothing wakes its loop
  (`EmsTclInit.c:195`): told after the user has started or continued, it stops the new
  run. The cases are kept for Continue, so no property is violated.
- A case that fails while others are still being posted stops the run again after
  each of the later ones, and what the stop before had kept goes to the trash:
  `InterruptedKept` excepts starts with such a failure (`hurt`).
- Each posted case takes an entry out of the trash list and forgets it
  (`EmsTest.c:509`).

### Bounds

Two cases whose order is the reverse of their place in the list are
enough to tell order from position; two handles and two iterations to have a
first, a next and a last of each; one assertion per instance, in one case two of the same
check and in another a generic failure, and a running number to see a loss or a
repetition; one reset, one hang and one or two faults, since
what one recovery leaves behind is what the next starts from. Two executions
let files of the first meet the second. `KeyFiles` uses three files per directory
in place of the code's hundred, so that several directories appear with few
instances. `EftpRead` has two packets on the way in each direction, two in the
EMS's list, one retry of the agent and one or two timeouts of the EMS: enough for a
resent packet to cross a late answer, for a list at its limit and for both sides to
give up. Files have up to three blocks, one more than the agent's buffer takes in
`EftpRead_once`; in `EftpRead_ends` three blocks and then one, so that an acknowledgement
of the first file is out of range for the second and closes its session, with one
upset of the link in all (`OneUpset`), in this order of the files (`LongThenShort`).
`Rpc` has two or three calls, so that what a call leaves behind (a copy in the link,
an answer in the queue, a command in the send packet) meets the next one; two or three
frames each way; two or three tries of a clean up, so that the last try is one of
them; one clean up, because two are known to go wrong (above). `TestQueue` has two
starts of up to three cases: the current one, one a stop keeps, and one a second
stop keeps; two continues, stops and errors, so that each can follow the other.

### Fairness

`Framework \/ Test`: the program is the only one on the machine, and a
test that does not hang goes on (a hang is the action `Hang`). `WatchdogReset`:
the timer is set before every test. `Boot` and `SctContinueExecute`: the startup
script; after an error exit it is the operator who runs `Sct -c` again. In `EftpRead`
the agent's receive callback and its periodic timer, and the two threads of the
EMS, are each weakly fair: `EftpReadFile` polls until the read is over, and the EMS
threads are never suspended. A read is never forced to start and the link is never
forced to lose or to deliver out of order. In `Rpc` the script is fair only once it has
begun something, the timers and the listener of the EMS run as long as it does, and
the agent's loop polls the network in both its waits, which gives the callback and
its timer their turn; nothing has to be sent, lost or reset. In `TestQueue` the run
thread is weakly fair, and a case ends. The GUI thread needs the mutex the run thread
takes again and again (it sleeps with it); its steps after a command are strongly
fair, because a Windows mutex is handed to the thread that has waited for it. The
user is not fair: nothing forces a start, a stop or any event of the user interface.

## Proofs

`ExecutorProofs.tla` proves, for every list of cases, every number of handles and
iterations, every filter, and every set of places the machine may stop at:

- `TypeCorrect`: `Spec => []TypeOK`;
- `RecoveryInOrder`: `Spec => []ResumeInOrder`;
- `PlanInOrder`: `Spec => []MemoryInOrder`;
- `PositionInRange`: `Spec => []PositionOK`.

The only assumption is `ExecutorAssumption`, of which the part that matters is
that two selected cases never share an order. The inductive invariant `IndInv` is
`TypeOK /\ PositionOK /\ ResumeInOrder /\ MemoryInOrder`. `ResumeInOrder` is about
the file, and the file is a copy of the list in memory, whole or cut: so its proof
needs `MemoryInOrder`. That in turn needs `ResumeInOrder`, because a resume copies
the file back. The type of the key files needs `PositionOK`: a key file is written
under `<<Index, Iteration>>`, which is a name of the case only because Index never
runs ahead of the handle. The proof has a frame lemma per group of variables, which
says what few actions change it, and a lemma per part of the invariant with a step
for each of these actions.

`RecoveryProofs.tla` proves what the recovery is for, again for every list of cases
and any number of handles, iterations, runs, resets and faults:

- `NoAssertionLost`: `Spec => []ResultsExact`;
- `NoInstanceLost`: `Spec => []AllInstancesTested`;
- `NoHangLost`: `Spec => []HangReported`;
- `RecordFound`: `Spec => []RecordOwned`;
- `EnteredOnce`: `Spec => []FreshOnce`;
- `NoLogOverwritten`: `Spec => LogsOnlyGrow`, an action property.

They assume `Recoverable`, a condition on the constants: the machine does not stop at
`clean` or `purge` (old key files would be taken for new ones, the finding of
`Executor_stale`), at `rmrec` (the next instance would find the record of the last), nor
inside a save; and the filter refuses no handle (Index and handle would part after a
resume). Each part is needed: without it TLC finds one of the properties violated. A
stop anywhere else, errors, hangs, and resets in any order remain.

None of the six is inductive. `RecInv` ties the place in the program to the files.
`PlaceInv`: every log before the current instance has ended and none after it exists;
what is in the current log follows from `pc` and, before it is opened, from the state
the resume found. `Logged`: the logs of the case that TestCase.ini has RUNNING are ended
in the order of the run, every entered test has a log, every stopped test is
reported or has an open log with no record beside it, and the logs hold what was recorded
(the history `written`), each line in its own. `OwnerInv`: a reset record belongs to the
one open log.
`Logged` says nothing of the program's memory, so it survives any stop; a resume then
finds, with the last key file, the place `PlaceInv` asks for (`ResumeFirst`,
`ResumeLast`). At the tally all logs have ended unless the
handles could not be located, so the scan reads them all, and each entry of a file
stands for the lines of one GUID in `written` (`TallyReads`, `TallyRight`). A tally that
fails has read a part of the files, which gives everything but completeness.
`DoneInv` carries the result through the copies from memory to disk and back.

`KeyFilesProofs.tla` proves, for every number of handles, iterations, executions and
files per directory:

- `TypeCorrect`: `Spec => []TypeOK`;
- `ScanFinds`: `KnownDirectories` implies `Spec => []FindsMaximum`;
- `TallyCounts`: `KnownDirectories` implies `Spec => []TallyExact`.

`KnownDirectories` says that no key file goes to a directory above 5, the last one the
loops of the readers try. The invariants: every file is where it was written and the
first directory has files of this execution only (`DiskInv`); the scan has passed only
iterations that were written, and its last find ends its instance (`ScanInv`); the tally
has counted exactly what it passed (`TallyInv`); for a category that is not in the database
both keep only to what was written. They rest on lemmas about the
directory's number, `(i * (j + 1)) \div MaxInstance`: it grows with both indices and is the
one character of the path that the readers patch.

`EftpProofs.tla` proves, for all files, retries and timeouts and for any number of
packets lost, duplicated, refused or overtaken:

- `TypeCorrect`: `Spec => []TypeOK`, for any number of transfers;
- `OackEarned`: `OneTransfer` implies `Spec => []OackIsEarned`;
- `ReadIsTransfer`: `OneTransfer` implies `Spec => TransferSpec`, the refinement of
  `FileTransfer`.

`OneTransfer` limits the agent to one read: packets carry no transfer, so with two reads
only the delay of the network keeps a late block of the first out of the second. The
invariant `ReadInv`: every packet on the way or in a list tells the truth about the
transfer (`Truthful`: an ACK never exceeds what the agent saved, a block is of the file
asked for, an OACK means the file is complete or could not be read); the blocks saved are the first ones of
the file, one fewer than the block awaited (`Saved`); a request is the first packet of
its session and nothing is sent before the transfer.

`RpcProofs.tla` proves, for every number of calls, frames, upsets, probes and tries:

- `TypeCorrect`: `Spec => []TypeOK`;
- `AnswersInOrder`: `Spec => []AnswersOnce`, with everything going wrong that can.

The rest is under `Calm`, a condition on the constants: threads are prompt, no command
aborts the agent, and neither abandoned calls, clean ups and resets nor failures of the
agent are among the upsets. Each of these is needed, as the behaviours above show; loss,
repetition, lack of memory and impatient timers stay, any number of times. `AnswersOnce` is inductive once it is
known that during a call all answers given are to earlier commands. `ExecutedInOrder`
needs the whole protocol. `Numbered`: every frame of a command on its way has the
number `FirstSeq` plus its DataId. That rests on `SendInv`: the timer resends only
what belongs to the current number, because the script counts only when the send packet
is empty or about to be (`Clear`), and that holds because a call ends only with its
own answer, which is queued just before the send packet is recycled. It takes
`SentInv`, that no answer to a command exists before the command was sent. From
`Numbered` the agent's expected number gives the order (`AcceptInv`): what was
executed, what the loop holds and what the callback holds are below one another and
below the last number received. The invariant was also checked by TLC.

`RpcCallProofs.tla` goes on from there, under `Calm`:

- `ExecutionOrder`: `Spec => []ExecutedInOrder`;
- `SenderHears`: `Spec => []SenderCanHear`;
- `CallsAreRemote`: `Spec => CallSpec`, the refinement of `RemoteCall`.

The run `Rpc_calls` has clean ups as well, which `Calm` leaves out. The lemma
`Lockstep` is the core: the answers a script has got, those the EMS received, those the
agent sent, the commands it accepted and the commands sent follow each other at a distance
of at most one in all. It comes from four invariants. `MonitorInv`: the agent numbers
its answers like the commands, and the identification of the answer is right whenever an
answer can be sent. `LoopInv`: the command the loop holds is the last accepted one.
`CommandInv`: what is on its way to the agent are commands of scripts. `AnswerInv`: each
answer names the command it is of, which has been executed. `SenderCanHear` follows,
since a packet to be fetched while the answer waits would be a command ahead of its turn.

`TestQueueProofs.tla` proves, for every number of starts, cases, continues, stops
and errors:

- `TypeCorrect`: `Spec => []TypeOK`;
- `ListApart`: `Spec => []CaseListApart`;
- `NoCaseTwice`: `Spec => []EachCaseOnce`;
- `RunInOrder`: `Spec => []PostedOrder`;
- `LeftoverKept`: `Spec => []InterruptedKept`;
- `StopIsKept`: `Spec => StopsAfterCurrent`, an action property.

`ListApart` follows from who may hold the running flag: the GUI sets it only while
the run thread waits without an event, and the run thread clears it in its last step.
`NoCaseTwice` uses `PlaceInv`, which says the same as `EachCaseOnce` list by list (each
without repetitions, no two with a common case, together all that was posted), since
the steps move cases from one list to another; `PostInv` says that a start posts
what it has not posted before, and three lemmas say what moving does to a list
without repetitions. `StopIsKept` uses that once a stop of the user has set the flag,
nothing is posted and the flag stays set, so the run thread empties the list after its current case.
`RunInOrder` needs every list sorted and what has run ahead of what waits (`OrderInv`),
with one exception: a case taken just after a stop may come behind one that waits to be
continued, which the stop is about to throw away. `LeftoverKept` needs to know when the
lists are empty (`IdleInv`) and that only an error stops a run that is still being posted
(`KeptInv`).

Apart from the conditions named, the proofs assume only the types of the constants
(`ExecutorAssumption`, `KeyFilesAssumption`, the `Eftp...Assumption`s,
`RpcLinkAssumption`, `RpcEmsAssumption`, `TestQueueAssumption`), which TLC evaluates in
the runs. The passing run of each property satisfies the condition of its theorem, but
for the clean ups of `Rpc_calls` and for `AllInstancesTested` in `Executor_liveness`, whose
filter the theorem leaves out.

Model-checked only: the refinement of `RemoteCall` with clean ups, `AllInstancesTested` with
refused handles, and liveness (`RunCompletes`, `TransferEnds`, `ClosingEnds`,
`CallReturns`, `CleanupHappens`, `RunEnds`), which is out of the prover's reach.

## Not modelled

- Test cases (`SctPkg/TestCase`, `EMS/Bin/TestCase`). They are four fifths of the
  repository's lines: hundreds of independent, straight-line tests. What a test may do to
  the harness is in `Executor`. Because of them the models cover a small share
  (below 1%) of the repository's lines; the modelled parts are the ones in which the
  harness keeps state across steps, machines or restarts.
- User interface, reports, loading of images, device configuration: sequential, with
  little state of their own.
- The text of logs, packet formats, RIVL types: conversions without control.
- Of the remote calls: messages of more than one frame (the two sides do not agree on
  the bit that marks a fragment, `ManagedNetworkMonitor.h:114`), the IP4 and serial
  monitors, several targets, and what a command does on the agent.
- Of EFTP: writing a file, options, several agents at once. `Unregister` walks the
  active list with the list head as its cursor (`EmsEftpSession.c:1184`), which needs
  a model of the lists with two agents.
- Threads, timers and the virtual TCP of the EMS: bookkeeping, and a protocol the
  tests are about.
- Remote execution in the test case manager: one command and a timer.

## Plan

1. `Executor`, `KeyFiles`, `EftpRead`, `Rpc`, `TestQueue` and their theorems (done).
2. Weaker conditions: `AllInstancesTested` with refused handles, `RemoteCall` with
   clean ups, two reads over a network that does not delay packets beyond a transfer.
3. `EftpSessions`, the lists of free and active sessions with several agents, and the
   write direction of EFTP.
4. The test profile library's sections, for the load and save of `TestCase.ini`, and a
   list of handles that changes between boots.
