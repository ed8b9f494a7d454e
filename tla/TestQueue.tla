----------------------------- MODULE TestQueue -----------------------------
(***************************************************************************)
(* The test case manager of the EMS for remote validation.  The GUI thread *)
(* posts the chosen cases, stops a run and continues one; the run thread   *)
(* evaluates the cases.  They share three lists and three flags.           *)
(*                                                                         *)
(* Commands of other threads wait in a list that GuiMainEventLoop looks at *)
(* between two events of the user interface: nothing wakes it for them.    *)
(***************************************************************************)
EXTENDS Integers, Sequences, Functions

CONSTANTS
  MaxBatches,    \* bound: starts
  MaxCases,      \* bound: cases posted by a start
  MaxContinues,  \* bound: continues
  MaxStops,      \* bound: requests to stop
  MaxErrors      \* bound: cases that end with "Case Error"

ASSUME TestQueueAssumption ==
  /\ MaxBatches \in Nat /\ MaxCases \in Nat /\ MaxContinues \in Nat
  /\ MaxStops \in Nat /\ MaxErrors \in Nat

VARIABLES
  gpc,           \* where the GUI thread is
  toPost,        \* cases it still has to post
  hold,          \* the list it moves
  rpc,           \* where the run thread is
  cur,           \* the case being evaluated
  running,       \* RemoteValidationRunningFlag
  stop,          \* RemoteValidationStopFlag
  allPost,       \* CaseAllPost
  event,         \* RemoteValidationTestStartEvent is signalled
  caseList,      \* CaseList
  continueList,  \* ContinueList
  trashList,     \* TrashList
  pending,       \* results "Case Error" the GUI has not been told of yet
  batch,         \* starts so far; a case is <<batch, number>>
  continues, stops, errors,   \* bounds
  ran,           \* history: the cases evaluated
  posted,        \* history: the cases posted
  leaked,        \* history: entries taken from the trash and forgotten
  hurt,          \* history: starts with an error before all was posted
  told,          \* history: what the user was told the run ends after
  asked          \* history: what the run ends after since the stop flag was set

guiVars   == <<gpc, toPost, hold>>
runVars   == <<rpc, cur>>
flagVars  == <<running, stop, allPost, event>>
listVars  == <<caseList, continueList, trashList>>
boundVars == <<batch, continues, stops, errors>>
historyVars == <<ran, posted, leaked, hurt, told, asked>>
vars == <<guiVars, runVars, flagVars, listVars, pending, boundVars, historyVars>>

None == <<0, 0>>

Init ==
  /\ gpc = "loop" /\ toPost = 0 /\ hold = <<>>
  /\ rpc = "wait" /\ cur = None
  /\ running = FALSE /\ stop = FALSE /\ allPost = FALSE /\ event = FALSE
  /\ caseList = <<>> /\ continueList = <<>> /\ trashList = <<>>
  /\ pending = 0
  /\ batch = 0 /\ continues = 0 /\ stops = 0 /\ errors = 0
  /\ ran = <<>> /\ posted = {} /\ leaked = <<>> /\ hurt = {}
  /\ told = "no" /\ asked = "no"

(* CaseListMutex is held by the run thread while it looks for a case, and  *)
(* while it sleeps for want of one.                                        *)
CaseListMutexFree == rpc # "loop"

-----------------------------------------------------------------------------
(* The GUI thread.                                                         *)

(* Mutant: handled once more, when the list is empty.                      *)
SetResultEndAlways ==
  /\ gpc = "loop"
  /\ pending' = pending - 1 /\ stop' = TRUE
  /\ UNCHANGED <<guiVars, runVars, running, allPost, event, listVars,
                 boundVars, historyVars>>

(* RemoteValidationSetResultEnd of a case that ended with an error.        *)
SetResultEnd ==
  /\ gpc = "loop" /\ pending > 0
  /\ pending' = pending - 1 /\ stop' = TRUE
  /\ UNCHANGED <<guiVars, runVars, running, allPost, event, listVars,
                 boundVars, historyVars>>

DoOneEvent ==
  /\ gpc = "loop" /\ pending = 0
  /\ gpc' = "blocked"
  /\ UNCHANGED <<toPost, hold, runVars, flagVars, listVars, pending,
                 boundVars, historyVars>>

(* Any event of the user interface.                                        *)
WakeUp ==
  /\ gpc = "blocked" /\ pending > 0
  /\ gpc' = "loop"
  /\ UNCHANGED <<toPost, hold, runVars, flagVars, listVars, pending,
                 boundVars, historyVars>>

(* CmdTestStart, refused while the test is running.                        *)
CmdTestStart ==
  /\ gpc = "blocked" /\ ~running /\ batch < MaxBatches
  /\ running' = TRUE /\ stop' = FALSE
  /\ batch' = batch + 1 /\ toPost' \in 0..MaxCases
  /\ told' = "no" /\ asked' = "no"
  /\ gpc' = "start"
  /\ UNCHANGED <<hold, runVars, allPost, event, listVars, pending, continues,
                 stops, errors, ran, posted, leaked, hurt>>

TestStart ==
  /\ gpc = "start" /\ CaseListMutexFree
  /\ allPost' = FALSE /\ event' = TRUE
  /\ gpc' = "post"
  /\ UNCHANGED <<toPost, hold, runVars, running, stop, listVars, pending,
                 boundVars, historyVars>>

(* The first entry of the trash list is taken and not used.                *)
TestCaseEntryGet ==
  IF trashList = <<>>
    THEN UNCHANGED <<trashList, leaked>>
    ELSE trashList' = Tail(trashList) /\ leaked' = Append(leaked, Head(trashList))

(* Mutant: a case goes to the front of the list.                           *)
ScriptEvalFirst ==
  /\ gpc = "post" /\ toPost > 0 /\ CaseListMutexFree
  /\ TestCaseEntryGet
  /\ LET c == <<batch, MaxCases - toPost + 1>>
     IN caseList' = <<c>> \o caseList /\ posted' = posted \cup {c}
  /\ toPost' = toPost - 1
  /\ UNCHANGED <<gpc, hold, runVars, flagVars, continueList, pending, boundVars,
                 ran, hurt, told, asked>>

TestCaseScriptEval ==
  /\ gpc = "post" /\ toPost > 0 /\ CaseListMutexFree
  /\ TestCaseEntryGet
  /\ LET c == <<batch, MaxCases - toPost + 1>>
     IN caseList' = Append(caseList, c) /\ posted' = posted \cup {c}
  /\ toPost' = toPost - 1
  /\ UNCHANGED <<gpc, hold, runVars, flagVars, continueList, pending, boundVars,
                 ran, hurt, told, asked>>

TestCaseAllPost ==
  /\ gpc = "post" /\ toPost = 0 /\ CaseListMutexFree
  /\ allPost' = TRUE
  /\ gpc' = "loop"
  /\ UNCHANGED <<toPost, hold, runVars, running, stop, event, listVars, pending,
                 boundVars, historyVars>>

(* Mutant: a continue is not refused while the test is running.            *)
ContinueUnasked ==
  /\ gpc = "blocked" /\ continues < MaxContinues
  /\ running' = TRUE /\ stop' = FALSE
  /\ hold' = continueList /\ continueList' = <<>>
  /\ continues' = continues + 1
  /\ told' = "no" /\ asked' = "no"
  /\ gpc' = "put"
  /\ UNCHANGED <<toPost, runVars, allPost, event, caseList, trashList, pending,
                 batch, stops, errors, ran, posted, leaked, hurt>>

(* CmdTestContinue: the list is taken, ...                                 *)
CmdTestContinue ==
  /\ gpc = "blocked" /\ ~running /\ continues < MaxContinues
  /\ running' = TRUE /\ stop' = FALSE
  /\ hold' = continueList /\ continueList' = <<>>
  /\ continues' = continues + 1
  /\ told' = "no" /\ asked' = "no"
  /\ gpc' = "put"
  /\ UNCHANGED <<toPost, runVars, allPost, event, caseList, trashList, pending,
                 batch, stops, errors, ran, posted, leaked, hurt>>

(* ... put behind the case list under the mutex of another list, ...       *)
ContinueList2CaseList ==
  /\ gpc = "put"
  /\ caseList' = caseList \o hold /\ hold' = <<>>
  /\ gpc' = "go"
  /\ UNCHANGED <<toPost, runVars, flagVars, continueList, trashList, pending,
                 boundVars, historyVars>>

(* Mutant: nothing says that all cases have been posted.                   *)
ContinueNotPosted ==
  /\ gpc = "go" /\ CaseListMutexFree
  /\ event' = TRUE
  /\ gpc' = "loop"
  /\ UNCHANGED <<toPost, hold, runVars, running, stop, allPost, listVars,
                 pending, boundVars, historyVars>>

(* ... and the run thread is told.                                         *)
TestContinue ==
  /\ gpc = "go" /\ CaseListMutexFree
  /\ allPost' = TRUE /\ event' = TRUE
  /\ gpc' = "loop"
  /\ UNCHANGED <<toPost, hold, runVars, running, stop, listVars, pending,
                 boundVars, historyVars>>

(* CmdTestStop asks whether the user is sure.                              *)
CmdTestStop ==
  /\ gpc = "blocked" /\ running /\ stops < MaxStops
  /\ gpc' = "confirm" /\ stops' = stops + 1
  /\ UNCHANGED <<toPost, hold, runVars, flagVars, listVars, pending, batch,
                 continues, errors, historyVars>>

(* What ends a run that is stopped now: the case being evaluated or, when  *)
(* none is, the one that may be about to begin.                            *)
Stopped == IF rpc \in {"eval", "check", "trash", "keep"} THEN "current" ELSE "next"

(* A user who is sure is told that the test will stop after the current    *)
(* case, in a box that stays until it is closed; ...                       *)
Choice ==
  /\ gpc = "confirm"
  /\ \/ gpc' = "box" /\ told' = Stopped
     \/ gpc' = "loop" /\ UNCHANGED told
  /\ UNCHANGED <<toPost, hold, runVars, flagVars, listVars, pending, boundVars,
                 ran, posted, leaked, hurt, asked>>

(* ... the flag is set after that.                                         *)
EmsRemoteValidationTestStop ==
  /\ gpc = "box"
  /\ stop' = TRUE /\ asked' = Stopped
  /\ gpc' = "loop"
  /\ UNCHANGED <<toPost, hold, runVars, running, allPost, event, listVars,
                 pending, boundVars, ran, posted, leaked, hurt, told>>

(* What the GUI thread does once a command has been given.                 *)
Commanded ==
  \/ TestStart \/ TestCaseScriptEval \/ TestCaseAllPost
  \/ ContinueList2CaseList \/ TestContinue

Gui ==
  \/ SetResultEnd \/ DoOneEvent \/ WakeUp \/ Commanded
  \/ CmdTestStart \/ CmdTestContinue \/ CmdTestStop \/ Choice
  \/ EmsRemoteValidationTestStop

-----------------------------------------------------------------------------
(* The run thread.                                                         *)

TestWaitBegin ==
  /\ rpc = "wait" /\ event
  /\ event' = FALSE
  /\ rpc' = "lock"
  /\ UNCHANGED <<cur, running, stop, allPost, guiVars, listVars, pending,
                 boundVars, historyVars>>

LockCaseList ==
  /\ rpc \in {"lock", "poll"}
  /\ rpc' = "loop"
  /\ UNCHANGED <<cur, flagVars, guiVars, listVars, pending, boundVars,
                 historyVars>>

(* The case is evaluated until OneCaseEnd.                                 *)
TestCaseListGetEntry ==
  /\ rpc = "loop" /\ caseList # <<>>
  /\ cur' = Head(caseList) /\ caseList' = Tail(caseList)
  /\ ran' = Append(ran, cur')
  /\ told' = IF told = "next" THEN "current" ELSE told
  /\ asked' = IF asked = "next" THEN "current" ELSE asked
  /\ rpc' = "eval"
  /\ UNCHANGED <<flagVars, guiVars, continueList, trashList, pending, boundVars,
                 posted, leaked, hurt>>

(* No case yet: the mutex is free until the thread takes it again, to      *)
(* sleep.                                                                  *)
NoEntry ==
  /\ rpc = "loop" /\ caseList = <<>> /\ ~allPost
  /\ rpc' = "poll"
  /\ UNCHANGED <<cur, flagVars, guiVars, listVars, pending, boundVars,
                 historyVars>>

LoopEnd ==
  /\ rpc = "loop" /\ caseList = <<>> /\ allPost
  /\ rpc' = "end"
  /\ UNCHANGED <<cur, flagVars, guiVars, listVars, pending, boundVars,
                 historyVars>>

(* A case that ends with an error stops the run, and the GUI is told to    *)
(* stop it too.                                                            *)
OneCaseTestEnd ==
  /\ rpc = "eval"
  /\ \/ UNCHANGED <<stop, pending, errors, hurt>>
     \/ /\ errors < MaxErrors /\ errors' = errors + 1
        /\ stop' = TRUE /\ pending' = pending + 1
        /\ hurt' = IF allPost THEN hurt ELSE hurt \cup {batch}
  /\ cur' = None
  /\ rpc' = "check"
  /\ UNCHANGED <<running, allPost, event, guiVars, listVars, batch, continues,
                 stops, ran, posted, leaked, told, asked>>

(* Mutant: a stop is seen only when the list is empty anyway.              *)
TestIsStopLate ==
  /\ rpc = "check"
  /\ rpc' = IF stop /\ caseList = <<>> THEN "trash" ELSE "lock"
  /\ UNCHANGED <<cur, flagVars, guiVars, listVars, pending, boundVars,
                 historyVars>>

TestIsStop ==
  /\ rpc = "check"
  /\ rpc' = IF stop THEN "trash" ELSE "lock"
  /\ UNCHANGED <<cur, flagVars, guiVars, listVars, pending, boundVars,
                 historyVars>>

(* Mutant: what is left of this run goes too.                              *)
BothLists2TrashList ==
  /\ rpc = "trash"
  /\ trashList' = trashList \o continueList \o caseList
  /\ continueList' = <<>> /\ caseList' = <<>>
  /\ rpc' = "keep"
  /\ UNCHANGED <<cur, flagVars, guiVars, pending, boundVars, historyVars>>

ContinueList2TrashList ==
  /\ rpc = "trash"
  /\ trashList' = trashList \o continueList /\ continueList' = <<>>
  /\ rpc' = "keep"
  /\ UNCHANGED <<cur, flagVars, guiVars, caseList, pending, boundVars,
                 historyVars>>

(* Mutant: the list is copied, not moved.                                  *)
CopyCaseList ==
  /\ rpc = "keep"
  /\ continueList' = continueList \o caseList
  /\ rpc' = "lock"
  /\ UNCHANGED <<cur, flagVars, guiVars, caseList, trashList, pending,
                 boundVars, historyVars>>

CaseList2ContinueList ==
  /\ rpc = "keep"
  /\ continueList' = continueList \o caseList /\ caseList' = <<>>
  /\ rpc' = "lock"
  /\ UNCHANGED <<cur, flagVars, guiVars, trashList, pending, boundVars,
                 historyVars>>

TestEnd ==
  /\ rpc = "end"
  /\ stop' = TRUE /\ running' = FALSE
  /\ rpc' = "wait"
  /\ UNCHANGED <<cur, allPost, event, guiVars, listVars, pending, boundVars,
                 historyVars>>

Run ==
  \/ TestWaitBegin \/ LockCaseList \/ TestCaseListGetEntry \/ NoEntry \/ LoopEnd
  \/ OneCaseTestEnd \/ TestIsStop
  \/ ContinueList2TrashList \/ CaseList2ContinueList \/ TestEnd

Next == Gui \/ Run

Spec == Init /\ [][Next]_vars

(* The run thread runs, and a case ends.  A mutex of Windows is handed to  *)
(* the thread that has waited for it, so the GUI thread gets it although   *)
(* the run thread takes it again and again.                                *)
FairSpec == Spec /\ WF_vars(Run) /\ SF_vars(Commanded)

-----------------------------------------------------------------------------
Cases == (1..MaxBatches) \X (1..MaxCases)

(* Every variable has its type.                                            *)
TypeOK ==
  /\ gpc \in {"loop", "blocked", "start", "post", "put", "go", "confirm", "box"}
  /\ rpc \in {"wait", "lock", "loop", "poll", "eval", "check", "trash", "keep", "end"}
  /\ toPost \in 0..MaxCases /\ cur \in Cases \cup {None}
  /\ running \in BOOLEAN /\ stop \in BOOLEAN /\ allPost \in BOOLEAN
  /\ event \in BOOLEAN /\ pending \in 0..MaxErrors
  /\ caseList \in Seq(Cases) /\ continueList \in Seq(Cases)
  /\ trashList \in Seq(Cases) /\ hold \in Seq(Cases)
  /\ ran \in Seq(Cases) /\ leaked \in Seq(Cases) /\ posted \subseteq Cases
  /\ batch \in 0..MaxBatches /\ hurt \subseteq 1..MaxBatches
  /\ continues \in 0..MaxContinues /\ stops \in 0..MaxStops
  /\ errors \in 0..MaxErrors
  /\ told \in {"no", "next", "current"} /\ asked \in {"no", "next", "current"}

(* RemoteValidationContinueList2CaseList changes the case list under the   *)
(* mutex of the trash list; the running flag alone keeps the run thread    *)
(* away from it.                                                           *)
CaseListApart == gpc = "put" => rpc = "wait" /\ ~event

(* A posted case is at one place only: evaluated, in one of the lists, or  *)
(* forgotten with its entry.  None is lost and none is run twice.          *)
EachCaseOnce ==
  LET all == ran \o caseList \o continueList \o hold \o trashList \o leaked
  IN /\ Range(all) = posted
     /\ \A i, j \in 1..Len(all) : i # j => all[i] # all[j]

(* Cases of one start run in the order in which they were posted, however  *)
(* often the run is stopped and continued.                                 *)
PostedOrder ==
  \A i, j \in 1..Len(ran) :
    i < j /\ ran[i][1] = ran[j][1] => ran[i][2] < ran[j][2]

(* What a stop left over can be continued until another start is stopped:  *)
(* cases of the last start are not thrown away, unless one of its cases    *)
(* failed while others were still being posted.                            *)
InterruptedKept ==
  \A i \in 1..Len(trashList) : trashList[i][1] < batch \/ trashList[i][1] \in hurt

(* Once EmsRemoteValidationTestStop has set the flag, the case that is     *)
(* being evaluated, or the one the run thread may be about to begin, is    *)
(* the last: TestIsStop sees the flag before another is taken.             *)
StopsAfterCurrent == [][cur' # cur /\ cur' # None => asked # "current"]_vars

(* "The Test will stop after current test case fininsh", as the box of     *)
(* CmdTestStop says: no case begins after the one that was current, or     *)
(* about to begin, when the box came up.                                   *)
StopsAsTold == [][cur' # cur /\ cur' # None => told # "current"]_vars

(* A run that was started or continued ends.                               *)
RunEnds == running ~> ~running
=============================================================================
