-------------------------- MODULE TestQueueProofs --------------------------
(***************************************************************************)
(* For every number of cases, starts, continues, stops and errors: the     *)
(* types of the test case manager, that its two threads never change the   *)
(* case list at the same time, that no case is lost or run twice, that a   *)
(* stop the user asked for lets no further case begin, that cases run in   *)
(* the order they were posted, and that what a stop leaves over is kept.   *)
(***************************************************************************)
EXTENDS TestQueue, TLAPS

USE TestQueueAssumption

-----------------------------------------------------------------------------
(* Sequences.                                                              *)

Elems(q) == {q[i] : i \in 1..Len(q)}
Once(q)  == \A i, j \in 1..Len(q) : i # j => q[i] # q[j]

LEMMA HeadTailType ==
  ASSUME NEW S, NEW q \in Seq(S), q # <<>>
  PROVE  Head(q) \in S /\ Tail(q) \in Seq(S)
  OBVIOUS

LEMMA ConcatType ==
  ASSUME NEW S, NEW q \in Seq(S), NEW r \in Seq(S)
  PROVE  q \o r \in Seq(S)
  OBVIOUS

LEMMA OnceEmpty == Once(<<>>) /\ Elems(<<>>) = {}
  BY DEF Once, Elems

LEMMA OnceAppend ==
  ASSUME NEW S, NEW q \in Seq(S), NEW x \in S, Once(q), x \notin Elems(q)
  PROVE  Once(Append(q, x)) /\ Elems(Append(q, x)) = Elems(q) \cup {x}
  <1> DEFINE r == Append(q, x)
  <1>1. /\ Len(r) = Len(q) + 1 /\ r[Len(r)] = x
        /\ \A i \in 1..Len(q) : r[i] = q[i]
    OBVIOUS
  <1>2. \A i \in 1..Len(r) : i = Len(r) \/ i \in 1..Len(q)
    BY <1>1
  <1>3. Len(r) \in 1..Len(r) /\ 1..Len(q) \subseteq 1..Len(r)
    BY <1>1
  <1> HIDE DEF r
  <1>4. Elems(r) = Elems(q) \cup {x}
    BY <1>1, <1>2, <1>3 DEF Elems
  <1>5. Once(r)
    BY <1>1, <1>2 DEF Once, Elems
  <1> QED BY <1>4, <1>5 DEF r

LEMMA OnceTail ==
  ASSUME NEW S, NEW q \in Seq(S), q # <<>>, Once(q)
  PROVE  /\ Once(Tail(q)) /\ Elems(q) = {Head(q)} \cup Elems(Tail(q))
         /\ Head(q) \notin Elems(Tail(q))
  <1> DEFINE r == Tail(q)
  <1>1. /\ Len(q) = Len(r) + 1 /\ q[1] = Head(q) /\ Len(r) \in Nat
        /\ \A i \in 1..Len(r) : r[i] = q[i + 1]
    OBVIOUS
  <1>2. /\ \A i \in 1..Len(r) : i + 1 \in 1..Len(q) /\ i + 1 # 1
        /\ 1 \in 1..Len(q)
        /\ \A i, j \in 1..Len(r) : i # j => i + 1 # j + 1
    BY <1>1
  <1>3. \A i \in 1..Len(q) : i = 1 \/ (i - 1 \in 1..Len(r) /\ r[i - 1] = q[i])
    BY <1>1
  <1> HIDE DEF r
  <1>4. Once(r)
    BY <1>1, <1>2 DEF Once
  <1>5. Elems(q) = {Head(q)} \cup Elems(r)
    BY <1>1, <1>2, <1>3 DEF Elems
  <1>6. Head(q) \notin Elems(r)
    BY <1>1, <1>2 DEF Elems, Once
  <1> QED BY <1>4, <1>5, <1>6 DEF r

LEMMA OnceConcat ==
  ASSUME NEW S, NEW q \in Seq(S), NEW r \in Seq(S), Once(q), Once(r),
         Elems(q) \cap Elems(r) = {}
  PROVE  /\ q \o r \in Seq(S) /\ Once(q \o r)
         /\ Elems(q \o r) = Elems(q) \cup Elems(r)
  <1> DEFINE t == q \o r
  <1>1. /\ Len(t) = Len(q) + Len(r) /\ Len(q) \in Nat /\ Len(r) \in Nat
        /\ \A i \in 1..Len(q) : t[i] = q[i]
        /\ \A i \in 1..Len(r) : t[Len(q) + i] = r[i]
        /\ t \in Seq(S)
    OBVIOUS
  <1>2. \A i \in 1..Len(t) :
          \/ i \in 1..Len(q)
          \/ i - Len(q) \in 1..Len(r) /\ t[i] = r[i - Len(q)] /\ i \notin 1..Len(q)
    BY <1>1
  <1>3. /\ 1..Len(q) \subseteq 1..Len(t)
        /\ \A i \in 1..Len(r) : Len(q) + i \in 1..Len(t)
    BY <1>1
  <1> HIDE DEF t
  <1>a. \A i \in 1..Len(t) : i \in 1..Len(q) => t[i] \in Elems(q)
    BY <1>1 DEF Elems
  <1>b. \A i \in 1..Len(t) : i \notin 1..Len(q) => t[i] \in Elems(r)
    BY <1>2 DEF Elems
  <1>c. Elems(q) \subseteq Elems(t)
    BY <1>1, <1>3 DEF Elems
  <1>d. Elems(r) \subseteq Elems(t)
    BY <1>1, <1>3 DEF Elems
  <1>e. Elems(t) \subseteq Elems(q) \cup Elems(r)
    <2> SUFFICES ASSUME NEW i \in 1..Len(t) PROVE t[i] \in Elems(q) \cup Elems(r)
      BY DEF Elems
    <2> QED BY <1>a, <1>b
  <1>4. Elems(t) = Elems(q) \cup Elems(r)
    BY <1>c, <1>d, <1>e
  <1>5. ASSUME NEW i \in 1..Len(t), NEW j \in 1..Len(t), i # j
        PROVE  t[i] # t[j]
    <2>1. CASE i \in 1..Len(q) /\ j \in 1..Len(q)
      BY <1>1, <1>5, <2>1 DEF Once
    <2>2. CASE i \notin 1..Len(q) /\ j \notin 1..Len(q)
      <3>1. i - Len(q) # j - Len(q)
        BY <1>1, <1>5
      <3> QED BY <1>2, <2>2, <3>1 DEF Once
    <2>3. CASE i \in 1..Len(q) /\ j \notin 1..Len(q)
      BY <1>a, <1>b, <2>3
    <2>4. CASE i \notin 1..Len(q) /\ j \in 1..Len(q)
      BY <1>a, <1>b, <2>4
    <2> QED BY <2>1, <2>2, <2>3, <2>4
  <1> QED BY <1>1, <1>4, <1>5 DEF Once, t

-----------------------------------------------------------------------------
(* Types, in groups of variables that change together.                     *)

ControlType ==
  /\ gpc \in {"loop", "blocked", "start", "post", "put", "go", "confirm", "box"}
  /\ rpc \in {"wait", "lock", "loop", "poll", "eval", "check", "trash", "keep", "end"}
  /\ running \in BOOLEAN /\ stop \in BOOLEAN /\ allPost \in BOOLEAN
  /\ event \in BOOLEAN /\ told \in {"no", "next", "current"}
  /\ asked \in {"no", "next", "current"}

ListType ==
  /\ caseList \in Seq(Cases) /\ continueList \in Seq(Cases)
  /\ trashList \in Seq(Cases) /\ hold \in Seq(Cases)
  /\ ran \in Seq(Cases) /\ leaked \in Seq(Cases) /\ posted \subseteq Cases
  /\ cur \in Cases \cup {None}

CountType ==
  /\ toPost \in 0..MaxCases /\ batch \in 0..MaxBatches /\ hurt \subseteq 1..MaxBatches
  /\ continues \in 0..MaxContinues /\ stops \in 0..MaxStops
  /\ errors \in 0..MaxErrors /\ pending \in 0..errors

(* Cases are there only after a start.                                     *)
Begun ==
  /\ gpc \in {"start", "post"} \/ rpc = "eval" => batch # 0
  /\ batch = 0 => caseList = <<>> /\ continueList = <<>> /\ hold = <<>>

TypeInv == ControlType /\ ListType /\ CountType /\ Begun

LEMMA TypeInvOK == TypeInv => TypeOK
  BY DEF TypeInv, ControlType, ListType, CountType, TypeOK

LEMMA InitType == Init => TypeInv
  <1> SUFFICES ASSUME Init PROVE TypeInv OBVIOUS
  <1>1. ControlType
    BY DEF Init, ControlType
  <1>2. ListType
    BY DEF Init, ListType
  <1>3. CountType /\ Begun
    BY DEF Init, CountType, Begun
  <1> QED BY <1>1, <1>2, <1>3 DEF TypeInv

LEMMA ControlStep ==
  ASSUME ControlType, [Next]_vars
  PROVE  ControlType'
  <1> USE DEF ControlType, guiVars, runVars, flagVars, historyVars
  <1>1. ASSUME Gui PROVE ControlType'
    <2>1. CASE SetResultEnd \/ DoOneEvent \/ WakeUp
      BY <2>1 DEF SetResultEnd, DoOneEvent, WakeUp
    <2>2. CASE Commanded
      BY <2>2 DEF Commanded, TestStart, TestCaseScriptEval, TestCaseAllPost,
                  ContinueList2CaseList, TestContinue
    <2>3. CASE CmdTestStart \/ CmdTestContinue \/ CmdTestStop
      BY <2>3 DEF CmdTestStart, CmdTestContinue, CmdTestStop
    <2>4. CASE Choice \/ EmsRemoteValidationTestStop
      BY <2>4 DEF Choice, EmsRemoteValidationTestStop, Stopped
    <2> QED BY <1>1, <2>1, <2>2, <2>3, <2>4 DEF Gui
  <1>2. ASSUME Run PROVE ControlType'
    BY <1>2 DEF Run, TestWaitBegin, LockCaseList, TestCaseListGetEntry, NoEntry, LoopEnd,
       OneCaseTestEnd, TestIsStop, ContinueList2TrashList, CaseList2ContinueList, TestEnd
  <1>3. ASSUME UNCHANGED vars PROVE ControlType'
    BY <1>3 DEF vars
  <1> QED BY <1>1, <1>2, <1>3 DEF Next

(* What the actions that move cases do to the lists.                       *)
LEMMA ListFrame ==
  ASSUME [Next]_vars
  PROVE  \/ UNCHANGED <<listVars, hold, ran, leaked, posted, batch>>
            /\ (cur' = cur \/ cur' = None)
         \/ CmdTestStart \/ TestCaseScriptEval \/ CmdTestContinue
         \/ ContinueList2CaseList \/ TestCaseListGetEntry
         \/ ContinueList2TrashList \/ CaseList2ContinueList
  <1> USE DEF guiVars, runVars, listVars, boundVars, historyVars
  <1>1. ASSUME UNCHANGED vars \/ SetResultEnd \/ DoOneEvent \/ WakeUp \/ TestStart
               \/ TestCaseAllPost \/ TestContinue \/ CmdTestStop
               \/ Choice \/ EmsRemoteValidationTestStop
        PROVE  UNCHANGED <<listVars, hold, ran, leaked, posted, batch, cur>>
    BY <1>1 DEF vars, SetResultEnd, DoOneEvent, WakeUp, TestStart, TestCaseAllPost,
                TestContinue, CmdTestStop, Choice, EmsRemoteValidationTestStop, Stopped
  <1>2. ASSUME TestWaitBegin \/ LockCaseList \/ NoEntry \/ LoopEnd \/ OneCaseTestEnd
               \/ TestIsStop \/ TestEnd
        PROVE  UNCHANGED <<listVars, hold, ran, leaked, posted, batch>>
               /\ (cur' = cur \/ cur' = None)
    BY <1>2 DEF TestWaitBegin, LockCaseList, NoEntry, LoopEnd, OneCaseTestEnd,
                TestIsStop, TestEnd
  <1> QED BY <1>1, <1>2 DEF Next, Gui, Commanded, Run

(* The case TestCaseScriptEval posts.                                      *)
ThisCase == <<batch, MaxCases - toPost + 1>>

LEMMA ThisCaseType ==
  ASSUME TypeInv, TestCaseScriptEval
  PROVE  ThisCase \in Cases
  <1>1. batch \in 1..MaxBatches /\ toPost \in 1..MaxCases
    BY DEF TypeInv, Begun, CountType, TestCaseScriptEval
  <1>2. MaxCases - toPost + 1 \in 1..MaxCases
    BY <1>1
  <1> QED BY <1>1, <1>2 DEF ThisCase, Cases

LEMMA ListStep ==
  ASSUME TypeInv, [Next]_vars
  PROVE  ListType'
  <1> USE DEF ListType, listVars, guiVars, runVars, historyVars
  <1>0. ListType
    BY DEF TypeInv
  <1>1. CASE UNCHANGED <<listVars, hold, ran, leaked, posted, batch>>
             /\ (cur' = cur \/ cur' = None)
    BY <1>0, <1>1
  <1>2. CASE CmdTestStart
    BY <1>0, <1>2 DEF CmdTestStart
  <1>3. CASE TestCaseScriptEval
    <2>1. ThisCase \in Cases
      BY <1>3, ThisCaseType
    <2>2. caseList' = Append(caseList, ThisCase) /\ posted' = posted \cup {ThisCase}
          /\ UNCHANGED <<continueList, hold, ran, cur>>
      BY <1>3 DEF TestCaseScriptEval, ThisCase
    <2>3. trashList' \in Seq(Cases) /\ leaked' \in Seq(Cases)
      <3>1. CASE trashList = <<>>
        BY <1>0, <1>3, <3>1 DEF TestCaseScriptEval, TestCaseEntryGet
      <3>2. CASE trashList # <<>>
        <4>1. trashList' = Tail(trashList) /\ leaked' = Append(leaked, Head(trashList))
          BY <1>3, <3>2 DEF TestCaseScriptEval, TestCaseEntryGet
        <4> QED BY <1>0, <3>2, <4>1, HeadTailType
      <3> QED BY <3>1, <3>2
    <2> QED BY <1>0, <2>1, <2>2, <2>3
  <1>4. CASE CmdTestContinue
    BY <1>0, <1>4 DEF CmdTestContinue
  <1>5. CASE ContinueList2CaseList
    BY <1>0, <1>5, ConcatType DEF ContinueList2CaseList
  <1>6. CASE TestCaseListGetEntry
    BY <1>0, <1>6, HeadTailType DEF TestCaseListGetEntry
  <1>7. CASE ContinueList2TrashList
    BY <1>0, <1>7, ConcatType DEF ContinueList2TrashList
  <1>8. CASE CaseList2ContinueList
    BY <1>0, <1>8, ConcatType DEF CaseList2ContinueList
  <1> QED BY <1>1, <1>2, <1>3, <1>4, <1>5, <1>6, <1>7, <1>8, ListFrame

LEMMA CountStep ==
  ASSUME TypeInv, [Next]_vars
  PROVE  CountType'
  <1> USE DEF CountType, guiVars, boundVars, historyVars
  <1>0. CountType /\ (rpc = "eval" => batch \in 1..MaxBatches)
    BY DEF TypeInv, Begun
  <1>1. CASE SetResultEnd
    BY <1>0, <1>1 DEF SetResultEnd
  <1>2. CASE DoOneEvent \/ WakeUp \/ TestStart \/ TestCaseAllPost \/ ContinueList2CaseList
             \/ TestContinue \/ Choice \/ EmsRemoteValidationTestStop
    BY <1>0, <1>2 DEF DoOneEvent, WakeUp, TestStart, TestCaseAllPost,
                      ContinueList2CaseList, TestContinue,
                      Choice, EmsRemoteValidationTestStop, Stopped
  <1>3. CASE TestCaseScriptEval
    BY <1>0, <1>3 DEF TestCaseScriptEval
  <1>4. CASE CmdTestStart
    BY <1>0, <1>4 DEF CmdTestStart
  <1>5. CASE CmdTestContinue
    BY <1>0, <1>5 DEF CmdTestContinue
  <1>6. CASE CmdTestStop
    BY <1>0, <1>6 DEF CmdTestStop
  <1>7. CASE OneCaseTestEnd
    <2>1. UNCHANGED <<toPost, batch, continues, stops>> /\ hurt' \in {hurt, hurt \cup {batch}}
      BY <1>7 DEF OneCaseTestEnd
    <2>2. hurt' \subseteq 1..MaxBatches
      BY <1>0, <1>7, <2>1 DEF OneCaseTestEnd
    <2>3. \/ UNCHANGED <<errors, pending>>
          \/ errors < MaxErrors /\ errors' = errors + 1 /\ pending' = pending + 1
      BY <1>7 DEF OneCaseTestEnd
    <2> QED BY <1>0, <2>1, <2>2, <2>3
  <1>8. CASE TestWaitBegin \/ LockCaseList \/ TestCaseListGetEntry \/ NoEntry \/ LoopEnd
             \/ TestIsStop \/ ContinueList2TrashList \/ CaseList2ContinueList \/ TestEnd
    BY <1>0, <1>8 DEF TestWaitBegin, LockCaseList, TestCaseListGetEntry, NoEntry, LoopEnd,
                      TestIsStop, ContinueList2TrashList, CaseList2ContinueList, TestEnd
  <1>9. CASE UNCHANGED vars
    BY <1>0, <1>9 DEF vars
  <1> QED BY <1>1, <1>2, <1>3, <1>4, <1>5, <1>6, <1>7, <1>8, <1>9
          DEF Next, Gui, Commanded, Run

LEMMA BegunStep ==
  ASSUME TypeInv, [Next]_vars
  PROVE  Begun'
  <1> USE DEF Begun, guiVars, runVars, listVars, boundVars
  <1>0. /\ Begun /\ batch \in Nat /\ ListType
    BY DEF TypeInv, CountType
  <1>1. CASE CmdTestStart
    BY <1>0, <1>1 DEF CmdTestStart
  <1>2. CASE TestCaseScriptEval
    BY <1>0, <1>2 DEF TestCaseScriptEval
  <1>3. CASE CmdTestContinue
    BY <1>0, <1>3 DEF CmdTestContinue
  <1>4. CASE ContinueList2CaseList
    <2>1. batch = 0 => caseList \o hold = <<>>
      BY <1>0
    <2> QED BY <1>0, <1>4, <2>1 DEF ContinueList2CaseList
  <1>5. CASE TestCaseListGetEntry
    BY <1>0, <1>5 DEF TestCaseListGetEntry
  <1>6. CASE ContinueList2TrashList
    BY <1>0, <1>6 DEF ContinueList2TrashList
  <1>7. CASE CaseList2ContinueList
    <2>1. batch = 0 => continueList \o caseList = <<>>
      BY <1>0
    <2> QED BY <1>0, <1>7, <2>1 DEF CaseList2ContinueList
  <1>8. CASE SetResultEnd \/ DoOneEvent \/ WakeUp \/ TestStart \/ TestCaseAllPost
             \/ TestContinue \/ CmdTestStop \/ Choice \/ EmsRemoteValidationTestStop
    BY <1>0, <1>8 DEF SetResultEnd, DoOneEvent, WakeUp, TestStart, TestCaseAllPost,
                      TestContinue, CmdTestStop,
                      Choice, EmsRemoteValidationTestStop, Stopped
  <1>9. CASE TestWaitBegin \/ LockCaseList \/ NoEntry \/ LoopEnd \/ OneCaseTestEnd
             \/ TestIsStop \/ TestEnd
    BY <1>0, <1>9 DEF TestWaitBegin, LockCaseList, NoEntry, LoopEnd, OneCaseTestEnd,
                      TestIsStop, TestEnd
  <1>10. CASE UNCHANGED vars
    BY <1>0, <1>10 DEF vars
  <1> QED BY <1>1, <1>2, <1>3, <1>4, <1>5, <1>6, <1>7, <1>8, <1>9, <1>10
          DEF Next, Gui, Commanded, Run

LEMMA NextType == TypeInv /\ [Next]_vars => TypeInv'
  BY ControlStep, ListStep, CountStep, BegunStep DEF TypeInv

(* The lists hold posted cases only, and never more errors are waiting     *)
(* for the GUI than there were.                                            *)
THEOREM TypeCorrect == Spec => []TypeOK
  BY TypeInvOK, InitType, NextType, PTL DEF Spec

-----------------------------------------------------------------------------
(* The two threads.                                                        *)

(* The run thread works only on a run, and a run is handed to it only      *)
(* while it waits.                                                         *)
ApartInv ==
  /\ gpc \in {"start", "put", "go"} => rpc = "wait" /\ ~event /\ running
  /\ rpc # "wait" => running /\ ~event
  /\ event => running

LEMMA NextApart ==
  ASSUME ApartInv, [Next]_vars
  PROVE  ApartInv'
  <1> USE DEF ApartInv, guiVars, runVars, flagVars
  <1>1. ASSUME Gui PROVE ApartInv'
    BY <1>1 DEF Gui, SetResultEnd, DoOneEvent, WakeUp, Commanded, TestStart,
       TestCaseScriptEval, TestCaseAllPost, ContinueList2CaseList, TestContinue,
       CmdTestStart, CmdTestContinue, CmdTestStop,
       Choice, EmsRemoteValidationTestStop, Stopped
  <1>2. ASSUME Run PROVE ApartInv'
    BY <1>2 DEF Run, TestWaitBegin, LockCaseList, TestCaseListGetEntry, NoEntry, LoopEnd,
       OneCaseTestEnd, TestIsStop, ContinueList2TrashList, CaseList2ContinueList, TestEnd
  <1>3. ASSUME UNCHANGED vars PROVE ApartInv'
    BY <1>3 DEF vars
  <1> QED BY <1>1, <1>2, <1>3 DEF Next

(* RemoteValidationContinueList2CaseList locks the wrong list, and is safe *)
(* all the same: it runs only between the test and set of the running flag *)
(* and the event, and the run thread clears the flag with its last step.   *)
THEOREM ListApart == Spec => []CaseListApart
  <1>1. Init => ApartInv
    BY DEF Init, ApartInv
  <1>2. ApartInv => CaseListApart
    BY DEF ApartInv, CaseListApart
  <1> QED BY <1>1, <1>2, NextApart, PTL DEF Spec

-----------------------------------------------------------------------------
(* No case is lost, and none is run twice.                                 *)

(* A start posts cases it has not posted before, and only a continue has   *)
(* cases in hand.                                                          *)
PostInv ==
  /\ \A c \in posted :
       /\ c[1] <= batch
       /\ c[1] = batch /\ gpc \in {"start", "post"} => c[2] <= MaxCases - toPost
  /\ gpc # "put" => hold = <<>>

(* The six places a case can be in share none.                             *)
PlaceInv ==
  /\ Once(ran) /\ Once(caseList) /\ Once(continueList) /\ Once(hold)
  /\ Once(trashList) /\ Once(leaked)
  /\ Elems(ran) \cap (Elems(caseList) \cup Elems(continueList) \cup Elems(hold)
                        \cup Elems(trashList) \cup Elems(leaked)) = {}
  /\ Elems(caseList) \cap (Elems(continueList) \cup Elems(hold)
                             \cup Elems(trashList) \cup Elems(leaked)) = {}
  /\ Elems(continueList) \cap (Elems(hold) \cup Elems(trashList) \cup Elems(leaked)) = {}
  /\ Elems(hold) \cap (Elems(trashList) \cup Elems(leaked)) = {}
  /\ Elems(trashList) \cap Elems(leaked) = {}
  /\ posted = Elems(ran) \cup Elems(caseList) \cup Elems(continueList)
                \cup Elems(hold) \cup Elems(trashList) \cup Elems(leaked)

LEMMA PostStep ==
  ASSUME TypeInv, PostInv, [Next]_vars
  PROVE  PostInv'
  <1> USE DEF PostInv, guiVars, runVars, listVars, boundVars, historyVars
  <1>0. batch \in Nat /\ toPost \in 0..MaxCases /\ posted \subseteq Cases
    BY DEF TypeInv, CountType, ListType
  <1>a. \A c \in posted : c[1] \in Nat /\ c[2] \in 1..MaxCases
    BY <1>0 DEF Cases
  <1>1. CASE CmdTestStart
    <2>1. batch' = batch + 1 /\ posted' = posted /\ hold' = hold /\ gpc = "blocked"
      BY <1>1 DEF CmdTestStart
    <2> QED BY <1>0, <1>a, <2>1
  <1>2. CASE TestCaseScriptEval
    <2>1. /\ gpc = "post" /\ gpc' = "post" /\ batch' = batch /\ toPost' = toPost - 1
          /\ posted' = posted \cup {ThisCase} /\ hold' = hold
      BY <1>2 DEF TestCaseScriptEval, ThisCase
    <2>2. ThisCase[1] = batch /\ ThisCase[2] = MaxCases - toPost + 1
      BY DEF ThisCase
    <2>3. \A c \in posted : c[1] <= batch' /\ (c[1] = batch' => c[2] <= MaxCases - toPost')
      BY <1>0, <1>a, <2>1
    <2>4. ThisCase[1] <= batch' /\ ThisCase[2] <= MaxCases - toPost'
      BY <1>0, <2>1, <2>2
    <2> QED BY <2>1, <2>3, <2>4
  <1>3. CASE CmdTestContinue
    BY <1>3 DEF CmdTestContinue
  <1>4. CASE ContinueList2CaseList
    BY <1>4 DEF ContinueList2CaseList
  <1>5. CASE SetResultEnd \/ DoOneEvent \/ WakeUp \/ TestStart \/ TestCaseAllPost
             \/ TestContinue \/ CmdTestStop \/ Choice \/ EmsRemoteValidationTestStop
    BY <1>5 DEF SetResultEnd, DoOneEvent, WakeUp, TestStart, TestCaseAllPost,
                TestContinue, CmdTestStop, Choice, EmsRemoteValidationTestStop, Stopped
  <1>6. CASE Run
    <2>1. UNCHANGED <<posted, batch, gpc, toPost, hold>>
      BY <1>6 DEF Run, TestWaitBegin, LockCaseList, TestCaseListGetEntry, NoEntry, LoopEnd,
         OneCaseTestEnd, TestIsStop, ContinueList2TrashList, CaseList2ContinueList, TestEnd
    <2> QED BY <2>1
  <1>7. CASE UNCHANGED vars
    BY <1>7 DEF vars
  <1> QED BY <1>1, <1>2, <1>3, <1>4, <1>5, <1>6, <1>7 DEF Next, Gui, Commanded

LEMMA PlaceStep ==
  ASSUME TypeInv, PostInv, PlaceInv, [Next]_vars
  PROVE  PlaceInv'
  <1> USE DEF listVars, guiVars, runVars, historyVars
  <1>0. ListType
    BY DEF TypeInv
  <1>1. CASE UNCHANGED <<listVars, hold, ran, leaked, posted, batch>>
    BY <1>1 DEF PlaceInv
  <1>2. CASE CmdTestStart
    BY <1>2 DEF CmdTestStart, PlaceInv
  <1>3. CASE TestCaseScriptEval
    <2>1. ThisCase \in Cases
      BY <1>3, ThisCaseType
    <2>2. caseList' = Append(caseList, ThisCase) /\ posted' = posted \cup {ThisCase}
          /\ UNCHANGED <<continueList, hold, ran>> /\ gpc = "post"
      BY <1>3 DEF TestCaseScriptEval, ThisCase
    <2>3. ThisCase \notin posted
      <3>1. ThisCase[1] = batch /\ ThisCase[2] = MaxCases - toPost + 1 /\ toPost \in 0..MaxCases
        BY DEF ThisCase, TypeInv, CountType
      <3>2. \A c \in posted : c[1] = batch => c[2] <= MaxCases - toPost
        BY <2>2 DEF PostInv
      <3> QED BY <3>1, <3>2
    <2>4. Once(caseList') /\ Elems(caseList') = Elems(caseList) \cup {ThisCase}
      <3>1. Once(caseList) /\ ThisCase \notin Elems(caseList) /\ caseList \in Seq(Cases)
        BY <1>0, <2>3 DEF PlaceInv, ListType
      <3> QED BY <2>1, <2>2, <3>1, OnceAppend
    <2>5. /\ Once(trashList') /\ Once(leaked')
          /\ Elems(trashList') \cap Elems(leaked') = {}
          /\ Elems(trashList') \cup Elems(leaked') = Elems(trashList) \cup Elems(leaked)
      <3>1. CASE trashList = <<>>
        BY <1>3, <3>1 DEF TestCaseScriptEval, TestCaseEntryGet, PlaceInv
      <3>2. CASE trashList # <<>>
        <4>1. trashList' = Tail(trashList) /\ leaked' = Append(leaked, Head(trashList))
          BY <1>3, <3>2 DEF TestCaseScriptEval, TestCaseEntryGet
        <4>2. /\ trashList \in Seq(Cases) /\ leaked \in Seq(Cases) /\ Head(trashList) \in Cases
              /\ Once(trashList) /\ Once(leaked) /\ Elems(trashList) \cap Elems(leaked) = {}
          BY <1>0, <3>2, HeadTailType DEF ListType, PlaceInv
        <4>3. /\ Once(trashList') /\ Elems(trashList) = {Head(trashList)} \cup Elems(trashList')
              /\ Head(trashList) \notin Elems(trashList')
          BY <3>2, <4>1, <4>2, OnceTail
        <4>4. Head(trashList) \notin Elems(leaked)
          BY <4>2, <4>3
        <4>5. Once(leaked') /\ Elems(leaked') = Elems(leaked) \cup {Head(trashList)}
          BY <4>1, <4>2, <4>4, OnceAppend
        <4> QED BY <4>2, <4>3, <4>5
      <3> QED BY <3>1, <3>2
    <2> QED BY <2>2, <2>3, <2>4, <2>5 DEF PlaceInv
  <1>4. CASE CmdTestContinue
    <2>1. /\ hold = <<>> /\ hold' = continueList /\ continueList' = <<>>
          /\ UNCHANGED <<caseList, trashList, ran, leaked, posted>>
      BY <1>4 DEF CmdTestContinue, PostInv
    <2> QED BY <2>1, OnceEmpty DEF PlaceInv
  <1>5. CASE ContinueList2CaseList
    <2>1. /\ caseList' = caseList \o hold /\ hold' = <<>>
          /\ UNCHANGED <<continueList, trashList, ran, leaked, posted>>
      BY <1>5 DEF ContinueList2CaseList
    <2>2. /\ caseList \in Seq(Cases) /\ hold \in Seq(Cases) /\ Once(caseList) /\ Once(hold)
          /\ Elems(caseList) \cap Elems(hold) = {}
      BY <1>0 DEF ListType, PlaceInv
    <2>3. Once(caseList') /\ Elems(caseList') = Elems(caseList) \cup Elems(hold)
      BY <2>1, <2>2, OnceConcat
    <2> QED BY <2>1, <2>3, OnceEmpty DEF PlaceInv
  <1>6. CASE TestCaseListGetEntry
    <2>1. /\ caseList # <<>> /\ caseList' = Tail(caseList) /\ ran' = Append(ran, Head(caseList))
          /\ UNCHANGED <<continueList, hold, trashList, leaked, posted>>
      BY <1>6 DEF TestCaseListGetEntry
    <2>2. /\ caseList \in Seq(Cases) /\ ran \in Seq(Cases) /\ Head(caseList) \in Cases
          /\ Once(caseList) /\ Once(ran) /\ Elems(caseList) \cap Elems(ran) = {}
      BY <1>0, <2>1, HeadTailType DEF ListType, PlaceInv
    <2>3. /\ Once(caseList') /\ Elems(caseList) = {Head(caseList)} \cup Elems(caseList')
          /\ Head(caseList) \notin Elems(caseList')
      BY <2>1, <2>2, OnceTail
    <2>4. Head(caseList) \notin Elems(ran)
      BY <2>2, <2>3
    <2>5. Once(ran') /\ Elems(ran') = Elems(ran) \cup {Head(caseList)}
      BY <2>1, <2>2, <2>4, OnceAppend
    <2> QED BY <2>1, <2>2, <2>3, <2>5 DEF PlaceInv
  <1>7. CASE ContinueList2TrashList
    <2>1. /\ trashList' = trashList \o continueList /\ continueList' = <<>>
          /\ UNCHANGED <<caseList, hold, ran, leaked, posted>>
      BY <1>7 DEF ContinueList2TrashList
    <2>2. /\ trashList \in Seq(Cases) /\ continueList \in Seq(Cases)
          /\ Once(trashList) /\ Once(continueList)
          /\ Elems(trashList) \cap Elems(continueList) = {}
      BY <1>0 DEF ListType, PlaceInv
    <2>3. Once(trashList') /\ Elems(trashList') = Elems(trashList) \cup Elems(continueList)
      BY <2>1, <2>2, OnceConcat
    <2> QED BY <2>1, <2>3, OnceEmpty DEF PlaceInv
  <1>8. CASE CaseList2ContinueList
    <2>1. /\ continueList' = continueList \o caseList /\ caseList' = <<>>
          /\ UNCHANGED <<trashList, hold, ran, leaked, posted>>
      BY <1>8 DEF CaseList2ContinueList
    <2>2. /\ continueList \in Seq(Cases) /\ caseList \in Seq(Cases)
          /\ Once(continueList) /\ Once(caseList)
          /\ Elems(continueList) \cap Elems(caseList) = {}
      BY <1>0 DEF ListType, PlaceInv
    <2>3. Once(continueList') /\ Elems(continueList') = Elems(continueList) \cup Elems(caseList)
      BY <2>1, <2>2, OnceConcat
    <2> QED BY <2>1, <2>3, OnceEmpty DEF PlaceInv
  <1> QED BY <1>1, <1>2, <1>3, <1>4, <1>5, <1>6, <1>7, <1>8, ListFrame

(* Six lists of distinct cases that share none, one after the other.       *)
LEMMA PlacesApart == ListType /\ PlaceInv => EachCaseOnce
  <1> SUFFICES ASSUME ListType, PlaceInv PROVE EachCaseOnce OBVIOUS
  <1> DEFINE a == ran \o caseList
             b == a \o continueList
             c == b \o hold
             d == c \o trashList
             e == d \o leaked
  <1>0. /\ ran \in Seq(Cases) /\ caseList \in Seq(Cases) /\ continueList \in Seq(Cases)
        /\ hold \in Seq(Cases) /\ trashList \in Seq(Cases) /\ leaked \in Seq(Cases)
    BY DEF ListType
  <1>1. a \in Seq(Cases) /\ Once(a) /\ Elems(a) = Elems(ran) \cup Elems(caseList)
    BY <1>0, OnceConcat DEF PlaceInv
  <1> HIDE DEF a
  <1>2. b \in Seq(Cases) /\ Once(b) /\ Elems(b) = Elems(a) \cup Elems(continueList)
    BY <1>0, <1>1, OnceConcat DEF PlaceInv
  <1> HIDE DEF b
  <1>3. c \in Seq(Cases) /\ Once(c) /\ Elems(c) = Elems(b) \cup Elems(hold)
    BY <1>0, <1>1, <1>2, OnceConcat DEF PlaceInv
  <1> HIDE DEF c
  <1>4. d \in Seq(Cases) /\ Once(d) /\ Elems(d) = Elems(c) \cup Elems(trashList)
    BY <1>0, <1>1, <1>2, <1>3, OnceConcat DEF PlaceInv
  <1> HIDE DEF d
  <1>5. e \in Seq(Cases) /\ Once(e) /\ Elems(e) = Elems(d) \cup Elems(leaked)
    BY <1>0, <1>1, <1>2, <1>3, <1>4, OnceConcat DEF PlaceInv
  <1> HIDE DEF e
  <1>6. Elems(e) = posted
    BY <1>1, <1>2, <1>3, <1>4, <1>5 DEF PlaceInv
  <1>7. Range(e) = Elems(e)
    BY <1>5 DEF Range, Elems
  <1>8. Range(e) = posted /\ \A i, j \in 1..Len(e) : i # j => e[i] # e[j]
    BY <1>5, <1>6, <1>7 DEF Once
  <1> QED BY <1>8 DEF EachCaseOnce, e, d, c, b, a

(* However often a run is stopped, fails and is continued, every posted    *)
(* case is at one place: evaluated once, waiting, or thrown away, and a    *)
(* case that is evaluated is in no list any more.                          *)
THEOREM NoCaseTwice == Spec => []EachCaseOnce
  <1>1. Init => PostInv /\ PlaceInv
    BY OnceEmpty DEF Init, PostInv, PlaceInv
  <1>2. TypeInv /\ PostInv /\ PlaceInv /\ [Next]_vars => (PostInv /\ PlaceInv)'
    BY PostStep, PlaceStep
  <1>3. TypeInv /\ PlaceInv => EachCaseOnce
    BY PlacesApart DEF TypeInv
  <1> QED BY <1>1, <1>2, <1>3, InitType, NextType, PTL DEF Spec

-----------------------------------------------------------------------------
(* Stopping.                                                               *)

(* After a stop of the user the flag stays set until the next start or     *)
(* continue, nothing is posted, and once its last case is over the run     *)
(* thread finds an empty list.                                             *)
StopInv ==
  /\ asked # "no" => gpc \in {"loop", "blocked", "confirm", "box"} /\ stop = TRUE
  /\ asked = "current" => rpc \in {"eval", "check", "trash", "keep"} \/ caseList = <<>>

LEMMA GuiStop ==
  ASSUME StopInv, Gui
  PROVE  StopInv' /\ cur' = cur
  <1> USE DEF StopInv, guiVars, runVars, flagVars, listVars, historyVars
  <1>1. CASE SetResultEnd
    BY <1>1 DEF SetResultEnd
  <1>2. CASE DoOneEvent \/ WakeUp \/ CmdTestStop
    BY <1>2 DEF DoOneEvent, WakeUp, CmdTestStop
  <1>3. CASE Commanded
    BY <1>3 DEF Commanded, TestStart, TestCaseScriptEval, TestCaseAllPost,
                ContinueList2CaseList, TestContinue
  <1>4. CASE CmdTestStart \/ CmdTestContinue
    BY <1>4 DEF CmdTestStart, CmdTestContinue
  <1>5. CASE Choice \/ EmsRemoteValidationTestStop
    BY <1>5 DEF Choice, EmsRemoteValidationTestStop, Stopped
  <1> QED BY <1>1, <1>2, <1>3, <1>4, <1>5 DEF Gui

LEMMA RunStop ==
  ASSUME StopInv, Run
  PROVE  StopInv' /\ (cur' = cur \/ cur' = None \/ asked # "current")
  <1> USE DEF StopInv, guiVars, runVars, flagVars, listVars, historyVars
  <1>1. CASE TestWaitBegin \/ LockCaseList \/ NoEntry \/ LoopEnd
    BY <1>1 DEF TestWaitBegin, LockCaseList, NoEntry, LoopEnd
  <1>2. CASE TestCaseListGetEntry
    BY <1>2 DEF TestCaseListGetEntry
  <1>3. CASE OneCaseTestEnd
    BY <1>3 DEF OneCaseTestEnd
  <1>4. CASE TestIsStop
    BY <1>4 DEF TestIsStop
  <1>5. CASE ContinueList2TrashList \/ CaseList2ContinueList
    BY <1>5 DEF ContinueList2TrashList, CaseList2ContinueList
  <1>6. CASE TestEnd
    BY <1>6 DEF TestEnd
  <1> QED BY <1>1, <1>2, <1>3, <1>4, <1>5, <1>6 DEF Run

(* No case begins after the one that was current, or about to begin, when  *)
(* EmsRemoteValidationTestStop set the flag.                               *)
THEOREM StopIsKept == Spec => StopsAfterCurrent
  <1>1. Init => StopInv
    BY DEF Init, StopInv
  <1>2. StopInv /\ [Next]_vars =>
          StopInv' /\ [cur' # cur /\ cur' # None => asked # "current"]_vars
    <2> SUFFICES ASSUME StopInv, [Next]_vars
                 PROVE  StopInv' /\ [cur' # cur /\ cur' # None => asked # "current"]_vars
      OBVIOUS
    <2>1. CASE Gui
      BY <2>1, GuiStop
    <2>2. CASE Run
      BY <2>2, RunStop
    <2>3. CASE UNCHANGED vars
      BY <2>3 DEF StopInv, vars, guiVars, runVars, flagVars, listVars, historyVars
    <2> QED BY <2>1, <2>2, <2>3 DEF Next
  <1> QED BY <1>1, <1>2, PTL DEF Spec, StopsAfterCurrent

-----------------------------------------------------------------------------
(* The order of the cases of one start, and what a stop leaves over.       *)

Earlier(c, d) == c[1] = d[1] => c[2] < d[2]
Sorted(q)     == \A i, j \in 1..Len(q) : i < j => Earlier(q[i], q[j])
Ahead(q, r)   == \A c \in Elems(q), d \in Elems(r) : Earlier(c, d)

(* The case list is empty between two runs, the continue list whenever     *)
(* what is left of a run is moved there or has been taken back.            *)
IdleInv ==
  /\ rpc = "wait" /\ ~event /\ gpc # "go" => caseList = <<>>
  /\ rpc = "end" => caseList = <<>> /\ allPost
  /\ gpc = "post" => ~allPost /\ (rpc = "wait" => event)
  /\ rpc = "keep" \/ gpc \in {"put", "go"} => continueList = <<>>

(* A case taken after a stop may come behind one of its start that waits   *)
(* to be continued; the stop then throws that one away.                    *)
OrderInv ==
  /\ Sorted(ran) /\ Sorted(caseList) /\ Sorted(continueList) /\ Sorted(hold)
  /\ Ahead(ran, caseList) /\ Ahead(ran, hold)
  /\ Ahead(ran, continueList) \/ (stop /\ rpc \in {"eval", "check", "trash"})
  /\ ~stop => \A c \in Elems(continueList) :
       /\ gpc \in {"start", "post"} => c[1] # batch
       /\ \A d \in Elems(caseList) : c[1] # d[1]

(* Only an error stops a run that is still being posted.                   *)
KeptInv ==
  /\ rpc \in {"trash", "keep"} => stop
  /\ gpc \in {"start", "post"} /\ stop => batch \in hurt
  /\ \A c \in Elems(trashList) : c[1] < batch \/ c[1] \in hurt
  /\ \A c \in Elems(continueList) :
       \/ c[1] < batch \/ c[1] \in hurt
       \/ /\ caseList = <<>> /\ gpc \notin {"start", "post"}
          /\ rpc \notin {"eval", "check", "trash", "keep"}

LEMMA InitOrder == Init => IdleInv /\ OrderInv /\ KeptInv
  <1> SUFFICES ASSUME Init PROVE IdleInv /\ OrderInv /\ KeptInv OBVIOUS
  <1>1. Sorted(<<>>) /\ Elems(<<>>) = {}
    BY OnceEmpty DEF Sorted
  <1>2. \A q : Ahead(q, <<>>)
    BY <1>1 DEF Ahead
  <1> QED BY <1>1, <1>2 DEF Init, IdleInv, OrderInv, KeptInv

LEMMA SortedAppend ==
  ASSUME NEW S, NEW q \in Seq(S), NEW x, Sorted(q), \A c \in Elems(q) : Earlier(c, x)
  PROVE  Sorted(Append(q, x))
  <1> DEFINE r == Append(q, x)
  <1>1. /\ Len(r) = Len(q) + 1 /\ r[Len(r)] = x /\ Len(q) \in Nat
        /\ \A i \in 1..Len(q) : r[i] = q[i]
    OBVIOUS
  <1>2. \A i \in 1..Len(r) : i = Len(r) \/ i \in 1..Len(q)
    BY <1>1
  <1> HIDE DEF r
  <1>3. ASSUME NEW i \in 1..Len(r), NEW j \in 1..Len(r), i < j
        PROVE  Earlier(r[i], r[j])
    <2>1. i \in 1..Len(q) /\ r[i] = q[i] /\ q[i] \in Elems(q)
      BY <1>1, <1>2, <1>3 DEF Elems
    <2>2. CASE j = Len(r)
      BY <1>1, <2>1, <2>2
    <2>3. CASE j \in 1..Len(q)
      BY <1>1, <1>3, <2>1, <2>3 DEF Sorted
    <2> QED BY <1>2, <2>2, <2>3
  <1> QED BY <1>3 DEF Sorted, r

LEMMA SortedTail ==
  ASSUME NEW S, NEW q \in Seq(S), q # <<>>, Sorted(q)
  PROVE  /\ Sorted(Tail(q)) /\ Elems(Tail(q)) \subseteq Elems(q) /\ Head(q) \in Elems(q)
         /\ \A c \in Elems(Tail(q)) : Earlier(Head(q), c)
  <1> DEFINE r == Tail(q)
  <1>1. /\ Len(q) = Len(r) + 1 /\ q[1] = Head(q) /\ Len(r) \in Nat
        /\ \A i \in 1..Len(r) : r[i] = q[i + 1]
    OBVIOUS
  <1>2. /\ \A i \in 1..Len(r) : i + 1 \in 1..Len(q) /\ 1 < i + 1
        /\ 1 \in 1..Len(q)
        /\ \A i, j \in 1..Len(r) : i < j => i + 1 < j + 1
    BY <1>1
  <1> HIDE DEF r
  <1>3. Sorted(r)
    BY <1>1, <1>2 DEF Sorted
  <1>4. Elems(r) \subseteq Elems(q) /\ Head(q) \in Elems(q)
    BY <1>1, <1>2 DEF Elems
  <1>5. \A c \in Elems(r) : Earlier(Head(q), c)
    BY <1>1, <1>2 DEF Elems, Sorted
  <1> QED BY <1>3, <1>4, <1>5 DEF r

(* The elements of the sequences the actions build.                        *)
LEMMA ElemsAppend ==
  ASSUME NEW S, NEW q \in Seq(S), NEW x \in S
  PROVE  Elems(Append(q, x)) = Elems(q) \cup {x}
  <1> DEFINE r == Append(q, x)
  <1>1. /\ Len(r) = Len(q) + 1 /\ r[Len(r)] = x
        /\ \A i \in 1..Len(q) : r[i] = q[i]
    OBVIOUS
  <1>2. \A i \in 1..Len(r) : i = Len(r) \/ i \in 1..Len(q)
    BY <1>1
  <1>3. Len(r) \in 1..Len(r) /\ 1..Len(q) \subseteq 1..Len(r)
    BY <1>1
  <1> HIDE DEF r
  <1> QED BY <1>1, <1>2, <1>3 DEF Elems, r

LEMMA ElemsConcat ==
  ASSUME NEW S, NEW q \in Seq(S), NEW r \in Seq(S)
  PROVE  Elems(q \o r) \subseteq Elems(q) \cup Elems(r)
  <1> DEFINE t == q \o r
  <1>1. /\ Len(t) = Len(q) + Len(r) /\ Len(q) \in Nat /\ Len(r) \in Nat
        /\ \A i \in 1..Len(q) : t[i] = q[i]
        /\ \A i \in 1..Len(r) : t[Len(q) + i] = r[i]
    OBVIOUS
  <1>2. \A i \in 1..Len(t) :
          \/ i \in 1..Len(q)
          \/ i - Len(q) \in 1..Len(r) /\ t[i] = r[i - Len(q)]
    BY <1>1
  <1> HIDE DEF t
  <1>3. \A i \in 1..Len(t) : t[i] \in Elems(q) \cup Elems(r)
    BY <1>1, <1>2 DEF Elems
  <1> QED BY <1>3 DEF Elems, t

LEMMA EmptyConcat ==
  ASSUME NEW S, NEW q \in Seq(S)
  PROVE  <<>> \o q = q
  OBVIOUS

LEMMA IdleStep ==
  ASSUME TypeInv, ApartInv, IdleInv, [Next]_vars
  PROVE  IdleInv'
  <1> USE DEF IdleInv, ApartInv, guiVars, runVars, flagVars, listVars
  <1>1. CASE SetResultEnd \/ DoOneEvent \/ WakeUp \/ CmdTestStop
             \/ Choice \/ EmsRemoteValidationTestStop
    BY <1>1 DEF SetResultEnd, DoOneEvent, WakeUp, CmdTestStop,
                Choice, EmsRemoteValidationTestStop, Stopped
  <1>2. CASE Commanded
    BY <1>2 DEF Commanded, TestStart, TestCaseScriptEval, TestCaseAllPost,
                ContinueList2CaseList, TestContinue
  <1>3. CASE CmdTestStart \/ CmdTestContinue
    BY <1>3 DEF CmdTestStart, CmdTestContinue
  <1>4. CASE Run
    BY <1>4 DEF Run, TestWaitBegin, LockCaseList, TestCaseListGetEntry, NoEntry, LoopEnd,
       OneCaseTestEnd, TestIsStop, ContinueList2TrashList, CaseList2ContinueList, TestEnd
  <1>5. CASE UNCHANGED vars
    BY <1>5 DEF vars
  <1> QED BY <1>1, <1>2, <1>3, <1>4, <1>5 DEF Next, Gui

(* The other steps move no case, set the stop flag or leave it, start no   *)
(* posting, and do not take the run thread past the trash.                 *)
Moves ==
  \/ CmdTestStart \/ TestCaseScriptEval \/ CmdTestContinue \/ ContinueList2CaseList
  \/ TestCaseListGetEntry \/ ContinueList2TrashList \/ CaseList2ContinueList

LEMMA OtherSteps ==
  ASSUME ControlType, ApartInv, [Next]_vars, ~Moves
  PROVE  /\ UNCHANGED <<listVars, hold, ran, batch>> /\ hurt \subseteq hurt'
         /\ stop => stop'
         /\ gpc' \in {"start", "post"} => gpc \in {"start", "post"}
         /\ stop /\ rpc \in {"eval", "check", "trash"} => rpc' \in {"eval", "check", "trash"}
         /\ rpc' \in {"eval", "check", "trash", "keep"} => rpc \in {"eval", "check", "trash", "keep"}
         /\ (rpc' \in {"trash", "keep"} => stop') \/ rpc' = rpc
         /\ gpc' \in {"start", "post"} /\ stop' => stop \/ batch \in hurt'
                                                  \/ (rpc = "eval" /\ allPost) \/ rpc = "end"
  <1> USE DEF ControlType, ApartInv, guiVars, runVars, listVars, flagVars, boundVars, historyVars
  <1>1. CASE SetResultEnd \/ DoOneEvent \/ WakeUp \/ TestStart \/ TestCaseAllPost
             \/ TestContinue \/ CmdTestStop \/ Choice \/ EmsRemoteValidationTestStop
    BY <1>1 DEF SetResultEnd, DoOneEvent, WakeUp, TestStart, TestCaseAllPost,
                TestContinue, CmdTestStop, Choice, EmsRemoteValidationTestStop, Stopped
  <1>2. CASE TestWaitBegin \/ LockCaseList \/ NoEntry \/ LoopEnd \/ TestIsStop \/ TestEnd
    BY <1>2 DEF TestWaitBegin, LockCaseList, NoEntry, LoopEnd, TestIsStop, TestEnd
  <1>3. CASE OneCaseTestEnd
    BY <1>3 DEF OneCaseTestEnd
  <1>4. CASE UNCHANGED vars
    BY <1>4 DEF vars
  <1> QED BY <1>1, <1>2, <1>3, <1>4 DEF Next, Gui, Commanded, Run, Moves

LEMMA PostedType ==
  ASSUME TypeInv, PostInv, PlaceInv
  PROVE  /\ \A c \in Elems(ran) \cup Elems(caseList) \cup Elems(continueList) \cup Elems(hold)
                       \cup Elems(trashList) :
              c \in posted /\ c[1] \in Nat /\ c[2] \in Nat /\ c[1] <= batch
         /\ batch \in Nat
  BY DEF TypeInv, ListType, CountType, PostInv, PlaceInv, Cases

(* A posted case comes behind all others of its start.                     *)
LEMMA ThisCaseLast ==
  ASSUME TypeInv, PostInv, PlaceInv, TestCaseScriptEval
  PROVE  \A c \in Elems(ran) \cup Elems(caseList) : Earlier(c, ThisCase)
  <1>1. ThisCase[1] = batch /\ ThisCase[2] = MaxCases - toPost + 1 /\ toPost \in 0..MaxCases
    BY DEF ThisCase, TypeInv, CountType
  <1>2. \A c \in posted : c[1] = batch => c[2] <= MaxCases - toPost
    BY DEF PostInv, TestCaseScriptEval
  <1> QED BY <1>1, <1>2, PostedType DEF Earlier

LEMMA OrderStep ==
  ASSUME TypeInv, ApartInv, PostInv, PlaceInv, IdleInv, KeptInv, OrderInv, [Next]_vars
  PROVE  OrderInv'
  <1> USE DEF listVars, guiVars, runVars, flagVars, historyVars
  <1>0. ListType /\ ControlType
    BY DEF TypeInv
  <1>a. Sorted(<<>>) /\ Elems(<<>>) = {} /\ (\A q : Ahead(q, <<>>))
    BY OnceEmpty DEF Sorted, Ahead
  <1>1. CASE ~Moves
    BY <1>0, <1>1, OtherSteps DEF OrderInv
  <1>2. CASE CmdTestStart
    <2>1. /\ UNCHANGED <<listVars, hold, ran>> /\ stop' = FALSE /\ batch' = batch + 1
          /\ rpc = "wait" /\ ~event /\ gpc = "blocked"
      BY <1>2 DEF CmdTestStart, ApartInv
    <2>2. caseList = <<>> /\ Ahead(ran, continueList)
      BY <2>1 DEF IdleInv, OrderInv
    <2>3. \A c \in Elems(continueList) : c[1] # batch'
      BY <2>1, PostedType
    <2> QED BY <1>a, <2>1, <2>2, <2>3 DEF OrderInv
  <1>3. CASE TestCaseScriptEval
    <2>1. /\ caseList' = Append(caseList, ThisCase) /\ gpc = "post"
          /\ UNCHANGED <<gpc, rpc, stop, batch, continueList, hold, ran>>
      BY <1>3 DEF TestCaseScriptEval, ThisCase, boundVars
    <2>2. Sorted(caseList')
      BY <1>0, <1>3, <2>1, ThisCaseLast, SortedAppend DEF OrderInv, ListType
    <2>3. Elems(caseList') = Elems(caseList) \cup {ThisCase}
      BY <1>0, <1>3, <2>1, ElemsAppend, ThisCaseType DEF ListType
    <2>4. Ahead(ran, caseList')
      BY <1>3, <2>3, ThisCaseLast DEF OrderInv, Ahead
    <2>5. ThisCase[1] = batch
      BY DEF ThisCase
    <2> QED BY <2>1, <2>2, <2>3, <2>4, <2>5 DEF OrderInv
  <1>4. CASE CmdTestContinue
    <2>1. /\ hold' = continueList /\ continueList' = <<>> /\ UNCHANGED <<caseList, ran>>
          /\ rpc = "wait"
      BY <1>4 DEF CmdTestContinue, ApartInv
    <2> QED BY <1>a, <2>1 DEF OrderInv
  <1>5. CASE ContinueList2CaseList
    <2>1. /\ caseList' = caseList \o hold /\ hold' = <<>> /\ UNCHANGED <<continueList, ran>>
          /\ caseList = <<>> /\ continueList = <<>>
      BY <1>5 DEF ContinueList2CaseList, ApartInv, IdleInv
    <2>2. caseList' = hold
      BY <1>0, <2>1, EmptyConcat DEF ListType
    <2> QED BY <1>a, <2>1, <2>2 DEF OrderInv
  <1>6. CASE TestCaseListGetEntry
    <2> DEFINE x == Head(caseList)
    <2>1. /\ caseList # <<>> /\ caseList' = Tail(caseList) /\ ran' = Append(ran, x)
          /\ UNCHANGED <<continueList, hold, gpc, stop, batch>> /\ rpc = "loop" /\ rpc' = "eval"
      BY <1>6 DEF TestCaseListGetEntry, boundVars
    <2>2. /\ Sorted(caseList') /\ Elems(caseList') \subseteq Elems(caseList)
          /\ x \in Elems(caseList) /\ \A c \in Elems(caseList') : Earlier(x, c)
      BY <1>0, <2>1, SortedTail DEF OrderInv, ListType
    <2>3. Elems(ran') = Elems(ran) \cup {x} /\ Sorted(ran')
      <3>1. \A c \in Elems(ran) : Earlier(c, x)
        BY <2>2 DEF OrderInv, Ahead
      <3>2. ran \in Seq(Cases) /\ x \in Cases
        BY <1>0, <2>1, HeadTailType DEF ListType
      <3> QED BY <2>1, <3>1, <3>2, ElemsAppend, SortedAppend DEF OrderInv
    <2>4. Ahead(ran', caseList')
      BY <2>2, <2>3 DEF OrderInv, Ahead
    <2>5. hold' = <<>>
      BY <2>1 DEF PostInv, ApartInv
    <2>6. Ahead(ran', continueList) \/ stop
      <3>1. SUFFICES ASSUME ~stop PROVE Ahead(ran', continueList)
        OBVIOUS
      <3>2. \A c \in Elems(continueList) : c[1] # x[1]
        BY <2>2, <3>1 DEF OrderInv
      <3>3. Ahead(ran, continueList)
        BY <3>1 DEF OrderInv
      <3> QED BY <2>3, <3>2, <3>3 DEF Ahead, Earlier
    <2> QED BY <1>a, <2>1, <2>2, <2>3, <2>4, <2>5, <2>6 DEF OrderInv
  <1>7. CASE ContinueList2TrashList
    <2>1. continueList' = <<>> /\ UNCHANGED <<caseList, hold, ran>>
      BY <1>7 DEF ContinueList2TrashList
    <2> QED BY <1>a, <2>1 DEF OrderInv
  <1>8. CASE CaseList2ContinueList
    <2>1. /\ continueList' = continueList \o caseList /\ caseList' = <<>>
          /\ UNCHANGED <<hold, ran, stop>> /\ continueList = <<>> /\ stop
      BY <1>8 DEF CaseList2ContinueList, IdleInv, KeptInv
    <2>2. continueList' = caseList
      BY <1>0, <2>1, EmptyConcat DEF ListType
    <2> QED BY <1>a, <2>1, <2>2 DEF OrderInv
  <1> QED BY <1>1, <1>2, <1>3, <1>4, <1>5, <1>6, <1>7, <1>8 DEF Moves

LEMMA KeptStep ==
  ASSUME TypeInv, ApartInv, PostInv, PlaceInv, IdleInv, KeptInv, [Next]_vars
  PROVE  KeptInv'
  <1> USE DEF listVars, guiVars, runVars, flagVars, boundVars, historyVars
  <1>0. ListType /\ ControlType
    BY DEF TypeInv
  <1>a. Elems(<<>>) = {}
    BY OnceEmpty
  <1>1. CASE ~Moves
    <2>1. gpc \in {"start", "post"} => ~(rpc = "eval" /\ allPost) /\ rpc # "end"
      BY DEF IdleInv, ApartInv
    <2> QED BY <1>0, <1>1, <2>1, OtherSteps DEF KeptInv
  <1>2. CASE CmdTestStart
    <2>1. /\ UNCHANGED <<listVars, hurt>> /\ stop' = FALSE /\ batch' = batch + 1
          /\ rpc' = "wait"
      BY <1>2 DEF CmdTestStart, ApartInv
    <2>2. \A c \in Elems(continueList) \cup Elems(trashList) : c[1] < batch'
      BY <2>1, PostedType
    <2> QED BY <2>1, <2>2 DEF KeptInv
  <1>3. CASE TestCaseScriptEval
    <2>1. /\ gpc = "post" /\ UNCHANGED <<gpc, rpc, stop, batch, continueList, hurt>>
          /\ trashList' \in {trashList, Tail(trashList)}
          /\ trashList' # trashList => trashList # <<>>
      BY <1>3 DEF TestCaseScriptEval, TestCaseEntryGet
    <2>2. Elems(trashList') \subseteq Elems(trashList)
      <3>1. trashList \in Seq(Cases) /\ Once(trashList)
        BY <1>0 DEF PlaceInv, ListType
      <3>2. trashList # <<>> => Elems(Tail(trashList)) \subseteq Elems(trashList)
        BY <3>1, OnceTail
      <3> QED BY <2>1, <3>2
    <2> QED BY <2>1, <2>2 DEF KeptInv
  <1>4. CASE CmdTestContinue
    <2>1. /\ continueList' = <<>> /\ UNCHANGED <<trashList, batch, hurt>> /\ gpc' = "put"
          /\ rpc' = "wait"
      BY <1>4 DEF CmdTestContinue, ApartInv
    <2> QED BY <1>a, <2>1 DEF KeptInv
  <1>5. CASE ContinueList2CaseList
    <2>1. /\ UNCHANGED <<continueList, trashList, batch, hurt, rpc>> /\ gpc' = "go"
          /\ rpc = "wait" /\ continueList = <<>>
      BY <1>5 DEF ContinueList2CaseList, ApartInv, IdleInv
    <2> QED BY <1>a, <2>1 DEF KeptInv
  <1>6. CASE TestCaseListGetEntry
    <2>1. /\ caseList # <<>> /\ UNCHANGED <<continueList, trashList, gpc, stop, batch, hurt>>
          /\ rpc' = "eval"
      BY <1>6 DEF TestCaseListGetEntry
    <2> QED BY <2>1 DEF KeptInv
  <1>7. CASE ContinueList2TrashList
    <2>1. /\ continueList' = <<>> /\ trashList' = trashList \o continueList
          /\ UNCHANGED <<gpc, stop, batch, hurt>> /\ rpc = "trash" /\ rpc' = "keep"
      BY <1>7 DEF ContinueList2TrashList
    <2>2. Elems(trashList') \subseteq Elems(trashList) \cup Elems(continueList)
      BY <1>0, <2>1, ElemsConcat DEF ListType
    <2> QED BY <1>a, <2>1, <2>2 DEF KeptInv
  <1>8. CASE CaseList2ContinueList
    <2>1. /\ continueList' = continueList \o caseList /\ caseList' = <<>>
          /\ UNCHANGED <<trashList, gpc, stop, batch, hurt>> /\ continueList = <<>> /\ stop
          /\ rpc = "keep" /\ rpc' = "lock"
      BY <1>8 DEF CaseList2ContinueList, IdleInv, KeptInv
    <2>2. continueList' = caseList
      BY <1>0, <2>1, EmptyConcat DEF ListType
    <2>3. CASE gpc \in {"start", "post"}
      <3>1. batch \in hurt
        BY <2>1, <2>3 DEF KeptInv
      <3>2. \A c \in Elems(caseList) : c[1] < batch \/ c[1] = batch
        BY PostedType
      <3> QED BY <2>1, <2>2, <3>1, <3>2 DEF KeptInv
    <2>4. CASE gpc \notin {"start", "post"}
      BY <2>1, <2>2, <2>4 DEF KeptInv
    <2> QED BY <2>3, <2>4
  <1> QED BY <1>1, <1>2, <1>3, <1>4, <1>5, <1>6, <1>7, <1>8 DEF Moves

QueueInv == TypeInv /\ ApartInv /\ PostInv /\ PlaceInv /\ IdleInv /\ OrderInv /\ KeptInv

LEMMA QueueInvariant == Spec => []QueueInv
  <1>1. Init => QueueInv
    BY InitType, InitOrder, OnceEmpty DEF Init, ApartInv, PostInv, PlaceInv, QueueInv
  <1>2. QueueInv /\ [Next]_vars => QueueInv'
    BY NextType, NextApart, PostStep, PlaceStep, IdleStep, OrderStep, KeptStep DEF QueueInv
  <1> QED BY <1>1, <1>2, PTL DEF Spec

(* Stopping and continuing, by the user or after an error, never runs the  *)
(* cases of one start out of the order in which they were posted: what     *)
(* would come too late has gone to the trash list.                         *)
THEOREM RunInOrder == Spec => []PostedOrder
  <1>1. QueueInv => PostedOrder
    BY DEF QueueInv, OrderInv, Sorted, Earlier, PostedOrder
  <1> QED BY <1>1, QueueInvariant, PTL

(* RemoteValidationContinueList2TrashList throws away cases of the last    *)
(* start only after an error that came while it was still being posted.    *)
THEOREM LeftoverKept == Spec => []InterruptedKept
  <1>1. QueueInv => InterruptedKept
    BY DEF QueueInv, KeptInv, InterruptedKept, Elems
  <1> QED BY <1>1, QueueInvariant, PTL
=============================================================================
