----------------------------- MODULE RpcProofs -----------------------------
(***************************************************************************)
(* For every number of calls, of faults and of frames on the way: the      *)
(* types of the remote calls, that a script is never given two answers or  *)
(* the answer to a later command, and what each step does to the order of  *)
(* the commands.                                                           *)
(***************************************************************************)
EXTENDS Rpc, TLAPS

USE RpcLinkAssumption, RpcEmsAssumption

-----------------------------------------------------------------------------
(* Sequences and frames.                                                   *)

LEMMA PutType ==
  ASSUME NEW S, NEW q \in Seq(S), NEW x \in S
  PROVE  Put(q, x) \in Seq(S)
  BY DEF Put

LEMMA HeadTailType ==
  ASSUME NEW S, NEW q \in Seq(S), q # <<>>
  PROVE  Head(q) \in S /\ Tail(q) \in Seq(S)
  OBVIOUS

LEMMA ElementType ==
  ASSUME NEW S, NEW q \in Seq(S), NEW i \in 1..Len(q)
  PROVE  q[i] \in S
  OBVIOUS

LEMMA ConcatType ==
  ASSUME NEW S, NEW q \in Seq(S), NEW r \in Seq(S)
  PROVE  q \o r \in Seq(S)
  OBVIOUS

LEMMA ContentsType ==
  /\ NoCmd \in Contents /\ Stamp \in Contents
  /\ \A c \in Contents : c.id \in Nat
  BY DEF NoCmd, Stamp, Contents, Commands

LEMMA ToAgentType ==
  /\ \A p \in ToAgent : p.seq \in Int /\ (p.op = "DATA" => p \in DataFrames)
                        /\ (p.op = "CLEANUP" => p.stamp \in Nat)
  /\ \A p \in DataFrames : p.seq \in Nat /\ p.cmd \in Contents /\ p.op = "DATA"
  BY DEF ToAgent, DataFrames

LEMMA ToEmsType ==
  /\ \A p \in ToEms : p.seq \in Int /\ (p.op = "DATA" => p \in AnswerFrames)
  /\ \A p \in AnswerFrames : /\ p.seq \in Int /\ p.id \in Int /\ p.body \in Contents
                             /\ p.op = "DATA"
  BY DEF ToEms, AnswerFrames

LEMMA FrameTypes ==
  /\ \A s \in Nat, c \in Contents : Data(s, c) \in ToAgent
  /\ \A s \in Int : Control("DATA_ACK", s) \in ToAgent
                    /\ Control("PROBE", s) \in ToAgent
  /\ \A s \in Int, t \in Nat : Cleanup(s, t) \in ToAgent
  /\ \A s, d \in Int, c \in Contents : Answer(s, d, c) \in ToEms
  /\ \A s \in Int, o \in {"DATA_ACK", "PROBE_ACK", "CLEANUP_ACK"} :
       Control(o, s) \in ToEms
  BY DEF Data, Control, Cleanup, Answer, ToAgent, ToEms, DataFrames, AnswerFrames

-----------------------------------------------------------------------------
(* Types.                                                                  *)

(* An answer is queued from the frame in hand, which has to be an answer;  *)
(* and the tries of a clean up are counted from 0.                         *)
Hand == (lpc = "fin" => rx \in AnswerFrames) /\ (spc = "restored" => tries = 0)

TypeInv == TypeOK /\ Hand


LEMMA InitType == Init => TypeInv
  <1> SUFFICES ASSUME Init PROVE TypeInv OBVIOUS
  <1>1. RpcLinkType
    BY DEF Init, RpcLinkInit, RpcLinkType
  <1>2. EmsType /\ Hand
    <2>1. /\ lastDataId \in 0..MaxCalls /\ tries \in 0..Tries
          /\ stamp \in 0..MaxCleanups /\ probes \in 0..MaxProbes
          /\ lastSendSeq \in Nat /\ fragSeq \in Int /\ lastRecvSeq \in Int
      BY DEF Init, EmsInit
    <2>2. returned = <<>> /\ msgQ = <<>>
      BY DEF Init, EmsInit
    <2>3. /\ returned \in Seq([id : Int, body : Contents])
          /\ msgQ \in Seq([id : Int, body : Contents])
      BY <2>2
    <2> QED BY <2>1, <2>3, ContentsType DEF Init, EmsInit, EmsType, Hand
  <1>3. AgentType
    BY ContentsType DEF Init, AgentInit, MonitorStatics, AgentType, Any, Unset
  <1> QED BY <1>1, <1>2, <1>3 DEF TypeInv, TypeOK

(* What one side leaves alone keeps its type.                              *)
LEMMA AgentFrame ==
  ASSUME AgentType, UNCHANGED agentVars
  PROVE  AgentType'
  BY DEF AgentType, agentVars, monitorVars, loopVars

LEMMA EmsFrame ==
  ASSUME EmsType, UNCHANGED emsVars
  PROVE  EmsType' /\ UNCHANGED <<lpc, rx, spc, tries>>
  BY DEF EmsType, emsVars, scriptVars, sendVars, recvVars, flagVars

LEMMA ScriptType ==
  ASSUME TypeInv, Script, UNCHANGED agentVars
  PROVE  TypeInv'
  <1> USE DEF RpcLinkType, EmsType, Hand, scriptVars, sendVars, recvVars, flagVars, rpcLinkVars
  <1>0. RpcLinkType /\ EmsType /\ Hand /\ AgentType'
    BY AgentFrame DEF TypeInv, TypeOK
  <1>a. SUFFICES RpcLinkType' /\ EmsType' /\ Hand'
    BY <1>0 DEF TypeInv, TypeOK
  <1>1. CASE RpcSendMessage
    <2>1. PICK k \in CommandKinds : next' = [id |-> lastDataId', kind |-> k]
      BY <1>1 DEF RpcSendMessage
    <2>2. next' \in Contents
      BY <1>0, <1>1, <2>1 DEF RpcSendMessage, Contents, Commands
    <2> QED BY <1>0, <1>1, <2>2 DEF RpcSendMessage
  <1>2. CASE CountSendSeq
    BY <1>0, <1>2 DEF CountSendSeq
  <1>3. CASE SendRivlMessage
    BY <1>0, <1>3, PutType, FrameTypes DEF SendRivlMessage, SendOutData
  <1>4. CASE MarkSending
    BY <1>0, <1>4, ContentsType DEF MarkSending, Upset
  <1>5. CASE RpcRecvMessage
    <2>1. Head(msgQ) \in [id : Int, body : Contents]
          /\ Tail(msgQ) \in Seq([id : Int, body : Contents])
      BY <1>0, <1>5, HeadTailType DEF RpcRecvMessage
    <2>2. Append(returned, Head(msgQ)) \in Seq([id : Int, body : Contents])
      BY <1>0, <2>1
    <2>3. returned' \in Seq([id : Int, body : Contents])
      BY <1>0, <1>5, <2>2 DEF RpcRecvMessage
    <2>4. spc' \in {spc, "idle"}
      BY <1>5 DEF RpcRecvMessage
    <2> QED BY <1>0, <1>5, <2>1, <2>3, <2>4 DEF RpcRecvMessage
  <1>6. CASE TclRestartRecv
    BY <1>0, <1>6 DEF TclRestartRecv
  <1>7. CASE RestoreEmsRpcEnv
    BY <1>0, <1>7 DEF RestoreEmsRpcEnv, Upset
  <1>8. CASE SendOutCleanup
    <2>1. toAgent' \in Seq(ToAgent)
      BY <1>0, <1>8, PutType, FrameTypes DEF SendOutCleanup
    <2>2. cleanupAck' \in BOOLEAN
      BY <1>0, <1>8 DEF SendOutCleanup
    <2>3. tries' \in 0..Tries
      BY <1>0, <1>8 DEF SendOutCleanup
    <2> QED BY <1>0, <1>8, <2>1, <2>2, <2>3 DEF SendOutCleanup
  <1>9. CASE CleanupEnd
    BY <1>0, <1>9 DEF CleanupEnd
  <1>10. CASE SendOutProbe
    <2>1. toAgent' \in Seq(ToAgent)
      BY <1>0, <1>10, PutType, FrameTypes DEF SendOutProbe
    <2>2. /\ toEms' = toEms /\ upsets' = upsets
          /\ UNCHANGED <<next, lastDataId, tries, stamp, returned, lastSendSeq, sendPkt,
                         curState, lpc, rx, fragSeq, lastRecvSeq, msgQ, cleanupAck>>
          /\ spc' = "probe" /\ probes' \in 0..MaxProbes
      BY <1>0, <1>10 DEF SendOutProbe
    <2>3. probAck' \in BOOLEAN /\ target' \in BOOLEAN
      BY <1>10 DEF SendOutProbe
    <2> QED BY <1>0, <2>1, <2>2, <2>3
  <1>11. CASE ProbeEnd
    BY <1>0, <1>11 DEF ProbeEnd
  <1> QED BY <1>1, <1>2, <1>3, <1>4, <1>5, <1>6, <1>7, <1>8, <1>9, <1>10, <1>11 DEF Script

LEMMA ListenerType ==
  ASSUME TypeInv, Listener, UNCHANGED agentVars
  PROVE  TypeInv'
  <1> USE DEF RpcLinkType, EmsType, Hand, scriptVars, sendVars, recvVars, flagVars, rpcLinkVars
  <1>0. RpcLinkType /\ EmsType /\ Hand /\ AgentType'
    BY AgentFrame DEF TypeInv, TypeOK
  <1>a. SUFFICES RpcLinkType' /\ EmsType' /\ Hand'
    BY <1>0 DEF TypeInv, TypeOK
  <1>b. ASSUME NEW o, Receive(o)
        PROVE  /\ Head(toEms) \in ToEms /\ Head(toEms).seq \in Int
               /\ toEms' \in Seq(ToEms)
               /\ o = "DATA" => Head(toEms) \in AnswerFrames
    BY <1>0, <1>b, HeadTailType, ToEmsType DEF Receive
  <1>1. CASE HandleDataAck
    BY <1>0, <1>1, <1>b DEF HandleDataAck
  <1>2. CASE HandleData
    <2>1. Receive("DATA")
      BY <1>2 DEF HandleData
    <2>2. Put(toAgent, Control("DATA_ACK", Head(toEms).seq)) \in Seq(ToAgent)
      BY <1>0, <1>b, <2>1, PutType, FrameTypes
    <2> QED BY <1>0, <1>2, <1>b, <2>1, <2>2 DEF HandleData
  <1>3. CASE HandleProbeAck
    BY <1>0, <1>3, <1>b DEF HandleProbeAck
  <1>4. CASE HandleCleanupAck
    BY <1>0, <1>4, <1>b DEF HandleCleanupAck
  <1>5. CASE ProcessFin
    BY <1>0, <1>5, ToEmsType DEF ProcessFin
  <1>6. CASE ProcessFinFails
    BY <1>0, <1>6 DEF ProcessFinFails, Upset
  <1>7. CASE RecycleSendPacket
    BY <1>0, <1>7, ContentsType DEF RecycleSendPacket
  <1>8. CASE Settle
    BY <1>0, <1>8 DEF Settle
  <1> QED BY <1>1, <1>2, <1>3, <1>4, <1>5, <1>6, <1>7, <1>8 DEF Listener

LEMMA CallbackType ==
  ASSUME TypeInv, Callback, UNCHANGED emsVars
  PROVE  TypeInv'
  <1> USE DEF RpcLinkType, AgentType, monitorVars, loopVars, agentVars, Any
  <1>0. RpcLinkType /\ AgentType /\ EmsType' /\ Hand'
    BY EmsFrame DEF TypeInv, TypeOK, Hand
  <1>a. SUFFICES RpcLinkType' /\ AgentType'
    BY <1>0 DEF TypeInv, TypeOK
  <1>1. CASE Ignore
    BY <1>0, <1>1, HeadTailType DEF Ignore
  <1>b. ASSUME NEW o, Notify(o)
        PROVE  /\ Head(toAgent) \in ToAgent /\ Head(toAgent).seq \in Int
               /\ toAgent' \in Seq(ToAgent)
               /\ savedSend' \in Int
               /\ UNCHANGED <<loopVars, upsets>>
               /\ o = "DATA" => /\ Head(toAgent).seq \in Nat
                                /\ Head(toAgent).cmd \in Contents
                                /\ Head(toAgent).cmd.id \in Int
               /\ o = "CLEANUP" => Head(toAgent).stamp \in Nat
    BY <1>0, <1>b, HeadTailType, ToAgentType, ContentsType DEF Notify
  <1>c. ASSUME NEW o \in {"DATA_ACK", "PROBE_ACK", "CLEANUP_ACK"}, NEW s \in Int
        PROVE  Put(toEms, Control(o, s)) \in Seq(ToEms)
    BY <1>0, PutType, FrameTypes
  <1>2. CASE NotifyProbe
    BY <1>0, <1>2, <1>b, <1>c DEF NotifyProbe, SendOutAck
  <1>3. CASE NotifyNewData
    <2>1. timer' \in BOOLEAN
      BY <1>3 DEF NotifyNewData
    <2>2. Notify("DATA")
      BY <1>3 DEF NotifyNewData
    <2>3. Put(toEms, Control("DATA_ACK", Head(toAgent).seq)) \in Seq(ToEms)
      BY <1>b, <1>c, <2>2
    <2>4. /\ toAgent' \in Seq(ToAgent) /\ toEms' \in Seq(ToEms) /\ upsets' = upsets
      BY <1>3, <1>b, <2>2, <2>3 DEF NotifyNewData, SendOutAck
    <2>5. /\ savedApp' \in Int /\ bufIn' \in Contents /\ savedSend' \in Int
          /\ lastReceive' \in Nat /\ expect' \in Nat
          /\ linkStatus' = "WaitForPacket" /\ hasPkt' = TRUE
          /\ UNCHANGED <<lastSend, cleanFlag, lastStamp, loopVars>>
      BY <1>3, <1>b, <2>2 DEF NotifyNewData
    <2> QED BY <1>0, <2>1, <2>4, <2>5
  <1>4. CASE NotifyOldData
    BY <1>0, <1>4, <1>b, <1>c DEF NotifyOldData, SendOutAck
  <1>5. CASE NotifyDataAck
    BY <1>0, <1>5, <1>b DEF NotifyDataAck
  <1>6. CASE NotifyCleanup
    <2>1. Notify("CLEANUP")
      BY <1>6 DEF NotifyCleanup
    <2>2. Put(toEms, Control("CLEANUP_ACK", Head(toAgent).seq)) \in Seq(ToEms)
      BY <1>b, <1>c, <2>1
    <2>3. cleanFlag' \in BOOLEAN /\ hasPkt' \in BOOLEAN
      BY <1>0, <1>6 DEF NotifyCleanup
    <2>4. /\ lastStamp' \in Nat /\ lastSend' \in Int
          /\ lastReceive' \in Nat \cup {Any} /\ expect' \in Nat \cup {Any}
      <3>1. \/ /\ lastStamp' = Head(toAgent).stamp /\ lastSend' = 0
               /\ lastReceive' = Any /\ expect' = Any
            \/ UNCHANGED <<lastStamp, lastSend, lastReceive, expect>>
        BY <1>6 DEF NotifyCleanup
      <3>2. Head(toAgent).stamp \in Nat
        BY <1>b, <2>1
      <3>3. /\ lastStamp \in Nat /\ lastSend \in Int
            /\ lastReceive \in Nat \cup {Any} /\ expect \in Nat \cup {Any}
        BY <1>0
      <3> HIDE DEF RpcLinkType, AgentType
      <3> QED BY <3>1, <3>2, <3>3
    <2> QED BY <1>0, <1>6, <1>b, <2>1, <2>2, <2>3, <2>4, ContentsType
            DEF NotifyCleanup, SendOutAck
  <1> QED BY <1>1, <1>2, <1>3, <1>4, <1>5, <1>6 DEF Callback

LEMMA LoopType ==
  ASSUME TypeInv, Loop \/ Fault, UNCHANGED emsVars
  PROVE  TypeInv'
  <1> USE DEF RpcLinkType, AgentType, monitorVars, loopVars, rpcLinkVars, Any
  <1>0. RpcLinkType /\ AgentType /\ EmsType' /\ Hand'
    BY EmsFrame DEF TypeInv, TypeOK, Hand
  <1>a. SUFFICES RpcLinkType' /\ AgentType'
    BY <1>0 DEF TypeInv, TypeOK
  <1>1. CASE Listen
    BY <1>0, <1>1 DEF Listen
  <1>2. CASE CleanUpEnvironment
    BY <1>0, <1>2 DEF CleanUpEnvironment
  <1>3. CASE PreDispatchFails
    BY <1>0, <1>3 DEF PreDispatchFails
  <1>4. CASE DispatchAbort
    BY <1>0, <1>4, ContentsType DEF DispatchAbort, Begun
  <1>5. CASE DispatchInternal
    BY <1>0, <1>5, ContentsType DEF DispatchInternal, Begun
  <1>6. CASE SaveContext
    BY <1>0, <1>6, ContentsType DEF SaveContext, Begun
  <1>7. CASE RestoreContext
    BY <1>0, <1>7 DEF RestoreContext
  <1>8. CASE ContinuePassive
    BY <1>0, <1>8 DEF ContinuePassive
  <1>9. CASE Sender
    BY <1>0, <1>9 DEF Sender
  <1>10. CASE SendAnswer
    BY <1>0, <1>10, PutType, FrameTypes DEF SendAnswer, MnpSendPacketOut
  <1>11. CASE SenderEnd
    BY <1>0, <1>11, ContentsType DEF SenderEnd
  <1>12. CASE Reset
    BY <1>0, <1>12, ContentsType DEF Reset, Upset, MonitorStatics, Unset
  <1>13. CASE NumberAnswer
    BY <1>0, <1>13 DEF NumberAnswer
  <1>14. CASE SetResendTimer
    BY <1>0, <1>14 DEF SetResendTimer
  <1>15. CASE RestoreZero
    BY <1>0, <1>15 DEF RestoreZero, Upset
  <1>16. CASE Exhausted
    <2>1. executed' \in Seq(Nat)
      <3>1. executed' \in {executed, Append(executed, cmd.id)}
        BY <1>16 DEF Exhausted, Begun
      <3>2. executed \in Seq(Nat) /\ cmd.id \in Nat
        BY <1>0, ContentsType
      <3> HIDE DEF AgentType, RpcLinkType
      <3> QED BY <3>1, <3>2
    <2>2. upsets' \in 0..MaxUpsets
      BY <1>0, <1>16 DEF Exhausted, Upset
    <2> QED BY <1>0, <1>16, <2>1, <2>2 DEF Exhausted
  <1>17. CASE PostDispatchFails
    BY <1>0, <1>17 DEF PostDispatchFails, Upset
  <1> QED BY <1>1, <1>2, <1>3, <1>4, <1>5, <1>6, <1>7, <1>8, <1>9, <1>10, <1>11, <1>12,
             <1>13, <1>14, <1>15, <1>16, <1>17 DEF Loop, Fault

(* The two timers and the link change frames only.                         *)
LEMMA FrameStepType ==
  ASSUME TypeInv,
         \/ ResendTimeHandler /\ UNCHANGED agentVars
         \/ ReSendTimer /\ UNCHANGED emsVars
         \/ Link
         \/ UNCHANGED vars
  PROVE  TypeInv'
  <1> USE DEF RpcLinkType
  <1>0. RpcLinkType /\ EmsType /\ AgentType /\ Hand
    BY DEF TypeInv, TypeOK
  <1>1. UNCHANGED <<emsVars, agentVars>>
    BY DEF ResendTimeHandler, ReSendTimer, Link, vars
  <1>2. EmsType' /\ AgentType' /\ Hand'
    BY <1>0, <1>1, EmsFrame, AgentFrame DEF Hand
  <1>3. ASSUME ResendTimeHandler PROVE RpcLinkType'
    BY <1>0, <1>3, PutType, FrameTypes DEF ResendTimeHandler, SendOutData, EmsType
  <1>4. ASSUME ReSendTimer PROVE RpcLinkType'
    BY <1>0, <1>4, PutType, FrameTypes DEF ReSendTimer, MnpSendPacketOut, AgentType
  <1>5. ASSUME Lose PROVE RpcLinkType'
    <2>1. upsets' \in 0..MaxUpsets
      BY <1>0, <1>5 DEF Lose, Upset
    <2>2. toAgent' = toAgent \/ (toAgent # <<>> /\ toAgent' = Tail(toAgent))
      BY <1>5 DEF Lose
    <2>3. toEms' = toEms \/ (toEms # <<>> /\ toEms' = Tail(toEms))
      BY <1>5 DEF Lose
    <2>4. toAgent' \in Seq(ToAgent)
      BY <1>0, <2>2, HeadTailType
    <2>5. toEms' \in Seq(ToEms)
      BY <1>0, <2>3, HeadTailType
    <2> QED BY <2>1, <2>4, <2>5
  <1>6. ASSUME Repeat PROVE RpcLinkType'
    <2>1. ASSUME toAgent # <<>> PROVE <<Head(toAgent)>> \o toAgent \in Seq(ToAgent)
      BY <1>0, <2>1, HeadTailType, ConcatType
    <2>2. ASSUME toEms # <<>> PROVE <<Head(toEms)>> \o toEms \in Seq(ToEms)
      BY <1>0, <2>2, HeadTailType, ConcatType
    <2>3. upsets' \in 0..MaxUpsets
      BY <1>0, <1>6 DEF Repeat, Upset
    <2>4. toAgent' = toAgent \/ (toAgent # <<>> /\ toAgent' = <<Head(toAgent)>> \o toAgent)
      BY <1>6 DEF Repeat
    <2>5. toEms' = toEms \/ (toEms # <<>> /\ toEms' = <<Head(toEms)>> \o toEms)
      BY <1>6 DEF Repeat
    <2> QED BY <1>0, <2>1, <2>2, <2>3, <2>4, <2>5
  <1>7. ASSUME UNCHANGED vars PROVE RpcLinkType'
    BY <1>0, <1>7 DEF vars, rpcLinkVars
  <1>8. RpcLinkType'
    BY <1>3, <1>4, <1>5, <1>6, <1>7 DEF Link, RpcLinkNext
  <1> QED BY <1>2, <1>8 DEF TypeInv, TypeOK

(* Every step of the two sides and of the link keeps the types.            *)
LEMMA NextType == TypeInv /\ [Next]_vars => TypeInv'
  <1> SUFFICES ASSUME TypeInv, [Next]_vars PROVE TypeInv' OBVIOUS
  <1>1. \/ Script /\ UNCHANGED agentVars
        \/ Listener /\ UNCHANGED agentVars
        \/ Callback /\ UNCHANGED emsVars
        \/ (Loop \/ Fault) /\ UNCHANGED emsVars
        \/ ResendTimeHandler /\ UNCHANGED agentVars
        \/ ReSendTimer /\ UNCHANGED emsVars
        \/ Link
        \/ UNCHANGED vars
    BY DEF Next, Ems, EmsNext, Agent, AgentNext
  <1> QED BY <1>1, ScriptType, ListenerType, CallbackType, LoopType, FrameStepType

(* The state of both sides keeps its types: whatever the network does, an  *)
(* answer is built from a command or from the stamp of a clean up, and the *)
(* numbers stay numbers across clean ups and resets.                       *)
THEOREM TypeCorrect == Spec => []TypeOK
  <1>1. TypeInv => TypeOK
    BY DEF TypeInv
  <1> QED BY <1>1, InitType, NextType, PTL DEF Spec

-----------------------------------------------------------------------------
(* A script is never given two answers to a command.                       *)

(* While a command is under way the answers given are to earlier ones.     *)
UnderWay == spc \in {"sleep", "counted", "locked", "recv"}

AnsInv ==
  /\ AnswersOnce
  /\ UnderWay => /\ Len(returned) < lastDataId
                 /\ \A i \in 1..Len(returned) : returned[i].id < lastDataId

(* Only the start and the end of a call touch what the invariant is about. *)
LEMMA AnsFrame ==
  ASSUME [Next]_vars
  PROVE  \/ RpcSendMessage \/ RpcRecvMessage
         \/ UNCHANGED <<returned, lastDataId>> /\ (UnderWay' => UnderWay)
  <1> USE DEF UnderWay, scriptVars, emsVars
  <1>1. ASSUME Script
        PROVE  \/ RpcSendMessage \/ RpcRecvMessage
               \/ UNCHANGED <<returned, lastDataId>> /\ (UnderWay' => UnderWay)
    BY <1>1 DEF Script, CountSendSeq, SendRivlMessage, MarkSending, TclRestartRecv,
                RestoreEmsRpcEnv, SendOutCleanup, CleanupEnd, SendOutProbe, ProbeEnd
  <1>2. ASSUME Listener PROVE UNCHANGED scriptVars
    BY <1>2 DEF Listener, HandleDataAck, HandleData, HandleProbeAck, HandleCleanupAck,
                ProcessFin, ProcessFinFails, RecycleSendPacket, Settle
  <1>3. ASSUME ResendTimeHandler \/ Agent \/ Link \/ UNCHANGED vars
        PROVE  UNCHANGED scriptVars
    BY <1>3 DEF ResendTimeHandler, Agent, Link, vars
  <1>4. Script \/ Listener \/ ResendTimeHandler \/ Agent \/ Link \/ UNCHANGED vars
    BY DEF Next, Ems, EmsNext
  <1> QED BY <1>1, <1>2, <1>3, <1>4

LEMMA NextAns == TypeInv /\ AnsInv /\ [Next]_vars => AnsInv'
  <1> SUFFICES ASSUME TypeInv, AnsInv, [Next]_vars PROVE AnsInv' OBVIOUS
  <1>0. /\ returned \in Seq([id : Int, body : Contents]) /\ lastDataId \in Nat
        /\ msgQ \in Seq([id : Int, body : Contents])
    BY DEF TypeInv, TypeOK, EmsType
  <1>a. \A i \in 1..Len(returned) : returned[i] \in [id : Int, body : Contents]
    BY <1>0, ElementType
  <1>b. \A i \in 1..Len(returned) : returned[i].id \in Int
    BY <1>a
  <1>1. CASE RpcSendMessage
    <2>1. returned' = returned /\ lastDataId' = lastDataId + 1
      BY <1>1 DEF RpcSendMessage
    <2>2. \A i \in 1..Len(returned) : returned[i].id \in Int /\ returned[i].id <= lastDataId
      BY <1>b DEF AnsInv, AnswersOnce
    <2>3. /\ \A i \in 1..Len(returned) : returned[i].id < lastDataId + 1
          /\ Len(returned) < lastDataId + 1
      BY <1>0, <2>2 DEF AnsInv, AnswersOnce
    <2> QED BY <2>1, <2>2, <2>3, <1>0 DEF AnsInv, AnswersOnce
  <1>2. CASE RpcRecvMessage
    <2>1. Head(msgQ) \in [id : Int, body : Contents] /\ lastDataId' = lastDataId
      BY <1>0, <1>2, HeadTailType DEF RpcRecvMessage
    <2>2. /\ \A i \in 1..Len(returned) : returned[i].id < lastDataId
          /\ Len(returned) < lastDataId
      BY <1>2 DEF RpcRecvMessage, AnsInv, UnderWay
    <2>3. CASE Head(msgQ).id \in {0, lastDataId}
      <3>1. returned' = Append(returned, Head(msgQ)) /\ spc' = "idle"
        BY <1>2, <2>3 DEF RpcRecvMessage
      <3>2. /\ Len(returned') = Len(returned) + 1
            /\ \A i \in 1..Len(returned) : returned'[i] = returned[i]
            /\ returned'[Len(returned')] = Head(msgQ)
        BY <1>0, <2>1, <3>1
      <3>3. \A i \in 1..Len(returned') : returned'[i].id <= lastDataId'
        <4> TAKE i \in 1..Len(returned')
        <4>1. CASE i = Len(returned')
          BY <1>0, <2>1, <2>3, <3>2, <4>1
        <4>2. CASE i # Len(returned')
          <5>1. i \in 1..Len(returned)
            BY <1>0, <3>2, <4>2
          <5>2. returned'[i] = returned[i] /\ returned[i].id \in Int
            BY <1>b, <3>2, <5>1
          <5> QED BY <1>0, <2>1, <2>2, <5>1, <5>2
        <4> QED BY <4>1, <4>2
      <3>4. ASSUME NEW i \in 1..Len(returned'), NEW j \in 1..Len(returned'), i < j
            PROVE  returned'[i].id < returned'[j].id \/ 0 \in {returned'[i].id, returned'[j].id}
        <4>1. i \in 1..Len(returned)
          BY <1>0, <3>2, <3>4
        <4>2. CASE j = Len(returned')
          BY <2>2, <2>3, <3>2, <4>1, <4>2
        <4>3. CASE j # Len(returned')
          <5>1. j \in 1..Len(returned)
            BY <1>0, <3>2, <4>3
          <5> QED BY <3>2, <3>4, <4>1, <5>1 DEF AnsInv, AnswersOnce
        <4> QED BY <4>2, <4>3
      <3>5. Len(returned') <= lastDataId'
        BY <1>0, <2>1, <2>2, <3>2
      <3> QED BY <3>1, <3>3, <3>4, <3>5 DEF AnsInv, AnswersOnce, UnderWay
    <2>4. CASE Head(msgQ).id \notin {0, lastDataId}
      BY <1>2, <2>1, <2>4 DEF RpcRecvMessage, AnsInv, AnswersOnce, UnderWay
    <2> QED BY <2>3, <2>4
  <1>3. CASE UNCHANGED <<returned, lastDataId>> /\ (UnderWay' => UnderWay)
    BY <1>3 DEF AnsInv, AnswersOnce
  <1> QED BY <1>1, <1>2, <1>3, AnsFrame

(* A script gets one answer per command at most, in the order of its       *)
(* commands and never one to a command it has not sent: RpcRecvMessage     *)
(* takes the answer with the DataId of the last command and drops others.  *)
THEOREM AnswersInOrder == Spec => []AnswersOnce
  <1>1. Init => AnsInv
    BY DEF Init, EmsInit, AnsInv, AnswersOnce, UnderWay
  <1>2. AnsInv => AnswersOnce
    BY DEF AnsInv
  <1> QED BY <1>1, <1>2, InitType, NextType, NextAns, PTL DEF Spec

-----------------------------------------------------------------------------
(* Commands are executed once and in order.                                *)

(* The network may lose and repeat, the EMS run out of memory, any number  *)
(* of times.  A script that does not wait for its answer, a clean up and a *)
(* reset start the numbers again or leave a command to be resent, an agent *)
(* without memory gives no answer and one without its record gives it the  *)
(* wrong number, and the sleep before a command is relied on to let the    *)
(* listener finish.                                                        *)
Calm ==
  /\ Prompt /\ "abort" \notin CommandKinds
  /\ Upsets \subseteq {"lose", "repeat", "memory"}

Elems(q) == {q[i] : i \in 1..Len(q)}

(* The last command that may be on the network.                            *)
Sent == IF spc \in {"sleep", "counted"} THEN lastDataId - 1 ELSE lastDataId

(* The timer has nothing to resend, or soon has not.                       *)
Clear == sendPkt = NoCmd \/ lpc = "recycle"

(* What the timer may resend has the number it is resent under: a command  *)
(* is only counted once the one before it has left SendPacket, which it    *)
(* has when its answer is in the queue.                                    *)
SendInv ==
  /\ spc \notin {"restored", "cleanup"}
  /\ lastSendSeq = FirstSeq + (IF spc = "sleep" THEN lastDataId - 1 ELSE lastDataId)
  /\ spc \in {"sleep", "counted", "locked"}
       => next.id = lastDataId /\ next.kind \in CommandKinds
  /\ sendPkt # NoCmd => FirstSeq + sendPkt.id = lastSendSeq
  /\ spc \in {"idle", "sleep", "probe"} => Clear
  /\ spc = "counted" => sendPkt = NoCmd
  /\ \A m \in Elems(msgQ) : m.id = lastDataId => Clear

(* No answer to a command is there before the command is sent.             *)
SentInv ==
  /\ \A p \in Elems(toAgent) : p.op = "DATA" => p.cmd.id <= Sent
  /\ \A p \in Elems(toEms) : p.op = "DATA" => p.id <= Sent
  /\ lpc = "fin" => rx.id <= Sent
  /\ \A m \in Elems(msgQ) : m.id <= Sent
  /\ savedApp <= Sent /\ ctx.app <= Sent

(* The number of a frame tells its command.                                *)
Numbered ==
  \A p \in Elems(toAgent) :
    p.op # "CLEANUP" /\ (p.op = "DATA" => p.seq = FirstSeq + p.cmd.id)

(* What was executed, what the loop holds and what the callback holds      *)
(* follow one another.                                                     *)
AcceptInv ==
  /\ \/ expect = Any /\ executed = <<>> /\ ~hasPkt /\ apc = "listen"
     \/ lastReceive \in Nat /\ expect = lastReceive + 1
  /\ hasPkt => /\ FirstSeq + bufIn.id = lastReceive
               /\ \A d \in Elems(executed) : d < bufIn.id
  /\ apc = "got" => /\ \A d \in Elems(executed) : d < cmd.id
                    /\ FirstSeq + cmd.id <= lastReceive
                    /\ hasPkt => cmd.id < bufIn.id
  /\ \A d \in Elems(executed) : FirstSeq + d <= lastReceive
  /\ ExecutedInOrder

OrdInv == SendInv /\ SentInv /\ Numbered /\ AcceptInv

LEMMA ElemsPut ==
  ASSUME NEW S, NEW q \in Seq(S), NEW x \in S
  PROVE  Elems(Put(q, x)) \subseteq Elems(q) \cup {x}
  BY DEF Elems, Put

LEMMA ElemsAppend ==
  ASSUME NEW S, NEW q \in Seq(S), NEW x \in S
  PROVE  Elems(Append(q, x)) \subseteq Elems(q) \cup {x}
  BY DEF Elems

LEMMA ElemsHeadTail ==
  ASSUME NEW S, NEW q \in Seq(S), q # <<>>
  PROVE  Head(q) \in Elems(q) /\ Elems(Tail(q)) \subseteq Elems(q)
  BY DEF Elems

LEMMA ElemsRepeat ==
  ASSUME NEW S, NEW q \in Seq(S), q # <<>>
  PROVE  Elems(<<Head(q)>> \o q) \subseteq Elems(q)
  <1> DEFINE r == <<Head(q)>> \o q
  <1>1. Len(r) = Len(q) + 1 /\ r[1] = q[1]
        /\ \A i \in 2..Len(r) : r[i] = q[i - 1]
    OBVIOUS
  <1>2. ASSUME NEW i \in 1..Len(r) PROVE r[i] \in Elems(q)
    <2>1. CASE i = 1
      BY <1>1, <2>1 DEF Elems
    <2>2. CASE i # 1
      BY <1>1, <2>2 DEF Elems
    <2> QED BY <2>1, <2>2
  <1> QED BY <1>2 DEF Elems

LEMMA ElemsType ==
  ASSUME NEW S, NEW q \in Seq(S)
  PROVE  Elems(q) \subseteq S
  BY ElementType DEF Elems

LEMMA ElemsEmpty == Elems(<<>>) = {}
  BY DEF Elems

(* The types the arithmetic needs.                                         *)
LEMMA OrdTypes ==
  ASSUME TypeInv
  PROVE  /\ lastDataId \in Nat /\ FirstSeq \in Nat /\ lastSendSeq \in Nat
         /\ next \in Contents /\ next.id \in Nat
         /\ sendPkt \in Contents /\ sendPkt.id \in Nat
         /\ cmd \in Contents /\ cmd.id \in Nat /\ bufIn.id \in Nat
         /\ savedApp \in Int /\ ctx.app \in Int
         /\ lastReceive \in Int /\ expect \in Int
         /\ toAgent \in Seq(ToAgent) /\ toEms \in Seq(ToEms)
         /\ msgQ \in Seq([id : Int, body : Contents]) /\ executed \in Seq(Nat)
         /\ \A p \in Elems(toAgent) : p.op = "DATA" => p.seq \in Nat /\ p.cmd.id \in Nat
         /\ \A p \in Elems(toEms) : p.op = "DATA" => p.id \in Int
         /\ \A m \in Elems(msgQ) : m.id \in Int
         /\ Elems(executed) \subseteq Nat
  <1>1. /\ toAgent \in Seq(ToAgent) /\ toEms \in Seq(ToEms)
        /\ msgQ \in Seq([id : Int, body : Contents]) /\ executed \in Seq(Nat)
    BY DEF TypeInv, TypeOK, RpcLinkType, EmsType, AgentType
  <1>2. /\ lastDataId \in 0..MaxCalls /\ lastSendSeq \in Nat
        /\ next \in Contents /\ sendPkt \in Contents
    BY DEF TypeInv, TypeOK, EmsType
  <1>3. /\ cmd \in Contents /\ bufIn \in Contents
        /\ savedApp \in Int /\ ctx \in [app : Int, send : Int]
        /\ lastReceive \in Nat \cup {Any} /\ expect \in Nat \cup {Any}
    BY DEF TypeInv, TypeOK, AgentType
  <1>4. lastDataId \in Nat /\ ctx.app \in Int /\ lastReceive \in Int /\ expect \in Int
    BY <1>2, <1>3 DEF Any
  <1>5. Elems(toAgent) \subseteq ToAgent /\ Elems(toEms) \subseteq ToEms
        /\ Elems(msgQ) \subseteq [id : Int, body : Contents]
        /\ Elems(executed) \subseteq Nat
    BY <1>1, ElemsType
  <1>6. \A p \in Elems(toAgent) : p.op = "DATA" => p.seq \in Nat /\ p.cmd.id \in Nat
    BY <1>5, ToAgentType, ContentsType
  <1>7. \A p \in Elems(toEms) : p.op = "DATA" => p.id \in Int
    BY <1>5, ToEmsType
  <1>8. \A m \in Elems(msgQ) : m.id \in Int
    BY <1>5
  <1> QED BY <1>1, <1>2, <1>3, <1>4, <1>5, <1>6, <1>7, <1>8, ContentsType

LEMMA AcceptFrame ==
  ASSUME AcceptInv, UNCHANGED agentVars
  PROVE  AcceptInv' /\ UNCHANGED <<savedApp, ctx>>
  BY DEF AcceptInv, ExecutedInOrder, agentVars, monitorVars, loopVars

LEMMA SendFrame ==
  ASSUME SendInv, UNCHANGED emsVars
  PROVE  SendInv' /\ Sent' = Sent /\ UNCHANGED <<lpc, rx, msgQ>>
  BY DEF SendInv, Clear, Sent, emsVars, scriptVars, sendVars, recvVars

(* The invariants of the frames hold when the new frames are right.        *)
LEMMA SentGrows ==
  ASSUME TypeInv, SentInv, Sent' \in Int, Sent <= Sent',
         \A p \in Elems(toAgent') :
           p \in Elems(toAgent) \/ p.op # "DATA" \/ p.cmd.id <= Sent',
         \A p \in Elems(toEms') :
           p \in Elems(toEms) \/ p.op # "DATA" \/ p.id <= Sent',
         lpc' = "fin" => (lpc = "fin" /\ rx' = rx) \/ rx'.id <= Sent',
         \A m \in Elems(msgQ') : m \in Elems(msgQ) \/ m.id <= Sent',
         savedApp' = savedApp \/ savedApp' <= Sent',
         ctx' = ctx \/ ctx'.app <= Sent'
  PROVE  SentInv'
  <1>1. Sent \in Int
    BY OrdTypes DEF Sent
  <1>2. \A p \in Elems(toAgent) : p.op = "DATA" => p.cmd.id \in Int /\ p.cmd.id <= Sent
    BY OrdTypes DEF SentInv
  <1>3. \A p \in Elems(toEms) : p.op = "DATA" => p.id \in Int /\ p.id <= Sent
    BY OrdTypes DEF SentInv
  <1>4. lpc = "fin" => rx.id \in Int /\ rx.id <= Sent
    BY ToEmsType DEF SentInv, TypeInv, Hand
  <1>5. \A m \in Elems(msgQ) : m.id \in Int /\ m.id <= Sent
    BY OrdTypes DEF SentInv
  <1>6. savedApp \in Int /\ ctx.app \in Int /\ savedApp <= Sent /\ ctx.app <= Sent
    BY OrdTypes DEF SentInv
  <1>7. \A p \in Elems(toAgent') : p.op = "DATA" => p.cmd.id <= Sent'
    BY <1>1, <1>2
  <1>8. \A p \in Elems(toEms') : p.op = "DATA" => p.id <= Sent'
    BY <1>1, <1>3
  <1>9. \A m \in Elems(msgQ') : m.id <= Sent'
    BY <1>1, <1>5
  <1>10. /\ lpc' = "fin" => rx'.id <= Sent'
         /\ savedApp' <= Sent' /\ ctx'.app <= Sent'
    BY <1>1, <1>4, <1>6
  <1> HIDE DEF Sent
  <1> QED BY <1>7, <1>8, <1>9, <1>10 DEF SentInv

LEMMA NumberedGrows ==
  ASSUME Numbered,
         \A p \in Elems(toAgent') :
           \/ p \in Elems(toAgent) \/ p.op \in {"DATA_ACK", "PROBE"}
           \/ p.op = "DATA" /\ p.seq = FirstSeq + p.cmd.id
  PROVE  Numbered'
  BY DEF Numbered

(* Every answer in the queue has the number of a command.                  *)
Named == \A m \in Elems(msgQ) : m.id # 0

(* The script: a command enters the network under its own number.          *)
LEMMA ScriptOrd ==
  ASSUME Calm, TypeInv, OrdInv, Named, Script
  PROVE  /\ SendInv' /\ Sent' \in Int /\ Sent <= Sent'
         /\ \A p \in Elems(toAgent') :
              \/ p \in Elems(toAgent) \/ p.op = "PROBE"
              \/ p.op = "DATA" /\ p.seq = FirstSeq + p.cmd.id /\ p.cmd.id <= Sent'
         /\ Elems(msgQ') \subseteq Elems(msgQ)
         /\ UNCHANGED <<toEms, lpc, rx>>
  <1> USE OrdTypes DEF scriptVars, sendVars, recvVars, rpcLinkVars
  <1>0. SendInv /\ SentInv /\ Numbered
    BY DEF OrdInv
  <1>1. CASE RpcSendMessage
    <2>1. /\ spc = "idle" /\ spc' = "sleep" /\ lastDataId' = lastDataId + 1
          /\ UNCHANGED <<toAgent, toEms, lpc, rx, msgQ, lastSendSeq, sendPkt>>
      BY <1>1 DEF RpcSendMessage
    <2>2. next'.id = lastDataId' /\ next'.kind \in CommandKinds
      BY <1>1 DEF RpcSendMessage
    <2>3. Sent = lastDataId /\ Sent' = lastDataId
      BY <2>1 DEF Sent
    <2>4. \A m \in Elems(msgQ) : m.id # lastDataId'
      BY <1>0, <2>1, <2>3 DEF SentInv
    <2>5. lastSendSeq' = FirstSeq + (lastDataId' - 1)
      BY <1>0, <2>1 DEF SendInv
    <2>6. /\ Clear' /\ (sendPkt' # NoCmd => FirstSeq + sendPkt'.id = lastSendSeq')
          /\ Elems(msgQ)' = Elems(msgQ)
      BY <1>0, <2>1 DEF SendInv, Clear
    <2>7. SendInv'
      BY <2>1, <2>2, <2>5, <2>6 DEF SendInv
    <2> QED BY <2>1, <2>3, <2>7
  <1>2. CASE CountSendSeq
    <2>1. /\ spc = "sleep" /\ spc' = "counted" /\ lastSendSeq' = lastSendSeq + 1
          /\ lpc = "idle"
          /\ UNCHANGED <<toAgent, toEms, lpc, rx, msgQ, lastDataId, next, sendPkt>>
      BY <1>2 DEF CountSendSeq, SleepOver, Calm
    <2>2. sendPkt = NoCmd
      BY <1>0, <2>1 DEF SendInv, Clear
    <2>3. Sent' = Sent /\ Sent \in Int
      BY <2>1 DEF Sent
    <2>4. SendInv'
      BY <1>0, <2>1, <2>2 DEF SendInv, Clear
    <2> QED BY <2>1, <2>3, <2>4
  <1>3. CASE SendRivlMessage
    <2>1. /\ spc = "counted" /\ spc' = "locked" /\ sendPkt' = next
          /\ toAgent' = Put(toAgent, Data(lastSendSeq, next))
          /\ UNCHANGED <<toEms, lpc, rx, msgQ, lastDataId, next, lastSendSeq>>
      BY <1>3 DEF SendRivlMessage, SendOutData
    <2>2. next.id = lastDataId /\ lastSendSeq = FirstSeq + lastDataId
      BY <1>0, <2>1 DEF SendInv
    <2>3. Sent = lastDataId - 1 /\ Sent' = lastDataId
      BY <2>1 DEF Sent
    <2>4. \A m \in Elems(msgQ) : m.id # lastDataId
      BY <1>0, <2>3 DEF SentInv
    <2>5. SendInv'
      BY <1>0, <2>1, <2>2, <2>4 DEF SendInv, Clear
    <2>6. Elems(toAgent') \subseteq Elems(toAgent) \cup {Data(lastSendSeq, next)}
      BY <2>1, ElemsPut, FrameTypes
    <2>7. LET p == Data(lastSendSeq, next)
          IN p.op = "DATA" /\ p.seq = lastSendSeq /\ p.cmd = next
      BY DEF Data
    <2>8. LET p == Data(lastSendSeq, next)
          IN p.op = "DATA" /\ p.seq = FirstSeq + p.cmd.id /\ p.cmd.id <= Sent'
      BY <2>2, <2>3, <2>7
    <2>9. Sent' \in Int /\ Sent <= Sent'
      BY <2>3
    <2> QED BY <2>1, <2>5, <2>6, <2>8, <2>9
  <1>4. CASE MarkSending
    <2>1. spc = "locked" /\ next.kind # "abort"
      BY <1>0, <1>4 DEF MarkSending, SendInv, Calm
    <2>2. /\ spc' = "recv"
          /\ UNCHANGED <<toAgent, toEms, lpc, rx, msgQ, lastDataId, lastSendSeq, sendPkt>>
      BY <1>4, <2>1 DEF MarkSending, Upset, Calm
    <2>3. Sent' = Sent /\ Sent \in Int
      BY <2>1, <2>2 DEF Sent
    <2>4. SendInv'
      BY <1>0, <2>1, <2>2 DEF SendInv, Clear
    <2> QED BY <2>2, <2>3, <2>4
  <1>5. CASE RpcRecvMessage
    <2>1. /\ spc = "recv" /\ msgQ # <<>> /\ msgQ' = Tail(msgQ)
          /\ UNCHANGED <<toAgent, toEms, lpc, rx, lastDataId, lastSendSeq, sendPkt>>
          /\ spc' = "recv" \/ (spc' = "idle" /\ Head(msgQ).id \in {0, lastDataId})
      BY <1>5 DEF RpcRecvMessage
    <2>2. Head(msgQ) \in Elems(msgQ) /\ Elems(msgQ') \subseteq Elems(msgQ)
      BY <2>1, ElemsHeadTail
    <2>3. spc' = "idle" => Clear
      BY <1>0, <2>1, <2>2 DEF SendInv, Named
    <2>4. Sent' = Sent /\ Sent \in Int
      BY <2>1 DEF Sent
    <2>5. SendInv'
      BY <1>0, <2>1, <2>2, <2>3 DEF SendInv, Clear
    <2> QED BY <2>1, <2>2, <2>4, <2>5
  <1>6. CASE TclRestartRecv
    <2>1. /\ msgQ' = <<>>
          /\ UNCHANGED <<spc, toAgent, toEms, lpc, rx, lastDataId, next, lastSendSeq, sendPkt>>
      BY <1>6 DEF TclRestartRecv
    <2>2. Elems(msgQ') = {}
      BY <2>1, ElemsEmpty
    <2>3. Sent' = Sent /\ Sent \in Int
      BY <2>1 DEF Sent
    <2>4. SendInv'
      BY <1>0, <2>1, <2>2 DEF SendInv, Clear
    <2> QED BY <2>1, <2>2, <2>3, <2>4
  <1>7. CASE RestoreEmsRpcEnv \/ SendOutCleanup \/ CleanupEnd
    BY <1>0, <1>7 DEF RestoreEmsRpcEnv, SendOutCleanup, CleanupEnd, Upset, Calm, SendInv
  <1>8. CASE SendOutProbe
    <2>1. /\ spc = "idle" /\ spc' = "probe" /\ toAgent' = Put(toAgent, Control("PROBE", 0))
          /\ UNCHANGED <<toEms, lpc, rx, msgQ, lastDataId, lastSendSeq, sendPkt>>
      BY <1>8 DEF SendOutProbe
    <2>2. Elems(toAgent') \subseteq Elems(toAgent) \cup {Control("PROBE", 0)}
      BY <2>1, ElemsPut, FrameTypes
    <2>3. Sent' = Sent /\ Sent \in Int
      BY <2>1 DEF Sent
    <2>4. SendInv'
      BY <1>0, <2>1 DEF SendInv, Clear
    <2>5. Control("PROBE", 0).op = "PROBE"
      BY DEF Control
    <2> QED BY <2>1, <2>2, <2>3, <2>4, <2>5
  <1>9. CASE ProbeEnd
    <2>1. /\ spc = "probe" /\ spc' = "idle"
          /\ UNCHANGED <<toAgent, toEms, lpc, rx, msgQ, lastDataId, lastSendSeq, sendPkt>>
      BY <1>9 DEF ProbeEnd
    <2>2. Sent' = Sent /\ Sent \in Int
      BY <2>1 DEF Sent
    <2>3. SendInv'
      BY <1>0, <2>1 DEF SendInv, Clear
    <2> QED BY <2>1, <2>2, <2>3
  <1> QED BY <1>1, <1>2, <1>3, <1>4, <1>5, <1>6, <1>7, <1>8, <1>9 DEF Script

(* The listener: it clears SendPacket, and queues answers while it is      *)
(* about to.                                                               *)
LEMMA ListenerOrd ==
  ASSUME Calm, TypeInv, OrdInv, Listener
  PROVE  /\ SendInv' /\ Sent' = Sent
         /\ \A p \in Elems(toAgent') : p \in Elems(toAgent) \/ p.op = "DATA_ACK"
         /\ Elems(toEms') \subseteq Elems(toEms)
         /\ lpc' = "fin" => (lpc = "fin" /\ rx' = rx) \/ rx'.id <= Sent'
         /\ \A m \in Elems(msgQ') : m \in Elems(msgQ) \/ m.id <= Sent'
  <1> USE OrdTypes DEF scriptVars, sendVars, recvVars, flagVars, rpcLinkVars
  <1>0. SendInv /\ SentInv
    BY DEF OrdInv
  <1>a. UNCHANGED <<spc, next, lastDataId, lastSendSeq>>
    BY DEF Listener, HandleDataAck, HandleData, HandleProbeAck, HandleCleanupAck,
           ProcessFin, ProcessFinFails, RecycleSendPacket, Settle
  <1>b. Sent' = Sent /\ Sent \in Int
    BY <1>a DEF Sent
  <1>c. ASSUME UNCHANGED <<sendPkt, msgQ>>, lpc # "recycle" \/ lpc' = "recycle"
        PROVE  SendInv'
    BY <1>0, <1>a, <1>c DEF SendInv, Clear
  <1>d. ASSUME NEW o, Receive(o)
        PROVE  /\ Head(toEms) \in Elems(toEms) /\ Elems(toEms') \subseteq Elems(toEms)
               /\ Head(toEms).op = o /\ lpc = "idle"
    BY <1>d, ElemsHeadTail DEF Receive
  <1>1. CASE HandleDataAck
    BY <1>1, <1>b, <1>c, <1>d DEF HandleDataAck
  <1>2. CASE HandleData
    <2>1. /\ Receive("DATA") /\ UNCHANGED <<sendPkt, msgQ>>
          /\ lpc' = "fin" \/ lpc' = lpc
          /\ lpc' = "fin" => rx' = Head(toEms) \/ (lpc = "fin" /\ rx' = rx)
          /\ toAgent' = toAgent \/ toAgent' = Put(toAgent, Control("DATA_ACK", Head(toEms).seq))
      BY <1>2 DEF HandleData
    <2>2. SendInv'
      BY <1>c, <1>d, <2>1
    <2>3. Head(toEms).id <= Sent
      BY <1>0, <1>d, <2>1 DEF SentInv
    <2>4. Head(toEms).seq \in Int
      BY <2>1, HeadTailType, ToEmsType DEF Receive
    <2>5. Elems(Put(toAgent, Control("DATA_ACK", Head(toEms).seq)))
            \subseteq Elems(toAgent) \cup {Control("DATA_ACK", Head(toEms).seq)}
      BY <2>4, ElemsPut, FrameTypes
    <2>6. Control("DATA_ACK", Head(toEms).seq).op = "DATA_ACK"
      BY DEF Control
    <2> QED BY <1>b, <1>d, <2>1, <2>2, <2>3, <2>5, <2>6
  <1>3. CASE HandleProbeAck
    BY <1>3, <1>b, <1>c, <1>d DEF HandleProbeAck
  <1>4. CASE HandleCleanupAck
    BY <1>4, <1>b, <1>c, <1>d DEF HandleCleanupAck
  <1>5. CASE ProcessFin
    <2> DEFINE m == [id |-> rx.id, body |-> rx.body]
    <2>1. /\ lpc = "fin" /\ lpc' = "recycle" /\ msgQ' = Append(msgQ, m)
          /\ UNCHANGED <<toAgent, toEms, sendPkt>>
      BY <1>5 DEF ProcessFin
    <2>2. m \in [id : Int, body : Contents]
      BY <2>1, ToEmsType DEF TypeInv, Hand
    <2>4. m.id <= Sent
      BY <1>0, <2>1 DEF SentInv
    <2>3. Elems(Append(msgQ, m)) \subseteq Elems(msgQ) \cup {m}
      <3>1. msgQ \in Seq([id : Int, body : Contents])
        OBVIOUS
      <3> HIDE OrdTypes DEF m
      <3> QED BY <2>2, <3>1, ElemsAppend
    <2>5. SendInv'
      BY <1>0, <1>a, <2>1 DEF SendInv, Clear
    <2> QED BY <1>b, <2>1, <2>3, <2>4, <2>5
  <1>6. CASE ProcessFinFails
    BY <1>6, <1>b, <1>c DEF ProcessFinFails
  <1>7. CASE RecycleSendPacket
    <2>1. /\ sendPkt' = NoCmd /\ lpc' = "settle"
          /\ UNCHANGED <<toAgent, toEms, msgQ>>
      BY <1>7 DEF RecycleSendPacket
    <2>2. SendInv'
      BY <1>0, <1>a, <2>1 DEF SendInv, Clear
    <2> QED BY <1>b, <2>1, <2>2
  <1>8. CASE Settle
    BY <1>8, <1>b, <1>c DEF Settle
  <1> QED BY <1>1, <1>2, <1>3, <1>4, <1>5, <1>6, <1>7, <1>8 DEF Listener

(* The two timers: what they repeat is right.                              *)
LEMMA TimerOrd ==
  ASSUME TypeInv, OrdInv
  PROVE  /\ ResendTimeHandler =>
              \A p \in Elems(toAgent') :
                \/ p \in Elems(toAgent)
                \/ p.op = "DATA" /\ p.seq = FirstSeq + p.cmd.id /\ p.cmd.id <= Sent
         /\ ReSendTimer =>
              \A p \in Elems(toEms') :
                p \in Elems(toEms) \/ (p.op = "DATA" /\ p.id <= Sent)
  <1> USE OrdTypes
  <1>1. ASSUME ResendTimeHandler
        PROVE  \A p \in Elems(toAgent') :
                \/ p \in Elems(toAgent)
                \/ p.op = "DATA" /\ p.seq = FirstSeq + p.cmd.id /\ p.cmd.id <= Sent
    <2> DEFINE d == Data(lastSendSeq, sendPkt)
    <2>1. sendPkt # NoCmd /\ toAgent' = Put(toAgent, d)
      BY <1>1 DEF ResendTimeHandler, SendOutData
    <2>2. Elems(toAgent') \subseteq Elems(toAgent) \cup {d}
      BY <2>1, ElemsPut, FrameTypes
    <2>3. d.op = "DATA" /\ d.seq = lastSendSeq /\ d.cmd = sendPkt
      BY DEF Data
    <2>4. FirstSeq + sendPkt.id = lastSendSeq /\ spc # "counted"
      BY <2>1 DEF OrdInv, SendInv
    <2>5. sendPkt.id <= Sent
      BY <2>4 DEF OrdInv, SendInv, Sent
    <2> QED BY <2>2, <2>3, <2>4, <2>5
  <1>2. ASSUME ReSendTimer
        PROVE  \A p \in Elems(toEms') :
                 p \in Elems(toEms) \/ (p.op = "DATA" /\ p.id <= Sent)
    <2> DEFINE a == Answer(lastSend, savedApp, outBuf)
    <2>1. toEms' = Put(toEms, a)
      BY <1>2 DEF ReSendTimer, MnpSendPacketOut
    <2>2. a \in ToEms
      BY FrameTypes DEF TypeInv, TypeOK, AgentType
    <2>3. Elems(toEms') \subseteq Elems(toEms) \cup {a}
      BY <2>1, <2>2, ElemsPut
    <2>4. a.op = "DATA" /\ a.id = savedApp /\ savedApp <= Sent
      BY DEF Answer, OrdInv, SentInv
    <2> QED BY <2>3, <2>4
  <1> QED BY <1>1, <1>2

(* The callback: a new command follows the last one received.              *)
LEMMA CallbackOrd ==
  ASSUME TypeInv, OrdInv, Callback
  PROVE  /\ AcceptInv' /\ ctx' = ctx
         /\ savedApp' = savedApp \/ savedApp' <= Sent
         /\ Elems(toAgent') \subseteq Elems(toAgent)
         /\ \A p \in Elems(toEms') : p \in Elems(toEms) \/ p.op # "DATA"
  <1> USE DEF monitorVars, loopVars, agentVars
  <1>t. /\ FirstSeq \in Nat /\ cmd.id \in Nat /\ lastReceive \in Int /\ expect \in Int
        /\ Elems(executed) \subseteq Nat
    BY OrdTypes
  <1>u. /\ toAgent \in Seq(ToAgent) /\ toEms \in Seq(ToEms)
        /\ \A p \in Elems(toAgent) : p.op = "DATA" => p.seq \in Nat /\ p.cmd.id \in Nat
    BY OrdTypes
  <1>0. AcceptInv /\ Numbered /\ SentInv
    BY DEF OrdInv
  <1>a. /\ UNCHANGED loopVars
        /\ toAgent # <<>> /\ toAgent' = Tail(toAgent)
    BY DEF Callback, Ignore, NotifyProbe, NotifyNewData, NotifyOldData,
           NotifyDataAck, NotifyCleanup, Notify
  <1>b. Head(toAgent) \in Elems(toAgent) /\ Elems(toAgent') \subseteq Elems(toAgent)
    BY <1>a, <1>u, ElemsHeadTail
  <1>c. /\ Head(toAgent).op # "CLEANUP"
        /\ Head(toAgent).op = "DATA" =>
             Head(toAgent).seq = FirstSeq + Head(toAgent).cmd.id
    BY <1>0, <1>b DEF Numbered
  <1>d. Head(toAgent).seq \in Int
    BY <1>a, <1>u, HeadTailType, ToAgentType
  <1>e. ASSUME NEW o \in {"DATA_ACK", "PROBE_ACK"}, NEW q \in {toEms, Put(toEms, Control(o, Head(toAgent).seq))}
        PROVE  \A p \in Elems(q) : p \in Elems(toEms) \/ p.op # "DATA"
    <2> DEFINE k == Control(o, Head(toAgent).seq)
    <2>1. k \in ToEms
      BY <1>d, FrameTypes
    <2>2. k.op # "DATA"
      BY DEF Control
    <2> HIDE DEF k
    <2>3. Elems(Put(toEms, k)) \subseteq Elems(toEms) \cup {k}
      BY <1>u, <2>1, ElemsPut
    <2> QED BY <2>2, <2>3 DEF k
  <1>f. ASSUME UNCHANGED <<expect, lastReceive, hasPkt>>, bufIn' = bufIn \/ ~hasPkt
        PROVE  AcceptInv'
    BY <1>0, <1>a, <1>f DEF AcceptInv, ExecutedInOrder
  <1>1. CASE Ignore
    <2>1. UNCHANGED <<expect, lastReceive, hasPkt, bufIn, savedApp, ctx, toEms>>
      BY <1>1 DEF Ignore
    <2> QED BY <1>b, <1>f, <2>1
  <1>2. CASE NotifyProbe
    <2>1. /\ UNCHANGED <<expect, lastReceive, hasPkt, bufIn, savedApp, ctx>>
          /\ toEms' = Put(toEms, Control("PROBE_ACK", Head(toAgent).seq))
      BY <1>2, <1>a DEF NotifyProbe, SendOutAck
    <2> QED BY <1>b, <1>e, <1>f, <2>1
  <1>3. CASE NotifyNewData
    <2> DEFINE p == Head(toAgent)
    <2>1. /\ p.op = "DATA" /\ (expect = Any \/ expect = p.seq) /\ ~hasPkt
          /\ savedApp' = p.cmd.id /\ bufIn' = p.cmd /\ hasPkt'
          /\ lastReceive' = p.seq /\ expect' = p.seq + 1
          /\ UNCHANGED <<ctx, executed, apc, cmd>>
          /\ toEms' = Put(toEms, Control("DATA_ACK", p.seq))
      BY <1>3, <1>a DEF NotifyNewData, Notify, IsNew, SendOutAck
    <2>2. p.cmd.id \in Nat /\ p.seq \in Nat /\ p.seq = FirstSeq + p.cmd.id /\ p.cmd.id <= Sent
      BY <1>0, <1>b, <1>c, <1>u, <2>1 DEF SentInv
    <2> HIDE DEF p
    <2>3. ASSUME expect = Any, executed = <<>>, apc = "listen"
          PROVE  AcceptInv'
      <3>1. Elems(executed) = {}
        BY <2>3, ElemsEmpty
      <3>2. lastReceive' \in Nat /\ expect' = lastReceive' + 1
            /\ FirstSeq + bufIn'.id = lastReceive' /\ apc' # "got"
        BY <2>1, <2>2, <2>3
      <3>3. Elems(executed') = {} /\ ExecutedInOrder'
        BY <1>0, <2>1, <3>1 DEF AcceptInv, ExecutedInOrder
      <3> QED BY <3>2, <3>3 DEF AcceptInv
    <2>4. ASSUME lastReceive \in Nat, expect = lastReceive + 1
          PROVE  AcceptInv'
      <3>1. p.seq = lastReceive + 1
        BY <2>1, <2>2, <2>4 DEF Any
      <3>2. \A d \in Elems(executed) : d \in Nat /\ d < p.cmd.id /\ FirstSeq + d <= p.seq
        <4> TAKE d \in Elems(executed)
        <4>1. d \in Nat /\ FirstSeq + d <= lastReceive
          BY <1>0, <1>t DEF AcceptInv
        <4> QED BY <1>t, <2>2, <3>1, <4>1
      <3>3. apc = "got" => cmd.id < p.cmd.id /\ FirstSeq + cmd.id <= p.seq
        <4>1. apc = "got" => FirstSeq + cmd.id <= lastReceive
          BY <1>0 DEF AcceptInv
        <4> QED BY <1>t, <2>2, <3>1, <4>1
      <3>4. apc = "got" => \A d \in Elems(executed) : d < cmd.id
        BY <1>0 DEF AcceptInv
      <3>5. ExecutedInOrder' /\ Elems(executed)' = Elems(executed)
        BY <1>0, <2>1 DEF AcceptInv, ExecutedInOrder
      <3>6. /\ lastReceive' \in Nat /\ expect' = lastReceive' + 1
            /\ FirstSeq + bufIn'.id = lastReceive'
            /\ \A d \in Elems(executed') : d < bufIn'.id /\ FirstSeq + d <= lastReceive'
        BY <2>1, <2>2, <3>2
      <3>7. apc' = "got" => /\ \A d \in Elems(executed') : d < cmd'.id
                            /\ FirstSeq + cmd'.id <= lastReceive' /\ cmd'.id < bufIn'.id
        BY <2>1, <3>3, <3>4
      <3> QED BY <3>5, <3>6, <3>7 DEF AcceptInv
    <2>5. AcceptInv'
      BY <1>0, <2>3, <2>4 DEF AcceptInv
    <2>6. \A x \in Elems(toEms') : x \in Elems(toEms) \/ x.op # "DATA"
      BY <1>e, <2>1 DEF p
    <2> QED BY <1>b, <2>1, <2>2, <2>5, <2>6
  <1>4. CASE NotifyOldData
    <2>1. /\ UNCHANGED <<expect, lastReceive, hasPkt, savedApp, ctx>> /\ ~hasPkt
          /\ toEms' = toEms \/ toEms' = Put(toEms, Control("DATA_ACK", Head(toAgent).seq))
      BY <1>4, <1>a DEF NotifyOldData, Notify, SendOutAck
    <2> QED BY <1>b, <1>e, <1>f, <2>1
  <1>5. CASE NotifyDataAck
    <2>1. UNCHANGED <<expect, lastReceive, hasPkt, bufIn, savedApp, ctx, toEms>>
      BY <1>5, <1>a DEF NotifyDataAck
    <2> QED BY <1>b, <1>f, <2>1
  <1>6. CASE NotifyCleanup
    BY <1>6, <1>c DEF NotifyCleanup, Notify
  <1> QED BY <1>1, <1>2, <1>3, <1>4, <1>5, <1>6 DEF Callback

(* The loop: the command it holds is the next one to execute.              *)
LEMMA LoopOrd ==
  ASSUME TypeInv, OrdInv, Loop
  PROVE  /\ AcceptInv' /\ toAgent' = toAgent
         /\ savedApp' = savedApp \/ savedApp' <= Sent
         /\ ctx' = ctx \/ ctx'.app <= Sent
         /\ \A p \in Elems(toEms') : p \in Elems(toEms) \/ p.op # "DATA" \/ p.id <= Sent
  <1> USE DEF monitorVars, loopVars, rpcLinkVars
  <1>0. AcceptInv /\ SentInv
    BY DEF OrdInv
  <1>t. /\ FirstSeq \in Nat /\ cmd.id \in Nat /\ lastReceive \in Int
        /\ executed \in Seq(Nat) /\ Elems(executed) \subseteq Nat
    BY OrdTypes
  <1>a. ASSUME UNCHANGED <<expect, lastReceive, hasPkt, bufIn, executed>>,
               apc # "listen", apc' # "got"
        PROVE  AcceptInv'
    BY <1>0, <1>a DEF AcceptInv, ExecutedInOrder
  <1>1. CASE Listen
    <2>1. /\ apc = "listen" /\ hasPkt /\ ~hasPkt' /\ cmd' = bufIn /\ apc' = "got"
          /\ UNCHANGED <<expect, lastReceive, executed, toAgent, toEms, savedApp, ctx>>
      BY <1>1 DEF Listen
    <2>2. lastReceive \in Nat /\ expect = lastReceive + 1 /\ FirstSeq + bufIn.id = lastReceive
      BY <1>0, <2>1 DEF AcceptInv
    <2>3. AcceptInv'
      BY <1>0, <1>t, <2>1, <2>2 DEF AcceptInv, ExecutedInOrder
    <2> QED BY <2>1, <2>3
  <1>2. CASE CleanUpEnvironment
    BY <1>2, <1>a DEF CleanUpEnvironment
  <1>3. CASE PreDispatchFails
    BY <1>3, <1>a DEF PreDispatchFails, Dispatch
  <1>4. ASSUME apc = "got", executed' = Append(executed, cmd.id), apc' \notin {"got", "listen"},
               UNCHANGED <<expect, lastReceive, hasPkt, bufIn>>
        PROVE  AcceptInv'
    <2>1. /\ \A d \in Elems(executed) : d < cmd.id /\ FirstSeq + d <= lastReceive
          /\ FirstSeq + cmd.id <= lastReceive
          /\ hasPkt => /\ cmd.id < bufIn.id /\ FirstSeq + bufIn.id = lastReceive
                       /\ \A d \in Elems(executed) : d < bufIn.id
          /\ lastReceive \in Nat /\ expect = lastReceive + 1
      BY <1>0, <1>4 DEF AcceptInv
    <2>2. Elems(executed') \subseteq Elems(executed) \cup {cmd.id}
      BY <1>t, <1>4, ElemsAppend
    <2>3. ExecutedInOrder'
      <3>1. /\ Len(executed') = Len(executed) + 1
            /\ \A i \in 1..Len(executed) : executed'[i] = executed[i]
            /\ executed'[Len(executed')] = cmd.id
        BY <1>t, <1>4
      <3>2. \A i \in 1..Len(executed) : executed[i] < cmd.id
        BY <2>1 DEF Elems
      <3>3. ASSUME NEW i \in 1..Len(executed'), NEW j \in 1..Len(executed'), i < j
            PROVE  executed'[i] < executed'[j]
        <4>1. i \in 1..Len(executed)
          BY <1>t, <3>1, <3>3
        <4>2. CASE j = Len(executed')
          BY <3>1, <3>2, <4>1, <4>2
        <4>3. CASE j # Len(executed')
          <5>1. j \in 1..Len(executed)
            BY <1>t, <3>1, <4>3
          <5> QED BY <1>0, <3>1, <3>3, <4>1, <5>1 DEF AcceptInv, ExecutedInOrder
        <4> QED BY <4>2, <4>3
      <3> QED BY <3>3 DEF ExecutedInOrder
    <2>4. \A d \in Elems(executed') : FirstSeq + d <= lastReceive'
      BY <1>4, <2>1, <2>2
    <2>5. hasPkt' => /\ FirstSeq + bufIn'.id = lastReceive'
                     /\ \A d \in Elems(executed') : d < bufIn'.id
      BY <1>4, <2>1, <2>2
    <2> QED BY <1>4, <2>1, <2>3, <2>4, <2>5 DEF AcceptInv
  <1>5. CASE DispatchAbort
    BY <1>4, <1>5 DEF DispatchAbort, Dispatch, Begun
  <1>6. CASE DispatchInternal
    BY <1>4, <1>6 DEF DispatchInternal, Dispatch, Begun
  <1>7. CASE SaveContext
    <2>1. AcceptInv' /\ UNCHANGED <<toAgent, toEms, savedApp>>
      BY <1>4, <1>7 DEF SaveContext, Dispatch, Begun
    <2>2. ctx'.app = savedApp
      BY <1>7 DEF SaveContext
    <2> QED BY <1>0, <2>1, <2>2 DEF SentInv
  <1>8. CASE RestoreContext
    <2>1. AcceptInv' /\ UNCHANGED <<toAgent, toEms, ctx>> /\ savedApp' = ctx.app
      BY <1>a, <1>8 DEF RestoreContext
    <2> QED BY <1>0, <2>1 DEF SentInv
  <1>9. CASE ContinuePassive
    BY <1>9, <1>a DEF ContinuePassive
  <1>10. CASE Sender
    BY <1>10, <1>a DEF Sender
  <1>11. CASE SendAnswer
    <2> DEFINE a == Answer(lastSend, savedApp, cmd)
    <2>1. AcceptInv' /\ UNCHANGED <<toAgent, savedApp, ctx>> /\ toEms' = Put(toEms, a)
      BY <1>11, <1>a DEF SendAnswer, MnpSendPacketOut
    <2>2. lastSend \in Int
      BY DEF TypeInv, TypeOK, AgentType
    <2>3. a \in ToEms /\ toEms \in Seq(ToEms)
      BY <2>2, OrdTypes, FrameTypes
    <2>4. a.op = "DATA" /\ a.id = savedApp /\ savedApp <= Sent
      BY <1>0 DEF Answer, SentInv
    <2>5. Elems(Put(toEms, a)) \subseteq Elems(toEms) \cup {a}
      BY <2>3, ElemsPut
    <2> QED BY <2>1, <2>4, <2>5
  <1>12. CASE SenderEnd
    BY <1>12, <1>a DEF SenderEnd
  <1>13. CASE NumberAnswer \/ SetResendTimer
    BY <1>13, <1>a DEF NumberAnswer, SetResendTimer
  <1> QED BY <1>1, <1>2, <1>3, <1>5, <1>6, <1>7, <1>8, <1>9, <1>10, <1>11, <1>12, <1>13
          DEF Loop

(* The link only loses and repeats.                                        *)
LEMMA LinkOrd ==
  ASSUME TypeInv, RpcLinkNext
  PROVE  Elems(toAgent') \subseteq Elems(toAgent) /\ Elems(toEms') \subseteq Elems(toEms)
  <1>t. toAgent \in Seq(ToAgent) /\ toEms \in Seq(ToEms)
    BY OrdTypes
  <1>1. /\ \/ toAgent' = toAgent
           \/ toAgent # <<>> /\ toAgent' \in {Tail(toAgent), <<Head(toAgent)>> \o toAgent}
        /\ \/ toEms' = toEms
           \/ toEms # <<>> /\ toEms' \in {Tail(toEms), <<Head(toEms)>> \o toEms}
    BY DEF RpcLinkNext, Lose, Repeat
  <1>2. ASSUME toAgent # <<>>
        PROVE  /\ Elems(Tail(toAgent)) \subseteq Elems(toAgent)
               /\ Elems(<<Head(toAgent)>> \o toAgent) \subseteq Elems(toAgent)
    BY <1>t, <1>2, ElemsHeadTail, ElemsRepeat
  <1>3. ASSUME toEms # <<>>
        PROVE  /\ Elems(Tail(toEms)) \subseteq Elems(toEms)
               /\ Elems(<<Head(toEms)>> \o toEms) \subseteq Elems(toEms)
    BY <1>t, <1>3, ElemsHeadTail, ElemsRepeat
  <1> QED BY <1>1, <1>2, <1>3

(* Every step keeps commands numbered and in order.                        *)
LEMMA NextOrd ==
  ASSUME Calm, TypeInv, OrdInv, Named, [Next]_vars
  PROVE  OrdInv'
  <1>0. SendInv /\ SentInv /\ Numbered /\ AcceptInv /\ Sent \in Int /\ Sent <= Sent
    BY OrdTypes DEF OrdInv, Sent
  <1>1. CASE Script /\ UNCHANGED agentVars
    <2>1. /\ SendInv' /\ Sent' \in Int /\ Sent <= Sent'
          /\ \A p \in Elems(toAgent') :
              \/ p \in Elems(toAgent) \/ p.op = "PROBE"
              \/ p.op = "DATA" /\ p.seq = FirstSeq + p.cmd.id /\ p.cmd.id <= Sent'
          /\ Elems(msgQ') \subseteq Elems(msgQ)
          /\ UNCHANGED <<toEms, lpc, rx>>
      BY <1>1, ScriptOrd
    <2>2. AcceptInv' /\ UNCHANGED <<savedApp, ctx>>
      BY <1>0, <1>1, AcceptFrame
    <2>3. Numbered'
      BY <1>0, <2>1, NumberedGrows
    <2>4. SentInv'
      BY <1>0, <2>1, <2>2, SentGrows
    <2> QED BY <2>1, <2>2, <2>3, <2>4 DEF OrdInv
  <1>2. CASE Listener /\ UNCHANGED agentVars
    <2>1. /\ SendInv' /\ Sent' = Sent
          /\ \A p \in Elems(toAgent') : p \in Elems(toAgent) \/ p.op = "DATA_ACK"
          /\ Elems(toEms') \subseteq Elems(toEms)
          /\ lpc' = "fin" => (lpc = "fin" /\ rx' = rx) \/ rx'.id <= Sent'
          /\ \A m \in Elems(msgQ') : m \in Elems(msgQ) \/ m.id <= Sent'
      BY <1>2, ListenerOrd
    <2>2. AcceptInv' /\ UNCHANGED <<savedApp, ctx>>
      BY <1>0, <1>2, AcceptFrame
    <2>3. Numbered'
      BY <1>0, <2>1, NumberedGrows
    <2>4. SentInv'
      BY <1>0, <2>1, <2>2, SentGrows
    <2> QED BY <2>1, <2>2, <2>3, <2>4 DEF OrdInv
  <1>3. CASE ResendTimeHandler /\ UNCHANGED agentVars
    <2>1. UNCHANGED emsVars /\ toEms' = toEms
      BY <1>3 DEF ResendTimeHandler
    <2>2. SendInv' /\ Sent' = Sent /\ UNCHANGED <<lpc, rx, msgQ>>
      BY <1>0, <2>1, SendFrame
    <2>3. AcceptInv' /\ UNCHANGED <<savedApp, ctx>>
      BY <1>0, <1>3, AcceptFrame
    <2>4. \A p \in Elems(toAgent') :
            \/ p \in Elems(toAgent)
            \/ p.op = "DATA" /\ p.seq = FirstSeq + p.cmd.id /\ p.cmd.id <= Sent
      BY <1>3, TimerOrd
    <2>5. Numbered'
      BY <1>0, <2>4, NumberedGrows
    <2>6. SentInv'
      BY <1>0, <2>1, <2>2, <2>3, <2>4, SentGrows
    <2> QED BY <2>2, <2>3, <2>5, <2>6 DEF OrdInv
  <1>4. CASE (Callback \/ Loop) /\ UNCHANGED emsVars
    <2>1. SendInv' /\ Sent' = Sent /\ UNCHANGED <<lpc, rx, msgQ>>
      BY <1>0, <1>4, SendFrame
    <2>2. /\ AcceptInv' /\ Elems(toAgent') \subseteq Elems(toAgent)
          /\ savedApp' = savedApp \/ savedApp' <= Sent
          /\ ctx' = ctx \/ ctx'.app <= Sent
          /\ \A p \in Elems(toEms') : p \in Elems(toEms) \/ p.op # "DATA" \/ p.id <= Sent
      BY <1>4, CallbackOrd, LoopOrd
    <2>3. Numbered'
      BY <1>0, <2>2, NumberedGrows
    <2>4. SentInv'
      BY <1>0, <2>1, <2>2, SentGrows
    <2> QED BY <2>1, <2>2, <2>3, <2>4 DEF OrdInv
  <1>5. CASE Fault
    BY <1>5 DEF Fault, Reset, RestoreZero, Exhausted, PostDispatchFails, Upset, Calm
  <1>6. CASE ReSendTimer /\ UNCHANGED emsVars
    <2>1. UNCHANGED agentVars /\ toAgent' = toAgent
      BY <1>6 DEF ReSendTimer
    <2>2. SendInv' /\ Sent' = Sent /\ UNCHANGED <<lpc, rx, msgQ>>
      BY <1>0, <1>6, SendFrame
    <2>3. AcceptInv' /\ UNCHANGED <<savedApp, ctx>>
      BY <1>0, <2>1, AcceptFrame
    <2>4. \A p \in Elems(toEms') : p \in Elems(toEms) \/ (p.op = "DATA" /\ p.id <= Sent)
      BY <1>6, TimerOrd
    <2>5. Numbered'
      BY <1>0, <2>1, NumberedGrows
    <2>6. SentInv'
      BY <1>0, <2>1, <2>2, <2>3, <2>4, SentGrows
    <2> QED BY <2>2, <2>3, <2>5, <2>6 DEF OrdInv
  <1>7. CASE Link \/ UNCHANGED vars
    <2>1. UNCHANGED <<emsVars, agentVars>>
      BY <1>7 DEF Link, vars
    <2>2. Elems(toAgent') \subseteq Elems(toAgent) /\ Elems(toEms') \subseteq Elems(toEms)
      BY <1>7, LinkOrd DEF Link, vars, rpcLinkVars
    <2>3. SendInv' /\ Sent' = Sent /\ UNCHANGED <<lpc, rx, msgQ>>
      BY <1>0, <2>1, SendFrame
    <2>4. AcceptInv' /\ UNCHANGED <<savedApp, ctx>>
      BY <1>0, <2>1, AcceptFrame
    <2>5. Numbered'
      BY <1>0, <2>2, NumberedGrows
    <2>6. SentInv'
      BY <1>0, <2>2, <2>3, <2>4, SentGrows
    <2> QED BY <2>3, <2>4, <2>5, <2>6 DEF OrdInv
  <1> QED BY <1>1, <1>2, <1>3, <1>4, <1>5, <1>6, <1>7
          DEF Next, Ems, EmsNext, Agent, AgentNext

LEMMA InitOrd == Init => OrdInv
  <1> SUFFICES ASSUME Init PROVE OrdInv OBVIOUS
  <1>1. /\ toAgent = <<>> /\ toEms = <<>> /\ msgQ = <<>> /\ executed = <<>>
        /\ spc = "idle" /\ lastDataId = 0 /\ lastSendSeq = FirstSeq /\ sendPkt = NoCmd
        /\ lpc = "idle"
    BY DEF Init, RpcLinkInit, EmsInit, AgentInit
  <1>2. /\ expect = Any /\ ~hasPkt /\ apc = "listen" /\ savedApp = -1 /\ ctx.app = 0
    BY DEF Init, AgentInit, MonitorStatics, Any
  <1>3. SendInv
    BY <1>1, ElemsEmpty DEF SendInv, Clear
  <1>4. SentInv
    BY <1>1, <1>2, ElemsEmpty DEF SentInv, Sent
  <1>5. Numbered /\ AcceptInv
    BY <1>1, <1>2, ElemsEmpty DEF Numbered, AcceptInv, ExecutedInOrder
  <1> QED BY <1>3, <1>4, <1>5 DEF OrdInv
=============================================================================
