--------------------------- MODULE RpcCallProofs ---------------------------
(***************************************************************************)
(* A command that a script sends and waits for is a remote call: for every *)
(* number of commands, frames lost or repeated and answers the EMS had no  *)
(* memory for, Rpc implements RemoteCall.                                  *)
(***************************************************************************)
EXTENDS RpcProofs

USE RpcLinkAssumption, RpcEmsAssumption

(* A command of a script.                                                  *)
Real(c) == c \in Commands /\ c.id >= 1 /\ c.kind \in CommandKinds

(* The last command the agent accepted; commands are numbered from 1.      *)
Accepted == IF expect = Any THEN 0 ELSE lastReceive - FirstSeq

(* The agent has a command it has not answered.                            *)
Holding == apc \in {"got", "run", "post", "stall"}
Busy    == hasPkt \/ Holding

(* The last answer the EMS received, and the last it must have received.   *)
GotSeq   == IF lpc \in {"recycle", "settle"} /\ rx.op = "DATA" THEN rx.seq ELSE lastRecvSeq
Answered == IF spc \in {"idle", "probe"} THEN lastDataId ELSE lastDataId - 1

(* The agent numbers its answers like the commands.  What identifies the   *)
(* answer (savedApp) is overwritten by the next command, and saved over    *)
(* the executor; it is right whenever an answer can be sent.               *)
MonitorInv ==
  /\ apc \notin {"boot", "ended"} /\ ~cleanFlag
  /\ expect = Any => lastReceive = Any
  /\ Accepted >= 0
  /\ lastSend = IF Busy THEN Accepted - 1 ELSE Accepted
  /\ hasPkt => apc = "listen" \/ (apc = "wait" /\ linkStatus = "WaitForPacket")
  /\ hasPkt => Real(bufIn)
  /\ timer => lastSend >= 1

LoopInv ==
  /\ Holding => Real(cmd) /\ cmd.id = Accepted
  /\ hasPkt \/ apc \in {"got", "post", "stall"} =>
       savedApp = Accepted /\ savedSend = lastSend
  /\ apc = "run" => ctx.app = Accepted /\ ctx.send = lastSend
  /\ ~hasPkt /\ apc # "got" => Accepted = 0 \/ Accepted \in Elems(executed)
  /\ outBuf = IF apc \in {"stall", "numbered", "sent", "wait"} THEN cmd ELSE NoCmd
  /\ apc \in {"numbered", "sent"} => Accepted >= 1 /\ linkStatus = "SendoutPacket"
  /\ apc \in {"numbered", "sent", "wait"} /\ linkStatus = "SendoutPacket" =>
       savedApp = Accepted /\ cmd.id = Accepted

(* Commands on the way are commands of scripts.                            *)
CommandInv ==
  /\ Accepted <= Sent
  /\ \A p \in Elems(toAgent) : p.op = "DATA" => Real(p.cmd)
  /\ sendPkt # NoCmd => Real(sendPkt)
  /\ spc \in {"sleep", "counted", "locked"} => Real(next)
  /\ UnderWay => lastDataId >= 1

(* An answer tells the command it is of, which has been executed.  The     *)
(* timer may repeat a command's answer before its time, under the number   *)
(* of the answer before it; the EMS has that number already.               *)
True(a) == a.body.id = a.id /\ a.id \in Elems(executed) /\ a.id # 0

AnswerInv ==
  /\ \A a \in Elems(toEms) : a.op = "DATA" =>
       True(a) /\ a.seq \in 1..lastSend /\ a.seq \in {a.id, a.id - 1}
  /\ lpc = "fin" => True(rx)
  /\ lpc # "idle" /\ rx.op = "DATA" =>
       /\ rx.seq = rx.id /\ rx.seq = fragSeq
       /\ lastRecvSeq < rx.seq /\ rx.seq <= lastSend
  /\ \A m \in Elems(msgQ) : True(m) /\ m.id <= GotSeq
  /\ Answered <= GotSeq /\ GotSeq <= lastSend

CallInv == MonitorInv /\ LoopInv /\ CommandInv /\ AnswerInv

-----------------------------------------------------------------------------
(* What the invariants say together.                                       *)

AllInv == TypeInv /\ OrdInv /\ AnsInv /\ CallInv

LEMMA AnswersNamed == CallInv => Named
  BY DEF CallInv, AnswerInv, True, Named

LEMMA CallTypes ==
  ASSUME TypeInv
  PROVE  /\ lastSend \in Int /\ savedSend \in Int /\ ctx.send \in Int
         /\ lastRecvSeq \in Int /\ fragSeq \in Int
         /\ rx.op = "DATA" => rx.seq \in Int /\ rx.id \in Int
         /\ lpc = "fin" => rx.op = "DATA"
         /\ Sent \in Int /\ Accepted \in Int /\ GotSeq \in Int /\ Answered \in Int
         /\ \A p \in Elems(toEms) : p.op = "DATA" => p.seq \in Int /\ p.id \in Int
  <1>1. /\ lastSend \in Int /\ savedSend \in Int /\ ctx \in [app : Int, send : Int]
        /\ lastRecvSeq \in Int /\ fragSeq \in Int /\ rx \in ToEms \cup {NoFrame}
        /\ toEms \in Seq(ToEms)
    BY DEF TypeInv, TypeOK, AgentType, EmsType, RpcLinkType
  <1>2. rx.op = "DATA" => rx \in AnswerFrames
    BY <1>1, ToEmsType DEF NoFrame
  <1>3. /\ rx.op = "DATA" => rx.seq \in Int /\ rx.id \in Int
        /\ lpc = "fin" => rx.op = "DATA"
    BY <1>2, ToEmsType DEF TypeInv, Hand
  <1>4. Sent \in Int /\ Accepted \in Int /\ GotSeq \in Int /\ Answered \in Int
    BY <1>1, <1>3, OrdTypes DEF Sent, Accepted, GotSeq, Answered
  <1>5. \A p \in Elems(toEms) : p.op = "DATA" => p.seq \in Int /\ p.id \in Int
    BY <1>1, ElemsType, ToEmsType
  <1> QED BY <1>1, <1>3, <1>4, <1>5

(* Commands, their acceptance, their answers and the receipt of the        *)
(* answers follow one another at a distance of one; so while the agent has *)
(* a command to answer, that is the command the script waits for.          *)
LEMMA Lockstep ==
  ASSUME TypeInv, CallInv
  PROVE  /\ Answered <= GotSeq /\ GotSeq <= lastSend
         /\ lastSend <= Accepted /\ Accepted <= Sent /\ Sent <= lastDataId
         /\ lastDataId - 1 <= Answered
         /\ Busy => /\ Accepted = Sent /\ Accepted = lastDataId
                    /\ lastSend = lastDataId - 1 /\ GotSeq = lastDataId - 1
                    /\ spc \notin {"idle", "probe", "sleep", "counted"}
         /\ ~Busy => lastSend = Accepted
  <1>1. /\ Answered <= GotSeq /\ GotSeq <= lastSend /\ Accepted <= Sent
        /\ Busy => lastSend = Accepted - 1
        /\ ~Busy => lastSend = Accepted
    BY DEF CallInv, MonitorInv, CommandInv, AnswerInv
  <1>2. /\ lastDataId \in Int /\ lastSend \in Int
        /\ Sent \in Int /\ Accepted \in Int /\ GotSeq \in Int /\ Answered \in Int
    BY CallTypes, OrdTypes
  <1>3. /\ Sent <= lastDataId /\ lastDataId - 1 <= Answered
        /\ spc \in {"idle", "probe"} => Answered = lastDataId
        /\ spc \in {"sleep", "counted"} => Sent = lastDataId - 1
    BY <1>2 DEF Sent, Answered
  <1> HIDE DEF Sent, Answered, Accepted, GotSeq, Busy
  <1>4. ASSUME Busy
        PROVE  /\ Accepted = Sent /\ Accepted = lastDataId
               /\ lastSend = lastDataId - 1 /\ GotSeq = lastDataId - 1
               /\ spc \notin {"idle", "probe", "sleep", "counted"}
    BY <1>1, <1>2, <1>3, <1>4
  <1> QED BY <1>1, <1>2, <1>3, <1>4

(* The next command comes when the agent has answered the last one.        *)
LEMMA NextCommand ==
  ASSUME TypeInv, OrdInv, CallInv,
         NEW p \in Elems(toAgent), p.op = "DATA", IsNew(p)
  PROVE  /\ Real(p.cmd) /\ p.cmd.id \in Nat /\ p.cmd.id = Accepted + 1
         /\ p.seq \in Nat /\ p.seq = FirstSeq + p.cmd.id
         /\ ~Busy /\ lastSend = Accepted
  <1>1. /\ p.seq = FirstSeq + p.cmd.id /\ p.cmd.id <= Sent /\ Real(p.cmd)
    BY DEF OrdInv, Numbered, SentInv, CallInv, CommandInv
  <1>2. p.seq \in Nat /\ p.cmd.id \in Nat /\ FirstSeq \in Nat /\ lastReceive \in Int
    BY OrdTypes
  <1>3. /\ lastDataId - 1 <= lastSend /\ lastSend <= Accepted /\ Sent <= lastDataId
        /\ Accepted <= Sent
        /\ Busy => Accepted = Sent
        /\ ~Busy => lastSend = Accepted
    <2>1. /\ lastSend \in Int /\ lastDataId \in Int /\ GotSeq \in Int /\ Answered \in Int
      BY CallTypes, OrdTypes
    <2> HIDE DEF Sent, Answered, Accepted, GotSeq, Busy
    <2> QED BY <2>1, Lockstep
  <1>4. lastSend \in Int /\ lastDataId \in Int /\ Accepted \in Int /\ Sent \in Int
    BY CallTypes, OrdTypes
  <1>5. CASE expect = Any
    <2>1. Accepted = 0 /\ ~Busy
      BY <1>5, <1>2 DEF Accepted, Busy, Holding, OrdInv, AcceptInv, Any
    <2>2. p.cmd.id >= 1
      BY <1>1 DEF Real
    <2> HIDE DEF Sent, Accepted, Busy
    <2> QED BY <1>1, <1>2, <1>3, <1>4, <2>1, <2>2
  <1>6. CASE expect # Any
    <2>1. expect = p.seq /\ expect = lastReceive + 1 /\ Accepted = lastReceive - FirstSeq
      BY <1>6 DEF IsNew, OrdInv, AcceptInv, Accepted
    <2>2. p.cmd.id = Accepted + 1
      BY <1>1, <1>2, <2>1
    <2> HIDE DEF Sent, Accepted, Busy
    <2> QED BY <1>1, <1>2, <1>3, <1>4, <2>2
  <1> QED BY <1>5, <1>6

-----------------------------------------------------------------------------
(* The agent.                                                              *)

(* The EMS leaves alone what the invariants say of the agent, and the      *)
(* other way round.                                                        *)
LEMMA AgentStays ==
  ASSUME MonitorInv, LoopInv, UNCHANGED agentVars
  PROVE  /\ MonitorInv' /\ LoopInv' /\ Accepted' = Accepted
         /\ UNCHANGED <<lastSend, executed>>
  BY DEF MonitorInv, LoopInv, Accepted, Busy, Holding, agentVars, monitorVars, loopVars

LEMMA EmsStays ==
  ASSUME UNCHANGED emsVars
  PROVE  /\ Sent' = Sent /\ GotSeq' = GotSeq /\ Answered' = Answered
         /\ UNCHANGED <<spc, next, lastDataId, sendPkt, lpc, rx, fragSeq, lastRecvSeq,
                        msgQ, returned>>
         /\ UnderWay' = UnderWay
  BY DEF Sent, GotSeq, Answered, UnderWay, emsVars, scriptVars, sendVars, recvVars

(* What the agent does is right for the EMS when its answers are.          *)
LEMMA AgentCarries ==
  ASSUME TypeInv, CallInv, UNCHANGED emsVars,
         lastSend' \in Int, lastSend <= lastSend',
         Elems(executed) \subseteq Elems(executed'),
         Accepted' <= Sent, Elems(toAgent') \subseteq Elems(toAgent),
         \A a \in Elems(toEms') :
           \/ a \in Elems(toEms) \/ a.op # "DATA"
           \/ /\ a.body.id = a.id /\ a.id \in Elems(executed')
              /\ a.seq \in 1..lastSend' /\ a.seq \in {a.id, a.id - 1}
  PROVE  CommandInv' /\ AnswerInv'
  <1>t. /\ lastSend \in Int /\ GotSeq \in Int /\ Answered \in Int
        /\ rx.op = "DATA" => rx.seq \in Int
        /\ \A p \in Elems(toEms) : p.op = "DATA" => p.seq \in Int
    BY CallTypes
  <1>0. CommandInv /\ AnswerInv
    BY DEF CallInv
  <1>e. /\ Sent' = Sent /\ GotSeq' = GotSeq /\ Answered' = Answered
        /\ UNCHANGED <<spc, next, lastDataId, sendPkt, lpc, rx, fragSeq, lastRecvSeq, msgQ>>
        /\ UnderWay' = UnderWay
    BY EmsStays
  <1>1. CommandInv'
    <2> HIDE DEF Sent, Accepted, UnderWay
    <2> QED BY <1>0, <1>e DEF CommandInv
  <1>2. \A a \in Elems(toEms') : a.op = "DATA" =>
          /\ True(a)' /\ a.seq \in 1..lastSend' /\ a.seq \in {a.id, a.id - 1}
    <2> SUFFICES ASSUME NEW a \in Elems(toEms'), a.op = "DATA"
                 PROVE  True(a)' /\ a.seq \in 1..lastSend' /\ a.seq \in {a.id, a.id - 1}
      OBVIOUS
    <2>1. CASE a \in Elems(toEms)
      <3>1. /\ True(a) /\ a.seq \in 1..lastSend /\ a.seq \in {a.id, a.id - 1}
        BY <1>0, <2>1 DEF AnswerInv
      <3>2. True(a)'
        BY <3>1 DEF True
      <3>3. a.seq \in 1..lastSend'
        BY <1>t, <3>1
      <3> QED BY <3>1, <3>2, <3>3
    <2>2. CASE a \notin Elems(toEms)
      <3>1. /\ a.body.id = a.id /\ a.id \in Elems(executed')
            /\ a.seq \in 1..lastSend' /\ a.seq \in {a.id, a.id - 1}
        BY <2>2
      <3>2. a.id # 0
        BY <3>1
      <3> QED BY <3>1, <3>2 DEF True
    <2> QED BY <2>1, <2>2
  <1>3. /\ lpc' = "fin" => True(rx)'
        /\ \A m \in Elems(msgQ') : True(m)' /\ m.id <= GotSeq'
    <2>1. /\ lpc = "fin" => True(rx)
          /\ \A m \in Elems(msgQ) : True(m) /\ m.id <= GotSeq
      BY <1>0 DEF AnswerInv
    <2> HIDE DEF GotSeq
    <2> QED BY <1>e, <2>1 DEF True
  <1>4. lpc' # "idle" /\ rx'.op = "DATA" =>
          /\ rx'.seq = rx'.id /\ rx'.seq = fragSeq'
          /\ lastRecvSeq' < rx'.seq /\ rx'.seq <= lastSend'
    <2>1. lpc # "idle" /\ rx.op = "DATA" =>
            /\ rx.seq = rx.id /\ rx.seq = fragSeq
            /\ lastRecvSeq < rx.seq /\ rx.seq <= lastSend
      BY <1>0 DEF AnswerInv
    <2> QED BY <1>t, <1>e, <2>1
  <1>5. Answered' <= GotSeq' /\ GotSeq' <= lastSend'
    <2>1. Answered <= GotSeq /\ GotSeq <= lastSend
      BY <1>0 DEF AnswerInv
    <2> HIDE DEF GotSeq, Answered
    <2> QED BY <1>t, <1>e, <2>1
  <1>6. AnswerInv'
    <2> HIDE DEF GotSeq, Answered, True
    <2> QED BY <1>2, <1>3, <1>4, <1>5 DEF AnswerInv
  <1> QED BY <1>1, <1>6

(* The receive callback.                                                   *)
LEMMA CallbackMonitor ==
  ASSUME Calm, TypeInv, OrdInv, CallInv, Callback
  PROVE  /\ MonitorInv' /\ LoopInv' /\ Accepted' <= Sent
         /\ UNCHANGED <<lastSend, executed>>
  <1> USE DEF monitorVars, loopVars, agentVars
  <1>0. MonitorInv /\ LoopInv /\ CommandInv
    BY DEF CallInv
  <1>t. /\ toAgent \in Seq(ToAgent) /\ Accepted \in Int /\ Sent \in Int /\ lastSend \in Int
    BY OrdTypes, CallTypes
  <1>a. /\ UNCHANGED loopVars /\ toAgent # <<>> /\ SenderLeft
    BY DEF Callback, Ignore, NotifyProbe, NotifyNewData, NotifyOldData,
           NotifyDataAck, NotifyCleanup, Notify
  <1>b. Head(toAgent) \in Elems(toAgent) /\ Head(toAgent).op # "CLEANUP"
    BY <1>a, <1>t, ElemsHeadTail DEF OrdInv, Numbered
  <1>c. /\ apc = "wait" => linkStatus = "SendoutPacket" /\ ~hasPkt
        /\ apc \notin {"numbered", "sent"}
    BY <1>0, <1>a DEF SenderLeft, Calm, MonitorInv, TypeInv, TypeOK, AgentType
  <1>d. ASSUME UNCHANGED <<expect, lastReceive, lastSend, hasPkt, cleanFlag, savedApp>>,
               timer' => timer, bufIn' = bufIn \/ ~hasPkt,
               savedSend' \in {savedSend, lastSend},
               linkStatus' \in {linkStatus, "WaitForPacket"}
        PROVE  MonitorInv' /\ LoopInv' /\ Accepted' <= Sent
    <2>1. Accepted' = Accepted /\ Holding' = Holding /\ Busy' = Busy
      BY <1>a, <1>d DEF Accepted, Holding, Busy
    <2>2. MonitorInv'
      <3> HIDE DEF Accepted, Holding, Busy
      <3> QED BY <1>0, <1>a, <1>c, <1>d, <2>1 DEF MonitorInv
    <2>3. LoopInv'
      <3> HIDE DEF Accepted, Holding, Busy
      <3> QED BY <1>0, <1>a, <1>c, <1>d, <2>1 DEF LoopInv
    <2>4. Accepted' <= Sent
      <3> HIDE DEF Accepted, Sent
      <3> QED BY <1>0, <2>1 DEF CommandInv
    <2> QED BY <2>2, <2>3, <2>4
  <1>1. CASE Ignore
    BY <1>1, <1>d DEF Ignore
  <1>2. CASE NotifyProbe
    BY <1>2, <1>d DEF NotifyProbe, Notify
  <1>3. CASE NotifyNewData
    <2> DEFINE p == Head(toAgent)
    <2>1. /\ p.op = "DATA" /\ IsNew(p) /\ ~hasPkt
          /\ timer' => timer
          /\ savedApp' = p.cmd.id /\ bufIn' = p.cmd /\ hasPkt' = TRUE
          /\ savedSend' = lastSend
          /\ lastReceive' = p.seq /\ expect' = p.seq + 1
          /\ linkStatus' = "WaitForPacket"
          /\ UNCHANGED <<lastSend, cleanFlag, executed, apc, cmd, outBuf, ctx>>
      BY <1>3, <1>a DEF NotifyNewData, Notify
    <2>2. /\ Real(p.cmd) /\ p.cmd.id \in Nat /\ p.cmd.id = Accepted + 1
          /\ p.seq \in Nat /\ p.seq = FirstSeq + p.cmd.id
          /\ ~Busy /\ lastSend = Accepted
      BY <1>b, <2>1, NextCommand
    <2> HIDE DEF p
    <2>3. Accepted' = Accepted + 1 /\ expect' # Any
      <3>1. FirstSeq \in Nat /\ expect' # Any
        BY <2>1, <2>2, OrdTypes DEF Any
      <3>2. Accepted' = lastReceive' - FirstSeq
        BY <3>1 DEF Accepted
      <3> HIDE DEF Accepted
      <3> QED BY <1>t, <2>1, <2>2, <3>1, <3>2
    <2>4. /\ Busy' /\ ~Holding' /\ apc \notin {"got", "run", "post", "stall"}
      BY <2>1, <2>2 DEF Busy, Holding
    <2>5. apc \in {"listen", "wait"}
      BY <1>0, <1>c, <2>4 DEF MonitorInv, TypeInv, TypeOK, AgentType
    <2>6. MonitorInv'
      <3>1. lastSend' = Accepted' - 1 /\ Accepted' >= 0
        BY <1>0, <1>t, <2>1, <2>2, <2>3 DEF MonitorInv
      <3>2. Real(bufIn)'
        BY <2>1, <2>2 DEF Real
      <3> HIDE DEF Accepted, Holding, Busy, Real
      <3> QED BY <1>0, <2>1, <2>3, <2>4, <2>5, <3>1, <3>2 DEF MonitorInv
    <2>7. LoopInv'
      <3>1. savedApp' = Accepted' /\ savedSend' = lastSend'
        BY <2>1, <2>2, <2>3
      <3>2. outBuf = IF apc \in {"stall", "numbered", "sent", "wait"} THEN cmd ELSE NoCmd
        BY <1>0 DEF LoopInv
      <3> HIDE DEF Accepted, Holding, Busy, Real
      <3> QED BY <2>1, <2>4, <2>5, <3>1, <3>2 DEF LoopInv
    <2>8. Accepted' <= Sent
      <3>1. p.cmd.id <= Sent
        BY <1>b, <2>1 DEF p, OrdInv, SentInv
      <3> HIDE DEF Accepted, Sent
      <3> QED BY <2>2, <2>3, <3>1
    <2> QED BY <2>1, <2>6, <2>7, <2>8
  <1>4. CASE NotifyOldData
    <2>1. linkStatus' \in {linkStatus, "WaitForPacket"}
      BY <1>4 DEF NotifyOldData
    <2> QED BY <1>4, <1>a, <1>d, <2>1 DEF NotifyOldData, Notify
  <1>5. CASE NotifyDataAck
    <2>1. linkStatus' \in {linkStatus, "WaitForPacket"} /\ (timer' => timer)
      BY <1>5 DEF NotifyDataAck
    <2> QED BY <1>5, <1>a, <1>d, <2>1 DEF NotifyDataAck, Notify
  <1>6. CASE NotifyCleanup
    BY <1>6, <1>b DEF NotifyCleanup, Notify
  <1> QED BY <1>1, <1>2, <1>3, <1>4, <1>5, <1>6 DEF Callback

LEMMA ElemsAppendAll ==
  ASSUME NEW S, NEW q \in Seq(S), NEW x \in S
  PROVE  Elems(q) \subseteq Elems(Append(q, x)) /\ x \in Elems(Append(q, x))
  <1> DEFINE r == Append(q, x)
  <1>1. /\ Len(r) = Len(q) + 1 /\ Len(q) \in Nat /\ r[Len(q) + 1] = x
        /\ \A i \in 1..Len(q) : r[i] = q[i]
    OBVIOUS
  <1> HIDE DEF r
  <1>2. /\ Len(q) + 1 \in 1..Len(r)
        /\ \A i \in 1..Len(q) : i \in 1..Len(r)
    BY <1>1
  <1>3. Elems(q) \subseteq Elems(r) /\ x \in Elems(r)
    BY <1>1, <1>2 DEF Elems
  <1> QED BY <1>3 DEF r

(* The loop: a command is fetched, executed and answered, in this order.   *)
LEMMA LoopMonitor ==
  ASSUME Calm, TypeInv, OrdInv, CallInv, Loop
  PROVE  /\ MonitorInv' /\ LoopInv' /\ Accepted' = Accepted
         /\ lastSend' \in Int /\ lastSend <= lastSend'
         /\ Elems(executed) \subseteq Elems(executed')
         /\ toAgent' = toAgent
         /\ \A a \in Elems(toEms') :
              \/ a \in Elems(toEms)
              \/ /\ a.body.id = a.id /\ a.id \in Elems(executed')
                 /\ a.seq \in 1..lastSend' /\ a.seq = a.id
  <1> USE DEF monitorVars, loopVars, rpcLinkVars
  <1>0. MonitorInv /\ LoopInv
    BY DEF CallInv
  <1>t. /\ Accepted \in Int /\ lastSend \in Int /\ lastSend <= lastSend
        /\ executed \in Seq(Nat) /\ cmd.id \in Nat /\ cmd \in Contents
        /\ toEms \in Seq(ToEms)
    BY OrdTypes, CallTypes
  <1>a. UNCHANGED <<expect, lastReceive, toAgent, cleanFlag, bufIn>> \/ CleanUpEnvironment
    BY DEF Loop, Listen, PreDispatchFails, DispatchAbort, DispatchInternal,
           SaveContext, RestoreContext, ContinuePassive, Sender, NumberAnswer, SendAnswer,
           SetResendTimer, SenderEnd
  <1>c. ~CleanUpEnvironment /\ ~ContinuePassive
    BY <1>0 DEF CleanUpEnvironment, ContinuePassive, MonitorInv
  <1>b. UNCHANGED <<expect, lastReceive, toAgent, cleanFlag, bufIn>> /\ Accepted' = Accepted
    BY <1>a, <1>c DEF Accepted
  <1>d. Holding => Real(cmd) /\ cmd.id >= 1 /\ cmd.kind \in CommandKinds
    BY <1>0 DEF LoopInv, Real
  <1> HIDE DEF Accepted
  <1>1. CASE Listen
    <2>1. /\ apc = "listen" /\ hasPkt /\ hasPkt' = FALSE /\ cmd' = bufIn /\ apc' = "got"
          /\ UNCHANGED <<lastSend, savedSend, savedApp, linkStatus, timer, outBuf, ctx,
                         executed, toEms>>
      BY <1>1 DEF Listen
    <2>2. Real(bufIn) /\ bufIn.id = Accepted
      <3>1. FirstSeq + bufIn.id = lastReceive /\ expect # Any
        BY <2>1 DEF OrdInv, AcceptInv, Any
      <3>2. Accepted = lastReceive - FirstSeq
        BY <3>1 DEF Accepted
      <3> QED BY <1>0, <2>1, <3>1, <3>2, OrdTypes DEF MonitorInv
    <2>3. MonitorInv'
      BY <1>0, <1>b, <2>1 DEF MonitorInv, Busy, Holding
    <2>4. Real(cmd)' /\ cmd'.id = Accepted
      BY <2>1, <2>2 DEF Real
    <2>5. LoopInv'
      <3> HIDE DEF Real
      <3> QED BY <1>0, <1>b, <2>1, <2>4 DEF LoopInv, Holding
    <2> QED BY <1>b, <1>t, <2>1, <2>3, <2>5
  <1>2. CASE PreDispatchFails \/ DispatchAbort
    BY <1>2, <1>d DEF PreDispatchFails, DispatchAbort, Dispatch, Holding, Calm, Kinds
  <1>3. CASE DispatchInternal \/ SaveContext
    <2>1. /\ apc = "got" /\ executed' = Append(executed, cmd.id)
          /\ \/ apc' = "post" /\ ctx' = ctx
             \/ apc' = "run" /\ ctx' = [app |-> savedApp, send |-> savedSend]
          /\ UNCHANGED <<hasPkt, cmd, outBuf, lastSend, savedSend, savedApp, linkStatus,
                         timer, toEms>>
      BY <1>3 DEF DispatchInternal, SaveContext, Dispatch, Begun
    <2>2. Elems(executed) \subseteq Elems(executed') /\ cmd.id \in Elems(executed')
      BY <1>t, <2>1, ElemsAppendAll
    <2>3. cmd.id = Accepted /\ Real(cmd) /\ ~hasPkt /\ savedApp = Accepted /\ savedSend = lastSend
      BY <1>0, <2>1 DEF LoopInv, MonitorInv, Holding
    <2>4. MonitorInv'
      BY <1>0, <1>b, <2>1 DEF MonitorInv, Busy, Holding
    <2>5. LoopInv'
      <3>1. Real(cmd)'
        BY <2>1, <2>3 DEF Real
      <3>2. apc' = "run" => ctx'.app = Accepted /\ ctx'.send = lastSend
        BY <2>1, <2>3
      <3>3. outBuf = NoCmd
        BY <1>0, <2>1 DEF LoopInv
      <3> HIDE DEF Real
      <3> QED BY <1>b, <2>1, <2>2, <2>3, <3>1, <3>2, <3>3 DEF LoopInv, Holding
    <2> QED BY <1>b, <1>t, <2>1, <2>2, <2>4, <2>5
  <1>4. CASE RestoreContext
    <2>1. /\ apc = "run" /\ apc' = "post" /\ savedApp' = ctx.app /\ savedSend' = ctx.send
          /\ UNCHANGED <<hasPkt, lastSend, linkStatus, timer, cmd, outBuf, ctx, executed, toEms>>
      BY <1>4 DEF RestoreContext
    <2>2. MonitorInv'
      BY <1>0, <1>b, <2>1 DEF MonitorInv, Busy, Holding
    <2>3. LoopInv'
      <3>1. ~hasPkt
        BY <1>0, <2>1 DEF MonitorInv
      <3>2. Real(cmd)' = Real(cmd)
        BY <2>1 DEF Real
      <3> HIDE DEF Real
      <3> QED BY <1>0, <1>b, <2>1, <3>1, <3>2 DEF LoopInv, Holding
    <2> QED BY <1>b, <1>t, <2>1, <2>2, <2>3
  <1>5. CASE Sender
    <2>1. /\ apc = "post" /\ apc' = "stall" /\ outBuf' = cmd
          /\ UNCHANGED <<hasPkt, lastSend, savedApp, savedSend, linkStatus, timer, cmd, ctx,
                         executed, toEms>>
      BY <1>5 DEF Sender
    <2>2. MonitorInv'
      BY <1>0, <1>b, <2>1 DEF MonitorInv, Busy, Holding
    <2>3. LoopInv'
      <3>2. Real(cmd)' = Real(cmd)
        BY <2>1 DEF Real
      <3> HIDE DEF Real
      <3> QED BY <1>0, <1>b, <2>1, <3>2 DEF LoopInv, Holding
    <2> QED BY <1>b, <1>t, <2>1, <2>2, <2>3
  <1>6. CASE NumberAnswer
    <2>1. /\ apc = "stall" /\ apc' = "numbered" /\ lastSend' = savedSend + 1
          /\ linkStatus' = "SendoutPacket"
          /\ UNCHANGED <<hasPkt, savedApp, savedSend, timer, cmd, outBuf, ctx, executed, toEms>>
      BY <1>6 DEF NumberAnswer
    <2>2. /\ ~hasPkt /\ cmd.id = Accepted /\ cmd.id >= 1 /\ savedApp = Accepted
          /\ savedSend = lastSend /\ lastSend = Accepted - 1 /\ outBuf = cmd
          /\ Accepted = 0 \/ Accepted \in Elems(executed)
      BY <1>0, <1>d, <2>1 DEF LoopInv, MonitorInv, Holding, Busy
    <2>3. lastSend' = Accepted /\ lastSend <= lastSend'
      BY <1>t, <2>1, <2>2
    <2>4. MonitorInv'
      <3>1. ~Busy'
        BY <2>1, <2>2 DEF Busy, Holding
      <3>2. Accepted >= 0 /\ lastSend' >= 1
        BY <1>t, <2>2, <2>3
      <3> HIDE DEF Busy
      <3> QED BY <1>0, <1>b, <2>1, <2>2, <2>3, <3>1, <3>2 DEF MonitorInv
    <2>5. LoopInv'
      BY <1>b, <2>1, <2>2 DEF LoopInv, Holding
    <2>6. lastSend' \in Int
      BY <1>t, <2>3
    <2> QED BY <1>b, <2>1, <2>3, <2>4, <2>5, <2>6
  <1>8. CASE SendAnswer
    <2> DEFINE a == Answer(lastSend, savedApp, cmd)
    <2>1. /\ apc = "numbered" /\ apc' = "sent" /\ toEms' = Put(toEms, a)
          /\ UNCHANGED <<hasPkt, lastSend, savedApp, savedSend, linkStatus, timer, cmd, outBuf,
                         ctx, executed>>
      BY <1>8 DEF SendAnswer, MnpSendPacketOut
    <2>2. /\ ~hasPkt /\ cmd.id = Accepted /\ Accepted >= 1 /\ savedApp = Accepted
          /\ lastSend = Accepted
          /\ Accepted = 0 \/ Accepted \in Elems(executed)
      BY <1>0, <2>1 DEF LoopInv, MonitorInv, Holding, Busy
    <2>3. MonitorInv' /\ LoopInv'
      BY <1>0, <1>b, <2>1, <2>2 DEF MonitorInv, LoopInv, Busy, Holding
    <2>6. a \in ToEms
      BY <1>t, <2>2, FrameTypes, OrdTypes
    <2>7. a.seq = lastSend /\ a.id = savedApp /\ a.body = cmd
      BY DEF Answer
    <2>8. /\ a.body.id = a.id /\ a.id \in Elems(executed')
          /\ a.seq \in 1..lastSend' /\ a.seq = a.id
      BY <1>t, <2>1, <2>2, <2>7
    <2> HIDE DEF a
    <2>9. Elems(toEms') \subseteq Elems(toEms) \cup {a}
      BY <1>t, <2>1, <2>6, ElemsPut
    <2> QED BY <1>b, <1>t, <2>1, <2>3, <2>8, <2>9
  <1>9. CASE SetResendTimer
    <2>1. /\ apc = "sent" /\ apc' = "wait" /\ timer' = TRUE
          /\ UNCHANGED <<hasPkt, lastSend, savedApp, savedSend, linkStatus, cmd, outBuf, ctx,
                         executed, toEms>>
      BY <1>9 DEF SetResendTimer
    <2>2. ~hasPkt /\ Accepted >= 1 /\ lastSend = Accepted
      BY <1>0, <2>1 DEF LoopInv, MonitorInv, Holding, Busy
    <2>3. MonitorInv'
      BY <1>0, <1>b, <2>1, <2>2 DEF MonitorInv, Busy, Holding
    <2>4. LoopInv'
      BY <1>0, <1>b, <2>1 DEF LoopInv, Holding
    <2> QED BY <1>b, <1>t, <2>1, <2>3, <2>4
  <1>7. CASE SenderEnd
    <2>1. /\ apc = "wait" /\ linkStatus # "SendoutPacket" /\ apc' = "listen" /\ outBuf' = NoCmd
          /\ UNCHANGED <<hasPkt, lastSend, savedApp, savedSend, linkStatus, timer, cmd, ctx,
                         executed, toEms>>
      BY <1>7 DEF SenderEnd
    <2>2. MonitorInv'
      BY <1>0, <1>b, <2>1 DEF MonitorInv, Busy, Holding
    <2>3. LoopInv'
      BY <1>0, <1>b, <2>1 DEF LoopInv, Holding
    <2> QED BY <1>b, <1>t, <2>1, <2>2, <2>3
  <1> QED BY <1>c, <1>1, <1>2, <1>3, <1>4, <1>5, <1>6, <1>7, <1>8, <1>9 DEF Loop

(* The resend timer: between putting an answer into the buffer and         *)
(* numbering it the timer of the last answer may still send it, under that *)
(* answer's number.                                                        *)
LEMMA TimerAnswers ==
  ASSUME Calm, TypeInv, CallInv, ReSendTimer
  PROVE  /\ toAgent' = toAgent
         /\ \A a \in Elems(toEms') :
              \/ a \in Elems(toEms)
              \/ /\ a.body.id = a.id /\ a.id \in Elems(executed)
                 /\ a.seq \in 1..lastSend /\ a.seq \in {a.id, a.id - 1}
  <1> DEFINE a == Answer(lastSend, savedApp, outBuf)
  <1>0. MonitorInv /\ LoopInv
    BY DEF CallInv
  <1>t. /\ Accepted \in Int /\ lastSend \in Int /\ toEms \in Seq(ToEms)
        /\ savedApp \in Int /\ outBuf \in Contents
    BY OrdTypes, CallTypes DEF TypeInv, TypeOK, AgentType
  <1>1. toEms' = Put(toEms, a) /\ toAgent' = toAgent /\ timer /\ outBuf # NoCmd /\ SenderLeft
    BY DEF ReSendTimer, MnpSendPacketOut
  <1>2. lastSend >= 1 /\ outBuf = cmd /\ apc \in {"stall", "wait"}
    BY <1>0, <1>1 DEF MonitorInv, LoopInv, SenderLeft, Calm
  <1>3. apc = "wait" => linkStatus = "SendoutPacket" /\ ~hasPkt
    BY <1>0, <1>1 DEF SenderLeft, Calm, MonitorInv, TypeInv, TypeOK, AgentType
  <1>4. /\ ~hasPkt /\ savedApp = Accepted /\ cmd.id = Accepted
        /\ lastSend \in {Accepted, Accepted - 1}
    <2>1. CASE apc = "stall"
      BY <1>0, <2>1 DEF MonitorInv, LoopInv, Busy, Holding
    <2>2. CASE apc = "wait"
      BY <1>0, <1>3, <2>2 DEF MonitorInv, LoopInv, Busy, Holding
    <2> QED BY <1>2, <2>1, <2>2
  <1>5. Accepted \in Elems(executed)
    <2>1. Accepted = 0 \/ Accepted \in Elems(executed)
      BY <1>0, <1>2, <1>4 DEF LoopInv
    <2>2. Accepted # 0
      <3> HIDE DEF Accepted
      <3> QED BY <1>t, <1>2, <1>4
    <2> QED BY <2>1, <2>2
  <1>6. a.seq = lastSend /\ a.id = savedApp /\ a.body = outBuf /\ a \in ToEms
    BY <1>t, FrameTypes DEF Answer
  <1>7. /\ a.body.id = a.id /\ a.id \in Elems(executed)
        /\ a.seq \in 1..lastSend /\ a.seq \in {a.id, a.id - 1}
    <2> HIDE DEF a, Accepted
    <2> QED BY <1>t, <1>2, <1>4, <1>5, <1>6
  <1> HIDE DEF a
  <1>8. Elems(toEms') \subseteq Elems(toEms) \cup {a}
    BY <1>t, <1>1, <1>6, ElemsPut
  <1> QED BY <1>1, <1>7, <1>8

(* Every step of the agent.                                                *)
LEMMA AgentCall ==
  ASSUME Calm, TypeInv, OrdInv, CallInv, Agent
  PROVE  CallInv'
  <1>0. /\ MonitorInv /\ LoopInv /\ lastSend \in Int /\ lastSend <= lastSend
        /\ UNCHANGED emsVars
    BY CallTypes DEF CallInv, Agent
  <1>1. CASE Callback
    <2>1. /\ MonitorInv' /\ LoopInv' /\ Accepted' <= Sent /\ UNCHANGED <<lastSend, executed>>
      BY <1>1, CallbackMonitor
    <2>2. /\ Elems(toAgent') \subseteq Elems(toAgent)
          /\ \A p \in Elems(toEms') : p \in Elems(toEms) \/ p.op # "DATA"
      BY <1>1, CallbackOrd
    <2>3. CommandInv' /\ AnswerInv'
      BY <1>0, <2>1, <2>2, AgentCarries
    <2> QED BY <2>1, <2>3 DEF CallInv
  <1>2. CASE Loop
    <2>1. /\ MonitorInv' /\ LoopInv' /\ Accepted' = Accepted
          /\ lastSend' \in Int /\ lastSend <= lastSend'
          /\ Elems(executed) \subseteq Elems(executed')
          /\ toAgent' = toAgent
          /\ \A a \in Elems(toEms') :
              \/ a \in Elems(toEms)
              \/ /\ a.body.id = a.id /\ a.id \in Elems(executed')
                 /\ a.seq \in 1..lastSend' /\ a.seq = a.id
      BY <1>2, LoopMonitor
    <2>2. Accepted' <= Sent
      BY <2>1 DEF CallInv, CommandInv
    <2>3. CommandInv' /\ AnswerInv'
      BY <1>0, <2>1, <2>2, AgentCarries
    <2> QED BY <2>1, <2>3 DEF CallInv
  <1>3. CASE ReSendTimer
    <2>1. MonitorInv' /\ LoopInv' /\ Accepted' = Accepted /\ UNCHANGED <<lastSend, executed>>
      BY <1>0, <1>3, AgentStays DEF ReSendTimer
    <2>2. Accepted' <= Sent
      BY <2>1 DEF CallInv, CommandInv
    <2>3. /\ toAgent' = toAgent
          /\ \A a \in Elems(toEms') :
              \/ a \in Elems(toEms)
              \/ /\ a.body.id = a.id /\ a.id \in Elems(executed)
                 /\ a.seq \in 1..lastSend /\ a.seq \in {a.id, a.id - 1}
      BY <1>3, TimerAnswers
    <2>4. CommandInv' /\ AnswerInv'
      BY <1>0, <2>1, <2>2, <2>3, AgentCarries
    <2> QED BY <2>1, <2>4 DEF CallInv
  <1>4. CASE Fault
    BY <1>4 DEF Fault, Reset, RestoreZero, Exhausted, PostDispatchFails, Upset, Calm
  <1> QED BY <1>1, <1>2, <1>3, <1>4 DEF Agent, AgentNext

-----------------------------------------------------------------------------
(* The EMS.                                                                *)

(* The agent is left alone.                                                *)
LEMMA EmsKeeps ==
  ASSUME CallInv, UNCHANGED agentVars
  PROVE  /\ MonitorInv' /\ LoopInv' /\ Accepted' = Accepted
         /\ UNCHANGED <<lastSend, executed>>
         /\ \A a : True(a)' = True(a)
  <1>1. /\ MonitorInv' /\ LoopInv' /\ Accepted' = Accepted
        /\ UNCHANGED <<lastSend, executed>>
    BY AgentStays DEF CallInv
  <1> QED BY <1>1 DEF True

(* The script thread.                                                      *)
LEMMA ScriptCommands ==
  ASSUME Calm, TypeInv, OrdInv, CallInv, Script, UNCHANGED agentVars
  PROVE  CommandInv'
  <1> USE DEF scriptVars, sendVars, recvVars, rpcLinkVars
  <1>0. CommandInv /\ Accepted' = Accepted
    BY EmsKeeps DEF CallInv
  <1>s. Accepted' <= Sent'
    <2>1. Sent' \in Int /\ Sent <= Sent'
      BY ScriptOrd, AnswersNamed
    <2>2. Sent \in Int /\ Accepted \in Int
      BY CallTypes
    <2> HIDE DEF Sent, Accepted
    <2> QED BY <1>0, <2>1, <2>2 DEF CommandInv
  <1> HIDE DEF Sent, Accepted
  <1>a. ASSUME \A p \in Elems(toAgent') : p \in Elems(toAgent) \/ p.op # "DATA",
               sendPkt' = sendPkt, next' = next \/ spc' = "recv",
               spc' \in {"counted", "recv"} => spc \in {"sleep", "counted", "locked", "recv"},
               spc' \notin {"sleep", "locked"}, spc' = "counted" => spc = "sleep",
               lastDataId' = lastDataId
        PROVE  CommandInv'
    <2>1. spc' = "counted" => Real(next)'
      BY <1>0, <1>a DEF CommandInv, Real
    <2>2. sendPkt' # NoCmd => Real(sendPkt)'
      BY <1>0, <1>a DEF CommandInv, Real
    <2>3. \A p \in Elems(toAgent') : p.op = "DATA" => Real(p.cmd)
      BY <1>0, <1>a DEF CommandInv
    <2>4. UnderWay' => lastDataId' >= 1
      BY <1>0, <1>a DEF CommandInv, UnderWay
    <2> QED BY <1>s, <1>a, <2>1, <2>2, <2>3, <2>4 DEF CommandInv, Real
  <1>1. CASE RpcSendMessage
    <2>1. /\ spc' = "sleep" /\ lastDataId' = lastDataId + 1 /\ UNCHANGED <<toAgent, sendPkt>>
      BY <1>1 DEF RpcSendMessage
    <2>2. PICK k \in CommandKinds : next' = [id |-> lastDataId', kind |-> k]
      BY <1>1 DEF RpcSendMessage
    <2>3. lastDataId' \in Nat /\ lastDataId' >= 1
      BY <2>1, OrdTypes
    <2>4. Real(next)'
      BY <2>2, <2>3 DEF Real, Commands
    <2>5. sendPkt' # NoCmd => Real(sendPkt)'
      BY <1>0, <2>1 DEF CommandInv, Real
    <2>6. \A p \in Elems(toAgent') : p.op = "DATA" => Real(p.cmd)
      BY <1>0, <2>1 DEF CommandInv
    <2> QED BY <1>s, <2>1, <2>3, <2>4, <2>5, <2>6 DEF CommandInv, Real
  <1>2. CASE CountSendSeq
    BY <1>2, <1>a DEF CountSendSeq
  <1>3. CASE SendRivlMessage
    <2>1. /\ spc = "counted" /\ spc' = "locked" /\ sendPkt' = next
          /\ toAgent' = Put(toAgent, Data(lastSendSeq, next))
          /\ UNCHANGED <<next, lastDataId>>
      BY <1>3 DEF SendRivlMessage, SendOutData
    <2>2. Elems(toAgent') \subseteq Elems(toAgent) \cup {Data(lastSendSeq, next)}
      BY <2>1, ElemsPut, FrameTypes, OrdTypes
    <2>3. Data(lastSendSeq, next).cmd = next
      BY DEF Data
    <2>4. Real(next) /\ lastDataId >= 1
      BY <1>0, <2>1 DEF CommandInv, UnderWay
    <2>5. \A p \in Elems(toAgent') : p.op = "DATA" => Real(p.cmd)
      BY <1>0, <2>2, <2>3, <2>4 DEF CommandInv
    <2>6. Real(next)' /\ Real(sendPkt)'
      BY <2>1, <2>4 DEF Real
    <2> QED BY <1>s, <2>1, <2>4, <2>5, <2>6 DEF CommandInv, Real
  <1>4. CASE MarkSending
    <2>1. spc = "locked" /\ next.kind # "abort"
      BY <1>4 DEF MarkSending, OrdInv, SendInv, Calm
    <2>2. spc' = "recv" /\ UNCHANGED <<toAgent, lastDataId, sendPkt>>
      BY <1>4, <2>1 DEF MarkSending, Upset, Calm
    <2> QED BY <1>a, <2>1, <2>2
  <1>5. CASE RpcRecvMessage
    BY <1>5, <1>a DEF RpcRecvMessage
  <1>6. CASE TclRestartRecv
    BY <1>6, <1>a DEF TclRestartRecv
  <1>7. CASE RestoreEmsRpcEnv \/ SendOutCleanup \/ CleanupEnd
    BY <1>7 DEF RestoreEmsRpcEnv, SendOutCleanup, CleanupEnd, Upset, Calm, OrdInv, SendInv
  <1>8. CASE SendOutProbe
    <2>1. Elems(toAgent') \subseteq Elems(toAgent) \cup {Control("PROBE", 0)}
      BY <1>8, ElemsPut, FrameTypes, OrdTypes DEF SendOutProbe
    <2>2. Control("PROBE", 0).op = "PROBE"
      BY DEF Control
    <2> QED BY <1>8, <1>a, <2>1, <2>2 DEF SendOutProbe
  <1>9. CASE ProbeEnd
    BY <1>9, <1>a DEF ProbeEnd
  <1> QED BY <1>1, <1>2, <1>3, <1>4, <1>5, <1>6, <1>7, <1>8, <1>9 DEF Script

(* The answer a script leaves with is one the EMS has received.            *)
LEMMA ScriptAnswers ==
  ASSUME Calm, TypeInv, OrdInv, CallInv, Script, UNCHANGED agentVars
  PROVE  AnswerInv'
  <1> USE DEF scriptVars, sendVars, recvVars, rpcLinkVars
  <1>t. /\ lastDataId \in Int /\ GotSeq \in Int /\ Answered \in Int /\ lastSend \in Int
        /\ msgQ \in Seq([id : Int, body : Contents])
    BY OrdTypes, CallTypes
  <1>0. /\ AnswerInv /\ UNCHANGED <<lastSend, executed>> /\ \A a : True(a)' = True(a)
    BY EmsKeeps DEF CallInv
  <1>1. Elems(msgQ') \subseteq Elems(msgQ) /\ UNCHANGED <<toEms, lpc, rx>>
    BY ScriptOrd, AnswersNamed
  <1>2. UNCHANGED <<fragSeq, lastRecvSeq>> \/ RestoreEmsRpcEnv
    BY DEF Script, RpcSendMessage, CountSendSeq, SendRivlMessage, MarkSending, RpcRecvMessage,
           TclRestartRecv, SendOutCleanup, CleanupEnd, SendOutProbe, ProbeEnd
  <1>3. UNCHANGED <<fragSeq, lastRecvSeq>>
    BY <1>2 DEF RestoreEmsRpcEnv, Upset, Calm
  <1>4. GotSeq' = GotSeq
    BY <1>1, <1>3 DEF GotSeq
  <1>5. Answered' <= GotSeq
    <2>1. Answered <= GotSeq
      BY <1>0 DEF AnswerInv
    <2>2. CASE RpcSendMessage
      <3>1. Answered = lastDataId /\ Answered' = lastDataId' - 1 /\ lastDataId' = lastDataId + 1
        BY <2>2 DEF RpcSendMessage, Answered
      <3> HIDE DEF Answered, GotSeq
      <3> QED BY <1>t, <2>1, <3>1
    <2>3. CASE RpcRecvMessage
      <3>1. \/ UNCHANGED <<spc, lastDataId>>
            \/ /\ spc' = "idle" /\ lastDataId' = lastDataId
               /\ Head(msgQ).id = lastDataId /\ msgQ # <<>>
        <4>1. msgQ # <<>> /\ Head(msgQ).id # 0
          BY <1>t, <2>3, AnswersNamed, ElemsHeadTail DEF RpcRecvMessage, Named
        <4> QED BY <2>3, <4>1 DEF RpcRecvMessage
      <3>2. ASSUME msgQ # <<>> PROVE Head(msgQ).id <= GotSeq
        BY <1>0, <1>t, <3>2, ElemsHeadTail DEF AnswerInv
      <3>3. UNCHANGED <<spc, lastDataId>> => Answered' = Answered
        BY DEF Answered
      <3>4. spc' = "idle" => Answered' = lastDataId'
        BY DEF Answered
      <3> HIDE DEF Answered, GotSeq
      <3> QED BY <2>1, <3>1, <3>2, <3>3, <3>4
    <2>4. CASE ~RpcSendMessage /\ ~RpcRecvMessage
      <3>1. \/ spc = "locked" /\ MarkSending
            \/ /\ lastDataId' = lastDataId
               /\ spc \in {"idle", "probe"} <=> spc' \in {"idle", "probe"}
        BY <2>4 DEF Script, CountSendSeq, SendRivlMessage, MarkSending, TclRestartRecv,
             RestoreEmsRpcEnv, SendOutCleanup, CleanupEnd, SendOutProbe, ProbeEnd,
             Upset, Calm, OrdInv, SendInv
      <3>2. MarkSending => spc = "locked" /\ spc' = "recv" /\ lastDataId' = lastDataId
        BY DEF MarkSending, OrdInv, SendInv, Upset, Calm
      <3>3. Answered' = Answered
        BY <3>1, <3>2 DEF Answered
      <3> HIDE DEF Answered, GotSeq
      <3> QED BY <2>1, <3>3
    <2> QED BY <2>2, <2>3, <2>4
  <1> HIDE DEF Answered, GotSeq, True
  <1>6. \A m \in Elems(msgQ') : True(m)' /\ m.id <= GotSeq
    BY <1>0, <1>1 DEF AnswerInv
  <1>7. \A a \in Elems(toEms') : a.op = "DATA" =>
          /\ True(a)' /\ a.seq \in 1..lastSend' /\ a.seq \in {a.id, a.id - 1}
    BY <1>0, <1>1 DEF AnswerInv
  <1>8. lpc' = "fin" => True(rx)'
    BY <1>0, <1>1 DEF AnswerInv, True
  <1> QED BY <1>0, <1>1, <1>3, <1>4, <1>5, <1>6, <1>7, <1>8 DEF AnswerInv

(* The listener: an answer it takes for new has the number of its command. *)
LEMMA NewAnswer ==
  ASSUME TypeInv, OrdInv, CallInv, lpc = "idle",
         NEW p \in Elems(toEms), p.op = "DATA", NewData(p)
  PROVE  /\ True(p) /\ p.seq = p.id
         /\ lastRecvSeq < p.seq /\ p.seq <= lastSend
  <1>1. True(p) /\ p.seq \in 1..lastSend /\ p.seq \in {p.id, p.id - 1}
    BY DEF CallInv, AnswerInv
  <1>t. /\ lastSend \in Int /\ lastRecvSeq \in Int /\ p.seq \in Int /\ p.id \in Int
        /\ lastDataId \in Int /\ Accepted \in Int /\ GotSeq \in Int /\ Answered \in Int
        /\ Sent \in Int
    <2>1. lastDataId \in Nat
      BY OrdTypes
    <2> HIDE DEF Accepted, GotSeq, Answered, Sent
    <2> QED BY <2>1, CallTypes
  <1>2. lastRecvSeq < p.seq /\ p.seq <= lastSend
    BY <1>1, <1>t DEF NewData
  <1>3. p.id <= Accepted
    <2>1. p.id \in Elems(executed)
      BY <1>1 DEF True
    <2>2. FirstSeq + p.id <= lastReceive /\ executed # <<>>
      BY <2>1, ElemsEmpty DEF OrdInv, AcceptInv
    <2>3. expect # Any /\ FirstSeq \in Nat /\ lastReceive \in Int
      BY <2>2, OrdTypes DEF OrdInv, AcceptInv, Any
    <2> QED BY <1>t, <2>2, <2>3 DEF Accepted
  <1>4. GotSeq = lastRecvSeq
    BY DEF GotSeq
  <1>5. lastDataId - 1 <= Answered /\ Answered <= GotSeq /\ Accepted <= Sent /\ Sent <= lastDataId
    BY Lockstep
  <1> HIDE DEF Accepted, GotSeq, Answered, Sent
  <1>6. p.seq # p.id - 1
    BY <1>t, <1>2, <1>3, <1>4, <1>5
  <1> QED BY <1>1, <1>2, <1>6

LEMMA ListenerCall ==
  ASSUME Calm, TypeInv, OrdInv, CallInv, Listener, UNCHANGED agentVars
  PROVE  CallInv'
  <1> USE DEF scriptVars, sendVars, recvVars, flagVars, rpcLinkVars
  <1>t. /\ lastSend \in Int /\ lastRecvSeq \in Int /\ GotSeq \in Int /\ Answered \in Int
        /\ rx.op = "DATA" => rx.seq \in Int /\ rx.id \in Int
        /\ lpc = "fin" => rx.op = "DATA"
    BY CallTypes
  <1>u. /\ toAgent \in Seq(ToAgent) /\ toEms \in Seq(ToEms)
        /\ msgQ \in Seq([id : Int, body : Contents])
        /\ \A m \in Elems(msgQ) : m.id \in Int
    BY OrdTypes
  <1>0. /\ MonitorInv' /\ LoopInv' /\ Accepted' = Accepted
        /\ UNCHANGED <<lastSend, executed>> /\ \A a : True(a)' = True(a)
        /\ CommandInv /\ AnswerInv
    BY EmsKeeps DEF CallInv
  <1>a. UNCHANGED <<spc, next, lastDataId>>
    BY DEF Listener, HandleDataAck, HandleData, HandleProbeAck, HandleCleanupAck,
           ProcessFin, ProcessFinFails, RecycleSendPacket, Settle
  <1>b. Sent' = Sent /\ Answered' = Answered /\ UnderWay' = UnderWay
    BY <1>a DEF Sent, Answered, UnderWay
  <1>c. /\ \A p \in Elems(toAgent') : p \in Elems(toAgent) \/ p.op = "DATA_ACK"
        /\ Elems(toEms') \subseteq Elems(toEms)
    BY ListenerOrd
  <1>d. sendPkt' \in {sendPkt, NoCmd}
    BY DEF Listener, HandleDataAck, HandleData, HandleProbeAck, HandleCleanupAck,
           ProcessFin, ProcessFinFails, RecycleSendPacket, Settle
  <1>e. CommandInv'
    <2>1. \A p \in Elems(toAgent') : p.op = "DATA" => Real(p.cmd)
      BY <1>0, <1>c DEF CommandInv
    <2>2. spc' \in {"sleep", "counted", "locked"} => Real(next)'
      BY <1>0, <1>a DEF CommandInv, Real
    <2>3. sendPkt' # NoCmd => Real(sendPkt)'
      BY <1>0, <1>d DEF CommandInv, Real
    <2> HIDE DEF Sent, Accepted, UnderWay
    <2> QED BY <1>0, <1>a, <1>b, <2>1, <2>2, <2>3 DEF CommandInv, Real
  <1> DEFINE RxRight(f, l) == /\ rx'.seq = rx'.id /\ rx'.seq = f
                              /\ l < rx'.seq /\ rx'.seq <= lastSend
  <1>f. ASSUME lpc' = "fin" => True(rx)',
               lpc' # "idle" /\ rx'.op = "DATA" => RxRight(fragSeq', lastRecvSeq'),
               \A m \in Elems(msgQ') : True(m) /\ m.id <= GotSeq',
               Answered <= GotSeq', GotSeq' <= lastSend
        PROVE  CallInv'
    <2> HIDE DEF True, GotSeq, Answered
    <2>1. \A a \in Elems(toEms') : a.op = "DATA" =>
            True(a)' /\ a.seq \in 1..lastSend' /\ a.seq \in {a.id, a.id - 1}
      BY <1>0, <1>c DEF AnswerInv
    <2>2. AnswerInv'
      BY <1>0, <1>b, <1>f, <2>1 DEF AnswerInv
    <2> QED BY <1>0, <1>e, <2>2 DEF CallInv
  <1>g. /\ \A m \in Elems(msgQ) : True(m) /\ m.id <= GotSeq
        /\ Answered <= GotSeq /\ GotSeq <= lastSend
        /\ lpc = "fin" => True(rx)
        /\ lpc # "idle" /\ rx.op = "DATA" =>
             /\ rx.seq = rx.id /\ rx.seq = fragSeq /\ lastRecvSeq < rx.seq /\ rx.seq <= lastSend
    BY <1>0 DEF AnswerInv
  <1>h. ASSUME UNCHANGED msgQ, GotSeq' = GotSeq,
               lpc' = "fin" => True(rx)',
               lpc' # "idle" /\ rx'.op = "DATA" => RxRight(fragSeq', lastRecvSeq')
        PROVE  CallInv'
    <2> HIDE DEF True, GotSeq, Answered
    <2> QED BY <1>f, <1>g, <1>h
  <1>1. CASE HandleDataAck
    <2>1. /\ lpc = "idle" /\ UNCHANGED <<msgQ, lastRecvSeq>>
          /\ lpc' = "idle" \/ (lpc' = "recycle" /\ rx'.op = "DATA_ACK")
      BY <1>1 DEF HandleDataAck, Receive
    <2>2. GotSeq' = GotSeq
      BY <2>1 DEF GotSeq
    <2> QED BY <1>h, <2>1, <2>2
  <1>2. CASE HandleData
    <2> DEFINE p == Head(toEms)
    <2>1. /\ lpc = "idle" /\ UNCHANGED <<msgQ, lastRecvSeq>> /\ p.op = "DATA" /\ toEms # <<>>
          /\ lpc' = "idle" \/ (lpc' = "fin" /\ rx' = p /\ fragSeq' = p.seq /\ NewData(p))
      BY <1>2 DEF HandleData, Receive
    <2>2. GotSeq' = GotSeq
      BY <2>1 DEF GotSeq
    <2>3. p \in Elems(toEms)
      BY <1>u, <2>1, ElemsHeadTail
    <2>4. ASSUME NewData(p)
          PROVE  True(p) /\ p.seq = p.id /\ lastRecvSeq < p.seq /\ p.seq <= lastSend
      BY <2>1, <2>3, <2>4, NewAnswer
    <2> HIDE DEF p
    <2>5. lpc' = "fin" => True(rx)'
      BY <1>0, <2>1, <2>4 DEF True
    <2> QED BY <1>h, <2>1, <2>2, <2>4, <2>5
  <1>3. CASE HandleProbeAck \/ HandleCleanupAck
    <2>1. UNCHANGED <<lpc, rx, fragSeq, lastRecvSeq, msgQ>> /\ lpc = "idle"
      BY <1>3 DEF HandleProbeAck, HandleCleanupAck, Receive
    <2>2. GotSeq' = GotSeq
      BY <2>1 DEF GotSeq
    <2> QED BY <1>h, <2>1, <2>2
  <1>4. CASE ProcessFin
    <2> DEFINE m == [id |-> rx.id, body |-> rx.body]
    <2>1. /\ lpc = "fin" /\ lpc' = "recycle" /\ msgQ' = Append(msgQ, m)
          /\ UNCHANGED <<rx, fragSeq, lastRecvSeq>>
      BY <1>4 DEF ProcessFin
    <2>2. m \in [id : Int, body : Contents] /\ m.id = rx.id /\ m.body = rx.body
      BY <2>1, ToEmsType DEF TypeInv, Hand
    <2>3. True(m)
      BY <1>g, <2>1, <2>2 DEF True
    <2> HIDE DEF m
    <2>4. Elems(msgQ') \subseteq Elems(msgQ) \cup {m}
      <3>1. msgQ \in Seq([id : Int, body : Contents])
        BY <1>u
      <3>2. Elems(Append(msgQ, m)) \subseteq Elems(msgQ) \cup {m}
        BY <2>2, <3>1, ElemsAppend
      <3> QED BY <2>1, <3>2
    <2>5. /\ GotSeq = lastRecvSeq /\ GotSeq' = rx.seq /\ rx.seq \in Int
          /\ rx.op = "DATA"
      BY <1>t, <2>1 DEF GotSeq
    <2>6. Answered <= GotSeq' /\ GotSeq' <= lastSend
      <3> HIDE DEF GotSeq, Answered
      <3> QED BY <1>t, <1>g, <2>1, <2>5
    <2>7. \A x \in Elems(msgQ') : True(x) /\ x.id <= GotSeq'
      <3> HIDE DEF GotSeq, True
      <3> TAKE x \in Elems(msgQ')
      <3>1. CASE x \in Elems(msgQ)
        <4>1. x.id \in Int /\ x.id <= GotSeq /\ True(x)
          BY <1>u, <1>g, <3>1
        <4> QED BY <1>t, <1>g, <2>1, <2>5, <4>1
      <3>2. CASE x = m
        BY <1>t, <1>g, <2>1, <2>2, <2>3, <2>5, <3>2
      <3> QED BY <2>4, <3>1, <3>2
    <2>8. RxRight(fragSeq', lastRecvSeq')
      BY <1>g, <2>1, <2>5
    <2> QED BY <1>f, <2>1, <2>6, <2>7, <2>8
  <1>5. CASE ProcessFinFails
    <2>1. lpc = "fin" /\ lpc' = "idle" /\ UNCHANGED <<lastRecvSeq, msgQ>>
      BY <1>5 DEF ProcessFinFails
    <2>2. GotSeq' = GotSeq
      BY <2>1 DEF GotSeq
    <2> QED BY <1>h, <2>1, <2>2
  <1>6. CASE RecycleSendPacket
    <2>1. lpc = "recycle" /\ lpc' = "settle" /\ UNCHANGED <<rx, fragSeq, lastRecvSeq, msgQ>>
      BY <1>6 DEF RecycleSendPacket
    <2>2. GotSeq' = GotSeq
      BY <2>1 DEF GotSeq
    <2>3. rx'.op = "DATA" => RxRight(fragSeq', lastRecvSeq')
      BY <1>g, <2>1
    <2> QED BY <1>h, <2>1, <2>2, <2>3
  <1>7. CASE Settle
    <2>1. /\ lpc = "settle" /\ lpc' = "idle" /\ msgQ' = msgQ
          /\ lastRecvSeq' = IF rx.op = "DATA" THEN fragSeq ELSE lastRecvSeq
      BY <1>7 DEF Settle
    <2>2. GotSeq' = GotSeq
      BY <1>g, <2>1 DEF GotSeq
    <2> QED BY <1>h, <2>1, <2>2
  <1> QED BY <1>1, <1>2, <1>3, <1>4, <1>5, <1>6, <1>7 DEF Listener

(* The resend timer of the EMS and the link.                               *)
LEMMA FramesCall ==
  ASSUME TypeInv, CallInv, UNCHANGED <<emsVars, agentVars>>,
         \A p \in Elems(toAgent') : p \in Elems(toAgent) \/ p.op # "DATA" \/ Real(p.cmd),
         Elems(toEms') \subseteq Elems(toEms)
  PROVE  CallInv'
  <1>1. /\ MonitorInv' /\ LoopInv' /\ Accepted' = Accepted
        /\ UNCHANGED <<lastSend, executed>> /\ \A a : True(a)' = True(a)
    BY EmsKeeps
  <1>2. /\ Sent' = Sent /\ GotSeq' = GotSeq /\ Answered' = Answered
        /\ UNCHANGED <<spc, next, lastDataId, sendPkt, lpc, rx, fragSeq, lastRecvSeq, msgQ>>
        /\ UnderWay' = UnderWay
    BY EmsStays
  <1>0. CommandInv /\ AnswerInv
    BY DEF CallInv
  <1>3. CommandInv'
    <2>1. \A p \in Elems(toAgent') : p.op = "DATA" => Real(p.cmd)
      BY <1>0 DEF CommandInv
    <2>2. Real(next)' = Real(next) /\ Real(sendPkt)' = Real(sendPkt)
      BY <1>2 DEF Real
    <2> HIDE DEF Sent, Accepted, UnderWay
    <2> QED BY <1>0, <1>1, <1>2, <2>1, <2>2 DEF CommandInv, Real
  <1>4. AnswerInv'
    <2>1. lpc' = "fin" => True(rx)'
      BY <1>0, <1>1, <1>2 DEF AnswerInv, True
    <2> HIDE DEF GotSeq, Answered, True
    <2> QED BY <1>0, <1>1, <1>2, <2>1 DEF AnswerInv
  <1> QED BY <1>1, <1>3, <1>4 DEF CallInv

(* Every step keeps commands and answers in step.                          *)
LEMMA NextCall ==
  ASSUME Calm, TypeInv, OrdInv, CallInv, [Next]_vars
  PROVE  CallInv'
  <1>1. CASE Script /\ UNCHANGED agentVars
    <2>1. MonitorInv' /\ LoopInv'
      BY <1>1, EmsKeeps
    <2> QED BY <1>1, <2>1, ScriptCommands, ScriptAnswers DEF CallInv
  <1>2. CASE Listener /\ UNCHANGED agentVars
    BY <1>2, ListenerCall
  <1>3. CASE ResendTimeHandler /\ UNCHANGED agentVars
    <2> DEFINE d == Data(lastSendSeq, sendPkt)
    <2>1. /\ sendPkt # NoCmd /\ toAgent' = Put(toAgent, d)
          /\ UNCHANGED <<emsVars, agentVars, toEms>>
      BY <1>3 DEF ResendTimeHandler, SendOutData
    <2>2. Elems(toAgent') \subseteq Elems(toAgent) \cup {d}
      BY <2>1, ElemsPut, FrameTypes, OrdTypes
    <2>3. Real(d.cmd)
      BY <2>1 DEF Data, CallInv, CommandInv
    <2> HIDE DEF d
    <2> QED BY <2>1, <2>2, <2>3, FramesCall
  <1>4. CASE Agent
    BY <1>4, AgentCall
  <1>5. CASE Link \/ UNCHANGED vars
    <2>1. UNCHANGED <<emsVars, agentVars>>
      BY <1>5 DEF Link, vars
    <2>2. Elems(toAgent') \subseteq Elems(toAgent) /\ Elems(toEms') \subseteq Elems(toEms)
      BY <1>5, LinkOrd DEF Link, vars, rpcLinkVars
    <2> QED BY <2>1, <2>2, FramesCall
  <1> QED BY <1>1, <1>2, <1>3, <1>4, <1>5 DEF Next, Ems, EmsNext

LEMMA InitCall == Init => CallInv
  <1> SUFFICES ASSUME Init PROVE CallInv OBVIOUS
  <1>1. /\ toAgent = <<>> /\ toEms = <<>> /\ msgQ = <<>> /\ executed = <<>>
        /\ spc = "idle" /\ lastDataId = 0 /\ sendPkt = NoCmd
        /\ lpc = "idle" /\ lastRecvSeq = 0
    BY DEF Init, RpcLinkInit, EmsInit, AgentInit
  <1>2. /\ expect = Any /\ lastReceive = Any /\ ~hasPkt /\ apc = "listen" /\ lastSend = 0
        /\ linkStatus = "WaitForPacket" /\ ~timer /\ ~cleanFlag /\ outBuf = NoCmd
    BY DEF Init, AgentInit, MonitorStatics
  <1>3. Accepted = 0 /\ ~Busy /\ ~Holding /\ Sent = 0 /\ GotSeq = 0 /\ Answered = 0 /\ ~UnderWay
    BY <1>1, <1>2 DEF Accepted, Busy, Holding, Sent, GotSeq, Answered, UnderWay
  <1>4. Elems(toAgent) = {} /\ Elems(toEms) = {} /\ Elems(msgQ) = {}
    BY <1>1, ElemsEmpty
  <1> HIDE DEF Accepted, Busy, Holding, Sent, GotSeq, Answered, UnderWay
  <1>5. MonitorInv
    BY <1>2, <1>3 DEF MonitorInv
  <1>6. LoopInv
    BY <1>2, <1>3 DEF LoopInv
  <1>7. CommandInv /\ AnswerInv
    BY <1>1, <1>2, <1>3, <1>4 DEF CommandInv, AnswerInv
  <1> QED BY <1>5, <1>6, <1>7 DEF CallInv

-----------------------------------------------------------------------------
(* However often frames are lost, repeated or resent, and however often    *)
(* the EMS has no memory for an answer, the agent executes no command      *)
(* twice and none after a later one.                                       *)
THEOREM ExecutionOrder ==
  ASSUME Calm
  PROVE  Spec => []ExecutedInOrder
  <1>1. Init => TypeInv /\ OrdInv /\ CallInv
    BY InitType, InitOrd, InitCall
  <1>2. TypeInv /\ OrdInv /\ CallInv /\ [Next]_vars => (TypeInv /\ OrdInv /\ CallInv)'
    BY NextType, NextOrd, NextCall, AnswersNamed
  <1>3. OrdInv => ExecutedInOrder
    BY DEF OrdInv, AcceptInv
  <1> QED BY <1>1, <1>2, <1>3, PTL DEF Spec

-----------------------------------------------------------------------------
(* While the Sender waits for the acknowledgement of its answer there is   *)
(* no command to be fetched, so that the callback still looks at frames: a *)
(* command that comes in ends the wait (NotifyFunctionListen), and the     *)
(* Sender leaves before it is fetched.                                     *)
THEOREM SenderHears ==
  ASSUME Calm
  PROVE  Spec => []SenderCanHear
  <1>1. Init => TypeInv /\ OrdInv /\ CallInv
    BY InitType, InitOrd, InitCall
  <1>2. TypeInv /\ OrdInv /\ CallInv /\ [Next]_vars => (TypeInv /\ OrdInv /\ CallInv)'
    BY NextType, NextOrd, NextCall, AnswersNamed
  <1>3. CallInv => SenderCanHear
    BY DEF CallInv, MonitorInv, SenderCanHear
  <1> QED BY <1>1, <1>2, <1>3, PTL DEF Spec

-----------------------------------------------------------------------------
(* Rpc implements RemoteCall.                                              *)

(* The answers as RemoteCall has them.                                     *)
Told == [i \in 1..Len(returned) |-> [id |-> returned[i].id, cmd |-> returned[i].body.id]]

LEMMA ToldAppend ==
  ASSUME NEW S, returned \in Seq(S), NEW m \in S, returned' = Append(returned, m)
  PROVE  Told' = Append(Told, [id |-> m.id, cmd |-> m.body.id])
  <1> DEFINE e == [id |-> m.id, cmd |-> m.body.id]
             n == Len(returned)
             R == [id : {returned[i].id : i \in 1..n} \cup {m.id},
                   cmd : {returned[i].body.id : i \in 1..n} \cup {m.body.id}]
  <1>1. /\ n \in Nat /\ Len(returned') = n + 1 /\ returned'[n + 1] = m
        /\ \A i \in 1..n : returned'[i] = returned[i]
    OBVIOUS
  <1>2. Told \in [1..n -> R]
    BY DEF Told
  <1>3. Told \in Seq(R) /\ Len(Told) = n
    <2> HIDE DEF R, n
    <2> QED BY <1>1, <1>2
  <1>4. e \in R
    OBVIOUS
  <1>5. /\ DOMAIN Append(Told, e) = 1..(n + 1)
        /\ \A i \in 1..n : Append(Told, e)[i] = Told[i]
        /\ Append(Told, e)[n + 1] = e
        /\ Append(Told, e) \in Seq(R)
    <2> HIDE DEF R, n, e
    <2> QED BY <1>1, <1>3, <1>4
  <1>6. Told' = [i \in 1..(n + 1) |-> [id |-> returned'[i].id, cmd |-> returned'[i].body.id]]
    BY <1>1 DEF Told
  <1>7. \A i \in 1..(n + 1) : Told'[i] = Append(Told, e)[i]
    <2> TAKE i \in 1..(n + 1)
    <2>1. Told'[i] = [id |-> returned'[i].id, cmd |-> returned'[i].body.id]
      BY <1>6
    <2>2. CASE i \in 1..n
      <3>1. Told[i] = [id |-> returned[i].id, cmd |-> returned[i].body.id]
        BY <2>2 DEF Told
      <3> QED BY <1>1, <1>5, <2>1, <2>2, <3>1
    <2>3. CASE i = n + 1
      BY <1>1, <1>5, <2>1, <2>3
    <2>4. i \in 1..n \/ i = n + 1
      <3> HIDE DEF n
      <3> QED BY <1>1
    <2> QED BY <2>2, <2>3, <2>4
  <1>8. Append(Told, e) = [i \in 1..(n + 1) |-> Append(Told, e)[i]]
    <2> DEFINE q == Append(Told, e)
    <2> HIDE DEF R, n, e, q
    <2>1. q \in Seq(R) /\ DOMAIN q = 1..(n + 1)
      BY <1>5 DEF q
    <2>2. q = [i \in DOMAIN q |-> q[i]]
      BY <2>1
    <2> QED BY <2>1, <2>2 DEF q
  <1> HIDE DEF e, n, R
  <1>9. Told' = [i \in 1..(n + 1) |-> Told'[i]]
    BY <1>6
  <1> QED BY <1>7, <1>8, <1>9 DEF e

(* Which steps a script or the agent's history sees.                       *)
LEMMA Visible ==
  ASSUME Calm, [Next]_vars
  PROVE  \/ RpcSendMessage /\ UNCHANGED executed
         \/ RpcRecvMessage /\ UNCHANGED executed
         \/ (DispatchAbort \/ DispatchInternal \/ SaveContext) /\ UNCHANGED <<returned, lastDataId>>
         \/ UNCHANGED <<returned, lastDataId, executed>>
  <1> USE DEF scriptVars, emsVars, agentVars, monitorVars, loopVars
  <1>1. ASSUME Ems PROVE UNCHANGED executed
    BY <1>1 DEF Ems
  <1>2. ASSUME Agent PROVE UNCHANGED <<returned, lastDataId>>
    BY <1>2 DEF Agent
  <1>3. ASSUME Agent
        PROVE  DispatchAbort \/ DispatchInternal \/ SaveContext \/ UNCHANGED executed
    <2>1. ASSUME Callback PROVE UNCHANGED executed
      BY <2>1 DEF Callback, Ignore, NotifyProbe, NotifyNewData, NotifyOldData,
                  NotifyDataAck, NotifyCleanup, Notify
    <2>2. ASSUME Loop
          PROVE  DispatchAbort \/ DispatchInternal \/ SaveContext \/ UNCHANGED executed
      BY <2>2 DEF Loop, Listen, CleanUpEnvironment, PreDispatchFails, RestoreContext,
                  ContinuePassive, Sender, NumberAnswer, SendAnswer, SetResendTimer, SenderEnd
    <2>3. ASSUME ReSendTimer PROVE UNCHANGED executed
      BY <2>3 DEF ReSendTimer
    <2>4. ~Fault
      BY DEF Fault, Reset, RestoreZero, Exhausted, PostDispatchFails, Upset, Calm
    <2> QED BY <1>3, <2>1, <2>2, <2>3, <2>4 DEF Agent, AgentNext
  <1>4. ASSUME Link \/ UNCHANGED vars PROVE UNCHANGED <<returned, lastDataId, executed>>
    BY <1>4 DEF Link, vars
  <1>5. \/ RpcSendMessage \/ RpcRecvMessage \/ UNCHANGED <<returned, lastDataId>>
    BY AnsFrame
  <1>6. Ems \/ Agent \/ Link \/ UNCHANGED vars
    BY DEF Next
  <1> QED BY <1>1, <1>2, <1>3, <1>4, <1>5, <1>6

LEMMA StepIsCall ==
  ASSUME Calm, AllInv, [Next]_vars
  PROVE  [Promise!Next]_(Promise!vars)
  <1>0. TypeInv /\ OrdInv /\ AnsInv /\ CallInv
    BY DEF AllInv
  <1>t. /\ executed \in Seq(Nat) /\ lastDataId \in Nat
        /\ msgQ \in Seq([id : Int, body : Contents])
        /\ returned \in Seq([id : Int, body : Contents])
    BY <1>0, OrdTypes DEF TypeInv, TypeOK, EmsType
  <1>v. /\ Promise!vars = <<lastDataId, executed, Told>>
        /\ Promise!vars' = <<lastDataId', executed', Told'>>
        /\ returned' = returned => Told' = Told
    BY DEF Promise!vars, Told
  <1>1. CASE RpcSendMessage /\ UNCHANGED executed
    <2>1. lastDataId' = lastDataId + 1 /\ UNCHANGED <<executed, returned>>
      BY <1>1 DEF RpcSendMessage
    <2>2. Promise!Call
      BY <2>1 DEF Promise!Call
    <2> QED BY <2>2 DEF Promise!Next
  <1>2. CASE RpcRecvMessage /\ UNCHANGED executed
    <2>1. /\ spc = "recv" /\ msgQ # <<>> /\ lastDataId' = lastDataId
          /\ \/ Head(msgQ).id = lastDataId /\ returned' = Append(returned, Head(msgQ))
             \/ returned' = returned
      <3>1. msgQ # <<>> /\ Head(msgQ).id # 0
        BY <1>0, <1>t, <1>2, AnswersNamed, ElemsHeadTail DEF RpcRecvMessage, Named
      <3> QED BY <1>2, <3>1 DEF RpcRecvMessage
    <2>2. CASE returned' = returned
      BY <1>2, <1>v, <2>1, <2>2
    <2>3. CASE Head(msgQ).id = lastDataId /\ returned' = Append(returned, Head(msgQ))
      <3> DEFINE m == Head(msgQ)
      <3>1. m \in Elems(msgQ) /\ m \in [id : Int, body : Contents]
        BY <1>t, <2>1, ElemsHeadTail, HeadTailType
      <3>2. m.body.id = m.id /\ m.id \in Elems(executed)
        BY <1>0, <3>1 DEF CallInv, AnswerInv, True
      <3>3. \E i \in 1..Len(executed) : executed[i] = lastDataId
        BY <2>3, <3>2 DEF Elems
      <3>4. \A i \in 1..Len(returned) : returned[i].id \in Int /\ returned[i].id < lastDataId
        <4>1. \A i \in 1..Len(returned) : returned[i].id < lastDataId
          BY <1>0, <2>1 DEF AnsInv, UnderWay
        <4>2. \A i \in 1..Len(returned) : returned[i] \in [id : Int, body : Contents]
          BY <1>t, ElementType
        <4> QED BY <4>1, <4>2
      <3>5. Len(Told) = Len(returned) /\ \A i \in 1..Len(returned) : Told[i].id = returned[i].id
        <4>1. Len(returned) \in Nat
          BY <1>t
        <4> QED BY <4>1 DEF Told
      <3>6. \A i \in 1..Len(Told) : Told[i].id # lastDataId
        BY <1>t, <3>4, <3>5
      <3> HIDE DEF m
      <3>7. Told' = Append(Told, [id |-> m.id, cmd |-> m.body.id])
        BY <1>t, <2>3, <3>1, ToldAppend DEF m
      <3>8. Told' = Append(Told, [id |-> lastDataId, cmd |-> lastDataId])
        BY <2>3, <3>2, <3>7 DEF m
      <3>9. Promise!Return
        BY <1>2, <2>1, <3>3, <3>6, <3>8 DEF Promise!Return, Told
      <3> QED BY <3>9 DEF Promise!Next
    <2> QED BY <2>1, <2>2, <2>3
  <1>3. CASE (DispatchAbort \/ DispatchInternal \/ SaveContext) /\ UNCHANGED <<returned, lastDataId>>
    <2>1. apc = "got" /\ executed' = Append(executed, cmd.id)
      BY <1>3 DEF DispatchAbort, DispatchInternal, SaveContext, Dispatch, Begun
    <2>2. cmd.id \in Nat /\ cmd.id >= 1 /\ cmd.id = Accepted /\ Accepted \in Int /\ Sent \in Int
      BY <1>0, <2>1, OrdTypes, CallTypes DEF CallInv, LoopInv, Real, Holding
    <2>3. cmd.id \in 1..lastDataId
      <3>1. Accepted <= Sent /\ Sent <= lastDataId
        BY <1>0, Lockstep
      <3> HIDE DEF Accepted, Sent
      <3> QED BY <1>t, <2>2, <3>1
    <2>4. \A i \in 1..Len(executed) : executed[i] < cmd.id
      BY <1>0, <2>1 DEF OrdInv, AcceptInv, Elems
    <2>5. Promise!Execute
      BY <1>3, <2>1, <2>3, <2>4 DEF Promise!Execute
    <2> QED BY <2>5 DEF Promise!Next
  <1>4. CASE UNCHANGED <<returned, lastDataId, executed>>
    BY <1>4, <1>v
  <1> QED BY <1>1, <1>2, <1>3, <1>4, Visible

(* Where nothing but the network and the memory of the EMS fails, sending  *)
(* a command and waiting for its answer is a remote call: commands are     *)
(* executed in order and once, each after it was sent, and what            *)
(* RpcRecvMessage returns is the answer to the command sent last, given    *)
(* once.                                                                   *)
THEOREM CallsAreRemote ==
  ASSUME Calm
  PROVE  Spec => CallSpec
  <1>1. Init => AllInv
    <2>1. Init => AnsInv
      BY DEF Init, EmsInit, AnsInv, AnswersOnce, UnderWay
    <2> QED BY <2>1, InitType, InitOrd, InitCall DEF AllInv
  <1>2. AllInv /\ [Next]_vars => AllInv'
    BY NextType, NextOrd, NextAns, NextCall, AnswersNamed DEF AllInv
  <1>3. Init => Promise!Init
    BY DEF Init, EmsInit, AgentInit, Promise!Init
  <1>4. AllInv /\ [Next]_vars => [Promise!Next]_(Promise!vars)
    BY StepIsCall
  <1> QED BY <1>1, <1>2, <1>3, <1>4, PTL DEF Spec, CallSpec, Promise!Spec
=============================================================================
