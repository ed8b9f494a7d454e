------------------------------- MODULE RpcEms -------------------------------
(***************************************************************************)
(* The EMS side of a remote procedure call over Ethernet.  Three threads   *)
(* share the send packet, the sequence numbers and the state: the thread   *)
(* that evaluates a script, the resend timer and the listener.  An action  *)
(* is what a thread does between two places where another one can come in. *)
(***************************************************************************)
EXTENDS RpcLink

CONSTANTS
  FirstSeq,      \* LastSendSeq when the EMS starts (a time of day)
  CommandKinds,  \* the kinds of commands that scripts send
  MaxCalls,      \* bound: commands sent
  MaxCleanups,   \* bound: clean ups
  MaxProbes,     \* bound: probes
  MaxQueue,      \* bound: answers in the queue
  Tries          \* times a clean up is sent at most; 3 in the code

ASSUME RpcEmsAssumption ==
  /\ FirstSeq \in Nat /\ CommandKinds \subseteq Kinds
  /\ MaxCalls \in Nat /\ MaxCleanups \in Nat /\ MaxProbes \in Nat
  /\ MaxQueue \in Nat \ {0} /\ Tries \in Nat \ {0}

VARIABLES
  spc,           \* where the script thread is
  lastDataId,    \* LastDataId
  next,          \* the command being sent
  lastSendSeq,   \* LastSendSeq
  sendPkt,       \* SendPacket: the command in it; NoCmd when Len is 0
  curState,      \* CurState
  lpc,           \* where the listener is
  rx,            \* the frame it handles
  fragSeq,       \* FragSeq
  lastRecvSeq,   \* LastRecvSeq
  msgQ,          \* EmsMsgQueue
  cleanupAck,    \* CleanupAckReceived
  probAck,       \* ProbAckReceived
  target,        \* the agent is in the list of targets
  tries,         \* times this clean up has been sent
  stamp,         \* the time of the last clean up
  probes,        \* bound
  returned       \* history: the answers scripts were given

scriptVars == <<spc, next, lastDataId, tries, stamp, probes, returned>>
sendVars   == <<lastSendSeq, sendPkt, curState>>
recvVars   == <<lpc, rx, fragSeq, lastRecvSeq>>
flagVars   == <<cleanupAck, probAck, target>>
emsVars    == <<scriptVars, sendVars, recvVars, msgQ, flagVars>>

NoFrame == [op |-> "NONE", seq |-> 0]

EmsInit ==
  /\ spc = "idle" /\ next = NoCmd /\ lastDataId = 0
  /\ tries = 0 /\ stamp = 0 /\ probes = 0 /\ returned = <<>>
  /\ lastSendSeq = FirstSeq /\ sendPkt = NoCmd /\ curState = "LISTENING"
  /\ lpc = "idle" /\ rx = NoFrame /\ fragSeq = 0 /\ lastRecvSeq = 0
  /\ msgQ = <<>>
  /\ cleanupAck = FALSE /\ probAck = FALSE /\ target = FALSE

(* The shortest sleep is the 5 ms before a command is sent.                *)
SleepOver == Prompt => lpc = "idle"

(* EmsTimerMutex: held by the script while it sends, and within one step   *)
(* by the timer and by RecycleSendPacket.                                  *)
TimerMutexFree == spc # "locked"

-----------------------------------------------------------------------------
(* The script thread.                                                      *)

(* RpcSendMessage up to its sleep.                                         *)
RpcSendMessage ==
  /\ spc = "idle" /\ lastDataId < MaxCalls
  /\ lastDataId' = lastDataId + 1
  /\ \E k \in CommandKinds : next' = [id |-> lastDataId', kind |-> k]
  /\ spc' = "sleep"
  /\ UNCHANGED <<tries, stamp, probes, returned, sendVars, recvVars, msgQ,
                 flagVars, rpcLinkVars>>

(* SendRivlMessage counts before it takes the mutex.                       *)
CountSendSeq ==
  /\ spc = "sleep" /\ SleepOver
  /\ lastSendSeq' = lastSendSeq + 1
  /\ spc' = "counted"
  /\ UNCHANGED <<next, lastDataId, tries, stamp, probes, returned, sendPkt,
                 curState, recvVars, msgQ, flagVars, rpcLinkVars>>

SendOutData(c) == toAgent' = Put(toAgent, Data(lastSendSeq, c))

SendRivlMessage ==
  /\ spc = "counted"
  /\ sendPkt' = next /\ SendOutData(next)
  /\ spc' = "locked"
  /\ UNCHANGED <<next, lastDataId, tries, stamp, probes, returned, lastSendSeq,
                 curState, recvVars, msgQ, flagVars, toEms, upsets>>

(* The end of SendRivlMessage.  The script then waits for the answer; a    *)
(* script that aborts the agent does not, nor one that ends at once.       *)
MarkSending ==
  /\ spc = "locked"
  /\ curState' = "SENDING" /\ next' = NoCmd
  /\ \/ spc' = "recv" /\ UNCHANGED upsets
     \/ spc' = "idle" /\ next.kind = "abort" /\ UNCHANGED upsets
     \/ spc' = "idle" /\ next.kind # "abort" /\ Upset("abandon")
  /\ UNCHANGED <<lastDataId, tries, stamp, probes, returned, lastSendSeq,
                 sendPkt, recvVars, msgQ, flagVars, toAgent, toEms>>

(* Mutant: the DataId of a message is not checked.                         *)
RecvAnyMessage ==
  /\ spc = "recv" /\ msgQ # <<>>
  /\ msgQ' = Tail(msgQ)
  /\ spc' = "idle" /\ returned' = Append(returned, Head(msgQ))
  /\ UNCHANGED <<next, lastDataId, tries, stamp, probes, sendVars, recvVars,
                 flagVars, rpcLinkVars>>

(* RpcRecvMessage, without a timeout: messages with another DataId are     *)
(* dropped, but for DataId 0, which CheckDataId cannot tell from a match.  *)
RpcRecvMessage ==
  /\ spc = "recv" /\ msgQ # <<>>
  /\ msgQ' = Tail(msgQ)
  /\ IF Head(msgQ).id \in {0, lastDataId}
       THEN spc' = "idle" /\ returned' = Append(returned, Head(msgQ))
       ELSE UNCHANGED <<spc, returned>>
  /\ UNCHANGED <<next, lastDataId, tries, stamp, probes, sendVars, recvVars,
                 flagVars, rpcLinkVars>>

TclRestartRecv ==
  /\ spc = "idle" /\ msgQ # <<>>
  /\ msgQ' = <<>>
  /\ UNCHANGED <<scriptVars, sendVars, recvVars, flagVars, rpcLinkVars>>

(* EmsTargetCleanup, between two tests: first the EMS's own numbers,       *)
(* without a mutex, ...                                                    *)
RestoreEmsRpcEnv ==
  /\ spc = "idle" /\ stamp < MaxCleanups /\ Upset("cleanup")
  /\ lastRecvSeq' = 0 /\ fragSeq' = 0
  /\ spc' = "restored" /\ stamp' = stamp + 1 /\ tries' = 0
  /\ UNCHANGED <<next, lastDataId, probes, returned, sendVars, lpc, rx,
                 msgQ, flagVars, toAgent, toEms>>

(* Mutant: one try too many.                                               *)
CleanupOnceMore ==
  /\ \/ spc = "restored" /\ cleanupAck' = FALSE
     \/ /\ spc = "cleanup" /\ SleepOver /\ TimerDue
        /\ ~cleanupAck /\ tries <= Tries
        /\ UNCHANGED cleanupAck
  /\ toAgent' = Put(toAgent, Cleanup(lastSendSeq, stamp))
  /\ spc' = "cleanup" /\ tries' = tries + 1
  /\ UNCHANGED <<next, lastDataId, stamp, probes, returned, sendVars, recvVars,
                 msgQ, probAck, target, toEms, upsets>>

(* ... then the agent's, until it answers or the tries are used up.        *)
SendOutCleanup ==
  /\ \/ spc = "restored" /\ cleanupAck' = FALSE
     \/ /\ spc = "cleanup" /\ SleepOver /\ TimerDue
        /\ ~cleanupAck /\ tries < Tries
        /\ UNCHANGED cleanupAck
  /\ toAgent' = Put(toAgent, Cleanup(lastSendSeq, stamp))
  /\ spc' = "cleanup" /\ tries' = tries + 1
  /\ UNCHANGED <<next, lastDataId, stamp, probes, returned, sendVars, recvVars,
                 msgQ, probAck, target, toEms, upsets>>

CleanupEnd ==
  /\ spc = "cleanup" /\ SleepOver /\ TimerDue
  /\ cleanupAck \/ tries = Tries
  /\ spc' = "idle"
  /\ UNCHANGED <<next, lastDataId, tries, stamp, probes, returned, sendVars,
                 recvVars, msgQ, flagVars, rpcLinkVars>>

SendOutProbe ==
  /\ spc = "idle" /\ probes < MaxProbes
  /\ target' = FALSE /\ probAck' = FALSE
  /\ toAgent' = Put(toAgent, Control("PROBE", 0))
  /\ spc' = "probe" /\ probes' = probes + 1
  /\ UNCHANGED <<next, lastDataId, tries, stamp, returned, sendVars, recvVars,
                 msgQ, cleanupAck, toEms, upsets>>

(* Answered, or three seconds later.                                       *)
ProbeEnd ==
  /\ spc = "probe" /\ (probAck \/ TimerDue)
  /\ spc' = "idle"
  /\ UNCHANGED <<next, lastDataId, tries, stamp, probes, returned, sendVars,
                 recvVars, msgQ, flagVars, rpcLinkVars>>

Script ==
  \/ RpcSendMessage \/ CountSendSeq \/ SendRivlMessage \/ MarkSending
  \/ RpcRecvMessage \/ TclRestartRecv
  \/ RestoreEmsRpcEnv \/ SendOutCleanup \/ CleanupEnd
  \/ SendOutProbe \/ ProbeEnd

-----------------------------------------------------------------------------
(* The timer resends what is in SendPacket, under the number of the last   *)
(* command counted.                                                        *)
ResendTimeHandler ==
  /\ TimerMutexFree /\ sendPkt # NoCmd /\ SleepOver /\ TimerDue
  /\ SendOutData(sendPkt)
  /\ UNCHANGED <<emsVars, toEms, upsets>>

-----------------------------------------------------------------------------
(* The listener: HandlePacket.                                             *)

Receive(o) ==
  /\ lpc = "idle" /\ (Prompt => spc # "locked") /\ toEms # <<>> /\ Head(toEms).op = o
  /\ toEms' = Tail(toEms)

NewData(p) == lastRecvSeq < p.seq \/ lastRecvSeq = 0

(* An acknowledgement of the command being sent; any other is ignored.     *)
HandleDataAck ==
  /\ Receive("DATA_ACK")
  /\ IF curState = "SENDING" /\ Head(toEms).seq = lastSendSeq
       THEN lpc' = "recycle" /\ rx' = Head(toEms) /\ fragSeq' = Head(toEms).seq
       ELSE UNCHANGED <<lpc, rx, fragSeq>>
  /\ UNCHANGED <<lastRecvSeq, scriptVars, sendVars, msgQ, flagVars,
                 toAgent, upsets>>

(* An answer is acknowledged when it is new and when it is the last one    *)
(* again; an older one is dropped.                                         *)
HandleData ==
  /\ Receive("DATA")
  /\ LET p == Head(toEms)
         again == lastRecvSeq # 0 /\ lastRecvSeq = p.seq
     IN /\ toAgent' = IF again \/ NewData(p)
                        THEN Put(toAgent, Control("DATA_ACK", p.seq))
                        ELSE toAgent
        /\ IF ~again /\ NewData(p)
             THEN lpc' = "fin" /\ rx' = p /\ fragSeq' = p.seq
             ELSE UNCHANGED <<lpc, rx, fragSeq>>
  /\ UNCHANGED <<lastRecvSeq, scriptVars, sendVars, msgQ, flagVars, upsets>>

HandleProbeAck ==
  /\ Receive("PROBE_ACK")
  /\ target' = TRUE /\ probAck' = TRUE
  /\ UNCHANGED <<scriptVars, sendVars, recvVars, msgQ, cleanupAck, toAgent, upsets>>

HandleCleanupAck ==
  /\ Receive("CLEANUP_ACK")
  /\ cleanupAck' = TRUE
  /\ UNCHANGED <<scriptVars, sendVars, recvVars, msgQ, probAck, target, toAgent,
                 upsets>>

(* ProcessFin puts the answer into the queue, where the script sees it.    *)
ProcessFin ==
  /\ lpc = "fin" /\ Len(msgQ) < MaxQueue
  /\ msgQ' = Append(msgQ, [id |-> rx.id, body |-> rx.body])
  /\ lpc' = "recycle"
  /\ UNCHANGED <<rx, fragSeq, lastRecvSeq, scriptVars, sendVars, flagVars,
                 rpcLinkVars>>

(* Without memory the answer is gone, although it was acknowledged.        *)
ProcessFinFails ==
  /\ lpc = "fin" /\ Upset("memory")
  /\ lpc' = "idle" /\ rx' = NoFrame /\ fragSeq' = 0
  /\ UNCHANGED <<lastRecvSeq, scriptVars, sendVars, msgQ, flagVars, toAgent, toEms>>

RecycleSendPacket ==
  /\ lpc = "recycle" /\ TimerMutexFree
  /\ sendPkt' = NoCmd
  /\ lpc' = "settle"
  /\ UNCHANGED <<rx, fragSeq, lastRecvSeq, scriptVars, lastSendSeq,
                 curState, msgQ, flagVars, rpcLinkVars>>

Settle ==
  /\ lpc = "settle"
  /\ curState' = "LISTENING"
  /\ lastRecvSeq' = IF rx.op = "DATA" THEN fragSeq ELSE lastRecvSeq
  /\ lpc' = "idle" /\ rx' = NoFrame /\ fragSeq' = 0
  /\ UNCHANGED <<scriptVars, lastSendSeq, sendPkt, msgQ, flagVars,
                 rpcLinkVars>>

Listener ==
  \/ HandleDataAck \/ HandleData \/ HandleProbeAck \/ HandleCleanupAck
  \/ ProcessFin \/ ProcessFinFails \/ RecycleSendPacket \/ Settle

EmsNext == Script \/ ResendTimeHandler \/ Listener

EmsType ==
  /\ spc \in {"idle", "sleep", "counted", "locked", "recv", "restored",
              "cleanup", "probe"}
  /\ lastDataId \in 0..MaxCalls /\ next \in Contents
  /\ tries \in 0..Tries /\ stamp \in 0..MaxCleanups /\ probes \in 0..MaxProbes
  /\ returned \in Seq([id : Int, body : Contents])
  /\ lastSendSeq \in Nat /\ sendPkt \in Contents
  /\ curState \in {"SENDING", "LISTENING"}
  /\ lpc \in {"idle", "fin", "recycle", "settle"}
  /\ rx \in ToEms \cup {NoFrame} /\ fragSeq \in Int /\ lastRecvSeq \in Int
  /\ msgQ \in Seq([id : Int, body : Contents])
  /\ cleanupAck \in BOOLEAN /\ probAck \in BOOLEAN /\ target \in BOOLEAN
=============================================================================
