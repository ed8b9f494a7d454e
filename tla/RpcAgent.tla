------------------------------ MODULE RpcAgent ------------------------------
(***************************************************************************)
(* The agent side of a remote procedure call: the managed network monitor  *)
(* and the loop that listens, executes and answers.  The receive callback  *)
(* and the resend timer interrupt the loop between any two of its steps;   *)
(* they do not interrupt one another.  A command of kind "execute" runs    *)
(* the test executor, which may reset the machine and finish after the     *)
(* boot (module Executor).                                                 *)
(***************************************************************************)
EXTENDS RpcLink

VARIABLES
  apc,           \* where the loop is
  cmd,           \* the command it works on
  hasPkt,        \* HasReceivePacket
  bufIn,         \* MnpBufferIn
  expect,        \* ExpectReceiveSequence
  lastReceive,   \* LastReceiveSequence
  lastSend,      \* LastSendSequence
  savedSend,     \* SendSequenceSavedForResend
  savedApp,      \* AppSequenceSavedForResend
  linkStatus,    \* LinkStatus
  outBuf,        \* MnpBufferOut; NoCmd when MnpBufferOutSize is 0
  timer,         \* the resend timer is set
  cleanFlag,     \* CleanUpEnvironmentFlag
  lastStamp,     \* LastCleanupPktTimeStamp
  ctx,           \* the record file of the passive mode
  executed       \* history: DataIds of the commands whose execution began

monitorVars == <<hasPkt, bufIn, expect, lastReceive, lastSend, savedSend,
                 savedApp, linkStatus, timer, cleanFlag, lastStamp>>
loopVars    == <<apc, cmd, outBuf, ctx, executed>>
agentVars   == <<monitorVars, loopVars>>

Any   == -1   \* 0xFFFFFFFF: the next command has any number
Unset == -2   \* 0xFFFFFFFE

(* The static variables of the monitor when its image is loaded.           *)
MonitorStatics ==
  [hasPkt |-> FALSE, bufIn |-> Stamp, expect |-> Any, lastReceive |-> Any,
   lastSend |-> 0, savedSend |-> Unset, savedApp |-> Any,
   linkStatus |-> "WaitForPacket", timer |-> FALSE, cleanFlag |-> FALSE,
   lastStamp |-> 0]

AgentInit ==
  /\ LET m == MonitorStatics
     IN /\ hasPkt = m.hasPkt /\ bufIn = m.bufIn /\ expect = m.expect
        /\ lastReceive = m.lastReceive /\ lastSend = m.lastSend
        /\ savedSend = m.savedSend /\ savedApp = m.savedApp
        /\ linkStatus = m.linkStatus /\ timer = m.timer
        /\ cleanFlag = m.cleanFlag /\ lastStamp = m.lastStamp
  /\ apc = "listen" /\ cmd = Stamp /\ outBuf = NoCmd
  /\ ctx = [app |-> 0, send |-> 0] /\ executed = <<>>

-----------------------------------------------------------------------------
(* The receive callback: NotifyFunctionListen.                             *)

Up == apc \notin {"boot", "ended"}

(* The Sender polls; it gets to its wait, and sees that the wait is over,  *)
(* before the next frame.                                                  *)
SenderLeft ==
  Prompt => /\ apc \notin {"numbered", "sent"}
            /\ ~(apc = "wait" /\ linkStatus = "WaitForPacket")

(* Nothing is received while the last command waits to be fetched, nor by  *)
(* a machine that is down.                                                 *)
Ignore ==
  /\ toAgent # <<>> /\ (hasPkt \/ ~Up) /\ SenderLeft
  /\ toAgent' = Tail(toAgent)
  /\ UNCHANGED <<agentVars, toEms, upsets>>

(* Any frame copies LastSendSequence.                                      *)
Notify(o) ==
  /\ Up /\ ~hasPkt /\ SenderLeft /\ toAgent # <<>> /\ Head(toAgent).op = o
  /\ toAgent' = Tail(toAgent)
  /\ savedSend' = lastSend
  /\ UNCHANGED <<loopVars, upsets>>

SendOutAck(o, s) == toEms' = Put(toEms, Control(o, s))

NotifyProbe ==
  /\ Notify("PROBE")
  /\ SendOutAck("PROBE_ACK", Head(toAgent).seq)
  /\ UNCHANGED <<hasPkt, bufIn, expect, lastReceive, lastSend, savedApp,
                 linkStatus, timer, cleanFlag, lastStamp>>

(* Mutant: the last command is taken for a new one when it is repeated.    *)
IsNewOrRepeated(p) == expect \in {Any, p.seq, p.seq + 1}

IsNew(p) == expect \in {Any, p.seq}

(* A command: new, the last one again, or another, which is dropped.  A    *)
(* new command also counts as the acknowledgement of the answer being      *)
(* sent; the timer is cancelled only if its number was expected.           *)
NotifyNewData ==
  /\ Notify("DATA")
  /\ LET p == Head(toAgent)
     IN /\ IsNew(p)
        /\ timer' = (timer /\ ~(linkStatus = "SendoutPacket" /\ p.seq = expect))
        /\ savedApp' = p.cmd.id /\ bufIn' = p.cmd
        /\ lastReceive' = p.seq /\ expect' = p.seq + 1
        /\ SendOutAck("DATA_ACK", p.seq)
  /\ hasPkt' = TRUE /\ linkStatus' = "WaitForPacket"
  /\ UNCHANGED <<lastSend, cleanFlag, lastStamp>>

NotifyOldData ==
  /\ Notify("DATA")
  /\ LET p == Head(toAgent)
     IN /\ ~IsNew(p)
        /\ bufIn' = p.cmd
        /\ IF p.seq = lastReceive
             THEN SendOutAck("DATA_ACK", p.seq) /\ linkStatus' = "WaitForPacket"
             ELSE UNCHANGED <<toEms, linkStatus>>
  /\ UNCHANGED <<hasPkt, expect, lastReceive, lastSend, savedApp, timer,
                 cleanFlag, lastStamp>>

NotifyDataAck ==
  /\ Notify("DATA_ACK")
  /\ IF linkStatus = "SendoutPacket" /\ Head(toAgent).seq = lastSend
       THEN timer' = FALSE /\ linkStatus' = "WaitForPacket"
       ELSE UNCHANGED <<timer, linkStatus>>
  /\ UNCHANGED <<hasPkt, bufIn, expect, lastReceive, lastSend, savedApp,
                 cleanFlag, lastStamp, toEms>>

(* A clean up newer than the last one: the numbers start again             *)
(* (ManagedNetworkRefresh) and the loop is told.                           *)
NotifyCleanup ==
  /\ Notify("CLEANUP")
  /\ LET p == Head(toAgent)
     IN /\ IF lastStamp < p.stamp
             THEN /\ cleanFlag' = TRUE /\ hasPkt' = TRUE
                  /\ lastStamp' = p.stamp
                  /\ lastReceive' = Any /\ expect' = Any /\ lastSend' = 0
             ELSE UNCHANGED <<cleanFlag, hasPkt, lastStamp, lastReceive, expect,
                              lastSend>>
        /\ SendOutAck("CLEANUP_ACK", p.seq)
  /\ bufIn' = Stamp
  /\ linkStatus' = "WaitForPacket"
  /\ UNCHANGED <<savedApp, timer>>

Callback ==
  \/ Ignore \/ NotifyProbe \/ NotifyNewData \/ NotifyOldData
  \/ NotifyDataAck \/ NotifyCleanup

-----------------------------------------------------------------------------
(* MnpSendPacketOut, and the timer that repeats it.                        *)
MnpSendPacketOut(seq, c) == toEms' = Put(toEms, Answer(seq, savedApp, c))

ReSendTimer ==
  /\ timer /\ TimerDue /\ SenderLeft
  /\ outBuf # NoCmd /\ MnpSendPacketOut(lastSend, outBuf)
  /\ UNCHANGED <<agentVars, toAgent, upsets>>

-----------------------------------------------------------------------------
(* The loop: AgentTestMain.                                                *)

(* ManagedNetworkListener.                                                 *)
Listen ==
  /\ apc = "listen" /\ hasPkt
  /\ hasPkt' = FALSE /\ cmd' = bufIn
  /\ apc' = "got"
  /\ UNCHANGED <<bufIn, expect, lastReceive, lastSend, savedSend, savedApp,
                 linkStatus, timer, cleanFlag, lastStamp, outBuf, ctx,
                 executed, rpcLinkVars>>

(* Mutants: the clean up is answered like a command; its flag stays.       *)
CleanUpAndAnswer ==
  /\ apc = "got" /\ cleanFlag
  /\ cleanFlag' = FALSE
  /\ apc' = "post"
  /\ UNCHANGED <<hasPkt, bufIn, expect, lastReceive, lastSend, savedSend,
                 savedApp, linkStatus, timer, lastStamp, cmd, outBuf, ctx,
                 executed, rpcLinkVars>>

CleanUpFlagStays ==
  /\ apc = "got" /\ cleanFlag
  /\ cleanFlag' = TRUE
  /\ apc' = "listen"
  /\ UNCHANGED <<hasPkt, bufIn, expect, lastReceive, lastSend, savedSend,
                 savedApp, linkStatus, timer, lastStamp, cmd, outBuf, ctx,
                 executed, rpcLinkVars>>

CleanUpEnvironment ==
  /\ apc = "got" /\ cleanFlag
  /\ cleanFlag' = FALSE
  /\ apc' = "listen"
  /\ UNCHANGED <<hasPkt, bufIn, expect, lastReceive, lastSend, savedSend,
                 savedApp, linkStatus, timer, lastStamp, cmd, outBuf, ctx,
                 executed, rpcLinkVars>>

Dispatch(k) == apc = "got" /\ ~cleanFlag /\ cmd.kind = k

Begun == executed' = Append(executed, cmd.id)

(* PreDispatch does not understand what it is given.                       *)
PreDispatchFails ==
  /\ Dispatch("stamp")
  /\ apc' = "post"
  /\ UNCHANGED <<monitorVars, cmd, outBuf, ctx, executed, rpcLinkVars>>

DispatchAbort ==
  /\ Dispatch("abort") /\ Begun
  /\ apc' = "ended"
  /\ UNCHANGED <<monitorVars, cmd, outBuf, ctx, rpcLinkVars>>

DispatchInternal ==
  /\ Dispatch("plain") /\ Begun
  /\ apc' = "post"
  /\ UNCHANGED <<monitorVars, cmd, outBuf, ctx, rpcLinkVars>>

(* ManagedNetworkSaveContext, then the executor.                           *)
SaveContext ==
  /\ Dispatch("execute") /\ Begun
  /\ ctx' = [app |-> savedApp, send |-> savedSend]
  /\ apc' = "run"
  /\ UNCHANGED <<monitorVars, cmd, outBuf, rpcLinkVars>>

(* Mutant: the numbers are not restored.                                   *)
RestoreNothing ==
  /\ apc = "run"
  /\ apc' = "post"
  /\ UNCHANGED <<monitorVars, cmd, outBuf, ctx, executed, rpcLinkVars>>

(* ManagedNetworkRestoreContext, after the executor and, after a boot, in  *)
(* PostSctAgentDelayedCmd.                                                 *)
RestoreContext ==
  /\ apc = "run"
  /\ savedApp' = ctx.app /\ savedSend' = ctx.send
  /\ apc' = "post"
  /\ UNCHANGED <<hasPkt, bufIn, expect, lastReceive, lastSend, linkStatus,
                 timer, cleanFlag, lastStamp, cmd, outBuf, ctx,
                 executed, rpcLinkVars>>

(* ... or with a record that cannot be read, when a number becomes 0.      *)
RestoreZero ==
  /\ apc = "run" /\ Upset("record")
  /\ savedApp' \in {ctx.app, 0} /\ savedSend' \in {ctx.send, 0}
  /\ apc' = "post"
  /\ UNCHANGED <<hasPkt, bufIn, expect, lastReceive, lastSend, linkStatus,
                 timer, cleanFlag, lastStamp, cmd, outBuf, ctx,
                 executed, toAgent, toEms>>

(* The executor resets the machine, or a test does.                        *)
Reset ==
  /\ apc = "run" /\ Upset("reset")
  /\ LET m == MonitorStatics
     IN /\ hasPkt' = m.hasPkt /\ bufIn' = m.bufIn /\ expect' = m.expect
        /\ lastReceive' = m.lastReceive /\ lastSend' = m.lastSend
        /\ savedSend' = m.savedSend /\ savedApp' = m.savedApp
        /\ linkStatus' = m.linkStatus /\ timer' = m.timer
        /\ cleanFlag' = m.cleanFlag /\ lastStamp' = m.lastStamp
  /\ apc' = "boot" /\ outBuf' = NoCmd
  /\ UNCHANGED <<cmd, ctx, executed, toAgent, toEms>>

(* Sct -c -p: the monitor listens again, the executor goes on.             *)
ContinuePassive ==
  /\ apc = "boot"
  /\ apc' = "run"
  /\ UNCHANGED <<monitorVars, cmd, outBuf, ctx, executed, rpcLinkVars>>

(* ManagedNetworkSender: the answer is put into the buffer, ...            *)
Sender ==
  /\ apc = "post" /\ linkStatus = "WaitForPacket"
  /\ outBuf' = cmd
  /\ apc' = "stall"
  /\ UNCHANGED <<monitorVars, cmd, ctx, executed, rpcLinkVars>>

(* ... numbered, ...                                                       *)
NumberAnswer ==
  /\ apc = "stall"
  /\ lastSend' = savedSend + 1
  /\ linkStatus' = "SendoutPacket"
  /\ apc' = "numbered"
  /\ UNCHANGED <<hasPkt, bufIn, expect, lastReceive, savedSend, savedApp,
                 timer, cleanFlag, lastStamp, cmd, outBuf, ctx, executed,
                 rpcLinkVars>>

(* ... sent, ...                                                           *)
SendAnswer ==
  /\ apc = "numbered"
  /\ MnpSendPacketOut(lastSend, cmd)
  /\ apc' = "sent"
  /\ UNCHANGED <<monitorVars, cmd, outBuf, ctx, executed, toAgent, upsets>>

(* ... and sent again by the timer, ...                                    *)
SetResendTimer ==
  /\ apc = "sent"
  /\ timer' = TRUE
  /\ apc' = "wait"
  /\ UNCHANGED <<hasPkt, bufIn, expect, lastReceive, lastSend, savedSend,
                 savedApp, linkStatus, cleanFlag, lastStamp, cmd, outBuf,
                 ctx, executed, rpcLinkVars>>

(* ... until the callback has seen it acknowledged.                        *)
SenderEnd ==
  /\ apc = "wait" /\ linkStatus # "SendoutPacket"
  /\ outBuf' = NoCmd
  /\ apc' = "listen"
  /\ UNCHANGED <<monitorVars, cmd, ctx, executed, rpcLinkVars>>

(* Without memory to fetch a command, or with a command that returns       *)
(* EFI_OUT_OF_RESOURCES, the loop ends and nothing is answered.            *)
Exhausted ==
  /\ Upset("exhaust")
  /\ \/ apc = "listen" /\ hasPkt /\ UNCHANGED executed
     \/ Dispatch("plain") /\ Begun
     \/ apc = "run" /\ UNCHANGED executed
  /\ apc' = "ended"
  /\ UNCHANGED <<monitorVars, cmd, outBuf, ctx, toAgent, toEms>>

(* The answer cannot be put together: the loop goes on without it, or ends *)
(* when it was the answer to a command begun before a reset.               *)
PostDispatchFails ==
  /\ apc = "post" /\ Upset("mute")
  /\ apc' \in {"listen", "ended"}
  /\ UNCHANGED <<monitorVars, cmd, outBuf, ctx, executed, toAgent, toEms>>

Loop ==
  \/ Listen \/ CleanUpEnvironment
  \/ PreDispatchFails \/ DispatchAbort \/ DispatchInternal
  \/ SaveContext \/ RestoreContext \/ ContinuePassive
  \/ Sender \/ NumberAnswer \/ SendAnswer \/ SetResendTimer \/ SenderEnd

Fault == Reset \/ RestoreZero \/ Exhausted \/ PostDispatchFails

AgentNext == Callback \/ ReSendTimer \/ Loop \/ Fault

AgentType ==
  /\ apc \in {"listen", "got", "run", "boot", "post", "stall", "numbered",
              "sent", "wait", "ended"}
  /\ cmd \in Contents /\ bufIn \in Contents
  /\ outBuf \in Contents
  /\ hasPkt \in BOOLEAN /\ timer \in BOOLEAN /\ cleanFlag \in BOOLEAN
  /\ expect \in Nat \cup {Any} /\ lastReceive \in Nat \cup {Any}
  /\ lastSend \in Int /\ savedSend \in Int /\ savedApp \in Int
  /\ linkStatus \in {"WaitForPacket", "SendoutPacket"}
  /\ lastStamp \in Nat /\ ctx \in [app : Int, send : Int]
  /\ executed \in Seq(Nat)
=============================================================================
