-------------------------------- MODULE Rpc --------------------------------
(***************************************************************************)
(* Scripts of the EMS call commands of the agent: RpcEms and RpcAgent over *)
(* RpcLink.                                                                *)
(***************************************************************************)
EXTENDS RpcEms, RpcAgent

vars == <<rpcLinkVars, emsVars, agentVars>>

Init == RpcLinkInit /\ EmsInit /\ AgentInit

Ems   == EmsNext /\ UNCHANGED agentVars
Agent == AgentNext /\ UNCHANGED emsVars
Link  == RpcLinkNext /\ UNCHANGED <<emsVars, agentVars>>

Next == Ems \/ Agent \/ Link

Spec == Init /\ [][Next]_vars

(* The threads of the EMS run for as long as it does.  The agent's loop    *)
(* polls the network in both its waits, which gives the callback and the   *)
(* timer their turn, and a command ends.  Scripts need not send, the link  *)
(* need not lose, and the agent need not be reset.                         *)
Fairness ==
  /\ WF_vars(Script /\ spc # "idle" /\ UNCHANGED agentVars)
  /\ WF_vars(ResendTimeHandler /\ UNCHANGED agentVars)
  /\ WF_vars(Listener /\ UNCHANGED agentVars)
  /\ WF_vars(Callback /\ UNCHANGED emsVars)
  /\ WF_vars(ReSendTimer /\ UNCHANGED emsVars)
  /\ WF_vars(Loop /\ UNCHANGED emsVars)

FairSpec == Spec /\ Fairness

-----------------------------------------------------------------------------
(* Every variable has its type.                                            *)
TypeOK == RpcLinkType /\ EmsType /\ AgentType

(* No command is executed twice and none after a later one: the numbers    *)
(* the agent expects and the acknowledgements it repeats keep resent and   *)
(* repeated commands out.                                                  *)
ExecutedInOrder ==
  \A i, j \in 1..Len(executed) : i < j => executed[i] < executed[j]

(* A script gets one answer per command at most, never one that was meant  *)
(* for a later command, and none twice, however many copies of an answer   *)
(* the queue holds.  The answer of a record that could not be read has     *)
(* lost the number of its command, and any command takes it.               *)
AnswersOnce ==
  /\ Len(returned) <= lastDataId
  /\ \A i \in 1..Len(returned) : returned[i].id <= lastDataId
  /\ \A i, j \in 1..Len(returned) :
       i < j => \/ returned[i].id < returned[j].id
                \/ 0 \in {returned[i].id, returned[j].id}

(* The agent never waits for an acknowledgement with a received packet     *)
(* still to be fetched: its callback would drop everything, the            *)
(* acknowledgement included, for ever.                                     *)
SenderCanHear == ~(apc = "wait" /\ linkStatus = "SendoutPacket" /\ hasPkt)

(* Sending a command and waiting for its answer is a remote call: in       *)
(* order, executed before it returns, and answered with its own result.    *)
Promise == INSTANCE RemoteCall WITH
  calls <- lastDataId,
  returned <- [i \in 1..Len(returned) |->
                 [id |-> returned[i].id, cmd |-> returned[i].body.id]]

CallSpec == Promise!Spec

(* RpcRecvMessage, called without a timeout, returns, unless the agent has *)
(* left its loop for want of memory.                                       *)
CallReturns == spc = "recv" ~> (spc # "recv" \/ apc = "ended")

(* "Set CleanUpEnvironmentFlag to trigger Eas to cleanup environment": a   *)
(* clean up the agent acknowledged is carried out by its loop, for as long *)
(* as that runs.                                                           *)
CleanupHappens == cleanFlag ~> (~cleanFlag \/ apc = "ended")
=============================================================================
