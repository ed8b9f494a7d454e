------------------------------ MODULE EftpRead ------------------------------
(***************************************************************************)
(* An agent that reads files from the EMS over a link that loses,          *)
(* duplicates and reorders packets: EftpClient, EftpServer and EftpLink    *)
(* together.                                                               *)
(***************************************************************************)
EXTENDS EftpClient, EftpServer

vars == <<linkVars, clientVars, serverVars>>

Init == LinkInit /\ ClientInit /\ ServerInit

Client == ClientNext /\ UNCHANGED serverVars
Server == ServerNext /\ UNCHANGED clientVars
Link   == LinkNext /\ UNCHANGED <<clientVars, serverVars>>

Next == Client \/ Server \/ Link

Spec == Init /\ [][Next]_vars

(* The agent polls its network interface and its timer is periodic; the    *)
(* EMS keeps both its threads running.  Nothing forces the agent to read,  *)
(* nor the link to misbehave.                                              *)
Fairness ==
  /\ WF_vars((RxCallback \/ DropIdle) /\ UNCHANGED serverVars)
  /\ WF_vars(Timer /\ UNCHANGED serverVars)
  /\ WF_vars(RecvThread /\ UNCHANGED clientVars)
  /\ WF_vars(SessionThread /\ UNCHANGED clientVars)

FairSpec == Spec /\ Fairness

-----------------------------------------------------------------------------
(* Every variable has its type.                                            *)
TypeOK ==
  /\ toServer \in Seq(ToServer) /\ toClient \in Seq(ToClient)
  /\ faults \in 0..MaxFaults /\ refusals \in 0..MaxRefusals
  /\ overtakes \in 0..MaxOvertakes
  /\ ClientType /\ ServerType

File(f) == [n \in 1..Blocks[f] |-> <<f, n>>]

Idle == clt.state = "INIT"

(* The EMS says that the file has ended (OACK) only when every block of it *)
(* has been saved by the agent or a read of it has failed, whatever was    *)
(* lost or resent.                                                         *)
OackIsEarned ==
  (\E i \in 1..Len(toClient) : toClient[i] = Oack) => buf = File(req) \/ misread # 0

(* Reading a file, with all its retries, is a file transfer: no block      *)
(* skipped, saved twice or taken from elsewhere, and success reported by   *)
(* EftpReadFile only for the whole file, or when the EMS could not read    *)
(* it all, which the agent cannot tell.                                    *)
Transfer == INSTANCE FileTransfer WITH
  file <- req, received <- buf, result <- status, readable <- (misread = 0),
  Failures <- Results \ {"SUCCESS"}

TransferSpec == Transfer!Spec

(* A late ACK of an earlier read has moved the session past the block that *)
(* the agent waits for: it will not be sent.                               *)
Overrun == ses.next > clt.next /\ ses.last # Data(ses.file, clt.next)

(* EftpReadFile returns: it polls until the clean up of the transfer.      *)
(* After an overrun it need not: the EMS answers each ACK with the wrong   *)
(* block, and each wrong block starts the agent's count of retries again.  *)
TransferEnds == (~Idle ~> Idle) \/ <>[]Overrun

(* A session that is shutting down leaves the list: the packets that cut   *)
(* its last waits short run out, and the agent can open another.           *)
ClosingEnds == ses.state \in {"CLOSING", "CLOSED"} ~> ses.state = "INVALID"
=============================================================================
