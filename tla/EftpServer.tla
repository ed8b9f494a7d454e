----------------------------- MODULE EftpServer -----------------------------
(***************************************************************************)
(* The EMS side of a read: the receiving thread, which finds or opens the  *)
(* session of a client and queues its packets, and the session's thread,   *)
(* which answers them.  The two share the packet list and an event that    *)
(* stays signalled until one wait consumes it.                             *)
(***************************************************************************)
EXTENDS EftpLink

CONSTANTS
  MaxTimeoutCount,  \* MAX_TIMEOUT_COUNT
  MaxPkts,          \* packets the EMS has memory for
  MaxMisreads       \* bound: reads of the file that fail

ASSUME EftpServerAssumption ==
  MaxTimeoutCount \in Nat \ {0} /\ MaxPkts \in Nat \ {0} /\ MaxMisreads \in Nat

VARIABLES
  ses,    \* the session: State, file, NextBlkNo and LastSentMsg
  pc,     \* its thread: "none", "loop", "wait" in PktGet, "timewait" in SendData
  after,  \* NextBlkNo once SendData has returned
  count,  \* TimeoutCount of SendData
  pkts,   \* SessionPktList
  event,  \* SessionWaitPktEvent is signalled
  rx,     \* request registered and not yet put, or <<>>
  misread \* reads of the file that have failed
serverVars == <<ses, pc, after, count, pkts, event, rx, misread>>

NoSession == [state |-> "INVALID", file |-> CHOOSE f \in Files : TRUE,
              next |-> 0, last |-> Error]

ServerInit ==
  /\ ses = NoSession
  /\ pc = "none" /\ after = 0 /\ count = 0
  /\ pkts = <<>> /\ event = FALSE /\ rx = <<>> /\ misread = 0

-----------------------------------------------------------------------------
(* The receiving thread: EmsEftpPktDispatch.                               *)

Active == ses.state # "INVALID"

(* EmsEftpSessionOpen: a session with its thread; when the file cannot be  *)
(* opened, a session in state 0 without one.                               *)
Open(f) ==
  IF f \in Missing
  THEN ses' = [NoSession EXCEPT !.state = "ZERO", !.file = f] /\ pc' = "none"
  ELSE /\ ses' = [state |-> "ESTABLISHED", file |-> f, next |-> 1, last |-> Error]
       /\ pc' = "loop"

(* A request of a client that has a session is refused.  Otherwise it gets *)
(* one, which stays in the list even when Open fails.                      *)
Register ==
  /\ rx = <<>>
  /\ toServer # <<>> /\ Head(toServer).op = "RRQ"
  /\ toServer' = Tail(toServer)
  /\ \/ Active /\ UNCHANGED <<ses, pc, rx>>
     \/ ~Active /\ Open(Head(toServer).file) /\ rx' = <<Head(toServer)>>
  /\ UNCHANGED <<after, count, pkts, event, misread, toClient, bounds>>

PktPut(m) == pkts' = Append(pkts, m) /\ event' = TRUE

PutRequest ==
  /\ rx # <<>> /\ Active
  /\ PktPut(rx[1])
  /\ rx' = <<>>
  /\ UNCHANGED <<ses, pc, after, count, misread, linkVars>>

(* Packets held: queued, or being handled in SendData.                     *)
Held == Len(pkts) + (IF pc = "timewait" THEN 1 ELSE 0)

(* A packet for no session, or that cannot be saved, is dropped.           *)
Dispatch ==
  /\ rx = <<>>
  /\ toServer # <<>> /\ Head(toServer).op # "RRQ"
  /\ toServer' = Tail(toServer)
  /\ IF Active /\ Held < MaxPkts THEN PktPut(Head(toServer))
     ELSE UNCHANGED <<pkts, event>>
  /\ UNCHANGED <<ses, pc, after, count, rx, misread, toClient, bounds>>

-----------------------------------------------------------------------------
(* EmsEftpSessionSendData: write the packet and wait for an answer; when   *)
(* the write fails, return at once.                                        *)
SendData(s, m, nextBlkNo) ==
  \/ /\ toClient' = Put(toClient, m)
     /\ ses' = [s EXCEPT !.last = m]
     /\ pc' = "timewait" /\ count' = MaxTimeoutCount /\ after' = nextBlkNo
     /\ UNCHANGED <<toServer, bounds>>
  \/ /\ Refuse
     /\ ses' = [s EXCEPT !.next = nextBlkNo]
     /\ pc' = "loop"
     /\ UNCHANGED <<after, count, toServer, toClient>>

NoSend(s) == ses' = s /\ pc' = "loop" /\ UNCHANGED <<after, count, linkVars>>

(* Mutant: a silent shutdown resends the last packet.                      *)
ShutdownAloud(s) == [s EXCEPT !.state = "CLOSING"]

Shutdown(s) == [s EXCEPT !.state = "CLOSED"]

(* Mutant: the end of the file is one block early.                         *)
FileMaxBlkNoLess(s) == Blocks[s.file] - 1

FileMaxBlkNo(s) == Blocks[s.file]

(* fseek or fread fails though there is a block to read.                   *)
ReadFails == misread < MaxMisreads /\ misread' = misread + 1

(* An empty file and one that cannot be read both end the session.         *)
HandleRrq ==
  \/ /\ FileMaxBlkNo(ses) > 0
     /\ SendData(ses, Data(ses.file, ses.next), 2)
     /\ UNCHANGED misread
  \/ FileMaxBlkNo(ses) = 0 /\ NoSend(Shutdown(ses)) /\ UNCHANGED misread
  \/ FileMaxBlkNo(ses) > 0 /\ NoSend(Shutdown(ses)) /\ ReadFails

(* An ACK for a block not yet sent moves the session on without sending.   *)
HandleEarlyAck(n) ==
  LET s == [ses EXCEPT !.next = n + 1]
  IN /\ n > ses.next - 1
     /\ \/ n < FileMaxBlkNo(s) /\ NoSend(s)
        \/ n \in {FileMaxBlkNo(s), FileMaxBlkNo(s) + 1} /\ NoSend(Shutdown(s))
        \/ /\ n > FileMaxBlkNo(s) + 1
           /\ SendData([s EXCEPT !.state = "CLOSING"], Error, s.next)

(* The OACK is sent at the end of the file and at any error alike.         *)
HandleAck(n) ==
  \/ HandleEarlyAck(n) /\ UNCHANGED misread
  \/ /\ n = ses.next - 1 /\ n < FileMaxBlkNo(ses)
     /\ SendData(ses, Data(ses.file, ses.next), ses.next + 1)
     /\ UNCHANGED misread
  \/ /\ n = ses.next - 1
     /\ SendData(Shutdown(ses), Oack, ses.next)
     /\ IF n < FileMaxBlkNo(ses) THEN ReadFails ELSE UNCHANGED misread
  \/ n < ses.next - 1 /\ SendData(ses, ses.last, ses.next) /\ UNCHANGED misread

(* EmsSessionServiceThread in ESTABLISHED: get a packet and handle it.     *)
HandlePkt ==
  /\ pc = "loop" /\ ses.state = "ESTABLISHED" /\ pkts # <<>>
  /\ pkts' = Tail(pkts)
  /\ \/ Head(pkts).op = "RRQ" /\ HandleRrq
     \/ Head(pkts).op = "ACK" /\ HandleAck(Head(pkts).blk)
     \/ Head(pkts).op = "ERROR" /\ NoSend(Shutdown(ses)) /\ UNCHANGED misread
  /\ UNCHANGED <<event, rx>>

PktGetEmpty ==
  /\ pc = "loop" /\ ses.state = "ESTABLISHED" /\ pkts = <<>>
  /\ pc' = "wait"
  /\ UNCHANGED <<ses, after, count, pkts, event, rx, misread, linkVars>>

PktGetRetry ==
  /\ pc = "wait" /\ event
  /\ event' = FALSE
  /\ pc' = "loop"
  /\ UNCHANGED <<ses, after, count, pkts, rx, misread, linkVars>>

(* The waits of SendData.                                                  *)
Signalled ==
  /\ pc = "timewait" /\ event
  /\ event' = FALSE
  /\ pc' = "loop"
  /\ ses' = [ses EXCEPT !.next = after]
  /\ UNCHANGED <<after, count, pkts, rx, misread, linkVars>>

(* Mutant: the count of timeouts runs past zero.                           *)
TimeoutResendPastZero ==
  /\ pc = "timewait" /\ ~event
  /\ toClient' = Put(toClient, ses.last)
  /\ count' = count - 1
  /\ UNCHANGED <<ses, pc, after, pkts, event, rx, misread, toServer, bounds>>

TimeoutResend ==
  /\ pc = "timewait" /\ ~event /\ count > 1
  /\ \/ /\ toClient' = Put(toClient, ses.last)
        /\ count' = count - 1
        /\ UNCHANGED <<ses, pc, toServer, bounds>>
     \/ /\ Refuse
        /\ pc' = "loop" /\ ses' = [ses EXCEPT !.next = after]
        /\ UNCHANGED <<count, toServer, toClient>>
  /\ UNCHANGED <<after, pkts, event, rx, misread>>

TimeoutShutdown ==
  /\ pc = "timewait" /\ ~event /\ count = 1
  /\ pc' = "loop"
  /\ ses' = [Shutdown(ses) EXCEPT !.next = after]
  /\ count' = 0
  /\ UNCHANGED <<after, pkts, event, rx, misread, linkVars>>

(* In CLOSING the last packet is sent until it times out.                  *)
Closing ==
  /\ pc = "loop" /\ ses.state = "CLOSING"
  /\ SendData(ses, ses.last, ses.next)
  /\ UNCHANGED <<pkts, event, rx, misread>>

Unregister ==
  /\ pc = "loop" /\ ses.state = "CLOSED"
  /\ ses' = NoSession /\ pc' = "none" /\ after' = 0 /\ count' = 0
  /\ pkts' = <<>> /\ event' = FALSE
  /\ UNCHANGED <<rx, misread, linkVars>>

RecvThread == Register \/ PutRequest \/ Dispatch
SessionThread == HandlePkt \/ PktGetEmpty \/ PktGetRetry \/ Signalled
                 \/ TimeoutResend \/ TimeoutShutdown \/ Closing \/ Unregister
ServerNext == RecvThread \/ SessionThread

ServerType ==
  /\ ses.state \in {"INVALID", "ZERO", "ESTABLISHED", "CLOSING", "CLOSED"}
  /\ ses.file \in Files /\ ses.next \in Nat
  /\ ses.last \in ToClient
  /\ pc \in {"none", "loop", "wait", "timewait"}
  /\ after \in Nat /\ count \in 0..MaxTimeoutCount
  /\ pkts \in Seq(ToServer) /\ event \in BOOLEAN
  /\ rx \in Seq(ToServer) /\ Len(rx) <= 1
  /\ misread \in 0..MaxMisreads
=============================================================================
