----------------------------- MODULE EftpClient -----------------------------
(***************************************************************************)
(* The agent's EFTP driver reading a file: EftpReadFile, the callbacks of  *)
(* the receive token and the timer in the roles INIT and ACTIVE.           *)
(*                                                                         *)
(* All callbacks run at one priority, so each is one action.  Transmitted  *)
(* buffers are recycled at once.  The user's callbacks of the token        *)
(* (CheckPacket, TimeoutCallback) are NULL, as EftpImplement.c sets them.  *)
(***************************************************************************)
EXTENDS EftpLink

CONSTANTS
  MaxNRetry,     \* ConfigData.TryCount
  MaxBlocks,     \* MAX_REAL_FILE_SIZE, in blocks
  MaxTransfers   \* bound: files the agent is told to get

ASSUME EftpClientAssumption ==
  MaxNRetry \in Nat \ {0} /\ MaxBlocks \in Nat /\ MaxTransfers \in Nat

VARIABLES
  clt,        \* EFTP_IO_PRIVATE: State, role, NextBlkNo, NRetry, Result, LastCtrl
  rcv,        \* the receive token is posted
  req,        \* Token->Filename
  buf,        \* Token->Buffer: the blocks saved
  status,     \* Token->Status, "BUSY" until EftpRrqCleanUp
  transfers
clientVars == <<clt, rcv, req, buf, status, transfers>>

States == {"INIT", "SENT", "ESTABLISHED", "CLOSING", "TIME_WAIT"}
Results == {"SUCCESS", "TIMEOUT", "TFTP_ERROR", "DEVICE_ERROR", "BUFFER_TOO_SMALL"}

NewPrivate == [state |-> "SENT", role |-> "INIT", next |-> 1, retry |-> 0,
               result |-> "SUCCESS", last |-> Error]

ClientInit ==
  /\ clt = [NewPrivate EXCEPT !.state = "INIT"]
  /\ rcv = FALSE
  /\ req \in Files
  /\ buf = <<>>
  /\ status = "SUCCESS"
  /\ transfers = 0

-----------------------------------------------------------------------------
(* Transmit m and become c; or, when the network refuses m, shut down      *)
(* silently with a device error.                                           *)

SilentShutdown(c, result) == [c EXCEPT !.state = "TIME_WAIT", !.result = result]

Transmit(m, c) ==
  /\ toServer' = Put(toServer, m)
  /\ clt' = c
  /\ UNCHANGED bounds

TransmitFails(c) ==
  /\ Refuse
  /\ clt' = SilentShutdown(c, "DEVICE_ERROR")
  /\ UNCHANGED toServer

(* EftpReadFile: build and send the request, post the receive, start the   *)
(* timer.  When the request cannot be sent, or the receive not be posted   *)
(* after it, the call returns the error.                                   *)
ReadFile ==
  /\ clt.state = "INIT" /\ transfers < MaxTransfers
  /\ transfers' = transfers + 1
  /\ req' \in Files
  /\ buf' = <<>>
  /\ \/ /\ Transmit(Request(req'), NewPrivate)
        /\ rcv' = TRUE /\ status' = "BUSY"
     \/ /\ Refuse
        /\ toServer' \in {toServer, Put(toServer, Request(req'))}
        /\ clt' = [NewPrivate EXCEPT !.state = "INIT", !.result = "DEVICE_ERROR"]
        /\ rcv' = FALSE /\ status' = "DEVICE_ERROR"
  /\ UNCHANGED toClient

-----------------------------------------------------------------------------
(* EftpRrqRxCallback                                                       *)

Receive(op) ==
  /\ clt.state # "INIT" /\ rcv
  /\ toClient # <<>> /\ Head(toClient).op = op
  /\ toClient' = Tail(toClient)
  /\ UNCHANGED <<req, status, transfers>>

Transferring == clt.state \in {"SENT", "ESTABLISHED"}

(* Mutant: the number of the block is not checked.                         *)
AnyBlock == Transferring

Expected == Transferring /\ Head(toClient).blk = clt.next

(* The expected block is saved and acknowledged.                           *)
RcvBlock ==
  /\ Receive("DATA") /\ Expected /\ clt.next <= MaxBlocks
  /\ buf' = Append(buf, <<Head(toClient).file, Head(toClient).blk>>)
  /\ LET c == [clt EXCEPT !.state = "ESTABLISHED", !.role = "ACTIVE"]
         n == Head(toClient).blk
     IN \/ /\ Transmit(Ack(n), [c EXCEPT !.last = Ack(n), !.next = @ + 1, !.retry = 0])
           /\ rcv' = TRUE
        \/ TransmitFails(c) /\ rcv' = FALSE

(* Send an error and close aloud.  Only a successful callback resets the   *)
(* number of retries; only it posts the receive again.                     *)
SendErr(c, result, retry, restart) ==
  \/ /\ Transmit(Error, [c EXCEPT !.state = "CLOSING", !.result = result,
                                  !.last = Error, !.retry = retry])
     /\ rcv' = rcv
  \/ TransmitFails(c) /\ rcv' = restart

(* The block does not fit the buffer.                                      *)
RcvTooMuch ==
  /\ Receive("DATA") /\ Expected /\ clt.next > MaxBlocks
  /\ SendErr([clt EXCEPT !.role = "ACTIVE"], "BUFFER_TOO_SMALL", 0, FALSE)
  /\ UNCHANGED buf

(* Another block is ignored, but it does reset the number of retries.      *)
RcvUnexpected ==
  /\ Receive("DATA") /\ Transferring /\ ~Expected
  /\ clt' = [clt EXCEPT !.retry = 0]
  /\ UNCHANGED <<rcv, buf, toServer, bounds>>

(* In CLOSING every block is answered with the last control packet.        *)
RcvClosing ==
  /\ Receive("DATA") /\ clt.state = "CLOSING"
  /\ \/ Transmit(clt.last, [clt EXCEPT !.retry = 0]) /\ rcv' = TRUE
     \/ TransmitFails(clt) /\ rcv' = FALSE
  /\ UNCHANGED buf

RcvError ==
  /\ Receive("ERROR")
  /\ rcv' = FALSE
  /\ clt' = IF clt.state = "TIME_WAIT" THEN clt
            ELSE SilentShutdown(clt, "TFTP_ERROR")
  /\ UNCHANGED <<buf, toServer, bounds>>

(* OACK says that the file has ended; before the first block it stops the  *)
(* receiving for good.                                                     *)
RcvOack ==
  /\ Receive("OACK")
  /\ rcv' = (clt.role = "ACTIVE")
  /\ clt' = IF clt.role = "ACTIVE" /\ clt.state = "ESTABLISHED"
            THEN [clt EXCEPT !.state = "CLOSING", !.result = "SUCCESS"] ELSE clt
  /\ UNCHANGED <<buf, toServer, bounds>>

RcvTimeWait ==
  /\ Receive("DATA") /\ clt.state = "TIME_WAIT"
  /\ rcv' = FALSE
  /\ UNCHANGED <<clt, buf, toServer, bounds>>

(* The receive token comes back with a device error, or cannot be posted   *)
(* again at the end of the callback.                                       *)
RcvFails ==
  /\ clt.state # "INIT" /\ rcv
  /\ Refuse
  /\ rcv' = FALSE
  /\ \E result \in {"DEVICE_ERROR", clt.result} :
       /\ result = "DEVICE_ERROR" \/ ~Transferring
       /\ clt' = SilentShutdown(clt, result)
  /\ UNCHANGED <<toServer, toClient, req, buf, status, transfers>>

(* Packets for nobody are dropped by the network stack.                    *)
DropIdle ==
  /\ clt.state = "INIT" /\ toClient # <<>>
  /\ toClient' = Tail(toClient)
  /\ UNCHANGED <<clientVars, toServer, bounds>>

-----------------------------------------------------------------------------
(* EftpRrqTimer                                                            *)

TimerFrame == UNCHANGED <<toClient, req, buf, transfers>>

(* Mutant: the retries are not counted.                                    *)
TimerResendUncounted ==
  /\ Transferring
  /\ LET m == IF clt.state = "SENT" THEN Request(req) ELSE clt.last
     IN Transmit(m, clt) \/ TransmitFails(clt)
  /\ UNCHANGED <<rcv, status>> /\ TimerFrame

TimerResend ==
  /\ Transferring /\ clt.retry < MaxNRetry
  /\ LET c == [clt EXCEPT !.retry = @ + 1]
         m == IF clt.state = "SENT" THEN Request(req) ELSE clt.last
     IN Transmit(m, c) \/ TransmitFails(c)
  /\ UNCHANGED <<rcv, status>> /\ TimerFrame

TimerGiveUpRequest ==
  /\ clt.state = "SENT" /\ clt.retry >= MaxNRetry
  /\ clt' = SilentShutdown([clt EXCEPT !.retry = @ + 1], "TIMEOUT")
  /\ UNCHANGED <<rcv, status, toServer, bounds>> /\ TimerFrame

TimerGiveUp ==
  /\ clt.state = "ESTABLISHED" /\ clt.retry >= MaxNRetry
  /\ SendErr([clt EXCEPT !.retry = @ + 1], "TIMEOUT", clt.retry + 1, rcv)
  /\ UNCHANGED status /\ TimerFrame

TimerClosing ==
  /\ clt.state = "CLOSING"
  /\ clt' = [clt EXCEPT !.state = "TIME_WAIT"]
  /\ UNCHANGED <<rcv, status, toServer, bounds>> /\ TimerFrame

(* EftpRrqCleanUp tells the caller.                                        *)
CleanUp ==
  /\ clt.state = "TIME_WAIT"
  /\ clt' = [clt EXCEPT !.state = "INIT"]
  /\ status' = clt.result
  /\ rcv' = FALSE
  /\ UNCHANGED <<toServer, bounds>> /\ TimerFrame

RxCallback == RcvBlock \/ RcvTooMuch \/ RcvUnexpected \/ RcvClosing \/ RcvError
              \/ RcvOack \/ RcvTimeWait
Timer == TimerResend \/ TimerGiveUpRequest \/ TimerGiveUp \/ TimerClosing \/ CleanUp

ClientNext == ReadFile \/ RxCallback \/ RcvFails \/ DropIdle \/ Timer

PrivateType ==
  /\ clt.state \in States /\ clt.role \in {"INIT", "ACTIVE"}
  /\ clt.next \in Nat /\ clt.retry \in 0..MaxNRetry + 1
  /\ clt.result \in Results /\ clt.last \in ToServer
ClientType ==
  /\ PrivateType
  /\ rcv \in BOOLEAN
  /\ req \in Files
  /\ buf \in Seq(Files \X Nat)
  /\ status \in Results \cup {"BUSY"}
  /\ transfers \in 0..MaxTransfers
=============================================================================
