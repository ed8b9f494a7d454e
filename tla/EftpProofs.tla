----------------------------- MODULE EftpProofs -----------------------------
(***************************************************************************)
(* For every set of files, any number of blocks, retries and timeouts, and *)
(* any number of packets lost, duplicated, refused or overtaken: the types *)
(* of the EFTP read, and, for an agent that reads one file, that the read  *)
(* implements FileTransfer.                                                *)
(***************************************************************************)
EXTENDS EftpRead, TLAPS

USE EftpLinkAssumption, EftpClientAssumption, EftpServerAssumption

-----------------------------------------------------------------------------
(* Channels.  A set S of packets stands for what is known of each of them. *)

LEMMA PutType ==
  ASSUME NEW S, NEW ch \in Seq(S), NEW m \in S
  PROVE  Put(ch, m) \in Seq(S)
  BY DEF Put

LEMMA EmptyType ==
  ASSUME NEW S
  PROVE  <<>> \in Seq(S) /\ Len(<<>>) = 0
  OBVIOUS

LEMMA HeadTailType ==
  ASSUME NEW S, NEW ch \in Seq(S), ch # <<>>
  PROVE  Head(ch) \in S /\ Tail(ch) \in Seq(S) /\ Len(Tail(ch)) = Len(ch) - 1
  OBVIOUS

LEMMA AppendType ==
  ASSUME NEW S, NEW ch \in Seq(S), NEW m \in S
  PROVE  Append(ch, m) \in Seq(S)
  OBVIOUS

LEMMA DoubledType ==
  ASSUME NEW S, NEW ch \in Seq(S), ch # <<>>
  PROVE  Doubled(ch) \in Seq(S)
  <1>1. <<Head(ch)>> \in Seq(S)
    OBVIOUS
  <1> QED BY <1>1 DEF Doubled

LEMMA OvertakenType ==
  ASSUME NEW S, NEW ch \in Seq(S), Len(ch) > 1
  PROVE  Overtaken(ch) \in Seq(S)
  <1>1. ch[1] \in S /\ ch[2] \in S
    OBVIOUS
  <1>2. <<ch[2], ch[1]>> \in Seq(S)
    BY <1>1
  <1>3. SubSeq(ch, 3, Len(ch)) \in Seq(S)
    OBVIOUS
  <1> QED BY <1>2, <1>3 DEF Overtaken

LEMMA SeqWiden ==
  ASSUME NEW S, NEW T, S \subseteq T, NEW ch \in Seq(S)
  PROVE  ch \in Seq(T)
  <1>1. /\ Len(ch) \in Nat /\ ch = [i \in 1..Len(ch) |-> ch[i]]
        /\ \A i \in 1..Len(ch) : ch[i] \in T
    OBVIOUS
  <1> QED BY <1>1

(* The link brings nothing into a channel that was not there.              *)
LEMMA LinkKeeps ==
  ASSUME NEW S, NEW T, toServer \in Seq(S), toClient \in Seq(T), LinkNext
  PROVE  toServer' \in Seq(S) /\ toClient' \in Seq(T)
  <1>1. CASE Lose
    BY <1>1, HeadTailType DEF Lose
  <1>2. CASE Duplicate
    BY <1>2, DoubledType DEF Duplicate
  <1>3. CASE Overtake
    BY <1>3, OvertakenType DEF Overtake
  <1> QED BY <1>1, <1>2, <1>3 DEF LinkNext

-----------------------------------------------------------------------------
(* What each side sends: a request, an error or its last control packet;   *)
(* the packet the session sent last.                                       *)

ClientSends ==
  \/ toServer' = toServer
  \/ \E m \in {Error, clt'.last, Request(req')} : toServer' = Put(toServer, m)

ClientTakes == toClient' = toClient \/ (toClient # <<>> /\ toClient' = Tail(toClient))

ServerSends == toClient' = toClient \/ toClient' = Put(toClient, ses'.last)

ServerTakes == toServer' = toServer \/ (toServer # <<>> /\ toServer' = Tail(toServer))

Retries == 0..MaxNRetry + 1

PrivateRec == [state : States, role : {"INIT", "ACTIVE"}, next : Nat,
               retry : Retries, result : Results, last : ToServer]

SessionRec == [state : {"INVALID", "ZERO", "ESTABLISHED", "CLOSING", "CLOSED"},
               file : Files, next : Nat, last : ToClient]

(* A transfer under way has a retry left or has just used the last.        *)
AgentType ==
  /\ clt \in PrivateRec
  /\ Transferring => clt.retry <= MaxNRetry
  /\ rcv \in BOOLEAN /\ req \in Files
  /\ buf \in Seq(Files \X Nat)
  /\ status \in Results \cup {"BUSY"}
  /\ transfers \in 0..MaxTransfers

EmsType ==
  /\ ses \in SessionRec
  /\ pc \in {"none", "loop", "wait", "timewait"}
  /\ after \in Nat /\ count \in 0..MaxTimeoutCount
  /\ pkts \in Seq(ToServer) /\ event \in BOOLEAN
  /\ rx \in Seq(ToServer) /\ Len(rx) <= 1

LinkType ==
  /\ toServer \in Seq(ToServer) /\ toClient \in Seq(ToClient)
  /\ faults \in 0..MaxFaults /\ refusals \in 0..MaxRefusals
  /\ overtakes \in 0..MaxOvertakes

MisreadType == misread \in 0..MaxMisreads

TypeInv == AgentType /\ EmsType /\ LinkType /\ MisreadType

LEMMA TypeInvOK == TypeInv => TypeOK
  BY DEF TypeInv, AgentType, EmsType, LinkType, MisreadType, TypeOK, ClientType, PrivateType,
         ServerType, PrivateRec, SessionRec, Retries

LEMMA RetryRange ==
  /\ 0 \in Retries /\ 0 <= MaxNRetry
  /\ \A r \in Retries : r <= MaxNRetry => r + 1 \in Retries
  BY DEF Retries

LEMMA Packets ==
  /\ Error \in ToServer /\ Error \in ToClient /\ Oack \in ToClient
  /\ \A f \in Files : Request(f) \in ToServer
  /\ \A n \in Nat : Ack(n) \in ToServer
  /\ \A f \in Files : \A n \in Nat : Data(f, n) \in ToClient
  BY DEF ToServer, ToClient, Error, Oack, Request, Ack, Data

LEMMA DataPacket ==
  ASSUME NEW m \in ToClient, m.op = "DATA"
  PROVE  m.file \in Files /\ m.blk \in Nat /\ m = Data(m.file, m.blk)
  BY DEF ToClient, Oack, Error, Data

LEMMA AckPacket ==
  ASSUME NEW m \in ToServer, m.op = "ACK"
  PROVE  m.blk \in Nat /\ m = Ack(m.blk)
  BY DEF ToServer, Error, Ack

LEMMA RequestPacket ==
  ASSUME NEW m \in ToServer, m.op = "RRQ"
  PROVE  m.file \in Files /\ m = Request(m.file)
  BY DEF ToServer, Error, Request

LEMMA NoSessionType == Files # {} => NoSession \in SessionRec /\ NoSession.last = Error
  BY Packets DEF NoSession, SessionRec

LEMMA InitType == Init => TypeInv
  <1> SUFFICES ASSUME Init PROVE TypeInv OBVIOUS
  <1>1. clt = [NewPrivate EXCEPT !.state = "INIT"] /\ req \in Files
    BY DEF Init, ClientInit
  <1>2. clt \in PrivateRec /\ clt.state = "INIT"
    BY <1>1, Packets, RetryRange DEF NewPrivate, PrivateRec, States, Results
  <1>3. AgentType
    <2>1. buf \in Seq(Files \X Nat) /\ status \in Results /\ rcv \in BOOLEAN
      BY EmptyType, Zenon DEF Init, ClientInit, Results
    <2>2. transfers \in 0..MaxTransfers
      BY DEF Init, ClientInit
    <2> QED BY <1>1, <1>2, <2>1, <2>2 DEF AgentType, Transferring
  <1>4. EmsType
    <2>1. ses = NoSession /\ pc = "none" /\ after = 0 /\ count = 0 /\ pkts = <<>> /\ rx = <<>>
      BY DEF Init, ServerInit
    <2>2. event \in BOOLEAN
      BY Zenon DEF Init, ServerInit
    <2> QED BY <1>1, <2>1, <2>2, NoSessionType, EmptyType DEF EmsType
  <1>5. LinkType
    BY DEF Init, LinkInit, LinkType
  <1>6. MisreadType
    BY DEF Init, ServerInit, MisreadType
  <1> QED BY <1>3, <1>4, <1>5, <1>6 DEF TypeInv

LEMMA ShutdownType ==
  ASSUME NEW c \in PrivateRec, NEW result \in Results
  PROVE  /\ SilentShutdown(c, result) \in PrivateRec
         /\ SilentShutdown(c, result).state = "TIME_WAIT"
         /\ SilentShutdown(c, result).result = result
         /\ SilentShutdown(c, result).last = c.last
         /\ SilentShutdown(c, result).next = c.next
  BY DEF SilentShutdown, PrivateRec, States

(* What a step of the agent does, apart from the data.                     *)
AgentStep ==
  /\ AgentType' /\ ClientSends /\ ClientTakes
  /\ UNCHANGED bounds \/ Refuse

LEMMA RxStep ==
  ASSUME AgentType, LinkType, RxCallback
  PROVE  AgentStep
  <1> USE DEF Receive
  <1>0. /\ clt \in PrivateRec /\ rcv \in BOOLEAN /\ req \in Files
        /\ buf \in Seq(Files \X Nat) /\ toClient \in Seq(ToClient)
        /\ status \in Results \cup {"BUSY"} /\ transfers \in 0..MaxTransfers
    BY DEF AgentType, LinkType
  <1>1. toClient # <<>> /\ toClient' = Tail(toClient) /\ UNCHANGED <<req, status, transfers>>
    BY DEF RxCallback, RcvBlock, RcvTooMuch, RcvUnexpected, RcvClosing, RcvError, RcvOack,
           RcvTimeWait
  <1>2. Head(toClient) \in ToClient /\ ClientTakes
    BY <1>0, <1>1, HeadTailType DEF ClientTakes
  <1>3. /\ clt.state \in States /\ clt.next \in Nat /\ clt.last \in ToServer
        /\ clt.retry \in Retries /\ clt.result \in Results
    BY <1>0 DEF PrivateRec
  <1>4. CASE RcvBlock
    <2> DEFINE c == [clt EXCEPT !.state = "ESTABLISHED", !.role = "ACTIVE"]
               n == Head(toClient).blk
    <2>1. n \in Nat /\ Head(toClient).file \in Files
      BY <1>2, <1>4, DataPacket DEF RcvBlock
    <2>2. c \in PrivateRec
      BY <1>0 DEF PrivateRec, States
    <2>3. buf' \in Seq(Files \X Nat)
      BY <1>0, <1>4, <2>1, AppendType DEF RcvBlock
    <2>4. CASE Transmit(Ack(n), [c EXCEPT !.last = Ack(n), !.next = @ + 1, !.retry = 0])
               /\ rcv' = TRUE
      <3>0. c.next = clt.next /\ c.next + 1 \in Nat /\ Ack(n) \in ToServer
        BY <1>0, <1>3, <2>1, Packets DEF PrivateRec
      <3> HIDE DEF c, n
      <3>1. /\ clt' \in PrivateRec /\ clt'.retry = 0 /\ clt'.last = Ack(n)
        BY <2>2, <2>4, <3>0, RetryRange DEF Transmit, PrivateRec
      <3> QED BY <1>0, <1>1, <1>2, <2>3, <2>4, <3>1
              DEF AgentStep, AgentType, ClientSends, Transmit
    <2>5. CASE TransmitFails(c) /\ rcv' = FALSE
      <3>1. clt' \in PrivateRec /\ clt'.state = "TIME_WAIT"
        BY <2>2, <2>5, ShutdownType DEF TransmitFails, Results
      <3> QED BY <1>0, <1>1, <1>2, <2>3, <2>5, <3>1
              DEF AgentStep, AgentType, ClientSends, TransmitFails, Transferring
    <2> QED BY <1>4, <2>4, <2>5 DEF RcvBlock
  <1>5. CASE RcvTooMuch
    <2> DEFINE c == [clt EXCEPT !.role = "ACTIVE"]
    <2>1. c \in PrivateRec /\ buf' = buf
      BY <1>0, <1>5 DEF PrivateRec, RcvTooMuch
    <2>2. CASE /\ Transmit(Error, [c EXCEPT !.state = "CLOSING", !.result = "BUFFER_TOO_SMALL",
                                          !.last = Error, !.retry = 0])
               /\ rcv' = rcv
      <3>1. clt' \in PrivateRec /\ clt'.state = "CLOSING"
        BY <2>1, <2>2, Packets, RetryRange DEF Transmit, PrivateRec, States, Results
      <3> QED BY <1>0, <1>1, <1>2, <2>1, <2>2, <3>1
              DEF AgentStep, AgentType, ClientSends, Transmit, Transferring
    <2>3. CASE TransmitFails(c) /\ rcv' = FALSE
      <3>1. clt' \in PrivateRec /\ clt'.state = "TIME_WAIT"
        BY <2>1, <2>3, ShutdownType DEF TransmitFails, Results
      <3> QED BY <1>0, <1>1, <1>2, <2>1, <2>3, <3>1
              DEF AgentStep, AgentType, ClientSends, TransmitFails, Transferring
    <2> QED BY <1>5, <2>2, <2>3 DEF RcvTooMuch, SendErr
  <1>6. CASE RcvUnexpected
    <2>1. clt' \in PrivateRec /\ clt'.retry = 0
      BY <1>0, <1>6, RetryRange DEF RcvUnexpected, PrivateRec
    <2> QED BY <1>0, <1>1, <1>2, <1>6, <2>1
            DEF AgentStep, AgentType, ClientSends, RcvUnexpected
  <1>7. CASE RcvClosing
    <2>1. CASE Transmit(clt.last, [clt EXCEPT !.retry = 0]) /\ rcv' = TRUE
      <3>1. clt' \in PrivateRec /\ clt'.retry = 0 /\ clt'.last = clt.last
        BY <1>0, <2>1, RetryRange DEF Transmit, PrivateRec
      <3> QED BY <1>0, <1>1, <1>2, <1>7, <2>1, <3>1
              DEF AgentStep, AgentType, ClientSends, Transmit, RcvClosing
    <2>2. CASE TransmitFails(clt) /\ rcv' = FALSE
      <3>1. clt' \in PrivateRec /\ clt'.state = "TIME_WAIT"
        BY <1>0, <2>2, ShutdownType DEF TransmitFails, Results
      <3> QED BY <1>0, <1>1, <1>2, <1>7, <2>2, <3>1
              DEF AgentStep, AgentType, ClientSends, TransmitFails, Transferring, RcvClosing
    <2> QED BY <1>7, <2>1, <2>2 DEF RcvClosing
  <1>8. CASE RcvError
    <2>1. clt' \in PrivateRec /\ clt'.state = "TIME_WAIT"
      BY <1>0, <1>8, ShutdownType DEF RcvError, Results
    <2> QED BY <1>0, <1>1, <1>2, <1>8, <2>1
            DEF AgentStep, AgentType, ClientSends, RcvError, Transferring
  <1>9. CASE RcvOack
    <2>1. clt' \in PrivateRec /\ (clt' = clt \/ clt'.state = "CLOSING")
      BY <1>0, <1>9 DEF RcvOack, PrivateRec, States, Results
    <2>2. rcv' \in BOOLEAN
      BY <1>9 DEF RcvOack
    <2> QED BY <1>0, <1>1, <1>2, <1>9, <2>1, <2>2
            DEF AgentStep, AgentType, ClientSends, RcvOack, Transferring
  <1>10. CASE RcvTimeWait
    BY <1>0, <1>1, <1>2, <1>10 DEF AgentStep, AgentType, ClientSends, RcvTimeWait, Transferring
  <1> QED BY <1>4, <1>5, <1>6, <1>7, <1>8, <1>9, <1>10 DEF RxCallback

LEMMA TimerStep ==
  ASSUME AgentType, LinkType, Timer
  PROVE  AgentStep
  <1> USE DEF TimerFrame
  <1>0. /\ clt \in PrivateRec /\ rcv \in BOOLEAN /\ req \in Files
        /\ buf \in Seq(Files \X Nat) /\ toClient \in Seq(ToClient)
        /\ status \in Results \cup {"BUSY"} /\ transfers \in 0..MaxTransfers
    BY DEF AgentType, LinkType
  <1>1. UNCHANGED <<toClient, req, buf, transfers>> /\ ClientTakes
    BY DEF Timer, TimerResend, TimerGiveUpRequest, TimerGiveUp, TimerClosing, CleanUp, ClientTakes
  <1>3. /\ clt.state \in States /\ clt.next \in Nat /\ clt.last \in ToServer
        /\ clt.retry \in Retries /\ clt.result \in Results
        /\ Transferring => clt.retry <= MaxNRetry
    BY <1>0 DEF PrivateRec, AgentType
  <1> DEFINE c == [clt EXCEPT !.retry = @ + 1]
  <1>4. CASE TimerResend
    <2>0. clt.retry + 1 \in Retries /\ clt.retry + 1 <= MaxNRetry
      BY <1>3, <1>4 DEF TimerResend, Retries
    <2>1. c \in PrivateRec /\ c.retry <= MaxNRetry /\ c.last = clt.last
      BY <1>0, <2>0 DEF PrivateRec
    <2>2. CASE \E m \in {Request(req), clt.last} : Transmit(m, c)
      BY <1>0, <1>1, <1>4, <2>1, <2>2
         DEF AgentStep, AgentType, ClientSends, Transmit, TimerResend
    <2>3. CASE TransmitFails(c)
      <3>1. clt' \in PrivateRec /\ clt'.state = "TIME_WAIT"
        BY <2>1, <2>3, ShutdownType DEF TransmitFails, Results
      <3> QED BY <1>0, <1>1, <1>4, <2>3, <3>1
              DEF AgentStep, AgentType, ClientSends, TransmitFails, Transferring, TimerResend
    <2> QED BY <1>4, <2>2, <2>3 DEF TimerResend
  <1>5. CASE TimerGiveUpRequest
    <2>0. clt.retry + 1 \in Retries
      BY <1>3, <1>5, RetryRange DEF TimerGiveUpRequest, Transferring
    <2>1. c \in PrivateRec
      BY <1>0, <2>0 DEF PrivateRec
    <2>2. clt' \in PrivateRec /\ clt'.state = "TIME_WAIT"
      BY <1>5, <2>1, ShutdownType DEF TimerGiveUpRequest, Results
    <2> QED BY <1>0, <1>1, <1>5, <2>2
            DEF AgentStep, AgentType, ClientSends, Transferring, TimerGiveUpRequest
  <1>6. CASE TimerGiveUp
    <2>0. clt.retry + 1 \in Retries
      BY <1>3, <1>6, RetryRange DEF TimerGiveUp, Transferring
    <2>1. c \in PrivateRec /\ clt.retry + 1 \in Retries
      BY <1>0, <2>0 DEF PrivateRec
    <2>2. CASE /\ Transmit(Error, [c EXCEPT !.state = "CLOSING", !.result = "TIMEOUT",
                                          !.last = Error, !.retry = clt.retry + 1])
               /\ rcv' = rcv
      <3>1. clt' \in PrivateRec /\ clt'.state = "CLOSING"
        BY <2>1, <2>2, Packets, RetryRange DEF Transmit, PrivateRec, States, Results
      <3> QED BY <1>0, <1>1, <1>6, <2>2, <3>1
              DEF AgentStep, AgentType, ClientSends, Transmit, Transferring, TimerGiveUp
    <2>3. CASE TransmitFails(c) /\ rcv' = rcv
      <3>1. clt' \in PrivateRec /\ clt'.state = "TIME_WAIT"
        BY <2>1, <2>3, ShutdownType DEF TransmitFails, Results
      <3> QED BY <1>0, <1>1, <1>6, <2>3, <3>1
              DEF AgentStep, AgentType, ClientSends, TransmitFails, Transferring, TimerGiveUp
    <2> QED BY <1>6, <2>2, <2>3 DEF TimerGiveUp, SendErr
  <1>7. CASE TimerClosing
    <2>1. clt' \in PrivateRec /\ clt'.state = "TIME_WAIT"
      BY <1>0, <1>7 DEF TimerClosing, PrivateRec, States
    <2> QED BY <1>0, <1>1, <1>7, <2>1
            DEF AgentStep, AgentType, ClientSends, Transferring, TimerClosing
  <1>8. CASE CleanUp
    <2>1. clt' \in PrivateRec /\ clt'.state = "INIT"
      BY <1>0, <1>8 DEF CleanUp, PrivateRec, States
    <2> QED BY <1>0, <1>1, <1>3, <1>8, <2>1
            DEF AgentStep, AgentType, ClientSends, Transferring, CleanUp
  <1> QED BY <1>4, <1>5, <1>6, <1>7, <1>8 DEF Timer

LEMMA ClientStep ==
  ASSUME AgentType, LinkType, ClientNext
  PROVE  AgentStep
  <1>0. /\ clt \in PrivateRec /\ rcv \in BOOLEAN /\ req \in Files
        /\ buf \in Seq(Files \X Nat) /\ toClient \in Seq(ToClient)
        /\ status \in Results \cup {"BUSY"} /\ transfers \in 0..MaxTransfers
    BY DEF AgentType, LinkType
  <1>1. CASE ReadFile
    <2>1. /\ NewPrivate \in PrivateRec /\ NewPrivate.retry = 0
          /\ [NewPrivate EXCEPT !.state = "INIT", !.result = "DEVICE_ERROR"] \in PrivateRec
          /\ [NewPrivate EXCEPT !.state = "INIT", !.result = "DEVICE_ERROR"].state = "INIT"
      BY Packets, RetryRange DEF NewPrivate, PrivateRec, States, Results
    <2>2. /\ transfers' \in 0..MaxTransfers /\ req' \in Files /\ ClientTakes
          /\ buf' \in Seq(Files \X Nat)
      BY <1>0, <1>1, EmptyType DEF ReadFile, ClientTakes
    <2>3. CASE Transmit(Request(req'), NewPrivate) /\ rcv' = TRUE /\ status' = "BUSY"
      BY <2>1, <2>2, <2>3, RetryRange DEF AgentStep, AgentType, ClientSends, Transmit
    <2>4. CASE /\ Refuse
               /\ toServer' \in {toServer, Put(toServer, Request(req'))}
               /\ clt' = [NewPrivate EXCEPT !.state = "INIT", !.result = "DEVICE_ERROR"]
               /\ rcv' = FALSE /\ status' = "DEVICE_ERROR"
      BY <2>1, <2>2, <2>4 DEF AgentStep, AgentType, ClientSends, Transferring, Results
    <2> QED BY <1>1, <2>3, <2>4 DEF ReadFile
  <1>2. CASE RcvFails
    <2>1. /\ clt.result \in Results /\ "DEVICE_ERROR" \in Results
      BY <1>0 DEF PrivateRec, Results
    <2>2. clt' \in PrivateRec /\ clt'.state = "TIME_WAIT"
      BY <1>0, <1>2, <2>1, ShutdownType DEF RcvFails
    <2> QED BY <1>0, <1>2, <2>2
            DEF AgentStep, AgentType, ClientSends, ClientTakes, Transferring, RcvFails
  <1>3. CASE DropIdle
    BY <1>0, <1>3 DEF DropIdle, clientVars, AgentStep, AgentType, ClientSends, ClientTakes,
                      Transferring
  <1> QED BY <1>1, <1>2, <1>3, RxStep, TimerStep DEF ClientNext

(* What SendData does, whether or not the write succeeds.                  *)
LEMMA SendDataStep ==
  ASSUME NEW s \in SessionRec, NEW m \in ToClient, NEW n \in Nat, SendData(s, m, n),
         after \in Nat, count \in 0..MaxTimeoutCount
  PROVE  /\ ses' \in SessionRec /\ ses'.file = s.file /\ ses'.state = s.state
         /\ \/ ses'.last = m /\ toClient' = Put(toClient, m)
            \/ ses'.last = s.last /\ toClient' = toClient
         /\ pc' \in {"loop", "timewait"}
         /\ after' \in Nat /\ count' \in 0..MaxTimeoutCount
         /\ toServer' = toServer /\ (UNCHANGED bounds \/ Refuse)
  <1>1. CASE /\ toClient' = Put(toClient, m)
             /\ ses' = [s EXCEPT !.last = m]
             /\ pc' = "timewait" /\ count' = MaxTimeoutCount /\ after' = n
             /\ UNCHANGED <<toServer, bounds>>
    <2>1. /\ ses' \in SessionRec /\ ses'.file = s.file /\ ses'.state = s.state
          /\ ses'.last = m
      BY <1>1 DEF SessionRec
    <2> QED BY <1>1, <2>1
  <1>2. CASE /\ Refuse
             /\ ses' = [s EXCEPT !.next = n]
             /\ pc' = "loop"
             /\ UNCHANGED <<after, count, toServer, toClient>>
    <2>1. /\ ses' \in SessionRec /\ ses'.file = s.file /\ ses'.state = s.state
          /\ ses'.last = s.last
      BY <1>2 DEF SessionRec
    <2> QED BY <1>2, <2>1
  <1> QED BY <1>1, <1>2 DEF SendData

(* What handling a packet does to the session: it sends the next block     *)
(* after the request or the acknowledgement of the block before it, OACK   *)
(* after that of the last block or a read that failed, or what it sent     *)
(* last once more.                                                         *)
Answers(m) ==
  \/ m \in {Error, ses.last}
  \/ /\ m = Data(ses.file, ses.next)
     /\ \/ Head(pkts).op = "RRQ" /\ FileMaxBlkNo(ses) # 0
        \/ /\ Head(pkts).op = "ACK" /\ Head(pkts).blk = ses.next - 1
           /\ Head(pkts).blk < FileMaxBlkNo(ses)
  \/ /\ m = Oack
     /\ \/ Head(pkts).op = "ACK" /\ FileMaxBlkNo(ses) <= Head(pkts).blk
        \/ misread' # 0

LEMMA HandleStep ==
  ASSUME EmsType, MisreadType, HandlePkt
  PROVE  /\ ses' \in SessionRec /\ ses'.file = ses.file /\ Answers(ses'.last)
         /\ ses'.state \in {"ESTABLISHED", "CLOSING", "CLOSED"}
         /\ toClient' = toClient \/ toClient' = Put(toClient, ses'.last)
         /\ pc' \in {"loop", "timewait"}
         /\ after' \in Nat /\ count' \in 0..MaxTimeoutCount
         /\ toServer' = toServer /\ (UNCHANGED bounds \/ Refuse)
  <1> DEFINE Goal == /\ ses' \in SessionRec /\ ses'.file = ses.file /\ Answers(ses'.last)
                     /\ ses'.state \in {"ESTABLISHED", "CLOSING", "CLOSED"}
                     /\ toClient' = toClient \/ toClient' = Put(toClient, ses'.last)
                     /\ pc' \in {"loop", "timewait"}
                     /\ after' \in Nat /\ count' \in 0..MaxTimeoutCount
                     /\ toServer' = toServer /\ (UNCHANGED bounds \/ Refuse)
  <1> SUFFICES Goal OBVIOUS
  <1>0. /\ ses \in SessionRec /\ after \in Nat /\ count \in 0..MaxTimeoutCount
        /\ pkts \in Seq(ToServer) /\ pkts # <<>> /\ ses.state = "ESTABLISHED"
    BY DEF EmsType, HandlePkt
  <1>1. /\ Head(pkts) \in ToServer /\ ses.file \in Files /\ ses.next \in Nat
        /\ ses.last \in ToClient
    BY <1>0, HeadTailType DEF SessionRec
  <1>a. /\ FileMaxBlkNo(ses) \in Nat /\ Data(ses.file, ses.next) \in ToClient
        /\ Oack \in ToClient /\ Error \in ToClient
    BY <1>1, Packets DEF FileMaxBlkNo
  <1>2. ASSUME NEW s \in SessionRec, s.file = ses.file, s.last = ses.last,
               s.state \in {"ESTABLISHED", "CLOSING", "CLOSED"}, NoSend(s)
        PROVE  Goal
    BY <1>0, <1>2 DEF NoSend, linkVars, Answers
  <1>3. ASSUME NEW s \in SessionRec, s.file = ses.file, s.last = ses.last,
               s.state \in {"ESTABLISHED", "CLOSING", "CLOSED"},
               NEW m \in ToClient, NEW n \in Nat, Answers(m), SendData(s, m, n)
        PROVE  Goal
    <2>1. Answers(ses.last)
      BY DEF Answers
    <2> QED BY <1>0, <1>3, <2>1, SendDataStep
  <1>4. /\ Shutdown(ses) \in SessionRec /\ Shutdown(ses).file = ses.file
        /\ Shutdown(ses).last = ses.last /\ Shutdown(ses).state = "CLOSED"
    BY <1>0 DEF SessionRec, Shutdown
  <1> HIDE DEF Goal
  <1>5. CASE Head(pkts).op = "RRQ" /\ HandleRrq
    <2>1. CASE NoSend(Shutdown(ses))
      BY <1>2, <1>4, <2>1
    <2>2. CASE FileMaxBlkNo(ses) > 0 /\ SendData(ses, Data(ses.file, ses.next), 2)
      <3>1. Answers(Data(ses.file, ses.next))
        BY <1>5, <1>a, <2>2 DEF Answers
      <3> QED BY <1>0, <1>3, <1>a, <2>2, <3>1
    <2> QED BY <1>5, <2>1, <2>2 DEF HandleRrq
  <1>6. CASE Head(pkts).op = "ERROR" /\ NoSend(Shutdown(ses))
    BY <1>2, <1>4, <1>6
  <1>7. CASE Head(pkts).op = "ACK" /\ HandleAck(Head(pkts).blk)
    <2> DEFINE n == Head(pkts).blk
               s == [ses EXCEPT !.next = n + 1]
    <2>0. n \in Nat /\ n + 1 \in Nat
      BY <1>1, <1>7, AckPacket
    <2>n. Head(pkts).blk = n
      OBVIOUS
    <2> HIDE DEF n
    <2>1. /\ s \in SessionRec /\ s.file = ses.file /\ s.last = ses.last /\ s.next = n + 1
          /\ s.state = "ESTABLISHED"
      BY <1>0, <2>0 DEF SessionRec
    <2>2. /\ Shutdown(s) \in SessionRec /\ Shutdown(s).file = ses.file
          /\ Shutdown(s).last = ses.last /\ Shutdown(s).state = "CLOSED"
      BY <1>0, <2>0 DEF SessionRec, Shutdown
    <2>3. /\ [s EXCEPT !.state = "CLOSING"] \in SessionRec
          /\ [s EXCEPT !.state = "CLOSING"].file = ses.file
          /\ [s EXCEPT !.state = "CLOSING"].last = ses.last
          /\ [s EXCEPT !.state = "CLOSING"].state = "CLOSING"
      BY <1>0, <2>0 DEF SessionRec
    <2>4. CASE HandleEarlyAck(n)
      <3>1. CASE NoSend(s)
        BY <1>2, <2>1, <3>1
      <3>2. CASE NoSend(Shutdown(s))
        BY <1>2, <2>2, <3>2
      <3>3. CASE SendData([s EXCEPT !.state = "CLOSING"], Error, s.next)
        <4>1. Answers(Error) /\ s.next \in Nat
          BY <2>0, <2>1 DEF Answers
        <4> QED BY <1>3, <1>a, <2>3, <3>3, <4>1
      <3> QED BY <2>4, <3>1, <3>2, <3>3 DEF HandleEarlyAck
    <2>5. CASE n = ses.next - 1 /\ n < FileMaxBlkNo(ses)
               /\ SendData(ses, Data(ses.file, ses.next), ses.next + 1)
      <3>1. Answers(Data(ses.file, ses.next)) /\ ses.next + 1 \in Nat
        BY <1>1, <1>7, <2>n, <2>5 DEF Answers
      <3> QED BY <1>0, <1>3, <1>a, <2>5, <3>1
    <2>6. CASE /\ n = ses.next - 1
               /\ SendData(Shutdown(ses), Oack, ses.next)
               /\ IF n < FileMaxBlkNo(ses) THEN ReadFails ELSE UNCHANGED misread
      <3>1. Answers(Oack)
        <4>1. ReadFails => misread' # 0
          BY DEF ReadFails, MisreadType
        <4> QED BY <1>7, <1>a, <2>0, <2>n, <2>6, <4>1 DEF Answers
      <3> QED BY <1>1, <1>3, <1>4, <1>a, <2>6, <3>1
    <2>7. CASE SendData(ses, ses.last, ses.next)
      <3>1. Answers(ses.last)
        BY DEF Answers
      <3> QED BY <1>0, <1>1, <1>3, <2>7, <3>1
    <2> QED BY <1>7, <2>n, <2>4, <2>5, <2>6, <2>7 DEF HandleAck
  <1> QED BY <1>5, <1>6, <1>7 DEF HandlePkt, Goal

(* What a step of the EMS does, apart from the data.                       *)
EmsStep ==
  /\ EmsType' /\ ServerSends /\ ServerTakes
  /\ UNCHANGED bounds \/ Refuse

LEMMA ServerStep ==
  ASSUME EmsType, LinkType, MisreadType, Files # {}, ServerNext
  PROVE  EmsStep
  <1>0. /\ ses \in SessionRec /\ pc \in {"none", "loop", "wait", "timewait"}
        /\ after \in Nat /\ count \in 0..MaxTimeoutCount
        /\ pkts \in Seq(ToServer) /\ event \in BOOLEAN
        /\ rx \in Seq(ToServer) /\ Len(rx) <= 1
        /\ toServer \in Seq(ToServer) /\ ses.last \in ToClient
    BY DEF EmsType, LinkType, SessionRec
  <1>1. CASE Register
    <2>1. /\ toServer # <<>> /\ toServer' = Tail(toServer) /\ Head(toServer) \in ToServer
          /\ Head(toServer).op = "RRQ"
          /\ UNCHANGED <<after, count, pkts, event, toClient, bounds>>
      BY <1>0, <1>1, HeadTailType DEF Register
    <2>2. Head(toServer).file \in Files
      BY <2>1, RequestPacket
    <2>3. CASE Active /\ UNCHANGED <<ses, pc, rx>>
      BY <1>0, <2>1, <2>3 DEF EmsStep, EmsType, ServerSends, ServerTakes
    <2>4. CASE ~Active /\ Open(Head(toServer).file) /\ rx' = <<Head(toServer)>>
      <3>1. ses' \in SessionRec /\ pc' \in {"none", "loop"}
        <4>1. NoSession \in SessionRec /\ Error \in ToClient /\ 1 \in Nat
          BY NoSessionType, Packets
        <4>2. CASE /\ ses' = [NoSession EXCEPT !.state = "ZERO", !.file = Head(toServer).file]
                   /\ pc' = "none"
          BY <2>2, <4>1, <4>2 DEF SessionRec
        <4>3. CASE /\ ses' = [state |-> "ESTABLISHED", file |-> Head(toServer).file,
                              next |-> 1, last |-> Error]
                   /\ pc' = "loop"
          BY <2>2, <4>1, <4>3 DEF SessionRec
        <4> QED BY <2>4, <4>2, <4>3 DEF Open
      <3>2. rx' \in Seq(ToServer) /\ Len(rx') <= 1
        BY <2>1, <2>4
      <3> QED BY <1>0, <2>1, <3>1, <3>2 DEF EmsStep, EmsType, ServerSends, ServerTakes
    <2> QED BY <1>1, <2>3, <2>4 DEF Register
  <1>2. CASE PutRequest
    <2>1. rx[1] \in ToServer
      BY <1>0, <1>2 DEF PutRequest
    <2>2. pkts' \in Seq(ToServer) /\ event' = TRUE /\ rx' = <<>>
      BY <1>0, <1>2, <2>1, AppendType DEF PutRequest, PktPut
    <2> QED BY <1>0, <1>2, <2>2, EmptyType
            DEF PutRequest, linkVars, EmsStep, EmsType, ServerSends, ServerTakes
  <1>3. CASE Dispatch
    <2>1. toServer # <<>> /\ toServer' = Tail(toServer) /\ Head(toServer) \in ToServer
          /\ UNCHANGED <<ses, pc, after, count, rx, toClient, bounds>>
      BY <1>0, <1>3, HeadTailType DEF Dispatch
    <2>2. pkts' \in Seq(ToServer) /\ event' \in BOOLEAN
      <3>1. CASE PktPut(Head(toServer))
        BY <1>0, <2>1, <3>1, AppendType DEF PktPut
      <3>2. CASE UNCHANGED <<pkts, event>>
        BY <1>0, <3>2
      <3> QED BY <1>3, <3>1, <3>2 DEF Dispatch
    <2> QED BY <1>0, <2>1, <2>2 DEF EmsStep, EmsType, ServerSends, ServerTakes
  <1>4. CASE HandlePkt
    <2>1. pkts' \in Seq(ToServer) /\ UNCHANGED <<event, rx>>
      BY <1>0, <1>4, HeadTailType DEF HandlePkt
    <2> QED BY <1>0, <1>4, <2>1, HandleStep DEF EmsStep, EmsType, ServerSends, ServerTakes
  <1>5. CASE PktGetEmpty \/ PktGetRetry
    BY <1>0, <1>5 DEF PktGetEmpty, PktGetRetry, linkVars, EmsStep, EmsType, ServerSends,
                      ServerTakes
  <1>6. CASE Signalled
    <2>1. ses' \in SessionRec
      BY <1>0, <1>6 DEF Signalled, SessionRec
    <2> QED BY <1>0, <1>6, <2>1
            DEF Signalled, linkVars, EmsStep, EmsType, ServerSends, ServerTakes
  <1>7. CASE TimeoutResend
    <2>1. CASE /\ toClient' = Put(toClient, ses.last) /\ count' = count - 1
               /\ UNCHANGED <<ses, pc, toServer, bounds>>
      BY <1>0, <1>7, <2>1 DEF TimeoutResend, EmsStep, EmsType, ServerSends, ServerTakes
    <2>2. CASE /\ Refuse
               /\ pc' = "loop" /\ ses' = [ses EXCEPT !.next = after]
               /\ UNCHANGED <<count, toServer, toClient>>
      <3>1. ses' \in SessionRec
        BY <1>0, <2>2 DEF SessionRec
      <3> QED BY <1>0, <1>7, <2>2, <3>1
              DEF TimeoutResend, EmsStep, EmsType, ServerSends, ServerTakes
    <2> QED BY <1>7, <2>1, <2>2 DEF TimeoutResend
  <1>8. CASE TimeoutShutdown
    <2>1. ses' \in SessionRec
      BY <1>0, <1>8 DEF TimeoutShutdown, Shutdown, SessionRec
    <2> QED BY <1>0, <1>8, <2>1
            DEF TimeoutShutdown, linkVars, EmsStep, EmsType, ServerSends, ServerTakes
  <1>9. CASE Closing
    <2>1. SendData(ses, ses.last, ses.next) /\ ses.next \in Nat /\ UNCHANGED <<pkts, event, rx>>
      BY <1>0, <1>9 DEF Closing, SessionRec
    <2>2. /\ ses' \in SessionRec
          /\ toClient' = toClient \/ toClient' = Put(toClient, ses'.last)
          /\ pc' \in {"loop", "timewait"} /\ after' \in Nat /\ count' \in 0..MaxTimeoutCount
          /\ toServer' = toServer /\ (UNCHANGED bounds \/ Refuse)
      BY <1>0, <2>1, SendDataStep
    <2> QED BY <1>0, <2>1, <2>2 DEF EmsStep, EmsType, ServerSends, ServerTakes
  <1>10. CASE Unregister
    <2>1. ses' \in SessionRec /\ pkts' \in Seq(ToServer)
      BY <1>10, NoSessionType, EmptyType DEF Unregister
    <2>2. event' \in BOOLEAN
      BY <1>10, Zenon DEF Unregister
    <2> QED BY <1>0, <1>10, <2>1, <2>2
            DEF Unregister, linkVars, EmsStep, EmsType, ServerSends, ServerTakes
  <1> QED BY <1>1, <1>2, <1>3, <1>4, <1>5, <1>6, <1>7, <1>8, <1>9, <1>10
          DEF ServerNext, RecvThread, SessionThread

(* A read that has failed is not forgotten.                                *)
MisreadGrows == MisreadType' /\ (misread # 0 => misread' # 0)

LEMMA MisreadStep ==
  ASSUME MisreadType, ServerNext
  PROVE  MisreadGrows
  <1>1. CASE HandlePkt
    <2>1. UNCHANGED misread \/ ReadFails
      BY <1>1 DEF HandlePkt, HandleRrq, HandleAck
    <2> QED BY <2>1 DEF MisreadGrows, MisreadType, ReadFails
  <1>2. CASE ~HandlePkt
    <2>1. UNCHANGED misread
      BY <1>2 DEF ServerNext, RecvThread, Register, PutRequest, Dispatch, SessionThread,
                  PktGetEmpty, PktGetRetry, Signalled, TimeoutResend, TimeoutShutdown, Closing,
                  Unregister
    <2> QED BY <2>1 DEF MisreadGrows, MisreadType
  <1> QED BY <1>1, <1>2

LEMMA BoundsStep ==
  ASSUME LinkType, UNCHANGED bounds \/ Refuse \/ LinkNext
  PROVE  /\ faults' \in 0..MaxFaults /\ refusals' \in 0..MaxRefusals
         /\ overtakes' \in 0..MaxOvertakes
  BY DEF LinkType, bounds, Refuse, LinkNext, Lose, Duplicate, Overtake, Fault

LEMMA NextType == TypeInv /\ [Next]_vars => TypeInv'
  <1> SUFFICES ASSUME TypeInv, [Next]_vars PROVE TypeInv' OBVIOUS
  <1>0. /\ AgentType /\ EmsType /\ LinkType /\ MisreadType /\ req \in Files
        /\ toServer \in Seq(ToServer) /\ toClient \in Seq(ToClient)
    BY DEF TypeInv, AgentType, LinkType
  <1>1. CASE Client
    <2>1. AgentStep /\ EmsType' /\ MisreadType'
      BY <1>0, <1>1, ClientStep DEF Client, serverVars, EmsType, MisreadType
    <2>2. clt'.last \in ToServer /\ req' \in Files
      BY <2>1 DEF AgentStep, AgentType, PrivateRec
    <2>3. toServer' \in Seq(ToServer)
      BY <1>0, <2>1, <2>2, PutType, Packets DEF AgentStep, ClientSends
    <2>4. toClient' \in Seq(ToClient)
      BY <1>0, <2>1, HeadTailType DEF AgentStep, ClientTakes
    <2> QED BY <1>0, <2>1, <2>3, <2>4, BoundsStep DEF AgentStep, TypeInv, LinkType
  <1>2. CASE Server
    <2>1. EmsStep /\ AgentType' /\ MisreadType'
      BY <1>0, <1>2, ServerStep, MisreadStep
         DEF Server, clientVars, AgentType, Transferring, MisreadGrows
    <2>2. ses'.last \in ToClient
      BY <2>1 DEF EmsStep, EmsType, SessionRec
    <2>3. toClient' \in Seq(ToClient)
      BY <1>0, <2>1, <2>2, PutType DEF EmsStep, ServerSends
    <2>4. toServer' \in Seq(ToServer)
      BY <1>0, <2>1, HeadTailType DEF EmsStep, ServerTakes
    <2> QED BY <1>0, <2>1, <2>3, <2>4, BoundsStep DEF EmsStep, TypeInv, LinkType
  <1>3. CASE Link
    <2>1. AgentType' /\ EmsType' /\ MisreadType'
      BY <1>0, <1>3 DEF Link, clientVars, serverVars, AgentType, EmsType, MisreadType,
                        Transferring
    <2>2. toServer' \in Seq(ToServer) /\ toClient' \in Seq(ToClient)
      BY <1>0, <1>3, LinkKeeps DEF Link
    <2> QED BY <1>0, <1>3, <2>1, <2>2, BoundsStep DEF Link, TypeInv, LinkType
  <1>4. CASE UNCHANGED vars
    BY <1>0, <1>4 DEF vars, linkVars, bounds, clientVars, serverVars, TypeInv, AgentType,
                      EmsType, LinkType, MisreadType, Transferring
  <1> QED BY <1>1, <1>2, <1>3, <1>4 DEF Next

(* The packets on the way and in the EMS's list are ones the protocol      *)
(* has, the agent's retries stay in their range whoever resets them, and   *)
(* the EMS's count of timeouts never passes zero.                          *)
THEOREM TypeCorrect == Spec => []TypeOK
  BY TypeInvOK, InitType, NextType, PTL DEF Spec

-----------------------------------------------------------------------------
(* The agent that reads one file.                                          *)

OneTransfer == MaxTransfers <= 1

(* The agent has the file, or a read of it has failed.                     *)
Ended == Len(buf) = Blocks[req] \/ misread # 0

(* What a packet of either side says is true of the transfer.              *)
FromAgent ==
  {m \in ToServer : /\ m.op = "RRQ" => m.file = req
                    /\ m.op = "ACK" => m.blk <= Len(buf)}

FromEms ==
  {m \in ToClient : /\ m.op = "DATA" => m.file = req /\ m.blk <= Blocks[req]
                    /\ m.op = "OACK" => Ended}

Truthful ==
  /\ toServer \in Seq(FromAgent) /\ pkts \in Seq(FromAgent)
  /\ rx \in Seq(FromAgent) /\ clt.last \in FromAgent
  /\ toClient \in Seq(FromEms) /\ ses.last \in FromEms
  /\ Active => ses.file = req

(* Before the transfer nothing has been sent.                              *)
NothingYet ==
  transfers = 0 => /\ toServer = <<>> /\ toClient = <<>> /\ buf = <<>>
                   /\ clt.state = "INIT" /\ clt.last = Error /\ ses.last = Error
                   /\ ~Active /\ rx = <<>> /\ pkts = <<>>

(* The blocks saved are the first of the file, and one fewer than the      *)
(* block the agent waits for.                                              *)
Saved ==
  /\ \A i \in 1..Len(buf) : buf[i] = <<req, i>>
  /\ Len(buf) <= Blocks[req]
  /\ Transferring => Len(buf) = clt.next - 1
  /\ clt.state \in {"CLOSING", "TIME_WAIT"} /\ clt.result = "SUCCESS" => Ended
  /\ status = "BUSY" <=> clt.state # "INIT"

(* A request is the first packet of its session.                           *)
Fresh ==
  /\ ses.state \in {"ESTABLISHED", "ZERO"} /\ pc # "timewait"
  /\ ses.state = "ESTABLISHED" => ses.next = 1

RequestFirst ==
  /\ ~Active => pkts = <<>> /\ pc = "none"
  /\ rx # <<>> => Fresh /\ pkts = <<>> /\ rx[1].op = "RRQ"
  /\ \A i \in 1..Len(pkts) : pkts[i].op = "RRQ" => i = 1 /\ Fresh

ReadInv == Truthful /\ NothingYet /\ Saved /\ RequestFirst

AcksTrue == \A k \in Nat : k <= Len(buf) => Ack(k) \in FromAgent

LEMMA TrueOfAgent ==
  /\ Error \in FromAgent
  /\ req \in Files => Request(req) \in FromAgent
  /\ AcksTrue
  <1>1. Error.op = "ERROR" /\ \A n \in Nat : Ack(n).op = "ACK" /\ Ack(n).blk = n
    BY DEF Error, Ack
  <1>2. Request(req).op = "RRQ" /\ Request(req).file = req
    BY DEF Request
  <1> QED BY <1>1, <1>2, Packets DEF FromAgent, AcksTrue

LEMMA TrueOfEms ==
  /\ Error \in FromEms
  /\ Ended => Oack \in FromEms
  /\ \A n \in Nat : req \in Files /\ n <= Blocks[req] => Data(req, n) \in FromEms
  <1>1. Error.op = "ERROR" /\ Oack.op = "OACK"
    BY DEF Error, Oack
  <1>2. \A n \in Nat : /\ Data(req, n).op = "DATA" /\ Data(req, n).file = req
                       /\ Data(req, n).blk = n
    BY DEF Data
  <1> QED BY <1>1, <1>2, Packets DEF FromEms

LEMMA InitRead == Init => ReadInv
  <1> SUFFICES ASSUME Init PROVE ReadInv OBVIOUS
  <1>1. /\ toServer = <<>> /\ toClient = <<>> /\ buf = <<>> /\ req \in Files
        /\ rx = <<>> /\ pkts = <<>> /\ ses = NoSession /\ transfers = 0 /\ status = "SUCCESS"
        /\ clt = [NewPrivate EXCEPT !.state = "INIT"] /\ pc = "none"
    BY DEF Init, LinkInit, ClientInit, ServerInit
  <1>2. /\ clt.state = "INIT" /\ clt.last = Error /\ ses.last = Error
        /\ ses.state = "INVALID"
    BY <1>1 DEF NewPrivate, NoSession
  <1>3. Truthful
    BY <1>1, <1>2, EmptyType, TrueOfAgent, TrueOfEms DEF Truthful, Active
  <1>4. NothingYet
    BY <1>1, <1>2 DEF NothingYet, Active
  <1>5. Saved
    <2>1. Blocks[req] \in Nat
      BY <1>1
    <2> QED BY <1>1, <1>2, <2>1 DEF Saved, Transferring
  <1>6. RequestFirst
    BY <1>1, <1>2 DEF RequestFirst
  <1> QED BY <1>3, <1>4, <1>5, <1>6 DEF ReadInv

(* What is true of a packet stays true while blocks arrive.                *)
LEMMA TruthGrows ==
  ASSUME req' = req, Len(buf) \in Nat, Len(buf') \in Nat, Len(buf) <= Len(buf'),
         Ended => Ended'
  PROVE  FromAgent \subseteq FromAgent' /\ FromEms \subseteq FromEms'
  <1>1. ASSUME NEW m \in FromAgent PROVE m \in FromAgent'
    <2>1. m \in ToServer /\ (m.op = "RRQ" => m.file = req) /\ (m.op = "ACK" => m.blk <= Len(buf))
      BY <1>1 DEF FromAgent
    <2>2. m.op = "ACK" => m.blk \in Nat
      BY <2>1, AckPacket
    <2> QED BY <2>1, <2>2 DEF FromAgent
  <1>2. ASSUME NEW m \in FromEms PROVE m \in FromEms'
    BY <1>2 DEF FromEms
  <1> QED BY <1>1, <1>2

(* The agent has begun, and nothing it does but ReadFile begins again.     *)
LEMMA Under ==
  ASSUME TypeInv, NothingYet, OneTransfer, ClientNext
  PROVE  /\ ReadFile \/ (UNCHANGED <<req, transfers>> /\ transfers # 0)
         /\ ReadFile => transfers = 0 /\ transfers' = 1
  <1>0. transfers \in Nat /\ MaxTransfers \in Nat
    BY DEF TypeInv, AgentType
  <1>1. ReadFile => transfers = 0 /\ transfers' = 1
    BY <1>0 DEF ReadFile, OneTransfer
  <1>2. RxCallback => clt.state # "INIT" /\ UNCHANGED <<req, transfers>>
    BY DEF RxCallback, RcvBlock, RcvTooMuch, RcvUnexpected, RcvClosing, RcvError, RcvOack,
           RcvTimeWait, Receive
  <1>3. RcvFails \/ DropIdle =>
          UNCHANGED <<req, transfers>> /\ (clt.state # "INIT" \/ toClient # <<>>)
    BY DEF RcvFails, DropIdle, clientVars
  <1>4. Timer => clt.state # "INIT" /\ UNCHANGED <<req, transfers>>
    BY DEF Timer, TimerResend, TimerGiveUpRequest, TimerGiveUp, TimerClosing, CleanUp,
           TimerFrame, Transferring
  <1> QED BY <1>1, <1>2, <1>3, <1>4 DEF ClientNext, NothingYet

(* Steps that save no block.                                               *)
Quiet ==
  /\ UNCHANGED <<req, buf>>
  /\ Transferring' => Transferring /\ clt'.next = clt.next
  /\ clt'.state \in {"CLOSING", "TIME_WAIT"} /\ clt'.result = "SUCCESS" => Ended
  /\ clt.state # "INIT" /\ (status' = status <=> clt'.state # "INIT")
  /\ status' # status => clt.state = "TIME_WAIT" /\ status' = clt.result
  /\ clt'.last \in {Error, clt.last}

(* The block the agent waits for is saved.                                 *)
Delivered ==
  /\ UNCHANGED <<req, status>> /\ Transferring
  /\ toClient # <<>> /\ Head(toClient) = Data(req, clt.next)
  /\ buf' = Append(buf, <<req, clt.next>>)
  /\ \/ clt'.state = "ESTABLISHED" /\ clt'.next = clt.next + 1 /\ clt'.last = Ack(clt.next)
     \/ /\ clt'.state = "TIME_WAIT" /\ clt'.result = "DEVICE_ERROR"
        /\ clt'.last = clt.last

LEMMA RxRead ==
  ASSUME TypeInv, ReadInv, RxCallback
  PROVE  Quiet \/ Delivered
  <1> USE DEF Receive
  <1>0. /\ clt \in PrivateRec /\ toClient \in Seq(FromEms) /\ Saved
    BY DEF TypeInv, AgentType, ReadInv, Truthful
  <1>1. /\ toClient # <<>> /\ clt.state # "INIT" /\ UNCHANGED <<req, status, transfers>>
    BY DEF RxCallback, RcvBlock, RcvTooMuch, RcvUnexpected, RcvClosing, RcvError, RcvOack,
           RcvTimeWait
  <1>2. Head(toClient) \in FromEms
    BY <1>0, <1>1, HeadTailType
  <1>3. clt.state \in {"CLOSING", "TIME_WAIT"} /\ clt.result = "SUCCESS" => Ended
    BY <1>0 DEF Saved
  <1>4. ASSUME NEW c \in PrivateRec, c.last = clt.last, TransmitFails(c), buf' = buf
        PROVE  Quiet
    <2>1. /\ clt'.state = "TIME_WAIT" /\ clt'.result = "DEVICE_ERROR" /\ clt'.last = clt.last
      BY <1>4, ShutdownType DEF TransmitFails, Results
    <2> QED BY <1>1, <1>4, <2>1 DEF Quiet, Transferring
  <1>5. CASE RcvBlock
    <2> DEFINE c == [clt EXCEPT !.state = "ESTABLISHED", !.role = "ACTIVE"]
               n == Head(toClient).blk
    <2>1. n = clt.next /\ Transferring /\ Head(toClient).file = req
          /\ Head(toClient) = Data(req, n)
      BY <1>2, <1>5, DataPacket DEF RcvBlock, Expected, FromEms
    <2>2. c \in PrivateRec /\ c.last = clt.last /\ c.next = clt.next /\ c.state = "ESTABLISHED"
      BY <1>0 DEF PrivateRec, States
    <2>3. buf' = Append(buf, <<req, clt.next>>)
      BY <1>5, <2>1 DEF RcvBlock
    <2>4. CASE Transmit(Ack(n), [c EXCEPT !.last = Ack(n), !.next = @ + 1, !.retry = 0])
      <3> HIDE DEF c, n
      <3>1. clt'.state = "ESTABLISHED" /\ clt'.next = clt.next + 1 /\ clt'.last = Ack(n)
        BY <2>2, <2>4 DEF Transmit, PrivateRec
      <3> QED BY <1>1, <2>1, <2>3, <3>1 DEF Delivered, n
    <2>5. CASE TransmitFails(c)
      <3>1. clt'.state = "TIME_WAIT" /\ clt'.result = "DEVICE_ERROR" /\ clt'.last = clt.last
        BY <2>2, <2>5, ShutdownType DEF TransmitFails, Results
      <3> QED BY <1>1, <2>1, <2>3, <3>1 DEF Delivered
    <2> QED BY <1>5, <2>4, <2>5 DEF RcvBlock
  <1>6. CASE RcvTooMuch
    <2> DEFINE c == [clt EXCEPT !.role = "ACTIVE"]
    <2>1. c \in PrivateRec /\ buf' = buf /\ c.last = clt.last
      BY <1>0, <1>6 DEF PrivateRec, RcvTooMuch
    <2>2. CASE Transmit(Error, [c EXCEPT !.state = "CLOSING", !.result = "BUFFER_TOO_SMALL",
                                         !.last = Error, !.retry = 0])
      <3>1. clt'.state = "CLOSING" /\ clt'.result = "BUFFER_TOO_SMALL" /\ clt'.last = Error
        BY <2>1, <2>2 DEF Transmit, PrivateRec
      <3> QED BY <1>1, <2>1, <3>1 DEF Quiet, Transferring
    <2> QED BY <1>4, <1>6, <2>1, <2>2 DEF RcvTooMuch, SendErr
  <1>7. CASE RcvUnexpected
    <2>1. /\ clt'.state = clt.state /\ clt'.next = clt.next /\ clt'.last = clt.last
          /\ clt'.result = clt.result
      BY <1>0, <1>7 DEF RcvUnexpected, PrivateRec
    <2> QED BY <1>1, <1>3, <1>7, <2>1 DEF Quiet, Transferring, RcvUnexpected
  <1>8. CASE RcvClosing
    <2>1. CASE Transmit(clt.last, [clt EXCEPT !.retry = 0])
      <3>1. /\ clt'.state = clt.state /\ clt'.next = clt.next /\ clt'.last = clt.last
            /\ clt'.result = clt.result
        BY <1>0, <2>1 DEF Transmit, PrivateRec
      <3> QED BY <1>1, <1>3, <1>8, <3>1 DEF Quiet, Transferring, RcvClosing
    <2> QED BY <1>0, <1>4, <1>8, <2>1 DEF RcvClosing
  <1>9. CASE RcvError
    <2>1. CASE clt' = clt
      BY <1>1, <1>3, <1>9, <2>1 DEF Quiet, RcvError, Transferring
    <2>2. CASE clt' = SilentShutdown(clt, "TFTP_ERROR")
      <3>1. clt'.state = "TIME_WAIT" /\ clt'.result = "TFTP_ERROR" /\ clt'.last = clt.last
        BY <1>0, <2>2, ShutdownType DEF Results
      <3> QED BY <1>1, <1>9, <3>1 DEF Quiet, RcvError, Transferring
    <2> QED BY <1>9, <2>1, <2>2 DEF RcvError
  <1>10. CASE RcvOack
    <2>1. CASE clt' = clt
      BY <1>1, <1>3, <1>10, <2>1 DEF Quiet, RcvOack, Transferring
    <2>2. CASE clt' = [clt EXCEPT !.state = "CLOSING", !.result = "SUCCESS"]
      <3>1. clt'.state = "CLOSING" /\ clt'.last = clt.last
        BY <1>0, <2>2 DEF PrivateRec
      <3>2. Ended
        BY <1>2, <1>10 DEF RcvOack, FromEms
      <3> QED BY <1>1, <1>10, <3>1, <3>2 DEF Quiet, RcvOack, Transferring
    <2> QED BY <1>10, <2>1, <2>2 DEF RcvOack
  <1>11. CASE RcvTimeWait
    BY <1>1, <1>3, <1>11 DEF Quiet, RcvTimeWait, Transferring
  <1> QED BY <1>5, <1>6, <1>7, <1>8, <1>9, <1>10, <1>11 DEF RxCallback

LEMMA TimerRead ==
  ASSUME TypeInv, ReadInv, Timer \/ RcvFails
  PROVE  Quiet
  <1> USE DEF TimerFrame
  <1>0. clt \in PrivateRec /\ Saved /\ status \in Results \cup {"BUSY"} /\ clt.result \in Results
    BY DEF TypeInv, AgentType, ReadInv, PrivateRec
  <1>1. clt.state # "INIT" /\ UNCHANGED <<req, buf>>
    BY DEF Timer, TimerResend, TimerGiveUpRequest, TimerGiveUp, TimerClosing, CleanUp,
           RcvFails, Transferring
  <1>2. /\ clt.state \in {"CLOSING", "TIME_WAIT"} /\ clt.result = "SUCCESS" => Ended
        /\ status = "BUSY"
    BY <1>0, <1>1 DEF Saved
  <1> DEFINE c == [clt EXCEPT !.retry = @ + 1]
  <1>3. /\ c.last = clt.last /\ c.state = clt.state /\ c.next = clt.next
        /\ c.result = clt.result
    BY <1>0 DEF PrivateRec
  <1>4. ASSUME NEW d, d.last = clt.last, NEW result \in Results \ {"SUCCESS"}, status' = status,
               clt' = SilentShutdown(d, result), DOMAIN d = DOMAIN clt
        PROVE  Quiet
    <2>1. DOMAIN d = {"state", "role", "next", "retry", "result", "last"}
      BY <1>0, <1>4 DEF PrivateRec
    <2>2. clt'.state = "TIME_WAIT" /\ clt'.result = result /\ clt'.last = clt.last
      BY <1>4, <2>1 DEF SilentShutdown
    <2> QED BY <1>1, <1>4, <2>2 DEF Quiet, Transferring
  <1>5. DOMAIN c = DOMAIN clt
    OBVIOUS
  <1>6. CASE TimerResend
    <2>1. CASE \E m \in {Request(req), clt.last} : Transmit(m, c)
      BY <1>1, <1>2, <1>3, <1>6, <2>1 DEF Quiet, Transmit, TimerResend, Transferring
    <2>2. CASE TransmitFails(c)
      BY <1>3, <1>4, <1>5, <1>6, <2>2 DEF TransmitFails, TimerResend, Results
    <2> QED BY <1>6, <2>1, <2>2 DEF TimerResend
  <1>7. CASE TimerGiveUpRequest
    BY <1>3, <1>4, <1>5, <1>7 DEF TimerGiveUpRequest, Results
  <1>8. CASE TimerGiveUp
    <2>1. CASE Transmit(Error, [c EXCEPT !.state = "CLOSING", !.result = "TIMEOUT",
                                         !.last = Error, !.retry = clt.retry + 1])
      <3>1. clt'.state = "CLOSING" /\ clt'.result = "TIMEOUT" /\ clt'.last = Error
        BY <1>0, <2>1 DEF Transmit, PrivateRec
      <3> QED BY <1>1, <1>8, <3>1 DEF Quiet, TimerGiveUp, Transferring
    <2>2. CASE TransmitFails(c)
      BY <1>3, <1>4, <1>5, <1>8, <2>2 DEF TransmitFails, TimerGiveUp, Results
    <2> QED BY <1>8, <2>1, <2>2 DEF TimerGiveUp, SendErr
  <1>9. CASE TimerClosing
    <2>1. /\ clt'.state = "TIME_WAIT" /\ clt'.result = clt.result /\ clt'.last = clt.last
      BY <1>0, <1>9 DEF TimerClosing, PrivateRec
    <2> QED BY <1>1, <1>2, <1>9, <2>1 DEF Quiet, TimerClosing, Transferring
  <1>10. CASE CleanUp
    <2>1. clt'.state = "INIT" /\ clt'.last = clt.last
      BY <1>0, <1>10 DEF CleanUp, PrivateRec
    <2>2. status' = clt.result /\ status' # "BUSY" /\ clt.state = "TIME_WAIT"
      BY <1>0, <1>10 DEF CleanUp, Results
    <2> QED BY <1>1, <1>2, <2>1, <2>2 DEF Quiet, Transferring
  <1>11. CASE RcvFails
    <2>1. PICK result \in {"DEVICE_ERROR", clt.result} :
             /\ result = "DEVICE_ERROR" \/ ~Transferring
             /\ clt' = SilentShutdown(clt, result)
      BY <1>11 DEF RcvFails
    <2>2. result \in Results /\ clt.state \in States
      BY <1>0, <2>1 DEF Results, PrivateRec
    <2>3. clt'.state = "TIME_WAIT" /\ clt'.result = result /\ clt'.last = clt.last
      BY <1>0, <2>1, <2>2, ShutdownType
    <2>4. result = "SUCCESS" => clt.state \in {"CLOSING", "TIME_WAIT"} /\ clt.result = "SUCCESS"
      BY <1>1, <2>1, <2>2 DEF Transferring, States
    <2> QED BY <1>1, <1>2, <1>11, <2>3, <2>4 DEF Quiet, RcvFails, Transferring
  <1> QED BY <1>6, <1>7, <1>8, <1>9, <1>10, <1>11 DEF Timer

(* The channels and the packets kept after a step of the agent.            *)
LEMMA ClientTruth ==
  ASSUME TypeInv, Truthful, AgentStep, UNCHANGED serverVars, UNCHANGED req,
         Len(buf') \in Nat, Len(buf) <= Len(buf'),
         Ended => Ended', clt'.last \in FromAgent'
  PROVE  Truthful'
  <1>0. req \in Files /\ req' \in Files /\ Len(buf) \in Nat
    BY DEF TypeInv, AgentType
  <1>1. FromAgent \subseteq FromAgent' /\ FromEms \subseteq FromEms'
    BY <1>0, TruthGrows
  <1>2. /\ toServer \in Seq(FromAgent') /\ pkts \in Seq(FromAgent') /\ rx \in Seq(FromAgent')
        /\ toClient \in Seq(FromEms') /\ ses.last \in FromEms'
    BY <1>1, SeqWiden DEF Truthful
  <1>3. Error \in FromAgent' /\ Request(req') \in FromAgent'
    <2>1. (Error \in FromAgent /\ (req \in Files => Request(req) \in FromAgent))'
      BY TrueOfAgent, PTL
    <2> QED BY <1>0, <2>1 DEF Error
  <1>4. toServer' \in Seq(FromAgent')
    BY <1>2, <1>3, PutType DEF AgentStep, ClientSends
  <1>5. toClient' \in Seq(FromEms')
    BY <1>2, HeadTailType DEF AgentStep, ClientTakes
  <1>6. UNCHANGED <<pkts, rx, ses>> /\ (Active' => ses'.file = req')
    BY DEF serverVars, Truthful, Active
  <1> QED BY <1>2, <1>4, <1>5, <1>6 DEF Truthful

(* The EMS sends no block past the end of the file.                        *)
LEMMA DeliveredFits ==
  ASSUME Truthful, Delivered
  PROVE  clt.next <= Blocks[req]
  <1>1. Head(toClient) \in FromEms
    BY HeadTailType DEF Truthful, Delivered
  <1>2. Head(toClient).op = "DATA" /\ Head(toClient).blk = clt.next
    BY DEF Delivered, Data
  <1> QED BY <1>1, <1>2 DEF FromEms

LEMMA ClientRead ==
  ASSUME TypeInv, ReadInv, OneTransfer, Client
  PROVE  ReadInv'
  <1>0. /\ Truthful /\ NothingYet /\ Saved /\ RequestFirst /\ ClientNext
        /\ UNCHANGED serverVars /\ AgentStep
    BY ClientStep DEF ReadInv, Client, TypeInv
  <1>1. RequestFirst'
    BY <1>0 DEF RequestFirst, Fresh, Active, serverVars
  <1>2. /\ req \in Files /\ buf \in Seq(Files \X Nat) /\ Len(buf) \in Nat /\ Blocks[req] \in Nat
        /\ clt \in PrivateRec /\ clt.result \in Results /\ clt.next \in Nat
    BY DEF TypeInv, AgentType, PrivateRec
  <1>3. CASE ReadFile
    <2>1. /\ toServer = <<>> /\ toClient = <<>> /\ ses.last = Error /\ ~Active /\ rx = <<>>
          /\ pkts = <<>> /\ transfers' # 0
      BY <1>0, <1>3, Under DEF NothingYet
    <2>2. /\ req' \in Files /\ buf' = <<>> /\ UNCHANGED <<toClient, ses, rx, pkts>>
          /\ toServer' \in {toServer, Put(toServer, Request(req'))}
      BY <1>0, <1>3 DEF ReadFile, Transmit, serverVars
    <2>3. /\ clt'.last = Error /\ clt'.next = 1
          /\ \/ clt'.state = "SENT" /\ status' = "BUSY"
             \/ clt'.state = "INIT" /\ status' = "DEVICE_ERROR"
      <3>1. CASE clt' = NewPrivate /\ status' = "BUSY"
        BY <3>1 DEF NewPrivate
      <3>2. CASE /\ clt' = [NewPrivate EXCEPT !.state = "INIT", !.result = "DEVICE_ERROR"]
                 /\ status' = "DEVICE_ERROR"
        BY <3>2 DEF NewPrivate
      <3> QED BY <1>3, <3>1, <3>2 DEF ReadFile, Transmit
    <2>4. Error \in FromAgent' /\ Request(req') \in FromAgent' /\ Error \in FromEms'
      <3>1. (Error \in FromAgent /\ (req \in Files => Request(req) \in FromAgent))'
        BY TrueOfAgent, PTL
      <3>2. (Error \in FromEms)'
        BY TrueOfEms, PTL
      <3> QED BY <2>2, <3>1, <3>2 DEF Error
    <2>5. toServer' \in Seq(FromAgent')
      BY <2>1, <2>2, <2>4, EmptyType, PutType
    <2>6. Truthful'
      BY <2>1, <2>2, <2>3, <2>4, <2>5, EmptyType DEF Truthful, Active
    <2>7. Saved'
      <3>1. Blocks[req'] \in Nat /\ Len(buf') = 0
        BY <2>2
      <3> QED BY <2>2, <2>3, <3>1 DEF Saved, Transferring
    <2> QED BY <1>1, <2>1, <2>6, <2>7 DEF ReadInv, NothingYet
  <1>4. CASE Quiet /\ ~ReadFile
    <2>1. UNCHANGED <<req, buf>> /\ transfers' # 0
      BY <1>0, <1>4, Under DEF Quiet
    <2>2. FromAgent' = FromAgent /\ Ended' = Ended
      BY <1>0, <2>1 DEF FromAgent, Ended, serverVars
    <2>3. clt'.last \in FromAgent'
      BY <1>0, <1>4, <2>2, TrueOfAgent DEF Quiet, Truthful
    <2>4. Truthful'
      BY <1>0, <1>2, <2>1, <2>2, <2>3, ClientTruth
    <2>5. status' = "BUSY" <=> clt'.state # "INIT"
      <3>1. status = "BUSY"
        BY <1>0, <1>4 DEF Saved, Quiet
      <3>2. clt.result # "BUSY"
        BY <1>2 DEF Results
      <3> QED BY <1>4, <3>1, <3>2 DEF Quiet
    <2>6. Saved'
      BY <1>0, <1>4, <2>1, <2>2, <2>5 DEF Saved, Quiet
    <2> QED BY <1>1, <2>1, <2>4, <2>6 DEF ReadInv, NothingYet
  <1>5. CASE Delivered /\ ~ReadFile
    <2> DEFINE n == clt.next
    <2>1. /\ UNCHANGED <<req, status>> /\ Transferring /\ transfers' # 0
          /\ buf' = Append(buf, <<req, n>>) /\ Len(buf) = n - 1
      BY <1>0, <1>5, Under DEF Delivered, Saved
    <2>2. n <= Blocks[req]
      BY <1>0, <1>5, DeliveredFits
    <2>3. /\ Len(buf') = n /\ \A i \in 1..Len(buf') : buf'[i] = <<req, i>>
      <3>1. /\ Len(buf') = Len(buf) + 1 /\ buf'[Len(buf) + 1] = <<req, n>>
            /\ \A i \in 1..Len(buf) : buf'[i] = buf[i]
        BY <1>2, <2>1
      <3>2. \A i \in 1..Len(buf) : buf[i] = <<req, i>>
        BY <1>0 DEF Saved
      <3> QED BY <1>2, <2>1, <3>1, <3>2
    <2>0. Ended => Ended'
      BY <1>0, <1>2, <2>1, <2>2 DEF Ended, serverVars
    <2>4. clt'.last \in FromAgent'
      <3>1. FromAgent \subseteq FromAgent'
        BY <1>2, <2>0, <2>1, <2>2, <2>3, TruthGrows
      <3>2. AcksTrue'
        BY TrueOfAgent, PTL
      <3>3. Ack(n) \in FromAgent'
        BY <1>2, <2>3, <3>2 DEF Ack, AcksTrue
      <3> QED BY <1>0, <1>5, <3>1, <3>3 DEF Delivered, Truthful
    <2>5. Truthful'
      BY <1>0, <1>2, <2>0, <2>1, <2>2, <2>3, <2>4, ClientTruth
    <2>6. Saved'
      <3>1. /\ \A i \in 1..Len(buf') : buf'[i] = <<req', i>>
            /\ Len(buf') <= Blocks[req']
        BY <2>1, <2>2, <2>3
      <3>2. Transferring' => Len(buf') = clt'.next - 1
        <4>1. Transferring' => clt'.next = clt.next + 1
          BY <1>5 DEF Delivered, Transferring
        <4> QED BY <1>2, <2>3, <4>1
      <3>3. ~(clt'.state \in {"CLOSING", "TIME_WAIT"} /\ clt'.result = "SUCCESS")
        BY <1>5 DEF Delivered
      <3>4. status' = "BUSY" <=> clt'.state # "INIT"
        BY <1>0, <1>5, <2>1 DEF Delivered, Saved, Transferring
      <3> QED BY <3>1, <3>2, <3>3, <3>4 DEF Saved
    <2> QED BY <1>1, <2>1, <2>5, <2>6 DEF ReadInv, NothingYet
  <1>6. CASE DropIdle
    <2>1. UNCHANGED clientVars /\ ~ReadFile
      BY <1>2, <1>6 DEF DropIdle, ReadFile, clientVars, TypeInv, AgentType
    <2>2. FromAgent' = FromAgent /\ Ended' = Ended /\ transfers' # 0
      BY <1>0, <1>6, <2>1, Under DEF FromAgent, Ended, clientVars, serverVars
    <2>3. Truthful'
      BY <1>0, <1>2, <2>1, <2>2, ClientTruth DEF clientVars, Truthful
    <2>4. Saved'
      BY <1>0, <2>1, <2>2 DEF Saved, clientVars, Transferring
    <2> QED BY <1>1, <2>2, <2>3, <2>4 DEF ReadInv, NothingYet
  <1>7. ReadFile \/ ((Quiet \/ Delivered) /\ ~ReadFile) \/ DropIdle
    BY <1>0, RxRead, TimerRead DEF ClientNext
  <1> QED BY <1>3, <1>4, <1>5, <1>6, <1>7

(* Whatever the EMS answers is true: a block of the file that was asked    *)
(* for, and OACK only after the agent acknowledged the last block or a     *)
(* read failed.                                                            *)
LEMMA AnswersTrue ==
  ASSUME TypeInv, ReadInv, HandlePkt, UNCHANGED clientVars, MisreadGrows, NEW m, Answers(m)
  PROVE  m \in FromEms'
  <1>g. FromEms \subseteq FromEms'
    BY DEF FromEms, Ended, clientVars, MisreadGrows
  <1>0. /\ ses \in SessionRec /\ pkts \in Seq(FromAgent) /\ ses.last \in FromEms /\ pkts # <<>>
        /\ ses.state = "ESTABLISHED" /\ req \in Files /\ ses.file = req
    BY DEF TypeInv, EmsType, AgentType, ReadInv, Truthful, HandlePkt, Active
  <1>1. /\ Head(pkts) \in FromAgent /\ FileMaxBlkNo(ses) = Blocks[req] /\ Blocks[req] \in Nat
        /\ ses.next \in Nat /\ Len(buf) \in Nat
    BY <1>0, HeadTailType DEF FileMaxBlkNo, SessionRec, TypeInv, AgentType
  <1>2. Head(pkts).op = "ACK" => Head(pkts).blk <= Len(buf) /\ Head(pkts).blk \in Nat
    BY <1>1, AckPacket DEF FromAgent
  <1>3. Head(pkts).op = "RRQ" => ses.next = 1
    <2>1. Head(pkts) = pkts[1] /\ 1 \in 1..Len(pkts)
      BY <1>0
    <2> QED BY <1>0, <2>1 DEF ReadInv, RequestFirst, Fresh
  <1>4. CASE m \in {Error, ses.last}
    BY <1>0, <1>4, <1>g, TrueOfEms
  <1>5. CASE /\ m = Data(ses.file, ses.next)
             /\ \/ Head(pkts).op = "RRQ" /\ FileMaxBlkNo(ses) # 0
                \/ /\ Head(pkts).op = "ACK" /\ Head(pkts).blk = ses.next - 1
                   /\ Head(pkts).blk < FileMaxBlkNo(ses)
    <2>1. ses.next <= Blocks[req]
      BY <1>1, <1>2, <1>3, <1>5
    <2> QED BY <1>0, <1>1, <1>5, <1>g, <2>1, TrueOfEms
  <1>6. CASE /\ m = Oack
             /\ \/ Head(pkts).op = "ACK" /\ FileMaxBlkNo(ses) <= Head(pkts).blk
                \/ misread' # 0
    <2>1. Len(buf) = Blocks[req] \/ misread' # 0
      BY <1>1, <1>2, <1>6 DEF ReadInv, Saved
    <2>2. Ended'
      BY <2>1 DEF Ended, clientVars
    <2> QED BY <1>6, <2>2, Packets DEF FromEms, Oack
  <1> QED BY <1>4, <1>5, <1>6 DEF Answers

(* A session whose thread waits for an answer, or that shuts down, has had *)
(* its request.                                                            *)
LEMMA NotFresh ==
  ASSUME RequestFirst, ~Fresh
  PROVE  rx = <<>> /\ \A i \in 1..Len(pkts) : pkts[i].op # "RRQ"
  BY DEF RequestFirst

(* The session's record, list and requests after a step of the EMS.        *)
SessionGood ==
  /\ pkts' \in Seq(FromAgent) /\ rx' \in Seq(FromAgent)
  /\ ses'.last \in FromEms' /\ (Active' => ses'.file = req)
  /\ RequestFirst'

LEMMA RecvRead ==
  ASSUME TypeInv, ReadInv, RecvThread, FromEms \subseteq FromEms'
  PROVE  SessionGood
  <1>0. /\ toServer \in Seq(FromAgent) /\ pkts \in Seq(FromAgent) /\ rx \in Seq(FromAgent)
        /\ ses.last \in FromEms' /\ (Active => ses.file = req) /\ RequestFirst
        /\ ses \in SessionRec /\ Len(rx) <= 1 /\ req \in Files /\ Error \in FromEms'
    BY TrueOfEms DEF ReadInv, Truthful, TypeInv, EmsType, AgentType
  <1>1. CASE Register
    <2>1. /\ toServer # <<>> /\ Head(toServer) \in FromAgent /\ Head(toServer).op = "RRQ"
          /\ UNCHANGED pkts
      BY <1>0, <1>1, HeadTailType DEF Register
    <2>2. Head(toServer).file = req
      BY <2>1 DEF FromAgent
    <2>3. CASE Active /\ UNCHANGED <<ses, pc, rx>>
      BY <1>0, <2>1, <2>3 DEF SessionGood, RequestFirst, Fresh, Active
    <2>4. CASE ~Active /\ Open(Head(toServer).file) /\ rx' = <<Head(toServer)>>
      <3>1. /\ ses'.file = req /\ ses'.last = Error /\ ses'.state \in {"ZERO", "ESTABLISHED"}
            /\ ses'.state = "ESTABLISHED" => ses'.next = 1
            /\ pc' \in {"none", "loop"}
        <4>1. NoSession.last = Error /\ NoSession \in SessionRec
          BY <1>0, NoSessionType
        <4>2. CASE /\ ses' = [NoSession EXCEPT !.state = "ZERO", !.file = Head(toServer).file]
                   /\ pc' = "none"
          BY <2>2, <4>1, <4>2 DEF SessionRec
        <4>3. CASE /\ ses' = [state |-> "ESTABLISHED", file |-> Head(toServer).file,
                              next |-> 1, last |-> Error]
                   /\ pc' = "loop"
          BY <2>2, <4>3
        <4> QED BY <2>4, <4>2, <4>3 DEF Open
      <3>2. rx' \in Seq(FromAgent) /\ rx'[1].op = "RRQ"
        BY <2>1, <2>4
      <3>3. pkts' = <<>>
        BY <1>0, <2>1, <2>4 DEF RequestFirst
      <3>4. RequestFirst'
        BY <3>1, <3>2, <3>3 DEF RequestFirst, Fresh, Active
      <3> QED BY <1>0, <2>1, <3>1, <3>2, <3>4 DEF SessionGood
    <2> QED BY <1>1, <2>3, <2>4 DEF Register
  <1>2. CASE PutRequest
    <2>1. /\ rx # <<>> /\ pkts' = Append(pkts, rx[1]) /\ rx' = <<>> /\ UNCHANGED <<ses, pc>>
          /\ Active
      BY <1>2 DEF PutRequest, PktPut
    <2>2. rx[1] \in FromAgent /\ pkts = <<>> /\ Fresh
      BY <1>0, <2>1 DEF RequestFirst
    <2>3. pkts' \in Seq(FromAgent) /\ Len(pkts') = 1
      BY <1>0, <2>1, <2>2
    <2>4. RequestFirst'
      BY <2>1, <2>2, <2>3 DEF RequestFirst, Fresh, Active
    <2> QED BY <1>0, <2>1, <2>3, <2>4, EmptyType DEF SessionGood, Active
  <1>3. CASE Dispatch
    <2>1. /\ Head(toServer) \in FromAgent /\ Head(toServer).op # "RRQ" /\ rx = <<>>
          /\ UNCHANGED <<ses, pc, rx>>
      BY <1>0, <1>3, HeadTailType DEF Dispatch
    <2>2. CASE Active /\ pkts' = Append(pkts, Head(toServer))
      <3>1. pkts' \in Seq(FromAgent) /\ Len(pkts') = Len(pkts) + 1 /\ Len(pkts) \in Nat
        BY <1>0, <2>1, <2>2
      <3>2. /\ \A i \in 1..Len(pkts) : pkts'[i] = pkts[i]
            /\ pkts'[Len(pkts) + 1] = Head(toServer)
        BY <1>0, <2>1, <2>2
      <3>3. \A i \in 1..Len(pkts') : i \in 1..Len(pkts) \/ i = Len(pkts) + 1
        BY <3>1
      <3>4. \A i \in 1..Len(pkts') : pkts'[i].op = "RRQ" => i = 1 /\ Fresh
        BY <1>0, <2>1, <3>2, <3>3 DEF RequestFirst
      <3>5. RequestFirst'
        BY <2>1, <2>2, <3>4 DEF RequestFirst, Fresh, Active
      <3> QED BY <1>0, <2>1, <2>2, <3>1, <3>5 DEF SessionGood, Active
    <2>3. CASE UNCHANGED pkts
      BY <1>0, <2>1, <2>3 DEF SessionGood, RequestFirst, Fresh, Active
    <2> QED BY <1>3, <2>2, <2>3 DEF Dispatch, PktPut
  <1> QED BY <1>1, <1>2, <1>3 DEF RecvThread

LEMMA SessionRead ==
  ASSUME TypeInv, ReadInv, SessionThread, UNCHANGED clientVars, MisreadGrows,
         FromEms \subseteq FromEms'
  PROVE  SessionGood
  <1>0. /\ pkts \in Seq(FromAgent) /\ rx \in Seq(FromAgent) /\ RequestFirst
        /\ ses.last \in FromEms' /\ Error \in FromEms' /\ (Active => ses.file = req)
        /\ ses \in SessionRec /\ req \in Files /\ after \in Nat /\ count \in 0..MaxTimeoutCount
    BY TrueOfEms DEF ReadInv, Truthful, TypeInv, EmsType, AgentType
  <1>1. CASE HandlePkt
    <2>1. /\ pkts # <<>> /\ pkts' = Tail(pkts) /\ UNCHANGED rx /\ ses.state = "ESTABLISHED"
      BY <1>1 DEF HandlePkt
    <2>2. /\ ses'.file = ses.file /\ Answers(ses'.last)
          /\ ses'.state \in {"ESTABLISHED", "CLOSING", "CLOSED"}
      BY <1>1, HandleStep DEF TypeInv
    <2>3. ses'.last \in FromEms'
      BY <1>1, <2>2, AnswersTrue
    <2>4. rx = <<>> /\ pkts' \in Seq(FromAgent)
      BY <1>0, <2>1, HeadTailType DEF RequestFirst
    <2>5. \A i \in 1..Len(pkts') : pkts'[i].op # "RRQ"
      <3>1. Len(pkts) \in Nat /\ Len(pkts') = Len(pkts) - 1
            /\ \A i \in 1..Len(pkts') : pkts'[i] = pkts[i + 1]
        BY <1>0, <2>1
      <3>2. \A i \in 1..Len(pkts') : i + 1 \in 1..Len(pkts) /\ i + 1 # 1
        BY <3>1
      <3> QED BY <1>0, <3>1, <3>2 DEF RequestFirst
    <2>6. RequestFirst'
      BY <2>1, <2>2, <2>4, <2>5 DEF RequestFirst, Active
    <2> QED BY <1>0, <2>1, <2>2, <2>3, <2>4, <2>6 DEF SessionGood, Active
  <1>2. CASE PktGetEmpty \/ PktGetRetry
    <2>1. UNCHANGED <<ses, pkts, rx>> /\ pc' # "timewait" /\ pc # "timewait" /\ pc # "none"
      BY <1>2 DEF PktGetEmpty, PktGetRetry
    <2> QED BY <1>0, <2>1 DEF SessionGood, RequestFirst, Fresh, Active
  <1>3. CASE Signalled \/ TimeoutResend \/ TimeoutShutdown
    <2>1. /\ ses'.file = ses.file /\ ses'.last = ses.last /\ pc = "timewait"
          /\ ses'.state \in {ses.state, "CLOSED"} /\ UNCHANGED <<pkts, rx>>
      <3>1. CASE UNCHANGED ses
        BY <1>3, <3>1 DEF Signalled, TimeoutResend, TimeoutShutdown
      <3>2. CASE ses' = [ses EXCEPT !.next = after]
        BY <1>0, <1>3, <3>2 DEF Signalled, TimeoutResend, TimeoutShutdown, SessionRec
      <3>3. CASE TimeoutShutdown
        BY <1>0, <3>3 DEF TimeoutShutdown, Shutdown, SessionRec
      <3> QED BY <1>3, <3>1, <3>2, <3>3 DEF Signalled, TimeoutResend
    <2>2. /\ Active /\ rx = <<>> /\ \A i \in 1..Len(pkts) : pkts[i].op # "RRQ"
      BY <1>0, <2>1, NotFresh DEF RequestFirst, Fresh
    <2>3. RequestFirst'
      BY <2>1, <2>2 DEF RequestFirst, Active
    <2> QED BY <1>0, <2>1, <2>2, <2>3 DEF SessionGood
  <1>4. CASE Closing
    <2>1. /\ ses.state = "CLOSING" /\ ses.next \in Nat /\ ses.last \in ToClient
          /\ SendData(ses, ses.last, ses.next) /\ UNCHANGED <<pkts, rx>>
      BY <1>0, <1>4 DEF Closing, SessionRec
    <2>2. ses'.file = ses.file /\ ses'.state = "CLOSING" /\ ses'.last = ses.last
      BY <1>0, <2>1, SendDataStep
    <2>3. rx = <<>> /\ \A i \in 1..Len(pkts) : pkts[i].op # "RRQ"
      BY <1>0, <2>1, NotFresh DEF Fresh
    <2>4. RequestFirst'
      BY <2>1, <2>2, <2>3 DEF RequestFirst, Active
    <2> QED BY <1>0, <2>1, <2>2, <2>3, <2>4 DEF SessionGood, Active
  <1>5. CASE Unregister
    <2>1. /\ ses.state = "CLOSED" /\ ses' = NoSession /\ pc' = "none" /\ pkts' = <<>>
          /\ UNCHANGED rx
      BY <1>5 DEF Unregister
    <2>2. rx = <<>> /\ ses'.last = Error /\ ses'.state = "INVALID"
      BY <1>0, <2>1, NotFresh DEF Fresh, NoSession
    <2> QED BY <1>0, <2>1, <2>2, EmptyType DEF SessionGood, RequestFirst, Active
  <1> QED BY <1>1, <1>2, <1>3, <1>4, <1>5 DEF SessionThread

LEMMA ServerRead ==
  ASSUME TypeInv, ReadInv, Server
  PROVE  ReadInv'
  <1>0. /\ Truthful /\ Saved /\ UNCHANGED clientVars /\ ServerNext /\ EmsStep
        /\ req \in Files /\ MisreadGrows
    BY ServerStep, MisreadStep DEF ReadInv, Server, TypeInv, AgentType
  <1>a. Ended => Ended'
    BY <1>0 DEF Ended, clientVars, MisreadGrows
  <1>1. FromAgent' = FromAgent /\ FromEms \subseteq FromEms'
    BY <1>0, <1>a DEF FromAgent, FromEms, clientVars
  <1>2. SessionGood
    BY <1>0, <1>1, RecvRead, SessionRead DEF ServerNext
  <1>3. toServer' \in Seq(FromAgent) /\ toClient' \in Seq(FromEms')
    <2>1. toServer' \in Seq(FromAgent)
      BY <1>0, HeadTailType DEF EmsStep, ServerTakes, Truthful
    <2>2. ses'.last \in FromEms' /\ toClient \in Seq(FromEms')
      BY <1>0, <1>1, <1>2, SeqWiden DEF SessionGood, Truthful
    <2> QED BY <1>0, <2>1, <2>2, PutType DEF EmsStep, ServerSends
  <1>4. Truthful'
    BY <1>0, <1>1, <1>2, <1>3 DEF Truthful, SessionGood, clientVars
  <1>5. Saved' /\ transfers' = transfers
    BY <1>0, <1>a DEF Saved, Transferring, clientVars
  <1>6. transfers # 0
    <2>1. SUFFICES ASSUME transfers = 0 PROVE FALSE
      OBVIOUS
    <2>2. toServer = <<>> /\ ~Active /\ rx = <<>> /\ pc = "none"
      BY <2>1 DEF ReadInv, NothingYet, RequestFirst
    <2> QED BY <1>0, <2>2 DEF ServerNext, RecvThread, Register, PutRequest, Dispatch,
               SessionThread, HandlePkt, PktGetEmpty, PktGetRetry, Signalled, TimeoutResend,
               TimeoutShutdown, Closing, Unregister
  <1> QED BY <1>2, <1>4, <1>5, <1>6 DEF ReadInv, SessionGood, NothingYet

LEMMA NextRead ==
  ASSUME OneTransfer, TypeInv, ReadInv, [Next]_vars
  PROVE  ReadInv'
  <1>1. CASE Link
    <2>0. UNCHANGED <<clientVars, serverVars>> /\ LinkNext
      BY <1>1 DEF Link
    <2>1. FromAgent' = FromAgent /\ FromEms' = FromEms /\ Ended' = Ended
      BY <2>0 DEF FromAgent, FromEms, Ended, clientVars, serverVars
    <2>2. toServer' \in Seq(FromAgent) /\ toClient' \in Seq(FromEms)
      BY <2>0, LinkKeeps DEF ReadInv, Truthful
    <2>3. Truthful'
      BY <2>0, <2>1, <2>2 DEF ReadInv, Truthful, Active, clientVars, serverVars
    <2>4. Saved' /\ RequestFirst'
      BY <2>0, <2>1 DEF ReadInv, Saved, RequestFirst, Fresh, Active, Transferring, clientVars, serverVars
    <2>5. toServer # <<>> \/ toClient # <<>>
      BY <2>0 DEF LinkNext, Lose, Duplicate, Overtake
    <2>6. transfers' = transfers /\ transfers # 0
      BY <2>0, <2>5 DEF ReadInv, NothingYet, clientVars
    <2> QED BY <2>3, <2>4, <2>6 DEF ReadInv, NothingYet
  <1>2. CASE UNCHANGED vars
    BY <1>2 DEF vars, linkVars, bounds, clientVars, serverVars, ReadInv, Truthful, NothingYet,
                Saved, RequestFirst, Fresh, Active, Transferring, FromAgent, FromEms, Ended
  <1> QED BY <1>1, <1>2, ClientRead, ServerRead DEF Next

LEMMA ReadInvariant ==
  ASSUME OneTransfer
  PROVE  Spec => [](TypeInv /\ ReadInv)
  <1>1. Init => TypeInv /\ ReadInv
    BY InitType, InitRead
  <1>2. TypeInv /\ ReadInv /\ [Next]_vars => (TypeInv /\ ReadInv)'
    BY NextType, NextRead
  <1> QED BY <1>1, <1>2, PTL DEF Spec

LEMMA EarnedByInv ==
  ASSUME TypeInv, ReadInv
  PROVE  OackIsEarned
  <1> SUFFICES ASSUME NEW i \in 1..Len(toClient), toClient[i] = Oack
               PROVE  buf = File(req) \/ misread # 0
    BY DEF OackIsEarned
  <1>1. toClient \in Seq(FromEms)
    BY DEF ReadInv, Truthful
  <1>2. Oack \in FromEms
    BY <1>1
  <1>3. Len(buf) = Blocks[req] \/ misread # 0
    BY <1>2 DEF FromEms, Oack, Ended
  <1>4. /\ buf \in Seq(Files \X Nat) /\ Blocks[req] \in Nat
        /\ \A k \in 1..Len(buf) : buf[k] = <<req, k>>
    BY DEF TypeInv, AgentType, ReadInv, Saved
  <1> QED BY <1>3, <1>4 DEF File

(* The OACK that ends a read is sent, resent or still under way only when  *)
(* the agent has saved the whole file, or a read of the file has failed:   *)
(* EmsEftpSessionSendData's answer to the ACK of the last block, with      *)
(* every loss, duplicate, reordering and resending of the link and of both *)
(* sides, in an agent that reads once.                                     *)
THEOREM OackEarned ==
  ASSUME OneTransfer
  PROVE  Spec => []OackIsEarned
  <1>1. TypeInv /\ ReadInv => OackIsEarned
    BY EarnedByInv
  <1> QED BY <1>1, ReadInvariant, PTL

-----------------------------------------------------------------------------
(* The refinement: each step of the read is a step of FileTransfer or      *)
(* leaves the caller's view alone.                                         *)

LEMMA InitTransfer == Init => Transfer!Init
  BY DEF Init, ClientInit, ServerInit, Transfer!Init

LEMMA QuietTransfer ==
  ASSUME TypeInv, ReadInv, Quiet, UNCHANGED misread
  PROVE  [Transfer!Next]_(Transfer!vars)
  <1>0. status = "BUSY" /\ clt.result \in Results /\ UNCHANGED <<req, buf>>
    BY DEF TypeInv, AgentType, PrivateRec, ReadInv, Saved, Quiet
  <1>1. CASE status' = status
    BY <1>0, <1>1 DEF Transfer!vars
  <1>2. CASE status' # status
    <2>1. clt.state = "TIME_WAIT" /\ status' = clt.result
      BY <1>2 DEF Quiet
    <2>2. CASE clt.result = "SUCCESS"
      <3>1. misread = 0 => Len(buf) = Blocks[req]
        BY <2>1, <2>2 DEF ReadInv, Saved, Ended
      <3> QED BY <1>0, <2>1, <2>2, <3>1 DEF Transfer!Next, Transfer!Succeed
    <2>3. CASE clt.result # "SUCCESS"
      BY <1>0, <2>1, <2>3 DEF Transfer!Next, Transfer!Fail
    <2> QED BY <2>2, <2>3
  <1> QED BY <1>1, <1>2

LEMMA DeliveredTransfer ==
  ASSUME TypeInv, ReadInv, Delivered, UNCHANGED misread
  PROVE  Transfer!Deliver
  <1>1. clt.next <= Blocks[req]
    BY DeliveredFits DEF ReadInv
  <1>2. /\ status = "BUSY" /\ Len(buf) = clt.next - 1 /\ Len(buf) \in Nat
        /\ clt.next \in Nat /\ Blocks[req] \in Nat
    BY DEF TypeInv, AgentType, PrivateRec, ReadInv, Saved, Delivered, Transferring
  <1>3. Len(buf) < Blocks[req] /\ clt.next = Len(buf) + 1
    BY <1>1, <1>2
  <1> QED BY <1>2, <1>3 DEF Delivered, Transfer!Deliver

LEMMA ReadFileTransfer ==
  ASSUME TypeInv, ReadInv, ReadFile, UNCHANGED misread
  PROVE  Transfer!Begin
  <1>1. status # "BUSY"
    BY DEF ReadInv, Saved, ReadFile
  <1>2. req' \in Files /\ buf' = <<>> /\ status' \in {"BUSY", "DEVICE_ERROR"}
    BY DEF ReadFile
  <1> QED BY <1>1, <1>2 DEF Transfer!Begin, Results

LEMMA NextTransfer ==
  ASSUME TypeInv, ReadInv, [Next]_vars
  PROVE  [Transfer!Next]_(Transfer!vars)
  <1>1. CASE Client
    <2>1. (ReadFile \/ Quiet \/ Delivered \/ DropIdle) /\ UNCHANGED misread
      BY <1>1, RxRead, TimerRead DEF Client, ClientNext, serverVars
    <2>2. DropIdle => UNCHANGED Transfer!vars
      BY <2>1 DEF DropIdle, clientVars, Transfer!vars
    <2> QED BY <2>1, <2>2, ReadFileTransfer, QuietTransfer, DeliveredTransfer
        DEF Transfer!Next
  <1>2. CASE Link \/ UNCHANGED vars
    BY <1>2 DEF Link, vars, clientVars, serverVars, Transfer!vars
  <1>3. CASE Server
    <2>1. UNCHANGED <<req, buf, status>> /\ (misread # 0 => misread' # 0)
      BY <1>3, MisreadStep DEF Server, clientVars, TypeInv, MisreadGrows
    <2> QED BY <2>1 DEF Transfer!Next, Transfer!Unreadable, Transfer!vars
  <1> QED BY <1>1, <1>2, <1>3 DEF Next

(* EftpReadFile implements FileTransfer: the blocks of the file asked for  *)
(* arrive in order, each once, none from elsewhere, and success is         *)
(* reported only for the whole file, or when the EMS failed to read it,    *)
(* whatever the link does, in an agent that reads once.                    *)
THEOREM ReadIsTransfer ==
  ASSUME OneTransfer
  PROVE  Spec => TransferSpec
  <1>1. TypeInv /\ ReadInv /\ [Next]_vars => [Transfer!Next]_(Transfer!vars)
    BY NextTransfer
  <1> QED BY <1>1, InitTransfer, ReadInvariant, PTL DEF Spec, TransferSpec, Transfer!Spec
=============================================================================
