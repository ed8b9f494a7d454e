------------------------------ MODULE EftpLink ------------------------------
(***************************************************************************)
(* The Ethernet between the agent and the EMS, as EFTP sees it: one queue  *)
(* of packets each way.  A packet may be lost, duplicated or overtaken.    *)
(* The client sends through the managed network protocol, the server       *)
(* through libnet; either may refuse a packet.                             *)
(***************************************************************************)
EXTENDS Integers, Sequences

CONSTANTS
  Files,         \* names of files
  Blocks,        \* FileMaxBlkNo of each file
  Missing,       \* files the EMS cannot open
  MaxLink,       \* bound: packets on the way; more are dropped
  MaxFaults,     \* bound: losses and duplicates
  MaxRefusals,   \* bound: packets a network interface refuses
  MaxOvertakes   \* bound: packets overtaken

ASSUME EftpLinkAssumption ==
  /\ Blocks \in [Files -> Nat]
  /\ Missing \subseteq Files
  /\ MaxLink \in Nat \ {0} /\ MaxFaults \in Nat
  /\ MaxRefusals \in Nat /\ MaxOvertakes \in Nat

VARIABLES toServer, toClient, faults, refusals, overtakes
bounds == <<faults, refusals, overtakes>>
linkVars == <<toServer, toClient, bounds>>

(* Packets.  The content of a DATA packet is named by its file.            *)
Request(f) == [op |-> "RRQ", file |-> f]
Data(f, n) == [op |-> "DATA", file |-> f, blk |-> n]
Ack(n)     == [op |-> "ACK", blk |-> n]
Error      == [op |-> "ERROR"]
Oack       == [op |-> "OACK"]

ToServer == [op : {"RRQ"}, file : Files] \cup [op : {"ACK"}, blk : Nat] \cup {Error}
ToClient == [op : {"DATA"}, file : Files, blk : Nat] \cup {Oack, Error}

LinkInit ==
  /\ toServer = <<>> /\ toClient = <<>>
  /\ faults = 0 /\ refusals = 0 /\ overtakes = 0

Put(ch, m) == IF Len(ch) < MaxLink THEN Append(ch, m) ELSE ch

(* A network interface refuses to send or to receive.                      *)
Refuse ==
  /\ refusals < MaxRefusals /\ refusals' = refusals + 1
  /\ UNCHANGED <<faults, overtakes>>

Fault ==
  /\ faults < MaxFaults /\ faults' = faults + 1
  /\ UNCHANGED <<refusals, overtakes>>

Doubled(ch) == <<Head(ch)>> \o ch

Overtaken(ch) == <<ch[2], ch[1]>> \o SubSeq(ch, 3, Len(ch))

Lose ==
  /\ Fault
  /\ \/ toServer # <<>> /\ toServer' = Tail(toServer) /\ UNCHANGED toClient
     \/ toClient # <<>> /\ toClient' = Tail(toClient) /\ UNCHANGED toServer

Duplicate ==
  /\ Fault
  /\ \/ toServer # <<>> /\ toServer' = Doubled(toServer) /\ UNCHANGED toClient
     \/ toClient # <<>> /\ toClient' = Doubled(toClient) /\ UNCHANGED toServer

Overtake ==
  /\ overtakes < MaxOvertakes /\ overtakes' = overtakes + 1
  /\ \/ Len(toServer) > 1 /\ toServer' = Overtaken(toServer) /\ UNCHANGED toClient
     \/ Len(toClient) > 1 /\ toClient' = Overtaken(toClient) /\ UNCHANGED toServer
  /\ UNCHANGED <<faults, refusals>>

LinkNext == Lose \/ Duplicate \/ Overtake
=============================================================================
