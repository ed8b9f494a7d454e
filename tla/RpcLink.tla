------------------------------ MODULE RpcLink ------------------------------
(***************************************************************************)
(* The Ethernet between the EMS and the agent, as the remote procedure     *)
(* calls see it: one queue of frames each way.  A frame may be lost or     *)
(* repeated.  A message fits one frame.                                    *)
(***************************************************************************)
EXTENDS Integers, Sequences

CONSTANTS
  MaxLink,     \* bound: frames on the way; more are dropped
  Upsets,      \* what may go wrong, a subset of AllUpsets
  MaxUpsets,   \* bound: how often something goes wrong
  Patient,     \* BOOLEAN: a frame and its answer take less than any timeout
  Prompt       \* BOOLEAN: a thread that can go on is never held up for long

(* A frame lost or repeated, no memory in the EMS, a script that ends      *)
(* without its answer, a clean up, a reset of the machine under test; no   *)
(* memory in the agent for a command or for its answer, a record of the    *)
(* passive mode that cannot be read.                                       *)
AllUpsets == {"lose", "repeat", "memory", "abandon", "cleanup", "reset",
              "exhaust", "mute", "record"}

ASSUME RpcLinkAssumption ==
  /\ MaxLink \in Nat \ {0}
  /\ Upsets \subseteq AllUpsets /\ MaxUpsets \in Nat
  /\ Patient \in BOOLEAN /\ Prompt \in BOOLEAN

VARIABLES toAgent, toEms, upsets
rpcLinkVars == <<toAgent, toEms, upsets>>

(* Frames.  A command is its DataId and what kind of command it is; the    *)
(* body of an answer is the command whose execution it reports.            *)
Kinds == {"plain", "execute", "abort"}
Commands == [id : Nat, kind : Kinds]

NoCmd == [id |-> 0, kind |-> "none"]     \* an empty buffer
Stamp == [id |-> 0, kind |-> "stamp"]    \* what a CLEANUP leaves in a buffer
Contents == Commands \cup {NoCmd, Stamp}

Data(s, c)      == [op |-> "DATA", seq |-> s, cmd |-> c]
Answer(s, d, c) == [op |-> "DATA", seq |-> s, id |-> d, body |-> c]
Control(o, s)   == [op |-> o, seq |-> s]
Cleanup(s, t)   == [op |-> "CLEANUP", seq |-> s, stamp |-> t]

(* Frames of either direction.  The agent numbers its answers from -1.     *)
DataFrames   == [op : {"DATA"}, seq : Nat, cmd : Contents]
AnswerFrames == [op : {"DATA"}, seq : Int, id : Int, body : Contents]

ToAgent ==
  DataFrames \cup [op : {"DATA_ACK", "PROBE"}, seq : Int]
    \cup [op : {"CLEANUP"}, seq : Int, stamp : Nat]

ToEms ==
  AnswerFrames \cup [op : {"DATA_ACK", "PROBE_ACK", "CLEANUP_ACK"}, seq : Int]

RpcLinkInit == toAgent = <<>> /\ toEms = <<>> /\ upsets = 0

Put(ch, m) == IF Len(ch) < MaxLink THEN Append(ch, m) ELSE ch

(* When a timeout may end.                                                 *)
TimerDue == Patient => toAgent = <<>> /\ toEms = <<>>

Upset(u) == u \in Upsets /\ upsets < MaxUpsets /\ upsets' = upsets + 1

Lose ==
  /\ Upset("lose")
  /\ \/ toAgent # <<>> /\ toAgent' = Tail(toAgent) /\ UNCHANGED toEms
     \/ toEms # <<>> /\ toEms' = Tail(toEms) /\ UNCHANGED toAgent

Repeat ==
  /\ Upset("repeat")
  /\ \/ toAgent # <<>> /\ toAgent' = <<Head(toAgent)>> \o toAgent /\ UNCHANGED toEms
     \/ toEms # <<>> /\ toEms' = <<Head(toEms)>> \o toEms /\ UNCHANGED toAgent

RpcLinkNext == Lose \/ Repeat

RpcLinkType ==
  /\ toAgent \in Seq(ToAgent) /\ toEms \in Seq(ToEms)
  /\ upsets \in 0..MaxUpsets
=============================================================================
