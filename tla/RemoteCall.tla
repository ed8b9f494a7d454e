----------------------------- MODULE RemoteCall -----------------------------
(***************************************************************************)
(* What a script may rely on when it sends commands to the agent: they are *)
(* executed in the order in which they were sent, none twice, and the      *)
(* answer a script is given is that of the command it sent last.           *)
(***************************************************************************)
EXTENDS Integers, Sequences

VARIABLES
  calls,      \* how many commands have been sent; they are numbered from 1
  executed,   \* the commands executed, in order
  returned    \* the answers given to scripts: id asked for, command reported

vars == <<calls, executed, returned>>

Init == calls = 0 /\ executed = <<>> /\ returned = <<>>

Call == calls' = calls + 1 /\ UNCHANGED <<executed, returned>>

Execute ==
  \E c \in 1..calls :
    /\ \A i \in 1..Len(executed) : executed[i] < c
    /\ executed' = Append(executed, c)
    /\ UNCHANGED <<calls, returned>>

Return ==
  /\ \E i \in 1..Len(executed) : executed[i] = calls
  /\ \A i \in 1..Len(returned) : returned[i].id # calls
  /\ returned' = Append(returned, [id |-> calls, cmd |-> calls])
  /\ UNCHANGED <<calls, executed>>

Next == Call \/ Execute \/ Return

Spec == Init /\ [][Next]_vars
=============================================================================
