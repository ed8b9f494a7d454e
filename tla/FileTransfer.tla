---------------------------- MODULE FileTransfer ----------------------------
(***************************************************************************)
(* What a caller of EftpReadFile may rely on: the blocks of the file it    *)
(* asked for arrive in order, each once, and the transfer succeeds only    *)
(* when they are all there, unless the other side could not read one: then *)
(* the first few may pass for the file.  It may fail at any time.          *)
(***************************************************************************)
EXTENDS Integers, Sequences

CONSTANTS
  Files,     \* names of files
  Blocks,    \* number of blocks of each file
  Failures   \* results other than "SUCCESS"

VARIABLES
  file,      \* the file asked for
  received,  \* its blocks received, each <<file, number>>
  result,    \* "BUSY" while the transfer is under way
  readable   \* no read of the file has failed

vars == <<file, received, result, readable>>

Init ==
  /\ file \in Files
  /\ received = <<>>
  /\ result = "SUCCESS"
  /\ readable = TRUE

(* A transfer begins, or fails to begin.                                   *)
Begin ==
  /\ result # "BUSY"
  /\ file' \in Files
  /\ received' = <<>>
  /\ result' \in {"BUSY"} \cup Failures
  /\ UNCHANGED readable

Deliver ==
  /\ result = "BUSY" /\ Len(received) < Blocks[file]
  /\ received' = Append(received, <<file, Len(received) + 1>>)
  /\ UNCHANGED <<file, result, readable>>

Succeed ==
  /\ result = "BUSY" /\ (readable => Len(received) = Blocks[file])
  /\ result' = "SUCCESS"
  /\ UNCHANGED <<file, received, readable>>

Fail ==
  /\ result = "BUSY"
  /\ result' \in Failures
  /\ UNCHANGED <<file, received, readable>>

Unreadable ==
  /\ readable /\ readable' = FALSE
  /\ UNCHANGED <<file, received, result>>

Next == Begin \/ Deliver \/ Succeed \/ Fail \/ Unreadable

Spec == Init /\ [][Next]_vars
=============================================================================
