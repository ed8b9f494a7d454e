----------------------------- MODULE MCEftpRead -----------------------------
(* Small instances of EftpRead.                                            *)
EXTENDS EftpRead

(* A file that fits the agent's buffer of two blocks, one that does not,   *)
(* an empty one, and one that the EMS does not have.                       *)
AnyFiles == {"fits", "huge", "empty", "absent"}
AnyBlocks == [fits |-> 2, huge |-> 3, empty |-> 0, absent |-> 1]
AbsentFile == {"absent"}

(* Two files whose lengths are so far apart that an acknowledgement of the *)
(* first is out of range in a session for the second.                      *)
TwoFiles == {"long", "short"}
TwoBlocks == [long |-> 3, short |-> 1]

(* Bounds: the link upsets one packet, and the long file is read before    *)
(* the short one.  Neither limits how the agent and the EMS react.         *)
OneUpset == faults' + overtakes' <= 1
LongThenShort ==
  transfers' # transfers => req' = IF transfers = 0 THEN "long" ELSE "short"
EndsSpec == Init /\ [][Next /\ OneUpset /\ LongThenShort]_vars /\ Fairness
=============================================================================
