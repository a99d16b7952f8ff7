--------------------------- MODULE MCFileTransfer ---------------------------
(* Small instances of the file transfer: host 1 has a file of more than a  *)
(* window, host 2 one of less.                                             *)
EXTENDS FileTransfer

packetsOfFile == [h \in Hosts |-> IF h = 1 THEN 3 ELSE 1]

(* Bound: timers fire early or senders are killed, not both.               *)
EarlyOrKilled == early = 0 \/ kills = 0
=============================================================================
