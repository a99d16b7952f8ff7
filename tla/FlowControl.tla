---------------------------- MODULE FlowControl ----------------------------
(***************************************************************************)
(* The loop of sendMissingUpdates and getNextMissingUpdate (server.c), one *)
(* step per iteration, beside the operators toSend, ranDry and             *)
(* sendMissingUpdates of module MailState, which give its result at once.  *)
(***************************************************************************)
EXTENDS MailState

CONSTANTS MaxRange  \* bound: indices of buffered updates and of ranges

ASSUME MaxRangeAssumption == MaxRange \in Nat

VARIABLES
    start,     \* the state at the call
    n,         \* numToSend
    min_max,   \* the ranges as the loop leaves them
    sent,      \* the updates sent, in order
    returned   \* what sendMissingUpdates returned, or -1

loopVars == <<start, n, min_max, sent, returned>>

(* Updates as the loop sees them: a stamp.                                 *)
Stamps == [procID : Servers, index : 0 .. MaxRange]

StartRanges == {r \in [min : 0 .. MaxRange, max : 0 .. MaxRange] : r.min <= r.max}
                 \cup {NoRange}

LoopInit ==
    /\ \E b \in SUBSET Stamps, mm \in [Servers -> StartRanges] :
         /\ start = [buffer |-> b, min_max |-> mm, status |-> "SENDINGUPDATES"]
         /\ min_max = mm
    /\ n \in 1 .. MaxSend
    /\ sent = <<>>
    /\ returned = -1

(* The range with the lowest index, the lower server among equals.         *)
isNext(p) ==
    /\ min_max[p].min >= 0
    /\ \A q \in Servers :
         min_max[q].min < 0 \/ min_max[p].min < min_max[q].min
           \/ (min_max[p].min = min_max[q].min /\ p <= q)

(* MUTANT: the last index of a range is skipped.                           *)
advanceShort(r) == IF r.min + 1 >= r.max THEN NoRange ELSE [r EXCEPT !.min = @ + 1]

(* MUTANT: a range is never exhausted.                                     *)
advanceStuck(r) == IF r.min = r.max THEN r ELSE [r EXCEPT !.min = @ + 1]

advance(r) == IF r.min = r.max THEN NoRange ELSE [r EXCEPT !.min = @ + 1]

sendFound(p, i) ==
    sent' = IF findUpdate(start, p, i)
            THEN Append(sent, [procID |-> p, index |-> i]) ELSE sent

(* One iteration: look for the next update of the ranges, send it if it is *)
(* in the buffer, and take it from its range.                              *)
Iterate ==
    /\ returned = -1 /\ Len(sent) < n
    /\ \E p \in Servers :
         /\ isNext(p)
         /\ sendFound(p, min_max[p].min)
         /\ min_max' = [min_max EXCEPT ![p] = advance(@)]
    /\ UNCHANGED <<start, n, returned>>

Return ==
    /\ returned = -1
    /\ \/ Len(sent) = n /\ returned' = 1
       \/ Len(sent) < n /\ (\A p \in Servers : min_max[p].min < 0) /\ returned' = 0
    /\ UNCHANGED <<start, n, min_max, sent>>

LoopNext == Iterate \/ Return

LoopSpec == LoopInit /\ [][LoopNext]_loopVars /\ WF_loopVars(LoopNext)

-----------------------------------------------------------------------------
(* When the loop ends it has sent what toSend says, each update once and   *)
(* in stamp order, left the ranges of sendMissingUpdates, and returned 0   *)
(* exactly when it ran dry: the atomic step of module MailServer is what   *)
(* the loop does, with holes in the buffer and ranges that overlap.        *)
LoopIsTheBatch ==
    returned # -1 =>
        /\ {sent[k] : k \in DOMAIN sent} = toSend(start, n)
        /\ \A k, l \in DOMAIN sent : k < l => Before(sent[k], sent[l])
        /\ min_max = sendMissingUpdates(start, n).min_max
        /\ (returned = 0) <=> ranDry(start, n)

(* The loop ends: no range makes it search for ever.                       *)
LoopEnds == <>(returned # -1)

=============================================================================
