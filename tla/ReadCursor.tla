------------------------------ MODULE ReadCursor ------------------------------
(***************************************************************************)
(* What the streams take a consumer for: a cursor into the log of a topic   *)
(* that is positioned before the first read and then moves on message by    *)
(* message.  TtMsgStream and MsgStream use exactly this of a consumer.      *)
(***************************************************************************)
EXTENDS Naturals

VARIABLES published, cursor, reading

vars == <<published, cursor, reading>>

Init == published \in Nat /\ cursor \in 0..published /\ reading = FALSE

Publish == published' = published + 1 /\ UNCHANGED <<cursor, reading>>

\* The next message read is cursor' + 1.
Position ==
    /\ ~reading
    /\ cursor' \in 0..published
    /\ UNCHANGED <<published, reading>>

Read ==
    /\ cursor < published
    /\ cursor' = cursor + 1 /\ reading' = TRUE
    /\ UNCHANGED published

\* The process of the reader is restarted.
Restart ==
    /\ cursor' \in 0..published /\ reading' = FALSE
    /\ UNCHANGED published

Next == Publish \/ Position \/ Read \/ Restart

Spec == Init /\ [][Next]_vars
===============================================================================
