----------------------------- MODULE TickDelivery -----------------------------
(***************************************************************************)
(* What a reader of a tick stream is promised, whatever buffers, rounds,    *)
(* positions and restarts lie in between: the data of all channels arrives  *)
(* in windows that end at a tick, every window complete over all channels,  *)
(* no message twice, and of the copies of a DML message just one.  Topics    *)
(* may grow meanwhile.                                                      *)
(***************************************************************************)
EXTENDS MsgLog

CONSTANT Topics

VARIABLES topic, upto, applied

vars == <<topic, upto, applied>>

Init ==
    /\ topic \in Topics
    /\ upto = [c \in Channels |-> 0]
    /\ applied = {}

\* The ticks of the logs.
Ticks == UNION {{topic[c][o].begin : o \in {i \in DOMAIN topic[c] : isTimeTick(topic[c][i])}} :
                   c \in Channels}

\* The next window, up to tick t.
Deliver(t) ==
    /\ \A c \in Channels : t > upto[c]
    /\ \E D \in SUBSET Between(topic, upto, t) :
          /\ StandsFor(topic, D, Between(topic, upto, t))
          /\ NoCopies(topic, D)
          /\ applied' = applied \cup D
    /\ upto' = [c \in Channels |-> t]
    /\ UNCHANGED topic

\* External: a producer appends a message, keeping its promises.
Publish ==
    /\ \E c \in Channels :
          /\ Len(topic'[c]) = Len(topic[c]) + 1
          /\ topic' = [topic EXCEPT ![c] = Append(@, topic'[c][Len(topic'[c])])]
          /\ TickPromise(topic'[c])
    /\ CopiesAgree(topic')
    /\ UNCHANGED <<upto, applied>>

Next == Publish \/ \E t \in Ticks : Deliver(t)

Spec == Init /\ [][Next]_vars
===============================================================================
