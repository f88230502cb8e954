-------------------------------- MODULE MsgLog --------------------------------
(***************************************************************************)
(* The topics of the message queue as a reader sees them: one append-only  *)
(* log per physical channel.  A message is addressed by its channel and    *)
(* its offset in that channel's log; the offset stands for the serialised  *)
(* MsgID of the queue.  A TsMsg keeps its type, the id of its header and   *)
(* the smallest and largest timestamp of its rows.  Its payload is left    *)
(* out, its size (which the pursuit limit adds up) is kept.                *)
(***************************************************************************)
EXTENDS Naturals, Sequences

CONSTANT Channels

\* commonpb.MsgType, as far as the readers tell the types apart.  "Bad" is a
\* queue message whose payload is nil or cannot be unmarshalled.
MsgType == {"TimeTick", "Insert", "Delete", "DropCollection", "Bad"}

\* What the unmarshalled message answers to Type(), ID(), BeginTs(), EndTs()
\* and Size().
TsMsg == [type : MsgType, id : Nat, begin : Nat, end : Nat, size : Nat]

isDMLMsg(m) == m.type \in {"Insert", "Delete"}

isTimeTick(m) == m.type = "TimeTick"

\* A message the stream hands to its reader: neither a tick nor unreadable.
isData(m) == m.type \notin {"TimeTick", "Bad"}

\* The offsets of a log that hold data.
DataOf(log) == {o \in DOMAIN log : isData(log[o])}

\* External: what the producers of a channel promise.  A TimeTick at ts
\* announces that every later data message of the channel is younger than ts,
\* and the ticks of a channel do not run backwards.
TickPromise(log) ==
    \A i, j \in DOMAIN log :
        /\ isTimeTick(log[i]) => log[i].begin = log[i].end /\ log[i].begin > 0
        /\ isData(log[i]) => log[i].begin <= log[i].end /\ log[i].begin > 0
        /\ i < j /\ isTimeTick(log[i]) =>
              /\ isData(log[j]) => log[j].begin > log[i].begin
              /\ isTimeTick(log[j]) => log[j].begin >= log[i].begin

\* External: copies of one DML message (a producer that retried) carry the same
\* timestamps, and an id is used for one message only.
CopiesAgree(topic) ==
    \A c, d \in Channels :
        \A o \in DataOf(topic[c]), p \in DataOf(topic[d]) :
            topic[c][o].id = topic[d][p].id =>
               /\ topic[c][o].type = topic[d][p].type
               /\ topic[c][o].end = topic[d][p].end

Topic == {t \in [Channels -> Seq(TsMsg)] :
             (\A c \in Channels : TickPromise(t[c])) /\ CopiesAgree(t)}

\* The messages of all channels whose last timestamp lies in (lo[c], hi].
Between(topic, lo, hi) ==
    UNION {{c} \X {o \in DataOf(topic[c]) : lo[c] < topic[c][o].end /\ topic[c][o].end <= hi} :
              c \in Channels}

\* D stands for the set S of messages: it is S without DML messages of which a
\* copy with the same id stays.
StandsFor(topic, D, S) ==
    /\ D \subseteq S
    /\ \A r \in S \ D : /\ isDMLMsg(topic[r[1]][r[2]])
                        /\ \E d \in D : topic[d[1]][d[2]].id = topic[r[1]][r[2]].id

\* No two DML messages of D share an id.
NoCopies(topic, D) ==
    \A r, s \in D :
        isDMLMsg(topic[r[1]][r[2]]) /\ topic[r[1]][r[2]].id = topic[s[1]][s[2]].id => r = s
===============================================================================
