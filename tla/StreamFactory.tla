----------------------------- MODULE StreamFactory -----------------------------
(***************************************************************************)
(* PmsFactory (mq_factory.go) over the pulsar client of the process         *)
(* (pulsar_client.go): callers ask for streams; the first of them opens the *)
(* connection, inside once.Do, and the others wait for it.                  *)
(***************************************************************************)
EXTENDS Integers, FiniteSets

CONSTANT Procs

VARIABLES
    once,       \* new, running, done
    sc,         \* the client of the process: nil or its number
    opened,     \* connections opened so far
    firstErr,   \* the connection could not be opened
    step,       \* of each caller: idle, auth, once, open, returned
    got         \* what each caller got: a stream over a client (or over nil), or an error

vars == <<once, sc, opened, firstErr, step, got>>

Init ==
    /\ once = "new" /\ sc = "nil" /\ opened = 0 /\ firstErr = FALSE
    /\ step = [p \in Procs |-> "idle"] /\ got = [p \in Procs |-> "none"]

Answer(p, r) == step' = [step EXCEPT ![p] = "returned"] /\ got' = [got EXCEPT ![p] = r]
Goto(p, s) == step' = [step EXCEPT ![p] = s] /\ UNCHANGED got

\* NewMsgStream, NewTtMsgStream: a deadline that has passed is an error.
NewMsgStream(p) ==
    /\ step[p] = "idle"
    /\ Goto(p, "auth") \/ Answer(p, "error")
    /\ UNCHANGED <<once, sc, opened, firstErr>>

getAuthentication(p) ==
    /\ step[p] = "auth"
    /\ Goto(p, "once") \/ Answer(p, "error")
    /\ UNCHANGED <<once, sc, opened, firstErr>>

OpenAlways(p) ==                                                  \* mutant
    /\ step[p] = "once" /\ Goto(p, "open")
    /\ UNCHANGED <<once, sc, opened, firstErr>>
\* NewClient.  The callers that find once.Do running wait for it.
NewClient(p) ==
    /\ step[p] = "once" /\ once # "running"
    /\ IF once = "new" THEN once' = "running" /\ Goto(p, "open")
       ELSE Answer(p, sc) /\ UNCHANGED once
    /\ UNCHANGED <<sc, opened, firstErr>>

\* pulsar.NewClient inside once.Do; an error is returned to this caller alone.
OpenClient(p) ==
    /\ step[p] = "open"
    /\ once' = "done"
    /\ \/ /\ opened' = opened + 1 /\ sc' = "client" /\ UNCHANGED firstErr
          /\ Answer(p, "client")
       \/ /\ firstErr' = TRUE /\ UNCHANGED <<opened, sc>>
          /\ Answer(p, "error")

Next == \E p \in Procs : \/ NewMsgStream(p) \/ getAuthentication(p)
                         \/ NewClient(p) \/ OpenClient(p)
-------------------------------------------------------------------------------
\* The process opens at most one connection, all streams use it, and a stream is handed
\* out without a client only when the one attempt to open it has failed - to somebody
\* else, who alone was told.
OneClient ==
    /\ opened <= 1
    /\ \A p \in Procs : /\ got[p] = "client" => opened = 1
                        /\ got[p] = "nil" => firstErr /\ \E q \in Procs : got[q] = "error"
===============================================================================
