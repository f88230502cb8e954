-------------------------------- MODULE Futures --------------------------------
(***************************************************************************)
(* conc.Go and conc.AwaitAll: goroutines that each write a result and close *)
(* a channel, and one that waits for all of them in turn.                   *)
(***************************************************************************)
EXTENDS Integers, FiniteSets

CONSTANTS N     \* how many futures

Futures == 1..N
None == -1
Nil  == 0
VARIABLES
    fpc,        \* a goroutine: run, wrote, end
    err,        \* future.err: "unset" until written
    closed,     \* future.ch
    at,         \* the loop of AwaitAll
    result      \* None until it returns, then Nil or the future whose error it is
vars == <<fpc, err, closed, at, result>>

Init ==
    /\ fpc = [i \in Futures |-> "run"] /\ err = [i \in Futures |-> "unset"]
    /\ closed = [i \in Futures |-> FALSE]
    /\ at = 1 /\ result = None

\* future.value, future.err = fn(), then close(future.ch)
Fn(i) ==
    /\ fpc[i] = "run" /\ fpc' = [fpc EXCEPT ![i] = "wrote"]
    /\ \E e \in {"nil", "error"} : err' = [err EXCEPT ![i] = e]
    /\ UNCHANGED <<closed, at, result>>
closeAnytime(i) == fpc[i] # "end"                                                \* mutant
mayClose(i) == fpc[i] = "wrote"
CloseCh(i) ==
    /\ mayClose(i) /\ fpc' = [fpc EXCEPT ![i] = "end"]
    /\ closed' = [closed EXCEPT ![i] = TRUE]
    /\ UNCHANGED <<err, at, result>>

\* OK() blocks until the channel is closed, then looks at err.
AwaitAll ==
    /\ result = None
    /\ IF at > N THEN result' = Nil /\ UNCHANGED at
       ELSE /\ closed[at]
            /\ IF err[at] = "error" THEN result' = at /\ UNCHANGED at
               ELSE at' = at + 1 /\ UNCHANGED result
    /\ UNCHANGED <<fpc, err, closed>>

Next == AwaitAll \/ \E i \in Futures : Fn(i) \/ CloseCh(i)
-------------------------------------------------------------------------------
\* AwaitAll returns nil only when every task has ended without an error, and otherwise the
\* error of the first future in the order given that has one, whichever fails first.
FirstErrorOrNil ==
    /\ result = Nil => \A i \in Futures : fpc[i] # "run" /\ err[i] = "nil"
    /\ result > 0 =>
          err[result] = "error" /\ \A i \in 1..(result - 1) : err[i] = "nil"
===============================================================================
