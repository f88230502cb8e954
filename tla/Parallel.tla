------------------------------- MODULE Parallel -------------------------------
(***************************************************************************)
(* funcutil.ProcessFuncParallel: total calls of f in batches, a goroutine   *)
(* for each batch; the first error is returned and stops the rest.          *)
(* ProcessTaskParallel does the same for a list of functions.               *)
(***************************************************************************)
EXTENDS Integers, FiniteSets

CONSTANTS
    Totals, Parallels,   \* the arguments of ProcessFuncParallel
    TaskLists            \* the lists given to ProcessTaskParallel, by their lengths

VARIABLES
    total, nPerBatch,
    wpc,        \* by the begin of its batch: start, run, send, end
    idx, err,   \* of each goroutine
    quit,       \* closed
    mpc,        \* the caller: idle, spawn, collect, wait, returned
    begin,      \* of the next batch to start
    count, routineNum, result,
    ran,        \* history: the indexes f was called with, and the ones that failed
    failed

args    == <<total, nPerBatch>>
history == <<ran, failed>>
vars == <<args, wpc, idx, err, quit, mpc, begin, count, routineNum, result, history>>

Init ==
    /\ total = 0 /\ nPerBatch = 0
    /\ wpc = <<>> /\ idx = <<>> /\ err = <<>> /\ quit = FALSE
    /\ mpc = "idle" /\ begin = 0 /\ count = 0 /\ routineNum = 0 /\ result = "none"
    /\ ran = {} /\ failed = {}

nPerBatchOf(t, maxParallel) ==
    LET n == IF maxParallel <= 0 THEN 1 ELSE maxParallel IN (t + n - 1) \div n

\* Both functions batch alike, and run the same loop from here on; f(idx) is tasks[idx]().
Batch(t) ==
    /\ mpc = "idle" /\ mpc' = "spawn"
    /\ total' = t
    /\ \E n \in Parallels : nPerBatch' = nPerBatchOf(t, n)
    /\ UNCHANGED <<wpc, idx, err, quit, begin, count, routineNum, result, history>>

ProcessFuncParallel == \E t \in Totals : Batch(t)
ProcessTaskParallel == \E t \in TaskLists : Batch(t)

\* The loop that starts the goroutines, and its end.
Spawn ==
    /\ mpc = "spawn"
    /\ IF begin < total
       THEN /\ wpc' = [b \in DOMAIN wpc \cup {begin} |-> IF b = begin THEN "start" ELSE wpc[b]]
            /\ idx' = [b \in DOMAIN idx \cup {begin} |-> IF b = begin THEN begin ELSE idx[b]]
            /\ err' = [b \in DOMAIN err \cup {begin} |-> IF b = begin THEN FALSE ELSE err[b]]
            /\ begin' = begin + nPerBatch
            /\ routineNum' = routineNum + 1
            /\ UNCHANGED <<mpc, result>>
       ELSE /\ IF routineNum = 0 THEN mpc' = "returned" /\ result' = "nil"
               ELSE mpc' = "collect" /\ UNCHANGED result
            /\ UNCHANGED <<wpc, idx, err, begin, routineNum>>
    /\ UNCHANGED <<args, quit, count, history>>

endOf(b) == IF total < b + nPerBatch THEN total ELSE b + nPerBatch

\* A goroutine looks at quit, then runs its batch up to the first error.
Start(b) ==
    /\ wpc[b] = "start"
    /\ wpc' = [wpc EXCEPT ![b] = IF quit THEN "end" ELSE "run"]
    /\ UNCHANGED <<args, idx, err, quit, mpc, begin, count, routineNum, result, history>>

Run(b) ==
    /\ wpc[b] = "run"
    /\ IF idx[b] < endOf(b)
       THEN \E e \in BOOLEAN :
               /\ ran' = ran \cup {idx[b]}
               /\ failed' = IF e THEN failed \cup {idx[b]} ELSE failed
               /\ err' = [err EXCEPT ![b] = e]
               /\ wpc' = [wpc EXCEPT ![b] = IF e THEN "send" ELSE "run"]
               /\ idx' = [idx EXCEPT ![b] = @ + 1]
       ELSE /\ wpc' = [wpc EXCEPT ![b] = "send"]
            /\ UNCHANGED <<idx, err, history>>
    /\ UNCHANGED <<args, quit, mpc, begin, count, routineNum, result>>

\* ch <- err meets the caller's select: on errc it closes quit and waits, on done it
\* counts.
Meet(b) ==
    /\ wpc[b] = "send" /\ mpc = "collect"
    /\ wpc' = [wpc EXCEPT ![b] = "end"]
    /\ IF err[b]
       THEN quit' = TRUE /\ mpc' = "wait" /\ result' = "error" /\ UNCHANGED count
       ELSE /\ count' = count + 1
            /\ IF count' = routineNum THEN mpc' = "wait" /\ result' = "nil"
               ELSE UNCHANGED <<mpc, result>>
            /\ UNCHANGED quit
    /\ UNCHANGED <<args, idx, err, begin, routineNum, history>>

QuitIgnored(b) == FALSE /\ UNCHANGED vars                          \* mutant
\* case <-quit: return
Quit(b) ==
    /\ wpc[b] = "send" /\ quit
    /\ wpc' = [wpc EXCEPT ![b] = "end"]
    /\ UNCHANGED <<args, idx, err, quit, mpc, begin, count, routineNum, result, history>>

\* wg.Wait() and return
WaitSkipped == mpc = "wait"                                        \* mutant
WaitOver == mpc = "wait" /\ \A b \in DOMAIN wpc : wpc[b] = "end"

Return ==
    /\ WaitOver
    /\ mpc' = "returned"
    /\ UNCHANGED <<args, wpc, idx, err, quit, begin, count, routineNum, result, history>>

Next ==
    \/ ProcessFuncParallel \/ ProcessTaskParallel \/ Spawn \/ Return
    \/ \E b \in DOMAIN wpc : Start(b) \/ Run(b) \/ Meet(b) \/ Quit(b)
-------------------------------------------------------------------------------
\* When it returns, no goroutine is left; nil means f was called with every index and
\* never failed, an error that some call failed.
AllOrError ==
    mpc = "returned" =>
        /\ \A b \in DOMAIN wpc : wpc[b] = "end"
        /\ IF result = "nil" THEN ran = 0..(total - 1) /\ failed = {} ELSE failed # {}

\* It returns, whoever fails and however goroutines are scheduled: nobody is left
\* sending to a caller that has stopped listening.
Returns == mpc = "spawn" ~> mpc = "returned"
===============================================================================
