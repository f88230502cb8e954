----------------------------- MODULE GroupChecker -----------------------------
(***************************************************************************)
(* timerecord.GroupChecker: one checker per group name in a global map,     *)
(* each with a goroutine that reports the members that have been silent.    *)
(* One group; checkers are numbered in the order they are made.  A caller   *)
(* may have a checker that the one who made it has not started yet.         *)
(***************************************************************************)
EXTENDS Integers

CONSTANTS Procs, MaxCheckers

None == 0

VARIABLES
    groups,     \* the checker in the map, or None
    made,       \* checkers made so far
    inited,     \* those whose goroutine was started
    stopping,   \* those whose stopOnce has begun (and closed ch)
    worker,     \* those whose goroutine runs
    holds,      \* the checker each caller has
    step        \* of each caller: idle, init, have, remove, or gone with the process

vars == <<groups, made, inited, stopping, worker, holds, step>>

Init ==
    /\ groups = None /\ made = 0
    /\ inited = {} /\ stopping = {} /\ worker = {}
    /\ holds = [p \in Procs |-> None] /\ step = [p \in Procs |-> "idle"]

\* GetGroupChecker: GetOrInsert; the caller that inserted starts the goroutine.
GetGroupChecker(p) ==
    /\ step[p] = "idle" /\ (groups = None => made < MaxCheckers)
    /\ IF groups = None
       THEN /\ made' = made + 1 /\ groups' = made'
            /\ step' = [step EXCEPT ![p] = "init"]
       ELSE step' = [step EXCEPT ![p] = "have"] /\ UNCHANGED <<made, groups>>
    /\ holds' = [holds EXCEPT ![p] = groups']
    /\ UNCHANGED <<inited, stopping, worker>>

\* init
DoInit(p) ==
    /\ step[p] = "init"
    /\ inited' = inited \cup {holds[p]} /\ worker' = worker \cup {holds[p]}
    /\ step' = [step EXCEPT ![p] = "have"]
    /\ UNCHANGED <<groups, made, stopping, holds>>

StopAgain(p) ==                                                    \* mutant
    /\ step[p] = "have" /\ holds[p] \in inited
    /\ stopping' = stopping \cup {holds[p]}
    /\ step' = [step EXCEPT ![p] = "remove"]
    /\ UNCHANGED <<groups, made, inited, worker, holds>>
\* Stop, its stopOnce: close(ch).  Before init has made ch, close(nil) panics and the process
\* ends with all its goroutines.
Stop(p) ==
    /\ step[p] = "have"
    /\ \/ /\ holds[p] \in inited
          /\ stopping' = stopping \cup {holds[p]}
          /\ step' = [step EXCEPT ![p] = IF holds[p] \in stopping THEN "idle" ELSE "remove"]
          /\ UNCHANGED worker
       \/ /\ holds[p] \notin inited
          /\ step' = [q \in Procs |-> "gone"] /\ worker' = {}
          /\ UNCHANGED stopping
    /\ UNCHANGED <<groups, made, inited, holds>>

\* Stop: groups.GetAndRemove(gc.groupName)
GetAndRemove(p) ==
    /\ step[p] = "remove"
    /\ groups' = None
    /\ step' = [step EXCEPT ![p] = "idle"]
    /\ UNCHANGED <<made, inited, stopping, worker, holds>>

\* work: case <-gc.ch
WorkEnds(g) ==
    /\ g \in worker \cap stopping
    /\ worker' = worker \ {g}
    /\ UNCHANGED <<groups, made, inited, stopping, holds, step>>

Next == \/ \E p \in Procs : GetGroupChecker(p) \/ DoInit(p) \/ Stop(p) \/ GetAndRemove(p)
        \/ \E g \in worker : WorkEnds(g)
-------------------------------------------------------------------------------
\* A goroutine that nobody has stopped belongs to the checker of the map: no Stop, not
\* even a late one by somebody who still holds an older checker, takes a newer checker out
\* of the map and leaves its goroutine running for ever.
NoLostWorker == \A g \in worker \ stopping : groups = g
===============================================================================
