------------------------------ MODULE EtcdSource ------------------------------
(***************************************************************************)
(* The locks and goroutines of EtcdSource (pkg/config/etcd_source.go) and   *)
(* its refresher (refresher.go): the periodic refresh, UpdateOptions, which *)
(* replaces the refresher, and Close.  What is refreshed and which events   *)
(* it fires is ConfigManager's matter.                                      *)
(***************************************************************************)
EXTENDS Integers

CONSTANT MaxFetches     \* bound on the ticks that are served

VARIABLES
    lock,      \* of the source: free, or held by UpdateOptions
    current,   \* es.configRefresher: 1, or 2 once UpdateOptions has replaced it
    rpc,       \* of each refresher: none, wait, prefix, get, store, stop, self, ended
    intervalDone,   \* of each refresher: closed
    stopOnce,       \* of each refresher: new, running, done
    upc,       \* UpdateOptions: idle, stop, wait, returned
    cpc,       \* Close: idle, stop, wait, returned
    closing,   \* the refresher that Close has read
    fetches,
    failed     \* history: a fetch has failed
vars == <<lock, current, rpc, intervalDone, stopOnce, upc, cpc, closing, fetches, failed>>

Refreshers == 1..2
Init ==
    /\ lock = "free" /\ current = 1
    /\ rpc = [r \in Refreshers |-> "none"]
    /\ intervalDone = [r \in Refreshers |-> FALSE] /\ stopOnce = [r \in Refreshers |-> "new"]
    /\ upc = "idle" /\ cpc = "idle" /\ closing = 1 /\ fetches = 0
    /\ failed = FALSE

At(r, from, to) == rpc[r] = from /\ rpc' = [rpc EXCEPT ![r] = to]
others == <<lock, current, upc, cpc, closing>>
-------------------------------------------------------------------------------
\* The first fetch has succeeded: start(), with an interval above zero.
GetConfigurations ==
    /\ upc = "idle" /\ cpc = "idle" /\ At(1, "none", "wait")
    /\ UNCHANGED <<others, intervalDone, stopOnce, fetches, failed>>

\* refreshPeriodically: select picks either case when both are ready.
Tick(r) ==
    /\ fetches < MaxFetches /\ fetches' = fetches + 1 /\ At(r, "wait", "prefix")
    /\ UNCHANGED <<others, intervalDone, stopOnce, failed>>

EndIgnored(r) == FALSE /\ UNCHANGED vars                              \* mutant
End(r) ==
    /\ intervalDone[r] /\ At(r, "wait", "ended")
    /\ UNCHANGED <<others, intervalDone, stopOnce, fetches, failed>>

\* refreshConfigurations: the read lock for the prefix, the question to etcd without a
\* lock, the lock for the events and the new configuration.
ReadPrefix(r) ==
    /\ lock = "free" /\ At(r, "prefix", "get")
    /\ UNCHANGED <<others, intervalDone, stopOnce, fetches, failed>>

Get(r) ==
    /\ \/ At(r, "get", "store") /\ UNCHANGED failed
       \/ At(r, "get", "stop") /\ failed' = TRUE
    /\ UNCHANGED <<others, intervalDone, stopOnce, fetches>>

Store(r) ==
    /\ lock = "free" /\ At(r, "store", "wait")
    /\ UNCHANGED <<others, intervalDone, stopOnce, fetches, failed>>

\* After an error the goroutine stops its own refresher: it waits for itself, or for
\* whoever is stopping it and waits for it.
StopSelf(r) ==
    /\ At(r, "stop", "self")
    /\ IF stopOnce[r] = "new"
       THEN /\ stopOnce' = [stopOnce EXCEPT ![r] = "running"]
            /\ intervalDone' = [intervalDone EXCEPT ![r] = TRUE]
       ELSE UNCHANGED <<stopOnce, intervalDone>>
    /\ UNCHANGED <<others, fetches, failed>>
-------------------------------------------------------------------------------
\* refresher.stop: the first caller closes intervalDone and waits for the goroutine, the
\* others wait for the first.
stopFirst(r) ==
    /\ stopOnce[r] = "new"
    /\ stopOnce' = [stopOnce EXCEPT ![r] = "running"]
    /\ intervalDone' = [intervalDone EXCEPT ![r] = TRUE]
stopOver(r) == stopOnce[r] = "done"
neverWaits(r) == TRUE                                                  \* mutant
waited(r) == rpc[r] \in {"none", "ended"}

\* UpdateOptions takes the lock and keeps it to its end.
UpdateOptions ==
    /\ upc = "idle" /\ lock = "free"
    /\ \/ upc' = "stop" /\ lock' = "UpdateOptions"     \* another interval
       \/ upc' = "returned" /\ UNCHANGED lock
    /\ UNCHANGED <<current, rpc, intervalDone, stopOnce, cpc, closing, fetches, failed>>

UpdateStop ==
    /\ upc = "stop" /\ stopFirst(current) /\ upc' = "wait"
    /\ UNCHANGED <<lock, current, rpc, cpc, closing, fetches, failed>>

\* The new refresher, with the handler of the old one; start() ignores an interval of zero.
UpdateReplace ==
    /\ \/ upc = "wait" /\ waited(current) /\ stopOnce' = [stopOnce EXCEPT ![current] = "done"]
       \/ upc = "stop" /\ stopOver(current) /\ UNCHANGED stopOnce
    /\ current' = 2 /\ (At(2, "none", "wait") \/ UNCHANGED rpc)
    /\ upc' = "returned" /\ lock' = "free"
    /\ UNCHANGED <<intervalDone, cpc, closing, fetches, failed>>

\* Close takes no lock; it stops the refresher that it finds.
Close ==
    /\ cpc = "idle" /\ cpc' = "stop" /\ closing' = current
    /\ UNCHANGED <<lock, current, rpc, intervalDone, stopOnce, upc, fetches, failed>>

CloseStop ==
    /\ cpc = "stop" /\ stopFirst(closing) /\ cpc' = "wait"
    /\ UNCHANGED <<lock, current, rpc, upc, closing, fetches, failed>>

CloseReturn ==
    /\ \/ cpc = "wait" /\ waited(closing) /\ stopOnce' = [stopOnce EXCEPT ![closing] = "done"]
       \/ cpc = "stop" /\ stopOver(closing) /\ UNCHANGED stopOnce
    /\ cpc' = "returned"
    /\ UNCHANGED <<lock, current, rpc, intervalDone, upc, closing, fetches, failed>>

Refresh(r) == Tick(r) \/ End(r) \/ ReadPrefix(r) \/ Get(r) \/ Store(r) \/ StopSelf(r)
Updating == UpdateStop \/ UpdateReplace
Closing == CloseStop \/ CloseReturn
Next == \/ GetConfigurations \/ UpdateOptions \/ Updating \/ Close \/ Closing
        \/ \E r \in Refreshers : Refresh(r)
-------------------------------------------------------------------------------
\* Once Close has returned the refresher it found fires no more events.
QuietAfterClose == cpc = "returned" => rpc[closing] \in {"none", "ended"}

\* UpdateOptions, holding the lock, is to wait for a fetch that needs the lock.
caught == lock = "UpdateOptions" /\ rpc[current] \in {"prefix", "get", "store"}

\* UpdateOptions and Close return, unless a fetch has failed, after which the refresher
\* waits for itself, or a fetch begins before UpdateOptions has stopped the refresher.
CallsReturn ==
    /\ upc # "idle" ~> upc = "returned" \/ failed \/ caught
    /\ cpc # "idle" ~> cpc = "returned" \/ failed \/ caught
===============================================================================
