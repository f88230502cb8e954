--------------------------------- MODULE Retry ---------------------------------
(***************************************************************************)
(* pkg/util/retry: Do and Handle run a function until it succeeds, gives up *)
(* for good, or the attempts, the deadline or the context end, and sleep    *)
(* longer and longer in between.  Durations are in units of 200 ms.         *)
(***************************************************************************)
EXTENDS Integers, Sequences

CONSTANTS
    OptionLists,    \* the options of a call: sequences of [opt, n]
    Deadlines       \* the time a context has left (NoDeadline: all of it)

NoDeadline == -1

VARIABLES
    fnName,         \* "Do" or "Handle"
    pc,             \* idle, options, run, failed, sleep, returned
    c,              \* the config
    opts,           \* the options yet to be applied to it
    tries,          \* calls of fn so far; i is one less while fn runs
    outcome,        \* what the last call of fn returned
    lastErr,        \* Handle: the error of the last call that was to be retried
    left, ctxDone,  \* of the context
    timerLate,      \* the context was done before the timer was started
    lateCalls,      \* history: calls of fn begun after the context was done
    result

vars == <<fnName, pc, c, opts, tries, outcome, lastErr, left, ctxDone, timerLate, lateCalls,
          result>>

\* What fn returns: nil, an error to retry (one of them from a context), and errors
\* after which there is no retry: marked Unrecoverable, refused by isRetryErr or
\* returned with shouldRetry = false (one of these again from a context).
Retried == {"err", "ctx"}
Final   == {"unrecoverable", "refused", "ctxFinal"}
isCtx(e) == e \in {"ctx", "ctxFinal"}

newDefaultConfig == [attempts |-> 10, sleep |-> 1, maxSleepTime |-> 15]

\* An option applied to a config.
applyPlain(cfg, o) ==                                              \* mutant
    CASE o.opt = "Attempts" -> [cfg EXCEPT !.attempts = o.n]
      [] o.opt = "Sleep" -> [cfg EXCEPT !.sleep = o.n]
      [] o.opt = "MaxSleepTime" ->
            [cfg EXCEPT !.maxSleepTime = IF 2 * cfg.sleep > o.n THEN 2 * cfg.sleep ELSE o.n]
apply(cfg, o) ==
    CASE o.opt = "Attempts" -> [cfg EXCEPT !.attempts = o.n]
      [] o.opt = "Sleep" ->
            [cfg EXCEPT !.sleep = o.n,
                        !.maxSleepTime = IF 2 * o.n > @ THEN 2 * o.n ELSE @]
      [] o.opt = "MaxSleepTime" ->
            [cfg EXCEPT !.maxSleepTime = IF 2 * cfg.sleep > o.n THEN 2 * cfg.sleep ELSE o.n]

Init ==
    /\ fnName = "Do" /\ pc = "idle" /\ c = newDefaultConfig /\ opts = <<>>
    /\ tries = 0 /\ outcome = "none" /\ lastErr = "nil"
    /\ left = NoDeadline /\ ctxDone = FALSE /\ timerLate = FALSE
    /\ lateCalls = 0 /\ result = "none"

\* The caller.  A context that is done is refused at once.
Call ==
    /\ pc = "idle"
    /\ fnName' \in {"Do", "Handle"}
    /\ opts' \in OptionLists
    /\ left' \in Deadlines
    /\ ctxDone' = (left' = 0)
    /\ IF ctxDone' THEN pc' = "returned" /\ result' = "ctxErr"
       ELSE pc' = "options" /\ UNCHANGED result
    /\ UNCHANGED <<c, tries, outcome, lastErr, timerLate, lateCalls>>

\* opt(c) for each of the options, then the loop, unless no attempt is allowed.
Option ==
    /\ pc = "options" /\ opts # <<>>
    /\ c' = apply(c, Head(opts)) /\ opts' = Tail(opts)
    /\ UNCHANGED <<fnName, pc, tries, outcome, lastErr, left, ctxDone, timerLate, lateCalls,
                   result>>

Begin ==
    /\ pc = "options" /\ opts = <<>>
    /\ IF c.attempts = 0 THEN pc' = "returned" /\ result' = "nil"
       ELSE pc' = "run" /\ UNCHANGED result
    /\ UNCHANGED <<fnName, c, opts, tries, outcome, lastErr, left, ctxDone, timerLate, lateCalls>>

\* The caller's context is cancelled.
Cancel ==
    /\ pc \in {"run", "sleep"} /\ ~ctxDone
    /\ ctxDone' = TRUE
    /\ UNCHANGED <<fnName, pc, c, opts, tries, outcome, lastErr, left, timerLate, lateCalls,
                   result>>

\* Time passes while the context has a deadline.
Elapse(d) ==
    /\ left' = IF left = NoDeadline THEN left ELSE IF d > left THEN 0 ELSE left - d
    /\ ctxDone' = (ctxDone \/ left' = 0)

Return(r) == pc' = "returned" /\ result' = r

\* fn runs, for a moment or longer, and returns.
Fn ==
    /\ pc = "run"
    /\ tries' = tries + 1
    /\ lateCalls' = IF ctxDone THEN lateCalls + 1 ELSE lateCalls
    /\ \E d \in {0, 2} : Elapse(d)
    /\ outcome' \in {"ok"} \cup Retried \cup Final
    /\ IF outcome' = "ok" THEN Return("nil") ELSE pc' = "failed" /\ UNCHANGED result
    /\ UNCHANGED <<fnName, c, opts, lastErr, timerLate>>

\* i < c.attempts
again == tries < c.attempts

\* time.Until(deadline) < c.sleep
tooLate == left # NoDeadline /\ left < c.sleep

\* What Handle returns instead of err.
notCtx(err) == IF isCtx(err) /\ lastErr # "nil" THEN lastErr ELSE err

\* fn failed: return, or start to sleep.
Failed ==
    /\ pc = "failed"
    /\ IF outcome \in Final \/ tooLate
       THEN /\ Return(IF fnName = "Handle" THEN notCtx(outcome)
                      ELSE IF outcome = "refused" THEN outcome ELSE "el")
            /\ UNCHANGED <<lastErr, timerLate>>
       ELSE /\ lastErr' = outcome /\ timerLate' = ctxDone
            /\ pc' = "sleep" /\ UNCHANGED result
    /\ UNCHANGED <<fnName, c, opts, tries, outcome, left, ctxDone, lateCalls>>

\* Do returns the combined error el, Handle the last one.
lastResult == IF fnName = "Handle" THEN lastErr ELSE "el"

\* case <-time.After(c.sleep): the sleep doubles, the loop goes round.  When the
\* context ends while the timer runs out, select may take either.
WakeDeaf ==                                                        \* mutant
    /\ pc = "sleep"
    /\ Elapse(c.sleep)
    /\ c' = [c EXCEPT !.sleep = IF 2 * @ > c.maxSleepTime THEN c.maxSleepTime ELSE 2 * @]
    /\ IF again THEN pc' = "run" /\ UNCHANGED result ELSE Return(lastResult)
    /\ UNCHANGED <<fnName, opts, tries, outcome, lastErr, timerLate, lateCalls>>
Wake ==
    /\ pc = "sleep" /\ (timerLate => c.sleep = 0)
    /\ Elapse(c.sleep)
    /\ c' = [c EXCEPT !.sleep = IF 2 * @ > c.maxSleepTime THEN c.maxSleepTime ELSE 2 * @]
    /\ IF again THEN pc' = "run" /\ UNCHANGED result ELSE Return(lastResult)
    /\ UNCHANGED <<fnName, opts, tries, outcome, lastErr, timerLate, lateCalls>>

\* case <-ctx.Done()
Interrupted ==
    /\ pc = "sleep" /\ ctxDone
    /\ Return(lastResult)
    /\ UNCHANGED <<fnName, c, opts, tries, outcome, lastErr, left, ctxDone, timerLate, lateCalls>>

Next == Call \/ Option \/ Begin \/ Cancel \/ Fn \/ Failed \/ Wake \/ Interrupted
-------------------------------------------------------------------------------
\* fn is called at most attempts times; the sleep stays below maxSleepTime, which no
\* order of the options makes smaller than the first sleep doubled; and nil is returned
\* exactly when the last call succeeded - or no attempt was allowed.
Bounded ==
    /\ tries <= c.attempts /\ c.sleep <= c.maxSleepTime
    /\ (tries = 0 => 2 * c.sleep <= c.maxSleepTime)
    /\ pc = "returned" => (result = "nil" <=> outcome = "ok" \/ (c.attempts = 0 /\ left # 0))

\* Once its context is done, fn is called at most once more (the timer and the context
\* ending together) - unless the caller asked for no sleep at all.
CancelStops == lateCalls <= 1 \/ c.sleep = 0
===============================================================================
