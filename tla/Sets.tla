--------------------------------- MODULE Sets ---------------------------------
(***************************************************************************)
(* pkg/util/typeutil/set.go.  The operations of Set are functions.  Those of *)
(* ConcurrentSet go through a sync.Map one element at a time, so that the    *)
(* steps of several calls interleave.                                        *)
(***************************************************************************)
EXTENDS Integers, Sequences

Seqs == INSTANCE SequencesExt

CONSTANTS
    Elements,
    Procs,
    ArgLists,   \* the elements given to a call
    MaxCalls    \* bound on the calls

VARIABLES
    inner,   \* what the sync.Map holds
    call,    \* the last call of each process, see NoCall
    calls
vars == <<inner, call, calls>>

\* name, args; at: the next element to go through; unvisited, met: what Collect has yet to
\* look at and what it has found; ok: the answer; and as history the set before and after
\* the call, the elements that were in it at some and at every moment of the call, and
\* whether no other call changed it meanwhile.
NoCall == [name |-> "none", args |-> <<>>, at |-> 1, unvisited |-> {}, met |-> {}, done |-> TRUE,
           ok |-> TRUE, before |-> {}, after |-> {}, sometime |-> {}, always |-> {}, alone |-> TRUE]

Init == inner = {} /\ call = [p \in Procs |-> NoCall] /\ calls = 0
-------------------------------------------------------------------------------
(* Set *)

Insert(set, elements)  == set \cup Seqs!ToSet(elements)
Remove(set, elements)  == set \ Seqs!ToSet(elements)
Contain(set, elements) == \A i \in DOMAIN elements : elements[i] \in set
-------------------------------------------------------------------------------
(* ConcurrentSet *)

Begin(p, name, elements) ==
    /\ call[p].done /\ calls < MaxCalls /\ calls' = calls + 1
    /\ call' = [call EXCEPT ![p] =
                   [NoCall EXCEPT !.name = name, !.args = elements, !.unvisited = Elements,
                                  !.done = FALSE, !.before = inner, !.sometime = inner,
                                  !.always = inner]]
    /\ UNCHANGED inner

\* Process p goes on to its call c and the map to s; all calls under way see the change.
Step(p, c, s) ==
    /\ inner' = s
    /\ call' = [q \in Procs |->
                  LET d == IF q = p THEN c ELSE call[q]
                  IN IF call[q].done THEN d
                     ELSE [d EXCEPT !.sometime = @ \cup s, !.always = @ \cap s,
                                    !.alone = @ /\ (q = p \/ s = inner)]]
    /\ UNCHANGED calls

is(p, name) == ~call[p].done /\ call[p].name = name
over(p) == call[p].at > Len(call[p].args)
item(p) == call[p].args[call[p].at]
further(p) == [call[p] EXCEPT !.at = @ + 1]
returns(p, ok, s) == [call[p] EXCEPT !.done = TRUE, !.ok = ok, !.after = s]

Upsert(p) ==
    /\ is(p, "Upsert")
    /\ IF over(p) THEN Step(p, returns(p, TRUE, inner), inner)
       ELSE Step(p, further(p), inner \cup {item(p)})

RemoveEach(p) ==
    /\ is(p, "Remove")
    /\ IF over(p) THEN Step(p, returns(p, TRUE, inner), inner)
       ELSE Step(p, further(p), inner \ {item(p)})

ContainAny(p) ==                                                       \* mutant
    /\ is(p, "Contain")
    /\ IF over(p) \/ item(p) \in inner
       THEN Step(p, returns(p, ~over(p), inner), inner)
       ELSE Step(p, further(p), inner)
\* Up to the first element that is missing.
ContainEach(p) ==
    /\ is(p, "Contain")
    /\ IF over(p) \/ item(p) \notin inner
       THEN Step(p, returns(p, over(p), inner), inner)
       ELSE Step(p, further(p), inner)

\* One LoadOrStore, one LoadAndDelete.
InsertOne(p) ==
    /\ is(p, "Insert")
    /\ LET s == inner \cup {item(p)} IN Step(p, returns(p, item(p) \notin inner, s), s)

TryRemove(p) ==
    /\ is(p, "TryRemove")
    /\ LET s == inner \ {item(p)} IN Step(p, returns(p, item(p) \in inner, s), s)

\* Collect and Range: sync.Map visits its keys one by one, in any order, each at most once.
CollectEach(p) ==
    /\ is(p, "Collect")
    /\ IF call[p].unvisited = {} THEN Step(p, returns(p, TRUE, inner), inner)
       ELSE \E e \in call[p].unvisited :
                Step(p, [call[p] EXCEPT !.unvisited = @ \ {e}, !.met = @ \cup ({e} \cap inner)],
                     inner)

Call(p) ==
    \/ \E elements \in ArgLists, name \in {"Upsert", "Remove", "Contain"} :
            Begin(p, name, elements)
    \/ \E e \in Elements, name \in {"Insert", "TryRemove"} : Begin(p, name, <<e>>)
    \/ Begin(p, "Collect", <<>>)

Next == \E p \in Procs : \/ Call(p) \/ Upsert(p) \/ RemoveEach(p) \/ ContainEach(p)
                         \/ InsertOne(p) \/ TryRemove(p) \/ CollectEach(p)
-------------------------------------------------------------------------------
\* What a Set would have done with the same call.
expected(c) ==
    CASE c.name \in {"Upsert", "Insert"}    -> Insert(c.before, c.args)
      [] c.name \in {"Remove", "TryRemove"} -> Remove(c.before, c.args)
      [] OTHER                              -> c.before

\* A call that nobody disturbed did what the same call of Set does.  A disturbed one still
\* answers from moments of its own time: Contain says yes only if each element was there
\* at some moment, although perhaps never all at once, and no only if one was missing at
\* some moment; Collect returns everything that was there all the time, and nothing that
\* never was.
Explained ==
    \A p \in Procs : LET c == call[p] IN c.done =>
        /\ c.alone => /\ c.after = expected(c)
                      /\ c.name = "Contain" => c.ok = Contain(c.before, c.args)
                      /\ c.name = "Insert" => c.ok = ~Contain(c.before, c.args)
                      /\ c.name = "TryRemove" => c.ok = Contain(c.before, c.args)
                      /\ c.name = "Collect" => c.met = c.before
        /\ c.name = "Contain" =>
               IF c.ok THEN Seqs!ToSet(c.args) \subseteq c.sometime
               ELSE ~(Seqs!ToSet(c.args) \subseteq c.always)
        /\ c.name = "Collect" => c.always \subseteq c.met /\ c.met \subseteq c.sometime
===============================================================================
