------------------------- MODULE CardRunsRefinement -------------------------
(***************************************************************************)
(* CardRuns implements RunLifecycle.  A run is admitted from its entry in  *)
(* the registry on; it works until its own call of tracker.Remove, or, when *)
(* it panicked, for as long as its recovery still finds its entry.         *)
(* ContextMatrix has heard of it once a terminal status was reported, by   *)
(* its goroutine, its panic recovery or the shutdown sequence.             *)
(***************************************************************************)
EXTENDS CardRuns

Admitted == {r \in Runs : pc[r] \notin {"idle", "admit"}}
Working  == {r \in Runs : \/ pc[r] \in Owning
                          \/ pc[r] \in Recover /\ entries[card[r]].owner = r}
Holder   == [c \in Cards |-> entries[c].owner]
Heard    == {r \in Runs : Terminals(r) # {}}
Lost     == {r \in Runs : pc[r] = "dead"}

Lifecycle == INSTANCE RunLifecycle WITH
    admitted <- Admitted, working <- Working, holder <- Holder,
    heard <- Heard, lost <- Lost

\* Whatever /kill, /stop-all, the watchdog and the sweep do, a slot is taken
\* within the limit, belongs to one run and is given back by that run only, and
\* no run that was not accepted, or that died with the process, is reported.
ImplementsLifecycle == Lifecycle!Spec

\* The same, and every accepted run is reported and gives its slot back, also
\* when it panics or Docker fails, unless the process ends first.
KeepsPromise == Lifecycle!Promise
==============================================================================
