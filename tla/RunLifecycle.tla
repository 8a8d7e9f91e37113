---------------------------- MODULE RunLifecycle ----------------------------
(***************************************************************************)
(* What the runner promises ContextMatrix about a trigger it answered with *)
(* 202: the card's slot is that run's alone until the run gives it back    *)
(* itself, a terminal status is reported, and both happen unless the       *)
(* process ends first.  Containers, Docker, the watchdog, the webhooks and *)
(* the order of reporting and releasing are CardRuns' business.            *)
(***************************************************************************)
EXTENDS Naturals, FiniteSets

CONSTANTS Runs, Cards, None, MaxConcurrent

VARIABLES
    admitted,  \* runs whose trigger was accepted
    working,   \* runs that have yet to give their slot back
    holder,    \* the run that holds a card's slot
    heard,     \* runs ContextMatrix has a terminal status of
    lost       \* runs the process took with it

vars == <<admitted, working, holder, heard, lost>>

Init ==
    /\ admitted = {} /\ working = {} /\ heard = {} /\ lost = {}
    /\ holder = [c \in Cards |-> None]

Active == admitted \ lost
Taken  == {c \in Cards : holder[c] # None}
Settled(r) == r \in heard /\ r \notin working

Admit(r, c) ==
    /\ r \notin admitted
    /\ holder[c] = None /\ Cardinality(Taken) < MaxConcurrent
    /\ admitted' = admitted \cup {r}
    /\ working' = working \cup {r}
    /\ holder' = [holder EXCEPT ![c] = r]
    /\ UNCHANGED <<heard, lost>>

Tell(r) ==
    /\ r \in Active
    /\ heard' = heard \cup {r}
    /\ UNCHANGED <<admitted, working, holder, lost>>

Release(r, c) ==
    /\ r \in working /\ holder[c] = r
    /\ working' = working \ {r}
    /\ holder' = [holder EXCEPT ![c] = None]
    /\ UNCHANGED <<admitted, heard, lost>>

\* No slot survives the process.  A run that has settled may still be at its
\* container.
ProcessEnds ==
    /\ \E gone \in SUBSET Active :
           /\ {r \in Active : ~Settled(r)} \subseteq gone
           /\ lost' = lost \cup gone
    /\ working' = {}
    /\ holder' = [c \in Cards |-> None]
    /\ UNCHANGED <<admitted, heard>>

Next ==
    \/ \E r \in Runs : Tell(r) \/ \E c \in Cards : Admit(r, c) \/ Release(r, c)
    \/ ProcessEnds

Spec == Init /\ [][Next]_vars

EverySettles ==
    \A r \in Runs : r \in admitted ~> (Settled(r) \/ r \in lost)

Promise == Spec /\ EverySettles
==============================================================================
