------------------------------- MODULE Tracker -------------------------------
(***************************************************************************)
(* internal/tracker: the registry of work in flight.  A key names a card   *)
(* (project/card_id) or a chat session; an owner is one launch of a        *)
(* container under that key.  Every method holds tracker.mu for its map    *)
(* access, so each operator below is one atomic step of its caller.        *)
(*                                                                         *)
(* The entry's CancelFunc is invoked after tracker.mu is released.  Only   *)
(* the owner's own context is captured, and Remove cancels the context of  *)
(* whatever it deletes, so the gap between the two changes nothing a       *)
(* caller can see: lookup and cancel are one step here.                    *)
(*                                                                         *)
(* The attached stdin of an entry has its own lock and its own module,     *)
(* Stdin.                                                                  *)
(***************************************************************************)
EXTENDS Naturals, FiniteSets

CONSTANTS
    Keys,          \* registry keys
    Owners,        \* launches; an owner is also the name of its container
    None,          \* the empty string / a missing map entry
    Operator,      \* whoever cancels from outside a launch: a webhook, shutdown
    MaxConcurrent  \* max_concurrent of the configuration

ASSUME TrackerAssumption ==
    /\ None \notin Owners
    /\ Operator \notin Owners
    /\ IsFiniteSet(Keys)
    /\ MaxConcurrent \in Nat \ {0}

VARIABLES
    entries,  \* the map; a key that is absent maps to NoEntry
    ctx       \* the context of an owner, and whether the first to cancel it
              \* was entitled to ("canceled") or another owner ("hijacked")

trackerVars == <<entries, ctx>>

Reasons == {"none", "idle"}
Entry   == [owner : Owners \cup {None}, cid : Owners \cup {None}, reason : Reasons]
NoEntry == [owner |-> None, cid |-> None, reason |-> "none"]

TrackerTypeOK ==
    /\ entries \in [Keys -> Entry]
    /\ ctx \in [Owners -> {"live", "canceled", "hijacked"}]

TrackerInit ==
    /\ entries = [k \in Keys |-> NoEntry]
    /\ ctx = [o \in Owners |-> "live"]
------------------------------------------------------------------------------
Has(k)       == entries[k].owner # None
AllSnapshots == {k \in Keys : Has(k)}
Count        == Cardinality(AllSnapshots)
Done(o)      == ctx[o] # "live"
Reason(k)    == entries[k].reason

\* The CancelFunc stored in k's entry, called by an owner or the operator.
CancelCtx(k, by) ==
    ctx' = [ctx EXCEPT ![entries[k].owner] =
               IF @ # "live" THEN @
               ELSE IF by \in {Operator, entries[k].owner} THEN "canceled" ELSE "hijacked"]

\* Mutant: an off-by-one limit.
LimitReachedOffByOne == Count > MaxConcurrent

\* AddIfUnderLimit refuses on the limit first, then on a duplicate key.
LimitReached  == Count >= MaxConcurrent
AddRefused(k) == LimitReached \/ Has(k)
AddIfUnderLimit(k, o) ==
    /\ ~AddRefused(k)
    /\ entries' = [entries EXCEPT ![k] = [NoEntry EXCEPT !.owner = o]]
    /\ UNCHANGED ctx

\* A chat is registered with its container, which already runs.
AddChatIfUnderLimit(k, o) ==
    /\ ~AddRefused(k)
    /\ entries' = [entries EXCEPT ![k] = [NoEntry EXCEPT !.owner = o, !.cid = o]]
    /\ UNCHANGED ctx

UpdateContainerID(k, o) ==
    /\ entries' = IF Has(k) THEN [entries EXCEPT ![k].cid = o] ELSE entries
    /\ UNCHANGED ctx

Cancel(k, by) ==
    /\ CancelCtx(k, by)
    /\ UNCHANGED entries

CancelWithReason(k, reason, by) ==
    /\ entries' = [entries EXCEPT ![k].reason = reason]
    /\ CancelCtx(k, by)

\* Remove deletes the entry and cancels the context of the launch it held;
\* a missing key is a no-op.
Remove(k, by) ==
    IF Has(k)
    THEN /\ entries' = [entries EXCEPT ![k] = NoEntry]
         /\ CancelCtx(k, by)
    ELSE UNCHANGED trackerVars
==============================================================================
