--------------------------- MODULE TokenRefresher ---------------------------
(***************************************************************************)
(* internal/container/secrets_refresher.go: the shared secrets file that   *)
(* every worker container has bind-mounted, and the loop that rewrites it  *)
(* before the GitHub token in it expires.  The provider is one that mints  *)
(* a new token on every call: a personal access token, which never expires *)
(* and whose file doOneRefresh finds unchanged, is left out.               *)
(*                                                                         *)
(* Durations are counted in steps of the clock: left is what the file's    *)
(* token still has to live, ref.wait what the loop still sleeps.  health   *)
(* is the token provider's and the disk's: after an outage it does not     *)
(* fail again until a refresh has succeeded ("recovered").                 *)
(***************************************************************************)
EXTENDS Naturals

CONSTANTS
    Lifetime,        \* of a new token
    ShortLife,       \* of a token whose expiry is already within the buffer
    Buffer,          \* tokenExpiryBuffer
    MaxBackoff,
    ClampThreshold, ClampCeiling,
    MaxStreak,       \* bound: where the clamp streak, a mere counter, saturates
    MaxOutage        \* bound: how long the provider and the disk fail

ASSUME RefresherAssumption ==
    /\ Lifetime \in Nat /\ Buffer \in Nat /\ Buffer < Lifetime
    /\ ClampCeiling \in Nat \ {0} /\ ShortLife \in (ClampCeiling + 1)..Buffer
    /\ MaxBackoff \in Nat \ {0}
    /\ ClampThreshold \in Nat /\ MaxStreak \in Nat
    /\ MaxOutage \in Nat /\ MaxOutage + MaxBackoff < Buffer

\* True of every MaxStreak; what the provers need to know of exponentiation.
ASSUME PowersAssumption == \A k \in 0..MaxStreak : 2^k \in Nat \ {0}

VARIABLES
    ref,      \* the refresher: main at boot, its own goroutine later
    file,     \* shared/env, as a container and a host crash see it
    tmp,      \* shared/env.tmp
    life,     \* the lifetime of the token in the file
    left,     \* what it still has to live
    health, downFor

hostVars == <<file, tmp, life, left>>
refresherVars == <<ref, hostVars, health, downFor>>

Writing == {"open", "write", "sync", "rename"}
Working == {"mint"} \cup Writing
RefOff  == [pc |-> "off", minted |-> 0, wait |-> 0, backoff |-> 1, streak |-> 0]
RefMint == [RefOff EXCEPT !.pc = "mint"]

RefresherTypeOK ==
    /\ ref \in [pc : Working \cup {"off", "sleep", "stopped", "panicked"},
                minted : {0, Lifetime, ShortLife}, wait : 0..Lifetime,
                backoff : 1..MaxBackoff, streak : 0..MaxStreak]
    /\ file \in {"none", "whole", "unsynced", "torn"}
    /\ tmp \in {"none", "empty", "unsynced", "synced"}
    /\ life \in {0, Lifetime, ShortLife} /\ left \in 0..life
    /\ health \in {"up", "down", "recovered"}
    /\ downFor \in 0..MaxOutage

\* The state of the host before the first boot.
RefresherInit ==
    /\ ref = RefOff
    /\ file = "none" /\ tmp = "none" /\ life = 0 /\ left = 0
    /\ health = "up" /\ downFor = 0
------------------------------------------------------------------------------
(* Durations.                                                              *)

Capped(d, limit) == IF d > limit THEN limit ELSE d

\* Mutant: the shift is not capped.
ClampBackoffUncapped(streak) ==
    IF streak <= ClampThreshold THEN 1 ELSE 2^(streak - ClampThreshold - 1)

NextBackoff(d) == Capped(2 * d, MaxBackoff)
Clamped(expires) == expires < Buffer + 1
NextWake(expires) == IF Clamped(expires) THEN 1 ELSE expires - Buffer
ClampBackoff(streak) ==
    IF streak <= ClampThreshold THEN 1 ELSE Capped(2^(streak - ClampThreshold - 1), ClampCeiling)
------------------------------------------------------------------------------
(* doOneRefresh.                                                           *)

\* Run goes to sleep after a success, with the minted token's expiry.
Schedule(expires) ==
    LET streak == IF Clamped(expires) THEN Capped(ref.streak + 1, MaxStreak) ELSE 0
    IN  ref' = [pc |-> "sleep", minted |-> 0, backoff |-> 1, streak |-> streak,
                wait |-> IF streak > ClampThreshold THEN ClampBackoff(streak)
                         ELSE NextWake(expires)]

\* Run goes to sleep after an error.
Postpone == ref' = [ref EXCEPT !.pc = "sleep", !.minted = 0, !.wait = ref.backoff,
                               !.backoff = NextBackoff(ref.backoff)]

Goto(l) == ref' = [ref EXCEPT !.pc = l]

\* A new token is minted and rendered.
MintFresh ==
    /\ ref.pc = "mint" /\ health # "down"
    /\ \E l \in {Lifetime, ShortLife} : ref' = [ref EXCEPT !.pc = "open", !.minted = l]
    /\ UNCHANGED <<hostVars, health, downFor>>

\* An error, a token with bytes that are not allowed, or a done context.
MintFails(ctxDone) ==
    /\ ref.pc = "mint" /\ (health = "down" \/ ctxDone)
    /\ Postpone
    /\ UNCHANGED <<hostVars, health, downFor>>

\* Mutant: the fsync is left out.
SyncSkipped ==
    /\ ref.pc = "sync"
    /\ Goto("rename")
    /\ UNCHANGED <<hostVars, health, downFor>>

\* writeSecretsFileAtomic, one system call at a time.
Open ==
    /\ ref.pc = "open"
    /\ tmp' = "empty"
    /\ Goto("write")
    /\ UNCHANGED <<file, life, left, health, downFor>>

Write ==
    /\ ref.pc = "write"
    /\ tmp' = "unsynced"
    /\ Goto("sync")
    /\ UNCHANGED <<file, life, left, health, downFor>>

Sync ==
    /\ ref.pc = "sync"
    /\ tmp' = "synced"
    /\ Goto("rename")
    /\ UNCHANGED <<file, life, left, health, downFor>>

Rename ==
    /\ ref.pc = "rename"
    /\ file' = IF tmp = "synced" THEN "whole" ELSE "unsynced"
    /\ tmp' = "none"
    /\ life' = ref.minted /\ left' = ref.minted
    /\ health' = (IF health = "recovered" THEN "up" ELSE health)
    /\ downFor' = IF health = "down" THEN downFor ELSE 0

\* A system call fails: the temporary file is removed.
WriteFails ==
    /\ ref.pc \in Writing /\ health = "down"
    /\ tmp' = IF ref.pc = "open" THEN tmp ELSE "none"
    /\ Postpone
    /\ UNCHANGED <<file, life, left, health, downFor>>
------------------------------------------------------------------------------
(* Run.                                                                    *)

Refreshed == Rename /\ Schedule(ref.minted)

Wake ==
    /\ ref.pc = "sleep" /\ ref.wait = 0
    /\ Goto("mint")
    /\ UNCHANGED <<hostVars, health, downFor>>

\* Mutant: the sleep does not select on the context.
SleepUninterrupted(ctxDone) == FALSE

SleepCanceled(ctxDone) ==
    /\ ref.pc = "sleep" /\ ctxDone
    /\ Goto("stopped")
    /\ UNCHANGED <<hostVars, health, downFor>>

\* Run recovers, logs and returns; nothing starts it again.
RefresherPanics ==
    /\ ref.pc \in Working
    /\ Goto("panicked")
    /\ UNCHANGED <<hostVars, health, downFor>>

RefresherStep(ctxDone) ==
    \/ MintFresh \/ MintFails(ctxDone)
    \/ Open \/ Write \/ Sync \/ Refreshed \/ WriteFails
    \/ Wake \/ SleepCanceled(ctxDone)
------------------------------------------------------------------------------
(* The provider, the disk and the clock.                                   *)

GoDown ==
    /\ health = "up"
    /\ health' = "down"
    /\ UNCHANGED <<ref, hostVars, downFor>>

Recovers ==
    /\ health = "down"
    /\ health' = "recovered"
    /\ UNCHANGED <<ref, hostVars, downFor>>

\* Minting, writing and waking up are not delayed; a sleep that starts with
\* the context done is over at once.
Tick(ctxDone) ==
    /\ ref.pc \notin Working
    /\ ref.pc = "sleep" => ref.wait > 0 /\ ~ctxDone
    /\ health = "down" => downFor < MaxOutage
    /\ left' = IF left > 0 THEN left - 1 ELSE 0
    /\ ref' = [ref EXCEPT !.wait = IF @ > 0 THEN @ - 1 ELSE 0]
    /\ downFor' = IF health = "down" THEN downFor + 1 ELSE downFor
    /\ UNCHANGED <<file, tmp, life, health>>
==============================================================================
