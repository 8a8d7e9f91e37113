---------------------------- MODULE TrackerProofs ----------------------------
(***************************************************************************)
(* What each method of the registry does to its map, in the form the       *)
(* proofs about its callers use.                                           *)
(***************************************************************************)
EXTENDS Tracker, FiniteSetTheorems, TLAPS

\* A step touches no entry but k's.
OthersKept(k) == \A j \in Keys : j # k => entries'[j] = entries[j]

\* The CancelFunc leaves every context in one of its three states.
LEMMA CancelCtxType ==
    ASSUME TrackerTypeOK, NEW k \in Keys, NEW by, CancelCtx(k, by)
    PROVE  ctx' \in [Owners -> {"live", "canceled", "hijacked"}]
BY DEF TrackerTypeOK, CancelCtx

\* AddIfUnderLimit takes a free key for its caller and nothing else.
LEMMA AddEffect ==
    ASSUME TrackerTypeOK, NEW k \in Keys, NEW o \in Owners, AddIfUnderLimit(k, o)
    PROVE  /\ TrackerTypeOK'
           /\ OthersKept(k)
           /\ entries[k].owner = None
           /\ entries'[k].owner = o /\ entries'[k].cid = None
           /\ ctx' = ctx
BY DEF TrackerTypeOK, AddIfUnderLimit, AddRefused, Has, OthersKept, Entry, NoEntry, Reasons

\* AddChatIfUnderLimit the same, with the container that already runs.
LEMMA AddChatEffect ==
    ASSUME TrackerTypeOK, NEW k \in Keys, NEW o \in Owners, AddChatIfUnderLimit(k, o)
    PROVE  /\ TrackerTypeOK'
           /\ OthersKept(k)
           /\ entries[k].owner = None
           /\ entries'[k].owner = o /\ entries'[k].cid = o
           /\ ctx' = ctx
BY DEF TrackerTypeOK, AddChatIfUnderLimit, AddRefused, Has, OthersKept, Entry, NoEntry, Reasons

\* UpdateContainerID never creates an entry nor changes whose it is.
LEMMA UpdateEffect ==
    ASSUME TrackerTypeOK, NEW k \in Keys, NEW o \in Owners, UpdateContainerID(k, o)
    PROVE  /\ TrackerTypeOK'
           /\ OthersKept(k)
           /\ entries'[k].owner = entries[k].owner
           /\ entries'[k].cid \in {entries[k].cid, o}
           /\ ctx' = ctx
BY DEF TrackerTypeOK, UpdateContainerID, Has, OthersKept, Entry

\* Cancel leaves the map alone: the owner removes its entry itself.
LEMMA CancelEffect ==
    ASSUME TrackerTypeOK, NEW k \in Keys, NEW by, Cancel(k, by)
    PROVE  TrackerTypeOK' /\ entries' = entries
BY CancelCtxType DEF TrackerTypeOK, Cancel

\* CancelWithReason changes the reason of an entry only.
LEMMA CancelWithReasonEffect ==
    ASSUME TrackerTypeOK, NEW k \in Keys, NEW reason \in Reasons, NEW by,
           CancelWithReason(k, reason, by)
    PROVE  /\ TrackerTypeOK'
           /\ OthersKept(k)
           /\ entries'[k].owner = entries[k].owner
           /\ entries'[k].cid = entries[k].cid
BY CancelCtxType DEF TrackerTypeOK, CancelWithReason, OthersKept, Entry

\* Remove clears one key, whoever holds it.
LEMMA RemoveEffect ==
    ASSUME TrackerTypeOK, NEW k \in Keys, NEW by, Remove(k, by)
    PROVE  /\ TrackerTypeOK'
           /\ OthersKept(k)
           /\ entries'[k].owner = None
           /\ entries'[k].cid \in {entries[k].cid, None}
BY CancelCtxType DEF TrackerTypeOK, Remove, OthersKept, Entry, NoEntry, Reasons, Has,
   trackerVars
==============================================================================
