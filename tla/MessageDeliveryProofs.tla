------------------------ MODULE MessageDeliveryProofs ------------------------
(***************************************************************************)
(* The two caches and what the handlers promise through them, for any      *)
(* handlers, messages, windows, capacities and times.                      *)
(*                                                                         *)
(* A cache is a list; the properties are about the entries in it.  The     *)
(* first part shows what each operation does to the set of entries, and    *)
(* that the list stays ordered by time with one entry to a key, which the  *)
(* early return of sweep and the eviction from the front both rely on.     *)
(* The invariant then says which entries must still be there.              *)
(***************************************************************************)
EXTENDS MessageDelivery, WellFoundedInduction, TLAPS

Entries(c) == {c[i] : i \in DOMAIN c}
Item(K)    == [key : K, at : Time]

\* The list is ordered by time, none of which is to come; a key occurs once.
CacheOK(c, K) ==
    /\ c \in Seq(Item(K))
    /\ \A i, j \in DOMAIN c : i < j => c[i].at <= c[j].at
    /\ \A i, j \in DOMAIN c : c[i].key = c[j].key => i = j
    /\ \A i \in DOMAIN c : c[i].at <= now
------------------------------------------------------------------------------
(* What the operations do to the entries.                                  *)

\* A set of natural numbers has a least element, which Min is.
LEMMA Least ==
    ASSUME NEW S \in SUBSET Nat, S # {}
    PROVE  Min(S) \in S /\ \A n \in S : Min(S) <= n
<1> DEFINE R == {p \in Nat \X Nat : p[1] < p[2]}
<1>1. IsWellFoundedOn(R, Nat)
  BY NatLessThanWellFounded DEF OpToRel
<1>2. PICK x \in S : \A y \in S : ~(<<y, x>> \in R)
  <2> HIDE DEF R
  <2> QED
    BY <1>1, WFMin
<1>3. \A y \in S : y < x => <<y, x>> \in R
  OBVIOUS
<1>4. \A y \in S : ~(y < x)
  BY <1>2, <1>3, Zenon
<1>5. \A y \in S : x <= y
  BY <1>4
<1> QED
  BY <1>5 DEF Min

LEMMA KeysOfEntries ==
    ASSUME NEW c
    PROVE  Keys(c) = {e.key : e \in Entries(c)}
BY DEF Keys, Entries

LEMMA KeysType ==
    ASSUME NEW K, NEW c, CacheOK(c, K)
    PROVE  Keys(c) \subseteq K /\ Entries(c) \subseteq Item(K)
<1>1. \A i \in DOMAIN c : c[i] \in Item(K)
  BY DEF CacheOK
<1>2. \A e \in Item(K) : e.key \in K
  BY DEF Item
<1> QED
  BY <1>1, <1>2 DEF Keys, Entries

\* list.Remove takes one entry out and keeps the order of the others.
LEMMA WithoutEffect ==
    ASSUME NEW K, NEW c, CacheOK(c, K), NEW k
    PROVE  /\ CacheOK(Without(c, k), K)
           /\ Entries(Without(c, k)) = {e \in Entries(c) : e.key # k}
           /\ k \notin Keys(Without(c, k))
<1>1. CASE k \notin Keys(c)
  BY <1>1 DEF Without, Keys, Entries
<1>2. CASE k \in Keys(c)
  <2> DEFINE el == CHOOSE i \in DOMAIN c : c[i].key = k
             d  == [i \in 1..(Len(c) - 1) |-> IF i < el THEN c[i] ELSE c[i + 1]]
  <2>1. /\ c \in Seq(Item(K)) /\ Len(c) \in Nat /\ DOMAIN c = 1..Len(c)
        /\ \A i \in DOMAIN c : c[i] \in Item(K)
    BY DEF CacheOK
  <2>2. el \in DOMAIN c /\ c[el].key = k
    BY <1>2 DEF Keys
  <2>3. Without(c, k) = d
    BY <1>2 DEF Without
  <2> HIDE DEF el
  <2>4. \A i \in 1..(Len(c) - 1) :
           /\ i < el => i \in DOMAIN c /\ d[i] = c[i]
           /\ ~(i < el) => i + 1 \in DOMAIN c /\ d[i] = c[i + 1]
    BY <2>1, <2>2
  <2>5. d \in Seq(Item(K)) /\ DOMAIN d = 1..(Len(c) - 1)
    <3>1. Len(c) - 1 \in Nat
      BY <2>1, <2>2
    <3>2. \A i \in 1..(Len(c) - 1) : d[i] \in Item(K)
      BY <2>1, <2>4
    <3> QED
      BY <3>1, <3>2
  <2>6. \A i \in DOMAIN c : i # el => \E j \in DOMAIN d : d[j] = c[i]
    <3> SUFFICES ASSUME NEW i \in DOMAIN c, i # el PROVE \E j \in DOMAIN d : d[j] = c[i]
      OBVIOUS
    <3>1. CASE i < el
      BY <2>1, <2>2, <2>5, <3>1
    <3>2. CASE i > el
      <4>1. i - 1 \in DOMAIN d /\ d[i - 1] = c[i]
        BY <2>1, <2>2, <2>5, <3>2
      <4> QED
        BY <4>1
    <3> QED
      BY <2>1, <2>2, <3>1, <3>2
  <2>7. \A i \in DOMAIN c : c[i].key = k => i = el
    BY <2>2 DEF CacheOK
  <2>8. \A j \in DOMAIN d : \E i \in DOMAIN c : i # el /\ d[j] = c[i]
    BY <2>1, <2>2, <2>4, <2>5
  <2>9. Entries(d) = {e \in Entries(c) : e.key # k}
    BY <2>2, <2>6, <2>7, <2>8 DEF Entries
  <2>10. \A i, j \in DOMAIN d : i < j => d[i].at <= d[j].at
    BY <2>1, <2>2, <2>4, <2>5 DEF CacheOK
  <2>11. \A i, j \in DOMAIN d : d[i].key = d[j].key => i = j
    BY <2>1, <2>2, <2>4, <2>5 DEF CacheOK
  <2>12. \A i \in DOMAIN d : d[i].at <= now
    BY <2>4, <2>5 DEF CacheOK
  <2> HIDE DEF d
  <2>13. CacheOK(d, K)
    BY <2>5, <2>10, <2>11, <2>12 DEF CacheOK
  <2>14. k \notin Keys(d)
    BY <2>9, KeysOfEntries
  <2> QED
    BY <2>3, <2>9, <2>13, <2>14
<1> QED
  BY <1>1, <1>2

\* A new entry goes to the back with the present time.
LEMMA PushBackEffect ==
    ASSUME NEW K, NEW c, CacheOK(c, K), NEW k \in K, k \notin Keys(c), now \in Time
    PROVE  /\ CacheOK(PushBack(c, k), K)
           /\ Entries(PushBack(c, k)) = Entries(c) \cup {[key |-> k, at |-> now]}
<1> DEFINE e == [key |-> k, at |-> now]
           d == PushBack(c, k)
<1>1. /\ c \in Seq(Item(K)) /\ Len(c) \in Nat /\ DOMAIN c = 1..Len(c)
      /\ \A i \in DOMAIN c : c[i] \in Item(K) /\ c[i].key # k
  BY DEF CacheOK, Keys
<1>2. e \in Item(K) /\ e.key = k /\ e.at = now
  BY DEF Item
<1> HIDE DEF e
<1>3. /\ d \in Seq(Item(K)) /\ DOMAIN d = 1..(Len(c) + 1)
      /\ \A i \in DOMAIN c : d[i] = c[i]
      /\ d[Len(c) + 1] = e
  BY <1>1, <1>2 DEF PushBack, e
<1> HIDE DEF d
<1>4. \A i \in DOMAIN d : i \in DOMAIN c \/ i = Len(c) + 1
  BY <1>1, <1>3
<1>5. Entries(d) = Entries(c) \cup {e}
  BY <1>1, <1>3, <1>4 DEF Entries
<1>6. \A i, j \in DOMAIN d : i < j => d[i].at <= d[j].at
  BY <1>1, <1>2, <1>3, <1>4 DEF CacheOK, Time
<1>7. \A i, j \in DOMAIN d : d[i].key = d[j].key => i = j
  BY <1>1, <1>2, <1>3, <1>4 DEF CacheOK
<1>8. \A i \in DOMAIN d : d[i].at <= now
  BY <1>1, <1>2, <1>3, <1>4, DeliveryAssumption DEF CacheOK, Time
<1> QED
  BY <1>3, <1>5, <1>6, <1>7, <1>8 DEF CacheOK, d, e

\* A full cache loses its front entry, and with it that entry's key.
LEMMA BoundedEffect ==
    ASSUME NEW K, NEW c, CacheOK(c, K), NEW cap \in Nat \ {0}
    PROVE  /\ CacheOK(Bounded(c, cap), K)
           /\ Entries(Bounded(c, cap)) \subseteq Entries(c)
           /\ \A e \in Entries(c) : e \in Entries(Bounded(c, cap))
                                      \/ e.key \in Keys(c) \ Keys(Bounded(c, cap))
<1>1. CASE Len(c) > cap
  <2> DEFINE d == Tail(c)
  <2>1. c \in Seq(Item(K)) /\ Len(c) \in Nat /\ DOMAIN c = 1..Len(c) /\ c # <<>>
    BY <1>1 DEF CacheOK
  <2>2. /\ d \in Seq(Item(K)) /\ DOMAIN d = 1..(Len(c) - 1)
        /\ \A i \in DOMAIN d : i + 1 \in DOMAIN c /\ d[i] = c[i + 1]
    BY <1>1, <2>1
  <2>3. Bounded(c, cap) = d
    BY <1>1 DEF Bounded
  <2> HIDE DEF d
  <2>4. CacheOK(d, K)
    <3>1. \A i, j \in DOMAIN d : i < j => d[i].at <= d[j].at
      BY <2>1, <2>2 DEF CacheOK
    <3>2. \A i, j \in DOMAIN d : d[i].key = d[j].key => i = j
      BY <2>1, <2>2 DEF CacheOK
    <3>3. \A i \in DOMAIN d : d[i].at <= now
      BY <2>1, <2>2 DEF CacheOK
    <3> QED
      BY <2>2, <3>1, <3>2, <3>3 DEF CacheOK
  <2>5. \A i \in DOMAIN c : i # 1 => i - 1 \in DOMAIN d /\ d[i - 1] = c[i]
    BY <2>1, <2>2
  <2>6. c[1].key \in Keys(c) \ Keys(d)
    <3>1. 1 \in DOMAIN c
      BY <1>1, <2>1
    <3>2. \A i \in DOMAIN d : d[i].key # c[1].key
      BY <2>1, <2>2, <3>1 DEF CacheOK
    <3> QED
      BY <3>1, <3>2 DEF Keys
  <2>7. Entries(d) \subseteq Entries(c)
    BY <2>2 DEF Entries
  <2>8. \A e \in Entries(c) : e \in Entries(d) \/ e.key \in Keys(c) \ Keys(d)
    <3> SUFFICES ASSUME NEW i \in DOMAIN c
                 PROVE  c[i] \in Entries(d) \/ c[i].key \in Keys(c) \ Keys(d)
      BY DEF Entries
    <3> QED
      BY <2>5, <2>6 DEF Entries
  <2> QED
    BY <2>3, <2>4, <2>7, <2>8
<1>2. CASE ~(Len(c) > cap)
  BY <1>2 DEF Bounded
<1> QED
  BY <1>1, <1>2

\* A sweep removes what has expired, and nothing else.
LEMMA SweptEffect ==
    ASSUME NEW K, NEW c, CacheOK(c, K), NEW ttl \in Nat, now \in Time
    PROVE  /\ CacheOK(Swept(c, ttl), K)
           /\ Entries(Swept(c, ttl)) = {e \in Entries(c) : e.at > now - ttl}
<1> DEFINE young == {i \in DOMAIN c : c[i].at > now - ttl} \cup {Len(c) + 1}
           m == Min(young)
           d == SubSeq(c, m, Len(c))
<1>1. /\ c \in Seq(Item(K)) /\ Len(c) \in Nat /\ DOMAIN c = 1..Len(c)
      /\ \A i \in DOMAIN c : c[i] \in Item(K) /\ c[i].at \in Int
      /\ now - ttl \in Int
  <2>1. c \in Seq(Item(K)) /\ Len(c) \in Nat /\ DOMAIN c = 1..Len(c)
    BY DEF CacheOK
  <2>2. \A i \in DOMAIN c : c[i] \in Item(K) /\ c[i].at \in Int
    <3>1. \A i \in DOMAIN c : c[i] \in Item(K)
      BY <2>1
    <3>2. \A e \in Item(K) : e.at \in Int
      BY DeliveryAssumption DEF Item, Time
    <3> QED
      BY <3>1, <3>2
  <2>3. now - ttl \in Int
    BY DeliveryAssumption DEF Time
  <2> QED
    BY <2>1, <2>2, <2>3
<1>2. young \in SUBSET Nat /\ young # {} /\ young \subseteq 1..(Len(c) + 1)
  BY <1>1
<1>3. m \in young /\ \A n \in young : m <= n
  <2> HIDE DEF young
  <2> QED
    BY <1>2, Least
<1>4. Swept(c, ttl) = d
  BY DEF Swept
<1> HIDE DEF m
<1>5. m \in 1..(Len(c) + 1)
  BY <1>2, <1>3
<1>6. \A i \in DOMAIN c : c[i].at > now - ttl <=> i >= m
  <2> SUFFICES ASSUME NEW i \in DOMAIN c PROVE c[i].at > now - ttl <=> i >= m
    OBVIOUS
  <2>1. c[i].at > now - ttl => i >= m
    BY <1>1, <1>3, <1>5
  <2>2. ASSUME i >= m PROVE c[i].at > now - ttl
    <3>1. m \in DOMAIN c /\ c[m].at > now - ttl
      BY <1>1, <1>3, <1>5, <2>2
    <3>2. c[m].at <= c[i].at
      BY <1>1, <1>5, <2>2, <3>1 DEF CacheOK
    <3> QED
      BY <1>1, <3>1, <3>2
  <2> QED
    BY <2>1, <2>2
<1> HIDE DEF young
<1>7. /\ d \in Seq(Item(K)) /\ DOMAIN d = 1..(Len(c) - m + 1)
      /\ \A i \in DOMAIN d : i + m - 1 \in DOMAIN c /\ d[i] = c[i + m - 1]
  BY <1>1, <1>5
<1>8. \A i \in DOMAIN c : i >= m => i - m + 1 \in DOMAIN d /\ d[i - m + 1] = c[i]
  BY <1>1, <1>5, <1>7
<1> HIDE DEF d
<1>9. \A i \in DOMAIN d : d[i] \in Entries(c) /\ d[i].at > now - ttl
  <2>1. \A i \in DOMAIN d : i + m - 1 >= m
    BY <1>1, <1>5, <1>7
  <2> QED
    BY <1>6, <1>7, <2>1 DEF Entries
<1>10. \A e \in Entries(c) : e.at > now - ttl => e \in Entries(d)
  <2> SUFFICES ASSUME NEW i \in DOMAIN c, c[i].at > now - ttl PROVE c[i] \in Entries(d)
    BY DEF Entries
  <2> QED
    BY <1>6, <1>8 DEF Entries
<1>11. Entries(d) = {e \in Entries(c) : e.at > now - ttl}
  BY <1>9, <1>10 DEF Entries
<1>12. \A i, j \in DOMAIN d : i < j => d[i].at <= d[j].at
  <2> SUFFICES ASSUME NEW i \in DOMAIN d, NEW j \in DOMAIN d, i < j
               PROVE  d[i].at <= d[j].at
    OBVIOUS
  <2>1. i + m - 1 \in DOMAIN c /\ j + m - 1 \in DOMAIN c /\ i + m - 1 < j + m - 1
    BY <1>1, <1>5, <1>7
  <2> QED
    BY <1>7, <2>1 DEF CacheOK
<1>13. \A i, j \in DOMAIN d : d[i].key = d[j].key => i = j
  BY <1>1, <1>5, <1>7 DEF CacheOK
<1>14. \A i \in DOMAIN d : d[i].at <= now
  BY <1>7 DEF CacheOK
<1> QED
  BY <1>4, <1>7, <1>11, <1>12, <1>13, <1>14 DEF CacheOK
------------------------------------------------------------------------------
(* The invariant.                                                          *)

\* A signature let through within the window is in the cache, as of then.
ReplayInv ==
    /\ CacheOK(replay, Sigs)
    /\ \A s \in Sigs : (honouredAt[s] # Never /\ now - honouredAt[s] < Skew) =>
           s \in sigsOut \/ [key |-> s, at |-> honouredAt[s]] \in Entries(replay)

\* So is an acknowledgement stored within the TTL.
DedupInv ==
    /\ CacheOK(dedup, Msgs)
    /\ \A m \in Msgs \ Anonymous : (ackedAt[m] # Never /\ now - ackedAt[m] < DedupTTL) =>
           m \in msgsOut \/ [key |-> m, at |-> ackedAt[m]] \in Entries(dedup)

\* What is acknowledged, remembered or about to be was written.
AckInv ==
    /\ acked \subseteq written
    /\ Keys(dedup) \subseteq written
    /\ \A r \in Requests : req[r].pc = "put" => req[r].sig.msg \in written

Inv == TypeOK /\ ReplayInv /\ DedupInv /\ AckInv

ReqRecord == [pc : {"idle", "seen", "get", "write", "put"}, sig : Sigs]

LEMMA SigType == Idle \in ReqRecord /\ Never \notin Nat /\ Never \in Int
<1>1. NoMsg \in Msgs
  <2>1. \E m \in Msgs : Anonymous = {} \/ m \in Anonymous
    BY DeliveryAssumption
  <2> QED
    BY <2>1 DEF NoMsg
<1>2. 0 \in 0..(MaxTime + Ahead)
  BY DeliveryAssumption
<1> QED
  BY <1>1, <1>2 DEF Idle, ReqRecord, Sigs, Never

LEMMA Clocked ==
    ASSUME TypeOK
    PROVE  /\ now \in Time /\ Time \subseteq Nat
           /\ \A r \in Requests : req[r] \in ReqRecord /\ req[r].sig \in Sigs
                                    /\ req[r].sig.msg \in Msgs
<1>1. now \in Time /\ Time \subseteq Nat
  BY DeliveryAssumption DEF TypeOK, Time
<1>2. \A r \in Requests : req[r] \in ReqRecord
  BY DEF TypeOK, ReqRecord
<1>3. \A q \in ReqRecord : q.sig \in Sigs /\ q.sig.msg \in Msgs
  BY DEF ReqRecord, Sigs
<1> QED
  BY <1>1, <1>2, <1>3

\* The handler moves on or answers.
LEMMA ReqType ==
    ASSUME TypeOK, NEW r \in Requests,
           NEW l \in {"idle", "seen", "get", "write", "put"},
           Goto(r, l) \/ Answered(r)
    PROVE  /\ req' \in [Requests -> ReqRecord]
           /\ \A q \in Requests : q # r => req'[q] = req[q]
           /\ Goto(r, l) => req'[r].pc = l /\ req'[r].sig = req[r].sig
           /\ Answered(r) => req'[r].pc = "idle"
<1>1. req \in [Requests -> ReqRecord]
  BY DEF TypeOK, ReqRecord
<1>2. CASE Goto(r, l)
  <2>1. [req[r] EXCEPT !.pc = l] \in ReqRecord
    BY <1>1 DEF ReqRecord
  <2>2. req' = [req EXCEPT ![r] = [req[r] EXCEPT !.pc = l]]
    BY <1>2 DEF Goto
  <2>3. req' \in [Requests -> ReqRecord] /\ req'[r] = [req[r] EXCEPT !.pc = l]
    BY <1>1, <2>1, <2>2
  <2>4. [req[r] EXCEPT !.pc = l].pc = l /\ [req[r] EXCEPT !.pc = l].sig = req[r].sig
    BY <1>1 DEF ReqRecord
  <2>5. Answered(r) => req'[r].pc = "idle"
    BY <1>1 DEF Answered, Idle
  <2> QED
    BY <1>1, <2>2, <2>3, <2>4, <2>5
<1>3. CASE Answered(r) /\ ~Goto(r, l)
  BY <1>1, <1>3, SigType DEF Answered, Idle
<1> QED
  BY <1>2, <1>3

\* The caches leave alone what a step does not touch.
LEMMA ReplayKept ==
    ASSUME ReplayInv, UNCHANGED <<now, replay, honouredAt, sigsOut>>
    PROVE  ReplayInv'
BY DEF ReplayInv, CacheOK, Entries

LEMMA DedupKept ==
    ASSUME DedupInv, UNCHANGED <<now, dedup, ackedAt, msgsOut>>
    PROVE  DedupInv'
BY DEF DedupInv, CacheOK, Entries

\* A signature that is let through is recorded; who is pushed out is known.
LEMMA SeenStep ==
    ASSUME Inv, NEW r \in Requests, Seen(r)
    PROVE  Inv'
<1> USE DEF Inv
<1> DEFINE s == req[r].sig
           w == Without(replay, s)
           c == PushBack(w, s)
<1>1. s \in Sigs /\ now \in Time /\ Time \subseteq Nat
  BY Clocked
<1>2. req' \in [Requests -> ReqRecord] /\ \A q \in Requests : req'[q].pc = "put" => req'[q] = req[q]
  BY ReqType DEF Seen
<1>3. AckInv'
  BY <1>2 DEF Seen, AckInv
<1>4. DedupInv'
  BY DedupKept DEF Seen
<1>5. CASE Holds(replay, s, Skew)
  <2>1. TypeOK'
    BY <1>2, <1>5 DEF Seen, TypeOK, ReqRecord
  <2>2. ReplayInv'
    BY <1>5, ReplayKept DEF Seen
  <2> QED
    BY <1>3, <1>4, <2>1, <2>2
<1>6. CASE ~Holds(replay, s, Skew)
  <2>1. CacheOK(w, Sigs) /\ Entries(w) = {e \in Entries(replay) : e.key # s} /\ s \notin Keys(w)
    BY WithoutEffect DEF ReplayInv
  <2> HIDE DEF w
  <2>2. CacheOK(c, Sigs) /\ Entries(c) = Entries(w) \cup {[key |-> s, at |-> now]}
    BY <1>1, <2>1, PushBackEffect
  <2>3. /\ replay' = Bounded(c, ReplayCap)
        /\ sigsOut' = (sigsOut \ {s}) \cup (Keys(c) \ Keys(replay'))
        /\ honouredAt' = [honouredAt EXCEPT ![s] = now]
        /\ UNCHANGED <<now, dedup, draining, delivered, written, acked, ackedAt, msgsOut>>
    BY <1>6 DEF Seen, w
  <2> HIDE DEF c
  <2>4. /\ CacheOK(replay', Sigs) /\ Entries(replay') \subseteq Entries(c)
        /\ \A e \in Entries(c) : e \in Entries(replay') \/ e.key \in Keys(c) \ Keys(replay')
    BY <2>2, <2>3, BoundedEffect, DeliveryAssumption
  <2>5. Keys(c) \subseteq Sigs
    BY <2>2, KeysType
  <2>6. TypeOK'
    <3>1. honouredAt' \in [Sigs -> Time \cup {Never}]
      BY <1>1, <2>3 DEF TypeOK
    <3>2. replay' \in Seq([key : Sigs, at : Time])
      BY <2>4 DEF CacheOK, Item
    <3>3. sigsOut' \in SUBSET Sigs
      BY <2>3, <2>5 DEF TypeOK
    <3> QED
      BY <1>2, <2>3, <3>1, <3>2, <3>3 DEF TypeOK, ReqRecord
  <2>7. ReplayInv'
    <3>1. CacheOK(replay, Sigs)'
      BY <2>3, <2>4 DEF CacheOK
    <3>2. ASSUME NEW t \in Sigs, honouredAt'[t] # Never, now' - honouredAt'[t] < Skew,
                 t \notin sigsOut'
          PROVE  [key |-> t, at |-> honouredAt'[t]] \in Entries(replay')
      <4> DEFINE e == [key |-> t, at |-> honouredAt'[t]]
      <4>1. CASE t = s
        <5>1. e = [key |-> s, at |-> now]
          BY <1>1, <2>3, <4>1 DEF TypeOK
        <5> QED
          BY <2>2, <2>3, <2>4, <3>2, <4>1, <5>1
      <4>2. CASE t # s
        <5>1. honouredAt'[t] = honouredAt[t] /\ t \notin sigsOut
          BY <1>1, <2>3, <3>2, <4>2 DEF TypeOK
        <5>2. e \in Entries(replay)
          BY <2>3, <3>2, <5>1 DEF ReplayInv
        <5>3. e \in Entries(c) /\ e.key = t
          BY <2>1, <2>2, <4>2, <5>2
        <5> HIDE DEF e
        <5>4. e \in Entries(replay') \/ t \in Keys(c) \ Keys(replay')
          BY <2>4, <5>3
        <5>5. e \in Entries(replay')
          BY <2>3, <3>2, <5>4
        <5> QED
          BY <5>5 DEF e
      <4> QED
        BY <4>1, <4>2
    <3>3. (Entries(replay))' = Entries(replay')
      BY DEF Entries
    <3> QED
      BY <3>1, <3>2, <3>3 DEF ReplayInv
  <2> QED
    BY <1>3, <1>4, <2>6, <2>7
<1> QED
  BY <1>5, <1>6

\* A stored answer is given, or an expired one removed.
LEMMA GetStep ==
    ASSUME Inv, NEW r \in Requests, Get(r)
    PROVE  Inv'
<1> USE DEF Inv
<1> DEFINE m == req[r].sig.msg
<1>1. m \in Msgs /\ now \in Time /\ Time \subseteq Nat
  BY Clocked
<1>2. req' \in [Requests -> ReqRecord] /\ \A q \in Requests : req'[q].pc = "put" => req'[q] = req[q]
  BY ReqType DEF Get
<1>3. ReplayInv'
  BY ReplayKept DEF Get
<1>4. CASE draining \/ Holds(dedup, m, DedupTTL)
  <2>1. acked' \in {acked, acked \cup {m}} /\ UNCHANGED <<now, dedup, written, ackedAt, msgsOut>>
    BY <1>4 DEF Get
  <2>2. acked' \subseteq written'
    <3>1. CASE draining
      BY <3>1 DEF Get, AckInv
    <3>2. CASE Holds(dedup, m, DedupTTL)
      <4>1. m \in Keys(dedup)
        BY <3>2 DEF Holds, Keys
      <4> QED
        BY <2>1, <4>1 DEF AckInv
    <3> QED
      BY <1>4, <3>1, <3>2
  <2>3. AckInv'
    BY <1>2, <2>1, <2>2 DEF AckInv, Keys
  <2>4. DedupInv'
    BY <2>1, DedupKept
  <2>5. TypeOK'
    BY <1>1, <1>2, <2>1 DEF Get, TypeOK, ReqRecord
  <2> QED
    BY <1>3, <2>3, <2>4, <2>5
<1>5. CASE ~draining /\ ~Holds(dedup, m, DedupTTL)
  <2> DEFINE w == Without(dedup, m)
  <2>1. CacheOK(w, Msgs) /\ Entries(w) = {e \in Entries(dedup) : e.key # m}
    BY WithoutEffect DEF DedupInv
  <2>2. dedup' = w /\ UNCHANGED <<now, acked, written, ackedAt, msgsOut>>
    BY <1>5 DEF Get
  <2> HIDE DEF w
  <2>3. Keys(dedup') \subseteq Keys(dedup)
    BY <2>1, <2>2, KeysOfEntries
  <2>4. AckInv'
    <3>1. (Keys(dedup))' = Keys(dedup')
      BY DEF Keys
    <3> QED
      BY <1>2, <2>2, <2>3, <3>1 DEF AckInv
  <2>5. DedupInv'
    <3>1. CacheOK(dedup, Msgs)' /\ (Entries(dedup))' = Entries(dedup')
      BY <2>1, <2>2 DEF CacheOK, Entries
    <3>2. ASSUME NEW n \in Msgs \ Anonymous, ackedAt[n] # Never, now - ackedAt[n] < DedupTTL,
                 n \notin msgsOut
          PROVE  [key |-> n, at |-> ackedAt[n]] \in Entries(w)
      <4> DEFINE e == [key |-> n, at |-> ackedAt[n]]
      <4>1. e \in Entries(dedup)
        BY <3>2 DEF DedupInv
      <4>2. n # m
        <5> SUFFICES ASSUME n = m PROVE FALSE
          OBVIOUS
        <5>1. PICK i \in DOMAIN dedup : dedup[i] = e
          BY <4>1 DEF Entries
        <5>2. now - e.at <= DedupTTL /\ e.key = m
          <6>1. ackedAt[n] \in Nat
            BY <1>1, <3>2 DEF TypeOK
          <6> QED
            BY <1>1, <3>2, <6>1, DeliveryAssumption
        <5> QED
          BY <1>5, <5>1, <5>2 DEF Holds
      <4>3. e.key = n
        OBVIOUS
      <4> HIDE DEF e
      <4>4. e \in Entries(w)
        BY <2>1, <4>1, <4>2, <4>3
      <4> QED
        BY <4>4 DEF e
    <3> QED
      BY <2>2, <3>1, <3>2 DEF DedupInv
  <2>6. TypeOK'
    <3>1. dedup' \in Seq([key : Msgs, at : Time])
      BY <2>1, <2>2 DEF CacheOK, Item
    <3> QED
      BY <1>2, <1>5, <3>1 DEF Get, TypeOK, ReqRecord
  <2> QED
    BY <1>3, <2>4, <2>5, <2>6
<1> QED
  BY <1>4, <1>5

\* The answer is stored; who is pushed out is known.
LEMMA PutStep ==
    ASSUME Inv, NEW r \in Requests, Put(r)
    PROVE  Inv'
<1> USE DEF Inv
<1> DEFINE m == req[r].sig.msg
           w == Without(dedup, m)
           c == IF m \in Anonymous THEN dedup ELSE PutByKey(dedup, m)
<1>1. m \in Msgs /\ now \in Time /\ Time \subseteq Nat /\ m \in written
  BY Clocked DEF Put, AckInv
<1>2. /\ req' \in [Requests -> ReqRecord]
      /\ \A q \in Requests : req'[q].pc = "put" => req'[q] = req[q]
  BY ReqType DEF Put
<1>3. /\ dedup' = Bounded(c, DedupCap)
      /\ msgsOut' = (msgsOut \ {m}) \cup (Keys(c) \ Keys(dedup'))
      /\ ackedAt' = [ackedAt EXCEPT ![m] = now]
      /\ acked' = acked \cup {m}
      /\ UNCHANGED <<now, replay, draining, delivered, written, honouredAt, sigsOut>>
  BY DEF Put
<1>4. ReplayInv'
  BY <1>3, ReplayKept
<1>5. /\ CacheOK(c, Msgs)
      /\ \A e \in Entries(dedup) : e.key # m => e \in Entries(c)
      /\ m \notin Anonymous => [key |-> m, at |-> now] \in Entries(c)
      /\ Keys(c) \subseteq Keys(dedup) \cup {m}
  <2>1. CASE m \in Anonymous
    BY <2>1 DEF DedupInv
  <2>2. CASE m \notin Anonymous
    <3>1. CacheOK(w, Msgs) /\ Entries(w) = {e \in Entries(dedup) : e.key # m} /\ m \notin Keys(w)
      BY WithoutEffect DEF DedupInv
    <3>2. c = PushBack(w, m)
      BY <2>2 DEF PutByKey
    <3> HIDE DEF w, c
    <3>3. CacheOK(c, Msgs) /\ Entries(c) = Entries(w) \cup {[key |-> m, at |-> now]}
      BY <1>1, <3>1, <3>2, PushBackEffect
    <3>4. Keys(c) \subseteq Keys(dedup) \cup {m}
      BY <3>1, <3>3, KeysOfEntries
    <3> QED
      BY <3>1, <3>3, <3>4
  <2> QED
    BY <2>1, <2>2
<1> HIDE DEF c
<1>6. /\ CacheOK(dedup', Msgs) /\ Entries(dedup') \subseteq Entries(c)
      /\ \A e \in Entries(c) : e \in Entries(dedup') \/ e.key \in Keys(c) \ Keys(dedup')
  BY <1>3, <1>5, BoundedEffect, DeliveryAssumption
<1>7. Keys(dedup') \subseteq Keys(c)
  BY <1>6, KeysOfEntries
<1>8. AckInv'
  <2>1. (Keys(dedup))' = Keys(dedup')
    BY DEF Keys
  <2> QED
    BY <1>1, <1>2, <1>3, <1>5, <1>7, <2>1 DEF AckInv
<1>9. TypeOK'
  <2>1. dedup' \in Seq([key : Msgs, at : Time])
    BY <1>6 DEF CacheOK, Item
  <2>2. msgsOut' \in SUBSET Msgs
    BY <1>3, <1>5, KeysType DEF TypeOK
  <2>3. ackedAt' \in [Msgs -> Time \cup {Never}]
    BY <1>1, <1>3 DEF TypeOK
  <2> QED
    BY <1>1, <1>2, <1>3, <2>1, <2>2, <2>3 DEF TypeOK, ReqRecord
<1>10. DedupInv'
  <2>1. CacheOK(dedup, Msgs)' /\ (Entries(dedup))' = Entries(dedup')
    BY <1>3, <1>6 DEF CacheOK, Entries
  <2>2. ASSUME NEW n \in Msgs \ Anonymous, ackedAt'[n] # Never, now' - ackedAt'[n] < DedupTTL,
               n \notin msgsOut'
        PROVE  [key |-> n, at |-> ackedAt'[n]] \in Entries(dedup')
    <3> DEFINE e == [key |-> n, at |-> ackedAt'[n]]
    <3>1. e \in Entries(c)
      <4>1. CASE n = m
        BY <1>1, <1>3, <1>5, <2>2, <4>1 DEF TypeOK
      <4>2. CASE n # m
        <5>1. ackedAt'[n] = ackedAt[n] /\ n \notin msgsOut
          BY <1>1, <1>3, <2>2, <4>2 DEF TypeOK
        <5>2. e \in Entries(dedup)
          BY <1>3, <2>2, <5>1 DEF DedupInv
        <5> QED
          BY <1>5, <4>2, <5>2
      <4> QED
        BY <4>1, <4>2
    <3>2. e.key = n
      OBVIOUS
    <3> HIDE DEF e
    <3>3. e \in Entries(dedup')
      BY <1>3, <1>6, <2>2, <3>1, <3>2
    <3> QED
      BY <3>3 DEF e
  <2> QED
    BY <2>1, <2>2 DEF DedupInv
<1> QED
  BY <1>4, <1>8, <1>9, <1>10

\* Requests come in, and are written or refused, beside the caches.
LEMMA HandlerStep ==
    ASSUME Inv, NEW r \in Requests,
           Write(r) \/ WriteFails(r) \/ \E s \in Sigs : Deliver(r, s)
    PROVE  Inv'
<1> USE DEF Inv
<1>1. ReplayInv' /\ DedupInv'
  BY ReplayKept, DedupKept DEF Write, WriteFails, Deliver, WriteUnchanged, ghostVars
<1>2. CASE Write(r)
  <2>1. /\ req' \in [Requests -> ReqRecord] /\ \A q \in Requests : q # r => req'[q] = req[q]
        /\ req'[r].sig = req[r].sig /\ req[r].sig.msg \in Msgs
    BY <1>2, ReqType, Clocked DEF Write
  <2>2. /\ written' = written \cup {req[r].sig.msg}
        /\ UNCHANGED <<now, replay, dedup, draining, delivered, acked, ackedAt, honouredAt,
                       sigsOut, msgsOut>>
    BY <1>2 DEF Write, WriteUnchanged
  <2>3. TypeOK'
    BY <2>1, <2>2 DEF TypeOK, ReqRecord
  <2>4. AckInv'
    BY <2>1, <2>2 DEF AckInv, Keys
  <2> QED
    BY <1>1, <2>3, <2>4
<1>3. CASE WriteFails(r)
  <2>1. /\ req' \in [Requests -> ReqRecord]
        /\ \A q \in Requests : req'[q].pc = "put" => req'[q] = req[q]
    BY <1>3, ReqType DEF WriteFails
  <2>2. UNCHANGED <<now, replay, dedup, draining, delivered, ghostVars>>
    BY <1>3 DEF WriteFails, WriteUnchanged, ghostVars
  <2> QED
    BY <1>1, <2>1, <2>2 DEF TypeOK, ReqRecord, AckInv, Keys, ghostVars
<1>4. ASSUME NEW s \in Sigs, Deliver(r, s) PROVE Inv'
  <2>1. [pc |-> "seen", sig |-> s] \in ReqRecord /\ req \in [Requests -> ReqRecord]
    BY DEF TypeOK, ReqRecord
  <2>2. /\ req' \in [Requests -> ReqRecord]
        /\ \A q \in Requests : req'[q].pc = "put" => req'[q] = req[q]
    BY <1>4, <2>1 DEF Deliver
  <2>3. delivered' \in 0..MaxRequests
    BY <1>4, DeliveryAssumption DEF Deliver, TypeOK
  <2>4. UNCHANGED <<now, replay, dedup, draining, ghostVars>>
    BY <1>4 DEF Deliver
  <2>5. TypeOK'
    BY <2>2, <2>3, <2>4 DEF TypeOK, ReqRecord, ghostVars
  <2>6. AckInv'
    BY <2>2, <2>4 DEF AckInv, Keys, ghostVars
  <2> QED
    BY <1>1, <2>5, <2>6
<1> QED
  BY <1>2, <1>3, <1>4

\* The sweepers take only what has expired; the clock only lets things expire.
LEMMA OtherStep ==
    ASSUME Inv, SweepReplay \/ SweepDedup \/ Tick \/ Drain \/ UNCHANGED vars
    PROVE  Inv'
<1> USE DEF Inv
<1>1. now \in Time /\ Time \subseteq Nat /\ Skew \in Nat /\ DedupTTL \in Nat
  BY Clocked, DeliveryAssumption
<1>2. CASE SweepReplay
  <2> DEFINE d == Swept(replay, Skew)
  <2>1. CacheOK(d, Sigs) /\ Entries(d) = {e \in Entries(replay) : e.at > now - Skew}
    BY <1>1, SweptEffect DEF ReplayInv
  <2>2. replay' = d /\ UNCHANGED <<now, dedup, req, draining, delivered, ghostVars>>
    BY <1>2 DEF SweepReplay
  <2> HIDE DEF d
  <2>3. DedupInv' /\ AckInv'
    BY <2>2, DedupKept DEF AckInv, Keys, ghostVars
  <2>4. TypeOK'
    <3>1. replay' \in Seq([key : Sigs, at : Time])
      BY <2>1, <2>2 DEF CacheOK, Item
    <3> QED
      BY <2>2, <3>1 DEF TypeOK, ghostVars
  <2>5. ReplayInv'
    <3>1. CacheOK(replay, Sigs)' /\ (Entries(replay))' = Entries(replay')
      BY <2>1, <2>2 DEF CacheOK, Entries
    <3>2. ASSUME NEW s \in Sigs, honouredAt[s] # Never, now - honouredAt[s] < Skew, s \notin sigsOut
          PROVE  [key |-> s, at |-> honouredAt[s]] \in Entries(d)
      <4>1. honouredAt[s] \in Nat
        BY <1>1, <3>2 DEF TypeOK
      <4>2. [key |-> s, at |-> honouredAt[s]] \in Entries(replay)
        BY <3>2 DEF ReplayInv
      <4>3. honouredAt[s] > now - Skew
        BY <1>1, <3>2, <4>1
      <4> QED
        BY <2>1, <4>2, <4>3
    <3> QED
      BY <2>2, <3>1, <3>2 DEF ReplayInv, ghostVars
  <2> QED
    BY <2>3, <2>4, <2>5
<1>3. CASE SweepDedup
  <2> DEFINE d == Swept(dedup, DedupTTL)
  <2>1. CacheOK(d, Msgs) /\ Entries(d) = {e \in Entries(dedup) : e.at > now - DedupTTL}
    BY <1>1, SweptEffect DEF DedupInv
  <2>2. dedup' = d /\ UNCHANGED <<now, replay, req, draining, delivered, ghostVars>>
    BY <1>3 DEF SweepDedup
  <2> HIDE DEF d
  <2>3. ReplayInv'
    BY <2>2, ReplayKept DEF ghostVars
  <2>4. TypeOK'
    <3>1. dedup' \in Seq([key : Msgs, at : Time])
      BY <2>1, <2>2 DEF CacheOK, Item
    <3> QED
      BY <2>2, <3>1 DEF TypeOK, ghostVars
  <2>5. AckInv'
    <3>1. Keys(d) \subseteq Keys(dedup)
      BY <2>1, KeysOfEntries
    <3>2. (Keys(dedup))' = Keys(d)
      BY <2>2 DEF Keys
    <3> QED
      BY <2>2, <3>1, <3>2 DEF AckInv, ghostVars
  <2>6. DedupInv'
    <3>1. CacheOK(dedup, Msgs)' /\ (Entries(dedup))' = Entries(dedup')
      BY <2>1, <2>2 DEF CacheOK, Entries
    <3>2. ASSUME NEW m \in Msgs \ Anonymous, ackedAt[m] # Never, now - ackedAt[m] < DedupTTL,
                 m \notin msgsOut
          PROVE  [key |-> m, at |-> ackedAt[m]] \in Entries(d)
      <4>1. ackedAt[m] \in Nat
        BY <1>1, <3>2 DEF TypeOK
      <4>2. [key |-> m, at |-> ackedAt[m]] \in Entries(dedup)
        BY <3>2 DEF DedupInv
      <4>3. ackedAt[m] > now - DedupTTL
        BY <1>1, <3>2, <4>1
      <4> QED
        BY <2>1, <4>2, <4>3
    <3> QED
      BY <2>2, <3>1, <3>2 DEF DedupInv, ghostVars
  <2> QED
    BY <2>3, <2>4, <2>5, <2>6
<1>4. CASE Tick
  <2>1. now' = now + 1 /\ now' \in Time /\ UNCHANGED <<replay, dedup, req, draining, delivered, ghostVars>>
    BY <1>1, <1>4, DeliveryAssumption DEF Tick, Time
  <2>2. TypeOK' /\ AckInv'
    BY <2>1 DEF TypeOK, AckInv, Keys, ghostVars
  <2>3. ASSUME NEW K, NEW c, CacheOK(c, K) PROVE \A i \in DOMAIN c : c[i].at <= now'
    <3>1. \A i \in DOMAIN c : c[i] \in Entries(c) /\ c[i].at <= now
      BY <2>3 DEF CacheOK, Entries
    <3>2. \A e \in Item(K) : e.at \in Nat
      BY <1>1 DEF Item
    <3> QED
      BY <1>1, <2>1, <2>3, <3>1, <3>2, KeysType
  <2>4. CacheOK(replay, Sigs)' /\ CacheOK(dedup, Msgs)'
    BY <2>1, <2>3 DEF ReplayInv, DedupInv, CacheOK
  <2>5. \A s \in Sigs : (honouredAt[s] # Never /\ now' - honouredAt[s] < Skew)
                            => now - honouredAt[s] < Skew
    <3> SUFFICES ASSUME NEW s \in Sigs, honouredAt[s] # Never, now' - honouredAt[s] < Skew
                 PROVE  now - honouredAt[s] < Skew
      OBVIOUS
    <3>1. honouredAt[s] \in Nat
      BY <1>1 DEF TypeOK
    <3> QED
      BY <1>1, <2>1, <3>1
  <2>6. \A m \in Msgs : (ackedAt[m] # Never /\ now' - ackedAt[m] < DedupTTL)
                            => now - ackedAt[m] < DedupTTL
    <3> SUFFICES ASSUME NEW m \in Msgs, ackedAt[m] # Never, now' - ackedAt[m] < DedupTTL
                 PROVE  now - ackedAt[m] < DedupTTL
      OBVIOUS
    <3>1. ackedAt[m] \in Nat
      BY <1>1 DEF TypeOK
    <3> QED
      BY <1>1, <2>1, <3>1
  <2>7. ReplayInv' /\ DedupInv'
    BY <2>1, <2>4, <2>5, <2>6 DEF ReplayInv, DedupInv, Entries, ghostVars
  <2> QED
    BY <2>2, <2>7
<1>5. CASE Drain \/ UNCHANGED vars
  <2>1. UNCHANGED <<now, replay, dedup, req, delivered, ghostVars>>
    BY <1>5 DEF Drain, vars
  <2>2. ReplayInv' /\ DedupInv'
    BY <2>1, ReplayKept, DedupKept DEF ghostVars
  <2>3. draining' \in BOOLEAN
    BY <1>5, Zenon DEF Drain, vars, TypeOK
  <2> QED
    BY <2>1, <2>2, <2>3 DEF TypeOK, AckInv, Keys, ghostVars
<1> QED
  BY <1>2, <1>3, <1>4, <1>5

LEMMA InitInv == Init => Inv
<1> SUFFICES ASSUME Init PROVE Inv
  OBVIOUS
<1>1. TypeOK
  <2>1. 0 \in Time /\ 0 \in 0..MaxRequests
    BY DeliveryAssumption DEF Time
  <2>2. Idle \in [pc : {"idle", "seen", "get", "write", "put"}, sig : Sigs]
    BY SigType DEF ReqRecord
  <2>3. draining \in BOOLEAN
    BY Zenon DEF Init
  <2>4. replay \in Seq([key : Sigs, at : Time]) /\ dedup \in Seq([key : Msgs, at : Time])
    BY DEF Init
  <2>5. req \in [Requests -> [pc : {"idle", "seen", "get", "write", "put"}, sig : Sigs]]
    BY <2>2 DEF Init
  <2>6. ackedAt \in [Msgs -> Time \cup {Never}] /\ honouredAt \in [Sigs -> Time \cup {Never}]
    BY DEF Init
  <2> QED
    BY <2>1, <2>3, <2>4, <2>5, <2>6 DEF Init, TypeOK
<1>2. \A K : CacheOK(<<>>, K)
  BY DEF CacheOK
<1>3. Keys(<<>>) = {}
  BY DEF Keys
<1> QED
  BY <1>1, <1>2, <1>3, SigType DEF Init, Inv, ReplayInv, DedupInv, AckInv, Idle

LEMMA StepInv == Inv /\ [Next]_vars => Inv'
BY SeenStep, GetStep, PutStep, HandlerStep, OtherStep DEF Next

\* The caches hold what the handlers rely on, in the order the sweeps rely on.
THEOREM Invariance == Spec => []Inv
BY InitInv, StepInv, PTL DEF Spec

\* A message that was answered with 202, by the handler or out of the dedup
\* cache, was written to stdin.
THEOREM AcksAreTrue == Spec => []AckedWasWritten
<1>1. Inv => AckedWasWritten
  BY DEF Inv, AckInv, AckedWasWritten
<1> QED
  BY <1>1, Invariance, PTL

\* The early return of both sweeps leaves no expired entry behind.
THEOREM SweepsAreComplete == Spec => []SweepIsComplete
<1>1. ASSUME NEW K, NEW c, CacheOK(c, K), NEW ttl \in Nat, now \in Time
      PROVE  \A i \in DOMAIN Swept(c, ttl) : Swept(c, ttl)[i].at > now - ttl
  <2>1. Entries(Swept(c, ttl)) = {e \in Entries(c) : e.at > now - ttl}
    BY <1>1, SweptEffect
  <2>2. \A i \in DOMAIN Swept(c, ttl) : Swept(c, ttl)[i] \in Entries(Swept(c, ttl))
    BY DEF Entries
  <2> QED
    BY <2>1, <2>2
<1>2. ASSUME Inv PROVE SweepIsComplete
  <2>1. now \in Time /\ Skew \in Nat /\ DedupTTL \in Nat
    BY <1>2, Clocked, DeliveryAssumption DEF Inv
  <2> QED
    BY <1>1, <1>2, <2>1 DEF Inv, ReplayInv, DedupInv, SweepIsComplete
<1> QED
  BY <1>2, Invariance, PTL

\* No timestamp was further ahead when hmacAuth took it than the verifier
\* allows, whatever the clock has done since.
StampInv ==
    /\ \A r \in Requests : req[r].pc = "seen" => req[r].sig.ts - now <= Ahead
    /\ \A s \in Sigs : honouredAt[s] # Never => s.ts - honouredAt[s] <= Ahead

LEMMA StampStep == Inv /\ StampInv /\ [Next]_vars => StampInv'
<1> SUFFICES ASSUME Inv, StampInv, [Next]_vars PROVE StampInv'
  OBVIOUS
<1>1. /\ req \in [Requests -> ReqRecord] /\ now \in Nat /\ Ahead \in Nat
      /\ \A r \in Requests : req[r].sig \in Sigs
      /\ \A s \in Sigs : s.ts \in Int
      /\ honouredAt \in [Sigs -> Time \cup {Never}] /\ Time \subseteq Nat
  BY Clocked, DeliveryAssumption DEF Inv, TypeOK, ReqRecord, Sigs
<1>2. ASSUME NEW r \in Requests, NEW s \in Sigs, Deliver(r, s) PROVE StampInv'
  <2>1. /\ now' = now /\ honouredAt' = honouredAt /\ s.ts - now <= Ahead
        /\ req' = [req EXCEPT ![r] = [pc |-> "seen", sig |-> s]]
    BY <1>2 DEF Deliver, ghostVars, InWindow
  <2>2. \A q \in Requests : req'[q].pc = "seen" => req'[q].sig.ts - now <= Ahead
    BY <1>1, <2>1 DEF StampInv
  <2> QED
    BY <2>1, <2>2 DEF StampInv
<1>3. ASSUME NEW r \in Requests, Seen(r) PROVE StampInv'
  <2> DEFINE s == req[r].sig
  <2>1. s \in Sigs /\ s.ts - now <= Ahead /\ now' = now
    BY <1>1, <1>3 DEF Seen, StampInv
  <2>2. honouredAt' = honouredAt \/ honouredAt' = [honouredAt EXCEPT ![s] = now]
    BY <1>3 DEF Seen
  <2>3. \A t \in Sigs : honouredAt'[t] = honouredAt[t] \/ (t = s /\ honouredAt'[t] = now)
    BY <1>1, <2>2
  <2>4. \A q \in Requests : req'[q].pc = "seen" => req'[q] = req[q]
    BY <1>3, ReqType DEF Seen, Inv
  <2> HIDE DEF s
  <2>5. \A t \in Sigs : honouredAt'[t] # Never => t.ts - honouredAt'[t] <= Ahead
    BY <2>1, <2>3 DEF StampInv
  <2> QED
    BY <2>1, <2>4, <2>5 DEF StampInv
<1>4. ASSUME NEW r \in Requests, Get(r) \/ WriteFails(r) \/ Write(r) \/ Put(r) PROVE StampInv'
  <2>1. now' = now /\ honouredAt' = honouredAt
    BY <1>4 DEF Get, WriteFails, Write, Put, WriteUnchanged
  <2>2. Goto(r, "write") \/ Goto(r, "put") \/ Answered(r)
    BY <1>4 DEF Get, WriteFails, Write, Put
  <2>3. \A q \in Requests : req'[q].pc = "seen" => req'[q] = req[q]
    BY <2>2, ReqType DEF Inv
  <2> QED
    BY <2>1, <2>3 DEF StampInv
<1>5. CASE SweepReplay \/ SweepDedup \/ Tick \/ Drain \/ UNCHANGED vars
  <2>1. req' = req /\ honouredAt' = honouredAt /\ (now' = now \/ now' = now + 1)
    BY <1>5 DEF SweepReplay, SweepDedup, Tick, Drain, vars, ghostVars
  <2>2. \A q \in Requests : req[q].pc = "seen" => req[q].sig.ts - now' <= Ahead
    <3> SUFFICES ASSUME NEW q \in Requests, req[q].pc = "seen" PROVE req[q].sig.ts - now' <= Ahead
      OBVIOUS
    <3>1. PICK t \in Int : t = req[q].sig.ts
      BY <1>1
    <3>2. t - now <= Ahead
      BY <3>1 DEF StampInv
    <3> QED
      BY <1>1, <2>1, <3>1, <3>2
  <2> QED
    BY <2>1, <2>2 DEF StampInv
<1> QED
  BY <1>2, <1>3, <1>4, <1>5 DEF Next

LEMMA StampInvariance == Spec => []StampInv
<1>1. Init => StampInv
  BY DEF Init, StampInv, Idle
<1> QED
  BY <1>1, StampStep, Invariance, PTL DEF Spec

\* hmacAuth lets a signature through again only when the skew has passed since
\* the first time, in the last Ahead of its window, or when a full cache has
\* pushed it out.
THEOREM SignaturesPassOnce == Spec => HonouredOnce
<1> DEFINE Once(r) == LET s == req[r].sig
                      IN  (Honoured(r) /\ Repeated(s)) =>
                             now - honouredAt[s] >= Skew /\ now - s.ts >= Skew - Ahead
<1>1. ASSUME Inv, StampInv, [Next]_vars, NEW r \in Requests PROVE Once(r)
  <2> DEFINE s == req[r].sig
  <2> SUFFICES ASSUME req[r].pc = "seen", req'[r].pc = "get", s \notin sigsOut,
                      honouredAt[s] # Never
               PROVE  now - honouredAt[s] >= Skew /\ now - s.ts >= Skew - Ahead
    BY DEF Honoured, Repeated
  <2>1. /\ s \in Sigs /\ s.ts \in Int /\ honouredAt[s] \in Nat
        /\ now \in Nat /\ Skew \in Nat /\ Ahead \in Nat
    <3>1. s \in Sigs /\ now \in Nat /\ Skew \in Nat /\ Ahead \in Nat
      BY <1>1, Clocked, DeliveryAssumption DEF Inv
    <3>2. s.ts \in Int
      BY <3>1, DeliveryAssumption DEF Sigs
    <3> QED
      BY <1>1, <3>1, <3>2, Clocked DEF Inv, TypeOK
  <2>2. Seen(r)
    <3>1. req \in [Requests -> ReqRecord]
      BY <1>1 DEF Inv, TypeOK, ReqRecord
    <3>2. \A q \in Requests : q # r /\ (Seen(q) \/ Get(q) \/ WriteFails(q) \/ Write(q) \/ Put(q))
             => req'[r] = req[r]
      BY <3>1 DEF Seen, Get, WriteFails, Write, Put, Goto, Answered
    <3>3. \A q \in Requests, t \in Sigs : Deliver(q, t) => req'[r].pc # "get"
      BY <3>1 DEF Deliver
    <3>4. Get(r) \/ WriteFails(r) \/ Write(r) \/ Put(r) => FALSE
      BY DEF Get, WriteFails, Write, Put
    <3>5. SweepReplay \/ SweepDedup \/ Tick \/ Drain \/ UNCHANGED vars => req' = req
      BY DEF SweepReplay, SweepDedup, Tick, Drain, vars
    <3> QED
      BY <1>1, <3>2, <3>3, <3>4, <3>5 DEF Next
  <2>3. ~Holds(replay, s, Skew)
    <3>1. Answered(r) => req'[r].pc = "idle"
      BY <1>1, ReqType DEF Inv
    <3> QED
      BY <2>2, <3>1 DEF Seen
  <2>4. now - honouredAt[s] >= Skew
    <3> SUFFICES ASSUME now - honouredAt[s] < Skew PROVE FALSE
      BY <2>1
    <3>1. PICK i \in DOMAIN replay : replay[i] = [key |-> s, at |-> honouredAt[s]]
      BY <1>1, <2>1 DEF Inv, ReplayInv, Entries
    <3>2. replay[i].key = s /\ replay[i].at = honouredAt[s]
      BY <3>1
    <3>3. now - replay[i].at <= Skew
      BY <2>1, <3>2
    <3> QED
      BY <2>3, <3>2, <3>3 DEF Holds
  <2>5. s.ts - honouredAt[s] <= Ahead
    BY <1>1, <2>1 DEF StampInv
  <2> HIDE DEF s
  <2> QED
    BY <2>1, <2>4, <2>5
<1>2. Inv /\ StampInv /\ [Next]_vars => [\A r \in Requests : Once(r)]_vars
  BY <1>1
<1> QED
  BY <1>2, Invariance, StampInvariance, PTL DEF Spec, HonouredOnce

\* handleMessage does not write a message again whose answer it stored within
\* the TTL, unless a full cache has pushed the answer out.
THEOREM RetriesAreNotWritten == Spec => RetryIsNotWritten
<1> DEFINE Once(r) == LET m == req[r].sig.msg
                      IN  (req[r].pc = "get" /\ req'[r].pc = "write") =>
                             \/ m \in Anonymous \cup msgsOut
                             \/ ackedAt[m] = Never
                             \/ now - ackedAt[m] >= DedupTTL
<1>1. ASSUME Inv, [Next]_vars, NEW r \in Requests PROVE Once(r)
  <2> DEFINE m == req[r].sig.msg
  <2>1. m \in Msgs /\ now \in Nat /\ DedupTTL \in Nat
    BY <1>1, Clocked, DeliveryAssumption DEF Inv
  <2>2. ackedAt[m] # Never => ackedAt[m] \in Nat
    BY <1>1, <2>1, Clocked DEF Inv, TypeOK
  <2> SUFFICES ASSUME req[r].pc = "get", req'[r].pc = "write", m \notin Anonymous,
                      m \notin msgsOut, ackedAt[m] # Never, now - ackedAt[m] < DedupTTL
               PROVE  FALSE
    BY <2>1, <2>2
  <2>3. Get(r)
    <3>1. req \in [Requests -> ReqRecord]
      BY <1>1 DEF Inv, TypeOK, ReqRecord
    <3>2. \A q \in Requests : q # r /\ (Seen(q) \/ Get(q) \/ WriteFails(q) \/ Write(q) \/ Put(q))
             => req'[r] = req[r]
      BY <3>1 DEF Seen, Get, WriteFails, Write, Put, Goto, Answered
    <3>3. \A q \in Requests, t \in Sigs : Deliver(q, t) => req'[r].pc # "write"
      BY <3>1 DEF Deliver
    <3>4. Seen(r) \/ WriteFails(r) \/ Write(r) \/ Put(r) => FALSE
      BY DEF Seen, WriteFails, Write, Put
    <3>5. SweepReplay \/ SweepDedup \/ Tick \/ Drain \/ UNCHANGED vars => req' = req
      BY DEF SweepReplay, SweepDedup, Tick, Drain, vars
    <3> QED
      BY <1>1, <3>2, <3>3, <3>4, <3>5 DEF Next
  <2>4. ~Holds(dedup, m, DedupTTL)
    <3>1. Answered(r) => req'[r].pc = "idle"
      BY <1>1, ReqType DEF Inv
    <3> QED
      BY <2>3, <3>1 DEF Get
  <2>5. PICK i \in DOMAIN dedup : dedup[i] = [key |-> m, at |-> ackedAt[m]]
    BY <1>1, <2>1 DEF Inv, DedupInv, Entries
  <2>6. dedup[i].key = m /\ dedup[i].at = ackedAt[m]
    BY <2>5
  <2>7. now - dedup[i].at <= DedupTTL
    BY <2>1, <2>2, <2>6
  <2> QED
    BY <2>4, <2>6, <2>7 DEF Holds
<1>2. Inv /\ [Next]_vars => [\A r \in Requests : Once(r)]_vars
  BY <1>1
<1> QED
  BY <1>2, Invariance, PTL DEF Spec, RetryIsNotWritten
==============================================================================
