------------------------ MODULE InstanceCacheProofs ------------------------
(***************************************************************************)
(* Proofs about InstanceCache, for any number of lookups, writers, changes *)
(* and timers.                                                             *)
(***************************************************************************)
EXTENDS InstanceCache, TLAPS

LEMMA InitTyped == Init => TypeOK /\ EntryWillExpire
  BY CacheAssumption DEF Init, TypeOK, EntryWillExpire, None

Lookup == [at : {"idle", "load", "list", "get", "store", "arm"}, got : 0..MaxVersion]

\* A lookup that has not listed yet, or has ended, carries nothing that is needed.
LEMMA MovedTyped ==
  ASSUME TypeOK, NEW r \in Readers, NEW l \in {"idle", "list", "get"},
         reader' = [reader EXCEPT ![r].at = l]
  PROVE  /\ reader' \in [Readers -> Lookup]
         /\ \A q \in Readers : reader'[q].at \in {"store", "arm"} => reader'[q].got # None
  <1>1. reader \in [Readers -> Lookup]
    BY DEF TypeOK, Lookup
  <1>2. reader' = [reader EXCEPT ![r] = [reader[r] EXCEPT !.at = l]]
    BY <1>1
  <1>3. [reader[r] EXCEPT !.at = l] \in Lookup /\ [reader[r] EXCEPT !.at = l].at = l
    BY <1>1 DEF Lookup
  <1>4. QED
    BY <1>1, <1>2, <1>3 DEF TypeOK

LEMMA ReturnTyped ==
  ASSUME TypeOK, NEW r \in Readers, NEW v \in 0..MaxVersion, Return(r, v)
  PROVE  /\ reader' \in [Readers -> Lookup]
         /\ \A q \in Readers : reader'[q].at \in {"store", "arm"} => reader'[q].got # None
         /\ answer' \in [Readers -> 0..MaxVersion]
  BY MovedTyped DEF Return, TypeOK

LEMMA NextTyped == TypeOK /\ [Next]_vars => TypeOK'
  <1> SUFFICES ASSUME TypeOK, [Next]_vars PROVE TypeOK'
    OBVIOUS
  <1> USE CacheAssumption DEF TypeOK, None
  <1>1. ASSUME NEW r \in Readers, Begin(r) PROVE TypeOK'
    BY <1>1 DEF Begin
  <1>2. ASSUME NEW r \in Readers, Load(r) PROVE TypeOK'
    <2>1. CASE Return(r, entry)
      BY <1>2, <2>1, ReturnTyped DEF Load, Lookup
    <2>2. CASE reader' = [reader EXCEPT ![r].at = "list"] /\ UNCHANGED answer
      BY <1>2, <2>2, MovedTyped DEF Load, Lookup
    <2>3. QED
      BY <1>2, <2>1, <2>2 DEF Load
  <1>3. ASSUME NEW r \in Readers, Scan(r) \/ Get(r) PROVE TypeOK'
    <2>1. CASE Scan(r)
      <3>1. CASE reader' = [reader EXCEPT ![r].at = "get"] /\ UNCHANGED answer
        BY <2>1, <3>1, MovedTyped DEF Scan, Lookup
      <3>2. CASE Return(r, None)
        BY <2>1, <3>2, ReturnTyped DEF Scan, Lookup
      <3>3. QED
        BY <2>1, <3>1, <3>2 DEF Scan
    <2>2. CASE Get(r)
      <3>1. CASE /\ stored # None /\ UNCHANGED answer
                 /\ reader' = [reader EXCEPT ![r] = [at |-> "store", got |-> stored]]
        BY <2>2, <3>1 DEF Get
      <3>2. CASE Return(r, None)
        BY <2>2, <3>2, ReturnTyped DEF Get, Lookup
      <3>3. QED
        BY <2>2, <3>1, <3>2 DEF Get
    <2>3. QED
      BY <1>3, <2>1, <2>2
  <1>4. ASSUME NEW r \in Readers, Store(r) PROVE TypeOK'
    BY <1>4 DEF Store
  <1>5. ASSUME NEW r \in Readers, Arm(r) PROVE TypeOK'
    BY <1>5, ReturnTyped DEF Arm, Lookup
  <1>6. ASSUME NEW w \in Writers, WriteWebhook(w) PROVE TypeOK'
    BY <1>6 DEF WriteWebhook
  <1>7. ASSUME NEW w \in Writers, InvalidateCache(w) PROVE TypeOK'
    BY <1>7 DEF InvalidateCache
  <1>8. CASE Expire
    BY <1>8 DEF Expire
  <1>9. CASE Write
    BY <1>9 DEF Write
  <1>10. CASE Delete
    BY <1>10 DEF Delete
  <1>11. CASE UNCHANGED vars
    BY <1>11 DEF vars
  <1>12. QED
    BY <1>1, <1>2, <1>3, <1>4, <1>5, <1>6, <1>7, <1>8, <1>9, <1>10, <1>11 DEF Next, Reader

\* Only Store puts an entry into the cache, and it leaves the lookup before its
\* timer; only Expire takes a timer away, and it takes the entry with it.
LEMMA NextExpires == TypeOK /\ EntryWillExpire /\ [Next]_vars => EntryWillExpire'
  <1> SUFFICES ASSUME TypeOK, EntryWillExpire, [Next]_vars PROVE EntryWillExpire'
    OBVIOUS
  <1> USE DEF TypeOK
  <1>1. ASSUME NEW r \in Readers, Begin(r) PROVE EntryWillExpire'
    BY <1>1 DEF Begin, EntryWillExpire
  <1>2. ASSUME NEW r \in Readers, Load(r) \/ Scan(r) \/ Get(r) PROVE EntryWillExpire'
    BY <1>2 DEF Load, Scan, Get, Return, EntryWillExpire
  <1>3. ASSUME NEW r \in Readers, Store(r) PROVE EntryWillExpire'
    BY <1>3 DEF Store, EntryWillExpire
  <1>4. ASSUME NEW r \in Readers, Arm(r) PROVE EntryWillExpire'
    BY <1>4 DEF Arm, EntryWillExpire
  <1>5. CASE Expire \/ \E w \in Writers : InvalidateCache(w)
    BY <1>5 DEF Expire, InvalidateCache, EntryWillExpire
  <1>6. CASE Write \/ Delete \/ \E w \in Writers : WriteWebhook(w)
    BY <1>6 DEF Write, Delete, WriteWebhook, EntryWillExpire
  <1>7. CASE UNCHANGED vars
    BY <1>7 DEF vars, EntryWillExpire
  <1>8. QED
    BY <1>1, <1>2, <1>3, <1>4, <1>5, <1>6, <1>7 DEF Next, Reader

\* The variables keep their types, and no lookup reaches the cache without a record,
\* although the record may be deleted between SCAN and MGET.
THEOREM CacheTypeCorrect == Spec => []TypeOK
  <1>1. Init => TypeOK
    BY InitTyped
  <1>2. QED BY <1>1, NextTyped, PTL DEF Spec

\* However lookups, expiries and invalidations interleave, an entry of the cache
\* always has an expiry ahead of it.
THEOREM EntriesExpire == Spec => []EntryWillExpire
  <1>1. Init => TypeOK /\ EntryWillExpire
    BY InitTyped
  <1>2. TypeOK /\ EntryWillExpire /\ [Next]_vars => (TypeOK /\ EntryWillExpire)'
    BY NextTyped, NextExpires
  <1>3. QED BY <1>1, <1>2, PTL DEF Spec

\* A lookup has listed the record that is stored at that moment, so only a change of it
\* makes the lookup late; what is stored into the cache is what one lookup carried, which
\* carries nothing afterwards.
THEOREM StaleEntriesDieOut == Spec => StaleDiesOut
  <1> DEFINE Dies == stored' = stored =>
                        /\ Late' \subseteq Late
                        /\ entry' \notin {entry, None, stored} => Late' # Late
  <1>1. ASSUME TypeOK, Next PROVE Dies
    <2> SUFFICES ASSUME stored' = stored PROVE Dies
      OBVIOUS
    <2> USE DEF TypeOK, None
    <2>1. ASSUME NEW r \in Readers, Begin(r) PROVE Dies
      BY <1>1, <2>1 DEF Begin, Late
    <2>2. ASSUME NEW r \in Readers, Load(r) \/ Arm(r) PROVE Dies
      BY <1>1, <2>2 DEF Load, Arm, Return, Late
    <2>3. ASSUME NEW r \in Readers, Scan(r) \/ Get(r) PROVE Dies
      BY <1>1, <2>3 DEF Scan, Get, Return, Late
    <2>4. ASSUME NEW r \in Readers, Store(r) PROVE Dies
      <3>1. /\ reader[r].at = "store" /\ reader'[r].at = "arm" /\ entry' = reader[r].got
            /\ \A q \in Readers : q # r => reader'[q] = reader[q]
        BY <1>1, <2>4 DEF Store
      <3>2. r \notin Late' /\ Late' \subseteq Late
        BY <3>1 DEF Late
      <3>3. entry' # stored => r \in Late
        BY <3>1 DEF Late
      <3>4. QED
        BY <3>2, <3>3
    <2>5. CASE Expire \/ Write \/ Delete \/ \E w \in Writers : WriteWebhook(w) \/ InvalidateCache(w)
      BY <1>1, <2>5 DEF Expire, Write, Delete, WriteWebhook, InvalidateCache, Late
    <2>6. QED
      BY <1>1, <2>1, <2>2, <2>3, <2>4, <2>5 DEF Next, Reader
  <1>2. UNCHANGED vars => Dies
    BY DEF vars, Late
  <1>3. TypeOK /\ [Next]_vars => Dies
    BY <1>1, <1>2
  <1>4. QED
    BY <1>3, CacheTypeCorrect, PTL DEF Spec, StaleDiesOut
=============================================================================
