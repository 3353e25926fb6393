------------------------ MODULE TelemetryIngestProofs ------------------------
(***************************************************************************)
(* The invariant of TelemetryIngest for any number of devices, tenants,    *)
(* samples and requests.                                                   *)
(***************************************************************************)
EXTENDS TelemetryIngest, TLAPS

LEMMA IInvParts == IInv <=> TypeOK /\ NothingInvented /\ ApartUntilMoved /\ InFlight
                           /\ CacheInv
BY DEF IInv

LEMMA InitIInv == Init => IInv
<1> SUFFICES ASSUME Init PROVE IInv
  OBVIOUS
<1>1. TypeOK
  BY DEF Init, TypeOK
<1>2. NothingInvented /\ ApartUntilMoved /\ InFlight /\ CacheInv
  BY DEF Init, NothingInvented, ApartUntilMoved, InFlight, CacheInv, AtCache
<1> QED BY <1>1, <1>2, IInvParts

LEMMA NextTypeOK == TypeOK /\ [Next]_vars => TypeOK'
<1> SUFFICES ASSUME TypeOK, [Next]_vars PROVE TypeOK'
  OBVIOUS
<1> USE DEF TypeOK, order
<1>1. ASSUME NEW h \in Hook, NEW d \in Device, NEW t \in Tenant,
             NEW s \in Sample, Accept(h, d, t, s)
      PROVE  TypeOK'
  BY <1>1 DEF Accept, HookState, Entry
<1>2. ASSUME NEW h \in Hook,
             Store(h) \/ StoreUnconfirmed(h) \/ CacheLatest(h) \/ Touch(h)
               \/ Abandon(h)
      PROVE  TypeOK'
  <2>1. hook[h] \in HookState
    BY <1>2 DEF Store, StoreUnconfirmed, CacheLatest, Touch, Abandon
  <2>2. hook[h].entry \in Entry /\ hook[h].entry.dev \in Device
    BY <2>1 DEF HookState, Entry
  <2>3. \A pc \in {"cache", "touch"} : [hook[h] EXCEPT !.pc = pc] \in HookState
    BY <2>1 DEF HookState
  <2> HIDE DEF HookState, Entry
  <2>4. CASE Store(h)
    BY <2>2, <2>3, <2>4 DEF Store, Committed
  <2>5. CASE StoreUnconfirmed(h)
    BY <2>2, <2>5 DEF StoreUnconfirmed, Committed
  <2>6. CASE CacheLatest(h)
    BY <2>2, <2>3, <2>6 DEF CacheLatest
  <2>7. CASE Touch(h)
    BY <2>2, <2>7 DEF Touch
  <2>8. CASE Abandon(h)
    BY <2>2, <2>8 DEF Abandon
  <2> QED BY <1>2, <2>4, <2>5, <2>6, <2>7, <2>8
<1>3. ASSUME NEW r \in Reader, NEW d \in Device, NEW t \in Tenant,
             FindDevice(r, d, t)
      PROVE  TypeOK'
  BY <1>3 DEF FindDevice, ReadState
<1>4. ASSUME NEW r \in Reader, GetCached(r) PROVE TypeOK'
  <2>1. read[r] \in ReadState
    BY <1>4 DEF GetCached
  <2>2. read[r].dev \in Device /\ read[r].tenant \in Tenant
    BY <2>1 DEF ReadState
  <2>3. latest[read[r].dev] # None =>
          [to |-> read[r].tenant, entry |-> latest[read[r].dev]] \in Answer
    BY <2>2 DEF Answer
  <2> QED BY <1>4, <2>3 DEF GetCached
<1>5. ASSUME NEW d \in Device, NEW t \in Tenant, Claim(d, t) PROVE TypeOK'
  BY <1>5 DEF Claim
<1>6. ASSUME NEW d \in Device, ResetDevice(d) PROVE TypeOK'
  BY <1>6 DEF ResetDevice
<1>7. ASSUME NEW d \in Device, ExpireLatest(d) PROVE TypeOK'
  BY <1>7 DEF ExpireLatest
<1>8. CASE UNCHANGED vars
  BY <1>8 DEF vars
<1>9. ASSUME NEW h \in Hook, CacheLatestUnanswered(h) PROVE TypeOK'
  <2>1. hook[h].entry \in Entry
    BY <1>9 DEF CacheLatestUnanswered, HookState
  <2> QED BY <1>9, <2>1 DEF CacheLatestUnanswered
<1> QED BY <1>1, <1>2, <1>3, <1>4, <1>5, <1>6, <1>7, <1>8, <1>9 DEF Next

LEMMA NextNothingInvented == IInv /\ [Next]_vars => NothingInvented'
<1> SUFFICES ASSUME IInv, [Next]_vars PROVE NothingInvented'
  OBVIOUS
<1>i. TypeOK /\ NothingInvented /\ InFlight
  BY IInvParts
<1> USE <1>i DEF NothingInvented
<1>1. ASSUME NEW h \in Hook, NEW d \in Device, NEW t \in Tenant,
             NEW s \in Sample, Accept(h, d, t, s)
      PROVE  NothingInvented'
  BY <1>1 DEF Accept
<1>2. ASSUME NEW h \in Hook, Store(h) \/ StoreUnconfirmed(h) \/ Abandon(h)
      PROVE  NothingInvented'
  BY <1>2 DEF Store, StoreUnconfirmed, Abandon
<1>3. ASSUME NEW h \in Hook, CacheLatest(h) \/ Touch(h) PROVE NothingInvented'
  <2>1. hook[h].entry \in stored
    BY <1>3 DEF CacheLatest, Touch, InFlight
  <2> QED BY <1>3, <2>1 DEF CacheLatest, Touch, TypeOK
<1>4. ASSUME NEW r \in Reader, NEW d \in Device, NEW t \in Tenant,
             FindDevice(r, d, t)
      PROVE  NothingInvented'
  BY <1>4 DEF FindDevice
<1>5. ASSUME NEW r \in Reader, GetCached(r) PROVE NothingInvented'
  <2>1. read[r].dev \in Device
    BY <1>5 DEF GetCached, TypeOK, ReadState
  <2> QED BY <1>5, <2>1 DEF GetCached
<1>6. ASSUME NEW d \in Device, NEW t \in Tenant,
             Claim(d, t)
      PROVE  NothingInvented'
  BY <1>6 DEF Claim
<1>7. ASSUME NEW d \in Device, ResetDevice(d) \/ ExpireLatest(d)
      PROVE  NothingInvented'
  BY <1>7 DEF ResetDevice, ExpireLatest, TypeOK
<1>8. CASE UNCHANGED vars
  BY <1>8 DEF vars
<1>9. ASSUME NEW h \in Hook, CacheLatestUnanswered(h) PROVE NothingInvented'
  <2>1. hook[h].entry \in stored
    BY <1>9 DEF CacheLatestUnanswered, InFlight
  <2> QED BY <1>9, <2>1 DEF CacheLatestUnanswered, TypeOK
<1> QED BY <1>1, <1>2, <1>3, <1>4, <1>5, <1>6, <1>7, <1>8, <1>9 DEF Next

LEMMA NextApart == IInv /\ [Next]_vars => ApartUntilMoved'
<1> SUFFICES ASSUME IInv, [Next]_vars PROVE ApartUntilMoved'
  OBVIOUS
<1>i. TypeOK /\ NothingInvented /\ ApartUntilMoved /\ InFlight
  BY IInvParts
<1> USE <1>i DEF ApartUntilMoved
<1>1. ASSUME NEW h \in Hook, NEW d \in Device, NEW t \in Tenant,
             NEW s \in Sample, Accept(h, d, t, s)
      PROVE  ApartUntilMoved'
  BY <1>1 DEF Accept
<1>2. ASSUME NEW h \in Hook, Store(h) \/ StoreUnconfirmed(h)
      PROVE  ApartUntilMoved'
  BY <1>2 DEF Store, StoreUnconfirmed, InFlight
<1>3. ASSUME NEW h \in Hook, CacheLatest(h) \/ Touch(h) \/ Abandon(h)
      PROVE  ApartUntilMoved'
  BY <1>3 DEF CacheLatest, Touch, Abandon
<1>4. ASSUME NEW r \in Reader, NEW d \in Device, NEW t \in Tenant,
             FindDevice(r, d, t)
      PROVE  ApartUntilMoved'
  BY <1>4 DEF FindDevice
<1>5. ASSUME NEW r \in Reader, GetCached(r) PROVE ApartUntilMoved'
  <2>1. read[r] # None /\ read[r].dev \in Device
    BY <1>5 DEF GetCached, TypeOK, ReadState
  <2>2. latest[read[r].dev] # None =>
          /\ latest[read[r].dev].dev = read[r].dev
          /\ latest[read[r].dev] \in stored
    BY <2>1 DEF InFlight, NothingInvented
  <2>3. latest[read[r].dev] # None /\ read[r].dev \notin moved =>
          read[r].tenant = latest[read[r].dev].tenant
    BY <2>1, <2>2 DEF InFlight
  <2> QED BY <1>5, <2>2, <2>3 DEF GetCached
<1>6. ASSUME NEW d \in Device, NEW t \in Tenant, Claim(d, t)
      PROVE  ApartUntilMoved'
  <2>1. ASSUME NEW e \in stored, e.dev \notin moved
        PROVE  e.dev # d /\ tenant[e.dev] = e.tenant
    <3>1. e.tenant \in Tenant
      BY DEF TypeOK, Entry
    <3> QED BY <1>6, <2>1, <3>1, NoneAssumption DEF Claim
  <2> QED BY <1>6, <2>1 DEF Claim, TypeOK
<1>7. ASSUME NEW d \in Device, ResetDevice(d) PROVE ApartUntilMoved'
  <2>1. \A e \in stored : e.dev \notin moved' =>
          e.dev # d /\ e.dev \notin moved
    BY <1>7 DEF ResetDevice
  <2> QED BY <1>7, <2>1 DEF ResetDevice, TypeOK
<1>8. ASSUME NEW d \in Device, ExpireLatest(d) PROVE ApartUntilMoved'
  BY <1>8 DEF ExpireLatest
<1>9. CASE UNCHANGED vars
  BY <1>9 DEF vars
<1>10. ASSUME NEW h \in Hook, CacheLatestUnanswered(h) PROVE ApartUntilMoved'
  BY <1>10 DEF CacheLatestUnanswered
<1> QED BY <1>1, <1>2, <1>3, <1>4, <1>5, <1>6, <1>7, <1>8, <1>9, <1>10 DEF Next

LEMMA NextInFlight == IInv /\ [Next]_vars => InFlight'
<1> SUFFICES ASSUME IInv, [Next]_vars PROVE InFlight'
  OBVIOUS
<1>i. TypeOK /\ InFlight
  BY IInvParts
<1> USE <1>i DEF InFlight
<1>1. ASSUME NEW h \in Hook, NEW d \in Device, NEW t \in Tenant,
             NEW s \in Sample, Accept(h, d, t, s)
      PROVE  InFlight'
  BY <1>1 DEF Accept, TypeOK
<1>2. ASSUME NEW h \in Hook, Store(h) \/ StoreUnconfirmed(h) \/ Abandon(h)
      PROVE  InFlight'
  <2>1. \A g \in Hook : g # h => hook'[g] = hook[g]
    BY <1>2 DEF Store, StoreUnconfirmed, Abandon, TypeOK
  <2>2. UNCHANGED <<tenant, latest, read, moved>> /\ stored \subseteq stored'
    BY <1>2 DEF Store, StoreUnconfirmed, Abandon
  <2>3. hook'[h] # None => /\ hook[h] # None
                           /\ hook'[h].entry = hook[h].entry
                           /\ hook'[h].entry \in stored'
    <3>1. CASE Store(h)
      <4>1. hook[h] \in HookState
        BY <3>1 DEF Store, TypeOK
      <4> QED BY <3>1, <4>1 DEF Store, TypeOK, HookState
    <3>2. CASE StoreUnconfirmed(h) \/ Abandon(h)
      BY <3>2 DEF StoreUnconfirmed, Abandon, TypeOK
    <3> QED BY <1>2, <3>1, <3>2
  <2> QED BY <2>1, <2>2, <2>3
<1>3. ASSUME NEW h \in Hook, CacheLatest(h) \/ Touch(h) PROVE InFlight'
  <2>1. hook[h] \in HookState /\ hook[h].entry \in stored
    BY <1>3 DEF CacheLatest, Touch, TypeOK
  <2>2. \A g \in Hook : g # h => hook'[g] = hook[g]
    BY <1>3 DEF CacheLatest, Touch, TypeOK
  <2>3. UNCHANGED <<tenant, stored, read, moved>>
    BY <1>3 DEF CacheLatest, Touch
  <2>4. hook'[h] # None => hook[h] # None /\ hook'[h].entry = hook[h].entry
    BY <1>3, <2>1 DEF CacheLatest, Touch, TypeOK, HookState
  <2>5. \A d \in Device : latest'[d] # None => latest'[d].dev = d
    BY <1>3, <2>1 DEF CacheLatest, Touch, TypeOK
  <2> QED BY <2>1, <2>2, <2>3, <2>4, <2>5
<1>4. ASSUME NEW r \in Reader, NEW d \in Device, NEW t \in Tenant,
             FindDevice(r, d, t)
      PROVE  InFlight'
  BY <1>4 DEF FindDevice, TypeOK
<1>5. ASSUME NEW r \in Reader, GetCached(r) PROVE InFlight'
  BY <1>5 DEF GetCached, TypeOK
<1>6. ASSUME NEW d \in Device, NEW t \in Tenant, Claim(d, t)
      PROVE  InFlight'
  <2>1. ASSUME NEW h \in Hook, hook[h] # None, hook[h].entry.dev \notin moved
        PROVE  hook[h].entry.dev # d
    <3>1. hook[h].entry.tenant \in Tenant
      BY <2>1 DEF TypeOK, HookState, Entry
    <3> QED BY <1>6, <2>1, <3>1, NoneAssumption DEF Claim
  <2>2. ASSUME NEW r \in Reader, read[r] # None, read[r].dev \notin moved
        PROVE  read[r].dev # d
    <3>1. read[r].tenant \in Tenant
      BY <2>2 DEF TypeOK, ReadState
    <3> QED BY <1>6, <2>2, <3>1, NoneAssumption DEF Claim
  <2>3. UNCHANGED <<stored, latest, hook, read, moved>>
    BY <1>6 DEF Claim
  <2>4. \A e \in Device : e # d => tenant'[e] = tenant[e]
    BY <1>6 DEF Claim, TypeOK
  <2>5. \A h \in Hook : hook[h] # None => hook[h].entry.dev \in Device
    BY DEF TypeOK, HookState, Entry
  <2>6. \A r \in Reader : read[r] # None => read[r].dev \in Device
    BY DEF TypeOK, ReadState
  <2> QED BY <2>1, <2>2, <2>3, <2>4, <2>5, <2>6
<1>7. ASSUME NEW d \in Device, ResetDevice(d) PROVE InFlight'
  <2>1. UNCHANGED <<stored, latest, hook, read>> /\ moved' = moved \cup {d}
    BY <1>7 DEF ResetDevice
  <2>2. \A e \in Device : e # d => tenant'[e] = tenant[e]
    BY <1>7 DEF ResetDevice, TypeOK
  <2>3. \A h \in Hook : hook[h] # None => hook[h].entry.dev \in Device
    BY DEF TypeOK, HookState, Entry
  <2>4. \A r \in Reader : read[r] # None => read[r].dev \in Device
    BY DEF TypeOK, ReadState
  <2> QED BY <2>1, <2>2, <2>3, <2>4
<1>8. ASSUME NEW d \in Device, ExpireLatest(d) PROVE InFlight'
  BY <1>8 DEF ExpireLatest, TypeOK
<1>9. CASE UNCHANGED vars
  BY <1>9 DEF vars
<1>10. ASSUME NEW h \in Hook, CacheLatestUnanswered(h) PROVE InFlight'
  BY <1>10 DEF CacheLatestUnanswered, TypeOK
<1> QED BY <1>1, <1>2, <1>3, <1>4, <1>5, <1>6, <1>7, <1>8, <1>9, <1>10 DEF Next

LEMMA NextCacheInv == IInv /\ [Next]_vars => CacheInv'
<1> SUFFICES ASSUME IInv, [Next]_vars PROVE CacheInv'
  OBVIOUS
<1>i. TypeOK /\ CacheInv
  BY IInvParts
<1>a. ASSUME UNCHANGED <<latest, order>>,
             \A h \in Hook, d \in Device : AtCache(h, d)' <=> AtCache(h, d),
             \A h \in Hook, d \in Device : AtCache(h, d) => hook'[h].entry = hook[h].entry
      PROVE  CacheInv'
  <2>1. ASSUME NEW h \in Hook, NEW d \in Device, AtCache(h, d), Alone(h)
        PROVE  Alone(h)'
    BY <1>a, <2>1 DEF Alone, AtCache
  <2> QED BY <1>i, <1>a, <2>1 DEF CacheInv, order
<1>1. ASSUME NEW h \in Hook, NEW d \in Device, NEW t \in Tenant,
             NEW s \in Sample, Accept(h, d, t, s)
      PROVE  CacheInv'
  BY <1>i, <1>a, <1>1 DEF Accept, AtCache, TypeOK
<1>2. ASSUME NEW h \in Hook,
             Store(h) \/ StoreUnconfirmed(h) \/ CacheLatest(h) \/ Touch(h)
               \/ Abandon(h)
      PROVE  CacheInv'
  <2> DEFINE dev == hook[h].entry.dev
  <2>1. hook[h] \in HookState /\ dev \in Device
    BY <1>i, <1>2 DEF Store, StoreUnconfirmed, CacheLatest, Touch, Abandon,
       TypeOK, HookState, Entry
  <2>2. \A g \in Hook : g # h => hook'[g] = hook[g]
    BY <1>i, <1>2 DEF Store, StoreUnconfirmed, CacheLatest, Touch, Abandon, TypeOK
  <2>3. \A d \in Device : d # dev =>
          /\ latest'[d] = latest[d] /\ newest'[d] = newest[d]
          /\ d \in behind' <=> d \in behind
          /\ ~AtCache(h, d) /\ ~AtCache(h, d)'
    BY <1>i, <1>2, <2>1 DEF Store, StoreUnconfirmed, CacheLatest, Touch, Abandon,
       TypeOK, HookState, Committed, order, AtCache
  <2> DEFINE Fresh(d) ==
        /\ \A g \in Hook : AtCache(g, d) => Alone(g) /\ hook[g].entry = newest[d]
        /\ latest[d] \in {newest[d], None} \/ \E g \in Hook : AtCache(g, d)
  <2>4. ASSUME NEW d \in Device, d \notin behind', d # dev
        PROVE  Fresh(d)'
    <3>1. \A g \in Hook : AtCache(g, d)' <=> AtCache(g, d)
      BY <2>2, <2>3, <2>4 DEF AtCache
    <3>2. \A g \in Hook : AtCache(g, d) => g # h /\ hook'[g] = hook[g]
      BY <2>2, <2>3, <2>4
    <3>3. \A g \in Hook : AtCache(g, d) => Alone(g) /\ hook[g].entry = newest[d]
      BY <1>i, <2>3, <2>4 DEF CacheInv
    <3>4. \A g \in Hook : AtCache(g, d) => Alone(g)'
      BY <3>1, <3>2, <3>3 DEF Alone, AtCache
    <3> QED BY <1>i, <2>3, <2>4, <3>1, <3>2, <3>3, <3>4 DEF CacheInv
  <2>5. ASSUME NEW d \in Device, d \notin behind', d = dev
        PROVE  Fresh(d)'
    <3>0. \A g \in Hook \ {h} : AtCache(g, d)' <=> AtCache(g, d)
      BY <2>5, <2>2 DEF AtCache
    <3>1. CASE Store(h)
      <4>1. Alone(h)
        BY <2>5, <3>1 DEF Store, Committed
      <4>2. \A g \in Hook : AtCache(g, d)' => g = h
        BY <2>5, <3>0, <4>1 DEF Alone
      <4>3. hook'[h] = [hook[h] EXCEPT !.pc = "cache"] /\ newest'[d] = hook[h].entry
        BY <2>5, <1>i, <2>1, <3>1 DEF Store, Committed, TypeOK
      <4>4. hook'[h].entry = hook[h].entry /\ hook'[h].pc = "cache" /\ hook'[h] \in HookState
        BY <2>5, <2>1, <4>3 DEF HookState
      <4>5. AtCache(h, d)'
        BY <2>5, <4>4, NoneIsNoState DEF AtCache
      <4>6. Alone(h)'
        BY <2>5, <4>2, <4>4 DEF Alone
      <4> QED BY <2>5, <4>2, <4>3, <4>4, <4>5, <4>6
    <3>2. CASE StoreUnconfirmed(h)
      BY <2>5, <3>2 DEF StoreUnconfirmed, Committed
    <3>3. CASE CacheLatest(h)
      <4>1. latest' = [latest EXCEPT ![d] = hook[h].entry] /\ newest' = newest
            /\ behind' = IF Alone(h) /\ newest[d] = hook[h].entry
                         THEN behind \ {d} ELSE behind
        BY <2>5, <3>3 DEF CacheLatest
      <4>2. AtCache(h, d)
        BY <2>5, <3>3 DEF CacheLatest, AtCache
      <4>3. Alone(h) /\ newest[d] = hook[h].entry
        BY <1>i, <2>1, <2>5, <4>1, <4>2 DEF CacheInv
      <4>4. ~AtCache(h, d)'
        BY <2>5, <1>i, <2>1, <3>3 DEF CacheLatest, AtCache, TypeOK, HookState
      <4>5. \A g \in Hook : ~AtCache(g, d)'
        BY <2>5, <3>0, <4>3, <4>4 DEF Alone
      <4> QED BY <2>5, <1>i, <2>1, <4>1, <4>3, <4>5 DEF TypeOK
    <3>4. CASE Touch(h) \/ Abandon(h)
      <4>1. d \notin behind /\ hook[h].pc # "cache" /\ UNCHANGED <<latest, newest>>
        BY <2>5, <3>4 DEF Touch, Abandon, order
      <4>2. hook'[h] = None
        BY <2>5, <1>i, <3>4 DEF Touch, Abandon, TypeOK
      <4>3. \A g \in Hook : AtCache(g, d)' <=> AtCache(g, d)
        BY <2>5, <3>0, <4>1, <4>2 DEF AtCache
      <4>4. \A g \in Hook : AtCache(g, d) => g # h /\ hook'[g] = hook[g]
        BY <2>5, <2>2, <4>1 DEF AtCache
      <4>5. \A g \in Hook : AtCache(g, d) => Alone(g) /\ hook[g].entry = newest[d]
        BY <2>5, <1>i, <2>1, <4>1 DEF CacheInv
      <4>6. \A g \in Hook : AtCache(g, d) => Alone(g)'
        BY <2>5, <4>3, <4>4, <4>5 DEF Alone, AtCache
      <4> QED BY <2>5, <1>i, <2>1, <4>1, <4>3, <4>4, <4>5, <4>6 DEF CacheInv
    <3> QED BY <1>2, <3>1, <3>2, <3>3, <3>4
  <2>6. \A d \in Device : d \notin behind' => Fresh(d)'
    BY <2>4, <2>5
  <2> QED BY <2>6 DEF CacheInv
<1>3. CASE \/ \E r \in Reader, d \in Device, t \in Tenant : FindDevice(r, d, t)
           \/ \E r \in Reader : GetCached(r)
           \/ \E d \in Device, t \in Tenant : Claim(d, t)
           \/ \E d \in Device : ResetDevice(d)
  <2>1. UNCHANGED <<latest, order, hook>>
    BY <1>3 DEF FindDevice, GetCached, Claim, ResetDevice
  <2> QED BY <1>a, <2>1 DEF AtCache
<1>4. ASSUME NEW d \in Device, ExpireLatest(d) PROVE CacheInv'
  BY <1>i, <1>4 DEF ExpireLatest, CacheInv, AtCache, Alone, TypeOK, order
<1>5. CASE UNCHANGED vars
  BY <1>a, <1>5 DEF vars, AtCache
<1>6. ASSUME NEW h \in Hook, CacheLatestUnanswered(h) PROVE CacheInv'
  <2> DEFINE dev == hook[h].entry.dev
  <2>1. dev \in Device /\ AtCache(h, dev)
    BY <1>i, <1>6 DEF CacheLatestUnanswered, TypeOK, HookState, Entry, AtCache
  <2>2. /\ UNCHANGED <<hook, newest, behind>>
        /\ \A d \in Device : d # dev => latest'[d] = latest[d]
    BY <1>i, <1>6, <2>1 DEF CacheLatestUnanswered, TypeOK, order
  <2> HIDE DEF dev
  <2> QED BY <1>i, <2>1, <2>2 DEF CacheInv, AtCache, Alone
<1> QED BY <1>1, <1>2, <1>3, <1>4, <1>5, <1>6 DEF Next

(* The inductive invariant holds of every run. *)
THEOREM Invariance == Spec => []IInv
<1>1. IInv /\ [Next]_vars => IInv'
  <2> SUFFICES ASSUME IInv, [Next]_vars PROVE IInv'
    OBVIOUS
  <2>1. TypeOK
    BY IInvParts
  <2>2. TypeOK' /\ NothingInvented' /\ ApartUntilMoved' /\ InFlight' /\ CacheInv'
    BY <2>1, NextTypeOK, NextNothingInvented, NextApart, NextInFlight, NextCacheInv
  <2> QED BY <2>2 DEF IInv
<1> QED BY InitIInv, <1>1, PTL DEF Spec

(* The table comes first: what was answered with 200, cached or shown was   *)
(* committed to TimescaleDB before.                                         *)
THEOREM TableFirst == Spec => []NothingInvented
<1>1. IInv => NothingInvented
  BY IInvParts
<1> QED BY Invariance, <1>1, PTL

(* Tenants whose devices never changed hands are isolated from each other.  *)
THEOREM Isolation == Spec => []ApartUntilMoved
<1>1. IInv => ApartUntilMoved
  BY IInvParts
<1> QED BY Invariance, <1>1, PTL

(* Redis has the row committed last, for any number of webhooks: it falls   *)
(* behind by an overlap or a failure only.                                  *)
THEOREM CacheFresh == Spec => []CacheIsNewest
<1>1. IInv => CacheIsNewest
  BY IInvParts DEF CacheInv, CacheIsNewest
<1> QED BY Invariance, <1>1, PTL

=============================================================================
