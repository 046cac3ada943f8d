------------------------- MODULE ManagerFactoryProofs -------------------------
(***************************************************************************)
(* Proofs about ManagerFactory for any number of workers, ids and calls.   *)
(***************************************************************************)
EXTENDS ManagerFactory, FiniteSetTheorems, TLAPS

\* A worker inside ManagerFor has the number of its call.
Numbered == \A w \in Workers : pc[w] # "out" => turn[w] # 0

\* Who holds which lock, and that a writer is alone.
Locks ==
  /\ readers = {w \in Workers : pc[w] \in {"lookup", "runlock"}}
  /\ writer = {w \in Workers : pc[w] \in {"store", "unlock"}}
  /\ writer # {} => readers = {}
  /\ \A w, v \in writer : w = v

\* What is cached was made for its id.
CacheIsRight ==
  \A i \in Ids : rmCache[i] # None => rmCache[i] \in made /\ rmCache[i].for = i

\* What a worker holds was made for its id and is cached, itself or a successor.
HeldIsRight ==
  \A w \in Workers :
    /\ pc[w] \in {"runlock", "unlock", "return"} /\ rm[w] # None
         => rm[w] \in made /\ rm[w].for = id[w] /\ rmCache[id[w]] # None
    /\ pc[w] \in {"unlock", "return"} => rm[w] # None

\* A cached id stays cached, so a call that began later finds it.
Settled ==
  /\ \A i \in done : rmCache[i] # None
  /\ \A w \in Workers : settled[w] \subseteq done
  /\ \A w \in Workers : pc[w] = "runlock" /\ id[w] \in settled[w] => rm[w] # None
  /\ SettledIdsAreCached

IInv == TypeOK /\ Numbered /\ Locks /\ CacheIsRight /\ HeldIsRight /\ Settled

\* The managers made for an id.
MadeFor(i) == {m \in made : m.for = i}

\* The workers that cannot make another one: a call of theirs that made one is
\* about to return, or the id was settled when their call began.
Served(i) ==
  {w \in Workers :
     \/ id[w] = i /\ pc[w] \in {"unlock", "return"}
     \/ pc[w] = "out" /\ i \in done
     \/ pc[w] # "out" /\ i \in settled[w]}

\* Each manager made for an id used up a worker.
MakersBound ==
  \A i \in Ids : IsFiniteSet(MadeFor(i)) /\ Cardinality(MadeFor(i)) <= Cardinality(Served(i))

-----------------------------------------------------------------------------

\* Nobody holds a lock at first, and nothing is cached.
LEMMA InitIInv == Init => IInv
  BY FactoryAssumption
  DEF Init, IInv, TypeOK, PCs, Numbered, Locks, CacheIsRight, HeldIsRight, Settled,
      SettledIdsAreCached

\* Every step keeps the types, and the numbers of the calls they rest on.
LEMMA TypeStep ==
  ASSUME TypeOK, Numbered, [Next]_vars
  PROVE  TypeOK' /\ Numbered'
<1> USE DEF TypeOK, Numbered, Step, PCs
<1>1. ASSUME NEW w \in Workers, Call(w)
      PROVE  TypeOK' /\ Numbered'
  <2>1. calls + 1 \in 1..MaxCalls /\ calls + 1 # 0
    BY <1>1, FactoryAssumption DEF Call
  <2> QED
    BY <1>1, <2>1, FactoryAssumption DEF Call
<1>2. ASSUME NEW w \in Workers, MakeAndStore(w)
      PROVE  TypeOK' /\ Numbered'
  <2>1. [n |-> turn[w], for |-> id[w]] \in Managers
    BY <1>2, FactoryAssumption DEF MakeAndStore, Managers
  <2> QED
    BY <1>2, <2>1 DEF MakeAndStore
<1>3. ASSUME NEW w \in Workers,
             \/ RLock(w) \/ Lookup(w) \/ RUnlock(w) \/ Lock(w) \/ Acquire(w)
             \/ Unlock(w) \/ Return(w)
      PROVE  TypeOK' /\ Numbered'
  BY <1>3 DEF RLock, Lookup, RUnlock, Lock, Acquire, Unlock, Return
<1>4. CASE UNCHANGED vars
  BY <1>4 DEF vars
<1> QED
  BY <1>1, <1>2, <1>3, <1>4 DEF Next, ManagerFor

\* The lock discipline: only MakeAndStore touches the map, alone.
LEMMA LocksStep ==
  ASSUME TypeOK, Locks, [Next]_vars
  PROVE  Locks'
<1> USE DEF TypeOK, Locks, Step
<1>1. ASSUME NEW w \in Workers,
             Call(w) \/ Lookup(w) \/ Lock(w) \/ MakeAndStore(w) \/ Return(w)
      PROVE  Locks'
  BY <1>1 DEF Call, Lookup, Lock, MakeAndStore, Return
<1>2. ASSUME NEW w \in Workers, RLock(w)
      PROVE  Locks'
  BY <1>2 DEF RLock, readLockFree
<1>3. ASSUME NEW w \in Workers, RUnlock(w)
      PROVE  Locks'
  BY <1>3 DEF RUnlock
<1>4. ASSUME NEW w \in Workers, Acquire(w)
      PROVE  Locks'
  BY <1>4 DEF Acquire
<1>5. ASSUME NEW w \in Workers, Unlock(w)
      PROVE  Locks'
  BY <1>5 DEF Unlock
<1>6. CASE UNCHANGED vars
  BY <1>6 DEF vars
<1> QED
  BY <1>1, <1>2, <1>3, <1>4, <1>5, <1>6 DEF Next, ManagerFor

\* The cache and what the workers took from it.
LEMMA CacheStep ==
  ASSUME TypeOK, Numbered, Locks, CacheIsRight, HeldIsRight, Settled, [Next]_vars
  PROVE  CacheIsRight' /\ HeldIsRight' /\ Settled'
<1> USE DEF TypeOK, CacheIsRight, HeldIsRight, Settled, SettledIdsAreCached, Step
<1>1. ASSUME NEW w \in Workers, Call(w)
      PROVE  CacheIsRight' /\ HeldIsRight' /\ Settled'
  BY <1>1 DEF Call
<1>2. ASSUME NEW w \in Workers, Lookup(w)
      PROVE  CacheIsRight' /\ HeldIsRight' /\ Settled'
  BY <1>2 DEF Lookup
<1>3. ASSUME NEW w \in Workers, RUnlock(w)
      PROVE  CacheIsRight' /\ HeldIsRight' /\ Settled'
  BY <1>3 DEF RUnlock
<1>4. ASSUME NEW w \in Workers, RLock(w) \/ Lock(w) \/ Acquire(w) \/ Unlock(w)
      PROVE  CacheIsRight' /\ HeldIsRight' /\ Settled'
  BY <1>4 DEF RLock, Lock, Acquire, Unlock
<1>5. ASSUME NEW w \in Workers, MakeAndStore(w)
      PROVE  CacheIsRight' /\ HeldIsRight' /\ Settled'
  <2> DEFINE new == [n |-> turn[w], for |-> id[w]]
  <2>1. new \in Managers /\ new # None /\ new.for = id[w]
    BY <1>5, FactoryAssumption DEF MakeAndStore, Managers, Numbered
  <2>2. /\ pc[w] = "store" /\ pc' = [pc EXCEPT ![w] = "unlock"]
        /\ made' = made \cup {new}
        /\ rm' = [rm EXCEPT ![w] = new]
        /\ rmCache' = [rmCache EXCEPT ![id[w]] = new]
        /\ UNCHANGED <<id, done, settled>>
    BY <1>5 DEF MakeAndStore
  <2> HIDE DEF new
  <2>3. CacheIsRight'
    BY <2>1, <2>2
  <2>4. HeldIsRight'
    BY <2>1, <2>2
  <2>5. Settled'
    BY <2>1, <2>2
  <2> QED
    BY <2>3, <2>4, <2>5
<1>6. ASSUME NEW w \in Workers, Return(w)
      PROVE  CacheIsRight' /\ HeldIsRight' /\ Settled'
  BY <1>6 DEF Return
<1>7. CASE UNCHANGED vars
  BY <1>7 DEF vars
<1> QED
  BY <1>1, <1>2, <1>3, <1>4, <1>5, <1>6, <1>7 DEF Next, ManagerFor

\* The lock discipline and what it protects hold throughout.
THEOREM FactoryInvariance == Spec => []IInv
<1>1. Init => IInv
  BY InitIInv
<1>2. IInv /\ [Next]_vars => IInv'
  BY TypeStep, LocksStep, CacheStep DEF IInv
<1> QED
  BY <1>1, <1>2, PTL DEF Spec

\* rmCache is never written while another worker reads or writes it, for any
\* number of workers (the read and write locks of ManagerFor).
THEOREM CacheGuarded == Spec => []CacheIsGuarded
<1>1. IInv => CacheIsGuarded
  BY DEF IInv, Locks, CacheIsGuarded
<1> QED
  BY <1>1, FactoryInvariance, PTL

\* ManagerFor returns a manager made for the account, region and role asked for.
THEOREM RightManagerReturned == Spec => []RightManager
<1>1. IInv => RightManager
  BY DEF IInv, HeldIsRight, RightManager
<1> QED
  BY <1>1, FactoryInvariance, PTL

\* After one call for an id has returned, later calls never make another one:
\* the missing second lookup only costs while first calls overlap.
THEOREM SettledStayCached == Spec => []SettledIdsAreCached
<1>1. IInv => SettledIdsAreCached
  BY DEF IInv, Settled
<1> QED
  BY <1>1, FactoryInvariance, PTL

\* The types of the factory's state, with the numbering of the calls.
THEOREM FactoryTypeCorrect == Spec => []TypeOK
<1>1. IInv => TypeOK
  BY DEF IInv
<1> QED
  BY <1>1, FactoryInvariance, PTL

-----------------------------------------------------------------------------
(* How many managers the missing second lookup can cost.                   *)

\* A worker that cannot make another manager for an id stays one that cannot.
LEMMA ServedGrows ==
  ASSUME IInv, [Next]_vars, NEW i \in Ids
  PROVE  Served(i) \subseteq Served(i)'
<1> USE DEF IInv, TypeOK, Settled, SettledIdsAreCached, Served, Step
<1>1. ASSUME NEW w \in Workers, Call(w)
      PROVE  Served(i) \subseteq Served(i)'
  BY <1>1 DEF Call
<1>2. ASSUME NEW w \in Workers,
             \/ RLock(w) \/ Lookup(w) \/ RUnlock(w) \/ Lock(w) \/ Acquire(w)
             \/ MakeAndStore(w) \/ Unlock(w)
      PROVE  Served(i) \subseteq Served(i)'
  BY <1>2 DEF RLock, Lookup, RUnlock, Lock, Acquire, MakeAndStore, Unlock
<1>3. ASSUME NEW w \in Workers, Return(w)
      PROVE  Served(i) \subseteq Served(i)'
  BY <1>3 DEF Return
<1>4. CASE UNCHANGED vars
  BY <1>4 DEF vars
<1> QED
  BY <1>1, <1>2, <1>3, <1>4 DEF Next, ManagerFor

\* A worker that makes a manager was none of them before, and is one after.
LEMMA MakerIsServed ==
  ASSUME IInv, NEW w \in Workers, NEW i \in Ids, MakeAndStore(w), id[w] = i
  PROVE  w \notin Served(i) /\ w \in Served(i)'
  BY DEF IInv, TypeOK, Settled, SettledIdsAreCached, Served, MakeAndStore, Step

\* The managers made never outnumber the workers they used up.
LEMMA MakersStep ==
  ASSUME IInv, IInv', MakersBound, [Next]_vars
  PROVE  MakersBound'
<1> SUFFICES ASSUME NEW i \in Ids
             PROVE  IsFiniteSet(MadeFor(i)') /\ Cardinality(MadeFor(i)') <= Cardinality(Served(i)')
  BY DEF MakersBound
<1>1. /\ IsFiniteSet(Served(i)) /\ IsFiniteSet(Served(i)')
      /\ Cardinality(Served(i)) <= Cardinality(Served(i)')
  <2>1. Served(i)' \in SUBSET Workers /\ Served(i) \in SUBSET Served(i)'
    BY ServedGrows DEF Served
  <2>2. IsFiniteSet(Served(i)')
    <3>1. IsFiniteSet(Workers)
      BY FactoryAssumption
    <3> QED
      BY <2>1, <3>1, FS_Subset
  <2> HIDE DEF Served
  <2> QED
    BY <2>1, <2>2, FS_Subset
<1>2. /\ IsFiniteSet(MadeFor(i)) /\ Cardinality(MadeFor(i)) <= Cardinality(Served(i))
      /\ Cardinality(MadeFor(i)) \in Nat
      /\ Cardinality(Served(i)) \in Nat /\ Cardinality(Served(i)') \in Nat
  BY <1>1, FS_CardinalityType DEF MakersBound
<1>3. CASE MadeFor(i)' = MadeFor(i)
  BY <1>1, <1>2, <1>3
<1>4. ASSUME NEW w \in Workers, MakeAndStore(w), id[w] = i
      PROVE  IsFiniteSet(MadeFor(i)') /\ Cardinality(MadeFor(i)') <= Cardinality(Served(i)')
  <2> DEFINE new == [n |-> turn[w], for |-> id[w]]
  <2>1. MadeFor(i)' = MadeFor(i) \cup {new}
    BY <1>4 DEF MadeFor, MakeAndStore
  <2>2. IsFiniteSet(MadeFor(i)') /\ Cardinality(MadeFor(i)') <= Cardinality(MadeFor(i)) + 1
    <3> HIDE DEF new
    <3>1. /\ IsFiniteSet(MadeFor(i) \cup {new})
          /\ \/ Cardinality(MadeFor(i) \cup {new}) = Cardinality(MadeFor(i))
             \/ Cardinality(MadeFor(i) \cup {new}) = Cardinality(MadeFor(i)) + 1
      BY <1>2, FS_AddElement
    <3> QED
      BY <1>2, <2>1, <3>1
  <2>3. w \notin Served(i) /\ (Served(i) \cup {w}) \in SUBSET Served(i)'
    BY <1>4, MakerIsServed, ServedGrows
  <2>4. Cardinality(Served(i)) + 1 <= Cardinality(Served(i)')
    <3>1. Cardinality(Served(i) \cup {w}) = Cardinality(Served(i)) + 1
      BY <1>1, <2>3, FS_AddElement
    <3> QED
      BY <1>1, <2>3, <3>1, FS_Subset
  <2>5. Cardinality(MadeFor(i)') \in Nat
    BY <2>2, FS_CardinalityType
  <2> QED
    BY <1>2, <2>2, <2>4, <2>5
<1>5. MadeFor(i)' = MadeFor(i) \/ \E w \in Workers : MakeAndStore(w) /\ id[w] = i
  <2>1. ASSUME NEW w \in Workers, MakeAndStore(w), id[w] # i
        PROVE  MadeFor(i)' = MadeFor(i)
    BY <2>1 DEF MadeFor, MakeAndStore
  <2>2. UNCHANGED made \/ \E w \in Workers : MakeAndStore(w)
    BY DEF Next, ManagerFor, Call, RLock, Lookup, RUnlock, Lock, Acquire, Unlock, Return, vars
  <2> QED
    BY <2>1, <2>2 DEF MadeFor
<1> QED
  BY <1>3, <1>4, <1>5

\* However the first calls overlap, at most one manager per worker and id is
\* ever made: a worker that made one, or called after one was returned, does
\* not get past the lookup again (rmCache never loses an entry).
THEOREM ManagersBounded == Spec => []DuplicatesBounded
<1>1. Init => MakersBound
  <2>1. Init => \A i \in Ids : MadeFor(i) = {}
    BY DEF Init, MadeFor
  <2>2. \A i \in Ids : Cardinality(Served(i)) \in Nat
    <3>1. \A i \in Ids : Served(i) \in SUBSET Workers
      BY DEF Served
    <3> QED
      BY <3>1, FS_Subset, FS_CardinalityType, FactoryAssumption
  <2> QED
    BY <2>1, <2>2, FS_EmptySet DEF MakersBound
<1>2. MakersBound => DuplicatesBounded
  <2> SUFFICES ASSUME MakersBound, NEW i \in Ids
               PROVE  Cardinality(MadeFor(i)) <= Cardinality(Workers)
    BY DEF DuplicatesBounded, MadeFor
  <2>1. Served(i) \in SUBSET Workers
    BY DEF Served
  <2>2. IsFiniteSet(Served(i)) /\ Cardinality(Served(i)) <= Cardinality(Workers)
    BY <2>1, FS_Subset, FactoryAssumption
  <2>3. Cardinality(Served(i)) \in Nat /\ Cardinality(Workers) \in Nat
        /\ Cardinality(MadeFor(i)) \in Nat
    BY <2>2, FS_CardinalityType, FactoryAssumption DEF MakersBound
  <2> QED
    BY <2>2, <2>3 DEF MakersBound
<1>3. IInv /\ IInv' /\ MakersBound /\ [Next]_vars => MakersBound'
  BY MakersStep
<1> QED
  BY <1>1, <1>2, <1>3, FactoryInvariance, PTL DEF Spec
=============================================================================
