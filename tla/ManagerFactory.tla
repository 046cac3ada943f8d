---------------------------- MODULE ManagerFactory ----------------------------
(***************************************************************************)
(* resourceManagerFactory: the cache of resource managers, one per         *)
(* account/region/role, shared by the reconciler's workers and guarded by  *)
(* a sync.RWMutex.  ManagerFor looks an id up under the read lock, gives   *)
(* the lock up, and creates and stores a manager under the write lock      *)
(* without looking again.                                                  *)
(***************************************************************************)
EXTENDS Naturals, FiniteSets

CONSTANTS
  Workers,   \* the goroutines that reconcile
  Ids,       \* account/region/role combinations
  None,      \* no manager
  MaxCalls   \* calls of ManagerFor

Managers == [n : 1..MaxCalls, for : Ids]

\* There are finitely many workers (--reconcile-default-max-concurrent-syncs),
\* the number of calls is a number, and None is not a manager.
ASSUME FactoryAssumption ==
  /\ IsFiniteSet(Workers)
  /\ MaxCalls \in Nat
  /\ None \notin Managers

VARIABLES
  pc,       \* where each worker is in ManagerFor
  id,       \* rmId: what each worker asked for
  turn,     \* the number of the worker's call; a call makes one manager at most
  rm,       \* what the worker's variable rm holds
  readers,  \* RWMutex: who holds the read lock
  waiting,  \* RWMutex: who waits in Lock, which keeps new readers out
  writer,   \* RWMutex: who holds the write lock
  rmCache,  \* the cache
  made,     \* the managers made so far
  calls,    \* calls begun
  done,     \* history: the ids a call has returned for
  settled   \* history: done, as it was when each worker's call began

vars == <<pc, id, turn, rm, readers, waiting, writer, rmCache, made, calls, done, settled>>

PCs == {"out", "rlock", "lookup", "runlock", "lock", "waiting", "store", "unlock", "return"}

TypeOK ==
  /\ pc \in [Workers -> PCs]
  /\ id \in [Workers -> Ids]
  /\ turn \in [Workers -> 0..MaxCalls]
  /\ rm \in [Workers -> Managers \cup {None}]
  /\ readers \in SUBSET Workers
  /\ waiting \in SUBSET Workers
  /\ writer \in SUBSET Workers
  /\ rmCache \in [Ids -> Managers \cup {None}]
  /\ made \in SUBSET Managers
  /\ calls \in 0..MaxCalls
  /\ done \in SUBSET Ids
  /\ settled \in [Workers -> SUBSET Ids]

Init ==
  /\ pc = [w \in Workers |-> "out"]
  /\ id \in [Workers -> Ids]
  /\ turn = [w \in Workers |-> 0]
  /\ rm = [w \in Workers |-> None]
  /\ readers = {}
  /\ waiting = {}
  /\ writer = {}
  /\ rmCache = [i \in Ids |-> None]
  /\ made = {}
  /\ calls = 0
  /\ done = {}
  /\ settled = [w \in Workers |-> {}]

Step(w, next) == pc' = [pc EXCEPT ![w] = next]

\* A reconciliation asks for the manager of its account, region and role.
Call(w) ==
  /\ pc[w] = "out"
  /\ calls < MaxCalls
  /\ calls' = calls + 1
  /\ turn' = [turn EXCEPT ![w] = calls + 1]
  /\ \E i \in Ids : id' = [id EXCEPT ![w] = i]
  /\ settled' = [settled EXCEPT ![w] = done]
  /\ Step(w, "rlock")
  /\ UNCHANGED <<rm, readers, waiting, writer, rmCache, made, done>>

\* RWMutex: a writer, or one that waits, keeps readers out.
readLockFree == writer = {} /\ waiting = {}

RLock(w) ==
  /\ pc[w] = "rlock"
  /\ readLockFree
  /\ readers' = readers \cup {w}
  /\ Step(w, "lookup")
  /\ UNCHANGED <<id, turn, rm, waiting, writer, rmCache, made, calls, done, settled>>

\* Mutant: the id leaves out the region, so another id's entry is found.
LookupWithoutRegion(w) ==
  /\ pc[w] = "lookup"
  /\ \E i \in Ids : rm' = [rm EXCEPT ![w] = rmCache[i]]
  /\ Step(w, "runlock")
  /\ UNCHANGED <<id, turn, readers, waiting, writer, rmCache, made, calls, done, settled>>

\* Mutant: a missing entry is returned as a zero resource manager.
LookupZeroValue(w) ==
  /\ pc[w] = "lookup"
  /\ rm' = [rm EXCEPT ![w] = IF rmCache[id[w]] = None THEN [n |-> 0, for |-> id[w]]
                             ELSE rmCache[id[w]]]
  /\ Step(w, "runlock")
  /\ UNCHANGED <<id, turn, readers, waiting, writer, rmCache, made, calls, done, settled>>

Lookup(w) ==
  /\ pc[w] = "lookup"
  /\ rm' = [rm EXCEPT ![w] = rmCache[id[w]]]
  /\ Step(w, "runlock")
  /\ UNCHANGED <<id, turn, readers, waiting, writer, rmCache, made, calls, done, settled>>

\* Mutant: a lookup that finds nothing keeps the read lock.
RUnlockIfFound(w) ==
  /\ pc[w] = "runlock"
  /\ readers' = IF rm[w] # None THEN readers \ {w} ELSE readers
  /\ Step(w, IF rm[w] # None THEN "return" ELSE "lock")
  /\ UNCHANGED <<id, turn, rm, waiting, writer, rmCache, made, calls, done, settled>>

\* Mutant: the store does not take the write lock.
RUnlockAndStore(w) ==
  /\ pc[w] = "runlock"
  /\ readers' = readers \ {w}
  /\ Step(w, IF rm[w] # None THEN "return" ELSE "store")
  /\ UNCHANGED <<id, turn, rm, waiting, writer, rmCache, made, calls, done, settled>>

\* What was found is returned; otherwise on to the write lock.
RUnlock(w) ==
  /\ pc[w] = "runlock"
  /\ readers' = readers \ {w}
  /\ Step(w, IF rm[w] # None THEN "return" ELSE "lock")
  /\ UNCHANGED <<id, turn, rm, waiting, writer, rmCache, made, calls, done, settled>>

Lock(w) ==
  /\ pc[w] = "lock"
  /\ waiting' = waiting \cup {w}
  /\ Step(w, "waiting")
  /\ UNCHANGED <<id, turn, rm, readers, writer, rmCache, made, calls, done, settled>>

Acquire(w) ==
  /\ pc[w] = "waiting"
  /\ readers = {}
  /\ writer = {}
  /\ waiting' = waiting \ {w}
  /\ writer' = {w}
  /\ Step(w, "store")
  /\ UNCHANGED <<id, turn, rm, readers, rmCache, made, calls, done, settled>>

\* Mutant: the new manager is returned and not stored.
MakeOnly(w) ==
  /\ pc[w] = "store"
  /\ LET new == [n |-> turn[w], for |-> id[w]]
     IN made' = made \cup {new} /\ rm' = [rm EXCEPT ![w] = new]
  /\ Step(w, "unlock")
  /\ UNCHANGED <<id, turn, readers, waiting, writer, rmCache, calls, done, settled>>

\* newResourceManager, which never fails, and the store: no second lookup, a
\* manager stored since the first one is replaced.
MakeAndStore(w) ==
  /\ pc[w] = "store"
  /\ LET new == [n |-> turn[w], for |-> id[w]]
     IN /\ made' = made \cup {new}
        /\ rm' = [rm EXCEPT ![w] = new]
        /\ rmCache' = [rmCache EXCEPT ![id[w]] = new]
  /\ Step(w, "unlock")
  /\ UNCHANGED <<id, turn, readers, waiting, writer, calls, done, settled>>

\* The deferred Unlock.
Unlock(w) ==
  /\ pc[w] = "unlock"
  /\ writer' = {}
  /\ Step(w, "return")
  /\ UNCHANGED <<id, turn, rm, readers, waiting, rmCache, made, calls, done, settled>>

Return(w) ==
  /\ pc[w] = "return"
  /\ rm' = [rm EXCEPT ![w] = None]
  /\ done' = done \cup {id[w]}
  /\ Step(w, "out")
  /\ UNCHANGED <<id, turn, readers, waiting, writer, rmCache, made, calls, settled>>

ManagerFor(w) ==
  \/ RLock(w) \/ Lookup(w) \/ RUnlock(w)
  \/ Lock(w) \/ Acquire(w) \/ MakeAndStore(w) \/ Unlock(w)
  \/ Return(w)

Next == \E w \in Workers : Call(w) \/ ManagerFor(w)

Spec == Init /\ [][Next]_vars

\* A goroutine that can run does; nobody has to call.
FairSpec == Spec /\ \A w \in Workers : WF_vars(ManagerFor(w))

-----------------------------------------------------------------------------

\* The map is never written while another worker reads or writes it: a Go map
\* tolerates neither (f.RLock and f.Lock around rmCache).
CacheIsGuarded ==
  \A w, v \in Workers :
    w # v /\ pc[w] = "store" => pc[v] \notin {"lookup", "store"}

\* A worker returns with a manager made for the id it asked for, whatever the
\* other workers stored in between.
RightManager ==
  \A w \in Workers : pc[w] = "return" => rm[w] \in made /\ rm[w].for = id[w]

\* Once a call for an id has returned, no later call makes a manager for it.
SettledIdsAreCached ==
  \A w \in Workers :
    id[w] \in settled[w] => pc[w] \notin {"lock", "waiting", "store", "unlock"}

\* The missing second lookup costs at most one manager per worker and id.
DuplicatesBounded ==
  \A i \in Ids : Cardinality({m \in made : m.for = i}) <= Cardinality(Workers)

\* Every call of ManagerFor returns: the read lock is given up before the
\* write lock is asked for, and both on every path.
CallsReturn == \A w \in Workers : pc[w] # "out" ~> pc[w] = "out"
=============================================================================
