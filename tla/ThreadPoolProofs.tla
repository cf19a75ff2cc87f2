--------------------------- MODULE ThreadPoolProofs ---------------------------
(***************************************************************************)
(* Proofs about ThreadPool, for any number of clients, workers and jobs    *)
(* and any ring size.                                                      *)
(***************************************************************************)
EXTENDS ThreadPoolService, SequenceTheorems, TLAPS

-----------------------------------------------------------------------------
(* The ring.                                                               *)

\* The modulo of the ring only acts on the last slot.
LEMMA SuccSlot ==
  ASSUME NEW i \in Slots
  PROVE  Succ(i) = IF i = MAX_JOBS - 1 THEN 0 ELSE i + 1
<1>1. MAX_JOBS \in Nat /\ MAX_JOBS > 0
  BY PoolAssumption
<1>2. CASE i = MAX_JOBS - 1
  BY <1>1, <1>2 DEF Succ, Slots
<1>3. CASE i # MAX_JOBS - 1
  <2>1. i + 1 \in 0 .. MAX_JOBS - 1
    BY <1>1, <1>3 DEF Slots
  <2> QED BY <1>1, <1>3, <2>1 DEF Succ, Slots
<1> QED BY <1>2, <1>3

\* The slot after a slot is a slot.
LEMMA SuccInSlots ==
  ASSUME NEW i \in Slots
  PROVE  Succ(i) \in Slots
BY SuccSlot, PoolAssumption DEF Slots

\* Storing at the tail of a ring that is not full occupies one more slot.
LEMMA OccupiedAfterQueue ==
  ASSUME head \in Slots, tail \in Slots, ~ Full, head' = head, tail' = Succ(tail)
  PROVE  tail \notin Occupied /\ Occupied' = Occupied \union {tail}
BY SuccSlot, PoolAssumption DEF Full, Occupied, Slots

\* Taking from a ring that is not empty frees the slot of the head.
LEMMA OccupiedAfterTake ==
  ASSUME head \in Slots, tail \in Slots, head # tail, head' = Succ(head), tail' = tail
  PROVE  head \in Occupied /\ Occupied' = Occupied \ {head}
BY SuccSlot, PoolAssumption DEF Occupied, Slots

\* A ring whose ends meet is empty.
LEMMA OccupiedEmpty ==
  ASSUME head \in Slots, tail \in Slots, head = tail
  PROVE  Occupied = {}
BY PoolAssumption DEF Occupied, Slots

-----------------------------------------------------------------------------
(* The types.                                                              *)

\* The initial state is well typed.
LEMMA TypeInit == Init => TypeOK
<1>1. 0 \in Slots
  BY PoolAssumption DEF Slots
<1> SUFFICES ASSUME Init PROVE TypeOK
  OBVIOUS
<1> USE DEF Init
<1>2. job_queue \in [Slots -> Jobs \union {NULL}] /\ head \in Slots /\ tail \in Slots
  BY <1>1
<1>3. shutting_down \in BOOLEAN /\ heap \subseteq Jobs
  OBVIOUS
<1>4. done \in [Jobs -> BOOLEAN]
  OBVIOUS
<1>5. mutex \in [Jobs -> Clients \union Workers \union {NULL}]
  OBVIOUS
<1>6. cpc \in [Clients -> ClientPC] /\ cjob \in [Clients -> Jobs \union {NULL}]
  BY DEF ClientPC
<1>7. wpc \in [Workers -> WorkerPC] /\ wjob \in [Workers -> Jobs \union {NULL}]
  BY DEF WorkerPC
<1> QED BY <1>2, <1>3, <1>4, <1>5, <1>6, <1>7 DEF TypeOK

\* Every step keeps the types.
LEMMA TypeStep == TypeOK /\ [Next]_vars => TypeOK'
<1> SUFFICES ASSUME TypeOK, [Next]_vars PROVE TypeOK'
  OBVIOUS
<1> USE DEF TypeOK, ClientPC, WorkerPC
<1>1. ASSUME NEW c \in Clients, CreateJob(c) PROVE TypeOK'
  BY <1>1 DEF CreateJob, ring, Slots
<1>2. ASSUME NEW c \in Clients, QueueJob(c) PROVE TypeOK'
  <2>1. wpc' \in [Workers -> WorkerPC]
    BY <1>2 DEF QueueJob, Signal
  <2>2. Succ(tail) \in Slots
    BY SuccInSlots
  <2> QED BY <1>2, <2>1, <2>2 DEF QueueJob, Slots
<1>3. ASSUME NEW c \in Clients, LockJob(c) PROVE TypeOK'
  BY <1>3 DEF LockJob, ring, Slots
<1>4. ASSUME NEW c \in Clients, UnlockJob(c) PROVE TypeOK'
  BY <1>4 DEF UnlockJob, ring, Slots
<1>5. ASSUME NEW c \in Clients, FreeJob(c) PROVE TypeOK'
  BY <1>5 DEF FreeJob, ring, Slots
<1>6. ASSUME NEW c \in Clients, ClientSpuriousWakeup(c) PROVE TypeOK'
  BY <1>6 DEF ClientSpuriousWakeup, ring, Slots
<1>7. ASSUME NEW w \in Workers, Sleep(w) PROVE TypeOK'
  BY <1>7 DEF Sleep, ring, Slots
<1>8. ASSUME NEW w \in Workers, WorkerSpuriousWakeup(w) PROVE TypeOK'
  BY <1>8 DEF WorkerSpuriousWakeup, ring, Slots
<1>9. ASSUME NEW w \in Workers, Exit(w) PROVE TypeOK'
  BY <1>9 DEF Exit, ring, Slots
<1>10. ASSUME NEW w \in Workers, Take(w) PROVE TypeOK'
  <2>1. Succ(head) \in Slots
    BY SuccInSlots
  <2> QED BY <1>10, <2>1 DEF Take, NextHead, Slots
<1>11. ASSUME NEW w \in Workers, Execute(w) PROVE TypeOK'
  BY <1>11 DEF Execute, ring, Slots
<1>12. ASSUME NEW w \in Workers, Finish(w) PROVE TypeOK'
  BY <1>12 DEF Finish, Broadcast, ring, Slots
<1>13. ASSUME NEW w \in Workers, Unlock(w) PROVE TypeOK'
  BY <1>13 DEF Unlock, ring, Slots
<1>14. CASE Shutdown
  BY <1>14 DEF Shutdown, ring, Slots
<1>15. CASE UNCHANGED vars
  BY <1>15 DEF vars, ring, Slots
<1> QED
  BY <1>1, <1>2, <1>3, <1>4, <1>5, <1>6, <1>7, <1>8, <1>9, <1>10, <1>11, <1>12,
     <1>13, <1>14, <1>15 DEF Next, ClientStep, WorkerStep

\* Every variable of the pool keeps its type: in particular head and tail stay
\* inside the ring, whatever the interleaving.
THEOREM TypeCorrect == Spec => []TypeOK
BY TypeInit, TypeStep, PTL DEF Spec

-----------------------------------------------------------------------------
(* The inductive invariant.  Each job that the pool may still touch is     *)
(* pinned to the one client that waits for it, and each client that has    *)
(* stopped waiting has seen done under the job's mutex.                    *)

\* Job j is not done and the client that created it waits for it.
Awaited(j) ==
  /\ j \in heap
  /\ ~ done[j]
  /\ \E c \in Clients : cjob[c] = j /\ cpc[c] \in {"lock", "wait"}

OneOwner == \A b, c \in Clients : cjob[b] = cjob[c] /\ cjob[b] # NULL => b = c

ClientInv(c) ==
  /\ cpc[c] = "idle" => cjob[c] = NULL
  /\ cpc[c] # "idle" => cjob[c] \in heap
  /\ cpc[c] \in {"queue", "wait"} => ~ done[cjob[c]]
  /\ cpc[c] \in {"return", "free"} => done[cjob[c]]
  /\ cpc[c] = "return" => mutex[cjob[c]] = c

WorkerInv(w) ==
  /\ wpc[w] \in {"loop", "sleep", "exit"} => wjob[w] = NULL
  /\ wpc[w] \in {"run", "finish"} => Awaited(wjob[w])
  /\ wpc[w] = "unlock" => /\ wjob[w] \in heap /\ done[wjob[w]]
                          /\ mutex[wjob[w]] = w
                          /\ \E c \in Clients : cjob[c] = wjob[w] /\ cpc[c] = "lock"

RingInv ==
  /\ \A i \in Occupied : Awaited(job_queue[i])
  /\ \A i, k \in Occupied : job_queue[i] = job_queue[k] => i = k

DispatchInv ==
  /\ \A v, w \in Workers : wjob[v] = wjob[w] /\ wjob[v] # NULL => v = w
  /\ \A i \in Occupied : \A w \in Workers : wjob[w] # job_queue[i]

AwakeInv ==
  ~ shutting_down =>
    /\ \A w \in Workers : wpc[w] # "exit"
    /\ Occupied = {} \/ Workers = {} \/ \E w \in Workers : wpc[w] # "sleep"

PoolInv ==
  /\ TypeOK
  /\ OneOwner
  /\ \A c \in Clients : ClientInv(c)
  /\ \A w \in Workers : WorkerInv(w)
  /\ RingInv
  /\ DispatchInv
  /\ AwakeInv

\* The invariant holds initially: nothing is queued and nobody has a job.
LEMMA PoolInvInit == Init => PoolInv
<1> SUFFICES ASSUME Init PROVE PoolInv
  OBVIOUS
<1>1. TypeOK
  BY TypeInit
<1>2. Occupied = {}
  BY <1>1, OccupiedEmpty DEF Init, TypeOK
<1> QED
  BY <1>1, <1>2
  DEF Init, PoolInv, OneOwner, ClientInv, WorkerInv, RingInv, DispatchInv, AwakeInv

\* The invariant is preserved by every step.
LEMMA PoolInvStep == PoolInv /\ [Next]_vars => PoolInv'
<1> SUFFICES ASSUME PoolInv, [Next]_vars PROVE PoolInv'
  OBVIOUS
<1> USE DEF PoolInv, TypeOK
<1>0. TypeOK'
  BY TypeStep
<1>1. ASSUME NEW d \in Clients, CreateJob(d) PROVE PoolInv'
  <2> USE <1>1 DEF CreateJob, ring
  <2>1. Occupied' = Occupied
    BY DEF Occupied
  <2>2. OneOwner'
    BY DEF OneOwner, ClientInv
  <2>3. (\A c \in Clients : ClientInv(c))'
    BY DEF ClientInv
  <2>4. (\A w \in Workers : WorkerInv(w))'
    BY DEF WorkerInv, Awaited
  <2>5. RingInv'
    BY <2>1 DEF RingInv, Awaited
  <2>6. DispatchInv' /\ AwakeInv'
    BY <2>1 DEF DispatchInv, AwakeInv
  <2> QED BY <1>0, <2>2, <2>3, <2>4, <2>5, <2>6
<1>2. ASSUME NEW d \in Clients, QueueJob(d) PROVE PoolInv'
  <2> USE <1>2 DEF QueueJob
  <2> DEFINE stored == /\ tail \notin Occupied /\ Occupied' = Occupied \union {tail}
                       /\ job_queue' = [job_queue EXCEPT ![tail] = cjob[d]]
                       /\ tail \in Slots
             turnedAway == Occupied' = Occupied /\ job_queue' = job_queue
  <2>0. stored \/ turnedAway
    <3>1. CASE Full
      BY <3>1 DEF Occupied
    <3>2. CASE ~ Full
      BY <3>2, OccupiedAfterQueue
    <3> QED BY <3>1, <3>2
  <2>1. OneOwner'
    BY DEF OneOwner
  <2>2. (\A c \in Clients : ClientInv(c))'
    BY DEF ClientInv
  <2>3. (\A w \in Workers : WorkerInv(w))'
    BY DEF Signal, WorkerInv, Awaited
  <2>4. Awaited(cjob[d])'
    BY DEF Awaited, ClientInv
  <2>5. \A j : Awaited(j) => Awaited(j)'
    BY DEF Awaited
  <2>6. \A i \in Occupied : job_queue[i] # cjob[d]
    BY PoolAssumption DEF RingInv, Awaited, OneOwner
  <2>7. \A w \in Workers : wjob[w] # cjob[d]
    BY PoolAssumption DEF WorkerInv, Awaited, OneOwner, ClientInv, WorkerPC
  <2>8. Occupied \subseteq Slots
    BY DEF Occupied
  <2>9. RingInv'
    <3>1. CASE stored
      BY <2>4, <2>5, <2>6, <2>8, <3>1 DEF RingInv
    <3>2. CASE turnedAway
      BY <2>5, <3>2 DEF RingInv
    <3> QED BY <2>0, <3>1, <3>2
  <2>10. DispatchInv'
    <3>1. CASE stored
      BY <2>7, <2>8, <3>1 DEF DispatchInv
    <3>2. CASE turnedAway
      BY <3>2 DEF DispatchInv
    <3> QED BY <2>0, <3>1, <3>2
  <2>11. AwakeInv'
    <3>1. CASE Full
      BY <3>1 DEF AwakeInv, Occupied
    <3>2. CASE \A w \in Workers : wpc[w] # "sleep"
      BY <3>2 DEF AwakeInv, Signal
    <3>3. CASE ~ Full /\ \E w \in Workers : wpc[w] = "sleep"
      <4>1. PICK w \in Workers : wpc' = [wpc EXCEPT ![w] = "loop"]
        BY <3>3 DEF Signal
      <4> QED BY <4>1 DEF AwakeInv
    <3> QED BY <3>1, <3>2, <3>3
  <2> QED BY <1>0, <2>1, <2>2, <2>3, <2>9, <2>10, <2>11
<1>3. ASSUME NEW d \in Clients, LockJob(d) PROVE PoolInv'
  <2> USE <1>3 DEF LockJob, ring, SeenDone
  <2>1. Occupied' = Occupied
    BY DEF Occupied
  <2>2. (\A c \in Clients : ClientInv(c))'
    BY PoolAssumption DEF ClientInv
  <2>3. (\A w \in Workers : WorkerInv(w))'
    BY PoolAssumption DEF WorkerInv, Awaited
  <2>4. RingInv'
    BY <2>1 DEF RingInv, Awaited
  <2>5. OneOwner' /\ DispatchInv' /\ AwakeInv'
    BY <2>1 DEF OneOwner, DispatchInv, AwakeInv
  <2> QED BY <1>0, <2>2, <2>3, <2>4, <2>5
<1>4. ASSUME NEW d \in Clients, UnlockJob(d) PROVE PoolInv'
  <2> USE <1>4 DEF UnlockJob, ring
  <2>1. Occupied' = Occupied
    BY DEF Occupied
  <2>2. (\A c \in Clients : ClientInv(c))'
    BY DEF ClientInv
  <2>3. (\A w \in Workers : WorkerInv(w))'
    BY PoolAssumption DEF ClientInv, WorkerInv, Awaited
  <2>4. OneOwner' /\ RingInv' /\ DispatchInv' /\ AwakeInv'
    BY <2>1 DEF OneOwner, RingInv, DispatchInv, AwakeInv, Awaited
  <2> QED BY <1>0, <2>2, <2>3, <2>4
<1>5. ASSUME NEW d \in Clients, FreeJob(d) PROVE PoolInv'
  <2> USE <1>5 DEF FreeJob, ring
  <2>1. Occupied' = Occupied
    BY DEF Occupied
  <2>2. OneOwner'
    BY DEF OneOwner
  <2>3. (\A c \in Clients : ClientInv(c))'
    BY PoolAssumption DEF OneOwner, ClientInv
  <2>4. (\A w \in Workers : WorkerInv(w))'
    BY PoolAssumption DEF OneOwner, WorkerInv, Awaited
  <2>5. RingInv'
    BY <2>1 DEF RingInv, ClientInv, Awaited
  <2>6. DispatchInv' /\ AwakeInv'
    BY <2>1 DEF DispatchInv, AwakeInv
  <2> QED BY <1>0, <2>2, <2>3, <2>4, <2>5, <2>6
<1>6. ASSUME NEW d \in Clients, ClientSpuriousWakeup(d) PROVE PoolInv'
  <2> USE <1>6 DEF ClientSpuriousWakeup, ring
  <2>1. Occupied' = Occupied
    BY DEF Occupied
  <2>2. (\A c \in Clients : ClientInv(c))'
    BY DEF ClientInv
  <2>3. (\A w \in Workers : WorkerInv(w))'
    BY DEF WorkerInv, Awaited
  <2>4. RingInv'
    BY <2>1 DEF RingInv, Awaited
  <2>5. OneOwner' /\ DispatchInv' /\ AwakeInv'
    BY <2>1 DEF OneOwner, DispatchInv, AwakeInv
  <2> QED BY <1>0, <2>2, <2>3, <2>4, <2>5
<1>7. ASSUME NEW v \in Workers, Sleep(v) PROVE PoolInv'
  <2> USE <1>7 DEF Sleep, ring
  <2>1. Occupied' = Occupied
    BY DEF Occupied
  <2>2. (\A w \in Workers : WorkerInv(w))'
    BY DEF WorkerInv, Awaited
  <2>3. AwakeInv'
    BY <2>1, OccupiedEmpty DEF AwakeInv
  <2>4. OneOwner' /\ (\A c \in Clients : ClientInv(c))' /\ RingInv' /\ DispatchInv'
    BY <2>1 DEF OneOwner, ClientInv, RingInv, DispatchInv, Awaited
  <2> QED BY <1>0, <2>2, <2>3, <2>4
<1>8. ASSUME NEW v \in Workers, WorkerSpuriousWakeup(v) PROVE PoolInv'
  <2> USE <1>8 DEF WorkerSpuriousWakeup, ring
  <2>1. Occupied' = Occupied
    BY DEF Occupied
  <2>2. (\A w \in Workers : WorkerInv(w))'
    BY DEF WorkerInv, Awaited
  <2>3. AwakeInv'
    BY <2>1 DEF AwakeInv
  <2>4. OneOwner' /\ (\A c \in Clients : ClientInv(c))' /\ RingInv' /\ DispatchInv'
    BY <2>1 DEF OneOwner, ClientInv, RingInv, DispatchInv, Awaited
  <2> QED BY <1>0, <2>2, <2>3, <2>4
<1>9. ASSUME NEW v \in Workers, Exit(v) PROVE PoolInv'
  <2> USE <1>9 DEF Exit, ring
  <2>1. Occupied' = Occupied
    BY DEF Occupied
  <2>2. (\A w \in Workers : WorkerInv(w))'
    BY DEF WorkerInv, Awaited
  <2>3. AwakeInv'
    BY <2>1 DEF AwakeInv
  <2>4. OneOwner' /\ (\A c \in Clients : ClientInv(c))' /\ RingInv' /\ DispatchInv'
    BY <2>1 DEF OneOwner, ClientInv, RingInv, DispatchInv, Awaited
  <2> QED BY <1>0, <2>2, <2>3, <2>4
<1>10. ASSUME NEW v \in Workers, Take(v) PROVE PoolInv'
  <2> USE <1>10 DEF Take, ring, NextHead
  <2>0. head \in Occupied /\ Occupied' = Occupied \ {head}
    BY OccupiedAfterTake
  <2>1. OneOwner'
    BY DEF OneOwner
  <2>2. (\A c \in Clients : ClientInv(c))'
    BY DEF ClientInv
  <2>3. \A j : Awaited(j) => Awaited(j)'
    BY DEF Awaited
  <2>4. Awaited(job_queue[head]) /\ job_queue[head] # NULL
    BY <2>0, PoolAssumption DEF RingInv, Awaited
  <2>5. (\A w \in Workers : WorkerInv(w))'
    BY <2>3, <2>4 DEF WorkerInv
  <2>6. RingInv'
    BY <2>0, <2>3 DEF RingInv
  <2>7. DispatchInv'
    BY <2>0, <2>4 DEF DispatchInv, RingInv
  <2>8. AwakeInv'
    BY <2>0 DEF AwakeInv
  <2> QED BY <1>0, <2>1, <2>2, <2>5, <2>6, <2>7, <2>8
<1>11. ASSUME NEW v \in Workers, Execute(v) PROVE PoolInv'
  <2> USE <1>11 DEF Execute, ring
  <2>1. Occupied' = Occupied
    BY DEF Occupied
  <2>2. (\A w \in Workers : WorkerInv(w))'
    BY DEF WorkerInv, Awaited
  <2>3. AwakeInv'
    BY <2>1 DEF AwakeInv
  <2>4. OneOwner' /\ (\A c \in Clients : ClientInv(c))' /\ RingInv' /\ DispatchInv'
    BY <2>1 DEF OneOwner, ClientInv, RingInv, DispatchInv, Awaited
  <2> QED BY <1>0, <2>2, <2>3, <2>4
<1>12. ASSUME NEW v \in Workers, Finish(v) PROVE PoolInv'
  <2> USE <1>12 DEF Finish, ring, Broadcast
  <2>1. Occupied' = Occupied
    BY DEF Occupied
  <2>2. (\A c \in Clients : ClientInv(c))'
    BY PoolAssumption DEF OneOwner, ClientInv, WorkerInv, Awaited
  <2>3. (\A w \in Workers : WorkerInv(w))'
    BY PoolAssumption DEF WorkerInv, Awaited, DispatchInv
  <2>4. RingInv'
    BY <2>1 DEF RingInv, Awaited, DispatchInv
  <2>5. AwakeInv'
    BY <2>1 DEF AwakeInv
  <2>6. OneOwner' /\ DispatchInv'
    BY <2>1 DEF OneOwner, DispatchInv
  <2> QED BY <1>0, <2>2, <2>3, <2>4, <2>5, <2>6
<1>13. ASSUME NEW v \in Workers, Unlock(v) PROVE PoolInv'
  <2> USE <1>13 DEF Unlock, ring
  <2>1. Occupied' = Occupied
    BY DEF Occupied
  <2>2. (\A c \in Clients : ClientInv(c))'
    BY PoolAssumption DEF ClientInv, WorkerInv
  <2>3. (\A w \in Workers : WorkerInv(w))'
    BY DEF WorkerInv, Awaited
  <2>4. DispatchInv'
    BY <2>1, PoolAssumption DEF DispatchInv, RingInv, Awaited
  <2>5. AwakeInv'
    BY <2>1 DEF AwakeInv
  <2>6. OneOwner' /\ RingInv'
    BY <2>1 DEF OneOwner, RingInv, Awaited
  <2> QED BY <1>0, <2>2, <2>3, <2>4, <2>5, <2>6
<1>14. CASE Shutdown
  <2> USE <1>14 DEF Shutdown, ring
  <2>1. Occupied' = Occupied
    BY DEF Occupied
  <2>2. (\A w \in Workers : WorkerInv(w))'
    BY DEF WorkerInv, Awaited
  <2>3. AwakeInv'
    BY <2>1 DEF AwakeInv
  <2>4. OneOwner' /\ (\A c \in Clients : ClientInv(c))' /\ RingInv' /\ DispatchInv'
    BY <2>1 DEF OneOwner, ClientInv, RingInv, DispatchInv, Awaited
  <2> QED BY <1>0, <2>2, <2>3, <2>4
<1>15. CASE UNCHANGED vars
  <2> USE <1>15 DEF vars, ring
  <2>1. Occupied' = Occupied
    BY DEF Occupied
  <2> QED
    BY <1>0, <2>1
    DEF OneOwner, ClientInv, WorkerInv, RingInv, DispatchInv, AwakeInv, Awaited
<1> QED
  BY <1>1, <1>2, <1>3, <1>4, <1>5, <1>6, <1>7, <1>8,
     <1>9, <1>10, <1>11, <1>12, <1>13, <1>14, <1>15
  DEF Next, ClientStep, WorkerStep

\* The invariant holds in every reachable state.
LEMMA PoolInvariant == Spec => []PoolInv
BY PoolInvInit, PoolInvStep, PTL DEF Spec

-----------------------------------------------------------------------------
(* What it shows.                                                          *)

\* A worker that holds a job, or a slot that refers to one, implies a client that
\* waits for that job and has neither left the wait nor freed it.
LEMMA InFlightAwaited ==
  ASSUME PoolInv, NEW j \in InFlight
  PROVE  j \in heap /\ \E c \in Clients : cjob[c] = j /\ cpc[c] \in {"lock", "wait"}
<1>1. CASE \E i \in Occupied : j = job_queue[i]
  BY <1>1 DEF PoolInv, RingInv, Awaited
<1>2. CASE \E w \in Workers : j = wjob[w] /\ wpc[w] \in {"run", "finish", "unlock"}
  BY <1>2 DEF PoolInv, WorkerInv, Awaited
<1> QED BY <1>1, <1>2 DEF InFlight, Dispatched

\* free_job is never called on a job that the ring or a worker still refers to,
\* for any number of clients and workers and any ring size.
THEOREM NoUseAfterFreeHolds == Spec => []NoUseAfterFree
<1>1. PoolInv => NoUseAfterFree
  BY InFlightAwaited DEF NoUseAfterFree
<1> QED BY <1>1, PoolInvariant, PTL

\* worker_thread hands every job to one worker only, and a job that is with a
\* worker is no longer in the ring.
THEOREM NoDoubleDispatchHolds == Spec => []NoDoubleDispatch
<1>1. PoolInv => NoDoubleDispatch
  BY DEF PoolInv, RingInv, DispatchInv, NoDoubleDispatch, Dispatched
<1> QED BY <1>1, PoolInvariant, PTL

\* The signal of queue_job is never lost: as long as a job is queued and the pool is
\* not stopped, some worker is not asleep.
THEOREM QueuedJobHasWorkerHolds == Spec => []QueuedJobHasWorker
<1>1. PoolInv => QueuedJobHasWorker
  BY DEF PoolInv, AwakeInv, QueuedJobHasWorker
<1> QED BY <1>1, PoolInvariant, PTL

\* The broadcast of worker_thread is never lost: no client sleeps on a job that is done.
THEOREM DoneClientAwakeHolds == Spec => []DoneClientAwake
<1>1. PoolInv => DoneClientAwake
  BY DEF PoolInv, ClientInv, DoneClientAwake
<1> QED BY <1>1, PoolInvariant, PTL

\* A client leaves the wait of submit_single_command only when its job is done and
\* nobody else will touch it.
THEOREM ReturnMeansDoneHolds == Spec => []ReturnMeansDone
<1>1. PoolInv => ReturnMeansDone
  <2> SUFFICES ASSUME PoolInv, NEW c \in Clients, cpc[c] \in {"return", "free"}
               PROVE  done[cjob[c]] /\ cjob[c] \notin InFlight
    BY DEF ReturnMeansDone
  <2>1. done[cjob[c]] /\ cjob[c] \in heap
    BY DEF PoolInv, ClientInv
  <2>2. cjob[c] # NULL
    BY <2>1, PoolAssumption DEF PoolInv, TypeOK
  <2>3. ASSUME cjob[c] \in InFlight PROVE FALSE
    BY <2>2, <2>3, InFlightAwaited DEF PoolInv, OneOwner
  <2> QED BY <2>1, <2>3
<1> QED BY <1>1, PoolInvariant, PTL

-----------------------------------------------------------------------------
(* The overflow of the ring.                                               *)

\* A client whose job went over the limit of the ring stays in the wait for good:
\* no step of any thread changes that.
THEOREM OverflowStrandsCallerHolds == Spec => OverflowStrandsCaller
<1>1. PoolInv /\ [Next]_vars => \A c \in Clients : Dropped(c) => Dropped(c)'
  <2> SUFFICES ASSUME PoolInv, [Next]_vars, NEW c \in Clients, Dropped(c)
               PROVE  Dropped(c)'
    OBVIOUS
  <2> USE DEF PoolInv, TypeOK
  <2> DEFINE out == cpc[c] \in {"lock", "wait"} /\ ~ done[cjob[c]]
             unqueued == \A i \in Occupied : job_queue[i] # cjob[c]
             untaken == \A w \in Workers : wjob[w] # cjob[c]
  <2>1. cjob[c] \in heap /\ cjob[c] # NULL /\ out /\ unqueued /\ untaken
    BY PoolAssumption DEF Dropped, ClientInv, WorkerInv, WorkerPC, InFlight, Dispatched
  <2>2. SUFFICES (out /\ unqueued /\ untaken)'
    BY DEF Dropped, InFlight, Dispatched
  <2>3. ASSUME NEW d \in Clients, CreateJob(d) PROVE (out /\ unqueued /\ untaken)'
    BY <2>1, <2>3 DEF CreateJob, ring, Occupied
  <2>4. ASSUME NEW d \in Clients, QueueJob(d) PROVE (out /\ unqueued /\ untaken)'
    <3>1. cjob[d] # cjob[c] /\ out'
      BY <2>1, <2>4 DEF QueueJob, OneOwner
    <3>2. unqueued'
      <4>1. CASE Full
        BY <2>1, <2>4, <4>1 DEF QueueJob, Occupied
      <4>2. CASE ~ Full
        <5>1. Occupied' = Occupied \union {tail} /\ job_queue' = [job_queue EXCEPT ![tail] = cjob[d]]
          BY <2>4, <4>2, OccupiedAfterQueue DEF QueueJob
        <5> QED BY <2>1, <2>4, <3>1, <5>1 DEF QueueJob
      <4> QED BY <4>1, <4>2
    <3> QED BY <2>1, <2>4, <3>1, <3>2 DEF QueueJob
  <2>5. ASSUME NEW d \in Clients, LockJob(d) PROVE (out /\ unqueued /\ untaken)'
    BY <2>1, <2>5 DEF LockJob, SeenDone, ring, Occupied
  <2>6. ASSUME NEW d \in Clients, UnlockJob(d) PROVE (out /\ unqueued /\ untaken)'
    BY <2>1, <2>6 DEF UnlockJob, ring, Occupied
  <2>7. ASSUME NEW d \in Clients, FreeJob(d) PROVE (out /\ unqueued /\ untaken)'
    BY <2>1, <2>7 DEF FreeJob, ring, Occupied
  <2>8. ASSUME NEW d \in Clients, ClientSpuriousWakeup(d) PROVE (out /\ unqueued /\ untaken)'
    BY <2>1, <2>8 DEF ClientSpuriousWakeup, ring, Occupied
  <2>9. ASSUME NEW w \in Workers, Take(w) PROVE (out /\ unqueued /\ untaken)'
    <3>1. head \in Occupied /\ Occupied' = Occupied \ {head}
      BY <2>9, OccupiedAfterTake DEF Take, NextHead
    <3> QED BY <2>1, <2>9, <3>1 DEF Take
  <2>10. ASSUME NEW w \in Workers, Finish(w) PROVE (out /\ unqueued /\ untaken)'
    BY <2>1, <2>10 DEF Finish, Broadcast, ring, Occupied
  <2>11. ASSUME NEW w \in Workers, Unlock(w) PROVE (out /\ unqueued /\ untaken)'
    BY <2>1, <2>11 DEF Unlock, ring, Occupied
  <2>12. ASSUME NEW w \in Workers, Sleep(w) \/ WorkerSpuriousWakeup(w) \/ Exit(w) \/ Execute(w)
         PROVE (out /\ unqueued /\ untaken)'
    BY <2>1, <2>12 DEF Sleep, WorkerSpuriousWakeup, Exit, Execute, ring, Occupied
  <2>13. CASE Shutdown \/ UNCHANGED vars
    BY <2>1, <2>13 DEF Shutdown, vars, ring, Occupied
  <2> QED
    BY <2>3, <2>4, <2>5, <2>6, <2>7, <2>8, <2>9, <2>10, <2>11, <2>12, <2>13
    DEF Next, ClientStep, WorkerStep
<1> QED BY <1>1, PoolInvariant, PTL DEF Spec, OverflowStrandsCaller

-----------------------------------------------------------------------------
(* The pool implements JobService.  The queue of the service is read off   *)
(* the ring, so its places come first.                                     *)

\* The modulo of the ring takes one round off a position.
LEMMA WrapOnce ==
  ASSUME NEW x \in Nat, x < 2 * MAX_JOBS
  PROVE  x % MAX_JOBS = IF x < MAX_JOBS THEN x ELSE x - MAX_JOBS
<1>1. MAX_JOBS \in Nat /\ MAX_JOBS > 0
  BY PoolAssumption
<1>2. CASE x < MAX_JOBS
  BY <1>1, <1>2
<1>3. CASE x >= MAX_JOBS
  <2>1. x - MAX_JOBS \in 0 .. MAX_JOBS - 1
    BY <1>1, <1>3
  <2>2. x = MAX_JOBS * 1 + (x - MAX_JOBS)
    BY <1>1, <1>3
  <2> QED BY <1>1, <1>3, <2>1, <2>2
<1> QED BY <1>1, <1>2, <1>3

\* The slot of the i-th job of the queue.
Place(i) == (head + i - 1) % MAX_JOBS

LEMMA PlaceIs ==
  ASSUME head \in Slots, NEW i \in 1 .. MAX_JOBS
  PROVE  Place(i) = IF head + i - 1 < MAX_JOBS THEN head + i - 1 ELSE head + i - 1 - MAX_JOBS
BY WrapOnce, PoolAssumption DEF Place, Slots

\* The queue goes once through the occupied slots.
LEMMA Places ==
  ASSUME head \in Slots, tail \in Slots
  PROVE  /\ QueueLength \in 0 .. MAX_JOBS - 1
         /\ \A i \in 1 .. QueueLength : Place(i) \in Occupied
         /\ \A k \in Occupied : \E i \in 1 .. QueueLength : k = Place(i)
<1> USE PoolAssumption DEF Slots
<1>1. QueueLength \in 0 .. MAX_JOBS - 1
  BY DEF QueueLength
<1>2. ASSUME NEW i \in 1 .. QueueLength PROVE Place(i) \in Occupied
  <2>1. i \in 1 .. MAX_JOBS
    BY <1>1
  <2> QED BY <1>1, <2>1, PlaceIs DEF QueueLength, Occupied
<1>3. ASSUME NEW k \in Occupied PROVE \E i \in 1 .. QueueLength : k = Place(i)
  <2> DEFINE i == IF head <= k THEN k - head + 1 ELSE k + MAX_JOBS - head + 1
  <2>1. i \in 1 .. QueueLength
    BY DEF QueueLength, Occupied
  <2>2. i \in 1 .. MAX_JOBS
    BY <1>1, <2>1
  <2>3. Place(i) = k
    BY <2>1, <2>2, PlaceIs DEF QueueLength, Occupied
  <2> QED BY <2>1, <2>3
<1> QED BY <1>1, <1>2, <1>3

\* A job in the ring grows the queue at its end, a job that is taken shortens it at its
\* beginning.
LEMMA LengthAfterQueue ==
  ASSUME head \in Slots, tail \in Slots, ~ Full, head' = head, tail' = Succ(tail)
  PROVE  /\ QueueLength' = QueueLength + 1
         /\ QueueLength < MAX_JOBS - 1
         /\ Place(QueueLength + 1) = tail
<1> USE PoolAssumption DEF Slots
<1>1. QueueLength' = QueueLength + 1 /\ QueueLength < MAX_JOBS - 1
  BY SuccSlot DEF Full, QueueLength
<1>2. QueueLength + 1 \in 1 .. MAX_JOBS
  BY <1>1, Places
<1> QED BY <1>1, <1>2, PlaceIs DEF QueueLength

LEMMA LengthAfterTake ==
  ASSUME head \in Slots, tail \in Slots, head # tail, head' = Succ(head), tail' = tail
  PROVE  /\ QueueLength > 0
         /\ QueueLength' = QueueLength - 1
         /\ Place(1) = head
         /\ \A i \in 1 .. QueueLength - 1 : Place(i)' = Place(i + 1)
<1> USE PoolAssumption DEF Slots
<1>1. QueueLength > 0 /\ QueueLength' = QueueLength - 1
  BY SuccSlot DEF QueueLength
<1>2. Place(1) = head
  BY PlaceIs
<1>3. ASSUME NEW i \in 1 .. QueueLength - 1 PROVE Place(i)' = Place(i + 1)
  <2>1. i \in 1 .. MAX_JOBS - 1 /\ i + 1 \in 1 .. MAX_JOBS /\ head + i \in Nat /\ head + i < 2 * MAX_JOBS
    BY Places
  <2>2. Place(i + 1) = IF head + i < MAX_JOBS THEN head + i ELSE head + i - MAX_JOBS
    BY <2>1, PlaceIs
  <2>3. CASE head = MAX_JOBS - 1
    <3>1. head' = 0
      BY <2>3, SuccSlot
    <3>2. i - 1 \in Nat /\ i - 1 < 2 * MAX_JOBS /\ i - 1 < MAX_JOBS
      BY <2>1
    <3> QED BY <2>1, <2>2, <2>3, <3>1, <3>2, WrapOnce DEF Place
  <2>4. CASE head # MAX_JOBS - 1
    <3>1. head' = head + 1
      BY <2>4, SuccSlot
    <3> QED BY <2>1, <2>2, <2>4, <3>1, WrapOnce DEF Place
  <2> QED BY <2>3, <2>4
<1> QED BY <1>1, <1>2, <1>3

LEMMA LengthOfFull ==
  ASSUME head \in Slots, tail \in Slots, Full
  PROVE  QueueLength = MAX_JOBS - 1
BY SuccSlot, PoolAssumption DEF Full, QueueLength, Slots

-----------------------------------------------------------------------------
(* The callers in the queue and the phase of each.                         *)

\* The client that created a job is found from the job.
LEMMA OwnerOf ==
  ASSUME PoolInv, NEW c \in Clients, cjob[c] # NULL
  PROVE  Owner(cjob[c]) = c
BY DEF Owner, PoolInv, OneOwner

\* Client c waits for a job that is in the ring, or with a worker.
Queued(c) == cpc[c] \in {"lock", "wait"} /\ \E i \in Occupied : job_queue[i] = cjob[c]
Worked(c) == \E w \in Workers : wjob[w] = cjob[c] /\ wpc[w] \in {"run", "finish"}

Inside(c) == cpc[c] \notin {"idle", "queue"}

\* What the phase of a client says of the pool, place by place.
PhaseIs(c) ==
  /\ cpc[c] = "idle" => Phase(c) = "idle"
  /\ cpc[c] = "queue" => Phase(c) = "new"
  /\ Inside(c) =>
       /\ Worked(c) => Phase(c) = "running"
       /\ done[cjob[c]] => Phase(c) = "done"
       /\ Queued(c) => Phase(c) = "pending"
       /\ ~ Worked(c) /\ ~ done[cjob[c]] /\ ~ Queued(c) => Phase(c) = "dropped"

\* The i-th client in the queue is the one whose job is in the i-th place.
PendingIs ==
  /\ Pending \in Seq(Clients) /\ Len(Pending) = QueueLength
  /\ \A i \in 1 .. QueueLength : cjob[Pending[i]] = job_queue[Place(i)] /\ Queued(Pending[i])

LEMMA PhaseHolds ==
  ASSUME PoolInv, NEW c \in Clients
  PROVE  PhaseIs(c)
<1> USE DEF PoolInv, TypeOK, PhaseIs, Inside
<1>1. CASE cpc[c] \in {"idle", "queue"}
  <2>1. cjob[c] \notin Running
    BY <1>1, PoolAssumption DEF Running, WorkerInv, ClientInv, Awaited, OneOwner
  <2>2. ~ Dropped(c)
    BY <1>1 DEF Dropped
  <2> QED BY <1>1, <2>1, <2>2 DEF Phase
<1>2. CASE cpc[c] \notin {"idle", "queue"}
  <2>1. cjob[c] \in heap /\ cjob[c] # NULL
    BY <1>2, PoolAssumption DEF ClientInv
  <2>2. cjob[c] \in Running <=> Worked(c)
    BY DEF Running, Worked
  <2>3. Worked(c) => ~ done[cjob[c]] /\ ~ Queued(c)
    BY DEF Worked, Queued, WorkerInv, Awaited, DispatchInv
  <2>4. Queued(c) => ~ done[cjob[c]]
    BY DEF Queued, RingInv, Awaited
  <2>5. ~ done[cjob[c]] => cpc[c] \in {"lock", "wait"}
    BY <1>2 DEF ClientInv, ClientPC
  <2>6. Dropped(c) <=> ~ done[cjob[c]] /\ ~ Queued(c) /\ ~ Worked(c)
    <3>1. ASSUME NEW w \in Workers, wjob[w] = cjob[c], wpc[w] = "unlock" PROVE done[cjob[c]]
      BY <3>1 DEF WorkerInv
    <3> QED BY <2>5, <3>1 DEF Dropped, Queued, Worked, InFlight, Dispatched
  <2> QED BY <1>2, <2>2, <2>3, <2>4, <2>6 DEF Phase
<1> QED BY <1>1, <1>2

LEMMA PendingHolds ==
  ASSUME PoolInv
  PROVE  PendingIs
<1>1. head \in Slots /\ tail \in Slots /\ QueueLength \in Nat
  BY Places DEF PoolInv, TypeOK
<1>2. ASSUME NEW i \in 1 .. QueueLength
      PROVE  /\ Pending[i] \in Clients
             /\ cjob[Pending[i]] = job_queue[Place(i)]
             /\ Queued(Pending[i])
  <2>1. Place(i) \in Occupied
    BY <1>1, Places
  <2>2. PICK c \in Clients : cjob[c] = job_queue[Place(i)] /\ cpc[c] \in {"lock", "wait"}
    BY <2>1 DEF PoolInv, RingInv, Awaited
  <2>3. cjob[c] # NULL
    BY <2>1, <2>2, PoolAssumption DEF PoolInv, RingInv, Awaited, TypeOK
  <2>4. Pending[i] = Owner(job_queue[Place(i)])
    BY DEF Pending, Place
  <2>5. Pending[i] = c
    BY <2>2, <2>3, <2>4, OwnerOf
  <2> QED BY <2>1, <2>2, <2>5 DEF Queued
<1>3. Pending \in [1 .. QueueLength -> Clients]
  BY <1>2 DEF Pending
<1> QED BY <1>1, <1>2, <1>3 DEF PendingIs

\* The two facts, before and after a step.
Read == PendingIs /\ \A c \in Clients : PhaseIs(c)

LEMMA ReadHolds == PoolInv => Read
BY PendingHolds, PhaseHolds DEF Read

-----------------------------------------------------------------------------
(* What a step leaves alone.                                               *)

\* A step that leaves the ring alone, and the jobs of those in it, leaves the queue alone.
LEMMA SamePending ==
  ASSUME PoolInv, PoolInv', Read, Read', UNCHANGED ring,
         \A c \in Clients : Queued(c) => cjob'[c] = cjob[c]
  PROVE  Pending' = Pending
<1>1. QueueLength' = QueueLength /\ \A i : Place(i)' = Place(i)
  BY DEF ring, QueueLength, Place
<1>2. Len(Pending') = Len(Pending) /\ Pending \in Seq(Clients) /\ Pending' \in Seq(Clients)
      /\ QueueLength = Len(Pending)
  BY <1>1 DEF Read, PendingIs
<1>3. ASSUME NEW i \in 1 .. QueueLength PROVE Pending'[i] = Pending[i]
  <2>1. Pending[i] \in Clients /\ Pending'[i] \in Clients
    BY <1>2, <1>3
  <2>2. cjob'[Pending'[i]] = cjob'[Pending[i]]
    BY <1>1, <1>3, <2>1 DEF Read, PendingIs, ring
  <2>3. cjob'[Pending[i]] # NULL
    <3>1. Queued(Pending[i])
      BY <1>3 DEF Read, PendingIs
    <3>2. cjob[Pending[i]] \in heap
      BY <2>1, <3>1 DEF Queued, PoolInv, ClientInv
    <3> QED BY <2>1, <3>1, <3>2, PoolAssumption DEF PoolInv, TypeOK
  <2> QED BY <2>1, <2>2, <2>3 DEF PoolInv, OneOwner
<1> QED BY <1>2, <1>3, SeqEqual

\* A client keeps its phase when it stays inside or outside of the call and its job where it is.
LEMMA SamePhase ==
  ASSUME Read, Read', NEW c \in Clients, cpc[c] \in ClientPC,
         cpc'[c] = cpc[c] \/ (Inside(c) /\ Inside(c)'),
         Inside(c) => /\ Worked(c)' <=> Worked(c)
                      /\ Queued(c)' <=> Queued(c)
                      /\ done[cjob[c]]' <=> done[cjob[c]]
  PROVE  Phase(c)' = Phase(c)
BY DEF Read, PhaseIs, Inside, ClientPC

-----------------------------------------------------------------------------
(* Each step of the pool is a step of the service, or none that callers see. *)

phaseBar == [c \in Clients |-> Phase(c)]

\* A step that moves client c from one phase to another and leaves the others alone.
LEMMA OneMoves ==
  ASSUME NEW c \in Clients, NEW from, NEW to, Phase(c) = from, Phase(c)' = to,
         \A d \in Clients \ {c} : Phase(d)' = Phase(d)
  PROVE  Service!Moves(c, from, to)
BY DEF Service!Moves

\* A step that moves nobody.
LEMMA NobodyMoves ==
  ASSUME \A d \in Clients : Phase(d)' = Phase(d), Pending' = Pending,
         shutting_down' = shutting_down
  PROVE  UNCHANGED (Service!svars)
BY DEF Service!svars

LEMMA ServiceStep ==
  PoolInv /\ PoolInv' /\ Read /\ Read' /\ [Next]_vars
    => [Service!ServiceNext]_(Service!svars)
<1> SUFFICES ASSUME PoolInv, PoolInv', Read, Read', [Next]_vars
             PROVE  Service!ServiceNext \/ UNCHANGED (Service!svars)
  OBVIOUS
<1>0. \A c \in Clients : cpc[c] \in ClientPC
  BY DEF PoolInv, TypeOK
<1>1. ASSUME NEW c \in Clients, CreateJob(c) PROVE Service!Submit(c)
  <2> USE <1>1 DEF CreateJob, PoolInv, TypeOK
  <2>1. Phase(c) = "idle" /\ Phase(c)' = "new"
    BY DEF Read, PhaseIs
  <2>2. ASSUME NEW d \in Clients \ {c} PROVE Phase(d)' = Phase(d)
    <3>1. Inside(d) => (done[cjob[d]]' <=> done[cjob[d]])
      BY DEF ClientInv, Inside
    <3> QED BY <1>0, <3>1, SamePhase DEF Inside, Worked, Queued, Occupied, ring
  <2>3. Pending' = Pending
    BY SamePending DEF Queued
  <2> QED BY <2>1, <2>2, <2>3, OneMoves DEF Service!Submit
<1>2. ASSUME NEW c \in Clients, QueueJob(c) PROVE Service!Accept(c) \/ Service!Drop(c)
  <2> USE <1>2 DEF QueueJob, PoolInv, TypeOK
  <2>1. cjob[c] # NULL /\ cjob[c] \in heap /\ ~ done[cjob[c]] /\ Phase(c) = "new"
    BY PoolAssumption DEF ClientInv, Read, PhaseIs
  <2>2. ~ Worked(c)' /\ Inside(c)' /\ ~ done[cjob[c]]'
    BY <2>1 DEF Worked, Signal, WorkerInv, Awaited, OneOwner, Inside
  <2>3. ASSUME NEW d \in Clients \ {c}, Inside(d)
        PROVE  Worked(d)' <=> Worked(d)
    BY DEF Worked, Signal
  <2>4. ASSUME NEW d \in Clients \ {c}, Inside(d) PROVE cjob[d] # cjob[c]
    BY <2>1 DEF OneOwner
  <2>5. CASE Full
    <3>1. UNCHANGED ring /\ Occupied' = Occupied
      BY <2>5 DEF ring, Occupied
    <3>2. ASSUME NEW d \in Clients \ {c} PROVE Phase(d)' = Phase(d)
      BY <1>0, <2>3, <3>1, SamePhase DEF Inside, Queued, ring
    <3>3. Phase(c)' = "dropped"
      <4>1. ~ Queued(c)'
        BY <2>1, <3>1 DEF Queued, RingInv, Awaited, OneOwner, ring
      <4> QED BY <2>2, <4>1 DEF Read, PhaseIs
    <3>4. Pending' = Pending
      BY <3>1, SamePending
    <3>5. Len(Pending) = MAX_JOBS - 1
      BY <2>5, LengthOfFull DEF Read, PendingIs
    <3> QED BY <2>1, <3>2, <3>3, <3>4, <3>5, OneMoves DEF Service!Drop
  <2>6. CASE ~ Full
    <3>1. tail \notin Occupied /\ Occupied' = Occupied \union {tail} /\ tail \in Slots
          /\ job_queue' = [job_queue EXCEPT ![tail] = cjob[c]]
      BY <2>6, OccupiedAfterQueue
    <3>2. Occupied \subseteq Slots
      BY DEF Occupied
    <3>3. ASSUME NEW d \in Clients \ {c} PROVE Phase(d)' = Phase(d)
      <4>1. Inside(d) => (Queued(d)' <=> Queued(d))
        BY <2>4, <3>1, <3>2 DEF Queued
      <4> QED BY <1>0, <2>3, <4>1, SamePhase DEF Inside
    <3>4. Phase(c)' = "pending"
      BY <2>2, <3>1 DEF Read, PhaseIs, Queued
    <3>5. Pending' = Append(Pending, c)
      <4>1. QueueLength' = QueueLength + 1 /\ QueueLength < MAX_JOBS - 1 /\ Place(QueueLength + 1) = tail
        BY <2>6, LengthAfterQueue
      <4>2. QueueLength = Len(Pending) /\ Pending \in Seq(Clients)
            /\ QueueLength' = Len(Pending') /\ Pending' \in Seq(Clients)
        BY DEF Read, PendingIs
      <4>3. \A i : Place(i)' = Place(i)
        BY DEF Place
      <4>4. ASSUME NEW i \in 1 .. QueueLength PROVE Pending'[i] = Pending[i]
        <5>1. i \in 1 .. QueueLength' /\ Pending[i] \in Clients /\ Pending'[i] \in Clients
          BY <4>1, <4>2
        <5>2. Place(i) \in Occupied
          BY Places
        <5>3. cjob[Pending'[i]] = job_queue[Place(i)] /\ cjob[Pending[i]] = job_queue[Place(i)]
          BY <3>1, <3>2, <4>3, <5>1, <5>2 DEF Read, PendingIs
        <5>4. job_queue[Place(i)] # NULL
          BY <5>2, PoolAssumption DEF RingInv, Awaited
        <5> QED BY <5>1, <5>3, <5>4 DEF OneOwner
      <4>5. Pending'[QueueLength + 1] = c
        <5>1. PICK k \in Nat : k = QueueLength + 1
          BY <4>2
        <5>2. k \in 1 .. QueueLength' /\ Pending'[k] \in Clients
          BY <4>1, <4>2, <5>1
        <5>3. cjob'[Pending'[k]] = job_queue'[Place(k)']
          BY <5>2 DEF Read, PendingIs
        <5>4. cjob[Pending'[k]] = cjob[c]
          BY <3>1, <4>1, <4>3, <5>1, <5>3
        <5> QED BY <2>1, <5>1, <5>2, <5>4 DEF OneOwner
      <4>6. Append(Pending, c) \in Seq(Clients) /\ Len(Append(Pending, c)) = QueueLength + 1
            /\ \A i \in 1 .. QueueLength : Append(Pending, c)[i] = Pending[i]
            /\ Append(Pending, c)[QueueLength + 1] = c
        BY <4>2, AppendProperties
      <4> QED BY <4>1, <4>2, <4>4, <4>5, <4>6, SeqEqual
    <3>6. Len(Pending) < MAX_JOBS - 1
      BY <2>6, LengthAfterQueue DEF Read, PendingIs
    <3> QED BY <2>1, <3>3, <3>4, <3>5, <3>6, OneMoves DEF Service!Accept
  <2> QED BY <2>5, <2>6
<1>3. ASSUME NEW c \in Clients, LockJob(c) \/ ClientSpuriousWakeup(c) \/ UnlockJob(c)
      PROVE  UNCHANGED (Service!svars)
  <2> USE <1>3 DEF LockJob, ClientSpuriousWakeup, UnlockJob, PoolInv, TypeOK
  <2>1. UNCHANGED <<ring, done, cjob, wpc, wjob, shutting_down>>
        /\ \A d \in Clients : cpc'[d] = cpc[d] \/ (cpc[d] \in {"lock", "wait"} /\ cpc'[d] \in {"wait", "lock", "return"})
                             \/ (cpc[d] = "return" /\ cpc'[d] = "free")
    OBVIOUS
  <2>2. ASSUME NEW d \in Clients PROVE Phase(d)' = Phase(d)
    <3>1. cpc'[d] = cpc[d] \/ (Inside(d) /\ Inside(d)')
      BY <2>1 DEF Inside
    <3>2. Inside(d) => (Worked(d)' <=> Worked(d)) /\ (done[cjob[d]]' <=> done[cjob[d]])
      BY <2>1 DEF Worked
    <3>3. Inside(d) => (Queued(d)' <=> Queued(d))
      <4>1. ASSUME Queued(d) \/ Queued(d)' PROVE ~ done[cjob[d]] /\ cpc[d] \notin {"return", "free"}
        BY <2>1, <4>1 DEF Queued, RingInv, Awaited, ClientInv, Occupied, ring
      <4>2. ASSUME ~ done[cjob[d]], Inside(d) PROVE cpc'[d] \in {"lock", "wait"}
        BY <4>2, <2>1, <1>0 DEF Inside, ClientInv, ClientPC
      <4> QED BY <2>1, <4>1, <4>2, <1>0 DEF Queued, Inside, Occupied, ring, ClientPC
    <3> QED BY <1>0, <3>1, <3>2, <3>3, SamePhase
  <2>3. Pending' = Pending
    BY <2>1, SamePending
  <2> QED BY <2>1, <2>2, <2>3, NobodyMoves
<1>4. ASSUME NEW c \in Clients, FreeJob(c) PROVE Service!Return(c)
  <2> USE <1>4 DEF FreeJob, PoolInv, TypeOK
  <2>1. Phase(c) = "done" /\ Phase(c)' = "idle"
    BY DEF Read, PhaseIs, Inside, ClientInv
  <2>2. ASSUME NEW d \in Clients \ {c} PROVE Phase(d)' = Phase(d)
    BY <1>0, SamePhase DEF Inside, Worked, Queued, Occupied, ring
  <2>3. Pending' = Pending
    BY SamePending DEF Queued
  <2> QED BY <2>1, <2>2, <2>3, OneMoves DEF Service!Return
<1>5. ASSUME NEW w \in Workers, Sleep(w) \/ WorkerSpuriousWakeup(w) \/ Exit(w) \/ Execute(w) \/ Unlock(w)
      PROVE  UNCHANGED (Service!svars)
  <2> USE <1>5 DEF Sleep, WorkerSpuriousWakeup, Exit, Execute, Unlock, PoolInv, TypeOK
  <2>1. UNCHANGED <<ring, done, cjob, cpc, shutting_down>>
    OBVIOUS
  <2>2. ASSUME NEW d \in Clients PROVE Phase(d)' = Phase(d)
    <3>1. Worked(d)' <=> Worked(d)
      BY DEF Worked
    <3> QED BY <1>0, <2>1, <3>1, SamePhase DEF Queued, Occupied, ring
  <2>3. Pending' = Pending
    BY <2>1, SamePending
  <2> QED BY <2>1, <2>2, <2>3, NobodyMoves
<1>6. ASSUME NEW w \in Workers, Take(w) PROVE Service!Start
  <2> USE <1>6 DEF Take, NextHead, PoolInv, TypeOK
  <2>1. /\ QueueLength > 0 /\ QueueLength' = QueueLength - 1 /\ Place(1) = head
        /\ \A i \in 1 .. QueueLength - 1 : Place(i)' = Place(i + 1)
    BY LengthAfterTake
  <2>2. head \in Occupied /\ Occupied' = Occupied \ {head}
    BY OccupiedAfterTake
  <2>3. /\ QueueLength = Len(Pending) /\ Pending \in Seq(Clients)
        /\ QueueLength' = Len(Pending') /\ Pending' \in Seq(Clients)
    BY DEF Read, PendingIs
  <2>4. PICK c \in Clients : c = Pending[1]
    BY <2>1, <2>3
  <2>5. cjob[c] = job_queue[head] /\ Queued(c) /\ cjob[c] # NULL
    BY <2>1, <2>2, <2>3, <2>4, PoolAssumption DEF Read, PendingIs, RingInv, Awaited
  <2>6. Worked(c)' /\ Inside(c) /\ Inside(c)'
    BY <2>5 DEF Worked, Queued, Inside
  <2>7. Phase(c) = "pending" /\ Phase(c)' = "running"
    BY <2>5, <2>6 DEF Read, PhaseIs
  <2>8. ASSUME NEW d \in Clients \ {c} PROVE Phase(d)' = Phase(d)
    <3>1. Inside(d) => cjob[d] # cjob[c] /\ cjob[d] # NULL
      BY <2>5, PoolAssumption DEF OneOwner, ClientInv, Inside
    <3>2. Inside(d) => (Queued(d)' <=> Queued(d))
      BY <2>2, <2>5, <3>1 DEF Queued
    <3>3. Inside(d) => (Worked(d)' <=> Worked(d))
      BY <2>5, <3>1 DEF Worked
    <3> QED BY <1>0, <3>1, <3>2, <3>3, SamePhase
  <2>9. Pending' = Tail(Pending)
    <3>1. Pending # <<>>
      BY <2>1, <2>3
    <3>2. Tail(Pending) \in Seq(Clients) /\ Len(Tail(Pending)) = QueueLength'
          /\ \A i \in 1 .. QueueLength - 1 : Tail(Pending)[i] = Pending[i + 1]
      BY <2>1, <2>3, <3>1, HeadTailProperties
    <3>3. ASSUME NEW i \in 1 .. QueueLength' PROVE Pending'[i] = Pending[i + 1]
      <4>1. PICK k \in 1 .. QueueLength : k = i + 1
        BY <2>1, <2>3
      <4>2. Pending'[i] \in Clients /\ Pending[k] \in Clients /\ i \in 1 .. QueueLength - 1
        BY <2>1, <2>3, <4>1
      <4>3. PICK p : p = Place(k)
        OBVIOUS
      <4>4. Place(i)' = p
        BY <2>1, <4>1, <4>2, <4>3
      <4>5. cjob[Pending'[i]] = job_queue[p] /\ cjob[Pending[k]] = job_queue[p]
        BY <4>1, <4>3, <4>4 DEF Read, PendingIs
      <4>6. p \in Occupied
        BY <4>1, <4>3, Places
      <4>7. job_queue[p] # NULL
        BY <4>6, PoolAssumption DEF RingInv, Awaited
      <4> QED BY <4>1, <4>2, <4>5, <4>7 DEF OneOwner
    <3> QED BY <2>1, <2>3, <3>2, <3>3, SeqEqual
  <2>10. Pending # <<>> /\ Head(Pending) = c
    BY <2>1, <2>3, <2>4
  <2> QED BY <2>7, <2>8, <2>9, <2>10, OneMoves DEF Service!Start
<1>7. ASSUME NEW w \in Workers, Finish(w) PROVE \E c \in Clients : Service!Complete(c)
  <2> USE <1>7 DEF Finish, Broadcast, PoolInv, TypeOK
  <2>1. PICK c \in Clients : cjob[c] = wjob[w] /\ cpc[c] \in {"lock", "wait"}
    BY DEF WorkerInv, Awaited
  <2>2. cjob[c] \in heap /\ cjob[c] # NULL
    BY <2>1, PoolAssumption DEF ClientInv
  <2>3. Worked(c) /\ Inside(c) /\ Inside(c)' /\ done[cjob[c]]'
    BY <2>1, <2>2 DEF Worked, Inside
  <2>4. Phase(c) = "running" /\ Phase(c)' = "done"
    BY <2>3 DEF Read, PhaseIs
  <2>5. ASSUME NEW d \in Clients PROVE cpc'[d] = cpc[d] \/ (cpc[d] = "wait" /\ cpc'[d] = "lock")
    OBVIOUS
  <2>6. ASSUME NEW d \in Clients \ {c} PROVE Phase(d)' = Phase(d)
    <3>1. Inside(d) => cjob[d] # cjob[c] /\ cjob[d] \in heap
      BY <2>2 DEF OneOwner, ClientInv, Inside
    <3>2. Inside(d) => (Worked(d)' <=> Worked(d)) /\ (done[cjob[d]]' <=> done[cjob[d]])
      BY <2>1, <2>2, <3>1 DEF Worked
    <3>3. Queued(d)' <=> Queued(d)
      BY <2>5 DEF Queued, Occupied, ring
    <3> QED BY <1>0, <2>5, <3>2, <3>3, SamePhase DEF Inside
  <2>7. Pending' = Pending
    BY SamePending
  <2> QED BY <2>4, <2>6, <2>7, OneMoves DEF Service!Complete
<1>8. ASSUME Shutdown PROVE Service!Close
  <2> USE <1>8 DEF Shutdown, PoolInv, TypeOK
  <2>1. ASSUME NEW d \in Clients PROVE Phase(d)' = Phase(d)
    <3>1. Worked(d)' <=> Worked(d)
      BY DEF Worked
    <3> QED BY <1>0, <3>1, SamePhase DEF Queued, Occupied, ring
  <2>2. Pending' = Pending
    BY SamePending
  <2> QED BY <2>1, <2>2 DEF Service!Close
<1>9. CASE UNCHANGED vars
  <2> USE <1>9 DEF vars
  <2>1. ASSUME NEW d \in Clients PROVE Phase(d)' = Phase(d)
    BY <1>0, SamePhase DEF Queued, Worked, Occupied, ring
  <2>2. Pending' = Pending
    BY SamePending DEF ring
  <2> QED BY <2>1, <2>2, NobodyMoves
<1> QED
  BY <1>1, <1>2, <1>3, <1>4, <1>5, <1>6, <1>7, <1>8, <1>9
  DEF Next, ClientStep, WorkerStep, Service!ServiceNext

\* An empty pool is an idle service.
LEMMA ServiceInitially == Init => Service!ServiceInit
<1> SUFFICES ASSUME Init PROVE Service!ServiceInit
  OBVIOUS
<1>1. PoolInv /\ Read
  BY PoolInvInit, ReadHolds
<1>2. Pending = <<>>
  BY <1>1, PoolAssumption DEF Init, Read, PendingIs, QueueLength
<1>3. \A c \in Clients : Phase(c) = "idle"
  BY <1>1 DEF Init, Read, PhaseIs
<1> QED BY <1>2, <1>3 DEF Init, Service!ServiceInit

\* submit_single_command, queue_job and worker_thread together are the bounded FIFO of
\* JobService: commands start in the order in which they were accepted, each once, and a
\* caller gets control back only after its command has run, for any ring and any threads.
THEOREM ImplementsServiceSafetyHolds == Spec => ImplementsServiceSafety
<1>1. PoolInv /\ PoolInv' /\ [Next]_vars => [Service!ServiceNext]_(Service!svars)
  <2>1. PoolInv' => Read'
    BY ReadHolds, PTL
  <2> QED BY <2>1, ReadHolds, ServiceStep
<1> QED BY <1>1, PoolInvariant, ServiceInitially, PTL DEF Spec, ImplementsServiceSafety
===============================================================================
