------------------------------ MODULE ThreadPool ------------------------------
(***************************************************************************)
(* The worker pool of flinstone_profiles_tasks_v9/threadpool.cpp: a ring   *)
(* of MAX_JOBS job pointers, worker threads that sleep on the pool's       *)
(* condition variable, and callers of submit_single_command that sleep on  *)
(* the condition variable of their own job until it is done.               *)
(*                                                                         *)
(* A critical section of g_pool.mutex never blocks except in               *)
(* pthread_cond_wait, so each one is a single action.  The mutex of a job  *)
(* is a variable: whether it is held decides when the job may be freed.    *)
(***************************************************************************)
EXTENDS Naturals

CONSTANTS Clients,   \* threads that call submit_single_command
          Workers,   \* the NUM_WORKERS pool threads
          Jobs,      \* addresses calloc can return for a job_node
          MAX_JOBS,  \* slots of the ring, of which one is always empty
          NULL       \* the null pointer, and the owner of a free mutex

ASSUME PoolAssumption ==
  /\ MAX_JOBS \in Nat \ {0}
  /\ NULL \notin Jobs \union Clients \union Workers
  /\ Clients \intersect Workers = {}

VARIABLES job_queue, head, tail,  \* the ring of g_pool
          shutting_down,          \* the flag of g_pool that stops the workers
          heap,                   \* the job_nodes that are allocated
          done,                   \* job->done
          mutex,                  \* owner of job->mutex
          cpc, cjob,              \* where each client is, and its local "job"
          wpc, wjob               \* where each worker is, and its local "job"

ring == <<job_queue, head, tail>>
vars == <<job_queue, head, tail, shutting_down, heap, done, mutex,
          cpc, cjob, wpc, wjob>>

Slots == 0 .. MAX_JOBS - 1

ClientPC == {"idle",      \* outside submit_single_command
             "queue",     \* job created, about to call queue_job
             "lock",      \* about to take job->mutex, first or after a wait
             "wait",      \* asleep in pthread_cond_wait(&job->cond)
             "return",    \* saw done, holds job->mutex
             "free"}      \* released job->mutex, about to call free_job
WorkerPC == {"loop",      \* about to take g_pool.mutex
             "sleep",     \* asleep in pthread_cond_wait(&g_pool.cond)
             "run",       \* holds a job, about to run its command
             "finish",    \* command has returned, about to take job->mutex
             "unlock",    \* has set done and broadcast, holds job->mutex
             "exit"}      \* has left worker_thread

TypeOK ==
  /\ job_queue \in [Slots -> Jobs \union {NULL}]
  /\ head \in Slots /\ tail \in Slots
  /\ shutting_down \in BOOLEAN
  /\ heap \subseteq Jobs
  /\ done \in [Jobs -> BOOLEAN]
  /\ mutex \in [Jobs -> Clients \union Workers \union {NULL}]
  /\ cpc \in [Clients -> ClientPC]
  /\ cjob \in [Clients -> Jobs \union {NULL}]
  /\ wpc \in [Workers -> WorkerPC]
  /\ wjob \in [Workers -> Jobs \union {NULL}]

Init ==
  /\ job_queue = [i \in Slots |-> NULL]
  /\ head = 0 /\ tail = 0
  /\ shutting_down = FALSE
  /\ heap = {}
  /\ done = [j \in Jobs |-> FALSE]
  /\ mutex = [j \in Jobs |-> NULL]
  /\ cpc = [c \in Clients |-> "idle"]
  /\ cjob = [c \in Clients |-> NULL]
  /\ wpc = [w \in Workers |-> "loop"]
  /\ wjob = [w \in Workers |-> NULL]

-----------------------------------------------------------------------------
(* The ring.                                                               *)

\* The slot after i.
Succ(i) == (i + 1) % MAX_JOBS

\* The slots from head up to, but not including, tail.
Occupied == IF head <= tail THEN {i \in Slots : head <= i /\ i < tail}
                            ELSE {i \in Slots : head <= i \/ i < tail}

\* The jobs some worker has taken and not yet let go of.
Dispatched == {wjob[w] : w \in {v \in Workers : wpc[v] \in {"run", "finish", "unlock"}}}

\* Every job the pool may still touch.
InFlight == {job_queue[i] : i \in Occupied} \union Dispatched

\* The client inside submit_single_command whose job went over the ring's limit.
Dropped(c) == /\ cpc[c] \in {"lock", "wait"}
              /\ ~ done[cjob[c]]
              /\ cjob[c] \notin InFlight

-----------------------------------------------------------------------------
(* Plausible mistakes, each a variant of the definition that follows it.   *)
(* No specification uses them; runs substitute one to show that a property *)
(* can tell the difference.                                                *)

\* Faulty: the signal is forgotten, so a sleeping worker is not woken.
NoSignal == UNCHANGED wpc

\* pthread_cond_signal(&g_pool.cond): wakes one sleeping worker if there is any.
Signal ==
  LET asleep == {w \in Workers : wpc[w] = "sleep"} IN
  IF asleep = {} THEN UNCHANGED wpc
  ELSE \E w \in asleep : wpc' = [wpc EXCEPT ![w] = "loop"]

\* Faulty: the full ring is not recognised, so its oldest job is overwritten.
NeverFull == FALSE

\* The test of queue_job: one slot stays empty to tell a full ring from an empty one.
Full == Succ(tail) = head

\* Faulty: nobody is told that the job is done.
NoBroadcast(j) == UNCHANGED cpc

\* pthread_cond_broadcast(&job->cond): its waiters go back to taking job->mutex.
Broadcast(j) ==
  cpc' = [c \in Clients |-> IF cpc[c] = "wait" /\ cjob[c] = j THEN "lock" ELSE cpc[c]]

\* Faulty: the wait is an "if", so a spurious wakeup ends it.
SeenDoneIf(c) == TRUE

\* The condition of "while (!job->done)".
SeenDone(c) == done[cjob[c]]

\* Faulty: the slot is read but the head stays, so the job is taken again.
HeadStays == head

\* Faulty: the head is counted up and never wraps around.
HeadUnwrapped == head + 1

\* The new head of worker_thread.
NextHead == Succ(head)

-----------------------------------------------------------------------------
(* submit_single_command.                                                  *)

\* create_job(line): calloc, done = 0, a fresh mutex and condition variable.
CreateJob(c) ==
  /\ cpc[c] = "idle"
  /\ \E j \in Jobs \ heap :
       /\ heap' = heap \union {j}
       /\ done' = [done EXCEPT ![j] = FALSE]
       /\ mutex' = [mutex EXCEPT ![j] = NULL]
       /\ cjob' = [cjob EXCEPT ![c] = j]
  /\ cpc' = [cpc EXCEPT ![c] = "queue"]
  /\ UNCHANGED <<ring, shutting_down, wpc, wjob>>

\* queue_job(job): stored at the tail, or reported as an overflow and forgotten.
QueueJob(c) ==
  /\ cpc[c] = "queue"
  /\ cpc' = [cpc EXCEPT ![c] = "lock"]
  /\ \/ Full /\ UNCHANGED <<job_queue, tail, wpc>>
     \/ /\ ~ Full
        /\ job_queue' = [job_queue EXCEPT ![tail] = cjob[c]]
        /\ tail' = Succ(tail)
        /\ Signal
  /\ UNCHANGED <<head, shutting_down, heap, done, mutex, cjob, wjob>>

\* pthread_mutex_lock(&job->mutex), or its reacquisition inside pthread_cond_wait,
\* then the test of the loop: waiting releases the mutex again.
LockJob(c) ==
  /\ cpc[c] = "lock"
  /\ mutex[cjob[c]] = NULL
  /\ \/ /\ SeenDone(c)
        /\ mutex' = [mutex EXCEPT ![cjob[c]] = c]
        /\ cpc' = [cpc EXCEPT ![c] = "return"]
     \/ /\ ~ SeenDone(c)
        /\ cpc' = [cpc EXCEPT ![c] = "wait"]
        /\ UNCHANGED mutex
  /\ UNCHANGED <<ring, shutting_down, heap, done, cjob, wpc, wjob>>

\* pthread_cond_wait may return although nobody signalled.
ClientSpuriousWakeup(c) ==
  /\ cpc[c] = "wait"
  /\ cpc' = [cpc EXCEPT ![c] = "lock"]
  /\ UNCHANGED <<ring, shutting_down, heap, done, mutex, cjob, wpc, wjob>>

\* pthread_mutex_unlock(&job->mutex) after the loop.
UnlockJob(c) ==
  /\ cpc[c] = "return"
  /\ mutex' = [mutex EXCEPT ![cjob[c]] = NULL]
  /\ cpc' = [cpc EXCEPT ![c] = "free"]
  /\ UNCHANGED <<ring, shutting_down, heap, done, cjob, wpc, wjob>>

\* free_job(job), and the return to the caller.
FreeJob(c) ==
  /\ cpc[c] = "free"
  /\ heap' = heap \ {cjob[c]}
  /\ cjob' = [cjob EXCEPT ![c] = NULL]
  /\ cpc' = [cpc EXCEPT ![c] = "idle"]
  /\ UNCHANGED <<ring, shutting_down, done, mutex, wpc, wjob>>

-----------------------------------------------------------------------------
(* worker_thread.                                                          *)

\* The inner loop: nothing to do, so wait.
Sleep(w) ==
  /\ wpc[w] = "loop"
  /\ head = tail /\ ~ shutting_down
  /\ wpc' = [wpc EXCEPT ![w] = "sleep"]
  /\ UNCHANGED <<ring, shutting_down, heap, done, mutex, cpc, cjob, wjob>>

WorkerSpuriousWakeup(w) ==
  /\ wpc[w] = "sleep"
  /\ wpc' = [wpc EXCEPT ![w] = "loop"]
  /\ UNCHANGED <<ring, shutting_down, heap, done, mutex, cpc, cjob, wjob>>

\* shutting_down is looked at before the ring: queued jobs are left behind.
Exit(w) ==
  /\ wpc[w] = "loop"
  /\ shutting_down
  /\ wpc' = [wpc EXCEPT ![w] = "exit"]
  /\ UNCHANGED <<ring, shutting_down, heap, done, mutex, cpc, cjob, wjob>>

\* The job at the head is taken; the slot keeps its stale pointer.
Take(w) ==
  /\ wpc[w] = "loop"
  /\ ~ shutting_down /\ head # tail
  /\ wjob' = [wjob EXCEPT ![w] = job_queue[head]]
  /\ head' = NextHead
  /\ wpc' = [wpc EXCEPT ![w] = IF job_queue[head] = NULL THEN "loop" ELSE "run"]
  /\ UNCHANGED <<job_queue, tail, shutting_down, heap, done, mutex, cpc, cjob>>

\* execute_command_str(job->command_str) returns.
Execute(w) ==
  /\ wpc[w] = "run"
  /\ wpc' = [wpc EXCEPT ![w] = "finish"]
  /\ UNCHANGED <<ring, shutting_down, heap, done, mutex, cpc, cjob, wjob>>

\* pthread_mutex_lock(&job->mutex); job->done = 1; pthread_cond_broadcast(&job->cond).
Finish(w) ==
  /\ wpc[w] = "finish"
  /\ mutex[wjob[w]] = NULL
  /\ mutex' = [mutex EXCEPT ![wjob[w]] = w]
  /\ done' = [done EXCEPT ![wjob[w]] = TRUE]
  /\ Broadcast(wjob[w])
  /\ wpc' = [wpc EXCEPT ![w] = "unlock"]
  /\ UNCHANGED <<ring, shutting_down, heap, cjob, wjob>>

\* pthread_mutex_unlock(&job->mutex): the worker's last access to the job.
Unlock(w) ==
  /\ wpc[w] = "unlock"
  /\ mutex' = [mutex EXCEPT ![wjob[w]] = NULL]
  /\ wjob' = [wjob EXCEPT ![w] = NULL]
  /\ wpc' = [wpc EXCEPT ![w] = "loop"]
  /\ UNCHANGED <<ring, shutting_down, heap, done, cpc, cjob>>

\* External: whoever stops the pool sets the flag and wakes every worker.
Shutdown ==
  /\ ~ shutting_down
  /\ shutting_down' = TRUE
  /\ wpc' = [w \in Workers |-> IF wpc[w] = "sleep" THEN "loop" ELSE wpc[w]]
  /\ UNCHANGED <<ring, heap, done, mutex, cpc, cjob, wjob>>

-----------------------------------------------------------------------------
\* What a client does once it is inside submit_single_command.
ClientStep(c) == QueueJob(c) \/ LockJob(c) \/ UnlockJob(c) \/ FreeJob(c)
WorkerStep(w) == Sleep(w) \/ Exit(w) \/ Take(w) \/ Execute(w) \/ Finish(w) \/ Unlock(w)

Next ==
  \/ \E c \in Clients : CreateJob(c) \/ ClientStep(c) \/ ClientSpuriousWakeup(c)
  \/ \E w \in Workers : WorkerStep(w) \/ WorkerSpuriousWakeup(w)
  \/ Shutdown

Spec == Init /\ [][Next]_vars

\* Threads that can run do run.  Nobody has to submit a job, to shut the pool
\* down, or to wake without a reason.
Fairness == /\ \A c \in Clients : WF_vars(ClientStep(c))
            /\ \A w \in Workers : WF_vars(WorkerStep(w))

FairSpec == Spec /\ Fairness

-----------------------------------------------------------------------------
(* Safety.                                                                 *)

\* While the ring or a worker refers to a job, the client that created it is
\* still in the wait of submit_single_command and has not freed it.
NoUseAfterFree ==
  \A j \in InFlight :
    /\ j \in heap
    /\ \E c \in Clients : cjob[c] = j /\ cpc[c] \in {"lock", "wait"}

\* A job is in one slot or with one worker, never in two places: each command
\* is handed out at most once.
NoDoubleDispatch ==
  /\ \A i, k \in Occupied : job_queue[i] = job_queue[k] => i = k
  /\ \A v, w \in Workers : wjob[v] = wjob[w] /\ wjob[v] # NULL => v = w
  /\ {job_queue[i] : i \in Occupied} \intersect Dispatched = {}

\* No lost wakeup of the pool: as long as a job is queued, some worker is on its
\* way to the ring, whichever worker the signal reached and whenever it came.
QueuedJobHasWorker ==
  Occupied # {} /\ Workers # {} /\ ~ shutting_down => \E w \in Workers : wpc[w] \notin {"sleep", "exit"}

\* No lost wakeup of a client: it never sleeps on a job that is already done.
DoneClientAwake == \A c \in Clients : cpc[c] = "wait" => ~ done[cjob[c]]

\* A client that has returned from the wait is the only one left with its job.
ReturnMeansDone ==
  \A c \in Clients : cpc[c] \in {"return", "free"} => done[cjob[c]] /\ cjob[c] \notin InFlight

\* An overflow is final: once queue_job has turned a job away, its caller stays in
\* submit_single_command for good, because nothing will ever set job->done.
OverflowStrandsCaller ==
  [][\A c \in Clients : Dropped(c) => Dropped(c)']_vars

(* Liveness. *)

\* Unless the pool is shut down, a job that got into the ring is run and its
\* caller returns.
QueuedJobReturns ==
  \A c \in Clients :
    (cpc[c] \in {"lock", "wait"} /\ cjob[c] \in InFlight) ~> (cpc[c] = "idle" \/ shutting_down)
=============================================================================
