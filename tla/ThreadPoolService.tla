--------------------------- MODULE ThreadPoolService ---------------------------
(***************************************************************************)
(* The thread pool implements JobService.  The FIFO of callers is read off *)
(* the ring: slot head + i holds the job of the (i+1)-th caller.           *)
(***************************************************************************)
EXTENDS ThreadPool, Sequences

\* The number of occupied slots.
QueueLength == IF head <= tail THEN tail - head ELSE tail + MAX_JOBS - head

\* The client that created job j.
Owner(j) == CHOOSE c \in Clients : cjob[c] = j

Pending == [i \in 1 .. QueueLength |-> Owner(job_queue[(head + i - 1) % MAX_JOBS])]

\* A worker between taking a job and setting its done flag.
Running == {wjob[w] : w \in {v \in Workers : wpc[v] \in {"run", "finish"}}}

Phase(c) ==
  CASE cpc[c] = "idle"          -> "idle"
    [] cpc[c] = "queue"         -> "new"
    [] cjob[c] \in Running      -> "running"
    [] cpc[c] \notin {"idle", "queue"} /\ done[cjob[c]] -> "done"
    [] Dropped(c)               -> "dropped"
    [] OTHER                    -> "pending"

Service == INSTANCE JobService WITH
             Capacity <- MAX_JOBS - 1,
             pending  <- Pending,
             phase    <- [c \in Clients |-> Phase(c)],
             closed   <- shutting_down

\* Callers see a bounded FIFO: commands start in the order they were accepted,
\* each at most once, and control comes back only after completion.
ImplementsServiceSafety == Service!ServiceInit /\ [][Service!ServiceNext]_(Service!svars)

\* The same with the promise that accepted commands are started, completed and
\* returned from, unless the pool is stopped.
ImplementsService == Service!ServiceSpec
=============================================================================
