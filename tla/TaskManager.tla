------------------------------ MODULE TaskManager ------------------------------
(***************************************************************************)
(* Background tasks: flinstone_profiles_tasks_v9/src/task.cpp together     *)
(* with the part of execute_command_str (interpreter.cpp) that every       *)
(* command passes through, task_gc and append_history.  Shell threads run  *)
(* commands; "cmd &" makes a Task whose thread runs execute_command_str    *)
(* itself.  Task t is the t-th Task allocated; its thread has the same     *)
(* name.                                                                   *)
(*                                                                         *)
(* External: the POSIX threads library.  A pthread_t is a handle that goes *)
(* back to the library when its thread has been joined and may then be     *)
(* given to a new thread.  Misused handles behave as glibc makes them      *)
(* behave: see JoinFails, JoinBegin and Cancelled.                         *)
(***************************************************************************)
EXTENDS Naturals, Sequences

CONSTANTS Shells,         \* threads that run commands: main, pool workers
          MaxTasks,       \* bound: tasks created in a behaviour
          MaxCommands,    \* bound: commands run by each shell thread
          Handles,        \* values a pthread_t can take
          ShellCommands,  \* kinds of command the shell threads run
          TaskCommands,   \* kinds of command the tasks run
          None

Tasks   == 1 .. MaxTasks
Threads == Shells \union Tasks
Commands == {"plain", "submit", "kill", "wait", "list"}
Status  == {"PENDING", "RUNNING", "DONE", "CANCELLED"}

ASSUME TaskAssumption ==
  /\ MaxTasks \in Nat /\ MaxCommands \in Nat
  /\ ShellCommands \subseteq Commands /\ TaskCommands \subseteq Commands
  /\ Shells \intersect Tasks = {}
  /\ None \notin Threads \union Handles

VARIABLES tasks,          \* the array "tasks", task_count entries
          next_task_id,
          status, id, handle,  \* fields of each Task; handle is t->thread
          allocated,      \* how many Tasks malloc has returned so far
          freed,          \* Tasks passed to free
          task_mutex, history_mutex,  \* their owners
          occupant,       \* the unjoined thread behind each handle
          joiner,         \* the thread blocked in pthread_join on each handle
          cancelled,      \* threads with a cancellation request
          pc, arg, reg,   \* each thread's position, local Task and local id
          place,          \* each thread's i in the loop of task_wait
          disturbed,      \* threads whose search of the array was overtaken by a change of it
          budget,         \* commands each shell may still run
          crashed         \* the process is gone

lists == <<tasks, next_task_id, allocated, freed>>
fields == <<status, id, handle>>
locks == <<task_mutex, history_mutex>>
library == <<occupant, joiner, cancelled>>
search == <<place, disturbed>>
vars == <<lists, fields, locks, library, pc, arg, reg, search, budget, crashed>>

PC == {"idle",              \* a shell between two commands
       "none", "start",     \* a task without a thread; at the top of task_wrapper
       "gc", "sweep",       \* task_gc: taking task_mutex; looping with it held
       "gcjoin", "gcjoining",   \* task_gc calls pthread_join; is blocked in it
       "history", "append", \* append_history: taking history_mutex; writing
       "dispatch",          \* choosing what the command does
       "store", "insert", "create", "report",  \* the steps of task_submit
       "kill", "list",      \* about to run task_kill, task_list
       "wait", "entry", "test",  \* task_wait's loop: its condition, loading an entry, testing it
       "join", "joining",   \* task_wait calls pthread_join; is blocked in it
       "print",             \* task_list prints with task_mutex held
       "finish",            \* task_wrapper after the command
       "return", "ended"}   \* past its last access to the Task; thread gone

TypeOK ==
  /\ tasks \in Seq(Tasks)
  /\ next_task_id \in 1 .. MaxTasks + 1
  /\ status \in [Tasks -> Status] /\ id \in [Tasks -> 0 .. MaxTasks]
  /\ handle \in [Tasks -> Handles \union {None}]
  /\ allocated \in 0 .. MaxTasks /\ freed \subseteq Tasks
  /\ task_mutex \in Threads \union {None} /\ history_mutex \in Threads \union {None}
  /\ occupant \in [Handles -> Tasks \union {None}]
  /\ joiner \in [Handles -> Threads \union {None}]
  /\ cancelled \subseteq Tasks
  /\ pc \in [Threads -> PC]
  /\ arg \in [Threads -> Tasks \union {None}]
  /\ reg \in [Threads -> 0 .. MaxTasks]
  /\ place \in [Threads -> Nat] /\ disturbed \subseteq Threads
  /\ budget \in [Shells -> 0 .. MaxCommands]
  /\ crashed \in BOOLEAN

Init ==
  /\ tasks = <<>> /\ next_task_id = 1
  /\ status = [t \in Tasks |-> "PENDING"] /\ id = [t \in Tasks |-> 0]
  /\ handle = [t \in Tasks |-> None]
  /\ allocated = 0 /\ freed = {}
  /\ task_mutex = None /\ history_mutex = None
  /\ occupant = [h \in Handles |-> None] /\ joiner = [h \in Handles |-> None]
  /\ cancelled = {}
  /\ pc = [x \in Threads |-> IF x \in Shells THEN "idle" ELSE "none"]
  /\ arg = [x \in Threads |-> None] /\ reg = [x \in Threads |-> 0]
  /\ place = [x \in Threads |-> 0] /\ disturbed = {}
  /\ budget = [x \in Shells |-> MaxCommands]
  /\ crashed = FALSE

At(x, label) == ~ crashed /\ pc[x] = label
Goto(x, label) == pc' = [pc EXCEPT ![x] = label]

\* Where a thread goes when execute_command_str returns.
CommandEnd(x) == IF x \in Shells THEN "idle" ELSE "finish"

\* The first listed task with identifier i, as the loop of task_kill finds it; None
\* if there is none.
Find(i) ==
  LET hits == {k \in DOMAIN tasks : id[tasks[k]] = i} IN
  IF hits = {} THEN None ELSE tasks[CHOOSE k \in hits : \A l \in hits : k <= l]

-----------------------------------------------------------------------------
(* Plausible mistakes, used by runs in place of the definition after them. *)

\* Faulty: task_gc also collects tasks that are still running, or not yet running.
FinishedOrRunning(t) == status[t] # "PENDING"
FinishedOrPending(t) == status[t] # "RUNNING"

\* The test of task_gc.
Finished(t) == status[t] \in {"DONE", "CANCELLED"}

\* External: the errors of pthread_join, which no caller looks at.  The handle is
\* stale (ESRCH), another thread is already joining it (EINVAL), or the thread
\* would wait for itself or for a thread that waits for it (EDEADLK; a pending
\* cancellation is acted on first, so the call then blocks instead).
JoinFails(x, h) ==
  \/ occupant[h] = None
  \/ joiner[h] # None
  \/ /\ x \notin cancelled
     /\ \/ occupant[h] = x
        \/ \E g \in Handles : joiner[g] = occupant[h] /\ occupant[g] = x

\* Faulty: the cancellation is overlooked when the command ends.
DoneAlways(t) == "DONE"

\* The status task_wrapper leaves behind.
FinalStatus(t) == IF status[t] # "CANCELLED" THEN "DONE" ELSE "CANCELLED"

\* What next_task_id++ leaves in next_task_id.
NextId(x) == reg[x] + 1

\* Faulty: ++next_task_id, the identifier is the counter's new value.
PreIncremented(x) == reg[x] + 1

\* The value of next_task_id++.
NewId(x) == reg[x]

\* The statuses task_kill acts on.
Killable(t) == status[t] \in {"PENDING", "RUNNING"}

-----------------------------------------------------------------------------
(* A command from its beginning to its dispatch, in any thread.            *)

StartCommand(x) ==
  /\ At(x, "idle") /\ budget[x] > 0
  /\ budget' = [budget EXCEPT ![x] = @ - 1]
  /\ Goto(x, "gc")
  /\ UNCHANGED <<lists, fields, locks, library, arg, reg, search, crashed>>

\* task_gc takes task_mutex and keeps it across every pthread_join.
GcLock(x) ==
  /\ At(x, "gc") /\ task_mutex = None
  /\ task_mutex' = x
  /\ Goto(x, "sweep")
  /\ UNCHANGED <<lists, fields, history_mutex, library, arg, reg, search, budget, crashed>>

\* What is left of the array s when the Tasks in F are squeezed out of it.
Squeezed(s, F) ==
  LET kept[n \in 0 .. Len(s)] ==
        IF n = 0 THEN <<>>
        ELSE IF s[n] \in F THEN kept[n - 1] ELSE Append(kept[n - 1], s[n])
  IN kept[Len(s)]

\* The loop: the next finished task is joined; when none is left the freed ones
\* are squeezed out of the array and task_mutex is released.  The code moves the
\* entries it keeps one by one on the way; only task_wait can see that, and what it
\* may see meanwhile is said in WaitLoad.
GcSweep(x) ==
  /\ At(x, "sweep")
  /\ LET hits == {k \in DOMAIN tasks : tasks[k] \notin freed /\ Finished(tasks[k])} IN
     IF hits # {}
     THEN /\ arg' = [arg EXCEPT ![x] = tasks[CHOOSE k \in hits : \A l \in hits : k <= l]]
          /\ Goto(x, "gcjoin")
          /\ UNCHANGED <<tasks, task_mutex>>
     ELSE /\ tasks' = Squeezed(tasks, freed)
          /\ task_mutex' = None
          /\ Goto(x, "history")
          /\ UNCHANGED arg
  /\ UNCHANGED <<next_task_id, allocated, freed, fields, history_mutex, library, reg,
                 search, budget, crashed>>

HistoryLock(x) ==
  /\ At(x, "history") /\ history_mutex = None
  /\ history_mutex' = x
  /\ Goto(x, "append")
  /\ UNCHANGED <<lists, fields, task_mutex, library, arg, reg, search, budget, crashed>>

\* Faulty: the return for a history file that cannot be opened skips the unlock.
HistoryAppendLocked(x) ==
  /\ At(x, "append")
  /\ \/ history_mutex' = None
     \/ UNCHANGED history_mutex
  /\ Goto(x, "dispatch")
  /\ UNCHANGED <<lists, fields, task_mutex, library, arg, reg, search, budget, crashed>>

\* The line is written if the file opens; either way the mutex is released.
HistoryAppend(x) ==
  /\ At(x, "append")
  /\ history_mutex' = None
  /\ Goto(x, "dispatch")
  /\ UNCHANGED <<lists, fields, task_mutex, library, arg, reg, search, budget, crashed>>

\* What the line asks for.  "plain" is any command that leaves the tasks alone;
\* task_submit begins with malloc and the load of next_task_id; task_wait begins at
\* place 0, perhaps while another thread's task_gc is at the array.
Dispatch(x) ==
  /\ At(x, "dispatch")
  /\ \E cmd \in IF x \in Shells THEN ShellCommands ELSE TaskCommands :
       \/ /\ cmd = "plain"
          /\ Goto(x, CommandEnd(x))
          /\ UNCHANGED <<allocated, arg, reg, disturbed>>
       \/ /\ cmd = "submit" /\ allocated < MaxTasks
          /\ allocated' = allocated + 1
          /\ arg' = [arg EXCEPT ![x] = allocated + 1]
          /\ reg' = [reg EXCEPT ![x] = next_task_id]
          /\ Goto(x, "store")
          /\ UNCHANGED disturbed
       \/ /\ cmd \in {"kill", "wait"}
          /\ \E i \in 1 .. MaxTasks : reg' = [reg EXCEPT ![x] = i]
          /\ disturbed' = IF cmd = "wait" /\ \E k \in DOMAIN tasks : tasks[k] \in freed
                          THEN disturbed \union {x} ELSE disturbed
          /\ Goto(x, cmd)
          /\ UNCHANGED <<allocated, arg>>
       \/ /\ cmd = "list"
          /\ Goto(x, "list")
          /\ UNCHANGED <<allocated, arg, reg, disturbed>>
  /\ UNCHANGED <<tasks, next_task_id, freed, fields, locks, library, place, budget, crashed>>

-----------------------------------------------------------------------------
(* pthread_join, called by task_gc with task_mutex held and by task_wait.  *)

\* A thread in the loop of task_wait.
Searching(x) == pc[x] \in {"wait", "entry", "test"}

\* What follows the call: task_gc frees the Task, under the hands of whoever is
\* searching the array; task_wait returns.
Joined(x) ==
  \/ /\ pc[x] \in {"gcjoin", "gcjoining"}
     /\ freed' = freed \union {arg[x]}
     /\ disturbed' = disturbed \union {y \in Threads : Searching(y)}
     /\ Goto(x, "sweep")
  \/ /\ pc[x] \in {"join", "joining"}
     /\ Goto(x, CommandEnd(x))
     /\ UNCHANGED <<freed, disturbed>>

\* Faulty: pthread_join is left out, so nobody waits for the thread.
JoinLeftOut(x) ==
  /\ At(x, "gcjoin") \/ At(x, "join")
  /\ Joined(x)
  /\ UNCHANGED <<tasks, next_task_id, allocated, fields, locks, library, arg, reg, place, budget,
                 crashed>>

\* What the field t->thread can be read as: when the Task has been freed, anything.
\* None is garbage, also what the field holds before pthread_create has stored it.
ThreadRead(t) == IF t \in freed THEN Handles \union {None} ELSE {handle[t]}

\* t->thread is read and passed to pthread_join, which dereferences it.
JoinBegin(x) ==
  /\ At(x, "gcjoin") \/ At(x, "join")
  /\ \E h \in ThreadRead(arg[x]) :
     \/ /\ h = None
        /\ crashed' = TRUE
        /\ UNCHANGED <<freed, disturbed, joiner, pc>>
     \/ /\ h # None /\ JoinFails(x, h)
        /\ Joined(x)
        /\ UNCHANGED <<joiner, crashed>>
     \/ /\ h # None /\ ~ JoinFails(x, h)
        /\ joiner' = [joiner EXCEPT ![h] = x]
        /\ Goto(x, IF pc[x] = "gcjoin" THEN "gcjoining" ELSE "joining")
        /\ UNCHANGED <<freed, disturbed, crashed>>
  /\ UNCHANGED <<tasks, next_task_id, allocated, fields, locks, occupant, cancelled,
                 arg, reg, place, budget>>

JoinEnd(x) ==
  /\ At(x, "gcjoining") \/ At(x, "joining")
  /\ \E h \in Handles :
       /\ joiner[h] = x /\ occupant[h] # None /\ pc[occupant[h]] = "ended"
       /\ joiner' = [joiner EXCEPT ![h] = None]
       /\ occupant' = [occupant EXCEPT ![h] = None]
  /\ Joined(x)
  /\ UNCHANGED <<tasks, next_task_id, allocated, fields, locks, cancelled, arg, reg,
                 place, budget, crashed>>

-----------------------------------------------------------------------------
(* task_submit, after the load of next_task_id.                            *)

\* The incremented identifier is stored, without a lock; the Task is filled in.
SubmitStore(x) ==
  /\ At(x, "store")
  /\ next_task_id' = NextId(x)
  /\ id' = [id EXCEPT ![arg[x]] = NewId(x)]
  /\ status' = [status EXCEPT ![arg[x]] = "PENDING"]
  /\ Goto(x, "insert")
  /\ UNCHANGED <<tasks, allocated, freed, handle, locks, library, arg, reg, search, budget, crashed>>

\* realloc may move the array away from a task_wait that is about to load from it.
SubmitInsert(x) ==
  /\ At(x, "insert") /\ task_mutex = None
  /\ tasks' = Append(tasks, arg[x])
  /\ disturbed' = disturbed \union {y \in Threads : pc[y] = "entry"}
  /\ Goto(x, "create")
  /\ UNCHANGED <<next_task_id, allocated, freed, fields, locks, library, arg, reg, place,
                 budget, crashed>>

\* pthread_create, after the Task has become visible.  Its result is ignored: with
\* no thread to be had, the Task stays in the list without one.
SubmitCreate(x) ==
  /\ At(x, "create")
  /\ \/ \E h \in Handles :
          /\ occupant[h] = None
          /\ occupant' = [occupant EXCEPT ![h] = arg[x]]
          /\ handle' = [handle EXCEPT ![arg[x]] = h]
          /\ pc' = [pc EXCEPT ![x] = "report", ![arg[x]] = "start"]
     \/ /\ \A h \in Handles : occupant[h] # None
        /\ Goto(x, "report")
        /\ UNCHANGED <<occupant, handle>>
  /\ UNCHANGED <<lists, status, id, locks, joiner, cancelled, arg, reg, search, budget, crashed>>

\* return t->id; the interpreter prints it.
SubmitReport(x) ==
  /\ At(x, "report")
  /\ Goto(x, CommandEnd(x))
  /\ UNCHANGED <<lists, fields, locks, library, arg, reg, search, budget, crashed>>

-----------------------------------------------------------------------------
(* task_kill, task_wait, task_list.                                        *)

TaskKill(x) ==
  /\ At(x, "kill") /\ task_mutex = None
  /\ LET t == Find(reg[x]) IN
     IF t # None /\ Killable(t)
     THEN /\ status' = [status EXCEPT ![t] = "CANCELLED"]
          /\ cancelled' = IF status[t] = "RUNNING"
                          THEN cancelled \union {occupant[handle[t]]} ELSE cancelled
     ELSE UNCHANGED <<status, cancelled>>
  /\ Goto(x, CommandEnd(x))
  /\ UNCHANGED <<lists, id, handle, locks, occupant, joiner, arg, reg, search, budget, crashed>>

\* The loop of task_wait takes no lock, so other threads change the array under it.
SearchOver(x) ==
  /\ place' = [place EXCEPT ![x] = 0]
  /\ disturbed' = disturbed \ {x}

\* i < task_count; return -1 when it is not.
WaitLook(x) ==
  /\ At(x, "wait")
  /\ \/ /\ place[x] < Len(tasks)
        /\ Goto(x, "entry")
        /\ UNCHANGED search
     \/ /\ place[x] >= Len(tasks)
        /\ Goto(x, CommandEnd(x))
        /\ SearchOver(x)
  /\ UNCHANGED <<lists, fields, locks, library, arg, reg, budget, crashed>>

\* Task *t = tasks[i].  Once the array has changed under the search it may be any
\* entry, old or moved there, also of an array that realloc has given back; what else
\* is there is no Task, and t->id crashes.
WaitLoad(x) ==
  /\ At(x, "entry")
  /\ \/ \E t \in Tasks :
          /\ \/ place[x] < Len(tasks) /\ t = tasks[place[x] + 1]
             \/ x \in disturbed /\ (t \in freed \/ \E k \in DOMAIN tasks : tasks[k] = t)
          /\ arg' = [arg EXCEPT ![x] = t]
          /\ Goto(x, "test")
          /\ UNCHANGED crashed
     \/ /\ x \in disturbed
        /\ crashed' = TRUE
        /\ UNCHANGED <<arg, pc>>
  /\ UNCHANGED <<lists, fields, locks, library, reg, search, budget>>

\* t->id == id; in a Task that has been freed, t->id is anything.
WaitTest(x) ==
  /\ At(x, "test")
  /\ \/ /\ arg[x] \in freed \/ id[arg[x]] = reg[x]
        /\ Goto(x, "join")
        /\ SearchOver(x)
     \/ /\ arg[x] \in freed \/ id[arg[x]] # reg[x]
        /\ place' = [place EXCEPT ![x] = @ + 1]
        /\ Goto(x, "wait")
        /\ UNCHANGED disturbed
  /\ UNCHANGED <<lists, fields, locks, library, arg, reg, budget, crashed>>

ListLock(x) ==
  /\ At(x, "list") /\ task_mutex = None
  /\ task_mutex' = x
  /\ Goto(x, "print")
  /\ UNCHANGED <<lists, fields, history_mutex, library, arg, reg, search, budget, crashed>>

ListPrint(x) ==
  /\ At(x, "print")
  /\ task_mutex' = None
  /\ Goto(x, CommandEnd(x))
  /\ UNCHANGED <<lists, fields, history_mutex, library, arg, reg, search, budget, crashed>>

-----------------------------------------------------------------------------
(* task_wrapper.                                                           *)

WrapperStart(t) ==
  /\ At(t, "start") /\ task_mutex = None
  /\ status' = [status EXCEPT ![t] = "RUNNING"]
  /\ Goto(t, "gc")
  /\ UNCHANGED <<lists, id, handle, locks, library, arg, reg, search, budget, crashed>>

WrapperFinish(t) ==
  /\ At(t, "finish") /\ task_mutex = None
  /\ status' = [status EXCEPT ![t] = FinalStatus(t)]
  /\ Goto(t, "return")
  /\ UNCHANGED <<lists, id, handle, locks, library, arg, reg, search, budget, crashed>>

ThreadEnd(t) ==
  /\ At(t, "return")
  /\ Goto(t, "ended")
  /\ UNCHANGED <<lists, fields, locks, library, arg, reg, search, budget, crashed>>

\* External: deferred cancellation.  A cancelled thread ends at its next call that
\* does I/O or blocks in pthread_join; locking a mutex is no such call, and a mutex
\* the thread holds stays locked.
Cancelled(t) ==
  /\ ~ crashed /\ t \in cancelled
  /\ pc[t] \in {"append", "dispatch", "print", "gcjoining", "joining"}
  /\ Goto(t, "ended")
  /\ joiner' = [h \in Handles |-> IF joiner[h] = t THEN None ELSE joiner[h]]
  /\ UNCHANGED <<lists, fields, locks, occupant, cancelled, arg, reg, search, budget, crashed>>

-----------------------------------------------------------------------------
\* A thread inside execute_command_str.
CommandStep(x) ==
  \/ GcLock(x) \/ GcSweep(x) \/ HistoryLock(x) \/ HistoryAppend(x) \/ Dispatch(x)
  \/ JoinBegin(x) \/ JoinEnd(x)
  \/ SubmitStore(x) \/ SubmitInsert(x) \/ SubmitCreate(x) \/ SubmitReport(x)
  \/ TaskKill(x) \/ WaitLook(x) \/ WaitLoad(x) \/ WaitTest(x)
  \/ ListLock(x) \/ ListPrint(x)

TaskStep(t) == CommandStep(t) \/ WrapperStart(t) \/ WrapperFinish(t) \/ ThreadEnd(t) \/ Cancelled(t)

Next ==
  \/ \E x \in Shells : StartCommand(x) \/ CommandStep(x)
  \/ \E t \in Tasks : TaskStep(t)

Spec == Init /\ [][Next]_vars

\* A thread that can run does run; nobody has to type a command.
Fairness == /\ \A x \in Shells : WF_vars(CommandStep(x))
            /\ \A t \in Tasks : WF_vars(TaskStep(t))

FairSpec == Spec /\ Fairness

-----------------------------------------------------------------------------
(* Safety.                                                                 *)

\* A task's own thread does not use the Task or its command after task_gc has freed
\* them, also when the task was killed, or when task_gc's pthread_join fails because a
\* waiter is joining the thread already (task.cpp:26-32, 109-111).
FreedTaskIsUnused == \A t \in freed : pc[t] \in {"return", "ended"}

\* A task that is waiting to run or running stays in the list, where task_list,
\* task_kill and task_wait look, whoever collects meanwhile.
LiveTaskListed ==
  \A t \in Tasks : pc[t] \notin {"none", "return", "ended"} => \E k \in DOMAIN tasks : tasks[k] = t

\* What it takes for a step to crash the process.  Either task_wait: its search was
\* overtaken by a change of the array, or the Task it found has been freed since or has no
\* thread yet, or never gets one (task.cpp:41-48, 92-95).  Or task_gc, and then
\* for a task that was killed before it had a thread (74-78, 108-109); what has run
\* is collected safely, whatever the other threads do.
CrashTakesKillOrWait ==
  [][~ crashed /\ crashed' =>
       \E x \in Threads :
         \/ pc[x] = "entry" /\ x \in disturbed
         \/ pc[x] = "join" /\ (arg[x] \in freed \/ pc[arg[x]] = "none")
         \/ pc[x] = "gcjoin" /\ status[arg[x]] = "CANCELLED" /\ pc[arg[x]] = "none"]_vars

\* What has been decided about a task that has run stays decided: neither the end
\* of its command nor another kill changes it.
VerdictIsFinal ==
  [][\A t \in Tasks : status[t] = "DONE" \/ (status[t] = "CANCELLED" /\ t \in cancelled)
                      => status'[t] = status[t]]_vars

\* "wait" gives control back only when the command of the task it found is over, or
\* when no listed task has that identifier; unless a task was collected while it searched,
\* for then it may pass by the entry it looks for (task.cpp:92-99, 113-117).
WaitMeansOver ==
  [][\A x \in Shells : /\ pc[x] \in {"wait", "entry", "test", "join", "joining"}
                       /\ pc'[x] = "idle"
       => \/ pc[x] \in {"join", "joining"} /\ pc[arg[x]] \in {"return", "ended"}
          \/ pc[x] = "wait" /\ (x \in disturbed \/ \A k \in DOMAIN tasks : id[tasks[k]] # reg[x])]_vars

(* Liveness. *)

\* Every command a shell starts gives control back.
CommandsReturn == \A x \in Shells : pc[x] # "idle" ~> pc[x] = "idle"

\* Every task put into the list runs to its end.
TasksFinish == \A t \in Tasks : pc[t] = "start" ~> status[t] = "DONE"
=============================================================================
