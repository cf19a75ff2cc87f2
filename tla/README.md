# Flinstone-OS in TLA+

This directory holds a verification development for the programs of this
repository: modules that model their components, TLC configurations that check
them on small instances, and proofs checked by TLAPS. Paths below are relative
to `src/`; `F` stands for `flinstone_profiles_tasks_v9`, `D` for
`flinstone_os_drivers`.

1. Inventory of the system
2. Modules and how they correspond to the code
3. Runs: what each checks, its bounds, why they are enough
4. Fairness
5. Proofs
6. Where the code disagrees with its own words
7. What is not modelled, and the state of the build
8. Plan

## 1. Inventory

The repository holds three programs that share little code.

| Component | Source | State | Operations | Hard because |
|---|---|---|---|---|
| Worker pool | `F/threadpool.cpp` | ring of job pointers, `head`, `tail`, `shutting_down`; per job a flag, mutex, condition variable | `create_job`, `queue_job`, `submit_single_command`, `worker_thread`, `free_job` | two condition variables, a job on the heap shared by two threads, a ring that can be full |
| Background tasks | `F/src/task.cpp`, `append_history` in `F/util.cpp` | array of `Task*`, `next_task_id`, status of each, `task_mutex`, `history_mutex` | `task_submit`, `task_list`, `task_kill`, `task_wait`, `task_gc`, `task_wrapper` | every command of every thread collects finished tasks; some reads are outside the mutex; cancellation |
| Directory tree | `F/fs.cpp` | nodes with parent and children pointers, `root`, `cwd` | `fs_init`, `change_directory`, `fs_mkdir`, `fs_rmdir`, `print_working_directory`, `fs_cleanup` | no locks although several threads run commands; names and paths cut to fixed sizes |
| Simulated disks | `F/disk.cpp`, `F/cluster.cpp` | text files, `current_disk_file`, `g_total_clusters`, `g_cluster_size` | format, write, delete, list, print, count bits and used bytes, `-init` | the file is emptied and rewritten by every write; the geometry in memory is a copy; readers count rows, writers label them |
| Profiles | `F/src/profile.cpp` | array of profiles, `current_profile_idx` | add, select, `has_privilege` | two notions of the current user (section 6) |
| Interpreter | `F/interpreter.cpp` | `current_profile`, redirected streams, `shell_running` | one branch per command of `execute_command_str` | order of branches and checks decides who may do what |
| Accounts | `kernel/auth/AuthManager.cpp` | table `users`, `current_user`, `current_access_level` | constructor, `create_user`, `login` | several processes share one table, whose file any user can empty |
| Account shell | `kernel/shell/ShellCommand.cpp`, `main_shell.cpp` | `current_path`, the host's files | `ls`, `cd`, `mkdir`, `touch`, `rm`, `shutdown`, menu | other processes change the directory tree between two commands; exceptions end the process |
| Socket objects | `lwip/src/tcp.cpp`, `udp.cpp` | `sockfd` of each object | listen, connect, bind, accept, close, destruction | descriptor numbers are used again |
| Network helpers | `F/net/*.cpp`, `F/interpreter.cpp:283-367`, `D/kernel/net/dns.cpp`, `socket.cpp`, `wifi.cpp` | local descriptors; the questions on the wire, the peers of the echo server | `resolve_dns`, `dns_query`, `icmp_send_echo`, `do_ping`, `do_http_get`, `shell_tcpconnect`, `sock_open_udp`, `wifi_scan`, `tcp_echo_server` | results of `socket` and `accept` are not looked at; no timeouts; one question number for all; one peer at a time |
| Heap and strings | `F/asm/memory.s`, `string_mem.s` | `heap_end`, memory | `malloc`, `sbrk`, `free`, `memset`, `memcpy`, `memcmp`, `strcpy`, `strlen`, `strcmp` | no lock around `heap_end`; every routine is a loop over bytes that other threads interleave |
| Drivers, rest of the kernel network, boot loader, terminal, real file system | see `components` in `PROJECT.json` | | | pure I/O or never reached (section 7) |

How they interact: `submit_single_command` hands a line to a pool worker, which
calls `execute_command_str`; a line that ends in `&` becomes a Task, whose thread
calls `execute_command_str` as well. Every call of `execute_command_str` first
runs `task_gc` and `append_history`. So pool workers, task threads and the main
thread all reach the tree, the disks, the profiles and the task list, and only
the task list and the history file have a mutex. Accounts and account shell form
a program of their own, whose processes meet in `users.db` and in the host's
directories. The socket objects are a library without callers in the repository;
they and the network helpers meet in the kernel's table of descriptors. `malloc`
and the string routines of `asm/` take the place of the C library's under
everything the Makefile of `F` links.

What makes each component correct:

* Pool: a queued job always has a worker that will come for it; a caller is woken
  when its job is done; nobody touches a job after `free_job`; every accepted
  command runs once, in order, and its caller returns after it.
* Tasks: a Task is in the list while it lives and is freed after its thread's last
  access; verdicts are final; wait means over; a command returns.
* Tree: parent and children pointers describe the same tree; `pwd` leads back;
  callers see a set of paths.
* Disks: a write changes the block it names; geometry in memory is that of the
  file; whatever a crash leaves is well-formed.
* Interpreter, profiles: without privilege nothing shared changes but by `kill` and
  `>`; privilege comes from a password; a line that fails has only redirected.
* Accounts, account shell: a session is that of an account somebody signed up; an
  account keeps its password while users leave `users.db` alone; only administrators
  remove, and nothing with something in it.
* Sockets and helpers: everybody uses only the descriptor he was given; none gets
  lost; a helper returns, with the answer to its own question; peers are answered.
* Heap and strings: blocks never overlap; a routine works as if at once.

## 2. Modules

| Module | Models | Reads |
|---|---|---|
| `ThreadPool` | the worker pool | |
| `JobService` | what the pool promises: a bounded FIFO | |
| `ThreadPoolService` | the refinement mapping from the one to the other | `ThreadPool`, `JobService` |
| `ThreadPoolProofs` | invariants of the pool and the safety part of its refinement, proved | `ThreadPoolService` |
| `TaskManager` | background tasks, with what every command does before its dispatch | |
| `TaskManagerProofs` | lists, verdicts and joins of tasks, proved | `TaskManager` |
| `MemFs` | the directory tree as nodes and pointers, one shell | `PathTree` |
| `PathTree` | what the tree promises: a set of paths | |
| `MemFsProofs` | pointers, links, `pwd` and the refinement of `PathTree`, proved | `MemFs` |
| `MemFsShared` | the same operations cut into steps, several threads | `MemFs` |
| `Disk` | disk files, geometry, crashes | `BlockStore` |
| `BlockStore` | what a disk promises: blocks of one size | |
| `DiskProofs` | files, geometry, chains, what is read back, and the refinement, proved | `Disk` |
| `Profiles` | the array of profiles | |
| `Shell` | `execute_command_str` | `Profiles`, `PathTree` |
| `ShellProofs` | privilege, failure and passwords, proved | `Shell` |
| `AuthShell` | accounts and the account shell | |
| `AuthShellProofs` | sessions, passwords and removal, proved | `AuthShell` |
| `DescriptorTable` | the kernel's table of descriptors of one process (external) | |
| `Sockets` | the socket objects | `DescriptorTable` |
| `NetCalls` | the network helpers, the network and the peers | `DescriptorTable` |
| `Network` | objects and helpers in one process | `Sockets`, `NetCalls` |
| `NetworkProofs` | descriptors and answers, proved | `Network` |
| `Asm` | heap and string routines in assembly, several threads | |
| `AsmProofs` | the heap's blocks and the string routines, proved | `Asm` |

`MC*.tla` give the constants small values for the runs. Definitions marked
"Faulty" are plausible mistakes; no specification uses them, and `PROJECT.json`
names for every property one that the property catches. `PROJECT.json` also maps
each definition to the lines it models.

**ThreadPool.** Variables carry the names of the fields of `g_pool` and of
`job_node`; `cpc` and `wpc` say where in `submit_single_command` and
`worker_thread` each thread is. A critical section of `g_pool.mutex` contains no
blocking call but `pthread_cond_wait`, so it is one action. The mutex of a job is
a variable, because whether it is held decides when the job may be freed.
Condition variables may wake spuriously; a signal wakes any one sleeper. `heap`
holds the allocated jobs, and a freed address may be returned again by `calloc`.
Nothing in the repository sets `shutting_down`; `Shutdown` is therefore external,
written as the flag's reader expects it (set under the mutex, then broadcast).

**TaskManager.** Task *t* and its thread share a name. The unlocked parts of the
code are separate steps: `next_task_id++` is a load (in `Dispatch`) and a store
(`SubmitStore`), the Task is inserted before `pthread_create` fills in its handle,
`task_wait` takes no mutex: its condition, the load of an entry, the test of the identifier
and the join are steps, and `disturbed` remembers whose search a collection (or a `realloc`)
has overtaken: such a search may load any entry, old or moved, or nothing at all, and
what is read of a freed Task is anything. `pthread_join` is modelled
with the errors glibc gives for stale handles, second joiners and cycles, because
no caller looks at them, and cancellation is deferred to the next I/O or join of
the cancelled thread. Handles are used again after a join. A join through a handle
that was never set, and a load that finds no Task, end the process (`crashed`).

**MemFs, MemFsShared.** One record per allocated node. `Stored` is what the 64-byte
name field keeps. A path is its components; `Copied` is what a buffer keeps of it, by the
number of bytes of each component (`Size`) and what a cut one looks like (`First`). `cd`
follows what its buffer and then `split_path` keep (`Cut`), `pwd` prints what its buffer
keeps of the whole path (`Printed`). `MemFsShared` cuts
`change_directory`, `fs_mkdir` and `fs_rmdir` where they read `cwd` again. It stops
where freed memory or an array's end would be trodden on.

**Disk.** A cell stands for a byte written as two hex digits, a line for a row with its
label. `update_cluster_line` is three steps: read, open (which empties the file), write
and close. `Crash` may come between any two, and leaves a beginning of the file being
written, cut anywhere: inside a label (`CUTLABEL`), behind it, or inside the two digits
of a cell (`HALF`). The next write keeps such a piece as the row of its place, and the
readers differ on it: those that print count every line, `read_disk_header` only those
with a colon and an even number of digits (`IsCounted`). `fgets` reads at most
`LINE_CELLS` cells and leaves the newline of a fuller line behind, which a reader of
rows skips as blank and `update_cluster_line` takes for a row. `Printed`, `RowFound`,
`Bytes`, `UsedBytes` and `OnesCount` are what the printing commands compute; they change
nothing, so they are no actions, and the properties say what a user sees through them.

**Shell.** A line is a record: first word, arguments, whether it has too few words,
`&`, the files after `<` and `>`. `Redirect` comes first and may fail to open; then the
branches are taken in the order of the code. The tree is the abstract one of `PathTree`;
of a disk there is the geometry in memory and whether its file holds it (`disks`), of a
background task whether it was cancelled; `Disk` and `TaskManager` have the rest. What a
background task's own commands change meanwhile is left out, and so are messages. Names
and passwords are cut by `StoredName` and `StoredSecret`, which the run makes real cuts.

**AuthShell.** SQLite statements are atomic and may fail; a hash stands for the
password it is made from; `std::filesystem` throws where the code passes no
`error_code`, and nobody catches. Processes may be killed and started anywhere.
`users.db` lies in the directory where the processes start, among the files the
commands work on: `Start` opens or makes it, `Touch` empties it with the table in it,
`Rm` takes its name away and leaves it to the processes that have it open, and a later
`Start` makes another. So `users` has a table per file, `opened` the file of each
process, and `created` remembers every account that was ever signed up.

**Network.** `holder` says whom the kernel gave each open descriptor to, and a number
is given again as soon as it is closed. `Sockets` has one action per method; `lost`
remembers descriptors whose object was opened once more while open: no code can
close them any more. `NetCalls` cuts each helper at its system calls; `call` is what
a thread is in, with its local variables. A question and its answer are one message
of `wire`, addressed by the port of the asker: the code compares neither number nor
sender, so nothing else tells answers apart. `unheard` remembers the ports from which
`resolve_dns` asked and did not stay to listen. The kernel, name servers and peers
are external; so are the callers of accept and `sock_open_udp`, who close what they
were handed.

**Asm.** `sbrk` is two steps, since `heap_end` is loaded, added to and stored by
different instructions; the string routines are one step per byte, with the
registers in `cpu`. Beside `mem` the model keeps `asked`, the memory in which every
call took effect at once as `string.h` has it. Once two threads were in `sbrk`
together (`raced`) two of them may hold one block, and the model stops.

## 3. Runs

All runs of the table pass unless marked; times are for two workers.

| Run | Shows | States |
|---|---|---|
| `MCThreadPool_safety` | no lost wakeup, no use after free, nothing run twice, every step refines the bounded FIFO, an overflow strands its caller for good | 70 k, 20 s |
| `MCThreadPool_live` | the full refinement with its fairness: accepted jobs start, complete and return | 18 k, 11 s |
| `MCTaskManager_background` | two shells submit while all commands collect: live tasks stay listed, every command returns, every task ends | 183 k, 2 min |
| `MCTaskManager_orders` | one shell submits, kills, waits and lists in any order while its tasks collect and submit: verdicts are final, nobody uses a freed Task, `wait` means over, what it takes to crash the process | 610 k, 27 s |
| `MCMemFs` | pointers form one tree, `pwd` leads back as far as nothing is cut, operations refine a set of paths | 3 k, 100 s |
| `MCMemFsShared` | *violation*: with two threads `rmdir` frees a directory with entries, which it never tested | |
| `MCDisk_blocks` | a disk refines a store of blocks; what was written is what readers find and count; geometry and chains are right | 124 k, 30 s |
| `MCDisk_crash` | what a crash leaves, in the middle of a line too, and what later writes make of it: a header and rows in order | 35 k, 6 s |
| `MCShell` | privilege, failure and passwords over lines of every kind, some of them redirected | 305 k, 100 s |
| `MCAuthShell` | sessions, passwords and removal with two processes that share `users.db` and may empty or remove it | 1.26 M, 120 s |
| `MCNetwork` | nobody uses another's descriptor, none gets lost, answers match, calls return, peers are answered | 92 k, 80 s |
| `MCAsm` | blocks are disjoint, string routines work as if at once | 1.07 M, 55 s |

Bounds, and why they are enough:

* *Pool.* 3 callers, 2 workers, `MAX_JOBS` 3, 3 addresses. The ring holds two jobs,
  so it wraps, fills and overflows with a third caller; with two workers one can
  overtake the other at the ring or sleep while the other is busy; addresses are
  reused as soon as they are freed. The symmetry of callers, workers and addresses
  is sound: all formulas of the run are safety formulas, and they and the mapping
  treat these alike. The live run (2 callers, 2 workers, a ring for one job) uses
  no symmetry.
* *Tasks.* `MaxTasks`, `MaxCommands` bound the behaviours. Two shells with two
  commands and two tasks reach both submitting at once, one collecting while the
  other inserts, and a handle used by one task and then by the other. Three
  tasks and four commands with one shell, whose tasks may submit (`orders`), reach
  collection from the middle of the array while `wait` searches it, a kill or a wait
  while a task is submitting, and `pthread_create` without a handle left. Handles are
  treated alike by the formulas of this run, none of them liveness.
* *Tree.* 5 nodes, names `a`, `ab`, `..` and two that are cut to `ab`;
  `MAX_CHILDREN` 3, so a directory fills up while nodes are left, and the tree can
  be one level deeper than a split path has components (64 in the program); `BUFFER` 8
  (1023), so a path of three components can lose the end of its last name, all of it,
  or nothing, and what is left can be the path of a sibling. Where anything is lost
  `pwd` prints a path that leads elsewhere, as `PwdRoundTrip` states; `cd` follows what
  is left of its path, as `ImplementsPathTree` states.
* *Disk.* `blocks`: sizes 1 and 2, 2 to 4 rows, `BYTE` 3, so that row numbers
  reach and pass what fits into a cell; indexes in range, disks that can be opened.
  `crash`: one disk, sizes 1 and 2, 1 or 3 rows, `-init`, failing opens, indexes out of
  range, and death at every step and place of a line: enough for a piece without a label to
  be kept, to be followed by rows and by a second such piece. Names that are cut are in the
  proof, not in the run.
* *Shell.* one line of each kind and of each way to fail; a refused and a failing line
  that redirect, to the disk's file too; one directory; four profiles, two names that
  are cut to one and a password that is cut; `MaxSubmitted` 1 bounds the background
  tasks.
* *AuthShell.* two processes, one name (a second sign-up meets the first), two
  passwords, one of them the root password; the names `users.db` and `x`, paths up to
  `MaxDepth` 2, `MaxEntries` 2, so that a directory has something in it; two files to
  be `users.db` in turn, one unlinked and still open while the other is in place.
  Processes and files are treated alike by all formulas, none of them liveness.
* *Network.* two threads, one with the echo server, one with the other helpers, and
  one server object share two descriptor numbers: enough to run out at `socket` and
  at `accept`, and to reuse each. One port, so that two questions in turn get the
  same; two names, so that a wrong answer differs; two peers and a backlog of one,
  so that one waits behind the other or cannot connect. `do_ping` and
  `shell_tcpconnect` are left out of the instance: their steps are those of
  `icmp_send_echo` and `wifi_scan`.
* *Asm.* one thread calls every routine, the other allocates and fills; sizes 1 and
  2 with an alignment of 2, so one block has a padding byte and one ends where the
  next begins; room for three blocks (`TOP`), bytes 0 and 1, lengths from 0 on.

Deadlock is checked for the pool, disks, accounts and the network. It is not for
`MemFs` (ends with `fs_cleanup`), `MemFsShared` (stops at trodden memory), `Shell`
(ends with `exit`), `Asm` (ends at a race) and `TaskManager` (budgets of commands run
out); in the last `CommandsReturn` says what deadlock freedom would.

## 4. Fairness

`ThreadPool` and `TaskManager` assume weak fairness per thread: a thread that can
take a step eventually does, which is what a preemptive scheduler gives. It is
weak even for locks, so no thread is promised a mutex that others keep taking.
Nobody has to submit a job, type a command, wake spuriously or shut the pool down,
and the bodies of commands are assumed to end (`Execute`, `Dispatch` are steps of
their thread). `Network` assumes weak fairness for each thread within a helper it has
called, the delivery of a message included once it is there: the kernel wakes a
reader whose data has come. Nothing is promised of callers, peers and name servers:
a message may be lost, a peer may stay silent, a web server may never hang up, and
the properties name these cases. The other modules state safety only.

## 5. Proofs

`ThreadPoolProofs` proves, for any sets of callers, workers and addresses and any
`MAX_JOBS` of at least 1, the type invariant and the safety properties of
`ThreadPool`: `TypeCorrect`, `NoUseAfterFreeHolds`, `NoDoubleDispatchHolds`,
`QueuedJobHasWorkerHolds`, `DoneClientAwakeHolds`, `ReturnMeansDoneHolds`,
`OverflowStrandsCallerHolds`. The only assumption is `PoolAssumption` (the null
pointer is no address and no thread, callers are not workers).

None of the properties is inductive. `PoolInv` strengthens them by what the code
relies on and never says:

* `OneOwner`: two callers never hold the same job;
* `ClientInv`: at each place of `submit_single_command`, whether the job is
  allocated, done, and who may hold its mutex;
* `WorkerInv`: a worker's job belongs to a caller that still waits, and is done
  exactly from `Finish` on;
* `RingInv`: occupied slots hold distinct jobs, not done, each with a waiting caller;
* `DispatchInv`: no worker's job is in the ring or with another worker;
* `AwakeInv`: while a job is queued some worker is not asleep.

The lemmas on slots (`SuccSlot`, `OccupiedAfterQueue`, `OccupiedAfterTake`, ..)
say how the set of occupied slots changes when `tail` or `head` moves by one,
which is all the modular arithmetic the proof needs. `PoolInvStep` has one step
per action; each theorem then follows from `PoolInvariant` by expanding names.
`OverflowStrandsCaller` is an action property: a step from `PoolInv` cannot put a
dropped job back into the ring. `ImplementsServiceSafetyHolds` is the refinement of
`JobService` without its fairness: from `PoolInv` every step maps to a step of the
bounded FIFO or to none, `ReadHolds` being what lets the queue be read off the ring.

`TaskManagerProofs` proves `TypeOKHolds` and `VerdictIsFinalHolds` for all commands
and any number of shells, tasks and handles. `BaseInv` says who does what (`Roles`),
that no identifier is ahead of the Tasks allocated (`Numbers`), where a Task and its
handle are while it is being submitted (`Submits`, `HandlesAgree`), how status and place
of its thread agree (`StatusAgrees`), and what collecting, joining and listing may hold
(`Collects`, `Joins`, `Lists`). It is also enough for `CrashTakesKillOrWaitHolds`: a
Task whose thread has started has its handle. The others need hypotheses, because
the code breaks the properties where several shells kill or wait (section 6): `FreedTaskIsUnusedHolds` and
`LiveTaskListedHolds` that nobody kills, or that one shell gives all commands and its
tasks are plain; `WaitMeansOverHolds` that one shell gives all commands and its tasks are
plain. The runs check under the same conditions, `orders` also with tasks that
submit. `OrderInv` is the invariant behind these
three; `Searches`, which needs no hypothesis, says what a search in `task_wait` knows:
unless it is `disturbed`, no entry it has passed has the identifier.

`MemFsProofs` proves `TypeOKHolds`, `LinksAgreeHolds` and `PwdRoundTripHolds` for any
nodes, names, paths, sizes, `BUFFER` and `MAX_CHILDREN`, and with siblings whose cut names
agree. `FsInv`
says that arrays and parent pointers describe the same links (`EntriesAreChildren`,
`ChildrenAreEntries`), that every node has a level one above its parent's
(`HasLevels`), and that there is a way from the root to `cwd` on which `cd` takes each
step (`Reached`). The level is what makes the links a tree and what `pwd`'s walk up
ends by; the way is why `rmdir` cannot free `cwd` or anything above it: what is on it
has a child. That `cd` finds the same way again, though names may be `.` or `..` or
occur twice, is the induction along it (`AlongTheWay`); where a path is cut, `cd` follows
that way for a while and then stops, or takes one step that is not on it
(`PrintedLooks`), which can end in `cwd` from nowhere (`RoundTrip`).

`ImplementsPathTreeHolds` is the refinement of `PathTree`. `PathFacts`, which follows
from `FsInv`, is what `PathOf` is built by; where no two siblings have one name,
different nodes have different paths (`PathsApart`), an entry of a directory is found by
its name exactly if its path is in the tree (`EntryPath`), a directory has as many
entries as its path has subdirectories (`SubdirsAreEntries`), and there are as many
paths as nodes (`DirsCount`). So each component that `cd` follows leads to the same place
(`StepFollows`, `WalkMatches`), and each operation is the one that was asked for
(`CdAsAsked`, `MkdirAsAsked`, `RmdirAsAsked`); `mkdir` needs `StoredNames` too, that each
name in the tree has been cut. It is proved under what `FsAssumption` and
`PathsAssumption` say of the constants: addresses are finitely many, a name that has
been cut is not cut further, a component that is cut to k bytes has k bytes and
is another one, and what is left of a path that is cut is a path one may type.

`DiskProofs` proves `RowsLabelledInOrderHolds`, `FormatChainsHolds`,
`GeometryIsOfTheDiskHolds`, `WroteMeansWrittenHolds` and `ImplementsBlockStoreHolds` for
any files, sizes, row counts and data. `FilesInv` says of every file, and of the rows
about to be written, what `RowsLabelledInOrder` says, with the types, whatever pieces
are left of lines (`PiecesOK`, `PrefixOK`; without crashes there are none); `FormatInv`
what `-mkdisk` is about to write; `DiskInv` that the current file is empty or a disk of
the geometry in memory and that a write in progress has its rows; `ReportInv` where the
data of a write are. That the bits which are counted of a cluster add up to its data is
an induction over the bytes, with `ByteIsBits` for each. The hypotheses are the bounds
of the runs, made general: `ShortLines`, that no line fills the 256 characters of
`fgets` (a cluster of 126 bytes leaves its newline to be taken for a row, and the labels
are no longer in order); `Documented`, that besides names are not cut, there is no
`-init` and the process does not die (after each of these the geometry in memory is not
that of the file); `WritesSucceed`, that indexes are in range and the file can be opened
(the shell reports the write whether or not). `FormatChainsHolds` needs none of them.

`ShellProofs` proves `UnprivilegedChangesNothingHolds`, `FailureChangesNothingHolds` and
`PrivilegeHasAPasswordHolds` for any profiles, lines, directories and disks and any way
of cutting names and passwords. `ShellInv` says that the current profile is in the array
and that the file that is stdout holds no disk. `Searches` compares the two loops: `su`
looks at the last profile of a name (`interpreter.cpp:109`) and `select_profile` takes
the first, so where a name is shared the profile selected need not be the one whose
password was asked for. `AdduserStep` shows that only a name that was cut is shared.

`AuthShellProofs` proves `SessionIsAnAccountHolds`, `CreatedKeepsPasswordHolds` and
`OnlyAdminsRemoveHolds` for any processes, accounts, files and paths. In `AuthInv`,
`TableInv` and `AttemptInv` say that every row, in a table or read from one by a login
under way, is that of an account that was signed up: the table may be gone by then, so
login can rely on nothing else. `HostInv` says that nothing but `users.db` has tables,
which is why no other touch matters.

`NetworkProofs` proves `OwnDescriptorHolds`, `NothingLeftHolds` and
`AnswersMatchHolds` for any objects, threads, descriptors, names, ports and peers.
It assumes what the modules that declare the constants assume: descriptors are
numbers from 0 on, objects, threads and callers are distinct, and -1 is neither a
port nor a name. `NetInv` adds to the first two properties what makes them inductive
together: an object that does not exist holds nothing, a call holds nothing before
`socket`, and a second descriptor only in the echo server between accept and close
(`FrameOK`). Its lemmas say what it takes to get a descriptor, to close one and to go
on with those one has; each action is then one of these. `AnswersInv` says why
answers match although nothing in the code compares them: two calls never have one
port, and a message under way is awaited by the very call that asked it, or was sent
from a port that is `unheard`.

`AsmProofs` proves `HeapBlocksDisjointHolds` and `CallsAtOnceHolds` for any threads,
duties, bytes, sizes, alignment and memory. `HeapInv` says that blocks lie between
`_end` and `heap_end`, that a thread between the two steps of `sbrk` holds the current
`heap_end`, and that it is the only one; `RoundedEnough` is the arithmetic of the
rounding. `CallsInv` adds that the registers point into the thread's own memory
(`InMemory`), that nothing has been written where no block has been (`Untouched`), and
for each routine how far it has come (`OnCourse`): the bytes behind its index are those
of the call made at once, the ones ahead are as they were. Other threads keep it
because their blocks are disjoint.

`NatInductionOnSet`, which some of these modules state, is how an induction over a
recursive function is done without an operator as a parameter: over the set of those
numbers for which the formula holds.

Only model-checked:

* liveness and what rests on `ENABLED`: `ImplementsService` with its fairness,
  `QueuedJobReturns`, `CommandsReturn`, `TasksFinish`, `CallsReturn`, `PeersAnswered`;
* `OnlyEmptyRemoved`, which is false.

## 6. Where the code disagrees with its own words

One disagreement is a run of its own and is listed as a finding in
`PROJECT.json`: `OnlyEmptyRemoved` (the unlocked tree). `fs_rmdir` reads `cwd` again
after its test (`F/fs.cpp:158`); in the run another thread's `cd` has moved it by then, so
that the entry with the index found is another directory, which was never tested and is
freed with its entries. Others met on the way bound what the passing properties say:

* `task_wrapper` sets `TASK_RUNNING` without looking (`F/src/task.cpp:26`): a task
  that `kill` cancelled while it was pending, and of which the shell said
  "Task %d killed" (`F/interpreter.cpp:144`), runs after all and ends as done.
  `VerdictIsFinal` is therefore stated of tasks whose thread had started.
* `login` sets `current_profile`, privilege checks read `current_profile_idx`: after
  "Logged in as root" (`F/interpreter.cpp:133`) every privileged command is refused.
* The shell starts as guest, and `-mkdisk` needs privilege, so the first assertion of
  `F/BPForbes_Flinstone_Tests.cpp:11` fails; `cd` returns 0 for a missing directory,
  which line 25 of the tests denies.
* `next_task_id++` is unlocked (`F/src/task.cpp:41`): two threads that submit at
  once give their tasks one identifier.
* `task_wait` searches the array without the mutex (`F/src/task.cpp:92-98`) while a
  background task's `task_gc` frees Tasks, compacts the array and reallocates it, with one
  shell already. It may pass by the task it was asked for and return at once, or read what
  has been freed and crash. `WaitMeansOver` and `CrashTakesKillOrWait` name these cases.
* A Task that has no thread yet, or never gets one because `pthread_create` fails (line
  48), has a handle that was never set: to wait for it, or to kill it and collect, joins
  that. `CrashTakesKillOrWait` names these too.
* A task killed while pending and collected before its thread starts: `task_gc`
  joins, with `task_mutex` held, a thread that waits for `task_mutex`. A running task
  that is cancelled inside `append_history` or `task_list` leaves the mutex locked.
  So `CommandsReturn` is checked without `kill`.
* `Wrote data to cluster %d.` (`F/cluster.cpp:40`) is printed also when the index is
  out of range or the file cannot be opened; `WroteMeansWritten` is checked where
  neither happens.
* After `-init` with fewer clusters than the disk has, the next write drops the rest
  (`F/disk.cpp:100`); after a crash that cut a label, every write drops the last row,
  since the piece is kept as a row and not counted as one (lines 24, 100); so does a
  write to a disk whose lines fill the 256 characters of `fgets` (line 99).
* Names are compared in full and stored cut (`F/fs.cpp:135`, `F/src/profile.cpp:12`):
  `mkdir` makes duplicates, and two profiles can come to share a name. `su` by the
  name as it was typed finds neither; `su` by the cut name asks what the last of them
  asks and selects the first, so if the first is a root profile and the last is not,
  nothing is asked. `PrivilegeHasAPassword` says so.
* `>` opens and empties its file, and both redirections replace a stream for good,
  before the line is looked at (`F/interpreter.cpp:25-42`): a refused line may have
  destroyed the disk's file. `kill` asks for no privilege (line 144).
  `UnprivilegedChangesNothing` and `FailureChangesNothing` name these effects.
* Paths of more than 1023 bytes or 64 components lose their end (`F/fs.cpp:51,85,121`),
  so `cd` to the path that `pwd` prints leads elsewhere. `PwdRoundTrip` says where.
* `F/include/memory.hpp:7` speaks of a free-list allocator; `free` in `asm/memory.s`
  does nothing and the heap only grows. `sbrk` is not locked either, in a program of
  many threads.
* `asm/string_mem.s:53,65` subtracts a register in an address, which does not
  assemble; what `memcpy` and `memset` return is not modelled. `sbrk`, `strcmp` and
  `memcmp` change `rbx`, which belongs to their callers. `asm/storage.s` loses the
  block index in `mul` and copies from the base whatever block is asked for.
* `resolve_dns` (`F/net/dns.cpp:40`) asks and closes: the answer comes to a port that
  may be another's by then. `AnswersMatch` leaves such ports out.
* `touch users.db` by any user of the account shell, in the directory where it was
  started, empties the account table (`kernel/shell/ShellCommand.cpp:68`), and `rm` by
  an administrator unlinks it under the processes that have it open; the names can be
  signed up again. `CreatedKeepsPassword` names the touch; no document promises more.
* `mouse_get_event` says "returns 1 if packet available" and returns the first byte
  (`D/kernel/drivers/mouse.cpp`).

## 7. Not modelled, and the state of the build

`F` does not compile as it stands: `src/task.cpp` lacks semicolons (lines 75, 76, 82,
88), `interpreter.cpp` has stray lines after 331 and a second, truncated
`execute_command_str` from 374, sources include `.h` for `.hpp`, and
`current_profile` is undeclared. The modules follow the evident meaning of the lines
that are there. `main.cpp` elides the start and the stop of the pool and the body of
the interactive shell. The dispatch of `-w`, `-l`, `-s` and `-du` is elided at
`interpreter.cpp:252`; `Disk` calls the functions behind them.

Left out:

* `del_profile`, `list_profiles`, `format_disk_file`, file nodes of the tree: no
  caller, or never made.
* The static position of `strtok`, shared by all threads that tokenise: any words may
  come of it, and `Shell` takes any words.
* `-mkdisk`'s `exit(1)` when its file cannot be opened is part of `Crash`.
* End of input at the prompts of the account shell.
* Two shells on one disk file: nothing orders them and nothing is promised.
* The real file system backend: `fs.cpp` in `F/src` forwards to it only if `real_fs` is
  set, `common.cpp:1` defines it as 0 and nothing sets it, so every operation answers
  that virtual files are unsupported.
* `storage.s` (not linked, not called, its base never set) and the stubs of
  `syscalls_ext.s`; the kernel console, whose cursor only counts up; the firewall, a
  list searched from its start; the formatting of packets; `wifi_connect`, which
  starts a program and waits; address parsing, ARP and DHCP placeholders, terminal
  modes, boot loader and simulation scripts: pure I/O or no state.

## 8. Plan

The order was: the pool, since everything runs in it; tasks; the tree; disks;
interpreter; accounts; sockets; then the network helpers that share the sockets'
descriptors, the heap and string routines, and what the disk's readers see. Every
safety property that a run finds true is proved. What is left is to widen some of the
proofs: `FreedTaskIsUnused` and `LiveTaskListed` with several shells whose tasks are
not killed but collect, and the disks with lines longer than `fgets` reads.
