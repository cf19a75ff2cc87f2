--------------------------------- MODULE Shell ---------------------------------
(***************************************************************************)
(* execute_command_str of flinstone_profiles_tasks_v9/interpreter.cpp: one *)
(* shell that runs lines one after another, the profiles it checks before  *)
(* it acts, and what its commands change.                                  *)
(*                                                                         *)
(* The directory tree is the one PathTree describes, which MemFs is shown  *)
(* to implement; of a disk there is its geometry and whether its file      *)
(* holds it, Disk has the rest; of a task whether it was cancelled,        *)
(* TaskManager has the rest.  What a line says is a record: its first      *)
(* word, whether it has too few words, whether it ends in "&", the files   *)
(* after ">" and "<", and its arguments.                                   *)
(***************************************************************************)
EXTENDS Profiles, PathTree

CONSTANTS HostFiles, Terminal,       \* what a standard stream can be
          Volumes,                   \* those files that -mkdisk makes for its volumes
          Lines,                     \* the lines that are typed
          INIT_FILE, INIT_CLUSTERS, INIT_SIZE,
          MaxSubmitted               \* bound: background tasks in a behaviour

ASSUME ShellAssumption ==
  /\ MaxSubmitted \in Nat
  /\ Volumes \union {INIT_FILE} \subseteq HostFiles /\ Terminal \notin HostFiles

VARIABLES current_profile,           \* what login has set
          current_disk_file, g_total_clusters, g_cluster_size,
          disks,                     \* the files that hold a disk
          tasks,                     \* the fate of each task submitted
          stdin, stdout,             \* what the standard streams are by now
          shell_running,
          line,                      \* the last line run
          code                       \* what execute_command_str returned for it

users == <<profiles, current_profile_idx>>
tree == <<dirs, here>>
disk == <<current_disk_file, g_total_clusters, g_cluster_size>>
streams == <<stdin, stdout>>
vars == <<users, current_profile, tree, result, disk, disks, tasks, streams, shell_running,
          line, code>>

Roles == {"root", "guest"}

Init ==
  /\ ProfilesInit /\ TreeInit
  /\ current_profile = "guest"
  /\ current_disk_file = INIT_FILE
  /\ g_total_clusters = INIT_CLUSTERS /\ g_cluster_size = INIT_SIZE
  /\ disks \in SUBSET {INIT_FILE} /\ tasks = <<>>
  /\ stdin = Terminal /\ stdout = Terminal /\ shell_running = TRUE
  /\ line = [cmd |-> ""] /\ code = 0

-----------------------------------------------------------------------------
(* What a line can be.                                                     *)

Words == {"wait", "adduser", "su", "login", "whoami", "tasks", "kill", "exit", "cd", "dir",
          "pwd", "-D", "-R", "-mkdisk", "-init", "-other", "other"}
Dashed == {"-D", "-R", "-mkdisk", "-init", "-other"}

\* Commands that are looked at before the "&" at the end of a line is.
BeforeBackground == {"wait", "adduser", "su", "login", "whoami"}

Arguments(cmd) ==
  CASE cmd = "adduser" -> [name : UserNames, password : Secrets \ {""}, is_root : BOOLEAN,
                           rp : Secrets]
    [] cmd = "su" -> [name : UserNames, password : Secrets]
    [] cmd = "kill" -> [id : Int]
    [] cmd = "login" -> [role : Roles \union {"nobody"}]
    [] cmd = "cd" -> [path : DirPaths]
    [] cmd \in {"-D", "-R"} -> [dir : DirNames]
    [] cmd = "-mkdisk" -> [volume : Volumes, rows : Int, nibbles : Int]
    [] cmd = "-init" -> [clusters : Int, size : Int]
    [] OTHER -> {<<>>}

\* A "&" or a redirection counts as a word, which only these commands may not find enough.
TakesArguments == {"wait", "adduser", "su", "login", "kill", "cd", "-D", "-R", "-mkdisk", "-init"}
TakesMany == {"adduser", "-mkdisk", "-init"}

\* "" stands for no redirection.
ASSUME LinesAssumption ==
  \A l \in Lines :
    /\ l.cmd \in Words /\ l.short \in BOOLEAN /\ l.background \in BOOLEAN
    /\ {l.in, l.out} \subseteq HostFiles \union {""}
    /\ IF l.short
       THEN l.cmd \in TakesMany \/ (l.cmd \in TakesArguments /\ ~ l.background /\ l.in = "" /\ l.out = "")
       ELSE l.args \in Arguments(l.cmd)

Background == line'.background /\ line'.cmd \notin BeforeBackground

-----------------------------------------------------------------------------
(* Users.                                                                  *)

\* A root profile is added only with the password of the first profile.
MayAdd == line'.args.is_root => line'.args.rp # "" /\ line'.args.rp = profiles[1].password

Adduser ==
  /\ line'.cmd = "adduser"
  /\ IF has_privilege /\ ~ line'.short /\ MayAdd
     THEN AddProfile(line'.args.name, line'.args.password, line'.args.is_root)
     ELSE UNCHANGED users
  /\ code' = 0
  /\ UNCHANGED <<current_profile, tree, result, disk, tasks, shell_running>>

\* Faulty: the password is not compared.
MayBeAnyone(p) == TRUE

\* Only root profiles ask for a password.
MayBe(p) == p.is_root => line'.args.password # "" /\ line'.args.password = p.password

\* The interpreter looks for the last profile of that name, select_profile for the
\* first.
LastIndexOf(n) == SelectLastInSeq(profiles, LAMBDA p : p.name = n)

Su ==
  /\ line'.cmd = "su"
  /\ IF ~ line'.short /\ LastIndexOf(line'.args.name) # 0 /\ MayBe(profiles[LastIndexOf(line'.args.name)])
     THEN SelectProfile(line'.args.name)
     ELSE UNCHANGED users
  /\ code' = 0
  /\ UNCHANGED <<current_profile, tree, result, disk, tasks, shell_running>>

Login ==
  /\ line'.cmd = "login"
  /\ current_profile' = IF ~ line'.short /\ line'.args.role \in Roles THEN line'.args.role
                        ELSE current_profile
  /\ code' = 0
  /\ UNCHANGED <<users, tree, result, disk, tasks, shell_running>>

-----------------------------------------------------------------------------
(* The other commands.                                                     *)

\* "cmd &"
Submit ==
  /\ Background
  /\ IF has_privilege
     THEN Len(tasks) < MaxSubmitted /\ tasks' = Append(tasks, "submitted")
     ELSE UNCHANGED tasks
  /\ code' = 0
  /\ UNCHANGED <<users, current_profile, tree, result, disk, shell_running>>

\* kill asks for no privilege.  A task that was submitted may be over.
Kill ==
  /\ line'.cmd = "kill" /\ ~ Background
  /\ \/ /\ ~ line'.short /\ line'.args.id \in DOMAIN tasks /\ tasks[line'.args.id] = "submitted"
        /\ tasks' = [tasks EXCEPT ![line'.args.id] = "cancelled"]
     \/ UNCHANGED tasks
  /\ code' = 0
  /\ UNCHANGED <<users, current_profile, tree, result, disk, shell_running>>

\* These print, or wait, and change nothing.
Look ==
  /\ line'.cmd \in {"wait", "whoami", "tasks", "dir", "pwd"} /\ ~ Background
  /\ code' = 0
  /\ UNCHANGED <<users, current_profile, tree, result, disk, tasks, shell_running>>

Exit ==
  /\ line'.cmd = "exit" /\ ~ Background
  /\ shell_running' = FALSE /\ code' = 0
  /\ UNCHANGED <<users, current_profile, tree, result, disk, tasks>>

\* cd returns 0 whether or not there is such a directory.
ChangeDirectory ==
  /\ line'.cmd = "cd" /\ ~ Background
  /\ IF line'.short
     THEN code' = 1 /\ UNCHANGED <<tree, result>>
     ELSE code' = 0 /\ Cd(line'.args.path)
  /\ UNCHANGED <<users, current_profile, disk, tasks, shell_running>>

\* Faulty: only the disk commands ask for privilege.
MayDashDirs == has_privilege \/ line'.cmd \in {"-D", "-R"}

\* Every command that begins with a dash asks for privilege.
MayDash == has_privilege

Dash(cmds) == line'.cmd \in cmds /\ ~ Background /\ MayDash /\ ~ line'.short

\* -D and -R
Directories ==
  /\ Dash({"-D", "-R"})
  /\ IF line'.cmd = "-D" THEN Mkdir(line'.args.dir) ELSE Rmdir(line'.args.dir)
  /\ code' = IF result' = 0 THEN 0 ELSE 1
  /\ UNCHANGED <<users, current_profile, disk, tasks, shell_running>>

ValidDisk(rows, nibbles) == rows > 0 /\ nibbles > 0 /\ nibbles % 2 = 0

\* What is printed goes to the file that is stdout, which therefore holds no disk.
Keeps(files) == disks' = files \ {stdout'}

Mkdisk ==
  /\ Dash({"-mkdisk"})
  /\ LET a == line'.args IN
     IF ValidDisk(a.rows, a.nibbles)
     THEN /\ Keeps(disks \union {a.volume})
          /\ current_disk_file' = a.volume
          /\ g_total_clusters' = a.rows /\ g_cluster_size' = a.nibbles \div 2
          /\ code' = 0
     ELSE Keeps(disks) /\ code' = 1 /\ UNCHANGED disk
  /\ UNCHANGED <<users, current_profile, tree, result, tasks, shell_running>>

\* Faulty: the geometry is taken over before it is looked at.
GeometryAnyway(a) == a.clusters

\* What -init makes of the number of clusters.
ClustersAfterInit(a) == IF a.clusters > 0 /\ a.size > 0 THEN a.clusters ELSE g_total_clusters

SoftInit ==
  /\ Dash({"-init"})
  /\ LET a == line'.args IN
     /\ g_total_clusters' = ClustersAfterInit(a)
     /\ IF a.clusters > 0 /\ a.size > 0
        THEN g_cluster_size' = a.size /\ code' = 0
        ELSE code' = 1 /\ UNCHANGED g_cluster_size
  /\ UNCHANGED <<users, current_profile, tree, result, current_disk_file, tasks, shell_running>>

\* A dashed command without privilege, with too few words or unknown, and any other word.
Refuse ==
  /\ \/ line'.cmd \in Dashed /\ (~ MayDash \/ line'.short \/ line'.cmd = "-other")
     \/ line'.cmd = "other"
  /\ ~ Background
  /\ code' = 1
  /\ UNCHANGED <<users, current_profile, tree, result, disk, tasks, shell_running>>

\* Before anything else of a line is looked at, "<" and ">" replace a stream of the
\* process, if the file can be opened, and ">" makes or empties its file.  The copies
\* made by dup are never put back.
Redirect ==
  /\ stdin' \in {stdin} \union ({line'.in} \ {""})
  /\ stdout' \in {stdout} \union ({line'.out} \ {""})

Next ==
  /\ shell_running
  /\ line' \in Lines
  /\ Redirect
  /\ \/ Mkdisk
     \/ /\ \/ Adduser \/ Su \/ Login \/ Submit \/ Kill \/ Look \/ Exit \/ ChangeDirectory
           \/ Directories \/ SoftInit \/ Refuse
        /\ Keeps(disks)

Spec == Init /\ [][Next]_vars

-----------------------------------------------------------------------------
(* Properties.                                                             *)

\* What an unprivileged line can do to others is this: cancel the task that it names in a
\* kill, and destroy the disk in the file that it names after a ">" (interpreter.cpp:31,
\* 144).  Profiles, directories, geometry, other tasks and other disks stay, and nothing
\* is submitted (interpreter.cpp:70, 139, 179).
UnprivilegedChangesNothing ==
  [][~ has_privilege =>
       /\ UNCHANGED <<profiles, dirs, disk>>
       /\ disks' = disks \/ disks' = disks \ {line'.out}
       /\ \/ tasks' = tasks
          \/ line'.cmd = "kill" /\ tasks' = [tasks EXCEPT ![line'.args.id] = "cancelled"]]_vars

\* A line that returned 1 has changed nothing but by its redirections, which were carried
\* out before it was looked at: no command fails halfway, but a refused or mistyped one
\* may have replaced the streams for good and destroyed a disk (interpreter.cpp:27-42,
\* 255-257).
FailureChangesNothing ==
  [][code' = 1 =>
       /\ UNCHANGED <<users, current_profile, tree, disk, tasks, shell_running>>
       /\ stdin' \in {stdin, line'.in} /\ stdout' \in {stdout, line'.out}
       /\ disks' = IF stdout' = stdout THEN disks ELSE disks \ {line'.out}]_vars

\* Privilege comes from a password.  Nobody gains it but by su to the name of a root
\* profile with the password stored in it; or, where a later profile has the same name,
\* with what su asks for that one, which is nothing if it is no root profile
\* (interpreter.cpp:109-122, profile.cpp:39-44).  No root profile is added without the
\* password of the first, and no name becomes that of two profiles unless it was cut
\* (interpreter.cpp:86-92, profile.cpp:11-15).
PrivilegeHasAPassword ==
  [][/\ ~ has_privilege /\ has_privilege' =>
          /\ line'.cmd = "su"
          /\ \E i, j \in DOMAIN profiles :
               /\ i <= j /\ profiles[i].is_root
               /\ profiles[i].name = line'.args.name /\ profiles[j].name = line'.args.name
               /\ profiles[j].is_root => profiles[j].password = line'.args.password
     /\ \A i \in DOMAIN profiles' \ DOMAIN profiles :
          /\ profiles'[i].is_root => line'.args.rp = profiles[1].password
          /\ (\E j \in DOMAIN profiles : profiles[j].name = profiles'[i].name) =>
               StoredName(line'.args.name) # line'.args.name]_vars
=============================================================================
