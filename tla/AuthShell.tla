------------------------------- MODULE AuthShell -------------------------------
(***************************************************************************)
(* The program that the root Makefile builds: AuthManager (kernel/auth)    *)
(* with its account table in users.db, the menu of main_shell.cpp and the  *)
(* file commands of ShellCommand (kernel/shell).  Several processes of it  *)
(* are started in one directory; each may be killed and started again.     *)
(* users.db lies in that directory, among the files the commands work on.  *)
(*                                                                         *)
(* External: SQLite, whose statements take effect at once, completely and  *)
(* for good, or fail because another process has the table locked or the   *)
(* table is gone; libsodium, whose hashes stand for the password they are  *)
(* made from; and std::filesystem, whose calls without an error_code throw *)
(* on failure.  Nobody catches what they throw, so the process ends.       *)
(***************************************************************************)
EXTENDS SequencesExt

CONSTANTS Procs,          \* processes
          UserNames, Passwords,
          hardcoded_root, \* the root password
          FileNames,      \* names given to the file commands
          Files, NoFile,  \* the files that have been users.db, one after another
          MaxDepth, MaxEntries  \* bounds: length of a path, entries of the host

ASSUME AuthAssumption ==
  /\ hardcoded_root \in Passwords /\ "" \notin UserNames \union Passwords
  /\ MaxDepth \in Nat \ {0} /\ MaxEntries \in Nat
  /\ Files \intersect {NoFile, "dir", "file"} = {}

VARIABLES users,                         \* the rows by user name, of each file with a table
          opened,                        \* the file each process has opened as users.db
          current_user, current_access_level,  \* fields of each AuthManager
          pc,                            \* where each process is
          typed, row,                    \* the user's input; the row that login has read
          created,                       \* all accounts there have ever been
          entries,                       \* what there is on the host, by path
          current_path

session == <<current_user, current_access_level>>
attempt == <<typed, row>>
vars == <<users, opened, session, pc, attempt, created, entries, current_path>>

Input == [name : UserNames, password : Passwords, root_password : {hardcoded_root, ""}]
NoRow == [password |-> "", level |-> 0]
NoInput == [name |-> "", password |-> "", root_password |-> ""]

\* The name that main gives to AuthManager, where the processes are started.
USERS_DB == <<"users.db">>

\* The current path of a process whose directory has been removed: nothing is ever
\* found there again.
Gone == <<"">>

Init ==
  /\ users = <<>> /\ created = {}
  /\ opened = [p \in Procs |-> NoFile]
  /\ current_user = [p \in Procs |-> ""] /\ current_access_level = [p \in Procs |-> 0]
  /\ pc = [p \in Procs |-> "ended"]
  /\ typed = [p \in Procs |-> NoInput] /\ row = [p \in Procs |-> NoRow]
  /\ entries = [path \in {<<>>} |-> "dir"] /\ current_path = [p \in Procs |-> <<>>]

\* The function f with y at x, and without x.
With(f, x, y) == [z \in DOMAIN f \union {x} |-> IF z = x THEN y ELSE f[z]]
Without(f, x) == [z \in DOMAIN f \ {x} |-> f[z]]

Goto(p, label) == pc' = [pc EXCEPT ![p] = label]

\* Back to the menu, with nothing of the attempt left.
Menu(p) ==
  /\ Goto(p, "menu")
  /\ typed' = [typed EXCEPT ![p] = NoInput] /\ row' = [row EXCEPT ![p] = NoRow]

\* The process is over, and all it had in memory.
End(p) ==
  /\ Goto(p, "ended")
  /\ typed' = [typed EXCEPT ![p] = NoInput] /\ row' = [row EXCEPT ![p] = NoRow]
  /\ current_user' = [current_user EXCEPT ![p] = ""]
  /\ current_access_level' = [current_access_level EXCEPT ![p] = 0]
  /\ opened' = [opened EXCEPT ![p] = NoFile]
  /\ current_path' = [current_path EXCEPT ![p] = <<>>]

-----------------------------------------------------------------------------
(* The host.                                                               *)

Exists(path) == path \in DOMAIN entries
IsDir(path) == Exists(path) /\ entries[path] = "dir"
Below(path) == {e \in DOMAIN entries : Len(e) > Len(path) /\ IsPrefix(path, e)}

\* A file lives on without a name as long as a process has it open.
InUse == {opened[p] : p \in Procs} \union {entries[e] : e \in DOMAIN entries}

\* What opening a path for writing finds or makes there, within the bound.
Opening(path) ==
  IF Exists(path) THEN {entries[path]}
  ELSE IF Cardinality(DOMAIN entries) > MaxEntries THEN {}
  ELSE IF path = USERS_DB THEN Files \ InUse ELSE {"file"}

\* main starts and opens users.db, or fails to; the table is made if there is none and
\* nobody has the file locked.  Nobody is logged in.
Start(p) ==
  /\ pc[p] = "ended"
  /\ Goto(p, "menu")
  /\ \/ UNCHANGED <<users, opened, entries>>
     \/ /\ ~ IsDir(USERS_DB)
        /\ \E f \in Opening(USERS_DB) :
             LET old == IF Exists(USERS_DB) THEN users ELSE Without(users, f) IN
             /\ opened' = [opened EXCEPT ![p] = f]
             /\ entries' = With(entries, USERS_DB, f)
             /\ users' \in {old, IF f \in DOMAIN old THEN old ELSE With(old, f, <<>>)}
  /\ UNCHANGED <<session, attempt, created, current_path>>

-----------------------------------------------------------------------------
(* Accounts.                                                               *)

\* What p finds in its table; a statement without a table fails.
HasTable(p) == opened[p] \in DOMAIN users
Table(p) == IF HasTable(p) THEN users[opened[p]] ELSE <<>>

\* crypto_pwhash_str hashes the password.  When it lacks memory nothing has happened.
Signup(p) ==
  /\ pc[p] = "menu"
  /\ \E in \in Input : typed' = [typed EXCEPT ![p] = in]
  /\ Goto(p, "insert")
  /\ UNCHANGED <<users, opened, session, row, created, entries, current_path>>

\* Faulty: INSERT OR REPLACE, the row of a user of the same name is replaced.
Replaces(p, n) == TRUE

\* "username TEXT PRIMARY KEY": a second row of a name is refused.
Insertable(p, n) == n \notin DOMAIN Table(p)

Level(root_password) == IF root_password = hardcoded_root THEN 1 ELSE 0

Insert(p) ==
  /\ pc[p] = "insert"
  /\ LET in == typed[p]
         new == [password |-> in.password, level |-> Level(in.root_password)] IN
     \/ /\ HasTable(p) /\ Insertable(p, in.name)
        /\ users' = With(users, opened[p], With(Table(p), in.name, new))
        /\ created' = created \union {[name |-> in.name, row |-> new]}
     \/ UNCHANGED <<users, created>>
  /\ Menu(p)
  /\ UNCHANGED <<opened, session, entries, current_path>>

\* login: the row is read, if there is one and the table can be read ...
Login(p) ==
  /\ pc[p] = "menu"
  /\ \E n \in UserNames, password \in Passwords :
       /\ typed' = [typed EXCEPT ![p] = [name |-> n, password |-> password, root_password |-> ""]]
       /\ \E r \in {NoRow} \union {Table(p)[m] : m \in DOMAIN Table(p) \intersect {n}} :
            row' = [row EXCEPT ![p] = r]
  /\ Goto(p, "verify")
  /\ UNCHANGED <<users, opened, session, created, entries, current_path>>

\* Faulty: the level is taken over before the password is verified.
LevelBefore(p) == row[p].level

\* The level after an attempt that failed.
LevelAfterFailure(p) == current_access_level[p]

\* ... and its hash is compared with the password.  main keeps what was typed.
Verify(p) ==
  /\ pc[p] = "verify"
  /\ IF row[p] # NoRow /\ row[p].password = typed[p].password
     THEN /\ current_user' = [current_user EXCEPT ![p] = typed[p].name]
          /\ current_access_level' = [current_access_level EXCEPT ![p] = row[p].level]
          /\ Goto(p, "shell")
          /\ row' = [row EXCEPT ![p] = NoRow]
          /\ UNCHANGED typed
     ELSE /\ current_access_level' = [current_access_level EXCEPT ![p] = LevelAfterFailure(p)]
          /\ Menu(p)
          /\ UNCHANGED current_user
  /\ UNCHANGED <<users, opened, created, entries, current_path>>

-----------------------------------------------------------------------------
(* File commands, by plain names.                                          *)

\* The name as seen from p's current path, within the bound.
In(p, n) == Append(current_path[p], n)
Reach(p, n) == Len(current_path[p]) < MaxDepth

AtShell(p) == pc[p] = "shell" /\ UNCHANGED created

\* The next prompt, or an exception.
Stay == UNCHANGED <<pc, session, attempt, opened>>
Prompt(p) == Stay /\ UNCHANGED current_path
Throw(p) == End(p)

Ls(p) ==
  /\ AtShell(p)
  /\ IF IsDir(current_path[p]) THEN Prompt(p) ELSE Throw(p)
  /\ UNCHANGED <<users, entries>>

\* cd reports its errors.
CdName(p, n) ==
  /\ AtShell(p) /\ Reach(p, n)
  /\ current_path' = [current_path EXCEPT ![p] = IF IsDir(In(p, n)) THEN In(p, n) ELSE @]
  /\ Stay
  /\ UNCHANGED <<users, entries>>

CdUp(p) ==
  /\ AtShell(p)
  /\ current_path' = [current_path EXCEPT ![p] = IF @ # <<>> /\ IsDir(@) THEN Front(@) ELSE @]
  /\ Stay
  /\ UNCHANGED <<users, entries>>

\* A directory of that name is good enough; a file of that name, or a current path
\* that is gone, is an error.
MakeDir(p, n) ==
  /\ AtShell(p) /\ Reach(p, n)
  /\ IF Exists(In(p, n)) \/ ~ IsDir(current_path[p])
     THEN (IF IsDir(In(p, n)) THEN Prompt(p) ELSE Throw(p)) /\ UNCHANGED entries
     ELSE /\ Cardinality(DOMAIN entries) <= MaxEntries
          /\ entries' = With(entries, In(p, n), "dir") /\ Prompt(p)
  /\ UNCHANGED users

\* touch: an ofstream that cannot open its file is silent, one that can empties it,
\* users.db with its table too.
Touch(p, n) ==
  /\ AtShell(p) /\ Reach(p, n)
  /\ IF IsDir(In(p, n)) \/ ~ IsDir(current_path[p])
     THEN UNCHANGED <<users, entries>>
     ELSE \E f \in Opening(In(p, n)) :
            entries' = With(entries, In(p, n), f) /\ users' = Without(users, f)
  /\ Prompt(p)

\* Faulty: every user may remove files.
AnyoneMay(p) == TRUE

Admin(p) == current_access_level[p] >= 1

\* Faulty: a directory goes with what is in it.
RemovableAll(path) == TRUE

Removable(path) == Below(path) = {}

\* rm: nothing to remove is no error, a directory with something in it is.  A file that
\* processes have open stays theirs.
Rm(p, n) ==
  /\ AtShell(p) /\ Reach(p, n)
  /\ IF Admin(p) /\ Exists(In(p, n)) /\ Removable(In(p, n))
     THEN /\ entries' = Without(entries, In(p, n))
          /\ current_path' = [q \in Procs |-> IF current_path[q] = In(p, n) THEN Gone
                                              ELSE current_path[q]]
          /\ Stay
     ELSE /\ IF Admin(p) /\ Exists(In(p, n)) THEN Throw(p) ELSE Prompt(p)
          /\ UNCHANGED entries
  /\ UNCHANGED users

\* shutdown ends this process.
Shutdown(p) ==
  /\ AtShell(p)
  /\ IF Admin(p) THEN End(p) ELSE Prompt(p)
  /\ UNCHANGED <<users, entries>>

-----------------------------------------------------------------------------
\* "exit" at either prompt, or a signal anywhere.
Leave(p) ==
  /\ pc[p] # "ended"
  /\ End(p)
  /\ UNCHANGED <<users, created, entries>>

Next ==
  \E p \in Procs :
    \/ Start(p) \/ Signup(p) \/ Insert(p) \/ Login(p) \/ Verify(p)
    \/ Ls(p) \/ CdUp(p) \/ Shutdown(p) \/ Leave(p)
    \/ \E n \in FileNames : CdName(p, n) \/ MakeDir(p, n) \/ Touch(p, n) \/ Rm(p, n)

Spec == Init /\ [][Next]_vars

-----------------------------------------------------------------------------
(* Properties.                                                             *)

\* Who is at a shell has typed the name and the password of an account that somebody
\* signed up, and acts with the level it was signed up with; who is not has no level.
\* That account may be gone by then: users.db may be emptied or removed between the
\* reading of the row and the comparison, and under a session (AuthManager.cpp:56-72).
SessionIsAnAccount ==
  \A p \in Procs :
    IF pc[p] = "shell"
    THEN /\ current_user[p] = typed[p].name
         /\ [name |-> current_user[p],
             row  |-> [password |-> typed[p].password, level |-> current_access_level[p]]] \in created
    ELSE current_user[p] = "" /\ current_access_level[p] = 0

\* An account keeps its password and level, in every file that is users.db or still open
\* as such, when two processes sign one name up at once or die, and whatever users do but
\* for one thing: touch of users.db where it lies (AuthManager.cpp:23, 45,
\* ShellCommand.cpp:68).
CreatedKeepsPassword ==
  [][\A f \in DOMAIN users \intersect InUse : \A n \in DOMAIN users[f] :
       \/ f \in DOMAIN users' /\ n \in DOMAIN users'[f] /\ users'[f][n] = users[f][n]
       \/ \E p \in Procs, n2 \in FileNames : Touch(p, n2) /\ In(p, n2) = USERS_DB]_vars

\* "Permission denied: admin only": what disappears from the host or is replaced has
\* nothing below it and is the argument of an rm, of a process whose user has an account
\* signed up with the root password (ShellCommand.cpp:72-76).
OnlyAdminsRemove ==
  [][\A e \in DOMAIN entries :
       \/ e \in DOMAIN entries' /\ entries'[e] = entries[e]
       \/ Below(e) = {} /\ \E p \in Procs, n \in FileNames :
            /\ Rm(p, n) /\ In(p, n) = e
            /\ \E c \in created : c.name = current_user[p] /\ c.row.level = 1]_vars
=============================================================================
