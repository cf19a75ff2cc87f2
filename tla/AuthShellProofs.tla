---------------------------- MODULE AuthShellProofs ----------------------------
(***************************************************************************)
(* Proofs about AuthShell, for any number of processes, accounts and files *)
(* and paths of any length.                                                *)
(***************************************************************************)
EXTENDS AuthShell, SequenceTheorems, TLAPS

-----------------------------------------------------------------------------
(* The inductive invariant: what a table says, and what login has read of  *)
(* it, are accounts that somebody signed up, even when the table is gone.  *)

Rows == [password : Passwords, level : {0, 1}]
Typed == [name : UserNames \union {""}, password : Passwords \union {""},
          root_password : {hardcoded_root, ""}]

Account(n, r) == [name |-> n, row |-> r]

TableInv ==
  /\ DOMAIN users \subseteq Files
  /\ \A f \in DOMAIN users : \A n \in DOMAIN users[f] :
       users[f][n] \in Rows /\ Account(n, users[f][n]) \in created

\* Only users.db is a file of its own.
HostInv ==
  /\ opened \in [Procs -> Files \union {NoFile}]
  /\ \A e \in DOMAIN entries :
       entries[e] \in IF e = USERS_DB THEN Files \union {"dir"} ELSE {"dir", "file"}

TypesInv ==
  /\ current_user \in [Procs -> UserNames \union {""}]
  /\ current_access_level \in [Procs -> {0, 1}]
  /\ pc \in [Procs -> {"menu", "insert", "verify", "shell", "ended"}]
  /\ typed \in [Procs -> Typed]
  /\ row \in [Procs -> Rows \union {NoRow}]

\* What a process in the middle of an attempt holds.
AttemptInv(p) ==
  /\ pc[p] = "insert" => typed[p] \in Input
  /\ pc[p] = "verify" =>
       /\ typed[p].name \in UserNames
       /\ row[p] = NoRow \/ (row[p] \in Rows /\ Account(typed[p].name, row[p]) \in created)

AuthInv ==
  /\ TypesInv
  /\ TableInv
  /\ HostInv
  /\ \A p \in Procs : AttemptInv(p)
  /\ SessionIsAnAccount

\* What a user types, and nothing, has the type of an input.
LEMMA TypedInputs ==
  /\ Input \subseteq Typed /\ NoInput \in Typed
  /\ \A n \in UserNames, w \in Passwords : [name |-> n, password |-> w, root_password |-> ""] \in Typed
BY DEF Input, Typed, NoInput

\* The empty table has no user names.
LEMMA EmptyDomain ==
  ASSUME NEW f, f = <<>>
  PROVE  DOMAIN f = {}
<1>1. f \in Seq({}) /\ Len(f) = 0
  BY EmptySeq
<1>2. DOMAIN f = 1 .. 0
  BY <1>1, LenProperties
<1> QED BY <1>2

-----------------------------------------------------------------------------
(* What each step does to the tables.                                      *)

\* A row stays as it is and where it is.
RowsStay(f) ==
  f \in DOMAIN users' /\ \A n \in DOMAIN users[f] : n \in DOMAIN users'[f] /\ users'[f][n] = users[f][n]

\* INSERT adds a row of the new account or changes nothing.
LEMMA InsertStep ==
  ASSUME AuthInv, NEW p \in Procs, Insert(p)
  PROVE  TableInv' /\ (\A f \in DOMAIN users : RowsStay(f)) /\ created \subseteq created'
<1> USE DEF AuthInv, TableInv
<1> DEFINE in == typed[p]
           new == [password |-> in.password, level |-> Level(in.root_password)]
<1>1. in \in Input /\ DOMAIN users \subseteq Files
  BY DEF Insert, AttemptInv
<1>2. new \in Rows /\ in.name \in UserNames
  BY <1>1 DEF Input, Level, Rows
<1>3. CASE UNCHANGED <<users, created>>
  BY <1>3 DEF RowsStay
<1>4. CASE /\ HasTable(p) /\ Insertable(p, in.name)
           /\ users' = With(users, opened[p], With(Table(p), in.name, new))
           /\ created' = created \union {Account(in.name, new)}
  <2> DEFINE o == opened[p]
             t == With(users[o], in.name, new)
  <2>1. o \in DOMAIN users /\ in.name \notin DOMAIN users[o] /\ users' = With(users, o, t)
    BY <1>4 DEF Insertable, Table, HasTable
  <2> HIDE DEF new, o
  <2>2. /\ DOMAIN t = DOMAIN users[o] \union {in.name} /\ t[in.name] = new
        /\ \A n \in DOMAIN users[o] : t[n] = users[o][n]
    BY <2>1 DEF With
  <2> HIDE DEF t
  <2>3. /\ DOMAIN users' = DOMAIN users /\ users'[o] = t
        /\ \A f \in DOMAIN users : f # o => users'[f] = users[f]
    BY <2>1 DEF With
  <2>4. \A f \in DOMAIN users : RowsStay(f)
    BY <2>2, <2>3 DEF RowsStay
  <2>5. ASSUME NEW f \in DOMAIN users', NEW n \in DOMAIN users'[f]
        PROVE  users'[f][n] \in Rows /\ Account(n, users'[f][n]) \in created'
    <3>1. CASE f = o /\ n = in.name
      BY <3>1, <2>2, <2>3, <1>2, <1>4
    <3>2. CASE f = o /\ n # in.name
      BY <3>2, <2>1, <2>2, <2>3, <1>4
    <3>3. CASE f # o
      BY <3>3, <2>3, <1>4
    <3> QED BY <3>1, <3>2, <3>3
  <2> QED BY <1>1, <1>4, <2>3, <2>4, <2>5
<1> QED BY <1>3, <1>4 DEF Insert, Account

\* Starting makes an empty table at most, in a file that has none or is nobody's.
LEMMA StartStep ==
  ASSUME AuthInv, NEW p \in Procs, Start(p)
  PROVE  /\ TableInv' /\ HostInv'
         /\ \A f \in DOMAIN users \intersect InUse : RowsStay(f)
         /\ \A e \in DOMAIN entries : e \in DOMAIN entries' /\ entries'[e] = entries[e]
<1> USE DEF AuthInv, TableInv, HostInv
<1>1. CASE UNCHANGED <<users, opened, entries>>
  BY <1>1 DEF Start, RowsStay
<1>2. CASE ~ IsDir(USERS_DB) /\ \E f \in Opening(USERS_DB) :
             LET old == IF Exists(USERS_DB) THEN users ELSE Without(users, f) IN
             /\ opened' = [opened EXCEPT ![p] = f]
             /\ entries' = With(entries, USERS_DB, f)
             /\ users' \in {old, IF f \in DOMAIN old THEN old ELSE With(old, f, <<>>)}
  <2>1. PICK f \in Opening(USERS_DB) :
             LET old == IF Exists(USERS_DB) THEN users ELSE Without(users, f) IN
             /\ opened' = [opened EXCEPT ![p] = f]
             /\ entries' = With(entries, USERS_DB, f)
             /\ users' \in {old, IF f \in DOMAIN old THEN old ELSE With(old, f, <<>>)}
    BY <1>2
  <2> DEFINE old == IF Exists(USERS_DB) THEN users ELSE Without(users, f)
  <2>2. f \in Files /\ (Exists(USERS_DB) => f = entries[USERS_DB])
                    /\ (~ Exists(USERS_DB) => f \notin InUse)
    BY <1>2 DEF Opening, IsDir, Exists, USERS_DB
  <2>3. /\ DOMAIN old \subseteq DOMAIN users
        /\ \A g \in DOMAIN old : old[g] = users[g]
        /\ DOMAIN users \intersect InUse \subseteq DOMAIN old
    BY <2>2 DEF old, Without, Exists, InUse
  <2> HIDE DEF old
  <2>4. /\ DOMAIN users' \subseteq DOMAIN users \union {f} /\ DOMAIN old \subseteq DOMAIN users'
        /\ \A g \in DOMAIN users' : (g \in DOMAIN old /\ users'[g] = users[g]) \/ users'[g] = <<>>
        /\ \A g \in DOMAIN old : users'[g] = users[g]
    <3>1. users' = old \/ (f \notin DOMAIN old /\ users' = With(old, f, <<>>))
      BY <2>1 DEF old
    <3>2. /\ DOMAIN With(old, f, <<>>) = DOMAIN old \union {f} /\ With(old, f, <<>>)[f] = <<>>
          /\ \A z \in DOMAIN old : z # f => With(old, f, <<>>)[z] = old[z]
      BY DEF With
    <3> QED BY <2>3, <3>1, <3>2
  <2>5. TableInv'
    <3>1. created' = created
      BY DEF Start
    <3>2. \A g \in DOMAIN users' : \A n \in DOMAIN users'[g] :
            users'[g][n] \in Rows /\ Account(n, users'[g][n]) \in created'
      BY <2>3, <2>4, <3>1, EmptyDomain
    <3> QED BY <2>2, <2>4, <3>2
  <2>6. /\ DOMAIN entries' = DOMAIN entries \union {USERS_DB} /\ entries'[USERS_DB] = f
        /\ \A e \in DOMAIN entries : entries'[e] = entries[e]
    BY <2>1, <2>2 DEF Exists, With
  <2>7. HostInv'
    BY <2>1, <2>2, <2>6
  <2> QED BY <2>3, <2>4, <2>5, <2>6, <2>7 DEF RowsStay
<1> QED BY <1>1, <1>2 DEF Start

\* A file command empties a table only where it touches users.db, and a file or a
\* directory disappears or changes only where it removes it.
LEMMA FileStep ==
  ASSUME AuthInv, NEW p \in Procs, NEW n \in FileNames,
         CdName(p, n) \/ MakeDir(p, n) \/ Touch(p, n) \/ Rm(p, n)
  PROVE  /\ AtShell(p) /\ TableInv' /\ HostInv' /\ (Stay \/ End(p))
         /\ (\A f \in DOMAIN users : RowsStay(f)) \/ (Touch(p, n) /\ In(p, n) = USERS_DB)
         /\ \A e \in DOMAIN entries : \/ e \in DOMAIN entries' /\ entries'[e] = entries[e]
                                      \/ Rm(p, n) /\ In(p, n) = e /\ Below(e) = {} /\ Admin(p)
<1> USE DEF AuthInv
<1>1. ASSUME AtShell(p), Stay \/ End(p), users' = users, entries' = entries
      PROVE  TableInv' /\ HostInv'
  BY <1>1 DEF AtShell, TableInv, HostInv, Stay, End
<1>2. users' = users => \A f \in DOMAIN users : RowsStay(f)
  BY DEF RowsStay
<1>3. CASE CdName(p, n)
  BY <1>1, <1>3, <1>2 DEF CdName
<1>4. CASE MakeDir(p, n)
  <2>1. CASE UNCHANGED entries
    BY <1>1, <1>4, <1>2, <2>1 DEF MakeDir, Prompt, Throw
  <2>2. CASE entries' # entries
    <3>1. /\ AtShell(p) /\ Stay /\ users' = users
          /\ ~ Exists(In(p, n)) /\ entries' = With(entries, In(p, n), "dir")
      BY <1>4, <2>2 DEF MakeDir, Prompt
    <3>2. /\ DOMAIN entries' = DOMAIN entries \union {In(p, n)} /\ entries'[In(p, n)] = "dir"
          /\ \A e \in DOMAIN entries : entries'[e] = entries[e]
      BY <3>1 DEF Exists, With
    <3>3. TableInv' /\ HostInv'
      BY <3>1, <3>2 DEF TableInv, HostInv, AtShell, Stay
    <3> QED BY <1>2, <3>1, <3>2, <3>3
  <2> QED BY <2>1, <2>2
<1>5. CASE Touch(p, n)
  <2>0. AtShell(p) /\ Stay
    BY <1>5 DEF Touch, Prompt
  <2>1. CASE UNCHANGED <<users, entries>>
    BY <1>1, <1>2, <2>0, <2>1
  <2>2. CASE ~ UNCHANGED <<users, entries>>
    <3>1. PICK f \in Opening(In(p, n)) :
            entries' = With(entries, In(p, n), f) /\ users' = Without(users, f)
      BY <1>5, <2>2 DEF Touch
    <3>2. ~ IsDir(In(p, n))
      BY <1>5, <2>2 DEF Touch
    <3>3. /\ In(p, n) = USERS_DB => f \in Files
          /\ In(p, n) # USERS_DB => f = "file"
          /\ In(p, n) \in DOMAIN entries => f = entries[In(p, n)]
      <4>1. CASE Exists(In(p, n))
        BY <3>2, <4>1 DEF Opening, HostInv, IsDir, Exists
      <4>2. CASE ~ Exists(In(p, n))
        BY <4>2 DEF Opening, Exists
      <4> QED BY <4>1, <4>2
    <3>4. /\ DOMAIN entries' = DOMAIN entries \union {In(p, n)} /\ entries'[In(p, n)] = f
          /\ \A e \in DOMAIN entries : entries'[e] = entries[e]
          /\ DOMAIN users' = DOMAIN users \ {f} /\ \A g \in DOMAIN users' : users'[g] = users[g]
      BY <3>1, <3>3 DEF With, Without
    <3>5. TableInv' /\ HostInv'
      BY <2>0, <3>3, <3>4 DEF TableInv, HostInv, AtShell, Stay
    <3>6. In(p, n) # USERS_DB => \A g \in DOMAIN users : RowsStay(g)
      BY <3>3, <3>4, AuthAssumption DEF TableInv, RowsStay
    <3> QED BY <1>5, <2>0, <3>4, <3>5, <3>6
  <2> QED BY <2>1, <2>2
<1>6. CASE Rm(p, n)
  <2>1. CASE UNCHANGED entries
    BY <1>1, <1>6, <1>2, <2>1 DEF Rm, Prompt, Throw
  <2>2. CASE entries' # entries
    <3>1. /\ AtShell(p) /\ Stay /\ users' = users /\ Admin(p) /\ Below(In(p, n)) = {}
          /\ entries' = Without(entries, In(p, n))
      BY <1>6, <2>2 DEF Rm, Removable
    <3>2. /\ DOMAIN entries' = DOMAIN entries \ {In(p, n)}
          /\ \A e \in DOMAIN entries' : entries'[e] = entries[e]
      BY <3>1 DEF Without
    <3>3. TableInv' /\ HostInv'
      BY <3>1, <3>2 DEF TableInv, HostInv, AtShell, Stay
    <3> QED BY <1>6, <1>2, <3>1, <3>2, <3>3
  <2> QED BY <2>1, <2>2
<1> QED BY <1>3, <1>4, <1>5, <1>6

-----------------------------------------------------------------------------
(* Every step keeps the invariant.                                         *)

\* At first there is no account, and nobody has typed anything.
LEMMA AuthInvInit == Init => AuthInv
<1> SUFFICES ASSUME Init PROVE AuthInv
  OBVIOUS
<1> USE DEF Init
<1>1. TypesInv
  BY TypedInputs DEF TypesInv
<1>2. DOMAIN users = {}
  BY EmptyDomain
<1>3. TableInv /\ HostInv /\ SessionIsAnAccount
  BY <1>2 DEF TableInv, HostInv, SessionIsAnAccount
<1>4. \A p \in Procs : AttemptInv(p)
  BY DEF AttemptInv
<1> QED BY <1>1, <1>3, <1>4 DEF AuthInv

\* A process that stops, or is back at the menu, holds nothing.  The others hold what
\* they held.
LEMMA ForgetStep ==
  ASSUME AuthInv, NEW p \in Procs, created \subseteq created',
         \/ Menu(p) /\ UNCHANGED session /\ pc[p] # "shell"
         \/ End(p)
  PROVE  TypesInv' /\ (\A q \in Procs : AttemptInv(q))' /\ SessionIsAnAccount'
<1> USE DEF AuthInv, TypesInv, session
<1>1. NoInput \in Typed /\ NoRow \in Rows \union {NoRow}
  BY TypedInputs
<1>2. /\ pc' = [pc EXCEPT ![p] = "menu"] \/ pc' = [pc EXCEPT ![p] = "ended"]
      /\ typed' = [typed EXCEPT ![p] = NoInput] /\ row' = [row EXCEPT ![p] = NoRow]
  BY DEF Menu, End, Goto
<1>3. \/ UNCHANGED session /\ pc[p] # "shell"
      \/ /\ current_user' = [current_user EXCEPT ![p] = ""]
         /\ current_access_level' = [current_access_level EXCEPT ![p] = 0]
  BY DEF End
<1>4. ASSUME NEW q \in Procs PROVE AttemptInv(q)'
  BY <1>2, <1>4 DEF AttemptInv
<1>5. TypesInv'
  BY <1>1, <1>2, <1>3
<1>6. SessionIsAnAccount'
  <2> SUFFICES ASSUME NEW q \in Procs
               PROVE  IF pc'[q] = "shell"
                      THEN /\ current_user'[q] = typed'[q].name
                           /\ [name |-> current_user'[q],
                               row  |-> [password |-> typed'[q].password,
                                         level |-> current_access_level'[q]]] \in created'
                      ELSE current_user'[q] = "" /\ current_access_level'[q] = 0
    BY DEF SessionIsAnAccount
  <2>1. CASE q = p
    BY <1>2, <1>3, <2>1 DEF SessionIsAnAccount
  <2>2. CASE q # p
    <3>1. /\ pc'[q] = pc[q] /\ typed'[q] = typed[q] /\ current_user'[q] = current_user[q]
          /\ current_access_level'[q] = current_access_level[q]
      BY <1>2, <1>3, <2>2
    <3> QED BY <3>1 DEF SessionIsAnAccount
  <2> QED BY <2>1, <2>2
<1> QED BY <1>4, <1>5, <1>6

\* The comparison of the hashes lets in nobody but the owner of an account.
LEMMA VerifyStep ==
  ASSUME AuthInv, NEW p \in Procs, Verify(p)
  PROVE  AuthInv'
<1> USE DEF AuthInv
<1>1. TableInv' /\ HostInv' /\ created' = created
  BY DEF Verify, TableInv, HostInv
<1>2. CASE row[p] # NoRow /\ row[p].password = typed[p].password
  <2>1. /\ row[p] \in Rows /\ typed[p].name \in UserNames
        /\ Account(typed[p].name, row[p]) \in created
    BY <1>2 DEF Verify, AttemptInv
  <2>2. row[p] = [password |-> typed[p].password, level |-> row[p].level] /\ row[p].level \in {0, 1}
    BY <1>2, <2>1 DEF Rows
  <2>3. /\ current_user' = [current_user EXCEPT ![p] = typed[p].name]
        /\ current_access_level' = [current_access_level EXCEPT ![p] = row[p].level]
        /\ pc' = [pc EXCEPT ![p] = "shell"]
        /\ row' = [row EXCEPT ![p] = NoRow] /\ typed' = typed
    BY <1>2 DEF Verify, Goto
  <2>4. TypesInv'
    BY <2>1, <2>2, <2>3 DEF TypesInv
  <2>5. (\A q \in Procs : AttemptInv(q))'
    BY <1>1, <2>3 DEF AttemptInv, TypesInv
  <2>6. ASSUME NEW q \in Procs
        PROVE  IF pc'[q] = "shell"
               THEN /\ current_user'[q] = typed'[q].name
                    /\ [name |-> current_user'[q],
                        row  |-> [password |-> typed'[q].password,
                                  level |-> current_access_level'[q]]] \in created'
               ELSE current_user'[q] = "" /\ current_access_level'[q] = 0
    <3>1. CASE q = p
      <4>1. /\ pc'[q] = "shell" /\ current_user'[q] = typed[q].name
            /\ current_access_level'[q] = row[q].level /\ typed'[q] = typed[q]
        BY <2>3, <3>1 DEF TypesInv
      <4> QED BY <1>1, <2>1, <2>2, <3>1, <4>1 DEF Account
    <3>2. CASE q # p
      <4>1. /\ pc'[q] = pc[q] /\ typed'[q] = typed[q] /\ current_user'[q] = current_user[q]
            /\ current_access_level'[q] = current_access_level[q]
        BY <2>3, <3>2 DEF TypesInv
      <4> QED BY <1>1, <4>1 DEF SessionIsAnAccount
    <3> QED BY <3>1, <3>2
  <2> QED BY <1>1, <2>4, <2>5, <2>6 DEF SessionIsAnAccount
<1>3. CASE ~ (row[p] # NoRow /\ row[p].password = typed[p].password)
  <2>1. UNCHANGED session /\ Menu(p) /\ pc[p] # "shell"
    BY <1>3 DEF Verify, LevelAfterFailure, TypesInv, session
  <2> QED BY <1>1, <2>1, ForgetStep
<1> QED BY <1>2, <1>3

\* Every step keeps the invariant.
LEMMA AuthInvStep == AuthInv /\ [Next]_vars => AuthInv'
<1> SUFFICES ASSUME AuthInv, [Next]_vars PROVE AuthInv'
  OBVIOUS
<1> USE DEF AuthInv, session
<1>1. ASSUME NEW p \in Procs, Insert(p) PROVE AuthInv'
  <2>1. TableInv' /\ created \subseteq created'
    BY <1>1, InsertStep
  <2>2. UNCHANGED <<opened, session, entries>> /\ Menu(p) /\ pc[p] # "shell"
    BY <1>1 DEF Insert
  <2> QED BY <2>1, <2>2, ForgetStep DEF HostInv
<1>2. ASSUME NEW p \in Procs, Verify(p) PROVE AuthInv'
  BY <1>2, VerifyStep
<1>3. ASSUME NEW p \in Procs, Login(p) PROVE AuthInv'
  <2>1. PICK n \in UserNames, password \in Passwords :
          /\ typed' = [typed EXCEPT ![p] = [name |-> n, password |-> password, root_password |-> ""]]
          /\ \E r \in {NoRow} \union {Table(p)[m] : m \in DOMAIN Table(p) \intersect {n}} :
               row' = [row EXCEPT ![p] = r]
    BY <1>3 DEF Login
  <2>2. PICK r :
          /\ r = NoRow \/ (n \in DOMAIN Table(p) /\ r = Table(p)[n])
          /\ row' = [row EXCEPT ![p] = r]
    BY <2>1
  <2>3. r = NoRow \/ (r \in Rows /\ Account(n, r) \in created)
    <3>1. CASE HasTable(p)
      BY <2>2, <3>1 DEF Table, HasTable, TableInv
    <3>2. CASE ~ HasTable(p)
      BY <2>2, <3>2, EmptyDomain DEF Table
    <3> QED BY <3>1, <3>2
  <2>4. /\ pc[p] # "shell" /\ pc' = [pc EXCEPT ![p] = "verify"]
        /\ UNCHANGED <<users, opened, session, created, entries>>
    BY <1>3 DEF Login, Goto
  <2>5. TypesInv'
    BY <2>1, <2>2, <2>3, <2>4, TypedInputs DEF TypesInv
  <2>6. (\A q \in Procs : AttemptInv(q))'
    BY <2>1, <2>2, <2>3, <2>4 DEF AttemptInv, TypesInv
  <2>7. SessionIsAnAccount'
    BY <2>1, <2>4 DEF SessionIsAnAccount, TypesInv
  <2> QED BY <2>4, <2>5, <2>6, <2>7 DEF TableInv, HostInv
<1>4. ASSUME NEW p \in Procs, Signup(p) PROVE AuthInv'
  <2>1. /\ \E in \in Input : typed' = [typed EXCEPT ![p] = in]
        /\ pc[p] # "shell" /\ pc' = [pc EXCEPT ![p] = "insert"]
        /\ UNCHANGED <<users, opened, session, row, created, entries>>
    BY <1>4 DEF Signup, Goto
  <2>2. TypesInv'
    BY <2>1, TypedInputs DEF TypesInv
  <2>3. (\A q \in Procs : AttemptInv(q))'
    BY <2>1 DEF AttemptInv, TypesInv
  <2>4. SessionIsAnAccount'
    BY <2>1 DEF SessionIsAnAccount, TypesInv
  <2> QED BY <2>1, <2>2, <2>3, <2>4 DEF TableInv, HostInv
<1>5. ASSUME NEW p \in Procs, Start(p) PROVE AuthInv'
  <2>1. TableInv' /\ HostInv'
    BY <1>5, StartStep
  <2>2. /\ pc[p] # "shell" /\ pc' = [pc EXCEPT ![p] = "menu"]
        /\ UNCHANGED <<session, attempt, created>>
    BY <1>5 DEF Start, Goto
  <2>3. TypesInv' /\ SessionIsAnAccount' /\ (\A q \in Procs : AttemptInv(q))'
    BY <2>2 DEF TypesInv, SessionIsAnAccount, AttemptInv, attempt
  <2> QED BY <2>1, <2>3
<1>6. ASSUME NEW p \in Procs, End(p), UNCHANGED <<users, created, entries>>
      PROVE  AuthInv'
  <2>1. TableInv' /\ HostInv'
    BY <1>6 DEF TableInv, HostInv, End
  <2> QED BY <1>6, <2>1, ForgetStep
<1>7. ASSUME Stay, TableInv', HostInv', created' = created
      PROVE  AuthInv'
  BY <1>7 DEF Stay, attempt, TypesInv, SessionIsAnAccount, AttemptInv
<1>8. ASSUME NEW p \in Procs, Ls(p) \/ CdUp(p) \/ Shutdown(p) PROVE AuthInv'
  <2>1. UNCHANGED <<users, created, entries>> /\ (Stay \/ End(p))
    BY <1>8 DEF Ls, CdUp, Shutdown, AtShell, Prompt, Throw
  <2>2. Stay => TableInv' /\ HostInv'
    BY <2>1 DEF Stay, TableInv, HostInv
  <2> QED BY <1>6, <1>7, <2>1, <2>2
<1>9. ASSUME NEW p \in Procs, NEW n \in FileNames,
             CdName(p, n) \/ MakeDir(p, n) \/ Touch(p, n) \/ Rm(p, n)
      PROVE  AuthInv'
  <2>1. AtShell(p) /\ TableInv' /\ HostInv' /\ (Stay \/ End(p))
    BY <1>9, FileStep
  <2>2. created' = created
    BY <2>1 DEF AtShell
  <2> QED BY <1>7, <2>1, <2>2, ForgetStep
<1>10. ASSUME NEW p \in Procs, Leave(p) PROVE AuthInv'
  BY <1>6, <1>10 DEF Leave
<1>11. CASE UNCHANGED vars
  BY <1>11 DEF vars, TypesInv, TableInv, HostInv, SessionIsAnAccount, AttemptInv, attempt
<1> QED BY <1>1, <1>2, <1>3, <1>4, <1>5, <1>8, <1>9, <1>10, <1>11 DEF Next

\* The invariant holds of every reachable state.
LEMMA AuthInvariant == Spec => []AuthInv
BY AuthInvInit, AuthInvStep, PTL DEF Spec

-----------------------------------------------------------------------------
(* The theorems.                                                           *)

\* Who is at a shell has typed the name and the password of an account that was signed
\* up and acts with its level, though users.db was emptied, removed or made again between
\* the two halves of login or since (AuthManager::login).
THEOREM SessionIsAnAccountHolds == Spec => []SessionIsAnAccount
<1>1. AuthInv => SessionIsAnAccount
  BY DEF AuthInv
<1> QED BY <1>1, AuthInvariant, PTL

\* No sign-up, start, crash or file command changes or removes an account of a file in
\* use, but for touch of users.db where it lies (AuthManager::create_user, init_db,
\* ShellCommand::cmd_touch).
THEOREM CreatedKeepsPasswordHolds == Spec => CreatedKeepsPassword
<1> DEFINE kept == \A f \in DOMAIN users \intersect InUse : \A n \in DOMAIN users[f] :
               \/ f \in DOMAIN users' /\ n \in DOMAIN users'[f] /\ users'[f][n] = users[f][n]
               \/ \E p \in Procs, n2 \in FileNames : Touch(p, n2) /\ In(p, n2) = USERS_DB
<1>1. AuthInv /\ [Next]_vars => [kept]_vars
  <2> SUFFICES ASSUME AuthInv, [Next]_vars, ~ kept PROVE UNCHANGED vars
    OBVIOUS
  <2>0. ~ \A f \in DOMAIN users \intersect InUse : RowsStay(f)
    BY DEF RowsStay
  <2>1. users' # users
    BY <2>0 DEF RowsStay
  <2>2. ASSUME NEW p \in Procs, Insert(p) \/ Start(p) PROVE FALSE
    BY <2>0, <2>2, InsertStep, StartStep
  <2>3. ASSUME NEW p \in Procs, NEW n \in FileNames,
               CdName(p, n) \/ MakeDir(p, n) \/ Touch(p, n) \/ Rm(p, n)
        PROVE  FALSE
    BY <2>0, <2>3, FileStep
  <2>4. ASSUME NEW p \in Procs, \/ Signup(p) \/ Login(p) \/ Verify(p)
                                \/ Ls(p) \/ CdUp(p) \/ Shutdown(p) \/ Leave(p)
        PROVE  FALSE
    BY <2>1, <2>4 DEF Signup, Login, Verify, Ls, CdUp, Shutdown, Leave
  <2> QED BY <2>2, <2>3, <2>4 DEF Next
<1> QED BY <1>1, AuthInvariant, PTL DEF Spec, CreatedKeepsPassword

\* What disappears from the host or is replaced has nothing below it and is the argument
\* of an rm by the user of an account with the root level (ShellCommand::cmd_rm).
THEOREM OnlyAdminsRemoveHolds == Spec => OnlyAdminsRemove
<1> DEFINE kept == \A e \in DOMAIN entries :
               \/ e \in DOMAIN entries' /\ entries'[e] = entries[e]
               \/ Below(e) = {} /\ \E p \in Procs, n \in FileNames :
                    /\ Rm(p, n) /\ In(p, n) = e
                    /\ \E c \in created : c.name = current_user[p] /\ c.row.level = 1
<1>1. AuthInv /\ [Next]_vars => [kept]_vars
  <2> SUFFICES ASSUME AuthInv, [Next]_vars, ~ kept PROVE UNCHANGED vars
    OBVIOUS
  <2>0. ~ \A e \in DOMAIN entries : e \in DOMAIN entries' /\ entries'[e] = entries[e]
    OBVIOUS
  <2>1. ASSUME NEW p \in Procs, NEW n \in FileNames,
               CdName(p, n) \/ MakeDir(p, n) \/ Touch(p, n) \/ Rm(p, n)
        PROVE  FALSE
    <3>1. /\ AtShell(p)
          /\ \A e \in DOMAIN entries : \/ e \in DOMAIN entries' /\ entries'[e] = entries[e]
                                       \/ Rm(p, n) /\ In(p, n) = e /\ Below(e) = {} /\ Admin(p)
      BY <2>1, FileStep
    <3>2. Admin(p) => \E c \in created : c.name = current_user[p] /\ c.row.level = 1
      <4> SUFFICES ASSUME Admin(p)
                   PROVE  \E c \in created : c.name = current_user[p] /\ c.row.level = 1
        OBVIOUS
      <4>0. pc[p] = "shell" /\ current_access_level[p] \in {0, 1} /\ current_access_level[p] >= 1
        BY <3>1 DEF Admin, AtShell, AuthInv, TypesInv
      <4>1. pc[p] = "shell" /\ current_access_level[p] = 1
        BY <4>0
      <4> DEFINE c == [name |-> current_user[p],
                       row  |-> [password |-> typed[p].password, level |-> current_access_level[p]]]
      <4>2. c \in created
        BY <4>1 DEF AuthInv, SessionIsAnAccount
      <4>3. c.name = current_user[p] /\ c.row.level = 1
        BY <4>1
      <4> HIDE DEF c
      <4> QED BY <4>2, <4>3
    <3> QED BY <3>1, <3>2
  <2>2. ASSUME NEW p \in Procs, Start(p) PROVE FALSE
    BY <2>0, <2>2, StartStep
  <2>3. ASSUME NEW p \in Procs,
               \/ Signup(p) \/ Insert(p) \/ Login(p) \/ Verify(p)
               \/ Ls(p) \/ CdUp(p) \/ Shutdown(p) \/ Leave(p)
        PROVE  FALSE
    BY <2>0, <2>3 DEF Signup, Insert, Login, Verify, Ls, CdUp, Shutdown, Leave
  <2> QED BY <2>1, <2>2, <2>3 DEF Next
<1> QED BY <1>1, AuthInvariant, PTL DEF Spec, OnlyAdminsRemove
=============================================================================
