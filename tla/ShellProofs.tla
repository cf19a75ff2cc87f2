------------------------------ MODULE ShellProofs ------------------------------
(***************************************************************************)
(* Proofs about Shell, for any profiles, lines, directories and disks, and *)
(* however names and passwords are cut.                                    *)
(***************************************************************************)
EXTENDS Shell, SequenceTheorems, WellFoundedInduction, TLAPS

\* What the interpreter takes for granted: the current profile is one of the array, and
\* the file that is stdout is no disk any more.
ShellInv ==
  /\ profiles \in Seq([name : UserNames, password : Secrets, is_root : BOOLEAN])
  /\ current_profile_idx \in DOMAIN profiles
  /\ stdout \notin disks

-----------------------------------------------------------------------------
(* Searching the array.                                                    *)

\* A set of naturals that is not empty has a least element.
LEMMA LeastNat ==
  ASSUME NEW S \in SUBSET Nat, S # {}
  PROVE  \E x \in S : \A y \in S : x <= y
<1>1. IsWellFoundedOn({ss \in Nat \X Nat : ss[1] < ss[2]}, Nat)
  BY NatLessThanWellFounded DEF OpToRel
<1>2. PICK x \in S : \A y \in S : <<y, x>> \notin {ss \in Nat \X Nat : ss[1] < ss[2]}
  BY <1>1, WFMin
<1>3. \A y \in S : ~ (y < x)
  BY <1>2
<1> QED BY <1>3

\* Some of the indexes up to n have a least and a greatest one, the one that is least
\* counted from n.
LEMMA MinMax ==
  ASSUME NEW n \in Nat, NEW S \in SUBSET (1 .. n), S # {}
  PROVE  Min(S) \in S /\ Max(S) \in S /\ Min(S) <= Max(S)
<1>1. \E x \in S : \A y \in S : x <= y
  BY LeastNat
<1>2. \E x \in S : \A y \in S : x >= y
  <2> DEFINE T == {n - y : y \in S}
  <2>1. ASSUME NEW y \in S PROVE n - y \in Nat /\ y \in Int
    <3>1. y \in 1 .. n
      OBVIOUS
    <3> QED BY <3>1
  <2>2. T \in SUBSET Nat /\ T # {}
    BY <2>1
  <2>3. \A y \in S : n - y \in T
    OBVIOUS
  <2>4. \A k \in T : \E y \in S : k = n - y
    OBVIOUS
  <2> HIDE DEF T
  <2>5. PICK k \in T : \A j \in T : k <= j
    BY <2>2, LeastNat
  <2>6. PICK x \in S : k = n - x
    BY <2>4
  <2>7. \A y \in S : n - x <= n - y
    BY <2>3, <2>5, <2>6
  <2> QED BY <2>1, <2>7
<1> QED BY <1>1, <1>2 DEF Min, Max

\* select_profile finds the first profile of a name and the interpreter the last one;
\* both find none where there is none.
LEMMA Searches ==
  ASSUME ShellInv, NEW n
  PROVE  \/ /\ IndexOf(n) = 0 /\ LastIndexOf(n) = 0
            /\ \A i \in DOMAIN profiles : profiles[i].name # n
         \/ /\ IndexOf(n) \in DOMAIN profiles /\ profiles[IndexOf(n)].name = n
            /\ LastIndexOf(n) \in DOMAIN profiles /\ profiles[LastIndexOf(n)].name = n
            /\ IndexOf(n) <= LastIndexOf(n) /\ IndexOf(n) # 0 /\ LastIndexOf(n) # 0
<1> DEFINE hits == {i \in 1 .. Len(profiles) : profiles[i].name = n}
<1>1. Len(profiles) \in Nat /\ DOMAIN profiles = 1 .. Len(profiles)
  BY LenProperties DEF ShellInv
<1>2. /\ IndexOf(n) = IF hits # {} THEN Min(hits) ELSE 0
      /\ LastIndexOf(n) = IF hits # {} THEN Max(hits) ELSE 0
  BY DEF IndexOf, LastIndexOf, SelectInSeq, SelectLastInSeq
<1>3. CASE hits = {}
  BY <1>1, <1>2, <1>3
<1>4. CASE hits # {}
  <2>1. Min(hits) \in hits /\ Max(hits) \in hits /\ Min(hits) <= Max(hits)
    BY <1>1, <1>4, MinMax
  <2> HIDE DEF hits
  <2>2. \A i \in hits : i \in 1 .. Len(profiles) /\ profiles[i].name = n
    BY DEF hits
  <2> QED BY <1>1, <1>2, <1>4, <2>1, <2>2
<1> QED BY <1>3, <1>4

-----------------------------------------------------------------------------
(* The invariant.                                                          *)

\* root and guest, who are there before main runs.
LEMMA ShellInvInit == Init => ShellInv
<1> SUFFICES ASSUME Init PROVE ShellInv
  OBVIOUS
<1> DEFINE P == [name : UserNames, password : Secrets, is_root : BOOLEAN]
           root == [name |-> "root", password |-> "root", is_root |-> TRUE]
           guest == [name |-> "guest", password |-> "", is_root |-> FALSE]
<1>1. root \in P /\ guest \in P
  BY ProfileAssumption
<1>2. profiles = <<root, guest>> /\ current_profile_idx = 2
  BY DEF Init, ProfilesInit
<1> HIDE DEF P, root, guest
<1>3. profiles \in Seq(P) /\ DOMAIN profiles = {1, 2}
  BY <1>1, <1>2
<1>4. stdout \notin disks
  BY ShellAssumption DEF Init
<1> QED BY <1>2, <1>3, <1>4 DEF ShellInv, P

\* What adduser is given.
LEMMA Typed ==
  ASSUME line' \in Lines, line'.cmd = "adduser", ~ line'.short
  PROVE  /\ line'.args.name \in UserNames /\ line'.args.password \in Secrets
         /\ line'.args.is_root \in BOOLEAN
<1>1. line'.args \in Arguments("adduser")
  BY LinesAssumption
<1> QED BY <1>1 DEF Arguments

\* adduser appends one profile, with the name and the password cut.
LEMMA AdduserStep ==
  ASSUME ShellInv, Adduser, line' \in Lines, ~ UNCHANGED users
  PROVE  /\ has_privilege /\ MayAdd /\ UNCHANGED current_profile_idx
         /\ \A i \in DOMAIN profiles : profiles[i].name # line'.args.name
         /\ profiles' \in Seq([name : UserNames, password : Secrets, is_root : BOOLEAN])
         /\ DOMAIN profiles' = DOMAIN profiles \union {Len(profiles) + 1}
         /\ \A i \in DOMAIN profiles : profiles'[i] = profiles[i]
         /\ profiles'[Len(profiles) + 1].name = StoredName(line'.args.name)
         /\ profiles'[Len(profiles) + 1].is_root = line'.args.is_root
<1> DEFINE P == [name : UserNames, password : Secrets, is_root : BOOLEAN]
           new == [name |-> StoredName(line'.args.name), password |-> StoredSecret(line'.args.password),
                   is_root |-> line'.args.is_root]
<1>1. /\ has_privilege /\ MayAdd /\ UNCHANGED current_profile_idx /\ line'.cmd = "adduser"
      /\ ~ line'.short /\ IndexOf(line'.args.name) = 0 /\ profiles' = Append(profiles, new)
  BY DEF Adduser, AddProfile, Addable, users
<1>2. new \in P
  BY <1>1, Typed, ProfileAssumption
<1>3. \A i \in DOMAIN profiles : profiles[i].name # line'.args.name
  BY <1>1, Searches
<1>4. new.name = StoredName(line'.args.name) /\ new.is_root = line'.args.is_root
  OBVIOUS
<1> HIDE DEF new
<1>5. /\ profiles' \in Seq(P) /\ Len(profiles') = Len(profiles) + 1
      /\ profiles'[Len(profiles) + 1] = new
      /\ \A i \in 1 .. Len(profiles) : profiles'[i] = profiles[i]
  BY <1>1, <1>2, AppendProperties DEF ShellInv
<1>6. /\ Len(profiles) \in Nat /\ DOMAIN profiles = 1 .. Len(profiles)
      /\ DOMAIN profiles' = 1 .. Len(profiles) + 1
  BY <1>5, LenProperties DEF ShellInv
<1> QED BY <1>1, <1>3, <1>4, <1>5, <1>6

\* su, which selects the first profile of the name where it may be the last one.
LEMMA SuStep ==
  ASSUME ShellInv, Su, ~ UNCHANGED users
  PROVE  LET n == line'.args.name IN
         /\ UNCHANGED profiles /\ current_profile_idx' = IndexOf(n) /\ line'.cmd = "su"
         /\ IndexOf(n) \in DOMAIN profiles /\ profiles[IndexOf(n)].name = n
         /\ LastIndexOf(n) \in DOMAIN profiles /\ profiles[LastIndexOf(n)].name = n
         /\ IndexOf(n) <= LastIndexOf(n) /\ MayBe(profiles[LastIndexOf(n)])
<1>1. /\ line'.cmd = "su" /\ LastIndexOf(line'.args.name) # 0
      /\ MayBe(profiles[LastIndexOf(line'.args.name)]) /\ SelectProfile(line'.args.name)
  BY DEF Su, users
<1> QED BY <1>1, Searches DEF SelectProfile

\* The lines that leave the profiles as they are.
LEMMA OtherSteps == Next => UNCHANGED users \/ Su \/ (Adduser /\ line' \in Lines)
BY DEF Next, Login, Submit, Kill, Look, Exit, ChangeDirectory, Directories, Mkdisk, SoftInit, Refuse

\* No line breaks the invariant.
LEMMA ShellInvStep == ShellInv /\ [Next]_vars => ShellInv'
<1> SUFFICES ASSUME ShellInv, [Next]_vars PROVE ShellInv'
  OBVIOUS
<1>1. CASE UNCHANGED vars
  BY <1>1 DEF vars, users, streams, ShellInv
<1>2. CASE Next
  <2>1. stdout' \notin disks'
    BY <1>2 DEF Next, Mkdisk, Keeps
  <2>2. CASE UNCHANGED users
    BY <2>1, <2>2 DEF users, ShellInv
  <2>3. CASE Su /\ ~ UNCHANGED users
    BY <2>1, <2>3, SuStep DEF ShellInv
  <2>4. CASE Adduser /\ line' \in Lines /\ ~ UNCHANGED users
    BY <2>1, <2>4, AdduserStep DEF ShellInv
  <2> QED BY <1>2, <2>2, <2>3, <2>4, OtherSteps
<1> QED BY <1>1, <1>2

\* The invariant holds after every line.
LEMMA ShellInvariant == Spec => []ShellInv
BY ShellInvInit, ShellInvStep, PTL DEF Spec

-----------------------------------------------------------------------------
(* Properties.                                                             *)

\* A line that makes no disk destroys at most the one in the file it redirects to.
LEMMA DisksKept ==
  ASSUME ShellInv, Redirect, Keeps(disks)
  PROVE  /\ disks' = IF stdout' = stdout THEN disks ELSE disks \ {line'.out}
         /\ stdin' \in {stdin, line'.in} /\ stdout' \in {stdout, line'.out}
BY DEF ShellInv, Redirect, Keeps

\* Without privilege a line cancels the task a kill names, destroys the disk after its ">",
\* and changes nothing else that others see (the checks of has_privilege in
\* execute_command_str, and the commands that lack one).
THEOREM UnprivilegedChangesNothingHolds == Spec => UnprivilegedChangesNothing
<1> DEFINE A == ~ has_privilege =>
       /\ UNCHANGED <<profiles, dirs, disk>>
       /\ disks' = disks \/ disks' = disks \ {line'.out}
       /\ \/ tasks' = tasks
          \/ line'.cmd = "kill" /\ tasks' = [tasks EXCEPT ![line'.args.id] = "cancelled"]
<1>1. ASSUME ShellInv, Next, ~ has_privilege PROVE A
  <2>1. ~ Mkdisk /\ ~ Directories /\ ~ SoftInit
    BY <1>1 DEF Directories, Mkdisk, SoftInit, Dash, MayDash
  <2>2. disks' = disks \/ disks' = disks \ {line'.out}
    BY <1>1, <2>1, DisksKept DEF Next
  <2>3. CASE Adduser \/ Su
    BY <1>1, <2>2, <2>3 DEF Adduser, Su, SelectProfile, users, tree
  <2>4. CASE Login \/ Submit \/ Look \/ Exit \/ Refuse
    BY <1>1, <2>2, <2>4 DEF Login, Submit, Look, Exit, Refuse, users, tree
  <2>5. CASE Kill
    BY <2>2, <2>5 DEF Kill, users, tree
  <2>6. CASE ChangeDirectory
    BY <2>2, <2>6 DEF ChangeDirectory, Cd, users, tree
  <2> QED BY <1>1, <2>1, <2>3, <2>4, <2>5, <2>6 DEF Next
<1>2. ShellInv /\ [Next]_vars => [A]_vars
  BY <1>1
<1> QED BY ShellInvariant, <1>2, PTL DEF Spec, UnprivilegedChangesNothing

\* A line for which execute_command_str returned 1 has changed nothing but by its
\* redirections: what can fail is looked at before anything else is changed.
THEOREM FailureChangesNothingHolds == Spec => FailureChangesNothing
<1> DEFINE A == code' = 1 =>
       /\ UNCHANGED <<users, current_profile, tree, disk, tasks, shell_running>>
       /\ stdin' \in {stdin, line'.in} /\ stdout' \in {stdout, line'.out}
       /\ disks' = IF stdout' = stdout THEN disks ELSE disks \ {line'.out}
<1>1. ASSUME ShellInv, Next, code' = 1 PROVE A
  <2>0. Redirect /\ Keeps(disks)
    <3>1. Mkdisk => Keeps(disks)
      BY <1>1 DEF Mkdisk
    <3> QED BY <1>1, <3>1 DEF Next
  <2>1. /\ stdin' \in {stdin, line'.in} /\ stdout' \in {stdout, line'.out}
        /\ disks' = IF stdout' = stdout THEN disks ELSE disks \ {line'.out}
    BY <1>1, <2>0, DisksKept
  <2>2. UNCHANGED <<users, current_profile, tree, disk, tasks, shell_running>>
    <3>1. CASE Adduser \/ Su \/ Login \/ Submit \/ Kill \/ Look \/ Exit
      BY <1>1, <3>1 DEF Adduser, Su, Login, Submit, Kill, Look, Exit
    <3>2. CASE ChangeDirectory
      BY <1>1, <3>2 DEF ChangeDirectory
    <3>3. CASE Directories
      BY <1>1, <3>3 DEF Directories, Mkdir, Rmdir, tree
    <3>4. CASE Mkdisk
      BY <1>1, <3>4 DEF Mkdisk
    <3>5. CASE SoftInit
      BY <1>1, <3>5 DEF SoftInit, ClustersAfterInit, disk
    <3>6. CASE Refuse
      BY <3>6 DEF Refuse
    <3> QED BY <1>1, <3>1, <3>2, <3>3, <3>4, <3>5, <3>6 DEF Next
  <2> QED BY <2>1, <2>2
<1>2. ShellInv /\ [Next]_vars => [A]_vars
  BY <1>1
<1> QED BY ShellInvariant, <1>2, PTL DEF Spec, FailureChangesNothing

\* Nobody gains privilege but by su with what su asks for a profile of the name it selects,
\* no root profile is added without the password of the first, and two profiles share a
\* name only where one was cut (su and adduser in execute_command_str, add_profile,
\* select_profile).
THEOREM PrivilegeHasAPasswordHolds == Spec => PrivilegeHasAPassword
<1> DEFINE gained == ~ has_privilege /\ has_privilege' =>
             /\ line'.cmd = "su"
             /\ \E i, j \in DOMAIN profiles :
                  /\ i <= j /\ profiles[i].is_root
                  /\ profiles[i].name = line'.args.name /\ profiles[j].name = line'.args.name
                  /\ profiles[j].is_root => profiles[j].password = line'.args.password
           added == \A i \in DOMAIN profiles' \ DOMAIN profiles :
             /\ profiles'[i].is_root => line'.args.rp = profiles[1].password
             /\ (\E j \in DOMAIN profiles : profiles[j].name = profiles'[i].name) =>
                  StoredName(line'.args.name) # line'.args.name
<1>1. ASSUME ShellInv, Next PROVE gained /\ added
  <2>1. CASE UNCHANGED users
    BY <2>1 DEF users, has_privilege
  <2>2. CASE Su /\ ~ UNCHANGED users
    <3> DEFINE first == IndexOf(line'.args.name)
               last == LastIndexOf(line'.args.name)
    <3>1. /\ UNCHANGED profiles /\ current_profile_idx' = first /\ line'.cmd = "su"
          /\ first \in DOMAIN profiles /\ profiles[first].name = line'.args.name
          /\ last \in DOMAIN profiles /\ profiles[last].name = line'.args.name
          /\ first <= last /\ MayBe(profiles[last])
      BY <1>1, <2>2, SuStep
    <3> HIDE DEF first, last
    <3>2. has_privilege' => profiles[first].is_root
      BY <3>1 DEF has_privilege
    <3>3. profiles[last].is_root => profiles[last].password = line'.args.password
      BY <3>1 DEF MayBe
    <3> QED BY <3>1, <3>2, <3>3
  <2>3. CASE Adduser /\ line' \in Lines /\ ~ UNCHANGED users
    <3>1. /\ MayAdd /\ UNCHANGED current_profile_idx
          /\ \A i \in DOMAIN profiles : profiles[i].name # line'.args.name
          /\ DOMAIN profiles' = DOMAIN profiles \union {Len(profiles) + 1}
          /\ \A i \in DOMAIN profiles : profiles'[i] = profiles[i]
          /\ profiles'[Len(profiles) + 1].name = StoredName(line'.args.name)
          /\ profiles'[Len(profiles) + 1].is_root = line'.args.is_root
      BY <1>1, <2>3, AdduserStep
    <3>2. gained
      BY <1>1, <3>1 DEF has_privilege, ShellInv
    <3>3. added
      BY <3>1 DEF MayAdd
    <3> QED BY <3>2, <3>3
  <2> QED BY <1>1, <2>1, <2>2, <2>3, OtherSteps
<1>2. ShellInv /\ [Next]_vars => [gained /\ added]_vars
  BY <1>1
<1> QED BY ShellInvariant, <1>2, PTL DEF Spec, PrivilegeHasAPassword
=============================================================================
