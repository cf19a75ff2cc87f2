------------------------------- MODULE Profiles -------------------------------
(***************************************************************************)
(* User profiles: the array of flinstone_profiles_tasks_v9/src/profile.cpp *)
(* and the index of the profile that commands run under.  No command of    *)
(* the program deletes a profile, so del_profile is left out.              *)
(***************************************************************************)
EXTENDS SequencesExt

CONSTANTS UserNames,     \* names a profile is asked for by
          Secrets,       \* passwords
          StoredName(_),   \* what the 64-byte fields keep of a name
          StoredSecret(_), \* and of a password
          MAX_PROFILES

ASSUME ProfileAssumption ==
  /\ {"root", "guest"} \subseteq UserNames /\ {"root", ""} \subseteq Secrets
  /\ \A n \in UserNames : StoredName(n) \in UserNames
  /\ \A s \in Secrets : StoredSecret(s) \in Secrets
  /\ MAX_PROFILES \in Nat /\ MAX_PROFILES >= 2

VARIABLES profiles,             \* the entries in use
          current_profile_idx   \* 1 is the first

\* init_profiles, which runs before main.
ProfilesInit ==
  /\ profiles = <<[name |-> "root", password |-> "root", is_root |-> TRUE],
                  [name |-> "guest", password |-> "", is_root |-> FALSE]>>
  /\ current_profile_idx = 2

has_privilege == profiles[current_profile_idx].is_root

\* The first profile whose name is n, 0 if there is none.
IndexOf(n) == SelectInSeq(profiles, LAMBDA p : p.name = n)

Addable(n) == Len(profiles) < MAX_PROFILES /\ IndexOf(n) = 0

\* The name is looked for as it is given and stored cut, so two profiles may come to have
\* one name.
AddProfile(n, password, is_root) ==
  /\ profiles' = IF Addable(n)
                 THEN Append(profiles, [name |-> StoredName(n), password |-> StoredSecret(password),
                                        is_root |-> is_root])
                 ELSE profiles
  /\ UNCHANGED current_profile_idx

SelectProfile(n) ==
  /\ current_profile_idx' = IF IndexOf(n) # 0 THEN IndexOf(n) ELSE current_profile_idx
  /\ UNCHANGED profiles
=============================================================================
