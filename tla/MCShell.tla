-------------------------------- MODULE MCShell --------------------------------
(* One line of every kind, and of every way it can fail.  Two names are too   *)
(* long for their field and cut to one, and a password is cut to another.     *)
EXTENDS Shell

MCStoredName(n) == IF n \in {"ann long", "ann longer"} THEN "ann" ELSE n
MCStoredSecret(s) == IF s = "pw long" THEN "pw" ELSE s

Cd_a == [absolute |-> FALSE, comps |-> <<"a">>]
Cd_up == [absolute |-> FALSE, comps |-> <<"..">>]
MCPaths == {Cd_a, Cd_up}

Plain(cmd, args) ==
  [cmd |-> cmd, short |-> FALSE, background |-> FALSE, in |-> "", out |-> "", args |-> args]

Adduser_as(name, is_root, rp) ==
  Plain("adduser", [name |-> name, password |-> "pw long", is_root |-> is_root, rp |-> rp])
Su_to(name, password) == Plain("su", [name |-> name, password |-> password])

MCUserLines ==
  {Adduser_as("ann long", TRUE, "root"), Adduser_as("ann long", TRUE, ""),
   Adduser_as("ann longer", FALSE, "")}
  \union {Su_to("root", "root"), Su_to("root", ""), Su_to("guest", ""),
          Su_to("ann", "pw"), Su_to("ann", "pw long")}
  \union {Plain("login", [role |-> r]) : r \in {"root", "nobody"}}
  \union {Plain("exit", <<>>)}

MCDirLines ==
  {Plain("cd", [path |-> p]) : p \in MCPaths}
  \union {Plain(cmd, [dir |-> "a"]) : cmd \in {"-D", "-R"}}
  \union {Plain("kill", [id |-> 1]),
          [Plain("dir", <<>>) EXCEPT !.out = "drive"],
          [Plain("-D", [dir |-> "a"]) EXCEPT !.background = TRUE]}

\* One that is refused and one that returns 1 redirect.
MCDiskLines ==
  {Plain("-mkdisk", [volume |-> "v", rows |-> 3, nibbles |-> n]) : n \in {1, 2}}
  \union {Plain("-init", [clusters |-> 3, size |-> 0]), Plain("-init", [clusters |-> 0, size |-> 1]),
          Plain("-init", [clusters |-> 3, size |-> 1])}
  \union {Plain("-other", <<>>),
          [Plain("other", <<>>) EXCEPT !.out = "drive"],
          [Plain("-mkdisk", [volume |-> "v", rows |-> 0, nibbles |-> 2]) EXCEPT !.in = "v"]}

MCShortLines ==
  [cmd : {"su", "cd", "-mkdisk"}, short : {TRUE}, background : {FALSE}, in : {""}, out : {""}]

MCLines == MCUserLines \union MCDirLines \union MCDiskLines \union MCShortLines
===============================================================================
