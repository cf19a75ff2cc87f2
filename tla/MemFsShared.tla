------------------------------ MODULE MemFsShared ------------------------------
(***************************************************************************)
(* The directory tree of fs.cpp driven by several threads: pool workers    *)
(* and background tasks run execute_command_str too, and nothing locks     *)
(* root, cwd or the nodes.  Each operation is cut where it reads cwd or a  *)
(* directory again after having checked it.                                *)
(***************************************************************************)
EXTENDS MemFs

CONSTANTS Threads

VARIABLES op,      \* the operation a thread is in, "idle" between commands
          found,   \* what it looked up: a node for cd and mkdir, an index for rmdir
          wild     \* an array of children was read past its end

shared == <<node, root, cwd, result>>
sharedVars == <<node, root, cwd, result, op, found, wild>>

SharedInit ==
  /\ Init
  /\ op = [t \in Threads |-> "idle"]
  /\ found = [t \in Threads |-> NULL]
  /\ wild = FALSE

\* A node may have been freed; what is left of its fields is then not looked at.
Usable(d) == d \in live

Enter(t, o, x) == op' = [op EXCEPT ![t] = o] /\ found' = [found EXCEPT ![t] = x]
Leave(t) == Enter(t, "idle", NULL)

\* change_directory: the lookup ...
CdFind(t, path) ==
  /\ op[t] = "idle" /\ Usable(cwd)
  /\ IF Target(path) # NULL THEN Enter(t, "cd", Target(path)) /\ UNCHANGED shared
     ELSE result' = -1 /\ UNCHANGED <<node, root, cwd, op, found>>
  /\ UNCHANGED wild

\* ... and the move.
CdMove(t) ==
  /\ op[t] = "cd"
  /\ cwd' = found[t] /\ result' = 0
  /\ Leave(t)
  /\ UNCHANGED <<node, root, wild>>

\* fs_mkdir: the checks and node_create ...
MkdirCreate(t, n) ==
  /\ op[t] = "idle" /\ Usable(cwd)
  /\ \/ /\ Len(node[cwd].children) < MAX_CHILDREN /\ ~ Duplicate(n)
        /\ \E new \in Nodes \ live :
             /\ node' = (new :> NewNode(Stored(n), NULL)) @@ node
             /\ Enter(t, "parent", new)
        /\ UNCHANGED result
     \/ /\ \/ Len(node[cwd].children) >= MAX_CHILDREN
           \/ Duplicate(n)
           \/ live = Nodes
        /\ result' = -1
        /\ UNCHANGED <<node, op, found>>
  /\ UNCHANGED <<root, cwd, wild>>

\* ... dir->parent = cwd ...
MkdirParent(t) ==
  /\ op[t] = "parent"
  /\ node' = [node EXCEPT ![found[t]].parent = cwd]
  /\ op' = [op EXCEPT ![t] = "insert"]
  /\ UNCHANGED <<root, cwd, result, found, wild>>

\* ... and the entry in whatever cwd is by then.
MkdirInsert(t) ==
  /\ op[t] = "insert" /\ Usable(cwd)
  /\ IF Len(node[cwd].children) < MAX_CHILDREN
     THEN node' = [node EXCEPT ![cwd].children = Append(@, found[t])] /\ UNCHANGED wild
     ELSE wild' = TRUE /\ UNCHANGED node
  /\ result' = 0
  /\ Leave(t)
  /\ UNCHANGED <<root, cwd>>

\* fs_rmdir: the search, which also tests that the directory is empty ...
RmdirFind(t, n) ==
  LET i == IF Usable(cwd) THEN Named(cwd, n) ELSE 0 IN
  /\ op[t] = "idle" /\ Usable(cwd)
  /\ IF i # 0 /\ Removable(node[cwd].children[i])
     THEN Enter(t, "rmdir", i) /\ UNCHANGED result
     ELSE result' = -1 /\ UNCHANGED <<op, found>>
  /\ UNCHANGED <<node, root, cwd, wild>>

\* ... and the removal of the entry with that index in whatever cwd is by then.
RmdirRemove(t) ==
  LET i == found[t] IN
  /\ op[t] = "rmdir" /\ Usable(cwd)
  /\ IF i \in DOMAIN node[cwd].children
     THEN /\ node' = [d \in live \ {node[cwd].children[i]} |->
                        IF d = cwd THEN [node[d] EXCEPT !.children = RemoveAt(@, i)] ELSE node[d]]
          /\ UNCHANGED wild
     ELSE wild' = TRUE /\ UNCHANGED node
  /\ result' = 0
  /\ Leave(t)
  /\ UNCHANGED <<root, cwd>>

\* A thread goes on as long as nobody has trodden on freed memory.
SharedNext ==
  /\ ~ wild /\ \A d \in live : ToSet(node[d].children) \subseteq live
  /\ \E t \in Threads :
       \/ \E path \in Paths : CdFind(t, path)
       \/ \E n \in Names : MkdirCreate(t, n) \/ RmdirFind(t, n)
       \/ CdMove(t) \/ MkdirParent(t) \/ MkdirInsert(t) \/ RmdirRemove(t)

SharedSpec == SharedInit /\ [][SharedNext]_sharedVars

-----------------------------------------------------------------------------
\* "only remove if empty": no directory is freed while there are entries in it.
OnlyEmptyRemoved == [][\A d \in live : d \notin live' => node[d].children = <<>>]_sharedVars
=============================================================================
