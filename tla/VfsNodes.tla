------------------------------ MODULE VfsNodes ------------------------------
(***************************************************************************)
(* The nodes of the virtual filesystem, fs/vfs/vfs.c: vfs_find_path, which *)
(* looks for a node, and vfs_link_node_vfs, which hangs a new one into its *)
(* directory.  Both run with interrupts on; a step looks at one node.      *)
(*                                                                         *)
(* A path is absolute or not, and has names; "" is the name between two    *)
(* slashes and after a trailing one.  Node 0 is NULL, node 1 the root.     *)
(***************************************************************************)
EXTENDS Integers, Sequences, FiniteSets

CONSTANTS Tasks,
          Rest          \* a name without its first character

VARIABLES nodes,        \* the vfs nodes
          call,         \* what each task is doing
          cwd,          \* the names of its working directory
          linked,       \* the nodes that were linked, with their directory
          raced         \* directories that two tasks were linking to at once

tree == <<nodes, linked, raced>>

Root == 1
Node(name, offset) == [name |-> name, offset |-> offset, dirlist |-> 0, next |-> 0]
Wild == "?"            \* what an out-of-bounds read makes of a name
NoCall == [op |-> "none", pc |-> "idle", left |-> <<>>, again |-> <<>>, at |-> 0,
           new |-> 0, dir |-> 0, path |-> [abs |-> TRUE, names |-> <<>>]]

Front(names) == SubSeq(names, 1, Len(names) - 1)
Last(names) == names[Len(names)]
At(t, pc) == call[t].pc = pc

-----------------------------------------------------------------------------
\* What vfs_find_path looks for first, from the root ...
Sought(t, path) == IF path.abs THEN path.names ELSE cwd[t] \o path.names

\* ... and then.  A relative path that is not found under the working directory
\* is looked for from the root, without the character at which an absolute one
\* has its slash.
Again(path) ==
  IF path.abs THEN <<>> ELSE <<Rest[Head(path.names)]>> \o Tail(path.names)

\* vfs_find_path begins; the path "/" is the root.
find(t, c, path) ==
  LET s == Sought(t, path)
  IN IF s = <<>> THEN [c EXCEPT !.pc = "found", !.at = Root]
     ELSE [c EXCEPT !.pc = "find", !.left = s, !.again = Again(path),
                    !.at = nodes[Root].dirlist]

\* The node of the last name is the result.
Found(c) == Len(c.left) = 1

\* _vfs_path_find: the next node of the list is compared.
path_find(t) ==
  LET c == call[t]
      n == nodes[c.at]
  IN /\ c.pc = "find" /\ c.at # 0
     /\ call' = [call EXCEPT ![t] =
          CASE n.name # Head(c.left) -> [c EXCEPT !.at = n.next]
            [] n.name = Head(c.left) /\ Found(c) -> [c EXCEPT !.pc = "found"]
            [] OTHER -> [c EXCEPT !.left = Tail(@), !.at = n.dirlist]]
     /\ UNCHANGED <<tree, cwd>>

\* The list ends: the path is not there, or it is looked for once more.
path_end(t) ==
  LET c == call[t]
  IN /\ c.pc = "find" /\ c.at = 0
     /\ call' = [call EXCEPT ![t] =
          IF c.again = <<>> THEN [c EXCEPT !.pc = "found"]
          ELSE [c EXCEPT !.left = c.again, !.again = <<>>, !.at = nodes[Root].dirlist]]
     /\ UNCHANGED <<tree, cwd>>

-----------------------------------------------------------------------------
\* vfs_get_name.  It does not see a name that comes right after the root, and
\* looks one byte beyond its buffer (stray: there is a slash).
get_name(path, stray) ==
  CASE stray -> Wild
    [] ~stray /\ path.abs /\ Len(path.names) = 1 -> Wild
    [] OTHER -> Last(path.names)

\* A trailing slash is dropped.
Stripped(path) == IF Last(path.names) = "" THEN Front(path.names) ELSE path.names

\* vfs_link_node_vfs of a new node begins with the path of the directory; there
\* is none for a path with no slash but at its start.  It also looks one byte
\* beyond its buffer, unless it has dropped a slash.
link(t, c, path, over) ==
  LET names == Stripped(path)
      dir == IF over /\ names = path.names THEN names ELSE Front(names)
  IN IF dir = <<>> THEN [c EXCEPT !.pc = "failed"]
     ELSE find(t, c, [path EXCEPT !.names = dir])

Linking(dir) == {u \in Tasks : call[u].pc \in {"walk", "set"} /\ call[u].dir = dir}

\* The directory was found or not.  A node without a list makes it follow NULL;
\* what comes of that is not modelled.
link_dir(t) ==
  LET c == call[t]
  IN /\ c.pc = "found" /\ c.new # 0
     /\ call' = [call EXCEPT ![t] =
          CASE c.at = 0 -> [c EXCEPT !.pc = "failed"]
            [] c.at # 0 /\ nodes[c.at].dirlist = 0 -> [c EXCEPT !.pc = "wild"]
            [] OTHER -> [c EXCEPT !.pc = "walk", !.dir = c.at,
                                  !.at = nodes[c.at].dirlist]]
     /\ raced' = IF Linking(c.at) = {} THEN raced ELSE raced \cup {c.at}
     /\ UNCHANGED <<nodes, linked, cwd>>

\* Mutant of link_walk: the node is put after the first of the list.
link_walk_none(t) ==
  /\ call[t].pc = "walk"
  /\ call' = [call EXCEPT ![t].pc = "set"]
  /\ UNCHANGED <<tree, cwd>>

\* To the end of the list ...
link_walk(t) ==
  LET c == call[t]
      n == nodes[c.at]
  IN /\ c.pc = "walk"
     /\ call' = [call EXCEPT ![t] = IF n.next = 0 THEN [c EXCEPT !.pc = "set"]
                                                  ELSE [c EXCEPT !.at = n.next]]
     /\ UNCHANGED <<tree, cwd>>

\* Mutant of link_set: the node becomes the first of its directory.
link_set_first(t) ==
  LET c == call[t]
  IN /\ c.pc = "set"
     /\ nodes' = [nodes EXCEPT ![c.dir].dirlist = c.new, ![c.new].next = nodes[c.dir].dirlist]
     /\ linked' = linked \cup {<<c.new, c.dir>>}
     /\ call' = [call EXCEPT ![t].pc = "linked"]
     /\ UNCHANGED <<raced, cwd>>

\* ... and the node is put there.
link_set(t) ==
  LET c == call[t]
  IN /\ c.pc = "set"
     /\ nodes' = [nodes EXCEPT ![c.at].next = c.new]
     /\ linked' = linked \cup {<<c.new, c.dir>>}
     /\ call' = [call EXCEPT ![t].pc = "linked"]
     /\ UNCHANGED <<raced, cwd>>

Walking(t) == path_find(t) \/ path_end(t) \/ link_dir(t) \/ link_walk(t) \/ link_set(t)

-----------------------------------------------------------------------------
\* The list that begins with node n.
RECURSIVE List(_)
List(n) == IF n = 0 THEN <<>> ELSE <<n>> \o List(nodes[n].next)
Children(n) == {List(nodes[n].dirlist)[i] : i \in 1..Len(List(nodes[n].dirlist))}

\* A node that was linked stays in its directory, unless two tasks were linking
\* to it at the same time.
LinksKept == \A l \in linked : l[1] \in Children(l[2]) \/ l[2] \in raced
=============================================================================
