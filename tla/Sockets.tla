------------------------------ MODULE Sockets -------------------------------
(***************************************************************************)
(* UNIX sockets: net/socket.c, net/socket/unix.c and the accept queue of   *)
(* yanix/ds/queue.c, on the nodes of VfsNodes.                             *)
(*                                                                         *)
(* Servers share one connection structure (made by socket, inherited by    *)
(* fork) and every client has its own.  queue_lock waits while the lock is *)
(* set and leaves a free one free, so that it is never set: the lock is    *)
(* left out, and a step is one access to the fields of a queue.  Sending   *)
(* and receiving is up to the pipes (see Pipe).                            *)
(***************************************************************************)
EXTENDS VfsNodes

CONSTANTS Servers, Clients,  \* the tasks
          Path,              \* the path of the socket, in a directory
          CAPACITY,          \* QUEUE_DEFAULT_SIZE
          Budgets            \* bounds: the calls of each task, and how many
                             \* slashes there are beyond a buffer

ASSUME SocketsAssumption ==
  /\ Tasks = Servers \cup Clients /\ Servers \cap Clients = {}
  /\ CAPACITY \in Nat \ {0} /\ Budgets \subseteq [calls: [Tasks -> Nat], strays: Nat]
  /\ Path.abs /\ Len(Path.names) = 2

VARIABLES socks,     \* struct socket: server_lock, and the queue's buffer and size
          conns,     \* struct socket_conn: soc, send_pipe and recv_pipe
          acs,       \* struct accept_conn: lock, and the client that made it
          pipes,     \* the number of pipes
          loc,       \* the locals of a task
          calls,     \* the calls that each task may still make
          strays,    \* the slashes that may still be there
          qraced     \* sockets whose queue two tasks were in at once

net == <<socks, conns, acs, pipes>>
vars == <<tree, call, cwd, net, loc, calls, strays, qraced>>

Junk == 0
Locals == [soc |-> 0, ac |-> 0, reg |-> 0]
Conn == [soc |-> 0, send |-> 0, recv |-> 0]
NewSock == [lock |-> FALSE, size |-> 0, buffer |-> [i \in 0..CAPACITY - 1 |-> Junk]]

\* Connection 1 is that of the servers; Own gives the others to the clients.
Own == CHOOSE f \in [Tasks -> 1..Cardinality(Clients) + 1] :
         /\ \A s \in Servers : f[s] = 1
         /\ \A c, d \in Clients : f[c] > 1 /\ (f[c] = f[d] => c = d)

Init ==
  /\ nodes = <<[Node("", 0) EXCEPT !.dirlist = 2],
               [Node(Path.names[1], 0) EXCEPT !.dirlist = 3], Node(".", 0)>>
  /\ call = [t \in Tasks |-> NoCall]
  /\ cwd = [t \in Tasks |-> <<Path.names[1]>>]
  /\ linked = {} /\ raced = {} /\ qraced = {}
  /\ socks = <<>> /\ acs = <<>> /\ pipes = 0
  /\ conns = [i \in 1..Cardinality(Clients) + 1 |-> Conn]
  /\ loc = [t \in Tasks |-> Locals]
  /\ \E b \in Budgets : calls = b.calls /\ strays = b.strays

-----------------------------------------------------------------------------
Soc(t) == conns[Own[t]].soc
Goes(t, pc) == call' = [call EXCEPT ![t].pc = pc]
Restarts(t, c) == call' = [call EXCEPT ![t] = c] /\ loc' = [loc EXCEPT ![t] = Locals]
Returns(t) == Restarts(t, NoCall)
Enter(t) ==
  /\ At(t, "idle") /\ calls[t] > 0
  /\ calls' = [calls EXCEPT ![t] = @ - 1]
Elsewhere == <<nodes, linked, raced, cwd, strays>>

\* The directory of the path.  Nothing changes what comes before it, so that it
\* is found in no time: vfs_find_path begins in the directory.
DirNode == 2

\* sock_bind, and sock_connect on a connection that has no socket: a socket is
\* made and linked under the path, which may be there already.  The slash that
\* vfs_get_name or vfs_link_node_vfs may find beyond its buffer gives the node
\* another name, or has the whole path looked for as a directory.
Create(t, op, beyond) ==
  LET k == Len(socks) + 1
      c == [NoCall EXCEPT !.op = op, !.new = Len(nodes) + 1]
  IN /\ Soc(t) = 0
     /\ strays' = IF beyond = "none" THEN strays ELSE strays - 1
     /\ strays' >= 0
     /\ socks' = Append(socks, NewSock)
     /\ nodes' = Append(nodes, Node(get_name(Path, beyond = "name"), k))
     /\ loc' = [loc EXCEPT ![t].soc = k]
     /\ call' = [call EXCEPT ![t] =
          IF beyond = "dir" THEN [c EXCEPT !.pc = "find", !.left = <<Path.names[2]>>,
                                 !.at = nodes[DirNode].dirlist]
                  ELSE [c EXCEPT !.pc = "found", !.at = DirNode]]
     /\ UNCHANGED <<linked, raced, cwd, conns, acs, pipes, qraced>>

Lookup(t, op) ==
  call' = [call EXCEPT ![t] = [NoCall EXCEPT !.op = op, !.pc = "find",
             !.left = <<Path.names[2]>>, !.at = nodes[DirNode].dirlist]]

Connecting == [NoCall EXCEPT !.op = "connect", !.pc = "connect"]

sock_bind(t) ==
  /\ t \in Servers /\ Enter(t)
  /\ \/ \E beyond \in {"none", "name", "dir"} : Create(t, "bind", beyond)
     \/ Soc(t) # 0 /\ Lookup(t, "bind") /\ UNCHANGED <<Elsewhere, net, loc, qraced>>

sock_connect(t) ==
  /\ t \in Clients /\ Enter(t)
  /\ \/ \E beyond \in {"none", "name", "dir"} : Create(t, "connect", beyond)
     \/ /\ Soc(t) # 0
        /\ call' = [call EXCEPT ![t] = Connecting]
        /\ UNCHANGED <<Elsewhere, net, loc, qraced>>

\* unix_socket_create returns; unix_socket_bind looks for the path.
created(t) ==
  /\ At(t, "linked") /\ Lookup(t, call[t].op)
  /\ conns' = [conns EXCEPT ![Own[t]].soc = loc[t].soc]
  /\ UNCHANGED <<Elsewhere, socks, acs, pipes, loc, calls, qraced>>

\* vfs_link_node_vfs has found no directory: the connection stays without a
\* socket, and the call fails.
create_failed(t) ==
  /\ At(t, "failed") /\ Returns(t)
  /\ UNCHANGED <<Elsewhere, net, calls, qraced>>

\* Mutant of bound: the connection keeps the socket it has made.
bound_own(t) ==
  LET c == call[t]
  IN /\ c.pc = "found" /\ c.new = 0
     /\ IF c.at # 0 /\ c.op = "connect" THEN Restarts(t, Connecting) ELSE Returns(t)
     /\ UNCHANGED <<Elsewhere, net, calls, qraced>>

\* The socket of the first node that has the path is taken.  If there is none,
\* the call fails and the connection keeps the socket that was made for it.
bound(t) ==
  LET c == call[t]
  IN /\ c.pc = "found" /\ c.new = 0
     /\ IF c.at = 0 THEN UNCHANGED conns
        ELSE conns' = [conns EXCEPT ![Own[t]].soc = nodes[c.at].offset]
     /\ IF c.at # 0 /\ c.op = "connect" THEN Restarts(t, Connecting) ELSE Returns(t)
     /\ UNCHANGED <<Elsewhere, socks, acs, pipes, calls, qraced>>

\* unix_socket_listen looks at the lock ...
sock_listen(t) ==
  /\ t \in Servers /\ Soc(t) # 0 /\ ~socks[Soc(t)].lock /\ Enter(t)
  /\ Goes(t, "listen") /\ loc' = [loc EXCEPT ![t].soc = Soc(t)]
  /\ UNCHANGED <<Elsewhere, net, qraced>>

\* ... and sets it.
listen_set(t) ==
  /\ At(t, "listen") /\ Returns(t)
  /\ socks' = [socks EXCEPT ![loc[t].soc].lock = TRUE]
  /\ UNCHANGED <<Elsewhere, conns, acs, pipes, calls, qraced>>

-----------------------------------------------------------------------------
Pushing == {"push", "push_read", "push_size", "push_store"}
Popping == {"pop", "pop_size", "pop_take", "pop_shift"}

\* A task goes into the queue of socket k: are others in it?  Two tasks that
\* wait for the same queue to fill are, too; one that waits while another
\* pushes is not.
Meets(t, k, pcs) ==
  qraced' = IF \E u \in Tasks \ {t} : call[u].pc \in pcs /\ loc[u].soc = k
              THEN qraced \cup {k} ELSE qraced

\* unix_socket_connect and unix_socket_tryconnect, up to the push.
connect(t) ==
  LET k == Soc(t)
  IN /\ At(t, "connect")
     /\ IF socks[k].lock
          THEN /\ acs' = Append(acs, [lock |-> TRUE, client |-> t, pipe |-> pipes + 1])
               /\ pipes' = pipes + 2
               /\ loc' = [loc EXCEPT ![t].soc = k, ![t].ac = Len(acs) + 1]
               /\ Goes(t, "push") /\ Meets(t, k, Pushing \cup Popping)
          ELSE Returns(t) /\ UNCHANGED <<acs, pipes, qraced>>
     /\ UNCHANGED <<Elsewhere, socks, conns, calls>>

\* queue_push
push(t) ==
  /\ At(t, "push")
  /\ IF socks[loc[t].soc].size = CAPACITY THEN Returns(t) ELSE Goes(t, "push_read") /\ UNCHANGED loc
  /\ UNCHANGED <<Elsewhere, net, calls, qraced>>

push_read(t) ==
  /\ At(t, "push_read") /\ Goes(t, "push_size")
  /\ loc' = [loc EXCEPT ![t].reg = socks[loc[t].soc].size]
  /\ UNCHANGED <<Elsewhere, net, calls, qraced>>

\* Mutant of push_size: the size is not counted up.
push_size_none(t) ==
  /\ At(t, "push_size") /\ Goes(t, "push_store")
  /\ UNCHANGED <<Elsewhere, net, loc, calls, qraced>>

push_size(t) ==
  /\ At(t, "push_size") /\ Goes(t, "push_store")
  /\ socks' = [socks EXCEPT ![loc[t].soc].size = loc[t].reg + 1]
  /\ UNCHANGED <<Elsewhere, conns, acs, pipes, loc, calls, qraced>>

push_store(t) ==
  /\ At(t, "push_store") /\ Goes(t, "wait")
  /\ socks' = [socks EXCEPT ![loc[t].soc].buffer =
                 [i \in DOMAIN @ |-> IF i = loc[t].reg THEN loc[t].ac ELSE @[i]]]
  /\ UNCHANGED <<Elsewhere, conns, acs, pipes, loc, calls, qraced>>

\* Mutant of connected: both ends send to the same pipe.
connected_same(t) ==
  LET a == acs[loc[t].ac]
  IN /\ At(t, "wait") /\ ~a.lock /\ Returns(t)
     /\ conns' = [conns EXCEPT ![Own[t]].send = a.pipe, ![Own[t]].recv = a.pipe + 1]
     /\ UNCHANGED <<Elsewhere, socks, acs, pipes, calls, qraced>>

\* The client was accepted.  Its first pipe is client_pipe, the next server_pipe.
connected(t) ==
  LET a == acs[loc[t].ac]
  IN /\ At(t, "wait") /\ ~a.lock /\ Returns(t)
     /\ conns' = [conns EXCEPT ![Own[t]].send = a.pipe + 1, ![Own[t]].recv = a.pipe]
     /\ UNCHANGED <<Elsewhere, socks, acs, pipes, calls, qraced>>

-----------------------------------------------------------------------------
\* unix_socket_accept, which does not ask for listen, waits ...
sock_accept(t) ==
  /\ t \in Servers /\ Soc(t) # 0 /\ Enter(t)
  /\ loc' = [loc EXCEPT ![t].soc = Soc(t)]
  /\ call' = [call EXCEPT ![t] = [NoCall EXCEPT !.op = "accept", !.pc = "accept"]]
  /\ Meets(t, Soc(t), Popping \cup {"accept"})
  /\ UNCHANGED <<Elsewhere, net>>

accept(t) ==
  /\ At(t, "accept") /\ socks[loc[t].soc].size > 0
  /\ Goes(t, "pop") /\ Meets(t, loc[t].soc, Pushing \cup Popping)
  /\ UNCHANGED <<Elsewhere, net, loc, calls>>

\* ... and queue_pop takes the first element, or NULL.
pop(t) ==
  /\ At(t, "pop")
  /\ LET size == socks[loc[t].soc].size
     IN /\ Goes(t, IF size = 0 THEN "wild" ELSE "pop_size")
        /\ loc' = [loc EXCEPT ![t].reg = size]
  /\ UNCHANGED <<Elsewhere, net, calls, qraced>>

pop_size(t) ==
  /\ At(t, "pop_size") /\ Goes(t, "pop_take")
  /\ socks' = [socks EXCEPT ![loc[t].soc].size = loc[t].reg - 1]
  /\ UNCHANGED <<Elsewhere, conns, acs, pipes, loc, calls, qraced>>

pop_take(t) ==
  /\ At(t, "pop_take") /\ Goes(t, "pop_shift")
  /\ loc' = [loc EXCEPT ![t].ac = socks[loc[t].soc].buffer[0]]
  /\ UNCHANGED <<Elsewhere, net, calls, qraced>>

\* Mutant of pop_shift: the element stays the first one.
pop_shift_none(t) ==
  /\ At(t, "pop_shift") /\ Goes(t, "popped")
  /\ UNCHANGED <<Elsewhere, net, loc, calls, qraced>>

pop_shift(t) ==
  /\ At(t, "pop_shift") /\ Goes(t, "popped")
  /\ socks' = [socks EXCEPT ![loc[t].soc].buffer =
       [i \in DOMAIN @ |-> IF i < socks[loc[t].soc].size /\ i + 1 < CAPACITY
                             THEN @[i + 1] ELSE @[i]]]
  /\ UNCHANGED <<Elsewhere, conns, acs, pipes, loc, calls, qraced>>

\* The new connection is made and the client is let go.  What was not stored,
\* or is stored no more, leads nowhere that is known.
accepted(t) ==
  LET k == loc[t].ac
  IN /\ At(t, "popped")
     /\ IF k = Junk \/ (k # Junk /\ ~acs[k].lock)
          THEN Goes(t, "wild") /\ UNCHANGED <<conns, acs, loc>>
          ELSE /\ conns' = Append(conns, [soc |-> Soc(t), send |-> acs[k].pipe,
                                          recv |-> acs[k].pipe + 1])
               /\ acs' = [acs EXCEPT ![k].lock = FALSE]
               /\ Returns(t)
     /\ UNCHANGED <<Elsewhere, socks, pipes, calls, qraced>>

-----------------------------------------------------------------------------
Inside(t) ==
  \/ Walking(t) /\ UNCHANGED <<net, loc, calls, strays, qraced>>
  \/ created(t) \/ create_failed(t) \/ bound(t) \/ listen_set(t)
  \/ connect(t) \/ push(t) \/ push_read(t) \/ push_size(t) \/ push_store(t) \/ connected(t)
  \/ accept(t) \/ pop(t) \/ pop_size(t) \/ pop_take(t) \/ pop_shift(t) \/ accepted(t)

Next == \E t \in Tasks :
          \/ Inside(t)
          \/ sock_bind(t) \/ sock_connect(t) \/ sock_listen(t) \/ sock_accept(t)

Spec == Init /\ [][Next]_vars

-----------------------------------------------------------------------------
AcceptedEnds == Cardinality(Clients) + 2..Len(conns)
Peers(i, j) == conns[i].send = conns[j].recv /\ conns[i].recv = conns[j].send

\* Types; sizes stay within the buffer while tasks use the queue in turn.
TypeOK ==
  /\ \A i \in DOMAIN conns : conns[i].soc \in 0..Len(socks)
                          /\ {conns[i].send, conns[i].recv} \subseteq 0..pipes
  /\ \A k \in DOMAIN socks : socks[k].size \in 0..CAPACITY \/ k \in qraced

\* A client that is connected has exactly one accepted connection at the other
\* end, and each accepted one a client of its own, unless tasks were in the
\* queue at the same time.
Paired ==
  qraced = {} =>
    /\ \A c \in Clients : conns[Own[c]].send # 0 =>
         \E i \in AcceptedEnds : Peers(i, Own[c])
    /\ \A i, j \in AcceptedEnds : conns[i].send = conns[j].send => i = j

\* unix_socket_accept never goes on with NULL, or with something that was not
\* pushed or was accepted before, unless tasks were in the queue at once.
AcceptGets ==
  TypeOK /\ (qraced = {} => \A t \in Tasks : ~(At(t, "wild") /\ call[t].op = "accept"))

\* A client that waits in unix_socket_tryconnect is in the queue, or in the
\* hands of the task that accepts it: nobody waits for nothing.
WaitersQueued ==
  qraced = {} => \A c \in Clients : At(c, "wait") /\ acs[loc[c].ac].lock =>
    LET k == loc[c].soc
        taking == {s \in Servers : call[s].pc \in {"pop_take", "pop_shift"} /\ loc[s].soc = k}
    IN \/ \E i \in 0..socks[k].size + Cardinality(taking) - 1 : socks[k].buffer[i] = loc[c].ac
       \/ \E s \in Servers : At(s, "popped") /\ loc[s].ac = loc[c].ac

\* Servers and clients meet: a connection that has a socket, and is not being
\* bound, has the socket that the path leads to, unless two tasks linked to the
\* directory at the same time.  A connection whose own node got a name from
\* beyond vfs_get_name's buffer, when nothing else had the path, is left with a
\* socket that no path leads to: it alone.
BoundToPath ==
  \A t \in Tasks :
    (\A u \in Tasks : Own[u] = Own[t] => At(u, "idle")) /\ Soc(t) # 0 =>
      \/ DirNode \in raced
      \/ \E n \in DOMAIN nodes : nodes[n].offset = Soc(t) /\ nodes[n].name = Wild
      \/ LET l == List(nodes[DirNode].dirlist)
             named == {i \in DOMAIN l : nodes[l[i]].name = Path.names[2]}
         IN named # {} /\ nodes[l[CHOOSE i \in named : \A j \in named : i <= j]].offset = Soc(t)
=============================================================================
