-------------------------------- MODULE RServer --------------------------------
(***************************************************************************)
(* src/src/RServer.cpp: the listener.  Each connection is accepted and     *)
(* given to a child, which executes rsession with the number of the        *)
(* socket's descriptor as its argument.  The parent keeps running; SIGCHLD *)
(* is ignored, so children vanish when they end.                           *)
(*                                                                         *)
(* A process is the table of its descriptors: fork copies it, execve keeps *)
(* it (no descriptor is close-on-exec), and a connection is hung up only   *)
(* when no table holds it any more.                                        *)
(***************************************************************************)
EXTENDS Naturals, Sequences

CONSTANTS
  Clients,   \* each connects once
  MaxFds     \* descriptors a process may open besides the listener

ASSUME MaxFdsAssumption == MaxFds \in Nat

VARIABLES
  backlog,       \* connections the kernel completed and nobody accepted
  fds,           \* the server's table: descriptor -> client
  children,      \* the forked processes
  refused,       \* clients whose fork failed
  over,          \* history: clients whose child has ended, or was never executed
  acceptFailed   \* an accept has failed for want of a descriptor

vars == <<backlog, fds, children, refused, over, acceptFailed>>

Fds == 1 .. MaxFds
NotOpen == "notOpen"
ASSUME ClientsAssumption == NotOpen \notin Clients

Tables == [Fds -> Clients \cup {NotOpen}]

\* A child: its table, the value of its -s option, whether execve succeeded.
Child == [fds: Tables, sock: Fds, runs: BOOLEAN]

FreeFds == {d \in Fds : fds[d] = NotOpen}
RangeOf(t) == {t[d] : d \in Fds} \ {NotOpen}

Init ==
  /\ backlog = <<>>
  /\ fds = [d \in Fds |-> NotOpen]
  /\ children = {}
  /\ refused = {} /\ over = {}
  /\ acceptFailed = FALSE

\* The clients that have connected, as far as any process knows.
Known ==
  {backlog[n] : n \in 1 .. Len(backlog)} \cup RangeOf(fds) \cup refused
    \cup UNION {RangeOf(p.fds) : p \in children}

Connect(c) ==
  /\ c \notin Known
  /\ backlog' = Append(backlog, c)
  /\ UNCHANGED <<fds, children, refused, over, acceptFailed>>

-----------------------------------------------------------------------------
(* handleEvent *)

\* accept answers the lowest descriptor that is not open.
Accepts(d) ==
  /\ backlog # <<>>
  /\ d \in FreeFds /\ \A e \in FreeFds : d <= e
  /\ backlog' = Tail(backlog)
  /\ UNCHANGED <<over, acceptFailed>>

ForksForListener ==                                  \* mutant
  \E d \in Fds :
    /\ Accepts(d)
    /\ fds' = [fds EXCEPT ![d] = Head(backlog)]
    /\ children' = children \cup {[fds |-> fds', sock |-> 0, runs |-> FALSE]}
    /\ UNCHANGED refused
ClosesBeforeFork ==                                  \* mutant
  \E d \in Fds :
    /\ Accepts(d)
    /\ children' = children \cup {[fds |-> fds, sock |-> d, runs |-> FALSE]}
    /\ UNCHANGED <<fds, refused>>

\* The parent does nothing more with the socket, and never closes it.
Forks ==
  \E d \in Fds :
    /\ Accepts(d)
    /\ fds' = [fds EXCEPT ![d] = Head(backlog)]
    /\ children' = children \cup {[fds |-> fds', sock |-> d, runs |-> FALSE]}
    /\ UNCHANGED refused

LeavesOpen ==                                        \* mutant
  \E d \in Fds :
    /\ Accepts(d)
    /\ fds' = [fds EXCEPT ![d] = Head(backlog)]
    /\ refused' = refused \cup {Head(backlog)}
    /\ UNCHANGED children
ForkFails ==
  \E d \in Fds :
    /\ Accepts(d)
    /\ refused' = refused \cup {Head(backlog)}
    /\ UNCHANGED <<fds, children>>

\* The connection stays in the backlog and the event fires again.
AcceptFails ==
  /\ backlog # <<>> /\ FreeFds = {}
  /\ acceptFailed' = TRUE
  /\ UNCHANGED <<backlog, fds, children, refused, over>>

HandleEvent == Forks \/ ForkFails \/ AcceptFails

\* No process that is left reads the child's socket, and the parent keeps it.
ChildEnds(p) ==
  /\ children' = children \ {p}
  /\ over' = over \cup {p.fds[p.sock]}

\* The child: execve succeeds, or fails and the child exits.
Exec(p) ==
  /\ p \in children /\ ~p.runs
  /\ \/ children' = (children \ {p}) \cup {[p EXCEPT !.runs = TRUE]} /\ UNCHANGED over
     \/ ChildEnds(p)
  /\ UNCHANGED <<backlog, fds, refused, acceptFailed>>

\* A session ends: the client closed it, or it crashed.
SessionEnds(p) ==
  /\ p \in children /\ p.runs
  /\ ChildEnds(p)
  /\ UNCHANGED <<backlog, fds, refused, acceptFailed>>

Next ==
  \/ \E c \in Clients : Connect(c)
  \/ HandleEvent
  \/ \E p \in children : Exec(p) \/ SessionEnds(p)

Spec == Init /\ [][Next]_vars

-----------------------------------------------------------------------------
(* Properties *)

TypeOK ==
  /\ backlog \in Seq(Clients)
  /\ fds \in Tables
  /\ children \subseteq Child
  /\ refused \subseteq Clients /\ over \subseteq Clients
  /\ acceptFailed \in BOOLEAN

\* The number a child is given on its command line denotes, in that child's
\* own table, a client that no other child was given: two sessions never read
\* the same socket, although every child inherits the sockets of all others.
OneReaderPerClient ==
  /\ \A p \in children : p.fds[p.sock] \in Clients
  /\ \A p, q \in children : p # q => p.fds[p.sock] # q.fds[q.sock]

\* A connection that is open in any process is read by the child it was given to,
\* unless that child has ended or its execve failed: only those clients wait for
\* an answer nobody will send.  A client whose fork failed is hung up, whatever is
\* forked later (handleEvent).
OpenIsRead ==
  \A c \in RangeOf(fds) \cup UNION {RangeOf(p.fds) : p \in children} :
    c \in over \/ \E p \in children : p.fds[p.sock] = c

\* README.md:3: rserver "listens for connection requests and then forks a copy
\* of `rsession`".  When every session has ended, it can do so for the next
\* client.
CanServeAgain ==
  children = {} => FreeFds # {}
=============================================================================
