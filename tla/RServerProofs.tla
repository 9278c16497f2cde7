----------------------------- MODULE RServerProofs -----------------------------
(***************************************************************************)
(* What RServer.tla promises, for every number of clients and descriptors. *)
(*                                                                         *)
(* The parent never closes a socket it gave away, so a child's table is a  *)
(* part of the parent's, and the parent's holds each client once.  A       *)
(* connection that waits in the backlog is in no table and was not refused.*)
(***************************************************************************)
EXTENDS RServer, TLAPS

\* No connection waits twice, and none that waits was accepted before.
BacklogFresh ==
  /\ \A m, n \in 1 .. Len(backlog) : backlog[m] = backlog[n] => m = n
  /\ \A n \in 1 .. Len(backlog) :
       backlog[n] \notin refused /\ \A d \in Fds : fds[d] # backlog[n]

\* The parent holds a client once, and none that it refused.
TableInjective ==
  /\ \A d, e \in Fds : fds[d] = fds[e] /\ fds[d] # NotOpen => d = e
  /\ \A d \in Fds : fds[d] \notin refused

\* A child's table is a part of the parent's, with its own socket in it.
ChildrenInherit ==
  \A p \in children :
    /\ p.fds[p.sock] \in Clients
    /\ \A d \in Fds : p.fds[d] # NotOpen => p.fds[d] = fds[d]

\* Distinct children were given distinct descriptors.
SocketsDistinct == \A p, q \in children : p # q => p.sock # q.sock

\* A descriptor of the parent is a child's, unless its client has none any more.
DescriptorsRead ==
  \A d \in Fds : fds[d] # NotOpen => fds[d] \in over \/ \E p \in children : p.sock = d

IInv == /\ TypeOK /\ BacklogFresh /\ TableInjective /\ ChildrenInherit /\ SocketsDistinct
        /\ DescriptorsRead

-----------------------------------------------------------------------------
\* The head of a sequence leaves it, the others keep their order.
LEMMA TailElements ==
  ASSUME NEW S, NEW s \in Seq(S), s # <<>>
  PROVE  /\ Head(s) = s[1] /\ 1 \in 1 .. Len(s) /\ Head(s) \in S
         /\ Tail(s) \in Seq(S) /\ Len(Tail(s)) = Len(s) - 1
         /\ \A n \in 1 .. Len(Tail(s)) : n + 1 \in 1 .. Len(s) /\ Tail(s)[n] = s[n + 1]
  OBVIOUS

\* Initially nobody is connected.
LEMMA InitIInv == Init => IInv
<1> SUFFICES ASSUME Init PROVE IInv
  OBVIOUS
<1>1. TypeOK
  <2>1. backlog \in Seq(Clients)
    BY DEF Init
  <2>2. fds \in Tables
    BY DEF Init, Tables
  <2>3. children \subseteq Child /\ refused \subseteq Clients /\ acceptFailed \in BOOLEAN
        /\ over \subseteq Clients
    BY DEF Init
  <2> QED BY <2>1, <2>2, <2>3 DEF TypeOK
<1>2. BacklogFresh
  <2>1. 1 .. Len(backlog) = {}
    BY DEF Init
  <2> QED BY <2>1 DEF BacklogFresh
<1>3. TableInjective /\ ChildrenInherit /\ SocketsDistinct /\ DescriptorsRead
  BY DEF Init, TableInjective, ChildrenInherit, SocketsDistinct, DescriptorsRead
<1> QED BY <1>1, <1>2, <1>3 DEF IInv

\* What the backlog loses when a connection is accepted (handleEvent).
LEMMA AcceptsHead ==
  ASSUME IInv, NEW d \in Fds, Accepts(d)
  PROVE  /\ fds[d] = NotOpen /\ backlog' \in Seq(Clients)
         /\ Head(backlog) \in Clients /\ Head(backlog) \notin refused
         /\ \A e \in Fds : fds[e] # Head(backlog)
         /\ \A n \in 1 .. Len(backlog') :
              /\ backlog'[n] # Head(backlog) /\ backlog'[n] \notin refused
              /\ \A e \in Fds : fds[e] # backlog'[n]
         /\ \A m, n \in 1 .. Len(backlog') : backlog'[m] = backlog'[n] => m = n
<1>0. backlog \in Seq(Clients) /\ backlog # <<>> /\ backlog' = Tail(backlog)
  BY DEF IInv, TypeOK, Accepts
<1>1. fds[d] = NotOpen
  BY DEF Accepts, FreeFds
<1>2. /\ Head(backlog) = backlog[1] /\ 1 \in 1 .. Len(backlog)
      /\ Head(backlog) \in Clients /\ backlog' \in Seq(Clients)
      /\ \A n \in 1 .. Len(backlog') :
           n # 0 /\ n + 1 \in 1 .. Len(backlog) /\ backlog'[n] = backlog[n + 1]
  BY <1>0, TailElements
<1>3. /\ Head(backlog) \notin refused
      /\ \A e \in Fds : fds[e] # Head(backlog)
  BY <1>2 DEF IInv, BacklogFresh
<1>4. ASSUME NEW n \in 1 .. Len(backlog')
      PROVE  /\ backlog'[n] # Head(backlog) /\ backlog'[n] \notin refused
             /\ \A e \in Fds : fds[e] # backlog'[n]
  <2>1. n + 1 # 1
    BY <1>2
  <2> QED BY <1>2, <2>1 DEF IInv, BacklogFresh
<1>5. ASSUME NEW m \in 1 .. Len(backlog'), NEW n \in 1 .. Len(backlog'),
             backlog'[m] = backlog'[n]
      PROVE  m = n
  <2>1. m + 1 = n + 1
    BY <1>2, <1>5 DEF IInv, BacklogFresh
  <2> QED BY <2>1
<1> QED BY <1>1, <1>2, <1>3, <1>4, <1>5

\* Nobody who is known connects again (the kernel's side of listen).
LEMMA ConnectIInv ==
  ASSUME IInv, NEW c \in Clients, Connect(c)
  PROVE  IInv'
<1>1. /\ backlog \in Seq(Clients) /\ backlog' = Append(backlog, c)
      /\ UNCHANGED <<fds, children, refused, over, acceptFailed>>
  BY DEF IInv, TypeOK, Connect
<1>2. /\ \A n \in 1 .. Len(backlog) : backlog[n] # c
      /\ c \notin refused /\ \A d \in Fds : fds[d] # c
  BY ClientsAssumption DEF Connect, Known, RangeOf
<1>3. /\ backlog' \in Seq(Clients) /\ Len(backlog) \in Nat
      /\ \A n \in 1 .. Len(backlog') :
           (n \in 1 .. Len(backlog) /\ backlog'[n] = backlog[n])
             \/ (n = Len(backlog) + 1 /\ backlog'[n] = c)
  BY <1>1
<1>4. BacklogFresh'
  BY <1>1, <1>2, <1>3 DEF IInv, BacklogFresh
<1>5. TypeOK' /\ TableInjective' /\ ChildrenInherit' /\ SocketsDistinct' /\ DescriptorsRead'
  BY <1>1, <1>3 DEF IInv, TypeOK, TableInjective, ChildrenInherit, SocketsDistinct,
                    DescriptorsRead
<1> QED BY <1>4, <1>5 DEF IInv

\* A connection is given to a new child (handleEvent, the fork succeeds).
LEMMA ForksIInv == IInv /\ Forks => IInv'
<1> SUFFICES ASSUME IInv, NEW d \in Fds, Accepts(d),
                    fds' = [fds EXCEPT ![d] = Head(backlog)],
                    children' = children \cup {[fds |-> fds', sock |-> d, runs |-> FALSE]},
                    UNCHANGED refused
             PROVE  IInv'
  BY DEF Forks
<1> DEFINE child == [fds |-> fds', sock |-> d, runs |-> FALSE]
<1>1. UNCHANGED <<over, acceptFailed>> /\ fds \in Tables /\ children \subseteq Child
  BY DEF Accepts, IInv, TypeOK
<1>2. /\ fds' \in Tables /\ fds'[d] = Head(backlog)
      /\ \A e \in Fds : e # d => fds'[e] = fds[e]
  BY <1>1, AcceptsHead DEF Tables
<1>3. TypeOK'
  <2>1. child \in Child
    BY <1>2 DEF Child
  <2> QED BY <1>1, <1>2, <2>1, AcceptsHead DEF IInv, TypeOK
<1>4. BacklogFresh'
  BY <1>2, AcceptsHead DEF BacklogFresh
<1>5. TableInjective'
  BY <1>2, AcceptsHead DEF IInv, TableInjective
<1>6. \A p \in children : p.fds[d] = NotOpen /\ p.sock # d
  BY AcceptsHead, ClientsAssumption DEF IInv, ChildrenInherit
<1>7. ChildrenInherit'
  <2> SUFFICES ASSUME NEW p \in children'
               PROVE  /\ p.fds[p.sock] \in Clients
                      /\ \A e \in Fds : p.fds[e] # NotOpen => p.fds[e] = fds'[e]
    BY DEF ChildrenInherit
  <2>1. CASE p = child
    BY <2>1, <1>2, AcceptsHead
  <2>2. CASE p \in children
    BY <2>2, <1>2, <1>6 DEF IInv, ChildrenInherit
  <2> QED BY <2>1, <2>2
<1>8. SocketsDistinct'
  <2>1. child.sock = d
    OBVIOUS
  <2> QED BY <1>6, <2>1 DEF IInv, SocketsDistinct
<1>9. DescriptorsRead'
  <2>1. child \in children' /\ child.sock = d /\ children \subseteq children'
    OBVIOUS
  <2>2. over' = over /\ DescriptorsRead
    BY <1>1 DEF IInv
  <2> HIDE DEF child
  <2> SUFFICES ASSUME NEW e \in Fds, fds'[e] # NotOpen
               PROVE  fds'[e] \in over \/ \E p \in children' : p.sock = e
    BY <2>2 DEF DescriptorsRead
  <2>3. CASE e = d
    BY <2>1, <2>3
  <2>4. CASE e # d
    BY <1>2, <2>1, <2>2, <2>4 DEF DescriptorsRead
  <2> QED BY <2>3, <2>4
<1> QED BY <1>3, <1>4, <1>5, <1>7, <1>8, <1>9 DEF IInv

\* A connection is closed again (handleEvent, the fork fails).
LEMMA ForkFailsIInv == IInv /\ ForkFails => IInv'
<1> SUFFICES ASSUME IInv, NEW d \in Fds, Accepts(d),
                    refused' = refused \cup {Head(backlog)}, UNCHANGED <<fds, children>>
             PROVE  IInv'
  BY DEF ForkFails
<1>1. UNCHANGED <<over, acceptFailed>>
  BY DEF Accepts
<1>2. TypeOK'
  BY <1>1, AcceptsHead DEF IInv, TypeOK
<1>3. BacklogFresh'
  BY AcceptsHead DEF BacklogFresh
<1>4. TableInjective' /\ ChildrenInherit' /\ SocketsDistinct' /\ DescriptorsRead'
  BY <1>1, AcceptsHead DEF IInv, TableInjective, ChildrenInherit, SocketsDistinct,
                           DescriptorsRead
<1> QED BY <1>2, <1>3, <1>4 DEF IInv

\* A child ends, or goes on with the same table and the same socket (execve).
LEMMA ChildIInv ==
  ASSUME IInv, NEW p \in children, Exec(p) \/ SessionEnds(p)
  PROVE  IInv'
<1>1. /\ UNCHANGED <<backlog, fds, refused, acceptFailed>>
      /\ \/ children' = (children \ {p}) \cup {[p EXCEPT !.runs = TRUE]} /\ UNCHANGED over
         \/ children' = children \ {p} /\ over' = over \cup {p.fds[p.sock]}
  BY DEF Exec, SessionEnds, ChildEnds
<1>2. /\ p \in Child /\ [p EXCEPT !.runs = TRUE] \in Child
      /\ [p EXCEPT !.runs = TRUE].fds = p.fds /\ [p EXCEPT !.runs = TRUE].sock = p.sock
  BY DEF IInv, TypeOK, Child
<1>3. \A q \in children' : \E r \in children :
        /\ q \in Child /\ q.fds = r.fds /\ q.sock = r.sock
        /\ r = p \/ r = q
        /\ r = p => q = [p EXCEPT !.runs = TRUE]
  BY <1>1, <1>2 DEF IInv, TypeOK
<1>4. TypeOK' /\ BacklogFresh' /\ TableInjective'
  <2>1. p.fds[p.sock] \in Clients
    BY DEF IInv, ChildrenInherit
  <2> QED BY <1>1, <1>3, <2>1 DEF IInv, TypeOK, BacklogFresh, TableInjective
<1>5. ChildrenInherit'
  BY <1>1, <1>3 DEF IInv, ChildrenInherit
<1>6. SocketsDistinct'
  <2> SUFFICES ASSUME NEW q \in children', NEW r \in children', q.sock = r.sock
               PROVE  q = r
    BY DEF SocketsDistinct
  <2>1. PICK a \in children : q.sock = a.sock /\ (a = p \/ a = q)
                              /\ (a = p => q = [p EXCEPT !.runs = TRUE])
    BY <1>3
  <2>2. PICK b \in children : r.sock = b.sock /\ (b = p \/ b = r)
                              /\ (b = p => r = [p EXCEPT !.runs = TRUE])
    BY <1>3
  <2>3. a = b
    BY <2>1, <2>2 DEF IInv, SocketsDistinct
  <2> QED BY <2>1, <2>2, <2>3
<1>7. DescriptorsRead'
  <2> SUFFICES ASSUME NEW d \in Fds, fds[d] # NotOpen
               PROVE  fds[d] \in over' \/ \E q \in children' : q.sock = d
    BY <1>1 DEF DescriptorsRead
  <2>1. CASE fds[d] \in over
    BY <1>1, <2>1
  <2>2. ASSUME NEW q \in children, q.sock = d, q # p
        PROVE  \E r \in children' : r.sock = d
    BY <1>1, <2>2
  <2>3. CASE p.sock = d
    <3>1. p.fds[p.sock] = fds[d]
      BY <2>3, ClientsAssumption DEF IInv, ChildrenInherit
    <3> QED BY <1>1, <1>2, <2>3, <3>1
  <2> QED BY <2>1, <2>2, <2>3 DEF IInv, DescriptorsRead
<1> QED BY <1>4, <1>5, <1>6, <1>7 DEF IInv

\* Every step keeps the invariant.
LEMMA NextIInv == IInv /\ [Next]_vars => IInv'
<1> SUFFICES ASSUME IInv, [Next]_vars PROVE IInv'
  OBVIOUS
<1>1. CASE \E c \in Clients : Connect(c)
  BY <1>1, ConnectIInv
<1>2. CASE Forks
  BY <1>2, ForksIInv
<1>3. CASE ForkFails
  BY <1>3, ForkFailsIInv
<1>4. CASE AcceptFails
  BY <1>4 DEF AcceptFails, IInv, TypeOK, BacklogFresh, TableInjective,
              ChildrenInherit, SocketsDistinct, DescriptorsRead
<1>5. CASE \E p \in children : Exec(p) \/ SessionEnds(p)
  BY <1>5, ChildIInv
<1>6. CASE UNCHANGED vars
  BY <1>6 DEF vars, IInv, TypeOK, BacklogFresh, TableInjective, ChildrenInherit,
              SocketsDistinct, DescriptorsRead
<1> QED BY <1>1, <1>2, <1>3, <1>4, <1>5, <1>6 DEF Next, HandleEvent

\* The invariant gives what the run checks.
LEMMA IInvImplies == IInv => TypeOK /\ OneReaderPerClient /\ OpenIsRead
<1> SUFFICES ASSUME IInv PROVE OneReaderPerClient /\ OpenIsRead
  BY DEF IInv
<1>1. \A p \in children : /\ p.sock \in Fds /\ p.fds[p.sock] \in Clients
                          /\ p.fds[p.sock] = fds[p.sock]
  BY ClientsAssumption DEF IInv, TypeOK, Child, ChildrenInherit
<1>2. OneReaderPerClient
  BY <1>1, ClientsAssumption
     DEF IInv, TableInjective, SocketsDistinct, OneReaderPerClient
<1>3. OpenIsRead
  <2> SUFFICES ASSUME NEW c \in RangeOf(fds) \cup UNION {RangeOf(p.fds) : p \in children}
               PROVE  c \in over \/ \E p \in children : p.fds[p.sock] = c
    BY DEF OpenIsRead
  <2>1. PICK d \in Fds : fds[d] = c /\ c # NotOpen
    BY DEF IInv, ChildrenInherit, RangeOf
  <2> QED BY <1>1, <2>1 DEF IInv, DescriptorsRead
<1> QED BY <1>2, <1>3

-----------------------------------------------------------------------------
\* Whatever the number of clients and of descriptors, the listener's state is
\* well-typed (RServer.cpp: startServer, handleEvent).
THEOREM TypeCorrect == Spec => []TypeOK
<1>1. Init => IInv
  BY InitIInv
<1>2. IInv /\ [Next]_vars => IInv'
  BY NextIInv
<1>3. IInv => TypeOK
  BY IInvImplies
<1> QED BY <1>1, <1>2, <1>3, PTL DEF Spec

\* No two sessions are told to read the same client's socket, though every child
\* inherits the sockets of those before it (handleEvent, execve with -s).
THEOREM EachClientItsSession == Spec => []OneReaderPerClient
<1>1. Init => IInv
  BY InitIInv
<1>2. IInv /\ [Next]_vars => IInv'
  BY NextIInv
<1>3. IInv => OneReaderPerClient
  BY IInvImplies
<1> QED BY <1>1, <1>2, <1>3, PTL DEF Spec

\* Whoever is connected is read by the session forked for it, as long as there is
\* one; a client whose fork failed is held open by no process, now or later
\* (handleEvent: the parent closes the socket on that path only).
THEOREM ConnectedIsRead == Spec => []OpenIsRead
<1>1. Init => IInv
  BY InitIInv
<1>2. IInv /\ [Next]_vars => IInv'
  BY NextIInv
<1>3. IInv => OpenIsRead
  BY IInvImplies
<1> QED BY <1>1, <1>2, <1>3, PTL DEF Spec
=============================================================================
