----------------------------- MODULE SocketProofs -----------------------------
(***************************************************************************)
(* For any number of connections and acceptors, calls and messages of any  *)
(* length and buffers of any size: what connect and accept return is       *)
(* connected and is given to one acceptor, read returns -1 only for an     *)
(* urgent byte or a broken connection, and what the kernel takes of an     *)
(* unbroken connection is whole messages.                                  *)
(***************************************************************************)
EXTENDS Socket, TLAPS

Waits(k) == \E i \in DOMAIN backlog : backlog[i] = k

\* Who may be at which end, and what the connection is then.
Clients ==
    \A k \in Conn :
      /\ pc[Client(k)] # "none"
      /\ pc[Client(k)] = "connect" => st[k] # "syn"
      /\ pc[Client(k)] \in {"connect", "cwait"} => st[k] # "broken" /\ taken[Client(k)] = <<>>
      /\ pc[Client(k)] \notin {"connect", "cwait"} => Connected(k)

Servers ==
    \A k \in Conn :
      /\ pc[Server(k)] \notin {"connect", "cwait"}
      /\ pc[Server(k)] # "none" => Connected(k)

\* A connection is in the backlog once, in one acceptor's hands, or served.
Accepted ==
    /\ \A i, j \in DOMAIN backlog : backlog[i] = backlog[j] => i = j
    /\ \A k \in Conn : Waits(k) => Connected(k) /\ pc[Server(k)] = "none"
    /\ \A a \in Acceptor :
         /\ apc[a] = "serve" <=> got[a] # NoConn
         /\ got[a] # NoConn => /\ Connected(got[a]) /\ pc[Server(got[a])] = "none"
                               /\ ~Waits(got[a])
         /\ \A b \in Acceptor : got[a] = got[b] /\ got[a] # NoConn => a = b

\* The event stays true until the reader has read.
Readers ==
    \A x \in End :
      pc[x] = "reread" => \/ st[x[1]] = "broken" \/ Unread(Peer(x)) > 0
                          \/ closed[Peer(x)] \/ urgent[Peer(x)]

\* A sender that has begun finds space.
Senders ==
    \A x \in End :
      /\ Sending(x) => call[x] > 0 /\ off[x] < MsgLen
      /\ pc[x] = "send" /\ off[x] > 0 => st[x[1]] = "broken" \/ Space(x) > 0

\* The j'th byte of the c'th message.
Byte(c, j) == (c - 1) * MsgLen + j

Increasing(x) == \A i, j \in DOMAIN taken[x] : i < j => taken[x][i] < taken[x][j]

\* Nothing after what has been taken of the last message.
SoFar(x) == \A i \in DOMAIN taken[x] : call[x] > 0 /\ taken[x][i] <= Byte(call[x], off[x])

Whole(x, c) == \/ \A j \in 1..MsgLen : Holds(x, Byte(c, j))
               \/ \A j \in 1..MsgLen : ~Holds(x, Byte(c, j))

Begun(x) == \A j \in 1..MsgLen : Holds(x, Byte(call[x], j)) <=> j <= off[x]

Messages(x) ==
    st[x[1]] # "broken" =>
      /\ Increasing(x)
      /\ SoFar(x)
      /\ \A c \in 1..call[x] : IF c = call[x] /\ Sending(x) THEN Begun(x) ELSE Whole(x, c)

IInv ==
    /\ TypeOK
    /\ Clients /\ Servers /\ Accepted
    /\ Readers /\ Senders
    /\ \A x \in End : Messages(x)

-----------------------------------------------------------------------------
(* The two ends of a connection.                                           *)

LEMMA TwoEnds ==
  ASSUME NEW x \in End
  PROVE  /\ x[1] \in Conn /\ x \in {Client(x[1]), Server(x[1])}
         /\ Peer(x) \in End /\ Peer(x) # x /\ Peer(Peer(x)) = x /\ Peer(x)[1] = x[1]
BY DEF End, Peer, Client, Server

LEMMA EndsOf ==
  ASSUME NEW k \in Conn
  PROVE  /\ Client(k) \in End /\ Server(k) \in End /\ Client(k) # Server(k)
         /\ Client(k)[1] = k /\ Server(k)[1] = k
         /\ Peer(Server(k)) = Client(k) /\ Peer(Client(k)) = Server(k)
         /\ \A j \in Conn : /\ Client(j) # Server(k)
                            /\ Client(j) = Client(k) => j = k
                            /\ Server(j) = Server(k) => j = k
BY DEF End, Peer, Client, Server

LEMMA Elements ==
  ASSUME NEW S, NEW s \in Seq(S)
  PROVE  /\ Len(s) \in Nat /\ DOMAIN s = 1..Len(s)
         /\ \A i \in DOMAIN s : s[i] \in S
OBVIOUS

\* What has arrived is counted from what has been read.
LEMMA UnreadCount ==
  ASSUME TypeOK, NEW x \in End
  PROVE  Unread(x) \in Nat
<1>1. taken[x] \in Seq(1..MaxSends * MsgLen) /\ nread[x] \in Nat /\ nread[x] <= Len(taken[x])
  BY DEF TypeOK
<1>2. Len(taken[x]) \in Nat
  BY <1>1, Elements
<1>. QED  BY <1>1, <1>2 DEF Unread

LEMMA InitIInv == Init => IInv
<1> SUFFICES ASSUME Init PROVE IInv
  OBVIOUS
<1> USE SocketAssumption DEF Init
<1>1. TypeOK
  <2>1. \A x \in End : taken[x] = <<>> /\ nread[x] = 0
    OBVIOUS
  <2>2. \A x \in End : nread[x] <= Len(taken[x]) /\ Len(taken[x]) - nread[x] <= Cap
    BY <2>1
  <2>3. taken \in [End -> Seq(1..MaxSends * MsgLen)] /\ backlog \in Seq(Conn)
    OBVIOUS
  <2>4. pc \in [End -> {"none", "connect", "cwait", "open", "send", "swait",
                        "read", "rwait", "reread", "closed"}]
    OBVIOUS
  <2>. QED  BY <2>2, <2>3, <2>4 DEF TypeOK
<1>2. \A k \in Conn : pc[Client(k)] = "connect" /\ pc[Server(k)] = "none"
  BY EndsOf DEF Client, Server
<1>3. Clients /\ Servers
  BY <1>2, EndsOf DEF Clients, Servers
<1>4. Accepted
  BY DEF Accepted, Waits
<1>5. \A x \in End : pc[x] \in {"connect", "none"}
  OBVIOUS
<1>6. Readers /\ Senders
  BY <1>5 DEF Readers, Senders, Sending
<1>7. \A x \in End : Messages(x)
  BY <1>5 DEF Messages, Increasing, SoFar
<1>. QED  BY <1>1, <1>3, <1>4, <1>6, <1>7 DEF IInv

PcType == pc \in [End -> {"none", "connect", "cwait", "open", "send", "swait",
                          "read", "rwait", "reread", "closed"}]

Busy == {"open", "send", "swait", "read", "rwait", "reread"}

\* What the coroutine of x does to x, to its peer and to the connection.
LEMMA EndChanges ==
  ASSUME IInv, NEW x \in End, EndStep(x)
  PROVE  /\ UNCHANGED <<backlog, apc, got>>
         /\ pc[x] \in Busy
         /\ pc'[x] \in Busy \union {"closed"}
         /\ \A y \in End \ {x} : /\ pc'[y] = pc[y] /\ ret'[y] = ret[y]
                                 /\ taken'[y] = taken[y] /\ call'[y] = call[y]
                                 /\ off'[y] = off[y] /\ closed'[y] = closed[y]
                                 /\ nread'[Peer(y)] = nread[Peer(y)]
                                 /\ urgent'[Peer(y)] = urgent[Peer(y)]
         /\ \A k \in Conn : st'[k] = st[k] \/ (st'[k] = "broken" /\ k = x[1]
                                               /\ Unread(Peer(x)) > 0)
         /\ st' # st => \A y \in End : taken'[y] = taken[y]
<1> USE DEF IInv, TypeOK
<1>1. Peer(x) \in End /\ \A y \in End \ {x} : Peer(y) \in End /\ Peer(y) # Peer(x)
  BY TwoEnds
<1>2. CASE StartSend(x) \/ SendMinusOne(x) \/ SendEvent(x) \/ StartRead(x) \/ ReadEvent(x)
  <2>1. UNCHANGED <<st, backlog, taken, nread, closed, urgent, apc, got>>
    BY <1>2 DEF StartSend, SendMinusOne, SendEvent, StartRead, ReadEvent, kernelVars,
       sendVars, acceptVars
  <2>2. /\ pc[x] \in {"open", "send", "swait", "rwait"}
        /\ \E l \in {"send", "open", "read", "reread"} : pc' = [pc EXCEPT ![x] = l]
    BY <1>2 DEF StartSend, SendMinusOne, SendEvent, StartRead, ReadEvent, Goto
  <2>3. /\ ret' = [ret EXCEPT ![x] = ret'[x]]
        /\ call' = [call EXCEPT ![x] = call'[x]]
        /\ off' = [off EXCEPT ![x] = off'[x]]
    BY <1>2 DEF StartSend, SendMinusOne, SendEvent, StartRead, ReadEvent, sendVars
  <2>4. pc'[x] \in Busy /\ \A y \in End \ {x} : pc'[y] = pc[y]
    BY <2>2 DEF Busy
  <2>. QED  BY <2>1, <2>2, <2>3, <2>4 DEF Busy
<1>3. CASE SendSome(x)
  <2>1. UNCHANGED <<st, backlog, nread, closed, urgent, call, apc, got>> /\ pc[x] = "send"
    BY <1>3 DEF SendSome, acceptVars
  <2>2. /\ \E l \in {"open", "swait"} : pc' = [pc EXCEPT ![x] = l]
        /\ ret' = [ret EXCEPT ![x] = ret'[x]]
        /\ taken' = [taken EXCEPT ![x] = taken'[x]]
        /\ off' = [off EXCEPT ![x] = off'[x]]
    BY <1>3 DEF SendSome, Goto
  <2>. QED  BY <2>1, <2>2 DEF Busy
<1>4. CASE Read(x) \/ Reread(x)
  <2>1. UNCHANGED <<st, backlog, closed, taken, call, off, apc, got>>
        /\ pc[x] \in {"read", "reread"}
    BY <1>4 DEF Read, Reread, sendVars, acceptVars
  <2>2. /\ \E l \in {"open", "rwait"} : pc' = [pc EXCEPT ![x] = l]
        /\ \A y \in End \ {x} : /\ ret'[y] = ret[y] /\ nread'[Peer(y)] = nread[Peer(y)]
                                /\ urgent'[Peer(y)] = urgent[Peer(y)]
    BY <1>1, <1>4 DEF Read, Reread, ReturnRead, SysRead, Goto
  <2>. QED  BY <2>1, <2>2 DEF Busy
<1>5. CASE Close(x)
  <2>1. /\ UNCHANGED <<backlog, taken, nread, urgent, call, off, ret, apc, got>>
        /\ pc[x] = "open"
        /\ pc' = [pc EXCEPT ![x] = "closed"] /\ closed' = [closed EXCEPT ![x] = TRUE]
        /\ \/ UNCHANGED st
           \/ Unread(Peer(x)) > 0 /\ st' = [st EXCEPT ![x[1]] = "broken"]
    BY <1>5 DEF Close, Becomes, Goto, sendVars, acceptVars
  <2>. QED  BY <2>1 DEF Busy
<1>. QED  BY <1>2, <1>3, <1>4, <1>5 DEF EndStep

-----------------------------------------------------------------------------
(* Who is connected, and who accepts whom.                                 *)

Connections == Clients /\ Servers /\ Accepted

\* A coroutine at an end of a connection that is established.
LEMMA EndConnections ==
  ASSUME IInv, NEW x \in End, EndStep(x) PROVE Connections'
<1> USE EndChanges
<1>1. \A k \in Conn : st'[k] = st[k] \/ st'[k] = "broken"
  OBVIOUS
<1>2. \A k \in Conn : Connected(k) => Connected(k)'
  BY <1>1 DEF Connected
<1>3. ASSUME NEW k \in Conn, pc'[Client(k)] \in {"connect", "cwait"}
      PROVE  /\ Client(k) # x /\ pc[Client(k)] = pc'[Client(k)]
             /\ st'[k] = st[k] /\ taken'[Client(k)] = taken[Client(k)]
  <2>1. Client(k) \in End /\ Client(k) # x
    BY <1>3, EndsOf DEF Busy
  <2>2. pc[Client(k)] = pc'[Client(k)] /\ taken'[Client(k)] = taken[Client(k)]
    BY <2>1
  <2>3. taken[Client(k)] = <<>>
    BY <1>3, <2>2 DEF IInv, Clients
  <2>4. ~(Unread(Client(k)) > 0)
    BY <2>1, <2>3 DEF IInv, TypeOK, Unread
  <2>5. k = x[1] => Peer(x) = Client(k)
    BY <2>1, TwoEnds, EndsOf
  <2>. QED  BY <2>1, <2>2, <2>4, <2>5
<1>4. \A k \in Conn : pc'[Client(k)] \notin {"connect", "cwait"} => Connected(k)
  <2> SUFFICES ASSUME NEW k \in Conn, pc'[Client(k)] \notin {"connect", "cwait"}
               PROVE  Connected(k)
    OBVIOUS
  <2>1. pc[Client(k)] \notin {"connect", "cwait"}
    BY EndsOf DEF Busy
  <2>. QED  BY <2>1 DEF IInv, Clients
<1>5. \A y \in End : pc'[y] = "none" <=> pc[y] = "none"
  BY DEF Busy
<1>6. Clients'
  <2>1. \A k \in Conn : pc'[Client(k)] # "none"
    BY <1>5, EndsOf DEF IInv, Clients
  <2>2. \A k \in Conn :
          /\ pc'[Client(k)] = "connect" => st'[k] # "syn"
          /\ pc'[Client(k)] \in {"connect", "cwait"} =>
               st'[k] # "broken" /\ taken'[Client(k)] = <<>>
    BY <1>3 DEF IInv, Clients
  <2>. QED  BY <1>2, <1>4, <2>1, <2>2 DEF Clients
<1>7. Servers'
  <2>1. \A k \in Conn : pc'[Server(k)] \notin {"connect", "cwait"}
    BY EndsOf DEF IInv, Servers, Busy
  <2>. QED  BY <1>2, <1>5, <2>1, EndsOf DEF IInv, Servers
<1>8. Accepted'
  <2>1. UNCHANGED <<backlog, apc, got>>
    OBVIOUS
  <2>2. got \in [Acceptor -> Conn \union {NoConn}]
    BY DEF IInv, TypeOK
  <2>3. \A k \in Conn : Waits(k)' => Connected(k)' /\ pc'[Server(k)] = "none"
    BY <1>2, <1>5, <2>1, EndsOf DEF IInv, Accepted, Waits
  <2>4. \A a \in Acceptor : got[a] # NoConn =>
          /\ st'[got[a]] \in {"open", "broken"} /\ pc'[Server(got[a])] = "none"
          /\ ~Waits(got[a])
    BY <1>1, <1>5, <2>2, EndsOf DEF IInv, Accepted, Connected
  <2>5. \A a \in Acceptor : got'[a] # NoConn =>
          Connected(got[a])' /\ pc'[Server(got'[a])] = "none" /\ ~Waits(got[a])'
    BY <2>1, <2>4 DEF Connected, Waits
  <2>. QED  BY <2>1, <2>3, <2>5 DEF IInv, Accepted
<1>. QED  BY <1>6, <1>7, <1>8 DEF Connections

\* What becomes of the backlog.
LEMMA Queued ==
  ASSUME NEW k \in Conn, backlog \in Seq(Conn), backlog' = Append(backlog, k), ~Waits(k),
         \A i, j \in DOMAIN backlog : backlog[i] = backlog[j] => i = j
  PROVE  /\ \A i, j \in DOMAIN backlog' : backlog'[i] = backlog'[j] => i = j
         /\ \A c : Waits(c)' <=> Waits(c) \/ c = k
<1>1. /\ DOMAIN backlog = 1..Len(backlog) /\ DOMAIN backlog' = 1..Len(backlog) + 1
      /\ \A i \in 1..Len(backlog) : backlog'[i] = backlog[i]
      /\ backlog'[Len(backlog) + 1] = k /\ Len(backlog) \in Nat
  OBVIOUS
<1>2. \A c : Waits(c)' <=> Waits(c) \/ c = k
  BY <1>1 DEF Waits
<1>3. \A i \in DOMAIN backlog : backlog[i] # k
  BY DEF Waits
<1>. QED  BY <1>1, <1>2, <1>3

LEMMA Dequeued ==
  ASSUME backlog \in Seq(Conn), backlog # <<>>, backlog' = Tail(backlog),
         \A i, j \in DOMAIN backlog : backlog[i] = backlog[j] => i = j
  PROVE  /\ \A i, j \in DOMAIN backlog' : backlog'[i] = backlog'[j] => i = j
         /\ Head(backlog) \in Conn /\ Waits(Head(backlog))
         /\ \A c : Waits(c)' <=> Waits(c) /\ c # Head(backlog)
<1>1. /\ DOMAIN backlog = 1..Len(backlog) /\ DOMAIN backlog' = 1..Len(backlog) - 1
      /\ \A i \in DOMAIN backlog' : backlog'[i] = backlog[i + 1]
      /\ Head(backlog) = backlog[1] /\ Len(backlog) \in Nat \ {0}
      /\ Head(backlog) \in Conn
  OBVIOUS
<1>2. \A i \in DOMAIN backlog : i # 1 => i - 1 \in DOMAIN backlog' /\ backlog'[i - 1] = backlog[i]
  <2> SUFFICES ASSUME NEW i \in 1..Len(backlog), i # 1
               PROVE  i - 1 \in DOMAIN backlog' /\ backlog'[i - 1] = backlog[i]
    BY <1>1
  <2>1. i - 1 \in 1..Len(backlog) - 1 /\ (i - 1) + 1 = i
    BY <1>1
  <2>. QED  BY <1>1, <2>1
<1>3. Waits(Head(backlog))
  BY <1>1 DEF Waits
<1>4. \A c : Waits(c) /\ c # Head(backlog) => Waits(c)'
  <2> SUFFICES ASSUME NEW i \in DOMAIN backlog, backlog[i] # Head(backlog)
               PROVE  \E j \in DOMAIN backlog' : backlog'[j] = backlog[i]
    BY DEF Waits
  <2>1. i # 1
    BY <1>1
  <2>. QED  BY <1>2, <2>1
<1>5. \A c : Waits(c)' => Waits(c) /\ c # Head(backlog)
  <2> SUFFICES ASSUME NEW i \in DOMAIN backlog'
               PROVE  i + 1 \in DOMAIN backlog /\ backlog'[i] = backlog[i + 1]
                      /\ backlog'[i] # Head(backlog)
    BY DEF Waits
  <2>1. i \in Nat \ {0} /\ i + 1 \in DOMAIN backlog /\ 1 \in DOMAIN backlog
    BY <1>1
  <2>2. i + 1 # 1
    BY <2>1
  <2>. QED  BY <1>1, <2>1, <2>2
<1>6. \A i, j \in DOMAIN backlog' : backlog'[i] = backlog'[j] => i = j
  <2> SUFFICES ASSUME NEW i \in DOMAIN backlog', NEW j \in DOMAIN backlog',
                      backlog'[i] = backlog'[j]
               PROVE  i = j
    OBVIOUS
  <2>1. i + 1 \in DOMAIN backlog /\ j + 1 \in DOMAIN backlog /\ i \in Nat /\ j \in Nat
    BY <1>1
  <2>2. i + 1 = j + 1
    BY <1>1, <2>1
  <2>. QED  BY <2>1, <2>2
<1>. QED  BY <1>1, <1>3, <1>4, <1>5, <1>6

\* A connection is established: by the kernel, or by connect at once.
LEMMA EstablishedConnections ==
  ASSUME IInv, NEW k \in Conn, st[k] \in {"none", "syn"}, Becomes(k, "open"),
         backlog' = Append(backlog, k), UNCHANGED <<taken, apc, got>>,
         pc' = pc \/ pc' = [pc EXCEPT ![Client(k)] = "open"]
  PROVE  Connections'
<1> USE DEF Connections
<1>1. /\ st \in [Conn -> {"none", "syn", "refused", "open", "broken"}] /\ PcType
      /\ backlog \in Seq(Conn) /\ got \in [Acceptor -> Conn \union {NoConn}]
      /\ NoConn \notin Conn
  BY SocketAssumption DEF IInv, TypeOK, PcType
<1>2. ~Connected(k) /\ st'[k] = "open" /\ \A j \in Conn : j # k => st'[j] = st[j]
  BY <1>1 DEF Connected, Becomes
<1>3. /\ ~Waits(k) /\ pc[Server(k)] = "none" /\ \A a \in Acceptor : got[a] # k
      /\ pc[Client(k)] \in {"connect", "cwait"}
  BY <1>1, <1>2 DEF IInv, Clients, Servers, Accepted
<1>4. /\ \A i, j \in DOMAIN backlog' : backlog'[i] = backlog'[j] => i = j
      /\ \A c : Waits(c)' <=> Waits(c) \/ c = k
  BY <1>1, <1>3, Queued DEF IInv, Accepted
<1>5. \A j \in Conn : /\ pc'[Server(j)] = pc[Server(j)]
                      /\ j # k => pc'[Client(j)] = pc[Client(j)]
                      /\ pc'[Client(k)] \in {pc[Client(k)], "open"}
  BY <1>1, EndsOf DEF PcType
<1>6. Clients'
  <2> SUFFICES ASSUME NEW j \in Conn
               PROVE  /\ pc'[Client(j)] # "none"
                      /\ pc'[Client(j)] = "connect" => st'[j] # "syn"
                      /\ pc'[Client(j)] \in {"connect", "cwait"} =>
                           st'[j] # "broken" /\ taken'[Client(j)] = <<>>
                      /\ pc'[Client(j)] \notin {"connect", "cwait"} => Connected(j)'
    BY DEF Clients
  <2>1. CASE j # k
    BY <1>2, <1>5, <2>1 DEF IInv, Clients, Connected
  <2>2. CASE j = k
    BY <1>2, <1>3, <1>5, <2>2 DEF IInv, Clients, Connected
  <2>. QED  BY <2>1, <2>2
<1>7. Servers'
  BY <1>2, <1>3, <1>5 DEF IInv, Servers, Connected
<1>8. Accepted'
  <2>1. \A j \in Conn : Waits(j)' => Connected(j)' /\ pc'[Server(j)] = "none"
    BY <1>2, <1>3, <1>4, <1>5 DEF IInv, Accepted, Connected
  <2>2. \A a \in Acceptor : got[a] # NoConn =>
          /\ st'[got[a]] \in {"open", "broken"} /\ pc'[Server(got[a])] = "none"
          /\ ~Waits(got[a]) /\ got[a] # k
    BY <1>1, <1>2, <1>3, <1>5 DEF IInv, Accepted, Connected
  <2>3. \A a \in Acceptor : got'[a] # NoConn =>
          Connected(got[a])' /\ pc'[Server(got'[a])] = "none" /\ ~Waits(got[a])'
    BY <1>4, <2>2 DEF Connected
  <2>. QED  BY <1>4, <2>1, <2>3 DEF IInv, Accepted
<1>. QED  BY <1>6, <1>7, <1>8

\* Nobody who is connected is concerned.
LEMMA OtherConnections ==
  ASSUME IInv, UNCHANGED <<backlog, taken, got>>,
         \A a \in Acceptor : apc'[a] = "serve" <=> apc[a] = "serve",
         \A k \in Conn :
           /\ pc'[Server(k)] = pc[Server(k)]
           /\ Connected(k) => Connected(k)'
           /\ \/ pc'[Client(k)] = pc[Client(k)] /\ (st'[k] = st[k] \/ st'[k] = "refused")
              \/ pc'[Client(k)] = pc[Client(k)] /\ pc[Client(k)] \notin {"connect", "cwait"}
              \/ /\ pc[Client(k)] \in {"connect", "cwait"} /\ st'[k] # "broken"
                 /\ pc'[Client(k)] \in {"connect", "cwait"}
                 /\ pc'[Client(k)] = "connect" => st'[k] # "syn"
              \/ /\ pc[Client(k)] = "connect" /\ pc'[Client(k)] = "open"
                 /\ Connected(k)
  PROVE  Connections'
<1> USE DEF Connections
<1>1. Clients'
  BY DEF IInv, Clients
<1>2. Servers'
  BY DEF IInv, Servers
<1>3. Accepted'
  <2>1. \A c : Waits(c)' <=> Waits(c)
    BY DEF Waits
  <2>2. got \in [Acceptor -> Conn \union {NoConn}]
    BY DEF IInv, TypeOK
  <2>3. \A k \in Conn : Connected(k) => st'[k] \in {"open", "broken"}
    BY DEF Connected
  <2>4. \A a \in Acceptor : got[a] # NoConn =>
          /\ st'[got[a]] \in {"open", "broken"} /\ pc'[Server(got[a])] = "none"
          /\ ~Waits(got[a])
    BY <2>2, <2>3 DEF IInv, Accepted
  <2>5. \A a \in Acceptor : got'[a] # NoConn =>
          Connected(got[a])' /\ pc'[Server(got'[a])] = "none" /\ ~Waits(got[a])'
    BY <2>1, <2>4 DEF Connected
  <2>6. \A k \in Conn : Waits(k)' => Connected(k)' /\ pc'[Server(k)] = "none"
    BY <2>1 DEF IInv, Accepted
  <2>. QED  BY <2>5, <2>6 DEF IInv, Accepted
<1>. QED  BY <1>1, <1>2, <1>3

\* accept takes the first of the backlog.
LEMMA TakenConnections ==
  ASSUME IInv, NEW a \in Acceptor, apc[a] # "serve", backlog # <<>>, TakeConn(a),
         UNCHANGED <<st, taken, pc>>
  PROVE  Connections'
<1>1. /\ backlog \in Seq(Conn) /\ got \in [Acceptor -> Conn \union {NoConn}]
      /\ NoConn \notin Conn
      /\ apc \in [Acceptor -> {"accept", "wait", "again", "serve"}]
  BY SocketAssumption DEF IInv, TypeOK
<1>2. got' = [got EXCEPT ![a] = Head(backlog)] /\ backlog' = Tail(backlog)
      /\ apc' = [apc EXCEPT ![a] = "serve"]
  BY DEF TakeConn, AGoto
<1>. DEFINE k == Head(backlog)
<1>3. /\ \A i, j \in DOMAIN backlog' : backlog'[i] = backlog'[j] => i = j
      /\ k \in Conn /\ Waits(k) /\ \A c : Waits(c)' <=> Waits(c) /\ c # k
  BY <1>1, <1>2, Dequeued DEF IInv, Accepted
<1>4. /\ got'[a] = k /\ apc'[a] = "serve"
      /\ \A b \in Acceptor \ {a} : got'[b] = got[b] /\ apc'[b] = apc[b]
  BY <1>1, <1>2
<1>. HIDE DEF k
<1>5. \A b \in Acceptor : got[b] # k
  BY <1>1, <1>3 DEF IInv, Accepted
<1>6. Connected(k) /\ pc[Server(k)] = "none"
  BY <1>3 DEF IInv, Accepted
<1>7. \A b \in Acceptor : got[b] # NoConn =>
        st[got[b]] \in {"open", "broken"} /\ pc[Server(got[b])] = "none" /\ ~Waits(got[b])
  BY DEF IInv, Accepted, Connected
<1>8. \A b \in Acceptor : got'[b] # NoConn =>
        Connected(got[b])' /\ pc'[Server(got'[b])] = "none" /\ ~Waits(got[b])'
  BY <1>3, <1>4, <1>6, <1>7 DEF Connected
<1>9. \A c \in Conn : Waits(c)' => Connected(c)' /\ pc'[Server(c)] = "none"
  BY <1>3 DEF IInv, Accepted, Connected
<1>10. \A b \in Acceptor : /\ apc'[b] = "serve" <=> got'[b] # NoConn
                           /\ \A c \in Acceptor : got'[b] = got'[c] /\ got'[b] # NoConn => b = c
  BY <1>1, <1>3, <1>4, <1>5 DEF IInv, Accepted
<1>11. Accepted'
  BY <1>3, <1>8, <1>9, <1>10 DEF Accepted
<1>12. Clients' /\ Servers'
  BY DEF IInv, Clients, Servers, Connected
<1>. QED  BY <1>11, <1>12 DEF Connections

\* The connection in the acceptor's hands becomes that of a coroutine.
LEMMA ServedConnections ==
  ASSUME IInv, NEW a \in Acceptor, Serve(a) PROVE Connections'
<1>1. /\ got \in [Acceptor -> Conn \union {NoConn}] /\ NoConn \notin Conn /\ PcType
      /\ apc \in [Acceptor -> {"accept", "wait", "again", "serve"}]
  BY SocketAssumption DEF IInv, TypeOK, PcType
<1>2. /\ apc[a] = "serve" /\ pc' = [pc EXCEPT ![Server(got[a])] = "open"]
      /\ got' = [got EXCEPT ![a] = NoConn] /\ apc' = [apc EXCEPT ![a] = "accept"]
      /\ UNCHANGED <<st, backlog, taken>>
  BY DEF Serve, Goto, AGoto, kernelVars
<1>3. PICK k \in Conn : k = got[a]
  BY <1>1, <1>2 DEF IInv, Accepted
<1>4. st[k] \in {"open", "broken"} /\ ~Waits(k) /\ \A b \in Acceptor \ {a} : got[b] # k
  BY <1>2, <1>3, <1>1 DEF IInv, Accepted, Connected
<1>5. \A j \in Conn : /\ pc'[Client(j)] = pc[Client(j)]
                      /\ pc'[Server(j)] = IF j = k THEN "open" ELSE pc[Server(j)]
  BY <1>1, <1>2, <1>3, EndsOf DEF PcType
<1>6. Clients'
  BY <1>2, <1>5 DEF IInv, Clients, Connected
<1>7. Servers'
  BY <1>2, <1>4, <1>5 DEF IInv, Servers, Connected
<1>8. Accepted'
  <2>1. \A c : Waits(c)' <=> Waits(c)
    BY <1>2 DEF Waits
  <2>2. got'[a] = NoConn /\ \A b \in Acceptor \ {a} : got'[b] = got[b] /\ got[b] # k
    BY <1>1, <1>2, <1>4
  <2>3. \A b \in Acceptor : got[b] # NoConn =>
          st[got[b]] \in {"open", "broken"} /\ pc[Server(got[b])] = "none" /\ ~Waits(got[b])
    BY DEF IInv, Accepted, Connected
  <2>4. \A b \in Acceptor : got'[b] # NoConn =>
          Connected(got[b])' /\ pc'[Server(got'[b])] = "none" /\ ~Waits(got[b])'
    BY <1>1, <1>2, <1>5, <2>1, <2>2, <2>3 DEF Connected
  <2>5. \A c \in Conn : Waits(c)' => Connected(c)' /\ pc'[Server(c)] = "none"
    BY <1>2, <1>4, <1>5, <2>1 DEF IInv, Accepted, Connected
  <2>6. \A b \in Acceptor : apc'[b] = "serve" <=> got'[b] # NoConn
    BY <1>1, <1>2, <2>2 DEF IInv, Accepted
  <2>7. \A b, c \in Acceptor : got'[b] = got'[c] /\ got'[b] # NoConn => b = c
    BY <2>2 DEF IInv, Accepted
  <2>8. \A i, j \in DOMAIN backlog' : backlog'[i] = backlog'[j] => i = j
    BY <1>2 DEF IInv, Accepted
  <2>. QED  BY <2>4, <2>5, <2>6, <2>7, <2>8 DEF Accepted
<1>. QED  BY <1>6, <1>7, <1>8 DEF Connections

LEMMA ConnectionsStep == IInv /\ [Next]_vars => Connections'
<1> SUFFICES ASSUME IInv, [Next]_vars PROVE Connections'
  OBVIOUS
<1>1. /\ st \in [Conn -> {"none", "syn", "refused", "open", "broken"}] /\ PcType
      /\ apc \in [Acceptor -> {"accept", "wait", "again", "serve"}]
  BY DEF IInv, TypeOK, PcType
<1>2. ASSUME NEW k \in Conn, Establish(k) PROVE Connections'
  BY <1>2, EstablishedConnections DEF Establish, sendVars
<1>3. ASSUME NEW k \in Conn, Refuse(k) PROVE Connections'
  <2>1. /\ UNCHANGED <<backlog, taken, pc, apc, got>>
        /\ st[k] = "syn" /\ st' = [st EXCEPT ![k] = "refused"]
    BY <1>3 DEF Refuse, Becomes, sendVars, acceptVars
  <2>2. \A j \in Conn : /\ st'[j] = st[j] \/ st'[j] = "refused"
                        /\ Connected(j) => Connected(j)'
    BY <1>1, <2>1 DEF Connected
  <2>. QED  BY <2>1, <2>2, OtherConnections
<1>4. ASSUME NEW k \in Conn, Break(k) PROVE Connections'
  <2>1. /\ UNCHANGED <<backlog, taken, pc, apc, got>>
        /\ st[k] = "open" /\ st' = [st EXCEPT ![k] = "broken"]
        /\ pc[Client(k)] \notin {"connect", "cwait"}
    BY <1>4 DEF Break, Becomes, sendVars, acceptVars
  <2>2. \A j \in Conn : /\ st'[j] = st[j] \/ j = k
                        /\ Connected(j) => Connected(j)'
    BY <1>1, <2>1 DEF Connected
  <2>3. \A j \in Conn : /\ pc'[Server(j)] = pc[Server(j)] /\ pc'[Client(j)] = pc[Client(j)]
                        /\ st'[j] = st[j] \/ pc[Client(j)] \notin {"connect", "cwait"}
    BY <2>1, <2>2
  <2>. QED  BY <2>1, <2>2, <2>3, OtherConnections
<1>5. ASSUME NEW k \in Conn, ConnectStep(k) PROVE Connections'
  <2>1. pc[Client(k)] \in {"connect", "cwait"} /\ UNCHANGED <<taken, apc, got>>
    BY <1>5 DEF ConnectStep, Connect, ConnectEvent, sendVars, kernelVars
  <2>2. pc[Client(k)] = "connect" => st[k] \in {"none", "refused", "open"}
    BY <1>1 DEF IInv, Clients
  <2>3. CASE \/ Connect(k) /\ st[k] = "none" /\ pc'[Client(k)] # "open"
             \/ Connect(k) /\ st[k] = "refused"
    <3>1. /\ UNCHANGED backlog
          /\ \E s \in {"syn", "none"} : st' = [st EXCEPT ![k] = s]
          /\ pc' = [pc EXCEPT ![Client(k)] = "cwait"]
          /\ st[k] \in {"none", "refused"}
      BY <1>1, <2>3, EndsOf DEF Connect, Becomes, Goto, PcType
    <3>2. /\ \A j \in Conn : pc'[Server(j)] = pc[Server(j)]
          /\ \A j \in Conn : j # k => pc'[Client(j)] = pc[Client(j)] /\ st'[j] = st[j]
          /\ pc'[Client(k)] = "cwait" /\ st'[k] \in {"syn", "none"}
          /\ \A j \in Conn : Connected(j) => Connected(j)'
      BY <1>1, <3>1, EndsOf DEF PcType, Connected
    <3>. QED  BY <2>1, <3>1, <3>2, OtherConnections
  <2>4. CASE Connect(k) /\ st[k] = "none" /\ pc'[Client(k)] = "open"
    <3>1. /\ Becomes(k, "open") /\ backlog' = Append(backlog, k)
          /\ pc' = [pc EXCEPT ![Client(k)] = "open"]
      BY <1>1, <2>4, EndsOf DEF Connect, Goto, PcType
    <3>. QED  BY <2>1, <2>4, <3>1, EstablishedConnections
  <2>5. CASE Connect(k) /\ st[k] = "open"
    <3>1. /\ UNCHANGED <<st, backlog>> /\ pc' = [pc EXCEPT ![Client(k)] = "open"]
          /\ pc[Client(k)] = "connect"
      BY <2>5 DEF Connect, Goto
    <3>2. /\ \A j \in Conn : pc'[Server(j)] = pc[Server(j)]
          /\ \A j \in Conn : j # k => pc'[Client(j)] = pc[Client(j)]
          /\ pc'[Client(k)] = "open" /\ Connected(k)
          /\ \A j \in Conn : Connected(j) => Connected(j)'
      BY <1>1, <2>5, <3>1, EndsOf DEF PcType, Connected
    <3>. QED  BY <2>1, <3>1, <3>2, OtherConnections
  <2>6. CASE ConnectEvent(k)
    <3>1. /\ UNCHANGED <<st, backlog>> /\ pc' = [pc EXCEPT ![Client(k)] = "connect"]
          /\ st[k] # "syn"
      BY <2>6 DEF ConnectEvent, Goto, kernelVars
    <3>2. /\ \A j \in Conn : pc'[Server(j)] = pc[Server(j)]
          /\ \A j \in Conn : j # k => pc'[Client(j)] = pc[Client(j)]
          /\ pc'[Client(k)] = "connect" /\ st'[k] # "syn" /\ st'[k] # "broken"
          /\ \A j \in Conn : Connected(j) => Connected(j)'
      BY <1>1, <2>1, <3>1, EndsOf DEF PcType, Connected, IInv, Clients
    <3>. QED  BY <2>1, <3>1, <3>2, OtherConnections
  <2>. QED  BY <1>5, <2>2, <2>3, <2>4, <2>5, <2>6 DEF ConnectStep, Connect
<1>6. ASSUME NEW a \in Acceptor, Accept(a) \/ AcceptEvent(a) \/ AcceptAgain(a)
      PROVE  Connections'
  <2>1. UNCHANGED <<st, taken, pc>> /\ apc[a] # "serve"
    BY <1>6 DEF Accept, AcceptEvent, AcceptAgain, sendVars, kernelVars
  <2>2. CASE ~AcceptEvent(a) /\ backlog # <<>>
    BY <1>6, <2>1, <2>2, TakenConnections DEF Accept, AcceptAgain
  <2>3. CASE AcceptEvent(a) \/ backlog = <<>>
    <3>1. UNCHANGED <<backlog, got>> /\ \E l \in {"wait", "accept", "again"} :
                                           apc' = [apc EXCEPT ![a] = l]
      BY <1>6, <2>3 DEF Accept, AcceptEvent, AcceptAgain, AGoto, kernelVars
    <3>2. \A b \in Acceptor : apc'[b] = "serve" <=> apc[b] = "serve"
      BY <1>1, <2>1, <3>1
    <3>. QED  BY <2>1, <3>1, <3>2, OtherConnections DEF Connected
  <2>. QED  BY <2>2, <2>3
<1>7. ASSUME \/ \E x \in End : SendUrgent(x)
             \/ UNCHANGED vars
      PROVE  Connections'
  <2>1. UNCHANGED <<st, backlog, taken, pc, apc, got>>
    BY <1>7 DEF SendUrgent, sendVars, vars
  <2>. QED  BY <2>1, OtherConnections DEF Connected
<1>. QED  BY <1>2, <1>3, <1>4, <1>5, <1>6, <1>7, EndConnections, ServedConnections
  DEF Next, AcceptStep

-----------------------------------------------------------------------------
(* Where a byte is in the stream.                                          *)

LEMMA TimesMonotone ==
  ASSUME NEW a \in Nat, NEW b \in Nat, NEW m \in Nat, a <= b PROVE a * m <= b * m
<1>. DEFINE d == b - a
<1>1. d \in Nat /\ b = a + d
  OBVIOUS
<1>2. d * m \in Nat /\ a * m \in Nat
  BY <1>1
<1>3. b * m = a * m + d * m
  BY <1>1
<1>. QED  BY <1>2, <1>3

LEMMA ByteInRange ==
  ASSUME NEW c \in 1..MaxSends, NEW j \in 1..MsgLen
  PROVE  /\ Byte(c, j) \in 1..MaxSends * MsgLen
         /\ \A i \in Int : Byte(c, i) = Byte(c, 0) + i
         /\ Byte(c, 0) \in Nat
<1>1. MaxSends \in Nat /\ MsgLen \in Nat /\ c - 1 \in Nat /\ c \in Nat
  BY SocketAssumption
<1>2. (c - 1) * MsgLen \in Nat /\ MaxSends * MsgLen \in Nat /\ c * MsgLen \in Nat
  BY <1>1
<1>3. c * MsgLen <= MaxSends * MsgLen
  BY <1>1, TimesMonotone
<1>4. c * MsgLen = (c - 1) * MsgLen + MsgLen
  BY <1>1
<1>. QED  BY <1>1, <1>2, <1>3, <1>4 DEF Byte

\* A byte of an earlier message comes before those of a later one.
LEMMA ByteBefore ==
  ASSUME NEW c \in 1..MaxSends, NEW d \in 1..MaxSends, c < d, NEW j \in 1..MsgLen
  PROVE  Byte(c, j) <= Byte(d, 0)
<1>1. MaxSends \in Nat /\ MsgLen \in Nat /\ c - 1 \in Nat /\ c \in Nat /\ d - 1 \in Nat
      /\ c <= d - 1
  BY SocketAssumption
<1>2. c * MsgLen <= (d - 1) * MsgLen
  BY <1>1, TimesMonotone
<1>3. (c - 1) * MsgLen \in Nat /\ (d - 1) * MsgLen \in Nat
  BY <1>1
<1>4. c * MsgLen = (c - 1) * MsgLen + MsgLen
  BY <1>1
<1>. QED  BY <1>1, <1>2, <1>3, <1>4 DEF Byte

\* What has been taken of a message comes before the next one.
LEMMA NextByte ==
  ASSUME NEW c \in 1..MaxSends, NEW o \in 0..MsgLen
  PROVE  Byte(c, o) \in Nat /\ Byte(c + 1, 0) \in Nat /\ Byte(c, o) <= Byte(c + 1, 0)
<1>1. MaxSends \in Nat /\ MsgLen \in Nat /\ c - 1 \in Nat /\ c \in Nat /\ (c + 1) - 1 = c
  BY SocketAssumption
<1>2. (c - 1) * MsgLen \in Nat /\ c * MsgLen \in Nat
  BY <1>1
<1>3. c * MsgLen = (c - 1) * MsgLen + MsgLen
  BY <1>1
<1>4. Byte(c + 1, 0) = c * MsgLen
  BY <1>1, <1>2 DEF Byte
<1>. QED  BY <1>1, <1>2, <1>3, <1>4 DEF Byte

LEMMA Appended ==
  ASSUME NEW S, NEW s \in Seq(S), NEW t \in Seq(S)
  PROVE  /\ s \o t \in Seq(S) /\ Len(s \o t) = Len(s) + Len(t)
         /\ \A i \in 1..Len(s) : (s \o t)[i] = s[i]
         /\ \A j \in 1..Len(t) : (s \o t)[Len(s) + j] = t[j]
<1>1. Len(s) \in Nat /\ Len(t) \in Nat
  OBVIOUS
<1>2. \A j \in 1..Len(t) : /\ Len(s) + j \in 1..Len(s) + Len(t)
                           /\ Len(s) + j > Len(s) /\ (Len(s) + j) - Len(s) = j
  BY <1>1
<1>. QED  BY <1>1, <1>2

Sent(x, n) == taken[x] \o Part(x, off[x], n)

\* What ::send adds, byte by byte.
LEMMA PartTaken ==
  ASSUME NEW x \in End, IInv, call[x] > 0, off[x] < MsgLen, NEW n \in 1..MsgLen - off[x]
  PROVE  /\ Sent(x, n) \in Seq(1..MaxSends * MsgLen)
         /\ Len(Sent(x, n)) = Len(taken[x]) + n
         /\ \A i \in DOMAIN taken[x] : i \in DOMAIN Sent(x, n) /\ Sent(x, n)[i] = taken[x][i]
         /\ \A i \in DOMAIN Sent(x, n) :
              i \in DOMAIN taken[x] \/ \E j \in 1..n : i = Len(taken[x]) + j
         /\ \A j \in 1..n : /\ Len(taken[x]) + j \in DOMAIN Sent(x, n)
                            /\ Sent(x, n)[Len(taken[x]) + j] = Byte(call[x], off[x] + j)
<1>. DEFINE was == taken[x]
            part == Part(x, off[x], n)
            now == Sent(x, n)
<1>0. now = was \o part
  BY DEF Sent
<1>. HIDE DEF now
<1>1. /\ was \in Seq(1..MaxSends * MsgLen) /\ call[x] \in 1..MaxSends /\ off[x] \in Nat
      /\ MsgLen \in Nat /\ MaxSends \in Nat /\ n \in 1..MsgLen /\ off[x] + n <= MsgLen
  BY SocketAssumption DEF IInv, TypeOK
<1>2. \A j \in 1..n : off[x] + j \in 1..MsgLen
  <2>1. off[x] \in Nat /\ MsgLen \in Nat /\ n \in Nat /\ off[x] + n <= MsgLen
    BY <1>1
  <2>. QED  BY <2>1
<1>3. \A j \in 1..n : Byte(call[x], off[x] + j) \in 1..MaxSends * MsgLen
  BY <1>1, <1>2, ByteInRange
<1>4. part = [j \in 1..n |-> Byte(call[x], off[x] + j)]
  <2>1. (call[x] - 1) * MsgLen \in Int
    BY <1>1
  <2>2. \A j \in 1..n : (call[x] - 1) * MsgLen + off[x] + j = Byte(call[x], off[x] + j)
    BY <1>1, <2>1 DEF Byte
  <2>. QED  BY <2>2 DEF Part
<1>. HIDE DEF part
<1>5. part \in Seq(1..MaxSends * MsgLen) /\ Len(part) = n /\ DOMAIN part = 1..n
  <2>. DEFINE S == 1..MaxSends * MsgLen
  <2>1. n \in Nat /\ \A j \in 1..n : Byte(call[x], off[x] + j) \in S
    BY <1>1, <1>3
  <2>. HIDE DEF S
  <2>2. part \in Seq(S) /\ Len(part) = n /\ DOMAIN part = 1..n
    BY <1>4, <2>1
  <2>. QED  BY <2>2 DEF S
<1>. HIDE DEF was
<1>6. /\ now \in Seq(1..MaxSends * MsgLen) /\ Len(now) = Len(was) + n
      /\ \A i \in 1..Len(was) : now[i] = was[i]
      /\ \A j \in 1..n : now[Len(was) + j] = part[j]
  <2>. DEFINE S == 1..MaxSends * MsgLen
  <2>1. was \in Seq(S) /\ part \in Seq(S)
    BY <1>1, <1>5
  <2>. HIDE DEF S
  <2>2. /\ was \o part \in Seq(S) /\ Len(was \o part) = Len(was) + Len(part)
        /\ \A i \in 1..Len(was) : (was \o part)[i] = was[i]
        /\ \A j \in 1..Len(part) : (was \o part)[Len(was) + j] = part[j]
    BY <2>1, Appended
  <2>. QED  BY <1>0, <1>5, <2>2 DEF S
<1>7. /\ Len(was) \in Nat /\ DOMAIN was = 1..Len(was) /\ DOMAIN now = 1..Len(was) + n
  BY <1>1, <1>6, Elements
<1>8. \A j \in 1..n : now[Len(was) + j] = Byte(call[x], off[x] + j)
  BY <1>4, <1>6
<1>9. \A i \in DOMAIN now : i \in DOMAIN was \/ \E j \in 1..n : i = Len(was) + j
  <2> SUFFICES ASSUME NEW i \in 1..Len(was) + n, i \notin 1..Len(was)
               PROVE  \E j \in 1..n : i = Len(was) + j
    BY <1>7
  <2>1. i - Len(was) \in 1..n /\ i = Len(was) + (i - Len(was))
    BY <1>1, <1>7
  <2>. QED  BY <2>1
<1>10. \A i \in DOMAIN was : i \in DOMAIN now
  BY <1>1, <1>7
<1>11. \A j \in 1..n : Len(was) + j \in DOMAIN now
  BY <1>1, <1>7
<1>. QED  BY <1>6, <1>7, <1>8, <1>9, <1>10, <1>11 DEF was, now

-----------------------------------------------------------------------------
(* What the kernel and the coroutines that connect or accept leave alone.  *)

Traffic == Readers /\ Senders /\ \A x \in End : Messages(x)

Quiet == {"none", "connect", "cwait", "open"}

LEMMA QuietTraffic ==
  ASSUME IInv, UNCHANGED <<taken, nread, closed, call, off>>,
         \A x \in End : urgent[x] => urgent'[x],
         \A x \in End : pc'[x] = pc[x] \/ {pc[x], pc'[x]} \subseteq Quiet,
         \A k \in Conn : st[k] = "broken" => st'[k] = "broken"
  PROVE  Traffic'
<1> USE TwoEnds
<1>1. Readers'
  BY DEF IInv, Readers, Unread, Quiet
<1>2. \A x \in End : /\ Sending(x)' <=> Sending(x)
                     /\ pc'[x] = "send" => pc[x] = "send"
                     /\ st[x[1]] = "broken" => st'[x[1]] = "broken"
  BY DEF Sending, Quiet
<1>3. Senders'
  BY <1>2 DEF IInv, Senders, Space, Unread
<1>4. \A x \in End : \A m : Holds(x, m)' <=> Holds(x, m)
  BY DEF Holds
<1>5. ASSUME NEW x \in End PROVE Messages(x)'
  <2>1. Messages(x)
    BY DEF IInv
  <2> SUFFICES ASSUME st'[x[1]] # "broken"
               PROVE  /\ Increasing(x)' /\ SoFar(x)'
                      /\ \A c \in 1..call'[x] : IF c = call'[x] /\ Sending(x)'
                                                THEN Begun(x)' ELSE Whole(x, c)'
    BY DEF Messages
  <2>2. st[x[1]] # "broken"
    BY <1>2
  <2>3. Increasing(x)' /\ SoFar(x)'
    BY <2>1, <2>2 DEF Messages, Increasing, SoFar, Byte
  <2>4. Begun(x)' <=> Begun(x)
    BY <1>4 DEF Begun, Byte
  <2>5. \A c : Whole(x, c)' <=> Whole(x, c)
    BY <1>4 DEF Whole, Byte
  <2>. QED  BY <1>2, <2>1, <2>2, <2>3, <2>4, <2>5 DEF Messages
<1>. QED  BY <1>1, <1>3, <1>5 DEF Traffic

LEMMA OthersTraffic ==
  ASSUME IInv, [Next]_vars, \A x \in End : ~EndStep(x) PROVE Traffic'
<1>1. /\ st \in [Conn -> {"none", "syn", "refused", "open", "broken"}] /\ PcType
      /\ got \in [Acceptor -> Conn \union {NoConn}] /\ urgent \in [End -> BOOLEAN]
  BY DEF IInv, TypeOK, PcType
<1>2. /\ UNCHANGED <<taken, nread, closed, call, off>>
      /\ \A x \in End : urgent[x] => urgent'[x]
  <2>1. UNCHANGED <<taken, nread, closed, call, off>>
    BY DEF Next, Establish, Refuse, Break, ConnectStep, Connect, ConnectEvent, AcceptStep,
       Accept, AcceptEvent, AcceptAgain, Serve, SendUrgent, sendVars, kernelVars, vars
  <2>2. UNCHANGED urgent \/ \E x \in End : urgent' = [urgent EXCEPT ![x] = TRUE]
    BY DEF Next, Establish, Refuse, Break, ConnectStep, Connect, ConnectEvent, AcceptStep,
       Accept, AcceptEvent, AcceptAgain, Serve, SendUrgent, kernelVars, vars
  <2>. QED  BY <1>1, <2>1, <2>2
<1>3. \/ \E k \in Conn : Establish(k) \/ Refuse(k) \/ Break(k)
      \/ \E k \in Conn : ConnectStep(k)
      \/ \E a \in Acceptor : AcceptStep(a)
      \/ \E x \in End : SendUrgent(x)
      \/ UNCHANGED vars
  BY DEF Next
<1>4. ASSUME NEW k \in Conn, Establish(k) \/ Refuse(k) \/ Break(k) PROVE Traffic'
  <2>1. UNCHANGED pc /\ st[k] # "broken" /\ \E s \in {"open", "refused", "broken"} :
                                              st' = [st EXCEPT ![k] = s]
    BY <1>4 DEF Establish, Refuse, Break, Becomes
  <2>2. \A j \in Conn : st[j] = "broken" => st'[j] = "broken"
    BY <1>1, <2>1
  <2>. QED  BY <1>2, <2>1, <2>2, QuietTraffic
<1>5. ASSUME NEW k \in Conn, ConnectStep(k) PROVE Traffic'
  <2>1. /\ pc[Client(k)] \in {"connect", "cwait"} /\ st[k] # "broken"
        /\ pc[Client(k)] = "connect" => st[k] \in {"none", "refused", "open"}
    BY <1>1, <1>5 DEF ConnectStep, Connect, ConnectEvent, IInv, Clients
  <2>2. \/ UNCHANGED st
        \/ \E s \in {"syn", "open", "none"} : st' = [st EXCEPT ![k] = s]
    BY <1>5, <2>1 DEF ConnectStep, Connect, ConnectEvent, Becomes, kernelVars
  <2>3. \E l \in {"connect", "cwait", "open"} : pc' = [pc EXCEPT ![Client(k)] = l]
    BY <1>5, <2>1 DEF ConnectStep, Connect, ConnectEvent, Goto
  <2>4. \A j \in Conn : st[j] = "broken" => st'[j] = "broken"
    BY <1>1, <2>1, <2>2
  <2>5. \A x \in End : pc'[x] = pc[x] \/ {pc[x], pc'[x]} \subseteq Quiet
    BY <1>1, <2>1, <2>3 DEF PcType, Quiet
  <2>. QED  BY <1>2, <2>4, <2>5, QuietTraffic
<1>6. ASSUME NEW a \in Acceptor, AcceptStep(a) PROVE Traffic'
  <2>1. UNCHANGED st
    BY <1>6 DEF AcceptStep, Accept, AcceptEvent, AcceptAgain, Serve, kernelVars
  <2>2. CASE Serve(a)
    <3>1. pc[Server(got[a])] = "none" /\ pc' = [pc EXCEPT ![Server(got[a])] = "open"]
      BY <2>2 DEF Serve, Goto, IInv, Accepted
    <3>2. \A x \in End : pc'[x] = pc[x] \/ {pc[x], pc'[x]} \subseteq Quiet
      BY <1>1, <3>1 DEF PcType, Quiet
    <3>. QED  BY <1>2, <2>1, <3>2, QuietTraffic
  <2>3. CASE ~Serve(a)
    <3>1. UNCHANGED pc
      BY <1>6, <2>3 DEF AcceptStep, Accept, AcceptEvent, AcceptAgain, kernelVars
    <3>. QED  BY <1>2, <2>1, <3>1, QuietTraffic
  <2>. QED  BY <2>2, <2>3
<1>7. ASSUME \/ \E x \in End : SendUrgent(x)
             \/ UNCHANGED vars
      PROVE  Traffic'
  <2>1. UNCHANGED <<st, pc>>
    BY <1>7 DEF SendUrgent, vars
  <2>. QED  BY <1>2, <2>1, QuietTraffic
<1>. QED  BY <1>3, <1>4, <1>5, <1>6, <1>7

-----------------------------------------------------------------------------
(* What a coroutine does to its messages and to its peer's.                *)

\* Nothing is taken back, unread or opened again.
LEMMA EndGrows ==
  ASSUME IInv, NEW x \in End, EndStep(x)
  PROVE  /\ \A y \in End : /\ nread[y] \in Nat /\ nread'[y] \in Nat /\ nread[y] <= nread'[y]
                           /\ Len(taken[y]) \in Nat /\ Len(taken'[y]) \in Nat
                           /\ Len(taken[y]) <= Len(taken'[y])
                           /\ closed[y] => closed'[y]
         /\ \A k \in Conn : st[k] = "broken" => st'[k] = "broken"
<1>1. /\ taken \in [End -> Seq(1..MaxSends * MsgLen)] /\ nread \in [End -> Nat]
      /\ closed \in [End -> BOOLEAN] /\ Peer(x) \in End
      /\ \A y \in End : Len(taken[y]) \in Nat
  BY TwoEnds DEF IInv, TypeOK
<1>2. \A k \in Conn : st[k] = "broken" => st'[k] = "broken"
  BY EndChanges
<1>3. CASE SendSome(x)
  <2>1. PICK n \in 1..MsgLen - off[x] : taken' = [taken EXCEPT ![x] = @ \o Part(x, off[x], n)]
    BY <1>3 DEF SendSome
  <2>2. call[x] > 0 /\ off[x] < MsgLen
    BY <1>3 DEF SendSome, Sending, IInv, Senders
  <2>3. Len(taken'[x]) = Len(taken[x]) + n /\ n \in Nat
    <3>1. off[x] \in Nat /\ MsgLen \in Nat
      BY SocketAssumption DEF IInv, TypeOK
    <3>2. taken'[x] = Sent(x, n)
      BY <1>1, <2>1 DEF Sent
    <3>. QED  BY <2>2, <3>1, <3>2, PartTaken
  <2>4. \A y \in End \ {x} : taken'[y] = taken[y]
    BY <2>1
  <2>5. UNCHANGED <<nread, closed>>
    BY <1>3 DEF SendSome
  <2>6. \A y \in End : Len(taken'[y]) \in Nat /\ Len(taken[y]) <= Len(taken'[y])
    <3>1. Len(taken[x]) \in Nat
      BY <1>1
    <3>2. Len(taken'[x]) \in Nat /\ Len(taken[x]) <= Len(taken'[x])
      BY <2>3, <3>1
    <3>3. ASSUME NEW y \in End \ {x}
          PROVE  Len(taken'[y]) \in Nat /\ Len(taken[y]) <= Len(taken'[y])
      <4>1. taken'[y] = taken[y] /\ Len(taken[y]) \in Nat
        BY <1>1, <2>4
      <4>. QED  BY <4>1
    <3>. QED  BY <3>2, <3>3
  <2>. QED  BY <1>1, <1>2, <2>5, <2>6
<1>4. CASE Read(x) \/ Reread(x)
  <2>1. UNCHANGED <<taken, closed>>
    BY <1>4 DEF Read, Reread, sendVars
  <2>2. Unread(Peer(x)) \in Int
    BY <1>1 DEF Unread
  <2>3. \/ UNCHANGED nread
        \/ \E n \in 0..Unread(Peer(x)) : nread' = [nread EXCEPT ![Peer(x)] = @ + n]
    BY <1>4 DEF Read, Reread, SysRead
  <2>4. \A y \in End : nread'[y] \in Nat /\ nread[y] <= nread'[y]
    BY <1>1, <2>2, <2>3
  <2>. QED  BY <1>1, <1>2, <2>1, <2>4
<1>5. CASE ~SendSome(x) /\ ~Read(x) /\ ~Reread(x)
  <2>1. UNCHANGED <<taken, nread>> /\ (UNCHANGED closed \/ closed' = [closed EXCEPT ![x] = TRUE])
    BY <1>5 DEF EndStep, StartSend, SendMinusOne, SendEvent, StartRead, ReadEvent, Close,
       kernelVars, sendVars
  <2>2. \A y \in End : closed[y] => closed'[y]
    BY <1>1, <2>1
  <2>. QED  BY <1>1, <1>2, <2>1, <2>2
<1>. QED  BY <1>3, <1>4, <1>5

\* The others: x only makes more room, more to read and more closed.
LEMMA PeersTraffic ==
  ASSUME IInv, NEW x \in End, EndStep(x), NEW y \in End \ {x}
  PROVE  /\ pc'[y] = "reread" => \/ st'[y[1]] = "broken" \/ Unread(Peer(y))' > 0
                                 \/ closed'[Peer(y)] \/ urgent'[Peer(y)]
         /\ Sending(y)' => call'[y] > 0 /\ off'[y] < MsgLen
         /\ pc'[y] = "send" /\ off'[y] > 0 => st'[y[1]] = "broken" \/ Space(y)' > 0
         /\ Messages(y)'
<1>1. /\ pc'[y] = pc[y] /\ taken'[y] = taken[y] /\ call'[y] = call[y]
      /\ off'[y] = off[y] /\ nread'[Peer(y)] = nread[Peer(y)]
      /\ urgent'[Peer(y)] = urgent[Peer(y)]
  BY EndChanges
<1>2. /\ Peer(y) \in End /\ y[1] \in Conn
      /\ st[y[1]] = "broken" => st'[y[1]] = "broken"
      /\ closed[Peer(y)] => closed'[Peer(y)]
  BY EndGrows, TwoEnds
<1>3. /\ nread[y] \in Nat /\ nread'[y] \in Nat /\ nread[y] <= nread'[y]
      /\ nread[Peer(y)] \in Nat
      /\ Len(taken[y]) \in Nat
      /\ Len(taken[Peer(y)]) \in Nat /\ Len(taken'[Peer(y)]) \in Nat
      /\ Len(taken[Peer(y)]) <= Len(taken'[Peer(y)])
  BY <1>2, EndGrows
<1>4. Unread(Peer(y)) > 0 => Unread(Peer(y))' > 0
  <2>1. Unread(Peer(y)) = Len(taken[Peer(y)]) - nread[Peer(y)]
    BY DEF Unread
  <2>2. Unread(Peer(y))' = Len(taken'[Peer(y)]) - nread[Peer(y)]
    BY <1>1 DEF Unread
  <2>. QED  BY <1>3, <2>1, <2>2
<1>5. Space(y) > 0 => Space(y)' > 0
  <2>1. Space(y) = Cap - (Len(taken[y]) - nread[y])
    BY DEF Space, Unread
  <2>2. Space(y)' = Cap - (Len(taken[y]) - nread'[y])
    BY <1>1 DEF Space, Unread
  <2>. QED  BY <1>3, <2>1, <2>2, SocketAssumption
<1>6. pc'[y] = "reread" => \/ st'[y[1]] = "broken" \/ Unread(Peer(y))' > 0
                           \/ closed'[Peer(y)] \/ urgent'[Peer(y)]
  BY <1>1, <1>2, <1>4 DEF IInv, Readers
<1>7. /\ Sending(y)' => call'[y] > 0 /\ off'[y] < MsgLen
      /\ pc'[y] = "send" /\ off'[y] > 0 => st'[y[1]] = "broken" \/ Space(y)' > 0
  BY <1>1, <1>2, <1>5 DEF IInv, Senders, Sending
<1>8. Messages(y)'
  <2>1. Messages(y)
    BY DEF IInv
  <2>2. \A m : Holds(y, m)' <=> Holds(y, m)
    BY <1>1 DEF Holds
  <2>3. Begun(y)' <=> Begun(y)
    BY <1>1, <2>2 DEF Begun, Byte
  <2>4. \A c : Whole(y, c)' <=> Whole(y, c)
    BY <2>2 DEF Whole, Byte
  <2>5. /\ Increasing(y)' <=> Increasing(y)
        /\ SoFar(y)' <=> SoFar(y)
        /\ Sending(y)' <=> Sending(y)
    BY <1>1 DEF Increasing, SoFar, Sending, Byte
  <2>. QED  BY <1>1, <1>2, <2>1, <2>3, <2>4, <2>5 DEF Messages
<1>. QED  BY <1>6, <1>7, <1>8

\* send is called: nothing of the new message has been taken.
LEMMA StartSendMessages ==
  ASSUME IInv, NEW x \in End, StartSend(x) PROVE Messages(x)'
<1>1. /\ call[x] \in 0..MaxSends /\ call[x] < MaxSends /\ MaxSends \in Nat /\ MsgLen \in Nat
      /\ pc[x] = "open" /\ off[x] \in 0..MsgLen
      /\ taken[x] \in Seq(1..MaxSends * MsgLen)
  BY SocketAssumption DEF IInv, TypeOK, StartSend
<1>2. call'[x] = call[x] + 1 /\ off'[x] = 0 /\ pc'[x] = "send" /\ UNCHANGED <<taken, st>>
  BY DEF IInv, TypeOK, StartSend, Goto, kernelVars
<1>. DEFINE d == call[x] + 1
<1>3. d \in 1..MaxSends /\ Byte(d, 0) \in Nat
  <2>1. d \in 1..MaxSends /\ 1 \in 1..MsgLen
    BY <1>1, SocketAssumption
  <2>. QED  BY <2>1, ByteInRange
<1>4. SUFFICES ASSUME st[x[1]] # "broken"
               PROVE  /\ Increasing(x)' /\ SoFar(x)'
                      /\ \A c \in 1..d : IF c = d THEN Begun(x)' ELSE Whole(x, c)'
  BY <1>2 DEF Messages, Sending
<1>5. Messages(x)
  BY DEF IInv
<1>6. \A i \in DOMAIN taken[x] : taken[x][i] <= Byte(d, 0)
  <2> SUFFICES ASSUME NEW i \in DOMAIN taken[x] PROVE taken[x][i] <= Byte(d, 0)
    OBVIOUS
  <2>1. call[x] > 0 /\ taken[x][i] <= Byte(call[x], off[x]) /\ taken[x][i] \in Nat
    BY <1>1, <1>4, <1>5 DEF Messages, SoFar
  <2>2. call[x] \in 1..MaxSends
    BY <1>1, <2>1
  <2>3. Byte(call[x], off[x]) \in Nat /\ Byte(call[x], off[x]) <= Byte(d, 0)
    BY <1>1, <2>2, NextByte
  <2>. QED  BY <1>3, <2>1, <2>3
<1>7. Increasing(x)'
  BY <1>2, <1>4, <1>5 DEF Messages, Increasing
<1>8. SoFar(x)'
  <2>1. call'[x] > 0 /\ Byte(call'[x], off'[x]) = Byte(d, 0)
    BY <1>2, <1>3
  <2>. QED  BY <1>2, <1>6, <2>1 DEF SoFar
<1>9. \A m : Holds(x, m)' <=> Holds(x, m)
  BY <1>2 DEF Holds
<1>10. Begun(x)'
  <2>1. ASSUME NEW j \in 1..MsgLen PROVE ~Holds(x, Byte(d, j))
    <3>1. Byte(d, j) = Byte(d, 0) + j /\ j > 0 /\ j \in Int
      BY <1>1, <1>3, ByteInRange
    <3>2. \A i \in DOMAIN taken[x] : taken[x][i] \in Nat
      BY <1>1
    <3>. QED  BY <1>3, <1>6, <3>1, <3>2 DEF Holds
  <2>. QED  BY <1>1, <1>2, <1>9, <2>1 DEF Begun, Byte
<1>11. ASSUME NEW c \in 1..d, c # d PROVE Whole(x, c)'
  <2>1. c \in 1..call[x]
    BY <1>1, <1>11
  <2>2. ~(c = call[x] /\ Sending(x))
    BY <1>1 DEF Sending
  <2>3. Whole(x, c)
    BY <1>4, <1>5, <2>1, <2>2 DEF Messages
  <2>. QED  BY <1>9, <2>3 DEF Whole, Byte
<1>. QED  BY <1>7, <1>8, <1>10, <1>11

\* The kernel refuses to take anything of it, which was not begun.
LEMMA SendMinusOneMessages ==
  ASSUME IInv, NEW x \in End, SendMinusOne(x) PROVE Messages(x)'
<1>1. /\ pc[x] = "send" /\ pc'[x] = "open" /\ UNCHANGED <<taken, st, call, off>>
      /\ st[x[1]] = "broken" \/ Space(x) = 0
  BY DEF IInv, TypeOK, SendMinusOne, Goto, sendVars
<1>2. SUFFICES ASSUME st[x[1]] # "broken"
               PROVE  /\ Increasing(x) /\ SoFar(x)
                      /\ \A c \in 1..call[x] : Whole(x, c)
  <2>1. \A m : Holds(x, m)' <=> Holds(x, m)
    BY <1>1 DEF Holds
  <2>2. \A c : Whole(x, c)' <=> Whole(x, c)
    BY <2>1 DEF Whole, Byte
  <2>3. (Increasing(x)' <=> Increasing(x)) /\ (SoFar(x)' <=> SoFar(x)) /\ ~Sending(x)'
    BY <1>1 DEF Increasing, SoFar, Byte, Sending
  <2>. QED  BY <1>1, <2>2, <2>3 DEF Messages
<1>3. Messages(x) /\ Sending(x)
  BY <1>1 DEF IInv, Sending
<1>4. off[x] = 0
  <2>1. off[x] \in Nat
    BY SocketAssumption DEF IInv, TypeOK
  <2>2. ~(off[x] > 0)
    BY <1>1, <1>2 DEF IInv, Senders
  <2>. QED  BY <2>1, <2>2
<1>5. ASSUME NEW c \in 1..call[x] PROVE Whole(x, c)
  <2>1. CASE c = call[x]
    BY <1>2, <1>3, <1>4, <2>1 DEF Messages, Begun, Whole
  <2>2. CASE c # call[x]
    BY <1>2, <1>3, <2>2 DEF Messages
  <2>. QED  BY <2>1, <2>2
<1>. QED  BY <1>2, <1>3, <1>5 DEF Messages

\* The kernel takes the next part.
LEMMA SendSomeMessages ==
  ASSUME IInv, NEW x \in End, SendSome(x) PROVE Messages(x)'
<1>. DEFINE C == call[x]
            o == off[x]
            was == taken[x]
            now == taken'[x]
            L == Len(taken[x])
<1>1. /\ pc[x] = "send" /\ st[x[1]] = "open" /\ UNCHANGED <<st, call>> /\ Sending(x)
      /\ C > 0 /\ o < MsgLen
  BY DEF SendSome, IInv, Senders, Sending
<1>2. C \in 1..MaxSends /\ o \in Nat /\ MsgLen \in Nat /\ L \in Nat
  BY <1>1, SocketAssumption DEF IInv, TypeOK
<1>3. PICK n \in 1..MsgLen - o :
        /\ now = was \o Part(x, o, n)
        /\ off'[x] = o + n
        /\ pc'[x] = IF o + n = MsgLen THEN "open" ELSE "swait"
  BY DEF SendSome, Goto, IInv, TypeOK
<1>4. n \in Nat \ {0} /\ o + n <= MsgLen
  BY <1>2, <1>3
<1>5. /\ \A i \in DOMAIN was : i \in DOMAIN now /\ now[i] = was[i]
      /\ \A i \in DOMAIN now : i \in DOMAIN was \/ \E k \in 1..n : i = L + k
      /\ \A k \in 1..n : L + k \in DOMAIN now /\ now[L + k] = Byte(C, o + k)
      /\ now \in Seq(1..MaxSends * MsgLen)
  <2>1. n \in 1..MsgLen - off[x] /\ call[x] > 0 /\ off[x] < MsgLen
    BY <1>1, <1>3
  <2>2. now = Sent(x, n)
    BY <1>3 DEF Sent
  <2>. HIDE DEF now
  <2>3. Sent(x, n) \in Seq(1..MaxSends * MsgLen)
    BY <2>1, PartTaken
  <2>4. \A i \in DOMAIN was : i \in DOMAIN Sent(x, n) /\ Sent(x, n)[i] = was[i]
    BY <2>1, PartTaken
  <2>5. \A i \in DOMAIN Sent(x, n) : i \in DOMAIN was \/ \E k \in 1..n : i = L + k
    BY <2>1, PartTaken
  <2>6. \A k \in 1..n : /\ L + k \in DOMAIN Sent(x, n)
                        /\ Sent(x, n)[L + k] = Byte(C, o + k)
    BY <2>1, PartTaken
  <2>. QED  BY <2>2, <2>3, <2>4, <2>5, <2>6
<1>6. Byte(C, 0) \in Nat /\ \A i \in Int : Byte(C, i) = Byte(C, 0) + i
  <2>1. 1 \in 1..MsgLen
    BY SocketAssumption
  <2>. HIDE DEF C
  <2>. QED  BY <1>2, <2>1, ByteInRange
<1>7. \A i \in DOMAIN was : was[i] \in Nat /\ i \in Nat /\ i <= L
  <2>1. was \in Seq(1..MaxSends * MsgLen)
    BY DEF IInv, TypeOK
  <2>2. Len(was) \in Nat /\ DOMAIN was = 1..Len(was)
        /\ \A i \in DOMAIN was : was[i] \in 1..MaxSends * MsgLen
    BY <2>1, Elements
  <2>3. 1..MaxSends * MsgLen \subseteq Nat
    OBVIOUS
  <2>. QED  BY <2>2, <2>3
<1>8. /\ Increasing(x) /\ Begun(x)
      /\ \A i \in DOMAIN was : was[i] <= Byte(C, o)
      /\ \A c \in 1..C : c # C => Whole(x, c)
  <2>1. Messages(x) /\ st[x[1]] # "broken"
    BY <1>1 DEF IInv
  <2>2. C \in 1..C
    BY <1>2
  <2>. QED  BY <1>1, <2>1, <2>2 DEF Messages, SoFar
<1>. HIDE DEF C, o, L, was, now
<1>9. /\ Byte(C, o) \in Nat
      /\ \A k \in 1..n : k \in Nat \ {0} /\ k <= n /\ Byte(C, o + k) = Byte(C, o) + k
      /\ Byte(C, o + n) = Byte(C, o) + n
  BY <1>2, <1>4, <1>6
<1>10. Increasing(x)' /\ SoFar(x)'
  <2>1. \A i \in DOMAIN now : \/ i \in DOMAIN was /\ now[i] = was[i]
                              \/ \E k \in 1..n : i = L + k /\ now[i] = Byte(C, o) + k
    BY <1>5, <1>9
  <2>2. ASSUME NEW i \in DOMAIN now PROVE now[i] <= Byte(C, o + n)
    <3>1. CASE i \in DOMAIN was /\ now[i] = was[i]
      BY <1>4, <1>7, <1>8, <1>9, <3>1
    <3>2. ASSUME NEW k \in 1..n, i = L + k /\ now[i] = Byte(C, o) + k
          PROVE  now[i] <= Byte(C, o + n)
      BY <1>4, <1>9, <3>2
    <3>. QED  BY <2>1, <3>1, <3>2
  <2>3. ASSUME NEW i \in DOMAIN now, NEW j \in DOMAIN now, i < j
        PROVE  now[i] < now[j]
    <3>1. CASE j \in DOMAIN was /\ now[j] = was[j]
      <4>1. i \in DOMAIN was
        <5>1. ASSUME NEW k \in 1..n, i = L + k PROVE FALSE
          <6>1. j \in Nat /\ j <= L /\ k \in Nat \ {0}
            BY <1>7, <1>9, <3>1
          <6>. QED  BY <1>2, <2>3, <5>1, <6>1
        <5>. QED  BY <2>1, <5>1
      <4>2. was[i] < was[j] /\ now[i] = was[i]
        BY <1>5, <1>8, <2>3, <3>1, <4>1 DEF Increasing, was
      <4>. QED  BY <3>1, <4>2
    <3>2. ASSUME NEW k \in 1..n, j = L + k /\ now[j] = Byte(C, o) + k
          PROVE  now[i] < now[j]
      <4>0. k \in Nat \ {0}
        BY <1>9
      <4>1. CASE i \in DOMAIN was /\ now[i] = was[i]
        <5>1. was[i] \in Nat /\ was[i] <= Byte(C, o)
          BY <1>7, <1>8, <4>1
        <5>. QED  BY <1>9, <3>2, <4>0, <4>1, <5>1
      <4>2. ASSUME NEW h \in 1..n, i = L + h /\ now[i] = Byte(C, o) + h
            PROVE  now[i] < now[j]
        <5>1. h \in Nat
          BY <1>9
        <5>. QED  BY <1>2, <1>9, <2>3, <3>2, <4>0, <4>2, <5>1
      <4>. QED  BY <2>1, <4>1, <4>2
    <3>. QED  BY <2>1, <3>1, <3>2
  <2>4. Increasing(x)'
    BY <2>3 DEF Increasing, now
  <2>5. SoFar(x)'
    BY <1>1, <1>3, <2>2 DEF SoFar, Byte, C, now
  <2>. QED  BY <2>4, <2>5
<1>11. \A m : Holds(x, m)' <=> Holds(x, m) \/ \E j \in 1..n : m = Byte(C, o + j)
  <2>1. \A m : Holds(x, m) => Holds(x, m)'
    BY <1>5 DEF Holds, was, now
  <2>2. \A m : (\E j \in 1..n : m = Byte(C, o + j)) => Holds(x, m)'
    BY <1>5 DEF Holds, now
  <2>3. \A m : Holds(x, m)' => Holds(x, m) \/ \E j \in 1..n : m = Byte(C, o + j)
    BY <1>5 DEF Holds, was, now
  <2>. QED  BY <2>1, <2>2, <2>3
<1>12. \A j \in 1..MsgLen : Holds(x, Byte(C, j))' <=> j <= o + n
  <2> SUFFICES ASSUME NEW j \in 1..MsgLen
               PROVE  Holds(x, Byte(C, j))' <=> j <= o + n
    OBVIOUS
  <2>1. C' = C
    BY <1>1 DEF C
  <2>2. Holds(x, Byte(C, j))' <=> Holds(x, Byte(C, j)) \/ \E i \in 1..n : Byte(C, j) = Byte(C, o + i)
    BY <1>11, <2>1 DEF Byte, Holds
  <2>3. Holds(x, Byte(C, j)) <=> j <= o
    BY <1>8 DEF Begun, C, o
  <2>4. ASSUME NEW i \in 1..n PROVE Byte(C, j) = Byte(C, o + i) <=> j = o + i
    <3>1. i \in Int /\ j \in Int /\ o + i \in Int
      BY <1>2, <1>4
    <3>2. Byte(C, j) = Byte(C, 0) + j /\ Byte(C, o + i) = Byte(C, 0) + (o + i)
      BY <1>6, <3>1
    <3>. QED  BY <1>6, <3>1, <3>2
  <2>5. (\E i \in 1..n : j = o + i) <=> (o < j /\ j <= o + n)
    <3>1. ASSUME o < j, j <= o + n PROVE \E i \in 1..n : j = o + i
      <4>1. j - o \in 1..n /\ j = o + (j - o)
        BY <1>2, <1>4, <3>1
      <4>. QED  BY <4>1
    <3>. QED  BY <1>2, <1>4, <3>1
  <2>6. j <= o \/ (o < j /\ j <= o + n) <=> j <= o + n
    BY <1>2, <1>4
  <2>. QED  BY <2>2, <2>3, <2>4, <2>5, <2>6
<1>13. ASSUME NEW c \in 1..C, c # C PROVE Whole(x, c)'
  <2>1. c \in 1..MaxSends /\ c < C
    BY <1>2, <1>13, SocketAssumption
  <2>2. ASSUME NEW j \in 1..MsgLen PROVE Holds(x, Byte(c, j))' <=> Holds(x, Byte(c, j))
    <3>1. Byte(c, j) <= Byte(C, 0) /\ Byte(c, j) \in 1..MaxSends * MsgLen
      BY <1>2, <2>1, ByteBefore, ByteInRange
    <3>2. ASSUME NEW i \in 1..n PROVE Byte(c, j) # Byte(C, o + i)
      <4>1. i \in Nat \ {0} /\ o + i \in Int
        BY <1>2, <1>4
      <4>2. Byte(C, o + i) = Byte(C, 0) + (o + i)
        BY <1>6, <4>1
      <4>3. Byte(C, 0) < Byte(C, o + i)
        BY <1>2, <1>6, <4>1, <4>2
      <4>. QED  BY <1>6, <3>1, <4>2, <4>3, <4>1, <1>2
    <3>. QED  BY <1>11, <3>2 DEF Byte, Holds
  <2>. QED  BY <1>8, <1>13, <2>2 DEF Whole, Byte
<1>14. CASE o + n = MsgLen
  <2>1. \A j \in 1..MsgLen : j <= o + n
    BY <1>2, <1>14
  <2>2. Whole(x, C)'
    BY <1>12, <2>1 DEF Whole
  <2>3. ~Sending(x)' /\ C' = C
    BY <1>1, <1>3, <1>14 DEF Sending, C
  <2>4. \A c \in 1..C : Whole(x, c)'
    BY <1>13, <2>2, <2>3 DEF Whole, Byte
  <2>. QED  BY <1>9, <1>10, <2>3, <2>4 DEF Messages, C
<1>15. CASE o + n # MsgLen
  <2>1. Sending(x)' /\ C' = C
    BY <1>1, <1>3, <1>15 DEF Sending, C
  <2>2. Begun(x)'
    BY <1>3, <1>12 DEF Begun, C
  <2>. QED  BY <1>9, <1>10, <1>13, <2>1, <2>2 DEF Messages, C
<1>. QED  BY <1>14, <1>15

\* x itself: whatever it does, its own reading and sending stay in order.
LEMMA OwnMessages ==
  ASSUME IInv, NEW x \in End, EndStep(x) PROVE Messages(x)'
<1>1. CASE StartSend(x) \/ SendSome(x) \/ SendMinusOne(x)
  BY <1>1, StartSendMessages, SendSomeMessages, SendMinusOneMessages
<1>2. CASE \/ SendEvent(x) \/ StartRead(x) \/ Read(x) \/ ReadEvent(x) \/ Reread(x)
           \/ Close(x)
  <2>1. UNCHANGED <<taken, call, off>> /\ (Sending(x)' <=> Sending(x))
    BY <1>2 DEF SendEvent, StartRead, Read, ReadEvent, Reread, ReturnRead, Close, Goto,
       kernelVars, sendVars, Sending, IInv, TypeOK
  <2>2. st[x[1]] = "broken" => st'[x[1]] = "broken"
    BY EndGrows, TwoEnds
  <2>3. \A m : Holds(x, m)' <=> Holds(x, m)
    BY <2>1 DEF Holds
  <2>4. /\ Begun(x)' <=> Begun(x)
        /\ \A c : Whole(x, c)' <=> Whole(x, c)
    BY <2>1, <2>3 DEF Begun, Whole, Byte
  <2>5. (Increasing(x)' <=> Increasing(x)) /\ (SoFar(x)' <=> SoFar(x))
    BY <2>1 DEF Increasing, SoFar, Byte
  <2>6. Messages(x)
    BY DEF IInv
  <2>. QED  BY <2>1, <2>2, <2>4, <2>5, <2>6 DEF Messages
<1>. QED  BY <1>1, <1>2 DEF EndStep

LEMMA OwnTraffic ==
  ASSUME IInv, NEW x \in End, EndStep(x)
  PROVE  /\ pc'[x] = "reread" => \/ st'[x[1]] = "broken" \/ Unread(Peer(x))' > 0
                                 \/ closed'[Peer(x)] \/ urgent'[Peer(x)]
         /\ Sending(x)' => call'[x] > 0 /\ off'[x] < MsgLen
         /\ pc'[x] = "send" /\ off'[x] > 0 => st'[x[1]] = "broken" \/ Space(x)' > 0
<1>1. /\ PcType
      /\ call \in [End -> 0..MaxSends] /\ off \in [End -> 0..MsgLen]
      /\ MaxSends \in Nat /\ MsgLen \in Nat \ {0}
      /\ x[1] \in Conn /\ Peer(x) \in End
  BY TwoEnds, SocketAssumption DEF IInv, TypeOK, PcType
<1>2. /\ Sending(x) => call[x] > 0 /\ off[x] < MsgLen
      /\ st[x[1]] = "broken" => st'[x[1]] = "broken"
  BY <1>1, EndGrows DEF IInv, Senders
<1>3. CASE StartSend(x)
  <2>1. pc'[x] = "send" /\ call'[x] = call[x] + 1 /\ off'[x] = 0
    BY <1>1, <1>3 DEF StartSend, Goto, PcType
  <2>2. call'[x] > 0 /\ off'[x] < MsgLen /\ ~(off'[x] > 0)
    BY <1>1, <2>1
  <2>. QED  BY <2>1, <2>2
<1>4. CASE SendSome(x)
  <2>1. PICK n \in 1..MsgLen - off[x] :
          /\ pc'[x] = IF off[x] + n = MsgLen THEN "open" ELSE "swait"
          /\ off'[x] = off[x] + n
    BY <1>1, <1>4 DEF SendSome, Goto, PcType
  <2>2. call' = call /\ st' = st /\ pc[x] = "send"
    BY <1>4 DEF SendSome
  <2>3. off[x] \in Nat /\ n \in Nat /\ off[x] + n <= MsgLen
    BY <1>1, <2>1
  <2>4. Sending(x)' => off'[x] < MsgLen
    BY <1>1, <2>1, <2>3 DEF Sending
  <2>. QED  BY <1>2, <2>1, <2>2, <2>4 DEF Sending
<1>5. CASE SendMinusOne(x) \/ StartRead(x) \/ Close(x)
  <2>1. pc'[x] \in {"open", "read", "closed"}
    BY <1>1, <1>5 DEF SendMinusOne, StartRead, Close, Goto, PcType
  <2>. QED  BY <1>2, <2>1 DEF Sending
<1>6. CASE SendEvent(x)
  <2>1. /\ pc'[x] = "send" /\ UNCHANGED <<st, taken, nread, call, off>>
        /\ Sending(x) /\ Writable(x)
    BY <1>1, <1>6 DEF SendEvent, Goto, PcType, Sending, kernelVars
  <2>2. st'[x[1]] = "broken" \/ Space(x)' > 0
    BY <2>1 DEF Writable, Space, Unread
  <2>. QED  BY <1>2, <2>1, <2>2
<1>7. CASE ReadEvent(x)
  <2>1. /\ pc'[x] = "reread" /\ UNCHANGED <<st, taken, nread, closed, urgent>>
        /\ Readable(x)
    BY <1>1, <1>7 DEF ReadEvent, Goto, PcType, kernelVars
  <2>2. \/ st'[x[1]] = "broken" \/ Unread(Peer(x))' > 0
        \/ closed'[Peer(x)] \/ urgent'[Peer(x)]
    BY <2>1 DEF Readable, Unread
  <2>. QED  BY <1>2, <2>1, <2>2 DEF Sending
<1>8. CASE Read(x) \/ Reread(x)
  <2>1. pc'[x] \in {"open", "rwait"}
    BY <1>1, <1>8 DEF Read, Reread, ReturnRead, Goto, PcType
  <2>. QED  BY <1>2, <2>1 DEF Sending
<1>. QED  BY <1>3, <1>4, <1>5, <1>6, <1>7, <1>8 DEF EndStep

LEMMA TrafficStep == IInv /\ [Next]_vars => Traffic'
<1> SUFFICES ASSUME IInv, [Next]_vars PROVE Traffic'
  OBVIOUS
<1>1. ASSUME NEW x \in End, EndStep(x) PROVE Traffic'
  <2>1. \A y \in End :
          /\ pc'[y] = "reread" => \/ st'[y[1]] = "broken" \/ Unread(Peer(y))' > 0
                                  \/ closed'[Peer(y)] \/ urgent'[Peer(y)]
          /\ Sending(y)' => call'[y] > 0 /\ off'[y] < MsgLen
          /\ pc'[y] = "send" /\ off'[y] > 0 => st'[y[1]] = "broken" \/ Space(y)' > 0
          /\ Messages(y)'
    BY <1>1, OwnTraffic, OwnMessages, PeersTraffic
  <2>2. Readers'
    BY <2>1 DEF Readers
  <2>3. Senders'
    BY <2>1 DEF Senders
  <2>. QED  BY <2>1, <2>2, <2>3 DEF Traffic
<1>. QED  BY <1>1, OthersTraffic

\* A connection joins the backlog, or none does.
LEMMA BacklogGrows ==
    ASSUME TypeOK, NEW k \in Conn, backlog' = backlog \/ backlog' = Append(backlog, k)
    PROVE  backlog' \in Seq(Conn)
<1>1. backlog \in Seq(Conn)
  BY DEF TypeOK
<1> HIDE DEF TypeOK
<1>. QED  BY <1>1, SMT

\* A new call starts at the first byte of its message.
LEMMA NextMessage ==
    ASSUME TypeOK, NEW x \in End,
           \/ UNCHANGED <<call, off>>
           \/ /\ call[x] < MaxSends /\ call' = [call EXCEPT ![x] = @ + 1]
              /\ off' = [off EXCEPT ![x] = 0]
    PROVE  call' \in [End -> 0..MaxSends] /\ off' \in [End -> 0..MsgLen]
<1>1. call \in [End -> 0..MaxSends] /\ off \in [End -> 0..MsgLen]
  BY DEF TypeOK
<1>2. MaxSends \in Nat /\ MsgLen \in Nat \ {0}
  BY SocketAssumption
<1>. QED  BY <1>1, <1>2

\* What the kernel has to report stays a report for each end.
LEMMA EndSignals ==
  ASSUME TypeOK, NEW x \in End, EndStep(x)
  PROVE  err' \in [End -> BOOLEAN] /\ urgent' \in [End -> BOOLEAN]
<1>1. err \in [End -> BOOLEAN] /\ urgent \in [End -> BOOLEAN]
  BY DEF TypeOK
<1>2. CASE StartSend(x) \/ SendEvent(x) \/ StartRead(x) \/ ReadEvent(x)
  BY <1>1, <1>2 DEF StartSend, SendEvent, StartRead, ReadEvent, kernelVars
<1>3. CASE SendSome(x) \/ SendMinusOne(x) \/ Close(x)
  BY <1>1, <1>3 DEF SendSome, SendMinusOne, Close
<1>4. CASE Read(x) \/ Reread(x)
  <2>1. \E r, n : SysRead(x, r, n)
    BY <1>4 DEF Read, Reread
  <2>. QED  BY <1>1, <2>1 DEF SysRead
<1>. QED  BY <1>2, <1>3, <1>4 DEF EndStep

\* Each variable keeps its range, and the kernel's buffers their size.
LEMMA TypeStep == IInv /\ [Next]_vars => TypeOK'
<1> SUFFICES ASSUME IInv, [Next]_vars PROVE TypeOK'
  OBVIOUS
<1> USE SocketAssumption DEF TypeOK
<1>1. TypeOK
  BY DEF IInv
<1>2. ASSUME NEW k \in Conn, Establish(k) \/ Refuse(k) \/ Break(k) PROVE TypeOK'
  <2>1. UNCHANGED <<taken, nread, closed, urgent, pc, call, off, ret, apc, got>>
    BY <1>2 DEF Establish, Refuse, Break, sendVars, acceptVars
  <2>2. backlog' = backlog \/ backlog' = Append(backlog, k)
    BY <1>2 DEF Establish, Refuse, Break, acceptVars
  <2>3. \E s \in {"open", "refused", "broken"} : st' = [st EXCEPT ![k] = s]
    BY <1>2 DEF Establish, Refuse, Break, Becomes
  <2>4. backlog' \in Seq(Conn)
    BY <1>1, <2>2, BacklogGrows
  <2>5. st' \in [Conn -> {"none", "syn", "refused", "open", "broken"}]
    BY <1>1, <2>3
  <2>6. err' \in [End -> BOOLEAN]
    BY <1>1, <1>2 DEF Establish, Refuse, Break
  <2>. QED  BY <1>1, <2>1, <2>4, <2>5, <2>6
<1>3. ASSUME NEW k \in Conn, ConnectStep(k) PROVE TypeOK'
  <2>1. UNCHANGED <<taken, nread, closed, err, urgent, call, off, ret, apc, got>>
    BY <1>3 DEF ConnectStep, Connect, ConnectEvent, sendVars, kernelVars
  <2>2. pc[Client(k)] = "connect" => st[k] \in {"none", "refused", "open"}
    BY <1>1 DEF IInv, Clients
  <2>3. \/ UNCHANGED st
        \/ \E s \in {"syn", "open", "none"} : st' = [st EXCEPT ![k] = s]
    BY <1>3, <2>2 DEF ConnectStep, Connect, ConnectEvent, Becomes, kernelVars
  <2>4. \E l \in {"connect", "cwait", "open"} : pc' = [pc EXCEPT ![Client(k)] = l]
    BY <1>3, <2>2 DEF ConnectStep, Connect, ConnectEvent, Goto
  <2>5. backlog' = backlog \/ backlog' = Append(backlog, k)
    BY <1>3, <2>2 DEF ConnectStep, Connect, ConnectEvent, kernelVars
  <2>6. backlog' \in Seq(Conn)
    BY <1>1, <2>5, BacklogGrows
  <2>7. st' \in [Conn -> {"none", "syn", "refused", "open", "broken"}]
    BY <1>1, <2>3
  <2>8. pc' \in [End -> {"none", "connect", "cwait", "open", "send", "swait",
                         "read", "rwait", "reread", "closed"}]
    BY <1>1, <2>4
  <2>. QED  BY <1>1, <2>1, <2>6, <2>7, <2>8
<1>4. ASSUME NEW a \in Acceptor, AcceptStep(a) PROVE TypeOK'
  <2>1. UNCHANGED <<st, taken, nread, closed, err, urgent, call, off, ret>>
    BY <1>4 DEF AcceptStep, Accept, AcceptEvent, AcceptAgain, Serve, sendVars, kernelVars
  <2>2. \E l \in {"wait", "again", "accept", "serve"} : apc' = [apc EXCEPT ![a] = l]
    BY <1>4 DEF AcceptStep, Accept, AcceptEvent, AcceptAgain, Serve, TakeConn, AGoto
  <2>3. \/ UNCHANGED <<backlog, got>>
        \/ backlog # <<>> /\ backlog' = Tail(backlog) /\ got' = [got EXCEPT ![a] = Head(backlog)]
        \/ UNCHANGED backlog /\ got' = [got EXCEPT ![a] = NoConn]
    BY <1>4 DEF AcceptStep, Accept, AcceptEvent, AcceptAgain, Serve, TakeConn, kernelVars
  <2>4. \/ UNCHANGED pc
        \/ pc' = [pc EXCEPT ![Server(got[a])] = "open"]
    BY <1>4 DEF AcceptStep, Accept, AcceptEvent, AcceptAgain, Serve, Goto, kernelVars
  <2>5. backlog' \in Seq(Conn) /\ got' \in [Acceptor -> Conn \union {NoConn}]
    <3>1. backlog \in Seq(Conn) /\ got \in [Acceptor -> Conn \union {NoConn}]
      BY <1>1
    <3>2. backlog # <<>> => Head(backlog) \in Conn /\ Tail(backlog) \in Seq(Conn)
      BY <3>1
    <3>. QED  BY <2>3, <3>1, <3>2
  <2>6. apc' \in [Acceptor -> {"accept", "wait", "again", "serve"}]
    BY <1>1, <2>2
  <2>7. pc' \in [End -> {"none", "connect", "cwait", "open", "send", "swait",
                         "read", "rwait", "reread", "closed"}]
    BY <1>1, <2>4
  <2>. QED  BY <1>1, <2>1, <2>5, <2>6, <2>7
<1>5. ASSUME NEW x \in End, EndStep(x) PROVE TypeOK'
  <2>0. Peer(x) \in End /\ x[1] \in Conn /\ Unread(Peer(x)) \in Nat /\ Unread(x) \in Nat
    BY <1>1, TwoEnds, UnreadCount
  <2>1. UNCHANGED <<backlog, apc, got>>
    BY <1>5, EndChanges
  <2>2. /\ st' = st \/ st' = [st EXCEPT ![x[1]] = "broken"]
        /\ closed' = closed \/ closed' = [closed EXCEPT ![x] = TRUE]
    BY <1>5 DEF EndStep, StartSend, SendSome, SendMinusOne, SendEvent, StartRead, Read,
       ReadEvent, Reread, Close, Becomes, kernelVars
  <2>3. \E l \in {"open", "send", "swait", "read", "rwait", "reread", "closed"} :
           pc' = [pc EXCEPT ![x] = l]
    BY <1>5 DEF EndStep, StartSend, SendSome, SendMinusOne, SendEvent, StartRead, Read,
       ReadEvent, Reread, ReturnRead, Close, Goto
  <2>4. st' \in [Conn -> {"none", "syn", "refused", "open", "broken"}]
        /\ closed' \in [End -> BOOLEAN]
    BY <1>1, <2>2
  <2>5. pc' \in [End -> {"none", "connect", "cwait", "open", "send", "swait",
                         "read", "rwait", "reread", "closed"}]
    BY <1>1, <2>3
  <2>6. ret' \in [End -> {"none", "sent", "rest", "data", "eof", "fail", "again"}]
    <3>1. ReadResults(x) \subseteq {"data", "eof", "fail", "again"}
      BY DEF ReadResults
    <3>2. \/ ret' = ret
          \/ \E r \in {"none", "sent", "rest", "data", "eof", "fail", "again"} :
               ret' = [ret EXCEPT ![x] = r]
      <4>1. CASE SendSome(x)
        <5>1. PICK n \in 1..MsgLen - off[x] :
                ret' = [ret EXCEPT ![x] = IF off[x] + n = MsgLen THEN LastCount(x) ELSE @]
          BY <4>1 DEF SendSome
        <5>2. ret[x] \in {"none", "sent", "rest", "data", "eof", "fail", "again"}
          BY <1>1
        <5>. QED  BY <5>1, <5>2 DEF LastCount
      <4>2. CASE Read(x) \/ Reread(x)
        BY <3>1, <4>2 DEF Read, Reread, ReturnRead
      <4>3. CASE ~SendSome(x) /\ ~Read(x) /\ ~Reread(x)
        BY <1>5, <4>3 DEF EndStep, StartSend, SendMinusOne, SendEvent, StartRead, ReadEvent,
           Close, LastCount
      <4>. QED  BY <4>1, <4>2, <4>3
    <3>. QED  BY <1>1, <3>2
  <2>7. err' \in [End -> BOOLEAN] /\ urgent' \in [End -> BOOLEAN]
    BY <1>1, <1>5, EndSignals DEF TypeOK
  <2>8. CASE SendSome(x)
    <3>1. PICK n \in 1..MsgLen - off[x] :
            /\ n <= Space(x)
            /\ taken' = [taken EXCEPT ![x] = Sent(x, n)]
            /\ off' = [off EXCEPT ![x] = off[x] + n]
      BY <2>8 DEF SendSome, Sent
    <3>2. UNCHANGED <<nread, call>> /\ call[x] > 0 /\ off[x] < MsgLen
      BY <2>8 DEF SendSome, IInv, Senders, Sending
    <3>3. /\ off[x] \in Nat /\ MsgLen \in Nat /\ n \in Nat /\ off[x] + n \in 0..MsgLen
          /\ Cap \in Nat
      BY <1>1, <3>1
    <3>4. Sent(x, n) \in Seq(1..MaxSends * MsgLen) /\ Len(Sent(x, n)) = Len(taken[x]) + n
      BY <3>2, PartTaken
    <3>5. taken \in [End -> Seq(1..MaxSends * MsgLen)] /\ off \in [End -> 0..MsgLen]
          /\ nread \in [End -> Nat]
      BY <1>1
    <3>6. taken' \in [End -> Seq(1..MaxSends * MsgLen)] /\ off' \in [End -> 0..MsgLen]
      BY <3>1, <3>3, <3>4, <3>5
    <3>7. ASSUME NEW y \in End
          PROVE  nread'[y] <= Len(taken'[y]) /\ Len(taken'[y]) - nread'[y] <= Cap
      <4>1. nread[y] <= Len(taken[y]) /\ Len(taken[y]) - nread[y] <= Cap
        BY <1>1
      <4>2. CASE y # x
        <5>1. taken'[y] = taken[y] /\ nread'[y] = nread[y]
          BY <3>1, <3>2, <3>5, <4>2
        <5>. QED  BY <4>1, <5>1
      <4>3. CASE y = x
        <5>1. Len(taken'[x]) = Len(taken[x]) + n /\ nread'[x] = nread[x]
          BY <3>1, <3>2, <3>4, <3>5
        <5>2. n <= Cap - (Len(taken[x]) - nread[x])
          BY <3>1 DEF Space, Unread
        <5>3. Len(taken[x]) \in Nat /\ nread[x] \in Nat
          BY <3>5, Elements
        <5>. QED  BY <3>3, <4>1, <4>3, <5>1, <5>2, <5>3
      <4>. QED  BY <4>2, <4>3
    <3>. HIDE DEF TypeOK
    <3>8. call' \in [End -> 0..MaxSends] /\ nread' \in [End -> Nat]
      BY <1>1, <3>2 DEF TypeOK
    <3>. QED  BY <1>1, <2>1, <2>4, <2>5, <2>6, <2>7, <3>6, <3>7, <3>8 DEF TypeOK
  <2>9. CASE Read(x) \/ Reread(x)
    <3>1. UNCHANGED <<taken, call, off>>
      BY <2>9 DEF Read, Reread, sendVars
    <3>2. \/ UNCHANGED nread
          \/ \E n \in 0..Unread(Peer(x)) : nread' = [nread EXCEPT ![Peer(x)] = @ + n]
      BY <2>9 DEF Read, Reread, SysRead
    <3>3. nread \in [End -> Nat] /\ \A y \in End : Len(taken[y]) \in Nat
      BY <1>1
    <3>4. nread' \in [End -> Nat]
      BY <2>0, <3>2, <3>3
    <3>5. ASSUME NEW y \in End
          PROVE  nread'[y] <= Len(taken'[y]) /\ Len(taken'[y]) - nread'[y] <= Cap
      <4>1. nread[y] <= Len(taken[y]) /\ Len(taken[y]) - nread[y] <= Cap
        BY <1>1
      <4>2. CASE nread'[y] = nread[y]
        BY <3>1, <4>1, <4>2
      <4>3. CASE nread'[y] # nread[y]
        <5>1. y = Peer(x) /\ \E n \in 0..Unread(y) : nread'[y] = nread[y] + n
          BY <3>2, <3>3, <4>3
        <5>2. PICK n \in 0..Len(taken[y]) - nread[y] : nread'[y] = nread[y] + n
          BY <5>1 DEF Unread
        <5>3. Len(taken[y]) \in Nat /\ nread[y] \in Nat /\ Cap \in Nat
          BY <3>3
        <5>. QED  BY <3>1, <4>1, <5>2, <5>3
      <4>. QED  BY <4>2, <4>3
    <3>. QED  BY <1>1, <2>1, <2>4, <2>5, <2>6, <2>7, <3>1, <3>4, <3>5
  <2>10. CASE ~SendSome(x) /\ ~Read(x) /\ ~Reread(x)
    <3>1. UNCHANGED <<taken, nread>>
      BY <1>5, <2>10 DEF EndStep, StartSend, SendMinusOne, SendEvent, StartRead, ReadEvent,
         Close, kernelVars, sendVars
    <3>2. \/ UNCHANGED <<call, off>>
          \/ /\ call[x] < MaxSends /\ call' = [call EXCEPT ![x] = @ + 1]
             /\ off' = [off EXCEPT ![x] = 0]
      BY <1>5, <2>10 DEF EndStep, StartSend, SendMinusOne, SendEvent, StartRead, ReadEvent,
         Close, sendVars
    <3>3. call' \in [End -> 0..MaxSends] /\ off' \in [End -> 0..MsgLen]
      BY <1>1, <3>2, NextMessage
    <3>. QED  BY <1>1, <2>1, <2>4, <2>5, <2>6, <2>7, <3>1, <3>3
  <2>. QED  BY <2>8, <2>9, <2>10
<1>6. ASSUME NEW x \in End, SendUrgent(x) PROVE TypeOK'
  BY <1>1, <1>6 DEF SendUrgent, sendVars
<1>7. CASE UNCHANGED vars
  BY <1>1, <1>7 DEF vars
<1>. QED  BY <1>2, <1>3, <1>4, <1>5, <1>6, <1>7 DEF Next

-----------------------------------------------------------------------------
\* The inductive invariant holds in every reachable state.
THEOREM SocketInvariance == Spec => []IInv
<1>1. IInv /\ [Next]_vars => IInv'
  BY TypeStep, ConnectionsStep, TrafficStep DEF IInv, Connections, Traffic
<1>. QED  BY InitIInv, <1>1, PTL DEF Spec

\* TypeOK for every instance; the kernel never buffers more than it can.
THEOREM SocketTypeCorrect == Spec => []TypeOK
<1>1. IInv => TypeOK
  BY DEF IInv
<1>. QED  BY SocketInvariance, <1>1, PTL

\* What connect and accept return is connected, and given to one acceptor only
\* (socket.cc:133-144, 160-176).
THEOREM ReturnedIsConnected == Spec => []ConnectedWhenReturned
<1>1. IInv => ConnectedWhenReturned
  BY DEF IInv, Clients, Accepted, ConnectedWhenReturned
<1>. QED  BY SocketInvariance, <1>1, PTL

\* Only the second try returns what makes -1: "again" of an urgent byte, which
\* the call gets past, and "fail" of a broken connection.
LEMMA MinusOneStep ==
  ASSUME IInv, Next, NEW x \in End
  PROVE  /\ ret[x] # "again" /\ ret'[x] = "again" =>
              urgent[Peer(x)] /\ ~urgent'[Peer(x)]
         /\ ret[x] # "fail" /\ ret'[x] = "fail" => st[x[1]] = "broken"
<1>1. /\ ret \in [End -> {"none", "sent", "rest", "data", "eof", "fail", "again"}]
      /\ urgent \in [End -> BOOLEAN] /\ Peer(x) \in End
  BY TwoEnds DEF IInv, TypeOK
<1>2. CASE \E y \in End : EndStep(y) /\ ~Reread(y)
  <2>1. PICK y \in End : EndStep(y) /\ ~Reread(y)
    BY <1>2
  <2>2. CASE y # x
    BY <2>1, <2>2, EndChanges
  <2>3. CASE y = x
    <3>1. ret'[x] = ret[x] \/ ret'[x] \notin {"again", "fail"}
      BY <1>1, <2>1, <2>3 DEF EndStep, StartSend, SendSome, SendMinusOne, SendEvent,
         StartRead, Read, ReturnRead, ReadEvent, Close, LastCount
    <3>. QED  BY <3>1
  <2>. QED  BY <2>2, <2>3
<1>3. CASE \E y \in End : Reread(y)
  <2>1. PICK y \in End : Reread(y)
    BY <1>3
  <2>2. CASE y # x
    BY <2>1, <2>2, EndChanges DEF EndStep
  <2>3. CASE y = x
    <3>1. PICK r \in ReadResults(x), n \in 0..Unread(Peer(x)) :
            SysRead(x, r, n) /\ ReturnRead(x, r)
      BY <2>1, <2>3 DEF Reread
    <3>2. ret'[x] = r
      BY <1>1, <3>1 DEF ReturnRead
    <3>3. r = "fail" => st[x[1]] = "broken"
      BY <3>1 DEF ReadResults
    <3>4. ASSUME r = "again" PROVE urgent[Peer(x)] /\ ~urgent'[Peer(x)]
      <4>1. st[x[1]] # "broken" /\ ~(Unread(Peer(x)) > 0) /\ ~closed[Peer(x)]
        BY <3>1, <3>4 DEF ReadResults
      <4>2. urgent[Peer(x)]
        BY <2>1, <2>3, <4>1 DEF Reread, IInv, Readers
      <4>3. urgent' = [urgent EXCEPT ![Peer(x)] = FALSE]
        BY <3>1, <3>4 DEF SysRead
      <4>. QED  BY <1>1, <4>2, <4>3
    <3>. QED  BY <3>2, <3>3, <3>4
  <2>. QED  BY <2>2, <2>3
<1>4. CASE \A y \in End : ~EndStep(y)
  <2>1. UNCHANGED ret
    BY <1>4 DEF Next, Establish, Refuse, Break, ConnectStep, Connect, ConnectEvent,
       AcceptStep, Accept, AcceptEvent, AcceptAgain, Serve, SendUrgent
  <2>. QED  BY <2>1
<1>. QED  BY <1>2, <1>3, <1>4

\* read returns -1 on a connection that is in order only for an urgent byte, at
\* most once for each, and reports an error only of a broken one, whoever reads
\* and whatever the others do between its event and its second try
\* (socket.cc:147-158).
THEOREM MinusOneOnlyForACause == Spec => MinusOneHasACause
<1>1. IInv /\ [Next]_vars =>
        [\A x \in End :
           /\ ret[x] # "again" /\ ret'[x] = "again" =>
                urgent[Peer(x)] /\ ~urgent'[Peer(x)]
           /\ ret[x] # "fail" /\ ret'[x] = "fail" => st[x[1]] = "broken"]_vars
  BY MinusOneStep
<1>. QED  BY SocketInvariance, <1>1, PTL DEF Spec, MinusOneHasACause

\* Whatever the sizes, the kernel is handed whole messages, in order, once, or
\* the beginning of the one under way (socket.cc:179-188).
THEOREM OnlyWholeMessages == Spec => []WholeMessages
<1>1. ASSUME IInv, NEW x \in End, st[x[1]] # "broken"
      PROVE  /\ \A i, j \in DOMAIN taken[x] : i < j => taken[x][i] < taken[x][j]
             /\ \A c \in 1..call[x], i \in 1..MsgLen :
                  Holds(x, (c - 1) * MsgLen + i) =>
                    \A j \in 1..MsgLen :
                      \/ Holds(x, (c - 1) * MsgLen + j)
                      \/ c = call[x] /\ Sending(x) /\ j > off[x]
  <2>1. /\ Increasing(x)
        /\ \A c \in 1..call[x] : IF c = call[x] /\ Sending(x) THEN Begun(x) ELSE Whole(x, c)
    BY <1>1 DEF IInv, Messages
  <2>2. off[x] \in Nat
    BY <1>1, SocketAssumption DEF IInv, TypeOK
  <2>3. ASSUME NEW c \in 1..call[x], NEW i \in 1..MsgLen, Holds(x, Byte(c, i)),
               NEW j \in 1..MsgLen
        PROVE  Holds(x, Byte(c, j)) \/ (c = call[x] /\ Sending(x) /\ j > off[x])
    <3>1. CASE c = call[x] /\ Sending(x)
      <4>1. Holds(x, Byte(c, j)) <=> j <= off[x]
        BY <2>1, <3>1 DEF Begun
      <4>2. j <= off[x] \/ j > off[x]
        BY <2>2
      <4>. QED  BY <3>1, <4>1, <4>2
    <3>2. CASE ~(c = call[x] /\ Sending(x))
      BY <2>1, <2>3, <3>2 DEF Whole
    <3>. QED  BY <3>1, <3>2
  <2>. QED  BY <2>1, <2>3 DEF Increasing, Byte
<1>2. IInv => WholeMessages
  BY <1>1 DEF WholeMessages
<1>. QED  BY SocketInvariance, <1>2, PTL
=============================================================================
