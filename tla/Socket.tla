-------------------------------- MODULE Socket --------------------------------
(***************************************************************************)
(* Socket (socket.cc): connect, accept, send and read on non-blocking      *)
(* files, which look blocking to the coroutine that calls them: a call     *)
(* that the kernel cannot serve yet waits for an event with waitEvent and  *)
(* is tried again, each call in a way of its own.                          *)
(*                                                                         *)
(* Both ends of a connection use the library.  Each end belongs to one     *)
(* coroutine, as in client.cc and server.cc; several coroutines on         *)
(* different processors accept from one listening socket.  Between an      *)
(* event and the retry everybody else goes on.                             *)
(*                                                                         *)
(* The kernel is external: a handshake that may be refused, a bounded      *)
(* buffer for each direction, a connection that may break, urgent data.    *)
(* Its calls do not block, so no signal interrupts them and EINTR is left  *)
(* out.                                                                    *)
(***************************************************************************)
EXTENDS Integers, Sequences

CONSTANTS Conn,     \* connections, one for each client
          Acceptor, \* the coroutines that call accept
          MaxSends, \* how often an end calls send
          MsgLen,   \* the count of each send, in units the kernel may split
          Cap,      \* how much the kernel buffers in each direction
          Urgent,   \* the ends at which the program sends urgent data
          NoConn    \* a Socket whose isUseful() is false

ASSUME SocketAssumption ==
    /\ MaxSends \in Nat /\ MsgLen \in Nat \ {0} /\ Cap \in Nat \ {0}
    /\ Urgent \subseteq {"client", "server"}
    /\ NoConn \notin Conn

End == Conn \X {"client", "server"}

Client(k) == <<k, "client">>
Server(k) == <<k, "server">>
Peer(x) == IF x[2] = "client" THEN Server(x[1]) ELSE Client(x[1])

VARIABLES
    st,      \* st[k]: the connection in the kernel
    backlog, \* established connections that nobody has accepted
    taken,   \* taken[x]: all that the kernel has taken from x, in order
    nread,   \* nread[x]: how much of it x's peer has read
    closed,  \* closed[x]: x has closed its file
    err,     \* err[x]: no call has reported the reset to x yet
    urgent,  \* urgent[x]: x's peer has not got past an urgent byte of x
    pc,      \* pc[x]: where the coroutine of x is
    call,    \* call[x]: how often x has called send
    off,     \* off[x]: how much of the current send the kernel has taken
    ret,     \* ret[x]: what the last call returned
    apc,     \* where each acceptor is
    got      \* got[a]: the Socket that a's accept has returned

kernelVars == <<st, backlog, taken, nread, closed, err, urgent>>
sendVars   == <<taken, call, off>>
acceptVars == <<backlog, apc, got>>
vars       == <<st, backlog, taken, nread, closed, err, urgent, pc, call, off,
                ret, apc, got>>

TypeOK ==
    /\ st \in [Conn -> {"none", "syn", "refused", "open", "broken"}]
    /\ backlog \in Seq(Conn)
    /\ taken \in [End -> Seq(1..MaxSends * MsgLen)]
    /\ nread \in [End -> Nat]
    /\ closed \in [End -> BOOLEAN]
    /\ err \in [End -> BOOLEAN]
    /\ urgent \in [End -> BOOLEAN]
    /\ pc \in [End -> {"none", "connect", "cwait", "open", "send", "swait",
                       "read", "rwait", "reread", "closed"}]
    /\ call \in [End -> 0..MaxSends]
    /\ off \in [End -> 0..MsgLen]
    /\ ret \in [End -> {"none", "sent", "rest", "data", "eof", "fail", "again"}]
    /\ apc \in [Acceptor -> {"accept", "wait", "again", "serve"}]
    /\ got \in [Acceptor -> Conn \union {NoConn}]
    /\ \A x \in End : nread[x] <= Len(taken[x]) /\ Len(taken[x]) - nread[x] <= Cap

Init ==
    /\ st = [k \in Conn |-> "none"]
    /\ backlog = <<>>
    /\ taken = [x \in End |-> <<>>]
    /\ nread = [x \in End |-> 0]
    /\ closed = [x \in End |-> FALSE]
    /\ err = [x \in End |-> FALSE]
    /\ urgent = [x \in End |-> FALSE]
    /\ pc = [x \in End |-> IF x[2] = "client" THEN "connect" ELSE "none"]
    /\ call = [x \in End |-> 0]
    /\ off = [x \in End |-> 0]
    /\ ret = [x \in End |-> "none"]
    /\ apc = [a \in Acceptor |-> "accept"]
    /\ got = [a \in Acceptor |-> NoConn]

Goto(x, l) == pc' = [pc EXCEPT ![x] = l]
AGoto(a, l) == apc' = [apc EXCEPT ![a] = l]
Becomes(k, s) == st' = [st EXCEPT ![k] = s]

-----------------------------------------------------------------------------
(* The kernel.                                                             *)

Establish(k) ==
    /\ st[k] = "syn"
    /\ Becomes(k, "open")
    /\ backlog' = Append(backlog, k)
    /\ UNCHANGED <<sendVars, nread, closed, err, urgent, pc, ret, apc, got>>

Refuse(k) ==
    /\ st[k] = "syn"
    /\ Becomes(k, "refused")
    /\ UNCHANGED <<sendVars, nread, closed, err, urgent, pc, ret, acceptVars>>

\* A reset, after connect has returned.
Break(k) ==
    /\ st[k] = "open"
    /\ pc[Client(k)] \notin {"connect", "cwait"}
    /\ Becomes(k, "broken")
    /\ err' = [x \in End |-> err[x] \/ x[1] = k]
    /\ UNCHANGED <<sendVars, nread, closed, urgent, pc, ret, acceptVars>>

\* A program sends an urgent byte, past Socket and one at a time.
SendUrgent(x) ==
    /\ pc[x] = "open"
    /\ st[x[1]] = "open"
    /\ x[2] \in Urgent
    /\ ~urgent[x]
    /\ urgent' = [urgent EXCEPT ![x] = TRUE]
    /\ UNCHANGED <<st, backlog, sendVars, nread, closed, err, pc, ret, apc, got>>

Unread(x) == Len(taken[x]) - nread[x]
Space(x)  == Cap - Unread(x)

\* EPOLLOUT, or an error.
Writable(x) == st[x[1]] = "broken" \/ Space(x) > 0

\* Mutant: read waits for EPOLLOUT too.
ReadableOrWritable(x) ==
    \/ st[x[1]] = "broken"
    \/ Unread(Peer(x)) > 0
    \/ closed[Peer(x)]
    \/ urgent[Peer(x)]
    \/ Space(x) > 0

\* EPOLLIN | EPOLLPRI | EPOLLRDHUP | EPOLLHUP.
Readable(x) ==
    \/ st[x[1]] = "broken"
    \/ Unread(Peer(x)) > 0
    \/ closed[Peer(x)]
    \/ urgent[Peer(x)]

\* What ::read may return: a count, 0, -1 with an error or -1 with EAGAIN.
\* After a reset what has arrived may still be read; the error is reported
\* once, unless the peer had closed before, and then 0 is returned.
ReadResults(x) ==
    IF st[x[1]] = "broken"
    THEN      {r \in {"data"} : Unread(Peer(x)) > 0}
       \union {r \in {"fail"} : err[x]}
       \union {r \in {"eof"} : err[x] => closed[Peer(x)]}
    ELSE IF Unread(Peer(x)) > 0 THEN {"data"}
    ELSE IF closed[Peer(x)] THEN {"eof"} ELSE {"again"}

\* ::read returns r and n units.  It gets past an urgent byte, which it does
\* not return, unless it stops at it with what came before.
SysRead(x, r, n) ==
    /\ n > 0 <=> r = "data"
    /\ nread' = [nread EXCEPT ![Peer(x)] = @ + n]
    /\ err' = IF r = "fail" THEN [err EXCEPT ![x] = FALSE] ELSE err
    /\ \/ urgent' = [urgent EXCEPT ![Peer(x)] = FALSE]
       \/ r = "data" /\ UNCHANGED urgent

-----------------------------------------------------------------------------
(* connect: until ::connect returns 0.                                     *)

Connect(k) ==
    /\ pc[Client(k)] = "connect"
    /\ CASE st[k] = "none" ->
              \/ /\ Becomes(k, "syn")
                 /\ Goto(Client(k), "cwait")
                 /\ UNCHANGED backlog
              \/ /\ Becomes(k, "open")
                 /\ Goto(Client(k), "open")
                 /\ backlog' = Append(backlog, k)
         [] st[k] = "refused" ->
              /\ Becomes(k, "none")
              /\ Goto(Client(k), "cwait")
              /\ UNCHANGED backlog
         [] st[k] = "open" ->
              /\ Goto(Client(k), "open")
              /\ UNCHANGED <<st, backlog>>
    /\ UNCHANGED <<sendVars, nread, closed, err, urgent, ret, apc, got>>

\* Mutant: connect is not called again.
WaitAgain(k) ==
    /\ pc[Client(k)] = "cwait"
    /\ st[k] # "syn"
    /\ Goto(Client(k), "cwait")
    /\ UNCHANGED <<kernelVars, call, off, ret, apc, got>>

\* EPOLLOUT, or EPOLLHUP of a socket that is not connected.
ConnectEvent(k) ==
    /\ pc[Client(k)] = "cwait"
    /\ st[k] # "syn"
    /\ Goto(Client(k), "connect")
    /\ UNCHANGED <<kernelVars, call, off, ret, apc, got>>

-----------------------------------------------------------------------------
(* accept: until accept_raw returns a useful Socket.                       *)

TakeConn(a) ==
    /\ got' = [got EXCEPT ![a] = Head(backlog)]
    /\ backlog' = Tail(backlog)
    /\ AGoto(a, "serve")

Accept(a) ==
    /\ apc[a] = "accept"
    /\ IF backlog = <<>>
       THEN AGoto(a, "wait") /\ UNCHANGED <<got, backlog>>
       ELSE TakeConn(a)
    /\ UNCHANGED <<st, sendVars, nread, closed, err, urgent, pc, ret>>

AcceptEvent(a) ==
    /\ apc[a] = "wait"
    /\ backlog # <<>>
    /\ AGoto(a, "again")
    /\ UNCHANGED <<kernelVars, pc, call, off, ret, got>>

\* Mutant: the second accept_raw's Socket is returned, useful or not.
AcceptAnyway(a) ==
    /\ apc[a] = "again"
    /\ IF backlog = <<>>
       THEN AGoto(a, "serve") /\ UNCHANGED <<got, backlog>>
       ELSE TakeConn(a)
    /\ UNCHANGED <<st, sendVars, nread, closed, err, urgent, pc, ret>>

\* Mutant: accept is started over without a look at what was accepted.
AcceptAndForget(a) ==
    /\ apc[a] = "again"
    /\ AGoto(a, "accept")
    /\ backlog' = IF backlog = <<>> THEN <<>> ELSE Tail(backlog)
    /\ UNCHANGED <<st, sendVars, nread, closed, err, urgent, pc, ret, got>>

AcceptAgain(a) ==
    /\ apc[a] = "again"
    /\ IF backlog = <<>>
       THEN AGoto(a, "accept") /\ UNCHANGED <<got, backlog>>
       ELSE TakeConn(a)
    /\ UNCHANGED <<st, sendVars, nread, closed, err, urgent, pc, ret>>

\* A coroutine is created for the connection, and accept called again.
Serve(a) ==
    /\ apc[a] = "serve"
    /\ Goto(Server(got[a]), "open")
    /\ got' = [got EXCEPT ![a] = NoConn]
    /\ AGoto(a, "accept")
    /\ UNCHANGED <<kernelVars, call, off, ret>>

-----------------------------------------------------------------------------
(* send: until the kernel has taken everything.                            *)

StartSend(x) ==
    /\ pc[x] = "open"
    /\ call[x] < MaxSends
    /\ call' = [call EXCEPT ![x] = @ + 1]
    /\ off' = [off EXCEPT ![x] = 0]
    /\ ret' = [ret EXCEPT ![x] = "none"]
    /\ Goto(x, "send")
    /\ UNCHANGED <<kernelVars, apc, got>>

\* The part of x's current message from offset i on, n long.
Part(x, i, n) == [j \in 1..n |-> (call[x] - 1) * MsgLen + i + j]

\* send returns the count of its last call of itself, which is called for what
\* is left.
LastCount(x) == IF off[x] = 0 THEN "sent" ELSE "rest"

\* Mutant: the rest is sent with the whole count.
SendTooMuch(x) ==
    /\ pc[x] = "send"
    /\ st[x[1]] = "open"
    /\ \E n \in 1..MsgLen :
         /\ n <= Space(x)
         /\ taken' = [taken EXCEPT ![x] = @ \o Part(x, off[x], n)]
         /\ off' = [off EXCEPT ![x] = @ + n]
         /\ Goto(x, IF n = MsgLen THEN "open" ELSE "swait")
         /\ ret' = [ret EXCEPT ![x] = IF n = MsgLen THEN LastCount(x) ELSE @]
    /\ UNCHANGED <<st, nread, closed, err, urgent, call, acceptVars>>

\* ::send takes some of it; when it was not all, waitEvent comes next.
SendSome(x) ==
    /\ pc[x] = "send"
    /\ st[x[1]] = "open"
    /\ \E n \in 1..MsgLen - off[x] :
         /\ n <= Space(x)
         /\ taken' = [taken EXCEPT ![x] = @ \o Part(x, off[x], n)]
         /\ off' = [off EXCEPT ![x] = @ + n]
         /\ Goto(x, IF off[x] + n = MsgLen THEN "open" ELSE "swait")
         /\ ret' = [ret EXCEPT ![x] = IF off[x] + n = MsgLen THEN LastCount(x) ELSE @]
    /\ UNCHANGED <<st, nread, closed, err, urgent, call, acceptVars>>

\* ::send returns -1, for a full buffer or an error, which is then reported:
\* as a size_t that is no less than count, and send returns count.
SendMinusOne(x) ==
    /\ pc[x] = "send"
    /\ st[x[1]] = "broken" \/ Space(x) = 0
    /\ err' = [err EXCEPT ![x] = FALSE]
    /\ ret' = [ret EXCEPT ![x] = LastCount(x)]
    /\ Goto(x, "open")
    /\ UNCHANGED <<st, sendVars, nread, closed, urgent, acceptVars>>

\* Mutant: send is tried again at once.
SendEventAnyway(x) ==
    /\ pc[x] = "swait"
    /\ Goto(x, "send")
    /\ UNCHANGED <<kernelVars, call, off, ret, apc, got>>

SendEvent(x) ==
    /\ pc[x] = "swait"
    /\ Writable(x)
    /\ Goto(x, "send")
    /\ UNCHANGED <<kernelVars, call, off, ret, apc, got>>

-----------------------------------------------------------------------------
(* read: a count or 0 at once or, after one event, whatever ::read returns  *)
(* then.                                                                   *)

StartRead(x) ==
    /\ pc[x] = "open"
    /\ ret' = [ret EXCEPT ![x] = "none"]
    /\ Goto(x, "read")
    /\ UNCHANGED <<kernelVars, call, off, apc, got>>

ReturnRead(x, r) ==
    /\ ret' = [ret EXCEPT ![x] = r]
    /\ Goto(x, "open")

\* An error is treated like EAGAIN, and is forgotten.
Read(x) ==
    /\ pc[x] = "read"
    /\ \E r \in ReadResults(x), n \in 0..Unread(Peer(x)) :
         /\ SysRead(x, r, n)
         /\ IF r \in {"again", "fail"}
            THEN Goto(x, "rwait") /\ UNCHANGED ret
            ELSE ReturnRead(x, r)
    /\ UNCHANGED <<st, closed, sendVars, acceptVars>>

ReadEvent(x) ==
    /\ pc[x] = "rwait"
    /\ Readable(x)
    /\ Goto(x, "reread")
    /\ UNCHANGED <<kernelVars, call, off, ret, apc, got>>

Reread(x) ==
    /\ pc[x] = "reread"
    /\ \E r \in ReadResults(x), n \in 0..Unread(Peer(x)) :
         SysRead(x, r, n) /\ ReturnRead(x, r)
    /\ UNCHANGED <<st, closed, sendVars, acceptVars>>

\* ~Socket of the only copy.  What was not read makes the kernel reset.
Close(x) ==
    /\ pc[x] = "open"
    /\ closed' = [closed EXCEPT ![x] = TRUE]
    /\ IF st[x[1]] = "open" /\ Unread(Peer(x)) > 0
       THEN Becomes(x[1], "broken") /\ err' = [err EXCEPT ![Peer(x)] = TRUE]
       ELSE UNCHANGED <<st, err>>
    /\ Goto(x, "closed")
    /\ UNCHANGED <<sendVars, nread, urgent, ret, acceptVars>>

-----------------------------------------------------------------------------
ConnectStep(k) == Connect(k) \/ ConnectEvent(k)

AcceptStep(a) == Accept(a) \/ AcceptEvent(a) \/ AcceptAgain(a) \/ Serve(a)

EndStep(x) ==
    \/ StartSend(x) \/ SendSome(x) \/ SendMinusOne(x) \/ SendEvent(x)
    \/ StartRead(x) \/ Read(x) \/ ReadEvent(x) \/ Reread(x)
    \/ Close(x)

Next ==
    \/ \E k \in Conn : Establish(k) \/ Refuse(k) \/ Break(k) \/ ConnectStep(k)
    \/ \E a \in Acceptor : AcceptStep(a)
    \/ \E x \in End : EndStep(x) \/ SendUrgent(x)

Spec == Init /\ [][Next]_vars

\* Processors resume whose event has come; who tries to connect again and
\* again is accepted by the peer's kernel in the end.
FairSpec ==
    /\ Spec
    /\ \A k \in Conn : WF_vars(ConnectStep(k)) /\ SF_vars(Establish(k))
    /\ \A a \in Acceptor : WF_vars(AcceptStep(a))

-----------------------------------------------------------------------------
(* Properties.                                                             *)

Connected(k) == st[k] \in {"open", "broken"}

\* A socket that connect or accept has returned is, or was, connected, and no
\* two acceptors are given the same one: neither an event that announces a
\* failure nor one whose connection another acceptor took passes for success
\* (socket.cc:133-144, 160-176).
ConnectedWhenReturned ==
    /\ \A k \in Conn : pc[Client(k)] \notin {"connect", "cwait"} => Connected(k)
    /\ \A a \in Acceptor : apc[a] = "serve" => got[a] # NoConn /\ Connected(got[a])
    /\ \A a, b \in Acceptor : got[a] = got[b] /\ got[a] # NoConn => a = b

Sending(x) == pc[x] \in {"send", "swait"}

Holds(x, m) == \E i \in DOMAIN taken[x] : taken[x][i] = m

\* What the kernel takes on a connection that is not broken is whole messages
\* in the order of the calls, nothing twice, and of the call under way a
\* beginning: however the kernel splits a message, send goes on where it
\* stopped, and the one case in which it drops bytes drops a whole message
\* (socket.cc:179-188).
WholeMessages ==
    \A x \in End : st[x[1]] # "broken" =>
        /\ \A i, j \in DOMAIN taken[x] : i < j => taken[x][i] < taken[x][j]
        /\ \A c \in 1..call[x], i \in 1..MsgLen :
             Holds(x, (c - 1) * MsgLen + i) =>
               \A j \in 1..MsgLen :
                 \/ Holds(x, (c - 1) * MsgLen + j)
                 \/ c = call[x] /\ Sending(x) /\ j > off[x]

\* read tries only once more after its event, whatever the event was, and
\* returns -1 if that fails.  While nothing is wrong with the connection it does
\* so only for an urgent byte of the peer, which is an event with nothing to
\* read, and at most once for each: no other event is gone when its reader
\* comes to read.  And read reports an error only of a connection that has
\* broken (socket.cc:147-158).
MinusOneHasACause ==
    [][\A x \in End :
         /\ ret[x] # "again" /\ ret'[x] = "again" =>
              urgent[Peer(x)] /\ ~urgent'[Peer(x)]
         /\ ret[x] # "fail" /\ ret'[x] = "fail" => st[x[1]] = "broken"]_vars

\* Whoever calls connect is connected in the end, after refusals too
\* (socket.cc:160-176).
ConnectReturns ==
    \A k \in Conn : pc[Client(k)] = "connect" ~> pc[Client(k)] = "open"

\* Every connection is accepted, although all acceptors wake up for one and
\* all but one of them go back to sleep (socket.cc:99-144).
EveryoneServed ==
    \A k \in Conn : Connected(k) ~> pc[Server(k)] # "none"

\* "If the file cannot be written now, its event is added to epoll and the
\* coroutine waits until it is resumed" (server/QA.md:57): so that when send
\* has returned count, the kernel has taken count bytes.  Not what the code
\* does: -1 becomes the largest size_t, and the message is dropped.
SendTakesAll ==
    \A x \in End : ret[x] = "sent" /\ st[x[1]] # "broken" => off[x] = MsgLen
===============================================================================
