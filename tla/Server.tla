-------------------------------- MODULE Server --------------------------------
(***************************************************************************)
(* The server and the client of the repository at work: server.cc with one *)
(* acceptor (single_acceptor_server_test) or with one for each processor   *)
(* (multi_acceptor_server_test), client.cc, and what they use of Socket    *)
(* and Epoller: who owns a Socket object and its count, which file has a   *)
(* descriptor, whose registration it has, and how many events one          *)
(* epoll_wait reports.                                                     *)
(*                                                                         *)
(* A connection is named for its client.  Descriptors are few and are used *)
(* again; without a free one accept fails although connections wait.  The  *)
(* coroutine of an acceptor is named for its processor.  A processor runs  *)
(* one coroutine at a time until it waits; in a pass of its loop it        *)
(* resumes, in any order, whom epoll_wait reported, whose sleep is over    *)
(* and who is new (Processor has the order).  The buffers of a connection  *)
(* are in Socket: here they hold what these programs send.  A client may   *)
(* be killed, as webbench's are.                                           *)
(***************************************************************************)
EXTENDS Integers, FiniteSets

CONSTANTS Client,    \* the clients, and their connections
          Proc,      \* the server's processors
          Acceptor,  \* the processors on which an acceptor is created
          MaxFd,     \* the descriptors that accept may use are 1..MaxFd
          FirstSize, \* parameter::epollerListFirstSize
          Rounds,    \* how many exchanges a client wants
          None       \* no client, no coroutine

ASSUME ServerAssumption ==
    /\ IsFiniteSet(Client) /\ Acceptor \subseteq Proc
    /\ Client \intersect Proc = {} /\ None \notin Client \union Proc
    /\ MaxFd \in Nat /\ FirstSize \in Nat \ {0} /\ Rounds \in Nat \ {0}

Fd == 1..MaxFd

VARIABLES
    running, \* running[p]: the coroutine that p runs, None in its loop
    polling, \* polling[p]: p is in epoll_wait
    active,  \* actCoroutines_ of each processor
    slots,   \* activeEpollEvents_.size() of each processor
    reg,     \* reg[n]: the coroutine that epoll has for descriptor n
    file,    \* file[n]: the connection that is open as descriptor n
    backlog, \* backlog[a]: the connections that wait for accept
    inbox,   \* inbox[k]: messages of k that the server has not read
    answer,  \* answer[k]: what has become of the answer to k
    fd,      \* fd[k]: _sockfd of the Socket of connection k, 0 before
    ref,     \* ref[k]: the count that its copies share
    apc,     \* where each acceptor is
    got,     \* got[a]: the connection that a has accepted
    spc,     \* where the coroutine of each connection is
    on,      \* on[k]: its processor
    times,   \* the server's times
    cpc,     \* where the client's coroutine is
    left     \* left[k]: the exchanges still to come

loopVars   == <<running, polling, active, slots>>
kernelVars == <<reg, file, backlog, inbox, answer>>
objectVars == <<fd, ref>>
acceptVars == <<apc, got>>
serveVars  == <<spc, on, times>>
serverVars == <<loopVars, objectVars, acceptVars, serveVars>>
clientVars == <<cpc, left>>
vars       == <<serverVars, kernelVars, clientVars>>

TypeOK ==
    /\ running \in [Proc -> Client \union Proc \union {None}]
    /\ polling \in [Proc -> BOOLEAN]
    /\ active \in [Proc -> SUBSET (Client \union Proc)]
    /\ slots \in [Proc -> Nat \ {0}]
    /\ reg \in [Fd -> Client \union {None}] /\ file \in [Fd -> Client \union {None}]
    /\ backlog \in [Acceptor -> SUBSET Client]
    /\ inbox \in [Client -> 0..Rounds]
    /\ answer \in [Client -> {"none", "sent", "arrived", "read", "lost"}]
    /\ fd \in [Client -> Fd \union {0}] /\ ref \in [Client -> 0..2]
    /\ apc \in [Acceptor -> {"setup", "raw", "wait", "raw2", "copy", "drop", "count",
                             "go", "ended"}]
    /\ got \in [Acceptor -> Client \union {None}]
    /\ spc \in [Client -> {"none", "new", "read", "rwait", "reread", "send", "sleep",
                           "due", "delete", "uncount", "ended"}]
    /\ on \in [Client -> Proc \union {None}]
    /\ times \in Int
    /\ cpc \in [Client -> {"connect", "send", "read", "close", "ended", "killed"}]
    /\ left \in [Client -> 0..Rounds]

Init ==
    /\ running = [p \in Proc |-> None] /\ polling = [p \in Proc |-> TRUE]
    /\ active = [p \in Proc |-> {}] /\ slots = [p \in Proc |-> FirstSize]
    /\ reg = [n \in Fd |-> None] /\ file = [n \in Fd |-> None]
    /\ backlog = [a \in Acceptor |-> {}]
    /\ inbox = [k \in Client |-> 0] /\ answer = [k \in Client |-> "none"]
    /\ fd = [k \in Client |-> 0] /\ ref = [k \in Client |-> 0]
    /\ apc = [a \in Acceptor |-> "setup"] /\ got = [a \in Acceptor |-> None]
    /\ spc = [k \in Client |-> "none"] /\ on = [k \in Client |-> None]
    /\ times = 0
    /\ cpc = [k \in Client |-> "connect"] /\ left = [k \in Client |-> Rounds]

AGoto(a, l) == apc' = [apc EXCEPT ![a] = l]
Goto(k, l)  == spc' = [spc EXCEPT ![k] = l]
CGoto(k, l) == cpc' = [cpc EXCEPT ![k] = l]
Run(p, co)  == running' = [running EXCEPT ![p] = co]

ClientClosed(k) == cpc[k] \in {"ended", "killed"}
ServerClosed(k) == fd[k] # 0 /\ file[fd[k]] # k

-----------------------------------------------------------------------------
(* The Socket object.                                                      *)

\* Mutant: a copy shares the descriptor but is not counted.
CopyUncounted(k) == ref' = ref

CopySocket(k) == ref' = [ref EXCEPT ![k] = @ + 1]

\* close: the registration goes with the file, and an answer that has not
\* left yet is dropped if there is something that was not read.
Close(k) ==
    /\ file' = [file EXCEPT ![fd[k]] = None]
    /\ reg' = [reg EXCEPT ![fd[k]] = None]
    /\ answer' = IF inbox[k] > 0 /\ answer[k] = "sent"
                 THEN [answer EXCEPT ![k] = "lost"] ELSE answer

\* ~Socket: the last copy closes.  CountTouchedByOne is why this is one step.
DestroySocket(k) ==
    /\ ref' = [ref EXCEPT ![k] = @ - 1]
    /\ IF ref[k] = 1 THEN Close(k) ELSE UNCHANGED <<file, reg, answer>>

-----------------------------------------------------------------------------
(* The acceptor's coroutine.                                               *)

\* bind may fail; what listen returns is not looked at.
BindAndListen(a) ==
    \/ AGoto(a, "raw") /\ Run(a, a)
    \/ AGoto(a, "ended") /\ UNCHANGED running

\* The listening socket.  When bind fails the coroutine returns; when the
\* socket is of no use it waits for ever for an event it is not registered
\* for: nobody is accepted then either.
SetUp(a) ==
    /\ running[a] = None
    /\ apc[a] = "setup"
    /\ BindAndListen(a)
    /\ UNCHANGED <<polling, active, slots, got, kernelVars, objectVars, serveVars, clientVars>>

FreeFd == {n \in Fd : file[n] = None}

CanAccept(a) == backlog[a] # {} /\ FreeFd # {}

\* ::accept gives the lowest free descriptor.
AcceptRaw(a) ==
    /\ running[a] = a
    /\ apc[a] \in {"raw", "raw2"}
    /\ CanAccept(a)
    /\ \E k \in backlog[a], n \in FreeFd :
         /\ \A m \in FreeFd : n <= m
         /\ backlog' = [backlog EXCEPT ![a] = @ \ {k}]
         /\ file' = [file EXCEPT ![n] = k]
         /\ fd' = [fd EXCEPT ![k] = n]
         /\ ref' = [ref EXCEPT ![k] = 1]
         /\ got' = [got EXCEPT ![a] = k]
    /\ AGoto(a, "copy")
    /\ UNCHANGED <<reg, inbox, answer, loopVars, serveVars, clientVars>>

\* Nothing to accept: waitEvent, then once more, then all over again.
AcceptNothing(a) ==
    /\ running[a] = a
    /\ ~CanAccept(a)
    /\ \/ apc[a] = "raw" /\ AGoto(a, "wait") /\ Run(a, None)
       \/ apc[a] = "raw2" /\ AGoto(a, "raw") /\ UNCHANGED running
    /\ UNCHANGED <<polling, active, slots, got, kernelVars, objectVars, serveVars, clientVars>>

\* return ret: the Socket that new makes is a copy ...
ReturnCopy(a) ==
    /\ apc[a] = "copy"
    /\ CopySocket(got[a])
    /\ AGoto(a, "drop")
    /\ UNCHANGED <<fd, got, loopVars, kernelVars, serveVars, clientVars>>

\* Mutant: the connection's coroutine is created before ret is destroyed.
GoThenDropRet(a) ==
    /\ apc[a] = "drop"
    /\ IF spc[got[a]] = "none"
       THEN /\ Goto(got[a], "new")
            /\ \E p \in Proc : on' = [on EXCEPT ![got[a]] = p]
            /\ UNCHANGED <<ref, apc, file, reg, answer>>
       ELSE /\ DestroySocket(got[a])
            /\ AGoto(a, "count")
            /\ UNCHANGED <<spc, on>>
    /\ UNCHANGED <<fd, got, backlog, inbox, loopVars, times, clientVars>>

\* ... and ret is destroyed.
DropRet(a) ==
    /\ apc[a] = "drop"
    /\ DestroySocket(got[a])
    /\ AGoto(a, "count")
    /\ UNCHANGED <<fd, got, backlog, inbox, loopVars, serveVars, clientVars>>

\* Mutant: the connection is counted after its coroutine has been created.
GoThenCount(a) ==
    /\ apc[a] = "count"
    /\ IF spc[got[a]] = "none"
       THEN /\ Goto(got[a], "new")
            /\ \E p \in Proc : on' = [on EXCEPT ![got[a]] = p]
            /\ UNCHANGED <<times, apc, got>>
       ELSE /\ times' = times + 1
            /\ got' = [got EXCEPT ![a] = None]
            /\ AGoto(a, "raw")
            /\ UNCHANGED <<spc, on>>
    /\ UNCHANGED <<loopVars, kernelVars, objectVars, clientVars>>

Count(a) ==
    /\ apc[a] = "count"
    /\ times' = times + 1
    /\ AGoto(a, "go")
    /\ UNCHANGED <<got, spc, on, loopVars, kernelVars, objectVars, clientVars>>

\* co_go with the pointer: the selector may choose any processor.
CoGo(a) ==
    /\ apc[a] = "go"
    /\ Goto(got[a], "new")
    /\ \E p \in Proc : on' = [on EXCEPT ![got[a]] = p]
    /\ got' = [got EXCEPT ![a] = None]
    /\ AGoto(a, "raw")
    /\ UNCHANGED <<times, loopVars, kernelVars, objectVars, clientVars>>

-----------------------------------------------------------------------------
(* The coroutine of a connection.                                          *)

Runs(k, l) == spc[k] = l /\ running[on[k]] = k

\* What read returns, which may be a count, 0 or -1, decides what is next.
ReturnRead(k) ==
    /\ Goto(k, IF inbox[k] > 0 THEN "send" ELSE "delete")
    /\ inbox' = [inbox EXCEPT ![k] = 0]

Readable(k) == inbox[k] > 0 \/ ClientClosed(k)

Read(k) ==
    /\ Runs(k, "read")
    /\ Readable(k)
    /\ ReturnRead(k)
    /\ UNCHANGED <<reg, file, backlog, answer, loopVars, objectVars, acceptVars, on, times, clientVars>>

\* Mutant: the event is added to epoll after the yield.
WaitUnregistered(k) ==
    /\ Runs(k, "read")
    /\ ~Readable(k)
    /\ Goto(k, "rwait")
    /\ Run(on[k], None)
    /\ UNCHANGED <<kernelVars, polling, active, slots, objectVars, acceptVars, on, times, clientVars>>

\* waitEvent: addEv, and yield.
ReadWait(k) ==
    /\ Runs(k, "read")
    /\ ~Readable(k)
    /\ reg' = [reg EXCEPT ![fd[k]] = k]
    /\ Goto(k, "rwait")
    /\ Run(on[k], None)
    /\ UNCHANGED <<file, backlog, inbox, answer, polling, active, slots, objectVars, acceptVars,
                   on, times, clientVars>>

\* After its event.
Reread(k) ==
    /\ Runs(k, "reread")
    /\ ReturnRead(k)
    /\ UNCHANGED <<reg, file, backlog, answer, loopVars, objectVars, acceptVars, on, times, clientVars>>

\* send(hello), then co_sleep(50).
Send(k) ==
    /\ Runs(k, "send")
    /\ answer' = IF ClientClosed(k) THEN answer ELSE [answer EXCEPT ![k] = "sent"]
    /\ Goto(k, "sleep")
    /\ Run(on[k], None)
    /\ UNCHANGED <<reg, file, backlog, inbox, polling, active, slots, objectVars, acceptVars,
                   on, times, clientVars>>

\* delete conn.
Delete(k) ==
    /\ Runs(k, "delete")
    /\ DestroySocket(k)
    /\ Goto(k, "uncount")
    /\ UNCHANGED <<fd, backlog, inbox, loopVars, acceptVars, on, times, clientVars>>

Uncount(k) ==
    /\ Runs(k, "uncount")
    /\ times' = times - 1
    /\ Goto(k, "ended")
    /\ Run(on[k], None)
    /\ UNCHANGED <<polling, active, slots, kernelVars, objectVars, acceptVars, on, clientVars>>

-----------------------------------------------------------------------------
(* The loop of a processor, between two coroutines.                        *)

\* Whose event epoll_wait may report: level-triggered.
Ready(p) ==
    {k \in Client : /\ on[k] = p /\ Readable(k)
                    /\ \E n \in Fd : reg[n] = k /\ file[n] = k}
    \union {a \in Acceptor \intersect {p} : apc[a] = "wait" /\ backlog[a] # {}}

Fewer(m, n) == IF m < n THEN m ELSE n

\* Mutant: the array keeps its first size.
NoResize(p, n) == UNCHANGED slots

\* When the array is full it is doubled.
Resize(p, n) == slots' = [slots EXCEPT ![p] = IF n = @ THEN 2 * @ ELSE @]

Pending(p) == {k \in Client : on[k] = p /\ spc[k] \in {"new", "due"}}

\* getActEvServ: as many as the array holds, whichever they are.  A pass that
\* finds nothing to do is left out.
Poll(p) ==
    /\ running[p] = None
    /\ polling[p]
    /\ Ready(p) \union Pending(p) # {}
    /\ \E S \in SUBSET Ready(p) :
         /\ Cardinality(S) = Fewer(slots[p], Cardinality(Ready(p)))
         /\ active' = [active EXCEPT ![p] = S]
         /\ Resize(p, Cardinality(S))
    /\ polling' = [polling EXCEPT ![p] = FALSE]
    /\ UNCHANGED <<running, kernelVars, objectVars, acceptVars, serveVars, clientVars>>

Working(p) == running[p] = None /\ ~polling[p]

\* A new coroutine begins, or a sleeper whose time is over goes on.
Resume(k) ==
    /\ Working(on[k])
    /\ k \in Pending(on[k])
    /\ Run(on[k], k)
    /\ Goto(k, IF spc[k] = "new" THEN "read" ELSE "delete")
    /\ UNCHANGED <<polling, active, slots, kernelVars, objectVars, acceptVars, on, times, clientVars>>

\* The acceptor goes on in accept, its listening socket deregistered.
ResumeAcceptor(a) ==
    /\ Working(a)
    /\ a \in active[a]
    /\ active' = [active EXCEPT ![a] = @ \ {a}]
    /\ Run(a, a)
    /\ AGoto(a, "raw2")
    /\ UNCHANGED <<polling, slots, got, kernelVars, objectVars, serveVars, clientVars>>

\* The reader goes on in waitEvent: removeEv for its descriptor.
ResumeReader(k) ==
    /\ spc[k] = "rwait"
    /\ Working(on[k])
    /\ k \in active[on[k]]
    /\ active' = [active EXCEPT ![on[k]] = @ \ {k}]
    /\ reg' = [reg EXCEPT ![fd[k]] = None]
    /\ Run(on[k], k)
    /\ Goto(k, "reread")
    /\ UNCHANGED <<polling, slots, file, backlog, inbox, answer, objectVars, acceptVars, on, times,
                   clientVars>>

EndPass(p) ==
    /\ Working(p)
    /\ active[p] = {}
    /\ Pending(p) = {}
    /\ polling' = [polling EXCEPT ![p] = TRUE]
    /\ UNCHANGED <<running, active, slots, kernelVars, objectVars, acceptVars, serveVars, clientVars>>

\* The 50 ms of co_sleep are over.
Expire(k) ==
    /\ spc[k] = "sleep"
    /\ Goto(k, "due")
    /\ UNCHANGED <<on, times, loopVars, kernelVars, objectVars, acceptVars, clientVars>>

-----------------------------------------------------------------------------
(* The client.                                                             *)

Listening(a) == apc[a] \notin {"setup", "ended"}

\* To whichever listening socket of the port the kernel gives it.
Connect(k) ==
    /\ cpc[k] = "connect"
    /\ \E a \in Acceptor :
         /\ Listening(a)
         /\ backlog' = [backlog EXCEPT ![a] = @ \union {k}]
    /\ CGoto(k, "send")
    /\ UNCHANGED <<reg, file, inbox, answer, left, serverVars>>

\* send("ping"); an error counts as sent.
Ping(k) ==
    /\ cpc[k] = "send"
    /\ inbox' = IF ServerClosed(k) THEN inbox ELSE [inbox EXCEPT ![k] = @ + 1]
    /\ CGoto(k, "read")
    /\ UNCHANGED <<reg, file, backlog, answer, left, serverVars>>

\* The kernel sends what the server's send left to it.
Arrive(k) ==
    /\ answer[k] = "sent"
    /\ answer' = [answer EXCEPT ![k] = "arrived"]
    /\ UNCHANGED <<reg, file, backlog, inbox, clientVars, serverVars>>

TakeAnswer(k) ==
    /\ answer' = IF answer[k] = "arrived" THEN [answer EXCEPT ![k] = "read"] ELSE answer
    /\ left' = [left EXCEPT ![k] = @ - 1]
    /\ CGoto(k, IF left[k] = 1 THEN "close" ELSE "send")
    /\ UNCHANGED <<reg, file, backlog, inbox, serverVars>>

\* Mutant: the client does not wait for its answer.
PongAnyway(k) == cpc[k] = "read" /\ TakeAnswer(k)

\* read waits for the answer, or for the end of the connection once all that
\* was sent has arrived; then co_sleep(0), and the next of the exchanges.
Pong(k) ==
    /\ cpc[k] = "read"
    /\ answer[k] = "arrived" \/ (ServerClosed(k) /\ answer[k] # "sent")
    /\ TakeAnswer(k)

\* times.fetch_add(1), and the Socket's scope ends.
CloseClient(k) ==
    /\ cpc[k] = "close"
    /\ CGoto(k, "ended")
    /\ UNCHANGED <<left, kernelVars, serverVars>>

\* The client's process is killed, its end of the connection closed.
Kill(k) ==
    /\ cpc[k] \in {"send", "read"}
    /\ CGoto(k, "killed")
    /\ UNCHANGED <<left, kernelVars, serverVars>>

-----------------------------------------------------------------------------
AcceptorStep(a) ==
    \/ SetUp(a) \/ AcceptRaw(a) \/ AcceptNothing(a) \/ ReturnCopy(a)
    \/ DropRet(a) \/ Count(a) \/ CoGo(a) \/ ResumeAcceptor(a)

ServeStep(k) ==
    \/ Resume(k) \/ Read(k) \/ ReadWait(k) \/ ResumeReader(k) \/ Reread(k)
    \/ Send(k) \/ Delete(k) \/ Uncount(k)

\* All that the thread of p does.
ProcStep(p) ==
    \/ Poll(p) \/ EndPass(p)
    \/ p \in Acceptor /\ AcceptorStep(p)
    \/ \E k \in Client : on[k] = p /\ ServeStep(k)

ClientStep(k) ==
    \/ Connect(k) \/ Ping(k) \/ Pong(k) \/ CloseClient(k)

Next ==
    \/ \E p \in Proc : ProcStep(p)
    \/ \E k \in Client : ClientStep(k) \/ Arrive(k) \/ Expire(k) \/ Kill(k)

Spec == Init /\ [][Next]_vars

\* Every thread and every client runs on, time passes and the network works.
FairSpec ==
    /\ Spec
    /\ \A p \in Proc : WF_vars(ProcStep(p))
    /\ \A k \in Client : WF_vars(ClientStep(k)) /\ WF_vars(Arrive(k)) /\ WF_vars(Expire(k))

-----------------------------------------------------------------------------
(* Properties.                                                             *)

Accepting(k) == {a \in Acceptor : got[a] = k}
Served(k)    == spc[k] \notin {"none", "uncount", "ended"}

\* A descriptor belongs to a connection exactly as long as there is a Socket
\* object of it: the copy that accept returns does not close the file when
\* the original is destroyed, the last one does, and no object is left with a
\* number that has become somebody else's (socket.h:53-67, socket.cc:29-37,
\* 133-144, server.cc:62, 77).
FileWhileHeld ==
    \A k \in Client :
      IF Accepting(k) # {} \/ Served(k)
      THEN \A n \in Fd : file[n] = k <=> n = fd[k]
      ELSE \A n \in Fd : file[n] # k

TouchedBy(k) ==
    {a \in Accepting(k) : apc[a] \in {"copy", "drop"}}
    \union {c \in {k} : spc[k] = "delete"}

\* The count is a plain int: never do two coroutines get at that of one
\* connection, although accept's and the connection's run on two processors
\* (socket.cc:31, server.cc:62-77).
CountTouchedByOne == \A k \in Client : Cardinality(TouchedBy(k)) <= 1

\* Whoever waits for a file is registered for that file, or its event is among
\* those that are about to be resumed; and nobody else is: closing a file and
\* giving its number to another connection wakes and deafens no one
\* (socket.cc:34, processor.cc:206-211).
WaitersAreHeard ==
    /\ \A k \in Client : spc[k] = "rwait" => reg[fd[k]] = k /\ file[fd[k]] = k
    /\ \A n \in Fd : reg[n] # None => spc[reg[n]] = "rwait" /\ fd[reg[n]] = n
    /\ \A p \in Proc : \A c \in active[p] :
         IF c \in Client THEN spc[c] = "rwait" /\ on[c] = p ELSE c = p /\ apc[c] = "wait"

\* The number of connections that the monitor prints is never below the number
\* of those that are being served, nor above it but for those which are in
\* transit, so that it is never negative (server.cc:64, 78).
TimesCountsServed ==
    LET serving == Cardinality({k \in Client : Served(k)})
        transit == Cardinality({a \in Acceptor : apc[a] = "go"})
                   + Cardinality({k \in Client : spc[k] = "uncount"})
    IN  serving <= times /\ times <= serving + transit

\* A client that has seen an exchange to its end has got the server's answer:
\* the server closes with later messages unread, which drops what has not left,
\* but these come only from a client that has its answer (server.cc:72-77 "wait,
\* so that the socket is not closed too early", client.cc:45-50).
AnswerIsHeard ==
    \A k \in Client : /\ answer[k] # "lost"
                      /\ left[k] < Rounds => answer[k] = "read"

\* Whoever gets through to a listening socket comes to an end, its connection
\* closed by the server: with descriptors for some of the clients only, when
\* the listening socket is always ready and accept always fails, and with an
\* array of events too small for all that is ready (epoller.cc:129-134).
ConnectionEnds ==
    \A k \in Client :
      cpc[k] = "send" ~> /\ ClientClosed(k) /\ spc[k] = "ended"
                         /\ \A n \in Fd : file[n] # k
===============================================================================
