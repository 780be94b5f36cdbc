----------------------------- MODULE ServerProofs -----------------------------
(***************************************************************************)
(* For any number of clients, processors, acceptors and descriptors: a     *)
(* descriptor is a connection's exactly as long as somebody holds a Socket *)
(* of it, one coroutine at a time counts, and whoever waits is registered. *)
(***************************************************************************)
EXTENDS Server, FiniteSetTheorems, TLAPS

\* A client has pinged no more often than it wants.
PingsBounded ==
    \A k \in Client :
      /\ cpc[k] \in {"connect", "send", "read"} => left[k] > 0
      /\ cpc[k] \in {"connect", "send"} => inbox[k] + left[k] <= Rounds
      /\ cpc[k] = "read" => inbox[k] + left[k] <= Rounds + 1

\* A connection is in one acceptor's hand, or its coroutine has begun.
Hands ==
    \A a \in Acceptor :
      /\ apc[a] \in {"copy", "drop", "count", "go"} <=> got[a] # None
      /\ got[a] # None => spc[got[a]] = "none" /\ fd[got[a]] # 0
      /\ \A b \in Acceptor : got[a] # None /\ got[b] = got[a] => a = b

\* What waits for accept has no socket yet, and waits at one listening socket.
Waiting ==
    /\ \A a \in Acceptor : \A k \in backlog[a] :
         /\ cpc[k] # "connect"
         /\ spc[k] = "none"
         /\ \A b \in Acceptor : got[b] # k /\ (k \in backlog[b] => a = b)
    /\ \A k \in Client : cpc[k] = "connect" =>
         /\ spc[k] = "none"
         /\ \A b \in Acceptor : got[b] # k

\* The count is the number of copies.
Counted ==
    /\ \A k \in Client : Served(k) => ref[k] = 1
    /\ \A a \in Acceptor :
         got[a] # None => ref[got[a]] = IF apc[a] = "drop" THEN 2 ELSE 1

Held(k) == Served(k) \/ \E a \in Acceptor : got[a] = k

\* FileWhileHeld without sets, and that what is held has a descriptor.
Files ==
    \A k \in Client :
      IF Held(k)
      THEN fd[k] \in Fd /\ \A n \in Fd : file[n] = k <=> n = fd[k]
      ELSE \A n \in Fd : file[n] # k

\* epoll reports coroutines that wait for files, and acceptors.
Reported == \A p \in Proc : active[p] \subseteq Client \union Acceptor

IInv ==
    /\ TypeOK
    /\ PingsBounded
    /\ Hands
    /\ Waiting
    /\ Counted
    /\ Files
    /\ Reported
    /\ WaitersAreHeard

LEMMA InvInit == Init => IInv
<1> SUFFICES ASSUME Init PROVE IInv
  OBVIOUS
<1> USE ServerAssumption DEF Init
<1>1. TypeOK
  BY DEF TypeOK
<1>2. PingsBounded /\ Hands /\ Waiting
  BY DEF PingsBounded, Hands, Waiting
<1>3. Counted /\ Files
  BY DEF Counted, Files, Held, Served, Fd
<1>4. WaitersAreHeard /\ Reported
  BY DEF WaitersAreHeard, Reported
<1> QED
  BY <1>1, <1>2, <1>3, <1>4 DEF IInv

\* A ping needs an exchange that is left.
LEMMA PingsStep == IInv /\ [Next]_vars => PingsBounded'
<1> SUFFICES ASSUME IInv, [Next]_vars PROVE PingsBounded'
  OBVIOUS
<1> USE ServerAssumption DEF PingsBounded, TypeOK
<1>1. ASSUME UNCHANGED <<inbox, left, cpc>> PROVE PingsBounded'
  BY <1>1 DEF IInv
<1>2. ASSUME NEW k \in Client, Read(k) PROVE PingsBounded'
  BY <1>2
  DEF IInv, Read, Runs, ReturnRead, Goto, kernelVars, loopVars, serveVars,
  objectVars, acceptVars, clientVars, serverVars
<1>3. ASSUME NEW k \in Client, Reread(k) PROVE PingsBounded'
  BY <1>3
  DEF IInv, Reread, Runs, ReturnRead, Goto, kernelVars, loopVars,
  serveVars, objectVars, acceptVars, clientVars, serverVars
<1>4. ASSUME NEW k \in Client, Connect(k) PROVE PingsBounded'
  BY <1>4
  DEF IInv, Connect, CGoto, kernelVars, loopVars, serveVars, objectVars,
  acceptVars, clientVars, serverVars
<1>5. ASSUME NEW k \in Client, Ping(k) PROVE PingsBounded'
  BY <1>5
  DEF IInv, Ping, CGoto, kernelVars, loopVars, serveVars, objectVars,
  acceptVars, clientVars, serverVars
<1>6. ASSUME NEW k \in Client, Pong(k) PROVE PingsBounded'
  BY <1>6
  DEF IInv, Pong, TakeAnswer, CGoto, kernelVars, loopVars, serveVars,
  objectVars, acceptVars, clientVars, serverVars
<1>7. ASSUME NEW k \in Client, CloseClient(k) PROVE PingsBounded'
  BY <1>7
  DEF IInv, CloseClient, CGoto, kernelVars, loopVars, serveVars,
  objectVars, acceptVars, clientVars, serverVars
<1>8. ASSUME NEW k \in Client, Kill(k) PROVE PingsBounded'
  BY <1>8
  DEF IInv, Kill, CGoto, kernelVars, loopVars, serveVars, objectVars,
  acceptVars, clientVars, serverVars
<1>9. ASSUME NEW a \in Acceptor,
             SetUp(a) \/ AcceptRaw(a) \/ AcceptNothing(a) \/ ReturnCopy(a)
               \/ DropRet(a) \/ Count(a) \/ CoGo(a) \/ ResumeAcceptor(a)
      PROVE  PingsBounded'
  BY <1>1, <1>9
  DEF IInv, SetUp, BindAndListen, AGoto, Run, AcceptRaw, CanAccept, FreeFd, AcceptNothing,
  ReturnCopy, CopySocket, DropRet, DestroySocket, Close, Count, CoGo, Goto,
  ResumeAcceptor, Working, vars, serverVars, clientVars, loopVars,
  kernelVars, objectVars, acceptVars, serveVars
<1>10. ASSUME NEW k \in Client,
             Resume(k) \/ ReadWait(k) \/ ResumeReader(k) \/ Send(k)
               \/ Delete(k) \/ Uncount(k) \/ Arrive(k) \/ Expire(k)
      PROVE  PingsBounded'
  BY <1>1, <1>10
  DEF IInv, Resume, Run, Goto, Working, Pending, ReadWait, Runs,
  ResumeReader, Send, Delete, DestroySocket, Close, Uncount, Arrive,
  Expire, vars, serverVars, clientVars, loopVars, kernelVars, objectVars,
  acceptVars, serveVars
<1>11. ASSUME NEW p \in Proc,
             Poll(p) \/ EndPass(p)
      PROVE  PingsBounded'
  BY <1>1, <1>11
  DEF IInv, Poll, Ready, Fewer, Resize, EndPass, vars, serverVars,
  clientVars, loopVars, kernelVars, objectVars, acceptVars, serveVars
<1>12. CASE UNCHANGED vars
  BY <1>1, <1>12 DEF vars, serverVars, clientVars, loopVars, kernelVars, objectVars, acceptVars, serveVars
<1> QED
  BY <1>2, <1>3, <1>4, <1>5, <1>6, <1>7, <1>8, <1>9, <1>10, <1>11, <1>12
  DEF Next, ProcStep, AcceptorStep, ServeStep, ClientStep

\* accept hands over what nobody has.
LEMMA HandsStep == IInv /\ [Next]_vars => Hands'
<1> SUFFICES ASSUME IInv, [Next]_vars PROVE Hands'
  OBVIOUS
<1> USE ServerAssumption DEF Hands, Waiting, TypeOK
<1>1. ASSUME UNCHANGED <<apc, got, spc, fd>> PROVE Hands'
  BY <1>1 DEF IInv
<1>2. ASSUME NEW a \in Acceptor, SetUp(a) PROVE Hands'
  <2>1. apc[a] = "setup" /\ UNCHANGED <<got, spc, fd>>
    BY <1>2 DEF SetUp, BindAndListen, serveVars, objectVars
  <2>2. \/ apc' = [apc EXCEPT ![a] = "raw"]
        \/ apc' = [apc EXCEPT ![a] = "ended"]
    BY <1>2 DEF SetUp, BindAndListen, AGoto
  <2> QED
    BY SMTT(30), <2>1, <2>2 DEF IInv
<1>3. ASSUME NEW a \in Acceptor, AcceptRaw(a) PROVE Hands'
  <2>1. PICK k \in backlog[a], n \in FreeFd :
          /\ fd' = [fd EXCEPT ![k] = n]
          /\ file' = [file EXCEPT ![n] = k]
          /\ got' = [got EXCEPT ![a] = k]
    BY <1>3 DEF AcceptRaw
  <2>2. /\ apc[a] \in {"raw", "raw2"} /\ apc' = [apc EXCEPT ![a] = "copy"]
        /\ UNCHANGED spc
    BY <1>3 DEF AcceptRaw, AGoto, serveVars
  <2>3. /\ k \in Client /\ spc[k] = "none" /\ \A b \in Acceptor : got[b] # k
        /\ n \in Fd /\ n # 0 /\ file[n] = None
    BY <2>1 DEF IInv, FreeFd, Fd, TypeOK, Waiting
  <2>4. /\ got \in [Acceptor -> Client \union {None}] /\ DOMAIN apc = Acceptor
        /\ fd \in [Client -> Fd \union {0}] /\ Hands /\ k # None
    BY <2>3 DEF IInv
  <2> QED
    BY <2>1, <2>2, <2>3, <2>4
<1>4. ASSUME NEW a \in Acceptor, AcceptNothing(a) PROVE Hands'
  BY SMTT(30), <1>4
  DEF IInv, AcceptNothing, AGoto, Run, kernelVars, loopVars, serveVars,
  objectVars, acceptVars, clientVars, serverVars
<1>5. ASSUME NEW a \in Acceptor, ReturnCopy(a) PROVE Hands'
  BY <1>5
  DEF IInv, ReturnCopy, CopySocket, AGoto, kernelVars, loopVars, serveVars,
  objectVars, acceptVars, clientVars, serverVars
<1>6. ASSUME NEW a \in Acceptor, DropRet(a) PROVE Hands'
  BY <1>6
  DEF IInv, DropRet, DestroySocket, Close, AGoto, kernelVars, loopVars,
  serveVars, objectVars, acceptVars, clientVars, serverVars
<1>7. ASSUME NEW a \in Acceptor, Count(a) PROVE Hands'
  BY <1>7
  DEF IInv, Count, AGoto, kernelVars, loopVars, serveVars, objectVars,
  acceptVars, clientVars, serverVars
<1>8. ASSUME NEW a \in Acceptor, CoGo(a) PROVE Hands'
  BY <1>8
  DEF IInv, CoGo, Goto, AGoto, kernelVars, loopVars, serveVars, objectVars,
  acceptVars, clientVars, serverVars
<1>9. ASSUME NEW a \in Acceptor, ResumeAcceptor(a) PROVE Hands'
  <2>1. apc[a] = "wait"
    BY <1>9 DEF ResumeAcceptor, IInv, WaitersAreHeard
  <2> QED
    BY <1>9, <2>1 DEF IInv, ResumeAcceptor, Run, AGoto, kernelVars, loopVars, serveVars, objectVars, acceptVars, clientVars, serverVars
<1>10. ASSUME NEW k \in Client, Resume(k) PROVE Hands'
  BY <1>10
  DEF IInv, Resume, Run, Goto, Working, Pending, kernelVars, loopVars,
  serveVars, objectVars, acceptVars, clientVars, serverVars
<1>11. ASSUME NEW k \in Client, Read(k) PROVE Hands'
  BY <1>11
  DEF IInv, Read, Runs, ReturnRead, Goto, kernelVars, loopVars, serveVars,
  objectVars, acceptVars, clientVars, serverVars
<1>12. ASSUME NEW k \in Client, ReadWait(k) PROVE Hands'
  BY <1>12
  DEF IInv, ReadWait, Runs, Run, Goto, kernelVars, loopVars, serveVars,
  objectVars, acceptVars, clientVars, serverVars
<1>13. ASSUME NEW k \in Client, ResumeReader(k) PROVE Hands'
  BY <1>13
  DEF IInv, ResumeReader, Run, Goto, Working, kernelVars, loopVars,
  serveVars, objectVars, acceptVars, clientVars, serverVars
<1>14. ASSUME NEW k \in Client, Reread(k) PROVE Hands'
  BY <1>14
  DEF IInv, Reread, Runs, ReturnRead, Goto, kernelVars, loopVars,
  serveVars, objectVars, acceptVars, clientVars, serverVars
<1>15. ASSUME NEW k \in Client, Send(k) PROVE Hands'
  BY <1>15
  DEF IInv, Send, Runs, Run, Goto, kernelVars, loopVars, serveVars,
  objectVars, acceptVars, clientVars, serverVars
<1>16. ASSUME NEW k \in Client, Delete(k) PROVE Hands'
  BY <1>16
  DEF IInv, Delete, Runs, DestroySocket, Close, Goto, kernelVars, loopVars,
  serveVars, objectVars, acceptVars, clientVars, serverVars
<1>17. ASSUME NEW k \in Client, Uncount(k) PROVE Hands'
  BY <1>17
  DEF IInv, Uncount, Runs, Run, Goto, kernelVars, loopVars, serveVars,
  objectVars, acceptVars, clientVars, serverVars
<1>18. ASSUME NEW k \in Client, Expire(k) PROVE Hands'
  BY <1>18
  DEF IInv, Expire, Goto, kernelVars, loopVars, serveVars, objectVars,
  acceptVars, clientVars, serverVars
<1>19. ASSUME NEW k \in Client,
             Connect(k) \/ Ping(k) \/ Pong(k) \/ CloseClient(k)
               \/ Arrive(k) \/ Kill(k)
      PROVE  Hands'
  BY <1>1, <1>19
  DEF IInv, Connect, CGoto, Ping, Pong, TakeAnswer, CloseClient, Arrive,
  Kill, vars, serverVars, clientVars, loopVars, kernelVars, objectVars,
  acceptVars, serveVars
<1>20. ASSUME NEW p \in Proc,
             Poll(p) \/ EndPass(p)
      PROVE  Hands'
  BY <1>1, <1>20
  DEF IInv, Poll, Ready, Fewer, Resize, EndPass, vars, serverVars,
  clientVars, loopVars, kernelVars, objectVars, acceptVars, serveVars
<1>21. CASE UNCHANGED vars
  BY <1>1, <1>21 DEF vars, serverVars, clientVars, loopVars, kernelVars, objectVars, acceptVars, serveVars
<1> QED
  BY <1>2, <1>3, <1>4, <1>5, <1>6, <1>7, <1>8, <1>9, <1>10, <1>11, <1>12,
  <1>13, <1>14, <1>15, <1>16, <1>17, <1>18, <1>19, <1>20, <1>21
  DEF Next, ProcStep, AcceptorStep, ServeStep, ClientStep

\* A client connects once.
LEMMA WaitingStep == IInv /\ [Next]_vars => Waiting'
<1> SUFFICES ASSUME IInv, [Next]_vars PROVE Waiting'
  OBVIOUS
<1> USE ServerAssumption DEF Waiting, Hands, TypeOK
<1>1. ASSUME UNCHANGED <<backlog, cpc, spc, got>> PROVE Waiting'
  BY <1>1 DEF IInv
<1>2. ASSUME NEW a \in Acceptor, AcceptRaw(a) PROVE Waiting'
  BY <1>2
  DEF IInv, AcceptRaw, AGoto, CanAccept, FreeFd, kernelVars, loopVars,
  serveVars, objectVars, acceptVars, clientVars, serverVars
<1>3. ASSUME NEW a \in Acceptor, CoGo(a) PROVE Waiting'
  BY <1>3
  DEF IInv, CoGo, Goto, AGoto, kernelVars, loopVars, serveVars, objectVars,
  acceptVars, clientVars, serverVars
<1>4. ASSUME NEW k \in Client, Resume(k) PROVE Waiting'
  BY <1>4
  DEF IInv, Resume, Run, Goto, Working, Pending, kernelVars, loopVars,
  serveVars, objectVars, acceptVars, clientVars, serverVars
<1>5. ASSUME NEW k \in Client, Read(k) PROVE Waiting'
  BY <1>5
  DEF IInv, Read, Runs, ReturnRead, Goto, kernelVars, loopVars, serveVars,
  objectVars, acceptVars, clientVars, serverVars
<1>6. ASSUME NEW k \in Client, ReadWait(k) PROVE Waiting'
  BY <1>6
  DEF IInv, ReadWait, Runs, Run, Goto, kernelVars, loopVars, serveVars,
  objectVars, acceptVars, clientVars, serverVars
<1>7. ASSUME NEW k \in Client, ResumeReader(k) PROVE Waiting'
  BY <1>7
  DEF IInv, ResumeReader, Run, Goto, Working, kernelVars, loopVars,
  serveVars, objectVars, acceptVars, clientVars, serverVars
<1>8. ASSUME NEW k \in Client, Reread(k) PROVE Waiting'
  BY <1>8
  DEF IInv, Reread, Runs, ReturnRead, Goto, kernelVars, loopVars,
  serveVars, objectVars, acceptVars, clientVars, serverVars
<1>9. ASSUME NEW k \in Client, Send(k) PROVE Waiting'
  BY <1>9
  DEF IInv, Send, Runs, Run, Goto, kernelVars, loopVars, serveVars,
  objectVars, acceptVars, clientVars, serverVars
<1>10. ASSUME NEW k \in Client, Delete(k) PROVE Waiting'
  BY <1>10
  DEF IInv, Delete, Runs, DestroySocket, Close, Goto, kernelVars, loopVars,
  serveVars, objectVars, acceptVars, clientVars, serverVars
<1>11. ASSUME NEW k \in Client, Uncount(k) PROVE Waiting'
  BY <1>11
  DEF IInv, Uncount, Runs, Run, Goto, kernelVars, loopVars, serveVars,
  objectVars, acceptVars, clientVars, serverVars
<1>12. ASSUME NEW k \in Client, Connect(k) PROVE Waiting'
  BY <1>12
  DEF IInv, Connect, CGoto, kernelVars, loopVars, serveVars, objectVars,
  acceptVars, clientVars, serverVars
<1>13. ASSUME NEW k \in Client, Ping(k) PROVE Waiting'
  BY <1>13
  DEF IInv, Ping, CGoto, kernelVars, loopVars, serveVars, objectVars,
  acceptVars, clientVars, serverVars
<1>14. ASSUME NEW k \in Client, Pong(k) PROVE Waiting'
  BY <1>14
  DEF IInv, Pong, TakeAnswer, CGoto, kernelVars, loopVars, serveVars,
  objectVars, acceptVars, clientVars, serverVars
<1>15. ASSUME NEW k \in Client, CloseClient(k) PROVE Waiting'
  BY <1>15
  DEF IInv, CloseClient, CGoto, kernelVars, loopVars, serveVars,
  objectVars, acceptVars, clientVars, serverVars
<1>16. ASSUME NEW k \in Client, Kill(k) PROVE Waiting'
  BY <1>16
  DEF IInv, Kill, CGoto, kernelVars, loopVars, serveVars, objectVars,
  acceptVars, clientVars, serverVars
<1>17. ASSUME NEW k \in Client, Expire(k) PROVE Waiting'
  BY <1>17
  DEF IInv, Expire, Goto, kernelVars, loopVars, serveVars, objectVars,
  acceptVars, clientVars, serverVars
<1>18. ASSUME NEW a \in Acceptor,
             SetUp(a) \/ AcceptNothing(a) \/ ReturnCopy(a) \/ DropRet(a)
               \/ Count(a) \/ ResumeAcceptor(a)
      PROVE  Waiting'
  BY <1>1, <1>18
  DEF IInv, SetUp, BindAndListen, AGoto, Run, AcceptNothing, ReturnCopy, CopySocket,
  DropRet, DestroySocket, Close, Count, ResumeAcceptor, Working, vars,
  serverVars, clientVars, loopVars, kernelVars, objectVars, acceptVars,
  serveVars
<1>19. ASSUME NEW k \in Client,
             Arrive(k)
      PROVE  Waiting'
  BY <1>1, <1>19
  DEF IInv, Arrive, vars, serverVars, clientVars, loopVars, kernelVars,
  objectVars, acceptVars, serveVars
<1>20. ASSUME NEW p \in Proc,
             Poll(p) \/ EndPass(p)
      PROVE  Waiting'
  BY <1>1, <1>20
  DEF IInv, Poll, Ready, Fewer, Resize, EndPass, vars, serverVars,
  clientVars, loopVars, kernelVars, objectVars, acceptVars, serveVars
<1>21. CASE UNCHANGED vars
  BY <1>1, <1>21 DEF vars, serverVars, clientVars, loopVars, kernelVars, objectVars, acceptVars, serveVars
<1> QED
  BY <1>2, <1>3, <1>4, <1>5, <1>6, <1>7, <1>8, <1>9, <1>10, <1>11, <1>12,
  <1>13, <1>14, <1>15, <1>16, <1>17, <1>18, <1>19, <1>20, <1>21
  DEF Next, ProcStep, AcceptorStep, ServeStep, ClientStep

\* Each copy is counted and each destruction counted down.
LEMMA CountedStep == IInv /\ [Next]_vars => Counted'
<1> SUFFICES ASSUME IInv, [Next]_vars PROVE Counted'
  OBVIOUS
<1> USE ServerAssumption DEF Counted, Hands, Waiting, Served, TypeOK
<1>1. ASSUME UNCHANGED <<ref, spc, got, apc>> PROVE Counted'
  BY <1>1 DEF IInv
<1>2. ASSUME NEW a \in Acceptor, SetUp(a) PROVE Counted'
  BY <1>2
  DEF IInv, SetUp, BindAndListen, AGoto, Run, kernelVars, loopVars, serveVars, objectVars,
  acceptVars, clientVars, serverVars
<1>3. ASSUME NEW a \in Acceptor, AcceptRaw(a) PROVE Counted'
  BY <1>3
  DEF IInv, AcceptRaw, AGoto, CanAccept, FreeFd, kernelVars, loopVars,
  serveVars, objectVars, acceptVars, clientVars, serverVars
<1>4. ASSUME NEW a \in Acceptor, AcceptNothing(a) PROVE Counted'
  BY <1>4
  DEF IInv, AcceptNothing, AGoto, Run, kernelVars, loopVars, serveVars,
  objectVars, acceptVars, clientVars, serverVars
<1>5. ASSUME NEW a \in Acceptor, ReturnCopy(a) PROVE Counted'
  BY <1>5
  DEF IInv, ReturnCopy, CopySocket, AGoto, kernelVars, loopVars, serveVars,
  objectVars, acceptVars, clientVars, serverVars
<1>6. ASSUME NEW a \in Acceptor, DropRet(a) PROVE Counted'
  BY <1>6
  DEF IInv, DropRet, DestroySocket, Close, AGoto, kernelVars, loopVars,
  serveVars, objectVars, acceptVars, clientVars, serverVars
<1>7. ASSUME NEW a \in Acceptor, Count(a) PROVE Counted'
  BY <1>7
  DEF IInv, Count, AGoto, kernelVars, loopVars, serveVars, objectVars,
  acceptVars, clientVars, serverVars
<1>8. ASSUME NEW a \in Acceptor, CoGo(a) PROVE Counted'
  BY <1>8
  DEF IInv, CoGo, Goto, AGoto, kernelVars, loopVars, serveVars, objectVars,
  acceptVars, clientVars, serverVars
<1>9. ASSUME NEW a \in Acceptor, ResumeAcceptor(a) PROVE Counted'
  <2>1. apc[a] = "wait"
    BY <1>9 DEF ResumeAcceptor, IInv, WaitersAreHeard
  <2> QED
    BY <1>9, <2>1 DEF IInv, ResumeAcceptor, Run, AGoto, kernelVars, loopVars, serveVars, objectVars, acceptVars, clientVars, serverVars
<1>10. ASSUME NEW k \in Client, Resume(k) PROVE Counted'
  BY <1>10
  DEF IInv, Resume, Run, Goto, Working, Pending, kernelVars, loopVars,
  serveVars, objectVars, acceptVars, clientVars, serverVars
<1>11. ASSUME NEW k \in Client, Read(k) PROVE Counted'
  BY <1>11
  DEF IInv, Read, Runs, ReturnRead, Goto, kernelVars, loopVars, serveVars,
  objectVars, acceptVars, clientVars, serverVars
<1>12. ASSUME NEW k \in Client, ReadWait(k) PROVE Counted'
  BY <1>12
  DEF IInv, ReadWait, Runs, Run, Goto, kernelVars, loopVars, serveVars,
  objectVars, acceptVars, clientVars, serverVars
<1>13. ASSUME NEW k \in Client, ResumeReader(k) PROVE Counted'
  BY <1>13
  DEF IInv, ResumeReader, Run, Goto, Working, kernelVars, loopVars,
  serveVars, objectVars, acceptVars, clientVars, serverVars
<1>14. ASSUME NEW k \in Client, Reread(k) PROVE Counted'
  BY <1>14
  DEF IInv, Reread, Runs, ReturnRead, Goto, kernelVars, loopVars,
  serveVars, objectVars, acceptVars, clientVars, serverVars
<1>15. ASSUME NEW k \in Client, Send(k) PROVE Counted'
  BY <1>15
  DEF IInv, Send, Runs, Run, Goto, kernelVars, loopVars, serveVars,
  objectVars, acceptVars, clientVars, serverVars
<1>16. ASSUME NEW k \in Client, Delete(k) PROVE Counted'
  BY <1>16
  DEF IInv, Delete, Runs, DestroySocket, Close, Goto, kernelVars, loopVars,
  serveVars, objectVars, acceptVars, clientVars, serverVars
<1>17. ASSUME NEW k \in Client, Uncount(k) PROVE Counted'
  BY <1>17
  DEF IInv, Uncount, Runs, Run, Goto, kernelVars, loopVars, serveVars,
  objectVars, acceptVars, clientVars, serverVars
<1>18. ASSUME NEW k \in Client, Expire(k) PROVE Counted'
  BY <1>18
  DEF IInv, Expire, Goto, kernelVars, loopVars, serveVars, objectVars,
  acceptVars, clientVars, serverVars
<1>19. ASSUME NEW k \in Client,
             Connect(k) \/ Ping(k) \/ Pong(k) \/ CloseClient(k)
               \/ Arrive(k) \/ Kill(k)
      PROVE  Counted'
  BY <1>1, <1>19
  DEF IInv, Connect, CGoto, Ping, Pong, TakeAnswer, CloseClient, Arrive,
  Kill, vars, serverVars, clientVars, loopVars, kernelVars, objectVars,
  acceptVars, serveVars
<1>20. ASSUME NEW p \in Proc,
             Poll(p) \/ EndPass(p)
      PROVE  Counted'
  BY <1>1, <1>20
  DEF IInv, Poll, Ready, Fewer, Resize, EndPass, vars, serverVars,
  clientVars, loopVars, kernelVars, objectVars, acceptVars, serveVars
<1>21. CASE UNCHANGED vars
  BY <1>1, <1>21 DEF vars, serverVars, clientVars, loopVars, kernelVars, objectVars, acceptVars, serveVars
<1> QED
  BY <1>2, <1>3, <1>4, <1>5, <1>6, <1>7, <1>8, <1>9, <1>10, <1>11, <1>12,
  <1>13, <1>14, <1>15, <1>16, <1>17, <1>18, <1>19, <1>20, <1>21
  DEF Next, ProcStep, AcceptorStep, ServeStep, ClientStep

\* Only the last copy's end closes, and only a free descriptor is given.
LEMMA FilesStep == IInv /\ [Next]_vars => Files'
<1> SUFFICES ASSUME IInv, [Next]_vars PROVE Files'
  OBVIOUS
<1> USE ServerAssumption DEF Files, Held, Hands, Waiting, Counted, Served, TypeOK
<1>1. ASSUME UNCHANGED <<file, fd, spc, got>> PROVE Files'
  BY <1>1 DEF IInv
<1>2. ASSUME NEW a \in Acceptor, AcceptRaw(a) PROVE Files'
  <2>1. PICK k \in backlog[a], n \in FreeFd :
          /\ fd' = [fd EXCEPT ![k] = n]
          /\ file' = [file EXCEPT ![n] = k]
          /\ got' = [got EXCEPT ![a] = k]
    BY <1>2 DEF AcceptRaw
  <2>2. /\ apc[a] \in {"raw", "raw2"} /\ apc' = [apc EXCEPT ![a] = "copy"]
        /\ UNCHANGED spc
    BY <1>2 DEF AcceptRaw, AGoto, serveVars
  <2>3. /\ k \in Client /\ spc[k] = "none" /\ \A b \in Acceptor : got[b] # k
        /\ n \in Fd /\ n # 0 /\ file[n] = None
    BY <2>1 DEF IInv, FreeFd, Fd, TypeOK, Waiting
  <2>4. Held(k)' /\ fd'[k] = n /\ \A m \in Fd : file'[m] = k <=> m = n
    BY <2>1, <2>2, <2>3 DEF IInv
  <2>5. \A j \in Client \ {k} :
          /\ Held(j)' <=> Held(j)
          /\ fd'[j] = fd[j]
          /\ Held(j) => fd[j] # n
          /\ \A m \in Fd : file'[m] = j <=> file[m] = j
    <3> SUFFICES ASSUME NEW j \in Client, j # k
                 PROVE  /\ Held(j)' <=> Held(j)
                        /\ fd'[j] = fd[j]
                        /\ Held(j) => fd[j] # n
                        /\ \A m \in Fd : file'[m] = j <=> file[m] = j
      OBVIOUS
    <3>1. /\ got \in [Acceptor -> Client \union {None}]
          /\ fd \in [Client -> Fd \union {0}] /\ file \in [Fd -> Client \union {None}]
          /\ got[a] = None
      BY <2>2 DEF IInv
    <3>2. \A b \in Acceptor : got'[b] = j <=> got[b] = j
      BY <2>1, <2>3, <3>1
    <3>3. Held(j)' <=> Held(j)
      BY <2>2, <3>2
    <3>4. fd'[j] = fd[j] /\ \A m \in Fd : file'[m] = j <=> file[m] = j
      BY <2>1, <2>3, <3>1
    <3>5. Held(j) => fd[j] # n
      <4> HIDE DEF Held
      <4>1. Held(j) => file[fd[j]] = j
        BY DEF IInv
      <4> QED
        BY <2>3, <4>1
    <3> QED
      BY <3>3, <3>4, <3>5
  <2>6. ASSUME NEW j \in Client
        PROVE  IF Held(j)' THEN fd'[j] \in Fd /\ \A m \in Fd : file'[m] = j <=> m = fd'[j]
               ELSE \A m \in Fd : file'[m] # j
    <3> HIDE DEF Held
    <3>1. CASE j = k
      BY <2>3, <2>4, <3>1
    <3>2. CASE j # k
      BY <2>5, <3>2 DEF IInv
    <3> QED
      BY <3>1, <3>2
  <2> QED
    BY <2>6
<1>3. ASSUME NEW a \in Acceptor, DropRet(a) PROVE Files'
  BY SMTT(30), <1>3
  DEF IInv, DropRet, DestroySocket, Close, AGoto, kernelVars, loopVars,
  serveVars, objectVars, acceptVars, clientVars, serverVars
<1>4. ASSUME NEW a \in Acceptor, CoGo(a) PROVE Files'
  <2>1. UNCHANGED <<file, fd>>
    BY <1>4 DEF CoGo, kernelVars, objectVars
  <2>2. \A j \in Client : Held(j)' <=> Held(j)
    BY <1>4 DEF CoGo, Goto, IInv
  <2> HIDE DEF Held
  <2> QED
    BY <2>1, <2>2 DEF IInv
<1>5. ASSUME NEW k \in Client, Resume(k) PROVE Files'
  BY <1>5
  DEF IInv, Resume, Run, Goto, Working, Pending, kernelVars, loopVars,
  serveVars, objectVars, acceptVars, clientVars, serverVars
<1>6. ASSUME NEW k \in Client, Read(k) PROVE Files'
  BY <1>6
  DEF IInv, Read, Runs, ReturnRead, Goto, kernelVars, loopVars, serveVars,
  objectVars, acceptVars, clientVars, serverVars
<1>7. ASSUME NEW k \in Client, ReadWait(k) PROVE Files'
  BY <1>7
  DEF IInv, ReadWait, Runs, Run, Goto, kernelVars, loopVars, serveVars,
  objectVars, acceptVars, clientVars, serverVars
<1>8. ASSUME NEW k \in Client, ResumeReader(k) PROVE Files'
  BY <1>8
  DEF IInv, ResumeReader, Run, Goto, Working, kernelVars, loopVars,
  serveVars, objectVars, acceptVars, clientVars, serverVars
<1>9. ASSUME NEW k \in Client, Reread(k) PROVE Files'
  BY <1>9
  DEF IInv, Reread, Runs, ReturnRead, Goto, kernelVars, loopVars,
  serveVars, objectVars, acceptVars, clientVars, serverVars
<1>10. ASSUME NEW k \in Client, Send(k) PROVE Files'
  BY SMTT(30), <1>10
  DEF IInv, Send, Runs, Run, Goto, kernelVars, loopVars, serveVars,
  objectVars, acceptVars, clientVars, serverVars
<1>11. ASSUME NEW k \in Client, Delete(k) PROVE Files'
  BY SMTT(30), <1>11
  DEF IInv, Delete, Runs, DestroySocket, Close, Goto, kernelVars, loopVars,
  serveVars, objectVars, acceptVars, clientVars, serverVars
<1>12. ASSUME NEW k \in Client, Uncount(k) PROVE Files'
  BY <1>12
  DEF IInv, Uncount, Runs, Run, Goto, kernelVars, loopVars, serveVars,
  objectVars, acceptVars, clientVars, serverVars
<1>13. ASSUME NEW k \in Client, Expire(k) PROVE Files'
  BY SMTT(30), <1>13
  DEF IInv, Expire, Goto, kernelVars, loopVars, serveVars, objectVars,
  acceptVars, clientVars, serverVars
<1>14. ASSUME NEW a \in Acceptor,
             SetUp(a) \/ AcceptNothing(a) \/ ReturnCopy(a) \/ Count(a)
               \/ ResumeAcceptor(a)
      PROVE  Files'
  BY <1>1, <1>14
  DEF IInv, SetUp, BindAndListen, AGoto, Run, AcceptNothing, ReturnCopy, CopySocket,
  Count, ResumeAcceptor, Working, vars, serverVars, clientVars, loopVars,
  kernelVars, objectVars, acceptVars, serveVars
<1>15. ASSUME NEW k \in Client,
             Connect(k) \/ Ping(k) \/ Pong(k) \/ CloseClient(k)
               \/ Arrive(k) \/ Kill(k)
      PROVE  Files'
  BY <1>1, <1>15
  DEF IInv, Connect, CGoto, Ping, Pong, TakeAnswer, CloseClient, Arrive,
  Kill, vars, serverVars, clientVars, loopVars, kernelVars, objectVars,
  acceptVars, serveVars
<1>16. ASSUME NEW p \in Proc,
             Poll(p) \/ EndPass(p)
      PROVE  Files'
  BY <1>1, <1>16
  DEF IInv, Poll, Ready, Fewer, Resize, EndPass, vars, serverVars,
  clientVars, loopVars, kernelVars, objectVars, acceptVars, serveVars
<1>17. CASE UNCHANGED vars
  BY <1>1, <1>17 DEF vars, serverVars, clientVars, loopVars, kernelVars, objectVars, acceptVars, serveVars
<1> QED
  BY <1>2, <1>3, <1>4, <1>5, <1>6, <1>7, <1>8, <1>9, <1>10, <1>11, <1>12,
  <1>13, <1>14, <1>15, <1>16, <1>17
  DEF Next, ProcStep, AcceptorStep, ServeStep, ClientStep

\* epoll_wait reports who is registered, or the acceptor itself.
LEMMA ReportedStep == IInv /\ [Next]_vars => Reported'
<1> SUFFICES ASSUME IInv, [Next]_vars PROVE Reported'
  OBVIOUS
<1> USE ServerAssumption DEF Reported, TypeOK
<1>1. ASSUME UNCHANGED <<active>> PROVE Reported'
  BY <1>1 DEF IInv
<1>2. ASSUME NEW a \in Acceptor, ResumeAcceptor(a) PROVE Reported'
  BY <1>2
  DEF IInv, ResumeAcceptor, Run, AGoto, Working, kernelVars, loopVars,
  serveVars, objectVars, acceptVars, clientVars, serverVars
<1>3. ASSUME NEW k \in Client, ResumeReader(k) PROVE Reported'
  BY <1>3
  DEF IInv, ResumeReader, Run, Goto, Working, kernelVars, loopVars,
  serveVars, objectVars, acceptVars, clientVars, serverVars
<1>4. ASSUME NEW p \in Proc, Poll(p) PROVE Reported'
  BY <1>4
  DEF IInv, Poll, Ready, Fewer, Resize, kernelVars, loopVars, serveVars,
  objectVars, acceptVars, clientVars, serverVars
<1>5. ASSUME NEW a \in Acceptor,
             SetUp(a) \/ AcceptRaw(a) \/ AcceptNothing(a) \/ ReturnCopy(a)
               \/ DropRet(a) \/ Count(a) \/ CoGo(a)
      PROVE  Reported'
  BY <1>1, <1>5
  DEF IInv, SetUp, BindAndListen, AGoto, Run, AcceptRaw, CanAccept, FreeFd, AcceptNothing,
  ReturnCopy, CopySocket, DropRet, DestroySocket, Close, Count, CoGo, Goto,
  vars, serverVars, clientVars, loopVars, kernelVars, objectVars,
  acceptVars, serveVars
<1>6. ASSUME NEW k \in Client,
             Resume(k) \/ Read(k) \/ ReadWait(k) \/ Reread(k) \/ Send(k)
               \/ Delete(k) \/ Uncount(k) \/ Connect(k) \/ Ping(k)
               \/ Pong(k) \/ CloseClient(k) \/ Arrive(k) \/ Expire(k)
               \/ Kill(k)
      PROVE  Reported'
  BY <1>1, <1>6
  DEF IInv, Resume, Run, Goto, Working, Pending, Read, Runs, ReturnRead,
  ReadWait, Reread, Send, Delete, DestroySocket, Close, Uncount, Connect,
  CGoto, Ping, Pong, TakeAnswer, CloseClient, Arrive, Expire, Kill, vars,
  serverVars, clientVars, loopVars, kernelVars, objectVars, acceptVars,
  serveVars
<1>7. ASSUME NEW p \in Proc,
             EndPass(p)
      PROVE  Reported'
  BY <1>1, <1>7
  DEF IInv, EndPass, vars, serverVars, clientVars, loopVars, kernelVars,
  objectVars, acceptVars, serveVars
<1>8. CASE UNCHANGED vars
  BY <1>1, <1>8 DEF vars, serverVars, clientVars, loopVars, kernelVars, objectVars, acceptVars, serveVars
<1> QED
  BY <1>2, <1>3, <1>4, <1>5, <1>6, <1>7, <1>8
  DEF Next, ProcStep, AcceptorStep, ServeStep, ClientStep

\* Registrations come and go with the waits.
LEMMA HeardStep == IInv /\ [Next]_vars => WaitersAreHeard'
<1> SUFFICES ASSUME IInv, [Next]_vars PROVE WaitersAreHeard'
  OBVIOUS
<1> USE ServerAssumption DEF WaitersAreHeard, Files, Held, Hands, Waiting, Counted, Served, TypeOK
<1>1. ASSUME UNCHANGED <<spc, reg, fd, file, active, on, apc>> PROVE WaitersAreHeard'
  BY <1>1 DEF IInv
<1>2. ASSUME NEW a \in Acceptor, SetUp(a) PROVE WaitersAreHeard'
  <2>1. UNCHANGED <<spc, reg, fd, file, active, on>>
    BY <1>2 DEF SetUp, BindAndListen, kernelVars, loopVars, serveVars, objectVars, acceptVars, clientVars, serverVars
  <2>2. \A b \in Acceptor : apc[b] = "wait" => apc'[b] = "wait"
    BY <1>2 DEF SetUp, BindAndListen, AGoto, IInv
  <2> QED
    BY <2>1, <2>2 DEF IInv, Reported
<1>3. ASSUME NEW a \in Acceptor, AcceptRaw(a) PROVE WaitersAreHeard'
  BY <1>3
  DEF IInv, AcceptRaw, AGoto, CanAccept, FreeFd, kernelVars, loopVars,
  serveVars, objectVars, acceptVars, clientVars, serverVars
<1>4. ASSUME NEW a \in Acceptor, AcceptNothing(a) PROVE WaitersAreHeard'
  <2>1. UNCHANGED <<spc, reg, fd, file, active, on>>
    BY <1>4 DEF AcceptNothing, kernelVars, loopVars, serveVars, objectVars, acceptVars, clientVars, serverVars
  <2>2. \A b \in Acceptor : apc[b] = "wait" => apc'[b] = "wait"
    BY <1>4 DEF AcceptNothing, AGoto, IInv
  <2> QED
    BY <2>1, <2>2 DEF IInv, Reported
<1>5. ASSUME NEW a \in Acceptor, ReturnCopy(a) PROVE WaitersAreHeard'
  BY <1>5
  DEF IInv, ReturnCopy, CopySocket, AGoto, kernelVars, loopVars, serveVars,
  objectVars, acceptVars, clientVars, serverVars
<1>6. ASSUME NEW a \in Acceptor, DropRet(a) PROVE WaitersAreHeard'
  BY <1>6
  DEF IInv, DropRet, DestroySocket, Close, AGoto, kernelVars, loopVars,
  serveVars, objectVars, acceptVars, clientVars, serverVars
<1>7. ASSUME NEW a \in Acceptor, Count(a) PROVE WaitersAreHeard'
  BY <1>7
  DEF IInv, Count, AGoto, kernelVars, loopVars, serveVars, objectVars,
  acceptVars, clientVars, serverVars
<1>8. ASSUME NEW a \in Acceptor, CoGo(a) PROVE WaitersAreHeard'
  BY <1>8
  DEF IInv, CoGo, Goto, AGoto, kernelVars, loopVars, serveVars, objectVars,
  acceptVars, clientVars, serverVars
<1>9. ASSUME NEW a \in Acceptor, ResumeAcceptor(a) PROVE WaitersAreHeard'
  BY <1>9
  DEF IInv, ResumeAcceptor, Run, AGoto, Working, kernelVars, loopVars,
  serveVars, objectVars, acceptVars, clientVars, serverVars
<1>10. ASSUME NEW k \in Client, Resume(k) PROVE WaitersAreHeard'
  BY <1>10
  DEF IInv, Resume, Run, Goto, Working, Pending, kernelVars, loopVars,
  serveVars, objectVars, acceptVars, clientVars, serverVars
<1>11. ASSUME NEW k \in Client, Read(k) PROVE WaitersAreHeard'
  BY <1>11
  DEF IInv, Read, Runs, ReturnRead, Goto, kernelVars, loopVars, serveVars,
  objectVars, acceptVars, clientVars, serverVars
<1>12. ASSUME NEW k \in Client, ReadWait(k) PROVE WaitersAreHeard'
  <2>1. fd[k] \in Fd /\ file[fd[k]] = k /\ spc[k] = "read"
    BY SMTT(30), <1>12 DEF ReadWait, Runs, IInv
  <2>2. /\ reg' = [reg EXCEPT ![fd[k]] = k] /\ spc' = [spc EXCEPT ![k] = "rwait"]
        /\ UNCHANGED <<fd, file, active, on, apc>>
    BY <1>12 DEF ReadWait, Goto, loopVars, objectVars, acceptVars
  <2>3. \A j \in Client : spc[j] = "rwait" => fd[j] \in Fd /\ fd[j] # fd[k]
    <3> SUFFICES ASSUME NEW j \in Client, spc[j] = "rwait"
                 PROVE  fd[j] \in Fd /\ fd[j] # fd[k]
      OBVIOUS
    <3>1. fd[j] \in Fd /\ file[fd[j]] = j
      BY DEF IInv
    <3> QED
      BY <2>1, <3>1
  <2>4. /\ reg \in [Fd -> Client \union {None}]
        /\ spc \in [Client -> {"none", "new", "read", "rwait", "reread", "send", "sleep",
                               "due", "delete", "uncount", "ended"}]
        /\ WaitersAreHeard
    BY DEF IInv
  <2> QED
    BY <2>1, <2>2, <2>3, <2>4
<1>13. ASSUME NEW k \in Client, ResumeReader(k) PROVE WaitersAreHeard'
  BY <1>13
  DEF IInv, ResumeReader, Run, Goto, Working, kernelVars, loopVars,
  serveVars, objectVars, acceptVars, clientVars, serverVars
<1>14. ASSUME NEW k \in Client, Reread(k) PROVE WaitersAreHeard'
  BY <1>14
  DEF IInv, Reread, Runs, ReturnRead, Goto, kernelVars, loopVars,
  serveVars, objectVars, acceptVars, clientVars, serverVars
<1>15. ASSUME NEW k \in Client, Send(k) PROVE WaitersAreHeard'
  BY <1>15
  DEF IInv, Send, Runs, Run, Goto, kernelVars, loopVars, serveVars,
  objectVars, acceptVars, clientVars, serverVars
<1>16. ASSUME NEW k \in Client, Delete(k) PROVE WaitersAreHeard'
  <2>1. fd[k] \in Fd /\ file[fd[k]] = k /\ spc[k] = "delete" /\ ref[k] = 1
    BY <1>16 DEF Delete, Runs, IInv
  <2>2. /\ reg' = [reg EXCEPT ![fd[k]] = None] /\ file' = [file EXCEPT ![fd[k]] = None]
        /\ spc' = [spc EXCEPT ![k] = "uncount"] /\ UNCHANGED <<fd, active, on, apc>>
    BY <1>16, <2>1 DEF Delete, DestroySocket, Close, Goto, loopVars, acceptVars
  <2>3. \A j \in Client : spc[j] = "rwait" => fd[j] \in Fd /\ fd[j] # fd[k]
    <3> SUFFICES ASSUME NEW j \in Client, spc[j] = "rwait"
                 PROVE  fd[j] \in Fd /\ fd[j] # fd[k]
      OBVIOUS
    <3>1. fd[j] \in Fd /\ file[fd[j]] = j
      BY DEF IInv
    <3> QED
      BY <2>1, <3>1
  <2>4. \A j \in Client : spc'[j] = "rwait" => reg'[fd'[j]] = j /\ file'[fd'[j]] = j
    <3> SUFFICES ASSUME NEW j \in Client, spc'[j] = "rwait"
                 PROVE  reg'[fd'[j]] = j /\ file'[fd'[j]] = j
      OBVIOUS
    <3>1. spc[j] = "rwait"
      BY <2>1, <2>2 DEF IInv
    <3>2. reg[fd[j]] = j /\ file[fd[j]] = j /\ fd[j] \in Fd /\ fd[j] # fd[k]
      BY <2>3, <3>1 DEF IInv
    <3>3. reg \in [Fd -> Client \union {None}] /\ file \in [Fd -> Client \union {None}]
      BY DEF IInv
    <3> QED
      BY <2>2, <3>2, <3>3
  <2>5. \A n \in Fd : reg'[n] # None => spc'[reg'[n]] = "rwait" /\ fd'[reg'[n]] = n
    <3> SUFFICES ASSUME NEW n \in Fd, reg'[n] # None
                 PROVE  spc'[reg'[n]] = "rwait" /\ fd'[reg'[n]] = n
      OBVIOUS
    <3>1. n # fd[k] /\ reg'[n] = reg[n] /\ reg[n] \in Client
      BY <2>1, <2>2 DEF IInv
    <3>2. spc[reg[n]] = "rwait" /\ fd[reg[n]] = n
      BY <3>1 DEF IInv
    <3> QED
      BY <2>1, <2>2, <3>1, <3>2 DEF IInv
  <2>6. \A p \in Proc : \A c \in active'[p] :
          IF c \in Client THEN spc'[c] = "rwait" /\ on'[c] = p ELSE c = p /\ apc'[c] = "wait"
    BY <2>1, <2>2 DEF IInv
  <2> QED
    BY <2>4, <2>5, <2>6
<1>17. ASSUME NEW k \in Client, Uncount(k) PROVE WaitersAreHeard'
  BY <1>17
  DEF IInv, Uncount, Runs, Run, Goto, kernelVars, loopVars, serveVars,
  objectVars, acceptVars, clientVars, serverVars
<1>18. ASSUME NEW p \in Proc, Poll(p) PROVE WaitersAreHeard'
  BY <1>18
  DEF IInv, Poll, Ready, Fewer, Resize, kernelVars, loopVars, serveVars,
  objectVars, acceptVars, clientVars, serverVars
<1>19. ASSUME NEW k \in Client, Expire(k) PROVE WaitersAreHeard'
  BY <1>19
  DEF IInv, Expire, Goto, kernelVars, loopVars, serveVars, objectVars,
  acceptVars, clientVars, serverVars
<1>20. ASSUME NEW k \in Client,
             Connect(k) \/ Ping(k) \/ Pong(k) \/ CloseClient(k)
               \/ Arrive(k) \/ Kill(k)
      PROVE  WaitersAreHeard'
  BY <1>1, <1>20
  DEF IInv, Connect, CGoto, Ping, Pong, TakeAnswer, CloseClient, Arrive,
  Kill, vars, serverVars, clientVars, loopVars, kernelVars, objectVars,
  acceptVars, serveVars
<1>21. ASSUME NEW p \in Proc,
             EndPass(p)
      PROVE  WaitersAreHeard'
  BY <1>1, <1>21
  DEF IInv, EndPass, vars, serverVars, clientVars, loopVars, kernelVars,
  objectVars, acceptVars, serveVars
<1>22. CASE UNCHANGED vars
  BY <1>1, <1>22 DEF vars, serverVars, clientVars, loopVars, kernelVars, objectVars, acceptVars, serveVars
<1> QED
  BY <1>2, <1>3, <1>4, <1>5, <1>6, <1>7, <1>8, <1>9, <1>10, <1>11, <1>12,
  <1>13, <1>14, <1>15, <1>16, <1>17, <1>18, <1>19, <1>20, <1>21, <1>22
  DEF Next, ProcStep, AcceptorStep, ServeStep, ClientStep

\* Each variable keeps its range; an inbox, as pings are bounded.
LEMMA TypeStep == IInv /\ [Next]_vars => TypeOK'
<1> SUFFICES ASSUME IInv, [Next]_vars PROVE TypeOK'
  OBVIOUS
<1> USE ServerAssumption DEF TypeOK, Hands, Files, Held, Counted, PingsBounded, Served
<1>1. ASSUME UNCHANGED vars PROVE TypeOK'
  BY <1>1 DEF IInv, vars, serverVars, clientVars, loopVars, kernelVars, objectVars, acceptVars, serveVars
<1>2. ASSUME NEW a \in Acceptor, SetUp(a) PROVE TypeOK'
  <2>1. UNCHANGED <<polling, active, slots, got, kernelVars, objectVars, serveVars, clientVars>>
    BY <1>2 DEF SetUp, BindAndListen
  <2>2. \/ apc' = [apc EXCEPT ![a] = "raw"]
        \/ apc' = [apc EXCEPT ![a] = "ended"]
    BY <1>2 DEF SetUp, BindAndListen, AGoto
  <2>3. running' = [running EXCEPT ![a] = a] \/ running' = running
    BY <1>2 DEF SetUp, BindAndListen, Run
  <2>4. running' \in [Proc -> Client \union Proc \union {None}]
    BY <2>3 DEF IInv
  <2>5. apc' \in [Acceptor -> {"setup", "raw", "wait", "raw2", "copy", "drop", "count",
                               "go", "ended"}]
    BY SMTT(30), <2>2 DEF IInv
  <2>6. UNCHANGED <<polling, active, slots, got, reg, file, backlog, inbox, answer, fd, ref,
                    spc, on, times, cpc, left>>
    BY <2>1 DEF kernelVars, objectVars, serveVars, clientVars
  <2> QED
    BY <2>4, <2>5, <2>6 DEF IInv
<1>3. ASSUME NEW a \in Acceptor, AcceptRaw(a) PROVE TypeOK'
  <2>1. PICK k \in backlog[a], n \in FreeFd :
          /\ backlog' = [backlog EXCEPT ![a] = @ \ {k}]
          /\ file' = [file EXCEPT ![n] = k]
          /\ fd' = [fd EXCEPT ![k] = n]
          /\ ref' = [ref EXCEPT ![k] = 1]
          /\ got' = [got EXCEPT ![a] = k]
    BY <1>3 DEF AcceptRaw
  <2>2. apc' = [apc EXCEPT ![a] = "copy"]
    BY <1>3 DEF AcceptRaw, AGoto
  <2>3. UNCHANGED <<reg, inbox, answer, running, polling, active, slots, spc, on, times,
                    cpc, left>>
    BY <1>3 DEF AcceptRaw, loopVars, serveVars, clientVars
  <2>4. k \in Client /\ n \in Fd
    BY <2>1 DEF IInv, FreeFd
  <2>5. /\ backlog' \in [Acceptor -> SUBSET Client]
        /\ file' \in [Fd -> Client \union {None}]
        /\ fd' \in [Client -> Fd \union {0}]
        /\ got' \in [Acceptor -> Client \union {None}]
    BY <2>1, <2>4 DEF IInv
  <2>6. /\ ref' \in [Client -> 0..2]
        /\ apc' \in [Acceptor -> {"setup", "raw", "wait", "raw2", "copy", "drop", "count",
                                  "go", "ended"}]
    BY <2>1, <2>2, <2>4 DEF IInv
  <2> QED
    BY <2>3, <2>5, <2>6 DEF IInv
<1>4. ASSUME NEW a \in Acceptor, AcceptNothing(a) PROVE TypeOK'
  BY SMTT(30), <1>4
  DEF IInv, AcceptNothing, AGoto, Run, kernelVars, loopVars, serveVars,
  objectVars, acceptVars, clientVars, serverVars
<1>5. ASSUME NEW a \in Acceptor, ReturnCopy(a) PROVE TypeOK'
  BY <1>5
  DEF IInv, ReturnCopy, CopySocket, AGoto, kernelVars, loopVars, serveVars,
  objectVars, acceptVars, clientVars, serverVars
<1>6. ASSUME NEW a \in Acceptor, DropRet(a) PROVE TypeOK'
  BY <1>6
  DEF IInv, DropRet, DestroySocket, Close, AGoto, kernelVars, loopVars,
  serveVars, objectVars, acceptVars, clientVars, serverVars
<1>7. ASSUME NEW a \in Acceptor, Count(a) PROVE TypeOK'
  BY <1>7
  DEF IInv, Count, AGoto, kernelVars, loopVars, serveVars, objectVars,
  acceptVars, clientVars, serverVars
<1>8. ASSUME NEW a \in Acceptor, CoGo(a) PROVE TypeOK'
  BY <1>8
  DEF IInv, CoGo, Goto, AGoto, kernelVars, loopVars, serveVars, objectVars,
  acceptVars, clientVars, serverVars
<1>9. ASSUME NEW a \in Acceptor, ResumeAcceptor(a) PROVE TypeOK'
  BY <1>9
  DEF IInv, ResumeAcceptor, Run, AGoto, Working, kernelVars, loopVars,
  serveVars, objectVars, acceptVars, clientVars, serverVars
<1>10. ASSUME NEW k \in Client, Resume(k) PROVE TypeOK'
  BY <1>10
  DEF IInv, Resume, Run, Goto, Working, Pending, kernelVars, loopVars,
  serveVars, objectVars, acceptVars, clientVars, serverVars
<1>11. ASSUME NEW k \in Client, Read(k) PROVE TypeOK'
  BY <1>11
  DEF IInv, Read, Runs, ReturnRead, Goto, kernelVars, loopVars, serveVars,
  objectVars, acceptVars, clientVars, serverVars
<1>12. ASSUME NEW k \in Client, ReadWait(k) PROVE TypeOK'
  <2>1. /\ reg' = [reg EXCEPT ![fd[k]] = k] /\ spc' = [spc EXCEPT ![k] = "rwait"]
        /\ running' = [running EXCEPT ![on[k]] = None]
    BY <1>12 DEF ReadWait, Goto, Run
  <2>2. UNCHANGED <<file, backlog, inbox, answer, polling, active, slots, fd, ref, apc, got,
                    on, times, cpc, left>>
    BY <1>12 DEF ReadWait, objectVars, acceptVars, clientVars
  <2>3. /\ reg' \in [Fd -> Client \union {None}]
        /\ running' \in [Proc -> Client \union Proc \union {None}]
    BY <2>1 DEF IInv
  <2>4. spc' \in [Client -> {"none", "new", "read", "rwait", "reread", "send", "sleep",
                             "due", "delete", "uncount", "ended"}]
    BY <2>1 DEF IInv
  <2> QED
    BY <2>2, <2>3, <2>4 DEF IInv
<1>13. ASSUME NEW k \in Client, ResumeReader(k) PROVE TypeOK'
  <2>1. /\ reg' = [reg EXCEPT ![fd[k]] = None] /\ spc' = [spc EXCEPT ![k] = "reread"]
        /\ running' = [running EXCEPT ![on[k]] = k]
        /\ active' = [active EXCEPT ![on[k]] = @ \ {k}]
    BY <1>13 DEF ResumeReader, Goto, Run
  <2>2. UNCHANGED <<file, backlog, inbox, answer, polling, slots, fd, ref, apc, got,
                    on, times, cpc, left>>
    BY <1>13 DEF ResumeReader, objectVars, acceptVars, clientVars
  <2>3. /\ reg' \in [Fd -> Client \union {None}]
        /\ running' \in [Proc -> Client \union Proc \union {None}]
    BY <2>1 DEF IInv
  <2>4. spc' \in [Client -> {"none", "new", "read", "rwait", "reread", "send", "sleep",
                             "due", "delete", "uncount", "ended"}]
    BY <2>1 DEF IInv
  <2>5. active' \in [Proc -> SUBSET (Client \union Proc)]
    <3>1. active \in [Proc -> SUBSET (Client \union Proc)]
      BY DEF IInv
    <3> HIDE DEF TypeOK, Hands, Files, Held, Counted, PingsBounded, Served
    <3> QED
      BY <2>1, <3>1
  <2> QED
    BY <2>2, <2>3, <2>4, <2>5 DEF IInv
<1>14. ASSUME NEW k \in Client, Reread(k) PROVE TypeOK'
  BY <1>14
  DEF IInv, Reread, Runs, ReturnRead, Goto, kernelVars, loopVars,
  serveVars, objectVars, acceptVars, clientVars, serverVars
<1>15. ASSUME NEW k \in Client, Send(k) PROVE TypeOK'
  BY <1>15
  DEF IInv, Send, Runs, Run, Goto, kernelVars, loopVars, serveVars,
  objectVars, acceptVars, clientVars, serverVars
<1>16. ASSUME NEW k \in Client, Delete(k) PROVE TypeOK'
  <2>1. /\ ref[k] = 1 /\ fd[k] \in Fd
        /\ UNCHANGED <<fd, backlog, inbox, loopVars, acceptVars, on, times, clientVars>>
    BY <1>16 DEF Delete, Runs, IInv
  <2>2. spc' = [spc EXCEPT ![k] = "uncount"] /\ ref' = [ref EXCEPT ![k] = 0]
    BY <1>16, <2>1 DEF Delete, DestroySocket, Goto
  <2>3. file' \in [Fd -> Client \union {None}] /\ reg' \in [Fd -> Client \union {None}]
    BY SMTT(30), <1>16, <2>1 DEF Delete, DestroySocket, Close, IInv
  <2>4. answer' \in [Client -> {"none", "sent", "arrived", "read", "lost"}]
    BY <1>16, <2>1 DEF Delete, DestroySocket, Close, IInv
  <2>5. /\ ref' \in [Client -> 0..2]
        /\ spc' \in [Client -> {"none", "new", "read", "rwait", "reread", "send", "sleep",
                                "due", "delete", "uncount", "ended"}]
    BY <2>2 DEF IInv
  <2>6. UNCHANGED <<fd, backlog, inbox, running, polling, active, slots, apc, got, on, times,
                    cpc, left>>
    BY <2>1 DEF loopVars, acceptVars, clientVars
  <2> QED
    BY <2>3, <2>4, <2>5, <2>6 DEF IInv
<1>17. ASSUME NEW k \in Client, Uncount(k) PROVE TypeOK'
  <2>1. /\ spc' = [spc EXCEPT ![k] = "ended"] /\ times' = times - 1
        /\ running' = [running EXCEPT ![on[k]] = None]
        /\ UNCHANGED <<polling, active, slots, kernelVars, objectVars, acceptVars, on, clientVars>>
    BY <1>17 DEF Uncount, Goto, Run
  <2>2. times' \in Int
    BY <2>1 DEF IInv
  <2>3. running' \in [Proc -> Client \union Proc \union {None}]
    BY <2>1 DEF IInv
  <2>4. spc' \in [Client -> {"none", "new", "read", "rwait", "reread", "send", "sleep",
                             "due", "delete", "uncount", "ended"}]
    BY <2>1 DEF IInv
  <2>5. UNCHANGED <<fd, ref, reg, file, backlog, inbox, answer, polling, active, slots,
                    apc, got, on, cpc, left>>
    BY <2>1 DEF kernelVars, objectVars, acceptVars, clientVars
  <2> QED
    BY <2>2, <2>3, <2>4, <2>5 DEF IInv
<1>18. ASSUME NEW p \in Proc, Poll(p) PROVE TypeOK'
  BY <1>18
  DEF IInv, Poll, Ready, Fewer, Resize, kernelVars, loopVars, serveVars,
  objectVars, acceptVars, clientVars, serverVars
<1>19. ASSUME NEW p \in Proc, EndPass(p) PROVE TypeOK'
  BY <1>19
  DEF IInv, EndPass, kernelVars, loopVars, serveVars, objectVars,
  acceptVars, clientVars, serverVars
<1>20. ASSUME NEW k \in Client, Connect(k) PROVE TypeOK'
  BY <1>20
  DEF IInv, Connect, CGoto, kernelVars, loopVars, serveVars, objectVars,
  acceptVars, clientVars, serverVars
<1>21. ASSUME NEW k \in Client, Ping(k) PROVE TypeOK'
  BY <1>21
  DEF IInv, Ping, CGoto, kernelVars, loopVars, serveVars, objectVars,
  acceptVars, clientVars, serverVars
<1>22. ASSUME NEW k \in Client, Pong(k) PROVE TypeOK'
  BY <1>22
  DEF IInv, Pong, TakeAnswer, CGoto, kernelVars, loopVars, serveVars,
  objectVars, acceptVars, clientVars, serverVars
<1>23. ASSUME NEW k \in Client, CloseClient(k) PROVE TypeOK'
  BY <1>23
  DEF IInv, CloseClient, CGoto, kernelVars, loopVars, serveVars,
  objectVars, acceptVars, clientVars, serverVars
<1>24. ASSUME NEW k \in Client, Arrive(k) PROVE TypeOK'
  BY <1>24
  DEF IInv, Arrive, kernelVars, loopVars, serveVars, objectVars,
  acceptVars, clientVars, serverVars
<1>25. ASSUME NEW k \in Client, Expire(k) PROVE TypeOK'
  BY <1>25
  DEF IInv, Expire, Goto, kernelVars, loopVars, serveVars, objectVars,
  acceptVars, clientVars, serverVars
<1>26. ASSUME NEW k \in Client, Kill(k) PROVE TypeOK'
  BY <1>26
  DEF IInv, Kill, CGoto, kernelVars, loopVars, serveVars, objectVars,
  acceptVars, clientVars, serverVars
<1>27. CASE UNCHANGED vars
  BY <1>1, <1>27 DEF vars, serverVars, clientVars, loopVars, kernelVars, objectVars, acceptVars, serveVars
<1> QED
  BY <1>2, <1>3, <1>4, <1>5, <1>6, <1>7, <1>8, <1>9, <1>10, <1>11, <1>12,
  <1>13, <1>14, <1>15, <1>16, <1>17, <1>18, <1>19, <1>20, <1>21, <1>22,
  <1>23, <1>24, <1>25, <1>26, <1>27
  DEF Next, ProcStep, AcceptorStep, ServeStep, ClientStep

LEMMA InvStep == IInv /\ [Next]_vars => IInv'
BY TypeStep, PingsStep, HandsStep, WaitingStep, CountedStep, FilesStep,
   ReportedStep, HeardStep
DEF IInv

LEMMA ServerInvariance == Spec => []IInv
BY InvInit, InvStep, PTL DEF Spec

\* The variables of the server, of its clients and of the kernel keep their
\* types.
THEOREM ServerTypeCorrect == Spec => []TypeOK
BY ServerInvariance, PTL DEF IInv

\* The copy that accept returns keeps the file open and the last Socket object
\* closes it, whoever accepts and however few descriptors there are.
THEOREM FileOpenWhileHeld == Spec => []FileWhileHeld
<1>1. IInv => FileWhileHeld
  <2> SUFFICES ASSUME IInv PROVE FileWhileHeld
    OBVIOUS
  <2>1. \A k \in Client : Held(k) <=> Accepting(k) # {} \/ Served(k)
    BY DEF Held, Accepting
  <2> QED
    BY <2>1 DEF IInv, Files, FileWhileHeld
<1> QED
  BY <1>1, ServerInvariance, PTL

\* For any number of acceptors on any processors, the plain int is never
\* touched by two coroutines.
THEOREM CountIsPrivate == Spec => []CountTouchedByOne
<1>1. ASSUME IInv, NEW k \in Client
      PROVE  Cardinality(TouchedBy(k)) <= 1
  <2>1. CASE TouchedBy(k) = {}
    BY <2>1, FS_EmptySet
  <2>2. CASE TouchedBy(k) # {}
    <3>1. PICK c \in TouchedBy(k) : TRUE
      BY <2>2
    <3>2. \A d \in TouchedBy(k) : d = c
      BY <1>1, <3>1, ServerAssumption DEF IInv, Hands, TouchedBy, Accepting
    <3>3. TouchedBy(k) = {c}
      BY <3>1, <3>2
    <3> QED
      BY <3>3, FS_Singleton
  <2> QED
    BY <2>1, <2>2
<1>2. IInv => CountTouchedByOne
  BY <1>1 DEF CountTouchedByOne
<1> QED
  BY <1>2, ServerInvariance, PTL

\* A coroutine that waits is registered with a file that is open and its own.
THEOREM NobodyWaitsUnheard == Spec => []WaitersAreHeard
BY ServerInvariance, PTL DEF IInv

-----------------------------------------------------------------------------
(* What the monitor prints.                                                *)

Transit == {a \in Acceptor : apc[a] = "go"}
OnBooks == {k \in Client : spc[k] \notin {"none", "ended"}}

\* times is the number of those that are counted and not uncounted.
TimesExact == times = Cardinality(Transit) + Cardinality(OnBooks)

\* Everybody in transit has a connection of its own in hand.
LEMMA BooksFinite == IInv => IsFiniteSet(Transit) /\ IsFiniteSet(OnBooks)
<1> SUFFICES ASSUME IInv PROVE IsFiniteSet(Transit) /\ IsFiniteSet(OnBooks)
  OBVIOUS
<1>1. IsFiniteSet(Client) /\ None \notin Client
  BY ServerAssumption
<1>2. IsFiniteSet(OnBooks)
  BY <1>1, FS_Subset DEF OnBooks
<1>. DEFINE f == [a \in Transit |-> got[a]]
<1>3. \A a \in Transit : got[a] \in Client
  BY DEF IInv, Hands, TypeOK, Transit
<1>4. \A a, b \in Transit : got[a] = got[b] => a = b
  BY <1>1, <1>3 DEF IInv, Hands, Transit
<1>5. f \in Injection(Transit, Client)
  BY <1>3, <1>4 DEF Injection, IsInjective
<1>6. IsFiniteSet(Transit)
  BY <1>1, <1>5, FS_Injection
<1>. QED  BY <1>2, <1>6

Still == times' = times /\ Transit' = Transit /\ OnBooks' = OnBooks

\* Only Count, CoGo and Uncount change what is counted.
LEMMA CountedStill ==
  ASSUME IInv, [Next]_vars,
         \A a \in Acceptor : ~Count(a) /\ ~CoGo(a),
         \A k \in Client : ~Uncount(k)
  PROVE  Still
<1> USE DEF Transit, OnBooks, Still
<1>1. ASSUME UNCHANGED <<apc, spc, times>> PROVE Still
  BY <1>1
<1>2. ASSUME NEW a \in Acceptor,
             SetUp(a) \/ AcceptRaw(a) \/ AcceptNothing(a) \/ ReturnCopy(a)
               \/ DropRet(a) \/ ResumeAcceptor(a)
      PROVE  Still
  <2>1. UNCHANGED <<spc, times>>
    BY <1>2 DEF SetUp, AcceptRaw, AcceptNothing, ReturnCopy, DropRet, ResumeAcceptor,
       serveVars
  <2>2. \E l \in {"raw", "ended", "copy", "wait", "drop", "count", "raw2"} :
           apc' = [apc EXCEPT ![a] = l]
    BY <1>2 DEF SetUp, BindAndListen, AcceptRaw, AcceptNothing, ReturnCopy, DropRet,
       ResumeAcceptor, AGoto
  <2>3. apc[a] # "go"
    <3>1. apc[a] \in {"setup", "raw", "raw2", "copy", "drop"} \/ a \in active[a]
      BY <1>2 DEF SetUp, AcceptRaw, AcceptNothing, ReturnCopy, DropRet, ResumeAcceptor
    <3>2. a \in active[a] => apc[a] = "wait"
      BY ServerAssumption DEF IInv, WaitersAreHeard
    <3>. QED  BY <3>1, <3>2
  <2>4. apc \in [Acceptor -> {"setup", "raw", "wait", "raw2", "copy", "drop", "count",
                              "go", "ended"}]
    BY DEF IInv, TypeOK
  <2>. QED  BY <2>1, <2>2, <2>3, <2>4
<1>3. ASSUME NEW k \in Client,
             Resume(k) \/ Read(k) \/ ReadWait(k) \/ ResumeReader(k) \/ Reread(k)
               \/ Send(k) \/ Delete(k) \/ Expire(k)
      PROVE  Still
  <2>1. UNCHANGED <<apc, times>>
    BY <1>3 DEF Resume, Read, ReadWait, ResumeReader, Reread, Send, Delete, Expire,
       acceptVars
  <2>2. \E l \in {"read", "delete", "send", "rwait", "reread", "sleep", "uncount", "due"} :
           spc' = [spc EXCEPT ![k] = l]
    BY <1>3 DEF Resume, Read, ReadWait, ResumeReader, Reread, ReturnRead, Send, Delete,
       Expire, Goto
  <2>3. spc[k] \notin {"none", "ended"}
    BY <1>3 DEF Resume, Pending, Read, ReadWait, ResumeReader, Reread, Send, Delete,
       Expire, Runs
  <2>4. spc \in [Client -> {"none", "new", "read", "rwait", "reread", "send", "sleep",
                            "due", "delete", "uncount", "ended"}]
    BY DEF IInv, TypeOK
  <2>. QED  BY <2>1, <2>2, <2>3, <2>4
<1>4. ASSUME NEW p \in Proc, Poll(p) \/ EndPass(p) PROVE Still
  BY <1>4 DEF Poll, EndPass, acceptVars, serveVars
<1>5. ASSUME NEW k \in Client, ClientStep(k) \/ Arrive(k) \/ Kill(k) PROVE Still
  BY <1>5 DEF ClientStep, Connect, Ping, Pong, TakeAnswer, CloseClient, Arrive, Kill,
     serverVars, acceptVars, serveVars
<1>6. CASE UNCHANGED vars
  BY <1>1, <1>6 DEF vars, serverVars, acceptVars, serveVars
<1>. HIDE DEF Still
<1>. QED  BY <1>2, <1>3, <1>4, <1>5, <1>6
  DEF Next, ProcStep, AcceptorStep, ServeStep

LEMMA TimesStep == IInv /\ TimesExact /\ [Next]_vars => TimesExact'
<1> SUFFICES ASSUME IInv, TimesExact, [Next]_vars PROVE TimesExact'
  OBVIOUS
<1>1. IsFiniteSet(Transit) /\ IsFiniteSet(OnBooks)
  BY BooksFinite
<1>2. Cardinality(Transit) \in Nat /\ Cardinality(OnBooks) \in Nat
  BY <1>1, FS_CardinalityType
<1>3. /\ apc \in [Acceptor -> {"setup", "raw", "wait", "raw2", "copy", "drop", "count",
                               "go", "ended"}]
      /\ spc \in [Client -> {"none", "new", "read", "rwait", "reread", "send", "sleep",
                             "due", "delete", "uncount", "ended"}]
  BY DEF IInv, TypeOK
<1>4. ASSUME NEW a \in Acceptor, Count(a) PROVE TimesExact'
  <2>1. Transit' = Transit \union {a} /\ a \notin Transit /\ OnBooks' = OnBooks
    BY <1>3, <1>4 DEF Transit, OnBooks, Count, AGoto
  <2>2. Cardinality(Transit') = Cardinality(Transit) + 1
    BY <1>1, <2>1, FS_AddElement
  <2>3. times' = times + 1
    BY <1>4 DEF Count
  <2>. QED  BY <1>2, <2>1, <2>2, <2>3 DEF TimesExact
<1>5. ASSUME NEW a \in Acceptor, CoGo(a) PROVE TimesExact'
  <2>1. got[a] \in Client /\ spc[got[a]] = "none"
    BY <1>5 DEF CoGo, IInv, Hands, TypeOK
  <2>2. Transit' = Transit \ {a} /\ a \in Transit
    BY <1>3, <1>5 DEF Transit, CoGo, AGoto
  <2>3. OnBooks' = OnBooks \union {got[a]} /\ got[a] \notin OnBooks
    BY <1>3, <1>5, <2>1 DEF OnBooks, CoGo, Goto
  <2>4. /\ Cardinality(Transit') = Cardinality(Transit) - 1
        /\ Cardinality(OnBooks') = Cardinality(OnBooks) + 1
    BY <1>1, <2>2, <2>3, FS_AddElement, FS_RemoveElement
  <2>5. times' = times
    BY <1>5 DEF CoGo
  <2>. QED  BY <1>2, <2>4, <2>5 DEF TimesExact
<1>6. ASSUME NEW k \in Client, Uncount(k) PROVE TimesExact'
  <2>1. OnBooks' = OnBooks \ {k} /\ k \in OnBooks /\ Transit' = Transit
    BY <1>3, <1>6 DEF Transit, OnBooks, Uncount, Runs, Goto, acceptVars
  <2>2. Cardinality(OnBooks') = Cardinality(OnBooks) - 1
    BY <1>1, <2>1, FS_RemoveElement
  <2>3. times' = times - 1
    BY <1>6 DEF Uncount
  <2>. QED  BY <1>2, <2>1, <2>2, <2>3 DEF TimesExact
<1>7. CASE Still
  BY <1>7 DEF Still, TimesExact
<1>. QED  BY <1>4, <1>5, <1>6, <1>7, CountedStill

\* For any number of connections, acceptors and processors, what the monitor
\* prints is the number of those that are served, but for those in transit.
THEOREM TheMonitorIsRight == Spec => []TimesCountsServed
<1>1. Init => TimesExact
  <2> SUFFICES ASSUME Init PROVE TimesExact
    OBVIOUS
  <2>1. Transit = {} /\ OnBooks = {} /\ times = 0
    BY DEF Init, Transit, OnBooks
  <2>. QED  BY <2>1, FS_EmptySet DEF TimesExact
<1>2. ASSUME IInv, TimesExact PROVE TimesCountsServed
  <2>. DEFINE S == {k \in Client : Served(k)}
              U == {k \in Client : spc[k] = "uncount"}
  <2>1. IsFiniteSet(S) /\ IsFiniteSet(U) /\ IsFiniteSet(Transit)
    BY <1>2, ServerAssumption, BooksFinite, FS_Subset
  <2>2. OnBooks = S \union U /\ S \intersect U = {}
    BY DEF OnBooks, Served
  <2>3. /\ Cardinality(S) \in Nat /\ Cardinality(U) \in Nat
        /\ Cardinality(Transit) \in Nat
    BY <2>1, FS_CardinalityType
  <2>4. Cardinality(OnBooks) = Cardinality(S) + Cardinality(U)
    <3>1. Cardinality(S \intersect U) = 0
      BY <2>2, FS_EmptySet
    <3>2. Cardinality(S \union U) = Cardinality(S) + Cardinality(U) - Cardinality(S \intersect U)
      BY <2>1, FS_Union
    <3>. QED  BY <2>2, <2>3, <3>1, <3>2
  <2>5. times = Cardinality(Transit) + Cardinality(S) + Cardinality(U)
    BY <1>2, <2>3, <2>4 DEF TimesExact
  <2>. HIDE DEF S, U
  <2>6. Cardinality(S) <= times
    BY <2>3, <2>5
  <2>7. times <= Cardinality(S) + (Cardinality(Transit) + Cardinality(U))
    BY <2>3, <2>5
  <2>. QED  BY <2>6, <2>7 DEF TimesCountsServed, S, U, Transit
<1>. QED  BY <1>1, <1>2, TimesStep, ServerInvariance, PTL DEF Spec

-----------------------------------------------------------------------------
(* What becomes of an answer.                                              *)

Begun == {"none", "new", "read", "rwait", "reread", "send"}

\* The server's answer is on its way only while the client waits for it and has
\* sent nothing more; the server goes on without an answer only when the client
\* is gone, because what epoll reports has really come.
Heard(k) ==
    /\ answer[k] # "lost"
    /\ left[k] < Rounds => answer[k] = "read"
    /\ answer[k] \in {"sent", "arrived"} => inbox[k] = 0 /\ cpc[k] \in {"read", "killed"}
    /\ spc[k] \in Begun => answer[k] = "none"
    /\ spc[k] = "send" => inbox[k] = 0 /\ cpc[k] \in {"read", "killed"}
    /\ spc[k] \notin Begun => answer[k] # "none" \/ ClientClosed(k)
    /\ spc[k] = "reread" => Readable(k)
    /\ \A p \in Proc : k \in active[p] => Readable(k)
    /\ spc[k] = "none" /\ fd[k] # 0 => \E a \in Acceptor : got[a] = k
    /\ cpc[k] \in {"close", "ended"} => left[k] = 0

AnswersHeard == \A k \in Client : Heard(k)

\* What the answer to k depends on stays, but for an event that is taken, a file
\* that is accepted and a coroutine that goes on without having to do with it.
Alike(k) ==
    /\ UNCHANGED <<answer[k], left[k], inbox[k], cpc[k], spc[k]>>
    /\ \A p \in Proc : k \in active'[p] => k \in active[p]
    /\ fd'[k] = fd[k] \/ \E a \in Acceptor : got'[a] = k
    /\ \A a \in Acceptor : got[a] = k => \E b \in Acceptor : got'[b] = k

LEMMA AlikeHeard == ASSUME NEW k \in Client, Heard(k), Alike(k) PROVE Heard(k)'
BY DEF Heard, Alike, Readable, ClientClosed

\* Once the server answers, reads, or is done there is no more in the inbox than
\* the one message that the client waits to see answered.
LEMMA FirstMessage ==
  ASSUME IInv, NEW k \in Client, Heard(k), spc[k] \in Begun, inbox[k] > 0
  PROVE  cpc[k] \in {"read", "killed"}
<1>1. left[k] \in Nat /\ inbox[k] \in Nat /\ Rounds \in Nat \ {0}
  BY ServerAssumption DEF IInv, TypeOK
<1>2. ~(left[k] < Rounds)
  BY DEF Heard
<1>3. cpc[k] \notin {"connect", "send"}
  BY <1>1, <1>2 DEF IInv, PingsBounded
<1>4. cpc[k] \notin {"close", "ended"}
  BY <1>1, <1>2 DEF Heard
<1>5. cpc[k] \in {"connect", "send", "read", "close", "ended", "killed"}
  BY DEF IInv, TypeOK
<1>. QED  BY <1>3, <1>4, <1>5

LEMMA AcceptorHeard ==
  ASSUME IInv, AnswersHeard, NEW a \in Acceptor, AcceptorStep(a)
  PROVE  AnswersHeard'
<1> SUFFICES ASSUME NEW k \in Client PROVE Heard(k)'
  BY DEF AnswersHeard
<1>1. Heard(k)
  BY DEF AnswersHeard
<1>2. CASE SetUp(a) \/ AcceptNothing(a) \/ ReturnCopy(a) \/ Count(a)
  <2>1. UNCHANGED <<answer, left, inbox, cpc, spc, active, fd, got>>
    BY <1>2 DEF SetUp, AcceptNothing, ReturnCopy, Count, loopVars, kernelVars, objectVars,
       serveVars, clientVars
  <2>. QED  BY <1>1, <2>1, AlikeHeard DEF Alike
<1>3. CASE AcceptRaw(a)
  <2>1. PICK j \in backlog[a], n \in FreeFd :
          fd' = [fd EXCEPT ![j] = n] /\ got' = [got EXCEPT ![a] = j]
    BY <1>3 DEF AcceptRaw
  <2>2. UNCHANGED <<answer, left, inbox, cpc, spc, active>>
    BY <1>3 DEF AcceptRaw, loopVars, serveVars, clientVars
  <2>3. got[a] = None
    BY <1>3 DEF AcceptRaw, IInv, Hands
  <2>4. /\ got \in [Acceptor -> Client \union {None}] /\ fd \in [Client -> Fd \union {0}]
        /\ None \notin Client
    BY ServerAssumption DEF IInv, TypeOK
  <2>5. fd'[k] = fd[k] \/ got'[a] = k
    BY <2>1, <2>4
  <2>6. \A b \in Acceptor : got[b] = k => got'[b] = k
    BY <2>1, <2>3, <2>4
  <2>. QED  BY <1>1, <2>2, <2>5, <2>6, AlikeHeard DEF Alike
<1>4. CASE DropRet(a)
  <2>1. ref[got[a]] = 2
    BY <1>4 DEF DropRet, IInv, Hands, Counted
  <2>2. UNCHANGED <<answer, left, inbox, cpc, spc, active, fd, got>>
    BY <1>4, <2>1 DEF DropRet, DestroySocket, loopVars, serveVars, clientVars
  <2>. QED  BY <1>1, <2>2, AlikeHeard DEF Alike
<1>5. CASE CoGo(a)
  <2>1. /\ UNCHANGED <<answer, left, inbox, cpc, active, fd>>
        /\ spc' = [spc EXCEPT ![got[a]] = "new"] /\ got' = [got EXCEPT ![a] = None]
    BY <1>5 DEF CoGo, Goto, loopVars, kernelVars, objectVars, clientVars
  <2>2. /\ got \in [Acceptor -> Client \union {None}]
        /\ spc \in [Client -> {"none", "new", "read", "rwait", "reread", "send", "sleep",
                               "due", "delete", "uncount", "ended"}]
    BY DEF IInv, TypeOK
  <2>3. spc[got[a]] = "none"
    BY <1>5 DEF CoGo, IInv, Hands
  <2>4. CASE k = got[a]
    <3>1. spc[k] = "none" /\ spc'[k] = "new"
      BY <2>1, <2>2, <2>3, <2>4
    <3>. QED  BY <1>1, <2>1, <3>1 DEF Heard, Begun, Readable, ClientClosed
  <2>5. CASE k # got[a]
    <3>1. spc'[k] = spc[k] /\ \A b \in Acceptor : got[b] = k => got'[b] = k
      BY <2>1, <2>2, <2>5
    <3>. QED  BY <1>1, <2>1, <3>1, AlikeHeard DEF Alike
  <2>. QED  BY <2>4, <2>5
<1>6. CASE ResumeAcceptor(a)
  <2>1. /\ UNCHANGED <<answer, left, inbox, cpc, spc, fd, got>>
        /\ active' = [active EXCEPT ![a] = @ \ {a}]
    BY <1>6 DEF ResumeAcceptor, kernelVars, objectVars, serveVars, clientVars
  <2>2. \A p \in Proc : k \in active'[p] => k \in active[p]
    BY <2>1 DEF IInv, TypeOK
  <2>. QED  BY <1>1, <2>1, <2>2, AlikeHeard DEF Alike
<1>. QED  BY <1>2, <1>3, <1>4, <1>5, <1>6 DEF AcceptorStep

\* The step of connection j's coroutine leaves what it does not name.
LEMMA OthersHeard ==
  ASSUME IInv, AnswersHeard, NEW j \in Client, NEW k \in Client \ {j},
         UNCHANGED <<answer[k], left[k], inbox[k], cpc[k], spc[k], fd, got>>,
         \A p \in Proc : k \in active'[p] => k \in active[p]
  PROVE  Heard(k)'
BY AlikeHeard DEF Alike, AnswersHeard

SpcType == spc \in [Client -> {"none", "new", "read", "rwait", "reread", "send", "sleep",
                               "due", "delete", "uncount", "ended"}]

\* Read and Reread: what has come is answered, or the client is gone.
LEMMA ReturnReadHeard ==
  ASSUME IInv, AnswersHeard, NEW j \in Client, spc[j] \in {"read", "reread"},
         Readable(j), ReturnRead(j),
         UNCHANGED <<answer, left, cpc, fd, got, active>>
  PROVE  AnswersHeard'
<1> SUFFICES ASSUME NEW k \in Client PROVE Heard(k)'
  BY DEF AnswersHeard
<1>1. Heard(k) /\ Heard(j)
  BY DEF AnswersHeard
<1>2. SpcType /\ inbox \in [Client -> 0..Rounds] /\ Rounds \in Nat
  BY ServerAssumption DEF IInv, TypeOK, SpcType
<1>3. /\ spc' = [spc EXCEPT ![j] = IF inbox[j] > 0 THEN "send" ELSE "delete"]
      /\ inbox' = [inbox EXCEPT ![j] = 0]
  BY DEF ReturnRead, Goto
<1>4. CASE k # j
  <2>1. spc'[k] = spc[k] /\ inbox'[k] = inbox[k]
    BY <1>2, <1>3, <1>4 DEF SpcType
  <2>. QED  BY <1>4, <2>1, OthersHeard
<1>5. CASE k = j
  <2>1. \A p \in Proc : k \notin active[p]
    BY <1>5 DEF IInv, WaitersAreHeard
  <2>2. inbox'[k] = 0 /\ answer[k] = "none"
    BY <1>1, <1>2, <1>3, <1>5 DEF Heard, Begun
  <2>3. CASE inbox[k] > 0
    <3>1. spc'[k] = "send"
      BY <1>2, <1>3, <1>5, <2>3 DEF SpcType
    <3>2. cpc[k] \in {"read", "killed"}
      BY <1>1, <1>5, <2>3, FirstMessage DEF Begun
    <3>. QED  BY <1>1, <2>1, <2>2, <3>1, <3>2 DEF Heard, Begun
  <2>4. CASE ~(inbox[k] > 0)
    <3>1. spc'[k] = "delete"
      BY <1>2, <1>3, <1>5, <2>4 DEF SpcType
    <3>2. ClientClosed(k)
      BY <1>5, <2>4 DEF Readable
    <3>. QED  BY <1>1, <2>1, <2>2, <3>1, <3>2 DEF Heard, Begun, ClientClosed
  <2>. QED  BY <2>3, <2>4
<1>. QED  BY <1>4, <1>5

LEMMA ServeHeard ==
  ASSUME IInv, AnswersHeard, NEW j \in Client, on[j] \in Proc, ServeStep(j)
  PROVE  AnswersHeard'
<1>1. SpcType
  BY DEF IInv, TypeOK, SpcType
<1>2. CASE Read(j)
  BY <1>2, ReturnReadHeard DEF Read, Runs, loopVars, objectVars, acceptVars, clientVars
<1>3. CASE Reread(j)
  <2>1. Readable(j)
    BY <1>3 DEF Reread, Runs, AnswersHeard, Heard
  <2>. QED  BY <1>3, <2>1, ReturnReadHeard
    DEF Reread, Runs, loopVars, objectVars, acceptVars, clientVars
<1>4. SUFFICES ASSUME ~Read(j), ~Reread(j), NEW k \in Client PROVE Heard(k)'
  BY <1>2, <1>3 DEF AnswersHeard
<1>5. Heard(k) /\ Heard(j)
  BY DEF AnswersHeard
<1>6. CASE Resume(j)
  <2>1. /\ UNCHANGED <<answer, left, inbox, cpc, fd, got, active>>
        /\ spc' = [spc EXCEPT ![j] = IF spc[j] = "new" THEN "read" ELSE "delete"]
        /\ spc[j] \in {"new", "due"}
    BY <1>6 DEF Resume, Pending, Goto, kernelVars, objectVars, acceptVars, clientVars
  <2>2. CASE k # j
    <3>1. spc'[k] = spc[k]
      BY <1>1, <2>1, <2>2 DEF SpcType
    <3>. QED  BY <2>1, <2>2, <3>1, OthersHeard
  <2>3. CASE k = j
    <3>1. spc'[k] = IF spc[k] = "new" THEN "read" ELSE "delete"
      BY <1>1, <2>1, <2>3 DEF SpcType
    <3>. QED  BY <1>5, <2>1, <2>3, <3>1 DEF Heard, Begun, Readable, ClientClosed
  <2>. QED  BY <2>2, <2>3
<1>7. CASE ReadWait(j)
  <2>1. /\ UNCHANGED <<answer, left, inbox, cpc, fd, got, active>>
        /\ spc' = [spc EXCEPT ![j] = "rwait"] /\ spc[j] = "read"
    BY <1>7 DEF ReadWait, Runs, Goto, objectVars, acceptVars, clientVars
  <2>2. CASE k # j
    <3>1. spc'[k] = spc[k]
      BY <1>1, <2>1, <2>2 DEF SpcType
    <3>. QED  BY <2>1, <2>2, <3>1, OthersHeard
  <2>3. CASE k = j
    <3>1. spc'[k] = "rwait"
      BY <1>1, <2>1, <2>3 DEF SpcType
    <3>. QED  BY <1>5, <2>1, <2>3, <3>1 DEF Heard, Begun, Readable, ClientClosed
  <2>. QED  BY <2>2, <2>3
<1>8. CASE ResumeReader(j)
  <2>1. /\ UNCHANGED <<answer, left, inbox, cpc, fd, got>>
        /\ active' = [active EXCEPT ![on[j]] = @ \ {j}] /\ j \in active[on[j]]
        /\ spc' = [spc EXCEPT ![j] = "reread"] /\ spc[j] = "rwait"
    BY <1>8 DEF ResumeReader, Goto, objectVars, acceptVars, clientVars
  <2>2. active \in [Proc -> SUBSET (Client \union Proc)] /\ on \in [Client -> Proc \union {None}]
    BY DEF IInv, TypeOK
  <2>3. \A p \in Proc : k \in active'[p] => k \in active[p]
    BY <2>1, <2>2
  <2>4. CASE k # j
    <3>1. spc'[k] = spc[k]
      BY <1>1, <2>1, <2>4 DEF SpcType
    <3>. QED  BY <2>1, <2>3, <2>4, <3>1, OthersHeard
  <2>5. CASE k = j
    <3>1. spc'[k] = "reread"
      BY <1>1, <2>1, <2>5 DEF SpcType
    <3>2. Readable(k)
      BY <1>5, <2>1, <2>5 DEF Heard
    <3>. QED  BY <1>5, <2>1, <2>3, <2>5, <3>1, <3>2
      DEF Heard, Begun, Readable, ClientClosed
  <2>. QED  BY <2>4, <2>5
<1>9. CASE Send(j)
  <2>1. /\ UNCHANGED <<left, inbox, cpc, fd, got, active>>
        /\ answer' = IF ClientClosed(j) THEN answer ELSE [answer EXCEPT ![j] = "sent"]
        /\ spc' = [spc EXCEPT ![j] = "sleep"] /\ spc[j] = "send"
    BY <1>9 DEF Send, Runs, Goto, objectVars, acceptVars, clientVars
  <2>2. answer \in [Client -> {"none", "sent", "arrived", "read", "lost"}]
    BY DEF IInv, TypeOK
  <2>3. CASE k # j
    <3>1. spc'[k] = spc[k] /\ answer'[k] = answer[k]
      BY <1>1, <2>1, <2>2, <2>3 DEF SpcType
    <3>. QED  BY <2>1, <2>3, <3>1, OthersHeard
  <2>4. CASE k = j
    <3>1. spc'[k] = "sleep"
      BY <1>1, <2>1, <2>4 DEF SpcType
    <3>2. answer'[k] = IF ClientClosed(k) THEN "none" ELSE "sent"
      BY <1>5, <2>1, <2>2, <2>4 DEF Heard, Begun
    <3>3. \A p \in Proc : k \notin active[p]
      BY <2>1, <2>4 DEF IInv, WaitersAreHeard
    <3>4. ~(left[k] < Rounds)
      BY <1>5, <2>1, <2>4 DEF Heard, Begun
    <3>. QED  BY <1>5, <2>1, <2>4, <3>1, <3>2, <3>3, <3>4
      DEF Heard, Begun, Readable, ClientClosed
  <2>. QED  BY <2>3, <2>4
<1>10. CASE Delete(j)
  <2>1. ref[j] = 1
    BY <1>10 DEF Delete, Runs, IInv, Counted, Served
  <2>2. /\ UNCHANGED <<left, inbox, cpc, fd, got, active>>
        /\ answer' = IF inbox[j] > 0 /\ answer[j] = "sent"
                     THEN [answer EXCEPT ![j] = "lost"] ELSE answer
        /\ spc' = [spc EXCEPT ![j] = "uncount"] /\ spc[j] = "delete"
    BY <1>10, <2>1 DEF Delete, Runs, Goto, DestroySocket, Close, loopVars, acceptVars, clientVars
  <2>3. answer' = answer
    BY <1>5, <2>2 DEF Heard
  <2>4. CASE k # j
    <3>1. spc'[k] = spc[k]
      BY <1>1, <2>2, <2>4 DEF SpcType
    <3>. QED  BY <2>2, <2>3, <2>4, <3>1, OthersHeard
  <2>5. CASE k = j
    <3>1. spc'[k] = "uncount"
      BY <1>1, <2>2, <2>5 DEF SpcType
    <3>. QED  BY <1>5, <2>2, <2>3, <2>5, <3>1 DEF Heard, Begun, Readable, ClientClosed
  <2>. QED  BY <2>4, <2>5
<1>11. CASE Uncount(j)
  <2>1. /\ UNCHANGED <<answer, left, inbox, cpc, fd, got, active>>
        /\ spc' = [spc EXCEPT ![j] = "ended"] /\ spc[j] = "uncount"
    BY <1>11 DEF Uncount, Runs, Goto, kernelVars, objectVars, acceptVars, clientVars
  <2>2. CASE k # j
    <3>1. spc'[k] = spc[k]
      BY <1>1, <2>1, <2>2 DEF SpcType
    <3>. QED  BY <2>1, <2>2, <3>1, OthersHeard
  <2>3. CASE k = j
    <3>1. spc'[k] = "ended"
      BY <1>1, <2>1, <2>3 DEF SpcType
    <3>. QED  BY <1>5, <2>1, <2>3, <3>1 DEF Heard, Begun, Readable, ClientClosed
  <2>. QED  BY <2>2, <2>3
<1>. QED  BY <1>4, <1>6, <1>7, <1>8, <1>9, <1>10, <1>11 DEF ServeStep

LEMMA PollHeard ==
  ASSUME IInv, AnswersHeard, NEW p \in Proc, Poll(p) PROVE AnswersHeard'
<1> SUFFICES ASSUME NEW k \in Client PROVE Heard(k)'
  BY DEF AnswersHeard
<1>1. Heard(k)
  BY DEF AnswersHeard
<1>2. PICK S \in SUBSET Ready(p) : active' = [active EXCEPT ![p] = S]
  BY DEF Poll
<1>3. UNCHANGED <<answer, left, inbox, cpc, spc, fd, got>>
  BY DEF Poll, kernelVars, objectVars, acceptVars, serveVars, clientVars
<1>4. k \in S => Readable(k)
  BY <1>2, ServerAssumption DEF Ready
<1>5. \A q \in Proc : k \in active'[q] => k \in active[q] \/ Readable(k)
  BY <1>2, <1>4 DEF IInv, TypeOK
<1>. QED  BY <1>1, <1>3, <1>5 DEF Heard, Readable, ClientClosed

\* A client finds the file closed only when the coroutine of its connection is
\* over, since whoever holds a Socket keeps it open.
LEMMA ClosedIsOver ==
  ASSUME IInv, NEW k \in Client, Heard(k), ServerClosed(k)
  PROVE  spc[k] \notin Begun
<1>1. ~Held(k)
  BY DEF ServerClosed, IInv, Files
<1>2. spc[k] \in {"none", "uncount", "ended"}
  BY <1>1 DEF Held, Served
<1>3. spc[k] # "none"
  BY <1>1 DEF Heard, Held, ServerClosed
<1>. QED  BY <1>2, <1>3 DEF Begun

LEMMA ClientHeard ==
  ASSUME IInv, AnswersHeard, NEW j \in Client,
         ClientStep(j) \/ Arrive(j) \/ Kill(j) \/ Expire(j)
  PROVE  AnswersHeard'
<1> SUFFICES ASSUME NEW k \in Client PROVE Heard(k)'
  BY DEF AnswersHeard
<1>1. Heard(k) /\ Heard(j)
  BY DEF AnswersHeard
<1>2. /\ cpc \in [Client -> {"connect", "send", "read", "close", "ended", "killed"}]
      /\ answer \in [Client -> {"none", "sent", "arrived", "read", "lost"}]
      /\ inbox \in [Client -> 0..Rounds] /\ left \in [Client -> 0..Rounds]
      /\ Rounds \in Nat \ {0} /\ SpcType
  BY ServerAssumption DEF IInv, TypeOK, SpcType
<1>3. UNCHANGED <<fd, got, active>>
  BY DEF ClientStep, Connect, Ping, Pong, TakeAnswer, CloseClient, Arrive, Kill, Expire,
     serverVars, loopVars, objectVars, acceptVars
<1>4. CASE Connect(j) \/ CloseClient(j) \/ Kill(j)
  <2>1. UNCHANGED <<answer, left, inbox, spc>>
    BY <1>4 DEF Connect, CloseClient, Kill, serverVars, kernelVars, serveVars
  <2>2. \/ cpc[j] = "connect" /\ cpc' = [cpc EXCEPT ![j] = "send"]
        \/ cpc[j] = "close" /\ cpc' = [cpc EXCEPT ![j] = "ended"]
        \/ cpc[j] \in {"send", "read"} /\ cpc' = [cpc EXCEPT ![j] = "killed"]
    BY <1>4 DEF Connect, CloseClient, Kill, CGoto
  <2>3. CASE k # j
    <3>1. cpc'[k] = cpc[k]
      BY <1>2, <2>2, <2>3
    <3>. QED  BY <1>3, <2>1, <2>3, <3>1, OthersHeard
  <2>4. CASE k = j
    <3>1. \/ cpc[k] = "connect" /\ cpc'[k] = "send"
          \/ cpc[k] = "close" /\ cpc'[k] = "ended"
          \/ cpc[k] \in {"send", "read"} /\ cpc'[k] = "killed"
      BY <1>2, <2>2, <2>4
    <3>. QED  BY <1>1, <1>3, <2>1, <3>1 DEF Heard, Readable, ClientClosed
  <2>. QED  BY <2>3, <2>4
<1>5. CASE Ping(j)
  <2>1. /\ UNCHANGED <<answer, left, spc>>
        /\ inbox' = IF ServerClosed(j) THEN inbox ELSE [inbox EXCEPT ![j] = @ + 1]
        /\ cpc[j] = "send" /\ cpc' = [cpc EXCEPT ![j] = "read"]
    BY <1>5 DEF Ping, CGoto, serverVars, serveVars
  <2>2. CASE k # j
    <3>1. cpc'[k] = cpc[k] /\ inbox'[k] = inbox[k]
      BY <1>2, <2>1, <2>2
    <3>. QED  BY <1>3, <2>1, <2>2, <3>1, OthersHeard
  <2>3. CASE k = j
    <3>1. cpc[k] = "send" /\ cpc'[k] = "read"
      BY <1>2, <2>1, <2>3
    <3>2. inbox[k] > 0 => inbox'[k] > 0
      BY <1>2, <2>1, <2>3
    <3>. QED  BY <1>1, <1>3, <2>1, <3>1, <3>2 DEF Heard, Readable, ClientClosed
  <2>. QED  BY <2>2, <2>3
<1>6. CASE Pong(j)
  <2>1. /\ UNCHANGED <<inbox, spc>> /\ cpc[j] = "read"
        /\ answer[j] = "arrived" \/ (ServerClosed(j) /\ answer[j] # "sent")
        /\ answer' = IF answer[j] = "arrived" THEN [answer EXCEPT ![j] = "read"] ELSE answer
        /\ left' = [left EXCEPT ![j] = @ - 1]
        /\ cpc' = [cpc EXCEPT ![j] = IF left[j] = 1 THEN "close" ELSE "send"]
    BY <1>6 DEF Pong, TakeAnswer, CGoto, serverVars, serveVars
  <2>2. CASE k # j
    <3>1. cpc'[k] = cpc[k] /\ answer'[k] = answer[k] /\ left'[k] = left[k]
      BY <1>2, <2>1, <2>2
    <3>. QED  BY <1>3, <2>1, <2>2, <3>1, OthersHeard
  <2>3. CASE k = j
    <3>1. spc[k] \notin Begun
      <4>1. CASE answer[j] = "arrived"
        BY <1>1, <2>3, <4>1 DEF Heard
      <4>2. CASE ServerClosed(j)
        BY <1>1, <2>3, <4>2, ClosedIsOver
      <4>. QED  BY <2>1, <4>1, <4>2
    <3>2. answer[k] \in {"arrived", "read"}
      BY <1>1, <1>2, <2>1, <2>3, <3>1 DEF Heard, ClientClosed
    <3>3. answer'[k] = "read"
      BY <1>2, <2>1, <2>3, <3>2
    <3>4. cpc'[k] = (IF left[k] = 1 THEN "close" ELSE "send") /\ left'[k] = left[k] - 1
      BY <1>2, <2>1, <2>3
    <3>5. cpc'[k] \in {"close", "ended"} => left'[k] = 0
      BY <3>4
    <3>6. \A p \in Proc : k \notin active[p]
      BY <3>1 DEF IInv, WaitersAreHeard, Begun
    <3>7. spc[k] \notin {"send", "reread", "none"}
      BY <3>1 DEF Begun
    <3>. QED  BY <1>3, <2>1, <3>1, <3>3, <3>5, <3>6, <3>7 DEF Heard
  <2>. QED  BY <2>2, <2>3
<1>7. CASE Arrive(j)
  <2>1. /\ UNCHANGED <<left, inbox, spc, cpc>>
        /\ answer[j] = "sent" /\ answer' = [answer EXCEPT ![j] = "arrived"]
    BY <1>7 DEF Arrive, serverVars, serveVars, clientVars
  <2>2. CASE k # j
    <3>1. answer'[k] = answer[k]
      BY <1>2, <2>1, <2>2
    <3>. QED  BY <1>3, <2>1, <2>2, <3>1, OthersHeard
  <2>3. CASE k = j
    <3>1. answer[k] = "sent" /\ answer'[k] = "arrived"
      BY <1>2, <2>1, <2>3
    <3>. QED  BY <1>1, <1>3, <2>1, <3>1 DEF Heard, Readable, ClientClosed
  <2>. QED  BY <2>2, <2>3
<1>8. CASE Expire(j)
  <2>1. /\ UNCHANGED <<answer, left, inbox, cpc>>
        /\ spc[j] = "sleep" /\ spc' = [spc EXCEPT ![j] = "due"]
    BY <1>8 DEF Expire, Goto, kernelVars, clientVars
  <2>2. CASE k # j
    <3>1. spc'[k] = spc[k]
      BY <1>2, <2>1, <2>2 DEF SpcType
    <3>. QED  BY <1>3, <2>1, <2>2, <3>1, OthersHeard
  <2>3. CASE k = j
    <3>1. spc[k] = "sleep" /\ spc'[k] = "due"
      BY <1>2, <2>1, <2>3 DEF SpcType
    <3>. QED  BY <1>1, <1>3, <2>1, <3>1 DEF Heard, Begun, Readable, ClientClosed
  <2>. QED  BY <2>2, <2>3
<1>. QED  BY <1>4, <1>5, <1>6, <1>7, <1>8 DEF ClientStep

LEMMA AnswersStep == IInv /\ AnswersHeard /\ [Next]_vars => AnswersHeard'
<1> SUFFICES ASSUME IInv, AnswersHeard, [Next]_vars PROVE AnswersHeard'
  OBVIOUS
<1>1. ASSUME UNCHANGED <<answer, left, inbox, cpc, spc, active, fd, got>>
      PROVE  AnswersHeard'
  BY <1>1, AlikeHeard DEF AnswersHeard, Alike
<1>2. ASSUME NEW p \in Proc, EndPass(p) PROVE AnswersHeard'
  BY <1>1, <1>2 DEF EndPass, kernelVars, objectVars, acceptVars, serveVars, clientVars
<1>3. CASE UNCHANGED vars
  BY <1>1, <1>3 DEF vars, serverVars, loopVars, kernelVars, objectVars, acceptVars,
     serveVars, clientVars
<1>. QED  BY <1>2, <1>3, AcceptorHeard, ServeHeard, PollHeard, ClientHeard
  DEF Next, ProcStep

\* For any number of exchanges, clients and processors: a client that has seen an
\* exchange to its end has got the server's answer, and no answer is ever lost.
THEOREM NoAnswerIsLost == Spec => []AnswerIsHeard
<1>1. Init => AnswersHeard
  <2> SUFFICES ASSUME Init, NEW k \in Client PROVE Heard(k)
    BY DEF AnswersHeard
  <2>1. Rounds \in Nat /\ ~(Rounds < Rounds)
    BY ServerAssumption
  <2>. QED  BY <2>1 DEF Init, Heard, Begun
<1>2. AnswersHeard => AnswerIsHeard
  BY DEF AnswersHeard, Heard, AnswerIsHeard
<1>. QED  BY <1>1, <1>2, AnswersStep, ServerInvariance, PTL DEF Spec
=============================================================================
