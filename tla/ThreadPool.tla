----------------------------- MODULE ThreadPool -----------------------------
(***************************************************************************)
(* The connection server: the main thread of Server::run, which accepts     *)
(* connections and hands each to a slot of the pool, and the worker threads *)
(* of the slots (Server/Headers/Server.cpp and Thread.cpp).                 *)
(*                                                                          *)
(* The two kinds of thread share the fields free, destroyed, handle and     *)
(* data.client of every slot, and Server::exit, with no lock.  One action   *)
(* is one access of a shared field or one system call, in program order     *)
(* (the build sets no optimisation level); an access that only its own      *)
(* thread can observe is merged with the next one.  What a session says on  *)
(* its connection is abstracted: a handler runs until it returns, ends the  *)
(* server or throws (stoi of what a closed connection yields).              *)
(***************************************************************************)
EXTENDS Naturals, Sequences

CONSTANTS
    CLIENTS,     \* number of slots of the pool, and the backlog of listen()
    Conns,       \* the connections clients make
    Tids,        \* the kernel threads that may come to exist
    Handles,     \* the values a HANDLE can take
    Null,        \* nullptr, or a client field that was never written
    NoThread,    \* what a HANDLE value that is not open refers to
    thread0,     \* the thread createThreads made for each slot ...
    handle0      \* ... and its HANDLE, kept in Server::handles and never updated

Slots == 0 .. CLIENTS - 1

ASSUME ClientsAssumption == CLIENTS \in Nat \ {0}
ASSUME NullAssumption == Null \notin Handles /\ Null \notin Conns
ASSUME NoThreadAssumption == NoThread \notin Tids
ASSUME Thread0Assumption ==
    /\ thread0 \in [Slots -> Tids]
    /\ \A s, r \in Slots : s # r => thread0[s] # thread0[r]
ASSUME Handle0Assumption ==
    /\ handle0 \in [Slots -> Handles]
    /\ \A s, r \in Slots : s # r => handle0[s] # handle0[r]

VARIABLES
    pc,          \* where the main thread is
    i,           \* its local i in Server::threadPool
    sock,        \* its local client in Server::processReq
    waitOn,      \* the threads WaitForMultipleObjects waits on
    exit,        \* Server::exit
    down,        \* the process has ended
    free, destroyed, handle, client,      \* the fields of Server::pool
    tstate, tslot, reg,   \* per thread: program counter, slot, loaded HANDLE
    owner,       \* kernel handle table: the thread an open HANDLE refers to
    backlog,     \* connections waiting in the listening socket
    conn         \* what has become of each connection

mainVars   == <<pc, i, sock, waitOn>>
slotVars   == <<free, destroyed, handle, client>>
threadVars == <<tstate, tslot, reg>>
netVars    == <<backlog, conn>>
procVars   == <<exit, down>>
vars == <<mainVars, procVars, slotVars, threadVars, owner, netVars>>

(* Threads that have not yet given their slot back. *)
EarlyStates == {"suspended", "handler", "setFree1", "setFree2"}
Early(t)   == tstate[t] \in EarlyStates
Running(t) == tstate[t] = "handler"

-----------------------------------------------------------------------------
InPool(t)   == \E s \in Slots : thread0[s] = t
SlotOf(t)   == CHOOSE s \in Slots : thread0[s] = t
SlotWith(h) == CHOOSE s \in Slots : handle0[s] = h

(* After Server::start: every slot has a suspended thread of its own and    *)
(* handles holds a copy of its HANDLE.                                       *)
Init ==
    /\ pc = "loop" /\ i = 0 /\ sock = Null /\ waitOn = {}
    /\ exit = FALSE /\ down = FALSE
    /\ handle = handle0
    /\ tstate = [t \in Tids |-> IF InPool(t) THEN "suspended" ELSE "none"]
    /\ tslot = [t \in Tids |-> IF InPool(t) THEN SlotOf(t) ELSE 0]
    /\ owner = [h \in Handles |->
                  IF \E s \in Slots : handle0[s] = h THEN thread0[SlotWith(h)] ELSE NoThread]
    /\ free = [s \in Slots |-> TRUE]
    /\ destroyed = [s \in Slots |-> FALSE]
    /\ client = [s \in Slots |-> Null]
    /\ reg = [t \in Tids |-> Null]
    /\ backlog = <<>>
    /\ conn = [c \in Conns |-> "idle"]

-----------------------------------------------------------------------------
(* CloseHandle of v: a value that is not open is an error the code ignores. *)
AfterClose(v) == [h \in Handles |-> IF h = v THEN NoThread ELSE owner[h]]

(* The main thread goes on from one point of Server::run to another. *)
MainStep(from, to) ==
    ~down /\ pc = from /\ pc' = to /\ UNCHANGED <<waitOn, procVars>>

(* A client connects: the kernel queues it while the backlog has room. *)
Connect(c) ==
    /\ ~down /\ conn[c] = "idle" /\ Len(backlog) < CLIENTS
    /\ backlog' = Append(backlog, c)
    /\ conn' = [conn EXCEPT ![c] = "queued"]
    /\ UNCHANGED <<mainVars, procVars, slotVars, threadVars, owner>>

(* while (!exit) *)
Loop ==
    /\ MainStep("loop", IF exit THEN "wait" ELSE "select")
    /\ UNCHANGED <<i, sock, slotVars, threadVars, owner, netVars>>

(* select times out, or reports the listening socket and accept takes the   *)
(* oldest connection.                                                        *)
Select ==
    /\ \/ /\ backlog = <<>> /\ MainStep("select", "loop")
          /\ UNCHANGED <<i, sock, netVars>>
       \/ /\ backlog # <<>> /\ MainStep("select", "isFree") /\ i' = 0
          /\ sock' = Head(backlog) /\ backlog' = Tail(backlog)
          /\ conn' = [conn EXCEPT ![Head(backlog)] = "accepted"]
    /\ UNCHANGED <<slotVars, threadVars, owner>>

(* Mutated steps, none of them part of Next: each property is refuted by    *)
(* the one named for it in the project's list of mutants.                   *)
ReadFreeSkipped ==         \* available() tests only destroyed
    /\ MainStep("isFree", "notDestroyed")
    /\ UNCHANGED <<i, sock, slotVars, threadVars, owner, netVars>>

ReadDestroyedSkipped ==    \* threadPool() recreates any slot that is not available
    /\ MainStep("isDestroyed", "createFree")
    /\ UNCHANGED <<i, sock, slotVars, threadVars, owner, netVars>>

ReadDestroyedPastEnd ==    \* i <= CLIENTS
    /\ \/ destroyed[i] /\ MainStep("isDestroyed", "createFree") /\ UNCHANGED i
       \/ ~destroyed[i] /\ MainStep("isDestroyed", "isFree") /\ i' = i + 1
    /\ UNCHANGED <<sock, slotVars, threadVars, owner, netVars>>

ReadDestroyedWaits ==      \* a full pool is scanned again until a slot is given back
    /\ \/ destroyed[i] /\ MainStep("isDestroyed", "createFree") /\ UNCHANGED i
       \/ ~destroyed[i] /\ MainStep("isDestroyed", "isFree") /\ i' = (i + 1) % CLIENTS
    /\ UNCHANGED <<sock, slotVars, threadVars, owner, netVars>>

EnterFreeDropped ==        \* enter() leaves free TRUE
    /\ MainStep("enterFree", "enterDestroyed")
    /\ UNCHANGED <<i, sock, slotVars, threadVars, owner, netVars>>

EnterClientShared ==       \* data.client is one field of all slots
    /\ MainStep("enterClient", "resume")
    /\ client' = [s \in Slots |-> sock]
    /\ UNCHANGED <<i, sock, free, destroyed, handle, threadVars, owner, netVars>>

(* available(): free is read, and destroyed only if it was TRUE. *)
ReadFree ==
    /\ MainStep("isFree", IF free[i] THEN "notDestroyed" ELSE "isDestroyed")
    /\ UNCHANGED <<i, sock, slotVars, threadVars, owner, netVars>>

ReadNotDestroyed ==
    /\ MainStep("notDestroyed", IF destroyed[i] THEN "isDestroyed" ELSE "enterFree")
    /\ UNCHANGED <<i, sock, slotVars, threadVars, owner, netVars>>

(* isDestroyed() of the slot; after the last one of the loop the client is  *)
(* only reported, "No space left in the pool".                              *)
ReadDestroyed ==
    /\ \/ /\ destroyed[i] /\ MainStep("isDestroyed", "createFree")
          /\ UNCHANGED <<i, conn>>
       \/ /\ ~destroyed[i] /\ i + 1 < CLIENTS /\ MainStep("isDestroyed", "isFree")
          /\ i' = i + 1 /\ UNCHANGED conn
       \/ /\ ~destroyed[i] /\ i + 1 >= CLIENTS /\ MainStep("isDestroyed", "loop")
          /\ conn' = [conn EXCEPT ![sock] = "turnedAway"] /\ UNCHANGED i
    /\ UNCHANGED <<sock, slotVars, threadVars, owner, backlog>>

-----------------------------------------------------------------------------
(* Thread::create *)
CreateFree ==
    /\ MainStep("createFree", "createDestroyed")
    /\ free' = [free EXCEPT ![i] = TRUE]
    /\ UNCHANGED <<i, sock, destroyed, handle, client, threadVars, owner, netVars>>

CreateDestroyed ==
    /\ MainStep("createDestroyed", "createClose")
    /\ destroyed' = [destroyed EXCEPT ![i] = FALSE]
    /\ UNCHANGED <<i, sock, free, handle, client, threadVars, owner, netVars>>

CreateClose ==
    /\ MainStep("createClose", "createThread")
    /\ owner' = AfterClose(handle[i])
    /\ UNCHANGED <<i, sock, slotVars, threadVars, netVars>>

(* handle = nullptr, then CreateThread: the kernel may give the new thread  *)
(* any HANDLE value that is not open, a closed one included.                *)
CreateThread ==
    /\ MainStep("createThread", "enterFree")
    /\ \E t \in Tids, h \in Handles :
         /\ tstate[t] = "none" /\ owner[h] = NoThread
         /\ handle' = [handle EXCEPT ![i] = h]
         /\ owner' = [owner EXCEPT ![h] = t]
         /\ tstate' = [tstate EXCEPT ![t] = "suspended"]
         /\ tslot' = [tslot EXCEPT ![t] = i]
    /\ UNCHANGED <<i, sock, free, destroyed, client, reg, netVars>>

(* Thread::enter *)
EnterFree ==
    /\ MainStep("enterFree", "enterDestroyed")
    /\ free' = [free EXCEPT ![i] = FALSE]
    /\ UNCHANGED <<i, sock, destroyed, handle, client, threadVars, owner, netVars>>

EnterDestroyed ==
    /\ MainStep("enterDestroyed", "enterClient")
    /\ destroyed' = [destroyed EXCEPT ![i] = FALSE]
    /\ UNCHANGED <<i, sock, free, handle, client, threadVars, owner, netVars>>

EnterClient ==
    /\ MainStep("enterClient", "resume")
    /\ client' = [client EXCEPT ![i] = sock]
    /\ UNCHANGED <<i, sock, free, destroyed, handle, threadVars, owner, netVars>>

(* ResumeThread starts the thread the HANDLE refers to if it is suspended,  *)
(* has no effect on a running one and fails on a value that is not open;    *)
(* enter() ignores its result.  conn records which client a session began   *)
(* for: the one main is entering, a client lost earlier whose thread has    *)
(* been left suspended behind a recycled HANDLE value, or none.             *)
Suspended(h) == {t \in Tids : h \in Handles /\ owner[h] = t /\ tstate[t] = "suspended"}

Resume ==
    /\ MainStep("resume", "loop")
    /\ tstate' = [t \in Tids |->
                    IF t \in Suspended(handle[i]) THEN "handler" ELSE tstate[t]]
    /\ conn' = [c \in Conns |->
                    IF \E t \in Suspended(handle[i]) : client[tslot[t]] = c THEN "served"
                    ELSE IF c = sock THEN "lost" ELSE conn[c]]
    /\ UNCHANGED <<i, sock, slotVars, tslot, reg, owner, backlog>>

-----------------------------------------------------------------------------
(* WaitForMultipleObjects(CLIENTS, handles, FALSE, INFINITE) fails at once  *)
(* if one of the values is not open; otherwise it returns when any of the   *)
(* threads has ended.  Then main returns and the process ends with it.      *)
WaitFails ==
    /\ ~down /\ pc = "wait"
    /\ \E s \in Slots : owner[handle0[s]] = NoThread
    /\ down' = TRUE
    /\ UNCHANGED <<mainVars, exit, slotVars, threadVars, owner, netVars>>

WaitBegins ==
    /\ ~down /\ pc = "wait" /\ pc' = "waiting"
    /\ \A s \in Slots : owner[handle0[s]] # NoThread
    /\ waitOn' = {owner[handle0[s]] : s \in Slots}
    /\ UNCHANGED <<i, sock, procVars, slotVars, threadVars, owner, netVars>>

WaitReturns ==
    /\ ~down /\ pc = "waiting"
    /\ \E t \in waitOn : tstate[t] = "done"
    /\ down' = TRUE
    /\ UNCHANGED <<mainVars, exit, slotVars, threadVars, owner, netVars>>

-----------------------------------------------------------------------------
(* worker(): the handler of the session, then setFree and CloseThread. *)
Step(t, from, to) ==
    /\ ~down /\ tstate[t] = from
    /\ tstate' = [tstate EXCEPT ![t] = to]
    /\ UNCHANGED <<mainVars, procVars, tslot, netVars>>

HandlerReturns(t) ==
    /\ Step(t, "handler", "setFree1")
    /\ UNCHANGED <<slotVars, reg, owner>>

(* Thread::endServer, called by a handler that goes on. *)
EndServer(t) ==
    /\ ~down /\ Running(t) /\ ~exit
    /\ exit' = TRUE
    /\ UNCHANGED <<mainVars, down, slotVars, threadVars, owner, netVars>>

(* stoi or stod throws in a handler and nothing catches it: the process is  *)
(* terminated.                                                              *)
HandlerThrows(t) ==
    /\ ~down /\ Running(t)
    /\ down' = TRUE
    /\ UNCHANGED <<mainVars, exit, slotVars, threadVars, owner, netVars>>

SetFree1(t) ==
    /\ Step(t, "setFree1", "setFree2")
    /\ free' = [free EXCEPT ![tslot[t]] = TRUE]
    /\ UNCHANGED <<destroyed, handle, client, reg, owner>>

SetFree2(t) ==
    /\ Step(t, "setFree2", "loadHandle")
    /\ destroyed' = [destroyed EXCEPT ![tslot[t]] = TRUE]
    /\ UNCHANGED <<free, handle, client, reg, owner>>

(* CloseThread of the worker: the argument of CloseHandle is loaded from    *)
(* the slot, which main may be creating a new thread in meanwhile.          *)
LoadHandle(t) ==
    /\ Step(t, "loadHandle", "closeHandle")
    /\ reg' = [reg EXCEPT ![t] = handle[tslot[t]]]
    /\ UNCHANGED <<slotVars, owner>>

WorkerClose(t) ==
    /\ Step(t, "closeHandle", "nullHandle")
    /\ owner' = AfterClose(reg[t])
    /\ UNCHANGED <<slotVars, reg>>

NullHandle(t) ==
    /\ Step(t, "nullHandle", "done")
    /\ handle' = [handle EXCEPT ![tslot[t]] = Null]
    /\ UNCHANGED <<free, destroyed, client, reg, owner>>

-----------------------------------------------------------------------------
Scan   == ReadFree \/ ReadNotDestroyed \/ ReadDestroyed
Create == CreateFree \/ CreateDestroyed \/ CreateClose \/ CreateThread
Enter  == EnterFree \/ EnterDestroyed \/ EnterClient \/ Resume
Wait   == WaitFails \/ WaitBegins \/ WaitReturns
Main   == Loop \/ Select \/ Scan \/ Create \/ Enter \/ Wait

GiveBack(t) == SetFree1(t) \/ SetFree2(t) \/ LoadHandle(t) \/ WorkerClose(t) \/ NullHandle(t)
Handler(t)  == HandlerReturns(t) \/ EndServer(t) \/ HandlerThrows(t)

Next ==
    \/ Main
    \/ \E t \in Tids : Handler(t) \/ GiveBack(t)
    \/ \E c \in Conns : Connect(c)

Spec == Init /\ [][Next]_vars

(* The operating system runs every runnable thread; nothing obliges a       *)
(* client, hence a handler, to do anything.                                 *)
FairSpec == Spec /\ WF_vars(Main) /\ \A t \in Tids : WF_vars(GiveBack(t))

-----------------------------------------------------------------------------
MainStates == {"loop", "select", "isFree", "notDestroyed", "isDestroyed",
               "createFree", "createDestroyed", "createClose", "createThread",
               "enterFree", "enterDestroyed", "enterClient", "resume",
               "wait", "waiting"}
ThreadStates == EarlyStates \cup {"none", "loadHandle", "closeHandle", "nullHandle", "done"}
ConnStates == {"idle", "queued", "accepted", "served", "lost", "turnedAway"}

(* Type invariant of the fields of Server, of the pool and of the kernel.   *)
TypeOK ==
    /\ pc \in MainStates /\ i \in Slots /\ sock \in Conns \cup {Null}
    /\ waitOn \subseteq Tids
    /\ exit \in BOOLEAN /\ down \in BOOLEAN
    /\ free \in [Slots -> BOOLEAN] /\ destroyed \in [Slots -> BOOLEAN]
    /\ handle \in [Slots -> Handles \cup {Null}]
    /\ client \in [Slots -> Conns \cup {Null}]
    /\ tstate \in [Tids -> ThreadStates] /\ tslot \in [Tids -> Slots]
    /\ reg \in [Tids -> Handles \cup {Null}]
    /\ owner \in [Handles -> Tids \cup {NoThread}]
    /\ backlog \in Seq(Conns) /\ conn \in [Conns -> ConnStates]

(* Two sessions never run in the same slot, so at most CLIENTS clients are  *)
(* handled at once, whatever a late worker does to the flags and the        *)
(* HANDLE of its slot (Server::threadPool, Thread::create, worker).         *)
OneSessionPerSlot ==
    \A t, u \in Tids : Running(t) /\ Running(u) /\ t # u => tslot[t] # tslot[u]

(* Two sessions never talk on the same socket (data.client of two slots).   *)
NoSharedClient ==
    \A t, u \in Tids : Running(t) /\ Running(u) /\ t # u
        => client[tslot[t]] # client[tslot[u]] /\ client[tslot[t]] # Null

(* While a session runs, its slot reads as taken: the flags threadPool      *)
(* tests are both FALSE from enter() to setFree().                          *)
RunningSlotIsTaken ==
    \A t \in Tids : Running(t) => ~free[tslot[t]] /\ ~destroyed[tslot[t]]

(* The socket of a running session is never replaced under it: Send and Rec *)
(* read data.client at every call, and enter() writes it with no lock.      *)
SessionKeepsClient ==
    [][\A t \in Tids : Running(t) /\ Running(t)'
          => client'[tslot[t]] = client[tslot[t]]]_vars

(* Every connection the kernel has queued is settled: given a session,      *)
(* dropped or refused by threadPool, unless the server stops; also when all *)
(* slots are taken and their sessions never end (Server.cpp:157).           *)
EveryConnectionIsSettled ==
    \A c \in Conns : conn[c] = "queued" ~> (conn[c] \in {"served", "lost", "turnedAway"} \/ exit \/ down)

(* The server with its threads, flags and HANDLEs implements the service:   *)
(* a place has a session with the client of its slot while a handler runs.  *)
SessionOf(s) ==
    IF ~down /\ \E t \in Tids : Running(t) /\ tslot[t] = s THEN client[s] ELSE Null

Promise == INSTANCE Service WITH
    Places <- Slots, Connections <- Conns, Nobody <- Null,
    session <- [s \in Slots |-> SessionOf(s)],
    given <- {c \in Conns : conn[c] = "served"},
    up <- ~down

ImplementsService == Promise!Spec

-----------------------------------------------------------------------------
(* What the comments of Server.h say of the pool; the races refute them.    *)

(* threadPool "passes the client to thread pool": an accepted client for    *)
(* which a slot was found gets a session.                                   *)
NoClientLost == \A c \in Conns : conn[c] # "lost"

(* endServer() is to "close the server": once it was called, and if every   *)
(* session ends, the process ends.                                          *)
ShutdownCompletes == exit ~> down
FairSessions == FairSpec /\ \A t \in Tids : WF_vars(HandlerReturns(t))
=============================================================================
