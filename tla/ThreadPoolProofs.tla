-------------------------- MODULE ThreadPoolProofs --------------------------
(***************************************************************************)
(* Proofs about ThreadPool for every number of slots, connections, threads  *)
(* and HANDLE values: the type invariant, the session invariants, and that  *)
(* the server implements Service.                                           *)
(*                                                                          *)
(* The inductive invariant IInv says why the races between threadPool and a *)
(* late worker never reach a session: a slot has at most one thread that    *)
(* has not given it back (OneEarly), a slot flagged destroyed or being      *)
(* created in has none (NoEarly...), and a suspended thread is either still *)
(* the untouched one of createThreads, whose HANDLE nobody else holds, or   *)
(* the one main is entering, or left behind in a slot flagged as taken      *)
(* (SuspendedInv).                                                          *)
(***************************************************************************)
EXTENDS ThreadPool, SequenceTheorems, TLAPS

CreatingStates == {"createFree", "createDestroyed", "createClose", "createThread"}
EnteringStates == {"enterFree", "enterDestroyed", "enterClient", "resume"}
HoldsSock == {"isFree", "notDestroyed", "isDestroyed"} \cup CreatingStates \cup EnteringStates

OneEarly == \A t, u \in Tids : Early(t) /\ Early(u) /\ t # u => tslot[t] # tslot[u]

NoEarlyIfDestroyed == \A t \in Tids : Early(t) => ~destroyed[tslot[t]]

NoEarlyIfCreating ==
    /\ pc \in CreatingStates => \A t \in Tids : Early(t) => tslot[t] # i
    /\ pc \in {"createClose", "createThread"} => ~destroyed[i]

TakenWhileRunning ==
    \A t \in Tids : tstate[t] \in {"handler", "setFree1"} => ~free[tslot[t]]

NotRunningWhenEntering ==
    pc \in {"notDestroyed"} \cup EnteringStates =>
        \A t \in Tids : tstate[t] \in {"handler", "setFree1"} => tslot[t] # i

FreeUntilEntered ==
    pc \in {"notDestroyed", "createDestroyed", "createClose", "createThread", "enterFree"} => free[i]

TakenOnceEntered ==
    pc \in {"enterDestroyed", "enterClient", "resume"} =>
        \A t \in Tids : tstate[t] = "suspended" /\ tslot[t] = i => ~free[i]

(* t is the thread createThreads made and nobody has touched its slot. *)
Untouched(t) ==
    /\ free[tslot[t]]
    /\ handle[tslot[t]] \in Handles
    /\ owner[handle[tslot[t]]] = t
    /\ \A h \in Handles : owner[h] = t => h = handle[tslot[t]]
    /\ \A r \in Slots : r # tslot[t] => handle[r] # handle[tslot[t]]
    /\ \A u \in Tids : tstate[u] = "closeHandle" => reg[u] # handle[tslot[t]]
    /\ \A u \in Tids : u # t /\ tslot[u] = tslot[t] => tstate[u] = "none"

BeingEntered(t) == pc \in EnteringStates /\ i = tslot[t]

(* t was never resumed: its client is lost and its slot reads as taken. *)
LeftBehind(t) ==
    /\ ~free[tslot[t]] /\ ~BeingEntered(t)
    /\ client[tslot[t]] # Null /\ conn[client[tslot[t]]] = "lost"

SuspendedInv ==
    \A t \in Tids : tstate[t] = "suspended" => Untouched(t) \/ BeingEntered(t) \/ LeftBehind(t)

BacklogInv ==
    /\ \A k \in 1 .. Len(backlog) : conn[backlog[k]] = "queued"
    /\ \A j, k \in 1 .. Len(backlog) : j # k => backlog[j] # backlog[k]

SockInv ==
    /\ pc \in HoldsSock => sock \in Conns /\ conn[sock] = "accepted"
    /\ pc = "resume" => client[i] = sock

ClientInv ==
    /\ \A s, r \in Slots : s # r /\ client[s] # Null => client[s] # client[r]
    /\ \A s \in Slots : client[s] # Null =>
          conn[client[s]] \in {"served", "lost"} \/ (pc = "resume" /\ s = i)

ServedInv ==
    \A t \in Tids : Running(t) => client[tslot[t]] # Null /\ conn[client[tslot[t]]] = "served"

SlotInv == /\ OneEarly /\ NoEarlyIfDestroyed /\ NoEarlyIfCreating /\ TakenWhileRunning
           /\ NotRunningWhenEntering /\ FreeUntilEntered /\ TakenOnceEntered
ConnInv == BacklogInv /\ SockInv /\ ClientInv
IInv    == TypeOK /\ SlotInv /\ SuspendedInv /\ ConnInv /\ ServedInv

-----------------------------------------------------------------------------
USE DEF mainVars, procVars, slotVars, threadVars, netVars, MainStep

LEMMA SlotsNonempty == 0 \in Slots /\ Slots \subseteq Nat
  BY ClientsAssumption DEF Slots

LEMMA NullFresh == Null \notin Handles /\ Null \notin Conns /\ NoThread \notin Tids
  BY NullAssumption, NoThreadAssumption

(* What createThreads gave each slot. *)
LEMMA Slot0 ==
  /\ \A t : InPool(t) => SlotOf(t) \in Slots /\ thread0[SlotOf(t)] = t
  /\ \A h : (\E s \in Slots : handle0[s] = h) => SlotWith(h) \in Slots /\ handle0[SlotWith(h)] = h
  BY DEF InPool, SlotOf, SlotWith

LEMMA TypeInit == Init => TypeOK
<1> SUFFICES ASSUME Init PROVE TypeOK
  OBVIOUS
<1>1. /\ pc \in MainStates /\ i \in Slots /\ sock \in Conns \cup {Null} /\ waitOn \subseteq Tids
      /\ exit \in BOOLEAN /\ down \in BOOLEAN
  BY SlotsNonempty DEF Init, MainStates
<1>2. handle \in [Slots -> Handles \cup {Null}]
  BY Handle0Assumption DEF Init
<1>3. /\ free \in [Slots -> BOOLEAN] /\ destroyed \in [Slots -> BOOLEAN]
      /\ client \in [Slots -> Conns \cup {Null}] /\ reg \in [Tids -> Handles \cup {Null}]
  BY DEF Init
<1>4. tstate \in [Tids -> ThreadStates]
  BY DEF Init, ThreadStates, EarlyStates
<1>5. tslot \in [Tids -> Slots]
  BY SlotsNonempty, Slot0 DEF Init
<1>6. owner \in [Handles -> Tids \cup {NoThread}]
  BY Slot0, Thread0Assumption DEF Init
<1>7. backlog \in Seq(Conns)
  BY EmptySeq DEF Init
<1>8. conn \in [Conns -> ConnStates]
  BY DEF Init, ConnStates
<1> QED BY <1>1, <1>2, <1>3, <1>4, <1>5, <1>6, <1>7, <1>8 DEF TypeOK

LEMMA TypeStep == TypeOK /\ [Next]_vars => TypeOK'
<1> SUFFICES ASSUME TypeOK, [Next]_vars PROVE TypeOK'
  OBVIOUS
<1> USE DEF TypeOK, MainStates, ThreadStates, EarlyStates, ConnStates
<1>1. CASE UNCHANGED vars
  BY <1>1 DEF vars
<1>2. ASSUME NEW c \in Conns, Connect(c) PROVE TypeOK'
  BY <1>2 DEF Connect
<1>3. CASE Loop
  BY <1>3 DEF Loop
<1>4. CASE Select
  <2>1. 0 \in Slots
    BY SlotsNonempty
  <2>2. backlog # <<>> => Head(backlog) \in Conns /\ Tail(backlog) \in Seq(Conns)
    BY HeadTailProperties
  <2> QED BY <1>4, <2>1, <2>2 DEF Select
<1>5. CASE ReadFree
  BY <1>5 DEF ReadFree
<1>6. CASE ReadNotDestroyed
  BY <1>6 DEF ReadNotDestroyed
<1>7. CASE ReadDestroyed
  <2>1. i' \in Slots
    BY <1>7, ClientsAssumption DEF ReadDestroyed, Slots
  <2>2. conn' = conn \/ conn' = [conn EXCEPT ![sock] = "turnedAway"]
    BY <1>7 DEF ReadDestroyed
  <2>3. conn' \in [Conns -> ConnStates]
    BY <2>2
  <2> QED BY <1>7, <2>1, <2>3 DEF ReadDestroyed
<1>8. CASE Create
  <2>1. CASE CreateFree
    BY <2>1 DEF CreateFree
  <2>2. CASE CreateDestroyed
    BY <2>2 DEF CreateDestroyed
  <2>3. CASE CreateClose
    BY <2>3 DEF CreateClose, AfterClose
  <2>4. CASE CreateThread
    BY <2>4 DEF CreateThread
  <2> QED BY <1>8, <2>1, <2>2, <2>3, <2>4 DEF Create
<1>9. CASE EnterFree \/ EnterDestroyed \/ EnterClient
  <2>1. CASE EnterFree
    BY <2>1 DEF EnterFree
  <2>2. CASE EnterDestroyed
    BY <2>2 DEF EnterDestroyed
  <2>3. CASE EnterClient
    <3>1. sock \in Conns \cup {Null}
      OBVIOUS
    <3> QED BY <2>3, <3>1 DEF EnterClient
  <2> QED BY <1>9, <2>1, <2>2, <2>3
<1>10. CASE Resume
  BY <1>10 DEF Resume
<1>11. CASE WaitFails \/ WaitReturns
  BY <1>11 DEF WaitFails, WaitReturns
<1>12. CASE WaitBegins
  BY <1>12, Handle0Assumption DEF WaitBegins
<1>13. ASSUME NEW t \in Tids, Handler(t) PROVE TypeOK'
  BY <1>13 DEF Handler, HandlerReturns, EndServer, HandlerThrows, Step
<1>14. ASSUME NEW t \in Tids, GiveBack(t) PROVE TypeOK'
  BY <1>14 DEF GiveBack, SetFree1, SetFree2, LoadHandle, WorkerClose, NullHandle, Step, AfterClose
<1> QED
  BY <1>1, <1>2, <1>3, <1>4, <1>5, <1>6, <1>7, <1>8, <1>9, <1>10, <1>11, <1>12, <1>13, <1>14
     DEF Next, Main, Scan, Enter, Wait

THEOREM TypeCorrect == Spec => []TypeOK
<1> QED BY TypeInit, TypeStep, PTL DEF Spec

-----------------------------------------------------------------------------
(* Which slots have which threads: SlotInv is inductive given SuspendedInv. *)

LEMMA SlotInit == Init => SlotInv
<1> SUFFICES ASSUME Init PROVE SlotInv
  OBVIOUS
<1>1. \A t, u \in Tids : Early(t) /\ Early(u) /\ t # u => tslot[t] # tslot[u]
  BY Slot0 DEF Init, Early, EarlyStates
<1>2. \A t \in Tids : tslot[t] \in Slots /\ tstate[t] \in {"suspended", "none"}
  BY Slot0, SlotsNonempty DEF Init
<1> QED
  BY <1>1, <1>2 DEF Init, SlotInv, OneEarly, NoEarlyIfDestroyed, NoEarlyIfCreating,
     TakenWhileRunning, NotRunningWhenEntering, FreeUntilEntered, TakenOnceEntered,
     CreatingStates, EnteringStates

(* The thread Resume starts is the one main is entering, or one left behind. *)
LEMMA ResumedIsTaken ==
  ASSUME TypeOK, TakenOnceEntered, SuspendedInv, pc = "resume"
  PROVE  \A t \in Suspended(handle[i]) :
            /\ t \in Tids /\ ~free[tslot[t]]
            /\ tslot[t] = i \/ LeftBehind(t)
<1> SUFFICES ASSUME NEW t \in Suspended(handle[i])
             PROVE  t \in Tids /\ ~free[tslot[t]] /\ (tslot[t] = i \/ LeftBehind(t))
  OBVIOUS
<1>1. t \in Tids /\ handle[i] \in Handles /\ owner[handle[i]] = t /\ tstate[t] = "suspended"
  BY DEF Suspended
<1>2. tslot[t] = i => ~free[tslot[t]]
  BY <1>1 DEF TakenOnceEntered
<1>3. CASE Untouched(t)
  <2>1. handle[i] = handle[tslot[t]]
    BY <1>1, <1>3 DEF Untouched
  <2>2. i \in Slots
    BY DEF TypeOK
  <2>3. tslot[t] = i
    BY <2>1, <2>2, <1>3 DEF Untouched
  <2> QED BY <1>1, <1>2, <2>3
<1>4. CASE BeingEntered(t)
  BY <1>1, <1>2, <1>4 DEF BeingEntered
<1>5. CASE LeftBehind(t)
  BY <1>1, <1>5 DEF LeftBehind
<1> QED BY <1>1, <1>3, <1>4, <1>5 DEF SuspendedInv

LEMMA SlotStep == TypeOK /\ SlotInv /\ SuspendedInv /\ [Next]_vars => SlotInv'
<1> SUFFICES ASSUME TypeOK, SlotInv, SuspendedInv, [Next]_vars PROVE SlotInv'
  OBVIOUS
<1> USE DEF TypeOK, SlotInv, OneEarly, NoEarlyIfDestroyed, NoEarlyIfCreating,
     TakenWhileRunning, NotRunningWhenEntering, FreeUntilEntered, TakenOnceEntered,
     CreatingStates, EnteringStates, Early, EarlyStates
<1>1. CASE UNCHANGED vars
  BY <1>1 DEF vars
<1>2. ASSUME NEW c \in Conns, Connect(c) PROVE SlotInv'
  BY <1>2 DEF Connect
<1>3. CASE Loop
  BY <1>3 DEF Loop
<1>4. CASE Select
  BY <1>4 DEF Select
<1>5. CASE ReadFree
  BY <1>5 DEF ReadFree
<1>6. CASE ReadNotDestroyed
  BY <1>6 DEF ReadNotDestroyed
<1>7. CASE ReadDestroyed
  BY <1>7 DEF ReadDestroyed
<1>8. CASE CreateFree
  BY <1>8 DEF CreateFree
<1>9. CASE CreateDestroyed
  BY <1>9 DEF CreateDestroyed
<1>10. CASE CreateClose
  BY <1>10 DEF CreateClose
<1>11. CASE CreateThread
  <2>1. PICK t \in Tids, h \in Handles :
          /\ tstate[t] = "none"
          /\ tstate' = [tstate EXCEPT ![t] = "suspended"]
          /\ tslot' = [tslot EXCEPT ![t] = i]
    BY <1>11 DEF CreateThread
  <2>2. /\ pc = "createThread" /\ pc' = "enterFree" /\ i' = i
        /\ free' = free /\ destroyed' = destroyed
    BY <1>11 DEF CreateThread
  <2>3. /\ tslot'[t] = i /\ tstate'[t] = "suspended"
        /\ \A u \in Tids : u # t => tslot'[u] = tslot[u] /\ tstate'[u] = tstate[u]
    BY <2>1
  <2>4. OneEarly' /\ TakenWhileRunning' /\ NotRunningWhenEntering'
    BY <2>2, <2>3
  <2>5. NoEarlyIfDestroyed'
    <3>1. ~destroyed[i]
      BY <2>2
    <3> QED BY <2>2, <2>3, <3>1
  <2>6. NoEarlyIfCreating' /\ FreeUntilEntered' /\ TakenOnceEntered'
    BY <2>2
  <2> QED BY <2>4, <2>5, <2>6
<1>12. CASE EnterFree
  BY <1>12 DEF EnterFree
<1>13. CASE EnterDestroyed
  BY <1>13 DEF EnterDestroyed
<1>14. CASE EnterClient
  BY <1>14 DEF EnterClient
<1>15. CASE Resume
  <2>1. /\ pc = "resume" /\ pc' = "loop" /\ free' = free /\ destroyed' = destroyed
        /\ tslot' = tslot
    BY <1>15 DEF Resume
  <2>2. \A u \in Tids :
           \/ tstate'[u] = tstate[u]
           \/ /\ tstate[u] = "suspended" /\ tstate'[u] = "handler"
              /\ u \in Suspended(handle[i])
    BY <1>15 DEF Resume, Suspended
  <2>3. \A u \in Suspended(handle[i]) : u \in Tids /\ ~free[tslot[u]]
    BY <2>1, ResumedIsTaken
  <2>4. OneEarly' /\ NoEarlyIfDestroyed'
    BY <2>1, <2>2
  <2>5. TakenWhileRunning'
    BY <2>1, <2>2, <2>3
  <2>6. NoEarlyIfCreating' /\ NotRunningWhenEntering' /\ FreeUntilEntered' /\ TakenOnceEntered'
    BY <2>1
  <2> QED BY <2>4, <2>5, <2>6
<1>16. CASE WaitFails \/ WaitBegins \/ WaitReturns
  BY <1>16 DEF WaitFails, WaitBegins, WaitReturns
<1>17. ASSUME NEW t \in Tids, Handler(t) PROVE SlotInv'
  BY <1>17 DEF Handler, HandlerReturns, EndServer, HandlerThrows, Step, Running
<1>18. ASSUME NEW t \in Tids, SetFree1(t) PROVE SlotInv'
  BY <1>18 DEF SetFree1, Step
<1>19. ASSUME NEW t \in Tids, SetFree2(t) PROVE SlotInv'
  BY <1>19 DEF SetFree2, Step
<1>20. ASSUME NEW t \in Tids, LoadHandle(t) \/ WorkerClose(t) \/ NullHandle(t) PROVE SlotInv'
  BY <1>20 DEF LoadHandle, WorkerClose, NullHandle, Step
<1> QED
  BY <1>1, <1>2, <1>3, <1>4, <1>5, <1>6, <1>7, <1>8, <1>9, <1>10, <1>11, <1>12, <1>13,
     <1>14, <1>15, <1>16, <1>17, <1>18, <1>19, <1>20
     DEF Next, Main, Scan, Create, Enter, Wait, GiveBack

-----------------------------------------------------------------------------
(* What has become of the connections: ConnInv, given the slots. *)

LEMMA ConnInit == Init => ConnInv
<1> SUFFICES ASSUME Init PROVE ConnInv
  OBVIOUS
<1>1. Len(backlog) = 0
  BY EmptySeq DEF Init
<1>2. BacklogInv
  BY <1>1 DEF BacklogInv
<1>3. SockInv /\ ClientInv
  BY DEF Init, SockInv, ClientInv, HoldsSock, CreatingStates, EnteringStates
<1> QED BY <1>2, <1>3 DEF ConnInv

(* A step that leaves the backlog alone and changes no queued connection. *)
LEMMA BacklogKept ==
  ASSUME TypeOK, BacklogInv, backlog' = backlog,
         \A c \in Conns : conn[c] = "queued" => conn'[c] = "queued"
  PROVE  BacklogInv'
<1>1. \A k \in 1 .. Len(backlog) : backlog[k] \in Conns
  BY ElementOfSeq DEF TypeOK
<1> QED BY <1>1 DEF BacklogInv

LEMMA ConnStep == TypeOK /\ SlotInv /\ SuspendedInv /\ ConnInv /\ [Next]_vars => ConnInv'
<1> SUFFICES ASSUME TypeOK, SlotInv, SuspendedInv, ConnInv, [Next]_vars PROVE ConnInv'
  OBVIOUS
<1> USE DEF ConnInv, SockInv, ClientInv, HoldsSock, CreatingStates, EnteringStates
<1> USE NullFresh
<1>1. CASE UNCHANGED <<pc, i, sock, client, backlog, conn>>
  <2>1. BacklogInv'
    BY <1>1, BacklogKept
  <2> QED BY <1>1, <2>1
<1>2. ASSUME NEW c \in Conns, Connect(c) PROVE ConnInv'
  <2>1. /\ backlog' = Append(backlog, c) /\ conn[c] = "idle"
        /\ conn' = [conn EXCEPT ![c] = "queued"]
        /\ pc' = pc /\ i' = i /\ sock' = sock /\ client' = client
    BY <1>2 DEF Connect
  <2>2. BacklogInv'
    <3> DEFINE n == Len(backlog)
    <3>1. n \in Nat /\ \A k \in 1 .. n : backlog[k] \in Conns
      BY ElementOfSeq, LenProperties DEF TypeOK
    <3>2. /\ Len(backlog') = n + 1 /\ backlog'[n + 1] = c
          /\ \A k \in 1 .. n : backlog'[k] = backlog[k]
      BY <2>1, AppendProperties DEF TypeOK
    <3>3. \A k \in 1 .. n : backlog[k] # c
      BY <2>1 DEF BacklogInv
    <3>4. conn'[c] = "queued" /\ \A d \in Conns : d # c => conn'[d] = conn[d]
      BY <2>1 DEF TypeOK
    <3>5. \A k \in 1 .. n + 1 : k = n + 1 \/ k \in 1 .. n
      BY <3>1
    <3> QED BY <3>1, <3>2, <3>3, <3>4, <3>5 DEF BacklogInv
  <2>3. SockInv' /\ ClientInv'
    BY <2>1 DEF TypeOK
  <2> QED BY <2>2, <2>3
<1>3. CASE Loop
  <2>1. BacklogInv'
    BY <1>3, BacklogKept DEF Loop
  <2> QED BY <1>3, <2>1 DEF Loop
<1>4. CASE Select
  <2>1. CASE backlog = <<>>
    <3>1. BacklogInv'
      BY <1>4, <2>1, BacklogKept DEF Select
    <3> QED BY <1>4, <2>1, <3>1 DEF Select
  <2>2. CASE backlog # <<>>
    <3> DEFINE n == Len(backlog)
               c == Head(backlog)
    <3>1. /\ sock' = c /\ backlog' = Tail(backlog) /\ client' = client
          /\ conn' = [conn EXCEPT ![c] = "accepted"]
          /\ pc = "select" /\ pc' = "isFree"
      BY <1>4, <2>2 DEF Select
    <3>2. /\ n \in Nat /\ n >= 1 /\ c = backlog[1] /\ c \in Conns
          /\ Len(backlog') = n - 1
          /\ \A k \in 1 .. n - 1 : backlog'[k] = backlog[k + 1]
      <4>1. backlog \in Seq(Conns) /\ backlog' = Tail(backlog)
        BY <3>1 DEF TypeOK
      <4>2. n \in Nat /\ n # 0
        BY <2>2, <4>1, EmptySeq, LenProperties
      <4>3. c = backlog[1] /\ c \in Conns
        BY <2>2, <4>1, HeadTailProperties
      <4>. QED  BY <2>2, <4>1, <4>2, <4>3, HeadTailProperties
    <3>3. conn[c] = "queued" /\ \A k \in 1 .. n - 1 : backlog'[k] # c
      BY <3>2 DEF BacklogInv
    <3>4. \A k \in 1 .. n : backlog[k] \in Conns
      BY ElementOfSeq DEF TypeOK
    <3>5. conn'[c] = "accepted" /\ \A d \in Conns : d # c => conn'[d] = conn[d]
      BY <3>1, <3>2 DEF TypeOK
    <3>6. BacklogInv'
      <4>1. \A k \in 1 .. n - 1 : k + 1 \in 1 .. n
        BY <3>2
      <4>2. n = Len(backlog)
        OBVIOUS
      <4>. HIDE DEF n, c
      <4>3. ASSUME NEW k \in 1 .. n - 1 PROVE conn'[backlog'[k]] = "queued"
        <5>1. backlog[k + 1] \in Conns /\ conn[backlog[k + 1]] = "queued"
          BY <3>4, <4>1, <4>2 DEF BacklogInv
        <5>. QED  BY <3>2, <3>3, <3>5, <5>1
      <4>4. ASSUME NEW j \in 1 .. n - 1, NEW k \in 1 .. n - 1, j # k
            PROVE  backlog'[j] # backlog'[k]
        <5>1. j + 1 # k + 1
          BY <3>2, <4>4
        <5>. QED  BY <3>2, <4>1, <4>2, <5>1 DEF BacklogInv
      <4>. QED  BY <3>2, <4>3, <4>4 DEF BacklogInv
    <3>7. SockInv'
      BY <3>1, <3>2, <3>5
    <3>8. ClientInv'
      BY <3>1, <3>3, <3>5 DEF TypeOK
    <3> QED BY <3>6, <3>7, <3>8
  <2> QED BY <2>1, <2>2
<1>5. CASE ReadFree \/ ReadNotDestroyed \/ Create \/ EnterFree \/ EnterDestroyed
  <2>1. /\ UNCHANGED <<i, sock, client, backlog, conn>>
        /\ pc \in HoldsSock \ {"resume"} /\ pc' \in HoldsSock \ {"resume"}
    BY <1>5 DEF ReadFree, ReadNotDestroyed, Create, CreateFree, CreateDestroyed, CreateClose,
         CreateThread, EnterFree, EnterDestroyed
  <2>2. BacklogInv'
    BY <2>1, BacklogKept
  <2> QED BY <2>1, <2>2
<1>6. CASE ReadDestroyed
  <2>1. /\ UNCHANGED <<sock, client, backlog>> /\ pc = "isDestroyed"
        /\ \/ pc' \in HoldsSock \ {"resume"} /\ conn' = conn
           \/ pc' = "loop" /\ conn' = [conn EXCEPT ![sock] = "turnedAway"]
    BY <1>6 DEF ReadDestroyed
  <2>2. conn[sock] = "accepted" /\ sock \in Conns
    BY <2>1
  <2>3. \A c \in Conns : conn[c] # "accepted" => conn'[c] = conn[c]
    BY <2>1, <2>2 DEF TypeOK
  <2>4. BacklogInv'
    BY <2>1, <2>3, BacklogKept
  <2>5. SockInv'
    BY <2>1
  <2>6. ClientInv'
    BY <2>1, <2>3 DEF TypeOK
  <2> QED BY <2>4, <2>5, <2>6
<1>7. CASE EnterClient
  <2>1. /\ UNCHANGED <<i, sock, backlog, conn>> /\ pc = "enterClient" /\ pc' = "resume"
        /\ client' = [client EXCEPT ![i] = sock] /\ i \in Slots
    BY <1>7 DEF EnterClient, TypeOK
  <2>2. BacklogInv'
    BY <2>1, BacklogKept
  <2>3. conn[sock] = "accepted" /\ sock \in Conns
    BY <2>1
  <2>4. \A s \in Slots : client[s] # sock
    BY <2>1, <2>3
  <2>5. client'[i] = sock /\ \A s \in Slots : s # i => client'[s] = client[s]
    BY <2>1 DEF TypeOK
  <2>6. SockInv'
    BY <2>1, <2>3, <2>5
  <2>7. ClientInv'
    BY <2>1, <2>3, <2>4, <2>5
  <2> QED BY <2>2, <2>6, <2>7
<1>8. CASE Resume
  <2>1. /\ UNCHANGED <<i, sock, backlog, client>> /\ pc = "resume" /\ pc' = "loop"
    BY <1>8 DEF Resume
  <2>2. \A c \in Conns :
           conn'[c] = IF \E t \in Suspended(handle[i]) : client[tslot[t]] = c THEN "served"
                      ELSE IF c = sock THEN "lost" ELSE conn[c]
    BY <1>8 DEF Resume
  <2>3. conn[sock] = "accepted" /\ sock \in Conns /\ client[i] = sock
    BY <2>1
  <2>4. \A t \in Suspended(handle[i]) : client[tslot[t]] = sock \/ conn[client[tslot[t]]] = "lost"
    BY <2>1, <2>3, ResumedIsTaken DEF LeftBehind, SlotInv
  <2>5. \A c \in Conns : conn'[c] = conn[c] \/ (c = sock /\ conn'[c] \in {"served", "lost"})
                                           \/ (conn[c] = "lost" /\ conn'[c] = "served")
    BY <2>2, <2>4
  <2>6. BacklogInv'
    BY <2>1, <2>3, <2>5, BacklogKept
  <2>7. ClientInv'
    <3>1. ASSUME NEW s \in Slots, client[s] # Null PROVE conn'[client[s]] \in {"served", "lost"}
      <4>1. client[s] \in Conns
        BY <3>1 DEF TypeOK
      <4>2. CASE s = i
        BY <4>1, <4>2, <2>2, <2>3
      <4>3. CASE s # i
        BY <3>1, <4>1, <4>3, <2>5
      <4> QED BY <4>2, <4>3
    <3> QED BY <2>1, <3>1
  <2> QED BY <2>1, <2>6, <2>7
<1>9. CASE Wait
  <2>1. UNCHANGED <<i, sock, client, backlog, conn>> /\ pc' \notin HoldsSock /\ pc \notin HoldsSock
    BY <1>9 DEF Wait, WaitFails, WaitBegins, WaitReturns
  <2>2. BacklogInv'
    BY <2>1, BacklogKept
  <2> QED BY <2>1, <2>2
<1>10. ASSUME NEW t \in Tids, Handler(t) \/ GiveBack(t) PROVE ConnInv'
  <2>1. UNCHANGED <<pc, i, sock, client, backlog, conn>>
    BY <1>10 DEF Handler, HandlerReturns, EndServer, HandlerThrows, GiveBack, SetFree1,
         SetFree2, LoadHandle, WorkerClose, NullHandle, Step
  <2> QED BY <1>1, <2>1
<1> QED
  BY <1>1, <1>2, <1>3, <1>4, <1>5, <1>6, <1>7, <1>8, <1>9, <1>10
     DEF vars, Next, Main, Scan, Enter

-----------------------------------------------------------------------------
(* The three kinds of suspended thread. *)
KindOK(t) == Untouched(t) \/ BeingEntered(t) \/ LeftBehind(t)

LEMMA SuspendedInit == TypeOK /\ Init => SuspendedInv
<1> SUFFICES ASSUME TypeOK, Init, NEW t \in Tids, tstate[t] = "suspended" PROVE Untouched(t)
  BY DEF SuspendedInv
<1> DEFINE s == tslot[t]
<1>1. InPool(t) /\ s = SlotOf(t) /\ s \in Slots /\ thread0[s] = t
  BY Slot0 DEF Init
<1>2. \A h \in Handles : owner[h] = t => h = handle0[s]
  <2> SUFFICES ASSUME NEW h \in Handles, owner[h] = t PROVE h = handle0[s]
    OBVIOUS
  <2>1. SlotWith(h) \in Slots /\ handle0[SlotWith(h)] = h /\ thread0[SlotWith(h)] = t
    BY Slot0, NullFresh DEF Init
  <2>2. SlotWith(h) = s
    BY <2>1, <1>1, Thread0Assumption
  <2> QED BY <2>1, <2>2
<1>3. handle0[s] \in Handles /\ owner[handle0[s]] = t
  <2>1. handle0[s] \in Handles /\ \E r \in Slots : handle0[r] = handle0[s]
    BY <1>1, Handle0Assumption
  <2>2. SlotWith(handle0[s]) = s
    BY <1>1, <2>1, Slot0, Handle0Assumption
  <2> QED BY <1>1, <2>1, <2>2 DEF Init
<1>4. \A r \in Slots : r # s => handle0[r] # handle0[s]
  BY <1>1, Handle0Assumption
<1>5. \A u \in Tids : tstate[u] # "closeHandle"
  BY DEF Init
<1>6. \A u \in Tids : u # t /\ tslot[u] = s => tstate[u] = "none"
  BY <1>1, Slot0 DEF Init
<1>7. free[s] /\ handle = handle0
  BY <1>1 DEF Init
<1> QED BY <1>2, <1>3, <1>4, <1>5, <1>6, <1>7 DEF Untouched

(* A step that touches nothing the kinds of suspended thread depend on. *)
LEMMA KindKept ==
  ASSUME TypeOK, NEW t \in Tids, KindOK(t),
         UNCHANGED <<free, handle, owner, client, tslot, reg>>,
         \A u \in Tids : /\ tstate'[u] = "closeHandle" => tstate[u] = "closeHandle"
                         /\ tstate[u] = "none" => tstate'[u] = "none",
         \A c \in Conns : conn[c] = "lost" => conn'[c] = "lost",
         BeingEntered(t)' <=> BeingEntered(t)
  PROVE  KindOK(t)'
<1>1. CASE Untouched(t)
  <2>1. Untouched(t)'
    BY <1>1 DEF Untouched
  <2> QED BY <2>1 DEF KindOK
<1>2. CASE BeingEntered(t)
  BY <1>2 DEF KindOK
<1>3. CASE LeftBehind(t)
  <2>1. client[tslot[t]] \in Conns
    BY <1>3 DEF LeftBehind, TypeOK
  <2>2. LeftBehind(t)'
    BY <1>3, <2>1 DEF LeftBehind
  <2> QED BY <2>2 DEF KindOK
<1> QED BY <1>1, <1>2, <1>3 DEF KindOK

LEMMA SuspendedStep ==
  TypeOK /\ SlotInv /\ SuspendedInv /\ ConnInv /\ [Next]_vars => SuspendedInv'
<1> SUFFICES ASSUME TypeOK, SlotInv, SuspendedInv, ConnInv, [Next]_vars,
                    NEW t \in Tids, tstate'[t] = "suspended"
             PROVE  KindOK(t)'
  BY DEF SuspendedInv, KindOK
<1> DEFINE s == tslot[t]
<1> USE NullFresh
<1>s. tstate[t] = "suspended" => KindOK(t)
  BY DEF SuspendedInv, KindOK
<1>t. s \in Slots /\ i \in Slots
  BY DEF TypeOK
<1>e. tstate[t] = "suspended" =>
        \A u \in Tids : u # t /\ Early(u) => tslot[u] # s
  BY DEF SlotInv, OneEarly, Early, EarlyStates
<1>1. CASE UNCHANGED vars
  BY <1>1, <1>s, KindKept DEF vars, BeingEntered
<1>2. ASSUME NEW c \in Conns, Connect(c) PROVE KindOK(t)'
  <2>1. conn[c] = "idle" /\ \A d \in Conns : conn[d] = "lost" => conn'[d] = "lost"
    BY <1>2 DEF Connect, TypeOK
  <2> QED BY <1>2, <1>s, <2>1, KindKept DEF Connect, BeingEntered
<1>3. CASE Loop \/ ReadFree \/ Wait \/ CreateDestroyed \/ EnterDestroyed
  <2>1. /\ UNCHANGED <<free, handle, owner, client, tslot, tstate, reg, conn, i>>
        /\ pc \in EnteringStates <=> pc' \in EnteringStates
    BY <1>3 DEF Loop, ReadFree, Wait, WaitFails, WaitBegins, WaitReturns, CreateDestroyed,
         EnterDestroyed, EnteringStates
  <2>2. BeingEntered(t)' <=> BeingEntered(t)
    BY <2>1 DEF BeingEntered
  <2> QED BY <1>s, <2>1, <2>2, KindKept
<1>4. CASE Select
  <2>1. /\ UNCHANGED <<free, handle, owner, client, tslot, tstate, reg>>
        /\ pc \notin EnteringStates /\ pc' \notin EnteringStates
    BY <1>4 DEF Select, EnteringStates
  <2>2. backlog # <<>> => conn[Head(backlog)] = "queued"
    <3> SUFFICES ASSUME backlog # <<>> PROVE conn[Head(backlog)] = "queued"
      OBVIOUS
    <3>1. Len(backlog) \in Nat \ {0} /\ Head(backlog) = backlog[1]
      BY EmptySeq DEF TypeOK
    <3>2. 1 \in 1 .. Len(backlog)
      BY <3>1
    <3> QED BY <3>1, <3>2 DEF ConnInv, BacklogInv
  <2>3. \A c \in Conns : conn[c] = "lost" => conn'[c] = "lost"
    BY <1>4, <2>2 DEF Select, TypeOK
  <2> QED BY <1>s, <2>1, <2>3, KindKept DEF BeingEntered
<1>5. CASE ReadNotDestroyed
  <2>1. /\ UNCHANGED <<free, handle, owner, client, tslot, tstate, reg, conn, i>>
        /\ pc = "notDestroyed" /\ pc' \in {"isDestroyed", "enterFree"}
    BY <1>5 DEF ReadNotDestroyed
  <2>2. free[i]
    BY <2>1 DEF SlotInv, FreeUntilEntered
  <2>3. CASE i = s /\ pc' = "enterFree"
    BY <2>1, <2>3 DEF KindOK, BeingEntered, EnteringStates
  <2>4. CASE ~(i = s /\ pc' = "enterFree")
    <3>1. BeingEntered(t)' <=> BeingEntered(t)
      BY <2>1, <2>4 DEF BeingEntered, EnteringStates
    <3> QED BY <1>s, <2>1, <3>1, KindKept
  <2> QED BY <2>3, <2>4
<1>6. CASE ReadDestroyed
  <2>1. /\ UNCHANGED <<free, handle, owner, client, tslot, tstate, reg>>
        /\ pc = "isDestroyed" /\ pc' \notin EnteringStates
        /\ conn' = conn \/ conn' = [conn EXCEPT ![sock] = "turnedAway"]
    BY <1>6 DEF ReadDestroyed, EnteringStates
  <2>2. conn[sock] = "accepted"
    BY <2>1 DEF ConnInv, SockInv, HoldsSock
  <2>3. \A c \in Conns : conn[c] = "lost" => conn'[c] = "lost"
    BY <2>1, <2>2 DEF TypeOK
  <2>4. BeingEntered(t)' <=> BeingEntered(t)
    BY <2>1 DEF BeingEntered, EnteringStates
  <2> QED BY <1>s, <2>1, <2>3, <2>4, KindKept
<1>7. CASE CreateFree \/ CreateClose
  <2>1. /\ UNCHANGED <<handle, client, tslot, tstate, reg, conn, i>>
        /\ pc \in CreatingStates /\ pc' \in CreatingStates
    BY <1>7 DEF CreateFree, CreateClose, CreatingStates
  <2>2. /\ tstate[t] = "suspended" /\ s # i
    BY <2>1 DEF SlotInv, NoEarlyIfCreating, Early, EarlyStates
  <2>3. free'[s] = free[s] /\ \A h \in Handles : h # handle[i] => owner'[h] = owner[h]
    BY <1>7, <2>2, <1>t DEF CreateFree, CreateClose, AfterClose, TypeOK
  <2>4. ~BeingEntered(t) /\ ~BeingEntered(t)'
    BY <2>1 DEF BeingEntered, EnteringStates, CreatingStates
  <2>5. \A h \in Handles : owner'[h] = owner[h] \/ owner'[h] = NoThread
    BY <1>7 DEF CreateFree, CreateClose, AfterClose, TypeOK
  <2>6. CASE Untouched(t)
    <3>1. handle[i] # handle[s]
      BY <2>2, <2>6, <1>t DEF Untouched
    <3>2. Untouched(t)'
      BY <2>1, <2>3, <2>5, <2>6, <3>1 DEF Untouched
    <3> QED BY <3>2 DEF KindOK
  <2>7. CASE LeftBehind(t)
    BY <2>1, <2>3, <2>4, <2>7 DEF KindOK, LeftBehind
  <2> QED BY <1>s, <2>2, <2>4, <2>6, <2>7 DEF KindOK
<1>8. CASE CreateThread
  <2>1. PICK u \in Tids, h \in Handles :
          /\ tstate[u] = "none" /\ owner[h] = NoThread
          /\ handle' = [handle EXCEPT ![i] = h]
          /\ owner' = [owner EXCEPT ![h] = u]
          /\ tstate' = [tstate EXCEPT ![u] = "suspended"]
          /\ tslot' = [tslot EXCEPT ![u] = i]
    BY <1>8 DEF CreateThread
  <2>2. /\ UNCHANGED <<free, client, reg, conn, i>>
        /\ pc = "createThread" /\ pc' = "enterFree"
    BY <1>8 DEF CreateThread
  <2>3. CASE t = u
    BY <2>1, <2>2, <2>3 DEF KindOK, BeingEntered, EnteringStates, TypeOK
  <2>4. CASE t # u
    <3>1. tstate[t] = "suspended" /\ tslot'[t] = s
      BY <2>1, <2>4 DEF TypeOK
    <3>2. s # i
      BY <2>2, <3>1 DEF SlotInv, NoEarlyIfCreating, Early, EarlyStates, CreatingStates
    <3>3. ~BeingEntered(t) /\ ~BeingEntered(t)'
      BY <2>2, <3>1, <3>2 DEF BeingEntered, EnteringStates
    <3>4. CASE Untouched(t)
      <4>1. h # handle[s] /\ handle'[s] = handle[s]
        BY <2>1, <3>2, <3>4, <1>t DEF Untouched, TypeOK
      <4>2. owner'[handle[s]] = t /\ \A g \in Handles : owner'[g] = t => g = handle[s]
        BY <2>1, <2>4, <3>4, <4>1 DEF Untouched, TypeOK
      <4>3. \A r \in Slots : r # s => handle'[r] # handle[s]
        BY <2>1, <3>4, <4>1 DEF Untouched, TypeOK
      <4>4. \A v \in Tids : tstate'[v] = "closeHandle" => reg[v] # handle[s]
        BY <2>1, <3>4 DEF Untouched, TypeOK
      <4>5. \A v \in Tids : v # t /\ tslot'[v] = s => tstate'[v] = "none"
        BY <2>1, <3>2, <3>4 DEF Untouched, TypeOK
      <4> QED BY <2>2, <3>1, <3>4, <4>1, <4>2, <4>3, <4>4, <4>5 DEF KindOK, Untouched
    <3>5. CASE LeftBehind(t)
      BY <2>2, <3>1, <3>3, <3>5 DEF KindOK, LeftBehind
    <3> QED BY <1>s, <3>1, <3>3, <3>4, <3>5 DEF KindOK
  <2> QED BY <2>3, <2>4
<1>9. CASE EnterFree \/ EnterClient
  <2>1. /\ UNCHANGED <<handle, owner, tslot, tstate, reg, conn, i>>
        /\ pc \in EnteringStates /\ pc' \in EnteringStates
    BY <1>9 DEF EnterFree, EnterClient, EnteringStates
  <2>2. CASE s = i
    BY <2>1, <2>2 DEF KindOK, BeingEntered
  <2>3. CASE s # i
    <3>1. free'[s] = free[s] /\ client'[s] = client[s]
      BY <1>9, <2>3, <1>t DEF EnterFree, EnterClient, TypeOK
    <3>2. ~BeingEntered(t) /\ ~BeingEntered(t)'
      BY <2>1, <2>3 DEF BeingEntered
    <3>3. Untouched(t) => Untouched(t)'
      BY <2>1, <3>1 DEF Untouched
    <3>4. LeftBehind(t) => LeftBehind(t)'
      BY <2>1, <3>1, <3>2 DEF LeftBehind
    <3> QED BY <1>s, <2>1, <3>2, <3>3, <3>4 DEF KindOK
  <2> QED BY <2>2, <2>3
<1>10. CASE Resume
  <2>1. /\ UNCHANGED <<free, handle, owner, tslot, client, reg, i>>
        /\ pc = "resume" /\ pc' = "loop"
        /\ tstate' = [u \in Tids |-> IF u \in Suspended(handle[i]) THEN "handler" ELSE tstate[u]]
    BY <1>10 DEF Resume
  <2>2. tstate[t] = "suspended" /\ t \notin Suspended(handle[i])
    BY <2>1
  <2>3. \A u \in Tids : /\ tstate'[u] = "closeHandle" => tstate[u] = "closeHandle"
                        /\ tstate[u] = "none" => tstate'[u] = "none"
    BY <2>1 DEF Suspended
  <2>4. ~BeingEntered(t)'
    BY <2>1 DEF BeingEntered, EnteringStates
  <2>5. client[i] = sock /\ conn[sock] = "accepted" /\ sock \in Conns
    BY <2>1 DEF ConnInv, SockInv, HoldsSock, EnteringStates
  <2>6. \A c \in Conns :
           conn'[c] = IF \E u \in Suspended(handle[i]) : client[tslot[u]] = c THEN "served"
                      ELSE IF c = sock THEN "lost" ELSE conn[c]
    BY <1>10 DEF Resume
  <2>7. \A u \in Suspended(handle[i]) : u \in Tids /\ tslot[u] \in Slots /\ tslot[u] # s
    BY <2>2, <1>e DEF Suspended, Early, EarlyStates, TypeOK
  <2>8. client[s] # Null => \A u \in Suspended(handle[i]) : client[tslot[u]] # client[s]
    BY <2>7, <1>t DEF ConnInv, ClientInv
  <2>9. CASE Untouched(t)
    BY <2>1, <2>3, <2>9 DEF KindOK, Untouched
  <2>10. CASE BeingEntered(t)
    <3>1. s = i /\ ~free[s]
      BY <2>1, <2>2, <2>10 DEF BeingEntered, SlotInv, TakenOnceEntered
    <3>2. conn'[client[s]] = "lost"
      BY <2>5, <2>6, <2>8, <3>1
    <3> QED BY <2>1, <2>4, <2>5, <3>1, <3>2 DEF KindOK, LeftBehind
  <2>11. CASE LeftBehind(t)
    <3>1. client[s] \in Conns /\ conn[client[s]] = "lost" /\ ~free[s] /\ client[s] # Null
      BY <2>11, <1>t DEF LeftBehind, TypeOK
    <3>2. conn'[client[s]] = "lost"
      BY <2>6, <2>8, <3>1
    <3> QED BY <2>1, <2>4, <3>1, <3>2 DEF KindOK, LeftBehind
  <2> QED BY <1>s, <2>2, <2>9, <2>10, <2>11 DEF KindOK
<1>11. ASSUME NEW u \in Tids, Handler(u) PROVE KindOK(t)'
  <2>1. /\ UNCHANGED <<free, handle, owner, tslot, client, reg, conn, i, pc>>
        /\ tstate' = tstate \/ (tstate[u] = "handler" /\ tstate' = [tstate EXCEPT ![u] = "setFree1"])
    BY <1>11 DEF Handler, HandlerReturns, EndServer, HandlerThrows, Step
  <2>2. \A v \in Tids : /\ tstate'[v] = "closeHandle" => tstate[v] = "closeHandle"
                        /\ tstate[v] = "none" => tstate'[v] = "none"
                        /\ tstate'[v] = "suspended" => tstate[v] = "suspended"
    BY <2>1 DEF TypeOK
  <2>3. BeingEntered(t)' <=> BeingEntered(t)
    BY <2>1 DEF BeingEntered
  <2>4. KindOK(t)
    BY <1>s, <2>2
  <2> QED BY <2>1, <2>2, <2>3, <2>4, KindKept
<1>12. ASSUME NEW u \in Tids, SetFree1(u) PROVE KindOK(t)'
  <2>1. /\ UNCHANGED <<handle, owner, tslot, client, reg, conn, i, pc>>
        /\ tstate[u] = "setFree1" /\ tstate' = [tstate EXCEPT ![u] = "setFree2"]
        /\ free' = [free EXCEPT ![tslot[u]] = TRUE]
    BY <1>12 DEF SetFree1, Step
  <2>2. tstate[t] = "suspended" /\ tslot[u] # s
    BY <2>1, <1>e DEF TypeOK, Early, EarlyStates
  <2>3. free'[s] = free[s]
    BY <2>1, <2>2, <1>t DEF TypeOK
  <2>4. Untouched(t) => Untouched(t)'
    BY <2>1, <2>3 DEF Untouched, TypeOK
  <2>5. LeftBehind(t) => LeftBehind(t)'
    BY <2>1, <2>3 DEF LeftBehind, BeingEntered
  <2> QED BY <1>s, <2>1, <2>2, <2>4, <2>5 DEF KindOK, BeingEntered
<1>13. ASSUME NEW u \in Tids, SetFree2(u) PROVE KindOK(t)'
  <2>1. /\ UNCHANGED <<free, handle, owner, tslot, client, reg, conn, i, pc>>
        /\ tstate[u] = "setFree2" /\ tstate' = [tstate EXCEPT ![u] = "loadHandle"]
    BY <1>13 DEF SetFree2, Step
  <2>2. \A v \in Tids : /\ tstate'[v] = "closeHandle" => tstate[v] = "closeHandle"
                        /\ tstate[v] = "none" => tstate'[v] = "none"
                        /\ tstate'[v] = "suspended" => tstate[v] = "suspended"
    BY <2>1 DEF TypeOK
  <2>3. BeingEntered(t)' <=> BeingEntered(t)
    BY <2>1 DEF BeingEntered
  <2>4. KindOK(t)
    BY <1>s, <2>2
  <2> QED BY <2>1, <2>2, <2>3, <2>4, KindKept
<1>14. ASSUME NEW u \in Tids, LoadHandle(u) \/ WorkerClose(u) \/ NullHandle(u) PROVE KindOK(t)'
  <2>1. /\ UNCHANGED <<free, tslot, client, conn, i, pc>>
        /\ u # t /\ tstate[u] # "none" /\ tstate[t] = "suspended"
        /\ \A v \in Tids : v # u => tstate'[v] = tstate[v] /\ reg'[v] = reg[v]
    BY <1>14 DEF LoadHandle, WorkerClose, NullHandle, Step, TypeOK
  <2>2. LeftBehind(t) => LeftBehind(t)'
    BY <2>1 DEF LeftBehind, BeingEntered
  <2>3. ASSUME Untouched(t) PROVE Untouched(t)'
    <3>1. tslot[u] # s /\ tslot[u] \in Slots
      BY <2>1, <2>3 DEF Untouched, TypeOK
    <3>2. handle'[s] = handle[s] /\ \A r \in Slots : handle'[r] \in {handle[r], Null}
      BY <1>14, <3>1, <1>t DEF LoadHandle, WorkerClose, NullHandle, TypeOK
    <3>3. owner'[handle[s]] = owner[handle[s]]
      BY <1>14, <2>3 DEF LoadHandle, WorkerClose, NullHandle, Step, AfterClose, Untouched, TypeOK
    <3>e. \A h \in Handles : owner'[h] = owner[h] \/ owner'[h] = NoThread
      BY <1>14 DEF LoadHandle, WorkerClose, NullHandle, Step, AfterClose, TypeOK
    <3>4. tstate'[u] = "closeHandle" => reg'[u] # handle[s]
      BY <1>14, <2>3, <3>1 DEF LoadHandle, WorkerClose, NullHandle, Step, Untouched, TypeOK
    <3>5. handle[s] \in Handles /\ handle[s] # Null
      BY <2>3 DEF Untouched
    <3>6. owner'[handle[s]] = t /\ \A h \in Handles : owner'[h] = t => h = handle[s]
      <4>1. owner[handle[s]] = t /\ \A h \in Handles : owner[h] = t => h = handle[s]
        BY <2>3 DEF Untouched
      <4>2. owner'[handle[s]] = t
        BY <3>3, <4>1
      <4> QED BY <3>e, <4>1, <4>2
    <3>7. \A r \in Slots : r # s => handle'[r] # handle[s]
      BY <2>3, <3>2, <3>5 DEF Untouched
    <3>8. \A v \in Tids : tstate'[v] = "closeHandle" => reg'[v] # handle[s]
      BY <2>1, <2>3, <3>4 DEF Untouched
    <3>9. \A v \in Tids : v # t /\ tslot[v] = s => tstate'[v] = "none"
      BY <2>1, <2>3, <3>1 DEF Untouched
    <3> QED BY <2>1, <2>3, <3>2, <3>5, <3>6, <3>7, <3>8, <3>9 DEF Untouched
  <2> QED BY <1>s, <2>1, <2>2, <2>3 DEF KindOK, BeingEntered
<1> QED
  BY <1>1, <1>2, <1>3, <1>4, <1>5, <1>6, <1>7, <1>8, <1>9, <1>10, <1>11, <1>12, <1>13, <1>14
     DEF Next, Main, Scan, Create, Enter, GiveBack

-----------------------------------------------------------------------------
(* A running session has a client of its own, and it has been served. *)

(* Resume, as the sessions and the connections see it. *)
LEMMA ResumeEffect ==
  ASSUME TypeOK, SlotInv, SuspendedInv, ConnInv, Resume
  PROVE  /\ client[i] = sock /\ conn[sock] = "accepted"
         /\ \A t \in Tids : tstate'[t] = IF t \in Suspended(handle[i]) THEN "handler" ELSE tstate[t]
         /\ \A c \in Conns :
              conn'[c] = IF \E t \in Suspended(handle[i]) : client[tslot[t]] = c THEN "served"
                         ELSE IF c = sock THEN "lost" ELSE conn[c]
         /\ \A t \in Suspended(handle[i]) :
              /\ t \in Tids /\ tstate[t] = "suspended"
              /\ client[tslot[t]] \in Conns /\ conn[client[tslot[t]]] \in {"accepted", "lost"}
<1>1. pc = "resume"
  BY DEF Resume
<1>2. client[i] = sock /\ conn[sock] = "accepted" /\ sock \in Conns
  BY <1>1 DEF ConnInv, SockInv, HoldsSock, EnteringStates
<1>3. \A t \in Tids : tstate'[t] = IF t \in Suspended(handle[i]) THEN "handler" ELSE tstate[t]
  BY DEF Resume
<1>4. \A c \in Conns :
        conn'[c] = IF \E t \in Suspended(handle[i]) : client[tslot[t]] = c THEN "served"
                   ELSE IF c = sock THEN "lost" ELSE conn[c]
  BY DEF Resume
<1>5. ASSUME NEW t \in Suspended(handle[i])
      PROVE  /\ t \in Tids /\ tstate[t] = "suspended"
             /\ client[tslot[t]] \in Conns /\ conn[client[tslot[t]]] \in {"accepted", "lost"}
  <2>1. t \in Tids /\ tstate[t] = "suspended" /\ (tslot[t] = i \/ LeftBehind(t))
    BY <1>1, ResumedIsTaken DEF Suspended, SlotInv
  <2>2. CASE tslot[t] = i
    BY <1>2, <2>1, <2>2
  <2>3. CASE LeftBehind(t)
    BY <2>1, <2>3 DEF LeftBehind, TypeOK
  <2> QED BY <2>1, <2>2, <2>3
<1> QED BY <1>2, <1>3, <1>4, <1>5

(* Only EnterClient writes a client, and never that of a running session. *)
LEMMA ClientKept ==
  ASSUME TypeOK, SlotInv, [Next]_vars, NEW t \in Tids, Running(t)
  PROVE  client'[tslot[t]] = client[tslot[t]] /\ tslot'[t] = tslot[t]
<1>1. CASE UNCHANGED <<client, tslot>>
  BY <1>1
<1>2. CASE EnterClient
  <2>1. tslot[t] # i
    BY <1>2 DEF EnterClient, SlotInv, NotRunningWhenEntering, EnteringStates, Running
  <2> QED BY <1>2, <2>1 DEF EnterClient, TypeOK
<1>3. CASE CreateThread
  <2>1. PICK u \in Tids : tstate[u] = "none" /\ tslot' = [tslot EXCEPT ![u] = i] /\ client' = client
    BY <1>3 DEF CreateThread
  <2>2. u # t
    BY <2>1 DEF Running
  <2> QED BY <2>1, <2>2 DEF TypeOK
<1>4. ASSUME NEW u \in Tids, Handler(u) \/ GiveBack(u) PROVE UNCHANGED <<client, tslot>>
  BY <1>4 DEF Handler, HandlerReturns, EndServer, HandlerThrows, GiveBack, SetFree1, SetFree2,
       LoadHandle, WorkerClose, NullHandle, Step
<1>5. ASSUME NEW c \in Conns, Connect(c) PROVE UNCHANGED <<client, tslot>>
  BY <1>5 DEF Connect
<1> QED
  BY <1>1, <1>2, <1>3, <1>4, <1>5 DEF vars, Next, Main, Loop, Select, Scan, ReadFree,
     ReadNotDestroyed, ReadDestroyed, Create, CreateFree, CreateDestroyed, CreateClose, Enter,
     EnterFree, EnterDestroyed, Resume, Wait, WaitFails, WaitBegins, WaitReturns

(* Only Resume starts a session, and only Resume makes a client served. *)
LEMMA OnlyResume ==
  ASSUME TypeOK, ConnInv, [Next]_vars, ~Resume
  PROVE  /\ \A t \in Tids : Running(t)' => Running(t)
         /\ \A c \in Conns : conn'[c] = "served" <=> conn[c] = "served"
<1> USE DEF Running
<1>1. CASE UNCHANGED <<tstate, conn>>
  BY <1>1
<1>2. ASSUME NEW c \in Conns, Connect(c) PROVE UNCHANGED tstate /\ conn[c] = "idle" /\ conn' = [conn EXCEPT ![c] = "queued"]
  BY <1>2 DEF Connect
<1>3. CASE Select
  <2>1. backlog # <<>> => Head(backlog) \in Conns /\ conn[Head(backlog)] = "queued"
    <3> SUFFICES ASSUME backlog # <<>> PROVE Head(backlog) \in Conns /\ conn[Head(backlog)] = "queued"
      OBVIOUS
    <3>1. Len(backlog) \in Nat \ {0} /\ Head(backlog) = backlog[1] /\ Head(backlog) \in Conns
      BY EmptySeq, HeadTailProperties DEF TypeOK
    <3>2. 1 \in 1 .. Len(backlog)
      BY <3>1
    <3> QED BY <3>1, <3>2 DEF ConnInv, BacklogInv
  <2>2. tstate' = tstate
    BY <1>3 DEF Select
  <2>3. conn' = conn \/ (backlog # <<>> /\ conn' = [conn EXCEPT ![Head(backlog)] = "accepted"])
    BY <1>3 DEF Select
  <2> QED BY <2>1, <2>2, <2>3 DEF TypeOK
<1>4. CASE ReadDestroyed
  <2>1. conn[sock] = "accepted" /\ sock \in Conns
    BY <1>4 DEF ReadDestroyed, ConnInv, SockInv, HoldsSock
  <2>2. tstate' = tstate /\ (conn' = conn \/ conn' = [conn EXCEPT ![sock] = "turnedAway"])
    BY <1>4 DEF ReadDestroyed
  <2> QED BY <2>1, <2>2 DEF TypeOK
<1>5. CASE CreateThread
  BY <1>5 DEF CreateThread, TypeOK
<1>6. ASSUME NEW t \in Tids, Handler(t) \/ GiveBack(t)
      PROVE  /\ conn' = conn
             /\ \E q \in ThreadStates \ {"handler"} : tstate' = [tstate EXCEPT ![t] = q] \/ tstate' = tstate
  BY <1>6 DEF Handler, HandlerReturns, EndServer, HandlerThrows, GiveBack, SetFree1, SetFree2,
       LoadHandle, WorkerClose, NullHandle, Step, ThreadStates, EarlyStates
<1>7. CASE \E c \in Conns : Connect(c)
  BY <1>2, <1>7 DEF TypeOK
<1>8. CASE \E t \in Tids : Handler(t) \/ GiveBack(t)
  BY <1>6, <1>8 DEF TypeOK
<1> QED
  BY <1>1, <1>3, <1>4, <1>5, <1>7, <1>8 DEF vars, Next, Main, Loop, Scan, ReadFree,
     ReadNotDestroyed, Create, CreateFree, CreateDestroyed, CreateClose, Enter,
     EnterFree, EnterDestroyed, EnterClient, Wait, WaitFails, WaitBegins, WaitReturns

LEMMA ServedStep == IInv /\ [Next]_vars => ServedInv'
<1> SUFFICES ASSUME IInv, [Next]_vars, NEW t \in Tids, Running(t)'
             PROVE  client'[tslot'[t]] # Null /\ conn'[client'[tslot'[t]]] = "served"
  BY DEF ServedInv
<1> USE NullFresh
<1> USE DEF IInv
<1>1. CASE ~Resume
  <2>1. Running(t)
    BY <1>1, OnlyResume
  <2>2. client[tslot[t]] \in Conns /\ conn[client[tslot[t]]] = "served"
    BY <2>1 DEF ServedInv, TypeOK
  <2>3. client'[tslot'[t]] = client[tslot[t]]
    BY <2>1, ClientKept
  <2> QED BY <1>1, <2>2, <2>3, OnlyResume
<1>2. CASE Resume
  <2>1. client' = client /\ tslot' = tslot
    BY <1>2 DEF Resume
  <2>2. CASE t \in Suspended(handle[i])
    BY <1>2, <2>1, <2>2, ResumeEffect
  <2>3. CASE t \notin Suspended(handle[i])
    <3>1. Running(t)
      BY <1>2, <2>3, ResumeEffect DEF Running
    <3>2. client[tslot[t]] \in Conns /\ conn[client[tslot[t]]] = "served"
      BY <3>1 DEF ServedInv, TypeOK
    <3>3. client[tslot[t]] # sock
      BY <1>2, <3>2, ResumeEffect
    <3>4. conn'[client[tslot[t]]] = "served"
      BY <1>2, <3>2, <3>3, ResumeEffect
    <3> QED BY <2>1, <3>2, <3>4
  <2> QED BY <2>2, <2>3
<1> QED BY <1>1, <1>2

LEMMA Inductive == IInv /\ [Next]_vars => IInv'
BY TypeStep, SlotStep, SuspendedStep, ConnStep, ServedStep DEF IInv

LEMMA IInvInit == Init => IInv
<1> SUFFICES ASSUME Init PROVE IInv
  OBVIOUS
<1>1. ServedInv
  BY DEF Init, ServedInv, Running
<1> QED BY <1>1, TypeInit, SlotInit, SuspendedInit, ConnInit DEF IInv

LEMMA Invariance == Spec => []IInv
BY IInvInit, Inductive, PTL DEF Spec

-----------------------------------------------------------------------------
(* At most one session per slot, hence at most CLIENTS at once. *)
THEOREM SlotsAreExclusive == Spec => []OneSessionPerSlot
<1>1. IInv => OneSessionPerSlot
  BY DEF IInv, SlotInv, OneEarly, OneSessionPerSlot, Running, Early, EarlyStates
<1> QED BY <1>1, Invariance, PTL

(* No two sessions on one socket. *)
THEOREM SocketsAreExclusive == Spec => []NoSharedClient
<1>1. IInv => NoSharedClient
  <2> SUFFICES ASSUME IInv, NEW t \in Tids, NEW u \in Tids, Running(t), Running(u), t # u
               PROVE  client[tslot[t]] # client[tslot[u]] /\ client[tslot[t]] # Null
    BY DEF NoSharedClient
  <2>1. tslot[t] # tslot[u] /\ tslot[t] \in Slots /\ tslot[u] \in Slots
    BY DEF IInv, TypeOK, SlotInv, OneEarly, Running, Early, EarlyStates
  <2>2. client[tslot[t]] # Null
    BY DEF IInv, ServedInv
  <2> QED BY <2>1, <2>2 DEF IInv, ConnInv, ClientInv
<1> QED BY <1>1, Invariance, PTL

(* threadPool never takes the slot of a running session for an idle one. *)
THEOREM RunningSlotsAreTaken == Spec => []RunningSlotIsTaken
<1>1. IInv => RunningSlotIsTaken
  BY DEF IInv, SlotInv, NoEarlyIfDestroyed, TakenWhileRunning, RunningSlotIsTaken,
       Running, Early, EarlyStates
<1> QED BY <1>1, Invariance, PTL

(* data.client is never replaced under a running session. *)
THEOREM SessionsKeepTheirClient == Spec => SessionKeepsClient
<1>1. IInv /\ [Next]_vars =>
        [\A t \in Tids : Running(t) /\ Running(t)' => client'[tslot[t]] = client[tslot[t]]]_vars
  BY ClientKept DEF IInv
<1> QED BY <1>1, Invariance, PTL DEF Spec, SessionKeepsClient

-----------------------------------------------------------------------------
(* The server implements Service. *)
Given == {c \in Conns : conn[c] = "served"}

LEMMA SessionOfRunning ==
  ASSUME TypeOK, SlotInv, NEW t \in Tids, Running(t), ~down
  PROVE  SessionOf(tslot[t]) = client[tslot[t]]
BY DEF SessionOf

LEMMA PromiseInit == Init => Promise!Init
<1> SUFFICES ASSUME Init PROVE Promise!Init
  OBVIOUS
<1>1. \A s \in Slots : SessionOf(s) = Null
  BY DEF Init, SessionOf, Running
<1>2. Given = {} /\ down = FALSE
  BY DEF Init, Given
<1> QED BY <1>1, <1>2 DEF Promise!Init, Given

(* A step that starts and ends no session. *)
LEMMA PromiseStutter ==
  ASSUME TypeOK, SlotInv, ConnInv, [Next]_vars, ~Resume, down' = down,
         \A t \in Tids : Running(t) => Running(t)'
  PROVE  UNCHANGED Promise!vars
<1>1. \A t \in Tids : Running(t)' <=> Running(t)
  BY OnlyResume
<1>2. \A t \in Tids : Running(t) => client'[tslot[t]] = client[tslot[t]] /\ tslot'[t] = tslot[t]
  BY ClientKept
<1>3. ASSUME NEW s \in Slots PROVE SessionOf(s)' = SessionOf(s)
  <2>1. (\E t \in Tids : Running(t)' /\ tslot'[t] = s) <=> (\E t \in Tids : Running(t) /\ tslot[t] = s)
    BY <1>1, <1>2
  <2>2. (\E t \in Tids : Running(t) /\ tslot[t] = s) => client'[s] = client[s]
    BY <1>2
  <2> QED BY <2>1, <2>2 DEF SessionOf
<1>4. Given' = Given
  BY OnlyResume DEF Given
<1> QED BY <1>3, <1>4 DEF Promise!vars, Given

(* The end of the process is the end of every session. *)
LEMMA PromiseStop ==
  ASSUME ~down, down', conn' = conn
  PROVE  Promise!Stop
<1>1. \A s \in Slots : SessionOf(s)' = Null
  BY DEF SessionOf
<1> QED BY <1>1 DEF Promise!Stop

LEMMA PromiseFinish ==
  ASSUME TypeOK, SlotInv, ServedInv, NEW t \in Tids, HandlerReturns(t)
  PROVE  Promise!Finish(tslot[t])
<1> DEFINE s == tslot[t]
<1>1. /\ ~down /\ Running(t) /\ s \in Slots /\ UNCHANGED <<down, tslot, client, conn>>
      /\ \A u \in Tids : Running(u)' <=> Running(u) /\ u # t
  BY DEF HandlerReturns, Step, Running, TypeOK
<1>2. SessionOf(s) # Null
  BY <1>1 DEF SessionOf, ServedInv
<1>3. \A u \in Tids : Running(u) /\ u # t => tslot[u] # s
  BY <1>1 DEF SlotInv, OneEarly, Running, Early, EarlyStates
<1>4. SessionOf(s)' = Null
  BY <1>1, <1>3 DEF SessionOf
<1>5. ASSUME NEW r \in Slots, r # s PROVE SessionOf(r)' = SessionOf(r)
  <2>1. (\E u \in Tids : Running(u)' /\ tslot'[u] = r) <=> (\E u \in Tids : Running(u) /\ tslot[u] = r)
    BY <1>1, <1>5
  <2> QED BY <1>1, <2>1 DEF SessionOf
<1> QED BY <1>1, <1>2, <1>4, <1>5 DEF Promise!Finish

LEMMA PromiseStart ==
  ASSUME IInv, Resume
  PROVE  [Promise!Next]_(Promise!vars)
<1> USE DEF IInv
<1>1. /\ ~down /\ UNCHANGED <<down, tslot, client>>
  BY DEF Resume
<1>2. \A t, u \in Suspended(handle[i]) : t = u
  BY DEF Suspended
<1>3. CASE Suspended(handle[i]) = {}
  <2>1. \A t \in Tids : Running(t)' <=> Running(t)
    BY <1>3, ResumeEffect DEF Running
  <2>2. \A c \in Conns : conn'[c] = "served" <=> conn[c] = "served"
    BY <1>3, ResumeEffect
  <2>3. \A s \in Slots : SessionOf(s)' = SessionOf(s)
    BY <1>1, <2>1 DEF SessionOf
  <2>4. Given' = Given
    BY <2>2 DEF Given
  <2> QED BY <1>1, <2>3, <2>4 DEF Promise!vars, Given
<1>4. CASE Suspended(handle[i]) # {}
  <2>1. PICK t \in Suspended(handle[i]) : TRUE
    BY <1>4
  <2>2. PICK s \in Slots, c \in Conns :
           /\ t \in Tids /\ tstate[t] = "suspended"
           /\ s = tslot[t] /\ c = client[s] /\ conn[c] \in {"accepted", "lost"}
    BY <2>1, ResumeEffect DEF TypeOK
  <2>3. \A u \in Tids : Running(u)' <=> Running(u) \/ u = t
    BY <1>2, <2>1, <2>2, ResumeEffect DEF Running
  <2>4. \A u \in Tids : Running(u) => tslot[u] # s
    BY <2>2 DEF SlotInv, OneEarly, Running, Early, EarlyStates
  <2>5. SessionOf(s) = Null
    BY <2>4 DEF SessionOf
  <2>6. SessionOf(s)' = c
    BY <1>1, <2>2, <2>3 DEF SessionOf
  <2>7. ASSUME NEW r \in Slots, r # s PROVE SessionOf(r)' = SessionOf(r)
    <3>1. (\E u \in Tids : Running(u)' /\ tslot'[u] = r) <=> (\E u \in Tids : Running(u) /\ tslot[u] = r)
      BY <1>1, <2>2, <2>3, <2>7
    <3> QED BY <1>1, <3>1 DEF SessionOf
  <2>8. \A d \in Conns : conn'[d] = "served" <=> conn[d] = "served" \/ d = c
    BY <1>2, <2>1, <2>2, ResumeEffect
  <2>9. Given' = Given \cup {c} /\ c \notin Given
    BY <2>2, <2>8 DEF Given
  <2>10. Promise!Start(s, c)
    <3>1. [r \in Slots |-> SessionOf(r)]' = [[r \in Slots |-> SessionOf(r)] EXCEPT ![s] = c]
      BY <2>2, <2>6, <2>7
    <3> QED BY <1>1, <2>2, <2>5, <2>9, <3>1 DEF Promise!Start, Given
  <2>11. Promise!Next
    BY <2>2, <2>10 DEF Promise!Next
  <2> QED BY <2>11
<1> QED BY <1>3, <1>4

LEMMA PromiseStep == IInv /\ [Next]_vars => [Promise!Next]_(Promise!vars)
<1> SUFFICES ASSUME IInv, [Next]_vars PROVE [Promise!Next]_(Promise!vars)
  OBVIOUS
<1> USE DEF IInv
<1>1. CASE Resume
  BY <1>1, PromiseStart
<1>2. CASE ~Resume /\ down' = down /\ \A t \in Tids : Running(t) => Running(t)'
  BY <1>2, PromiseStutter
<1>3. ASSUME NEW t \in Tids, HandlerReturns(t) PROVE Promise!Next
  BY <1>3, PromiseFinish DEF Promise!Next, TypeOK
<1>4. CASE WaitFails \/ WaitReturns \/ \E t \in Tids : HandlerThrows(t)
  <2>1. ~down /\ down' /\ conn' = conn
    BY <1>4 DEF WaitFails, WaitReturns, HandlerThrows
  <2> QED BY <2>1, PromiseStop DEF Promise!Next
<1>5. CASE UNCHANGED <<down, tstate>>
  BY <1>1, <1>2, <1>5 DEF Running
<1>6. CASE CreateThread
  <2>1. down' = down /\ \A t \in Tids : Running(t) => Running(t)'
    BY <1>6 DEF CreateThread, Running, TypeOK
  <2> QED BY <1>1, <1>2, <2>1
<1>7. ASSUME NEW t \in Tids, GiveBack(t) \/ EndServer(t) PROVE [Promise!Next]_(Promise!vars)
  <2>1. down' = down /\ \A u \in Tids : Running(u) => Running(u)'
    BY <1>7 DEF GiveBack, EndServer, SetFree1, SetFree2, LoadHandle, WorkerClose, NullHandle,
         Step, Running, TypeOK
  <2> QED BY <1>1, <1>2, <2>1
<1> QED
  BY <1>1, <1>3, <1>4, <1>5, <1>6, <1>7 DEF vars, Next, Main, Loop, Select, Scan, ReadFree,
     ReadNotDestroyed, ReadDestroyed, Create, CreateFree, CreateDestroyed, CreateClose, Enter,
     EnterFree, EnterDestroyed, EnterClient, Wait, WaitBegins, Handler, Connect

(* The server implements Service: its places, its one session per connection *)
(* and its stop.                                                             *)
THEOREM ServerImplementsService == Spec => ImplementsService
<1>1. Init => Promise!Init
  BY PromiseInit
<1>2. IInv /\ [Next]_vars => [Promise!Next]_(Promise!vars)
  BY PromiseStep
<1> QED BY <1>1, <1>2, Invariance, PTL DEF Spec, ImplementsService, Promise!Spec
=============================================================================
