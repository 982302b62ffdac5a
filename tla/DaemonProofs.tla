----------------------------- MODULE DaemonProofs -----------------------------
(***************************************************************************)
(* Proofs about Daemon, for any number of invocations and builds, any      *)
(* capacity of the log and any page size.                                  *)
(*                                                                         *)
(* IInv has the types, the instance lock and the endpoint file; the other  *)
(* theorems have invariants of their own on it: SchemaInv, TokenInv,       *)
(* CleanInv and MemInv.  The log has two sections: what one query returns  *)
(* from a ring that is the newest part of the history (LogInv, QueryPage), *)
(* and what a client has after several of them (PagerInv, PageFollows).    *)
(***************************************************************************)
EXTENDS Daemon, SequenceTheorems, FiniteSetTheorems, TLAPS

\* Memory, or NoMemory.
AnyMemory == [build : Builds \cup {<<>>}, token : Proc \cup {None},
              handler : BOOLEAN, inside : BOOLEAN, restarted : BOOLEAN]

\* The part of the state the theorems are about.  A migration's body and its
\* record are committed together.
CoreType ==
    /\ pc \in [Proc -> Phases]
    /\ mem \in [Proc -> AnyMemory]
    /\ lock \in Proc \cup {None}
    /\ tokenFile \in Proc \cup {None}
    /\ endpoint \in Proc \cup {None, Empty}
    /\ caddy \in Proc \cup {None}
    /\ history \in Seq(Migrations)
    /\ schema = history
    /\ excused \subseteq {"caddy", "endpoint"}

\* Between AcquireInstanceLock and Release.
Holding == Phases \ {"new", "refused", "exiting", "gone"}

\* The lock is held by the invocation that is between those two calls, which
\* so is the only one, and knows its migrations.
LockInv ==
    /\ \A p \in Proc : pc[p] \in Holding <=> lock = p
    /\ \A p \in Proc : pc[p] \in Holding => mem[p].build \in Builds

IInv == CoreType /\ LockInv /\ EndpointNamesServer

LEMMA InitIInv == Init => IInv
  <1> SUFFICES ASSUME Init PROVE IInv
    OBVIOUS
  <1>1. CoreType
    BY DEF Init, CoreType, Phases, AnyMemory, NoMemory
  <1>2. LockInv /\ EndpointNamesServer
    BY DaemonAssumption DEF Init, LockInv, Holding, EndpointNamesServer
  <1> QED
    BY <1>1, <1>2 DEF IInv

\* An invocation's memory changes when it gets the lock, loads the token, works on
\* a request, and ends.
MemoryOf(p, build, token, handler) ==
    /\ mem' \in [Proc -> AnyMemory]
    /\ \A q \in Proc \ {p} : mem'[q] = mem[q]
    /\ mem'[p].build = build /\ mem'[p].token = token /\ mem'[p].handler = handler

LEMMA MemoryBecomes ==
    ASSUME mem \in [Proc -> AnyMemory], NEW p \in Proc, NEW m \in AnyMemory,
           mem' = [mem EXCEPT ![p] = m]
    PROVE  MemoryOf(p, m.build, m.token, m.handler)
  BY DEF MemoryOf

\* A request that reaches Caddy, between its begin and its end.
RequestWorks(p) ==
    RequestEnters(p) \/ RequestStarts(p) \/ RequestStops(p) \/ RequestLeaves(p)

LEMMA MemoryStep ==
    ASSUME CoreType, NEW p \in Proc
    PROVE  /\ Locks(p) => \E b \in Builds : MemoryOf(p, b, None, FALSE)
           /\ Tokens(p) => MemoryOf(p, mem[p].build, tokenFile', mem[p].handler)
           /\ RequestBegins(p) => MemoryOf(p, mem[p].build, mem[p].token, TRUE)
           /\ RequestEnds(p) => MemoryOf(p, mem[p].build, mem[p].token, FALSE)
           /\ RequestWorks(p) => MemoryOf(p, mem[p].build, mem[p].token, mem[p].handler)
           /\ Exits(p) \/ Crashes(p) => MemoryOf(p, <<>>, None, FALSE)
  <1> USE DEF CoreType
  <1>1. ASSUME Locks(p) PROVE \E b \in Builds : MemoryOf(p, b, None, FALSE)
    <2>1. PICK b \in Builds : mem' = [mem EXCEPT ![p] = [NoMemory EXCEPT !.build = b]]
      BY <1>1 DEF Locks
    <2> DEFINE m == [NoMemory EXCEPT !.build = b]
    <2>2. m \in AnyMemory /\ m.build = b /\ m.token = None /\ m.handler = FALSE
      BY DEF NoMemory, AnyMemory
    <2>3. mem' = [mem EXCEPT ![p] = m]
      BY <2>1, Zenon
    <2> HIDE DEF m
    <2> QED
      BY <2>2, <2>3, MemoryBecomes
  <1>2. ASSUME Tokens(p) PROVE MemoryOf(p, mem[p].build, tokenFile', mem[p].handler)
    <2> DEFINE m == [mem[p] EXCEPT !.token = tokenFile']
    <2>1. tokenFile' \in Proc \cup {None} /\ mem[p] \in AnyMemory
      BY <1>2 DEF Tokens
    <2>2. m \in AnyMemory /\ m.build = mem[p].build /\ m.token = tokenFile' /\ m.handler = mem[p].handler
      BY <2>1 DEF AnyMemory
    <2>3. mem' = [mem EXCEPT ![p] = m]
      BY <1>2, Zenon DEF Tokens
    <2> HIDE DEF m
    <2> QED
      BY <2>2, <2>3, MemoryBecomes
  <1>3. ASSUME NEW h \in BOOLEAN, mem' = [mem EXCEPT ![p].handler = h]
        PROVE  MemoryOf(p, mem[p].build, mem[p].token, h)
    <2> DEFINE m == [mem[p] EXCEPT !.handler = h]
    <2>1. mem[p] \in AnyMemory
      OBVIOUS
    <2>2. m \in AnyMemory /\ m.build = mem[p].build /\ m.token = mem[p].token /\ m.handler = h
      BY <2>1 DEF AnyMemory
    <2>3. mem' = [mem EXCEPT ![p] = m]
      BY <1>3, Zenon
    <2> HIDE DEF m
    <2> QED
      BY <2>2, <2>3, MemoryBecomes
  <1>4. ASSUME Exits(p) \/ Crashes(p) PROVE MemoryOf(p, <<>>, None, FALSE)
    <2>1. mem' = [mem EXCEPT ![p] = NoMemory]
      BY <1>4, Zenon DEF Exits, Crashes
    <2>2. NoMemory \in AnyMemory
      BY DEF NoMemory, AnyMemory
    <2>3. MemoryOf(p, NoMemory.build, NoMemory.token, NoMemory.handler)
      BY <2>1, <2>2, MemoryBecomes
    <2> QED
      BY <2>3 DEF MemoryOf, NoMemory
  <1>5. RequestBegins(p) => MemoryOf(p, mem[p].build, mem[p].token, TRUE)
    BY <1>3 DEF RequestBegins
  <1>6. RequestEnds(p) => MemoryOf(p, mem[p].build, mem[p].token, FALSE)
    BY <1>3 DEF RequestEnds
  <1>7. ASSUME RequestWorks(p)
        PROVE  MemoryOf(p, mem[p].build, mem[p].token, mem[p].handler)
    <2>1. mem[p] \in AnyMemory
      OBVIOUS
    <2>2. PICK m \in AnyMemory : /\ mem' = [mem EXCEPT ![p] = m]
                               /\ m.build = mem[p].build /\ m.token = mem[p].token
                               /\ m.handler = mem[p].handler
      <3>1. CASE RequestEnters(p)
        <4>1. mem' = [mem EXCEPT ![p] = [mem[p] EXCEPT !.inside = TRUE]]
          BY <3>1, Zenon DEF RequestEnters
        <4>2. [mem[p] EXCEPT !.inside = TRUE] \in AnyMemory
          BY <2>1 DEF AnyMemory
        <4> QED
          BY <2>1, <4>1, <4>2 DEF AnyMemory
      <3>2. CASE RequestLeaves(p)
        <4>1. mem' = [mem EXCEPT ![p] = [mem[p] EXCEPT !.inside = FALSE]]
          BY <3>2, Zenon DEF RequestLeaves
        <4>2. [mem[p] EXCEPT !.inside = FALSE] \in AnyMemory
          BY <2>1 DEF AnyMemory
        <4> QED
          BY <2>1, <4>1, <4>2 DEF AnyMemory
      <3>3. CASE RequestStarts(p)
        <4>1. mem' = [mem EXCEPT ![p] = [mem[p] EXCEPT !.restarted = TRUE]]
          BY <3>3, Zenon DEF RequestStarts
        <4>2. [mem[p] EXCEPT !.restarted = TRUE] \in AnyMemory
          BY <2>1 DEF AnyMemory
        <4> QED
          BY <2>1, <4>1, <4>2 DEF AnyMemory
      <3>4. CASE RequestStops(p)
        <4>1. mem' = [mem EXCEPT ![p] = mem[p]]
          BY <3>4 DEF RequestStops
        <4> QED
          BY <2>1, <4>1
      <3> QED
        BY <1>7, <3>1, <3>2, <3>3, <3>4 DEF RequestWorks
    <2> QED
      BY <2>2, MemoryBecomes
  <1> QED
    BY <1>1, <1>2, <1>4, <1>5, <1>6, <1>7, Zenon

\* The actions that change neither an invocation's place nor the files.
Elsewhere ==
    \/ \E p \in Proc : \E level \in Level : Logs(p, level)
    \/ \E p \in Proc : (\E level \in {AnyLevel, "ERROR"} : PagesFirst(p, level)) \/ PagesNext(p)
    \/ FindsEndpoint \/ FindsToken \/ Asks

\* Next, with the steps of one invocation named.
LEMMA NextCases ==
    ASSUME [Next]_vars
    PROVE  \/ \E p \in Proc :
                 \/ Starts(p)
                 \/ RequestBegins(p) \/ RequestWorks(p) \/ RequestEnds(p)
                 \/ ShutdownRequested(p) \/ ServeFails(p) \/ Unwinds(p) \/ Crashes(p)
           \/ CaddyDies \/ Elsewhere \/ UNCHANGED vars
  BY DEF Next, Runs, Elsewhere, RequestWorks

\* A step changes the place of one invocation, and the memory of that one.
LEMMA ElsewhereFrame ==
    ASSUME Elsewhere \/ UNCHANGED vars
    PROVE  UNCHANGED <<pc, mem, lock, history, schema, tokenFile, endpoint, caddy, excused>>
  BY DEF Elsewhere, Logs, PagesFirst, PagesNext, Pages, FindsEndpoint, FindsToken, Asks,
         vars, files

LEMMA StartsCore ==
    ASSUME CoreType, NEW p \in Proc, Starts(p)
    PROVE  CoreType'
  <1> USE DEF CoreType
  <1>1. CASE Locks(p)
    <2>1. PICK b \in Builds : MemoryOf(p, b, None, FALSE)
      BY <1>1, MemoryStep
    <2>2. mem' \in [Proc -> AnyMemory]
      BY <2>1 DEF MemoryOf
    <2> QED
      BY <1>1, <2>2 DEF Locks, Moves, files, Phases
  <1>6. CASE IsRefused(p)
    BY <1>6 DEF IsRefused, Moves, files, Phases
  <1>2. CASE Migrates(p)
    <2>1. mem[p].build \in Builds
      BY <1>2 DEF Migrates, AnyMemory
    <2>2. mem[p].build \in Seq(Migrations)
      BY <2>1, DaemonAssumption
    <2>3. mem[p].build[Len(history) + 1] \in Migrations
      BY <1>2, <2>2 DEF Migrates
    <2> QED
      BY <1>2, <2>3 DEF Migrates, files
  <1>3. CASE Tokens(p)
    BY <1>3, MemoryStep DEF MemoryOf, Tokens, Moves, Phases
  <1>4. CASE Opens(p) \/ OpenFails(p) \/ TokenFails(p) \/ StartsCaddy(p) \/ StartCaddyFails(p)
    BY <1>4 DEF Opens, OpenFails, TokenFails, StartsCaddy, StartCaddyFails, AfterFailure,
                Moves, files, Phases
  <1>5. CASE Listens(p) \/ ListenFails(p) \/ Truncates(p) \/ Serves(p) \/ WriteFails(p) \/ CloseFails(p)
    BY <1>5 DEF Listens, ListenFails, Truncates, Serves, WriteFails, CloseFails, MayLeave,
                AfterFailure, Moves, files, Phases
  <1> QED
    BY <1>1, <1>2, <1>3, <1>4, <1>5, <1>6 DEF Starts

LEMMA RestCore ==
    ASSUME CoreType, NEW p \in Proc,
           \/ RequestBegins(p) \/ RequestWorks(p) \/ RequestEnds(p)
           \/ ShutdownRequested(p) \/ ServeFails(p) \/ Unwinds(p) \/ Crashes(p) \/ CaddyDies
    PROVE  CoreType'
  <1> USE DEF CoreType
  <1>1. CASE RequestBegins(p) \/ RequestWorks(p) \/ RequestEnds(p) \/ CaddyDies
    <2>1. mem' \in [Proc -> AnyMemory]
      BY <1>1, MemoryStep DEF MemoryOf, CaddyDies
    <2> QED
      BY <1>1, <2>1 DEF RequestBegins, RequestWorks, RequestEnters, RequestStarts, RequestStops,
                        RequestLeaves, RequestEnds, MayLeave, CaddyDies, files
  <1>2. CASE ShutdownRequested(p) \/ ServeFails(p)
    BY <1>2 DEF ShutdownRequested, ServeFails, Moves, files, Phases
  <1>3. CASE Crashes(p)
    BY <1>3, MemoryStep DEF MemoryOf, Crashes, files, Phases
  <1>4. CASE \/ Drains(p) \/ DrainTimesOut(p) \/ RemovesEndpoint(p) \/ RemoveFails(p)
             \/ StopsCaddy(p) \/ StopsNothing(p) \/ StopFails(p)
    BY <1>4 DEF Drains, DrainTimesOut, RemovesEndpoint, RemoveFails, StopsCaddy, StopsNothing,
                StopFails, MayLeave, Moves, files, Phases
  <1>5. CASE Releases(p) \/ Exits(p)
    BY <1>5, MemoryStep DEF MemoryOf, Releases, Exits, Moves, files, Phases
  <1> QED
    BY <1>1, <1>2, <1>3, <1>4, <1>5 DEF Unwinds

LEMMA CoreStep == CoreType /\ [Next]_vars => CoreType'
  <1> SUFFICES ASSUME CoreType, [Next]_vars PROVE CoreType'
    OBVIOUS
  <1>1. CASE Elsewhere \/ UNCHANGED vars
    BY <1>1, ElsewhereFrame DEF CoreType
  <1>2. CASE CaddyDies
    BY <1>2 DEF CoreType, CaddyDies, files
  <1> QED
    BY <1>1, <1>2, NextCases, StartsCore, RestCore

LEMMA HoldingMoves ==
    ASSUME CoreType, LockInv, UNCHANGED <<mem, lock>>, NEW p \in Proc,
           NEW from \in Holding, NEW to \in Holding, Moves(p, from, to)
    PROVE  LockInv'
  BY DEF CoreType, LockInv, Moves

\* The lock is taken and given back together with the phase.
LEMMA LockStep ==
    ASSUME CoreType, LockInv, [Next]_vars
    PROVE  LockInv'
  <1> USE DaemonAssumption DEF CoreType, LockInv, Holding
  <1>1. ASSUME NEW p \in Proc, Locks(p) PROVE LockInv'
    <2>1. \E b \in Builds : MemoryOf(p, b, None, FALSE)
      BY <1>1, MemoryStep
    <2>2. lock = None /\ lock' = p /\ pc' = [pc EXCEPT ![p] = "locked"]
      BY <1>1 DEF Locks, Moves
    <2> QED
      BY <2>1, <2>2 DEF MemoryOf, Phases
  <1>0. ASSUME NEW p \in Proc, IsRefused(p) \/ Migrates(p) PROVE LockInv'
    <2>1. CASE IsRefused(p)
      BY <2>1 DEF IsRefused, Moves, Phases
    <2>2. CASE Migrates(p)
      BY <2>2 DEF Migrates
    <2> QED
      BY <1>0, <2>1, <2>2
  <1>2. ASSUME NEW p \in Proc, Tokens(p) PROVE LockInv'
    BY <1>2, MemoryStep DEF MemoryOf, Tokens, Moves, Phases
  <1>3. ASSUME NEW p \in Proc,
               \/ Opens(p) \/ OpenFails(p) \/ TokenFails(p) \/ StartsCaddy(p) \/ StartCaddyFails(p)
               \/ Listens(p) \/ ListenFails(p) \/ Truncates(p) \/ Serves(p)
               \/ WriteFails(p) \/ CloseFails(p)
        PROVE  LockInv'
    <2>1. UNCHANGED <<mem, lock>> /\ \E from \in Holding, to \in Holding : Moves(p, from, to)
      BY <1>3 DEF Opens, OpenFails, TokenFails, StartsCaddy, StartCaddyFails, AfterFailure, Listens,
                  ListenFails, Truncates, Serves, WriteFails, CloseFails, Phases
    <2> QED
      BY <2>1, HoldingMoves
  <1>4. ASSUME NEW p \in Proc, RequestBegins(p) \/ RequestWorks(p) \/ RequestEnds(p)
        PROVE  LockInv'
    <2>1. UNCHANGED <<pc, lock>>
      BY <1>4 DEF RequestBegins, RequestWorks, RequestEnters, RequestStarts, RequestStops,
                  RequestLeaves, RequestEnds
    <2>2. \A q \in Proc : mem'[q].build = mem[q].build
      BY <1>4, MemoryStep DEF MemoryOf
    <2> QED
      BY <2>1, <2>2
  <1>5. ASSUME NEW p \in Proc,
               \/ ShutdownRequested(p) \/ ServeFails(p)
               \/ Drains(p) \/ DrainTimesOut(p) \/ RemovesEndpoint(p) \/ RemoveFails(p)
               \/ StopsCaddy(p) \/ StopsNothing(p) \/ StopFails(p)
        PROVE  LockInv'
    <2>1. UNCHANGED <<mem, lock>> /\ \E from \in Holding, to \in Holding : Moves(p, from, to)
      BY <1>5 DEF ShutdownRequested, ServeFails, Drains, DrainTimesOut, RemovesEndpoint,
                  RemoveFails, StopsCaddy, StopsNothing, StopFails, Phases
    <2> QED
      BY <2>1, HoldingMoves
  <1>6. ASSUME NEW p \in Proc, Releases(p) PROVE LockInv'
    BY <1>6 DEF Releases, Moves, Phases
  <1>9. ASSUME NEW p \in Proc, Exits(p) \/ Crashes(p) PROVE LockInv'
    <2>1. MemoryOf(p, <<>>, None, FALSE)
      BY <1>9, MemoryStep
    <2>2. /\ pc' = [pc EXCEPT ![p] = "gone"]
          /\ lock' = IF lock = p THEN None ELSE lock
      BY <1>9 DEF Exits, Crashes, Moves, Phases
    <2> QED
      BY <2>1, <2>2 DEF MemoryOf, Phases
  <1>7. CASE CaddyDies
    BY <1>7 DEF CaddyDies
  <1>8. CASE Elsewhere \/ UNCHANGED vars
    BY <1>8, ElsewhereFrame
  <1> QED
    BY <1>0, <1>1, <1>2, <1>3, <1>4, <1>5, <1>6, <1>7, <1>8, <1>9, NextCases
       DEF Starts, Unwinds

\* The endpoint is written only by the holder of the lock, and removed by it
\* before the lock is released.
LEMMA EndpointStep ==
    ASSUME CoreType, LockInv, EndpointNamesServer, [Next]_vars
    PROVE  EndpointNamesServer'
  <1> USE DEF CoreType, LockInv, Holding, EndpointNamesServer
  <1>1. ASSUME NEW p \in Proc, Starts(p) PROVE EndpointNamesServer'
    <2>1. CASE Truncates(p) \/ Serves(p) \/ CloseFails(p)
      BY <2>1 DEF Truncates, Serves, CloseFails, AfterFailure, Moves, Phases
    <2>2. CASE Locks(p) \/ IsRefused(p) \/ Migrates(p) \/ Opens(p) \/ OpenFails(p) \/ Tokens(p)
      BY <2>2 DEF Locks, IsRefused, Migrates, Opens, OpenFails, Tokens, Moves, Phases
    <2>3. CASE \/ TokenFails(p) \/ StartsCaddy(p) \/ StartCaddyFails(p)
               \/ Listens(p) \/ ListenFails(p) \/ WriteFails(p)
      BY <2>3 DEF TokenFails, StartsCaddy, StartCaddyFails, AfterFailure, Listens, ListenFails,
                  WriteFails, CloseFails, MayLeave, Moves, Phases
    <2> QED
      BY <1>1, <2>1, <2>2, <2>3 DEF Starts
  <1>2. ASSUME NEW p \in Proc,
               \/ RequestBegins(p) \/ RequestWorks(p) \/ RequestEnds(p)
               \/ ShutdownRequested(p) \/ ServeFails(p) \/ Crashes(p)
        PROVE  EndpointNamesServer'
    BY <1>2 DEF RequestBegins, RequestWorks, RequestEnters, RequestStarts, RequestStops,
                RequestLeaves, RequestEnds, ShutdownRequested, ServeFails, Crashes, Moves
  <1>3. ASSUME NEW p \in Proc, Unwinds(p) PROVE EndpointNamesServer'
    BY <1>3 DEF Unwinds, Drains, DrainTimesOut, RemovesEndpoint, RemoveFails, StopsCaddy,
                StopsNothing, StopFails, Releases, Exits, Moves, Phases
  <1>4. CASE CaddyDies
    BY <1>4 DEF CaddyDies
  <1>5. CASE Elsewhere \/ UNCHANGED vars
    BY <1>5, ElsewhereFrame
  <1> QED
    BY <1>1, <1>2, <1>3, <1>4, <1>5, NextCases

LEMMA IInvHolds == Spec => []IInv
  <1>1. IInv /\ [Next]_vars => IInv'
    BY CoreStep, LockStep, EndpointStep DEF IInv
  <1> QED
    BY InitIInv, <1>1, PTL DEF Spec

\* The endpoint file leads to the davd that serves, for any number of
\* invocations, crashes and shutdowns (writeEndpoint, removeEndpoint and the
\* instance lock around both).
THEOREM EndpointsNameServers == Spec => []EndpointNamesServer
  BY IInvHolds, PTL DEF IInv

-----------------------------------------------------------------------------
(* The schema *)

Opened == {"opened", "tokened", "started", "listening", "writing", "serving",
           "draining", "removing", "stopping"}

\* A recorded history begins with the migration all builds share, which the
\* check of a history of one migration relies on.
SchemaInv ==
    /\ history # <<>> => \A b \in Builds : history[1] = b[1]
    /\ \A p \in Proc : pc[p] \in Opened => history = mem[p].build

LEMMA MigratesSchema ==
    ASSUME IInv, SchemaInv, NEW p \in Proc, Migrates(p)
    PROVE  SchemaInv'
  <1>1. lock = p /\ mem[p].build \in Builds /\ pc[p] = "locked"
    BY DEF IInv, LockInv, Migrates, Holding, Phases
  <1>2. mem[p].build \in Seq(Migrations) /\ history \in Seq(Migrations)
    BY <1>1, DaemonAssumption DEF IInv, CoreType
  <1>3. mem[p].build[Len(history) + 1] \in Migrations
    BY <1>2 DEF Migrates
  <1>4. history' = Append(history, mem[p].build[Len(history) + 1])
    BY DEF Migrates
  <1>5. history'[1] = IF history = <<>> THEN mem[p].build[1] ELSE history[1]
    BY <1>2, <1>3, <1>4
  <1>6. \A b \in Builds : history'[1] = b[1]
    BY <1>1, <1>5, DaemonAssumption DEF SchemaInv
  <1>7. \A q \in Proc : pc'[q] \notin Opened
    BY <1>1 DEF IInv, LockInv, Migrates, Holding, Opened, Phases
  <1> QED
    BY <1>6, <1>7 DEF SchemaInv

\* A history that was accepted and is as long as the build is the build.
LEMMA OpensSchema ==
    ASSUME IInv, SchemaInv, NEW p \in Proc, Opens(p)
    PROVE  SchemaInv'
  <1>1. mem[p].build \in Builds /\ pc[p] = "locked"
    BY DEF IInv, LockInv, Opens, Moves, Holding, Phases
  <1> DEFINE b == mem[p].build
  <1>2. b \in Seq(Migrations) /\ Len(b) > 0 /\ history \in Seq(Migrations)
    BY <1>1, DaemonAssumption DEF IInv, CoreType
  <1>3. Validated(p) /\ Len(history) >= Len(b)
    BY DEF Opens
  <1>4. ASSUME Len(history) >= 2 PROVE history = b
    <2>1. Len(history) = Len(b) /\ SubSeq(history, 1, Len(history)) = SubSeq(b, 1, Len(history))
      BY <1>2, <1>3, <1>4 DEF Validated, IsPrefix
    <2>2. SubSeq(history, 1, Len(history)) = history /\ SubSeq(b, 1, Len(b)) = b
      BY <1>2, SubSeqFull
    <2> QED
      BY <2>1, <2>2
  <1>5. ASSUME Len(history) < 2 PROVE history = b
    <2>1. Len(b) \in Nat /\ Len(history) \in Nat
      BY <1>2, LenProperties
    <2>2. Len(history) < 2 /\ Len(history) >= Len(b) /\ Len(b) > 0
      BY <1>2, <1>3, <1>5
    <2>3. \A x, y \in Nat : x < 2 /\ x >= y /\ y > 0 => x = 1 /\ y = 1
      OBVIOUS
    <2>4. Len(history) = 1 /\ Len(b) = 1
      BY <2>1, <2>2, <2>3, Zenon
    <2>5. history # <<>>
      BY <2>4, EmptySeq
    <2>6. history[1] = b[1]
      BY <1>1, <2>5 DEF SchemaInv
    <2> QED
      BY <1>2, <2>4, <2>6
  <1>6. history = b
    <2>1. Len(history) \in Nat
      BY <1>2
    <2> QED
      BY <2>1, <1>4, <1>5
  <1> QED
    BY <1>6 DEF SchemaInv, IInv, CoreType, Opens, Moves, files, Opened, Phases

\* Only Migrates extends the history, and only Opens leads to the phases that
\* rely on it.
LEMMA SchemaStep ==
    ASSUME IInv, SchemaInv, [Next]_vars
    PROVE  SchemaInv'
  <1> USE DEF IInv, CoreType, SchemaInv, Opened
  <1>1. ASSUME NEW p \in Proc, Locks(p) PROVE SchemaInv'
    <2>1. \A q \in Proc \ {p} : mem'[q] = mem[q]
      BY <1>1, MemoryStep DEF MemoryOf
    <2> QED
      BY <1>1, <2>1 DEF Locks, Moves, files, Phases
  <1>2. ASSUME NEW p \in Proc, Tokens(p) PROVE SchemaInv'
    <2>1. \A q \in Proc : mem'[q].build = mem[q].build
      BY <1>2, MemoryStep DEF MemoryOf
    <2> QED
      BY <1>2, <2>1 DEF Tokens, Moves, Phases
  <1>3. ASSUME NEW p \in Proc,
               \/ IsRefused(p) \/ OpenFails(p) \/ TokenFails(p)
               \/ StartsCaddy(p) \/ StartCaddyFails(p)
        PROVE  SchemaInv'
    BY <1>3 DEF IsRefused, OpenFails, TokenFails, StartsCaddy, StartCaddyFails, AfterFailure,
                Moves, files, Phases
  <1>4. ASSUME NEW p \in Proc,
               Listens(p) \/ ListenFails(p) \/ Truncates(p) \/ Serves(p) \/ WriteFails(p) \/ CloseFails(p)
        PROVE  SchemaInv'
    BY <1>4 DEF Listens, ListenFails, Truncates, Serves, WriteFails, CloseFails, AfterFailure,
                Moves, files, Phases
  <1>5. ASSUME NEW p \in Proc, RequestBegins(p) \/ RequestWorks(p) \/ RequestEnds(p)
        PROVE  SchemaInv'
    <2>1. \A q \in Proc : mem'[q].build = mem[q].build
      BY <1>5, MemoryStep DEF MemoryOf
    <2> QED
      BY <1>5, <2>1 DEF RequestBegins, RequestWorks, RequestEnters, RequestStarts, RequestStops,
                        RequestLeaves, RequestEnds, files
  <1>6. ASSUME NEW p \in Proc, ShutdownRequested(p) \/ ServeFails(p)
        PROVE  SchemaInv'
    BY <1>6 DEF ShutdownRequested, ServeFails, Moves, files, Phases
  <1>7. ASSUME NEW p \in Proc,
               \/ Drains(p) \/ DrainTimesOut(p) \/ RemovesEndpoint(p) \/ RemoveFails(p)
               \/ StopsCaddy(p) \/ StopsNothing(p) \/ StopFails(p) \/ Releases(p)
        PROVE  SchemaInv'
    BY <1>7 DEF Drains, DrainTimesOut, RemovesEndpoint, RemoveFails, StopsCaddy, StopsNothing,
                StopFails, Releases, Moves, files, Phases
  <1>8. ASSUME NEW p \in Proc, Exits(p) \/ Crashes(p) PROVE SchemaInv'
    <2>1. \A q \in Proc \ {p} : mem'[q] = mem[q]
      BY <1>8, MemoryStep DEF MemoryOf
    <2> QED
      BY <1>8, <2>1 DEF Exits, Crashes, Moves, files, Phases
  <1>9. CASE CaddyDies
    BY <1>9 DEF CaddyDies, files
  <1>10. CASE Elsewhere \/ UNCHANGED vars
    BY <1>10, ElsewhereFrame
  <1> QED
    BY <1>1, <1>2, <1>3, <1>4, <1>5, <1>6, <1>7, <1>8, <1>9, <1>10,
       MigratesSchema, OpensSchema, NextCases DEF Starts, Unwinds

\* A davd past storage.Open works on a database on which exactly the migrations
\* of its own build were executed, for any builds that share their first one
\* (RunMigrations, validateMigrationHistory).
THEOREM SchemasAreOwn == Spec => []SchemaIsOwn
  <1>1. Init => SchemaInv
    BY DEF Init, SchemaInv, Opened
  <1>2. IInv /\ SchemaInv /\ [Next]_vars => SchemaInv'
    BY SchemaStep
  <1>3. IInv /\ SchemaInv => SchemaIsOwn
    BY DEF IInv, CoreType, SchemaInv, SchemaIsOwn, Opened
  <1> QED
    BY <1>1, <1>2, <1>3, IInvHolds, PTL DEF Spec

-----------------------------------------------------------------------------
(* The management token *)

\* The token file is written once.  Every davd that may serve has its token,
\* every endpoint is younger than the token file, and so is what davctl read.
TokenInv ==
    /\ \A p \in Proc :
          /\ mem[p].token # None => mem[p].token = tokenFile
          /\ pc[p] \in {"tokened", "started", "listening", "writing", "serving"}
                => mem[p].token # None
    /\ endpoint # None => tokenFile # None
    /\ client.step \in {"endpoint", "token"} => tokenFile # None
    /\ client.step = "token" => client.token = tokenFile
    /\ TokenHonoured

Davctl == [step : {"idle", "endpoint", "token"}, port : Proc \cup {None, Empty},
           token : Proc \cup {None}, answer : {"none", "unauthorized", "no token"}]

\* davctl's state is a record of these fields.
LEMMA ClientStep ==
    ASSUME CoreType, client \in Davctl, [Next]_vars
    PROVE  client' \in Davctl
  <1> USE DEF CoreType, Davctl, Idle
  <1>1. CASE FindsEndpoint
    BY <1>1 DEF FindsEndpoint
  <1>2. CASE FindsToken
    BY <1>2 DEF FindsToken
  <1>3. CASE Asks
    <2>1. client' = Idle \/ client' = [Idle EXCEPT !.answer = "unauthorized"]
      BY <1>3, Zenon DEF Asks
    <2>2. Idle \in Davctl /\ [Idle EXCEPT !.answer = "unauthorized"] \in Davctl
      BY Zenon
    <2> QED
      BY <2>1, <2>2, Zenon
  <1>4. CASE UNCHANGED client
    BY <1>4
  <1>5. ASSUME NEW p \in Proc, Starts(p) PROVE UNCHANGED client
    BY <1>5 DEF Starts, Locks, IsRefused, Migrates, Opens, OpenFails, Tokens, TokenFails,
                StartsCaddy, StartCaddyFails, Listens, ListenFails, Truncates, Serves, WriteFails,
                CloseFails
  <1>6. ASSUME NEW p \in Proc, Runs(p) PROVE UNCHANGED client
    BY <1>6 DEF Runs, RequestBegins, RequestEnters, RequestStarts, RequestStops, RequestLeaves,
                RequestEnds, Logs, PagesFirst, PagesNext, Pages
  <1>7. ASSUME NEW p \in Proc, Unwinds(p) PROVE UNCHANGED client
    BY <1>7 DEF Unwinds, Drains, DrainTimesOut, RemovesEndpoint, RemoveFails, StopsCaddy,
                StopsNothing, StopFails, Releases, Exits
  <1>8. ASSUME NEW p \in Proc, ShutdownRequested(p) \/ ServeFails(p) \/ Crashes(p) PROVE UNCHANGED client
    BY <1>8 DEF ShutdownRequested, ServeFails, Crashes
  <1>9. CASE CaddyDies \/ UNCHANGED vars
    BY <1>4, <1>9 DEF CaddyDies, vars
  <1> QED
    BY <1>1, <1>2, <1>3, <1>4, <1>5, <1>6, <1>7, <1>8, <1>9 DEF Next

\* Steps of one davd other than Tokens leave the token file and davctl alone.
LEMMA TokenStep ==
    ASSUME CoreType, client \in Davctl, TokenInv, [Next]_vars
    PROVE  TokenInv'
  <1> USE DEF CoreType, TokenInv, TokenHonoured
  <1>1. ASSUME NEW p \in Proc, Tokens(p) PROVE TokenInv'
    <2>1. MemoryOf(p, mem[p].build, tokenFile', mem[p].handler)
      BY <1>1, MemoryStep
    <2>2. /\ tokenFile' = IF tokenFile = None THEN p ELSE tokenFile
          /\ pc' = [pc EXCEPT ![p] = "tokened"]
          /\ UNCHANGED <<endpoint, client>>
      BY <1>1 DEF Tokens, TokenMissing, Moves
    <2>3. tokenFile' # None /\ (tokenFile # None => tokenFile' = tokenFile)
      BY <2>2, DaemonAssumption
    <2>4. ASSUME NEW q \in Proc
          PROVE  /\ mem'[q].token # None => mem'[q].token = tokenFile'
                 /\ pc'[q] \in {"tokened", "started", "listening", "writing", "serving"}
                       => mem'[q].token # None
      <3>1. CASE q = p
        BY <2>1, <2>3, <3>1 DEF MemoryOf
      <3>2. CASE q # p
        BY <2>1, <2>2, <2>3, <3>2 DEF MemoryOf
      <3> QED
        BY <3>1, <3>2
    <2> QED
      BY <2>2, <2>3, <2>4
  <1>2. ASSUME NEW p \in Proc, Locks(p) PROVE TokenInv'
    <2>1. \E b \in Builds : MemoryOf(p, b, None, FALSE)
      BY <1>2, MemoryStep
    <2>2. pc' = [pc EXCEPT ![p] = "locked"] /\ UNCHANGED <<tokenFile, endpoint, client>>
      BY <1>2 DEF Locks, Moves, files
    <2>3. mem'[p].token = None /\ \A q \in Proc \ {p} : mem'[q] = mem[q]
      BY <2>1 DEF MemoryOf
    <2>4. pc'[p] = "locked" /\ \A q \in Proc \ {p} : pc'[q] = pc[q]
      BY <2>2
    <2>5. ASSUME NEW q \in Proc
          PROVE  /\ mem'[q].token # None => mem'[q].token = tokenFile'
                 /\ pc'[q] \in {"tokened", "started", "listening", "writing", "serving"}
                       => mem'[q].token # None
      <3>1. CASE q = p
        BY <2>3, <2>4, <3>1
      <3>2. CASE q # p
        <4>1. mem'[q] = mem[q] /\ pc'[q] = pc[q] /\ tokenFile' = tokenFile
          BY <2>2, <2>3, <2>4, <3>2
        <4> QED
          BY <4>1
      <3> QED
        BY <3>1, <3>2
    <2> QED
      BY <2>2, <2>5
  <1>3. ASSUME NEW p \in Proc, Exits(p) \/ Crashes(p) PROVE TokenInv'
    <2>1. MemoryOf(p, <<>>, None, FALSE)
      BY <1>3, MemoryStep
    <2>2. pc' = [pc EXCEPT ![p] = "gone"] /\ UNCHANGED <<tokenFile, endpoint, client>>
      BY <1>3 DEF Exits, Crashes, Moves, files
    <2>3. mem'[p].token = None /\ \A q \in Proc \ {p} : mem'[q] = mem[q]
      BY <2>1 DEF MemoryOf
    <2>4. pc'[p] = "gone" /\ \A q \in Proc \ {p} : pc'[q] = pc[q]
      BY <2>2
    <2>5. ASSUME NEW q \in Proc
          PROVE  /\ mem'[q].token # None => mem'[q].token = tokenFile'
                 /\ pc'[q] \in {"tokened", "started", "listening", "writing", "serving"}
                       => mem'[q].token # None
      <3>1. CASE q = p
        BY <2>3, <2>4, <3>1
      <3>2. CASE q # p
        <4>1. mem'[q] = mem[q] /\ pc'[q] = pc[q] /\ tokenFile' = tokenFile
          BY <2>2, <2>3, <2>4, <3>2
        <4> QED
          BY <4>1
      <3> QED
        BY <3>1, <3>2
    <2> QED
      BY <2>2, <2>5
  <1>4. ASSUME NEW p \in Proc, RequestBegins(p) \/ RequestWorks(p) \/ RequestEnds(p)
        PROVE  TokenInv'
    <2>1. \A q \in Proc : mem'[q].token = mem[q].token
      BY <1>4, MemoryStep DEF MemoryOf
    <2>2. UNCHANGED <<pc, tokenFile, endpoint, client>>
      BY <1>4 DEF RequestBegins, RequestWorks, RequestEnters, RequestStarts, RequestStops,
                  RequestLeaves, RequestEnds, files
    <2> QED
      BY <2>1, <2>2
  <1>5. ASSUME NEW p \in Proc,
               \/ IsRefused(p) \/ Migrates(p) \/ Opens(p) \/ OpenFails(p) \/ TokenFails(p)
               \/ StartsCaddy(p) \/ StartCaddyFails(p)
        PROVE  TokenInv'
    BY <1>5 DEF IsRefused, Migrates, Opens, OpenFails, TokenFails, StartsCaddy, StartCaddyFails,
                AfterFailure, Moves, files
  <1>6. ASSUME NEW p \in Proc, Truncates(p) \/ Serves(p) \/ CloseFails(p) PROVE TokenInv'
    <2>1. tokenFile # None
      BY <1>6 DEF Truncates, Serves, CloseFails, Moves
    <2> QED
      BY <1>6, <2>1 DEF Truncates, Serves, CloseFails, AfterFailure, Moves, files
  <1>7. ASSUME NEW p \in Proc, Listens(p) \/ ListenFails(p) \/ WriteFails(p) PROVE TokenInv'
    BY <1>7 DEF Listens, ListenFails, WriteFails, AfterFailure, Moves, files
  <1>8. ASSUME NEW p \in Proc, ShutdownRequested(p) \/ ServeFails(p)
        PROVE  TokenInv'
    BY <1>8 DEF ShutdownRequested, ServeFails, Moves, files
  <1>9. ASSUME NEW p \in Proc,
               \/ Drains(p) \/ DrainTimesOut(p) \/ RemovesEndpoint(p) \/ RemoveFails(p)
               \/ StopsCaddy(p) \/ StopsNothing(p) \/ StopFails(p) \/ Releases(p)
        PROVE  TokenInv'
    BY <1>9 DEF Drains, DrainTimesOut, RemovesEndpoint, RemoveFails, StopsCaddy, StopsNothing,
                StopFails, Releases, Moves, files
  <1>10. CASE FindsEndpoint
    <2>1. client' = [Idle EXCEPT !.step = "endpoint", !.port = endpoint] /\ endpoint # None
      BY <1>10 DEF FindsEndpoint
    <2>2. client'.step = "endpoint" /\ client'.answer = "none"
      BY <2>1 DEF Idle
    <2> QED
      BY <1>10, <2>1, <2>2 DEF FindsEndpoint, files
  <1>11. CASE FindsToken
    <2>1. tokenFile # None /\ client.answer \notin {"unauthorized", "no token"}
      BY <1>11 DEF FindsToken
    <2>2. client' = Idle \/ client' = [client EXCEPT !.step = "token", !.token = tokenFile]
      BY <1>11, <2>1 DEF FindsToken
    <2>3. \/ client'.step = "idle" /\ client'.answer = "none"
          \/ client'.step = "token" /\ client'.token = tokenFile /\ client'.answer = client.answer
      <3>1. CASE client' = Idle
        BY <3>1 DEF Idle
      <3>2. CASE client' = [client EXCEPT !.step = "token", !.token = tokenFile]
        BY <3>2 DEF Davctl
      <3> QED
        BY <2>2, <3>1, <3>2
    <2> QED
      BY <1>11, <2>1, <2>3 DEF FindsToken, files
  <1>15. CASE Asks
    <2>1. ASSUME NEW p \in Proc, pc[p] = "serving" PROVE mem[p].token = client.token
      BY <1>15, <2>1 DEF Asks
    <2>2. client' = Idle
      BY <1>15, <2>1, Zenon DEF Asks
    <2>3. client'.step = "idle" /\ client'.answer = "none"
      BY <2>2 DEF Idle
    <2> QED
      BY <1>15, <2>3 DEF Asks, files
  <1>12. CASE UNCHANGED <<pc, mem, tokenFile, endpoint, client>>
    BY <1>12
  <1>13. CASE UNCHANGED vars \/ CaddyDies
    BY <1>12, <1>13 DEF vars, files, CaddyDies
  <1>14. ASSUME NEW p \in Proc, Runs(p), ~RequestBegins(p), ~RequestWorks(p), ~RequestEnds(p)
         PROVE  TokenInv'
    BY <1>12, <1>14 DEF Runs, RequestWorks, Logs, PagesFirst, PagesNext, Pages, files
  <1> QED
    BY <1>1, <1>2, <1>3, <1>4, <1>5, <1>6, <1>7, <1>8, <1>9, <1>10, <1>11, <1>13, <1>14, <1>15
       DEF Next, Starts, Unwinds

\* davctl is never refused for its token, whichever davds are replaced between
\* its reads of the endpoint and of the token and its request.
THEOREM TokensAreHonoured == Spec => []TokenHonoured
  <1>1. Init => client \in Davctl /\ TokenInv
    BY DEF Init, Davctl, Idle, TokenInv, TokenHonoured, NoMemory
  <1>2. IInv /\ client \in Davctl /\ TokenInv /\ [Next]_vars => (client \in Davctl /\ TokenInv)'
    BY ClientStep, TokenStep DEF IInv
  <1>3. TokenInv => TokenHonoured
    BY DEF TokenInv
  <1> QED
    BY <1>1, <1>2, <1>3, IInvHolds, PTL DEF Spec

-----------------------------------------------------------------------------
(* What is left behind *)

\* Caddy belongs to the holder of the lock only between its start and its stop,
\* and the endpoint only between the write and the removal of the file, unless
\* it is excused.  An invocation that has not started owns neither, and one that
\* has not served has no request that could start Caddy.
Owning == {"started", "listening", "writing", "serving", "draining", "removing", "stopping"}
Served == {"serving", "draining", "removing", "stopping", "releasing", "exiting"}

Busy(p) == mem[p].handler \/ mem[p].inside

CleanInv ==
    \A p \in Proc :
        /\ Busy(p) => pc[p] \in Served
        /\ pc[p] \in {"new", "refused"} => caddy # p /\ endpoint # p
        /\ pc[p] \in Holding =>
              /\ caddy = p => pc[p] \in Owning \/ "caddy" \in excused
              /\ endpoint = p => pc[p] \in {"serving", "draining", "removing"} \/ "endpoint" \in excused

\* A request begins only while its davd serves.
LEMMA BusyStep ==
    ASSUME CoreType, [Next]_vars, NEW q \in Proc, Busy(q)'
    PROVE  Busy(q) \/ pc[q] = "serving"
  <1> USE DEF CoreType, Busy
  <1>0. mem[q] \in AnyMemory
    OBVIOUS
  <1>1. ASSUME NEW p \in Proc, Locks(p) PROVE Busy(q)
    <2>1. PICK b \in Builds : mem' = [mem EXCEPT ![p] = [NoMemory EXCEPT !.build = b]]
      BY <1>1 DEF Locks
    <2>2. q # p
      BY <2>1 DEF NoMemory
    <2> QED
      BY <2>1, <2>2
  <1>2. ASSUME NEW p \in Proc, Tokens(p) PROVE Busy(q)
    <2>1. mem' = [mem EXCEPT ![p].token = tokenFile']
      BY <1>2 DEF Tokens
    <2> QED
      BY <1>0, <2>1 DEF AnyMemory
  <1>3. ASSUME NEW p \in Proc, RequestBegins(p) \/ RequestWorks(p) \/ RequestEnds(p)
        PROVE  Busy(q) \/ pc[q] = "serving"
    <2>1. CASE q # p
      BY <1>3, <2>1, MemoryStep DEF MemoryOf
    <2>2. CASE q = p
      BY <1>3, <2>2 DEF RequestBegins, RequestWorks, RequestEnters, RequestStarts, RequestStops,
                        RequestLeaves, RequestEnds
    <2> QED
      BY <2>1, <2>2
  <1>4. ASSUME NEW p \in Proc, Exits(p) \/ Crashes(p) PROVE Busy(q)
    <2>1. mem' = [mem EXCEPT ![p] = NoMemory]
      BY <1>4 DEF Exits, Crashes
    <2>2. q # p
      BY <2>1 DEF NoMemory
    <2> QED
      BY <2>1, <2>2
  <1>5. CASE UNCHANGED mem
    BY <1>5
  <1>6. ASSUME NEW p \in Proc, Starts(p), ~Locks(p), ~Tokens(p) PROVE UNCHANGED mem
    BY <1>6 DEF Starts, IsRefused, Migrates, Opens, OpenFails, TokenFails, StartsCaddy,
                StartCaddyFails, Listens, ListenFails, Truncates, Serves, WriteFails, CloseFails
  <1>7. ASSUME NEW p \in Proc,
               ShutdownRequested(p) \/ ServeFails(p) \/ (Unwinds(p) /\ ~Exits(p))
        PROVE  UNCHANGED mem
    BY <1>7 DEF ShutdownRequested, ServeFails, Unwinds, Drains, DrainTimesOut, RemovesEndpoint,
                RemoveFails, StopsCaddy, StopsNothing, StopFails, Releases
  <1>8. CASE CaddyDies \/ Elsewhere \/ UNCHANGED vars
    BY <1>5, <1>8, ElsewhereFrame DEF CaddyDies
  <1> QED
    BY <1>1, <1>2, <1>3, <1>4, <1>5, <1>6, <1>7, <1>8, NextCases

\* The part of CleanInv about requests: a davd that has served does not start over.
LEMMA ServedStep ==
    ASSUME CoreType, CleanInv, [Next]_vars, NEW q \in Proc, Busy(q)'
    PROVE  pc'[q] \in Served
  <1> USE DEF CoreType, Served
  <1>1. Busy(q) \/ pc[q] = "serving"
    BY BusyStep
  <1>2. pc[q] \in Served
    BY <1>1 DEF CleanInv
  <1>3. ASSUME NEW p \in Proc, Starts(p) PROVE pc'[q] = pc[q]
    <2>1. Migrates(p) \/ (\E from \in Phases \ Served, to \in Phases : Moves(p, from, to))
      BY <1>3 DEF Starts, Locks, IsRefused, Opens, OpenFails, Tokens, TokenFails, StartsCaddy,
                  StartCaddyFails, Listens, ListenFails, Truncates, Serves, WriteFails, CloseFails,
                  AfterFailure, Phases
    <2> QED
      BY <1>2, <2>1 DEF Migrates, Moves
  <1>4. ASSUME NEW p \in Proc, ShutdownRequested(p) \/ ServeFails(p) PROVE pc'[q] \in Served
    BY <1>2, <1>4 DEF ShutdownRequested, ServeFails, Moves
  <1>5. ASSUME NEW p \in Proc, Unwinds(p), ~Exits(p) PROVE pc'[q] \in Served
    BY <1>2, <1>5 DEF Unwinds, Drains, DrainTimesOut, RemovesEndpoint, RemoveFails, StopsCaddy,
                      StopsNothing, StopFails, Releases, Moves
  <1>6. ASSUME NEW p \in Proc, Exits(p) \/ Crashes(p) PROVE pc'[q] \in Served
    <2>1. mem' = [mem EXCEPT ![p] = NoMemory] /\ pc' = [pc EXCEPT ![p] = "gone"]
      BY <1>6 DEF Exits, Crashes, Moves
    <2>2. q # p
      BY <2>1 DEF NoMemory, Busy
    <2> QED
      BY <1>2, <2>1, <2>2
  <1>7. ASSUME NEW p \in Proc, RequestBegins(p) \/ RequestWorks(p) \/ RequestEnds(p) PROVE pc' = pc
    BY <1>7 DEF RequestBegins, RequestWorks, RequestEnters, RequestStarts, RequestStops,
                RequestLeaves, RequestEnds
  <1>8. CASE CaddyDies \/ Elsewhere \/ UNCHANGED vars
    BY <1>2, <1>8, ElsewhereFrame DEF CaddyDies
  <1> QED
    BY <1>2, <1>3, <1>4, <1>5, <1>6, <1>7, <1>8, NextCases

LEMMA CleanStep ==
    ASSUME CoreType, LockInv, CleanInv, [Next]_vars
    PROVE  CleanInv'
  <1> DEFINE Owns ==
          \A p \in Proc :
              /\ pc[p] \in {"new", "refused"} => caddy # p /\ endpoint # p
              /\ pc[p] \in Holding =>
                    /\ caddy = p => pc[p] \in Owning \/ "caddy" \in excused
                    /\ endpoint = p => \/ pc[p] \in {"serving", "draining", "removing"}
                                       \/ "endpoint" \in excused
  <1>0. Owns /\ \A p \in Proc : Busy(p) => pc[p] \in Served
    BY DEF CleanInv
  <1> SUFFICES Owns'
    BY ServedStep DEF CleanInv
  <1> USE <1>0, DaemonAssumption DEF CoreType, Owning, Holding, Phases
  <1>1. ASSUME NEW p \in Proc, Locks(p) PROVE Owns'
    BY <1>1 DEF Locks, Moves, LockInv
  <1>2. ASSUME NEW p \in Proc,
               \/ IsRefused(p) \/ Migrates(p) \/ Opens(p) \/ OpenFails(p) \/ Tokens(p) \/ TokenFails(p)
        PROVE  Owns'
    BY <1>2 DEF IsRefused, Migrates, Opens, OpenFails, Tokens, TokenFails, Moves
  <1>3. ASSUME NEW p \in Proc, StartsCaddy(p) \/ StartCaddyFails(p) PROVE Owns'
    BY <1>3 DEF StartsCaddy, StartCaddyFails, AfterFailure, Moves
  <1>4. ASSUME NEW p \in Proc, Listens(p) \/ ListenFails(p) \/ Truncates(p) \/ Serves(p) PROVE Owns'
    BY <1>4 DEF Listens, ListenFails, Truncates, Serves, AfterFailure, Moves
  <1>5. ASSUME NEW p \in Proc, WriteFails(p) \/ CloseFails(p) PROVE Owns'
    BY <1>5 DEF WriteFails, CloseFails, MayLeave, AfterFailure, Moves
  <1>6. ASSUME NEW p \in Proc, RequestBegins(p) \/ RequestEnds(p) \/ RequestEnters(p) \/ RequestLeaves(p)
        PROVE  Owns'
    BY <1>6 DEF RequestBegins, RequestEnds, RequestEnters, RequestLeaves
  <1>7. ASSUME NEW p \in Proc, RequestStarts(p) PROVE Owns'
    <2>1. pc[p] \in Served
      BY <1>7 DEF RequestStarts, Busy
    <2> QED
      BY <1>7, <2>1 DEF RequestStarts, MayLeave, Served
  <1>8. ASSUME NEW p \in Proc, RequestStops(p) PROVE Owns'
    BY <1>8 DEF RequestStops
  <1>9. ASSUME NEW p \in Proc,
               \/ ShutdownRequested(p) \/ ServeFails(p) \/ Drains(p) \/ DrainTimesOut(p)
        PROVE  Owns'
    BY <1>9 DEF ShutdownRequested, ServeFails, Drains, DrainTimesOut, Moves
  <1>10. ASSUME NEW p \in Proc, RemovesEndpoint(p) \/ RemoveFails(p) PROVE Owns'
    BY <1>10 DEF RemovesEndpoint, RemoveFails, MayLeave, Moves
  <1>11. ASSUME NEW p \in Proc, StopsCaddy(p) \/ StopsNothing(p) \/ StopFails(p) PROVE Owns'
    BY <1>11 DEF StopsCaddy, StopsNothing, StopFails, MayLeave, Moves
  <1>12. ASSUME NEW p \in Proc, Releases(p) \/ Exits(p) \/ Crashes(p) PROVE Owns'
    BY <1>12 DEF Releases, Exits, Crashes, Moves
  <1>13. CASE CaddyDies
    BY <1>13 DEF CaddyDies
  <1>14. CASE Elsewhere \/ UNCHANGED vars
    BY <1>14, ElsewhereFrame
  <1> HIDE DEF Owns
  <1> QED
    BY <1>1, <1>2, <1>3, <1>4, <1>5, <1>6, <1>7, <1>8, <1>9, <1>10, <1>11, <1>12, <1>13, <1>14,
       NextCases DEF Starts, Unwinds, RequestWorks

\* A davd that ends by itself, also because its start failed, has left neither a
\* Caddy nor an endpoint of its own when it gives the lock back, for any number
\* of invocations: Caddy stays only if a request started it after Stop, if Stop
\* failed, or if RuntimeManager had lost a Caddy that a request started; the
\* endpoint only if its write ended in an error with the address in the file, or
\* if it could not be removed (the deferred functions of runDaemon).
THEOREM NothingIsLeft == Spec => []LeavesNothing
  <1>1. Init => CleanInv
    BY DaemonAssumption DEF Init, CleanInv, Busy, NoMemory, Holding
  <1>2. IInv /\ CleanInv /\ [Next]_vars => CleanInv'
    BY CleanStep DEF IInv
  <1>3. CleanInv => LeavesNothing
    BY DEF CleanInv, Owning, Holding, Phases, LeavesNothing
  <1> QED
    BY <1>1, <1>2, <1>3, IInvHolds, PTL DEF Spec

-----------------------------------------------------------------------------
(* The log: a page of a query *)

\* How many of the selected positions come after i.
After(found, i) == Cardinality({j \in found : j > i})

LEMMA AfterOrder ==
    ASSUME NEW found \in SUBSET Nat, IsFiniteSet(found), NEW i \in found
    PROVE  /\ After(found, i) \in 0..(Cardinality(found) - 1)
           /\ \A j \in found : j > i => After(found, j) < After(found, i)
  <1>1. \A j : IsFiniteSet({k \in found : k > j}) /\ After(found, j) \in Nat
    <2> TAKE j
    <2> DEFINE T == {k \in found : k > j}
    <2>1. T \in SUBSET found
      OBVIOUS
    <2> HIDE DEF T
    <2>2. IsFiniteSet(T)
      BY <2>1, FS_Subset
    <2>3. Cardinality(T) \in Nat
      BY <2>2, FS_CardinalityType
    <2> QED
      BY <2>2, <2>3 DEF T, After
  <1>2. ASSUME NEW S, IsFiniteSet(S), NEW T, T \subseteq S, NEW x \in S, x \notin T
        PROVE  Cardinality(T) < Cardinality(S)
    <2>1. /\ Cardinality(T) <= Cardinality(S) /\ (Cardinality(S) = Cardinality(T) => S = T)
          /\ IsFiniteSet(T)
      BY <1>2, FS_Subset
    <2>2. Cardinality(S) \in Nat /\ Cardinality(T) \in Nat
      BY <1>2, <2>1, FS_CardinalityType
    <2> QED
      BY <1>2, <2>1, <2>2
  <1>3. After(found, i) < Cardinality(found)
    <2> DEFINE T == {k \in found : k > i}
    <2>1. T \subseteq found /\ i \notin T
      OBVIOUS
    <2> HIDE DEF T
    <2>2. Cardinality(T) < Cardinality(found)
      BY <1>2, <2>1
    <2> QED
      BY <2>2 DEF After, T
  <1>4. ASSUME NEW j \in found, j > i
        PROVE  After(found, j) < After(found, i)
    <2> DEFINE S == {k \in found : k > i}
               T == {k \in found : k > j}
    <2>1. j \in S /\ j \notin T
      BY <1>4
    <2>4. T \subseteq S
      <3> SUFFICES ASSUME NEW k \in found, k > j PROVE k > i
        OBVIOUS
      <3> QED
        BY <1>4
    <2>2. IsFiniteSet(S)
      BY <1>1
    <2> HIDE DEF S, T
    <2>3. Cardinality(T) < Cardinality(S)
      BY <1>2, <2>1, <2>2, <2>4
    <2> QED
      BY <2>3 DEF After, S, T
  <1>5. Cardinality(found) \in Nat
    BY FS_CardinalityType
  <1>6. After(found, i) \in 0..(Cardinality(found) - 1)
    <2>1. After(found, i) \in Nat
      BY <1>1
    <2> QED
      BY <1>3, <1>5, <2>1
  <1> QED
    BY <1>4, <1>6

\* Every place from the newest on is taken by one of them.
LEMMA NthAfter ==
    ASSUME NEW found \in SUBSET Nat, IsFiniteSet(found), NEW k \in 1..Cardinality(found)
    PROVE  Nth(found, k) \in found /\ After(found, Nth(found, k)) = k - 1
  <1> DEFINE n == Cardinality(found)
             f == [i \in found |-> After(found, i)]
  <1>1. n \in Nat
    BY FS_CardinalityType
  <1>2. f \in [found -> 0..(n - 1)]
    BY AfterOrder
  <1>3. \A i, j \in found : f[i] = f[j] => i = j
    <2> SUFFICES ASSUME NEW i \in found, NEW j \in found, i # j PROVE f[i] # f[j]
      OBVIOUS
    <2>1. After(found, i) \in Nat /\ After(found, j) \in Nat
      BY <1>1, AfterOrder
    <2>2. i < j \/ j < i
      OBVIOUS
    <2> QED
      BY <2>1, <2>2, AfterOrder
  <1> HIDE DEF f, n
  <1>4. f \in Injection(found, 0..(n - 1))
    BY <1>2, <1>3 DEF Injection, IsInjective
  <1>5. IsFiniteSet(0..(n - 1)) /\ Cardinality(0..(n - 1)) = n
    <2>1. 0 \in Int /\ n - 1 \in Int
      BY <1>1
    <2>2. IsFiniteSet(0..(n - 1)) /\ Cardinality(0..(n - 1)) = IF 0 > n - 1 THEN 0 ELSE (n - 1) - 0 + 1
      BY <2>1, FS_Interval
    <2> QED
      BY <1>1, <2>2
  <1>6. f \in Surjection(found, 0..(n - 1))
    BY <1>4, <1>5, FS_Injection DEF n
  <1>7. k - 1 \in 0..(n - 1)
    BY <1>1 DEF n
  <1>8. \E i \in found : f[i] = k - 1
    BY <1>6, <1>7 DEF Surjection
  <1>9. \E i \in found : After(found, i) = k - 1
    BY <1>8 DEF f
  <1> QED
    BY <1>9 DEF Nth, After


LEMMA NthOrder ==
    ASSUME NEW found \in SUBSET Nat, IsFiniteSet(found)
    PROVE  /\ \A k, l \in 1..Cardinality(found) : k < l => Nth(found, k) > Nth(found, l)
           /\ \A i \in found : /\ After(found, i) + 1 \in 1..Cardinality(found)
                              /\ Nth(found, After(found, i) + 1) = i
  <1> DEFINE n == Cardinality(found)
  <1>0. n \in Nat
    BY FS_CardinalityType
  <1> HIDE DEF n
  <1>1. \A i \in found : After(found, i) \in 0..(n - 1)
    BY AfterOrder DEF n
  <1>2. \A i, j \in found : i # j => After(found, i) # After(found, j)
    <2> SUFFICES ASSUME NEW i \in found, NEW j \in found, i < j
                 PROVE  After(found, j) < After(found, i)
      BY <1>0, <1>1
    <2> QED
      BY AfterOrder
  <1>3. \A k \in 1..n : Nth(found, k) \in found /\ After(found, Nth(found, k)) = k - 1
    BY NthAfter DEF n
  <1>4. ASSUME NEW k \in 1..n, NEW l \in 1..n, k < l PROVE Nth(found, k) > Nth(found, l)
    <2> DEFINE i == Nth(found, k)
               j == Nth(found, l)
    <2>1. i \in found /\ j \in found /\ After(found, i) = k - 1 /\ After(found, j) = l - 1
      BY <1>3
    <2>2. i # j
      BY <1>0, <1>4, <2>1
    <2> HIDE DEF i, j
    <2>3. j > i => After(found, j) < After(found, i)
      BY <2>1, AfterOrder
    <2>4. i > j
      BY <1>0, <1>4, <2>1, <2>2, <2>3
    <2> QED
      BY <2>4 DEF i, j
  <1>5. ASSUME NEW i \in found
        PROVE  After(found, i) + 1 \in 1..n /\ Nth(found, After(found, i) + 1) = i
    <2> DEFINE k == After(found, i) + 1
    <2>1. k \in 1..n /\ k - 1 = After(found, i)
      BY <1>0, <1>1
    <2> HIDE DEF k
    <2>2. Nth(found, k) \in found /\ After(found, Nth(found, k)) = After(found, i)
      BY <1>3, <2>1
    <2> QED
      BY <1>2, <2>1, <2>2 DEF k
  <1> QED
    BY <1>4, <1>5 DEF n

\* The ring holds the newest records, numbered by their place in the history.
LogInv ==
    /\ written \in Seq(Level) /\ Len(written) <= MaxRecords
    /\ log \in [next : Nat, records : Seq([id : Nat, level : Level])]
    /\ log.next = Len(written)
    /\ Len(log.records) <= Capacity /\ Len(log.records) <= Len(written)
    /\ \A i \in 1..Len(log.records) :
          LET n == Len(written) - Len(log.records) + i
          IN log.records[i] = [id |-> n, level |-> written[n]]

Wanted(level) == {i \in 1..Len(written) : level = AnyLevel \/ written[i] = level}

\* The ids a query ranges over.
InReach(cursor, level) ==
    {i \in Wanted(level) : i > Len(written) - Len(log.records) /\ (cursor > 0 => i < cursor)}

Ids(page) == [i \in DOMAIN page.records |-> page.records[i].id]

Decreasing(s) == \A i, j \in 1..Len(s) : i < j => s[i] > s[j]
Occurs(w, s) == \E i \in 1..Len(s) : s[i] = w

\* A page has the newest ids of those it ranges over, newest first; it is full
\* if it says that there are more, and otherwise has all of them.
LEMMA QueryPage ==
    ASSUME LogInv, NEW cursor \in Nat, NEW level
    PROVE  LET page == Query(log, cursor, level)
               ids  == Ids(page)
               F    == InReach(cursor, level)
           IN /\ ids \in Seq(F) /\ Decreasing(ids)
              /\ \A w \in F, k \in 1..Len(ids) : w >= ids[k] => Occurs(w, ids)
              /\ page.more \in BOOLEAN /\ page.next \in Nat
              /\ page.more => Len(ids) > 0 /\ page.next = ids[Len(ids)]
              /\ ~page.more => \A w \in F : Occurs(w, ids)
  <1> DEFINE found == Selected(log, cursor, level)
             n     == Cardinality(found)
             m     == IF n < PageSize THEN n ELSE PageSize
             base  == Len(written) - Len(log.records)
             page  == Query(log, cursor, level)
             ids   == Ids(page)
             F     == InReach(cursor, level)
  <1>1. base \in Nat /\ Len(log.records) \in Nat /\ Len(written) \in Nat
    BY DEF LogInv
  <1>0. base + Len(log.records) = Len(written)
    BY <1>1
  <1>2. \A i \in 1..Len(log.records) :
           log.records[i].id = base + i /\ log.records[i].level = written[base + i]
    <2> SUFFICES ASSUME NEW i \in 1..Len(log.records)
                 PROVE  log.records[i].id = base + i /\ log.records[i].level = written[base + i]
      OBVIOUS
    <2>1. log.records[i] = [id |-> base + i, level |-> written[base + i]]
      BY DEF LogInv
    <2> QED
      BY <2>1
  <1>3. DOMAIN log.records = 1..Len(log.records)
    BY DEF LogInv
  <1> HIDE DEF base
  <1>4. \A i \in 1..Len(log.records) : i \in found <=> base + i \in F
    <2> SUFFICES ASSUME NEW i \in 1..Len(log.records) PROVE i \in found <=> base + i \in F
      OBVIOUS
    <2> DEFINE r == log.records[i]
    <2>1. r.id = base + i /\ r.level = written[base + i]
      BY <1>2
    <2>2. base + i \in 1..Len(written) /\ base + i > base
      BY <1>0, <1>1
    <2>3. i \in found <=> (cursor > 0 => r.id < cursor) /\ (level = AnyLevel \/ r.level = level)
      BY <1>3, Zenon DEF Selected, Matches
    <2>4. base + i \in F <=> (cursor > 0 => base + i < cursor) /\ (level = AnyLevel \/ written[base + i] = level)
      BY <2>2, Zenon DEF InReach, Wanted, base
    <2> QED
      BY <2>1, <2>3, <2>4, Zenon
  <1>5. \A w \in F : w - base \in 1..Len(log.records) /\ base + (w - base) = w
    <2> SUFFICES ASSUME NEW w \in F
                 PROVE  w - base \in 1..Len(log.records) /\ base + (w - base) = w
      OBVIOUS
    <2>1. w \in 1..Len(written) /\ w > base
      BY Zenon DEF InReach, Wanted, base
    <2> QED
      BY <1>0, <1>1, <2>1
  <1>6. found \in SUBSET (1..Len(log.records))
    BY <1>3 DEF Selected
  <1>7. IsFiniteSet(found) /\ found \in SUBSET Nat
    <2>1. 1 \in Int /\ Len(log.records) \in Int
      BY <1>1
    <2>2. IsFiniteSet(1..Len(log.records))
      BY <2>1, FS_Interval
    <2>3. IsFiniteSet(found)
      BY <1>6, <2>2, FS_Subset
    <2> QED
      BY <1>6, <2>3
  <1>8. n \in Nat
    BY <1>7, FS_CardinalityType
  <1>9. /\ page.records = [k \in 1..m |-> log.records[Nth(found, k)]]
        /\ page.more = (n > PageSize)
        /\ page.next = IF n > PageSize THEN page.records[PageSize].id ELSE 0
    BY DEF Query, Page
  <1>10. m \in Nat /\ m <= n /\ (n > PageSize => m = PageSize) /\ (~(n > PageSize) => m = n)
    BY <1>8, LogAssumption
  <1> HIDE DEF found, n, m, page, F
  <1>11. \A k \in 1..n : Nth(found, k) \in found
    BY <1>7, NthAfter DEF n
  <1>23. \A k \in 1..m : k \in 1..n
    BY <1>8, <1>10
  <1>24. \A k \in 1..n : Nth(found, k) \in 1..Len(log.records) /\ Nth(found, k) \in Nat
    BY <1>6, <1>7, <1>11, Zenon
  <1>12. \A k, l \in 1..n : k < l => Nth(found, k) > Nth(found, l)
    BY <1>7, NthOrder DEF n
  <1>13. \A i \in found : \E k \in 1..n : Nth(found, k) = i
    BY <1>7, NthOrder DEF n
  <1>14. ids = [k \in 1..m |-> base + Nth(found, k)]
    <2>1. DOMAIN page.records = 1..m
      BY <1>9
    <2>2. \A k \in 1..m : page.records[k].id = base + Nth(found, k)
      <3> SUFFICES ASSUME NEW k \in 1..m PROVE page.records[k].id = base + Nth(found, k)
        OBVIOUS
      <3>1. Nth(found, k) \in 1..Len(log.records)
        BY <1>23, <1>24
      <3>2. page.records[k] = log.records[Nth(found, k)]
        BY <1>9
      <3> QED
        BY <1>2, <3>1, <3>2
    <2> QED
      BY <2>1, <2>2 DEF Ids
  <1> HIDE DEF ids
  <1>15. \A k \in 1..m : base + Nth(found, k) \in F
    BY <1>4, <1>11, <1>23, <1>24, Zenon
  <1>16. ids \in Seq(F) /\ Len(ids) = m
    BY <1>10, <1>14, <1>15
  <1>17. Decreasing(ids)
    <2> SUFFICES ASSUME NEW k \in 1..m, NEW l \in 1..m, k < l PROVE ids[k] > ids[l]
      BY <1>16 DEF Decreasing
    <2>1. Nth(found, k) > Nth(found, l)
      BY <1>12, <1>23
    <2>2. Nth(found, k) \in Nat /\ Nth(found, l) \in Nat
      BY <1>23, <1>24, Zenon
    <2> QED
      BY <1>1, <1>14, <2>1, <2>2
  <1>18. ASSUME NEW w \in F
         PROVE  \E k \in 1..n : w = base + Nth(found, k)
    <2>1. w - base \in found /\ base + (w - base) = w
      BY <1>4, <1>5
    <2> QED
      BY <1>13, <2>1
  <1>19. ASSUME NEW w \in F, NEW k \in 1..Len(ids), w >= ids[k]
         PROVE  Occurs(w, ids)
    <2>1. PICK l \in 1..n : w = base + Nth(found, l)
      BY <1>18
    <2>2. k \in 1..m /\ ids[k] = base + Nth(found, k)
      BY <1>14, <1>16
    <2>3. Nth(found, k) \in Nat /\ Nth(found, l) \in Nat
      BY <1>23, <1>24, <2>2, Zenon
    <2>4. ~(k < l)
      <3> SUFFICES ASSUME k < l PROVE FALSE
        OBVIOUS
      <3>1. Nth(found, k) > Nth(found, l)
        BY <1>12, <1>23, <2>2
      <3> QED
        BY <1>1, <1>19, <2>1, <2>2, <2>3, <3>1
    <2>5. l \in 1..m
      BY <1>8, <1>10, <2>2, <2>4
    <2> QED
      BY <1>14, <1>16, <2>1, <2>5 DEF Occurs
  <1>20. ASSUME page.more PROVE Len(ids) > 0 /\ page.next = ids[Len(ids)] /\ page.next \in Nat
    <2>0. n > PageSize
      BY <1>9, <1>20, Zenon
    <2>1. m = PageSize /\ PageSize \in 1..m
      BY <1>10, <2>0, LogAssumption
    <2>2. PageSize \in DOMAIN page.records
      BY <1>9, <2>1
    <2>3. page.next = ids[PageSize] /\ ids[PageSize] = base + Nth(found, PageSize)
      BY <1>9, <1>14, <2>0, <2>1, <2>2 DEF ids, Ids
    <2>4. Nth(found, PageSize) \in Nat
      BY <1>23, <1>24, <2>1, Zenon
    <2> QED
      BY <1>1, <1>16, <2>1, <2>3, <2>4
  <1>21. ASSUME ~page.more, NEW w \in F PROVE Occurs(w, ids)
    <2>1. m = n
      BY <1>9, <1>10, <1>21
    <2>2. PICK l \in 1..n : w = base + Nth(found, l)
      BY <1>18
    <2> QED
      BY <1>14, <1>16, <2>1, <2>2 DEF Occurs
  <1>22. page.more \in BOOLEAN /\ page.next \in Nat
    <2>1. page.more \in BOOLEAN
      BY <1>9
    <2>2. ~page.more => page.next = 0
      BY <1>9
    <2> QED
      BY <1>20, <2>1, <2>2
  <1> QED
    BY <1>16, <1>17, <1>19, <1>20, <1>21, <1>22 DEF page, ids, F

\* Between its newest and its oldest id a client has every match.
Gapless(s, level) ==
    s # <<>> => \A i \in Wanted(level) : s[Len(s)] <= i /\ i <= s[1] => Occurs(i, s)

\* No older match is in the ring.
Exhausted(s, level) ==
    s # <<>> => \A i \in Wanted(level) :
                   i > Len(written) - Len(log.records) => s[Len(s)] <= i

\* What is true of the ids a client has got so far.
Paged(s, level) == s \in Seq(Wanted(level)) /\ Decreasing(s) /\ Gapless(s, level)

LEMMA WiderSeq ==
    ASSUME NEW S, NEW T, S \subseteq T, NEW s \in Seq(S)
    PROVE  s \in Seq(T)
  <1>1. Len(s) \in Nat /\ s \in [1..Len(s) -> S]
    OBVIOUS
  <1>2. s \in [1..Len(s) -> T]
    BY <1>1
  <1> QED
    BY <1>1, <1>2

LEMMA NewestOldest ==
    ASSUME NEW S \in SUBSET Nat, NEW s \in Seq(S), Decreasing(s), NEW k \in 1..Len(s)
    PROVE  s[Len(s)] <= s[k] /\ s[k] <= s[1] /\ s[k] \in Nat
  <1>1. Len(s) \in Nat /\ 1 \in 1..Len(s) /\ Len(s) \in 1..Len(s) /\ \A i \in 1..Len(s) : s[i] \in S
    OBVIOUS
  <1>2. s[1] \in Nat /\ s[k] \in Nat /\ s[Len(s)] \in Nat
    BY <1>1
  <1>3. 1 < k => s[1] > s[k]
    BY <1>1 DEF Decreasing
  <1>4. k < Len(s) => s[k] > s[Len(s)]
    BY <1>1 DEF Decreasing
  <1> QED
    BY <1>1, <1>2, <1>3, <1>4

\* The ids of the page that follows the ones a client has.
LEMMA PageFollows ==
    ASSUME LogInv, NEW level, NEW seen, Paged(seen, level), NEW cursor \in Nat,
           \/ seen = <<>> /\ cursor = 0
           \/ seen # <<>> /\ cursor = seen[Len(seen)]
    PROVE  LET page == Query(log, cursor, level)
               all  == seen \o Ids(page)
           IN /\ Paged(all, level)
              /\ page.more \in BOOLEAN /\ page.next \in Nat
              /\ page.more => all # <<>> /\ page.next = all[Len(all)]
              /\ ~page.more => Exhausted(all, level)
  <1> DEFINE W    == Wanted(level)
             F    == InReach(cursor, level)
             page == Query(log, cursor, level)
             ids  == Ids(page)
             all  == seen \o ids
             a    == Len(seen)
             b    == Len(ids)
  <1>1. /\ ids \in Seq(F) /\ Decreasing(ids)
        /\ \A w \in F, k \in 1..Len(ids) : w >= ids[k] => Occurs(w, ids)
        /\ page.more \in BOOLEAN /\ page.next \in Nat
        /\ page.more => Len(ids) > 0 /\ page.next = ids[Len(ids)]
        /\ ~page.more => \A w \in F : Occurs(w, ids)
    BY QueryPage
  <1> DEFINE base == Len(written) - Len(log.records)
  <1>2. base \in Nat
    BY DEF LogInv
  <1>3. W \in SUBSET (Nat \ {0}) /\ F \in SUBSET W /\ F \in SUBSET Nat
    BY DEF Wanted, InReach, LogInv
  <1>4. \A i \in W : i \in F <=> i > base /\ (cursor > 0 => i < cursor)
    BY DEF InReach
  <1> HIDE DEF W, F, page, ids, base
  <1>5. seen \in Seq(W) /\ Decreasing(seen) /\ Gapless(seen, level)
    BY DEF Paged, W
  <1>6. ids \in Seq(W)
    <2>1. ids \in Seq(F)
      BY <1>1
    <2> QED
      BY <1>3, <2>1, WiderSeq
  <1>7. /\ all \in Seq(W) /\ Len(all) = a + b
        /\ \A i \in 1..(a + b) : all[i] = IF i <= a THEN seen[i] ELSE ids[i - a]
    BY <1>5, <1>6, ConcatProperties
  <1>8. a \in Nat /\ b \in Nat /\ W \in SUBSET Nat
    BY <1>3, <1>5, <1>6
  <1> HIDE DEF all, a, b
  <1>9. \A i \in 1..a : all[i] = seen[i] /\ i \in 1..(a + b)
    BY <1>7, <1>8
  <1>10. \A j \in 1..b : all[a + j] = ids[j] /\ a + j \in 1..(a + b)
    BY <1>7, <1>8
  <1>11. \A j \in 1..b : ids[j] \in F /\ ids[j] \in Nat
    <2>1. \A j \in 1..Len(ids) : ids[j] \in F
      BY <1>1
    <2> QED
      BY <1>3, <2>1 DEF b
  <1>12. \A i \in 1..a : seen[i] \in W /\ seen[i] \in Nat
    <2>1. \A i \in 1..Len(seen) : seen[i] \in W
      BY <1>5
    <2> QED
      BY <1>8, <2>1 DEF a
  <1>13. a > 0 => a \in 1..a /\ cursor = seen[a] /\ cursor > 0
    <2> SUFFICES ASSUME a > 0 PROVE a \in 1..a /\ cursor = seen[a] /\ cursor > 0
      OBVIOUS
    <2>1. a \in 1..a /\ seen # <<>>
      BY <1>8 DEF a
    <2>2. cursor = seen[a]
      BY <2>1 DEF a
    <2>3. cursor \in W
      BY <1>12, <2>1, <2>2
    <2> QED
      BY <1>3, <2>1, <2>2, <2>3
  <1>14. a = 0 => cursor = 0
    BY <1>5 DEF a
  <1>15. \A i \in 1..a : seen[i] >= cursor /\ seen[i] <= seen[1]
    BY <1>5, <1>8, <1>13, NewestOldest DEF a
  <1>16. ASSUME NEW i \in 1..a, NEW j \in 1..b PROVE seen[i] > ids[j]
    <2>1. cursor > 0
      BY <1>8, <1>13
    <2>2. ids[j] \in F /\ ids[j] \in W
      BY <1>3, <1>11
    <2>3. ids[j] < cursor
      BY <1>4, <2>1, <2>2
    <2> QED
      BY <1>11, <1>12, <1>15, <2>3
  <1>17. Decreasing(all)
    <2> SUFFICES ASSUME NEW i \in 1..(a + b), NEW j \in 1..(a + b), i < j PROVE all[i] > all[j]
      BY <1>7 DEF Decreasing
    <2>1. CASE j <= a
      <3>1. i \in 1..a /\ j \in 1..a
        BY <1>8, <2>1
      <3> QED
        BY <1>5, <1>9, <3>1 DEF Decreasing, a
    <2>2. CASE i > a
      <3>1. i - a \in 1..b /\ j - a \in 1..b /\ i - a < j - a /\ a + (i - a) = i /\ a + (j - a) = j
        BY <1>8, <2>2
      <3>2. ids[i - a] > ids[j - a]
        BY <1>1, <3>1 DEF Decreasing, b
      <3> QED
        BY <1>10, <3>1, <3>2
    <2>3. CASE i <= a /\ j > a
      <3>1. i \in 1..a /\ j - a \in 1..b /\ a + (j - a) = j
        BY <1>8, <2>3
      <3>2. seen[i] > ids[j - a]
        BY <1>16, <3>1
      <3> QED
        BY <1>9, <1>10, <3>1, <3>2
    <2> QED
      BY <1>8, <2>1, <2>2, <2>3
  <1>18. \A w : Occurs(w, seen) \/ Occurs(w, ids) => Occurs(w, all)
    <2> SUFFICES ASSUME NEW w, Occurs(w, seen) \/ Occurs(w, ids) PROVE \E i \in 1..(a + b) : all[i] = w
      BY <1>7 DEF Occurs
    <2>1. CASE Occurs(w, seen)
      BY <1>9, <2>1 DEF Occurs, a
    <2>2. CASE Occurs(w, ids)
      <3>1. PICK j \in 1..b : ids[j] = w
        BY <2>2 DEF Occurs, b
      <3> QED
        BY <1>10, <3>1
    <2> QED
      BY <2>1, <2>2
  <1>19. \A w \in W : w <= all[1] /\ w >= cursor /\ a > 0 => Occurs(w, all)
    <2> SUFFICES ASSUME NEW w \in W, w <= all[1], w >= cursor, a > 0 PROVE Occurs(w, seen)
      BY <1>18
    <2>1. seen # <<>> /\ 1 \in 1..a
      BY <1>8 DEF a
    <2>2. seen[Len(seen)] <= w /\ w <= seen[1]
      BY <1>9, <1>13, <2>1 DEF a
    <2> QED
      BY <1>5, <2>1, <2>2 DEF Gapless, W
  <1>20. CASE b = 0
    <2>1. all = seen
      <3>1. ids = <<>>
        BY <1>1, <1>20 DEF b
      <3> QED
        BY <1>5, <3>1, ConcatEmptySeq DEF all
    <2>2. ~page.more
      BY <1>1, <1>20 DEF b
    <2>3. Exhausted(all, level)
      <3> SUFFICES ASSUME all # <<>>, NEW i \in W, i > base PROVE all[Len(all)] <= i
        BY DEF Exhausted, W, base
      <3>1. a > 0
        BY <1>5, <1>8, <2>1 DEF a
      <3>2. cursor = all[Len(all)] /\ cursor > 0
        BY <1>13, <2>1, <3>1 DEF a
      <3>3. i \notin F
        BY <1>1, <1>8, <1>20, <2>2 DEF Occurs, b
      <3> QED
        BY <1>3, <1>4, <3>2, <3>3
    <2> QED
      BY <1>1, <1>5, <2>1, <2>2, <2>3 DEF Paged, W, page, ids, all
  <1>21. CASE b > 0
    <2>1. b \in 1..b /\ all[Len(all)] = ids[b] /\ Len(all) > 0
      BY <1>7, <1>8, <1>10, <1>21
    <2>2. ids[b] \in F /\ ids[b] \in W /\ ids[b] \in Nat
      BY <1>3, <1>11, <2>1
    <2>3. \A i \in W : i > base /\ (a > 0 => i < cursor) => i \in F
      BY <1>4, <1>8, <1>14
    <2>4. Gapless(all, level)
      <3> SUFFICES ASSUME NEW i \in W, ids[b] <= i, i <= all[1] PROVE Occurs(i, all)
        BY <2>1 DEF Gapless, W
      <3>1. i > base
        BY <1>2, <1>3, <1>4, <2>2
      <3>2. CASE a > 0 /\ i >= cursor
        BY <1>19, <3>2
      <3>3. CASE ~(a > 0 /\ i >= cursor)
        <4>1. i \in F
          BY <1>3, <2>3, <3>1, <3>3
        <4> QED
          BY <1>1, <1>3, <1>18, <2>1, <4>1 DEF b
      <3> QED
        BY <3>2, <3>3
    <2>5. Exhausted(all, level) \/ page.more
      <3> SUFFICES ASSUME ~page.more, NEW i \in W, i > base PROVE ids[b] <= i
        BY <2>1 DEF Exhausted, W, base
      <3>1. CASE i \in F
        <4>1. PICK k \in 1..b : ids[k] = i
          BY <1>1, <3>1 DEF Occurs, b
        <4> QED
          BY <1>1, <1>3, <4>1, NewestOldest DEF b
      <3>2. CASE i \notin F
        <4>1. a > 0 /\ ~(i < cursor)
          BY <1>3, <2>3, <3>2
        <4>2. ids[b] < cursor
          BY <1>4, <1>13, <2>2, <4>1
        <4> QED
          BY <1>3, <2>2, <4>1, <4>2
      <3> QED
        BY <3>1, <3>2
    <2>6. all # <<>> /\ (page.more => page.next = all[Len(all)])
      BY <1>1, <1>7, <2>1 DEF b
    <2> QED
      BY <1>1, <1>7, <1>17, <2>4, <2>5, <2>6 DEF Paged, W, page, ids, all
  <1> QED
    BY <1>8, <1>20, <1>21

-----------------------------------------------------------------------------
(* The log: pages while records come and go *)

PagerInv ==
    /\ pager \in [level : Level \cup {AnyLevel}, seen : Seq(Nat), next : Nat, open : BOOLEAN]
    /\ Paged(pager.seen, pager.level)
    /\ pager.open => pager.seen # <<>> /\ pager.next = pager.seen[Len(pager.seen)]
    /\ ~pager.open => Exhausted(pager.seen, pager.level)

LEMMA NoPagerInv ==
    ASSUME pager = NoPager
    PROVE  PagerInv
  <1>1. pager.seen = <<>> /\ pager.level = AnyLevel /\ ~pager.open
    BY DEF NoPager
  <1>2. Paged(<<>>, AnyLevel) /\ Exhausted(<<>>, AnyLevel)
    BY DEF Paged, Exhausted, Decreasing, Gapless
  <1>3. pager \in [level : Level \cup {AnyLevel}, seen : Seq(Nat), next : Nat, open : BOOLEAN]
    BY DEF NoPager
  <1> QED
    BY <1>1, <1>2, <1>3 DEF PagerInv

LEMMA EmptyLogInv ==
    ASSUME log = EmptyLog, written = <<>>
    PROVE  LogInv
  <1>1. log.next = 0 /\ log.records = <<>> /\ Len(written) = 0 /\ Len(log.records) = 0
    BY DEF EmptyLog
  <1>2. log \in [next : Nat, records : Seq([id : Nat, level : Level])]
    BY DEF EmptyLog
  <1> QED
    BY <1>1, <1>2, LogAssumption, DaemonAssumption DEF LogInv

\* Adding a record keeps the ring the newest part of the history.
LEMMA RingStep ==
    ASSUME LogInv, NEW p \in Proc, NEW level \in Level, Logs(p, level)
    PROVE  /\ LogInv'
           /\ Len(written') = Len(written) + 1
           /\ \A i \in 1..Len(written) : written'[i] = written[i]
           /\ Len(written) - Len(log.records) <= Len(written') - Len(log'.records)
  <1> DEFINE n      == Len(written)
             old    == log.records
             record == [id |-> log.next + 1, level |-> level]
             kept   == IF Len(old) = Capacity THEN Tail(old) ELSE old
             Rec    == [id : Nat, level : Level]
             new    == Append(kept, record)
  <1>1. /\ log' = [next |-> log.next + 1, records |-> new]
        /\ written' = Append(written, level) /\ n < MaxRecords
    BY DEF Logs, Add
  <1>2. /\ n \in Nat /\ old \in Seq(Rec) /\ Len(old) \in Nat /\ Len(old) <= n /\ Len(old) <= Capacity
        /\ log.next = n /\ written \in Seq(Level)
    BY DEF LogInv
  <1>3. \A i \in 1..Len(old) : old[i] = [id |-> (n - Len(old)) + i, level |-> written[(n - Len(old)) + i]]
    BY DEF LogInv
  <1>4. record \in Rec /\ record.id = n + 1 /\ record.level = level
    BY <1>2
  <1>5. /\ written' \in Seq(Level) /\ Len(written') = n + 1
        /\ \A i \in 1..n : written'[i] = written[i]
        /\ written'[n + 1] = level
    BY <1>1, <1>2, AppendProperties
  <1> HIDE DEF old, record, n
  <1>6. /\ kept \in Seq(Rec) /\ Len(kept) \in Nat /\ Len(kept) < Capacity /\ Len(kept) <= n
        /\ Len(kept) <= Len(old)
        /\ \A i \in 1..Len(kept) :
              /\ i + (Len(old) - Len(kept)) \in 1..Len(old)
              /\ kept[i] = old[i + (Len(old) - Len(kept))]
    <2>1. CASE Len(old) = Capacity
      <3>1. old # <<>> /\ kept = Tail(old)
        BY <1>2, <2>1, LogAssumption
      <3>2. kept \in Seq(Rec) /\ Len(kept) = Len(old) - 1 /\ \A i \in 1..Len(kept) : kept[i] = old[i + 1]
        BY <1>2, <3>1, HeadTailProperties
      <3> HIDE DEF kept, Rec
      <3>3. Len(old) - Len(kept) = 1 /\ Len(kept) \in Nat
        BY <1>2, <2>1, <3>2, LogAssumption
      <3> QED
        BY <1>2, <2>1, <3>2, <3>3, LogAssumption
    <2>2. CASE Len(old) # Capacity
      <3>1. kept = old
        BY <2>2
      <3> HIDE DEF kept, Rec
      <3> QED
        BY <1>2, <2>2, <3>1, LogAssumption
    <2> QED
      BY <2>1, <2>2
  <1> HIDE DEF kept, Rec
  <1>7. /\ new \in Seq(Rec) /\ Len(new) = Len(kept) + 1
        /\ \A i \in 1..Len(kept) : new[i] = kept[i]
        /\ new[Len(kept) + 1] = record
    BY <1>4, <1>6, AppendProperties
  <1> HIDE DEF new
  <1>8. ASSUME NEW i \in 1..Len(new)
        PROVE  new[i] = [id |-> (n + 1) - Len(new) + i, level |-> written'[(n + 1) - Len(new) + i]]
    <2>1. CASE i = Len(new)
      <3>1. (n + 1) - Len(new) + i = n + 1
        BY <1>2, <1>6, <1>7, <2>1
      <3>2. new[i] = record
        BY <1>7, <2>1
      <3>3. record = [id |-> n + 1, level |-> level]
        BY <1>2 DEF record
      <3> QED
        BY <1>5, <3>1, <3>2, <3>3
    <2>2. CASE i # Len(new)
      <3> DEFINE j == i + (Len(old) - Len(kept))
      <3>1. i \in 1..Len(kept)
        BY <1>6, <1>7, <2>2
      <3>2. j \in 1..Len(old) /\ new[i] = old[j]
        BY <1>6, <1>7, <3>1
      <3>3. (n - Len(old)) + j = (n + 1) - Len(new) + i /\ (n - Len(old)) + j \in 1..n
        BY <1>2, <1>6, <1>7, <3>1
      <3> HIDE DEF j
      <3>4. old[j] = [id |-> (n - Len(old)) + j, level |-> written[(n - Len(old)) + j]]
        BY <1>3, <3>2
      <3> QED
        BY <1>5, <3>2, <3>3, <3>4
    <2> QED
      BY <2>1, <2>2
  <1>9. /\ log'.next = n + 1 /\ log'.records = new
        /\ log' \in [next : Nat, records : Seq(Rec)]
    <2>1. log' = [next |-> n + 1, records |-> new]
      BY <1>1, <1>2
    <2> QED
      BY <1>2, <1>7, <2>1
  <1>10. Len(new) <= Capacity /\ Len(new) <= n + 1 /\ n + 1 <= MaxRecords
    BY <1>1, <1>2, <1>6, <1>7, LogAssumption, DaemonAssumption
  <1>11. LogInv'
    BY <1>5, <1>8, <1>9, <1>10 DEF LogInv, Rec
  <1>12. n - Len(old) <= (n + 1) - Len(new)
    BY <1>2, <1>6, <1>7
  <1> QED
    BY <1>5, <1>9, <1>11, <1>12 DEF n, old

\* What a client has got stays without a gap when a record is added.
LEMMA AddStep ==
    ASSUME LogInv, PagerInv, NEW p \in Proc, NEW level \in Level, Logs(p, level)
    PROVE  LogInv' /\ PagerInv'
  <1> DEFINE n == Len(written)
             s == pager.seen
             W == Wanted(pager.level)
             V == Wanted(pager.level)'
  <1>1. /\ LogInv' /\ Len(written') = n + 1 /\ n \in Nat
        /\ \A i \in 1..n : written'[i] = written[i]
        /\ n - Len(log.records) <= (n + 1) - Len(log'.records)
        /\ Len(log.records) \in Nat /\ Len(log'.records) \in Nat
    <2>1. n \in Nat /\ Len(log.records) \in Nat
      BY DEF LogInv
    <2>2. LogInv'
      BY RingStep
    <2>3. Len(log'.records) \in Nat
      BY <2>2 DEF LogInv
    <2> QED
      BY <2>1, <2>2, <2>3, RingStep
  <1>2. pager' = pager
    BY DEF Logs
  <1>3. W \in SUBSET (1..n) /\ V \in SUBSET (1..(n + 1)) /\ V \cap (1..n) = W
    <2>1. V = {i \in 1..(n + 1) : pager.level = AnyLevel \/ written'[i] = pager.level}
      BY <1>1, <1>2 DEF Wanted
    <2>2. \A i \in 1..n : i \in 1..(n + 1)
      BY <1>1
    <2> QED
      BY <1>1, <2>1, <2>2 DEF Wanted
  <1>4. s \in Seq(W) /\ Decreasing(s) /\ Gapless(s, pager.level)
    BY DEF PagerInv, Paged
  <1> HIDE DEF n, W, V
  <1>5. s \in Seq(V)
    <2>1. W \subseteq V
      BY <1>3
    <2> QED
      BY <1>4, <2>1, WiderSeq
  <1>6. s # <<>> => s[1] \in 1..n /\ s[Len(s)] \in 1..n
    BY <1>3, <1>4
  <1>7. Gapless(s, pager.level)'
    <2> SUFFICES ASSUME s # <<>>, NEW i \in V, s[Len(s)] <= i, i <= s[1] PROVE Occurs(i, s)
      BY <1>2 DEF Gapless, V, Occurs
    <2>1. i \in 1..(n + 1) /\ s[1] \in 1..n /\ n \in Nat
      BY <1>1, <1>3, <1>6
    <2>2. i \in 1..n
      BY <2>1
    <2>3. i \in W
      BY <1>3, <2>2
    <2> QED
      BY <1>4, <2>3 DEF Gapless, W
  <1>8. ~pager.open => Exhausted(s, pager.level)'
    <2> SUFFICES ASSUME ~pager.open, s # <<>>, NEW i \in V, i > (n + 1) - Len(log'.records)
                 PROVE  s[Len(s)] <= i
      BY <1>1, <1>2 DEF Exhausted, V
    <2>1. CASE i = n + 1
      BY <1>1, <1>6, <2>1
    <2>2. CASE i # n + 1
      <3>0. i \in 1..(n + 1) /\ n \in Nat
        BY <1>1, <1>3
      <3>1. i \in 1..n
        BY <2>2, <3>0
      <3>5. i \in W
        BY <1>3, <3>1
      <3>2. i > n - Len(log.records)
        <4> DEFINE a == Len(log.records)
                   b == Len(log'.records)
        <4>1. a \in Nat /\ b \in Nat /\ n \in Nat /\ n - a <= (n + 1) - b /\ i > (n + 1) - b
          BY <1>1
        <4> HIDE DEF a, b
        <4>2. i > n - a
          BY <3>1, <4>1
        <4> QED
          BY <4>2 DEF a
      <3> QED
        BY <3>2, <3>5 DEF PagerInv, Exhausted, W, n
    <2> QED
      BY <2>1, <2>2
  <1>9. Paged(s, pager.level)'
    BY <1>2, <1>4, <1>5, <1>7 DEF Paged, Decreasing, V
  <1> QED
    BY <1>1, <1>2, <1>8, <1>9 DEF PagerInv

\* The ids of the next page go after those the client has.
LEMMA PagesStep ==
    ASSUME LogInv, PagerInv, NEW p \in Proc, NEW level \in Level \cup {AnyLevel}, NEW cursor \in Nat,
           NEW seen, Paged(seen, level), Pages(p, level, cursor, seen),
           \/ seen = <<>> /\ cursor = 0
           \/ seen # <<>> /\ cursor = seen[Len(seen)]
    PROVE  LogInv' /\ PagerInv'
  <1> DEFINE page == Query(log, cursor, level)
             all  == seen \o Ids(page)
  <1>1. /\ Paged(all, level)
        /\ page.more \in BOOLEAN /\ page.next \in Nat
        /\ page.more => all # <<>> /\ page.next = all[Len(all)]
        /\ ~page.more => Exhausted(all, level)
    BY PageFollows
  <1>2. /\ pager' = [level |-> level, next |-> page.next, open |-> page.more, seen |-> all]
        /\ log' = log /\ written' = written
    BY DEF Pages, Ids
  <1>3. all \in Seq(Nat)
    <2>1. all \in Seq(Wanted(level)) /\ Wanted(level) \in SUBSET Nat
      BY <1>1 DEF Paged, Wanted
    <2> QED
      BY <2>1, WiderSeq
  <1> HIDE DEF page, all
  <1>4. /\ pager'.level = level /\ pager'.next = page.next /\ pager'.open = page.more /\ pager'.seen = all
        /\ pager' \in [level : Level \cup {AnyLevel}, seen : Seq(Nat), next : Nat, open : BOOLEAN]
    BY <1>1, <1>2, <1>3
  <1>5. Wanted(pager.level)' = Wanted(level)
    BY <1>2, <1>4 DEF Wanted
  <1>6. LogInv'
    BY <1>2 DEF LogInv
  <1>7. Paged(pager.seen, pager.level)' /\ (~page.more => Exhausted(pager.seen, pager.level)')
    BY <1>1, <1>2, <1>4, <1>5 DEF Paged, Exhausted, Gapless, Decreasing, Occurs
  <1> QED
    BY <1>1, <1>4, <1>6, <1>7 DEF PagerInv

\* What a step does to the log and its reader.
LEMMA LogCases ==
    ASSUME [Next]_vars
    PROVE  \/ \E p \in Proc, level \in Level : Logs(p, level)
           \/ \E p \in Proc, level \in {AnyLevel, "ERROR"} : PagesFirst(p, level)
           \/ \E p \in Proc : PagesNext(p)
           \/ LogGoes
           \/ UNCHANGED <<log, written>> /\ pager' = NoPager
           \/ UNCHANGED logs
  <1>1. ASSUME NEW p \in Proc, Starts(p) PROVE UNCHANGED logs
    BY <1>1 DEF Starts, Locks, IsRefused, Migrates, Opens, OpenFails, Tokens, TokenFails,
                StartsCaddy, StartCaddyFails, Listens, ListenFails, Truncates, Serves, WriteFails,
                CloseFails
  <1>2. ASSUME NEW p \in Proc, RequestBegins(p) \/ RequestWorks(p) \/ RequestEnds(p)
        PROVE  UNCHANGED logs
    BY <1>2 DEF RequestBegins, RequestWorks, RequestEnters, RequestStarts, RequestStops,
                RequestLeaves, RequestEnds
  <1>3. ASSUME NEW p \in Proc, Unwinds(p) PROVE UNCHANGED logs
    BY <1>3 DEF Unwinds, Drains, DrainTimesOut, RemovesEndpoint, RemoveFails, StopsCaddy,
                StopsNothing, StopFails, Releases, Exits
  <1>4. ASSUME NEW p \in Proc, ShutdownRequested(p) \/ ServeFails(p) \/ Crashes(p)
        PROVE  LogGoes \/ UNCHANGED logs
    BY <1>4 DEF ShutdownRequested, ServeFails, Crashes
  <1>5. CASE CaddyDies \/ FindsToken \/ Asks \/ UNCHANGED vars
    BY <1>5 DEF CaddyDies, FindsToken, Asks, vars, logs
  <1>6. CASE FindsEndpoint
    BY <1>6 DEF FindsEndpoint
  <1> QED
    BY <1>1, <1>2, <1>3, <1>4, <1>5, <1>6 DEF Next, Runs, RequestWorks

LEMMA LogStep ==
    ASSUME LogInv, PagerInv, [Next]_vars
    PROVE  LogInv' /\ PagerInv'
  <1>1. ASSUME NEW p \in Proc, NEW level \in Level, Logs(p, level) PROVE LogInv' /\ PagerInv'
    BY <1>1, AddStep
  <1>2. ASSUME NEW p \in Proc, NEW level \in {AnyLevel, "ERROR"}, PagesFirst(p, level)
        PROVE  LogInv' /\ PagerInv'
    <2>1. Paged(<<>>, level)
      BY DEF Paged, Decreasing, Gapless
    <2>2. level \in Level \cup {AnyLevel}
      BY DEF Level
    <2>3. Pages(p, level, 0, <<>>)
      BY <1>2 DEF PagesFirst
    <2> QED
      BY <2>1, <2>2, <2>3, PagesStep
  <1>3. ASSUME NEW p \in Proc, PagesNext(p) PROVE LogInv' /\ PagerInv'
    <2>1. /\ pager.level \in Level \cup {AnyLevel} /\ pager.next \in Nat
          /\ Paged(pager.seen, pager.level)
          /\ pager.seen # <<>> /\ pager.next = pager.seen[Len(pager.seen)]
      BY <1>3 DEF PagesNext, PagerInv
    <2>2. Pages(p, pager.level, pager.next, pager.seen)
      BY <1>3 DEF PagesNext
    <2> QED
      BY <2>1, <2>2, PagesStep
  <1>4. ASSUME LogGoes PROVE LogInv' /\ PagerInv'
    <2>1. pager' = NoPager /\ log' = EmptyLog /\ written' = <<>>
      BY <1>4 DEF LogGoes
    <2>2. (pager = NoPager => PagerInv)' /\ (log = EmptyLog /\ written = <<>> => LogInv)'
      BY NoPagerInv, EmptyLogInv, PTL
    <2> QED
      BY <2>1, <2>2
  <1>5. ASSUME UNCHANGED logs PROVE LogInv' /\ PagerInv'
    <2>1. log' = log /\ written' = written /\ pager' = pager
      BY <1>5 DEF logs
    <2> QED
      BY <2>1 DEF LogInv, PagerInv, Paged, Exhausted, Gapless, Decreasing, Occurs, Wanted
  <1>6. ASSUME UNCHANGED <<log, written>>, pager' = NoPager PROVE LogInv' /\ PagerInv'
    <2>1. LogInv'
      BY <1>6 DEF LogInv
    <2>2. (pager = NoPager => PagerInv)'
      BY NoPagerInv, PTL
    <2> QED
      BY <1>6, <2>1, <2>2
  <1> QED
    BY <1>1, <1>2, <1>3, <1>4, <1>5, <1>6, LogCases

LEMMA PagerComplete ==
    ASSUME LogInv, PagerInv
    PROVE  PagesComplete
  <1> DEFINE s == pager.seen
             W == Wanted(pager.level)
             held == {log.records[i].id : i \in DOMAIN log.records}
  <1>1. s \in Seq(W) /\ Decreasing(s) /\ Gapless(s, pager.level) /\ W \in SUBSET Nat
    BY DEF PagerInv, Paged, Wanted
  <1>2. DOMAIN s = 1..Len(s) /\ Len(s) \in Nat
    BY <1>1
  <1>3. Range(s) = {s[i] : i \in 1..Len(s)}
    BY <1>2 DEF Range
  <1>4. \A i \in 1..Len(written) :
           Matches([id |-> i, level |-> written[i]], pager.level) <=> i \in W
    BY DEF Matches, Wanted
  <1>5. s # <<>> => /\ 1 \in 1..Len(s) /\ Len(s) \in 1..Len(s)
                    /\ s[1] \in 1..Len(written) /\ s[Len(s)] \in 1..Len(written)
    <2>1. s # <<>> => 1 \in 1..Len(s) /\ Len(s) \in 1..Len(s)
      BY <1>1
    <2>2. \A i \in 1..Len(s) : s[i] \in 1..Len(written)
      <3>1. \A i \in 1..Len(s) : s[i] \in W
        BY <1>1
      <3> QED
        BY <3>1 DEF Wanted
    <2> QED
      BY <2>1, <2>2
  <1>6. Len(written) \in Nat
    BY DEF LogInv
  <1>7. ASSUME s # <<>>, NEW i \in s[Len(s)]..s[1]
        PROVE  Matches([id |-> i, level |-> written[i]], pager.level) <=> i \in Range(s)
    <2>1. i \in 1..Len(written) /\ s[Len(s)] <= i /\ i <= s[1]
      BY <1>5, <1>6, <1>7
    <2>2. i \in W <=> Occurs(i, s)
      <3>1. \A k \in 1..Len(s) : s[k] \in W
        BY <1>1
      <3> QED
        BY <1>1, <1>7, <2>1, <3>1 DEF Gapless, Occurs
    <2>3. Occurs(i, s) <=> i \in Range(s)
      BY <1>3 DEF Occurs
    <2> QED
      BY <1>4, <2>1, <2>2, <2>3
  <1>8. ASSUME s # <<>>, ~pager.open, NEW i \in held, i < s[Len(s)]
        PROVE  ~Matches([id |-> i, level |-> written[i]], pager.level)
    <2>1. i \in 1..Len(written) /\ i > Len(written) - Len(log.records)
      <3>1. PICK k \in 1..Len(log.records) : i = log.records[k].id
        BY <1>8 DEF LogInv
      <3> DEFINE n == Len(written)
                 m == Len(log.records)
      <3>2. log.records[k] = [id |-> (n - m) + k, level |-> written[(n - m) + k]]
        BY DEF LogInv
      <3>3. i = (n - m) + k
        BY <3>1, <3>2
      <3>4. m \in Nat /\ m <= n /\ n \in Nat
        BY DEF LogInv
      <3> HIDE DEF n, m
      <3>5. k \in 1..m
        BY DEF m
      <3>6. i \in 1..n /\ i > n - m
        BY <3>3, <3>4, <3>5
      <3> QED
        BY <3>6 DEF n, m
    <2>2. Exhausted(s, pager.level)
      BY <1>8 DEF PagerInv
    <2>3. i \notin W
      BY <1>5, <1>8, <2>1, <2>2 DEF Exhausted
    <2> QED
      BY <1>4, <2>1, <2>3
  <1>9. \A i, j \in DOMAIN s : i < j => s[i] > s[j]
    BY <1>1, <1>2 DEF Decreasing
  <1> QED
    BY <1>7, <1>8, <1>9 DEF PagesComplete

LEMMA LogInvHolds == Spec => [](LogInv /\ PagerInv)
  <1>1. Init => LogInv /\ PagerInv
    BY NoPagerInv, EmptyLogInv DEF Init
  <1>2. LogInv /\ PagerInv /\ [Next]_vars => (LogInv /\ PagerInv)'
    BY LogStep
  <1> QED
    BY <1>1, <1>2, PTL DEF Spec

\* Pages of the log, taken while records are added and dropped, go from newest to
\* oldest without a repetition or a gap, and the last page is only last when the
\* ring holds no older match, for every capacity and page size (Store.Add,
\* Store.Query).
THEOREM PagesAreComplete == Spec => []PagesComplete
  BY LogInvHolds, PagerComplete, PTL

-----------------------------------------------------------------------------
(* Type correctness *)

\* An invocation that has no migrations has no memory at all.
MemInv == \A p \in Proc : mem[p].build \in Builds \/ mem[p] = NoMemory

LEMMA MemStep ==
    ASSUME IInv, MemInv, [Next]_vars
    PROVE  MemInv'
  <1> USE DEF MemInv
  <1>0. CoreType /\ LockInv
    BY DEF IInv
  <1>1. ASSUME NEW p \in Proc, NEW b \in Builds, NEW t, NEW h, MemoryOf(p, b, t, h) PROVE MemInv'
    BY <1>1 DEF MemoryOf
  <1>2. ASSUME NEW p \in Proc, Locks(p) PROVE MemInv'
    BY <1>0, <1>1, <1>2, MemoryStep
  <1>3. ASSUME NEW p \in Proc, Tokens(p) \/ RequestBegins(p) \/ RequestWorks(p) \/ RequestEnds(p)
        PROVE  MemInv'
    <2>1. mem[p].build \in Builds
      <3>1. CASE Tokens(p) \/ RequestBegins(p)
        <4>1. pc[p] \in Holding
          BY <3>1 DEF Tokens, RequestBegins, Moves, Holding, Phases
        <4> QED
          BY <1>0, <4>1 DEF LockInv
      <3>2. CASE RequestWorks(p) \/ RequestEnds(p)
        <4>1. mem[p].handler \/ mem[p].inside
          BY <3>2 DEF RequestWorks, RequestEnters, RequestStarts, RequestStops, RequestLeaves,
                      RequestEnds
        <4> QED
          BY <4>1 DEF NoMemory
      <3> QED
        BY <1>3, <3>1, <3>2
    <2> QED
      BY <1>0, <1>1, <1>3, <2>1, MemoryStep
  <1>4. ASSUME NEW p \in Proc, Exits(p) \/ Crashes(p) PROVE MemInv'
    <2>1. mem' = [mem EXCEPT ![p] = NoMemory]
      BY <1>4 DEF Exits, Crashes
    <2> QED
      BY <1>0, <2>1 DEF CoreType
  <1>5. CASE UNCHANGED mem
    BY <1>5
  <1>6. ASSUME NEW p \in Proc,
               \/ IsRefused(p) \/ Migrates(p) \/ Opens(p) \/ OpenFails(p) \/ TokenFails(p)
               \/ StartsCaddy(p) \/ StartCaddyFails(p)
               \/ Listens(p) \/ ListenFails(p) \/ Truncates(p) \/ Serves(p) \/ WriteFails(p) \/ CloseFails(p)
        PROVE  UNCHANGED mem
    BY <1>6 DEF IsRefused, Migrates, Opens, OpenFails, TokenFails, StartsCaddy, StartCaddyFails,
                Listens, ListenFails, Truncates, Serves, WriteFails, CloseFails
  <1>7. ASSUME NEW p \in Proc,
               \/ ShutdownRequested(p) \/ ServeFails(p)
               \/ Drains(p) \/ DrainTimesOut(p) \/ RemovesEndpoint(p) \/ RemoveFails(p) \/ StopsCaddy(p)
               \/ StopsNothing(p) \/ StopFails(p) \/ Releases(p)
        PROVE  UNCHANGED mem
    BY <1>7 DEF ShutdownRequested, ServeFails, Drains, DrainTimesOut, RemovesEndpoint, RemoveFails,
                StopsCaddy, StopsNothing, StopFails, Releases
  <1>8. CASE CaddyDies \/ Elsewhere \/ UNCHANGED vars
    BY <1>5, <1>8, ElsewhereFrame DEF CaddyDies
  <1> QED
    BY <1>2, <1>3, <1>4, <1>5, <1>6, <1>7, <1>8, NextCases DEF Starts, Unwinds

LEMMA TypeParts ==
    ASSUME IInv, MemInv, client \in Davctl, LogInv, PagerInv
    PROVE  TypeOK
  <1>1. mem \in [Proc -> Memory \cup {NoMemory}]
    <2>1. mem \in [Proc -> AnyMemory]
      BY DEF IInv, CoreType
    <2>2. ASSUME NEW p \in Proc PROVE mem[p] \in Memory \cup {NoMemory}
      <3>1. mem[p] \in AnyMemory
        BY <2>1
      <3> QED
        BY <3>1 DEF AnyMemory, Memory, MemInv
    <2> QED
      BY <2>1, <2>2
  <1>2. pager.seen \in Seq(1..MaxRecords)
    <2> DEFINE s == pager.seen
               W == Wanted(pager.level)
    <2>1. s \in Seq(W)
      BY DEF PagerInv, Paged
    <2>2. W \in SUBSET (1..MaxRecords)
      BY DaemonAssumption DEF Wanted, LogInv
    <2> QED
      BY <2>1, <2>2, WiderSeq
  <1>3. Len(log.records) <= Capacity /\ log.next = Len(written) /\ written \in Seq(Level)
    BY DEF LogInv
  <1>4. client.port \in Proc \cup {None, Empty} /\ client.token \in Proc \cup {None}
    BY DEF Davctl
  <1> QED
    BY <1>1, <1>2, <1>3, <1>4 DEF TypeOK, IInv, CoreType

\* Every variable of davd, its files and its clients keeps its type: memory holds
\* the migrations of some build or nothing, the ring never has more records than
\* its capacity, and its numbers are those of the records logged (Store.Add).
THEOREM TypeCorrect == Spec => []TypeOK
  <1>1. Init => MemInv /\ client \in Davctl
    BY DEF Init, MemInv, Davctl, Idle
  <1>2. IInv /\ MemInv /\ client \in Davctl /\ [Next]_vars => (MemInv /\ client \in Davctl)'
    BY MemStep, ClientStep DEF IInv
  <1>3. IInv /\ MemInv /\ client \in Davctl /\ LogInv /\ PagerInv => TypeOK
    BY TypeParts
  <1> QED
    BY <1>1, <1>2, <1>3, IInvHolds, LogInvHolds, PTL DEF Spec

-----------------------------------------------------------------------------
(* How long the clean-up takes *)

\* The calls an invocation that ends has left.
CallsLeft(phase) ==
    CASE phase = "gone" -> 0
      [] phase = "exiting" -> 1
      [] phase = "releasing" -> 2
      [] phase = "stopping" -> 3
      [] phase = "removing" -> 4
      [] phase = "draining" -> 5
      [] OTHER -> 6

EndsSooner(p) ==
    pc[p] \in {"draining", "removing", "stopping", "releasing", "exiting"} =>
        pc'[p] = pc[p] \/ CallsLeft(pc'[p]) < CallsLeft(pc[p])

CleanUpGoesOn == \A p \in Proc : EndsSooner(p)

LEMMA MovesSooner ==
    ASSUME CoreType, NEW p \in Proc, NEW from, NEW to, Moves(p, from, to),
           \/ from \notin {"draining", "removing", "stopping", "releasing", "exiting"}
           \/ CallsLeft(to) < CallsLeft(from)
    PROVE  CleanUpGoesOn
  BY DEF CoreType, Moves, CleanUpGoesOn, EndsSooner

\* The deferred functions run in their order, each at most once: nothing takes an
\* invocation of davd that ends back to an earlier phase, neither a request that
\* outlived the shutdown nor another invocation, so it is gone after at most five
\* calls (runDaemon, shutdownManagementAPI).  ShutdownEnds then needs only that
\* each of these calls returns, which Fairness and its premise say.
THEOREM CleanUpIsBounded == Spec => [][CleanUpGoesOn]_vars
  <1>1. ASSUME CoreType, [Next]_vars PROVE CleanUpGoesOn
    <2> USE <1>1, MovesSooner
    <2>0. CASE UNCHANGED pc
      BY <2>0 DEF CleanUpGoesOn, EndsSooner
    <2>1. ASSUME NEW p \in Proc, Starts(p) PROVE CleanUpGoesOn
      <3>1. CASE Migrates(p)
        BY <2>0, <3>1 DEF Migrates
      <3>2. CASE ~Migrates(p)
        <4>1. \E from \in {"new", "locked", "opened", "tokened", "started", "listening", "writing"},
                 to \in Phases : Moves(p, from, to)
          BY <2>1, <3>2 DEF Starts, Locks, IsRefused, Opens, OpenFails, Tokens, TokenFails,
                            StartsCaddy, StartCaddyFails, Listens, ListenFails, Truncates, Serves,
                            WriteFails, CloseFails, AfterFailure, Phases
        <4> QED
          BY <4>1
      <3> QED
        BY <3>1, <3>2
    <2>2. ASSUME NEW p \in Proc, ShutdownRequested(p) \/ ServeFails(p) PROVE CleanUpGoesOn
      <3>1. Moves(p, "serving", "draining") \/ Moves(p, "serving", "removing")
        BY <2>2 DEF ShutdownRequested, ServeFails
      <3> QED
        BY <3>1
    <2>3. ASSUME NEW p \in Proc, Unwinds(p) PROVE CleanUpGoesOn
      <3>1. \/ Moves(p, "draining", "removing") \/ Moves(p, "removing", "stopping")
            \/ Moves(p, "stopping", "releasing") \/ Moves(p, "releasing", "exiting")
            \/ Moves(p, "exiting", "gone")
        BY <2>3 DEF Unwinds, Drains, DrainTimesOut, RemovesEndpoint, RemoveFails, StopsCaddy,
                    StopsNothing, StopFails, Releases, Exits
      <3> QED
        BY <3>1 DEF CallsLeft
    <2>4. ASSUME NEW p \in Proc, Crashes(p) PROVE CleanUpGoesOn
      <3>1. Moves(p, pc[p], "gone") /\ pc[p] # "gone"
        BY <2>4 DEF Crashes, Moves, Alive
      <3>2. pc[p] \in {"draining", "removing", "stopping", "releasing", "exiting"}
               => CallsLeft("gone") < CallsLeft(pc[p])
        BY DEF CallsLeft
      <3> QED
        BY <3>1, <3>2
    <2>5. ASSUME NEW p \in Proc, RequestBegins(p) \/ RequestWorks(p) \/ RequestEnds(p)
          PROVE  UNCHANGED pc
      BY <2>5 DEF RequestBegins, RequestWorks, RequestEnters, RequestStarts, RequestStops,
                  RequestLeaves, RequestEnds
    <2>6. CASE CaddyDies
      BY <2>0, <2>6 DEF CaddyDies
    <2>7. CASE Elsewhere \/ UNCHANGED vars
      BY <2>0, <2>7, ElsewhereFrame
    <2> QED
      BY <2>0, <2>1, <2>2, <2>3, <2>4, <2>5, <2>6, <2>7, NextCases
  <1>2. IInv => CoreType
    BY DEF IInv
  <1> QED
    BY <1>1, <1>2, IInvHolds, PTL DEF Spec

=============================================================================
