--------------------------- MODULE HostsProofs -----------------------------
(* Proofs about the hosts of a driver.  Of DriverHost, for any number of threads,    *)
(* submits and closes: every variable keeps its type and a submitted command is in   *)
(* one place until its thread has the answer.  Of WebServer, for any networks,       *)
(* replies and bounds and any number of requests, failures and stops: the chunks of  *)
(* a reply pass once and in order, and what was acknowledged stays on disk.          *)
EXTENDS MCHosts, FiniteSetTheorems, SequenceTheorems, TLAPS

-----------------------------------------------------------------------------
(* The threads of a DriverHost.  CommandInOnePlace counts; InOnePlace says the same  *)
(* for one thread by the places themselves, and is what every step keeps.  The host  *)
(* takes no lock, and the proof needs none: a step of the queue moves one entry.     *)

Queued(c) == {i \in DOMAIN commands : commands[i] = c}
Held(c) == {w \in DOMAIN wpc : running[w] = c}

(* In submit, before the command is put: it has not been run yet.           *)
Submitting(c) == pc[c] \in {"start", "create", "launch", "wait", "put"}

InOnePlace(c) ==
    /\ \A i, j \in Queued(c) : i = j
    /\ \A v, w \in Held(c) : v = w
    /\ Queued(c) # {} => Held(c) = {} /\ c \notin answered
    /\ Held(c) # {} => c \notin answered
    /\ pc[c] = "get" <=> Queued(c) # {} \/ Held(c) # {} \/ c \in answered
    /\ pc[c] = "get" => ran[c] = IF Queued(c) = {} THEN 1 ELSE 0
    /\ Submitting(c) => ran[c] = 0

IInv == TypeOK /\ \A c \in Caller : InOnePlace(c)

-----------------------------------------------------------------------------
(* A set with no two members has a cardinality of 0 or 1, so being in one   *)
(* place is what CommandInOnePlace counts.                                  *)
LEMMA AtMostOne ==
    ASSUME NEW S, \A x, y \in S : x = y
    PROVE  Cardinality(S) = IF S = {} THEN 0 ELSE 1
<1>1. CASE S = {}
  BY <1>1, FS_EmptySet
<1>2. CASE S # {}
  <2>1. PICK x : S = {x}
    BY <1>2
  <2> QED BY <2>1, FS_Singleton, <1>2
<1> QED BY <1>1, <1>2

LEMMA PlacesCount ==
    ASSUME IInv
    PROVE  CommandInOnePlace
<1> SUFFICES ASSUME NEW c \in Caller
             PROVE  /\ Cardinality(Queued(c)) + Cardinality(Held(c))
                         + (IF c \in answered THEN 1 ELSE 0)
                       = IF pc[c] = "get" THEN 1 ELSE 0
                    /\ pc[c] = "get" =>
                         ran[c] = IF Queued(c) = {} THEN 1 ELSE 0
  BY DEF CommandInOnePlace, Queued, Held
<1>1. InOnePlace(c)
  BY DEF IInv
<1>2. Cardinality(Queued(c)) = IF Queued(c) = {} THEN 0 ELSE 1
  BY <1>1, AtMostOne DEF InOnePlace
<1>3. Cardinality(Held(c)) = IF Held(c) = {} THEN 0 ELSE 1
  BY <1>1, AtMostOne DEF InOnePlace
<1> QED BY <1>1, <1>2, <1>3 DEF InOnePlace

-----------------------------------------------------------------------------
(* A step that moves no command and no answer keeps every command in place. *)
LEMMA StaysInPlace ==
    ASSUME TypeOK, NEW c \in Caller, InOnePlace(c),
           Queued(c)' = Queued(c), Held(c)' = Held(c),
           c \in answered' <=> c \in answered,
           pc[c]' = "get" <=> pc[c] = "get",
           Submitting(c)' => Submitting(c), ran[c]' = ran[c]
    PROVE  InOnePlace(c)'
BY DEF InOnePlace

(* What the steps of the queue do to the commands of one thread.            *)
LEMMA PutQueues ==
    ASSUME TypeOK, NEW d \in Caller, commands' = Append(commands, d),
           NEW c \in Caller
    PROVE  Queued(c)' = IF c = d THEN Queued(c) \union {Len(commands) + 1}
                                 ELSE Queued(c)
BY DEF Queued, TypeOK

LEMMA StopQueues ==
    ASSUME TypeOK, commands' = Append(commands, Stop), NEW c \in Caller
    PROVE  Queued(c)' = Queued(c)
BY HostConstants DEF Queued, TypeOK

LEMMA TakeQueues ==
    ASSUME TypeOK, commands # <<>>, commands' = Tail(commands),
           NEW c \in Caller
    PROVE  /\ \A i : i \in Queued(c)' <=> i \in Nat \ {0} /\ i + 1 \in Queued(c)
           /\ 1 \in Queued(c) <=> Head(commands) = c
           /\ Queued(c) \subseteq Nat \ {0}
BY DEF Queued, TypeOK

-----------------------------------------------------------------------------
(* The initial state.                                                       *)
LEMMA InitIInv == ASSUME Init PROVE IInv
<1> USE HostConstants
<1>1. TypeOK
  <2>1. /\ commands \in Seq(Caller \union {Stop})
        /\ wpc \in Seq({"new", "building", "serving", "ended"})
        /\ running \in Seq(Caller \union {None}) /\ Len(running) = Len(wpc)
    BY DEF Init
  <2>2. /\ ops \in [Caller -> 0..MaxOps] /\ ran \in [Caller -> Nat]
        /\ joining \in [Caller -> DOMAIN wpc \union {None}]
    BY DEF Init
  <2> QED BY <2>1, <2>2 DEF Init, TypeOK
<1>2. ASSUME NEW c \in Caller PROVE InOnePlace(c)
  <2>1. Queued(c) = {} /\ Held(c) = {}
    BY DEF Init, Queued, Held
  <2> QED BY <2>1 DEF Init, InOnePlace, Submitting
<1> QED BY <1>1, <1>2 DEF IInv

-----------------------------------------------------------------------------
(* Type correctness, one step per action.                                   *)
LEMMA NextTypeOK == ASSUME TypeOK, [Next]_vars PROVE TypeOK'
<1> USE HostConstants DEF TypeOK, caller, attrs, hist
<1>1. ASSUME NEW c \in Caller, Submit(c) PROVE TypeOK'
  BY <1>1 DEF Submit, Call, Goto
<1>2. ASSUME NEW c \in Caller, StartChecks(c) PROVE TypeOK'
  BY <1>2 DEF StartChecks, Goto
<1>3. ASSUME NEW c \in Caller, StartCreates(c) PROVE TypeOK'
  <2>1. /\ wpc' \in Seq({"new", "building", "serving", "ended"})
        /\ Len(wpc') = Len(wpc) + 1
        /\ DOMAIN wpc \subseteq DOMAIN wpc' /\ thread' \in DOMAIN wpc'
    BY <1>3 DEF StartCreates
  <2>2. /\ running' \in Seq(Caller \union {None})
        /\ Len(running') = Len(running) + 1
    BY <1>3 DEF StartCreates
  <2> QED BY <1>3, <2>1, <2>2 DEF StartCreates, Goto
<1>4. ASSUME NEW c \in Caller, StartLaunches(c) PROVE TypeOK'
  <2>1. CASE thread # None /\ wpc[thread] = "new"
    <3>1. wpc' = [wpc EXCEPT ![thread] = "building"]
      BY <1>4, <2>1 DEF StartLaunches
    <3>2. /\ wpc' \in Seq({"new", "building", "serving", "ended"})
          /\ Len(wpc') = Len(wpc) /\ DOMAIN wpc' = DOMAIN wpc
      BY <2>1, <3>1
    <3> QED BY <1>4, <2>1, <3>2 DEF StartLaunches, Goto
  <2>2. CASE ~(thread # None /\ wpc[thread] = "new")
    BY <1>4, <2>2 DEF StartLaunches, Goto
  <2> QED BY <2>1, <2>2
<1>5. ASSUME NEW c \in Caller, StartWaits(c) PROVE TypeOK'
  BY <1>5 DEF StartWaits, Goto
<1>6. ASSUME NEW c \in Caller, Put(c) PROVE TypeOK'
  BY <1>6 DEF Put, Goto
<1>7. ASSUME NEW c \in Caller, Get(c) PROVE TypeOK'
  BY <1>7 DEF Get, Goto
<1>8. ASSUME NEW c \in Caller, CloseChecks(c) PROVE TypeOK'
  BY <1>8 DEF CloseChecks, Call, Goto
<1>9. ASSUME NEW c \in Caller, CloseStops(c) PROVE TypeOK'
  BY <1>9 DEF CloseStops, Goto
<1>10. ASSUME NEW c \in Caller, CloseJoins(c) PROVE TypeOK'
  BY <1>10 DEF CloseJoins, Goto
<1>11. ASSUME NEW c \in Caller, CloseJoined(c) PROVE TypeOK'
  BY <1>11 DEF CloseJoined, Goto
<1>12. ASSUME NEW c \in Caller, CloseTearsDown(c) PROVE TypeOK'
  BY <1>12 DEF CloseTearsDown, Goto
<1>13. ASSUME NEW c \in Caller, CloseForgets(c) PROVE TypeOK'
  BY <1>13 DEF CloseForgets, Goto
<1>14. ASSUME NEW w \in DOMAIN wpc, Built(w) PROVE TypeOK'
  BY <1>14 DEF Built, At
<1>15. ASSUME NEW w \in DOMAIN wpc, BuildFails(w) PROVE TypeOK'
  BY <1>15 DEF BuildFails, At
<1>16. ASSUME NEW w \in DOMAIN wpc, Take(w) PROVE TypeOK'
  BY <1>16 DEF Take, At
<1>17. ASSUME NEW w \in DOMAIN wpc, Finish(w) PROVE TypeOK'
  BY <1>17 DEF Finish, At
<1>18. ASSUME NEW w \in DOMAIN wpc, TakeStop(w) PROVE TypeOK'
  BY <1>18 DEF TakeStop, At
<1>19. CASE UNCHANGED vars
  BY <1>19 DEF vars
<1> QED
  BY <1>1, <1>2, <1>3, <1>4, <1>5, <1>6, <1>7, <1>8, <1>9, <1>10, <1>11,
     <1>12, <1>13, <1>14, <1>15, <1>16, <1>17, <1>18, <1>19
     DEF Next, CallerStep, WorkerStep

-----------------------------------------------------------------------------
(* Every step keeps the commands of every thread in place.                  *)
LEMMA NextInOnePlace ==
    ASSUME TypeOK, NEW c \in Caller, InOnePlace(c), [Next]_vars
    PROVE  InOnePlace(c)'
<1> USE HostConstants DEF caller, attrs, hist, Submitting
<1>1. ASSUME NEW d \in Caller, Submit(d) PROVE InOnePlace(c)'
  <2>1. Queued(c)' = Queued(c) /\ Held(c)' = Held(c)
    BY <1>1 DEF Submit, Queued, Held
  <2>2. CASE c = d
    BY <1>1, <2>1, <2>2 DEF Submit, Goto, InOnePlace, TypeOK
  <2>3. CASE c # d
    BY <1>1, <2>1, <2>3, StaysInPlace DEF Submit, Goto, TypeOK
  <2> QED BY <2>2, <2>3
<1>2. ASSUME NEW d \in Caller, StartChecks(d) PROVE InOnePlace(c)'
  <2>1. Queued(c)' = Queued(c)
    BY <1>2 DEF StartChecks, Queued
  <2>2. Held(c)' = Held(c)
    BY <1>2 DEF StartChecks, Held
  <2> QED BY <1>2, <2>1, <2>2, StaysInPlace DEF StartChecks, Goto, TypeOK
<1>3. ASSUME NEW d \in Caller, StartCreates(d) PROVE InOnePlace(c)'
  <2>1. Queued(c)' = Queued(c)
    BY <1>3 DEF StartCreates, Queued
  <2>2. Held(c)' = Held(c)
    BY <1>3 DEF StartCreates, Held, TypeOK
  <2> QED BY <1>3, <2>1, <2>2, StaysInPlace DEF StartCreates, Goto, TypeOK
<1>4. ASSUME NEW d \in Caller, StartLaunches(d) PROVE InOnePlace(c)'
  <2>1. Queued(c)' = Queued(c)
    BY <1>4 DEF StartLaunches, Queued
  <2>2. Held(c)' = Held(c)
    BY <1>4 DEF StartLaunches, Held
  <2> QED BY <1>4, <2>1, <2>2, StaysInPlace DEF StartLaunches, Goto, TypeOK
<1>5. ASSUME NEW d \in Caller, StartWaits(d) PROVE InOnePlace(c)'
  <2>1. Queued(c)' = Queued(c)
    BY <1>5 DEF StartWaits, Queued
  <2>2. Held(c)' = Held(c)
    BY <1>5 DEF StartWaits, Held
  <2> QED BY <1>5, <2>1, <2>2, StaysInPlace DEF StartWaits, Goto, TypeOK
<1>6. ASSUME NEW d \in Caller, Put(d) PROVE InOnePlace(c)'
  <2>1. Queued(c)' = IF c = d THEN Queued(c) \union {Len(commands) + 1}
                              ELSE Queued(c)
    BY <1>6, PutQueues DEF Put
  <2>2. Held(c)' = Held(c)
    BY <1>6 DEF Put, Held
  <2>3. CASE c = d
    <3>1. Queued(c) = {} /\ Held(c) = {} /\ c \notin answered
      BY <1>6, <2>3 DEF Put, Goto, InOnePlace
    <3> QED BY <1>6, <2>1, <2>2, <2>3, <3>1 DEF Put, Goto, InOnePlace, TypeOK
  <2>4. CASE c # d
    BY <1>6, <2>1, <2>2, <2>4, StaysInPlace DEF Put, Goto, TypeOK
  <2> QED BY <2>3, <2>4
<1>7. ASSUME NEW d \in Caller, Get(d) PROVE InOnePlace(c)'
  <2>1. Queued(c)' = Queued(c) /\ Held(c)' = Held(c)
    BY <1>7 DEF Get, Queued, Held
  <2>2. CASE c = d
    BY <1>7, <2>1, <2>2 DEF Get, Goto, InOnePlace, TypeOK
  <2>3. CASE c # d
    BY <1>7, <2>1, <2>3, StaysInPlace DEF Get, Goto, TypeOK
  <2> QED BY <2>2, <2>3
<1>8. ASSUME NEW d \in Caller, CloseChecks(d) PROVE InOnePlace(c)'
  <2>1. Queued(c)' = Queued(c)
    BY <1>8 DEF CloseChecks, Queued
  <2>2. Held(c)' = Held(c)
    BY <1>8 DEF CloseChecks, Held
  <2> QED BY <1>8, <2>1, <2>2, StaysInPlace DEF CloseChecks, Goto, Call, TypeOK
<1>9. ASSUME NEW d \in Caller, CloseStops(d) PROVE InOnePlace(c)'
  <2>1. Queued(c)' = Queued(c)
    BY <1>9, StopQueues DEF CloseStops
  <2>2. Held(c)' = Held(c)
    BY <1>9 DEF CloseStops, Held
  <2> QED BY <1>9, <2>1, <2>2, StaysInPlace DEF CloseStops, Goto, TypeOK
<1>10. ASSUME NEW d \in Caller, CloseJoins(d) PROVE InOnePlace(c)'
  <2>1. Queued(c)' = Queued(c)
    BY <1>10 DEF CloseJoins, Queued
  <2>2. Held(c)' = Held(c)
    BY <1>10 DEF CloseJoins, Held
  <2> QED BY <1>10, <2>1, <2>2, StaysInPlace DEF CloseJoins, Goto, TypeOK
<1>11. ASSUME NEW d \in Caller, CloseJoined(d) PROVE InOnePlace(c)'
  <2>1. Queued(c)' = Queued(c)
    BY <1>11 DEF CloseJoined, Queued
  <2>2. Held(c)' = Held(c)
    BY <1>11 DEF CloseJoined, Held
  <2> QED BY <1>11, <2>1, <2>2, StaysInPlace DEF CloseJoined, Goto, TypeOK
<1>12. ASSUME NEW d \in Caller, CloseTearsDown(d) PROVE InOnePlace(c)'
  <2>1. Queued(c)' = Queued(c)
    BY <1>12 DEF CloseTearsDown, Queued
  <2>2. Held(c)' = Held(c)
    BY <1>12 DEF CloseTearsDown, Held
  <2> QED BY <1>12, <2>1, <2>2, StaysInPlace DEF CloseTearsDown, Goto, TypeOK
<1>13. ASSUME NEW d \in Caller, CloseForgets(d) PROVE InOnePlace(c)'
  <2>1. Queued(c)' = Queued(c)
    BY <1>13 DEF CloseForgets, Queued
  <2>2. Held(c)' = Held(c)
    BY <1>13 DEF CloseForgets, Held
  <2> QED BY <1>13, <2>1, <2>2, StaysInPlace DEF CloseForgets, Goto, TypeOK
<1>14. ASSUME NEW w \in DOMAIN wpc, Built(w) PROVE InOnePlace(c)'
  <2>1. Queued(c)' = Queued(c)
    BY <1>14 DEF Built, Queued
  <2>2. Held(c)' = Held(c)
    BY <1>14 DEF Built, Held, At
  <2> QED BY <1>14, <2>1, <2>2, StaysInPlace DEF Built, At, TypeOK
<1>15. ASSUME NEW w \in DOMAIN wpc, BuildFails(w) PROVE InOnePlace(c)'
  <2>1. Queued(c)' = Queued(c)
    BY <1>15 DEF BuildFails, Queued
  <2>2. Held(c)' = Held(c)
    BY <1>15 DEF BuildFails, Held, At
  <2> QED BY <1>15, <2>1, <2>2, StaysInPlace DEF BuildFails, At, TypeOK
<1>16. ASSUME NEW w \in DOMAIN wpc, Take(w) PROVE InOnePlace(c)'
  <2>1. /\ \A i : i \in Queued(c)' <=> i \in Nat \ {0} /\ i + 1 \in Queued(c)
        /\ 1 \in Queued(c) <=> Head(commands) = c
        /\ Queued(c) \subseteq Nat \ {0}
    BY <1>16, TakeQueues DEF Take
  <2>2. CASE Head(commands) = c
    <3>1. Queued(c) = {1} /\ Held(c) = {} /\ c \notin answered /\ pc[c] = "get"
      BY <2>1, <2>2 DEF InOnePlace
    <3>2. Queued(c)' = {}
      BY <2>1, <3>1
    <3>3. Held(c)' = {w}
      BY <1>16, <2>2, <3>1 DEF Take, At, Held, TypeOK
    <3>4. ran[c]' = ran[c] + 1 /\ ran[c] = 0
      BY <1>16, <2>2, <3>1 DEF Take, InOnePlace, TypeOK
    <3> QED BY <1>16, <3>1, <3>2, <3>3, <3>4 DEF Take, InOnePlace
  <2>3. CASE Head(commands) # c
    <3>1. Held(c)' = Held(c)
      BY <1>16, <2>3 DEF Take, At, Held, TypeOK
    <3>2. /\ ran[c]' = ran[c] /\ UNCHANGED <<pc, answered>>
      BY <1>16, <2>3 DEF Take, TypeOK
    <3>3. Queued(c)' = {} <=> Queued(c) = {}
      <4>1. \A i \in Queued(c) : i - 1 \in Nat \ {0} /\ (i - 1) + 1 = i
        BY <2>1, <2>3
      <4> QED BY <2>1, <4>1
    <3>4. \A i, j \in Queued(c)' : i = j
      BY <2>1 DEF InOnePlace
    <3> QED BY <3>1, <3>2, <3>3, <3>4 DEF InOnePlace
  <2> QED BY <2>2, <2>3
<1>17. ASSUME NEW w \in DOMAIN wpc, Finish(w) PROVE InOnePlace(c)'
  <2>1. Queued(c)' = Queued(c)
    BY <1>17 DEF Finish, Queued
  <2>2. CASE running[w] = c
    <3>1. w \in Held(c)
      BY <1>17, <2>2 DEF Finish, At, Held
    <3>2. Queued(c) = {} /\ pc[c] = "get"
      BY <3>1 DEF InOnePlace
    <3>3. Held(c)' = {}
      BY <1>17, <2>2, <3>1 DEF Finish, At, Held, TypeOK, InOnePlace
    <3> QED BY <1>17, <2>1, <2>2, <3>2, <3>3 DEF Finish, InOnePlace
  <2>3. CASE running[w] # c
    <3>1. Held(c)' = Held(c)
      BY <1>17, <2>3 DEF Finish, At, Held, TypeOK
    <3> QED BY <1>17, <2>1, <2>3, <3>1, StaysInPlace DEF Finish
  <2> QED BY <2>2, <2>3
<1>18. ASSUME NEW w \in DOMAIN wpc, TakeStop(w) PROVE InOnePlace(c)'
  <2>1. /\ \A i : i \in Queued(c)' <=> i \in Nat \ {0} /\ i + 1 \in Queued(c)
        /\ 1 \in Queued(c) <=> Head(commands) = c
        /\ Queued(c) \subseteq Nat \ {0}
    BY <1>18, TakeQueues DEF TakeStop
  <2>2. Head(commands) # c
    BY <1>18 DEF TakeStop
  <2>3. Held(c)' = Held(c)
    BY <1>18 DEF TakeStop, At, Held, TypeOK
  <2>4. UNCHANGED <<pc, ran, answered>>
    BY <1>18 DEF TakeStop
  <2>5. Queued(c)' = {} <=> Queued(c) = {}
    <3>1. \A i \in Queued(c) : i - 1 \in Nat \ {0} /\ (i - 1) + 1 = i
      BY <2>1, <2>2
    <3> QED BY <2>1, <3>1
  <2>6. \A i, j \in Queued(c)' : i = j
    BY <2>1 DEF InOnePlace
  <2> QED BY <2>3, <2>4, <2>5, <2>6 DEF InOnePlace
<1>19. CASE UNCHANGED vars
  BY <1>19 DEF vars, InOnePlace, Queued, Held
<1> QED
  BY <1>1, <1>2, <1>3, <1>4, <1>5, <1>6, <1>7, <1>8, <1>9, <1>10, <1>11, <1>12, <1>13, <1>14, <1>15, <1>16, <1>17, <1>18, <1>19
     DEF Next, CallerStep, WorkerStep

-----------------------------------------------------------------------------
(* A submitted command is in exactly one place until its thread has the     *)
(* result - queued, running or answered - and is run once, whatever threads *)
(* start workers, submit and close at the same time (CbpDriverHost).        *)
THEOREM CommandsInOnePlace == Spec => []CommandsHold
<1>1. Init => IInv
  BY InitIInv
<1>2. IInv /\ [Next]_vars => IInv'
  <2> SUFFICES ASSUME IInv, [Next]_vars PROVE IInv'
    OBVIOUS
  <2>1. TypeOK'
    BY NextTypeOK DEF IInv
  <2>2. ASSUME NEW c \in Caller PROVE InOnePlace(c)'
    BY NextInOnePlace DEF IInv
  <2> QED BY <2>1, <2>2 DEF IInv
<1>3. IInv => CommandsHold
  BY PlacesCount DEF IInv, CommandsHold
<1> QED BY <1>1, <1>2, <1>3, PTL DEF Spec

-----------------------------------------------------------------------------
(* The web server *)

Kept == [history : Seq(Nat), networks : [NetNames -> Nat], activity : Seq(Nat), artifacts : SUBSET Nat]
Bounded(s) == Len(s.history) <= MaxTurns /\ Len(s.activity) <= MaxEntries

\* What a request may have left to do: effects of this request, of which only the acknowledgement
\* and the save before it name a network.
Effect == [op : {"turn", "clear", "activity", "artifact"}, name : {""}, v : {requests}]
          \cup [op : {"network", "ack"}, name : NetNames, v : {requests}]
ServerTypes ==
  /\ up \in BOOLEAN /\ requests \in Nat /\ failures \in Nat
  /\ mem \in Kept /\ disk \in Kept /\ Bounded(mem) /\ Bounded(disk)
  /\ acked \in [NetNames -> Nat]
  /\ fx \in Seq(Effect)
  /\ ~up => fx = <<>> /\ mem = W!Empty /\ stream = W!NoStream

\* A save is acknowledged right after the file was replaced.
AckAfterSave ==
  \A i \in DOMAIN fx :
    fx[i].op = "ack" => IF i = 1 THEN disk.networks[fx[i].name] >= fx[i].v
                        ELSE fx[i - 1].op = "network" /\ fx[i - 1].name = fx[i].name

\* The memory is never behind the file, no network is newer than the last request, and what was
\* acknowledged is in the file.
Versions ==
  \A n \in NetNames :
    /\ up => disk.networks[n] <= mem.networks[n] /\ mem.networks[n] <= requests
    /\ disk.networks[n] <= requests
    /\ acked[n] <= disk.networks[n]

\* As long as no write failed, what a restart reads back is what is in memory.
Agree ==
  up /\ failures = 0 =>
    mem.history = disk.history /\ mem.networks = disk.networks /\ mem.activity = disk.activity

\* What the worker has not put yet and what is in the queue's place are the rest of the reply.
Event == W!Chunk \cup {"done", "error"}
Piece == W!Chunk \cup {"full"}
Streams == [on : BOOLEAN, client : BOOLEAN, todo : Seq(W!Chunk), worker : {"none", "running"},
            queue : Seq(Event), chunks : Seq(Piece), sent : Seq(W!Chunk), full : Seq(W!Chunk),
            end : {"none", "done", "error", "gone"}]
Flow ==
  /\ stream.queue = <<>> \/ Len(stream.queue) = 1
  /\ Len(stream.sent) <= Len(stream.full)
  /\ stream.sent = SubSeq(stream.full, 1, Len(stream.sent))
  /\ stream.worker = "running" =>
       /\ stream.on
       /\ IF stream.queue = <<>>
          THEN stream.todo = SubSeq(stream.full, Len(stream.sent) + 1, Len(stream.full))
          ELSE /\ Len(stream.sent) < Len(stream.full)
               /\ stream.todo = SubSeq(stream.full, Len(stream.sent) + 2, Len(stream.full))
  /\ stream.queue # <<>> =>
       \/ stream.queue[1] = "error" /\ stream.worker = "none"
       \/ stream.queue[1] = "done" /\ stream.sent = stream.full /\ stream.worker = "none"
       \/ stream.worker = "running" /\ stream.queue[1] = stream.full[Len(stream.sent) + 1]
  /\ stream.end = "done" => stream.sent = stream.full
StreamFollows == stream \in Streams /\ Flow

ServerInv == ServerTypes /\ AckAfterSave /\ Versions /\ Agree /\ StreamFollows

-----------------------------------------------------------------------------
(* What the steps of the server do *)

\* At most the last n entries are kept.
LEMMA BoundIs ==
  ASSUME NEW s \in Seq(Nat), NEW n \in Nat
  PROVE  W!Bound(s, n) \in Seq(Nat) /\ Len(W!Bound(s, n)) <= n
<1>1. CASE Len(s) > n
  <2>1. /\ Len(s) - n + 1 \in 1..(Len(s) + 1) /\ Len(s) \in (Len(s) - n)..Len(s)
        /\ \A i \in (Len(s) - n + 1)..Len(s) : s[i] \in Nat
    BY <1>1, ElementOfSeq
  <2>2. SubSeq(s, Len(s) - n + 1, Len(s)) \in Seq(Nat)
        /\ Len(SubSeq(s, Len(s) - n + 1, Len(s))) = n
    BY <1>1, <2>1, SubSeqProperties
  <2> QED BY <1>1, <2>2 DEF W!Bound
<1>2. CASE ~(Len(s) > n)
  BY <1>2 DEF W!Bound
<1> QED BY <1>1, <1>2

LEMMA BoundAppended ==
  ASSUME NEW s \in Seq(Nat), NEW n \in Nat, NEW v \in Nat
  PROVE  W!Bound(Append(s, v), n) \in Seq(Nat) /\ Len(W!Bound(Append(s, v), n)) <= n
<1>1. Append(s, v) \in Seq(Nat)
  BY AppendProperties
<1> QED BY <1>1, BoundIs

\* The first effect is made, and the others move up.
LEMMA FirstEffect ==
  ASSUME ServerTypes, fx # <<>>
  PROVE  /\ Head(fx) = fx[1] /\ fx[1] \in Effect /\ 1 \in DOMAIN fx
         /\ Tail(fx) \in Seq(Effect)
         /\ \A i \in DOMAIN Tail(fx) : i + 1 \in DOMAIN fx /\ Tail(fx)[i] = fx[i + 1]
<1>1. fx \in Seq(Effect) /\ Len(fx) \in Nat \ {0} /\ DOMAIN fx = 1..Len(fx)
  BY EmptySeq DEF ServerTypes
<1>2. Tail(fx) \in Seq(Effect) /\ Len(Tail(fx)) = Len(fx) - 1
      /\ \A i \in 1..Len(Tail(fx)) : Tail(fx)[i] = fx[i + 1]
  BY <1>1, HeadTailProperties
<1>3. Head(fx) = fx[1] /\ fx[1] \in Effect
  BY <1>1, ElementOfSeq
<1> QED BY <1>1, <1>2, <1>3

\* An effect on the feed, the history or the vault, and one of a save.
LEMMA EffectIs ==
  ASSUME NEW e \in Effect
  PROVE  /\ e.v = requests
         /\ e.op \in {"network", "ack"} => e.name \in NetNames
BY DEF Effect

LEMMA EmptyIs == W!Empty \in Kept /\ Bounded(W!Empty)
<1>1. Len(<<>>) = 0 /\ <<>> \in Seq(Nat)
  BY EmptySeq
<1> QED BY <1>1, ServerConstants DEF W!Empty, Kept, Bounded, W!ConstantsOK

LEMMA TypesKept ==
  ASSUME ServerTypes, W!Next
  PROVE  ServerTypes'
<1> USE ServerConstants DEF W!ConstantsOK
<1>0. ASSUME requests' = requests PROVE Effect' = Effect
  BY <1>0 DEF Effect
<1>1. CASE W!Serve
  <2>1. requests' = requests + 1 /\ up /\ UNCHANGED <<up, mem, disk, stream, acked, failures>>
    BY <1>1 DEF W!Serve
  <2>2. DEFINE v == requests + 1
  <2>3. fx' \in {W!ModelTurn(v), W!RunProvision(v), W!ClearHistory(v)}
               \cup {W!RunPlan(v, ok) : ok \in BOOLEAN} \cup {W!RunVerified(v, ok) : ok \in BOOLEAN}
               \cup {W!NetworkSave(n, v) : n \in NetNames}
    BY <1>1 DEF W!Serve
  <2>4. \A op \in {"turn", "clear", "activity", "artifact"} : W!Fx(op, v) \in Effect'
    BY <2>1 DEF Effect, W!Fx
  <2>5. \A op \in {"network", "ack"}, n \in NetNames : [op |-> op, name |-> n, v |-> v] \in Effect'
    BY <2>1 DEF Effect
  <2> HIDE DEF v
  <2>6. fx' \in Seq(Effect')
    <3>1. \A a, b \in Effect' : <<a, b>> \in Seq(Effect')
      OBVIOUS
    <3>2. \A a \in Effect' : <<a>> \in Seq(Effect')
      OBVIOUS
    <3>3. <<>> \in Seq(Effect')
      OBVIOUS
    <3>4. CASE fx' \in {W!ModelTurn(v), W!RunProvision(v), W!ClearHistory(v)}
      BY <2>4, <3>1, <3>2, <3>4 DEF W!ModelTurn, W!RunProvision, W!ClearHistory
    <3>5. ASSUME NEW ok \in BOOLEAN, fx' = W!RunPlan(v, ok) PROVE fx' \in Seq(Effect')
      BY <2>4, <3>2, <3>3, <3>5, ConcatProperties DEF W!RunPlan
    <3>6. ASSUME NEW ok \in BOOLEAN, fx' = W!RunVerified(v, ok) PROVE fx' \in Seq(Effect')
      BY <2>4, <3>2, <3>3, <3>6 DEF W!RunVerified
    <3>7. ASSUME NEW n \in NetNames, fx' = W!NetworkSave(n, v) PROVE fx' \in Seq(Effect')
      BY <2>5, <3>1, <3>7 DEF W!NetworkSave
    <3> QED BY <2>3, <3>4, <3>5, <3>6, <3>7
  <2> QED BY <2>1, <2>6 DEF ServerTypes, Bounded
<1>2. ASSUME NEW r \in Replies, W!StreamModel(r) PROVE ServerTypes'
  <2>1. requests' = requests + 1 /\ up /\ fx' = <<>> /\ UNCHANGED <<up, mem, disk, acked, failures>>
    BY <1>2 DEF W!StreamModel
  <2>2. fx' \in Seq(Effect')
    BY <2>1
  <2> QED BY <2>1, <2>2 DEF ServerTypes, Bounded
<1>3. ASSUME NEW ok \in BOOLEAN, W!AppendHistory(ok) PROVE ServerTypes'
  <2>1. fx # <<>> /\ requests' = requests /\ fx' = Tail(fx) /\ UNCHANGED <<up, acked, stream>> /\ up
    BY <1>3 DEF W!AppendHistory, W!Do
  <2>2. failures' \in Nat
    BY <1>3 DEF W!AppendHistory, W!Writes, ServerTypes
  <2>3. W!V \in Nat
    BY <2>1, FirstEffect, EffectIs DEF W!V, ServerTypes
  <2>4. ASSUME NEW s \in Kept, Bounded(s), NEW t, t = [s EXCEPT !.history = W!Bound(Append(@, W!V), MaxTurns)]
        PROVE  t \in Kept /\ Bounded(t)
    <3> DEFINE h == W!Bound(Append(s.history, W!V), MaxTurns)
    <3>1. h \in Seq(Nat) /\ Len(h) <= MaxTurns
      BY <2>3, BoundAppended DEF Kept
    <3>2. t = [s EXCEPT !.history = h]
      BY <2>4
    <3> HIDE DEF h
    <3> QED BY <2>4, <3>1, <3>2 DEF Kept, Bounded
  <2>5. /\ mem' = [mem EXCEPT !.history = W!Bound(Append(@, W!V), MaxTurns)]
        /\ \/ disk' = [disk EXCEPT !.history = W!Bound(Append(@, W!V), MaxTurns)]
           \/ disk' = disk
    BY <1>3 DEF W!AppendHistory
  <2>6. mem' \in Kept /\ Bounded(mem') /\ disk' \in Kept /\ Bounded(disk')
    BY <2>4, <2>5 DEF ServerTypes
  <2> QED BY <1>0, <2>1, <2>2, <2>6, FirstEffect DEF ServerTypes, Bounded
<1>4. ASSUME NEW ok \in BOOLEAN, W!DoClear(ok) PROVE ServerTypes'
  <2>1. fx # <<>> /\ requests' = requests /\ fx' = Tail(fx) /\ UNCHANGED <<up, acked, stream>> /\ up
    BY <1>4 DEF W!DoClear, W!Do
  <2>2. failures' \in Nat
    BY <1>4 DEF W!DoClear, W!Writes, ServerTypes
  <2>3. ASSUME NEW s \in Kept, Bounded(s) PROVE LET t == [s EXCEPT !.history = <<>>] IN t \in Kept /\ Bounded(t)
    <3> DEFINE none == <<>>
    <3>1. none \in Seq(Nat) /\ Len(none) = 0
      OBVIOUS
    <3> HIDE DEF none
    <3> DEFINE t == [s EXCEPT !.history = none]
    <3>2. t \in Kept
      BY <2>3, <3>1 DEF Kept
    <3>3. t.history = none /\ t.activity = s.activity
      BY <2>3 DEF Kept
    <3>4. MaxTurns \in Nat
      OBVIOUS
    <3> HIDE DEF t
    <3>5. Bounded(t)
      BY <2>3, <3>1, <3>3, <3>4 DEF Bounded
    <3> QED BY <3>2, <3>5 DEF none, t
  <2>4. mem' = [mem EXCEPT !.history = <<>>] /\ (disk' = [disk EXCEPT !.history = <<>>] \/ disk' = disk)
    BY <1>4 DEF W!DoClear
  <2>5. mem' \in Kept /\ Bounded(mem') /\ disk' \in Kept /\ Bounded(disk')
    BY <2>3, <2>4 DEF ServerTypes
  <2> QED BY <1>0, <2>1, <2>2, <2>5, FirstEffect DEF ServerTypes, Bounded
<1>5. ASSUME NEW ok \in BOOLEAN, W!SaveNetwork(ok) PROVE ServerTypes'
  <2>1. fx # <<>> /\ requests' = requests /\ (fx' = Tail(fx) \/ fx' = <<>>) /\ UNCHANGED <<up, acked, stream>> /\ up
    BY <1>5 DEF W!SaveNetwork, W!Do
  <2>2. failures' \in Nat
    BY <1>5 DEF W!SaveNetwork, W!Writes, ServerTypes
  <2>3. mem' = [mem EXCEPT !.networks[Head(fx).name] = W!V]
        /\ (disk' = [disk EXCEPT !.networks = mem'.networks] \/ disk' = disk)
    BY <1>5 DEF W!SaveNetwork
  <2>4. W!V \in Nat
    BY <2>1, FirstEffect, EffectIs DEF W!V, ServerTypes
  <2>5. mem' \in Kept /\ Bounded(mem')
    BY <2>3, <2>4 DEF ServerTypes, Kept, Bounded
  <2>6. disk' \in Kept /\ Bounded(disk')
    BY <2>3, <2>5 DEF ServerTypes, Kept, Bounded
  <2>7. fx' \in Seq(Effect)
    <3>1. <<>> \in Seq(Effect)
      OBVIOUS
    <3> QED BY <2>1, <3>1, FirstEffect
  <2> QED BY <1>0, <2>1, <2>2, <2>5, <2>6, <2>7 DEF ServerTypes, Bounded
<1>6. CASE W!Acknowledge
  <2>1. fx # <<>> /\ fx' = Tail(fx) /\ UNCHANGED <<up, mem, disk, stream, requests, failures>> /\ up
        /\ acked' = [acked EXCEPT ![Head(fx).name] = W!V]
    BY <1>6 DEF W!Acknowledge, W!Do, W!counts
  <2>2. W!V \in Nat
    BY <2>1, FirstEffect, EffectIs DEF W!V, ServerTypes
  <2> QED BY <1>0, <2>1, <2>2, FirstEffect DEF ServerTypes, Bounded
<1>7. ASSUME NEW ok \in BOOLEAN, W!RecordActivity(ok) PROVE ServerTypes'
  <2>1. fx # <<>> /\ requests' = requests /\ fx' = Tail(fx) /\ UNCHANGED <<up, acked, stream>> /\ up
    BY <1>7 DEF W!RecordActivity, W!Do
  <2>2. failures' \in Nat
    BY <1>7 DEF W!RecordActivity, W!Writes, ServerTypes
  <2>3. W!V \in Nat
    BY <2>1, FirstEffect, EffectIs DEF W!V, ServerTypes
  <2> DEFINE a == W!Bound(Append(mem.activity, W!V), MaxEntries)
  <2>4. a \in Seq(Nat) /\ Len(a) <= MaxEntries
    BY <2>3, BoundAppended DEF ServerTypes, Kept
  <2>5. mem' = [mem EXCEPT !.activity = a] /\ (disk' = [disk EXCEPT !.activity = mem'.activity] \/ disk' = disk)
    BY <1>7 DEF W!RecordActivity
  <2> HIDE DEF a
  <2>6. mem' \in Kept /\ Bounded(mem') /\ mem'.activity = a
    BY <2>4, <2>5 DEF ServerTypes, Kept, Bounded
  <2>7. disk' \in Kept /\ Bounded(disk')
    BY <2>4, <2>5, <2>6 DEF ServerTypes, Kept, Bounded
  <2> QED BY <1>0, <2>1, <2>2, <2>6, <2>7, FirstEffect DEF ServerTypes, Bounded
<1>8. CASE W!RecordArtifact
  <2>1. fx # <<>> /\ fx' = Tail(fx) /\ UNCHANGED <<up, disk, stream, acked, requests, failures>> /\ up
        /\ mem' = [mem EXCEPT !.artifacts = @ \cup {W!V}]
    BY <1>8 DEF W!RecordArtifact, W!Do, W!counts
  <2>2. W!V \in Nat
    BY <2>1, FirstEffect, EffectIs DEF W!V, ServerTypes
  <2>3. mem' \in Kept /\ Bounded(mem')
    BY <2>1, <2>2 DEF ServerTypes, Kept, Bounded
  <2> QED BY <1>0, <2>1, <2>3, FirstEffect DEF ServerTypes, Bounded
<1>9. CASE W!Worker \/ W!WorkerFails \/ W!ClientGone \/ W!Abandon
  <2>1. UNCHANGED <<up, mem, disk, fx, acked, requests>> /\ up
    BY <1>9 DEF W!Worker, W!WorkerFails, W!ClientGone, W!Abandon, W!counts
  <2>2. failures' \in Nat
    BY <1>9 DEF W!Worker, W!WorkerFails, W!ClientGone, W!Abandon, W!counts, ServerTypes
  <2> QED BY <1>0, <2>1, <2>2 DEF ServerTypes, Bounded
<1>10. CASE W!Take
  <2>1. UNCHANGED <<up, mem, disk, acked, requests, failures>> /\ up
        /\ (fx' = fx \/ fx' = W!ModelTurn(requests))
    BY <1>10 DEF W!Take, W!EndStream, W!counts
  <2>2. W!ModelTurn(requests) \in Seq(Effect)
    BY DEF W!ModelTurn, W!Fx, Effect
  <2> QED BY <1>0, <2>1, <2>2 DEF ServerTypes, Bounded
<1>11. CASE W!Killed \/ W!Interrupted
  <2>1. up' = FALSE /\ mem' = W!Empty /\ fx' = <<>> /\ stream' = W!NoStream
        /\ UNCHANGED <<acked, requests, failures>>
        /\ (disk' = disk \/ disk' = [disk EXCEPT !.artifacts = mem.artifacts])
    BY <1>11 DEF W!Killed, W!Interrupted
  <2>2. disk' \in Kept /\ Bounded(disk')
    BY <2>1 DEF ServerTypes, Kept, Bounded
  <2>3. W!Empty' = W!Empty /\ W!NoStream' = W!NoStream
    BY DEF W!Empty, W!NoStream
  <2>4. <<>> \in Seq(Effect')
    OBVIOUS
  <2> QED BY <2>1, <2>2, <2>3, <2>4, EmptyIs DEF ServerTypes, Bounded
<1>12. CASE W!Start
  <2>1. up' = TRUE /\ mem' = disk /\ UNCHANGED <<disk, fx, stream, acked, requests, failures>>
    BY <1>12 DEF W!Start, W!counts
  <2> QED BY <1>0, <2>1 DEF ServerTypes, Bounded
<1> QED
  BY <1>1, <1>2, <1>3, <1>4, <1>5, <1>6, <1>7, <1>8, <1>9, <1>10, <1>11, <1>12 DEF W!Next, W!Serving

-----------------------------------------------------------------------------
(* Saves and acknowledgements *)

\* A request none of whose effects is an acknowledgement.
LEMMA NoAck ==
  ASSUME NEW a, NEW b, a.op # "ack", b.op # "ack",
         fx' = <<>> \/ fx' = <<a>> \/ fx' = <<a, b>>
  PROVE  AckAfterSave'
<1>1. \A i \in DOMAIN fx' : fx'[i] = a \/ fx'[i] = b
  OBVIOUS
<1> QED BY <1>1 DEF AckAfterSave

\* A save followed by its acknowledgement.
LEMMA SaveThenAck ==
  ASSUME NEW a, NEW b, a.op = "network", b.name = a.name, fx' = <<a, b>>
  PROVE  AckAfterSave'
<1>1. DOMAIN fx' = {1, 2} /\ fx'[1] = a /\ fx'[2] = b /\ 2 - 1 = 1
  OBVIOUS
<1>2. a.op # "ack"
  OBVIOUS
<1> QED BY <1>1, <1>2 DEF AckAfterSave

LEMMA FxIs ==
  ASSUME NEW op, NEW v
  PROVE  W!Fx(op, v).op = op
BY DEF W!Fx

LEMMA AckKept ==
  ASSUME ServerTypes, AckAfterSave, W!Next
  PROVE  AckAfterSave'
<1>1. CASE W!Serve
  <2> DEFINE v == requests + 1
  <2>1. fx' \in {W!ModelTurn(v), W!RunProvision(v), W!ClearHistory(v)}
               \cup {W!RunPlan(v, ok) : ok \in BOOLEAN} \cup {W!RunVerified(v, ok) : ok \in BOOLEAN}
               \cup {W!NetworkSave(n, v) : n \in NetNames}
    BY <1>1 DEF W!Serve
  <2> HIDE DEF v
  <2>2. CASE fx' \in {W!ModelTurn(v), W!RunProvision(v), W!ClearHistory(v)}
    BY <2>2, NoAck, FxIs DEF W!ModelTurn, W!RunProvision, W!ClearHistory
  <2>3. ASSUME NEW ok \in BOOLEAN, fx' = W!RunPlan(v, ok) PROVE AckAfterSave'
    <3> DEFINE a == W!Fx("activity", v)
    <3> DEFINE b == W!Fx("artifact", v)
    <3>1. fx' = <<a>> \o <<b>> \/ fx' = <<a>> \o <<>>
      BY <2>3 DEF W!RunPlan
    <3>2. a.op # "ack" /\ b.op # "ack"
      BY FxIs
    <3> HIDE DEF a, b
    <3> DEFINE S == {e \in {a, b} : e.op # "ack"}
    <3>3. <<a>> \in Seq(S) /\ <<b>> \in Seq(S) /\ <<>> \in Seq(S)
      BY <3>2
    <3> HIDE DEF S
    <3>4. fx' \in Seq(S)
      BY <3>1, <3>3, ConcatProperties
    <3>5. \A i \in DOMAIN fx' : fx'[i] \in S
      BY <3>4
    <3>6. \A i \in DOMAIN fx' : fx'[i].op # "ack"
      BY <3>5 DEF S
    <3> QED BY <3>6 DEF AckAfterSave
  <2>4. ASSUME NEW ok \in BOOLEAN, fx' = W!RunVerified(v, ok) PROVE AckAfterSave'
    <3> DEFINE a == W!Fx("activity", v)
    <3>1. fx' = <<>> \/ fx' = <<a>>
      BY <2>4 DEF W!RunVerified
    <3>2. a.op # "ack"
      BY FxIs
    <3> HIDE DEF a
    <3>3. fx' = <<>> \/ fx' = <<a>> \/ fx' = <<a, a>>
      BY <3>1
    <3> QED BY <3>2, <3>3, NoAck
  <2>5. ASSUME NEW n \in NetNames, fx' = W!NetworkSave(n, v) PROVE AckAfterSave'
    BY <2>5, SaveThenAck DEF W!NetworkSave
  <2> QED BY <2>1, <2>2, <2>3, <2>4, <2>5
<1>2. ASSUME fx # <<>>, fx' = Tail(fx), Head(fx).op = "network" => disk'.networks[Head(fx).name] >= W!V
      PROVE AckAfterSave'
  <2> SUFFICES ASSUME NEW i \in DOMAIN fx', fx'[i].op = "ack"
               PROVE  IF i = 1 THEN disk'.networks[fx'[i].name] >= fx'[i].v
                      ELSE fx'[i - 1].op = "network" /\ fx'[i - 1].name = fx'[i].name
    BY DEF AckAfterSave
  <2>1. i + 1 \in DOMAIN fx /\ fx'[i] = fx[i + 1] /\ i \in Nat \ {0}
    BY <1>2, FirstEffect
  <2>2. fx[i].op = "network" /\ fx[i].name = fx[i + 1].name
    BY <2>1 DEF AckAfterSave
  <2>3. fx[i + 1] \in Effect /\ fx[1] \in Effect /\ Head(fx) = fx[1]
    BY <1>2, <2>1, FirstEffect, ElementOfSeq DEF ServerTypes
  <2>4. CASE i = 1
    BY <1>2, <2>1, <2>2, <2>3, <2>4, EffectIs DEF W!V
  <2>5. CASE i # 1
    <3>1. i - 1 \in DOMAIN fx'
      BY <1>2, <2>1, <2>5, HeadTailProperties DEF ServerTypes
    <3>2. fx'[i - 1] = fx[i]
      BY <1>2, <2>1, <3>1, FirstEffect
    <3> QED BY <2>1, <2>2, <2>5, <3>2
  <2> QED BY <2>4, <2>5
<1>3. CASE \E ok \in BOOLEAN : W!AppendHistory(ok) \/ W!DoClear(ok) \/ W!RecordActivity(ok)
  <2>1. fx # <<>> /\ fx' = Tail(fx) /\ Head(fx).op # "network"
    BY <1>3 DEF W!AppendHistory, W!DoClear, W!RecordActivity, W!Do
  <2> QED BY <1>2, <2>1
<1>4. ASSUME NEW ok \in BOOLEAN, W!SaveNetwork(ok) PROVE AckAfterSave'
  <2>1. fx # <<>> /\ Head(fx).op = "network" /\ mem' = [mem EXCEPT !.networks[Head(fx).name] = W!V]
        /\ IF ok THEN disk' = [disk EXCEPT !.networks = mem'.networks] /\ fx' = Tail(fx) ELSE fx' = <<>>
    BY <1>4 DEF W!SaveNetwork, W!Do
  <2>2. CASE ~ok
    BY <2>1, <2>2 DEF AckAfterSave
  <2>3. CASE ok
    <3>1. Head(fx).name \in NetNames /\ W!V \in Nat
      BY <2>1, FirstEffect, EffectIs DEF W!V, ServerTypes
    <3>2. disk'.networks[Head(fx).name] = W!V
      BY <2>1, <2>3, <3>1 DEF ServerTypes, Kept
    <3> QED BY <1>2, <2>1, <2>3, <3>1, <3>2
  <2> QED BY <2>2, <2>3
<1>5. CASE W!Acknowledge \/ W!RecordArtifact
  <2>1. fx # <<>> /\ fx' = Tail(fx) /\ Head(fx).op # "network"
    BY <1>5 DEF W!Acknowledge, W!RecordArtifact, W!Do
  <2> QED BY <1>2, <2>1
<1>6. CASE W!Take
  <2>1. (fx' = fx \/ fx' = W!ModelTurn(requests)) /\ disk' = disk
    BY <1>6 DEF W!Take, W!EndStream
  <2>2. CASE fx' = W!ModelTurn(requests)
    BY <2>2, NoAck, FxIs DEF W!ModelTurn
  <2> QED BY <2>1, <2>2 DEF AckAfterSave
<1>7. CASE UNCHANGED <<fx, disk>>
  BY <1>7 DEF AckAfterSave
<1>8. CASE fx' = <<>>
  BY <1>8 DEF AckAfterSave
<1>9. CASE (\E r \in Replies : W!StreamModel(r)) \/ W!Worker \/ W!WorkerFails \/ W!ClientGone \/ W!Abandon \/ W!Start
  <2>1. UNCHANGED <<fx, disk>>
    BY <1>9 DEF W!StreamModel, W!Worker, W!WorkerFails, W!ClientGone, W!Abandon, W!Start
  <2> QED BY <1>7, <2>1
<1>10. CASE W!Killed \/ W!Interrupted
  <2>1. fx' = <<>>
    BY <1>10 DEF W!Killed, W!Interrupted
  <2> QED BY <1>8, <2>1
<1> QED BY <1>1, <1>3, <1>4, <1>5, <1>6, <1>9, <1>10 DEF W!Next, W!Serving

LEMMA VersionsKept ==
  ASSUME ServerTypes, AckAfterSave, Versions, W!Next
  PROVE  Versions'
<1>0. requests \in Nat /\ acked \in [NetNames -> Nat] /\ disk.networks \in [NetNames -> Nat]
      /\ mem.networks \in [NetNames -> Nat]
  BY DEF ServerTypes, Kept
<1>1. CASE W!Serve \/ \E r \in Replies : W!StreamModel(r)
  <2>1. requests' = requests + 1 /\ UNCHANGED <<up, mem, disk, acked>>
    BY <1>1 DEF W!Serve, W!StreamModel
  <2> QED BY <1>0, <2>1 DEF Versions
<1>2. ASSUME NEW ok \in BOOLEAN, W!AppendHistory(ok) \/ W!DoClear(ok) \/ W!RecordActivity(ok)
      PROVE  Versions'
  <2>1. mem'.networks = mem.networks /\ disk'.networks = disk.networks /\ UNCHANGED <<up, acked, requests>>
    BY <1>2 DEF W!AppendHistory, W!DoClear, W!RecordActivity, ServerTypes, Kept
  <2> QED BY <2>1 DEF Versions
<1>3. CASE W!RecordArtifact
  <2>1. mem'.networks = mem.networks /\ disk' = disk /\ UNCHANGED <<up, acked, requests>>
    BY <1>3 DEF W!RecordArtifact, ServerTypes, Kept, W!counts
  <2> QED BY <2>1 DEF Versions
<1>4. ASSUME NEW ok \in BOOLEAN, W!SaveNetwork(ok) PROVE Versions'
  <2>1. fx # <<>> /\ up /\ mem' = [mem EXCEPT !.networks[Head(fx).name] = W!V]
        /\ (disk' = [disk EXCEPT !.networks = mem'.networks] \/ disk' = disk)
        /\ UNCHANGED <<up, acked, requests>>
    BY <1>4 DEF W!SaveNetwork, W!Do
  <2>2. W!V = requests
    BY <2>1, FirstEffect, EffectIs DEF W!V
  <2>3. mem'.networks = [mem.networks EXCEPT ![Head(fx).name] = requests]
        /\ (disk'.networks = mem'.networks \/ disk' = disk)
    BY <2>1, <2>2 DEF ServerTypes, Kept
  <2> QED BY <1>0, <2>1, <2>3 DEF Versions
<1>5. CASE W!Acknowledge
  <2>1. fx # <<>> /\ Head(fx).op = "ack" /\ acked' = [acked EXCEPT ![Head(fx).name] = W!V]
        /\ UNCHANGED <<up, mem, disk, requests>>
    BY <1>5 DEF W!Acknowledge, W!Do, W!counts
  <2>2. disk.networks[Head(fx).name] >= W!V
    BY <2>1, FirstEffect DEF AckAfterSave, W!V
  <2> QED BY <1>0, <2>1, <2>2 DEF Versions
<1>6. CASE W!Worker \/ W!Take \/ W!Abandon \/ W!WorkerFails \/ W!ClientGone
  <2>1. UNCHANGED <<up, mem, disk, acked, requests>>
    BY <1>6 DEF W!Worker, W!Take, W!Abandon, W!WorkerFails, W!ClientGone, W!counts
  <2> QED BY <2>1 DEF Versions
<1>7. CASE W!Killed \/ W!Interrupted
  <2>1. up' = FALSE /\ disk'.networks = disk.networks /\ UNCHANGED <<acked, requests>>
    BY <1>7 DEF W!Killed, W!Interrupted, ServerTypes, Kept
  <2> QED BY <2>1 DEF Versions
<1>8. CASE W!Start
  <2>1. mem' = disk /\ UNCHANGED <<disk, acked, requests>>
    BY <1>8 DEF W!Start, W!counts
  <2> QED BY <1>0, <2>1 DEF Versions
<1> QED BY <1>1, <1>2, <1>3, <1>4, <1>5, <1>6, <1>7, <1>8 DEF W!Next, W!Serving

LEMMA AgreeKept ==
  ASSUME ServerTypes, Agree, W!Next
  PROVE  Agree'
<1>1. ASSUME NEW ok \in BOOLEAN,
             W!AppendHistory(ok) \/ W!DoClear(ok) \/ W!SaveNetwork(ok) \/ W!RecordActivity(ok)
      PROVE  Agree'
  <2>1. up /\ up' = up /\ W!Writes(ok) /\ failures \in Nat
    BY <1>1 DEF W!AppendHistory, W!DoClear, W!SaveNetwork, W!RecordActivity, W!Do, ServerTypes
  <2>2. CASE ~ok
    <3>1. failures' # 0
      BY <2>1, <2>2 DEF W!Writes
    <3> QED BY <3>1 DEF Agree
  <2>3. CASE ok
    <3>1. failures' = failures
      BY <2>1, <2>3 DEF W!Writes
    <3>2. CASE W!AppendHistory(ok)
      <4> DEFINE bound(s) == W!Bound(Append(s, W!V), MaxTurns)
      <4>1. mem' = [mem EXCEPT !.history = bound(mem.history)]
            /\ disk' = [disk EXCEPT !.history = bound(disk.history)]
        BY <2>3, <3>2 DEF W!AppendHistory
      <4> HIDE DEF bound
      <4> QED BY <2>1, <3>1, <4>1 DEF Agree, ServerTypes, Kept
    <3>3. CASE W!DoClear(ok)
      <4>1. mem' = [mem EXCEPT !.history = <<>>] /\ disk' = [disk EXCEPT !.history = <<>>]
        BY <2>3, <3>3 DEF W!DoClear
      <4> QED BY <2>1, <3>1, <4>1 DEF Agree, ServerTypes, Kept
    <3>4. CASE W!SaveNetwork(ok)
      <4>1. mem' = [mem EXCEPT !.networks[Head(fx).name] = W!V]
            /\ disk' = [disk EXCEPT !.networks = mem'.networks]
        BY <2>3, <3>4 DEF W!SaveNetwork
      <4> QED BY <2>1, <3>1, <4>1 DEF Agree, ServerTypes, Kept
    <3>5. CASE W!RecordActivity(ok)
      <4> DEFINE a == W!Bound(Append(mem.activity, W!V), MaxEntries)
      <4>1. mem' = [mem EXCEPT !.activity = a] /\ disk' = [disk EXCEPT !.activity = mem'.activity]
        BY <2>3, <3>5 DEF W!RecordActivity
      <4> HIDE DEF a
      <4> QED BY <2>1, <3>1, <4>1 DEF Agree, ServerTypes, Kept
    <3> QED BY <1>1, <3>2, <3>3, <3>4, <3>5
  <2> QED BY <2>2, <2>3
<1>2. CASE W!RecordArtifact
  BY <1>2 DEF W!RecordArtifact, W!counts, Agree, ServerTypes, Kept
<1>3. CASE W!Start
  BY <1>3 DEF W!Start, Agree
<1>4. CASE W!Killed \/ W!Interrupted
  BY <1>4 DEF W!Killed, W!Interrupted, Agree
<1>5. CASE W!Serve \/ (\E r \in Replies : W!StreamModel(r)) \/ W!Acknowledge \/ W!Worker \/ W!Take \/ W!Abandon
  BY <1>5 DEF W!Serve, W!StreamModel, W!Acknowledge, W!Worker, W!Take, W!Abandon, W!counts, Agree
<1>6. CASE W!WorkerFails \/ W!ClientGone
  <2>1. failures' = failures + 1 /\ failures \in Nat
    BY <1>6 DEF W!WorkerFails, W!ClientGone, ServerTypes
  <2> QED BY <2>1 DEF Agree
<1> QED BY <1>1, <1>2, <1>3, <1>4, <1>5, <1>6 DEF W!Next, W!Serving

-----------------------------------------------------------------------------
(* The streamed reply *)

\* What is left of a sequence from its k-th element on.
LEMMA RestOf ==
  ASSUME NEW S, NEW f \in Seq(S), NEW k \in 1..(Len(f) + 1), NEW t, t = SubSeq(f, k, Len(f))
  PROVE  /\ t \in Seq(S)
         /\ t # <<>> => k <= Len(f) /\ Head(t) = f[k] /\ Tail(t) = SubSeq(f, k + 1, Len(f))
         /\ t = <<>> => k = Len(f) + 1
<1>1. \A i \in k..Len(f) : f[i] \in S
  BY ElementOfSeq
<1>2. t \in Seq(S) /\ Len(t) = (IF k <= Len(f) THEN Len(f) - k + 1 ELSE 0)
      /\ \A i \in 1..(Len(f) - k + 1) : t[i] = f[k + i - 1]
  BY <1>1, SubSeqProperties
<1>3. ASSUME t # <<>> PROVE k <= Len(f) /\ Head(t) = f[k] /\ Tail(t) = SubSeq(f, k + 1, Len(f))
  <2>1. Len(t) # 0
    BY <1>2, <1>3, EmptySeq
  <2>2. k <= Len(f) /\ k \in Nat /\ Len(f) \in Nat
    BY <1>2, <2>1
  <2>3. Head(t) = t[1] /\ Tail(t) \in Seq(S) /\ Len(Tail(t)) = Len(f) - k
        /\ \A i \in 1..(Len(f) - k) : Tail(t)[i] = t[i + 1]
    BY <1>2, <1>3, <2>2, HeadTailProperties
  <2>4. Head(t) = f[k]
    BY <1>2, <2>2, <2>3
  <2>5. /\ SubSeq(f, k + 1, Len(f)) \in Seq(S) /\ Len(SubSeq(f, k + 1, Len(f))) = Len(f) - k
        /\ \A i \in 1..(Len(f) - k) : SubSeq(f, k + 1, Len(f))[i] = f[k + i]
    <3>1. \A i \in (k + 1)..Len(f) : f[i] \in S
      BY <1>1, <2>2
    <3>2. k + 1 \in 1..(Len(f) + 1) /\ Len(f) \in k..Len(f)
      BY <2>2
    <3> QED BY <2>2, <3>1, <3>2, SubSeqProperties
  <2>6. \A i \in 1..(Len(f) - k) : Tail(t)[i] = SubSeq(f, k + 1, Len(f))[i]
    <3> SUFFICES ASSUME NEW i \in 1..(Len(f) - k) PROVE Tail(t)[i] = SubSeq(f, k + 1, Len(f))[i]
      OBVIOUS
    <3>1. i + 1 \in 1..(Len(f) - k + 1) /\ k + (i + 1) - 1 = k + i
      BY <2>2
    <3> QED BY <1>2, <2>3, <2>5, <3>1
  <2>7. Tail(t) = SubSeq(f, k + 1, Len(f))
    BY <2>3, <2>5, <2>6, SeqEqual
  <2> QED BY <2>2, <2>4, <2>7
<1>4. ASSUME t = <<>> PROVE k = Len(f) + 1
  BY <1>2, <1>4
<1> QED BY <1>2, <1>3, <1>4

\* The first n elements and the next one are the first n + 1.
LEMMA NextOf ==
  ASSUME NEW S, NEW f \in Seq(S), NEW n \in Nat, n < Len(f)
  PROVE  /\ Append(SubSeq(f, 1, n), f[n + 1]) = SubSeq(f, 1, n + 1)
         /\ Append(SubSeq(f, 1, n), f[n + 1]) \in Seq(S)
         /\ Len(Append(SubSeq(f, 1, n), f[n + 1])) = n + 1
<1>1. /\ SubSeq(f, 1, n) \in Seq(S) /\ Len(SubSeq(f, 1, n)) = n
      /\ \A i \in 1..n : SubSeq(f, 1, n)[i] = f[i]
  <2>1. \A i \in 1..n : f[i] \in S
    BY ElementOfSeq
  <2>2. 1 \in 1..(n + 1) /\ n \in 0..n /\ n - 1 + 1 = n /\ \A i \in 1..n : 1 + i - 1 = i
    OBVIOUS
  <2> QED BY <2>1, <2>2, SubSeqProperties
<1>2. /\ SubSeq(f, 1, n + 1) \in Seq(S) /\ Len(SubSeq(f, 1, n + 1)) = n + 1
      /\ \A i \in 1..(n + 1) : SubSeq(f, 1, n + 1)[i] = f[i]
  <2>1. \A i \in 1..(n + 1) : f[i] \in S
    BY ElementOfSeq
  <2>2. n + 1 \in 0..(n + 1) /\ 1 \in 1..(n + 2) /\ \A i \in 1..(n + 1) : 1 + i - 1 = i
    OBVIOUS
  <2> QED BY <2>1, <2>2, SubSeqProperties
<1>3. f[n + 1] \in S
  BY ElementOfSeq
<1> DEFINE a == Append(SubSeq(f, 1, n), f[n + 1])
<1>4. a \in Seq(S) /\ Len(a) = n + 1 /\ a[n + 1] = f[n + 1]
      /\ \A i \in 1..n : a[i] = SubSeq(f, 1, n)[i]
  BY <1>1, <1>3, AppendProperties
<1> HIDE DEF a
<1>5. \A i \in 1..(n + 1) : a[i] = f[i]
  BY <1>1, <1>4
<1>6. a = SubSeq(f, 1, n + 1)
  BY <1>2, <1>4, <1>5, SeqEqual
<1> QED BY <1>4, <1>6 DEF a

LEMMA WholeOf ==
  ASSUME NEW S, NEW f \in Seq(S)
  PROVE  SubSeq(f, 1, Len(f)) = f /\ SubSeq(f, 1, 0) = <<>>
OBVIOUS

LEMMA NoStreamFollows ==
  /\ stream = W!NoStream => StreamFollows
  /\ stream' = W!NoStream => StreamFollows'
<1> DEFINE none == <<>>
<1>1. /\ none \in Seq(W!Chunk) /\ none \in Seq(Event) /\ none \in Seq(Piece)
      /\ Len(none) = 0 /\ SubSeq(none, 1, 0) = none
  OBVIOUS
<1>2. W!NoStream = [on |-> FALSE, client |-> FALSE, todo |-> none, worker |-> "none",
                    queue |-> none, chunks |-> none, sent |-> none, full |-> none, end |-> "none"]
  BY DEF W!NoStream
<1>3. W!NoStream.queue = <<>>
  BY <1>2
<1>4. Streams' = Streams
  BY DEF Streams, Event, Piece, W!Chunk
<1> HIDE DEF none
<1>5. W!NoStream \in Streams
  BY <1>1, <1>2 DEF Streams
<1>6. stream = W!NoStream => Flow
  BY <1>1, <1>2, <1>3 DEF Flow
<1>7. stream' = W!NoStream => Flow'
  BY <1>1, <1>2, <1>3 DEF Flow
<1> QED BY <1>4, <1>5, <1>6, <1>7 DEF StreamFollows

\* The types of the stream's fields.
LEMMA StreamIs ==
  ASSUME StreamFollows
  PROVE  /\ stream.todo \in Seq(W!Chunk) /\ stream.full \in Seq(W!Chunk) /\ stream.sent \in Seq(W!Chunk)
         /\ stream.queue \in Seq(Event) /\ stream.chunks \in Seq(Piece)
         /\ Len(stream.sent) \in Nat /\ Len(stream.full) \in Nat
         /\ Streams' = Streams
<1>1. /\ stream.todo \in Seq(W!Chunk) /\ stream.full \in Seq(W!Chunk) /\ stream.sent \in Seq(W!Chunk)
      /\ stream.queue \in Seq(Event) /\ stream.chunks \in Seq(Piece)
  BY DEF StreamFollows, Streams
<1>2. Streams' = Streams
  BY DEF Streams, Event, Piece, W!Chunk
<1>3. Len(stream.sent) \in Nat /\ Len(stream.full) \in Nat
  BY <1>1, LenProperties
<1> QED BY <1>1, <1>2, <1>3

LEMMA StreamKept ==
  ASSUME ServerTypes, StreamFollows, W!Next
  PROVE  StreamFollows'
<1> USE StreamIs
<1>0. stream \in Streams /\ Flow
  BY DEF StreamFollows
<1>a. PICK n \in Nat, m \in Nat :
        /\ n = Len(stream.sent) /\ m = Len(stream.full) /\ n <= m
        /\ stream.queue = <<>> \/ Len(stream.queue) = 1
        /\ stream.sent = SubSeq(stream.full, 1, n)
        /\ stream.worker = "running" =>
             /\ stream.on
             /\ IF stream.queue = <<>> THEN stream.todo = SubSeq(stream.full, n + 1, m)
                ELSE n < m /\ stream.todo = SubSeq(stream.full, n + 2, m)
        /\ stream.queue # <<>> =>
             \/ stream.queue[1] = "error" /\ stream.worker = "none"
             \/ stream.queue[1] = "done" /\ stream.sent = stream.full /\ stream.worker = "none"
             \/ stream.worker = "running" /\ stream.queue[1] = stream.full[n + 1]
        /\ stream.end = "done" => stream.sent = stream.full
  BY <1>0 DEF Flow
<1>1. ASSUME NEW r \in Replies, W!StreamModel(r) PROVE StreamFollows'
  <2> DEFINE none == <<>>
  <2>1. stream' = [on |-> TRUE, client |-> TRUE, todo |-> r, worker |-> "running",
                   queue |-> none, chunks |-> none, sent |-> none, full |-> r, end |-> "none"]
    BY <1>1 DEF W!StreamModel, W!NoStream
  <2>2. r \in Seq(W!Chunk)
    BY ServerConstants DEF W!ConstantsOK
  <2>3. /\ none \in Seq(W!Chunk) /\ none \in Seq(Event) /\ none \in Seq(Piece) /\ Len(none) = 0
    OBVIOUS
  <2>4. SubSeq(r, 1, 0) = none /\ SubSeq(r, 1, Len(r)) = r /\ Len(r) \in Nat
    BY <2>2, WholeOf
  <2>5. stream'.queue = <<>>
    BY <2>1
  <2> HIDE DEF none
  <2>6. stream' \in Streams
    BY <2>1, <2>2, <2>3 DEF Streams
  <2>7. Flow'
    BY <2>1, <2>3, <2>4, <2>5 DEF Flow
  <2> QED BY <2>6, <2>7 DEF StreamFollows
<1>2. CASE W!Worker
  <2>1. stream.worker = "running" /\ stream.queue = <<>>
        /\ stream' = IF stream.todo # <<>>
                     THEN [stream EXCEPT !.queue = <<Head(stream.todo)>>, !.todo = Tail(stream.todo)]
                     ELSE [stream EXCEPT !.queue = <<"done">>, !.worker = "none",
                                         !.chunks = Append(stream.chunks, "full")]
    BY <1>2 DEF W!Worker
  <2>2. PICK k \in Nat : k = n + 1
    BY <1>a
  <2>3. stream.on /\ stream.todo = SubSeq(stream.full, n + 1, m)
    BY <1>a, <2>1
  <2>k. k \in 1..(Len(stream.full) + 1) /\ stream.todo = SubSeq(stream.full, k, Len(stream.full))
    <3>1. k \in 1..(m + 1)
      BY <1>a, <2>2
    <3> QED BY <1>a, <2>2, <2>3, <3>1
  <2>4. CASE stream.todo # <<>>
    <3>1. PICK h, rest, q : h = Head(stream.todo) /\ rest = Tail(stream.todo) /\ q = <<h>>
      OBVIOUS
    <3>2. n + 1 <= m /\ h = stream.full[n + 1] /\ rest = SubSeq(stream.full, n + 2, m)
      <4>1. n + 1 <= m /\ h = stream.full[n + 1] /\ rest = SubSeq(stream.full, n + 1 + 1, m)
        <5>1. k <= m /\ h = stream.full[k] /\ rest = SubSeq(stream.full, k + 1, m)
          BY <2>4, <2>k, <3>1, RestOf, <1>a
        <5> QED BY <2>2, <5>1
      <4> QED BY <4>1
    <3>3. h \in W!Chunk /\ rest \in Seq(W!Chunk)
      BY <2>4, <3>1, HeadTailProperties
    <3>4. q \in Seq(Event) /\ Len(q) = 1 /\ q # <<>> /\ q[1] = h
      BY <3>1, <3>3 DEF Event
    <3>5. stream' = [stream EXCEPT !.queue = q, !.todo = rest]
      BY <2>1, <2>4, <3>1
    <3>6. stream' \in Streams
      BY <1>0, <3>3, <3>4, <3>5 DEF Streams
    <3>7. /\ stream'.queue = q /\ stream'.todo = rest /\ stream'.worker = "running" /\ stream'.on = stream.on
          /\ stream'.sent = stream.sent /\ stream'.full = stream.full /\ stream'.end = stream.end
      BY <1>0, <2>1, <3>5 DEF Streams
    <3>8. Flow'
      <4>1. n < m
        BY <3>2
      <4> QED BY <1>a, <2>3, <3>2, <3>4, <3>7, <4>1 DEF Flow
    <3> QED BY <3>6, <3>8 DEF StreamFollows
  <2>5. CASE stream.todo = <<>>
    <3>1. PICK q, c : q = <<"done">> /\ c = Append(stream.chunks, "full")
      OBVIOUS
    <3>2. stream' = [stream EXCEPT !.queue = q, !.worker = "none", !.chunks = c]
      BY <2>1, <2>5, <3>1
    <3>3. q \in Seq(Event) /\ Len(q) = 1 /\ q[1] = "done"
      BY <3>1 DEF Event
    <3>4. c \in Seq(Piece)
      BY <3>1, AppendProperties DEF Piece
    <3>5. n = m
      <4>1. n + 1 = m + 1
        <5>1. k = m + 1
          BY <2>5, <2>k, RestOf, <1>a
        <5> QED BY <2>2, <5>1
      <4> QED BY <4>1
    <3>6. stream.sent = stream.full
      BY <1>a, <3>5, WholeOf
    <3>7. stream' \in Streams
      BY <1>0, <3>2, <3>3, <3>4 DEF Streams
    <3>8. /\ stream'.queue = q /\ stream'.worker = "none"
          /\ stream'.sent = stream.sent /\ stream'.full = stream.full /\ stream'.end = stream.end
      BY <1>0, <3>2 DEF Streams
    <3>9. Flow'
      BY <1>a, <3>3, <3>6, <3>8 DEF Flow
    <3> QED BY <3>7, <3>9 DEF StreamFollows
  <2> QED BY <2>4, <2>5
<1>3. CASE W!WorkerFails
  <2>1. PICK q : q = <<"error">>
    OBVIOUS
  <2>2. stream' = [stream EXCEPT !.queue = q, !.worker = "none"]
    BY <1>3, <2>1 DEF W!WorkerFails
  <2>3. q \in Seq(Event) /\ Len(q) = 1 /\ q[1] = "error"
    BY <2>1 DEF Event
  <2>4. stream' \in Streams
    BY <1>0, <2>2, <2>3 DEF Streams
  <2>5. /\ stream'.queue = q /\ stream'.worker = "none"
        /\ stream'.sent = stream.sent /\ stream'.full = stream.full /\ stream'.end = stream.end
    BY <1>0, <2>2 DEF Streams
  <2>6. Flow'
    BY <1>a, <2>3, <2>5 DEF Flow
  <2> QED BY <2>4, <2>6 DEF StreamFollows
<1>4. CASE W!Take
  <2>1. PICK none, e : none = <<>> /\ e = Head(stream.queue)
    OBVIOUS
  <2>2. stream.queue # <<>> /\ stream.queue[1] = e
    BY <1>4, <2>1 DEF W!Take
  <2>3. none \in Seq(Event) /\ Len(none) = 0
    BY <2>1
  <2>4. CASE e = "error"
    <3>1. stream' = [stream EXCEPT !.on = FALSE, !.queue = none, !.sent = stream.sent, !.end = "error"]
      BY <1>4, <2>1, <2>4 DEF W!Take, W!EndStream
    <3>2. stream.worker # "running"
      <4>1. "error" \notin W!Chunk
        BY ServerConstants DEF W!ConstantsOK
      <4>2. stream.worker = "running" => n < m /\ stream.full[n + 1] \in W!Chunk
        BY <1>a, <2>2, ElementOfSeq
      <4> QED BY <1>a, <2>2, <2>4, <4>1, <4>2
    <3>3. stream' \in Streams
      BY <1>0, <2>3, <3>1 DEF Streams
    <3>4. /\ stream'.queue = none /\ stream'.worker = stream.worker
          /\ stream'.sent = stream.sent /\ stream'.full = stream.full /\ stream'.end = "error"
      BY <1>0, <3>1 DEF Streams
    <3>5. Flow'
      BY <1>a, <2>1, <3>2, <3>4 DEF Flow
    <3> QED BY <3>3, <3>5 DEF StreamFollows
  <2>5. CASE e = "done"
    <3>1. PICK s : s = IF stream.chunks = <<>> THEN stream.full ELSE stream.sent
      OBVIOUS
    <3>2. stream' = [stream EXCEPT !.on = FALSE, !.queue = none, !.sent = s, !.end = "done"]
      BY <1>4, <2>1, <2>5, <3>1 DEF W!Take, W!EndStream
    <3>3. stream.worker # "running" /\ s = stream.full
      <4>1. "done" \notin W!Chunk
        BY ServerConstants DEF W!ConstantsOK
      <4>2. stream.worker = "running" => n < m /\ stream.full[n + 1] \in W!Chunk
        BY <1>a, <2>2, ElementOfSeq
      <4> QED BY <1>a, <2>2, <2>5, <3>1, <4>1, <4>2
    <3>4. s = SubSeq(stream.full, 1, Len(s))
      BY <3>3, WholeOf
    <3>5. stream' \in Streams
      BY <1>0, <2>3, <3>2, <3>3 DEF Streams
    <3>6. /\ stream'.queue = none /\ stream'.worker = stream.worker
          /\ stream'.sent = s /\ stream'.full = stream.full
      BY <1>0, <3>2 DEF Streams
    <3>7. Flow'
      <4>1. Len(s) = m /\ m <= m
        BY <1>a, <3>3
      <4> QED BY <1>a, <2>1, <3>3, <3>4, <3>6, <4>1 DEF Flow
    <3> QED BY <3>5, <3>7 DEF StreamFollows
  <2>6. CASE e \notin {"error", "done"}
    <3>1. PICK s, c : s = Append(stream.sent, e) /\ c = Append(stream.chunks, e)
      OBVIOUS
    <3>2. stream' = [stream EXCEPT !.queue = none, !.sent = s, !.chunks = c]
      BY <1>4, <2>1, <2>6, <3>1 DEF W!Take, W!EndStream
    <3>3. stream.worker = "running" /\ e = stream.full[n + 1]
      BY <1>a, <2>2, <2>6
    <3>4. /\ n < m /\ n + 1 <= m /\ n + 2 = n + 1 + 1 /\ stream.on
          /\ stream.todo = SubSeq(stream.full, n + 2, m)
      <4>1. n < m /\ stream.on /\ stream.todo = SubSeq(stream.full, n + 2, m)
        BY <1>a, <2>2, <3>3
      <4>2. n + 1 <= m /\ n + 2 = n + 1 + 1
        BY <4>1
      <4> QED BY <4>1, <4>2
    <3>5. stream.sent = SubSeq(stream.full, 1, n)
      BY <1>a
    <3>6. s = SubSeq(stream.full, 1, n + 1) /\ s \in Seq(W!Chunk) /\ Len(s) = n + 1
      BY <1>a, <3>1, <3>3, <3>4, <3>5, NextOf
    <3>7. c \in Seq(Piece)
      <4>1. e \in W!Chunk
        BY <1>a, <3>3, <3>4, ElementOfSeq
      <4> QED BY <3>1, <4>1, AppendProperties DEF Piece
    <3>8. stream.end # "done"
      BY <1>a, <3>4
    <3>9. stream' \in Streams
      BY <1>0, <2>3, <3>2, <3>6, <3>7 DEF Streams
    <3>10. /\ stream'.queue = none /\ stream'.worker = "running" /\ stream'.on = stream.on
           /\ stream'.sent = s /\ stream'.full = stream.full /\ stream'.todo = stream.todo
           /\ stream'.end = stream.end
      BY <1>0, <3>2, <3>3 DEF Streams
    <3>11. Flow'
      BY <1>a, <2>1, <3>4, <3>6, <3>8, <3>10 DEF Flow
    <3> QED BY <3>9, <3>11 DEF StreamFollows
  <2> QED BY <2>4, <2>5, <2>6
<1>5. CASE W!ClientGone
  <2>1. stream' \in Streams
    BY <1>0, <1>5 DEF W!ClientGone, Streams
  <2>2. /\ stream'.queue = stream.queue /\ stream'.worker = stream.worker /\ stream'.on = stream.on
        /\ stream'.sent = stream.sent /\ stream'.full = stream.full /\ stream'.todo = stream.todo
        /\ stream'.end = stream.end
    BY <1>0, <1>5 DEF W!ClientGone, Streams
  <2> QED BY <1>0, <2>1, <2>2 DEF StreamFollows, Flow
<1>6. CASE W!Abandon
  <2>1. PICK none : none = <<>>
    OBVIOUS
  <2>2. none \in Seq(Event) /\ Len(none) = 0
    BY <2>1
  <2>3. stream' = [stream EXCEPT !.on = FALSE, !.queue = none, !.end = "gone", !.worker = "none"]
    BY <1>6, <2>1 DEF W!Abandon
  <2>4. stream' \in Streams
    BY <1>0, <2>2, <2>3 DEF Streams
  <2>5. /\ stream'.queue = none /\ stream'.worker = "none"
        /\ stream'.sent = stream.sent /\ stream'.full = stream.full /\ stream'.end = "gone"
    BY <1>0, <2>3 DEF Streams
  <2>6. Flow'
    BY <1>a, <2>1, <2>5 DEF Flow
  <2> QED BY <2>4, <2>6 DEF StreamFollows
<1>7. CASE W!Killed \/ W!Interrupted
  BY <1>7, NoStreamFollows DEF W!Killed, W!Interrupted
<1>8. CASE stream' = stream
  BY <1>0, <1>8 DEF StreamFollows, Flow
<1>9. CASE W!Serve \/ W!Acknowledge \/ W!RecordArtifact \/ W!Start
  <2>1. stream' = stream
    BY <1>9 DEF W!Serve, W!Acknowledge, W!RecordArtifact, W!Start
  <2> QED BY <1>8, <2>1
<1>10. ASSUME NEW ok \in BOOLEAN,
              W!AppendHistory(ok) \/ W!DoClear(ok) \/ W!SaveNetwork(ok) \/ W!RecordActivity(ok)
       PROVE  StreamFollows'
  <2>1. stream' = stream
    BY <1>10 DEF W!AppendHistory, W!DoClear, W!SaveNetwork, W!RecordActivity
  <2> QED BY <1>8, <2>1
<1> QED
  BY <1>1, <1>2, <1>3, <1>4, <1>5, <1>6, <1>7, <1>9, <1>10 DEF W!Next, W!Serving

-----------------------------------------------------------------------------
(* A behaviour is one of one host *)

HostsInv == host \in {"threads", "server"} /\ (host = "server" => ServerInv)

LEMMA ServerStarts ==
  ASSUME W!Init
  PROVE  ServerInv
<1>1. StreamFollows
  BY NoStreamFollows DEF W!Init
<1>2. ServerTypes
  <2>1. <<>> \in Seq(Effect)
    OBVIOUS
  <2> QED BY <2>1, EmptyIs DEF W!Init, ServerTypes
<1>3. AckAfterSave
  BY DEF W!Init, AckAfterSave
<1>4. Versions
  BY DEF W!Init, W!Empty, Versions
<1>5. Agree
  BY DEF W!Init, Agree
<1> QED BY <1>1, <1>2, <1>3, <1>4, <1>5 DEF ServerInv, W!Init

LEMMA ServerSteps ==
  ASSUME ServerInv, W!Next
  PROVE  ServerInv'
BY TypesKept, AckKept, VersionsKept, AgreeKept, StreamKept DEF ServerInv

LEMMA HostsInvariant == SpecHosts => []HostsInv
<1>1. InitHosts => HostsInv
  BY ServerStarts DEF InitHosts, HostsInv
<1>2. HostsInv /\ [NextHosts]_<<host, vars, server>> => HostsInv'
  <2> SUFFICES ASSUME HostsInv, [NextHosts]_<<host, vars, server>> PROVE HostsInv'
    OBVIOUS
  <2>1. CASE host = "threads" /\ Next /\ UNCHANGED <<host, server>>
    BY <2>1 DEF HostsInv
  <2>2. CASE host = "server" /\ W!Next /\ UNCHANGED <<host, vars>>
    BY <2>2, ServerSteps DEF HostsInv
  <2>3. CASE UNCHANGED <<host, vars, server>>
    <3>1. UNCHANGED <<host, server>>
      BY <2>3
    <3>2. ServerInv' <=> ServerInv
      BY <3>1 DEF server, ServerInv, ServerTypes, Bounded, Effect, AckAfterSave, Versions, Agree, StreamFollows,
                  Streams, Event, Piece, Flow, Kept, W!Empty, W!NoStream, W!Chunk
    <3> QED BY <3>1, <3>2 DEF HostsInv
  <2> QED BY <2>1, <2>2, <2>3 DEF NextHosts
<1> QED BY <1>1, <1>2, PTL DEF SpecHosts

-----------------------------------------------------------------------------
(* The chunks a client is sent are the reply's, in order and without gaps,   *)
(* and all of them when the stream is done, for every reply and whatever the *)
(* worker, the handler and the client do when (_stream_model of cbp/web.py). *)
THEOREM ReplyStreamedOnce == SpecHosts => []StreamedOnce
<1>1. HostsInv => StreamedOnce
  <2> SUFFICES ASSUME ServerInv PROVE W!TypeOK /\ W!StreamIsReply
    BY DEF HostsInv, StreamedOnce
  <2>1. W!StreamIsReply
    BY DEF ServerInv, StreamFollows, Flow, W!StreamIsReply
  <2>2. stream.worker \in {"none", "running"} /\ Len(stream.queue) <= 1
    <3>1. Len(<<>>) <= 1 /\ 1 <= 1
      OBVIOUS
    <3>2. stream.worker \in {"none", "running"} /\ (stream.queue = <<>> \/ Len(stream.queue) = 1)
      BY DEF ServerInv, StreamFollows, Streams, Flow
    <3> QED BY <3>1, <3>2
  <2>3. \A s \in {mem, disk} : s \in Kept /\ Bounded(s)
    BY DEF ServerInv, ServerTypes
  <2> QED BY <2>1, <2>2, <2>3 DEF ServerInv, ServerTypes, W!TypeOK, Kept, Bounded
<1> QED BY <1>1, HostsInvariant, PTL

(* A network whose save was acknowledged is on disk in that version or a     *)
(* later one, and as long as no write failed a restart shows the history,    *)
(* networks and feed the page showed: through every kill, interrupt, restart *)
(* and failed write (_network_save, _append_history, ActivityFeed._save).    *)
THEOREM DiskHoldsState == SpecHosts => []DiskKeepsState
<1>1. HostsInv => DiskKeepsState
  <2> SUFFICES ASSUME ServerInv PROVE W!AckedNetworkOnDisk /\ W!RestartShowsTheSame
    BY DEF HostsInv, DiskKeepsState
  <2>1. W!AckedNetworkOnDisk
    BY DEF ServerInv, Versions, W!AckedNetworkOnDisk, ServerTypes, Kept
  <2>2. W!RestartShowsTheSame
    BY DEF ServerInv, Agree, W!RestartShowsTheSame
  <2> QED BY <2>1, <2>2
<1> QED BY <1>1, HostsInvariant, PTL
=============================================================================
