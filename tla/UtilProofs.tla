------------------------------- MODULE UtilProofs -------------------------------
(***************************************************************************)
(* Proofs about the programs of the repository that share no code:         *)
(* TimerMgr: for any number of timers, of addresses malloc() may reuse and *)
(* of events one epoll_wait() returns, RunTimerMgr serves only timers that *)
(* are watched, and touches no freed one, as long as a callback keeps to   *)
(* its own timer.                                                          *)
(* UartPort: for any sequence of calls and any requests, what the          *)
(* libraries act on and what a configuration that returned no error has    *)
(* set.  UartLoop: for any number of bytes and any size of the buffer,     *)
(* what is sent back.                                                      *)
(* Sorting: for arrays of any length, what the loops leave in them.        *)
(***************************************************************************)
EXTENDS TimerMgr, UartLoop, UartPort, Sorting, SequenceFacts, SequenceTheorems,
        FunctionTheorems, FiniteSetTheorems, TLAPS


-----------------------------------------------------------------------------
(* TimerMgr.                                                               *)

Entries == [fd : Nat, ptr : Addrs]

TimerTypes ==
  /\ callers \in {"own", "any"}
  /\ pc \in {"idle", "loop", "serve", "callback", "undefined"}
  /\ heap \in [Addrs -> Nat] /\ made \in Nat
  /\ \A a \in Addrs : heap[a] <= made
  /\ watched \subseteq Entries
  /\ ready \in Seq(Nat) /\ events \in Seq(Addrs)

\* Two timers have two descriptors; what is watched is a timer at its address, and
\* the ready list holds watched descriptors only, each once.
WatchInv ==
  /\ \A a, b \in Addrs : heap[a] = heap[b] /\ heap[a] # 0 => a = b
  /\ \A w \in watched : heap[w.ptr] = w.fd /\ w.fd # 0
  /\ \A f : Has(ready, f) => f \in WatchedFds
  /\ Distinct(ready)

\* The events of a round are of different timers; EventsAreCurrent by elements.
EventInv ==
  /\ Distinct(events)
  /\ pc \in {"idle", "loop"} => events = <<>>
  /\ pc = "callback" => events # <<>>
  /\ \A x : Has(ToServe, x) => x \in Ptrs \/ (callers = "any" /\ x \in removed)
  /\ callers = "own" => pc # "undefined"

TimerInv == TimerTypes /\ WatchInv /\ EventInv

\* The steps that change neither the timers nor what is watched or fetched.
LEMMA ManagerKept ==
  ASSUME TimerInv, UNCHANGED <<callers, heap, made, watched, ready, events, removed>>,
         pc' \in {"idle", "loop", "serve", "callback", "undefined"},
         pc' \in {"idle", "loop"} => events = <<>>,
         pc' = "callback" => pc = "callback",
         pc = "callback" => pc' = "callback",
         pc' = "undefined" => pc = "undefined" \/ callers = "any"
  PROVE  TimerInv'
<1>1. ToServe' = ToServe /\ Ptrs' = Ptrs /\ WatchedFds' = WatchedFds
  BY DEF ToServe, Ptrs, WatchedFds
<1>2. TimerTypes' /\ WatchInv'
  BY <1>1 DEF TimerInv, TimerTypes, WatchInv
<1>3. EventInv'
  BY <1>1 DEF TimerInv, EventInv
<1> QED
  BY <1>2, <1>3 DEF TimerInv

\* The manager starts without timers.
LEMMA TimerStarts == Init => TimerInv
<1> SUFFICES ASSUME Init PROVE TimerInv
  OBVIOUS
<1>1. <<>> \in Seq(Nat) /\ <<>> \in Seq(Addrs) /\ DOMAIN <<>> = {}
  BY EmptySeq, LenProperties
<1>2. Distinct(<<>>) /\ \A x : ~Has(<<>>, x)
  BY <1>1 DEF Distinct, Has
<1>3. TimerTypes /\ WatchInv
  BY <1>1, <1>2 DEF Init, TimerTypes, WatchInv
<1>4. EventInv
  BY <1>2 DEF Init, EventInv, ToServe
<1> QED
  BY <1>3, <1>4 DEF TimerInv

\* A new timer has a descriptor of its own.
LEMMA CreateKeeps ==
  ASSUME TimerInv, NEW a \in Addrs, CreateTimer(a)
  PROVE  TimerInv'
<1>1. /\ heap[a] = 0 /\ made' = made + 1 /\ heap' = [heap EXCEPT ![a] = made + 1]
      /\ UNCHANGED <<callers, pc, watched, ready, events, removed>>
  BY DEF CreateTimer, kernelVars
<1>2. ToServe' = ToServe /\ Ptrs' = Ptrs /\ WatchedFds' = WatchedFds
  BY <1>1 DEF ToServe, Ptrs, WatchedFds
<1>3. /\ heap \in [Addrs -> Nat] /\ made \in Nat /\ \A b \in Addrs : heap[b] <= made
      /\ heap'[a] = made + 1 /\ \A b \in Addrs \ {a} : heap'[b] = heap[b]
  BY <1>1 DEF TimerInv, TimerTypes
<1>4. TimerTypes'
  <2>1. heap' \in [Addrs -> Nat] /\ made' \in Nat /\ \A b \in Addrs : heap'[b] <= made'
    BY <1>1, <1>3
  <2> QED
    BY <1>1, <2>1 DEF TimerInv, TimerTypes
<1>5. WatchInv'
  <2>1. ASSUME NEW b \in Addrs, NEW c \in Addrs, heap'[b] = heap'[c], heap'[b] # 0 PROVE b = c
    <3>1. \A d \in Addrs \ {a} : heap'[d] # made + 1
      BY <1>3
    <3> QED
      BY <1>3, <2>1, <3>1 DEF TimerInv, WatchInv
  <2>2. ASSUME NEW w \in watched PROVE heap'[w.ptr] = w.fd /\ w.fd # 0
    <3>1. w.ptr \in Addrs /\ heap[w.ptr] = w.fd /\ w.fd # 0
      BY DEF TimerInv, TimerTypes, WatchInv, Entries
    <3> QED
      BY <1>1, <1>3, <3>1
  <2> QED
    BY <1>1, <1>2, <2>1, <2>2 DEF TimerInv, WatchInv
<1>6. EventInv'
  BY <1>1, <1>2 DEF TimerInv, EventInv
<1> QED
  BY <1>4, <1>5, <1>6 DEF TimerInv

\* A timer that is added was not watched, so not on the ready list either.
LEMMA AddKeeps ==
  ASSUME TimerInv, NEW a \in Addrs, AddTimer(a)
  PROVE  TimerInv'
<1> DEFINE e == [fd |-> heap[a], ptr |-> a]
<1>1. /\ heap[a] # 0 /\ heap[a] \notin WatchedFds /\ watched' = watched \cup {e}
      /\ ready' = IF heap[a] \in expired THEN Append(ready, heap[a]) ELSE ready
      /\ UNCHANGED <<callers, pc, heap, made, events, removed>>
  BY DEF AddTimer
<1>2. heap[a] \in Nat /\ e \in Entries /\ e.fd = heap[a] /\ e.ptr = a
  BY DEF TimerInv, TimerTypes, Entries
<1> HIDE DEF e
<1>3. /\ ToServe' = ToServe /\ Ptrs' = Ptrs \cup {a}
      /\ WatchedFds' = WatchedFds \cup {heap[a]}
  BY <1>1, <1>2 DEF ToServe, Ptrs, WatchedFds
<1>4. ready' \in Seq(Nat) /\ Distinct(ready') /\ \A f : Has(ready', f) => Has(ready, f) \/ f = heap[a]
  <2>1. ready \in Seq(Nat) /\ Distinct(ready) /\ ~Has(ready, heap[a])
    BY <1>1 DEF TimerInv, TimerTypes, WatchInv
  <2> QED
    BY <1>1, <1>2, <2>1, AppendToDistinct
<1>5. TimerTypes'
  BY <1>1, <1>2, <1>4 DEF TimerInv, TimerTypes
<1>6. WatchInv'
  BY <1>1, <1>2, <1>3, <1>4 DEF TimerInv, WatchInv
<1>7. EventInv'
  BY <1>1, <1>3 DEF TimerInv, EventInv
<1> QED
  BY <1>5, <1>6, <1>7 DEF TimerInv

\* A timer a callback removes is its own, which is not served again in the round, or
\* its event stays and the removal is remembered.
LEMMA RemoveKeeps ==
  ASSUME TimerInv, NEW a \in Addrs, RemoveTimer(a)
  PROVE  TimerInv'
<1>1. /\ heap[a] # 0
      /\ pc = "idle" \/ (pc = "callback" /\ (callers = "any" \/ a = Head(events)))
      /\ watched' = {w \in watched : w.fd # heap[a]}
      /\ ready' = Only(ready, WatchedFds \ {heap[a]})
      /\ removed' = removed \cup {a}
      /\ UNCHANGED <<callers, pc, heap, made, events>>
  BY DEF RemoveTimer, MayTouch
<1>2. /\ ready \in Seq(Nat) /\ events \in Seq(Addrs) /\ Distinct(ready) /\ Distinct(events)
      /\ ToServe' = ToServe
  BY <1>1 DEF TimerInv, TimerTypes, WatchInv, EventInv, ToServe
<1>3. ready' \in Seq(Nat) /\ Distinct(ready') /\ \A f : Has(ready', f) => f \in WatchedFds \ {heap[a]}
  BY <1>1, <1>2, OnlyFacts
<1>4. WatchedFds \ {heap[a]} \subseteq WatchedFds'
  BY <1>1 DEF WatchedFds
<1>5. \A x \in Ptrs : x # a => x \in Ptrs'
  <2> SUFFICES ASSUME NEW w \in watched, w.ptr # a PROVE w \in watched'
    BY DEF Ptrs
  <2>1. w.ptr \in Addrs /\ heap[w.ptr] = w.fd
    BY DEF TimerInv, TimerTypes, WatchInv, Entries
  <2>2. w.fd # heap[a]
    BY <1>1, <2>1 DEF TimerInv, WatchInv
  <2> QED
    BY <1>1, <2>2
<1>6. TimerTypes'
  BY <1>1, <1>3 DEF TimerInv, TimerTypes
<1>7. WatchInv'
  BY <1>1, <1>3, <1>4 DEF TimerInv, WatchInv
<1>8. ASSUME NEW x, Has(ToServe, x), callers = "own" PROVE x # a
  <2>1. CASE pc = "idle"
    <3>1. ToServe = <<>> /\ DOMAIN <<>> = {}
      BY <2>1 DEF TimerInv, EventInv, ToServe
    <3> QED
      BY <1>8, <3>1 DEF Has
  <2>2. CASE pc = "callback"
    <3>1. a = Head(events) /\ events # <<>> /\ ToServe = Tail(events)
      BY <1>1, <1>8, <2>2 DEF TimerInv, EventInv, ToServe
    <3> QED
      BY <1>2, <1>8, <3>1, TailOfDistinct
  <2> QED
    BY <1>1, <2>1, <2>2
<1>9. \A x : Has(ToServe, x) => x \in Ptrs' \/ (callers = "any" /\ x \in removed')
  BY <1>1, <1>5, <1>8 DEF TimerInv, TimerTypes, EventInv
<1>10. EventInv'
  BY <1>1, <1>2, <1>9 DEF TimerInv, EventInv
<1> QED
  BY <1>6, <1>7, <1>10 DEF TimerInv

\* A timer that is destroyed is not watched.
LEMMA DestroyKeeps ==
  ASSUME TimerInv, NEW a \in Addrs, DestroyTimer(a)
  PROVE  TimerInv'
<1>1. /\ a \notin Ptrs /\ heap' = [heap EXCEPT ![a] = 0]
      /\ UNCHANGED <<callers, pc, made, watched, ready, events, removed>>
  BY DEF DestroyTimer, kernelVars
<1>2. ToServe' = ToServe /\ Ptrs' = Ptrs /\ WatchedFds' = WatchedFds
  BY <1>1 DEF ToServe, Ptrs, WatchedFds
<1>3. /\ heap \in [Addrs -> Nat] /\ made \in Nat
      /\ heap'[a] = 0 /\ \A b \in Addrs \ {a} : heap'[b] = heap[b]
  BY <1>1 DEF TimerInv, TimerTypes
<1>4. TimerTypes'
  <2>1. heap' \in [Addrs -> Nat] /\ \A b \in Addrs : heap'[b] <= made
    BY <1>1, <1>3 DEF TimerInv, TimerTypes
  <2> QED
    BY <1>1, <2>1 DEF TimerInv, TimerTypes
<1>5. WatchInv'
  <2>1. ASSUME NEW w \in watched PROVE heap'[w.ptr] = w.fd /\ w.fd # 0
    <3>1. w.ptr \in Addrs /\ heap[w.ptr] = w.fd /\ w.fd # 0 /\ w.ptr # a
      BY <1>1 DEF TimerInv, TimerTypes, WatchInv, Entries, Ptrs
    <3> QED
      BY <1>3, <3>1
  <2>2. \A b, c \in Addrs : heap'[b] = heap'[c] /\ heap'[b] # 0 => b = c
    BY <1>3 DEF TimerInv, WatchInv
  <2> QED
    BY <1>1, <1>2, <2>1, <2>2 DEF TimerInv, WatchInv
<1>6. EventInv'
  BY <1>1, <1>2 DEF TimerInv, EventInv
<1> QED
  BY <1>4, <1>5, <1>6 DEF TimerInv

\* What epoll knows of a watched descriptor is the timer that has it.
LEMMA PtrOfFacts ==
  ASSUME TimerInv, NEW f \in WatchedFds
  PROVE  PtrOf(f) \in Ptrs /\ PtrOf(f) \in Addrs /\ heap[PtrOf(f)] = f
<1>1. PICK w : w = CHOOSE v \in watched : v.fd = f
  OBVIOUS
<1>2. w \in watched /\ w.fd = f
  <2>1. \E v \in watched : v.fd = f
    BY DEF WatchedFds
  <2> QED
    BY <1>1, <2>1, Zenon
<1>3. PtrOf(f) = w.ptr
  BY <1>1 DEF PtrOf
<1> QED
  BY <1>2, <1>3 DEF TimerInv, TimerTypes, WatchInv, Entries, Ptrs

\* What epoll_wait() returns is of watched timers, each once.
LEMMA WaitKeeps ==
  ASSUME TimerInv, EpollWait
  PROVE  TimerInv'
<1>1. PICK due : due = Only(ready, expired)
  OBVIOUS
<1>2. PICK n : n = IF Len(due) < MAX_TIMER THEN Len(due) ELSE MAX_TIMER
  OBVIOUS
<1>3. /\ pc = "loop" /\ pc' = "serve" /\ removed' = {}
      /\ events' = Fetched(n, due)
      /\ ready' = SubSeq(due, n + 1, Len(due)) \o SubSeq(due, 1, n)
      /\ UNCHANGED <<callers, heap, made, watched>>
  BY <1>1, <1>2 DEF EpollWait
<1>4. due \in Seq(Nat) /\ Distinct(due) /\ \A x : Has(due, x) => x \in WatchedFds
  BY <1>1, OnlyFacts DEF TimerInv, TimerTypes, WatchInv
<1>5. Len(due) \in Nat /\ DOMAIN due = 1 .. Len(due) /\ n \in Nat /\ n \in 0 .. Len(due)
      /\ 1 .. n \subseteq DOMAIN due
  <2>1. Len(due) \in Nat /\ DOMAIN due = 1 .. Len(due)
    BY <1>4, LenProperties
  <2>2. n \in Nat /\ n <= Len(due)
    BY <1>2, <2>1, ConstAssumption
  <2> QED
    BY <2>1, <2>2
<1>6. /\ Ptrs' = Ptrs /\ WatchedFds' = WatchedFds
      /\ ToServe' = events'
  BY <1>3 DEF ToServe, Ptrs, WatchedFds
<1>7. ready' \in Seq(Nat) /\ Distinct(ready') /\ \A x : Has(ready', x) => x \in WatchedFds
  <2>1. ready' = Rotated(due, n)
    BY <1>3 DEF Rotated
  <2> QED
    BY <1>4, <1>5, <2>1, RotateKeeps
<1>8. /\ DOMAIN events' = 1 .. n
      /\ \A i \in 1 .. n : events'[i] = PtrOf(due[i])
  BY <1>3 DEF Fetched
<1>9. ASSUME NEW i \in 1 .. n
      PROVE  events'[i] \in Ptrs /\ events'[i] \in Addrs /\ heap[events'[i]] = due[i]
  <2>1. due[i] \in WatchedFds
    BY <1>4, <1>5 DEF Has
  <2> QED
    BY <1>8, <2>1, PtrOfFacts
<1>10. events' \in Seq(Addrs)
  <2>1. events' \in [1 .. n -> Addrs]
    BY <1>3, <1>8, <1>9 DEF Fetched
  <2> QED
    BY <1>5, <2>1, FunctionIsSeq
<1>11. Distinct(events')
  <2> SUFFICES ASSUME NEW i \in 1 .. n, NEW j \in 1 .. n, events'[i] = events'[j] PROVE i = j
    BY <1>8 DEF Distinct
  <2>1. due[i] = due[j]
    BY <1>9
  <2> QED
    BY <1>4, <1>5, <2>1 DEF Distinct
<1>12. \A x : Has(events', x) => x \in Ptrs
  BY <1>8, <1>9 DEF Has
<1>13. TimerTypes'
  BY <1>3, <1>7, <1>10 DEF TimerInv, TimerTypes
<1>14. WatchInv'
  BY <1>3, <1>6, <1>7 DEF TimerInv, WatchInv
<1>15. EventInv'
  BY <1>3, <1>6, <1>11, <1>12 DEF TimerInv, EventInv
<1> QED
  BY <1>13, <1>14, <1>15 DEF TimerInv

\* While its callback runs an event is no longer to be served.
LEMMA ServeKeeps ==
  ASSUME TimerInv, Serve
  PROVE  TimerInv'
<1>1. /\ pc = "serve" /\ pc' = "callback" /\ events # <<>>
      /\ UNCHANGED <<callers, heap, made, watched, removed, ready, events>>
  BY DEF Serve, callerVars
<1>2. events \in Seq(Addrs) /\ Distinct(events) /\ ToServe = events /\ ToServe' = Tail(events)
  BY <1>1 DEF TimerInv, TimerTypes, EventInv, ToServe
<1>3. Ptrs' = Ptrs /\ WatchedFds' = WatchedFds
  BY <1>1 DEF Ptrs, WatchedFds
<1>4. \A x : Has(ToServe', x) => Has(ToServe, x)
  BY <1>1, <1>2, TailOfDistinct
<1>5. TimerTypes' /\ WatchInv'
  BY <1>1, <1>3 DEF TimerInv, TimerTypes, WatchInv
<1>6. EventInv'
  BY <1>1, <1>3, <1>4 DEF TimerInv, EventInv
<1> QED
  BY <1>5, <1>6 DEF TimerInv

\* The next one is looked at when the callback returns.
LEMMA ReturnKeeps ==
  ASSUME TimerInv, Return
  PROVE  TimerInv'
<1>1. /\ pc = "callback" /\ pc' = "serve" /\ events' = Tail(events)
      /\ UNCHANGED <<callers, heap, made, watched, removed, ready>>
  BY DEF Return, callerVars, kernelVars
<1>2. events \in Seq(Addrs) /\ Distinct(events) /\ events # <<>> /\ ToServe' = ToServe
  BY <1>1 DEF TimerInv, TimerTypes, EventInv, ToServe
<1>3. Ptrs' = Ptrs /\ WatchedFds' = WatchedFds
  BY <1>1 DEF Ptrs, WatchedFds
<1>4. events' \in Seq(Addrs) /\ Distinct(events')
  BY <1>1, <1>2, TailOfDistinct
<1>5. TimerTypes' /\ WatchInv'
  BY <1>1, <1>3, <1>4 DEF TimerInv, TimerTypes, WatchInv
<1>6. EventInv'
  BY <1>1, <1>2, <1>3, <1>4 DEF TimerInv, EventInv
<1> QED
  BY <1>5, <1>6 DEF TimerInv

\* A timer that becomes due goes on the ready list if it is watched and not there.
LEMMA ExpireKeeps ==
  ASSUME TimerInv, NEW f, Expire(f)
  PROVE  TimerInv'
<1>1. /\ f \in 1 .. made
      /\ ready' = IF f \in WatchedFds /\ f \notin Range(ready) THEN Append(ready, f) ELSE ready
      /\ UNCHANGED <<callers, pc, heap, made, watched, removed, events>>
  BY DEF Expire, callerVars
<1>2. f \in Nat /\ ready \in Seq(Nat) /\ Distinct(ready)
  BY <1>1 DEF TimerInv, TimerTypes, WatchInv
<1>3. Ptrs' = Ptrs /\ WatchedFds' = WatchedFds /\ ToServe' = ToServe
  BY <1>1 DEF Ptrs, WatchedFds, ToServe
<1>4. ready' \in Seq(Nat) /\ Distinct(ready') /\ \A x : Has(ready', x) => x \in WatchedFds
  BY <1>1, <1>2, AppendToDistinct, RangeHas DEF TimerInv, WatchInv
<1>5. TimerTypes' /\ WatchInv'
  BY <1>1, <1>3, <1>4 DEF TimerInv, TimerTypes, WatchInv
<1>6. EventInv'
  BY <1>1, <1>3 DEF TimerInv, EventInv
<1> QED
  BY <1>5, <1>6 DEF TimerInv

\* No "own" caller leaves the address of a freed timer among the events.
LEMMA FreedIsForeign ==
  ASSUME TimerInv, TouchFreed
  PROVE  callers = "any"
<1>1. pc = "serve" /\ events # <<>> /\ heap[Head(events)] = 0
  BY DEF TouchFreed
<1>2. events \in Seq(Addrs) /\ Distinct(events) /\ ToServe = events
  BY <1>1 DEF TimerInv, TimerTypes, EventInv, ToServe
<1>3. Head(events) \in Ptrs \/ callers = "any"
  BY <1>1, <1>2, TailOfDistinct DEF TimerInv, EventInv
<1> QED
  BY <1>1, <1>3 DEF TimerInv, WatchInv, Ptrs

\* Every step keeps the invariant.
LEMMA TimerStep == TimerInv /\ [Next]_vars => TimerInv'
<1> SUFFICES ASSUME TimerInv, [Next]_vars PROVE TimerInv'
  OBVIOUS
<1>1. TimerTypes /\ EventInv
  BY DEF TimerInv
<1>2. CASE TouchFreed
  BY <1>1, <1>2, FreedIsForeign, ManagerKept DEF TouchFreed, callerVars, kernelVars
<1>3. CASE ServeDone
  BY <1>1, <1>3, ManagerKept DEF ServeDone, callerVars, kernelVars
<1>4. CASE LoopEnds
  BY <1>1, <1>4, ManagerKept DEF LoopEnds, callerVars, kernelVars, EventInv
<1>5. CASE \E once \in BOOLEAN : RunTimerMgr(once)
  BY <1>1, <1>5, ManagerKept DEF RunTimerMgr, callerVars, kernelVars, EventInv
<1>6. CASE TerminateTimerMgr
  BY <1>1, <1>6, ManagerKept DEF TerminateTimerMgr, callerVars, kernelVars, EventInv, TimerTypes
<1>7. CASE UNCHANGED vars
  BY <1>1, <1>7, ManagerKept DEF vars, callerVars, kernelVars, EventInv, TimerTypes
<1>8. CASE \E a \in Addrs : CreateTimer(a) \/ AddTimer(a) \/ RemoveTimer(a) \/ DestroyTimer(a)
  BY <1>8, CreateKeeps, AddKeeps, RemoveKeeps, DestroyKeeps
<1>9. CASE \E f \in 1 .. NumTimers : Expire(f)
  BY <1>9, ExpireKeeps
<1> QED
  BY <1>2, <1>3, <1>4, <1>5, <1>6, <1>7, <1>8, <1>9, WaitKeeps, ServeKeeps, ReturnKeeps
     DEF Next, RunStep, CallerStep

\* The inductive invariant holds in every state.
THEOREM TimerInvariant == Spec => []TimerInv
  BY TimerStarts, TimerStep, PTL DEF Spec

\* Every event RunTimerMgr still has to serve is of a watched timer, or a callback
\* removed a foreign one; so while callbacks keep to their own timer, no freed timer is
\* touched, however addresses are reused and however few events a round fetches.
THEOREM ServesCurrent == Spec => []EventsAreCurrent
<1>1. TimerInv => EventsAreCurrent
  BY DEF TimerInv, EventInv, EventsAreCurrent, Has
<1> QED
  BY <1>1, TimerInvariant, PTL

-----------------------------------------------------------------------------
(* UartPort.                                                               *)

\* what a request says
Fields == {"bits", "parity", "speed", "stop"}

PortTypes ==
  /\ lib \in Libs
  /\ SerialPortFd \in Fds \cup {-1}
  /\ fdTable \in [Fds -> {"free", "port", "other"}]
  /\ told \in {"nothing", "ok", "failed"}
  /\ DOMAIN asked = Fields
  /\ acted \in {"nothing", "port", "other"}
  /\ opened \in BOOLEAN /\ closed \in BOOLEAN

\* Between an open and a close the variable holds the port's descriptor, or -1;
\* before the first open it is 0.
FdInv ==
  /\ opened /\ ~closed => SerialPortFd = -1 \/ fdTable[SerialPortFd] = "port"
  /\ ~opened => SerialPortFd = 0

\* The port has the settings asked for.
AreSet ==
  /\ \A k \in DOMAIN asked : termios[k] = asked[k]
  /\ ~termios.strip \/ termios.bits = 7

\* They are set when the last configuration says so and was made on the port, or
\* on the descriptor the variable still holds, should that be the port's.
SetInv ==
  told = "ok" /\ (acted = "port" \/ FileAt(SerialPortFd) = "port") /\ ~Differs(asked) => AreSet

PortInv == PortTypes /\ FdInv /\ ActsOnOwnPort /\ SetInv

\* What the gateway's library asks for.
LEMMA SocFields ==
  /\ DOMAIN SocRequest = Fields
  /\ SocRequest.bits = 8 /\ SocRequest.parity = "n"
  /\ SocRequest.speed = 115200 /\ SocRequest.stop = 1
<1>1. DOMAIN SocRequest = Fields
  BY SMT DEF SocRequest, Fields
<1>2. SocRequest.bits = 8
  BY SMT DEF SocRequest
<1>3. SocRequest.parity = "n"
  BY SMT DEF SocRequest
<1>4. SocRequest.speed = 115200
  BY SMT DEF SocRequest
<1>5. SocRequest.stop = 1
  BY SMT DEF SocRequest
<1> QED
  BY <1>1, <1>2, <1>3, <1>4, <1>5, SMT

\* Before the first call no library has acted on anything.
LEMMA PortStarts == PortInit => PortInv
<1> SUFFICES ASSUME PortInit PROVE PortInv
  OBVIOUS
<1>1. 0 \in Fds
  BY PortAssumption DEF Fds
<1>2. PortTypes
  <2>1. PICK first \in {"free", "other"} : fdTable = [f \in Fds |-> IF f = 0 THEN first ELSE "free"]
    BY DEF PortInit
  <2>2. fdTable \in [Fds -> {"free", "port", "other"}]
    BY <2>1
  <2>3. /\ lib \in Libs /\ SerialPortFd = 0 /\ told = "nothing" /\ asked = SocRequest
        /\ acted = "nothing" /\ opened = FALSE /\ closed = FALSE
    BY DEF PortInit
  <2>4. DOMAIN asked = Fields
    BY <2>3, SocFields
  <2> QED
    BY <1>1, <2>2, <2>3, <2>4 DEF PortTypes
<1> QED
  BY <1>2 DEF PortInit, PortInv, FdInv, ActsOnOwnPort, SetInv

\* A record of settings that agrees with a request does so on all it asks for.
LEMMA SameFields ==
  ASSUME NEW r, DOMAIN r = Fields, NEW s,
         s.bits = r.bits, s.parity = r.parity, s.speed = r.speed, s.stop = r.stop
  PROVE  \A k \in DOMAIN r : s[k] = r[k]
  BY DEF Fields

\* The settings of v1 and soc, which differ in what they are given.
OfV1(r) == [bits |-> IF r.bits \in {7, 8} THEN r.bits ELSE 5, parity |-> r.parity,
            strip |-> r.parity \in {"o", "e"}, speed |-> r.speed, stop |-> r.stop]
OfV2(r) == [bits |-> r.bits, parity |-> r.parity, strip |-> FALSE,
            speed |-> r.speed, stop |-> r.stop]

\* What Uart v1.0 makes of a request it gets right.
LEMMA FieldsOfV1 ==
  ASSUME NEW r, r.bits \in {7, 8}, r.bits = 8 => r.parity \notin {"o", "e"}
  PROVE  /\ OfV1(r).bits = r.bits /\ OfV1(r).parity = r.parity
         /\ OfV1(r).speed = r.speed /\ OfV1(r).stop = r.stop
         /\ ~OfV1(r).strip \/ OfV1(r).bits = 7
<1>1. /\ OfV1(r).bits = (IF r.bits \in {7, 8} THEN r.bits ELSE 5)
      /\ OfV1(r).parity = r.parity /\ OfV1(r).speed = r.speed /\ OfV1(r).stop = r.stop
      /\ OfV1(r).strip = (r.parity \in {"o", "e"})
  BY DEF OfV1
<1> QED
  BY <1>1

\* What Uart v2.0 makes of a request.
LEMMA FieldsOfV2 ==
  ASSUME NEW r
  PROVE  /\ OfV2(r).bits = r.bits /\ OfV2(r).parity = r.parity
         /\ OfV2(r).speed = r.speed /\ OfV2(r).stop = r.stop
         /\ ~OfV2(r).strip
  BY DEF OfV2

\* A configuration function makes these settings, or refuses.
LEMMA ConfigCases ==
  ASSUME NEW r
  PROVE  /\ HW_Uart_Config(r) \in {OfV1(r), Refusal}
         /\ zbSocUartConfig(r) \in {OfV1(r), Refusal}
         /\ SerialConfig(r) \in {OfV2(r), Refusal, [refused |-> Garbage]}
         /\ SerialConfig(r) = [refused |-> Garbage] => r.stop \notin {1, 2}
<1>1. HW_Uart_Config(r) \in {OfV1(r), Refusal}
  BY SMT DEF HW_Uart_Config, OfV1
<1>2. zbSocUartConfig(r) \in {OfV1(r), Refusal}
  BY SMT DEF zbSocUartConfig, OfV1
<1>3. SerialConfig(r) \in {OfV2(r), Refusal, [refused |-> Garbage]}
  BY SMT DEF SerialConfig, OfV2
<1>4. SerialConfig(r) = [refused |-> Garbage] => r.stop \notin {1, 2}
  <2>1. SerialConfig(r) = OfV2(r) \/ SerialConfig(r) = Refusal \/ r.stop \notin {1, 2}
    BY SMT DEF SerialConfig, OfV2
  <2>2. OfV2(r) # [refused |-> Garbage]
    <3>1. "stop" \in DOMAIN OfV2(r) /\ "stop" \notin DOMAIN [refused |-> Garbage]
      BY DEF OfV2
    <3> QED
      BY <3>1
  <2>3. Refusal # [refused |-> Garbage]
    <3>1. Refusal.refused = {"failed"} /\ [refused |-> Garbage].refused = {"ok", "failed"}
      BY DEF Refusal, Garbage
    <3>2. {"failed"} # {"ok", "failed"}
      OBVIOUS
    <3> QED
      BY <3>1, <3>2
  <2> QED
    BY <2>1, <2>2, <2>3
<1> QED
  BY <1>1, <1>2, <1>3, <1>4

\* What the library in use makes of a request.
LEMMA SettingsCases ==
  ASSUME NEW r, lib \in {"v1", "v2", "soc"}
  PROVE  /\ lib = "v1" => Settings(r) \in {OfV1(Named(r)), Refusal}
         /\ lib = "soc" => Settings(r) \in {OfV1(r), Refusal}
         /\ lib = "v2" => /\ Settings(r) \in {OfV2(r), Refusal, [refused |-> Garbage]}
                          /\ Settings(r) = [refused |-> Garbage] => r.stop \notin {1, 2}
<1>1. lib = "v1" => Settings(r) = HW_Uart_Config(Named(r))
  BY DEF Settings
<1>2. lib = "soc" => Settings(r) = zbSocUartConfig(r)
  BY DEF Settings
<1>3. lib = "v2" => Settings(r) = SerialConfig(r)
  BY DEF Settings
<1> QED
  BY <1>1, <1>2, <1>3, ConfigCases

\* Settings and refusals are told apart by their fields.
LEMMA RefusalFields ==
  /\ \A r : "refused" \notin DOMAIN OfV1(r) /\ "refused" \notin DOMAIN OfV2(r)
  /\ "refused" \in DOMAIN Refusal /\ Refusal.refused = {"failed"}
  /\ "refused" \in DOMAIN [refused |-> Garbage]
  /\ [refused |-> Garbage].refused = {"ok", "failed"}
  BY DEF OfV1, OfV2, Refusal, Garbage

\* A request that is not refused is what the port is set to, except as Differs says.
LEMMA SettingsMatch ==
  ASSUME NEW r, DOMAIN r = Fields,
         lib \in {"v1", "v2", "soc"}, ~Differs(r), "refused" \notin DOMAIN Settings(r)
  PROVE  /\ \A k \in DOMAIN r : Settings(r)[k] = r[k]
         /\ ~Settings(r).strip \/ Settings(r).bits = 7
<1>1. CASE lib \in {"v1", "soc"}
  <2>1. r.bits \in {7, 8} /\ (r.bits = 8 => r.parity \notin {"o", "e"})
    BY <1>1 DEF Differs
  <2>2. ASSUME lib = "v1" PROVE OfV1(Named(r)) = OfV1(r)
    <3>1. r.stop # 2 /\ r.speed # 460800
      BY <2>2, SMT DEF Differs
    <3>2. /\ Named(r).bits = r.bits /\ Named(r).parity = r.parity
          /\ Named(r).speed = r.speed /\ Named(r).stop = r.stop
      BY <3>1, SMT DEF Named
    <3> QED
      BY <3>2, SMT DEF OfV1
  <2>3. Settings(r) = OfV1(r)
    BY <1>1, <2>2, SettingsCases, RefusalFields
  <2> QED
    BY <2>1, <2>3, FieldsOfV1, SameFields
<1>2. CASE lib = "v2"
  <2>1. Settings(r) = OfV2(r)
    BY <1>2, SettingsCases, RefusalFields
  <2> QED
    BY <2>1, FieldsOfV2, SameFields
<1> QED
  BY <1>1, <1>2

\* What the gateway's library asks for when it opens the port is set.
LEMMA SocSettings ==
  /\ \A k \in DOMAIN SocRequest : zbSocUartConfig(SocRequest)[k] = SocRequest[k]
  /\ ~zbSocUartConfig(SocRequest).strip
<1> DEFINE r == SocRequest
<1>1. zbSocUartConfig(r) = OfV1(r)
  BY SocFields, SMT DEF zbSocUartConfig, OfV1
<1>2. OfV1(r).strip = (r.parity \in {"o", "e"})
  BY SMT DEF OfV1
<1>3. r.bits = 8 /\ r.parity \notin {"o", "e"}
  BY SocFields, SMT
<1> HIDE DEF r
<1>4. ~OfV1(r).strip
  BY <1>2, <1>3
<1>5. \A k \in DOMAIN r : OfV1(r)[k] = r[k]
  <2>1. DOMAIN r = Fields
    BY SocFields DEF r
  <2> QED
    BY <1>3, <2>1, FieldsOfV1, SameFields
<1> QED
  BY <1>1, <1>4, <1>5 DEF r

\* Only the stop bits v2 refuses without a value can be refused and told as set.
LEMMA RefusedDiffers ==
  ASSUME NEW r, lib \in {"v1", "v2", "soc"},
         "refused" \in DOMAIN Settings(r), "ok" \in Settings(r).refused
  PROVE  Differs(r)
<1>1. lib = "v2" /\ Settings(r) = [refused |-> Garbage]
  BY SettingsCases, RefusalFields
<1> QED
  BY <1>1, SettingsCases DEF Differs

\* What an open does to the variable and the table.
LEMMA OpenGetsPort ==
  ASSUME PortTypes, OpenPort
  PROVE  /\ SerialPortFd' \in Fds \cup {-1}
         /\ fdTable' \in [Fds -> {"free", "port", "other"}]
         /\ SerialPortFd' = -1 \/ fdTable'[SerialPortFd'] = "port"
         /\ opened' = TRUE /\ closed' = FALSE
  BY DEF PortTypes, OpenPort

\* A configuration, of the port or of whatever the variable refers to.
LEMMA ConfigKeeps ==
  ASSUME PortInv, NEW r \in Requests, Config(r)
  PROVE  PortInv'
<1> USE DEF PortInv
<1>1. /\ SerialIsValid /\ UNCHANGED <<lib, SerialPortFd, fdTable, opened, closed>>
      /\ asked' = (IF told' = "ok" THEN r ELSE asked)
      /\ DOMAIN r = Fields
      /\ lib \in {"v1", "v2", "soc"}
  BY PortAssumption DEF Config, Configure, PortTypes, Fields
<1>2. CASE /\ FileAt(SerialPortFd) # "nothing" /\ "refused" \notin DOMAIN Settings(r)
           /\ acted' = FileAt(SerialPortFd) /\ told' = "ok"
           /\ termios' = IF acted' = "port" THEN Settings(r) ELSE termios
  <2>1. acted' \in {"port", "other"}
    BY <1>2 DEF FileAt, PortTypes
  <2>2. PortTypes' /\ FdInv'
    BY <1>1, <1>2, <2>1 DEF PortTypes, FdInv, Fds
  <2>3. ActsOnOwnPort'
    BY <1>1, <1>2, <2>1 DEF ActsOnOwnPort, FdInv, SerialIsValid, FileAt, Fds
  <2>4. FileAt(SerialPortFd)' = FileAt(SerialPortFd)
    BY <1>1 DEF FileAt, Fds
  <2>5. SetInv'
    <3> SUFFICES ASSUME acted' = "port", ~Differs(r)
                 PROVE  AreSet'
      BY <1>1, <1>2, <2>1, <2>4 DEF SetInv, Differs
    <3>1. termios' = Settings(r) /\ asked' = r
      BY <1>1, <1>2
    <3> QED
      BY <1>1, <1>2, <3>1, SettingsMatch DEF AreSet
  <2> QED
    BY <2>2, <2>3, <2>5
<1>3. CASE /\ FileAt(SerialPortFd) # "nothing" /\ "refused" \in DOMAIN Settings(r)
           /\ told' \in Settings(r).refused
           /\ acted' = "nothing" /\ UNCHANGED termios
  <2>1. told' \in {"ok", "failed"}
    BY <1>1, <1>3, SettingsCases, RefusalFields
  <2>2. PortTypes' /\ FdInv'
    BY <1>1, <1>3, <2>1 DEF PortTypes, FdInv, Fds
  <2>3. SetInv'
    BY <1>1, <1>3, RefusedDiffers DEF SetInv, Differs
  <2> QED
    BY <1>3, <2>2, <2>3 DEF ActsOnOwnPort
<1>4. CASE told' = "failed" /\ acted' = "nothing" /\ UNCHANGED termios
  BY <1>1, <1>4 DEF PortTypes, FdInv, ActsOnOwnPort, SetInv, Fds
<1> QED
  BY <1>2, <1>3, <1>4 DEF Config, Configure

\* An open, which the gateway's library follows with its configuration.
LEMMA OpenKeeps ==
  ASSUME PortInv, Open \/ zbSocOpen
  PROVE  PortInv'
<1> USE DEF PortInv
<1>1. CASE Open
  <2>1. OpenPort /\ told' = "nothing" /\ acted' = "nothing" /\ UNCHANGED <<lib, termios, asked>>
    BY <1>1 DEF Open
  <2> QED
    BY <2>1, OpenGetsPort DEF PortTypes, FdInv, ActsOnOwnPort, SetInv, Fds
<1>2. CASE zbSocOpen
  <2>1. /\ OpenPort /\ asked' = SocRequest /\ lib' = lib
        /\ \/ acted' = "port" /\ told' = "ok" /\ termios' = zbSocUartConfig(SocRequest)
           \/ acted' = "nothing" /\ told' = "failed"
    BY <1>2 DEF zbSocOpen
  <2>2. DOMAIN SocRequest = Fields
    BY SocFields
  <2>3. /\ SerialPortFd' \in Fds \cup {-1}
        /\ fdTable' \in [Fds -> {"free", "port", "other"}]
        /\ SerialPortFd' = -1 \/ fdTable'[SerialPortFd'] = "port"
        /\ opened' = TRUE /\ closed' = FALSE
    BY <2>1, OpenGetsPort
  <2>4. acted' \in {"nothing", "port"} /\ told' \in {"ok", "failed"}
    BY <2>1
  <2>5. lib \in Libs
    BY DEF PortTypes
  <2> HIDE DEF PortInv
  <2>6. PortTypes'
    BY <2>1, <2>2, <2>3, <2>4, <2>5 DEF PortTypes, Fds
  <2>7. FdInv' /\ ActsOnOwnPort'
    BY <2>3, <2>4 DEF FdInv, ActsOnOwnPort
  <2>8. SetInv'
    <3>1. CASE told' = "failed"
      BY <3>1 DEF SetInv
    <3>2. CASE termios' = zbSocUartConfig(SocRequest)
      BY <2>1, <3>2, SocSettings DEF SetInv, AreSet
    <3> QED
      BY <2>1, <3>1, <3>2
  <2> QED
    BY <2>6, <2>7, <2>8 DEF PortInv
<1> QED
  BY <1>1, <1>2

\* Every step keeps the invariant.
LEMMA PortStep == PortInv /\ [PortNext]_portVars => PortInv'
<1> SUFFICES ASSUME PortInv, [PortNext]_portVars PROVE PortInv'
  OBVIOUS
<1> USE DEF PortInv
<1>1. CASE Refused
  BY <1>1 DEF Refused, PortTypes, FdInv, ActsOnOwnPort, SetInv, AreSet, Differs, FileAt, Fds
<1>2. CASE Transfer
  <2>1. acted' = FileAt(SerialPortFd) /\ SerialIsValid
        /\ UNCHANGED <<lib, SerialPortFd, fdTable, termios, told, asked, opened, closed>>
    BY <1>2 DEF Transfer
  <2>2. PortTypes' /\ FdInv'
    BY <2>1 DEF PortTypes, FdInv, FileAt, Fds
  <2>3. ActsOnOwnPort'
    BY <2>1 DEF ActsOnOwnPort, PortTypes, FdInv, SerialIsValid, FileAt, Fds
  <2>4. SetInv'
    BY <2>1 DEF SetInv, AreSet, Differs, FileAt, Fds
  <2> QED
    BY <2>2, <2>3, <2>4
<1>3. CASE Close
  <2>1. /\ acted' = FileAt(SerialPortFd) /\ closed' = TRUE
        /\ fdTable' = [f \in Fds |-> IF f = SerialPortFd THEN "free" ELSE fdTable[f]]
        /\ UNCHANGED <<lib, SerialPortFd, termios, told, asked, opened>>
    BY <1>3 DEF Close
  <2>2. PortTypes' /\ FdInv' /\ ActsOnOwnPort'
    BY <2>1 DEF PortTypes, FdInv, ActsOnOwnPort, FileAt, Fds
  <2>3. FileAt(SerialPortFd)' = "nothing"
    BY <2>1 DEF FileAt, Fds
  <2>4. SetInv'
    BY <2>1, <2>3 DEF SetInv, AreSet, Differs
  <2> QED
    BY <2>2, <2>4
<1>4. CASE OthersOpen \/ OthersClose
  <2>1. /\ \E f \in Fds : fdTable[f] # "port" /\ \E x \in {"free", "other"} : fdTable' = [fdTable EXCEPT ![f] = x]
        /\ UNCHANGED <<lib, SerialPortFd, termios, told, asked, acted, opened, closed>>
    BY <1>4 DEF OthersOpen, OthersClose
  <2>2. PortTypes' /\ FdInv' /\ ActsOnOwnPort'
    BY <2>1 DEF PortTypes, FdInv, ActsOnOwnPort, Fds
  <2>3. FileAt(SerialPortFd)' = "port" => FileAt(SerialPortFd) = "port"
    BY <2>1 DEF FileAt, PortTypes, Fds
  <2>4. SetInv'
    BY <2>1, <2>3 DEF SetInv, AreSet, Differs
  <2> QED
    BY <2>2, <2>4
<1>5. CASE UNCHANGED portVars
  BY <1>5 DEF portVars, PortTypes, FdInv, ActsOnOwnPort, SetInv, AreSet, Differs, FileAt, Fds
<1> QED
  BY <1>1, <1>2, <1>3, <1>4, <1>5, ConfigKeeps, OpenKeeps DEF PortNext, LibStep

\* The inductive invariant holds in every state.
THEOREM PortInvariant == PortSpec => []PortInv
  BY PortStarts, PortStep, PTL DEF PortSpec

\* No operation of SerialPort*, HW_Uart_* or zbSoc* acts on a foreign file unless
\* the library closed its descriptor before or nobody checks the one it begins with,
\* whatever is called and whoever else opens and closes files.
THEOREM ActsOnOwn == PortSpec => []ActsOnOwnPort
  BY PortInvariant, PTL DEF PortInv

\* A configuration that returned no error has set the port as asked for, for every
\* request, with the exceptions that Differs lists.
THEOREM ToldMeansSet == PortSpec => []ToldIsSet
<1>1. PortInv => ToldIsSet
  BY DEF PortInv, SetInv, AreSet, ToldIsSet
<1> QED
  BY <1>1, PortInvariant, PTL

-----------------------------------------------------------------------------
(* UartLoop.                                                               *)

\* bytes of buff already written
Written == IF loopPc = "flush" THEN ret + 1 ELSE ret

LoopTypes ==
  /\ loopPc \in {"setup", "test", "read", "write", "flush", "clear", "overrun"}
  /\ input \in Seq(Nat) /\ output \in Seq(Nat) /\ buff \in Seq(Nat) /\ wire \in Seq(Nat)
  /\ ret \in Nat /\ arrived \in Nat /\ flushed \subseteq Nat
  /\ Written <= Len(buff)
  /\ loopPc \in {"setup", "test", "clear"} => buff = <<>>
  /\ loopPc \notin {"write", "flush"} => ret = 0

\* The bytes in the order wire, output, rest of buff, input increase,
LineInv ==
  /\ Increasing(wire) /\ Increasing(output) /\ Increasing(buff) /\ Increasing(input)
  /\ Less(Range(wire), Range(output))
  /\ \A x \in Range(wire) \cup Range(output) :
       \A i \in DOMAIN buff : i > Written => x < buff[i]
  /\ Less(Range(wire) \cup Range(output) \cup Range(buff), Range(input))

\* all those that arrived are accounted for, and those of buff that are behind the
\* loop are on their way or were discarded.
AllInv ==
  /\ Range(wire) \cup Range(output) \cup flushed \cup Range(buff) \cup Range(input) = 1 .. arrived
  /\ \A i \in DOMAIN buff : i <= Written => buff[i] \in Range(wire) \cup Range(output) \cup flushed

LoopInv == LoopTypes /\ LineInv /\ AllInv

\* The steps that touch neither the bytes nor what is counted of them.
LEMMA LoopKept ==
  ASSUME LoopInv, UNCHANGED <<input, output, wire, flushed, buff, ret, arrived>>,
         loopPc' \in {"setup", "test", "read", "write", "flush", "clear", "overrun"},
         loopPc # "flush", loopPc' # "flush",
         loopPc' \in {"setup", "test", "clear"} => buff = <<>>,
         loopPc' # "write" => ret = 0
  PROVE  LoopInv'
<1>1. Written' = Written
  BY DEF Written
<1>2. LoopTypes'
  BY <1>1 DEF LoopInv, LoopTypes
<1>3. LineInv' /\ AllInv'
  BY <1>1 DEF LoopInv, LineInv, AllInv
<1> QED
  BY <1>2, <1>3 DEF LoopInv

\* The loop of main.c starts with nothing read and nothing written.
LEMMA LoopStarts == LoopInit => LoopInv
<1> SUFFICES ASSUME LoopInit PROVE LoopInv
  OBVIOUS
<1>1. <<>> \in Seq(Nat) /\ Len(<<>>) = 0 /\ DOMAIN <<>> = {} /\ Range(<<>>) = {} /\ Increasing(<<>>)
  BY EmptySeq DEF Range, Increasing
<1>2. Written = 0
  BY DEF LoopInit, Written
<1>3. LoopTypes
  BY <1>1, <1>2 DEF LoopInit, LoopTypes
<1>4. LineInv
  BY <1>1, <1>2 DEF LoopInit, LineInv, Less
<1>5. 1 .. 0 = {}
  OBVIOUS
<1>6. AllInv
  BY <1>1, <1>2, <1>5 DEF LoopInit, AllInv
<1> QED
  BY <1>3, <1>4, <1>6 DEF LoopInv

\* A byte read goes behind those of buff.
LEMMA ReadKeeps ==
  ASSUME LoopInv, ReadByte
  PROVE  LoopInv'
<1> DEFINE h == Head(input)
           n == Len(buff)
<1>1. /\ loopPc = "read" /\ input # <<>> /\ input' = Tail(input) /\ buff' = Append(buff, h)
      /\ loopPc' \in {"read", "overrun"}
      /\ UNCHANGED <<output, wire, flushed, ret, arrived>>
  BY DEF ReadByte, deviceVars
<1>2. /\ input \in Seq(Nat) /\ output \in Seq(Nat) /\ buff \in Seq(Nat) /\ wire \in Seq(Nat)
      /\ ret = 0 /\ n \in Nat /\ DOMAIN buff = 1 .. n /\ Written = 0 /\ Written' = 0
  BY <1>1, LenProperties DEF LoopInv, LoopTypes, Written
<1>3. /\ Tail(input) \in Seq(Nat) /\ h \in Nat /\ Range(input) = {h} \cup Range(Tail(input))
      /\ Increasing(Tail(input)) /\ Less({h}, Range(Tail(input)))
  BY <1>1, <1>2, RangeOfTail, TailOfIncreasing DEF LoopInv, LineInv
<1> HIDE DEF h, n
<1>4. Less(Range(wire) \cup Range(output) \cup Range(buff), {h} \cup Range(Tail(input)))
  BY <1>3 DEF LoopInv, LineInv
<1>5. /\ buff' \in Seq(Nat) /\ DOMAIN buff' = 1 .. (n + 1) /\ Len(buff') = n + 1
      /\ \A i \in 1 .. n : buff'[i] = buff[i]
      /\ buff'[n + 1] = h
      /\ Range(buff') = Range(buff) \cup {h} /\ Increasing(buff')
  <2>1. buff' \in Seq(Nat) /\ Range(buff') = Range(buff) \cup {h}
    BY <1>1, <1>2, <1>3, RangeOfAppend, AppendProperties
  <2>2. Less(Range(buff), {h})
    BY <1>4 DEF Less
  <2>3. Increasing(buff')
    BY <1>1, <1>2, <1>3, <2>2, AppendToIncreasing DEF LoopInv, LineInv
  <2>4. /\ Len(buff') = n + 1 /\ buff'[n + 1] = h
        /\ \A i \in 1 .. n : buff'[i] = buff[i]
    BY <1>1, <1>2, <1>3, AppendProperties DEF n
  <2>5. DOMAIN buff' = 1 .. (n + 1)
    BY <2>1, <2>4, LenProperties
  <2> QED
    BY <2>1, <2>3, <2>4, <2>5
<1>6. LoopTypes'
  BY <1>1, <1>2, <1>3, <1>5 DEF LoopInv, LoopTypes
<1>7. LineInv'
  <2>1. Less(Range(wire), Range(output)) /\ Increasing(wire) /\ Increasing(output)
    BY DEF LoopInv, LineInv
  <2>2. ASSUME NEW x \in Range(wire) \cup Range(output), NEW i \in DOMAIN buff' PROVE x < buff'[i]
    <3>1. CASE i \in 1 .. n
      BY <1>2, <1>5, <3>1 DEF LoopInv, LineInv
    <3>2. CASE i = n + 1
      BY <1>4, <1>5, <3>2 DEF Less
    <3> QED
      BY <1>2, <1>5, <3>1, <3>2
  <2>3. Less(Range(wire) \cup Range(output) \cup (Range(buff) \cup {h}), Range(Tail(input)))
    BY <1>3, <1>4 DEF Less
  <2> QED
    BY <1>1, <1>3, <1>5, <2>1, <2>2, <2>3 DEF LineInv
<1>8. AllInv'
  <2>1. Range(wire) \cup Range(output) \cup flushed \cup Range(buff) \cup Range(input) = 1 .. arrived
    BY DEF LoopInv, AllInv
  <2>2. Range(buff') \cup Range(input') = Range(buff) \cup Range(input)
    BY <1>1, <1>3, <1>5
  <2>3. \A i \in DOMAIN buff' : ~(i <= 0)
    BY <1>2, <1>5
  <2> QED
    BY <1>1, <1>2, <2>1, <2>2, <2>3 DEF AllInv
<1> QED
  BY <1>6, <1>7, <1>8 DEF LoopInv

\* A byte written is the next of buff.
LEMMA WriteKeeps ==
  ASSUME LoopInv, WriteByte
  PROVE  LoopInv'
<1>b. PICK b : b = buff[ret + 1]
  OBVIOUS
<1>1. /\ loopPc = "write" /\ loopPc' = "flush" /\ ret < Len(buff) /\ output' = Append(output, b)
      /\ UNCHANGED <<input, wire, flushed, buff, ret, arrived>>
  BY <1>b DEF WriteByte
<1>2. /\ input \in Seq(Nat) /\ output \in Seq(Nat) /\ buff \in Seq(Nat) /\ wire \in Seq(Nat)
      /\ ret \in Nat /\ DOMAIN buff = 1 .. Len(buff) /\ Len(buff) \in Nat
      /\ Written = ret /\ Written' = ret + 1
  BY <1>1, LenProperties DEF LoopInv, LoopTypes, Written
<1>3. ret + 1 \in DOMAIN buff /\ b \in Nat /\ b \in Range(buff)
  <2>1. ret + 1 \in DOMAIN buff
    BY <1>1, <1>2
  <2> QED
    BY <1>b, <1>2, <2>1, ElementOfSeq DEF Range
<1>4. Less(Range(wire) \cup Range(output), {b})
  <2>1. \A x \in Range(wire) \cup Range(output) : \A i \in DOMAIN buff : i > Written => x < buff[i]
    BY DEF LoopInv, LineInv
  <2>2. ret + 1 > Written
    BY <1>2
  <2>3. ASSUME NEW x \in Range(wire) \cup Range(output) PROVE x < b
    BY <1>b, <1>3, <2>1, <2>2
  <2> QED
    BY <2>3 DEF Less
<1>5. output' \in Seq(Nat) /\ Range(output') = Range(output) \cup {b} /\ Increasing(output')
  <2>1. Less(Range(output), {b})
    BY <1>4 DEF Less
  <2> QED
    BY <1>1, <1>2, <1>3, <2>1, AppendProperties, RangeOfAppend, AppendToIncreasing DEF LoopInv, LineInv
<1>6. \A i \in DOMAIN buff : i > ret + 1 => b < buff[i]
  BY <1>b, <1>2, <1>3 DEF LoopInv, LineInv, Increasing
<1>7. LoopTypes'
  BY <1>1, <1>2, <1>5 DEF LoopInv, LoopTypes
<1>8. LineInv'
  <2>1. Increasing(wire) /\ Increasing(buff) /\ Increasing(input)
        /\ Less(Range(wire) \cup Range(output) \cup Range(buff), Range(input))
        /\ Less(Range(wire), Range(output))
    BY DEF LoopInv, LineInv
  <2>2. Less(Range(wire), Range(output) \cup {b})
    BY <1>4, <2>1 DEF Less
  <2>3. Less(Range(wire) \cup (Range(output) \cup {b}) \cup Range(buff), Range(input))
    BY <1>3, <2>1 DEF Less
  <2>4. ASSUME NEW x \in Range(wire) \cup (Range(output) \cup {b}), NEW i \in DOMAIN buff, i > ret + 1
        PROVE  x < buff[i]
    <3>1. i > Written
      BY <1>2, <2>4
    <3> QED
      BY <1>6, <2>4, <3>1 DEF LoopInv, LineInv
  <2> QED
    BY <1>1, <1>2, <1>5, <2>1, <2>2, <2>3, <2>4 DEF LineInv
<1>9. AllInv'
  <2>1. /\ Range(wire) \cup Range(output) \cup flushed \cup Range(buff) \cup Range(input) = 1 .. arrived
        /\ \A i \in DOMAIN buff : i <= ret => buff[i] \in Range(wire) \cup Range(output) \cup flushed
    BY <1>2 DEF LoopInv, AllInv
  <2>2. Range(wire) \cup (Range(output) \cup {b}) \cup flushed \cup Range(buff) \cup Range(input) = 1 .. arrived
    BY <1>3, <2>1
  <2>3. \A i \in DOMAIN buff : i <= ret + 1 => i <= ret \/ buff[i] = b
    <3>1. DOMAIN buff = 1 .. Len(buff) /\ Len(buff) \in Nat /\ ret \in Nat
      BY <1>2
    <3>2. \A i \in 1 .. Len(buff) : i <= ret + 1 => i <= ret \/ i = ret + 1
      BY <3>1
    <3> QED
      BY <1>b, <3>1, <3>2
  <2>4. \A i \in DOMAIN buff : i <= ret + 1 => buff[i] \in Range(wire) \cup (Range(output) \cup {b}) \cup flushed
    BY <2>1, <2>3
  <2>5. /\ Range(output') = Range(output) \cup {b} /\ Written' = ret + 1
        /\ wire' = wire /\ flushed' = flushed /\ buff' = buff /\ input' = input /\ arrived' = arrived
    BY <1>1, <1>2, <1>5
  <2> QED
    BY <2>2, <2>4, <2>5 DEF AllInv
<1> QED
  BY <1>7, <1>8, <1>9 DEF LoopInv

\* The flush discards what is not sent yet.
LEMMA FlushKeeps ==
  ASSUME LoopInv, FlushOutput
  PROVE  LoopInv'
<1>1. /\ loopPc = "flush" /\ loopPc' = "write" /\ ret' = ret + 1 /\ output' = <<>>
      /\ flushed' = flushed \cup Range(output)
      /\ UNCHANGED <<input, wire, buff, arrived>>
  BY DEF FlushOutput
<1>2. <<>> \in Seq(Nat) /\ Range(<<>>) = {} /\ Increasing(<<>>)
  BY EmptySeq DEF Range, Increasing
<1>3. Written' = Written /\ ret' \in Nat /\ Range(output) \subseteq Nat
  BY <1>1, ElementOfSeq DEF Written, LoopInv, LoopTypes, Range
<1>4. LoopTypes'
  BY <1>1, <1>2, <1>3 DEF LoopInv, LoopTypes
<1>5. LineInv'
  BY <1>1, <1>2, <1>3 DEF LoopInv, LineInv, Less
<1>6. AllInv'
  BY <1>1, <1>2, <1>3 DEF LoopInv, AllInv
<1> QED
  BY <1>4, <1>5, <1>6 DEF LoopInv

\* At the end of a round every byte of buff was sent, is on its way or discarded.
LEMMA DoneKeeps ==
  ASSUME LoopInv, WriteDone
  PROVE  LoopInv'
<1>1. /\ loopPc = "write" /\ loopPc' = "clear" /\ ret = Len(buff) /\ ret' = 0 /\ buff' = <<>>
      /\ UNCHANGED <<input, output, wire, flushed, arrived>>
  BY DEF WriteDone, deviceVars
<1>2. /\ <<>> \in Seq(Nat) /\ Range(<<>>) = {} /\ Increasing(<<>>) /\ Len(<<>>) = 0 /\ DOMAIN <<>> = {}
  BY EmptySeq DEF Range, Increasing
<1>3. Written = ret /\ Written' = 0 /\ DOMAIN buff = 1 .. Len(buff) /\ Len(buff) \in Nat
  BY <1>1, LenProperties DEF Written, LoopInv, LoopTypes
<1>4. LoopTypes'
  BY <1>1, <1>2, <1>3 DEF LoopInv, LoopTypes
<1>5. LineInv'
  BY <1>1, <1>2, <1>3 DEF LoopInv, LineInv, Less
<1>6. Range(buff) \subseteq Range(wire) \cup Range(output) \cup flushed
  BY <1>1, <1>3 DEF LoopInv, AllInv, Range
<1>7. AllInv'
  BY <1>1, <1>2, <1>6 DEF LoopInv, AllInv
<1> QED
  BY <1>4, <1>5, <1>7 DEF LoopInv

\* A byte that arrives is the largest.
LEMMA ArriveKeeps ==
  ASSUME LoopInv, ByteArrives
  PROVE  LoopInv'
<1> DEFINE a == arrived + 1
<1>1. /\ arrived' = a /\ input' = Append(input, a)
      /\ UNCHANGED <<loopPc, output, wire, flushed, buff, ret>>
  BY DEF ByteArrives, deviceVars
<1>2. /\ input \in Seq(Nat) /\ arrived \in Nat /\ a \in Nat /\ Written' = Written
      /\ Range(wire) \cup Range(output) \cup flushed \cup Range(buff) \cup Range(input) = 1 .. arrived
      /\ 1 .. a = (1 .. arrived) \cup {a}
  BY <1>1 DEF LoopInv, LoopTypes, AllInv, Written
<1>3. Less(1 .. arrived, {a})
  BY <1>2 DEF Less
<1> HIDE DEF a
<1>4. input' \in Seq(Nat) /\ Range(input') = Range(input) \cup {a} /\ Increasing(input')
  <2>1. Less(Range(input), {a}) /\ Increasing(input)
    BY <1>2, <1>3 DEF Less, LoopInv, LineInv
  <2> QED
    BY <1>1, <1>2, <2>1, AppendProperties, RangeOfAppend, AppendToIncreasing
<1>5. LoopTypes'
  BY <1>1, <1>2, <1>4 DEF LoopInv, LoopTypes
<1>6. Less(Range(wire) \cup Range(output) \cup Range(buff), Range(input) \cup {a})
  BY <1>2, <1>3 DEF LoopInv, LineInv, Less
<1>7. LineInv'
  BY <1>1, <1>2, <1>4, <1>6 DEF LoopInv, LineInv
<1>8. AllInv'
  BY <1>1, <1>2, <1>4 DEF LoopInv, AllInv
<1> QED
  BY <1>5, <1>7, <1>8 DEF LoopInv

\* The byte sent is the one in front.
LEMMA TransmitKeeps ==
  ASSUME LoopInv, Transmit
  PROVE  LoopInv'
<1> DEFINE h == Head(output)
<1>1. /\ output # <<>> /\ wire' = Append(wire, h) /\ output' = Tail(output)
      /\ UNCHANGED <<loopPc, input, flushed, buff, ret, arrived>>
  BY DEF Transmit
<1>2. /\ wire \in Seq(Nat) /\ output \in Seq(Nat) /\ Written' = Written
      /\ Increasing(wire) /\ Increasing(output) /\ Less(Range(wire), Range(output))
  BY <1>1 DEF LoopInv, LoopTypes, LineInv, Written
<1>3. /\ output' \in Seq(Nat) /\ h \in Nat /\ Range(output) = {h} \cup Range(output')
      /\ Increasing(output') /\ Less({h}, Range(output'))
  BY <1>1, <1>2, RangeOfTail, TailOfIncreasing
<1> HIDE DEF h
<1>4. wire' \in Seq(Nat) /\ Range(wire') = Range(wire) \cup {h} /\ Increasing(wire')
  <2>1. Less(Range(wire), {h})
    BY <1>2, <1>3 DEF Less
  <2> QED
    BY <1>1, <1>2, <1>3, <2>1, AppendProperties, RangeOfAppend, AppendToIncreasing
<1>5. Range(wire') \cup Range(output') = Range(wire) \cup Range(output)
  BY <1>3, <1>4
<1>6. Less(Range(wire'), Range(output'))
  BY <1>2, <1>3, <1>4 DEF Less
<1>7. LoopTypes'
  BY <1>1, <1>2, <1>3, <1>4 DEF LoopInv, LoopTypes
<1>8. LineInv'
  BY <1>1, <1>2, <1>3, <1>4, <1>5, <1>6 DEF LoopInv, LineInv
<1>9. AllInv'
  BY <1>1, <1>2, <1>5 DEF LoopInv, AllInv
<1> QED
  BY <1>7, <1>8, <1>9 DEF LoopInv

\* Every step keeps the invariant.
LEMMA LoopStep == LoopInv /\ [LoopNext]_loopVars => LoopInv'
<1> SUFFICES ASSUME LoopInv, [LoopNext]_loopVars PROVE LoopInv'
  OBVIOUS
<1>1. LoopTypes
  BY DEF LoopInv
<1>2. CASE SetAsync \/ TestFlag \/ ClearFlag
  BY <1>1, <1>2, LoopKept DEF SetAsync, TestFlag, ClearFlag, deviceVars, LoopTypes
<1>3. CASE ReadEmpty
  BY <1>1, <1>3, LoopKept DEF ReadEmpty, deviceVars, LoopTypes
<1>4. CASE Handler \/ UNCHANGED loopVars
  <2>1. UNCHANGED <<loopPc, input, output, wire, flushed, buff, ret, arrived>>
    BY <1>4 DEF Handler, deviceVars, loopVars
  <2>2. Written' = Written
    BY <2>1 DEF Written
  <2>3. LoopTypes' /\ LineInv' /\ AllInv'
    BY <2>1, <2>2 DEF LoopInv, LoopTypes, LineInv, AllInv
  <2> QED
    BY <2>3 DEF LoopInv
<1> QED
  BY <1>2, <1>3, <1>4, ReadKeeps, WriteKeeps, FlushKeeps, DoneKeeps, ArriveKeeps, TransmitKeeps
     DEF LoopNext, MainStep

\* The inductive invariant holds in every state.
THEOREM LoopInvariant == LoopSpec => []LoopInv
  BY LoopStarts, LoopStep, PTL DEF LoopSpec

\* What main.c of Uart v1.0 sends back is what came, in order and nothing twice,
\* and every byte is accounted for, for every number of bytes and every buffer.
THEOREM EchoInOrder == LoopSpec => []EchoedInOrder
<1>1. LoopInv => EchoedInOrder
  <2> SUFFICES ASSUME LoopInv PROVE EchoedInOrder
    OBVIOUS
  <2>1. wire \in Seq(Nat) /\ output \in Seq(Nat)
    BY DEF LoopInv, LoopTypes
  <2>2. Range(wire \o output) = Range(wire) \cup Range(output) /\ Increasing(wire \o output)
    BY <2>1, RangeOfConcat, ConcatIncreasing DEF LoopInv, LineInv
  <2>3. Range(wire) \cup Range(output) \cup flushed \cup Range(buff) \cup Range(input) = 1 .. arrived
    BY DEF LoopInv, AllInv
  <2> QED
    BY <2>2, <2>3 DEF EchoedInOrder, Increasing
<1> QED
  BY <1>1, LoopInvariant, PTL

-----------------------------------------------------------------------------
(* Sorting.                                                                *)

\* An exchange of two elements keeps how often each value is there.
LEMMA ExchangeCounts ==
  ASSUME NEW n \in Nat, NEW d, DOMAIN d = Indices(n),
         NEW i \in Indices(n), NEW j \in Indices(n), i # j, NEW v
  PROVE  Count(Exchange(d, i, j), v) = Count(d, v)
<1> DEFINE e == Exchange(d, i, j)
           S == {k \in DOMAIN d : d[k] = v}
           T == {k \in DOMAIN e : e[k] = v}
           f == [k \in S |-> IF k = i THEN j ELSE IF k = j THEN i ELSE k]
<1>1. /\ DOMAIN e = Indices(n) /\ e[i] = d[j] /\ e[j] = d[i]
      /\ \A k \in Indices(n) : k # i /\ k # j => e[k] = d[k]
  BY DEF Exchange
<1>2. IsFiniteSet(S)
  <2>1. n - 1 \in Int /\ 0 \in Int
    OBVIOUS
  <2>2. IsFiniteSet(Indices(n))
    BY <2>1, FS_Interval DEF Indices
  <2> QED
    BY <2>2, FS_Subset
<1>3. f \in [S -> T]
  BY <1>1
<1>4. \A a, b \in S : f[a] = f[b] => a = b
  OBVIOUS
<1>5. \A t \in T : \E s \in S : f[s] = t
  <2> SUFFICES ASSUME NEW t \in T PROVE \E s \in S : f[s] = t
    OBVIOUS
  <2>1. CASE t = i
    <3>1. j \in S /\ f[j] = t
      BY <1>1, <2>1
    <3> QED
      BY <3>1
  <2>2. CASE t = j
    <3>1. i \in S /\ f[i] = t
      BY <1>1, <2>2
    <3> QED
      BY <3>1
  <2>3. CASE t # i /\ t # j
    <3>1. t \in S /\ f[t] = t
      BY <1>1, <2>3
    <3> QED
      BY <3>1
  <2> QED
    BY <2>1, <2>2, <2>3
<1>6. ExistsBijection(S, T)
  <2>1. f \in Bijection(S, T)
    BY <1>3, <1>4, <1>5, Fun_IsBij
  <2> QED
    BY <2>1 DEF ExistsBijection
<1>7. Cardinality(T) = Cardinality(S)
  BY <1>2, <1>6, FS_Bijection
<1> QED
  BY <1>7 DEF Count

\* The parts of the arrays' invariant.
SortTypes ==
  /\ algorithm \in {"bubble", "choise", "rev"} /\ phase \in {"outer", "inner", "done"}
  /\ size \in Nat /\ data \in [Indices(size) -> Values] /\ given \in [Indices(size) -> Values]
  /\ outLoop \in Nat /\ inLoop \in Nat /\ index \in Nat

\* The inner loop is behind the outer one and inside the array, revstr has none.
NestedInv ==
  /\ phase = "inner" =>
       algorithm # "rev" /\ outLoop < inLoop /\ inLoop < size /\ index < inLoop
  /\ algorithm # "rev" /\ phase = "done" => outLoop >= size - 1

SameValues == \A v : Count(data, v) = Count(given, v)

\* The elements before outLoop are in their places, and that of outLoop is the
\* least as far as the inner loop has come.
BubbleInv ==
  algorithm = "bubble" =>
    /\ \A i, j \in Indices(size) : i < j /\ i < outLoop => data[i] <= data[j]
    /\ phase = "inner" =>
         \A j \in Indices(size) : outLoop < j /\ j < inLoop => data[outLoop] <= data[j]

\* Two elements are in order after the one round of the inner loop.
ChoiseInv == algorithm = "choise" /\ size = 2 /\ outLoop >= 1 => data[0] <= data[1]

\* The elements before index, and as many at the end, are turned round.
Turned(i) == i < index \/ i >= size - index
RevInv ==
  algorithm = "rev" =>
    /\ 2 * index <= size /\ (phase = "done" => size <= 2 * index + 1)
    /\ \A i \in Indices(size) : data[i] = IF Turned(i) THEN given[size - 1 - i] ELSE given[i]

SortInv == SortTypes /\ NestedInv /\ SameValues /\ BubbleInv /\ ChoiseInv /\ RevInv

LEMMA SortInvInit == SortInit => SortInv
<1> SUFFICES ASSUME SortInit PROVE SortInv
  OBVIOUS
<1>1. SortTypes
  BY SortAssumption DEF SortInit, SortTypes
<1>2. NestedInv /\ SameValues
  BY DEF SortInit, NestedInv, SameValues
<1>3. BubbleInv /\ ChoiseInv
  <2>1. phase = "outer" /\ outLoop = 0 /\ \A i \in Indices(size) : ~(i < outLoop)
    BY <1>1 DEF SortInit, SortTypes, Indices
  <2> QED
    BY <2>1 DEF BubbleInv, ChoiseInv
<1>4. RevInv
  <2>1. \A i \in Indices(size) : ~Turned(i)
    BY <1>1 DEF SortInit, SortTypes, Indices, Turned
  <2> QED
    BY <1>1, <2>1 DEF SortInit, SortTypes, RevInv
<1> QED
  BY <1>1, <1>2, <1>3, <1>4 DEF SortInv

\* What an exchange leaves.
LEMMA ExchangeIs ==
  ASSUME NEW n \in Nat, NEW d \in [Indices(n) -> Values],
         NEW i \in Indices(n), NEW j \in Indices(n), i # j,
         NEW e, e = Exchange(d, i, j)
  PROVE  /\ e \in [Indices(n) -> Values]
         /\ e[i] = d[j] /\ e[j] = d[i]
         /\ \A k \in Indices(n) : k # i /\ k # j => e[k] = d[k]
BY DEF Exchange

LEMMA OuterKeeps ==
  ASSUME SortInv, Outer
  PROVE  SortInv'
<1>1. /\ UNCHANGED <<algorithm, size, data, outLoop, given>> /\ phase = "outer"
      /\ \/ outLoop < size - 1 /\ phase' = "inner" /\ inLoop' = outLoop + 1 /\ index' = outLoop
         \/ ~(outLoop < size - 1) /\ phase' = "done" /\ UNCHANGED <<inLoop, index>>
      /\ algorithm # "rev"
  BY DEF Outer
<1>2. SortTypes'
  BY <1>1 DEF SortInv, SortTypes
<1>3. NestedInv'
  BY <1>1 DEF SortInv, SortTypes, NestedInv
<1>4. SameValues' /\ ChoiseInv' /\ RevInv'
  BY <1>1 DEF SortInv, SameValues, ChoiseInv, RevInv
<1>5. BubbleInv'
  BY <1>1 DEF SortInv, SortTypes, BubbleInv, Indices
<1> QED
  BY <1>2, <1>3, <1>4, <1>5 DEF SortInv

LEMMA BubbleKeeps ==
  ASSUME SortInv, BubbleSort
  PROVE  SortInv'
<1>1. /\ phase = "inner" /\ algorithm = "bubble"
      /\ UNCHANGED <<algorithm, size, index, given>>
      /\ inLoop' = inLoop + 1
      /\ \/ inLoop + 1 < size /\ UNCHANGED <<phase, outLoop>>
         \/ inLoop + 1 = size /\ phase' = "outer" /\ outLoop' = outLoop + 1
  BY DEF BubbleSort, NextInner, SortInv, NestedInv, SortTypes
<1>0. PICK n \in Nat : n = size
  BY DEF SortInv, SortTypes
<1>2. PICK d \in [Indices(n) -> Values] : n = size /\ d = data
  BY <1>0 DEF SortInv, SortTypes
<1>3. PICK i \in Indices(n), j \in Indices(n) :
        i = outLoop /\ j = inLoop /\ i < j /\ i # j /\ i \in Nat /\ j \in Nat
  BY <1>1, <1>2 DEF SortInv, SortTypes, NestedInv, Indices
<1>4. PICK e : e = data'
  OBVIOUS
<1>5. \/ e = d /\ ~(d[i] > d[j])
      \/ e = Exchange(d, i, j) /\ d[i] > d[j]
  BY <1>2, <1>3, <1>4 DEF BubbleSort
<1>6. /\ e \in [Indices(n) -> Values] /\ e[i] <= e[j]
      /\ \A k \in Indices(n) : k # i /\ k # j => e[k] = d[k]
      /\ (e[i] = d[i] /\ e[j] = d[j]) \/ (e[i] = d[j] /\ e[j] = d[i] /\ d[j] <= d[i])
  <2>1. d[i] \in Int /\ d[j] \in Int
    BY SortAssumption
  <2>2. CASE e = d /\ ~(d[i] > d[j])
    BY <2>1, <2>2
  <2>3. CASE e = Exchange(d, i, j) /\ d[i] > d[j]
    BY <1>3, <2>1, <2>3, ExchangeIs
  <2> QED
    BY <1>5, <2>2, <2>3
<1>7. \A k \in Indices(n) : e[k] \in Int /\ d[k] \in Int
  BY <1>6, SortAssumption
<1>8. SortTypes'
  BY <1>1, <1>2, <1>4, <1>6 DEF SortInv, SortTypes
<1>9. NestedInv'
  BY <1>1 DEF SortInv, SortTypes, NestedInv
<1>10. SameValues'
  <2>1. \A v : Count(d, v) = Count(given, v)
    BY <1>2 DEF SortInv, SameValues
  <2>2. ASSUME NEW v PROVE Count(e, v) = Count(d, v)
    BY <1>3, <1>5, ExchangeCounts
  <2> QED
    BY <1>1, <1>4, <2>1, <2>2 DEF SameValues
<1>11. ChoiseInv' /\ RevInv'
  BY <1>1 DEF ChoiseInv, RevInv
<1>12. /\ \A k, l \in Indices(n) : k < l /\ k < i => d[k] <= d[l]
       /\ \A l \in Indices(n) : i < l /\ l < j => d[i] <= d[l]
  BY <1>1, <1>2, <1>3 DEF SortInv, BubbleInv
<1>13. ASSUME NEW k \in Indices(n), NEW l \in Indices(n), k < l, k < i PROVE e[k] <= e[l]
  <2>1. e[k] = d[k] /\ k # l
    BY <1>3, <1>6, <1>13 DEF Indices
  <2>2. d[k] <= d[l] /\ d[k] <= d[i] /\ d[k] <= d[j]
    BY <1>3, <1>12, <1>13 DEF Indices
  <2>3. e[l] = d[l] \/ e[l] = d[i] \/ e[l] = d[j]
    BY <1>6
  <2> QED
    BY <2>1, <2>2, <2>3
<1>14. ASSUME NEW l \in Indices(n), i < l, l < j + 1 PROVE e[i] <= e[l]
  <2>1. CASE l = j
    BY <1>6, <2>1
  <2>2. CASE l # j
    <3>1. l # i /\ l < j
      BY <1>3, <1>14, <2>2 DEF Indices
    <3>2. e[l] = d[l] /\ d[i] <= d[l]
      BY <1>6, <1>12, <1>14, <2>2, <3>1
    <3>3. e[i] <= d[i]
      BY <1>6, <1>7
    <3> QED
      BY <1>7, <3>2, <3>3
  <2> QED
    BY <2>1, <2>2
<1>15. BubbleInv'
  <2>1. CASE inLoop + 1 < size /\ UNCHANGED <<phase, outLoop>>
    BY <1>1, <1>2, <1>3, <1>4, <1>13, <1>14, <2>1 DEF BubbleInv
  <2>2. CASE inLoop + 1 = size /\ phase' = "outer" /\ outLoop' = outLoop + 1
    <3>1. ASSUME NEW k \in Indices(n), NEW l \in Indices(n), k < l, k < i + 1
          PROVE  e[k] <= e[l]
      <4>1. CASE k < i
        BY <1>13, <3>1, <4>1
      <4>2. CASE k = i
        <5>1. l < j + 1
          BY <1>2, <1>3, <2>2 DEF Indices
        <5> QED
          BY <1>14, <3>1, <4>2, <5>1
      <4> QED
        BY <1>3, <3>1, <4>1, <4>2 DEF Indices
    <3> QED
      BY <1>1, <1>2, <1>3, <1>4, <2>2, <3>1 DEF BubbleInv
  <2> QED
    BY <1>1, <2>1, <2>2
<1> QED
  BY <1>8, <1>9, <1>10, <1>11, <1>15 DEF SortInv

LEMMA ChoiseKeeps ==
  ASSUME SortInv, ChoiseSort
  PROVE  SortInv'
<1>1. /\ phase = "inner" /\ algorithm = "choise"
      /\ UNCHANGED <<algorithm, size, given>>
      /\ index' = IF data[index] > data[inLoop] THEN inLoop ELSE index
      /\ inLoop' = inLoop + 1
      /\ \/ inLoop + 1 < size /\ UNCHANGED <<phase, outLoop>>
         \/ inLoop + 1 = size /\ phase' = "outer" /\ outLoop' = outLoop + 1
  BY DEF ChoiseSort, NextInner, SortInv, NestedInv, SortTypes
<1>0. PICK n \in Nat : n = size
  BY DEF SortInv, SortTypes
<1>2. PICK d \in [Indices(n) -> Values] : n = size /\ d = data
  BY <1>0 DEF SortInv, SortTypes
<1>3. PICK i \in Indices(n), j \in Indices(n), k \in Indices(n) :
        i = outLoop /\ j = inLoop /\ k = index' /\ i < j /\ k < j + 1
  BY <1>1, <1>2 DEF SortInv, SortTypes, NestedInv, Indices
<1>4. PICK e : e = data'
  OBVIOUS
<1>5. e = IF i # k THEN Exchange(d, i, k) ELSE d
  BY <1>2, <1>3, <1>4 DEF ChoiseSort
<1>6. e \in [Indices(n) -> Values]
  <2>1. CASE i # k
    BY <1>5, <2>1, ExchangeIs
  <2>2. CASE i = k
    BY <1>5, <2>2
  <2> QED
    BY <2>1, <2>2
<1>7. SortTypes'
  BY <1>1, <1>2, <1>3, <1>4, <1>6 DEF SortInv, SortTypes, Indices
<1>8. NestedInv'
  BY <1>1, <1>3 DEF SortInv, SortTypes, NestedInv, Indices
<1>9. SameValues'
  <2>1. \A v : Count(d, v) = Count(given, v)
    BY <1>2 DEF SortInv, SameValues
  <2>2. ASSUME NEW v PROVE Count(e, v) = Count(d, v)
    BY <1>3, <1>5, ExchangeCounts
  <2> QED
    BY <1>1, <1>4, <2>1, <2>2 DEF SameValues
<1>10. BubbleInv' /\ RevInv'
  BY <1>1 DEF BubbleInv, RevInv
<1>11. ChoiseInv'
  <2> SUFFICES ASSUME size = 2 PROVE e[0] <= e[1]
    BY <1>1, <1>4 DEF ChoiseInv
  <2>1. i = 0 /\ j = 1 /\ 0 \in Indices(n) /\ 1 \in Indices(n)
    BY <1>2, <1>3 DEF Indices
  <2>2. d[0] \in Int /\ d[1] \in Int
    BY <2>1, SortAssumption
  <2>3. index = 0
    BY <1>1, <1>3, <2>1 DEF SortInv, SortTypes, NestedInv
  <2>4. CASE d[0] > d[1]
    <3>1. k = 1 /\ i # k
      BY <1>1, <1>2, <1>3, <2>1, <2>3, <2>4
    <3>2. e = Exchange(d, i, k)
      BY <1>5, <3>1
    <3>3. e[i] = d[k] /\ e[k] = d[i]
      BY <3>1, <3>2, ExchangeIs
    <3> QED
      BY <2>1, <2>2, <2>4, <3>1, <3>3
  <2>5. CASE ~(d[0] > d[1])
    <3>1. k = i
      BY <1>1, <1>2, <1>3, <2>1, <2>3, <2>5
    <3> QED
      BY <1>5, <2>2, <2>5, <3>1
  <2> QED
    BY <2>4, <2>5
<1> QED
  BY <1>7, <1>8, <1>9, <1>10, <1>11 DEF SortInv

LEMMA RevKeeps ==
  ASSUME SortInv, revstr
  PROVE  SortInv'
<1>1. /\ phase = "outer" /\ algorithm = "rev"
      /\ UNCHANGED <<algorithm, size, outLoop, inLoop, given>>
  BY DEF revstr
<1>0. PICK n \in Nat : n = size
  BY DEF SortInv, SortTypes
<1>2. PICK d \in [Indices(n) -> Values] : n = size /\ d = data
  BY <1>0 DEF SortInv, SortTypes
<1>3. PICK m \in Nat : m = index /\ 2 * m <= n
  BY <1>1, <1>2 DEF SortInv, SortTypes, RevInv
<1>4. PICK h \in Nat : h = n \div 2 /\ 2 * h <= n /\ n <= 2 * h + 1
  BY <1>2
<1>5. SameValues /\ SortTypes /\ RevInv
  BY DEF SortInv
<1>6. CASE m < h
  <2>1. PICK i \in Indices(n), j \in Indices(n) : i = m /\ j = n - m - 1 /\ i # j /\ i < j
    BY <1>3, <1>4, <1>6 DEF Indices
  <2>2. PICK e : e = Exchange(d, i, j)
    OBVIOUS
  <2>3. data' = e /\ index' = m + 1 /\ phase' = phase
    BY <1>2, <1>3, <1>4, <1>6, <2>1, <2>2 DEF revstr
  <2>4. /\ e \in [Indices(n) -> Values] /\ e[i] = d[j] /\ e[j] = d[i]
        /\ \A k \in Indices(n) : k # i /\ k # j => e[k] = d[k]
    BY <2>1, <2>2, ExchangeIs
  <2>5. SortTypes'
    BY <1>1, <1>2, <1>5, <2>3, <2>4 DEF SortTypes
  <2>6. SameValues'
    <3>1. ASSUME NEW v PROVE Count(e, v) = Count(d, v)
      BY <2>1, <2>2, ExchangeCounts
    <3> QED
      BY <1>1, <1>2, <1>5, <2>3, <3>1 DEF SameValues
  <2>7. NestedInv' /\ BubbleInv' /\ ChoiseInv'
    BY <1>1, <2>3 DEF NestedInv, BubbleInv, ChoiseInv
  <2>8. 2 * (m + 1) <= n
    BY <1>4, <1>6
  <2>9. ASSUME NEW k \in Indices(n)
        PROVE  e[k] = IF k < m + 1 \/ k >= n - (m + 1) THEN given[n - 1 - k] ELSE given[k]
    <3>1. \A l \in Indices(n) :
            d[l] = IF l < m \/ l >= n - m THEN given[n - 1 - l] ELSE given[l]
      BY <1>1, <1>2, <1>3, <1>5 DEF RevInv, Turned
    <3>2. CASE k = i
      <4>1. ~(j < m) /\ ~(j >= n - m) /\ n - 1 - k = j /\ k < m + 1
        BY <1>3, <2>1, <3>2
      <4>2. d[j] = given[j]
        BY <3>1, <4>1
      <4> QED
        BY <2>4, <3>2, <4>1, <4>2
    <3>3. CASE k = j
      <4>1. ~(i < m) /\ ~(i >= n - m) /\ n - 1 - k = i /\ k >= n - (m + 1)
        BY <1>3, <2>1, <2>8, <3>3
      <4>2. d[i] = given[i]
        BY <3>1, <4>1
      <4> QED
        BY <2>4, <3>3, <4>1, <4>2
    <3>4. CASE k # i /\ k # j
      <4>1. (k < m + 1 \/ k >= n - (m + 1)) <=> (k < m \/ k >= n - m)
        BY <1>3, <2>1, <3>4 DEF Indices
      <4> QED
        BY <2>4, <3>1, <3>4, <4>1
    <3> QED
      BY <3>2, <3>3, <3>4
  <2>10. RevInv'
    BY <1>1, <1>2, <2>3, <2>8, <2>9 DEF RevInv, Turned
  <2> QED
    BY <2>5, <2>6, <2>7, <2>10 DEF SortInv
<1>7. CASE ~(m < h)
  <2>1. phase' = "done" /\ UNCHANGED <<data, index>>
    BY <1>2, <1>3, <1>4, <1>7 DEF revstr
  <2>2. SortTypes'
    BY <1>1, <1>5, <2>1 DEF SortTypes
  <2>3. SameValues'
    BY <1>1, <1>5, <2>1 DEF SameValues
  <2>4. NestedInv' /\ BubbleInv' /\ ChoiseInv'
    BY <1>1, <2>1 DEF NestedInv, BubbleInv, ChoiseInv
  <2>5. n <= 2 * m + 1
    BY <1>4, <1>7
  <2>6. RevInv'
    BY <1>1, <1>2, <1>3, <1>5, <2>1, <2>5 DEF RevInv, Turned
  <2> QED
    BY <2>2, <2>3, <2>4, <2>6 DEF SortInv
<1> QED
  BY <1>6, <1>7

LEMMA SortInvNext == SortInv /\ [SortNext]_sortVars => SortInv'
<1>1. ASSUME SortInv, UNCHANGED sortVars PROVE SortInv'
  BY <1>1 DEF SortInv, SortTypes, NestedInv, SameValues, BubbleInv, ChoiseInv, RevInv, Turned,
              sortVars
<1> QED
  BY <1>1, OuterKeeps, BubbleKeeps, ChoiseKeeps, RevKeeps DEF SortNext

\* BubbleSort, ChoiseSort and revstr: the elements before outLoop are in order and the
\* least ones, the one at outLoop is the least as far as the inner loop has come; revstr
\* has turned round as many at both ends as index says.
THEOREM SortInvariant == SortSpec => []SortInv
BY SortInvInit, SortInvNext, PTL DEF SortSpec

\* bubbleSort.c, revstr.c: for arrays of any length and of any numbers, nothing is lost,
\* BubbleSort sorts, ChoiseSort sorts two elements, and revstr turns the array round.
THEOREM ArraysAreSorted == SortSpec => []SortedSoFar
<1>1. SortInv => SortedSoFar
  <2> SUFFICES ASSUME SortInv PROVE SortedSoFar
    OBVIOUS
  <2>0. SortTypes /\ NestedInv /\ SameValues /\ DOMAIN data = Indices(size)
    BY DEF SortInv, SortTypes
  <2>1. \A v \in Values \cup {0} : Count(data, v) = Count(given, v)
    BY <2>0 DEF SameValues
  <2>2. ASSUME algorithm = "bubble", NEW i \in Indices(size), NEW j \in Indices(size), i < j,
               i < outLoop \/ phase = "done"
        PROVE  data[i] <= data[j]
    <3>1. i < outLoop
      BY <2>0, <2>2 DEF SortTypes, NestedInv, Indices
    <3> QED
      BY <2>2, <3>1 DEF SortInv, BubbleInv
  <2>3. algorithm = "choise" /\ phase = "done" /\ size = 2 => data[0] <= data[1]
    BY <2>0 DEF SortInv, SortTypes, NestedInv, ChoiseInv
  <2>4. ASSUME algorithm = "rev", phase = "done", NEW i \in Indices(size)
        PROVE  data[i] = given[size - 1 - i]
    <3>1. /\ 2 * index <= size /\ size <= 2 * index + 1
          /\ data[i] = IF Turned(i) THEN given[size - 1 - i] ELSE given[i]
      BY <2>4 DEF SortInv, RevInv
    <3>2. ~Turned(i) => size - 1 - i = i
      BY <2>0, <3>1 DEF SortTypes, Turned, Indices
    <3> QED
      BY <3>1, <3>2
  <2> QED
    BY <2>0, <2>1, <2>2, <2>3, <2>4 DEF SortedSoFar
<1> QED
  BY <1>1, SortInvariant, PTL
=============================================================================
