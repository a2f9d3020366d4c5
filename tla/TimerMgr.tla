------------------------------ MODULE TimerMgr ------------------------------
(***************************************************************************)
(* The timer manager of Timer.c: RunTimerMgr waits for timerfds with a     *)
(* level-triggered epoll and calls the callback of each timer that is due. *)
(* The kernel hands back the address AddTimer gave it; RemoveTimer does    *)
(* not touch the events already fetched, DestroyTimer frees the timer and  *)
(* leaves its descriptor open.                                             *)
(*                                                                         *)
(* The caller is one thread: it uses the manager outside RunTimerMgr or    *)
(* from a callback.  TerminateTimerMgr, which only sets a volatile flag,   *)
(* may be called from anywhere at any time.  Callers remove a timer before *)
(* they destroy it.  "own" callers touch from a callback only the timer it *)
(* is called for, as test.c does; "any" callers touch every timer.         *)
(* epoll_wait() fails only with EINTR here, which the code retries, and a  *)
(* timer without a callback is one whose callback does nothing.            *)
(***************************************************************************)
EXTENDS Integers, Sequences, FiniteSets, SequencesExt, Filter

CONSTANTS
  Addrs,      \* addresses malloc() may give to a timer, and give again
  NumTimers,  \* bound: timerfds the process may open; they are never closed
  MAX_TIMER   \* events one epoll_wait() may return

ASSUME ConstAssumption == NumTimers \in Nat /\ MAX_TIMER \in Nat \ {0}

VARIABLES
  callers,    \* "own" or "any"
  pc,         \* "idle": not in RunTimerMgr; "loop", "serve", "callback" in it;
              \* "undefined": memory was used after it was freed
  terminated,
  heap,       \* descriptor of the timer at each address; 0: no timer there
  made,       \* timerfds opened so far; they are 1 .. made
  watched,    \* kernel: what epoll watches, [fd, ptr]
  ready,      \* kernel: its ready list, descriptors in order
  expired,    \* kernel: timerfds that a read() would not wait for
  events,     \* addresses in t->events that are not done with
  removed     \* history: addresses removed since the last epoll_wait()

callerVars == <<heap, made, watched, removed>>
kernelVars == <<ready, expired>>
vars == <<callers, pc, terminated, callerVars, kernelVars, events>>

Ptrs == {w.ptr : w \in watched}
WatchedFds == {w.fd : w \in watched}

Init ==
  /\ callers \in {"own", "any"}
  /\ pc = "idle" /\ terminated \in BOOLEAN    \* CreateTimerMgr leaves it unset
  /\ heap = [a \in Addrs |-> 0] /\ made = 0
  /\ watched = {} /\ ready = <<>> /\ expired = {}
  /\ events = <<>> /\ removed = {}

-----------------------------------------------------------------------------
(* What callers do, outside RunTimerMgr or in a callback.                  *)

MayCall == pc \in {"idle", "callback"}
MayTouch(a) ==
  /\ heap[a] # 0
  /\ pc = "idle" \/ (pc = "callback" /\ (callers = "any" \/ a = Head(events)))

CreateTimer(a) ==
  /\ MayCall /\ heap[a] = 0 /\ made < NumTimers
  /\ made' = made + 1
  /\ heap' = [heap EXCEPT ![a] = made']
  /\ UNCHANGED <<callers, pc, terminated, watched, kernelVars, events, removed>>

\* The descriptor is watched; one that is watched already makes it fail.
AddTimer(a) ==
  /\ MayCall /\ heap[a] # 0 /\ heap[a] \notin WatchedFds
  /\ watched' = watched \cup {[fd |-> heap[a], ptr |-> a]}
  /\ ready' = IF heap[a] \in expired THEN Append(ready, heap[a]) ELSE ready
  /\ UNCHANGED <<callers, pc, terminated, heap, made, expired, events, removed>>

RemoveTimer(a) ==
  /\ MayTouch(a) /\ heap[a] \in WatchedFds
  /\ watched' = {w \in watched : w.fd # heap[a]}
  /\ ready' = Only(ready, WatchedFds \ {heap[a]})
  /\ removed' = removed \cup {a}
  /\ UNCHANGED <<callers, pc, terminated, heap, made, expired, events>>

\* The memory is freed, the descriptor stays open.
DestroyTimer(a) ==
  /\ MayTouch(a) /\ a \notin Ptrs
  /\ heap' = [heap EXCEPT ![a] = 0]
  /\ UNCHANGED <<callers, pc, terminated, made, watched, kernelVars, events, removed>>

TerminateTimerMgr ==
  /\ terminated' = TRUE
  /\ UNCHANGED <<callers, pc, callerVars, kernelVars, events>>

CallerStep ==
  \/ \E a \in Addrs : CreateTimer(a) \/ AddTimer(a) \/ RemoveTimer(a) \/ DestroyTimer(a)
  \/ TerminateTimerMgr

-----------------------------------------------------------------------------
(* RunTimerMgr.                                                            *)

\* With once set it returns at once; a TerminateTimerMgr before is forgotten.
RunTimerMgr(once) ==
  /\ pc = "idle"
  /\ pc' = IF once THEN "idle" ELSE "loop"
  /\ terminated' = once
  /\ UNCHANGED <<callers, callerVars, kernelVars, events>>

PtrOf(f) == (CHOOSE w \in watched : w.fd = f).ptr

\* Mutant of Fetched: the events are served from the second one on.
FetchedFromSecond(n, due) == [i \in 1 .. (n - 1) |-> PtrOf(due[i + 1])]

\* The addresses of the first n descriptors that are due.
Fetched(n, due) == [i \in 1 .. n |-> PtrOf(due[i])]

\* epoll_wait() takes up to MAX_TIMER descriptors from the ready list, drops those
\* no longer due, and puts the ones it returns at the end of the list.
EpollWait ==
  /\ pc = "loop" /\ ~terminated
  /\ LET due == Only(ready, expired)
         n   == IF Len(due) < MAX_TIMER THEN Len(due) ELSE MAX_TIMER
     IN  /\ events' = Fetched(n, due)
         /\ ready' = SubSeq(due, n + 1, Len(due)) \o SubSeq(due, 1, n)
  /\ removed' = {} /\ pc' = "serve"
  /\ UNCHANGED <<callers, terminated, heap, made, watched, expired>>

\* read() on the timer's descriptor, which waits until it is due, then the callback
Serve ==
  /\ pc = "serve" /\ events # <<>>
  /\ heap[Head(events)] \in expired
  /\ expired' = expired \ {heap[Head(events)]}
  /\ pc' = "callback"
  /\ UNCHANGED <<callers, terminated, callerVars, ready, events>>

TouchFreed ==
  /\ pc = "serve" /\ events # <<>> /\ heap[Head(events)] = 0
  /\ pc' = "undefined"
  /\ UNCHANGED <<callers, terminated, callerVars, kernelVars, events>>

\* Mutant of Return: the index is not incremented.
ReturnToSame ==
  /\ pc = "callback"
  /\ pc' = "serve"
  /\ UNCHANGED <<callers, terminated, callerVars, kernelVars, events>>

Return ==
  /\ pc = "callback"
  /\ events' = Tail(events) /\ pc' = "serve"
  /\ UNCHANGED <<callers, terminated, callerVars, kernelVars>>

\* Mutant of ServeDone: each round begins with terminated = 0.
ServeDoneReset ==
  /\ pc = "serve" /\ events = <<>>
  /\ pc' = "loop" /\ terminated' = FALSE
  /\ UNCHANGED <<callers, callerVars, kernelVars, events>>

ServeDone ==
  /\ pc = "serve" /\ events = <<>>
  /\ pc' = "loop"
  /\ UNCHANGED <<callers, terminated, callerVars, kernelVars, events>>

LoopEnds ==
  /\ pc = "loop" /\ terminated
  /\ pc' = "idle"
  /\ UNCHANGED <<callers, terminated, callerVars, kernelVars, events>>

RunStep == EpollWait \/ Serve \/ TouchFreed \/ Return \/ ServeDone \/ LoopEnds

-----------------------------------------------------------------------------
\* The clock: a timer is due, for the first time or after an interval.
Expire(f) ==
  /\ f \in 1 .. made /\ f \notin expired
  /\ expired' = expired \cup {f}
  /\ ready' = IF f \in WatchedFds /\ f \notin Range(ready) THEN Append(ready, f) ELSE ready
  /\ UNCHANGED <<callers, pc, terminated, callerVars, events>>

Next ==
  \/ RunStep
  \/ CallerStep
  \/ \E once \in BOOLEAN : RunTimerMgr(once)
  \/ \E f \in 1 .. NumTimers : Expire(f)

\* The thread in RunTimerMgr runs on and its callbacks return; nobody else is fair.
Fairness == WF_vars(EpollWait) /\ WF_vars(Serve) /\ WF_vars(Return)
            /\ WF_vars(ServeDone) /\ WF_vars(LoopEnds)

Spec == Init /\ [][Next]_vars /\ Fairness

-----------------------------------------------------------------------------
ToServe == IF pc = "callback" THEN Tail(events) ELSE events

(* RemoveTimer does not take back an event already fetched.  An event that is  *)
(* still to be served is of a timer epoll watches, unless a callback removed   *)
(* another timer than its own in this round; so a callback may remove and      *)
(* destroy its own timer, and create another at the same address, as safely as *)
(* test.c supposes: RunTimerMgr never touches freed memory.                    *)
EventsAreCurrent ==
  /\ \A i \in DOMAIN ToServe :
       ToServe[i] \in Ptrs \/ (callers = "any" /\ ToServe[i] \in removed)
  /\ callers = "own" => pc # "undefined"

(* TerminateTimerMgr called while RunTimerMgr runs, in a callback or elsewhere, *)
(* makes it return; no later flag, event or callback lets it run on.            *)
StopIsObeyed ==
  (callers = "own" /\ pc # "idle" /\ terminated) ~> pc = "idle"

(* However many timers are due and however few events one epoll_wait() returns, *)
(* a timer that is due while it is watched is called, or removed, or the        *)
(* manager is stopped.                                                          *)
Called(f) == pc = "callback" /\ heap[Head(events)] = f
DueIsCalled ==
  \A f \in 1 .. NumTimers :
    (callers = "own" /\ pc # "idle" /\ f \in WatchedFds /\ f \in expired)
      ~> (Called(f) \/ f \notin WatchedFds \/ terminated)
=============================================================================
