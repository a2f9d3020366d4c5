------------------------------- MODULE MCUtil -------------------------------
(* Small instances of the programs that stand alone.  program says which of *)
(* them a behaviour is about; they share nothing, and the others stay in an *)
(* initial state.                                                           *)
(* TimerMgr: three timers at once, one more than the events of one          *)
(* epoll_wait(), so that a round has an event to go stale and leaves a      *)
(* timer to the next round.  Sorting: arrays of up to four of three values. *)
EXTENDS TimerMgr, UartLoop, UartPort, Sorting

CONSTANTS p, q, r
VARIABLE program

ThreeAddrs == {p, q, r}
ThreeLibs == {"v1", "v2", "soc"}
Ask(bits, parity, speed, stop) ==
  [bits |-> bits, parity |-> parity, speed |-> speed, stop |-> stop]
SomeRequests ==
  {Ask(8, "n", 9600, 1), Ask(7, "e", 9600, 1), Ask(8, "e", 9600, 2), Ask(4, "n", 9600, 1),
   Ask(8, "n", 19200, 2), Ask(8, "n", 460800, 1), Ask(8, "x", 9600, 1), Ask(8, "n", 9600, 3)}
ThreeValues == 1 .. 3

MCInit ==
  /\ program \in {"timer", "loop", "port", "sort"}
  /\ Init /\ LoopInit /\ PortInit /\ SortInit
  /\ program = "timer" \/ (callers = "own" /\ ~terminated)
  /\ program = "port" \/ (lib = "v1" /\ fdTable[0] = "free")
  /\ program = "sort" \/ (algorithm = "rev" /\ size = 0)

MCNext ==
  \/ program = "timer" /\ Next /\ UNCHANGED <<program, loopVars, portVars, sortVars>>
  \/ program = "loop" /\ LoopNext /\ UNCHANGED <<program, vars, portVars, sortVars>>
  \/ program = "port" /\ PortNext /\ UNCHANGED <<program, vars, loopVars, sortVars>>
  \/ program = "sort" /\ SortNext /\ UNCHANGED <<program, vars, loopVars, portVars>>

\* The fairness of TimerMgr and of UartLoop, for behaviours about them.
MCSpec ==
  /\ MCInit /\ [][MCNext]_<<program, vars, loopVars, portVars, sortVars>>
  /\ WF_vars(program = "timer" /\ EpollWait) /\ WF_vars(program = "timer" /\ Serve)
  /\ WF_vars(program = "timer" /\ Return) /\ WF_vars(program = "timer" /\ ServeDone)
  /\ WF_vars(program = "timer" /\ LoopEnds)
  /\ WF_loopVars(program = "loop" /\ MainStep)
  /\ WF_loopVars(program = "loop" /\ Handler)
=============================================================================
