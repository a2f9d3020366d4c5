---------------------------- MODULE MCSocketClient ----------------------------
(* Small instances of the two modules of the client library.  program says    *)
(* which of them a behaviour is about: the threads, or the stream they read.  *)
EXTENDS SocketClient, ClientFrames

VARIABLE program

OnlyMessages == {"msg"}
AllInputs == InputKinds
UpToTwo == 0 .. 2
TwoContents == {1, SOF}
Both == BOOLEAN

MCInit == /\ Init /\ FramesInit
          /\ program \in {"threads", "frames"} /\ (program = "threads" => ~split)
MCNext == \/ program = "threads" /\ Next /\ UNCHANGED <<program, framesVars>>
          \/ program = "frames" /\ FramesNext /\ UNCHANGED <<program, vars>>
MCSpec == MCInit /\ [][MCNext]_<<program, vars, framesVars>>
          /\ (program = "threads" => Fairness)
=============================================================================
