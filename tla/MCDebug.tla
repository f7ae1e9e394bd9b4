------------------------------ MODULE MCDebug ------------------------------
(* Small instances of Debug for TLC. *)
EXTENDS MCCv, Debug

\* Writers that use the mutex only, while a thread prints it.
PrintedMuProgram == [mu |-> [t \in Threads |-> {"lock"}], cv |-> [t \in Threads |-> {"print"}]]

PrintedMuPrograms == {PrintedMuProgram}
============================================================================
