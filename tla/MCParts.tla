------------------------------ MODULE MCParts ------------------------------
(* Small instances, for TLC, of four parts that have little to do with each*)
(* other; a behaviour is about one of them: the memory orders, Windows'    *)
(* thread-specific data, sleeping and the text buffer of debug.c.          *)
EXTENDS MemOrder, PthreadKey, TimeSleep, Emit, TLC

VARIABLE part

\* Slots are deleted and used again while a thread holds values of old keys.
ReuseProgram ==
  [deleted |-> {key \in Keys : key > kMaxKeys /\ SlotOf(key) # 0}, max_sets |-> 3, max_resets |-> 0]

\* Destructors set values again, as often as the attempts allow.
ResetProgram == [deleted |-> {}, max_sets |-> 2, max_resets |-> 3]

MCKeyPrograms == {ReuseProgram, ResetProgram}

partVars == <<part, memVars, keyVars, sleepVars, emitVars>>

\* The parts that the behaviour is not about rest in one initial state.
Init ==
  /\ part \in {"orders", "keys", "sleep", "text"}
  /\ MemInit /\ (part # "orders" => order = c11 /\ protocol = "mu")
  /\ KeyInit /\ (part # "keys" => key_program = ResetProgram)
  /\ SleepInit /\ (part # "sleep" => platform = "timespec")
  /\ EmitInit /\ (part # "text" => ebuf.len = 0 /\ to_print = <<>>)

Next ==
  /\ UNCHANGED part
  /\ \/ part = "orders" /\ MemNext /\ UNCHANGED <<keyVars, sleepVars, emitVars>>
     \/ part = "keys" /\ KeyNext /\ UNCHANGED <<memVars, sleepVars, emitVars>>
     \/ part = "sleep" /\ SleepNext /\ UNCHANGED <<memVars, keyVars, emitVars>>
     \/ part = "text" /\ EmitNext /\ UNCHANGED <<memVars, keyVars, sleepVars>>

Spec == Init /\ [][Next]_partVars

ThreadSymmetry == Permutations(Threads)
============================================================================
