------------------------------- MODULE Once -------------------------------
(***************************************************************************)
(* nsync_once (internal/once.c): the four nsync_run_once calls over        *)
(* several onces that share one once_sync_s, the mutex and the condition   *)
(* variable that nsync_once variables with the same hash use together.     *)
(*                                                                         *)
(* The function of a once may itself run another once, so a thread has a   *)
(* stack of calls, the innermost one last.  The mutex and the condition    *)
(* variable are taken at their promises: the mutex has one owner, and a    *)
(* wait releases it, ends by a broadcast or by its deadline and takes the  *)
(* mutex again.                                                            *)
(***************************************************************************)
EXTENDS Integers, Sequences

CONSTANTS
  OnceThreads,
  Onces,    \* the nsync_once variables
  NoOnce,
  NoThread,
  Inner,    \* Inner[x]: the once that the function of x runs, or NoOnce
  CalledBy  \* bound: CalledBy[t]: the onces that thread t runs, apart from that

ASSUME OnceAssumption ==
  /\ NoOnce \notin Onces /\ NoThread \notin OnceThreads
  /\ Inner \in [Onces -> Onces \cup {NoOnce}]
  /\ CalledBy \in [OnceThreads -> SUBSET Onces]

VARIABLES
  once,     \* the values of the nsync_once variables
  owner,    \* the thread that holds s->once_mu, or NoThread
  cv,       \* the threads waiting on s->once_cv
  stack,    \* stack[t]: the calls in progress of thread t
  started,  \* how many times the function of each once was started
  ended     \* ... and ended

onceVars == <<once, owner, cv, stack, started, ended>>

OnceInit ==
  /\ once = [x \in Onces |-> 0]
  /\ owner = NoThread
  /\ cv = {}
  /\ stack = [t \in OnceThreads |-> <<>>]
  /\ started = [x \in Onces |-> 0]
  /\ ended = [x \in Onces |-> 0]

\* A call of nsync_run_once or nsync_run_once_arg (spin = FALSE), or of one of
\* the _spin variants; o is the local variable.
Frame(x, spin) == [once |-> x, spin |-> spin, pc |-> "load", o |-> 0]

Busy(t) == stack[t] # <<>>
Top(t) == stack[t][Len(stack[t])]
At(t, l) == Busy(t) /\ Top(t).pc = l
OnceGoto(t, l) == stack' = [stack EXCEPT ![t][Len(stack[t])].pc = l]

\* The innermost call of t returns.
OnceReturn(t) == stack' = [stack EXCEPT ![t] = SubSeq(@, 1, Len(@) - 1)]

Call(t, x, spin) ==
  /\ ~Busy(t)
  /\ stack' = [stack EXCEPT ![t] = <<Frame(x, spin)>>]
  /\ UNCHANGED <<once, owner, cv, started, ended>>

\* The loads on entry: return if the once is done.
OnceLoad(t) ==
  /\ At(t, "load")
  /\ IF once[Top(t).once] = 2
     THEN OnceReturn(t)
     ELSE stack' = [stack EXCEPT ![t][Len(stack[t])] =
                      [@ EXCEPT !.o = once[Top(t).once],
                                !.pc = IF Top(t).spin THEN "cas" ELSE "lock"]]
  /\ UNCHANGED <<once, owner, cv, started, ended>>

\* nsync_mu_lock: before the CAS, before the broadcast, or at the end of a wait.
Lock(t) ==
  /\ Busy(t) /\ Top(t).pc \in {"lock", "relock", "woken"}
  /\ owner = NoThread
  /\ owner' = t
  /\ OnceGoto(t, CASE Top(t).pc = "lock" -> "cas"
               [] Top(t).pc = "relock" -> "broadcast"
               [] Top(t).pc = "woken" -> "test")
  /\ UNCHANGED <<once, cv, started, ended>>

\* The CAS from 0 to 1 is tried and succeeds.
Claims(t) == Top(t).o = 0 /\ once[Top(t).once] = 0

\* s->once_mu is released for the run of the function.
MutexDuringRun(t) == IF Top(t).spin THEN owner ELSE NoThread

\* The loop of the CAS: claim the once and run the function, or learn that
\* another thread has.  The local o is not used again.
OnceCas(t) ==
  /\ At(t, "cas")
  /\ once' = IF Claims(t) THEN [once EXCEPT ![Top(t).once] = 1] ELSE once
  /\ stack' = [stack EXCEPT ![t][Len(stack[t])] =
                 [@ EXCEPT !.o = 0,
                           !.pc = IF Claims(t) THEN "unlock_to_run" ELSE "test"]]
  /\ UNCHANGED <<owner, cv, started, ended>>

\* The function starts, with the mutex released; it may run another once.
Run(t) ==
  /\ At(t, "unlock_to_run")
  /\ owner' = MutexDuringRun(t)
  /\ started' = [started EXCEPT ![Top(t).once] = @ + 1]
  /\ IF Inner[Top(t).once] = NoOnce
     THEN OnceGoto(t, "run")
     ELSE \E spin \in BOOLEAN :
            stack' = [stack EXCEPT ![t] =
                        Append([@ EXCEPT ![Len(@)].pc = "run"],
                               Frame(Inner[Top(t).once], spin))]
  /\ UNCHANGED <<once, cv, ended>>

\* The function ends.
EndRun(t) ==
  /\ At(t, "run")
  /\ ended' = [ended EXCEPT ![Top(t).once] = @ + 1]
  /\ OnceGoto(t, IF Top(t).spin THEN "store" ELSE "relock")
  /\ UNCHANGED <<once, owner, cv, started>>

\* Mutant: a signal wakes one thread only.
WokenBySignal == IF cv = {} THEN {} ELSE {CHOOSE u \in cv : TRUE}

\* The threads that nsync_cv_broadcast wakes.
Woken == cv

Broadcast(t) ==
  /\ At(t, "broadcast")
  /\ stack' = [u \in OnceThreads |->
                 IF u \in Woken THEN [stack[u] EXCEPT ![Len(stack[u])].pc = "woken"]
                 ELSE IF u = t THEN [stack[t] EXCEPT ![Len(stack[t])].pc = "store"]
                 ELSE stack[u]]
  /\ cv' = cv \ Woken
  /\ UNCHANGED <<once, owner, started, ended>>

Store(t) ==
  /\ At(t, "store")
  /\ once' = [once EXCEPT ![Top(t).once] = 2]
  /\ OnceGoto(t, "test")
  /\ UNCHANGED <<owner, cv, started, ended>>

\* Mutant: any value but 0 lets the caller go.
DoneOnceClaimed(x) == once[x] # 0

\* The test of the waiting loop.
Done(x) == once[x] = 2

\* Mutant: a blocking call tests a value that it loaded before the loop.
TestStale(t) ==
  /\ At(t, "test")
  /\ IF Top(t).spin
     THEN Done(Top(t).once) /\ OnceReturn(t) /\ UNCHANGED <<owner, cv>>
     ELSE OnceGoto(t, "wait") /\ owner' = NoThread /\ cv' = cv \cup {t}
  /\ UNCHANGED <<once, started, ended>>

\* The waiting loop: return, releasing the mutex, or wait or spin.
Test(t) ==
  /\ At(t, "test")
  /\ IF Done(Top(t).once)
     THEN /\ OnceReturn(t)
          /\ owner' = IF Top(t).spin THEN owner ELSE NoThread
          /\ UNCHANGED cv
     ELSE /\ ~Top(t).spin
          /\ OnceGoto(t, "wait")
          /\ owner' = NoThread
          /\ cv' = cv \cup {t}
  /\ UNCHANGED <<once, started, ended>>

CvAfterDeadline(t) == cv \ {t}

\* The deadline of the wait on once_cv passes.
Expire(t) ==
  /\ At(t, "wait")
  /\ OnceGoto(t, "woken")
  /\ cv' = CvAfterDeadline(t)
  /\ UNCHANGED <<once, owner, started, ended>>

OnceStep(t) ==
  \/ OnceLoad(t) \/ Lock(t) \/ OnceCas(t) \/ Run(t) \/ EndRun(t)
  \/ Broadcast(t) \/ Store(t) \/ Test(t) \/ Expire(t)

OnceNext ==
  \E t \in OnceThreads :
    OnceStep(t) \/ \E x \in CalledBy[t], spin \in BOOLEAN : Call(t, x, spin)

OnceSpec == OnceInit /\ [][OnceNext]_onceVars

\* Threads are scheduled, functions end, deadlines pass, and the mutex is not
\* for ever given to others.
OnceFairness == \A t \in OnceThreads : WF_onceVars(OnceStep(t)) /\ SF_onceVars(Lock(t))

---------------------------------------------------------------------------

PCs == {"load", "lock", "cas", "unlock_to_run", "run", "relock", "broadcast",
        "store", "test", "wait", "woken"}

\* Types; the waiters of once_cv are the threads that wait on it.
OnceTypeOK ==
  /\ once \in [Onces -> 0..2]
  /\ owner \in OnceThreads \cup {NoThread}
  /\ stack \in [OnceThreads -> Seq([once : Onces, spin : BOOLEAN, pc : PCs, o : 0..2])]
  /\ started \in [Onces -> Nat] /\ ended \in [Onces -> Nat]
  /\ cv = {t \in OnceThreads : At(t, "wait")}

\* The function of a once is called at most once, however many threads call,
\* block or spin for it at the same time.
RunsOnce == \A x \in Onces : started[x] <= 1

\* "Other callers will wait until the run of the function is complete": a call
\* returns only after the function has ended.
ReturnsAfterRun ==
  [][\A t \in OnceThreads : Len(stack'[t]) < Len(stack[t])
                           => ended[Top(t).once] = 1]_onceVars

\* A thread owns once_mu exactly while one of its blocking calls is in its
\* critical section, and never while it runs a function: a function may run
\* another once that shares the mutex.
MutexIsHeldOutsideRuns ==
  \A t \in OnceThreads :
    owner = t <=>
      Busy(t) /\ ~Top(t).spin
        /\ Top(t).pc \in {"cas", "unlock_to_run", "broadcast", "store", "test"}

\* The broadcast comes before the store of 2, yet when a blocking call makes the
\* store no other call sleeps for the same once: all sleepers were woken, and
\* once_mu keeps them from going back to sleep before the store.
NoSleeperAtStore ==
  \A t \in OnceThreads :
    At(t, "store") /\ ~Top(t).spin => \A u \in cv : Top(u).once # Top(t).once

\* A call that is not the innermost one of its thread is running its function.
OuterCallsRun ==
  \A t \in OnceThreads : \A i \in 1..Len(stack[t]) - 1 : stack[t][i].pc = "run"

\* Only the blocking calls use the mutex and the condition variable.
SpinningCallsKeepOff ==
  \A t \in OnceThreads : \A i \in 1..Len(stack[t]) :
    stack[t][i].pc \in {"lock", "relock", "broadcast", "wait", "woken"} => ~stack[t][i].spin

\* The places of a call that has claimed its once and not yet stored 2.
Claimed == {"unlock_to_run", "run", "relock", "broadcast", "store"}

\* What the values w, starts s and ends e of the onces say about a call f that
\* has claimed its once.
ClaimIsTrue(f, w, s, e) ==
  f.pc \in Claimed =>
    /\ w[f.once] = 1
    /\ s[f.once] = IF f.pc = "unlock_to_run" THEN 0 ELSE 1
    /\ e[f.once] = IF f.pc \in {"unlock_to_run", "run"} THEN 0 ELSE 1

\* The value of a once tells how far its function has come: at 0 it has not been
\* started, at 2 it has ended, and at 1 a call that has claimed it is at work.
WordTellsRun ==
  /\ \A x \in Onces : /\ once[x] = 0 => started[x] = 0 /\ ended[x] = 0
                      /\ once[x] = 2 => started[x] = 1 /\ ended[x] = 1
  /\ \A t \in OnceThreads : \A i \in 1..Len(stack[t]) :
       ClaimIsTrue(stack[t][i], once, started, ended)

\* No two calls, at any depth of any threads, have claimed the same once.
OneClaimant ==
  \A t, u \in OnceThreads : \A i \in 1..Len(stack[t]), j \in 1..Len(stack[u]) :
    /\ stack[t][i].pc \in Claimed /\ stack[u][j].pc \in Claimed
    /\ stack[t][i].once = stack[u][j].once
    => t = u /\ i = j

\* Every call returns, also a blocking one whose function is being run by a
\* spinning call, which does not broadcast.
OnceCallReturns == \A t \in OnceThreads : Busy(t) ~> ~Busy(t)

\* Calls that share a once_sync_s run each function at most once, with the mutex
\* free meanwhile, and a blocking call that has run it leaves no caller asleep.
\* This is the inductive invariant: what it adds to those says which calls of a
\* thread's stack can move and what the value of a once means.
OnceInv ==
  /\ OnceTypeOK /\ RunsOnce /\ MutexIsHeldOutsideRuns /\ NoSleeperAtStore
  /\ OuterCallsRun /\ SpinningCallsKeepOff /\ WordTellsRun /\ OneClaimant
===========================================================================
