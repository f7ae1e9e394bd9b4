-------------------------------- MODULE Note --------------------------------
(***************************************************************************)
(* nsync_note: the tree of notes of internal/note.c, and the waits for a   *)
(* note: nsync_note_wait, and nsync_sem_wait_with_cancel_ of sem_wait.c.   *)
(*                                                                         *)
(* note_mu is an abstract mutual exclusion lock (Mu implements one); a     *)
(* critical section in which no other lock is taken is one step.  Times    *)
(* are 0 (nsync_time_zero) .. Never (nsync_time_no_deadline).              *)
(*                                                                         *)
(* th[t] holds the locals of thread t: "at" is its place, n the note of    *)
(* its call, par the local "parent", stack the frames of                   *)
(* note_notify_child, k where notify and nsync_note_notified_deadline_     *)
(* return to, next where nsync_note_notify does, ntime the time returned,  *)
(* dl the deadline slept for, result what the call returned.               *)
(***************************************************************************)
EXTENDS Integers, Sequences, FiniteSets

CONSTANTS
  Threads, Notes,
  NoThread, NoNote,  \* model values that are neither
  MaxTime,           \* bound: the clock stops here
  Programs           \* client programs, one of which is chosen at the start: the
                     \* tree that was built with nsync_note_new ("parent") and
                     \* its deadlines ("expiry", 0 for a note not yet made), the
                     \* calls <<operation, note, ...>> of each thread, and the
                     \* bound "max_calls" on their number

Never == MaxTime + 1

VARIABLES
  life,       \* "none", "live" or "freed", for each note
  expiry, note_mu, disconnecting, notified, parent, children, waiters,
  sem,        \* 1 if the semaphore of a thread has a count, else 0
  now, th, calls,
  program

noteVars == <<life, expiry, note_mu, disconnecting, notified, parent, children,
              waiters>>

vars == <<noteVars, sem, now, th, calls, program>>

IdleThread == [at |-> "idle", op |-> "none", n |-> NoNote, par |-> NoNote,
               stack |-> <<>>, k |-> "idle", next |-> "idle", ntime |-> 0,
               dl |-> 0, result |-> "none"]

Init ==
  /\ program \in Programs
  /\ life = [n \in Notes |-> IF program.expiry[n] > 0 THEN "live" ELSE "none"]
  /\ expiry = program.expiry
  /\ note_mu = [n \in Notes |-> NoThread]
  /\ disconnecting = [n \in Notes |-> 0]
  /\ notified = [n \in Notes |-> FALSE]
  /\ parent = program.parent
  /\ children = [n \in Notes |-> {c \in Notes : program.parent[c] = n}]
  /\ waiters = [n \in Notes |-> {}]
  /\ sem = [t \in Threads |-> 0]
  /\ now = 0
  /\ th = [t \in Threads |-> IdleThread]
  /\ calls = [t \in Threads |-> 0]

NOTIFIED_TIME(n) == IF notified[n] THEN 0 ELSE expiry[n]

Free(n) == note_mu[n] = NoThread

Held(ns, t) == [n \in Notes |-> IF n \in ns THEN t ELSE note_mu[n]]

Set(t, r) == th' = [th EXCEPT ![t] = r]

Goto(t, l) == Set(t, [th[t] EXCEPT !.at = l])

Minimum(a, b) == IF a < b THEN a ELSE b

Frame(t) == Head(th[t].stack)

---------------------------------------------------------------------------
(* nsync_note_notified_deadline_                                           *)

\* Notified already, or not: then read the time with the lock held, and notify
\* the note if that time has come.
NotifiedDeadline(t) ==
  LET x == th[t] IN
  /\ x.at = "nd"
  /\ \/ /\ notified[x.n]
        /\ Set(t, [x EXCEPT !.ntime = 0, !.at = x.k])
     \/ /\ ~notified[x.n] /\ Free(x.n)
        /\ Set(t, IF expiry[x.n] > 0 /\ expiry[x.n] <= now
                  THEN [x EXCEPT !.ntime = 0, !.at = "lock", !.op = "notify"]
                  ELSE [x EXCEPT !.ntime = expiry[x.n], !.at = x.k])
  /\ UNCHANGED <<noteVars, sem, now, calls>>

---------------------------------------------------------------------------
(* notify and nsync_note_free both begin by locking the note and its       *)
(* parent.                                                                 *)

\* Both locks are held.
Enter(t, x) ==
  Set(t, IF x.op = "notify"
         THEN [x EXCEPT !.at = "nc", !.stack = <<[n |-> x.n, p |-> x.par, todo |-> {}]>>]
         ELSE [x EXCEPT !.at = "fr", !.stack = <<[n |-> x.n, p |-> x.par,
                                                  todo |-> children[x.n]]>>])

\* Lock the note, mark it as disconnecting, and try to lock its parent, which
\* may fail even if the lock is free (for a long waiter); then unlock the note.
\* notify returns if the note is notified.
LockNoteFirst(t) ==
  /\ th[t].at = "lock" /\ Free(th[t].n)
  /\ LET x == [th[t] EXCEPT !.par = parent[th[t].n]] IN
     IF x.op = "notify" /\ NOTIFIED_TIME(x.n) = 0
     THEN Goto(t, x.k) /\ UNCHANGED <<note_mu, disconnecting>>
     ELSE /\ disconnecting' = [disconnecting EXCEPT ![x.n] = @ + 1]
          /\ \/ /\ x.par # NoNote => Free(x.par)
                /\ Enter(t, x) /\ note_mu' = Held({x.n, x.par}, t)
             \/ /\ x.par # NoNote
                /\ Set(t, [x EXCEPT !.at = "lock_parent"]) /\ UNCHANGED note_mu
  /\ UNCHANGED <<life, expiry, notified, parent, children, waiters, sem, now, calls>>

LockParent(t) ==
  /\ th[t].at = "lock_parent" /\ Free(th[t].par)
  /\ note_mu' = Held({th[t].par}, t)
  /\ Goto(t, "lock_note")
  /\ UNCHANGED <<life, expiry, disconnecting, notified, parent, children, waiters,
                 sem, now, calls>>

LockNoteAgain(t) ==
  /\ th[t].at = "lock_note" /\ Free(th[t].n)
  /\ note_mu' = Held({th[t].n}, t)
  /\ Enter(t, th[t])
  /\ UNCHANGED <<life, expiry, disconnecting, notified, parent, children, waiters,
                 sem, now, calls>>

\* The note n and its parent p after their disconnection.
Unlink(n, p) ==
  IF p = NoNote THEN UNCHANGED <<parent, children>>
  ELSE /\ children' = [children EXCEPT ![p] = @ \ {n}]
       /\ parent' = [parent EXCEPT ![n] = NoNote]

---------------------------------------------------------------------------
(* note_notify_child, on the note of the top frame.                        *)

\* Return from the top frame: unlock the child and go on with the caller's
\* loop, or from the last one, in which case notify unlocks and returns.
NotifyReturn(t) ==
  LET x == th[t]  rest == Tail(x.stack) IN
  IF rest # <<>>
  THEN /\ Set(t, [x EXCEPT !.stack = rest, !.at = "nc_loop"])
       /\ note_mu' = Held({Frame(t).n}, NoThread) /\ UNCHANGED disconnecting
  ELSE /\ Set(t, [x EXCEPT !.stack = <<>>, !.par = NoNote, !.at = x.k])
       /\ note_mu' = Held({x.n, x.par}, NoThread)
       /\ disconnecting' = [disconnecting EXCEPT ![x.n] = @ - 1]

\* Already notified: nothing to do.
NotifyOld(t) ==
  /\ th[t].at = "nc" /\ NOTIFIED_TIME(Frame(t).n) = 0
  /\ NotifyReturn(t)
  /\ UNCHANGED <<life, expiry, notified, parent, children, waiters, sem, now, calls>>

NotifyMark(t) ==
  /\ th[t].at = "nc" /\ NOTIFIED_TIME(Frame(t).n) > 0
  /\ notified' = [notified EXCEPT ![Frame(t).n] = TRUE]
  /\ Goto(t, "nc_wake")
  /\ UNCHANGED <<life, expiry, note_mu, disconnecting, parent, children, waiters,
                 sem, now, calls>>

\* Mutant: a waiter is taken off the list and not told.
ToldNobody(w) == UNCHANGED sem

Told(w) == sem' = [sem EXCEPT ![w] = 1]

\* Dequeue and wake one waiter; after the last one, start the loop over the
\* children.
NotifyWake(t) ==
  LET n == Frame(t).n IN
  /\ th[t].at = "nc_wake"
  /\ \/ /\ \E w \in waiters[n] : /\ waiters' = [waiters EXCEPT ![n] = @ \ {w}]
                                 /\ Told(w)
        /\ UNCHANGED th
     \/ /\ waiters[n] = {}
        /\ Set(t, [th[t] EXCEPT !.at = "nc_loop", !.stack[1].todo = children[n]])
        /\ UNCHANGED <<waiters, sem>>
  /\ UNCHANGED <<life, expiry, note_mu, disconnecting, notified, parent, children,
                 now, calls>>

\* Mutant: children that another thread is disconnecting are dealt with too.
MayDisconnectAny(c) == TRUE

\* Whether the caller, rather than the thread that is disconnecting child c,
\* deals with c.
MayDisconnect(c) == disconnecting[c] = 0

\* Lock the next child, and notify it unless it is being disconnected.
NotifyChild(t) ==
  LET x == th[t] IN
  /\ x.at = "nc_loop"
  /\ \E c \in Frame(t).todo :
       LET y == [x EXCEPT !.stack[1].todo = @ \ {c}] IN
       /\ Free(c)
       /\ IF MayDisconnect(c)
          THEN /\ note_mu' = Held({c}, t)
               /\ Set(t, [y EXCEPT !.at = "nc", !.stack =
                            <<[n |-> c, p |-> Frame(t).n, todo |-> {}]>> \o y.stack])
          ELSE Set(t, y) /\ UNCHANGED note_mu
  /\ UNCHANGED <<life, expiry, disconnecting, notified, parent, children, waiters,
                 sem, now, calls>>

\* Mutant: waits with the lock held.
WaitHoldingLock(t) ==
  /\ th[t].at \in {"nc_loop", "fr"} /\ Frame(t).todo = {}
  /\ children[Frame(t).n] # {}
  /\ UNCHANGED vars

\* WAIT_FOR_NO_CHILDREN, in notify ("nc") and free ("fr"): without the note's
\* lock while there are children ...
WaitForNoChildren(t) ==
  LET n == Frame(t).n IN
  /\ th[t].at \in {"nc_loop", "fr"} /\ Frame(t).todo = {} /\ children[n] # {}
  /\ note_mu' = Held({n}, NoThread)
  /\ Goto(t, IF th[t].at = "fr" THEN "fr_sleep" ELSE "nc_sleep")
  /\ UNCHANGED <<life, expiry, disconnecting, notified, parent, children, waiters,
                 sem, now, calls>>

\* ... and with it when there are none.
NoChildren(t, loop, sleep) ==
  /\ children[Frame(t).n] = {}
  /\ \/ th[t].at = loop /\ Frame(t).todo = {}
     \/ th[t].at = sleep /\ Free(Frame(t).n)

NotifyFinish(t) ==
  /\ th[t].at \in {"nc_loop", "nc_sleep"} /\ NoChildren(t, "nc_loop", "nc_sleep")
  /\ Unlink(Frame(t).n, Frame(t).p)
  /\ NotifyReturn(t)
  /\ UNCHANGED <<life, expiry, notified, waiters, sem, now, calls>>

---------------------------------------------------------------------------
(* nsync_note_free after both locks, and nsync_note_new.                   *)

\* Child c of n gets n's parent p, if any.
Adopt(c, n, p) ==
  /\ children' = [m \in Notes |-> IF m = n THEN children[m] \ {c}
                                  ELSE IF m = p THEN children[m] \union {c}
                                  ELSE children[m]]
  /\ parent' = [parent EXCEPT ![c] = p]

FreeChild(t) ==
  LET x == th[t] IN
  /\ x.at = "fr"
  /\ \E c \in Frame(t).todo :
       /\ Free(c)
       /\ Set(t, [x EXCEPT !.stack[1].todo = @ \ {c}])
       /\ IF MayDisconnect(c) THEN Adopt(c, x.n, x.par)
                              ELSE UNCHANGED <<parent, children>>
  /\ UNCHANGED <<life, expiry, note_mu, disconnecting, notified, waiters, sem, now,
                 calls>>

FreeFinish(t) ==
  LET x == th[t] IN
  /\ x.at \in {"fr", "fr_sleep"} /\ NoChildren(t, "fr", "fr_sleep")
  /\ Unlink(x.n, x.par)
  /\ note_mu' = Held({x.n, x.par}, NoThread)
  /\ disconnecting' = [disconnecting EXCEPT ![x.n] = @ - 1]
  /\ life' = [life EXCEPT ![x.n] = "freed"]
  /\ Set(t, IdleThread)
  /\ UNCHANGED <<expiry, notified, waiters, sem, now, calls>>

JoinsParent(parent_time) == parent_time > 0

InheritDeadline(deadline, parent_time) == Minimum(deadline, parent_time)

\* No thread knows the note before nsync_note_new returns.  A deadline that
\* has passed notifies it; else it joins its parent, unless that is notified.
nsync_note_new(t, n, p, deadline) ==
  LET past == deadline > 0 /\ deadline <= now
      joins == ~past /\ deadline > 0 /\ p # NoNote
      parent_time == IF joins THEN NOTIFIED_TIME(p) ELSE Never
  IN
  /\ life[n] = "none"
  /\ joins => Free(p)
  /\ life' = [life EXCEPT ![n] = "live"]
  /\ notified' = [notified EXCEPT ![n] = past]
  /\ expiry' = [expiry EXCEPT ![n] = InheritDeadline(deadline, parent_time)]
  /\ IF joins /\ JoinsParent(parent_time)
     THEN /\ parent' = [parent EXCEPT ![n] = p]
          /\ children' = [children EXCEPT ![p] = @ \union {n}]
     ELSE UNCHANGED <<parent, children>>
  /\ UNCHANGED <<note_mu, disconnecting, waiters, th, sem, now>>

---------------------------------------------------------------------------
(* nsync_note_notify, and the waits.                                       *)

NotifyIfNot(ntime) == ntime > 0

\* nsync_note_notify after nsync_note_notified_deadline_.
NotifyMore(t) ==
  LET x == th[t] IN
  /\ x.at = "notify"
  /\ Set(t, IF NotifyIfNot(x.ntime)
            THEN [x EXCEPT !.at = "lock", !.op = "notify", !.k = x.next]
            ELSE [x EXCEPT !.at = x.next])
  /\ UNCHANGED <<noteVars, sem, now, calls>>

\* nsync_wait_n on one note: not ready yet?
WaitCheck(t) ==
  LET x == th[t] IN
  /\ x.at = "w_check"
  /\ Set(t, IF Minimum(x.ntime, x.dl) > 0 THEN [x EXCEPT !.at = "w_enqueue"]
            ELSE [x EXCEPT !.at = "idle", !.result =
                    IF x.ntime > 0 THEN "timeout" ELSE "notified"])
  /\ UNCHANGED <<noteVars, sem, now, calls>>

\* note_enqueue; the time is then asked for again.
note_enqueue(t) ==
  LET x == th[t] IN
  /\ x.at = "w_enqueue" /\ Free(x.n)
  /\ waiters' = IF NOTIFIED_TIME(x.n) > 0
                THEN [waiters EXCEPT ![x.n] = @ \union {t}] ELSE waiters
  /\ Set(t, [x EXCEPT !.at = "nd", !.k = "w_loop"])
  /\ UNCHANGED <<life, expiry, note_mu, disconnecting, notified, parent, children,
                 sem, now, calls>>

\* The loop test of nsync_wait_n.  note_dequeue begins by asking for the time.
WaitLoop(t) ==
  LET x == th[t] IN
  /\ x.at = "w_loop"
  /\ Set(t, IF Minimum(x.ntime, x.dl) > 0 THEN [x EXCEPT !.at = "w_p"]
            ELSE [x EXCEPT !.at = "nd", !.k = "w_dequeue"])
  /\ UNCHANGED <<noteVars, sem, now, calls>>

\* The semaphore is posted, or the earlier of the deadlines comes.
WaitP(t) ==
  LET x == th[t] IN
  /\ x.at = "w_p"
  /\ \/ /\ sem[t] = 1 /\ sem' = [sem EXCEPT ![t] = 0]
        /\ Set(t, [x EXCEPT !.at = "nd", !.k = "w_loop"])
     \/ /\ Minimum(x.ntime, x.dl) <= now /\ UNCHANGED sem
        /\ Set(t, [x EXCEPT !.at = "nd", !.k = "w_dequeue"])
  /\ UNCHANGED <<noteVars, now, calls>>

\* The waiters of n without t, if the note has not been notified, which would
\* have removed t already.
Leave(t, n) ==
  IF NOTIFIED_TIME(n) > 0 THEN [waiters EXCEPT ![n] = @ \ {t}] ELSE waiters

note_dequeue(t) ==
  LET x == th[t] IN
  /\ x.at = "w_dequeue" /\ Free(x.n)
  /\ waiters' = Leave(t, x.n)
  /\ Set(t, [x EXCEPT !.at = "idle", !.result =
               IF NOTIFIED_TIME(x.n) > 0 THEN "timeout" ELSE "notified"])
  /\ UNCHANGED <<life, expiry, note_mu, disconnecting, notified, parent, children,
                 sem, now, calls>>

\* nsync_sem_wait_with_cancel_ after it asked for the note's time: queue the
\* thread and find the nearer deadline, or return ECANCELED.
CancelEnqueue(t) ==
  LET x == th[t]  cancel_time == NOTIFIED_TIME(x.n) IN
  /\ x.at = "c_enqueue"
  /\ IF x.ntime > 0 /\ cancel_time > 0
     THEN /\ Free(x.n)
          /\ waiters' = [waiters EXCEPT ![x.n] = @ \union {t}]
          /\ Set(t, [x EXCEPT !.at = "c_p", !.ntime = cancel_time])
     ELSE /\ x.ntime > 0 => Free(x.n)
          /\ Set(t, [x EXCEPT !.at = "idle", !.result = "canceled"])
          /\ UNCHANGED waiters
  /\ UNCHANGED <<life, expiry, note_mu, disconnecting, notified, parent, children,
                 sem, now, calls>>

\* Mutant: a timeout is always that of the caller.
NearerAlways(x) == TRUE

DeadlineIsNearer(x) == x.dl < x.ntime

\* The sleep returns 0, ETIMEDOUT, or ECANCELED after notifying the note whose
\* deadline has passed.
CancelP(t) ==
  LET x == th[t] IN
  /\ x.at = "c_p"
  /\ \/ /\ sem[t] = 1 /\ sem' = [sem EXCEPT ![t] = 0]
        /\ Set(t, [x EXCEPT !.at = "c_dequeue", !.result = "woken"])
     \/ /\ Minimum(x.ntime, x.dl) <= now /\ UNCHANGED sem
        /\ Set(t, IF DeadlineIsNearer(x)
                  THEN [x EXCEPT !.at = "c_dequeue", !.result = "timeout"]
                  ELSE [x EXCEPT !.at = "nd", !.k = "notify", !.next = "c_dequeue",
                                 !.result = "canceled"])
  /\ UNCHANGED <<noteVars, now, calls>>

CancelDequeue(t) ==
  LET x == th[t] IN
  /\ x.at = "c_dequeue" /\ Free(x.n)
  /\ waiters' = Leave(t, x.n)
  /\ Goto(t, "idle")
  /\ UNCHANGED <<life, expiry, note_mu, disconnecting, notified, parent, children,
                 sem, now, calls>>

---------------------------------------------------------------------------
(* The clients, the clock, and the whole system.                           *)

InCall(t, n) == th[t].at # "idle" /\ th[t].n = n

\* A client applies no operation to a note that is being freed, and frees no
\* note to which an operation is applied.
Usable(n) == life[n] = "live" /\ ~\E u \in Threads : InCall(u, n) /\ th[u].op = "free"

Freeable(n) == life[n] = "live" /\ ~\E u \in Threads : InCall(u, n)

Start(t, n, k, dl) ==
  /\ Usable(n)
  /\ Set(t, [IdleThread EXCEPT !.at = "nd", !.n = n, !.k = k, !.dl = dl])
  /\ UNCHANGED <<noteVars, sem, now>>

Call(t) ==
  /\ th[t].at = "idle" /\ calls[t] < program.max_calls
  /\ calls' = [calls EXCEPT ![t] = @ + 1]
  /\ \E c \in program.calls[t] :
       \/ c[1] = "notify" /\ Start(t, c[2], "notify", 0)
       \/ c[1] = "is_notified" /\ Start(t, c[2], "idle", 0)
       \/ c[1] = "wait" /\ Start(t, c[2], "w_check", c[3])
       \/ c[1] = "cancel" /\ Start(t, c[2], "c_enqueue", c[3])
       \/ /\ c[1] = "free" /\ Freeable(c[2])
          /\ Set(t, [IdleThread EXCEPT !.at = "lock", !.op = "free", !.n = c[2]])
          /\ UNCHANGED <<noteVars, sem, now>>
       \/ /\ c[1] = "new" /\ Usable(c[3])
          /\ nsync_note_new(t, c[2], c[3], c[4])

\* The wakeup that a thread in nsync_sem_wait_with_cancel_ is waiting for.
Wakeup(t) ==
  /\ th[t].at = "c_p" /\ sem[t] = 0
  /\ sem' = [sem EXCEPT ![t] = 1]
  /\ UNCHANGED <<noteVars, now, th, calls>>

Tick ==
  /\ now < MaxTime /\ now' = now + 1
  /\ UNCHANGED <<noteVars, sem, th, calls>>

Step(t) ==
  \/ NotifiedDeadline(t) \/ LockNoteFirst(t) \/ LockParent(t) \/ LockNoteAgain(t)
  \/ NotifyOld(t) \/ NotifyMark(t) \/ NotifyWake(t) \/ NotifyChild(t)
  \/ WaitForNoChildren(t) \/ NotifyFinish(t) \/ FreeChild(t) \/ FreeFinish(t)
  \/ NotifyMore(t) \/ WaitCheck(t) \/ note_enqueue(t) \/ WaitLoop(t) \/ WaitP(t)
  \/ note_dequeue(t) \/ CancelEnqueue(t) \/ CancelP(t) \/ CancelDequeue(t)

\* A thread with no calls left, or asleep with nothing left to wake it.
Rests(t) ==
  \/ th[t].at = "idle"
  \/ th[t].at \in {"w_p", "c_p"} /\ Minimum(th[t].ntime, th[t].dl) = Never

Stopped == (\A t \in Threads : Rests(t)) /\ UNCHANGED vars

Next ==
  /\ (\E t \in Threads : Call(t) \/ Step(t) \/ Wakeup(t)) \/ Tick \/ Stopped
  /\ UNCHANGED program

Spec == Init /\ [][Next]_vars

\* Threads in a call are scheduled, and time passes.
FairSpec ==
  /\ Spec /\ WF_vars(Tick /\ UNCHANGED program)
  /\ \A t \in Threads : WF_vars(Step(t) /\ UNCHANGED program)

---------------------------------------------------------------------------
(* Properties.                                                             *)

\* Type correctness; and the two ends of the parent-child link agree in every
\* state: c points to p exactly if p lists c, whichever thread relinks it.
NoteTypeOK ==
  /\ life \in [Notes -> {"none", "live", "freed"}]
  /\ expiry \in [Notes -> 0 .. Never] /\ now \in 0 .. MaxTime
  /\ note_mu \in [Notes -> Threads \union {NoThread}]
  /\ disconnecting \in [Notes -> 0 .. Cardinality(Threads)]
  /\ \A c, p \in Notes : parent[c] = p <=> c \in children[p]

\* "Notes can have parent notes; a note becomes notified if its parent becomes
\* notified": while a note is attached to a notified one, a thread is about to
\* deal with it, either one that goes through the parent's children or one
\* that disconnects the note itself.
ChildOfNotifiedIsVisited ==
  \A c \in Notes :
    parent[c] # NoNote /\ NOTIFIED_TIME(parent[c]) = 0 =>
      \/ disconnecting[c] > 0
      \/ \E t \in Threads, i \in 1 .. 3 :
           /\ i <= Len(th[t].stack)
           /\ \/ th[t].stack[i].n = c
              \/ /\ th[t].stack[i].n = parent[c]
                 /\ th[t].at = "nc_wake" \/ c \in th[t].stack[i].todo

\* The deadline of a note is never later than its parent's, so a note whose
\* ancestor expires has expired too; adoption keeps this.
ExpiryIsInherited ==
  \A c \in Notes : parent[c] # NoNote => expiry[c] <= expiry[parent[c]]

\* What nsync_note_notify promises: when it returns the note is notified, even
\* if the work was done by another thread or the note has just expired.
NotifyNotifies ==
  \A t \in Threads :
    /\ th[t].at # "idle" /\ th'[t].at = "idle"
    /\ "notify" \in {th[t].at, th[t].op}
    => (NOTIFIED_TIME(th[t].n) = 0)'

\* A note is not freed while its parent lists it or it has children, and its
\* lock is free then.
FreedNoteIsDetached ==
  \A n \in Notes : life[n] = "freed" =>
    /\ parent[n] = NoNote /\ children[n] = {} /\ note_mu[n] = NoThread
    /\ waiters[n] = {}

\* "The parent could be disconnected and freed while n->note_mu is not held.
\* The n->disconnecting count handles this": a thread that has read n->parent
\* and is about to lock it never finds it freed.
ParentOutlivesLocking ==
  \A t \in Threads : th[t].at = "lock_parent" => life[th[t].par] # "freed"

\* A thread that sleeps for a notified note has a post, or its notifier has
\* still to go through the waiters.
NotifiedSleeperIsWoken ==
  \A t \in Threads :
    th[t].at \in {"w_p", "c_p"} /\ notified[th[t].n] =>
      \/ sem[t] = 1
      \/ /\ t \in waiters[th[t].n]
         /\ \E u \in Threads : th[u].at = "nc_wake" /\ Frame(u).n = th[t].n

\* The waiter structures are on the threads' stacks: a thread outside a wait is
\* in no note's list, whether it was notified, timed out or was woken.  So
\* nsync_note_free finds no waiter, as it asserts.
NoWaiterLeftBehind ==
  \A t \in Threads, n \in Notes : th[t].at = "idle" => t \notin waiters[n]

\* The three results of nsync_sem_wait_with_cancel_: ECANCELED only if the note
\* is notified, ETIMEDOUT only if the caller's deadline has passed.
CancelResultIsTrue ==
  \A t \in Threads :
    th[t].at \in {"c_enqueue", "c_dequeue"} /\ th'[t].at = "idle" =>
      CASE th'[t].result = "canceled" -> NOTIFIED_TIME(th[t].n) = 0
        [] th'[t].result = "timeout"  -> th[t].dl <= now
        [] OTHER -> TRUE

\* Every call returns, though a wait may sleep as long as its note is not
\* notified: threads that lock notes and parents in either order, pass children
\* on and wait for children to go never wait for one another for ever.
CallReturns ==
  \A t \in Threads :
    th[t].at # "idle" ~>
      th[t].at = "idle" \/ (th[t].at \in {"w_p", "c_p"} /\ ~notified[th[t].n])

\* Waits whose deadline, or whose note's deadline, comes end.
TimedWaitReturns ==
  \A t \in Threads :
    th[t].at \in {"w_p", "c_p"} /\ Minimum(th[t].dl, th[t].ntime) < Never
      ~> th[t].at = "idle"

\* "a note becomes notified if its parent becomes notified"
NotificationReachesChildren ==
  \A c \in Notes :
    /\ life[c] = "live"
    /\ \E p \in Notes : parent[c] = p /\ NOTIFIED_TIME(p) = 0
    ~> NOTIFIED_TIME(c) = 0 \/ life[c] = "freed"

\* The tree of notes stays sound while threads notify, add and free notes: links
\* agree, deadlines are inherited, no child of a notified note is forgotten, and
\* a note is freed neither while it is linked nor while a thread is about to lock
\* it as a parent.
TreeIsSound ==
  /\ NoteTypeOK /\ ExpiryIsInherited /\ ChildOfNotifiedIsVisited
  /\ FreedNoteIsDetached /\ ParentOutlivesLocking

\* A note's notifier finds the threads that sleep for it, and none that has left
\* its wait.
NoteWaitersAreTracked == NotifiedSleeperIsWoken /\ NoWaiterLeftBehind

\* What nsync_note_notify and nsync_sem_wait_with_cancel_ report is so.
NoteResultsAreTrue == [][NotifyNotifies /\ CancelResultIsTrue]_vars

\* Calls return, waits at the latest when their deadline or their note's comes.
NoteCallsReturn == CallReturns /\ TimedWaitReturns
===========================================================================
