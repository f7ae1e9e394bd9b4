------------------------------ MODULE MuWord ------------------------------
(***************************************************************************)
(* The word of an nsync_mu (internal/common.h) and the operations that the *)
(* mutex code applies to it.  The low eight bits of the C word are flags   *)
(* and the remaining 24 bits count readers; here the flags are a set of    *)
(* names and the reader count is a number.  A compare-and-swap writes the  *)
(* whole word at once, so both fields always change together.              *)
(***************************************************************************)
EXTENDS Integers

MU_BITS == {"WLOCK", "SPINLOCK", "WAITING", "DESIG_WAKER", "CONDITION",
            "WRITER_WAITING", "LONG_WAIT", "ALL_FALSE"}

Word == [bits : SUBSET MU_BITS, readers : Nat]

\* nsync_mu_init(): a mutex that is free and has no waiters is all zero.
ZeroWord == [bits |-> {}, readers |-> 0]

LockTypes == {"writer", "reader"}

\* (w | set) & ~clear
SetClear(w, set, clear) ==
  [bits |-> (w.bits \cup set) \ clear, readers |-> w.readers]

\* (w & MU_ANY_LOCK) != 0
AnyLock(w) == "WLOCK" \in w.bits \/ w.readers > 0

---------------------------------------------------------------------------
(* The fields of the two lock_type structures.                             *)

\* The flags among l_type->zero_to_acquire.  The reader count, which must
\* also be zero for a writer, is tested in CanAcquire.
ZeroToAcquire(l) ==
  IF l = "writer" THEN {"WLOCK", "LONG_WAIT"}
                  ELSE {"WLOCK", "WRITER_WAITING", "LONG_WAIT"}

\* (w & zero_to_acquire) == 0, for a zero_to_acquire from which the flags
\* "ignored" were dropped.
CanAcquire(w, l, ignored) ==
  /\ w.bits \cap (ZeroToAcquire(l) \ ignored) = {}
  /\ l = "writer" => w.readers = 0

\* w + l_type->add_to_acquire
AddToAcquire(w, l) ==
  IF l = "writer"
  THEN [bits |-> w.bits \cup {"WLOCK"}, readers |-> w.readers]
  ELSE [bits |-> w.bits, readers |-> w.readers + 1]

\* Mutant: a reader clears the whole MU_RLOCK_FIELD.
SubClearsReaders(w, l) ==
  IF l = "writer"
  THEN [bits |-> w.bits \ {"WLOCK"}, readers |-> w.readers]
  ELSE [bits |-> w.bits, readers |-> 0]

\* w - l_type->add_to_acquire
SubToRelease(w, l) ==
  IF l = "writer"
  THEN [bits |-> w.bits \ {"WLOCK"}, readers |-> w.readers]
  ELSE [bits |-> w.bits, readers |-> w.readers - 1]

SetWhenWaiting(l) ==
  IF l = "writer" THEN {"WAITING", "WRITER_WAITING"} ELSE {"WAITING"}

ClearOnAcquire(l) == IF l = "writer" THEN {"WRITER_WAITING"} ELSE {}

ClearOnUncontendedRelease(l) == IF l = "writer" THEN {"ALL_FALSE"} ELSE {}

---------------------------------------------------------------------------
(* What a thread that holds the mutex is told about it.                    *)

\* nsync_mu_assert_held() does not panic.
AssertHeldPasses(w) == "WLOCK" \in w.bits

\* Mutant: tests MU_RLOCK_FIELD only.
RAssertHeldByReader(w) == w.readers > 0

\* nsync_mu_rassert_held() does not panic.
RAssertHeldPasses(w) == AnyLock(w)

\* The result of nsync_mu_is_reader() when it does not panic.
IsReader(w) == "WLOCK" \notin w.bits
===========================================================================
