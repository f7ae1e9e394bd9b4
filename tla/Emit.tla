-------------------------------- MODULE Emit --------------------------------
(***************************************************************************)
(* The bounded text buffer of internal/debug.c, with the routines that fill*)
(* it: emit_c, emit_print's hexadecimal numbers, and the loop of           *)
(* emit_waiters that stops at an overflow or at a bad tag.                 *)
(*                                                                         *)
(* The text is abstracted to its length: the n-th character passed to      *)
(* emit_c is the number n, Nul ends the string, and Dot is a dot of the    *)
(* mark "...".                                                             *)
(***************************************************************************)
EXTENDS Integers, Sequences, SequencesExt

CONSTANTS
  MaxLen,    \* bound: the largest buffer
  PieceLens, \* bound: the lengths of what one emit_print prints
  MaxWaiters,\* bound: the waiters in a queue
  Radix,     \* 16: the base of printed numbers
  MaxNumber  \* bound: the numbers printed

Nul == 0
Dot == -1
suffix == <<Dot, Dot, Dot, Nul>>

VARIABLES
  ebuf,        \* the emit_buf; start is the buffer's contents
  emitted,  \* characters passed to emit_c so far
  number,   \* the word that is printed with %i
  to_print,    \* the waiters still to print: length of text, and whether the tag is good
  printer        \* "state", "waiters", "end" or "done"

emitVars == <<ebuf, emitted, number, to_print, printer>>

Waiters == [len : PieceLens, good : BOOLEAN]

\* A buffer holds anything, here a value that emit_c never writes, before the call.
emit_init(len) == [start |-> [k \in 1..len |-> -2], len |-> len, pos |-> 0, overflow |-> FALSE]

EmitInit ==
  /\ \E len \in 0..MaxLen : ebuf = emit_init(len)
  /\ emitted = 0 /\ number = 0 /\ printer = "state"
  /\ to_print \in SeqOf(Waiters, MaxWaiters)

\* The end of a buffer of length len overwritten with the end of the suffix.
Marked(start, len) ==
  [k \in DOMAIN start |-> IF k > len - 4 THEN suffix[4 - (len - k)] ELSE start[k]]

\* Mutant: the last character of the buffer is never used.
emit_c_short(buf, c) ==
  IF buf.pos < buf.len - 1
  THEN [buf EXCEPT !.start[buf.pos + 1] = c, !.pos = @ + 1]
  ELSE IF buf.overflow THEN buf
  ELSE [buf EXCEPT !.start = Marked(@, buf.len), !.overflow = TRUE]

emit_c(buf, c) ==
  IF buf.pos < buf.len
  THEN [buf EXCEPT !.start[buf.pos + 1] = c, !.pos = @ + 1]
  ELSE IF buf.overflow THEN buf
  ELSE [buf EXCEPT !.start = Marked(@, buf.len), !.overflow = TRUE]

\* The next n characters of the text.
emit_print(n) ==
  /\ ebuf' = FoldLeft(emit_c, ebuf, [k \in 1..n |-> emitted + k])
  /\ emitted' = emitted + n

(* %i                                                                      *)

\* The first loop: the position of the first digit.
HexLength(n) == CHOOSE i \in 0..n : n \div Radix^i < Radix /\ (i = 0 \/ n \div Radix^(i - 1) >= Radix)

\* The second: the digits from there.
HexDigits(n) == [k \in 1..HexLength(n) + 1 |-> (n \div Radix^(HexLength(n) + 1 - k)) % Radix]

\* The word, as a number, and the names of its bits.
EmitState ==
  /\ printer = "state" /\ printer' = "waiters"
  /\ number' \in 0..MaxNumber
  /\ \E n \in PieceLens : emit_print(Len(HexDigits(number')) + n)
  /\ UNCHANGED to_print

\* One iteration of emit_waiters.  A waiter without the right tag is the last,
\* because its links are not followed.
EmitWaiter ==
  /\ printer = "waiters" /\ to_print # <<>> /\ ~ebuf.overflow
  /\ emit_print(Head(to_print).len)
  /\ to_print' = IF Head(to_print).good THEN Tail(to_print) ELSE <<>>
  /\ UNCHANGED <<printer, number>>

EndOfWaiters ==
  /\ printer = "waiters" /\ (to_print = <<>> \/ ebuf.overflow)
  /\ printer' = "end" /\ to_print' = <<>> /\ UNCHANGED <<ebuf, emitted, number>>

\* The nul at the end.
EmitEnd ==
  /\ printer = "end" /\ printer' = "done"
  /\ ebuf' = emit_c(ebuf, Nul)
  /\ UNCHANGED <<emitted, number, to_print>>

EmitDone == printer = "done" /\ UNCHANGED emitVars

EmitNext == EmitState \/ EmitWaiter \/ EndOfWaiters \/ EmitEnd \/ EmitDone

EmitSpec == EmitInit /\ [][EmitNext]_emitVars

----------------------------------------------------------------------------
(* Properties                                                              *)

\* "Place in buf[0,..,n-1] a nul-terminated, human readable string": whatever the
\* length of the text, a buffer that is not empty holds a nul, preceded by the
\* beginning of the text and then at most dots, and nothing uninitialized.
StringIsTerminated ==
  printer = "done" /\ ebuf.len > 0 =>
    \E z \in 1..ebuf.len :
      /\ ebuf.start[z] = Nul
      /\ \A k \in 1..z - 1 : ebuf.start[k] \in {k, Dot}

\* "If n>=4, buffer overflow is indicated by placing the characters "..." at the
\* end of the string"; a text that fits with its nul is there entirely, a text
\* that is one too long is marked.
OverflowIsMarked ==
  printer = "done" =>
    IF emitted + 1 <= ebuf.len
    THEN SubSeq(ebuf.start, 1, emitted + 1) = [k \in 1..emitted |-> k] \o <<Nul>>
    ELSE ebuf.len >= 4 => SubSeq(ebuf.start, ebuf.len - 3, ebuf.len) = suffix

\* The digits of a number are its digits: their value is the number, and the first
\* is zero only for zero.
HexIsTheNumber ==
  LET d == HexDigits(number) IN
  /\ FoldLeft(LAMBDA acc, x : acc * Radix + x, 0, d) = number
  /\ number > 0 => d[1] # 0

\* The text of nsync_mu_debug_state and its relatives can be trusted: it is
\* terminated, it is complete or marked as cut, and its numbers are right.
TextIsRight == StringIsTerminated /\ OverflowIsMarked /\ HexIsTheNumber
=============================================================================
