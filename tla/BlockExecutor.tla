---------------------------- MODULE BlockExecutor ----------------------------
(***************************************************************************)
(* The arithmetic of block_executor::run_one_iteration                     *)
(* (gnuradio-runtime/lib/block_executor.cc): how many items one call of    *)
(* general_work is asked for, given the space in the output buffers and    *)
(* the items in the input buffers.                                         *)
(*                                                                         *)
(* A block is described by a record c:                                     *)
(*   multiple      output_multiple(), which alignment() also returns       *)
(*   multiple_set  output_multiple_set(): FALSE when only set_alignment    *)
(*                 was called                                              *)
(*   min_noutput   min_noutput_items()                                     *)
(*   max_noutput   the scheduler's or the block's max_noutput_items        *)
(*   history       history()                                               *)
(*   decim, interp relative rate: sync_decimator, sync_interpolator        *)
(*   fixed_rate    fixed_rate(): a sync_block or one derived from it       *)
(***************************************************************************)
EXTENDS Integers

\* What the sync blocks allow: a block of another kind takes no more items than
\* its forecast, one for each it makes.
BlockConfig ==
    {c \in [multiple : Nat \ {0}, multiple_set : BOOLEAN, min_noutput : Nat,
            max_noutput : Nat, history : Nat \ {0}, decim : Nat \ {0},
            interp : Nat \ {0}, fixed_rate : BOOLEAN] :
        ~c.fixed_rate => c.decim <= c.interp}

Least(a, b)    == IF a < b THEN a ELSE b
Greatest(a, b) == IF a > b THEN a ELSE b

round_up(n, multiple)   == ((n + multiple - 1) \div multiple) * multiple
round_down(n, multiple) == (n \div multiple) * multiple

(* forecast(noutput_items): items one input must hold.  gr::block's default *)
(* ignores the rate; the sync blocks use fixed_rate_noutput_to_ninput.      *)
forecast(c, noutput) ==
    IF c.fixed_rate THEN (noutput * c.decim) \div c.interp + c.history - 1
                    ELSE noutput + c.history - 1

fixed_rate_ninput_to_noutput(c, ninput) ==
    (Greatest(0, ninput - c.history + 1) \div c.decim) * c.interp

(* min_available_space for one output: at most half the buffer, in whole    *)
(* output multiples.  Less than min_noutput_items is "blocked".             *)
best_n(c, bufsize)     == round_down(bufsize \div 2, c.multiple)
\* Mutant: the free space is not looked at.
offered_blindly(c, space, bufsize) == best_n(c, bufsize)
offered(c, space, bufsize) == Least(round_down(space, c.multiple), best_n(c, bufsize))
output_blocked(c, n)   == n < Greatest(1, c.min_noutput)

\* A block too demanding for its buffer: min_available_space throws.
BufferTooSmall(c, bufsize) == best_n(c, bufsize) < Greatest(1, c.min_noutput)

max_noutput_items(c) == round_down(c.max_noutput, c.multiple)

\* A sink's first guess: all the input it has, at its rate.
sink_guess(c, max_items_avail) ==
    Least(round_down((max_items_avail * c.interp) \div c.decim, c.multiple),
          max_noutput_items(c))

-----------------------------------------------------------------------------
(* From try_again: one pass over noutput_items.                             *)

\* A fixed rate block tries to consume all the input it has.
UseAllInput(c, max_items_avail, n) ==
    LET all  == fixed_rate_ninput_to_noutput(c, max_items_avail)
        reqd == IF c.multiple_set THEN round_down(all, c.multiple) ELSE all
    IN  IF c.fixed_rate /\ reqd > 0 /\ reqd <= n THEN reqd ELSE n

CapOutput(c, n) ==
    Least(n, IF c.fixed_rate THEN Greatest(c.multiple, max_noutput_items(c))
             ELSE max_noutput_items(c))

\* Mutants: an unaligned call that reaches the boundary keeps counting; a short
\* call on an aligned buffer does not claim the misalignment.
Align_overcounts(c, off, n) ==
    IF c.multiple_set THEN [n |-> n, off |-> 0]
    ELSE IF off > 0 THEN [n |-> n, off |-> off - n]
    ELSE IF n < c.multiple THEN [n |-> n, off |-> c.multiple - n]
    ELSE [n |-> round_down(n, c.multiple), off |-> 0]

Align_unclaimed(c, off, n) ==
    IF c.multiple_set \/ n < c.multiple THEN [n |-> n, off |-> 0]
    ELSE [n |-> round_down(n, c.multiple), off |-> 0]

(* The SIMD alignment: `off` is d_unaligned, 0 when the block is aligned.   *)
(* The result is the size of the call and what d_unaligned becomes if it is *)
(* made.                                                                    *)
Align(c, off, n) ==
    IF c.multiple_set THEN [n |-> n, off |-> 0]
    ELSE IF off > 0
    THEN IF n >= off
         THEN [n |-> round_up(n, c.multiple) - (c.multiple - off), off |-> 0]
         ELSE [n |-> n, off |-> off - n]
    ELSE IF n < c.multiple THEN [n |-> n, off |-> c.multiple - n]
    ELSE [n |-> round_down(n, c.multiple), off |-> 0]

Pass(c, off, max_items_avail, n) ==
    Align(c, off, CapOutput(c, UseAllInput(c, max_items_avail, n)))

\* Halving the request, in whole multiples, when the input is short.
Halve(c, n) == round_up(n \div 2, c.multiple)
=============================================================================
