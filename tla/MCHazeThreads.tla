--------------------------- MODULE MCHazeThreads ---------------------------
(* Two threads and polynomials of one bit: an operation flips it, so that a result      *)
(* differs from its operand; uploads write 1 and memset writes 0.  Where no property    *)
(* tells values apart all polynomials are one.                                          *)
EXTENDS HazeThreads

Bits == {0, 1}
OneSize == {1}
NoBases == {}
Flip(vals) == [i \in DOMAIN vals[1] |-> 1 - vals[1][i]]
One == <<1>>

Nought == {0}
Same(vals) == vals[1]
Zero == <<0>>

(* Bound, of the run on what is settled: when a reset has raced with a call, of the      *)
(* calls of several sections that may start only resets are explored.  The next reset    *)
(* that does not race leaves nothing of what came before it.                            *)
OnlyResetsFollowARace ==
  \A t \in Threads : raced /\ call[t] = Idle /\ call'[t] # Idle => call'[t].fn = "reset"

(* err is read by no action. *)
WithoutErr == <<allocations, shadow_data, epochVars, config, backend, locks, call, delivered,
                ghosts, raced>>
=============================================================================
