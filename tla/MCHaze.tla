------------------------------- MODULE MCHaze -------------------------------
(* Haze with polynomials of one coefficient: an operation on one operand flips it, an  *)
(* operation on two adds them, so a result differs from its operands and their order   *)
(* in time shows.                                                                      *)
EXTENDS Haze

Bits == {0, 1}
OneSize == {1}
TwoSizes == {1, 2}
WholePolynomials == [1..1 -> Bits]
FlipOrAdd(vals) ==
  [i \in {j \in DOMAIN vals[1] : \A k \in DOMAIN vals : j \in DOMAIN vals[k]} |->
     IF Len(vals) = 1 THEN 1 - vals[1][i] ELSE (vals[1][i] + vals[2][i]) % 2]
Zeros == {<<0>>}
Ones == {<<1>>}
ZeroOrNothing == {<<>>, <<0>>}
NoBases == {}
Pair == {<<"q0", "q1">>}
Single == {<<"q0">>}

(* err is read by no action: states that differ in it alone have the same futures. *)
WithoutErr == <<alloc_set, shadow_data, pool_free, host_set, poly_bytes, next_addr, poly_map, reg,
                input_addrs, addr_modulus, mrp_in, recording, conf, initialized, truth, unflushed>>

(* Nor are the names of MRP inputs, but to tag another input. *)
WithoutInputNames == <<alloc_set, shadow_data, pool_free, host_set, poly_bytes, next_addr, poly_map, reg,
                       input_addrs, addr_modulus, recording, conf, initialized, truth, unflushed>>

(* Bound: with one polynomial size and one modulus, hazeConfigureDevice changes nothing  *)
(* the memory calls read; what follows it is explored in the runs on formats only.      *)
NotFrozen == ~conf.configured

ReplayFaults == {"stop", "hook", "replay", "result"}
=============================================================================
