--------------------------- MODULE MCBasisConvert ---------------------------
(* BasisConvert over moduli q0, q1 and p: rescaling drops p, ModUp lifts the digits    *)
(* <<q0>> and <<q1>> to q0, q1, p, and so has six destinations.  The calls are laid    *)
(* out to overlap: results over their own sources, in place, over both digits of an    *)
(* earlier ModUp, and the second digit of a ModUp over its first.                      *)
EXTENDS BasisConvert

OneSize == {1}
Bits == {0, 1}
Ones == {<<1>>}
FlipOrAdd(vals) == vals[1]

(* The residues of a result differ from each other. *)
Skew(vals, q) == IF q = "q1" THEN <<1 - Last(vals)[1]>> ELSE vals[1]

Sources == {<<1, 2>>}

Q == <<"q0", "q1">>
QP == <<"q0", "q1", "p">>

(* What the calls store. *)
StoredBases == {<<"p">>, Q, QP}

(* kept_base by the library's definition. *)
ASSUME KeptBaseAssumption ==
  \A c \in {u \in ModDowns : valid_mod_down(u)} :
    kept_base(c) = SelectSeq(c.src_base, LAMBDA q : q \notin ToSet(c.rescale_base))

Converts == {[d |-> <<3>>, s |-> <<1, 2>>, src_base |-> Q, dst_base |-> <<"p">>],
             [d |-> <<3>>, s |-> <<1, 2>>, src_base |-> Q, dst_base |-> <<>>]}
Downs == {[d |-> <<1, 2>>, s |-> <<1, 2, 3>>, src_base |-> QP, rescale_base |-> <<"p">>],
          [d |-> <<1, 4>>, s |-> <<1, 2, 3>>, src_base |-> QP, rescale_base |-> <<"p">>],
          [d |-> <<1, 4>>, s |-> <<1, 2>>, src_base |-> Q, rescale_base |-> <<"p">>]}
Ups == {[d |-> d, s |-> <<1, 2>>, src_base |-> Q,
         digits |-> <<<<"q0">>, <<"q1">>>>, total |-> n, p_base |-> <<"p">>] :
           d \in {<<1, 2, 3, 4, 5, 6>>, <<4, 5, 6, 4, 5, 6>>}, n \in {2, 3}}

WithoutInputNames == <<alloc_set, shadow_data, pool_free, host_set, poly_bytes, next_addr, poly_map, reg,
                       input_addrs, addr_modulus, recording, conf, initialized, truth, unflushed>>
=============================================================================
