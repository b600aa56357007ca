---------------------------- MODULE BasisConvert ----------------------------
(***************************************************************************)
(* hazeBasisConvert, hazeModDown and hazeModUp (core/basis_convert.cpp):   *)
(* multi-residue operations whose result has other moduli than their       *)
(* operand, and, for hazeModUp, is several groups stored one after the     *)
(* other.  A call is a record: d and s are the arrays of destinations and  *)
(* sources, the rest the fields of its params struct.                      *)
(***************************************************************************)
EXTENDS Haze

CONSTANTS
  Lift(_, _),     \* a residue of a result, from the operand's values and its modulus
  BasisConverts,  \* calls of hazeBasisConvert: [d, s, src_base, dst_base]
  ModDowns,       \* calls of hazeModDown: [d, s, src_base, rescale_base]
  ModUps,         \* calls of hazeModUp: [d, s, src_base, digits, total, p_base]
  Inputs,         \* address lists the program uploads to, as one value
  Tagged          \* addresses it tags

(* Of what a program of conversions does besides.                                       *)
ASSUME InputsAssumption == \A d \in Inputs : \E base \in Bases : d \in Distinct(Mem!DevAddrs, base)
ASSUME TaggedAssumption == Tagged \subseteq Mem!DevAddrs

-----------------------------------------------------------------------------
(* Validation: refused before a session is opened. *)

valid_basis_convert(c) == c.src_base # <<>> /\ c.dst_base # <<>>

valid_mod_down(c) ==
  /\ c.src_base # <<>> /\ c.rescale_base # <<>>
  /\ Len(c.rescale_base) < Len(c.src_base)
  /\ ToSet(c.rescale_base) \subseteq ToSet(c.src_base)

(* `total` is the stated length of the concatenated digit bases. *)
valid_mod_up(c) ==
  /\ c.src_base # <<>> /\ c.digits # <<>> /\ c.p_base # <<>>
  /\ c.total = Len(FlattenSeq(c.digits))

-----------------------------------------------------------------------------
(* The operations, as methods of Epoch. *)

values(st, s) == [i \in DOMAIN s |-> st.poly_map[s[i]].val]

(* store_mrp_locked of a lifted result under `base`. *)
store_lifted(st, d, vals, base) == store_mrp(st, d, [i \in DOMAIN base |-> Lift(vals, base[i])], base)

basis_convert(st, c, ring_dim) ==
  LET built == build_mrp(st, c.s, ring_dim)
  IN IF built.err # "Ok" THEN built
     ELSE store_lifted(built, c.d, values(built, c.s), c.dst_base)

(* src_base without rescale_base, in the order of src_base.  Not SelectSeq, of which    *)
(* the provers know nothing.                                                            *)
kept_base(c) ==
  LET left == {i \in DOMAIN c.src_base : c.src_base[i] \notin ToSet(c.rescale_base)}
      rank(i) == Cardinality({k \in left : k <= i})
  IN [j \in 1..Cardinality(left) |-> c.src_base[CHOOSE i \in left : rank(i) = j]]

mod_down(st, c, ring_dim) ==
  basis_convert(st, [d |-> c.d, s |-> c.s, dst_base |-> kept_base(c)], ring_dim)

target_base(c) == c.src_base \o c.p_base

(* mr_subset: the operand's residues of one digit. *)
subset(vals, c, digit) ==
  [k \in DOMAIN digit |-> vals[CHOOSE i \in DOMAIN c.src_base : c.src_base[i] = digit[k]]]

SliceByDigit(c, k) ==   \* mutation: strided by the digit, not by what it is lifted to
  SubSeq(c.d, (k - 1) * Len(c.digits[k]) + 1, (k - 1) * Len(c.digits[k]) + Len(target_base(c)))

(* The destinations of digit k. *)
slice(c, k) ==
  LET n == Len(target_base(c)) IN SubSeq(c.d, (k - 1) * n + 1, k * n)

ModUpRereading(st, c, ring_dim) ==   \* mutation: each digit looks its operand up again
  LET store(acc, k) ==
        LET built == build_mrp(acc, c.s, ring_dim)
        IN IF built.err # "Ok" THEN built
           ELSE store_lifted(built, slice(c, k), subset(values(built, c.s), c, c.digits[k]),
                             target_base(c))
  IN FoldLeft(store, st, [k \in DOMAIN c.digits |-> k])

(* The session after each of the digits, which are stored in order.                    *)
digits_stored(st, c, vals) ==
  LET after[k \in 0..Len(c.digits)] ==
        IF k = 0 THEN st
        ELSE store_lifted(after[k - 1], slice(c, k), subset(vals, c, c.digits[k]), target_base(c))
  IN after

(* The operand is looked up once; every digit is lifted from it, also when the         *)
(* destinations of an earlier digit have overwritten it.                               *)
mod_up(st, c, ring_dim) ==
  LET built == build_mrp(st, c.s, ring_dim)
  IN IF built.err # "Ok" THEN built
     ELSE digits_stored(built, c, values(built, c.s))[Len(c.digits)]

-----------------------------------------------------------------------------
(* The calls a program makes: an address for each residue, those of a result different  *)
(* from each other, which the code does not check.                                      *)

Fed(c) == c.s \in [1..Len(c.src_base) -> Mem!DevAddrs]

(* Where the caller of a ModUp finds digit k.                                           *)
block(c, k) == SubSeq(c.d, (k - 1) * Len(target_base(c)) + 1, k * Len(target_base(c)))

ASSUME BasisConvertsAssumption ==
  \A c \in {u \in BasisConverts : valid_basis_convert(u)} :
    Fed(c) /\ c.dst_base \in Bases /\ c.d \in Distinct(Mem!DevAddrs, c.dst_base)

ASSUME ModDownsAssumption ==
  \A c \in {u \in ModDowns : valid_mod_down(u)} :
    /\ Fed(c) /\ c.src_base \in Seq(ToSet(c.src_base)) /\ c.rescale_base \in Seq(ToSet(c.rescale_base))
    /\ kept_base(c) \in Bases /\ c.d \in Distinct(Mem!DevAddrs, kept_base(c))

(* Digits are of the operand's moduli.  Those of a result may lie over each other.      *)
ASSUME ModUpsAssumption ==
  \A c \in {u \in ModUps : valid_mod_up(u)} :
    /\ Fed(c) /\ c.src_base \in Seq(ToSet(c.src_base)) /\ c.p_base \in Seq(ToSet(c.p_base))
    /\ c.digits \in Seq(ToSet(c.digits))
    /\ \A k \in DOMAIN c.digits : c.digits[k] \in Seq(ToSet(c.src_base))
    /\ target_base(c) \in Bases
    /\ c.d \in [1..(Len(c.digits) * Len(target_base(c))) -> Mem!DevAddrs]
    /\ \A k \in DOMAIN c.digits : T!IsInjective(block(c, k))

(* A lift makes polynomials of polynomials, of as many as an operand or a digit has.    *)
Widths ==
  LET whole == {c \in BasisConverts : valid_basis_convert(c)} \cup {c \in ModDowns : valid_mod_down(c)}
      cut == {c \in ModUps : valid_mod_up(c)}
  IN {Len(c.src_base) : c \in whole} \cup UNION {{Len(c.digits[k]) : k \in DOMAIN c.digits} : c \in cut}
ASSUME LiftAssumption ==
  \A n \in Widths : \A vals \in [1..n -> Poly], base \in Bases :
    \A i \in DOMAIN base : Lift(vals, base[i]) \in Poly

Rejected == Setting(conf, "InvalidArgument")

(* What a group stored at d under `base` holds for the program, lifted from `used`.    *)
Lifted(d, used, base) ==
  IF ToSet(used) \subseteq DOMAIN truth
  THEN [a \in ToSet(d) |-> Lift([k \in DOMAIN used |-> truth[used[k]]],
                                base[CHOOSE i \in DOMAIN d : d[i] = a])]
  ELSE T!Empty

hazeBasisConvert(c) ==
  IF ~valid_basis_convert(c) THEN Rejected
  ELSE /\ Recorded(basis_convert(Here, c, conf.ring_dim))
       /\ Writes(Lifted(c.d, c.s, c.dst_base), ToSet(c.d))

hazeModDown(c) ==
  IF ~valid_mod_down(c) THEN Rejected
  ELSE /\ Recorded(mod_down(Here, c, conf.ring_dim))
       /\ Writes(Lifted(c.d, c.s, kept_base(c)), ToSet(c.d))

(* What the addresses of a ModUp hold for the program: the last digit stored there.     *)
LiftedDigits(c) ==
  LET lifted(k) == Lifted(block(c, k), subset(c.s, c, c.digits[k]), target_base(c))
      stores(a) == {k \in DOMAIN c.digits : a \in ToSet(block(c, k))}
      last(a) == CHOOSE k \in stores(a) : \A l \in stores(a) : l <= k
  IN [a \in {b \in ToSet(c.d) : b \in DOMAIN lifted(last(b))} |-> lifted(last(a))[a]]

hazeModUp(c) ==
  IF ~valid_mod_up(c) THEN Rejected
  ELSE /\ Recorded(mod_up(Here, c, conf.ring_dim))
       /\ Writes(LiftedDigits(c), ToSet(c.d))

(* The calls of `calls` whose destinations a program may name.                          *)
Callable(calls) == {c \in calls : ToSet(c.d) \subseteq Dst}

Convert ==
  \/ \E c \in Callable(BasisConverts) : hazeBasisConvert(c) /\ WithinBounds
  \/ \E c \in Callable(ModDowns) : hazeModDown(c) /\ WithinBounds
  \/ \E c \in Callable(ModUps) : hazeModUp(c) /\ WithinBounds

(* Programs that make any call of the API.                                              *)
FullSpec == Init /\ [][Next \/ Convert]_haze

(* A program of conversions: the calls around them are those that feed them and export *)
(* their results.                                                                      *)
ConvertNext ==
  \/ \E n \in PolySizes : hazeSetRingDimension(n)
  \/ \E bytes \in PolySizes : hazeMallocMrp(MaxGroup, bytes)
  \/ \E d \in Inputs, src \in Uploads : hazeMemcpyMrpH2D(d, src)
  \/ \E a \in Tagged : hazeTagOutput(a) /\ WithinBounds
  \/ hazeFlush
  \/ Convert

ConvertSpec == Init /\ [][ConvertNext]_haze

-----------------------------------------------------------------------------
(* Properties. *)

GroupIn(r, d, base) ==
  \E g \in DOMAIN r.known_mrp_groups :
    /\ r.known_mrp_groups[g] = [addrs |-> d, moduli |-> base]
    /\ \A i \in DOMAIN d : Groups!Claims(r, d[i]) = {g}

(* A hazeModUp into disjoint destinations would leave each digit a group of its own    *)
(* under Q || P, whatever groups its destinations were in (basis_convert.cpp:192-200). *)
DigitsAreGroups ==
  \A c \in {u \in Callable(ModUps) : valid_mod_up(u) /\ T!IsInjective(u.d)} :
    LET st == mod_up(Here, c, conf.ring_dim)
    IN st.err = "Ok" => \A k \in DOMAIN c.digits : GroupIn(st.reg, block(c, k), target_base(c))

(* A rescale in place of a tagged group would leave it exported, with the residues it  *)
(* has left and all of them tagged; a dropped residue keeps the tag it has and is in no *)
(* group (epoch.cpp:278-299).                                                          *)
RescaleKeepsExport ==
  \A c \in {u \in Callable(ModDowns) : valid_mod_down(u) /\ u.d[1] = u.s[1] /\ Len(kept_base(u)) > 1} :
    \A g \in reg.pending_mrp_groups :
      LET st == mod_down(Here, c, conf.ring_dim)
          r == st.reg
          dropped == ToSet(c.s) \ ToSet(c.d)
      IN (st.err = "Ok" /\ reg.known_mrp_groups[g].addrs = c.s) =>
           /\ GroupIn(r, c.d, kept_base(c)) /\ g \in r.pending_mrp_groups
           /\ ToSet(c.d) \subseteq DOMAIN r.pending_outputs
           /\ dropped \cap Pending \subseteq DOMAIN r.pending_outputs
           /\ \A a \in dropped : Groups!Claims(r, a) = {}
=============================================================================
