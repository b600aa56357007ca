------------------------- MODULE BasisConvertProofs -------------------------
(***************************************************************************)
(* Conversions among the other calls of the API: they keep the invariant   *)
(* of HazeProofs, so what holds of the other calls holds of programs that  *)
(* convert, rescale and lift.  A conversion is a look-up and the stores of *)
(* groups, and HazeProofs says what each does to a session state; for a    *)
(* ModUp, whose stores may overwrite its operand and each other, that is   *)
(* summed over the digits.                                                 *)
(***************************************************************************)
EXTENDS BasisConvert, HazeProofs

-----------------------------------------------------------------------------
(* The values of an operand, and what is lifted from them. *)

(* `vals` are what the addresses `used` hold for the program, where that is defined.     *)
Hold(vals, used, tr) ==
  /\ vals = [k \in DOMAIN used |-> vals[k]]
  /\ \A k \in DOMAIN used : used[k] \in DOMAIN tr => vals[k] = tr[used[k]]

LEMMA ValuesAre ==
  ASSUME NEW st, Sound(st), NEW s, \A i \in DOMAIN s : s[i] \in BoundIn(st)
  PROVE  /\ DOMAIN values(st, s) = DOMAIN s
         /\ \A i \in DOMAIN s : values(st, s)[i] = st.poly_map[s[i]].val /\ values(st, s)[i] \in Poly
         /\ \A tr, un : Current(st, tr, un) => Hold(values(st, s), s, tr)
  <1>1. /\ DOMAIN values(st, s) = DOMAIN s
        /\ \A i \in DOMAIN s : values(st, s)[i] = st.poly_map[s[i]].val
    BY DEF values
  <1>2. \A i \in DOMAIN s : st.poly_map[s[i]] \in Recordings
    BY DEF Sound, Typed
  <1>3. \A i \in DOMAIN s : values(st, s)[i] \in Poly
    BY <1>1, <1>2 DEF Recordings
  <1>4. values(st, s) = [k \in DOMAIN s |-> values(st, s)[k]]
    BY DEF values
  <1>5. ASSUME NEW tr, NEW un, Current(st, tr, un) PROVE Hold(values(st, s), s, tr)
    BY <1>1, <1>4, <1>5 DEF Hold, Current
  <1>6. QED BY <1>1, <1>3, <1>5

LEMMA LiftedIs ==
  ASSUME NEW d, NEW base, Residues(d, base), NEW used, NEW vals, Hold(vals, used, truth)
  PROVE  /\ DOMAIN Lifted(d, used, base) \subseteq Places(d)
         /\ \A i \in DOMAIN d : d[i] \in DOMAIN Lifted(d, used, base) =>
              Lifted(d, used, base)[d[i]] = Lift(vals, base[i])
  <1> DEFINE held == [k \in DOMAIN used |-> truth[used[k]]]
             at(a) == CHOOSE i \in DOMAIN d : d[i] = a
  <1>1. ToSet(d) = Places(d)
    BY DEF ToSet, Places
  <1>2. CASE ToSet(used) \subseteq DOMAIN truth
    <2>1. \A k \in DOMAIN used : used[k] \in DOMAIN truth
      BY <1>2 DEF ToSet
    <2>2. held = vals
      BY <2>1 DEF Hold
    <2>3. Lifted(d, used, base) = [a \in Places(d) |-> Lift(held, base[at(a)])]
      BY <1>1, <1>2 DEF Lifted
    <2>4. \A i \in DOMAIN d : at(d[i]) = i /\ d[i] \in Places(d)
      BY DEF Residues, T!IsInjective, Places
    <2> HIDE DEF held, at
    <2>5. Lifted(d, used, base) = [a \in Places(d) |-> Lift(vals, base[at(a)])]
      BY <2>2, <2>3
    <2>6. QED BY <2>4, <2>5
  <1>3. CASE ~(ToSet(used) \subseteq DOMAIN truth)
    BY <1>3, NothingHeld DEF Lifted
  <1>4. QED BY <1>2, <1>3

(* Storing a lifted group. *)
LEMMA StoreLiftedStep ==
  ASSUME NEW st, Sound(st), Within(st), st.err = "Ok", NEW base \in Bases, NEW d, Residues(d, base),
         MayWrite(d), NEW vals, \A i \in DOMAIN base : Lift(vals, base[i]) \in Poly,
         NEW q, q = store_lifted(st, d, vals, base)
  PROVE  /\ Sound(q) /\ Within(q) /\ q.err = "Ok"
         /\ Len(base) > 1 => Regroups(st, q, d, base)
         /\ \A tr, un, used : Current(st, tr, un) /\ Hold(vals, used, truth) =>
              Current(q, Given(tr, Places(d), Lifted(d, used, base)), un \cup Places(d))
  <1> DEFINE lifted == [i \in DOMAIN base |-> Lift(vals, base[i])]
  <1>1. DOMAIN d = DOMAIN base
    BY DEF Residues
  <1>2. q = store_mrp(st, d, lifted, base)
    BY DEF store_lifted
  <1>3. \A i \in DOMAIN d : lifted[i] \in Poly /\ lifted[i] = Lift(vals, base[i])
    BY <1>1
  <1> HIDE DEF lifted
  <1>4. /\ Sound(q) /\ Within(q) /\ q.err = "Ok"
        /\ Len(base) > 1 => Regroups(st, q, d, base)
        /\ GivesEach(st, q, d, lifted)
    BY <1>2, <1>3, StoreGroupStep
  <1>5. ASSUME NEW tr, NEW un, NEW used, Current(st, tr, un), Hold(vals, used, truth)
        PROVE  Current(q, Given(tr, Places(d), Lifted(d, used, base)), un \cup Places(d))
    <2>1. /\ DOMAIN Lifted(d, used, base) \subseteq Places(d)
          /\ \A i \in DOMAIN d : d[i] \in DOMAIN Lifted(d, used, base) =>
               Lifted(d, used, base)[d[i]] = lifted[i]
      BY <1>3, <1>5, LiftedIs
    <2>2. QED BY <1>4, <1>5, <2>1 DEF GivesEach
  <1>6. QED BY <1>4, <1>5

-----------------------------------------------------------------------------
(* What a conversion leaves to the calls after it. *)

LEMMA RejectedStep ==
  ASSUME Inv, Rejected
  PROVE  Inv' /\ (AllCurrent => AllCurrent')
  <1>1. conf \in Configs /\ "InvalidArgument" \in AP!Errors
    BY DEF Inv, AP!Errors
  <1>2. QED BY <1>1, SettingStep DEF Rejected

LEMMA ConversionEffect ==
  ASSUME Inv, NEW d, NEW f, NEW q, Sound(q), Within(q), Recorded(q), Writes(f, Places(d)),
         Current(Here, truth, unflushed) => Current(q, After(q, d, f), UnflushedAfter(q, d))
  PROVE  Inv' /\ (AllCurrent => AllCurrent')
  <1>1. Inv' /\ err' = q.err /\ (Current(q, truth', unflushed') => AllCurrent')
    BY SessionEffect
  <1>2. truth' = After(q, d, f) /\ unflushed' = UnflushedAfter(q, d)
    BY <1>1, WritesEffect
  <1>3. QED BY <1>1, <1>2 DEF AllCurrent

-----------------------------------------------------------------------------
(* Look-up and store: hazeBasisConvert and hazeModDown. *)

(* A call that stores at d, under `base`, what it lifts from all of its operand.         *)
Converts(c, base) ==
  /\ Fed(c) /\ Len(c.src_base) \in Widths
  /\ base \in Bases /\ Residues(c.d, base) /\ MayWrite(c.d)

LEMMA ConvertStep ==
  ASSUME Shadows, NEW st, Sound(st), Within(st), NEW c, NEW base, Converts(c, base), NEW n, NEW q,
         q = basis_convert(st, [d |-> c.d, s |-> c.s, dst_base |-> base], n)
  PROVE  /\ Sound(q) /\ Within(q)
         /\ q.err = "Ok" /\ Len(base) > 1 => Regroups(st, q, c.d, base)
         /\ Current(st, truth, unflushed) =>
              Current(q, After(q, c.d, Lifted(c.d, c.s, base)), UnflushedAfter(q, c.d))
  <1> DEFINE built == build_mrp(st, c.s, n)
             vals == values(built, c.s)
  <1>1. q = IF built.err # "Ok" THEN built ELSE store_lifted(built, c.d, vals, base)
    BY DEF basis_convert
  <1>2. DOMAIN c.s = 1..Len(c.src_base) /\ DOMAIN c.s \subseteq Nat
    BY DEF Converts, Fed
  <1>3. /\ Sound(built) /\ Within(built)
        /\ Carries(st, built) /\ built.reg = st.reg
        /\ built.err = "Ok" => \A i \in DOMAIN c.s : c.s[i] \in BoundIn(built)
    BY <1>2, BuildStep
  <1> HIDE DEF built
  <1>4. CASE built.err # "Ok"
    BY <1>1, <1>3, <1>4 DEF Carries, After, UnflushedAfter
  <1>5. CASE built.err = "Ok"
    <2>1. /\ DOMAIN vals = DOMAIN c.s /\ \A i \in DOMAIN c.s : vals[i] \in Poly
          /\ \A tr, un : Current(built, tr, un) => Hold(vals, c.s, tr)
      BY <1>3, <1>5, ValuesAre
    <2>2. vals \in [1..Len(c.src_base) -> Poly]
      BY <1>2, <2>1 DEF values
    <2> HIDE DEF vals
    <2>3. \A i \in DOMAIN base : Lift(vals, base[i]) \in Poly
      BY <2>2, LiftAssumption DEF Converts
    <2>4. q = store_lifted(built, c.d, vals, base)
      BY <1>1, <1>5
    <2>5. /\ Sound(q) /\ Within(q) /\ q.err = "Ok"
          /\ Len(base) > 1 => Regroups(built, q, c.d, base)
          /\ \A tr, un, used : Current(built, tr, un) /\ Hold(vals, used, truth) =>
               Current(q, Given(tr, Places(c.d), Lifted(c.d, used, base)), un \cup Places(c.d))
      BY <1>3, <1>5, <2>3, <2>4, StoreLiftedStep DEF Converts
    <2>6. ASSUME Current(st, truth, unflushed)
          PROVE  Current(q, Given(truth, Places(c.d), Lifted(c.d, c.s, base)), unflushed \cup Places(c.d))
      BY <1>3, <2>1, <2>5, <2>6 DEF Carries
    <2>7. QED BY <1>3, <2>5, <2>6 DEF Regroups, After, UnflushedAfter
  <1>6. QED BY <1>4, <1>5

LEMMA ConvertsBasis ==
  ASSUME Inv, NEW c \in Callable(BasisConverts), valid_basis_convert(c)
  PROVE  Converts(c, c.dst_base)
  <1>1. Fed(c) /\ c.dst_base \in Bases /\ c.d \in Distinct(Mem!DevAddrs, c.dst_base)
    BY BasisConvertsAssumption DEF Callable
  <1>2. Places(c.d) \subseteq Dst
    BY DEF Callable, ToSet, Places
  <1>3. Len(c.src_base) \in Widths
    BY Zenon DEF Widths, Callable
  <1>4. Residues(c.d, c.dst_base) /\ MayWrite(c.d)
    BY <1>1, <1>2, DistinctAre, Writable DEF MayWrite
  <1>5. QED BY <1>1, <1>3, <1>4 DEF Converts

LEMMA ConvertsDown ==
  ASSUME Inv, NEW c \in Callable(ModDowns), valid_mod_down(c)
  PROVE  Converts(c, kept_base(c))
  <1>1. Fed(c) /\ kept_base(c) \in Bases /\ c.d \in Distinct(Mem!DevAddrs, kept_base(c))
    BY ModDownsAssumption DEF Callable
  <1>2. Places(c.d) \subseteq Dst
    BY DEF Callable, ToSet, Places
  <1>3. Len(c.src_base) \in Widths
    BY Zenon DEF Widths, Callable
  <1>4. Residues(c.d, kept_base(c)) /\ MayWrite(c.d)
    BY <1>1, <1>2, DistinctAre, Writable DEF MayWrite
  <1>5. QED BY <1>1, <1>3, <1>4 DEF Converts

LEMMA BasisConvertStep ==
  ASSUME Inv, NEW c \in Callable(BasisConverts), hazeBasisConvert(c)
  PROVE  Inv' /\ (AllCurrent => AllCurrent')
  <1>1. CASE ~valid_basis_convert(c)
    BY <1>1, RejectedStep DEF hazeBasisConvert
  <1>2. CASE valid_basis_convert(c)
    <2> DEFINE q == basis_convert(Here, c, conf.ring_dim)
               f == Lifted(c.d, c.s, c.dst_base)
    <2>1. Recorded(q) /\ Writes(f, Places(c.d))
      BY <1>2 DEF hazeBasisConvert, ToSet, Places
    <2>2. q = basis_convert(Here, [d |-> c.d, s |-> c.s, dst_base |-> c.dst_base], conf.ring_dim)
      BY DEF basis_convert
    <2> HIDE DEF q
    <2>3. /\ Sound(q) /\ Within(q)
          /\ Current(Here, truth, unflushed) => Current(q, After(q, c.d, f), UnflushedAfter(q, c.d))
      BY <1>2, <2>2, ConvertsBasis, ConvertStep, ShadowsHere DEF Inv
    <2> HIDE DEF f
    <2>4. QED BY <2>1, <2>3, ConversionEffect
  <1>3. QED BY <1>1, <1>2

LEMMA ModDownStep ==
  ASSUME Inv, NEW c \in Callable(ModDowns), hazeModDown(c)
  PROVE  Inv' /\ (AllCurrent => AllCurrent')
  <1>1. CASE ~valid_mod_down(c)
    BY <1>1, RejectedStep DEF hazeModDown
  <1>2. CASE valid_mod_down(c)
    <2> DEFINE base == kept_base(c)
               q == mod_down(Here, c, conf.ring_dim)
               f == Lifted(c.d, c.s, base)
    <2>1. Recorded(q) /\ Writes(f, Places(c.d))
      BY <1>2 DEF hazeModDown, ToSet, Places
    <2>2. q = basis_convert(Here, [d |-> c.d, s |-> c.s, dst_base |-> base], conf.ring_dim)
      BY DEF mod_down
    <2>3. Converts(c, base)
      BY <1>2, ConvertsDown
    <2> HIDE DEF q, base
    <2>4. /\ Sound(q) /\ Within(q)
          /\ Current(Here, truth, unflushed) => Current(q, After(q, c.d, f), UnflushedAfter(q, c.d))
      BY <2>2, <2>3, ConvertStep, ShadowsHere DEF Inv
    <2> HIDE DEF f
    <2>5. QED BY <2>1, <2>4, ConversionEffect
  <1>3. QED BY <1>1, <1>2

-----------------------------------------------------------------------------
(* A rescale drops residues. *)

LEMMA KeptIsShorter ==
  ASSUME NEW c \in ModDowns, valid_mod_down(c)
  PROVE  Len(kept_base(c)) < Len(c.src_base)
  <1> DEFINE left == {i \in DOMAIN c.src_base : c.src_base[i] \notin ToSet(c.rescale_base)}
             N == Len(c.src_base)
  <1>1. c.src_base \in Seq(ToSet(c.src_base)) /\ kept_base(c) \in Bases
    BY ModDownsAssumption
  <1>2. N \in Nat /\ DOMAIN c.src_base = 1..N
    BY <1>1
  <1>3. IsFiniteSet(1..N) /\ Cardinality(1..N) = N
    BY <1>2, FS_Interval
  <1>4. Len(kept_base(c)) = Cardinality(left)
    <2>1. DOMAIN kept_base(c) = 1..Cardinality(left)
      BY DEF kept_base
    <2>2. Cardinality(left) \in Nat
      BY <1>2, <1>3, FS_Subset, FS_CardinalityType
    <2>3. kept_base(c) \in Seq(T!Range(kept_base(c)))
      BY <1>1, BasesAssumption
    <2> HIDE DEF left
    <2>4. QED BY <2>1, <2>2, <2>3
  <1>5. PICK q : q \in ToSet(c.rescale_base)
    <2>1. c.rescale_base \in Seq(ToSet(c.rescale_base)) /\ c.rescale_base # <<>>
      BY ModDownsAssumption DEF valid_mod_down
    <2>2. 1 \in DOMAIN c.rescale_base
      BY <2>1
    <2>3. QED BY <2>2 DEF ToSet
  <1>6. PICK i \in DOMAIN c.src_base : c.src_base[i] = q
    BY <1>5 DEF valid_mod_down, ToSet
  <1>7. left \subseteq (1..N) \ {i}
    BY <1>2, <1>5, <1>6
  <1>8. IsFiniteSet((1..N) \ {i}) /\ Cardinality((1..N) \ {i}) = N - 1
    <2>1. i \in 1..N
      BY <1>2, <1>6
    <2> HIDE DEF N
    <2>2. QED BY <1>3, <2>1, FS_RemoveElement
  <1>9. Cardinality(left) <= N - 1 /\ Cardinality(left) \in Nat
    BY <1>7, <1>8, FS_Subset, FS_CardinalityType
  <1> HIDE DEF left
  <1>10. QED BY <1>2, <1>4, <1>9

-----------------------------------------------------------------------------
(* The digits of a ModUp and where they go. *)

(* A call that stores its digits at d.                                                  *)
Lifts(c) ==
  /\ c \in ModUps /\ valid_mod_up(c) /\ Fed(c) /\ MayWrite(c.d)
  /\ Len(c.digits) \in Nat \ {0} /\ DOMAIN c.digits = 1..Len(c.digits)
  /\ c.d \in [1..(Len(c.digits) * Len(target_base(c))) -> Mem!DevAddrs]
  /\ target_base(c) \in Bases /\ Len(target_base(c)) \in Nat /\ Len(target_base(c)) > 1
  /\ DOMAIN target_base(c) = 1..Len(target_base(c))
  /\ \A k \in DOMAIN c.digits : T!IsInjective(block(c, k))

LEMMA LiftsUp ==
  ASSUME Inv, NEW c \in Callable(ModUps), valid_mod_up(c)
  PROVE  Lifts(c)
  <1>1. /\ Fed(c) /\ c.src_base \in Seq(ToSet(c.src_base)) /\ c.p_base \in Seq(ToSet(c.p_base))
        /\ c.digits \in Seq(ToSet(c.digits))
        /\ target_base(c) \in Bases
        /\ c.d \in [1..(Len(c.digits) * Len(target_base(c))) -> Mem!DevAddrs]
        /\ \A k \in DOMAIN c.digits : T!IsInjective(block(c, k))
    BY ModUpsAssumption DEF Callable
  <1>2. Places(c.d) \subseteq Dst
    BY DEF Callable, ToSet, Places
  <1>3. MayWrite(c.d)
    BY <1>2, Writable DEF MayWrite
  <1>4. Len(c.digits) \in Nat \ {0} /\ DOMAIN c.digits = 1..Len(c.digits)
    BY <1>1 DEF valid_mod_up
  <1>5. /\ Len(target_base(c)) \in Nat /\ Len(target_base(c)) > 1
        /\ DOMAIN target_base(c) = 1..Len(target_base(c))
    <2> DEFINE S == ToSet(c.src_base) \cup ToSet(c.p_base)
    <2>1. c.src_base \in Seq(S) /\ c.p_base \in Seq(S)
      BY <1>1
    <2>2. Len(c.src_base) > 0 /\ Len(c.p_base) > 0
      BY <1>1 DEF valid_mod_up
    <2> HIDE DEF S
    <2>3. target_base(c) \in Seq(S) /\ Len(target_base(c)) = Len(c.src_base) + Len(c.p_base)
      BY <2>1 DEF target_base
    <2>4. Len(c.src_base) \in Nat /\ Len(c.p_base) \in Nat
      BY <2>1
    <2>5. \A x, y \in Nat : x > 0 /\ y > 0 => x + y \in Nat /\ x + y > 1
      OBVIOUS
    <2>6. Len(c.src_base) + Len(c.p_base) \in Nat /\ Len(c.src_base) + Len(c.p_base) > 1
      BY <2>2, <2>4, <2>5
    <2> DEFINE q == target_base(c)
    <2>7. q \in Seq(S) /\ Len(q) \in Nat /\ Len(q) > 1
      BY <2>3, <2>6
    <2> HIDE DEF q
    <2>8. DOMAIN q = 1..Len(q)
      BY <2>7
    <2>9. QED BY <2>7, <2>8 DEF q
  <1>6. QED BY <1>1, <1>3, <1>4, <1>5 DEF Lifts, Callable

LEMMA Products ==
  /\ \A k, n \in Nat : k * n \in Nat /\ (k + 1) * n = k * n + n
  /\ \A j, k, n \in Nat : j <= k => j * n <= k * n
  <1>1. \A k, n \in Nat : k * n \in Nat /\ (k + 1) * n = k * n + n
    OBVIOUS
  <1>2. \A j, k, n \in Nat : j <= k => j * n <= k * n
    OBVIOUS
  <1>3. QED BY <1>1, <1>2

(* The residue i of digit k comes from place (k - 1) * n + i of d.                      *)
LEMMA BlockIs ==
  ASSUME NEW c, Lifts(c), NEW k \in 1..Len(c.digits), NEW n, n = Len(target_base(c))
  PROVE  /\ slice(c, k) = block(c, k)
         /\ (k - 1) * n \in Nat /\ k * n = (k - 1) * n + n /\ k * n <= Len(c.digits) * n
         /\ DOMAIN block(c, k) = 1..n
         /\ \A i \in 1..n : block(c, k)[i] = c.d[(k - 1) * n + i] /\ (k - 1) * n + i \in DOMAIN c.d
         /\ Residues(block(c, k), target_base(c)) /\ MayWrite(block(c, k))
         /\ Places(block(c, k)) \subseteq Places(c.d)
  <1> DEFINE m == (k - 1) * n
             K == Len(c.digits)
  <1>1. slice(c, k) = block(c, k)
    BY DEF slice, block
  <1>2. n \in Nat /\ n > 1 /\ K \in Nat /\ k \in Nat /\ k - 1 \in Nat /\ k <= K /\ (k - 1) + 1 = k
    BY DEF Lifts
  <1>3. m \in Nat /\ k * n = m + n /\ k * n <= K * n
    BY <1>2, Products
  <1>4. DOMAIN c.d = 1..(K * n) /\ \A i \in DOMAIN c.d : c.d[i] \in Mem!DevAddrs
    BY DEF Lifts
  <1> HIDE DEF m, K
  <1>5. block(c, k) = SubSeq(c.d, m + 1, m + n)
    BY <1>3 DEF block, m
  <1>6. c.d \in Seq(Mem!DevAddrs) /\ Len(c.d) = K * n
    <2>1. K * n \in Nat
      BY <1>2, Products
    <2>2. c.d \in [1..(K * n) -> Mem!DevAddrs]
      BY DEF Lifts, K
    <2>3. QED BY <2>1, <2>2
  <1>7. /\ DOMAIN block(c, k) = 1..n
        /\ \A i \in 1..n : block(c, k)[i] = c.d[m + i] /\ m + i \in DOMAIN c.d
        /\ block(c, k) \in [1..n -> Mem!DevAddrs]
    <2>1. m + 1 \in 1..(Len(c.d) + 1) /\ m + n \in (m + 1)..Len(c.d)
      BY <1>2, <1>3, <1>6
    <2>2. /\ SubSeq(c.d, m + 1, m + n) \in Seq(Mem!DevAddrs)
          /\ Len(SubSeq(c.d, m + 1, m + n)) = n
          /\ \A i \in 1..n : SubSeq(c.d, m + 1, m + n)[i] = c.d[m + i]
      BY <1>2, <1>3, <1>6, <2>1
    <2>3. \A i \in 1..n : m + i \in DOMAIN c.d
      BY <1>2, <1>3, <1>4
    <2> DEFINE b == SubSeq(c.d, m + 1, m + n)
    <2>4. b \in Seq(Mem!DevAddrs) /\ Len(b) = n /\ \A i \in 1..n : b[i] = c.d[m + i]
      BY <2>2
    <2> HIDE DEF b
    <2>5. DOMAIN b = 1..n /\ b \in [1..n -> Mem!DevAddrs]
      BY <2>4
    <2>6. QED BY <1>5, <2>3, <2>4, <2>5 DEF b
  <1>8. Places(block(c, k)) \subseteq Places(c.d)
    BY <1>7 DEF Places
  <1>9. Residues(block(c, k), target_base(c)) /\ MayWrite(block(c, k))
    BY <1>2, <1>7, <1>8 DEF Lifts, Residues, MayWrite
  <1>10. QED BY <1>1, <1>3, <1>7, <1>8, <1>9 DEF m, K

(* Each place of d is of some digit, and of one only.                                   *)
LEMMA BlocksCover ==
  ASSUME NEW c, Lifts(c)
  PROVE  /\ \A a \in Places(c.d) : \E k \in 1..Len(c.digits) : a \in Places(block(c, k))
         /\ T!IsInjective(c.d) =>
              \A k, l \in 1..Len(c.digits) : k # l => Places(block(c, k)) \cap Places(block(c, l)) = {}
  <1> DEFINE n == Len(target_base(c))
             K == Len(c.digits)
  <1>1. /\ n \in Nat /\ n > 1 /\ K \in Nat \ {0} /\ DOMAIN c.d = 1..(K * n)
    BY DEF Lifts
  <1>2. \A k \in 1..K : /\ (k - 1) * n \in Nat /\ k * n = (k - 1) * n + n
                        /\ DOMAIN block(c, k) = 1..n
                        /\ \A i \in 1..n : block(c, k)[i] = c.d[(k - 1) * n + i] /\ (k - 1) * n + i \in DOMAIN c.d
    BY BlockIs
  <1> HIDE DEF K, n
  <1>3. ASSUME NEW i \in DOMAIN c.d PROVE \E k \in 1..K : c.d[i] \in Places(block(c, k))
    <2> DEFINE S == {k \in 1..K : i <= k * n}
    <2>1. S \subseteq Nat /\ S # {}
      BY <1>1, <1>3
    <2> HIDE DEF S
    <2>2. PICK k \in S : \A l \in S : k <= l
      BY <2>1, Least
    <2>3. k \in 1..K /\ i <= k * n
      BY DEF S
    <2>4. (k - 1) * n < i
      <3>1. CASE k = 1
        <4>1. (k - 1) * n = 0
          BY <1>1, <3>1
        <4>2. QED BY <1>1, <1>3, <4>1
      <3>2. CASE k # 1
        <4>1. k - 1 \in 1..K /\ k - 1 \notin S
          BY <1>1, <2>2, <2>3, <3>2
        <4>2. (k - 1) * n \in Nat
          BY <1>2, <2>3
        <4>3. QED BY <1>1, <1>3, <4>1, <4>2 DEF S
      <3>3. QED BY <3>1, <3>2
    <2> DEFINE j == i - (k - 1) * n
    <2>5. j \in 1..n /\ (k - 1) * n + j = i
      BY <1>1, <1>2, <1>3, <2>3, <2>4
    <2>6. block(c, k)[j] = c.d[i] /\ j \in DOMAIN block(c, k)
      BY <1>2, <2>3, <2>5
    <2>7. QED BY <2>3, <2>6 DEF Places
  <1>4. ASSUME T!IsInjective(c.d), NEW k \in 1..K, NEW l \in 1..K, k < l
        PROVE  Places(block(c, k)) \cap Places(block(c, l)) = {}
    <2>1. k * n <= (l - 1) * n
      BY <1>1, <1>4, Products
    <2>2. SUFFICES ASSUME NEW i \in 1..n, NEW j \in 1..n, block(c, k)[i] = block(c, l)[j] PROVE FALSE
      BY <1>2 DEF Places
    <2>3. (k - 1) * n + i = (l - 1) * n + j
      BY <1>2, <1>4, <2>2 DEF T!IsInjective
    <2> DEFINE x == (k - 1) * n
               y == (l - 1) * n
    <2>4. x \in Nat /\ y \in Nat /\ x + n <= y /\ x + i = y + j
      BY <1>2, <2>1, <2>3
    <2> HIDE DEF x, y
    <2>5. QED BY <1>1, <2>2, <2>4
  <1>5. \A k, l \in 1..K : k # l => k < l \/ l < k
    BY <1>1
  <1>6. QED BY <1>3, <1>4, <1>5 DEF K, Places

(* The session after each digit. *)
LEMMA DigitsAre ==
  ASSUME NEW st, NEW c, NEW vals, Len(c.digits) \in Nat
  PROVE  /\ digits_stored(st, c, vals)[0] = st
         /\ \A k \in 1..Len(c.digits) : digits_stored(st, c, vals)[k] =
              store_lifted(digits_stored(st, c, vals)[k - 1], slice(c, k), subset(vals, c, c.digits[k]), target_base(c))
  <1> DEFINE next(x, k) == store_lifted(x, slice(c, k), subset(vals, c, c.digits[k]), target_base(c))
             Is(f, m) == f = [k \in 0..m |-> IF k = 0 THEN st ELSE next(f[k - 1], k)]
             short == {m \in 0..Len(c.digits) : ~ \E f : Is(f, m)}
  <1>0. digits_stored(st, c, vals) = CHOOSE f : Is(f, Len(c.digits))
    BY DEF digits_stored
  <1> HIDE DEF next
  <1>1. short = {}
    <2>1. SUFFICES ASSUME short # {} PROVE FALSE
      OBVIOUS
    <2>2. short \subseteq Nat
      OBVIOUS
    <2>3. \E x \in short : \A y \in short : x <= y
      <3> HIDE DEF short
      <3>1. QED BY <2>1, <2>2, Least
    <2>4. PICK m \in short : \A y \in short : m <= y
      BY <2>3
    <2>5. m \in 0..Len(c.digits) /\ ~ \E f : Is(f, m)
      OBVIOUS
    <2>6. CASE m = 0
      <3>1. Is([i \in 0..0 |-> st], 0)
        OBVIOUS
      <3>2. QED BY <2>5, <2>6, <3>1
    <2>7. CASE m # 0
      <3>1. m - 1 \in 0..Len(c.digits) /\ ~(m <= m - 1)
        BY <2>5, <2>7
      <3>2. PICK f : Is(f, m - 1)
        BY <2>4, <3>1
      <3> DEFINE g == [k \in 0..m |-> IF k = m THEN next(f[m - 1], m) ELSE f[k]]
      <3>3. f[0] = st /\ \A k \in 1..(m - 1) : f[k] = next(f[k - 1], k)
        BY <2>5, <2>7, <3>2
      <3>4. \A k \in 0..m : g[k] = IF k = 0 THEN st ELSE next(g[k - 1], k)
        <4>1. SUFFICES ASSUME NEW k \in 0..m PROVE g[k] = IF k = 0 THEN st ELSE next(g[k - 1], k)
          OBVIOUS
        <4>2. CASE k = 0
          BY <2>5, <2>7, <3>3, <4>2
        <4>3. CASE k = m
          <5>1. g[m - 1] = f[m - 1]
            BY <2>5, <2>7
          <5>2. QED BY <2>7, <4>3, <5>1
        <4>4. CASE k # 0 /\ k # m
          <5>1. k \in 1..(m - 1) /\ g[k] = f[k] /\ g[k - 1] = f[k - 1]
            BY <2>5, <4>1, <4>4
          <5>2. QED BY <3>3, <4>4, <5>1
        <4>5. QED BY <4>2, <4>3, <4>4
      <3>5. Is(g, m)
        <4>1. g = [k \in 0..m |-> g[k]]
          OBVIOUS
        <4> HIDE DEF g
        <4>2. QED BY <3>4, <4>1
      <3>6. QED BY <2>5, <3>5
    <2>8. QED BY <2>6, <2>7
  <1>2. Is(digits_stored(st, c, vals), Len(c.digits))
    BY <1>0, <1>1
  <1> DEFINE all == digits_stored(st, c, vals)
             K == Len(c.digits)
  <1>3. all = [k \in 0..K |-> IF k = 0 THEN st ELSE next(all[k - 1], k)]
    BY <1>2
  <1> HIDE DEF all, K
  <1>4. K \in Nat
    BY DEF K
  <1>5. all[0] = st /\ \A k \in 1..K : all[k] = next(all[k - 1], k)
    BY <1>3, <1>4
  <1>6. QED BY <1>5 DEF all, K, next

(* The values of a digit are those its addresses hold. *)
LEMMA DigitValues ==
  ASSUME NEW c, Lifts(c), NEW k \in 1..Len(c.digits), NEW vals, DOMAIN vals = DOMAIN c.s,
         \A i \in DOMAIN c.s : vals[i] \in Poly,
         NEW part, part = subset(vals, c, c.digits[k])
  PROVE  /\ \A i \in DOMAIN target_base(c) : Lift(part, target_base(c)[i]) \in Poly
         /\ Hold(vals, c.s, truth) => Hold(part, subset(c.s, c, c.digits[k]), truth)
  <1> DEFINE digit == c.digits[k]
             at(j) == CHOOSE i \in DOMAIN c.src_base : c.src_base[i] = digit[j]
             used == subset(c.s, c, digit)
  <1>1. /\ c.src_base \in Seq(ToSet(c.src_base)) /\ digit \in Seq(ToSet(c.src_base))
        /\ target_base(c) \in Bases
    BY ModUpsAssumption DEF Lifts
  <1>2. \A j \in DOMAIN digit : at(j) \in DOMAIN c.src_base
    <2>1. \A j \in DOMAIN digit : digit[j] \in ToSet(c.src_base)
      BY <1>1
    <2>2. QED BY <2>1 DEF ToSet
  <1>3. DOMAIN c.s = DOMAIN c.src_base
    BY <1>1 DEF Lifts, Fed
  <1>4. /\ part = [j \in DOMAIN digit |-> vals[at(j)]]
        /\ used = [j \in DOMAIN digit |-> c.s[at(j)]]
    BY DEF subset
  <1>5. Len(digit) \in Widths /\ DOMAIN digit = 1..Len(digit)
    <2>1. Len(digit) \in {Len(c.digits[j]) : j \in DOMAIN c.digits}
      BY DEF Lifts
    <2>2. QED BY <1>1, <2>1 DEF Widths, Lifts
  <1> HIDE DEF at, digit, used
  <1>6. part \in [1..Len(digit) -> Poly]
    BY <1>2, <1>3, <1>4, <1>5
  <1>7. \A i \in DOMAIN target_base(c) : Lift(part, target_base(c)[i]) \in Poly
    BY <1>1, <1>5, <1>6, LiftAssumption
  <1>8. ASSUME Hold(vals, c.s, truth) PROVE Hold(part, used, truth)
    <2>1. DOMAIN used = DOMAIN digit /\ part = [j \in DOMAIN used |-> part[j]]
      BY <1>4
    <2>2. \A j \in DOMAIN used : used[j] = c.s[at(j)] /\ part[j] = vals[at(j)] /\ at(j) \in DOMAIN c.s
      BY <1>2, <1>3, <1>4
    <2>3. QED BY <1>8, <2>1, <2>2 DEF Hold
  <1>9. QED BY <1>7, <1>8 DEF used, digit

-----------------------------------------------------------------------------
(* Groups that conversions leave. *)

LEMMA GroupMade ==
  ASSUME NEW r, NEW d, NEW base, NEW q, GP!Stored(r, d, base, q)
  PROVE  GroupIn(q, d, base)
  <1>1. PICK g \in GP!GroupNames(q) : /\ q.known_mrp_groups[g] = [addrs |-> d, moduli |-> base]
                                      /\ \A a \in GP!Range(d) : GP!Claims(q, a) = {g}
    BY DEF GP!Stored
  <1>2. \A i \in DOMAIN d : Groups!Claims(q, d[i]) = {g}
    BY <1>1 DEF GP!Range, GP!Claims, Groups!Claims
  <1>3. QED BY <1>1, <1>2 DEF GroupIn, GP!GroupNames

(* A group that is stored elsewhere leaves this one be. *)
LEMMA GroupStays ==
  ASSUME NEW r, GP!Good(r), NEW q, GP!Good(q), NEW d, NEW base, d \in [DOMAIN d -> Mem!DevAddrs],
         GroupIn(r, d, base), NEW e, NEW other, GP!Restored(r, e, other, q), Places(d) \cap Places(e) = {}
  PROVE  GroupIn(q, d, base)
  <1>1. PICK g \in GP!GroupNames(r) : r.known_mrp_groups[g] = [addrs |-> d, moduli |-> base]
    BY DEF GroupIn, GP!GroupNames
  <1>2. GP!Members(r, g) = Places(d) /\ GP!Range(e) = Places(e)
    BY <1>1 DEF GP!Members, GP!Range, Places
  <1>3. g \in GP!GroupNames(q) /\ q.known_mrp_groups[g] = [addrs |-> d, moduli |-> base]
    BY <1>1, <1>2 DEF GP!Restored
  <1>4. GP!Members(q, g) = Places(d)
    BY <1>3 DEF GP!Members, GP!Range, Places
  <1>5. ASSUME NEW i \in DOMAIN d PROVE Groups!Claims(q, d[i]) = {g}
    <2>1. d[i] \in Mem!DevAddrs /\ d[i] \in GP!Members(q, g)
      BY <1>4 DEF Places
    <2>2. g \in GP!Claims(q, d[i]) /\ \A h \in GP!Claims(q, d[i]) : h = g
      BY <1>3, <2>1 DEF GP!Good, GP!Index
    <2>3. QED BY <2>2 DEF GP!Claims, Groups!Claims
  <1>6. QED BY <1>3, <1>5 DEF GroupIn, GP!GroupNames

-----------------------------------------------------------------------------
(* hazeModUp. *)

LEMMA Greatest ==
  ASSUME NEW n \in Nat, NEW S, S \subseteq 1..n, S # {}
  PROVE  \E x \in S : \A y \in S : y <= x
  <1> DEFINE R == {n - x : x \in S}
  <1>1. R \subseteq Nat /\ R # {}
    <2>1. \A x \in S : n - x \in Nat
      OBVIOUS
    <2>2. PICK x \in S : TRUE
      OBVIOUS
    <2>3. n - x \in R
      BY <2>2
    <2>4. QED BY <2>1, <2>3
  <1>2. \E m \in R : \A y \in R : m <= y
    <2> HIDE DEF R
    <2>1. QED BY <1>1, Least
  <1>3. PICK m \in R : \A y \in R : m <= y
    BY <1>2
  <1>4. PICK x \in S : m = n - x
    OBVIOUS
  <1>5. \A y \in S : n - y \in R /\ n - x <= n - y
    BY <1>3, <1>4
  <1>6. \A y \in S : y <= x
    BY <1>5
  <1>7. QED BY <1>6

(* A program that knows less of what it holds. *)
LEMMA CurrentOfLess ==
  ASSUME NEW q, NEW more, NEW un, Current(q, more, un), NEW tr,
         \A a \in DOMAIN tr : a \in DOMAIN more /\ tr[a] = more[a]
  PROVE  Current(q, tr, un)
  BY DEF Current

(* What digit k gives its places, the places of the first k digits, and the digit whose  *)
(* store at a is the last of theirs.                                                    *)
DigitHolds(c, k) == Lifted(block(c, k), subset(c.s, c, c.digits[k]), target_base(c))
Covered(c, k) == UNION {Places(block(c, l)) : l \in 1..k}
LastAt(c, k, a, l) ==
  /\ l \in 1..k /\ a \in Places(block(c, l))
  /\ \A j \in 1..k : a \in Places(block(c, j)) => j <= l

(* tr is true after k digits.                                                           *)
Tells(tr, c, k) ==
  \A a \in DOMAIN tr :
    IF a \in Covered(c, k)
    THEN \E l \in 1..k : LastAt(c, k, a, l) /\ a \in DOMAIN DigitHolds(c, l) /\ tr[a] = DigitHolds(c, l)[a]
    ELSE a \in DOMAIN truth /\ tr[a] = truth[a]

LEMMA CoveredNext ==
  ASSUME NEW c, NEW k \in Nat \ {0}
  PROVE  Covered(c, k) = Covered(c, k - 1) \cup Places(block(c, k))
  <1>1. 1..k = 1..(k - 1) \cup {k}
    OBVIOUS
  <1>2. QED BY <1>1 DEF Covered

(* One digit more. *)
LEMMA TellsNext ==
  ASSUME NEW c, NEW k \in Nat \ {0}, DOMAIN DigitHolds(c, k) \subseteq Places(block(c, k)),
         NEW st, NEW q, NEW un,
         \A tr : Tells(tr, c, k - 1) => Current(st, tr, un \cup Covered(c, k - 1)),
         \A tr, u : Current(st, tr, u) =>
           Current(q, Given(tr, Places(block(c, k)), DigitHolds(c, k)), u \cup Places(block(c, k))),
         NEW tr, Tells(tr, c, k)
  PROVE  Current(q, tr, un \cup Covered(c, k))
  <1> DEFINE P == Places(block(c, k))
             L == DigitHolds(c, k)
             old == [a \in DOMAIN tr \ P |-> tr[a]]
             new == Given(old, P, L)
  <1>1. Covered(c, k) = Covered(c, k - 1) \cup P
    BY CoveredNext
  <1>2. Tells(old, c, k - 1)
    <2> SUFFICES ASSUME NEW a \in DOMAIN tr \ P
                 PROVE  IF a \in Covered(c, k - 1)
                        THEN \E l \in 1..(k - 1) : /\ LastAt(c, k - 1, a, l) /\ a \in DOMAIN DigitHolds(c, l)
                                                   /\ tr[a] = DigitHolds(c, l)[a]
                        ELSE a \in DOMAIN truth /\ tr[a] = truth[a]
      BY DEF Tells
    <2>1. CASE a \in Covered(c, k - 1)
      <3>1. PICK l \in 1..k : LastAt(c, k, a, l) /\ a \in DOMAIN DigitHolds(c, l) /\ tr[a] = DigitHolds(c, l)[a]
        BY <1>1, <2>1 DEF Tells
      <3>2. l # k
        BY <3>1 DEF LastAt
      <3>3. l \in 1..(k - 1) /\ \A j \in 1..(k - 1) : j \in 1..k
        BY <3>2
      <3>4. LastAt(c, k - 1, a, l)
        BY <3>1, <3>3 DEF LastAt
      <3>5. QED BY <2>1, <3>1, <3>3, <3>4
    <2>2. CASE a \notin Covered(c, k - 1)
      BY <1>1, <2>2 DEF Tells
    <2>3. QED BY <2>1, <2>2
  <1>3. Current(q, new, un \cup Covered(c, k))
    <2>1. Current(q, new, (un \cup Covered(c, k - 1)) \cup P)
      BY <1>2
    <2>2. (un \cup Covered(c, k - 1)) \cup P = un \cup Covered(c, k)
      BY <1>1
    <2>3. QED BY <2>1, <2>2
  <1>4. ASSUME NEW a \in DOMAIN tr PROVE a \in DOMAIN new /\ tr[a] = new[a]
    <2>1. /\ DOMAIN new = (DOMAIN old \ P) \cup DOMAIN L
          /\ \A b \in DOMAIN new : new[b] = IF b \in DOMAIN L THEN L[b] ELSE old[b]
      BY DEF Given, T!Put, T!Drop, T!Restrict
    <2>2. CASE a \in P
      <3>1. PICK l \in 1..k : LastAt(c, k, a, l) /\ a \in DOMAIN DigitHolds(c, l) /\ tr[a] = DigitHolds(c, l)[a]
        BY <1>1, <1>4, <2>2 DEF Tells
      <3>2. l = k
        <4>1. k \in 1..k /\ k <= l
          BY <2>2, <3>1 DEF LastAt
        <4>2. QED BY <4>1
      <3> HIDE DEF old, new
      <3>3. QED BY <2>1, <3>1, <3>2
    <2>3. CASE a \notin P
      <3>1. a \in DOMAIN old /\ old[a] = tr[a] /\ a \notin DOMAIN L
        BY <1>4, <2>3
      <3> HIDE DEF old, new, L, P
      <3>2. QED BY <2>1, <2>3, <3>1
    <2>4. QED BY <2>2, <2>3
  <1> HIDE DEF new
  <1>5. QED BY <1>3, <1>4, CurrentOfLess

(* The truth after all of the digits is told by what each gave.                         *)
LEMMA DigitsTell ==
  ASSUME NEW c, Lifts(c)
  PROVE  /\ Covered(c, Len(c.digits)) = Places(c.d)
         /\ Tells(Given(truth, Places(c.d), LiftedDigits(c)), c, Len(c.digits))
  <1> DEFINE K == Len(c.digits)
             stores(a) == {k \in DOMAIN c.digits : a \in ToSet(block(c, k))}
             last(a) == CHOOSE k \in stores(a) : \A l \in stores(a) : l <= k
             all == LiftedDigits(c)
             tr == Given(truth, Places(c.d), all)
  <1>1. K \in Nat /\ DOMAIN c.digits = 1..K
    BY DEF Lifts
  <1>2. \A k \in 1..K : ToSet(block(c, k)) = Places(block(c, k)) /\ Places(block(c, k)) \subseteq Places(c.d)
    <2>1. \A s : ToSet(s) = Places(s)
      BY DEF ToSet, Places
    <2>2. QED BY <2>1, BlockIs
  <1>3. \A a \in Places(c.d) : \E k \in 1..K : a \in Places(block(c, k))
    BY BlocksCover
  <1>4. Covered(c, K) = Places(c.d)
    BY <1>2, <1>3 DEF Covered
  <1>5. all = [a \in {b \in Places(c.d) : b \in DOMAIN DigitHolds(c, last(b))} |-> DigitHolds(c, last(a))[a]]
    BY DEF LiftedDigits, DigitHolds, ToSet, Places
  <1>6. ASSUME NEW a \in Places(c.d) PROVE LastAt(c, K, a, last(a))
    <2>1. stores(a) \subseteq 1..K /\ stores(a) # {}
      BY <1>1, <1>2, <1>3
    <2>2. last(a) \in stores(a) /\ \A l \in stores(a) : l <= last(a)
      <3> HIDE DEF stores
      <3>1. \E x \in stores(a) : \A y \in stores(a) : y <= x
        BY <1>1, <2>1, Greatest
      <3>2. QED BY <3>1
    <2>3. \A j \in 1..K : a \in Places(block(c, j)) => j \in stores(a)
      BY <1>1, <1>2
    <2>4. last(a) \in 1..K /\ a \in Places(block(c, last(a)))
      BY <1>1, <1>2, <2>2
    <2> HIDE DEF last, stores
    <2>5. QED BY <2>2, <2>3, <2>4 DEF LastAt
  <1> HIDE DEF last, all, K
  <1>7. /\ DOMAIN all = {b \in Places(c.d) : b \in DOMAIN DigitHolds(c, last(b))}
        /\ \A a \in DOMAIN all : all[a] = DigitHolds(c, last(a))[a]
    BY <1>5
  <1>8. \A a \in DOMAIN tr :
          IF a \in Places(c.d) THEN a \in DOMAIN all /\ tr[a] = all[a]
          ELSE a \in DOMAIN truth /\ tr[a] = truth[a]
    BY <1>7 DEF Given, T!Put, T!Drop, T!Restrict
  <1> HIDE DEF tr
  <1>9. Tells(tr, c, K)
    <2> SUFFICES ASSUME NEW a \in DOMAIN tr
                 PROVE  IF a \in Covered(c, K)
                        THEN \E l \in 1..K : LastAt(c, K, a, l) /\ a \in DOMAIN DigitHolds(c, l) /\ tr[a] = DigitHolds(c, l)[a]
                        ELSE a \in DOMAIN truth /\ tr[a] = truth[a]
      BY DEF Tells
    <2>1. CASE a \in Places(c.d)
      <3>1. LastAt(c, K, a, last(a)) /\ last(a) \in 1..K
        BY <1>6, <2>1 DEF LastAt
      <3>2. a \in DOMAIN DigitHolds(c, last(a)) /\ tr[a] = DigitHolds(c, last(a))[a]
        BY <1>7, <1>8, <2>1
      <3>3. QED BY <1>4, <2>1, <3>1, <3>2
    <2>2. CASE a \notin Places(c.d)
      BY <1>4, <1>8, <2>2
    <2>3. QED BY <2>1, <2>2
  <1>10. QED BY <1>4, <1>9 DEF tr, all, K

(* The digits are stored one after the other; each leaves the groups of those before.    *)
LEMMA DigitsStep ==
  ASSUME NEW st, Sound(st), Within(st), st.err = "Ok", NEW c, Lifts(c),
         NEW vals, DOMAIN vals = DOMAIN c.s, \A i \in DOMAIN c.s : vals[i] \in Poly,
         NEW q, q = digits_stored(st, c, vals)[Len(c.digits)]
  PROVE  /\ Sound(q) /\ Within(q) /\ q.err = "Ok"
         /\ T!IsInjective(c.d) =>
              \A l \in 1..Len(c.digits) : GroupIn(q.reg, block(c, l), target_base(c))
         /\ Current(st, truth, unflushed) /\ Hold(vals, c.s, truth) =>
              Current(q, Given(truth, Places(c.d), LiftedDigits(c)), unflushed \cup Places(c.d))
  <1> DEFINE N == Len(c.digits)
             a == digits_stored(st, c, vals)
             base == target_base(c)
             K(k) ==
               /\ Sound(a[k]) /\ Within(a[k]) /\ a[k].err = "Ok"
               /\ T!IsInjective(c.d) => \A l \in 1..k : GroupIn(a[k].reg, block(c, l), base)
               /\ Current(st, truth, unflushed) /\ Hold(vals, c.s, truth) =>
                    \A tr : Tells(tr, c, k) => Current(a[k], tr, unflushed \cup Covered(c, k))
             bad == {k \in 0..N : ~K(k)}
  <1>1. N \in Nat \ {0} /\ base \in Bases /\ Len(base) > 1
    BY DEF Lifts
  <1>2. /\ a[0] = st
        /\ \A k \in 1..N : a[k] = store_lifted(a[k - 1], slice(c, k), subset(vals, c, c.digits[k]), base)
    BY <1>1, DigitsAre
  <1> HIDE DEF a, base
  <1>3. K(0)
    <2>1. Covered(c, 0) = {}
      BY DEF Covered
    <2>2. \A tr : Tells(tr, c, 0) => \A x \in DOMAIN tr : x \in DOMAIN truth /\ tr[x] = truth[x]
      BY <2>1 DEF Tells
    <2>3. ASSUME Current(st, truth, unflushed), NEW tr, Tells(tr, c, 0)
          PROVE  Current(a[0], tr, unflushed \cup Covered(c, 0))
      <3>1. unflushed \cup Covered(c, 0) = unflushed
        BY <2>1
      <3>2. QED BY <1>2, <2>2, <2>3, <3>1, CurrentOfLess
    <2>4. Sound(a[0]) /\ Within(a[0]) /\ a[0].err = "Ok"
      BY <1>2
    <2>5. \A l \in 1..0 : GroupIn(a[0].reg, block(c, l), base)
      OBVIOUS
    <2>6. QED BY <2>3, <2>4, <2>5
  <1>4. ASSUME NEW k \in 1..N, K(k - 1) PROVE K(k)
    <2> DEFINE part == subset(vals, c, c.digits[k])
               used == subset(c.s, c, c.digits[k])
               b == block(c, k)
    <2>1. slice(c, k) = b /\ Residues(b, base) /\ MayWrite(b)
      BY BlockIs DEF base
    <2>2. a[k] = store_lifted(a[k - 1], b, part, base)
      BY <1>2, <2>1
    <2>3. /\ \A i \in DOMAIN base : Lift(part, base[i]) \in Poly
          /\ Hold(vals, c.s, truth) => Hold(part, used, truth)
      BY DigitValues DEF base
    <2> HIDE DEF part, used, b
    <2>4. Sound(a[k - 1]) /\ Within(a[k - 1]) /\ a[k - 1].err = "Ok"
      BY <1>4
    <2>5. /\ Sound(a[k]) /\ Within(a[k]) /\ a[k].err = "Ok"
          /\ Regroups(a[k - 1], a[k], b, base)
          /\ \A tr, un, from : Current(a[k - 1], tr, un) /\ Hold(part, from, truth) =>
               Current(a[k], Given(tr, Places(b), Lifted(b, from, base)), un \cup Places(b))
      BY <1>1, <2>1, <2>2, <2>3, <2>4, StoreLiftedStep
    <2>6. ASSUME T!IsInjective(c.d), NEW l \in 1..k PROVE GroupIn(a[k].reg, block(c, l), base)
      <3>1. CASE l = k
        BY <2>5, <3>1, GroupMade DEF Regroups, b
      <3>2. CASE l # k
        <4>1. l \in 1..(k - 1) /\ l \in 1..N
          BY <3>2
        <4>2. GroupIn(a[k - 1].reg, block(c, l), base)
          BY <1>4, <2>6, <4>1
        <4>3. Residues(block(c, l), base)
          BY <4>1, BlockIs DEF base
        <4>4. Places(block(c, l)) \cap Places(b) = {}
          BY <2>6, <3>2, <4>1, BlocksCover DEF b
        <4>5. GP!Good(a[k - 1].reg) /\ GP!Good(a[k].reg)
          BY <2>4, <2>5 DEF Sound, Booked
        <4>6. block(c, l) \in [DOMAIN block(c, l) -> Mem!DevAddrs]
          BY <4>3 DEF Residues
        <4>7. QED BY <2>5, <4>2, <4>4, <4>5, <4>6, GroupStays DEF Regroups
      <3>3. QED BY <3>1, <3>2
    <2>7. ASSUME Current(st, truth, unflushed), Hold(vals, c.s, truth), NEW tr, Tells(tr, c, k)
          PROVE  Current(a[k], tr, unflushed \cup Covered(c, k))
      <3>1. Hold(part, used, truth) /\ DigitHolds(c, k) = Lifted(b, used, base)
        BY <2>3, <2>7 DEF DigitHolds, used, b, base
      <3>2. DOMAIN DigitHolds(c, k) \subseteq Places(b)
        BY <2>1, <3>1, LiftedIs
      <3>3. \A t, u : Current(a[k - 1], t, u) =>
              Current(a[k], Given(t, Places(b), DigitHolds(c, k)), u \cup Places(b))
        BY <2>5, <3>1
      <3>4. \A t : Tells(t, c, k - 1) => Current(a[k - 1], t, unflushed \cup Covered(c, k - 1))
        BY <1>4, <2>7
      <3>5. k \in Nat \ {0}
        OBVIOUS
      <3>6. QED BY <2>7, <3>2, <3>3, <3>4, <3>5, TellsNext DEF b
    <2>8. QED BY <2>5, <2>6, <2>7
  <1> HIDE DEF K
  <1>5. bad = {}
    <2>1. SUFFICES ASSUME bad # {} PROVE FALSE
      OBVIOUS
    <2>2. bad \subseteq Nat
      OBVIOUS
    <2>3. \E x \in bad : \A y \in bad : x <= y
      <3> HIDE DEF bad
      <3>1. QED BY <2>1, <2>2, Least
    <2>4. PICK k \in bad : \A y \in bad : k <= y
      BY <2>3
    <2>5. k \in 0..N /\ ~K(k) /\ k # 0
      BY <1>3
    <2>6. k \in 1..N /\ k - 1 \in 0..N /\ ~(k <= k - 1)
      BY <1>1, <2>5
    <2>7. K(k - 1)
      BY <2>4, <2>6
    <2>8. QED BY <1>4, <2>5, <2>6, <2>7
  <1>6. K(N)
    BY <1>1, <1>5
  <1>7. /\ Covered(c, N) = Places(c.d)
        /\ Tells(Given(truth, Places(c.d), LiftedDigits(c)), c, N)
    BY DigitsTell
  <1>8. q = a[N]
    BY DEF a
  <1>9. QED BY <1>6, <1>7, <1>8 DEF K, base

(* The look-up that a ModUp begins with, and its digits.                                *)
LEMMA LiftStep ==
  ASSUME Shadows, NEW st, Sound(st), Within(st), NEW c, Lifts(c), NEW n, NEW q, q = mod_up(st, c, n)
  PROVE  /\ Sound(q) /\ Within(q)
         /\ q.err = "Ok" /\ T!IsInjective(c.d) =>
              \A k \in 1..Len(c.digits) : GroupIn(q.reg, block(c, k), target_base(c))
         /\ Current(st, truth, unflushed) =>
              Current(q, After(q, c.d, LiftedDigits(c)), UnflushedAfter(q, c.d))
  <1> DEFINE built == build_mrp(st, c.s, n)
             vals == values(built, c.s)
  <1>1. q = IF built.err # "Ok" THEN built ELSE digits_stored(built, c, vals)[Len(c.digits)]
    BY DEF mod_up
  <1>2. DOMAIN c.s \subseteq Nat
    BY DEF Lifts, Fed
  <1>3. /\ Sound(built) /\ Within(built) /\ Carries(st, built)
        /\ built.err = "Ok" => \A i \in DOMAIN c.s : c.s[i] \in BoundIn(built)
    BY <1>2, BuildStep
  <1> HIDE DEF built
  <1>4. CASE built.err # "Ok"
    BY <1>1, <1>3, <1>4 DEF Carries, After, UnflushedAfter
  <1>5. CASE built.err = "Ok"
    <2>1. /\ DOMAIN vals = DOMAIN c.s /\ \A i \in DOMAIN c.s : vals[i] \in Poly
          /\ \A tr, un : Current(built, tr, un) => Hold(vals, c.s, tr)
      BY <1>3, <1>5, ValuesAre
    <2> HIDE DEF vals
    <2>2. q = digits_stored(built, c, vals)[Len(c.digits)]
      BY <1>1, <1>5
    <2>3. /\ Sound(q) /\ Within(q) /\ q.err = "Ok"
          /\ T!IsInjective(c.d) =>
               \A k \in 1..Len(c.digits) : GroupIn(q.reg, block(c, k), target_base(c))
          /\ Current(built, truth, unflushed) /\ Hold(vals, c.s, truth) =>
               Current(q, Given(truth, Places(c.d), LiftedDigits(c)), unflushed \cup Places(c.d))
      BY <1>3, <1>5, <2>1, <2>2, DigitsStep
    <2>4. Current(st, truth, unflushed) => Current(built, truth, unflushed) /\ Hold(vals, c.s, truth)
      BY <1>3, <2>1 DEF Carries
    <2>5. QED BY <2>3, <2>4 DEF After, UnflushedAfter
  <1>6. QED BY <1>4, <1>5

LEMMA ModUpStep ==
  ASSUME Inv, NEW c \in Callable(ModUps), hazeModUp(c)
  PROVE  Inv' /\ (AllCurrent => AllCurrent')
  <1>1. CASE ~valid_mod_up(c)
    BY <1>1, RejectedStep DEF hazeModUp
  <1>2. CASE valid_mod_up(c)
    <2> DEFINE q == mod_up(Here, c, conf.ring_dim)
               f == LiftedDigits(c)
    <2>1. Recorded(q) /\ Writes(f, Places(c.d))
      BY <1>2 DEF hazeModUp, ToSet, Places
    <2> HIDE DEF q
    <2>2. /\ Sound(q) /\ Within(q)
          /\ Current(Here, truth, unflushed) => Current(q, After(q, c.d, f), UnflushedAfter(q, c.d))
      BY <1>2, LiftsUp, LiftStep, ShadowsHere DEF Inv, q
    <2> HIDE DEF f
    <2>3. QED BY <2>1, <2>2, ConversionEffect
  <1>3. QED BY <1>1, <1>2

LEMMA ConversionStep ==
  ASSUME Inv, Convert
  PROVE  Inv' /\ (AllCurrent => AllCurrent')
  BY BasisConvertStep, ModDownStep, ModUpStep DEF Convert

LEMMA FullNextInv ==
  ASSUME Inv, [Next \/ Convert]_haze
  PROVE  Inv' /\ (OneSize /\ AllCurrent => AllCurrent')
  BY NextInv, ConversionStep

LEMMA FullInvariant == FullSpec => []Inv
  <1>1. Init => Inv
    BY InitInv
  <1>2. Inv /\ [Next \/ Convert]_haze => Inv'
    BY FullNextInv
  <1>3. QED BY <1>1, <1>2, PTL DEF FullSpec

LEMMA FullCurrentInvariant ==
  ASSUME OneSize
  PROVE  FullSpec => [](Inv /\ AllCurrent)
  <1>1. Init => Inv /\ AllCurrent
    BY InitInv
  <1>2. Inv /\ AllCurrent /\ [Next \/ Convert]_haze => (Inv /\ AllCurrent)'
    BY FullNextInv
  <1>3. QED BY <1>1, <1>2, PTL DEF FullSpec

-----------------------------------------------------------------------------
(* The properties of conversions. *)

LEMMA DigitsHold ==
  ASSUME Inv
  PROVE  DigitsAreGroups
  <1> SUFFICES ASSUME NEW c \in Callable(ModUps), valid_mod_up(c), T!IsInjective(c.d),
                      mod_up(Here, c, conf.ring_dim).err = "Ok"
               PROVE  \A k \in DOMAIN c.digits :
                        GroupIn(mod_up(Here, c, conf.ring_dim).reg, block(c, k), target_base(c))
    BY DEF DigitsAreGroups
  <1>1. Lifts(c) /\ DOMAIN c.digits = 1..Len(c.digits)
    BY LiftsUp DEF Lifts
  <1>2. Sound(Here) /\ Shadows /\ Within(Here)
    BY ShadowsHere DEF Inv
  <1>3. QED BY <1>1, <1>2, LiftStep

LEMMA RescaleHolds ==
  ASSUME Inv
  PROVE  RescaleKeepsExport
  <1> SUFFICES ASSUME NEW c \in Callable(ModDowns), valid_mod_down(c), c.d[1] = c.s[1], Len(kept_base(c)) > 1,
                      NEW g \in reg.pending_mrp_groups, NEW st, st = mod_down(Here, c, conf.ring_dim),
                      st.err = "Ok", reg.known_mrp_groups[g].addrs = c.s
               PROVE  /\ GroupIn(st.reg, c.d, kept_base(c)) /\ g \in st.reg.pending_mrp_groups
                      /\ ToSet(c.d) \subseteq DOMAIN st.reg.pending_outputs
                      /\ (ToSet(c.s) \ ToSet(c.d)) \cap Pending \subseteq DOMAIN st.reg.pending_outputs
                      /\ \A a \in ToSet(c.s) \ ToSet(c.d) : Groups!Claims(st.reg, a) = {}
    BY DEF RescaleKeepsExport
  <1> DEFINE base == kept_base(c)
             r == st.reg
  <1>1. Converts(c, base)
    BY ConvertsDown
  <1>2. st = basis_convert(Here, [d |-> c.d, s |-> c.s, dst_base |-> base], conf.ring_dim)
    BY DEF mod_down
  <1>3. DOMAIN c.s = 1..Len(c.src_base) /\ Len(c.src_base) \in Nat /\ Len(base) < Len(c.src_base)
    <2>1. c.src_base \in Seq(ToSet(c.src_base))
      BY ModDownsAssumption DEF Callable
    <2>2. QED BY <1>1, <2>1, KeptIsShorter DEF Converts, Fed, Callable
  <1>4. Sound(Here) /\ Shadows /\ Within(Here) /\ Here.reg = reg
    BY ShadowsHere DEF Inv, Here
  <1> HIDE DEF base
  <1>5. Sound(st) /\ GP!Stored(reg, c.d, base, r) /\ GP!Restored(reg, c.d, base, r)
    BY <1>1, <1>2, <1>4, ConvertStep DEF Regroups, base
  <1>6. GP!Good(reg) /\ GP!Good(r) /\ reg.pending_mrp_groups \subseteq GP!GroupNames(reg)
    BY <1>4, <1>5 DEF Sound, Booked
  <1>7. \A s : ToSet(s) = Places(s) /\ GP!Range(s) = Places(s)
    BY DEF ToSet, Places, GP!Range
  <1>8. DOMAIN c.d = 1..Len(base) /\ Len(base) \in Nat \ {0} /\ Len(base) < Len(c.src_base)
    BY <1>1, <1>3, ResidueFacts DEF Converts
  <1>9. 1 \in DOMAIN c.d /\ 1 \in DOMAIN c.s /\ c.d # c.s
    <2>1. Len(c.src_base) \in DOMAIN c.s /\ Len(c.src_base) \notin DOMAIN c.d
      BY <1>3, <1>8
    <2>2. QED BY <1>3, <1>8, <2>1
  <1>10. reg.known_mrp_groups[g] # [addrs |-> c.d, moduli |-> base]
    BY <1>9
  <1>11. g \in r.pending_mrp_groups /\ Places(c.d) \subseteq DOMAIN r.pending_outputs
    BY <1>5, <1>7, <1>10 DEF GP!Restored, GP!Lead
  <1>12. Pending \subseteq DOMAIN r.pending_outputs
    BY <1>5 DEF GP!Stored, Pending
  <1>13. GroupIn(r, c.d, base)
    BY <1>5, GroupMade
  <1>14. ASSUME NEW a \in Places(c.s) \ Places(c.d) PROVE Groups!Claims(r, a) = {}
    <2>1. a \in Mem!DevAddrs /\ c.s[1] \in Mem!DevAddrs /\ c.s[1] \in Places(c.s) /\ c.s[1] \in Places(c.d)
      BY <1>1, <1>9 DEF Converts, Fed, Places
    <2>2. GP!Members(reg, g) = Places(c.s)
      BY <1>7 DEF GP!Members
    <2>3. SUFFICES ASSUME NEW h \in GP!Claims(r, a) PROVE FALSE
      BY DEF GP!Claims, Groups!Claims
    <2>4. h \in GP!GroupNames(r) /\ a \in GP!Members(r, h)
      <3>1. h \in GP!GroupNames(r)
        BY <1>6 DEF GP!Good, GP!Index, GP!Claims
      <3>2. QED BY <1>6, <2>1, <3>1 DEF GP!Good, GP!Index
    <2>5. h \in GP!GroupNames(reg) /\ GP!Members(r, h) = GP!Members(reg, h)
      BY <1>5, <1>7, <2>4 DEF GP!Stored
    <2>6. h = g
      <3>1. g \in GP!Claims(reg, a) /\ h \in GP!Claims(reg, a)
        BY <1>6, <2>1, <2>2, <2>4, <2>5 DEF GP!Good, GP!Index
      <3>2. QED BY <1>6, <2>1, <3>1 DEF GP!Good, GP!Index
    <2>7. GP!Members(r, g) = Places(c.s) /\ g \in GP!GroupNames(r)
      BY <2>2, <2>4, <2>5, <2>6
    <2>8. g \in GP!Claims(r, c.s[1])
      BY <1>6, <2>1, <2>7 DEF GP!Good, GP!Index
    <2>9. PICK f \in GP!GroupNames(r) : /\ r.known_mrp_groups[f] = [addrs |-> c.d, moduli |-> base]
                                        /\ \A b \in GP!Range(c.d) : GP!Claims(r, b) = {f}
      BY <1>5 DEF GP!Stored
    <2>10. f = g
      BY <1>7, <2>1, <2>8, <2>9
    <2>11. GP!Members(r, g) = Places(c.d)
      BY <1>7, <2>9, <2>10 DEF GP!Members
    <2>12. QED BY <2>7, <2>11
  <1>15. QED BY <1>7, <1>11, <1>12, <1>13, <1>14 DEF base

(* A ModUp into disjoint destinations leaves each of its digits a group of its own under *)
(* Q || P, for any number of digits, whatever groups its destinations, its operand among *)
(* them, were in before (core/basis_convert.cpp mod_up_locked, epoch.cpp                *)
(* register_mrp_output_group_locked).                                                   *)
THEOREM DigitsAreGroupsForAll == FullSpec => []DigitsAreGroups
  BY DigitsHold, FullInvariant, PTL

(* A rescale in place of a tagged group leaves it exported with the residues it has left *)
(* and all of them tagged; what it drops keeps its tag and is in no group (epoch.cpp    *)
(* replace_mrp_group_locked, evict_mrp_groups_locked).                                  *)
THEOREM RescaleKeepsExportForAll == FullSpec => []RescaleKeepsExport
  BY RescaleHolds, FullInvariant, PTL

-----------------------------------------------------------------------------
(* Programs that convert, among the others. *)

(* The programs that the runs of BasisConvert explore are among those of the whole API.  *)
THEOREM ConversionPrograms == ConvertSpec => FullSpec
  <1>1. ASSUME ConvertNext PROVE Next \/ Convert
    <2>1. CASE \E n \in PolySizes : hazeSetRingDimension(n)
      <3>1. PolySizes \subseteq Sizes
        BY DEF Sizes, Mem!Sizes
      <3>2. QED BY <2>1, <3>1 DEF Next, Configure
    <2>2. CASE \E bytes \in PolySizes : hazeMallocMrp(MaxGroup, bytes)
      <3>1. PolySizes \subseteq Sizes /\ MaxGroup \in 0..MaxGroup
        BY MaxGroupAssumption DEF Sizes, Mem!Sizes
      <3>2. QED BY <2>2, <3>1 DEF Next, Mrp
    <2>3. CASE \E d \in Inputs, src \in Uploads : hazeMemcpyMrpH2D(d, src)
      BY <2>3, InputsAssumption DEF Next, Mrp
    <2>4. CASE \E a \in Tagged : hazeTagOutput(a) /\ WithinBounds
      BY <2>4, TaggedAssumption DEF Next, Outputs
    <2>5. CASE hazeFlush
      BY <2>5 DEF Next, Outputs
    <2>6. QED BY <1>1, <2>1, <2>2, <2>3, <2>4, <2>5 DEF ConvertNext
  <1>2. QED BY <1>1, PTL DEF ConvertSpec, FullSpec

(* In programs that convert too, a D2H returns what the program last gave the address,   *)
(* a conversion's result once a flush has brought it back (haze.h:78-83).               *)
THEOREM ReadsAreCurrentWithConversions ==
  ASSUME OneSize
  PROVE  FullSpec => []ReadsAreCurrent
  BY CurrentHold, FullCurrentInvariant, PTL

(* A conversion reads what the program last gave its operand, and an operation after it  *)
(* reads what it was lifted to: by the last digit stored at the address, for a ModUp     *)
(* whose digits lie over each other or over its operand (core/basis_convert.cpp          *)
(* mod_up_locked).                                                                      *)
THEOREM BindingsAreCurrentWithConversions ==
  ASSUME OneSize
  PROVE  FullSpec => []BindingsAreCurrent
  BY CurrentHold, FullCurrentInvariant, PTL

(* A flush that succeeds brings each tagged result of a conversion back to its own       *)
(* address (epoch.cpp finalize_locked, populate_results_locked).                        *)
THEOREM FlushDeliversWithConversions ==
  ASSUME OneSize
  PROVE  FullSpec => FlushDelivers
  <1>1. Inv /\ AllCurrent /\ [Next \/ Convert]_haze => [Delivered]_haze
    BY DeliveredHold
  <1>2. QED BY <1>1, FullCurrentInvariant, PTL DEF FullSpec, FlushDelivers, Delivered

(* The modulus recovered for a residue of a conversion is the one of the base it was     *)
(* lifted to, and the variables keep their types (core/basis_convert.cpp, epoch.cpp     *)
(* store_mrp_locked).                                                                   *)
THEOREM TypesAndModuliWithConversions == FullSpec => [](TypeOK /\ ModuliAgree)
  <1>1. Inv => TypeOK /\ ModuliAgree
    BY TypesHold, ModuliHold
  <1>2. QED BY <1>1, FullInvariant, PTL

(* The next owner of a freed address meets nothing of a conversion's result or operand   *)
(* either (epoch.cpp invalidate_address).                                               *)
THEOREM FreedIsForgottenWithConversions ==
  ASSUME AnyDst = FALSE
  PROVE  FullSpec => []FreedIsForgotten
  BY FreedHold, FullInvariant, PTL

=============================================================================
