-------------------------- MODULE AllocatorProofs --------------------------
(***************************************************************************)
(* What holds of DeviceAllocator for any words, sizes, address range and   *)
(* group length.  The inductive invariant is TypeOK /\ NoAlias: an address *)
(* off the free list is not live because the list holds each address once  *)
(* and no live one, and a fresh one is not because it is past them all.    *)
(***************************************************************************)
EXTENDS Allocator, SequenceTheorems, FiniteSetTheorems, TLAPS

(* Erasing and overwriting entries, as functions. *)
LEMMA DropProperties ==
  ASSUME NEW f, NEW S
  PROVE  /\ DOMAIN Drop(f, S) = DOMAIN f \ S
         /\ \A x \in DOMAIN f \ S : Drop(f, S)[x] = f[x]
  BY DEF Drop, Restrict

(* Overwriting takes the new entries and keeps the others.                          *)
LEMMA PutProperties ==
  ASSUME NEW f, NEW g
  PROVE  /\ DOMAIN Put(f, g) = DOMAIN f \cup DOMAIN g
         /\ \A x \in DOMAIN g : Put(f, g)[x] = g[x]
         /\ \A x \in DOMAIN f \ DOMAIN g : Put(f, g)[x] = f[x]
  BY DEF Put

(* A tuple of words is a sequence of words. *)
LEMMA TupleIsSeq ==
  ASSUME NEW S, NEW n \in Nat, NEW f \in [1..n -> S]
  PROVE  f \in Seq(S)
  BY SeqDef

(* Of m multiples of p from 0 on, the j-th is below the m-th, and p short of the next. *)
LEMMA Strides ==
  ASSUME NEW p \in Nat \ {0}, NEW m \in Nat, NEW j \in 1..m
  PROVE  /\ (j - 1) * p \in Nat
         /\ (j - 1) * p + p <= m * p
  <1>1. (j - 1) * p \in Nat
    OBVIOUS
  <1>2. m * p = (j - 1) * p + (m - j + 1) * p
    OBVIOUS
  <1>3. (m - j + 1) * p >= p
    <2>1. (m - j + 1) * p = (m - j) * p + p
      OBVIOUS
    <2>2. (m - j) * p >= 0
      OBVIOUS
    <2>3. QED BY <2>1, <2>2
  <1>4. QED BY <1>1, <1>2, <1>3

-----------------------------------------------------------------------------
Inv == TypeOK /\ NoAlias

(* The allocation size is a natural number: zero, or one that was asked for.        *)
LEMMA PolyBytesNat == TypeOK => poly_bytes \in Nat
  BY PolySizesAssumption DEF TypeOK

(* No recycled address of a reservation is live or recycled twice. *)
LEMMA NoDesync ==
  ASSUME Inv, NEW n \in Nat
  PROVE  /\ Recycled(n) \in 0..Len(pool_free)
         /\ Recycled(n) <= n
         /\ \A i \in 1..Recycled(n) : RecycledAddr(i) \in Range(pool_free)
         /\ Desynced(n) = {}
  <1>1. pool_free \in Seq(Nat) /\ Len(pool_free) \in Nat
    BY DEF Inv, TypeOK
  <1>2. Recycled(n) \in 0..Len(pool_free) /\ Recycled(n) <= n
    BY <1>1 DEF Recycled
  <1>3. \A i \in 1..Recycled(n) : Len(pool_free) + 1 - i \in DOMAIN pool_free
    BY <1>1, <1>2, LenProperties
  <1>4. \A i \in 1..Recycled(n) : RecycledAddr(i) \in Range(pool_free)
    BY <1>3 DEF RecycledAddr, Range
  <1>5. \A i, j \in 1..Recycled(n) : RecycledAddr(i) = RecycledAddr(j) => i = j
    <2>1. TAKE i, j \in 1..Recycled(n)
    <2>2. HAVE RecycledAddr(i) = RecycledAddr(j)
    <2>3. Len(pool_free) + 1 - i = Len(pool_free) + 1 - j
      BY <1>3, <2>2 DEF RecycledAddr, Inv, NoAlias, PoolDistinct
    <2>4. QED BY <1>1, <1>2, <2>3
  <1>6. \A i \in 1..Recycled(n) : RecycledAddr(i) \notin alloc_set
    BY <1>4 DEF Inv, NoAlias, PoolNotLive
  <1>7. Desynced(n) = {}
    BY <1>2, <1>5, <1>6 DEF Desynced
  <1>8. QED BY <1>2, <1>4, <1>7

(* The reservations of a call: the end of the free list, then past every address. *)
LEMMA ReservedProperties ==
  ASSUME Inv, NEW n \in Nat, poly_bytes # 0,
         NEW fresh, fresh = n - Recycled(n),
         NEW next, next = next_addr + fresh * poly_bytes
  PROVE  /\ fresh \in Nat /\ next \in Nat /\ next_addr <= next
         /\ \A i \in 1..Recycled(n) : Reserved(n)[i] \in Range(pool_free)
         /\ \A i \in 1..n : i > Recycled(n) =>
              /\ Reserved(n)[i] \in Nat
              /\ next_addr <= Reserved(n)[i]
              /\ Reserved(n)[i] + poly_bytes <= next
  <1>1. next_addr \in Nat /\ poly_bytes \in Nat \ {0}
    BY PolyBytesNat DEF Inv, TypeOK
  <1>2. Recycled(n) \in 0..Len(pool_free) /\ Recycled(n) <= n
    BY NoDesync
  <1>3. Len(pool_free) \in Nat
    BY DEF Inv, TypeOK
  <1>4. fresh \in Nat
    BY <1>2, <1>3
  <1>5. next \in Nat /\ next_addr <= next
    <2>1. fresh * poly_bytes \in Nat
      BY <1>1, <1>4
    <2>2. QED BY <1>1, <2>1
  <1>6. \A i \in 1..Recycled(n) : Reserved(n)[i] \in Range(pool_free)
    BY <1>2, <1>3, NoDesync DEF Reserved
  <1>7. ASSUME NEW i \in 1..n, i > Recycled(n)
        PROVE  /\ Reserved(n)[i] \in Nat
               /\ next_addr <= Reserved(n)[i]
               /\ Reserved(n)[i] + poly_bytes <= next
    <2> DEFINE j == i - Recycled(n)
    <2>1. j \in 1..fresh
      BY <1>2, <1>3, <1>7
    <2>2. Reserved(n)[i] = next_addr + (j - 1) * poly_bytes
      BY <1>2, <1>3, <1>7 DEF Reserved, FreshAddr
    <2>3. (j - 1) * poly_bytes \in Nat /\ (j - 1) * poly_bytes + poly_bytes <= fresh * poly_bytes
      BY <1>1, <1>4, <2>1, Strides
    <2>4. fresh * poly_bytes \in Nat
      BY <1>1, <1>4
    <2> HIDE DEF j
    <2>5. QED BY <1>1, <2>2, <2>3, <2>4
  <1>8. QED BY <1>4, <1>5, <1>6, <1>7

(* What is left of the free list. *)
LEMMA RestOfPool ==
  ASSUME Inv, NEW n \in Nat,
         NEW rest, rest = SubSeq(pool_free, 1, Len(pool_free) - Recycled(n))
  PROVE  /\ rest \in Seq(Nat)
         /\ DOMAIN rest = 1..(Len(pool_free) - Recycled(n))
         /\ \A i \in DOMAIN rest : i \in DOMAIN pool_free /\ rest[i] = pool_free[i]
         /\ \A i \in DOMAIN rest, k \in 1..Recycled(n) : rest[i] # RecycledAddr(k)
  <1> DEFINE m == Len(pool_free) - Recycled(n)
  <1>1. pool_free \in Seq(Nat) /\ Len(pool_free) \in Nat /\ DOMAIN pool_free = 1..Len(pool_free)
    BY LenProperties DEF Inv, TypeOK
  <1>2. Recycled(n) \in 0..Len(pool_free)
    BY NoDesync
  <1>3. m \in 0..Len(pool_free)
    BY <1>1, <1>2
  <1>4. \A i \in 1..m : pool_free[i] \in Nat
    BY <1>1, <1>3, ElementOfSeq
  <1>5. /\ rest \in Seq(Nat)
        /\ Len(rest) = IF 1 <= m THEN m - 1 + 1 ELSE 0
        /\ \A i \in 1..m - 1 + 1 : rest[i] = pool_free[1 + i - 1]
    BY <1>3, <1>4, SubSeqProperties
  <1>6. DOMAIN rest = 1..m /\ \A i \in 1..m : rest[i] = pool_free[i]
    BY <1>3, <1>5, LenProperties
  <1>7. \A i \in 1..m : i \in DOMAIN pool_free
    BY <1>1, <1>3
  <1>8. ASSUME NEW i \in 1..m, NEW k \in 1..Recycled(n)
        PROVE  rest[i] # RecycledAddr(k)
    <2>1. Len(pool_free) + 1 - k \in DOMAIN pool_free /\ i # Len(pool_free) + 1 - k
      BY <1>1, <1>2
    <2>2. QED BY <1>6, <1>7, <2>1 DEF RecycledAddr, Inv, NoAlias, PoolDistinct
  <1>9. QED BY <1>5, <1>6, <1>7, <1>8
-----------------------------------------------------------------------------
(* The shadows after entries are erased or overwritten. *)

Shadows(f, live) == f \in [DOMAIN f -> Seq(Words)] /\ DOMAIN f \subseteq live

(* Erasing the entries of S leaves shadows of the remaining live addresses.         *)
LEMMA ErasedShadows ==
  ASSUME TypeOK, NEW S
  PROVE  /\ Shadows(Drop(shadow_data, S), alloc_set)
         /\ Shadows(Drop(shadow_data, S), alloc_set \ S)
  BY DropProperties, Zenon DEF TypeOK, Shadows, Drop, Restrict

(* Writing entries of live addresses leaves shadows of live addresses.              *)
LEMMA OverwrittenShadows ==
  ASSUME TypeOK, NEW g, g \in [DOMAIN g -> Seq(Words)], DOMAIN g \subseteq alloc_set
  PROVE  Shadows(Put(shadow_data, g), alloc_set)
  <1>1. \A x \in DOMAIN shadow_data : shadow_data[x] \in Seq(Words)
    BY DEF TypeOK
  <1>2. \A x \in DOMAIN Put(shadow_data, g) : Put(shadow_data, g)[x] \in Seq(Words)
    BY <1>1 DEF Put
  <1>3. Put(shadow_data, g) \in [DOMAIN Put(shadow_data, g) -> Seq(Words)]
    BY <1>2 DEF Put
  <1>4. DOMAIN Put(shadow_data, g) \subseteq alloc_set
    BY PutProperties DEF TypeOK
  <1>5. QED BY <1>3, <1>4 DEF Shadows

(* A write to a prefix of an entry leaves a sequence of words.                      *)
LEMMA StagedWords ==
  ASSUME TypeOK, NEW a, NEW new \in Seq(Words)
  PROVE  Overlay(Staged(a), new) \in Seq(Words)
  <1>1. poly_bytes \in Nat
    BY PolyBytesNat
  <1>2. Zeros(poly_bytes) \in Seq(Words)
    <2>1. Zeros(poly_bytes) \in [1..poly_bytes -> Words]
      BY WordsAssumption DEF Zeros
    <2>2. QED BY <1>1, <2>1, TupleIsSeq
  <1>3. Staged(a) \in Seq(Words)
    BY <1>2 DEF Staged, TypeOK
  <1>4. Len(Staged(a)) \in Nat /\ Len(new) \in Nat
    BY <1>3, LenProperties
  <1>5. \A i \in 1..Len(Staged(a)) : Staged(a)[i] \in Words
    BY <1>3, ElementOfSeq
  <1>6. \A i \in 1..Len(Staged(a)) : i <= Len(new) => new[i] \in Words
    BY <1>4, ElementOfSeq
  <1>7. Overlay(Staged(a), new) \in [1..Len(Staged(a)) -> Words]
    BY <1>5, <1>6 DEF Overlay
  <1>8. QED BY <1>4, <1>7, TupleIsSeq

-----------------------------------------------------------------------------
(* Steps that move no address keep both parts of the invariant. *)

AddressesStay == UNCHANGED <<alloc_set, pool_free, next_addr>>

(* A step that moves no address and leaves proper shadows preserves the invariant.  *)
LEMMA SameAddresses ==
  ASSUME Inv, AddressesStay, poly_bytes' = poly_bytes, host_set' \subseteq Hosts,
         Shadows(shadow_data', alloc_set), err' \in Errors
  PROVE  Inv'
  BY DEF Inv, TypeOK, NoAlias, PoolNotLive, PoolDistinct, BelowNext, AddressesStay, Shadows

(* The type invariant, read as a fact on the shadows.                               *)
LEMMA CurrentShadows == TypeOK => Shadows(shadow_data, alloc_set)
  BY DEF TypeOK, Shadows

(* A failed call preserves the invariant.                                           *)
LEMMA FailStep ==
  ASSUME Inv, NEW e \in Errors, fail(e)
  PROVE  Inv'
  BY SameAddresses, CurrentShadows DEF fail, allocVars, AddressesStay, Inv, TypeOK

(* A call that changes nothing preserves the invariant.                             *)
LEMMA OkStep == ASSUME Inv, ok PROVE Inv'
  BY SameAddresses, CurrentShadows DEF ok, allocVars, AddressesStay, Inv, TypeOK, Errors

(* A write to a live shadow preserves the invariant.                                *)
LEMMA WriteStep ==
  ASSUME Inv, NEW f, Shadows(f, alloc_set), set_shadow(f)
  PROVE  Inv'
  BY SameAddresses DEF set_shadow, AddressesStay, Inv, TypeOK, Errors

-----------------------------------------------------------------------------
(* Steps that move addresses. *)

(* set_polynomial_size: the drained free list takes no live address along.          *)
LEMMA SizeStep ==
  ASSUME Inv, NEW n \in PolySizes, set_polynomial_size(n)
  PROVE  Inv'
  <1>1. n \in Nat /\ n \in PolySizes
    BY PolySizesAssumption
  <1>2. CASE DrainsPool(n)
    <2>1. /\ alloc_set' = alloc_set \ Range(pool_free) /\ pool_free' = <<>>
          /\ shadow_data' = Drop(shadow_data, Range(pool_free))
          /\ poly_bytes' = n /\ err' = "Ok" /\ UNCHANGED <<host_set, next_addr>>
      BY <1>2 DEF set_polynomial_size
    <2>2. Shadows(shadow_data', alloc_set')
      BY <2>1, ErasedShadows DEF Inv
    <2>3. pool_free' \in Seq(Nat) /\ DOMAIN pool_free' = {}
      BY <2>1
    <2>4. TypeOK'
      BY <1>1, <2>1, <2>2, <2>3 DEF Inv, TypeOK, Shadows, Errors
    <2>5. NoAlias'
      BY <2>1, <2>3 DEF Inv, NoAlias, PoolNotLive, PoolDistinct, BelowNext, Range
    <2>6. QED BY <2>4, <2>5 DEF Inv
  <1>3. CASE ~DrainsPool(n)
    BY <1>3, SameAddresses, CurrentShadows
    DEF set_polynomial_size, DrainsPool, AddressesStay, Inv, TypeOK, Errors
  <1>4. QED BY <1>2, <1>3

(* Reservation: what leaves the free list or passes the bump pointer becomes live.  *)
LEMMA ReserveStep ==
  ASSUME Inv, NEW n \in Nat, poly_bytes # 0, reserve(n)
  PROVE  Inv'
  <1> DEFINE fresh == n - Recycled(n)
             next == next_addr + fresh * poly_bytes
             rest == SubSeq(pool_free, 1, Len(pool_free) - Recycled(n))
  <1>1. /\ alloc_set' = alloc_set \cup Range(Reserved(n)) /\ pool_free' = rest
        /\ next_addr' = next /\ err' = "Ok" /\ UNCHANGED <<shadow_data, host_set, poly_bytes>>
    BY NoDesync DEF reserve
  <1>2. /\ fresh \in Nat /\ next \in Nat /\ next_addr <= next
        /\ \A i \in 1..Recycled(n) : Reserved(n)[i] \in Range(pool_free)
        /\ \A i \in 1..n : i > Recycled(n) =>
             /\ Reserved(n)[i] \in Nat
             /\ next_addr <= Reserved(n)[i]
             /\ Reserved(n)[i] + poly_bytes <= next
    BY ReservedProperties
  <1>3. /\ rest \in Seq(Nat)
        /\ \A i \in DOMAIN rest : i \in DOMAIN pool_free /\ rest[i] = pool_free[i]
        /\ \A i \in DOMAIN rest, k \in 1..Recycled(n) : rest[i] # RecycledAddr(k)
    BY RestOfPool
  <1>4. DOMAIN Reserved(n) = 1..n
    BY DEF Reserved
  <1>5. Recycled(n) \in Nat /\ next_addr \in Nat /\ poly_bytes \in Nat \ {0} /\ HbmBase \in Nat
    BY NoDesync, LenProperties, PolyBytesNat, AddrAssumption DEF Inv, TypeOK
  <1>6. \A a \in Range(pool_free) : a \in Nat /\ HbmBase <= a /\ a < next_addr
    BY RangeOfSeq DEF Inv, TypeOK, NoAlias, BelowNext
  <1> HIDE DEF fresh, next, rest
  <1>7. \A i \in 1..n :
          \/ /\ i \in 1..Recycled(n)
             /\ Reserved(n)[i] = RecycledAddr(i)
             /\ Reserved(n)[i] \in Range(pool_free)
          \/ /\ Reserved(n)[i] \in Nat
             /\ next_addr <= Reserved(n)[i]
             /\ Reserved(n)[i] < next
    <2>1. TAKE i \in 1..n
    <2>2. CASE i <= Recycled(n)
      <3>1. i \in 1..Recycled(n)
        BY <1>5, <2>2
      <3>2. Reserved(n)[i] = RecycledAddr(i)
        BY <2>2 DEF Reserved
      <3>3. QED BY <1>2, <3>1, <3>2
    <2>3. CASE i > Recycled(n)
      BY <1>2, <1>5, <2>3
    <2>4. QED BY <1>5, <2>2, <2>3
  <1>8. TypeOK'
    <2>1. Range(Reserved(n)) \subseteq Nat
      BY <1>4, <1>6, <1>7 DEF Range
    <2>2. QED BY <1>1, <1>2, <1>3, <2>1 DEF Inv, TypeOK, Errors
  <1>9. Range(rest) \subseteq Range(pool_free)
    BY <1>3 DEF Range
  <1>10. PoolNotLive'
    <2>1. ASSUME NEW i \in DOMAIN rest, NEW j \in 1..n PROVE rest[i] # Reserved(n)[j]
      <3>1. rest[i] \in Range(pool_free)
        BY <1>3, <1>9 DEF Range
      <3>2. QED BY <1>3, <1>5, <1>6, <1>7, <3>1
    <2>2. Range(rest) \cap Range(Reserved(n)) = {}
      BY <1>4, <2>1 DEF Range
    <2>3. Range(rest) \cap alloc_set = {}
      BY <1>9 DEF Inv, NoAlias, PoolNotLive
    <2>4. QED BY <1>1, <2>2, <2>3 DEF PoolNotLive
  <1>11. PoolDistinct'
    BY <1>1, <1>3 DEF Inv, NoAlias, PoolDistinct
  <1>12. BelowNext'
    <2>1. \A a \in alloc_set : HbmBase <= a /\ a < next_addr /\ a \in Nat
      BY DEF Inv, TypeOK, NoAlias, BelowNext
    <2>2. HbmBase <= next_addr
      BY DEF Inv, NoAlias, BelowNext
    <2>3. \A a \in Range(Reserved(n)) : HbmBase <= a /\ a < next
      <3>1. \A i \in 1..n : HbmBase <= Reserved(n)[i] /\ Reserved(n)[i] < next
        BY <1>2, <1>5, <1>6, <1>7, <2>2
      <3>2. QED BY <1>4, <3>1 DEF Range
    <2>4. \A a \in alloc_set \cup Range(rest) : HbmBase <= a /\ a < next
      BY <1>2, <1>5, <1>6, <1>9, <2>1
    <2>5. HbmBase <= next
      BY <1>2, <1>5, <2>2
    <2>6. QED BY <1>1, <2>3, <2>4, <2>5 DEF BelowNext
  <1>13. QED BY <1>8, <1>10, <1>11, <1>12 DEF Inv, NoAlias

(* Freed addresses leave the live set and join the free list, each once. *)
LEMMA ReleaseStep ==
  ASSUME Inv, NEW freed, freed \subseteq alloc_set, NEW pushed \in Seq(freed),
         \A i, j \in DOMAIN pushed : pushed[i] = pushed[j] => i = j,
         alloc_set' = alloc_set \ freed, shadow_data' = Released(freed),
         pool_free' = pool_free \o pushed, err' \in Errors,
         UNCHANGED <<host_set, poly_bytes, next_addr>>
  PROVE  Inv'
  <1>1. /\ pool_free \in Seq(Nat) /\ alloc_set \subseteq Nat
        /\ Len(pool_free) \in Nat /\ DOMAIN pool_free = 1..Len(pool_free)
    BY LenProperties DEF Inv, TypeOK
  <1>2. /\ pushed \in Seq(Nat) /\ Len(pushed) \in Nat /\ DOMAIN pushed = 1..Len(pushed)
        /\ \A i \in 1..Len(pushed) : pushed[i] \in freed
    <2>1. freed \subseteq Nat
      BY <1>1
    <2>2. QED BY <2>1, SeqMonotonic, LenProperties, ElementOfSeq
  <1>3. /\ pool_free' \in Seq(Nat)
        /\ DOMAIN pool_free' = 1..(Len(pool_free) + Len(pushed))
        /\ \A i \in 1..(Len(pool_free) + Len(pushed)) :
             pool_free'[i] = IF i <= Len(pool_free) THEN pool_free[i] ELSE pushed[i - Len(pool_free)]
    <2>1. /\ pool_free \o pushed \in Seq(Nat)
          /\ Len(pool_free \o pushed) = Len(pool_free) + Len(pushed)
          /\ \A i \in 1..(Len(pool_free) + Len(pushed)) :
               (pool_free \o pushed)[i] =
                 IF i <= Len(pool_free) THEN pool_free[i] ELSE pushed[i - Len(pool_free)]
      BY <1>1, <1>2, ConcatProperties
    <2>2. QED BY <2>1, LenProperties
  <1>4. \A i \in DOMAIN pool_free' :
          \/ i \in DOMAIN pool_free /\ pool_free'[i] = pool_free[i]
          \/ i - Len(pool_free) \in DOMAIN pushed /\ pool_free'[i] = pushed[i - Len(pool_free)]
    <2>1. TAKE i \in DOMAIN pool_free'
    <2>2. CASE i <= Len(pool_free)
      BY <1>1, <1>3, <2>2
    <2>3. CASE i > Len(pool_free)
      BY <1>1, <1>2, <1>3, <2>3
    <2>4. QED BY <1>1, <1>2, <1>3, <2>2, <2>3
  <1>5. \A i \in DOMAIN pool_free : pool_free[i] \notin alloc_set
    BY DEF Inv, NoAlias, PoolNotLive, Range
  <1>6. TypeOK'
    BY <1>3, ErasedShadows DEF Inv, TypeOK, Shadows, Released
  <1>7. PoolNotLive'
    BY <1>2, <1>4, <1>5 DEF PoolNotLive, Range
  <1>8. PoolDistinct'
    <2>1. SUFFICES ASSUME NEW i \in DOMAIN pool_free', NEW j \in DOMAIN pool_free',
                          pool_free'[i] = pool_free'[j]
                   PROVE  i = j
      BY DEF PoolDistinct
    <2>2. CASE i \in DOMAIN pool_free /\ pool_free'[i] = pool_free[i]
      BY <1>2, <1>4, <1>5, <2>1, <2>2 DEF Inv, NoAlias, PoolDistinct
    <2>3. CASE /\ i - Len(pool_free) \in DOMAIN pushed
               /\ pool_free'[i] = pushed[i - Len(pool_free)]
      <3>1. /\ j - Len(pool_free) \in DOMAIN pushed
            /\ pool_free'[j] = pushed[j - Len(pool_free)]
        BY <1>2, <1>4, <1>5, <2>1, <2>3
      <3>2. i - Len(pool_free) = j - Len(pool_free)
        BY <2>1, <2>3, <3>1
      <3>3. QED BY <1>1, <1>2, <1>3, <3>2
    <2>4. QED BY <1>4, <2>2, <2>3
  <1>9. BelowNext'
    <2>1. \A a \in Range(pool_free)' : a \in alloc_set \cup Range(pool_free)
      BY <1>2, <1>4 DEF Range
    <2>2. QED BY <2>1 DEF Inv, NoAlias, BelowNext
  <1>10. QED BY <1>6, <1>7, <1>8, <1>9 DEF Inv, NoAlias

(* free: one address, or a refusal.                                                 *)
LEMMA FreeStep ==
  ASSUME Inv, NEW a, free(a)
  PROVE  Inv'
  <1>1. CASE a = Null /\ ok
    BY <1>1, OkStep
  <1>2. CASE a # Null /\ a \notin alloc_set /\ fail("UnknownAddress")
    BY <1>2, FailStep DEF Errors
  <1>3. CASE /\ a \in alloc_set /\ alloc_set' = alloc_set \ {a}
             /\ shadow_data' = Released({a}) /\ pool_free' = Append(pool_free, a)
             /\ err' = "Ok" /\ UNCHANGED <<host_set, poly_bytes, next_addr>>
    <2>1. <<a>> \in Seq({a}) /\ DOMAIN <<a>> = {1} /\ {a} \subseteq alloc_set
      BY <1>3
    <2>2. Append(pool_free, a) = pool_free \o <<a>>
      BY <1>3, AppendIsConcat DEF Inv, TypeOK
    <2>3. "Ok" \in Errors
      BY DEF Errors
    <2>4. QED BY <1>3, <2>1, <2>2, <2>3, ReleaseStep
  <1>4. QED BY <1>1, <1>2, <1>3 DEF free

(* The addresses a group free pools, in whatever order, are a list without repetition. *)
LEMMA FreedInOrder ==
  ASSUME NEW addrs \in Groups, free_many(addrs)
  PROVE  \E freed : \E pushed \in Seq(freed) :
           /\ \A i, j \in DOMAIN pushed : pushed[i] = pushed[j] => i = j
           /\ freed \subseteq alloc_set /\ alloc_set' = alloc_set \ freed
           /\ Range(pushed) = freed
           /\ shadow_data' = Released(freed)
           /\ pool_free' = pool_free \o pushed
           /\ err' \in {"UnknownAddress", "Ok"}
           /\ UNCHANGED <<host_set, poly_bytes, next_addr>>
  <1> DEFINE freed == Range(addrs) \cap alloc_set
  <1>1. PICK pushed \in Bijection(1..Cardinality(freed), freed) :
          /\ alloc_set' = alloc_set \ freed
          /\ shadow_data' = Released(freed)
          /\ pool_free' = pool_free \o pushed
          /\ err' \in {"UnknownAddress", "Ok"}
          /\ UNCHANGED <<host_set, poly_bytes, next_addr>>
    BY DEF free_many
  <1> HIDE DEF freed
  <1>2. IsFiniteSet(freed) /\ freed \subseteq alloc_set
    <2>1. PICK n \in 0..MaxGroup : addrs \in [1..n -> DevAddrs \cup {Null}]
      BY DEF Groups
    <2>2. n \in Nat
      BY <2>1, MaxGroupAssumption
    <2>3. addrs \in Surjection(1..n, Range(addrs))
      BY <2>1 DEF Surjection, Range
    <2>4. IsFiniteSet(Range(addrs))
      BY <2>2, <2>3, FS_NatSurjection DEF ExistsSurjection
    <2>5. QED BY <2>4, FS_Subset DEF freed
  <1>3. Cardinality(freed) \in Nat
    BY <1>2, FS_CardinalityType
  <1>4. pushed \in [1..Cardinality(freed) -> freed] /\ IsInjective(pushed)
    BY <1>1 DEF Bijection, Injection
  <1>5. pushed \in Seq(freed)
    BY <1>3, <1>4, TupleIsSeq
  <1>6. Range(pushed) = freed
    BY <1>1 DEF Bijection, Surjection, Range
  <1>7. QED BY <1>1, <1>2, <1>4, <1>5, <1>6 DEF IsInjective

(* free_many: the live addresses it names.                                          *)
LEMMA FreeManyStep ==
  ASSUME Inv, NEW addrs \in Groups, free_many(addrs)
  PROVE  Inv'
  <1>1. {"UnknownAddress", "Ok"} \subseteq Errors
    BY DEF Errors
  <1>2. QED BY <1>1, FreedInOrder, ReleaseStep

-----------------------------------------------------------------------------
(* The other calls of Next. *)

(* allocate and allocate_many, refused or not.                                      *)
LEMMA AllocateStep ==
  ASSUME Inv, NEW n \in Nat, NEW bytes,
         allocate(bytes) \/ allocate_many(n, bytes)
  PROVE  Inv'
  <1>1. validate_poly_size(bytes) \in Errors
    BY DEF validate_poly_size, Errors
  <1>2. validate_poly_size(bytes) = "Ok" => poly_bytes # 0
    BY DEF validate_poly_size
  <1>3. \/ ok
        \/ fail(validate_poly_size(bytes))
        \/ \E k \in Nat : poly_bytes # 0 /\ reserve(k)
    BY <1>2 DEF allocate, allocate_many
  <1>4. QED BY <1>1, <1>3, OkStep, FailStep, ReserveStep

(* copy_h2d.                                                                        *)
LEMMA CopyStep ==
  ASSUME Inv, NEW a, NEW src \in Seq(Words), copy_h2d(a, src)
  PROVE  Inv'
  <1>1. CASE WriteError(a, Len(src)) = "Ok"
    <2>1. a \in alloc_set
      BY <1>1 DEF WriteError
    <2>2. Shadows(Written([x \in {a} |-> src]), alloc_set)
      <3>1. Overlay(Staged(a), src) \in Seq(Words)
        BY StagedWords DEF Inv
      <3> DEFINE g == [x \in {a} |-> Overlay(Staged(x), src)]
      <3>2. g \in [DOMAIN g -> Seq(Words)] /\ DOMAIN g \subseteq alloc_set
        BY <2>1, <3>1
      <3>3. Shadows(Put(shadow_data, g), alloc_set)
        BY <3>2, OverwrittenShadows DEF Inv
      <3>4. Written([x \in {a} |-> src]) = Put(shadow_data, g)
        BY DEF Written
      <3>5. QED BY <3>3, <3>4
    <2>3. QED BY <1>1, <2>2, WriteStep DEF copy_h2d
  <1>2. CASE WriteError(a, Len(src)) # "Ok"
    BY <1>2, FailStep DEF copy_h2d, WriteError, Errors
  <1>3. QED BY <1>1, <1>2

(* memset.                                                                          *)
LEMMA MemsetStep ==
  ASSUME Inv, NEW a, NEW w \in Words, NEW n \in Nat, memset(a, w, n)
  PROVE  Inv'
  <1>1. CASE WriteError(a, n) = "Ok"
    <2>1. a \in alloc_set
      BY <1>1 DEF WriteError
    <2>2. Fill(w, n) \in Seq(Words)
      <3>1. Fill(w, n) \in [1..n -> Words]
        BY DEF Fill
      <3>2. QED BY <3>1, TupleIsSeq
    <2>3. Shadows(Written([x \in {a} |-> Fill(w, n)]), alloc_set)
      <3>1. Overlay(Staged(a), Fill(w, n)) \in Seq(Words)
        BY <2>2, StagedWords DEF Inv
      <3> DEFINE g == [x \in {a} |-> Overlay(Staged(x), Fill(w, n))]
      <3>2. g \in [DOMAIN g -> Seq(Words)] /\ DOMAIN g \subseteq alloc_set
        BY <2>1, <3>1
      <3>3. Shadows(Put(shadow_data, g), alloc_set)
        BY <3>2, OverwrittenShadows DEF Inv
      <3>4. Written([x \in {a} |-> Fill(w, n)]) = Put(shadow_data, g)
        BY DEF Written
      <3>5. QED BY <3>3, <3>4
    <2>4. QED BY <1>1, <2>3, WriteStep DEF memset
  <1>2. CASE WriteError(a, n) # "Ok"
    BY <1>2, FailStep DEF memset, WriteError, Errors
  <1>3. QED BY <1>1, <1>2

(* update_shadow: an entry of exactly poly_bytes words.                             *)
LEMMA UpdateStep ==
  ASSUME Inv, NEW a, NEW v \in Seq(Words), update_shadow(a, v)
  PROVE  Inv'
  <1> DEFINE value == [i \in 1..poly_bytes |-> IF i <= Len(v) THEN v[i] ELSE 0]
             g == [x \in {a} |-> value]
  <1>1. CASE a \in alloc_set
    <2>1. value \in Seq(Words)
      <3>1. poly_bytes \in Nat /\ Len(v) \in Nat
        BY PolyBytesNat, LenProperties DEF Inv
      <3>2. \A i \in 1..poly_bytes : i <= Len(v) => v[i] \in Words
        BY <3>1, ElementOfSeq
      <3>3. value \in [1..poly_bytes -> Words]
        BY <3>2, WordsAssumption
      <3>4. QED BY <3>1, <3>3, TupleIsSeq
    <2> HIDE DEF value
    <2>2. g \in [DOMAIN g -> Seq(Words)] /\ DOMAIN g \subseteq alloc_set
      BY <1>1, <2>1
    <2>3. Shadows(Put(shadow_data, g), alloc_set)
      BY <2>2, OverwrittenShadows DEF Inv
    <2>4. set_shadow(Put(shadow_data, g))
      BY <1>1 DEF update_shadow, value
    <2>5. QED BY <2>3, <2>4, WriteStep
  <1>2. CASE a \notin alloc_set
    BY <1>2, FailStep DEF update_shadow, Errors
  <1>3. QED BY <1>1, <1>2

(* copy_to_host: a read.                                                            *)
LEMMA CopyToHostStep ==
  ASSUME Inv, NEW a, NEW count, copy_to_host(a, count)
  PROVE  Inv'
  <1>1. copy_to_host_error(a, count) \in Errors
    BY DEF copy_to_host_error, WriteError, Errors
  <1>2. fail(copy_to_host_error(a, count))
    BY DEF copy_to_host, fail
  <1>3. QED BY <1>1, <1>2, FailStep

(* The evicting read loses at most one entry.                                       *)
LEMMA ExtractStep ==
  ASSUME Inv, NEW a, NEW ring_dim, extract_polynomial_components(a, ring_dim)
  PROVE  Inv'
  <1>1. err' \in Errors
    BY DEF extract_polynomial_components, ComponentsError, Errors
  <1>2. Shadows(shadow_data', alloc_set)
    BY ErasedShadows, CurrentShadows DEF extract_polynomial_components, Inv
  <1>3. QED BY <1>1, <1>2, SameAddresses
            DEF extract_polynomial_components, AddressesStay, Inv, TypeOK

(* The host pointers touch nothing of the device.                                   *)
LEMMA HostStep ==
  ASSUME Inv, NEW p \in Hosts, register_host_pointer(p) \/ unregister_host_pointer(p)
  PROVE  Inv'
  BY SameAddresses, CurrentShadows
  DEF register_host_pointer, unregister_host_pointer, AddressesStay, Inv, TypeOK, Errors

(* Nothing live, nothing pooled: how the allocator starts, and what reset leaves.   *)
LEMMA NoAddresses ==
  ASSUME alloc_set = {}, shadow_data = Empty, pool_free = <<>>, host_set = {},
         poly_bytes = 0, next_addr = HbmBase, err = "Ok"
  PROVE  Inv
  <1>1. TypeOK
    BY AddrAssumption DEF TypeOK, Empty, Errors
  <1>2. NoAlias
    BY AddrAssumption DEF NoAlias, PoolNotLive, PoolDistinct, BelowNext, Range
  <1>3. QED BY <1>1, <1>2 DEF Inv

-----------------------------------------------------------------------------
(* The invariant holds initially.                                                   *)
LEMMA InitInv == Init => Inv
  BY NoAddresses DEF Init

(* The invariant is inductive: one step per method.                                 *)
LEMMA NextInv == Inv /\ [Next]_vars => Inv'
  <1> SUFFICES ASSUME Inv, [Next]_vars PROVE Inv'
    OBVIOUS
  <1>1. PolySizes \subseteq Nat /\ Sizes \subseteq Nat /\ 1 \in Nat
    BY PolySizesAssumption DEF Sizes
  <1>2. ASSUME NEW n \in PolySizes, set_polynomial_size(n) PROVE Inv'
    BY <1>2, SizeStep
  <1>3. ASSUME NEW bytes \in Sizes, allocate(bytes) PROVE Inv'
    BY <1>1, <1>3, AllocateStep
  <1>4. ASSUME NEW n \in 0..MaxGroup, NEW bytes \in Sizes, allocate_many(n, bytes) PROVE Inv'
    BY <1>4, AllocateStep, MaxGroupAssumption
  <1>5. ASSUME NEW a \in DevAddrs \cup {Null}, free(a) PROVE Inv'
    BY <1>5, FreeStep
  <1>6. ASSUME NEW addrs \in Groups, free_many(addrs) PROVE Inv'
    BY <1>6, FreeManyStep
  <1>7. ASSUME NEW a \in DevAddrs, NEW n \in PolySizes, NEW src \in Buffers(n), copy_h2d(a, src)
        PROVE  Inv'
    <2>1. src \in Seq(Words)
      <3>1. PICK k \in 0..n : src \in [1..k -> Words]
        BY DEF Buffers
      <3>2. k \in Nat
        BY <1>1, <3>1
      <3>3. QED BY <3>1, <3>2, TupleIsSeq
    <2>2. QED BY <1>7, <2>1, CopyStep
  <1>8. ASSUME NEW a \in DevAddrs, NEW w \in Words, NEW n \in Sizes, memset(a, w, n) PROVE Inv'
    BY <1>1, <1>8, MemsetStep
  <1>9. ASSUME NEW a \in DevAddrs, NEW n \in Sizes, copy_to_host(a, n) PROVE Inv'
    BY <1>9, CopyToHostStep
  <1>10. ASSUME NEW a \in DevAddrs, NEW n \in Sizes, extract_polynomial_components(a, n) PROVE Inv'
    BY <1>10, ExtractStep
  <1>11. ASSUME NEW a \in DevAddrs, NEW n \in PolySizes, NEW v \in [1..n -> Words],
                update_shadow(a, v)
         PROVE  Inv'
    BY <1>1, <1>11, TupleIsSeq, UpdateStep
  <1>12. ASSUME NEW p \in Hosts, register_host_pointer(p) \/ unregister_host_pointer(p) PROVE Inv'
    BY <1>12, HostStep
  <1>13. CASE reset
    <2>1. (alloc_set = {} /\ shadow_data = Empty /\ pool_free = <<>> /\ host_set = {}
             /\ poly_bytes = 0 /\ next_addr = HbmBase /\ err = "Ok")'
      BY <1>13 DEF reset, Empty
    <2>2. TypeOK'
      BY <2>1, AddrAssumption DEF TypeOK, Empty, Errors
    <2>3. NoAlias'
      BY <2>1, AddrAssumption DEF NoAlias, PoolNotLive, PoolDistinct, BelowNext, Range
    <2>4. QED BY <2>2, <2>3 DEF Inv
  <1>14. CASE UNCHANGED vars
    BY <1>14 DEF vars, Inv, TypeOK, NoAlias, PoolNotLive, PoolDistinct, BelowNext
  <1>15. QED
    BY <1>2, <1>3, <1>4, <1>5, <1>6, <1>7, <1>8, <1>9, <1>10, <1>11, <1>12, <1>13, <1>14 DEF Next

(* Types hold, and shadow bytes exist for live addresses only.                          *)
THEOREM TypeCorrect == Spec => []TypeOK
  BY InitInv, NextInv, PTL DEF Spec, Inv

(* No address is at once live and in the free list, or in the list twice, and none is   *)
(* at or past the bump pointer: allocate_one_locked gives an address to one owner.      *)
THEOREM OneOwner == Spec => []NoAlias
  BY InitInv, NextInv, PTL DEF Spec, Inv

(* The addresses handed out so far. *)
Known == alloc_set \cup Range(pool_free)

(* A step that neither reserves nor resizes: no address is new or lost, none becomes live. *)
Quiet == /\ alloc_set' \subseteq alloc_set /\ Known' = Known
         /\ err' # "PoolMapDesync" /\ UNCHANGED <<poly_bytes, next_addr>>

(* A step grows the live set by a reservation, erases the pool, or takes addresses away. *)
LEMMA KindsOfStep ==
  ASSUME Inv, Next
  PROVE  \/ \E n \in Nat : poly_bytes # 0 /\ reserve(n)
         \/ \E n \in PolySizes : set_polynomial_size(n)
         \/ reset
         \/ Quiet
  <1> DEFINE Goal == \/ \E n \in Nat : poly_bytes # 0 /\ reserve(n)
                     \/ \E n \in PolySizes : set_polynomial_size(n)
                     \/ reset
                     \/ Quiet
  <1>1. /\ \A e : e # "PoolMapDesync" /\ fail(e) => Quiet
        /\ ok => Quiet
    BY DEF ok, fail, allocVars, Quiet, Known
  <1>2. \A a, n : WriteError(a, n) # "PoolMapDesync"
    BY DEF WriteError
  <1>3. \A f : set_shadow(f) => Quiet
    BY DEF set_shadow, Quiet, Known
  <1>4. ASSUME NEW n \in Nat, NEW bytes, allocate(bytes) \/ allocate_many(n, bytes) PROVE Goal
    <2>1. validate_poly_size(bytes) # "PoolMapDesync"
      BY DEF validate_poly_size
    <2>2. validate_poly_size(bytes) = "Ok" => poly_bytes # 0
      BY DEF validate_poly_size
    <2>3. CASE validate_poly_size(bytes) = "Ok" /\ (reserve(1) \/ reserve(n))
      BY <2>2, <2>3
    <2>4. CASE ok \/ fail(validate_poly_size(bytes))
      BY <1>1, <2>1, <2>4
    <2> HIDE DEF Goal
    <2>5. QED BY <1>4, <2>3, <2>4 DEF allocate, allocate_many
  <1>5. ASSUME NEW a, free(a) PROVE Quiet
    <2>1. fail("UnknownAddress") => Quiet
      BY <1>1
    <2>2. ASSUME a \in alloc_set, alloc_set' = alloc_set \ {a}, pool_free' = Append(pool_free, a),
                 err' = "Ok", UNCHANGED <<poly_bytes, next_addr>>
          PROVE  Quiet
      <3>1. pool_free \in Seq(Nat) /\ <<a>> \in Seq(Nat) /\ a \in Nat
        BY <2>2 DEF Inv, TypeOK
      <3>2. Range(pool_free') = Range(pool_free) \cup Range(<<a>>)
        <4>1. pool_free' = pool_free \o <<a>>
          BY <2>2, <3>1, AppendIsConcat
        <4>2. Range(pool_free \o <<a>>) = Range(pool_free) \cup Range(<<a>>)
          BY <3>1, RangeConcatenation
        <4>3. QED BY <4>1, <4>2
      <3>3. Range(<<a>>) = {a}
        BY DEF Range
      <3>4. QED BY <2>2, <3>2, <3>3 DEF Quiet, Known
    <2>3. QED BY <1>1, <1>5, <2>1, <2>2 DEF free
  <1>6. ASSUME NEW addrs \in Groups, free_many(addrs) PROVE Quiet
    <2>1. PICK freed : \E pushed \in Seq(freed) :
            /\ freed \subseteq alloc_set /\ alloc_set' = alloc_set \ freed
            /\ pool_free' = pool_free \o pushed /\ Range(pushed) = freed
            /\ err' \in {"UnknownAddress", "Ok"} /\ UNCHANGED <<poly_bytes, next_addr>>
      BY <1>6, FreedInOrder
    <2>2. PICK pushed \in Seq(freed) : pool_free' = pool_free \o pushed /\ Range(pushed) = freed
      BY <2>1
    <2>3. pool_free \in Seq(Nat) /\ pushed \in Seq(Nat)
      <3>1. freed \subseteq Nat
        BY <2>1 DEF Inv, TypeOK
      <3>2. QED BY <2>2, <3>1, SeqMonotonic DEF Inv, TypeOK
    <2>4. Range(pool_free') = Range(pool_free) \cup freed
      BY <2>2, <2>3, RangeConcatenation
    <2>5. QED BY <2>1, <2>4 DEF Quiet, Known
  <1>7. ASSUME NEW a, NEW src, copy_h2d(a, src) PROVE Quiet
    <2>1. set_shadow(Written([x \in {a} |-> src])) => Quiet
      BY <1>3, Zenon
    <2>2. fail(WriteError(a, Len(src))) => Quiet
      BY <1>1, <1>2
    <2>3. QED BY <1>7, <2>1, <2>2, Zenon DEF copy_h2d
  <1>8. ASSUME NEW a, NEW w, NEW n, memset(a, w, n) PROVE Quiet
    <2>1. set_shadow(Written([x \in {a} |-> Fill(w, n)])) => Quiet
      BY <1>3, Zenon
    <2>2. fail(WriteError(a, n)) => Quiet
      BY <1>1, <1>2
    <2>3. QED BY <1>8, <2>1, <2>2, Zenon DEF memset
  <1>9. ASSUME NEW a, NEW v, update_shadow(a, v) PROVE Quiet
    BY <1>1, <1>3, <1>9 DEF update_shadow
  <1>10. ASSUME NEW a, NEW n, copy_to_host(a, n) PROVE Quiet
    BY <1>2, <1>10 DEF copy_to_host, copy_to_host_error, allocVars, Quiet, Known
  <1>11. ASSUME NEW a, NEW n, extract_polynomial_components(a, n) PROVE Quiet
    BY <1>11 DEF extract_polynomial_components, ComponentsError, Quiet, Known
  <1>12. ASSUME NEW p, register_host_pointer(p) \/ unregister_host_pointer(p) PROVE Quiet
    BY <1>12 DEF register_host_pointer, unregister_host_pointer, Quiet, Known
  <1>13. 1 \in Nat /\ \A n \in 0..MaxGroup : n \in Nat
    BY MaxGroupAssumption
  <1>14. Quiet => Goal
    OBVIOUS
  <1>15. (\E n \in PolySizes : set_polynomial_size(n)) => Goal
    OBVIOUS
  <1>16. reset => Goal
    OBVIOUS
  <1> HIDE DEF Goal
  <1>17. Goal
    BY <1>4, <1>5, <1>6, <1>7, <1>8, <1>9, <1>10, <1>11, <1>12, <1>13, <1>14, <1>15, <1>16 DEF Next
  <1>18. QED BY <1>17 DEF Goal

(* PoolMapDesync is never returned: the branch allocator.cpp:88-92 is dead code.        *)
THEOREM DesyncUnreachable == Spec => []NeverDesync
  <1>1. Init => NeverDesync
    BY DEF Init, NeverDesync
  <1>2. Inv /\ NeverDesync /\ [Next]_vars => NeverDesync'
    <2>1. \A n \in Nat : Inv /\ reserve(n) => err' = "Ok"
      BY NoDesync DEF reserve
    <2>2. Inv /\ Next => NeverDesync'
      BY <2>1, KindsOfStep DEF NeverDesync, set_polynomial_size, reset, Quiet
    <2>3. NeverDesync /\ UNCHANGED vars => NeverDesync'
      BY DEF NeverDesync, vars
    <2>4. QED BY <2>2, <2>3
  <1>3. QED BY <1>1, <1>2, InitInv, NextInv, PTL DEF Spec

(* The pool that a change of size drains takes no live address and no live bytes along. *)
LEMMA SizeKeepsLive ==
  ASSUME Inv, NEW n, set_polynomial_size(n)
  PROVE  alloc_set' = alloc_set /\ shadow_data' = shadow_data
  <1>1. alloc_set \ Range(pool_free) = alloc_set
    BY DEF Inv, NoAlias, PoolNotLive
  <1>2. DOMAIN shadow_data \ Range(pool_free) = DOMAIN shadow_data
    BY DEF Inv, TypeOK, NoAlias, PoolNotLive
  <1>3. Drop(shadow_data, Range(pool_free)) = shadow_data
    <2>1. shadow_data = [a \in DOMAIN shadow_data |-> shadow_data[a]]
      BY DEF Inv, TypeOK
    <2>2. QED BY <1>2, <2>1 DEF Drop, Restrict
  <1>4. QED BY <1>1, <1>3 DEF set_polynomial_size

(* A change of size takes no live address and no live bytes: what it drops was pooled. *)
THEOREM ResizeIsHarmless == Spec => ResizeKeepsLive
  <1> DEFINE Kept == poly_bytes' \notin {poly_bytes, 0} =>
                       alloc_set' = alloc_set /\ shadow_data' = shadow_data
  <1>1. ASSUME Inv, NEW n \in PolySizes, set_polynomial_size(n) PROVE Kept
    BY <1>1, SizeKeepsLive
  <1>2. Inv /\ Next => Kept
    <2>1. reset => Kept
      BY DEF reset
    <2>2. Quiet => Kept
      BY DEF Quiet
    <2>3. \A n \in Nat : Inv /\ reserve(n) => Kept
      BY NoDesync DEF reserve
    <2> HIDE DEF Kept
    <2>4. QED BY <1>1, <2>1, <2>2, <2>3, KindsOfStep
  <1>3. Inv /\ [Next]_vars => [Kept]_vars
    BY <1>2
  <1>4. QED BY <1>3, InitInv, NextInv, PTL DEF Spec, ResizeKeepsLive

-----------------------------------------------------------------------------
(* With one size, what is handed out lies in steps of it, and ends at the bump pointer. *)
Tiled ==
  /\ poly_bytes = 0 => Known = {}
  /\ \A a, b \in Known : a < b => a + poly_bytes <= b
  /\ \A a \in Known : a + poly_bytes <= next_addr

(* A reservation keeps the addresses a tiling: recycled ones are tiles, fresh ones follow. *)
LEMMA TiledReserve ==
  ASSUME Inv, Tiled, NEW n \in Nat, poly_bytes # 0, reserve(n)
  PROVE  Tiled'
  <1> DEFINE fresh == n - Recycled(n)
             at(j) == next_addr + (j - 1) * poly_bytes
  <1>1. /\ next_addr \in Nat /\ poly_bytes \in Nat \ {0} /\ Recycled(n) \in Nat /\ fresh \in Nat
        /\ Known \subseteq Nat
    <2>1. Known \subseteq Nat
      BY RangeOfSeq DEF Known, Inv, TypeOK
    <2>2. QED BY <2>1, PolyBytesNat, NoDesync, LenProperties, ReservedProperties DEF Inv, TypeOK
  <1>2. /\ alloc_set' = alloc_set \cup Range(Reserved(n))
        /\ pool_free' = SubSeq(pool_free, 1, Len(pool_free) - Recycled(n))
        /\ next_addr' = next_addr + fresh * poly_bytes
        /\ poly_bytes' = poly_bytes
    BY NoDesync DEF reserve
  <1>3. \A a \in Known' : a \in Known \/ \E j \in 1..fresh : a = at(j)
    <2>1. Range(pool_free') \subseteq Range(pool_free)
      BY <1>2, RestOfPool DEF Range
    <2>2. \A i \in 1..n : Reserved(n)[i] \in Known \/ \E j \in 1..fresh : Reserved(n)[i] = at(j)
      <3>1. TAKE i \in 1..n
      <3>2. CASE i <= Recycled(n)
        <4>1. i \in 1..Recycled(n)
          BY <1>1, <3>2
        <4>2. QED BY <4>1, ReservedProperties DEF Known
      <3>3. CASE i > Recycled(n)
        <4>1. i - Recycled(n) \in 1..fresh
          BY <1>1, <3>3
        <4>2. Reserved(n)[i] = at(i - Recycled(n))
          BY <1>1, <3>3 DEF Reserved, FreshAddr
        <4>3. QED BY <4>1, <4>2
      <3>4. QED BY <1>1, <3>2, <3>3
    <2>3. DOMAIN Reserved(n) = 1..n
      BY DEF Reserved
    <2> HIDE DEF at, fresh
    <2>4. QED BY <1>2, <2>1, <2>2, <2>3 DEF Known, Range
  <1>4. \A j \in 1..fresh : /\ at(j) \in Nat /\ next_addr <= at(j)
                            /\ at(j) + poly_bytes <= next_addr'
    <2>1. TAKE j \in 1..fresh
    <2>2. /\ (j - 1) * poly_bytes \in Nat
          /\ (j - 1) * poly_bytes + poly_bytes <= fresh * poly_bytes
      BY <1>1, Strides
    <2>3. fresh * poly_bytes \in Nat
      BY <1>1
    <2>4. next_addr' = next_addr + fresh * poly_bytes
      BY <1>2
    <2> DEFINE offset == (j - 1) * poly_bytes
               total == fresh * poly_bytes
    <2>5. /\ offset \in Nat /\ total \in Nat /\ offset + poly_bytes <= total
          /\ next_addr' = next_addr + total /\ at(j) = next_addr + offset
      BY <2>2, <2>3, <2>4
    <2> HIDE DEF fresh, at, offset, total
    <2>6. QED BY <1>1, <2>5
  <1>5. \A j, k \in 1..fresh : j < k => at(j) + poly_bytes <= at(k)
    <2>1. TAKE j, k \in 1..fresh
    <2>2. HAVE j < k
    <2>3. k - 1 \in Nat /\ j \in 1..(k - 1)
      BY <1>1, <2>2
    <2>4. (j - 1) * poly_bytes \in Nat /\ (j - 1) * poly_bytes + poly_bytes <= (k - 1) * poly_bytes
      BY <1>1, <2>3, Strides
    <2>5. (k - 1) * poly_bytes \in Nat
      BY <1>1, <2>3
    <2>6. QED BY <1>1, <2>4, <2>5
  <1>6. next_addr' \in Nat /\ next_addr <= next_addr'
    <2>1. fresh * poly_bytes \in Nat
      BY <1>1
    <2>2. QED BY <1>1, <1>2, <2>1
  <1> HIDE DEF at, fresh
  <1>7. \A a \in Known : a \in Nat /\ a + poly_bytes <= next_addr
    BY <1>1 DEF Tiled
  <1>8. \A a \in Known' : a + poly_bytes <= next_addr'
    <2>1. TAKE a \in Known'
    <2>2. CASE a \in Known
      BY <1>1, <1>6, <1>7, <2>2
    <2>3. CASE \E j \in 1..fresh : a = at(j)
      BY <1>4, <2>3
    <2>4. QED BY <1>3, <2>2, <2>3
  <1>9. ASSUME NEW a \in Known', NEW b \in Known', a < b
        PROVE  a + poly_bytes <= b
    <2>1. CASE a \in Known /\ b \in Known
      BY <1>9, <2>1 DEF Tiled
    <2>2. CASE a \in Known /\ \E k \in 1..fresh : b = at(k)
      BY <1>1, <1>4, <1>7, <2>2
    <2>3. CASE (\E j \in 1..fresh : a = at(j)) /\ b \in Known
      BY <1>1, <1>4, <1>7, <1>9, <2>3
    <2>4. ASSUME NEW j \in 1..fresh, a = at(j), NEW k \in 1..fresh, b = at(k)
          PROVE  a + poly_bytes <= b
      <3>1. at(j) \in Nat /\ at(k) \in Nat /\ at(j) < at(k)
        BY <1>4, <1>9, <2>4
      <3>2. CASE j < k
        BY <1>5, <2>4, <3>2
      <3>3. CASE k < j
        BY <1>1, <1>5, <3>1, <3>3
      <3>4. CASE j = k
        BY <3>1, <3>4
      <3>5. QED BY <1>1, <3>2, <3>3, <3>4
    <2>5. QED BY <1>3, <2>1, <2>2, <2>3, <2>4
  <1>10. QED BY <1>1, <1>2, <1>8, <1>9 DEF Tiled

(* While every ring dimension that is set is the same, the addresses stay a tiling. *)
LEMMA TiledStep ==
  ASSUME NEW size, PolySizes = {size}, Inv, Tiled, [Next]_vars
  PROVE  Tiled'
  <1>1. ASSUME NEW n \in PolySizes, set_polynomial_size(n) PROVE Tiled'
    <2>1. CASE DrainsPool(n)
      <3>1. poly_bytes = 0
        BY <2>1 DEF DrainsPool, Inv, TypeOK
      <3>2. alloc_set' = {} /\ pool_free' = <<>>
        BY <1>1, <2>1, <3>1 DEF set_polynomial_size, Tiled, Known
      <3>3. QED BY <3>2 DEF Tiled, Known, Range
    <2>2. CASE ~DrainsPool(n)
      BY <1>1, <2>2 DEF set_polynomial_size, DrainsPool, Tiled, Known
    <2>3. QED BY <2>1, <2>2
  <1>2. CASE reset
    BY <1>2 DEF reset, Tiled, Known, Range
  <1>3. CASE Quiet
    BY <1>3 DEF Quiet, Tiled
  <1>4. CASE UNCHANGED vars
    BY <1>4 DEF vars, Tiled, Known
  <1>5. QED BY <1>1, <1>2, <1>3, <1>4, KindsOfStep, TiledReserve

LEMMA TiledInvariant ==
  ASSUME NEW size, PolySizes = {size}
  PROVE  Spec => [](Inv /\ Tiled)
  <1>1. Init => Tiled
    BY DEF Init, Tiled, Known, Range
  <1>2. Inv /\ Tiled /\ [Next]_vars => Tiled'
    BY TiledStep
  <1>3. QED BY <1>1, <1>2, InitInv, NextInv, PTL DEF Spec

(* While every ring dimension that is set is the same, no two live allocations overlap: *)
(* the addresses are next_addr_ + k * poly_bytes_ and none is given out twice.          *)
THEOREM DisjointAllocations ==
  ASSUME NEW size, PolySizes = {size}
  PROVE  Spec => []NonOverlap
  <1>1. Tiled => NonOverlap
    BY DEF Tiled, Known, NonOverlap
  <1>2. QED BY <1>1, TiledInvariant, PTL

-----------------------------------------------------------------------------
(* While every ring dimension that is set is the same, the allocator implements           *)
(* DeviceHeap, and no coefficient of the address space is lost.  Inv says that what is    *)
(* reserved was not live and has no bytes, Tiled that it overlaps nothing.                *)

shown == <<alloc_set, shadow_data, poly_bytes>>

-----------------------------------------------------------------------------
(* Refinement, one lemma for each kind of step. *)

LEMMA SizeHeap ==
  ASSUME NEW size, PolySizes = {size}, Inv, Tiled,
         NEW n \in PolySizes, set_polynomial_size(n)
  PROVE  [Heap!Next]_shown
  <1>1. UNCHANGED <<alloc_set, shadow_data>> /\ poly_bytes' = n
    BY SizeKeepsLive DEF set_polynomial_size
  <1>2. n \in Nat \ {0} /\ poly_bytes \in {n, 0}
    BY PolySizesAssumption DEF Inv, TypeOK
  <1>3. CASE poly_bytes = n
    BY <1>1, <1>3 DEF shown
  <1>4. CASE poly_bytes = 0
    BY <1>1, <1>2, <1>4 DEF Heap!Next, Heap!Configure
  <1>5. QED BY <1>2, <1>3, <1>4

(* What is reserved is apart from the rest by the tiling, and has no bytes. *)
LEMMA ReserveHeap ==
  ASSUME Inv, Inv', Tiled', NEW n \in Nat, poly_bytes # 0, reserve(n)
  PROVE  Heap!Next
  <1>1. alloc_set \subseteq alloc_set' /\ UNCHANGED <<shadow_data, poly_bytes>>
    BY NoDesync DEF reserve
  <1>2. alloc_set' \subseteq Nat
    BY DEF Inv, TypeOK
  <1>3. ASSUME NEW a \in alloc_set' \ alloc_set, NEW b \in alloc_set', a # b
        PROVE  Heap!Apart(a, b)
    <2>1. a \in Nat /\ b \in Nat /\ a \in Known' /\ b \in Known'
      BY <1>2 DEF Known
    <2>2. a < b \/ b < a
      BY <1>3, <2>1
    <2>3. QED BY <1>1, <2>1, <2>2 DEF Tiled, Heap!Apart
  <1>4. QED BY <1>1, <1>2, <1>3 DEF Heap!Next, Heap!Acquire

LEMMA ReleaseHeap ==
  ASSUME NEW freed, freed \subseteq alloc_set, alloc_set' = alloc_set \ freed,
         shadow_data' = Released(freed), UNCHANGED poly_bytes
  PROVE  Heap!Next
  <1>1. alloc_set \ alloc_set' = freed
    OBVIOUS
  <1>2. shadow_data' = Heap!Drop(shadow_data, alloc_set \ alloc_set')
    BY <1>1 DEF Released, Drop, Heap!Drop, Restrict, Heap!Restrict
  <1>3. QED BY <1>2 DEF Heap!Next, Heap!Release

LEMMA StoreHeap ==
  ASSUME NEW a \in alloc_set, NEW g, DOMAIN g = {a}, g = [x \in {a} |-> g[a]],
         g[a] \in [1..poly_bytes -> Words], set_shadow(Put(shadow_data, g))
  PROVE  Heap!Next
  <1>1. shadow_data' = Heap!Put(shadow_data, [x \in {a} |-> g[a]])
    BY DEF set_shadow, Put, Heap!Put
  <1>2. Heap!Store
    BY <1>1 DEF Heap!Store, set_shadow
  <1>3. QED BY <1>2 DEF Heap!Next

(* What a write leaves at its address is a whole polynomial, whatever was there. *)
LEMMA WholePolynomial ==
  ASSUME TypeOK, NEW a, NEW new \in Seq(Words)
  PROVE  Overlay(Staged(a), new) \in [1..poly_bytes -> Words]
  <1>1. poly_bytes \in Nat
    BY PolyBytesNat
  <1>2. Len(Staged(a)) = poly_bytes
    BY <1>1 DEF Staged, Zeros
  <1>3. Overlay(Staged(a), new) \in Seq(Words)
    BY StagedWords
  <1>4. DOMAIN Overlay(Staged(a), new) = 1..poly_bytes
    BY <1>2 DEF Overlay
  <1>5. \A i \in 1..poly_bytes : Overlay(Staged(a), new)[i] \in Words
    BY <1>3, <1>4, ElementOfSeq, LenProperties
  <1>6. QED BY <1>4, <1>5 DEF Overlay

LEMMA WriteHeap ==
  ASSUME Inv, NEW a \in alloc_set, NEW new \in Seq(Words),
         set_shadow(Written([x \in {a} |-> new]))
  PROVE  Heap!Next
  <1> DEFINE g == [x \in {a} |-> Overlay(Staged(x), new)]
  <1>1. Written([x \in {a} |-> new]) = Put(shadow_data, g)
    BY DEF Written
  <1>2. g[a] \in [1..poly_bytes -> Words]
    BY WholePolynomial DEF Inv
  <1>3. DOMAIN g = {a} /\ g = [x \in {a} |-> g[a]]
    OBVIOUS
  <1> HIDE DEF g
  <1>4. QED BY <1>1, <1>2, <1>3, StoreHeap

LEMMA UpdateHeap ==
  ASSUME Inv, NEW a \in alloc_set, NEW v \in Seq(Words), update_shadow(a, v)
  PROVE  Heap!Next
  <1> DEFINE p == [i \in 1..poly_bytes |-> IF i <= Len(v) THEN v[i] ELSE 0]
             g == [x \in {a} |-> p]
  <1>1. poly_bytes \in Nat /\ Len(v) \in Nat
    BY PolyBytesNat, LenProperties DEF Inv
  <1>2. p \in [1..poly_bytes -> Words]
    BY <1>1, ElementOfSeq, WordsAssumption
  <1>3. set_shadow(Put(shadow_data, g))
    BY DEF update_shadow
  <1> HIDE DEF p
  <1>4. DOMAIN g = {a} /\ g[a] = p
    OBVIOUS
  <1>5. g = [x \in {a} |-> g[a]]
    OBVIOUS
  <1> HIDE DEF g
  <1>6. QED BY <1>2, <1>3, <1>4, <1>5, StoreHeap

(* A read, a refusal and a host pointer show nothing; the evicting read is one Evict. *)
LEMMA ExtractHeap ==
  ASSUME NEW a, NEW n, extract_polynomial_components(a, n)
  PROVE  [Heap!Next]_shown
  <1>1. CASE Evicts(err')
    <2>1. a \in alloc_set
      BY <1>1 DEF extract_polynomial_components, ComponentsError, Evicts
    <2>2. shadow_data' = Heap!Drop(shadow_data, {a})
      BY <1>1 DEF extract_polynomial_components, Drop, Heap!Drop, Restrict, Heap!Restrict
    <2>3. Heap!Evict
      BY <2>1, <2>2 DEF Heap!Evict, extract_polynomial_components
    <2>4. QED BY <2>3 DEF Heap!Next
  <1>2. CASE ~Evicts(err')
    BY <1>2 DEF extract_polynomial_components, shown
  <1>3. QED BY <1>1, <1>2

LEMMA HeapStep ==
  ASSUME NEW size, PolySizes = {size}, Inv, Inv', Tiled, Tiled', [Next]_vars
  PROVE  [Heap!Next]_shown
  <1>1. PolySizes \subseteq Nat /\ Sizes \subseteq Nat
    BY PolySizesAssumption DEF Sizes
  <1>2. /\ \A e : fail(e) => UNCHANGED shown
        /\ ok => UNCHANGED shown
    BY DEF fail, ok, allocVars, shown
  <1>3. ASSUME NEW n \in Nat, NEW bytes, allocate(bytes) \/ allocate_many(n, bytes)
        PROVE  [Heap!Next]_shown
    <2>1. \/ ok
          \/ fail(validate_poly_size(bytes))
          \/ \E k \in Nat : poly_bytes # 0 /\ reserve(k)
      BY <1>3 DEF allocate, allocate_many, validate_poly_size
    <2>2. QED BY <1>2, <2>1, ReserveHeap
  <1>4. ASSUME NEW a, free(a) PROVE [Heap!Next]_shown
    BY <1>2, <1>4, ReleaseHeap DEF free
  <1>5. ASSUME NEW addrs \in Groups, free_many(addrs) PROVE [Heap!Next]_shown
    BY <1>5, FreedInOrder, ReleaseHeap
  <1>6. ASSUME NEW a, NEW n \in PolySizes, NEW src \in Buffers(n), copy_h2d(a, src)
        PROVE  [Heap!Next]_shown
    <2>1. src \in Seq(Words)
      <3>1. PICK k \in 0..n : src \in [1..k -> Words]
        BY DEF Buffers
      <3>2. k \in Nat
        BY <1>1, <3>1
      <3>3. QED BY <3>1, <3>2, TupleIsSeq
    <2>2. CASE WriteError(a, Len(src)) = "Ok"
      <3>1. a \in alloc_set
        BY <2>2 DEF WriteError
      <3>2. QED BY <1>6, <2>1, <2>2, <3>1, WriteHeap DEF copy_h2d
    <2>3. CASE WriteError(a, Len(src)) # "Ok"
      BY <1>2, <1>6, <2>3 DEF copy_h2d
    <2>4. QED BY <2>2, <2>3
  <1>7. ASSUME NEW a, NEW w \in Words, NEW n \in Sizes, memset(a, w, n)
        PROVE  [Heap!Next]_shown
    <2>1. Fill(w, n) \in Seq(Words)
      <3>1. Fill(w, n) \in [1..n -> Words]
        BY DEF Fill
      <3>2. QED BY <1>1, <3>1, TupleIsSeq
    <2>2. CASE WriteError(a, n) = "Ok"
      <3>1. a \in alloc_set
        BY <2>2 DEF WriteError
      <3>2. QED BY <1>7, <2>1, <2>2, <3>1, WriteHeap DEF memset
    <2>3. CASE WriteError(a, n) # "Ok"
      BY <1>2, <1>7, <2>3 DEF memset
    <2>4. QED BY <2>2, <2>3
  <1>8. ASSUME NEW a, NEW n \in PolySizes, NEW v \in [1..n -> Words], update_shadow(a, v)
        PROVE  [Heap!Next]_shown
    <2>1. v \in Seq(Words)
      BY <1>1, TupleIsSeq
    <2>2. CASE a \in alloc_set
      BY <1>8, <2>1, <2>2, UpdateHeap
    <2>3. CASE a \notin alloc_set
      BY <1>2, <1>8, <2>3 DEF update_shadow
    <2>4. QED BY <2>2, <2>3
  <1>9. ASSUME NEW a, NEW n, copy_to_host(a, n) PROVE [Heap!Next]_shown
    BY <1>9 DEF copy_to_host, allocVars, shown
  <1>10. ASSUME NEW p, register_host_pointer(p) \/ unregister_host_pointer(p)
         PROVE  [Heap!Next]_shown
    BY <1>10 DEF register_host_pointer, unregister_host_pointer, shown
  <1>11. CASE reset
    BY <1>11 DEF reset, Heap!Next, Heap!Reset, Empty, Heap!Empty
  <1>12. CASE UNCHANGED vars
    BY <1>12 DEF vars, shown
  <1>13. 1 \in Nat /\ \A n \in 0..MaxGroup : n \in Nat
    BY MaxGroupAssumption
  <1> DEFINE Goal == [Heap!Next]_shown
  <1> HIDE DEF Goal
  <1>14. /\ \A n \in PolySizes : set_polynomial_size(n) => Goal
         /\ \A a \in DevAddrs, n \in Sizes : extract_polynomial_components(a, n) => Goal
    BY SizeHeap, ExtractHeap DEF Goal
  <1>15. /\ \A bytes \in Sizes : allocate(bytes) => Goal
         /\ \A n \in 0..MaxGroup, bytes \in Sizes : allocate_many(n, bytes) => Goal
         /\ \A a \in DevAddrs \cup {Null} : free(a) => Goal
         /\ \A addrs \in Groups : free_many(addrs) => Goal
    BY <1>3, <1>4, <1>5, <1>13 DEF Goal
  <1>16. /\ \A a \in DevAddrs, n \in PolySizes : \A src \in Buffers(n) : copy_h2d(a, src) => Goal
         /\ \A a \in DevAddrs, w \in Words, n \in Sizes : memset(a, w, n) => Goal
         /\ \A a \in DevAddrs, n \in Sizes : copy_to_host(a, n) => Goal
         /\ \A a \in DevAddrs, n \in PolySizes : \A v \in [1..n -> Words] : update_shadow(a, v) => Goal
         /\ \A p \in Hosts : register_host_pointer(p) \/ unregister_host_pointer(p) => Goal
    BY <1>6, <1>7, <1>8, <1>9, <1>10 DEF Goal
  <1>17. reset \/ UNCHANGED vars => Goal
    BY <1>11, <1>12 DEF Goal
  <1>18. Goal
    BY <1>14, <1>15, <1>16, <1>17 DEF Next
  <1>19. QED BY <1>18 DEF Goal

-----------------------------------------------------------------------------
(* Theorems. *)

(* With one polynomial size the allocator is what allocator.hpp:43-73 promises, however *)
(* it recycles: apart from all that is live, without bytes of an earlier lifetime.      *)
THEOREM AllocatorIsHeap ==
  ASSUME NEW size, PolySizes = {size}
  PROVE  Spec => ImplementsHeap
  <1>1. Init => Heap!Init
    BY DEF Init, Heap!Init, Empty, Heap!Empty
  <1>2. (Inv /\ Tiled) /\ (Inv /\ Tiled)' /\ [Next]_vars => [Heap!Next]_shown
    BY HeapStep
  <1>3. shown = <<alloc_set, shadow_data, poly_bytes>>
    BY DEF shown
  <1>4. QED BY <1>1, <1>2, TiledInvariant, PTL DEF Spec, ImplementsHeap, Heap!Spec, Heap!heap, shown

(* A heap keeps its polynomials whole. *)
LEMMA SizedStep ==
  ASSUME Inv, Tiled, ShadowSized, [Heap!Next]_shown
  PROVE  ShadowSized'
  <1> poly_bytes \in Nat
    BY PolyBytesNat DEF Inv
  <1>1. CASE Heap!Configure
    <2>1. DOMAIN shadow_data = {}
      BY <1>1 DEF Heap!Configure, Tiled, Known, Inv, TypeOK
    <2>2. QED BY <1>1, <2>1 DEF Heap!Configure, ShadowSized
  <1>2. CASE Heap!Acquire
    BY <1>2 DEF Heap!Acquire, ShadowSized
  <1>3. CASE Heap!Release \/ Heap!Evict \/ Heap!Reset
    BY <1>3 DEF Heap!Release, Heap!Evict, Heap!Reset, Heap!Drop, Heap!Restrict, Heap!Empty, ShadowSized
  <1>4. CASE Heap!Store
    <2>1. PICK a \in alloc_set, p \in [1..poly_bytes -> Words] :
            shadow_data' = Heap!Put(shadow_data, [x \in {a} |-> p])
      BY <1>4 DEF Heap!Store
    <2>2. Len(p) = poly_bytes
      OBVIOUS
    <2>3. QED BY <1>4, <2>1, <2>2 DEF Heap!Store, Heap!Put, ShadowSized
  <1>5. CASE UNCHANGED shown
    BY <1>5 DEF shown, ShadowSized
  <1>6. QED BY <1>1, <1>2, <1>3, <1>4, <1>5 DEF Heap!Next

(* With one polynomial size every shadow is one polynomial long (allocator.cpp:219-222). *)
THEOREM ShadowsAreWhole ==
  ASSUME NEW size, PolySizes = {size}
  PROVE  Spec => []ShadowSized
  <1>1. Init => ShadowSized
    BY DEF Init, ShadowSized, Empty
  <1>2. (Inv /\ Tiled) /\ (Inv /\ Tiled)' /\ ShadowSized /\ [Next]_vars => ShadowSized'
    BY HeapStep, SizedStep
  <1>3. QED BY <1>1, <1>2, TiledInvariant, PTL DEF Spec

-----------------------------------------------------------------------------
(* Nothing is lost. *)

Covered == Accounted /\ (poly_bytes = 0 => next_addr = HbmBase)

(* Below n polynomials of length p, each coefficient is in one of them. *)
LEMMA InSomePolynomial ==
  ASSUME NEW x \in Nat, NEW p \in Nat \ {0}, NEW n \in Nat, x < n * p
  PROVE  \E j \in 1..n : (j - 1) * p <= x /\ x < (j - 1) * p + p
  <1> DEFINE q == x \div p
  <1>1. q \in Nat /\ q * p <= x /\ x < q * p + p
    OBVIOUS
  <1> HIDE DEF q
  <1>2. q < n
    <2>1. SUFFICES ASSUME n <= q PROVE FALSE
      BY <1>1
    <2>2. q * p = n * p + (q - n) * p
      BY <1>1
    <2>3. q - n \in Nat
      BY <1>1, <2>1
    <2>4. (q - n) * p >= 0
      BY <2>3
    <2>5. QED BY <1>1, <2>2, <2>4
  <1>3. q + 1 \in 1..n /\ (q + 1) - 1 = q
    BY <1>1, <1>2
  <1>4. QED BY <1>1, <1>3

(* A reservation: what it recycles was pooled, and what is fresh fills the new space. *)
LEMMA CoveredReserve ==
  ASSUME Inv, Covered, NEW n \in Nat, poly_bytes # 0, reserve(n)
  PROVE  Covered'
  <1> DEFINE fresh == n - Recycled(n)
  <1>1. /\ next_addr \in Nat /\ HbmBase \in Nat /\ poly_bytes \in Nat \ {0}
        /\ Recycled(n) \in 0..Len(pool_free) /\ Recycled(n) \in Nat /\ fresh \in Nat
        /\ Len(pool_free) \in Nat /\ DOMAIN pool_free = 1..Len(pool_free)
    BY PolyBytesNat, NoDesync, LenProperties, AddrAssumption DEF Inv, TypeOK
  <1>2. /\ alloc_set' = alloc_set \cup Range(Reserved(n))
        /\ pool_free' = SubSeq(pool_free, 1, Len(pool_free) - Recycled(n))
        /\ next_addr' = next_addr + fresh * poly_bytes
        /\ poly_bytes' = poly_bytes
    BY NoDesync DEF reserve
  <1>3. DOMAIN Reserved(n) = 1..n
    BY DEF Reserved
  <1>4. Known \subseteq Known'
    <2>1. ASSUME NEW i \in DOMAIN pool_free PROVE pool_free[i] \in Known'
      <3>1. CASE i <= Len(pool_free) - Recycled(n)
        <4>1. i \in DOMAIN pool_free' /\ pool_free'[i] = pool_free[i]
          BY <1>1, <1>2, <3>1, RestOfPool
        <4>2. QED BY <4>1 DEF Known, Range
      <3>2. CASE i > Len(pool_free) - Recycled(n)
        <4> DEFINE k == Len(pool_free) + 1 - i
        <4>1. k \in 1..n /\ k <= Recycled(n) /\ Len(pool_free) + 1 - k = i
          <5>1. i \in 1..Len(pool_free) /\ Recycled(n) <= n
            BY <1>1, <2>1, NoDesync
          <5>2. QED BY <1>1, <3>2, <5>1
        <4> HIDE DEF k
        <4>2. Reserved(n)[k] = pool_free[i]
          BY <4>1 DEF Reserved, RecycledAddr
        <4>3. QED BY <1>2, <1>3, <4>1, <4>2 DEF Known, Range
      <3>3. QED BY <1>1, <3>1, <3>2
    <2>2. QED BY <1>2, <2>1 DEF Known, Range
  <1>5. ASSUME NEW j \in 1..fresh PROVE next_addr + (j - 1) * poly_bytes \in Known'
    <2>1. j + Recycled(n) \in 1..n /\ ~(j + Recycled(n) <= Recycled(n))
          /\ (j + Recycled(n)) - Recycled(n) = j
      BY <1>1
    <2>2. Reserved(n)[j + Recycled(n)] = next_addr + (j - 1) * poly_bytes
      BY <2>1 DEF Reserved, FreshAddr
    <2>3. QED BY <1>2, <1>3, <2>1, <2>2 DEF Known, Range
  <1> HIDE DEF fresh
  <1>6. fresh * poly_bytes \in Nat
    BY <1>1
  <1>7. ASSUME NEW x \in HbmBase .. (next_addr' - 1)
        PROVE  \E a \in Known' : a <= x /\ x < a + poly_bytes
    <2>1. CASE x < next_addr
      <3>1. x \in HbmBase .. (next_addr - 1)
        BY <1>1, <1>2, <1>6, <2>1
      <3>2. QED BY <1>4, <3>1 DEF Covered, Accounted, Known
    <2>2. CASE x >= next_addr
      <3>1. x - next_addr \in Nat /\ x - next_addr < fresh * poly_bytes
        BY <1>1, <1>2, <1>6, <2>2
      <3>2. PICK j \in 1..fresh : /\ (j - 1) * poly_bytes <= x - next_addr
                                  /\ x - next_addr < (j - 1) * poly_bytes + poly_bytes
        BY <1>1, <3>1, InSomePolynomial
      <3> DEFINE offset == (j - 1) * poly_bytes
      <3>3. offset \in Nat
        BY <1>1
      <3>4. offset <= x - next_addr /\ x - next_addr < offset + poly_bytes /\ next_addr + offset \in Known'
        BY <1>5, <3>2
      <3> HIDE DEF offset
      <3>5. next_addr + offset <= x /\ x < (next_addr + offset) + poly_bytes
        BY <1>1, <3>1, <3>3, <3>4
      <3>6. QED BY <3>4, <3>5
    <2>3. QED BY <1>1, <1>2, <1>6, <2>1, <2>2
  <1>8. QED BY <1>2, <1>7 DEF Covered, Accounted, Known

LEMMA CoveredStep ==
  ASSUME NEW size, PolySizes = {size}, Inv, Covered, [Next]_vars
  PROVE  Covered'
  <1>1. ASSUME NEW n \in PolySizes, set_polynomial_size(n) PROVE Covered'
    <2>1. n \in Nat \ {0} /\ poly_bytes \in {n, 0} /\ poly_bytes' = n /\ next_addr' = next_addr
      BY <1>1, PolySizesAssumption DEF set_polynomial_size, Inv, TypeOK
    <2>2. CASE poly_bytes = 0
      BY <2>1, <2>2, AddrAssumption DEF Covered, Accounted
    <2>3. CASE poly_bytes = n
      <3>1. UNCHANGED <<alloc_set, pool_free>>
        BY <1>1, <2>3 DEF set_polynomial_size, DrainsPool
      <3>2. QED BY <2>1, <2>3, <3>1 DEF Covered, Accounted
    <2>4. QED BY <2>1, <2>2, <2>3
  <1>2. CASE reset
    BY <1>2, AddrAssumption DEF reset, Covered, Accounted
  <1>3. CASE Quiet
    BY <1>3 DEF Quiet, Covered, Accounted, Known
  <1>4. CASE UNCHANGED vars
    BY <1>4 DEF vars, Covered, Accounted
  <1>5. QED BY <1>1, <1>2, <1>3, <1>4, KindsOfStep, CoveredReserve

(* With one polynomial size every coefficient below the bump pointer is in a live or a   *)
(* pooled polynomial: no sequence of calls leaks any (allocator.cpp:74-163).             *)
THEOREM NothingLeaks ==
  ASSUME NEW size, PolySizes = {size}
  PROVE  Spec => []Accounted
  <1>1. Init => Covered
    BY AddrAssumption DEF Init, Covered, Accounted
  <1>2. Inv /\ Covered /\ [Next]_vars => Covered'
    BY CoveredStep
  <1>3. Covered => Accounted
    BY DEF Covered
  <1>4. QED BY <1>1, <1>2, <1>3, InitInv, NextInv, PTL DEF Spec
=============================================================================
