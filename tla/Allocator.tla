----------------------------- MODULE Allocator -----------------------------
(***************************************************************************)
(* DeviceAllocator (src/src/core/allocator.cpp): the device address space, *)
(* its free list, and the sparse shadow storage that backs H2D, memset,    *)
(* D2H and the outputs of a flush.                                         *)
(*                                                                         *)
(* Sizes and addresses are counted in coefficients (8 bytes), the grain of *)
(* shadow_data_: poly_bytes here is poly_bytes_ / sizeof(uint64_t).  Every *)
(* method runs under mutex_, so a method is one action.  `err` is what the *)
(* last method returned; the failures that only log leave the rest alone.  *)
(***************************************************************************)
EXTENDS Integers, Tables

CONSTANTS
  Words,      \* values of one coefficient; 0 is the fill value
  PolySizes,  \* sizes set_polynomial_size is asked for
  Hosts,      \* pointers posix_memalign may return to hazeHostAlloc
  HbmBase,    \* kHbmBase, the first device address
  MaxAddr,    \* bound: last device address of the model
  MaxGroup    \* kMaxCiphertextModuli, the longest group one call may name

ASSUME WordsAssumption == 0 \in Words
ASSUME PolySizesAssumption == PolySizes \subseteq Nat \ {0}
ASSUME AddrAssumption == HbmBase \in Nat \ {0} /\ MaxAddr \in Nat
ASSUME MaxGroupAssumption == MaxGroup \in Nat \ {0}

VARIABLES
  alloc_set,    \* live device addresses
  shadow_data,  \* address -> coefficients; no entry: no materialised bytes
  pool_free,    \* free list, recycled from the back
  host_set,     \* pointers handed out by hazeHostAlloc
  poly_bytes,   \* the one allocation size; 0 until a ring dimension is set
  next_addr,    \* bump pointer for fresh allocations
  err           \* result of the last method

allocVars == <<alloc_set, shadow_data, pool_free, host_set, poly_bytes, next_addr>>
vars == <<alloc_set, shadow_data, pool_free, host_set, poly_bytes, next_addr, err>>

Null == 0
DevAddrs == HbmBase .. MaxAddr

(* Every sequence of at most n words: what a transfer of up to n coefficients carries. *)
Buffers(n) == UNION {[1..k -> Words] : k \in 0..n}

Errors == {"Ok", "InvalidArgument", "NotConfigured", "UnknownAddress", "AllocTooSmall",
           "NoData", "ShadowSizeMismatch", "PoolMapDesync", "OutputNotFlushed",
           "SourceUnavailable", "UnsupportedDataFormat", "BackendReplayFailed",
           "BridgeHookFailed", "BackendOutputMissing", "MissingPolyMapBinding"}

Init ==
  /\ alloc_set = {}
  /\ shadow_data = Empty
  /\ pool_free = <<>>
  /\ host_set = {}
  /\ poly_bytes = 0
  /\ next_addr = HbmBase
  /\ err = "Ok"

-----------------------------------------------------------------------------
(* Sizing. *)

(* A size equal to the current one leaves the pool alone. *)
DrainsPoolAlways(n) == TRUE   \* mutation
DrainsPool(n) == n # poly_bytes

(* clear_pool_locked, inlined: the pooled addresses lose liveness and shadow, should   *)
(* they have any.                                                                      *)
set_polynomial_size(n) ==
  /\ poly_bytes' = n
  /\ IF DrainsPool(n)
     THEN /\ alloc_set' = alloc_set \ Range(pool_free)
          /\ shadow_data' = Drop(shadow_data, Range(pool_free))
          /\ pool_free' = <<>>
     ELSE UNCHANGED <<alloc_set, shadow_data, pool_free>>
  /\ err' = "Ok"
  /\ UNCHANGED <<host_set, next_addr>>

validate_poly_size(bytes) ==
  IF poly_bytes = 0 THEN "NotConfigured"
  ELSE IF bytes # poly_bytes THEN "AllocTooSmall" ELSE "Ok"

-----------------------------------------------------------------------------
(* Reservation. *)

Recycled(n) == IF n < Len(pool_free) THEN n ELSE Len(pool_free)
RecycledFromFront(i) == pool_free[i]   \* mutation: not the end that is popped
RecycledAddr(i) == pool_free[Len(pool_free) + 1 - i]
FreshWithoutStride(j) == next_addr + (j - 1)   \* mutation
FreshAddr(j) == next_addr + (j - 1) * poly_bytes

(* The reservations of one call, in order: off the back of the pool while it lasts,   *)
(* then from the bump pointer.                                                        *)
Reserved(n) ==
  [i \in 1..n |-> IF i <= Recycled(n) THEN RecycledAddr(i) ELSE FreshAddr(i - Recycled(n))]

(* Reservations that find their recycled address live, in the set or from this call. *)
Desynced(n) ==
  {i \in 1..Recycled(n) : \/ RecycledAddr(i) \in alloc_set
                          \/ \E j \in 1..(i - 1) : RecycledAddr(j) = RecycledAddr(i)}

(* The shadows once the addresses of S are freed. *)
KeptOnRelease(S) == shadow_data   \* mutation: the bytes outlive the allocation
Released(S) == Drop(shadow_data, S)

(* n calls of allocate_one_locked.  At the first live recycled address b the call      *)
(* stops: b itself has left the pool, and the b-1 before it are freed again in order.  *)
reserve(n) ==
  \/ /\ Desynced(n) = {}
     /\ next_addr + (n - Recycled(n)) * poly_bytes <= MaxAddr + 1
     /\ alloc_set' = alloc_set \cup Range(Reserved(n))
     /\ pool_free' = SubSeq(pool_free, 1, Len(pool_free) - Recycled(n))
     /\ next_addr' = next_addr + (n - Recycled(n)) * poly_bytes
     /\ err' = "Ok"
     /\ UNCHANGED <<shadow_data, host_set, poly_bytes>>
  \/ \E b \in Desynced(n) :
       /\ \A i \in Desynced(n) : b <= i
       /\ pool_free' = SubSeq(pool_free, 1, Len(pool_free) - b)
                         \o [i \in 1..(b - 1) |-> RecycledAddr(i)]
       /\ shadow_data' = Released({RecycledAddr(i) : i \in 1..(b - 1)})
       /\ err' = "PoolMapDesync"
       /\ UNCHANGED <<alloc_set, host_set, poly_bytes, next_addr>>

fail(e) == err' = e /\ UNCHANGED allocVars
ok == err' = "Ok" /\ UNCHANGED allocVars

allocate(bytes) ==
  IF validate_poly_size(bytes) = "Ok" THEN reserve(1) ELSE fail(validate_poly_size(bytes))

(* An empty group reserves nothing, even before a ring dimension is set. *)
allocate_many(n, bytes) ==
  IF n = 0 THEN ok
  ELSE IF validate_poly_size(bytes) = "Ok" THEN reserve(n) ELSE fail(validate_poly_size(bytes))

-----------------------------------------------------------------------------
(* Release. *)

(* free_one_locked for every non-null entry, carrying on past failures: an entry that  *)
(* is not live, or whose address an earlier entry freed, is the UnknownAddress that    *)
(* the call returns.  `pushed` lists the freed addresses in the order they are pooled. *)
free_many(addrs) ==
  LET freed == Range(addrs) \cap alloc_set
      failed == \E i \in DOMAIN addrs : /\ addrs[i] # Null
                                        /\ \/ addrs[i] \notin alloc_set
                                           \/ FirstAt(addrs, addrs[i]) < i
  IN \E pushed \in Bijection(1..Cardinality(freed), freed) :
       /\ \A i, j \in DOMAIN pushed :
            i < j => FirstAt(addrs, pushed[i]) < FirstAt(addrs, pushed[j])
       /\ alloc_set' = alloc_set \ freed
       /\ shadow_data' = Released(freed)
       /\ pool_free' = pool_free \o pushed
       /\ err' = IF failed THEN "UnknownAddress" ELSE "Ok"
       /\ UNCHANGED <<host_set, poly_bytes, next_addr>>

(* hazeFree(nullptr) is a success; any other address that is not live is refused. *)
free(a) ==
  \/ a = Null /\ ok
  \/ a # Null /\ a \notin alloc_set /\ fail("UnknownAddress")
  \/ /\ a \in alloc_set
     /\ alloc_set' = alloc_set \ {a}
     /\ shadow_data' = Released({a})
     /\ pool_free' = Append(pool_free, a)
     /\ err' = "Ok"
     /\ UNCHANGED <<host_set, poly_bytes, next_addr>>

-----------------------------------------------------------------------------
(* Shadow storage. *)

Zeros(n) == [i \in 1..n |-> 0]

StagedAsIs(a) == IF a \in DOMAIN shadow_data THEN shadow_data[a] ELSE <<>>   \* mutation

(* The entry a write starts from: the old bytes if they have the current size. *)
Staged(a) ==
  IF a \in DOMAIN shadow_data /\ Len(shadow_data[a]) = poly_bytes
  THEN shadow_data[a] ELSE Zeros(poly_bytes)

Overlay(old, new) == [i \in 1..Len(old) |-> IF i <= Len(new) THEN new[i] ELSE old[i]]

WriteErrorIgnoringLiveness(a, count) ==   \* mutation
  IF count > poly_bytes THEN "AllocTooSmall" ELSE "Ok"

WriteError(a, count) ==
  IF a \notin alloc_set THEN "UnknownAddress"
  ELSE IF count > poly_bytes THEN "AllocTooSmall" ELSE "Ok"

(* The shadows after each address a of f has f[a] written over its start. *)
Written(f) == Put(shadow_data, [a \in DOMAIN f |-> Overlay(Staged(a), f[a])])

set_shadow(f) == /\ shadow_data' = f
                 /\ err' = "Ok"
                 /\ UNCHANGED <<alloc_set, pool_free, host_set, poly_bytes, next_addr>>

copy_h2d(a, src) ==
  IF WriteError(a, Len(src)) = "Ok"
  THEN set_shadow(Written([x \in {a} |-> src]))
  ELSE fail(WriteError(a, Len(src)))

Fill(w, count) == [i \in 1..count |-> w]

memset(a, w, count) ==
  IF WriteError(a, count) = "Ok"
  THEN set_shadow(Written([x \in {a} |-> Fill(w, count)]))
  ELSE fail(WriteError(a, count))

(* Truncated or zero-padded to the current size. *)
update_shadow(a, values) ==
  IF a \in alloc_set
  THEN set_shadow(Put(shadow_data, [x \in {a} |->
                    [i \in 1..poly_bytes |-> IF i <= Len(values) THEN values[i] ELSE 0]]))
  ELSE fail("UnknownAddress")

copy_to_host_error(a, count) ==
  IF WriteError(a, count) # "Ok" THEN WriteError(a, count)
  ELSE IF a \notin DOMAIN shadow_data THEN "OutputNotFlushed" ELSE "Ok"

(* A pure read. *)
copy_to_host(a, count) == err' = copy_to_host_error(a, count) /\ UNCHANGED allocVars

(* Shared by the evicting and the non-evicting read of a whole polynomial. *)
ComponentsError(a, ring_dim) ==
  IF ring_dim = 0 THEN "NotConfigured"
  ELSE IF a \notin alloc_set THEN "UnknownAddress"
  ELSE IF poly_bytes < ring_dim THEN "AllocTooSmall"
  ELSE IF a \notin DOMAIN shadow_data THEN "NoData"
  ELSE IF Len(shadow_data[a]) # ring_dim THEN "ShadowSizeMismatch"
  ELSE "Ok"

(* The entry is gone before its length is looked at. *)
Evicts(e) == e \in {"Ok", "ShadowSizeMismatch"}

extract_polynomial_components(a, ring_dim) ==
  /\ err' = ComponentsError(a, ring_dim)
  /\ shadow_data' = IF Evicts(err') THEN Drop(shadow_data, {a}) ELSE shadow_data
  /\ UNCHANGED <<alloc_set, pool_free, host_set, poly_bytes, next_addr>>

-----------------------------------------------------------------------------
(* Host pointers and reset. *)

register_host_pointer(p) ==
  /\ host_set' = host_set \cup {p}
  /\ err' = "Ok"
  /\ UNCHANGED <<alloc_set, shadow_data, pool_free, poly_bytes, next_addr>>

unregister_host_pointer(p) ==
  /\ host_set' = host_set \ {p}
  /\ err' = "Ok"
  /\ UNCHANGED <<alloc_set, shadow_data, pool_free, poly_bytes, next_addr>>

reset ==
  /\ alloc_set' = {}
  /\ shadow_data' = Empty
  /\ pool_free' = <<>>
  /\ host_set' = {}
  /\ poly_bytes' = 0
  /\ next_addr' = HbmBase
  /\ err' = "Ok"

-----------------------------------------------------------------------------
Groups == UNION {[1..n -> DevAddrs \cup {Null}] : n \in 0..MaxGroup}
Sizes == PolySizes \cup {0}

Next ==
  \/ \E n \in PolySizes : set_polynomial_size(n)
  \/ \E bytes \in Sizes : allocate(bytes)
  \/ \E n \in 0..MaxGroup, bytes \in Sizes : allocate_many(n, bytes)
  \/ \E a \in DevAddrs \cup {Null} : free(a)
  \/ \E addrs \in Groups : free_many(addrs)
  \/ \E a \in DevAddrs, n \in PolySizes : \E src \in Buffers(n) : copy_h2d(a, src)
  \/ \E a \in DevAddrs, w \in Words, n \in Sizes : memset(a, w, n)
  \/ \E a \in DevAddrs, n \in Sizes : copy_to_host(a, n)
  \/ \E a \in DevAddrs, n \in Sizes : extract_polynomial_components(a, n)
  \/ \E a \in DevAddrs, n \in PolySizes : \E v \in [1..n -> Words] : update_shadow(a, v)
  \/ \E p \in Hosts : register_host_pointer(p) \/ unregister_host_pointer(p)
  \/ reset

Spec == Init /\ [][Next]_vars
-----------------------------------------------------------------------------
(* Properties. *)

(* Types, and a shadow entry only for a live address: free, rollback and reset drop    *)
(* the entry with the liveness, and every write checks liveness first.                 *)
TypeOK ==
  /\ alloc_set \in SUBSET Nat
  /\ shadow_data \in [DOMAIN shadow_data -> Seq(Words)]
  /\ DOMAIN shadow_data \subseteq alloc_set
  /\ pool_free \in Seq(Nat)
  /\ host_set \subseteq Hosts
  /\ poly_bytes \in PolySizes \cup {0}
  /\ next_addr \in Nat
  /\ err \in Errors

(* No address is at once live and free, or twice in the free list, and the bump        *)
(* pointer is past every address ever handed out: what allocate_one_locked relies on   *)
(* to give an address to one owner.                                                    *)
PoolNotLive == Range(pool_free) \cap alloc_set = {}
PoolDistinct == \A i, j \in DOMAIN pool_free : pool_free[i] = pool_free[j] => i = j
BelowNext == /\ HbmBase <= next_addr
             /\ \A a \in alloc_set \cup Range(pool_free) : HbmBase <= a /\ a < next_addr
NoAlias == PoolNotLive /\ PoolDistinct /\ BelowNext

(* allocate_one_locked's PoolMapDesync branch (allocator.cpp:86-94) and the rollback   *)
(* of allocate_many behind it are unreachable.                                         *)
NeverDesync == err # "PoolMapDesync"

(* Two allocations of the one size poly_bytes never overlap.                           *)
NonOverlap ==
  \A a, b \in alloc_set : a < b => a + poly_bytes <= b

(* No address leaks: every coefficient below the bump pointer belongs to a live or a   *)
(* pooled polynomial, whatever sequence of calls, failed ones included, led here.      *)
Accounted ==
  \A x \in HbmBase .. (next_addr - 1) :
    \E a \in alloc_set \cup Range(pool_free) : a <= x /\ x < a + poly_bytes

(* Every shadow entry holds exactly one polynomial of the current size, so a D2H of up *)
(* to poly_bytes never reads past it and an extract never fails on its length.         *)
ShadowSized == \A a \in DOMAIN shadow_data : Len(shadow_data[a]) = poly_bytes

Heap == INSTANCE DeviceHeap WITH live <- alloc_set, bytes <- shadow_data, size <- poly_bytes

(* While one polynomial size is in use, the allocator is what allocator.hpp:43-73 says:  *)
(* whatever it recycles, grants are apart from all that is live, start without the bytes *)
(* of an earlier lifetime (allocator.cpp:107-121), and hold whole polynomials; a refused *)
(* call changes nothing.                                                                 *)
ImplementsHeap == Heap!Spec

(* A change of the polynomial size drops the free list only: clear_pool_locked, which  *)
(* erases pooled addresses from alloc_set_ and shadow_data_, takes no live allocation  *)
(* and no live bytes away.                                                             *)
ResizeKeepsLive ==
  [][poly_bytes' \notin {poly_bytes, 0} =>
       alloc_set' = alloc_set /\ shadow_data' = shadow_data]_vars
=============================================================================
