---------------------------- MODULE ThreadProofs ----------------------------
(***************************************************************************)
(* Several threads in the C API, whatever their number and the sizes,      *)
(* addresses and values they use.                                          *)
(***************************************************************************)
EXTENDS HazeThreads, SequenceTheorems, TLAPS

(* The proofs about the allocator and about the output bookkeeping, here.               *)
AP == INSTANCE AllocatorProofs
GP == INSTANCE MrpGroupsProofs WITH Addrs <- Mem!DevAddrs, bound <- DOMAIN poly_map,
                                    Bases <- {b \in Bases : Len(b) > 1}

LEMMA SameSizing ==
  \A n : Mem!set_polynomial_size(n) <=> AP!set_polynomial_size(n)
  BY DEF Mem!set_polynomial_size, AP!set_polynomial_size, Mem!DrainsPool, AP!DrainsPool,
         Mem!Range, AP!Range, Mem!Drop, AP!Drop, Mem!Restrict, AP!Restrict

LEMMA SameReservation ==
  \A n : Mem!allocate(n) <=> AP!allocate(n)
  BY DEF Mem!allocate, AP!allocate, Mem!validate_poly_size, AP!validate_poly_size,
         Mem!reserve, AP!reserve, Mem!fail, AP!fail, Mem!allocVars, AP!allocVars,
         Mem!Recycled, AP!Recycled, Mem!Reserved, AP!Reserved, Mem!Desynced, AP!Desynced,
         Mem!RecycledAddr, AP!RecycledAddr, Mem!FreshAddr, AP!FreshAddr,
         Mem!Released, AP!Released, Mem!Range, AP!Range, Mem!Drop, AP!Drop,
         Mem!Restrict, AP!Restrict

LEMMA SameRelease ==
  \A a : Mem!free(a) <=> AP!free(a)
  BY DEF Mem!free, AP!free, Mem!ok, AP!ok, Mem!fail, AP!fail, Mem!allocVars, AP!allocVars,
         Mem!Null, AP!Null, Mem!Released, AP!Released, Mem!Drop, AP!Drop, Mem!Restrict, AP!Restrict

LEMMA SameWrites ==
  /\ \A a, src : Mem!copy_h2d(a, src) <=> AP!copy_h2d(a, src)
  /\ \A a, w, n : Mem!memset(a, w, n) <=> AP!memset(a, w, n)
  /\ \A a, v : Mem!update_shadow(a, v) <=> AP!update_shadow(a, v)
  BY DEF Mem!copy_h2d, AP!copy_h2d, Mem!memset, AP!memset, Mem!update_shadow, AP!update_shadow,
         Mem!WriteError, AP!WriteError, Mem!set_shadow, AP!set_shadow, Mem!fail, AP!fail,
         Mem!allocVars, AP!allocVars, Mem!Written, AP!Written, Mem!Overlay, AP!Overlay,
         Mem!Staged, AP!Staged, Mem!Zeros, AP!Zeros, Mem!Fill, AP!Fill, Mem!Put, AP!Put

-----------------------------------------------------------------------------
(* What the allocator's methods do to device addresses and shadows. *)

MemInv == AP!Inv
DeviceOnly == alloc_set \subseteq Mem!DevAddrs /\ Mem!Range(pool_free) \subseteq Mem!DevAddrs

(* A shadow is of a live address, and a pooled address is not live. *)
LEMMA MemFacts ==
  ASSUME MemInv
  PROVE  /\ DOMAIN shadow_data \subseteq alloc_set
         /\ \A a \in DOMAIN shadow_data : shadow_data[a] \in Seq(Words)
         /\ Mem!Range(pool_free) \cap alloc_set = {}
         /\ poly_bytes \in PolySizes \cup {0} /\ poly_bytes \in Nat
         /\ HbmBase <= next_addr /\ next_addr \in Nat
         /\ pool_free \in Seq(Nat)
  BY PolySizesAssumption
  DEF MemInv, AP!Inv, AP!TypeOK, AP!NoAlias, AP!PoolNotLive, AP!BelowNext, AP!Range, Mem!Range

LEMMA SizeEffect ==
  ASSUME MemInv, DeviceOnly, NEW n \in PolySizes, Mem!set_polynomial_size(n)
  PROVE  /\ MemInv' /\ DeviceOnly'
         /\ poly_bytes' = n /\ UNCHANGED <<alloc_set, shadow_data>> /\ err' = "Ok"
  <1>1. AP!set_polynomial_size(n)
    BY SameSizing
  <1>2. MemInv'
    BY <1>1, AP!SizeStep, WordsAssumption, PolySizesAssumption, AddrAssumption, MaxGroupAssumption
    DEF MemInv
  <1>3. UNCHANGED <<alloc_set, shadow_data>>
    BY <1>1, AP!SizeKeepsLive, WordsAssumption, PolySizesAssumption, AddrAssumption,
       MaxGroupAssumption DEF MemInv
  <1>4. poly_bytes' = n /\ err' = "Ok" /\ (pool_free' = <<>> \/ pool_free' = pool_free)
    BY DEF Mem!set_polynomial_size
  <1>5. Mem!Range(<<>>) = {}
    BY DEF Mem!Range
  <1>6. DeviceOnly'
    BY <1>3, <1>4, <1>5 DEF DeviceOnly, Mem!DevAddrs, Mem!Range
  <1>7. QED BY <1>2, <1>3, <1>4, <1>6

(* An allocation grows the live set within the device, and gives out no address twice.  *)
LEMMA AllocateEffect ==
  ASSUME MemInv, DeviceOnly, NEW n, Mem!allocate(n)
  PROVE  /\ MemInv' /\ DeviceOnly'
         /\ alloc_set \subseteq alloc_set' /\ UNCHANGED <<shadow_data, poly_bytes>>
         /\ alloc_set' # alloc_set => poly_bytes # 0
  <1>1. AP!allocate(n)
    BY SameReservation
  <1>2. MemInv'
    BY <1>1, AP!AllocateStep, WordsAssumption, PolySizesAssumption, AddrAssumption,
       MaxGroupAssumption DEF MemInv
  <1>3. CASE AP!validate_poly_size(n) # "Ok"
    <2>1. UNCHANGED <<alloc_set, pool_free, shadow_data, poly_bytes>>
      BY <1>1, <1>3 DEF AP!allocate, AP!fail, AP!allocVars
    <2>2. QED BY <1>2, <2>1 DEF DeviceOnly, Mem!DevAddrs, Mem!Range
  <1>4. CASE AP!validate_poly_size(n) = "Ok"
    <2>1. poly_bytes # 0 /\ AP!reserve(1)
      BY <1>1, <1>4 DEF AP!allocate, AP!validate_poly_size
    <2> DEFINE fresh == 1 - AP!Recycled(1)
               next == next_addr + fresh * poly_bytes
               rest == SubSeq(pool_free, 1, Len(pool_free) - AP!Recycled(1))
    <2>2. AP!Desynced(1) = {}
      BY AP!NoDesync, WordsAssumption, PolySizesAssumption, AddrAssumption, MaxGroupAssumption
      DEF MemInv
    <2>3. /\ alloc_set' = alloc_set \cup AP!Range(AP!Reserved(1))
          /\ pool_free' = rest /\ next <= MaxAddr + 1
          /\ UNCHANGED <<shadow_data, poly_bytes>>
      BY <2>1, <2>2 DEF AP!reserve
    <2>4. /\ next \in Nat
          /\ \A i \in 1..AP!Recycled(1) : AP!Reserved(1)[i] \in AP!Range(pool_free)
          /\ \A i \in 1..1 : i > AP!Recycled(1) =>
               /\ AP!Reserved(1)[i] \in Nat
               /\ next_addr <= AP!Reserved(1)[i]
               /\ AP!Reserved(1)[i] + poly_bytes <= next
      BY <2>1, AP!ReservedProperties, WordsAssumption, PolySizesAssumption, AddrAssumption,
         MaxGroupAssumption DEF MemInv
    <2>5. /\ DOMAIN rest \subseteq DOMAIN pool_free
          /\ \A i \in DOMAIN rest : rest[i] = pool_free[i]
      BY AP!RestOfPool, WordsAssumption, PolySizesAssumption, AddrAssumption, MaxGroupAssumption
      DEF MemInv
    <2>6. DOMAIN AP!Reserved(1) = 1..1 /\ AP!Recycled(1) \in Nat
      <3>1. AP!Recycled(1) \in Nat
        BY MemFacts, LenProperties DEF AP!Recycled
      <3>2. QED BY <3>1 DEF AP!Reserved
    <2> HIDE DEF fresh, next, rest
    <2>7. AP!Reserved(1)[1] \in Mem!DevAddrs
      <3>1. CASE AP!Recycled(1) >= 1
        BY <2>4, <2>6, <3>1 DEF DeviceOnly, AP!Range, Mem!Range
      <3>2. CASE AP!Recycled(1) < 1
        <4>1. /\ AP!Reserved(1)[1] \in Nat /\ next_addr <= AP!Reserved(1)[1]
              /\ AP!Reserved(1)[1] + poly_bytes <= MaxAddr + 1
          BY <2>3, <2>4, <2>6, <3>2, MemFacts, AddrAssumption
        <4>2. QED BY <2>1, <4>1, MemFacts, AddrAssumption DEF Mem!DevAddrs
      <3>3. QED BY <2>6, <3>1, <3>2
    <2>8. DeviceOnly'
      BY <2>3, <2>5, <2>6, <2>7 DEF DeviceOnly, AP!Range, Mem!Range, Mem!DevAddrs
    <2>9. QED BY <1>2, <2>1, <2>3, <2>8
  <1>5. QED BY <1>3, <1>4

LEMMA ReleaseEffect ==
  ASSUME MemInv, DeviceOnly, NEW a \in Mem!DevAddrs, Mem!free(a)
  PROVE  /\ MemInv' /\ DeviceOnly' /\ poly_bytes' = poly_bytes
         /\ alloc_set' = alloc_set \ {a}
         /\ DOMAIN shadow_data' = DOMAIN shadow_data \ {a}
         /\ \A x \in DOMAIN shadow_data' : shadow_data'[x] = shadow_data[x]
  <1>1. AP!free(a)
    BY SameRelease
  <1>2. MemInv'
    BY <1>1, AP!FreeStep, WordsAssumption, PolySizesAssumption, AddrAssumption, MaxGroupAssumption
    DEF MemInv
  <1>3. a # AP!Null
    BY AddrAssumption DEF Mem!DevAddrs, AP!Null
  <1>4. CASE a \notin alloc_set
    <2>1. UNCHANGED <<alloc_set, pool_free, shadow_data, poly_bytes>>
      BY <1>1, <1>3, <1>4 DEF AP!free, AP!fail, AP!allocVars
    <2>2. QED BY <1>2, <1>4, <2>1, MemFacts DEF DeviceOnly, Mem!DevAddrs, Mem!Range
  <1>5. CASE a \in alloc_set
    <2>1. /\ alloc_set' = alloc_set \ {a} /\ shadow_data' = AP!Drop(shadow_data, {a})
          /\ pool_free' = Append(pool_free, a) /\ poly_bytes' = poly_bytes
      BY <1>1, <1>3, <1>5 DEF AP!free, AP!Released
    <2>2. Mem!Range(pool_free') \subseteq Mem!Range(pool_free) \cup {a}
      BY <2>1, MemFacts, AppendProperties, LenProperties DEF Mem!Range
    <2>3. DeviceOnly'
      BY <2>1, <2>2 DEF DeviceOnly, Mem!DevAddrs
    <2>4. QED BY <1>2, <2>1, <2>3 DEF AP!Drop, AP!Restrict
  <1>6. QED BY <1>4, <1>5

(* A write touches one shadow, of a live address. *)
WritesOne(a) ==
  /\ UNCHANGED allocations
  /\ DOMAIN shadow_data' \subseteq DOMAIN shadow_data \cup {a}
  /\ \A x \in DOMAIN shadow_data' \ {a} : x \in DOMAIN shadow_data /\ shadow_data'[x] = shadow_data[x]
  /\ \A x \in DOMAIN shadow_data \ {a} : x \in DOMAIN shadow_data'

LEMMA UploadIsSeq == Upload \in Seq(Words)
  <1>1. PICK n \in PolySizes : Upload \in [1..n -> Words]
    BY UploadAssumption
  <1>2. QED BY <1>1, PolySizesAssumption, SeqDef

(* A write leaves a polynomial of the current size, whatever was there. *)
Overlaid(a, v) == AP!Overlay(AP!Staged(a), v) \in [1..poly_bytes -> Words]
Padded(v) == [i \in 1..poly_bytes |-> IF i <= Len(v) THEN v[i] ELSE 0] \in [1..poly_bytes -> Words]

LEMMA OverlaidWords ==
  ASSUME MemInv, NEW a, NEW v \in Seq(Words)
  PROVE  Overlaid(a, v) /\ Overlaid(a, AP!Fill(0, poly_bytes)) /\ Padded(v)
  <1>1. poly_bytes \in Nat /\ Len(v) \in Nat /\ \A i \in 1..Len(v) : v[i] \in Words
    BY MemFacts, LenProperties, ElementOfSeq
  <1>2. AP!Staged(a) \in [1..poly_bytes -> Words]
    <2>1. AP!Zeros(poly_bytes) \in [1..poly_bytes -> Words]
      BY WordsAssumption DEF AP!Zeros
    <2>2. CASE a \in DOMAIN shadow_data /\ Len(shadow_data[a]) = poly_bytes
      <3>1. shadow_data[a] \in Seq(Words) /\ Len(shadow_data[a]) = poly_bytes
        BY <2>2, MemFacts
      <3>2. shadow_data[a] \in [1..poly_bytes -> Words]
        BY <3>1
      <3>3. QED BY <2>2, <3>2 DEF AP!Staged
    <2>3. QED BY <2>1, <2>2 DEF AP!Staged
  <1>3. Len(AP!Staged(a)) = poly_bytes
    BY <1>1, <1>2
  <1>4. ASSUME NEW w, NEW n \in Nat, w \in [1..n -> Words] PROVE Overlaid(a, w)
    <2>1. Len(w) = n
      BY <1>4
    <2>2. \A i \in 1..poly_bytes : (IF i <= Len(w) THEN w[i] ELSE AP!Staged(a)[i]) \in Words
      BY <1>1, <1>2, <1>4, <2>1
    <2>3. QED BY <1>3, <2>2 DEF Overlaid, AP!Overlay
  <1>5. AP!Fill(0, poly_bytes) \in [1..poly_bytes -> Words]
    BY WordsAssumption DEF AP!Fill
  <1>6. v \in [1..Len(v) -> Words]
    BY <1>1
  <1>7. Padded(v)
    BY <1>1, WordsAssumption DEF Padded
  <1>8. QED BY <1>1, <1>4, <1>5, <1>6, <1>7

LEMMA WriteEffect ==
  ASSUME MemInv, DeviceOnly, NEW a, NEW v \in Seq(Words),
         Mem!copy_h2d(a, v) \/ Mem!memset(a, 0, poly_bytes) \/ Mem!update_shadow(a, v)
  PROVE  /\ MemInv' /\ DeviceOnly'
         /\ IF err' = "Ok"
            THEN /\ a \in alloc_set /\ WritesOne(a)
                 /\ a \in DOMAIN shadow_data' /\ shadow_data'[a] \in [1..poly_bytes -> Words]
            ELSE UNCHANGED <<shadow_data, allocations>>
  <1>1. AP!copy_h2d(a, v) \/ AP!memset(a, 0, poly_bytes) \/ AP!update_shadow(a, v)
    BY SameWrites
  <1>2. MemInv'
    BY <1>1, MemFacts, AP!CopyStep, AP!MemsetStep, AP!UpdateStep, WordsAssumption,
       PolySizesAssumption, AddrAssumption, MaxGroupAssumption DEF MemInv
  <1>3. ASSUME NEW new, AP!set_shadow(AP!Put(shadow_data, [x \in {a} |-> new]))
        PROVE  /\ err' = "Ok" /\ WritesOne(a)
               /\ a \in DOMAIN shadow_data' /\ shadow_data'[a] = new
    BY <1>3 DEF AP!set_shadow, AP!Put, WritesOne, allocations
  <1>4. ASSUME NEW w, AP!set_shadow(AP!Written([x \in {a} |-> w]))
        PROVE  /\ err' = "Ok" /\ WritesOne(a)
               /\ a \in DOMAIN shadow_data' /\ shadow_data'[a] = AP!Overlay(AP!Staged(a), w)
    BY <1>4 DEF AP!set_shadow, AP!Written, AP!Put, WritesOne, allocations
  <1>5. ASSUME NEW e, AP!fail(e), e # "Ok" PROVE err' # "Ok" /\ UNCHANGED <<shadow_data, allocations>>
    BY <1>5 DEF AP!fail, AP!allocVars, allocations
  <1>6. Overlaid(a, v) /\ Overlaid(a, AP!Fill(0, poly_bytes)) /\ Padded(v)
    BY OverlaidWords
  <1>7. \/ err' # "Ok" /\ UNCHANGED <<shadow_data, allocations>>
        \/ /\ a \in alloc_set /\ err' = "Ok" /\ WritesOne(a)
           /\ a \in DOMAIN shadow_data' /\ shadow_data'[a] \in [1..poly_bytes -> Words]
    <2>1. CASE AP!copy_h2d(a, v)
      BY <1>4, <1>5, <1>6, <2>1, Zenon DEF AP!copy_h2d, AP!WriteError, Overlaid
    <2>2. CASE AP!memset(a, 0, poly_bytes)
      BY <1>4, <1>5, <1>6, <2>2, Zenon DEF AP!memset, AP!WriteError, Overlaid
    <2>3. CASE AP!update_shadow(a, v)
      BY <1>3, <1>5, <1>6, <2>3 DEF AP!update_shadow, Padded
    <2>4. QED BY <1>1, <2>1, <2>2, <2>3
  <1>8. DeviceOnly'
    BY <1>7 DEF DeviceOnly, WritesOne, allocations, Mem!DevAddrs, Mem!Range
  <1>9. QED BY <1>2, <1>7, <1>8

LEMMA ResetEffect ==
  ASSUME Mem!reset
  PROVE  /\ MemInv' /\ DeviceOnly'
         /\ alloc_set' = {} /\ DOMAIN shadow_data' = {} /\ poly_bytes' = 0
  <1>1. /\ alloc_set' = {} /\ shadow_data' = AP!Empty /\ pool_free' = <<>> /\ host_set' = {}
        /\ poly_bytes' = 0 /\ next_addr' = HbmBase /\ err' = "Ok"
    BY DEF Mem!reset, Mem!Empty, AP!Empty
  <1>2. MemInv'
    <2>1. AP!TypeOK'
      BY <1>1, AddrAssumption DEF AP!TypeOK, AP!Empty, AP!Errors
    <2>2. AP!NoAlias'
      BY <1>1, AddrAssumption DEF AP!NoAlias, AP!PoolNotLive, AP!PoolDistinct, AP!BelowNext, AP!Range
    <2>3. QED BY <2>1, <2>2 DEF MemInv, AP!Inv
  <1>3. QED BY <1>1, <1>2 DEF DeviceOnly, Mem!DevAddrs, Mem!Range, AP!Empty

(* The epoch takes shadows and returns errors; nothing else of the allocator moves.     *)
LEMMA TakeEffect ==
  ASSUME MemInv, DeviceOnly, UNCHANGED allocations, NEW S, shadow_data' = T!Drop(shadow_data, S),
         err' \in AP!Errors
  PROVE  MemInv' /\ DeviceOnly'
  <1>1. AP!AddressesStay /\ poly_bytes' = poly_bytes /\ host_set' \subseteq Hosts
    BY DEF AP!AddressesStay, allocations, MemInv, AP!Inv, AP!TypeOK
  <1>2. AP!Shadows(shadow_data', alloc_set)
    BY AP!ErasedShadows, WordsAssumption, PolySizesAssumption, AddrAssumption, MaxGroupAssumption
    DEF MemInv, AP!Inv, T!Drop, AP!Drop, T!Restrict, AP!Restrict
  <1>3. MemInv'
    BY <1>1, <1>2, AP!SameAddresses, WordsAssumption, PolySizesAssumption, AddrAssumption,
       MaxGroupAssumption DEF MemInv
  <1>4. QED BY <1>3 DEF DeviceOnly, allocations, Mem!DevAddrs, Mem!Range

LEMMA SettleEffect ==
  ASSUME MemInv, DeviceOnly, UNCHANGED <<allocations, shadow_data>>, err' \in AP!Errors
  PROVE  MemInv' /\ DeviceOnly'
  <1>1. MemInv'
    BY DEF MemInv, AP!Inv, AP!TypeOK, AP!NoAlias, AP!PoolNotLive, AP!PoolDistinct, AP!BelowNext,
           AP!Range, allocations
  <1>2. QED BY <1>1 DEF DeviceOnly, allocations, Mem!DevAddrs, Mem!Range

-----------------------------------------------------------------------------
(* The invariant that no reset disturbs. *)

SessionSteps == {"session", "bring up", "init", "enter", "locked", "read"}
ResetSteps == {"reset.backend", "reset.allocator", "reset.config", "reset.compiler"}
Steps == SessionSteps \cup ResetSteps \cup {"idle", "resize", "free", "memset", "flush", "populate"}
ApiNames == {"none", "resize", "h2d", "op", "free", "memset", "flush", "reset"}
Calls == [at : Steps, fn : ApiNames, dst : Nat, src : Nat, dim : Nat]

(* The step a call is at belongs to the call, and its operands are device addresses.    *)
Shaped(c) ==
  \/ c = Idle
  \/ c.at = "resize" /\ c.fn = "resize" /\ c.dst \in PolySizes
  \/ c.at \in SessionSteps /\ c.fn = "h2d" /\ c.dst \in Mem!DevAddrs
  \/ c.at \in SessionSteps /\ c.fn = "op" /\ {c.dst, c.src} \subseteq Mem!DevAddrs
  \/ c.at = "free" /\ c.fn = "free" /\ c.dst \in Mem!DevAddrs
  \/ c.at = "memset" /\ c.fn = "memset" /\ c.dst \in Mem!DevAddrs
  \/ c.at \in {"flush", "populate"} /\ c.fn = "flush"
  \/ c.at \in ResetSteps /\ c.fn = "reset"

CallsShaped == call \in [Threads -> Calls] /\ \A t \in Threads : Shaped(call[t])

(* Who holds a mutex is where in its call it keeps it. *)
Locks ==
  /\ {epoch_lock, init_lock, config_lock} \subseteq Threads \cup {NoThread}
  /\ \A t \in Threads : /\ call[t].at \in {"locked", "read", "populate"} <=> epoch_lock = t
                        /\ call[t].at = "init" <=> init_lock = t
                        /\ call[t].at = "resize" <=> config_lock = t
                        /\ config_lock = t => call[t].dst = ring_dim

GhostAddresses ==
  /\ owned \in [Threads -> SUBSET Mem!DevAddrs]
  /\ DOMAIN truth \cup unflushed \cup overtaken \subseteq Mem!DevAddrs

Scalars ==
  /\ ring_dim \in PolySizes \cup {0} /\ inits \in 0..2
  /\ montgomery \in BOOLEAN /\ initialized \in BOOLEAN /\ recording \in BOOLEAN /\ raced \in BOOLEAN

(* What has been delivered is of the flush that holds the epoch. *)
Delivering ==
  /\ delivered \subseteq Pending
  /\ \A t \in Threads : call[t].at = "populate" => recording
  /\ delivered # {} => \E t \in Threads : call[t].at = "populate"

(* Polynomials are of words, and of a size that was asked for. *)
Values ==
  /\ \A a \in Bound : poly_map[a].val \in Poly
  /\ \A a \in DOMAIN shadow_data : shadow_data[a] \in Poly
  /\ alloc_set # {} => poly_bytes # 0

EpochInv == Bound \subseteq Mem!DevAddrs /\ GP!Good(reg) /\ GP!FlushResolves

Core == /\ MemInv /\ DeviceOnly /\ CallsShaped /\ Locks /\ GhostAddresses /\ Scalars
        /\ EpochInv /\ Values /\ Delivering

-----------------------------------------------------------------------------
(* The thread t moves on in its call, or on to another one; the others stay. *)

Moves(t, c) == call'[t] = c /\ \A u \in Threads \ {t} : call'[u] = call[u]

LEMMA NullIsNoAddress == Mem!Null \in Nat /\ Mem!DevAddrs \subseteq Nat /\ Idle \in Calls
  BY AddrAssumption DEF Mem!Null, Mem!DevAddrs, Idle, Calls, Steps, ApiNames

LEMMA GoesToStep ==
  ASSUME CallsShaped, NEW t \in Threads, NEW step \in Steps, GoesTo(t, step),
         Shaped([at |-> step, fn |-> call[t].fn, dst |-> call[t].dst, src |-> call[t].src,
                 dim |-> call[t].dim])
  PROVE  /\ CallsShaped'
         /\ Moves(t, [at |-> step, fn |-> call[t].fn, dst |-> call[t].dst, src |-> call[t].src,
                      dim |-> call[t].dim])
  <1> DEFINE c == [at |-> step, fn |-> call[t].fn, dst |-> call[t].dst, src |-> call[t].src,
                   dim |-> call[t].dim]
  <1>1. call[t] \in Calls
    BY DEF CallsShaped
  <1>2. [call[t] EXCEPT !.at = step] = c /\ c \in Calls
    BY <1>1 DEF Calls
  <1>3. call' = [call EXCEPT ![t] = c]
    BY <1>2 DEF GoesTo
  <1> HIDE DEF c
  <1>4. call' \in [Threads -> Calls] /\ Moves(t, c)
    BY <1>2, <1>3 DEF CallsShaped, Moves
  <1>5. \A u \in Threads : Shaped(call'[u])
    BY <1>4 DEF CallsShaped, Moves, c
  <1>6. QED BY <1>4, <1>5 DEF CallsShaped, c, Shaped, Mem!DevAddrs

LEMMA EntersStep ==
  ASSUME CallsShaped, NEW t \in Threads, NEW step \in Steps, NEW fn \in ApiNames,
         NEW d \in Nat, NEW s \in Nat, Enters(t, step, fn, d, s),
         Shaped([at |-> step, fn |-> fn, dst |-> d, src |-> s, dim |-> 0])
  PROVE  CallsShaped' /\ Moves(t, [at |-> step, fn |-> fn, dst |-> d, src |-> s, dim |-> 0])
  <1> DEFINE c == [at |-> step, fn |-> fn, dst |-> d, src |-> s, dim |-> 0]
  <1>1. c \in Calls
    BY DEF Calls
  <1>2. call' = [call EXCEPT ![t] = c]
    BY DEF Enters
  <1> HIDE DEF c
  <1>3. call' \in [Threads -> Calls] /\ Moves(t, c)
    BY <1>1, <1>2 DEF CallsShaped, Moves
  <1>4. \A u \in Threads : Shaped(call'[u])
    BY <1>3 DEF CallsShaped, Moves, c
  <1>5. QED BY <1>3, <1>4 DEF CallsShaped, c, Shaped, Mem!DevAddrs

LEMMA ReturnsStep ==
  ASSUME CallsShaped, NEW t \in Threads, Returns(t)
  PROVE  CallsShaped' /\ Moves(t, Idle)
  <1>1. call' \in [Threads -> Calls] /\ Moves(t, Idle)
    BY NullIsNoAddress DEF CallsShaped, Moves, Returns
  <1>2. \A u \in Threads : Shaped(call'[u])
    BY <1>1 DEF CallsShaped, Moves, Shaped
  <1>3. QED BY <1>1, <1>2 DEF CallsShaped, Shaped, Mem!DevAddrs, Idle

-----------------------------------------------------------------------------
(* Parts of the invariant that most steps leave alone. *)

Holding == {"locked", "read", "populate", "init", "resize"}

LEMMA LocksStay ==
  ASSUME Core, NEW t \in Threads, NEW c, Moves(t, c), call[t].at \notin Holding, c.at \notin Holding,
         UNCHANGED locks, ring_dim' = ring_dim \/ config_lock = NoThread
  PROVE  Locks'
  <1>1. /\ {epoch_lock, init_lock, config_lock}' \subseteq Threads \cup {NoThread}
        /\ t \notin {epoch_lock, init_lock, config_lock}
    BY DEF Core, Locks, locks, Holding
  <1>2. ASSUME NEW u \in Threads
        PROVE  /\ call'[u].at \in {"locked", "read", "populate"} <=> epoch_lock' = u
               /\ call'[u].at = "init" <=> init_lock' = u
               /\ call'[u].at = "resize" <=> config_lock' = u
               /\ config_lock' = u => call'[u].dst = ring_dim'
    <2>1. CASE u = t
      BY <1>1, <2>1 DEF locks, Moves, Holding
    <2>2. CASE u # t
      BY <2>2, ThreadsAssumption DEF Core, Locks, locks, Moves
    <2>3. QED BY <2>1, <2>2
  <1>3. QED BY <1>1, <1>2 DEF Locks

LEMMA DeliveringStays ==
  ASSUME Core, NEW t \in Threads, NEW c, Moves(t, c), call[t].at # "populate", c.at # "populate",
         UNCHANGED delivered,
         \/ Pending \subseteq Pending' /\ (recording => recording')
         \/ \A u \in Threads : call[u].at # "populate"
  PROVE  Delivering'
  <1>1. \A u \in Threads : call'[u].at = "populate" <=> call[u].at = "populate"
    BY DEF Moves
  <1>2. QED BY <1>1 DEF Core, Delivering

LEMMA EpochStays ==
  ASSUME Core, UNCHANGED <<poly_map, reg>>
  PROVE  EpochInv' /\ Pending' = Pending /\ Bound' = Bound
  BY DEF Core, EpochInv, Bound, Pending, GP!FlushResolves, GP!Names, GP!Members, GP!Range

LEMMA ValuesStay ==
  ASSUME Core, UNCHANGED <<poly_map, shadow_data, alloc_set>>, poly_bytes' \notin {0, poly_bytes} \/ poly_bytes' = poly_bytes
  PROVE  Values'
  BY DEF Core, Values, Bound, Poly

LEMMA GhostsStay ==
  ASSUME Core, UNCHANGED ghosts
  PROVE  GhostAddresses'
  BY DEF Core, GhostAddresses, ghosts, Mem!DevAddrs

LEMMA HoldsStep ==
  ASSUME Core, NEW S \in SUBSET Mem!DevAddrs, NEW f, DOMAIN f \subseteq S, Holds(S, f)
  PROVE  /\ DOMAIN truth' = (DOMAIN truth \ S) \cup DOMAIN f
         /\ \A a \in DOMAIN f : truth'[a] = f[a]
         /\ \A a \in DOMAIN truth \ S : truth'[a] = truth[a]
         /\ unflushed' = unflushed \ S /\ overtaken' = overtaken \ S
         /\ DOMAIN truth' \cup unflushed' \cup overtaken' \subseteq Mem!DevAddrs
  <1>1. truth' = T!Put(T!Drop(truth, S), f) /\ unflushed' = unflushed \ S /\ overtaken' = overtaken \ S
    BY DEF Holds
  <1>2. /\ DOMAIN truth' = (DOMAIN truth \ S) \cup DOMAIN f
        /\ \A a \in DOMAIN f : truth'[a] = f[a]
        /\ \A a \in DOMAIN truth \ S : truth'[a] = truth[a]
    BY <1>1 DEF T!Put, T!Drop, T!Restrict
  <1>3. DOMAIN truth \cup unflushed \cup overtaken \subseteq Mem!DevAddrs
    BY DEF Core, GhostAddresses
  <1>4. QED BY <1>1, <1>2, <1>3

LEMMA AllocatorStays ==
  ASSUME Core, UNCHANGED shadows
  PROVE  MemInv' /\ DeviceOnly'
  <1>1. UNCHANGED <<allocations, shadow_data>> /\ err' = err
    BY DEF shadows, allocations
  <1>2. err \in AP!Errors
    BY DEF Core, MemInv, AP!Inv, AP!TypeOK
  <1>3. QED BY <1>1, <1>2, SettleEffect DEF Core

-----------------------------------------------------------------------------
(* Config, and bringing up the backend. *)

LEMMA IdleFacts == Idle.at = "idle" /\ Idle.fn = "none" /\ Idle.dst = Mem!Null /\ Shaped(Idle)
  BY DEF Idle, Shaped

LEMMA RacedStep ==
  ASSUME Core, NEW t \in Threads, NEW step, Starts(t) \/ At(t, step)
  PROVE  raced' \in BOOLEAN
  BY DEF Core, Scalars, Starts, At

LEMMA RingDimensionCore ==
  ASSUME Core, NEW t \in Threads, NEW n \in PolySizes, hazeSetRingDimension(t, n)
  PROVE  Core' /\ Moves(t, [at |-> "resize", fn |-> "resize", dst |-> n, src |-> Mem!Null, dim |-> 0])
  <1> DEFINE c == [at |-> "resize", fn |-> "resize", dst |-> n, src |-> Mem!Null, dim |-> 0]
  <1>1. call[t] = Idle /\ config_lock = NoThread /\ config_lock' = t /\ ring_dim' = n
    BY DEF hazeSetRingDimension, Starts
  <1>2. CallsShaped' /\ Moves(t, c)
    BY EntersStep, NullIsNoAddress, PolySizesAssumption
    DEF hazeSetRingDimension, Core, Steps, ApiNames, Shaped
  <1>3. Locks'
    BY <1>1, <1>2, IdleFacts, ThreadsAssumption DEF Core, Locks, Moves, hazeSetRingDimension
  <1>4. MemInv' /\ DeviceOnly' /\ EpochInv' /\ Values' /\ GhostAddresses' /\ Pending' = Pending
    BY AllocatorStays, EpochStays, ValuesStay, GhostsStay DEF shadows, hazeSetRingDimension, epochVars
  <1>5. Delivering'
    BY <1>1, <1>2, <1>4, IdleFacts, DeliveringStays DEF hazeSetRingDimension, epochVars
  <1>6. Scalars'
    <2>1. raced' \in BOOLEAN
      BY RacedStep DEF hazeSetRingDimension
    <2>2. QED BY <1>1, <2>1 DEF Core, Scalars, hazeSetRingDimension, epochVars, backend
  <1>7. QED BY <1>2, <1>3, <1>4, <1>5, <1>6 DEF Core

LEMMA ResizeCore ==
  ASSUME Core, NEW t \in Threads, Resize(t)
  PROVE  /\ Core' /\ Moves(t, Idle) /\ poly_bytes' = ring_dim /\ config_lock = t
         /\ UNCHANGED <<alloc_set, shadow_data>>
  <1>1. call[t].at = "resize" /\ config_lock = t /\ config_lock' = NoThread
    BY DEF Resize, At, Core, Locks
  <1>2. call[t].dst \in PolySizes /\ call[t].dst = ring_dim
    BY <1>1, IdleFacts DEF Core, CallsShaped, Shaped, SessionSteps, ResetSteps, Locks
  <1>3. /\ MemInv' /\ DeviceOnly' /\ poly_bytes' = ring_dim
        /\ UNCHANGED <<alloc_set, shadow_data>>
    BY <1>2, SizeEffect DEF Core, Resize
  <1>4. CallsShaped' /\ Moves(t, Idle)
    BY ReturnsStep DEF Resize, Core
  <1>5. Locks'
    BY <1>1, <1>4, IdleFacts, ThreadsAssumption DEF Core, Locks, Moves, Resize, config
  <1>6. EpochInv' /\ GhostAddresses' /\ Pending' = Pending
    BY EpochStays, GhostsStay DEF Resize, epochVars
  <1>7. Delivering'
    BY <1>1, <1>4, <1>6, IdleFacts, DeliveringStays DEF Resize, epochVars
  <1>8. Scalars'
    <2>1. raced' \in BOOLEAN
      BY RacedStep DEF Resize
    <2>2. QED BY <2>1 DEF Core, Scalars, Resize, epochVars, backend, config
  <1>9. Values'
    BY <1>2, <1>3, PolySizesAssumption, ValuesStay DEF Resize, epochVars
  <1>10. QED BY <1>1, <1>3, <1>4, <1>5, <1>6, <1>7, <1>8, <1>9 DEF Core

(* Steps in which nothing but calls, montgomery and the ghost raced can change. *)
LEMMA ControlCore ==
  ASSUME Core, NEW t \in Threads, NEW c, CallsShaped', Moves(t, c),
         call[t].at \notin Holding, c.at \notin Holding,
         UNCHANGED <<shadows, epochVars, ring_dim, backend, locks, delivered, ghosts>>,
         montgomery' \in BOOLEAN, raced' \in BOOLEAN
  PROVE  Core'
  <1>1. Locks'
    BY LocksStay
  <1>2. MemInv' /\ DeviceOnly' /\ EpochInv' /\ Values' /\ GhostAddresses' /\ Pending' = Pending
    BY AllocatorStays, EpochStays, ValuesStay, GhostsStay DEF shadows, epochVars
  <1>3. Delivering'
    BY <1>2, DeliveringStays DEF Holding, epochVars
  <1>4. Scalars'
    BY DEF Core, Scalars, epochVars, backend
  <1>5. QED BY <1>1, <1>2, <1>3, <1>4 DEF Core

LEMMA StayStep ==
  ASSUME CallsShaped, NEW t \in Threads, call' = call
  PROVE  CallsShaped' /\ Moves(t, call[t])
  BY DEF CallsShaped, Moves, Shaped, Mem!DevAddrs

LEMMA MontgomeryCore ==
  ASSUME Core, NEW t \in Threads, NEW b \in BOOLEAN, hazeSetMontgomery(t, b)
  PROVE  Core' /\ Moves(t, Idle)
  <1>1. CallsShaped' /\ Moves(t, Idle) /\ call[t] = Idle
    BY StayStep DEF hazeSetMontgomery, Starts, Core
  <1>2. montgomery' \in BOOLEAN /\ raced' \in BOOLEAN
    BY RacedStep DEF hazeSetMontgomery
  <1>3. QED BY <1>1, <1>2, IdleFacts, ControlCore DEF hazeSetMontgomery, Holding

(* The call t is in, at another step. *)
Next_(t, step) == [at |-> step, fn |-> call[t].fn, dst |-> call[t].dst, src |-> call[t].src,
                   dim |-> call[t].dim]

LEMMA SessionShape ==
  ASSUME Core, NEW t \in Threads, call[t].at \in SessionSteps, NEW step \in SessionSteps
  PROVE  Shaped(Next_(t, step)) /\ call[t].fn \in {"h2d", "op"}
  BY IdleFacts DEF Core, CallsShaped, Shaped, SessionSteps, ResetSteps, Next_

LEMMA FastPathCore ==
  ASSUME Core, NEW t \in Threads, FastPath(t)
  PROVE  Core' /\ \E step \in {"enter", "bring up"} : Moves(t, Next_(t, step))
  <1>1. call[t].at = "session" /\ \E step \in {"enter", "bring up"} : GoesTo(t, step)
    BY DEF FastPath, At
  <1>2. PICK step \in {"enter", "bring up"} : GoesTo(t, step)
    BY <1>1
  <1>3. CallsShaped' /\ Moves(t, Next_(t, step))
    BY <1>1, <1>2, SessionShape, GoesToStep DEF Core, SessionSteps, Steps, Next_
  <1>4. montgomery' \in BOOLEAN /\ raced' \in BOOLEAN
    BY RacedStep DEF FastPath, Core, Scalars, config
  <1>5. Core'
    BY <1>1, <1>3, <1>4, ControlCore DEF FastPath, Holding, Next_, config
  <1>6. QED BY <1>3, <1>5

LEMMA LockInitCore ==
  ASSUME Core, NEW t \in Threads, LockInit(t)
  PROVE  Core' /\ Moves(t, Next_(t, "init"))
  <1>1. call[t].at = "bring up" /\ init_lock = NoThread /\ init_lock' = t
    BY DEF LockInit, At
  <1>2. CallsShaped' /\ Moves(t, Next_(t, "init"))
    BY <1>1, SessionShape, GoesToStep DEF LockInit, Core, SessionSteps, Steps, Next_
  <1>3. Locks'
    <2>1. epoch_lock' = epoch_lock /\ config_lock' = config_lock /\ ring_dim' = ring_dim
      BY DEF LockInit, config
    <2>2. call'[t].at = "init" /\ call'[t].dst = call[t].dst
      BY <1>2 DEF Moves, Next_
    <2>3. \A u \in Threads \ {t} : call'[u] = call[u]
      BY <1>2 DEF Moves
    <2>4. QED BY <1>1, <2>1, <2>2, <2>3, ThreadsAssumption DEF Core, Locks
  <1>4. MemInv' /\ DeviceOnly' /\ EpochInv' /\ Values' /\ GhostAddresses' /\ Pending' = Pending
    BY AllocatorStays, EpochStays, ValuesStay, GhostsStay DEF shadows, LockInit, epochVars
  <1>5. Delivering'
    BY <1>1, <1>2, <1>4, DeliveringStays DEF LockInit, epochVars, Next_
  <1>6. Scalars'
    <2>1. raced' \in BOOLEAN
      BY RacedStep DEF LockInit
    <2>2. QED BY <2>1 DEF Core, Scalars, LockInit, epochVars, backend, config
  <1>7. QED BY <1>2, <1>3, <1>4, <1>5, <1>6 DEF Core

LEMMA InitBackendCore ==
  ASSUME Core, NEW t \in Threads, InitBackend(t)
  PROVE  Core' /\ Moves(t, Next_(t, "enter"))
  <1>1. call[t].at = "init" /\ init_lock = t /\ init_lock' = NoThread
    BY DEF InitBackend, At, Core, Locks
  <1>2. CallsShaped' /\ Moves(t, Next_(t, "enter"))
    BY <1>1, SessionShape, GoesToStep DEF InitBackend, Core, SessionSteps, Steps, Next_
  <1>3. Locks'
    BY <1>1, <1>2, ThreadsAssumption DEF Core, Locks, Moves, InitBackend, Next_, config
  <1>4. MemInv' /\ DeviceOnly' /\ EpochInv' /\ Values' /\ GhostAddresses' /\ Pending' = Pending
    BY AllocatorStays, EpochStays, ValuesStay, GhostsStay DEF shadows, InitBackend, epochVars
  <1>5. Delivering'
    BY <1>1, <1>2, <1>4, DeliveringStays DEF InitBackend, epochVars, Next_
  <1>6. Scalars'
    <2>1. raced' \in BOOLEAN
      BY RacedStep DEF InitBackend
    <2>2. initialized' \in BOOLEAN /\ inits' \in 0..2
      <3>1. CASE UNCHANGED backend
        BY <3>1 DEF Core, Scalars, backend
      <3>2. CASE CompilerInit
        BY <3>2 DEF Core, Scalars, CompilerInit
      <3>3. QED BY <3>1, <3>2 DEF InitBackend
    <2>3. QED BY <2>1, <2>2 DEF Core, Scalars, InitBackend, epochVars, config
  <1>7. QED BY <1>2, <1>3, <1>4, <1>5, <1>6 DEF Core

LEMMA EnterEpochCore ==
  ASSUME Core, NEW t \in Threads, EnterEpoch(t)
  PROVE  Core' /\ Moves(t, Next_(t, "locked"))
  <1>1. call[t].at = "enter" /\ epoch_lock = NoThread /\ epoch_lock' = t
    BY DEF EnterEpoch, At
  <1>2. CallsShaped' /\ Moves(t, Next_(t, "locked"))
    BY <1>1, SessionShape, GoesToStep DEF EnterEpoch, Core, SessionSteps, Steps, Next_
  <1>3. Locks'
    BY <1>1, <1>2, ThreadsAssumption DEF Core, Locks, Moves, EnterEpoch, Next_, config
  <1>4. MemInv' /\ DeviceOnly' /\ EpochInv' /\ Values' /\ GhostAddresses' /\ Pending' = Pending
    BY AllocatorStays, EpochStays, ValuesStay, GhostsStay DEF shadows, EnterEpoch
  <1>5. \A u \in Threads : call[u].at # "populate"
    BY <1>1, ThreadsAssumption DEF Core, Locks
  <1>6. Delivering'
    BY <1>1, <1>2, <1>5, DeliveringStays DEF EnterEpoch, Next_
  <1>7. Scalars'
    <2>1. raced' \in BOOLEAN
      BY RacedStep DEF EnterEpoch
    <2>2. recording' \in BOOLEAN
      BY DEF EnterEpoch
    <2>3. QED BY <2>1, <2>2 DEF Core, Scalars, EnterEpoch, backend, config
  <1>8. QED BY <1>2, <1>3, <1>4, <1>6, <1>7 DEF Core

(* The call t is in, with what it has read of Config. *)
Read_(t) == [at |-> "read", fn |-> call[t].fn, dst |-> call[t].dst, src |-> call[t].src, dim |-> ring_dim]

LEMMA ReadRingDimCore ==
  ASSUME Core, NEW t \in Threads, ReadRingDim(t)
  PROVE  Core' /\ Moves(t, Read_(t))
  <1>1. /\ call[t].at = "locked" /\ call' = [call EXCEPT ![t].at = "read", ![t].dim = ring_dim]
        /\ UNCHANGED <<shadows, epochVars, config, backend, locks, delivered, ghosts>>
    BY DEF ReadRingDim, At
  <1>2. call[t] \in Calls /\ ring_dim \in Nat
    BY PolySizesAssumption DEF Core, CallsShaped, Scalars
  <1>3. Read_(t) \in Calls /\ Shaped(Read_(t))
    <2>1. Shaped(call[t]) /\ call[t] # Idle
      BY <1>1, IdleFacts DEF Core, CallsShaped
    <2>2. /\ call[t].fn \in {"h2d", "op"} /\ call[t].dst \in Mem!DevAddrs
          /\ call[t].fn = "op" => call[t].src \in Mem!DevAddrs
      BY <1>1, <2>1 DEF Shaped, SessionSteps, ResetSteps
    <2>3. QED BY <1>2, <2>2 DEF Read_, Calls, Steps, SessionSteps, Shaped
  <1>4. call' = [call EXCEPT ![t] = Read_(t)]
    <2> DEFINE d == [at |-> "read", fn |-> call[t].fn, dst |-> call[t].dst, src |-> call[t].src,
                     dim |-> call[t].dim]
    <2>1. [call[t] EXCEPT !.at = "read"] = d
      BY <1>2 DEF Calls
    <2>2. [d EXCEPT !.dim = ring_dim] = Read_(t)
      BY DEF Read_
    <2>3. [call[t] EXCEPT !.at = "read", !.dim = ring_dim] = Read_(t)
      <3> HIDE DEF d
      <3> QED BY <2>1, <2>2, Zenon
    <2>4. QED BY <1>1, <2>3 DEF Core, CallsShaped
  <1>5. call' \in [Threads -> Calls] /\ Moves(t, Read_(t))
    BY <1>3, <1>4 DEF Core, CallsShaped, Moves
  <1>6. CallsShaped'
    BY <1>3, <1>5 DEF Core, CallsShaped, Moves, Shaped, Mem!DevAddrs
  <1>7. Locks'
    <2>1. Read_(t).at = "read" /\ Read_(t).dst = call[t].dst
      BY DEF Read_
    <2>2. QED BY <1>1, <1>5, <2>1 DEF Core, Locks, locks, config, Moves
  <1>8. MemInv' /\ DeviceOnly' /\ EpochInv' /\ Values' /\ GhostAddresses' /\ Pending' = Pending
    BY <1>1, AllocatorStays, EpochStays, ValuesStay, GhostsStay DEF shadows, epochVars
  <1>9. Delivering'
    BY <1>1, <1>5, <1>8, DeliveringStays DEF epochVars, Read_
  <1>10. Scalars'
    <2>1. raced' \in BOOLEAN
      BY RacedStep DEF ReadRingDim
    <2>2. QED BY <1>1, <2>1 DEF Core, Scalars, epochVars, backend, config
  <1>11. QED BY <1>5, <1>6, <1>7, <1>8, <1>9, <1>10 DEF Core

-----------------------------------------------------------------------------
(* What the epoch's methods do on one address. *)

SameEpoch == UNCHANGED <<poly_map, reg, input_addrs, addr_modulus, mrp_in>>

LEMMA ComponentsErrors ==
  \A a, n : /\ Mem!ComponentsError(a, n) \in AP!Errors
            /\ Mem!ComponentsError(a, n) = "Ok" =>
                 a \in alloc_set /\ a \in DOMAIN shadow_data /\ n # 0 /\ Len(shadow_data[a]) = n
  BY DEF Mem!ComponentsError, AP!Errors

Tagged(a) ==
  /\ a \in DOMAIN shadow_data
  /\ Bound' = Bound \cup {a} /\ poly_map'[a].val = shadow_data[a]
  /\ \A x \in Bound \ {a} : poly_map'[x] = poly_map[x]
  /\ reg' = Groups!untag(reg, {a})
  /\ input_addrs' = input_addrs \cup {a}

LEMMA TagInputEffect ==
  ASSUME NEW t, TagInput(t), NEW a, a = call[t].dst
  PROVE  /\ UNCHANGED <<allocations, shadow_data, addr_modulus, recording>> /\ err' \in AP!Errors
         /\ \/ Tagged(a) /\ Written(a, Upload)
            \/ SameEpoch /\ UNCHANGED ghosts
  <1> DEFINE n == call[t].dim
             e == Mem!ComponentsError(a, n)
             st == IF e = "Ok" THEN tag_h2d_input(Here, <<a>>, n) ELSE [Here EXCEPT !.err = e]
  <1>1. /\ Become(st) /\ UNCHANGED <<allocations, recording>>
        /\ IF e = "Ok" THEN Written(a, Upload) ELSE UNCHANGED ghosts
    BY DEF TagInput, Leaves
  <1>2. CASE e # "Ok"
    <2>1. st = [Here EXCEPT !.err = e]
      BY <1>2
    <2>2. SameEpoch /\ UNCHANGED <<shadow_data>> /\ err' = e
      BY <1>1, <2>1 DEF Become, Here, SameEpoch
    <2>3. QED BY <1>1, <1>2, <2>2, ComponentsErrors DEF SameEpoch
  <1>3. CASE e = "Ok"
    <2>1. a \in DOMAIN shadow_data /\ n # 0 /\ Len(shadow_data[a]) = n
      BY <1>3, ComponentsErrors
    <2>2. st = tag_h2d_input(Here, <<a>>, n)
      BY <1>3
    <2>3. DOMAIN <<a>> = {1} /\ <<a>>[1] = a
      OBVIOUS
    <2> DEFINE failing == {i \in DOMAIN <<a>> : Len(Here.shadow_data[<<a>>[i]]) # n}
               tagged == {<<a>>[i] : i \in {j \in DOMAIN <<a>> : \A k \in failing : j < k}}
    <2>4. Here.shadow_data = shadow_data /\ Here.err = "Ok"
      BY DEF Here
    <2>5. failing = {}
      BY <2>1, <2>3, <2>4
    <2>6. tagged = {a}
      BY <2>3, <2>5
    <2>7. st = [Here EXCEPT
             !.poly_map = T!Put(@, [x \in tagged |-> [val |-> Here.shadow_data[x], mod |-> CopyModulus]]),
             !.reg = Groups!untag(@, tagged),
             !.input_addrs = @ \cup tagged,
             !.err = IF failing = {} THEN "Ok" ELSE "ShadowSizeMismatch"]
      BY <2>1, <2>2, <2>4 DEF tag_h2d_input
    <2> HIDE DEF failing, tagged, st, e, n
    <2>8. /\ poly_map' = T!Put(poly_map, [x \in {a} |-> [val |-> shadow_data[x], mod |-> CopyModulus]])
          /\ reg' = Groups!untag(reg, {a}) /\ input_addrs' = input_addrs \cup {a}
          /\ shadow_data' = shadow_data /\ addr_modulus' = addr_modulus /\ err' = "Ok"
      BY <1>1, <2>5, <2>6, <2>7 DEF Become, Here
    <2>9. Tagged(a)
      BY <2>1, <2>8 DEF Tagged, Bound, T!Put
    <2>10. QED BY <1>1, <1>3, <2>8, <2>9 DEF AP!Errors
  <1>4. QED BY <1>2, <1>3

Taken(s) == IF s \in Bound THEN {} ELSE {s}

(* The value of s, as the lookup finds it. *)
Source(s) == IF s \in Bound THEN poly_map[s].val ELSE shadow_data[s]

Looked(s, st) ==
  /\ DOMAIN st.poly_map = Bound \cup {s}
  /\ s \in Bound \/ s \in DOMAIN shadow_data
  /\ st.poly_map[s].val = Source(s)
  /\ \A x \in Bound : st.poly_map[x] = poly_map[x]
  /\ st.input_addrs = input_addrs \cup Taken(s)
  /\ st.shadow_data = T!Drop(shadow_data, Taken(s))
  /\ st.reg = reg /\ st.addr_modulus = addr_modulus /\ st.mrp_in = mrp_in /\ st.err = "Ok"

NotFound(s, st) ==
  /\ s \notin Bound
  /\ DOMAIN st.poly_map = Bound /\ \A x \in Bound : st.poly_map[x] = poly_map[x]
  /\ st.input_addrs = input_addrs
  /\ \E S \in {{}, {s}} : st.shadow_data = T!Drop(shadow_data, S)
  /\ st.reg = reg /\ st.addr_modulus = addr_modulus /\ st.mrp_in = mrp_in
  /\ st.err \in AP!Errors \ {"Ok"}

LEMMA LookupEffect ==
  ASSUME NEW s, NEW n, NEW st, st = lookup_or_create(Here, <<s>>, n)
  PROVE  Looked(s, st) \/ NotFound(s, st)
  <1> DEFINE q == <<s>>
             error(i) == IF q[i] \in DOMAIN Here.poly_map THEN "Ok" ELSE Mem!ComponentsError(q[i], n)
             failing == {i \in DOMAIN q : error(i) # "Ok"}
             first == CHOOSE i \in failing : \A j \in failing : i <= j
             taken == {q[i] : i \in {j \in DOMAIN q : \A k \in failing : j < k}} \ DOMAIN Here.poly_map
             found == [Here EXCEPT
                  !.poly_map = T!Put(@, [a \in taken |-> [val |-> shadow_data[a], mod |-> CopyModulus]]),
                  !.input_addrs = @ \cup taken,
                  !.shadow_data = T!Drop(@, taken)]
             lost == [found EXCEPT !.err = IF error(first) = "NoData" THEN "SourceUnavailable" ELSE error(first),
                        !.shadow_data = IF Mem!Evicts(error(first)) THEN T!Drop(@, {q[first]}) ELSE @]
  <1>1. /\ DOMAIN q = {1} /\ q[1] = s
        /\ Here.poly_map = poly_map /\ Here.err = "Ok" /\ DOMAIN Here.poly_map = Bound
    BY DEF Here, Bound
  <1>2. st = IF failing = {} THEN found ELSE lost
    BY <1>1 DEF lookup_or_create
  <1> HIDE DEF lost, q
  <1>3. CASE error(1) = "Ok"
    <2>1. failing = {}
      BY <1>1, <1>3
    <2>2. taken = Taken(s)
      BY <1>1, <2>1 DEF Taken
    <2> HIDE DEF taken, failing, error
    <2>3. st = found
      BY <1>2, <2>1
    <2>4. /\ st.poly_map = T!Put(poly_map, [a \in Taken(s) |-> [val |-> shadow_data[a], mod |-> CopyModulus]])
          /\ st.input_addrs = input_addrs \cup Taken(s)
          /\ st.shadow_data = T!Drop(shadow_data, Taken(s))
          /\ st.reg = reg /\ st.addr_modulus = addr_modulus /\ st.mrp_in = mrp_in /\ st.err = "Ok"
      BY <2>2, <2>3 DEF Here
    <2>5. /\ DOMAIN st.poly_map = Bound \cup {s}
          /\ \A x \in Bound : st.poly_map[x] = poly_map[x]
          /\ st.poly_map[s].val = Source(s)
      <3>1. CASE s \in Bound
        BY <2>4, <3>1 DEF T!Put, Taken, Bound, Source
      <3>2. CASE s \notin Bound
        BY <2>4, <3>2 DEF T!Put, Taken, Bound, Source
      <3>3. QED BY <3>1, <3>2
    <2>6. s \in Bound \/ s \in DOMAIN shadow_data
      BY <1>1, <1>3, ComponentsErrors DEF error
    <2>7. QED BY <2>4, <2>5, <2>6 DEF Looked
  <1>4. CASE error(1) # "Ok"
    <2>1. failing = {1}
      BY <1>1, <1>4
    <2>2. first = 1 /\ error(1) = Mem!ComponentsError(s, n) /\ s \notin Bound
      BY <1>1, <1>4, <2>1
    <2>3. taken = {}
      BY <1>1, <2>1
    <2> HIDE DEF taken, failing, error, first
    <2>4. st = lost
      BY <1>2, <2>1
    <2> DEFINE e == IF error(1) = "NoData" THEN "SourceUnavailable" ELSE error(1)
               S == IF Mem!Evicts(error(1)) THEN {s} ELSE {}
    <2>5. /\ found.poly_map = T!Put(poly_map, [a \in {} |-> [val |-> shadow_data[a], mod |-> CopyModulus]])
          /\ found.input_addrs = input_addrs
          /\ found.shadow_data = T!Drop(shadow_data, {})
          /\ found.reg = reg /\ found.addr_modulus = addr_modulus /\ found.mrp_in = mrp_in
          /\ DOMAIN found = DOMAIN Here
      BY <2>3 DEF Here
    <2>6. /\ st.poly_map = found.poly_map /\ st.input_addrs = input_addrs
          /\ st.shadow_data = IF Mem!Evicts(error(1)) THEN T!Drop(T!Drop(shadow_data, {}), {s})
                              ELSE T!Drop(shadow_data, {})
          /\ st.reg = reg /\ st.addr_modulus = addr_modulus /\ st.mrp_in = mrp_in
          /\ st.err = e
      <3> HIDE DEF found
      <3>1. DOMAIN found = {"poly_map", "reg", "input_addrs", "addr_modulus", "mrp_in", "shadow_data", "err"}
        BY <2>5 DEF Here
      <3>2. QED BY <1>1, <2>2, <2>4, <2>5, <3>1 DEF lost
    <2>7. T!Drop(T!Drop(shadow_data, {}), {s}) = T!Drop(shadow_data, {s})
      BY DEF T!Drop, T!Restrict
    <2>8. DOMAIN st.poly_map = Bound /\ \A x \in Bound : st.poly_map[x] = poly_map[x]
      BY <2>5, <2>6 DEF T!Put, Bound
    <2>9. e \in AP!Errors \ {"Ok"}
      BY <1>4, <2>2, ComponentsErrors DEF AP!Errors
    <2> HIDE DEF e
    <2>10. QED BY <2>2, <2>6, <2>7, <2>8, <2>9 DEF NotFound
  <1>5. QED BY <1>3, <1>4

(* One operand, one residue: the destination is bound to the result, and forgets what   *)
(* was recorded of its modulus.                                                         *)
Recorded(d, s) ==
  /\ s \in Bound \/ s \in DOMAIN shadow_data
  /\ Bound' = Bound \cup {s, d}
  /\ poly_map'[d].val = Eval(<<Source(s)>>)
  /\ s # d => poly_map'[s].val = Source(s)
  /\ \A x \in Bound \ {d} : poly_map'[x] = poly_map[x]
  /\ input_addrs' \subseteq input_addrs \cup {s}
  /\ DOMAIN addr_modulus' \subseteq DOMAIN addr_modulus
  /\ shadow_data' = T!Drop(shadow_data, Taken(s))
  /\ reg' = reg

Unrecorded(s) ==
  /\ s \notin Bound
  /\ Bound' = Bound /\ \A x \in Bound : poly_map'[x] = poly_map[x]
  /\ \E S \in {{}, {s}} : shadow_data' = T!Drop(shadow_data, S)
  /\ UNCHANGED <<input_addrs, reg, addr_modulus>>

LEMMA StoreEffect ==
  ASSUME NEW st, st.err = "Ok", NEW d, NEW v,
         DOMAIN st = {"poly_map", "reg", "input_addrs", "addr_modulus", "mrp_in", "shadow_data", "err"},
         NEW q, q = store_mrp(st, <<d>>, <<v>>, <<CopyModulus>>)
  PROVE  /\ q.poly_map = T!Put(st.poly_map, one(d, [val |-> v, mod |-> CopyModulus]))
         /\ q.input_addrs = st.input_addrs \ {d}
         /\ DOMAIN q.addr_modulus \subseteq DOMAIN st.addr_modulus
         /\ q.reg = st.reg /\ q.shadow_data = st.shadow_data /\ q.err = "Ok" /\ q.mrp_in = st.mrp_in
  <1> DEFINE D == <<d>>
             V == <<v>>
             B == <<CopyModulus>>
             at(a) == CHOOSE i \in DOMAIN D : D[i] = a
             f == [a \in T!Range(D) |-> [val |-> V[at(a)], mod |-> B[at(a)]]]
  <1>1. DOMAIN D = {1} /\ D[1] = d /\ Len(D) = 1 /\ V[1] = v /\ B[1] = CopyModulus
    OBVIOUS
  <1> HIDE DEF D, V, B
  <1>2. T!Range(D) = {d} /\ at(d) = 1
    BY <1>1 DEF T!Range
  <1>3. DOMAIN f = {d} /\ f[d] = [val |-> v, mod |-> CopyModulus]
    BY <1>1, <1>2
  <1>4. f = one(d, [val |-> v, mod |-> CopyModulus])
    BY <1>1, <1>2 DEF one
  <1>5. q = store_compute_result(st, f)
    BY <1>1 DEF store_mrp, D, V, B
  <1> HIDE DEF f
  <1>6. {b \in DOMAIN f : f[b].mod # CopyModulus} = {}
    BY <1>3
  <1>7. /\ q.poly_map = T!Put(st.poly_map, f) /\ q.input_addrs = st.input_addrs \ {d}
        /\ q.addr_modulus = T!Put(T!Drop(st.addr_modulus, {d}), [a \in {} |-> f[a].mod])
        /\ q.reg = st.reg /\ q.shadow_data = st.shadow_data /\ q.err = "Ok" /\ q.mrp_in = st.mrp_in
    <2> DEFINE none == [a \in {b \in DOMAIN f : f[b].mod # CopyModulus} |-> f[a].mod]
    <2>1. q = [st EXCEPT !.poly_map = T!Put(@, f), !.input_addrs = @ \ DOMAIN f,
                         !.addr_modulus = T!Put(T!Drop(@, DOMAIN f), none)]
      BY <1>5 DEF store_compute_result
    <2>2. none = [a \in {} |-> f[a].mod]
      BY <1>6
    <2> HIDE DEF none
    <2>3. q = [st EXCEPT !.poly_map = T!Put(@, f), !.input_addrs = @ \ {d},
                         !.addr_modulus = T!Put(T!Drop(@, {d}), none)]
      BY <1>3, <2>1
    <2>4. /\ q.poly_map = T!Put(st.poly_map, f) /\ q.input_addrs = st.input_addrs \ {d}
          /\ q.addr_modulus = T!Put(T!Drop(st.addr_modulus, {d}), none)
      BY <2>3
    <2>5. q.reg = st.reg /\ q.shadow_data = st.shadow_data /\ q.err = "Ok" /\ q.mrp_in = st.mrp_in
      BY <2>3
    <2>6. QED BY <2>2, <2>4, <2>5
  <1>8. DOMAIN q.addr_modulus \subseteq DOMAIN st.addr_modulus
    BY <1>7 DEF T!Put, T!Drop, T!Restrict
  <1>9. QED BY <1>4, <1>7, <1>8

LEMMA LookupFields ==
  ASSUME NEW s, NEW n
  PROVE  DOMAIN lookup_or_create(Here, s, n) =
           {"poly_map", "reg", "input_addrs", "addr_modulus", "mrp_in", "shadow_data", "err"}
  BY DEF lookup_or_create, Here

(* An operation on one operand of one residue: its lookup, its result and its store.    *)
Found(s, n) == lookup_or_create(Here, <<s>>, n)
ResultOf(st, s) == Eval(<<st.poly_map[s].val>>)
StoreOne(st, d, v) == store_mrp(st, <<d>>, <<v>>, <<CopyModulus>>)
ComputeOne(d, s, n) == compute(Here, <<d>>, <<<<s>>>>, <<CopyModulus>>, n)

LEMMA ComputeEffect ==
  ASSUME NEW d, NEW s, NEW n
  PROVE  /\ Found(s, n).err = "Ok" =>
              ComputeOne(d, s, n) = StoreOne(Found(s, n), d, ResultOf(Found(s, n), s))
         /\ Found(s, n).err # "Ok" => ComputeOne(d, s, n) = Found(s, n)
  <1> DEFINE st == Found(s, n)
             q == ComputeOne(d, s, n)
             ops == <<<<s>>>>
             D == <<d>>
             val(a) == st.poly_map[a].val
             vals == [i \in DOMAIN D |-> Eval([k \in DOMAIN ops |-> val(ops[k][i])])]
  <1>1. Len(ops) = 1 /\ ops[1] = <<s>> /\ Len(<<s>>) = 1 /\ DOMAIN ops = {1}
    OBVIOUS
  <1>2. tag_mrp_input(st, <<s>>) = st
    BY DEF tag_mrp_input
  <1>3. build_mrp(Here, ops[1], n) = st
    BY <1>1, <1>2 DEF build_mrp, Found
  <1> HIDE DEF st
  <1>4. q = IF st.err # "Ok" THEN st ELSE store_mrp(st, D, vals, <<CopyModulus>>)
    BY <1>1, <1>3 DEF compute, ComputeOne
  <1>5. vals = <<Eval(<<st.poly_map[s].val>>)>>
    <2>1. [k \in DOMAIN ops |-> val(ops[k][1])] = <<st.poly_map[s].val>>
      BY <1>1
    <2>2. DOMAIN D = {1}
      OBVIOUS
    <2>3. vals = [i \in {1} |-> Eval(<<st.poly_map[s].val>>)]
      BY <2>1, <2>2
    <2>4. QED BY <2>3
  <1>6. QED BY <1>4, <1>5 DEF st, StoreOne, ResultOf

LEMMA RecordEffect ==
  ASSUME NEW t, Record(t), NEW d, d = call[t].dst, NEW s, s = call[t].src
  PROVE  /\ UNCHANGED <<allocations, recording, owned, overtaken>> /\ err' \in AP!Errors
         /\ \E S \in {{}, {s}} : shadow_data' = T!Drop(shadow_data, S)
         /\ \/ /\ Recorded(d, s)
               /\ truth' = T!Put(T!Drop(truth, {d}),
                                 IF s \in DOMAIN truth THEN one(d, Eval(<<truth[s]>>)) ELSE T!Empty)
               /\ unflushed' = unflushed \cup {d}
            \/ Unrecorded(s) /\ UNCHANGED <<truth, unflushed>>
  <1> DEFINE q == ComputeOne(d, s, call[t].dim)
             st == Found(s, call[t].dim)
  <1>1. /\ Become(q) /\ UNCHANGED <<allocations, recording>>
        /\ IF q.err = "Ok"
           THEN /\ truth' = T!Put(T!Drop(truth, {d}),
                               IF s \in DOMAIN truth THEN one(d, Eval(<<truth[s]>>)) ELSE T!Empty)
                /\ unflushed' = unflushed \cup {d}
                /\ UNCHANGED <<owned, overtaken>>
           ELSE UNCHANGED ghosts
    BY DEF Record, Leaves, ComputeOne
  <1>2. /\ st.err = "Ok" => q = StoreOne(st, d, ResultOf(st, s))
        /\ st.err # "Ok" => q = st
    BY ComputeEffect
  <1>3. Looked(s, st) \/ NotFound(s, st)
    BY LookupEffect DEF Found
  <1>4. DOMAIN st = {"poly_map", "reg", "input_addrs", "addr_modulus", "mrp_in", "shadow_data", "err"}
    BY LookupFields DEF Found
  <1> HIDE DEF q, st
  <1>5. CASE NotFound(s, st)
    <2>1. q = st /\ q.err # "Ok" /\ q.err \in AP!Errors
      BY <1>2, <1>5 DEF NotFound
    <2>2. Unrecorded(s) /\ err' = q.err
      BY <1>1, <1>5, <2>1 DEF NotFound, Become, Unrecorded, Bound
    <2>3. UNCHANGED ghosts
      BY <1>1, <2>1
    <2>4. QED BY <1>1, <2>1, <2>2, <2>3 DEF ghosts, Unrecorded
  <1>6. CASE Looked(s, st)
    <2>1. st.err = "Ok" /\ st.poly_map[s].val = Source(s)
      BY <1>6 DEF Looked
    <2>2. q = StoreOne(st, d, Eval(<<Source(s)>>))
      BY <1>2, <2>1 DEF ResultOf
    <2>3. /\ q.poly_map = T!Put(st.poly_map, one(d, [val |-> Eval(<<Source(s)>>), mod |-> CopyModulus]))
          /\ q.input_addrs = st.input_addrs \ {d}
          /\ DOMAIN q.addr_modulus \subseteq DOMAIN st.addr_modulus
          /\ q.reg = st.reg /\ q.shadow_data = st.shadow_data /\ q.err = "Ok"
      <3> DEFINE v == Eval(<<Source(s)>>)
      <3>1. q = store_mrp(st, <<d>>, <<v>>, <<CopyModulus>>)
        BY <2>2 DEF StoreOne
      <3> HIDE DEF v
      <3>2. /\ q.poly_map = T!Put(st.poly_map, one(d, [val |-> v, mod |-> CopyModulus]))
            /\ q.input_addrs = st.input_addrs \ {d}
            /\ DOMAIN q.addr_modulus \subseteq DOMAIN st.addr_modulus
            /\ q.reg = st.reg /\ q.shadow_data = st.shadow_data /\ q.err = "Ok"
        BY <1>4, <2>1, <3>1, StoreEffect
      <3>3. QED BY <3>2 DEF v
    <2>4. /\ poly_map' = q.poly_map /\ reg' = reg /\ input_addrs' = q.input_addrs
          /\ addr_modulus' = q.addr_modulus /\ shadow_data' = T!Drop(shadow_data, Taken(s)) /\ err' = "Ok"
      BY <1>1, <1>6, <2>3 DEF Become, Looked
    <2>5. /\ Bound' = Bound \cup {s, d} /\ poly_map'[d].val = Eval(<<Source(s)>>)
          /\ \A x \in (Bound \cup {s}) \ {d} : poly_map'[x] = st.poly_map[x]
      BY <1>6, <2>3, <2>4 DEF Looked, Bound, T!Put, one
    <2>6. Recorded(d, s)
      BY <1>6, <2>3, <2>4, <2>5 DEF Looked, Recorded, Taken
    <2>7. QED BY <1>1, <2>3, <2>4, <2>6 DEF Taken, AP!Errors
  <1>7. QED BY <1>3, <1>5, <1>6

-----------------------------------------------------------------------------
(* The output bookkeeping along with the bindings. *)

LEMMA GroupBases ==
  \A m \in {b \in Bases : Len(b) > 1} : m \in Seq(GP!Range(m)) /\ Len(m) > 1
  BY BasesAssumption DEF T!Range, GP!Range

LEMMA UntagEffect ==
  ASSUME EpochInv, NEW a \in Mem!DevAddrs, reg' = Groups!untag(reg, {a}), Bound' = Bound \cup {a}
  PROVE  EpochInv' /\ Pending' = Pending \ {a}
  <1>1. reg' = GP!untag(reg, {a})
    BY DEF Groups!untag, GP!untag, Groups!Drop, GP!Drop, Groups!Restrict, GP!Restrict
  <1>2. /\ GP!Good(reg') /\ reg'.known_mrp_groups = reg.known_mrp_groups
        /\ reg'.pending_mrp_groups = reg.pending_mrp_groups
        /\ reg'.pending_outputs = GP!Drop(reg.pending_outputs, {a})
    BY <1>1, GP!UntagStep, GroupBases DEF EpochInv
  <1>3. Pending' = Pending \ {a}
    BY <1>2 DEF Pending, GP!Drop, GP!Restrict
  <1>4. \A g : GP!Members(reg', g) = GP!Members(reg, g)
    BY <1>2 DEF GP!Members
  <1>5. GP!FlushResolves'
    BY <1>2, <1>3, <1>4 DEF EpochInv, GP!FlushResolves, GP!Names, Pending, Bound
  <1>6. QED BY <1>2, <1>3, <1>5 DEF EpochInv, Mem!DevAddrs

LEMMA ForgetEffect ==
  ASSUME EpochInv, NEW a \in Mem!DevAddrs, Invalidated(a)
  PROVE  /\ EpochInv' /\ Pending' = Pending \ {a}
         /\ Bound' = Bound \ {a} /\ \A x \in Bound' : poly_map'[x] = poly_map[x]
         /\ input_addrs' = input_addrs \ {a}
         /\ DOMAIN addr_modulus' = DOMAIN addr_modulus \ {a}
         /\ recording' = recording /\ epoch_lock = NoThread
  <1>1. /\ poly_map' = T!Drop(poly_map, {a}) /\ reg' = Groups!invalidate(reg, {a})
        /\ input_addrs' = input_addrs \ {a} /\ addr_modulus' = T!Drop(addr_modulus, {a})
        /\ recording' = recording /\ epoch_lock = NoThread
    BY DEF Invalidated, invalidate, Here
  <1>2. /\ Bound' = Bound \ {a} /\ \A x \in Bound' : poly_map'[x] = poly_map[x]
        /\ DOMAIN addr_modulus' = DOMAIN addr_modulus \ {a}
    BY <1>1 DEF Bound, T!Drop, T!Restrict
  <1>3. reg' = GP!invalidate(reg, {a})
    BY <1>1 DEF Groups!invalidate, GP!invalidate, Groups!evict_mrp_groups, GP!evict_mrp_groups,
                Groups!Claims, GP!Claims, Groups!Scrub, GP!Scrub, Groups!Members, GP!Members,
                Groups!Range, GP!Range, Groups!Drop, GP!Drop, Groups!Restrict, GP!Restrict
  <1>4. GP!Inv /\ GP!Invalidate(a)
    BY <1>2, <1>3 DEF EpochInv, GP!Inv, GP!Invalidate, Bound
  <1>5. GP!Inv' /\ reg'.pending_outputs = GP!Drop(reg.pending_outputs, {a})
    BY <1>4, GP!DropStep, GroupBases
  <1>6. EpochInv' /\ Pending' = Pending \ {a}
    BY <1>5 DEF EpochInv, GP!Inv, Bound, Pending, GP!Drop, GP!Restrict
  <1>7. QED BY <1>1, <1>2, <1>6

LEMMA SameTagging ==
  \A r, a : Groups!tag_output(r, a) = GP!tag_output(r, a)
  <1>0. ASSUME NEW S PROVE Groups!Cardinality(S) = GP!Cardinality(S)
    BY DEF Groups!Cardinality, GP!Cardinality
  <1>1. ASSUME NEW s, NEW S, NEW x PROVE Groups!Rank(s, S, x) = GP!Rank(s, S, x)
    <2>1. ASSUME NEW b PROVE Groups!FirstAt(s, b) = GP!FirstAt(s, b)
      BY Zenon DEF Groups!FirstAt, GP!FirstAt
    <2>2. {b \in S : Groups!FirstAt(s, b) < Groups!FirstAt(s, x)}
            = {b \in S : GP!FirstAt(s, b) < GP!FirstAt(s, x)}
      BY <2>1
    <2>3. QED BY <1>0, <2>2 DEF Groups!Rank, GP!Rank
  <1>2. ASSUME NEW r, NEW s PROVE Groups!name_outputs(r, s) = GP!name_outputs(r, s)
    <2> DEFINE new == GP!Range(s) \ DOMAIN r.pending_outputs
               ranked == [a \in new |-> r.output_counter + GP!Rank(s, new, a)]
    <2>1. Groups!Range(s) = GP!Range(s)
      BY DEF Groups!Range, GP!Range
    <2>2. [a \in new |-> r.output_counter + Groups!Rank(s, new, a)] = ranked
      BY <1>1
    <2>3. \A f, g : Groups!Put(f, g) = GP!Put(f, g)
      BY DEF Groups!Put, GP!Put
    <2>4. Groups!name_outputs(r, s) =
            [r EXCEPT !.pending_outputs = Groups!Put(@, [a \in new |-> r.output_counter + Groups!Rank(s, new, a)]),
                      !.output_counter = @ + GP!Cardinality(new)]
      BY <1>0, <2>1 DEF Groups!name_outputs
    <2>5. GP!name_outputs(r, s) =
            [r EXCEPT !.pending_outputs = GP!Put(@, ranked), !.output_counter = @ + GP!Cardinality(new)]
      BY DEF GP!name_outputs
    <2> HIDE DEF new, ranked
    <2>6. QED BY <2>2, <2>3, <2>4, <2>5
  <1>3. \A r, a : Groups!Claims(r, a) = GP!Claims(r, a)
    BY DEF Groups!Claims, GP!Claims
  <1>4. QED BY <1>2, <1>3 DEF Groups!tag_output, GP!tag_output

LEMMA TagOutputEffect ==
  ASSUME EpochInv, NEW a \in Mem!DevAddrs, Become(tag_output(Here, a))
  PROVE  /\ EpochInv' /\ Pending \subseteq Pending'
         /\ UNCHANGED <<poly_map, input_addrs, addr_modulus, shadow_data>> /\ err' \in AP!Errors
  <1>1. /\ UNCHANGED <<poly_map, input_addrs, addr_modulus, shadow_data>>
        /\ \/ reg' = reg /\ err' = "SourceUnavailable"
           \/ a \in Bound /\ reg' = Groups!tag_output(reg, a) /\ err' = "Ok"
    BY DEF Become, tag_output, Here, Bound
  <1>2. CASE reg' = reg
    BY <1>1, <1>2 DEF EpochInv, Bound, Pending, GP!FlushResolves, GP!Names, GP!Members, GP!Range, AP!Errors
  <1>3. CASE a \in Bound /\ reg' = Groups!tag_output(reg, a) /\ err' = "Ok"
    <2>1. reg' = GP!tag_output(reg, a)
      BY <1>3, SameTagging
    <2>2. reg.pending_mrp_groups \subseteq GP!GroupNames(reg)
      BY DEF EpochInv, GP!FlushResolves, GP!Names, GP!GroupNames
    <2>3. /\ GP!Good(reg') /\ reg'.known_mrp_groups = reg.known_mrp_groups
          /\ reg'.pending_mrp_groups \subseteq GP!GroupNames(reg)
          /\ DOMAIN reg.pending_outputs \subseteq DOMAIN reg'.pending_outputs
          /\ \A x \in DOMAIN reg'.pending_outputs :
               x \in DOMAIN reg.pending_outputs \/ x = a \/ \E h \in GP!GroupNames(reg) : x \in GP!Members(reg, h)
      BY <2>1, <2>2, GP!TagStep, GroupBases DEF EpochInv
    <2>4. \A g : GP!Members(reg', g) = GP!Members(reg, g)
      BY <2>3 DEF GP!Members
    <2>5. GP!FlushResolves'
      BY <1>1, <1>3, <2>3, <2>4 DEF EpochInv, GP!FlushResolves, GP!Names, GP!GroupNames, Bound
    <2>6. QED BY <1>1, <1>3, <2>3, <2>5 DEF EpochInv, Bound, Pending, AP!Errors, Mem!DevAddrs
  <1>4. QED BY <1>1, <1>2, <1>3

LEMMA ClearEffect ==
  ASSUME NEW e, ended(Here, e)
  PROVE  /\ EpochInv' /\ Pending' = {} /\ Bound' = {} /\ input_addrs' = {}
         /\ DOMAIN addr_modulus' = {} /\ recording' = FALSE /\ err' = e
         /\ shadow_data' = shadow_data
  <1>1. /\ poly_map' = T!Empty /\ reg' = Groups!NewRegistry /\ input_addrs' = {}
        /\ addr_modulus' = T!Empty /\ recording' = FALSE /\ err' = e /\ shadow_data' = shadow_data
    BY DEF ended, Become, clear_state, Here
  <1>2. Bound' = {} /\ DOMAIN addr_modulus' = {}
    BY <1>1 DEF Bound, T!Empty
  <1>3. reg' = GP!NewRegistry
    BY <1>1 DEF Groups!NewRegistry, GP!NewRegistry, Groups!Empty, GP!Empty
  <1>4. /\ GP!Good(GP!NewRegistry)
        /\ DOMAIN GP!NewRegistry.known_mrp_groups = {} /\ GP!NewRegistry.pending_mrp_groups = {}
        /\ DOMAIN GP!NewRegistry.pending_outputs = {}
    BY GP!NewRegistryGood, GroupBases
  <1>5. EpochInv' /\ Pending' = {}
    BY <1>2, <1>3, <1>4 DEF EpochInv, Pending, GP!FlushResolves, GP!Names
  <1>6. QED BY <1>1, <1>2, <1>5

-----------------------------------------------------------------------------
(* Calls that open a session. *)

LEMMA ScalarsStay ==
  ASSUME Core, NEW t \in Threads, NEW step, Starts(t) \/ At(t, step),
         UNCHANGED <<config, backend>>, recording' \in BOOLEAN
  PROVE  Scalars'
  BY RacedStep DEF Core, Scalars, config, backend

LEMMA OwnedAreDevice ==
  ASSUME Core, NEW t \in Threads, NEW a \in owned[t]
  PROVE  a \in Mem!DevAddrs /\ a \in Nat
  BY NullIsNoAddress DEF Core, GhostAddresses

(* A write to a live shadow leaves polynomials. *)
LEMMA WrittenValues ==
  ASSUME Core, NEW a \in alloc_set, WritesOne(a), shadow_data'[a] \in [1..poly_bytes -> Words],
         \A x \in Bound' : x \in Bound /\ poly_map'[x].val = poly_map[x].val
  PROVE  Values'
  <1>1. poly_bytes \in PolySizes
    BY MemFacts DEF Core, Values
  <1>2. shadow_data'[a] \in Poly
    BY <1>1 DEF Poly
  <1>3. \A x \in DOMAIN shadow_data' : shadow_data'[x] \in Poly
    BY <1>2 DEF WritesOne, Core, Values
  <1>4. alloc_set' = alloc_set /\ poly_bytes' = poly_bytes
    BY DEF WritesOne, allocations
  <1>5. QED BY <1>3, <1>4 DEF Core, Values, Poly, Bound

LEMMA CopyCore ==
  ASSUME Core, NEW t \in Threads, NEW a \in owned[t], hazeMemcpyH2D(t, a)
  PROVE  /\ Core'
         /\ \/ Moves(t, Idle) /\ UNCHANGED <<allocations, shadow_data, truth, unflushed, overtaken>>
            \/ /\ Moves(t, [at |-> "session", fn |-> "h2d", dst |-> a, src |-> Mem!Null, dim |-> 0])
               /\ WritesOne(a) /\ a \in alloc_set /\ Holds({a}, T!Empty)
  <1> DEFINE c == [at |-> "session", fn |-> "h2d", dst |-> a, src |-> Mem!Null, dim |-> 0]
  <1>1. call[t] = Idle /\ UNCHANGED <<epochVars, config, backend, locks, delivered, owned>>
    BY DEF hazeMemcpyH2D, Starts
  <1>2. /\ MemInv' /\ DeviceOnly'
        /\ IF err' = "Ok"
           THEN /\ a \in alloc_set /\ WritesOne(a)
                /\ a \in DOMAIN shadow_data' /\ shadow_data'[a] \in [1..poly_bytes -> Words]
           ELSE UNCHANGED <<shadow_data, allocations>>
    BY WriteEffect, UploadIsSeq DEF hazeMemcpyH2D, Core
  <1>3. EpochInv' /\ Pending' = Pending /\ Bound' = Bound
    BY <1>1, EpochStays DEF epochVars
  <1>4. Scalars'
    BY <1>1, ScalarsStay DEF hazeMemcpyH2D, Core, Scalars, epochVars
  <1>5. CASE err' = "Ok"
    <2>1. CallsShaped' /\ Moves(t, c)
      BY <1>5, EntersStep, OwnedAreDevice, NullIsNoAddress
      DEF hazeMemcpyH2D, Core, Steps, SessionSteps, ApiNames, Shaped
    <2>2. Locks' /\ Delivering'
      BY <1>1, <1>3, <2>1, LocksStay, DeliveringStays, IdleFacts DEF Holding, config, epochVars
    <2>3. Holds({a}, T!Empty)
      BY <1>5 DEF hazeMemcpyH2D
    <2>4. GhostAddresses'
      BY <1>1, <2>3, HoldsStep, OwnedAreDevice DEF T!Empty, Core, GhostAddresses, Mem!DevAddrs
    <2>5. Values'
      BY <1>1, <1>2, <1>3, <1>5, WrittenValues DEF epochVars
    <2>6. QED BY <1>2, <1>3, <1>4, <1>5, <2>1, <2>2, <2>3, <2>4, <2>5 DEF Core
  <1>6. CASE err' # "Ok"
    <2>1. CallsShaped' /\ Moves(t, Idle) /\ UNCHANGED <<truth, unflushed, overtaken>>
      BY <1>1, <1>6, StayStep DEF hazeMemcpyH2D, Core
    <2>2. Locks' /\ Delivering'
      BY <1>1, <1>3, <2>1, LocksStay, DeliveringStays, IdleFacts DEF Holding, config, epochVars
    <2>3. GhostAddresses' /\ Values'
      BY <1>1, <1>2, <1>6, <2>1, GhostsStay, ValuesStay DEF ghosts, epochVars, allocations
    <2>4. QED BY <1>2, <1>3, <1>4, <1>6, <2>1, <2>2, <2>3 DEF Core
  <1>7. QED BY <1>5, <1>6

LEMMA OperationCore ==
  ASSUME Core, NEW t \in Threads, NEW d \in owned[t], NEW s \in owned[t], Operation(t, d, s)
  PROVE  Core' /\ Moves(t, [at |-> "session", fn |-> "op", dst |-> d, src |-> s, dim |-> 0])
  <1>1. CallsShaped' /\ Moves(t, [at |-> "session", fn |-> "op", dst |-> d, src |-> s, dim |-> 0])
    BY EntersStep, OwnedAreDevice, NullIsNoAddress
    DEF Operation, Core, Steps, SessionSteps, ApiNames, Shaped
  <1>2. call[t] = Idle /\ montgomery' \in BOOLEAN /\ raced' \in BOOLEAN
    BY RacedStep DEF Operation, Starts, Core, Scalars, config
  <1>3. QED BY <1>1, <1>2, ControlCore, IdleFacts DEF Operation, Holding, config

(* The body of a session: the thread that holds the epoch gives it back. *)
LEMMA LeavesStep ==
  ASSUME Core, NEW t \in Threads, call[t].at \in {"locked", "read"}, NEW st, Leaves(t, st)
  PROVE  /\ CallsShaped' /\ Moves(t, Idle) /\ Locks' /\ epoch_lock = t
         /\ \A u \in Threads : call[u].at # "populate"
         /\ UNCHANGED <<allocations, config, backend, init_lock, config_lock, delivered, recording>>
         /\ Delivering'
  <1>1. /\ epoch_lock = t /\ epoch_lock' = NoThread /\ Returns(t)
        /\ UNCHANGED <<allocations, config, backend, init_lock, config_lock, delivered, recording>>
    BY DEF Leaves, Core, Locks
  <1>2. CallsShaped' /\ Moves(t, Idle)
    BY <1>1, ReturnsStep DEF Core
  <1>3. Locks'
    BY <1>1, <1>2, ThreadsAssumption, IdleFacts DEF Core, Locks, Moves, config
  <1>4. \A u \in Threads : call[u].at # "populate"
    BY <1>1 DEF Core, Locks
  <1>5. Delivering'
    BY <1>1, <1>2, <1>4, DeliveringStays, IdleFacts
  <1>6. QED BY <1>1, <1>2, <1>3, <1>4, <1>5

LEMMA SessionCall ==
  ASSUME Core, NEW t \in Threads, call[t].at \in {"locked", "read"}
  PROVE  /\ call[t].fn \in {"h2d", "op"} /\ call[t].dst \in Mem!DevAddrs
         /\ call[t].fn = "op" => call[t].src \in Mem!DevAddrs
  BY IdleFacts DEF Core, CallsShaped, Shaped, SessionSteps, ResetSteps

(* A shadow taken, a binding that was there or one of a polynomial. *)
LEMMA TakenValues ==
  ASSUME Core, UNCHANGED allocations, NEW S, shadow_data' = T!Drop(shadow_data, S),
         \A x \in Bound' : poly_map'[x].val \in Poly
  PROVE  Values'
  <1>1. \A x \in DOMAIN shadow_data' : x \in DOMAIN shadow_data /\ shadow_data'[x] = shadow_data[x]
    BY DEF T!Drop, T!Restrict
  <1>2. QED BY <1>1 DEF Core, Values, Poly, Bound, allocations

LEMMA DropNothing ==
  MemInv => shadow_data = T!Drop(shadow_data, {})
  <1>1. ASSUME MemInv PROVE shadow_data = T!Drop(shadow_data, {})
    <2>1. shadow_data = [x \in DOMAIN shadow_data |-> shadow_data[x]]
      BY <1>1 DEF MemInv, AP!Inv, AP!TypeOK
    <2>2. QED BY <2>1 DEF T!Drop, T!Restrict
  <1>2. QED BY <1>1

LEMMA TagInputCore ==
  ASSUME Core, NEW t \in Threads, TagInput(t)
  PROVE  Core' /\ Moves(t, Idle)
  <1> DEFINE a == call[t].dst
  <1>1. call[t].at = "read" /\ \E st : Leaves(t, st)
    BY DEF TagInput, At
  <1>2. /\ CallsShaped' /\ Moves(t, Idle) /\ Locks' /\ Delivering'
        /\ UNCHANGED <<allocations, config, backend, recording>>
    BY <1>1, LeavesStep
  <1>3. a \in Mem!DevAddrs
    BY <1>1, SessionCall
  <1> HIDE DEF a
  <1>4. /\ UNCHANGED shadow_data /\ err' \in AP!Errors
        /\ \/ Tagged(a) /\ Written(a, Upload)
           \/ SameEpoch /\ UNCHANGED ghosts
    BY TagInputEffect DEF a
  <1>5. MemInv' /\ DeviceOnly'
    BY <1>2, <1>4, SettleEffect DEF Core
  <1>6. Scalars'
    BY <1>2, ScalarsStay DEF TagInput, Core, Scalars
  <1>7. CASE Tagged(a) /\ Written(a, Upload)
    <2>1. EpochInv'
      BY <1>3, <1>7, UntagEffect DEF Tagged, Core
    <2>2. Values'
      <3>1. \A x \in Bound' : poly_map'[x].val \in Poly
        BY <1>7 DEF Tagged, Core, Values
      <3>2. QED BY <1>2, <1>4, <3>1 DEF Core, Values, Poly, Bound, allocations
    <2>3. GhostAddresses'
      <3>1. PICK f : DOMAIN f \subseteq {a} /\ Holds({a}, f) /\ owned' = owned
        <4>1. DOMAIN T!Empty \subseteq {a} /\ DOMAIN one(a, Upload) \subseteq {a}
          BY DEF T!Empty, one
        <4>2. QED BY <1>7, <4>1 DEF Written
      <3>2. QED BY <1>3, <3>1, HoldsStep DEF Core, GhostAddresses, Mem!DevAddrs
    <2>4. QED BY <1>2, <1>5, <1>6, <2>1, <2>2, <2>3 DEF Core
  <1>8. CASE SameEpoch /\ UNCHANGED ghosts
    <2>1. EpochInv' /\ Values' /\ GhostAddresses'
      BY <1>2, <1>4, <1>8, EpochStays, ValuesStay, GhostsStay DEF SameEpoch, allocations
    <2>2. QED BY <1>2, <1>5, <1>6, <2>1 DEF Core
  <1>9. QED BY <1>4, <1>7, <1>8

LEMMA ResultIsPoly ==
  ASSUME NEW v \in Poly
  PROVE  Eval(<<v>>) \in Poly
  BY EvalAssumption

LEMMA RecordCore ==
  ASSUME Core, NEW t \in Threads, Record(t)
  PROVE  Core' /\ Moves(t, Idle)
  <1> DEFINE d == call[t].dst
             s == call[t].src
  <1>1. call[t].at \in {"locked", "read"} /\ call[t].fn = "op" /\ \E st : Leaves(t, st)
    BY DEF Record, At
  <1>2. /\ CallsShaped' /\ Moves(t, Idle) /\ Locks' /\ Delivering'
        /\ UNCHANGED <<allocations, config, backend, recording>>
    BY <1>1, LeavesStep
  <1>3. d \in Mem!DevAddrs /\ s \in Mem!DevAddrs
    BY <1>1, SessionCall
  <1> HIDE DEF d, s
  <1>4. /\ UNCHANGED <<owned, overtaken>> /\ err' \in AP!Errors
        /\ \E S \in {{}, {s}} : shadow_data' = T!Drop(shadow_data, S)
        /\ \/ /\ Recorded(d, s)
              /\ truth' = T!Put(T!Drop(truth, {d}),
                                IF s \in DOMAIN truth THEN one(d, Eval(<<truth[s]>>)) ELSE T!Empty)
              /\ unflushed' = unflushed \cup {d}
           \/ Unrecorded(s) /\ UNCHANGED <<truth, unflushed>>
    BY RecordEffect DEF d, s
  <1>5. MemInv' /\ DeviceOnly'
    BY <1>2, <1>4, TakeEffect DEF Core
  <1>6. Scalars'
    BY <1>2, ScalarsStay DEF Record, Core, Scalars
  <1>7. CASE /\ Recorded(d, s)
             /\ truth' = T!Put(T!Drop(truth, {d}),
                               IF s \in DOMAIN truth THEN one(d, Eval(<<truth[s]>>)) ELSE T!Empty)
             /\ unflushed' = unflushed \cup {d}
    <2>1. EpochInv'
      BY <1>3, <1>7 DEF Recorded, Core, EpochInv, Bound, GP!FlushResolves, GP!Names, GP!Members,
                        GP!Range, Mem!DevAddrs
    <2>2. Source(s) \in Poly
      BY <1>7 DEF Recorded, Source, Core, Values
    <2>3. \A x \in Bound' : poly_map'[x].val \in Poly
      <3>1. poly_map'[d].val \in Poly
        BY <1>7, <2>2, ResultIsPoly DEF Recorded
      <3>2. QED BY <1>7, <2>2, <3>1 DEF Recorded, Core, Values
    <2>4. Values'
      BY <1>2, <1>4, <2>3, TakenValues
    <2>5. DOMAIN truth' \subseteq DOMAIN truth \cup {d}
      BY <1>7 DEF T!Put, T!Drop, T!Restrict, T!Empty, one
    <2>6. GhostAddresses'
      BY <1>3, <1>4, <1>7, <2>5 DEF Core, GhostAddresses, Mem!DevAddrs
    <2>7. QED BY <1>2, <1>5, <1>6, <2>1, <2>4, <2>6 DEF Core
  <1>8. CASE Unrecorded(s) /\ UNCHANGED <<truth, unflushed>>
    <2>1. EpochInv'
      BY <1>8 DEF Unrecorded, Core, EpochInv, Bound, GP!FlushResolves, GP!Names, GP!Members,
                  GP!Range, Mem!DevAddrs
    <2>2. Values'
      BY <1>2, <1>4, <1>8, TakenValues DEF Unrecorded, Core, Values
    <2>3. GhostAddresses'
      BY <1>4, <1>8, GhostsStay DEF ghosts
    <2>4. QED BY <1>2, <1>5, <1>6, <2>1, <2>2, <2>3 DEF Core
  <1>9. QED BY <1>4, <1>7, <1>8

-----------------------------------------------------------------------------
(* Calls that take the epoch and the allocator in turn, or one of them. *)

LEMMA NobodyPopulates ==
  ASSUME Core, epoch_lock = NoThread
  PROVE  \A u \in Threads : call[u].at # "populate"
  BY ThreadsAssumption DEF Core, Locks

LEMMA MallocCore ==
  ASSUME Core, NEW t \in Threads, hazeMalloc(t)
  PROVE  /\ Core' /\ Moves(t, Idle) /\ call[t] = Idle
         /\ alloc_set \subseteq alloc_set' /\ UNCHANGED <<shadow_data, poly_bytes>>
         /\ Holds(alloc_set' \ alloc_set, T!Empty)
  <1> DEFINE new == alloc_set' \ alloc_set
  <1>1. /\ call[t] = Idle /\ UNCHANGED <<epochVars, config, backend, locks, call, delivered>>
        /\ owned' = [owned EXCEPT ![t] = @ \cup new] /\ Holds(new, T!Empty)
    BY DEF hazeMalloc, Starts
  <1>2. /\ MemInv' /\ DeviceOnly' /\ alloc_set \subseteq alloc_set'
        /\ UNCHANGED <<shadow_data, poly_bytes>>
        /\ alloc_set' # alloc_set => poly_bytes # 0
    BY AllocateEffect DEF hazeMalloc, Core
  <1>3. CallsShaped' /\ Moves(t, Idle)
    BY <1>1, StayStep DEF Core
  <1>4. EpochInv' /\ Pending' = Pending /\ Bound' = Bound
    BY <1>1, EpochStays DEF epochVars
  <1>5. Locks' /\ Delivering'
    BY <1>1, <1>3, <1>4, LocksStay, DeliveringStays, IdleFacts DEF Holding, config, epochVars
  <1>6. Scalars'
    BY <1>1, ScalarsStay DEF hazeMalloc, Core, Scalars, epochVars
  <1>7. Values'
    BY <1>1, <1>2 DEF Core, Values, Bound, Poly, epochVars
  <1>8. GhostAddresses'
    <2>1. new \subseteq Mem!DevAddrs
      BY <1>2 DEF DeviceOnly, Mem!DevAddrs
    <2>2. DOMAIN T!Empty \subseteq new
      BY DEF T!Empty
    <2> HIDE DEF new
    <2>3. DOMAIN truth' \cup unflushed' \cup overtaken' \subseteq Mem!DevAddrs
      BY <1>1, <2>1, <2>2, HoldsStep
    <2>4. owned' \in [Threads -> SUBSET Mem!DevAddrs]
      BY <1>1, <2>1 DEF Core, GhostAddresses
    <2>5. QED BY <2>3, <2>4 DEF GhostAddresses, Mem!DevAddrs
  <1>9. QED BY <1>1, <1>2, <1>3, <1>4, <1>5, <1>6, <1>7, <1>8 DEF Core

LEMMA FreeCore ==
  ASSUME Core, NEW t \in Threads, NEW a \in owned[t], hazeFree(t, a)
  PROVE  Core' /\ Moves(t, [at |-> "free", fn |-> "free", dst |-> a, src |-> Mem!Null, dim |-> 0])
  <1> DEFINE c == [at |-> "free", fn |-> "free", dst |-> a, src |-> Mem!Null, dim |-> 0]
  <1>1. /\ call[t] = Idle /\ UNCHANGED <<shadows, config, backend, locks, delivered>>
        /\ Invalidated(a) /\ Holds({a}, T!Empty) /\ owned' = [owned EXCEPT ![t] = @ \ {a}]
    BY DEF hazeFree, Starts
  <1>2. a \in Mem!DevAddrs /\ a \in Nat
    BY OwnedAreDevice
  <1>3. /\ EpochInv' /\ Bound' \subseteq Bound /\ \A x \in Bound' : poly_map'[x] = poly_map[x]
        /\ recording' = recording /\ epoch_lock = NoThread
    BY <1>1, <1>2, ForgetEffect DEF Core
  <1>4. MemInv' /\ DeviceOnly' /\ UNCHANGED <<shadow_data, alloc_set, poly_bytes>>
    BY <1>1, AllocatorStays DEF shadows
  <1>5. CallsShaped' /\ Moves(t, c)
    BY <1>2, EntersStep, NullIsNoAddress DEF hazeFree, Core, Steps, ApiNames, Shaped
  <1>6. Locks' /\ Delivering'
    BY <1>1, <1>3, <1>5, LocksStay, DeliveringStays, NobodyPopulates, IdleFacts DEF Holding, config
  <1>7. Scalars'
    BY <1>1, <1>3, ScalarsStay DEF hazeFree, Core, Scalars
  <1>8. Values'
    BY <1>3, <1>4 DEF Core, Values, Poly
  <1>9. GhostAddresses'
    <2>1. DOMAIN T!Empty \subseteq {a}
      BY DEF T!Empty
    <2>2. DOMAIN truth' \cup unflushed' \cup overtaken' \subseteq Mem!DevAddrs
      BY <1>1, <1>2, <2>1, HoldsStep
    <2>3. QED BY <1>1, <2>2 DEF Core, GhostAddresses, Mem!DevAddrs
  <1>10. QED BY <1>3, <1>4, <1>5, <1>6, <1>7, <1>8, <1>9 DEF Core

LEMMA ReleaseCore ==
  ASSUME Core, NEW t \in Threads, Release(t)
  PROVE  /\ Core' /\ Moves(t, Idle) /\ call[t].fn = "free"
         /\ alloc_set' = alloc_set \ {call[t].dst} /\ poly_bytes' = poly_bytes
         /\ DOMAIN shadow_data' = DOMAIN shadow_data \ {call[t].dst}
         /\ \A x \in DOMAIN shadow_data' : shadow_data'[x] = shadow_data[x]
  <1>1. /\ call[t].at = "free" /\ Mem!free(call[t].dst) /\ Returns(t)
        /\ UNCHANGED <<epochVars, config, backend, locks, delivered, ghosts>>
    BY DEF Release, At
  <1>2. call[t].fn = "free" /\ call[t].dst \in Mem!DevAddrs
    BY <1>1, IdleFacts DEF Core, CallsShaped, Shaped, SessionSteps, ResetSteps
  <1>3. /\ MemInv' /\ DeviceOnly' /\ poly_bytes' = poly_bytes
        /\ alloc_set' = alloc_set \ {call[t].dst}
        /\ DOMAIN shadow_data' = DOMAIN shadow_data \ {call[t].dst}
        /\ \A x \in DOMAIN shadow_data' : shadow_data'[x] = shadow_data[x]
    BY <1>1, <1>2, ReleaseEffect DEF Core
  <1>4. CallsShaped' /\ Moves(t, Idle)
    BY <1>1, ReturnsStep DEF Core
  <1>5. EpochInv' /\ GhostAddresses' /\ Pending' = Pending /\ Bound' = Bound
    BY <1>1, EpochStays, GhostsStay DEF epochVars
  <1>6. Locks' /\ Delivering'
    BY <1>1, <1>4, <1>5, LocksStay, DeliveringStays, IdleFacts DEF Holding, config, epochVars
  <1>7. Scalars'
    BY <1>1, ScalarsStay DEF Release, Core, Scalars, epochVars
  <1>8. Values'
    BY <1>1, <1>3 DEF Core, Values, Poly, Bound, epochVars
  <1>9. QED BY <1>2, <1>3, <1>4, <1>5, <1>6, <1>7, <1>8 DEF Core

LEMMA MemsetCore ==
  ASSUME Core, NEW t \in Threads, NEW a \in owned[t], hazeMemset(t, a)
  PROVE  /\ Core'
         /\ \/ Moves(t, Idle) /\ UNCHANGED <<allocations, shadow_data, truth, unflushed, overtaken>>
            \/ /\ Moves(t, [at |-> "memset", fn |-> "memset", dst |-> a, src |-> Mem!Null, dim |-> 0])
               /\ WritesOne(a) /\ a \in alloc_set /\ Holds({a}, T!Empty)
  <1> DEFINE c == [at |-> "memset", fn |-> "memset", dst |-> a, src |-> Mem!Null, dim |-> 0]
  <1>1. call[t] = Idle /\ UNCHANGED <<epochVars, config, backend, locks, delivered, owned>>
    BY DEF hazeMemset, Starts
  <1>2. /\ MemInv' /\ DeviceOnly'
        /\ IF err' = "Ok"
           THEN /\ a \in alloc_set /\ WritesOne(a)
                /\ a \in DOMAIN shadow_data' /\ shadow_data'[a] \in [1..poly_bytes -> Words]
           ELSE UNCHANGED <<shadow_data, allocations>>
    BY WriteEffect, UploadIsSeq DEF hazeMemset, Core
  <1>3. EpochInv' /\ Pending' = Pending /\ Bound' = Bound
    BY <1>1, EpochStays DEF epochVars
  <1>4. Scalars'
    BY <1>1, ScalarsStay DEF hazeMemset, Core, Scalars, epochVars
  <1>5. CASE err' = "Ok"
    <2>1. CallsShaped' /\ Moves(t, c)
      BY <1>5, EntersStep, OwnedAreDevice, NullIsNoAddress
      DEF hazeMemset, Core, Steps, ApiNames, Shaped
    <2>2. Locks' /\ Delivering'
      BY <1>1, <1>3, <2>1, LocksStay, DeliveringStays, IdleFacts DEF Holding, config, epochVars
    <2>3. Holds({a}, T!Empty)
      BY <1>5 DEF hazeMemset
    <2>4. GhostAddresses'
      BY <1>1, <2>3, HoldsStep, OwnedAreDevice DEF T!Empty, Core, GhostAddresses, Mem!DevAddrs
    <2>5. Values'
      BY <1>1, <1>2, <1>3, <1>5, WrittenValues DEF epochVars
    <2>6. QED BY <1>2, <1>3, <1>4, <1>5, <2>1, <2>2, <2>3, <2>4, <2>5 DEF Core
  <1>6. CASE err' # "Ok"
    <2>1. CallsShaped' /\ Moves(t, Idle) /\ UNCHANGED <<truth, unflushed, overtaken>>
      BY <1>1, <1>6, StayStep DEF hazeMemset, Core
    <2>2. Locks' /\ Delivering'
      BY <1>1, <1>3, <2>1, LocksStay, DeliveringStays, IdleFacts DEF Holding, config, epochVars
    <2>3. GhostAddresses' /\ Values'
      BY <1>1, <1>2, <1>6, <2>1, GhostsStay, ValuesStay DEF ghosts, epochVars, allocations
    <2>4. QED BY <1>2, <1>3, <1>4, <1>6, <2>1, <2>2, <2>3 DEF Core
  <1>7. QED BY <1>5, <1>6

LEMMA DropBindingCore ==
  ASSUME Core, NEW t \in Threads, DropBinding(t)
  PROVE  Core' /\ Moves(t, Idle) /\ call[t].fn = "memset" /\ call[t].dst \in Mem!DevAddrs
  <1> DEFINE a == call[t].dst
  <1>1. /\ call[t].at = "memset" /\ Invalidated(a) /\ Returns(t)
        /\ Written(a, Mem!Zeros(poly_bytes))
        /\ UNCHANGED <<shadows, config, backend, locks, delivered>>
    BY DEF DropBinding, At
  <1>2. call[t].fn = "memset" /\ a \in Mem!DevAddrs
    BY <1>1, IdleFacts DEF Core, CallsShaped, Shaped, SessionSteps, ResetSteps
  <1> HIDE DEF a
  <1>3. /\ EpochInv' /\ Bound' \subseteq Bound /\ \A x \in Bound' : poly_map'[x] = poly_map[x]
        /\ recording' = recording /\ epoch_lock = NoThread
    BY <1>1, <1>2, ForgetEffect DEF Core
  <1>4. MemInv' /\ DeviceOnly' /\ UNCHANGED <<shadow_data, alloc_set, poly_bytes>>
    BY <1>1, AllocatorStays DEF shadows
  <1>5. CallsShaped' /\ Moves(t, Idle)
    BY <1>1, ReturnsStep DEF Core
  <1>6. Locks' /\ Delivering'
    BY <1>1, <1>3, <1>5, LocksStay, DeliveringStays, NobodyPopulates, IdleFacts DEF Holding, config
  <1>7. Scalars'
    BY <1>1, <1>3, ScalarsStay DEF DropBinding, Core, Scalars
  <1>8. Values'
    BY <1>3, <1>4 DEF Core, Values, Poly
  <1>9. GhostAddresses'
    <2>1. PICK f : DOMAIN f \subseteq {a} /\ Holds({a}, f) /\ owned' = owned
      <3>1. DOMAIN T!Empty \subseteq {a} /\ DOMAIN one(a, Mem!Zeros(poly_bytes)) \subseteq {a}
        BY DEF T!Empty, one
      <3>2. QED BY <1>1, <3>1 DEF Written
    <2>2. QED BY <1>2, <2>1, HoldsStep DEF Core, GhostAddresses, Mem!DevAddrs
  <1>10. QED BY <1>2, <1>3, <1>4, <1>5, <1>6, <1>7, <1>8, <1>9 DEF Core, a

LEMMA TagOutputCore ==
  ASSUME Core, NEW t \in Threads, NEW a \in owned[t], hazeTagOutput(t, a)
  PROVE  /\ Core' /\ Moves(t, Idle) /\ call[t] = Idle /\ epoch_lock = NoThread
         /\ UNCHANGED <<poly_map, input_addrs, addr_modulus, shadow_data>>
  <1>1. /\ call[t] = Idle /\ epoch_lock = NoThread /\ Become(tag_output(Here, a))
        /\ UNCHANGED <<allocations, recording, config, backend, locks, call, delivered, ghosts>>
    BY DEF hazeTagOutput, Starts
  <1>2. /\ EpochInv' /\ UNCHANGED <<poly_map, input_addrs, addr_modulus, shadow_data>>
        /\ err' \in AP!Errors
    BY <1>1, OwnedAreDevice, TagOutputEffect DEF Core
  <1>3. MemInv' /\ DeviceOnly'
    BY <1>1, <1>2, SettleEffect DEF Core
  <1>4. CallsShaped' /\ Moves(t, Idle)
    BY <1>1, StayStep DEF Core
  <1>5. Locks' /\ Delivering'
    BY <1>1, <1>4, LocksStay, DeliveringStays, NobodyPopulates, IdleFacts DEF Holding, config
  <1>6. Scalars' /\ Values' /\ GhostAddresses'
    BY <1>1, <1>2, ScalarsStay, ValuesStay, GhostsStay DEF hazeTagOutput, Core, Scalars, allocations
  <1>7. QED BY <1>1, <1>2, <1>3, <1>4, <1>5, <1>6 DEF Core

-----------------------------------------------------------------------------
(* Flush. *)

LEMMA FlushCore ==
  ASSUME Core, NEW t \in Threads, hazeFlush(t)
  PROVE  /\ Core'
         /\ \/ Moves(t, Idle)
            \/ Moves(t, [at |-> "flush", fn |-> "flush", dst |-> Mem!Null, src |-> Mem!Null, dim |-> 0])
  <1> DEFINE c == [at |-> "flush", fn |-> "flush", dst |-> Mem!Null, src |-> Mem!Null, dim |-> 0]
  <1>1. /\ call[t] = Idle /\ montgomery' \in BOOLEAN /\ raced' \in BOOLEAN
        /\ UNCHANGED <<shadows, epochVars, config, backend, locks, delivered, ghosts>>
    BY RacedStep DEF hazeFlush, Starts, Core, Scalars, config
  <1>2. CASE UNCHANGED call
    <2>1. CallsShaped' /\ Moves(t, Idle)
      BY <1>1, <1>2, StayStep DEF Core
    <2>2. QED BY <1>1, <2>1, ControlCore, IdleFacts DEF Holding, config
  <1>3. CASE Enters(t, "flush", "flush", Mem!Null, Mem!Null)
    <2>1. CallsShaped' /\ Moves(t, c)
      BY <1>3, EntersStep, NullIsNoAddress DEF Core, Steps, ApiNames, Shaped
    <2>2. Core'
      BY <1>1, <2>1, ControlCore, IdleFacts DEF Holding, config
    <2>3. QED BY <2>1, <2>2
  <1>4. QED BY <1>2, <1>3 DEF hazeFlush

(* A flush that delivers nothing leaves the epoch alone, or ends it. *)
LEMMA FinishEffect ==
  ASSUME NEW fault, fault # "result", fault # "none" \/ ~recording \/ NothingPending \/ ~Resolvable,
         finalize(TRUE, fault, {})
  PROVE  \/ SameEpoch /\ UNCHANGED <<shadow_data, recording>> /\ err' \in AP!Errors
         \/ recording /\ \E e \in AP!Errors : ended(Here, e)
  <1>1. ASSUME NEW e, kept(e), e \in AP!Errors
        PROVE  SameEpoch /\ UNCHANGED <<shadow_data, recording>> /\ err' \in AP!Errors
    BY <1>1 DEF kept, Become, Here, SameEpoch
  <1>2. {"Ok", "MissingPolyMapBinding", "BackendReplayFailed", "BridgeHookFailed"} \subseteq AP!Errors
    BY DEF AP!Errors
  <1>3. \/ kept("Ok") \/ kept("MissingPolyMapBinding")
        \/ recording /\ (ended(Here, "Ok") \/ ended(Here, "BackendReplayFailed") \/ ended(Here, "BridgeHookFailed"))
    BY DEF finalize
  <1>4. QED BY <1>1, <1>2, <1>3

LEMMA FinishCore ==
  ASSUME Core, NEW done, EpochEnds(done)
  PROVE  GhostAddresses' /\ UNCHANGED <<owned, overtaken>>
         /\ unflushed' = unflushed \ done
         /\ truth' = IF recording /\ ~recording' THEN T!Drop(truth, unflushed') ELSE truth
  <1>1. /\ UNCHANGED <<owned, overtaken>> /\ unflushed' = unflushed \ done
        /\ truth' = IF recording /\ ~recording' THEN T!Drop(truth, unflushed') ELSE truth
    BY DEF EpochEnds
  <1>2. DOMAIN truth' \subseteq DOMAIN truth
    <2>1. CASE recording /\ ~recording'
      BY <1>1, <2>1 DEF T!Drop, T!Restrict
    <2>2. CASE ~(recording /\ ~recording')
      BY <1>1, <2>2
    <2>3. QED BY <2>1, <2>2
  <1>3. QED BY <1>1, <1>2 DEF Core, GhostAddresses, Mem!DevAddrs

(* How a flush that starts goes on. *)
Finishes(t) ==
  /\ \/ SameEpoch /\ UNCHANGED <<shadow_data, recording>> /\ err' \in AP!Errors
     \/ recording /\ \E e \in AP!Errors : ended(Here, e)
  /\ EpochEnds({}) /\ Returns(t) /\ UNCHANGED <<epoch_lock, delivered>>

Delivers(t) ==
  /\ recording /\ epoch_lock' = t /\ delivered' = {} /\ GoesTo(t, "populate")
  /\ UNCHANGED <<epochVars, shadow_data, err, truth, unflushed, owned, overtaken>>

LEMMA FlushStartEffect ==
  ASSUME NEW t, FlushStart(t)
  PROVE  /\ call[t].at = "flush" /\ epoch_lock = NoThread
         /\ UNCHANGED <<allocations, config, backend, init_lock, config_lock>>
         /\ Finishes(t) \/ Delivers(t)
  <1>1. /\ call[t].at = "flush" /\ epoch_lock = NoThread
        /\ UNCHANGED <<allocations, config, backend, init_lock, config_lock>>
    BY DEF FlushStart, At
  <1>2. ASSUME NEW fault \in (Faults \ {"init", "result"}) \cup {"none"},
               fault # "none" \/ ~recording \/ NothingPending \/ ~Resolvable,
               finalize(TRUE, fault, {}), EpochEnds({}), Returns(t), UNCHANGED <<epoch_lock, delivered>>
        PROVE  Finishes(t)
    BY <1>2, FinishEffect DEF Finishes
  <1>3. QED BY <1>1, <1>2 DEF FlushStart, Delivers

LEMMA FlushStartCore ==
  ASSUME Core, NEW t \in Threads, FlushStart(t)
  PROVE  Core' /\ (Moves(t, Idle) \/ Moves(t, Next_(t, "populate")))
  <1>1. /\ call[t].at = "flush" /\ epoch_lock = NoThread
        /\ UNCHANGED <<allocations, config, backend, init_lock, config_lock>>
        /\ Finishes(t) \/ Delivers(t)
    BY FlushStartEffect
  <1>2. call[t].fn = "flush"
    BY <1>1, IdleFacts DEF Core, CallsShaped, Shaped, SessionSteps, ResetSteps
  <1>3. At(t, "flush")
    BY DEF FlushStart
  <1>4. CASE Finishes(t)
    <2>1. CallsShaped' /\ Moves(t, Idle)
      BY <1>4, ReturnsStep DEF Core, Finishes
    <2>2. Locks' /\ Delivering'
      BY <1>1, <1>4, <2>1, LocksStay, DeliveringStays, NobodyPopulates, IdleFacts
      DEF Holding, locks, config, Finishes
    <2>3. GhostAddresses'
      BY <1>4, FinishCore DEF Finishes
    <2>4. shadow_data' = shadow_data /\ err' \in AP!Errors /\ recording' \in BOOLEAN
          /\ EpochInv' /\ Values'
      <3>1. CASE SameEpoch /\ UNCHANGED <<shadow_data, recording>> /\ err' \in AP!Errors
        BY <1>1, <3>1, EpochStays, ValuesStay DEF SameEpoch, Core, Scalars, allocations
      <3>2. ASSUME NEW e \in AP!Errors, ended(Here, e)
            PROVE  shadow_data' = shadow_data /\ err' \in AP!Errors /\ recording' \in BOOLEAN
                   /\ EpochInv' /\ Values'
        <4>1. /\ EpochInv' /\ Bound' = {} /\ recording' = FALSE /\ err' = e
              /\ shadow_data' = shadow_data
          BY <3>2, ClearEffect
        <4>2. Values'
          BY <1>1, <4>1 DEF Core, Values, Poly, allocations
        <4>3. QED BY <3>2, <4>1, <4>2
      <3>3. QED BY <1>4, <3>1, <3>2 DEF Finishes
    <2>5. MemInv' /\ DeviceOnly'
      BY <1>1, <2>4, SettleEffect DEF Core
    <2>6. Scalars'
      BY <1>1, <1>3, <2>4, ScalarsStay
    <2>7. QED BY <2>1, <2>2, <2>3, <2>4, <2>5, <2>6 DEF Core
  <1>5. CASE Delivers(t)
    <2>1. CallsShaped' /\ Moves(t, Next_(t, "populate"))
      BY <1>2, <1>5, GoesToStep DEF Delivers, Core, Steps, Shaped, Next_
    <2>2. Locks'
      BY <1>1, <1>5, <2>1, ThreadsAssumption DEF Core, Locks, Moves, Delivers, Next_, config
    <2>3. recording' = recording /\ recording
      BY <1>5 DEF Delivers, epochVars
    <2>4. EpochInv' /\ Values' /\ GhostAddresses'
      BY <1>1, <1>5, EpochStays, ValuesStay, GhostsStay DEF Delivers, epochVars, ghosts, allocations
    <2>5. Delivering'
      <3>1. \A u \in Threads : call[u].at # "populate"
        BY <1>1, NobodyPopulates
      <3>2. \A u \in Threads : call'[u].at = "populate" => u = t
        BY <2>1, <3>1 DEF Moves
      <3>3. QED BY <1>5, <2>3, <3>2 DEF Delivering, Delivers, Pending
    <2>6. MemInv' /\ DeviceOnly'
      BY <1>1, <1>5, AllocatorStays DEF Delivers, shadows, allocations
    <2>7. Scalars'
      BY <1>1, <1>3, <2>3, ScalarsStay DEF Core, Scalars
    <2>8. QED BY <2>1, <2>2, <2>4, <2>5, <2>6, <2>7 DEF Core
  <1>6. QED BY <1>1, <1>4, <1>5

(* What is read back for an output is the polynomial its name was tagged on. *)
LEMMA ResultIsBound ==
  ASSUME Core, NEW a \in Pending
  PROVE  \E b \in Pending \cap Bound : /\ reg.pending_outputs[b] = reg.pending_outputs[a]
                                       /\ ResultAt(a) = poly_map[b].val
  <1> DEFINE b == CHOOSE x \in Pending : reg.pending_outputs[x] = reg.pending_outputs[a]
  <1>1. b \in Pending /\ reg.pending_outputs[b] = reg.pending_outputs[a]
    OBVIOUS
  <1>2. ResultAt(a) = poly_map[b].val
    BY DEF ResultAt
  <1>3. Pending \subseteq Bound
    BY DEF Core, EpochInv, GP!FlushResolves, Pending, Bound
  <1>4. QED BY <1>1, <1>2, <1>3

LEMMA PolyIsSeq == Poly \subseteq Seq(Words)
  BY PolySizesAssumption, SeqDef DEF Poly

LEMMA PopulateCore ==
  ASSUME Core, NEW t \in Threads, Populate(t)
  PROVE  /\ Core' /\ call[t].at = "populate" /\ call' = call
         /\ \E a \in (Pending \ delivered) \cap alloc_set :
              /\ WritesOne(a) /\ delivered' = delivered \cup {a}
              /\ a \in DOMAIN shadow_data' /\ shadow_data'[a] \in [1..poly_bytes -> Words]
              /\ Mem!update_shadow(a, ResultAt(a))
              /\ overtaken' = overtaken \cup {call[u].dst : u \in {v \in Threads :
                                   call[v].fn \in {"h2d", "memset"} /\ call[v].dst = a}}
  <1>1. PICK a \in (Pending \ delivered) \cap alloc_set :
              /\ Mem!update_shadow(a, ResultAt(a))
              /\ delivered' = delivered \cup {a}
              /\ overtaken' = overtaken \cup {call[u].dst : u \in {v \in Threads :
                                   call[v].fn \in {"h2d", "memset"} /\ call[v].dst = a}}
    BY DEF Populate
  <1>2. /\ At(t, "populate")
        /\ UNCHANGED <<epochVars, config, backend, locks, call, owned, truth, unflushed>>
    BY DEF Populate
  <1>3. ResultAt(a) \in Seq(Words)
    BY <1>1, ResultIsBound, PolyIsSeq DEF Core, Values
  <1>4. err' = "Ok"
    BY <1>1 DEF Mem!update_shadow, Mem!set_shadow
  <1>5. /\ MemInv' /\ DeviceOnly' /\ WritesOne(a)
        /\ a \in DOMAIN shadow_data' /\ shadow_data'[a] \in [1..poly_bytes -> Words]
    BY <1>1, <1>3, <1>4, WriteEffect DEF Core
  <1>6. EpochInv' /\ Pending' = Pending /\ Bound' = Bound
    BY <1>2, EpochStays DEF epochVars
  <1>7. Values'
    BY <1>1, <1>2, <1>5, <1>6, WrittenValues DEF epochVars
  <1>8. CallsShaped' /\ Locks' /\ Scalars'
    <2>1. CallsShaped' /\ Locks'
      BY <1>2 DEF Core, CallsShaped, Locks, locks, config, Shaped, Mem!DevAddrs
    <2>2. Scalars'
      BY <1>2, ScalarsStay DEF Core, Scalars, epochVars
    <2>3. QED BY <2>1, <2>2
  <1>9. GhostAddresses'
    <2>1. overtaken' \subseteq overtaken \cup {a}
      BY <1>1
    <2>2. a \in Mem!DevAddrs
      BY <1>1 DEF Core, DeviceOnly
    <2>3. QED BY <1>2, <2>1, <2>2 DEF Core, GhostAddresses, Mem!DevAddrs
  <1>10. Delivering'
    BY <1>1, <1>2, <1>6 DEF Core, Delivering, At, epochVars
  <1>11. QED BY <1>1, <1>2, <1>5, <1>6, <1>7, <1>8, <1>9, <1>10 DEF Core, At

LEMMA FlushEndCore ==
  ASSUME Core, NEW t \in Threads, FlushEnd(t)
  PROVE  /\ Core' /\ Moves(t, Idle) /\ call[t].at = "populate" /\ recording
         /\ EpochEnds(delivered) /\ Bound' = {} /\ input_addrs' = {} /\ DOMAIN addr_modulus' = {}
         /\ recording' = FALSE /\ delivered' = {} /\ UNCHANGED <<shadow_data, allocations>>
  <1>1. /\ call[t].at = "populate" /\ At(t, "populate") /\ EpochEnds(delivered)
        /\ epoch_lock' = NoThread /\ delivered' = {} /\ Returns(t)
        /\ UNCHANGED <<allocations, config, backend, init_lock, config_lock>>
    BY DEF FlushEnd, At
  <1>2. PICK e \in AP!Errors : ended(Here, e)
    <2>1. {"Ok", "UnknownAddress", "BackendOutputMissing"} \subseteq AP!Errors
      BY DEF AP!Errors
    <2>2. QED BY <2>1 DEF FlushEnd
  <1>3. /\ EpochInv' /\ Pending' = {} /\ Bound' = {} /\ input_addrs' = {}
        /\ DOMAIN addr_modulus' = {} /\ recording' = FALSE /\ err' = e
        /\ shadow_data' = shadow_data
    BY <1>2, ClearEffect
  <1>4. CallsShaped' /\ Moves(t, Idle)
    BY <1>1, ReturnsStep DEF Core
  <1>5. epoch_lock = t /\ recording
    BY <1>1 DEF Core, Locks, Delivering
  <1>6. Locks'
    BY <1>1, <1>4, <1>5, IdleFacts, ThreadsAssumption DEF Core, Locks, Moves, config
  <1>7. Delivering'
    <2>1. \A u \in Threads : call'[u].at # "populate"
      BY <1>1, <1>4, <1>5, IdleFacts DEF Core, Locks, Moves
    <2>2. QED BY <1>1, <2>1 DEF Delivering
  <1>8. MemInv' /\ DeviceOnly'
    BY <1>1, <1>3, SettleEffect DEF Core
  <1>9. Scalars'
    BY <1>1, <1>3, ScalarsStay
  <1>10. Values'
    BY <1>1, <1>3 DEF Core, Values, Poly, allocations
  <1>11. GhostAddresses'
    BY <1>1, FinishCore
  <1>12. QED BY <1>1, <1>3, <1>4, <1>5, <1>6, <1>7, <1>8, <1>9, <1>10, <1>11 DEF Core

-----------------------------------------------------------------------------
(* Device reset. *)

LEMMA ResetShape ==
  ASSUME Core, NEW t \in Threads, call[t].at \in ResetSteps, NEW step \in ResetSteps
  PROVE  call[t].fn = "reset" /\ Shaped(Next_(t, step))
  BY IdleFacts DEF Core, CallsShaped, Shaped, SessionSteps, ResetSteps, Next_

LEMMA DeviceResetCore ==
  ASSUME Core, NEW t \in Threads, hazeDeviceReset(t)
  PROVE  /\ Core' /\ call[t] = Idle
         /\ Moves(t, [at |-> "reset.backend", fn |-> "reset", dst |-> Mem!Null, src |-> Mem!Null, dim |-> 0])
         /\ Bound' = {} /\ input_addrs' = {} /\ DOMAIN addr_modulus' = {} /\ recording' = FALSE
  <1> DEFINE c == [at |-> "reset.backend", fn |-> "reset", dst |-> Mem!Null, src |-> Mem!Null, dim |-> 0]
  <1>1. /\ call[t] = Idle /\ epoch_lock = NoThread /\ ended(Here, "Ok")
        /\ raced' = ~OthersIdle(t)
        /\ UNCHANGED <<allocations, config, backend, locks, delivered, ghosts>>
    BY DEF hazeDeviceReset
  <1>2. /\ EpochInv' /\ Pending' = {} /\ Bound' = {} /\ input_addrs' = {}
        /\ DOMAIN addr_modulus' = {} /\ recording' = FALSE /\ err' = "Ok"
        /\ shadow_data' = shadow_data
    BY <1>1, ClearEffect
  <1>3. CallsShaped' /\ Moves(t, c)
    BY EntersStep, NullIsNoAddress DEF hazeDeviceReset, Core, Steps, ResetSteps, ApiNames, Shaped
  <1>4. Locks' /\ Delivering'
    BY <1>1, <1>3, LocksStay, DeliveringStays, NobodyPopulates, IdleFacts DEF Holding, config
  <1>5. MemInv' /\ DeviceOnly'
    BY <1>1, <1>2, SettleEffect DEF Core, AP!Errors
  <1>6. Scalars'
    <2>1. raced' \in BOOLEAN
      BY <1>1
    <2>2. QED BY <1>1, <1>2, <2>1 DEF Core, Scalars, config, backend
  <1>7. Values' /\ GhostAddresses'
    BY <1>1, <1>2, GhostsStay DEF Core, Values, Poly, allocations
  <1>8. QED BY <1>1, <1>2, <1>3, <1>4, <1>5, <1>6, <1>7 DEF Core

LEMMA ResetBackendCore ==
  ASSUME Core, NEW t \in Threads, ResetBackend(t)
  PROVE  Core' /\ Moves(t, Next_(t, "reset.allocator")) /\ call[t].fn = "reset"
  <1>1. /\ call[t].at = "reset.backend" /\ At(t, "reset.backend") /\ initialized' = FALSE
        /\ UNCHANGED <<shadows, epochVars, config, inits, locks, delivered, ghosts>>
    BY DEF ResetBackend, At
  <1>2. call[t].fn = "reset" /\ CallsShaped' /\ Moves(t, Next_(t, "reset.allocator"))
    BY <1>1, ResetShape, GoesToStep DEF ResetBackend, Core, ResetSteps, Steps, Next_
  <1>3. MemInv' /\ DeviceOnly' /\ EpochInv' /\ Values' /\ GhostAddresses' /\ Pending' = Pending
    BY <1>1, AllocatorStays, EpochStays, ValuesStay, GhostsStay DEF shadows, epochVars
  <1>4. Locks' /\ Delivering'
    BY <1>1, <1>2, <1>3, LocksStay, DeliveringStays DEF Holding, config, epochVars, Next_
  <1>5. Scalars'
    BY <1>1, RacedStep DEF Core, Scalars, epochVars, config
  <1>6. QED BY <1>2, <1>3, <1>4, <1>5 DEF Core

LEMMA ResetAllocatorCore ==
  ASSUME Core, NEW t \in Threads, ResetAllocator(t)
  PROVE  /\ Core' /\ Moves(t, Next_(t, "reset.config")) /\ call[t].fn = "reset"
         /\ alloc_set' = {} /\ DOMAIN shadow_data' = {} /\ poly_bytes' = 0
         /\ owned' = [u \in Threads |-> {}] /\ DOMAIN truth' = {} /\ unflushed' = {} /\ overtaken' = {}
  <1>1. /\ call[t].at = "reset.allocator" /\ At(t, "reset.allocator") /\ Mem!reset
        /\ owned' = [u \in Threads |-> {}] /\ Holds(Mem!DevAddrs, T!Empty)
        /\ UNCHANGED <<epochVars, config, backend, locks, delivered>>
    BY DEF ResetAllocator, At
  <1>2. call[t].fn = "reset" /\ CallsShaped' /\ Moves(t, Next_(t, "reset.config"))
    BY <1>1, ResetShape, GoesToStep DEF ResetAllocator, Core, ResetSteps, Steps, Next_
  <1>3. /\ MemInv' /\ DeviceOnly'
        /\ alloc_set' = {} /\ DOMAIN shadow_data' = {} /\ poly_bytes' = 0
    BY <1>1, ResetEffect
  <1>4. EpochInv' /\ Pending' = Pending /\ Bound' = Bound
    BY <1>1, EpochStays DEF epochVars
  <1>5. DOMAIN truth' = {} /\ unflushed' = {} /\ overtaken' = {}
    <2>1. DOMAIN T!Empty = {} /\ Mem!DevAddrs \in SUBSET Mem!DevAddrs
      BY DEF T!Empty
    <2>2. /\ DOMAIN truth' = DOMAIN truth \ Mem!DevAddrs
          /\ unflushed' = unflushed \ Mem!DevAddrs /\ overtaken' = overtaken \ Mem!DevAddrs
      BY <1>1, <2>1, HoldsStep
    <2>3. QED BY <2>2 DEF Core, GhostAddresses
  <1>6. GhostAddresses' /\ Values'
    BY <1>1, <1>3, <1>4, <1>5 DEF GhostAddresses, Values, Poly, Core, Bound, epochVars
  <1>7. Locks' /\ Delivering'
    BY <1>1, <1>2, <1>4, LocksStay, DeliveringStays DEF Holding, config, epochVars, Next_
  <1>8. Scalars'
    BY <1>1, ScalarsStay DEF Core, Scalars, epochVars
  <1>9. QED BY <1>1, <1>2, <1>3, <1>4, <1>5, <1>6, <1>7, <1>8 DEF Core

LEMMA ResetConfigCore ==
  ASSUME Core, NEW t \in Threads, ResetConfig(t)
  PROVE  Core' /\ Moves(t, Next_(t, "reset.compiler")) /\ call[t].fn = "reset"
  <1>1. /\ call[t].at = "reset.config" /\ At(t, "reset.config") /\ config_lock = NoThread
        /\ ring_dim' = 0 /\ montgomery' = FALSE
        /\ UNCHANGED <<shadows, epochVars, backend, locks, delivered, ghosts>>
    BY DEF ResetConfig, At
  <1>2. call[t].fn = "reset" /\ CallsShaped' /\ Moves(t, Next_(t, "reset.compiler"))
    BY <1>1, ResetShape, GoesToStep DEF ResetConfig, Core, ResetSteps, Steps, Next_
  <1>3. MemInv' /\ DeviceOnly' /\ EpochInv' /\ Values' /\ GhostAddresses' /\ Pending' = Pending
    BY <1>1, AllocatorStays, EpochStays, ValuesStay, GhostsStay DEF shadows, epochVars
  <1>4. Locks' /\ Delivering'
    BY <1>1, <1>2, <1>3, LocksStay, DeliveringStays DEF Holding, epochVars, Next_
  <1>5. Scalars'
    BY <1>1, RacedStep DEF Core, Scalars, epochVars, backend
  <1>6. QED BY <1>2, <1>3, <1>4, <1>5 DEF Core

LEMMA ResetCompilerCore ==
  ASSUME Core, NEW t \in Threads, ResetCompiler(t)
  PROVE  Core' /\ Moves(t, Idle) /\ call[t].fn = "reset"
  <1>1. /\ call[t].at = "reset.compiler" /\ At(t, "reset.compiler") /\ inits' = 0 /\ Returns(t)
        /\ UNCHANGED <<shadows, epochVars, config, initialized, locks, delivered, ghosts>>
    BY DEF ResetCompiler, At
  <1>2. call[t].fn = "reset" /\ CallsShaped' /\ Moves(t, Idle)
    BY <1>1, ResetShape, ReturnsStep DEF Core, ResetSteps
  <1>3. MemInv' /\ DeviceOnly' /\ EpochInv' /\ Values' /\ GhostAddresses' /\ Pending' = Pending
    BY <1>1, AllocatorStays, EpochStays, ValuesStay, GhostsStay DEF shadows, epochVars
  <1>4. Locks' /\ Delivering'
    BY <1>1, <1>2, <1>3, LocksStay, DeliveringStays, IdleFacts DEF Holding, config, epochVars
  <1>5. Scalars'
    BY <1>1, RacedStep DEF Core, Scalars, epochVars, config
  <1>6. QED BY <1>2, <1>3, <1>4, <1>5 DEF Core

-----------------------------------------------------------------------------
LEMMA InitCore == Init => Core
  <1> SUFFICES ASSUME Init PROVE Core
    OBVIOUS
  <1>1. MemInv
    BY AddrAssumption
    DEF Init, Mem!Init, Mem!Empty, AP!Empty, MemInv, AP!Inv, AP!TypeOK, AP!Errors, AP!NoAlias,
        AP!PoolNotLive, AP!PoolDistinct, AP!BelowNext, AP!Range
  <1>2. DeviceOnly
    BY DEF Init, Mem!Init, DeviceOnly, Mem!Range
  <1>3. CallsShaped
    BY IdleFacts, NullIsNoAddress DEF Init, CallsShaped
  <1>4. Locks
    BY IdleFacts, ThreadsAssumption DEF Init, Locks
  <1>5. GhostAddresses /\ Scalars /\ Values
    <2>1. GhostAddresses
      BY DEF Init, T!Empty, GhostAddresses
    <2>2. ring_dim \in PolySizes \cup {0} /\ inits \in 0..2
      BY DEF Init
    <2>3. /\ montgomery = FALSE /\ initialized = FALSE /\ recording = FALSE /\ raced = FALSE
      BY Zenon DEF Init
    <2>4. /\ montgomery \in BOOLEAN /\ initialized \in BOOLEAN
          /\ recording \in BOOLEAN /\ raced \in BOOLEAN
      BY <2>3, Zenon
    <2>5. Values
      BY DEF Init, Mem!Init, Mem!Empty, T!Empty, Values, Bound
    <2>6. QED BY <2>1, <2>2, <2>4, <2>5, Zenon DEF Scalars
  <1>6. EpochInv /\ Pending = {}
    <2>1. reg = GP!NewRegistry
      BY DEF Init, Groups!NewRegistry, GP!NewRegistry, Groups!Empty, GP!Empty
    <2>2. QED BY <2>1, GP!NewRegistryGood, GroupBases
          DEF Init, T!Empty, EpochInv, Bound, Pending, GP!FlushResolves, GP!Names
  <1>7. Delivering
    BY <1>6, IdleFacts DEF Init, Delivering
  <1>8. QED BY <1>1, <1>2, <1>3, <1>4, <1>5, <1>6, <1>7 DEF Core

LEMMA ManageCore ==
  ASSUME Core, NEW t \in Threads, Manage(t)
  PROVE  Core'
  BY RingDimensionCore, MontgomeryCore, DeviceResetCore DEF Manage

LEMMA BeginCore ==
  ASSUME Core, NEW t \in Threads, Begin(t)
  PROVE  Core'
  BY ManageCore, MallocCore, FreeCore, MemsetCore, CopyCore, TagOutputCore, OperationCore, FlushCore
  DEF Begin

LEMMA ContinueCore ==
  ASSUME Core, NEW t \in Threads, Continue(t)
  PROVE  Core'
  BY ResizeCore, FastPathCore, LockInitCore, InitBackendCore, EnterEpochCore, ReadRingDimCore,
     TagInputCore, RecordCore, ReleaseCore, DropBindingCore, FlushStartCore, PopulateCore, FlushEndCore,
     ResetBackendCore, ResetAllocatorCore, ResetConfigCore, ResetCompilerCore
  DEF Continue

LEMMA StutterCore ==
  ASSUME Core, UNCHANGED threads
  PROVE  Core'
  <1>1. /\ UNCHANGED <<shadows, epochVars, config, backend, locks, delivered, ghosts>>
        /\ call' = call /\ raced' = raced
    BY DEF threads
  <1>2. MemInv' /\ DeviceOnly' /\ EpochInv' /\ Values' /\ GhostAddresses' /\ Pending' = Pending
    BY <1>1, AllocatorStays, EpochStays, ValuesStay, GhostsStay DEF shadows, epochVars
  <1>3. CallsShaped' /\ Locks'
    BY <1>1 DEF Core, CallsShaped, Locks, locks, config, Shaped, Mem!DevAddrs
  <1>4. Scalars' /\ Delivering'
    BY <1>1, <1>2 DEF Core, Scalars, Delivering, epochVars, config, backend
  <1>5. QED BY <1>2, <1>3, <1>4 DEF Core

LEMMA CoreInvariant == Spec => []Core
  <1>1. Core /\ [Next]_threads => Core'
    BY BeginCore, ContinueCore, StutterCore DEF Next
  <1>2. QED BY <1>1, InitCore, PTL DEF Spec

(* Whatever a device reset races with, and whatever calls follow, a flush finds the     *)
(* bindings of all it exports (epoch.cpp:314-369).                                      *)
THEOREM RacesSurvived == Spec => []SurvivesRaces
  <1>1. Core => SurvivesRaces
    BY DEF Core, EpochInv, SurvivesRaces, GP!FlushResolves, Groups!FlushResolves, GP!Names,
           Groups!Names, GP!Members, Groups!Members, GP!Range, Groups!Range
  <1>2. QED BY <1>1, CoreInvariant, PTL

(* Whatever threads there are, and wherever they are in their calls, no mutex is left    *)
(* locked behind a call, and waits do not go round: the epoch's and the init mutex are   *)
(* held while Config's is wanted, and that one only while the allocator's is            *)
(* (epoch.cpp:509-514, backend.cpp:45-51, config.cpp:44-46).                            *)
THEOREM NoCircularWait == Spec => []EveryWaitEnds
  <1>1. ASSUME Core PROVE EveryWaitEnds
    <2>1. SUFFICES ASSUME NEW h \in {epoch_lock, init_lock, config_lock} \ {NoThread}
                   PROVE  call[h] # Idle /\ (Awaited(h) # NoThread => Awaited(Awaited(h)) = NoThread)
      BY DEF EveryWaitEnds
    <2>2. h \in Threads /\ call[h].at \in {"locked", "read", "populate", "init", "resize"}
      BY <1>1, <2>1 DEF Core, Locks
    <2>3. call[h] # Idle
      BY <2>2, IdleFacts
    <2>4. Awaited(h) \in {config_lock, NoThread}
      BY <2>2 DEF Awaited
    <2>5. ASSUME config_lock # NoThread PROVE Awaited(config_lock) = NoThread
      <3>1. call[config_lock].at = "resize"
        BY <1>1, <2>5 DEF Core, Locks
      <3>2. QED BY <3>1 DEF Awaited
    <2>6. QED BY <2>3, <2>4, <2>5
  <1>2. QED BY <1>1, CoreInvariant, PTL
=============================================================================
