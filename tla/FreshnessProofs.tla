--------------------------- MODULE FreshnessProofs ---------------------------
(***************************************************************************)
(* What a thread reads back is what it last gave, in a device whose        *)
(* polynomials are all of one size.  With another size in force a flush    *)
(* cuts or pads what it brings back (allocator.cpp:323-335), and a shorter *)
(* upload is laid over the words that were there: the address then does    *)
(* not hold what the call was given, which is what `truth` says.           *)
(***************************************************************************)
EXTENDS SettledProofs

SoleSize == CHOOSE n \in PolySizes : TRUE
OneSize == PolySizes = {SoleSize}

LEMMA SizeFacts ==
  ASSUME Core, OneSize
  PROVE  /\ SoleSize \in Nat \ {0} /\ Poly = [1..SoleSize -> Words]
         /\ alloc_set # {} => poly_bytes = SoleSize
         /\ Upload \in Poly /\ Mem!Zeros(SoleSize) \in Poly
  <1>1. SoleSize \in Nat \ {0} /\ Poly = [1..SoleSize -> Words]
    BY PolySizesAssumption DEF OneSize, Poly
  <1>2. alloc_set # {} => poly_bytes = SoleSize
    BY MemFacts DEF Core, Values, OneSize
  <1>3. Upload \in Poly
    BY UploadAssumption DEF Poly
  <1>4. Mem!Zeros(SoleSize) \in Poly
    BY <1>1, WordsAssumption DEF Mem!Zeros
  <1>5. QED BY <1>1, <1>2, <1>3, <1>4

(* A whole polynomial, written, is the whole shadow. *)
LEMMA WholeWrite ==
  ASSUME Core, OneSize, poly_bytes = SoleSize, NEW a, NEW v \in [1..SoleSize -> Words]
  PROVE  Mem!Overlay(Mem!Staged(a), v) = v
  <1>1. Len(Mem!Staged(a)) = SoleSize
    <2>1. CASE a \in DOMAIN shadow_data /\ Len(shadow_data[a]) = poly_bytes
      BY <2>1 DEF Mem!Staged
    <2>2. Len(Mem!Zeros(poly_bytes)) = SoleSize
      BY SizeFacts DEF Mem!Zeros
    <2>3. QED BY <2>1, <2>2 DEF Mem!Staged
  <1>2. Len(v) = SoleSize
    BY SizeFacts
  <1>3. QED BY <1>1, <1>2, SizeFacts DEF Mem!Overlay

LEMMA UploadWrites ==
  ASSUME Core, OneSize, NEW a, Mem!copy_h2d(a, Upload), err' = "Ok"
  PROVE  a \in DOMAIN shadow_data' /\ shadow_data'[a] = Upload /\ a \in alloc_set
  <1>1. a \in alloc_set /\ err' = "Ok"
    BY UploadIsSeq, WriteEffect DEF Core
  <1>2. poly_bytes = SoleSize /\ Upload \in [1..SoleSize -> Words]
    BY <1>1, SizeFacts
  <1>3. Mem!set_shadow(Mem!Written([x \in {a} |-> Upload]))
    <2>1. ASSUME NEW e, e # "Ok", Mem!fail(e) PROVE FALSE
      BY <1>1, <2>1 DEF Mem!fail
    <2>2. QED BY <2>1 DEF Mem!copy_h2d
  <1>4. a \in DOMAIN shadow_data' /\ shadow_data'[a] = Mem!Overlay(Mem!Staged(a), Upload)
    BY <1>3 DEF Mem!set_shadow, Mem!Written, Mem!Put
  <1>5. QED BY <1>1, <1>2, <1>4, WholeWrite

LEMMA MemsetWrites ==
  ASSUME Core, OneSize, NEW a, Mem!memset(a, 0, poly_bytes), err' = "Ok"
  PROVE  /\ a \in DOMAIN shadow_data' /\ shadow_data'[a] = Mem!Zeros(SoleSize)
         /\ a \in alloc_set /\ poly_bytes = SoleSize
  <1>1. a \in alloc_set
    BY UploadIsSeq, WriteEffect DEF Core
  <1>2. poly_bytes = SoleSize /\ Mem!Zeros(SoleSize) \in [1..SoleSize -> Words]
    BY <1>1, SizeFacts
  <1>3. Mem!set_shadow(Mem!Written([x \in {a} |-> Mem!Fill(0, poly_bytes)]))
    <2>1. ASSUME NEW e, e # "Ok", Mem!fail(e) PROVE FALSE
      BY <2>1 DEF Mem!fail
    <2>2. QED BY <2>1 DEF Mem!memset
  <1>4. Mem!Fill(0, poly_bytes) = Mem!Zeros(SoleSize)
    BY <1>2 DEF Mem!Fill, Mem!Zeros
  <1>5. a \in DOMAIN shadow_data' /\ shadow_data'[a] = Mem!Overlay(Mem!Staged(a), Mem!Zeros(SoleSize))
    BY <1>3, <1>4 DEF Mem!set_shadow, Mem!Written, Mem!Put
  <1>6. QED BY <1>1, <1>2, <1>5, WholeWrite

(* A flush brings back what the address is bound to: no two outputs have one name.      *)
LEMMA ResultWrites ==
  ASSUME Core, OneSize, NEW a \in Pending \cap alloc_set, Mem!update_shadow(a, ResultAt(a))
  PROVE  /\ a \in Bound /\ ResultAt(a) = poly_map[a].val
         /\ a \in DOMAIN shadow_data' /\ shadow_data'[a] = poly_map[a].val
  <1>1. PICK b \in Pending \cap Bound : /\ reg.pending_outputs[b] = reg.pending_outputs[a]
                                        /\ ResultAt(a) = poly_map[b].val
    BY ResultIsBound
  <1>2. b = a
    BY <1>1 DEF Core, EpochInv, GP!Good, GP!Outputs, GP!IsInjective, Pending
  <1>3. ResultAt(a) \in [1..SoleSize -> Words] /\ poly_bytes = SoleSize
    BY <1>1, SizeFacts DEF Core, Values
  <1>4. Len(ResultAt(a)) = SoleSize
    BY <1>3, SizeFacts
  <1>5. [i \in 1..poly_bytes |-> IF i <= Len(ResultAt(a)) THEN ResultAt(a)[i] ELSE 0] = ResultAt(a)
    BY <1>3, <1>4, SizeFacts
  <1>6. a \in DOMAIN shadow_data' /\ shadow_data'[a] = ResultAt(a)
    BY <1>5 DEF Mem!update_shadow, Mem!set_shadow, Mem!Put
  <1>7. QED BY <1>1, <1>2, <1>6

-----------------------------------------------------------------------------
(* The invariant. *)

Writing(c) == c.fn \in {"h2d", "memset"}
ToWrite(c) == IF c.fn = "h2d" THEN Upload ELSE Mem!Zeros(SoleSize)

(* Between the two sections of a write, the shadow holds what is written or what a      *)
(* flush put over it.                                                                   *)
Between(c) ==
  Writing(c) => /\ c.dst \notin DOMAIN truth
                /\ c.dst \in DOMAIN shadow_data \ overtaken => shadow_data[c.dst] = ToWrite(c)

(* What an address was last given is what it is bound to, and what its shadow holds     *)
(* unless a result is still to be brought back; a result that is has a binding.         *)
Current(a) ==
  /\ a \in Bound => poly_map[a].val = truth[a]
  /\ a \in DOMAIN shadow_data \ unflushed => shadow_data[a] = truth[a]
  /\ a \in unflushed => a \in Bound
  /\ a \in delivered => a \in DOMAIN shadow_data /\ shadow_data[a] = truth[a]

Fresh ==
  /\ \A t \in Threads : Between(call[t])
  /\ \A a \in DOMAIN truth : Current(a)

FreshInv == CalmInv /\ (Settled => Fresh)

-----------------------------------------------------------------------------
(* Steps that touch some addresses only. *)

Same(a) ==
  /\ a \in DOMAIN truth' => a \in DOMAIN truth /\ truth'[a] = truth[a]
  /\ a \in unflushed' <=> a \in unflushed
  /\ a \in overtaken' <=> a \in overtaken
  /\ a \in Bound' <=> a \in Bound
  /\ a \in Bound => poly_map'[a].val = poly_map[a].val
  /\ a \in DOMAIN shadow_data' <=> a \in DOMAIN shadow_data
  /\ a \in DOMAIN shadow_data => shadow_data'[a] = shadow_data[a]
  /\ a \in delivered' <=> a \in delivered

LEMMA SameStaysCurrent ==
  ASSUME NEW a, Same(a), a \in DOMAIN truth', Current(a)
  PROVE  Current(a)'
  BY DEF Same, Current

LEMMA SameStaysBetween ==
  ASSUME NEW c, Between(c), Same(c.dst)
  PROVE  Between(c)'
  BY DEF Same, Between, Writing, ToWrite, Mem!Zeros

(* Of the addresses X that t touches, none is being written by another. *)
Apart(t, X) == \A u \in Threads \ {t} : Writing(call[u]) => call[u].dst \notin X

LEMMA LocalStep ==
  ASSUME Fresh, NEW t \in Threads, NEW c, Moves(t, c), NEW X, Apart(t, X),
         \A a : a \notin X => Same(a),
         Between(c)', \A a \in X : a \in DOMAIN truth' => Current(a)'
  PROVE  Fresh'
  <1>1. ASSUME NEW u \in Threads PROVE Between(call[u])'
    <2>1. CASE u = t
      <3>1. call'[u] = c
        BY <2>1 DEF Moves
      <3>2. QED BY <3>1 DEF Between, Writing, ToWrite, Mem!Zeros
    <2>2. CASE u # t
      <3>1. call'[u] = call[u] /\ Between(call[u])
        BY <2>2 DEF Moves, Fresh
      <3>2. ASSUME Writing(call[u]) PROVE Same(call[u].dst)
        BY <2>2, <3>2 DEF Apart
      <3>3. QED BY <3>1, <3>2 DEF Same, Between, Writing, ToWrite, Mem!Zeros
    <2>3. QED BY <2>1, <2>2
  <1>2. ASSUME NEW a \in DOMAIN truth' PROVE Current(a)'
    <2>1. CASE a \in X
      BY <2>1
    <2>2. CASE a \notin X
      <3>1. Same(a) /\ a \in DOMAIN truth
        BY <2>2 DEF Same
      <3>2. Current(a)
        BY <3>1 DEF Fresh
      <3>3. QED BY <3>1, <3>2, SameStaysCurrent
    <2>3. QED BY <2>1, <2>2
  <1>3. QED BY <1>1, <1>2 DEF Fresh

LEMMA FreshQuiet ==
  ASSUME FreshInv, CalmInv', NEW t \in Threads, NEW step, step # "idle", Starts(t) \/ At(t, step),
         ~Resetting(t), NEW c, Moves(t, c), c.fn # "reset",
         SettledInv /\ Fresh => Fresh'
  PROVE  FreshInv'
  <1>1. Settled' => Settled
    BY QuietStep DEF FreshInv, CalmInv
  <1>2. QED BY <1>1 DEF FreshInv, CalmInv

(* A section that moves no value. *)
LEMMA ControlFresh ==
  ASSUME FreshInv, CalmInv', NEW t \in Threads, NEW step, step # "idle", Starts(t) \/ At(t, step),
         ~Resetting(t), NEW c, Moves(t, c), c.fn # "reset",
         ~Writing(c) \/ (c.fn = call[t].fn /\ c.dst = call[t].dst),
         UNCHANGED <<truth, unflushed, overtaken, poly_map, shadow_data, delivered>>
  PROVE  FreshInv'
  <1>1. \A a : Same(a)
    BY DEF Same, Bound
  <1>2. ASSUME Fresh PROVE Between(c)'
    <2>1. Between(call[t])
      BY <1>2 DEF Fresh
    <2>2. QED BY <2>1 DEF Between, Writing, ToWrite, Mem!Zeros
  <1>3. Apart(t, {})
    BY DEF Apart
  <1>4. ASSUME Fresh PROVE Fresh'
    BY <1>1, <1>2, <1>3, <1>4, LocalStep
  <1>5. QED BY <1>4, FreshQuiet

(* The addresses of t are not those of another's write. *)
LEMMA OwnersApart ==
  ASSUME SettledInv, NEW t \in Threads, NEW X, X \subseteq Hand(t)
  PROVE  Apart(t, X)
  BY DEF SettledInv, Ownership, Apart, Writing, OperandsIn, Hand

LEMMA IdleWritesNothing == ~Writing(Idle) /\ Between(Idle) /\ Idle.fn # "reset"
  BY IdleFacts DEF Writing, Between

(* Where no flush is delivering, nothing counts as delivered. *)
LEMMA NothingDelivered ==
  ASSUME Core, \A u \in Threads : call[u].at # "populate"
  PROVE  delivered = {}
  BY DEF Core, Delivering

-----------------------------------------------------------------------------
(* The calls, section by section. *)

LEMMA RingDimensionFresh ==
  ASSUME FreshInv, NEW t \in Threads, NEW n \in PolySizes, hazeSetRingDimension(t, n)
  PROVE  FreshInv'
  <1> DEFINE c == [at |-> "resize", fn |-> "resize", dst |-> n, src |-> Mem!Null, dim |-> 0]
  <1>1. Core' /\ Moves(t, c) /\ CalmInv'
    BY RingDimensionCore, RingDimensionCalm DEF FreshInv, CalmInv
  <1>2. /\ Starts(t) /\ ~Resetting(t)
        /\ UNCHANGED <<truth, unflushed, overtaken, poly_map, shadow_data, delivered>>
    BY StartsIdle DEF hazeSetRingDimension, shadows, epochVars, ghosts
  <1>3. ~Writing(c) /\ c.fn # "reset"
    BY DEF Writing
  <1> HIDE DEF c
  <1>4. QED BY <1>1, <1>2, <1>3, ControlFresh

LEMMA ResizeFresh ==
  ASSUME FreshInv, NEW t \in Threads, Resize(t)
  PROVE  FreshInv'
  <1>1. Moves(t, Idle) /\ CalmInv' /\ UNCHANGED shadow_data
    BY ResizeCore, ResizeCalm DEF FreshInv, CalmInv
  <1>2. At(t, "resize") /\ UNCHANGED <<truth, unflushed, overtaken, poly_map, delivered>>
    BY DEF Resize, epochVars, ghosts
  <1>3. ~Resetting(t)
    BY <1>2, IdleFacts DEF At, FreshInv, CalmInv, Core, CallsShaped, Shaped, ResetSteps, Resetting
  <1>4. QED BY <1>1, <1>2, <1>3, IdleWritesNothing, ControlFresh

LEMMA MontgomeryFresh ==
  ASSUME FreshInv, NEW t \in Threads, NEW b \in BOOLEAN, hazeSetMontgomery(t, b)
  PROVE  FreshInv'
  <1>1. Moves(t, Idle) /\ CalmInv' /\ Starts(t) /\ ~Resetting(t)
    BY MontgomeryCore, MontgomeryCalm, StartsIdle DEF FreshInv, CalmInv, hazeSetMontgomery
  <1>2. UNCHANGED <<truth, unflushed, overtaken, poly_map, shadow_data, delivered>>
    BY DEF hazeSetMontgomery, epochVars, ghosts, shadows
  <1>3. QED BY <1>1, <1>2, IdleWritesNothing, ControlFresh

LEMMA NextSameOperands ==
  ASSUME NEW t, ~Resetting(t), NEW step
  PROVE  /\ Next_(t, step).fn # "reset"
         /\ Next_(t, step).fn = call[t].fn /\ Next_(t, step).dst = call[t].dst
  BY DEF Next_, Resetting

LEMMA BringUpFresh ==
  ASSUME FreshInv, NEW t \in Threads, FastPath(t) \/ LockInit(t) \/ InitBackend(t) \/ EnterEpoch(t)
  PROVE  FreshInv'
  <1>1. PICK step \in SessionSteps : Moves(t, Next_(t, step))
    BY FastPathCore, LockInitCore, InitBackendCore, EnterEpochCore
    DEF FreshInv, CalmInv, SessionSteps
  <1>2. CalmInv'
    BY FastPathCalm, LockInitCalm, InitBackendCalm, EnterEpochCalm DEF FreshInv
  <1>3. PICK from \in SessionSteps : At(t, from)
    BY DEF FastPath, LockInit, InitBackend, EnterEpoch, SessionSteps
  <1>4. from # "idle" /\ ~Resetting(t)
    BY <1>3, SessionStep DEF FreshInv, CalmInv, SessionSteps
  <1>5. UNCHANGED <<truth, unflushed, overtaken, poly_map, shadow_data, delivered>>
    BY DEF FastPath, LockInit, InitBackend, EnterEpoch, shadows, epochVars, ghosts
  <1>6. QED BY <1>1, <1>2, <1>3, <1>4, <1>5, NextSameOperands, ControlFresh

LEMMA ReadRingDimFresh ==
  ASSUME FreshInv, NEW t \in Threads, ReadRingDim(t)
  PROVE  FreshInv'
  <1>1. CalmInv' /\ Moves(t, Read_(t)) /\ At(t, "locked") /\ ~Resetting(t)
    BY ReadRingDimCore, ReadRingDimCalm, SessionStep DEF FreshInv, CalmInv, ReadRingDim, SessionSteps
  <1>2. UNCHANGED <<truth, unflushed, overtaken, poly_map, shadow_data, delivered>>
    BY DEF ReadRingDim, shadows, epochVars, ghosts
  <1>3. /\ Read_(t).fn # "reset"
        /\ Read_(t).fn = call[t].fn /\ Read_(t).dst = call[t].dst
    BY <1>1 DEF Read_, Resetting
  <1>4. QED BY <1>1, <1>2, <1>3, ControlFresh

LEMMA OperationFresh ==
  ASSUME FreshInv, NEW t \in Threads, NEW d \in owned[t], NEW s \in owned[t], Operation(t, d, s)
  PROVE  FreshInv'
  <1> DEFINE c == [at |-> "session", fn |-> "op", dst |-> d, src |-> s, dim |-> 0]
  <1>1. Moves(t, c) /\ CalmInv' /\ Starts(t) /\ ~Resetting(t)
    BY OperationCore, OperationCalm, StartsIdle DEF FreshInv, CalmInv, Operation
  <1>2. UNCHANGED <<truth, unflushed, overtaken, poly_map, shadow_data, delivered>>
    BY DEF Operation, epochVars, ghosts, shadows
  <1>3. ~Writing(c) /\ c.fn # "reset"
    BY DEF Writing
  <1> HIDE DEF c
  <1>4. QED BY <1>1, <1>2, <1>3, ControlFresh

LEMMA FlushFresh ==
  ASSUME FreshInv, NEW t \in Threads, hazeFlush(t)
  PROVE  FreshInv'
  <1> DEFINE k == [at |-> "flush", fn |-> "flush", dst |-> Mem!Null, src |-> Mem!Null, dim |-> 0]
  <1>1. PICK c \in {Idle, k} : Moves(t, c)
    BY FlushCore DEF FreshInv, CalmInv
  <1>2. CalmInv' /\ Starts(t) /\ ~Resetting(t)
    BY FlushCalm, StartsIdle DEF FreshInv, CalmInv, hazeFlush
  <1>3. UNCHANGED <<truth, unflushed, overtaken, poly_map, shadow_data, delivered>>
    BY DEF hazeFlush, epochVars, ghosts, shadows
  <1>4. ~Writing(c) /\ c.fn # "reset"
    BY <1>1, IdleWritesNothing DEF Writing
  <1>5. QED BY <1>1, <1>2, <1>3, <1>4, ControlFresh

LEMMA TagOutputFresh ==
  ASSUME FreshInv, NEW t \in Threads, NEW a \in owned[t], hazeTagOutput(t, a)
  PROVE  FreshInv'
  <1>1. Moves(t, Idle) /\ CalmInv' /\ Starts(t) /\ ~Resetting(t)
    BY TagOutputCore, TagOutputCalm, StartsIdle DEF FreshInv, CalmInv, hazeTagOutput
  <1>2. UNCHANGED <<truth, unflushed, overtaken, poly_map, shadow_data, delivered>>
    BY TagOutputCore DEF hazeTagOutput, ghosts, FreshInv, CalmInv
  <1>3. QED BY <1>1, <1>2, IdleWritesNothing, ControlFresh

-----------------------------------------------------------------------------
(* Writes, in two sections: the shadow first, the epoch then. *)

LEMMA GhostsElsewhere ==
  ASSUME Core, NEW a \in Mem!DevAddrs, NEW f, DOMAIN f \subseteq {a}, Holds({a}, f)
  PROVE  /\ \A x : x # a => /\ x \in DOMAIN truth' => x \in DOMAIN truth /\ truth'[x] = truth[x]
                            /\ x \in unflushed' <=> x \in unflushed
                            /\ x \in overtaken' <=> x \in overtaken
         /\ a \in DOMAIN truth' <=> a \in DOMAIN f
         /\ a \in DOMAIN f => truth'[a] = f[a]
         /\ a \notin unflushed'
  <1>1. {a} \in SUBSET Mem!DevAddrs
    OBVIOUS
  <1>2. /\ DOMAIN truth' = (DOMAIN truth \ {a}) \cup DOMAIN f
        /\ \A x \in DOMAIN f : truth'[x] = f[x]
        /\ \A x \in DOMAIN truth \ {a} : truth'[x] = truth[x]
        /\ unflushed' = unflushed \ {a} /\ overtaken' = overtaken \ {a}
    BY <1>1, HoldsStep
  <1>3. QED BY <1>2

LEMMA ShadowElsewhere ==
  ASSUME NEW a, WritesOne(a)
  PROVE  \A x : x # a => /\ x \in DOMAIN shadow_data' <=> x \in DOMAIN shadow_data
                         /\ x \in DOMAIN shadow_data => shadow_data'[x] = shadow_data[x]
  BY DEF WritesOne

(* The first section. *)
LEMMA FirstSection ==
  ASSUME FreshInv, CalmInv', NEW t \in Threads, Starts(t), NEW a \in owned[t], NEW c, Moves(t, c),
         Writing(c), c.dst = a, WritesOne(a), Holds({a}, T!Empty), UNCHANGED <<poly_map, delivered>>,
         shadow_data'[a] = ToWrite(c)
  PROVE  FreshInv'
  <1>1. a \in Mem!DevAddrs /\ DOMAIN T!Empty \subseteq {a} /\ a \notin DOMAIN T!Empty
    BY OwnedAreDevice DEF FreshInv, CalmInv, T!Empty
  <1>2. /\ \A x : x # a => /\ x \in DOMAIN truth' => x \in DOMAIN truth /\ truth'[x] = truth[x]
                           /\ x \in unflushed' <=> x \in unflushed
                           /\ x \in overtaken' <=> x \in overtaken
        /\ a \notin DOMAIN truth'
    BY <1>1, GhostsElsewhere DEF FreshInv, CalmInv
  <1>3. \A x : x \notin {a} => Same(x)
    BY <1>2, ShadowElsewhere DEF Same, Bound
  <1>4. Between(c)'
    BY <1>2 DEF Between, Writing, ToWrite, Mem!Zeros
  <1>5. ASSUME SettledInv, Fresh PROVE Fresh'
    <2>1. Apart(t, {a})
      BY <1>5, OwnersApart DEF Hand
    <2>2. \A x \in {a} : x \in DOMAIN truth' => Current(x)'
      BY <1>2
    <2>3. QED BY <1>3, <1>4, <1>5, <2>1, <2>2, LocalStep
  <1>6. ~Resetting(t) /\ c.fn # "reset"
    BY StartsIdle DEF Writing
  <1>7. QED BY <1>5, <1>6, FreshQuiet

LEMMA CopyFresh ==
  ASSUME OneSize, FreshInv, NEW t \in Threads, NEW a \in owned[t], hazeMemcpyH2D(t, a)
  PROVE  FreshInv'
  <1> DEFINE c == [at |-> "session", fn |-> "h2d", dst |-> a, src |-> Mem!Null, dim |-> 0]
  <1>1. CalmInv' /\ Starts(t) /\ ~Resetting(t) /\ UNCHANGED <<poly_map, delivered>>
    BY CopyCalm, StartsIdle DEF FreshInv, hazeMemcpyH2D, epochVars
  <1>2. call' \in [Threads -> Calls] /\ call \in [Threads -> Calls] /\ call[t] = Idle
    BY <1>1, StartsIdle DEF FreshInv, CalmInv, Core, CallsShaped
  <1>3. CASE err' = "Ok"
    <2>1. Enters(t, "session", "h2d", a, Mem!Null) /\ Holds({a}, T!Empty)
      BY <1>3 DEF hazeMemcpyH2D
    <2>2. call'[t] = c
      BY <1>2, <2>1 DEF Enters
    <2>3. ~Moves(t, Idle)
      BY <2>2, IdleFacts DEF Moves
    <2> HIDE DEF c
    <2>4. Moves(t, c) /\ WritesOne(a)
      BY <2>3, CopyCore DEF FreshInv, CalmInv, c
    <2>5. shadow_data'[a] = Upload
      BY <1>3, UploadWrites DEF FreshInv, CalmInv, hazeMemcpyH2D
    <2>6. Writing(c) /\ c.dst = a /\ ToWrite(c) = Upload
      BY DEF Writing, ToWrite, c
    <2>7. QED BY <1>1, <2>1, <2>4, <2>5, <2>6, FirstSection
  <1>4. CASE err' # "Ok"
    <2>1. call' = call
      BY <1>4 DEF hazeMemcpyH2D
    <2>2. ~Moves(t, c)
      BY <1>2, <2>1, IdleFacts DEF Moves
    <2> HIDE DEF c
    <2>3. Moves(t, Idle) /\ UNCHANGED <<shadow_data, truth, unflushed, overtaken>>
      BY <2>2, CopyCore DEF FreshInv, CalmInv, c
    <2>4. QED BY <1>1, <2>3, IdleWritesNothing, ControlFresh
  <1>5. QED BY <1>3, <1>4

LEMMA MemsetFresh ==
  ASSUME OneSize, FreshInv, NEW t \in Threads, NEW a \in owned[t], hazeMemset(t, a)
  PROVE  FreshInv'
  <1> DEFINE c == [at |-> "memset", fn |-> "memset", dst |-> a, src |-> Mem!Null, dim |-> 0]
  <1>1. CalmInv' /\ Starts(t) /\ ~Resetting(t) /\ UNCHANGED <<poly_map, delivered>>
    BY MemsetCalm, StartsIdle DEF FreshInv, hazeMemset, epochVars
  <1>2. call' \in [Threads -> Calls] /\ call \in [Threads -> Calls] /\ call[t] = Idle
    BY <1>1, StartsIdle DEF FreshInv, CalmInv, Core, CallsShaped
  <1>3. CASE err' = "Ok"
    <2>1. Enters(t, "memset", "memset", a, Mem!Null) /\ Holds({a}, T!Empty)
      BY <1>3 DEF hazeMemset
    <2>2. call'[t] = c
      BY <1>2, <2>1 DEF Enters
    <2>3. ~Moves(t, Idle)
      BY <2>2, IdleFacts DEF Moves
    <2> HIDE DEF c
    <2>4. Moves(t, c) /\ WritesOne(a)
      BY <2>3, MemsetCore DEF FreshInv, CalmInv, c
    <2>5. shadow_data'[a] = Mem!Zeros(SoleSize)
      BY <1>3, MemsetWrites DEF FreshInv, CalmInv, hazeMemset
    <2>6. Writing(c) /\ c.dst = a /\ ToWrite(c) = Mem!Zeros(SoleSize)
      BY DEF Writing, ToWrite, c
    <2>7. QED BY <1>1, <2>1, <2>4, <2>5, <2>6, FirstSection
  <1>4. CASE err' # "Ok"
    <2>1. call' = call
      BY <1>4 DEF hazeMemset
    <2>2. ~Moves(t, c)
      BY <1>2, <2>1, IdleFacts DEF Moves
    <2> HIDE DEF c
    <2>3. Moves(t, Idle) /\ UNCHANGED <<shadow_data, truth, unflushed, overtaken>>
      BY <2>2, MemsetCore DEF FreshInv, CalmInv, c
    <2>4. QED BY <1>1, <2>3, IdleWritesNothing, ControlFresh
  <1>5. QED BY <1>3, <1>4

(* The second section: what no flush came before is now what the address was last given. *)
LEMMA WrittenElsewhere ==
  ASSUME Core, NEW a \in Mem!DevAddrs, NEW v, Written(a, v)
  PROVE  /\ \A x : x # a => /\ x \in DOMAIN truth' => x \in DOMAIN truth /\ truth'[x] = truth[x]
                            /\ x \in unflushed' <=> x \in unflushed
                            /\ x \in overtaken' <=> x \in overtaken
         /\ a \in DOMAIN truth' => a \notin overtaken /\ truth'[a] = v
         /\ a \notin unflushed'
  <1> DEFINE f == IF a \in overtaken THEN T!Empty ELSE one(a, v)
  <1>1. Holds({a}, f)
    BY DEF Written
  <1>2. DOMAIN f \subseteq {a} /\ (a \in DOMAIN f => a \notin overtaken /\ f[a] = v)
    BY DEF T!Empty, one
  <1> HIDE DEF f
  <1>3. QED BY <1>1, <1>2, GhostsElsewhere

LEMMA TagInputFresh ==
  ASSUME FreshInv, NEW t \in Threads, TagInput(t)
  PROVE  FreshInv'
  <1>0. PICK a : a = call[t].dst
    OBVIOUS
  <1>1. /\ CalmInv' /\ Moves(t, Idle) /\ At(t, "read") /\ call[t].fn = "h2d"
        /\ call[t].at = "read"
    BY TagInputCore, TagInputCalm DEF FreshInv, CalmInv, TagInput, At
  <1>2. /\ UNCHANGED <<shadow_data, delivered>>
        /\ (Tagged(a) /\ Written(a, Upload)) \/ (SameEpoch /\ UNCHANGED ghosts)
    BY <1>0, TagInputEffect DEF TagInput, Leaves
  <1>3. ~Resetting(t) /\ delivered = {} /\ a \in Mem!DevAddrs
    <2>1. ~Resetting(t) /\ a \in Mem!DevAddrs
      BY <1>0, <1>1, SessionStep, SessionCall DEF FreshInv, CalmInv, SessionSteps
    <2>2. \A u \in Threads : call[u].at # "populate"
      BY <1>1, LeavesStep DEF FreshInv, CalmInv, TagInput
    <2>3. QED BY <2>1, <2>2, NothingDelivered DEF FreshInv, CalmInv
  <1>4. CASE SameEpoch /\ UNCHANGED ghosts
    BY <1>1, <1>2, <1>3, <1>4, IdleWritesNothing, ControlFresh DEF SameEpoch, ghosts
  <1>5. CASE Tagged(a) /\ Written(a, Upload)
    <2>1. ASSUME SettledInv, Fresh PROVE Fresh'
      <3>1. Between(call[t]) /\ Writing(call[t]) /\ ToWrite(call[t]) = Upload
        BY <1>1, <2>1 DEF Fresh, Writing, ToWrite
      <3>2. \A x : x \notin {a} => Same(x)
        BY <1>2, <1>3, <1>5, WrittenElsewhere DEF Tagged, Same, FreshInv, CalmInv
      <3>3. \A x \in {a} : x \in DOMAIN truth' => Current(x)'
        <4>1. SUFFICES ASSUME a \in DOMAIN truth' PROVE Current(a)'
          OBVIOUS
        <4>2. a \notin overtaken /\ truth'[a] = Upload /\ a \notin unflushed'
          BY <1>3, <1>5, <4>1, WrittenElsewhere DEF FreshInv, CalmInv
        <4>3. a \in DOMAIN shadow_data /\ shadow_data[a] = Upload
          BY <1>0, <1>5, <3>1, <4>2 DEF Tagged, Between
        <4>4. QED BY <1>2, <1>3, <1>5, <4>2, <4>3 DEF Current, Tagged
      <3>4. Apart(t, {a})
        <4>1. a \in owned[t]
          BY <1>0, <1>1, <2>1 DEF SettledInv, Ownership, OperandsIn
        <4>2. QED BY <2>1, <4>1, OwnersApart DEF Hand
      <3>5. Between(Idle)'
        BY IdleWritesNothing DEF Between, Writing, Idle
      <3>6. QED BY <1>1, <2>1, <3>2, <3>3, <3>4, <3>5, LocalStep
    <2>2. QED BY <1>1, <1>3, <2>1, IdleWritesNothing, FreshQuiet
  <1>6. QED BY <1>2, <1>4, <1>5

LEMMA DropBindingFresh ==
  ASSUME OneSize, FreshInv, NEW t \in Threads, DropBinding(t)
  PROVE  FreshInv'
  <1>0. PICK a : a = call[t].dst
    OBVIOUS
  <1>1. /\ CalmInv' /\ Moves(t, Idle) /\ At(t, "memset") /\ call[t].fn = "memset" /\ a \in Mem!DevAddrs
        /\ call[t].at = "memset"
    BY <1>0, DropBindingCore, DropBindingCalm DEF FreshInv, CalmInv, DropBinding, At
  <1>2. Invalidated(a) /\ Written(a, Mem!Zeros(poly_bytes)) /\ UNCHANGED <<shadow_data, delivered>>
    BY <1>0 DEF DropBinding, shadows
  <1>3. ~Resetting(t) /\ delivered = {}
    <2>1. ~Resetting(t)
      BY <1>1, SessionStep DEF FreshInv, CalmInv
    <2>2. \A u \in Threads : call[u].at # "populate"
      BY <1>2, NobodyPopulates DEF FreshInv, CalmInv, Invalidated
    <2>3. QED BY <2>1, <2>2, NothingDelivered DEF FreshInv, CalmInv
  <1>4. Bound' = Bound \ {a} /\ \A x \in Bound' : poly_map'[x] = poly_map[x]
    BY <1>1, <1>2, ForgetEffect DEF FreshInv, CalmInv, Core
  <1>5. ASSUME SettledInv, Fresh PROVE Fresh'
    <2>1. Between(call[t]) /\ Writing(call[t]) /\ ToWrite(call[t]) = Mem!Zeros(SoleSize)
      BY <1>1, <1>5 DEF Fresh, Writing, ToWrite
    <2>2. a \in owned[t]
      BY <1>0, <1>1, <1>5 DEF SettledInv, Ownership, OperandsIn
    <2>3. poly_bytes = SoleSize
      BY <1>5, <2>2, SizeFacts DEF SettledInv, Ownership, Hand, FreshInv, CalmInv
    <2>4. \A x : x \notin {a} => Same(x)
      BY <1>1, <1>2, <1>4, WrittenElsewhere DEF Same, FreshInv, CalmInv
    <2>5. \A x \in {a} : x \in DOMAIN truth' => Current(x)'
      <3>1. SUFFICES ASSUME a \in DOMAIN truth' PROVE Current(a)'
        OBVIOUS
      <3>2. a \notin overtaken /\ truth'[a] = Mem!Zeros(SoleSize) /\ a \notin unflushed'
        BY <1>1, <1>2, <2>3, <3>1, WrittenElsewhere DEF FreshInv, CalmInv
      <3>3. a \in DOMAIN shadow_data => shadow_data[a] = Mem!Zeros(SoleSize)
        BY <1>0, <2>1, <3>2 DEF Between
      <3>4. QED BY <1>2, <1>3, <1>4, <3>2, <3>3 DEF Current
    <2>6. Apart(t, {a})
      BY <1>5, <2>2, OwnersApart DEF Hand
    <2>7. Between(Idle)'
      BY IdleWritesNothing DEF Between, Writing, Idle
    <2>8. QED BY <1>1, <1>5, <2>4, <2>5, <2>6, <2>7, LocalStep
  <1>6. QED BY <1>1, <1>3, <1>5, IdleWritesNothing, FreshQuiet

-----------------------------------------------------------------------------
(* Addresses come and go. *)

LEMMA MallocFresh ==
  ASSUME FreshInv, NEW t \in Threads, hazeMalloc(t)
  PROVE  FreshInv'
  <1> DEFINE N == alloc_set' \ alloc_set
  <1>1. /\ CalmInv' /\ Moves(t, Idle) /\ Starts(t) /\ ~Resetting(t)
        /\ UNCHANGED <<shadow_data, poly_map, delivered>> /\ Holds(N, T!Empty)
    BY MallocCore, MallocCalm, StartsIdle DEF FreshInv, CalmInv, hazeMalloc, epochVars
  <1>2. /\ DOMAIN truth' = DOMAIN truth \ N /\ \A x \in DOMAIN truth \ N : truth'[x] = truth[x]
        /\ unflushed' = unflushed \ N /\ overtaken' = overtaken \ N
    <2>1. N \in SUBSET Mem!DevAddrs /\ DOMAIN T!Empty = {}
      BY <1>1 DEF CalmInv, Core, DeviceOnly, Mem!DevAddrs, T!Empty
    <2> HIDE DEF N
    <2>2. QED BY <1>1, <2>1, HoldsStep DEF FreshInv, CalmInv
  <1>3. \A x : x \notin N => Same(x)
    BY <1>1, <1>2 DEF Same, Bound
  <1>4. \A x \in N : x \in DOMAIN truth' => Current(x)'
    BY <1>2
  <1>5. ASSUME SettledInv, Fresh PROVE Fresh'
    <2>1. Apart(t, N)
      BY <1>5 DEF SettledInv, Ownership, Hand, Apart, Writing, OperandsIn
    <2>2. Between(Idle)'
      BY IdleWritesNothing DEF Between, Writing, Idle
    <2> HIDE DEF N
    <2>3. QED BY <1>1, <1>3, <1>4, <1>5, <2>1, <2>2, LocalStep
  <1>6. QED BY <1>1, <1>5, IdleWritesNothing, FreshQuiet

LEMMA FreeFresh ==
  ASSUME FreshInv, NEW t \in Threads, NEW a \in owned[t], hazeFree(t, a)
  PROVE  FreshInv'
  <1> DEFINE c == [at |-> "free", fn |-> "free", dst |-> a, src |-> Mem!Null, dim |-> 0]
  <1>1. /\ CalmInv' /\ Moves(t, c) /\ Starts(t) /\ ~Resetting(t)
        /\ Invalidated(a) /\ Holds({a}, T!Empty) /\ UNCHANGED <<shadow_data, delivered>>
    BY FreeCore, FreeCalm, StartsIdle DEF FreshInv, CalmInv, hazeFree, shadows
  <1>2. ~Writing(c) /\ c.fn # "reset"
    BY DEF Writing
  <1> HIDE DEF c
  <1>3. a \in Mem!DevAddrs /\ DOMAIN T!Empty \subseteq {a} /\ a \notin DOMAIN T!Empty
    BY OwnedAreDevice DEF FreshInv, CalmInv, T!Empty
  <1>4. Bound' = Bound \ {a} /\ \A x \in Bound' : poly_map'[x] = poly_map[x]
    BY <1>1, <1>3, ForgetEffect DEF FreshInv, CalmInv, Core
  <1>5. /\ \A x : x # a => /\ x \in DOMAIN truth' => x \in DOMAIN truth /\ truth'[x] = truth[x]
                           /\ x \in unflushed' <=> x \in unflushed
                           /\ x \in overtaken' <=> x \in overtaken
        /\ a \notin DOMAIN truth'
    BY <1>1, <1>3, GhostsElsewhere DEF FreshInv, CalmInv
  <1>6. \A x : x \notin {a} => Same(x)
    BY <1>1, <1>4, <1>5 DEF Same
  <1>7. ASSUME SettledInv, Fresh PROVE Fresh'
    <2>1. Apart(t, {a})
      BY <1>7, OwnersApart DEF Hand
    <2>2. Between(c)' /\ \A x \in {a} : x \in DOMAIN truth' => Current(x)'
      BY <1>2, <1>5 DEF Between, Writing
    <2>3. QED BY <1>1, <1>6, <1>7, <2>1, <2>2, LocalStep
  <1>8. QED BY <1>1, <1>2, <1>7, FreshQuiet

LEMMA ReleaseFresh ==
  ASSUME FreshInv, NEW t \in Threads, Release(t)
  PROVE  FreshInv'
  <1>0. PICK a : a = call[t].dst
    OBVIOUS
  <1>1. /\ CalmInv' /\ Moves(t, Idle) /\ At(t, "free") /\ ~Resetting(t) /\ call[t].fn = "free"
        /\ DOMAIN shadow_data' = DOMAIN shadow_data \ {a}
        /\ \A x \in DOMAIN shadow_data' : shadow_data'[x] = shadow_data[x]
    BY <1>0, ReleaseCore, ReleaseCalm, SessionStep DEF FreshInv, CalmInv, Release
  <1>2. UNCHANGED <<truth, unflushed, overtaken, poly_map, delivered>>
    BY DEF Release, epochVars, ghosts
  <1>3. \A x : x \notin {a} => Same(x)
    BY <1>1, <1>2 DEF Same, Bound
  <1>4. ASSUME SettledInv, Fresh PROVE Fresh'
    <2>1. a \in Hand(t) /\ a \notin Bound
      BY <1>0, <1>1, <1>4 DEF SettledInv, Forgotten, Traces, Hand, Returning
    <2>2. a \notin delivered
      BY <2>1 DEF FreshInv, CalmInv, Core, EpochInv, Delivering, GP!FlushResolves, Pending, Bound
    <2>3. \A x \in {a} : x \in DOMAIN truth' => Current(x)'
      <3>1. SUFFICES ASSUME a \in DOMAIN truth' PROVE Current(a)'
        OBVIOUS
      <3>2. a \notin unflushed /\ a \notin Bound'
        BY <1>2, <1>4, <2>1, <3>1 DEF Fresh, Current, Bound
      <3>3. QED BY <1>1, <1>2, <2>2, <3>2 DEF Current
    <2>4. Apart(t, {a})
      BY <1>4, <2>1, OwnersApart
    <2>5. Between(Idle)'
      BY IdleWritesNothing DEF Between, Writing, Idle
    <2>6. QED BY <1>1, <1>3, <1>4, <2>3, <2>4, <2>5, LocalStep
  <1>5. QED BY <1>1, <1>4, IdleWritesNothing, FreshQuiet

-----------------------------------------------------------------------------
(* Operations. *)

(* What an operation finds for an operand is what the address was last given.           *)
LEMMA SourceIsCurrent ==
  ASSUME Fresh, NEW s \in DOMAIN truth, s \in Bound \/ s \in DOMAIN shadow_data
  PROVE  Source(s) = truth[s]
  BY DEF Fresh, Current, Source

LEMMA RecordFresh ==
  ASSUME FreshInv, NEW t \in Threads, Record(t)
  PROVE  FreshInv'
  <1>0. PICK d, s : d = call[t].dst /\ s = call[t].src
    OBVIOUS
  <1>1. PICK step \in {"locked", "read"} : At(t, step)
    BY DEF Record
  <1>8. /\ CalmInv' /\ Moves(t, Idle) /\ call[t].fn = "op"
        /\ call[t].at = step /\ step # "idle"
    BY <1>1, RecordCore, RecordCalm DEF FreshInv, CalmInv, Record, At
  <1>2. PICK S \in {{}, {s}} : shadow_data' = T!Drop(shadow_data, S)
    BY <1>0, RecordEffect
  <1>3. /\ UNCHANGED <<overtaken, delivered>>
        /\ \/ /\ Recorded(d, s)
              /\ truth' = T!Put(T!Drop(truth, {d}),
                                IF s \in DOMAIN truth THEN one(d, Eval(<<truth[s]>>)) ELSE T!Empty)
              /\ unflushed' = unflushed \cup {d}
           \/ Unrecorded(s) /\ UNCHANGED <<truth, unflushed>>
    BY <1>0, RecordEffect DEF Record, Leaves
  <1>4. ~Resetting(t) /\ delivered = {}
    <2>1. ~Resetting(t)
      BY <1>1, SessionStep DEF FreshInv, CalmInv, SessionSteps
    <2>2. \A u \in Threads : call[u].at # "populate"
      BY <1>1, <1>8, LeavesStep DEF FreshInv, CalmInv, Record
    <2>3. QED BY <2>1, <2>2, NothingDelivered DEF FreshInv, CalmInv
  <1>5. /\ DOMAIN shadow_data' = DOMAIN shadow_data \ S
        /\ \A x \in DOMAIN shadow_data' : shadow_data'[x] = shadow_data[x]
    BY <1>2 DEF T!Drop, T!Restrict
  <1>6. ASSUME SettledInv, Fresh PROVE Fresh'
    <2>1. Apart(t, {d, s})
      BY <1>0, <1>8, <1>6, OwnersApart DEF SettledInv, Ownership, OperandsIn, Hand
    <2>2. Between(Idle)'
      BY IdleWritesNothing DEF Between, Writing, Idle
    <2>3. (\A x : x \notin {d, s} => Same(x)) /\ \A x \in {d, s} : x \in DOMAIN truth' => Current(x)'
      <3>1. CASE Unrecorded(s) /\ UNCHANGED <<truth, unflushed>>
        <4>1. Bound' = Bound /\ \A x \in Bound : poly_map'[x] = poly_map[x]
          BY <3>1 DEF Unrecorded
        <4>2. \A x : x \notin {d, s} => Same(x)
          BY <1>2, <1>3, <1>5, <3>1, <4>1 DEF Same
        <4>3. \A x : x \in DOMAIN truth' => Current(x)'
          BY <1>3, <1>4, <1>5, <1>6, <3>1, <4>1 DEF Fresh, Current
        <4>4. QED BY <4>2, <4>3
      <3>2. ASSUME Recorded(d, s),
                   truth' = T!Put(T!Drop(truth, {d}),
                                  IF s \in DOMAIN truth THEN one(d, Eval(<<truth[s]>>)) ELSE T!Empty),
                   unflushed' = unflushed \cup {d}
            PROVE  (\A x : x \notin {d, s} => Same(x)) /\ \A x \in {d, s} : x \in DOMAIN truth' => Current(x)'
        <4>1. /\ \A x : x # d => (x \in DOMAIN truth' <=> x \in DOMAIN truth)
              /\ \A x \in DOMAIN truth \ {d} : truth'[x] = truth[x]
              /\ d \in DOMAIN truth' => s \in DOMAIN truth /\ truth'[d] = Eval(<<truth[s]>>)
          <5>1. CASE s \in DOMAIN truth
            BY <3>2, <5>1 DEF T!Put, T!Drop, T!Restrict, one
          <5>2. CASE s \notin DOMAIN truth
            BY <3>2, <5>2 DEF T!Put, T!Drop, T!Restrict, T!Empty
          <5>3. QED BY <5>1, <5>2
        <4>2. /\ Bound' = Bound \cup {s, d} /\ poly_map'[d].val = Eval(<<Source(s)>>)
              /\ s # d => poly_map'[s].val = Source(s)
              /\ \A x \in Bound \ {d} : poly_map'[x] = poly_map[x]
              /\ s \in DOMAIN truth => Source(s) = truth[s]
          BY <1>6, <3>2, SourceIsCurrent DEF Recorded
        <4>3. \A x : x \notin {d, s} => Same(x)
          BY <1>2, <1>3, <1>5, <3>2, <4>1, <4>2 DEF Same
        <4>4. d \in DOMAIN truth' => Current(d)'
          BY <1>3, <1>4, <3>2, <4>1, <4>2 DEF Current
        <4>5. s # d /\ s \in DOMAIN truth' => Current(s)'
          <5>1. SUFFICES ASSUME s # d, s \in DOMAIN truth' PROVE Current(s)'
            OBVIOUS
          <5>2. s \in DOMAIN truth /\ truth'[s] = truth[s] /\ Current(s)
            BY <1>6, <4>1, <5>1 DEF Fresh
          <5>3. QED BY <1>3, <1>4, <1>5, <3>2, <4>2, <5>1, <5>2 DEF Current
        <4>6. QED BY <4>3, <4>4, <4>5
      <3>3. QED BY <1>3, <3>1, <3>2
    <2>4. QED BY <1>8, <1>6, <2>1, <2>2, <2>3, LocalStep
  <1>7. QED BY <1>1, <1>8, <1>4, <1>6, IdleWritesNothing, FreshQuiet

-----------------------------------------------------------------------------
(* Flush. *)

(* An epoch is over that delivered `done`: what it did not deliver is lost.             *)
LEMMA EpochOver ==
  ASSUME Core, Fresh, NEW t \in Threads, NEW c, Moves(t, c), ~Writing(c), NEW done, EpochEnds(done),
         recording, recording' = FALSE, Bound' = {}, UNCHANGED shadow_data, delivered' = {},
         \A a \in done \cap DOMAIN truth : a \in DOMAIN shadow_data => shadow_data[a] = truth[a]
  PROVE  Fresh'
  <1>1. /\ unflushed' = unflushed \ done /\ overtaken' = overtaken
        /\ truth' = T!Drop(truth, unflushed')
    BY FinishCore
  <1>2. /\ DOMAIN truth' = DOMAIN truth \ unflushed'
        /\ \A x \in DOMAIN truth' : truth'[x] = truth[x]
    BY <1>1 DEF T!Drop, T!Restrict
  <1>3. ASSUME NEW u \in Threads PROVE Between(call[u])'
    <2>1. CASE u = t
      BY <2>1 DEF Moves, Between, Writing
    <2>2. CASE u # t
      <3>1. call'[u] = call[u] /\ Between(call[u])
        BY <2>2 DEF Moves, Fresh
      <3>2. QED BY <1>1, <1>2, <3>1 DEF Between, Writing, ToWrite, Mem!Zeros
    <2>3. QED BY <2>1, <2>2
  <1>4. ASSUME NEW a \in DOMAIN truth' PROVE Current(a)'
    <2>1. a \in DOMAIN truth /\ truth'[a] = truth[a] /\ a \notin unflushed' /\ Current(a)
      BY <1>2 DEF Fresh
    <2>2. a \in DOMAIN shadow_data => shadow_data[a] = truth[a]
      BY <1>1, <2>1 DEF Current
    <2>3. QED BY <2>1, <2>2 DEF Current
  <1>5. QED BY <1>3, <1>4 DEF Fresh

LEMMA FlushStartFresh ==
  ASSUME FreshInv, NEW t \in Threads, FlushStart(t)
  PROVE  FreshInv'
  <1>1. /\ CalmInv' /\ At(t, "flush") /\ ~Resetting(t)
        /\ Finishes(t) \/ Delivers(t)
    BY FlushStartCalm, FlushStartEffect, SessionStep DEF FreshInv, CalmInv, FlushStart
  <1>2. delivered = {} /\ call \in [Threads -> Calls] /\ Core
    <2>1. \A u \in Threads : call[u].at # "populate"
      BY FlushStartEffect, NobodyPopulates DEF FreshInv, CalmInv
    <2>2. QED BY <2>1, NothingDelivered DEF FreshInv, CalmInv, Core, CallsShaped
  <1>3. CASE Delivers(t)
    <2>1. Moves(t, Next_(t, "populate"))
      <3>1. call'[t].at = "populate"
        BY <1>2, <1>3 DEF Delivers, GoesTo, Calls
      <3>2. ~Moves(t, Idle)
        BY <3>1, IdleFacts DEF Moves
      <3>3. QED BY <3>2, FlushStartCore DEF FreshInv, CalmInv
    <2>2. UNCHANGED <<truth, unflushed, overtaken, poly_map, shadow_data, delivered>>
      BY <1>2, <1>3 DEF Delivers, epochVars
    <2>3. QED BY <1>1, <2>1, <2>2, NextSameOperands, ControlFresh
  <1>4. CASE Finishes(t)
    <2>1. Moves(t, Idle)
      <3>1. call'[t] = Idle
        BY <1>2, <1>4 DEF Finishes, Returns
      <3>2. ~Moves(t, Next_(t, "populate"))
        BY <3>1, IdleFacts DEF Moves, Next_
      <3>3. QED BY <3>2, FlushStartCore DEF FreshInv, CalmInv
    <2>2. EpochEnds({}) /\ delivered' = {}
      BY <1>2, <1>4 DEF Finishes
    <2>3. /\ UNCHANGED <<owned, overtaken>> /\ unflushed' = unflushed
          /\ truth' = IF recording /\ ~recording' THEN T!Drop(truth, unflushed') ELSE truth
      BY <1>2, <2>2, FinishCore
    <2>4. CASE SameEpoch /\ UNCHANGED <<shadow_data, recording>>
      <3>1. truth' = truth
        BY <2>3, <2>4
      <3>2. UNCHANGED <<truth, unflushed, overtaken, poly_map, shadow_data, delivered>>
        BY <1>2, <2>2, <2>3, <2>4, <3>1 DEF SameEpoch
      <3>3. QED BY <1>1, <2>1, <3>2, IdleWritesNothing, ControlFresh
    <2>5. CASE recording /\ \E e \in AP!Errors : ended(Here, e)
      <3>1. recording' = FALSE /\ Bound' = {} /\ shadow_data' = shadow_data
        BY <2>5, ClearEffect
      <3>2. ASSUME Fresh PROVE Fresh'
        BY <1>2, <2>1, <2>2, <2>5, <3>1, <3>2, IdleWritesNothing, EpochOver
      <3>3. QED BY <1>1, <2>1, <3>2, IdleWritesNothing, FreshQuiet
    <2>6. QED BY <1>4, <2>4, <2>5 DEF Finishes
  <1>5. QED BY <1>1, <1>3, <1>4

LEMMA PopulateFresh ==
  ASSUME OneSize, FreshInv, NEW t \in Threads, Populate(t)
  PROVE  FreshInv'
  <1>1. /\ CalmInv' /\ At(t, "populate") /\ ~Resetting(t) /\ call' = call
        /\ UNCHANGED <<truth, unflushed, poly_map>>
    BY PopulateCore, PopulateCalm, SessionStep DEF FreshInv, CalmInv, Populate, epochVars
  <1>2. PICK a \in (Pending \ delivered) \cap alloc_set :
          /\ WritesOne(a) /\ delivered' = delivered \cup {a}
          /\ Mem!update_shadow(a, ResultAt(a))
          /\ overtaken' = overtaken \cup {call[u].dst : u \in {v \in Threads :
                                   call[v].fn \in {"h2d", "memset"} /\ call[v].dst = a}}
    BY PopulateCore DEF FreshInv, CalmInv
  <1>3. a \in Bound /\ a \in DOMAIN shadow_data' /\ shadow_data'[a] = poly_map[a].val
    BY <1>2, ResultWrites DEF FreshInv, CalmInv
  <1>4. Moves(t, call[t]) /\ call[t].fn # "reset"
    BY <1>1 DEF Moves, Resetting
  <1>5. ASSUME Fresh PROVE Fresh'
    <2>1. ASSUME NEW u \in Threads PROVE Between(call[u])'
      <3>1. CASE Writing(call[u]) /\ call[u].dst = a
        <4>1. a \in overtaken' /\ a \notin DOMAIN truth
          BY <1>2, <1>5, <3>1 DEF Writing, Fresh, Between
        <4>2. QED BY <1>1, <3>1, <4>1 DEF Between, Writing
      <3>2. CASE call[u].dst # a
        <4>1. /\ call[u].dst \in DOMAIN shadow_data' => /\ call[u].dst \in DOMAIN shadow_data
                                                        /\ shadow_data'[call[u].dst] = shadow_data[call[u].dst]
              /\ overtaken \subseteq overtaken'
          BY <1>2, <3>2 DEF WritesOne
        <4>2. Between(call[u])
          BY <1>5 DEF Fresh
        <4>3. QED BY <1>1, <4>1, <4>2 DEF Between, Writing, ToWrite, Mem!Zeros
      <3>3. CASE ~Writing(call[u])
        BY <1>1, <3>3 DEF Between, Writing
      <3>4. QED BY <3>1, <3>2, <3>3
    <2>2. ASSUME NEW x \in DOMAIN truth' PROVE Current(x)'
      <3>1. Current(x)
        BY <1>1, <1>5 DEF Fresh
      <3>2. CASE x = a
        BY <1>1, <1>3, <3>1, <3>2 DEF Current, Bound
      <3>3. CASE x # a
        <4>1. /\ x \in DOMAIN shadow_data' <=> x \in DOMAIN shadow_data
              /\ x \in DOMAIN shadow_data => shadow_data'[x] = shadow_data[x]
              /\ x \in delivered' <=> x \in delivered
          BY <1>2, <3>3, ShadowElsewhere
        <4>2. QED BY <1>1, <3>1, <4>1 DEF Current, Bound
      <3>4. QED BY <3>2, <3>3
    <2>3. QED BY <2>1, <2>2 DEF Fresh
  <1>6. QED BY <1>1, <1>4, <1>5, FreshQuiet

LEMMA FlushEndFresh ==
  ASSUME FreshInv, NEW t \in Threads, FlushEnd(t)
  PROVE  FreshInv'
  <1>1. /\ CalmInv' /\ At(t, "populate") /\ ~Resetting(t) /\ Moves(t, Idle) /\ recording
        /\ EpochEnds(delivered) /\ Bound' = {} /\ recording' = FALSE /\ delivered' = {}
        /\ UNCHANGED shadow_data
    BY FlushEndCore, FlushEndCalm, SessionStep DEF FreshInv, CalmInv, FlushEnd
  <1>2. ASSUME Fresh PROVE Fresh'
    <2>1. \A a \in delivered \cap DOMAIN truth : a \in DOMAIN shadow_data => shadow_data[a] = truth[a]
      BY <1>2 DEF Fresh, Current
    <2>2. QED BY <1>1, <1>2, <2>1, IdleWritesNothing, EpochOver DEF FreshInv, CalmInv
  <1>3. QED BY <1>1, <1>2, IdleWritesNothing, FreshQuiet

-----------------------------------------------------------------------------
(* Device reset. *)

LEMMA ResettingFresh ==
  ASSUME FreshInv, NEW t \in Threads,
         \/ hazeDeviceReset(t) \/ ResetBackend(t) \/ ResetAllocator(t) \/ ResetConfig(t)
  PROVE  FreshInv'
  <1>1. CalmInv'
    BY DeviceResetCalm, ResetBackendCalm, ResetAllocatorCalm, ResetConfigCalm DEF FreshInv
  <1>2. call'[t].fn = "reset"
    <2>1. Core
      BY DEF FreshInv, CalmInv
    <2>2. CASE hazeDeviceReset(t)
      <3>1. PICK c : call'[t] = c /\ c = [at |-> "reset.backend", fn |-> "reset", dst |-> Mem!Null, src |-> Mem!Null, dim |-> 0]
        BY <2>1, <2>2, DeviceResetCore DEF Moves
      <3>2. QED BY <3>1
    <2>3. CASE ResetBackend(t)
      <3>1. call'[t] = Next_(t, "reset.allocator") /\ call[t].fn = "reset"
        BY <2>1, <2>3, ResetBackendCore DEF Moves
      <3>2. QED BY <3>1 DEF Next_
    <2>4. CASE ResetAllocator(t)
      <3>1. call'[t] = Next_(t, "reset.config") /\ call[t].fn = "reset"
        BY <2>1, <2>4, ResetAllocatorCore DEF Moves
      <3>2. QED BY <3>1 DEF Next_
    <2>5. CASE ResetConfig(t)
      <3>1. call'[t] = Next_(t, "reset.compiler") /\ call[t].fn = "reset"
        BY <2>1, <2>5, ResetConfigCore DEF Moves
      <3>2. QED BY <3>1 DEF Next_
    <2>6. QED BY <2>2, <2>3, <2>4, <2>5
  <1>3. QED BY <1>1, <1>2 DEF FreshInv, Settled, Resetting

LEMMA ResetCompilerFresh ==
  ASSUME FreshInv, NEW t \in Threads, ResetCompiler(t)
  PROVE  FreshInv'
  <1>1. CalmInv' /\ Moves(t, Idle) /\ Resetting(t)
    BY ResetCompilerCore, ResetCompilerCalm DEF FreshInv, CalmInv, Resetting
  <1>2. /\ call[t].at = "reset.compiler" /\ raced' = raced /\ UNCHANGED truth
    BY DEF ResetCompiler, At, ghosts
  <1>3. ASSUME Settled' PROVE Fresh'
    <2>1. ResetSoFar(t)
      BY <1>1, <1>2, <1>3 DEF Settled, FreshInv, CalmInv, ResetInv
    <2>2. DOMAIN truth' = {} /\ \A u \in Threads : call'[u] = Idle
      BY <1>1, <1>2, <2>1 DEF ResetSoFar, OthersIdle, Moves
    <2>3. QED BY <2>2, IdleWritesNothing DEF Fresh, Between, Writing
  <1>4. QED BY <1>1, <1>3 DEF FreshInv

-----------------------------------------------------------------------------
LEMMA InitFresh == Init => FreshInv
  <1> SUFFICES ASSUME Init PROVE FreshInv
    OBVIOUS
  <1>1. CalmInv
    BY InitCalm
  <1>2. DOMAIN truth = {} /\ \A t \in Threads : call[t] = Idle
    BY DEF Init, T!Empty
  <1>3. QED BY <1>1, <1>2, IdleWritesNothing DEF FreshInv, Fresh

LEMMA BeginFresh ==
  ASSUME OneSize, FreshInv, NEW t \in Threads, Begin(t)
  PROVE  FreshInv'
  <1>1. CASE Manage(t)
    BY <1>1, RingDimensionFresh, MontgomeryFresh, ResettingFresh DEF Manage
  <1>2. CASE ~Manage(t)
    BY <1>2, MallocFresh, FreeFresh, MemsetFresh, CopyFresh, TagOutputFresh, OperationFresh, FlushFresh
    DEF Begin
  <1>3. QED BY <1>1, <1>2

LEMMA ContinueFresh ==
  ASSUME OneSize, FreshInv, NEW t \in Threads, Continue(t)
  PROVE  FreshInv'
  BY ResizeFresh, BringUpFresh, ReadRingDimFresh, TagInputFresh, RecordFresh, ReleaseFresh,
     DropBindingFresh, FlushStartFresh, PopulateFresh, FlushEndFresh, ResettingFresh, ResetCompilerFresh
  DEF Continue

LEMMA StutterFresh ==
  ASSUME FreshInv, UNCHANGED threads
  PROVE  FreshInv'
  <1>1. CalmInv'
    BY StutterCalm DEF FreshInv
  <1>2. UNCHANGED <<call, raced, truth, unflushed, overtaken, poly_map, shadow_data, delivered>>
    BY DEF threads, shadows, epochVars, ghosts
  <1>3. (Settled' => Settled) /\ (Fresh => Fresh')
    BY <1>2 DEF Settled, Resetting, Fresh, Between, Writing, ToWrite, Current, Bound, Mem!Zeros
  <1>4. QED BY <1>1, <1>3 DEF FreshInv

LEMMA FreshInvariant ==
  ASSUME OneSize
  PROVE  Spec => []FreshInv
  <1>1. FreshInv /\ [Next]_threads => FreshInv'
    BY BeginFresh, ContinueFresh, StutterFresh DEF Next
  <1>2. QED BY <1>1, InitFresh, PTL DEF Spec

-----------------------------------------------------------------------------
(* The properties. *)

(* The D2H of an address returns what its thread last gave it, however the calls of     *)
(* the others interleave, in HazeThreads (haze.h:80-83, epoch.cpp, allocator.cpp).      *)
THEOREM ReadsAreCurrentForAll ==
  ASSUME OneSize
  PROVE  Spec => []ReadsAreCurrent
  <1>1. FreshInv => ReadsAreCurrent
    BY DEF FreshInv, Fresh, Current, ReadsAreCurrent
  <1>2. QED BY <1>1, FreshInvariant, PTL

(* An operation reads, through its binding, what the thread last gave the address: no   *)
(* binding outlives the value it was made for (epoch.cpp lookup_source).                *)
THEOREM BindingsAreCurrentForAll ==
  ASSUME OneSize
  PROVE  Spec => []BindingsAreCurrent
  <1>1. FreshInv => BindingsAreCurrent
    BY DEF FreshInv, Fresh, Current, BindingsAreCurrent
  <1>2. QED BY <1>1, FreshInvariant, PTL

(* A thread that holds the epoch leaves its flush by FlushEnd, and by no step of others. *)
LEMMA OnlyFlushEnd ==
  ASSUME Core, NEW t \in Threads, call[t].at = "populate", call'[t] = Idle,
         NEW u \in Threads, Begin(u) \/ Continue(u)
  PROVE  FlushEnd(t)
  <1>1. call[t] # Idle /\ call'[t] # call[t]
    BY IdleFacts
  <1>2. ASSUME NEW c, Moves(u, c), u # t PROVE FALSE
    BY <1>1, <1>2 DEF Moves
  <1>3. CASE Begin(u)
    <2>1. u # t
      BY <1>1, <1>3 DEF Begin, Manage, Starts, hazeSetRingDimension, hazeSetMontgomery, hazeDeviceReset,
         hazeMalloc, hazeFree, hazeMemset, hazeMemcpyH2D, hazeTagOutput, Operation, hazeFlush
    <2>2. CASE Manage(u)
      BY <1>2, <2>1, <2>2, RingDimensionCore, MontgomeryCore, DeviceResetCore DEF Manage
    <2>3. CASE hazeMalloc(u) \/ hazeFlush(u) \/ \E d, s \in owned[u] : Operation(u, d, s)
      BY <1>2, <2>1, <2>3, MallocCore, FlushCore, OperationCore
    <2>4. CASE \E a \in owned[u] : hazeFree(u, a) \/ hazeTagOutput(u, a)
      BY <1>2, <2>1, <2>4, FreeCore, TagOutputCore
    <2>5. CASE \E a \in owned[u] : hazeMemset(u, a) \/ hazeMemcpyH2D(u, a)
      BY <1>1, <1>2, <2>1, <2>5, MemsetCore, CopyCore
    <2>6. QED BY <1>3, <2>2, <2>3, <2>4, <2>5 DEF Begin
  <1>4. CASE Continue(u) /\ u # t
    <2>1. CASE \/ Resize(u) \/ FastPath(u) \/ LockInit(u) \/ InitBackend(u) \/ EnterEpoch(u)
               \/ ReadRingDim(u) \/ TagInput(u) \/ Record(u) \/ Release(u) \/ DropBinding(u)
      BY <1>2, <1>4, <2>1, ResizeCore, FastPathCore, LockInitCore, InitBackendCore, EnterEpochCore,
         ReadRingDimCore, TagInputCore, RecordCore, ReleaseCore, DropBindingCore
    <2>2. CASE FlushStart(u) \/ Populate(u) \/ FlushEnd(u)
      BY <1>1, <1>2, <1>4, <2>2, FlushStartCore, PopulateCore, FlushEndCore
    <2>3. CASE ResetBackend(u) \/ ResetAllocator(u) \/ ResetConfig(u) \/ ResetCompiler(u)
      BY <1>2, <1>4, <2>3, ResetBackendCore, ResetAllocatorCore, ResetConfigCore, ResetCompilerCore
    <2>4. QED BY <1>4, <2>1, <2>2, <2>3 DEF Continue
  <1>5. CASE Continue(u) /\ u = t
    <2>1. ~Populate(t)
      BY <1>1 DEF Populate
    <2>2. QED
      BY <1>5, <2>1 DEF Continue, At, Resize, FastPath, LockInit, InitBackend, EnterEpoch, ReadRingDim,
         TagInput, Record, Release, DropBinding, FlushStart, ResetBackend, ResetAllocator, ResetConfig, ResetCompiler
  <1>6. QED BY <1>3, <1>4, <1>5

LEMMA GoodEnd ==
  ASSUME NEW t \in Threads, FlushEnd(t), err' = "Ok"
  PROVE  Pending = delivered
  <1>1. ASSUME NEW e, e # "Ok", ended(Here, e) PROVE FALSE
    BY <1>1, ClearEffect
  <1>2. QED BY <1>1 DEF FlushEnd

(* A flush that ends well has delivered every tagged output, of whatever thread, and    *)
(* nothing done meanwhile took one away: HazeThreads' Populate and FlushEnd             *)
(* (epoch.cpp finalize_locked, populate_results_locked).                                *)
THEOREM FlushDeliversToAll ==
  ASSUME OneSize
  PROVE  Spec => FlushDelivers
  <1> DEFINE Delivered == \A t \in Threads :
                 Settled /\ call[t].at = "populate" /\ call'[t] = Idle /\ err' = "Ok" =>
                   \A a \in Pending \cap DOMAIN truth :
                     a \in DOMAIN shadow_data' /\ shadow_data'[a] = truth[a]
  <1>1. ASSUME FreshInv, Next PROVE Delivered
    <2> SUFFICES ASSUME NEW t \in Threads, Settled, call[t].at = "populate", call'[t] = Idle, err' = "Ok",
                        NEW a \in Pending \cap DOMAIN truth
                 PROVE  a \in DOMAIN shadow_data' /\ shadow_data'[a] = truth[a]
      OBVIOUS
    <2>1. Core /\ Fresh
      BY <1>1 DEF FreshInv, CalmInv
    <2>2. FlushEnd(t)
      BY <1>1, <2>1, OnlyFlushEnd DEF Next
    <2>3. a \in delivered /\ shadow_data' = shadow_data
      BY <2>1, <2>2, GoodEnd, FlushEndCore
    <2>4. QED BY <2>1, <2>3 DEF Fresh, Current
  <1>2. FreshInv /\ [Next]_threads => [Delivered]_threads
    BY <1>1
  <1>3. QED BY <1>2, FreshInvariant, PTL DEF Spec, FlushDelivers
=============================================================================
